--------------------------- MODULE MCInstanceAnalyses ----------------------------
(* Three families of instances.  In the first the root holds two components with  *)
(* others inside, joined in both directions, so that errors can go round; a       *)
(* connection may be absent, misspelt or lack an end.  In the second the root     *)
(* holds an array of two, with a component inside each element, and an array or a *)
(* single component; feature groups and access connections are joined.  In the    *)
(* third components are nested up to and beyond the trace depth.                  *)
EXTENDS InstanceAnalyses

CONSTANTS
    compP, compQ, compT, compU, compS, compR, compV,    \* components
    portIn, portOut, groupF, nameA, nameB, nameOdd,     \* features and modes
    errBad                                              \* an error type

N(x) == <<x, "lower">>
Upper(x) == <<x, "upper">>

Port(x) == [name |-> N(x), members |-> NotGroup, inherited |-> FALSE]
Group(x, ms) == [name |-> N(x), members |-> ms, inherited |-> FALSE]

InPort == Port(portIn)
OutPort == Port(portOut)

MCComp(name, elem, parent, features) ==
    [name |-> N(name), elem |-> elem, parent |-> parent, features |-> features, complete |-> TRUE,
     pattern |-> "none", modes |-> << >>, transitions |-> << >>, errors |-> {}]

End(sub, f) == [sub |-> [name |-> N(sub), elem |-> 0], feature |-> <<N(f)>>]
Misspelt(sub, f) == [sub |-> [name |-> Upper(sub), elem |-> 0], feature |-> <<N(f)>>]
Elem(sub, k, f) == [sub |-> [name |-> N(sub), elem |-> k], feature |-> <<N(f)>>]
Own(f) == [sub |-> NoSub, feature |-> <<N(f)>>]
Conn(owner, kind, src, dst) == [owner |-> owner, kind |-> kind, src |-> src, dst |-> dst]
Wire(owner, src, dst) == Conn(owner, "port", src, dst)

Receiver(types) == [dir |-> "in", types |-> types, negated |-> FALSE]
Sender(types) == [dir |-> "out", types |-> types, negated |-> FALSE]
Denied(types) == [dir |-> "in", types |-> types, negated |-> TRUE]

-----------------------------------------------------------------------------------
(* 1 the root, 2 compP with 3 compT inside, 4 compQ with 5 compU and 6 compV. *)

Both == {InPort, OutPort}
Relay == {Receiver({Upper(errBad)}), Sender({N(errBad)})}

Errors == <<
    [k \in 1..6 |-> IF k = 3 THEN {Sender({N(errBad), N(nameOdd)})} ELSE {Receiver({Upper(errBad)})}],
    [k \in 1..6 |-> IF k \in {3, 5} THEN Relay ELSE IF k = 6 THEN {Receiver({N(errBad)})} ELSE {}],
    [k \in 1..6 |-> IF k = 3 THEN Relay ELSE IF k = 5 THEN {Denied({N(errBad)})} ELSE {Receiver({N(errBad)})}]>>

Mode(x, i) == [name |-> N(x), initial |-> i]
Trans(a, b, g) == [source |-> Upper(a), destination |-> N(b), triggers |-> g]
ThreeModes == <<Mode(nameA, FALSE), Mode(nameB, TRUE), Mode(nameOdd, FALSE)>>
Machines == <<
    << << >>, << >> >>,
    <<ThreeModes, <<Trans(nameA, nameB, {N(portIn)}), Trans(nameB, nameA, {Upper(portIn)})>> >>,
    <<ThreeModes, <<Trans(nameA, nameOdd, {N(portOut)}), Trans(nameB, nameA, {N(portIn), N(nameA)}),
                    Trans(nameOdd, errBad, {})>> >> >>

Nest(errors, machine) ==
    LET Base(k) == CASE k = 1 -> MCComp(compP, 0, 0, Both) [] k = 2 -> MCComp(compP, 0, 1, Both)
                     [] k = 3 -> MCComp(compT, 0, 2, Both) [] k = 4 -> MCComp(compQ, 0, 1, Both)
                     [] k = 5 -> MCComp(compU, 0, 4, Both) [] k = 6 -> MCComp(compV, 0, 4, Both)
    IN [k \in 1..6 |-> [Base(k) EXCEPT !.errors = errors[k],
                            !.modes = IF k = 4 THEN machine[1] ELSE << >>,
                            !.transitions = IF k = 4 THEN machine[2] ELSE << >>]]

Feedback == Wire(1, End(compQ, portOut), End(compP, portIn))
RootPorts == <<Wire(1, End(compQ, portOut), Own(portOut)), Wire(1, Own(portIn), End(compP, portIn))>>

NestConns ==
    {pu \o pd \o <<Wire(4, Own(portIn), End(compU, portIn))>> \o qv \o qu \o qx \o rpq \o rqp :
        pu \in {<<Wire(2, End(compT, portOut), Own(portOut))>>,
                <<Wire(2, Misspelt(compT, portOut), Own(portOut))>>, << >>},
        pd \in {<<Wire(2, Own(portIn), End(compT, portIn))>>, <<Wire(2, Own(portIn), NoEnd)>>},
        qv \in {<<Wire(4, Own(portIn), End(compV, portIn))>>, << >>},
        qu \in {<<Wire(4, End(compU, portOut), Own(portOut))>>,
                <<Wire(4, End(compU, nameOdd), Own(portOut))>>},
        qx \in {<<Wire(4, End(compU, portOut), End(compV, portIn))>>, << >>},
        rpq \in {<<Wire(1, End(compP, portOut), End(compQ, portIn))>>,
                 <<Wire(1, End(compP, portOut), Misspelt(compQ, portIn))>>},
        rqp \in {<<Feedback>>, RootPorts, <<Feedback>> \o RootPorts}}

NestInstances ==
    {[components |-> Nest(Errors[n], Machines[n]), declared |-> c] : n \in 1..3, c \in NestConns}

(* compT sends an error to compU, which receives it and does not send it on, and  *)
(* compU is connected to compV.                                                   *)
ReceiverBetween ==
    {[components |-> Nest(Errors[1], Machines[1]),
      declared |-> <<Wire(2, End(compT, portOut), Own(portOut)),
                     Wire(1, End(compP, portOut), End(compQ, portIn)),
                     Wire(4, Own(portIn), End(compU, portIn)),
                     Wire(4, End(compU, portOut), End(compV, portIn))>>]}

-----------------------------------------------------------------------------------
(* 1 the root, 2 and 4 the elements of compS, 3 and 5 compT in each, 6 and 7 compR. *)

Groups == {
    <<Group(groupF, <<N(nameA), N(nameB)>>), Group(groupF, <<Upper(nameB), N(nameA)>>)>>,
    <<Group(groupF, <<N(nameA), N(nameB)>>), Group(groupF, <<N(nameB)>>)>>,
    <<Group(groupF, NoClassifier), Group(groupF, << >>)>>}

Arrays(pattern, rs, gs) ==
    LET Base(k) == CASE k = 1 -> [MCComp(compS, 0, 0, Both \cup {gs[1]}) EXCEPT !.pattern = pattern]
                     [] k \in {2, 4} -> MCComp(compS, k \div 2, 1, Both \cup {gs[1]})
                     [] k \in {3, 5} -> MCComp(compT, 0, k - 1, Both)
                     [] k \in {6, 7} -> MCComp(compR, IF rs = 1 THEN 0 ELSE k - 5, 1, {InPort, gs[2]})
    IN [k \in 1..(5 + rs) |-> [Base(k) EXCEPT
            !.errors = IF k \in {3, 5} THEN {Sender({N(errBad)})} ELSE {Receiver({N(errBad)})},
            !.modes = IF k >= 6 THEN <<Mode(nameA, TRUE), Mode(nameB, FALSE)>> ELSE << >>,
            !.transitions = IF k >= 6 THEN <<Trans(nameA, nameB, {N(portIn)})>> ELSE << >>]]

FgMember(m) == [sub |-> [name |-> N(groupF), elem |-> 0], feature |-> <<N(m)>>]
ArrayConns ==
    {<<Wire(2, End(compT, portOut), Own(portOut)), Wire(4, End(compT, portOut), Own(portOut))>> \o sr \o x :
        sr \in {<<Wire(1, e[1], e[2])>> :
                   e \in {<<End(compS, portOut), End(compR, portIn)>>,
                          <<Elem(compS, 2, portOut), End(compR, portIn)>>,
                          <<Elem(compS, 3, portOut), Elem(compR, 1, portIn)>>,
                          <<End(compS, portOut), NoEnd>>}},
        x \in {<<Conn(1, "group", End(compS, groupF), End(compR, groupF))>>,
               <<Conn(1, "group", Own(groupF), End(compR, groupF))>>,
               <<Conn(1, "access", Own(compR), End(compS, portIn))>>,
               <<Wire(1, FgMember(nameB), End(compS, portIn))>>,
               <<Wire(1, FgMember(nameOdd), Own(portIn))>>,
               <<Wire(1, End(compR, portIn), Own(nameOdd))>>}}

ArrayInstances ==
    {[components |-> Arrays(pat, rs, gs), declared |-> c] :
        pat \in {"none", "one_to_one"}, rs \in {1, 2}, gs \in Groups, c \in ArrayConns}

-----------------------------------------------------------------------------------
(* Components one inside the other, deeper than the trace goes on either side; the *)
(* root declares a mode twice.                                                     *)
TwiceNamed == <<Mode(nameA, TRUE), Mode(nameB, FALSE), Mode(nameA, FALSE)>>
Deep(depth) ==
    LET Base(k) == MCComp(IF k <= depth + 1 THEN compP ELSE compQ, 0,
                          IF k = depth + 2 THEN 1 ELSE k - 1, Both)
    IN [k \in 1..(2 * depth + 1) |-> [Base(k) EXCEPT
            !.modes = IF k = 1 THEN TwiceNamed ELSE << >>,
            !.transitions = IF k = 1 THEN <<Trans(nameA, nameB, {})>> ELSE << >>]]
DeepInstances ==
    {[components |-> Deep(d),
      declared |-> [k \in 1..(d - 1) |-> Wire(k + 1, End(compP, portOut), Own(portOut))]
                   \o [k \in 1..(d - 1) |-> Wire(d + k + 1, Own(portIn), End(compQ, portIn))]
                   \o <<Wire(1, End(compP, portOut), e)>>] :
        d \in 1..4, e \in {End(compQ, portIn), Own(portOut)}}

MCInstances == NestInstances \cup ArrayInstances \cup DeepInstances
===================================================================================
