---------------------------- MODULE MCSystemInstance ----------------------------
(* Three implementations: the root, and A and B, which may extend each other,     *)
(* contain each other, themselves or the root, directly, through inheritance or  *)
(* through an import; arrays of zero, two and a symbolic number of elements;     *)
(* refinements with and without classifier.                                      *)
EXTENDS SystemInstance

CONSTANTS rootImpl, implA, implB, subX, subY, mode1, mode2, mode3

MCImpls == {rootImpl, implA, implB}
MCNames == {subX, subY}
MCModeNames == {mode1, mode2, mode3}

Impl(i) == [kind |-> "impl", of |-> i]
Type(i) == [kind |-> "type", of |-> i]
Missing(i) == [kind |-> "missing", of |-> i]
NoCls == [kind |-> "none", of |-> NoImpl]

SubOf(name, cls, dim) == [name |-> name, cls |-> cls, dim |-> dim, indirect |-> FALSE, refined |-> FALSE]
Plain(name, cls) == SubOf(name, cls, NoDim)
Indirect(name, cls) == [Plain(name, cls) EXCEPT !.indirect = TRUE]
Refined(name, cls) == [Plain(name, cls) EXCEPT !.refined = TRUE]

RootSubs == {<<Plain(subX, Impl(implA))>>, <<Plain(subX, Impl(implA)), Plain(subY, Impl(implB))>>,
             <<SubOf(subX, Impl(implA), 2)>>, <<Indirect(subX, Impl(implB))>>, <<Plain(subX, Type(implA))>>,
             <<Refined(subX, Impl(implA)), Plain(subY, Impl(rootImpl))>>}
ASubs == {<< >>, <<Plain(subY, Impl(implB))>>, <<SubOf(subY, Impl(implB), 0)>>, <<Refined(subX, NoCls)>>,
          <<Plain(subY, Impl(rootImpl))>>, <<Refined(subX, Impl(implB)), SubOf(subY, NoCls, SymbolicDim)>>}
BSubs == {<< >>, <<Plain(subX, NoCls)>>, <<Plain(subX, Impl(implA))>>, <<SubOf(subX, Missing(implA), 2)>>,
          <<Indirect(subX, Impl(rootImpl))>>, <<Plain(subX, Impl(implB)), Plain(subY, Type(implA))>>}

Decl(e, s, t, im) == [extends |-> e, subs |-> s, typeModes |-> t, modes |-> im]

(* Modes of implA's type, of implA, and of implB. *)
ModeSets == {<< << >>, << >>, << >> >>, << <<mode1, mode2>>, <<mode2, mode3>>, <<mode1>> >>, << <<mode1, mode2>>, << >>, <<mode1, mode3>> >>}

(* The legal declarations: no name twice in a chain without `refined to`. *)
Ancestors3(d, i) ==
    LET p == d[i].extends IN
    IF p = NoImpl THEN {} ELSE {p} \cup (IF d[p].extends = NoImpl THEN {} ELSE {d[p].extends})
Legal(d) ==
    \A i \in MCImpls : \A j \in Ancestors3(d, i) \ {i} :
        \A s \in ToSet(d[i].subs), t \in ToSet(d[j].subs) : s.name = t.name => s.refined

MCDeclarations ==
    {d \in {[i \in MCImpls |-> CASE i = rootImpl -> Decl(re, rs, << >>, << >>)
                                 [] i = implA -> Decl(ae, as, ms[1], ms[2])
                                 [] i = implB -> Decl(be, bs, << >>, ms[3])] :
             re \in {NoImpl, implB}, ae \in {NoImpl, implB}, be \in {NoImpl, implA},
             rs \in RootSubs, as \in ASubs, bs \in BSubs, ms \in ModeSets} :
        Legal(d)}
================================================================================
