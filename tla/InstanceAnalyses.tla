---------------------------- MODULE InstanceAnalyses -----------------------------
(* From the declared connections of an instance to what two analyses make of them *)
(* (AnalysisRunner): the semantic connections are computed once, and the error    *)
(* propagation and the mode reachability passes read them.                        *)
EXTENDS ErrorPropagation, ModeReachability

vars == <<connVars, emvVars, modeVars>>

Init == ConnInit /\ EmvInit /\ ModeInit

(* run_all: the passes in the order they are registered. *)
Instantiate == ConnNext /\ UNCHANGED <<emvVars, modeVars>>
Emv2Pass == EmvNext /\ UNCHANGED modeVars
ModePass == emv = "done" /\ ModeNext /\ UNCHANGED emvVars

Next == Instantiate \/ Emv2Pass \/ ModePass \/ (mode = "done" /\ UNCHANGED vars)

Spec == Init /\ [][Next]_vars
(* A pass is one sequential computation. *)
FairSpec == Spec /\ WF_vars(Emv2Pass) /\ WF_vars(ModePass)

-----------------------------------------------------------------------------------
(* Properties *)

(* Every variable keeps its shape; each pass begins where the one before it ended, *)
(* and its working sets (visited, the call stack, the search queue) agree.         *)
TypeOK ==
    /\ stage \in {"build", "trace", "expand", "done"}
    /\ next \in 1..(Len(Declared) + 1)
    /\ \A c \in DOMAIN connections : connections[c].owner = Declared[c].owner
    /\ \A i \in DOMAIN semantic :
         /\ semantic[i].src[1] \in Components /\ semantic[i].dst[1] \in Components
         /\ semantic[i].path # << >> /\ ToSet(semantic[i].path) \subseteq DOMAIN connections
    /\ \A d \in diagnostics : d.conn \in DOMAIN connections
    /\ emv \in {"wait", "run", "done"} /\ mode \in {"wait", "run", "done"}
    /\ (emv # "wait" => stage = "done") /\ (mode # "wait" => emv = "done")
    /\ visited = (IF origin = << >> THEN {} ELSE {origin[1]} \cup ToSet(downstream))
    /\ \A f \in DOMAIN calls : calls[f].at \in visited
    /\ \A m \in ToSet(work) : m \in seen
    /\ start # 0 => seen \subseteq Modes(at) /\ start \in seen /\ Len(matrix) = start - 1

(* What connection c joins, end by end of the pairs it makes: <<from, c, to>>. *)
Ends(c, e) ==
    IF e.sub = NoSub THEN <<connections[c].owner>>
    ELSE find_children_by_name(connections[c].owner, e.sub)
LinksOf(c) ==
    IF ~HasEnds(c) THEN {}
    ELSE LET from == Ends(c, connections[c].src)
             to == Ends(c, connections[c].dst)
             zip == IsAcross(c) /\ OneToOne(connections[c].owner)
         IN {<< <<from[p[1]], connections[c].src.feature>>, c, <<to[p[2]], connections[c].dst.feature>> >> :
                p \in {q \in (DOMAIN from) \X (DOMAIN to) : zip => q[1] = q[2]}}
Links == UNION {LinksOf(c) : c \in DOMAIN connections}

(* Walks along the links: up out of components, once across or not at all, down   *)
(* into components.                                                               *)
Rank(l) == IF IsUp(l[2]) THEN 1 ELSE IF IsAcross(l[2]) THEN 2 ELSE 3
Follows(l, w) == l[1] = Last(w)[3] /\ Rank(Last(w)) <= Rank(l) /\ (Rank(l) = 2 => Rank(Last(w)) # 2)
Walks(links) ==
    LET walk[n \in 1..Len(connections)] ==
            IF n = 1 THEN {<<l>> : l \in links}
            ELSE UNION {{Append(w, l) : l \in {x \in links : Follows(x, w)}} : w \in walk[n - 1]}
    IN UNION {walk[n] : n \in 1..Len(connections)}

(* The walk goes over the top: across, or by one connection of the root.  Nothing *)
(* further inside leads to its first port or on from its last one, unless the     *)
(* trace has used up its depth on that side of the top.                           *)
Complete(w, links) ==
    LET Count(n) == Cardinality({k \in DOMAIN w : Rank(w[k]) = n})
        Spare(n) == Count(n) - (IF Count(2) = 0 /\ Count(n) > 0 THEN 1 ELSE 0) < MaxTraceDepth
        Over(n) == Count(n) - (IF Count(2) = 0 /\ Count(n) > 0 THEN 1 ELSE 0) > MaxTraceDepth
    IN /\ Count(2) = 0 => \/ Count(3) = 0 /\ AtRoot(Last(w)[2])
                          \/ Count(1) = 0 /\ AtRoot(w[1][2])
       /\ ~Over(1) /\ ~Over(3)
       /\ Count(1) + Count(2) > 0 /\ Spare(1) => ~ \E l \in links : IsUp(l[2]) /\ l[3] = w[1][1]
       /\ Count(3) + Count(2) > 0 /\ Spare(3) => ~ \E l \in links : IsDown(l[2]) /\ l[1] = Last(w)[3]

CompleteWalks ==
    LET links == {l \in Links : IsUp(l[2]) \/ IsAcross(l[2]) \/ IsDown(l[2])}
    IN {w \in Walks(links) : Complete(w, links)}

(* The traced semantic connections are, once each, the complete walks from an     *)
(* ultimate source to an ultimate destination, with the connections they use:     *)
(* fan-in, fan-out, arrays and patterns included (instance.rs:745-972).           *)
EndToEnd ==
    stage = "expand" /\ next = 1 =>
        LET walks == CompleteWalks IN
        /\ {<<sc.src, sc.dst, ToSet(sc.path)>> : sc \in ToSet(semantic)} =
           {<<w[1][1], Last(w)[3], {w[k][2] : k \in DOMAIN w}>> : w \in walks}
        /\ Len(semantic) = Cardinality(walks)

(* "Connection instances traversed, in the same order as `downstream`"            *)
(* (emv2_propagation.rs:107): the connection beside a component is one of those a *)
(* walk along the declared connections uses that ends at the component and began  *)
(* at the origin or at a component named before.                                  *)
ViaOnTheWay ==
    emv = "done" /\ chains # {} =>
        LET walks == CompleteWalks IN
        \A c \in chains :
            /\ Len(c.via) = Len(c.downstream)
            /\ \A k \in DOMAIN c.via : \E w \in walks :
                 /\ w[1][1][1] \in {c.origin} \cup {c.downstream[j] : j \in 1..(k - 1)}
                 /\ Last(w)[3][1] = c.downstream[k]
                 /\ c.via[k] \in {w[j][2] : j \in DOMAIN w}

Within(k, top) ==
    LET up[c \in Components] == c = top \/ (Comp(c).parent # 0 /\ up[Comp(c).parent]) IN up[k]

(* Where an instance is built without diagnostics, no across connection is lost:  *)
(* each child it names on either side, element by element, has a semantic         *)
(* connection through it (instance.rs:781-826, STPA-REQ-013).                     *)
CleanInstancesConnected ==
    stage = "done" /\ diagnostics = {} =>
        \A c \in DOMAIN connections :
            /\ HasEnds(c)
            /\ IsAcross(c) =>
                 \A k \in NamedChildren(connections[c].owner, connections[c].src.sub) :
                   \A n \in NamedChildren(connections[c].owner, connections[c].dst.sub) :
                     /\ \E i \in DOMAIN semantic :
                          c \in ToSet(semantic[i].path) /\ Within(semantic[i].src[1], k)
                     /\ \E i \in DOMAIN semantic :
                          c \in ToSet(semantic[i].path) /\ Within(semantic[i].dst[1], n)

(* A connection leads into the port. *)
Connects(k, feature) ==
    \E l \in Links : l[3][1] = k /\ Len(l[3][2]) = 1 /\ eq_ci(l[3][2][1], feature)

(* "Transitions whose trigger ports have no incoming connections"                 *)
(* (mode_reachability.rs:33): no connection leads into a trigger reported dead,   *)
(* where the component is not an element of an array.                             *)
DeadTriggersRight ==
    \A r \in reports : Comp(r.comp).elem = 0 => \A d \in r.dead : ~Connects(r.comp, d[2])

(* Once the instance is complete both passes end, also where connections, error   *)
(* propagations or mode transitions go round in circles (emv2_propagation.rs:23). *)
PassesFinish == stage = "done" ~> mode = "done"
===================================================================================
