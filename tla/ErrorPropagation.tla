---------------------------- MODULE ErrorPropagation -----------------------------
(* Propagation of declared errors along the semantic connections of an instance   *)
(* (spar-analysis, emv2_propagation.rs).  Each component carries the propagations *)
(* its EMV2 annex declares, [dir, types, negated]; a type is a name.  A recursive *)
(* call of `traverse` is a frame of a stack.  Error flows, which the traversal    *)
(* only copies to its report, are left out.                                       *)
EXTENDS SemanticConnections

VARIABLES
    emv,        \* "wait", "run", "done"
    origins,    \* (component, out type) pairs still to start from
    origin,     \* the pair of the traversal that is under way
    calls,      \* traverse's stack: [at, todo]
    visited,    \* components visited for the type
    downstream, \* components, in the order they are found
    via,        \* via_connections
    chains      \* ErrorPropagationReport::chains

emvVars == <<emv, origins, origin, calls, visited, downstream, via, chains>>

-----------------------------------------------------------------------------------
(* from_instance: negated propagations assert an absence and are not projected. *)
Propagations(k, dir) == {p \in Comp(k).errors : p.dir = dir /\ ~p.negated}

has_in_propagation_for(k, type) ==
    \E p \in Propagations(k, "in") : \E t \in p.types : eq_ci(t, type)

out_error_types(k) == UNION {p.types : p \in Propagations(k, "out")}

(* The destinations of a component's semantic connections, in their order, each   *)
(* with the connection that stands for the path, its last.                        *)
Outgoing(k) ==
    LET from == InOrder({i \in DOMAIN semantic : semantic[i].src[1] = k}, Len(semantic))
    IN [j \in DOMAIN from |-> [to |-> semantic[from[j]].dst[1],
                               conn |-> Last(semantic[from[j]].path)]]

(* The analysis pass starts when the instance is complete. *)
StartEmv ==
    /\ stage = "done" /\ emv = "wait"
    /\ emv' = "run"
    /\ origins' = UNION {{<<k, t>> : t \in out_error_types(k)} : k \in Components}
    /\ UNCHANGED <<connVars, origin, calls, visited, downstream, via, chains>>

(* Mutant: what an earlier traversal found is not cleared. *)
StartTraversal_Keep(k, t) ==
    /\ emv = "run" /\ calls = << >> /\ <<k, t>> \in origins
    /\ origins' = origins \ {<<k, t>>}
    /\ origin' = <<k, t>>
    /\ calls' = <<[at |-> k, todo |-> Outgoing(k)]>>
    /\ visited' = {k}
    /\ UNCHANGED <<connVars, emv, downstream, via, chains>>

(* Origins come in the order of a hash map's keys: any. *)
StartTraversal(k, t) ==
    /\ emv = "run" /\ calls = << >> /\ <<k, t>> \in origins
    /\ origins' = origins \ {<<k, t>>}
    /\ origin' = <<k, t>>
    /\ calls' = <<[at |-> k, todo |-> Outgoing(k)]>>
    /\ visited' = {k} /\ downstream' = << >> /\ via' = << >>
    /\ UNCHANGED <<connVars, emv, chains>>

Neighbor == Head(Last(calls).todo)
Rest == Append(Front(calls), [at |-> Last(calls).at, todo |-> Tail(Last(calls).todo)])
Takes(k) == k \notin visited /\ has_in_propagation_for(k, origin[2])

(* Mutants: a component that does not declare the error passes it on; each        *)
(* component is given the connection found first.                                 *)
Visit_Undeclared ==
    /\ emv = "run" /\ calls # << >> /\ Last(calls).todo # << >> /\ Neighbor.to \notin visited
    /\ visited' = visited \cup {Neighbor.to}
    /\ downstream' = Append(downstream, Neighbor.to)
    /\ via' = Append(via, Neighbor.conn)
    /\ calls' = Append(Rest, [at |-> Neighbor.to, todo |-> Outgoing(Neighbor.to)])
    /\ UNCHANGED <<connVars, emv, origins, origin, chains>>

Visit_Stale ==
    /\ emv = "run" /\ calls # << >> /\ Last(calls).todo # << >> /\ Takes(Neighbor.to)
    /\ visited' = visited \cup {Neighbor.to}
    /\ downstream' = Append(downstream, Neighbor.to)
    /\ via' = Append(via, IF via = << >> THEN Neighbor.conn ELSE Head(via))
    /\ calls' = Append(Rest, [at |-> Neighbor.to, todo |-> Outgoing(Neighbor.to)])
    /\ UNCHANGED <<connVars, emv, origins, origin, chains>>

(* A neighbour that receives the error is recorded and traversed in turn. *)
Visit ==
    /\ emv = "run" /\ calls # << >> /\ Last(calls).todo # << >> /\ Takes(Neighbor.to)
    /\ visited' = visited \cup {Neighbor.to}
    /\ downstream' = Append(downstream, Neighbor.to)
    /\ via' = Append(via, Neighbor.conn)
    /\ calls' = Append(Rest, [at |-> Neighbor.to, todo |-> Outgoing(Neighbor.to)])
    /\ UNCHANGED <<connVars, emv, origins, origin, chains>>

Pass ==
    /\ emv = "run" /\ calls # << >> /\ Last(calls).todo # << >> /\ ~Takes(Neighbor.to)
    /\ calls' = Rest
    /\ UNCHANGED <<connVars, emv, origins, origin, visited, downstream, via, chains>>

(* The call returns; the outermost one reports a chain unless nothing was found. *)
Return ==
    /\ emv = "run" /\ calls # << >> /\ Last(calls).todo = << >>
    /\ calls' = Front(calls)
    /\ chains' = IF Len(calls) = 1 /\ downstream # << >>
                 THEN chains \cup {[origin |-> origin[1], type |-> origin[2],
                                    downstream |-> downstream, via |-> via]}
                 ELSE chains
    /\ UNCHANGED <<connVars, emv, origins, origin, visited, downstream, via>>

FinishEmv ==
    /\ emv = "run" /\ calls = << >> /\ origins = {}
    /\ emv' = "done"
    /\ UNCHANGED <<connVars, origins, origin, calls, visited, downstream, via, chains>>

EmvInit ==
    /\ emv = "wait" /\ origins = {} /\ origin = << >> /\ calls = << >>
    /\ visited = {} /\ downstream = << >> /\ via = << >> /\ chains = {}

EmvNext ==
    \/ StartEmv
    \/ \E o \in origins : StartTraversal(o[1], o[2])
    \/ Visit \/ Pass \/ Return
    \/ FinishEmv

-----------------------------------------------------------------------------------
(* Properties *)

Receives(k, t) == has_in_propagation_for(k, t)
Sends(k, t) == \E s \in out_error_types(k) : eq_ci(s, t)
Connected(a, b) == \E i \in DOMAIN semantic : semantic[i].src[1] = a /\ semantic[i].dst[1] = b

(* A set that takes in whatever receives the error from the origin, or from one   *)
(* of its members that sends it on; the least such set is who must be named       *)
(* (REQ-EMV2-PROPAGATION-001).                                                    *)
Relayed(S, o, t) ==
    \A a \in S \cup {o}, b \in Components :
        (a = o \/ Sends(a, t)) /\ Connected(a, b) /\ Receives(b, t) => b \in S \cup {o}
Required(o, t) ==
    CHOOSE S \in SUBSET (Components \ {o}) :
        /\ Relayed(S, o, t)
        /\ \A R \in SUBSET (Components \ {o}) : Relayed(R, o, t) => S \subseteq R

ChainsOf(o, t) == {c \in chains : c.origin = o /\ c.type = t}

(* Whoever an error of the origin comes to over components that declare to        *)
(* receive it and to send it on is named, cycles or not; nobody twice, nobody who *)
(* does not receive the error, in at most one chain; and where all of them send   *)
(* it on, nobody else is (emv2_propagation.rs:318-418).                           *)
ChainsComplete ==
    emv = "done" =>
        \A o \in Components : \A t \in out_error_types(o) :
            LET due == Required(o, t) IN
            /\ Cardinality(ChainsOf(o, t)) <= 1
            /\ due # {} => ChainsOf(o, t) # {}
            /\ \A c \in ChainsOf(o, t) :
                 LET named == ToSet(c.downstream) IN
                 /\ due \subseteq named /\ Len(c.downstream) = Cardinality(named)
                 /\ \A k \in named : k # o /\ Receives(k, t)
                 /\ (\A k \in due : Sends(k, t)) => named = due

(* "The traversal shall recurse transitively through relay components that        *)
(* declare both in and out propagations for the same type"                        *)
(* (artifacts/requirements.yaml:2287): nobody is named whom the error reaches     *)
(* only through a component that does not send it on.  The code recurses from     *)
(* every component it names (emv2_propagation.rs:408).                            *)
OnlyRelaysPassOn ==
    emv = "done" =>
        \A c \in chains : ToSet(c.downstream) \subseteq Required(c.origin, c.type)
===================================================================================
