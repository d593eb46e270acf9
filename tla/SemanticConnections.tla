--------------------------- MODULE SemanticConnections ---------------------------
(* Connections of a system instance (spar-hir-def, instance.rs): connection ends  *)
(* are put right and checked as the builder instantiates each component's         *)
(* connections; compute_semantic_connections then traces every connection through *)
(* the hierarchy to its ultimate ends, and expand_feature_group_connections adds  *)
(* the members of connected feature groups.                                       *)
(*                                                                                *)
(* The component tree is an input (SystemInstance models how it is built).  A     *)
(* name is <<identifier, spelling>>: the code compares some names exactly and     *)
(* some without regard to case.  A feature is a sequence of names: one, two for a *)
(* dotted `group.member`, none for a whole subcomponent.  Subprogram calls,       *)
(* nested feature groups, feature arrays and `in modes` are left out, and so is   *)
(* validate_connection_array_indices (instance.rs:2084), which adds diagnostics   *)
(* for element indices out of bounds and changes nothing else.                    *)
EXTENDS Integers, Sequences, FiniteSets, SequencesExt

CONSTANTS
    Instances,      \* the inputs: [components, declared], see InstanceAssumption
    NoSub,          \* ConnectionEnd::subcomponent is None
    NoEnd,          \* a connection end that is missing
    NotGroup,       \* FeatureKind other than FeatureGroup
    NoClassifier,   \* a feature group without a classifier
    MaxTraceDepth   \* MAX_TRACE_DEPTH

(* Components, modes and connections are kept in arenas, the members of a feature *)
(* group in a vector.  Parents come before their children, as they are allocated; *)
(* every connection belongs to a component.                                       *)
ASSUME InstanceAssumption ==
    /\ MaxTraceDepth \in Nat
    /\ \A s \in Instances :
         /\ s.components \in Seq(ToSet(s.components)) /\ s.declared \in Seq(ToSet(s.declared))
         /\ \A k \in DOMAIN s.components :
              /\ s.components[k].parent \in 0..(k - 1)
              /\ s.components[k].modes \in Seq(ToSet(s.components[k].modes))
              /\ \A f \in s.components[k].features :
                   f.members \notin {NotGroup, NoClassifier} => f.members \in Seq(ToSet(f.members))
         /\ \A c \in DOMAIN s.declared : s.declared[c].owner \in DOMAIN s.components

VARIABLES
    instance,       \* the component tree and the declared connections
    stage,          \* "build", "trace", "expand", "done"
    next,           \* the connection the current loop is at
    connections,    \* SystemInstance::connections
    semantic,       \* SystemInstance::semantic_connections
    diagnostics     \* SystemInstance::diagnostics, as [kind, conn]

connVars == <<instance, stage, next, connections, semantic, diagnostics>>

-----------------------------------------------------------------------------------
(* Components and names *)

Components == DOMAIN instance.components
Comp(k) == instance.components[k]
Declared == instance.declared

eq_ci(a, b) == a[1] = b[1]

(* What a loop over 1..n pushes that takes the members of S. *)
InOrder(S, n) ==
    LET pushed[k \in 0..n] ==
            IF k = 0 THEN << >>
            ELSE IF k \in S THEN Append(pushed[k - 1], k) ELSE pushed[k - 1]
    IN pushed[n]

Children(k) == {c \in Components : Comp(c).parent = k}

(* The child of exactly that name, or else all elements of the array of that name. *)
find_children_by_name(owner, sub) ==
    LET exact == {c \in Children(owner) : Comp(c).name = sub.name /\ Comp(c).elem = sub.elem}
        elements == {c \in Children(owner) : eq_ci(Comp(c).name, sub.name) /\ Comp(c).elem # 0}
        found == IF exact # {} THEN exact ELSE IF sub.elem = 0 THEN elements ELSE {}
    IN InOrder(found, Len(instance.components))

(* The children the builder's own checks take `sub` for: without regard to case. *)
NamedChildren(owner, sub) ==
    {c \in Children(owner) :
        eq_ci(Comp(c).name, sub.name) /\ (Comp(c).elem = sub.elem \/ sub.elem = 0)}

IsGroup(f) == f.members # NotGroup
MembersOf(f) == IF f.members = NoClassifier THEN << >> ELSE f.members
HasMember(f, name) == \E m \in ToSet(MembersOf(f)) : eq_ci(m, name)

-----------------------------------------------------------------------------------
(* Instantiation of a connection *)

(* An access end that names a child is the whole child. *)
FixAccess(owner, e) ==
    IF /\ e # NoEnd /\ e.sub = NoSub
       /\ \E c \in Children(owner) :
            Comp(c).elem = 0 /\ eq_ci(Comp(c).name, e.feature[1])
    THEN [sub |-> [name |-> e.feature[1], elem |-> 0], feature |-> << >>]
    ELSE e

(* The owner's feature groups that `sub` of the end names, if it is no child. *)
OwnGroups(owner, e) ==
    IF e = NoEnd \/ e.sub = NoSub \/ NamedChildren(owner, e.sub) # {} THEN {}
    ELSE {f \in Comp(owner).features : IsGroup(f) /\ eq_ci(f.name, e.sub.name)}

(* `group.member` is the owner's own feature. *)
fixup_own_feature_group_endpoint(owner, e) ==
    IF OwnGroups(owner, e) = {} THEN e
    ELSE [sub |-> NoSub, feature |-> <<e.sub.name>> \o e.feature]

MemberMissing(owner, e) ==
    \E f \in OwnGroups(owner, e) :
        MembersOf(f) # << >> /\ ~HasMember(f, e.feature[1])

(* An end names a feature that its component, whose features are known, lacks. *)
LacksFeature(k, name) ==
    /\ Comp(k).complete
    /\ \A f \in Comp(k).features :
         /\ ~eq_ci(f.name, name)
         /\ IsGroup(f) => MembersOf(f) # << >> /\ ~HasMember(f, name)

check_connection_end_feature(owner, e) ==
    /\ e # NoEnd /\ Len(e.feature) = 1
    /\ IF e.sub = NoSub
       THEN /\ \A c \in Children(owner) : ~eq_ci(Comp(c).name, e.feature[1])
            /\ LacksFeature(owner, e.feature[1])
       ELSE LET found == NamedChildren(owner, e.sub) IN
            found # {} /\ LacksFeature(Min(found), e.feature[1])

Diag(kind) == [kind |-> kind, conn |-> next]

InstantiateConnection ==
    /\ stage = "build" /\ next <= Len(Declared)
    /\ LET d == Declared[next]
           Fixed(e) == IF d.kind = "access" THEN FixAccess(d.owner, e) ELSE e
           src == fixup_own_feature_group_endpoint(d.owner, Fixed(d.src))
           dst == fixup_own_feature_group_endpoint(d.owner, Fixed(d.dst))
       IN /\ connections' = Append(connections,
                [owner |-> d.owner, kind |-> d.kind, src |-> src, dst |-> dst])
          /\ diagnostics' = diagnostics
                \cup {Diag("member") : e \in {f \in {Fixed(d.src), Fixed(d.dst)} :
                                                MemberMissing(d.owner, f)}}
                \cup {Diag("feature") : e \in {f \in {src, dst} :
                                                check_connection_end_feature(d.owner, f)}}
    /\ next' = next + 1
    /\ UNCHANGED <<instance, stage, semantic>>

-----------------------------------------------------------------------------------
(* Tracing *)

HasEnds(c) == connections[c].src # NoEnd /\ connections[c].dst # NoEnd
SubOf(e) == e.sub # NoSub
IsAcross(c) == HasEnds(c) /\ SubOf(connections[c].src) /\ SubOf(connections[c].dst)
IsUp(c) == HasEnds(c) /\ SubOf(connections[c].src) /\ ~SubOf(connections[c].dst)
IsDown(c) == HasEnds(c) /\ ~SubOf(connections[c].src) /\ SubOf(connections[c].dst)

OwnConnections(k) == {c \in DOMAIN connections : connections[c].owner = k}

Features == UNION {{e.feature : e \in {connections[c].src, connections[c].dst} \ {NoEnd}} :
                      c \in DOMAIN connections}
Ports == Components \X Features

Prefixed(c, found) == [r \in DOMAIN found |-> [port |-> found[r].port, path |-> <<c>> \o found[r].path]]

(* Where connection c leads whose inner end is e: into each child that e names. *)
Inner(k, c, e) ==
    LET subs == find_children_by_name(k, e.sub)
    IN [m \in DOMAIN subs |-> [conn |-> c, port |-> <<subs[m], e.feature>>]]

(* The connections inside a component that lead out of a port, and that lead on   *)
(* from it.                                                                       *)
UpHops(p) ==
    LET ups == InOrder({c \in OwnConnections(p[1]) :
                           IsUp(c) /\ connections[c].dst.feature = p[2]}, Len(connections))
    IN FlattenSeq([u \in DOMAIN ups |-> Inner(p[1], ups[u], connections[ups[u]].src)])
DownHops(p) ==
    LET downs == InOrder({c \in OwnConnections(p[1]) :
                             IsDown(c) /\ connections[c].src.feature = p[2]}, Len(connections))
    IN FlattenSeq([u \in DOMAIN downs |-> Inner(p[1], downs[u], connections[downs[u]].dst)])

(* The ports that the hops from a port end at, depth by depth; without any, the   *)
(* port itself.                                                                   *)
Traced(hops, port) ==
    LET trace[depth \in 0..MaxTraceDepth] ==
            [p \in DOMAIN hops |->
                LET deeper == IF depth = 0 THEN << >>
                              ELSE FlattenSeq([h \in DOMAIN hops[p] |->
                                       Prefixed(hops[p][h].conn, trace[depth - 1][hops[p][h].port])])
                IN IF deeper = << >> THEN <<[port |-> p, path |-> << >>]>> ELSE deeper]
    IN trace[MaxTraceDepth][port]

(* Mutant: the trace stops after one connection inwards. *)
trace_sources_Shallow(port) ==
    LET inner == UpHops(port)
    IN IF inner = << >> THEN <<[port |-> port, path |-> << >>]>>
       ELSE [h \in DOMAIN inner |-> [port |-> inner[h].port, path |-> <<inner[h].conn>>]]

(* The ultimate sources of a port, inwards along up connections. *)
trace_sources(port) == Traced([p \in Ports |-> UpHops(p)], port)
(* The ultimate destinations, inwards along down connections. *)
trace_destinations(port) == Traced([p \in Ports |-> DownHops(p)], port)

(* Every source with every destination, the connection itself first in the path. *)
Joined(c, sources, destinations) ==
    FlattenSeq([s \in DOMAIN sources |-> [d \in DOMAIN destinations |->
        [src |-> sources[s].port, dst |-> destinations[d].port, member |-> << >>,
         path |-> <<c>> \o sources[s].path \o destinations[d].path]]])

OneToOne(owner) == Comp(owner).pattern = "one_to_one"

Pairs(owner, srcs, dsts) ==
    IF OneToOne(owner)
    THEN [k \in 1..(IF Len(srcs) < Len(dsts) THEN Len(srcs) ELSE Len(dsts)) |-> <<srcs[k], dsts[k]>>]
    ELSE FlattenSeq([s \in DOMAIN srcs |-> [d \in DOMAIN dsts |-> <<srcs[s], dsts[d]>>]])

Tracing(c) == stage = "trace" /\ next = c /\ c \in DOMAIN connections
Advance == next' = next + 1 /\ UNCHANGED <<instance, stage, connections>>

MissingEnd(c) ==
    /\ Tracing(c) /\ ~HasEnds(c)
    /\ diagnostics' = diagnostics \cup {Diag("missing")}
    /\ Advance /\ UNCHANGED semantic

(* Mutant: arrays of different sizes are connected without a word. *)
TraceAcross_SizesUnchecked(c) ==
    /\ Tracing(c) /\ IsAcross(c)
    /\ LET conn == connections[c]
           srcs == find_children_by_name(conn.owner, conn.src.sub)
           dsts == find_children_by_name(conn.owner, conn.dst.sub)
           pairs == Pairs(conn.owner, srcs, dsts)
       IN /\ semantic' = semantic \o FlattenSeq([k \in DOMAIN pairs |->
                Joined(c, trace_sources(<<pairs[k][1], conn.src.feature>>),
                          trace_destinations(<<pairs[k][2], conn.dst.feature>>))])
          /\ diagnostics' = diagnostics
                \cup {Diag("unresolved") : e \in {s \in {srcs, dsts} : s = << >>}}
    /\ Advance

TraceAcross(c) ==
    /\ Tracing(c) /\ IsAcross(c)
    /\ LET conn == connections[c]
           srcs == find_children_by_name(conn.owner, conn.src.sub)
           dsts == find_children_by_name(conn.owner, conn.dst.sub)
           pairs == Pairs(conn.owner, srcs, dsts)
       IN /\ semantic' = semantic \o FlattenSeq([k \in DOMAIN pairs |->
                Joined(c, trace_sources(<<pairs[k][1], conn.src.feature>>),
                          trace_destinations(<<pairs[k][2], conn.dst.feature>>))])
          /\ diagnostics' = diagnostics
                \cup {Diag("unresolved") : e \in {s \in {srcs, dsts} : s = << >>}}
                \cup (IF OneToOne(conn.owner) /\ Len(srcs) # Len(dsts)
                      THEN {Diag("sizes")} ELSE {})
    /\ Advance

(* Up and down connections count by themselves only at the root: elsewhere they   *)
(* are part of what is traced from above.                                         *)
AtRoot(c) == Comp(connections[c].owner).parent = 0

(* One end is the root's own port. *)
TraceRoot(c) ==
    /\ Tracing(c) /\ (IsUp(c) \/ IsDown(c)) /\ AtRoot(c)
    /\ LET conn == connections[c]
           inner == IF IsUp(c) THEN conn.src ELSE conn.dst
           subs == find_children_by_name(conn.owner, inner.sub)
           own == <<[port |-> <<conn.owner, (IF IsUp(c) THEN conn.dst ELSE conn.src).feature>>,
                     path |-> << >>]>>
           Found(k) == IF IsUp(c) THEN Joined(c, trace_sources(<<k, inner.feature>>), own)
                       ELSE Joined(c, own, trace_destinations(<<k, inner.feature>>))
       IN /\ semantic' = semantic \o FlattenSeq([m \in DOMAIN subs |-> Found(subs[m])])
          /\ diagnostics' = diagnostics \cup (IF subs = << >> THEN {Diag("unresolved")} ELSE {})
    /\ Advance

(* Up or down inside a component, or between two of the owner's own features. *)
TraceSkip(c) ==
    /\ Tracing(c) /\ HasEnds(c) /\ ~IsAcross(c) /\ ~((IsUp(c) \/ IsDown(c)) /\ AtRoot(c))
    /\ Advance /\ UNCHANGED <<semantic, diagnostics>>

-----------------------------------------------------------------------------------
(* Feature groups *)

(* The first match, or the owner itself. *)
resolve_endpoint_component(owner, e) ==
    IF e.sub = NoSub THEN {owner}
    ELSE LET found == find_children_by_name(owner, e.sub)
         IN IF found = << >> THEN {} ELSE {Head(found)}

(* The groups with a classifier, declared by the component's own type, that an    *)
(* end names.                                                                     *)
EndGroups(k, feature) ==
    {f \in Comp(k).features : /\ IsGroup(f) /\ f.members # NoClassifier /\ ~f.inherited
                              /\ Len(feature) = 1 /\ eq_ci(f.name, feature[1])}

ExpandGroup(c, s, d, f, g) ==
    LET conn == connections[c]
        Matched(m) == {o \in DOMAIN g.members : eq_ci(g.members[o], f.members[m])}
        with == InOrder({m \in DOMAIN f.members : Matched(m) # {}}, Len(f.members))
    IN /\ s \in resolve_endpoint_component(conn.owner, conn.src)
       /\ d \in resolve_endpoint_component(conn.owner, conn.dst)
       /\ f \in EndGroups(s, conn.src.feature) /\ g \in EndGroups(d, conn.dst.feature)
       /\ semantic' = semantic \o [k \in DOMAIN with |->
            [src |-> <<s, conn.src.feature \o <<f.members[with[k]]>> >>,
             dst |-> <<d, conn.dst.feature \o <<g.members[Min(Matched(with[k]))]>> >>,
             member |-> <<f.members[with[k]]>>, path |-> <<c>>]]
       /\ diagnostics' = diagnostics \cup
            {Diag("unmatched") : m \in {x \in DOMAIN f.members : Matched(x) = {}}}

Expandable(c) ==
    /\ connections[c].kind = "group" /\ HasEnds(c)
    /\ \E s \in resolve_endpoint_component(connections[c].owner, connections[c].src),
          d \in resolve_endpoint_component(connections[c].owner, connections[c].dst) :
         EndGroups(s, connections[c].src.feature) # {} /\ EndGroups(d, connections[c].dst.feature) # {}

Expand(c) ==
    /\ stage = "expand" /\ next = c /\ c \in DOMAIN connections
    /\ \/ /\ Expandable(c)
          /\ \E s, d \in Components :
               \E f \in Comp(s).features, g \in Comp(d).features : ExpandGroup(c, s, d, f, g)
       \/ ~Expandable(c) /\ UNCHANGED <<semantic, diagnostics>>
    /\ Advance

-----------------------------------------------------------------------------------
NextStage == CASE stage = "build" -> "trace" [] stage = "trace" -> "expand" [] OTHER -> "done"

(* The end of a loop over the connections. *)
LoopEnd ==
    /\ stage \in {"build", "trace", "expand"}
    /\ next > Len(IF stage = "build" THEN Declared ELSE connections)
    /\ stage' = NextStage /\ next' = 1
    /\ UNCHANGED <<instance, connections, semantic, diagnostics>>

ConnInit ==
    /\ instance \in Instances
    /\ stage = "build" /\ next = 1
    /\ connections = << >> /\ semantic = << >> /\ diagnostics = {}

ConnNext ==
    \/ InstantiateConnection
    \/ \E c \in DOMAIN connections :
         MissingEnd(c) \/ TraceAcross(c) \/ TraceRoot(c) \/ TraceSkip(c) \/ Expand(c)
    \/ LoopEnd
===================================================================================
