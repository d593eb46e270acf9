----------------------------- MODULE SystemInstance -----------------------------
(***************************************************************************)
(* SystemInstance::instantiate (spar-hir-def): the search for circular     *)
(* containment, the recursive expansion of the root implementation into    *)
(* component instances, and the system operation modes computed from them. *)
(*                                                                         *)
(* A recursive call is a frame of a stack.  A classifier reference is what *)
(* GlobalScope resolves it to; the search, which always qualifies a        *)
(* reference with a package, does not see what only an import or a rename  *)
(* of the using package leads to (indirect).  A declaration's reference    *)
(* resolves to one thing here.  The code resolves an inherited one again   *)
(* from the heir's package (instance.rs:1853), so an unqualified name that *)
(* the heir's package also declares, or cannot see, leads elsewhere: heirs *)
(* in such packages are left out, and so are features, connections, flows  *)
(* and properties.                                                         *)
(***************************************************************************)
EXTENDS Integers, Sequences, FiniteSets, SequencesExt

CONSTANTS
    Impls,          \* component implementations
    Root,           \* the implementation to instantiate
    Names,          \* names of subcomponents
    ModeNames,      \* names of modes
    Declarations,   \* possible contents of the item trees
    NoImpl,         \* an extends clause or a reference that leads nowhere
    NoDim,          \* a subcomponent that is not an array
    SymbolicDim,    \* an array dimension given by a property constant
    MaxDepth,       \* Builder::max_depth
    MaxSoms         \* MAX_SOMS

(* ClassifierRef: an implementation, a type (named by an implementation of  *)
(* it), a missing implementation of an existing type, or no classifier.     *)
Classifier == [kind : {"impl", "type", "missing"}, of : Impls] \cup
              [kind : {"none"}, of : {NoImpl}]

Subcomponent ==
    [name : Names, cls : Classifier, dim : Nat \cup {NoDim, SymbolicDim},
     indirect : BOOLEAN, refined : BOOLEAN]

(* ComponentImplItem, and the modes of its type. *)
Implementation ==
    [extends : Impls \cup {NoImpl}, subs : Seq(Subcomponent),
     typeModes : Seq(ModeNames), modes : Seq(ModeNames)]

ASSUME InstanceAssumption ==
    /\ IsFiniteSet(Impls) /\ Root \in Impls /\ NoImpl \notin Impls
    /\ NoDim \notin Nat /\ SymbolicDim \notin Nat /\ NoDim # SymbolicDim
    /\ MaxDepth \in Nat /\ MaxSoms \in Nat \ {0}
    /\ Declarations \subseteq [Impls -> Implementation]

VARIABLES
    decl,           \* the item trees
    chains,         \* collect_impl_chain of each implementation: item trees
                    \* do not change while they are instantiated
    phase,          \* "detect", "build", "soms" or "done"
    calls,          \* pending calls of dfs: classifier and next subcomponent
    visiting,       \* dfs: classifiers on the stack
    visited,        \* dfs: classifiers found free of cycles
    path,           \* dfs: labels on the way
    cycle,          \* the path the diagnostic names, or << >>
    components,     \* the arena of component instances
    frames,         \* pending calls of instantiate_component
    depth,          \* Builder::depth
    diagnostics,    \* the other diagnostics: kind and component instance
    modal,          \* compute_soms: modal components still to come
    soms            \* compute_soms: selections so far

detectVars == <<calls, visiting, visited, path, cycle>>
buildVars == <<components, frames, depth>>
somVars == <<modal, soms>>
input == <<decl, chains>>
vars == <<input, phase, detectVars, buildVars, diagnostics, somVars>>

(* What a loop over 1..n pushes that takes the members of S. *)
InOrder(S, n) ==
    LET pushed[k \in 0..n] ==
            IF k = 0 THEN << >>
            ELSE IF k \in S THEN Append(pushed[k - 1], k) ELSE pushed[k - 1]
    IN pushed[n]

--------------------------------------------------------------------------------
(* collect_impl_chain: what an implementation inherits.                    *)

(* The extends chain, the most general ancestor first; a chain that comes   *)
(* back to one of its members ends there.                                   *)
Chain(i) ==
    LET chain[n \in 0..Cardinality(Impls)] ==
            IF n = 0 THEN <<i>>
            ELSE LET c == chain[n - 1]
                     parent == decl[Head(c)].extends
                 IN IF parent \in Impls \ ToSet(c) THEN <<parent>> \o c ELSE c
    IN chain[Cardinality(Impls)]
CircularExtends(i) == decl[Head(Chain(i))].extends # NoImpl

(* Mutant: a refinement that names no classifier loses the original's. *)
Collect_LoseClassifier(collected, s) ==
    LET pos == SelectInSeq(collected, LAMBDA t : t.name = s.name) IN
    IF s.refined /\ pos # 0 THEN Append(RemoveAt(collected, pos), s) ELSE Append(collected, s)

(* A refinement replaces the first inherited subcomponent of its name and   *)
(* goes to the end; without a classifier it keeps the original's.           *)
Collect(collected, s) ==
    LET pos == SelectInSeq(collected, LAMBDA t : t.name = s.name) IN
    IF s.refined /\ pos # 0
    THEN LET original == collected[pos]
             cls == IF s.cls.kind = "none" THEN original.cls ELSE s.cls
             indirect == IF s.cls.kind = "none" THEN original.indirect ELSE s.indirect
         IN Append(RemoveAt(collected, pos), [s EXCEPT !.cls = cls, !.indirect = indirect])
    ELSE Append(collected, s)

AllSubs(i) ==
    LET chain == Chain(i) IN
    FoldLeft(Collect, << >>, FlattenSeq([k \in DOMAIN chain |-> decl[chain[k]].subs]))
AllImplModes(i) ==
    LET chain == Chain(i) IN FlattenSeq([k \in DOMAIN chain |-> decl[chain[k]].modes])

ImplChain(i) == [subs |-> AllSubs(i), modes |-> AllImplModes(i), circular |-> CircularExtends(i)]

--------------------------------------------------------------------------------
Init ==
    /\ decl \in Declarations
    /\ chains = [i \in Impls |-> ImplChain(i)]
    /\ phase = "detect"
    /\ calls = <<[key |-> Root, next |-> 1]>>
    /\ visiting = {Root} /\ visited = {} /\ path = <<Root>> /\ cycle = << >>
    /\ components = << >> /\ frames = << >> /\ depth = 0
    /\ diagnostics = {}
    /\ modal = << >> /\ soms = << >>

--------------------------------------------------------------------------------
(* detect_circular_containment.  The key of a reference that does not      *)
(* resolve is NoImpl: it has no subcomponents.                             *)

Key(s) == IF s.cls.kind = "impl" /\ ~s.indirect THEN s.cls.of ELSE NoImpl
OwnSubs(key) == IF key = NoImpl THEN << >> ELSE decl[key].subs

Top == Last(calls)
TopDone == Top.next > Len(OwnSubs(Top.key))
TopSub == OwnSubs(Top.key)[Top.next]
Recurses(s) == s.cls.kind \in {"impl", "missing"}
Advanced == [calls EXCEPT ![Len(calls)].next = @ + 1]

(* Mutant: a classifier that was already explored is looked at again. *)
DfsSkip_Again ==
    /\ phase = "detect" /\ calls # << >> /\ ~TopDone
    /\ ~Recurses(TopSub) \/ Key(TopSub) \in visited
    /\ calls' = IF Recurses(TopSub) THEN calls ELSE Advanced
    /\ UNCHANGED <<input, phase, visiting, visited, path, cycle, buildVars, diagnostics, somVars>>

(* A subcomponent without implementation, or with one already explored. *)
DfsSkip ==
    /\ phase = "detect" /\ calls # << >> /\ ~TopDone
    /\ ~Recurses(TopSub) \/ Key(TopSub) \in visited
    /\ calls' = Advanced
    /\ UNCHANGED <<input, phase, visiting, visited, path, cycle, buildVars, diagnostics, somVars>>

(* The classifier is on the stack: every pending call returns the message. *)
DfsCycle ==
    /\ phase = "detect" /\ calls # << >> /\ ~TopDone
    /\ Recurses(TopSub) /\ Key(TopSub) \notin visited /\ Key(TopSub) \in visiting
    /\ path' = Append(path, Key(TopSub))
    /\ cycle' = path'
    /\ calls' = << >>
    /\ phase' = "build"
    /\ UNCHANGED <<input, visiting, visited, buildVars, diagnostics, somVars>>

DfsEnter ==
    /\ phase = "detect" /\ calls # << >> /\ ~TopDone
    /\ Recurses(TopSub) /\ Key(TopSub) \notin visited \cup visiting
    /\ visiting' = visiting \cup {Key(TopSub)}
    /\ path' = Append(path, Key(TopSub))
    /\ calls' = Append(Advanced, [key |-> Key(TopSub), next |-> 1])
    /\ UNCHANGED <<input, phase, visited, cycle, buildVars, diagnostics, somVars>>

(* Mutant: the classifier is neither released nor recorded as explored. *)
DfsLeave_KeepVisiting ==
    /\ phase = "detect" /\ calls # << >> /\ TopDone
    /\ path' = Front(path)
    /\ calls' = Front(calls)
    /\ phase' = IF Len(calls) = 1 THEN "build" ELSE phase
    /\ UNCHANGED <<input, visiting, visited, cycle, buildVars, diagnostics, somVars>>

DfsLeave ==
    /\ phase = "detect" /\ calls # << >> /\ TopDone
    /\ path' = Front(path)
    /\ visiting' = visiting \ {Top.key}
    /\ visited' = visited \cup {Top.key}
    /\ calls' = Front(calls)
    /\ phase' = IF Len(calls) = 1 THEN "build" ELSE phase
    /\ UNCHANGED <<input, cycle, buildVars, diagnostics, somVars>>

--------------------------------------------------------------------------------
(* Builder::instantiate_component                                          *)

(* populate_from_type: the modes of the type, if it resolves. *)
TypeModes(cls) == IF cls.kind = "none" THEN << >> ELSE decl[cls.of].typeModes

NewComponent(name, elem, cls, parent) ==
    [name |-> name, elem |-> elem, cls |-> cls, parent |-> parent,
     children |-> << >>, modes |-> TypeModes(cls)]

Fresh == Len(components) + 1
Diag(kind, c) == [kind |-> kind, at |-> c]

(* The subcomponents of an implementation are walked while depth allows. *)
Frame(c) == [idx |-> c, sub |-> 1, elem |-> 0, kids |-> << >>]
Expands(cls) == cls.kind = "impl" /\ depth < MaxDepth
Complaints(cls) ==
    {Diag(k, Fresh) : k \in
        {j \in {"unresolved", "depth", "extends"} :
            \/ j = "unresolved" /\ cls.kind = "missing"
            \/ j = "depth" /\ cls.kind = "impl" /\ depth >= MaxDepth
            \/ j = "extends" /\ Expands(cls) /\ chains[cls.of].circular}}

RootClassifier == [kind |-> "impl", of |-> Root]

InstantiateRoot ==
    /\ phase = "build" /\ components = << >>
    /\ components' = <<NewComponent(NoImpl, 0, RootClassifier, 0)>>
    /\ frames' = IF Expands(RootClassifier) THEN <<Frame(1)>> ELSE << >>
    /\ depth' = IF Expands(RootClassifier) THEN 1 ELSE 0
    /\ diagnostics' = diagnostics \cup Complaints(RootClassifier)
    /\ UNCHANGED <<input, phase, detectVars, somVars>>

Builder == Last(frames)
Subs == chains[components[Builder.idx].cls.of].subs
HasSub == Builder.sub <= Len(Subs)
Sub == Subs[Builder.sub]

(* array_element_count: a zero or symbolic dimension counts as one. *)
ElementCount(s) == IF s.dim \in Nat \ {0} THEN s.dim ELSE 1

(* The caller after one more element of the current subcomponent. *)
Caller ==
    LET last == Builder.elem + 1 = ElementCount(Sub) IN
    [Builder EXCEPT !.kids = Append(@, Fresh),
                    !.elem = IF last THEN 0 ELSE @ + 1,
                    !.sub = IF last THEN @ + 1 ELSE @]

(* Mutant: the depth limit is not checked on the way down, only one level   *)
(* below it.                                                                *)
InstantiateChild_Deeper ==
    /\ phase = "build" /\ frames # << >> /\ HasSub
    /\ LET elem == IF Sub.dim = NoDim THEN 0 ELSE Builder.elem + 1
           zero == IF Builder.elem = 0 /\ Sub.dim = 0 THEN {Diag("zero", Fresh)} ELSE {}
           expands == Sub.cls.kind = "impl" /\ depth <= MaxDepth
       IN /\ components' = Append(components, NewComponent(Sub.name, elem, Sub.cls, Builder.idx))
          /\ frames' = IF expands
                       THEN Append(ReplaceAt(frames, Len(frames), Caller), Frame(Fresh))
                       ELSE ReplaceAt(frames, Len(frames), Caller)
          /\ depth' = IF expands THEN depth + 1 ELSE depth
          /\ diagnostics' = diagnostics \cup zero \cup (IF expands THEN {} ELSE Complaints(Sub.cls))
    /\ UNCHANGED <<input, phase, detectVars, somVars>>

(* One element of a subcomponent: allocated below its parent, and expanded  *)
(* if it has an implementation.                                             *)
InstantiateChild ==
    /\ phase = "build" /\ frames # << >> /\ HasSub
    /\ LET elem == IF Sub.dim = NoDim THEN 0 ELSE Builder.elem + 1
           zero == IF Builder.elem = 0 /\ Sub.dim = 0 THEN {Diag("zero", Fresh)} ELSE {}
       IN /\ components' = Append(components, NewComponent(Sub.name, elem, Sub.cls, Builder.idx))
          /\ frames' = IF Expands(Sub.cls)
                       THEN Append(ReplaceAt(frames, Len(frames), Caller), Frame(Fresh))
                       ELSE ReplaceAt(frames, Len(frames), Caller)
          /\ depth' = IF Expands(Sub.cls) THEN depth + 1 ELSE depth
          /\ diagnostics' = diagnostics \cup zero \cup Complaints(Sub.cls)
    /\ UNCHANGED <<input, phase, detectVars, somVars>>

(* The modes of the implementation that the type did not declare. *)
NewModes(c) ==
    LET declared == chains[c.cls.of].modes
        new == InOrder({k \in DOMAIN declared : declared[k] \notin ToSet(c.modes)}, Len(declared))
    IN [j \in DOMAIN new |-> declared[new[j]]]

(* Mutant: the depth is not given back on return. *)
FinishComponent_KeepDepth ==
    /\ phase = "build" /\ frames # << >> /\ ~HasSub
    /\ components' = [components EXCEPT
            ![Builder.idx].children = Builder.kids,
            ![Builder.idx].modes = @ \o NewModes(components[Builder.idx])]
    /\ frames' = Front(frames)
    /\ UNCHANGED <<input, phase, detectVars, depth, diagnostics, somVars>>

(* The implementation's modes are added unless the type declared them. *)
FinishComponent ==
    /\ phase = "build" /\ frames # << >> /\ ~HasSub
    /\ components' = [components EXCEPT
            ![Builder.idx].children = Builder.kids,
            ![Builder.idx].modes = @ \o NewModes(components[Builder.idx])]
    /\ frames' = Front(frames)
    /\ depth' = depth - 1
    /\ UNCHANGED <<input, phase, detectVars, diagnostics, somVars>>

--------------------------------------------------------------------------------
(* compute_soms.  A mode instance is its component and its place there.    *)

ModalComponents == InOrder({c \in DOMAIN components : components[c].modes # << >>}, Len(components))
SomTotal == FoldLeft(LAMBDA n, c : n * Len(components[c].modes), 1, ModalComponents)

(* Without modal components there are no modes at all. *)
StartSoms ==
    /\ phase = "build" /\ components # << >> /\ frames = << >>
    /\ phase' = IF ModalComponents = << >> THEN "done" ELSE "soms"
    /\ modal' = ModalComponents
    /\ soms' = IF ModalComponents = << >> THEN << >> ELSE << << >> >>
    /\ UNCHANGED <<input, detectVars, buildVars, diagnostics>>

(* Mutant: the cut comes at the limit, before it is known to be exceeded. *)
Extended_Early(c) ==
    LET m == components[c].modes
        all == Len(soms) * Len(m)
    IN [p \in 1..(IF all >= MaxSoms THEN MaxSoms - 1 ELSE all) |->
            Append(soms[((p - 1) \div Len(m)) + 1], <<c, ((p - 1) % Len(m)) + 1>>)]

(* Every selection so far with every mode of the next component, cut one    *)
(* element past the limit.                                                  *)
Extended(c) ==
    LET m == components[c].modes
        all == Len(soms) * Len(m)
    IN [p \in 1..(IF all > MaxSoms THEN MaxSoms + 1 ELSE all) |->
            Append(soms[((p - 1) \div Len(m)) + 1], <<c, ((p - 1) % Len(m)) + 1>>)]

ExtendSoms ==
    /\ phase = "soms" /\ modal # << >> /\ Len(soms) <= MaxSoms
    /\ soms' = Extended(Head(modal))
    /\ modal' = Tail(modal)
    /\ UNCHANGED <<input, phase, detectVars, buildVars, diagnostics>>

FinishSoms ==
    /\ phase = "soms" /\ (modal = << >> \/ Len(soms) > MaxSoms)
    /\ soms' = IF Len(soms) > MaxSoms THEN SubSeq(soms, 1, MaxSoms) ELSE soms
    /\ diagnostics' = IF SomTotal > MaxSoms THEN diagnostics \cup {Diag("soms", 1)} ELSE diagnostics
    /\ phase' = "done"
    /\ UNCHANGED <<input, detectVars, buildVars, modal>>

Done == phase = "done" /\ UNCHANGED vars

Next ==
    \/ DfsSkip \/ DfsCycle \/ DfsEnter \/ DfsLeave
    \/ InstantiateRoot \/ InstantiateChild \/ FinishComponent
    \/ StartSoms \/ ExtendSoms \/ FinishSoms
    \/ Done

Spec == Init /\ [][Next]_vars

(* instantiate is one sequential call: while it can go on, it does. *)
FairSpec == Spec /\ WF_vars(Next)

--------------------------------------------------------------------------------
(* Properties                                                              *)

TypeOK ==
    /\ decl \in [Impls -> Implementation]
    /\ chains \in [Impls -> [subs : Seq(Subcomponent), modes : Seq(ModeNames), circular : BOOLEAN]]
    /\ phase \in {"detect", "build", "soms", "done"}
    /\ calls \in Seq([key : Impls \cup {NoImpl}, next : Nat \ {0}])
    /\ visiting \subseteq Impls \cup {NoImpl} /\ visited \subseteq Impls \cup {NoImpl}
    /\ path \in Seq(Impls \cup {NoImpl}) /\ cycle \in Seq(Impls \cup {NoImpl})
    /\ components \in Seq([name : Names \cup {NoImpl}, elem : Nat, cls : Classifier, parent : Nat,
                           children : Seq(Nat), modes : Seq(ModeNames)])
    /\ frames \in Seq([idx : Nat, sub : Nat, elem : Nat, kids : Seq(Nat)])
    /\ \A f \in DOMAIN frames : frames[f].idx \in DOMAIN components
    /\ depth = Len(frames) /\ depth <= MaxDepth
    /\ diagnostics \subseteq
        [kind : {"unresolved", "depth", "extends", "zero", "soms"}, at : DOMAIN components]

(* i declares a subcomponent whose implementation, as the search sees it,   *)
(* is j.                                                                    *)
Encloses(i, j) ==
    \E k \in DOMAIN decl[i].subs :
        decl[i].subs[k].cls.kind = "impl" /\ ~decl[i].subs[k].indirect /\ decl[i].subs[k].cls.of = j

(* The path of the diagnostic is a containment path from the root that      *)
(* comes back to one of its members.                                        *)
GenuineCycle ==
    /\ cycle[1] = Root
    /\ \A k \in 1..(Len(cycle) - 1) : Encloses(cycle[k], cycle[k + 1])
    /\ \E k \in 1..(Len(cycle) - 1) : cycle[k] = cycle[Len(cycle)]

(* All the root leads to is in a set no part of which goes round in itself. *)
NoCycle ==
    \E V \in SUBSET Impls :
        /\ Root \in V
        /\ \A i \in V, j \in Impls : Encloses(i, j) => j \in V
        /\ \A C \in SUBSET V : C # {} => \E i \in C : \A j \in C : ~Encloses(i, j)

(* detect_circular_containment names a genuine cycle, and if it is silent   *)
(* the declared subcomponents reachable from the root contain none.         *)
CyclesReported == phase # "detect" => IF cycle # << >> THEN GenuineCycle ELSE NoCycle

(* i has, of its own or inherited, a subcomponent that instantiate_component *)
(* expands as j.                                                            *)
UnfoldsTo(i, j) == \E s \in ToSet(chains[i].subs) : s.cls.kind = "impl" /\ s.cls.of = j

(* All the root expands to is in a set no part of which goes round in       *)
(* itself.                                                                  *)
NoRecursion ==
    \E V \in SUBSET Impls :
        /\ Root \in V
        /\ \A i \in V, j \in Impls : UnfoldsTo(i, j) => j \in V
        /\ \A C \in SUBSET V : C # {} => \E i \in C : \A j \in C : ~UnfoldsTo(i, j)

(* Recursion that the search cannot see (inherited subcomponents, imported  *)
(* classifiers) still ends at max_depth, with a diagnostic; a model without *)
(* recursion never meets the limit.                                         *)
LimitMeansRecursion ==
    phase = "done" /\ Cardinality(Impls) <= MaxDepth =>
        ((\E d \in diagnostics : d.kind = "depth") <=> ~NoRecursion)

Level ==
    LET level[c \in DOMAIN components] ==
            IF components[c].parent = 0 THEN 0 ELSE level[components[c].parent] + 1
    IN level

(* The subcomponents an implementation has, position by position in its     *)
(* chain: those no later declaration refines, with the last classifier      *)
(* named for them.                                                          *)
Visible(i) ==
    LET chain == Chain(i)
        Places == UNION {{<<p, k>> : k \in DOMAIN decl[chain[p]].subs} : p \in DOMAIN chain}
        At(a) == decl[chain[a[1]]].subs[a[2]]
        Before(a, b) == a[1] < b[1] \/ (a[1] = b[1] /\ a[2] < b[2])
        Final(a) == ~ \E b \in Places : Before(a, b) /\ At(b).refined /\ At(b).name = At(a).name
        Named(a) == {b \in Places : At(b).name = At(a).name /\ At(b).cls.kind # "none"}
        Cls(a) == IF Named(a) = {} THEN At(a).cls
                  ELSE At(CHOOSE b \in Named(a) : \A c \in Named(a) : c = b \/ Before(c, b)).cls
    IN {[sub |-> At(a), cls |-> Cls(a)] : a \in {b \in Places : Final(b)}}

ExpectedChildren(i) ==
    UNION {{[name |-> v.sub.name, cls |-> v.cls, elem |-> e] :
                e \in IF v.sub.dim = NoDim THEN {0} ELSE 1..ElementCount(v.sub)} : v \in Visible(i)}
ActualChildren(c) ==
    {[name |-> components[k].name, cls |-> components[k].cls, elem |-> components[k].elem] :
        k \in ToSet(components[c].children)}

(* When the builder returns, the arena is the unfolding of the root: a tree *)
(* whose parent and child links agree, in which each implementation above   *)
(* the depth limit has one child for every element of every subcomponent it *)
(* declares or inherits, and nothing else has children.                     *)
UnfoldsRoot ==
    phase = "done" =>
        /\ \A c \in DOMAIN components :
            /\ ToSet(components[c].children) = {k \in DOMAIN components : components[k].parent = c}
            /\ Cardinality(ToSet(components[c].children)) = Len(components[c].children)
            /\ ActualChildren(c) =
                IF components[c].cls.kind = "impl" /\ Level[c] < MaxDepth
                THEN ExpectedChildren(components[c].cls.of) ELSE {}
            /\ Cardinality(ActualChildren(c)) = Len(components[c].children)

(* The system operation modes: without truncation exactly one for every     *)
(* choice of a mode for each modal component; otherwise MAX_SOMS different  *)
(* ones, each a choice for the first modal components, and a diagnostic.    *)
SomsExact ==
    phase = "done" =>
        LET n == Len(ModalComponents)
            Chosen(s) == [k \in DOMAIN s |-> s[k][1]]
            Legal(s) == \A k \in DOMAIN s : s[k][2] \in DOMAIN components[s[k][1]].modes
        IN /\ \A p \in DOMAIN soms : Legal(soms[p]) /\ IsPrefix(Chosen(soms[p]), ModalComponents)
           /\ (\E d \in diagnostics : d.kind = "soms") <=> SomTotal > MaxSoms
           /\ Cardinality(ToSet(soms)) = Len(soms)
           /\ IF n = 0 THEN soms = << >>
              ELSE IF SomTotal > MaxSoms THEN Len(soms) = MaxSoms
              ELSE Len(soms) = SomTotal /\ \A p \in DOMAIN soms : Len(soms[p]) = n

(* Instantiation ends, also of a recursive model. *)
Terminates == <>(phase = "done")

================================================================================
