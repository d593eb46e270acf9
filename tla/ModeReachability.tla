---------------------------- MODULE ModeReachability -----------------------------
(* Mode reachability (spar-analysis, mode_reachability.rs): for every component   *)
(* with modes and transitions, which modes lead to which, which no path from the  *)
(* initial mode leads to, and which triggers nothing is connected to.  A          *)
(* component carries modes, a sequence of [name, initial], and transitions, a     *)
(* sequence of [source, destination, triggers].                                   *)
EXTENDS SemanticConnections

VARIABLES
    mode,       \* "wait", "run", "done"
    at,         \* the component the loop is at
    start,      \* the mode the search starts from
    seen,       \* visited of the search
    work,       \* queue of the search; the code takes from its end
    matrix,     \* the rows finished: modes reached from each start
    reports     \* the ReachabilityMatrix of each component looked at

modeVars == <<mode, at, start, seen, work, matrix, reports>>

-----------------------------------------------------------------------------------
Modes(k) == DOMAIN Comp(k).modes
Transitions(k) == DOMAIN Comp(k).transitions

(* mode_index: of modes with the same name, the last. *)
ModeNamed(k, name) ==
    {m \in Modes(k) : /\ eq_ci(Comp(k).modes[m].name, name)
                      /\ \A n \in Modes(k) : eq_ci(Comp(k).modes[n].name, name) => n <= m}

(* Mutant: a transition is taken both ways. *)
Adjacent_Both(k, m) ==
    UNION {ModeNamed(k, Comp(k).transitions[t].destination) \cup
           ModeNamed(k, Comp(k).transitions[t].source) :
               t \in {u \in Transitions(k) : m \in ModeNamed(k, Comp(k).transitions[u].source)
                                          \/ m \in ModeNamed(k, Comp(k).transitions[u].destination)}}

(* adj *)
Adjacent(k, m) ==
    UNION {ModeNamed(k, Comp(k).transitions[t].destination) :
               t \in {u \in Transitions(k) : m \in ModeNamed(k, Comp(k).transitions[u].source)}}

InitialModes(k) == {m \in Modes(k) : Comp(k).modes[m].initial}
(* The first initial mode, and the mode that mode_index has for its name. *)
First(k) == CHOOSE m \in InitialModes(k) : \A n \in InitialModes(k) : m <= n
Initial(k) == CHOOSE m \in Modes(k) : m \in ModeNamed(k, Comp(k).modes[First(k)].name)

Analysed(k) == Len(Comp(k).modes) >= 2 /\ Comp(k).transitions # << >> /\ InitialModes(k) # {}

(* What is pushed of the BTreeSets of adj: ascending. *)
Ascending(k, S) == InOrder(S, Len(Comp(k).modes))

(* Mutant: connections the parent makes to the component are not looked at. *)
Fed_NoParent(k, feature) ==
    \/ \E c \in OwnConnections(k) : LET d == connections[c].dst IN
         d # NoEnd /\ d.sub = NoSub /\ Len(d.feature) = 1 /\ eq_ci(d.feature[1], feature)
    \/ \E i \in DOMAIN semantic : LET d == semantic[i].dst IN
         d[1] = k /\ Len(d[2]) = 1 /\ eq_ci(d[2][1], feature)

(* connected_features: a connection of the component to its own feature, a        *)
(* semantic connection that ends there, or a connection of the parent that names  *)
(* the component itself (not the array it is an element of).                      *)
Fed(k, feature) ==
    LET Names(f) == Len(f) = 1 /\ eq_ci(f[1], feature) IN
    \/ \E c \in OwnConnections(k) : LET d == connections[c].dst IN
         d # NoEnd /\ d.sub = NoSub /\ Names(d.feature)
    \/ \E i \in DOMAIN semantic : semantic[i].dst[1] = k /\ Names(semantic[i].dst[2])
    \/ \E c \in OwnConnections(Comp(k).parent) : LET d == connections[c].dst IN
         /\ d # NoEnd /\ d.sub # NoSub /\ Names(d.feature)
         /\ eq_ci(d.sub.name, Comp(k).name) /\ d.sub.elem = Comp(k).elem

(* find_dead_transitions *)
DeadTriggers(k) ==
    UNION {{<<t, g>> : g \in {x \in Comp(k).transitions[t].triggers : ~Fed(k, x)}} : t \in Transitions(k)}

Row(m) == seen' = {m} \cup Adjacent(at, m) /\ work' = Ascending(at, Adjacent(at, m) \ {m})
NoRow == seen' = {} /\ work' = << >>

StartMode ==
    /\ stage = "done" /\ mode = "wait"
    /\ mode' = "run" /\ at' = 0 /\ start' = 0 /\ NoRow
    /\ UNCHANGED <<connVars, matrix, reports>>

(* The next component; one without a mode machine is passed over. *)
EnterComponent ==
    /\ mode = "run" /\ start = 0 /\ at < Len(instance.components)
    /\ at' = at + 1
    /\ \/ /\ Analysed(at + 1) /\ start' = 1
          /\ seen' = {1} \cup Adjacent(at + 1, 1)
          /\ work' = Ascending(at + 1, Adjacent(at + 1, 1) \ {1})
       \/ ~Analysed(at + 1) /\ UNCHANGED <<start, seen, work>>
    /\ matrix' = << >>
    /\ UNCHANGED <<connVars, mode, reports>>

(* Mutant: a mode stays in the queue until it leads nowhere new. *)
SearchStep_Peek ==
    /\ mode = "run" /\ start # 0 /\ work # << >>
    /\ LET new == Adjacent(at, Last(work)) \ seen IN
       seen' = seen \cup new /\ work' = work \o Ascending(at, new)
    /\ UNCHANGED <<connVars, mode, at, start, matrix, reports>>

SearchStep ==
    /\ mode = "run" /\ start # 0 /\ work # << >>
    /\ LET new == Adjacent(at, Last(work)) \ seen IN
       seen' = seen \cup new /\ work' = Front(work) \o Ascending(at, new)
    /\ UNCHANGED <<connVars, mode, at, start, matrix, reports>>

NextRow ==
    /\ mode = "run" /\ start # 0 /\ work = << >> /\ start < Len(Comp(at).modes)
    /\ matrix' = Append(matrix, seen)
    /\ start' = start + 1 /\ Row(start + 1)
    /\ UNCHANGED <<connVars, mode, at, reports>>

Unreachable(k, rows) == Modes(k) \ ({Initial(k)} \cup rows[Initial(k)])

FinishComponent ==
    /\ mode = "run" /\ start # 0 /\ work = << >> /\ start = Len(Comp(at).modes)
    /\ reports' = reports \cup {[comp |-> at, matrix |-> Append(matrix, seen),
                                 unreachable |-> Unreachable(at, Append(matrix, seen)),
                                 dead |-> DeadTriggers(at)]}
    /\ start' = 0 /\ matrix' = << >> /\ NoRow
    /\ UNCHANGED <<connVars, mode, at>>

FinishMode ==
    /\ mode = "run" /\ start = 0 /\ at = Len(instance.components)
    /\ mode' = "done"
    /\ UNCHANGED <<connVars, at, start, seen, work, matrix, reports>>

ModeInit ==
    /\ mode = "wait" /\ at = 0 /\ start = 0 /\ seen = {} /\ work = << >>
    /\ matrix = << >> /\ reports = {}

ModeNext ==
    \/ StartMode \/ EnterComponent \/ SearchStep \/ NextRow \/ FinishComponent \/ FinishMode

-----------------------------------------------------------------------------------
(* Properties *)

(* m leads to n: every set with m that the transitions do not leave has n. *)
LeadsTo(k, m, n) ==
    \A S \in SUBSET Modes(k) :
        m \in S /\ (\A t \in Transitions(k) :
                        ModeNamed(k, Comp(k).transitions[t].source) \cap S # {} =>
                            ModeNamed(k, Comp(k).transitions[t].destination) \subseteq S)
        => n \in S

(* The reported matrix is the reflexive and transitive closure of the declared    *)
(* transitions, and a mode is reported unreachable exactly if no path of          *)
(* transitions leads to it from the initial mode (mode_reachability.rs:112-199).  *)
ReachabilityExact ==
    \A r \in reports : LET k == r.comp IN
        /\ \A m, n \in Modes(k) : n \in r.matrix[m] <=> LeadsTo(k, m, n)
        /\ \A i \in InitialModes(k) : (\A o \in InitialModes(k) : i <= o) =>
             r.unreachable = {n \in Modes(k) :
                 \A m \in ModeNamed(k, Comp(k).modes[i].name) : ~LeadsTo(k, m, n)}
===================================================================================
