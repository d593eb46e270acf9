------------------------------ MODULE ProbeTimings -------------------------------
(* spar-insight: the durations measured between probe_point_enter and             *)
(* probe_point_exit events of a trace (timing.rs) and their comparison with the   *)
(* Spar_Trace::Expected_* values of the model (discrepancy.rs).  Threads enter    *)
(* and leave probe points, nested or at the same time, and the recorder may lose  *)
(* an event.  extract_timings is one pass over the events in the order they were  *)
(* recorded, so the pass follows the recording here.  The ghost variables say     *)
(* what really happened.                                                          *)
EXTENDS Integers, SequencesExt, FiniteSetsExt

CONSTANTS
    Threads,        \* that pass probe points (external)
    Ids,            \* the probe ids written into the trace
    Expected,       \* probe id -> [aliases, bcet, wcet, mean], see ExpectedTiming
    None,           \* Option::None
    MaxActivations, \* bound: how often a probe point is entered
    MaxTime         \* bound: the last timestamp

VARIABLES
    now,        \* the target's clock
    running,    \* the probe points each thread is inside of, outermost first
    pending,    \* of extract_timings: the enters not paired yet, per id
    samples,    \* by_probe[id].samples_ns
    stage,      \* "recording", "malformed" or "analyzed"
    report,     \* discrepancies of the DiscrepancyReport
    entered,    \* ghost: activations so far
    durations,  \* ghost: how long each activation that ended took
    lost,       \* ghost: the kinds of event lost, per id
    overlap     \* ghost: per id, how activations overlapped: "no", "nested" or "threads"

timings == <<pending, samples>>
ghosts == <<entered, durations, lost, overlap>>
vars == <<now, running, timings, stage, report, ghosts>>

-----------------------------------------------------------------------------------
(* ExpectedTiming: canonical ids, some of the three bounds, and the bare          *)
(* component name as alias where it differs.                                      *)
Optional == Nat \cup {None}
ASSUME InsightAssumption ==
    /\ MaxActivations \in Nat /\ MaxTime \in Nat /\ None \notin Nat
    /\ \A p \in DOMAIN Expected :
         /\ Expected[p].bcet \in Optional /\ Expected[p].wcet \in Optional
         /\ Expected[p].mean \in Optional
         /\ {Expected[p].bcet, Expected[p].wcet, Expected[p].mean} # {None}
         /\ p \notin ToSet(Expected[p].aliases)

Spellings(p) == {p} \cup ToSet(Expected[p].aliases)
Total(s) == FoldSeq(LAMBDA x, y : x + y, 0, s)

Init ==
    /\ now = 0 /\ running = [t \in Threads |-> << >>]
    /\ pending = [i \in Ids |-> << >>] /\ samples = [i \in Ids |-> << >>]
    /\ stage = "recording" /\ report = {}
    /\ entered = 0 /\ durations = [i \in Ids |-> << >>]
    /\ lost = [i \in Ids |-> {}] /\ overlap = [i \in Ids |-> "no"]

-----------------------------------------------------------------------------------
(* extract_timings, one event at a time                                           *)

saturating_sub(a, b) == IF a >= b THEN a - b ELSE 0

SeeEnter(id) ==
    /\ pending' = [pending EXCEPT ![id] = Append(@, now)]
    /\ UNCHANGED samples

(* Mutant: the oldest enter is paired, as the comment on pending has it. *)
Pop_Oldest(stack) == [top |-> Head(stack), rest |-> Tail(stack)]

(* stack.pop() *)
Pop(stack) == [top |-> Last(stack), rest |-> Front(stack)]

SeeExit(id) ==
    \/ /\ pending[id] = << >>           \* an orphan
       /\ UNCHANGED timings
    \/ /\ pending[id] # << >>
       /\ LET p == Pop(pending[id]) IN
            /\ samples' = [samples EXCEPT ![id] = Append(@, saturating_sub(now, p.top))]
            /\ pending' = [pending EXCEPT ![id] = p.rest]

(* The recorder writes the event, or loses it; an event without its probe_id      *)
(* counts as a custom one and is passed over as well (classify_event).            *)
Recorded(kind, id, See) ==
    \/ See /\ UNCHANGED lost
    \/ lost' = [lost EXCEPT ![id] = @ \cup {kind}] /\ UNCHANGED timings

-----------------------------------------------------------------------------------
(* The target (external)                                                          *)

Inside(t, id) == \E k \in DOMAIN running[t] : running[t][k].id = id

Enter(t, id) ==
    /\ stage = "recording" /\ entered < MaxActivations
    /\ entered' = entered + 1
    /\ running' = [running EXCEPT ![t] = Append(@, [id |-> id, at |-> now])]
    /\ overlap' = [overlap EXCEPT ![id] =
                     CASE \E u \in Threads \ {t} : Inside(u, id) -> "threads"
                       [] @ = "no" /\ Inside(t, id) -> "nested"
                       [] OTHER -> @]
    /\ Recorded("enter", id, SeeEnter(id))
    /\ UNCHANGED <<now, stage, report, durations>>

Exit(t) ==
    /\ stage = "recording" /\ running[t] # << >>
    /\ LET a == Last(running[t]) IN
         /\ running' = [running EXCEPT ![t] = Front(@)]
         /\ durations' = [durations EXCEPT ![a.id] = Append(@, now - a.at)]
         /\ Recorded("exit", a.id, SeeExit(a.id))
    /\ UNCHANGED <<now, stage, report, entered, overlap>>

(* Timestamps never go back from one event of the trace to the next.  The code    *)
(* takes this for granted ("a chronological event stream", timing.rs:54), neither *)
(* checks nor sorts, and saturates the difference (timing.rs:77): a trace out of  *)
(* order, whose samples can be 0 or pair wrongly, is left out.                    *)
Tick ==
    /\ stage = "recording" /\ now < MaxTime
    /\ now' = now + 1
    /\ UNCHANGED <<running, timings, stage, report, ghosts>>

-----------------------------------------------------------------------------------
(* analyze                                                                        *)

(* by_probe has an entry for an id from its first sample on. *)
Observed == {i \in Ids : samples[i] # << >>}

(* Mutant: only the canonical id is looked up. *)
ObservedFor_Canonical(p) == Observed \cap {p}

(* obs_match: the canonical id, else the first alias seen; empty or one id. *)
ObservedFor(p) ==
    LET spelt == SelectSeq(<<p>> \o Expected[p].aliases, LAMBDA i : i \in Observed)
    IN  IF spelt = << >> THEN {} ELSE {Head(spelt)}

mean_ns(s) == Total(s) \div Len(s)

(* delta_abs > threshold *)
Drifts(mean, emean) ==
    /\ emean # None /\ emean > 0
    /\ (IF mean >= emean THEN mean - emean ELSE emean - mean) > (emean * 20) \div 100

(* The kinds of discrepancy the samples s raise for probe p. *)
emit_for_probe(p, s) ==
    LET e == Expected[p] IN
    {k \in {"WcetViolated", "BcetUnderestimated", "MeanDrift"} :
        CASE k = "WcetViolated" -> e.wcet # None /\ Max(ToSet(s)) > e.wcet
          [] k = "BcetUnderestimated" -> e.bcet # None /\ Min(ToSet(s)) < e.bcet
          [] OTHER -> Drifts(mean_ns(s), e.mean)}

Discrepancies ==
    LET matched == {p \in DOMAIN Expected : ObservedFor(p) # {}}
        missing == {i \in Observed : \A p \in DOMAIN Expected : i \notin Spellings(p)}
    IN  UNION {emit_for_probe(p, samples[CHOOSE i \in ObservedFor(p) : TRUE]) \X {p} : p \in matched}
          \cup {<<"UnobservedProbe", p>> : p \in DOMAIN Expected \ matched}
          \cup {<<"MissingProbe", i>> : i \in missing}

(* The recording ends.  A line that does not parse, such as one cut short, fails  *)
(* the whole trace: parse_ctf returns the error and nothing is analysed.          *)
Analyze ==
    /\ stage = "recording"
    /\ \/ stage' = "malformed" /\ UNCHANGED report
       \/ stage' = "analyzed" /\ report' = Discrepancies
    /\ UNCHANGED <<now, running, timings, ghosts>>

Next ==
    \/ \E t \in Threads : Exit(t) \/ \E id \in Ids : Enter(t, id)
    \/ Tick
    \/ Analyze

Spec == Init /\ [][Next]_vars

-----------------------------------------------------------------------------------
(* A trace with holes is still right about what it shows: when the activations of *)
(* a probe do not overlap and only enters, or only exits, were lost, every sample *)
(* is the duration of an activation, no two of the same one; and nested           *)
(* activations of one thread are measured exactly when nothing was lost (pairing  *)
(* rule of extract_timings, timing.rs:70).                                        *)
SamplesTrue ==
    \A i \in Ids :
        /\ overlap[i] = "no" /\ lost[i] # {"enter", "exit"} =>
             \E seen \in SUBSET (DOMAIN durations[i]) : LET order == SetToSortSeq(seen, <) IN
                 samples[i] = [k \in DOMAIN order |-> durations[i][order[k]]]
        /\ overlap[i] # "threads" /\ lost[i] = {} => samples[i] = durations[i]

(* The verdict on a probe whose every event is in the trace, under one spelling,  *)
(* and that no thread is inside of any more.  Even when activations on several    *)
(* threads overlap, so that an exit is paired with another thread's enter, an     *)
(* activation above the declared WCET or below the declared BCET is reported, and *)
(* the mean is judged as if paired rightly; without such an overlap nothing else  *)
(* is reported (pairing of timing.rs:70 under the rules of discrepancy.rs:305).   *)
CompleteTraceVerdicts ==
    stage = "analyzed" => \A p \in DOMAIN Expected :
        LET e == Expected[p]
            used == {i \in Spellings(p) \cap Ids :
                        durations[i] # << >> \/ lost[i] # {} \/ \E t \in Threads : Inside(t, i)}
        IN  \A i \in used :
              used = {i} /\ lost[i] = {} /\ (\A t \in Threads : ~ Inside(t, i)) =>
                LET over == e.wcet # None /\ \E k \in DOMAIN durations[i] : durations[i][k] > e.wcet
                    under == e.bcet # None /\ \E k \in DOMAIN durations[i] : durations[i][k] < e.bcet
                IN  /\ over => <<"WcetViolated", p>> \in report
                    /\ under => <<"BcetUnderestimated", p>> \in report
                    /\ Drifts(mean_ns(durations[i]), e.mean) <=> <<"MeanDrift", p>> \in report
                    /\ overlap[i] # "threads" =>
                         /\ <<"WcetViolated", p>> \in report => over
                         /\ <<"BcetUnderestimated", p>> \in report => under
===================================================================================
