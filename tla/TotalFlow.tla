-------------------------------- MODULE TotalFlow --------------------------------
(* Total flow analysis of a FIFO network (spar-network, tfa.rs with curves.rs):   *)
(* the input bursts of every flow at every server it crosses are iterated to a    *)
(* fixed point, which gives one delay per server.  Then the network runs: sources *)
(* within their arrival curves, servers that keep to their service curves.  The   *)
(* network is what the analysis makes a claim about; it is not code.              *)
(*                                                                                *)
(* Sizes are bytes, times are ticks (the code's picoseconds), and a rate moves    *)
(* rate * t \div Unit bytes in t ticks (Unit is the code's 8 * 10^12).            *)
EXTENDS Integers, Sequences, FiniteSetsExt

CONSTANTS
    Networks,   \* the inputs: [flows, services], see NetworkAssumption
    Unit,       \* BITS_PER_BYTE * PS_PER_SECOND
    MaxU64,     \* u64::MAX, where the arithmetic saturates
    MaxIter,    \* TFA_MAX_ITER
    Ceiling     \* TFA_BURST_CEILING_BYTES

Flow == [burst : Nat, rate : Nat, path : Seq(Nat)]
Service == [rate : Nat, latency : Nat]

ASSUME TotalFlowAssumption ==
    /\ Unit \in Nat \ {0} /\ MaxU64 \in Nat /\ MaxIter \in Nat \ {0}
    /\ Ceiling \in Nat /\ Ceiling < MaxU64
    /\ \A n \in Networks : n.flows \in Seq(Flow) /\ n.services \in Seq(Service)

VARIABLES
    net,        \* the slices `flows` and `services`
    stage,      \* "check", "iterate", then "rejected" or "running"
    error,      \* the TfaError, or "none"
    bursts,     \* bursts[i][j]: input burst of flow i at the j-th server of its path
    delay,      \* server_delay_ps
    iterations,
    queue,      \* the network: bytes waiting at each server, oldest first
    credit,     \* what each source may still send, in 1/Unit bytes
    owed        \* what each busy server still owes by its service curve, in 1/Unit bytes

analysis == <<net, stage, error, bursts, delay, iterations>>
network == <<queue, credit, owed>>
vars == <<analysis, network>>

-----------------------------------------------------------------------------------
(* Curves *)

Saturated(n) == IF n > MaxU64 THEN MaxU64 ELSE n

bits_to_bytes_in_window(rate, t) == Saturated((rate * t) \div Unit)
time_to_send_ps(bytes, rate) ==
    IF rate = 0 THEN MaxU64 ELSE Saturated((bytes * Unit + rate - 1) \div rate)

(* The Ok side; tfa_bound asks only after it found every server stable. *)
delay_bound(burst, service) ==
    Saturated(service.latency + time_to_send_ps(burst, service.rate))

(* inflate_burst: the output bound with the server's delay as the latency. *)
inflate_burst(burst, rate, d) == Saturated(burst + bits_to_bytes_in_window(rate, d))

-----------------------------------------------------------------------------------
(* The fixed point *)

Flows == DOMAIN net.flows
Servers == DOMAIN net.services
Path(i) == net.flows[i].path
Positions == UNION {{<<i, j>> : j \in DOMAIN Path(i)} : i \in Flows}
Crossings(h) == {p \in Positions : Path(p[1])[p[2]] = h}

AggRate(h) == Saturated(SumFunction([p \in Crossings(h) |-> net.flows[p[1]].rate]))
AggBurst(b, h) == Saturated(SumFunction([p \in Crossings(h) |-> b[p[1]][p[2]]]))

(* A server whose aggregate rate is 0 counts as not crossed. *)
ServerDelay(b, h) ==
    IF AggRate(h) = 0 THEN 0 ELSE delay_bound(AggBurst(b, h), net.services[h])

Delays(b) == [h \in Servers |-> ServerDelay(b, h)]

(* Mutant: the burst grows by rate * latency, the standard output bound. *)
Propagated_Latency(b, d) ==
    [i \in Flows |-> [j \in DOMAIN Path(i) |->
        IF j = 1 THEN b[i][1]
        ELSE inflate_burst(b[i][j - 1], net.flows[i].rate, net.services[Path(i)[j - 1]].latency)]]

Propagated(b, d) ==
    [i \in Flows |-> [j \in DOMAIN Path(i) |->
        IF j = 1 THEN b[i][1]
        ELSE inflate_burst(b[i][j - 1], net.flows[i].rate, d[Path(i)[j - 1]])]]

SourceBursts == [i \in Flows |-> [j \in DOMAIN Path(i) |-> net.flows[i].burst]]

Unstable(h) == AggRate(h) # 0 /\ AggRate(h) >= net.services[h].rate

Init ==
    /\ net \in Networks
    /\ stage = "check" /\ error = "none" /\ iterations = 0
    /\ bursts = << >> /\ delay = << >>
    /\ queue = << >> /\ credit = << >> /\ owed = << >>

Reject(e) == stage' = "rejected" /\ error' = e

(* The checks before the loop, in the code's order. *)
EmptyNetwork == net.flows = << >> \/ net.services = << >>
OutOfRange == \E p \in Positions : Path(p[1])[p[2]] \notin Servers

CheckInput ==
    /\ stage = "check"
    /\ \/ EmptyNetwork /\ Reject("EmptyNetwork") /\ UNCHANGED bursts
       \/ ~EmptyNetwork /\ OutOfRange /\ Reject("OutOfRange") /\ UNCHANGED bursts
       \/ /\ ~EmptyNetwork /\ ~OutOfRange /\ \E h \in Servers : Unstable(h)
          /\ Reject("Unstable") /\ UNCHANGED bursts
       \/ /\ ~EmptyNetwork /\ ~OutOfRange /\ \A h \in Servers : ~Unstable(h)
          /\ stage' = "iterate" /\ bursts' = SourceBursts /\ UNCHANGED error
    /\ UNCHANGED <<net, delay, iterations, network>>

(* Mutants: the ceiling is never looked at, or already met when reached. *)
Diverged_Never(b) == FALSE
Diverged_Reached(b) == \E p \in Positions : b[p[1]][p[2]] >= Ceiling

Diverged(b) == \E p \in Positions : p[2] > 1 /\ b[p[1]][p[2]] > Ceiling

(* The service curve rate * (t - latency) at the beginning of a busy period: the  *)
(* server owes nothing until the latency has passed.                              *)
Latent(h) == -(net.services[h].rate * net.services[h].latency)

(* The network starts with full buckets and nothing to send. *)
StartNetwork ==
    /\ queue' = [h \in Servers |-> << >>]
    /\ credit' = [i \in Flows |-> net.flows[i].burst * Unit]
    /\ owed' = [h \in Servers |-> Latent(h)]

(* Mutant: the next bursts are computed and dropped, without counting. *)
Iterate_Dropped ==
    /\ stage = "iterate"
    /\ delay' = Delays(bursts)
    /\ \/ Propagated(bursts, delay') = bursts /\ stage' = "running" /\ StartNetwork
       \/ Propagated(bursts, delay') # bursts /\ UNCHANGED <<stage, network>>
    /\ UNCHANGED <<net, error, bursts, iterations>>

(* One iteration of the loop. *)
Iterate ==
    LET d == Delays(bursts)
        b == Propagated(bursts, d) IN
    /\ stage = "iterate"
    /\ iterations' = iterations + 1
    /\ delay' = d
    /\ \/ Diverged(b) /\ Reject("NonConvergent") /\ UNCHANGED <<bursts, network>>
       \/ /\ ~Diverged(b) /\ b = bursts
          /\ stage' = "running" /\ StartNetwork /\ UNCHANGED <<bursts, error>>
       \/ /\ ~Diverged(b) /\ b # bursts /\ iterations + 1 >= MaxIter
          /\ Reject("NonConvergent") /\ UNCHANGED <<bursts, network>>
       \/ /\ ~Diverged(b) /\ b # bursts /\ iterations + 1 < MaxIter
          /\ bursts' = b /\ UNCHANGED <<stage, error, network>>
    /\ UNCHANGED net

(* flow_delay_ps *)
FlowDelay(i) == Saturated(SumFunction([j \in DOMAIN Path(i) |-> delay[Path(i)[j]]]))

-----------------------------------------------------------------------------------
(* The network *)

Arrive(q, h, i, j) == [q EXCEPT ![h] = Append(@, [flow |-> i, pos |-> j, age |-> 0])]

(* A source sends a byte within its arrival curve burst + rate * t. *)
Send(i) ==
    /\ stage = "running"
    /\ credit[i] >= Unit /\ Path(i) # << >>
    /\ credit' = [credit EXCEPT ![i] = @ - Unit]
    /\ queue' = Arrive(queue, Path(i)[1], i, 1)
    /\ UNCHANGED <<analysis, owed>>

(* A server passes on its oldest byte; a server may be faster than promised. *)
Serve(h) ==
    LET byte == Head(queue[h])
        left == [queue EXCEPT ![h] = Tail(@)]
        idle == Tail(queue[h]) = << >> IN
    /\ stage = "running"
    /\ queue[h] # << >>
    /\ queue' = IF byte.pos = Len(Path(byte.flow)) THEN left
                ELSE Arrive(left, Path(byte.flow)[byte.pos + 1], byte.flow, byte.pos + 1)
    /\ owed' = [owed EXCEPT ![h] = IF idle THEN Latent(h) ELSE @ - Unit]
    /\ UNCHANGED <<analysis, credit>>

(* A tick passes once every server has delivered what is due. *)
Tick ==
    /\ stage = "running"
    /\ \A h \in Servers : queue[h] # << >> => owed[h] < Unit
    /\ queue' = [h \in Servers |-> [k \in DOMAIN queue[h] |->
                    [queue[h][k] EXCEPT !.age = @ + 1]]]
    /\ owed' = [h \in Servers |-> IF queue[h] = << >> THEN owed[h]
                                 ELSE owed[h] + net.services[h].rate]
    /\ credit' = [i \in Flows |-> Min({credit[i] + net.flows[i].rate,
                                       net.flows[i].burst * Unit})]
    /\ UNCHANGED analysis

Rejected == stage = "rejected" /\ UNCHANGED vars

Next ==
    \/ CheckInput
    \/ Iterate
    \/ \E i \in Flows : Send(i)
    \/ \E h \in Servers : Serve(h)
    \/ Tick
    \/ Rejected

Spec == Init /\ [][Next]_vars
(* tfa_bound is one call: its loop goes on until it returns. *)
FairSpec == Spec /\ WF_vars(CheckInput) /\ WF_vars(Iterate)

-----------------------------------------------------------------------------------
(* Properties *)

(* The result of tfa_bound: a finite delay per server or an error, never both;    *)
(* bursts stay within the ceiling that stops the loop (tfa.rs:236-312).           *)
TypeOK ==
    /\ stage \in {"check", "iterate", "rejected", "running"}
    /\ error \in {"none", "EmptyNetwork", "OutOfRange", "Unstable", "NonConvergent"}
    /\ (stage = "rejected") = (error # "none")
    /\ iterations \in 0..MaxIter
    /\ stage \in {"iterate", "running"} =>
         \A p \in Positions : bursts[p[1]][p[2]] \in Nat /\
             (p[2] > 1 /\ iterations > 0 => bursts[p[1]][p[2]] <= Ceiling)
    /\ stage = "running" =>
         \A h \in Servers : delay[h] \in 0..MaxU64 /\ owed[h] \in Int

(* Input bursts per position, up to the ceiling, that one more iteration keeps. *)
Bursts == [Positions -> 0..Ceiling]
AsBursts(v) == [i \in Flows |-> [j \in DOMAIN Path(i) |-> v[<<i, j>>]]]
IsFixedPoint(v) ==
    /\ \A i \in Flows : Path(i) # << >> => v[<<i, 1>>] = net.flows[i].burst
    /\ Propagated(AsBursts(v), Delays(AsBursts(v))) = AsBursts(v)

(* NonConvergent before the iteration limit means what its comment says: the      *)
(* network has no fixed point below the ceiling, so nothing that could have been  *)
(* bounded is given up (tfa.rs:287-295).                                          *)
DivergesForAReason ==
    error = "NonConvergent" /\ iterations < MaxIter => \A v \in Bursts : ~IsFixedPoint(v)

(* Every inflation at the fixed point is a whole number of bytes, and every       *)
(* server that is crossed has a positive aggregate rate.                          *)
WholeBytes ==
    /\ \A p \in Positions : p[2] < Len(Path(p[1])) =>
         (net.flows[p[1]].rate * delay[Path(p[1])[p[2]]]) % Unit = 0
    /\ \A h \in Servers : Crossings(h) # {} => AggRate(h) > 0

NoByteLate == \A h \in Servers : \A k \in DOMAIN queue[h] : queue[h][k].age <= delay[h]

(* The bound is valid: whatever the sources send within their curves, in whatever *)
(* order bytes of different flows meet, on cyclic networks too, no byte waits at  *)
(* a server longer than the delay reported for it, provided the propagated bursts *)
(* are exact (tfa.rs:198-316).                                                    *)
DelaysBounded == stage = "running" /\ WholeBytes => NoByteLate

(* "never a finite-but-invalid number" (tfa.rs:52): the same without the proviso. *)
NeverInvalid == stage = "running" => NoByteLate

(* The loop ends, converged or not (tfa.rs:236). *)
Terminates == <>(stage \in {"rejected", "running"})
===================================================================================
