----------------------------- MODULE TotalFlowProofs -----------------------------
(**********************************************************************************)
(* The iteration of total flow analysis, for every network: its bursts stay below *)
(* every fixed point, so that crossing the ceiling means that there is none below *)
(* it.                                                                            *)
(*                                                                                *)
(* The step is monotone: larger bursts give larger sums, delays and inflations.   *)
(* The source bursts the loop starts from are below every fixed point because a   *)
(* burst never shrinks along a path.                                              *)
(**********************************************************************************)
EXTENDS TotalFlow, SumTheorems

-----------------------------------------------------------------------------------
(* Curves                                                                          *)

LEMMA SaturatedMonotone ==
    ASSUME NEW a \in Nat, NEW b \in Nat, a <= b
    PROVE  /\ Saturated(a) \in 0..MaxU64 /\ Saturated(b) \in 0..MaxU64
           /\ Saturated(a) <= Saturated(b)
           /\ a <= MaxU64 => Saturated(a) = a
BY TotalFlowAssumption DEF Saturated

(* The time to send a burst, and the delay of a server, grow with the burst. *)
LEMMA DelayBoundMonotone ==
    ASSUME NEW a \in Nat, NEW b \in Nat, a <= b, NEW s \in Service
    PROVE  /\ delay_bound(a, s) \in 0..MaxU64 /\ delay_bound(b, s) \in 0..MaxU64
           /\ delay_bound(a, s) <= delay_bound(b, s)
<1> DEFINE rate == s.rate
<1> DEFINE ta == time_to_send_ps(a, rate)
<1> DEFINE tb == time_to_send_ps(b, rate)
<1>1. rate \in Nat /\ s.latency \in Nat /\ Unit \in Nat \ {0} /\ MaxU64 \in Nat
  BY TotalFlowAssumption DEF Service
<1>2. ta \in Nat /\ tb \in Nat /\ ta <= tb
  <2> HIDE DEF rate
  <2>1. CASE rate = 0
    BY <1>1, <2>1 DEF time_to_send_ps
  <2>2. CASE rate # 0
    <3> DEFINE x == a * Unit
    <3> DEFINE y == b * Unit
    <3>1. x \in Nat /\ y \in Nat /\ x <= y
      BY <1>1, ProductMonotone
    <3>2. ta = Saturated((x + rate - 1) \div rate) /\ tb = Saturated((y + rate - 1) \div rate)
      BY <2>2 DEF time_to_send_ps
    <3> HIDE DEF x, y, ta, tb
    <3> DEFINE c == (x + rate - 1) \div rate
    <3> DEFINE d == (y + rate - 1) \div rate
    <3>3. c \in Nat /\ d \in Nat /\ c <= d
      <4>1. /\ x + rate - 1 \in Nat /\ y + rate - 1 \in Nat
            /\ x + rate - 1 <= y + rate - 1 /\ rate \in Nat \ {0}
        BY <1>1, <2>2, <3>1
      <4> QED
        BY <4>1, DivMonotone
    <3> HIDE DEF c, d
    <3>4. Saturated(c) \in 0..MaxU64 /\ Saturated(d) \in 0..MaxU64 /\ Saturated(c) <= Saturated(d)
      BY <3>3, SaturatedMonotone
    <3>5. ta = Saturated(c) /\ tb = Saturated(d)
      BY <3>2 DEF c, d
    <3> QED
      BY <1>1, <3>4, <3>5
  <2> QED
    BY <2>1, <2>2
<1> HIDE DEF ta, tb
<1>3. /\ s.latency + ta \in Nat /\ s.latency + tb \in Nat /\ s.latency + ta <= s.latency + tb
  BY <1>1, <1>2
<1>4. /\ delay_bound(a, s) = Saturated(s.latency + ta)
      /\ delay_bound(b, s) = Saturated(s.latency + tb)
  BY DEF delay_bound, ta, tb
<1> QED
  BY <1>3, <1>4, SaturatedMonotone

(* A burst grows by what arrives during the delay: more for a larger burst or a    *)
(* longer delay, and never less than nothing.                                      *)
LEMMA InflateMonotone ==
    ASSUME NEW a \in Nat, NEW b \in Nat, a <= b, NEW rate \in Nat,
           NEW c \in Nat, NEW d \in Nat, c <= d
    PROVE  /\ inflate_burst(a, rate, c) \in 0..MaxU64 /\ inflate_burst(b, rate, d) \in 0..MaxU64
           /\ inflate_burst(a, rate, c) <= inflate_burst(b, rate, d)
           /\ a <= MaxU64 => a <= inflate_burst(a, rate, c)
<1> DEFINE x == rate * c
<1> DEFINE y == rate * d
<1>1. x \in Nat /\ y \in Nat /\ x <= y
  <2>1. rate * c = c * rate /\ rate * d = d * rate
    OBVIOUS
  <2> QED
    BY <2>1, ProductMonotone
<1> HIDE DEF x, y
<1> DEFINE u == Saturated(x \div Unit)
<1> DEFINE v == Saturated(y \div Unit)
<1>2. x \div Unit \in Nat /\ y \div Unit \in Nat /\ x \div Unit <= y \div Unit
  BY <1>1, DivMonotone, TotalFlowAssumption
<1>3. u \in 0..MaxU64 /\ v \in 0..MaxU64 /\ u <= v
  BY <1>2, SaturatedMonotone
<1>4. /\ inflate_burst(a, rate, c) = Saturated(a + u)
      /\ inflate_burst(b, rate, d) = Saturated(b + v)
  BY DEF inflate_burst, bits_to_bytes_in_window, x, y
<1> HIDE DEF u, v
<1>5. a + u \in Nat /\ b + v \in Nat /\ a + u <= b + v /\ a <= a + u /\ MaxU64 \in Nat
  BY <1>3, TotalFlowAssumption
<1> QED
  BY <1>4, <1>5 DEF Saturated

-----------------------------------------------------------------------------------
(* One iteration                                                                   *)

(* The flows and servers of a network. *)
LEMMA NetworkTypes ==
    ASSUME net \in Networks
    PROVE  /\ IsFiniteSet(Flows)
           /\ \A i \in Flows : /\ net.flows[i].burst \in Nat /\ net.flows[i].rate \in Nat
                               /\ Path(i) \in Seq(Nat)
           /\ \A h \in Servers : net.services[h] \in Service
<1>1. net.flows \in Seq(Flow) /\ net.services \in Seq(Service)
  BY TotalFlowAssumption
<1>2. Flows = 1..Len(net.flows) /\ Len(net.flows) \in Nat
  BY <1>1 DEF Flows
<1>3. IsFiniteSet(Flows)
  BY <1>2, FS_Interval
<1>4. ASSUME NEW i \in Flows PROVE net.flows[i] \in Flow
  BY <1>1 DEF Flows
<1>5. ASSUME NEW h \in Servers PROVE net.services[h] \in Service
  BY <1>1 DEF Servers
<1> QED
  BY <1>3, <1>4, <1>5 DEF Flow, Path

(* A position is a flow and a place on its path. *)
LEMMA PositionsAre ==
    /\ \A p \in Positions : /\ p[1] \in Flows /\ p[2] \in DOMAIN Path(p[1])
                            /\ p = <<p[1], p[2]>>
    /\ \A i \in Flows : \A j \in DOMAIN Path(i) : <<i, j>> \in Positions
BY DEF Positions

LEMMA CrossingsFinite ==
    ASSUME net \in Networks, NEW h
    PROVE  IsFiniteSet(Crossings(h)) /\ Crossings(h) \subseteq Positions
<1> DEFINE row == [i \in Flows |-> {<<i, j>> : j \in DOMAIN Path(i)}]
<1>1. \A i \in Flows : IsFiniteSet(row[i])
  <2> SUFFICES ASSUME NEW i \in Flows PROVE IsFiniteSet({<<i, j>> : j \in DOMAIN Path(i)})
    OBVIOUS
  <2> DEFINE D == DOMAIN Path(i)
  <2>1. IsFiniteSet(D)
    <3>1. Path(i) \in Seq(Nat)
      BY NetworkTypes
    <3>2. D = 1..Len(Path(i)) /\ Len(Path(i)) \in Nat
      BY <3>1
    <3> QED
      BY <3>2, FS_Interval
  <2> DEFINE g == [j \in D |-> <<i, j>>]
  <2>2. IsFiniteSet({g[j] : j \in D})
    BY <2>1, ImageFinite
  <2>3. {g[j] : j \in D} = {<<i, j>> : j \in D}
    OBVIOUS
  <2> QED
    BY <2>2, <2>3
<1>2. Positions = UNION {row[i] : i \in Flows}
  BY DEF Positions
<1> HIDE DEF row
<1>3. IsFiniteSet({row[i] : i \in Flows})
  BY NetworkTypes, ImageFinite
<1>4. IsFiniteSet(Positions)
  BY <1>1, <1>2, <1>3, FS_UNION
<1>5. Crossings(h) \in SUBSET Positions
  BY DEF Crossings
<1> QED
  BY <1>4, <1>5, FS_Subset

(* A burst for every position, and one assignment below another. *)
Assigned(b) ==
    /\ b = [i \in Flows |-> [j \in DOMAIN Path(i) |-> b[i][j]]]
    /\ \A i \in Flows : \A j \in DOMAIN Path(i) : b[i][j] \in Nat
Below(b, c) == \A i \in Flows : \A j \in DOMAIN Path(i) : b[i][j] <= c[i][j]

LEMMA AggBurstMonotone ==
    ASSUME net \in Networks, NEW b, NEW c, Assigned(b), Assigned(c), Below(b, c), NEW h
    PROVE  /\ AggBurst(b, h) \in Nat /\ AggBurst(c, h) \in Nat
           /\ AggBurst(b, h) <= AggBurst(c, h)
<1> DEFINE S == Crossings(h)
<1> DEFINE f == [p \in S |-> b[p[1]][p[2]]]
<1> DEFINE g == [p \in S |-> c[p[1]][p[2]]]
<1>1. IsFiniteSet(S) /\ S \subseteq Positions
  BY CrossingsFinite
<1>2. \A p \in S : f[p] \in Nat /\ g[p] \in Nat /\ f[p] <= g[p]
  BY <1>1, PositionsAre DEF Assigned, Below
<1>3. /\ AggBurst(b, h) = Saturated(SumFunctionOnSet(f, S))
      /\ AggBurst(c, h) = Saturated(SumFunctionOnSet(g, S))
  BY DEF AggBurst, SumFunction
<1> HIDE DEF S, f, g
<1>4. /\ SumFunctionOnSet(f, S) \in Nat /\ SumFunctionOnSet(g, S) \in Nat
      /\ SumFunctionOnSet(f, S) <= SumFunctionOnSet(g, S)
  BY <1>1, <1>2, SumMonotone
<1>5. /\ AggBurst(b, h) \in 0..MaxU64 /\ AggBurst(c, h) \in 0..MaxU64
      /\ AggBurst(b, h) <= AggBurst(c, h)
  BY <1>3, <1>4, SaturatedMonotone
<1> QED
  BY <1>5, TotalFlowAssumption

LEMMA DelaysMonotone ==
    ASSUME net \in Networks, NEW b, NEW c, Assigned(b), Assigned(c), Below(b, c)
    PROVE  \A h \in Servers : /\ Delays(b)[h] \in 0..MaxU64 /\ Delays(c)[h] \in 0..MaxU64
                              /\ Delays(b)[h] <= Delays(c)[h]
<1> SUFFICES ASSUME NEW h \in Servers
             PROVE  /\ ServerDelay(b, h) \in 0..MaxU64 /\ ServerDelay(c, h) \in 0..MaxU64
                    /\ ServerDelay(b, h) <= ServerDelay(c, h)
  BY DEF Delays
<1>1. CASE AggRate(h) = 0
  BY <1>1, TotalFlowAssumption DEF ServerDelay
<1>2. CASE AggRate(h) # 0
  <2>1. /\ AggBurst(b, h) \in Nat /\ AggBurst(c, h) \in Nat /\ AggBurst(b, h) <= AggBurst(c, h)
    BY AggBurstMonotone
  <2>2. net.services[h] \in Service
    BY NetworkTypes
  <2>3. /\ ServerDelay(b, h) = delay_bound(AggBurst(b, h), net.services[h])
        /\ ServerDelay(c, h) = delay_bound(AggBurst(c, h), net.services[h])
    BY <1>2 DEF ServerDelay
  <2> QED
    BY <2>1, <2>2, <2>3, DelayBoundMonotone
<1> QED
  BY <1>1, <1>2

(* The bursts one iteration computes from b. *)
Stepped(b) == Propagated(b, Delays(b))

(* On a path within the network, the server before a place that is not the first. *)
LEMMA PlaceBefore ==
    ASSUME net \in Networks, ~OutOfRange, NEW i \in Flows, NEW j \in DOMAIN Path(i)
    PROVE  /\ j \in Nat \ {0} /\ 1 \in DOMAIN Path(i)
           /\ j # 1 => j - 1 \in DOMAIN Path(i) /\ Path(i)[j - 1] \in Servers
<1>1. DOMAIN Path(i) = 1..Len(Path(i)) /\ Len(Path(i)) \in Nat
  BY NetworkTypes
<1>2. \A k \in DOMAIN Path(i) : Path(i)[k] \in Servers
  <2> SUFFICES ASSUME NEW k \in DOMAIN Path(i) PROVE Path(i)[k] \in Servers
    OBVIOUS
  <2>1. <<i, k>> \in Positions
    BY PositionsAre
  <2>2. Path(<<i, k>>[1])[<<i, k>>[2]] \in Servers
    BY <2>1 DEF OutOfRange
  <2> QED
    BY <2>2
<1> QED
  BY <1>1, <1>2

LEMMA SteppedMonotone ==
    ASSUME net \in Networks, ~OutOfRange, NEW b, NEW c, Assigned(b), Assigned(c), Below(b, c)
    PROVE  Assigned(Stepped(b)) /\ Below(Stepped(b), Stepped(c))
<1> DEFINE d == Delays(b)
<1> DEFINE e == Delays(c)
<1>1. \A h \in Servers : /\ d[h] \in 0..MaxU64 /\ e[h] \in 0..MaxU64 /\ d[h] <= e[h]
  BY DelaysMonotone
<1> HIDE DEF d, e
<1>2. ASSUME NEW i \in Flows, NEW j \in DOMAIN Path(i)
      PROVE  /\ Stepped(b)[i][j] \in Nat /\ Stepped(b)[i][j] <= Stepped(c)[i][j]
  <2>1. /\ j \in Nat \ {0} /\ 1 \in DOMAIN Path(i)
        /\ j # 1 => j - 1 \in DOMAIN Path(i) /\ Path(i)[j - 1] \in Servers
    BY PlaceBefore
  <2>2. CASE j = 1
    <3>1. Stepped(b)[i][j] = b[i][1] /\ Stepped(c)[i][j] = c[i][1]
      BY <2>2 DEF Stepped, Propagated
    <3> QED
      BY <2>1, <3>1 DEF Assigned, Below
  <2>3. CASE j # 1
    <3> DEFINE rate == net.flows[i].rate
    <3> DEFINE h == Path(i)[j - 1]
    <3>1. /\ Stepped(b)[i][j] = inflate_burst(b[i][j - 1], rate, d[h])
          /\ Stepped(c)[i][j] = inflate_burst(c[i][j - 1], rate, e[h])
      BY <2>3 DEF Stepped, Propagated, d, e
    <3>2. rate \in Nat
      BY NetworkTypes
    <3>3. d[h] \in Nat /\ e[h] \in Nat /\ d[h] <= e[h]
      BY <1>1, <2>1, <2>3, TotalFlowAssumption
    <3>4. b[i][j - 1] \in Nat /\ c[i][j - 1] \in Nat /\ b[i][j - 1] <= c[i][j - 1]
      BY <2>1, <2>3 DEF Assigned, Below
    <3> DEFINE x == b[i][j - 1]
    <3> DEFINE y == c[i][j - 1]
    <3> HIDE DEF rate, h, x, y
    <3>5. /\ inflate_burst(x, rate, d[h]) \in 0..MaxU64
          /\ inflate_burst(x, rate, d[h]) <= inflate_burst(y, rate, e[h])
      <4>1. x \in Nat /\ y \in Nat /\ x <= y
        BY <3>4 DEF x, y
      <4> QED
        BY <3>2, <3>3, <4>1, InflateMonotone
    <3>6. /\ Stepped(b)[i][j] = inflate_burst(x, rate, d[h])
          /\ Stepped(c)[i][j] = inflate_burst(y, rate, e[h])
      BY <3>1 DEF x, y
    <3> QED
      BY <3>5, <3>6, TotalFlowAssumption
  <2> QED
    BY <2>2, <2>3
<1>3. Stepped(b) = [i \in Flows |-> [j \in DOMAIN Path(i) |-> Stepped(b)[i][j]]]
  BY DEF Stepped, Propagated
<1> QED
  BY <1>2, <1>3 DEF Assigned, Below

-----------------------------------------------------------------------------------
(* Fixed points                                                                    *)

LEMMA FixedPointAssigned ==
    ASSUME NEW v \in Bursts
    PROVE  /\ Assigned(AsBursts(v))
           /\ \A i \in Flows : \A j \in DOMAIN Path(i) :
                AsBursts(v)[i][j] = v[<<i, j>>] /\ v[<<i, j>>] \in 0..Ceiling
<1>1. \A i \in Flows : \A j \in DOMAIN Path(i) :
         AsBursts(v)[i][j] = v[<<i, j>>] /\ v[<<i, j>>] \in 0..Ceiling
  BY PositionsAre DEF AsBursts, Bursts
<1>2. AsBursts(v) = [i \in Flows |-> [j \in DOMAIN Path(i) |-> AsBursts(v)[i][j]]]
  BY DEF AsBursts
<1>3. \A i \in Flows : \A j \in DOMAIN Path(i) : AsBursts(v)[i][j] \in Nat
  <2>1. \A x \in 0..Ceiling : x \in Nat
    BY TotalFlowAssumption
  <2> QED
    BY <1>1, <2>1
<1>4. Assigned(AsBursts(v))
  BY <1>2, <1>3 DEF Assigned
<1> QED
  BY <1>1, <1>4

(* Along a path the bursts of a fixed point do not shrink. *)
LEMMA SourceBelowFixedPoint ==
    ASSUME net \in Networks, ~OutOfRange, NEW v \in Bursts, IsFixedPoint(v)
    PROVE  Assigned(SourceBursts) /\ Below(SourceBursts, AsBursts(v))
<1> DEFINE b == AsBursts(v)
<1>1. Assigned(SourceBursts)
  BY NetworkTypes DEF Assigned, SourceBursts
<1>2. /\ Assigned(b)
      /\ \A i \in Flows : \A j \in DOMAIN Path(i) : b[i][j] \in 0..Ceiling /\ b[i][j] = v[<<i, j>>]
  BY FixedPointAssigned
<1>3. b = Propagated(b, Delays(b))
  BY DEF IsFixedPoint
<1> HIDE DEF b
<1>4. ASSUME NEW i \in Flows
      PROVE  \A j \in DOMAIN Path(i) : net.flows[i].burst <= b[i][j]
  <2> DEFINE s == net.flows[i].burst
  <2> DEFINE T == {k \in Nat : k + 1 \in DOMAIN Path(i) => s <= b[i][k + 1]}
  <2>1. s \in Nat
    BY NetworkTypes
  <2>2. 0 \in T
    <3> SUFFICES ASSUME 1 \in DOMAIN Path(i) PROVE s <= b[i][1]
      OBVIOUS
    <3>1. Path(i) # << >>
      BY NetworkTypes
    <3>2. b[i][1] = s
      BY <1>2, <3>1 DEF IsFixedPoint
    <3> QED
      BY <2>1, <3>2
  <2>3. ASSUME NEW k \in Nat, k \in T PROVE k + 1 \in T
    <3> SUFFICES ASSUME (k + 1) + 1 \in DOMAIN Path(i) PROVE s <= b[i][(k + 1) + 1]
      OBVIOUS
    <3> DEFINE j == (k + 1) + 1
    <3>1. j # 1 /\ j - 1 = k + 1 /\ j - 1 \in DOMAIN Path(i) /\ Path(i)[j - 1] \in Servers
      BY PlaceBefore
    <3> DEFINE h == Path(i)[j - 1]
    <3>2. b[i][j] = inflate_burst(b[i][j - 1], net.flows[i].rate, Delays(b)[h])
      BY <1>3, <3>1 DEF Propagated
    <3>3. Below(b, b)
      BY <1>2 DEF Below, Assigned
    <3>4. Delays(b)[h] \in Nat /\ net.flows[i].rate \in Nat
      <4>1. h \in Servers
        BY <3>1
      <4>2. \A x \in Servers : Delays(b)[x] \in 0..MaxU64
        BY <1>2, <3>3, DelaysMonotone
      <4>3. net.flows[i].rate \in Nat
        BY NetworkTypes
      <4> HIDE DEF h
      <4> QED
        BY <4>1, <4>2, <4>3, TotalFlowAssumption
    <3>5. b[i][j - 1] \in Nat /\ b[i][j - 1] <= MaxU64
      <4>1. b[i][j - 1] \in 0..Ceiling
        BY <1>2, <3>1
      <4>2. \A x \in 0..Ceiling : x \in Nat /\ x <= MaxU64
        BY TotalFlowAssumption
      <4> QED
        BY <4>1, <4>2
    <3>6. s <= b[i][j - 1]
      BY <2>3, <3>1
    <3> DEFINE x == b[i][j - 1]
    <3> DEFINE y == Delays(b)[h]
    <3>7. x <= inflate_burst(x, net.flows[i].rate, y) /\ inflate_burst(x, net.flows[i].rate, y) \in 0..MaxU64
      <4> HIDE DEF x, y
      <4>1. x \in Nat /\ y \in Nat /\ x <= x /\ y <= y /\ x <= MaxU64
        BY <3>4, <3>5 DEF x, y
      <4> QED
        BY <3>4, <4>1, InflateMonotone
    <3>8. x <= b[i][j] /\ b[i][j] \in 0..MaxU64 /\ s <= x /\ x \in Nat
      BY <3>2, <3>5, <3>6, <3>7
    <3> HIDE DEF x, s
    <3> QED
      BY <2>1, <3>8, TotalFlowAssumption
  <2> HIDE DEF T
  <2>4. \A k \in Nat : k \in T
    BY <2>2, <2>3, ClosedUnderSuccessor
  <2>5. ASSUME NEW j \in DOMAIN Path(i) PROVE s <= b[i][j]
    <3>1. j - 1 \in Nat /\ (j - 1) + 1 = j
      BY PlaceBefore
    <3> QED
      BY <2>4, <3>1 DEF T
  <2> QED
    BY <2>5
<1> QED
  BY <1>1, <1>4 DEF Below, SourceBursts, b

(* One iteration keeps bursts below a fixed point. *)
LEMMA SteppedBelowFixedPoint ==
    ASSUME net \in Networks, ~OutOfRange, NEW v \in Bursts, IsFixedPoint(v),
           NEW b, Assigned(b), Below(b, AsBursts(v))
    PROVE  Below(Stepped(b), AsBursts(v))
<1>1. Stepped(AsBursts(v)) = AsBursts(v)
  BY DEF IsFixedPoint, Stepped
<1> QED
  BY <1>1, FixedPointAssigned, SteppedMonotone

-----------------------------------------------------------------------------------
(* The loop                                                                        *)

(* The bursts b are below every fixed point; there is none. *)
BelowFixedPoints(b) == \A v \in Bursts : IsFixedPoint(v) => Below(b, AsBursts(v))
NoFixedPoint == \A v \in Bursts : ~IsFixedPoint(v)

(* The inductive invariant. *)
Iteration ==
    /\ net \in Networks
    /\ stage \in {"check", "iterate", "rejected", "running"}
    /\ error \in {"none", "EmptyNetwork", "OutOfRange", "Unstable", "NonConvergent"}
    /\ stage = "rejected" <=> error # "none"
    /\ iterations \in 0..MaxIter
    /\ stage = "check" => iterations = 0
    /\ stage = "iterate" => iterations < MaxIter
    /\ stage \in {"iterate", "running"} =>
         /\ ~OutOfRange
         /\ \A b : bursts = b => /\ Assigned(b) /\ BelowFixedPoints(b)
                                 /\ iterations > 0 => ~Diverged(b)
    /\ stage = "running" =>
         /\ \A b : bursts = b => Stepped(b) = b /\ delay = Delays(b)
         /\ \A h \in Servers : delay[h] \in 0..MaxU64
         /\ owed \in [Servers -> Int]
    /\ error = "NonConvergent" /\ iterations < MaxIter => NoFixedPoint

(* What is said of bursts depends on the network alone. *)
LEMMA SameNetwork ==
    ASSUME net' = net, NEW b
    PROVE  /\ Servers' = Servers /\ (OutOfRange' <=> OutOfRange)
           /\ Assigned(b)' <=> Assigned(b)
           /\ Diverged(b)' <=> Diverged(b)
           /\ BelowFixedPoints(b)' <=> BelowFixedPoints(b)
           /\ NoFixedPoint' <=> NoFixedPoint
           /\ Delays(b)' = Delays(b) /\ Stepped(b)' = Stepped(b)
<1>1. Flows' = Flows /\ Servers' = Servers /\ \A i : Path(i)' = Path(i)
  BY DEF Flows, Servers, Path
<1>2. Positions' = Positions
  BY <1>1 DEF Positions
<1>3. \A h : Crossings(h)' = Crossings(h)
  BY <1>1, <1>2 DEF Crossings
<1>4. OutOfRange' <=> OutOfRange
  BY <1>1, <1>2 DEF OutOfRange
<1>5. Bursts' = Bursts
  BY <1>2 DEF Bursts
<1>6. ASSUME NEW c PROVE Delays(c)' = Delays(c)
  <2>1. \A h : AggRate(h)' = AggRate(h) /\ AggBurst(c, h)' = AggBurst(c, h)
    BY <1>3 DEF AggRate, AggBurst
  <2> QED
    BY <1>1, <2>1 DEF Delays, ServerDelay
<1>7. ASSUME NEW c, NEW d PROVE Propagated(c, d)' = Propagated(c, d)
  BY <1>1 DEF Propagated
<1>8. ASSUME NEW v PROVE AsBursts(v)' = AsBursts(v)
  BY <1>1 DEF AsBursts
<1>9. ASSUME NEW v PROVE IsFixedPoint(v)' <=> IsFixedPoint(v)
  <2>1. PICK c : c = AsBursts(v)
    OBVIOUS
  <2>2. PICK d : d = Delays(c)
    OBVIOUS
  <2>3. AsBursts(v)' = c /\ Delays(c)' = d /\ Propagated(c, d)' = Propagated(c, d)
    BY <1>6, <1>7, <1>8, <2>1, <2>2
  <2> QED
    BY <1>1, <2>1, <2>2, <2>3 DEF IsFixedPoint
<1>10. ASSUME NEW c, NEW d PROVE Below(c, d)' <=> Below(c, d)
  BY <1>1 DEF Below
<1>11. Assigned(b)' <=> Assigned(b)
  BY <1>1 DEF Assigned
<1>12. Diverged(b)' <=> Diverged(b)
  BY <1>2 DEF Diverged
<1>13. BelowFixedPoints(b)' <=> BelowFixedPoints(b)
  BY <1>5, <1>8, <1>9, <1>10 DEF BelowFixedPoints
<1>14. NoFixedPoint' <=> NoFixedPoint
  BY <1>5, <1>9 DEF NoFixedPoint
<1>15. Delays(b)' = Delays(b) /\ Stepped(b)' = Stepped(b)
  <2>1. PICK d : d = Delays(b)
    OBVIOUS
  <2>2. Delays(b)' = d /\ Propagated(b, d)' = Propagated(b, d)
    BY <1>6, <1>7, <2>1
  <2> QED
    BY <2>1, <2>2 DEF Stepped
<1> QED
  BY <1>1, <1>4, <1>11, <1>12, <1>13, <1>14, <1>15

LEMMA CheckInputKeeps ==
    ASSUME Iteration, CheckInput
    PROVE  Iteration'
<1>1. /\ net' = net /\ delay' = delay /\ iterations' = iterations /\ stage = "check"
      /\ iterations = 0 /\ MaxIter \in Nat \ {0} /\ net \in Networks /\ error = "none"
  BY TotalFlowAssumption DEF CheckInput, Iteration
<1>2. CASE /\ stage' = "rejected" /\ error' \in {"EmptyNetwork", "OutOfRange", "Unstable"}
  BY <1>1, <1>2 DEF Iteration
<1>3. CASE /\ ~EmptyNetwork /\ ~OutOfRange /\ \A h \in Servers : ~Unstable(h)
           /\ stage' = "iterate" /\ bursts' = SourceBursts /\ UNCHANGED error
  <2>1. PICK b : b = SourceBursts
    OBVIOUS
  <2>2. Assigned(b)
    BY <1>1, <2>1, NetworkTypes DEF Assigned, SourceBursts
  <2>3. BelowFixedPoints(b)
    BY <1>1, <1>3, <2>1, SourceBelowFixedPoint DEF BelowFixedPoints
  <2>4. ~OutOfRange' /\ Assigned(b)' /\ BelowFixedPoints(b)'
    BY <1>1, <1>3, <2>2, <2>3, SameNetwork
  <2>5. ~OutOfRange' /\ \A c : bursts' = c => Assigned(c)' /\ BelowFixedPoints(c)'
    BY <1>3, <2>1, <2>4
  <2> QED
    BY <1>1, <1>3, <2>5 DEF Iteration
<1> QED
  BY <1>2, <1>3 DEF CheckInput, Reject

LEMMA IterateKeeps ==
    ASSUME Iteration, Iterate
    PROVE  Iteration'
<1>1. /\ net' = net /\ net \in Networks /\ stage = "iterate" /\ error = "none" /\ ~OutOfRange
      /\ iterations \in Nat /\ iterations < MaxIter /\ iterations' = iterations + 1
      /\ MaxIter \in Nat
  BY TotalFlowAssumption DEF Iterate, Iteration
<1>2. PICK b : b = bursts
  OBVIOUS
<1>3. Assigned(b) /\ BelowFixedPoints(b)
  BY <1>1, <1>2 DEF Iteration
<1>4. PICK c : c = Stepped(b)
  OBVIOUS
<1>5. Assigned(c) /\ BelowFixedPoints(c)
  <2>1. Below(b, b)
    BY <1>3 DEF Below, Assigned
  <2>2. Assigned(c)
    BY <1>1, <1>3, <1>4, <2>1, SteppedMonotone
  <2>3. BelowFixedPoints(c)
    BY <1>1, <1>3, <1>4, SteppedBelowFixedPoint DEF BelowFixedPoints
  <2> QED
    BY <2>2, <2>3
<1>6. /\ delay' = Delays(b)
      /\ \/ Diverged(c) /\ Reject("NonConvergent")
         \/ /\ ~Diverged(c) /\ c = b
            /\ stage' = "running" /\ StartNetwork /\ UNCHANGED <<bursts, error>>
         \/ /\ ~Diverged(c) /\ iterations + 1 >= MaxIter /\ Reject("NonConvergent")
         \/ /\ ~Diverged(c) /\ iterations + 1 < MaxIter
            /\ bursts' = c /\ UNCHANGED <<stage, error>>
  BY <1>2, <1>4 DEF Iterate, Stepped
<1>7. CASE Diverged(c) /\ Reject("NonConvergent")
  <2>1. NoFixedPoint
    <3> SUFFICES ASSUME NEW v \in Bursts, IsFixedPoint(v) PROVE FALSE
      BY DEF NoFixedPoint
    <3>1. Below(c, AsBursts(v))
      BY <1>5 DEF BelowFixedPoints
    <3>2. PICK p \in Positions : c[p[1]][p[2]] > Ceiling
      BY <1>7 DEF Diverged
    <3>3. p[1] \in Flows /\ p[2] \in DOMAIN Path(p[1])
      BY PositionsAre
    <3>4. AsBursts(v)[p[1]][p[2]] \in 0..Ceiling
      BY <3>3, FixedPointAssigned
    <3>5. c[p[1]][p[2]] <= AsBursts(v)[p[1]][p[2]] /\ c[p[1]][p[2]] \in Nat
      BY <1>5, <3>1, <3>3 DEF Below, Assigned
    <3>6. Ceiling \in Nat
      BY TotalFlowAssumption
    <3> QED
      BY <3>2, <3>4, <3>5, <3>6
  <2>2. NoFixedPoint'
    BY <1>1, <2>1, SameNetwork
  <2>3. stage' = "rejected" /\ error' = "NonConvergent"
    BY <1>7 DEF Reject
  <2> QED
    BY <1>1, <2>2, <2>3 DEF Iteration
<1>8. CASE iterations + 1 >= MaxIter /\ Reject("NonConvergent")
  BY <1>1, <1>8 DEF Iteration, Reject
<1>9. CASE /\ ~Diverged(c) /\ c = b
           /\ stage' = "running" /\ StartNetwork /\ UNCHANGED <<bursts, error>>
  <2>1. /\ ~OutOfRange' /\ Assigned(b)' /\ ~Diverged(b)' /\ Servers' = Servers
        /\ BelowFixedPoints(b)' /\ Stepped(b)' = b /\ delay' = Delays(b)'
    BY <1>1, <1>3, <1>4, <1>6, <1>9, SameNetwork
  <2>2. Below(b, b)
    BY <1>3 DEF Below, Assigned
  <2>3. \A h \in Servers : delay'[h] \in 0..MaxU64
    BY <1>1, <1>3, <1>6, <2>2, DelaysMonotone
  <2>4. \A h \in Servers : Latent(h) \in Int
    BY <1>1, NetworkTypes DEF Latent, Service
  <2>5. owed' \in [Servers -> Int]
    BY <1>9, <2>4 DEF StartNetwork
  <2>6. /\ stage' = "running" /\ error' = "none"
        /\ \A x : bursts' = x => /\ Assigned(x)' /\ ~Diverged(x)' /\ BelowFixedPoints(x)'
                                 /\ Stepped(x)' = x /\ delay' = Delays(x)'
    BY <1>1, <1>2, <1>9, <2>1
  <2> QED
    BY <1>1, <2>1, <2>3, <2>5, <2>6 DEF Iteration
<1>10. CASE /\ ~Diverged(c) /\ iterations + 1 < MaxIter
            /\ bursts' = c /\ UNCHANGED <<stage, error>>
  <2>1. ~OutOfRange' /\ Assigned(c)' /\ ~Diverged(c)' /\ BelowFixedPoints(c)'
    BY <1>1, <1>5, <1>10, SameNetwork
  <2>2. \A x : bursts' = x => Assigned(x)' /\ ~Diverged(x)' /\ BelowFixedPoints(x)'
    BY <1>10, <2>1
  <2> QED
    BY <1>1, <1>10, <2>1, <2>2 DEF Iteration
<1> QED
  BY <1>6, <1>7, <1>8, <1>9, <1>10

(* The network leaves the analysis alone. *)
LEMMA NetworkKeeps ==
    ASSUME Iteration, UNCHANGED analysis, stage = "running" => owed' \in [Servers -> Int]
    PROVE  Iteration'
<1>1. /\ net' = net /\ stage' = stage /\ error' = error /\ bursts' = bursts
      /\ delay' = delay /\ iterations' = iterations
  BY DEF analysis
<1>2. Servers' = Servers /\ (OutOfRange' <=> OutOfRange) /\ (NoFixedPoint' <=> NoFixedPoint)
  BY <1>1, SameNetwork
<1>3. \A x : bursts' = x => /\ Assigned(x)' <=> Assigned(x)
                            /\ Diverged(x)' <=> Diverged(x)
                            /\ BelowFixedPoints(x)' <=> BelowFixedPoints(x)
                            /\ Delays(x)' = Delays(x) /\ Stepped(x)' = Stepped(x)
  BY <1>1, SameNetwork
<1> QED
  BY <1>1, <1>2, <1>3 DEF Iteration

LEMMA IterationInductive ==
    /\ Init => Iteration
    /\ Iteration /\ [Next]_vars => Iteration'
<1>1. ASSUME Init PROVE Iteration
  BY <1>1, TotalFlowAssumption DEF Init, Iteration
<1>2. ASSUME Iteration, [Next]_vars PROVE Iteration'
  <2>1. Unit \in Int
    BY TotalFlowAssumption
  <2>2. \A h \in Servers : Latent(h) \in Int /\ net.services[h].rate \in Int
    BY <1>2, NetworkTypes DEF Iteration, Latent, Service
  <2>3. stage = "running" => owed \in [Servers -> Int]
    BY <1>2 DEF Iteration
  <2>4. CASE CheckInput
    BY <1>2, <2>4, CheckInputKeeps
  <2>5. CASE Iterate
    BY <1>2, <2>5, IterateKeeps
  <2>6. CASE \E i \in Flows : Send(i)
    BY <1>2, <2>3, <2>6, NetworkKeeps DEF Send
  <2>7. ASSUME NEW h \in Servers, Serve(h) PROVE Iteration'
    <3>1. /\ stage = "running" /\ UNCHANGED analysis
          /\ owed' = [owed EXCEPT ![h] = IF Tail(queue[h]) = << >> THEN Latent(h) ELSE @ - Unit]
      BY <2>7 DEF Serve
    <3>2. owed' \in [Servers -> Int]
      BY <2>1, <2>2, <2>3, <3>1
    <3> QED
      BY <1>2, <3>1, <3>2, NetworkKeeps
  <2>8. CASE Tick
    <3>1. owed' \in [Servers -> Int]
      BY <2>2, <2>3, <2>8 DEF Tick
    <3> QED
      BY <1>2, <2>8, <3>1, NetworkKeeps DEF Tick
  <2>9. CASE UNCHANGED vars
    BY <1>2, <2>3, <2>9, NetworkKeeps DEF vars, network
  <2> QED
    BY <1>2, <2>4, <2>5, <2>6, <2>7, <2>8, <2>9 DEF Next, Rejected
<1> QED
  BY <1>1, <1>2

(* For every network and every limit on the iterations, the loop of tfa_bound      *)
(* keeps its bursts below every fixed point and, after the first iteration, below  *)
(* the ceiling (tfa.rs:236-312).                                                   *)
THEOREM IterationInvariant == Spec => []Iteration
BY IterationInductive, PTL DEF Spec

(* tfa_bound returns a delay per server that is a u64, or an error, never both;    *)
(* what it iterates stays a burst per position within the ceiling (tfa.rs:236-312).*)
THEOREM TypeCorrect == Spec => []TypeOK
<1>1. ASSUME Iteration PROVE TypeOK
  <2>1. ASSUME stage \in {"iterate", "running"}, NEW p \in Positions
        PROVE  /\ bursts[p[1]][p[2]] \in Nat
               /\ p[2] > 1 /\ iterations > 0 => bursts[p[1]][p[2]] <= Ceiling
    <3>1. PICK b : b = bursts
      OBVIOUS
    <3>2. Assigned(b) /\ (iterations > 0 => ~Diverged(b))
      BY <1>1, <2>1, <3>1 DEF Iteration
    <3>3. b[p[1]][p[2]] \in Nat
      BY <3>2, PositionsAre DEF Assigned
    <3>4. iterations > 0 /\ p[2] > 1 => ~(b[p[1]][p[2]] > Ceiling)
      BY <3>2 DEF Diverged
    <3>5. Ceiling \in Nat
      BY TotalFlowAssumption
    <3> QED
      BY <3>1, <3>3, <3>4, <3>5
  <2>2. (stage = "rejected") = (error # "none")
    BY <1>1 DEF Iteration
  <2> QED
    BY <1>1, <2>1, <2>2 DEF Iteration, TypeOK
<1> QED
  BY <1>1, IterationInvariant, PTL

(* A network refused as NonConvergent before the iteration limit has no fixed      *)
(* point below the ceiling, whatever its flows, paths and cycles: the ceiling      *)
(* never gives up a network that could have been bounded (tfa.rs:287-295).         *)
THEOREM GivesUpForAReason == Spec => []DivergesForAReason
<1>1. ASSUME Iteration PROVE DivergesForAReason
  BY <1>1 DEF Iteration, DivergesForAReason, NoFixedPoint
<1> QED
  BY <1>1, IterationInvariant, PTL

(* What tfa_bound accepts: delays of bursts that one more iteration keeps, none of *)
(* which is above any other fixed point.                                           *)
LeastBursts ==
    stage = "running" =>
        /\ delay = Delays(bursts)
        /\ Propagated(bursts, delay) = bursts
        /\ \A v \in Bursts : IsFixedPoint(v) => \A p \in Positions : bursts[p[1]][p[2]] <= v[p]

(* The delays tfa_bound reports are those of the least fixed point of the network: *)
(* the loop from the source bursts passes none (tfa.rs:236-312).                   *)
THEOREM AcceptsTheLeastBursts == Spec => []LeastBursts
<1>1. ASSUME Iteration PROVE LeastBursts
  <2> SUFFICES ASSUME stage = "running"
               PROVE  /\ delay = Delays(bursts)
                      /\ Propagated(bursts, delay) = bursts
                      /\ \A v \in Bursts : IsFixedPoint(v) =>
                            \A p \in Positions : bursts[p[1]][p[2]] <= v[p]
    BY DEF LeastBursts
  <2>1. PICK b : b = bursts
    OBVIOUS
  <2>2. Stepped(b) = b /\ delay = Delays(b) /\ BelowFixedPoints(b)
    BY <1>1, <2>1 DEF Iteration
  <2>3. ASSUME NEW v \in Bursts, IsFixedPoint(v), NEW p \in Positions
        PROVE  b[p[1]][p[2]] <= v[p]
    <3>1. Below(b, AsBursts(v))
      BY <2>2, <2>3 DEF BelowFixedPoints
    <3>2. p[1] \in Flows /\ p[2] \in DOMAIN Path(p[1]) /\ p = <<p[1], p[2]>>
      BY PositionsAre
    <3>3. AsBursts(v)[p[1]][p[2]] = v[<<p[1], p[2]>>]
      BY <3>2, FixedPointAssigned
    <3>4. AsBursts(v)[p[1]][p[2]] = v[p]
      BY <3>2, <3>3
    <3> QED
      BY <3>1, <3>2, <3>4 DEF Below
  <2> QED
    BY <2>1, <2>2, <2>3 DEF Stepped
<1> QED
  BY <1>1, IterationInvariant, PTL

===================================================================================
