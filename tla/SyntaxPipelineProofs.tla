-------------------------- MODULE SyntaxPipelineProofs --------------------------
(***************************************************************************)
(* The syntax pipeline, for every grammar, source text and kind set: the   *)
(* parser's event list is well formed (types, live markers, sound links);  *)
(* resolving passes tokens and errors on as they were recorded, so errors  *)
(* are reported where they were raised; every node has an end of its own,  *)
(* so neither resolve_events nor build_tree nor rowan panics; the leaves   *)
(* of the tree are the text; and the tree, trivia aside, is the one the    *)
(* grammar's calls ask for.                                                *)
(***************************************************************************)
EXTENDS SyntaxPipeline, SumTheorems, SequenceTheorems

--------------------------------------------------------------------------------
(* The parser.                                                               *)

(* The event constructors build events. *)
LEMMA EventTypes ==
    /\ \A k \in EventKinds : StartEvent(k) \in Event /\ TokenEvent(k) \in Event
    /\ FinishEvent \in Event /\ ErrorEvent \in Event /\ TombstoneEvent \in Event
    /\ TOMBSTONE \in EventKinds /\ ERROR \in EventKinds /\ SOURCE_FILE \in EventKinds
    /\ TokenKinds \subseteq EventKinds /\ NodeKinds \subseteq EventKinds
BY DEF StartEvent, TokenEvent, FinishEvent, ErrorEvent, TombstoneEvent, Event, EventTags,
       EventKinds, CompletedKinds

(* A lookahead within the significant tokens sees one of them. *)
LEMMA NthInRange ==
    ASSUME ParserTypeOK, NEW n \in Nat, pos + n < Len(non_trivia_indices)
    PROVE  nth(n) \in TokenKinds
<1>1. pos + n + 1 \in DOMAIN non_trivia_indices
  BY DEF ParserTypeOK
<1>2. nth(n) = tokens[non_trivia_indices[pos + n + 1]]
  BY DEF nth, ParserTypeOK
<1> QED BY <1>1, <1>2 DEF ParserTypeOK

(* Events added at the end without a link keep the list well linked. *)
LEMMA ExtendKeepsLinks ==
    ASSUME NEW ev \in Seq(Event), NEW res \in Seq(Event), Len(ev) <= Len(res),
           \A i \in 1..Len(ev) : res[i] = ev[i],
           \A i \in 1..Len(res) : i > Len(ev) => res[i].forward_parent = 0,
           LinksLand(ev), LinksInjective(ev)
    PROVE  LinksLand(res) /\ LinksInjective(res)
<1>1. DOMAIN ev = 1..Len(ev) /\ DOMAIN res = 1..Len(res) /\ Len(ev) \in Nat /\ Len(res) \in Nat
  BY LenProperties
<1>2. ASSUME NEW j \in DOMAIN res, res[j].forward_parent # 0
      PROVE  j \in DOMAIN ev /\ res[j] = ev[j]
  BY <1>1, <1>2
<1>3. LinksLand(res)
  <2> SUFFICES ASSUME NEW j \in DOMAIN res, res[j].forward_parent # 0
               PROVE  /\ res[j].tag = "Start"
                      /\ j + res[j].forward_parent \in DOMAIN res
                      /\ res[j + res[j].forward_parent].tag = "Start"
    BY DEF LinksLand
  <2>1. /\ ev[j].tag = "Start"
        /\ j + ev[j].forward_parent \in DOMAIN ev
        /\ ev[j + ev[j].forward_parent].tag = "Start"
    BY <1>2 DEF LinksLand
  <2> QED BY <1>1, <1>2, <2>1
<1>4. LinksInjective(res)
  BY <1>2 DEF LinksInjective
<1> QED BY <1>3, <1>4

(* An action that only adds events without links at the end of the list, and *)
(* either leaves the markers alone or opens one at the first of them, keeps  *)
(* the invariant. *)
LEMMA AddingEvents ==
    ASSUME ParserInv, ParserTypeOK',
           Len(events) <= Len(events'),
           \A i \in 1..Len(events) : events'[i] = events[i],
           \A i \in 1..Len(events') : i > Len(events) => events'[i].forward_parent = 0,
           \/ open' = open
           \/ /\ open' = Append(open, Len(events) + 1)
              /\ Len(events') > Len(events)
              /\ events'[Len(events) + 1] = StartEvent(TOMBSTONE),
           last' = 0
    PROVE  ParserInv'
<1>1. /\ events \in Seq(Event) /\ events' \in Seq(Event) /\ open \in Seq(Nat)
      /\ Len(events) \in Nat /\ Len(events') \in Nat
      /\ DOMAIN events = 1..Len(events) /\ DOMAIN events' = 1..Len(events')
  BY DEF ParserInv, ParserTypeOK
<1>2. LinksSound'
  BY <1>1, ExtendKeepsLinks DEF ParserInv, LinksSound
<1>3. MarkersLive'
  <2>1. CASE open' = open
    BY <1>1, <2>1 DEF ParserInv, MarkersLive
  <2>2. CASE /\ open' = Append(open, Len(events) + 1)
             /\ Len(events') > Len(events)
             /\ events'[Len(events) + 1] = StartEvent(TOMBSTONE)
    <3>1. /\ Len(open) \in Nat /\ DOMAIN open = 1..Len(open)
          /\ DOMAIN open' = 1..(Len(open) + 1)
          /\ \A i \in 1..Len(open) : open'[i] = open[i]
          /\ open'[Len(open) + 1] = Len(events) + 1
      BY <1>1, <2>2, AppendProperties, LenProperties
    <3>2. \A i \in DOMAIN open : open[i] \in 1..Len(events) /\ events[open[i]] = StartEvent(TOMBSTONE)
      BY <1>1 DEF ParserInv, MarkersLive
    <3>3. \A i, j \in DOMAIN open : i < j => open[i] < open[j]
      BY DEF ParserInv, MarkersLive
    <3>4. ASSUME NEW i \in DOMAIN open'
          PROVE  open'[i] \in DOMAIN events' /\ events'[open'[i]] = StartEvent(TOMBSTONE)
      <4>1. CASE i = Len(open) + 1
        <5>1. open'[i] = Len(events) + 1
          BY <3>1, <4>1
        <5>2. Len(events) + 1 \in DOMAIN events'
          BY <1>1, <2>2
        <5> QED BY <2>2, <5>1, <5>2
      <4>2. CASE i \in 1..Len(open)
        <5>1. open'[i] = open[i]
          BY <3>1, <4>2
        <5>2. open[i] \in 1..Len(events) /\ events[open[i]] = StartEvent(TOMBSTONE)
          BY <3>1, <3>2, <4>2
        <5>3. events'[open[i]] = events[open[i]]
          BY <5>2
        <5>4. open[i] \in DOMAIN events'
          BY <1>1, <5>2
        <5> QED BY <5>1, <5>2, <5>3, <5>4
      <4> QED BY <3>1, <4>1, <4>2
    <3>5. ASSUME NEW i \in DOMAIN open', NEW j \in DOMAIN open', i < j
          PROVE  open'[i] < open'[j]
      <4>1. i \in 1..Len(open)
        BY <3>1, <3>5
      <4>2. CASE j = Len(open) + 1
        BY <1>1, <3>1, <3>2, <4>1, <4>2
      <4>3. CASE j \in 1..Len(open)
        BY <3>1, <3>3, <3>5, <4>1, <4>3
      <4> QED BY <3>1, <4>2, <4>3
    <3>6. StartEvent(TOMBSTONE)' = StartEvent(TOMBSTONE)
      BY DEF StartEvent
    <3> QED BY <3>4, <3>5, <3>6 DEF MarkersLive
  <2> QED BY <2>1, <2>2
<1>4. LastCompleted'
  BY DEF LastCompleted
<1> QED BY <1>2, <1>3, <1>4 DEF ParserInv

(* The significant tokens of the initial state. *)
LEMMA InitialIndices ==
    ASSUME NEW toks \in Seq(TokenKinds \cup {Trivia}), NEW f \in NonTriviaIndices(toks)
    PROVE  /\ f \in Seq(DOMAIN toks)
           /\ \A i \in DOMAIN f : toks[f[i]] \in TokenKinds
<1> DEFINE S == {i \in DOMAIN toks : toks[i] # Trivia}
<1>1. PICK n \in 0..Len(toks) : f \in [1..n -> S]
  BY DEF NonTriviaIndices
<1>2. n \in Nat
  BY LenProperties
<1>3. f \in [1..n -> DOMAIN toks]
  BY <1>1
<1>4. f \in Seq(DOMAIN toks)
  BY <1>2, <1>3, SeqDef
<1>5. \A i \in DOMAIN f : f[i] \in S
  BY <1>1
<1>6. \A i \in S : toks[i] \in TokenKinds
  BY ElementOfSeq, LenProperties
<1> QED BY <1>4, <1>5, <1>6

LEMMA ParserInitInv == ParserInit => ParserInv
<1> SUFFICES ASSUME ParserInit PROVE ParserInv
  OBVIOUS
<1>1. ParserTypeOK
  <2>1. tokens \in Seq(TokenKinds \cup {Trivia})
    BY KindsAssumption DEF ParserInit
  <2>2. /\ non_trivia_indices \in Seq(DOMAIN tokens)
        /\ \A i \in DOMAIN non_trivia_indices : tokens[non_trivia_indices[i]] \in TokenKinds
    BY <2>1, InitialIndices DEF ParserInit
  <2> QED BY <2>1, <2>2, LenProperties DEF ParserInit, ParserTypeOK
<1>2. MarkersLive /\ LastCompleted /\ LinksSound
  BY DEF ParserInit, MarkersLive, LastCompleted, LinksSound, LinksLand, LinksInjective
<1> QED BY <1>1, <1>2 DEF ParserInv

LEMMA StartRootInv == ASSUME ParserInv, StartRoot PROVE ParserInv'
<1>1. ParserTypeOK'
  BY EventTypes DEF ParserInv, ParserTypeOK, StartRoot
<1>2. events = <<>> /\ events' = <<StartEvent(TOMBSTONE)>> /\ Len(events) = 0 /\ Len(events') = 1
  BY DEF StartRoot
<1>3. events'[1] = StartEvent(TOMBSTONE) /\ events'[1].forward_parent = 0
  BY <1>2 DEF StartEvent
<1>4. open' = Append(open, Len(events) + 1) /\ last' = 0
  <2>1. last = 0
    BY EmptySeq, <1>2 DEF ParserInv, LastCompleted
  <2> QED BY <1>2, <2>1 DEF StartRoot
<1> QED BY <1>1, <1>2, <1>3, <1>4, AddingEvents

LEMMA StartInv == ASSUME ParserInv, Start PROVE ParserInv'
<1>1. /\ events \in Seq(Event) /\ open \in Seq(Nat) /\ StartEvent(TOMBSTONE) \in Event
      /\ Len(events) \in Nat
  BY EventTypes DEF ParserInv, ParserTypeOK
<1>2. /\ events' = Append(events, StartEvent(TOMBSTONE))
      /\ open' = Append(open, Len(events) + 1)
      /\ last' = 0
  BY DEF Start
<1>3. ParserTypeOK'
  BY <1>1, <1>2, AppendProperties DEF ParserInv, ParserTypeOK, Start
<1>4. /\ Len(events') = Len(events) + 1
      /\ \A i \in 1..Len(events) : events'[i] = events[i]
      /\ events'[Len(events) + 1] = StartEvent(TOMBSTONE)
  BY <1>1, <1>2, AppendProperties
<1>5. StartEvent(TOMBSTONE).forward_parent = 0
  BY DEF StartEvent
<1>6. \A i \in 1..Len(events') : i > Len(events) => events'[i].forward_parent = 0
  BY <1>1, <1>4, <1>5
<1> QED BY <1>1, <1>2, <1>3, <1>4, <1>6, AddingEvents

(* Bump, Error and the short form of err_recover add one event. *)
LEMMA AppendInv ==
    ASSUME ParserInv, NEW e \in Event, e.forward_parent = 0,
           events' = Append(events, e), pos' \in 0..Len(non_trivia_indices), last' = 0,
           UNCHANGED <<tokens, non_trivia_indices, open>>
    PROVE  ParserInv'
<1>1. events \in Seq(Event) /\ Len(events) \in Nat
  BY DEF ParserInv, ParserTypeOK
<1>2. ParserTypeOK'
  BY <1>1, AppendProperties DEF ParserInv, ParserTypeOK
<1>3. /\ Len(events') = Len(events) + 1
      /\ \A i \in 1..Len(events) : events'[i] = events[i]
      /\ events'[Len(events) + 1] = e
  BY <1>1, AppendProperties
<1>4. \A i \in 1..Len(events') : i > Len(events) => events'[i].forward_parent = 0
  BY <1>1, <1>3
<1> QED BY <1>1, <1>2, <1>3, <1>4, AddingEvents

LEMMA BumpInv == ASSUME ParserInv, Bump PROVE ParserInv'
<1>1. pos \in Nat /\ Len(non_trivia_indices) \in Nat /\ pos < Len(non_trivia_indices)
  BY DEF ParserInv, ParserTypeOK, Bump, at_end
<1>2. current \in TokenKinds
  BY <1>1, NthInRange DEF current, ParserInv
<1>3. TokenEvent(current) \in Event /\ TokenEvent(current).forward_parent = 0
  BY <1>2, EventTypes DEF TokenEvent
<1> QED BY <1>1, <1>3, AppendInv DEF Bump

LEMMA ErrorInv == ASSUME ParserInv, Error PROVE ParserInv'
<1>1. ErrorEvent \in Event /\ ErrorEvent.forward_parent = 0
  BY EventTypes DEF ErrorEvent
<1>2. pos' \in 0..Len(non_trivia_indices)
  BY DEF Error, ParserInv, ParserTypeOK
<1> QED BY <1>1, <1>2, AppendInv DEF Error

(* What concatenation does to lists of events without links. *)
LEMMA ConcatUnlinked ==
    ASSUME NEW s \in Seq(Event), NEW t \in Seq(Event),
           \A i \in 1..Len(t) : t[i].forward_parent = 0
    PROVE  /\ s \o t \in Seq(Event)
           /\ Len(s) \in Nat /\ Len(s \o t) \in Nat /\ Len(s) <= Len(s \o t)
           /\ \A i \in 1..Len(s) : (s \o t)[i] = s[i]
           /\ \A i \in 1..Len(s \o t) : i > Len(s) => (s \o t)[i].forward_parent = 0
<1>1. Len(s) \in Nat /\ Len(t) \in Nat
  BY LenProperties
<1>2. /\ s \o t \in Seq(Event) /\ Len(s \o t) = Len(s) + Len(t)
  BY ConcatProperties
<1>3. \A i \in 1..(Len(s) + Len(t)) : (s \o t)[i] = IF i <= Len(s) THEN s[i] ELSE t[i - Len(s)]
  BY ConcatProperties
<1>4. ASSUME NEW i \in 1..Len(s \o t), i > Len(s)
      PROVE  (s \o t)[i].forward_parent = 0
  <2>1. i - Len(s) \in 1..Len(t) /\ i \in 1..(Len(s) + Len(t))
    BY <1>1, <1>2, <1>4
  <2>2. (s \o t)[i] = t[i - Len(s)]
    BY <1>1, <1>3, <1>4, <2>1
  <2> QED BY <2>1, <2>2
<1>5. \A i \in 1..Len(s) : (s \o t)[i] = s[i]
  BY <1>1, <1>3
<1> QED BY <1>1, <1>2, <1>4, <1>5

LEMMA ConcatBothUnlinked ==
    ASSUME NEW s \in Seq(Event), NEW t \in Seq(Event),
           \A i \in 1..Len(s) : s[i].forward_parent = 0,
           \A i \in 1..Len(t) : t[i].forward_parent = 0
    PROVE  /\ s \o t \in Seq(Event)
           /\ \A i \in 1..Len(s \o t) : (s \o t)[i].forward_parent = 0
<1>1. /\ s \o t \in Seq(Event) /\ Len(s) \in Nat /\ Len(s \o t) \in Nat
      /\ \A i \in 1..Len(s) : (s \o t)[i] = s[i]
      /\ \A i \in 1..Len(s \o t) : i > Len(s) => (s \o t)[i].forward_parent = 0
  BY ConcatUnlinked
<1>2. ASSUME NEW i \in 1..Len(s \o t) PROVE (s \o t)[i].forward_parent = 0
  <2>1. CASE i <= Len(s)
    <3>1. i \in 1..Len(s)
      BY <1>1, <2>1
    <3> QED BY <1>1, <3>1
  <2>2. CASE i > Len(s)
    BY <1>1, <2>2
  <2> QED BY <1>1, <2>1, <2>2
<1> QED BY <1>1, <1>2

LEMMA ErrorNodeIsSeq ==
    ASSUME ParserTypeOK, NEW n \in 1..(Len(non_trivia_indices) - pos)
    PROVE  /\ ErrorNode(n) \in Seq(Event)
           /\ \A i \in 1..Len(ErrorNode(n)) : ErrorNode(n)[i].forward_parent = 0
<1> DEFINE head == <<StartEvent(ERROR), ErrorEvent>>
           body == [i \in 1..n |-> TokenEvent(nth(i - 1))]
           tail == <<FinishEvent>>
           NoLink(s) == \A i \in 1..Len(s) : s[i].forward_parent = 0
<1>0. n \in Nat /\ pos \in Nat /\ Len(non_trivia_indices) \in Nat
  BY DEF ParserTypeOK
<1>1. head \in Seq(Event) /\ Len(head) = 2 /\ NoLink(head)
  <2>1. head \in Seq(Event) /\ Len(head) = 2 /\ head[1] = StartEvent(ERROR) /\ head[2] = ErrorEvent
    BY EventTypes
  <2>2. StartEvent(ERROR).forward_parent = 0 /\ ErrorEvent.forward_parent = 0
    BY DEF StartEvent, ErrorEvent
  <2> QED BY <2>1, <2>2
<1>2. body \in Seq(Event) /\ Len(body) = n /\ NoLink(body)
  <2>1. \A i \in 1..n : TokenEvent(nth(i - 1)) \in Event
    <3> TAKE i \in 1..n
    <3>1. i - 1 \in Nat /\ pos + (i - 1) < Len(non_trivia_indices)
      BY <1>0
    <3>2. nth(i - 1) \in TokenKinds
      BY <3>1, NthInRange
    <3> QED BY <3>2, EventTypes
  <2>2. \A i \in 1..n : TokenEvent(nth(i - 1)).forward_parent = 0
    BY DEF TokenEvent
  <2>3. body \in [1..n -> Event]
    BY <2>1
  <2>4. body \in Seq(Event) /\ Len(body) = n
    BY <1>0, <2>3, IsASeq
  <2> QED BY <2>2, <2>4
<1>3. tail \in Seq(Event) /\ Len(tail) = 1 /\ NoLink(tail)
  BY EventTypes DEF FinishEvent
<1> HIDE DEF head, body, tail
<1>4. head \o body \in Seq(Event) /\ NoLink(head \o body)
  BY <1>1, <1>2, ConcatBothUnlinked
<1>5. (head \o body) \o tail \in Seq(Event) /\ NoLink((head \o body) \o tail)
  BY <1>3, <1>4, ConcatBothUnlinked
<1> QED BY <1>5 DEF ErrorNode, head, body, tail

LEMMA ErrRecoverInv == ASSUME ParserInv, NEW R, err_recover(R) PROVE ParserInv'
<1>1. CASE current = EOF \/ current \in R
  <2>1. events' = Append(events, ErrorEvent) /\ pos' = pos /\ last' = 0
    BY <1>1 DEF err_recover
  <2>2. ErrorEvent \in Event /\ ErrorEvent.forward_parent = 0
    BY EventTypes DEF ErrorEvent
  <2>3. pos' \in 0..Len(non_trivia_indices)
    BY <2>1 DEF ParserInv, ParserTypeOK
  <2>4. UNCHANGED <<tokens, non_trivia_indices, open>>
    BY DEF err_recover
  <2> QED BY <2>1, <2>2, <2>3, <2>4, AppendInv
<1>2. CASE ~(current = EOF \/ current \in R)
  <2>1. PICK n \in 1..(Len(non_trivia_indices) - pos) :
            events' = events \o ErrorNode(n) /\ pos' = pos + n
    BY <1>2 DEF err_recover
  <2>2. last' = 0 /\ UNCHANGED <<tokens, non_trivia_indices, open>>
    BY DEF err_recover
  <2>3. events \in Seq(Event) /\ ParserTypeOK
    BY DEF ParserInv, ParserTypeOK
  <2>4. /\ ErrorNode(n) \in Seq(Event)
        /\ \A i \in 1..Len(ErrorNode(n)) : ErrorNode(n)[i].forward_parent = 0
    BY <2>3, ErrorNodeIsSeq
  <2>5. /\ events' \in Seq(Event)
        /\ Len(events) <= Len(events')
        /\ \A i \in 1..Len(events) : events'[i] = events[i]
        /\ \A i \in 1..Len(events') : i > Len(events) => events'[i].forward_parent = 0
    BY <2>1, <2>3, <2>4, ConcatUnlinked
  <2>6. pos' \in 0..Len(non_trivia_indices)
    BY <2>1 DEF ParserInv, ParserTypeOK
  <2>7. ParserTypeOK'
    BY <2>2, <2>5, <2>6 DEF ParserInv, ParserTypeOK
  <2> QED BY <2>2, <2>5, <2>7, AddingEvents
<1> QED BY <1>1, <1>2

(* Changing events without touching tag or link, and moving no link target,  *)
(* keeps the list well linked. *)
LEMMA SameLinks ==
    ASSUME NEW ev \in Seq(Event), NEW res \in Seq(Event), Len(res) = Len(ev),
           \A i \in 1..Len(ev) : /\ res[i].tag = ev[i].tag
                                 /\ res[i].forward_parent = ev[i].forward_parent,
           LinksLand(ev), LinksInjective(ev)
    PROVE  LinksLand(res) /\ LinksInjective(res)
<1>1. DOMAIN ev = 1..Len(ev) /\ DOMAIN res = 1..Len(ev)
  BY LenProperties
<1>2. LinksLand(res)
  BY <1>1 DEF LinksLand
<1>3. LinksInjective(res)
  BY <1>1 DEF LinksInjective
<1> QED BY <1>2, <1>3

(* The top of the marker stack and the stack without it. *)
LEMMA StackFacts ==
    ASSUME ParserInv, open # <<>>
    PROVE  /\ Len(open) \in Nat \ {0}
           /\ DOMAIN open = 1..Len(open)
           /\ Top \in 1..Len(events)
           /\ events[Top] = StartEvent(TOMBSTONE)
           /\ Pop \in Seq(Nat) /\ Len(Pop) = Len(open) - 1
           /\ \A i \in 1..(Len(open) - 1) :
                 Pop[i] = open[i] /\ open[i] < Top /\ open[i] \in 1..Len(events)
                 /\ events[open[i]] = StartEvent(TOMBSTONE)
<1>1. open \in Seq(Nat) /\ events \in Seq(Event) /\ DOMAIN events = 1..Len(events)
  BY DEF ParserInv, ParserTypeOK
<1>2. Len(open) \in Nat \ {0} /\ DOMAIN open = 1..Len(open)
  BY <1>1, EmptySeq, LenProperties
<1>3. Len(open) \in DOMAIN open
  BY <1>2
<1>4. Top \in 1..Len(events) /\ events[Top] = StartEvent(TOMBSTONE)
  BY <1>1, <1>3 DEF ParserInv, MarkersLive, Top
<1>5. /\ Pop \in Seq(Nat) /\ Len(Pop) = Len(open) - 1
      /\ \A i \in 1..(Len(open) - 1) : Pop[i] = open[i]
  BY <1>1, <1>2 DEF Pop
<1>6. ASSUME NEW i \in 1..(Len(open) - 1)
      PROVE  /\ open[i] < Top /\ open[i] \in 1..Len(events)
             /\ events[open[i]] = StartEvent(TOMBSTONE)
  <2>1. i \in DOMAIN open /\ i < Len(open)
    BY <1>2
  <2> QED BY <1>1, <1>3, <2>1 DEF ParserInv, MarkersLive, Top
<1> QED BY <1>2, <1>4, <1>5, <1>6

LEMMA CompleteInv ==
    ASSUME ParserInv, NEW k \in NodeKinds \cup {SOURCE_FILE}, Complete(k)
    PROVE  ParserInv'
<1> DEFINE mid == [events EXCEPT ![Top].kind = k]
<1>0. k \in EventKinds /\ k # TOMBSTONE
  BY KindsAssumption DEF EventKinds, CompletedKinds, TOMBSTONE, SOURCE_FILE
<1>1. open # <<>>
  BY DEF Complete, Parsing
<1>2. events \in Seq(Event) /\ Len(events) \in Nat /\ DOMAIN events = 1..Len(events)
  BY DEF ParserInv, ParserTypeOK
<1>3. /\ Top \in 1..Len(events) /\ events[Top] = StartEvent(TOMBSTONE)
  BY <1>1, StackFacts
<1>4. mid = [events EXCEPT ![Top] = StartEvent(k)]
  <2>1. [events[Top] EXCEPT !.kind = k] = StartEvent(k)
    BY <1>3 DEF StartEvent
  <2>2. mid = [events EXCEPT ![Top] = [events[Top] EXCEPT !.kind = k]]
    OBVIOUS
  <2> QED BY <2>1, <2>2
<1>5. StartEvent(k) \in Event
  BY <1>0, EventTypes
<1>6. /\ mid \in Seq(Event) /\ Len(mid) = Len(events)
      /\ \A j \in 1..Len(events) : mid[j] = IF j = Top THEN StartEvent(k) ELSE events[j]
  BY <1>2, <1>3, <1>4, <1>5, ExceptSeq
<1>7. LinksLand(mid) /\ LinksInjective(mid)
  <2>1. \A j \in 1..Len(events) : /\ mid[j].tag = events[j].tag
                                  /\ mid[j].forward_parent = events[j].forward_parent
    BY <1>3, <1>6 DEF StartEvent
  <2> QED BY <1>2, <1>6, <2>1, SameLinks DEF ParserInv, LinksSound
<1> HIDE DEF mid
<1>8. events' = Append(mid, FinishEvent) /\ open' = Pop
  BY DEF Complete, mid
<1>9. /\ events' \in Seq(Event) /\ Len(events') = Len(events) + 1
      /\ \A j \in 1..Len(events) : events'[j] = mid[j]
      /\ events'[Len(events) + 1] = FinishEvent
  BY <1>6, <1>8, EventTypes, AppendProperties
<1>10. LinksSound'
  <2>1. \A i \in 1..Len(events') : i > Len(mid) => events'[i].forward_parent = 0
    BY <1>2, <1>6, <1>9 DEF FinishEvent
  <2> QED BY <1>2, <1>6, <1>7, <1>9, <2>1, ExtendKeepsLinks DEF LinksSound
<1>11. MarkersLive'
  <2>1. /\ Pop \in Seq(Nat) /\ Len(Pop) = Len(open) - 1 /\ Len(open) \in Nat
        /\ \A i \in 1..(Len(open) - 1) :
              Pop[i] = open[i] /\ open[i] < Top /\ open[i] \in 1..Len(events)
              /\ events[open[i]] = StartEvent(TOMBSTONE)
    BY <1>1, StackFacts
  <2>2. DOMAIN open' = 1..(Len(open) - 1)
    BY <1>8, <2>1, LenProperties
  <2>3. ASSUME NEW i \in DOMAIN open'
        PROVE  open'[i] \in DOMAIN events' /\ events'[open'[i]] = StartEvent(TOMBSTONE)
    <3>1. /\ open'[i] = open[i] /\ open[i] < Top /\ open[i] \in 1..Len(events)
          /\ events[open[i]] = StartEvent(TOMBSTONE)
      BY <1>8, <2>1, <2>2
    <3>2. events'[open[i]] = events[open[i]]
      BY <1>3, <1>6, <1>9, <3>1
    <3>3. open[i] \in DOMAIN events'
      BY <1>2, <1>9, <3>1, LenProperties
    <3> QED BY <3>1, <3>2, <3>3
  <2>4. ASSUME NEW i \in DOMAIN open', NEW j \in DOMAIN open', i < j
        PROVE  open'[i] < open'[j]
    <3>1. open'[i] = open[i] /\ open'[j] = open[j]
      BY <1>8, <2>1, <2>2
    <3>2. i \in DOMAIN open /\ j \in DOMAIN open
      BY <1>1, <2>1, <2>2, StackFacts
    <3> QED BY <2>4, <3>1, <3>2 DEF ParserInv, MarkersLive
  <2>5. StartEvent(TOMBSTONE)' = StartEvent(TOMBSTONE)
    BY DEF StartEvent
  <2> QED BY <2>3, <2>4, <2>5 DEF MarkersLive
<1>12. LastCompleted' /\ last' \in Nat
  <2>1. last' = 0 \/ last' = Top
    BY DEF Complete
  <2>2. /\ events'[Top] = StartEvent(k) /\ Top \in DOMAIN events'
    BY <1>2, <1>3, <1>6, <1>9, LenProperties
  <2>3. /\ events'[Top].tag = "Start" /\ events'[Top].kind # TOMBSTONE
        /\ events'[Top].forward_parent = 0
    BY <1>0, <2>2 DEF StartEvent
  <2>4. CASE last' = 0
    BY <2>4 DEF LastCompleted
  <2>5. CASE last' = Top
    BY <1>2, <1>3, <2>2, <2>3, <2>5 DEF LastCompleted
  <2> QED BY <2>1, <2>4, <2>5
<1>13. ParserTypeOK'
  <2>1. Pop \in Seq(Nat)
    BY <1>1, StackFacts
  <2> QED BY <1>8, <1>9, <1>12, <2>1 DEF ParserInv, ParserTypeOK, Complete
<1> QED BY <1>10, <1>11, <1>12, <1>13 DEF ParserInv

LEMMA PrecedeInv == ASSUME ParserInv, Precede PROVE ParserInv'
<1> DEFINE n == Len(events)
           linked == [events[last] EXCEPT !.forward_parent = n + 1 - last]
           mid == [events EXCEPT ![last] = linked]
<1>1. events \in Seq(Event) /\ n \in Nat /\ DOMAIN events = 1..n /\ open \in Seq(Nat)
  BY DEF ParserInv, ParserTypeOK
<1>2. /\ last # 0 /\ last \in 1..n
      /\ events[last].tag = "Start" /\ events[last].kind # TOMBSTONE
      /\ events[last].forward_parent = 0
  BY <1>1 DEF ParserInv, LastCompleted, Precede
<1>3. /\ linked \in Event /\ linked.tag = "Start" /\ linked.forward_parent = n + 1 - last
      /\ n + 1 - last \in Nat \ {0}
  <2>1. n + 1 - last \in Nat \ {0}
    BY <1>1, <1>2
  <2>2. events[last] \in Event
    BY <1>1, <1>2, ElementOfSeq
  <2> QED BY <1>2, <2>1, <2>2 DEF Event
<1>4. events' = Append(mid, StartEvent(TOMBSTONE)) /\ open' = Append(open, n + 1) /\ last' = 0
  BY DEF Precede
<1> HIDE DEF linked
<1>5. /\ mid \in Seq(Event) /\ Len(mid) = n
      /\ \A j \in 1..n : mid[j] = IF j = last THEN linked ELSE events[j]
  BY <1>1, <1>2, <1>3, ExceptSeq
<1> HIDE DEF mid
<1>6. /\ events' \in Seq(Event) /\ Len(events') = n + 1 /\ DOMAIN events' = 1..(n + 1)
      /\ events'[last] = linked
      /\ \A j \in 1..n : j # last => events'[j] = events[j]
      /\ events'[n + 1] = StartEvent(TOMBSTONE)
  <2>1. StartEvent(TOMBSTONE) \in Event
    BY EventTypes
  <2>2. /\ events' \in Seq(Event) /\ Len(events') = n + 1
        /\ \A j \in 1..n : events'[j] = mid[j]
        /\ events'[n + 1] = StartEvent(TOMBSTONE)
    BY <1>4, <1>5, <2>1, AppendProperties
  <2> QED BY <1>2, <1>5, <2>2, LenProperties
<1>7. StartEvent(TOMBSTONE).tag = "Start" /\ StartEvent(TOMBSTONE).forward_parent = 0
  BY DEF StartEvent
<1>8. \A j \in 1..n : events[j].forward_parent \in Nat
  <2> TAKE j \in 1..n
  <2>1. events[j] \in Event
    BY <1>1, ElementOfSeq
  <2> QED BY <2>1 DEF Event
<1>9. \A j \in 1..n : events[j].forward_parent # 0 =>
         /\ events[j].tag = "Start" /\ j # last
         /\ j + events[j].forward_parent \in 1..n
         /\ events[j + events[j].forward_parent].tag = "Start"
  <2>1. LinksLand(events)
    BY DEF ParserInv, LinksSound
  <2> QED BY <1>1, <1>2, <2>1 DEF LinksLand
<1>10. \A j \in 1..(n + 1) : events'[j].forward_parent # 0 =>
         \/ j = last /\ j + events'[j].forward_parent = n + 1
         \/ /\ j \in 1..n /\ j # last /\ events'[j] = events[j]
            /\ j + events'[j].forward_parent \in 1..n
  <2> SUFFICES ASSUME NEW j \in 1..(n + 1), events'[j].forward_parent # 0
               PROVE  \/ j = last /\ j + events'[j].forward_parent = n + 1
                      \/ /\ j \in 1..n /\ j # last /\ events'[j] = events[j]
                         /\ j + events'[j].forward_parent \in 1..n
    OBVIOUS
  <2>1. CASE j = last
    <3>1. last + (n + 1 - last) = n + 1
      BY <1>1, <1>2
    <3>2. events'[j].forward_parent = n + 1 - last
      BY <1>3, <1>6, <2>1
    <3> QED BY <2>1, <3>1, <3>2
  <2>2. CASE j # last
    <3>1. j # n + 1
      BY <1>6, <1>7
    <3>2. j \in 1..n /\ events'[j] = events[j]
      BY <1>1, <1>6, <2>2, <3>1
    <3>3. j + events[j].forward_parent \in 1..n
      BY <1>9, <3>2
    <3> QED BY <2>2, <3>2, <3>3
  <2> QED BY <2>1, <2>2
<1>11. LinksLand(events')
  <2> SUFFICES ASSUME NEW j \in 1..(n + 1), events'[j].forward_parent # 0
               PROVE  /\ events'[j].tag = "Start"
                      /\ j + events'[j].forward_parent \in 1..(n + 1)
                      /\ events'[j + events'[j].forward_parent].tag = "Start"
    BY <1>6 DEF LinksLand
  <2>1. CASE j = last /\ j + events'[j].forward_parent = n + 1
    BY <1>1, <1>3, <1>6, <1>7, <2>1
  <2>2. CASE /\ j \in 1..n /\ j # last /\ events'[j] = events[j]
             /\ j + events'[j].forward_parent \in 1..n
    <3>1. events[j].tag = "Start" /\ events[j + events[j].forward_parent].tag = "Start"
      BY <1>9, <2>2
    <3>2. events'[j + events[j].forward_parent].tag = "Start"
      BY <1>3, <1>6, <2>2, <3>1
    <3> QED BY <1>1, <2>2, <3>1, <3>2
  <2> QED BY <1>10, <2>1, <2>2
<1>12. LinksInjective(events')
  <2> SUFFICES ASSUME NEW j \in 1..(n + 1), NEW k \in 1..(n + 1),
                      events'[j].forward_parent # 0, events'[k].forward_parent # 0,
                      j + events'[j].forward_parent = k + events'[k].forward_parent
               PROVE  j = k
    BY <1>6 DEF LinksInjective
  <2>1. CASE j = last \/ k = last
    BY <1>1, <1>10, <2>1
  <2>2. CASE j # last /\ k # last
    <3>1. j \in 1..n /\ k \in 1..n /\ events'[j] = events[j] /\ events'[k] = events[k]
      BY <1>10, <2>2
    <3> QED BY <1>1, <3>1 DEF ParserInv, LinksSound, LinksInjective
  <2> QED BY <2>1, <2>2
<1>13. MarkersLive'
  <2>1. /\ Len(open) \in Nat /\ DOMAIN open = 1..Len(open)
        /\ DOMAIN open' = 1..(Len(open) + 1)
        /\ \A i \in 1..Len(open) : open'[i] = open[i]
        /\ open'[Len(open) + 1] = n + 1
    BY <1>1, <1>4, AppendProperties, LenProperties
  <2>2. \A i \in 1..Len(open) : open[i] \in 1..n /\ events[open[i]] = StartEvent(TOMBSTONE)
    BY <1>1, <2>1 DEF ParserInv, MarkersLive
  <2>3. StartEvent(TOMBSTONE).kind = TOMBSTONE
    BY DEF StartEvent
  <2>4. ASSUME NEW i \in DOMAIN open'
        PROVE  open'[i] \in DOMAIN events' /\ events'[open'[i]] = StartEvent(TOMBSTONE)
    <3>1. CASE i = Len(open) + 1
      <4>1. open'[i] = n + 1
        BY <2>1, <3>1
      <4> QED BY <1>1, <1>6, <4>1
    <3>2. CASE i \in 1..Len(open)
      <4>1. open'[i] = open[i] /\ open[i] \in 1..n /\ events[open[i]] = StartEvent(TOMBSTONE)
        BY <2>1, <2>2, <3>2
      <4>2. open[i] # last
        BY <1>2, <2>3, <4>1
      <4>3. events'[open[i]] = events[open[i]]
        BY <1>6, <4>1, <4>2
      <4> QED BY <1>1, <1>6, <4>1, <4>3
    <3> QED BY <2>1, <3>1, <3>2
  <2>5. ASSUME NEW i \in DOMAIN open', NEW j \in DOMAIN open', i < j
        PROVE  open'[i] < open'[j]
    <3>1. i \in 1..Len(open)
      BY <2>1, <2>5
    <3>2. CASE j = Len(open) + 1
      BY <1>1, <2>1, <2>2, <3>1, <3>2
    <3>3. CASE j \in 1..Len(open)
      BY <2>1, <2>5, <3>1, <3>3 DEF ParserInv, MarkersLive
    <3> QED BY <2>1, <3>2, <3>3
  <2>6. StartEvent(TOMBSTONE)' = StartEvent(TOMBSTONE)
    BY DEF StartEvent
  <2> QED BY <2>4, <2>5, <2>6 DEF MarkersLive
<1>14. ParserTypeOK'
  <2>1. open' \in Seq(Nat)
    BY <1>1, <1>4, AppendProperties
  <2> QED BY <1>4, <1>6, <2>1 DEF ParserInv, ParserTypeOK, Precede
<1>15. LastCompleted'
  BY <1>4 DEF LastCompleted
<1> QED BY <1>11, <1>12, <1>13, <1>14, <1>15 DEF ParserInv, LinksSound

(* Taking one unlinked Start nobody leads to out of the list (by dropping it *)
(* from the end or by a Tombstone) keeps the rest well linked. *)
LEMMA RemoveKeepsLinks ==
    ASSUME NEW ev \in Seq(Event), NEW res \in Seq(Event), NEW t \in 1..Len(ev),
           Len(res) <= Len(ev),
           \A j \in 1..Len(ev) : j # t => j \in 1..Len(res) /\ res[j] = ev[j],
           t \in 1..Len(res) => res[t].forward_parent = 0,
           \A j \in 1..Len(ev) :
              ev[j].forward_parent # 0 => j + ev[j].forward_parent # t,
           LinksLand(ev), LinksInjective(ev)
    PROVE  LinksLand(res) /\ LinksInjective(res)
<1>1. DOMAIN ev = 1..Len(ev) /\ DOMAIN res = 1..Len(res) /\ Len(ev) \in Nat /\ Len(res) \in Nat
  BY LenProperties
<1>2. ASSUME NEW j \in 1..Len(res), res[j].forward_parent # 0
      PROVE  j \in 1..Len(ev) /\ j # t /\ res[j] = ev[j]
  <2>1. j \in 1..Len(ev)
    BY <1>1
  <2>2. j # t
    BY <1>2
  <2> QED BY <2>1, <2>2
<1>3. LinksLand(res)
  <2> SUFFICES ASSUME NEW j \in 1..Len(res), res[j].forward_parent # 0
               PROVE  /\ res[j].tag = "Start"
                      /\ j + res[j].forward_parent \in 1..Len(res)
                      /\ res[j + res[j].forward_parent].tag = "Start"
    BY <1>1 DEF LinksLand
  <2>1. j \in 1..Len(ev) /\ res[j] = ev[j] /\ ev[j].forward_parent # 0
    BY <1>2
  <2>2. /\ ev[j].tag = "Start"
        /\ j + ev[j].forward_parent \in 1..Len(ev)
        /\ ev[j + ev[j].forward_parent].tag = "Start"
    BY <1>1, <2>1 DEF LinksLand
  <2>3. j + ev[j].forward_parent # t
    BY <2>1
  <2> QED BY <2>1, <2>2, <2>3
<1>4. LinksInjective(res)
  <2> SUFFICES ASSUME NEW j \in 1..Len(res), NEW k \in 1..Len(res),
                      res[j].forward_parent # 0, res[k].forward_parent # 0,
                      j + res[j].forward_parent = k + res[k].forward_parent
               PROVE  j = k
    BY <1>1 DEF LinksInjective
  <2>1. j \in 1..Len(ev) /\ res[j] = ev[j] /\ k \in 1..Len(ev) /\ res[k] = ev[k]
    BY <1>2
  <2> QED BY <1>1, <2>1 DEF LinksInjective
<1> QED BY <1>3, <1>4

LEMMA IndexBelow == \A m \in Nat : \A j \in 1..m : j # m => j \in 1..(m - 1)
OBVIOUS

LEMMA AbandonInv == ASSUME ParserInv, Abandon PROVE ParserInv'
<1> DEFINE n == Len(events)
<1>1. events \in Seq(Event) /\ n \in Nat /\ DOMAIN events = 1..n
  BY DEF ParserInv, ParserTypeOK
<1>2. open # <<>>
  BY DEF Abandon
<1>3. /\ Len(open) \in Nat \ {0}
      /\ DOMAIN open = 1..Len(open)
      /\ Top \in 1..n
      /\ Pop \in Seq(Nat) /\ Len(Pop) = Len(open) - 1
      /\ \A i \in 1..(Len(open) - 1) :
            Pop[i] = open[i] /\ open[i] < Top /\ open[i] \in 1..n
            /\ events[open[i]] = StartEvent(TOMBSTONE)
  BY <1>2, StackFacts
<1>4. open' = Pop /\ last' = 0
  BY DEF Abandon
<1>5. /\ events' \in Seq(Event) /\ Len(events') <= n /\ Len(events') \in Nat
      /\ \A j \in 1..n : j # Top => j \in 1..Len(events') /\ events'[j] = events[j]
      /\ Top \in 1..Len(events') => events'[Top].forward_parent = 0
  <2>1. CASE Top = n
    <3>1. events' = SubSeq(events, 1, n - 1)
      BY <2>1 DEF Abandon
    <3>2. /\ events' \in Seq(Event) /\ Len(events') = n - 1
          /\ \A j \in 1..(n - 1) : events'[j] = events[j]
      BY <1>1, <1>3, <3>1
    <3>3. Top \notin 1..Len(events') /\ Len(events') \in Nat /\ Len(events') <= n
      BY <1>1, <1>3, <2>1, <3>2
    <3>4. ASSUME NEW j \in 1..n, j # Top
          PROVE  j \in 1..Len(events') /\ events'[j] = events[j]
      <4>1. j # n
        BY <2>1, <3>4
      <4>2. j \in 1..(n - 1)
        BY <1>1, <4>1, IndexBelow
      <4> QED BY <3>2, <4>2
    <3> QED BY <3>2, <3>3, <3>4
  <2>2. CASE Top # n
    <3>1. events' = [events EXCEPT ![Top] = TombstoneEvent]
      BY <2>2 DEF Abandon
    <3>2. TombstoneEvent \in Event /\ TombstoneEvent.forward_parent = 0
      BY EventTypes DEF TombstoneEvent
    <3>3. /\ events' \in Seq(Event) /\ Len(events') = n
          /\ \A j \in 1..n : events'[j] = IF j = Top THEN TombstoneEvent ELSE events[j]
      BY <1>1, <1>3, <3>1, <3>2, ExceptSeq
    <3> QED BY <1>1, <1>3, <3>2, <3>3
  <2> QED BY <2>1, <2>2
<1>6. \A j \in 1..n : events[j].forward_parent # 0 => j + events[j].forward_parent # Top
  BY <1>1 DEF Abandon, Preceded
<1>7. LinksSound'
  <2>1. LinksLand(events) /\ LinksInjective(events)
    BY DEF ParserInv, LinksSound
  <2>2. LinksLand(events') /\ LinksInjective(events')
    BY <1>1, <1>3, <1>5, <1>6, <2>1, RemoveKeepsLinks
  <2> QED BY <2>2 DEF LinksSound
<1>8. MarkersLive'
  <2>1. DOMAIN open' = 1..(Len(open) - 1)
    BY <1>3, <1>4, LenProperties
  <2>2. ASSUME NEW i \in DOMAIN open'
        PROVE  open'[i] \in DOMAIN events' /\ events'[open'[i]] = StartEvent(TOMBSTONE)
    <3>1. /\ open'[i] = open[i] /\ open[i] < Top /\ open[i] \in 1..n
          /\ events[open[i]] = StartEvent(TOMBSTONE)
      BY <1>3, <1>4, <2>1
    <3>2. open[i] # Top
      BY <1>3, <3>1
    <3>3. events'[open[i]] = events[open[i]] /\ open[i] \in 1..Len(events')
      BY <1>5, <3>1, <3>2
    <3>4. DOMAIN events' = 1..Len(events')
      BY <1>5, LenProperties
    <3> QED BY <3>1, <3>3, <3>4
  <2>3. ASSUME NEW i \in DOMAIN open', NEW j \in DOMAIN open', i < j
        PROVE  open'[i] < open'[j]
    <3>1. open'[i] = open[i] /\ open'[j] = open[j] /\ i \in DOMAIN open /\ j \in DOMAIN open
      BY <1>3, <1>4, <2>1
    <3> QED BY <2>3, <3>1 DEF ParserInv, MarkersLive
  <2>4. StartEvent(TOMBSTONE)' = StartEvent(TOMBSTONE)
    BY DEF StartEvent
  <2> QED BY <2>2, <2>3, <2>4 DEF MarkersLive
<1>9. ParserTypeOK'
  BY <1>3, <1>4, <1>5 DEF ParserInv, ParserTypeOK, Abandon
<1>10. LastCompleted'
  BY <1>4 DEF LastCompleted
<1> QED BY <1>7, <1>8, <1>9, <1>10 DEF ParserInv

(* One step of the grammar, whatever it is, keeps the invariant. *)
LEMMA ParserStepInv == ParserInv /\ [ParserNext]_parserVars => ParserInv'
<1> SUFFICES ASSUME ParserInv, [ParserNext]_parserVars PROVE ParserInv'
  OBVIOUS
<1>1. CASE StartRoot
  BY <1>1, StartRootInv
<1>2. CASE Start
  BY <1>2, StartInv
<1>3. CASE Bump
  BY <1>3, BumpInv
<1>4. CASE Error
  BY <1>4, ErrorInv
<1>5. ASSUME NEW R \in SUBSET TokenKinds, err_recover(R) PROVE ParserInv'
  BY <1>5, ErrRecoverInv
<1>6. ASSUME NEW k \in NodeKinds \cup {SOURCE_FILE}, Complete(k) PROVE ParserInv'
  BY <1>6, CompleteInv
<1>7. CASE Precede
  BY <1>7, PrecedeInv
<1>8. CASE Abandon
  BY <1>8, AbandonInv
<1>9. CASE UNCHANGED parserVars
  BY <1>9 DEF parserVars, ParserInv, ParserTypeOK, MarkersLive, LastCompleted, LinksSound,
              LinksLand, LinksInjective
<1> QED BY <1>1, <1>2, <1>3, <1>4, <1>5, <1>6, <1>7, <1>8, <1>9 DEF ParserNext

(* The parser keeps its types: in particular the cursor never leaves the     *)
(* significant tokens and every recorded event is well formed.               *)
THEOREM ParserTypes == ParserSpec => []ParserTypeOK
<1>1. ParserInv => ParserTypeOK
  BY DEF ParserInv
<1> QED BY <1>1, ParserInitInv, ParserStepInv, PTL DEF ParserSpec

(* For every grammar and every source text, live markers point at their      *)
(* uncommitted Start: complete and abandon never meet another event.         *)
THEOREM ParserMarkersLive == ParserSpec => []MarkersLive
<1>1. ParserInv => MarkersLive
  BY DEF ParserInv
<1> QED BY <1>1, ParserInitInv, ParserStepInv, PTL DEF ParserSpec

(* For every grammar and every source text the forward-parent links of the   *)
(* event list lead from Start to later Start and never join.                 *)
THEOREM ParserLinksSound == ParserSpec => []LinksSound
<1>1. ParserInv => LinksSound
  BY DEF ParserInv
<1> QED BY <1>1, ParserInitInv, ParserStepInv, PTL DEF ParserSpec

--------------------------------------------------------------------------------
(* The pipeline.                                                             *)

(* Every step of the pipeline is a step of the parser or leaves it alone. *)
LEMMA PipelineParserStep == [Next]_vars => [ParserNext]_parserVars
<1> SUFFICES ASSUME [Next]_vars PROVE [ParserNext]_parserVars
  OBVIOUS
<1>1. CASE DoStart
  BY <1>1 DEF DoStart, ParserNext
<1>2. CASE DoBump
  BY <1>2 DEF DoBump, ParserNext
<1>3. CASE DoError
  BY <1>3 DEF DoError, ParserNext
<1>4. ASSUME NEW R \in SUBSET TokenKinds, DoErrRecover(R) PROVE ParserNext
  BY <1>4 DEF DoErrRecover, ParserNext
<1>5. CASE DoErrAndBump
  BY <1>4, <1>5 DEF DoErrAndBump
<1>6. ASSUME NEW k \in NodeKinds \cup {SOURCE_FILE}, DoComplete(k) PROVE ParserNext
  BY <1>6 DEF DoComplete, ParserNext
<1>7. CASE DoPrecede
  BY <1>7 DEF DoPrecede, ParserNext
<1>8. CASE DoAbandon
  BY <1>8 DEF DoAbandon, ParserNext
<1>9. CASE Finish \/ BuildDone
  BY <1>9 DEF Finish, BuildDone
<1>10. CASE ResolveStart \/ ResolveFollow \/ ResolveEmit \/ ResolveOther \/ ResolveDone
  BY <1>10 DEF ResolveStart, ResolveFollow, ResolveEmit, ResolveOther, ResolveDone, Resolving
<1>11. CASE BuildStart \/ BuildToken \/ BuildFinish \/ BuildError
  BY <1>11 DEF BuildStart, BuildToken, BuildFinish, BuildError, Building
<1>12. CASE Terminated \/ UNCHANGED vars
  BY <1>12 DEF Terminated, vars
<1> QED
  BY <1>1, <1>2, <1>3, <1>4, <1>5, <1>6, <1>7, <1>8, <1>9, <1>10, <1>11, <1>12 DEF Next

LEMMA PipelineInitInv == Init => PipelineInv
<1> SUFFICES ASSUME Init PROVE PipelineInv
  OBVIOUS
<1>1. ParserInv
  BY ParserInitInv DEF Init
<1>2. ResolverInv
  BY DEF Init, ResolverInv, LinksLand, LinksInjective
<1> QED BY <1>1, <1>2 DEF PipelineInv

(* A step that leaves the resolver's state alone. *)
LEMMA ResolverUntouched ==
    ASSUME ResolverInv, UNCHANGED resolveVars, panic' # "forward_parent",
           phase' = "parse" => phase = "parse"
    PROVE  ResolverInv'
BY DEF ResolverInv, resolveVars, LinksLand, LinksInjective

LEMMA FinishInv == ASSUME PipelineInv, Finish PROVE ResolverInv'
<1>1. /\ work' = events /\ at' = 1 /\ follow' = 0 /\ chain' = <<>> /\ phase' = "resolve"
      /\ panic' # "forward_parent"
  BY DEF Finish, PipelineInv, ResolverInv
<1>2. events \in Seq(Event) /\ LinksLand(events) /\ LinksInjective(events)
  BY DEF PipelineInv, ParserInv, ParserTypeOK, LinksSound
<1>3. LinksLand(work') /\ LinksInjective(work')
  BY <1>1, <1>2
<1>4. \A j \in DOMAIN work' : ~(j < at')
  BY <1>1, <1>2
<1> QED BY <1>1, <1>2, <1>3, <1>4 DEF ResolverInv

(* Consuming an entry of the list to which no unconsumed entry leads, and    *)
(* going on to its own target. *)
LEMMA ConsumeInv ==
    ASSUME ResolverInv, NEW t \in DOMAIN work,
           \A j \in DOMAIN work :
              work[j].forward_parent # 0 => j + work[j].forward_parent # t
    PROVE  LET w == [work EXCEPT ![t] = TombstoneEvent]
               f == Target(t, work[t])
           IN  /\ w \in Seq(Event) /\ DOMAIN w = DOMAIN work
               /\ LinksLand(w) /\ LinksInjective(w)
               /\ w[t].tag # "Start"
               /\ \A j \in DOMAIN work : j # t => w[j] = work[j]
               /\ f \in Nat
               /\ f # 0 => /\ f \in DOMAIN w
                           /\ w[f].tag = "Start"
                           /\ \A j \in DOMAIN w :
                                 w[j].forward_parent # 0 => j + w[j].forward_parent # f
<1> DEFINE w == [work EXCEPT ![t] = TombstoneEvent]
           f == Target(t, work[t])
<1>1. /\ work \in Seq(Event) /\ Len(work) \in Nat /\ DOMAIN work = 1..Len(work)
      /\ LinksLand(work) /\ LinksInjective(work)
  BY DEF ResolverInv
<1>2. TombstoneEvent \in Event /\ TombstoneEvent.forward_parent = 0 /\ TombstoneEvent.tag # "Start"
  BY EventTypes DEF TombstoneEvent
<1>3. /\ w \in Seq(Event) /\ Len(w) = Len(work) /\ DOMAIN w = DOMAIN work
      /\ w[t] = TombstoneEvent
      /\ \A j \in DOMAIN work : j # t => w[j] = work[j]
  BY <1>1, <1>2, ExceptSeq, LenProperties
<1> HIDE DEF w
<1>4. LinksLand(w) /\ LinksInjective(w)
  BY <1>1, <1>2, <1>3, RemoveKeepsLinks
<1>5. work[t].forward_parent \in Nat
  <2>1. work[t] \in Event
    BY <1>1, ElementOfSeq
  <2> QED BY <2>1 DEF Event
<1>6. f \in Nat
  BY <1>1, <1>5 DEF Target
<1>7. ASSUME f # 0
      PROVE  /\ f \in DOMAIN w
             /\ w[f].tag = "Start"
             /\ \A j \in DOMAIN w :
                   w[j].forward_parent # 0 => j + w[j].forward_parent # f
  <2>1. work[t].forward_parent # 0 /\ f = t + work[t].forward_parent
    BY <1>7 DEF Target
  <2>2. f \in DOMAIN work /\ work[f].tag = "Start"
    BY <1>1, <2>1 DEF LinksLand
  <2>3. f # t
    BY <1>1, <1>5, <2>1
  <2>4. ASSUME NEW j \in DOMAIN w, w[j].forward_parent # 0, j + w[j].forward_parent = f
        PROVE  FALSE
    <3>1. j # t
      BY <1>2, <1>3, <2>4
    <3>2. w[j] = work[j] /\ j \in DOMAIN work
      BY <1>3, <3>1
    <3>3. j = t
      BY <1>1, <2>1, <2>4, <3>2 DEF LinksInjective
    <3> QED BY <3>1, <3>3
  <2> QED BY <1>3, <2>2, <2>3, <2>4
<1> QED BY <1>2, <1>3, <1>4, <1>6, <1>7 DEF w

LEMMA ResolveStartInv == ASSUME ResolverInv, ResolveStart PROVE ResolverInv'
<1>1. /\ at \in DOMAIN work /\ chain = <<>>
      /\ work' = [work EXCEPT ![at] = TombstoneEvent] /\ follow' = Target(at, work[at])
      /\ at' = at /\ chain' # <<>> /\ phase' = "resolve" /\ panic' # "forward_parent"
  BY DEF ResolveStart, Resolving, ResolverInv
<1>2. \A j \in DOMAIN work : work[j].forward_parent # 0 => j + work[j].forward_parent # at
  <2> SUFFICES ASSUME NEW j \in DOMAIN work, work[j].forward_parent # 0,
                      j + work[j].forward_parent = at
               PROVE  FALSE
    OBVIOUS
  <2>1. work[j].tag = "Start"
    BY DEF ResolverInv, LinksLand
  <2>2. work[j] \in Event
    BY ElementOfSeq DEF ResolverInv
  <2>3. work[j].forward_parent \in Nat /\ j \in Nat /\ at \in Nat
    BY <2>2 DEF Event, ResolverInv
  <2>4. j < at
    BY <2>3
  <2> QED BY <2>1, <2>4 DEF ResolverInv
<1>3. /\ work' \in Seq(Event) /\ DOMAIN work' = DOMAIN work
      /\ LinksLand(work') /\ LinksInjective(work')
      /\ work'[at].tag # "Start"
      /\ \A j \in DOMAIN work : j # at => work'[j] = work[j]
      /\ follow' \in Nat
      /\ follow' # 0 => /\ follow' \in DOMAIN work'
                        /\ work'[follow'].tag = "Start"
                        /\ \A j \in DOMAIN work' :
                              work'[j].forward_parent # 0 => j + work'[j].forward_parent # follow'
  BY <1>1, <1>2, ConsumeInv
<1>4. \A j \in DOMAIN work' : j < at \/ j = at => work'[j].tag # "Start"
  BY <1>3 DEF ResolverInv
<1> QED BY <1>1, <1>3, <1>4 DEF ResolverInv

LEMMA ResolveFollowInv == ASSUME ResolverInv, ResolveFollow PROVE ResolverInv'
<1>1. /\ follow # 0 /\ follow \in DOMAIN work /\ work[follow].tag = "Start"
      /\ \A j \in DOMAIN work : work[j].forward_parent # 0 => j + work[j].forward_parent # follow
  BY DEF ResolveFollow, ResolverInv
<1>2. /\ work' = [work EXCEPT ![follow] = TombstoneEvent]
      /\ follow' = Target(follow, work[follow])
      /\ at' = at /\ chain # <<>> /\ chain' = Append(chain, work[follow].kind)
      /\ phase' = "resolve" /\ panic' # "forward_parent"
  BY <1>1 DEF ResolveFollow, Resolving, ResolverInv
<1>3. /\ work' \in Seq(Event) /\ DOMAIN work' = DOMAIN work
      /\ LinksLand(work') /\ LinksInjective(work')
      /\ work'[follow].tag # "Start"
      /\ \A j \in DOMAIN work : j # follow => work'[j] = work[j]
      /\ follow' \in Nat
      /\ follow' # 0 => /\ follow' \in DOMAIN work'
                        /\ work'[follow'].tag = "Start"
                        /\ \A j \in DOMAIN work' :
                              work'[j].forward_parent # 0 => j + work'[j].forward_parent # follow'
  BY <1>1, <1>2, ConsumeInv
<1>4. \A j \in DOMAIN work' : j < at \/ j = at => work'[j].tag # "Start"
  BY <1>2, <1>3 DEF ResolverInv
<1> QED BY <1>2, <1>3, <1>4 DEF ResolverInv

LEMMA ResolveEmitInv == ASSUME ResolverInv, ResolveEmit PROVE ResolverInv'
<1>1. /\ chain # <<>> /\ follow' = 0 /\ chain' = <<>> /\ at' = at + 1 /\ work' = work
      /\ phase' = "resolve" /\ panic' # "forward_parent"
  BY DEF ResolveEmit, Resolving, ResolverInv
<1>2. \A j \in DOMAIN work : j < at + 1 => work[j].tag # "Start"
  <2> SUFFICES ASSUME NEW j \in DOMAIN work, j < at + 1 PROVE work[j].tag # "Start"
    OBVIOUS
  <2>1. j \in Nat /\ at \in Nat
    BY DEF ResolverInv
  <2>2. j < at \/ j = at
    BY <2>1
  <2> QED BY <1>1, <2>2 DEF ResolverInv
<1> QED BY <1>1, <1>2 DEF ResolverInv

LEMMA ResolveOtherInv == ASSUME ResolverInv, ResolveOther PROVE ResolverInv'
<1>1. /\ at \in DOMAIN work /\ chain' = <<>> /\ follow' = follow /\ at' = at + 1
      /\ work[at].tag # "Start" /\ work' = [work EXCEPT ![at] = TombstoneEvent]
      /\ phase' = "resolve" /\ panic' # "forward_parent"
  BY DEF ResolveOther, Resolving, ResolverInv
<1>2. \A j \in DOMAIN work : work[j].forward_parent # 0 => j + work[j].forward_parent # at
  BY <1>1 DEF ResolverInv, LinksLand
<1>3. /\ work' \in Seq(Event) /\ DOMAIN work' = DOMAIN work
      /\ LinksLand(work') /\ LinksInjective(work')
      /\ work'[at].tag # "Start"
      /\ \A j \in DOMAIN work : j # at => work'[j] = work[j]
  BY <1>1, <1>2, ConsumeInv
<1>4. \A j \in DOMAIN work' : j < at + 1 => work'[j].tag # "Start"
  <2> SUFFICES ASSUME NEW j \in DOMAIN work', j < at + 1 PROVE work'[j].tag # "Start"
    OBVIOUS
  <2>1. j \in Nat /\ at \in Nat
    BY <1>3 DEF ResolverInv
  <2>2. j < at \/ j = at
    BY <2>1
  <2> QED BY <1>3, <2>2 DEF ResolverInv
<1>5. follow # 0 =>
        /\ follow \in DOMAIN work' /\ work'[follow].tag = "Start"
        /\ \A j \in DOMAIN work' : work'[j].forward_parent # 0 => j + work'[j].forward_parent # follow
  <2> SUFFICES ASSUME follow # 0
               PROVE  /\ follow \in DOMAIN work' /\ work'[follow].tag = "Start"
                      /\ \A j \in DOMAIN work' :
                            work'[j].forward_parent # 0 => j + work'[j].forward_parent # follow
    OBVIOUS
  <2>1. follow \in DOMAIN work /\ follow # at /\ work[follow].tag = "Start"
    BY <1>1 DEF ResolverInv
  <2>2. work'[at].forward_parent = 0
    BY <1>1, <1>3 DEF TombstoneEvent, ResolverInv
  <2>3. ASSUME NEW j \in DOMAIN work', work'[j].forward_parent # 0
        PROVE  j + work'[j].forward_parent # follow
    BY <1>3, <2>2, <2>3 DEF ResolverInv
  <2> QED BY <1>3, <2>1, <2>3
<1> QED BY <1>1, <1>3, <1>4, <1>5 DEF ResolverInv

LEMMA PipelineStepInv == PipelineInv /\ [Next]_vars => PipelineInv'
<1> SUFFICES ASSUME PipelineInv, [Next]_vars PROVE PipelineInv'
  OBVIOUS
<1>1. ParserInv'
  BY PipelineParserStep, ParserStepInv DEF PipelineInv
<1>2. ResolverInv
  BY DEF PipelineInv
<1>3. ResolverInv'
  <2>1. CASE DoStart \/ DoBump \/ DoError \/ DoErrAndBump \/ DoPrecede \/ DoAbandon
    BY <1>2, <2>1, ResolverUntouched
       DEF DoStart, DoBump, DoError, DoErrAndBump, DoErrRecover, DoPrecede, DoAbandon, ParseStep,
           ResolverInv
  <2>2. ASSUME NEW R, DoErrRecover(R) PROVE ResolverInv'
    BY <1>2, <2>2, ResolverUntouched DEF DoErrRecover, ParseStep, ResolverInv
  <2>3. ASSUME NEW k, DoComplete(k) PROVE ResolverInv'
    BY <1>2, <2>3, ResolverUntouched DEF DoComplete, ParseStep, ResolverInv
  <2>4. CASE Finish
    BY <2>4, FinishInv
  <2>5. CASE ResolveStart
    BY <1>2, <2>5, ResolveStartInv
  <2>6. CASE ResolveFollow
    BY <1>2, <2>6, ResolveFollowInv
  <2>7. CASE ResolveEmit
    BY <1>2, <2>7, ResolveEmitInv
  <2>8. CASE ResolveOther
    BY <1>2, <2>8, ResolveOtherInv
  <2>9. CASE ResolveDone
    BY <1>2, <2>9, ResolverUntouched DEF ResolveDone, Resolving, ResolverInv
  <2>10. CASE BuildStart \/ BuildToken \/ BuildFinish \/ BuildError
    <3>1. UNCHANGED <<resolveVars, phase>> /\ (panic' = panic \/ panic' = "depth")
      BY <2>10 DEF BuildStart, BuildToken, BuildFinish, BuildError, Building
    <3> QED BY <1>2, <3>1, ResolverUntouched DEF ResolverInv
  <2>11. CASE BuildDone
    <3>1. UNCHANGED resolveVars /\ phase' = "done" /\ panic' # "forward_parent"
      BY <2>11 DEF BuildDone
    <3> QED BY <1>2, <3>1, ResolverUntouched
  <2>12. CASE Terminated \/ UNCHANGED vars
    BY <1>2, <2>12, ResolverUntouched DEF Terminated, vars, ResolverInv
  <2> QED
    BY <2>1, <2>2, <2>3, <2>4, <2>5, <2>6, <2>7, <2>8, <2>9, <2>10, <2>11, <2>12 DEF Next
<1> QED BY <1>1, <1>3 DEF PipelineInv

(* The list handed over by the parser is well linked throughout the pipeline.*)
THEOREM PipelineLinksSound == Spec => []LinksSound
<1>1. PipelineInv => LinksSound
  BY DEF PipelineInv, ParserInv
<1> QED BY <1>1, PipelineInitInv, PipelineStepInv, PTL DEF Spec

--------------------------------------------------------------------------------
(* Where tokens and errors are, in the list recorded and in the list built.   *)

(* The raw tokens in front of a significant token, or of the end. *)
Where == [p \in Nat |-> IF p < Len(non_trivia_indices) THEN non_trivia_indices[p + 1] - 1 ELSE Len(tokens)]

Readings == [pos : Nat, raised : Seq(Nat)]

(* What an event adds to the tokens and the errors read so far; h is Where. *)
Effect(h, x, tag) ==
    IF tag = "Token" THEN [pos |-> x.pos + 1, raised |-> x.raised]
    ELSE IF tag = "Error" THEN [pos |-> x.pos, raised |-> Append(x.raised, h[x.pos])]
    ELSE x

IsReading(h, s, n, m) ==
    /\ m \in [0..n -> Readings]
    /\ m[0] = [pos |-> 0, raised |-> <<>>]
    /\ \A i \in 1..n : m[i] = Effect(h, m[i - 1], s[i].tag)

(* Reading the first n events of s yields x. *)
Reads(h, s, n, x) == \E m : IsReading(h, s, n, m) /\ m[n] = x

LEMMA WhereType == ASSUME ParserTypeOK PROVE Where \in [Nat -> Nat]
<1>1. Len(tokens) \in Nat /\ Len(non_trivia_indices) \in Nat
  BY DEF ParserTypeOK
<1>2. ASSUME NEW p \in Nat, p < Len(non_trivia_indices) PROVE non_trivia_indices[p + 1] - 1 \in Nat
  BY <1>1, <1>2 DEF ParserTypeOK
<1> QED
  BY <1>1, <1>2 DEF Where

LEMMA EffectType ==
    ASSUME NEW h \in [Nat -> Nat], NEW x \in Readings, NEW tag
    PROVE  Effect(h, x, tag) \in Readings
<1>1. x.pos \in Nat /\ x.raised \in Seq(Nat) /\ x.pos + 1 \in Nat /\ h[x.pos] \in Nat
  BY SMTT(30) DEF Readings
<1>2. Append(x.raised, h[x.pos]) \in Seq(Nat)
  BY <1>1
<1> QED
  BY <1>1, <1>2 DEF Effect, Readings

LEMMA ReadsType ==
    ASSUME NEW h, NEW s, NEW n \in Nat, NEW x, Reads(h, s, n, x)
    PROVE  x \in Readings
BY DEF Reads, IsReading

LEMMA ReadsNothing ==
    ASSUME NEW h, NEW s
    PROVE  Reads(h, s, 0, [pos |-> 0, raised |-> <<>>])
<1> DEFINE z == [pos |-> 0, raised |-> <<>>]
           m == [i \in 0..0 |-> z]
<1>1. z \in Readings
  BY DEF Readings
<1> HIDE DEF z
<1>2. m \in [0..0 -> Readings] /\ m[0] = z
  BY <1>1
<1>3. 1..0 = {}
  OBVIOUS
<1>4. IsReading(h, s, 0, m) /\ m[0] = z
  BY <1>2, <1>3 DEF IsReading, z
<1> QED
  BY <1>4 DEF Reads, z

LEMMA ReadsMore ==
    ASSUME NEW h \in [Nat -> Nat], NEW s, NEW n \in Nat, NEW x, Reads(h, s, n, x)
    PROVE  Reads(h, s, n + 1, Effect(h, x, s[n + 1].tag))
<1>1. PICK m : IsReading(h, s, n, m) /\ m[n] = x
  BY DEF Reads
<1>2. PICK y : y = Effect(h, x, s[n + 1].tag)
  OBVIOUS
<1>3. x \in Readings /\ y \in Readings
  BY <1>2, ReadsType, EffectType
<1> DEFINE g == [i \in 0..(n + 1) |-> IF i = n + 1 THEN y ELSE m[i]]
<1>4. /\ m \in [0..n -> Readings] /\ m[0] = [pos |-> 0, raised |-> <<>>]
      /\ \A i \in 1..n : m[i] = Effect(h, m[i - 1], s[i].tag)
  BY <1>1 DEF IsReading
<1>5. g \in [0..(n + 1) -> Readings] /\ g[0] = m[0] /\ g[n + 1] = y
  BY <1>3, <1>4
<1>6. ASSUME NEW i \in 1..(n + 1) PROVE g[i] = Effect(h, g[i - 1], s[i].tag)
  <2>1. CASE i = n + 1
    <3>1. g[i - 1] = x
      BY <1>1, <2>1
    <3> QED
      BY <1>2, <1>5, <2>1, <3>1
  <2>2. CASE i # n + 1
    <3>1. i \in 1..n /\ g[i] = m[i] /\ g[i - 1] = m[i - 1]
      BY <2>2
    <3> HIDE DEF g
    <3> QED
      BY <1>4, <3>1
  <2> QED
    BY <2>1, <2>2
<1> HIDE DEF g
<1>7. IsReading(h, s, n + 1, g)
  BY <1>4, <1>5, <1>6 DEF IsReading
<1> QED
  BY <1>2, <1>5, <1>7 DEF Reads

(* Only the tokens and the errors count. *)
Alike(a, b) == (a.tag = "Token" <=> b.tag = "Token") /\ (a.tag = "Error" <=> b.tag = "Error")

LEMMA ReadsAlike ==
    ASSUME NEW h, NEW s, NEW t, NEW n \in Nat, NEW x, Reads(h, s, n, x),
           \A i \in 1..n : Alike(s[i], t[i])
    PROVE  Reads(h, t, n, x)
<1>1. PICK m : IsReading(h, s, n, m) /\ m[n] = x
  BY DEF Reads
<1>2. ASSUME NEW i \in 1..n, NEW y PROVE Effect(h, y, s[i].tag) = Effect(h, y, t[i].tag)
  BY DEF Effect, Alike
<1>3. IsReading(h, t, n, m)
  BY <1>1, <1>2 DEF IsReading
<1> QED
  BY <1>1, <1>3 DEF Reads

LEMMA ReadsUnique ==
    ASSUME NEW h, NEW s, NEW n \in Nat, NEW x, NEW y, Reads(h, s, n, x), Reads(h, s, n, y)
    PROVE  x = y
<1>1. PICK m : IsReading(h, s, n, m) /\ m[n] = x
  BY DEF Reads
<1>2. PICK g : IsReading(h, s, n, g) /\ g[n] = y
  BY DEF Reads
<1> DEFINE T == {i \in Nat : i <= n => m[i] = g[i]}
<1>3. 0 \in T
  BY <1>1, <1>2 DEF IsReading
<1>4. ASSUME NEW i \in Nat, i \in T PROVE i + 1 \in T
  <2> SUFFICES ASSUME i + 1 <= n PROVE m[i + 1] = g[i + 1]
    OBVIOUS
  <2>1. m[i] = g[i] /\ i + 1 \in 1..n /\ (i + 1) - 1 = i
    BY <1>4
  <2>2. m[i + 1] = Effect(h, m[i], s[i + 1].tag) /\ g[i + 1] = Effect(h, g[i], s[i + 1].tag)
    BY <1>1, <1>2, <2>1 DEF IsReading
  <2> QED
    BY <2>1, <2>2
<1> HIDE DEF T
<1>5. n \in T
  BY <1>3, <1>4, ClosedUnderSuccessor
<1> QED
  BY <1>1, <1>2, <1>5 DEF T

(* Reading one event less. *)
LEMMA ReadsFewer ==
    ASSUME NEW h, NEW s, NEW n \in Nat, NEW x, Reads(h, s, n + 1, x)
    PROVE  \E y \in Readings : Reads(h, s, n, y) /\ x = Effect(h, y, s[n + 1].tag)
<1>1. PICK m : IsReading(h, s, n + 1, m) /\ m[n + 1] = x
  BY DEF Reads
<1> DEFINE g == [l \in 0..n |-> m[l]]
<1>2. g \in [0..n -> Readings] /\ g[0] = m[0] /\ \A l \in 0..n : g[l] = m[l]
  BY <1>1 DEF IsReading
<1>3. n \in 0..n /\ \A l \in 1..n : l \in 1..(n + 1) /\ l - 1 \in 0..n /\ l \in 0..n
  OBVIOUS
<1> HIDE DEF g
<1>4. /\ m[0] = [pos |-> 0, raised |-> <<>>]
      /\ \A l \in 1..(n + 1) : m[l] = Effect(h, m[l - 1], s[l].tag)
  BY <1>1 DEF IsReading
<1>5. \A l \in 1..n : g[l] = Effect(h, g[l - 1], s[l].tag)
  BY <1>2, <1>3, <1>4
<1>6. g[n] = m[n] /\ m[n] \in Readings
  BY <1>1, <1>2, <1>3 DEF IsReading
<1>7. IsReading(h, s, n, g)
  BY <1>2, <1>4, <1>5 DEF IsReading
<1>8. Reads(h, s, n, m[n])
  BY <1>6, <1>7 DEF Reads
<1>9. n + 1 \in 1..(n + 1) /\ (n + 1) - 1 = n
  OBVIOUS
<1>10. x = Effect(h, m[n], s[n + 1].tag)
  BY <1>1, <1>4, <1>9
<1> QED
  BY <1>6, <1>8, <1>10

(* A longer list has at least as many tokens. *)
LEMMA ReadsMonotone ==
    ASSUME NEW h \in [Nat -> Nat], NEW s, NEW n \in Nat, NEW x, Reads(h, s, n, x),
           NEW k \in 0..n, NEW y, Reads(h, s, k, y)
    PROVE  y.pos <= x.pos
<1> DEFINE T == {i \in Nat : k + i <= n => \A z : Reads(h, s, k + i, z) => y.pos <= z.pos}
<1>0. k \in Nat /\ y \in Readings /\ y.pos \in Nat
  BY ReadsType DEF Readings
<1>1. 0 \in T
  <2>1. ASSUME NEW z, Reads(h, s, k, z) PROVE y.pos <= z.pos
    BY <1>0, <2>1, ReadsUnique
  <2> QED
    BY <1>0, <2>1
<1>2. ASSUME NEW i \in Nat, i \in T PROVE i + 1 \in T
  <2> SUFFICES ASSUME k + (i + 1) <= n, NEW z, Reads(h, s, k + (i + 1), z) PROVE y.pos <= z.pos
    OBVIOUS
  <2>1. PICK j \in Nat : j = k + i /\ j + 1 = k + (i + 1) /\ j <= n
    BY <1>0
  <2>2. PICK v \in Readings : Reads(h, s, j, v) /\ z = Effect(h, v, s[j + 1].tag)
    <3>1. Reads(h, s, j + 1, z)
      BY <2>1
    <3> QED
      BY <3>1, ReadsFewer
  <2>3. y.pos <= v.pos
    BY <1>2, <2>1, <2>2
  <2>4. v.pos \in Nat
    BY <2>2 DEF Readings
  <2>5. z.pos = v.pos \/ z.pos = v.pos + 1
    BY <2>2 DEF Effect
  <2> QED
    BY <1>0, <2>3, <2>4, <2>5
<1> HIDE DEF T
<1>3. \A i \in Nat : i \in T
  BY <1>1, <1>2, ClosedUnderSuccessor
<1>4. n - k \in Nat /\ k + (n - k) = n
  BY <1>0
<1> QED
  BY <1>3, <1>4 DEF T

(* One event more at the end of a list. *)
LEMMA ReadsAppend ==
    ASSUME NEW h \in [Nat -> Nat], NEW s \in Seq(Event), NEW e \in Event, NEW x, Reads(h, s, Len(s), x)
    PROVE  Reads(h, Append(s, e), Len(Append(s, e)), Effect(h, x, e.tag))
<1>1. PICK t : t = Append(s, e)
  OBVIOUS
<1>2. Len(s) \in Nat /\ Len(t) = Len(s) + 1 /\ t[Len(s) + 1] = e /\ \A i \in 1..Len(s) : t[i] = s[i]
  <2>1. s \in Seq(Event) /\ e \in Event /\ t = Append(s, e)
    BY <1>1
  <2> QED
    BY ONLY <2>1, AppendProperties, SMTT(30)
<1>3. Reads(h, t, Len(s), x)
  BY <1>2, ReadsAlike DEF Alike
<1>4. Reads(h, t, Len(s) + 1, Effect(h, x, t[Len(s) + 1].tag))
  BY <1>2, <1>3, ReadsMore
<1> QED
  BY <1>1, <1>2, <1>4

(* n tokens in a row. *)
LEMMA ReadsTokens ==
    ASSUME NEW h \in [Nat -> Nat], NEW s, NEW k \in Nat, NEW x, Reads(h, s, k, x), NEW n \in Nat,
           \A i \in 1..n : s[k + i].tag = "Token"
    PROVE  Reads(h, s, k + n, [pos |-> x.pos + n, raised |-> x.raised])
<1> DEFINE T == {i \in Nat : i <= n => Reads(h, s, k + i, [pos |-> x.pos + i, raised |-> x.raised])}
<1>0. x = [pos |-> x.pos, raised |-> x.raised] /\ x.pos \in Nat
  <2>1. x \in Readings
    BY ReadsType
  <2> QED
    BY <2>1 DEF Readings
<1>1. 0 \in T
  BY <1>0
<1>2. ASSUME NEW i \in Nat, i \in T PROVE i + 1 \in T
  <2> SUFFICES ASSUME i + 1 <= n
               PROVE  Reads(h, s, k + (i + 1), [pos |-> x.pos + (i + 1), raised |-> x.raised])
    OBVIOUS
  <2>1. PICK j \in Nat : j = k + i /\ j + 1 = k + (i + 1)
    OBVIOUS
  <2>2. PICK y : y = [pos |-> x.pos + i, raised |-> x.raised]
    OBVIOUS
  <2>3. Reads(h, s, j, y)
    BY <1>2, <2>1, <2>2
  <2>4. i + 1 \in 1..n
    OBVIOUS
  <2>5. s[j + 1].tag = "Token"
    BY <2>1, <2>4
  <2>6. Effect(h, y, "Token") = [pos |-> x.pos + (i + 1), raised |-> x.raised]
    BY <1>0, <2>2 DEF Effect
  <2>7. Reads(h, s, j + 1, Effect(h, y, "Token"))
    BY <2>3, <2>5, ReadsMore
  <2> QED
    BY <2>1, <2>6, <2>7
<1> HIDE DEF T
<1>3. n \in T
  BY <1>1, <1>2, ClosedUnderSuccessor
<1> QED
  BY <1>3 DEF T

(* Events that are neither tokens nor errors. *)
Neutral(e) == e.tag \notin {"Token", "Error"}

LEMMA ReadsNeutral ==
    ASSUME NEW h \in [Nat -> Nat], NEW s, NEW k \in Nat, NEW x, Reads(h, s, k, x), NEW n \in Nat,
           \A i \in 1..n : Neutral(s[k + i])
    PROVE  Reads(h, s, k + n, x)
<1> DEFINE T == {i \in Nat : i <= n => Reads(h, s, k + i, x)}
<1>1. 0 \in T
  OBVIOUS
<1>2. ASSUME NEW i \in Nat, i \in T PROVE i + 1 \in T
  <2> SUFFICES ASSUME i + 1 <= n PROVE Reads(h, s, k + (i + 1), x)
    OBVIOUS
  <2>1. PICK j \in Nat : j = k + i /\ j + 1 = k + (i + 1)
    OBVIOUS
  <2>2. Reads(h, s, j, x)
    BY <1>2, <2>1
  <2>3. i + 1 \in 1..n
    OBVIOUS
  <2>4. Neutral(s[j + 1])
    BY <2>1, <2>3
  <2>5. Effect(h, x, s[j + 1].tag) = x
    BY <2>4 DEF Effect, Neutral
  <2> QED
    BY <2>1, <2>2, <2>5, ReadsMore
<1> HIDE DEF T
<1>3. n \in T
  BY <1>1, <1>2, ClosedUnderSuccessor
<1> QED
  BY <1>3 DEF T

--------------------------------------------------------------------------------
(* The elements kept of a sequence.                                           *)

LEMMA KeptExists ==
    ASSUME NEW s, NEW I, Len(s) \in Nat
    PROVE  \E g : /\ g[0] = <<>> /\ Kept(s, I) = g[Len(s)]
                  /\ \A i \in 1..Len(s) : g[i] = IF i \in I THEN Append(g[i - 1], s[i]) ELSE g[i - 1]
<1> DEFINE c == CHOOSE g : IsKept(s, I, Len(s), g)
<1>1. IsKept(s, I, Len(s), c)
  BY KeptExistsUpTo
<1>2. Kept(s, I) = c[Len(s)]
  BY DEF Kept, IsKept
<1> HIDE DEF c
<1> DEFINE Val(i) == IF i = 0 THEN <<>> ELSE IF i \in I THEN Append(c[i - 1], s[i]) ELSE c[i - 1]
<1>3. c = [i \in 0..Len(s) |-> Val(i)]
  BY <1>1 DEF IsKept
<1>4. 0 \in 0..Len(s) /\ \A i \in 1..Len(s) : i \in 0..Len(s) /\ i # 0
  OBVIOUS
<1>5. c[0] = Val(0) /\ \A i \in 1..Len(s) : c[i] = Val(i)
  <2> HIDE DEF Val
  <2> QED
    BY <1>3, <1>4
<1>6. \A i \in 1..Len(s) : c[i] = IF i \in I THEN Append(c[i - 1], s[i]) ELSE c[i - 1]
  BY <1>4, <1>5
<1>7. c[0] = <<>>
  BY <1>5
<1> HIDE DEF Val
<1> QED
  BY <1>2, <1>6, <1>7

LEMMA KeptType ==
    ASSUME NEW S, NEW s \in Seq(S), NEW I
    PROVE  Kept(s, I) \in Seq(S)
<1>0. Len(s) \in Nat
  OBVIOUS
<1>1. PICK g : /\ g[0] = <<>> /\ Kept(s, I) = g[Len(s)]
               /\ \A i \in 1..Len(s) : g[i] = IF i \in I THEN Append(g[i - 1], s[i]) ELSE g[i - 1]
  BY <1>0, KeptExists
<1> DEFINE T == {n \in Nat : n <= Len(s) => g[n] \in Seq(S)}
<1>2. 0 \in T
  <2>1. <<>> \in Seq(S)
    OBVIOUS
  <2> QED
    BY <1>1, <2>1
<1>3. ASSUME NEW n \in Nat, n \in T PROVE n + 1 \in T
  <2> SUFFICES ASSUME n + 1 <= Len(s) PROVE g[n + 1] \in Seq(S)
    OBVIOUS
  <2>1. n + 1 \in 1..Len(s) /\ (n + 1) - 1 = n /\ g[n] \in Seq(S)
    BY <1>0, <1>3
  <2>2. s[n + 1] \in S
    BY <2>1
  <2>3. g[n + 1] = IF n + 1 \in I THEN Append(g[n], s[n + 1]) ELSE g[n]
    BY <1>1, <2>1
  <2> QED
    BY <2>1, <2>2, <2>3
<1> HIDE DEF T
<1>4. Len(s) \in T
  BY <1>0, <1>2, <1>3, ClosedUnderSuccessor
<1> QED
  BY <1>0, <1>1, <1>4 DEF T

LEMMA KeptAll ==
    ASSUME NEW S, NEW s \in Seq(S), NEW I, DOMAIN s \subseteq I
    PROVE  Kept(s, I) = s
<1>0. Len(s) \in Nat /\ DOMAIN s = 1..Len(s)
  OBVIOUS
<1>1. PICK g : /\ g[0] = <<>> /\ Kept(s, I) = g[Len(s)]
               /\ \A i \in 1..Len(s) : g[i] = IF i \in I THEN Append(g[i - 1], s[i]) ELSE g[i - 1]
  BY <1>0, KeptExists
<1> DEFINE T == {n \in Nat : n <= Len(s) => /\ g[n] \in Seq(S) /\ Len(g[n]) = n
                                            /\ \A i \in 1..n : g[n][i] = s[i]}
<1>2. 0 \in T
  <2>1. <<>> \in Seq(S) /\ Len(<<>>) = 0 /\ 1..0 = {}
    OBVIOUS
  <2>2. g[0] \in Seq(S) /\ Len(g[0]) = 0
    BY <1>1, <2>1
  <2> QED
    BY <2>1, <2>2
<1>3. ASSUME NEW n \in Nat, n \in T PROVE n + 1 \in T
  <2> SUFFICES ASSUME n + 1 <= Len(s)
               PROVE  /\ g[n + 1] \in Seq(S) /\ Len(g[n + 1]) = n + 1
                      /\ \A i \in 1..(n + 1) : g[n + 1][i] = s[i]
    OBVIOUS
  <2>1. /\ n + 1 \in 1..Len(s) /\ (n + 1) - 1 = n
        /\ g[n] \in Seq(S) /\ Len(g[n]) = n /\ \A i \in 1..n : g[n][i] = s[i]
    BY <1>0, <1>3
  <2>2. s[n + 1] \in S
    BY <2>1
  <2>3. g[n + 1] = Append(g[n], s[n + 1])
    BY <1>0, <1>1, <2>1
  <2> QED
    BY <2>1, <2>2, <2>3
<1> HIDE DEF T
<1>4. Len(s) \in T
  BY <1>0, <1>2, <1>3, ClosedUnderSuccessor
<1>5. g[Len(s)] \in Seq(S) /\ Len(g[Len(s)]) = Len(s) /\ \A i \in 1..Len(s) : g[Len(s)][i] = s[i]
  BY <1>0, <1>4 DEF T
<1> QED
  BY <1>1, <1>5, SeqEqual

(* The recorded events account for the tokens consumed and the errors raised. *)
Recorded == Reads(Where, events, Len(events), [pos |-> pos, raised |-> raised])

LEMMA RecordedAppend ==
    ASSUME ParserTypeOK, Recorded, UNCHANGED <<tokens, non_trivia_indices>>,
           NEW s \in Seq(Event), Len(s) = Len(events), \A i \in 1..Len(events) : Alike(events[i], s[i]),
           NEW e \in Event, events' = Append(s, e),
           [pos |-> pos', raised |-> raised'] = Effect(Where, [pos |-> pos, raised |-> raised], e.tag)
    PROVE  Recorded'
<1>1. Where' = Where /\ Where \in [Nat -> Nat] /\ Len(events) \in Nat
  BY WhereType DEF Where, ParserTypeOK
<1>2. PICK x : x = [pos |-> pos, raised |-> raised]
  OBVIOUS
<1>3. Reads(Where, s, Len(s), x)
  BY <1>1, <1>2, ReadsAlike DEF Recorded
<1>4. Reads(Where, Append(s, e), Len(Append(s, e)), Effect(Where, x, e.tag))
  BY <1>1, <1>3, ReadsAppend
<1> QED
  BY <1>1, <1>2, <1>4 DEF Recorded

LEMMA RecordedChanged ==
    ASSUME ParserTypeOK, Recorded, UNCHANGED <<tokens, non_trivia_indices, pos, raised>>,
           Len(events') = Len(events), \A i \in 1..Len(events) : Alike(events[i], events'[i])
    PROVE  Recorded'
<1>1. Where' = Where /\ Len(events) \in Nat
  BY DEF Where, ParserTypeOK
<1> QED
  BY <1>1, ReadsAlike DEF Recorded

LEMMA RecordedStart ==
    ASSUME ParserInv, Recorded, DoStart PROVE Recorded'
<1>1. events \in Seq(Event) /\ ParserTypeOK
  BY DEF ParserInv, ParserTypeOK
<1>2. UNCHANGED <<tokens, non_trivia_indices, pos, raised>> /\ events' = Append(events, StartEvent(TOMBSTONE))
  <2>1. UNCHANGED <<tokens, non_trivia_indices, pos, raised>>
    BY DEF DoStart, StartRoot, Start
  <2>2. \A e : <<e>> = Append(<<>>, e)
    OBVIOUS
  <2> QED
    BY <2>1, <2>2 DEF DoStart, StartRoot, Start
<1>3. StartEvent(TOMBSTONE) \in Event /\ StartEvent(TOMBSTONE).tag = "Start"
  BY EventTypes DEF StartEvent
<1>4. \A i \in 1..Len(events) : Alike(events[i], events[i])
  BY DEF Alike
<1>5. [pos |-> pos', raised |-> raised'] = Effect(Where, [pos |-> pos, raised |-> raised], "Start")
  BY <1>2 DEF Effect
<1> QED
  BY <1>1, <1>2, <1>3, <1>4, <1>5, RecordedAppend

LEMMA RecordedBump ==
    ASSUME ParserInv, Recorded, DoBump PROVE Recorded'
<1>1. events \in Seq(Event) /\ ParserTypeOK
  BY DEF ParserInv, ParserTypeOK
<1>2. /\ UNCHANGED <<tokens, non_trivia_indices, raised>> /\ pos' = pos + 1
      /\ events' = Append(events, TokenEvent(current))
  BY DEF DoBump, Bump
<1>3. TokenEvent(current) \in Event /\ TokenEvent(current).tag = "Token"
  <2>1. pos \in Nat /\ Len(non_trivia_indices) \in Nat /\ pos < Len(non_trivia_indices)
    BY DEF ParserInv, ParserTypeOK, DoBump, Bump, at_end
  <2>2. current \in TokenKinds
    BY <1>1, <2>1, NthInRange DEF current
  <2> QED
    BY <2>2, EventTypes DEF TokenEvent
<1>4. \A i \in 1..Len(events) : Alike(events[i], events[i])
  BY DEF Alike
<1>5. [pos |-> pos', raised |-> raised'] = Effect(Where, [pos |-> pos, raised |-> raised], "Token")
  BY <1>2 DEF Effect
<1> QED
  BY <1>1, <1>2, <1>3, <1>4, <1>5, RecordedAppend

LEMMA HereIs == ASSUME ParserTypeOK PROVE Here = Where[pos]
<1>1. pos \in Nat /\ Len(non_trivia_indices) \in Nat
  BY DEF ParserTypeOK
<1> QED
  BY <1>1 DEF Here, Where, at_end

LEMMA RecordedError ==
    ASSUME ParserInv, Recorded, UNCHANGED <<tokens, non_trivia_indices, pos>>,
           events' = Append(events, ErrorEvent), raised' = Append(raised, Here)
    PROVE  Recorded'
<1>1. events \in Seq(Event) /\ ParserTypeOK
  BY DEF ParserInv, ParserTypeOK
<1>3. ErrorEvent \in Event /\ ErrorEvent.tag = "Error"
  BY EventTypes DEF ErrorEvent
<1>4. \A i \in 1..Len(events) : Alike(events[i], events[i])
  BY DEF Alike
<1>5. [pos |-> pos', raised |-> raised'] = Effect(Where, [pos |-> pos, raised |-> raised], "Error")
  BY <1>1, HereIs DEF Effect
<1> QED
  BY <1>1, <1>3, <1>4, <1>5, RecordedAppend

(* The events of an error node, one by one. *)
LEMMA ErrorNodeTags ==
    ASSUME NEW n \in Nat
    PROVE  /\ Len(ErrorNode(n)) = n + 3
           /\ ErrorNode(n)[1] = StartEvent(ERROR) /\ ErrorNode(n)[2] = ErrorEvent
           /\ \A i \in 1..n : ErrorNode(n)[2 + i] = TokenEvent(nth(i - 1))
           /\ ErrorNode(n)[n + 3] = FinishEvent
<1>1. PICK a, e, f : a = StartEvent(ERROR) /\ e = ErrorEvent /\ f = FinishEvent
  OBVIOUS
<1>2. PICK b : b = [i \in 1..n |-> TokenEvent(nth(i - 1))]
  OBVIOUS
<1>3. PICK S : S = {a, e, f} \cup {TokenEvent(nth(i - 1)) : i \in 1..n}
  OBVIOUS
<1>4. b \in Seq(S) /\ Len(b) = n /\ \A i \in 1..n : b[i] = TokenEvent(nth(i - 1))
  <2>1. b \in [1..n -> S]
    BY <1>2, <1>3
  <2> QED
    BY <1>2, <2>1, IsASeq
<1>5. /\ <<a, e>> \in Seq(S) /\ Len(<<a, e>>) = 2 /\ <<a, e>>[1] = a /\ <<a, e>>[2] = e
      /\ <<f>> \in Seq(S) /\ Len(<<f>>) = 1 /\ <<f>>[1] = f
  BY <1>3
<1>6. PICK c : c = <<a, e>> \o b
  OBVIOUS
<1>7. c \in Seq(S) /\ Len(c) = n + 2 /\ c[1] = a /\ c[2] = e /\ \A i \in 1..n : c[2 + i] = b[i]
  BY <1>4, <1>5, <1>6
<1>8. PICK d : d = c \o <<f>>
  OBVIOUS
<1>9. Len(d) = n + 3 /\ d[n + 3] = f /\ \A i \in 1..(n + 2) : d[i] = c[i]
  BY <1>5, <1>7, <1>8
<1>10. \A i \in 1..n : 2 + i \in 1..(n + 2)
  OBVIOUS
<1>11. d = ErrorNode(n)
  BY <1>1, <1>2, <1>6, <1>8 DEF ErrorNode
<1> QED
  BY <1>1, <1>4, <1>7, <1>9, <1>10, <1>11

LEMMA RecordedRecover ==
    ASSUME ParserInv, Recorded, NEW R, DoErrRecover(R) PROVE Recorded'
<1>1. events \in Seq(Event) /\ ParserTypeOK /\ Len(events) \in Nat /\ Len(non_trivia_indices) \in Nat /\ pos \in Nat
  BY DEF ParserInv, ParserTypeOK
<1>2. raised' = Append(raised, Here) /\ UNCHANGED <<tokens, non_trivia_indices>>
  BY DEF DoErrRecover, err_recover
<1>3. CASE events' = Append(events, ErrorEvent) /\ pos' = pos
  BY <1>2, <1>3, RecordedError
<1>4. ASSUME NEW n \in 1..(Len(non_trivia_indices) - pos), events' = events \o ErrorNode(n), pos' = pos + n
      PROVE  Recorded'
  <2>1. n \in Nat /\ ErrorNode(n) \in Seq(Event)
    BY <1>1, ErrorNodeIsSeq
  <2>2. PICK t, d : t = events' /\ d = ErrorNode(n)
    OBVIOUS
  <2>3. PICK k \in Nat : k = Len(events)
    BY <1>1
  <2>4. /\ Len(d) = n + 3 /\ d[1].tag = "Start" /\ d[2].tag = "Error" /\ d[n + 3].tag = "Finish"
        /\ \A i \in 1..n : d[2 + i].tag = "Token"
    <3>1. /\ StartEvent(ERROR).tag = "Start" /\ ErrorEvent.tag = "Error" /\ FinishEvent.tag = "Finish"
          /\ \A c : TokenEvent(c).tag = "Token"
      BY DEF StartEvent, ErrorEvent, TokenEvent, FinishEvent
    <3> QED
      BY <2>1, <2>2, <3>1, ErrorNodeTags
  <2>5. /\ Len(t) = k + n + 3 /\ \A i \in 1..k : t[i] = events[i]
        /\ \A i \in 1..(n + 3) : t[k + i] = d[i]
    <3>1. t = events \o d /\ d \in Seq(Event) /\ Len(d) = n + 3 /\ Len(events) = k
      BY <1>4, <2>1, <2>2, <2>3, <2>4
    <3>2. Len(t) = k + (n + 3) /\ \A i \in 1..(k + (n + 3)) : t[i] = IF i <= k THEN events[i] ELSE d[i - k]
      <4>1. /\ Len(events \o d) = Len(events) + Len(d)
            /\ \A i \in 1..(Len(events) + Len(d)) :
                  (events \o d)[i] = IF i <= Len(events) THEN events[i] ELSE d[i - Len(events)]
        BY <1>1, <3>1, ConcatProperties
      <4> QED
        BY <3>1, <4>1
    <3>3. ASSUME NEW i \in 1..(n + 3) PROVE t[k + i] = d[i]
      <4>1. k + i \in 1..(k + (n + 3)) /\ ~(k + i <= k) /\ (k + i) - k = i
        BY <2>1
      <4> QED
        BY <3>2, <4>1
    <3> QED
      BY <2>1, <3>2, <3>3
  <2>6. /\ t[k + 1].tag = "Start" /\ t[k + 2].tag = "Error" /\ t[k + n + 3].tag = "Finish"
        /\ \A i \in 1..n : t[k + 2 + i].tag = "Token"
    <3>1. /\ 1 \in 1..(n + 3) /\ 2 \in 1..(n + 3) /\ n + 3 \in 1..(n + 3) /\ k + (n + 3) = k + n + 3
          /\ \A i \in 1..n : 2 + i \in 1..(n + 3) /\ k + (2 + i) = k + 2 + i
      BY <2>1
    <3> QED
      BY <2>4, <2>5, <3>1
  <2>7. PICK h : h = Where
    OBVIOUS
  <2>8. Where' = h /\ h \in [Nat -> Nat] /\ Here = h[pos]
    BY <1>1, <1>2, <2>7, WhereType, HereIs DEF Where
  <2>9. PICK x, y, z : /\ x = [pos |-> pos, raised |-> raised]
                       /\ y = [pos |-> pos, raised |-> raised'] /\ z = [pos |-> pos', raised |-> raised']
    OBVIOUS
  <2>10. Reads(h, t, k, x)
    BY <2>3, <2>5, <2>7, <2>9, ReadsAlike DEF Recorded, Alike
  <2>11. Reads(h, t, k + 1, x)
    <3>1. Effect(h, x, "Start") = x
      BY DEF Effect
    <3> QED
      BY <2>6, <2>8, <2>10, <3>1, ReadsMore
  <2>12. Reads(h, t, k + 2, y)
    <3>1. Effect(h, x, "Error") = y
      BY <1>2, <2>8, <2>9 DEF Effect
    <3>2. k + 1 \in Nat /\ (k + 1) + 1 = k + 2
      OBVIOUS
    <3>3. Reads(h, t, (k + 1) + 1, Effect(h, x, t[(k + 1) + 1].tag))
      BY <2>8, <2>11, <3>2, ReadsMore
    <3> QED
      BY <2>6, <3>1, <3>2, <3>3
  <2>13. Reads(h, t, k + 2 + n, z)
    <3>1. k + 2 \in Nat
      OBVIOUS
    <3>2. Reads(h, t, k + 2 + n, [pos |-> y.pos + n, raised |-> y.raised])
      BY <2>1, <2>6, <2>8, <2>12, <3>1, ReadsTokens
    <3>3. [pos |-> y.pos + n, raised |-> y.raised] = z
      BY <1>4, <2>9
    <3> QED
      BY <3>2, <3>3
  <2>14. Reads(h, t, k + n + 3, z)
    <3>1. PICK j \in Nat : j = k + 2 + n /\ j + 1 = k + n + 3
      BY <2>1
    <3>2. Effect(h, z, "Finish") = z
      BY DEF Effect
    <3>3. Reads(h, t, j + 1, Effect(h, z, t[j + 1].tag))
      BY <2>8, <2>13, <3>1, ReadsMore
    <3> QED
      BY <2>6, <3>1, <3>2, <3>3
  <2> QED
    BY <2>2, <2>5, <2>8, <2>9, <2>14 DEF Recorded
<1> QED
  BY <1>3, <1>4 DEF DoErrRecover, err_recover

LEMMA RecordedComplete ==
    ASSUME ParserInv, Recorded, NEW k \in NodeKinds \cup {SOURCE_FILE}, DoComplete(k) PROVE Recorded'
<1>1. events \in Seq(Event) /\ ParserTypeOK /\ Len(events) \in Nat /\ DOMAIN events = 1..Len(events)
  BY DEF ParserInv, ParserTypeOK
<1>2. PICK s : s = [events EXCEPT ![Top].kind = k]
  OBVIOUS
<1>3. UNCHANGED <<tokens, non_trivia_indices, pos, raised>> /\ events' = Append(s, FinishEvent)
  BY <1>2 DEF DoComplete, Complete
<1>4. ASSUME NEW i \in DOMAIN events PROVE s[i] \in Event /\ s[i].tag = events[i].tag
  <2>1. events[i] \in Event /\ k \in EventKinds
    BY <1>1, ElementOfSeq, EventTypes
  <2> QED
    BY <1>2, <2>1 DEF Event
<1>5. s \in Seq(Event) /\ Len(s) = Len(events)
  <2>1. s \in [1..Len(events) -> Event]
    BY <1>1, <1>2, <1>4
  <2> QED
    BY <1>1, <2>1, IsASeq
<1>6. FinishEvent \in Event /\ FinishEvent.tag = "Finish"
  BY EventTypes DEF FinishEvent
<1>7. \A i \in 1..Len(events) : Alike(events[i], s[i])
  BY <1>1, <1>4 DEF Alike
<1>8. [pos |-> pos', raised |-> raised'] = Effect(Where, [pos |-> pos, raised |-> raised], "Finish")
  BY <1>3 DEF Effect
<1> QED
  BY <1>1, <1>3, <1>5, <1>6, <1>7, <1>8, RecordedAppend

LEMMA RecordedPrecede ==
    ASSUME ParserInv, Recorded, DoPrecede PROVE Recorded'
<1>1. /\ events \in Seq(Event) /\ ParserTypeOK /\ Len(events) \in Nat /\ DOMAIN events = 1..Len(events)
      /\ last \in 1..Len(events)
  BY DEF ParserInv, ParserTypeOK, LastCompleted, DoPrecede, Precede
<1>2. PICK s : s = [events EXCEPT ![last].forward_parent = Len(events) + 1 - last]
  OBVIOUS
<1>3. UNCHANGED <<tokens, non_trivia_indices, pos, raised>> /\ events' = Append(s, StartEvent(TOMBSTONE))
  BY <1>2 DEF DoPrecede, Precede
<1>4. ASSUME NEW i \in DOMAIN events PROVE s[i] \in Event /\ s[i].tag = events[i].tag
  <2>1. events[i] \in Event /\ Len(events) + 1 - last \in Nat
    BY <1>1, ElementOfSeq
  <2> QED
    BY <1>2, <2>1 DEF Event
<1>5. s \in Seq(Event) /\ Len(s) = Len(events)
  <2>1. s \in [1..Len(events) -> Event]
    BY <1>1, <1>2, <1>4
  <2> QED
    BY <1>1, <2>1, IsASeq
<1>6. StartEvent(TOMBSTONE) \in Event /\ StartEvent(TOMBSTONE).tag = "Start"
  BY EventTypes DEF StartEvent
<1>7. \A i \in 1..Len(events) : Alike(events[i], s[i])
  BY <1>1, <1>4 DEF Alike
<1>8. [pos |-> pos', raised |-> raised'] = Effect(Where, [pos |-> pos, raised |-> raised], "Start")
  BY <1>3 DEF Effect
<1> QED
  BY <1>1, <1>3, <1>5, <1>6, <1>7, <1>8, RecordedAppend

LEMMA RecordedAbandon ==
    ASSUME ParserInv, Recorded, DoAbandon PROVE Recorded'
<1>1. events \in Seq(Event) /\ ParserTypeOK /\ Len(events) \in Nat /\ DOMAIN events = 1..Len(events)
  BY DEF ParserInv, ParserTypeOK
<1>2. Top \in 1..Len(events) /\ events[Top].tag = "Start"
  <2>1. Len(open) \in DOMAIN open
    BY DEF ParserInv, ParserTypeOK, DoAbandon, Abandon
  <2> QED
    BY <1>1, <2>1 DEF ParserInv, MarkersLive, StartEvent, Top
<1>3. UNCHANGED <<tokens, non_trivia_indices, pos, raised>>
  BY DEF DoAbandon, Abandon
<1>4. CASE Top = Len(events)
  <2>1. PICK n \in Nat : n + 1 = Len(events) /\ n = Len(events) - 1
    <3>1. Len(events) - 1 \in Nat /\ (Len(events) - 1) + 1 = Len(events)
      BY <1>1, <1>2
    <3> QED
      BY <3>1
  <2>2. events' = SubSeq(events, 1, n)
    BY <1>4, <2>1 DEF DoAbandon, Abandon
  <2>3. Len(events') = n /\ \A i \in 1..n : events'[i] = events[i]
    BY <1>1, <2>1, <2>2
  <2>4. PICK x : x = [pos |-> pos, raised |-> raised]
    OBVIOUS
  <2>5. Reads(Where, events, n + 1, x)
    BY <2>1, <2>4 DEF Recorded
  <2>6. PICK y : Reads(Where, events, n, y) /\ x = Effect(Where, y, events[n + 1].tag)
    BY <2>5, ReadsFewer
  <2>7. x = y
    BY <1>2, <1>4, <2>1, <2>6 DEF Effect
  <2>8. Reads(Where, events', n, x)
    BY <2>3, <2>6, <2>7, ReadsAlike DEF Alike
  <2>9. Where' = Where
    BY <1>3 DEF Where
  <2> QED
    BY <1>3, <2>3, <2>4, <2>8, <2>9 DEF Recorded
<1>5. CASE Top # Len(events)
  <2>1. events' = [events EXCEPT ![Top] = TombstoneEvent]
    BY <1>5 DEF DoAbandon, Abandon
  <2>2. Len(events') = Len(events) /\ \A i \in 1..Len(events) : i # Top => events'[i] = events[i]
    BY <1>1, <1>2, <2>1
  <2>3. events'[Top].tag = "Tombstone"
    BY <1>1, <1>2, <2>1 DEF TombstoneEvent
  <2>4. \A i \in 1..Len(events) : Alike(events[i], events'[i])
    BY <1>2, <2>2, <2>3 DEF Alike
  <2> QED
    BY <1>1, <1>3, <2>2, <2>4, RecordedChanged
<1> QED
  BY <1>4, <1>5

(* The resolver's list is the recorded one, without what it has consumed. *)
Consumption ==
    /\ Len(work) = Len(events) /\ at <= Len(work) + 1
    /\ \A j \in DOMAIN work :
          \/ work[j] = events[j]
          \/ work[j] = TombstoneEvent /\ (j < at \/ events[j].tag = "Start")
    /\ chain # <<>> => at <= Len(work) /\ events[at].tag = "Start"

(* What makes ErrorsWhereRaised inductive: the resolver passes the tokens    *)
(* and errors on in their order, and the builder reads them as they were     *)
(* recorded.                                                                 *)
ReadInv ==
    /\ Recorded
    /\ resolved \in Seq(Event) /\ chain \in Seq(EventKinds)
    /\ next \in Nat \ {0} /\ next <= Len(resolved) + 1
    /\ phase \in {"parse", "resolve", "build", "done"}
    /\ phase = "parse" => resolved = <<>>
    /\ phase \in {"parse", "resolve"} => next = 1 /\ nt_pos = 0 /\ errors = <<>>
    /\ phase = "resolve" =>
          /\ Consumption
          /\ \E x : Reads(Where, events, at - 1, x) /\ Reads(Where, resolved, Len(resolved), x)
    /\ phase \in {"build", "done"} =>
          /\ Reads(Where, resolved, Len(resolved), [pos |-> pos, raised |-> raised])
          /\ Reads(Where, resolved, next - 1, [pos |-> nt_pos, raised |-> errors])
    /\ phase = "done" => next = Len(resolved) + 1

LEMMA ReadInit == Init => ReadInv
<1> SUFFICES ASSUME Init PROVE ReadInv
  OBVIOUS
<1>1. Recorded
  BY ReadsNothing DEF Init, ParserInit, Recorded
<1> QED
  BY <1>1 DEF Init, ReadInv

(* A parser call. *)
LEMMA ReadParse ==
    ASSUME ReadInv, Recorded', phase' = "parse", phase = "parse", UNCHANGED <<resolveVars, buildVars>>
    PROVE  ReadInv'
BY DEF ReadInv, resolveVars, buildVars

LEMMA ReadFinish == ASSUME PipelineInv, ReadInv, Finish PROVE ReadInv'
<1>1. /\ phase = "parse" /\ phase' = "resolve" /\ work' = events
      /\ UNCHANGED <<tokens, non_trivia_indices, pos, events, raised>>
      /\ UNCHANGED <<at, chain, resolved, next, nt_pos, errors>>
  BY DEF Finish, parserVars, buildVars, history
<1>2. /\ at = 1 /\ chain = <<>> /\ events \in Seq(Event) /\ Len(events) \in Nat
  BY <1>1 DEF PipelineInv, ResolverInv, ParserInv, ParserTypeOK
<1>3. Consumption'
  BY <1>1, <1>2 DEF Consumption
<1>4. Where' = Where /\ Recorded'
  BY <1>1 DEF Where, Recorded, ReadInv
<1>5. Reads(Where, events, 0, [pos |-> 0, raised |-> <<>>])
  BY ReadsNothing
<1>6. Reads(Where, resolved, 0, [pos |-> 0, raised |-> <<>>])
  BY ReadsNothing
<1>7. \E x : Reads(Where', events', at' - 1, x) /\ Reads(Where', resolved', Len(resolved'), x)
  <2>1. at' - 1 = 0 /\ Len(resolved') = 0
    BY <1>1, <1>2 DEF ReadInv
  <2> QED
    BY <1>1, <1>4, <1>5, <1>6, <2>1
<1> QED
  BY <1>1, <1>3, <1>4, <1>7 DEF ReadInv

(* The two steps of the resolver that only extend the chain. *)
LEMMA ReadChain ==
    ASSUME PipelineInv, ReadInv, ResolveStart \/ ResolveFollow PROVE ReadInv'
<1>1. /\ phase = "resolve" /\ phase' = "resolve"
      /\ UNCHANGED <<tokens, non_trivia_indices, pos, events, raised>>
      /\ UNCHANGED <<at, resolved, next, nt_pos, errors>>
  BY DEF ResolveStart, ResolveFollow, Resolving, parserVars, buildVars, history
<1>2. PICK t \in DOMAIN work : /\ work[t].tag = "Start" /\ work' = [work EXCEPT ![t] = TombstoneEvent]
                               /\ chain' \in {<<work[t].kind>>, Append(chain, work[t].kind)}
                               /\ chain = <<>> => t = at
  <2>1. CASE ResolveStart
    <3>1. at \in DOMAIN work
      BY <2>1 DEF ResolveStart, PipelineInv, ResolverInv
    <3> QED
      BY <2>1, <3>1 DEF ResolveStart
  <2>2. CASE ResolveFollow
    <3>1. follow \in DOMAIN work /\ work[follow].tag = "Start" /\ chain # <<>>
      BY <2>2 DEF ResolveFollow, PipelineInv, ResolverInv
    <3> QED
      BY <2>2, <3>1 DEF ResolveFollow
  <2> QED
    BY <2>1, <2>2
<1>3. work \in Seq(Event) /\ Len(work) \in Nat /\ DOMAIN work = 1..Len(work) /\ at \in Nat \ {0} /\ work[t].kind \in EventKinds
  <2>1. work \in Seq(Event) /\ at \in Nat \ {0}
    BY DEF PipelineInv, ResolverInv
  <2>2. work[t] \in Event
    BY <2>1, ElementOfSeq
  <2> QED
    BY <2>1, <2>2 DEF Event
<1>4. /\ Len(work') = Len(work) /\ DOMAIN work' = DOMAIN work /\ work'[t] = TombstoneEvent
      /\ \A j \in DOMAIN work : j # t => work'[j] = work[j]
  BY <1>2, <1>3
<1>5. Consumption /\ chain \in Seq(EventKinds)
  BY <1>1 DEF ReadInv
<1>6. events[t].tag = "Start"
  BY <1>2, <1>5 DEF Consumption, TombstoneEvent
<1>7. Consumption'
  <2>1. /\ Len(work') = Len(events') /\ at' <= Len(work') + 1
        /\ \A j \in DOMAIN work' :
             \/ work'[j] = events'[j]
             \/ work'[j] = TombstoneEvent /\ (j < at' \/ events'[j].tag = "Start")
    BY <1>1, <1>4, <1>5, <1>6 DEF Consumption
  <2>2. at' <= Len(work') /\ events'[at'].tag = "Start"
    BY <1>1, <1>2, <1>3, <1>4, <1>5, <1>6 DEF Consumption
  <2>3. TombstoneEvent' = TombstoneEvent
    BY DEF TombstoneEvent
  <2> QED
    BY <2>1, <2>2, <2>3 DEF Consumption
<1>8. chain' \in Seq(EventKinds)
  <2>1. \A k \in EventKinds : <<k>> \in Seq(EventKinds) /\ Append(chain, k) \in Seq(EventKinds)
    BY <1>5
  <2> QED
    BY <1>2, <1>3, <2>1
<1>9. Where' = Where /\ Recorded'
  BY <1>1 DEF Where, Recorded, ReadInv
<1>10. \E x : Reads(Where', events', at' - 1, x) /\ Reads(Where', resolved', Len(resolved'), x)
  BY <1>1, <1>9 DEF ReadInv
<1> QED
  BY <1>1, <1>7, <1>8, <1>9, <1>10 DEF ReadInv

(* The Start events a finished chain stands for. *)
LEMMA EmittedStarts ==
    ASSUME NEW S, NEW ch \in Seq(S)
    PROVE  LET kinds == Committed(Reverse(ch)) IN
              /\ kinds \in Seq(S)
              /\ [i \in DOMAIN kinds |-> StartEvent(kinds[i])] \in Seq([tag : {"Start"}, kind : S, forward_parent : {0}])
              /\ Len([i \in DOMAIN kinds |-> StartEvent(kinds[i])]) = Len(kinds)
<1>1. PICK r : r = Reverse(ch)
  OBVIOUS
<1>2. r \in Seq(S)
  <2>1. Len(ch) \in Nat /\ r = [i \in 1..Len(ch) |-> ch[(Len(ch) - i) + 1]]
    BY <1>1 DEF Reverse
  <2>2. \A i \in 1..Len(ch) : (Len(ch) - i) + 1 \in 1..Len(ch)
    BY <2>1
  <2>3. r \in [1..Len(ch) -> S]
    BY <2>1, <2>2
  <2> QED
    BY <2>1, <2>3, IsASeq
<1>3. PICK k : k = Committed(r)
  OBVIOUS
<1>4. k \in Seq(S)
  BY <1>2, <1>3, KeptType DEF Committed
<1>5. PICK n \in Nat : n = Len(k)
  BY <1>4
<1>6. DOMAIN k = 1..n /\ \A i \in 1..n : k[i] \in S
  BY <1>4, <1>5
<1>7. PICK E : E = [tag : {"Start"}, kind : S, forward_parent : {0}]
  OBVIOUS
<1>8. \A x \in S : StartEvent(x) \in E
  BY <1>7 DEF StartEvent
<1>9. [i \in 1..n |-> StartEvent(k[i])] \in [1..n -> E]
  BY <1>6, <1>8
<1>10. [i \in 1..n |-> StartEvent(k[i])] \in Seq(E) /\ Len([i \in 1..n |-> StartEvent(k[i])]) = n
  BY <1>9, IsASeq
<1> QED
  BY <1>1, <1>3, <1>4, <1>5, <1>6, <1>7, <1>10

LEMMA ReadEmit ==
    ASSUME PipelineInv, ReadInv, ResolveEmit PROVE ReadInv'
<1>1. /\ phase = "resolve" /\ phase' = "resolve" /\ chain # <<>> /\ chain' = <<>> /\ at' = at + 1
      /\ UNCHANGED <<tokens, non_trivia_indices, pos, events, raised>>
      /\ UNCHANGED <<work, next, nt_pos, errors>>
  BY DEF ResolveEmit, Resolving, parserVars, buildVars, history
<1>2. PICK st : /\ resolved' = resolved \o st
                /\ st \in Seq([tag : {"Start"}, kind : EventKinds, forward_parent : {0}])
  <2>1. chain \in Seq(EventKinds)
    BY DEF ReadInv
  <2> QED
    BY <2>1, EmittedStarts DEF ResolveEmit
<1>3. st \in Seq(Event) /\ \A i \in 1..Len(st) : st[i].tag = "Start"
  <2>1. [tag : {"Start"}, kind : EventKinds, forward_parent : {0}] \subseteq Event
    BY DEF Event, EventTags
  <2>2. ASSUME NEW i \in 1..Len(st) PROVE st[i].tag = "Start"
    <3>1. st[i] \in [tag : {"Start"}, kind : EventKinds, forward_parent : {0}]
      BY <1>2, ElementOfSeq
    <3> QED
      BY <3>1
  <2>3. st \in Seq(Event)
    BY <1>2, <2>1, SeqMonotonic
  <2> QED
    BY <2>2, <2>3
<1>4. resolved \in Seq(Event) /\ Len(resolved) \in Nat /\ Len(st) \in Nat
  BY <1>3 DEF ReadInv
<1>5. /\ resolved' \in Seq(Event) /\ Len(resolved') = Len(resolved) + Len(st)
      /\ \A i \in 1..Len(resolved) : resolved'[i] = resolved[i]
      /\ \A i \in 1..Len(st) : resolved'[Len(resolved) + i] = st[i]
  <2>1. PICK a, b : a = resolved /\ b = resolved'
    OBVIOUS
  <2> QED
    BY ONLY <1>2, <1>3, <1>4, <2>1
<1>6. Consumption /\ at \in Nat \ {0} /\ Len(work) \in Nat
  BY <1>1 DEF ReadInv, PipelineInv, ResolverInv
<1>7. Consumption'
  BY <1>1, <1>6 DEF Consumption
<1>8. Where' = Where /\ Where \in [Nat -> Nat] /\ Recorded'
  BY <1>1, WhereType DEF Where, Recorded, ReadInv, PipelineInv, ParserInv
<1>9. PICK x : Reads(Where, events, at - 1, x) /\ Reads(Where, resolved, Len(resolved), x)
  BY <1>1 DEF ReadInv
<1>10. Reads(Where, events, at, x)
  <2>1. at - 1 \in Nat /\ (at - 1) + 1 = at /\ events[at].tag = "Start"
    BY <1>1, <1>6 DEF Consumption
  <2>2. Effect(Where, x, "Start") = x
    BY DEF Effect
  <2>3. Reads(Where, events, (at - 1) + 1, Effect(Where, x, events[(at - 1) + 1].tag))
    BY <1>8, <1>9, <2>1, ReadsMore
  <2> QED
    BY <2>1, <2>2, <2>3
<1>11. Reads(Where, resolved', Len(resolved'), x)
  <2>1. Reads(Where, resolved', Len(resolved), x)
    BY <1>4, <1>5, <1>9, ReadsAlike DEF Alike
  <2>2. \A i \in 1..Len(st) : Neutral(resolved'[Len(resolved) + i])
    BY <1>3, <1>5 DEF Neutral
  <2> QED
    BY <1>4, <1>5, <1>8, <2>1, <2>2, ReadsNeutral
<1>12. at' - 1 = at
  BY <1>1, <1>6
<1>13. next <= Len(resolved') + 1 /\ next \in Nat \ {0}
  BY <1>4, <1>5 DEF ReadInv
<1>14. chain' \in Seq(EventKinds)
  BY <1>1
<1> QED
  BY <1>1, <1>5, <1>7, <1>8, <1>10, <1>11, <1>12, <1>13, <1>14 DEF ReadInv

LEMMA ReadOther ==
    ASSUME PipelineInv, ReadInv, ResolveOther PROVE ReadInv'
<1>1. /\ phase = "resolve" /\ phase' = "resolve" /\ chain = <<>> /\ chain' = <<>> /\ at' = at + 1
      /\ at <= Len(work) /\ work[at].tag # "Start" /\ work' = [work EXCEPT ![at] = TombstoneEvent]
      /\ UNCHANGED <<tokens, non_trivia_indices, pos, events, raised>>
      /\ UNCHANGED <<next, nt_pos, errors>>
  BY DEF ResolveOther, Resolving, parserVars, buildVars, history
<1>2. /\ Consumption /\ at \in Nat \ {0} /\ work \in Seq(Event) /\ Len(work) \in Nat
      /\ DOMAIN work = 1..Len(work) /\ at \in DOMAIN work
  BY <1>1 DEF ReadInv, PipelineInv, ResolverInv
<1>3. /\ Len(work') = Len(work) /\ DOMAIN work' = DOMAIN work /\ work'[at] = TombstoneEvent
      /\ \A j \in DOMAIN work : j # at => work'[j] = work[j]
  BY <1>1, <1>2
<1>4. Consumption'
  <2>1. ASSUME NEW j \in DOMAIN work
        PROVE  \/ work'[j] = events[j]
               \/ work'[j] = TombstoneEvent /\ (j < at + 1 \/ events[j].tag = "Start")
    <3>1. CASE j = at
      BY <1>2, <1>3, <3>1
    <3>2. CASE j # at
      BY <1>2, <1>3, <3>2 DEF Consumption
    <3> QED
      BY <3>1, <3>2
  <2>2. TombstoneEvent' = TombstoneEvent
    BY DEF TombstoneEvent
  <2>3. Len(work') = Len(events) /\ at + 1 <= Len(work') + 1
    BY <1>1, <1>2, <1>3 DEF Consumption
  <2> QED
    BY <1>1, <1>3, <2>1, <2>2, <2>3 DEF Consumption
<1>5. Where' = Where /\ Where \in [Nat -> Nat] /\ Recorded'
  BY <1>1, WhereType DEF Where, Recorded, ReadInv, PipelineInv, ParserInv
<1>6. resolved \in Seq(Event) /\ Len(resolved) \in Nat /\ work[at] \in Event
  BY <1>2, ElementOfSeq DEF ReadInv
<1>7. PICK x : Reads(Where, events, at - 1, x) /\ Reads(Where, resolved, Len(resolved), x)
  BY <1>1 DEF ReadInv
<1>8. PICK y : y = Effect(Where, x, events[at].tag)
  OBVIOUS
<1>9. Reads(Where, events, at' - 1, y)
  <2>1. at - 1 \in Nat /\ (at - 1) + 1 = at /\ at' - 1 = at
    BY <1>1, <1>2
  <2>2. Reads(Where, events, (at - 1) + 1, Effect(Where, x, events[(at - 1) + 1].tag))
    BY <1>5, <1>7, <2>1, ReadsMore
  <2> QED
    BY <1>8, <2>1, <2>2
<1>10. /\ resolved' \in Seq(Event) /\ Len(resolved) <= Len(resolved') /\ Len(resolved') \in Nat
       /\ Reads(Where, resolved', Len(resolved'), y)
  <2>1. CASE work[at].tag = "Tombstone"
    <3>1. resolved' = resolved
      BY <2>1 DEF ResolveOther
    <3>2. events[at].tag \in {"Start", "Tombstone"}
      <4>1. CASE work[at] = events[at]
        BY <2>1, <4>1
      <4>2. CASE work[at] # events[at]
        BY <1>2, <4>2 DEF Consumption
      <4> QED
        BY <4>1, <4>2
    <3>3. y = x
      BY <1>8, <3>2 DEF Effect
    <3> QED
      BY <1>6, <1>7, <3>1, <3>3
  <2>2. CASE work[at].tag # "Tombstone"
    <3>1. resolved' = Append(resolved, work[at])
      BY <2>2 DEF ResolveOther
    <3>2. work[at] = events[at]
      BY <1>2, <2>2 DEF Consumption, TombstoneEvent
    <3>3. Reads(Where, resolved', Len(resolved'), Effect(Where, x, work[at].tag))
      BY <1>5, <1>6, <1>7, <3>1, ReadsAppend
    <3>4. resolved' \in Seq(Event) /\ Len(resolved') = Len(resolved) + 1
      BY <1>6, <3>1
    <3> QED
      BY <1>6, <1>8, <3>2, <3>3, <3>4
  <2> QED
    BY <2>1, <2>2
<1>11. next <= Len(resolved') + 1 /\ next \in Nat \ {0}
  BY <1>6, <1>10 DEF ReadInv
<1>12. chain' \in Seq(EventKinds)
  BY <1>1
<1> QED
  BY <1>1, <1>4, <1>5, <1>9, <1>10, <1>11, <1>12 DEF ReadInv

LEMMA ReadDone ==
    ASSUME PipelineInv, ReadInv, ResolveDone PROVE ReadInv'
<1>1. /\ phase = "resolve" /\ phase' = "build" /\ at > Len(work)
      /\ UNCHANGED <<tokens, non_trivia_indices, pos, events, raised>>
      /\ UNCHANGED <<chain, resolved, next, nt_pos, errors>>
  BY DEF ResolveDone, Resolving, parserVars, resolveVars, buildVars, history
<1>2. Where' = Where /\ Recorded /\ Recorded'
  BY <1>1 DEF Where, Recorded, ReadInv
<1>3. PICK x : Reads(Where, events, at - 1, x) /\ Reads(Where, resolved, Len(resolved), x)
  BY <1>1 DEF ReadInv
<1>4. at - 1 = Len(events) /\ Len(events) \in Nat
  BY <1>1 DEF ReadInv, Consumption, PipelineInv, ResolverInv
<1>5. x = [pos |-> pos, raised |-> raised]
  BY <1>2, <1>3, <1>4, ReadsUnique DEF Recorded
<1>6. next = 1 /\ nt_pos = 0 /\ errors = <<>> /\ next - 1 = 0
  BY <1>1 DEF ReadInv
<1>7. Reads(Where, resolved, next - 1, [pos |-> nt_pos, raised |-> errors])
  BY <1>6, ReadsNothing
<1> QED
  BY <1>1, <1>2, <1>3, <1>5, <1>7 DEF ReadInv

(* What the builder reads next. *)
LEMMA ReadBuildStep ==
    ASSUME PipelineInv, ReadInv, Building,
           [pos |-> nt_pos', raised |-> errors']
              = Effect(Where, [pos |-> nt_pos, raised |-> errors], resolved[next].tag)
    PROVE  ReadInv'
<1>1. /\ phase = "build" /\ phase' = "build" /\ next <= Len(resolved) /\ next' = next + 1
      /\ UNCHANGED <<tokens, non_trivia_indices, pos, events, raised, resolved, chain>>
  BY DEF Building, parserVars, resolveVars, history
<1>2. Where' = Where /\ Where \in [Nat -> Nat] /\ Recorded'
  BY <1>1, WhereType DEF Where, Recorded, ReadInv, PipelineInv, ParserInv
<1>3. PICK x : x = [pos |-> nt_pos, raised |-> errors]
  OBVIOUS
<1>4. PICK n \in Nat : n = next - 1 /\ n + 1 = next /\ n + 1 = next' - 1
  <2>1. next - 1 \in Nat /\ (next - 1) + 1 = next /\ next' - 1 = next
    BY <1>1 DEF ReadInv
  <2> QED
    BY <2>1
<1>5. Reads(Where, resolved, n, x)
  BY <1>1, <1>3, <1>4 DEF ReadInv
<1>6. Reads(Where, resolved, n + 1, Effect(Where, x, resolved[n + 1].tag))
  BY <1>2, <1>5, ReadsMore
<1>7. Reads(Where, resolved, next' - 1, [pos |-> nt_pos', raised |-> errors'])
  <2>1. Reads(Where, resolved, next' - 1, Effect(Where, x, resolved[next].tag))
    BY <1>4, <1>6
  <2> QED
    BY <1>3, <2>1
<1>8. next' \in Nat \ {0} /\ next' <= Len(resolved) + 1
  BY <1>1 DEF ReadInv
<1> QED
  BY <1>1, <1>2, <1>7, <1>8 DEF ReadInv

(* The builder never lacks a token. *)
LEMMA TokenLeft ==
    ASSUME PipelineInv, ReadInv, phase = "build", next <= Len(resolved), resolved[next].tag = "Token"
    PROVE  nt_pos \in Nat /\ nt_pos < Len(non_trivia_indices)
<1>1. Where \in [Nat -> Nat] /\ pos \in Nat /\ pos <= Len(non_trivia_indices) /\ Len(non_trivia_indices) \in Nat
  <2>1. ParserTypeOK
    BY DEF PipelineInv, ParserInv
  <2>2. Where \in [Nat -> Nat]
    BY <2>1, WhereType
  <2>3. pos \in 0..Len(non_trivia_indices) /\ Len(non_trivia_indices) \in Nat
    BY <2>1 DEF ParserTypeOK
  <2>4. pos \in Nat /\ pos <= Len(non_trivia_indices)
    BY <2>3
  <2> QED
    BY <2>2, <2>3, <2>4
<1>2. PICK x, y : x = [pos |-> nt_pos, raised |-> errors] /\ y = [pos |-> pos, raised |-> raised]
  OBVIOUS
<1>3. PICK n \in Nat : n = next - 1 /\ n + 1 = next
  <2>1. next - 1 \in Nat /\ (next - 1) + 1 = next
    BY DEF ReadInv
  <2> QED
    BY <2>1
<1>4. Reads(Where, resolved, n, x) /\ Reads(Where, resolved, Len(resolved), y)
  BY <1>2, <1>3 DEF ReadInv
<1>5. x \in Readings /\ nt_pos \in Nat
  <2>1. x \in Readings
    BY <1>4, ReadsType
  <2> QED
    BY <1>2, <2>1 DEF Readings
<1>6. PICK z : z = Effect(Where, x, "Token")
  OBVIOUS
<1>7. Reads(Where, resolved, n + 1, z)
  BY <1>1, <1>3, <1>4, <1>6, ReadsMore
<1>8. Len(resolved) \in Nat /\ n + 1 \in 0..Len(resolved)
  BY <1>3 DEF ReadInv
<1>9. z.pos <= y.pos
  BY <1>1, <1>4, <1>7, <1>8, ReadsMonotone
<1>10. z.pos = nt_pos + 1 /\ y.pos = pos
  BY <1>2, <1>6 DEF Effect
<1> QED
  BY <1>1, <1>5, <1>9, <1>10

LEMMA ReadBuild ==
    ASSUME PipelineInv, ReadInv, BuildStart \/ BuildToken \/ BuildFinish \/ BuildError PROVE ReadInv'
<1>1. phase = "build" /\ next <= Len(resolved) /\ Building
  BY DEF BuildStart, BuildToken, BuildFinish, BuildError, Building
<1>2. CASE BuildStart \/ BuildFinish
  <2>1. resolved[next].tag \in {"Start", "Finish"} /\ UNCHANGED <<nt_pos, errors>>
    BY <1>2 DEF BuildStart, BuildFinish
  <2>2. [pos |-> nt_pos', raised |-> errors']
              = Effect(Where, [pos |-> nt_pos, raised |-> errors], resolved[next].tag)
    BY <2>1 DEF Effect
  <2> QED
    BY <1>1, <2>2, ReadBuildStep
<1>3. CASE BuildToken
  <2>1. resolved[next].tag = "Token" /\ UNCHANGED errors
    BY <1>3 DEF BuildToken
  <2>2. nt_pos < Len(non_trivia_indices)
    BY <1>1, <2>1, TokenLeft
  <2>3. nt_pos' = nt_pos + 1
    BY <1>3, <2>2 DEF BuildToken
  <2>4. [pos |-> nt_pos', raised |-> errors']
              = Effect(Where, [pos |-> nt_pos, raised |-> errors], resolved[next].tag)
    BY <2>1, <2>3 DEF Effect
  <2> QED
    BY <1>1, <2>4, ReadBuildStep
<1>4. CASE BuildError
  <2>1. resolved[next].tag = "Error" /\ UNCHANGED nt_pos
    BY <1>4 DEF BuildError
  <2>2. nt_pos \in Nat
    <3>1. Reads(Where, resolved, next - 1, [pos |-> nt_pos, raised |-> errors]) /\ next - 1 \in Nat
      BY <1>1 DEF ReadInv
    <3>2. [pos |-> nt_pos, raised |-> errors] \in Readings
      BY <3>1, ReadsType
    <3> QED
      BY <3>2 DEF Readings
  <2>3. errors' = Append(errors, Where[nt_pos])
    BY <1>4, <2>2 DEF BuildError, Where
  <2>4. [pos |-> nt_pos', raised |-> errors']
              = Effect(Where, [pos |-> nt_pos, raised |-> errors], resolved[next].tag)
    BY <2>1, <2>3 DEF Effect
  <2> QED
    BY <1>1, <2>4, ReadBuildStep
<1> QED
  BY <1>2, <1>3, <1>4

LEMMA ReadBuildDone ==
    ASSUME ReadInv, BuildDone PROVE ReadInv'
<1>1. /\ phase = "build" /\ phase' = "done" /\ next > Len(resolved)
      /\ UNCHANGED <<tokens, non_trivia_indices, pos, events, raised>>
      /\ UNCHANGED <<chain, resolved, next, nt_pos, errors>>
  BY DEF BuildDone, parserVars, resolveVars, buildVars, history
<1>2. Where' = Where /\ Recorded'
  BY <1>1 DEF Where, Recorded, ReadInv
<1>3. next = Len(resolved) + 1
  BY <1>1 DEF ReadInv
<1> QED
  BY <1>1, <1>2, <1>3 DEF ReadInv

LEMMA ReadStep == PipelineInv /\ ReadInv /\ [Next]_vars => ReadInv'
<1> SUFFICES ASSUME PipelineInv, ReadInv, [Next]_vars PROVE ReadInv'
  OBVIOUS
<1>1. ParserInv /\ Recorded
  BY DEF PipelineInv, ReadInv
<1>2. ASSUME Recorded', ParseStep, phase' = phase PROVE ReadInv'
  BY <1>2, ReadParse DEF ParseStep
<1>3. CASE DoStart
  BY <1>1, <1>2, <1>3, RecordedStart DEF DoStart
<1>4. CASE DoBump
  BY <1>1, <1>2, <1>4, RecordedBump DEF DoBump
<1>5. CASE DoError
  <2>1. /\ events' = Append(events, ErrorEvent) /\ raised' = Append(raised, Here)
        /\ UNCHANGED <<tokens, non_trivia_indices, pos>>
    BY <1>5 DEF DoError, Error
  <2> QED
    BY <1>1, <1>2, <1>5, <2>1, RecordedError DEF DoError
<1>6. ASSUME NEW R, DoErrRecover(R) PROVE ReadInv'
  BY <1>1, <1>2, <1>6, RecordedRecover DEF DoErrRecover
<1>7. CASE DoErrAndBump
  BY <1>6, <1>7 DEF DoErrAndBump
<1>8. ASSUME NEW k \in NodeKinds \cup {SOURCE_FILE}, DoComplete(k) PROVE ReadInv'
  BY <1>1, <1>2, <1>8, RecordedComplete DEF DoComplete
<1>9. CASE DoPrecede
  BY <1>1, <1>2, <1>9, RecordedPrecede DEF DoPrecede
<1>10. CASE DoAbandon
  BY <1>1, <1>2, <1>10, RecordedAbandon DEF DoAbandon
<1>11. CASE Finish
  BY <1>11, ReadFinish
<1>12. CASE ResolveStart \/ ResolveFollow
  BY <1>12, ReadChain
<1>13. CASE ResolveEmit
  BY <1>13, ReadEmit
<1>14. CASE ResolveOther
  BY <1>14, ReadOther
<1>15. CASE ResolveDone
  BY <1>15, ReadDone
<1>16. CASE BuildStart \/ BuildToken \/ BuildFinish \/ BuildError
  BY <1>16, ReadBuild
<1>17. CASE BuildDone
  BY <1>17, ReadBuildDone
<1>18. CASE Terminated \/ UNCHANGED vars
  <2>1. UNCHANGED vars
    BY <1>18 DEF Terminated
  <2>2. /\ UNCHANGED <<tokens, non_trivia_indices, pos, events, raised, phase>>
        /\ UNCHANGED <<work, at, chain, resolved, next, nt_pos, errors>>
    BY <2>1 DEF vars, parserVars, resolveVars, buildVars, history
  <2>3. Where' = Where /\ Recorded' /\ TombstoneEvent' = TombstoneEvent
    BY <1>1, <2>2 DEF Where, Recorded, TombstoneEvent
  <2>4. Consumption' <=> Consumption
    BY <2>2, <2>3 DEF Consumption
  <2> QED
    BY <2>2, <2>3, <2>4 DEF ReadInv
<1> QED
  BY <1>3, <1>4, <1>5, <1>6, <1>7, <1>8, <1>9, <1>10, <1>11, <1>12, <1>13, <1>14, <1>15, <1>16, <1>17, <1>18
     DEF Next

(* Every syntax error is reported at the token the parser was looking at     *)
(* when it raised it, for every text and every sequence of calls: the        *)
(* builder's own cursor has passed the same tokens (build_tree).             *)
THEOREM ErrorsReportedWhereRaised == Spec => []ErrorsWhereRaised
<1>1. ReadInv => ErrorsWhereRaised
  <2> SUFFICES ASSUME ReadInv, phase = "done" PROVE errors = raised
    BY DEF ErrorsWhereRaised
  <2>1. /\ Reads(Where, resolved, Len(resolved), [pos |-> pos, raised |-> raised])
        /\ Reads(Where, resolved, next - 1, [pos |-> nt_pos, raised |-> errors])
        /\ next - 1 = Len(resolved) /\ Len(resolved) \in Nat
    BY DEF ReadInv
  <2>2. [pos |-> pos, raised |-> raised] = [pos |-> nt_pos, raised |-> errors]
    BY <2>1, ReadsUnique
  <2> QED
    BY <2>2
<1>2. Init => PipelineInv /\ ReadInv
  BY PipelineInitInv, ReadInit
<1>3. (PipelineInv /\ ReadInv) /\ [Next]_vars => (PipelineInv /\ ReadInv)'
  BY PipelineStepInv, ReadStep
<1> QED
  BY <1>1, <1>2, <1>3, PTL DEF Spec

--------------------------------------------------------------------------------
(* Nodes and their ends.                                                      *)

CompletedStarts == {i \in DOMAIN events : events[i].tag = "Start" /\ events[i].kind # TOMBSTONE}
Finishes == {i \in DOMAIN events : events[i].tag = "Finish"}

(* fin maps the nodes C one to one to their ends F, each behind its node. *)
Matching(C, F, fin) ==
    /\ fin \in [C -> F]
    /\ \A s \in C : s < fin[s]
    /\ \A s, t \in C : fin[s] = fin[t] => s = t
    /\ \A f \in F : \E s \in C : fin[s] = f

(* Every completed Start has a Finish of its own, every Start still          *)
(* uncommitted is that of a live marker, and the root comes first and ends   *)
(* last.                                                                     *)
Nested(fin) ==
    /\ Matching(CompletedStarts, Finishes, fin)
    /\ \A i \in DOMAIN events :
          events[i].tag = "Start" /\ events[i].kind = TOMBSTONE => \E k \in DOMAIN open : open[k] = i
    /\ open # <<>> => events # <<>> /\ open[1] = 1
    /\ open = <<>> /\ events # <<>> => 1 \in CompletedStarts /\ fin[1] = Len(events)

LEMMA MatchOneMore ==
    ASSUME NEW C, NEW F, NEW fin, Matching(C, F, fin), NEW c, c \notin C, NEW f, f \notin F, c < f
    PROVE  \E g : Matching(C \cup {c}, F \cup {f}, g) /\ g[c] = f
<1>1. PICK g : g = [s \in C \cup {c} |-> IF s = c THEN f ELSE fin[s]]
  OBVIOUS
<1>2. g[c] = f /\ \A s \in C : g[s] = fin[s] /\ fin[s] \in F
  BY <1>1 DEF Matching
<1>3. g \in [C \cup {c} -> F \cup {f}]
  BY <1>1 DEF Matching
<1>4. \A s \in C \cup {c} : s < g[s]
  BY <1>2 DEF Matching
<1>5. \A s, t \in C \cup {c} : g[s] = g[t] => s = t
  BY <1>2 DEF Matching
<1>6. \A y \in F \cup {f} : \E s \in C \cup {c} : g[s] = y
  BY <1>2 DEF Matching
<1>7. Matching(C \cup {c}, F \cup {f}, g)
  BY <1>3, <1>4, <1>5, <1>6 DEF Matching
<1> QED
  BY <1>2, <1>7

(* An event that is neither a node's end nor a completed Start. *)
Plain(e) == e.tag # "Finish" /\ (e.tag = "Start" => e.kind = TOMBSTONE)

(* Same nodes and ends when only plain events come or go and the others keep *)
(* tag and kind.                                                             *)
LEMMA NodesSame ==
    ASSUME events \in Seq(Event), events' \in Seq(Event),
           \A i \in DOMAIN events \cap DOMAIN events' :
              \/ events'[i].tag = events[i].tag /\ events'[i].kind = events[i].kind
              \/ Plain(events[i]) /\ Plain(events'[i]),
           \A i \in DOMAIN events : i \notin DOMAIN events' => Plain(events[i]),
           \A i \in DOMAIN events' : i \notin DOMAIN events => Plain(events'[i])
    PROVE  CompletedStarts' = CompletedStarts /\ Finishes' = Finishes
<1>1. CompletedStarts' = {i \in DOMAIN events' : events'[i].tag = "Start" /\ events'[i].kind # TOMBSTONE}
  BY DEF CompletedStarts, TOMBSTONE
<1>2. Finishes' = {i \in DOMAIN events' : events'[i].tag = "Finish"}
  BY DEF Finishes
<1>3. \A i : i \in CompletedStarts' <=> i \in CompletedStarts
  BY <1>1 DEF CompletedStarts, Plain
<1>4. \A i : i \in Finishes' <=> i \in Finishes
  BY <1>2 DEF Finishes, Plain
<1> QED
  BY <1>3, <1>4

LEMMA NestedStart ==
    ASSUME ParserInv, NEW fin, Nested(fin), StartRoot \/ Start PROVE Nested(fin)'
<1>1. events \in Seq(Event) /\ open \in Seq(Nat) /\ Len(events) \in Nat /\ DOMAIN events = 1..Len(events)
  BY DEF ParserInv, ParserTypeOK
<1>2. PICK e : e = StartEvent(TOMBSTONE)
  OBVIOUS
<1>3. e \in Event /\ Plain(e)
  BY <1>2, EventTypes DEF Plain, StartEvent
<1>4. events' = Append(events, e) /\ open' = Append(open, Len(events) + 1) /\ (open = <<>> => events = <<>>)
  <2>1. CASE StartRoot
    <3>1. events = <<>> /\ open = <<>> /\ events' = <<e>> /\ open' = <<1>>
      BY <1>2, <2>1 DEF StartRoot
    <3>2. <<e>> = Append(<<>>, e) /\ <<1>> = Append(<<>>, 1) /\ Len(<<>>) = 0
      OBVIOUS
    <3> QED
      BY <3>1, <3>2
  <2>2. CASE Start
    BY <1>2, <2>2 DEF Start, Parsing
  <2> QED
    BY <2>1, <2>2
<1>5. /\ events' \in Seq(Event) /\ DOMAIN events' = 1..(Len(events) + 1) /\ events'[Len(events) + 1] = e
      /\ \A i \in 1..Len(events) : events'[i] = events[i]
  BY <1>1, <1>3, <1>4
<1>6. CompletedStarts' = CompletedStarts /\ Finishes' = Finishes
  BY <1>1, <1>3, <1>5, NodesSame
<1>7. /\ Len(open) \in Nat /\ DOMAIN open = 1..Len(open) /\ DOMAIN open' = 1..(Len(open) + 1)
      /\ open'[Len(open) + 1] = Len(events) + 1 /\ \A k \in 1..Len(open) : open'[k] = open[k]
  BY <1>1, <1>4
<1>8. ASSUME NEW i \in DOMAIN events', events'[i].tag = "Start" /\ events'[i].kind = TOMBSTONE
      PROVE  \E k \in DOMAIN open' : open'[k] = i
  <2>1. CASE i = Len(events) + 1
    BY <1>7, <2>1
  <2>2. CASE i # Len(events) + 1
    <3>1. i \in DOMAIN events /\ events'[i] = events[i]
      BY <1>1, <1>5, <2>2
    <3>2. PICK k \in DOMAIN open : open[k] = i
      BY <1>8, <3>1 DEF Nested
    <3> QED
      BY <1>7, <3>2
  <2> QED
    BY <2>1, <2>2
<1>9. open' # <<>> /\ events' # <<>> /\ open'[1] = 1
  <2>1. Len(open') > 0 /\ Len(events') > 0
    BY <1>1, <1>4
  <2>2. CASE open = <<>>
    <3>1. Len(events) = 0 /\ Len(open) = 0
      BY <1>4, <2>2
    <3> QED
      BY <1>7, <2>1, <3>1
  <2>3. CASE open # <<>>
    <3>1. 1 \in 1..Len(open)
      BY <1>1, <2>3
    <3> QED
      BY <1>7, <2>1, <2>3, <3>1 DEF Nested
  <2> QED
    BY <2>2, <2>3
<1> QED
  BY <1>6, <1>8, <1>9 DEF Nested, TOMBSTONE

(* Bump and error, while markers are live. *)
LEMMA NestedAppend ==
    ASSUME ParserInv, NEW fin, Nested(fin), NEW e \in Event, e.tag \in {"Token", "Error"},
           events' = Append(events, e), open # <<>>, open' = open
    PROVE  Nested(fin)'
<1>1. events \in Seq(Event) /\ Len(events) \in Nat /\ DOMAIN events = 1..Len(events)
  BY DEF ParserInv, ParserTypeOK
<1>2. Plain(e)
  BY DEF Plain
<1>3. /\ events' \in Seq(Event) /\ DOMAIN events' = 1..(Len(events) + 1) /\ events'[Len(events) + 1] = e
      /\ \A i \in 1..Len(events) : events'[i] = events[i]
  BY <1>1
<1>4. CompletedStarts' = CompletedStarts /\ Finishes' = Finishes
  BY <1>1, <1>2, <1>3, NodesSame
<1>5. ASSUME NEW i \in DOMAIN events', events'[i].tag = "Start" /\ events'[i].kind = TOMBSTONE
      PROVE  \E k \in DOMAIN open' : open'[k] = i
  <2>1. i # Len(events) + 1
    BY <1>3, <1>5
  <2>2. i \in DOMAIN events /\ events'[i] = events[i]
    BY <1>1, <1>3, <2>1
  <2> QED
    BY <1>5, <2>2 DEF Nested
<1>6. events' # <<>>
  <2>1. Len(events') > 0
    BY <1>1
  <2> QED
    BY <2>1
<1> QED
  BY <1>4, <1>5, <1>6 DEF Nested, TOMBSTONE

LEMMA NestedComplete ==
    ASSUME ParserInv, NEW fin, Nested(fin), NEW k \in NodeKinds \cup {SOURCE_FILE}, Complete(k)
    PROVE  \E g : Nested(g)'
<1>1. /\ events \in Seq(Event) /\ Len(events) \in Nat /\ DOMAIN events = 1..Len(events)
      /\ open \in Seq(Nat) /\ Len(open) \in Nat /\ DOMAIN open = 1..Len(open) /\ Len(open) >= 1
  BY DEF ParserInv, ParserTypeOK, Complete, Parsing
<1>2. Top = open[Len(open)] /\ Top \in 1..Len(events) /\ events[Top] = StartEvent(TOMBSTONE)
  BY <1>1 DEF Top, ParserInv, MarkersLive
<1>3. k # TOMBSTONE /\ k \in EventKinds
  <2>1. SOURCE_FILE # TOMBSTONE
    BY DEF SOURCE_FILE, TOMBSTONE
  <2> QED
    BY <2>1, KindsAssumption, EventTypes
<1>4. PICK s : s = [events EXCEPT ![Top].kind = k]
  OBVIOUS
<1>5. events' = Append(s, FinishEvent) /\ open' = Pop
  BY <1>4 DEF Complete
<1>6. /\ s \in Seq(Event) /\ Len(s) = Len(events)
      /\ \A i \in 1..Len(events) : i # Top => s[i] = events[i]
      /\ s[Top].tag = "Start" /\ s[Top].kind = k
  <2>1. events[Top] \in Event
    BY <1>1, <1>2, ElementOfSeq
  <2>2. [events[Top] EXCEPT !.kind = k] \in Event
    BY <1>3, <2>1 DEF Event
  <2>3. s = [events EXCEPT ![Top] = [events[Top] EXCEPT !.kind = k]]
    BY <1>4
  <2>4. s[Top] = [events[Top] EXCEPT !.kind = k]
    BY <1>1, <1>2, <2>3
  <2>5. s[Top].tag = "Start" /\ s[Top].kind = k
    BY <1>2, <2>4 DEF StartEvent
  <2>6. s \in Seq(Event) /\ Len(s) = Len(events) /\ \A i \in 1..Len(events) : i # Top => s[i] = events[i]
    BY <1>1, <1>2, <2>2, <2>3, ExceptSeq
  <2> QED
    BY <2>5, <2>6
<1>7. FinishEvent \in Event /\ FinishEvent.tag = "Finish"
  BY EventTypes DEF FinishEvent
<1>8. /\ events' \in Seq(Event) /\ Len(events') = Len(events) + 1 /\ DOMAIN events' = 1..(Len(events) + 1)
      /\ events'[Len(events) + 1].tag = "Finish"
      /\ \A i \in 1..Len(events) : i # Top => events'[i] = events[i]
      /\ events'[Top].tag = "Start" /\ events'[Top].kind = k
  <2>1. PICK b, e : b = events' /\ e = FinishEvent
    OBVIOUS
  <2>2. /\ b \in Seq(Event) /\ Len(b) = Len(events) + 1 /\ DOMAIN b = 1..(Len(events) + 1)
        /\ b[Len(events) + 1] = e /\ \A i \in 1..Len(events) : b[i] = s[i]
    BY <1>1, <1>5, <1>6, <1>7, <2>1
  <2>3. b[Top] = s[Top] /\ \A i \in 1..Len(events) : i # Top => b[i] = events[i]
    BY <1>2, <1>6, <2>2
  <2> QED
    BY <1>6, <1>7, <2>1, <2>2, <2>3
<1>9. PICK C, F, n : C = CompletedStarts /\ F = Finishes /\ n = Len(events) + 1
  OBVIOUS
<1>10. CompletedStarts' = C \cup {Top} /\ Top \notin C
  <2>1. CompletedStarts' = {i \in DOMAIN events' : events'[i].tag = "Start" /\ events'[i].kind # TOMBSTONE}
    BY DEF CompletedStarts, TOMBSTONE
  <2>2. Top \notin C
    BY <1>2, <1>9 DEF CompletedStarts, StartEvent
  <2>3. \A i : i \in CompletedStarts' <=> i \in C \cup {Top}
    BY <1>1, <1>2, <1>3, <1>8, <1>9, <2>1 DEF CompletedStarts
  <2> QED
    BY <2>2, <2>3
<1>11. Finishes' = F \cup {n} /\ n \notin F
  <2>1. Finishes' = {i \in DOMAIN events' : events'[i].tag = "Finish"}
    BY DEF Finishes
  <2>2. n \notin F
    BY <1>1, <1>9 DEF Finishes
  <2>3. \A i : i \in Finishes' <=> i \in F \cup {n}
    <3>1. events[Top].tag = "Start"
      BY <1>2 DEF StartEvent
    <3>2. ASSUME NEW i \in 1..Len(events) PROVE events'[i].tag = events[i].tag
      BY <1>8, <3>1
    <3> QED
      BY <1>1, <1>8, <1>9, <2>1, <3>2 DEF Finishes
  <2> QED
    BY <2>2, <2>3
<1>12. PICK g : Matching(C \cup {Top}, F \cup {n}, g) /\ g[Top] = n
  <2>1. Top < n /\ Matching(C, F, fin)
    BY <1>1, <1>2, <1>9 DEF Nested
  <2>2. PICK c : c = Top
    OBVIOUS
  <2>3. c < n /\ c \notin C /\ n \notin F
    BY <1>10, <1>11, <2>1, <2>2
  <2>4. \E g : Matching(C \cup {c}, F \cup {n}, g) /\ g[c] = n
    BY <2>1, <2>3, MatchOneMore, SMTT(30)
  <2> QED
    BY <2>2, <2>4
<1>13. Matching(CompletedStarts', Finishes', g)
  BY <1>10, <1>11, <1>12
<1>14. /\ Len(open') = Len(open) - 1 /\ DOMAIN open' = 1..(Len(open) - 1)
       /\ \A i \in 1..(Len(open) - 1) : open'[i] = open[i]
  BY <1>1, <1>5 DEF Pop
<1>15. ASSUME NEW i \in DOMAIN events', events'[i].tag = "Start" /\ events'[i].kind = TOMBSTONE
       PROVE  \E j \in DOMAIN open' : open'[j] = i
  <2>1. i # Top /\ i # Len(events) + 1
    BY <1>3, <1>8, <1>15
  <2>2. i \in DOMAIN events /\ events'[i] = events[i]
    BY <1>1, <1>8, <2>1
  <2>3. PICK j \in DOMAIN open : open[j] = i
    BY <1>15, <2>2 DEF Nested
  <2>4. j \in 1..(Len(open) - 1)
    BY <1>1, <1>2, <2>1, <2>3
  <2> QED
    BY <1>14, <2>3, <2>4
<1>16. open # <<>> /\ open[1] = 1 /\ events' # <<>>
  <2>1. open # <<>> /\ Len(events') > 0
    BY <1>1, <1>8
  <2> QED
    BY <2>1 DEF Nested
<1>17. open' # <<>> => events' # <<>> /\ open'[1] = 1
  <2> SUFFICES ASSUME open' # <<>> PROVE open'[1] = 1
    BY <1>16
  <2>1. open' \in Seq(Nat)
    BY <1>1, <1>5 DEF Pop
  <2>2. 1 \in 1..(Len(open) - 1)
    BY <1>1, <1>14, <2>1
  <2> QED
    BY <1>14, <1>16, <2>2
<1>18. open' = <<>> => 1 \in CompletedStarts' /\ g[1] = Len(events')
  <2> SUFFICES ASSUME open' = <<>> PROVE 1 \in CompletedStarts' /\ g[1] = Len(events')
    OBVIOUS
  <2>1. Len(open) = 1
    <3>1. Len(open') = 0
      <4>1. Len(<<>>) = 0
        OBVIOUS
      <4> QED
        BY <4>1
    <3>2. Len(open') = Len(open) - 1 /\ Len(open) \in Nat
      BY <1>1, <1>14
    <3> QED
      BY <3>1, <3>2
  <2>2. Top = 1
    BY <1>2, <1>16, <2>1
  <2> QED
    BY <1>8, <1>9, <1>10, <1>12, <2>2
<1> QED
  BY <1>13, <1>15, <1>17, <1>18 DEF Nested, TOMBSTONE

LEMMA NestedPrecede ==
    ASSUME ParserInv, NEW fin, Nested(fin), Precede PROVE Nested(fin)'
<1>1. /\ events \in Seq(Event) /\ Len(events) \in Nat /\ DOMAIN events = 1..Len(events)
      /\ open \in Seq(Nat) /\ Len(open) \in Nat /\ DOMAIN open = 1..Len(open) /\ Len(open) >= 1
  BY DEF ParserInv, ParserTypeOK, Precede, Parsing
<1>2. last \in 1..Len(events)
  BY <1>1 DEF ParserInv, LastCompleted, Precede
<1>3. PICK s : s = [events EXCEPT ![last].forward_parent = Len(events) + 1 - last]
  OBVIOUS
<1>4. PICK e : e = StartEvent(TOMBSTONE)
  OBVIOUS
<1>5. e \in Event /\ Plain(e)
  BY <1>4, EventTypes DEF Plain, StartEvent
<1>6. events' = Append(s, e) /\ open' = Append(open, Len(events) + 1)
  BY <1>3, <1>4 DEF Precede
<1>7. ASSUME NEW i \in 1..Len(events)
      PROVE  s[i] \in Event /\ s[i].tag = events[i].tag /\ s[i].kind = events[i].kind
  <2>1. events[i] \in Event /\ Len(events) + 1 - last \in Nat
    BY <1>1, <1>2, ElementOfSeq
  <2> QED
    BY <1>1, <1>3, <2>1 DEF Event
<1>8. s \in Seq(Event) /\ Len(s) = Len(events)
  <2>1. s \in [1..Len(events) -> Event]
    BY <1>1, <1>3, <1>7
  <2> QED
    BY <1>1, <2>1, IsASeq
<1>9. /\ events' \in Seq(Event) /\ DOMAIN events' = 1..(Len(events) + 1) /\ Len(events') > 0
      /\ events'[Len(events) + 1] = e /\ \A i \in 1..Len(events) : events'[i] = s[i]
  BY <1>1, <1>5, <1>6, <1>8
<1>10. CompletedStarts' = CompletedStarts /\ Finishes' = Finishes
  <2>1. ASSUME NEW i \in 1..Len(events) PROVE events'[i].tag = events[i].tag /\ events'[i].kind = events[i].kind
    BY <1>7, <1>9
  <2>2. \A i \in DOMAIN events \cap DOMAIN events' :
           events'[i].tag = events[i].tag /\ events'[i].kind = events[i].kind
    BY <1>1, <2>1
  <2>3. \A i \in DOMAIN events : i \in DOMAIN events'
    BY <1>1, <1>9
  <2>4. \A i \in DOMAIN events' : i \notin DOMAIN events => Plain(events'[i])
    BY <1>1, <1>5, <1>9
  <2> QED
    BY <1>1, <1>9, <2>2, <2>3, <2>4, NodesSame
<1>11. /\ DOMAIN open' = 1..(Len(open) + 1) /\ Len(open') > 0
       /\ open'[Len(open) + 1] = Len(events) + 1 /\ \A j \in 1..Len(open) : open'[j] = open[j]
  BY <1>1, <1>6
<1>12. ASSUME NEW i \in DOMAIN events', events'[i].tag = "Start" /\ events'[i].kind = TOMBSTONE
       PROVE  \E j \in DOMAIN open' : open'[j] = i
  <2>1. CASE i = Len(events) + 1
    BY <1>1, <1>11, <2>1
  <2>2. CASE i # Len(events) + 1
    <3>1. i \in DOMAIN events /\ events[i].tag = "Start" /\ events[i].kind = TOMBSTONE
      <4>1. i \in 1..Len(events)
        BY <1>1, <1>9, <2>2
      <4> QED
        BY <1>1, <1>7, <1>9, <1>12, <4>1
    <3>2. PICK j \in DOMAIN open : open[j] = i
      BY <3>1 DEF Nested
    <3> QED
      BY <1>1, <1>11, <3>2
  <2> QED
    BY <2>1, <2>2
<1>13. open' # <<>> /\ events' # <<>> /\ open'[1] = 1
  <2>1. open # <<>> /\ 1 \in 1..Len(open)
    BY <1>1
  <2> QED
    BY <1>9, <1>11, <2>1 DEF Nested
<1> QED
  BY <1>10, <1>12, <1>13 DEF Nested, TOMBSTONE

LEMMA NestedAbandon ==
    ASSUME ParserInv, NEW fin, Nested(fin), Abandon PROVE Nested(fin)'
<1>1. /\ events \in Seq(Event) /\ Len(events) \in Nat /\ DOMAIN events = 1..Len(events)
      /\ open \in Seq(Nat) /\ Len(open) \in Nat /\ DOMAIN open = 1..Len(open) /\ Len(open) >= 2
  BY DEF ParserInv, ParserTypeOK, Abandon
<1>2. /\ Top = open[Len(open)] /\ Top \in 1..Len(events) /\ events[Top] = StartEvent(TOMBSTONE)
      /\ open[1] \in 1..Len(events) /\ open[1] < Top
  BY <1>1 DEF Top, ParserInv, MarkersLive
<1>3. Plain(events[Top]) /\ Plain(TombstoneEvent) /\ TombstoneEvent \in Event /\ TombstoneEvent.tag # "Start"
  BY <1>2, EventTypes DEF Plain, StartEvent, TombstoneEvent
<1>4. open[1] = 1
  <2>1. open # <<>>
    BY <1>1
  <2> QED
    BY <2>1 DEF Nested
<1>5. /\ events' \in Seq(Event) /\ Len(events') > 0 /\ DOMAIN events' \subseteq DOMAIN events
      /\ \A i \in DOMAIN events : i # Top => i \in DOMAIN events' /\ events'[i] = events[i]
      /\ Top \in DOMAIN events' => events'[Top] = TombstoneEvent
  <2>1. CASE Top = Len(events)
    <3>1. events' = SubSeq(events, 1, Len(events) - 1) /\ Len(events) >= 2
      BY <1>1, <1>2, <1>4, <2>1 DEF Abandon
    <3>2. PICK b : b = events'
      OBVIOUS
    <3>3. /\ b \in Seq(Event) /\ Len(b) = Len(events) - 1 /\ DOMAIN b = 1..(Len(events) - 1)
          /\ \A i \in 1..(Len(events) - 1) : b[i] = events[i]
      BY <1>1, <3>1, <3>2
    <3> QED
      BY <1>1, <2>1, <3>1, <3>2, <3>3
  <2>2. CASE Top # Len(events)
    <3>1. events' = [events EXCEPT ![Top] = TombstoneEvent]
      BY <2>2 DEF Abandon
    <3> QED
      BY <1>1, <1>2, <1>3, <3>1
  <2> QED
    BY <2>1, <2>2
<1>6. CompletedStarts' = CompletedStarts /\ Finishes' = Finishes
  BY <1>1, <1>3, <1>5, NodesSame
<1>7. /\ open' \in Seq(Nat) /\ Len(open') = Len(open) - 1 /\ DOMAIN open' = 1..(Len(open) - 1)
      /\ \A i \in 1..(Len(open) - 1) : open'[i] = open[i]
  BY <1>1 DEF Pop, Abandon
<1>8. ASSUME NEW i \in DOMAIN events', events'[i].tag = "Start" /\ events'[i].kind = TOMBSTONE
      PROVE  \E j \in DOMAIN open' : open'[j] = i
  <2>1. i # Top
    BY <1>3, <1>5, <1>8
  <2>2. i \in DOMAIN events /\ events'[i] = events[i]
    BY <1>5, <2>1
  <2>3. PICK j \in DOMAIN open : open[j] = i
    BY <1>8, <2>2 DEF Nested
  <2>4. j \in 1..(Len(open) - 1)
    BY <1>1, <1>2, <2>1, <2>3
  <2> QED
    BY <1>7, <2>3, <2>4
<1>9. open' # <<>> /\ events' # <<>> /\ open'[1] = 1
  <2>1. 1 \in 1..(Len(open) - 1)
    BY <1>1
  <2>2. open'[1] = 1
    BY <1>4, <1>7, <2>1
  <2>3. open' # <<>> /\ events' # <<>>
    BY <1>1, <1>5, <1>7
  <2> QED
    BY <2>2, <2>3
<1> QED
  BY <1>6, <1>8, <1>9 DEF Nested, TOMBSTONE

LEMMA NestedRecover ==
    ASSUME ParserInv, NEW fin, Nested(fin), NEW R, err_recover(R) PROVE \E g : Nested(g)'
<1>1. /\ events \in Seq(Event) /\ Len(events) \in Nat /\ DOMAIN events = 1..Len(events) /\ ParserTypeOK
      /\ Len(non_trivia_indices) \in Nat /\ pos \in Nat
  BY DEF ParserInv, ParserTypeOK
<1>2. open # <<>> /\ open' = open
  BY DEF err_recover, Parsing
<1>3. CASE events' = Append(events, ErrorEvent)
  <2>1. ErrorEvent \in Event /\ ErrorEvent.tag = "Error"
    BY EventTypes DEF ErrorEvent
  <2> QED
    BY <1>2, <1>3, <2>1, NestedAppend
<1>4. ASSUME NEW n \in 1..(Len(non_trivia_indices) - pos), events' = events \o ErrorNode(n)
      PROVE  \E g : Nested(g)'
  <2>1. n \in Nat /\ ErrorNode(n) \in Seq(Event)
    BY <1>1, ErrorNodeIsSeq
  <2>2. PICK d, k : d = ErrorNode(n) /\ k = Len(events)
    OBVIOUS
  <2>3. /\ Len(d) = n + 3 /\ d[1].tag = "Start" /\ d[1].kind = ERROR /\ d[n + 3].tag = "Finish"
        /\ \A i \in 2..(n + 2) : d[i].tag \in {"Token", "Error"}
    <3>1. /\ StartEvent(ERROR).tag = "Start" /\ StartEvent(ERROR).kind = ERROR
          /\ ErrorEvent.tag = "Error" /\ FinishEvent.tag = "Finish"
          /\ \A c : TokenEvent(c).tag = "Token"
      BY DEF StartEvent, ErrorEvent, TokenEvent, FinishEvent
    <3>2. ASSUME NEW i \in 2..(n + 2) PROVE d[i].tag \in {"Token", "Error"}
      <4>1. CASE i = 2
        BY <2>1, <2>2, <3>1, <4>1, ErrorNodeTags
      <4>2. CASE i # 2
        <5>1. i - 2 \in 1..n /\ 2 + (i - 2) = i
          BY <2>1, <4>2
        <5>2. d[2 + (i - 2)] = TokenEvent(nth((i - 2) - 1))
          BY <2>1, <2>2, <5>1, ErrorNodeTags
        <5> QED
          BY <3>1, <5>1, <5>2
      <4> QED
        BY <4>1, <4>2
    <3> QED
      BY <2>1, <2>2, <3>1, <3>2, ErrorNodeTags
  <2>4. /\ events' \in Seq(Event) /\ Len(events') = k + (n + 3) /\ DOMAIN events' = 1..(k + (n + 3))
        /\ \A i \in 1..k : events'[i] = events[i]
        /\ \A i \in 1..(n + 3) : events'[k + i] = d[i]
    <3>1. /\ events \o d \in Seq(Event) /\ Len(events \o d) = Len(events) + Len(d)
          /\ \A i \in 1..(Len(events) + Len(d)) :
                (events \o d)[i] = IF i <= Len(events) THEN events[i] ELSE d[i - Len(events)]
      BY <1>1, <2>1, <2>2, ConcatProperties
    <3>2. PICK b : b = events'
      OBVIOUS
    <3>3. /\ b \in Seq(Event) /\ Len(b) = k + (n + 3) /\ DOMAIN b = 1..(k + (n + 3))
          /\ \A i \in 1..(k + (n + 3)) : b[i] = IF i <= k THEN events[i] ELSE d[i - k]
      BY <1>4, <2>2, <2>3, <3>1, <3>2
    <3>4. k \in Nat
      BY <1>1, <2>2
    <3>5. ASSUME NEW i \in 1..(n + 3) PROVE b[k + i] = d[i]
      <4>1. k + i \in 1..(k + (n + 3)) /\ ~(k + i <= k) /\ (k + i) - k = i
        BY <2>1, <3>4
      <4> QED
        BY <3>3, <4>1
    <3>6. ASSUME NEW i \in 1..k PROVE b[i] = events[i]
      BY <2>1, <3>3, <3>4
    <3> QED
      BY <3>2, <3>3, <3>5, <3>6
  <2>5. /\ k \in Nat /\ events'[k + 1].tag = "Start" /\ events'[k + 1].kind = ERROR
        /\ events'[k + n + 3].tag = "Finish"
        /\ \A i \in DOMAIN events' :
              \/ i \in DOMAIN events /\ events'[i] = events[i]
              \/ i = k + 1 \/ i = k + n + 3
              \/ i \notin DOMAIN events /\ events'[i].tag \in {"Token", "Error"}
    <3>1. k \in Nat /\ 1 \in 1..(n + 3) /\ n + 3 \in 1..(n + 3) /\ k + (n + 3) = k + n + 3
      BY <1>1, <2>1, <2>2
    <3>2. ASSUME NEW i \in DOMAIN events', i \notin DOMAIN events, i # k + 1, i # k + n + 3
          PROVE  events'[i].tag \in {"Token", "Error"}
      <4>1. i - k \in 2..(n + 2) /\ i - k \in 1..(n + 3) /\ k + (i - k) = i
        <5>1. i \in 1..(k + (n + 3)) /\ i \notin 1..k
          BY <1>1, <2>2, <2>4, <3>2
        <5> QED
          BY <2>1, <3>1, <3>2, <5>1
      <4> QED
        BY <2>3, <2>4, <4>1
    <3>3. ASSUME NEW i \in DOMAIN events PROVE events'[i] = events[i]
      BY <1>1, <2>2, <2>4
    <3> QED
      BY <2>3, <2>4, <3>1, <3>2, <3>3
  <2>6. PICK C, F, c, f : C = CompletedStarts /\ F = Finishes /\ c = k + 1 /\ f = k + n + 3
    OBVIOUS
  <2>7. /\ c \notin DOMAIN events /\ f \notin DOMAIN events /\ c < f /\ c \in DOMAIN events' /\ f \in DOMAIN events'
        /\ DOMAIN events \subseteq DOMAIN events'
    BY <1>1, <2>1, <2>2, <2>4, <2>6
  <2>8. ERROR # TOMBSTONE
    BY DEF ERROR, TOMBSTONE
  <2>9. CompletedStarts' = C \cup {c} /\ c \notin C
    <3>1. CompletedStarts' = {i \in DOMAIN events' : events'[i].tag = "Start" /\ events'[i].kind # TOMBSTONE}
      BY DEF CompletedStarts, TOMBSTONE
    <3>2. \A i : i \in CompletedStarts' <=> i \in C \cup {c}
      BY <2>5, <2>6, <2>7, <2>8, <3>1 DEF CompletedStarts
    <3>3. c \notin C
      BY <2>6, <2>7 DEF CompletedStarts
    <3> QED
      BY <3>2, <3>3
  <2>10. Finishes' = F \cup {f} /\ f \notin F
    <3>1. Finishes' = {i \in DOMAIN events' : events'[i].tag = "Finish"}
      BY DEF Finishes
    <3>2. \A i : i \in Finishes' <=> i \in F \cup {f}
      BY <2>5, <2>6, <2>7, <3>1 DEF Finishes
    <3>3. f \notin F
      BY <2>6, <2>7 DEF Finishes
    <3> QED
      BY <3>2, <3>3
  <2>11. PICK g : Matching(C \cup {c}, F \cup {f}, g)
    <3>1. Matching(C, F, fin)
      BY <2>6 DEF Nested
    <3>2. c \notin C /\ f \notin F /\ c < f
      BY <2>7, <2>9, <2>10
    <3> QED
      BY <3>1, <3>2, MatchOneMore
  <2>12. Matching(CompletedStarts', Finishes', g)
    BY <2>9, <2>10, <2>11
  <2>13. ASSUME NEW i \in DOMAIN events', events'[i].tag = "Start" /\ events'[i].kind = TOMBSTONE
         PROVE  \E j \in DOMAIN open' : open'[j] = i
    <3>1. i \in DOMAIN events /\ events'[i] = events[i]
      BY <2>5, <2>8, <2>13
    <3> QED
      BY <1>2, <2>13, <3>1 DEF Nested
  <2>14. events' # <<>> /\ open'[1] = 1
    <3>1. Len(events') > 0
      BY <2>1, <2>4, <2>5
    <3> QED
      BY <1>2, <3>1 DEF Nested
  <2> QED
    BY <1>2, <2>12, <2>13, <2>14 DEF Nested, TOMBSTONE
<1> QED
  BY <1>3, <1>4 DEF err_recover

--------------------------------------------------------------------------------
(* The nodes open while the resolved events are read.                         *)

Delta(tag) == IF tag = "Start" THEN 1 ELSE IF tag = "Finish" THEN -1 ELSE 0

(* d[i] nodes are open after the first i events of s. *)
IsBalance(s, n, d) ==
    /\ d \in [0..n -> Int] /\ d[0] = 0
    /\ \A i \in 1..n : d[i] = d[i - 1] + Delta(s[i].tag)

StartsFrom(t, n, m) == \A i \in 1..m : t[n + i].tag = "Start"
Deepens(d, n, m, g) == (\A i \in 0..n : g[i] = d[i]) /\ (\A i \in 1..m : g[n + i] = d[n] + i)

LEMMA BalanceStarts ==
    ASSUME NEW s, NEW t, NEW n \in Nat, NEW d, IsBalance(s, n, d), Prefix(s, n, t),
           NEW m \in Nat, StartsFrom(t, n, m)
    PROVE  \E g : IsBalance(t, n + m, g) /\ Deepens(d, n, m, g)
<1>1. PICK g : g = [i \in 0..(n + m) |-> IF i <= n THEN d[i] ELSE d[n] + (i - n)]
  OBVIOUS
<1>2. d \in [0..n -> Int] /\ d[0] = 0 /\ d[n] \in Int
  BY DEF IsBalance
<1>3. \A i \in 0..n : g[i] = d[i]
  BY <1>1
<1>4. ASSUME NEW i \in 1..m PROVE g[n + i] = d[n] + i
  BY <1>1
<1>5. g \in [0..(n + m) -> Int]
  BY <1>1, <1>2
<1>6. ASSUME NEW i \in 1..(n + m) PROVE g[i] = g[i - 1] + Delta(t[i].tag)
  <2>1. CASE i <= n
    <3>1. i \in 1..n /\ i \in 0..n /\ i - 1 \in 0..n
      BY <2>1
    <3>2. d[i] = d[i - 1] + Delta(t[i].tag)
      BY <3>1 DEF IsBalance, Prefix
    <3> QED
      BY <1>3, <3>1, <3>2
  <2>2. CASE i > n
    <3>1. PICK j \in 1..m : i = n + j
      <4>1. i - n \in 1..m /\ i = n + (i - n)
        BY <2>2
      <4> QED
        BY <4>1
    <3>2. Delta(t[i].tag) = 1
      BY <3>1 DEF Delta, StartsFrom
    <3>3. g[i] = d[n] + j
      BY <1>4, <3>1
    <3>4. g[i - 1] = d[n] + (j - 1)
      <4>1. CASE j = 1
        BY <1>2, <1>3, <3>1, <4>1
      <4>2. CASE j # 1
        <5>1. j - 1 \in 1..m /\ i - 1 = n + (j - 1)
          BY <3>1, <4>2
        <5> QED
          BY <1>4, <5>1
      <4> QED
        BY <4>1, <4>2
    <3> QED
      BY <1>2, <3>2, <3>3, <3>4
  <2> QED
    BY <2>1, <2>2
<1>7. IsBalance(t, n + m, g)
  BY <1>2, <1>3, <1>5, <1>6 DEF IsBalance
<1> QED
  BY <1>3, <1>4, <1>7 DEF Deepens

LEMMA BalanceOne ==
    ASSUME NEW s, NEW t, NEW n \in Nat, NEW d, IsBalance(s, n, d), Prefix(s, n, t)
    PROVE  \E g : /\ IsBalance(t, n + 1, g) /\ \A i \in 0..n : g[i] = d[i]
                  /\ g[n + 1] = d[n] + Delta(t[n + 1].tag)
<1>1. PICK v : v = d[n] + Delta(t[n + 1].tag)
  OBVIOUS
<1>2. d \in [0..n -> Int] /\ d[0] = 0 /\ v \in Int
  BY <1>1 DEF IsBalance, Delta
<1>3. PICK g : g = [i \in 0..(n + 1) |-> IF i = n + 1 THEN v ELSE d[i]]
  OBVIOUS
<1>4. g[n + 1] = v /\ \A i \in 0..n : g[i] = d[i]
  BY <1>3
<1>5. g \in [0..(n + 1) -> Int]
  BY <1>2, <1>3
<1>6. ASSUME NEW i \in 1..(n + 1) PROVE g[i] = g[i - 1] + Delta(t[i].tag)
  <2>1. CASE i = n + 1
    BY <1>1, <1>4, <2>1
  <2>2. CASE i # n + 1
    <3>1. i \in 1..n /\ i \in 0..n /\ i - 1 \in 0..n
      BY <2>2
    <3>2. d[i] = d[i - 1] + Delta(t[i].tag)
      BY <3>1 DEF IsBalance, Prefix
    <3> QED
      BY <1>4, <3>1, <3>2
  <2> QED
    BY <2>1, <2>2
<1>7. IsBalance(t, n + 1, g)
  BY <1>2, <1>4, <1>5, <1>6 DEF IsBalance
<1> QED
  BY <1>1, <1>4, <1>7

(* The nodes the resolver has consumed and whose end it has not reached. *)
OpenNodes(fin) == {s \in CompletedStarts : work[s].tag # "Start" /\ fin[s] >= at}

(* While resolving, the depth after the events passed on, and of the chain   *)
(* in hand, is the number of such nodes; only at the end may it be zero.     *)
ResolvedNest(fin, d) ==
    /\ IsBalance(resolved, Len(resolved), d)
    /\ d[Len(resolved)] + Len(chain) = Cardinality(OpenNodes(fin))
    /\ \A i \in 1..Len(resolved) : d[i] >= 1 \/ (i = Len(resolved) /\ at = Len(work) + 1)
    /\ \A i \in DOMAIN chain : chain[i] # TOMBSTONE
    /\ at = 1 => resolved = <<>> /\ (chain = <<>> => work = events)
    /\ at > 1 => resolved # <<>>
    /\ resolved # <<>> => resolved[1].tag = "Start"

(* While building, the builder is as deep as the events read so far say. *)
BuiltNest(d) ==
    /\ IsBalance(resolved, Len(resolved), d)
    /\ Len(resolved) >= 1 /\ resolved[1].tag = "Start"
    /\ d[Len(resolved)] = 0 /\ \A i \in 1..(Len(resolved) - 1) : d[i] >= 1
    /\ depth = d[next - 1] /\ roots = IF next - 1 = Len(resolved) THEN 1 ELSE 0

(* What makes NeverPanics inductive. *)
NestInv ==
    /\ panic = "none"
    /\ phase \in {"parse", "resolve"} => depth = 0 /\ roots = 0
    /\ phase # "parse" => open = <<>> /\ events # <<>>
    /\ \E fin : Nested(fin) /\ (phase = "resolve" => \E d : ResolvedNest(fin, d))
    /\ phase = "build" => \E d : BuiltNest(d)

LEMMA OpenFinite ==
    ASSUME PipelineInv, NEW fin
    PROVE  IsFiniteSet(OpenNodes(fin)) /\ Cardinality(OpenNodes(fin)) \in Nat
<1>1. events \in Seq(Event)
  BY DEF PipelineInv, ParserInv, ParserTypeOK
<1>2. Len(events) \in Nat /\ DOMAIN events = 1..Len(events)
  BY <1>1
<1>3. IsFiniteSet(1..Len(events))
  BY <1>2, FS_Interval
<1>4. OpenNodes(fin) \subseteq 1..Len(events)
  BY <1>2 DEF OpenNodes, CompletedStarts
<1> QED
  BY <1>3, <1>4, FS_Subset, FS_CardinalityType

LEMMA NestInit == Init => NestInv
<1> SUFFICES ASSUME Init PROVE NestInv
  OBVIOUS
<1>1. events = <<>> /\ open = <<>> /\ DOMAIN events = {}
  BY DEF Init, ParserInit
<1>2. CompletedStarts = {} /\ Finishes = {}
  BY <1>1 DEF CompletedStarts, Finishes
<1>3. PICK fin : fin = [x \in {} |-> x]
  OBVIOUS
<1>4. Matching(CompletedStarts, Finishes, fin)
  BY <1>2, <1>3 DEF Matching
<1>5. Nested(fin)
  BY <1>1, <1>4 DEF Nested
<1> QED
  BY <1>5 DEF Init, NestInv

LEMMA NestFinish == ASSUME PipelineInv, ReadInv, NestInv, Finish PROVE NestInv'
<1>1. /\ phase = "parse" /\ phase' = "resolve" /\ work' = events /\ open = <<>> /\ events # <<>>
      /\ UNCHANGED <<events, open, panic, at, chain, resolved, depth, roots>>
  BY DEF Finish, parserVars, buildVars
<1>2. at = 1 /\ chain = <<>> /\ resolved = <<>> /\ Len(resolved) = 0 /\ Len(chain) = 0
  BY <1>1 DEF PipelineInv, ResolverInv, ReadInv
<1>3. PICK fin : Nested(fin)
  BY DEF NestInv
<1>4. CompletedStarts' = CompletedStarts /\ Finishes' = Finishes
  BY <1>1 DEF CompletedStarts, Finishes, TOMBSTONE
<1>5. Nested(fin)'
  BY <1>1, <1>3, <1>4 DEF Nested, TOMBSTONE
<1>6. OpenNodes(fin)' = {}
  <2>1. OpenNodes(fin)' = {s \in CompletedStarts' : work'[s].tag # "Start" /\ fin[s] >= at'}
    BY DEF OpenNodes
  <2> QED
    BY <1>1, <1>4, <2>1 DEF CompletedStarts
<1>7. PICK d : d = [i \in 0..0 |-> 0]
  OBVIOUS
<1>8. IsBalance(resolved', 0, d) /\ d[0] = 0
  BY <1>7 DEF IsBalance
<1>9. ResolvedNest(fin, d)'
  <2>1. Cardinality({}) = 0 /\ DOMAIN <<>> = {}
    BY FS_EmptySet
  <2> QED
    BY <1>1, <1>2, <1>6, <1>8, <2>1 DEF ResolvedNest
<1> QED
  BY <1>1, <1>5, <1>9 DEF NestInv

(* The recorded nodes stay as they are once the parser is done. *)
LEMMA NestedKept ==
    ASSUME NEW fin, Nested(fin), UNCHANGED <<events, open>>
    PROVE  Nested(fin)' /\ CompletedStarts' = CompletedStarts /\ Finishes' = Finishes
<1>1. CompletedStarts' = CompletedStarts /\ Finishes' = Finishes
  BY DEF CompletedStarts, Finishes, TOMBSTONE
<1> QED
  BY <1>1 DEF Nested, TOMBSTONE

(* After the parse every Start left in the list is that of a completed node. *)
LEMMA StartsCompleted ==
    ASSUME PipelineInv, ReadInv, phase = "resolve", NEW fin, Nested(fin), open = <<>>,
           NEW t \in DOMAIN work, work[t].tag = "Start"
    PROVE  /\ work[t] = events[t] /\ work[t].kind # TOMBSTONE /\ t \in CompletedStarts
           /\ fin[t] \in Nat /\ t < fin[t] /\ t \in Nat /\ t >= at
<1>1. work[t] = events[t]
  BY DEF ReadInv, Consumption, TombstoneEvent
<1>2. /\ events \in Seq(Event) /\ work \in Seq(Event) /\ Len(events) \in Nat /\ DOMAIN events = 1..Len(events)
      /\ DOMAIN work = 1..Len(work) /\ Len(work) = Len(events) /\ at \in Nat
  BY DEF PipelineInv, ParserInv, ParserTypeOK, ResolverInv, ReadInv, Consumption
<1>3. t \in DOMAIN events /\ t \in Nat
  BY <1>2
<1>4. work[t].kind # TOMBSTONE
  <2>1. DOMAIN open = {}
    OBVIOUS
  <2> QED
    BY <1>1, <1>3, <2>1 DEF Nested
<1>5. t \in CompletedStarts
  BY <1>1, <1>3, <1>4 DEF CompletedStarts
<1>6. fin[t] \in Finishes /\ t < fin[t]
  BY <1>5 DEF Nested, Matching
<1>7. fin[t] \in Nat
  BY <1>2, <1>6 DEF Finishes
<1>8. ~(t < at)
  BY DEF PipelineInv, ResolverInv
<1> QED
  BY <1>1, <1>2, <1>3, <1>4, <1>5, <1>6, <1>7, <1>8

LEMMA NestChain ==
    ASSUME PipelineInv, ReadInv, NestInv, ResolveStart \/ ResolveFollow PROVE NestInv'
<1>1. /\ phase = "resolve" /\ phase' = "resolve" /\ UNCHANGED <<events, open, at, resolved, depth, roots>>
  BY DEF ResolveStart, ResolveFollow, Resolving, parserVars, buildVars
<1>2. PICK t \in DOMAIN work : /\ work[t].tag = "Start" /\ work' = [work EXCEPT ![t] = TombstoneEvent]
                               /\ chain' = Append(chain, work[t].kind) /\ panic' = "none"
  <2>1. CASE ResolveStart
    <3>1. at \in DOMAIN work
      BY <2>1 DEF ResolveStart, PipelineInv, ResolverInv
    <3>2. Append(<<>>, work[at].kind) = <<work[at].kind>>
      OBVIOUS
    <3> QED
      BY <2>1, <3>1, <3>2 DEF ResolveStart, NestInv
  <2>2. CASE ResolveFollow
    <3>1. follow \in DOMAIN work /\ work[follow].tag = "Start"
      BY <2>2 DEF ResolveFollow, PipelineInv, ResolverInv
    <3> QED
      BY <2>2, <3>1 DEF ResolveFollow, NestInv
  <2> QED
    BY <2>1, <2>2
<1>3. PICK fin, d : Nested(fin) /\ ResolvedNest(fin, d)
  BY <1>1 DEF NestInv
<1>4. open = <<>> /\ events # <<>>
  BY <1>1 DEF NestInv
<1>5. /\ work[t].kind # TOMBSTONE /\ t \in CompletedStarts
      /\ fin[t] \in Nat /\ t < fin[t] /\ t \in Nat /\ t >= at /\ at \in Nat
  BY <1>1, <1>2, <1>3, <1>4, StartsCompleted DEF PipelineInv, ResolverInv
<1>6. Nested(fin)' /\ CompletedStarts' = CompletedStarts
  BY <1>1, <1>3, NestedKept
<1>7. /\ work \in Seq(Event) /\ DOMAIN work' = DOMAIN work /\ Len(work') = Len(work) /\ work'[t].tag # "Start"
      /\ \A j \in DOMAIN work : j # t => work'[j] = work[j]
  <2>1. work \in Seq(Event) /\ TombstoneEvent.tag # "Start"
    BY DEF PipelineInv, ResolverInv, TombstoneEvent
  <2> QED
    BY <1>2, <2>1
<1>8. PICK S : S = OpenNodes(fin)
  OBVIOUS
<1>9. CompletedStarts \subseteq DOMAIN work
  <2>1. DOMAIN work = DOMAIN events
    BY <1>1, <1>7 DEF ReadInv, Consumption, PipelineInv, ParserInv, ParserTypeOK
  <2> QED
    BY <2>1 DEF CompletedStarts
<1>10. OpenNodes(fin)' = S \cup {t} /\ t \notin S
  <2>1. OpenNodes(fin)' = {s \in CompletedStarts' : work'[s].tag # "Start" /\ fin[s] >= at'}
    BY DEF OpenNodes
  <2>2. t \notin S
    BY <1>2, <1>8 DEF OpenNodes
  <2>3. fin[t] >= at
    BY <1>5
  <2>4. \A s \in CompletedStarts : s # t => work'[s] = work[s]
    BY <1>7, <1>9
  <2>5. \A s : s \in OpenNodes(fin)' <=> s \in S \cup {t}
    BY <1>1, <1>5, <1>6, <1>7, <1>8, <2>1, <2>3, <2>4 DEF OpenNodes
  <2> QED
    BY <2>2, <2>5
<1>11. Cardinality(S \cup {t}) = Cardinality(S) + 1 /\ Cardinality(S) \in Nat
  BY <1>8, <1>10, OpenFinite, FS_AddElement
<1>12. chain \in Seq(EventKinds) /\ work[t].kind \in EventKinds /\ Len(chain) \in Nat
  <2>1. work[t] \in Event
    BY <1>7, ElementOfSeq
  <2> QED
    BY <2>1 DEF ReadInv, Event
<1>13. /\ Len(chain') = Len(chain) + 1 /\ DOMAIN chain' = 1..(Len(chain) + 1) /\ chain' # <<>>
       /\ chain'[Len(chain) + 1] = work[t].kind /\ \A i \in 1..Len(chain) : chain'[i] = chain[i]
  BY <1>2, <1>12
<1>14. \A i \in DOMAIN chain' : chain'[i] # TOMBSTONE
  BY <1>3, <1>5, <1>12, <1>13 DEF ResolvedNest
<1>15. d[Len(resolved)] \in Int /\ Len(resolved) \in Nat
  <2>1. Len(resolved) \in Nat
    BY DEF ReadInv
  <2>2. Len(resolved) \in 0..Len(resolved)
    BY <2>1
  <2> QED
    BY <1>3, <2>1, <2>2 DEF ResolvedNest, IsBalance
<1>16. d[Len(resolved)] + Len(chain') = Cardinality(OpenNodes(fin)')
  <2>1. d[Len(resolved)] + Len(chain) = Cardinality(S)
    BY <1>3, <1>8 DEF ResolvedNest
  <2> QED
    BY <1>10, <1>11, <1>12, <1>13, <1>15, <2>1
<1>17. ResolvedNest(fin, d)'
  BY <1>1, <1>3, <1>7, <1>13, <1>14, <1>16 DEF ResolvedNest, TOMBSTONE
<1> QED
  BY <1>1, <1>2, <1>4, <1>6, <1>17 DEF NestInv

(* A chain of completed nodes is emitted whole. *)
LEMMA EmittedWhole ==
    ASSUME NEW S, NEW ch \in Seq(S), \A i \in DOMAIN ch : ch[i] # TOMBSTONE
    PROVE  Len(Committed(Reverse(ch))) = Len(ch)
<1>1. PICK r : r = Reverse(ch)
  OBVIOUS
<1>2. Len(ch) \in Nat /\ DOMAIN ch = 1..Len(ch) /\ r = [i \in 1..Len(ch) |-> ch[(Len(ch) - i) + 1]]
  BY <1>1 DEF Reverse
<1>3. \A i \in 1..Len(ch) : (Len(ch) - i) + 1 \in 1..Len(ch)
  BY <1>2
<1>4. \A i \in 1..Len(ch) : r[i] \in S /\ r[i] # TOMBSTONE
  BY <1>2, <1>3
<1>5. r \in [1..Len(ch) -> S]
  BY <1>2, <1>4
<1>6. r \in Seq(S) /\ Len(r) = Len(ch)
  BY <1>2, <1>5, IsASeq
<1>7. DOMAIN r \subseteq {i \in DOMAIN r : r[i] # TOMBSTONE}
  BY <1>2, <1>4
<1>8. Committed(r) = r
  BY <1>6, <1>7, KeptAll DEF Committed
<1> QED
  BY <1>1, <1>6, <1>8

LEMMA NestEmit ==
    ASSUME PipelineInv, ReadInv, NestInv, ResolveEmit PROVE NestInv'
<1>1. /\ phase = "resolve" /\ phase' = "resolve" /\ UNCHANGED <<events, open, work, panic, depth, roots>>
      /\ chain # <<>> /\ chain' = <<>> /\ at' = at + 1
  BY DEF ResolveEmit, Resolving, parserVars, buildVars
<1>2. PICK fin, d : Nested(fin) /\ ResolvedNest(fin, d)
  BY <1>1 DEF NestInv
<1>3. chain \in Seq(EventKinds) /\ Len(chain) \in Nat /\ Len(chain) >= 1 /\ resolved \in Seq(Event) /\ Len(resolved) \in Nat
  BY <1>1 DEF ReadInv
<1>4. PICK st : /\ resolved' = resolved \o st /\ Len(st) = Len(chain)
                /\ st \in Seq([tag : {"Start"}, kind : EventKinds, forward_parent : {0}])
  <2>1. Len(Committed(Reverse(chain))) = Len(chain)
    BY <1>2, <1>3, EmittedWhole DEF ResolvedNest
  <2> QED
    BY <1>3, <2>1, EmittedStarts DEF ResolveEmit
<1>5. PICK m, n : m = Len(chain) /\ n = Len(resolved)
  OBVIOUS
<1>6. /\ Len(resolved') = n + m /\ resolved' # <<>>
      /\ \A i \in 1..n : resolved'[i] = resolved[i]
      /\ \A i \in 1..m : resolved'[n + i].tag = "Start"
  <2>1. [tag : {"Start"}, kind : EventKinds, forward_parent : {0}] \subseteq Event
    BY DEF Event, EventTags
  <2>2. st \in Seq(Event)
    BY <1>4, <2>1, SeqMonotonic
  <2>3. ASSUME NEW i \in 1..m PROVE st[i].tag = "Start"
    <3>1. i \in 1..Len(st)
      BY <1>4, <1>5
    <3>2. st[i] \in [tag : {"Start"}, kind : EventKinds, forward_parent : {0}]
      BY <1>4, <3>1, ElementOfSeq
    <3> QED
      BY <3>2
  <2>4. /\ Len(resolved') = n + m
        /\ \A i \in 1..n : resolved'[i] = resolved[i]
        /\ \A i \in 1..m : resolved'[n + i] = st[i]
    <3>1. /\ Len(resolved \o st) = Len(resolved) + Len(st)
          /\ \A i \in 1..(Len(resolved) + Len(st)) :
                (resolved \o st)[i] = IF i <= Len(resolved) THEN resolved[i] ELSE st[i - Len(resolved)]
      BY <1>3, <2>2, ConcatProperties
    <3>2. PICK b : b = resolved'
      OBVIOUS
    <3>3. Len(b) = n + m /\ \A i \in 1..(n + m) : b[i] = IF i <= n THEN resolved[i] ELSE st[i - n]
      BY <1>4, <1>5, <3>1, <3>2
    <3>4. n \in Nat /\ m \in Nat
      BY <1>3, <1>5
    <3>5. ASSUME NEW i \in 1..m PROVE b[n + i] = st[i]
      <4>1. n + i \in 1..(n + m) /\ ~(n + i <= n) /\ (n + i) - n = i
        BY <3>4
      <4> QED
        BY <3>3, <4>1
    <3>6. ASSUME NEW i \in 1..n PROVE b[i] = resolved[i]
      <4>1. i \in 1..(n + m) /\ i <= n
        BY <3>4
      <4> QED
        BY <3>3, <4>1
    <3> QED
      BY <3>2, <3>3, <3>5, <3>6
  <2>5. Len(resolved') # 0
    BY <1>3, <1>5, <2>4
  <2>6. resolved' # <<>>
    BY <2>5
  <2>7. ASSUME NEW i \in 1..m PROVE resolved'[n + i].tag = "Start"
    <3>1. resolved'[n + i] = st[i]
      BY <2>4
    <3> QED
      BY <2>3, <3>1
  <2> QED
    BY <2>4, <2>6, <2>7
<1>7. m \in Nat /\ n \in Nat /\ m >= 1 /\ at \in Nat \ {0} /\ at <= Len(work) /\ Len(work) \in Nat
  BY <1>1, <1>3, <1>5 DEF ReadInv, Consumption, PipelineInv, ResolverInv
<1>8. PICK g : /\ IsBalance(resolved', n + m, g) /\ \A i \in 0..n : g[i] = d[i]
               /\ \A i \in 1..m : g[n + i] = d[n] + i
  <2>1. IsBalance(resolved, n, d)
    BY <1>2, <1>5 DEF ResolvedNest
  <2>2. PICK b : b = resolved'
    OBVIOUS
  <2>3. Prefix(resolved, n, b) /\ StartsFrom(b, n, m)
    BY <1>6, <2>2 DEF Prefix, StartsFrom
  <2>4. \E g : IsBalance(b, n + m, g) /\ Deepens(d, n, m, g)
    BY <1>7, <2>1, <2>3, BalanceStarts
  <2> QED
    BY <2>2, <2>4 DEF Deepens
<1>9. d[n] \in Int /\ d[n] >= 0 /\ \A i \in 1..n : d[i] >= 1
  <2>1. d \in [0..n -> Int] /\ d[0] = 0
    BY <1>2, <1>5 DEF ResolvedNest, IsBalance
  <2>2. \A i \in 1..n : d[i] >= 1
    BY <1>2, <1>5, <1>7 DEF ResolvedNest
  <2>3. n = 0 \/ n \in 1..n
    BY <1>7
  <2> QED
    BY <1>7, <2>1, <2>2, <2>3
<1>10. ASSUME NEW i \in 1..(n + m) PROVE g[i] >= 1
  <2>1. CASE i <= n
    <3>1. i \in 1..n /\ i \in 0..n
      BY <1>7, <2>1
    <3> QED
      BY <1>8, <1>9, <3>1
  <2>2. CASE i > n
    <3>1. i - n \in 1..m /\ n + (i - n) = i
      BY <1>7, <2>2
    <3>2. g[i] = d[n] + (i - n)
      BY <1>8, <3>1
    <3> QED
      BY <1>9, <3>1, <3>2
  <2> QED
    BY <1>7, <2>1, <2>2
<1>11. Nested(fin)' /\ CompletedStarts' = CompletedStarts /\ Finishes' = Finishes
  BY <1>1, <1>2, NestedKept
<1>12. OpenNodes(fin)' = OpenNodes(fin)
  <2>1. OpenNodes(fin)' = {s \in CompletedStarts' : work'[s].tag # "Start" /\ fin[s] >= at'}
    BY DEF OpenNodes
  <2>2. ASSUME NEW s \in CompletedStarts PROVE fin[s] >= at <=> fin[s] >= at + 1
    <3>1. fin[s] \in Finishes
      BY <1>2 DEF Nested, Matching
    <3>2. fin[s] # at
      BY <1>1, <3>1 DEF Finishes, ReadInv, Consumption
    <3>3. fin[s] \in Nat
      BY <3>1 DEF Finishes, PipelineInv, ParserInv, ParserTypeOK
    <3> QED
      BY <1>7, <3>2, <3>3
  <2> QED
    BY <1>1, <1>11, <2>1, <2>2 DEF OpenNodes
<1>13. g[n + m] + 0 = Cardinality(OpenNodes(fin)')
  <2>1. g[n + m] = d[n] + m
    BY <1>7, <1>8
  <2>2. d[n] + m = Cardinality(OpenNodes(fin))
    BY <1>2, <1>5 DEF ResolvedNest
  <2> QED
    BY <1>7, <1>9, <1>12, <2>1, <2>2
<1>14. resolved'[1].tag = "Start"
  <2>1. CASE n = 0
    <3>1. 1 \in 1..m /\ n + 1 = 1
      BY <1>7, <2>1
    <3> QED
      BY <1>6, <3>1
  <2>2. CASE n # 0
    <3>1. 1 \in 1..n /\ resolved # <<>>
      BY <1>5, <1>7, <2>2
    <3> QED
      BY <1>2, <1>6, <3>1 DEF ResolvedNest
  <2> QED
    BY <2>1, <2>2
<1>15. ResolvedNest(fin, g)'
  <2>1. Len(chain') = 0 /\ DOMAIN chain' = {} /\ at' # 1
    BY <1>1, <1>7
  <2>2. IsBalance(resolved, Len(resolved), g)'
    BY <1>6, <1>8 DEF IsBalance, Delta
  <2> QED
    BY <1>6, <1>10, <1>13, <1>14, <2>1, <2>2 DEF ResolvedNest
<1>16. panic = "none" /\ open = <<>> /\ events # <<>> /\ depth = 0 /\ roots = 0
  BY <1>1 DEF NestInv
<1> QED
  BY <1>1, <1>11, <1>15, <1>16 DEF NestInv

(* Where the resolver is when it meets something else than a chain. *)
LEMMA OtherPlace ==
    ASSUME PipelineInv, ReadInv, NestInv, ResolveOther
    PROVE  /\ phase = "resolve" /\ phase' = "resolve" /\ UNCHANGED <<events, open, panic, depth, roots>>
           /\ chain = <<>> /\ chain' = <<>> /\ at' = at + 1
           /\ at \in Nat /\ Len(work) \in Nat /\ at <= Len(work) /\ Len(work') = Len(work) /\ Len(work) = Len(events)
           /\ DOMAIN work = DOMAIN events /\ DOMAIN events = 1..Len(events) /\ at \in DOMAIN work
           /\ work[at].tag # "Start" /\ work'[at].tag # "Start" /\ (\A j \in DOMAIN work : j # at => work'[j] = work[j])
           /\ work[at] = events[at] \/ (work[at].tag = "Tombstone" /\ events[at].tag = "Start")
           /\ open = <<>> /\ events # <<>> /\ panic = "none" /\ depth = 0 /\ roots = 0
<1>1. /\ phase = "resolve" /\ phase' = "resolve" /\ UNCHANGED <<events, open, panic, depth, roots>>
      /\ chain = <<>> /\ chain' = <<>> /\ at' = at + 1
      /\ at <= Len(work) /\ work[at].tag # "Start" /\ work' = [work EXCEPT ![at] = TombstoneEvent]
  BY DEF ResolveOther, Resolving, parserVars, buildVars
<1>2. Consumption /\ at \in Nat \ {0} /\ work \in Seq(Event) /\ Len(work) \in Nat /\ DOMAIN work = 1..Len(work)
  BY <1>1 DEF ReadInv, PipelineInv, ResolverInv
<1>3. events \in Seq(Event) /\ DOMAIN events = 1..Len(events) /\ Len(work) = Len(events) /\ at \in DOMAIN work
  BY <1>1, <1>2 DEF PipelineInv, ParserInv, ParserTypeOK, Consumption
<1>4. Len(work') = Len(work) /\ work'[at] = TombstoneEvent /\ \A j \in DOMAIN work : j # at => work'[j] = work[j]
  BY <1>1, <1>2, <1>3
<1>5. TombstoneEvent.tag = "Tombstone"
  BY DEF TombstoneEvent
<1>6. work[at] = events[at] \/ (work[at].tag = "Tombstone" /\ events[at].tag = "Start")
  BY <1>2, <1>3, <1>5 DEF Consumption
<1>7. open = <<>> /\ events # <<>> /\ panic = "none" /\ depth = 0 /\ roots = 0
  BY <1>1 DEF NestInv
<1> QED
  BY <1>1, <1>2, <1>3, <1>4, <1>5, <1>6, <1>7

(* The nodes left open when the resolver passes such an event. *)
LEMMA OpenAfterOther ==
    ASSUME PipelineInv, ReadInv, NestInv, ResolveOther, NEW fin, Nested(fin)
    PROVE  /\ OpenNodes(fin)' = {s \in OpenNodes(fin) : fin[s] >= at + 1}
           /\ events[at].tag # "Finish" => OpenNodes(fin)' = OpenNodes(fin)
           /\ events[at].tag = "Finish" => \E c \in OpenNodes(fin) : OpenNodes(fin)' = OpenNodes(fin) \ {c}
<1>1. /\ phase = "resolve" /\ UNCHANGED <<events, open>> /\ at' = at + 1 /\ at \in Nat
      /\ DOMAIN work = DOMAIN events /\ DOMAIN events = 1..Len(events) /\ at \in DOMAIN work /\ Len(events) \in Nat
      /\ work[at].tag # "Start" /\ work'[at].tag # "Start" /\ (\A j \in DOMAIN work : j # at => work'[j] = work[j])
  BY OtherPlace
<1>2. CompletedStarts' = CompletedStarts /\ CompletedStarts \subseteq DOMAIN work
  BY <1>1, NestedKept DEF CompletedStarts
<1>3. \A s \in CompletedStarts : work'[s].tag # "Start" <=> work[s].tag # "Start"
  BY <1>1, <1>2
<1>4. \A s \in CompletedStarts : fin[s] \in Finishes /\ fin[s] \in Nat /\ s \in Nat /\ s < fin[s]
  BY <1>1, <1>2 DEF Nested, Matching, Finishes
<1>5. OpenNodes(fin)' = {s \in OpenNodes(fin) : fin[s] >= at + 1}
  <2>1. OpenNodes(fin)' = {s \in CompletedStarts' : work'[s].tag # "Start" /\ fin[s] >= at'}
    BY DEF OpenNodes
  <2>2. \A s \in CompletedStarts : fin[s] >= at + 1 => fin[s] >= at
    BY <1>1, <1>4
  <2>3. \A s : s \in OpenNodes(fin)' <=> s \in {c \in OpenNodes(fin) : fin[c] >= at + 1}
    BY <1>1, <1>2, <1>3, <2>1, <2>2 DEF OpenNodes
  <2> QED
    BY <2>3
<1>6. ASSUME events[at].tag # "Finish" PROVE OpenNodes(fin)' = OpenNodes(fin)
  <2>1. ASSUME NEW s \in OpenNodes(fin) PROVE fin[s] >= at + 1
    <3>1. s \in CompletedStarts /\ fin[s] >= at
      BY DEF OpenNodes
    <3>2. fin[s] # at
      BY <1>4, <1>6, <3>1 DEF Finishes
    <3> QED
      BY <1>1, <1>4, <3>1, <3>2
  <2> QED
    BY <1>5, <2>1
<1>7. ASSUME events[at].tag = "Finish" PROVE \E c \in OpenNodes(fin) : OpenNodes(fin)' = OpenNodes(fin) \ {c}
  <2>1. PICK c \in CompletedStarts : fin[c] = at
    <3>1. at \in Finishes
      BY <1>1, <1>7 DEF Finishes
    <3> QED
      BY <3>1 DEF Nested, Matching
  <2>2. c < at /\ c \in DOMAIN work /\ fin[c] >= at
    BY <1>1, <1>2, <1>4, <2>1
  <2>3. work[c].tag # "Start"
    BY <2>2 DEF PipelineInv, ResolverInv
  <2>4. c \in OpenNodes(fin)
    BY <2>1, <2>2, <2>3 DEF OpenNodes
  <2>5. ASSUME NEW s \in OpenNodes(fin) PROVE fin[s] >= at + 1 <=> s # c
    <3>1. s \in CompletedStarts /\ fin[s] >= at
      BY DEF OpenNodes
    <3>2. fin[s] = at => s = c
      BY <2>1, <3>1 DEF Nested, Matching
    <3> QED
      BY <1>1, <1>4, <2>1, <3>1, <3>2
  <2>6. OpenNodes(fin)' = OpenNodes(fin) \ {c}
    BY <1>5, <2>5
  <2> QED
    BY <2>4, <2>6
<1> QED
  BY <1>5, <1>6, <1>7

(* Until the resolver reaches its end, the root is open. *)
LEMMA OpenRoot ==
    ASSUME PipelineInv, ReadInv, NestInv, ResolveOther, NEW fin, NEW d, Nested(fin), ResolvedNest(fin, d)
    PROVE  /\ at > 1 /\ resolved # <<>>
           /\ 1 \in OpenNodes(fin)
           /\ at < Len(work) => 1 \in OpenNodes(fin)'
<1>1. /\ phase = "resolve" /\ UNCHANGED <<events, open>> /\ at' = at + 1 /\ at \in Nat /\ chain = <<>>
      /\ Len(work) \in Nat /\ at <= Len(work) /\ DOMAIN work = 1..Len(work) /\ Len(work) = Len(events) /\ at \in DOMAIN work
      /\ work[at].tag # "Start" /\ open = <<>> /\ events # <<>>
  BY OtherPlace
<1>2. 1 \in CompletedStarts /\ fin[1] = Len(events)
  BY <1>1 DEF Nested
<1>3. at > 1
  <2>1. at = 1 => work = events
    BY <1>1 DEF ResolvedNest
  <2> QED
    BY <1>1, <1>2, <2>1 DEF CompletedStarts
<1>4. 1 \in DOMAIN work /\ 1 < at
  BY <1>1, <1>3
<1>5. work[1].tag # "Start"
  BY <1>4 DEF PipelineInv, ResolverInv
<1>6. 1 \in OpenNodes(fin)
  BY <1>1, <1>2, <1>5 DEF OpenNodes
<1>7. OpenNodes(fin)' = {s \in OpenNodes(fin) : fin[s] >= at + 1}
  BY OpenAfterOther
<1>8. at < Len(work) => fin[1] >= at + 1
  BY <1>1, <1>2
<1> QED
  BY <1>3, <1>6, <1>7, <1>8 DEF ResolvedNest

LEMMA NestOther ==
    ASSUME PipelineInv, ReadInv, NestInv, ResolveOther PROVE NestInv'
<1>1. /\ phase = "resolve" /\ phase' = "resolve" /\ UNCHANGED <<events, open, panic, depth, roots>>
      /\ chain = <<>> /\ chain' = <<>> /\ at' = at + 1
      /\ at \in Nat /\ Len(work) \in Nat /\ at <= Len(work) /\ Len(work') = Len(work)
      /\ work[at] = events[at] \/ (work[at].tag = "Tombstone" /\ events[at].tag = "Start")
      /\ open = <<>> /\ events # <<>> /\ panic = "none" /\ depth = 0 /\ roots = 0
  BY OtherPlace
<1>2. PICK fin, d : Nested(fin) /\ ResolvedNest(fin, d)
  BY <1>1 DEF NestInv
<1>3. at > 1 /\ resolved # <<>> /\ (at < Len(work) => 1 \in OpenNodes(fin)')
  BY <1>2, OpenRoot
<1>4. PICK S, T : S = OpenNodes(fin) /\ T = OpenNodes(fin)'
  OBVIOUS
<1>5. /\ events[at].tag # "Finish" => T = S
      /\ events[at].tag = "Finish" => \E c \in S : T = S \ {c}
  BY <1>2, <1>4, OpenAfterOther
<1>6. IsFiniteSet(S) /\ Cardinality(S) \in Nat
  BY <1>4, OpenFinite
<1>7. /\ IsFiniteSet(T) /\ Cardinality(T) \in Nat
      /\ Cardinality(T) = IF events[at].tag = "Finish" THEN Cardinality(S) - 1 ELSE Cardinality(S)
  <2>1. CASE events[at].tag = "Finish"
    <3>1. PICK c \in S : T = S \ {c}
      BY <1>5, <2>1
    <3>2. IsFiniteSet(T) /\ Cardinality(T) = Cardinality(S) - 1
      BY <1>6, <3>1, FS_RemoveElement
    <3>3. Cardinality(T) \in Nat
      BY <3>2, FS_CardinalityType
    <3> QED
      BY <2>1, <3>2, <3>3
  <2>2. CASE events[at].tag # "Finish"
    BY <1>5, <1>6, <2>2
  <2> QED
    BY <2>1, <2>2
<1>8. at < Len(work) => Cardinality(T) >= 1
  <2>1. ASSUME at < Len(work) PROVE Cardinality(T) >= 1
    <3>1. T # {}
      BY <1>3, <1>4, <2>1
    <3>2. Cardinality(T) # 0
      BY <1>7, <3>1, FS_EmptySet
    <3>3. Cardinality(T) \in Nat
      BY <1>7
    <3> QED
      BY ONLY <3>2, <3>3
  <2> QED
    BY <2>1
<1>9. Nested(fin)'
  BY <1>1, <1>2, NestedKept
<1>10. PICK n : n = Len(resolved)
  OBVIOUS
<1>11. n \in Nat /\ n >= 1 /\ resolved \in Seq(Event)
  BY <1>3, <1>10 DEF ReadInv
<1>12. /\ IsBalance(resolved, n, d) /\ d[n] + Len(chain) = Cardinality(S)
       /\ (\A i \in 1..n : d[i] >= 1 \/ (i = n /\ at = Len(work) + 1))
       /\ resolved[1].tag = "Start"
  BY <1>2, <1>3, <1>4, <1>10 DEF ResolvedNest
<1>13. \A i \in 1..n : d[i] >= 1
  BY <1>1, <1>12
<1>14. d[n] = Cardinality(S)
  <2>1. Len(chain) = 0
    BY <1>1
  <2>2. d[n] \in Int
    BY <1>11, <1>12 DEF IsBalance
  <2> QED
    BY <1>12, <2>1, <2>2
<1>15. ASSUME NEW r \in Seq(Event), r = resolved', NEW k \in Nat, k = Len(r), k >= 1, r[1].tag = "Start",
              NEW g, IsBalance(r, k, g), g[k] = Cardinality(T), \A i \in 1..k : i = k \/ g[i] >= 1
       PROVE  NestInv'
  <2>1. \A i \in 1..k : g[i] >= 1 \/ (i = k /\ at + 1 = Len(work) + 1)
    <3>1. at < Len(work) \/ at + 1 = Len(work) + 1
      BY <1>1
    <3> QED
      BY <1>8, <1>15, <3>1
  <2>2. Len(<<>>) = 0 /\ DOMAIN <<>> = {} /\ at + 1 # 1 /\ r # <<>> /\ g[k] + 0 = Cardinality(T)
    <3>1. r # <<>>
      BY <1>15
    <3>2. Cardinality(T) + 0 = Cardinality(T) /\ at + 1 # 1
      BY <1>1, <1>3, <1>7
    <3> QED
      BY <1>15, <3>1, <3>2
  <2>3. IsBalance(resolved, Len(resolved), g)'
    BY <1>15 DEF IsBalance, Delta
  <2>4. ResolvedNest(fin, g)'
    <3>1. /\ resolved' = r /\ Len(resolved') = k /\ chain' = <<>> /\ at' = at + 1 /\ Len(work') = Len(work)
          /\ Cardinality(OpenNodes(fin)') = Cardinality(T)
      BY <1>1, <1>4, <1>15
    <3>2. g[Len(resolved')] + Len(chain') = Cardinality(OpenNodes(fin)')
      BY <1>15, <2>2, <3>1
    <3>3. \A i \in 1..Len(resolved') : g[i] >= 1 \/ (i = Len(resolved') /\ at' = Len(work') + 1)
      BY <2>1, <3>1
    <3>4. (\A i \in DOMAIN chain' : chain'[i] # TOMBSTONE) /\ at' # 1 /\ resolved' # <<>> /\ resolved'[1].tag = "Start"
      BY <1>15, <2>2, <3>1
    <3> QED
      BY <2>3, <3>2, <3>3, <3>4 DEF ResolvedNest, TOMBSTONE
  <2> QED
    BY <1>1, <1>9, <2>4 DEF NestInv
<1>16. CASE work[at].tag = "Tombstone"
  <2>1. resolved' = resolved
    BY <1>16 DEF ResolveOther
  <2>2. events[at].tag # "Finish"
    BY <1>1, <1>16
  <2>3. d[n] = Cardinality(T)
    BY <1>7, <1>14, <2>2
  <2> QED
    BY <1>10, <1>11, <1>12, <1>13, <1>15, <2>1, <2>3
<1>17. CASE work[at].tag # "Tombstone"
  <2>1. resolved' = Append(resolved, work[at]) /\ work[at] = events[at] /\ events[at].tag # "Start"
    BY <1>1, <1>17 DEF ResolveOther
  <2>2. PICK r : r = resolved'
    OBVIOUS
  <2>3. work[at] \in Event
    <3>1. work \in Seq(Event) /\ at \in 1..Len(work)
      BY <1>1, <1>3 DEF PipelineInv, ResolverInv
    <3> QED
      BY <3>1, ElementOfSeq
  <2>4. r \in Seq(Event) /\ Len(r) = n + 1 /\ r[n + 1] = events[at] /\ Prefix(resolved, n, r)
    BY <1>10, <1>11, <2>1, <2>2, <2>3 DEF Prefix
  <2>5. PICK g : /\ IsBalance(r, n + 1, g) /\ \A i \in 0..n : g[i] = d[i]
                 /\ g[n + 1] = d[n] + Delta(r[n + 1].tag)
    BY <1>11, <1>12, <2>4, BalanceOne
  <2>6. Delta(r[n + 1].tag) = IF events[at].tag = "Finish" THEN -1 ELSE 0
    BY <2>1, <2>4 DEF Delta
  <2>7. g[n + 1] = Cardinality(T)
    BY <1>6, <1>7, <1>14, <2>5, <2>6
  <2>8. \A i \in 1..(n + 1) : i = n + 1 \/ g[i] >= 1
    BY <1>11, <1>13, <2>5
  <2>9. r[1].tag = "Start"
    BY <1>11, <1>12, <2>4 DEF Prefix
  <2>10. n + 1 \in Nat /\ n + 1 >= 1
    BY <1>11
  <2> QED
    BY <1>15, <2>2, <2>4, <2>5, <2>7, <2>8, <2>9, <2>10
<1> QED
  BY <1>16, <1>17

(* At its end the resolver has closed every node it opened. *)
LEMMA NestDone ==
    ASSUME PipelineInv, ReadInv, NestInv, ResolveDone PROVE NestInv'
<1>1. /\ phase = "resolve" /\ phase' = "build" /\ chain = <<>> /\ at > Len(work)
      /\ UNCHANGED <<events, open, panic, depth, roots, resolved, next>>
  BY DEF ResolveDone, Resolving, parserVars, buildVars, resolveVars
<1>2. PICK fin, d : Nested(fin) /\ ResolvedNest(fin, d)
  BY <1>1 DEF NestInv
<1>3. /\ Len(work) = Len(events) /\ at \in Nat /\ Len(work) \in Nat /\ next = 1 /\ DOMAIN events = 1..Len(events)
  BY <1>1 DEF ReadInv, Consumption, PipelineInv, ResolverInv, ParserInv, ParserTypeOK
<1>4. open = <<>> /\ events # <<>> /\ panic = "none" /\ depth = 0 /\ roots = 0 /\ Len(events) # 0
  <2>1. events \in Seq(Event)
    BY DEF PipelineInv, ParserInv, ParserTypeOK
  <2> QED
    BY <1>1, <2>1 DEF NestInv
<1>5. OpenNodes(fin) = {}
  <2>1. ASSUME NEW s \in OpenNodes(fin) PROVE FALSE
    <3>1. fin[s] \in Finishes /\ fin[s] >= at
      BY <1>2 DEF OpenNodes, Nested, Matching
    <3> QED
      BY <1>1, <1>3, <3>1 DEF Finishes
  <2> QED
    BY <2>1
<1>6. PICK n : n = Len(resolved)
  OBVIOUS
<1>7. n \in Nat /\ resolved # <<>> /\ n >= 1
  <2>1. at > 1
    BY <1>1, <1>3, <1>4
  <2> QED
    BY <1>2, <1>6, <2>1 DEF ReadInv, ResolvedNest
<1>8. IsBalance(resolved, n, d) /\ resolved[1].tag = "Start" /\ d[0] = 0 /\ d[n] \in Int
  BY <1>2, <1>6, <1>7 DEF ResolvedNest, IsBalance
<1>9. d[n] = 0
  <2>1. d[n] + Len(chain) = Cardinality({})
    BY <1>2, <1>5, <1>6 DEF ResolvedNest
  <2>2. Len(chain) = 0
    BY <1>1
  <2> QED
    BY <1>8, <2>1, <2>2, FS_EmptySet
<1>10. \A i \in 1..(n - 1) : d[i] >= 1
  <2>1. \A i \in 1..n : d[i] >= 1 \/ i = n
    BY <1>2, <1>6 DEF ResolvedNest
  <2> QED
    BY <1>7, <2>1
<1>11. 1 - 1 = 0 /\ 0 # n
  BY <1>7
<1>12. IsBalance(resolved, Len(resolved), d)'
  BY <1>1, <1>6, <1>8 DEF IsBalance, Delta
<1>13. BuiltNest(d)'
  BY <1>1, <1>3, <1>4, <1>6, <1>7, <1>8, <1>9, <1>10, <1>11, <1>12 DEF BuiltNest
<1>14. Nested(fin)'
  BY <1>1, <1>2, NestedKept
<1> QED
  BY <1>1, <1>4, <1>13, <1>14 DEF NestInv

(* The builder's next event: the depth before it is that of the events read. *)
LEMMA BuildPlace ==
    ASSUME ReadInv, NestInv, BuildStart \/ BuildToken \/ BuildFinish \/ BuildError,
           NEW d, BuiltNest(d)
    PROVE  /\ phase' = "build" /\ UNCHANGED <<events, open, resolved>> /\ next' = next + 1
           /\ next \in Nat \ {0} /\ Len(resolved) \in Nat /\ next <= Len(resolved)
           /\ depth \in Nat /\ roots = 0 /\ (depth = 0 <=> next = 1)
           /\ d[next] = depth + Delta(resolved[next].tag)
           /\ d[next] = 0 <=> next = Len(resolved)
           /\ resolved[1].tag = "Start" /\ panic = "none" /\ d[next] >= 0
<1>1. Building
  BY DEF BuildStart, BuildToken, BuildFinish, BuildError
<1>2. phase' = "build" /\ UNCHANGED <<events, open, resolved>> /\ next' = next + 1 /\ next <= Len(resolved) /\ panic = "none"
  BY <1>1 DEF Building, parserVars, resolveVars
<1>3. next \in Nat \ {0} /\ Len(resolved) \in Nat
  BY DEF ReadInv
<1>4. PICK n \in Nat : n = Len(resolved)
  BY <1>3
<1>5. /\ d \in [0..n -> Int] /\ d[0] = 0 /\ (\A i \in 1..n : d[i] = d[i - 1] + Delta(resolved[i].tag))
      /\ n >= 1 /\ resolved[1].tag = "Start" /\ d[n] = 0 /\ (\A i \in 1..(n - 1) : d[i] >= 1)
      /\ depth = d[next - 1] /\ roots = IF next - 1 = n THEN 1 ELSE 0
  BY <1>4 DEF BuiltNest, IsBalance
<1>6. next \in 1..n /\ next - 1 \in 0..n /\ next - 1 # n
  BY <1>2, <1>3, <1>4
<1>7. roots = 0 /\ d[next] = depth + Delta(resolved[next].tag)
  BY <1>5, <1>6
<1>8. depth \in Nat /\ (depth = 0 <=> next = 1)
  <2>1. CASE next = 1
    BY <1>5, <2>1
  <2>2. CASE next # 1
    <3>1. next - 1 \in 1..(n - 1)
      BY <1>6, <2>2
    <3>2. depth \in Int /\ depth >= 1
      BY <1>5, <1>6, <3>1
    <3> QED
      BY <2>2, <3>2
  <2> QED
    BY <2>1, <2>2
<1>9. (d[next] = 0 <=> next = n) /\ d[next] >= 0
  <2>1. CASE next = n
    BY <1>5, <2>1
  <2>2. CASE next # n
    <3>1. next \in 1..(n - 1)
      BY <1>6, <2>2
    <3>2. d[next] \in Int /\ d[next] >= 1
      BY <1>5, <1>6, <3>1
    <3> QED
      BY <2>2, <3>2
  <2> QED
    BY <2>1, <2>2
<1> QED
  BY <1>2, <1>3, <1>4, <1>5, <1>7, <1>8, <1>9

LEMMA NestBuild ==
    ASSUME ReadInv, NestInv, BuildStart \/ BuildToken \/ BuildFinish \/ BuildError PROVE NestInv'
<1>1. phase = "build"
  BY DEF BuildStart, BuildToken, BuildFinish, BuildError, Building
<1>2. PICK fin, d : Nested(fin) /\ BuiltNest(d)
  BY <1>1 DEF NestInv
<1>3. /\ phase' = "build" /\ UNCHANGED <<events, open, resolved>> /\ next' = next + 1
      /\ next \in Nat \ {0} /\ Len(resolved) \in Nat /\ next <= Len(resolved)
      /\ depth \in Nat /\ roots = 0 /\ (depth = 0 <=> next = 1)
      /\ d[next] = depth + Delta(resolved[next].tag)
      /\ (d[next] = 0 <=> next = Len(resolved))
      /\ resolved[1].tag = "Start" /\ panic = "none" /\ d[next] >= 0
  BY <1>2, BuildPlace
<1>4. /\ panic' = "none" /\ depth' = d[next] /\ roots' = IF next = Len(resolved) THEN 1 ELSE 0
  <2>1. CASE BuildStart
    <3>1. /\ depth' = depth + 1 /\ roots' = roots /\ panic' = panic /\ resolved[next].tag = "Start"
      BY <2>1 DEF BuildStart
    <3>2. d[next] = depth + 1 /\ d[next] # 0
      BY <1>3, <3>1 DEF Delta
    <3> QED
      BY <1>3, <3>1, <3>2
  <2>2. CASE BuildToken
    <3>1. /\ depth' = depth /\ panic' = panic /\ resolved[next].tag = "Token" /\ (depth # 0 => roots' = roots)
      BY <2>2 DEF BuildToken
    <3>2. d[next] = depth /\ depth # 0
      BY <1>3, <3>1 DEF Delta
    <3> QED
      BY <1>3, <3>1, <3>2
  <2>3. CASE BuildError
    <3>1. /\ depth' = depth /\ roots' = roots /\ panic' = panic /\ resolved[next].tag = "Error"
      BY <2>3 DEF BuildError
    <3>2. d[next] = depth /\ depth # 0
      BY <1>3, <3>1 DEF Delta
    <3> QED
      BY <1>3, <3>1, <3>2
  <2>4. CASE BuildFinish
    <3>1. resolved[next].tag = "Finish"
      BY <2>4 DEF BuildFinish
    <3>2. d[next] = depth - 1 /\ depth # 0
      BY <1>3, <3>1 DEF Delta
    <3>3. depth' = depth - 1 /\ panic' = panic /\ roots' = IF depth = 1 THEN roots + 1 ELSE roots
      BY <2>4, <3>2 DEF BuildFinish
    <3>4. depth = 1 <=> next = Len(resolved)
      BY <1>3, <3>2
    <3> QED
      BY <1>3, <3>2, <3>3, <3>4
  <2> QED
    BY <2>1, <2>2, <2>3, <2>4
<1>5. next' - 1 = next
  BY <1>3
<1>6. IsBalance(resolved, Len(resolved), d)'
  BY <1>2, <1>3 DEF BuiltNest, IsBalance, Delta
<1>7. BuiltNest(d)'
  BY <1>2, <1>3, <1>4, <1>5, <1>6 DEF BuiltNest
<1>8. Nested(fin)' /\ open = <<>> /\ events # <<>>
  BY <1>1, <1>2, <1>3, NestedKept DEF NestInv
<1> QED
  BY <1>3, <1>4, <1>7, <1>8 DEF NestInv

(* rowan finds the one root it demands. *)
LEMMA NestBuildDone ==
    ASSUME ReadInv, NestInv, BuildDone PROVE NestInv'
<1>1. /\ phase = "build" /\ phase' = "done" /\ next > Len(resolved) /\ UNCHANGED <<events, open>>
      /\ panic' = IF depth = 0 /\ roots = 1 THEN "none" ELSE "roots"
  BY DEF BuildDone, parserVars
<1>2. PICK fin, d : Nested(fin) /\ BuiltNest(d)
  BY <1>1 DEF NestInv
<1>3. next - 1 = Len(resolved)
  BY <1>1 DEF ReadInv
<1>4. depth = 0 /\ roots = 1
  BY <1>2, <1>3 DEF BuiltNest
<1>5. Nested(fin)' /\ open = <<>> /\ events # <<>>
  BY <1>1, <1>2, NestedKept DEF NestInv
<1> QED
  BY <1>1, <1>4, <1>5 DEF NestInv

LEMMA NestStep == PipelineInv /\ ReadInv /\ NestInv /\ [Next]_vars => NestInv'
<1> SUFFICES ASSUME PipelineInv, ReadInv, NestInv, [Next]_vars PROVE NestInv'
  OBVIOUS
<1>1. PICK fin : ParserInv /\ Nested(fin)
  BY DEF PipelineInv, NestInv
<1>2. ASSUME \E g : Nested(g)', ParseStep, phase' = phase PROVE NestInv'
  BY <1>2 DEF ParseStep, NestInv, buildVars
<1>3. CASE DoStart
  BY <1>1, <1>2, <1>3, NestedStart DEF DoStart
<1>4. CASE DoBump
  <2>1. /\ events' = Append(events, TokenEvent(current)) /\ open # <<>> /\ open' = open
    BY <1>4 DEF DoBump, Bump, Parsing
  <2>2. TokenEvent(current) \in Event /\ TokenEvent(current).tag = "Token"
    <3>1. current \in TokenKinds
      <4>1. ParserTypeOK /\ pos \in Nat /\ pos + 0 < Len(non_trivia_indices)
        BY <1>1, <1>4 DEF ParserInv, ParserTypeOK, DoBump, Bump, at_end
      <4> QED
        BY <4>1, NthInRange DEF current
    <3> QED
      BY <3>1 DEF TokenEvent, Event, EventTags, EventKinds
  <2> QED
    BY <1>1, <1>2, <1>4, <2>1, <2>2, NestedAppend DEF DoBump
<1>5. CASE DoError
  <2>1. /\ events' = Append(events, ErrorEvent) /\ open # <<>> /\ open' = open
    BY <1>5 DEF DoError, Error, Parsing
  <2>2. ErrorEvent \in Event /\ ErrorEvent.tag = "Error"
    BY DEF ErrorEvent, Event, EventTags, EventKinds
  <2> QED
    BY <1>1, <1>2, <1>5, <2>1, <2>2, NestedAppend DEF DoError
<1>6. ASSUME NEW R, DoErrRecover(R) PROVE NestInv'
  BY <1>1, <1>2, <1>6, NestedRecover DEF DoErrRecover
<1>7. CASE DoErrAndBump
  BY <1>6, <1>7 DEF DoErrAndBump
<1>8. ASSUME NEW k \in NodeKinds \cup {SOURCE_FILE}, DoComplete(k) PROVE NestInv'
  BY <1>1, <1>2, <1>8, NestedComplete DEF DoComplete
<1>9. CASE DoPrecede
  BY <1>1, <1>2, <1>9, NestedPrecede DEF DoPrecede
<1>10. CASE DoAbandon
  BY <1>1, <1>2, <1>10, NestedAbandon DEF DoAbandon
<1>11. CASE Finish
  BY <1>11, NestFinish
<1>12. CASE ResolveStart \/ ResolveFollow
  BY <1>12, NestChain
<1>13. CASE ResolveEmit
  BY <1>13, NestEmit
<1>14. CASE ResolveOther
  BY <1>14, NestOther
<1>15. CASE ResolveDone
  BY <1>15, NestDone
<1>16. CASE BuildStart \/ BuildToken \/ BuildFinish \/ BuildError
  BY <1>16, NestBuild
<1>17. CASE BuildDone
  BY <1>17, NestBuildDone
<1>18. CASE Terminated \/ UNCHANGED vars
  <2>1. UNCHANGED vars
    BY <1>18 DEF Terminated
  <2>2. /\ UNCHANGED <<events, open, panic, phase, depth, roots>>
        /\ UNCHANGED <<work, at, chain, resolved, next>>
    BY <2>1 DEF vars, parserVars, resolveVars, buildVars
  <2>3. \A f : (Nested(f) => Nested(f)') /\ CompletedStarts' = CompletedStarts
    BY <2>2, NestedKept DEF CompletedStarts, TOMBSTONE
  <2>4. \A f : OpenNodes(f)' = OpenNodes(f)
    BY <2>2, <2>3 DEF OpenNodes
  <2>5. \A f, d : ResolvedNest(f, d) => ResolvedNest(f, d)'
    BY <2>2, <2>4 DEF ResolvedNest, IsBalance, Delta, TOMBSTONE
  <2>6. \A d : BuiltNest(d) => BuiltNest(d)'
    BY <2>2 DEF BuiltNest, IsBalance, Delta
  <2>7. phase = "resolve" => \E f, d : Nested(f)' /\ ResolvedNest(f, d)'
    BY <2>3, <2>5 DEF NestInv
  <2>8. Nested(fin)'
    BY <1>1, <2>3
  <2>9. \E f : Nested(f)' /\ (phase' = "resolve" => \E d : ResolvedNest(f, d)')
    BY <2>2, <2>7, <2>8
  <2>10. phase' = "build" => \E d : BuiltNest(d)'
    BY <2>2, <2>6 DEF NestInv
  <2> QED
    BY <2>2, <2>9, <2>10 DEF NestInv
<1> QED
  BY <1>3, <1>4, <1>5, <1>6, <1>7, <1>8, <1>9, <1>10, <1>11, <1>12, <1>13, <1>14, <1>15, <1>16, <1>17, <1>18
     DEF Next

(* No text and no sequence of parser calls makes resolve_events meet the     *)
(* `unreachable!` of a link that is not to a Start, build_tree decrement a   *)
(* depth of zero, or rowan find other than one root.                         *)
THEOREM ParsingNeverPanics == Spec => []NeverPanics
<1>1. NestInv => NeverPanics
  BY DEF NestInv, NeverPanics
<1>2. Init => PipelineInv /\ ReadInv /\ NestInv
  BY PipelineInitInv, ReadInit, NestInit
<1>3. (PipelineInv /\ ReadInv /\ NestInv) /\ [Next]_vars => (PipelineInv /\ ReadInv /\ NestInv)'
  BY PipelineStepInv, ReadStep, NestStep
<1> QED
  BY <1>1, <1>2, <1>3, PTL DEF Spec

--------------------------------------------------------------------------------
(* The builder's cursors.                                                     *)

Cursors ==
    /\ depth \in Nat /\ roots \in Nat
    /\ nt_pos \in 0..Len(non_trivia_indices) /\ raw_pos \in 0..Len(tokens)

LEMMA CursorsInit == Init => Cursors
<1> SUFFICES ASSUME Init PROVE Cursors
  OBVIOUS
<1>1. Len(tokens) \in Nat /\ Len(non_trivia_indices) \in Nat
  BY PipelineInitInv DEF PipelineInv, ParserInv, ParserTypeOK
<1> QED
  BY <1>1 DEF Init, Cursors

LEMMA TextKept == [Next]_vars => UNCHANGED <<tokens, non_trivia_indices>>
BY PipelineParserStep
   DEF ParserNext, parserVars, StartRoot, Start, Bump, Error, err_recover, Complete, Precede, Abandon

LEMMA CursorsBuild ==
    ASSUME PipelineInv, ReadInv, NestInv, Cursors, BuildStart \/ BuildToken \/ BuildFinish \/ BuildError,
           UNCHANGED <<tokens, non_trivia_indices>>
    PROVE  Cursors'
<1>1. phase = "build"
  BY DEF BuildStart, BuildToken, BuildFinish, BuildError, Building
<1>2. PICK d : BuiltNest(d)
  BY <1>1 DEF NestInv
<1>3. (depth = 0 <=> next = 1) /\ resolved[1].tag = "Start"
  BY <1>2, BuildPlace
<1>4. Len(tokens) \in Nat /\ Len(non_trivia_indices) \in Nat /\ Len(tokens) \in 0..Len(tokens)
  BY DEF PipelineInv, ParserInv, ParserTypeOK
<1>5. nt_pos < Len(non_trivia_indices) => /\ non_trivia_indices[nt_pos + 1] \in 1..Len(tokens) 
                                          /\ nt_pos + 1 \in 0..Len(non_trivia_indices)
  BY <1>4 DEF PipelineInv, ParserInv, ParserTypeOK, Cursors
<1>6. CASE BuildStart
  <2>1. raw_pos' = TriviaTo /\ depth' = depth + 1 /\ nt_pos' = nt_pos /\ roots' = roots
    BY <1>6 DEF BuildStart
  <2>2. TriviaTo \in 0..Len(tokens)
    BY <1>4, <1>5 DEF TriviaTo, Cursors
  <2> QED
    BY <2>1, <2>2 DEF Cursors
<1>7. CASE BuildToken
  <2>1. roots' = roots /\ depth' = depth
    BY <1>3, <1>7 DEF BuildToken
  <2>2. CASE nt_pos < Len(non_trivia_indices)
    <3>1. raw_pos' = non_trivia_indices[nt_pos + 1] /\ nt_pos' = nt_pos + 1
      BY <1>7, <2>2 DEF BuildToken
    <3> QED
      BY <1>4, <1>5, <2>1, <2>2, <3>1 DEF Cursors
  <2>3. CASE ~(nt_pos < Len(non_trivia_indices))
    BY <1>7, <2>1, <2>3 DEF BuildToken, Cursors
  <2> QED
    BY <2>2, <2>3
<1>8. CASE BuildFinish
  <2>1. nt_pos' = nt_pos /\ (depth = 0 => UNCHANGED <<depth, raw_pos, roots>>)
    BY <1>8 DEF BuildFinish
  <2>2. depth # 0 => /\ depth' = depth - 1 /\ raw_pos' \in {Len(tokens), raw_pos} /\ roots' \in {roots, roots + 1}
    BY <1>8 DEF BuildFinish
  <2> QED
    BY <1>4, <2>1, <2>2 DEF Cursors
<1>9. CASE BuildError
  BY <1>9 DEF BuildError, Cursors
<1> QED
  BY <1>6, <1>7, <1>8, <1>9

LEMMA CursorsStep == PipelineInv /\ ReadInv /\ NestInv /\ Cursors /\ [Next]_vars => Cursors'
<1> SUFFICES ASSUME PipelineInv, ReadInv, NestInv, Cursors, [Next]_vars PROVE Cursors'
  OBVIOUS
<1>1. UNCHANGED <<tokens, non_trivia_indices>>
  BY TextKept
<1>2. CASE UNCHANGED buildVars
  BY <1>1, <1>2 DEF Cursors, buildVars
<1>3. CASE ~UNCHANGED buildVars
  <2>1. BuildStart \/ BuildToken \/ BuildFinish \/ BuildError
    BY <1>3 DEF Next, vars, DoStart, DoBump, DoError, DoErrAndBump, DoErrRecover, DoComplete, DoPrecede,
                DoAbandon, ParseStep, Finish, ResolveStart, ResolveFollow, ResolveEmit, ResolveOther, ResolveDone,
                Resolving, BuildDone, Terminated
  <2> QED
    BY <1>1, <2>1, CursorsBuild
<1> QED
  BY <1>2, <1>3

(* Every variable of the pipeline keeps its type; the builder's two cursors  *)
(* never run past the tokens (build_tree indexes with both).                 *)
THEOREM PipelineTypes == Spec => []TypeOK
<1>1. PipelineInv /\ ReadInv /\ NestInv /\ Cursors => TypeOK
  BY DEF PipelineInv, ParserInv, ResolverInv, ReadInv, NestInv, Cursors, TypeOK
<1>2. Init => PipelineInv /\ ReadInv /\ NestInv /\ Cursors
  BY PipelineInitInv, ReadInit, NestInit, CursorsInit
<1>3. (PipelineInv /\ ReadInv /\ NestInv /\ Cursors) /\ [Next]_vars => (PipelineInv /\ ReadInv /\ NestInv /\ Cursors)'
  BY PipelineStepInv, ReadStep, NestStep, CursorsStep
<1> QED
  BY <1>1, <1>2, <1>3, PTL DEF Spec

--------------------------------------------------------------------------------
(* The kinds of the tokens recorded.                                          *)

(* The kinds of the significant tokens, from 0. *)
Word == [p \in Nat |-> IF p < Len(non_trivia_indices) THEN tokens[non_trivia_indices[p + 1]] ELSE EOF]

(* Each token among the first n events of s has the kind its place says. *)
Spelt(h, w, s, n) ==
    \A i \in 1..n : s[i].tag = "Token" => \A x : Reads(h, s, i - 1, x) => s[i].kind = w[x.pos]

SameText(s, t, n) ==
    \A i \in 1..n : Alike(s[i], t[i]) /\ (s[i].tag = "Token" => t[i].kind = s[i].kind)

LEMMA SpeltSame ==
    ASSUME NEW h, NEW w, NEW s, NEW t, NEW n \in Nat, Spelt(h, w, s, n), SameText(s, t, n)
    PROVE  Spelt(h, w, t, n)
<1> SUFFICES ASSUME NEW i \in 1..n, t[i].tag = "Token", NEW x, Reads(h, t, i - 1, x)
             PROVE  t[i].kind = w[x.pos]
  BY DEF Spelt
<1>1. i - 1 \in Nat /\ \A j \in 1..(i - 1) : j \in 1..n
  OBVIOUS
<1>2. \A j \in 1..(i - 1) : Alike(t[j], s[j])
  BY <1>1 DEF SameText, Alike
<1>3. Reads(h, s, i - 1, x)
  BY <1>1, <1>2, ReadsAlike
<1>4. s[i].tag = "Token" /\ t[i].kind = s[i].kind
  BY DEF SameText, Alike
<1> QED
  BY <1>3, <1>4 DEF Spelt

LEMMA SpeltMore ==
    ASSUME NEW h, NEW w, NEW s, NEW n \in Nat, Spelt(h, w, s, n), NEW x, Reads(h, s, n, x),
           s[n + 1].tag = "Token" => s[n + 1].kind = w[x.pos]
    PROVE  Spelt(h, w, s, n + 1)
<1> SUFFICES ASSUME NEW i \in 1..(n + 1), s[i].tag = "Token", NEW y, Reads(h, s, i - 1, y)
             PROVE  s[i].kind = w[y.pos]
  BY DEF Spelt
<1>1. CASE i = n + 1
  <2>1. i - 1 = n
    BY <1>1
  <2>2. y = x
    BY <2>1, ReadsUnique
  <2> QED
    BY <1>1, <2>2
<1>2. CASE i # n + 1
  <2>1. i \in 1..n
    BY <1>2
  <2> QED
    BY <2>1 DEF Spelt
<1> QED
  BY <1>1, <1>2

LEMMA SpeltFewer ==
    ASSUME NEW h, NEW w, NEW s, NEW n \in Nat, Spelt(h, w, s, n), NEW k \in 0..n
    PROVE  Spelt(h, w, s, k)
<1>1. \A i \in 1..k : i \in 1..n
  OBVIOUS
<1> QED
  BY <1>1 DEF Spelt

NoTokens(s, n, m) == \A i \in 1..m : s[n + i].tag # "Token"

LEMMA SpeltNoTokens ==
    ASSUME NEW h, NEW w, NEW s, NEW n \in Nat, Spelt(h, w, s, n), NEW m \in Nat, NoTokens(s, n, m)
    PROVE  Spelt(h, w, s, n + m)
<1> SUFFICES ASSUME NEW i \in 1..(n + m), s[i].tag = "Token" PROVE i \in 1..n
  BY DEF Spelt
<1>1. CASE i > n
  <2>1. i - n \in 1..m /\ n + (i - n) = i
    BY <1>1
  <2> QED
    BY <2>1 DEF NoTokens
<1> QED
  BY <1>1

(* m tokens in a row, from the reading x on. *)
TokensFrom(w, s, n, m, x) == \A i \in 1..m : s[n + i].tag = "Token" /\ s[n + i].kind = w[x.pos + (i - 1)]

LEMMA SpeltTokens ==
    ASSUME NEW h \in [Nat -> Nat], NEW w, NEW s, NEW n \in Nat, Spelt(h, w, s, n), NEW x, Reads(h, s, n, x),
           NEW m \in Nat, TokensFrom(w, s, n, m, x)
    PROVE  Spelt(h, w, s, n + m)
<1> SUFFICES ASSUME NEW i \in 1..(n + m), s[i].tag = "Token", NEW y, Reads(h, s, i - 1, y)
             PROVE  s[i].kind = w[y.pos]
  BY DEF Spelt
<1>1. CASE i <= n
  BY <1>1 DEF Spelt
<1>2. CASE i > n
  <2>1. PICK j \in 1..m : i = n + j
    <3>1. i - n \in 1..m /\ i = n + (i - n)
      BY <1>2
    <3> QED
      BY <3>1
  <2>2. j - 1 \in Nat /\ n + (j - 1) = i - 1 /\ i - 1 \in Nat /\ \A k \in 1..(j - 1) : k \in 1..m
    BY <2>1
  <2>3. \A k \in 1..(j - 1) : s[n + k].tag = "Token"
    BY <2>2 DEF TokensFrom
  <2>4. Reads(h, s, n + (j - 1), [pos |-> x.pos + (j - 1), raised |-> x.raised])
    BY <2>2, <2>3, ReadsTokens
  <2>5. y = [pos |-> x.pos + (j - 1), raised |-> x.raised]
    BY <2>2, <2>4, ReadsUnique
  <2>6. y.pos = x.pos + (j - 1)
    BY <2>5
  <2> QED
    BY <2>1, <2>6 DEF TokensFrom
<1> QED
  BY <1>1, <1>2

(* What the parser has recorded spells the significant tokens. *)
Spelling == Spelt(Where, Word, events, Len(events))

LEMMA SpellingAppend ==
    ASSUME ParserTypeOK, Recorded, Spelling, UNCHANGED <<tokens, non_trivia_indices>>,
           NEW s \in Seq(Event), Len(s) = Len(events), SameText(events, s, Len(events)),
           NEW e \in Event, events' = Append(s, e), e.tag = "Token" => e.kind = Word[pos]
    PROVE  Spelling'
<1>1. PICK n \in Nat : n = Len(events)
  BY DEF ParserTypeOK
<1>2. PICK t : t = events'
  OBVIOUS
<1>3. Len(t) = n + 1 /\ t[n + 1] = e /\ \A i \in 1..n : t[i] = s[i]
  <2>1. s \in Seq(Event) /\ e \in Event /\ t = Append(s, e) /\ Len(s) = n
    BY <1>1, <1>2
  <2> QED
    BY ONLY <2>1, AppendProperties
<1>4. PICK h, w : h = Where /\ w = Word
  OBVIOUS
<1>5. Where' = h /\ Word' = w
  BY <1>4 DEF Where, Word, EOF
<1>6. SameText(events, t, n)
  BY <1>1, <1>3 DEF SameText, Alike
<1>7. Spelt(h, w, t, n)
  BY <1>1, <1>4, <1>6, SpeltSame DEF Spelling
<1>8. PICK x : x = [pos |-> pos, raised |-> raised]
  OBVIOUS
<1>9. Reads(h, t, n, x)
  <2>1. \A i \in 1..n : Alike(events[i], t[i])
    BY <1>6 DEF SameText
  <2>2. Reads(h, events, n, x)
    BY <1>1, <1>4, <1>8 DEF Recorded
  <2> QED
    BY <2>1, <2>2, ReadsAlike
<1>10. t[n + 1].tag = "Token" => t[n + 1].kind = w[x.pos]
  BY <1>3, <1>4, <1>8
<1>11. Spelt(h, w, t, n + 1)
  BY <1>7, <1>9, <1>10, SpeltMore
<1> QED
  BY <1>2, <1>3, <1>5, <1>11 DEF Spelling

LEMMA SameTextSelf == ASSUME NEW s, NEW n PROVE SameText(s, s, n)
BY DEF SameText, Alike

LEMMA NthIs == ASSUME ParserTypeOK, NEW n \in Nat PROVE nth(n) = Word[pos + n]
<1>1. pos \in Nat /\ Len(non_trivia_indices) \in Nat /\ pos + n \in Nat
  BY DEF ParserTypeOK
<1> QED
  BY <1>1 DEF nth, Word

LEMMA SpellingRecover ==
    ASSUME ParserInv, Recorded, Spelling, NEW R, err_recover(R) PROVE Spelling'
<1>1. events \in Seq(Event) /\ ParserTypeOK /\ Len(events) \in Nat /\ Len(non_trivia_indices) \in Nat /\ pos \in Nat
  BY DEF ParserInv, ParserTypeOK
<1>2. UNCHANGED <<tokens, non_trivia_indices>>
  BY DEF err_recover
<1>3. CASE events' = Append(events, ErrorEvent)
  <2>1. ErrorEvent \in Event /\ ErrorEvent.tag # "Token"
    BY EventTypes DEF ErrorEvent
  <2> QED
    BY <1>1, <1>2, <1>3, <2>1, SameTextSelf, SpellingAppend
<1>4. ASSUME NEW n \in 1..(Len(non_trivia_indices) - pos), events' = events \o ErrorNode(n)
      PROVE  Spelling'
  <2>1. n \in Nat /\ ErrorNode(n) \in Seq(Event)
    BY <1>1, ErrorNodeIsSeq
  <2>2. PICK t, d : t = events' /\ d = ErrorNode(n)
    OBVIOUS
  <2>3. PICK k \in Nat : k = Len(events)
    BY <1>1
  <2>4. PICK h, w : h = Where /\ w = Word
    OBVIOUS
  <2>5. Where' = h /\ Word' = w /\ h \in [Nat -> Nat]
    BY <1>1, <1>2, <2>4, WhereType DEF Where, Word, EOF
  <2>6. /\ Len(d) = n + 3 /\ d[1].tag = "Start" /\ d[2].tag = "Error" /\ d[n + 3].tag = "Finish"
        /\ \A i \in 1..n : d[2 + i].tag = "Token" /\ d[2 + i].kind = w[pos + (i - 1)]
    <3>1. /\ StartEvent(ERROR).tag = "Start" /\ ErrorEvent.tag = "Error" /\ FinishEvent.tag = "Finish"
          /\ \A c : TokenEvent(c).tag = "Token" /\ TokenEvent(c).kind = c
      BY DEF StartEvent, ErrorEvent, TokenEvent, FinishEvent
    <3>2. ASSUME NEW i \in 1..n PROVE nth(i - 1) = w[pos + (i - 1)]
      <4>1. i - 1 \in Nat
        BY <2>1
      <4> QED
        BY <1>1, <2>4, <4>1, NthIs
    <3>3. \A i \in 1..n : d[2 + i] = TokenEvent(nth(i - 1))
      BY <2>1, <2>2, ErrorNodeTags
    <3>4. \A i \in 1..n : d[2 + i].tag = "Token" /\ d[2 + i].kind = w[pos + (i - 1)]
      BY <3>1, <3>2, <3>3
    <3> QED
      BY <2>1, <2>2, <3>1, <3>4, ErrorNodeTags
  <2>7. /\ Len(t) = k + n + 3 /\ \A i \in 1..k : t[i] = events[i]
        /\ \A i \in 1..(n + 3) : t[k + i] = d[i]
    <3>1. t = events \o d /\ d \in Seq(Event) /\ Len(d) = n + 3 /\ Len(events) = k
      BY <1>4, <2>1, <2>2, <2>3, <2>6
    <3>2. Len(t) = k + (n + 3) /\ \A i \in 1..(k + (n + 3)) : t[i] = IF i <= k THEN events[i] ELSE d[i - k]
      <4>1. /\ Len(events \o d) = Len(events) + Len(d)
            /\ \A i \in 1..(Len(events) + Len(d)) :
                  (events \o d)[i] = IF i <= Len(events) THEN events[i] ELSE d[i - Len(events)]
        BY <1>1, <3>1, ConcatProperties
      <4> QED
        BY <3>1, <4>1
    <3>3. ASSUME NEW i \in 1..(n + 3) PROVE t[k + i] = d[i]
      <4>1. k + i \in 1..(k + (n + 3)) /\ ~(k + i <= k) /\ (k + i) - k = i
        BY <2>1
      <4> QED
        BY <3>2, <4>1
    <3> QED
      BY <2>1, <3>2, <3>3
  <2>8. PICK x, y : x = [pos |-> pos, raised |-> raised] /\ y = [pos |-> pos, raised |-> Append(raised, h[pos])]
    OBVIOUS
  <2>9. Reads(h, t, k, x) /\ Spelt(h, w, t, k)
    <3>1. SameText(events, t, k) /\ \A i \in 1..k : Alike(events[i], t[i])
      BY <2>7 DEF SameText, Alike
    <3>2. Reads(h, events, k, x) /\ Spelt(h, w, events, k)
      BY <2>3, <2>4, <2>8 DEF Recorded, Spelling
    <3>3. Reads(h, t, k, x)
      BY <3>1, <3>2, ReadsAlike
    <3> QED
      BY <3>1, <3>2, <3>3, SpeltSame
  <2>10. t[k + 1].tag = "Start" /\ t[k + 2].tag = "Error"
    <3>1. 1 \in 1..(n + 3) /\ 2 \in 1..(n + 3)
      BY <2>1
    <3> QED
      BY <2>6, <2>7, <3>1
  <2>11. Reads(h, t, k + 2, y)
    <3>1. Effect(h, x, "Start") = x /\ Effect(h, x, "Error") = y
      BY <2>8 DEF Effect
    <3>2. Reads(h, t, k + 1, x)
      BY <2>5, <2>9, <2>10, <3>1, ReadsMore
    <3>3. k + 1 \in Nat /\ (k + 1) + 1 = k + 2
      OBVIOUS
    <3>4. Reads(h, t, (k + 1) + 1, Effect(h, x, t[(k + 1) + 1].tag))
      BY <2>5, <3>2, <3>3, ReadsMore
    <3> QED
      BY <2>10, <3>1, <3>3, <3>4
  <2>12. Spelt(h, w, t, k + 2)
    <3>1. NoTokens(t, k, 2)
      BY <2>10 DEF NoTokens
    <3> QED
      BY <2>9, <3>1, SpeltNoTokens
  <2>13. Spelt(h, w, t, (k + 2) + n)
    <3>1. TokensFrom(w, t, k + 2, n, y)
      <4>1. \A i \in 1..n : 2 + i \in 1..(n + 3) /\ k + (2 + i) = (k + 2) + i
        BY <2>1
      <4>2. \A i \in 1..n : t[(k + 2) + i] = d[2 + i]
        BY <2>7, <4>1
      <4>3. y.pos = pos
        BY <2>8
      <4> QED
        BY <2>6, <4>2, <4>3 DEF TokensFrom
    <3>2. k + 2 \in Nat
      OBVIOUS
    <3> QED
      BY <2>1, <2>5, <2>11, <2>12, <3>1, <3>2, SpeltTokens
  <2>14. Spelt(h, w, t, ((k + 2) + n) + 1)
    <3>1. PICK j \in Nat : j = (k + 2) + n /\ j + 1 = k + (n + 3)
      BY <2>1
    <3>2. n + 3 \in 1..(n + 3)
      BY <2>1
    <3>3. t[j + 1].tag # "Token"
      BY <2>6, <2>7, <3>1, <3>2
    <3>4. NoTokens(t, j, 1)
      BY <3>3 DEF NoTokens
    <3> QED
      BY <2>13, <3>1, <3>4, SpeltNoTokens
  <2>15. ((k + 2) + n) + 1 = k + n + 3
    BY <2>1
  <2> QED
    BY <2>2, <2>5, <2>7, <2>14, <2>15 DEF Spelling
<1> QED
  BY <1>3, <1>4 DEF err_recover

LEMMA SpellingComplete ==
    ASSUME ParserInv, Recorded, Spelling, NEW k \in NodeKinds \cup {SOURCE_FILE}, Complete(k) PROVE Spelling'
<1>1. events \in Seq(Event) /\ ParserTypeOK /\ Len(events) \in Nat /\ DOMAIN events = 1..Len(events)
  BY DEF ParserInv, ParserTypeOK
<1>2. Top \in 1..Len(events) /\ events[Top].tag = "Start"
  <2>1. Len(open) \in DOMAIN open
    BY DEF ParserInv, ParserTypeOK, Complete, Parsing
  <2> QED
    BY <1>1, <2>1 DEF ParserInv, MarkersLive, StartEvent, Top
<1>3. PICK s : s = [events EXCEPT ![Top].kind = k]
  OBVIOUS
<1>4. UNCHANGED <<tokens, non_trivia_indices>> /\ events' = Append(s, FinishEvent)
  BY <1>3 DEF Complete
<1>5. ASSUME NEW i \in DOMAIN events
      PROVE  s[i] \in Event /\ s[i].tag = events[i].tag /\ (events[i].tag = "Token" => s[i].kind = events[i].kind)
  <2>1. events[i] \in Event /\ k \in EventKinds
    BY <1>1, ElementOfSeq, EventTypes
  <2> QED
    BY <1>2, <1>3, <2>1 DEF Event
<1>6. s \in Seq(Event) /\ Len(s) = Len(events)
  <2>1. s \in [1..Len(events) -> Event]
    BY <1>1, <1>3, <1>5
  <2> QED
    BY <1>1, <2>1, IsASeq
<1>7. FinishEvent \in Event /\ FinishEvent.tag # "Token"
  BY EventTypes DEF FinishEvent
<1>8. SameText(events, s, Len(events))
  BY <1>1, <1>5 DEF SameText, Alike
<1> QED
  BY <1>1, <1>4, <1>6, <1>7, <1>8, SpellingAppend

LEMMA SpellingPrecede ==
    ASSUME ParserInv, Recorded, Spelling, Precede PROVE Spelling'
<1>1. /\ events \in Seq(Event) /\ ParserTypeOK /\ Len(events) \in Nat /\ DOMAIN events = 1..Len(events)
      /\ last \in 1..Len(events)
  BY DEF ParserInv, ParserTypeOK, LastCompleted, Precede
<1>2. PICK s : s = [events EXCEPT ![last].forward_parent = Len(events) + 1 - last]
  OBVIOUS
<1>3. UNCHANGED <<tokens, non_trivia_indices>> /\ events' = Append(s, StartEvent(TOMBSTONE))
  BY <1>2 DEF Precede
<1>4. ASSUME NEW i \in DOMAIN events
      PROVE  s[i] \in Event /\ s[i].tag = events[i].tag /\ s[i].kind = events[i].kind
  <2>1. events[i] \in Event /\ Len(events) + 1 - last \in Nat
    BY <1>1, ElementOfSeq
  <2> QED
    BY <1>2, <2>1 DEF Event
<1>5. s \in Seq(Event) /\ Len(s) = Len(events)
  <2>1. s \in [1..Len(events) -> Event]
    BY <1>1, <1>2, <1>4
  <2> QED
    BY <1>1, <2>1, IsASeq
<1>6. StartEvent(TOMBSTONE) \in Event /\ StartEvent(TOMBSTONE).tag # "Token"
  BY EventTypes DEF StartEvent
<1>7. SameText(events, s, Len(events))
  BY <1>1, <1>4 DEF SameText, Alike
<1> QED
  BY <1>1, <1>3, <1>5, <1>6, <1>7, SpellingAppend

LEMMA SpellingAbandon ==
    ASSUME ParserInv, Spelling, Abandon PROVE Spelling'
<1>1. events \in Seq(Event) /\ ParserTypeOK /\ Len(events) \in Nat /\ DOMAIN events = 1..Len(events)
  BY DEF ParserInv, ParserTypeOK
<1>2. Top \in 1..Len(events) /\ events[Top].tag = "Start"
  <2>1. Len(open) \in DOMAIN open
    BY DEF ParserInv, ParserTypeOK, Abandon
  <2> QED
    BY <1>1, <2>1 DEF ParserInv, MarkersLive, StartEvent, Top
<1>3. PICK h, w, t : h = Where /\ w = Word /\ t = events'
  OBVIOUS
<1>4. Where' = h /\ Word' = w
  BY <1>3 DEF Where, Word, EOF, Abandon
<1>5. PICK n \in 0..Len(events) : Len(t) = n /\ SameText(events, t, n)
  <2>1. CASE Top = Len(events)
    <3>1. PICK n \in Nat : n = Len(events) - 1 /\ n <= Len(events)
      <4>1. Len(events) - 1 \in Nat /\ Len(events) - 1 <= Len(events)
        BY <1>1, <1>2
      <4> QED
        BY <4>1
    <3>2. t = SubSeq(events, 1, n)
      BY <1>3, <2>1, <3>1 DEF Abandon
    <3>3. Len(t) = n /\ \A i \in 1..n : t[i] = events[i]
      BY <1>1, <3>1, <3>2
    <3>4. SameText(events, t, n)
      BY <3>3 DEF SameText, Alike
    <3>5. n \in 0..Len(events)
      BY <1>1, <3>1
    <3> QED
      BY <3>3, <3>4, <3>5
  <2>2. CASE Top # Len(events)
    <3>1. t = [events EXCEPT ![Top] = TombstoneEvent]
      BY <1>3, <2>2 DEF Abandon
    <3>2. Len(t) = Len(events) /\ t[Top].tag = "Tombstone" /\ \A i \in 1..Len(events) : i # Top => t[i] = events[i]
      BY <1>1, <1>2, <3>1 DEF TombstoneEvent
    <3>3. SameText(events, t, Len(events))
      BY <1>2, <3>2 DEF SameText, Alike
    <3>4. Len(events) \in 0..Len(events)
      BY <1>1
    <3> QED
      BY <3>2, <3>3, <3>4
  <2> QED
    BY <2>1, <2>2
<1>6. Spelt(h, w, events, n)
  BY <1>1, <1>3, <1>5, SpeltFewer DEF Spelling
<1>7. Spelt(h, w, t, n)
  BY <1>1, <1>5, <1>6, SpeltSame
<1> QED
  BY <1>3, <1>4, <1>5, <1>7 DEF Spelling

(* The same for what the resolver passes on. *)
SpellInv == Spelling /\ Spelt(Where, Word, resolved, Len(resolved))

LEMMA SpellInit == Init => SpellInv
<1> SUFFICES ASSUME Init PROVE SpellInv
  OBVIOUS
<1>1. Len(events) = 0 /\ Len(resolved) = 0 /\ 1..0 = {}
  BY DEF Init, ParserInit
<1> QED
  BY <1>1 DEF SpellInv, Spelling, Spelt

LEMMA EmitAppends ==
    ASSUME ReadInv, ResolveEmit
    PROVE  \E m \in Nat : /\ Len(resolved') = Len(resolved) + m /\ Prefix(resolved, Len(resolved), resolved')
                          /\ StartsFrom(resolved', Len(resolved), m)
<1>1. PICK st : /\ resolved' = resolved \o st
                /\ st \in Seq([tag : {"Start"}, kind : EventKinds, forward_parent : {0}])
  <2>1. chain \in Seq(EventKinds)
    BY DEF ReadInv
  <2> QED
    BY <2>1, EmittedStarts DEF ResolveEmit
<1>2. [tag : {"Start"}, kind : EventKinds, forward_parent : {0}] \subseteq Event
  BY DEF Event, EventTags
<1>3. st \in Seq(Event) /\ resolved \in Seq(Event)
  BY <1>1, <1>2, SeqMonotonic DEF ReadInv
<1>4. PICK n \in Nat, m \in Nat : n = Len(resolved) /\ m = Len(st)
  BY <1>3
<1>5. /\ Len(resolved \o st) = Len(resolved) + Len(st)
      /\ \A i \in 1..(Len(resolved) + Len(st)) :
            (resolved \o st)[i] = IF i <= Len(resolved) THEN resolved[i] ELSE st[i - Len(resolved)]
  BY <1>3, ConcatProperties
<1>6. PICK b : b = resolved'
  OBVIOUS
<1>7. Len(b) = n + m /\ \A i \in 1..(n + m) : b[i] = IF i <= n THEN resolved[i] ELSE st[i - n]
  BY <1>1, <1>4, <1>5, <1>6
<1>8. Prefix(resolved, n, b)
  <2>1. \A i \in 1..n : i \in 1..(n + m) /\ i <= n
    OBVIOUS
  <2> QED
    BY <1>7, <2>1 DEF Prefix
<1>9. ASSUME NEW i \in 1..m PROVE b[n + i].tag = "Start"
  <2>1. n + i \in 1..(n + m) /\ ~(n + i <= n) /\ (n + i) - n = i
    OBVIOUS
  <2>2. i \in 1..Len(st)
    BY <1>4
  <2>3. st[i] \in [tag : {"Start"}, kind : EventKinds, forward_parent : {0}]
    BY <1>1, <2>2, ElementOfSeq
  <2>4. b[n + i] = st[i]
    BY <1>7, <2>1
  <2> QED
    BY <2>3, <2>4
<1>10. StartsFrom(b, n, m)
  BY <1>9 DEF StartsFrom
<1> QED
  BY <1>4, <1>6, <1>7, <1>8, <1>10

LEMMA SpellEmit == ASSUME ReadInv, SpellInv, ResolveEmit PROVE Spelt(Where, Word, resolved', Len(resolved'))
<1>1. PICK n \in Nat : n = Len(resolved)
  BY DEF ReadInv
<1>2. PICK t, h, w : t = resolved' /\ h = Where /\ w = Word
  OBVIOUS
<1>3. PICK m \in Nat : Len(t) = n + m /\ Prefix(resolved, n, t) /\ StartsFrom(t, n, m)
  BY <1>1, <1>2, EmitAppends
<1>4. SameText(resolved, t, n) /\ NoTokens(t, n, m)
  BY <1>3 DEF SameText, Alike, Prefix, StartsFrom, NoTokens
<1>5. Spelt(h, w, t, n)
  BY <1>1, <1>2, <1>4, SpeltSame DEF SpellInv
<1>6. Spelt(h, w, t, n + m)
  BY <1>4, <1>5, SpeltNoTokens
<1> QED
  BY <1>2, <1>3, <1>6

LEMMA SpellOther == ASSUME PipelineInv, ReadInv, SpellInv, ResolveOther PROVE Spelt(Where, Word, resolved', Len(resolved'))
<1>1. phase = "resolve" /\ at <= Len(work) /\ at \in Nat \ {0} /\ work \in Seq(Event) /\ Consumption
  BY DEF ResolveOther, Resolving, PipelineInv, ResolverInv, ReadInv
<1>2. Len(work) \in Nat /\ at \in 1..Len(work) /\ Len(work) = Len(events) /\ DOMAIN work = 1..Len(work)
  BY <1>1 DEF Consumption
<1>3. PICK x : Reads(Where, events, at - 1, x) /\ Reads(Where, resolved, Len(resolved), x)
  BY <1>1 DEF ReadInv
<1>4. PICK n \in Nat : n = Len(resolved) /\ resolved \in Seq(Event)
  BY DEF ReadInv
<1>5. PICK t, h, w, e : t = resolved' /\ h = Where /\ w = Word /\ e = work[at]
  OBVIOUS
<1>6. CASE e.tag = "Tombstone"
  <2>1. resolved' = resolved
    BY <1>5, <1>6 DEF ResolveOther
  <2> QED
    BY <2>1 DEF SpellInv
<1>7. CASE e.tag # "Tombstone"
  <2>1. t = Append(resolved, e)
    BY <1>5, <1>7 DEF ResolveOther
  <2>2. e = events[at]
    BY <1>1, <1>2, <1>5, <1>7 DEF Consumption, TombstoneEvent
  <2>3. e \in Event
    BY <1>1, <1>2, <1>5, ElementOfSeq
  <2>4. Len(t) = n + 1 /\ t[n + 1] = e /\ \A i \in 1..n : t[i] = resolved[i]
    BY ONLY <1>4, <2>1, <2>3, AppendProperties
  <2>5. SameText(resolved, t, n) /\ \A i \in 1..n : Alike(resolved[i], t[i])
    BY <2>4 DEF SameText, Alike
  <2>6. Spelt(h, w, t, n)
    BY <1>4, <1>5, <2>5, SpeltSame DEF SpellInv
  <2>7. Reads(h, t, n, x)
    BY <1>3, <1>4, <1>5, <2>5, ReadsAlike
  <2>8. t[n + 1].tag = "Token" => t[n + 1].kind = w[x.pos]
    <3>1. at \in 1..Len(events)
      BY <1>2
    <3> QED
      BY <1>3, <1>5, <2>2, <2>4, <3>1 DEF SpellInv, Spelling, Spelt
  <2>9. Spelt(h, w, t, n + 1)
    BY <2>6, <2>7, <2>8, SpeltMore
  <2> QED
    BY <1>5, <2>4, <2>9
<1> QED
  BY <1>6, <1>7

LEMMA SpellParse ==
    ASSUME PipelineInv, ReadInv, Spelling, [ParserNext]_parserVars PROVE Spelling'
<1>1. ParserInv /\ ParserTypeOK /\ Recorded /\ events \in Seq(Event)
  BY DEF PipelineInv, ParserInv, ParserTypeOK, ReadInv
<1>2. ASSUME NEW e \in Event, events' = Append(events, e), UNCHANGED <<tokens, non_trivia_indices>>,
             e.tag = "Token" => e.kind = Word[pos]
      PROVE  Spelling'
  BY <1>1, <1>2, SameTextSelf, SpellingAppend
<1>3. CASE StartRoot \/ Start
  <2>1. events' = Append(events, StartEvent(TOMBSTONE)) /\ UNCHANGED <<tokens, non_trivia_indices>>
    <3>1. \A e : <<e>> = Append(<<>>, e)
      OBVIOUS
    <3> QED
      BY <1>3, <3>1 DEF StartRoot, Start
  <2>2. StartEvent(TOMBSTONE) \in Event /\ StartEvent(TOMBSTONE).tag # "Token"
    BY EventTypes DEF StartEvent
  <2> QED
    BY <1>2, <2>1, <2>2
<1>4. CASE Bump
  <2>1. events' = Append(events, TokenEvent(current)) /\ UNCHANGED <<tokens, non_trivia_indices>>
    BY <1>4 DEF Bump
  <2>2. pos \in Nat /\ pos + 0 = pos /\ pos < Len(non_trivia_indices)
    BY <1>1, <1>4 DEF ParserTypeOK, Bump, at_end
  <2>3. current \in TokenKinds /\ current = Word[pos]
    BY <1>1, <2>2, NthInRange, NthIs DEF current
  <2>4. TokenEvent(current) \in Event /\ TokenEvent(current).kind = Word[pos]
    BY <2>3, EventTypes DEF TokenEvent
  <2> QED
    BY <1>2, <2>1, <2>4
<1>5. CASE Error
  <2>1. events' = Append(events, ErrorEvent) /\ UNCHANGED <<tokens, non_trivia_indices>>
    BY <1>5 DEF Error
  <2>2. ErrorEvent \in Event /\ ErrorEvent.tag # "Token"
    BY EventTypes DEF ErrorEvent
  <2> QED
    BY <1>2, <2>1, <2>2
<1>6. ASSUME NEW R, err_recover(R) PROVE Spelling'
  BY <1>1, <1>6, SpellingRecover
<1>7. ASSUME NEW k \in NodeKinds \cup {SOURCE_FILE}, Complete(k) PROVE Spelling'
  BY <1>1, <1>7, SpellingComplete
<1>8. CASE Precede
  BY <1>1, <1>8, SpellingPrecede
<1>9. CASE Abandon
  BY <1>1, <1>9, SpellingAbandon
<1>10. CASE UNCHANGED parserVars
  <2>1. UNCHANGED <<tokens, non_trivia_indices, events>>
    BY <1>10 DEF parserVars
  <2>2. Where' = Where /\ Word' = Word
    BY <2>1 DEF Where, Word, EOF
  <2> QED
    BY <2>1, <2>2 DEF Spelling
<1> QED
  BY <1>3, <1>4, <1>5, <1>6, <1>7, <1>8, <1>9, <1>10 DEF ParserNext

LEMMA SpellStep == PipelineInv /\ ReadInv /\ SpellInv /\ [Next]_vars => SpellInv'
<1> SUFFICES ASSUME PipelineInv, ReadInv, SpellInv, [Next]_vars PROVE SpellInv'
  OBVIOUS
<1>1. Spelling'
  BY PipelineParserStep, SpellParse DEF SpellInv
<1>2. Where' = Where /\ Word' = Word
  BY TextKept DEF Where, Word, EOF
<1>3. Spelt(Where, Word, resolved', Len(resolved'))
  <2>1. CASE ResolveEmit
    BY <2>1, SpellEmit
  <2>2. CASE ResolveOther
    BY <2>2, SpellOther
  <2>3. CASE ~ResolveEmit /\ ~ResolveOther
    <3>1. resolved' = resolved
      BY <2>3 DEF Next, vars, DoStart, DoBump, DoError, DoErrAndBump, DoErrRecover, DoComplete, DoPrecede,
                  DoAbandon, ParseStep, Finish, ResolveStart, ResolveFollow, ResolveDone, resolveVars,
                  BuildStart, BuildToken, BuildFinish, BuildError, Building, BuildDone, Terminated
    <3> QED
      BY <3>1 DEF SpellInv
  <2> QED
    BY <2>1, <2>2, <2>3
<1> QED
  BY <1>1, <1>2, <1>3 DEF SpellInv

--------------------------------------------------------------------------------
(* The leaves of what is built.                                               *)

Item == [item : {"open", "tok", "close"}, kind : EventKinds \cup {Trivia}, raw : Nat]

Leaves(s) == Kept(s, {i \in DOMAIN s : s[i].item = "tok"})

(* The first n raw tokens, and those from a to b. *)
Text(n) == [i \in 1..n |-> TokItem(tokens[i], i)]
Raw(a, b) == [i \in 1..(b - a) |-> TokItem(tokens[a + i], a + i)]

LEMMA KeptSifts ==
    ASSUME NEW s, NEW I, Len(s) \in Nat
    PROVE  \E g : Sifts(s, I, Len(s), g) /\ Kept(s, I) = g[Len(s)]
BY KeptExists DEF Sifts

LEMMA TextNext ==
    ASSUME NEW n \in Nat
    PROVE  Append(Text(n), TokItem(tokens[n + 1], n + 1)) = Text(n + 1)
<1>1. PICK S : S = {TokItem(tokens[i], i) : i \in 1..(n + 1)}
  OBVIOUS
<1>2. PICK e, s, t : e = TokItem(tokens[n + 1], n + 1) /\ s = Text(n) /\ t = Text(n + 1)
  OBVIOUS
<1>3. /\ s \in [1..n -> S] /\ t \in [1..(n + 1) -> S] /\ e \in S
      /\ (\A i \in 1..n : s[i] = t[i]) /\ t[n + 1] = e
  <2>1. \A i \in 1..n : i \in 1..(n + 1)
    OBVIOUS
  <2>2. n + 1 \in 1..(n + 1)
    OBVIOUS
  <2> QED
    BY <1>1, <1>2, <2>1, <2>2 DEF Text
<1>4. s \in Seq(S) /\ Len(s) = n /\ t \in Seq(S) /\ Len(t) = n + 1
  BY <1>3, IsASeq
<1>5. PICK a : a = Append(s, e)
  OBVIOUS
<1>6. a \in Seq(S) /\ Len(a) = n + 1 /\ a[n + 1] = e /\ \A i \in 1..n : a[i] = s[i]
  BY ONLY <1>3, <1>4, <1>5, AppendProperties
<1>7. \A i \in 1..(n + 1) : a[i] = t[i]
  BY <1>3, <1>6
<1> QED
  BY <1>2, <1>4, <1>5, <1>6, <1>7, SeqEqual

(* Behind s, t has the raw tokens from a on. *)
Continues(s, t, a, m) ==
    /\ Len(t) = Len(s) + m /\ Prefix(s, Len(s), t)
    /\ \A j \in 1..m : t[Len(s) + j] = TokItem(tokens[a + j], a + j)

LEMMA LeavesMore ==
    ASSUME NEW s \in Seq(Item), NEW t \in Seq(Item), NEW a \in Nat, NEW m \in Nat,
           Leaves(s) = Text(a), Continues(s, t, a, m)
    PROVE  Leaves(t) = Text(a + m)
<1>1. PICK k \in Nat : k = Len(s) /\ Len(t) = k + m
  BY DEF Continues
<1>2. PICK I, J : I = {i \in DOMAIN s : s[i].item = "tok"} /\ J = {i \in DOMAIN t : t[i].item = "tok"}
  OBVIOUS
<1>3. DOMAIN s = 1..k /\ DOMAIN t = 1..(k + m) /\ Prefix(s, k, t)
  BY <1>1 DEF Continues
<1>4. SameUpTo(I, J, k)
  BY <1>2, <1>3 DEF Prefix, SameUpTo
<1>5. PICK g : Sifts(s, I, k, g) /\ Leaves(s) = g[k]
  BY <1>1, <1>2, KeptSifts DEF Leaves
<1>6. PICK f : Sifts(t, J, k + m, f) /\ Leaves(t) = f[k + m]
  <2>1. Len(t) \in Nat
    OBVIOUS
  <2>2. \E f : Sifts(t, J, Len(t), f) /\ Kept(t, J) = f[Len(t)]
    BY <2>1, KeptSifts
  <2> QED
    BY <1>1, <1>2, <2>2 DEF Leaves
<1>7. f[k] = Text(a)
  <2>1. k \in 0..(k + m)
    OBVIOUS
  <2>2. Sifts(t, J, k, f)
    BY <1>6, <2>1, SiftsLess
  <2>3. f[k] = g[k]
    BY <1>3, <1>4, <1>5, <2>2, KeptPrefix
  <2> QED
    BY <1>5, <2>3
<1> DEFINE T == {j \in Nat : j <= m => f[k + j] = Text(a + j)}
<1>8. 0 \in T
  BY <1>7
<1>9. ASSUME NEW j \in Nat, j \in T PROVE j + 1 \in T
  <2> SUFFICES ASSUME j + 1 <= m PROVE f[k + (j + 1)] = Text(a + (j + 1))
    OBVIOUS
  <2>1. PICK i \in Nat, b \in Nat : /\ i = k + (j + 1) /\ i - 1 = k + j /\ i \in 1..(k + m)
                                    /\ b = a + j /\ b + 1 = a + (j + 1) /\ j + 1 \in 1..m
    OBVIOUS
  <2>2. t[i] = TokItem(tokens[b + 1], b + 1)
    BY <1>1, <2>1 DEF Continues
  <2>3. i \in J
    BY <1>2, <1>3, <2>1, <2>2 DEF TokItem
  <2>4. f[i - 1] = Text(b)
    BY <1>9, <2>1
  <2>5. f[i] = Append(Text(b), TokItem(tokens[b + 1], b + 1))
    BY <1>6, <2>1, <2>2, <2>3, <2>4 DEF Sifts
  <2> QED
    BY <2>1, <2>5, TextNext
<1> HIDE DEF T
<1>10. m \in T
  BY <1>8, <1>9, ClosedUnderSuccessor
<1> QED
  BY <1>6, <1>10 DEF T

LEMMA LeavesOther ==
    ASSUME NEW s \in Seq(Item), NEW e \in Item, e.item # "tok"
    PROVE  Leaves(Append(s, e)) = Leaves(s)
<1>0. PICK k \in Nat : k = Len(s)
  OBVIOUS
<1>1. PICK t : k = Len(s) /\ t = Append(s, e)
  BY <1>0
<1>2. t \in Seq(Item) /\ Len(t) = k + 1 /\ t[k + 1] = e /\ \A i \in 1..k : t[i] = s[i]
  <2>1. s \in Seq(Item) /\ e \in Item
    OBVIOUS
  <2> QED
    BY ONLY <1>1, <2>1, AppendProperties
<1>3. PICK I, J : I = {i \in DOMAIN s : s[i].item = "tok"} /\ J = {i \in DOMAIN t : t[i].item = "tok"}
  OBVIOUS
<1>4. DOMAIN s = 1..k /\ DOMAIN t = 1..(k + 1) /\ Prefix(s, k, t) /\ k + 1 \notin J
  BY <1>1, <1>2, <1>3 DEF Prefix
<1>5. SameUpTo(I, J, k)
  BY <1>3, <1>4 DEF Prefix, SameUpTo
<1>6. PICK g : Sifts(s, I, k, g) /\ Leaves(s) = g[k]
  BY <1>1, <1>3, KeptSifts DEF Leaves
<1>7. PICK f : Sifts(t, J, k + 1, f) /\ Leaves(t) = f[k + 1]
  <2>1. Len(t) \in Nat
    BY <1>2
  <2>2. \E f : Sifts(t, J, Len(t), f) /\ Kept(t, J) = f[Len(t)]
    BY <2>1, KeptSifts
  <2> QED
    BY <1>2, <1>3, <2>2 DEF Leaves
<1>8. f[k] = g[k]
  <2>1. k \in 0..(k + 1)
    OBVIOUS
  <2>2. Sifts(t, J, k, f)
    BY <1>7, <2>1, SiftsLess
  <2> QED
    BY <1>4, <1>5, <1>6, <2>2, KeptPrefix
<1>9. f[k + 1] = f[k]
  <2>1. k + 1 \in 1..(k + 1) /\ (k + 1) - 1 = k
    OBVIOUS
  <2> QED
    BY <1>4, <1>7, <2>1 DEF Sifts
<1> QED
  BY <1>1, <1>6, <1>7, <1>8, <1>9

LEMMA TriviaApart == Trivia \notin EventKinds
BY KindsAssumption DEF EventKinds, CompletedKinds

LEMMA RawContinues ==
    ASSUME tokens \in Seq(TokenKinds \cup {Trivia}), NEW s \in Seq(Item), NEW a \in Nat, NEW b \in a..Len(tokens)
    PROVE  s \o Raw(a, b) \in Seq(Item) /\ Continues(s, s \o Raw(a, b), a, b - a)
<1>1. PICK m \in Nat : m = b - a
  <2>1. b - a \in Nat
    OBVIOUS
  <2> QED
    BY <2>1
<1>2. PICK r : r = Raw(a, b)
  OBVIOUS
<1>3. r \in [1..m -> Item] /\ \A i \in 1..m : r[i] = TokItem(tokens[a + i], a + i)
  <2>1. ASSUME NEW i \in 1..m PROVE TokItem(tokens[a + i], a + i) \in Item
    <3>1. a + i \in 1..Len(tokens) /\ a + i \in Nat
      BY <1>1
    <3>2. tokens[a + i] \in TokenKinds \cup {Trivia}
      BY <3>1, ElementOfSeq
    <3> QED
      BY <3>1, <3>2 DEF TokItem, Item, EventKinds
  <2> QED
    BY <1>1, <1>2, <2>1 DEF Raw
<1>4. r \in Seq(Item) /\ Len(r) = m
  BY <1>3, IsASeq
<1>5. PICK k \in Nat : k = Len(s)
  OBVIOUS
<1>6. PICK t : t = s \o r
  OBVIOUS
<1>7. t \in Seq(Item) /\ Len(t) = k + m /\ \A i \in 1..(k + m) : t[i] = IF i <= k THEN s[i] ELSE r[i - k]
  <2>1. s \in Seq(Item)
    OBVIOUS
  <2> QED
    BY ONLY <1>4, <1>5, <1>6, <2>1, ConcatProperties
<1>8. Prefix(s, k, t)
  <2>1. \A i \in 1..k : i \in 1..(k + m) /\ i <= k
    OBVIOUS
  <2> QED
    BY <1>7, <2>1 DEF Prefix
<1>9. ASSUME NEW j \in 1..m PROVE t[k + j] = TokItem(tokens[a + j], a + j)
  <2>1. k + j \in 1..(k + m) /\ ~(k + j <= k) /\ (k + j) - k = j
    OBVIOUS
  <2>2. t[k + j] = r[j]
    BY <1>7, <2>1
  <2> QED
    BY <1>3, <2>2
<1>10. Continues(s, t, a, m)
  BY <1>5, <1>7, <1>8, <1>9 DEF Continues
<1> QED
  BY <1>1, <1>2, <1>6, <1>7, <1>10

(* Trivia neither follows an open node nor precedes a closed one, the first  *)
(* item aside.                                                               *)
NeatAt(s, i) ==
    /\ s[i].item = "open" => s[i + 1].kind # Trivia
    /\ s[i + 1].item = "close" => s[i].kind # Trivia
Neat(s) == \A i \in 2..(Len(s) - 1) : NeatAt(s, i)
EndsOpen(s) == Len(s) >= 2 /\ s[Len(s)].item = "open"

LEMMA NeatRaw ==
    ASSUME NEW s \in Seq(Item), NEW t \in Seq(Item), NEW a, NEW m \in Nat,
           Neat(s), Continues(s, t, a, m), EndsOpen(s) => m = 0
    PROVE  Neat(t)
<1>1. PICK k \in Nat : k = Len(s) /\ Len(t) = k + m
  BY DEF Continues
<1>2. \A i \in 1..k : t[i] = s[i]
  BY <1>1 DEF Continues, Prefix
<1>3. ASSUME NEW i \in (k + 1)..(k + m) PROVE t[i].item = "tok"
  <2>1. i - k \in 1..m /\ k + (i - k) = i
    OBVIOUS
  <2>2. t[i] = TokItem(tokens[a + (i - k)], a + (i - k))
    BY <1>1, <2>1 DEF Continues
  <2> QED
    BY <2>2 DEF TokItem
<1> SUFFICES ASSUME NEW i \in 2..(k + m - 1) PROVE NeatAt(t, i)
  BY <1>1 DEF Neat
<1>4. CASE i + 1 <= k
  <2>1. i \in 2..(k - 1) /\ i \in 1..k /\ i + 1 \in 1..k
    BY <1>4
  <2>2. NeatAt(s, i)
    BY <1>1, <2>1 DEF Neat
  <2> QED
    BY <1>2, <2>1, <2>2 DEF NeatAt
<1>5. CASE i + 1 > k
  <2>1. i + 1 \in (k + 1)..(k + m)
    BY <1>5
  <2>2. t[i + 1].item # "close"
    BY <1>3, <2>1
  <2>3. t[i].item # "open"
    <3>1. CASE i = k
      <4>1. k >= 2 /\ m # 0 /\ i \in 1..k
        BY <2>1, <3>1
      <4> QED
        BY <1>1, <1>2, <3>1, <4>1 DEF EndsOpen
    <3>2. CASE i # k
      <4>1. i \in (k + 1)..(k + m)
        BY <2>1, <3>2
      <4> QED
        BY <1>3, <4>1
    <3> QED
      BY <3>1, <3>2
  <2> QED
    BY <2>2, <2>3 DEF NeatAt
<1> QED
  BY <1>4, <1>5

LEMMA NeatAppend ==
    ASSUME NEW s \in Seq(Item), NEW e \in Item, Neat(s), e.kind # Trivia,
           e.item = "close" /\ Len(s) >= 2 => s[Len(s)].kind # Trivia
    PROVE  /\ Neat(Append(s, e)) /\ Append(s, e) \in Seq(Item)
           /\ Len(Append(s, e)) = Len(s) + 1 /\ Append(s, e)[Len(s) + 1] = e
<1>1. PICK k \in Nat : k = Len(s)
  OBVIOUS
<1>2. PICK t : t = Append(s, e)
  OBVIOUS
<1>3. t \in Seq(Item) /\ Len(t) = k + 1 /\ t[k + 1] = e /\ \A i \in 1..k : t[i] = s[i]
  <2>1. s \in Seq(Item) /\ e \in Item
    OBVIOUS
  <2> QED
    BY ONLY <1>1, <1>2, <2>1, AppendProperties
<1>4. ASSUME NEW i \in 2..k PROVE NeatAt(t, i)
  <2>1. CASE i = k
    <3>1. t[i] = s[k] /\ t[i + 1] = e /\ k >= 2
      BY <1>3, <2>1
    <3> QED
      BY <1>1, <3>1 DEF NeatAt
  <2>2. CASE i # k
    <3>1. i \in 2..(k - 1) /\ i \in 1..k /\ i + 1 \in 1..k
      BY <2>2
    <3>2. NeatAt(s, i)
      BY <1>1, <3>1 DEF Neat
    <3> QED
      BY <1>3, <3>1, <3>2 DEF NeatAt
  <2> QED
    BY <2>1, <2>2
<1>5. Neat(t)
  <2>1. \A i \in 2..(Len(t) - 1) : i \in 2..k
    BY <1>3
  <2> QED
    BY <1>4, <2>1 DEF Neat
<1> QED
  BY <1>1, <1>2, <1>3, <1>5

(* The raw tokens from a to b may follow s, and then the item e. *)
Fits(s, a, b, e) ==
    /\ s \in Seq(Item) /\ a \in Nat /\ b \in a..Len(tokens)
    /\ Leaves(s) = Text(a) /\ Neat(s) /\ (EndsOpen(s) => b = a)
    /\ e \in Item /\ e.kind # Trivia
    /\ e.item = "close" => b = a /\ (Len(s) >= 2 => s[Len(s)].kind # Trivia)

Weave(s, a, b, e) == (s \o Raw(a, b)) \o <<e>>

LEMMA Woven ==
    ASSUME tokens \in Seq(TokenKinds \cup {Trivia}), NEW s, NEW a, NEW b, NEW e, Fits(s, a, b, e),
           NEW v, v = Weave(s, a, b, e)
    PROVE  /\ v \in Seq(Item) /\ Neat(v) /\ v[Len(v)] = e
           /\ e.item # "tok" => Leaves(v) = Text(b)
           /\ e = TokItem(tokens[b + 1], b + 1) => Leaves(v) = Text(b + 1)
<1> USE DEF Fits
<1>1. PICK u, m : u = s \o Raw(a, b) /\ m = b - a
  OBVIOUS
<1>2. u \in Seq(Item) /\ Continues(s, u, a, m) /\ m \in Nat /\ b \in Nat /\ a + m = b
  <2>1. s \in Seq(Item) /\ a \in Nat /\ b \in a..Len(tokens)
    OBVIOUS
  <2>2. s \o Raw(a, b) \in Seq(Item) /\ Continues(s, s \o Raw(a, b), a, b - a)
    BY ONLY tokens \in Seq(TokenKinds \cup {Trivia}), <2>1, RawContinues
  <2>3. m \in Nat /\ b \in Nat /\ a + m = b
    BY <1>1, <2>1
  <2> QED
    BY <1>1, <2>2, <2>3
<1>3. Leaves(u) = Text(b)
  BY <1>2, LeavesMore
<1>4. Neat(u)
  <2>1. EndsOpen(s) => m = 0
    BY <1>1
  <2> QED
    BY <1>2, <2>1, NeatRaw
<1>5. e.item = "close" /\ Len(u) >= 2 => u[Len(u)].kind # Trivia
  <2>1. ASSUME e.item = "close", Len(u) >= 2 PROVE u[Len(u)].kind # Trivia
    <3>1. m = 0 /\ Len(s) \in Nat
      BY <1>1, <2>1
    <3>2. Len(u) = Len(s) /\ Len(s) >= 2 /\ Len(s) \in 1..Len(s)
      BY <1>2, <2>1, <3>1 DEF Continues
    <3>3. u[Len(s)] = s[Len(s)]
      BY <1>2, <3>2 DEF Continues, Prefix
    <3> QED
      BY <2>1, <3>2, <3>3
  <2> QED
    BY <2>1
<1>6. PICK t : t = Append(u, e)
  OBVIOUS
<1>7. t \in Seq(Item) /\ Neat(t) /\ Len(t) = Len(u) + 1 /\ t[Len(u) + 1] = e
  BY <1>2, <1>4, <1>5, <1>6, NeatAppend
<1>8. Len(t) >= 1 /\ t[Len(t)] = e
  BY <1>2, <1>7
<1>9. e.item # "tok" => Leaves(t) = Text(b)
  BY <1>2, <1>3, <1>6, LeavesOther
<1>10. e = TokItem(tokens[b + 1], b + 1) => Leaves(t) = Text(b + 1)
  <2>1. ASSUME e = TokItem(tokens[b + 1], b + 1) PROVE Leaves(t) = Text(b + 1)
    <3>1. Prefix(u, Len(u), t)
      <4>1. \A i \in 1..Len(u) : t[i] = u[i]
        BY <1>2, <1>6, AppendProperties
      <4> QED
        BY <4>1 DEF Prefix
    <3>2. Continues(u, t, b, 1)
      BY <1>7, <2>1, <3>1 DEF Continues
    <3> QED
      BY <1>2, <1>3, <1>7, <3>2, LeavesMore
  <2> QED
    BY <2>1
<1>11. t = v
  BY <1>1, <1>2, <1>6, AppendIsConcat DEF Weave
<1> QED
  BY <1>7, <1>8, <1>9, <1>10, <1>11

(* The significant tokens are listed in their order. *)
Ascending == \A i \in 1..(Len(non_trivia_indices) - 1) : non_trivia_indices[i] < non_trivia_indices[i + 1]

(* Until the root is closed: the leaves built are the first raw_pos tokens,  *)
(* none of them behind the next significant one; only directly inside the    *)
(* root may trivia come last.                                                *)
Weaving ==
    /\ out \in Seq(Item) /\ Leaves(out) = Text(raw_pos)
    /\ raw_pos <= Where[nt_pos]
    /\ next = 1 => out = <<>>
    /\ Neat(out)
    /\ EndsOpen(out) => raw_pos = TriviaTo
    /\ depth >= 2 /\ Len(out) >= 2 => out[Len(out)].kind # Trivia
    /\ depth <= 1 => ~EndsOpen(out)

(* And then: all the text is there. *)
Whole ==
    /\ Leaves(out) = Text(Len(tokens))
    /\ \A i \in 2..(Len(out) - 2) : NeatAt(out, i)

(* What makes TextInPlace inductive. *)
TextInv ==
    /\ Ascending
    /\ phase \in {"parse", "resolve"} => out = <<>> /\ raw_pos = 0
    /\ phase = "build" /\ next <= Len(resolved) => Weaving
    /\ (phase = "build" /\ next > Len(resolved)) \/ phase = "done" => Whole

LEMMA TextInit == Init => TextInv
<1> SUFFICES ASSUME Init PROVE TextInv
  OBVIOUS
<1>1. tokens \in Seq(TokenKinds \cup {Trivia}) /\ non_trivia_indices \in NonTriviaIndices(tokens)
  BY KindsAssumption DEF Init, ParserInit
<1>2. PICK n \in 0..Len(tokens) : /\ non_trivia_indices \in [1..n -> {i \in DOMAIN tokens : tokens[i] # Trivia}]
                                  /\ \A i, j \in 1..n : i < j => non_trivia_indices[i] < non_trivia_indices[j]
  BY <1>1 DEF NonTriviaIndices
<1>3. n \in Nat
  BY <1>1
<1>4. Len(non_trivia_indices) = n
  BY <1>2, <1>3, IsASeq
<1>5. Ascending
  BY <1>2, <1>3, <1>4 DEF Ascending
<1> QED
  BY <1>5 DEF Init, TextInv

LEMMA RawIs == ASSUME NEW b PROVE RawItems(b) = Raw(raw_pos, b)
BY DEF RawItems, Raw

(* What the builder's step finds. *)
LEMMA WeavePlace ==
    ASSUME PipelineInv, ReadInv, NestInv, Cursors, TextInv,
           BuildStart \/ BuildToken \/ BuildFinish \/ BuildError
    PROVE  /\ tokens \in Seq(TokenKinds \cup {Trivia}) /\ Len(tokens) \in Nat
           /\ raw_pos \in Nat /\ raw_pos <= Len(tokens) /\ nt_pos \in Nat /\ TriviaTo \in raw_pos..Len(tokens)
           /\ nt_pos < Len(non_trivia_indices) =>
                 /\ non_trivia_indices[nt_pos + 1] \in 1..Len(tokens)
                 /\ TriviaTo = non_trivia_indices[nt_pos + 1] - 1
           /\ Weaving /\ phase' = "build" /\ UNCHANGED resolved /\ next' = next + 1
           /\ next \in Nat \ {0} /\ next <= Len(resolved) /\ Len(resolved) \in Nat
           /\ depth \in Nat /\ (depth = 0 <=> next = 1) /\ resolved[1].tag = "Start"
           /\ (depth + Delta(resolved[next].tag) = 0 <=> next = Len(resolved))
           /\ resolved[next].kind \in EventKinds
<1>1. phase = "build" /\ next <= Len(resolved)
  BY DEF BuildStart, BuildToken, BuildFinish, BuildError, Building
<1>2. PICK d : BuiltNest(d)
  BY <1>1 DEF NestInv
<1>3. /\ phase' = "build" /\ UNCHANGED resolved /\ next' = next + 1
      /\ next \in Nat \ {0} /\ Len(resolved) \in Nat /\ next <= Len(resolved)
      /\ depth \in Nat /\ (depth = 0 <=> next = 1) /\ resolved[1].tag = "Start"
      /\ d[next] = depth + Delta(resolved[next].tag)
      /\ (d[next] = 0 <=> next = Len(resolved))
  BY <1>2, BuildPlace
<1>4. Weaving
  BY <1>1 DEF TextInv
<1>5. ParserTypeOK /\ tokens \in Seq(TokenKinds \cup {Trivia}) /\ Len(tokens) \in Nat /\ Len(non_trivia_indices) \in Nat
  BY DEF PipelineInv, ParserInv, ParserTypeOK
<1>6. raw_pos \in Nat /\ raw_pos <= Len(tokens) /\ nt_pos \in Nat
  BY <1>5 DEF Cursors
<1>7. nt_pos < Len(non_trivia_indices) => non_trivia_indices[nt_pos + 1] \in 1..Len(tokens)
  BY <1>5, <1>6 DEF ParserTypeOK
<1>8. nt_pos < Len(non_trivia_indices) => raw_pos <= non_trivia_indices[nt_pos + 1] - 1
  BY <1>4, <1>6 DEF Weaving, Where
<1>9. TriviaTo \in raw_pos..Len(tokens)
  BY <1>5, <1>6, <1>7, <1>8 DEF TriviaTo
<1>10. resolved[next].kind \in EventKinds
  <2>1. resolved \in Seq(Event) /\ next \in 1..Len(resolved)
    BY <1>3 DEF ReadInv
  <2>2. resolved[next] \in Event
    BY <2>1, ElementOfSeq
  <2> QED
    BY <2>2 DEF Event
<1>11. nt_pos < Len(non_trivia_indices) => TriviaTo = non_trivia_indices[nt_pos + 1] - 1
  BY DEF TriviaTo
<1> QED
  BY <1>3, <1>4, <1>5, <1>6, <1>7, <1>9, <1>10, <1>11

(* Opening the root, the trivia inside. *)
LEMMA WeaveRoot ==
    ASSUME tokens \in Seq(TokenKinds \cup {Trivia}), NEW b \in 0..Len(tokens),
           NEW k \in EventKinds, NEW t, t = (<<>> \o <<OpenItem(k)>>) \o Raw(0, b)
    PROVE  t \in Seq(Item) /\ Neat(t) /\ Leaves(t) = Text(b) /\ ~EndsOpen(t)
<1>1. PICK e : e = OpenItem(k)
  OBVIOUS
<1>2. e \in Item /\ e.item = "open" /\ e.kind # Trivia
  BY <1>1, TriviaApart DEF Item, OpenItem
<1>3. PICK z : z = <<>> /\ z \in Seq(Item) /\ Len(z) = 0
  <2>1. <<>> \in Seq(Item) /\ Len(<<>>) = 0
    OBVIOUS
  <2> QED
    BY <2>1
<1>4. PICK s : s = Append(z, e)
  OBVIOUS
<1>5. Neat(z)
  BY <1>3 DEF Neat
<1>6. s \in Seq(Item) /\ Neat(s) /\ Len(s) = 1 /\ s[1] = e
  <2>1. 0 + 1 = 1 /\ ~(Len(z) >= 2)
    BY <1>3
  <2>2. e.item = "close" /\ Len(z) >= 2 => z[Len(z)].kind # Trivia
    BY <2>1
  <2>3. /\ Neat(Append(z, e)) /\ Append(z, e) \in Seq(Item)
        /\ Len(Append(z, e)) = Len(z) + 1 /\ Append(z, e)[Len(z) + 1] = e
    BY ONLY <1>2, <1>3, <1>5, <2>2, NeatAppend, ZenonT(60)
  <2> QED
    BY <1>3, <1>4, <2>1, <2>3
<1>7. Leaves(z) = Text(0)
  <2>1. DOMAIN z = {}
    BY <1>3
  <2>2. PICK g : Sifts(z, {i \in DOMAIN z : z[i].item = "tok"}, Len(z), g) /\ Leaves(z) = g[Len(z)]
    BY <1>3, KeptSifts DEF Leaves
  <2>3. Leaves(z) = <<>>
    BY <1>3, <2>2 DEF Sifts
  <2>4. Text(0) = <<>>
    BY DEF Text
  <2> QED
    BY <2>3, <2>4
<1>8. Leaves(s) = Text(0)
  BY <1>2, <1>3, <1>4, <1>7, LeavesOther
<1>9. s = <<>> \o <<OpenItem(k)>>
  BY <1>1, <1>2, <1>3, <1>4, AppendIsConcat
<1>10. t = s \o Raw(0, b)
  BY <1>9
<1>11. PICK m \in Nat : m = b
  <2>1. b \in Nat
    OBVIOUS
  <2> QED
    BY <2>1
<1>12. m - 0 = m /\ 0 + m = m /\ m \in 0..Len(tokens) /\ 0 \in Nat
  BY <1>11
<1>13. t \in Seq(Item) /\ Continues(s, t, 0, m)
  <2>1. s \o Raw(0, b) \in Seq(Item) /\ Continues(s, s \o Raw(0, b), 0, b - 0)
    BY <1>6, RawContinues, 0 \in Nat
  <2> QED
    BY <1>10, <1>11, <1>12, <2>1
<1>14. Leaves(t) = Text(m)
  <2>1. Leaves(t) = Text(0 + m)
    BY <1>6, <1>8, <1>13, LeavesMore, 0 \in Nat
  <2> QED
    BY <1>12, <2>1
<1>15. ~EndsOpen(s)
  BY <1>6 DEF EndsOpen
<1>16. Neat(t)
  BY <1>6, <1>13, <1>15, NeatRaw
<1>17. ~EndsOpen(t)
  <2> SUFFICES ASSUME Len(t) >= 2 PROVE t[Len(t)].item # "open"
    BY DEF EndsOpen
  <2>1. Len(t) = 1 + m /\ m \in 1..m
    BY <1>6, <1>11, <1>13 DEF Continues
  <2>2. t[1 + m] = TokItem(tokens[0 + m], 0 + m)
    BY <1>6, <1>13, <2>1 DEF Continues
  <2> QED
    BY <2>1, <2>2 DEF TokItem
<1> QED
  BY <1>11, <1>13, <1>14, <1>16, <1>17

(* The next state of the weaving, from what the step has appended. *)
LEMMA Weaves ==
    ASSUME ParserTypeOK', Cursors', next' \in Nat, next' # 1,
           out' \in Seq(Item), Leaves(out') = Text(raw_pos'), tokens' = tokens,
           raw_pos' <= Where'[nt_pos'], Neat(out'),
           EndsOpen(out') => raw_pos' = TriviaTo',
           depth' >= 2 => out'[Len(out')].kind # Trivia,
           depth' <= 1 => ~EndsOpen(out')
    PROVE  Weaving'
<1>1. Leaves(out)' = Leaves(out') /\ Neat(out)' = Neat(out') /\ EndsOpen(out)' = EndsOpen(out')
  BY DEF Leaves, Neat, EndsOpen, NeatAt, Kept
<1>2. Text(raw_pos)' = Text(raw_pos')
  BY DEF Text
<1> QED
  BY <1>1, <1>2 DEF Weaving

LEMMA TextStart ==
    ASSUME PipelineInv, ReadInv, NestInv, Cursors, Cursors', ParserTypeOK', TextInv, BuildStart,
           UNCHANGED <<tokens, non_trivia_indices>>
    PROVE  Weaving' /\ next' <= Len(resolved')
<1>1. /\ tokens \in Seq(TokenKinds \cup {Trivia}) /\ Len(tokens) \in Nat
      /\ raw_pos \in Nat /\ raw_pos <= Len(tokens) /\ nt_pos \in Nat /\ TriviaTo \in raw_pos..Len(tokens)
      /\ Weaving /\ UNCHANGED resolved /\ next' = next + 1
      /\ next \in Nat \ {0} /\ next <= Len(resolved) /\ Len(resolved) \in Nat
      /\ depth \in Nat /\ (depth = 0 <=> next = 1)
      /\ (depth + Delta(resolved[next].tag) = 0 <=> next = Len(resolved))
      /\ resolved[next].kind \in EventKinds
  BY WeavePlace
<1>2. PICK k \in EventKinds, b \in Nat : k = resolved[next].kind /\ b = TriviaTo
  BY <1>1
<1>3. /\ resolved[next].tag = "Start" /\ raw_pos' = b /\ depth' = depth + 1 /\ nt_pos' = nt_pos
      /\ out' = IF depth > 0 THEN (out \o Raw(raw_pos, b)) \o <<OpenItem(k)>>
                             ELSE (out \o <<OpenItem(k)>>) \o Raw(raw_pos, b)
  BY <1>2, RawIs DEF BuildStart
<1>4. next' # 1 /\ next' \in Nat /\ next' <= Len(resolved')
  BY <1>1, <1>3 DEF Delta
<1>5. raw_pos' = TriviaTo'
  BY <1>2, <1>3 DEF TriviaTo
<1>6. raw_pos' <= Where'[nt_pos']
  <2>1. Where' = Where /\ Where[nt_pos] = IF nt_pos < Len(non_trivia_indices)
                                             THEN non_trivia_indices[nt_pos + 1] - 1 ELSE Len(tokens)
    BY <1>1 DEF Where
  <2>2. CASE nt_pos < Len(non_trivia_indices)
    <3>1. raw_pos' = Where'[nt_pos']
      BY <1>2, <1>3, <2>1, <2>2 DEF TriviaTo
    <3> QED
      BY <1>2, <1>3, <3>1
  <2>3. CASE ~(nt_pos < Len(non_trivia_indices))
    BY <1>1, <1>2, <1>3, <2>1, <2>3
  <2> QED
    BY <2>2, <2>3
<1>7. b \in raw_pos..Len(tokens)
  BY <1>1, <1>2
<1>8. CASE depth > 0
  <2>1. PICK e : e = OpenItem(k)
    OBVIOUS
  <2>2. e \in Item /\ e.item = "open" /\ e.kind # Trivia
    BY <2>1, TriviaApart DEF Item, OpenItem
  <2>3. out \in Seq(Item) /\ Leaves(out) = Text(raw_pos) /\ Neat(out) /\ (EndsOpen(out) => b = raw_pos)
    BY <1>1, <1>2 DEF Weaving
  <2>4. PICK t : t = out'
    OBVIOUS
  <2>5. t = Weave(out, raw_pos, b, e)
    BY <1>3, <1>8, <2>1, <2>4 DEF Weave
  <2>6. t \in Seq(Item) /\ Neat(t) /\ Leaves(t) = Text(b) /\ t[Len(t)] = e
    <3>1. e.item # "close" /\ e.item # "tok"
      BY <2>2
    <3>2. Fits(out, raw_pos, b, e)
      BY <1>1, <1>7, <2>2, <2>3, <3>1 DEF Fits
    <3> QED
      BY <1>1, <2>5, <3>1, <3>2, Woven
  <2>7. ~(depth' <= 1)
    BY <1>1, <1>3, <1>8
  <2> QED
    BY <1>3, <1>4, <1>5, <1>6, <2>2, <2>4, <2>6, <2>7, Weaves
<1>9. CASE ~(depth > 0)
  <2>1. depth = 0 /\ next = 1
    BY <1>1, <1>9
  <2>2. out = <<>> /\ Leaves(out) = Text(raw_pos)
    BY <1>1, <2>1 DEF Weaving
  <2>3. raw_pos = 0
    <3>1. PICK g : Sifts(out, {i \in DOMAIN out : out[i].item = "tok"}, 0, g) /\ Leaves(out) = g[0]
      <4>1. Len(out) = 0
        BY <2>2
      <4> QED
        BY <4>1, KeptSifts DEF Leaves
    <3>2. Text(raw_pos) = <<>>
      BY <2>2, <3>1 DEF Sifts
    <3>3. PICK t : t = Text(raw_pos)
      OBVIOUS
    <3>4. Len(t) = 0 /\ DOMAIN t = {}
      BY <3>2, <3>3
    <3>5. DOMAIN t = 1..raw_pos
      BY <3>3 DEF Text
    <3> QED
      BY <1>1, <3>4, <3>5
  <2>4. PICK t : t = out'
    OBVIOUS
  <2>5. t = (<<>> \o <<OpenItem(k)>>) \o Raw(0, b)
    BY <1>3, <1>9, <2>2, <2>3, <2>4
  <2>6. b \in 0..Len(tokens)
    BY <1>7, <2>3
  <2>7. t \in Seq(Item) /\ Neat(t) /\ Leaves(t) = Text(b) /\ ~EndsOpen(t)
    BY <1>1, <2>5, <2>6, WeaveRoot
  <2>8. ~(depth' >= 2)
    BY <1>3, <2>1
  <2> QED
    BY <1>3, <1>4, <1>5, <1>6, <2>4, <2>7, <2>8, Weaves
<1> QED
  BY <1>4, <1>8, <1>9

LEMMA TextToken ==
    ASSUME PipelineInv, ReadInv, NestInv, Cursors, Cursors', ParserTypeOK', SpellInv, TextInv, BuildToken,
           UNCHANGED <<tokens, non_trivia_indices>>
    PROVE  Weaving' /\ next' <= Len(resolved')
<1>1. /\ tokens \in Seq(TokenKinds \cup {Trivia}) /\ Len(tokens) \in Nat
      /\ raw_pos \in Nat /\ raw_pos <= Len(tokens) /\ nt_pos \in Nat /\ TriviaTo \in raw_pos..Len(tokens)
      /\ nt_pos < Len(non_trivia_indices) =>
            /\ non_trivia_indices[nt_pos + 1] \in 1..Len(tokens)
            /\ TriviaTo = non_trivia_indices[nt_pos + 1] - 1
      /\ Weaving /\ phase' = "build" /\ UNCHANGED resolved /\ next' = next + 1
      /\ next \in Nat \ {0} /\ next <= Len(resolved) /\ Len(resolved) \in Nat
      /\ depth \in Nat /\ (depth = 0 <=> next = 1) /\ resolved[1].tag = "Start"
      /\ (depth + Delta(resolved[next].tag) = 0 <=> next = Len(resolved))
      /\ resolved[next].kind \in EventKinds
  BY WeavePlace
<1>2. phase = "build" /\ resolved[next].tag = "Token"
  BY DEF BuildToken, Building
<1>3. nt_pos < Len(non_trivia_indices)
  BY <1>1, <1>2, TokenLeft
<1>4. PICK b \in Nat : b + 1 = non_trivia_indices[nt_pos + 1] /\ b = TriviaTo
  <2>1. TriviaTo \in Nat /\ TriviaTo + 1 = non_trivia_indices[nt_pos + 1]
    BY <1>1, <1>3
  <2> QED
    BY <2>1
<1>5. resolved[next].kind = tokens[b + 1]
  <2>1. Reads(Where, resolved, next - 1, [pos |-> nt_pos, raised |-> errors])
    BY <1>2 DEF ReadInv
  <2>2. next \in 1..Len(resolved) /\ [pos |-> nt_pos, raised |-> errors].pos = nt_pos
    BY <1>1
  <2>3. resolved[next].kind = Word[nt_pos]
    BY <1>2, <2>1, <2>2 DEF SpellInv, Spelt
  <2> QED
    BY <1>1, <1>3, <1>4, <2>3 DEF Word
<1>6. PICK e : e = TokItem(tokens[b + 1], b + 1)
  OBVIOUS
<1>7. e \in Item /\ e.item = "tok" /\ e.kind # Trivia
  BY <1>1, <1>4, <1>5, <1>6, TriviaApart DEF Item, TokItem
<1>8. /\ raw_pos' = b + 1 /\ nt_pos' = nt_pos + 1 /\ depth' = depth
      /\ out' = (out \o Raw(raw_pos, b)) \o <<e>>
  <2>1. (b + 1) - 1 = b
    OBVIOUS
  <2> QED
    BY <1>3, <1>4, <1>5, <1>6, <2>1, RawIs DEF BuildToken
<1>9. depth >= 1 /\ next' # 1 /\ next' \in Nat /\ next' <= Len(resolved')
  BY <1>1, <1>2 DEF Delta
<1>10. PICK t : t = out'
  OBVIOUS
<1>11. t = Weave(out, raw_pos, b, e)
  BY <1>8, <1>10 DEF Weave
<1>12. Fits(out, raw_pos, b, e)
  <2>1. b \in raw_pos..Len(tokens)
    BY <1>1, <1>4
  <2> QED
    BY <1>1, <1>4, <1>7, <2>1 DEF Fits, Weaving
<1>13. t \in Seq(Item) /\ Neat(t) /\ Leaves(t) = Text(b + 1) /\ t[Len(t)] = e
  <2>1. tokens \in Seq(TokenKinds \cup {Trivia})
    BY <1>1
  <2>2. /\ t \in Seq(Item) /\ Neat(t) /\ t[Len(t)] = e
        /\ e = TokItem(tokens[b + 1], b + 1) => Leaves(t) = Text(b + 1)
    BY ONLY <2>1, <1>11, <1>12, Woven
  <2> QED
    BY <1>6, <2>2
<1>14. raw_pos' <= Where'[nt_pos']
  <2>1. Where' = Where /\ nt_pos + 1 \in Nat
    BY <1>1 DEF Where
  <2>2. Where[nt_pos + 1] = IF nt_pos + 1 < Len(non_trivia_indices)
                              THEN non_trivia_indices[(nt_pos + 1) + 1] - 1 ELSE Len(tokens)
    BY <2>1 DEF Where
  <2>3. b + 1 <= Len(tokens)
    BY <1>1, <1>3, <1>4
  <2>4. CASE nt_pos + 1 < Len(non_trivia_indices)
    <3>1. Len(non_trivia_indices) \in Nat /\ non_trivia_indices \in Seq(1..Len(tokens))
      BY DEF PipelineInv, ParserInv, ParserTypeOK
    <3>2. nt_pos + 1 \in 1..(Len(non_trivia_indices) - 1) /\ (nt_pos + 1) + 1 \in 1..Len(non_trivia_indices)
      BY <1>1, <2>4, <3>1
    <3>3. non_trivia_indices[nt_pos + 1] < non_trivia_indices[(nt_pos + 1) + 1]
      <4>1. Ascending
        BY DEF TextInv
      <4> QED
        BY ONLY <3>2, <4>1 DEF Ascending
    <3>4. non_trivia_indices[(nt_pos + 1) + 1] \in Nat
      <4>1. non_trivia_indices[(nt_pos + 1) + 1] \in 1..Len(tokens)
        BY <3>1, <3>2, ElementOfSeq
      <4> QED
        BY <1>1, <4>1
    <3> QED
      BY <1>4, <1>8, <2>1, <2>2, <2>4, <3>3, <3>4
  <2>5. CASE ~(nt_pos + 1 < Len(non_trivia_indices))
    BY <1>8, <2>1, <2>2, <2>3, <2>5
  <2> QED
    BY <2>4, <2>5
<1>15. ~EndsOpen(t)
  BY <1>7, <1>13 DEF EndsOpen
<1>16. next' \in Nat /\ next' # 1 /\ out' \in Seq(Item) /\ Leaves(out') = Text(raw_pos') /\ tokens' = tokens
  BY <1>8, <1>9, <1>10, <1>13
<1>17. Neat(out') /\ ~EndsOpen(out') /\ out'[Len(out')].kind # Trivia
  BY <1>7, <1>10, <1>13, <1>15
<1> QED
  BY <1>9, <1>14, <1>16, <1>17, Weaves

LEMMA TextError ==
    ASSUME PipelineInv, ReadInv, NestInv, Cursors, TextInv, BuildError,
           UNCHANGED <<tokens, non_trivia_indices>>
    PROVE  Weaving' /\ next' <= Len(resolved')
<1>1. /\ Weaving /\ UNCHANGED resolved /\ next' = next + 1
      /\ next \in Nat \ {0} /\ next <= Len(resolved) /\ Len(resolved) \in Nat
      /\ depth \in Nat /\ (depth = 0 <=> next = 1) /\ resolved[1].tag = "Start"
      /\ (depth + Delta(resolved[next].tag) = 0 <=> next = Len(resolved))
  BY WeavePlace
<1>2. resolved[next].tag = "Error" /\ UNCHANGED <<depth, nt_pos, raw_pos, out>>
  BY DEF BuildError
<1>3. next' # 1 /\ next' <= Len(resolved')
  BY <1>1, <1>2 DEF Delta
<1>4. Where' = Where /\ TriviaTo' = TriviaTo /\ Text(raw_pos)' = Text(raw_pos)
  BY <1>2 DEF Where, TriviaTo, Text
<1>5. Leaves(out)' = Leaves(out) /\ Neat(out)' = Neat(out) /\ EndsOpen(out)' = EndsOpen(out)
  BY <1>2 DEF Leaves, Neat, EndsOpen, NeatAt, Kept
<1> QED
  BY <1>1, <1>2, <1>3, <1>4, <1>5 DEF Weaving

(* Closing the root behind what is left of the text. *)
LEMMA WeaveEnd ==
    ASSUME tokens \in Seq(TokenKinds \cup {Trivia}), NEW s \in Seq(Item), NEW a \in 0..Len(tokens),
           Leaves(s) = Text(a), Neat(s), ~EndsOpen(s), NEW v, v = Weave(s, a, Len(tokens), CloseItem)
    PROVE  Leaves(v) = Text(Len(tokens)) /\ \A i \in 2..(Len(v) - 2) : NeatAt(v, i)
<1>1. PICK b \in Nat : b = Len(tokens)
  OBVIOUS
<1>2. PICK m \in Nat : m = b - a
  <2>1. b - a \in Nat
    BY <1>1
  <2> QED
    BY <2>1
<1>3. a \in Nat /\ b \in a..Len(tokens) /\ a + m = b
  BY <1>1, <1>2
<1>4. PICK u : u = s \o Raw(a, b)
  OBVIOUS
<1>5. u \in Seq(Item) /\ Continues(s, u, a, m)
  <2>1. s \o Raw(a, b) \in Seq(Item) /\ Continues(s, s \o Raw(a, b), a, b - a)
    BY <1>3, RawContinues
  <2> QED
    BY <1>2, <1>4, <2>1
<1>6. Leaves(u) = Text(b)
  <2>1. Leaves(u) = Text(a + m)
    BY <1>3, <1>5, LeavesMore
  <2> QED
    BY <1>3, <2>1
<1>7. Neat(u)
  BY <1>5, NeatRaw
<1>8. PICK e : e = CloseItem
  OBVIOUS
<1>9. e \in Item /\ e.item # "tok"
  BY <1>8 DEF CloseItem, Item, EventKinds
<1>10. PICK t : t = Append(u, e)
  OBVIOUS
<1>11. v = t
  <2>1. v = (s \o Raw(a, b)) \o <<CloseItem>>
    BY <1>1 DEF Weave
  <2> QED
    BY <1>4, <1>5, <1>8, <1>9, <1>10, <2>1, AppendIsConcat
<1>12. Leaves(t) = Text(b)
  BY <1>5, <1>6, <1>9, <1>10, LeavesOther
<1>13. PICK n \in Nat : n = Len(u)
  BY <1>5
<1>14. Len(t) = n + 1 /\ \A i \in 1..n : t[i] = u[i]
  BY ONLY <1>5, <1>9, <1>10, <1>13, AppendProperties
<1>15. ASSUME NEW i \in 2..(Len(t) - 2) PROVE NeatAt(t, i)
  <2>1. i \in 2..(n - 1) /\ i \in 1..n /\ i + 1 \in 1..n
    BY <1>14
  <2>2. NeatAt(u, i)
    BY <1>7, <1>13, <2>1 DEF Neat
  <2>3. t[i] = u[i] /\ t[i + 1] = u[i + 1]
    BY <1>14, <2>1
  <2> QED
    BY <2>2, <2>3 DEF NeatAt
<1> QED
  BY <1>1, <1>11, <1>12, <1>15

LEMMA TextFinish ==
    ASSUME PipelineInv, ReadInv, NestInv, Cursors, Cursors', ParserTypeOK', TextInv, BuildFinish,
           UNCHANGED <<tokens, non_trivia_indices>>
    PROVE  IF next' <= Len(resolved') THEN Weaving' ELSE Whole'
<1>1. /\ tokens \in Seq(TokenKinds \cup {Trivia}) /\ Len(tokens) \in Nat
      /\ raw_pos \in Nat /\ raw_pos <= Len(tokens)
      /\ Weaving /\ UNCHANGED resolved /\ next' = next + 1
      /\ next \in Nat \ {0} /\ next <= Len(resolved) /\ Len(resolved) \in Nat
      /\ depth \in Nat /\ (depth = 0 <=> next = 1) /\ resolved[1].tag = "Start"
      /\ (depth + Delta(resolved[next].tag) = 0 <=> next = Len(resolved))
  BY WeavePlace
<1>2. resolved[next].tag = "Finish" /\ nt_pos' = nt_pos
  BY DEF BuildFinish
<1>3. depth >= 1 /\ next' # 1 /\ next' \in Nat /\ (next' <= Len(resolved') <=> depth # 1)
  BY <1>1, <1>2 DEF Delta
<1>4. out \in Seq(Item) /\ Leaves(out) = Text(raw_pos) /\ Neat(out) /\ raw_pos <= Where[nt_pos]
  BY <1>1 DEF Weaving
<1>5. PICK t : t = out'
  OBVIOUS
<1>6. CASE depth = 1
  <2>1. t = Weave(out, raw_pos, Len(tokens), CloseItem)
    <3>1. depth # 0
      BY <1>6
    <3>2. out' = out \o RawItems(Len(tokens)) \o <<CloseItem>>
      BY <1>6, <3>1 DEF BuildFinish
    <3>3. RawItems(Len(tokens)) = Raw(raw_pos, Len(tokens))
      BY RawIs
    <3> QED
      BY <1>5, <3>2, <3>3 DEF Weave
  <2>2. ~EndsOpen(out) /\ raw_pos \in 0..Len(tokens)
    BY <1>1, <1>6 DEF Weaving
  <2>3. Leaves(t) = Text(Len(tokens)) /\ \A i \in 2..(Len(t) - 2) : NeatAt(t, i)
    BY <1>1, <1>4, <2>1, <2>2, WeaveEnd
  <2>4. Leaves(out)' = Leaves(out') /\ Text(Len(tokens))' = Text(Len(tokens))
    BY DEF Leaves, Text, Kept
  <2>5. Whole'
    BY <1>5, <2>3, <2>4 DEF Whole, NeatAt
  <2> QED
    BY <1>3, <1>6, <2>5
<1>7. CASE depth # 1
  <2>1. PICK e : e = CloseItem
    OBVIOUS
  <2>2. e \in Item /\ e.item = "close" /\ e.kind # Trivia
    BY <2>1, TriviaApart DEF Item, CloseItem, EventKinds
  <2>3. t = Weave(out, raw_pos, raw_pos, e) /\ depth' = depth - 1 /\ raw_pos' = raw_pos
    <3>1. depth # 0
      BY <1>1, <1>3
    <3>2. out' = out \o RawItems(raw_pos) \o <<CloseItem>> /\ depth' = depth - 1 /\ raw_pos' = raw_pos
      BY <1>7, <3>1 DEF BuildFinish
    <3>3. RawItems(raw_pos) = Raw(raw_pos, raw_pos)
      BY RawIs
    <3> QED
      BY <1>5, <2>1, <3>2, <3>3 DEF Weave
  <2>4. depth >= 2
    BY <1>1, <1>3, <1>7
  <2>5. Fits(out, raw_pos, raw_pos, e)
    <3>1. raw_pos \in raw_pos..Len(tokens)
      BY <1>1
    <3>2. Len(out) >= 2 => out[Len(out)].kind # Trivia
      BY <1>1, <2>4 DEF Weaving
    <3> QED
      BY <1>1, <1>4, <2>2, <3>1, <3>2 DEF Fits
  <2>6. t \in Seq(Item) /\ Neat(t) /\ Leaves(t) = Text(raw_pos) /\ t[Len(t)] = e
    <3>1. e.item # "tok"
      BY <2>2
    <3> QED
      BY <1>1, <2>3, <2>5, <3>1, Woven
  <2>7. ~EndsOpen(t)
    BY <2>2, <2>6 DEF EndsOpen
  <2>8. Where' = Where
    BY DEF Where
  <2>9. out' \in Seq(Item) /\ Leaves(out') = Text(raw_pos') /\ raw_pos' <= Where'[nt_pos'] /\ tokens' = tokens
    BY <1>2, <1>4, <1>5, <2>3, <2>6, <2>8
  <2>10. Neat(out') /\ ~EndsOpen(out') /\ out'[Len(out')].kind # Trivia
    BY <1>5, <2>2, <2>6, <2>7
  <2>11. Weaving'
    BY <1>3, <2>9, <2>10, Weaves
  <2> QED
    BY <1>3, <1>7, <2>11
<1> QED
  BY <1>6, <1>7

LEMMA TextBegins ==
    ASSUME PipelineInv, ReadInv, NestInv, Cursors, TextInv, ResolveDone, UNCHANGED <<tokens, non_trivia_indices>>
    PROVE  Weaving' /\ next' <= Len(resolved')
<1>1. phase = "resolve" /\ phase' = "build" /\ UNCHANGED buildVars
  BY DEF ResolveDone, Resolving
<1>2. out' = <<>> /\ raw_pos' = 0 /\ next' = 1 /\ nt_pos' = 0 /\ depth' = 0
  BY <1>1 DEF TextInv, ReadInv, NestInv, buildVars
<1>3. Len(resolved') >= 1
  <2>1. NestInv'
    BY NestDone
  <2>2. PICK d : BuiltNest(d)'
    BY <1>1, <2>1 DEF NestInv
  <2> QED
    BY <2>2 DEF BuiltNest
<1>4. Leaves(<<>>) = Text(0)
  <2>1. PICK z : z = <<>> /\ Len(z) = 0
    OBVIOUS
  <2>2. PICK g : Sifts(z, {i \in DOMAIN z : z[i].item = "tok"}, Len(z), g) /\ Leaves(z) = g[Len(z)]
    BY <2>1, KeptSifts DEF Leaves
  <2>3. Leaves(z) = <<>>
    BY <2>1, <2>2 DEF Sifts
  <2>4. Text(0) = <<>>
    BY DEF Text
  <2> QED
    BY <2>1, <2>3, <2>4
<1>5. Leaves(out)' = Leaves(out') /\ Neat(out)' = Neat(out') /\ EndsOpen(out)' = EndsOpen(out')
  BY DEF Leaves, Neat, EndsOpen, NeatAt, Kept
<1>6. Text(raw_pos)' = Text(raw_pos')
  BY DEF Text
<1>7. <<>> \in Seq(Item) /\ Len(<<>>) = 0
  OBVIOUS
<1>8. Neat(<<>>) /\ ~EndsOpen(<<>>)
  BY <1>7 DEF Neat, EndsOpen
<1>9. 0 <= Where'[0]
  <2>1. Where \in [Nat -> Nat]
    BY WhereType DEF PipelineInv, ParserInv
  <2>2. Where' = Where
    BY DEF Where
  <2>3. Where[0] \in Nat
    BY <2>1
  <2> QED
    BY <2>2, <2>3
<1>10. Weaving'
  BY <1>2, <1>4, <1>5, <1>6, <1>7, <1>8, <1>9 DEF Weaving
<1> QED
  BY <1>2, <1>3, <1>10

LEMMA TextStep ==
    PipelineInv /\ ReadInv /\ NestInv /\ Cursors /\ SpellInv /\ TextInv /\ [Next]_vars => TextInv'
<1> SUFFICES ASSUME PipelineInv, ReadInv, NestInv, Cursors, SpellInv, TextInv, [Next]_vars PROVE TextInv'
  OBVIOUS
<1>1. UNCHANGED <<tokens, non_trivia_indices>>
  BY TextKept
<1>2. Cursors' /\ ParserTypeOK'
  BY CursorsStep, PipelineStepInv DEF PipelineInv, ParserInv
<1>3. Ascending'
  BY <1>1 DEF TextInv, Ascending
<1>4. CASE BuildStart \/ BuildToken \/ BuildError
  <2>1. Weaving' /\ next' <= Len(resolved')
    BY <1>1, <1>2, <1>4, TextStart, TextToken, TextError
  <2>2. phase' = "build" /\ next' \in Nat /\ Len(resolved') \in Nat
    BY <1>4, WeavePlace
  <2>3. ~(next' > Len(resolved'))
    BY <2>1, <2>2
  <2> QED
    BY <1>3, <2>1, <2>2, <2>3 DEF TextInv
<1>5. CASE BuildFinish
  <2>1. IF next' <= Len(resolved') THEN Weaving' ELSE Whole'
    BY <1>1, <1>2, <1>5, TextFinish
  <2>2. phase' = "build" /\ next' \in Nat /\ Len(resolved') \in Nat
    BY <1>5, WeavePlace
  <2>3. next' > Len(resolved') <=> ~(next' <= Len(resolved'))
    BY <2>2
  <2> QED
    BY <1>3, <2>1, <2>2, <2>3 DEF TextInv
<1>6. CASE ResolveDone
  <2>1. Weaving' /\ next' <= Len(resolved')
    BY <1>1, <1>6, TextBegins
  <2>2. phase' = "build" /\ next' \in Nat /\ Len(resolved') \in Nat
    BY <1>6 DEF ResolveDone, Resolving, buildVars, resolveVars, ReadInv
  <2>3. ~(next' > Len(resolved'))
    BY <2>1, <2>2
  <2> QED
    BY <1>3, <2>1, <2>2, <2>3 DEF TextInv
<1>7. CASE BuildDone
  <2>1. /\ phase = "build" /\ phase' = "done" /\ next > Len(resolved) /\ out' = out
    BY <1>7 DEF BuildDone, buildVars
  <2>2. Whole
    BY <2>1 DEF TextInv
  <2>3. Leaves(out)' = Leaves(out) /\ Text(Len(tokens))' = Text(Len(tokens))
    BY <1>1, <2>1 DEF Leaves, Text, Kept
  <2>4. Whole'
    BY <2>1, <2>2, <2>3 DEF Whole, NeatAt
  <2> QED
    BY <1>3, <2>1, <2>4 DEF TextInv
<1>8. CASE UNCHANGED vars
  <2>1. UNCHANGED <<phase, resolved, out, raw_pos, nt_pos, next, depth>>
    BY <1>8 DEF vars, resolveVars, buildVars
  <2>2. Where' = Where /\ TriviaTo' = TriviaTo /\ Text(raw_pos)' = Text(raw_pos) /\ Text(Len(tokens))' = Text(Len(tokens))
    BY <1>1, <2>1 DEF Where, TriviaTo, Text
  <2>3. Leaves(out)' = Leaves(out) /\ Neat(out)' = Neat(out) /\ EndsOpen(out)' = EndsOpen(out)
    BY <2>1 DEF Leaves, Neat, EndsOpen, NeatAt, Kept
  <2>4. (Weaving => Weaving') /\ (Whole => Whole')
    BY <2>1, <2>2, <2>3 DEF Weaving, Whole, NeatAt
  <2> QED
    BY <1>3, <2>1, <2>4 DEF TextInv
<1>9. CASE ~(BuildStart \/ BuildToken \/ BuildError \/ BuildFinish \/ ResolveDone \/ BuildDone \/ UNCHANGED vars)
  <2>1. phase \in {"parse", "resolve"} /\ phase' \in {"parse", "resolve"} /\ out' = out /\ raw_pos' = raw_pos
    BY <1>9 DEF Next, DoStart, DoBump, DoError, DoErrAndBump, DoErrRecover, DoComplete, DoPrecede,
                DoAbandon, ParseStep, Finish, ResolveStart, ResolveFollow, ResolveEmit, ResolveOther,
                Resolving, Terminated, buildVars
  <2> QED
    BY <1>3, <2>1 DEF TextInv
<1> QED
  BY <1>4, <1>5, <1>6, <1>7, <1>8, <1>9

(* The text keeps its place, for every source and every order of parser      *)
(* calls: build_tree's leaves are the lexer's tokens, each once, in order and*)
(* with its kind, and trivia neither opens nor closes a node but the root.   *)
THEOREM TextKeepsItsPlace == Spec => []TextInPlace
<1> DEFINE Inv == PipelineInv /\ ReadInv /\ NestInv /\ Cursors /\ SpellInv /\ TextInv
<1>1. Inv => TextInPlace
  BY DEF TextInv, Whole, TextInPlace, Leaves, Text, NeatAt
<1>2. Init => Inv
  BY PipelineInitInv, ReadInit, NestInit, CursorsInit, SpellInit, TextInit
<1>3. Inv /\ [Next]_vars => Inv'
  BY PipelineStepInv, ReadStep, NestStep, CursorsStep, SpellStep, TextStep
<1> QED
  BY <1>1, <1>2, <1>3, PTL DEF Spec

--------------------------------------------------------------------------------
(* What a list of events asks for.                                            *)

(* What a Start opens by itself: nothing while its marker is live. *)
Own(k) == IF k = TOMBSTONE THEN <<>> ELSE <<OpenItem(k)>>

(* A forward_parent of ev leads to i. *)
Aimed(ev, i) == \E j \in 1..Len(ev) : ev[j].forward_parent # 0 /\ j + ev[j].forward_parent = i
(* i is the first Start of its chain. *)
Leads(ev, i) == i \in 1..Len(ev) /\ ev[i].tag = "Start" /\ ~Aimed(ev, i)

(* y is what the event i adds to the tree, if it is no Start. *)
Shows(h, v, ev, i, y) ==
    /\ y \in Seq(Item)
    /\ ev[i].tag = "Token" => \E x : Reads(h, ev, i - 1, x) /\ y = <<TokItem(ev[i].kind, v[x.pos + 1])>>
    /\ ev[i].tag = "Finish" => y = <<CloseItem>>
    /\ ev[i].tag \in {"Error", "Tombstone"} => y = <<>>

(* o[i] opens the nodes of the chain from i on, outermost first, and E[i] is *)
(* where the chain ends.                                                     *)
LinkedAt(ev, o, E, i) ==
    /\ o[i] \in Seq(Item) /\ E[i] \in 1..Len(ev)
    /\ ev[i].forward_parent = 0 => o[i] = Own(ev[i].kind) /\ E[i] = i
    /\ ev[i].forward_parent # 0 => /\ o[i] = o[i + ev[i].forward_parent] \o Own(ev[i].kind)
                                   /\ E[i] = E[i + ev[i].forward_parent]
    /\ E[i] # i => Aimed(ev, E[i])

(* f[i] is what the event i adds to the tree: the first Start of a chain     *)
(* opens all its nodes.                                                      *)
UnfoldsAt(h, v, ev, o, f, E, i) ==
    /\ Shows(h, v, ev, i, f[i])
    /\ ev[i].tag = "Start" => LinkedAt(ev, o, E, i) /\ f[i] = IF Aimed(ev, i) THEN <<>> ELSE o[i]
(* No two chains end at the same Start. *)
Apart(ev, E) == \A i, j : Leads(ev, i) /\ Leads(ev, j) /\ E[i] = E[j] => i = j
Unfolds(h, v, ev, o, f, E) ==
    /\ \A i \in 1..Len(ev) : UnfoldsAt(h, v, ev, o, f, E, i)
    /\ Apart(ev, E)

(* What it opens is a sequence of items. *)
LEMMA OwnType == ASSUME NEW k \in EventKinds PROVE Own(k) \in Seq(Item)
<1>1. OpenItem(k) \in Item
  BY DEF OpenItem, Item
<1>2. <<OpenItem(k)>> \in Seq(Item) /\ <<>> \in Seq(Item)
  BY <1>1
<1> QED
  BY <1>2 DEF Own

(* The first n events of s and t are read alike. *)
AlikeUpTo(s, t, n) == \A i \in 1..n : Alike(s[i], t[i])

(* What an event shows depends on how the events before it are read. *)
LEMMA ShowsSame ==
    ASSUME NEW h, NEW v, NEW s, NEW t, NEW i \in Nat \ {0}, NEW y, Shows(h, v, s, i, y),
           AlikeUpTo(s, t, i - 1), t[i].tag = s[i].tag, t[i].tag = "Token" => t[i].kind = s[i].kind
    PROVE  Shows(h, v, t, i, y)
<1>1. i - 1 \in Nat
  OBVIOUS
<1>2. ASSUME NEW x, Reads(h, s, i - 1, x) PROVE Reads(h, t, i - 1, x)
  <2>1. \A j \in 1..(i - 1) : Alike(s[j], t[j])
    BY DEF AlikeUpTo
  <2> QED
    BY ONLY <1>1, <1>2, <2>1, ReadsAlike
<1> QED
  BY <1>2 DEF Shows

(* The new events are w[1], w[2], ... *)
Adds(h, v, t, n, m, w) ==
    \A i \in 1..m : /\ t[n + i].forward_parent = 0 /\ Shows(h, v, t, n + i, w[i])
                    /\ t[n + i].tag = "Start" => w[i] = Own(t[n + i].kind)
(* k is f on the first n events and w behind them. *)
Extends(n, m, f, w, k) == (\A i \in 1..n : k[i] = f[i]) /\ (\A i \in 1..m : k[n + i] = w[i])

(* Unlinked events at the end leave the chains as they are. *)
LEMMA UnfoldsMore ==
    ASSUME NEW h, NEW v, NEW s \in Seq(Event), NEW t \in Seq(Event), NEW m \in Nat, Len(t) = Len(s) + m,
           Prefix(s, Len(s), t), LinksLand(s), NEW o, NEW f, NEW E, Unfolds(h, v, s, o, f, E),
           NEW w, Adds(h, v, t, Len(s), m, w)
    PROVE  \E p, k, D : /\ Unfolds(h, v, t, p, k, D)
                        /\ Extends(Len(s), m, f, w, k) /\ Extends(Len(s), m, E, [i \in 1..m |-> Len(s) + i], D)
<1>1. PICK n \in Nat : n = Len(s) /\ Len(t) = n + m
  OBVIOUS
<1> DEFINE p == [i \in 1..(n + m) |-> IF i <= n THEN o[i] ELSE w[i - n]]
           k == [i \in 1..(n + m) |-> IF i <= n THEN f[i] ELSE w[i - n]]
           D == [i \in 1..(n + m) |-> IF i <= n THEN E[i] ELSE i]
<1>2. \A i \in 1..n : t[i] = s[i] /\ p[i] = o[i] /\ k[i] = f[i] /\ D[i] = E[i] /\ i \in 1..(n + m)
  BY <1>1 DEF Prefix
<1>3. \A i \in 1..m : p[n + i] = w[i] /\ k[n + i] = w[i] /\ D[n + i] = n + i
  <2>1. \A i \in 1..m : n + i \in 1..(n + m) /\ ~(n + i <= n) /\ (n + i) - n = i
    OBVIOUS
  <2> QED
    BY <2>1
<1> HIDE DEF p, k, D
<1>4. ASSUME NEW i \in 1..(n + m), i > n PROVE \E j \in 1..m : i = n + j
  <2>1. i - n \in 1..m /\ n + (i - n) = i
    BY <1>4
  <2> QED
    BY <2>1
<1>5. ASSUME NEW j \in 1..(n + m), t[j].forward_parent # 0
      PROVE  j \in 1..n /\ j + t[j].forward_parent \in 1..n
  <2>1. j \in 1..n
    <3>1. CASE j > n
      <4>1. PICK l \in 1..m : j = n + l
        BY <1>4, <3>1
      <4> QED
        BY <1>1, <1>5, <4>1 DEF Adds
    <3> QED
      BY <3>1
  <2>2. t[j] = s[j] /\ DOMAIN s = 1..n
    BY <1>1, <1>2, <2>1
  <2>3. j + s[j].forward_parent \in DOMAIN s
    BY <1>5, <2>1, <2>2 DEF LinksLand
  <2> QED
    BY <2>1, <2>2, <2>3
<1>6. ASSUME NEW i \in 1..n PROVE Aimed(t, i) <=> Aimed(s, i)
  BY <1>1, <1>2, <1>5 DEF Aimed
<1>7. ASSUME NEW i, i > n, i \in Nat PROVE ~Aimed(t, i)
  BY <1>1, <1>5, <1>7 DEF Aimed
<1>8. ASSUME NEW i \in 1..n PROVE UnfoldsAt(h, v, t, p, k, D, i)
  <2>1. UnfoldsAt(h, v, s, o, f, E, i)
    BY <1>1 DEF Unfolds
  <2>2. Shows(h, v, t, i, k[i])
    <3>1. AlikeUpTo(s, t, i - 1) /\ i \in Nat \ {0}
      <4>1. \A j \in 1..(i - 1) : j \in 1..n
        OBVIOUS
      <4>2. \A j \in 1..(i - 1) : t[j] = s[j]
        BY <1>2, <4>1
      <4> QED
        BY <4>2 DEF AlikeUpTo, Alike
    <3>2. Shows(h, v, s, i, f[i]) /\ t[i] = s[i] /\ k[i] = f[i]
      BY <1>2, <2>1 DEF UnfoldsAt
    <3> QED
      BY <3>1, <3>2, ShowsSame
  <2>3. ASSUME t[i].tag = "Start" PROVE LinkedAt(t, p, D, i) /\ k[i] = IF Aimed(t, i) THEN <<>> ELSE p[i]
    <3>1. LinkedAt(s, o, E, i) /\ f[i] = IF Aimed(s, i) THEN <<>> ELSE o[i]
      BY <1>2, <2>1, <2>3 DEF UnfoldsAt
    <3>2. E[i] \in 1..n /\ (E[i] # i => Aimed(s, E[i]))
      BY <1>1, <3>1 DEF LinkedAt
    <3>3. E[i] \in 1..(n + m) /\ (D[i] # i => Aimed(t, D[i]))
      BY <1>2, <1>6, <3>2
    <3>4. CASE t[i].forward_parent = 0
      BY <1>1, <1>2, <1>6, <3>1, <3>3, <3>4 DEF LinkedAt
    <3>5. CASE t[i].forward_parent # 0
      <4>1. PICK l \in 1..n : l = i + t[i].forward_parent
        BY <1>2, <1>5, <3>5
      <4>2. o[i] = o[l] \o Own(s[i].kind) /\ E[i] = E[l]
        BY <1>2, <3>1, <3>5, <4>1 DEF LinkedAt
      <4>3. p[i] = p[l] \o Own(t[i].kind) /\ D[i] = D[l]
        BY <1>2, <4>1, <4>2
      <4> QED
        BY <1>1, <1>2, <1>6, <3>1, <3>3, <3>5, <4>1, <4>3 DEF LinkedAt
    <3> QED
      BY <3>4, <3>5
  <2> QED
    BY <2>2, <2>3 DEF UnfoldsAt
<1>9. ASSUME NEW j \in 1..m PROVE UnfoldsAt(h, v, t, p, k, D, n + j)
  <2>1. /\ t[n + j].forward_parent = 0 /\ Shows(h, v, t, n + j, w[j])
        /\ t[n + j].tag = "Start" => w[j] = Own(t[n + j].kind)
    BY <1>1 DEF Adds
  <2>2. ~Aimed(t, n + j) /\ n + j \in 1..(n + m)
    BY <1>7
  <2>3. w[j] \in Seq(Item)
    BY <2>1 DEF Shows
  <2> QED
    BY <1>1, <1>3, <2>1, <2>2, <2>3 DEF UnfoldsAt, LinkedAt
<1>10. ASSUME NEW i \in 1..(n + m) PROVE UnfoldsAt(h, v, t, p, k, D, i)
  BY <1>4, <1>8, <1>9
<1>11. Apart(t, D)
  <2> SUFFICES ASSUME NEW i, NEW j, Leads(t, i), Leads(t, j), D[i] = D[j] PROVE i = j
    BY DEF Apart
  <2>1. i \in 1..(n + m) /\ j \in 1..(n + m)
    BY <1>1 DEF Leads
  <2>2. ASSUME NEW l \in 1..n, Leads(t, l) PROVE Leads(s, l) /\ D[l] = E[l] /\ D[l] \in 1..n
    <3>1. Leads(s, l)
      BY <1>1, <1>2, <1>6, <2>2 DEF Leads
    <3>2. E[l] \in 1..n
      BY <1>1, <3>1 DEF Leads, Unfolds, UnfoldsAt, LinkedAt
    <3> QED
      BY <1>2, <3>1, <3>2
  <2>3. ASSUME NEW l \in 1..(n + m), l > n PROVE D[l] = l
    BY <1>3, <1>4, <2>3
  <2>4. CASE i <= n /\ j <= n
    BY <2>1, <2>2, <2>4 DEF Unfolds, Apart
  <2>5. CASE i > n /\ j > n
    BY <2>1, <2>3, <2>5
  <2>6. CASE (i > n /\ j <= n) \/ (i <= n /\ j > n)
    BY <2>1, <2>2, <2>3, <2>6
  <2> QED
    BY <2>1, <2>4, <2>5, <2>6
<1>12. Unfolds(h, v, t, p, k, D)
  BY <1>1, <1>10, <1>11 DEF Unfolds
<1>13. Extends(n, m, f, w, k) /\ Extends(n, m, E, [i \in 1..m |-> n + i], D)
  BY <1>2, <1>3 DEF Extends
<1> QED
  BY <1>1, <1>12, <1>13

(* The events t are s, the marker at p completed with the kind c. *)
Completes(s, t, p, c) ==
    /\ p \in 1..Len(s) /\ s[p] = StartEvent(TOMBSTONE) /\ t[p] = StartEvent(c) /\ Len(t) = Len(s)
    /\ \A i \in 1..Len(s) : i # p => t[i] = s[i]
(* k is f, except that the chain that ends at p opens a node of kind c first. *)
OpensMore(s, E, p, c, f, k) ==
    \A i \in 1..Len(s) : k[i] = IF Leads(s, i) /\ E[i] = p THEN <<OpenItem(c)>> \o f[i] ELSE f[i]

(* `complete`: the chain that ends at p gets an outermost node. *)
LEMMA UnfoldsComplete ==
    ASSUME NEW h, NEW v, NEW s \in Seq(Event), NEW t \in Seq(Event), NEW p, NEW c, Completes(s, t, p, c),
           LinksLand(s), NEW o, NEW f, NEW E, Unfolds(h, v, s, o, f, E), c \in EventKinds, c # TOMBSTONE
    PROVE  \E q, k : Unfolds(h, v, t, q, k, E) /\ OpensMore(s, E, p, c, f, k)
<1>0. /\ p \in 1..Len(s) /\ s[p] = StartEvent(TOMBSTONE) /\ t[p] = StartEvent(c) /\ Len(t) = Len(s)
      /\ \A i \in 1..Len(s) : i # p => t[i] = s[i]
  BY DEF Completes
<1> USE <1>0
<1>1. PICK n \in Nat : n = Len(s) /\ Len(t) = n
  OBVIOUS
<1>2. PICK e : e = <<OpenItem(c)>> /\ e \in Seq(Item)
  <2>1. OpenItem(c) \in Item
    BY DEF OpenItem, Item
  <2>2. <<OpenItem(c)>> \in Seq(Item)
    BY <2>1
  <2> QED
    BY <2>2
<1> DEFINE q == [i \in 1..n |-> IF E[i] = p THEN e \o o[i] ELSE o[i]]
           k == [i \in 1..n |-> IF Leads(s, i) /\ E[i] = p THEN e \o f[i] ELSE f[i]]
<1>3. \A i \in 1..n : /\ q[i] = IF E[i] = p THEN e \o o[i] ELSE o[i]
                      /\ k[i] = IF Leads(s, i) /\ E[i] = p THEN e \o f[i] ELSE f[i]
  OBVIOUS
<1> HIDE DEF q, k
<1>4. \A i \in 1..n : t[i].tag = s[i].tag /\ t[i].forward_parent = s[i].forward_parent /\ (i # p => t[i] = s[i])
  BY <1>1 DEF StartEvent
<1>5. ASSUME NEW i PROVE (Aimed(t, i) <=> Aimed(s, i)) /\ (Leads(t, i) <=> Leads(s, i))
  BY <1>1, <1>4 DEF Aimed, Leads
<1>6. \A i \in 1..n : UnfoldsAt(h, v, s, o, f, E, i)
  BY <1>1 DEF Unfolds
<1>7. ASSUME NEW i \in 1..n PROVE UnfoldsAt(h, v, t, q, k, E, i)
  <2>1. CASE s[i].tag # "Start"
    <3>1. k[i] = f[i] /\ i # p
      BY <1>3, <2>1 DEF Leads, StartEvent
    <3>2. Shows(h, v, s, i, f[i]) /\ i \in Nat \ {0}
      BY <1>6 DEF UnfoldsAt
    <3>3. AlikeUpTo(s, t, i - 1)
      <4>1. \A j \in 1..(i - 1) : j \in 1..n
        OBVIOUS
      <4>2. \A j \in 1..(i - 1) : t[j].tag = s[j].tag
        BY <1>4, <4>1
      <4> QED
        BY <4>2 DEF AlikeUpTo, Alike
    <3>4. t[i] = s[i]
      BY <1>4, <3>1
    <3>5. Shows(h, v, t, i, f[i])
      BY <3>2, <3>3, <3>4, ShowsSame
    <3> QED
      BY <2>1, <3>1, <3>4, <3>5 DEF UnfoldsAt
  <2>2. CASE s[i].tag = "Start"
    <3>1. LinkedAt(s, o, E, i) /\ f[i] = IF Aimed(s, i) THEN <<>> ELSE o[i]
      BY <1>6, <2>2 DEF UnfoldsAt
    <3>2. o[i] \in Seq(Item) /\ E[i] \in 1..n /\ (E[i] # i => Aimed(t, E[i]))
      BY <1>1, <1>5, <3>1 DEF LinkedAt
    <3>3. e \o o[i] \in Seq(Item)
      BY ONLY <1>2, <3>2, ConcatProperties
    <3>4. q[i] \in Seq(Item)
      BY <1>3, <3>2, <3>3, Zenon
    <3>5. k[i] = IF Aimed(t, i) THEN <<>> ELSE q[i]
      BY <1>1, <1>3, <1>5, <2>2, <3>1, Zenon DEF Leads
    <3>6. k[i] \in Seq(Item)
      <4>1. <<>> \in Seq(Item)
        OBVIOUS
      <4> QED
        BY <3>4, <3>5, <4>1, Zenon
    <3>7. Shows(h, v, t, i, k[i])
      BY <1>4, <2>2, <3>6 DEF Shows
    <3>8. CASE s[i].forward_parent = 0
      <4>1. o[i] = Own(s[i].kind) /\ E[i] = i
        BY <3>1, <3>8 DEF LinkedAt
      <4>2. q[i] = Own(t[i].kind)
        <5>1. CASE i = p
          <6>1. o[i] = <<>>
            BY <4>1, <5>1 DEF Own, StartEvent
          <6>2. q[i] = e \o <<>>
            BY <1>3, <4>1, <5>1, <6>1, Zenon
          <6>3. e \o <<>> = e
            BY ONLY <1>2, ConcatEmptySeq
          <6>4. Own(t[i].kind) = e
            BY <1>2, <5>1 DEF Own, StartEvent
          <6> QED
            BY <6>2, <6>3, <6>4, Zenon
        <5>2. CASE i # p
          <6>1. q[i] = o[i] /\ t[i] = s[i]
            BY <1>3, <1>4, <4>1, <5>2, Zenon
          <6> QED
            BY <4>1, <6>1, Zenon
        <5> QED
          BY <5>1, <5>2
      <4> QED
        BY <1>1, <1>4, <2>2, <3>2, <3>4, <3>5, <3>7, <3>8, <4>1, <4>2 DEF UnfoldsAt, LinkedAt
    <3>9. CASE s[i].forward_parent # 0
      <4>1. i # p
        BY <3>9 DEF StartEvent
      <4>2. PICK l \in 1..n : l = i + s[i].forward_parent
        <5>1. DOMAIN s = 1..n
          BY <1>1
        <5> QED
          BY <3>9, <5>1 DEF LinksLand
      <4>3. o[i] = o[l] \o Own(s[i].kind) /\ E[i] = E[l]
        BY <3>1, <3>9, <4>2 DEF LinkedAt
      <4>4. t[i] = s[i]
        BY <1>4, <4>1
      <4>5. s[l].tag = "Start"
        <5>1. DOMAIN s = 1..n
          BY <1>1
        <5> QED
          BY <3>9, <4>2, <5>1 DEF LinksLand
      <4>6. o[l] \in Seq(Item)
        BY <1>6, <4>5 DEF UnfoldsAt, LinkedAt
      <4>7. Own(s[i].kind) \in Seq(Item)
        <5>1. s[i] \in Event
          BY <1>1, ElementOfSeq
        <5>2. s[i].kind \in EventKinds
          BY <5>1 DEF Event
        <5> QED
          BY <5>2, OwnType
      <4>8. PICK a, b : a = o[l] /\ b = Own(s[i].kind)
        OBVIOUS
      <4>9. e \o (a \o b) = (e \o a) \o b
        <5>1. a \in Seq(Item) /\ b \in Seq(Item)
          BY <4>6, <4>7, <4>8
        <5> QED
          BY ONLY <1>2, <5>1, ConcatAssociative
      <4>10. q[i] = q[l] \o Own(t[i].kind)
        BY <1>3, <4>3, <4>4, <4>8, <4>9, Zenon
      <4> QED
        BY <1>1, <1>4, <2>2, <3>2, <3>4, <3>5, <3>7, <3>9, <4>2, <4>3, <4>4, <4>10 DEF UnfoldsAt, LinkedAt
    <3> QED
      BY <3>8, <3>9
  <2> QED
    BY <2>1, <2>2
<1>8. Apart(t, E)
  BY <1>5 DEF Unfolds, Apart
<1>9. Unfolds(h, v, t, q, k, E)
  BY <1>1, <1>7, <1>8 DEF Unfolds
<1>10. \A i \in 1..Len(s) : k[i] = IF Leads(s, i) /\ E[i] = p THEN <<OpenItem(c)>> \o f[i] ELSE f[i]
  BY <1>1, <1>2, <1>3, Zenon
<1> QED
  BY <1>9, <1>10 DEF OpensMore

(* The events t are s with the Start at p linked to a new one behind them. *)
Precedes(s, t, n, p) ==
    /\ p \in 1..n /\ s[p].tag = "Start" /\ s[p].forward_parent = 0
    /\ t[p].tag = "Start" /\ t[p].kind = s[p].kind /\ t[p].forward_parent = (n + 1) - p
    /\ Len(t) = n + 1 /\ t[n + 1] = StartEvent(TOMBSTONE) /\ \A i \in 1..n : i # p => t[i] = s[i]
(* k and D are f and E after the link. *)
Relinks(s, t, n, p, f, E, k, D) ==
    /\ (\A i \in 1..n : k[i] = f[i]) /\ k[n + 1] = <<>>
    /\ \A i \in 1..n : D[i] = IF E[i] = p THEN n + 1 ELSE E[i]
    /\ \A i \in 1..(n + 1) : Leads(t, i) <=> i <= n /\ Leads(s, i)

(* `precede`: the chain that ended at p goes on to a new Start. *)
LEMMA UnfoldsPrecede ==
    ASSUME NEW h, NEW v, NEW s \in Seq(Event), NEW t \in Seq(Event), NEW n \in Nat, n = Len(s),
           NEW p, Precedes(s, t, n, p), LinksLand(s), NEW o, NEW f, NEW E, Unfolds(h, v, s, o, f, E)
    PROVE  \E q, k, D : Unfolds(h, v, t, q, k, D) /\ Relinks(s, t, n, p, f, E, k, D)
<1>0. /\ p \in 1..n /\ s[p].tag = "Start" /\ s[p].forward_parent = 0
      /\ t[p].tag = "Start" /\ t[p].kind = s[p].kind /\ t[p].forward_parent = (n + 1) - p
      /\ Len(t) = n + 1 /\ t[n + 1] = StartEvent(TOMBSTONE) /\ \A i \in 1..n : i # p => t[i] = s[i]
  BY DEF Precedes
<1> USE <1>0
<1>1. <<>> \in Seq(Item)
  OBVIOUS
<1> DEFINE q == [i \in 1..(n + 1) |-> IF i <= n THEN o[i] ELSE <<>>]
           k == [i \in 1..(n + 1) |-> IF i <= n THEN f[i] ELSE <<>>]
           D == [i \in 1..(n + 1) |-> IF i <= n /\ E[i] # p THEN E[i] ELSE n + 1]
<1>2. \A i \in 1..n : /\ q[i] = o[i] /\ k[i] = f[i] /\ D[i] = (IF E[i] = p THEN n + 1 ELSE E[i])
                      /\ i \in 1..(n + 1) /\ i # n + 1
  OBVIOUS
<1>3. q[n + 1] = <<>> /\ k[n + 1] = <<>> /\ D[n + 1] = n + 1 /\ n + 1 \in 1..(n + 1)
  OBVIOUS
<1> HIDE DEF q, k, D
<1>4. \A i \in 1..n : /\ t[i].tag = s[i].tag /\ t[i].kind = s[i].kind /\ (i # p => t[i] = s[i])
                      /\ (i # p => t[i].forward_parent = s[i].forward_parent)
  OBVIOUS
<1>5. /\ t[n + 1].tag = "Start" /\ t[n + 1].kind = TOMBSTONE /\ t[n + 1].forward_parent = 0
      /\ t[p].forward_parent # 0 /\ p + t[p].forward_parent = n + 1
  BY DEF StartEvent
<1>6. ASSUME NEW j \in 1..n, s[j].forward_parent # 0
      PROVE  /\ j # p /\ j + s[j].forward_parent \in 1..n /\ s[j + s[j].forward_parent].tag = "Start"
  <2>1. DOMAIN s = 1..n
    OBVIOUS
  <2> QED
    BY <1>6, <2>1 DEF LinksLand
<1>7. Aimed(t, n + 1)
  BY <1>2, <1>5 DEF Aimed
<1>8. ASSUME NEW i \in 1..n PROVE Aimed(t, i) <=> Aimed(s, i)
  <2>1. ASSUME Aimed(t, i) PROVE Aimed(s, i)
    <3>1. PICK j \in 1..(n + 1) : t[j].forward_parent # 0 /\ j + t[j].forward_parent = i
      BY <2>1 DEF Aimed
    <3>2. j # p /\ j # n + 1
      BY <1>2, <1>5, <3>1
    <3>3. j \in 1..n
      BY <3>2
    <3>4. s[j].forward_parent # 0 /\ j + s[j].forward_parent = i
      BY <1>4, <3>1, <3>2, <3>3
    <3> QED
      BY <3>3, <3>4 DEF Aimed
  <2>2. ASSUME Aimed(s, i) PROVE Aimed(t, i)
    <3>1. PICK j \in 1..n : s[j].forward_parent # 0 /\ j + s[j].forward_parent = i
      BY <2>2 DEF Aimed
    <3>2. j # p /\ j \in 1..(n + 1)
      BY <3>1
    <3>3. t[j].forward_parent # 0 /\ j + t[j].forward_parent = i
      BY <1>4, <3>1, <3>2
    <3> QED
      BY <3>2, <3>3 DEF Aimed
  <2> QED
    BY <2>1, <2>2
<1>9. \A i \in 1..(n + 1) : Leads(t, i) <=> i <= n /\ Leads(s, i)
  <2> SUFFICES ASSUME NEW i \in 1..(n + 1) PROVE Leads(t, i) <=> i <= n /\ Leads(s, i)
    OBVIOUS
  <2>1. CASE i = n + 1
    BY <1>7, <2>1 DEF Leads
  <2>2. CASE i # n + 1
    <3>1. i \in 1..n
      BY <2>2
    <3> QED
      BY <1>4, <1>8, <3>1 DEF Leads
  <2> QED
    BY <2>1, <2>2
<1>10. \A i \in 1..n : UnfoldsAt(h, v, s, o, f, E, i)
  BY DEF Unfolds
<1>11. ASSUME NEW i \in 1..n PROVE UnfoldsAt(h, v, t, q, k, D, i)
  <2>1. Shows(h, v, t, i, k[i])
    <3>1. Shows(h, v, s, i, f[i]) /\ i \in Nat \ {0}
      BY <1>10 DEF UnfoldsAt
    <3>2. AlikeUpTo(s, t, i - 1)
      <4>1. \A j \in 1..(i - 1) : j \in 1..n
        OBVIOUS
      <4>2. \A j \in 1..(i - 1) : t[j].tag = s[j].tag
        BY <1>4, <4>1
      <4> QED
        BY <4>2 DEF AlikeUpTo, Alike
    <3>3. t[i].tag = s[i].tag /\ t[i].kind = s[i].kind /\ k[i] = f[i]
      BY <1>2, <1>4
    <3> QED
      BY <3>1, <3>2, <3>3, ShowsSame
  <2>2. ASSUME s[i].tag = "Start" PROVE LinkedAt(t, q, D, i) /\ k[i] = IF Aimed(t, i) THEN <<>> ELSE q[i]
    <3>1. LinkedAt(s, o, E, i) /\ f[i] = IF Aimed(s, i) THEN <<>> ELSE o[i]
      BY <1>10, <2>2 DEF UnfoldsAt
    <3>2. k[i] = IF Aimed(t, i) THEN <<>> ELSE q[i]
      BY <1>2, <1>8, <3>1, Zenon
    <3>3. o[i] \in Seq(Item) /\ E[i] \in 1..n /\ (E[i] # i => Aimed(s, E[i]))
      BY <3>1 DEF LinkedAt
    <3>4. q[i] \in Seq(Item) /\ D[i] \in 1..(n + 1) /\ D[i] \in 1..Len(t)
      BY <1>2, <1>3, <3>3
    <3>5. D[i] # i => Aimed(t, D[i])
      BY <1>2, <1>7, <1>8, <3>3
    <3>6. CASE i = p
      <4>1. o[i] = Own(s[i].kind) /\ E[i] = i
        BY <3>1, <3>6 DEF LinkedAt
      <4>2. D[i] = n + 1
        BY <1>2, <3>6, <4>1
      <4>3. PICK a : a = Own(s[i].kind) /\ a \in Seq(Item)
        BY <3>3, <4>1
      <4>4. <<>> \o a = a
        BY ONLY <4>3, ConcatEmptySeq
      <4>5. q[i] = q[n + 1] \o Own(t[i].kind)
        BY <1>2, <1>3, <1>4, <4>1, <4>3, <4>4, Zenon
      <4> QED
        BY <1>3, <1>5, <3>2, <3>4, <3>5, <3>6, <4>2, <4>5 DEF LinkedAt
    <3>7. CASE i # p /\ s[i].forward_parent = 0
      <4>1. o[i] = Own(s[i].kind) /\ E[i] = i
        BY <3>1, <3>7 DEF LinkedAt
      <4>2. D[i] = i /\ q[i] = Own(t[i].kind) /\ t[i].forward_parent = 0
        BY <1>2, <1>4, <3>7, <4>1
      <4> QED
        BY <3>2, <3>4, <3>5, <4>2 DEF LinkedAt
    <3>8. CASE i # p /\ s[i].forward_parent # 0
      <4>1. PICK l \in 1..n : l = i + s[i].forward_parent
        BY <1>6, <3>8
      <4>2. o[i] = o[l] \o Own(s[i].kind) /\ E[i] = E[l]
        BY <3>1, <3>8, <4>1 DEF LinkedAt
      <4>3. t[i].forward_parent = s[i].forward_parent /\ q[i] = q[l] \o Own(t[i].kind) /\ D[i] = D[l]
        <5>1. t[i].forward_parent = s[i].forward_parent /\ t[i].kind = s[i].kind
          BY <1>4, <3>8
        <5>2. q[i] = o[i] /\ q[l] = o[l]
          BY <1>2
        <5>3. D[i] = D[l]
          BY <1>2, <4>2
        <5> QED
          BY <4>2, <5>1, <5>2, <5>3, Zenon
      <4> QED
        <5>1. i + t[i].forward_parent = l /\ t[i].forward_parent # 0
          BY <3>8, <4>1, <4>3
        <5>2. q[i] = q[i + t[i].forward_parent] \o Own(t[i].kind) /\ D[i] = D[i + t[i].forward_parent]
          BY <4>3, <5>1, Zenon
        <5> QED
          BY ONLY <3>2, <3>4, <3>5, <5>1, <5>2 DEF LinkedAt
    <3> QED
      BY <3>6, <3>7, <3>8
  <2> QED
    BY <1>4, <2>1, <2>2 DEF UnfoldsAt
<1>12. UnfoldsAt(h, v, t, q, k, D, n + 1)
  <2>1. Own(TOMBSTONE) = <<>>
    BY DEF Own
  <2>2. Shows(h, v, t, n + 1, k[n + 1])
    BY <1>1, <1>3, <1>5 DEF Shows
  <2>3. LinkedAt(t, q, D, n + 1)
    BY <1>1, <1>3, <1>5, <2>1 DEF LinkedAt
  <2> QED
    BY <1>3, <1>7, <2>2, <2>3 DEF UnfoldsAt
<1>13. ASSUME NEW i \in 1..(n + 1) PROVE UnfoldsAt(h, v, t, q, k, D, i)
  <2>1. CASE i = n + 1
    BY <1>12, <2>1
  <2>2. CASE i # n + 1
    <3>1. i \in 1..n
      BY <2>2
    <3> QED
      BY <1>11, <3>1
  <2> QED
    BY <2>1, <2>2
<1>14. Apart(t, D)
  <2> SUFFICES ASSUME NEW i, NEW j, Leads(t, i), Leads(t, j), D[i] = D[j] PROVE i = j
    BY DEF Apart
  <2>1. i \in 1..n /\ j \in 1..n /\ Leads(s, i) /\ Leads(s, j)
    BY <1>9 DEF Leads
  <2>2. E[i] \in 1..n /\ E[j] \in 1..n
    BY <1>10, <2>1 DEF Leads, UnfoldsAt, LinkedAt
  <2>3. E[i] = E[j]
    BY <1>2, <2>1, <2>2
  <2> QED
    BY <2>1, <2>3 DEF Unfolds, Apart
<1>15. Unfolds(h, v, t, q, k, D)
  BY <1>13, <1>14 DEF Unfolds
<1>16. Relinks(s, t, n, p, f, E, k, D)
  BY <1>2, <1>3, <1>9 DEF Relinks
<1> QED
  BY <1>15, <1>16

(* The first m events t of s, without the Start at p. *)
Abandons(s, t, n, m, p) ==
    /\ p \in 1..n /\ s[p] = StartEvent(TOMBSTONE) /\ ~Aimed(s, p) /\ m \in {n - 1, n} /\ Len(t) = m
    /\ m = n - 1 => p = n
    /\ m = n => t[p] = TombstoneEvent
    /\ \A i \in 1..m : i # p => t[i] = s[i]
(* Only p stops being the first Start of a chain. *)
LeadsButOne(s, t, p) == \A i : Leads(t, i) <=> Leads(s, i) /\ i # p

(* `abandon`: a Start that nothing leads to is gone, or a tombstone. *)
LEMMA UnfoldsAbandon ==
    ASSUME NEW h, NEW v, NEW s \in Seq(Event), NEW t \in Seq(Event), NEW n \in Nat, n = Len(s),
           NEW m, NEW p, Abandons(s, t, n, m, p), LinksLand(s), NEW o, NEW f, NEW E, Unfolds(h, v, s, o, f, E)
    PROVE  /\ Unfolds(h, v, t, o, f, E) /\ f[p] = <<>> /\ E[p] = p
           /\ LeadsButOne(s, t, p)
<1>0. /\ p \in 1..n /\ s[p] = StartEvent(TOMBSTONE) /\ ~Aimed(s, p) /\ m \in {n - 1, n} /\ Len(t) = m
      /\ m = n - 1 => p = n
      /\ m = n => t[p] = TombstoneEvent
      /\ \A i \in 1..m : i # p => t[i] = s[i]
  BY DEF Abandons
<1> USE <1>0
<1>1. /\ s[p].tag = "Start" /\ s[p].kind = TOMBSTONE /\ s[p].forward_parent = 0 /\ m \in Nat
      /\ m = n => t[p].tag = "Tombstone" /\ t[p].forward_parent = 0
  BY DEF StartEvent, TombstoneEvent
<1>2. \A i \in 1..n : UnfoldsAt(h, v, s, o, f, E, i)
  BY DEF Unfolds
<1>3. f[p] = <<>> /\ E[p] = p
  BY <1>1, <1>2 DEF UnfoldsAt, LinkedAt, Own
<1>4. \A i \in 1..n : i # p => i \in 1..m
  OBVIOUS
<1>5. \A i \in 1..m : i \in 1..n /\ (i = p => m = n)
  OBVIOUS
<1>6. ASSUME NEW i PROVE Aimed(t, i) <=> Aimed(s, i)
  <2>1. ASSUME Aimed(t, i) PROVE Aimed(s, i)
    <3>1. PICK j \in 1..m : t[j].forward_parent # 0 /\ j + t[j].forward_parent = i
      BY <2>1 DEF Aimed
    <3>2. j # p /\ t[j] = s[j]
      BY <1>1, <1>5, <3>1
    <3> QED
      BY <1>5, <3>1, <3>2 DEF Aimed
  <2>2. ASSUME Aimed(s, i) PROVE Aimed(t, i)
    <3>1. PICK j \in 1..n : s[j].forward_parent # 0 /\ j + s[j].forward_parent = i
      BY <2>2 DEF Aimed
    <3>2. j # p /\ j \in 1..m /\ t[j] = s[j]
      BY <1>1, <1>4, <3>1
    <3> QED
      BY <3>1, <3>2 DEF Aimed
  <2> QED
    BY <2>1, <2>2
<1>7. ASSUME NEW i PROVE Leads(t, i) <=> Leads(s, i) /\ i # p
  <2>1. i \in 1..m /\ i # p <=> i \in 1..n /\ i # p
    BY <1>4, <1>5
  <2>2. Leads(t, i) => i # p
    BY <1>1, <1>5 DEF Leads
  <2> QED
    BY <1>6, <2>1, <2>2 DEF Leads
<1>8. ASSUME NEW i \in 1..m PROVE UnfoldsAt(h, v, t, o, f, E, i)
  <2>1. CASE i = p
    <3>1. <<>> \in Seq(Item)
      OBVIOUS
    <3> QED
      BY <1>1, <1>3, <1>5, <2>1, <3>1 DEF UnfoldsAt, Shows
  <2>2. CASE i # p
    <3>1. t[i] = s[i] /\ i \in 1..n
      BY <1>5, <2>2
    <3>2. UnfoldsAt(h, v, s, o, f, E, i)
      BY <1>2, <3>1
    <3>3. Shows(h, v, t, i, f[i])
      <4>1. AlikeUpTo(s, t, i - 1)
        <5>1. \A j \in 1..(i - 1) : j \in 1..m
          OBVIOUS
        <5>2. \A j \in 1..(i - 1) : Alike(s[j], t[j])
          <6> SUFFICES ASSUME NEW j \in 1..(i - 1) PROVE Alike(s[j], t[j])
            OBVIOUS
          <6>1. CASE j = p
            BY <1>1, <1>5, <5>1, <6>1 DEF Alike
          <6>2. CASE j # p
            <7>1. t[j] = s[j]
              BY <5>1, <6>2
            <7> QED
              BY <7>1 DEF Alike
          <6> QED
            BY <6>1, <6>2
        <5> QED
          BY <5>2 DEF AlikeUpTo
      <4>2. Shows(h, v, s, i, f[i]) /\ i \in Nat \ {0}
        BY <3>2 DEF UnfoldsAt
      <4> QED
        BY <3>1, <4>1, <4>2, ShowsSame
    <3>4. ASSUME s[i].tag = "Start" PROVE LinkedAt(t, o, E, i)
      <4>1. LinkedAt(s, o, E, i)
        BY <3>2, <3>4 DEF UnfoldsAt
      <4>2. E[i] \in 1..n /\ (E[i] # i => Aimed(s, E[i]))
        BY <4>1 DEF LinkedAt
      <4>3. E[i] # p
        BY <2>2, <4>2
      <4>4. E[i] \in 1..Len(t) /\ (E[i] # i => Aimed(t, E[i]))
        BY <1>4, <1>6, <4>2, <4>3
      <4> QED
        BY <3>1, <4>1, <4>4 DEF LinkedAt
    <3> QED
      BY <1>6, <3>1, <3>2, <3>3, <3>4 DEF UnfoldsAt
  <2> QED
    BY <2>1, <2>2
<1>9. Apart(t, E)
  BY <1>7 DEF Unfolds, Apart
<1> QED
  BY <1>3, <1>7, <1>8, <1>9 DEF Unfolds, LeadsButOne

--------------------------------------------------------------------------------
(* The bodies of the live markers.                                            *)

(* The l live markers op cut the events into the bodies bo: the body of a    *)
(* marker begins at the first Start of the chain that ends at the marker.    *)
CutAt(ev, op, bo, f, E, c, j) ==
    /\ c[j] \in Nat \ {0} /\ c[j] <= c[j + 1]
    /\ Leads(ev, c[j + 1]) /\ E[c[j + 1]] = op[j]
    /\ Yields(Item, f, c[j], c[j + 1] - 1, bo[j])
Cuts(ev, op, l, bo, f, E, c) == c[1] = 1 /\ \A j \in 1..l : CutAt(ev, op, bo, f, E, c, j)

(* The completed node la in hand, of sz items, is the end of the body that   *)
(* begins at b.                                                              *)
InHand(ev, n, b, f, E, la, sz) ==
    la # 0 => \E i, u, w : /\ Leads(ev, i) /\ E[i] = la /\ b <= i
                           /\ Yields(Item, f, b, i - 1, u) /\ Yields(Item, f, i, n, w) /\ Len(w) = sz

(* The events of ev, so unfolded and cut, are the bodies bo. *)
Grown(h, v, ev, n, op, l, bo, la, sz, o, f, E, c) ==
    /\ Unfolds(h, v, ev, o, f, E) /\ Cuts(ev, op, l, bo, f, E, c)
    /\ Yields(Item, f, c[l + 1], n, bo[l + 1]) /\ InHand(ev, n, c[l + 1], f, E, la, sz)
(* Some unfolding and some cut of ev gives the bodies bo. *)
Grows(h, v, ev, n, op, l, bo, la, sz) ==
    \E o, f, E, c : Grown(h, v, ev, n, op, l, bo, la, sz, o, f, E, c)

(* The cuts ascend. *)
LEMMA CutsRise ==
    ASSUME NEW ev, NEW op, NEW l \in Nat, NEW bo, NEW f, NEW E, NEW c, Cuts(ev, op, l, bo, f, E, c)
    PROVE  \A j \in 1..(l + 1) : c[j] \in Nat \ {0} /\ c[j] <= c[l + 1]
<1>1. c[1] = 1 /\ \A j \in 1..l : c[j] \in Nat \ {0} /\ c[j] <= c[j + 1] /\ Leads(ev, c[j + 1])
  BY DEF Cuts, CutAt
<1>2. c[l + 1] \in Nat \ {0}
  <2>1. CASE l = 0
    BY <1>1, <2>1
  <2>2. CASE l # 0
    <3>1. l \in 1..l
      BY <2>2
    <3>2. Leads(ev, c[l + 1])
      BY <1>1, <3>1
    <3> QED
      BY <3>2 DEF Leads
  <2> QED
    BY <2>1, <2>2
<1> DEFINE T == {m \in Nat : m <= l => c[(l + 1) - m] \in Nat \ {0} /\ c[(l + 1) - m] <= c[l + 1]}
<1>3. 0 \in T
  BY <1>2
<1>4. ASSUME NEW m \in Nat, m \in T PROVE m + 1 \in T
  <2> SUFFICES ASSUME m + 1 <= l PROVE c[(l + 1) - (m + 1)] \in Nat \ {0} /\ c[(l + 1) - (m + 1)] <= c[l + 1]
    OBVIOUS
  <2>1. PICK j \in 1..l : j = (l + 1) - (m + 1) /\ j + 1 = (l + 1) - m
    <3>1. (l + 1) - (m + 1) \in 1..l
      OBVIOUS
    <3> QED
      BY <3>1
  <2>2. c[j + 1] \in Nat \ {0} /\ c[j + 1] <= c[l + 1]
    BY <1>4, <2>1
  <2>3. c[j] \in Nat \ {0} /\ c[j] <= c[j + 1]
    BY <1>1
  <2> QED
    BY <1>2, <2>1, <2>2, <2>3
<1> HIDE DEF T
<1>5. \A m \in Nat : m \in T
  BY <1>3, <1>4, ClosedUnderSuccessor
<1>6. ASSUME NEW j \in 1..(l + 1) PROVE c[j] \in Nat \ {0} /\ c[j] <= c[l + 1]
  <2>1. PICK m \in Nat : m = (l + 1) - j /\ m <= l /\ (l + 1) - m = j
    <3>1. (l + 1) - j \in Nat
      OBVIOUS
    <3> QED
      BY <3>1
  <2> QED
    BY <1>5, <2>1 DEF T
<1> QED
  BY <1>6

(* What a step does to the events before the innermost body. *)
KeepsCuts(t, op, oq, l, bo, bs, f, k, D, c, d) ==
    /\ \A i \in 1..(c[l + 1] - 1) : k[i] = f[i]
    /\ \A j \in 1..l : Leads(t, c[j + 1]) /\ D[c[j + 1]] = op[j] /\ oq[j] = op[j] /\ bs[j] = bo[j]
    /\ \A j \in 1..(l + 1) : d[j] = c[j]

(* And the cuts before it are kept. *)
LEMMA CutsKept ==
    ASSUME NEW ev, NEW t, NEW op, NEW oq, NEW l \in Nat, NEW bo, NEW bs, NEW f, NEW k, NEW E, NEW D, NEW c, NEW d,
           Cuts(ev, op, l, bo, f, E, c), KeepsCuts(t, op, oq, l, bo, bs, f, k, D, c, d)
    PROVE  Cuts(t, oq, l, bs, k, D, d)
<1>0. /\ \A i \in 1..(c[l + 1] - 1) : k[i] = f[i]
      /\ \A j \in 1..l : Leads(t, c[j + 1]) /\ D[c[j + 1]] = op[j] /\ oq[j] = op[j] /\ bs[j] = bo[j]
      /\ \A j \in 1..(l + 1) : d[j] = c[j]
  BY DEF KeepsCuts
<1> USE <1>0
<1>1. d[1] = 1
  BY DEF Cuts
<1>2. ASSUME NEW j \in 1..l PROVE CutAt(t, oq, bs, k, D, d, j)
  <2>1. /\ c[j] \in Nat \ {0} /\ c[j] <= c[j + 1] /\ Yields(Item, f, c[j], c[j + 1] - 1, bo[j])
    BY DEF Cuts, CutAt
  <2>2. j \in 1..(l + 1) /\ j + 1 \in 1..(l + 1)
    OBVIOUS
  <2>3. c[j + 1] \in Nat \ {0} /\ c[j + 1] <= c[l + 1] /\ c[l + 1] \in Nat \ {0}
    <3>1. l + 1 \in 1..(l + 1)
      OBVIOUS
    <3> QED
      BY <2>2, <3>1, CutsRise
  <2>4. \A i \in c[j]..(c[j + 1] - 1) : i \in 1..(c[l + 1] - 1)
    BY <2>1, <2>3
  <2>5. SameFrom(f, k, c[j], c[j + 1] - 1)
    BY <2>4 DEF SameFrom
  <2>6. Yields(Item, k, c[j], c[j + 1] - 1, bo[j])
    BY <2>1, <2>5, YieldsSame
  <2>7. d[j] = c[j] /\ d[j + 1] = c[j + 1]
    BY <2>2
  <2>8. Leads(t, c[j + 1]) /\ D[c[j + 1]] = op[j] /\ oq[j] = op[j] /\ bs[j] = bo[j]
    OBVIOUS
  <2> QED
    BY ONLY <2>1, <2>6, <2>7, <2>8 DEF CutAt
<1> QED
  BY <1>1, <1>2 DEF Cuts

(* Where the innermost body begins. *)
TopCutAt(ev, n, op, l, bo, E, c) ==
    /\ c[l + 1] \in Nat \ {0} /\ c[l + 1] <= n + 1 /\ bo[l + 1] \in Seq(Item)
    /\ \A j \in 1..l : c[j + 1] \in 1..n /\ Leads(ev, c[j + 1]) /\ E[c[j + 1]] = op[j]

(* It begins at or behind the last event. *)
LEMMA TopCut ==
    ASSUME NEW h, NEW v, NEW ev, NEW n, NEW op, NEW l, NEW bo, NEW la, NEW sz,
           NEW o, NEW f, NEW E, NEW c, Grown(h, v, ev, n, op, l, bo, la, sz, o, f, E, c),
           ev \in Seq(Event), n \in Nat, n = Len(ev), l \in Nat
    PROVE  TopCutAt(ev, n, op, l, bo, E, c)
<1>0. Cuts(ev, op, l, bo, f, E, c) /\ Yields(Item, f, c[l + 1], n, bo[l + 1])
  BY DEF Grown
<1>1. \A j \in 1..l : Leads(ev, c[j + 1]) /\ E[c[j + 1]] = op[j]
  BY <1>0 DEF Cuts, CutAt
<1>2. \A j \in 1..l : c[j + 1] \in 1..n
  BY <1>1 DEF Leads
<1>3. c[l + 1] \in Nat \ {0} /\ c[l + 1] <= n + 1
  <2>1. CASE l = 0
    BY <1>0, <2>1 DEF Cuts
  <2>2. CASE l # 0
    <3>1. c[l + 1] \in 1..n
      BY <1>2, <2>2
    <3> QED
      BY <3>1
  <2> QED
    BY <2>1, <2>2
<1>4. bo[l + 1] \in Seq(Item)
  <2>1. n \in Int /\ c[l + 1] \in Nat /\ c[l + 1] <= n + 1
    BY <1>3
  <2> QED
    BY ONLY <2>1, <1>0, YieldsType
<1> QED
  BY <1>1, <1>2, <1>3, <1>4 DEF TopCutAt

(* The m events of t behind the first n have no links. *)
Unlinked(t, n, m) == \A i \in 1..m : t[n + i].forward_parent = 0
(* What begins a chain in s does so in t, and t has no new targets. *)
LeadsOn(s, t) == /\ \A i : Aimed(t, i) => Aimed(s, i) /\ i \in 1..Len(s)
                 /\ \A i : Leads(s, i) => Leads(t, i)

(* New events without links lead nowhere. *)
LEMMA LeadsMore ==
    ASSUME NEW ev \in Seq(Event), NEW t \in Seq(Event), NEW n \in Nat, n = Len(ev), NEW m \in Nat, Len(t) = n + m,
           Prefix(ev, n, t), LinksLand(ev), Unlinked(t, n, m)
    PROVE  LeadsOn(ev, t)
<1>0. \A i \in 1..m : t[n + i].forward_parent = 0
  BY DEF Unlinked
<1> USE <1>0
<1>1. \A i \in 1..n : t[i] = ev[i] /\ i \in 1..(n + m)
  BY DEF Prefix
<1>2. ASSUME NEW i, Aimed(t, i) PROVE Aimed(ev, i) /\ i \in 1..n
  <2>1. PICK j \in 1..(n + m) : t[j].forward_parent # 0 /\ j + t[j].forward_parent = i
    BY <1>2 DEF Aimed
  <2>2. j \in 1..n
    <3>1. CASE j > n
      <4>1. j - n \in 1..m /\ n + (j - n) = j
        BY <3>1
      <4> QED
        BY <2>1, <4>1
    <3> QED
      BY <3>1
  <2>3. ev[j].forward_parent # 0 /\ j + ev[j].forward_parent = i /\ DOMAIN ev = 1..n
    BY <1>1, <2>1, <2>2
  <2> QED
    BY <2>2, <2>3 DEF Aimed, LinksLand
<1>3. ASSUME NEW i, Leads(ev, i) PROVE Leads(t, i)
  <2>1. i \in 1..n /\ ev[i].tag = "Start" /\ ~Aimed(ev, i)
    BY <1>3 DEF Leads
  <2>2. i \in 1..Len(t) /\ t[i].tag = "Start" /\ ~Aimed(t, i)
    BY <1>1, <1>2, <2>1
  <2> QED
    BY <2>2 DEF Leads
<1> QED
  BY <1>2, <1>3 DEF LeadsOn

(* Whatever stands before them, the m events w behind the first n yield y. *)
Yielding(n, m, w, y) == \A k : (\A i \in 1..m : k[n + i] = w[i]) => Yields(Item, k, n + 1, n + m, y)

(* Tokens, errors, error nodes. *)
LEMMA GrowMore ==
    ASSUME NEW h, NEW v, NEW ev \in Seq(Event), NEW t \in Seq(Event), NEW n \in Nat, n = Len(ev),
           NEW m \in Nat, Len(t) = n + m, Prefix(ev, n, t), LinksLand(ev),
           NEW w, Adds(h, v, t, n, m, w), NEW y, Yielding(n, m, w, y),
           NEW op, NEW l \in Nat, NEW bo, NEW la, NEW sz, Grows(h, v, ev, n, op, l, bo, la, sz),
           NEW bs, \A j \in 1..l : bs[j] = bo[j], bs[l + 1] = bo[l + 1] \o y, NEW z
    PROVE  Grows(h, v, t, n + m, op, l, bs, 0, z)
<1>0. PICK o, f, E, c : Grown(h, v, ev, n, op, l, bo, la, sz, o, f, E, c)
  BY DEF Grows
<1>1. Unfolds(h, v, ev, o, f, E) /\ Cuts(ev, op, l, bo, f, E, c) /\ Yields(Item, f, c[l + 1], n, bo[l + 1])
  BY <1>0 DEF Grown
<1>2. PICK q, k, D : /\ Unfolds(h, v, t, q, k, D)
                     /\ Extends(n, m, f, w, k) /\ Extends(n, m, E, [i \in 1..m |-> n + i], D)
  BY <1>1, UnfoldsMore
<1>3. \A i \in 1..n : k[i] = f[i] /\ D[i] = E[i]
  BY <1>2 DEF Extends
<1>4. /\ c[l + 1] \in Nat \ {0} /\ c[l + 1] <= n + 1
      /\ \A j \in 1..l : c[j + 1] \in 1..n /\ Leads(ev, c[j + 1]) /\ E[c[j + 1]] = op[j]
  <2>1. TopCutAt(ev, n, op, l, bo, E, c)
    BY <1>0, TopCut
  <2> QED
    BY <2>1 DEF TopCutAt
<1>5. \A i : Leads(ev, i) => Leads(t, i)
  <2>1. Unlinked(t, n, m)
    BY DEF Adds, Unlinked
  <2>2. LeadsOn(ev, t)
    BY <2>1, LeadsMore
  <2> QED
    BY <2>2 DEF LeadsOn
<1>6. Cuts(t, op, l, bs, k, D, c)
  <2>1. \A i \in 1..(c[l + 1] - 1) : k[i] = f[i]
    <3>1. \A i \in 1..(c[l + 1] - 1) : i \in 1..n
      BY <1>4
    <3> QED
      BY <1>3, <3>1
  <2>2. \A j \in 1..l : Leads(t, c[j + 1]) /\ D[c[j + 1]] = op[j] /\ op[j] = op[j] /\ bs[j] = bo[j]
    BY <1>3, <1>4, <1>5
  <2>3. \A j \in 1..(l + 1) : c[j] = c[j]
    OBVIOUS
  <2>4. KeepsCuts(t, op, op, l, bo, bs, f, k, D, c, c)
    BY ONLY <2>1, <2>2, <2>3 DEF KeepsCuts
  <2> QED
    BY ONLY <1>1, <2>4, l \in Nat, CutsKept
<1>7. Yields(Item, k, c[l + 1], n + m, bo[l + 1] \o y)
  <2>1. SameFrom(f, k, c[l + 1], n)
    <3>1. \A i \in c[l + 1]..n : i \in 1..n
      BY <1>4
    <3> QED
      BY <1>3, <3>1 DEF SameFrom
  <2>2. Yields(Item, k, c[l + 1], n, bo[l + 1])
    BY <1>1, <2>1, YieldsSame
  <2>3. Yields(Item, k, n + 1, n + m, y)
    BY <1>2 DEF Yielding, Extends
  <2>4. n \in Int /\ n + m \in Int /\ n <= n + m /\ c[l + 1] \in Nat /\ c[l + 1] <= n + 1
    BY <1>4
  <2> QED
    BY ONLY <2>2, <2>3, <2>4, YieldsJoin
<1>8. Yields(Item, k, c[l + 1], n + m, bs[l + 1])
  BY <1>7
<1>9. InHand(t, n + m, c[l + 1], k, D, 0, z)
  BY DEF InHand
<1> QED
  BY <1>2, <1>6, <1>8, <1>9 DEF Grows, Grown

(* A new marker. *)
LEMMA GrowStart ==
    ASSUME NEW h, NEW v, NEW ev \in Seq(Event), NEW t \in Seq(Event), NEW n \in Nat, n = Len(ev),
           Len(t) = n + 1, Prefix(ev, n, t), t[n + 1] = StartEvent(TOMBSTONE), LinksLand(ev),
           NEW op, NEW l \in Nat, NEW bo, NEW la, NEW sz, Grows(h, v, ev, n, op, l, bo, la, sz),
           NEW oq, oq[l + 1] = n + 1, Prefix(op, l, oq), NEW bs, Prefix(bo, l + 1, bs), bs[l + 2] = <<>>, NEW z
    PROVE  Grows(h, v, t, n + 1, oq, l + 1, bs, 0, z)
<1>0. PICK o, f, E, c : Grown(h, v, ev, n, op, l, bo, la, sz, o, f, E, c)
  BY DEF Grows
<1>1. Unfolds(h, v, ev, o, f, E) /\ Cuts(ev, op, l, bo, f, E, c) /\ Yields(Item, f, c[l + 1], n, bo[l + 1])
  BY <1>0 DEF Grown
<1>2. PICK w : w = << <<>> >>
  OBVIOUS
<1>3. w[1] = <<>> /\ <<>> \in Seq(Item)
  BY <1>2
<1>4. t[n + 1].forward_parent = 0 /\ t[n + 1].tag = "Start" /\ t[n + 1].kind = TOMBSTONE
  BY DEF StartEvent
<1>5. Adds(h, v, t, n, 1, w)
  <2>1. Shows(h, v, t, n + 1, w[1])
    BY <1>3, <1>4 DEF Shows
  <2>2. w[1] = Own(t[n + 1].kind)
    BY <1>3, <1>4 DEF Own
  <2>3. \A i \in 1..1 : i = 1
    OBVIOUS
  <2> QED
    BY <1>4, <2>1, <2>2, <2>3 DEF Adds
<1>6. PICK q, k, D : /\ Unfolds(h, v, t, q, k, D)
                     /\ Extends(n, 1, f, w, k) /\ Extends(n, 1, E, [i \in 1..1 |-> n + i], D)
  BY <1>1, <1>5, UnfoldsMore, 1 \in Nat
<1>7. \A i \in 1..n : k[i] = f[i] /\ D[i] = E[i]
  BY <1>6 DEF Extends
<1>8. k[n + 1] = <<>> /\ D[n + 1] = n + 1
  BY <1>3, <1>6 DEF Extends
<1>9. /\ c[l + 1] \in Nat \ {0} /\ c[l + 1] <= n + 1
      /\ \A j \in 1..l : c[j + 1] \in 1..n /\ Leads(ev, c[j + 1]) /\ E[c[j + 1]] = op[j]
  <2>1. TopCutAt(ev, n, op, l, bo, E, c)
    BY <1>0, TopCut
  <2> QED
    BY <2>1 DEF TopCutAt
<1>10. (\A i : Leads(ev, i) => Leads(t, i)) /\ Leads(t, n + 1)
  <2>1. Unlinked(t, n, 1)
    BY <1>4 DEF Unlinked
  <2>2. LeadsOn(ev, t)
    BY <2>1, LeadsMore, 1 \in Nat
  <2>3. n + 1 \notin 1..n /\ n + 1 \in 1..Len(t)
    OBVIOUS
  <2> QED
    BY <1>4, <2>2, <2>3 DEF Leads, LeadsOn
<1> DEFINE d == [j \in 1..(l + 2) |-> IF j = l + 2 THEN n + 1 ELSE c[j]]
<1>11. (\A j \in 1..(l + 1) : d[j] = c[j]) /\ d[l + 2] = n + 1
  OBVIOUS
<1> HIDE DEF d
<1>12. Cuts(t, oq, l, bs, k, D, d)
  <2>1. \A i \in 1..(c[l + 1] - 1) : k[i] = f[i]
    <3>1. \A i \in 1..(c[l + 1] - 1) : i \in 1..n
      BY <1>9
    <3> QED
      BY <1>7, <3>1
  <2>2. \A j \in 1..l : Leads(t, c[j + 1]) /\ D[c[j + 1]] = op[j] /\ oq[j] = op[j] /\ bs[j] = bo[j]
    <3>1. \A j \in 1..l : oq[j] = op[j] /\ bs[j] = bo[j]
      BY DEF Prefix
    <3>2. \A j \in 1..l : Leads(t, c[j + 1]) /\ D[c[j + 1]] = op[j]
      BY ONLY <1>7, <1>9, <1>10
    <3> QED
      BY ONLY <3>1, <3>2
  <2>3. KeepsCuts(t, op, oq, l, bo, bs, f, k, D, c, d)
    BY ONLY <1>11, <2>1, <2>2 DEF KeepsCuts
  <2> QED
    BY ONLY <1>1, <2>3, l \in Nat, CutsKept
<1>13. CutAt(t, oq, bs, k, D, d, l + 1)
  <2>1. SameFrom(f, k, c[l + 1], n)
    <3>1. \A i \in c[l + 1]..n : i \in 1..n
      BY <1>9
    <3> QED
      BY <1>7, <3>1 DEF SameFrom
  <2>2. Yields(Item, k, c[l + 1], n, bo[l + 1])
    BY <1>1, <2>1, YieldsSame
  <2>3. l + 1 \in 1..(l + 1) /\ (l + 1) + 1 = l + 2 /\ (n + 1) - 1 = n
    OBVIOUS
  <2>4. d[l + 1] = c[l + 1] /\ d[(l + 1) + 1] = n + 1 /\ d[(l + 1) + 1] - 1 = n /\ bs[l + 1] = bo[l + 1]
    BY <1>11, <2>3 DEF Prefix
  <2> QED
    BY ONLY <1>8, <1>9, <1>10, <2>2, <2>4, oq[l + 1] = n + 1 DEF CutAt
<1>14. Cuts(t, oq, l + 1, bs, k, D, d)
  <2>1. \A j \in 1..(l + 1) : j = l + 1 \/ j \in 1..l
    OBVIOUS
  <2> QED
    BY <1>12, <1>13, <2>1 DEF Cuts
<1>15. Yields(Item, k, n + 1, n + 1, <<>>)
  <2>1. PICK a \in Nat, b \in Int : a = n + 1 /\ b = n /\ b = a - 1 /\ a <= b + 1
    <3>1. n + 1 \in Nat /\ n \in Int /\ n = (n + 1) - 1 /\ n + 1 <= n + 1
      OBVIOUS
    <3> QED
      BY <3>1
  <2>2. PICK y : y = <<>> /\ y \in Seq(Item)
    BY <1>3
  <2>3. Yields(Item, k, a, b, y)
    BY ONLY <2>1, <2>2, YieldsNothing
  <2>4. k[b + 1] = y /\ b + 1 = a
    BY <1>8, <2>1, <2>2
  <2>5. Yields(Item, k, a, b + 1, y \o k[b + 1])
    BY ONLY <2>1, <2>2, <2>3, <2>4, YieldsMore
  <2>6. y \o y = y
    BY ONLY <2>2, ConcatEmptySeq
  <2> QED
    BY <2>1, <2>2, <2>4, <2>5, <2>6
<1>16. (l + 1) + 1 = l + 2 /\ Yields(Item, k, d[(l + 1) + 1], n + 1, bs[(l + 1) + 1])
  <2>1. (l + 1) + 1 = l + 2
    OBVIOUS
  <2> QED
    BY ONLY <1>11, <1>15, <2>1, bs[l + 2] = <<>>
<1>17. InHand(t, n + 1, d[(l + 1) + 1], k, D, 0, z)
  BY DEF InHand
<1> QED
  BY <1>6, <1>14, <1>16, <1>17 DEF Grows, Grown

(* What is cut off the events s with m + 1 live markers. *)
InnerAt(h, v, s, n, op, m, bo, o, f, E, c) ==
    /\ Unfolds(h, v, s, o, f, E) /\ Cuts(s, op, m, bo, f, E, c)
    /\ c[m + 1] \in Nat \ {0} /\ c[m + 2] \in 1..n /\ c[m + 1] <= c[m + 2]
    /\ \A j \in 1..m : c[j + 1] \in 1..n /\ Leads(s, c[j + 1]) /\ E[c[j + 1]] = op[j]
    /\ Yields(Item, f, c[m + 1], c[m + 2] - 1, bo[m + 1]) /\ bo[m + 1] \in Seq(Item)
    /\ Yields(Item, f, c[m + 2], n, bo[m + 2]) /\ bo[m + 2] \in Seq(Item)
    /\ Leads(s, c[m + 2]) /\ E[c[m + 2]] = op[m + 1]

(* The two innermost bodies and the Start between them. *)
LEMMA InnerCut ==
    ASSUME NEW h, NEW v, NEW s, NEW n, NEW op, NEW m, NEW bo, NEW la, NEW sz,
           NEW o, NEW f, NEW E, NEW c, Grown(h, v, s, n, op, m + 1, bo, la, sz, o, f, E, c),
           s \in Seq(Event), n \in Nat, n = Len(s), m \in Nat
    PROVE  InnerAt(h, v, s, n, op, m, bo, o, f, E, c)
<1>1. (m + 1) + 1 = m + 2 /\ m + 1 \in Nat /\ m + 1 \in 1..(m + 1) /\ \A j \in 1..m : j \in 1..(m + 1) /\ j + 1 \in 1..(m + 1)
  OBVIOUS
<1>2. /\ Unfolds(h, v, s, o, f, E) /\ Cuts(s, op, m + 1, bo, f, E, c) /\ Yields(Item, f, c[m + 2], n, bo[m + 2])
  BY <1>1 DEF Grown
<1>3. TopCutAt(s, n, op, m + 1, bo, E, c)
  BY <1>1, TopCut
<1>4. /\ bo[m + 2] \in Seq(Item)
      /\ \A j \in 1..(m + 1) : c[j + 1] \in 1..n /\ Leads(s, c[j + 1]) /\ E[c[j + 1]] = op[j]
  BY <1>1, <1>3 DEF TopCutAt
<1>5. Cuts(s, op, m, bo, f, E, c)
  BY <1>1, <1>2 DEF Cuts
<1>6. \A j \in 1..(m + 1) : c[j] \in Nat \ {0} /\ c[j] <= c[m + 1]
  BY <1>5, CutsRise
<1>7. c[m + 1] <= c[m + 2] /\ Yields(Item, f, c[m + 1], c[m + 2] - 1, bo[m + 1])
  BY <1>1, <1>2 DEF Cuts, CutAt
<1>8. c[m + 2] \in 1..n /\ Leads(s, c[m + 2]) /\ E[c[m + 2]] = op[m + 1]
  <2>1. c[(m + 1) + 1] \in 1..n /\ Leads(s, c[(m + 1) + 1]) /\ E[c[(m + 1) + 1]] = op[m + 1]
    BY <1>1, <1>4
  <2> QED
    BY <1>1, <2>1
<1>9. c[m + 1] \in Nat \ {0}
  BY <1>1, <1>6
<1>10. \A j \in 1..m : c[j + 1] \in 1..n /\ Leads(s, c[j + 1]) /\ E[c[j + 1]] = op[j]
  BY <1>1, <1>4
<1>11. bo[m + 1] \in Seq(Item)
  <2>1. c[m + 2] - 1 \in Int /\ c[m + 1] \in Nat /\ c[m + 1] <= (c[m + 2] - 1) + 1
    BY <1>7, <1>8, <1>9
  <2> QED
    BY ONLY <1>7, <2>1, YieldsType
<1> QED
  BY <1>2, <1>4, <1>5, <1>7, <1>8, <1>9, <1>10, <1>11 DEF InnerAt

(* The innermost marker completes its node. *)
Committing(s, n, m, op, p, kd, u, t) ==
    /\ s \in Seq(Event) /\ n \in Nat /\ n = Len(s) /\ LinksLand(s) /\ m \in Nat
    /\ p \in 1..n /\ p = op[m + 1] /\ s[p] = StartEvent(TOMBSTONE) /\ kd \in EventKinds /\ kd # TOMBSTONE
    /\ u \in Seq(Event) /\ Len(u) = n /\ u[p] = StartEvent(kd) /\ (\A i \in 1..n : i # p => u[i] = s[i]) /\ LinksLand(u)
    /\ t \in Seq(Event) /\ Len(t) = n + 1 /\ Prefix(u, n, t) /\ t[n + 1] = FinishEvent
(* The innermost body, wrapped in a node, goes behind the one around it. *)
Wrapping(m, op, oq, bo, kd, node, bs) ==
    /\ Prefix(op, m, oq) /\ node = (<<OpenItem(kd)>> \o bo[m + 2]) \o <<CloseItem>>
    /\ Prefix(bo, m, bs) /\ bs[m + 1] = bo[m + 1] \o node

(* `complete` wraps the innermost body. *)
LEMMA GrowComplete ==
    ASSUME NEW h, NEW v, NEW s, NEW n, NEW m, NEW op, NEW p, NEW kd, NEW u, NEW t, NEW oq, NEW bo, NEW node, NEW bs,
           NEW la, NEW sz, NEW lb, lb \in {0, p},
           Committing(s, n, m, op, p, kd, u, t), Wrapping(m, op, oq, bo, kd, node, bs),
           Grows(h, v, s, n, op, m + 1, bo, la, sz)
    PROVE  Grows(h, v, t, n + 1, oq, m, bs, lb, Len(node))
<1>c. /\ s \in Seq(Event) /\ n \in Nat /\ n = Len(s) /\ LinksLand(s) /\ m \in Nat
      /\ p \in 1..n /\ p = op[m + 1] /\ s[p] = StartEvent(TOMBSTONE) /\ kd \in EventKinds /\ kd # TOMBSTONE
      /\ u \in Seq(Event) /\ Len(u) = n /\ u[p] = StartEvent(kd) /\ (\A i \in 1..n : i # p => u[i] = s[i]) /\ LinksLand(u)
      /\ t \in Seq(Event) /\ Len(t) = n + 1 /\ Prefix(u, n, t) /\ t[n + 1] = FinishEvent
  BY DEF Committing
<1>w. /\ Prefix(op, m, oq) /\ node = (<<OpenItem(kd)>> \o bo[m + 2]) \o <<CloseItem>>
      /\ Prefix(bo, m, bs) /\ bs[m + 1] = bo[m + 1] \o node
  BY DEF Wrapping
<1> USE <1>c, <1>w
<1>0. PICK o, f, E, c : Grown(h, v, s, n, op, m + 1, bo, la, sz, o, f, E, c)
  BY DEF Grows
<1>1. InnerAt(h, v, s, n, op, m, bo, o, f, E, c)
  BY <1>0, InnerCut
<1>2. PICK a, b : a = c[m + 1] /\ b = c[m + 2]
  OBVIOUS
<1>3. /\ a \in Nat \ {0} /\ b \in 1..n /\ a <= b /\ Yields(Item, f, a, b - 1, bo[m + 1]) /\ Yields(Item, f, b, n, bo[m + 2])
      /\ Leads(s, b) /\ E[b] = p /\ Unfolds(h, v, s, o, f, E) /\ Cuts(s, op, m, bo, f, E, c)
      /\ \A j \in 1..m : c[j + 1] \in 1..n /\ Leads(s, c[j + 1]) /\ E[c[j + 1]] = op[j]
  BY <1>1, <1>2 DEF InnerAt
<1>4. PICK e : e = OpenItem(kd) /\ e \in Item
  <2>1. OpenItem(kd) \in Item
    BY DEF OpenItem, Item
  <2> QED
    BY <2>1
<1>5. PICK q, g : /\ Unfolds(h, v, u, q, g, E)
                  /\ \A i \in 1..n : g[i] = IF Leads(s, i) /\ E[i] = p THEN <<e>> \o f[i] ELSE f[i]
  <2>1. Completes(s, u, p, kd)
    BY DEF Completes
  <2>2. \E q, g : Unfolds(h, v, u, q, g, E) /\ OpensMore(s, E, p, kd, f, g)
    BY <1>3, <2>1, UnfoldsComplete
  <2>3. PICK q, g : Unfolds(h, v, u, q, g, E) /\ OpensMore(s, E, p, kd, f, g)
    BY ONLY <2>2
  <2>4. n = Len(s)
    OBVIOUS
  <2>5. \A i \in 1..n : g[i] = IF Leads(s, i) /\ E[i] = p THEN <<e>> \o f[i] ELSE f[i]
    BY ONLY <1>4, <2>3, <2>4 DEF OpensMore
  <2> QED
    BY ONLY <2>3, <2>5
<1>6. g[b] = <<e>> \o f[b] /\ \A i \in 1..n : i # b => g[i] = f[i]
  <2>1. g[b] = <<e>> \o f[b]
    BY <1>3, <1>5
  <2>2. ASSUME NEW i \in 1..n, Leads(s, i), E[i] = p PROVE i = b
    BY <1>3, <2>2 DEF Unfolds, Apart
  <2> QED
    BY <1>5, <2>1, <2>2
<1>7. PICK w : w[1] = <<CloseItem>>
  <2>1. << <<CloseItem>> >>[1] = <<CloseItem>>
    OBVIOUS
  <2> QED
    BY <2>1
<1>8. CloseItem \in Item /\ <<CloseItem>> \in Seq(Item)
  <2>1. CloseItem \in Item
    BY DEF CloseItem, Item, EventKinds
  <2> QED
    BY <2>1
<1>9. Adds(h, v, t, n, 1, w)
  <2>1. t[n + 1].forward_parent = 0 /\ t[n + 1].tag = "Finish"
    BY DEF FinishEvent
  <2>2. Shows(h, v, t, n + 1, w[1])
    BY <1>7, <1>8, <2>1 DEF Shows
  <2>3. \A i \in 1..1 : i = 1
    OBVIOUS
  <2> QED
    BY <2>1, <2>2, <2>3 DEF Adds
<1>10. PICK r, k, D : /\ Unfolds(h, v, t, r, k, D)
                      /\ Extends(n, 1, g, w, k) /\ Extends(n, 1, E, [i \in 1..1 |-> n + i], D)
  <2>1. /\ Len(t) = Len(u) + 1 /\ Prefix(u, Len(u), t) /\ Adds(h, v, t, Len(u), 1, w) /\ 1 \in Nat
        /\ Unfolds(h, v, u, q, g, E)
    BY <1>5, <1>9
  <2>2. \E r, k, D : /\ Unfolds(h, v, t, r, k, D)
                     /\ Extends(Len(u), 1, g, w, k) /\ Extends(Len(u), 1, E, [i \in 1..1 |-> Len(u) + i], D)
    BY <2>1, UnfoldsMore
  <2> QED
    BY <2>2
<1>11. /\ \A i \in 1..n : D[i] = E[i] /\ k[i] = g[i]
       /\ k[n + 1] = <<CloseItem>> /\ k[b] = <<e>> \o f[b] /\ \A i \in 1..n : i # b => k[i] = f[i]
  <2>1. \A i \in 1..n : D[i] = E[i] /\ k[i] = g[i]
    BY <1>10 DEF Extends
  <2>2. k[n + 1] = <<CloseItem>>
    BY <1>7, <1>10 DEF Extends
  <2> QED
    BY <1>3, <1>6, <2>1, <2>2
<1>12. \A i : Leads(s, i) => Leads(t, i)
  <2>1. Unlinked(t, n, 1)
    BY DEF FinishEvent, Unlinked
  <2>2. LeadsOn(u, t)
    BY <2>1, LeadsMore, 1 \in Nat
  <2>3. \A i \in 1..n : u[i].tag = s[i].tag /\ u[i].forward_parent = s[i].forward_parent
    <3>1. s[p].tag = u[p].tag /\ s[p].forward_parent = u[p].forward_parent
      BY DEF StartEvent
    <3> QED
      BY <3>1
  <2>4. \A i : Leads(s, i) => Leads(u, i)
    BY <2>3 DEF Leads, Aimed
  <2> QED
    BY <2>2, <2>4 DEF LeadsOn
<1>r. n \in Nat /\ a \in Nat \ {0} /\ b \in 1..n /\ a <= b
  BY <1>3
<1>13. Cuts(t, oq, m, bs, k, D, c)
  <2>1. \A i \in 1..(c[m + 1] - 1) : k[i] = f[i]
    <3>1. \A i \in 1..(a - 1) : i \in 1..n /\ i # b
      BY ONLY <1>r
    <3> QED
      BY <1>2, <1>11, <3>1
  <2>2. \A j \in 1..m : Leads(t, c[j + 1]) /\ D[c[j + 1]] = op[j] /\ oq[j] = op[j] /\ bs[j] = bo[j]
    BY <1>3, <1>11, <1>12 DEF Prefix
  <2>3. \A j \in 1..(m + 1) : c[j] = c[j]
    OBVIOUS
  <2>4. KeepsCuts(t, op, oq, m, bo, bs, f, k, D, c, c)
    BY ONLY <2>1, <2>2, <2>3 DEF KeepsCuts
  <2> QED
    BY ONLY <1>3, <2>4, m \in Nat, CutsKept
<1>14. Yields(Item, k, a, b - 1, bo[m + 1])
  <2>1. SameFrom(f, k, a, b - 1)
    <3>1. \A i \in a..(b - 1) : i \in 1..n /\ i # b
      BY ONLY <1>r
    <3> QED
      BY <1>11, <3>1 DEF SameFrom
  <2> QED
    BY <1>3, <2>1, YieldsSame
<1>15. Yields(Item, k, b, n, <<e>> \o bo[m + 2])
  <2>1. SameFrom(f, k, b + 1, n)
    <3>1. \A i \in (b + 1)..n : i \in 1..n /\ i # b
      BY ONLY <1>r
    <3> QED
      BY <1>11, <3>1 DEF SameFrom
  <2>2. b \in Nat /\ n \in Int /\ b <= n
    BY <1>3
  <2> QED
    BY ONLY <1>3, <1>4, <1>11, <2>1, <2>2, YieldsBefore
<1>16. Yields(Item, k, b, n + 1, node)
  <2>1. b \in Nat /\ n \in Int /\ b <= n + 1 /\ k[n + 1] \in Seq(Item)
    BY <1>3, <1>8, <1>11
  <2>2. Yields(Item, k, b, n + 1, (<<e>> \o bo[m + 2]) \o k[n + 1])
    BY ONLY <1>15, <2>1, YieldsMore
  <2> QED
    BY <1>4, <1>11, <2>2
<1>17. Yields(Item, k, a, n + 1, bo[m + 1] \o node)
  <2>1. PICK x \in Int : x = b - 1 /\ x + 1 = b /\ a <= x + 1 /\ x <= n + 1
    <3>1. b - 1 \in Int /\ (b - 1) + 1 = b /\ a <= (b - 1) + 1 /\ b - 1 <= n + 1
      BY <1>3
    <3> QED
      BY <3>1
  <2>2. Yields(Item, k, a, x, bo[m + 1]) /\ Yields(Item, k, x + 1, n + 1, node) /\ a \in Nat /\ n + 1 \in Int
    BY <1>3, <1>14, <1>16, <2>1
  <2> QED
    BY ONLY <2>1, <2>2, YieldsJoin
<1>18. InHand(t, n + 1, a, k, D, lb, Len(node))
  <2>1. Leads(t, b) /\ a <= b /\ D[b] = p
    BY <1>3, <1>11, <1>12
  <2> QED
    BY <1>14, <1>16, <2>1 DEF InHand
<1> QED
  BY <1>2, <1>10, <1>13, <1>17, <1>18 DEF Grows, Grown

(* The innermost body is split in two. *)
Splits(bo, l, u, w, bs) == Prefix(bo, l, bs) /\ bs[l + 1] = u /\ bs[l + 2] = w

(* The completed node in hand gets a parent. *)
Listed(s, t, n) == s \in Seq(Event) /\ t \in Seq(Event) /\ n \in Nat /\ n = Len(s) /\ LinksLand(s)
(* No live marker is at p. *)
Off(op, l, p) == l \in Nat /\ \A j \in 1..l : op[j] # p
(* oq is op with e on top. *)
Pushed(op, l, oq, e) == Prefix(op, l, oq) /\ oq[l + 1] = e
(* The innermost body ends in sz items that become a body of their own. *)
SplitGrows(h, v, t, r, oq, l, bo, sz, z) ==
    \E u, w : /\ u \in Seq(Item) /\ w \in Seq(Item) /\ Len(w) = sz /\ bo[l + 1] = u \o w
              /\ \A bs : Splits(bo, l, u, w, bs) => Grows(h, v, t, r, oq, l + 1, bs, 0, z)

(* `precede` splits the innermost body before the node in hand. *)
LEMMA GrowPrecede ==
    ASSUME NEW h, NEW v, NEW s, NEW t, NEW n, NEW p, NEW op, NEW l, NEW oq, NEW bo, NEW sz, NEW z,
           Listed(s, t, n), p # 0, Precedes(s, t, n, p), Off(op, l, p), Pushed(op, l, oq, n + 1),
           Grows(h, v, s, n, op, l, bo, p, sz)
    PROVE  SplitGrows(h, v, t, n + 1, oq, l, bo, sz, z)
<1>l. s \in Seq(Event) /\ t \in Seq(Event) /\ n \in Nat /\ n = Len(s) /\ LinksLand(s)
  BY DEF Listed
<1>o. l \in Nat /\ \A j \in 1..l : op[j] # p
  BY DEF Off
<1>p. Prefix(op, l, oq) /\ oq[l + 1] = n + 1
  BY DEF Pushed
<1> USE <1>l, <1>o, <1>p
<1> SUFFICES \E u, w : /\ u \in Seq(Item) /\ w \in Seq(Item) /\ Len(w) = sz /\ bo[l + 1] = u \o w
                       /\ \A bs : Splits(bo, l, u, w, bs) => Grows(h, v, t, n + 1, oq, l + 1, bs, 0, z)
  BY DEF SplitGrows
<1>0. PICK o, f, E, c : Grown(h, v, s, n, op, l, bo, p, sz, o, f, E, c)
  BY DEF Grows
<1>1. /\ Unfolds(h, v, s, o, f, E) /\ Cuts(s, op, l, bo, f, E, c) /\ Yields(Item, f, c[l + 1], n, bo[l + 1])
      /\ InHand(s, n, c[l + 1], f, E, p, sz)
  BY <1>0 DEF Grown
<1>2. /\ c[l + 1] \in Nat \ {0} /\ c[l + 1] <= n + 1
      /\ \A j \in 1..l : c[j + 1] \in 1..n /\ Leads(s, c[j + 1]) /\ E[c[j + 1]] = op[j]
  <2>1. TopCutAt(s, n, op, l, bo, E, c)
    BY <1>0, TopCut
  <2> QED
    BY <2>1 DEF TopCutAt
<1>3. PICK a : a = c[l + 1]
  OBVIOUS
<1>4. PICK b, u, w : /\ Leads(s, b) /\ E[b] = p /\ a <= b
                     /\ Yields(Item, f, a, b - 1, u) /\ Yields(Item, f, b, n, w) /\ Len(w) = sz
  BY <1>1, <1>3 DEF InHand
<1>5. b \in 1..n /\ a \in Nat \ {0} /\ a <= b
  BY <1>2, <1>3, <1>4 DEF Leads
<1>6. PICK x \in Int : x = b - 1 /\ x + 1 = b /\ a <= x + 1 /\ x <= n
  <2>1. b - 1 \in Int /\ (b - 1) + 1 = b /\ a <= (b - 1) + 1 /\ b - 1 <= n
    BY <1>5
  <2> QED
    BY <2>1
<1>7. Yields(Item, f, a, x, u) /\ Yields(Item, f, x + 1, n, w) /\ a \in Nat /\ n \in Int /\ b \in Nat /\ b <= n + 1
  BY <1>4, <1>5, <1>6
<1>8. u \in Seq(Item) /\ w \in Seq(Item)
  <2>1. u \in Seq(Item)
    BY ONLY <1>6, <1>7, YieldsType
  <2>2. Yields(Item, f, b, n, w)
    BY <1>4
  <2>3. w \in Seq(Item)
    BY ONLY <1>7, <2>2, YieldsType
  <2> QED
    BY <2>1, <2>3
<1>9. bo[l + 1] = u \o w
  <2>1. Yields(Item, f, a, n, u \o w)
    BY ONLY <1>6, <1>7, YieldsJoin
  <2>2. Yields(Item, f, a, n, bo[l + 1]) /\ a <= n + 1
    BY <1>1, <1>2, <1>3
  <2> QED
    BY ONLY <1>7, <2>1, <2>2, YieldsUnique
<1>10. PICK q, k, D : Unfolds(h, v, t, q, k, D) /\ Relinks(s, t, n, p, f, E, k, D)
  BY <1>1, UnfoldsPrecede
<1>11. /\ \A i \in 1..n : k[i] = f[i] /\ D[i] = IF E[i] = p THEN n + 1 ELSE E[i]
       /\ k[n + 1] = <<>>
       /\ \A i \in 1..n : Leads(s, i) => Leads(t, i)
  BY <1>10 DEF Relinks
<1> DEFINE d == [j \in 1..(l + 2) |-> IF j = l + 2 THEN b ELSE c[j]]
<1>12. (\A j \in 1..(l + 1) : d[j] = c[j]) /\ d[l + 2] = b
  OBVIOUS
<1> HIDE DEF d
<1>13. ASSUME NEW bs, Splits(bo, l, u, w, bs)
       PROVE  Grows(h, v, t, n + 1, oq, l + 1, bs, 0, z)
  <2>0. Prefix(bo, l, bs) /\ bs[l + 1] = u /\ bs[l + 2] = w
    BY <1>13 DEF Splits
  <2>1. Cuts(t, oq, l, bs, k, D, d)
    <3>1. \A i \in 1..(c[l + 1] - 1) : k[i] = f[i]
      <4>1. \A i \in 1..(c[l + 1] - 1) : i \in 1..n
        BY <1>2
      <4> QED
        BY <1>11, <4>1
    <3>2. \A j \in 1..l : Leads(t, c[j + 1]) /\ D[c[j + 1]] = op[j] /\ oq[j] = op[j] /\ bs[j] = bo[j]
      <4>1. ASSUME NEW j \in 1..l PROVE Leads(t, c[j + 1]) /\ D[c[j + 1]] = op[j]
        <5>1. c[j + 1] \in 1..n /\ Leads(s, c[j + 1]) /\ E[c[j + 1]] = op[j] /\ op[j] # p
          BY <1>2
        <5> QED
          BY ONLY <1>11, <5>1
      <4>2. ASSUME NEW j \in 1..l PROVE oq[j] = op[j] /\ bs[j] = bo[j]
        BY <2>0 DEF Prefix
      <4> QED
        BY <4>1, <4>2
    <3>3. KeepsCuts(t, op, oq, l, bo, bs, f, k, D, c, d)
      BY ONLY <1>12, <3>1, <3>2 DEF KeepsCuts
    <3> QED
      BY ONLY <1>1, <3>3, l \in Nat, CutsKept
  <2>2. CutAt(t, oq, bs, k, D, d, l + 1)
    <3>1. SameFrom(f, k, a, b - 1)
      <4>1. \A i \in a..(b - 1) : i \in 1..n
        BY <1>5
      <4> QED
        BY <1>11, <4>1 DEF SameFrom
    <3>2. Yields(Item, k, a, b - 1, u)
      BY <1>4, <3>1, YieldsSame
    <3>3. l + 1 \in 1..(l + 1) /\ (l + 1) + 1 = l + 2
      OBVIOUS
    <3>4. d[l + 1] = a /\ d[(l + 1) + 1] = b
      BY <1>3, <1>12, <3>3
    <3>5. Leads(t, b) /\ D[b] = n + 1
      BY <1>4, <1>5, <1>11
    <3> QED
      BY ONLY <1>5, <2>0, <3>2, <3>4, <3>5, oq[l + 1] = n + 1 DEF CutAt
  <2>3. Cuts(t, oq, l + 1, bs, k, D, d)
    <3>1. \A j \in 1..(l + 1) : j = l + 1 \/ j \in 1..l
      OBVIOUS
    <3> QED
      BY <2>1, <2>2, <3>1 DEF Cuts
  <2>4. Yields(Item, k, b, n + 1, w)
    <3>1. SameFrom(f, k, b, n)
      <4>1. \A i \in b..n : i \in 1..n
        BY <1>5
      <4> QED
        BY <1>11, <4>1 DEF SameFrom
    <3>2. Yields(Item, k, b, n, w)
      BY <1>4, <3>1, YieldsSame
    <3>3. PICK y : y = <<>> /\ y \in Seq(Item)
      <4>1. <<>> \in Seq(Item)
        OBVIOUS
      <4> QED
        BY <4>1
    <3>4. k[n + 1] = y
      BY <1>11, <3>3
    <3>5. Yields(Item, k, b, n + 1, w \o k[n + 1])
      <4>1. k[n + 1] \in Seq(Item)
        BY <3>3, <3>4
      <4> QED
        BY ONLY <1>7, <3>2, <4>1, YieldsMore
    <3>6. w \o y = w
      BY ONLY <1>8, <3>3, ConcatEmptySeq
    <3> QED
      BY <3>4, <3>5, <3>6
  <2>5. Yields(Item, k, d[(l + 1) + 1], n + 1, bs[(l + 1) + 1])
    <3>1. (l + 1) + 1 = l + 2
      OBVIOUS
    <3> QED
      BY ONLY <1>12, <2>0, <2>4, <3>1
  <2>6. InHand(t, n + 1, d[(l + 1) + 1], k, D, 0, z)
    BY DEF InHand
  <2> QED
    BY <1>10, <2>3, <2>5, <2>6 DEF Grows, Grown
<1>14. Len(w) = sz
  BY <1>4
<1> QED
  BY ONLY <1>8, <1>9, <1>13, <1>14

(* The innermost marker is given up. *)
LEMMA GrowAbandon ==
    ASSUME NEW h, NEW v, NEW s, NEW t, NEW n, NEW r, NEW p, NEW op, NEW m, NEW bo, NEW la, NEW sz, NEW oq, NEW bs, NEW z,
           Listed(s, t, n), Abandons(s, t, n, r, p), Off(op, m, p), p = op[m + 1], Prefix(op, m, oq),
           Grows(h, v, s, n, op, m + 1, bo, la, sz), Pushed(bo, m, bs, bo[m + 1] \o bo[m + 2])
    PROVE  Grows(h, v, t, r, oq, m, bs, 0, z)
<1>l. s \in Seq(Event) /\ t \in Seq(Event) /\ n \in Nat /\ n = Len(s) /\ LinksLand(s)
  BY DEF Listed
<1>o. m \in Nat /\ \A j \in 1..m : op[j] # p
  BY DEF Off
<1>p. Prefix(bo, m, bs) /\ bs[m + 1] = bo[m + 1] \o bo[m + 2]
  BY DEF Pushed
<1> USE <1>l, <1>o, <1>p
<1>0. PICK o, f, E, c : Grown(h, v, s, n, op, m + 1, bo, la, sz, o, f, E, c)
  BY DEF Grows
<1>1. InnerAt(h, v, s, n, op, m, bo, o, f, E, c)
  BY <1>0, InnerCut
<1>2. PICK a, b : a = c[m + 1] /\ b = c[m + 2]
  OBVIOUS
<1>3. /\ a \in Nat \ {0} /\ b \in 1..n /\ a <= b /\ Yields(Item, f, a, b - 1, bo[m + 1]) /\ Yields(Item, f, b, n, bo[m + 2])
      /\ Leads(s, b) /\ E[b] = p /\ Unfolds(h, v, s, o, f, E) /\ Cuts(s, op, m, bo, f, E, c)
      /\ \A j \in 1..m : c[j + 1] \in 1..n /\ Leads(s, c[j + 1]) /\ E[c[j + 1]] = op[j]
      /\ bo[m + 1] \in Seq(Item) /\ bo[m + 2] \in Seq(Item)
  BY <1>1, <1>2 DEF InnerAt
<1>4. Unfolds(h, v, t, o, f, E) /\ f[p] = <<>> /\ E[p] = p /\ LeadsButOne(s, t, p)
  BY <1>3, UnfoldsAbandon
<1>5. p \in 1..n /\ Leads(s, p) /\ r \in {n - 1, n} /\ (r = n - 1 => p = n)
  <2>1. s[p] = StartEvent(TOMBSTONE) /\ ~Aimed(s, p) /\ p \in 1..n /\ r \in {n - 1, n} /\ (r = n - 1 => p = n)
    BY DEF Abandons
  <2> QED
    BY <2>1 DEF Leads, StartEvent
<1>6. b = p
  BY <1>3, <1>4, <1>5 DEF Unfolds, Apart
<1>7. Cuts(t, oq, m, bs, f, E, c)
  <2>1. \A i \in 1..(c[m + 1] - 1) : f[i] = f[i]
    OBVIOUS
  <2>2. \A j \in 1..m : Leads(t, c[j + 1]) /\ E[c[j + 1]] = op[j] /\ oq[j] = op[j] /\ bs[j] = bo[j]
    <3>1. ASSUME NEW j \in 1..m PROVE c[j + 1] # p
      BY <1>3, <1>4
    <3> QED
      BY <1>3, <1>4, <3>1 DEF LeadsButOne, Prefix
  <2>3. \A j \in 1..(m + 1) : c[j] = c[j]
    OBVIOUS
  <2>4. KeepsCuts(t, op, oq, m, bo, bs, f, f, E, c, c)
    BY ONLY <2>1, <2>2, <2>3 DEF KeepsCuts
  <2> QED
    BY ONLY <1>3, <2>4, m \in Nat, CutsKept
<1>8. Yields(Item, f, a, r, bs[m + 1])
  <2>1. CASE r = n
    <3>1. PICK x \in Int : x = b - 1 /\ x + 1 = b /\ a <= x + 1 /\ x <= n
      <4>1. b - 1 \in Int /\ (b - 1) + 1 = b /\ a <= (b - 1) + 1 /\ b - 1 <= n
        BY <1>3
      <4> QED
        BY <4>1
    <3>2. Yields(Item, f, a, x, bo[m + 1]) /\ Yields(Item, f, x + 1, n, bo[m + 2]) /\ a \in Nat /\ n \in Int
      BY <1>3, <3>1
    <3>3. Yields(Item, f, a, n, bo[m + 1] \o bo[m + 2])
      BY ONLY <3>1, <3>2, YieldsJoin
    <3> QED
      BY <2>1, <3>3
  <2>2. CASE r # n
    <3>1. r = n - 1 /\ p = n /\ b = n
      BY <1>5, <1>6, <2>2
    <3>2. bo[m + 2] = <<>>
      <4>1. PICK g : g[n - 1] = <<>> /\ g[n] = g[n - 1] \o f[n] /\ bo[m + 2] = g[n]
        <5>1. Yields(Item, f, n, n, bo[m + 2]) /\ n \in n..n
          BY <1>3, <3>1
        <5> QED
          BY <5>1 DEF Yields, IsYield
      <4>2. PICK y : y = <<>> /\ y \in Seq(Item)
        <5>1. <<>> \in Seq(Item)
          OBVIOUS
        <5> QED
          BY <5>1
      <4>3. y \o y = y
        BY ONLY <4>2, ConcatEmptySeq
      <4> QED
        BY <1>4, <3>1, <4>1, <4>2, <4>3
    <3>3. bo[m + 1] \o bo[m + 2] = bo[m + 1]
      <4>1. PICK y, u : y = <<>> /\ u = bo[m + 1] /\ u \in Seq(Item)
        BY <1>3
      <4>2. u \o y = u
        BY ONLY <4>1, ConcatEmptySeq
      <4> QED
        BY <3>2, <4>1, <4>2
    <3> QED
      BY <1>3, <3>1, <3>3
  <2> QED
    BY <2>1, <2>2
<1>9. InHand(t, r, c[m + 1], f, E, 0, z)
  BY DEF InHand
<1> QED
  BY <1>2, <1>4, <1>7, <1>8, <1>9 DEF Grows, Grown

--------------------------------------------------------------------------------
(* The parse phase: what is recorded is what is asked for.                    *)

(* The events recorded so far, cut by the live markers, are what was asked. *)
AskedInv ==
    /\ asked \in Seq(Seq(Item)) /\ Len(asked) = Len(open) + 1 /\ lastSize \in Nat
    /\ Grows(Where, non_trivia_indices, events, Len(events), open, Len(open), asked, last, lastSize)

(* At first nothing is recorded and nothing asked. *)
LEMMA AskedInit == Init => AskedInv
<1> SUFFICES ASSUME Init PROVE AskedInv
  OBVIOUS
<1>1. events = <<>> /\ open = <<>> /\ last = 0 /\ lastSize = 0 /\ asked = << <<>> >>
  BY DEF Init, ParserInit
<1>2. /\ asked \in Seq(Seq(Item)) /\ Len(asked) = 1 /\ asked[1] = <<>> /\ Len(open) = 0 /\ Len(events) = 0
  BY <1>1
<1>3. PICK h, v : h = Where /\ v = non_trivia_indices
  OBVIOUS
<1>4. PICK c, f : c = << 1 >> /\ f = <<>>
  OBVIOUS
<1>5. c[1] = 1
  BY <1>4
<1>6. Unfolds(h, v, events, f, f, f)
  BY <1>2 DEF Unfolds, Apart, Leads
<1>7. Cuts(events, open, 0, asked, f, f, c)
  BY <1>5 DEF Cuts
<1>8. Yields(Item, f, 1, 0, <<>>)
  BY YieldsNothing
<1>9. Yields(Item, f, c[0 + 1], 0, asked[0 + 1])
  BY <1>2, <1>5, <1>8
<1>10. Grown(h, v, events, 0, open, 0, asked, 0, lastSize, f, f, f, c)
  BY <1>6, <1>7, <1>9 DEF Grown, InHand
<1>11. Grows(h, v, events, 0, open, 0, asked, 0, lastSize)
  BY <1>10 DEF Grows
<1> QED
  BY <1>1, <1>2, <1>3, <1>11 DEF AskedInv

(* It depends on the parser and the history only. *)
LEMMA AskedKept ==
    ASSUME AskedInv, UNCHANGED <<tokens, non_trivia_indices, events, open, last, asked, lastSize>> PROVE AskedInv'
<1>1. Where' = Where
  BY DEF Where
<1> QED
  BY <1>1 DEF AskedInv

(* Where a step goes, in terms of the list t it makes of the events. *)
Becomes(h, v, t, r, oq, k, bs, lb, z) ==
    /\ Len(t) = r /\ Len(oq) = k /\ bs \in Seq(Seq(Item)) /\ Len(bs) = k + 1 /\ z \in Nat
    /\ Grows(h, v, t, r, oq, k, bs, lb, z)

(* Such a list is what was asked after the step. *)
LEMMA AskedBecomes ==
    ASSUME UNCHANGED <<tokens, non_trivia_indices>>, NEW r, NEW k,
           Becomes(Where, non_trivia_indices, events', r, open', k, asked', last', lastSize')
    PROVE  AskedInv'
<1>1. Where' = Where
  BY DEF Where
<1> QED
  BY <1>1 DEF AskedInv, Becomes

(* `start` opens an empty body. *)
LEMMA AskedStart == ASSUME ParserInv, AskedInv, DoStart PROVE AskedInv'
<1>1. /\ events \in Seq(Event) /\ Len(events) \in Nat /\ DOMAIN events = 1..Len(events) /\ open \in Seq(Nat) /\ LinksLand(events)
      /\ Len(open) \in Nat
  BY DEF ParserInv, ParserTypeOK, LinksSound
<1>2. UNCHANGED <<tokens, non_trivia_indices>> /\ last' = 0 /\ lastSize' = lastSize /\ asked' = Append(asked, <<>>)
  <2>1. CASE StartRoot
    <3>1. last = 0
      BY <1>1, <2>1 DEF StartRoot, ParserInv, LastCompleted
    <3> QED
      BY <2>1, <3>1 DEF DoStart, StartRoot
  <2> QED
    BY <2>1 DEF DoStart, Start
<1>3. events' = Append(events, StartEvent(TOMBSTONE)) /\ open' = Append(open, Len(events) + 1)
  <2>1. \A e : <<e>> = Append(<<>>, e)
    OBVIOUS
  <2>2. CASE StartRoot
    <3>1. events = <<>> /\ open = <<>> /\ events' = <<StartEvent(TOMBSTONE)>> /\ open' = <<1>>
      BY <2>2 DEF StartRoot
    <3>2. Len(events) + 1 = 1
      BY <3>1
    <3>3. <<1>> = Append(<<>>, 1) /\ <<StartEvent(TOMBSTONE)>> = Append(<<>>, StartEvent(TOMBSTONE))
      BY <2>1
    <3> QED
      BY <3>1, <3>2, <3>3
  <2>3. CASE Start
    BY <2>3 DEF Start
  <2> QED
    BY <2>2, <2>3 DEF DoStart
<1>4. PICK n \in Nat, l \in Nat : n = Len(events) /\ l = Len(open)
  BY <1>1
<1>5. PICK t, oq, bs : t = events' /\ oq = open' /\ bs = asked'
  OBVIOUS
<1>6. t \in Seq(Event) /\ Len(t) = n + 1 /\ Prefix(events, n, t) /\ t[n + 1] = StartEvent(TOMBSTONE)
  <2>1. StartEvent(TOMBSTONE) \in Event
    BY EventTypes
  <2> QED
    BY <1>1, <1>3, <1>4, <1>5, <2>1, AppendProperties DEF Prefix
<1>7. Len(oq) = l + 1 /\ Prefix(open, l, oq) /\ oq[l + 1] = n + 1
  <2>1. n + 1 \in Nat /\ oq = Append(open, n + 1)
    BY <1>3, <1>4, <1>5
  <2> QED
    BY <1>1, <1>4, <2>1, AppendProperties DEF Prefix
<1>8. asked \in Seq(Seq(Item)) /\ Len(asked) = l + 1 /\ lastSize \in Nat
  BY <1>4 DEF AskedInv
<1>9. bs \in Seq(Seq(Item)) /\ Len(bs) = l + 2 /\ Prefix(asked, l + 1, bs) /\ bs[l + 2] = <<>>
  <2>1. <<>> \in Seq(Item) /\ bs = Append(asked, <<>>)
    BY <1>2, <1>5
  <2>2. /\ Append(asked, <<>>) \in Seq(Seq(Item)) /\ Len(Append(asked, <<>>)) = (l + 1) + 1
        /\ Append(asked, <<>>)[(l + 1) + 1] = <<>> /\ \A i \in 1..(l + 1) : Append(asked, <<>>)[i] = asked[i]
    BY <1>8, <2>1, AppendProperties
  <2>3. (l + 1) + 1 = l + 2
    OBVIOUS
  <2> QED
    BY <2>1, <2>2, <2>3 DEF Prefix
<1>10. PICK h, v : h = Where /\ v = non_trivia_indices
  OBVIOUS
<1>11. Grows(h, v, events, n, open, l, asked, last, lastSize)
  BY <1>4, <1>10 DEF AskedInv
<1>12. Grows(h, v, t, n + 1, oq, l + 1, bs, 0, lastSize)
  BY <1>1, <1>4, <1>6, <1>7, <1>9, <1>11, GrowStart
<1>13. Becomes(h, v, t, n + 1, oq, l + 1, bs, 0, lastSize)
  BY <1>6, <1>7, <1>8, <1>9, <1>12 DEF Becomes
<1> QED
  BY <1>2, <1>5, <1>10, <1>13, AskedBecomes

(* bs is bo with y at the end of the innermost body. *)
Fills(bo, l, y, bs) ==
    /\ bs \in Seq(Seq(Item)) /\ Len(bs) = l + 1
    /\ (\A j \in 1..l : bs[j] = bo[j]) /\ bs[l + 1] = bo[l + 1] \o y

(* AddToBody does that. *)
LEMMA BodyFills ==
    ASSUME NEW l \in Nat, asked \in Seq(Seq(Item)), Len(asked) = l + 1, NEW y \in Seq(Item), AddToBody(y)
    PROVE  Fills(asked, l, y, asked')
<1>1. PICK e, b, bo, bs : e = Enclosing /\ b = Body /\ bo = asked /\ bs = asked'
  OBVIOUS
<1>2. e = SubSeq(bo, 1, l) /\ b = bo[l + 1] /\ bs = Append(e, b \o y) /\ bo \in Seq(Seq(Item)) /\ Len(bo) = l + 1
  <2>1. (l + 1) - 1 = l
    OBVIOUS
  <2> QED
    BY <1>1, <2>1 DEF Enclosing, Body, AddToBody
<1>3. e \in Seq(Seq(Item)) /\ Len(e) = l /\ \A j \in 1..l : e[j] = bo[j]
  BY <1>2
<1>4. b \in Seq(Item)
  <2>1. l + 1 \in 1..Len(bo)
    BY <1>2
  <2> QED
    BY <1>2, <2>1, ElementOfSeq
<1>5. b \o y \in Seq(Item)
  BY <1>4, ConcatProperties
<1>6. bs \in Seq(Seq(Item)) /\ Len(bs) = l + 1 /\ bs[l + 1] = b \o y /\ \A j \in 1..l : bs[j] = e[j]
  BY <1>2, <1>3, <1>5, AppendProperties
<1> QED
  BY <1>1, <1>2, <1>3, <1>6 DEF Fills

(* Events at the end go to the innermost body. *)
LEMMA AskedMore ==
    ASSUME ParserInv, AskedInv, UNCHANGED <<tokens, non_trivia_indices, open, lastSize>>, last' = 0,
           NEW m \in Nat, events' \in Seq(Event), Len(events') = Len(events) + m, Prefix(events, Len(events), events'),
           NEW w, Adds(Where, non_trivia_indices, events', Len(events), m, w),
           NEW y, Yielding(Len(events), m, w, y), Fills(asked, Len(open), y, asked')
    PROVE  AskedInv'
<1>1. /\ events \in Seq(Event) /\ Len(events) \in Nat /\ open \in Seq(Nat) /\ LinksLand(events)
      /\ Len(open) \in Nat
  BY DEF ParserInv, ParserTypeOK, LinksSound
<1>4. PICK n \in Nat, l \in Nat : n = Len(events) /\ l = Len(open)
  BY <1>1
<1>5. PICK t, bs, h, v : t = events' /\ bs = asked' /\ h = Where /\ v = non_trivia_indices
  OBVIOUS
<1>6. t \in Seq(Event) /\ Len(t) = n + m /\ Prefix(events, n, t) /\ Adds(h, v, t, n, m, w) /\ Yielding(n, m, w, y)
  BY <1>4, <1>5
<1>7. /\ bs \in Seq(Seq(Item)) /\ Len(bs) = l + 1
      /\ (\A j \in 1..l : bs[j] = asked[j]) /\ bs[l + 1] = asked[l + 1] \o y
  BY <1>4, <1>5 DEF Fills
<1>8. Grows(h, v, events, n, open, l, asked, last, lastSize) /\ lastSize \in Nat
  BY <1>4, <1>5 DEF AskedInv
<1>9. Grows(h, v, t, n + m, open, l, bs, 0, lastSize)
  <2>1. events \in Seq(Event) /\ n = Len(events) /\ n \in Nat /\ LinksLand(events) /\ l \in Nat
    BY ONLY <1>1, <1>4, n \in Nat, l \in Nat
  <2>2. (\A j \in 1..l : bs[j] = asked[j]) /\ bs[l + 1] = asked[l + 1] \o y
    BY ONLY <1>7
  <2>3. Grows(h, v, events, n, open, l, asked, last, lastSize)
    BY ONLY <1>8
  <2> QED
    BY ONLY <1>6, <2>1, <2>2, <2>3, m \in Nat, GrowMore
<1>10. Becomes(h, v, t, n + m, open, l, bs, 0, lastSize)
  BY <1>4, <1>6, <1>7, <1>8, <1>9 DEF Becomes
<1> QED
  BY <1>5, <1>10, AskedBecomes

(* One event yields what it shows. *)
LEMMA YieldingOne ==
    ASSUME NEW n \in Nat, NEW y \in Seq(Item) PROVE Yielding(n, 1, <<y>>, y)
<1> SUFFICES ASSUME NEW k, \A i \in 1..1 : k[n + i] = <<y>>[i] PROVE Yields(Item, k, n + 1, n + 1, y)
  BY DEF Yielding
<1>1. k[n + 1] = y
  OBVIOUS
<1>2. Yields(Item, k, n + 1, n, <<>>)
  <2>1. n + 1 \in Nat /\ n = (n + 1) - 1
    BY ONLY n \in Nat
  <2> QED
    BY ONLY <2>1, YieldsNothing
<1>3. PICK z : z = <<>>
  OBVIOUS
<1>4. Yields(Item, k, n + 1, n + 1, z \o k[n + 1])
  <2>1. k[n + 1] \in Seq(Item) /\ n + 1 \in Nat /\ n \in Int /\ n + 1 <= n + 1 /\ Yields(Item, k, n + 1, n, z)
    BY <1>1, <1>2, <1>3
  <2> QED
    BY <2>1, YieldsMore
<1>5. <<>> \o y = y
  BY ConcatEmptySeq
<1> QED
  BY <1>1, <1>3, <1>4, <1>5

(* A token goes to the innermost body. *)
LEMMA AskedBump == ASSUME ParserInv, Recorded, AskedInv, DoBump PROVE AskedInv'
<1>1. /\ events \in Seq(Event) /\ Len(events) \in Nat /\ ParserTypeOK /\ pos \in Nat /\ Len(non_trivia_indices) \in Nat
      /\ pos < Len(non_trivia_indices) /\ Len(open) \in Nat
  BY DEF ParserInv, ParserTypeOK, DoBump, Bump, at_end
<1>2. /\ UNCHANGED <<tokens, non_trivia_indices, open, lastSize>> /\ last' = 0
      /\ events' = Append(events, TokenEvent(current)) /\ AddToBody(<<Leaf(0)>>)
  BY DEF DoBump, Bump
<1>3. current \in TokenKinds /\ current \in EventKinds /\ nth(0) = current
  BY <1>1, NthInRange, EventTypes DEF current
<1>0. PICK n \in Nat : n = Len(events)
  BY <1>1
<1>4. PICK h, v, t, e :
         n = Len(events) /\ h = Where /\ v = non_trivia_indices /\ t = events' /\ e = TokenEvent(current)
  <2>1. \A a, b, c, d : \E h, v, t, e : h = a /\ v = b /\ t = c /\ e = d
    OBVIOUS
  <2> QED
    BY <1>0, <2>1
<1>5. e \in Event /\ e.tag = "Token" /\ e.kind = current /\ e.forward_parent = 0
  BY <1>3, <1>4, EventTypes DEF TokenEvent
<1>6. t \in Seq(Event) /\ Len(t) = n + 1 /\ Prefix(events, n, t) /\ t[n + 1] = e
  BY <1>1, <1>2, <1>4, <1>5, AppendProperties DEF Prefix
<1>7. Leaf(0) = TokItem(current, v[pos + 1])
  <2>1. pos + 0 + 1 = pos + 1
    BY <1>1
  <2> QED
    BY <1>3, <1>4, <2>1 DEF Leaf
<1>8. PICK y : y = <<Leaf(0)>>
  OBVIOUS
<1>9. y \in Seq(Item)
  <2>1. pos + 1 \in 1..Len(non_trivia_indices) /\ Len(tokens) \in Nat /\ DOMAIN tokens = 1..Len(tokens)
    BY <1>1 DEF ParserTypeOK
  <2>2. v[pos + 1] \in DOMAIN tokens
    BY <1>1, <1>4, <2>1, ElementOfSeq DEF ParserTypeOK
  <2>3. v[pos + 1] \in Nat
    BY <2>1, <2>2
  <2>4. Leaf(0) \in Item
    BY <1>3, <1>7, <2>3 DEF TokItem, Item
  <2> QED
    BY <1>8, <2>4
<1>10. Shows(h, v, t, n + 1, y)
  <2>1. PICK x : x = [pos |-> pos, raised |-> raised]
    OBVIOUS
  <2>2. x.pos = pos
    BY <2>1
  <2>3. Reads(h, events, n, x)
    BY <1>4, <2>1 DEF Recorded
  <2>4. \A j \in 1..n : Alike(events[j], t[j])
    BY <1>6 DEF Prefix, Alike
  <2>5. Reads(h, t, n, x)
    BY <2>3, <2>4, ReadsAlike
  <2>6. (n + 1) - 1 = n
    OBVIOUS
  <2>7. Reads(h, t, (n + 1) - 1, x) /\ y = <<TokItem(t[n + 1].kind, v[x.pos + 1])>>
    BY <1>5, <1>6, <1>7, <1>8, <2>2, <2>5, <2>6
  <2> QED
    BY <1>5, <1>6, <1>9, <2>7 DEF Shows
<1>11. Adds(h, v, t, n, 1, <<y>>)
  BY <1>5, <1>6, <1>10 DEF Adds
<1>12. Yielding(n, 1, <<y>>, y)
  BY <1>9, YieldingOne
<1>13. Fills(asked, Len(open), y, asked')
  BY <1>1, <1>2, <1>8, <1>9, BodyFills DEF AskedInv
<1> QED
  BY <1>2, <1>4, <1>6, <1>11, <1>12, <1>13, AskedMore

(* An error adds nothing to the tree. *)
LEMMA AskedError ==
    ASSUME ParserInv, AskedInv, UNCHANGED <<tokens, non_trivia_indices, open, lastSize>>, last' = 0,
           events' = Append(events, ErrorEvent), asked' = asked \/ AddToBody(<<>>)
    PROVE  AskedInv'
<1>1. /\ events \in Seq(Event) /\ Len(events) \in Nat /\ Len(open) \in Nat
  BY DEF ParserInv, ParserTypeOK
<1>2. PICK n \in Nat, l \in Nat : n = Len(events) /\ l = Len(open)
  BY <1>1
<1>4. PICK h, v, t, e :
         n = Len(events) /\ l = Len(open) /\ h = Where /\ v = non_trivia_indices /\ t = events' /\ e = ErrorEvent
  <2>1. \A a, b, c, d : \E h, v, t, e : h = a /\ v = b /\ t = c /\ e = d
    OBVIOUS
  <2> QED
    BY <1>2, <2>1
<1>5. e \in Event /\ e.tag = "Error" /\ e.forward_parent = 0
  BY <1>4, EventTypes DEF ErrorEvent
<1>6. t \in Seq(Event) /\ Len(t) = n + 1 /\ Prefix(events, n, t) /\ t[n + 1] = e
  BY <1>1, <1>4, <1>5, AppendProperties DEF Prefix
<1>7. PICK y : y = <<>>
  OBVIOUS
<1>8. y \in Seq(Item)
  BY <1>7
<1>9. Shows(h, v, t, n + 1, y)
  BY <1>5, <1>6, <1>7, <1>8 DEF Shows
<1>11. Adds(h, v, t, n, 1, <<y>>)
  BY <1>5, <1>6, <1>9 DEF Adds
<1>12. Yielding(n, 1, <<y>>, y)
  BY <1>8, YieldingOne
<1>13. Fills(asked, l, y, asked')
  <2>1. asked \in Seq(Seq(Item)) /\ Len(asked) = l + 1
    BY <1>4 DEF AskedInv
  <2>2. CASE asked' = asked
    <3>1. l + 1 \in 1..Len(asked)
      BY <2>1
    <3>2. asked[l + 1] \in Seq(Item)
      BY <2>1, <3>1, ElementOfSeq
    <3>3. asked[l + 1] \o <<>> = asked[l + 1]
      BY <3>2, ConcatEmptySeq
    <3> QED
      BY <1>7, <2>1, <2>2, <3>3 DEF Fills
  <2>3. CASE AddToBody(<<>>)
    BY <1>7, <1>8, <2>1, <2>3, BodyFills
  <2> QED
    BY <2>2, <2>3
<1> QED
  BY <1>4, <1>6, <1>11, <1>12, <1>13, AskedMore

(* The i-th event of an error node of n tokens. *)
LeafAt(p, v, i) == TokItem(Word[p + (i - 1)], v[(p + (i - 1)) + 1])
(* What its events show, in their order. *)
NodeAdds(p, v, n) ==
    [i \in 1..(n + 3) |-> IF i = 1 THEN <<OpenItem(ERROR)>> ELSE IF i = 2 THEN <<>>
                            ELSE IF i = n + 3 THEN <<CloseItem>> ELSE <<LeafAt(p, v, i - 2)>>]

(* The tokens it skips are the next ones of the text. *)
LEMMA LeafIs ==
    ASSUME ParserTypeOK, NEW n \in Nat, NEW i \in 1..n, pos + n <= Len(non_trivia_indices)
    PROVE  /\ Leaf(i - 1) = LeafAt(pos, non_trivia_indices, i) /\ Leaf(i - 1) \in Item
           /\ nth(i - 1) = Word[pos + (i - 1)]
<1>1. PICK j \in Nat : j = i - 1 /\ pos \in Nat /\ pos + j + 1 = (pos + j) + 1
                       /\ pos + j < Len(non_trivia_indices) /\ Len(non_trivia_indices) \in Nat
  <2>1. i - 1 \in Nat /\ pos \in Nat /\ Len(non_trivia_indices) \in Nat
    BY DEF ParserTypeOK
  <2> QED
    BY <2>1
<1>2. nth(j) = Word[pos + j] /\ nth(j) \in TokenKinds /\ nth(j) \in EventKinds
  BY <1>1, NthIs, NthInRange, EventTypes
<1>3. Leaf(j) = TokItem(nth(j), non_trivia_indices[(pos + j) + 1])
  BY <1>1 DEF Leaf
<1>4. non_trivia_indices[(pos + j) + 1] \in Nat
  <2>1. (pos + j) + 1 \in 1..Len(non_trivia_indices) /\ DOMAIN tokens = 1..Len(tokens) /\ Len(tokens) \in Nat
    BY <1>1 DEF ParserTypeOK
  <2>2. non_trivia_indices[(pos + j) + 1] \in DOMAIN tokens
    BY <2>1, ElementOfSeq DEF ParserTypeOK
  <2> QED
    BY <2>1, <2>2
<1>5. Leaf(j) \in Item
  BY <1>2, <1>3, <1>4 DEF TokItem, Item
<1> QED
  BY <1>1, <1>2, <1>3, <1>5 DEF LeafAt

(* First, second, last and the tokens between. *)
LEMMA NodeAddsAt ==
    ASSUME NEW p, NEW v, NEW n \in Nat
    PROVE  /\ NodeAdds(p, v, n)[1] = <<OpenItem(ERROR)>> /\ NodeAdds(p, v, n)[2] = <<>>
           /\ NodeAdds(p, v, n)[n + 3] = <<CloseItem>>
           /\ \A i \in 1..n : NodeAdds(p, v, n)[2 + i] = <<LeafAt(p, v, i)>>
<1>1. 1 \in 1..(n + 3) /\ 2 \in 1..(n + 3) /\ n + 3 \in 1..(n + 3) /\ n + 3 # 1 /\ n + 3 # 2
  OBVIOUS
<1>2. \A i \in 1..n : 2 + i \in 1..(n + 3) /\ 2 + i # n + 3 /\ 2 + i # 1 /\ 2 + i # 2 /\ (2 + i) - 2 = i
  OBVIOUS
<1> QED
  BY <1>1, <1>2 DEF NodeAdds

(* The error node as a tree. *)
NodeItems(q) == (<<OpenItem(ERROR)>> \o q) \o <<CloseItem>>

(* Its ends are items. *)
LEMMA EndTypes ==
    /\ <<OpenItem(ERROR)>> \in Seq(Item) /\ <<CloseItem>> \in Seq(Item) /\ <<>> \in Seq(Item)
<1>1. OpenItem(ERROR) \in Item /\ CloseItem \in Item
  BY EventTypes DEF OpenItem, CloseItem, Item, EventKinds
<1> QED
  BY <1>1

(* The events of an error node yield that tree. *)
LEMMA NodeYielding ==
    ASSUME NEW p, NEW v, NEW n \in Nat, NEW a \in Nat, NEW q \in Seq(Item), Len(q) = n,
           \A i \in 1..n : q[i] = LeafAt(p, v, i)
    PROVE  Yielding(a, n + 3, NodeAdds(p, v, n), NodeItems(q)) /\ NodeItems(q) \in Seq(Item)
<1>1. PICK w, b, c : w = NodeAdds(p, v, n) /\ b = <<OpenItem(ERROR)>> /\ c = <<CloseItem>>
  OBVIOUS
<1>2. w[1] = b /\ w[2] = <<>> /\ w[n + 3] = c /\ \A i \in 1..n : w[2 + i] = <<q[i]>>
  BY <1>1, NodeAddsAt
<1>3. b \in Seq(Item) /\ c \in Seq(Item) /\ <<>> \in Seq(Item)
  BY <1>1, EndTypes
<1>4. b \o q \in Seq(Item) /\ (b \o q) \o c \in Seq(Item) /\ <<>> \o b = b /\ b \o <<>> = b
  BY ONLY <1>3, q \in Seq(Item), ConcatProperties, ConcatEmptySeq
<1>5. ASSUME NEW k, \A i \in 1..(n + 3) : k[a + i] = w[i]
      PROVE  Yields(Item, k, a + 1, a + (n + 3), (b \o q) \o c)
  <2>1. PICK d \in Nat : d = a + 2 /\ d = (a + 1) + 1
    OBVIOUS
  <2>2. k[a + 1] = b /\ k[d] = <<>> /\ k[d + (n + 1)] = c /\ \A i \in 1..n : k[d + i] = <<q[i]>>
    <3>1. /\ 1 \in 1..(n + 3) /\ 2 \in 1..(n + 3) /\ n + 3 \in 1..(n + 3) /\ a + (n + 3) = d + (n + 1)
          /\ \A i \in 1..n : 2 + i \in 1..(n + 3) /\ a + (2 + i) = d + i
      BY <2>1
    <3> QED
      BY <1>2, <1>5, <2>1, <3>1
  <2>3. PICK z : z = <<>>
    OBVIOUS
  <2>4. Yields(Item, k, a + 1, a, z)
    BY <2>3, YieldsNothing
  <2>5. Yields(Item, k, a + 1, a + 1, z \o k[a + 1])
    <3>1. k[a + 1] \in Seq(Item) /\ a + 1 \in Nat /\ a \in Int /\ a + 1 <= a + 1
      BY <1>3, <2>2
    <3> QED
      BY <2>4, <3>1, YieldsMore
  <2>6. Yields(Item, k, a + 1, a + 1, b)
    BY <1>4, <2>2, <2>3, <2>5
  <2>7. Yields(Item, k, a + 1, (a + 1) + 1, b \o k[(a + 1) + 1])
    <3>1. k[(a + 1) + 1] \in Seq(Item) /\ a + 1 \in Nat /\ a + 1 \in Int /\ a + 1 <= (a + 1) + 1
      BY <1>3, <2>1, <2>2
    <3> QED
      BY <2>6, <3>1, YieldsMore
  <2>8. Yields(Item, k, a + 1, d, b)
    BY <1>4, <2>1, <2>2, <2>7
  <2>9. Yields(Item, k, d + 1, d + n, q)
    BY <2>2, YieldsItems
  <2>10. Yields(Item, k, a + 1, d + n, b \o q)
    <3>1. a + 1 \in Nat /\ d \in Int /\ a + 1 <= d + 1 /\ d + n \in Int /\ d <= d + n
      BY <2>1
    <3> QED
      BY <2>8, <2>9, <3>1, YieldsJoin
  <2>11. Yields(Item, k, a + 1, (d + n) + 1, (b \o q) \o k[(d + n) + 1])
    <3>1. a + 1 \in Nat /\ d + n \in Int /\ a + 1 <= (d + n) + 1 /\ k[(d + n) + 1] \in Seq(Item)
      <4>1. (d + n) + 1 = d + (n + 1)
        BY <2>1
      <4> QED
        BY <1>3, <2>1, <2>2, <4>1
    <3> QED
      BY <2>10, <3>1, YieldsMore
  <2>12. (d + n) + 1 = d + (n + 1) /\ (d + n) + 1 = a + (n + 3)
    BY <2>1
  <2> QED
    BY <2>2, <2>11, <2>12
<1>6. Yielding(a, n + 3, w, (b \o q) \o c)
  BY <1>5 DEF Yielding
<1> QED
  BY <1>1, <1>4, <1>6 DEF NodeItems

(* t is the list ev with an error node of n tokens behind its k events. *)
NodeAdded(ev, t, k, n) ==
    /\ t \in Seq(Event) /\ Len(t) = k + (n + 3) /\ Prefix(ev, k, t)
    /\ \A i \in 1..(n + 3) : t[k + i] = ErrorNode(n)[i]

(* `err_recover` adds such a node. *)
LEMMA RecoverAdds ==
    ASSUME ParserTypeOK, NEW n \in 1..(Len(non_trivia_indices) - pos), events' = events \o ErrorNode(n)
    PROVE  NodeAdded(events, events', Len(events), n)
<1>1. n \in Nat /\ ErrorNode(n) \in Seq(Event) /\ events \in Seq(Event)
  BY ErrorNodeIsSeq DEF ParserTypeOK
<1>2. PICK t, d : t = events' /\ d = ErrorNode(n)
  OBVIOUS
<1>3. PICK k \in Nat : k = Len(events)
  BY <1>1
<1>4. Len(d) = n + 3
  BY <1>1, <1>2, ErrorNodeTags
<1>5. t = events \o d /\ d \in Seq(Event)
  BY <1>1, <1>2
<1>6. t \in Seq(Event) /\ Len(t) = k + (n + 3) /\ \A i \in 1..(k + (n + 3)) : t[i] = IF i <= k THEN events[i] ELSE d[i - k]
  <2>1. /\ events \o d \in Seq(Event) /\ Len(events \o d) = Len(events) + Len(d)
        /\ \A i \in 1..(Len(events) + Len(d)) :
              (events \o d)[i] = IF i <= Len(events) THEN events[i] ELSE d[i - Len(events)]
    BY <1>1, <1>5, ConcatProperties
  <2> QED
    BY <1>3, <1>4, <1>5, <2>1
<1>7. ASSUME NEW i \in 1..(n + 3) PROVE t[k + i] = d[i]
  <2>1. k + i \in 1..(k + (n + 3)) /\ ~(k + i <= k) /\ (k + i) - k = i
    BY <1>1
  <2> QED
    BY <1>6, <2>1
<1>8. Prefix(events, k, t)
  <2>1. \A i \in 1..k : i \in 1..(k + (n + 3)) /\ i <= k
    BY <1>1
  <2> QED
    BY <1>6, <2>1 DEF Prefix
<1> QED
  BY <1>2, <1>3, <1>6, <1>7, <1>8 DEF NodeAdded

(* And its events show what NodeAdds says. *)
LEMMA NodeShown ==
    ASSUME ParserTypeOK, Recorded, NEW n \in 1..(Len(non_trivia_indices) - pos), NEW t, NEW k, k = Len(events),
           NodeAdded(events, t, k, n)
    PROVE  Adds(Where, non_trivia_indices, t, k, n + 3, NodeAdds(pos, non_trivia_indices, n))
<1>1. n \in Nat /\ k \in Nat /\ pos \in Nat /\ pos + n <= Len(non_trivia_indices)
  <2>1. Len(non_trivia_indices) \in Nat /\ pos \in Nat /\ Len(events) \in Nat
    BY DEF ParserTypeOK
  <2> QED
    BY <2>1
<1>2. PICK h, v, w : h = Where /\ v = non_trivia_indices /\ w = NodeAdds(pos, v, n)
  OBVIOUS
<1>3. /\ t[k + 1] = StartEvent(ERROR) /\ t[k + 2] = ErrorEvent /\ t[k + (n + 3)] = FinishEvent
      /\ \A i \in 1..n : t[k + (2 + i)] = TokenEvent(nth(i - 1))
  <2>1. 1 \in 1..(n + 3) /\ 2 \in 1..(n + 3) /\ n + 3 \in 1..(n + 3) /\ \A i \in 1..n : 2 + i \in 1..(n + 3)
    BY <1>1
  <2>2. \A i \in 1..(n + 3) : t[k + i] = ErrorNode(n)[i]
    BY DEF NodeAdded
  <2> QED
    BY <1>1, <2>1, <2>2, ErrorNodeTags
<1>4. /\ w[1] = <<OpenItem(ERROR)>> /\ w[2] = <<>> /\ w[n + 3] = <<CloseItem>>
      /\ \A i \in 1..n : w[2 + i] = <<LeafAt(pos, v, i)>>
  BY <1>1, <1>2, NodeAddsAt
<1>5. PICK y : y = [pos |-> pos, raised |-> Append(raised, h[pos])]
  OBVIOUS
<1>t. \A c : TokenEvent(c).tag = "Token" /\ TokenEvent(c).kind = c /\ TokenEvent(c).forward_parent = 0
  BY DEF TokenEvent
<1>6. Reads(h, t, k + 2, y) /\ h \in [Nat -> Nat]
  <2>1. PICK x : x = [pos |-> pos, raised |-> raised]
    OBVIOUS
  <2>2. h \in [Nat -> Nat]
    BY <1>2, WhereType
  <2>3. Reads(h, events, k, x)
    BY <1>2, <2>1 DEF Recorded
  <2>4. \A i \in 1..k : Alike(events[i], t[i])
    BY DEF NodeAdded, Prefix, Alike
  <2>5. Reads(h, t, k, x)
    BY <1>1, <2>3, <2>4, ReadsAlike
  <2>6. t[k + 1].tag = "Start" /\ t[k + 2].tag = "Error"
    BY <1>3 DEF StartEvent, ErrorEvent
  <2>7. Effect(h, x, "Start") = x /\ Effect(h, x, "Error") = y
    BY <1>5, <2>1 DEF Effect
  <2>8. Reads(h, t, k + 1, x)
    BY <1>1, <2>2, <2>5, <2>6, <2>7, ReadsMore
  <2>9. k + 1 \in Nat /\ (k + 1) + 1 = k + 2
    BY <1>1
  <2>10. Reads(h, t, (k + 1) + 1, Effect(h, x, t[(k + 1) + 1].tag))
    BY <2>2, <2>8, <2>9, ReadsMore
  <2> QED
    BY <2>2, <2>6, <2>7, <2>9, <2>10
<1>7. ASSUME NEW i \in 1..n PROVE Shows(h, v, t, k + (2 + i), w[2 + i]) /\ t[k + (2 + i)].tag = "Token"
  <2>1. PICK j \in Nat : j = i - 1 /\ (k + (2 + i)) - 1 = (k + 2) + j /\ k + 2 \in Nat /\ j <= n
    <3>1. i - 1 \in Nat /\ (k + (2 + i)) - 1 = (k + 2) + (i - 1) /\ k + 2 \in Nat /\ i - 1 <= n
      BY <1>1
    <3> QED
      BY <3>1
  <2>2. \A l \in 1..j : t[(k + 2) + l].tag = "Token"
    <3> SUFFICES ASSUME NEW l \in 1..j PROVE t[(k + 2) + l].tag = "Token"
      OBVIOUS
    <3>1. l \in 1..n /\ (k + 2) + l = k + (2 + l)
      BY <1>1, <2>1
    <3>2. t[(k + 2) + l] = TokenEvent(nth(l - 1))
      BY <1>3, <3>1
    <3> QED
      BY <1>t, <3>2
  <2>3. PICK x : x = [pos |-> y.pos + j, raised |-> y.raised]
    OBVIOUS
  <2>10. x.pos = pos + j
    BY <1>5, <2>3
  <2>4. Reads(h, t, (k + 2) + j, x)
    BY <1>6, <2>1, <2>2, <2>3, ReadsTokens
  <2>5. Leaf(i - 1) = LeafAt(pos, v, i) /\ LeafAt(pos, v, i) \in Item /\ nth(i - 1) = Word[pos + (i - 1)]
    BY <1>1, <1>2, LeafIs
  <2>6. t[k + (2 + i)].tag = "Token" /\ t[k + (2 + i)].kind = nth(i - 1)
    BY <1>3, <1>t
  <2>7. LeafAt(pos, v, i) = TokItem(t[k + (2 + i)].kind, v[x.pos + 1])
    <3>1. LeafAt(pos, v, i) = TokItem(Word[pos + (i - 1)], v[(pos + (i - 1)) + 1])
      BY DEF LeafAt
    <3>2. (pos + (i - 1)) + 1 = x.pos + 1
      BY <2>1, <2>10
    <3> QED
      BY <2>5, <2>6, <3>1, <3>2
  <2>8. w[2 + i] \in Seq(Item) /\ w[2 + i] = <<TokItem(t[k + (2 + i)].kind, v[x.pos + 1])>>
    <3>1. PICK e \in Item : e = LeafAt(pos, v, i)
      BY <2>5
    <3>2. <<e>> \in Seq(Item)
      OBVIOUS
    <3>3. w[2 + i] = <<e>>
      BY <1>4, <3>1
    <3> QED
      BY <2>7, <3>1, <3>2, <3>3
  <2>9. Reads(h, t, (k + (2 + i)) - 1, x)
    BY <2>1, <2>4
  <2> QED
    BY <2>6, <2>8, <2>9 DEF Shows
<1>8. ASSUME NEW i \in 1..(n + 3)
      PROVE  /\ t[k + i].forward_parent = 0 /\ Shows(h, v, t, k + i, w[i])
             /\ t[k + i].tag = "Start" => w[i] = Own(t[k + i].kind)
  <2>1. i = 1 \/ i = 2 \/ i = n + 3 \/ \E j \in 1..n : i = 2 + j
    <3>1. CASE i > 2 /\ i < n + 3
      <4>1. i - 2 \in 1..n /\ i = 2 + (i - 2)
        BY <1>1, <3>1
      <4> QED
        BY <4>1
    <3> QED
      BY <1>1, <3>1
  <2>2. CASE i = 1
    <3>1. t[k + 1].tag = "Start" /\ t[k + 1].kind = ERROR /\ t[k + 1].forward_parent = 0
      BY <1>3 DEF StartEvent
    <3>2. Own(ERROR) = <<OpenItem(ERROR)>>
      BY DEF Own, ERROR, TOMBSTONE
    <3>3. w[1] \in Seq(Item) /\ w[1] = Own(ERROR)
      BY <1>4, <3>2, EndTypes
    <3> QED
      BY <2>2, <3>1, <3>3 DEF Shows
  <2>3. CASE i = 2
    <3>1. t[k + 2].tag = "Error" /\ t[k + 2].forward_parent = 0
      BY <1>3 DEF ErrorEvent
    <3> QED
      BY <1>4, <2>3, <3>1, EndTypes DEF Shows
  <2>4. CASE i = n + 3
    <3>1. t[k + (n + 3)].tag = "Finish" /\ t[k + (n + 3)].forward_parent = 0
      BY <1>3 DEF FinishEvent
    <3> QED
      BY <1>4, <2>4, <3>1, EndTypes DEF Shows
  <2>5. ASSUME NEW j \in 1..n, i = 2 + j
        PROVE  /\ t[k + i].forward_parent = 0 /\ Shows(h, v, t, k + i, w[i]) /\ t[k + i].tag # "Start"
    BY <1>3, <1>7, <1>t, <2>5
  <2> QED
    BY <2>1, <2>2, <2>3, <2>4, <2>5
<1>9. Adds(h, v, t, k, n + 3, w)
  BY <1>8 DEF Adds
<1> QED
  BY <1>2, <1>9

(* `err_recover` puts an error node into the innermost body, or nothing. *)
LEMMA AskedRecover == ASSUME ParserInv, Recorded, AskedInv, NEW R, DoErrRecover(R) PROVE AskedInv'
<1>1. /\ ParserTypeOK /\ Len(events) \in Nat /\ Len(non_trivia_indices) \in Nat /\ pos \in Nat /\ Len(open) \in Nat
  BY DEF ParserInv, ParserTypeOK
<1>2. /\ UNCHANGED <<tokens, non_trivia_indices, open, lastSize>> /\ last' = 0
      /\ AddToBody(IF pos' = pos
                   THEN <<>>
                   ELSE <<OpenItem(ERROR)>> \o [i \in 1..(pos' - pos) |-> Leaf(i - 1)]
                                            \o <<CloseItem>>)
  BY DEF DoErrRecover, err_recover
<1>3. CASE events' = Append(events, ErrorEvent) /\ pos' = pos
  <2>1. AddToBody(<<>>)
    BY <1>2, <1>3
  <2> QED
    BY <1>2, <1>3, <2>1, AskedError
<1>4. ASSUME NEW n \in 1..(Len(non_trivia_indices) - pos), events' = events \o ErrorNode(n), pos' = pos + n
      PROVE  AskedInv'
  <2>1. n \in Nat /\ pos' # pos /\ pos' - pos = n /\ pos + n <= Len(non_trivia_indices)
    BY <1>1, <1>4
  <2>2. PICK q : q = [i \in 1..n |-> Leaf(i - 1)]
    OBVIOUS
  <2>3. \A i \in 1..n : Leaf(i - 1) = LeafAt(pos, non_trivia_indices, i) /\ Leaf(i - 1) \in Item
    BY <1>1, <2>1, LeafIs
  <2>4. q \in Seq(Item) /\ Len(q) = n /\ \A i \in 1..n : q[i] = LeafAt(pos, non_trivia_indices, i)
    <3>1. q \in [1..n -> Item]
      BY <2>2, <2>3
    <3> QED
      BY <2>1, <2>2, <2>3, <3>1, IsASeq
  <2>5. AddToBody(NodeItems(q))
    BY <1>2, <2>1, <2>2 DEF NodeItems
  <2>6. PICK t, k, w, y : t = events' /\ k = Len(events) /\ w = NodeAdds(pos, non_trivia_indices, n) /\ y = NodeItems(q)
    OBVIOUS
  <2>7. Yielding(k, n + 3, w, y) /\ y \in Seq(Item)
    BY <1>1, <2>1, <2>4, <2>6, NodeYielding
  <2>8. NodeAdded(events, t, k, n)
    BY <1>1, <1>4, <2>6, RecoverAdds
  <2>9. Adds(Where, non_trivia_indices, t, k, n + 3, w)
    BY <1>1, <2>6, <2>8, NodeShown
  <2>10. Fills(asked, Len(open), y, asked')
    <3>1. asked \in Seq(Seq(Item)) /\ Len(asked) = Len(open) + 1
      BY DEF AskedInv
    <3> QED
      BY <1>1, <2>5, <2>6, <2>7, <3>1, BodyFills
  <2>11. t \in Seq(Event) /\ Len(t) = k + (n + 3) /\ Prefix(events, k, t) /\ n + 3 \in Nat
    BY <2>1, <2>8 DEF NodeAdded
  <2> QED
    BY <1>2, <2>6, <2>7, <2>9, <2>10, <2>11, AskedMore
<1> QED
  BY <1>3, <1>4 DEF DoErrRecover, err_recover

(* bs is made of bo by closing its innermost body. *)
Closing(bo, m, y, bs) ==
    /\ m \in Nat /\ bo \in Seq(Seq(Item)) /\ Len(bo) = m + 2 /\ y \in Seq(Item)
    /\ bs = Append(SubSeq(bo, 1, Len(bo) - 2), bo[Len(bo) - 1] \o y)
(* In bs, y goes behind the body m + 1 of bo. *)
Closed(bo, m, y, bs) == bs \in Seq(Seq(Item)) /\ Len(bs) = m + 1 /\ Prefix(bo, m, bs) /\ bs[m + 1] = bo[m + 1] \o y
(* The innermost body is closed: y goes behind the one around it. *)
LEMMA Closes ==
    ASSUME NEW bo, NEW m, NEW y, NEW bs, Closing(bo, m, y, bs) PROVE Closed(bo, m, y, bs)
<1>0. /\ m \in Nat /\ bo \in Seq(Seq(Item)) /\ Len(bo) = m + 2 /\ y \in Seq(Item)
      /\ bs = Append(SubSeq(bo, 1, Len(bo) - 2), bo[Len(bo) - 1] \o y)
  BY DEF Closing
<1> USE <1>0
<1>1. (m + 2) - 2 = m /\ (m + 2) - 1 = m + 1 /\ m + 1 \in 1..Len(bo)
  OBVIOUS
<1>2. PICK e, b : e = SubSeq(bo, 1, m) /\ b = bo[m + 1]
  OBVIOUS
<1>3. e \in Seq(Seq(Item)) /\ Len(e) = m /\ \A j \in 1..m : e[j] = bo[j]
  BY <1>2
<1>4. b \in Seq(Item)
  BY <1>1, <1>2, ElementOfSeq
<1>5. b \o y \in Seq(Item)
  BY <1>4, ConcatProperties
<1>6. bs = Append(e, b \o y)
  BY <1>1, <1>2
<1>7. bs \in Seq(Seq(Item)) /\ Len(bs) = m + 1 /\ bs[m + 1] = b \o y /\ \A j \in 1..m : bs[j] = e[j]
  <2>1. PICK d \in Seq(Item) : d = b \o y
    BY <1>5
  <2>2. bs = Append(e, d)
    BY <1>6, <2>1
  <2>3. bs \in Seq(Seq(Item)) /\ Len(bs) = m + 1 /\ bs[m + 1] = d /\ \A j \in 1..m : bs[j] = e[j]
    <3>1. m \in Nat
      OBVIOUS
    <3> QED
      BY ONLY <1>3, <2>2, d \in Seq(Item), <3>1, AppendProperties
  <2> QED
    BY <2>1, <2>3
<1> QED
  BY <1>2, <1>3, <1>7 DEF Prefix, Closed

(* `complete` puts the node into the body around it. *)
LEMMA AskedComplete ==
    ASSUME ParserInv, AskedInv, NEW k \in NodeKinds \cup {SOURCE_FILE}, DoComplete(k) PROVE AskedInv'
<1>0. k \in EventKinds /\ k # TOMBSTONE
  BY KindsAssumption DEF EventKinds, CompletedKinds, TOMBSTONE, SOURCE_FILE
<1>1. open # <<>>
  BY DEF DoComplete, Complete, Parsing
<1>2. events \in Seq(Event) /\ Len(events) \in Nat /\ DOMAIN events = 1..Len(events) /\ LinksLand(events)
  BY DEF ParserInv, ParserTypeOK, LinksSound
<1>3. PICK p, u, t, oq, bs, bo, h, v :
         /\ p = Top /\ u = [events EXCEPT ![Top].kind = k] /\ t = events' /\ oq = open'
         /\ bs = asked' /\ bo = asked /\ h = Where /\ v = non_trivia_indices
  <2>1. \A a1, a2, a3, a4 : \E p, u, t, oq : p = a1 /\ u = a2 /\ t = a3 /\ oq = a4
    OBVIOUS
  <2> QED
    BY <2>1
<1>4. p \in 1..Len(events) /\ events[p] = StartEvent(TOMBSTONE)
  BY <1>1, <1>3, StackFacts
<1>5. u = [events EXCEPT ![p] = StartEvent(k)]
  <2>1. [events[p] EXCEPT !.kind = k] = StartEvent(k)
    BY <1>4 DEF StartEvent
  <2>2. u = [events EXCEPT ![p] = [events[p] EXCEPT !.kind = k]]
    BY <1>3
  <2> QED
    BY <2>1, <2>2
<1>6. /\ u \in Seq(Event) /\ Len(u) = Len(events)
      /\ \A j \in 1..Len(events) : u[j] = IF j = p THEN StartEvent(k) ELSE events[j]
  <2>1. StartEvent(k) \in Event
    BY <1>0, EventTypes
  <2> QED
    BY <1>2, <1>4, <1>5, <2>1, ExceptSeq
<1>7. LinksLand(u)
  <2>1. \A j \in 1..Len(events) : u[j].tag = events[j].tag /\ u[j].forward_parent = events[j].forward_parent
    BY <1>4, <1>6 DEF StartEvent
  <2> QED
    BY <1>2, <1>6, <2>1, SameLinks DEF ParserInv, LinksSound
<1>8. PICK n \in Nat : n = Len(events)
  BY <1>2
<1>9. /\ t = Append(u, FinishEvent) /\ oq = Pop /\ last' \in {0, p} /\ UNCHANGED <<tokens, non_trivia_indices>>
  BY <1>3 DEF DoComplete, Complete
<1>10. t \in Seq(Event) /\ Len(t) = n + 1 /\ Prefix(u, n, t) /\ t[n + 1] = FinishEvent
  BY <1>6, <1>8, <1>9, EventTypes, AppendProperties DEF Prefix
<1>11. PICK m \in Nat : Len(open) = m + 1 /\ Len(oq) = m /\ Prefix(open, m, oq) /\ p = open[m + 1]
  <2>1. Len(open) \in Nat \ {0} /\ Len(Pop) = Len(open) - 1 /\ \A i \in 1..(Len(open) - 1) : Pop[i] = open[i]
    BY <1>1, StackFacts
  <2>2. PICK m \in Nat : Len(open) = m + 1 /\ Len(open) - 1 = m
    <3>1. Len(open) - 1 \in Nat /\ Len(open) = (Len(open) - 1) + 1
      BY <2>1
    <3> QED
      BY <3>1
  <2>3. Len(oq) = m /\ Prefix(open, m, oq) /\ p = open[m + 1]
    BY <1>3, <1>9, <2>1, <2>2 DEF Prefix, Top
  <2> QED
    BY <2>2, <2>3
<1>12. bo \in Seq(Seq(Item)) /\ Len(bo) = m + 2 /\ Grows(h, v, events, n, open, m + 1, bo, last, lastSize)
  <2>1. (m + 1) + 1 = m + 2
    OBVIOUS
  <2> QED
    BY <1>3, <1>8, <1>11, <2>1 DEF AskedInv
<1>13. PICK node : node = (<<OpenItem(k)>> \o bo[m + 2]) \o <<CloseItem>>
  OBVIOUS
<1>14. lastSize' = Len(node) /\ bs = Append(SubSeq(bo, 1, Len(bo) - 2), bo[Len(bo) - 1] \o node)
  BY <1>3, <1>12, <1>13 DEF DoComplete, Body
<1>15. node \in Seq(Item) /\ Len(node) \in Nat
  <2>1. m + 2 \in 1..Len(bo)
    BY <1>12
  <2>2. PICK a, b, c : a = <<OpenItem(k)>> /\ b = bo[m + 2] /\ c = <<CloseItem>>
    OBVIOUS
  <2>3. OpenItem(k) \in Item
    BY <1>0 DEF OpenItem, Item
  <2>4. a \in Seq(Item) /\ b \in Seq(Item) /\ c \in Seq(Item)
    BY <1>12, <2>1, <2>2, <2>3, EndTypes, ElementOfSeq
  <2>5. a \o b \in Seq(Item)
    BY ONLY <2>4, ConcatProperties
  <2>6. (a \o b) \o c \in Seq(Item)
    BY ONLY <2>4, <2>5, ConcatProperties
  <2> QED
    BY <1>13, <2>2, <2>6, LenProperties
<1>16. bs \in Seq(Seq(Item)) /\ Len(bs) = m + 1 /\ Prefix(bo, m, bs) /\ bs[m + 1] = bo[m + 1] \o node
  <2>1. Closing(bo, m, node, bs)
    BY <1>12, <1>14, <1>15 DEF Closing
  <2>2. Closed(bo, m, node, bs)
    BY <2>1, Closes
  <2> QED
    BY <2>2 DEF Closed
<1>17. PICK lb \in {0, p} : lb = last'
  BY <1>9
<1>18. u[p] = StartEvent(k) /\ p \in 1..n /\ Len(u) = n /\ \A i \in 1..n : i # p => u[i] = events[i]
  BY <1>4, <1>6, <1>8
<1>19. Grows(h, v, t, n + 1, oq, m, bs, lb, Len(node))
  <2>1. Committing(events, n, m, open, p, k, u, t)
    BY <1>0, <1>2, <1>4, <1>6, <1>7, <1>8, <1>10, <1>11, <1>18 DEF Committing
  <2>2. Wrapping(m, open, oq, bo, k, node, bs)
    BY <1>11, <1>13, <1>16 DEF Wrapping
  <2> QED
    BY <1>12, <2>1, <2>2, GrowComplete
<1>20. Becomes(h, v, t, n + 1, oq, m, bs, lb, Len(node))
  BY <1>10, <1>11, <1>15, <1>16, <1>19 DEF Becomes
<1> QED
  BY <1>3, <1>9, <1>14, <1>17, <1>20, AskedBecomes

(* The node in hand leaves the innermost body for one of its own. *)
LEMMA BodySplits ==
    ASSUME NEW l \in Nat, asked \in Seq(Seq(Item)), Len(asked) = l + 1, NEW u \in Seq(Item), NEW w \in Seq(Item),
           asked[l + 1] = u \o w, Len(w) = lastSize, DoPrecede
    PROVE  asked' \in Seq(Seq(Item)) /\ Len(asked') = l + 2 /\ Splits(asked, l, u, w, asked')
<1>1. PICK b, e, bo, bs : b = Body /\ e = Enclosing /\ bo = asked /\ bs = asked'
  OBVIOUS
<1>2. b = u \o w /\ e = SubSeq(bo, 1, l) /\ bo \in Seq(Seq(Item)) /\ Len(bo) = l + 1
  <2>1. (l + 1) - 1 = l
    OBVIOUS
  <2> QED
    BY <1>1, <2>1 DEF Body, Enclosing
<1>3. Len(b) = Len(u) + Len(w) /\ SubSeq(b, 1, Len(u)) = u /\ SubSeq(b, Len(u) + 1, Len(b)) = w
  <2>1. Parts(u, w, u \o w)
    BY ConcatParts
  <2> QED
    BY <1>2, <2>1 DEF Parts
<1>4. Len(b) - lastSize = Len(u)
  BY <1>3
<1>5. bs = e \o <<u, w>>
  BY <1>1, <1>3, <1>4 DEF DoPrecede
<1>6. e \in Seq(Seq(Item)) /\ Len(e) = l /\ \A j \in 1..l : e[j] = bo[j]
  BY <1>2
<1>7. <<u, w>> \in Seq(Seq(Item)) /\ Len(<<u, w>>) = 2 /\ <<u, w>>[1] = u /\ <<u, w>>[2] = w
  OBVIOUS
<1>8. PICK g : g = <<u, w>>
  OBVIOUS
<1>9. g \in Seq(Seq(Item)) /\ Len(g) = 2 /\ g[1] = u /\ g[2] = w
  BY <1>7, <1>8
<1>10. bs \in Seq(Seq(Item)) /\ Len(bs) = l + 2 /\ \A i \in 1..(l + 2) : bs[i] = IF i <= l THEN e[i] ELSE g[i - l]
  <2>1. bs = e \o g
    BY <1>5, <1>8
  <2> QED
    <3>1. PICK S : S = Seq(Item)
      OBVIOUS
    <3>2. e \in Seq(S) /\ g \in Seq(S) /\ Len(e) = l /\ Len(g) = 2
      BY <1>6, <1>9, <3>1
    <3>3. /\ e \o g \in Seq(S) /\ Len(e \o g) = Len(e) + Len(g)
          /\ \A i \in 1..(Len(e) + Len(g)) : (e \o g)[i] = IF i <= Len(e) THEN e[i] ELSE g[i - Len(e)]
      BY ONLY <3>2, ConcatProperties
    <3> QED
      BY <2>1, <3>1, <3>2, <3>3
<1>11. bs[l + 1] = u /\ bs[l + 2] = w
  <2>1. l + 1 \in 1..(l + 2) /\ l + 2 \in 1..(l + 2) /\ ~(l + 1 <= l) /\ ~(l + 2 <= l) /\ (l + 1) - l = 1 /\ (l + 2) - l = 2
    OBVIOUS
  <2> QED
    BY <1>9, <1>10, <2>1
<1>12. Prefix(bo, l, bs)
  <2>1. \A i \in 1..l : i \in 1..(l + 2) /\ i <= l
    OBVIOUS
  <2> QED
    BY <1>6, <1>10, <2>1 DEF Prefix
<1> QED
  BY <1>1, <1>10, <1>11, <1>12 DEF Splits

(* `precede` gives the node in hand a body of its own. *)
LEMMA AskedPrecede == ASSUME ParserInv, AskedInv, DoPrecede PROVE AskedInv'
<1>1. /\ events \in Seq(Event) /\ Len(events) \in Nat /\ DOMAIN events = 1..Len(events) /\ LinksLand(events)
      /\ last \in 1..Len(events) /\ open \in Seq(Nat) /\ Len(open) \in Nat
      /\ events[last].tag = "Start" /\ events[last].kind # TOMBSTONE /\ events[last].forward_parent = 0
  BY DEF ParserInv, ParserTypeOK, LastCompleted, DoPrecede, Precede, LinksSound
<1>2. PICK n \in Nat, l \in Nat : n = Len(events) /\ l = Len(open)
  BY <1>1
<1>3. PICK t, oq, p, h, v, s : /\ t = events' /\ oq = open' /\ p = last /\ h = Where /\ v = non_trivia_indices
                               /\ s = [events EXCEPT ![last].forward_parent = Len(events) + 1 - last]
  <2>1. \A a1, a2, a3, a4, a5, a6 : \E t, oq, p, h, v, s : t = a1 /\ oq = a2 /\ p = a3 /\ h = a4 /\ v = a5 /\ s = a6
    OBVIOUS
  <2> QED
    BY <2>1
<1>4. /\ t = Append(s, StartEvent(TOMBSTONE)) /\ oq = Append(open, n + 1) /\ last' = 0
      /\ UNCHANGED <<tokens, non_trivia_indices, lastSize>>
  BY <1>2, <1>3 DEF DoPrecede, Precede
<1>5. /\ s[p].tag = "Start" /\ s[p].kind = events[p].kind /\ s[p].forward_parent = (n + 1) - p
      /\ \A i \in 1..n : i # p => s[i] = events[i]
  <2>1. events[p] \in Event /\ p \in 1..n
    BY <1>1, <1>2, <1>3, ElementOfSeq
  <2> QED
    BY <1>1, <1>2, <1>3, <2>1 DEF Event
<1>6. s \in Seq(Event) /\ Len(s) = n
  <2>1. ASSUME NEW i \in DOMAIN events PROVE s[i] \in Event
    <3>1. events[i] \in Event /\ Len(events) + 1 - last \in Nat
      BY <1>1, ElementOfSeq
    <3> QED
      BY <1>3, <3>1 DEF Event
  <2>2. s \in [1..n -> Event]
    BY <1>1, <1>2, <1>3, <2>1
  <2> QED
    BY <1>2, <2>2, IsASeq
<1>7. t \in Seq(Event) /\ Len(t) = n + 1 /\ t[n + 1] = StartEvent(TOMBSTONE) /\ \A i \in 1..n : t[i] = s[i]
  <2>1. StartEvent(TOMBSTONE) \in Event
    BY EventTypes
  <2> QED
    BY <1>4, <1>6, <2>1, AppendProperties
<1>8. Precedes(events, t, n, p) /\ p # 0
  <2>1. p \in 1..n /\ p # 0 /\ events[p].tag = "Start" /\ events[p].forward_parent = 0
    BY <1>1, <1>2, <1>3
  <2>2. t[p] = s[p] /\ \A i \in 1..n : i # p => t[i] = events[i]
    BY <1>5, <1>7, <2>1
  <2> QED
    BY <1>5, <1>7, <2>1, <2>2 DEF Precedes
<1>9. \A j \in 1..l : open[j] # p
  <2> SUFFICES ASSUME NEW j \in 1..l, open[j] = p PROVE FALSE
    OBVIOUS
  <2>1. j \in DOMAIN open
    BY <1>1, <1>2
  <2>2. events[p] = StartEvent(TOMBSTONE)
    BY <2>1 DEF ParserInv, MarkersLive
  <2> QED
    BY <1>1, <1>3, <2>2 DEF StartEvent
<1>10. Len(oq) = l + 1 /\ Prefix(open, l, oq) /\ oq[l + 1] = n + 1
  <2>1. n + 1 \in Nat
    OBVIOUS
  <2> QED
    BY <1>1, <1>2, <1>4, <2>1, AppendProperties DEF Prefix
<1>11. /\ asked \in Seq(Seq(Item)) /\ Len(asked) = l + 1 /\ lastSize \in Nat
       /\ Grows(h, v, events, n, open, l, asked, p, lastSize)
  BY <1>2, <1>3 DEF AskedInv
<1>12. PICK u, w : /\ u \in Seq(Item) /\ w \in Seq(Item) /\ Len(w) = lastSize /\ asked[l + 1] = u \o w
                   /\ \A bs : Splits(asked, l, u, w, bs) => Grows(h, v, t, n + 1, oq, l + 1, bs, 0, lastSize)
  <2>1. Listed(events, t, n) /\ Off(open, l, p) /\ Pushed(open, l, oq, n + 1)
    BY <1>1, <1>2, <1>7, <1>9, <1>10 DEF Listed, Off, Pushed
  <2>2. SplitGrows(h, v, t, n + 1, oq, l, asked, lastSize, lastSize)
    BY <1>8, <1>11, <2>1, GrowPrecede
  <2> QED
    BY <2>2 DEF SplitGrows
<1>13. asked' \in Seq(Seq(Item)) /\ Len(asked') = l + 2 /\ Splits(asked, l, u, w, asked')
  BY <1>11, <1>12, BodySplits
<1>14. Becomes(h, v, t, n + 1, oq, l + 1, asked', 0, lastSize)
  <2>1. (l + 1) + 1 = l + 2
    OBVIOUS
  <2> QED
    BY <1>7, <1>10, <1>11, <1>12, <1>13, <2>1 DEF Becomes
<1> QED
  BY <1>3, <1>4, <1>14, AskedBecomes

(* `abandon` leaves the children to the body around them. *)
LEMMA AskedAbandon == ASSUME ParserInv, AskedInv, DoAbandon PROVE AskedInv'
<1>1. /\ events \in Seq(Event) /\ Len(events) \in Nat /\ DOMAIN events = 1..Len(events) /\ LinksLand(events)
      /\ Len(open) \in Nat /\ open # <<>>
  <2>1. open # <<>>
    BY DEF DoAbandon, Abandon
  <2> QED
    BY <2>1 DEF ParserInv, ParserTypeOK, LinksSound
<1>2. PICK n \in Nat : n = Len(events)
  BY <1>1
<1>3. PICK t, oq, p, h, v, bo, bs :
         t = events' /\ oq = open' /\ p = Top /\ h = Where /\ v = non_trivia_indices /\ bo = asked /\ bs = asked'
  <2>1. \A a1, a2, a3, a4, a5, a6, a7 : \E t, oq, p, h, v, bo, bs :
            t = a1 /\ oq = a2 /\ p = a3 /\ h = a4 /\ v = a5 /\ bo = a6 /\ bs = a7
    OBVIOUS
  <2> QED
    BY <2>1
<1>4. p \in 1..n /\ events[p] = StartEvent(TOMBSTONE)
  BY <1>1, <1>2, <1>3, StackFacts
<1>5. /\ t = IF p = n THEN SubSeq(events, 1, n - 1) ELSE [events EXCEPT ![p] = TombstoneEvent]
      /\ oq = Pop /\ last' = 0 /\ ~Preceded(p) /\ UNCHANGED <<tokens, non_trivia_indices, lastSize>>
  BY <1>2, <1>3 DEF DoAbandon, Abandon
<1>6. ~Aimed(events, p)
  BY <1>1, <1>5 DEF Aimed, Preceded
<1>7. PICK r : t \in Seq(Event) /\ Abandons(events, t, n, r, p)
  <2>1. CASE p = n
    <3>1. PICK r \in Nat : r = n - 1
      <4>1. n - 1 \in Nat
        BY <1>4
      <4> QED
        BY <4>1
    <3>2. t = SubSeq(events, 1, r)
      BY <1>5, <2>1, <3>1
    <3>3. t \in Seq(Event) /\ Len(t) = r /\ \A i \in 1..r : t[i] = events[i]
      BY <1>1, <1>2, <3>1, <3>2
    <3>4. r # n /\ r \in {n - 1, n}
      BY <3>1
    <3>5. Abandons(events, t, n, r, p)
      BY <1>4, <1>6, <2>1, <3>3, <3>4 DEF Abandons
    <3> QED
      BY <3>3, <3>5
  <2>2. CASE p # n
    <3>1. t = [events EXCEPT ![p] = TombstoneEvent]
      BY <1>5, <2>2
    <3>2. t \in Seq(Event) /\ Len(t) = n /\ \A j \in 1..n : t[j] = IF j = p THEN TombstoneEvent ELSE events[j]
      BY <1>1, <1>2, <1>4, <3>1, EventTypes, ExceptSeq
    <3>3. n # n - 1 /\ n \in {n - 1, n}
      OBVIOUS
    <3>4. Abandons(events, t, n, n, p)
      BY <1>4, <1>6, <3>2, <3>3 DEF Abandons
    <3> QED
      BY <3>2, <3>4
  <2> QED
    BY <2>1, <2>2
<1>8. PICK m \in Nat : Len(open) = m + 1 /\ Len(oq) = m /\ Prefix(open, m, oq) /\ p = open[m + 1] /\ Off(open, m, p)
  <2>1. Len(open) \in Nat \ {0} /\ Len(Pop) = Len(open) - 1 /\ \A i \in 1..(Len(open) - 1) : Pop[i] = open[i]
    BY <1>1, StackFacts
  <2>2. PICK m \in Nat : Len(open) = m + 1 /\ Len(open) - 1 = m
    <3>1. Len(open) - 1 \in Nat /\ Len(open) = (Len(open) - 1) + 1
      BY <2>1
    <3> QED
      BY <3>1
  <2>3. Len(oq) = m /\ Prefix(open, m, oq) /\ p = open[m + 1]
    BY <1>3, <1>5, <2>1, <2>2 DEF Prefix, Top
  <2>4. \A i \in 1..(Len(open) - 1) : open[i] < Top /\ open[i] \in 1..Len(events)
    BY <1>1, StackFacts
  <2>5. \A j \in 1..m : open[j] # p
    BY <1>2, <1>3, <1>4, <2>2, <2>4
  <2> QED
    BY <2>2, <2>3, <2>5 DEF Off
<1>9. /\ bo \in Seq(Seq(Item)) /\ Len(bo) = m + 2 /\ Grows(h, v, events, n, open, m + 1, bo, last, lastSize)
      /\ lastSize \in Nat
  <2>1. (m + 1) + 1 = m + 2
    OBVIOUS
  <2> QED
    BY <1>2, <1>3, <1>8, <2>1 DEF AskedInv
<1>10. PICK y : y = bo[m + 2] /\ y \in Seq(Item)
  <2>1. m + 2 \in 1..Len(bo)
    BY <1>9
  <2> QED
    BY <1>9, <2>1, ElementOfSeq
<1>11. bs = Append(SubSeq(bo, 1, Len(bo) - 2), bo[Len(bo) - 1] \o y)
  BY <1>3, <1>9, <1>10 DEF DoAbandon, Body
<1>12. Closing(bo, m, y, bs)
  BY <1>9, <1>10, <1>11 DEF Closing
<1>13. Closed(bo, m, y, bs)
  BY <1>12, Closes
<1>14. bs \in Seq(Seq(Item)) /\ Len(bs) = m + 1 /\ Pushed(bo, m, bs, bo[m + 1] \o bo[m + 2])
  BY <1>10, <1>13 DEF Closed, Pushed
<1>15. Listed(events, t, n)
  BY <1>1, <1>2, <1>7 DEF Listed
<1>16. Grows(h, v, t, r, oq, m, bs, 0, lastSize)
  BY <1>7, <1>8, <1>9, <1>14, <1>15, GrowAbandon
<1>17. Becomes(h, v, t, r, oq, m, bs, 0, lastSize)
  BY <1>7, <1>8, <1>9, <1>14, <1>16 DEF Becomes, Abandons
<1> QED
  BY <1>3, <1>5, <1>17, AskedBecomes

(* Every step of the parser records what it asks for. *)
LEMMA AskedStep == PipelineInv /\ ReadInv /\ AskedInv /\ [Next]_vars => AskedInv'
<1> SUFFICES ASSUME PipelineInv, ReadInv, AskedInv, [Next]_vars PROVE AskedInv'
  OBVIOUS
<1>1. ParserInv /\ Recorded
  BY DEF PipelineInv, ReadInv
<1>2. CASE DoStart
  BY <1>1, <1>2, AskedStart
<1>3. CASE DoBump
  BY <1>1, <1>3, AskedBump
<1>4. CASE DoError
  BY <1>1, <1>4, AskedError DEF DoError, Error
<1>5. ASSUME NEW R, DoErrRecover(R) PROVE AskedInv'
  BY <1>1, <1>5, AskedRecover
<1>6. ASSUME NEW k \in NodeKinds \cup {SOURCE_FILE}, DoComplete(k) PROVE AskedInv'
  BY <1>1, <1>6, AskedComplete
<1>7. CASE DoPrecede
  BY <1>1, <1>7, AskedPrecede
<1>8. CASE DoAbandon
  BY <1>1, <1>8, AskedAbandon
<1>9. CASE UNCHANGED <<parserVars, history>>
  BY <1>9, AskedKept DEF parserVars, history
<1>10. CASE Finish \/ ResolveStart \/ ResolveFollow \/ ResolveEmit \/ ResolveOther \/ ResolveDone
  BY <1>9, <1>10 DEF Finish, ResolveStart, ResolveFollow, ResolveEmit, ResolveOther, ResolveDone, Resolving
<1>11. CASE BuildStart \/ BuildToken \/ BuildFinish \/ BuildError \/ BuildDone
  BY <1>9, <1>11 DEF BuildStart, BuildToken, BuildFinish, BuildError, BuildDone, Building
<1>12. CASE UNCHANGED vars
  BY <1>9, <1>12 DEF vars
<1> QED
  BY <1>2, <1>3, <1>4, <1>5, <1>6, <1>7, <1>8, <1>10, <1>11, <1>12 DEF Next, DoErrAndBump, Terminated

--------------------------------------------------------------------------------
(* The resolve phase: the walk along the chains unfolds them.                 *)

(* What the resolver has consumed of the list ev; w is what is left of it. *)
Consumed(ev, w, j) == ev[j].tag = "Start" /\ w[j].tag # "Start"
(* A chain that was begun is consumed as far as fo. *)
Follows(ev, w, fo) ==
    \A j \in 1..Len(ev) : Consumed(ev, w, j) /\ ev[j].forward_parent # 0 =>
        j + ev[j].forward_parent = fo \/ Consumed(ev, w, j + ev[j].forward_parent)
(* Ahead of the loop index only parents are consumed. *)
Passed(ev, w, a, ch) ==
    \A j \in 1..Len(ev) : Consumed(ev, w, j) /\ (j > a \/ (j = a /\ ch = <<>>)) => Aimed(ev, j)
(* What the rest of the chain, from fo on, opens. *)
Pending(o, fo) == IF fo = 0 THEN <<>> ELSE o[fo]
(* What the chain ch, child first, opens. *)
OpensOf(ch) == [i \in 1..Len(ch) |-> OpenItem(ch[(Len(ch) - i) + 1])]
(* The chain in hand is the rest of what its first Start opens. *)
Chained(ev, o, a, fo, ch) ==
    /\ ch = <<>> => fo = 0
    /\ fo # 0 => Aimed(ev, fo)
    /\ ch # <<>> => ~Aimed(ev, a) /\ o[a] = Pending(o, fo) \o OpensOf(ch)
(* The resolver walks ev as it unfolds. *)
Walking(ev, w, a, fo, ch, o) == Follows(ev, w, fo) /\ Passed(ev, w, a, ch) /\ Chained(ev, o, a, fo, ch)

(* It opens one node for each kind. *)
LEMMA OpensType == ASSUME NEW ch \in Seq(EventKinds) PROVE OpensOf(ch) \in Seq(Item) /\ Len(OpensOf(ch)) = Len(ch)
<1>1. PICK n \in Nat : n = Len(ch)
  OBVIOUS
<1>2. ASSUME NEW i \in 1..n PROVE OpenItem(ch[(n - i) + 1]) \in Item
  <2>1. (n - i) + 1 \in 1..Len(ch)
    BY <1>1
  <2>2. ch[(n - i) + 1] \in EventKinds
    BY <2>1, ElementOfSeq
  <2> QED
    BY <2>2 DEF OpenItem, Item
<1>3. PICK q : q = OpensOf(ch)
  OBVIOUS
<1>4. q = [i \in 1..n |-> OpenItem(ch[(n - i) + 1])]
  BY <1>1, <1>3 DEF OpensOf
<1>5. q \in [1..n -> Item]
  BY <1>2, <1>4
<1> QED
  BY <1>1, <1>3, <1>5, IsASeq

(* The parent of a chain is opened before it. *)
LEMMA OpensNext ==
    ASSUME NEW ch \in Seq(EventKinds), NEW k \in EventKinds
    PROVE  OpensOf(Append(ch, k)) = <<OpenItem(k)>> \o OpensOf(ch)
<1>0. PICK c : c = Append(ch, k)
  OBVIOUS
<1>1. PICK n \in Nat : n = Len(ch)
  OBVIOUS
<1>2. c \in Seq(EventKinds) /\ Len(c) = n + 1 /\ c[n + 1] = k /\ \A i \in 1..n : c[i] = ch[i]
  BY <1>0, <1>1, AppendProperties
<1>3. PICK b, q, e : b = OpensOf(c) /\ q = OpensOf(ch) /\ e = <<OpenItem(k)>>
  OBVIOUS
<1>4. b \in Seq(Item) /\ Len(b) = n + 1 /\ q \in Seq(Item) /\ Len(q) = n
  BY <1>1, <1>2, <1>3, OpensType
<1>5. \A i \in 1..(n + 1) : b[i] = OpenItem(c[((n + 1) - i) + 1])
  BY <1>2, <1>3 DEF OpensOf
<1>6. \A i \in 1..n : q[i] = OpenItem(ch[(n - i) + 1])
  BY <1>1, <1>3 DEF OpensOf
<1>7. e \in Seq(Item) /\ Len(e) = 1 /\ e[1] = OpenItem(k)
  <2>1. OpenItem(k) \in Item
    BY DEF OpenItem, Item
  <2> QED
    BY <1>3, <2>1
<1>8. PICK d : d = e \o q
  OBVIOUS
<1>9. d \in Seq(Item) /\ Len(d) = n + 1 /\ \A i \in 1..(n + 1) : d[i] = IF i <= 1 THEN e[i] ELSE q[i - 1]
  <2>1. /\ e \o q \in Seq(Item) /\ Len(e \o q) = Len(e) + Len(q)
        /\ \A i \in 1..(Len(e) + Len(q)) : (e \o q)[i] = IF i <= Len(e) THEN e[i] ELSE q[i - Len(e)]
    <3>1. e \in Seq(Item) /\ q \in Seq(Item)
      BY ONLY <1>4, <1>7
    <3> QED
      BY ONLY <3>1, ConcatProperties
  <2>2. 1 + n = n + 1
    OBVIOUS
  <2> QED
    BY <1>4, <1>7, <1>8, <2>1, <2>2
<1>10. ASSUME NEW i \in 1..(n + 1) PROVE b[i] = d[i]
  <2>1. CASE i = 1
    <3>1. ((n + 1) - 1) + 1 = n + 1 /\ 1 \in 1..(n + 1)
      OBVIOUS
    <3>2. b[1] = OpenItem(k)
      BY <1>2, <1>5, <3>1
    <3> QED
      BY <1>7, <1>9, <2>1, <3>1, <3>2
  <2>2. CASE i # 1
    <3>1. PICK j \in 1..n : j = i - 1 /\ ((n + 1) - i) + 1 = (n - j) + 1 /\ (n - j) + 1 \in 1..n /\ ~(i <= 1)
      <4>1. i - 1 \in 1..n /\ ((n + 1) - i) + 1 = (n - (i - 1)) + 1 /\ (n - (i - 1)) + 1 \in 1..n /\ ~(i <= 1)
        BY <2>2
      <4> QED
        BY <4>1
    <3>2. b[i] = OpenItem(ch[(n - j) + 1])
      BY <1>2, <1>5, <3>1
    <3>3. d[i] = q[j]
      BY <1>9, <3>1
    <3> QED
      BY <1>6, <3>2, <3>3
  <2> QED
    BY <2>1, <2>2
<1>11. b = d
  BY <1>4, <1>9, <1>10, SeqEqual
<1> QED
  BY <1>0, <1>3, <1>8, <1>11

(* t is the next Start of the chain. *)
Consumes(ev, w, u, t) ==
    /\ ev \in Seq(Event) /\ LinksLand(ev) /\ t \in 1..Len(ev) /\ ev[t].tag = "Start" /\ ev[t].kind # TOMBSTONE
    /\ u[t].tag # "Start" /\ \A j \in 1..Len(ev) : j # t => u[j] = w[j]
(* It is the Start at the loop index, or the one the chain leads to. *)
Picks(ev, a, fo, ch, t) == (ch = <<>> /\ t = a /\ ~Aimed(ev, a)) \/ (ch # <<>> /\ fo # 0 /\ t = fo)

(* The chain goes on to it. *)
LEMMA WalkOn ==
    ASSUME NEW h, NEW v, NEW ev, NEW w, NEW u, NEW t, NEW o, NEW f, NEW E, NEW a, NEW fo, NEW ch, NEW fq,
           Consumes(ev, w, u, t), Unfolds(h, v, ev, o, f, E), ch \in Seq(EventKinds),
           Walking(ev, w, a, fo, ch, o), Picks(ev, a, fo, ch, t), fq = Target(t, ev[t])
    PROVE  Walking(ev, u, a, fq, Append(ch, ev[t].kind), o)
<1>1. /\ ev \in Seq(Event) /\ LinksLand(ev) /\ t \in 1..Len(ev) /\ ev[t].tag = "Start" /\ ev[t].kind # TOMBSTONE
      /\ u[t].tag # "Start" /\ \A j \in 1..Len(ev) : j # t => u[j] = w[j]
  BY DEF Consumes
<1>2. PICK n \in Nat, k \in EventKinds, p \in Nat : n = Len(ev) /\ k = ev[t].kind /\ p = ev[t].forward_parent
  <2>1. ev[t] \in Event /\ Len(ev) \in Nat
    BY <1>1, ElementOfSeq
  <2> QED
    BY <2>1 DEF Event
<1>3. fq = IF p = 0 THEN 0 ELSE t + p
  BY <1>2 DEF Target
<1>4. Follows(ev, w, fo) /\ Passed(ev, w, a, ch) /\ Chained(ev, o, a, fo, ch)
  BY DEF Walking
<1>5. \A j \in 1..n : Consumed(ev, u, j) <=> j = t \/ Consumed(ev, w, j)
  BY <1>1, <1>2 DEF Consumed
<1>6. \A j \in 1..n : ev[j].forward_parent # 0 => j + ev[j].forward_parent \in 1..n
  BY <1>1, <1>2 DEF LinksLand
<1>7. fo = 0 \/ fo = t
  BY <1>4 DEF Picks, Chained
<1>8. Follows(ev, u, fq)
  <2> SUFFICES ASSUME NEW j \in 1..n, Consumed(ev, u, j), ev[j].forward_parent # 0
               PROVE  j + ev[j].forward_parent = fq \/ Consumed(ev, u, j + ev[j].forward_parent)
    BY <1>2 DEF Follows
  <2>1. CASE j = t
    BY <1>2, <1>3, <2>1
  <2>2. CASE j # t
    <3>1. PICK i \in 1..n : i = j + ev[j].forward_parent
      BY <1>6
    <3>2. i = fo \/ Consumed(ev, w, i)
      BY <1>2, <1>4, <1>5, <2>2, <3>1 DEF Follows
    <3> QED
      BY <1>5, <1>7, <3>1, <3>2
  <2> QED
    BY <2>1, <2>2
<1>9. PICK cq : cq = Append(ch, k) /\ cq # <<>>
  <2>1. Append(ch, k) # <<>>
    OBVIOUS
  <2> QED
    BY <2>1
<1>10. Passed(ev, u, a, cq)
  <2> SUFFICES ASSUME NEW j \in 1..n, Consumed(ev, u, j), j > a PROVE Aimed(ev, j)
    BY <1>2, <1>9 DEF Passed
  <2>1. CASE j = t
    <3>1. ch # <<>> => fo # 0 /\ t = fo
      BY DEF Picks
    <3>2. ch = <<>> => t = a
      BY DEF Picks
    <3>3. ch # <<>>
      BY <1>1, <1>2, <2>1, <3>2
    <3> QED
      BY <1>4, <2>1, <3>1, <3>3 DEF Chained
  <2>2. CASE j # t
    BY <1>2, <1>4, <1>5, <2>2 DEF Passed
  <2> QED
    BY <2>1, <2>2
<1>11. Aimed(ev, fq) \/ fq = 0
  BY <1>1, <1>2, <1>3 DEF Aimed
<1>12. ~Aimed(ev, a)
  BY <1>4 DEF Picks, Chained
<1>13. LinkedAt(ev, o, E, t)
  BY <1>1 DEF Unfolds, UnfoldsAt
<1>14. PICK P, w1, q : P = Pending(o, fq) /\ w1 = <<OpenItem(k)>> /\ q = OpensOf(ch)
  OBVIOUS
<1>15. w1 \in Seq(Item) /\ Own(ev[t].kind) = w1 /\ q \in Seq(Item)
  <2>1. Own(k) = w1
    BY <1>1, <1>2, <1>14 DEF Own
  <2>2. Own(k) \in Seq(Item)
    BY OwnType
  <2> QED
    BY <1>2, <1>14, <2>1, <2>2, OpensType
<1>16. P \in Seq(Item) /\ o[t] = P \o w1
  <2>1. CASE p = 0
    <3>1. P = <<>> /\ o[t] = w1
      BY <1>2, <1>3, <1>13, <1>14, <1>15, <2>1 DEF Pending, LinkedAt
    <3>2. <<>> \o w1 = w1 /\ <<>> \in Seq(Item)
      BY <1>15, ConcatEmptySeq
    <3> QED
      BY <3>1, <3>2
  <2>2. CASE p # 0
    <3>1. PICK i \in 1..n : i = t + p /\ ev[i].tag = "Start" /\ i # 0
      BY <1>1, <1>2, <2>2 DEF LinksLand
    <3>2. P = o[i]
      BY <1>3, <1>14, <2>2, <3>1 DEF Pending
    <3>3. o[t] = o[i] \o Own(ev[t].kind)
      BY <1>2, <1>13, <2>2, <3>1 DEF LinkedAt
    <3>4. o[i] \in Seq(Item)
      BY <1>2, <3>1 DEF Unfolds, UnfoldsAt, LinkedAt
    <3> QED
      BY <1>15, <3>2, <3>3, <3>4
  <2> QED
    BY <2>1, <2>2
<1>17. o[a] = o[t] \o q
  <2>1. CASE ch = <<>>
    <3>1. q = <<>>
      BY <1>14, <2>1 DEF OpensOf
    <3>2. t = a
      BY <2>1 DEF Picks
    <3>3. P \o w1 \in Seq(Item)
      BY <1>15, <1>16, ConcatProperties
    <3>4. o[t] \o <<>> = o[t]
      BY <1>16, <3>3, ConcatEmptySeq
    <3> QED
      BY <3>1, <3>2, <3>4
  <2>2. CASE ch # <<>>
    <3>1. t = fo /\ fo # 0
      BY <2>2 DEF Picks
    <3> QED
      BY <1>4, <1>14, <2>2, <3>1 DEF Chained, Pending
  <2> QED
    BY <2>1, <2>2
<1>18. o[a] = P \o (w1 \o q)
  <2>1. (P \o w1) \o q = P \o (w1 \o q)
    BY ONLY <1>15, <1>16, ConcatAssociative
  <2> QED
    BY <1>16, <1>17, <2>1
<1>19. OpensOf(cq) = w1 \o q
  BY <1>9, <1>14, OpensNext
<1>20. Chained(ev, o, a, fq, cq)
  BY <1>9, <1>11, <1>12, <1>14, <1>18, <1>19 DEF Chained
<1> QED
  BY <1>2, <1>8, <1>9, <1>10, <1>20 DEF Walking

(* o, f and E unfold the recorded events to the tree asked for. *)
Asking(h, v, ev, tree, o, f, E) == Unfolds(h, v, ev, o, f, E) /\ Yields(Item, f, 1, Len(ev), tree)
(* g[i] is what the resolved event i adds to the tree. *)
Puts(h, v, r, g) ==
    \A i \in 1..Len(r) : Shows(h, v, r, i, g[i]) /\ (r[i].tag = "Start" => g[i] = <<OpenItem(r[i].kind)>>)
(* The resolved events show what the events before a do. *)
Putting(h, v, r, a, f, g, y) == Puts(h, v, r, g) /\ Yields(Item, g, 1, Len(r), y) /\ Yields(Item, f, 1, a - 1, y)

(* The resolved events show what the recorded ones do: while resolving, up to the *)
(* loop index; then, all of them.                                            *)
UnfoldInv ==
    /\ phase = "resolve" =>
          \E o, f, E, g, y : /\ Asking(Where, non_trivia_indices, events, asked[1], o, f, E)
                             /\ Walking(events, work, at, follow, chain, o)
                             /\ Putting(Where, non_trivia_indices, resolved, at, f, g, y)
    /\ phase \in {"build", "done"} =>
          \E g : Puts(Where, non_trivia_indices, resolved, g) /\ Yields(Item, g, 1, Len(resolved), asked[1])

(* `finish` hands over what was asked for. *)
LEMMA UnfoldFinish == ASSUME PipelineInv, ReadInv, AskedInv, Finish PROVE UnfoldInv'
<1>1. /\ phase = "parse" /\ phase' = "resolve" /\ work' = events /\ open = <<>>
      /\ UNCHANGED <<tokens, non_trivia_indices, events, at, follow, chain, resolved, asked>>
  BY DEF Finish, parserVars, history
<1>2. at = 1 /\ follow = 0 /\ chain = <<>> /\ resolved = <<>> /\ Len(events) \in Nat
  BY <1>1 DEF PipelineInv, ResolverInv, ReadInv, ParserInv, ParserTypeOK
<1>3. PICK h, v : h = Where /\ v = non_trivia_indices
  OBVIOUS
<1>4. Where' = h
  BY <1>1, <1>3 DEF Where
<1>5. Len(open) = 0
  BY <1>1
<1>6. PICK o, f, E, c : Grown(h, v, events, Len(events), open, 0, asked, last, lastSize, o, f, E, c)
  BY <1>3, <1>5 DEF AskedInv, Grows
<1>7. Unfolds(h, v, events, o, f, E) /\ c[1] = 1 /\ Yields(Item, f, c[1], Len(events), asked[1])
  BY <1>6 DEF Grown, Cuts
<1>8. Asking(h, v, events, asked[1], o, f, E)
  BY <1>7 DEF Asking
<1>9. Walking(events, events, 1, 0, <<>>, o)
  BY DEF Walking, Follows, Passed, Chained, Consumed
<1>10. PICK g : g = <<>>
  OBVIOUS
<1>11. Len(resolved) = 0 /\ 1 - 1 = 0 /\ \A i \in 1..0 : FALSE
  BY <1>2
<1>12. Yields(Item, g, 1, 0, <<>>) /\ Yields(Item, f, 1, 0, <<>>)
  <2>1. 1 \in Nat /\ 0 = 1 - 1
    OBVIOUS
  <2> QED
    BY ONLY <2>1, YieldsNothing
<1>13. Putting(h, v, resolved, 1, f, g, <<>>)
  BY <1>11, <1>12 DEF Putting, Puts
<1> QED
  BY <1>1, <1>2, <1>3, <1>4, <1>8, <1>9, <1>13 DEF UnfoldInv

(* Walking a chain emits nothing. *)
LEMMA UnfoldChain ==
    ASSUME PipelineInv, ReadInv, NestInv, UnfoldInv, ResolveStart \/ ResolveFollow PROVE UnfoldInv'
<1>1. /\ phase = "resolve" /\ phase' = "resolve"
      /\ UNCHANGED <<tokens, non_trivia_indices, events, at, resolved, asked>>
  BY DEF ResolveStart, ResolveFollow, Resolving, parserVars, history
<1>2. PICK h, v : h = Where /\ v = non_trivia_indices
  OBVIOUS
<1>3. Where' = h
  BY <1>1, <1>2 DEF Where
<1>4. PICK o, f, E, g, y : /\ Asking(h, v, events, asked[1], o, f, E)
                           /\ Walking(events, work, at, follow, chain, o)
                           /\ Putting(h, v, resolved, at, f, g, y)
  BY <1>1, <1>2 DEF UnfoldInv
<1>5. /\ events \in Seq(Event) /\ Len(events) \in Nat /\ LinksLand(events) /\ work \in Seq(Event) /\ at \in Nat \ {0}
      /\ Len(work) = Len(events) /\ DOMAIN work = 1..Len(work) /\ chain \in Seq(EventKinds) /\ DOMAIN events = 1..Len(events)
      /\ Consumption
  BY <1>1 DEF PipelineInv, ParserInv, ParserTypeOK, LinksSound, ResolverInv, ReadInv, Consumption
<1>6. PICK fin : Nested(fin) /\ open = <<>>
  BY <1>1 DEF NestInv
<1>7. ASSUME NEW t \in 1..Len(events), work[t].tag = "Start"
      PROVE  work[t] = events[t] /\ work[t].kind # TOMBSTONE
  BY <1>1, <1>5, <1>6, <1>7, StartsCompleted
<1>8. Follows(events, work, follow) /\ Chained(events, o, at, follow, chain)
  BY <1>4 DEF Walking
<1>9. PICK t \in 1..Len(events) : /\ work[t].tag = "Start" /\ work' = [work EXCEPT ![t] = TombstoneEvent]
                                  /\ chain' = Append(chain, work[t].kind) /\ follow' = Target(t, work[t])
                                  /\ Picks(events, at, follow, chain, t)
  <2>1. CASE ResolveStart
    <3>1. at \in 1..Len(events) /\ chain = <<>> /\ work[at].tag = "Start"
      BY <1>5, <2>1 DEF ResolveStart
    <3>2. Append(<<>>, work[at].kind) = <<work[at].kind>>
      OBVIOUS
    <3>3. ~Aimed(events, at)
      <4> SUFFICES ASSUME NEW j \in 1..Len(events), events[j].forward_parent # 0, j + events[j].forward_parent = at
                   PROVE  FALSE
        BY DEF Aimed
      <4>1. events[j].tag = "Start"
        BY <1>5 DEF LinksLand
      <4>2. events[j] \in Event
        BY <1>5, ElementOfSeq
      <4>3. events[j].forward_parent \in Nat
        BY <4>2 DEF Event
      <4>4. j < at
        BY <1>5, <4>3
      <4>5. work[j].tag # "Start"
        BY <1>5, <4>4 DEF PipelineInv, ResolverInv
      <4>6. Consumed(events, work, j)
        BY <4>1, <4>5 DEF Consumed
      <4>7. at = follow \/ Consumed(events, work, at)
        BY <1>8, <4>6 DEF Follows
      <4>8. follow = 0
        BY <1>8, <3>1 DEF Chained
      <4> QED
        BY <1>5, <3>1, <4>7, <4>8 DEF Consumed
    <3>4. Picks(events, at, follow, chain, at)
      BY <3>1, <3>3 DEF Picks
    <3> QED
      BY <2>1, <3>1, <3>2, <3>4 DEF ResolveStart
  <2>2. CASE ResolveFollow
    <3>1. follow \in DOMAIN work /\ work[follow].tag = "Start" /\ chain # <<>> /\ follow # 0
      BY <2>2 DEF ResolveFollow, PipelineInv, ResolverInv
    <3>2. Picks(events, at, follow, chain, follow) /\ follow \in 1..Len(events)
      BY <1>5, <3>1 DEF Picks
    <3> QED
      BY <2>2, <3>1, <3>2 DEF ResolveFollow
  <2> QED
    BY <2>1, <2>2
<1>10. work[t] = events[t] /\ events[t].kind # TOMBSTONE
  BY <1>7, <1>9
<1>11. Consumes(events, work, work', t)
  <2>1. TombstoneEvent.tag # "Start"
    BY DEF TombstoneEvent
  <2>2. work'[t] = TombstoneEvent /\ \A j \in 1..Len(events) : j # t => work'[j] = work[j]
    BY <1>5, <1>9
  <2> QED
    BY <1>5, <1>9, <1>10, <2>1, <2>2 DEF Consumes
<1>12. PICK w, fq : w = work' /\ fq = follow'
  OBVIOUS
<1>13. Walking(events, w, at, fq, Append(chain, events[t].kind), o)
  <2>1. Unfolds(h, v, events, o, f, E)
    BY <1>4 DEF Asking
  <2>2. Consumes(events, work, w, t) /\ fq = Target(t, events[t])
    BY <1>9, <1>10, <1>11, <1>12
  <2> QED
    BY <1>4, <1>5, <1>9, <2>1, <2>2, WalkOn
<1> QED
  BY <1>1, <1>2, <1>3, <1>4, <1>9, <1>10, <1>12, <1>13 DEF UnfoldInv

(* The Starts among the added events have been completed. *)
Named(q, n, m) == \A i \in 1..m : q[n + i].tag = "Start" => q[n + i].kind # TOMBSTONE

(* Events added to the resolved ones, and what they show. *)
LEMMA PutsMore ==
    ASSUME NEW h, NEW v, NEW r, NEW q, NEW n \in Nat, n = Len(r), NEW m \in Nat, Len(q) = n + m, Prefix(r, n, q),
           NEW g, NEW y, Puts(h, v, r, g), Yields(Item, g, 1, n, y),
           NEW w, Adds(h, v, q, n, m, w), Named(q, n, m), NEW z, Yielding(n, m, w, z)
    PROVE  \E k : Puts(h, v, q, k) /\ Yields(Item, k, 1, n + m, y \o z)
<1> DEFINE k == [i \in 1..(n + m) |-> IF i <= n THEN g[i] ELSE w[i - n]]
<1>1. \A i \in 1..n : k[i] = g[i] /\ i \in 1..(n + m)
  OBVIOUS
<1>2. \A i \in 1..m : k[n + i] = w[i]
  <2>1. \A i \in 1..m : n + i \in 1..(n + m) /\ ~(n + i <= n) /\ (n + i) - n = i
    OBVIOUS
  <2> QED
    BY <2>1
<1> HIDE DEF k
<1>3. ASSUME NEW i \in 1..(n + m), i > n PROVE \E j \in 1..m : i = n + j
  <2>1. i - n \in 1..m /\ n + (i - n) = i
    BY <1>3
  <2> QED
    BY <2>1
<1>4. ASSUME NEW i \in 1..n PROVE Shows(h, v, q, i, k[i]) /\ (q[i].tag = "Start" => k[i] = <<OpenItem(q[i].kind)>>)
  <2>1. Shows(h, v, r, i, g[i]) /\ (r[i].tag = "Start" => g[i] = <<OpenItem(r[i].kind)>>)
    BY DEF Puts
  <2>2. q[i] = r[i] /\ k[i] = g[i]
    BY <1>1 DEF Prefix
  <2>3. AlikeUpTo(r, q, i - 1) /\ i \in Nat \ {0}
    <3>1. \A j \in 1..(i - 1) : j \in 1..n
      OBVIOUS
    <3>2. \A j \in 1..(i - 1) : q[j] = r[j]
      BY <3>1 DEF Prefix
    <3> QED
      BY <3>2 DEF AlikeUpTo, Alike
  <2>4. Shows(h, v, q, i, g[i])
    BY <2>1, <2>2, <2>3, ShowsSame
  <2> QED
    BY <2>1, <2>2, <2>4
<1>5. ASSUME NEW j \in 1..m
      PROVE  Shows(h, v, q, n + j, k[n + j]) /\ (q[n + j].tag = "Start" => k[n + j] = <<OpenItem(q[n + j].kind)>>)
  <2>1. Shows(h, v, q, n + j, w[j]) /\ (q[n + j].tag = "Start" => w[j] = Own(q[n + j].kind))
    BY DEF Adds
  <2>2. q[n + j].tag = "Start" => q[n + j].kind # TOMBSTONE
    BY DEF Named
  <2>3. k[n + j] = w[j]
    BY <1>2
  <2> QED
    BY <2>1, <2>2, <2>3 DEF Own
<1>6. Puts(h, v, q, k)
  <2>1. ASSUME NEW i \in 1..(n + m) PROVE Shows(h, v, q, i, k[i]) /\ (q[i].tag = "Start" => k[i] = <<OpenItem(q[i].kind)>>)
    <3>1. CASE i <= n
      <4>1. i \in 1..n
        BY <3>1
      <4> QED
        BY <1>4, <4>1
    <3>2. CASE ~(i <= n)
      <4>1. PICK j \in 1..m : i = n + j
        <5>1. i > n
          BY <3>2
        <5> QED
          BY <1>3, <5>1
      <4>2. Shows(h, v, q, n + j, k[n + j]) /\ (q[n + j].tag = "Start" => k[n + j] = <<OpenItem(q[n + j].kind)>>)
        BY <1>5
      <4> QED
        BY ONLY <4>1, <4>2
    <3> QED
      BY <3>1, <3>2
  <2> QED
    BY <2>1 DEF Puts
<1>7. Yields(Item, k, 1, n, y)
  BY <1>1, YieldsSame DEF SameFrom
<1>8. Yields(Item, k, n + 1, n + m, z)
  BY <1>2 DEF Yielding
<1>9. Yields(Item, k, 1, n + m, y \o z)
  BY <1>7, <1>8, YieldsJoin
<1> QED
  BY <1>6, <1>9

(* Events of one item each. *)
LEMMA YieldingItems ==
    ASSUME NEW n \in Nat, NEW s \in Seq(Item), NEW w, \A i \in 1..Len(s) : w[i] = <<s[i]>>
    PROVE  Yielding(n, Len(s), w, s)
<1> SUFFICES ASSUME NEW k, \A i \in 1..Len(s) : k[n + i] = w[i] PROVE Yields(Item, k, n + 1, n + Len(s), s)
  BY DEF Yielding
<1> QED
  BY YieldsItems

(* A whole chain opens what its first Start unfolds to. *)
LEMMA UnfoldEmit == ASSUME PipelineInv, ReadInv, NestInv, UnfoldInv, ResolveEmit PROVE UnfoldInv'
<1>1. /\ phase = "resolve" /\ phase' = "resolve" /\ chain # <<>> /\ chain' = <<>> /\ at' = at + 1 /\ follow = 0
      /\ UNCHANGED <<tokens, non_trivia_indices, events, work, follow, asked>>
  BY DEF ResolveEmit, Resolving, parserVars, history
<1>2. PICK h, v : h = Where /\ v = non_trivia_indices
  OBVIOUS
<1>3. Where' = h
  BY <1>1, <1>2 DEF Where
<1>4. PICK o, f, E, g, y : /\ Asking(h, v, events, asked[1], o, f, E)
                           /\ Walking(events, work, at, follow, chain, o)
                           /\ Putting(h, v, resolved, at, f, g, y)
  BY <1>1, <1>2 DEF UnfoldInv
<1>5. /\ events \in Seq(Event) /\ Len(events) \in Nat /\ at \in Nat \ {0} /\ chain \in Seq(EventKinds)
      /\ resolved \in Seq(Event) /\ at \in 1..Len(events) /\ events[at].tag = "Start"
  BY <1>1 DEF PipelineInv, ParserInv, ParserTypeOK, ResolverInv, ReadInv, Consumption
<1>6. Follows(events, work, 0) /\ Passed(events, work, at, chain) /\ ~Aimed(events, at) /\ o[at] = <<>> \o OpensOf(chain)
  BY <1>1, <1>4 DEF Walking, Chained, Pending
<1>7. PICK q : q = OpensOf(chain) /\ q \in Seq(Item) /\ Len(q) = Len(chain)
  BY <1>5, OpensType
<1>8. f[at] = q
  <2>1. <<>> \o q = q
    BY <1>7, ConcatEmptySeq
  <2>2. f[at] = o[at]
    BY <1>4, <1>5, <1>6 DEF Asking, Unfolds, UnfoldsAt
  <2> QED
    BY <1>6, <1>7, <2>1, <2>2
<1>9. PICK m \in Nat, n \in Nat : m = Len(chain) /\ n = Len(resolved)
  BY <1>5
<1>10. PICK r : r = resolved'
  OBVIOUS
<1>11. Len(r) = n + m /\ Prefix(resolved, n, r) /\ \A i \in 1..m : r[n + i] = StartEvent(chain[(m - i) + 1])
  <2>1. \A i \in DOMAIN chain : chain[i] # TOMBSTONE
    BY <1>1 DEF NestInv, ResolvedNest
  <2>2. PICK rv : rv = Reverse(chain)
    OBVIOUS
  <2>3. DOMAIN chain = 1..m /\ rv = [i \in 1..m |-> chain[(m - i) + 1]] /\ \A i \in 1..m : (m - i) + 1 \in 1..m
    BY <1>5, <1>9, <2>2 DEF Reverse
  <2>4. \A i \in 1..m : rv[i] \in EventKinds /\ rv[i] # TOMBSTONE
    BY <1>5, <2>1, <2>3
  <2>5. rv \in Seq(EventKinds) /\ Len(rv) = m /\ DOMAIN rv = 1..m
    <3>1. rv \in [1..m -> EventKinds]
      BY <2>3, <2>4
    <3> QED
      BY <2>3, <3>1, IsASeq
  <2>6. DOMAIN rv \subseteq {i \in DOMAIN rv : rv[i] # TOMBSTONE}
    BY <2>4, <2>5
  <2>7. Committed(rv) = rv
    BY <2>5, <2>6, KeptAll DEF Committed
  <2>8. PICK st : st = [i \in 1..m |-> StartEvent(rv[i])]
    OBVIOUS
  <2>9. r = resolved \o st
    BY <1>10, <2>2, <2>5, <2>7, <2>8 DEF ResolveEmit
  <2>10. st \in Seq(Event) /\ Len(st) = m /\ \A i \in 1..m : st[i] = StartEvent(chain[(m - i) + 1])
    <3>1. \A i \in 1..m : StartEvent(rv[i]) \in Event
      BY <2>4, EventTypes
    <3>2. st \in [1..m -> Event]
      BY <2>8, <3>1
    <3> QED
      BY <2>3, <2>8, <3>2, IsASeq
  <2>11. /\ Len(resolved \o st) = Len(resolved) + Len(st)
         /\ \A i \in 1..(Len(resolved) + Len(st)) :
               (resolved \o st)[i] = IF i <= Len(resolved) THEN resolved[i] ELSE st[i - Len(resolved)]
    BY <1>5, <2>10, ConcatProperties
  <2>12. Len(r) = n + m /\ \A i \in 1..(n + m) : r[i] = IF i <= n THEN resolved[i] ELSE st[i - n]
    BY <1>9, <2>9, <2>10, <2>11
  <2>13. Prefix(resolved, n, r)
    <3>1. \A i \in 1..n : i \in 1..(n + m) /\ i <= n
      OBVIOUS
    <3> QED
      BY <2>12, <3>1 DEF Prefix
  <2>14. ASSUME NEW i \in 1..m PROVE r[n + i] = StartEvent(chain[(m - i) + 1])
    <3>1. n + i \in 1..(n + m) /\ ~(n + i <= n) /\ (n + i) - n = i
      OBVIOUS
    <3> QED
      BY <2>10, <2>12, <3>1
  <2> QED
    BY <2>12, <2>13, <2>14
<1>12. PICK w : w = [i \in 1..m |-> <<q[i]>>]
  OBVIOUS
<1>13. Adds(h, v, r, n, m, w)
  <2> SUFFICES ASSUME NEW i \in 1..m
               PROVE  /\ r[n + i].forward_parent = 0 /\ Shows(h, v, r, n + i, w[i])
                      /\ r[n + i].tag = "Start" => w[i] = Own(r[n + i].kind)
    BY DEF Adds
  <2>1. PICK c : c = chain[(m - i) + 1]
    OBVIOUS
  <2>2. c # TOMBSTONE
    <3>1. \A j \in DOMAIN chain : chain[j] # TOMBSTONE
      BY <1>1 DEF NestInv, ResolvedNest
    <3>2. (m - i) + 1 \in 1..m /\ DOMAIN chain = 1..m
      BY <1>5, <1>9
    <3> QED
      BY <2>1, <3>1, <3>2
  <2>3. r[n + i].forward_parent = 0 /\ r[n + i].tag = "Start" /\ r[n + i].kind = c
    <3>1. PICK e : e = StartEvent(c)
      OBVIOUS
    <3>2. e.forward_parent = 0 /\ e.tag = "Start" /\ e.kind = c
      BY <3>1 DEF StartEvent
    <3>3. r[n + i] = e
      BY <1>11, <2>1, <3>1
    <3> QED
      BY <3>2, <3>3
  <2>4. w[i] = <<OpenItem(c)>>
    BY <1>7, <1>9, <1>12, <2>1 DEF OpensOf
  <2>5. w[i] = Own(c)
    BY <2>2, <2>4 DEF Own
  <2>6. w[i] \in Seq(Item)
    <3>1. q[i] \in Item
      BY <1>7, <1>9, ElementOfSeq
    <3> QED
      BY <1>12, <3>1
  <2> QED
    BY <2>3, <2>5, <2>6 DEF Shows
<1>14. Named(r, n, m)
  <2> SUFFICES ASSUME NEW i \in 1..m PROVE r[n + i].kind # TOMBSTONE
    BY DEF Named
  <2>1. \A j \in DOMAIN chain : chain[j] # TOMBSTONE
    BY <1>1 DEF NestInv, ResolvedNest
  <2>2. (m - i) + 1 \in 1..m /\ DOMAIN chain = 1..m
    BY <1>5, <1>9
  <2>3. r[n + i].kind = chain[(m - i) + 1]
    <3>1. PICK c : c = chain[(m - i) + 1]
      OBVIOUS
    <3>2. StartEvent(c).kind = c
      BY DEF StartEvent
    <3>3. r[n + i] = StartEvent(c)
      BY <1>11, <3>1
    <3> QED
      BY <3>1, <3>2, <3>3
  <2> QED
    BY <2>1, <2>2, <2>3
<1>15. Yielding(n, m, w, q)
  BY <1>7, <1>9, <1>12, YieldingItems
<1>16. Puts(h, v, resolved, g) /\ Yields(Item, g, 1, n, y) /\ Yields(Item, f, 1, at - 1, y)
  BY <1>4, <1>9 DEF Putting
<1>17. PICK k : Puts(h, v, r, k) /\ Yields(Item, k, 1, n + m, y \o q)
  BY <1>9, <1>11, <1>13, <1>14, <1>15, <1>16, PutsMore
<1>18. Yields(Item, f, 1, (at + 1) - 1, y \o q)
  <2>1. PICK a \in Nat : a = at - 1 /\ a + 1 = at /\ (at + 1) - 1 = a + 1
    <3>1. at - 1 \in Nat /\ (at - 1) + 1 = at /\ (at + 1) - 1 = (at - 1) + 1
      BY <1>5
    <3> QED
      BY <3>1
  <2>2. f[a + 1] \in Seq(Item) /\ f[a + 1] = q /\ 1 <= a + 1 /\ a \in Int
    BY <1>7, <1>8, <2>1
  <2>3. Yields(Item, f, 1, a + 1, y \o f[a + 1])
    BY <1>16, <2>1, <2>2, YieldsMore
  <2> QED
    BY <2>1, <2>2, <2>3
<1>19. Putting(h, v, r, at + 1, f, k, y \o q)
  BY <1>11, <1>17, <1>18 DEF Putting
<1>20. Walking(events, work, at + 1, 0, <<>>, o)
  <2>1. Passed(events, work, at + 1, <<>>)
    <3> SUFFICES ASSUME NEW j \in 1..Len(events), Consumed(events, work, j), j > at + 1 \/ j = at + 1
                 PROVE  Aimed(events, j)
      BY DEF Passed
    <3>1. j > at
      BY <1>5
    <3> QED
      BY <1>6, <3>1 DEF Passed
  <2>2. Chained(events, o, at + 1, 0, <<>>)
    BY DEF Chained
  <2> QED
    BY <1>6, <2>1, <2>2 DEF Walking
<1> QED
  BY <1>1, <1>2, <1>3, <1>4, <1>10, <1>19, <1>20 DEF UnfoldInv

(* The list is passed over at a, which is not a live Start. *)
LEMMA WalkPast ==
    ASSUME NEW ev, NEW w, NEW u, NEW a \in 1..Len(ev), NEW o, LinksLand(ev), ev \in Seq(Event),
           Walking(ev, w, a, 0, <<>>, o), w[a].tag # "Start", u[a].tag # "Start",
           \A j \in 1..Len(ev) : j # a => u[j] = w[j]
    PROVE  Walking(ev, u, a + 1, 0, <<>>, o)
<1>1. \A j \in 1..Len(ev) : Consumed(ev, u, j) <=> Consumed(ev, w, j)
  BY DEF Consumed
<1>2. Follows(ev, w, 0) /\ Passed(ev, w, a, <<>>)
  BY DEF Walking
<1>3. Follows(ev, u, 0)
  <2> SUFFICES ASSUME NEW j \in 1..Len(ev), Consumed(ev, u, j), ev[j].forward_parent # 0
               PROVE  j + ev[j].forward_parent = 0 \/ Consumed(ev, u, j + ev[j].forward_parent)
    BY DEF Follows
  <2>1. PICK i \in 1..Len(ev) : i = j + ev[j].forward_parent
    BY DEF LinksLand
  <2>2. i = 0 \/ Consumed(ev, w, i)
    BY <1>1, <1>2, <2>1 DEF Follows
  <2> QED
    BY <1>1, <2>1, <2>2
<1>4. Passed(ev, u, a + 1, <<>>)
  <2> SUFFICES ASSUME NEW j \in 1..Len(ev), Consumed(ev, u, j), j > a + 1 \/ j = a + 1
               PROVE  Aimed(ev, j)
    BY DEF Passed
  <2>1. j > a /\ Consumed(ev, w, j)
    BY <1>1
  <2> QED
    BY <1>2, <2>1 DEF Passed
<1>5. Chained(ev, o, a + 1, 0, <<>>)
  BY DEF Chained
<1> QED
  BY <1>3, <1>4, <1>5 DEF Walking

(* One event passed on shows what it showed. *)
LEMMA ShowsMoved ==
    ASSUME NEW h, NEW v, NEW s, NEW t, NEW a \in Nat, NEW n \in Nat, NEW x, NEW y,
           Reads(h, s, a, x), Reads(h, t, n, x), t[n + 1] = s[a + 1], Shows(h, v, s, a + 1, y)
    PROVE  Shows(h, v, t, n + 1, y)
<1>1. (a + 1) - 1 = a /\ (n + 1) - 1 = n
  OBVIOUS
<1>2. PICK e : e = s[a + 1] /\ e = t[n + 1]
  OBVIOUS
<1>3. ASSUME e.tag = "Token" PROVE \E z : Reads(h, t, n, z) /\ y = <<TokItem(e.kind, v[z.pos + 1])>>
  <2>1. PICK z : Reads(h, s, a, z) /\ y = <<TokItem(e.kind, v[z.pos + 1])>>
    BY <1>1, <1>2, <1>3 DEF Shows
  <2>2. z = x
    BY <2>1, ReadsUnique
  <2> QED
    BY <2>1, <2>2
<1>4. /\ y \in Seq(Item)
      /\ e.tag = "Finish" => y = <<CloseItem>>
      /\ e.tag \in {"Error", "Tombstone"} => y = <<>>
  BY <1>2 DEF Shows
<1> QED
  BY <1>1, <1>2, <1>3, <1>4 DEF Shows

(* Any other event is passed on, or shows nothing. *)
LEMMA UnfoldOther == ASSUME PipelineInv, ReadInv, UnfoldInv, ResolveOther PROVE UnfoldInv'
<1>1. /\ phase = "resolve" /\ phase' = "resolve" /\ chain = <<>> /\ chain' = <<>> /\ at' = at + 1 /\ at <= Len(work)
      /\ work[at].tag # "Start" /\ work' = [work EXCEPT ![at] = TombstoneEvent]
      /\ UNCHANGED <<tokens, non_trivia_indices, events, follow, asked>>
  BY DEF ResolveOther, Resolving, parserVars, history
<1>2. PICK h, v : h = Where /\ v = non_trivia_indices
  OBVIOUS
<1>3. Where' = h
  BY <1>1, <1>2 DEF Where
<1>4. PICK o, f, E, g, y : /\ Asking(h, v, events, asked[1], o, f, E)
                           /\ Walking(events, work, at, follow, chain, o)
                           /\ Putting(h, v, resolved, at, f, g, y)
  BY <1>1, <1>2 DEF UnfoldInv
<1>5. /\ events \in Seq(Event) /\ Len(events) \in Nat /\ LinksLand(events) /\ work \in Seq(Event) /\ at \in Nat \ {0}
      /\ Len(work) = Len(events) /\ DOMAIN work = 1..Len(work) /\ DOMAIN events = 1..Len(events)
      /\ Consumption /\ resolved \in Seq(Event)
  BY <1>1 DEF PipelineInv, ParserInv, ParserTypeOK, LinksSound, ResolverInv, ReadInv, Consumption
<1>6. at \in 1..Len(events) /\ follow = 0
  BY <1>1, <1>4, <1>5 DEF Walking, Chained
<1>7. work[at] = events[at] \/ (work[at] = TombstoneEvent /\ events[at].tag = "Start")
  BY <1>5, <1>6 DEF Consumption
<1>8. PICK w : w = work'
  OBVIOUS
<1>9. Walking(events, w, at + 1, 0, <<>>, o)
  <2>1. w[at].tag # "Start" /\ \A j \in 1..Len(events) : j # at => w[j] = work[j]
    BY <1>1, <1>5, <1>6, <1>8 DEF TombstoneEvent
  <2>2. Walking(events, work, at, 0, <<>>, o)
    BY <1>1, <1>4, <1>6
  <2> QED
    BY <1>1, <1>5, <1>6, <2>1, <2>2, WalkPast
<1>10. UnfoldsAt(h, v, events, o, f, E, at)
  BY <1>4, <1>6 DEF Asking, Unfolds
<1>11. PICK n \in Nat, a \in Nat : n = Len(resolved) /\ a = at - 1 /\ a + 1 = at /\ (at + 1) - 1 = a + 1
  <2>1. Len(resolved) \in Nat /\ at - 1 \in Nat /\ (at - 1) + 1 = at /\ (at + 1) - 1 = (at - 1) + 1
    BY <1>5
  <2> QED
    BY <2>1
<1>12. Puts(h, v, resolved, g) /\ Yields(Item, g, 1, n, y) /\ Yields(Item, f, 1, a, y)
  BY <1>4, <1>11 DEF Putting
<1>13. PICK d : d = f[at] /\ d \in Seq(Item) /\ Shows(h, v, events, at, d)
  BY <1>10 DEF UnfoldsAt, Shows
<1>14. Yields(Item, f, 1, (at + 1) - 1, y \o d)
  <2>1. f[a + 1] \in Seq(Item) /\ f[a + 1] = d /\ 1 <= a + 1 /\ a \in Int
    BY <1>11, <1>13
  <2>2. Yields(Item, f, 1, a + 1, y \o f[a + 1])
    BY <1>12, <2>1, YieldsMore
  <2> QED
    BY <1>11, <2>1, <2>2
<1>15. PICK r : r = resolved'
  OBVIOUS
<1>16. \E k : Puts(h, v, r, k) /\ Yields(Item, k, 1, Len(r), y \o d)
  <2>1. CASE work[at].tag = "Tombstone"
    <3>1. r = resolved
      BY <1>15, <2>1 DEF ResolveOther
    <3>2. d = <<>>
      <4>1. CASE work[at] = events[at]
        BY <1>13, <2>1, <4>1 DEF Shows
      <4>2. CASE work[at] # events[at]
        <5>1. events[at].tag = "Start" /\ Consumed(events, work, at)
          BY <1>1, <1>7, <4>2 DEF Consumed
        <5>2. Aimed(events, at)
          BY <1>1, <1>4, <1>6, <5>1 DEF Walking, Passed
        <5> QED
          BY <1>10, <1>13, <5>1, <5>2 DEF UnfoldsAt
      <4> QED
        BY <4>1, <4>2
    <3>3. y \in Seq(Item)
      <4>1. 1 \in Nat /\ n \in Int /\ 1 <= n + 1
        OBVIOUS
      <4> QED
        BY <1>12, <4>1, YieldsType
    <3>4. y \o <<>> = y
      BY <3>3, ConcatEmptySeq
    <3> QED
      BY <1>11, <1>12, <3>1, <3>2, <3>4
  <2>2. CASE work[at].tag # "Tombstone"
    <3>1. work[at] = events[at]
      BY <1>7, <2>2 DEF TombstoneEvent
    <3>2. r = Append(resolved, events[at]) /\ events[at] \in Event
      BY <1>5, <1>6, <1>15, <2>2, <3>1, ElementOfSeq DEF ResolveOther
    <3>3. Len(r) = n + 1 /\ Prefix(resolved, n, r) /\ r[n + 1] = events[at]
      BY <1>5, <1>11, <3>2, AppendProperties DEF Prefix
    <3>4. PICK x : Reads(h, events, a, x) /\ Reads(h, resolved, n, x)
      BY <1>1, <1>2, <1>11 DEF ReadInv
    <3>5. Reads(h, r, n, x)
      <4>1. \A i \in 1..n : Alike(resolved[i], r[i])
        BY <3>3 DEF Prefix, Alike
      <4> QED
        BY ONLY <3>4, <4>1, ReadsAlike, n \in Nat
    <3>6. Shows(h, v, r, n + 1, d)
      <4>1. r[n + 1] = events[a + 1] /\ Shows(h, v, events, a + 1, d)
        BY <1>11, <1>13, <3>3
      <4> QED
        BY <3>4, <3>5, <4>1, ShowsMoved
    <3>7. Adds(h, v, r, n, 1, <<d>>)
      <4>1. r[n + 1].forward_parent = 0 /\ r[n + 1].tag # "Start"
        BY <1>1, <1>5, <1>6, <3>1, <3>3 DEF LinksLand
      <4>2. \A i \in 1..1 : i = 1 /\ <<d>>[i] = d
        OBVIOUS
      <4> QED
        BY <3>6, <4>1, <4>2 DEF Adds
    <3>8. Yielding(n, 1, <<d>>, d)
      BY <1>13, YieldingOne
    <3>9. PICK m \in Nat : m = 1
      OBVIOUS
    <3>10. \E k : Puts(h, v, r, k) /\ Yields(Item, k, 1, n + m, y \o d)
      <4>1. Len(r) = n + m /\ Adds(h, v, r, n, m, <<d>>) /\ Yielding(n, m, <<d>>, d)
        BY <3>3, <3>7, <3>8, <3>9
      <4>2. Named(r, n, m)
        <5>1. \A i \in 1..m : r[n + i].tag # "Start"
          BY <1>1, <3>1, <3>3, <3>9
        <5> QED
          BY <5>1 DEF Named
      <4> QED
        BY <1>11, <1>12, <3>3, <4>1, <4>2, PutsMore
    <3> QED
      BY <3>3, <3>9, <3>10
  <2> QED
    BY <2>1, <2>2
<1>17. PICK k : Putting(h, v, r, at + 1, f, k, y \o d)
  BY <1>14, <1>16 DEF Putting
<1> QED
  BY <1>1, <1>2, <1>3, <1>4, <1>6, <1>8, <1>9, <1>15, <1>17 DEF UnfoldInv

(* At the end everything asked for is resolved. *)
LEMMA UnfoldDone == ASSUME PipelineInv, ReadInv, UnfoldInv, ResolveDone PROVE UnfoldInv'
<1>1. /\ phase = "resolve" /\ phase' = "build" /\ at > Len(work)
      /\ UNCHANGED <<tokens, non_trivia_indices, resolved, asked>>
  BY DEF ResolveDone, Resolving, parserVars, resolveVars, history
<1>2. PICK h, v : h = Where /\ v = non_trivia_indices
  OBVIOUS
<1>3. Where' = h
  BY <1>1, <1>2 DEF Where
<1>4. PICK o, f, E, g, y : /\ Asking(h, v, events, asked[1], o, f, E)
                           /\ Walking(events, work, at, follow, chain, o)
                           /\ Putting(h, v, resolved, at, f, g, y)
  BY <1>1, <1>2 DEF UnfoldInv
<1>5. at - 1 = Len(events) /\ Len(events) \in Nat
  BY <1>1 DEF ReadInv, Consumption, PipelineInv, ResolverInv
<1>6. Yields(Item, f, 1, Len(events), y) /\ Yields(Item, f, 1, Len(events), asked[1])
  BY <1>4, <1>5 DEF Asking, Putting
<1>7. y = asked[1]
  <2>1. 1 \in Nat /\ Len(events) \in Int /\ 1 <= Len(events) + 1
    BY <1>5
  <2> QED
    BY <1>6, <2>1, YieldsUnique
<1>8. Puts(h, v, resolved, g) /\ Yields(Item, g, 1, Len(resolved), asked[1])
  BY <1>4, <1>7 DEF Putting
<1> QED
  BY <1>1, <1>2, <1>3, <1>8 DEF UnfoldInv

(* The builder changes none of it. *)
LEMMA UnfoldKept ==
    ASSUME UnfoldInv, UNCHANGED <<tokens, non_trivia_indices, resolved, asked, events, work, at, follow, chain>>,
           \/ phase' = phase
           \/ phase' = "parse"
           \/ phase = "build" /\ phase' = "done"
    PROVE  UnfoldInv'
<1>1. Where' = Where
  BY DEF Where
<1> QED
  BY <1>1 DEF UnfoldInv

(* Every step keeps the resolver true to what was asked. *)
LEMMA UnfoldStep == PipelineInv /\ ReadInv /\ NestInv /\ AskedInv /\ UnfoldInv /\ [Next]_vars => UnfoldInv'
<1> SUFFICES ASSUME PipelineInv, ReadInv, NestInv, AskedInv, UnfoldInv, [Next]_vars PROVE UnfoldInv'
  OBVIOUS
<1>1. CASE \/ DoStart \/ DoBump \/ DoError \/ DoErrAndBump \/ DoPrecede \/ DoAbandon
           \/ \E R \in SUBSET TokenKinds \ {{}} : DoErrRecover(R)
           \/ \E k \in NodeKinds \cup {SOURCE_FILE} : DoComplete(k)
  <2>1. phase' = "parse"
    BY <1>1 DEF DoStart, DoBump, DoError, DoErrAndBump, DoErrRecover, DoComplete, DoPrecede, DoAbandon, ParseStep
  <2> QED
    BY <2>1 DEF UnfoldInv
<1>2. CASE Finish
  BY <1>2, UnfoldFinish
<1>3. CASE ResolveStart \/ ResolveFollow
  BY <1>3, UnfoldChain
<1>4. CASE ResolveEmit
  BY <1>4, UnfoldEmit
<1>5. CASE ResolveOther
  BY <1>5, UnfoldOther
<1>6. CASE ResolveDone
  BY <1>6, UnfoldDone
<1>7. CASE \/ BuildStart \/ BuildToken \/ BuildFinish \/ BuildError \/ BuildDone \/ Terminated \/ UNCHANGED vars
  <2>1. UNCHANGED <<tokens, non_trivia_indices, resolved, asked, events, work, at, follow, chain>>
    BY <1>7 DEF BuildStart, BuildToken, BuildFinish, BuildError, BuildDone, Building, Terminated, vars,
                parserVars, resolveVars, history
  <2>2. phase' = phase \/ (phase = "build" /\ phase' = "done")
    BY <1>7 DEF BuildStart, BuildToken, BuildFinish, BuildError, BuildDone, Building, Terminated, vars
  <2> QED
    BY <2>1, <2>2, UnfoldKept
<1> QED
  BY <1>1, <1>2, <1>3, <1>4, <1>5, <1>6, <1>7 DEF Next

--------------------------------------------------------------------------------
(* The build phase: trivia aside, the tree is what the resolved events show.  *)

(* The tree without its trivia. *)
Significant(s) == Kept(s, {i \in DOMAIN s : s[i].kind # Trivia})

(* There is nothing in nothing. *)
LEMMA SignificantNothing == Significant(<<>>) = <<>>
<1>1. PICK z : z = <<>> /\ Len(z) = 0
  OBVIOUS
<1>2. PICK g : Sifts(z, {i \in DOMAIN z : z[i].kind # Trivia}, Len(z), g) /\ Significant(z) = g[Len(z)]
  BY <1>1, KeptSifts DEF Significant
<1> QED
  BY <1>1, <1>2 DEF Sifts

(* One item more. *)
LEMMA SignificantNext ==
    ASSUME NEW s \in Seq(Item), NEW e \in Item, NEW t, t = Append(s, e)
    PROVE  Significant(t) = IF e.kind # Trivia THEN Append(Significant(s), e) ELSE Significant(s)
<1>1. PICK k \in Nat : k = Len(s)
  OBVIOUS
<1>2. t \in Seq(Item) /\ Len(t) = k + 1 /\ t[k + 1] = e /\ \A i \in 1..k : t[i] = s[i]
  <2>1. s \in Seq(Item) /\ e \in Item /\ t = Append(s, e)
    OBVIOUS
  <2> QED
    BY ONLY <1>1, <2>1, AppendProperties
<1>3. PICK I, J : I = {i \in DOMAIN s : s[i].kind # Trivia} /\ J = {i \in DOMAIN t : t[i].kind # Trivia}
  OBVIOUS
<1>4. DOMAIN s = 1..k /\ DOMAIN t = 1..(k + 1) /\ Prefix(s, k, t) /\ (k + 1 \in J <=> e.kind # Trivia)
  BY <1>1, <1>2, <1>3 DEF Prefix
<1>5. SameUpTo(I, J, k)
  BY <1>3, <1>4 DEF Prefix, SameUpTo
<1>6. PICK g : Sifts(s, I, k, g) /\ Significant(s) = g[k]
  BY <1>1, <1>3, KeptSifts DEF Significant
<1>7. PICK f : Sifts(t, J, k + 1, f) /\ Significant(t) = f[k + 1]
  <2>1. Len(t) \in Nat
    BY <1>2
  <2>2. \E f : Sifts(t, J, Len(t), f) /\ Kept(t, J) = f[Len(t)]
    BY <2>1, KeptSifts
  <2> QED
    BY <1>2, <1>3, <2>2 DEF Significant
<1>8. f[k] = g[k]
  <2>1. k \in 0..(k + 1)
    OBVIOUS
  <2>2. Sifts(t, J, k, f)
    BY <1>7, <2>1, SiftsLess
  <2> QED
    BY <1>4, <1>5, <1>6, <2>2, KeptPrefix
<1>9. f[k + 1] = IF k + 1 \in J THEN Append(f[k], t[k + 1]) ELSE f[k]
  <2>1. k + 1 \in 1..(k + 1) /\ (k + 1) - 1 = k
    OBVIOUS
  <2> QED
    BY <1>7, <2>1 DEF Sifts
<1> QED
  BY <1>2, <1>4, <1>6, <1>7, <1>8, <1>9

(* The raw tokens from a to b are trivia. *)
Blank(a, b) == \A i \in 1..(b - a) : tokens[a + i] = Trivia

(* They add nothing significant. *)
LEMMA SignificantRaw ==
    ASSUME tokens \in Seq(TokenKinds \cup {Trivia}), NEW s \in Seq(Item), NEW a \in Nat, NEW b \in a..Len(tokens),
           Blank(a, b)
    PROVE  s \o Raw(a, b) \in Seq(Item) /\ Significant(s \o Raw(a, b)) = Significant(s)
<1>1. PICK m \in Nat : m = b - a
  <2>1. b - a \in Nat
    OBVIOUS
  <2> QED
    BY <2>1
<1>2. PICK t : t = s \o Raw(a, b)
  OBVIOUS
<1>3. t \in Seq(Item) /\ Continues(s, t, a, m)
  <2>1. s \o Raw(a, b) \in Seq(Item) /\ Continues(s, s \o Raw(a, b), a, b - a)
    BY RawContinues
  <2> QED
    BY <1>1, <1>2, <2>1
<1>4. PICK k \in Nat : k = Len(s) /\ Len(t) = k + m
  BY <1>3 DEF Continues
<1>5. PICK I, J : I = {i \in DOMAIN s : s[i].kind # Trivia} /\ J = {i \in DOMAIN t : t[i].kind # Trivia}
  OBVIOUS
<1>6. DOMAIN s = 1..k /\ DOMAIN t = 1..(k + m) /\ Prefix(s, k, t)
  BY <1>3, <1>4 DEF Continues
<1>7. SameUpTo(I, J, k)
  BY <1>5, <1>6 DEF Prefix, SameUpTo
<1>8. PICK g : Sifts(s, I, k, g) /\ Significant(s) = g[k]
  BY <1>4, <1>5, KeptSifts DEF Significant
<1>9. PICK f : Sifts(t, J, k + m, f) /\ Significant(t) = f[k + m]
  <2>1. Len(t) \in Nat
    BY <1>3
  <2>2. \E f : Sifts(t, J, Len(t), f) /\ Kept(t, J) = f[Len(t)]
    BY <2>1, KeptSifts
  <2> QED
    BY <1>4, <1>5, <2>2 DEF Significant
<1>10. f[k] = g[k]
  <2>1. k \in 0..(k + m)
    OBVIOUS
  <2>2. Sifts(t, J, k, f)
    BY <1>9, <2>1, SiftsLess
  <2> QED
    BY <1>6, <1>7, <1>8, <2>2, KeptPrefix
<1> DEFINE T == {j \in Nat : j <= m => f[k + j] = g[k]}
<1>11. 0 \in T
  BY <1>10
<1>12. ASSUME NEW j \in Nat, j \in T PROVE j + 1 \in T
  <2> SUFFICES ASSUME j + 1 <= m PROVE f[k + (j + 1)] = g[k]
    OBVIOUS
  <2>1. PICK i \in Nat : i = k + (j + 1) /\ i - 1 = k + j /\ i \in 1..(k + m) /\ j + 1 \in 1..m
    OBVIOUS
  <2>2. t[i] = TokItem(tokens[a + (j + 1)], a + (j + 1))
    BY <1>3, <1>4, <2>1 DEF Continues
  <2>3. tokens[a + (j + 1)] = Trivia
    BY <1>1, <2>1 DEF Blank
  <2>4. i \notin J
    BY <1>5, <2>2, <2>3 DEF TokItem
  <2>5. f[i - 1] = g[k]
    BY <1>12, <2>1
  <2> QED
    BY <1>9, <2>1, <2>4, <2>5 DEF Sifts
<1> HIDE DEF T
<1>13. m \in T
  BY <1>11, <1>12, ClosedUnderSuccessor
<1> QED
  BY <1>2, <1>3, <1>8, <1>9, <1>13 DEF T

(* Behind them, an item that is not trivia does. *)
LEMMA SignificantWeave ==
    ASSUME tokens \in Seq(TokenKinds \cup {Trivia}), NEW s \in Seq(Item), NEW a \in Nat, NEW b \in a..Len(tokens),
           Blank(a, b), NEW e \in Item, e.kind # Trivia, NEW t, t = Weave(s, a, b, e)
    PROVE  Significant(t) = Append(Significant(s), e)
<1>1. PICK u : u = s \o Raw(a, b)
  OBVIOUS
<1>2. u \in Seq(Item) /\ Significant(u) = Significant(s)
  BY <1>1, SignificantRaw
<1>3. t = Append(u, e)
  BY <1>1, <1>2, AppendIsConcat DEF Weave
<1>4. Significant(t) = IF e.kind # Trivia THEN Append(Significant(u), e) ELSE Significant(u)
  <2>1. u \in Seq(Item) /\ e \in Item
    BY <1>2
  <2> QED
    BY ONLY <1>3, <2>1, SignificantNext
<1> QED
  BY <1>2, <1>4

(* `Parser::new` lists the significant tokens, all of them, in order. *)
Listing ==
    /\ \A i, j \in 1..Len(non_trivia_indices) : i < j => non_trivia_indices[i] < non_trivia_indices[j]
    /\ \A i \in 1..Len(tokens) : tokens[i] # Trivia => \E j \in 1..Len(non_trivia_indices) : non_trivia_indices[j] = i

(* It does so to begin with. *)
LEMMA ListingInit == Init => Listing
<1> SUFFICES ASSUME Init PROVE Listing
  OBVIOUS
<1>1. tokens \in Seq(TokenKinds \cup {Trivia}) /\ non_trivia_indices \in NonTriviaIndices(tokens)
  BY KindsAssumption DEF Init, ParserInit
<1>2. PICK S : S = {i \in DOMAIN tokens : tokens[i] # Trivia}
  OBVIOUS
<1>3. PICK n \in 0..Len(tokens) : /\ non_trivia_indices \in [1..n -> S]
                                  /\ \A i, j \in 1..n : i < j => non_trivia_indices[i] < non_trivia_indices[j]
                                  /\ \A s \in S : \E i \in 1..n : non_trivia_indices[i] = s
  BY <1>1, <1>2 DEF NonTriviaIndices
<1>4. n \in Nat /\ DOMAIN tokens = 1..Len(tokens)
  BY <1>1
<1>5. Len(non_trivia_indices) = n
  BY <1>3, <1>4, IsASeq
<1> QED
  BY <1>2, <1>3, <1>4, <1>5 DEF Listing

(* The builder has passed the significant tokens it has emitted. *)
Reached == nt_pos > 0 => non_trivia_indices[nt_pos] <= raw_pos

(* Up to the next significant token there is only trivia. *)
LEMMA BlankAhead ==
    ASSUME ParserTypeOK, Cursors, Listing, Reached, NEW b \in raw_pos..Len(tokens), b <= Where[nt_pos]
    PROVE  Blank(raw_pos, b)
<1>1. /\ Len(tokens) \in Nat /\ Len(non_trivia_indices) \in Nat /\ raw_pos \in Nat /\ nt_pos \in Nat
      /\ nt_pos <= Len(non_trivia_indices) /\ b \in Nat
      /\ \A j \in 1..Len(non_trivia_indices) : non_trivia_indices[j] \in Nat
  <2>1. Len(tokens) \in Nat /\ Len(non_trivia_indices) \in Nat /\ DOMAIN tokens = 1..Len(tokens)
        /\ non_trivia_indices \in Seq(DOMAIN tokens)
    BY DEF ParserTypeOK
  <2>2. ASSUME NEW j \in 1..Len(non_trivia_indices) PROVE non_trivia_indices[j] \in Nat
    <3>1. non_trivia_indices[j] \in 1..Len(tokens)
      BY <2>1, ElementOfSeq
    <3> QED
      BY <2>1, <3>1
  <2> QED
    BY <2>1, <2>2 DEF Cursors
<1> SUFFICES ASSUME NEW i \in 1..(b - raw_pos), tokens[raw_pos + i] # Trivia PROVE FALSE
  BY DEF Blank
<1>2. PICK a \in 1..Len(tokens) : a = raw_pos + i /\ raw_pos < a /\ a <= b
  BY <1>1
<1>3. PICK j \in 1..Len(non_trivia_indices) : non_trivia_indices[j] = a
  BY <1>2 DEF Listing
<1>4. CASE j <= nt_pos
  <2>1. nt_pos \in 1..Len(non_trivia_indices)
    BY <1>1, <1>4
  <2>2. non_trivia_indices[j] <= non_trivia_indices[nt_pos]
    <3>1. j < nt_pos => non_trivia_indices[j] < non_trivia_indices[nt_pos]
      BY <2>1 DEF Listing
    <3> QED
      BY <1>1, <1>4, <2>1, <3>1
  <2> QED
    BY <1>1, <1>2, <1>3, <2>1, <2>2 DEF Reached
<1>5. CASE ~(j <= nt_pos)
  <2>1. nt_pos + 1 \in 1..Len(non_trivia_indices) /\ nt_pos < Len(non_trivia_indices)
    BY <1>1, <1>5
  <2>2. non_trivia_indices[nt_pos + 1] <= non_trivia_indices[j]
    <3>1. nt_pos + 1 < j => non_trivia_indices[nt_pos + 1] < non_trivia_indices[j]
      BY <2>1 DEF Listing
    <3> QED
      BY <1>1, <1>5, <2>1, <3>1
  <2>3. Where[nt_pos] = non_trivia_indices[nt_pos + 1] - 1
    BY <1>1, <2>1 DEF Where
  <2> QED
    BY <1>1, <1>2, <1>3, <2>1, <2>2, <2>3
<1> QED
  BY <1>4, <1>5

(* The root is completed behind the last token (source_file). *)
AllRead == events # <<>> /\ open = <<>> => pos = Len(non_trivia_indices)

(* At first nothing is recorded. *)
LEMMA AllReadInit == Init => AllRead
BY DEF Init, ParserInit, AllRead

(* No call of a rule ends the root earlier. *)
LEMMA AllReadStep == ParserInv /\ AllRead /\ [Next]_vars => AllRead'
<1> SUFFICES ASSUME ParserInv, AllRead, [Next]_vars PROVE AllRead'
  OBVIOUS
<1>1. [ParserNext]_parserVars
  BY PipelineParserStep
<1>2. open \in Seq(Nat) /\ Len(open) \in Nat /\ Len(non_trivia_indices) \in Nat /\ pos \in 0..Len(non_trivia_indices)
  BY DEF ParserInv, ParserTypeOK
<1>3. CASE UNCHANGED parserVars
  BY <1>3 DEF AllRead, parserVars
<1>4. CASE StartRoot
  <2>1. open' # <<>>
    BY <1>4 DEF StartRoot
  <2> QED
    BY <2>1 DEF AllRead
<1>5. CASE Start \/ Precede
  <2>1. PICK e \in Nat : open' = Append(open, e)
    <3>1. Len(events) + 1 \in Nat
      BY DEF ParserInv, ParserTypeOK
    <3> QED
      BY <1>5, <3>1 DEF Start, Precede
  <2>2. open' # <<>>
    BY <1>2, <2>1
  <2> QED
    BY <2>2 DEF AllRead
<1>6. CASE Bump \/ Error \/ \E R \in SUBSET TokenKinds : err_recover(R)
  <2>1. open' # <<>>
    BY <1>6 DEF Bump, Error, err_recover, Parsing
  <2> QED
    BY <2>1 DEF AllRead
<1>7. CASE \E k \in NodeKinds \cup {SOURCE_FILE} : Complete(k)
  <2>1. /\ UNCHANGED <<non_trivia_indices, pos>> /\ open' = Pop /\ open # <<>>
        /\ Len(open) = 1 => at_end
    BY <1>7 DEF Complete, Parsing
  <2>2. CASE Len(open) = 1
    BY <1>2, <2>1, <2>2 DEF AllRead, at_end
  <2>3. CASE Len(open) # 1
    <3>1. Len(Pop) = Len(open) - 1 /\ Len(open) # 0
      BY <2>1, StackFacts
    <3>2. Len(open) > 1
      BY <1>2, <2>3, <3>1
    <3>3. open' # <<>>
      BY <1>2, <2>1, <3>1, <3>2
    <3> QED
      BY <3>3 DEF AllRead
  <2> QED
    BY <2>2, <2>3
<1>8. CASE Abandon
  <2>1. open' = Pop /\ Len(open) > 1
    BY <1>8 DEF Abandon
  <2>2. Len(Pop) = Len(open) - 1
    BY <1>2, <2>1 DEF Pop
  <2>3. open' # <<>>
    BY <1>2, <2>1, <2>2
  <2> QED
    BY <2>3 DEF AllRead
<1> QED
  BY <1>1, <1>3, <1>4, <1>5, <1>6, <1>7, <1>8 DEF ParserNext

(* The builder has put what the resolved events before `next` show. *)
Assembled(h, v, r, n, tree, s, g) == Puts(h, v, r, g) /\ Yields(Item, g, 1, Len(r), tree) /\ Yields(Item, g, 1, n - 1, Significant(s))

(* What makes TreeAsAsked inductive in the builder. *)
BuiltInv ==
    /\ Listing /\ Reached /\ AllRead
    /\ phase \in {"build", "done"} =>
          \E g : Assembled(Where, non_trivia_indices, resolved, next, asked[1], out, g)

(* At first nothing is built. *)
LEMMA BuiltInit == Init => BuiltInv
<1> SUFFICES ASSUME Init PROVE BuiltInv
  OBVIOUS
<1>1. Listing /\ AllRead
  BY ListingInit, AllReadInit
<1>2. nt_pos = 0 /\ phase = "parse"
  BY DEF Init
<1> QED
  BY <1>1, <1>2 DEF BuiltInv, Reached

(* A step of the builder that puts e. *)
LEMMA BuildsOne ==
    ASSUME NEW h, NEW v, NEW r, NEW n \in Nat \ {0}, NEW tree, NEW s, NEW t, NEW g, Assembled(h, v, r, n, tree, s, g),
           NEW e \in Item, g[n] = <<e>>, Significant(t) = Append(Significant(s), e)
    PROVE  Assembled(h, v, r, n + 1, tree, t, g)
<1>1. PICK a \in Nat : a = n - 1 /\ a + 1 = n /\ (n + 1) - 1 = a + 1
  <2>1. n - 1 \in Nat /\ (n - 1) + 1 = n /\ (n + 1) - 1 = (n - 1) + 1
    OBVIOUS
  <2> QED
    BY <2>1
<1>2. PICK y : y = Significant(s)
  OBVIOUS
<1>3. Yields(Item, g, 1, a, y)
  BY <1>1, <1>2 DEF Assembled
<1>4. 1 \in Nat /\ a \in Int /\ 1 <= a + 1 /\ g[a + 1] = <<e>> /\ g[a + 1] \in Seq(Item)
  <2>1. 1 \in Nat /\ a \in Int /\ 1 <= a + 1
    OBVIOUS
  <2>2. <<e>> \in Seq(Item)
    OBVIOUS
  <2>3. g[a + 1] = <<e>>
    BY <1>1
  <2> QED
    BY <2>1, <2>2, <2>3
<1>5. Yields(Item, g, 1, a + 1, y \o g[a + 1])
  BY <1>3, <1>4, YieldsMore
<1>6. y \in Seq(Item)
  BY <1>3, <1>4, YieldsType
<1>7. y \o <<e>> = Append(y, e)
  BY <1>6, AppendIsConcat
<1>8. Yields(Item, g, 1, (n + 1) - 1, Significant(t))
  BY <1>1, <1>2, <1>4, <1>5, <1>7
<1> QED
  BY <1>8 DEF Assembled

(* And one that puts nothing. *)
LEMMA BuildsNothing ==
    ASSUME NEW h, NEW v, NEW r, NEW n \in Nat \ {0}, NEW tree, NEW s, NEW g, Assembled(h, v, r, n, tree, s, g),
           g[n] = <<>>
    PROVE  Assembled(h, v, r, n + 1, tree, s, g)
<1>1. PICK a \in Nat : a = n - 1 /\ a + 1 = n /\ (n + 1) - 1 = a + 1
  <2>1. n - 1 \in Nat /\ (n - 1) + 1 = n /\ (n + 1) - 1 = (n - 1) + 1
    OBVIOUS
  <2> QED
    BY <2>1
<1>2. PICK y : y = Significant(s)
  OBVIOUS
<1>3. Yields(Item, g, 1, a, y)
  BY <1>1, <1>2 DEF Assembled
<1>4. 1 \in Nat /\ a \in Int /\ 1 <= a + 1 /\ g[a + 1] = <<>> /\ g[a + 1] \in Seq(Item)
  <2>1. 1 \in Nat /\ a \in Int /\ 1 <= a + 1
    OBVIOUS
  <2>2. <<>> \in Seq(Item)
    OBVIOUS
  <2>3. g[a + 1] = <<>>
    BY <1>1
  <2> QED
    BY <2>1, <2>2, <2>3
<1>5. Yields(Item, g, 1, a + 1, y \o g[a + 1])
  BY <1>3, <1>4, YieldsMore
<1>6. y \in Seq(Item)
  BY <1>3, <1>4, YieldsType
<1>7. y \o <<>> = y
  BY <1>6, ConcatEmptySeq
<1>8. Yields(Item, g, 1, (n + 1) - 1, y)
  BY <1>1, <1>4, <1>5, <1>7
<1> QED
  BY <1>2, <1>8 DEF Assembled

(* What makes TreeAsAsked inductive. *)
BuildInv == PipelineInv /\ ReadInv /\ NestInv /\ Cursors /\ SpellInv /\ TextInv /\ AskedInv /\ UnfoldInv /\ BuiltInv

(* What every step of the builder finds and leaves. *)
LEMMA BuiltPlace ==
    ASSUME BuildInv, BuildStart \/ BuildToken \/ BuildFinish \/ BuildError
    PROVE  /\ tokens \in Seq(TokenKinds \cup {Trivia}) /\ Len(tokens) \in Nat
           /\ raw_pos \in Nat /\ raw_pos <= Len(tokens) /\ nt_pos \in Nat /\ TriviaTo \in raw_pos..Len(tokens)
           /\ nt_pos < Len(non_trivia_indices) =>
                 /\ non_trivia_indices[nt_pos + 1] \in 1..Len(tokens)
                 /\ TriviaTo = non_trivia_indices[nt_pos + 1] - 1
           /\ out \in Seq(Item) /\ phase = "build" /\ phase' = "build" /\ next' = next + 1
           /\ next \in Nat \ {0} /\ next <= Len(resolved) /\ next \in 1..Len(resolved)
           /\ depth \in Nat /\ (depth = 0 <=> next = 1)
           /\ resolved[next].kind \in EventKinds
           /\ \A b \in raw_pos..Len(tokens) : b <= Where[nt_pos] => Blank(raw_pos, b)
           /\ TriviaTo <= Where[nt_pos]
           /\ UNCHANGED <<tokens, non_trivia_indices, resolved, asked, events, open, pos>>
           /\ \E g : Assembled(Where, non_trivia_indices, resolved, next, asked[1], out, g)
<1> USE DEF BuildInv
<1>1. /\ tokens \in Seq(TokenKinds \cup {Trivia}) /\ Len(tokens) \in Nat
      /\ raw_pos \in Nat /\ raw_pos <= Len(tokens) /\ nt_pos \in Nat /\ TriviaTo \in raw_pos..Len(tokens)
      /\ nt_pos < Len(non_trivia_indices) =>
            /\ non_trivia_indices[nt_pos + 1] \in 1..Len(tokens)
            /\ TriviaTo = non_trivia_indices[nt_pos + 1] - 1
      /\ Weaving /\ phase' = "build" /\ next' = next + 1
      /\ next \in Nat \ {0} /\ next <= Len(resolved) /\ Len(resolved) \in Nat
      /\ depth \in Nat /\ (depth = 0 <=> next = 1)
      /\ resolved[next].kind \in EventKinds
  BY WeavePlace
<1>2. phase = "build" /\ UNCHANGED <<tokens, non_trivia_indices, resolved, asked, events, open, pos>>
  BY DEF BuildStart, BuildToken, BuildFinish, BuildError, Building, parserVars, resolveVars, history
<1>3. ParserTypeOK /\ Listing /\ Reached
  BY DEF PipelineInv, ParserInv, BuiltInv
<1>4. \A b \in raw_pos..Len(tokens) : b <= Where[nt_pos] => Blank(raw_pos, b)
  BY <1>3, BlankAhead
<1>5. TriviaTo <= Where[nt_pos]
  <2>1. raw_pos <= Where[nt_pos]
    BY <1>1 DEF Weaving
  <2>2. Where[nt_pos] = IF nt_pos < Len(non_trivia_indices) THEN non_trivia_indices[nt_pos + 1] - 1 ELSE Len(tokens)
    BY <1>1 DEF Where
  <2>3. CASE nt_pos < Len(non_trivia_indices)
    <3>1. TriviaTo = Where[nt_pos] /\ TriviaTo \in Int
      BY <1>1, <2>2, <2>3
    <3> QED
      BY <3>1
  <2>4. CASE ~(nt_pos < Len(non_trivia_indices))
    BY <1>1, <2>2, <2>4
  <2> QED
    BY <2>3, <2>4
<1>6. out \in Seq(Item) /\ next \in 1..Len(resolved)
  BY <1>1 DEF Weaving
<1>7. \E g : Assembled(Where, non_trivia_indices, resolved, next, asked[1], out, g)
  BY <1>2 DEF BuiltInv
<1> QED
  BY <1>1, <1>2, <1>4, <1>5, <1>6, <1>7

(* The rest of the invariant, which every step of the builder keeps. *)
LEMMA BuiltNext ==
    ASSUME BuildInv, phase' = "build", UNCHANGED <<tokens, non_trivia_indices, resolved, asked, events, open, pos>>,
           Reached', NEW g, Assembled(Where, non_trivia_indices, resolved, next', asked[1], out', g)
    PROVE  BuiltInv'
<1>1. Where' = Where /\ Listing' /\ AllRead'
  BY DEF BuildInv, BuiltInv, Where, Listing, AllRead
<1>2. Assembled(Where, non_trivia_indices, resolved, next, asked[1], out, g)'
  <2>1. Significant(out)' = Significant(out')
    BY DEF Significant, Kept
  <2> QED
    BY <1>1
<1> QED
  BY <1>1, <1>2 DEF BuiltInv

(* The builder opens a node. *)
LEMMA BuiltStart == ASSUME BuildInv, BuildStart PROVE BuiltInv'
<1>1. /\ tokens \in Seq(TokenKinds \cup {Trivia}) /\ Len(tokens) \in Nat
      /\ raw_pos \in Nat /\ raw_pos <= Len(tokens) /\ nt_pos \in Nat /\ TriviaTo \in raw_pos..Len(tokens)
      /\ out \in Seq(Item) /\ phase' = "build" /\ next' = next + 1
      /\ next \in Nat \ {0} /\ next \in 1..Len(resolved)
      /\ depth \in Nat /\ (depth = 0 <=> next = 1)
      /\ resolved[next].kind \in EventKinds
      /\ Blank(raw_pos, TriviaTo)
      /\ UNCHANGED <<tokens, non_trivia_indices, resolved, asked, events, open, pos>>
  BY BuiltPlace
<1>2. PICK g : Assembled(Where, non_trivia_indices, resolved, next, asked[1], out, g)
  BY BuiltPlace
<1>3. PICK k \in EventKinds, b \in Nat : k = resolved[next].kind /\ b = TriviaTo
  BY <1>1
<1>4. /\ resolved[next].tag = "Start" /\ raw_pos' = b /\ nt_pos' = nt_pos
      /\ out' = IF depth > 0 THEN (out \o Raw(raw_pos, b)) \o <<OpenItem(k)>>
                             ELSE (out \o <<OpenItem(k)>>) \o Raw(raw_pos, b)
  BY <1>3, RawIs DEF BuildStart
<1>5. PICK e : e = OpenItem(k)
  OBVIOUS
<1>6. e \in Item /\ e.kind # Trivia
  BY <1>5, TriviaApart DEF Item, OpenItem
<1>7. g[next] = <<e>>
  BY <1>1, <1>2, <1>3, <1>4, <1>5 DEF Assembled, Puts
<1>8. PICK t : t = out'
  OBVIOUS
<1>9. b \in raw_pos..Len(tokens) /\ Blank(raw_pos, b)
  BY <1>1, <1>3
<1>10. Significant(t) = Append(Significant(out), e)
  <2>1. CASE depth > 0
    <3>1. t = Weave(out, raw_pos, b, e)
      BY <1>4, <1>5, <1>8, <2>1 DEF Weave
    <3> QED
      BY <1>1, <1>6, <1>9, <3>1, SignificantWeave
  <2>2. CASE ~(depth > 0)
    <3>1. PICK u : u = Append(out, e)
      OBVIOUS
    <3>2. u = out \o <<e>> /\ u \in Seq(Item)
      BY <1>1, <1>6, <3>1, AppendIsConcat, AppendProperties
    <3>3. t = u \o Raw(raw_pos, b)
      BY <1>4, <1>5, <1>8, <2>2, <3>2
    <3>4. Significant(t) = Significant(u)
      BY <1>1, <1>9, <3>2, <3>3, SignificantRaw
    <3>5. Significant(u) = IF e.kind # Trivia THEN Append(Significant(out), e) ELSE Significant(out)
      BY <1>1, <1>6, <3>1, SignificantNext
    <3> QED
      BY <1>6, <3>4, <3>5
  <2> QED
    BY <2>1, <2>2
<1>11. Assembled(Where, non_trivia_indices, resolved, next', asked[1], out', g)
  BY <1>1, <1>2, <1>6, <1>7, <1>8, <1>10, BuildsOne
<1>12. Reached'
  <2>1. ASSUME nt_pos > 0 PROVE non_trivia_indices[nt_pos] <= b
    <3>1. non_trivia_indices[nt_pos] <= raw_pos
      BY <2>1 DEF BuildInv, BuiltInv, Reached
    <3>2. non_trivia_indices[nt_pos] \in Nat
      <4>1. non_trivia_indices \in Seq(DOMAIN tokens) /\ nt_pos \in 1..Len(non_trivia_indices) /\ DOMAIN tokens = 1..Len(tokens)
        BY <1>1, <2>1 DEF BuildInv, PipelineInv, ParserInv, ParserTypeOK, Cursors
      <4>2. non_trivia_indices[nt_pos] \in 1..Len(tokens)
        BY <4>1, ElementOfSeq
      <4> QED
        BY <1>1, <4>2
    <3> QED
      BY <1>1, <1>9, <3>1, <3>2
  <2> QED
    BY <1>1, <1>4, <2>1 DEF Reached
<1> QED
  BY <1>1, <1>11, <1>12, BuiltNext

(* The builder emits a token: the one the parser consumed at this place. *)
LEMMA BuiltToken == ASSUME BuildInv, BuildToken PROVE BuiltInv'
<1>1. /\ tokens \in Seq(TokenKinds \cup {Trivia}) /\ Len(tokens) \in Nat
      /\ raw_pos \in Nat /\ raw_pos <= Len(tokens) /\ nt_pos \in Nat /\ TriviaTo \in raw_pos..Len(tokens)
      /\ nt_pos < Len(non_trivia_indices) =>
            /\ non_trivia_indices[nt_pos + 1] \in 1..Len(tokens)
            /\ TriviaTo = non_trivia_indices[nt_pos + 1] - 1
      /\ out \in Seq(Item) /\ phase = "build" /\ phase' = "build" /\ next' = next + 1
      /\ next \in Nat \ {0} /\ next <= Len(resolved) /\ next \in 1..Len(resolved)
      /\ resolved[next].kind \in EventKinds
      /\ Blank(raw_pos, TriviaTo)
      /\ UNCHANGED <<tokens, non_trivia_indices, resolved, asked, events, open, pos>>
  BY BuiltPlace
<1>2. PICK g : Assembled(Where, non_trivia_indices, resolved, next, asked[1], out, g)
  BY BuiltPlace
<1>3. resolved[next].tag = "Token"
  BY DEF BuildToken
<1>4. nt_pos < Len(non_trivia_indices)
  BY <1>1, <1>3, TokenLeft DEF BuildInv
<1>5. PICK b \in Nat : b + 1 = non_trivia_indices[nt_pos + 1] /\ b = TriviaTo
  <2>1. TriviaTo \in Nat /\ TriviaTo + 1 = non_trivia_indices[nt_pos + 1]
    BY <1>1, <1>4
  <2> QED
    BY <2>1
<1>6. PICK k \in EventKinds : k = resolved[next].kind
  BY <1>1
<1>7. PICK e : e = TokItem(k, b + 1)
  OBVIOUS
<1>8. e \in Item /\ e.kind # Trivia
  BY <1>7, TriviaApart DEF Item, TokItem
<1>9. g[next] = <<e>>
  <2>1. Shows(Where, non_trivia_indices, resolved, next, g[next])
    BY <1>1, <1>2 DEF Assembled, Puts
  <2>2. PICK x : Reads(Where, resolved, next - 1, x) /\ g[next] = <<TokItem(k, non_trivia_indices[x.pos + 1])>>
    BY <1>3, <1>6, <2>1 DEF Shows
  <2>3. PICK z : z = [pos |-> nt_pos, raised |-> errors]
    OBVIOUS
  <2>4. Reads(Where, resolved, next - 1, z)
    BY <1>1, <2>3 DEF BuildInv, ReadInv
  <2>5. x = z
    <3>1. next - 1 \in Nat
      BY <1>1
    <3> QED
      BY <2>2, <2>4, <3>1, ReadsUnique
  <2>6. x.pos = nt_pos
    BY <2>3, <2>5
  <2> QED
    BY <1>5, <1>7, <2>2, <2>6
<1>10. raw_pos' = b + 1 /\ nt_pos' = nt_pos + 1 /\ out' = (out \o Raw(raw_pos, b)) \o <<e>>
  <2>1. (b + 1) - 1 = b
    OBVIOUS
  <2> QED
    BY <1>4, <1>5, <1>6, <1>7, <2>1, RawIs DEF BuildToken
<1>11. PICK t : t = out'
  OBVIOUS
<1>12. Significant(t) = Append(Significant(out), e)
  <2>1. b \in raw_pos..Len(tokens) /\ Blank(raw_pos, b)
    BY <1>1, <1>5
  <2>2. t = Weave(out, raw_pos, b, e)
    BY <1>10, <1>11 DEF Weave
  <2> QED
    BY <1>1, <1>8, <2>1, <2>2, SignificantWeave
<1>13. Assembled(Where, non_trivia_indices, resolved, next', asked[1], out', g)
  BY <1>1, <1>2, <1>8, <1>9, <1>11, <1>12, BuildsOne
<1>14. Reached'
  <2>1. non_trivia_indices'[nt_pos'] = b + 1 /\ b + 1 \in Nat
    BY <1>1, <1>5, <1>10
  <2> QED
    BY <1>10, <2>1 DEF Reached
<1> QED
  BY <1>1, <1>13, <1>14, BuiltNext

(* An error is not part of the tree. *)
LEMMA BuiltError == ASSUME BuildInv, BuildError PROVE BuiltInv'
<1>1. /\ phase' = "build" /\ next' = next + 1
      /\ next \in Nat \ {0} /\ next \in 1..Len(resolved)
      /\ UNCHANGED <<tokens, non_trivia_indices, resolved, asked, events, open, pos>>
  BY BuiltPlace
<1>2. PICK g : Assembled(Where, non_trivia_indices, resolved, next, asked[1], out, g)
  BY BuiltPlace
<1>3. resolved[next].tag = "Error" /\ UNCHANGED <<nt_pos, raw_pos, out>>
  BY DEF BuildError
<1>4. g[next] = <<>>
  BY <1>1, <1>2, <1>3 DEF Assembled, Puts, Shows
<1>5. Assembled(Where, non_trivia_indices, resolved, next', asked[1], out', g)
  BY <1>1, <1>2, <1>3, <1>4, BuildsNothing
<1>6. Reached'
  BY <1>1, <1>3 DEF BuildInv, BuiltInv, Reached
<1> QED
  BY <1>1, <1>5, <1>6, BuiltNext

(* At the last event every significant token has been emitted. *)
LEMMA AllEmitted ==
    ASSUME BuildInv, ReadInv', BuildFinish, next = Len(resolved)
    PROVE  nt_pos = Len(non_trivia_indices)
<1>1. /\ phase = "build" /\ phase' = "build" /\ next' = next + 1 /\ next \in Nat \ {0}
      /\ UNCHANGED <<tokens, non_trivia_indices, resolved, asked, events, open, pos>>
  BY BuiltPlace
<1>2. PICK x, y : x = [pos |-> nt_pos', raised |-> errors'] /\ y = [pos |-> pos, raised |-> raised]
  OBVIOUS
<1>3. Where' = Where /\ next' - 1 = Len(resolved) /\ Len(resolved) \in Nat
  BY <1>1 DEF Where
<1>4. Reads(Where, resolved, Len(resolved), x)
  BY <1>1, <1>2, <1>3 DEF ReadInv
<1>5. Reads(Where, resolved, Len(resolved), y)
  BY <1>1, <1>2 DEF BuildInv, ReadInv
<1>6. x = y
  BY <1>3, <1>4, <1>5, ReadsUnique
<1>7. nt_pos' = nt_pos
  BY DEF BuildFinish
<1>8. nt_pos = pos
  <2>1. x.pos = nt_pos /\ y.pos = pos
    BY <1>2, <1>7
  <2> QED
    BY <1>6, <2>1
<1>9. pos = Len(non_trivia_indices)
  <2>1. events # <<>> /\ open = <<>>
    BY <1>1 DEF BuildInv, NestInv
  <2> QED
    BY <2>1 DEF BuildInv, BuiltInv, AllRead
<1> QED
  BY <1>8, <1>9

(* The builder closes a node; behind the root only trivia is left. *)
LEMMA BuiltFinish == ASSUME BuildInv, ReadInv', BuildFinish PROVE BuiltInv'
<1>1. /\ tokens \in Seq(TokenKinds \cup {Trivia}) /\ Len(tokens) \in Nat
      /\ raw_pos \in Nat /\ raw_pos <= Len(tokens) /\ nt_pos \in Nat
      /\ out \in Seq(Item) /\ phase = "build" /\ phase' = "build" /\ next' = next + 1
      /\ next \in Nat \ {0} /\ next <= Len(resolved) /\ next \in 1..Len(resolved)
      /\ depth \in Nat /\ (depth = 0 <=> next = 1)
      /\ \A b \in raw_pos..Len(tokens) : b <= Where[nt_pos] => Blank(raw_pos, b)
      /\ UNCHANGED <<tokens, non_trivia_indices, resolved, asked, events, open, pos>>
  BY BuiltPlace
<1>2. PICK g : Assembled(Where, non_trivia_indices, resolved, next, asked[1], out, g)
  BY BuiltPlace
<1>3. /\ (depth + Delta(resolved[next].tag) = 0 <=> next = Len(resolved)) /\ resolved[1].tag = "Start" /\ Weaving
  BY WeavePlace DEF BuildInv
<1>4. resolved[next].tag = "Finish" /\ nt_pos' = nt_pos
  BY DEF BuildFinish
<1>5. depth # 0 /\ (depth = 1 => next = Len(resolved))
  BY <1>1, <1>3, <1>4 DEF Delta
<1>6. PICK b \in Nat : b = IF depth = 1 THEN Len(tokens) ELSE raw_pos
  BY <1>1
<1>7. PICK e : e = CloseItem
  OBVIOUS
<1>8. out' = (out \o Raw(raw_pos, b)) \o <<e>> /\ raw_pos' = b
  BY <1>5, <1>6, <1>7, RawIs DEF BuildFinish
<1>9. e \in Item /\ e.kind # Trivia
  BY <1>7, TriviaApart DEF Item, CloseItem, EventKinds
<1>10. g[next] = <<e>>
  BY <1>1, <1>2, <1>4, <1>7 DEF Assembled, Puts, Shows
<1>11. b \in raw_pos..Len(tokens) /\ b <= Where[nt_pos]
  <2>1. CASE depth = 1
    <3>1. nt_pos = Len(non_trivia_indices)
      BY <1>5, <2>1, AllEmitted
    <3>2. Where[nt_pos] = Len(tokens)
      <4>1. ~(nt_pos < Len(non_trivia_indices))
        BY <1>1, <3>1
      <4> QED
        BY <1>1, <4>1 DEF Where
    <3> QED
      BY <1>1, <1>6, <2>1, <3>2
  <2>2. CASE depth # 1
    BY <1>1, <1>3, <1>6, <2>2 DEF Weaving
  <2> QED
    BY <2>1, <2>2
<1>12. PICK t : t = out'
  OBVIOUS
<1>13. Significant(t) = Append(Significant(out), e)
  <2>1. t = Weave(out, raw_pos, b, e)
    BY <1>8, <1>12 DEF Weave
  <2>2. Blank(raw_pos, b)
    BY <1>1, <1>11
  <2> QED
    BY <1>1, <1>9, <1>11, <2>1, <2>2, SignificantWeave
<1>14. Assembled(Where, non_trivia_indices, resolved, next', asked[1], out', g)
  BY <1>1, <1>2, <1>9, <1>10, <1>12, <1>13, BuildsOne
<1>15. Reached'
  <2>1. ASSUME nt_pos > 0 PROVE non_trivia_indices[nt_pos] <= b
    <3>1. non_trivia_indices[nt_pos] <= raw_pos
      BY <2>1 DEF BuildInv, BuiltInv, Reached
    <3>2. non_trivia_indices[nt_pos] \in Nat
      <4>1. non_trivia_indices \in Seq(DOMAIN tokens) /\ nt_pos \in 1..Len(non_trivia_indices) /\ DOMAIN tokens = 1..Len(tokens)
        BY <1>1, <2>1 DEF BuildInv, PipelineInv, ParserInv, ParserTypeOK, Cursors
      <4>2. non_trivia_indices[nt_pos] \in 1..Len(tokens)
        BY <4>1, ElementOfSeq
      <4> QED
        BY <1>1, <4>2
    <3> QED
      BY <1>1, <1>11, <3>1, <3>2
  <2> QED
    BY <1>1, <1>4, <1>8, <2>1 DEF Reached
<1> QED
  BY <1>1, <1>14, <1>15, BuiltNext

(* The builder begins with nothing built. *)
LEMMA BuiltBegins == ASSUME BuildInv, UnfoldInv', ResolveDone PROVE BuiltInv'
<1>1. /\ phase = "resolve" /\ phase' = "build"
      /\ UNCHANGED <<tokens, non_trivia_indices, resolved, asked, events, open, pos>> /\ UNCHANGED buildVars
  BY DEF ResolveDone, Resolving, parserVars, resolveVars, history
<1>2. out' = <<>> /\ next' = 1 /\ nt_pos' = 0
  BY <1>1 DEF BuildInv, TextInv, ReadInv, buildVars
<1>3. Where' = Where
  BY <1>1 DEF Where
<1>4. PICK g : Puts(Where, non_trivia_indices, resolved, g) /\ Yields(Item, g, 1, Len(resolved), asked[1])
  BY <1>1, <1>3 DEF UnfoldInv
<1>5. Yields(Item, g, 1, next' - 1, Significant(out'))
  <2>1. 1 \in Nat /\ next' - 1 = 0 /\ 0 = 1 - 1
    BY <1>2
  <2>2. Yields(Item, g, 1, 0, <<>>)
    BY ONLY <2>1, YieldsNothing
  <2> QED
    BY <1>2, <2>1, <2>2, SignificantNothing
<1>6. Assembled(Where, non_trivia_indices, resolved, next', asked[1], out', g)
  BY <1>4, <1>5 DEF Assembled
<1>7. Reached'
  BY <1>2 DEF Reached
<1> QED
  BY <1>1, <1>6, <1>7, BuiltNext

(* Every step of the builder builds what was asked for. *)
LEMMA BuiltStep == ASSUME BuildInv, [Next]_vars, ReadInv', UnfoldInv' PROVE BuiltInv'
<1>1. CASE BuildStart \/ BuildToken \/ BuildFinish \/ BuildError \/ ResolveDone
  BY <1>1, BuiltStart, BuiltToken, BuiltFinish, BuiltError, BuiltBegins
<1>2. CASE ~(BuildStart \/ BuildToken \/ BuildFinish \/ BuildError \/ ResolveDone)
  <2>1. UNCHANGED <<tokens, non_trivia_indices>>
    BY TextKept
  <2>2. AllRead'
    BY AllReadStep DEF BuildInv, BuiltInv, PipelineInv
  <2>3. Where' = Where /\ Listing'
    BY <2>1 DEF Where, Listing, BuildInv, BuiltInv
  <2>4. UNCHANGED <<nt_pos, raw_pos, next, out>>
    BY <1>2 DEF Next, DoStart, DoBump, DoError, DoErrAndBump, DoErrRecover, DoComplete, DoPrecede,
                DoAbandon, ParseStep, Finish, ResolveStart, ResolveFollow, ResolveEmit, ResolveOther,
                Resolving, BuildDone, Terminated, vars, buildVars
  <2>5. Reached'
    BY <2>1, <2>4 DEF BuildInv, BuiltInv, Reached
  <2>6. ASSUME phase' \in {"build", "done"} PROVE phase \in {"build", "done"} /\ UNCHANGED <<resolved, asked>>
    BY <1>2, <2>6 DEF Next, DoStart, DoBump, DoError, DoErrAndBump, DoErrRecover, DoComplete, DoPrecede,
                DoAbandon, ParseStep, Finish, ResolveStart, ResolveFollow, ResolveEmit, ResolveOther,
                Resolving, BuildDone, Terminated, vars, resolveVars, history
  <2>7. ASSUME phase' \in {"build", "done"}
        PROVE  \E g : Assembled(Where', non_trivia_indices', resolved', next', asked'[1], out', g)
    BY <2>1, <2>3, <2>4, <2>6, <2>7 DEF BuildInv, BuiltInv
  <2>8. Significant(out)' = Significant(out')
    BY DEF Significant, Kept
  <2> QED
    BY <2>2, <2>3, <2>5, <2>7, <2>8 DEF BuiltInv
<1> QED
  BY <1>1, <1>2

(* The green tree, trivia aside, is the tree the grammar's calls ask for,    *)
(* for every source and every order of parser calls: forward_parent links,   *)
(* tombstones, resolve_events and build_tree together put every node around  *)
(* exactly what was consumed between its start and its completion.           *)
THEOREM TreeIsAsAsked == Spec => []TreeAsAsked
<1>1. BuildInv => TreeAsAsked
  <2> SUFFICES ASSUME BuildInv, phase = "done" PROVE Significant(out) = asked[1]
    BY DEF TreeAsAsked, Significant
  <2>1. PICK g : Assembled(Where, non_trivia_indices, resolved, next, asked[1], out, g)
    BY DEF BuildInv, BuiltInv
  <2>2. next - 1 = Len(resolved) /\ Len(resolved) \in Nat
    BY DEF BuildInv, ReadInv
  <2>3. Yields(Item, g, 1, Len(resolved), asked[1]) /\ Yields(Item, g, 1, Len(resolved), Significant(out))
    BY <2>1, <2>2 DEF Assembled
  <2>4. 1 \in Nat /\ Len(resolved) \in Int /\ 1 <= Len(resolved) + 1
    BY <2>2
  <2> QED
    BY <2>3, <2>4, YieldsUnique
<1>2. Init => BuildInv
  <2>1. Init => UnfoldInv
    BY DEF Init, UnfoldInv
  <2> QED
    BY <2>1, PipelineInitInv, ReadInit, NestInit, CursorsInit, SpellInit, TextInit, AskedInit, BuiltInit DEF BuildInv
<1>3. BuildInv /\ [Next]_vars => BuildInv'
  <2> SUFFICES ASSUME BuildInv, [Next]_vars PROVE BuildInv'
    OBVIOUS
  <2>1. PipelineInv' /\ ReadInv' /\ NestInv' /\ Cursors' /\ SpellInv' /\ TextInv'
    BY PipelineStepInv, ReadStep, NestStep, CursorsStep, SpellStep, TextStep DEF BuildInv
  <2>2. AskedInv' /\ UnfoldInv'
    BY AskedStep, UnfoldStep DEF BuildInv
  <2>3. BuiltInv'
    BY <2>1, <2>2, BuiltStep
  <2> QED
    BY <2>1, <2>2, <2>3 DEF BuildInv
<1> QED
  BY <1>1, <1>2, <1>3, PTL DEF Spec

================================================================================
