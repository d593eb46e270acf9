------------------------------ MODULE ParserEvents ------------------------------
(***************************************************************************)
(* The event-producing half of the AADL parser: the token cursor of        *)
(* `Parser` and the `Marker` / `CompletedMarker` protocol by which grammar *)
(* rules open, close, wrap and give up syntax nodes.                       *)
(*                                                                         *)
(* The grammar rules themselves are the environment: any sequence of       *)
(* parser calls that respects the way the rules are written (markers are   *)
(* locals of nested calls, so they close in stack order; only a node that  *)
(* was completed by the very last event is preceded; a marker obtained     *)
(* from `precede` is always completed).  Node and token kinds are values   *)
(* of small sets; messages are left out.                                   *)
(***************************************************************************)
EXTENDS Integers, Sequences

CONSTANTS
    NodeKinds,      \* the kinds a grammar rule may complete a node with
    TokenKinds,     \* the kinds of the significant tokens
    Trivia,         \* the kind of whitespace and comments
    Sources,        \* the source texts, as sequences of raw token kinds
    MaxEvents       \* bound: once recorded, a parse only consumes and completes

TOMBSTONE == "TOMBSTONE"
ERROR == "ERROR"
SOURCE_FILE == "SOURCE_FILE"
EOF == "EOF"

(* The synthetic kinds are not kinds of the input, nor of the grammar. *)
ASSUME KindsAssumption ==
    /\ TOMBSTONE \notin NodeKinds
    /\ EOF \notin TokenKinds
    /\ Trivia \notin TokenKinds \cup NodeKinds \cup {TOMBSTONE, ERROR, SOURCE_FILE, "none"}
    /\ Sources \subseteq Seq(TokenKinds \cup {Trivia})
    /\ MaxEvents \in Nat

CompletedKinds == NodeKinds \cup {ERROR, SOURCE_FILE}
EventKinds == CompletedKinds \cup TokenKinds \cup {TOMBSTONE, "none"}
EventTags == {"Start", "Token", "Finish", "Error", "Tombstone"}

(* `forward_parent: Option<u32>` is a delta; 0 stands for None. *)
Event == [tag : EventTags, kind : EventKinds, forward_parent : Nat]

StartEvent(k) == [tag |-> "Start", kind |-> k, forward_parent |-> 0]
TokenEvent(k) == [tag |-> "Token", kind |-> k, forward_parent |-> 0]
FinishEvent == [tag |-> "Finish", kind |-> "none", forward_parent |-> 0]
ErrorEvent == [tag |-> "Error", kind |-> "none", forward_parent |-> 0]
TombstoneEvent == [tag |-> "Tombstone", kind |-> "none", forward_parent |-> 0]

VARIABLES
    tokens,                 \* the raw token kinds, trivia included
    non_trivia_indices,     \* indices of the significant tokens, ascending
    pos,                    \* significant tokens consumed so far
    events,                 \* Parser::events
    open,                   \* positions of the live Markers, outermost first
    last                    \* the CompletedMarker still in hand, 0 if none

parserVars == <<tokens, non_trivia_indices, pos, events, open, last>>

(* `Parser::new`: the ascending enumeration of the significant tokens. *)
NonTriviaIndices(toks) ==
    LET S == {i \in DOMAIN toks : toks[i] # Trivia}
    IN  UNION {{f \in [1..n -> S] : /\ \A i, j \in 1..n : i < j => f[i] < f[j]
                                    /\ \A s \in S : \E i \in 1..n : f[i] = s}
                  : n \in 0..Len(toks)}

ParserInit ==
    /\ tokens \in Sources
    /\ non_trivia_indices \in NonTriviaIndices(tokens)
    /\ pos = 0
    /\ events = <<>>
    /\ open = <<>>
    /\ last = 0

at_end == pos >= Len(non_trivia_indices)

nth(n) == IF pos + n >= Len(non_trivia_indices)
            THEN EOF
            ELSE tokens[non_trivia_indices[pos + n + 1]]

current == nth(0)

Parsing == open # <<>>
Room == Len(events) < MaxEvents
Top == open[Len(open)]
Pop == SubSeq(open, 1, Len(open) - 1)

(* Somebody's forward_parent leads to the event at position i. *)
Preceded(i) == \E j \in DOMAIN events : /\ events[j].forward_parent # 0
                                        /\ j + events[j].forward_parent = i

--------------------------------------------------------------------------------
(* `source_file` opens the root marker before anything else happens. *)
StartRoot ==
    /\ events = <<>> /\ open = <<>>
    /\ events' = <<StartEvent(TOMBSTONE)>>
    /\ open' = <<1>>
    /\ UNCHANGED <<tokens, non_trivia_indices, pos, last>>

(* `Parser::start` in a nested rule. *)
Start ==
    /\ Parsing
    /\ Room
    /\ events' = Append(events, StartEvent(TOMBSTONE))
    /\ open' = Append(open, Len(events) + 1)
    /\ last' = 0
    /\ UNCHANGED <<tokens, non_trivia_indices, pos>>

(* `bump`, `bump_any` and a successful `eat` or `expect`: `do_bump`. *)
Bump ==
    /\ Parsing
    /\ ~at_end
    /\ events' = Append(events, TokenEvent(current))
    /\ pos' = pos + 1
    /\ last' = 0
    /\ UNCHANGED <<tokens, non_trivia_indices, open>>

(* `error`, and an `expect` that finds another token. *)
Error ==
    /\ Parsing
    /\ Room
    /\ events' = Append(events, ErrorEvent)
    /\ last' = 0
    /\ UNCHANGED <<tokens, non_trivia_indices, pos, open>>

(* `err_recover` skips n tokens: it always takes the current one and goes on *)
(* to the next token of the recovery set, or to the end.                     *)
StopsAfter(n, recovery) ==
    /\ pos + n = Len(non_trivia_indices) \/ nth(n) \in recovery
    /\ \A m \in 1..(n - 1) : nth(m) \notin recovery

ErrorNode(n) == <<StartEvent(ERROR), ErrorEvent>>
                   \o [i \in 1..n |-> TokenEvent(nth(i - 1))] \o <<FinishEvent>>

err_recover(recovery) ==
    /\ Parsing
    /\ Room
    /\ IF current = EOF \/ current \in recovery
         THEN /\ events' = Append(events, ErrorEvent)
              /\ pos' = pos
         ELSE \E n \in 1..(Len(non_trivia_indices) - pos) :
                 /\ StopsAfter(n, recovery)
                 /\ events' = events \o ErrorNode(n)
                 /\ pos' = pos + n
    /\ last' = 0
    /\ UNCHANGED <<tokens, non_trivia_indices, open>>

err_and_bump == err_recover({})

(* `Marker::complete`.  The root is completed by `source_file` once all      *)
(* tokens are consumed; every other marker by the rule that started it.      *)
Complete(k) ==
    /\ Parsing
    /\ IF Len(open) = 1 THEN at_end /\ k = SOURCE_FILE ELSE k \in NodeKinds
    /\ events' = Append([events EXCEPT ![Top].kind = k], FinishEvent)
    /\ open' = Pop
    /\ last' = IF Len(open) = 1 THEN 0 ELSE Top
    /\ UNCHANGED <<tokens, non_trivia_indices, pos>>

(* Mutant: the link holds the parent's position instead of the distance.     *)
Precede_Absolute ==
    /\ Parsing /\ last # 0 /\ Room
    /\ events' = Append([events EXCEPT ![last].forward_parent = Len(events) + 1],
                        StartEvent(TOMBSTONE))
    /\ open' = Append(open, Len(events) + 1)
    /\ last' = 0
    /\ UNCHANGED <<tokens, non_trivia_indices, pos>>

(* `CompletedMarker::precede`: a new Start at the end, and the child's       *)
(* forward_parent set to the distance to it.                                 *)
Precede ==
    /\ Parsing
    /\ last # 0
    /\ Room
    /\ events' = Append([events EXCEPT ![last].forward_parent = Len(events) + 1 - last],
                        StartEvent(TOMBSTONE))
    /\ open' = Append(open, Len(events) + 1)
    /\ last' = 0
    /\ UNCHANGED <<tokens, non_trivia_indices, pos>>

(* Mutant: a rule gives up a marker it got from `precede`.                   *)
Abandon_AnyMarker ==
    /\ Len(open) > 1
    /\ events' = IF Top = Len(events)
                   THEN SubSeq(events, 1, Len(events) - 1)
                   ELSE [events EXCEPT ![Top] = TombstoneEvent]
    /\ open' = Pop
    /\ last' = 0
    /\ UNCHANGED <<tokens, non_trivia_indices, pos>>

(* `Marker::abandon`: pops a Start that is still the last event, otherwise   *)
(* overwrites it with a Tombstone.  Rules abandon only what they `start`ed.  *)
Abandon ==
    /\ Len(open) > 1
    /\ ~Preceded(Top)
    /\ events' = IF Top = Len(events)
                   THEN SubSeq(events, 1, Len(events) - 1)
                   ELSE [events EXCEPT ![Top] = TombstoneEvent]
    /\ open' = Pop
    /\ last' = 0
    /\ UNCHANGED <<tokens, non_trivia_indices, pos>>

--------------------------------------------------------------------------------
(* Any call a grammar rule may make next. *)
ParserNext ==
    \/ StartRoot \/ Start \/ Bump \/ Error
    \/ \E R \in SUBSET TokenKinds : err_recover(R)
    \/ \E k \in NodeKinds \cup {SOURCE_FILE} : Complete(k)
    \/ Precede \/ Abandon

ParserSpec == ParserInit /\ [][ParserNext]_parserVars

--------------------------------------------------------------------------------
(* The fields of Parser keep their types; the cursor stays within the        *)
(* significant tokens, and those are never trivia (Parser::new, do_bump).    *)
ParserTypeOK ==
    /\ tokens \in Seq(TokenKinds \cup {Trivia})
    /\ non_trivia_indices \in Seq(DOMAIN tokens)
    /\ \A i \in DOMAIN non_trivia_indices : tokens[non_trivia_indices[i]] \in TokenKinds
    /\ pos \in 0..Len(non_trivia_indices)
    /\ events \in Seq(Event)
    /\ open \in Seq(Nat)
    /\ last \in Nat

(* The Start event of every live marker is still there, uncommitted, and     *)
(* markers lie in the order they were opened: what `complete` and `abandon`  *)
(* rely on when they match the event at the marker's position.               *)
MarkersLive ==
    /\ \A i \in DOMAIN open : /\ open[i] \in DOMAIN events
                              /\ events[open[i]] = StartEvent(TOMBSTONE)
    /\ \A i, j \in DOMAIN open : i < j => open[i] < open[j]

(* A completed marker still in hand names a finished node without a parent   *)
(* link: what `precede` relies on.                                           *)
LastCompleted ==
    last # 0 => /\ last \in DOMAIN events
                /\ events[last].tag = "Start"
                /\ events[last].kind # TOMBSTONE
                /\ events[last].forward_parent = 0

(* Every forward_parent of the list ev leads from a Start to a later Start.  *)
LinksLand(ev) ==
    \A j \in DOMAIN ev : ev[j].forward_parent # 0 =>
        /\ ev[j].tag = "Start"
        /\ j + ev[j].forward_parent \in DOMAIN ev
        /\ ev[j + ev[j].forward_parent].tag = "Start"

(* No two of them lead to the same Start. *)
LinksInjective(ev) ==
    \A j, k \in DOMAIN ev :
        /\ ev[j].forward_parent # 0 /\ ev[k].forward_parent # 0
        /\ j + ev[j].forward_parent = k + ev[k].forward_parent
        => j = k

(* The list handed to resolve_events is well linked whatever the grammar     *)
(* did: chains of forward parents only run over Start events, never over a   *)
(* Tombstone left by `abandon`, and never join (marker.rs 46-89).            *)
LinksSound == LinksLand(events) /\ LinksInjective(events)

ParserInv == ParserTypeOK /\ MarkersLive /\ LastCompleted /\ LinksSound

================================================================================
