----------------------------- MODULE SyntaxPipeline -----------------------------
(***************************************************************************)
(* `spar_syntax::parse` end to end: the grammar records events             *)
(* (ParserEvents), `resolve_events` turns forward_parent links into plain  *)
(* nesting, and `build_tree` feeds rowan's GreenNodeBuilder, weaving the   *)
(* trivia back in.                                                         *)
(*                                                                         *)
(* A tree is its bracket sequence, which is what GreenNodeBuilder is given:*)
(* [open k], [tok i] (the raw token i), [close].  `asked` is a history     *)
(* variable: the tree the grammar's calls ask for, computed on a stack of  *)
(* node bodies without events, links or tombstones.                        *)
(***************************************************************************)
EXTENDS ParserEvents, SequencesExt

VARIABLES
    phase,      \* "parse", "resolve", "build" or "done"
    panic,      \* "none", or the panic that ended the run
    work,       \* resolve_events: the event list, consumed entries replaced
    at,         \* resolve_events: the loop index i
    follow,     \* resolve_events: next forward_parent target, 0 if none
    chain,      \* resolve_events: forward_parents, child first
    resolved,   \* resolve_events: the result
    next,       \* build_tree: next resolved event
    depth,      \* build_tree: nodes open in the builder
    nt_pos,     \* build_tree: significant tokens emitted
    raw_pos,    \* build_tree: raw tokens emitted
    roots,      \* children the builder holds outside any node
    out,        \* the calls received by GreenNodeBuilder
    errors,     \* SyntaxErrors: raw tokens before the reported offset
    asked,      \* history: the bodies of the open nodes, outermost first
    lastSize,   \* history: length of the last completed node in its parent
    raised      \* history: raw tokens before the token at which error() ran

resolveVars == <<work, at, follow, chain, resolved>>
buildVars == <<next, depth, nt_pos, raw_pos, roots, out, errors>>
history == <<asked, lastSize, raised>>
vars == <<parserVars, phase, panic, resolveVars, buildVars, history>>

OpenItem(k) == [item |-> "open", kind |-> k, raw |-> 0]
TokItem(k, i) == [item |-> "tok", kind |-> k, raw |-> i]
CloseItem == [item |-> "close", kind |-> "none", raw |-> 0]

Init ==
    /\ ParserInit
    /\ phase = "parse" /\ panic = "none"
    /\ work = <<>> /\ at = 1 /\ follow = 0 /\ chain = <<>> /\ resolved = <<>>
    /\ next = 1 /\ depth = 0 /\ nt_pos = 0 /\ raw_pos = 0
    /\ roots = 0 /\ out = <<>> /\ errors = <<>>
    /\ asked = << <<>> >> /\ lastSize = 0 /\ raised = <<>>

--------------------------------------------------------------------------------
(* The parse phase: every parser call, with what it asks of the tree.        *)

Body == asked[Len(asked)]
Enclosing == SubSeq(asked, 1, Len(asked) - 1)
AddToBody(items) == asked' = Append(Enclosing, Body \o items)

Leaf(n) == TokItem(nth(n), non_trivia_indices[pos + n + 1])
(* Where the parser stands: the raw tokens before the current token. *)
Here == IF at_end THEN Len(tokens) ELSE non_trivia_indices[pos + 1] - 1

ParseStep == phase = "parse" /\ UNCHANGED <<panic, resolveVars, buildVars>>

DoStart ==
    /\ ParseStep
    /\ StartRoot \/ Start
    /\ asked' = Append(asked, <<>>)
    /\ UNCHANGED <<phase, lastSize, raised>>

DoBump ==
    /\ ParseStep
    /\ Bump
    /\ AddToBody(<<Leaf(0)>>)
    /\ UNCHANGED <<phase, lastSize, raised>>

DoError ==
    /\ ParseStep
    /\ Error
    /\ raised' = Append(raised, Here)
    /\ UNCHANGED <<phase, asked, lastSize>>

DoErrRecover(recovery) ==
    /\ ParseStep
    /\ err_recover(recovery)
    /\ AddToBody(IF pos' = pos
                   THEN <<>>
                   ELSE <<OpenItem(ERROR)>> \o [i \in 1..(pos' - pos) |-> Leaf(i - 1)]
                                            \o <<CloseItem>>)
    /\ raised' = Append(raised, Here)
    /\ UNCHANGED <<phase, lastSize>>

DoErrAndBump == DoErrRecover({})

DoComplete(k) ==
    /\ ParseStep
    /\ Complete(k)
    /\ LET node == <<OpenItem(k)>> \o Body \o <<CloseItem>>
       IN  /\ asked' = Append(SubSeq(asked, 1, Len(asked) - 2), asked[Len(asked) - 1] \o node)
           /\ lastSize' = Len(node)
    /\ UNCHANGED <<phase, raised>>

DoPrecede ==
    /\ ParseStep
    /\ Precede
    /\ LET cut == Len(Body) - lastSize
       IN  asked' = Enclosing \o <<SubSeq(Body, 1, cut), SubSeq(Body, cut + 1, Len(Body))>>
    /\ UNCHANGED <<phase, lastSize, raised>>

DoAbandon ==
    /\ ParseStep
    /\ Abandon
    /\ asked' = Append(SubSeq(asked, 1, Len(asked) - 2), asked[Len(asked) - 1] \o Body)
    /\ UNCHANGED <<phase, lastSize, raised>>

(* `Parser::finish` hands the events to `build_tree`, which resolves them.   *)
Finish ==
    /\ phase = "parse" /\ events # <<>> /\ open = <<>>
    /\ phase' = "resolve"
    /\ work' = events
    /\ UNCHANGED <<parserVars, panic, at, follow, chain, resolved, buildVars, history>>

--------------------------------------------------------------------------------
(* resolve_events: `mem::replace` consumes an entry of the list.             *)

Resolving == phase = "resolve" /\ panic = "none" /\ UNCHANGED <<parserVars, buildVars, history>>

(* Mutant: the delta is taken in the child's direction. *)
Target_Backwards(i, e) == IF e.forward_parent = 0 THEN 0 ELSE i - e.forward_parent

Target(i, e) == IF e.forward_parent = 0 THEN 0 ELSE i + e.forward_parent

(* A Start not yet consumed begins a chain with its own kind. *)
ResolveStart ==
    /\ Resolving
    /\ chain = <<>> /\ at <= Len(work)
    /\ work[at].tag = "Start"
    /\ chain' = <<work[at].kind>>
    /\ follow' = Target(at, work[at])
    /\ work' = [work EXCEPT ![at] = TombstoneEvent]
    /\ UNCHANGED <<phase, panic, at, resolved>>

(* Walk to the next forward parent; anything but a Start is `unreachable!`.  *)
ResolveFollow ==
    /\ Resolving
    /\ chain # <<>> /\ follow # 0
    /\ IF follow \in DOMAIN work /\ work[follow].tag = "Start"
         THEN /\ chain' = Append(chain, work[follow].kind)
              /\ follow' = Target(follow, work[follow])
              /\ work' = [work EXCEPT ![follow] = TombstoneEvent]
              /\ UNCHANGED panic
         ELSE /\ panic' = "forward_parent"
              /\ UNCHANGED <<chain, follow, work>>
    /\ UNCHANGED <<phase, at, resolved>>

(* The elements of s at the positions I, in their order. *)
Kept(s, I) ==
    LET K[i \in 0..Len(s)] == IF i = 0 THEN <<>> ELSE IF i \in I THEN Append(K[i - 1], s[i]) ELSE K[i - 1]
    IN  K[Len(s)]

Committed(kinds) == Kept(kinds, {i \in DOMAIN kinds : kinds[i] # TOMBSTONE})

(* Mutant: child first. *)
ResolveEmit_ChildFirst ==
    /\ Resolving
    /\ chain # <<>> /\ follow = 0
    /\ LET kinds == Committed(chain)
       IN  resolved' = resolved \o [i \in DOMAIN kinds |-> StartEvent(kinds[i])]
    /\ chain' = <<>>
    /\ at' = at + 1
    /\ UNCHANGED <<phase, panic, follow, work>>

(* The chain is complete: emit it parent first, without uncompleted kinds.   *)
ResolveEmit ==
    /\ Resolving
    /\ chain # <<>> /\ follow = 0
    /\ LET kinds == Committed(Reverse(chain))
       IN  resolved' = resolved \o [i \in DOMAIN kinds |-> StartEvent(kinds[i])]
    /\ chain' = <<>>
    /\ at' = at + 1
    /\ UNCHANGED <<phase, panic, follow, work>>

ResolveOther ==
    /\ Resolving
    /\ chain = <<>> /\ at <= Len(work)
    /\ work[at].tag # "Start"
    /\ resolved' = IF work[at].tag = "Tombstone" THEN resolved ELSE Append(resolved, work[at])
    /\ work' = [work EXCEPT ![at] = TombstoneEvent]
    /\ at' = at + 1
    /\ UNCHANGED <<phase, panic, follow, chain>>

ResolveDone ==
    /\ Resolving
    /\ chain = <<>> /\ at > Len(work)
    /\ phase' = "build"
    /\ UNCHANGED <<panic, resolveVars>>

--------------------------------------------------------------------------------
(* build_tree: the resolved events drive the builder, one after the other.   *)

Building == /\ phase = "build" /\ panic = "none" /\ next <= Len(resolved)
            /\ next' = next + 1
            /\ UNCHANGED <<parserVars, phase, resolveVars, history>>

(* The raw tokens from raw_pos up to and including index `to`. *)
RawItems(to) == [i \in 1..(to - raw_pos) |-> TokItem(tokens[raw_pos + i], raw_pos + i)]

(* eat_trivia: up to the next significant token, nothing when there is none. *)
TriviaTo == IF nt_pos < Len(non_trivia_indices)
              THEN non_trivia_indices[nt_pos + 1] - 1
              ELSE raw_pos

(* Trivia goes before the node, except before the root: there it goes inside. *)
BuildStart ==
    /\ Building
    /\ resolved[next].tag = "Start"
    /\ out' = IF depth > 0
                THEN out \o RawItems(TriviaTo) \o <<OpenItem(resolved[next].kind)>>
                ELSE out \o <<OpenItem(resolved[next].kind)>> \o RawItems(TriviaTo)
    /\ raw_pos' = TriviaTo
    /\ depth' = depth + 1
    /\ UNCHANGED <<panic, nt_pos, roots, errors>>

(* Mutant: the cursor skips the raw token behind the one emitted. *)
BuildToken_Ahead ==
    /\ Building
    /\ resolved[next].tag = "Token" /\ nt_pos < Len(non_trivia_indices)
    /\ LET target == non_trivia_indices[nt_pos + 1]
       IN  /\ out' = out \o RawItems(target - 1) \o <<TokItem(resolved[next].kind, target)>>
           /\ raw_pos' = target + 1
    /\ nt_pos' = nt_pos + 1
    /\ UNCHANGED <<panic, depth, roots, errors>>

BuildToken ==
    /\ Building
    /\ resolved[next].tag = "Token"
    /\ IF nt_pos < Len(non_trivia_indices)
         THEN LET target == non_trivia_indices[nt_pos + 1]
              IN  /\ out' = out \o RawItems(target - 1) \o <<TokItem(resolved[next].kind, target)>>
                  /\ raw_pos' = target
                  /\ nt_pos' = nt_pos + 1
                  /\ roots' = IF depth = 0 THEN roots + Len(RawItems(target - 1)) + 1 ELSE roots
         ELSE UNCHANGED <<out, raw_pos, nt_pos, roots>>
    /\ UNCHANGED <<panic, depth, errors>>

(* Mutant: the root is closed without the tokens behind the last event. *)
BuildFinish_DropTail ==
    /\ Building
    /\ resolved[next].tag = "Finish" /\ depth > 0
    /\ depth' = depth - 1
    /\ out' = out \o <<CloseItem>>
    /\ roots' = IF depth = 1 THEN roots + 1 ELSE roots
    /\ UNCHANGED <<panic, raw_pos, nt_pos, errors>>

(* `depth -= 1` on an empty builder is an arithmetic panic.  Closing the     *)
(* root first emits whatever raw tokens are left.                            *)
BuildFinish ==
    /\ Building
    /\ resolved[next].tag = "Finish"
    /\ IF depth = 0
         THEN panic' = "depth" /\ UNCHANGED <<depth, raw_pos, roots, out>>
         ELSE LET upTo == IF depth = 1 THEN Len(tokens) ELSE raw_pos
              IN  /\ depth' = depth - 1
                  /\ out' = out \o RawItems(upTo) \o <<CloseItem>>
                  /\ raw_pos' = upTo
                  /\ roots' = IF depth = 1 THEN roots + 1 ELSE roots
                  /\ UNCHANGED panic
    /\ UNCHANGED <<nt_pos, errors>>

(* Mutant: the offset of the trivia in front of the token. *)
BuildError_AtTrivia ==
    /\ Building
    /\ resolved[next].tag = "Error"
    /\ errors' = Append(errors, raw_pos)
    /\ UNCHANGED <<panic, depth, nt_pos, raw_pos, roots, out>>

BuildError ==
    /\ Building
    /\ resolved[next].tag = "Error"
    /\ errors' = Append(errors, IF nt_pos < Len(non_trivia_indices)
                                  THEN non_trivia_indices[nt_pos + 1] - 1
                                  ELSE Len(tokens))
    /\ UNCHANGED <<panic, depth, nt_pos, raw_pos, roots, out>>

(* `builder.finish()` (rowan) demands exactly one finished root node. *)
BuildDone ==
    /\ phase = "build" /\ panic = "none" /\ next > Len(resolved)
    /\ phase' = "done"
    /\ panic' = IF depth = 0 /\ roots = 1 THEN "none" ELSE "roots"
    /\ UNCHANGED <<parserVars, resolveVars, buildVars, history>>

(* A finished (or panicked) parse has no further step of its own. *)
Terminated ==
    /\ phase = "done" \/ panic # "none"
    /\ UNCHANGED vars

Next ==
    \/ DoStart
    \/ DoBump
    \/ DoError
    \/ \E R \in SUBSET TokenKinds \ {{}} : DoErrRecover(R)
    \/ DoErrAndBump
    \/ \E k \in NodeKinds \cup {SOURCE_FILE} : DoComplete(k)
    \/ DoPrecede
    \/ DoAbandon
    \/ Finish
    \/ ResolveStart \/ ResolveFollow \/ ResolveEmit \/ ResolveOther \/ ResolveDone
    \/ BuildStart \/ BuildToken \/ BuildFinish \/ BuildError \/ BuildDone
    \/ Terminated

Spec == Init /\ [][Next]_vars

--------------------------------------------------------------------------------
(* Every variable keeps the shape its Rust counterpart has. *)
TypeOK ==
    /\ ParserTypeOK
    /\ work \in Seq(Event) /\ resolved \in Seq(Event)
    /\ phase \in {"parse", "resolve", "build", "done"}
    /\ panic \in {"none", "forward_parent", "depth", "roots"}
    /\ at \in Nat /\ follow \in Nat /\ chain \in Seq(EventKinds)
    /\ depth \in Nat /\ roots \in Nat /\ next \in Nat
    /\ nt_pos \in 0..Len(non_trivia_indices) /\ raw_pos \in 0..Len(tokens)

(* No order of parser calls the grammar may make leads resolve_events to the *)
(* `unreachable!` of a forward_parent that is not a Start (parsing.rs 88-97),*)
(* build_tree to the underflow of `depth -= 1` (parsing.rs 225), or rowan to *)
(* its assertion that one root is left (parsing.rs 257).                     *)
NeverPanics == panic = "none"

(* The resolver's part of it, inductive: the unconsumed part of the list     *)
(* stays well linked, everything before the loop index is consumed, and the  *)
(* next chain target is an unconsumed Start nobody else leads to.            *)
ResolverInv ==
    /\ at \in Nat \ {0} /\ follow \in Nat
    /\ work \in Seq(Event)
    /\ phase = "parse" => at = 1 /\ follow = 0 /\ chain = <<>> /\ work = <<>>
    /\ LinksLand(work) /\ LinksInjective(work)
    /\ \A j \in DOMAIN work : j < at \/ (chain # <<>> /\ j = at) => work[j].tag # "Start"
    /\ follow # 0 =>
          /\ follow \in DOMAIN work
          /\ work[follow].tag = "Start"
          /\ \A j \in DOMAIN work :
                work[j].forward_parent # 0 => j + work[j].forward_parent # follow
    /\ panic # "forward_parent"

PipelineInv == ParserInv /\ ResolverInv

(* The green tree, trivia aside, is the tree the grammar's calls ask for:    *)
(* every node wraps what was consumed between its start and its completion,  *)
(* a preceding node wraps the completed one, an abandoned one leaves its     *)
(* children to its parent (marker.rs 27-90, parsing.rs 70-260).              *)
TreeAsAsked ==
    phase = "done" => Kept(out, {i \in DOMAIN out : out[i].kind # Trivia}) = asked[1]

(* The text keeps its place: the leaves are the raw tokens, each exactly     *)
(* once, in source order and with the lexer's kind, whatever the grammar     *)
(* did; and whitespace or comments neither open nor close a node other than  *)
(* the root, whose range is thus that of significant tokens (build_tree).    *)
TextInPlace ==
    phase = "done" =>
        /\ Kept(out, {i \in DOMAIN out : out[i].item = "tok"})
              = [i \in 1..Len(tokens) |-> TokItem(tokens[i], i)]
        /\ \A i \in 2..(Len(out) - 2) :
              /\ out[i].item = "open" => out[i + 1].kind # Trivia
              /\ out[i + 1].item = "close" => out[i].kind # Trivia

(* A syntax error is reported at the token the parser was looking at when it *)
(* raised it, although the offset is recomputed much later from the builder's*)
(* own cursor (parsing.rs 239-252).                                          *)
ErrorsWhereRaised == phase = "done" => errors = raised

================================================================================
