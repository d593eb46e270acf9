--------------------------- MODULE LspWorkspaceProofs ---------------------------
(***************************************************************************)
(* What the language server keeps true for any workspace, any texts and    *)
(* any number of operations and of messages in flight: names resolve       *)
(* against the texts it holds, the diagnostics on screen are those of the  *)
(* text it holds, requests are answered from the editor's text, and a file *)
(* that is not open follows the disk outside the three recorded windows.   *)
(*                                                                         *)
(* The argument is about what the messages in flight will do to a file:    *)
(* only the last one that is about it matters, once it is handled.         *)
(***************************************************************************)
EXTENDS LspWorkspace, WellFoundedInduction, TLAPS

--------------------------------------------------------------------------------
(* Messages in flight, and what they will do to a file.                      *)

Change == {"CREATED", "CHANGED", "DELETED"} \X Files

Message ==
    [method : {"didOpen", "didChange", "request"}, file : Files, text : Texts]
    \cup [method : {"didSave", "didClose"}, file : Files]
    \cup [method : {"didChangeWatchedFiles"}, changes : Seq(Change)]
    \cup [method : {"shutdown"}]

(* m opens, changes or closes the document f. *)
Document(m, f) == m.method \in {"didOpen", "didChange", "didClose"} /\ m.file = f

(* m gives the server a text for f. *)
Text(m, f) == m.method \in {"didOpen", "didChange"} /\ m.file = f

Mentions(changes, f) == \E k \in DOMAIN changes : changes[k][2] = f

(* m tells the server that f changed on disk. *)
Watch(m, f) == m.method = "didChangeWatchedFiles" /\ Mentions(m.changes, f)

(* With known files fs and open documents os, and having handled the first   *)
(* n messages of q, the server has f open with a text in T.                  *)
OpenWith(q, fs, os, f, n, T) ==
    \/ \E j \in 1..n : /\ Text(q[j], f) /\ q[j].text \in T
                       /\ \A k \in (j + 1)..n : ~ Document(q[k], f)
    \/ /\ \A k \in 1..n : ~ Document(q[k], f)
       /\ f \in os /\ fs[f] \in T

(* ... it does not have f open. *)
ClosedAfter(q, os, f, n) ==
    /\ \A j \in 1..n : Text(q[j], f) => \E k \in (j + 1)..n : Document(q[k], f)
    /\ (\A k \in 1..n : ~ Document(q[k], f)) => f \notin os

(* The last event about f in a batch says whether f exists in d. *)
LastTells(changes, f, d) ==
    \A k \in DOMAIN changes :
        (changes[k][2] = f /\ \A l \in DOMAIN changes : l > k => changes[l][2] # f)
            => (changes[k][1] = "DELETED" <=> d = Nothing)

(* Message i of q is the last that changes what the server holds of f. *)
LastAbout(q, f, i) ==
    /\ Text(q[i], f) \/ Watch(q[i], f)
    /\ \A k \in DOMAIN q : k > i => ~ Text(q[k], f) /\ ~ Watch(q[k], f)

--------------------------------------------------------------------------------
(* The inductive invariant.                                                  *)

WorldTypes ==
    /\ disk \in [Files -> Maybe] /\ buffer \in [Files -> Maybe]
    /\ shown \in [Files -> Maybe]
    /\ unsent \in Seq(Change) /\ queue \in Seq(Message)
    /\ missed \in [Files -> {"no", "unwatched", "discarded", "skipped"}]

ServerTypes ==
    /\ mode \in {"scan", "run", "stopped"}
    /\ toScan \in SUBSET Files /\ open_files \in SUBSET Files
    /\ watching \in BOOLEAN
    /\ files \in [Files -> Maybe] /\ global_scope \in [Files -> Maybe]

(* Nothing is open or watched during the scan, and no event precedes the     *)
(* registration of the watcher.                                              *)
Phases ==
    /\ mode = "scan" => open_files = {} /\ ~ watching
    /\ ~ watching => /\ unsent = <<>>
                     /\ \A i \in DOMAIN queue : queue[i].method # "didChangeWatchedFiles"

(* A change or a request reaches a server that has the document open, the    *)
(* request with the text the editor had when it asked.                       *)
InOrder ==
    \A i \in DOMAIN queue :
        /\ queue[i].method = "didChange" =>
               OpenWith(queue, files, open_files, queue[i].file, i - 1, Maybe)
        /\ queue[i].method = "request" =>
               OpenWith(queue, files, open_files, queue[i].file, i - 1, {queue[i].text, Nothing})

(* The messages in flight bring the server to what the editor has open. *)
InStep ==
    \A f \in Files :
        /\ buffer[f] # Nothing =>
               OpenWith(queue, files, open_files, f, Len(queue), {buffer[f], Nothing})
        /\ buffer[f] = Nothing => ClosedAfter(queue, open_files, f, Len(queue))

(* The last event about f still to be handled, in u or else in the messages  *)
(* q, says whether f exists in d.                                            *)
PendingTells(q, u, f, d) ==
    /\ LastTells(u, f, d)
    /\ ~ Mentions(u, f) =>
         \A i \in DOMAIN q :
             (Watch(q[i], f) /\ \A k \in DOMAIN q : k > i => ~ Watch(q[k], f))
                 => LastTells(q[i].changes, f, d)

EventsTell == \A f \in Files : PendingTells(queue, unsent, f, disk[f])

(* What the server holds of f, or will hold once it has handled q and u and  *)
(* scanned ts, is in T, or is read from disk then.                           *)
Follows(q, u, fs, ts, f, T) ==
    \/ Mentions(u, f)
    \/ \E i \in DOMAIN q : LastAbout(q, f, i) /\ (Text(q[i], f) => q[i].text \in T)
    \/ /\ \A i \in DOMAIN q : ~ Text(q[i], f) /\ ~ Watch(q[i], f)
       /\ f \in ts \/ fs[f] \in T

(* The text on disk and the editor's. *)
Current(f) == {disk[f]} \cup ({buffer[f]} \ {Nothing})

(* Of a file it has not missed a change of, the server has one of the two. *)
Followed ==
    \A f \in Files : missed[f] = "no" => Follows(queue, unsent, files, toScan, f, Current(f))

(* The main loop starts when everything is scanned. *)
ScansFirst == mode # "scan" => toScan = {}

Typed == WorldTypes /\ ServerTypes /\ Phases
Ordered == InOrder /\ InStep /\ AnswersFromEditorText
Tracked == EventsTell /\ Followed

--------------------------------------------------------------------------------
(* Types and phases.                                                         *)

(* The messages and the changes that the actions build are well formed. *)
LEMMA Messages ==
    /\ \A f \in Files, t \in Texts :
         /\ [method |-> "didOpen", file |-> f, text |-> t] \in Message
         /\ [method |-> "didChange", file |-> f, text |-> t] \in Message
         /\ [method |-> "request", file |-> f, text |-> t] \in Message
    /\ \A f \in Files : /\ [method |-> "didSave", file |-> f] \in Message
                        /\ [method |-> "didClose", file |-> f] \in Message
    /\ \A c \in Seq(Change) : [method |-> "didChangeWatchedFiles", changes |-> c] \in Message
    /\ [method |-> "shutdown"] \in Message
BY DEF Message

(* The fields of a message, by its method. *)
LEMMA Fields ==
    ASSUME NEW m \in Message
    PROVE  /\ m.method \in {"didOpen", "didChange", "request"} => m.file \in Files /\ m.text \in Texts
           /\ m.method \in {"didSave", "didClose"} => m.file \in Files
           /\ m.method = "didChangeWatchedFiles" => m.changes \in Seq(Change)
BY DEF Message

(* The largest index of a nonempty set of positions of a sequence. *)
LEMMA LastIndex ==
    ASSUME NEW n \in Nat, NEW S \in SUBSET (1..n), S # {}
    PROVE  \E x \in S : \A y \in S : y <= x
<1> DEFINE R == OpToRel(<, Nat)
<1> DEFINE T == {n - x : x \in S}
<1>1. T \in SUBSET Nat /\ T # {}
  <2>1. \A x \in S : x \in 1..n
    OBVIOUS
  <2>2. \A x \in S : n - x \in Nat
    BY <2>1
  <2> QED
    BY <2>2
<1>2. IsWellFoundedOn(R, Nat)
  BY NatLessThanWellFounded
<1> HIDE DEF R, T
<1>3. PICK d \in T : \A e \in T : ~ (<<e, d>> \in R)
  BY <1>1, <1>2, WFMin
<1>4. \A e \in T : d <= e
  <2>1. \A e \in T : ~ (e < d)
    BY <1>1, <1>3 DEF R, OpToRel
  <2> QED
    BY <1>1, <2>1
<1>5. PICK x \in S : d = n - x
  BY <1>3 DEF T
<1>6. \A y \in S : y <= x
  <2> SUFFICES ASSUME NEW y \in S PROVE y <= x
    OBVIOUS
  <2>1. n - y \in T
    BY DEF T
  <2>2. x \in 1..n /\ y \in 1..n
    OBVIOUS
  <2> QED
    BY <1>4, <1>5, <2>1, <2>2
<1> QED
  BY <1>5, <1>6

(* What a batch makes of a file is decided by the last of its entries that   *)
(* applies.                                                                  *)
LEMMA AfterChangesLast ==
    ASSUME NEW changes \in Seq(Change), NEW f \in Files
    PROVE  \/ /\ \A k \in DOMAIN changes : ~ (changes[k][2] = f /\ Applies(changes[k]))
              /\ AfterChanges(changes)[f] = files[f]
           \/ \E k \in DOMAIN changes :
                 /\ changes[k][2] = f /\ Applies(changes[k])
                 /\ \A l \in DOMAIN changes : l > k => ~ (changes[l][2] = f /\ Applies(changes[l]))
                 /\ AfterChanges(changes)[f] = ApplyChange(changes[k])
<1> DEFINE applied == {i \in DOMAIN changes : changes[i][2] = f /\ Applies(changes[i])}
<1>1. AfterChanges(changes)[f]
        = IF applied = {} THEN files[f] ELSE ApplyChange(changes[Max(applied)])
  BY DEF AfterChanges
<1>2. CASE applied = {}
  BY <1>1, <1>2
<1>3. CASE applied # {}
  <2>1. Len(changes) \in Nat /\ applied \in SUBSET (1..Len(changes))
    OBVIOUS
  <2> HIDE DEF applied
  <2>2. \E x \in applied : \A y \in applied : y <= x
    BY <1>3, <2>1, LastIndex
  <2>3. \E x \in applied : \A y \in applied : x >= y
    BY <2>1, <2>2
  <2>4. Max(applied) \in applied /\ \A y \in applied : Max(applied) >= y
    BY <2>3 DEF Max
  <2>6. \A y \in applied : y \in Int
    BY <2>1
  <2>7. Max(applied) \in Int
    BY <2>4, <2>6
  <2>5. \A y \in applied : ~ (y > Max(applied))
    BY <2>4, <2>6, <2>7
  <2> QED
    BY <1>1, <1>3, <2>4, <2>5 DEF applied
<1> QED
  BY <1>2, <1>3

(* A batch leaves each file with a text, or without one; an open document    *)
(* keeps its text or is removed.                                             *)
LEMMA AfterChangesType ==
    ASSUME NEW changes \in Seq(Change), Typed
    PROVE  /\ AfterChanges(changes) \in [Files -> Maybe]
           /\ \A f \in open_files : AfterChanges(changes)[f] \in {files[f], Nothing}
<1>1. open_files \in SUBSET Files /\ files \in [Files -> Maybe] /\ disk \in [Files -> Maybe]
  BY DEF Typed, WorldTypes, ServerTypes
<1>2. ASSUME NEW f \in Files
      PROVE  /\ AfterChanges(changes)[f] \in Maybe
             /\ f \in open_files => AfterChanges(changes)[f] \in {files[f], Nothing}
  BY <1>1, AfterChangesLast DEF ApplyChange, Applies, Maybe
<1>3. AfterChanges(changes) = [f \in Files |-> AfterChanges(changes)[f]]
  BY DEF AfterChanges
<1> QED
  BY <1>1, <1>2, <1>3

(* A batch none of whose entries applies changes no file. *)
LEMMA UnappliedBatch ==
    ASSUME NEW changes \in Seq(Change), Typed,
           ~ \E i \in DOMAIN changes : Applies(changes[i])
    PROVE  AfterChanges(changes) = files
<1>1. \A f \in Files : {i \in DOMAIN changes : changes[i][2] = f /\ Applies(changes[i])} = {}
  OBVIOUS
<1>2. \A f \in Files : AfterChanges(changes)[f] = files[f]
  BY <1>1 DEF AfterChanges
<1>3. AfterChanges(changes) = [f \in Files |-> AfterChanges(changes)[f]]
  BY DEF AfterChanges
<1> QED
  BY <1>2, <1>3 DEF Typed, ServerTypes

(* Sending a message leaves the queue well formed, and adds no watcher event *)
(* unless the message is one.                                                *)
LEMMA SendTyped ==
    ASSUME Typed, NEW m \in Message, Send(m)
    PROVE  /\ queue' \in Seq(Message)
           /\ m.method # "didChangeWatchedFiles" =>
                (~ watching => \A i \in DOMAIN queue' : queue'[i].method # "didChangeWatchedFiles")
BY DEF Typed, WorldTypes, Phases, Send

(* So does handling one; the message handled is a message. *)
LEMMA ReceiveTyped ==
    ASSUME Typed, NEW method, Receive(method)
    PROVE  /\ Head(queue) \in Message /\ queue[1] = Head(queue)
           /\ queue' \in Seq(Message)
           /\ Len(queue') = Len(queue) - 1
           /\ \A i \in 1..Len(queue') : queue'[i] = queue[i + 1]
           /\ mode = "run" /\ Head(queue).method = method
           /\ ~ watching => \A i \in DOMAIN queue' : queue'[i].method # "didChangeWatchedFiles"
BY DEF Typed, WorldTypes, Phases, Receive

(* A change on disk keeps the types; an event is recorded only by a watcher. *)
LEMMA DiskChangeTyped ==
    ASSUME Typed, NEW type \in {"CREATED", "CHANGED", "DELETED"}, NEW f \in Files,
           NEW c \in Maybe, DiskChange(type, f, c)
    PROVE  /\ disk' \in [Files -> Maybe] /\ unsent' \in Seq(Change)
           /\ missed' \in [Files -> {"no", "unwatched", "discarded", "skipped"}]
           /\ ~ watching => unsent' = <<>>
<1>1. <<type, f>> \in Change
  BY DEF Change
<1> QED
  BY <1>1 DEF Typed, WorldTypes, Phases, DiskChange

LEMMA MissesTyped ==
    ASSUME Typed, NEW S, NEW why \in {"unwatched", "discarded", "skipped"}
    PROVE  Misses(S, why) \in [Files -> {"no", "unwatched", "discarded", "skipped"}]
BY DEF Typed, WorldTypes, Misses

LEMMA PublishTyped ==
    ASSUME Typed, NEW S, NEW fs \in [Files -> Maybe], Publish(S, fs)
    PROVE  shown' \in [Files -> Maybe]
BY DEF Typed, WorldTypes, Publish

LEMMA TypedStep ==
    ASSUME Typed, [Next]_vars
    PROVE  Typed'
<1> USE DEF Typed, WorldTypes, ServerTypes, Phases
<1>0. \A t \in Texts : t \in Maybe /\ t # Nothing
  BY LspAssumption DEF Maybe
<1>a. \A f \in Files : /\ buffer[f] # Nothing => buffer[f] \in Texts
                       /\ disk[f] # Nothing => disk[f] \in Texts
                       /\ WriteType(f) \in {"CREATED", "CHANGED", "DELETED"}
  BY DEF Maybe, WriteType
<1>1. ASSUME NEW f \in Files, NEW t \in Texts, WriteOutside(f, t) PROVE Typed'
  BY <1>0, <1>a, <1>1, DiskChangeTyped DEF WriteOutside, Act, serverVars
<1>2. ASSUME NEW f \in Files, NEW t \in Texts, Edit(f, t) PROVE Typed'
  BY <1>0, <1>a, <1>2, SendTyped, Messages DEF Edit, Act, serverVars
<1>3. ASSUME NEW f \in Files, DeleteOutside(f) PROVE Typed'
  BY <1>3, DiskChangeTyped DEF DeleteOutside, Act, serverVars, Maybe
<1>4. ASSUME NEW f \in Files, Open(f) PROVE Typed'
  BY <1>a, <1>4, SendTyped, Messages DEF Open, Act, serverVars
<1>5. ASSUME NEW f \in Files, Save(f) PROVE Typed'
  BY <1>a, <1>5, SendTyped, Messages, DiskChangeTyped DEF Save, Act, serverVars
<1>6. ASSUME NEW f \in Files, Close(f) PROVE Typed'
  BY <1>a, <1>6, SendTyped, Messages, MissesTyped DEF Close, Act, serverVars, Maybe
<1>7. ASSUME NEW f \in Files, Ask(f) PROVE Typed'
  BY <1>a, <1>7, SendTyped, Messages DEF Ask, Act, serverVars
<1>8. CASE Shutdown
  BY <1>8, SendTyped, Messages DEF Shutdown, Act, serverVars
<1>9. CASE Announce
  BY <1>9, SendTyped, Messages DEF Announce, serverVars
<1>10. CASE RegisterWatcher
  BY <1>10 DEF RegisterWatcher, serverVars, worldVars
<1>11. ASSUME NEW f \in Files, ScanFile(f) PROVE Typed'
  BY <1>11 DEF ScanFile, worldVars
<1>12. CASE ScanDone
  BY <1>12 DEF ScanDone, worldVars
<1>13. CASE did_open
  BY <1>13, ReceiveTyped, Fields, PublishTyped DEF did_open, worldVars, Receive, Maybe
<1>14. CASE did_change
  BY <1>14, ReceiveTyped, Fields, PublishTyped DEF did_change, worldVars, Receive, Maybe
<1>15. CASE did_save
  BY <1>15, ReceiveTyped, Fields, PublishTyped DEF did_save, worldVars, Receive
<1>16. CASE did_close
  BY <1>16, ReceiveTyped, Fields DEF did_close, worldVars, Receive
<1>17. CASE handle_watched_file_changes
  <2>1. Receive("didChangeWatchedFiles") /\ Typed
    BY <1>17 DEF handle_watched_file_changes
  <2>2. Head(queue).changes \in Seq(Change)
    BY <2>1, ReceiveTyped, Fields
  <2>3. files' \in [Files -> Maybe]
    BY <1>17, <2>2, AfterChangesType DEF handle_watched_file_changes
  <2>4. shown' \in [Files -> Maybe] /\ global_scope' \in [Files -> Maybe]
    BY <1>17, <2>1, <2>3, PublishTyped DEF handle_watched_file_changes
  <2>5. missed' \in [Files -> {"no", "unwatched", "discarded", "skipped"}]
    BY <1>17, <2>1, MissesTyped DEF handle_watched_file_changes
  <2>6. UNCHANGED <<disk, buffer, unsent, mode, toScan, open_files, watching>>
    BY <1>17, <2>1 DEF handle_watched_file_changes, worldVars, Receive
  <2> QED
    BY <2>1, <2>3, <2>4, <2>5, <2>6, ReceiveTyped
<1>18. CASE handle_request
  BY <1>18, ReceiveTyped DEF handle_request, worldVars, Receive
<1>19. CASE handle_shutdown
  BY <1>19, ReceiveTyped DEF handle_shutdown, worldVars, Receive
<1>20. CASE UNCHANGED vars
  BY <1>20 DEF vars, worldVars, serverVars
<1> QED
  BY <1>1, <1>2, <1>3, <1>4, <1>5, <1>6, <1>7, <1>8, <1>9, <1>10, <1>11, <1>12, <1>13,
     <1>14, <1>15, <1>16, <1>17, <1>18, <1>19, <1>20 DEF Next, Server

(* The server's state and the messages in flight are well formed, nothing is *)
(* open during the scan, and no watcher event precedes the registration.     *)
THEOREM TypedInvariant == Spec => []Typed
<1>1. Init => Typed
  <2> SUFFICES ASSUME Init PROVE Typed
    OBVIOUS
  <2>1. unsent \in Seq(Change) /\ queue \in Seq(Message)
    BY DEF Init
  <2>2. Phases
    BY DEF Init, Phases
  <2>3. ServerTypes
    BY DEF Init, ServerTypes, Maybe
  <2> QED
    BY <2>1, <2>2, <2>3 DEF Init, Typed, WorldTypes, Maybe
<1>2. Typed /\ [Next]_vars => Typed'
  BY TypedStep
<1> QED
  BY <1>1, <1>2, PTL DEF Spec

--------------------------------------------------------------------------------
(* The scope and the diagnostics.                                            *)

(* The handler of watcher events, its two outcomes apart. *)
LEMMA Watched ==
    ASSUME Typed, handle_watched_file_changes
    PROVE  LET c == Head(queue).changes
           IN  /\ c \in Seq(Change)
               /\ files' = AfterChanges(c)
               /\ mode = "run"
               /\ UNCHANGED <<disk, buffer, unsent, mode, toScan, open_files, answer, watching>>
               /\ \/ global_scope' = files' /\ Publish(open_files, files')
                  \/ files' = files /\ UNCHANGED <<global_scope, shown>>
               /\ missed' = Misses({f \in open_files : Mentions(c, f) /\ files'[f] # disk[f]},
                                   "skipped")
<1> DEFINE c == Head(queue).changes
<1>1. Receive("didChangeWatchedFiles")
  BY DEF handle_watched_file_changes
<1>2. c \in Seq(Change) /\ mode = "run"
  BY <1>1, ReceiveTyped, Fields
<1>3. files' = AfterChanges(c)
  BY DEF handle_watched_file_changes
<1>4. UNCHANGED <<disk, buffer, unsent, mode, toScan, open_files, answer, watching>>
  BY <1>1 DEF handle_watched_file_changes, Receive, worldVars
<1>5. \/ global_scope' = files' /\ Publish(open_files, files')
      \/ files' = files /\ UNCHANGED <<global_scope, shown>>
  <2>1. CASE \E i \in DOMAIN c : Applies(c[i])
    BY <2>1 DEF handle_watched_file_changes
  <2>2. CASE ~ \E i \in DOMAIN c : Applies(c[i])
    <3>1. files' = files
      BY <1>2, <1>3, <2>2, UnappliedBatch
    <3> QED
      BY <2>2, <3>1 DEF handle_watched_file_changes
  <2> QED
    BY <2>1, <2>2
<1>6. missed' = Misses({f \in open_files : Mentions(c, f) /\ files'[f] # disk[f]}, "skipped")
  BY DEF handle_watched_file_changes, Mentions
<1> QED
  BY <1>2, <1>3, <1>4, <1>5, <1>6

(* The global scope is rebuilt by every handler that changes a text: names   *)
(* resolve against the texts the server holds (lsp.rs 215-241, 439).         *)
THEOREM ScopeIsCurrent == Spec => []ScopeCurrent
<1>1. Init => ScopeCurrent
  BY DEF Init, ScopeCurrent
<1>2. Typed /\ ScopeCurrent /\ [Next]_vars => ScopeCurrent'
  <2> SUFFICES ASSUME Typed, ScopeCurrent, [Next]_vars, mode' = "run"
               PROVE  global_scope' = files'
    BY DEF ScopeCurrent
  <2> USE DEF ScopeCurrent
  <2>1. ASSUME NEW f \in Files, NEW t \in Texts, WriteOutside(f, t) \/ Edit(f, t)
        PROVE  global_scope' = files'
    BY <2>1 DEF WriteOutside, Edit, Act, serverVars
  <2>2. ASSUME NEW f \in Files, DeleteOutside(f) \/ Open(f) \/ Save(f) \/ Close(f) \/ Ask(f)
        PROVE  global_scope' = files'
    BY <2>2 DEF DeleteOutside, Open, Save, Close, Ask, Act, serverVars
  <2>3. CASE Shutdown \/ Announce \/ RegisterWatcher \/ UNCHANGED vars
    BY <2>3 DEF Shutdown, Announce, RegisterWatcher, Act, serverVars, vars
  <2>4. CASE ScanDone \/ \E f \in Files : ScanFile(f)
    BY <2>4 DEF ScanDone, ScanFile
  <2>5. CASE did_open \/ did_change \/ did_save \/ did_close \/ handle_request \/ handle_shutdown
    BY <2>5 DEF did_open, did_change, did_save, did_close, handle_request, handle_shutdown, Receive
  <2>6. CASE handle_watched_file_changes
    BY <2>6, Watched
  <2> QED
    BY <2>1, <2>2, <2>3, <2>4, <2>5, <2>6 DEF Next, Server
<1> QED
  BY <1>1, <1>2, TypedInvariant, PTL DEF Spec

(* The diagnostics on screen for an open document the server knows are those *)
(* of the text it holds (publish_diagnostics and its callers, lsp.rs 367-443).*)
THEOREM DiagnosticsAreCurrent == Spec => []DiagnosticsCurrent
<1>1. Init => DiagnosticsCurrent
  BY DEF Init, DiagnosticsCurrent
<1>2. Typed /\ DiagnosticsCurrent /\ [Next]_vars => DiagnosticsCurrent'
  <2> SUFFICES ASSUME Typed, DiagnosticsCurrent, [Next]_vars,
                      NEW g \in open_files', files'[g] # Nothing
               PROVE  shown'[g] = files'[g]
    BY DEF DiagnosticsCurrent
  <2> USE DEF DiagnosticsCurrent
  <2>0. open_files \in SUBSET Files /\ files \in [Files -> Maybe]
    BY DEF Typed, ServerTypes
  <2>1. ASSUME NEW f \in Files, NEW t \in Texts, WriteOutside(f, t) \/ Edit(f, t)
        PROVE  shown'[g] = files'[g]
    BY <2>1 DEF WriteOutside, Edit, Act, serverVars
  <2>2. ASSUME NEW f \in Files, DeleteOutside(f) \/ Open(f) \/ Save(f) \/ Close(f) \/ Ask(f)
        PROVE  shown'[g] = files'[g]
    BY <2>2 DEF DeleteOutside, Open, Save, Close, Ask, Act, serverVars
  <2>3. CASE Shutdown \/ Announce \/ RegisterWatcher \/ UNCHANGED vars
    BY <2>3 DEF Shutdown, Announce, RegisterWatcher, Act, serverVars, vars
  <2>4. CASE ScanDone
    BY <2>4 DEF ScanDone
  <2>5. ASSUME NEW f \in Files, ScanFile(f) PROVE shown'[g] = files'[g]
    BY <2>5 DEF ScanFile, Typed, Phases
  <2>6. CASE did_open \/ did_change
    <3>1. Head(queue).file \in Files
      BY <2>6, ReceiveTyped, Fields DEF did_open, did_change
    <3>2. g \in Files
      BY <2>0, <2>6, <3>1 DEF did_open, did_change
    <3> QED
      BY <2>0, <2>6, <3>1, <3>2 DEF did_open, did_change, Publish
  <2>7. CASE did_save
    BY <2>0, <2>7 DEF did_save, Publish
  <2>8. CASE did_close \/ handle_request \/ handle_shutdown
    BY <2>8 DEF did_close, handle_request, handle_shutdown
  <2>9. CASE handle_watched_file_changes
    BY <2>0, <2>9, Watched DEF Publish
  <2> QED
    BY <2>1, <2>2, <2>3, <2>4, <2>5, <2>6, <2>7, <2>8, <2>9 DEF Next, Server
<1> QED
  BY <1>1, <1>2, TypedInvariant, PTL DEF Spec

--------------------------------------------------------------------------------
(* The editor's text: the messages in flight bring the server in step.       *)

(* A message behind the first n changes nothing about what those will do; a  *)
(* message that is not about the document f changes nothing for f.           *)
LEMMA OpenWithAppend ==
    ASSUME NEW q \in Seq(Message), NEW m \in Message, NEW fs, NEW os, NEW f, NEW T,
           NEW n \in 0..Len(q), OpenWith(q, fs, os, f, n, T)
    PROVE  /\ OpenWith(Append(q, m), fs, os, f, n, T)
           /\ n = Len(q) /\ ~ Document(m, f) => OpenWith(Append(q, m), fs, os, f, n + 1, T)
<1> DEFINE r == Append(q, m)
<1>1. \A k \in 1..Len(q) : r[k] = q[k]
  OBVIOUS
<1>2. r[Len(q) + 1] = m /\ Len(q) \in Nat
  OBVIOUS
<1> HIDE DEF r
<1> SUFFICES /\ OpenWith(r, fs, os, f, n, T)
             /\ n = Len(q) /\ ~ Document(m, f) => OpenWith(r, fs, os, f, n + 1, T)
  BY DEF r
<1>3. \A k \in 1..n : r[k] = q[k] /\ k \in 1..(n + 1)
  BY <1>1, <1>2
<1>4. n = Len(q) /\ ~ Document(m, f) => ~ Document(r[n + 1], f)
  BY <1>2
<1>5. \A j \in 1..n : \A k \in (j + 1)..n : k \in 1..n
  BY <1>2
<1>6. \A j \in 1..n : \A k \in (j + 1)..(n + 1) : k \in (j + 1)..n \/ k = n + 1
  BY <1>2
<1>7. \A k \in 1..(n + 1) : k \in 1..n \/ k = n + 1
  BY <1>2
<1>8. CASE \E j \in 1..n : /\ Text(q[j], f) /\ q[j].text \in T
                           /\ \A k \in (j + 1)..n : ~ Document(q[k], f)
  <2>1. PICK j \in 1..n : /\ Text(q[j], f) /\ q[j].text \in T
                          /\ \A k \in (j + 1)..n : ~ Document(q[k], f)
    BY <1>8
  <2>2. Text(r[j], f) /\ r[j].text \in T /\ j \in 1..(n + 1)
    BY <1>3, <2>1
  <2>3. \A k \in (j + 1)..n : ~ Document(r[k], f)
    BY <1>3, <1>5, <2>1
  <2> QED
    BY <1>4, <1>6, <2>2, <2>3 DEF OpenWith
<1>9. CASE (\A k \in 1..n : ~ Document(q[k], f)) /\ f \in os /\ fs[f] \in T
  BY <1>3, <1>4, <1>7, <1>9 DEF OpenWith
<1> QED
  BY <1>8, <1>9 DEF OpenWith

(* The last message decides. *)
LEMMA OpenWithLast ==
    ASSUME NEW q \in Seq(Message), NEW m \in Message, NEW fs, NEW os, NEW f, NEW T,
           Text(m, f), m.text \in T
    PROVE  OpenWith(Append(q, m), fs, os, f, Len(q) + 1, T)
<1>1. /\ Append(q, m)[Len(q) + 1] = m /\ Len(q) + 1 \in 1..(Len(q) + 1)
      /\ (Len(q) + 1 + 1)..(Len(q) + 1) = {}
  OBVIOUS
<1> QED
  BY <1>1 DEF OpenWith

LEMMA ClosedAppend ==
    ASSUME NEW q \in Seq(Message), NEW m \in Message, NEW os, NEW f,
           \/ ClosedAfter(q, os, f, Len(q)) /\ ~ Document(m, f)
           \/ Document(m, f) /\ ~ Text(m, f)
    PROVE  ClosedAfter(Append(q, m), os, f, Len(q) + 1)
<1> DEFINE r == Append(q, m)
<1> DEFINE n == Len(q)
<1>1. (\A k \in 1..n : r[k] = q[k]) /\ r[n + 1] = m /\ n \in Nat
  OBVIOUS
<1> HIDE DEF r, n
<1>2. \A k \in 1..(n + 1) : k \in 1..n \/ k = n + 1
  BY <1>1
<1>3. \A k \in 1..n : k \in 1..(n + 1) /\ n + 1 \in (k + 1)..(n + 1) /\ n + 1 \in 1..(n + 1)
  BY <1>1
<1>4. \A j \in 1..n : \A k \in (j + 1)..n : k \in 1..n /\ k \in (j + 1)..(n + 1)
  BY <1>1
<1>5. n + 1 \in 1..(n + 1)
  BY <1>1
<1>6. ASSUME ClosedAfter(q, os, f, n), ~ Document(m, f) PROVE ClosedAfter(r, os, f, n + 1)
  <2>1. ~ Text(m, f)
    BY <1>6 DEF Text, Document
  <2> QED
    BY <1>1, <1>2, <1>3, <1>4, <1>6, <2>1 DEF ClosedAfter
<1>7. ASSUME Document(m, f), ~ Text(m, f) PROVE ClosedAfter(r, os, f, n + 1)
  BY <1>1, <1>2, <1>3, <1>5, <1>7 DEF ClosedAfter
<1> QED
  BY <1>6, <1>7 DEF r, n

(* Handling the first message: the server then is where that message was to  *)
(* bring it, for the document f.                                             *)
LEMMA OpenWithTail ==
    ASSUME NEW q \in Seq(Message), q # <<>>, NEW fs, NEW os, NEW fs2, NEW os2, NEW f, NEW T,
           NEW n \in 1..Len(q), OpenWith(q, fs, os, f, n, T),
           Text(Head(q), f) /\ Head(q).text \in T => f \in os2 /\ fs2[f] \in T,
           ~ Document(Head(q), f) /\ f \in os /\ fs[f] \in T => f \in os2 /\ fs2[f] \in T
    PROVE  OpenWith(Tail(q), fs2, os2, f, n - 1, T)
<1> DEFINE r == Tail(q)
<1>1. q[1] = Head(q) /\ n \in Nat /\ n - 1 \in Nat
  OBVIOUS
<1>2. \A k \in 1..(n - 1) : r[k] = q[k + 1] /\ k + 1 \in 1..n
  OBVIOUS
<1> HIDE DEF r
<1>3. \A j \in 2..n : j - 1 \in 1..(n - 1) /\ r[j - 1] = q[j]
  BY <1>1, <1>2
<1>4. \A j \in 2..n : \A k \in ((j - 1) + 1)..(n - 1) : k \in 1..(n - 1) /\ k + 1 \in (j + 1)..n
  BY <1>1
<1>5. \A k \in 1..(n - 1) : k + 1 \in (1 + 1)..n
  BY <1>1
<1>6. CASE \E j \in 1..n : /\ Text(q[j], f) /\ q[j].text \in T
                           /\ \A k \in (j + 1)..n : ~ Document(q[k], f)
  <2>1. PICK j \in 1..n : /\ Text(q[j], f) /\ q[j].text \in T
                          /\ \A k \in (j + 1)..n : ~ Document(q[k], f)
    BY <1>6
  <2>2. CASE j = 1
    <3>1. \A k \in 1..(n - 1) : ~ Document(r[k], f)
      BY <1>2, <1>5, <2>1, <2>2
    <3> QED
      BY <1>1, <2>1, <2>2, <3>1 DEF OpenWith, r
  <2>3. CASE j # 1
    <3>1. j \in 2..n
      BY <2>3
    <3>2. \A k \in ((j - 1) + 1)..(n - 1) : ~ Document(r[k], f)
      BY <1>2, <1>4, <2>1, <3>1
    <3>3. j - 1 \in 1..(n - 1) /\ Text(r[j - 1], f) /\ r[j - 1].text \in T
      BY <1>3, <2>1, <3>1
    <3> QED
      BY <3>2, <3>3 DEF OpenWith, r
  <2> QED
    BY <2>2, <2>3
<1>7. CASE (\A k \in 1..n : ~ Document(q[k], f)) /\ f \in os /\ fs[f] \in T
  <2>1. 1 \in 1..n
    OBVIOUS
  <2>2. f \in os2 /\ fs2[f] \in T
    BY <1>1, <1>7, <2>1
  <2>3. \A k \in 1..(n - 1) : ~ Document(r[k], f)
    BY <1>2, <1>7
  <2> QED
    BY <2>2, <2>3 DEF OpenWith, r
<1> QED
  BY <1>6, <1>7 DEF OpenWith

LEMMA ClosedTail ==
    ASSUME NEW q \in Seq(Message), q # <<>>, NEW os, NEW os2, NEW f,
           ClosedAfter(q, os, f, Len(q)),
           Document(Head(q), f) /\ ~ Text(Head(q), f) => f \notin os2,
           ~ Document(Head(q), f) /\ f \notin os => f \notin os2
    PROVE  ClosedAfter(Tail(q), os2, f, Len(q) - 1)
<1> DEFINE r == Tail(q)
<1> DEFINE n == Len(q)
<1>1. q[1] = Head(q) /\ n \in Nat /\ n - 1 \in Nat /\ 1 \in 1..n
  OBVIOUS
<1>2. \A k \in 1..(n - 1) : r[k] = q[k + 1] /\ k + 1 \in 1..n
  OBVIOUS
<1> HIDE DEF r, n
<1>3. \A k \in 1..n : k = 1 \/ (k - 1 \in 1..(n - 1) /\ r[k - 1] = q[k])
  BY <1>1, <1>2
<1>4. ASSUME NEW j \in 1..(n - 1), Text(r[j], f)
      PROVE  \E k \in (j + 1)..(n - 1) : Document(r[k], f)
  <2>1. PICK k \in ((j + 1) + 1)..n : Document(q[k], f)
    BY <1>2, <1>4 DEF ClosedAfter, n
  <2>2. k - 1 \in (j + 1)..(n - 1) /\ k - 1 \in 1..(n - 1) /\ k = (k - 1) + 1
    BY <1>1
  <2>3. Document(r[k - 1], f)
    BY <1>2, <2>1, <2>2
  <2> QED
    BY <2>2, <2>3
<1>5. ASSUME \A k \in 1..(n - 1) : ~ Document(r[k], f) PROVE f \notin os2
  <2>1. \A k \in (1 + 1)..n : k \in 1..n /\ k # 1
    BY <1>1
  <2>2. \A k \in (1 + 1)..n : ~ Document(q[k], f)
    BY <1>3, <1>5, <2>1
  <2>3. ~ Text(q[1], f)
    BY <1>1, <2>2 DEF ClosedAfter, n
  <2>4. CASE Document(q[1], f)
    BY <1>1, <2>3, <2>4
  <2>5. CASE ~ Document(q[1], f)
    <3>1. \A k \in 1..n : ~ Document(q[k], f)
      BY <1>3, <1>5, <2>5
    <3> QED
      BY <1>1, <2>5, <3>1 DEF ClosedAfter, n
  <2> QED
    BY <2>4, <2>5
<1> QED
  BY <1>4, <1>5 DEF ClosedAfter, r, n

(* The first message of the queue finds the server as it is. *)
LEMMA OpenWithNone ==
    ASSUME NEW q, NEW fs, NEW os, NEW f, NEW T, OpenWith(q, fs, os, f, 0, T)
    PROVE  f \in os /\ fs[f] \in T
BY DEF OpenWith

(* Sending a message keeps the order of those before it. *)
LEMMA InOrderSend ==
    ASSUME Typed, InOrder, NEW m \in Message, Send(m), UNCHANGED <<files, open_files>>,
           m.method = "didChange" =>
               OpenWith(queue, files, open_files, m.file, Len(queue), Maybe),
           m.method = "request" =>
               OpenWith(queue, files, open_files, m.file, Len(queue), {m.text, Nothing})
    PROVE  InOrder'
<1>1. queue \in Seq(Message) /\ queue' = Append(queue, m)
  BY DEF Typed, WorldTypes, Send
<1>2. SUFFICES ASSUME NEW i \in DOMAIN queue'
               PROVE  /\ queue'[i].method = "didChange" =>
                            OpenWith(queue', files, open_files, queue'[i].file, i - 1, Maybe)
                      /\ queue'[i].method = "request" =>
                            OpenWith(queue', files, open_files, queue'[i].file, i - 1,
                                     {queue'[i].text, Nothing})
  BY DEF InOrder
<1>3. CASE i \in DOMAIN queue
  <2>1. queue'[i] = queue[i] /\ i - 1 \in 0..Len(queue)
    BY <1>1, <1>3
  <2> QED
    BY <1>1, <1>3, <2>1, OpenWithAppend DEF InOrder
<1>4. CASE i \notin DOMAIN queue
  <2>1. queue'[i] = m /\ i - 1 = Len(queue) /\ Len(queue) \in 0..Len(queue)
    BY <1>1, <1>4
  <2> QED
    BY <1>1, <2>1, OpenWithAppend
<1> QED
  BY <1>3, <1>4

(* A message that tells what the editor did keeps the two in step. *)
LEMMA InStepSend ==
    ASSUME Typed, InStep, NEW m \in Message, Send(m), UNCHANGED <<files, open_files>>,
           \A f \in Files : \/ ~ Document(m, f) /\ buffer'[f] = buffer[f]
                            \/ Text(m, f) /\ buffer'[f] = m.text
                            \/ Document(m, f) /\ ~ Text(m, f) /\ buffer'[f] = Nothing
    PROVE  InStep'
<1>1. /\ queue \in Seq(Message) /\ queue' = Append(queue, m)
      /\ Len(queue') = Len(queue) + 1 /\ Len(queue) \in 0..Len(queue)
  BY DEF Typed, WorldTypes, Send
<1> SUFFICES ASSUME NEW f \in Files
             PROVE  /\ buffer'[f] # Nothing =>
                          OpenWith(queue', files, open_files, f, Len(queue'), {buffer'[f], Nothing})
                    /\ buffer'[f] = Nothing => ClosedAfter(queue', open_files, f, Len(queue'))
  BY DEF InStep
<1>2. CASE ~ Document(m, f) /\ buffer'[f] = buffer[f]
  BY <1>1, <1>2, OpenWithAppend, ClosedAppend DEF InStep
<1>3. CASE Text(m, f) /\ buffer'[f] = m.text
  <2>1. m.text # Nothing
    BY <1>3, Fields, LspAssumption DEF Text
  <2> QED
    BY <1>1, <1>3, <2>1, OpenWithLast
<1>4. CASE Document(m, f) /\ ~ Text(m, f) /\ buffer'[f] = Nothing
  BY <1>1, <1>4, ClosedAppend
<1> QED
  BY <1>2, <1>3, <1>4

(* Handling a message brings the server where the message was to bring it. *)
LEMMA OrderedReceive ==
    ASSUME Typed, InOrder, InStep, NEW method, Receive(method),
           \A f \in Files :
               /\ Text(Head(queue), f) => f \in open_files' /\ files'[f] = Head(queue).text
               /\ Document(Head(queue), f) /\ ~ Text(Head(queue), f) => f \notin open_files'
               /\ ~ Document(Head(queue), f) =>
                     /\ f \in open_files' <=> f \in open_files
                     /\ f \in open_files => files'[f] \in {files[f], Nothing}
    PROVE  InOrder' /\ InStep'
<1>1. /\ queue \in Seq(Message) /\ queue # <<>> /\ queue' = Tail(queue) /\ buffer' = buffer
      /\ Len(queue') = Len(queue) - 1 /\ Len(queue) \in 1..Len(queue)
  BY DEF Typed, WorldTypes, Receive, worldVars
<1>2. ASSUME NEW f \in Files, NEW T, Nothing \in T, NEW n \in 1..Len(queue),
             OpenWith(queue, files, open_files, f, n, T)
      PROVE  OpenWith(queue', files', open_files', f, n - 1, T)
  <2>1. Text(Head(queue), f) /\ Head(queue).text \in T => f \in open_files' /\ files'[f] \in T
    OBVIOUS
  <2>2. ~ Document(Head(queue), f) /\ f \in open_files /\ files[f] \in T
          => f \in open_files' /\ files'[f] \in T
    BY <1>2
  <2> QED
    BY <1>1, <1>2, <2>1, <2>2, OpenWithTail
<1>3. InOrder'
  <2> SUFFICES ASSUME NEW i \in DOMAIN queue'
               PROVE  /\ queue'[i].method = "didChange" =>
                            OpenWith(queue', files', open_files', queue'[i].file, i - 1, Maybe)
                      /\ queue'[i].method = "request" =>
                            OpenWith(queue', files', open_files', queue'[i].file, i - 1,
                                     {queue'[i].text, Nothing})
    BY DEF InOrder
  <2>1. /\ i \in 1..Len(queue) /\ i + 1 \in DOMAIN queue /\ (i + 1) - 1 = i
        /\ queue'[i] = queue[i + 1]
    BY <1>1
  <2>2. queue[i + 1] \in Message
    BY <1>1, <2>1
  <2>3. Nothing \in Maybe
    BY DEF Maybe
  <2> QED
    BY <1>2, <2>1, <2>2, <2>3, Fields DEF InOrder
<1>4. InStep'
  <2> SUFFICES ASSUME NEW f \in Files
               PROVE  /\ buffer'[f] # Nothing =>
                            OpenWith(queue', files', open_files', f, Len(queue'), {buffer'[f], Nothing})
                      /\ buffer'[f] = Nothing => ClosedAfter(queue', open_files', f, Len(queue'))
    BY DEF InStep
  <2>1. CASE buffer[f] # Nothing
    BY <1>1, <1>2, <2>1 DEF InStep
  <2>2. CASE buffer[f] = Nothing
    BY <1>1, <2>2, ClosedTail DEF InStep
  <2> QED
    BY <1>1, <2>1, <2>2
<1> QED
  BY <1>3, <1>4

(* A change of the files while nothing is open is not seen by any message. *)
LEMMA OrderedQuiet ==
    ASSUME InOrder, InStep, UNCHANGED <<queue, buffer, open_files>>,
           open_files = {} \/ files' = files
    PROVE  InOrder' /\ InStep'
<1>1. \A f, n, T : OpenWith(queue, files, open_files, f, n, T)
                     => OpenWith(queue, files', open_files, f, n, T)
  BY DEF OpenWith
<1> QED
  BY <1>1 DEF InOrder, InStep

LEMMA OrderedStep ==
    ASSUME Typed, Typed', Ordered, [Next]_vars
    PROVE  Ordered'
<1> USE DEF Ordered
<1>0. \A f \in Files : /\ buffer[f] # Nothing => buffer[f] \in Texts
                       /\ disk[f] # Nothing => disk[f] \in Texts
  BY DEF Typed, WorldTypes, Maybe
<1>a. buffer \in [Files -> Maybe] /\ queue \in Seq(Message)
  BY DEF Typed, WorldTypes
<1>b. open_files \in SUBSET Files /\ files \in [Files -> Maybe]
  BY DEF Typed, ServerTypes
<1>1. ASSUME NEW f \in Files, NEW t \in Texts, WriteOutside(f, t) PROVE Ordered'
  BY <1>1, OrderedQuiet DEF WriteOutside, Act, serverVars, AnswersFromEditorText
<1>2. ASSUME NEW f \in Files, NEW t \in Texts, Edit(f, t) PROVE Ordered'
  <2> DEFINE m == [method |-> "didChange", file |-> f, text |-> t]
  <2>1. m \in Message /\ Send(m)
    BY <1>2, Messages DEF Edit
  <2>2. UNCHANGED <<files, open_files, answer>> /\ buffer' = [buffer EXCEPT ![f] = t]
    BY <1>2 DEF Edit, Act, serverVars
  <2>3. OpenWith(queue, files, open_files, f, Len(queue), {buffer[f], Nothing})
    BY <1>2 DEF InStep, Edit
  <2>4. OpenWith(queue, files, open_files, f, Len(queue), Maybe)
    <3>1. {buffer[f], Nothing} \subseteq Maybe
      BY <1>a DEF Maybe
    <3> QED
      BY <2>3, <3>1 DEF OpenWith
  <2>5. InOrder'
    BY <2>1, <2>2, <2>4, InOrderSend
  <2>6. InStep'
    BY <1>a, <2>1, <2>2, InStepSend DEF Document, Text
  <2> QED
    BY <2>2, <2>5, <2>6 DEF AnswersFromEditorText
<1>3. ASSUME NEW f \in Files, DeleteOutside(f) PROVE Ordered'
  BY <1>3, OrderedQuiet DEF DeleteOutside, Act, serverVars, AnswersFromEditorText
<1>4. ASSUME NEW f \in Files, Open(f) PROVE Ordered'
  <2> DEFINE m == [method |-> "didOpen", file |-> f, text |-> disk[f]]
  <2>1. m \in Message /\ Send(m)
    BY <1>0, <1>4, Messages DEF Open
  <2>2. UNCHANGED <<files, open_files, answer>> /\ buffer' = [buffer EXCEPT ![f] = disk[f]]
    BY <1>4 DEF Open, Act, serverVars
  <2>3. InOrder'
    BY <2>1, <2>2, InOrderSend
  <2>4. InStep'
    BY <1>a, <2>1, <2>2, InStepSend DEF Document, Text
  <2> QED
    BY <2>2, <2>3, <2>4 DEF AnswersFromEditorText
<1>5. ASSUME NEW f \in Files, Save(f) PROVE Ordered'
  <2> DEFINE m == [method |-> "didSave", file |-> f]
  <2>1. m \in Message /\ Send(m) /\ UNCHANGED <<files, open_files, answer, buffer>>
    BY <1>5, Messages DEF Save, Act, serverVars
  <2> QED
    BY <2>1, InOrderSend, InStepSend DEF Document, AnswersFromEditorText
<1>6. ASSUME NEW f \in Files, Close(f) PROVE Ordered'
  <2> DEFINE m == [method |-> "didClose", file |-> f]
  <2>1. m \in Message /\ Send(m)
    BY <1>6, Messages DEF Close
  <2>2. UNCHANGED <<files, open_files, answer>> /\ buffer' = [buffer EXCEPT ![f] = Nothing]
    BY <1>6 DEF Close, Act, serverVars
  <2>3. InOrder'
    BY <2>1, <2>2, InOrderSend
  <2>4. InStep'
    BY <1>a, <2>1, <2>2, InStepSend DEF Document, Text
  <2> QED
    BY <2>2, <2>3, <2>4 DEF AnswersFromEditorText
<1>7. ASSUME NEW f \in Files, Ask(f) PROVE Ordered'
  <2> DEFINE m == [method |-> "request", file |-> f, text |-> buffer[f]]
  <2>1. m \in Message /\ Send(m) /\ UNCHANGED <<files, open_files, answer, buffer>>
    BY <1>0, <1>7, Messages DEF Ask, Act, serverVars
  <2>2. OpenWith(queue, files, open_files, f, Len(queue), {buffer[f], Nothing})
    BY <1>7 DEF InStep, Ask
  <2>3. InOrder'
    BY <2>1, <2>2, InOrderSend
  <2>4. InStep'
    BY <2>1, InStepSend DEF Document
  <2> QED
    BY <2>1, <2>3, <2>4 DEF AnswersFromEditorText
<1>8. CASE Shutdown
  <2>1. /\ [method |-> "shutdown"] \in Message /\ Send([method |-> "shutdown"])
        /\ UNCHANGED <<files, open_files, answer, buffer>>
    BY <1>8, Messages DEF Shutdown, Act, serverVars
  <2> QED
    BY <2>1, InOrderSend, InStepSend DEF Document, AnswersFromEditorText
<1>9. CASE Announce
  <2> DEFINE m == [method |-> "didChangeWatchedFiles", changes |-> unsent]
  <2>1. m \in Message /\ Send(m) /\ UNCHANGED <<files, open_files, answer, buffer>>
    BY <1>9, Messages DEF Announce, serverVars, Typed, WorldTypes
  <2> QED
    BY <2>1, InOrderSend, InStepSend DEF Document, AnswersFromEditorText
<1>10. CASE RegisterWatcher \/ ScanDone \/ UNCHANGED vars
  BY <1>10, OrderedQuiet
  DEF RegisterWatcher, ScanDone, vars, serverVars, worldVars, AnswersFromEditorText
<1>11. ASSUME NEW f \in Files, ScanFile(f) PROVE Ordered'
  BY <1>11, OrderedQuiet DEF ScanFile, worldVars, AnswersFromEditorText, Typed, Phases
<1>12. CASE did_open
  <2>1. Receive("didOpen") /\ Head(queue).method = "didOpen" /\ Head(queue).file \in Files
    BY <1>12, ReceiveTyped, Fields DEF did_open
  <2>2. /\ open_files' = open_files \cup {Head(queue).file} /\ answer' = answer
        /\ files' = [files EXCEPT ![Head(queue).file] = Head(queue).text]
    BY <1>12 DEF did_open
  <2> QED
    BY <1>b, <2>1, <2>2, OrderedReceive DEF Document, Text, AnswersFromEditorText
<1>13. CASE did_change
  <2>1. Receive("didChange") /\ Head(queue).method = "didChange" /\ Head(queue).file \in Files
    BY <1>13, ReceiveTyped, Fields DEF did_change
  <2>2. /\ open_files' = open_files /\ answer' = answer
        /\ files' = [files EXCEPT ![Head(queue).file] = Head(queue).text]
    BY <1>13 DEF did_change
  <2>3. OpenWith(queue, files, open_files, Head(queue).file, 1 - 1, Maybe)
    <3>1. 1 \in DOMAIN queue /\ queue[1] = Head(queue)
      BY <1>a, <2>1 DEF Receive
    <3> QED
      BY <2>1, <3>1 DEF InOrder
  <2>4. Head(queue).file \in open_files
    BY <2>3, OpenWithNone
  <2> QED
    BY <1>b, <2>1, <2>2, <2>4, OrderedReceive DEF Document, Text, AnswersFromEditorText
<1>14. CASE did_save
  <2>1. /\ Receive("didSave") /\ Head(queue).method = "didSave"
        /\ UNCHANGED <<files, open_files, answer>>
    BY <1>14, ReceiveTyped DEF did_save
  <2> QED
    BY <2>1, OrderedReceive DEF Document, Text, AnswersFromEditorText
<1>15. CASE did_close
  <2>1. /\ Receive("didClose") /\ Head(queue).method = "didClose" /\ Head(queue).file \in Files
        /\ open_files' = open_files \ {Head(queue).file} /\ UNCHANGED <<files, answer>>
    BY <1>15, ReceiveTyped, Fields DEF did_close
  <2> QED
    BY <2>1, OrderedReceive DEF Document, Text, AnswersFromEditorText
<1>16. CASE handle_watched_file_changes
  <2>1. /\ Receive("didChangeWatchedFiles") /\ Head(queue).method = "didChangeWatchedFiles"
        /\ UNCHANGED <<open_files, answer>>
    BY <1>16, ReceiveTyped DEF handle_watched_file_changes
  <2>2. \A f \in open_files : files'[f] \in {files[f], Nothing}
    BY <1>16, Watched, AfterChangesType
  <2> QED
    BY <2>1, <2>2, OrderedReceive DEF Document, Text, AnswersFromEditorText
<1>17. CASE handle_request
  <2>1. /\ Receive("request") /\ Head(queue).method = "request" /\ Head(queue).file \in Files
        /\ UNCHANGED <<files, open_files>>
        /\ answer' = [file |-> Head(queue).file, text |-> files[Head(queue).file],
                      asked |-> Head(queue).text]
    BY <1>17, ReceiveTyped, Fields DEF handle_request
  <2>2. OpenWith(queue, files, open_files, Head(queue).file, 1 - 1, {Head(queue).text, Nothing})
    <3>1. 1 \in DOMAIN queue /\ queue[1] = Head(queue)
      BY <1>a, <2>1 DEF Receive
    <3> QED
      BY <2>1, <3>1 DEF InOrder
  <2>3. files[Head(queue).file] \in {Head(queue).text, Nothing}
    BY <2>2, OpenWithNone
  <2>4. AnswersFromEditorText'
    BY <2>1, <2>3 DEF AnswersFromEditorText
  <2> QED
    BY <2>1, <2>4, OrderedReceive DEF Document, Text
<1>18. CASE handle_shutdown
  <2>1. /\ Receive("shutdown") /\ Head(queue).method = "shutdown"
        /\ UNCHANGED <<files, open_files, answer>>
    BY <1>18, ReceiveTyped DEF handle_shutdown
  <2> QED
    BY <2>1, OrderedReceive DEF Document, Text, AnswersFromEditorText
<1> QED
  BY <1>1, <1>2, <1>3, <1>4, <1>5, <1>6, <1>7, <1>8, <1>9, <1>10, <1>11, <1>12, <1>13,
     <1>14, <1>15, <1>16, <1>17, <1>18 DEF Next, Server

(* The messages in flight bring the server to the documents and the texts    *)
(* the editor has, whatever the interleaving.                                *)
THEOREM OrderedInvariant == Spec => []Ordered
<1>1. Init => Ordered
  <2> SUFFICES ASSUME Init PROVE Ordered
    OBVIOUS
  <2>1. queue = <<>> /\ Len(queue) = 0 /\ DOMAIN queue = {} /\ open_files = {}
    BY DEF Init
  <2>2. InOrder
    BY <2>1 DEF InOrder
  <2>3. InStep
    BY <2>1 DEF InStep, Init, ClosedAfter
  <2> QED
    BY <2>2, <2>3 DEF Ordered, Init, AnswersFromEditorText, NoAnswer
<1>2. Typed /\ Typed' /\ Ordered /\ [Next]_vars => Ordered'
  BY OrderedStep
<1> QED
  BY <1>1, <1>2, TypedInvariant, PTL DEF Spec

(* A request about an open document is answered from the text the editor had *)
(* when it asked, or with null (handle_request and the handlers before it,   *)
(* lsp.rs 297-443).                                                          *)
THEOREM RequestsAnsweredFromEditorText == Spec => []AnswersFromEditorText
<1>1. Ordered => AnswersFromEditorText
  BY DEF Ordered
<1> QED
  BY <1>1, OrderedInvariant, PTL

--------------------------------------------------------------------------------
(* The disk: what the server holds of a file that is not open.               *)

(* The entry a file ends with in a batch that mentions it. *)
LEMMA LastMention ==
    ASSUME NEW changes \in Seq(Change), NEW f, Mentions(changes, f)
    PROVE  \E k \in DOMAIN changes :
              changes[k][2] = f /\ \A l \in DOMAIN changes : l > k => changes[l][2] # f
<1> DEFINE S == {k \in DOMAIN changes : changes[k][2] = f}
<1>1. Len(changes) \in Nat /\ S \in SUBSET (1..Len(changes)) /\ S # {}
  BY DEF Mentions
<1>2. \A k \in DOMAIN changes : k \in Int
  OBVIOUS
<1> HIDE DEF S
<1>3. PICK k \in S : \A l \in S : l <= k
  BY <1>1, LastIndex
<1>4. \A l \in S : l \in Int
  BY <1>1
<1>5. \A l \in S : ~ (l > k)
  BY <1>3, <1>4
<1> QED
  BY <1>2, <1>3, <1>5 DEF S

(* A batch whose last word on a closed file is true leaves the server with   *)
(* the text on disk.                                                         *)
LEMMA BatchReads ==
    ASSUME NEW changes \in Seq(Change), NEW f \in Files, f \notin open_files,
           Mentions(changes, f), LastTells(changes, f, disk[f])
    PROVE  AfterChanges(changes)[f] = disk[f]
<1>1. PICK k \in DOMAIN changes :
          changes[k][2] = f /\ \A l \in DOMAIN changes : l > k => changes[l][2] # f
  BY LastMention
<1>2. changes[k][1] = "DELETED" <=> disk[f] = Nothing
  BY <1>1 DEF LastTells
<1>3. Applies(changes[k]) /\ ApplyChange(changes[k]) = disk[f]
  BY <1>1, <1>2 DEF Applies, ApplyChange
<1>4. PICK j \in DOMAIN changes :
          /\ changes[j][2] = f
          /\ \A l \in DOMAIN changes : l > j => ~ (changes[l][2] = f /\ Applies(changes[l]))
          /\ AfterChanges(changes)[f] = ApplyChange(changes[j])
  BY <1>1, <1>3, AfterChangesLast
<1>5. j = k
  <2>1. j \in Int /\ k \in Int
    OBVIOUS
  <2>2. ~ (j > k) /\ ~ (k > j)
    BY <1>1, <1>3, <1>4
  <2> QED
    BY <2>1, <2>2
<1> QED
  BY <1>3, <1>4, <1>5

(* One more event: it is the last word on its file, and no word on others. *)
LEMMA EventAppend ==
    ASSUME NEW c \in Seq(Change), NEW type \in {"CREATED", "CHANGED", "DELETED"},
           NEW f \in Files, NEW g, NEW d
    PROVE  LET e == Append(c, <<type, f>>)
           IN  /\ Mentions(e, f)
               /\ (type = "DELETED" <=> d = Nothing) => LastTells(e, f, d)
               /\ g # f => (Mentions(e, g) <=> Mentions(c, g))
               /\ g # f /\ LastTells(c, g, d) => LastTells(e, g, d)
<1> DEFINE e == Append(c, <<type, f>>)
<1> DEFINE n == Len(c) + 1
<1>1. /\ DOMAIN c = 1..Len(c) /\ DOMAIN e = 1..n /\ n \in 1..n
      /\ \A k \in 1..Len(c) : e[k] = c[k]
  OBVIOUS
<1>2. e[n] = <<type, f>>
  OBVIOUS
<1>3. e[n][1] = type /\ e[n][2] = f
  BY <1>2
<1>4. \A k \in 1..n : k = n \/ (k \in 1..Len(c) /\ n > k)
  OBVIOUS
<1>5. \A k \in 1..Len(c) : k \in 1..n
  OBVIOUS
<1> HIDE DEF e, n
<1>6. Mentions(e, f)
  BY <1>1, <1>3 DEF Mentions
<1>7. (type = "DELETED" <=> d = Nothing) => LastTells(e, f, d)
  BY <1>1, <1>3, <1>4 DEF LastTells
<1>8. g # f => (Mentions(e, g) <=> Mentions(c, g))
  BY <1>1, <1>3, <1>4, <1>5 DEF Mentions
<1>9. ASSUME g # f, LastTells(c, g, d) PROVE LastTells(e, g, d)
  <2> SUFFICES ASSUME NEW k \in 1..n, e[k][2] = g, \A l \in 1..n : l > k => e[l][2] # g
               PROVE  e[k][1] = "DELETED" <=> d = Nothing
    BY <1>1 DEF LastTells
  <2>1. k \in 1..Len(c) /\ c[k] = e[k]
    BY <1>1, <1>3, <1>4, <1>9
  <2>2. \A l \in DOMAIN c : l > k => c[l][2] # g
    BY <1>1, <1>5
  <2> QED
    BY <1>1, <1>9, <2>1, <2>2 DEF LastTells
<1> QED
  BY <1>6, <1>7, <1>8, <1>9 DEF e

LEMMA TellsAppend ==
    ASSUME NEW q \in Seq(Message), NEW m \in Message, NEW u, NEW f, NEW d,
           PendingTells(q, u, f, d), ~ Watch(m, f)
    PROVE  PendingTells(Append(q, m), u, f, d)
<1> DEFINE r == Append(q, m)
<1>1. \A k \in DOMAIN q : k \in DOMAIN r /\ r[k] = q[k]
  OBVIOUS
<1>2. \A k \in DOMAIN r : k \in DOMAIN q \/ r[k] = m
  OBVIOUS
<1> HIDE DEF r
<1> QED
  BY <1>1, <1>2 DEF PendingTells, r

LEMMA TellsAnnounce ==
    ASSUME NEW q \in Seq(Message), NEW u \in Seq(Change), NEW f, NEW d,
           PendingTells(q, u, f, d)
    PROVE  PendingTells(Append(q, [method |-> "didChangeWatchedFiles", changes |-> u]), <<>>, f, d)
<1> DEFINE m == [method |-> "didChangeWatchedFiles", changes |-> u]
<1> DEFINE r == Append(q, m)
<1>0. m \in Message /\ m.changes = u /\ m.method = "didChangeWatchedFiles"
  BY Messages
<1> HIDE DEF m
<1>1. \A k \in DOMAIN q : k \in DOMAIN r /\ r[k] = q[k] /\ Len(q) + 1 > k
  BY <1>0
<1>2. \A k \in DOMAIN r : k \in DOMAIN q \/ k = Len(q) + 1
  BY <1>0
<1>3. Len(q) + 1 \in DOMAIN r /\ r[Len(q) + 1] = m
  BY <1>0
<1> HIDE DEF r
<1>4. LastTells(<<>>, f, d)
  BY DEF LastTells
<1>5. ASSUME NEW i \in DOMAIN r, Watch(r[i], f), \A k \in DOMAIN r : k > i => ~ Watch(r[k], f)
      PROVE  LastTells(r[i].changes, f, d)
  <2>1. CASE i = Len(q) + 1
    BY <1>0, <1>3, <2>1 DEF PendingTells
  <2>2. CASE i \in DOMAIN q
    <3>1. ~ Mentions(u, f)
      BY <1>0, <1>1, <1>3, <1>5, <2>2 DEF Watch
    <3> QED
      BY <1>1, <1>5, <2>2, <3>1 DEF PendingTells
  <2> QED
    BY <1>2, <2>1, <2>2
<1> QED
  BY <1>4, <1>5 DEF PendingTells, r, m

LEMMA TellsTail ==
    ASSUME NEW q \in Seq(Message), q # <<>>, NEW u, NEW f, NEW d, PendingTells(q, u, f, d)
    PROVE  PendingTells(Tail(q), u, f, d)
<1> DEFINE r == Tail(q)
<1>1. \A k \in DOMAIN r : k \in Int /\ k + 1 \in DOMAIN q /\ r[k] = q[k + 1]
  OBVIOUS
<1>2. \A k \in DOMAIN q : k \in Int /\ (k > 1 => k - 1 \in DOMAIN r /\ r[k - 1] = q[k])
  OBVIOUS
<1>3. \A i \in DOMAIN r : i >= 1
  OBVIOUS
<1> HIDE DEF r
<1>4. ASSUME NEW i \in DOMAIN r, \A k \in DOMAIN r : k > i => ~ Watch(r[k], f)
      PROVE  \A k \in DOMAIN q : k > i + 1 => ~ Watch(q[k], f)
  <2> SUFFICES ASSUME NEW k \in DOMAIN q, k > i + 1 PROVE ~ Watch(q[k], f)
    OBVIOUS
  <2>1. k > 1 /\ k - 1 > i
    BY <1>1, <1>2, <1>3
  <2> QED
    BY <1>2, <1>4, <2>1
<1> QED
  BY <1>1, <1>4 DEF PendingTells, r

LEMMA FollowsAppend ==
    ASSUME NEW q \in Seq(Message), NEW m \in Message, NEW u, NEW fs, NEW ts, NEW f, NEW T,
           \/ Follows(q, u, fs, ts, f, T) /\ ~ Text(m, f) /\ ~ Watch(m, f)
           \/ Text(m, f) /\ m.text \in T
    PROVE  Follows(Append(q, m), u, fs, ts, f, T)
<1> DEFINE r == Append(q, m)
<1>1. \A k \in DOMAIN q : k \in DOMAIN r /\ r[k] = q[k]
  OBVIOUS
<1>2. \A k \in DOMAIN r : k \in DOMAIN q \/ r[k] = m
  OBVIOUS
<1>3. /\ Len(q) + 1 \in DOMAIN r /\ r[Len(q) + 1] = m
      /\ \A k \in DOMAIN r : ~ (k > Len(q) + 1)
  OBVIOUS
<1> HIDE DEF r
<1>4. CASE Text(m, f) /\ m.text \in T
  BY <1>3, <1>4 DEF Follows, LastAbout, r
<1>5. CASE Follows(q, u, fs, ts, f, T) /\ ~ Text(m, f) /\ ~ Watch(m, f)
  BY <1>1, <1>2, <1>5 DEF Follows, LastAbout, r
<1> QED
  BY <1>4, <1>5

LEMMA FollowsAnnounce ==
    ASSUME NEW q \in Seq(Message), NEW u \in Seq(Change), NEW v, NEW fs, NEW ts, NEW f, NEW T,
           Follows(q, u, fs, ts, f, T)
    PROVE  Follows(Append(q, [method |-> "didChangeWatchedFiles", changes |-> u]), v, fs, ts, f, T)
<1> DEFINE m == [method |-> "didChangeWatchedFiles", changes |-> u]
<1>0. m \in Message /\ m.changes = u /\ m.method = "didChangeWatchedFiles"
  BY Messages
<1> HIDE DEF m
<1> SUFFICES Follows(Append(q, m), v, fs, ts, f, T)
  BY DEF m
<1>1. ~ Text(m, f) /\ (Watch(m, f) <=> Mentions(u, f))
  BY <1>0 DEF Text, Watch
<1>2. CASE Mentions(u, f)
  <2> DEFINE r == Append(q, m)
  <2>1. /\ Len(q) + 1 \in DOMAIN r /\ r[Len(q) + 1] = m
        /\ \A k \in DOMAIN r : ~ (k > Len(q) + 1)
    BY <1>0
  <2> HIDE DEF r
  <2> QED
    BY <1>1, <1>2, <2>1 DEF Follows, LastAbout, r
<1>3. CASE ~ Mentions(u, f)
  <2>1. Follows(q, v, fs, ts, f, T)
    BY <1>3 DEF Follows
  <2> QED
    BY <1>0, <1>1, <1>3, <2>1, FollowsAppend
<1> QED
  BY <1>2, <1>3

(* Handling the first message: if it was the last about f, the server now    *)
(* has what the message said or what it read.                                *)
LEMMA FollowsTail ==
    ASSUME NEW q \in Seq(Message), q # <<>>, NEW u, NEW fs, NEW fs2, NEW ts, NEW f, NEW T,
           Follows(q, u, fs, ts, f, T),
           Text(Head(q), f) /\ Head(q).text \in T => fs2[f] \in T,
           (/\ Watch(Head(q), f) /\ ~ Mentions(u, f)
            /\ \A k \in DOMAIN q : k > 1 => ~ Watch(q[k], f)) => fs2[f] \in T,
           ~ Text(Head(q), f) /\ ~ Watch(Head(q), f) => fs2[f] = fs[f]
    PROVE  Follows(Tail(q), u, fs2, ts, f, T)
<1> DEFINE r == Tail(q)
<1>1. \A k \in DOMAIN r : k \in Int /\ k >= 1 /\ k + 1 > 1 /\ k + 1 \in DOMAIN q /\ r[k] = q[k + 1]
  OBVIOUS
<1>2. \A k \in DOMAIN q : /\ k \in Int /\ k >= 1
                          /\ k > 1 => k - 1 \in DOMAIN r /\ r[k - 1] = q[k]
  OBVIOUS
<1>3. 1 \in DOMAIN q /\ q[1] = Head(q)
  OBVIOUS
<1> HIDE DEF r
<1>4. CASE Mentions(u, f)
  BY <1>4 DEF Follows
<1>5. CASE ~ Mentions(u, f) /\ \E i \in DOMAIN q : LastAbout(q, f, i) /\ (Text(q[i], f) => q[i].text \in T)
  <2>1. PICK i \in DOMAIN q : LastAbout(q, f, i) /\ (Text(q[i], f) => q[i].text \in T)
    BY <1>5
  <2>2. CASE i = 1
    <3>1. \A k \in DOMAIN r : ~ Text(r[k], f) /\ ~ Watch(r[k], f)
      BY <1>1, <2>1, <2>2 DEF LastAbout
    <3>2. fs2[f] \in T
      BY <1>3, <1>5, <2>1, <2>2 DEF LastAbout
    <3> QED
      BY <3>1, <3>2 DEF Follows, r
  <2>3. CASE i # 1
    <3>1. i > 1 /\ i - 1 \in DOMAIN r /\ r[i - 1] = q[i]
      BY <1>2, <2>3
    <3>2. \A k \in DOMAIN r : k > i - 1 => ~ Text(r[k], f) /\ ~ Watch(r[k], f)
      <4> SUFFICES ASSUME NEW k \in DOMAIN r, k > i - 1 PROVE ~ Text(r[k], f) /\ ~ Watch(r[k], f)
        OBVIOUS
      <4>1. k + 1 > i
        BY <1>1, <1>2
      <4> QED
        BY <1>1, <2>1, <4>1 DEF LastAbout
    <3> QED
      BY <2>1, <3>1, <3>2 DEF Follows, LastAbout, r
  <2> QED
    BY <2>2, <2>3
<1>6. CASE (\A i \in DOMAIN q : ~ Text(q[i], f) /\ ~ Watch(q[i], f)) /\ (f \in ts \/ fs[f] \in T)
  BY <1>1, <1>3, <1>6 DEF Follows, r
<1> QED
  BY <1>4, <1>5, <1>6 DEF Follows

(* Sending a message about which nothing has to be said, or the editor's     *)
(* text of a document.                                                       *)
LEMMA TrackedSend ==
    ASSUME Typed, Tracked, NEW m \in Message, Send(m),
           m.method # "didChangeWatchedFiles",
           UNCHANGED <<disk, unsent, files, toScan>>,
           \A f \in Files : missed'[f] = "no" =>
               \/ missed[f] = "no" /\ Current(f) \subseteq Current(f)' /\ ~ Text(m, f)
               \/ Text(m, f) /\ m.text \in Current(f)'
    PROVE  Tracked'
<1>1. queue \in Seq(Message) /\ queue' = Append(queue, m)
  BY DEF Typed, WorldTypes, Send
<1>2. \A f : ~ Watch(m, f)
  BY DEF Watch
<1>3. EventsTell'
  BY <1>1, <1>2, TellsAppend DEF Tracked, EventsTell
<1>4. ASSUME NEW f \in Files, missed'[f] = "no"
      PROVE  Follows(queue', unsent, files, toScan, f, Current(f)')
  <2>1. CASE Text(m, f) /\ m.text \in Current(f)'
    BY <1>1, <2>1, FollowsAppend
  <2>2. CASE missed[f] = "no" /\ Current(f) \subseteq Current(f)' /\ ~ Text(m, f)
    <3>1. Follows(queue, unsent, files, toScan, f, Current(f))
      BY <2>2 DEF Tracked, Followed
    <3>2. Follows(queue, unsent, files, toScan, f, Current(f)')
      BY <2>2, <3>1 DEF Follows
    <3> QED
      BY <1>1, <1>2, <2>2, <3>2, FollowsAppend
  <2> QED
    BY <1>4, <2>1, <2>2
<1> QED
  BY <1>3, <1>4 DEF Tracked, Followed

(* A change on disk, with or without a message that is about no text. *)
LEMMA TrackedDiskChange ==
    ASSUME Typed, Tracked, NEW type \in {"CREATED", "CHANGED", "DELETED"}, NEW f \in Files,
           NEW c, type = "DELETED" <=> c = Nothing, DiskChange(type, f, c),
           UNCHANGED <<buffer, files, toScan>>,
           \/ UNCHANGED queue
           \/ \E m \in Message : Send(m) /\ m.method = "didSave"
    PROVE  Tracked'
<1>0. /\ queue \in Seq(Message) /\ unsent \in Seq(Change)
      /\ disk \in [Files -> Maybe] /\ missed \in [Files -> {"no", "unwatched", "discarded", "skipped"}]
      /\ ~ watching => /\ unsent = <<>>
                       /\ \A i \in DOMAIN queue : queue[i].method # "didChangeWatchedFiles"
  BY DEF Typed, WorldTypes, Phases
<1>1. \A g \in Files : /\ disk'[g] = IF g = f THEN c ELSE disk[g]
                       /\ g # f => missed'[g] = missed[g] /\ Current(g)' = Current(g)
  BY <1>0 DEF DiskChange, Current
<1>2. unsent' = IF watching THEN Append(unsent, <<type, f>>) ELSE unsent
  BY DEF DiskChange
<1>3. ASSUME NEW g \in Files
      PROVE  /\ PendingTells(queue, unsent', g, disk'[g])
             /\ missed'[g] = "no" => Follows(queue, unsent', files, toScan, g, Current(g)')
  <2>1. CASE g # f
    <3>1. /\ PendingTells(queue, unsent, g, disk[g])
          /\ missed'[g] = "no" => Follows(queue, unsent, files, toScan, g, Current(g)')
      BY <1>1, <2>1 DEF Tracked, EventsTell, Followed
    <3>2. CASE watching
      <4>1. /\ Mentions(unsent', g) <=> Mentions(unsent, g)
            /\ LastTells(unsent, g, disk[g]) => LastTells(unsent', g, disk[g])
        BY <1>0, <1>2, <2>1, <3>2, EventAppend
      <4>2. PendingTells(queue, unsent', g, disk[g])
        BY <3>1, <4>1 DEF PendingTells
      <4>3. missed'[g] = "no" => Follows(queue, unsent', files, toScan, g, Current(g)')
        BY <3>1, <4>1 DEF Follows
      <4> QED
        BY <1>1, <2>1, <4>2, <4>3
    <3>3. CASE ~ watching
      BY <1>1, <1>2, <2>1, <3>1, <3>3
    <3> QED
      BY <3>2, <3>3
  <2>2. CASE g = f
    <3>1. CASE watching
      <4>1. Mentions(unsent', f) /\ LastTells(unsent', f, c)
        BY <1>0, <1>2, <3>1, EventAppend
      <4> QED
        BY <1>1, <2>2, <4>1 DEF PendingTells, Follows
    <3>2. CASE ~ watching
      <4>1. \A i \in DOMAIN queue : ~ Watch(queue[i], f)
        BY <1>0, <3>2 DEF Watch
      <4>2. PendingTells(queue, unsent', f, c)
        BY <1>0, <1>2, <3>2, <4>1 DEF PendingTells, LastTells
      <4>3. missed'[f] = "no" => WillBeScanned(f)
        BY <1>0, <3>2 DEF DiskChange
      <4>4. WillBeScanned(f) => Follows(queue, unsent', files, toScan, f, Current(f)')
        BY <4>1 DEF WillBeScanned, Follows, Text
      <4> QED
        BY <1>1, <2>2, <4>2, <4>3, <4>4
    <3> QED
      BY <3>1, <3>2
  <2> QED
    BY <2>1, <2>2
<1>4. CASE UNCHANGED queue
  BY <1>3, <1>4 DEF Tracked, EventsTell, Followed
<1>5. CASE \E m \in Message : Send(m) /\ m.method = "didSave"
  <2>1. PICK m \in Message : Send(m) /\ m.method = "didSave"
    BY <1>5
  <2>2. queue' = Append(queue, m) /\ \A g : ~ Watch(m, g) /\ ~ Text(m, g)
    BY <2>1 DEF Send, Watch, Text
  <2>3. ASSUME NEW g \in Files
        PROVE  /\ PendingTells(queue', unsent', g, disk'[g])
               /\ missed'[g] = "no" => Follows(queue', unsent', files, toScan, g, Current(g)')
    BY <1>0, <1>3, <2>2, TellsAppend, FollowsAppend
  <2> QED
    BY <2>3 DEF Tracked, EventsTell, Followed
<1> QED
  BY <1>4, <1>5

(* Handling a message: what it makes of each file is what it was to make. *)
LEMMA TrackedReceive ==
    ASSUME Typed, Tracked, NEW method, Receive(method),
           \A f \in Files : missed'[f] = "no" =>
               /\ missed[f] = "no"
               /\ Text(Head(queue), f) => files'[f] = Head(queue).text
               /\ (/\ Watch(Head(queue), f) /\ ~ Mentions(unsent, f)
                   /\ \A k \in DOMAIN queue : k > 1 => ~ Watch(queue[k], f))
                     => files'[f] = disk[f]
               /\ ~ Text(Head(queue), f) /\ ~ Watch(Head(queue), f) => files'[f] = files[f]
    PROVE  Tracked'
<1>1. /\ queue \in Seq(Message) /\ queue # <<>> /\ queue' = Tail(queue)
      /\ UNCHANGED <<disk, buffer, unsent, toScan>>
  BY DEF Typed, WorldTypes, Receive, worldVars
<1>2. EventsTell'
  BY <1>1, TellsTail DEF Tracked, EventsTell
<1>3. ASSUME NEW f \in Files, missed'[f] = "no"
      PROVE  Follows(queue', unsent, files', toScan, f, Current(f))
  <2>1. Follows(queue, unsent, files, toScan, f, Current(f))
    BY <1>3 DEF Tracked, Followed
  <2>2. disk[f] \in Current(f)
    BY DEF Current
  <2>3. Text(Head(queue), f) /\ Head(queue).text \in Current(f) => files'[f] \in Current(f)
    BY <1>3
  <2>4. (/\ Watch(Head(queue), f) /\ ~ Mentions(unsent, f)
         /\ \A k \in DOMAIN queue : k > 1 => ~ Watch(queue[k], f)) => files'[f] \in Current(f)
    BY <1>3, <2>2
  <2>5. ~ Text(Head(queue), f) /\ ~ Watch(Head(queue), f) => files'[f] = files[f]
    BY <1>3
  <2> QED
    BY <1>1, <2>1, <2>3, <2>4, <2>5, FollowsTail
<1>4. \A f \in Files : Current(f)' = Current(f)
  BY <1>1 DEF Current
<1> QED
  BY <1>1, <1>2, <1>3, <1>4 DEF Tracked, Followed

LEMMA TrackedStep ==
    ASSUME Typed, Tracked, [Next]_vars
    PROVE  Tracked'
<1>0. /\ disk \in [Files -> Maybe] /\ buffer \in [Files -> Maybe] /\ files \in [Files -> Maybe]
      /\ queue \in Seq(Message) /\ unsent \in Seq(Change)
      /\ missed \in [Files -> {"no", "unwatched", "discarded", "skipped"}]
  BY DEF Typed, WorldTypes, ServerTypes
<1>a. \A f \in Files : /\ buffer[f] # Nothing => buffer[f] \in Texts
                       /\ disk[f] # Nothing => disk[f] \in Texts
                       /\ WriteType(f) \in {"CREATED", "CHANGED", "DELETED"}
                       /\ WriteType(f) # "DELETED"
  BY <1>0 DEF Maybe, WriteType
<1>b. \A t \in Texts : t # Nothing
  BY LspAssumption
<1>1. ASSUME NEW f \in Files, NEW t \in Texts, WriteOutside(f, t) PROVE Tracked'
  BY <1>a, <1>b, <1>1, TrackedDiskChange DEF WriteOutside, Act, serverVars
<1>2. ASSUME NEW f \in Files, NEW t \in Texts, Edit(f, t) PROVE Tracked'
  <2> DEFINE m == [method |-> "didChange", file |-> f, text |-> t]
  <2>1. m \in Message /\ Send(m)
    BY <1>2, Messages DEF Edit
  <2>2. /\ UNCHANGED <<disk, unsent, files, toScan, missed>>
        /\ buffer' = [buffer EXCEPT ![f] = t]
    BY <1>2 DEF Edit, Act, serverVars
  <2>3. \A g \in Files : g # f => Current(g)' = Current(g) /\ ~ Text(m, g)
    BY <1>0, <2>2 DEF Current, Text
  <2>4. Text(m, f) /\ m.text \in Current(f)'
    BY <1>0, <1>b, <2>2 DEF Current, Text
  <2> QED
    BY <2>1, <2>2, <2>3, <2>4, TrackedSend
<1>3. ASSUME NEW f \in Files, DeleteOutside(f) PROVE Tracked'
  BY <1>3, TrackedDiskChange DEF DeleteOutside, Act, serverVars
<1>4. ASSUME NEW f \in Files, Open(f) PROVE Tracked'
  <2> DEFINE m == [method |-> "didOpen", file |-> f, text |-> disk[f]]
  <2>1. m \in Message /\ Send(m)
    BY <1>a, <1>4, Messages DEF Open
  <2>2. /\ UNCHANGED <<disk, unsent, files, toScan, missed>>
        /\ buffer' = [buffer EXCEPT ![f] = disk[f]]
    BY <1>4 DEF Open, Act, serverVars
  <2>3. \A g \in Files : g # f => Current(g)' = Current(g) /\ ~ Text(m, g)
    BY <1>0, <2>2 DEF Current, Text
  <2>4. Text(m, f) /\ m.text \in Current(f)'
    BY <2>2 DEF Current, Text
  <2> QED
    BY <2>1, <2>2, <2>3, <2>4, TrackedSend
<1>5. ASSUME NEW f \in Files, Save(f) PROVE Tracked'
  <2>1. \E m \in Message : Send(m) /\ m.method = "didSave"
    BY <1>5, Messages DEF Save
  <2>2. /\ DiskChange(WriteType(f), f, buffer[f]) /\ buffer[f] # Nothing
        /\ UNCHANGED <<buffer, files, toScan>>
    BY <1>5 DEF Save, Act, serverVars
  <2> QED
    BY <1>a, <2>1, <2>2, TrackedDiskChange
<1>6. ASSUME NEW f \in Files, Close(f) PROVE Tracked'
  <2> DEFINE m == [method |-> "didClose", file |-> f]
  <2>1. m \in Message /\ Send(m) /\ \A g : ~ Text(m, g)
    BY <1>6, Messages DEF Close, Text
  <2>2. /\ UNCHANGED <<disk, unsent, files, toScan>>
        /\ buffer' = [buffer EXCEPT ![f] = Nothing]
        /\ missed' = IF buffer[f] # disk[f] THEN Misses({f}, "discarded") ELSE missed
    BY <1>6 DEF Close, Act, serverVars
  <2>3. \A g \in Files : missed'[g] = "no" =>
            missed[g] = "no" /\ (g = f => buffer[f] = disk[f])
    BY <1>0, <2>2 DEF Misses
  <2>4. \A g \in Files : missed'[g] = "no" => Current(g) \subseteq Current(g)'
    BY <1>0, <2>2, <2>3 DEF Current
  <2> QED
    BY <2>1, <2>2, <2>3, <2>4, TrackedSend
<1>7. ASSUME NEW f \in Files, Ask(f) PROVE Tracked'
  <2> DEFINE m == [method |-> "request", file |-> f, text |-> buffer[f]]
  <2>1. m \in Message /\ Send(m) /\ \A g : ~ Text(m, g)
    BY <1>a, <1>7, Messages DEF Ask, Text
  <2>2. UNCHANGED <<disk, buffer, unsent, files, toScan, missed>>
    BY <1>7 DEF Ask, Act, serverVars
  <2>3. \A g : Current(g)' = Current(g)
    BY <2>2 DEF Current
  <2> QED
    BY <2>1, <2>2, <2>3, TrackedSend
<1>8. CASE Shutdown
  <2> DEFINE m == [method |-> "shutdown"]
  <2>1. m \in Message /\ Send(m) /\ \A g : ~ Text(m, g)
    BY <1>8, Messages DEF Shutdown, Text
  <2>2. UNCHANGED <<disk, buffer, unsent, files, toScan, missed>>
    BY <1>8 DEF Shutdown, Act, serverVars
  <2>3. \A g : Current(g)' = Current(g)
    BY <2>2 DEF Current
  <2> QED
    BY <2>1, <2>2, <2>3, TrackedSend
<1>9. CASE Announce
  <2>1. /\ queue' = Append(queue, [method |-> "didChangeWatchedFiles", changes |-> unsent])
        /\ unsent' = <<>>
        /\ UNCHANGED <<disk, buffer, files, toScan, missed>>
    BY <1>9 DEF Announce, Send, serverVars
  <2>2. \A f : Current(f)' = Current(f)
    BY <2>1 DEF Current
  <2>3. EventsTell'
    BY <1>0, <2>1, TellsAnnounce DEF Tracked, EventsTell
  <2>4. Followed'
    BY <1>0, <2>1, <2>2, FollowsAnnounce DEF Tracked, Followed
  <2> QED
    BY <2>3, <2>4 DEF Tracked
<1>10. CASE RegisterWatcher \/ ScanDone \/ UNCHANGED vars
  <2>1. UNCHANGED <<disk, buffer, unsent, queue, files, toScan, missed>>
    BY <1>10 DEF RegisterWatcher, ScanDone, vars, serverVars, worldVars
  <2>2. \A f : Current(f)' = Current(f)
    BY <2>1 DEF Current
  <2> QED
    BY <2>1, <2>2 DEF Tracked, EventsTell, Followed
<1>11. ASSUME NEW f \in Files, ScanFile(f) PROVE Tracked'
  <2>1. /\ UNCHANGED <<disk, buffer, unsent, queue, missed>>
        /\ files' = [files EXCEPT ![f] = disk[f]] /\ toScan' = toScan \ {f}
    BY <1>11 DEF ScanFile, worldVars
  <2>2. \A g : Current(g)' = Current(g) /\ disk[g] \in Current(g)
    BY <2>1 DEF Current
  <2>3. ASSUME NEW g \in Files, Follows(queue, unsent, files, toScan, g, Current(g))
        PROVE  Follows(queue, unsent, files', toScan', g, Current(g))
    <3>1. g \in toScan \/ files[g] \in Current(g) => g \in toScan' \/ files'[g] \in Current(g)
      BY <1>0, <2>1, <2>2
    <3> QED
      BY <2>3, <3>1 DEF Follows
  <2>4. Followed'
    BY <2>1, <2>2, <2>3 DEF Tracked, Followed
  <2>5. EventsTell'
    BY <2>1 DEF Tracked, EventsTell
  <2> QED
    BY <2>4, <2>5 DEF Tracked
<1>12. CASE did_open \/ did_change
  <2>1. PICK method \in {"didOpen", "didChange"} : Receive(method)
    BY <1>12 DEF did_open, did_change
  <2>2. Head(queue).method = method /\ Head(queue).file \in Files
    BY <2>1, ReceiveTyped, Fields
  <2>3. files' = [files EXCEPT ![Head(queue).file] = Head(queue).text] /\ missed' = missed
    BY <1>12 DEF did_open, did_change
  <2> QED
    BY <1>0, <2>1, <2>2, <2>3, TrackedReceive DEF Text, Watch
<1>13. CASE did_save \/ did_close \/ handle_request \/ handle_shutdown
  <2>1. PICK method \in {"didSave", "didClose", "request", "shutdown"} : Receive(method)
    BY <1>13 DEF did_save, did_close, handle_request, handle_shutdown
  <2>2. Head(queue).method = method
    BY <2>1, ReceiveTyped
  <2>3. UNCHANGED <<files, missed>>
    BY <1>13 DEF did_save, did_close, handle_request, handle_shutdown
  <2> QED
    BY <2>1, <2>2, <2>3, TrackedReceive DEF Text, Watch
<1>14. CASE handle_watched_file_changes
  <2> DEFINE c == Head(queue).changes
  <2>1. Receive("didChangeWatchedFiles") /\ Head(queue).method = "didChangeWatchedFiles"
    BY <1>14, ReceiveTyped DEF handle_watched_file_changes
  <2>2. /\ c \in Seq(Change) /\ files' = AfterChanges(c)
        /\ missed' = Misses({f \in open_files : Mentions(c, f) /\ files'[f] # disk[f]}, "skipped")
    BY <1>14, Watched
  <2>3. 1 \in DOMAIN queue /\ queue[1] = Head(queue)
    BY <1>0, <2>1 DEF Receive
  <2> HIDE DEF c
  <2>4. ASSUME NEW f \in Files, missed'[f] = "no"
        PROVE  missed[f] = "no" /\ (f \in open_files /\ Mentions(c, f) => files'[f] = disk[f])
    BY <1>0, <2>2, <2>4 DEF Misses
  <2>5. ASSUME NEW f \in Files, missed'[f] = "no", Mentions(c, f), ~ Mentions(unsent, f),
               \A k \in DOMAIN queue : k > 1 => ~ Watch(queue[k], f)
        PROVE  files'[f] = disk[f]
    <3>1. LastTells(c, f, disk[f])
      BY <2>1, <2>3, <2>5 DEF Tracked, EventsTell, PendingTells, Watch, c
    <3>2. CASE f \in open_files
      BY <2>4, <2>5, <3>2
    <3>3. CASE f \notin open_files
      BY <2>2, <2>5, <3>1, <3>3, BatchReads
    <3> QED
      BY <3>2, <3>3
  <2>6. ASSUME NEW f \in Files, ~ Mentions(c, f)
        PROVE  files'[f] = files[f]
    BY <2>2, <2>6, AfterChangesLast DEF Mentions
  <2>7. \A f : ~ Text(Head(queue), f) /\ (Watch(Head(queue), f) <=> Mentions(c, f))
    BY <2>1 DEF Text, Watch, c
  <2> QED
    BY <2>1, <2>4, <2>5, <2>6, <2>7, TrackedReceive
<1> QED
  BY <1>1, <1>2, <1>3, <1>4, <1>5, <1>6, <1>7, <1>8, <1>9, <1>10, <1>11, <1>12, <1>13,
     <1>14 DEF Next, Server

(* The watcher's last word on a file is true, and every file the server has  *)
(* not missed a change of is, or will be once the messages are handled, as   *)
(* on disk or as in the editor.                                              *)
THEOREM TrackedInvariant == Spec => []Tracked
<1>1. Init => Tracked
  <2> SUFFICES ASSUME Init PROVE Tracked
    OBVIOUS
  <2>1. unsent = <<>> /\ queue = <<>> /\ DOMAIN queue = {} /\ DOMAIN unsent = {} /\ toScan = Files
    BY DEF Init
  <2>2. EventsTell
    BY <2>1 DEF EventsTell, PendingTells, LastTells
  <2>3. Followed
    BY <2>1 DEF Followed, Follows
  <2> QED
    BY <2>2, <2>3 DEF Tracked
<1>2. Typed /\ Tracked /\ [Next]_vars => Tracked'
  BY TrackedStep
<1> QED
  BY <1>1, <1>2, TypedInvariant, PTL DEF Spec

(* Once all messages are handled, a file that is not open in the editor is   *)
(* not open for the server and has the text it has on disk, unless a change  *)
(* fell into one of the three recorded windows (scan_workspace, the          *)
(* notification handlers and handle_watched_file_changes, lsp.rs 194-443).   *)
THEOREM ClosedFilesAreAsOnDisk == Spec => []ClosedFilesFollowDisk
<1>1. Typed /\ Ordered /\ Tracked /\ ScansFirst => ClosedFilesFollowDisk
  <2> SUFFICES ASSUME Typed, Ordered, Tracked, ScansFirst, Quiet,
                      NEW f \in Files, buffer[f] = Nothing
               PROVE  f \notin open_files /\ (missed[f] = "no" => files[f] = disk[f])
    BY DEF ClosedFilesFollowDisk
  <2>1. /\ queue = <<>> /\ unsent = <<>> /\ Len(queue) = 0 /\ DOMAIN queue = {}
        /\ DOMAIN unsent = {} /\ toScan = {}
    BY DEF Quiet, ScansFirst
  <2>2. f \notin open_files
    <3>1. ClosedAfter(queue, open_files, f, 0)
      BY <2>1 DEF Ordered, InStep
    <3> QED
      BY <3>1 DEF ClosedAfter
  <2>3. missed[f] = "no" => files[f] \in Current(f)
    BY <2>1 DEF Tracked, Followed, Follows, Mentions
  <2> QED
    BY <2>2, <2>3 DEF Current
<1>2. Init => ScansFirst
  BY DEF Init, ScansFirst
<1>3. ScansFirst /\ [Next]_vars => ScansFirst'
  <2> SUFFICES ASSUME ScansFirst, [Next]_vars PROVE ScansFirst'
    OBVIOUS
  <2> USE DEF ScansFirst
  <2>1. ASSUME NEW f \in Files, NEW t \in Texts, WriteOutside(f, t) \/ Edit(f, t)
        PROVE  ScansFirst'
    BY <2>1 DEF WriteOutside, Edit, Act, serverVars
  <2>2. ASSUME NEW f \in Files, DeleteOutside(f) \/ Open(f) \/ Save(f) \/ Close(f) \/ Ask(f)
        PROVE  ScansFirst'
    BY <2>2 DEF DeleteOutside, Open, Save, Close, Ask, Act, serverVars
  <2>3. CASE Shutdown \/ Announce \/ RegisterWatcher \/ UNCHANGED vars
    BY <2>3 DEF Shutdown, Announce, RegisterWatcher, Act, serverVars, vars
  <2>4. CASE ScanDone \/ \E f \in Files : ScanFile(f)
    BY <2>4 DEF ScanDone, ScanFile
  <2>5. CASE did_open \/ did_change \/ did_save \/ did_close \/ handle_watched_file_changes
    BY <2>5 DEF did_open, did_change, did_save, did_close, handle_watched_file_changes, Receive
  <2>6. CASE handle_request \/ handle_shutdown
    BY <2>6 DEF handle_request, handle_shutdown, Receive
  <2> QED
    BY <2>1, <2>2, <2>3, <2>4, <2>5, <2>6 DEF Next, Server
<1> QED
  BY <1>1, <1>2, <1>3, TypedInvariant, OrderedInvariant, TrackedInvariant, PTL DEF Spec

================================================================================
