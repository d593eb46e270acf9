------------------------------ MODULE LspWorkspace ------------------------------
(***************************************************************************)
(* The language server's view of the workspace (spar-cli, lsp.rs): the     *)
(* start-up scan, the notification handlers and the request path of the    *)
(* single-threaded main loop, against an editor that sends messages over a *)
(* FIFO channel, a file system that other programs change, and the         *)
(* editor's file watcher.                                                  *)
(*                                                                         *)
(* A text is a model value.  Diagnostics of a file are a function of its   *)
(* text alone (parse, naming and category rules), so what the editor shows *)
(* is identified with the text it was computed from.  The global scope is  *)
(* identified with the texts it was built from.                            *)
(***************************************************************************)
EXTENDS Integers, Sequences, FiniteSetsExt

CONSTANTS
    Files,      \* URIs of .aadl files in the workspace
    Texts,      \* file contents
    Nothing,    \* no file, no buffer, no diagnostics
    MaxOps,     \* bound: operations of the editor, the user and other programs
    MaxQueue    \* bound: messages in flight to the server

ASSUME LspAssumption ==
    /\ Nothing \notin Texts
    /\ MaxOps \in Nat
    /\ MaxQueue \in Nat \ {0}

VARIABLES
    \* the world outside the server
    disk,           \* file contents on disk
    buffer,         \* the editor's open buffers
    unsent,         \* watcher events not yet announced: <<type, file>>
    queue,          \* messages from the editor, oldest first
    shown,          \* diagnostics the editor displays, as the text they are for
    ops,            \* operations performed so far (see MaxOps)
    \* ServerState
    mode,           \* "scan", "run" or "stopped"
    toScan,         \* files the start-up scan has not visited
    watching,       \* the editor has registered the file watcher
    files,          \* ServerState::files with the salsa text of each
    open_files,     \* ServerState::open_files
    global_scope,   \* the texts the GlobalScope was built from
    answer,         \* the last response: the text it was computed from
    \* history
    missed          \* why the server may not have a file's last change, "no" if it will

worldVars == <<disk, buffer, unsent, ops>>
serverVars == <<mode, toScan, files, open_files, global_scope>>
vars == <<worldVars, queue, shown, serverVars, watching, answer, missed>>

Maybe == Texts \cup {Nothing}
NoAnswer == [file |-> Nothing, text |-> Nothing, asked |-> Nothing]

Init ==
    /\ disk \in [Files -> Maybe]
    /\ buffer = [f \in Files |-> Nothing]
    /\ unsent = <<>> /\ queue = <<>>
    /\ shown = [f \in Files |-> Nothing]
    /\ ops = 0
    /\ mode = "scan" /\ toScan = Files /\ watching = FALSE
    /\ files = [f \in Files |-> Nothing]
    /\ open_files = {}
    /\ global_scope = [f \in Files |-> Nothing]
    /\ answer = NoAnswer
    /\ missed = [f \in Files |-> "no"]

--------------------------------------------------------------------------------
(* The editor, its user, other programs, and the file watcher.               *)

Act == /\ ops < MaxOps
       /\ ops' = ops + 1
       /\ UNCHANGED <<serverVars, shown, answer, watching>>
Send(m) == Len(queue) < MaxQueue /\ queue' = Append(queue, m)

(* The server will read f itself: the scan is still to come, and no text of  *)
(* an editor is on the way that would replace what the scan reads.           *)
WillBeScanned(f) ==
    /\ f \in toScan
    /\ \A i \in DOMAIN queue : queue[i].method \in {"didOpen", "didChange"} => queue[i].file # f

(* A change on disk: announced when the watcher is registered, and otherwise *)
(* lost on the server if it does not read the file any more.                 *)
DiskChange(type, f, content) ==
    /\ disk' = [disk EXCEPT ![f] = content]
    /\ unsent' = IF watching THEN Append(unsent, <<type, f>>) ELSE unsent
    /\ missed' = [missed EXCEPT ![f] = IF watching \/ WillBeScanned(f) THEN "no" ELSE "unwatched"]

(* The first reason a file's text is not followed is the one recorded. *)
Misses(S, why) == [f \in Files |-> IF f \in S /\ missed[f] = "no" THEN why ELSE missed[f]]

WriteType(f) == IF disk[f] = Nothing THEN "CREATED" ELSE "CHANGED"

WriteOutside(f, t) ==
    /\ Act
    /\ disk[f] # t
    /\ DiskChange(WriteType(f), f, t)
    /\ UNCHANGED <<buffer, queue>>

DeleteOutside(f) ==
    /\ Act
    /\ disk[f] # Nothing
    /\ DiskChange("DELETED", f, Nothing)
    /\ UNCHANGED <<buffer, queue>>

Open(f) ==
    /\ Act
    /\ buffer[f] = Nothing /\ disk[f] # Nothing
    /\ buffer' = [buffer EXCEPT ![f] = disk[f]]
    /\ Send([method |-> "didOpen", file |-> f, text |-> disk[f]])
    /\ UNCHANGED <<disk, unsent, missed>>

Edit(f, t) ==
    /\ Act
    /\ buffer[f] \notin {Nothing, t}
    /\ buffer' = [buffer EXCEPT ![f] = t]
    /\ Send([method |-> "didChange", file |-> f, text |-> t])
    /\ UNCHANGED <<disk, unsent, missed>>

Save(f) ==
    /\ Act
    /\ buffer[f] # Nothing
    /\ DiskChange(WriteType(f), f, buffer[f])
    /\ Send([method |-> "didSave", file |-> f])
    /\ UNCHANGED buffer

(* Closing without saving discards the buffer: nothing changes on disk, so   *)
(* no watcher event will follow.                                             *)
Close(f) ==
    /\ Act
    /\ buffer[f] # Nothing
    /\ buffer' = [buffer EXCEPT ![f] = Nothing]
    /\ missed' = IF buffer[f] # disk[f] THEN Misses({f}, "discarded") ELSE missed
    /\ Send([method |-> "didClose", file |-> f])
    /\ UNCHANGED <<disk, unsent>>

(* A request (hover, definition, rename, ...) about an open document. *)
Ask(f) ==
    /\ Act
    /\ buffer[f] # Nothing
    /\ Send([method |-> "request", file |-> f, text |-> buffer[f]])
    /\ UNCHANGED <<disk, buffer, unsent, missed>>

(* The editor announces everything its watcher collected in one message. *)
Announce ==
    /\ unsent # <<>>
    /\ Send([method |-> "didChangeWatchedFiles", changes |-> unsent])
    /\ unsent' = <<>>
    /\ UNCHANGED <<disk, buffer, ops, serverVars, shown, answer, watching, missed>>

Shutdown ==
    /\ Act
    /\ Send([method |-> "shutdown"])
    /\ \A i \in DOMAIN queue : queue[i].method # "shutdown"
    /\ UNCHANGED <<disk, buffer, unsent, missed>>

--------------------------------------------------------------------------------
(* The server.  scan_workspace reads the files one after the other, in the   *)
(* directory's order; the scope is built and the watcher registered after.   *)

ScanFile(f) ==
    /\ mode = "scan" /\ f \in toScan
    /\ files' = [files EXCEPT ![f] = disk[f]]
    /\ toScan' = toScan \ {f}
    /\ UNCHANGED <<worldVars, queue, shown, mode, open_files, global_scope, watching, answer, missed>>

ScanDone ==
    /\ mode = "scan" /\ toScan = {}
    /\ global_scope' = files
    /\ mode' = "run"
    /\ UNCHANGED <<worldVars, queue, shown, toScan, files, open_files, watching, answer, missed>>

(* The editor receives client/registerCapability and starts watching. *)
RegisterWatcher ==
    /\ mode = "run" /\ ~watching
    /\ watching' = TRUE
    /\ UNCHANGED <<worldVars, queue, shown, serverVars, answer, missed>>

Receive(method) ==
    /\ mode = "run" /\ queue # <<>>
    /\ Head(queue).method = method
    /\ queue' = Tail(queue)
    /\ UNCHANGED <<worldVars, toScan, watching>>

(* publish_diagnostics: silent when the file is not known. *)
Publish(S, fs) == shown' = [f \in Files |-> IF f \in S /\ fs[f] # Nothing THEN fs[f] ELSE shown[f]]

did_open ==
    /\ Receive("didOpen")
    /\ LET m == Head(queue)
       IN  /\ open_files' = open_files \cup {m.file}
           /\ files' = [files EXCEPT ![m.file] = m.text]
           /\ global_scope' = files'
           /\ Publish({m.file}, files')
    /\ UNCHANGED <<mode, answer, missed>>

(* Mutant: a change is stored and its diagnostics are not published. *)
did_change_Silent ==
    /\ Receive("didChange")
    /\ files' = [files EXCEPT ![Head(queue).file] = Head(queue).text]
    /\ global_scope' = files'
    /\ UNCHANGED <<mode, open_files, shown, answer, missed>>

did_change ==
    /\ Receive("didChange")
    /\ LET m == Head(queue)
       IN  /\ files' = [files EXCEPT ![m.file] = m.text]
           /\ global_scope' = files'
           /\ Publish({m.file}, files')
    /\ UNCHANGED <<mode, open_files, answer, missed>>

did_save ==
    /\ Receive("didSave")
    /\ Publish({Head(queue).file}, files)
    /\ UNCHANGED <<mode, files, open_files, global_scope, answer, missed>>

did_close ==
    /\ Receive("didClose")
    /\ open_files' = open_files \ {Head(queue).file}
    /\ UNCHANGED <<mode, files, global_scope, shown, answer, missed>>

(* Mutants: a change on disk is read whether or not the document is open; a  *)
(* deleted file is kept; a created file is not read.                         *)
Applies_OpenToo(change) == change[1] = "DELETED" \/ disk[change[2]] # Nothing

Applies_KeepDeleted(change) ==
    change[1] # "DELETED" /\ change[2] \notin open_files /\ disk[change[2]] # Nothing

Applies_NoCreated(change) ==
    \/ change[1] = "DELETED"
    \/ change[1] = "CHANGED" /\ change[2] \notin open_files /\ disk[change[2]] # Nothing

(* Whether an entry of the batch does anything: a read may fail, a deletion  *)
(* does not look at open_files.                                              *)
Applies(change) ==
    \/ change[1] = "DELETED"
    \/ change[2] \notin open_files /\ disk[change[2]] # Nothing

(* What it leaves of its file; the read is of the disk as it is now. *)
ApplyChange(change) == IF change[1] = "DELETED" THEN Nothing ELSE disk[change[2]]

(* The loop over the batch: every entry overwrites what the ones before it   *)
(* left of the same file, and touches no other file.                         *)
AfterChanges(changes) ==
    [f \in Files |->
        LET applied == {i \in DOMAIN changes : changes[i][2] = f /\ Applies(changes[i])}
        IN  IF applied = {} THEN files[f] ELSE ApplyChange(changes[Max(applied)])]

(* Mutant: the batch is applied and the scope is not rebuilt. *)
handle_watched_NoRescope ==
    /\ Receive("didChangeWatchedFiles")
    /\ files' = AfterChanges(Head(queue).changes)
    /\ Publish(open_files, files')
    /\ UNCHANGED <<mode, open_files, global_scope, answer, missed>>

handle_watched_file_changes ==
    /\ Receive("didChangeWatchedFiles")
    /\ LET changes == Head(queue).changes
           changed == \E i \in DOMAIN changes : Applies(changes[i])
           skipped == {f \in open_files : /\ \E i \in DOMAIN changes : changes[i][2] = f
                                          /\ files'[f] # disk[f]}
       IN  /\ files' = AfterChanges(changes)
           /\ IF changed
                THEN global_scope' = files' /\ Publish(open_files, files')
                ELSE UNCHANGED <<global_scope, shown>>
           /\ missed' = Misses(skipped, "skipped")
    /\ UNCHANGED <<mode, open_files, answer>>

(* handle_request answers from the file's current text, or null. *)
handle_request ==
    /\ Receive("request")
    /\ LET m == Head(queue)
       IN  answer' = [file |-> m.file, text |-> files[m.file], asked |-> m.text]
    /\ UNCHANGED <<mode, files, open_files, global_scope, shown, missed>>

handle_shutdown ==
    /\ Receive("shutdown")
    /\ mode' = "stopped"
    /\ UNCHANGED <<files, open_files, global_scope, shown, answer, missed>>

Server ==
    \/ \E f \in Files : ScanFile(f)
    \/ ScanDone
    \/ did_open \/ did_change \/ did_save \/ did_close
    \/ handle_watched_file_changes
    \/ handle_request
    \/ handle_shutdown

Next ==
    \/ \E f \in Files : \/ \E t \in Texts : WriteOutside(f, t) \/ Edit(f, t)
                        \/ DeleteOutside(f) \/ Open(f) \/ Save(f) \/ Close(f) \/ Ask(f)
    \/ Shutdown
    \/ Announce
    \/ RegisterWatcher
    \/ Server

Spec == Init /\ [][Next]_vars

(* The main loop blocks only on an empty channel, and the editor forwards    *)
(* its watcher's events and the registration: all three keep running.  The   *)
(* user and other programs owe nothing.                                      *)
Fairness == WF_vars(Server) /\ WF_vars(Announce) /\ WF_vars(RegisterWatcher)

FairSpec == Spec /\ Fairness

--------------------------------------------------------------------------------
(* Names resolve against the texts the server holds: no handler leaves the   *)
(* global scope behind the files it was built from (lsp.rs 215-241, 439).    *)
ScopeCurrent == mode = "run" => global_scope = files

(* The diagnostics on screen for an open document the server knows are those *)
(* of its current text, also after a batch of watcher events and a late save *)
(* (publish_diagnostics and its callers, lsp.rs 367-443).                    *)
DiagnosticsCurrent == \A f \in open_files : files[f] # Nothing => shown[f] = files[f]

(* A request about an open document is answered from the text the editor had *)
(* when it asked, or with null, and never from what happens to be on disk,   *)
(* whatever the order of edits, saves and watcher events (lsp.rs 420-430).   *)
AnswersFromEditorText == answer.text \in {answer.asked, Nothing}

Quiet == mode = "run" /\ queue = <<>> /\ unsent = <<>>

(* Once all messages are handled, a file that is not open in the editor is   *)
(* not open for the server either and has the text it has on disk, created,  *)
(* changed and deleted files included, except for the three windows `missed` *)
(* records: changes between the start-up scan and the watcher's registration,*)
(* events ignored while the file was open, buffers closed without saving.    *)
ClosedFilesFollowDisk ==
    Quiet => \A f \in Files : buffer[f] = Nothing =>
                /\ f \notin open_files
                /\ missed[f] = "no" => files[f] = disk[f]

(* A change on disk of a closed file outside those windows reaches the       *)
(* server, however many messages are ahead of it.                            *)
WritesReachServer ==
    \A f \in Files, t \in Maybe :
        (disk[f] = t /\ buffer[f] = Nothing /\ missed[f] = "no" /\ f \notin open_files)
            ~> (\/ files[f] = t \/ disk[f] # t \/ buffer[f] # Nothing \/ missed[f] # "no"
                \/ mode = "stopped")

(* The comment on the watcher handler: the file on disk is read "unless it's *)
(* already open with editor contents" (lsp.rs 421), that is, an open         *)
(* document keeps the contents the editor sent.                              *)
OpenDocumentsKept == \A f \in open_files : files[f] # Nothing

================================================================================
