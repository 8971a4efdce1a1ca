----------------------------- MODULE PlaySession -----------------------------
(***************************************************************************)
(* The loop of `stasis play` (apps/stasis/src/lib.rs): between two ticks it *)
(* gives the live workspace its boundary, takes the result of the watch     *)
(* compile, starts the next one, and asks the watcher for changed files.    *)
(*                                                                         *)
(* Around the loop run the worker of a watch compile, the worker of a live  *)
(* edit, the client of the live session, and an editor that writes source   *)
(* files at any moment.                                                     *)
(***************************************************************************)
EXTENDS LiveWorkspace

CONSTANTS
    Written,            \* the contents the editor saves in each file
    MaxWrites,          \* bound on the writes of the editor
    Start               \* the sources the session starts with

ASSUME SessionAssumption ==
    /\ Written \in [Files -> SUBSET Contents]
    /\ MaxWrites \in Nat
    /\ Start \in Sources
    /\ Compiles(Start)

VARIABLES
    writes,             \* writes of the editor so far
    requestedRevision,  \* requested_watch_revision
    finishedRevision,   \* finished_watch_revision
    watchJob            \* watch_patch_job

sessionVars == <<writes, requestedRevision, finishedRevision, watchJob>>
vars == <<workspaceVars, sessionVars>>

Init ==
    /\ disk = Start /\ running = Start
    /\ events = {} /\ hostRevision = 1
    /\ connected = TRUE /\ sent = 0 /\ inbox = <<>> /\ heard = {}
    /\ mailbox = <<>> /\ pendingResponses = <<>> /\ quit = FALSE
    /\ pendingRequests = <<>> /\ controls = <<>> /\ budget = 0
    /\ preparation = None /\ commit = None
    /\ pendingPlan = None /\ history = <<>> /\ historyCursor = 0 /\ receipts = {}
    /\ selfWriteHashes = [f \in Files |-> None]
    /\ hostEntryRevision = 1
    /\ pc = "boundary"
    /\ writes = 0 /\ requestedRevision = 0 /\ finishedRevision = 0 /\ watchJob = None

(***************************************************************************)
(* The environment.                                                        *)
(***************************************************************************)

\* The editor saves a file; the watcher sees the change.
Save(f, content) ==
    /\ pc # "done"
    /\ writes < MaxWrites
    /\ content # disk[f]
    /\ disk' = [disk EXCEPT ![f] = content]
    /\ events' = events \union {f}
    /\ writes' = writes + 1
    /\ UNCHANGED <<running, hostRevision, clientVars, replyVars, editVars, requestVars,
                   preparation, commit, pc, requestedRevision, finishedRevision, watchJob>>

\* The client submits its next request; a full queue refuses it.
Submit(command) ==
    /\ pc # "done" /\ connected
    /\ sent < MaxRequests /\ Len(inbox) < Capacity
    /\ command.op \in Ops
    /\ command.op = "cancel" => command.target <= sent
    /\ sent' = sent + 1
    /\ inbox' = Append(inbox, [id |-> sent', command |-> command])
    /\ UNCHANGED <<worldVars, connected, heard, replyVars, editVars, requestVars,
                   preparation, commit, pc, sessionVars>>

\* The client takes a response out of its mailbox.
Receive ==
    /\ connected /\ mailbox # <<>>
    /\ heard' = heard \union {Head(mailbox)}
    /\ mailbox' = Tail(mailbox)
    /\ UNCHANGED <<worldVars, connected, sent, inbox, pendingResponses, quit, editVars,
                   requestVars, preparation, commit, pc, sessionVars>>

\* The client drops its end of the session.
Disconnect ==
    /\ pc # "done" /\ connected /\ "disconnect" \in Ops
    /\ connected' = FALSE
    /\ UNCHANGED <<worldVars, sent, inbox, heard, replyVars, editVars, requestVars,
                   preparation, commit, pc, sessionVars>>

(***************************************************************************)
(* The watch compile.                                                      *)
(***************************************************************************)

\* start_watch_patch_job: the worker reads the tracked sources one by one.
ReadSource(f) ==
    /\ watchJob # None /\ f \in watchJob.unread
    /\ watchJob' = [watchJob EXCEPT !.sources[f] = disk[f], !.unread = @ \ {f}]
    /\ UNCHANGED <<workspaceVars, writes, requestedRevision, finishedRevision>>

\* It compiles them and sends the result.
CompileSources ==
    /\ watchJob # None /\ watchJob.unread = {} /\ watchJob.result = None
    /\ watchJob' = [watchJob EXCEPT !.result = IF Compiles(watchJob.sources) THEN "ok" ELSE "error"]
    /\ UNCHANGED <<workspaceVars, writes, requestedRevision, finishedRevision>>

\* No revision counts as finished.
FinishNothing(job) == finishedRevision

\* The newest requested revision counts as finished when any job ends.
FinishRequested(job) == requestedRevision

\* The revision that counts as finished when a job ends.
FinishJob(job) == job.revision

\* The worker of the job has sent its result.
WatchReady == watchJob # None /\ watchJob.result # None

\* The loop takes the result of a finished job.  A superseded one is dropped, a
\* compile error and a swap the program rejects leave everything as it was, an
\* accepted one becomes the running program under the next host revision, and
\* the workspace takes note of it.
TakeWatchResult ==
    /\ pc = "watch"
    /\ WatchReady
    /\ finishedRevision' = FinishJob(watchJob)
    /\ watchJob' = None
    /\ \/ /\ watchJob.revision = requestedRevision
          /\ watchJob.result = "ok"
          /\ HookAccepts(watchJob.sources)
          /\ running' = watchJob.sources
          /\ hostRevision' = hostRevision + 1
          /\ hostEntryRevision' = SyncHostEntryRevision(hostRevision')
       \/ /\ \/ watchJob.revision < requestedRevision
             \/ watchJob.result = "error"
             \/ HookRejects(watchJob.sources)
          /\ UNCHANGED <<running, hostRevision, hostEntryRevision>>
    /\ pc' = "start"
    /\ UNCHANGED <<disk, events, clientVars, replyVars, pendingPlan, history, historyCursor,
                   receipts, selfWriteHashes, requestVars, preparation, commit, writes,
                   requestedRevision>>

\* No result yet.
SkipWatchResult ==
    /\ pc = "watch"
    /\ ~WatchReady
    /\ pc' = "start"
    /\ UNCHANGED <<worldVars, clientVars, replyVars, editVars, requestVars, preparation, commit,
                   sessionVars>>

\* A job is started for the newest requested revision when none is running.
StartWatchJob ==
    /\ pc = "start"
    /\ watchJob' = IF watchJob = None /\ requestedRevision > finishedRevision
                   THEN [revision |-> requestedRevision, sources |-> running,
                         unread |-> Files, result |-> None]
                   ELSE watchJob
    /\ pc' = "events"
    /\ UNCHANGED <<worldVars, clientVars, replyVars, editVars, requestVars, preparation, commit,
                   writes, requestedRevision, finishedRevision>>

\* consumes_self_write: a changed file that holds what the workspace wrote last.
ConsumesSelfWrite(f) == selfWriteHashes[f] = disk[f]

\* The watcher is asked for its changes.  A change of the workspace's own is
\* ignored; any other forgets what the workspace expected of the file, and asks
\* for a new revision.
DrainEvents ==
    /\ pc = "events"
    /\ LET foreign == {f \in events : ~ConsumesSelfWrite(f)}
       IN  /\ selfWriteHashes' = [f \in Files |-> IF f \in foreign THEN None ELSE selfWriteHashes[f]]
           /\ requestedRevision' = IF foreign # {} THEN requestedRevision + 1 ELSE requestedRevision
    /\ events' = {}
    /\ pc' = "tick"
    /\ UNCHANGED <<disk, running, hostRevision, clientVars, replyVars, pendingPlan, history,
                   historyCursor, receipts, hostEntryRevision, requestVars, preparation, commit,
                   writes, finishedRevision, watchJob>>

\* The tick runs, and the loop starts over.
Tick ==
    /\ pc = "tick"
    /\ pc' = "boundary"
    /\ UNCHANGED <<worldVars, clientVars, replyVars, editVars, requestVars, preparation, commit,
                   sessionVars>>

\* The window is closed, or the program ends.
CloseWindow ==
    /\ pc = "tick" /\ "close" \in Ops
    /\ pc' = "done"
    /\ UNCHANGED <<worldVars, clientVars, replyVars, editVars, requestVars, preparation, commit,
                   sessionVars>>

Workspace ==
    /\ \/ BlockedBoundary \/ DrainRequests \/ FinishPreparation \/ Activate
       \/ AnswerControls \/ HandleRequest \/ EndBoundary
    /\ UNCHANGED sessionVars

Loop == \/ Workspace \/ TakeWatchResult \/ SkipWatchResult \/ StartWatchJob
        \/ DrainEvents \/ Tick

EditWorker == PrepareEdit /\ UNCHANGED sessionVars
WatchWorker == (\E f \in Files : ReadSource(f)) \/ CompileSources

Done == pc = "done" /\ UNCHANGED vars

Next ==
    \/ Loop \/ CloseWindow \/ EditWorker \/ WatchWorker
    \/ \E f \in Files, content \in Contents : content \in Written[f] /\ Save(f, content)
    \/ \E command \in Commands : Submit(command)
    \/ Receive \/ Disconnect
    \/ Done

\* The loop turns as long as the session lives; the two workers are threads the
\* system schedules; a client that stays takes its responses.
Fairness == /\ WF_vars(Loop) /\ WF_vars(EditWorker) /\ WF_vars(WatchWorker)
            /\ WF_vars(Receive)

Spec == Init /\ [][Next]_vars /\ Fairness

(***************************************************************************)
(* Properties.                                                             *)
(***************************************************************************)

\* Everything the workspace has said so far.
Said == heard \union Range(mailbox) \union Range(pendingResponses) \union Range(controls)

\* An edit whose cancel was acknowledged with `background: true` is never
\* committed, even when its preparation was ready at the boundary that took the
\* cancel (process_boundary, finish_edit_preparation).
CanceledNeverCommits ==
    \A ack \in Said :
        ack.kind = "canceling" /\ ack.background =>
            /\ Success(ack.target, "applied") \notin Said
            /\ commit # None => commit.id # ack.target

\* The sources after the first plans of the history, up to its cursor.
Replay(plans) ==
    LET replay[n \in 0 .. Len(plans)] ==
            IF n = 0 THEN Start ELSE ApplyPlan(plans[n], FALSE, replay[n - 1])
    IN  replay

Replayed == Replay(history)[historyCursor]

\* Without an editor beside the session, the disk and the running program are
\* what the history says up to its cursor, whatever was undone, redone, canceled
\* or failed on the way (commit_prepared, rollback_prepared), and every entry of
\* the history keeps its receipt: an undo or redo that fails does not take it
\* along (cleanup_new_receipt).
HistoryReplays ==
    /\ pc # "activate" => disk = Replayed /\ running = Replayed
    /\ Range(history) \subseteq receipts

\* When a prepared edit is about to be activated, every file of its program is
\* as on disk, or the watcher has a change of it to report: nothing the
\* preparation read long before has changed unnoticed
\* (verify_prepared_input_hashes).
CommitMatchesDisk ==
    commit # None =>
        \A f \in Files : commit.edit.candidate[f] = disk[f] \/ f \in events

\* Nothing is on its way.
Quiet ==
    /\ pc = "boundary" /\ events = {}
    /\ watchJob = None /\ requestedRevision = finishedRevision
    /\ preparation = None /\ inbox = <<>> /\ pendingRequests = <<>>

\* The live workspace has not written to a file since the last report of a
\* change, and no edit of it has been committed.
LiveWroteNothing == history = <<>> /\ \A f \in Files : selfWriteHashes[f] = None

\* When nothing is on its way, the program that runs is the one on disk, unless
\* that does not compile or rejects its swap: a superseded compile is dropped,
\* and the newest revision is compiled however the saves fall.  Only
\* until the first live commit: a watch job that read the sources before one
\* publishes them after it.
RunsTheDisk ==
    Quiet /\ LiveWroteNothing /\ Compiles(disk) /\ HookAccepts(disk) => running = disk

\* Every request is answered for good, unless the session ends, also when the
\* mailbox is full and responses have to wait (process_boundary).
RequestsAnswered ==
    \A id \in Ids :
        (sent >= id) ~> (pc = "done" \/ ~connected \/ \E r \in heard : r.id = id /\ Final(r))

\* Once the editor stops writing, every change is taken up: no event, no job and
\* no requested revision is left (the watch part of the loop).
ChangesSettle ==
    <>[](pc = "done" \/ (events = {} /\ watchJob = None /\ requestedRevision = finishedRevision))
=============================================================================
