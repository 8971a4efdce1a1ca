---------------------------- MODULE LiveWorkspace ----------------------------
(***************************************************************************)
(* The live workspace of `stasis play` and `stasis live`                   *)
(* (apps/stasis/src/live_workspace.rs): requests of a client are taken at  *)
(* the boundary between two ticks, an edit is prepared on a background      *)
(* worker, and a prepared edit is committed at a later boundary: sources on *)
(* disk, receipt, code and state together, or not at all.                   *)
(*                                                                         *)
(* Source text is abstracted to a content.  The import graph is fixed, so a *)
(* program is a map from the files to contents.  A content may fail to      *)
(* compile (Broken), make on_code_swap reject the program (Rejecting), and  *)
(* has a state layout.  A semantic edit is abstracted to the contents it    *)
(* gives the files it touches; running tests, and every other step of the   *)
(* preparation that can fail, is one choice between success and failure.    *)
(***************************************************************************)
EXTENDS Integers, Sequences, FiniteSets, Functions

CONSTANTS
    Files,              \* the source files of the project
    Contents,           \* what a file can hold
    Broken,             \* the contents that do not compile
    Rejecting,          \* the contents whose program rejects its own swap
    Layout,             \* the state layout a content declares
    Edits,              \* the edits a client can ask for: maps from files to contents
    Ops,                \* the commands the client uses, and how a session may end
    MaxRequests,        \* bound on the requests of the client
    Capacity,           \* of the request queue and of the client's mailbox
    MaxPending,         \* MAX_PENDING_LIVE_REQUESTS
    RequestsPerTick,    \* REQUESTS_PER_TICK
    IoFails,            \* whether writing sources or receipts can fail
    HookVaries,         \* whether a hook can reject any program, by what the game holds
    None

ASSUME WorkspaceAssumption ==
    /\ Broken \subseteq Contents /\ Rejecting \subseteq Contents
    /\ DOMAIN Layout = Contents
    /\ \A edit \in Edits : DOMAIN edit \subseteq Files /\ \A f \in DOMAIN edit : edit[f] \in Contents
    /\ Ops \subseteq {"edit", "preview", "apply", "undo", "redo", "cancel", "quit",
                     "disconnect", "close"}
    /\ MaxRequests \in Nat /\ Capacity \in Nat \ {0}
    /\ MaxPending \in Nat \ {0} /\ RequestsPerTick \in Nat \ {0}
    /\ IoFails \in BOOLEAN /\ HookVaries \in BOOLEAN
    /\ None \notin Contents

VARIABLES
    disk,               \* the sources on disk
    events,             \* files with a change the watcher has not been asked for
    running,            \* the sources of the active JIT process
    hostRevision,       \* the revision of the published host entry targets
    connected,          \* the client still holds its mailbox
    sent,               \* the requests of the client so far
    inbox,              \* the request queue of the session
    mailbox,            \* the client's mailbox
    heard,              \* the responses the client has taken from it
    pendingResponses,   \* responses the mailbox had no room for
    pendingRequests,
    controls,           \* the responses owed to the cancels and quits of this boundary
    preparation,        \* edit_preparation
    commit,             \* the prepared edit whose sources are written, not its code
    pendingPlan,
    history,
    historyCursor,
    receipts,           \* the plans with a receipt on disk
    selfWriteHashes,    \* the content the workspace expects of its own writes
    hostEntryRevision,  \* the last host revision the workspace knows
    quit,
    budget,             \* requests this boundary may still execute
    pc                  \* where the play loop is

worldVars   == <<disk, events, running, hostRevision>>
clientVars  == <<connected, sent, inbox, heard>>
replyVars   == <<mailbox, pendingResponses, quit>>
editVars    == <<pendingPlan, history, historyCursor, receipts, selfWriteHashes,
                 hostEntryRevision>>
requestVars == <<pendingRequests, controls, budget>>
workspaceVars == <<worldVars, clientVars, replyVars, editVars, requestVars,
                   preparation, commit, pc>>

Sources == [Files -> Contents]
Compiles(sources) == \A f \in Files : sources[f] \notin Broken
HookAccepts(sources) == \A f \in Files : sources[f] \notin Rejecting
HookRejects(sources) == HookVaries \/ ~HookAccepts(sources)
LayoutOf(sources) == [f \in Files |-> Layout[sources[f]]]

(***************************************************************************)
(* Requests and responses.                                                 *)
(***************************************************************************)

Ids == 1 .. MaxRequests

Commands ==
    UNION {{[op |-> "edit", edit |-> e, preview |-> FALSE] : e \in Edits},
           {[op |-> "preview", edit |-> e, preview |-> TRUE] : e \in Edits},
           {[op |-> op] : op \in {"apply", "undo", "redo", "quit"}},
           {[op |-> "cancel", target |-> id] : id \in Ids}}

Requests == [id : Ids, command : Commands]
IsControl(request) == request.command.op \in {"cancel", "quit"}

\* Whether the response is the last one to its request: every kind is, except
\* edit_preparing.
Final(response) == response.kind # "preparing"

Failure(id) == [id |-> id, kind |-> "failed"]
Success(id, kind) == [id |-> id, kind |-> kind]
CancelAck(id, target, background) ==
    [id |-> id, kind |-> "canceling", target |-> target, background |-> background]

\* Responses the mailbox has no room for are lost.
DeliverOrDrop(waiting, responses) ==
    LET coming == mailbox \o responses
    IN  /\ mailbox' = IF Len(coming) > Capacity THEN SubSeq(coming, 1, Capacity) ELSE coming
        /\ pendingResponses' = waiting

\* Responses go to the mailbox while it has room; the others are kept behind
\* those already waiting.
Deliver(waiting, responses) ==
    LET room == Capacity - Len(mailbox)
        fits == IF Len(responses) < room THEN Len(responses) ELSE room
    IN  IF connected
        THEN /\ mailbox' = mailbox \o SubSeq(responses, 1, fits)
             /\ pendingResponses' = waiting \o SubSeq(responses, fits + 1, Len(responses))
        ELSE UNCHANGED <<mailbox, pendingResponses>>

\* A response to a client that is gone ends the session.
HangsUp(responses) == ~connected /\ responses # <<>>

Post(waiting, responses) ==
    /\ Deliver(waiting, responses)
    /\ quit' = (quit \/ HangsUp(responses))

\* enqueue_response: a new response does not queue behind those that wait.
Respond(responses) == Post(pendingResponses, responses)

(***************************************************************************)
(* Semantic plans.  A plan maps the files it changes to the content it      *)
(* found and the content it writes; restoring it goes the other way.        *)
(***************************************************************************)

Plans == UNION {[S -> [before : Contents, after : Contents]] : S \in SUBSET Files}

PlanFor(edit, sources) ==
    [f \in {g \in DOMAIN edit : edit[g] # sources[g]} |->
        [before |-> sources[f], after |-> edit[f]]]

PlanSource(plan, restore, f) == IF restore THEN plan[f].before ELSE plan[f].after

\* The content files_for_plan and write_workshop_semantic_plan expect to find.
PlanFits(plan, restore, sources) ==
    \A f \in DOMAIN plan : sources[f] = PlanSource(plan, ~restore, f)

ApplyPlan(plan, restore, sources) ==
    [f \in Files |-> IF f \in DOMAIN plan THEN PlanSource(plan, restore, f) ELSE sources[f]]

\* remember_plan_hashes.
RememberPlanHashes(plan, restore) ==
    [f \in Files |-> IF f \in DOMAIN plan THEN PlanSource(plan, restore, f)
                     ELSE selfWriteHashes[f]]

\* The swap preview of a candidate: the functions it patches, and the state
\* layouts it goes between.
SwapPreview(active, candidate) ==
    [changed |-> {f \in Files : active[f] # candidate[f]},
     from |-> LayoutOf(active), to |-> LayoutOf(candidate)]

(***************************************************************************)
(* Preparing an edit in the background.                                    *)
(***************************************************************************)

\* What handle_request hands to the preparation: an edit to be planned against
\* the sources on disk, or a recorded plan with the preview it must reproduce.
EditInput(command) ==
    [edit |-> command.edit, restore |-> FALSE, expected |-> None,
     action |-> IF command.preview THEN "preview" ELSE "new"]
PlanInput(plan, restore, expected, action) ==
    [plan |-> plan, restore |-> restore, expected |-> expected, action |-> action]

\* Whether the command has something to work on.
HasInput(command) ==
    CASE command.op = "apply" -> pendingPlan # None
      [] command.op = "undo"  -> historyCursor > 0
      [] command.op = "redo"  -> historyCursor < Len(history)
      [] OTHER                -> TRUE

InputOf(command) ==
    CASE command.op = "apply" -> PlanInput(pendingPlan.plan, FALSE, pendingPlan.preview, "pending")
      [] command.op = "undo"  -> PlanInput(history[historyCursor], TRUE, None, "undo")
      [] command.op = "redo"  -> PlanInput(history[historyCursor + 1], FALSE, None, "redo")
      [] OTHER                -> EditInput(command)

\* prepare_edit on the sources read from disk.  Planning fails when nothing
\* changes or a recorded plan does not fit, and the candidate must compile.  A
\* new edit that changes a declared layout becomes a preview.
PlanOf(input, sources) ==
    IF "edit" \in DOMAIN input THEN PlanFor(input.edit, sources) ELSE input.plan

Prepares(input, sources) ==
    LET plan == PlanOf(input, sources)
    IN  /\ DOMAIN plan # {}
        /\ PlanFits(plan, input.restore, sources)
        /\ Compiles(ApplyPlan(plan, input.restore, sources))

PreparedAction(input, plan) ==
    IF input.action = "new" /\ \E f \in DOMAIN plan : Layout[plan[f].before] # Layout[plan[f].after]
    THEN "preview" ELSE input.action

Prepared(input, active, sources) ==
    LET plan      == PlanOf(input, sources)
        candidate == ApplyPlan(plan, input.restore, sources)
    IN  [ok |-> TRUE, plan |-> plan, restore |-> input.restore, expected |-> input.expected,
         action |-> PreparedAction(input, plan), inputs |-> sources,
         candidate |-> candidate, preview |-> SwapPreview(active, candidate)]

\* The worker of the preparation.  It gives up when it sees the cancel flag;
\* tests or any other step of it may fail.
PrepareEdit ==
    /\ preparation # None /\ preparation.result = None
    /\ \/ preparation' = [preparation EXCEPT !.result = [ok |-> FALSE]]
       \/ /\ ~preparation.canceled
          /\ Prepares(preparation.input, disk)
          /\ preparation' = [preparation EXCEPT !.result =
                                Prepared(preparation.input, preparation.active, disk)]
    /\ UNCHANGED <<worldVars, clientVars, replyVars, editVars, requestVars, commit, pc>>

(***************************************************************************)
(* process_boundary.                                                       *)
(***************************************************************************)

\* Whether every waiting response fits into the mailbox.
MayGoOn == Len(pendingResponses) <= Capacity - Len(mailbox)

\* Responses that found no room go first.  When they still do not fit, or the
\* client is gone, the boundary is over.
BlockedBoundary ==
    /\ pc = "boundary"
    /\ pendingResponses # <<>>
    /\ ~connected \/ ~MayGoOn
    /\ Post(<<>>, pendingResponses)
    /\ pc' = IF connected THEN "watch" ELSE "done"
    /\ UNCHANGED <<worldVars, clientVars, editVars, requestVars, preparation, commit>>

\* The cancel flag of the preparation, as the drained requests leave it.
FlagPreparation(targets, quitting) ==
    IF preparation # None /\ (quitting \/ preparation.id \in targets)
    THEN [preparation EXCEPT !.canceled = TRUE] ELSE preparation

\* What the boundary owes a cancel or a quit.
ControlResponse(request) ==
    IF request.command.op = "quit" THEN Success(request.id, "quitting")
    ELSE CancelAck(request.id, request.command.target,
                   preparation # None /\ preparation.id = request.command.target)

\* The members of a queue that lie in S, in their order.
Filtered(queue, S) ==
    LET taken[n \in 0 .. Len(queue)] ==
            IF n = 0 THEN <<>>
            ELSE IF queue[n] \in S THEN Append(taken[n - 1], queue[n]) ELSE taken[n - 1]
    IN  taken[Len(queue)]

\* How many of the drained requests the backlog has room for.
Admitted(requests) ==
    LET room == MaxPending - Len(pendingRequests)
    IN  IF Len(requests) < room THEN Len(requests) ELSE room

\* The queue is drained.  Cancels and quits flag the preparation at once; other
\* requests are admitted, and refused when the backlog is full; a cancel removes
\* its target from the backlog.
DrainRequests ==
    /\ pc = "boundary"
    /\ pendingResponses = <<>> \/ (connected /\ MayGoOn)
    /\ LET others   == Filtered(inbox, {r \in Range(inbox) : ~IsControl(r)})
           controlRequests == Filtered(inbox, {r \in Range(inbox) : IsControl(r)})
           targets  == {r.command.target : r \in {c \in Range(controlRequests) : c.command.op = "cancel"}}
           quitting == \E r \in Range(controlRequests) : r.command.op = "quit"
           admitted == Admitted(others)
           backlog  == pendingRequests \o SubSeq(others, 1, admitted)
           refused  == SubSeq(others, admitted + 1, Len(others))
           canceled == Filtered(backlog, {r \in Range(backlog) : r.id \in targets})
           failures == [i \in 1 .. Len(refused) |-> Failure(refused[i].id)]
                       \o [i \in 1 .. Len(canceled) |-> Failure(canceled[i].id)]
       IN  /\ inbox' = <<>>
           /\ pendingRequests' = Filtered(backlog, {r \in Range(backlog) : r.id \notin targets})
           /\ controls' = [i \in 1 .. Len(controlRequests) |-> ControlResponse(controlRequests[i])]
           /\ preparation' = FlagPreparation(targets, quitting)
           /\ Post(<<>>, pendingResponses \o failures)
    /\ pc' = "finish"
    /\ UNCHANGED <<worldVars, connected, sent, heard, editVars, budget, commit>>

\* An edit commits whatever the client asked meanwhile.
IgnoresCancel(prepared) == FALSE

\* The flag finish_edit_preparation reads.
IsCanceled(prepared) == prepared.canceled

\* A commit that looks only at the files it is going to write.
PlanAllowed(prepared) == PlanFits(prepared.plan, prepared.restore, disk)

\* commit_prepared, before it writes: every source the preparation read is
\* still as it was, and the active state layout too.
CommitAllowed(prepared) ==
    /\ disk = prepared.inputs
    /\ LayoutOf(running) = prepared.preview.from

\* Whether a prepared edit goes on to its preview or its commit: not canceled,
\* not failed, and like the preview it was asked to reproduce.
Acceptable(prepared) ==
    /\ ~IsCanceled(preparation)
    /\ prepared.ok
    /\ prepared.expected \in {None, prepared.preview}
    /\ prepared.action # "preview" => CommitAllowed(prepared)

\* The preparation is over without a preview or a commit.  (A commit refused
\* for its state layout has synced host_entry_revision already; the next commit
\* syncs it again before it uses it.)
RefusePrepared(prepared) ==
    /\ ~Acceptable(prepared)
    /\ Respond(<<Failure(preparation.id)>>)
    /\ pc' = "controls"
    /\ UNCHANGED <<worldVars, editVars, commit>>

KeepPreview(prepared) ==
    /\ Acceptable(prepared) /\ prepared.action = "preview"
    /\ pendingPlan' = [plan |-> prepared.plan, preview |-> prepared.preview]
    /\ Respond(<<Success(preparation.id, "previewed")>>)
    /\ pc' = "controls"
    /\ UNCHANGED <<worldVars, history, historyCursor, receipts, selfWriteHashes,
                   hostEntryRevision, commit>>

\* sync_host_entry_revision.
SyncHostEntryRevision(published) ==
    IF published > hostEntryRevision THEN published ELSE hostEntryRevision

\* commit_prepared up to the source write.  A write that fails is undone by
\* write_workshop_semantic_plan, and the hashes of the old sources are
\* remembered instead.
WriteSources(prepared) ==
    /\ Acceptable(prepared) /\ prepared.action # "preview"
    /\ hostEntryRevision' = SyncHostEntryRevision(hostRevision)
    /\ events' = events \union DOMAIN prepared.plan
    /\ \/ /\ disk' = ApplyPlan(prepared.plan, prepared.restore, disk)
          /\ selfWriteHashes' = RememberPlanHashes(prepared.plan, prepared.restore)
          /\ commit' = [id |-> preparation.id, edit |-> prepared,
                        revision |-> hostEntryRevision' + 1]
          /\ pc' = "activate"
          /\ UNCHANGED replyVars
       \/ /\ IoFails
          /\ selfWriteHashes' = RememberPlanHashes(prepared.plan, ~prepared.restore)
          /\ Respond(<<Failure(preparation.id)>>)
          /\ pc' = "controls"
          /\ UNCHANGED <<disk, commit>>
    /\ UNCHANGED <<running, hostRevision, pendingPlan, history, historyCursor, receipts>>

\* The worker has sent its result.
PreparationReady == preparation # None /\ preparation.result # None

\* finish_edit_preparation.
FinishPreparation ==
    /\ pc = "finish"
    /\ \/ /\ ~PreparationReady
          /\ pc' = "controls"
          /\ UNCHANGED <<worldVars, replyVars, editVars, preparation, commit>>
       \/ /\ PreparationReady
          /\ \/ RefusePrepared(preparation.result)
             \/ KeepPreview(preparation.result)
             \/ WriteSources(preparation.result)
          /\ preparation' = None
    /\ UNCHANGED <<clientVars, requestVars>>

\* A new edit forgets what was undone before it.
PushHistory(plan) == Append(SubSeq(history, 1, historyCursor), plan)

\* The end of commit_prepared: the candidate is active, its host entries are
\* published under a newer revision, and the history follows.
ActivateCandidate ==
    LET edit == commit.edit
    IN  /\ HookAccepts(edit.candidate)
        /\ running' = edit.candidate
        /\ hostRevision' = commit.revision
        /\ hostEntryRevision' = commit.revision
        /\ receipts' = receipts \union {edit.plan}
        /\ selfWriteHashes' = RememberPlanHashes(edit.plan, edit.restore)
        /\ history' = IF edit.action \in {"new", "pending"} THEN PushHistory(edit.plan)
                                                            ELSE history
        /\ historyCursor' = CASE edit.action = "undo" -> historyCursor - 1
                              [] edit.action = "redo" -> historyCursor + 1
                              [] OTHER                -> Len(history')
        /\ pendingPlan' = IF edit.action = "pending" THEN None ELSE pendingPlan
        /\ Respond(<<Success(commit.id, "applied")>>)
        /\ UNCHANGED <<disk, events>>

\* A cleanup that also removes a receipt an earlier commit left.
CleanupReceipt(plan) == receipts \ {plan}

\* cleanup_new_receipt: a receipt that was there before the commit stays.
CleanupNewReceipt(plan) == receipts

\* The receipt cannot be written, or on_code_swap rejects: the runtime is back
\* on the active program and the sources are written back, when they still are
\* what the commit wrote.  When they are not, the commit ends there, with its
\* receipt on disk if it got that far.
RollbackPrepared ==
    LET plan == commit.edit.plan
        restore == commit.edit.restore
        fits == PlanFits(plan, ~restore, disk)
    IN  /\ \/ /\ IoFails
              /\ UNCHANGED receipts
           \/ /\ HookRejects(commit.edit.candidate)
              /\ receipts' = IF fits THEN CleanupNewReceipt(plan) ELSE receipts \union {plan}
        /\ disk' = IF fits THEN ApplyPlan(plan, ~restore, disk) ELSE disk
        /\ events' = IF fits THEN events \union DOMAIN plan ELSE events
        /\ selfWriteHashes' = RememberPlanHashes(plan, ~restore)
        /\ Respond(<<Failure(commit.id)>>)
        /\ UNCHANGED <<running, hostRevision, hostEntryRevision, pendingPlan, history,
                       historyCursor>>

\* commit_prepared after the source write.
Activate ==
    /\ pc = "activate"
    /\ ActivateCandidate \/ RollbackPrepared
    /\ commit' = None
    /\ pc' = "controls"
    /\ UNCHANGED <<clientVars, requestVars, preparation>>

\* The cancels and the quit of this boundary are answered after the prepared
\* edit has been dealt with.  A session that quits handles no request.
AnswerControls ==
    /\ pc = "controls"
    /\ controls' = <<>>
    /\ Deliver(pendingResponses, controls)
    /\ quit' = \/ quit \/ HangsUp(controls)
               \/ \E i \in 1 .. Len(controls) : controls[i].kind = "quitting"
    /\ pc' = IF quit' THEN "done" ELSE "requests"
    /\ budget' = RequestsPerTick
    /\ UNCHANGED <<worldVars, clientVars, editVars, pendingRequests, preparation, commit>>

\* handle_request for the commands that edit: one preparation at a time.
HandleRequest ==
    /\ pc = "requests" /\ budget > 0 /\ pendingRequests # <<>>
    /\ LET request == Head(pendingRequests)
           starts  == preparation = None /\ HasInput(request.command)
       IN  /\ preparation' = IF ~starts THEN preparation
                             ELSE [id |-> request.id, canceled |-> FALSE, active |-> running,
                                   input |-> InputOf(request.command), result |-> None]
           /\ Respond(<<IF starts THEN Success(request.id, "preparing") ELSE Failure(request.id)>>)
    /\ pendingRequests' = Tail(pendingRequests)
    /\ budget' = budget - 1
    /\ pc' = IF connected THEN "requests" ELSE "done"
    /\ UNCHANGED <<worldVars, clientVars, editVars, controls, commit>>

\* The boundary is over: the loop looks at the watch job.
EndBoundary ==
    /\ pc = "requests" /\ (budget = 0 \/ pendingRequests = <<>>)
    /\ budget' = 0
    /\ pc' = "watch"
    /\ UNCHANGED <<worldVars, clientVars, replyVars, editVars, pendingRequests, controls,
                   preparation, commit>>
=============================================================================
