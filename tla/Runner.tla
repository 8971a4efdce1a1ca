------------------------------- MODULE Runner -------------------------------
(***************************************************************************)
(* The development runner (apps/stasis/src/lib.rs,                         *)
(* run_with_backend_and_prepared_swaps): the tick loop that feeds saved     *)
(* files to the hot-swap pipeline, commits the compiled candidates between  *)
(* ticks in JitDev mode, drains the pipeline after the last tick and stops  *)
(* it.  The editor writes files at any moment, the compiler thread of the   *)
(* pipeline runs the incremental backend.                                   *)
(***************************************************************************)
EXTENDS SwapPipeline

CONSTANTS
    Versions,   \* the contents each file can be saved with
    Deletes,    \* whether the editor may delete a file that is not the entry
    MaxEdits    \* bound on the writes of the editor

ASSUME RunnerAssumption ==
    /\ Versions \in [Files -> SUBSET Contents]
    /\ Deletes \in BOOLEAN
    /\ MaxEdits \in Nat

VARIABLES
    disk,               \* the files as saved
    edits,              \* writes so far
    watchEvents,        \* files with a change the watcher has not been asked for
    dependencyPaths,    \* watch_dependency_paths
    fileChangeSent,     \* the entry source has been submitted
    backend,            \* the IncrementalCompilerBackend, on the compiler thread
    compileFailed,      \* history: some compile has failed
    preparedSwaps,      \* the prepared_jit_swap channel, of capacity one
    pendingCandidates,  \* pending_jit_candidates
    pendingOverrides,   \* the keys of pending_jit_code_ptr_overrides
    active,             \* active_jit_candidate
    runtime,            \* the request whose tables the runtime holds
    announced,          \* the requests the swap indicator was armed for
    lastSeenCommitId,
    stoppedRequests,    \* the requests the shutdown rejected
    draining,           \* the ticks are over
    pc                  \* where the loop is

runnerVars == <<disk, edits, watchEvents, dependencyPaths, fileChangeSent,
                backend, compileFailed, preparedSwaps, pendingCandidates,
                pendingOverrides, active, runtime, announced,
                lastSeenCommitId, stoppedRequests, draining, pc>>

vars == <<pipelineVars, runnerVars>>

NoCandidate == [id |-> None, program |-> NoSources]

\* Every file is there at the start, so the watched graph loads.
Init ==
    /\ PipelineInit
    /\ disk \in {d \in [Files -> Contents] : \A f \in Files : d[f] \in Versions[f]}
    /\ edits = 0
    /\ watchEvents = {}
    /\ dependencyPaths = Reached({Root}, disk)
    /\ fileChangeSent = FALSE
    /\ backend = NewBackend
    /\ compileFailed = FALSE
    /\ preparedSwaps = <<>>
    /\ pendingCandidates = {}
    /\ pendingOverrides = {}
    /\ active = NoCandidate
    /\ runtime = None
    /\ announced = {}
    /\ lastSeenCommitId = None
    /\ stoppedRequests = {}
    /\ draining = FALSE
    /\ pc = "submit"

(***************************************************************************)
(* The editor and the watcher.                                             *)
(***************************************************************************)

\* A file is saved or deleted, and the watcher's channel receives the event.
Save(f, content) ==
    /\ edits < MaxEdits
    /\ pc # "done"
    /\ content # disk[f]
    /\ disk' = [disk EXCEPT ![f] = content]
    /\ edits' = edits + 1
    /\ watchEvents' = watchEvents \union {f}
    /\ UNCHANGED <<pipelineVars, dependencyPaths, fileChangeSent, backend,
                   compileFailed, preparedSwaps, pendingCandidates,
                   pendingOverrides, active, runtime, announced,
                   lastSeenCommitId, stoppedRequests, draining, pc>>

(***************************************************************************)
(* The loop, one action per call it makes on state it shares.              *)
(***************************************************************************)

\* should_submit_watch_event
ShouldSubmit(f) == f = Root \/ f \in dependencyPaths

\* The start of a tick: the entry source is submitted once, the watched events
\* are filtered with the graph of the last refresh, and a submitted one
\* refreshes the graph when it loads.
BeginTick ==
    LET submitted == {f \in watchEvents : ShouldSubmit(f)}
    IN  /\ pc = "submit"
        /\ ~draining
        /\ SubmitFileChanges(submitted \union (IF fileChangeSent THEN {} ELSE {Root}))
        /\ fileChangeSent' = TRUE
        /\ watchEvents' = {}
        /\ dependencyPaths' = IF submitted # {} /\ GraphLoads(disk)
                              THEN Reached({Root}, disk) ELSE dependencyPaths
        /\ pc' = "dispatch"
        /\ UNCHANGED <<pendingFiles, inFlightCompile, inFlightCommit,
                       nextRequestId, lastCompileResult, lastCommitResult,
                       compilerQueue, compileResults, commitRequests,
                       commitResults, worker, disk, edits, backend,
                       compileFailed, preparedSwaps, pendingCandidates,
                       pendingOverrides, active, runtime, announced,
                       lastSeenCommitId, stoppedRequests, draining>>

\* The loop runs a bounded number of ticks, at least one.
EndTicks ==
    /\ pc = "submit"
    /\ ~draining
    /\ fileChangeSent
    /\ draining' = TRUE
    /\ UNCHANGED <<pipelineVars, disk, edits, watchEvents, dependencyPaths,
                   fileChangeSent, backend, compileFailed, preparedSwaps,
                   pendingCandidates, pendingOverrides, active, runtime,
                   announced, lastSeenCommitId, stoppedRequests, pc>>

\* One turn of the drain loop, until no work is left or 30 seconds have passed.
DrainTurn ==
    /\ pc = "submit"
    /\ draining
    /\ \/ pc' = "dispatch" /\ (HasInFlightWork \/ commitRequests # <<>>)
       \/ pc' = "stop"
    /\ UNCHANGED <<pipelineVars, disk, edits, watchEvents, dependencyPaths,
                   fileChangeSent, backend, compileFailed, preparedSwaps,
                   pendingCandidates, pendingOverrides, active, runtime,
                   announced, lastSeenCommitId, stoppedRequests, draining>>

\* A drain loop that does not capture what the worker prepared.
PumpWithoutCapture ==
    /\ \/ pc = "dispatch" /\ pc' = "results" /\ DrainAndDispatch
       \/ pc = "results" /\ pc' = (IF draining THEN "commit" ELSE "capture") /\ DrainResults
       \/ pc = "redispatch" /\ pc' = "settle" /\ DrainAndDispatch
       \/ pc = "settle" /\ pc' = "observe" /\ DrainResults
    /\ UNCHANGED <<disk, edits, watchEvents, dependencyPaths, fileChangeSent,
                   backend, compileFailed, preparedSwaps, pendingCandidates,
                   pendingOverrides, active, runtime, announced,
                   lastSeenCommitId, stoppedRequests, draining>>

\* pump_coordinator, before and after the safe point.
Pump ==
    /\ \/ pc = "dispatch" /\ pc' = "results" /\ DrainAndDispatch
       \/ pc = "results" /\ pc' = "capture" /\ DrainResults
       \/ pc = "redispatch" /\ pc' = "settle" /\ DrainAndDispatch
       \/ pc = "settle" /\ pc' = "observe" /\ DrainResults
    /\ UNCHANGED <<disk, edits, watchEvents, dependencyPaths, fileChangeSent,
                   backend, compileFailed, preparedSwaps, pendingCandidates,
                   pendingOverrides, active, runtime, announced,
                   lastSeenCommitId, stoppedRequests, draining>>

\* capture_pending_jit_compile_metadata keeps the metadata of the last result
\* only; capture_prepared_jit_swaps empties the channel.
Capture ==
    /\ pc = "capture"
    /\ pc' = "commit"
    /\ pendingOverrides' = IF lastCompileResult.ok
                           THEN pendingOverrides \union {lastCompileResult.id}
                           ELSE pendingOverrides
    /\ pendingCandidates' = pendingCandidates
                              \union {preparedSwaps[i] : i \in DOMAIN preparedSwaps}
    /\ preparedSwaps' = <<>>
    /\ UNCHANGED <<pipelineVars, disk, edits, watchEvents, dependencyPaths,
                   fileChangeSent, backend, compileFailed, active, runtime,
                   announced, lastSeenCommitId, stoppedRequests, draining>>

CandidateOf(id) == {c \in pendingCandidates : c.id = id}

\* A rollback that installs nothing.
RolledBackNever(id) == id

\* What the runtime holds after a rejected candidate: the active one is
\* installed again; without one nothing is undone.
RolledBackTo(id) == IF active = NoCandidate THEN id ELSE active.id

\* apply_prepared_jit_transaction before the candidate is installed: there is
\* none, or the active layout does not migrate to its layout.
RefuseCandidate(id) ==
    /\ CandidateOf(id) = {} \/ active # NoCandidate
    /\ ProcessCommit(FALSE)
    /\ UNCHANGED <<active, runtime>>

\* apply_commit_request, after the candidate was installed: the hook, the
\* metadata it needs or a later check fails.
RejectCandidate(id) ==
    /\ CandidateOf(id) # {}
    /\ ProcessCommit(FALSE)
    /\ runtime' = RolledBackTo(id)
    /\ UNCHANGED active

\* Every check passed: the candidate is the active one.
PromoteCandidate(id) ==
    \E candidate \in CandidateOf(id) :
       /\ ProcessCommit(TRUE)
       /\ active' = candidate
       /\ runtime' = id

\* The safe point takes the candidate of the request and decides its commit.
SafePointCommit ==
    LET id == Head(commitRequests)
    IN  /\ pc = "commit"
        /\ commitRequests # <<>>
        /\ pendingCandidates' = pendingCandidates \ CandidateOf(id)
        /\ RefuseCandidate(id) \/ RejectCandidate(id) \/ PromoteCandidate(id)
        /\ UNCHANGED <<disk, edits, watchEvents, dependencyPaths,
                       fileChangeSent, backend, compileFailed, preparedSwaps,
                       pendingOverrides, announced, lastSeenCommitId,
                       stoppedRequests, draining, pc>>

EndSafePoint ==
    /\ pc = "commit"
    /\ commitRequests = <<>>
    /\ pc' = "redispatch"
    /\ UNCHANGED <<pipelineVars, disk, edits, watchEvents, dependencyPaths,
                   fileChangeSent, backend, compileFailed, preparedSwaps,
                   pendingCandidates, pendingOverrides, active, runtime,
                   announced, lastSeenCommitId, stoppedRequests, draining>>

\* observe_pipeline_results and what follows it: a commit not seen before
\* releases its metadata and arms the indicator when it succeeded; otherwise a
\* failed compile releases its own.
Observe ==
    LET result == lastCommitResult
        new == result.id # None /\ result.id # lastSeenCommitId
    IN  /\ pc = "observe"
        /\ pc' = "submit"
        /\ lastSeenCommitId' = IF new THEN result.id ELSE lastSeenCommitId
        /\ announced' = IF new /\ result.ok THEN announced \union {result.id}
                        ELSE announced
        /\ pendingOverrides' =
              pendingOverrides \ (IF new THEN {result.id}
                                  ELSE IF ~lastCompileResult.ok THEN {lastCompileResult.id}
                                  ELSE {})
        /\ UNCHANGED <<pipelineVars, disk, edits, watchEvents,
                       dependencyPaths, fileChangeSent, backend,
                       compileFailed, preparedSwaps, pendingCandidates,
                       active, runtime, stoppedRequests, draining>>

\* The pipeline is dropped: its thread is told to stop and joined, what is left
\* is rejected.
Stop ==
    /\ \/ /\ pc = "stop"
          /\ pc' = "join"
          /\ SendShutdown
          /\ UNCHANGED stoppedRequests
       \/ /\ pc = "join"
          /\ pc' = "done"
          /\ FinishShutdown
          /\ stoppedRequests' = RejectedAtShutdown
    /\ UNCHANGED <<disk, edits, watchEvents, dependencyPaths, fileChangeSent,
                   backend, compileFailed, preparedSwaps, pendingCandidates,
                   pendingOverrides, active, runtime, announced,
                   lastSeenCommitId, draining>>

Main ==
    BeginTick \/ EndTicks \/ DrainTurn \/ Pump \/ Capture \/ SafePointCommit
      \/ EndSafePoint \/ Observe \/ Stop

(***************************************************************************)
(* The compiler thread: backend.compile in the steps that touch the disk   *)
(* or a channel.                                                           *)
(***************************************************************************)

loopVars == <<watchEvents, dependencyPaths, fileChangeSent, pendingCandidates,
              pendingOverrides, active, runtime, announced,
              lastSeenCommitId, stoppedRequests, draining, pc>>

Receive == WorkerReceive /\ UNCHANGED runnerVars

\* compile_request reads the changed files.
ReadSources ==
    /\ WorkerAdvance("read", "compile", FALSE)
    /\ backend' = RefreshCachedSources(backend, worker.request.files, disk)
    /\ UNCHANGED <<disk, edits, compileFailed, preparedSwaps, loopVars>>

\* compile_jit_candidate_from_cache: the imports still unknown are read now.
CompileCandidate ==
    LET changed == worker.request.files
    IN  /\ IF CandidateCompiles(backend, changed, disk)
           THEN /\ WorkerAdvance("compile", "publish", TRUE)
                /\ backend' = AcceptCandidate(backend, changed, disk)
                /\ UNCHANGED compileFailed
           ELSE /\ WorkerAdvance("compile", "reply", FALSE)
                /\ backend' = RestoreAccepted(backend, changed)
                /\ compileFailed' = TRUE
        /\ UNCHANGED <<disk, edits, preparedSwaps, loopVars>>

\* publish_prepared_jit_candidate waits for room in the channel.
Publish ==
    /\ preparedSwaps = <<>>
    /\ WorkerAdvance("publish", "reply", TRUE)
    /\ preparedSwaps' = Append(preparedSwaps,
                               [id |-> worker.request.id, program |-> backend.files])
    /\ UNCHANGED <<disk, edits, backend, compileFailed, loopVars>>

Reply == WorkerReply /\ UNCHANGED runnerVars

Worker == Receive \/ ReadSources \/ CompileCandidate \/ Publish \/ Reply

Editor ==
    \E f \in Files :
       \E content \in Versions[f] \union (IF Deletes /\ f # Root THEN {Missing} ELSE {}) :
          Save(f, content)

\* The program is over.
Done == pc = "done" /\ UNCHANGED vars

Next == Main \/ Worker \/ Editor \/ Done

\* Both threads run; the ticks need not end in any given number of states.
Fairness == WF_vars(Main) /\ WF_vars(Worker)

Spec == Init /\ [][Next]_vars /\ Fairness

(***************************************************************************)
(* Properties.                                                             *)
(***************************************************************************)

\* A commit that reaches the safe point finds its staged candidate and its
\* metadata: apply_prepared_jit_transaction never reports a missing candidate
\* and the hook of an accepted candidate is never skipped.  The candidate was
\* sent before the result and captured after it.
CommitFindsCandidate ==
    pc = "commit" =>
       \A i \in DOMAIN commitRequests :
          /\ CandidateOf(commitRequests[i]) # {}
          /\ commitRequests[i] \in pendingOverrides

\* A rejected candidate leaves no trace: between two commits the runtime holds
\* the tables of the active candidate, once there has been one.
RuntimeHoldsActive == active # NoCandidate => runtime = active.id

\* A source the watcher follows is never forgotten: what the backend cached
\* of it is what the disk holds, or a change of it is still on its way.
NoChangeForgotten ==
    \A f \in dependencyPaths :
       \/ backend.cache[f] = disk[f]
       \/ f \in watchEvents \union fileChanges \union pendingFiles
       \/ \E i \in DOMAIN compilerQueue : f \in compilerQueue[i].files
       \/ worker.stage = "read" /\ f \in worker.request.files
       \/ backend.cache[f] = Missing   \* an import, read when it is compiled
       \/ draining

\* After the last tick the runner stops: the join never waits for a compiler
\* thread that waits for room in the prepared-swap channel.
RunnerStops == draining ~> pc = "done"

\* Nothing is on its way and the last candidate was accepted.
Settled ==
    /\ pc = "submit" /\ ~draining
    /\ ~HasInFlightWork /\ watchEvents = {} /\ fileChanges = {}
    /\ active # NoCandidate
    /\ active.id = lastCompileResult.id

\* File-level correctness: once every change has been compiled and the last
\* candidate accepted, what runs is the program on disk, whatever the hook
\* rejected on the way.  The condition on failed compiles is needed: see
\* RunsWhatIsSavedAlways.
RunsWhatIsSaved ==
    Settled /\ ~compileFailed => EntryView(active.program) = EntryView(disk)

\* The same after compiles that failed, as docs/compiler_architecture.md:59 and
\* docs/live-compilation-prd.md:26 say it.
RunsWhatIsSavedAlways == Settled => EntryView(active.program) = EntryView(disk)

\* How far the last request has come.
ServicePhase ==
    IF pc = "done" THEN "stopped"
    ELSE IF inFlightCompile # None THEN "compiling"
    ELSE IF commitResults # <<>> \/ lastCommitResult.id # lastSeenCommitId THEN "decided"
    ELSE IF inFlightCommit # None THEN "waiting"
    ELSE "idle"

Service == INSTANCE SwapService WITH
               changed <- fileChanges \union pendingFiles # {},
               phase <- ServicePhase,
               request <- nextRequestId - 1,
               running <- active.id,
               announced <- announced,
               rejected <- stoppedRequests

\* The runner implements the swap service: one request at a time, whatever the
\* two threads and their channels hold; only an accepted commit changes what
\* runs; every accepted swap and no other is announced before the next request
\* begins, although observe_pipeline_results looks at the last result only;
\* shutdown "deterministically rejects every request that had not reached an
\* accepted commit" and no other (pipeline.rs:188); every submitted change is
\* taken up, and no request is waited for without end, unless the runner stops.
ImplementsSwapService == Service!Spec
=============================================================================
