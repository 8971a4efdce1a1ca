---------------------------- MODULE SwapPipeline ----------------------------
(***************************************************************************)
(* DevHotSwapPipeline (crates/stasis_runner/src/swap/pipeline.rs): file     *)
(* changes are gathered by a coordinator on the host's thread, compiled by *)
(* a worker thread one request at a time, and handed back to the host for   *)
(* a commit at its safe point.                                              *)
(*                                                                         *)
(* This module holds the pipeline's state and the operations the host and  *)
(* the worker perform on it.  What a compile reads and what a commit does   *)
(* belong to the modules that use it.                                       *)
(***************************************************************************)
EXTENDS Integers, Sequences, CompilerBackend

VARIABLES
    fileChanges,        \* the file_change channel: drained into a set
    pendingFiles,
    inFlightCompile,    \* a request, or None
    inFlightCommit,     \* a request, or None
    nextRequestId,
    lastCompileResult,  \* the last result drained, or None
    lastCommitResult,
    compilerQueue,      \* messages to the compiler thread
    compileResults,     \* results from the compiler thread
    commitRequests,     \* requests waiting for the safe point
    commitResults,      \* results of the safe point
    worker              \* the compiler thread

pipelineVars == <<fileChanges, pendingFiles, inFlightCompile, inFlightCommit,
                  nextRequestId, lastCompileResult, lastCommitResult,
                  compilerQueue, compileResults, commitRequests, commitResults,
                  worker>>

None == 0
NoOutcome == [id |-> None, ok |-> FALSE]

\* A message is a request, or tells the thread to stop.
Shutdown == [id |-> None, files |-> {}]

\* The compiler thread: waiting in recv ("idle"), at a stage of backend.compile
\* ("read", "compile", "publish", "reply"), or gone.
IdleWorker == [stage |-> "idle", request |-> Shutdown, ok |-> FALSE]

PipelineInit ==
    /\ fileChanges = {}
    /\ pendingFiles = {}
    /\ inFlightCompile = None
    /\ inFlightCommit = None
    /\ nextRequestId = 1
    /\ lastCompileResult = NoOutcome
    /\ lastCommitResult = NoOutcome
    /\ compilerQueue = <<>>
    /\ compileResults = <<>>
    /\ commitRequests = <<>>
    /\ commitResults = <<>>
    /\ worker = IdleWorker

HasInFlightWork ==
    \/ inFlightCompile # None
    \/ inFlightCommit # None
    \/ pendingFiles # {}

(***************************************************************************)
(* The coordinator.  pump_coordinator drains the file changes, dispatches  *)
(* at most one request, then drains the results; the worker runs between   *)
(* its two halves as well.                                                 *)
(***************************************************************************)

\* submit_file_change
SubmitFileChanges(files) == fileChanges' = fileChanges \union files

\* A dispatch that does not wait for the commit of the last candidate.
DispatchBeforeCommit(pending) ==
    /\ inFlightCompile = None
    /\ pending # {}

MayDispatch(pending) ==
    /\ inFlightCompile = None
    /\ inFlightCommit = None
    /\ pending # {}

\* drain_file_changes and maybe_dispatch_compile_request
DrainAndDispatch ==
    LET pending == pendingFiles \union fileChanges
    IN  /\ fileChanges' = {}
        /\ IF MayDispatch(pending)
           THEN /\ compilerQueue' = Append(compilerQueue,
                                           [id |-> nextRequestId, files |-> pending])
                /\ inFlightCompile' = nextRequestId
                /\ nextRequestId' = nextRequestId + 1
                /\ pendingFiles' = {}
           ELSE /\ pendingFiles' = pending
                /\ UNCHANGED <<compilerQueue, inFlightCompile, nextRequestId>>
        /\ UNCHANGED <<inFlightCommit, lastCompileResult, lastCommitResult,
                       compileResults, commitRequests, commitResults, worker>>

\* Only a success ends the request in flight.
SuccessesFor(id, outcomes) == {i \in DOMAIN outcomes : outcomes[i].id = id /\ outcomes[i].ok}

\* Where the results of a request are; the first one ends it.
ResultsFor(id, outcomes) == {i \in DOMAIN outcomes : outcomes[i].id = id}

LastOr(outcomes, default) ==
    IF outcomes = <<>> THEN default ELSE outcomes[Len(outcomes)]

\* drain_compile_results, enqueue_commit_request and drain_commit_results.  A
\* compiled candidate always carries a layout and at least one function.
DrainResults ==
    LET finished == ResultsFor(inFlightCompile, compileResults)
        enqueued == finished # {} /\ compileResults[Min(finished)].ok
        awaited == IF enqueued THEN inFlightCompile ELSE inFlightCommit
    IN  /\ lastCompileResult' = LastOr(compileResults, lastCompileResult)
        /\ inFlightCompile' = IF finished # {} THEN None ELSE inFlightCompile
        /\ commitRequests' = IF enqueued THEN Append(commitRequests, inFlightCompile)
                             ELSE commitRequests
        /\ lastCommitResult' = LastOr(commitResults, lastCommitResult)
        /\ inFlightCommit' = IF ResultsFor(awaited, commitResults) # {} THEN None
                             ELSE awaited
        /\ compileResults' = <<>>
        /\ commitResults' = <<>>
        /\ UNCHANGED <<fileChanges, pendingFiles, nextRequestId, compilerQueue, worker>>

\* process_commits_at_safe_point, one request of its loop.
ProcessCommit(ok) ==
    /\ commitRequests # <<>>
    /\ commitRequests' = Tail(commitRequests)
    /\ commitResults' = Append(commitResults, [id |-> Head(commitRequests), ok |-> ok])
    /\ UNCHANGED <<fileChanges, pendingFiles, inFlightCompile, inFlightCommit,
                   nextRequestId, lastCompileResult, lastCommitResult,
                   compilerQueue, compileResults, worker>>

(***************************************************************************)
(* The compiler thread.                                                    *)
(***************************************************************************)

\* The loop takes the next message; the stop message ends the thread.
WorkerReceive ==
    LET message == Head(compilerQueue)
    IN  /\ worker.stage = "idle"
        /\ compilerQueue # <<>>
        /\ compilerQueue' = Tail(compilerQueue)
        /\ worker' = [stage |-> IF message = Shutdown THEN "gone" ELSE "read",
                      request |-> message, ok |-> FALSE]
        /\ UNCHANGED <<fileChanges, pendingFiles, inFlightCompile, inFlightCommit,
                       nextRequestId, lastCompileResult, lastCommitResult,
                       compileResults, commitRequests, commitResults>>

\* backend.compile goes from one stage to the next.
WorkerAdvance(from, to, ok) ==
    /\ worker.stage = from
    /\ worker' = [worker EXCEPT !.stage = to, !.ok = ok]
    /\ UNCHANGED <<fileChanges, pendingFiles, inFlightCompile, inFlightCommit,
                   nextRequestId, lastCompileResult, lastCommitResult,
                   compilerQueue, compileResults, commitRequests, commitResults>>

\* The result is sent and the thread waits again.
WorkerReply ==
    /\ worker.stage = "reply"
    /\ compileResults' = Append(compileResults,
                                [id |-> worker.request.id, ok |-> worker.ok])
    /\ worker' = IdleWorker
    /\ UNCHANGED <<fileChanges, pendingFiles, inFlightCompile, inFlightCommit,
                   nextRequestId, lastCompileResult, lastCommitResult,
                   compilerQueue, commitRequests, commitResults>>

(***************************************************************************)
(* shutdown                                                                *)
(***************************************************************************)

SendShutdown ==
    /\ compilerQueue' = Append(compilerQueue, Shutdown)
    /\ UNCHANGED <<fileChanges, pendingFiles, inFlightCompile, inFlightCommit,
                   nextRequestId, lastCompileResult, lastCommitResult,
                   compileResults, commitRequests, commitResults, worker>>

\* The requests reported as stopped before their commit, once the thread has
\* been joined.
RejectedAtShutdown ==
    ({inFlightCompile, inFlightCommit} \ {None})
      \union {commitRequests[i] : i \in DOMAIN commitRequests}

\* The rest of shutdown: every channel is emptied, the largest rejected request
\* is the last commit result.
FinishShutdown ==
    LET rejected == RejectedAtShutdown
    IN  /\ worker.stage = "gone"
        /\ inFlightCompile' = None
        /\ inFlightCommit' = None
        /\ pendingFiles' = {}
        /\ fileChanges' = {}
        /\ compileResults' = <<>>
        /\ commitRequests' = <<>>
        /\ commitResults' = <<>>
        /\ lastCommitResult' = IF rejected = {} THEN lastCommitResult
                               ELSE [id |-> Max(rejected), ok |-> FALSE]
        /\ UNCHANGED <<nextRequestId, lastCompileResult, compilerQueue, worker>>
=============================================================================
