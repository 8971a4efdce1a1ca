---------------------------- MODULE RunnerProofs ----------------------------
(***************************************************************************)
(* What TLAPS proves of the development runner, for any project, any       *)
(* number of edits and any interleaving of the loop with the compiler      *)
(* thread: the runner implements the safety part of SwapService, a commit  *)
(* finds its staged candidate, a rejected one leaves no trace, no change   *)
(* of a file is lost on its way to the compiler, what runs in the end is   *)
(* what is saved, and neither thread waits for the other in vain.          *)
(*                                                                         *)
(* The argument follows the one request that is under way: the coordinator *)
(* gives out no second one before the first has been answered, so each of  *)
(* the channels holds at most that request.                                *)
(***************************************************************************)
EXTENDS Runner, TLAPS

\* The request under way, or the last one.
Current == nextRequestId - 1

\* A dispatch gives out the number after the last one.
LEMMA OnlyOne ==
    ASSUME NEW x
    PROVE  Append(<<>>, x) = <<x>>
OBVIOUS

LEMMA NextNumber ==
    ASSUME Current \in Nat, nextRequestId = Current + 1,
           nextRequestId' = nextRequestId + 1, inFlightCompile' = nextRequestId
    PROVE  Current' = Current + 1 /\ inFlightCompile' # None
BY DEF Current, None

LEMMA NoNumber ==
    ASSUME NEW n \in Nat
    PROVE  /\ NoCandidate.id # n + 1
           /\ \A i \in 1 .. n : i \in 1 .. (n + 1) /\ i # n + 1
BY DEF NoCandidate, None

LEMMA NothingQueued == DOMAIN <<>> = {}
OBVIOUS

\* The types of what the compiler thread is given.
Message == [id : Nat, files : SUBSET Files]

Typed ==
    /\ watchEvents \subseteq Files /\ fileChanges \subseteq Files /\ pendingFiles \subseteq Files
    /\ nextRequestId \in Nat \ {0}
    /\ compilerQueue \in Seq(Message)
    /\ worker \in [stage : {"idle", "read", "compile", "publish", "reply", "gone"},
                   request : Message, ok : BOOLEAN]

\* The request is with the compiler thread exactly while it is in flight.
\* Once shutdown has begun nobody looks at the channels again.
CompileInv ==
    pc \notin {"join", "done"} =>
       \/ /\ inFlightCompile = None
          /\ compilerQueue = <<>> /\ worker.stage = "idle" /\ compileResults = <<>>
       \/ /\ inFlightCompile = Current /\ Current # None
          /\ \/ /\ \E files \in SUBSET Files : compilerQueue = <<[id |-> Current, files |-> files]>>
                /\ worker.stage = "idle" /\ compileResults = <<>>
             \/ /\ worker.stage \in {"read", "compile", "publish", "reply"}
                /\ worker.request.id = Current
                /\ compilerQueue = <<>> /\ compileResults = <<>>
             \/ /\ \E ok \in BOOLEAN : compileResults = <<[id |-> Current, ok |-> ok]>>
                /\ compilerQueue = <<>> /\ worker.stage = "idle"

\* It waits for the safe point, or is decided, exactly while its commit is in
\* flight.
CommitInv ==
    pc # "done" =>
       \/ inFlightCommit = None /\ commitRequests = <<>> /\ commitResults = <<>>
       \/ /\ inFlightCommit = Current /\ Current # None /\ inFlightCompile = None
          /\ commitRequests = <<Current>> /\ commitResults = <<>>
          /\ active.id # Current
       \/ /\ inFlightCommit = Current /\ Current # None /\ inFlightCompile = None
          /\ commitRequests = <<>>
          /\ pc \in {"commit", "redispatch", "settle"}
          /\ \E ok \in BOOLEAN : /\ commitResults = <<[id |-> Current, ok |-> ok]>>
                                 /\ ok <=> active.id = Current

\* What runs and what has been announced are not newer than the request, and
\* older than one that is not decided.
SeenInv ==
    pc # "done" =>
          /\ inFlightCompile \in {None, Current}
          /\ lastSeenCommitId \in Nat /\ lastSeenCommitId <= Current
          /\ active.id \in Nat /\ active.id <= Current
          /\ inFlightCompile # None => active.id # Current
          /\ inFlightCompile # None \/ inFlightCommit # None => lastSeenCommitId # Current
          /\ \/ lastCommitResult.id = lastSeenCommitId
             \/ /\ pc = "observe"
                /\ inFlightCompile = None /\ inFlightCommit = None
                /\ lastCommitResult.id = Current
                /\ lastCommitResult.ok <=> active.id = Current

\* The candidate is in the channel or captured before its result can be seen.
Staged == \E c \in {preparedSwaps[i] : i \in DOMAIN preparedSwaps} \union pendingCandidates :
             c.id = Current

StagedInv ==
    pc \notin {"join", "done"} =>
       /\ worker.stage = "reply" /\ worker.ok => Staged
       /\ \A i \in DOMAIN compileResults : compileResults[i].ok => Staged
       /\ commitRequests # <<>> =>
             /\ Staged
             /\ lastCompileResult.ok /\ lastCompileResult.id = Current
             /\ pc = "commit" => /\ \E c \in pendingCandidates : c.id = Current
                                 /\ Current \in pendingOverrides

RunnerInv == Typed /\ CompileInv /\ CommitInv /\ SeenInv /\ StagedInv

-----------------------------------------------------------------------------
LEMMA InitKeeps == Init => RunnerInv
<1> SUFFICES ASSUME Init PROVE RunnerInv
  OBVIOUS
<1>0. Typed
  <2>1. IdleWorker \in [stage : {"idle", "read", "compile", "publish", "reply", "gone"},
                        request : Message, ok : BOOLEAN]
    BY DEF IdleWorker, Shutdown, Message, None
  <2> QED
    BY <2>1 DEF Init, PipelineInit, Typed
<1>1. CompileInv
  BY DEF Init, PipelineInit, CompileInv, IdleWorker
<1>2. CommitInv
  BY DEF Init, PipelineInit, CommitInv
<1>3. SeenInv
  BY DEF Init, PipelineInit, SeenInv, Current, None, NoCandidate, NoOutcome
<1>4. StagedInv
  BY DEF Init, PipelineInit, StagedInv, IdleWorker
<1> QED
  BY <1>0, <1>1, <1>2, <1>3, <1>4 DEF RunnerInv

\* Everything the invariant speaks of but where the loop is.
protocolVars == <<nextRequestId, inFlightCompile, inFlightCommit, compilerQueue,
                  worker, compileResults, commitRequests, commitResults,
                  lastCompileResult, lastCommitResult, lastSeenCommitId, active,
                  preparedSwaps, pendingCandidates, pendingOverrides>>

LEMMA TypesKept ==
    ASSUME RunnerInv, [Next]_vars
    PROVE  Typed'
<1> USE DEF RunnerInv, Typed
<1>1. CASE BeginTick
  BY <1>1, SourceAssumption DEF BeginTick, SubmitFileChanges
<1>2. CASE EndTicks \/ DrainTurn \/ EndSafePoint \/ Capture \/ Observe
  BY <1>2 DEF EndTicks, DrainTurn, EndSafePoint, Capture, Observe, pipelineVars
<1>3. CASE Pump
  <2>1. UNCHANGED watchEvents
    BY <1>3 DEF Pump
  <2>2. CASE DrainResults
    BY <2>1, <2>2 DEF DrainResults
  <2>3. CASE DrainAndDispatch
    <3> DEFINE message == [id |-> nextRequestId, files |-> pendingFiles \union fileChanges]
    <3>1. message \in Message
      BY DEF Message
    <3>2. /\ compilerQueue' \in {compilerQueue, Append(compilerQueue, message)}
          /\ nextRequestId' \in {nextRequestId, nextRequestId + 1}
          /\ fileChanges' = {} /\ pendingFiles' \subseteq pendingFiles \union fileChanges
          /\ UNCHANGED worker
      BY <2>3 DEF DrainAndDispatch
    <3> HIDE DEF message
    <3>3. compilerQueue' \in Seq(Message)
      BY <3>1, <3>2
    <3> QED
      BY <2>1, <3>2, <3>3
  <2> QED
    BY <1>3, <2>2, <2>3 DEF Pump
<1>4. CASE SafePointCommit
  BY <1>4 DEF SafePointCommit, RefuseCandidate, RejectCandidate, PromoteCandidate, ProcessCommit
<1>5. CASE Stop
  <2>1. Shutdown \in Message
    BY DEF Shutdown, Message, None
  <2>2. CASE SendShutdown
    BY <1>5, <2>1, <2>2 DEF Stop, SendShutdown
  <2>3. CASE FinishShutdown
    BY <1>5, <2>3 DEF Stop, FinishShutdown
  <2> QED
    BY <1>5, <2>2, <2>3 DEF Stop
<1>6. CASE Receive
  <2>1. Head(compilerQueue) \in Message /\ Tail(compilerQueue) \in Seq(Message)
    BY <1>6 DEF Receive, WorkerReceive
  <2> QED
    BY <1>6, <2>1 DEF Receive, WorkerReceive, runnerVars
<1>7. CASE ReadSources \/ CompileCandidate \/ Publish
  <2>1. PICK to \in {"compile", "publish", "reply"}, ok \in BOOLEAN :
            worker' = [worker EXCEPT !.stage = to, !.ok = ok]
    BY <1>7, Zenon DEF ReadSources, CompileCandidate, Publish, WorkerAdvance
  <2>2. UNCHANGED <<watchEvents, fileChanges, pendingFiles, nextRequestId, compilerQueue>>
    BY <1>7 DEF ReadSources, CompileCandidate, Publish, WorkerAdvance, loopVars
  <2> QED
    BY <2>1, <2>2, Zenon
<1>8. CASE Reply
  <2>1. IdleWorker \in [stage : {"idle", "read", "compile", "publish", "reply", "gone"},
                        request : Message, ok : BOOLEAN]
    BY DEF IdleWorker, Shutdown, Message, None
  <2> QED
    BY <1>8, <2>1 DEF Reply, WorkerReply, runnerVars
<1>9. CASE Editor
  BY <1>9 DEF Editor, Save, pipelineVars
<1>10. CASE UNCHANGED vars
  BY <1>10 DEF vars, pipelineVars, runnerVars
<1> QED
  BY <1>1, <1>2, <1>3, <1>4, <1>5, <1>6, <1>7, <1>8, <1>9, <1>10 DEF Next, Main, Worker, Done

\* Each of the next lemmas is about one action and the rest of the invariant.
Protocol == CompileInv /\ CommitInv /\ SeenInv /\ StagedInv

LEMMA LoopMoves ==
    ASSUME RunnerInv, UNCHANGED protocolVars,
           \/ pc' = pc
           \/ pc = "submit" /\ pc' \in {"dispatch", "stop"}
           \/ pc = "commit" /\ pc' = "redispatch" /\ commitRequests = <<>>
    PROVE  Protocol'
<1>1. CompileInv'
  BY DEF RunnerInv, CompileInv, Current, protocolVars
<1>2. CommitInv'
  BY DEF RunnerInv, CommitInv, Current, protocolVars
<1>3. SeenInv'
  BY DEF RunnerInv, Typed, SeenInv, Current, protocolVars
<1>4. StagedInv'
  BY DEF RunnerInv, StagedInv, Staged, Current, protocolVars
<1> QED
  BY <1>1, <1>2, <1>3, <1>4 DEF Protocol

LEMMA LoopSteps ==
    ASSUME RunnerInv,
           BeginTick \/ EndTicks \/ DrainTurn \/ EndSafePoint \/ Editor \/ UNCHANGED vars
    PROVE  Protocol'
<1>1. CASE BeginTick
  BY <1>1, LoopMoves DEF BeginTick, protocolVars
<1>2. CASE EndTicks
  BY <1>2, LoopMoves DEF EndTicks, pipelineVars, protocolVars
<1>3. CASE DrainTurn
  BY <1>3, LoopMoves DEF DrainTurn, pipelineVars, protocolVars
<1>4. CASE EndSafePoint
  BY <1>4, LoopMoves DEF EndSafePoint, pipelineVars, protocolVars
<1>5. CASE Editor
  BY <1>5, LoopMoves DEF Editor, Save, pipelineVars, protocolVars
<1>6. CASE UNCHANGED vars
  BY <1>6, LoopMoves DEF vars, pipelineVars, runnerVars, protocolVars
<1> QED
  BY <1>1, <1>2, <1>3, <1>4, <1>5, <1>6

-----------------------------------------------------------------------------
\* maybe_dispatch_compile_request: the next request only once nothing is left
\* of the last one.
LEMMA DispatchKeeps ==
    ASSUME RunnerInv, Pump, pc \in {"dispatch", "redispatch"}
    PROVE  Protocol'
<1>1. /\ DrainAndDispatch
      /\ (pc = "dispatch" /\ pc' = "results") \/ (pc = "redispatch" /\ pc' = "settle")
      /\ UNCHANGED <<lastSeenCommitId, active, preparedSwaps, pendingCandidates,
                     pendingOverrides>>
  BY DEF Pump
<1>2. UNCHANGED <<inFlightCommit, lastCompileResult, lastCommitResult,
                  compileResults, commitRequests, commitResults, worker>>
  BY <1>1 DEF DrainAndDispatch
<1> DEFINE pending == pendingFiles \union fileChanges
<1>3. CASE ~MayDispatch(pending)
  <2>1. UNCHANGED <<compilerQueue, inFlightCompile, nextRequestId>>
    BY <1>1, <1>3 DEF DrainAndDispatch
  <2>2. CompileInv'
    BY <1>1, <1>2, <2>1 DEF RunnerInv, CompileInv, Current
  <2>3. CommitInv'
    BY <1>1, <1>2, <2>1 DEF RunnerInv, CommitInv, Current
  <2>4. SeenInv'
    BY <1>1, <1>2, <2>1 DEF RunnerInv, Typed, SeenInv, Current
  <2>5. StagedInv'
    BY <1>1, <1>2, <2>1 DEF RunnerInv, StagedInv, Staged, Current
  <2> QED
    BY <2>2, <2>3, <2>4, <2>5 DEF Protocol
<1>4. CASE MayDispatch(pending)
  <2>1. /\ inFlightCompile = None /\ inFlightCommit = None
        /\ inFlightCompile' = nextRequestId /\ nextRequestId' = nextRequestId + 1
        /\ compilerQueue' = Append(compilerQueue, [id |-> nextRequestId, files |-> pending])
    BY <1>1, <1>4 DEF DrainAndDispatch, MayDispatch
  <2>2. /\ compilerQueue = <<>> /\ worker.stage = "idle" /\ compileResults = <<>>
        /\ commitRequests = <<>> /\ commitResults = <<>>
    BY <1>1, <2>1 DEF RunnerInv, CompileInv, CommitInv
  <2>3. nextRequestId \in Nat \ {0} /\ Current' = nextRequestId /\ Current' # None
    BY <2>1 DEF RunnerInv, Typed, Current, None
  <2>4. compilerQueue' = <<[id |-> nextRequestId, files |-> pending]>>
    BY <2>1, <2>2
  <2>5. CompileInv'
    <3>1. pending \in SUBSET Files
      BY DEF RunnerInv, Typed
    <3> HIDE DEF pending
    <3> QED
      BY <1>2, <2>1, <2>2, <2>3, <2>4, <3>1, Zenon DEF CompileInv
  <2>6. CommitInv'
    BY <1>2, <2>1, <2>2 DEF CommitInv
  <2>7. SeenInv'
    BY <1>1, <1>2, <2>1, <2>3 DEF RunnerInv, Typed, SeenInv, Current, None
  <2>8. StagedInv'
    BY <1>2, <2>2 DEF StagedInv
  <2> QED
    BY <2>5, <2>6, <2>7, <2>8 DEF Protocol
<1> QED
  BY <1>3, <1>4

\* The three things DrainResults can find: nothing, the answer of the compiler
\* thread, or the decision of the safe point; and what it makes of each.
LEMMA DrainFinds ==
    ASSUME RunnerInv, DrainResults, pc \notin {"join", "done"}
    PROVE  /\ compileResults' = <<>> /\ commitResults' = <<>>
           /\ \/ /\ compileResults = <<>> /\ commitResults = <<>>
                 /\ UNCHANGED <<inFlightCompile, inFlightCommit, commitRequests,
                                lastCompileResult, lastCommitResult>>
              \/ /\ \E ok \in BOOLEAN :
                       /\ compileResults = <<[id |-> Current, ok |-> ok]>>
                       /\ lastCompileResult' = [id |-> Current, ok |-> ok]
                       /\ inFlightCommit' = IF ok THEN Current ELSE None
                       /\ commitRequests' = IF ok THEN <<Current>> ELSE <<>>
                 /\ inFlightCompile = Current /\ inFlightCompile' = None
                 /\ Current # None /\ inFlightCommit = None
                 /\ commitResults = <<>> /\ UNCHANGED lastCommitResult
              \/ /\ \E ok \in BOOLEAN :
                       /\ commitResults = <<[id |-> Current, ok |-> ok]>>
                       /\ lastCommitResult' = [id |-> Current, ok |-> ok]
                       /\ ok <=> active.id = Current
                 /\ compileResults = <<>>
                 /\ inFlightCommit = Current /\ Current # None /\ inFlightCommit' = None
                 /\ inFlightCompile = None
                 /\ commitRequests = <<>>
                 /\ UNCHANGED <<inFlightCompile, commitRequests, lastCompileResult>>
<1>1. compileResults' = <<>> /\ commitResults' = <<>>
  BY DEF DrainResults
<1>2. \A id : ResultsFor(id, <<>>) = {}
  BY DEF ResultsFor
<1>3. ASSUME NEW id, NEW r PROVE r.id = id => ResultsFor(id, <<r>>) = {1}
  BY DEF ResultsFor
<1>4. Min({1}) = 1
  BY DEF Min
<1>5. \A x, d : LastOr(<<x>>, d) = x /\ LastOr(<<>>, d) = d
  BY DEF LastOr
<1>6. CASE compileResults = <<>> /\ commitResults = <<>>
  BY <1>1, <1>2, <1>5, <1>6 DEF DrainResults
<1>7. CASE compileResults # <<>>
  <2>1. PICK ok \in BOOLEAN : compileResults = <<[id |-> Current, ok |-> ok]>>
    BY <1>7 DEF RunnerInv, CompileInv
  <2>2. /\ inFlightCompile = Current /\ Current # None
        /\ inFlightCommit = None /\ commitRequests = <<>> /\ commitResults = <<>>
    BY <1>7 DEF RunnerInv, CompileInv, CommitInv
  <2>3. ResultsFor(inFlightCompile, compileResults) = {1} /\ compileResults[1].ok = ok
    BY <1>3, <2>1, <2>2
  <2>4. /\ inFlightCompile' = None
        /\ lastCompileResult' = [id |-> Current, ok |-> ok]
        /\ UNCHANGED lastCommitResult
    BY <1>5, <2>1, <2>2, <2>3 DEF DrainResults
  <2>5. CASE ok
    <3>1. inFlightCommit' = Current /\ commitRequests' = <<Current>>
      <4>1. compileResults[Min(ResultsFor(inFlightCompile, compileResults))].ok
        BY <1>4, <2>3, <2>5, Zenon
      <4>2. commitRequests' = Append(commitRequests, inFlightCompile)
        BY <2>3, <4>1 DEF DrainResults
      <4>3. inFlightCommit' = inFlightCompile
        BY <1>2, <2>2, <2>3, <4>1 DEF DrainResults
      <4> QED
        BY <2>2, <4>2, <4>3
    <3> QED
      BY <1>1, <2>1, <2>2, <2>4, <2>5, <3>1, Zenon
  <2>6. CASE ~ok
    <3>1. inFlightCommit' = None /\ commitRequests' = <<>>
      BY <1>2, <1>4, <2>2, <2>3, <2>6 DEF DrainResults
    <3> QED
      BY <1>1, <2>1, <2>2, <2>4, <2>6, <3>1
  <2> QED
    BY <2>5, <2>6
<1>8. CASE commitResults # <<>>
  <2>1. PICK ok \in BOOLEAN : /\ commitResults = <<[id |-> Current, ok |-> ok]>>
                              /\ ok <=> active.id = Current
    BY <1>8 DEF RunnerInv, CommitInv
  <2>2. /\ inFlightCommit = Current /\ Current # None /\ inFlightCompile = None
        /\ commitRequests = <<>> /\ compileResults = <<>>
    BY <1>8 DEF RunnerInv, CompileInv, CommitInv
  <2>3. ResultsFor(inFlightCommit, commitResults) = {1}
    BY <1>3, <2>1, <2>2
  <2> QED
    BY <1>1, <1>2, <1>5, <2>1, <2>2, <2>3 DEF DrainResults
<1> QED
  BY <1>6, <1>7, <1>8

LEMMA DrainKeeps ==
    ASSUME RunnerInv, Pump, pc \in {"results", "settle"}
    PROVE  Protocol'
<1>1. /\ DrainResults
      /\ (pc = "results" /\ pc' = "capture") \/ (pc = "settle" /\ pc' = "observe")
      /\ UNCHANGED <<lastSeenCommitId, active, preparedSwaps, pendingCandidates,
                     pendingOverrides>>
  BY DEF Pump
<1>2. UNCHANGED <<nextRequestId, compilerQueue, worker>>
  BY <1>1 DEF DrainResults
<1>3. Current' = Current /\ (Staged' <=> Staged)
  BY <1>1, <1>2 DEF Current, Staged
<1>4. compileResults' = <<>> /\ commitResults' = <<>>
  BY <1>1, DrainFinds
<1>5. CASE /\ compileResults = <<>> /\ commitResults = <<>>
           /\ UNCHANGED <<inFlightCompile, inFlightCommit, commitRequests,
                          lastCompileResult, lastCommitResult>>
  <2>1. CompileInv'
    BY <1>1, <1>2, <1>3, <1>4, <1>5 DEF RunnerInv, CompileInv
  <2>2. CommitInv'
    BY <1>1, <1>3, <1>4, <1>5 DEF RunnerInv, CommitInv
  <2>3. SeenInv'
    BY <1>1, <1>2, <1>3, <1>5 DEF RunnerInv, SeenInv
  <2>4. StagedInv'
    BY <1>1, <1>2, <1>3, <1>4, <1>5 DEF RunnerInv, StagedInv
  <2> QED
    BY <2>1, <2>2, <2>3, <2>4 DEF Protocol
<1>6. CASE /\ \E ok \in BOOLEAN :
                 /\ compileResults = <<[id |-> Current, ok |-> ok]>>
                 /\ lastCompileResult' = [id |-> Current, ok |-> ok]
                 /\ inFlightCommit' = IF ok THEN Current ELSE None
                 /\ commitRequests' = IF ok THEN <<Current>> ELSE <<>>
           /\ inFlightCompile = Current /\ inFlightCompile' = None
           /\ Current # None /\ inFlightCommit = None
           /\ commitResults = <<>> /\ UNCHANGED lastCommitResult
  <2>1. PICK ok \in BOOLEAN :
                 /\ compileResults = <<[id |-> Current, ok |-> ok]>>
                 /\ lastCompileResult' = [id |-> Current, ok |-> ok]
                 /\ inFlightCommit' = IF ok THEN Current ELSE None
                 /\ commitRequests' = IF ok THEN <<Current>> ELSE <<>>
    BY <1>6
  <2>2. compilerQueue = <<>> /\ worker.stage = "idle" /\ active.id # Current
    BY <1>1, <1>6, <2>1, ZenonT(30) DEF RunnerInv, CompileInv, SeenInv
  <2>3. CompileInv'
    BY <1>2, <1>4, <1>6, <2>2 DEF CompileInv
  <2>4. CommitInv'
    BY <1>1, <1>3, <1>4, <1>6, <2>1, <2>2 DEF CommitInv
  <2>5. SeenInv'
    BY <1>1, <1>2, <1>3, <1>6 DEF RunnerInv, SeenInv
  <2>6. StagedInv'
    <3>1. CASE ok
      <4>1. Staged
        BY <1>1, <2>1, <3>1 DEF RunnerInv, StagedInv
      <4> QED
        BY <1>1, <1>2, <1>3, <1>4, <2>1, <2>2, <3>1, <4>1 DEF StagedInv
    <3>2. CASE ~ok
      BY <1>1, <1>2, <1>4, <2>1, <2>2, <3>2 DEF StagedInv
    <3> QED
      BY <3>1, <3>2
  <2> QED
    BY <2>3, <2>4, <2>5, <2>6 DEF Protocol
<1>7. CASE /\ \E ok \in BOOLEAN :
                 /\ commitResults = <<[id |-> Current, ok |-> ok]>>
                 /\ lastCommitResult' = [id |-> Current, ok |-> ok]
                 /\ ok <=> active.id = Current
           /\ compileResults = <<>>
           /\ inFlightCommit = Current /\ Current # None /\ inFlightCommit' = None
           /\ inFlightCompile = None
           /\ commitRequests = <<>>
           /\ UNCHANGED <<inFlightCompile, commitRequests, lastCompileResult>>
  <2>1. pc = "settle" /\ pc' = "observe"
    BY <1>1, <1>7 DEF RunnerInv, CommitInv
  <2>2. CompileInv'
    BY <1>1, <1>2, <1>3, <1>4, <1>7 DEF RunnerInv, CompileInv
  <2>3. CommitInv'
    BY <1>4, <1>7 DEF CommitInv
  <2>4. SeenInv'
    BY <1>1, <1>2, <1>3, <1>7, <2>1 DEF RunnerInv, SeenInv
  <2>5. StagedInv'
    BY <1>1, <1>2, <1>3, <1>4, <1>7 DEF RunnerInv, StagedInv
  <2> QED
    BY <2>2, <2>3, <2>4, <2>5 DEF Protocol
<1> QED
  BY <1>1, <1>5, <1>6, <1>7, DrainFinds

-----------------------------------------------------------------------------
\* capture_prepared_jit_swaps and capture_pending_jit_compile_metadata come
\* before the safe point.
LEMMA CaptureKeeps ==
    ASSUME RunnerInv, Capture
    PROVE  Protocol'
<1>1. /\ UNCHANGED <<nextRequestId, inFlightCompile, inFlightCommit, compilerQueue,
                     worker, compileResults, commitRequests, commitResults,
                     lastCompileResult, lastCommitResult, lastSeenCommitId, active>>
      /\ pc = "capture" /\ pc' = "commit"
      /\ pendingCandidates' = pendingCandidates
                                \union {preparedSwaps[i] : i \in DOMAIN preparedSwaps}
      /\ lastCompileResult.ok => lastCompileResult.id \in pendingOverrides'
  BY DEF Capture, pipelineVars
<1>2. Current' = Current /\ (Staged => \E c \in pendingCandidates' : c.id = Current)
  BY <1>1 DEF Current, Staged
<1>3. Staged => Staged'
  BY <1>2 DEF Staged
<1>4. CompileInv'
  BY <1>1, <1>2 DEF RunnerInv, CompileInv
<1>5. CommitInv'
  BY <1>1, <1>2 DEF RunnerInv, CommitInv
<1>6. SeenInv'
  BY <1>1, <1>2 DEF RunnerInv, SeenInv
<1>7. StagedInv'
  BY <1>1, <1>2, <1>3 DEF RunnerInv, StagedInv
<1> QED
  BY <1>4, <1>5, <1>6, <1>7, ZenonT(30) DEF Protocol

\* The safe point decides the request it finds.
LEMMA CommitKeeps ==
    ASSUME RunnerInv, SafePointCommit
    PROVE  Protocol'
<1>1. /\ UNCHANGED <<nextRequestId, inFlightCompile, inFlightCommit, compilerQueue,
                     worker, compileResults, lastCompileResult, lastCommitResult,
                     lastSeenCommitId, preparedSwaps, pendingOverrides, pc>>
      /\ pc = "commit" /\ commitRequests # <<>>
  BY DEF SafePointCommit, RefuseCandidate, RejectCandidate, PromoteCandidate, ProcessCommit
<1>2. /\ commitRequests = <<Current>> /\ commitResults = <<>> /\ Current # None
      /\ inFlightCommit = Current /\ inFlightCompile = None /\ active.id # Current
      /\ Current' = Current
  BY <1>1 DEF RunnerInv, CommitInv, Current
<1>3. \E ok \in BOOLEAN :
         /\ ProcessCommit(ok)
         /\ (active' = active /\ ~ok) \/ (active'.id = Current /\ ok)
  <2>1. Head(commitRequests) = Current
    BY <1>2
  <2>2. CASE RefuseCandidate(Head(commitRequests)) \/ RejectCandidate(Head(commitRequests))
    BY <2>2, Zenon DEF RefuseCandidate, RejectCandidate
  <2>3. CASE PromoteCandidate(Head(commitRequests))
    BY <2>1, <2>3, Zenon DEF PromoteCandidate, CandidateOf
  <2> QED
    BY <2>2, <2>3 DEF SafePointCommit
<1>4. PICK ok \in BOOLEAN : /\ ProcessCommit(ok)
                            /\ (active' = active /\ ~ok) \/ (active'.id = Current /\ ok)
  BY <1>3
<1>5. commitRequests' = <<>> /\ commitResults' = <<[id |-> Current, ok |-> ok]>>
  BY <1>2, <1>4 DEF ProcessCommit
<1>6. CompileInv'
  BY <1>1, <1>2 DEF RunnerInv, CompileInv
<1>7. CommitInv'
  BY <1>1, <1>2, <1>4, <1>5 DEF CommitInv
<1>8. SeenInv'
  BY <1>1, <1>2, <1>4 DEF RunnerInv, Typed, SeenInv, Current
<1>9. StagedInv'
  <2>1. compileResults = <<>> /\ worker.stage = "idle"
    BY <1>1, <1>2 DEF RunnerInv, CompileInv
  <2> QED
    BY <1>1, <1>5, <2>1 DEF StagedInv
<1> QED
  BY <1>6, <1>7, <1>8, <1>9 DEF Protocol

\* observe_pipeline_results.
LEMMA ObserveKeeps ==
    ASSUME RunnerInv, Observe
    PROVE  Protocol'
<1>1. /\ UNCHANGED <<nextRequestId, inFlightCompile, inFlightCommit, compilerQueue,
                     worker, compileResults, commitRequests, commitResults,
                     lastCompileResult, lastCommitResult, active, preparedSwaps,
                     pendingCandidates>>
      /\ pc = "observe" /\ pc' = "submit"
      /\ lastSeenCommitId' = IF lastCommitResult.id # None /\ lastCommitResult.id # lastSeenCommitId
                             THEN lastCommitResult.id ELSE lastSeenCommitId
  BY DEF Observe, pipelineVars
<1>2. Current' = Current /\ (Staged' <=> Staged)
  BY <1>1 DEF Current, Staged
<1>3. CompileInv'
  BY <1>1, <1>2, Zenon DEF RunnerInv, CompileInv
<1>4. CommitInv'
  BY <1>1, <1>2 DEF RunnerInv, CommitInv
<1>5. SeenInv'
  BY <1>1, <1>2 DEF RunnerInv, Typed, SeenInv, Current, None
<1>6. StagedInv'
  BY <1>1, <1>2 DEF RunnerInv, StagedInv
<1> QED
  BY <1>3, <1>4, <1>5, <1>6 DEF Protocol

LEMMA StopKeeps ==
    ASSUME RunnerInv, Stop
    PROVE  Protocol'
<1>1. CASE pc = "join"
  <2>1. pc' = "done" /\ UNCHANGED nextRequestId
    BY <1>1 DEF Stop, FinishShutdown
  <2> QED
    BY <2>1 DEF Protocol, CompileInv, CommitInv, SeenInv, StagedInv
<1>2. CASE pc = "stop"
  <2>1. /\ pc' = "join"
        /\ UNCHANGED <<nextRequestId, inFlightCompile, inFlightCommit, commitRequests,
                       commitResults, lastCommitResult, lastSeenCommitId, active>>
    BY <1>2, Zenon DEF Stop, SendShutdown
  <2>2. CompileInv' /\ StagedInv'
    BY <2>1 DEF CompileInv, StagedInv
  <2>3. CommitInv'
    BY <1>2, <2>1 DEF RunnerInv, CommitInv, Current
  <2>4. SeenInv'
    BY <1>2, <2>1 DEF RunnerInv, Typed, SeenInv, Current
  <2> QED
    BY <2>2, <2>3, <2>4 DEF Protocol
<1> QED
  BY <1>1, <1>2 DEF Stop

-----------------------------------------------------------------------------
\* The compiler thread: it carries the request from its queue to its answer,
\* and publishes the candidate before the answer.
LEMMA WorkerKeeps ==
    ASSUME RunnerInv, Worker
    PROVE  Protocol'
<1>1. UNCHANGED <<nextRequestId, inFlightCompile, inFlightCommit, commitRequests,
                  commitResults, lastCompileResult, lastCommitResult, lastSeenCommitId,
                  active, pendingCandidates, pendingOverrides, pc>>
  BY DEF Worker, Receive, ReadSources, CompileCandidate, Publish, Reply, WorkerReceive,
         WorkerAdvance, WorkerReply, runnerVars, loopVars
<1>2. Current' = Current
  BY <1>1 DEF Current
<1>3. CommitInv'
  BY <1>1, <1>2, Zenon DEF RunnerInv, CommitInv
<1>4. SeenInv'
  BY <1>1, <1>2 DEF RunnerInv, SeenInv
<1>5. CASE pc \in {"join", "done"}
  BY <1>1, <1>3, <1>4, <1>5 DEF Protocol, CompileInv, StagedInv
<1>6. CASE pc \notin {"join", "done"} /\ Receive
  <2>1. /\ worker.stage = "idle" /\ compilerQueue # <<>>
        /\ compilerQueue' = Tail(compilerQueue)
        /\ worker' = [stage |-> IF Head(compilerQueue) = Shutdown THEN "gone" ELSE "read",
                      request |-> Head(compilerQueue), ok |-> FALSE]
        /\ UNCHANGED <<compileResults, preparedSwaps>>
    BY <1>6 DEF Receive, WorkerReceive, runnerVars
  <2>2. /\ inFlightCompile = Current /\ Current # None /\ compileResults = <<>>
        /\ \E files \in SUBSET Files : compilerQueue = <<[id |-> Current, files |-> files]>>
    BY <1>6, <2>1 DEF RunnerInv, CompileInv
  <2>3. PICK files \in SUBSET Files : compilerQueue = <<[id |-> Current, files |-> files]>>
    BY <2>2, Zenon
  <2>4. Head(compilerQueue) = [id |-> Current, files |-> files] /\ compilerQueue' = <<>>
    BY <2>1, <2>3
  <2>5. Head(compilerQueue) # Shutdown
    BY <2>2, <2>4 DEF Shutdown, None
  <2>6. worker'.stage = "read" /\ worker'.request.id = Current
    BY <2>1, <2>4, <2>5
  <2>7. CompileInv'
    BY <1>1, <1>2, <2>1, <2>2, <2>4, <2>6, Zenon DEF CompileInv
  <2>8. StagedInv'
    BY <1>1, <1>2, <1>6, <2>1, <2>2, <2>6 DEF RunnerInv, StagedInv, Staged
  <2> QED
    BY <1>3, <1>4, <2>7, <2>8 DEF Protocol
<1>7. CASE pc \notin {"join", "done"} /\ (ReadSources \/ CompileCandidate)
  <2>1. /\ worker.stage \in {"read", "compile"}
        /\ \/ worker'.stage \in {"compile", "publish"}
           \/ worker'.stage = "reply" /\ ~worker'.ok
        /\ worker'.request = worker.request
        /\ UNCHANGED <<compilerQueue, compileResults, preparedSwaps>>
    BY <1>7, ZenonT(30) DEF ReadSources, CompileCandidate, WorkerAdvance, RunnerInv, Typed
  <2>2. CompileInv'
    BY <1>1, <1>2, <1>7, <2>1 DEF RunnerInv, CompileInv
  <2>3. StagedInv'
    BY <1>1, <1>2, <1>7, <2>1, Zenon DEF RunnerInv, StagedInv, Staged
  <2> QED
    BY <1>3, <1>4, <2>2, <2>3 DEF Protocol
<1>8. CASE pc \notin {"join", "done"} /\ Publish
  <2>1. /\ worker.stage = "publish" /\ worker'.stage = "reply"
        /\ worker'.request = worker.request
        /\ UNCHANGED <<compilerQueue, compileResults>>
        /\ preparedSwaps = <<>>
        /\ preparedSwaps' = Append(<<>>, [id |-> worker.request.id, program |-> backend.files])
    BY <1>8 DEF Publish, WorkerAdvance, RunnerInv, Typed
  <2>2. worker.request.id = Current /\ compileResults = <<>> /\ commitRequests = <<>>
    BY <1>8, <2>1, Zenon DEF RunnerInv, CompileInv, CommitInv
  <2>3. CompileInv'
    BY <1>1, <1>2, <1>8, <2>1 DEF RunnerInv, CompileInv
  <2>4. Staged'
    <3>1. /\ preparedSwaps' = <<[id |-> Current, program |-> backend.files]>>
          /\ 1 \in DOMAIN preparedSwaps'
          /\ preparedSwaps'[1].id = Current
      BY <2>1, <2>2
    <3> QED
      BY <1>2, <3>1 DEF Staged
  <2>5. StagedInv'
    BY <1>1, <2>1, <2>2, <2>4 DEF StagedInv
  <2> QED
    BY <1>3, <1>4, <2>3, <2>5 DEF Protocol
<1>9. CASE pc \notin {"join", "done"} /\ Reply
  <2>1. /\ worker.stage = "reply" /\ worker'.stage = "idle"
        /\ UNCHANGED <<compilerQueue, preparedSwaps>>
        /\ compileResults' = Append(compileResults, [id |-> worker.request.id, ok |-> worker.ok])
    BY <1>9 DEF Reply, WorkerReply, IdleWorker, runnerVars
  <2>2. /\ worker.request.id = Current /\ compileResults = <<>> /\ compilerQueue = <<>>
        /\ inFlightCompile = Current /\ Current # None /\ commitRequests = <<>>
    BY <1>9, <2>1 DEF RunnerInv, CompileInv, CommitInv
  <2>3. compileResults' = <<[id |-> Current, ok |-> worker.ok]>> /\ worker.ok \in BOOLEAN
    <3>1. worker.ok \in BOOLEAN
      BY Zenon DEF RunnerInv, Typed
    <3> QED
      BY <2>1, <2>2, <3>1, OnlyOne, Zenon
  <2>4. CompileInv'
    BY <1>1, <1>2, <2>1, <2>2, <2>3 DEF CompileInv
  <2>5. StagedInv'
    <3>1. worker.ok => Staged
      BY <1>9, <2>1 DEF RunnerInv, StagedInv
    <3>2. Staged' <=> Staged
      BY <1>1, <1>2, <2>1 DEF Staged
    <3> QED
      BY <1>1, <2>1, <2>2, <2>3, <3>1, <3>2 DEF StagedInv
  <2> QED
    BY <1>3, <1>4, <2>4, <2>5 DEF Protocol
<1> QED
  BY <1>5, <1>6, <1>7, <1>8, <1>9 DEF Worker

LEMMA StepKeeps ==
    ASSUME RunnerInv, [Next]_vars
    PROVE  RunnerInv'
<1>1. CASE Pump
  <2>1. pc \in {"dispatch", "redispatch"} \/ pc \in {"results", "settle"}
    BY <1>1 DEF Pump
  <2>2. Protocol'
    BY <1>1, <2>1, DispatchKeeps, DrainKeeps
  <2> QED
    BY <2>2, TypesKept DEF RunnerInv, Protocol
<1>2. CASE Capture \/ SafePointCommit \/ Observe \/ Stop \/ Worker
  BY <1>2, CaptureKeeps, CommitKeeps, ObserveKeeps, StopKeeps, WorkerKeeps, TypesKept
  DEF RunnerInv, Protocol
<1>3. CASE BeginTick \/ EndTicks \/ DrainTurn \/ EndSafePoint \/ Editor \/ UNCHANGED vars
  BY <1>3, LoopSteps, TypesKept DEF RunnerInv, Protocol
<1> QED
  BY <1>1, <1>2, <1>3 DEF Next, Main, Done

\* At every step of the loop, the compiler thread and the editor there is at
\* most one request, and each channel that is not empty holds it.
THEOREM OneRequestAtATime == Spec => []RunnerInv
<1>1. Init => RunnerInv
  BY InitKeeps
<1>2. RunnerInv /\ [Next]_vars => RunnerInv'
  BY StepKeeps
<1> QED
  BY <1>1, <1>2, PTL DEF Spec

\* apply_prepared_jit_transaction always finds the candidate and the metadata
\* of the request it is given.
THEOREM CommitsFindTheirCandidate == Spec => []CommitFindsCandidate
<1>1. ASSUME RunnerInv PROVE CommitFindsCandidate
  <2> SUFFICES ASSUME pc = "commit", NEW i \in DOMAIN commitRequests
               PROVE  /\ CandidateOf(commitRequests[i]) # {}
                      /\ commitRequests[i] \in pendingOverrides
    BY DEF CommitFindsCandidate
  <2>1. commitRequests # <<>>
    OBVIOUS
  <2>2. commitRequests = <<Current>>
    BY <1>1, <2>1 DEF RunnerInv, CommitInv
  <2>3. commitRequests[i] = Current
    BY <2>2
  <2>4. (\E c \in pendingCandidates : c.id = Current) /\ Current \in pendingOverrides
    BY <1>1, <2>1 DEF RunnerInv, StagedInv
  <2> QED
    BY <2>3, <2>4 DEF CandidateOf
<1> QED
  BY <1>1, OneRequestAtATime, PTL

\* A rejected candidate leaves no trace in the runtime.
THEOREM RejectionsAreUndone == Spec => []RuntimeHoldsActive
<1>1. Init => RuntimeHoldsActive
  BY DEF Init, RuntimeHoldsActive
<1>2. ASSUME RuntimeHoldsActive, [Next]_vars PROVE RuntimeHoldsActive'
  <2>1. CASE SafePointCommit
    <3>1. CASE RefuseCandidate(Head(commitRequests))
      BY <1>2, <3>1 DEF RefuseCandidate, RuntimeHoldsActive
    <3>2. CASE RejectCandidate(Head(commitRequests))
      BY <1>2, <3>2 DEF RejectCandidate, RolledBackTo, RuntimeHoldsActive
    <3>3. CASE PromoteCandidate(Head(commitRequests))
      BY <3>3 DEF PromoteCandidate, CandidateOf, RuntimeHoldsActive
    <3> QED
      BY <2>1, <3>1, <3>2, <3>3 DEF SafePointCommit
  <2>2. CASE ~SafePointCommit
    <3>1. UNCHANGED <<active, runtime>>
      BY <1>2, <2>2, Zenon DEF Next, Main, Worker, Editor, Done, BeginTick, EndTicks, DrainTurn,
         Pump, Capture, EndSafePoint, Observe, Stop, Receive, ReadSources,
         CompileCandidate, Publish, Reply, Save, vars, runnerVars, loopVars
    <3> QED
      BY <1>2, <3>1 DEF RuntimeHoldsActive
  <2> QED
    BY <2>1, <2>2
<1> QED
  BY <1>1, <1>2, PTL DEF Spec

-----------------------------------------------------------------------------
(***************************************************************************)
(* Neither thread waits for the other in vain: publish_prepared_jit_       *)
(* candidate always finds room in the channel of capacity one, and the     *)
(* join always has a thread that has ended or still has to take the stop   *)
(* message.                                                                *)
(***************************************************************************)

\* A candidate stays in the channel only while its own request is on its way
\* to the safe point, which is reached through a capture.
RoomInv ==
    pc \notin {"join", "done"} /\ preparedSwaps # <<>> =>
       \/ worker.stage = "reply" /\ worker.ok
       \/ \E i \in DOMAIN compileResults : compileResults[i].ok
       \/ commitRequests # <<>> /\ pc # "commit"

\* Nobody captures once the thread has been told to stop, so a request still to
\* be compiled then needs the channel empty.
JoinInv ==
    /\ pc = "join" =>
          \/ worker.stage = "gone"
          \/ /\ compilerQueue = <<Shutdown>>
             /\ worker.stage \in {"read", "compile", "publish"} => preparedSwaps = <<>>
          \/ /\ worker.stage = "idle" /\ preparedSwaps = <<>>
             /\ \E message \in Message : /\ message # Shutdown
                                         /\ compilerQueue = <<message, Shutdown>>
    /\ pc = "done" => worker.stage = "gone"

\* The send of a prepared candidate never blocks, and the join ends: the thread
\* is gone, or works, or has a message left, of which the last one stops it.
NobodyWaitsInVain ==
    /\ worker.stage = "publish" => preparedSwaps = <<>>
    /\ pc = "join" => \/ worker.stage = "gone"
                      \/ \E i \in DOMAIN compilerQueue : compilerQueue[i] = Shutdown

\* While the loop runs, a request not yet answered finds the channel empty.
LEMMA RoomToPublish ==
    ASSUME RunnerInv, RoomInv, pc \notin {"join", "done"},
           worker.stage \in {"read", "compile", "publish"} \/ compilerQueue # <<>>
    PROVE  preparedSwaps = <<>>
<1>1. compileResults = <<>> /\ inFlightCompile # None /\ worker.stage # "reply"
  BY DEF RunnerInv, CompileInv
<1>2. commitRequests = <<>>
  BY <1>1 DEF RunnerInv, CommitInv
<1> QED
  BY <1>1, <1>2 DEF RoomInv

\* The loop goes on without touching a channel between the threads.
LEMMA RoomUntouched ==
    ASSUME RoomInv, JoinInv,
           UNCHANGED <<preparedSwaps, worker, compileResults, commitRequests, compilerQueue>>,
           \/ pc' = pc
           \/ /\ pc \notin {"join", "done"} /\ pc' \notin {"join", "done"}
              /\ pc' # "commit"
    PROVE  RoomInv' /\ JoinInv'
BY DEF RoomInv, JoinInv

LEMMA RoomLoops ==
    ASSUME RunnerInv, RoomInv, JoinInv,
           BeginTick \/ EndTicks \/ DrainTurn \/ EndSafePoint \/ Observe \/ Editor
              \/ UNCHANGED vars
    PROVE  RoomInv' /\ JoinInv'
<1>1. UNCHANGED <<preparedSwaps, worker, compileResults, commitRequests, compilerQueue>>
  BY Zenon DEF BeginTick, EndTicks, DrainTurn, EndSafePoint, Observe, Editor, Save, vars,
         pipelineVars, runnerVars
<1>2. \/ pc' = pc
      \/ pc \in {"submit", "commit", "observe"} /\ pc' \in {"dispatch", "stop", "redispatch", "submit"}
  BY DEF BeginTick, EndTicks, DrainTurn, EndSafePoint, Observe, Editor, Save, vars, runnerVars
<1> QED
  BY <1>1, <1>2, RoomUntouched, Zenon

LEMMA RoomPumps ==
    ASSUME RunnerInv, RoomInv, JoinInv, Pump
    PROVE  RoomInv' /\ JoinInv'
<1>1. /\ pc \in {"dispatch", "redispatch", "results", "settle"}
      /\ pc' \in {"results", "settle", "capture", "observe"}
      /\ UNCHANGED preparedSwaps
  BY DEF Pump
<1>2. CASE DrainAndDispatch
  BY <1>1, <1>2 DEF DrainAndDispatch, RoomInv, JoinInv
<1>3. CASE DrainResults
  <2>1. UNCHANGED worker
    BY <1>3 DEF DrainResults
  <2>2. \/ compileResults = <<>> /\ UNCHANGED commitRequests
        \/ \E ok \in BOOLEAN : /\ compileResults = <<[id |-> Current, ok |-> ok]>>
                               /\ commitRequests' = IF ok THEN <<Current>> ELSE <<>>
                               /\ inFlightCompile # None
    BY <1>1, <1>3, DrainFinds, Zenon
  <2>3. CASE compileResults = <<>> /\ UNCHANGED commitRequests
    BY <1>1, <2>1, <2>3 DEF RoomInv, JoinInv
  <2>4. ASSUME NEW ok \in BOOLEAN, compileResults = <<[id |-> Current, ok |-> ok]>>,
               commitRequests' = IF ok THEN <<Current>> ELSE <<>>, inFlightCompile # None
        PROVE  RoomInv' /\ JoinInv'
    <3>1. worker.stage = "idle" /\ commitRequests = <<>>
      BY <1>1, <2>4 DEF RunnerInv, CompileInv, CommitInv
    <3>2. (\E i \in DOMAIN compileResults : compileResults[i].ok) => ok
      BY <2>4
    <3> QED
      BY <1>1, <2>1, <2>4, <3>1, <3>2, ZenonT(30) DEF RoomInv, JoinInv
  <2> QED
    BY <2>2, <2>3, <2>4, Zenon
<1> QED
  BY <1>2, <1>3 DEF Pump

LEMMA RoomCommits ==
    ASSUME RunnerInv, RoomInv, JoinInv, Capture \/ SafePointCommit
    PROVE  RoomInv' /\ JoinInv'
<1>1. CASE Capture
  <2>1. preparedSwaps' = <<>> /\ pc' = "commit"
    BY <1>1 DEF Capture
  <2> QED
    BY <2>1 DEF RoomInv, JoinInv
<1>2. CASE SafePointCommit
  <2>1. /\ pc = "commit" /\ pc' = "commit" /\ commitRequests # <<>>
        /\ UNCHANGED preparedSwaps
    BY <1>2 DEF SafePointCommit
  <2>2. inFlightCompile = None
    BY <2>1 DEF RunnerInv, CommitInv
  <2>3. worker.stage = "idle" /\ compileResults = <<>>
    BY <2>1, <2>2 DEF RunnerInv, CompileInv
  <2>4. preparedSwaps = <<>>
    BY <2>1, <2>3 DEF RoomInv
  <2> QED
    BY <2>1, <2>4 DEF RoomInv, JoinInv
<1> QED
  BY <1>1, <1>2

LEMMA Paired ==
    ASSUME NEW S, NEW a \in S, NEW b \in S
    PROVE  Append(<<a>>, b) = <<a, b>>
<1>1. /\ <<a, b>> \in Seq(S) /\ Append(<<a>>, b) \in Seq(S)
      /\ Len(<<a, b>>) = 2 /\ Len(Append(<<a>>, b)) = 2
  OBVIOUS
<1>2. /\ Append(<<a>>, b)[1] = a /\ Append(<<a>>, b)[2] = b
      /\ <<a, b>>[1] = a /\ <<a, b>>[2] = b
  OBVIOUS
<1>3. \A p, q \in Seq(S) : Len(p) = 2 /\ Len(q) = 2 /\ p[1] = q[1] /\ p[2] = q[2] => p = q
  <2>1. 1 .. 2 = {1, 2}
    OBVIOUS
  <2> QED
    BY <2>1
<1> QED
  BY <1>1, <1>2, <1>3, Zenon

LEMMA RoomStops ==
    ASSUME RunnerInv, RoomInv, JoinInv, Stop
    PROVE  RoomInv' /\ JoinInv'
<1>1. CASE pc = "join"
  <2>1. pc' = "done" /\ worker.stage = "gone" /\ UNCHANGED worker
    BY <1>1 DEF Stop, FinishShutdown
  <2> QED
    BY <2>1 DEF RoomInv, JoinInv
<1>2. CASE pc = "stop"
  <2>1. /\ pc' = "join" /\ UNCHANGED <<worker, preparedSwaps>>
        /\ compilerQueue' = Append(compilerQueue, Shutdown)
    BY <1>2 DEF Stop, SendShutdown
  <2>2. CASE compilerQueue = <<>>
    <3>1. compilerQueue' = <<Shutdown>>
      BY <2>1, <2>2
    <3>2. worker.stage \in {"read", "compile", "publish"} => preparedSwaps = <<>>
      BY <1>2, RoomToPublish
    <3> QED
      BY <2>1, <3>1, <3>2 DEF RoomInv, JoinInv
  <2>3. CASE compilerQueue # <<>>
    <3>1. preparedSwaps = <<>> /\ worker.stage = "idle"
      BY <1>2, <2>3, RoomToPublish DEF RunnerInv, CompileInv
    <3>2. PICK files \in SUBSET Files : compilerQueue = <<[id |-> Current, files |-> files]>>
      BY <1>2, <2>3 DEF RunnerInv, CompileInv
    <3> DEFINE message == [id |-> Current, files |-> files]
    <3>3. Current # None /\ Current \in Nat
      BY <1>2, <2>3 DEF RunnerInv, CompileInv, Typed, Current
    <3>4. message \in Message /\ message # Shutdown
      BY <3>3 DEF Message, Shutdown
    <3> HIDE DEF message
    <3>5. compilerQueue' = <<message, Shutdown>>
      <4>1. Shutdown \in Message
        BY <2>1 DEF Message, Shutdown, None
      <4>2. Append(<<message>>, Shutdown) = <<message, Shutdown>>
        BY <3>4, <4>1, Paired, Zenon
      <4> QED
        BY <2>1, <3>2, <4>2, Zenon DEF message
    <3> QED
      BY <2>1, <3>1, <3>4, <3>5 DEF RoomInv, JoinInv
  <2> QED
    BY <2>2, <2>3
<1> QED
  BY <1>1, <1>2 DEF Stop

\* The compiler thread, while the loop runs.
LEMMA RoomWorks ==
    ASSUME RunnerInv, RoomInv, JoinInv, Worker, pc \notin {"join", "done"}
    PROVE  RoomInv' /\ JoinInv'
<1>1. UNCHANGED pc
  BY Zenon DEF Worker, Receive, ReadSources, CompileCandidate, Publish, Reply, runnerVars, loopVars
<1>2. JoinInv'
  BY <1>1 DEF JoinInv
<1>3. CASE Receive \/ ReadSources \/ CompileCandidate
  <2>1. /\ worker.stage \in {"read", "compile", "publish"} \/ compilerQueue # <<>>
        /\ UNCHANGED preparedSwaps
    BY <1>3 DEF Receive, WorkerReceive, ReadSources, CompileCandidate, WorkerAdvance, runnerVars
  <2>2. preparedSwaps = <<>>
    BY <2>1, RoomToPublish
  <2> QED
    BY <1>2, <2>1, <2>2 DEF RoomInv
<1>4. CASE Publish
  <2>1. worker' = [worker EXCEPT !.stage = "reply", !.ok = TRUE]
    BY <1>4 DEF Publish, WorkerAdvance
  <2>2. worker'.stage = "reply" /\ worker'.ok
    BY <2>1 DEF RunnerInv, Typed
  <2> QED
    BY <1>2, <2>2 DEF RoomInv
<1>5. CASE Reply
  <2>1. /\ worker.stage = "reply" /\ UNCHANGED <<preparedSwaps, commitRequests>>
        /\ compileResults' = Append(compileResults, [id |-> worker.request.id, ok |-> worker.ok])
    BY <1>5 DEF Reply, WorkerReply, runnerVars
  <2>2. compileResults = <<>>
    BY <2>1 DEF RunnerInv, CompileInv
  <2>3. 1 \in DOMAIN compileResults' /\ compileResults'[1].ok = worker.ok
    BY <2>1, <2>2
  <2> QED
    BY <1>1, <1>2, <2>1, <2>2, <2>3 DEF RoomInv
<1> QED
  BY <1>3, <1>4, <1>5 DEF Worker

\* The compiler thread, once it has been told to stop.
LEMMA RoomEnds ==
    ASSUME RunnerInv, RoomInv, JoinInv, Worker, pc \in {"join", "done"}
    PROVE  RoomInv' /\ JoinInv'
<1>1. UNCHANGED pc
  BY Zenon DEF Worker, Receive, ReadSources, CompileCandidate, Publish, Reply, runnerVars, loopVars
<1>2. worker.stage # "gone"
  BY DEF Worker, Receive, ReadSources, CompileCandidate, Publish, Reply, WorkerReceive,
         WorkerAdvance, WorkerReply
<1>3. pc = "join"
  BY <1>2 DEF JoinInv
<1>4. CASE Receive
  <2>1. /\ worker.stage = "idle" /\ compilerQueue # <<>>
        /\ compilerQueue' = Tail(compilerQueue)
        /\ worker'.stage = IF Head(compilerQueue) = Shutdown THEN "gone" ELSE "read"
        /\ UNCHANGED preparedSwaps
    BY <1>4 DEF Receive, WorkerReceive, runnerVars
  <2>2. CASE compilerQueue = <<Shutdown>>
    <3>1. worker'.stage = "gone"
      BY <2>1, <2>2
    <3> QED
      BY <1>1, <1>3, <3>1 DEF RoomInv, JoinInv
  <2>3. CASE compilerQueue # <<Shutdown>>
    <3>1. PICK message \in Message : /\ message # Shutdown
                                     /\ compilerQueue = <<message, Shutdown>>
                                     /\ preparedSwaps = <<>>
      BY <1>2, <1>3, <2>3 DEF JoinInv
    <3>2. worker'.stage = "read" /\ compilerQueue' = <<Shutdown>>
      BY <2>1, <3>1
    <3> QED
      BY <1>1, <1>3, <2>1, <3>1, <3>2 DEF RoomInv, JoinInv
  <2> QED
    BY <2>2, <2>3
<1>5. CASE ReadSources \/ CompileCandidate
  <2>1. /\ worker.stage \in {"read", "compile"}
        /\ worker'.stage \in {"compile", "publish", "reply"}
        /\ UNCHANGED <<compilerQueue, preparedSwaps>>
    BY <1>5, ZenonT(30) DEF ReadSources, CompileCandidate, WorkerAdvance, RunnerInv, Typed
  <2> QED
    BY <1>1, <1>3, <2>1 DEF RoomInv, JoinInv
<1>6. CASE Publish \/ Reply
  <2>1. /\ worker.stage \in {"publish", "reply"}
        /\ worker'.stage \in {"reply", "idle"}
        /\ UNCHANGED compilerQueue
    <3>1. CASE Publish
      BY <1>6, <3>1, ZenonT(30) DEF Publish, WorkerAdvance, RunnerInv, Typed
    <3>2. CASE Reply
      BY <3>2 DEF Reply, WorkerReply, IdleWorker
    <3> QED
      BY <1>6, <3>1, <3>2, Zenon
  <2> QED
    BY <1>1, <1>3, <2>1 DEF RoomInv, JoinInv
<1> QED
  BY <1>4, <1>5, <1>6 DEF Worker

\* publish_prepared_jit_candidate never blocks, and the join of the shutdown never
\* waits for a thread nobody will stop.  (That the thread then takes its steps is
\* the fairness RunnerStops assumes.)
THEOREM NobodyWaits == Spec => []NobodyWaitsInVain
<1>1. Init => RoomInv /\ JoinInv
  BY DEF Init, RoomInv, JoinInv
<1>2. RunnerInv /\ RoomInv /\ JoinInv /\ [Next]_vars => RoomInv' /\ JoinInv'
  <2> SUFFICES ASSUME RunnerInv, RoomInv, JoinInv, [Next]_vars
               PROVE  RoomInv' /\ JoinInv'
    OBVIOUS
  <2> QED
    BY RoomLoops, RoomPumps, RoomCommits, RoomStops, RoomWorks, RoomEnds DEF Next, Main, Done
<1>3. RunnerInv /\ RoomInv /\ JoinInv => NobodyWaitsInVain
  <2> SUFFICES ASSUME RunnerInv, RoomInv, JoinInv PROVE NobodyWaitsInVain
    OBVIOUS
  <2>1. worker.stage = "publish" => preparedSwaps = <<>>
    <3>1. CASE pc \notin {"join", "done"}
      BY <3>1, RoomToPublish
    <3>2. CASE pc \in {"join", "done"}
      BY <3>2 DEF JoinInv
    <3> QED
      BY <3>1, <3>2
  <2>2. ASSUME pc = "join", worker.stage # "gone"
        PROVE  \E i \in DOMAIN compilerQueue : compilerQueue[i] = Shutdown
    <3>1. CASE compilerQueue = <<Shutdown>>
      BY <3>1
    <3>2. ASSUME NEW message \in Message, compilerQueue = <<message, Shutdown>>
          PROVE  2 \in DOMAIN compilerQueue /\ compilerQueue[2] = Shutdown
      BY <3>2
    <3> QED
      BY <2>2, <3>1, <3>2 DEF JoinInv
  <2> QED
    BY <2>1, <2>2 DEF NobodyWaitsInVain
<1> QED
  BY <1>1, <1>2, <1>3, OneRequestAtATime, PTL DEF Spec

-----------------------------------------------------------------------------
(* The refinement: each step of the runner is a step of the swap service, or  *)
(* leaves it alone.                                                           *)

ServiceStep == Service!Next \/ UNCHANGED Service!serviceVars

\* What the service does not see.
LEMMA Unseen ==
    ASSUME UNCHANGED <<nextRequestId, active, announced, stoppedRequests>>,
           fileChanges' \union pendingFiles' = fileChanges \union pendingFiles,
           ServicePhase' = ServicePhase
    PROVE  ServiceStep
BY Zenon DEF ServiceStep, Service!serviceVars

LEMMA ServiceStarts == Init => Service!Init
BY DEF Init, PipelineInit, Service!Init, ServicePhase, NoCandidate, NoOutcome, None

LEMMA UnseenSteps ==
    ASSUME RunnerInv,
           EndTicks \/ DrainTurn \/ Capture \/ EndSafePoint \/ Worker \/ Editor
               \/ UNCHANGED vars
    PROVE  ServiceStep
<1>1. UNCHANGED <<nextRequestId, active, announced, stoppedRequests, fileChanges,
                  pendingFiles, inFlightCompile, inFlightCommit, commitResults,
                  lastCommitResult, lastSeenCommitId>>
  BY DEF EndTicks, DrainTurn, Capture, EndSafePoint, Worker, Editor, Save, Receive,
         ReadSources, CompileCandidate, Publish, Reply, WorkerReceive, WorkerAdvance,
         WorkerReply, vars, pipelineVars, runnerVars, loopVars
<1>2. pc' = pc \/ (pc # "done" /\ pc' # "done")
  BY Zenon DEF EndTicks, DrainTurn, Capture, EndSafePoint, Worker, Editor, Save, Receive,
         ReadSources, CompileCandidate, Publish, Reply, vars, runnerVars, loopVars
<1>3. ServicePhase' = ServicePhase
  BY <1>1, <1>2 DEF ServicePhase
<1> QED
  BY <1>1, <1>3, Unseen, Zenon

\* Submitted changes.
LEMMA BeginTickServes ==
    ASSUME RunnerInv, BeginTick
    PROVE  ServiceStep
<1>1. /\ UNCHANGED <<nextRequestId, active, announced, stoppedRequests,
                     pendingFiles, inFlightCompile, inFlightCommit, commitResults,
                     lastCommitResult, lastSeenCommitId>>
      /\ pc = "submit" /\ pc' = "dispatch"
      /\ fileChanges \subseteq fileChanges'
  BY DEF BeginTick, SubmitFileChanges
<1>2. ServicePhase' = ServicePhase /\ ServicePhase # "stopped"
  BY <1>1 DEF ServicePhase
<1>3. CASE fileChanges' \union pendingFiles' = {}
  BY <1>1, <1>2, <1>3, Unseen
<1>4. CASE fileChanges' \union pendingFiles' # {}
  <2>1. Service!Change
    BY <1>1, <1>2, <1>4 DEF Service!Change
  <2> QED
    BY <2>1 DEF ServiceStep, Service!Next
<1> QED
  BY <1>3, <1>4

\* maybe_dispatch_compile_request.
LEMMA DispatchServes ==
    ASSUME RunnerInv, Pump, pc \in {"dispatch", "redispatch"}
    PROVE  ServiceStep
<1>1. /\ DrainAndDispatch
      /\ pc' \in {"results", "settle"}
      /\ UNCHANGED <<lastSeenCommitId, active, announced, stoppedRequests>>
  BY DEF Pump
<1>2. UNCHANGED <<inFlightCommit, lastCommitResult, commitResults>>
  BY <1>1 DEF DrainAndDispatch
<1> DEFINE pending == pendingFiles \union fileChanges
<1>3. CASE ~MayDispatch(pending)
  <2>1. /\ UNCHANGED <<inFlightCompile, nextRequestId>>
        /\ fileChanges' \union pendingFiles' = fileChanges \union pendingFiles
    BY <1>1, <1>3 DEF DrainAndDispatch
  <2>2. ServicePhase' = ServicePhase
    BY <1>1, <1>2, <2>1 DEF ServicePhase
  <2> QED
    BY <1>1, <2>1, <2>2, Unseen
<1>4. CASE MayDispatch(pending)
  <2>1. /\ inFlightCompile = None /\ inFlightCommit = None
        /\ fileChanges \union pendingFiles # {}
        /\ inFlightCompile' = nextRequestId /\ nextRequestId' = nextRequestId + 1
        /\ fileChanges' \union pendingFiles' = {}
    BY <1>1, <1>4 DEF DrainAndDispatch, MayDispatch
  <2>2. nextRequestId \in Nat \ {0}
    BY Zenon DEF RunnerInv, Typed
  <2>3. ServicePhase = "idle"
    BY <2>1 DEF RunnerInv, CommitInv, SeenInv, ServicePhase
  <2>4. ServicePhase' = "compiling"
    BY <1>1, <2>1, <2>2 DEF ServicePhase, None
  <2>5. Service!Dispatch
    BY <1>1, <2>1, <2>2, <2>3, <2>4 DEF Service!Dispatch
  <2> QED
    BY <2>5 DEF ServiceStep, Service!Next
<1> QED
  BY <1>3, <1>4

\* drain_compile_results and drain_commit_results.
LEMMA DrainServes ==
    ASSUME RunnerInv, Pump, pc \in {"results", "settle"}
    PROVE  ServiceStep
<1>1. /\ DrainResults
      /\ (pc = "results" /\ pc' = "capture") \/ (pc = "settle" /\ pc' = "observe")
      /\ UNCHANGED <<lastSeenCommitId, active, announced, stoppedRequests>>
  BY DEF Pump
<1>2. UNCHANGED <<nextRequestId, fileChanges, pendingFiles>>
  BY <1>1 DEF DrainResults
<1>3. compileResults' = <<>> /\ commitResults' = <<>>
  BY <1>1, DrainFinds, Zenon
<1>4. lastCommitResult.id = lastSeenCommitId
  BY <1>1 DEF RunnerInv, SeenInv
<1>5. CASE /\ compileResults = <<>> /\ commitResults = <<>>
           /\ UNCHANGED <<inFlightCompile, inFlightCommit, lastCommitResult>>
  <2>1. ServicePhase' = ServicePhase
    BY <1>1, <1>3, <1>5 DEF ServicePhase
  <2> QED
    BY <1>1, <1>2, <2>1, Unseen
<1>6. CASE /\ inFlightCompile = Current /\ inFlightCompile' = None /\ Current # None
           /\ UNCHANGED lastCommitResult
  <2>1. ServicePhase = "compiling"
    BY <1>1, <1>6 DEF ServicePhase
  <2>2. ServicePhase' \in {"idle", "waiting"}
    BY <1>1, <1>3, <1>4, <1>6 DEF ServicePhase
  <2>3. Service!CompileEnds
    BY <1>1, <1>2, <2>1, <2>2 DEF Service!CompileEnds
  <2> QED
    BY <2>3 DEF ServiceStep, Service!Next, Service!GoOn
<1>7. CASE /\ commitResults # <<>> /\ lastCommitResult'.id = Current
           /\ inFlightCommit = Current /\ Current # None
           /\ inFlightCompile = None /\ inFlightCompile' = None
  <2>1. ServicePhase = "decided"
    BY <1>1, <1>7 DEF ServicePhase
  <2>2. lastSeenCommitId # Current
    BY <1>1, <1>7 DEF RunnerInv, SeenInv
  <2>3. ServicePhase' = "decided"
    BY <1>1, <1>7, <2>2 DEF ServicePhase
  <2> QED
    BY <1>1, <1>2, <2>1, <2>3, Unseen
<1> QED
  BY <1>1, <1>5, <1>6, <1>7, DrainFinds

\* The decision of the safe point.
LEMMA CommitServes ==
    ASSUME RunnerInv, SafePointCommit
    PROVE  ServiceStep
<1>1. /\ UNCHANGED <<nextRequestId, inFlightCompile, fileChanges, pendingFiles,
                     lastCommitResult, lastSeenCommitId, announced, stoppedRequests, pc>>
      /\ pc = "commit" /\ commitRequests # <<>>
  BY DEF SafePointCommit, RefuseCandidate, RejectCandidate, PromoteCandidate, ProcessCommit
<1>2. /\ commitRequests = <<Current>> /\ commitResults = <<>> /\ Current # None
      /\ inFlightCommit = Current /\ inFlightCompile = None
  BY <1>1 DEF RunnerInv, CommitInv
<1>3. Head(commitRequests) = Current
  BY <1>2
<1>4. commitResults' # <<>> /\ active'.id \in {active.id, Current}
  BY <1>2, <1>3 DEF SafePointCommit, RefuseCandidate, RejectCandidate, PromoteCandidate,
                    ProcessCommit, CandidateOf
<1>5. ServicePhase = "waiting"
  BY <1>1, <1>2 DEF RunnerInv, SeenInv, ServicePhase
<1>6. ServicePhase' = "decided"
  BY <1>1, <1>2, <1>4 DEF ServicePhase
<1>7. Service!Decide
  BY <1>1, <1>4, <1>5, <1>6 DEF Service!Decide, Current
<1> QED
  BY <1>7, Zenon DEF ServiceStep, Service!Next, Service!GoOn

\* observe_pipeline_results announces exactly the accepted swap.
LEMMA ObserveServes ==
    ASSUME RunnerInv, Observe
    PROVE  ServiceStep
<1> DEFINE new == lastCommitResult.id # None /\ lastCommitResult.id # lastSeenCommitId
<1>1. /\ UNCHANGED <<nextRequestId, inFlightCompile, inFlightCommit, fileChanges,
                     pendingFiles, commitResults, lastCommitResult, active, stoppedRequests>>
      /\ pc = "observe" /\ pc' = "submit"
      /\ lastSeenCommitId' = IF new THEN lastCommitResult.id ELSE lastSeenCommitId
      /\ announced' = IF new /\ lastCommitResult.ok
                      THEN announced \union {lastCommitResult.id} ELSE announced
  BY Zenon DEF Observe, pipelineVars
<1>2. commitResults = <<>>
  BY <1>1 DEF RunnerInv, CommitInv
<1>3. CASE lastCommitResult.id = lastSeenCommitId
  <2>1. ServicePhase' = ServicePhase /\ announced' = announced
    BY <1>1, <1>3 DEF ServicePhase
  <2> QED
    BY <1>1, <2>1, Unseen
<1>4. CASE lastCommitResult.id # lastSeenCommitId
  <2>1. /\ inFlightCompile = None /\ inFlightCommit = None
        /\ lastCommitResult.id = Current
        /\ lastCommitResult.ok <=> active.id = Current
        /\ lastSeenCommitId \in Nat /\ lastSeenCommitId <= Current
    BY <1>1, <1>4 DEF RunnerInv, SeenInv
  <2>2. Current # None /\ new
    BY <1>4, <2>1 DEF RunnerInv, Typed, Current, None
  <2>3. ServicePhase = "decided"
    BY <1>1, <1>4, <2>1 DEF ServicePhase
  <2>4. ServicePhase' = "idle"
    BY <1>1, <1>2, <2>1, <2>2 DEF ServicePhase
  <2>5. announced' = announced \union ({active.id} \intersect {Current})
    BY <1>1, <2>1, <2>2, Zenon
  <2>6. Service!Announce
    BY <1>1, <2>3, <2>4, <2>5 DEF Service!Announce, Current
  <2> QED
    BY <2>6 DEF ServiceStep, Service!Next, Service!GoOn
<1> QED
  BY <1>3, <1>4

\* shutdown rejects the request it interrupts.
LEMMA StopServes ==
    ASSUME RunnerInv, Stop
    PROVE  ServiceStep
<1>1. UNCHANGED <<nextRequestId, active, announced, lastSeenCommitId>>
  BY DEF Stop, SendShutdown, FinishShutdown
<1>2. CASE pc = "stop"
  <2>1. /\ pc' = "join"
        /\ UNCHANGED <<stoppedRequests, fileChanges, pendingFiles, inFlightCompile,
                       inFlightCommit, commitResults, lastCommitResult>>
    BY <1>2 DEF Stop, SendShutdown
  <2>2. ServicePhase' = ServicePhase
    BY <1>1, <1>2, <2>1 DEF ServicePhase
  <2> QED
    BY <1>1, <2>1, <2>2, Unseen
<1>3. CASE pc = "join"
  <2>1. /\ pc' = "done" /\ fileChanges' = {} /\ pendingFiles' = {}
        /\ stoppedRequests' = RejectedAtShutdown
    BY <1>3 DEF Stop, FinishShutdown
  <2>2. ServicePhase' = "stopped"
    BY <2>1, Zenon DEF ServicePhase
  <2>3. lastCommitResult.id = lastSeenCommitId /\ commitResults = <<>>
    BY <1>3 DEF RunnerInv, SeenInv, CommitInv
  <2>4. ServicePhase = IF inFlightCompile # None THEN "compiling"
                       ELSE IF inFlightCommit # None THEN "waiting" ELSE "idle"
    BY <1>3, <2>3 DEF ServicePhase
  <2>5. RejectedAtShutdown = IF ServicePhase = "idle" THEN {} ELSE {Current}
    <3>1. CASE inFlightCommit = None
      <4>1. commitRequests = <<>>
        BY <1>3, <3>1 DEF RunnerInv, CommitInv, None
      <4>2. {commitRequests[i] : i \in DOMAIN commitRequests} = {}
        BY <4>1
      <4> QED
        BY <1>3, <2>4, <3>1, <4>2 DEF RunnerInv, SeenInv, RejectedAtShutdown
    <3>2. CASE inFlightCommit # None
      <4>1. /\ inFlightCommit = Current /\ inFlightCompile = None
            /\ commitRequests = <<Current>>
        BY <1>3, <2>3, <3>2 DEF RunnerInv, CommitInv
      <4>2. {commitRequests[i] : i \in DOMAIN commitRequests} = {Current}
        BY <4>1
      <4> QED
        BY <2>4, <3>2, <4>1, <4>2 DEF RejectedAtShutdown
    <3> QED
      BY <3>1, <3>2
  <2>6. Service!Shutdown
    BY <1>1, <2>1, <2>2, <2>4, <2>5 DEF Service!Shutdown, Current
  <2> QED
    BY <2>6 DEF ServiceStep, Service!Next
<1> QED
  BY <1>2, <1>3 DEF Stop

\* The runner implements the safety part of the swap service: the steps of its
\* two threads, its channels and its files are steps of one request at a time.
THEOREM ImplementsSafely == Spec => Service!SafeSpec
<1>1. Init => Service!Init
  BY ServiceStarts
<1>2. ASSUME RunnerInv, [Next]_vars PROVE [Service!Next]_(Service!serviceVars)
  <2>1. CASE Pump
    <3>1. pc \in {"dispatch", "redispatch"} \/ pc \in {"results", "settle"}
      BY <2>1 DEF Pump
    <3> QED
      BY <1>2, <2>1, <3>1, DispatchServes, DrainServes DEF ServiceStep
  <2>2. CASE ~Pump
    BY <1>2, <2>2, UnseenSteps, BeginTickServes, CommitServes, ObserveServes, StopServes
    DEF ServiceStep, Next, Main, Done
  <2> QED
    BY <2>1, <2>2
<1> QED
  BY <1>1, <1>2, OneRequestAtATime, PTL DEF Spec, Service!SafeSpec

-----------------------------------------------------------------------------
(***************************************************************************)
(* The sources.  A saved file is followed through the watcher, the queues, *)
(* the cache and the JIT process to the program that runs.                 *)
(*                                                                         *)
(* The watcher reports a file of the graph it has last loaded, so the      *)
(* argument needs that edits leave imports as they are: a file may change  *)
(* unseen before a new import of it is noticed, or after one was dropped.  *)
(***************************************************************************)

\* Edits change what a file says, not what it imports.
StableImports == \A f \in Files : \A c, d \in Versions[f] : Imports[c] = Imports[d]

\* What an editor can make of the project.
Saved == {s \in Sources : \A f \in Files : s[f] \in Versions[f] \union {Missing}}

\* The files that the entry of a complete project reaches.
IsGraph(files) == \E d \in Saved : Present(d) = Files /\ files = Reached({Root}, d)

GraphInv ==
    /\ disk \in Saved /\ disk[Root] # Missing
    /\ IsGraph(dependencyPaths)
    /\ pc \in {"stop", "join", "done"} => draining

\* What the backend holds was saved once.
BackendType == [cache : Saved, files : Saved, rooted : BOOLEAN, seeded : BOOLEAN]

BackendInv == backend \in BackendType

\* A change of a file that no request has taken to the compiler thread.
OnItsWay(f) ==
    \/ f \in watchEvents \union fileChanges \union pendingFiles
    \/ \E i \in DOMAIN compilerQueue : f \in compilerQueue[i].files

\* The first request holds the entry source.
RootKnown ==
    \/ backend.cache[Root] # Missing
    \/ inFlightCompile = None /\ Root \in fileChanges \union pendingFiles
    \/ \E i \in DOMAIN compilerQueue : Root \in compilerQueue[i].files
    \/ worker.stage = "read" /\ Root \in worker.request.files

RootInv ==
    ~draining =>
       /\ ~fileChangeSent => pc = "submit" /\ inFlightCompile = None
       /\ fileChangeSent => RootKnown

\* The process holds the graph, each file as saved unless a change of it is on
\* its way or with the request at work.
ProcessInv ==
    ~draining /\ ~compileFailed /\ backend.seeded =>
       /\ backend.rooted
       /\ \A f \in dependencyPaths :
             /\ backend.files[f] # Missing
             /\ \/ backend.files[f] = disk[f]
                \/ OnItsWay(f)
                \/ worker.stage \in {"read", "compile"} /\ f \in worker.request.files

Candidates == {preparedSwaps[i] : i \in DOMAIN preparedSwaps} \union pendingCandidates

\* Captured candidates are no longer in the channel.
LEMMA CapturedAll ==
    ASSUME preparedSwaps' = <<>>,
           pendingCandidates' = pendingCandidates \union {preparedSwaps[i] : i \in DOMAIN preparedSwaps}
    PROVE  Candidates' = Candidates
BY DEF Candidates

\* The request has not been compiled, or not been published yet.
Unpublished == compilerQueue # <<>> \/ worker.stage \in {"read", "compile", "publish"}

\* The candidate of the current request is what the process holds.
ProgramInv ==
    ~draining =>
       /\ inFlightCompile = None => lastCompileResult.id = Current
       /\ \A c \in Candidates : c.id \in 1 .. Current
       /\ active # NoCandidate => active.id \in 1 .. Current
       /\ worker.stage = "publish" => backend.seeded
       /\ \A c \in Candidates \union {active} :
             c.id = Current /\ Current # None =>
                ~Unpublished /\ backend.seeded /\ c.program = backend.files

SourcesInv == GraphInv /\ BackendInv /\ NoChangeForgotten /\ RootInv /\ ProcessInv /\ ProgramInv

LEMMA ReachedIsLeast ==
    ASSUME NEW roots, NEW sources, NEW files \in SUBSET Files,
           roots \subseteq files, Closed(files, sources)
    PROVE  Reached(roots, sources) \subseteq files
BY DEF Reached

LEMMA ReachedIsClosed ==
    ASSUME NEW roots \in SUBSET Files, NEW sources \in Sources
    PROVE  /\ roots \subseteq Reached(roots, sources)
           /\ Reached(roots, sources) \subseteq Files
           /\ Closed(Reached(roots, sources), sources)
<1>1. /\ roots \subseteq Reached(roots, sources)
      /\ Reached(roots, sources) \subseteq Files
  BY DEF Reached
<1>2. ASSUME NEW f \in Reached(roots, sources) \intersect Present(sources),
             NEW g \in Imports[sources[f]]
      PROVE  g \in Reached(roots, sources)
  <2>1. f \in Files /\ sources[f] \in Contents
    BY <1>1 DEF Present, Sources
  <2>2. g \in Files
    BY <2>1, SourceAssumption
  <2>3. ASSUME NEW files \in SUBSET Files, roots \subseteq files, Closed(files, sources)
        PROVE  g \in files
    <3>1. f \in files
      BY <2>3 DEF Reached
    <3> QED
      BY <2>3, <3>1 DEF Closed
  <2> QED
    BY <2>2, <2>3 DEF Reached
<1>3. Closed(Reached(roots, sources), sources)
  BY <1>2 DEF Closed
<1> QED
  BY <1>1, <1>3

LEMMA SavedSources ==
    ASSUME NEW s \in Saved
    PROVE  /\ s \in Sources /\ s = [f \in Files |-> s[f]]
           /\ \A f \in Files : s[f] \in Versions[f] \union {Missing}
           /\ \A f \in Files : s[f] # Missing => s[f] \in Versions[f]
BY DEF Saved, Sources

\* What is reached through imports that other sources have as well.
LEMMA ReachedWithin ==
    ASSUME StableImports, NEW few \in SUBSET Files, NEW many \in SUBSET Files, few \subseteq many,
           NEW s \in Saved, NEW t \in Saved,
           Reached(many, t) \intersect Present(s) \subseteq Present(t)
    PROVE  Reached(few, s) \subseteq Reached(many, t)
<1> DEFINE R == Reached(many, t)
<1>1. many \subseteq R /\ R \in SUBSET Files /\ Closed(R, t)
  BY ReachedIsClosed, SavedSources, Zenon
<1>2. ASSUME NEW f \in R \intersect Present(s) PROVE Imports[s[f]] \subseteq R
  <2>1. f \in Files /\ f \in Present(t) /\ f \in R
    BY <1>1, <1>2
  <2>2. s[f] \in Versions[f] /\ t[f] \in Versions[f]
    BY <1>2, <2>1, SavedSources DEF Present
  <2>3. Imports[s[f]] = Imports[t[f]]
    BY <2>1, <2>2, Zenon DEF StableImports
  <2> QED
    BY <1>1, <2>1, <2>3 DEF Closed
<1>3. Closed(R, s)
  BY <1>2 DEF Closed
<1> HIDE DEF R
<1>4. few \subseteq R
  BY <1>1
<1> QED
  BY <1>1, <1>3, <1>4, ReachedIsLeast DEF R

\* The graph is the same for all sources in which it loads.
LEMMA GraphOfSources ==
    ASSUME StableImports, NEW files, IsGraph(files), NEW s \in Saved,
           Reached({Root}, s) \subseteq Present(s) \/ files \subseteq Present(s)
    PROVE  Reached({Root}, s) = files
<1>1. PICK d \in Saved : Present(d) = Files /\ files = Reached({Root}, d)
  BY DEF IsGraph
<1>2. {Root} \in SUBSET Files
  BY SourceAssumption
<1>3. Present(s) \subseteq Files
  BY DEF Present
<1>4. Reached({Root}, s) \subseteq files
  BY <1>1, <1>2, <1>3, ReachedWithin
<1>5. Reached({Root}, s) \subseteq Present(s)
  BY <1>4
<1>6. files \subseteq Reached({Root}, s)
  BY <1>1, <1>2, <1>5, ReachedWithin
<1> QED
  BY <1>4, <1>6

LEMMA GraphIsFiles ==
    ASSUME NEW files, IsGraph(files)
    PROVE  files \subseteq Files /\ Root \in files
BY ReachedIsClosed, SourceAssumption, SavedSources DEF IsGraph

\* The watched files are always those of the one graph.
LEMMA GraphStays ==
    ASSUME StableImports, GraphInv, [Next]_vars
    PROVE  UNCHANGED dependencyPaths
<1>1. CASE BeginTick
  <2>1. \/ UNCHANGED dependencyPaths
        \/ GraphLoads(disk) /\ dependencyPaths' = Reached({Root}, disk)
    BY <1>1 DEF BeginTick
  <2>2. GraphLoads(disk) => Reached({Root}, disk) = dependencyPaths
    BY GraphOfSources DEF GraphInv, GraphLoads
  <2> QED
    BY <2>1, <2>2
<1>2. CASE ~BeginTick
  BY <1>2, Zenon DEF Next, Main, Worker, Done, Editor, Save, EndTicks, DrainTurn,
     Pump, Capture, SafePointCommit, EndSafePoint, Observe, Stop, Receive, ReadSources,
     CompileCandidate, Publish, Reply, vars, runnerVars, loopVars
<1> QED
  BY <1>1, <1>2

LEMMA GraphKept ==
    ASSUME StableImports, GraphInv, [Next]_vars
    PROVE  GraphInv'
<1>1. disk' \in Saved /\ disk'[Root] # Missing
  <2>1. CASE Editor
    <3>1. PICK f \in Files :
             \E content \in Versions[f] \union (IF Deletes /\ f # Root THEN {Missing} ELSE {}) :
                disk' = [disk EXCEPT ![f] = content]
      BY <2>1, Zenon DEF Editor, Save
    <3>2. PICK content \in Versions[f] \union (IF Deletes /\ f # Root THEN {Missing} ELSE {}) :
                  disk' = [disk EXCEPT ![f] = content]
      BY <3>1, Zenon
    <3>3. content \in Versions[f] \union {Missing} /\ content \in Contents \union {Missing}
      BY <3>1, RunnerAssumption
    <3>4. f = Root => content # Missing
      BY <3>1, RunnerAssumption, SourceAssumption
    <3> QED
      BY <3>2, <3>3, <3>4, SourceAssumption DEF GraphInv, Saved, Sources
  <2>2. CASE ~Editor
    <3>1. UNCHANGED disk
      BY <2>2, Zenon DEF Next, Main, Worker, Done, BeginTick, EndTicks, DrainTurn,
         Pump, Capture, SafePointCommit, EndSafePoint, Observe, Stop, Receive, ReadSources,
         CompileCandidate, Publish, Reply, vars, runnerVars
    <3> QED
      BY <3>1 DEF GraphInv
  <2> QED
    BY <2>1, <2>2, Zenon
<1>2. IsGraph(dependencyPaths')
  BY GraphStays DEF GraphInv
<1>3. pc' \in {"stop", "join", "done"} => draining'
  <2>1. CASE DrainTurn
    BY <2>1 DEF DrainTurn
  <2>2. CASE Stop
    BY <2>2, ZenonT(30) DEF Stop, GraphInv
  <2>3. CASE Pump \/ BeginTick \/ Capture \/ EndSafePoint \/ Observe
    BY <2>3 DEF Pump, BeginTick, Capture, EndSafePoint, Observe
  <2>4. CASE EndTicks
    BY <2>4 DEF EndTicks
  <2>5. CASE SafePointCommit \/ Worker \/ Editor \/ Done \/ UNCHANGED vars
    <3>1. UNCHANGED <<pc, draining>>
      BY <2>5, Zenon DEF SafePointCommit, Worker, Editor, Save, Done, Receive, ReadSources,
         CompileCandidate, Publish, Reply, vars, runnerVars, loopVars
    <3> QED
      BY <3>1 DEF GraphInv
  <2> QED
    BY <2>1, <2>2, <2>3, <2>4, <2>5 DEF Next, Main
<1> QED
  BY <1>1, <1>2, <1>3, Zenon DEF GraphInv

\* Sources made of saved ones are saved ones.
LEMMA SavedMix ==
    ASSUME NEW s \in Saved, NEW t \in Saved, NEW files
    PROVE  [f \in Files |-> IF f \in files THEN s[f] ELSE t[f]] \in Saved
BY DEF Saved, Sources

\* The sources a project starts with are complete.
LEMMA CompleteSaved ==
    ASSUME NEW d \in [Files -> Contents], \A f \in Files : d[f] \in Versions[f]
    PROVE  d \in Saved /\ Present(d) = Files
<1>1. \A f \in Files : d[f] \in Contents /\ d[f] # Missing
  BY SourceAssumption, Zenon
<1>2. Present(d) = Files
  BY <1>1, Zenon DEF Present
<1>3. d \in Sources
  BY DEF Sources
<1> QED
  BY <1>2, <1>3, Zenon DEF Saved

LEMMA NothingSaved == NoSources \in Saved
BY DEF Saved, Sources, NoSources

LEMMA AvailableSaved ==
    ASSUME NEW s \in Saved, NEW t \in Saved
    PROVE  Available(s, t) \in Saved /\ LoadedProgram(s, t) \in Saved
<1>1. Available(s, t) \in Saved
  BY DEF Saved, Sources, Available
<1> DEFINE closure == Reached(Present(s), Available(s, t))
<1>2. LoadedProgram(s, t) = [f \in Files |-> IF f \in closure THEN Available(s, t)[f] ELSE Missing]
  BY ZenonT(30) DEF LoadedProgram
<1> HIDE DEF closure
<1>3. LoadedProgram(s, t) \in Saved
  BY <1>1, <1>2 DEF Saved, Sources
<1> QED
  BY <1>1, <1>3, Zenon

\* sync_jit_process_sources keeps the cache, and leaves a seeded process with
\* what the request touched.
LEMMA Syncing ==
    ASSUME NEW b \in BackendType, NEW changed
    PROVE  /\ SyncJitProcessSources(b, changed) \in BackendType
           /\ SyncJitProcessSources(b, changed).cache = b.cache
           /\ SyncJitProcessSources(b, changed).seeded = TRUE
           /\ \/ /\ SyncJitProcessSources(b, changed).files = b.cache
                 /\ SyncJitProcessSources(b, changed).rooted = TRUE
              \/ /\ b.seeded
                 /\ SyncJitProcessSources(b, changed).rooted = b.rooted
                 /\ b.rooted => \A f \in Files :
                       SyncJitProcessSources(b, changed).files[f] =
                          IF f \in changed THEN b.cache[f] ELSE b.files[f]
<1> DEFINE synced == SyncJitProcessSources(b, changed)
<1>1. CASE ~b.seeded \/ \E f \in changed : b.cache[f] = Missing
  <2>1. synced = [cache |-> b.cache, files |-> b.cache, rooted |-> TRUE, seeded |-> TRUE]
    BY <1>1 DEF SyncJitProcessSources
  <2> HIDE DEF synced
  <2>2. synced \in BackendType
    BY <2>1, Zenon DEF BackendType
  <2> QED
    BY <2>1, <2>2 DEF synced
<1>2. CASE ~(~b.seeded \/ \E f \in changed : b.cache[f] = Missing)
  <2> DEFINE files == [f \in Files |-> IF f \in changed /\ b.rooted THEN b.cache[f] ELSE b.files[f]]
  <2>1. synced = [b EXCEPT !.files = files]
    BY <1>2, Zenon DEF SyncJitProcessSources
  <2>2. files \in Saved
    BY Zenon DEF BackendType, Saved, Sources
  <2>3. \A f \in Files : b.rooted => files[f] = IF f \in changed THEN b.cache[f] ELSE b.files[f]
    OBVIOUS
  <2> HIDE DEF synced, files
  <2>4. synced \in BackendType /\ synced.files = files /\ synced.cache = b.cache
        /\ synced.seeded = b.seeded /\ synced.rooted = b.rooted
    BY <2>1, <2>2 DEF BackendType
  <2>5. b.seeded = TRUE
    BY <1>2 DEF BackendType
  <2> QED
    BY <2>3, <2>4, <2>5 DEF synced
<1> QED
  BY <1>1, <1>2, Zenon

\* The three things a compile request makes of the backend.
LEMMA Refreshing ==
    ASSUME NEW b \in BackendType, NEW changed, NEW sources \in Saved
    PROVE  /\ RefreshCachedSources(b, changed, sources) \in BackendType
           /\ RefreshCachedSources(b, changed, sources).files = b.files
           /\ RefreshCachedSources(b, changed, sources).rooted = b.rooted
           /\ RefreshCachedSources(b, changed, sources).seeded = b.seeded
           /\ \A f \in Files : RefreshCachedSources(b, changed, sources).cache[f] =
                                  IF f \in changed THEN sources[f] ELSE b.cache[f]
<1> DEFINE cache == [f \in Files |-> IF f \in changed THEN sources[f] ELSE b.cache[f]]
<1>1. cache \in Saved
  BY SavedMix DEF BackendType
<1>2. RefreshCachedSources(b, changed, sources) = [b EXCEPT !.cache = cache]
  BY DEF RefreshCachedSources
<1>3. \A f \in Files : cache[f] = IF f \in changed THEN sources[f] ELSE b.cache[f]
  OBVIOUS
<1> HIDE DEF cache
<1>4. /\ [b EXCEPT !.cache = cache] \in BackendType
      /\ [b EXCEPT !.cache = cache].files = b.files
      /\ [b EXCEPT !.cache = cache].cache = cache
      /\ [b EXCEPT !.cache = cache].rooted = b.rooted
      /\ [b EXCEPT !.cache = cache].seeded = b.seeded
  BY <1>1, ZenonT(30) DEF BackendType
<1> QED
  BY <1>2, <1>3, <1>4, Zenon

LEMMA RootRefreshed ==
    ASSUME NEW b \in BackendType, NEW changed, NEW sources \in Saved, Root \in changed
    PROVE  RefreshCachedSources(b, changed, sources).cache[Root] = sources[Root]
BY Refreshing, SourceAssumption

LEMMA Accepting ==
    ASSUME NEW b \in BackendType, NEW changed, NEW sources \in Saved
    PROVE  /\ AcceptCandidate(b, changed, sources) \in BackendType
           /\ AcceptCandidate(b, changed, sources).cache = b.cache
           /\ AcceptCandidate(b, changed, sources).seeded = TRUE
           /\ AcceptCandidate(b, changed, sources).rooted =
                 SyncJitProcessSources(b, changed).rooted
           /\ AcceptCandidate(b, changed, sources).files =
                 LoadedProgram(SyncJitProcessSources(b, changed).files, sources)
<1> DEFINE synced == SyncJitProcessSources(b, changed)
           loaded == LoadedProgram(synced.files, sources)
<1>1. synced \in BackendType /\ synced.cache = b.cache /\ synced.seeded = TRUE
  BY Syncing, Zenon
<1>2. AcceptCandidate(b, changed, sources) = [synced EXCEPT !.files = loaded]
  BY DEF AcceptCandidate
<1> HIDE DEF synced
<1>3. loaded \in Saved
  BY <1>1, AvailableSaved DEF BackendType
<1> HIDE DEF loaded
<1>4. /\ [synced EXCEPT !.files = loaded] \in BackendType
      /\ [synced EXCEPT !.files = loaded].files = loaded
      /\ [synced EXCEPT !.files = loaded].cache = b.cache
      /\ [synced EXCEPT !.files = loaded].seeded = TRUE
      /\ [synced EXCEPT !.files = loaded].rooted = synced.rooted
  BY <1>1, <1>3 DEF BackendType
<1>5. /\ AcceptCandidate(b, changed, sources) \in BackendType
      /\ AcceptCandidate(b, changed, sources).cache = b.cache
      /\ AcceptCandidate(b, changed, sources).seeded = TRUE
      /\ AcceptCandidate(b, changed, sources).rooted = synced.rooted
      /\ AcceptCandidate(b, changed, sources).files = loaded
  BY <1>2, <1>4, Zenon
<1> QED
  BY <1>5 DEF synced, loaded

LEMMA Restoring ==
    ASSUME NEW b \in BackendType, NEW changed
    PROVE  RestoreAccepted(b, changed) \in BackendType /\ RestoreAccepted(b, changed).cache = b.cache
<1>1. SyncJitProcessSources(b, changed).seeded = TRUE
  BY Syncing, Zenon
<1>2. RestoreAccepted(b, changed) = [b EXCEPT !.seeded = TRUE]
  BY <1>1, Zenon DEF RestoreAccepted
<1>3. /\ [b EXCEPT !.seeded = TRUE] \in BackendType
      /\ [b EXCEPT !.seeded = TRUE].cache = b.cache
  BY Zenon DEF BackendType
<1> QED
  BY <1>2, <1>3, Zenon

\* What the way of a change is made of.
wayVars == <<watchEvents, fileChanges, pendingFiles, compilerQueue>>

flowVars == <<disk, wayVars, worker, backend, compileFailed, fileChangeSent>>

Dispatch == Pump /\ DrainAndDispatch /\ pc \in {"dispatch", "redispatch"}

\* The steps that move sources before the ticks are over.
LEMMA SourceSteps ==
    ASSUME GraphInv, [Next]_vars, ~draining'
    PROVE  /\ ~draining /\ pc \notin {"stop", "join", "done"}
           /\ Editor \/ BeginTick \/ Dispatch \/ Worker \/ UNCHANGED flowVars
<1>1. CASE BeginTick \/ Editor
  BY <1>1, Zenon DEF BeginTick, Editor, Save, GraphInv
<1>2. CASE EndTicks \/ DrainTurn \/ Stop
  BY <1>2 DEF EndTicks, DrainTurn, Stop, GraphInv
<1>3. CASE Pump
  <2>1. UNCHANGED <<draining, disk, watchEvents, backend, compileFailed, fileChangeSent>>
    BY <1>3 DEF Pump
  <2>2. Dispatch \/ DrainResults
    BY <1>3, Zenon DEF Pump, Dispatch
  <2>3. DrainResults => UNCHANGED flowVars
    BY <2>1 DEF DrainResults, flowVars, wayVars
  <2>4. pc \notin {"stop", "join", "done"}
    BY <1>3 DEF Pump
  <2> QED
    BY <2>1, <2>2, <2>3, <2>4
<1>4. CASE Capture \/ EndSafePoint \/ Observe
  <2>1. UNCHANGED <<pipelineVars, draining, disk, watchEvents, backend, compileFailed, fileChangeSent>>
    BY <1>4, ZenonT(30) DEF Capture, EndSafePoint, Observe
  <2>2. pc \notin {"stop", "join", "done"}
    BY <1>4 DEF Capture, EndSafePoint, Observe
  <2> QED
    BY <2>1, <2>2, Zenon DEF pipelineVars, flowVars, wayVars
<1>5. CASE SafePointCommit
  <2>1. /\ UNCHANGED <<draining, disk, watchEvents, backend, compileFailed, fileChangeSent>>
        /\ pc = "commit"
    BY <1>5 DEF SafePointCommit
  <2>2. ProcessCommit(FALSE) \/ ProcessCommit(TRUE)
    BY <1>5, Zenon DEF SafePointCommit, RefuseCandidate, RejectCandidate, PromoteCandidate
  <2>3. UNCHANGED <<fileChanges, pendingFiles, compilerQueue, worker>>
    BY <2>2 DEF ProcessCommit
  <2> QED
    BY <2>1, <2>3 DEF flowVars, wayVars
<1>6. CASE Worker
  <2>1. UNCHANGED draining
    BY <1>6, Zenon DEF Worker, Receive, ReadSources, CompileCandidate, Publish, Reply, runnerVars, loopVars
  <2> QED
    BY <1>6, <2>1 DEF GraphInv
<1>7. CASE UNCHANGED vars
  BY <1>7 DEF vars, runnerVars, pipelineVars, flowVars, wayVars, GraphInv
<1> QED
  BY <1>1, <1>2, <1>3, <1>4, <1>5, <1>6, <1>7, ZenonT(30) DEF Next, Main, Done

\* The request the compiler thread takes.
LEMMA Receiving ==
    ASSUME RunnerInv, pc \notin {"join", "done"}, Receive
    PROVE  /\ \E files \in SUBSET Files : compilerQueue = <<[id |-> Current, files |-> files]>>
           /\ compilerQueue' = <<>>
           /\ worker'.stage = "read" /\ worker'.request = compilerQueue[1]
           /\ inFlightCompile = Current /\ Current # None
           /\ UNCHANGED <<watchEvents, fileChanges, pendingFiles, runnerVars>>
<1>1. compilerQueue # <<>>
  BY DEF Receive, WorkerReceive
<1>2. PICK files \in SUBSET Files : compilerQueue = <<[id |-> Current, files |-> files]>>
  BY <1>1 DEF RunnerInv, CompileInv
<1>3. inFlightCompile = Current /\ Current # None
  BY <1>1, Zenon DEF RunnerInv, CompileInv
<1> DEFINE message == [id |-> Current, files |-> files]
<1>4. message # Shutdown
  BY <1>3 DEF Shutdown
<1> HIDE DEF message
<1>5. Head(compilerQueue) = message /\ Tail(compilerQueue) = <<>> /\ compilerQueue[1] = message
  BY <1>2 DEF message
<1>6. worker' = [stage |-> "read", request |-> message, ok |-> FALSE] /\ compilerQueue' = <<>>
  BY <1>4, <1>5, Zenon DEF Receive, WorkerReceive
<1>7. UNCHANGED <<watchEvents, fileChanges, pendingFiles, runnerVars>>
  BY DEF Receive, WorkerReceive, runnerVars
<1> QED
  BY <1>2, <1>3, <1>5, <1>6, <1>7, Zenon

\* The compiler thread at the later stages of a compile.
LEMMA Working ==
    ASSUME RunnerInv, ReadSources \/ CompileCandidate \/ Publish \/ Reply
    PROVE  /\ UNCHANGED <<disk, wayVars, dependencyPaths, fileChangeSent, draining, inFlightCompile>>
           /\ worker.stage # "idle" /\ worker'.stage # "read"
<1>1. ASSUME NEW from \in {"read", "compile", "publish"}, NEW to \in {"compile", "publish", "reply"},
             NEW ok, WorkerAdvance(from, to, ok)
      PROVE  /\ UNCHANGED <<fileChanges, pendingFiles, compilerQueue, inFlightCompile>>
             /\ worker.stage # "idle" /\ worker'.stage # "read"
  <2>1. worker' = [worker EXCEPT !.stage = to, !.ok = ok] /\ worker.stage = from
    BY <1>1 DEF WorkerAdvance
  <2>2. worker'.stage = to
    BY <2>1 DEF RunnerInv, Typed
  <2> QED
    BY <1>1, <2>1, <2>2 DEF WorkerAdvance
<1>2. CASE ReadSources
  BY <1>1, <1>2, Zenon DEF ReadSources, wayVars, loopVars
<1>3. CASE CompileCandidate
  <2>1. /\ UNCHANGED <<disk, watchEvents, dependencyPaths, fileChangeSent, draining>>
        /\ WorkerAdvance("compile", "publish", TRUE) \/ WorkerAdvance("compile", "reply", FALSE)
    BY <1>3, Zenon DEF CompileCandidate, loopVars
  <2> QED
    BY <1>1, <2>1, Zenon DEF wayVars
<1>4. CASE Publish
  BY <1>1, <1>4, Zenon DEF Publish, wayVars, loopVars
<1>5. CASE Reply
  BY <1>5 DEF Reply, WorkerReply, IdleWorker, wayVars, runnerVars
<1> QED
  BY <1>2, <1>3, <1>4, <1>5

\* A change stays on its way until the compiler thread is about to read it.
LEMMA WayKept ==
    ASSUME RunnerInv, GraphInv, [Next]_vars, ~draining',
           NEW f \in dependencyPaths, OnItsWay(f)
    PROVE  OnItsWay(f)' \/ (worker'.stage = "read" /\ f \in worker'.request.files)
<1>0. pc \notin {"join", "done"}
  BY SourceSteps, Zenon
<1>1. CASE Editor
  BY <1>1, ZenonT(30) DEF Editor, Save, pipelineVars, OnItsWay
<1>2. CASE BeginTick
  BY <1>2, Zenon DEF BeginTick, SubmitFileChanges, ShouldSubmit, OnItsWay
<1>3. CASE Dispatch
  <2> DEFINE pending == pendingFiles \union fileChanges
             message == [id |-> nextRequestId, files |-> pending]
  <2>1. DrainAndDispatch /\ UNCHANGED watchEvents
    BY <1>3 DEF Dispatch, Pump
  <2>2. CASE MayDispatch(pending)
    <3>1. compilerQueue = <<>> /\ compilerQueue' = Append(compilerQueue, message)
      BY <1>0, <2>1, <2>2, Zenon DEF DrainAndDispatch, MayDispatch, RunnerInv, CompileInv
    <3>2. 1 \in DOMAIN compilerQueue' /\ compilerQueue'[1].files = pending
      BY <3>1
    <3>3. f \in watchEvents \union pending
      BY <3>1, NothingQueued, ZenonT(30) DEF OnItsWay
    <3> QED
      BY <2>1, <3>2, <3>3, ZenonT(30) DEF OnItsWay
  <2>3. CASE ~MayDispatch(pending)
    BY <2>1, <2>3, ZenonT(30) DEF DrainAndDispatch, OnItsWay
  <2> QED
    BY <2>2, <2>3, Zenon
<1>4. CASE Receive
  <2>1. PICK files \in SUBSET Files : compilerQueue = <<[id |-> Current, files |-> files]>>
    BY <1>0, <1>4, Receiving, ZenonT(30)
  <2>2. /\ worker'.stage = "read" /\ worker'.request = compilerQueue[1]
        /\ UNCHANGED <<watchEvents, fileChanges, pendingFiles>>
    BY <1>0, <1>4, Receiving DEF runnerVars
  <2>3. (\E i \in DOMAIN compilerQueue : f \in compilerQueue[i].files) => f \in compilerQueue[1].files
    BY <2>1
  <2> QED
    BY <2>2, <2>3, Zenon DEF OnItsWay
<1>5. CASE UNCHANGED wayVars
  BY <1>5 DEF wayVars, OnItsWay
<1> QED
  BY <1>1, <1>2, <1>3, <1>4, <1>5, SourceSteps, Working, Zenon DEF Worker, flowVars

LEMMA BackendKept ==
    ASSUME GraphInv, BackendInv, [Next]_vars
    PROVE  /\ BackendInv'
           /\ \/ /\ ReadSources
                 /\ \A f \in Files : backend'.cache[f] = IF f \in worker.request.files
                                                         THEN disk[f] ELSE backend.cache[f]
              \/ CompileCandidate /\ backend'.cache = backend.cache
              \/ UNCHANGED backend
<1> DEFINE changed == worker.request.files
<1>0. disk \in Saved /\ backend \in BackendType
  BY DEF GraphInv, BackendInv
<1>1. CASE ReadSources
  <2>1. backend' = RefreshCachedSources(backend, changed, disk)
    BY <1>1 DEF ReadSources
  <2> HIDE DEF changed
  <2>2. backend' \in BackendType /\ \A f \in Files : backend'.cache[f] = IF f \in changed
                                                         THEN disk[f] ELSE backend.cache[f]
    BY <1>0, <2>1, Refreshing
  <2> QED
    BY <1>1, <2>2 DEF BackendInv, changed
<1>2. CASE CompileCandidate
  <2>1. \/ backend' = AcceptCandidate(backend, changed, disk)
        \/ backend' = RestoreAccepted(backend, changed)
    BY <1>2, Zenon DEF CompileCandidate
  <2> HIDE DEF changed
  <2>2. backend' \in BackendType /\ backend'.cache = backend.cache
    <3>1. CASE backend' = AcceptCandidate(backend, changed, disk)
      BY <1>0, <3>1, Accepting, Zenon
    <3>2. CASE backend' = RestoreAccepted(backend, changed)
      BY <1>0, <3>2, Restoring
    <3> QED
      BY <2>1, <3>1, <3>2
  <2> QED
    BY <1>2, <2>2 DEF BackendInv
<1>3. CASE ~ReadSources /\ ~CompileCandidate
  <2>1. UNCHANGED backend
    BY <1>3, Zenon DEF Next, Main, Worker, Done, Editor, Save, BeginTick, EndTicks, DrainTurn,
       Pump, Capture, SafePointCommit, EndSafePoint, Observe, Stop, Receive,
       Publish, Reply, vars, runnerVars, loopVars
  <2> QED
    BY <2>1, Zenon DEF BackendInv
<1> QED
  BY <1>1, <1>2, <1>3, Zenon

\* A file changes on disk only with an event for the watcher.
LEMMA ChangesAreSeen ==
    ASSUME GraphInv, [Next]_vars, NEW f \in Files
    PROVE  disk'[f] = disk[f] \/ OnItsWay(f)'
<1>1. CASE Editor
  <2>1. PICK g \in Files : /\ watchEvents' = watchEvents \union {g}
                           /\ \E content : disk' = [disk EXCEPT ![g] = content]
    BY <1>1, ZenonT(30) DEF Editor, Save
  <2>2. g # f => disk'[f] = disk[f]
    BY <2>1 DEF GraphInv, Saved, Sources
  <2> QED
    BY <2>1, <2>2 DEF OnItsWay
<1>2. CASE ~Editor
  BY <1>2, Zenon DEF Next, Main, Worker, Done, BeginTick, EndTicks, DrainTurn,
     Pump, Capture, SafePointCommit, EndSafePoint, Observe, Stop, Receive, ReadSources,
     CompileCandidate, Publish, Reply, vars, runnerVars
<1> QED
  BY <1>1, <1>2

\* What the compiler thread has to read stays with it until it reads it, and
\* what it has to compile until it compiles it.
LEMMA WorkStays ==
    ASSUME RunnerInv, GraphInv, [Next]_vars, ~draining', worker.stage \in {"read", "compile"}
    PROVE  \/ UNCHANGED worker
           \/ worker.stage = "read" /\ ReadSources
              /\ worker'.stage = "compile" /\ worker'.request = worker.request
           \/ worker.stage = "compile" /\ CompileCandidate
<1>1. CASE Editor \/ BeginTick \/ Dispatch \/ UNCHANGED flowVars
  BY <1>1, Zenon DEF Editor, Save, pipelineVars, BeginTick, Dispatch, DrainAndDispatch, flowVars
<1>2. CASE ReadSources
  <2>1. worker.stage = "read" /\ worker' = [worker EXCEPT !.stage = "compile", !.ok = FALSE]
    BY <1>2 DEF ReadSources, WorkerAdvance
  <2>2. worker'.stage = "compile" /\ worker'.request = worker.request
    BY <2>1 DEF RunnerInv, Typed
  <2> QED
    BY <1>2, <2>1, <2>2
<1>3. CASE CompileCandidate
  <2>1. worker.stage = "compile"
    BY <1>3 DEF CompileCandidate, WorkerAdvance
  <2> QED
    BY <1>3, <2>1
<1>4. CASE Receive \/ Publish \/ Reply
  BY <1>4 DEF Receive, WorkerReceive, Publish, WorkerAdvance, Reply, WorkerReply
<1> QED
  BY <1>1, <1>2, <1>3, <1>4, SourceSteps DEF Worker

LEMMA CacheKept ==
    ASSUME StableImports, RunnerInv, GraphInv, BackendInv, NoChangeForgotten, [Next]_vars
    PROVE  NoChangeForgotten'
<1> SUFFICES ASSUME NEW f \in dependencyPaths', ~draining'
             PROVE  \/ backend'.cache[f] = disk'[f]
                    \/ OnItsWay(f)'
                    \/ worker'.stage = "read" /\ f \in worker'.request.files
                    \/ backend'.cache[f] = Missing
  BY ZenonT(30) DEF NoChangeForgotten, OnItsWay
<1>0. f \in dependencyPaths /\ f \in Files /\ ~draining
  BY GraphStays, GraphIsFiles, SourceSteps DEF GraphInv
<1>1. \/ backend.cache[f] = disk[f]
      \/ OnItsWay(f)
      \/ worker.stage = "read" /\ f \in worker.request.files
      \/ backend.cache[f] = Missing
  BY <1>0, Zenon DEF NoChangeForgotten, OnItsWay
<1>2. CASE OnItsWay(f)
  BY <1>0, <1>2, WayKept
<1>3. \/ backend'.cache[f] = backend.cache[f]
      \/ backend'.cache[f] = disk[f]
  BY <1>0, BackendKept
<1>4. disk'[f] = disk[f] \/ OnItsWay(f)'
  BY <1>0, ChangesAreSeen, Zenon
<1>5. CASE worker.stage = "read" /\ f \in worker.request.files
  <2>1. UNCHANGED worker \/ ReadSources
    BY <1>5, WorkStays
  <2>2. CASE ReadSources
    <3> DEFINE changed == worker.request.files
    <3>1. backend' = RefreshCachedSources(backend, changed, disk) /\ f \in changed
      BY <1>5, <2>2, ZenonT(30) DEF ReadSources
    <3> HIDE DEF changed
    <3>2. backend'.cache[f] = disk[f]
      BY <1>0, <3>1, Refreshing DEF GraphInv, BackendInv
    <3> QED
      BY <1>4, <3>2
  <2> QED
    BY <1>5, <2>1, <2>2
<1> QED
  BY <1>1, <1>2, <1>3, <1>4, <1>5, Zenon

\* Nothing but a dispatch puts a request in flight or takes changes away.
LEMMA FlightMoves ==
    ASSUME GraphInv, [Next]_vars, ~draining', ~Dispatch
    PROVE  /\ inFlightCompile' \in {None, inFlightCompile}
           /\ fileChanges \subseteq fileChanges' /\ pendingFiles \subseteq pendingFiles'
<1>1. CASE Pump
  <2>1. DrainResults
    BY <1>1, Zenon DEF Pump, Dispatch
  <2> QED
    BY <2>1 DEF DrainResults
<1>2. CASE BeginTick
  BY <1>2 DEF BeginTick, SubmitFileChanges
<1>3. CASE SafePointCommit
  <2>1. ProcessCommit(FALSE) \/ ProcessCommit(TRUE)
    BY <1>3, Zenon DEF SafePointCommit, RefuseCandidate, RejectCandidate, PromoteCandidate
  <2> QED
    BY <2>1 DEF ProcessCommit
<1>4. CASE Capture \/ EndSafePoint \/ Observe \/ Editor \/ UNCHANGED vars
  <2>1. UNCHANGED pipelineVars
    BY <1>4, Zenon DEF Capture, EndSafePoint, Observe, Editor, Save, vars
  <2> QED
    BY <2>1 DEF pipelineVars
<1>5. CASE EndTicks \/ DrainTurn \/ Stop
  BY <1>5, Zenon DEF EndTicks, DrainTurn, Stop, GraphInv
<1>6. CASE Receive \/ Reply
  BY <1>6 DEF Receive, WorkerReceive, Reply, WorkerReply
<1>7. CASE ReadSources \/ Publish
  BY <1>7 DEF ReadSources, Publish, WorkerAdvance
<1>8. CASE CompileCandidate
  <2>1. WorkerAdvance("compile", "publish", TRUE) \/ WorkerAdvance("compile", "reply", FALSE)
    BY <1>8, ZenonT(30) DEF CompileCandidate
  <2> QED
    BY <2>1 DEF WorkerAdvance
<1> QED
  BY <1>1, <1>2, <1>3, <1>4, <1>5, <1>6, <1>7, <1>8, Zenon DEF Next, Main, Worker, Done

LEMMA RootStays ==
    ASSUME RunnerInv, GraphInv, BackendInv, RootKnown, [Next]_vars, ~draining'
    PROVE  RootKnown'
<1>0. Root \in Files /\ disk[Root] # Missing /\ pc \notin {"join", "done"}
  BY SourceAssumption, SourceSteps, Zenon DEF GraphInv
<1>1. CASE backend.cache[Root] # Missing
  <2>1. backend'.cache[Root] \in {backend.cache[Root], disk[Root]}
    BY <1>0, BackendKept
  <2> QED
    BY <1>0, <1>1, <2>1, ZenonT(30) DEF RootKnown
<1>2. CASE inFlightCompile = None /\ Root \in fileChanges \union pendingFiles
  <2>1. CASE ~Dispatch
    BY <1>2, <2>1, FlightMoves DEF RootKnown
  <2>2. CASE Dispatch
    <3> DEFINE pending == pendingFiles \union fileChanges
               message == [id |-> nextRequestId, files |-> pending]
    <3>1. DrainAndDispatch /\ compilerQueue = <<>>
      BY <1>0, <1>2, <2>2, Zenon DEF Dispatch, RunnerInv, CompileInv
    <3>2. CASE MayDispatch(pending)
      <4>1. compilerQueue' = Append(compilerQueue, message)
        BY <3>1, <3>2, Zenon DEF DrainAndDispatch
      <4>2. 1 \in DOMAIN compilerQueue' /\ compilerQueue'[1].files = pending
        BY <3>1, <4>1
      <4> QED
        BY <1>2, <4>2 DEF RootKnown
    <3>3. CASE ~MayDispatch(pending)
      BY <1>2, <3>1, <3>3, Zenon DEF DrainAndDispatch, RootKnown
    <3> QED
      BY <3>2, <3>3, Zenon
  <2> QED
    BY <2>1, <2>2, Zenon
<1>3. CASE \E i \in DOMAIN compilerQueue : Root \in compilerQueue[i].files
  <2>1. CASE Receive
    <3>1. PICK files \in SUBSET Files : compilerQueue = <<[id |-> Current, files |-> files]>>
      BY <1>0, <2>1, Receiving, Zenon
    <3>2. worker'.stage = "read" /\ worker'.request = compilerQueue[1]
      BY <1>0, <2>1, Receiving
    <3>3. Root \in compilerQueue[1].files
      BY <1>3, <3>1
    <3> QED
      BY <3>2, <3>3 DEF RootKnown
  <2>2. CASE Dispatch
    <3>1. DrainAndDispatch /\ inFlightCompile # None
      BY <1>0, <1>3, <2>2 DEF Dispatch, RunnerInv, CompileInv
    <3>2. UNCHANGED compilerQueue
      BY <3>1, ZenonT(30) DEF DrainAndDispatch, MayDispatch
    <3> QED
      BY <1>3, <3>2, ZenonT(30) DEF RootKnown
  <2>3. CASE UNCHANGED compilerQueue
    BY <1>3, <2>3 DEF RootKnown
  <2>4. Editor \/ BeginTick => UNCHANGED compilerQueue
    BY Zenon DEF Editor, Save, BeginTick, pipelineVars
  <2> QED
    BY <2>1, <2>2, <2>3, <2>4, SourceSteps, Working, Zenon DEF Worker, flowVars, wayVars
<1>4. CASE worker.stage = "read" /\ Root \in worker.request.files
  <2>1. UNCHANGED worker \/ ReadSources
    BY <1>4, WorkStays
  <2>2. CASE ReadSources
    <3> DEFINE changed == worker.request.files
    <3>1. backend' = RefreshCachedSources(backend, changed, disk) /\ Root \in changed
      BY <1>4, <2>2, ZenonT(30) DEF ReadSources
    <3> HIDE DEF changed
    <3>2. backend'.cache[Root] = disk[Root]
      <4>1. backend \in BackendType /\ disk \in Saved
        BY <1>0, Zenon DEF GraphInv, BackendInv
      <4> QED
        BY <3>1, <4>1, RootRefreshed, Zenon
    <3> QED
      BY <1>0, <3>2, Zenon DEF RootKnown
  <2> QED
    BY <1>4, <2>1, <2>2, Zenon DEF RootKnown
<1> QED
  BY <1>1, <1>2, <1>3, <1>4, Zenon DEF RootKnown

LEMMA RootKept ==
    ASSUME RunnerInv, GraphInv, BackendInv, RootInv, [Next]_vars
    PROVE  RootInv'
<1> SUFFICES ASSUME ~draining'
             PROVE  /\ ~fileChangeSent' => pc' = "submit" /\ inFlightCompile' = None
                    /\ fileChangeSent' => RootKnown'
  BY ZenonT(30) DEF RootInv
<1>0. ~draining /\ (fileChangeSent => RootKnown)
      /\ (~fileChangeSent => pc = "submit" /\ inFlightCompile = None)
  BY SourceSteps, Zenon DEF RootInv, RootKnown
<1>1. CASE fileChangeSent
  <2>1. fileChangeSent'
    BY <1>1, ZenonT(30) DEF Next, Main, Worker, Done, Editor, Save, BeginTick, EndTicks, DrainTurn,
       Pump, Capture, SafePointCommit, EndSafePoint, Observe, Stop, Receive, ReadSources,
       CompileCandidate, Publish, Reply, vars, runnerVars, loopVars
  <2> QED
    BY <1>0, <1>1, <2>1, RootStays
<1>2. CASE ~fileChangeSent /\ BeginTick
  BY <1>0, <1>2 DEF BeginTick, SubmitFileChanges, RootKnown
<1>3. CASE ~fileChangeSent /\ ~BeginTick
  <2>1. ~Dispatch /\ ~Pump /\ ~EndTicks /\ ~DrainTurn /\ ~Capture /\ ~SafePointCommit
        /\ ~EndSafePoint /\ ~Observe /\ ~Stop
    BY <1>0, <1>3, Zenon DEF Dispatch, Pump, EndTicks, DrainTurn, Capture, SafePointCommit,
       EndSafePoint, Observe, Stop
  <2>2. UNCHANGED <<fileChangeSent, pc>>
    BY <1>3, <2>1, Zenon DEF Next, Main, Worker, Done, Editor, Save, Receive, ReadSources,
       CompileCandidate, Publish, Reply, vars, runnerVars, loopVars
  <2>3. inFlightCompile' = None
    BY <1>0, <1>3, <2>1, FlightMoves
  <2> QED
    BY <1>0, <1>3, <2>2, <2>3
<1> QED
  BY <1>1, <1>2, <1>3

\* compile_jit_candidate_from_cache: a process that compiles holds the graph, and
\* of each file what is saved or what a change is on its way for.
LEMMA CompiledProcess ==
    ASSUME StableImports, RunnerInv, GraphInv, BackendInv, NoChangeForgotten, RootInv, ProcessInv,
           [Next]_vars, ~draining', ~compileFailed', CompileCandidate
    PROVE  /\ backend'.seeded = TRUE /\ backend'.rooted = TRUE
           /\ \A f \in dependencyPaths :
                 /\ backend'.files[f] # Missing
                 /\ backend'.files[f] = disk'[f] \/ OnItsWay(f)'
<1> DEFINE changed == worker.request.files
           synced == SyncJitProcessSources(backend, changed)
           available == Available(synced.files, disk)
           closure == Reached(Present(synced.files), available)
<1>1. /\ ~draining /\ pc \notin {"join", "done"}
      /\ UNCHANGED <<disk, wayVars>>
      /\ dependencyPaths \subseteq Files /\ Root \in dependencyPaths
  BY SourceSteps, Working, GraphIsFiles DEF GraphInv
<1>2. /\ CandidateCompiles(backend, changed, disk)
      /\ backend' = AcceptCandidate(backend, changed, disk)
      /\ ~compileFailed
  BY Zenon DEF CompileCandidate
<1>3. worker.stage = "compile"
  BY ZenonT(30) DEF CompileCandidate, WorkerAdvance
<1>4. compilerQueue = <<>> /\ inFlightCompile # None
  BY <1>1, <1>3 DEF RunnerInv, CompileInv
<1>5. \A f \in dependencyPaths :
         \/ backend.cache[f] = disk[f]
         \/ OnItsWay(f)
         \/ backend.cache[f] = Missing
  BY <1>1, <1>3, Zenon DEF NoChangeForgotten, OnItsWay
<1>6. backend.cache[Root] # Missing
  BY <1>1, <1>3, <1>4, NothingQueued, ZenonT(30) DEF RootInv, RootKnown
<1>7. backend.seeded =>
         /\ backend.rooted
         /\ \A f \in dependencyPaths :
               /\ backend.files[f] # Missing
               /\ \/ backend.files[f] = disk[f]
                  \/ OnItsWay(f)
                  \/ f \in changed
  BY <1>1, <1>2, Zenon DEF ProcessInv
<1>8. disk \in Saved /\ backend \in BackendType
  BY Zenon DEF GraphInv, BackendInv
<1>9. /\ closure \subseteq Present(available)
      /\ \A f \in Files : backend'.files[f] = IF f \in closure THEN available[f] ELSE Missing
      /\ backend'.seeded = TRUE /\ backend'.rooted = synced.rooted
  <2>1. closure \subseteq Present(available)
    BY <1>2, Zenon DEF CandidateCompiles, Compiles
  <2>2. /\ backend'.files = LoadedProgram(synced.files, disk)
        /\ backend'.seeded = TRUE /\ backend'.rooted = synced.rooted
    <3> HIDE DEF changed
    <3> QED
      BY <1>2, <1>8, Accepting, Zenon
  <2>3. LoadedProgram(synced.files, disk) =
           [f \in Files |-> IF f \in closure THEN available[f] ELSE Missing]
    BY DEF LoadedProgram
  <2> HIDE DEF synced, closure, available
  <2> QED
    BY <2>1, <2>2, <2>3
<1> HIDE DEF changed
<1>10. /\ synced \in BackendType
       /\ \/ synced.files = backend.cache /\ synced.rooted = TRUE
          \/ /\ backend.seeded /\ synced.rooted = backend.rooted
             /\ backend.rooted => \A f \in Files :
                   synced.files[f] = IF f \in changed THEN backend.cache[f] ELSE backend.files[f]
  BY <1>8, Syncing, ZenonT(30)
<1> HIDE DEF synced
<1>11. synced.rooted = TRUE
  BY <1>7, <1>10 DEF BackendType
<1>12. \A f \in Files : available[f] = IF synced.files[f] # Missing THEN synced.files[f] ELSE disk[f]
  BY DEF Available
<1>13. available \in Saved /\ Present(synced.files) \in SUBSET Files
  BY <1>8, <1>10, AvailableSaved DEF BackendType, Present
<1> HIDE DEF available, closure
<1>14. Root \in Present(synced.files)
  <2>1. synced.files[Root] # Missing
    BY <1>1, <1>6, <1>7, <1>10
  <2> QED
    BY <2>1, SourceAssumption, ZenonT(30) DEF Present
<1>15. Reached({Root}, available) \subseteq closure
  <2>1. {Root} \in SUBSET Files /\ {Root} \subseteq Present(synced.files)
    BY <1>14, SourceAssumption, Zenon
  <2> QED
    BY <1>13, <2>1, ReachedWithin DEF closure
<1>16. dependencyPaths = Reached({Root}, available)
  BY <1>9, <1>13, <1>15, GraphOfSources, ZenonT(30) DEF GraphInv
<1>17. ASSUME NEW f \in dependencyPaths
       PROVE  /\ backend'.files[f] # Missing
              /\ backend'.files[f] = disk'[f] \/ OnItsWay(f)'
  <2>1. f \in Files /\ f \in closure /\ available[f] # Missing
    BY <1>1, <1>9, <1>15, <1>16 DEF Present
  <2>2. backend'.files[f] = available[f]
    BY <1>9, <2>1, ZenonT(30)
  <2>3. available[f] = disk[f] \/ OnItsWay(f)
    <3>1. CASE synced.files[f] = Missing
      BY <1>12, <2>1, <3>1
    <3>2. CASE synced.files[f] = backend.cache[f] /\ synced.files[f] # Missing
      BY <1>5, <1>12, <2>1, <3>2, Zenon
    <3>3. CASE /\ backend.seeded /\ f \notin changed
               /\ synced.files[f] = backend.files[f] /\ synced.files[f] # Missing
      BY <1>7, <1>12, <2>1, <3>3, Zenon
    <3> QED
      BY <1>7, <1>10, <2>1, <3>1, <3>2, <3>3, ZenonT(30)
  <2>4. OnItsWay(f) => OnItsWay(f)'
    BY <1>1, ZenonT(30) DEF OnItsWay, wayVars
  <2> QED
    BY <1>1, <2>1, <2>2, <2>3, <2>4, ZenonT(30)
<1> QED
  BY <1>9, <1>11, <1>17, Zenon

LEMMA ProcessKept ==
    ASSUME StableImports, RunnerInv, GraphInv, BackendInv, NoChangeForgotten, RootInv, ProcessInv,
           [Next]_vars
    PROVE  ProcessInv'
<1> SUFFICES ASSUME ~draining', ~compileFailed', backend'.seeded
             PROVE  /\ backend'.rooted
                    /\ \A f \in dependencyPaths' :
                          /\ backend'.files[f] # Missing
                          /\ \/ backend'.files[f] = disk'[f]
                             \/ OnItsWay(f)'
                             \/ worker'.stage \in {"read", "compile"} /\ f \in worker'.request.files
  BY Zenon DEF ProcessInv
<1>1. UNCHANGED dependencyPaths /\ ~draining /\ dependencyPaths \subseteq Files
  BY GraphStays, GraphIsFiles, SourceSteps DEF GraphInv
<1>2. CASE CompileCandidate
  BY <1>1, <1>2, CompiledProcess, Zenon
<1>3. CASE ~CompileCandidate
  <2>1. /\ backend'.files = backend.files /\ backend'.rooted = backend.rooted
        /\ backend'.seeded = backend.seeded
    <3>1. CASE ReadSources
      <4> DEFINE changed == worker.request.files
      <4>1. backend' = RefreshCachedSources(backend, changed, disk)
        BY <3>1 DEF ReadSources
      <4>2. disk \in Saved /\ backend \in BackendType
        BY Zenon DEF GraphInv, BackendInv
      <4> HIDE DEF changed
      <4>3. /\ RefreshCachedSources(backend, changed, disk).files = backend.files
            /\ RefreshCachedSources(backend, changed, disk).rooted = backend.rooted
            /\ RefreshCachedSources(backend, changed, disk).seeded = backend.seeded
        BY <4>2, Refreshing
      <4> QED
        BY <4>1, <4>3, Zenon
    <3>2. CASE UNCHANGED backend
      BY <3>2, Zenon
    <3> QED
      BY <1>3, <3>1, <3>2, BackendKept, Zenon
  <2>2. ~compileFailed
    BY <1>3, ZenonT(30) DEF Next, Main, Worker, Done, Editor, Save, BeginTick, EndTicks, DrainTurn,
       Pump, Capture, SafePointCommit, EndSafePoint, Observe, Stop, Receive, ReadSources,
       Publish, Reply, vars, runnerVars, loopVars
  <2>3. ASSUME NEW f \in dependencyPaths
        PROVE  /\ backend'.files[f] # Missing
               /\ \/ backend'.files[f] = disk'[f]
                  \/ OnItsWay(f)'
                  \/ worker'.stage \in {"read", "compile"} /\ f \in worker'.request.files
    <3>1. /\ backend.files[f] # Missing
          /\ \/ backend.files[f] = disk[f]
             \/ OnItsWay(f)
             \/ worker.stage \in {"read", "compile"} /\ f \in worker.request.files
      BY <1>1, <2>1, <2>2, Zenon DEF ProcessInv
    <3>2. CASE backend.files[f] = disk[f]
      BY <1>1, <2>1, <3>1, <3>2, ChangesAreSeen, Zenon
    <3>3. CASE OnItsWay(f)
      BY <2>1, <3>1, <3>3, WayKept, Zenon
    <3>4. CASE worker.stage \in {"read", "compile"} /\ f \in worker.request.files
      BY <1>3, <2>1, <3>1, <3>4, WorkStays, ZenonT(30)
    <3> QED
      BY <3>1, <3>2, <3>3, <3>4
  <2>4. backend'.rooted
    BY <1>1, <2>1, <2>2 DEF ProcessInv
  <2> QED
    BY <1>1, <2>3, <2>4
<1> QED
  BY <1>2, <1>3

programVars == <<nextRequestId, inFlightCompile, lastCompileResult, preparedSwaps,
                 pendingCandidates, active, compilerQueue, worker, backend>>

\* What ProgramInv says of a candidate.
IsProgram(c) == c.id = Current /\ Current # None =>
                   ~Unpublished /\ backend.seeded /\ c.program = backend.files

LEMMA ProgramDispatched ==
    ASSUME RunnerInv, ProgramInv, Dispatch, ~draining, ~draining'
    PROVE  ProgramInv'
<1> DEFINE pending == pendingFiles \union fileChanges
<1>1. /\ DrainAndDispatch
      /\ UNCHANGED <<lastCompileResult, preparedSwaps, pendingCandidates, active, worker, backend>>
  BY DEF Dispatch, Pump, DrainAndDispatch
<1>2. CASE MayDispatch(pending)
  <2>1. /\ inFlightCompile' = nextRequestId /\ nextRequestId' = nextRequestId + 1
        /\ Current \in Nat /\ nextRequestId = Current + 1
    BY <1>1, <1>2 DEF DrainAndDispatch, RunnerInv, Typed, Current
  <2>2. Current' = Current + 1 /\ inFlightCompile' # None
    BY <2>1, NextNumber, Zenon
  <2>3. /\ \A c \in Candidates : c.id \in 1 .. Current
        /\ active # NoCandidate => active.id \in 1 .. Current
        /\ worker.stage = "publish" => backend.seeded
    BY Zenon DEF ProgramInv
  <2>4. Candidates' = Candidates
    BY <1>1, Zenon DEF Candidates
  <2>8. /\ NoCandidate.id # Current'
        /\ \A i \in 1 .. Current : i \in 1 .. Current' /\ i # Current'
    BY <2>1, <2>2, NoNumber, Zenon
  <2>5. \A c \in Candidates' \union {active'} : c.id # Current'
    BY <1>1, <2>3, <2>4, <2>8, Zenon
  <2>6. \A c \in Candidates' : c.id \in 1 .. Current'
    BY <2>3, <2>4, <2>8, Zenon
  <2>7. active' # NoCandidate => active'.id \in 1 .. Current'
    BY <1>1, <2>3, <2>8, Zenon
  <2> QED
    BY <1>1, <2>2, <2>3, <2>5, <2>6, <2>7, Zenon DEF ProgramInv
<1>3. CASE ~MayDispatch(pending)
  <2>1. UNCHANGED programVars
    BY <1>1, <1>3 DEF DrainAndDispatch, programVars
  <2> QED
    BY <2>1, ZenonT(30) DEF ProgramInv, programVars, Candidates, Current, Unpublished
<1> QED
  BY <1>2, <1>3, ZenonT(30)

\* The compiler thread, before and after it publishes.
LEMMA ProgramWorked ==
    ASSUME RunnerInv, GraphInv, BackendInv, ProgramInv, Worker, [Next]_vars, ~draining, ~draining'
    PROVE  ProgramInv'
<1>0. /\ pc \notin {"join", "done"}
      /\ disk \in Saved /\ backend \in BackendType
  BY DEF GraphInv, BackendInv
<1>1. /\ UNCHANGED <<nextRequestId, inFlightCompile, lastCompileResult, pendingCandidates, active>>
      /\ inFlightCompile # None
  <2>1. UNCHANGED <<pendingCandidates, active>>
    BY Zenon DEF Worker, Receive, ReadSources, CompileCandidate, Publish, Reply, runnerVars, loopVars
  <2>2. UNCHANGED <<nextRequestId, inFlightCompile, lastCompileResult>>
    BY Zenon DEF Worker, Receive, WorkerReceive, ReadSources, CompileCandidate, Publish,
       WorkerAdvance, Reply, WorkerReply
  <2>3. CASE Receive
    <3>1. inFlightCompile = Current /\ Current # None
      BY <1>0, <2>3, Receiving
    <3> QED
      BY <2>1, <2>2, <3>1, Zenon
  <2>4. CASE ~Receive
    <3>1. worker.stage # "idle"
      BY <2>4, Working DEF Worker
    <3>2. CompileInv
      BY Zenon DEF RunnerInv
    <3>3. inFlightCompile = Current /\ Current # None
      BY <1>0, <3>1, <3>2 DEF CompileInv
    <3> QED
      BY <2>1, <2>2, <3>3
  <2> QED
    BY <2>1, <2>2, <2>3, <2>4
<1>2. /\ \A c \in Candidates : c.id \in 1 .. Current
      /\ active # NoCandidate => active.id \in 1 .. Current
      /\ worker.stage = "publish" => backend.seeded
      /\ \A c \in Candidates \union {active} : IsProgram(c)
  BY Zenon DEF ProgramInv, IsProgram
<1>3. Current' = Current
  BY <1>1 DEF Current
<1>4. SUFFICES /\ \A c \in Candidates' : c.id \in 1 .. Current
               /\ worker'.stage = "publish" => backend'.seeded
               /\ \A c \in Candidates' \union {active} : IsProgram(c)'
  BY <1>1, <1>2, <1>3, Zenon DEF ProgramInv, IsProgram
<1>5. CASE Receive \/ ReadSources \/ CompileCandidate
  <2>1. Unpublished
    <3>1. CASE Receive
      BY <3>1 DEF Receive, WorkerReceive, Unpublished
    <3>2. CASE ReadSources \/ CompileCandidate
      BY <3>2 DEF ReadSources, CompileCandidate, WorkerAdvance, Unpublished
    <3> QED
      BY <1>5, <3>1, <3>2, Zenon
  <2>2. \A c \in Candidates \union {active} : ~(c.id = Current /\ Current # None)
    BY <1>2, <2>1, Zenon DEF IsProgram
  <2>3. Candidates' = Candidates
    BY <1>1, <1>5, Zenon DEF Candidates, Receive, ReadSources, CompileCandidate, runnerVars
  <2>4. worker'.stage = "publish" => backend'.seeded
    <3>1. CASE Receive
      BY <1>0, <3>1, Receiving
    <3>2. CASE ReadSources
      <4>1. worker'.stage = "compile"
        BY <3>2 DEF ReadSources, WorkerAdvance, RunnerInv, Typed
      <4> QED
        BY <4>1
    <3>3. CASE CompileCandidate /\ CandidateCompiles(backend, worker.request.files, disk)
      <4> DEFINE changed == worker.request.files
      <4>1. backend' = AcceptCandidate(backend, changed, disk)
        BY <3>3 DEF CompileCandidate
      <4> HIDE DEF changed
      <4> QED
        BY <1>0, <4>1, Accepting, Zenon
    <3>4. CASE CompileCandidate /\ ~CandidateCompiles(backend, worker.request.files, disk)
      <4>1. WorkerAdvance("compile", "reply", FALSE)
        BY <3>4, Zenon DEF CompileCandidate
      <4>2. worker'.stage = "reply"
        BY <4>1, ZenonT(30) DEF WorkerAdvance, RunnerInv, Typed
      <4> QED
        BY <4>2
    <3> QED
      BY <1>5, <3>1, <3>2, <3>3, <3>4, ZenonT(30)
  <2> QED
    BY <1>2, <1>3, <2>2, <2>3, <2>4, Zenon DEF IsProgram
<1>6. CASE Publish
  <2> DEFINE candidate == [id |-> worker.request.id, program |-> backend.files]
  <2>1. /\ worker.stage = "publish" /\ preparedSwaps = <<>> /\ UNCHANGED backend
        /\ preparedSwaps' = Append(preparedSwaps, candidate)
        /\ worker' = [worker EXCEPT !.stage = "reply", !.ok = TRUE]
        /\ UNCHANGED compilerQueue
    BY <1>6 DEF Publish, WorkerAdvance
  <2>2. worker.request.id = Current /\ Current # None /\ compilerQueue = <<>>
    BY <1>0, <2>1 DEF RunnerInv, CompileInv
  <2>3. worker'.stage = "reply"
    BY <2>1 DEF RunnerInv, Typed
  <2>4. ~Unpublished'
    BY <2>1, <2>2, <2>3 DEF Unpublished
  <2>5. candidate.id = Current /\ candidate.program = backend.files
    BY <2>2
  <2>6. Current \in 1 .. Current
    BY <2>2 DEF RunnerInv, Typed, Current, None
  <2> HIDE DEF candidate
  <2>7. Candidates' = {candidate} \union Candidates
    BY <1>1, <2>1 DEF Candidates
  <2>8. \A c \in Candidates \union {active} : ~(c.id = Current /\ Current # None)
    BY <1>2, <2>1, Zenon DEF IsProgram, Unpublished
  <2>9. \A c \in Candidates' \union {active} : IsProgram(c)'
    BY <1>2, <1>3, <2>1, <2>4, <2>5, <2>7, <2>8, Zenon DEF IsProgram
  <2> QED
    BY <1>2, <2>3, <2>5, <2>6, <2>7, <2>9
<1>7. CASE Reply
  <2>1. /\ worker.stage = "reply" /\ worker' = IdleWorker
        /\ UNCHANGED <<compilerQueue, backend, preparedSwaps>>
    BY <1>7 DEF Reply, WorkerReply, runnerVars
  <2>2. worker'.stage = "idle"
    BY <2>1, Zenon DEF IdleWorker
  <2>3. Unpublished' = Unpublished /\ Candidates' = Candidates
    BY <1>1, <2>1, <2>2 DEF Unpublished, Candidates
  <2> QED
    BY <1>2, <1>3, <2>1, <2>2, <2>3, Zenon DEF IsProgram
<1> QED
  BY <1>5, <1>6, <1>7 DEF Worker

LEMMA ProgramKept ==
    ASSUME RunnerInv, GraphInv, BackendInv, ProgramInv, [Next]_vars
    PROVE  ProgramInv'
<1> SUFFICES ASSUME ~draining' PROVE ProgramInv'
  BY DEF ProgramInv
<1>0. ~draining /\ pc \notin {"stop", "join", "done"}
  BY SourceSteps
<1>1. /\ inFlightCompile = None => lastCompileResult.id = Current
      /\ \A c \in Candidates : c.id \in 1 .. Current
      /\ active # NoCandidate => active.id \in 1 .. Current
      /\ worker.stage = "publish" => backend.seeded
      /\ \A c \in Candidates \union {active} : IsProgram(c)
  BY <1>0, ZenonT(30) DEF ProgramInv, IsProgram
<1>2. CASE UNCHANGED programVars
  BY <1>0, <1>2 DEF ProgramInv, programVars, Candidates, Current, Unpublished
<1>3. CASE Dispatch
  BY <1>0, <1>3, ProgramDispatched
<1>4. CASE Worker
  BY <1>0, <1>4, ProgramWorked
<1>5. CASE Pump /\ DrainResults
  <2>1. UNCHANGED <<nextRequestId, preparedSwaps, pendingCandidates, active, compilerQueue, worker,
                    backend>>
    BY <1>5, ZenonT(30) DEF Pump, DrainResults
  <2>2. inFlightCompile' = None => lastCompileResult'.id = Current
    BY <1>0, <1>1, <1>5, DrainFinds
  <2>3. Current' = Current /\ Candidates' = Candidates /\ Unpublished' = Unpublished
    BY <2>1, Zenon DEF Current, Candidates, Unpublished
  <2> QED
    BY <1>1, <2>1, <2>2, <2>3, ZenonT(30) DEF ProgramInv, IsProgram
<1>6. CASE Capture
  <2>1. /\ UNCHANGED <<nextRequestId, inFlightCompile, lastCompileResult, active, compilerQueue,
                       worker, backend>>
        /\ preparedSwaps' = <<>>
        /\ pendingCandidates' = pendingCandidates \union {preparedSwaps[i] : i \in DOMAIN preparedSwaps}
    BY <1>6, Zenon DEF Capture, pipelineVars
  <2>3. Candidates' = Candidates
    BY <2>1, CapturedAll, Zenon
  <2>2. Current' = Current /\ Candidates' = Candidates /\ Unpublished' = Unpublished
    BY <2>1, <2>3, Zenon DEF Current, Unpublished
  <2> QED
    BY <1>1, <2>1, <2>2, Zenon DEF ProgramInv, IsProgram
<1>7. CASE SafePointCommit
  <2> DEFINE id == Head(commitRequests)
  <2>1. /\ UNCHANGED <<backend, preparedSwaps>>
        /\ pendingCandidates' = pendingCandidates \ CandidateOf(id)
        /\ RefuseCandidate(id) \/ RejectCandidate(id) \/ PromoteCandidate(id)
    BY <1>7 DEF SafePointCommit
  <2>2. /\ ProcessCommit(FALSE) \/ ProcessCommit(TRUE)
        /\ active' = active \/ active' \in pendingCandidates
    BY <2>1, Zenon DEF RefuseCandidate, RejectCandidate, PromoteCandidate, CandidateOf
  <2>3. UNCHANGED <<nextRequestId, inFlightCompile, lastCompileResult, compilerQueue, worker>>
    BY <2>2, Zenon DEF ProcessCommit
  <2>4. /\ Current' = Current /\ Candidates' \subseteq Candidates /\ Unpublished' = Unpublished
        /\ active' = active \/ active' \in Candidates
    BY <2>1, <2>2, <2>3 DEF Current, Candidates, Unpublished
  <2> QED
    BY <1>1, <2>1, <2>3, <2>4, Zenon DEF ProgramInv, IsProgram
<1>8. CASE BeginTick \/ EndSafePoint \/ Observe \/ Editor \/ UNCHANGED vars
  <2>1. UNCHANGED <<nextRequestId, inFlightCompile, lastCompileResult, compilerQueue, worker>>
    BY <1>8, Zenon DEF BeginTick, EndSafePoint, Observe, Editor, Save, pipelineVars, vars
  <2>2. UNCHANGED <<preparedSwaps, pendingCandidates, active, backend>>
    BY <1>8, Zenon DEF BeginTick, EndSafePoint, Observe, Editor, Save, vars, runnerVars
  <2> QED
    BY <1>2, <2>1, <2>2 DEF programVars
<1>9. ~EndTicks /\ ~DrainTurn /\ ~Stop
  BY <1>0, Zenon DEF EndTicks, DrainTurn, Stop
<1>10. Pump => Dispatch \/ DrainResults
  BY DEF Pump, Dispatch
<1> QED
  BY <1>3, <1>4, <1>5, <1>6, <1>7, <1>8, <1>9, <1>10, ZenonT(30) DEF Next, Main, Done

LEMMA SourcesKept ==
    ASSUME StableImports, RunnerInv, SourcesInv, [Next]_vars
    PROVE  SourcesInv'
BY GraphKept, BackendKept, CacheKept, RootKept, ProcessKept, ProgramKept, Zenon DEF SourcesInv

LEMMA SourcesStart ==
    ASSUME Init
    PROVE  SourcesInv
<1>1. /\ backend = [cache |-> NoSources, files |-> NoSources, rooted |-> FALSE, seeded |-> FALSE]
      /\ fileChangeSent = FALSE /\ draining = FALSE /\ pc = "submit"
      /\ preparedSwaps = <<>> /\ pendingCandidates = {} /\ active = NoCandidate
      /\ dependencyPaths = Reached({Root}, disk)
  BY ZenonT(30) DEF Init, NewBackend
<1>2. /\ inFlightCompile = None /\ lastCompileResult.id = None /\ worker.stage = "idle"
      /\ Current = None
  <2>1. /\ inFlightCompile = None /\ lastCompileResult = NoOutcome /\ worker = IdleWorker
        /\ nextRequestId = 1
    BY ZenonT(30) DEF Init, PipelineInit
  <2>2. NoOutcome.id = None /\ IdleWorker.stage = "idle"
    BY ZenonT(30) DEF NoOutcome, IdleWorker
  <2>3. Current = None
    BY <2>1 DEF Current, None
  <2> QED
    BY <2>1, <2>2, <2>3, ZenonT(30)
<1>3. disk \in Saved /\ Present(disk) = Files
  <2>1. disk \in [Files -> Contents] /\ \A f \in Files : disk[f] \in Versions[f]
    BY ZenonT(30) DEF Init
  <2> QED
    BY <2>1, CompleteSaved, ZenonT(30)
<1>4. GraphInv
  BY <1>1, <1>3, SourceAssumption DEF GraphInv, IsGraph, Present
<1>5. BackendInv
  BY <1>1, NothingSaved, Zenon DEF BackendInv, BackendType
<1>6. NoChangeForgotten
  <2>1. \A f \in Files : backend.cache[f] = Missing
    BY <1>1 DEF NoSources
  <2>2. dependencyPaths \subseteq Files
    BY <1>4, GraphIsFiles DEF GraphInv
  <2> QED
    BY <2>1, <2>2, Zenon DEF NoChangeForgotten
<1>7. RootInv
  BY <1>1, <1>2, ZenonT(30) DEF RootInv
<1>8. ProcessInv
  BY <1>1, Zenon DEF ProcessInv
<1>9. ProgramInv
  <2>1. Candidates = {}
    BY <1>1 DEF Candidates
  <2> QED
    BY <1>1, <1>2, <2>1, ZenonT(30) DEF ProgramInv
<1> QED
  BY <1>4, <1>5, <1>6, <1>7, <1>8, <1>9, Zenon DEF SourcesInv

\* For every project whose edits leave imports alone, any number of edits and
\* deletions and any interleaving of the editor, the loop and the compiler
\* thread: the sources are with the compiler, or a change of them is on its way,
\* and the candidate of the last request is what the JIT process holds.
THEOREM SourcesAreFollowed ==
    ASSUME StableImports
    PROVE  Spec => [](RunnerInv /\ SourcesInv)
<1>1. Init => RunnerInv /\ SourcesInv
  BY InitKeeps, SourcesStart
<1>2. RunnerInv /\ SourcesInv /\ [Next]_vars => RunnerInv' /\ SourcesInv'
  BY StepKeeps, SourcesKept
<1> QED
  BY <1>1, <1>2, PTL DEF Spec

\* should_submit_watch_event drops no change of a file in the graph, and
\* refresh_cached_sources reads each one that was submitted.
THEOREM NothingIsForgotten ==
    ASSUME StableImports
    PROVE  Spec => []NoChangeForgotten
<1>1. SourcesInv => NoChangeForgotten
  BY DEF SourcesInv
<1> QED
  BY <1>1, SourcesAreFollowed, PTL

\* Once every change has been compiled, no compile has failed and the last
\* candidate was accepted, the host runs the program on disk.
THEOREM SavedIsRun ==
    ASSUME StableImports
    PROVE  Spec => []RunsWhatIsSaved
<1>1. ASSUME RunnerInv, SourcesInv PROVE RunsWhatIsSaved
  <2> SUFFICES ASSUME Settled, ~compileFailed
               PROVE  EntryView(active.program) = EntryView(disk)
    BY DEF RunsWhatIsSaved
  <2>1. /\ ~draining /\ pc = "submit" /\ inFlightCompile = None
        /\ watchEvents = {} /\ fileChanges = {} /\ pendingFiles = {}
        /\ active # NoCandidate /\ active.id = lastCompileResult.id
    BY ZenonT(30) DEF Settled, HasInFlightWork
  <2>2. compilerQueue = <<>> /\ worker.stage = "idle"
    BY <1>1, <2>1, Zenon DEF RunnerInv, CompileInv
  <2>3. active.id = Current /\ Current # None
    <3>1. active.id = Current /\ active.id \in 1 .. Current
      BY <1>1, <2>1, ZenonT(30) DEF SourcesInv, ProgramInv
    <3> QED
      BY <3>1 DEF None
  <2>4. backend.seeded /\ active.program = backend.files
    BY <1>1, <2>1, <2>3, Zenon DEF SourcesInv, ProgramInv
  <2>5. \A f \in dependencyPaths : ~OnItsWay(f)
    <3>1. DOMAIN <<>> = {}
      OBVIOUS
    <3> QED
      BY <2>1, <2>2, <3>1, ZenonT(30) DEF OnItsWay
  <2>6. \A f \in dependencyPaths : backend.files[f] # Missing /\ backend.files[f] = disk[f]
    BY <1>1, <2>1, <2>2, <2>4, <2>5 DEF SourcesInv, ProcessInv
  <2>7. /\ backend.files \in Saved /\ disk \in Saved /\ IsGraph(dependencyPaths)
        /\ dependencyPaths \subseteq Files
    BY <1>1, GraphIsFiles DEF SourcesInv, BackendInv, BackendType, GraphInv
  <2>8. dependencyPaths \subseteq Present(backend.files) /\ dependencyPaths \subseteq Present(disk)
    BY <2>6, <2>7 DEF Present
  <2>9. /\ Reached({Root}, backend.files) = dependencyPaths
        /\ Reached({Root}, disk) = dependencyPaths
    BY <2>7, <2>8, GraphOfSources
  <2>10. EntryView(backend.files) = EntryView(disk)
    BY <2>6, <2>9 DEF EntryView
  <2> QED
    BY <2>4, <2>10
<1> QED
  BY <1>1, SourcesAreFollowed, PTL
=============================================================================
