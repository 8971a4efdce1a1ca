---------------------------- MODULE Supervision ----------------------------
(***************************************************************************)
(* stasis-network-supervise: one supervisor process that starts an         *)
(* authority and a peer inside a job, hands the peer the invite the        *)
(* authority published, and turns what happens next into one exit code.    *)
(*                                                                         *)
(* In packaged mode it only waits for the peer.  In live mode it also      *)
(* relays a control stream: lines of its own standard input go to the      *)
(* authority one at a time, and each answer goes to standard output before *)
(* the next line is read.  The authority's terminal thread, which reads    *)
(* that stream, keeps its own list of ids and its own budget.              *)
(*                                                                         *)
(* Every wait in the code has a deadline.  Time is not modelled: a         *)
(* deadline may expire at any wait (Late), and `faulty` remembers that it  *)
(* did, or that the harness, the peer or the authority misbehaved.         *)
(***************************************************************************)
EXTENDS Naturals, Sequences, FiniteSets

CONSTANTS Modes,        \* which of "packaged" and "live" are explored
          MaxId,        \* the largest request id (u32::MAX in the code)
          MaxRequests   \* MAX_SUPERVISED_LIVE_REQUESTS

ASSUME SupervisionBounds ==
  /\ Modes \subseteq {"packaged", "live"}
  /\ MaxRequests \in Nat \ {0}
  /\ MaxId \in Nat
  /\ MaxId > MaxRequests

VARIABLES mode,      \* Options::authority
          pc,        \* where the supervisor is
          result,    \* the session's result, then the exit code
          authority, \* the authority process
          terminal,  \* the authority: its startup, then its terminal thread
          peer,      \* the peer process
          orphan,    \* the peer has left a descendant in the job
          receipts,  \* collect_peer_receipts and the channel it answers on
          terminated,\* Job::terminate was called
          asked,     \* requests read from standard input, in order
          current,   \* the request being relayed
          control,   \* the pipe to the authority
          response,  \* the pipe from the authority
          log,       \* what the authority read from the control pipe
          answers,   \* what was written to standard output
          faulty     \* history: somebody other than the supervisor failed

process == <<authority, terminal, peer, orphan, receipts>>
relay == <<asked, current, control, response, log, answers>>
svars == <<mode, pc, result, process, terminated, relay, faulty>>

Ids == 1..MaxId
Commands == {"step", "capture", "quit"}
Requests == [id : Ids, cmd : Commands]
NoRequest == [id |-> 0, cmd |-> "step", internal |-> FALSE]

Init ==
  /\ mode \in Modes
  /\ pc = "start" /\ result = "none"
  /\ authority = "none" /\ terminal = "starting"
  /\ peer = "none" /\ orphan = FALSE /\ receipts = "reading"
  /\ terminated = FALSE
  /\ asked = <<>> /\ current = NoRequest
  /\ control = <<>> /\ response = <<>> /\ log = <<>> /\ answers = <<>>
  /\ faulty = FALSE

-----------------------------------------------------------------------------
(* The supervisor *)

GoTo(where) == pc' = where /\ UNCHANGED result

(* An error returned by the session: `run` goes on to its cleanup. *)
Fail == pc' = "cleanup" /\ result' = "err"

(* The deadline of the wait the supervisor is in has passed. *)
Late == Fail /\ faulty' = TRUE

(* Job::spawn of the authority; the reader of its readiness pipe starts. *)
Start ==
  /\ pc = "start"
  /\ \/ GoTo("readiness") /\ authority' = "running" /\ UNCHANGED faulty
     \/ Fail /\ faulty' = TRUE /\ UNCHANGED authority
  /\ UNCHANGED <<mode, terminal, peer, orphan, receipts, terminated, relay>>

(* The readiness frame arrived whole and the authority is still there. *)
Ready ==
  /\ pc = "readiness"
  /\ terminal = "idle" /\ authority = "running"
  /\ GoTo("spawn")
  /\ UNCHANGED <<mode, process, terminated, relay, faulty>>

NotReady ==
  /\ pc = "readiness"
  /\ terminal = "malformed" \/ authority # "running"
  /\ Fail
  /\ UNCHANGED <<mode, process, terminated, relay, faulty>>

(* Job::spawn of the peer and the handoff of the invite to its input. *)
Spawn ==
  /\ pc = "spawn"
  /\ \/ /\ GoTo(IF mode = "live" THEN "check" ELSE "wait_peer")
        /\ peer' = "running" /\ UNCHANGED faulty
     \/ Fail /\ peer' \in {"none", "running"} /\ faulty' = TRUE
  /\ UNCHANGED <<mode, authority, terminal, orphan, receipts, terminated, relay>>

(* Packaged mode: the peer's status first, then the authority's; a peer     *)
(* that is done is asked for only once, the authority is asked again after. *)
PeerDone ==
  /\ pc = "wait_peer"
  /\ peer \in {"ok", "failed"}
  /\ IF authority = "running" /\ peer = "ok"
     THEN pc' = "cleanup" /\ result' = "ok"
     ELSE Fail
  /\ UNCHANGED <<mode, process, terminated, relay, faulty>>

AuthorityGone ==
  /\ pc = "wait_peer"
  /\ peer = "running" /\ authority # "running"
  /\ Fail
  /\ UNCHANGED <<mode, process, terminated, relay, faulty>>

(* check_processes and poll_peer_receipts. *)
Failing(withAuthority) ==
  \/ withAuthority /\ authority # "running"
  \/ peer = "failed"

Check ==
  /\ pc = "check"
  /\ IF Failing(TRUE) \/ receipts = "bad" THEN Fail ELSE GoTo("input")
  /\ UNCHANGED <<mode, process, terminated, relay, faulty>>

(* Nothing came within the slice of recv_timeout: the loop checks again. *)
CheckAgain ==
  /\ pc = "input"
  /\ Failing(TRUE) \/ receipts = "bad"
  /\ Fail
  /\ UNCHANGED <<mode, process, terminated, relay, faulty>>

Captured(requests) == \E i \in DOMAIN requests : requests[i].cmd = "capture"

(* A request the supervisor answers with Rejected before it gives up: an id *)
(* it has seen, the 513th request or one too many in its second, or an      *)
(* artifact that was already captured.                                      *)
Refused(request) ==
  \/ request.id \in {asked[i].id : i \in DOMAIN asked}
  \/ Len(asked) >= MaxRequests
  \/ request.cmd = "capture" /\ Captured(asked)

TakeRequest(request) ==
  /\ pc = "input"
  /\ asked' = Append(asked, request)
  /\ current' = [id |-> request.id, cmd |-> request.cmd, internal |-> FALSE]
  /\ \/ Refused(request) /\ GoTo("reject") /\ faulty' = TRUE
     \/ ~Refused(request) /\ GoTo("send") /\ UNCHANGED faulty
     \/ ~Refused(request) /\ GoTo("reject") /\ faulty' = TRUE \* its rate limit
  /\ UNCHANGED <<mode, process, terminated, control, response, log, answers>>

(* A line that is too long, unterminated or no request. *)
TakeGarbage ==
  /\ pc = "input"
  /\ Fail /\ faulty' = TRUE
  /\ UNCHANGED <<mode, process, terminated, relay>>

(* next_internal_quit: the largest id the harness has not used. *)
NextInternalQuit ==
  LET unused == Ids \ {asked[i].id : i \in DOMAIN asked}
  IN  CHOOSE id \in unused : \A other \in unused : other <= id

(* End of input: the supervisor quits the authority itself. *)
TakeEnd ==
  /\ pc = "input"
  /\ current' = [id |-> NextInternalQuit, cmd |-> "quit", internal |-> TRUE]
  /\ GoTo("send")
  /\ UNCHANGED <<mode, process, terminated, asked, control, response, log,
                 answers, faulty>>

(* send_control.  A write that fails or times out may have got through; the *)
(* error ends the session, except when the supervisor quits on its own.     *)
Send ==
  /\ pc = "send"
  /\ \/ /\ control' = Append(control, current)
        /\ GoTo("receive") /\ UNCHANGED faulty
     \/ /\ control' \in {control, Append(control, current)}
        /\ faulty' = TRUE
        /\ IF current.internal THEN GoTo("receive") ELSE Fail
  /\ UNCHANGED <<mode, process, terminated, asked, current, response, log, answers>>

(* What receive_response's result leads to: the answer is relayed, and      *)
(* everything is ignored when the supervisor quits on its own.              *)
Received(ok) ==
  IF current.internal THEN GoTo("finish") ELSE IF ok THEN GoTo("write") ELSE Fail

Receive ==
  /\ pc = "receive"
  /\ response # <<>>
  /\ Received(Head(response).id = current.id)
  /\ UNCHANGED <<mode, process, terminated, relay, faulty>>

(* The pipe closed with nothing in it, or a check between two slices of the *)
(* wait found a process gone; the authority may go once it was told to.     *)
(* Mutant: the authority may not go even after it was told to quit. *)
ReceiveNothingStrict ==
  /\ pc = "receive"
  /\ \/ response = <<>> /\ authority # "running"
     \/ Failing(TRUE)
  /\ Received(FALSE)
  /\ UNCHANGED <<mode, process, terminated, relay, faulty>>

ReceiveNothing ==
  /\ pc = "receive"
  /\ \/ response = <<>> /\ authority # "running"
     \/ Failing(current.cmd # "quit")
  /\ Received(FALSE)
  /\ UNCHANGED <<mode, process, terminated, relay, faulty>>

(* Mutant: a response that is late is given up and the next line is read. *)
ReceiveLateContinuing ==
  /\ pc = "receive"
  /\ IF current.internal THEN GoTo("finish") ELSE GoTo("check")
  /\ faulty' = TRUE
  /\ UNCHANGED <<mode, process, terminated, relay>>

ReceiveLate ==
  /\ pc = "receive"
  /\ Received(FALSE) /\ faulty' = TRUE
  /\ UNCHANGED <<mode, process, terminated, relay>>

Answer(ok) == [id |-> current.id, ok |-> ok]

(* verify_capture, then write_response; then the next line, or the end. *)
Write ==
  /\ pc = "write"
  /\ response' = Tail(response)
  /\ LET answer == Answer(Head(response).ok) IN
     \/ /\ answers' = Append(answers, answer)
        /\ IF current.cmd # "quit" THEN GoTo("check")
           ELSE IF answer.ok THEN GoTo("finish") ELSE Fail
        /\ UNCHANGED faulty
     \/ /\ answers' \in {answers, Append(answers, answer)}
        /\ Late
     \/ /\ current.cmd = "capture" /\ answer.ok \* no such artifact
        /\ Fail /\ faulty' = TRUE /\ UNCHANGED answers
  /\ UNCHANGED <<mode, process, terminated, asked, current, control, log>>

(* The Rejected answer to a refused request, then the error. *)
Reject ==
  /\ pc = "reject"
  /\ answers' \in {answers, Append(answers, Answer(FALSE))}
  /\ Fail
  /\ UNCHANGED <<mode, process, terminated, asked, current, control, response,
                 log, faulty>>

(* The writers are finished: the control pipe is closed. *)
Finish ==
  /\ pc = "finish"
  /\ GoTo("wait_authority")
  /\ UNCHANGED <<mode, process, terminated, relay, faulty>>

WaitForAuthority ==
  /\ pc = "wait_authority"
  /\ authority # "running"
  /\ IF authority = "ok" THEN GoTo("wait_live_peer") ELSE Fail
  /\ UNCHANGED <<mode, process, terminated, relay, faulty>>

WaitForPeer ==
  /\ pc = "wait_live_peer"
  /\ peer # "running"
  /\ IF peer = "ok" THEN GoTo("wait_receipts") ELSE Fail
  /\ UNCHANGED <<mode, process, terminated, relay, faulty>>

WaitForReceipts ==
  /\ pc = "wait_receipts"
  /\ receipts \in {"whole", "bad"}
  /\ IF receipts = "whole" THEN pc' = "cleanup" /\ result' = "ok" ELSE Fail
  /\ UNCHANGED <<mode, process, terminated, relay, faulty>>

(* Job::active_processes. *)
Active == authority = "running" \/ peer = "running" \/ orphan

(* shutdown_until: nothing to do when the job is empty, else terminate and  *)
(* poll; the error of a job that outlives the deadline replaces the result. *)
Cleanup ==
  /\ pc = "cleanup"
  /\ terminated' = Active
  /\ GoTo(IF Active THEN "terminate" ELSE "exited")
  /\ UNCHANGED <<mode, process, relay, faulty>>

(* Mutant: the job is taken to be empty once it was told to terminate. *)
TerminatedUnchecked ==
  /\ pc = "terminate"
  /\ GoTo("exited")
  /\ UNCHANGED <<mode, process, terminated, relay, faulty>>

Terminated ==
  /\ pc = "terminate"
  /\ ~Active
  /\ GoTo("exited")
  /\ UNCHANGED <<mode, process, terminated, relay, faulty>>

TerminateLate ==
  /\ pc = "terminate"
  /\ Active
  /\ pc' = "exited" /\ result' = "err" /\ faulty' = TRUE
  /\ UNCHANGED <<mode, process, terminated, relay>>

(* The waits whose deadline ends the session with an error. *)
(* Mutant: the control loop has no idle deadline. *)
ExpireUnlessIdle ==
  /\ pc \in {"readiness", "wait_peer", "finish", "wait_authority",
             "wait_live_peer", "wait_receipts"}
  /\ Late
  /\ UNCHANGED <<mode, process, terminated, relay>>

Expire ==
  /\ pc \in {"readiness", "wait_peer", "input", "finish", "wait_authority",
             "wait_live_peer", "wait_receipts"}
  /\ Late
  /\ UNCHANGED <<mode, process, terminated, relay>>
-----------------------------------------------------------------------------
(* The authority *)

(* Startup ends with a readiness frame, or with a malformed one. *)
Publish ==
  /\ authority = "running" /\ terminal = "starting"
  /\ \/ terminal' = "idle" /\ UNCHANGED faulty
     \/ terminal' = "malformed" /\ faulty' = TRUE
  /\ UNCHANGED <<mode, pc, result, authority, peer, orphan, receipts,
                 terminated, relay>>

(* run_supervised_live_terminal: one line of the control pipe.  It is logged *)
(* whether it is refused (with a Rejected answer, after which the terminal   *)
(* quits with an error) or submitted, and then answered.                     *)
AuthorityRefuses(request) ==
  \/ request.id \in {log[i].id : i \in DOMAIN log}
  \/ Len(log) >= MaxRequests
  \/ request.cmd = "capture" /\ Captured(log)

Serve ==
  /\ authority = "running" /\ terminal = "idle" /\ control # <<>>
  /\ control' = Tail(control)
  /\ LET request == Head(control)
         Logged(done) == Append(log, [id |-> request.id, cmd |-> request.cmd,
                                      done |-> done])
         Answered(ok) == Append(response, [id |-> request.id, ok |-> ok])
     IN
     \/ /\ AuthorityRefuses(request)
        /\ log' = Logged(FALSE) /\ response' = Answered(FALSE)
        /\ terminal' = "failing" /\ UNCHANGED faulty
     \/ /\ ~AuthorityRefuses(request) \* its own rate limit
        /\ log' = Logged(FALSE) /\ response' = Answered(FALSE)
        /\ terminal' = "failing" /\ faulty' = TRUE
     \/ /\ ~AuthorityRefuses(request) /\ request.cmd = "quit"
        /\ log' = Logged(TRUE) /\ response' = Answered(TRUE)
        /\ terminal' = "quitting" /\ UNCHANGED faulty
     \/ /\ ~AuthorityRefuses(request) /\ request.cmd # "quit"
        /\ \E ok \in BOOLEAN :
             log' = Logged(ok) /\ response' = Answered(ok)
        /\ UNCHANGED <<terminal, faulty>>
  /\ UNCHANGED <<mode, pc, result, authority, peer, orphan, receipts,
                 terminated, asked, current, answers>>

(* The control pipe ended between two lines: the terminal quits. *)
ControlEnds ==
  /\ mode = "live"
  /\ authority = "running" /\ terminal = "idle" /\ control = <<>>
  /\ pc \in {"wait_authority", "wait_live_peer", "wait_receipts", "cleanup",
             "terminate"}
  /\ terminal' = "quitting"
  /\ UNCHANGED <<mode, pc, result, authority, peer, orphan, receipts,
                 terminated, relay, faulty>>

(* The process ends with what its terminal thread returned ... *)
AuthorityExits ==
  /\ authority = "running" /\ terminal \in {"quitting", "failing"}
  /\ authority' = IF terminal = "quitting" THEN "ok" ELSE "failed"
  /\ UNCHANGED <<mode, pc, result, terminal, peer, orphan, receipts,
                 terminated, relay, faulty>>

(* ... or on its own account: a crash, or the game's window was closed. *)
AuthorityLeaves ==
  /\ authority = "running"
  /\ authority' \in {"ok", "failed"}
  /\ faulty' = TRUE
  /\ UNCHANGED <<mode, pc, result, terminal, peer, orphan, receipts,
                 terminated, relay>>
-----------------------------------------------------------------------------
(* The peer, the thread that collects its receipts, and the job *)

(* One receipt, well formed or not; none may follow the last. *)
Receipt ==
  /\ mode = "live" /\ peer = "running"
  /\ \/ receipts = "reading" /\ receipts' = "complete" /\ UNCHANGED faulty
     \/ receipts \in {"reading", "complete"} /\ receipts' = "bad" /\ faulty' = TRUE
  /\ UNCHANGED <<mode, pc, result, authority, terminal, peer, orphan,
                 terminated, relay>>

(* The peer is to complete its receipts before it exits with zero. *)
PeerExits ==
  /\ peer = "running"
  /\ peer' \in {"ok", "failed"}
  /\ orphan' \in BOOLEAN
  /\ faulty' = (\/ faulty \/ peer' = "failed"
                \/ mode = "live" /\ receipts # "complete")
  /\ UNCHANGED <<mode, pc, result, authority, terminal, receipts, terminated,
                 relay>>

(* The end of the peer's output: nobody holds the pipe any more. *)
ReceiptsEnd ==
  /\ peer \notin {"none", "running"} /\ ~orphan
  /\ receipts \in {"reading", "complete"}
  /\ receipts' = IF receipts = "complete" THEN "whole" ELSE "bad"
  /\ UNCHANGED <<mode, pc, result, authority, terminal, peer, orphan,
                 terminated, relay, faulty>>

OrphanExits ==
  /\ orphan
  /\ orphan' = FALSE
  /\ UNCHANGED <<mode, pc, result, authority, terminal, peer, receipts,
                 terminated, relay, faulty>>

(* TerminateJobObject takes effect, one process at a time. *)
Kill ==
  /\ terminated
  /\ \/ /\ authority = "running" /\ authority' = "killed"
        /\ UNCHANGED <<peer, orphan>>
     \/ /\ peer = "running" /\ peer' = "killed"
        /\ UNCHANGED <<authority, orphan>>
     \/ /\ orphan /\ orphan' = FALSE
        /\ UNCHANGED <<authority, peer>>
  /\ UNCHANGED <<mode, pc, result, terminal, receipts, terminated, relay, faulty>>
-----------------------------------------------------------------------------
Harness == (\E r \in Requests : TakeRequest(r)) \/ TakeGarbage \/ TakeEnd

Supervisor ==
  \/ Start \/ Ready \/ NotReady \/ Spawn \/ PeerDone \/ AuthorityGone
  \/ Check \/ CheckAgain \/ Send \/ Receive \/ ReceiveNothing \/ ReceiveLate
  \/ Write \/ Reject \/ Finish \/ WaitForAuthority \/ WaitForPeer
  \/ WaitForReceipts \/ Cleanup \/ Terminated \/ TerminateLate \/ Expire

Children ==
  \/ Publish \/ Serve \/ ControlEnds \/ AuthorityExits \/ AuthorityLeaves
  \/ Receipt \/ PeerExits \/ ReceiptsEnd \/ OrphanExits \/ Kill

(* The supervisor's exit closes the job, which ends what is left in it. *)
Exited == pc = "exited"

Next ==
  \/ ~Exited /\ (Harness \/ Supervisor \/ Children)
  \/ Exited /\ UNCHANGED svars

Spec == Init /\ [][Next]_svars

(* Only the supervisor's own thread is scheduled fairly: a child may hang   *)
(* for good, the harness may stop reading or writing, and then it is a      *)
(* deadline that moves the supervisor on.                                   *)
FairSpec == Spec /\ WF_svars(Supervisor)
-----------------------------------------------------------------------------
(* What holds *)

(* "Exit zero means the peer succeeded and cleanup completed": the peer     *)
(* ended by itself with zero, nothing of the job is left, and in live mode  *)
(* the authority ended by itself with zero, the receipts are whole and      *)
(* every line of standard input was answered.  (run and both sessions;      *)
(* result and cleanup are joined only at the very end.)                     *)
ExitZeroMeansSuccess ==
  (Exited /\ result = "ok") =>
    /\ peer = "ok" /\ ~Active
    /\ mode = "live" =>
         /\ authority = "ok" /\ receipts = "whole"
         /\ Len(answers) = Len(asked)

(* Conversely nothing but a fault of somebody else makes the supervisor     *)
(* fail, whatever the order in which children exit, answers arrive and the  *)
(* checks run, with one exception: at the end of input after exactly the    *)
(* permitted number of requests, the supervisor's own quit is one request   *)
(* too many for the authority, which refuses it and exits with an error.    *)
OnlyFaultsFail ==
  (Exited /\ result = "err") =>
    faulty \/ (current.internal /\ Len(asked) = MaxRequests)

(* Standard output answers standard input line by line, and an answer that  *)
(* says a request succeeded is true: the answers carry the ids of the       *)
(* requests in their order, an acknowledged request was carried out by the  *)
(* authority, which is never more than one request ahead of the answers,    *)
(* and no id reaches it twice: that of the supervisor's own quit is one the *)
(* harness has not used, even when the harness uses the largest ids.        *)
(* (run_session_inner, receive_response, next_internal_quit)                *)
RelayIsFaithful ==
  /\ Len(answers) <= Len(asked) /\ Len(asked) <= Len(answers) + 1
  /\ \A i \in DOMAIN answers :
       /\ answers[i].id = asked[i].id
       /\ answers[i].ok => i \in DOMAIN log /\ log[i].done /\ log[i].id = asked[i].id
  /\ Len(log) <= Len(answers) + 1
  /\ \A i, j \in DOMAIN log : log[i].id = log[j].id => i = j

(* Whatever hangs, crashes or is not read, the supervisor exits: every wait *)
(* of it has a deadline.                                                    *)
SupervisorExits == <>Exited
=============================================================================
