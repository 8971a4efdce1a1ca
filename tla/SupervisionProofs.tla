------------------------ MODULE SupervisionProofs ------------------------
(***************************************************************************)
(* What TLAPS proves of the supervisor, for any bound on the requests and  *)
(* any range of ids: what standard output says is true, exit zero means    *)
(* success, and nothing but somebody else's fault makes it fail.           *)
(*                                                                         *)
(* The inductive invariant follows one request on its way: for every place *)
(* the supervisor can be at it says which of the two pipes the request is  *)
(* in and how far the authority's log is ahead of the answers.             *)
(***************************************************************************)
EXTENDS Supervision, FiniteSetTheorems, TLAPS

Current == [id : Nat, cmd : Commands, internal : BOOLEAN]
Replies == [id : Nat, ok : BOOLEAN]
Entries == [id : Nat, cmd : Commands, done : BOOLEAN]

\* Where no request is on its way, where the authority was told to quit, and
\* where the session is over.
Quiet == {"start", "readiness", "spawn", "wait_peer", "check", "input"}
Leaving == {"finish", "wait_authority", "wait_live_peer", "wait_receipts"}
Over == {"cleanup", "terminate", "exited"}
Relaying == {"send", "receive", "write", "reject"}

PlacesTyped ==
  /\ mode \in {"packaged", "live"}
  /\ pc \in Quiet \union Leaving \union Over \union Relaying
  /\ result \in {"none", "ok", "err"}
  /\ authority \in {"none", "running", "ok", "failed", "killed"}
  /\ terminal \in {"starting", "malformed", "idle", "quitting", "failing"}
  /\ peer \in {"none", "running", "ok", "failed", "killed"}
  /\ orphan \in BOOLEAN /\ terminated \in BOOLEAN /\ faulty \in BOOLEAN
  /\ receipts \in {"reading", "complete", "whole", "bad"}

MessagesTyped ==
  /\ asked \in Seq(Requests) /\ current \in Current
  /\ control \in Seq(Current) /\ response \in Seq(Replies)
  /\ log \in Seq(Entries) /\ answers \in Seq(Replies)

Typed == PlacesTyped /\ MessagesTyped

\* Both pipes are empty and everything the authority read is answered ...
Idle == control = <<>> /\ response = <<>> /\ Len(log) = Len(answers)

\* ... or the request is in the pipe to the authority ...
Sent == control = <<current>> /\ response = <<>> /\ Len(log) = Len(answers)

\* ... or its answer is in the pipe from the authority.
Served ==
  /\ control = <<>>
  /\ Len(log) = Len(answers) + 1
  /\ log[Len(log)].id = current.id /\ log[Len(log)].cmd = current.cmd
  /\ response = <<[id |-> current.id, ok |-> log[Len(log)].done]>>

\* The request being relayed is the last line of input, or the own quit.
Open ==
  IF current.internal THEN Len(asked) = Len(answers)
  ELSE /\ Len(asked) = Len(answers) + 1
       /\ asked[Len(asked)].id = current.id
       /\ asked[Len(asked)].cmd = current.cmd

InFlight ==
  /\ pc \in Quiet => ~current.internal /\ Len(asked) = Len(answers) /\ Idle
  /\ pc = "send" => Open /\ Idle
  /\ pc = "reject" => ~current.internal /\ Open /\ Idle
  /\ pc = "receive" => Open /\ (Sent \/ Served \/ (current.internal /\ faulty /\ Idle))
  /\ pc = "write" => ~current.internal /\ Open /\ Served
  /\ pc \in Leaving =>
       /\ Len(asked) = Len(answers)
       /\ IF current.internal THEN Sent \/ Served \/ (faulty /\ Idle) ELSE Idle
  /\ pc \in Over =>
       /\ Len(answers) <= Len(asked) /\ Len(asked) <= Len(answers) + 1
       /\ Len(control) <= 1 /\ Len(log) <= Len(answers) + 1
       /\ Len(control) = 1 => Len(log) = Len(answers)

\* The log repeats the lines of input that were answered, in their order, and
\* the answers are true.
Truthful ==
  /\ \A i \in DOMAIN log : i <= Len(answers) =>
       log[i].id = asked[i].id /\ log[i].cmd = asked[i].cmd
  /\ \A i \in DOMAIN answers :
       /\ answers[i].id = asked[i].id
       /\ answers[i].ok => i \in DOMAIN log /\ log[i].done

InLog(id) == \E i \in DOMAIN log : log[i].id = id

\* No id reaches the authority twice.
FreshIds ==
  /\ \A i, j \in DOMAIN log : log[i].id = log[j].id => i = j
  /\ pc = "send" => ~InLog(current.id)
  /\ control # <<>> => ~InLog(control[1].id)

RelayInv == InFlight /\ Truthful /\ FreshIds

-----------------------------------------------------------------------------
\* Where the supervisor is in live mode, in packaged mode, and what it has
\* found out about its children so far.
Stage ==
  /\ pc \in Leaving \union Relaying \union {"check", "input"} => mode = "live"
  /\ pc = "wait_peer" => mode = "packaged"
  /\ pc \notin Over => result = "none" /\ ~terminated
  /\ pc = "cleanup" => ~terminated
  /\ pc \in {"wait_live_peer", "wait_receipts"} => authority = "ok"
  /\ pc = "wait_receipts" => peer = "ok"

ZeroInv ==
  /\ pc \in Over => result \in {"ok", "err"}
  /\ result = "ok" =>
       /\ peer = "ok"
       /\ mode = "live" => /\ authority = "ok" /\ receipts = "whole"
                           /\ Len(answers) = Len(asked)
       /\ pc = "exited" => ~Active

-----------------------------------------------------------------------------
Excused == faulty \/ (current.internal /\ Len(asked) = MaxRequests)

\* While nobody is at fault: what the supervisor and the authority refuse ...
NothingRefused ==
  /\ pc # "reject" /\ pc \notin Over => Len(asked) <= MaxRequests
  /\ ~Excused =>
       /\ pc # "reject"
       /\ pc = "send" => ~AuthorityRefuses(current)
       /\ control # <<>> => ~AuthorityRefuses(control[1])
       /\ Len(log) > Len(answers) /\ log[Len(log)].cmd = "quit" => log[Len(log)].done

\* ... and what has become of the processes.
NobodyFailed ==
  ~Excused =>
    /\ result # "err"
    /\ terminal \in {"starting", "idle", "quitting"}
    /\ pc # "start" => authority # "none"
    /\ pc \notin Over \union {"start", "readiness", "spawn"} => peer # "none"
    /\ authority = "ok" => terminal = "quitting"
    /\ terminal = "quitting" =>
         /\ pc \in {"receive", "write"} \union Leaving \union Over
         /\ pc \in {"receive", "write"} => current.cmd = "quit" /\ Served
    /\ ~terminated =>
         /\ authority \notin {"failed", "killed"} /\ peer \notin {"failed", "killed"}
         /\ mode = "live" => /\ receipts # "bad"
                             /\ peer = "ok" => receipts \in {"complete", "whole"}

SupervisionInv ==
  Typed /\ RelayInv /\ Stage /\ ZeroInv /\ NothingRefused /\ NobodyFailed

-----------------------------------------------------------------------------
(* next_internal_quit *)

LEMMA LeastNatural ==
    ASSUME NEW T \in SUBSET Nat, T # {}
    PROVE  \E m \in T : \A n \in T : m <= n
<1> DEFINE R == OpToRel(<, Nat)
<1>1. \A m, n \in Nat : m < n => <<m, n>> \in R
  BY DEF OpToRel
<1>2. IsWellFoundedOn(R, Nat)
  BY NatLessThanWellFounded
<1> HIDE DEF R
<1>3. PICK m \in T : \A n \in T : ~ (<<n, m>> \in R)
  BY <1>2, WFMin, Zenon
<1>4. \A n \in T : ~ (n < m)
  BY <1>1, <1>3, Zenon
<1> QED BY <1>4

\* There is an id left that the harness has not used, because it may use fewer
\* than there are: the supervisor's own quit has one.
LEMMA QuitIsFresh ==
    ASSUME Typed, Len(asked) <= MaxRequests
    PROVE  /\ NextInternalQuit \in Ids
           /\ \A i \in DOMAIN asked : asked[i].id # NextInternalQuit
<1> DEFINE used == {asked[i].id : i \in DOMAIN asked}
           unused == Ids \ used
<1>0. Len(asked) \in Nat /\ DOMAIN asked = 1..Len(asked) /\ MaxId \in Nat
  BY SupervisionBounds DEF Typed, MessagesTyped
<1>1. IsFiniteSet(used) /\ Cardinality(used) <= Len(asked)
  <2> DEFINE f == [i \in 1..Len(asked) |-> asked[i].id]
  <2>1. f \in Surjection(1..Len(asked), used)
    BY <1>0 DEF Surjection
  <2>2. ExistsSurjection(1..Len(asked), used)
    BY <2>1 DEF ExistsSurjection
  <2> QED BY <1>0, <2>2, FS_SurjCardinalityBound, FS_NatSurjection
<1>2. IsFiniteSet(Ids) /\ Cardinality(Ids) = MaxId
  BY <1>0, FS_Interval DEF Ids
<1>3. unused # {}
  <2> SUFFICES ASSUME unused = {} PROVE FALSE
    OBVIOUS
  <2>1. Ids \in SUBSET used
    OBVIOUS
  <2>2. Cardinality(Ids) <= Cardinality(used)
    BY <1>1, <2>1, FS_Subset
  <2>3. Cardinality(used) \in Nat
    BY <1>1, FS_CardinalityType
  <2> QED BY <1>0, <1>1, <1>2, <2>2, <2>3, SupervisionBounds
<1>4. \E id \in unused : \A other \in unused : other <= id
  <2> DEFINE rest == {MaxId - id : id \in unused}
  <2>1. unused \subseteq 1..MaxId
    BY DEF Ids
  <2>2. rest \in SUBSET Nat /\ rest # {}
    BY <1>0, <1>3, <2>1
  <2> HIDE DEF unused
  <2>3. PICK m \in rest : \A n \in rest : m <= n
    BY <2>2, LeastNatural, Zenon
  <2>4. PICK id \in unused : m = MaxId - id
    OBVIOUS
  <2>5. \A other \in unused : MaxId - id <= MaxId - other
    BY <2>3, <2>4
  <2> QED BY <1>0, <2>1, <2>4, <2>5
<1>5. NextInternalQuit \in unused
  BY <1>4, Zenon DEF NextInternalQuit
<1> QED BY <1>5

-----------------------------------------------------------------------------
-----------------------------------------------------------------------------
(* Types *)

\* The steps that leave both pipes, the input and the output alone.
OtherSteps ==
  \/ TakeGarbage \/ Start \/ Ready \/ NotReady \/ Spawn \/ PeerDone
  \/ AuthorityGone \/ Check \/ CheckAgain \/ Receive \/ ReceiveNothing
  \/ ReceiveLate \/ Finish \/ WaitForAuthority \/ WaitForPeer
  \/ WaitForReceipts \/ Cleanup \/ Terminated \/ TerminateLate \/ Expire
  \/ Publish \/ ControlEnds \/ AuthorityExits \/ AuthorityLeaves \/ Receipt
  \/ PeerExits \/ ReceiptsEnd \/ OrphanExits \/ Kill

LEMMA Steps ==
    ASSUME Next
    PROVE  \/ \E r \in Requests : TakeRequest(r)
           \/ TakeEnd \/ Send \/ Write \/ Reject \/ Serve
           \/ OtherSteps /\ ~Exited
           \/ UNCHANGED svars
BY DEF Next, Harness, Supervisor, Children, OtherSteps

LEMMA OthersLeaveRelay ==
    ASSUME OtherSteps
    PROVE  UNCHANGED relay
BY Zenon DEF OtherSteps, TakeGarbage, Start, Ready, NotReady, Spawn, PeerDone,
   AuthorityGone, Check, CheckAgain, Receive, ReceiveNothing, ReceiveLate, Finish,
   WaitForAuthority, WaitForPeer, WaitForReceipts, Cleanup, Terminated,
   TerminateLate, Expire, Publish, ControlEnds, AuthorityExits, AuthorityLeaves,
   Receipt, PeerExits, ReceiptsEnd, OrphanExits, Kill

\* What Serve does to the pipes and to the log, whichever way it answers.
Serves(ok) ==
  /\ control # <<>>
  /\ control' = Tail(control)
  /\ log' = Append(log, [id |-> Head(control).id, cmd |-> Head(control).cmd,
                         done |-> ok])
  /\ response' = Append(response, [id |-> Head(control).id, ok |-> ok])
  /\ UNCHANGED <<mode, pc, result, authority, peer, orphan, receipts, terminated,
                 asked, current, answers>>

LEMMA ServeEffect ==
    ASSUME Serve
    PROVE  \E ok \in BOOLEAN : Serves(ok)
BY Zenon DEF Serve, Serves

LEMMA AppendTyped ==
    ASSUME NEW S, NEW s \in Seq(S), NEW x \in S
    PROVE  Append(s, x) \in Seq(S)
OBVIOUS

LEMMA TailOfOne ==
    ASSUME NEW S, NEW s \in Seq(S), Len(s) = 1
    PROVE  Tail(s) = <<>>
<1>1. s # <<>>
  OBVIOUS
<1>2. Tail(s) \in Seq(S) /\ Len(Tail(s)) = 0
  BY <1>1
<1>3. \A t \in Seq(S) : Len(t) = 0 => t = <<>>
  OBVIOUS
<1> QED BY <1>2, <1>3, Zenon

LEMMA AnswerTyped ==
    ASSUME Typed, NEW ok \in BOOLEAN
    PROVE  Answer(ok) \in Replies
BY DEF Typed, MessagesTyped, Answer, Current, Replies

LEMMA MessagesStep ==
    ASSUME Typed, InFlight, NothingRefused, Next
    PROVE  MessagesTyped'
<1> USE DEF Typed, MessagesTyped
<1>1. ASSUME NEW r \in Requests, TakeRequest(r) PROVE MessagesTyped'
  <2>1. [id |-> r.id, cmd |-> r.cmd, internal |-> FALSE] \in Current
    BY SupervisionBounds DEF Requests, Ids, Current
  <2>2. Append(asked, r) \in Seq(Requests)
    OBVIOUS
  <2> QED BY <1>1, <2>1, <2>2 DEF TakeRequest
<1>2. CASE TakeEnd
  <2>1. NextInternalQuit \in Nat
    BY <1>2, QuitIsFresh, SupervisionBounds DEF TakeEnd, NothingRefused, Ids, Over
  <2>2. [id |-> NextInternalQuit, cmd |-> "quit", internal |-> TRUE] \in Current
    BY <2>1 DEF Current, Commands
  <2> QED BY <1>2, <2>2 DEF TakeEnd
<1>3. CASE Send
  <2>1. Append(control, current) \in Seq(Current)
    OBVIOUS
  <2> QED BY <1>3, <2>1, Zenon DEF Send
<1>4. CASE Write
  <2>0. Served
    BY <1>4 DEF Write, InFlight
  <2>1. response # <<>>
    BY <2>0 DEF Served
  <2>2. Tail(response) \in Seq(Replies) /\ Head(response) \in Replies
    BY <2>1
  <2>3. Append(answers, Answer(Head(response).ok)) \in Seq(Replies)
    BY <2>2, AnswerTyped DEF Replies
  <2> QED BY <1>4, <2>2, <2>3, Zenon DEF Write
<1>5. CASE Reject
  <2>1. Answer(FALSE) \in Replies
    BY AnswerTyped, Zenon
  <2>2. Append(answers, Answer(FALSE)) \in Seq(Replies)
    BY <2>1, AppendTyped, Zenon
  <2> QED BY <1>5, <2>2, Zenon DEF Reject
<1>6. CASE Serve
  <2>1. PICK ok \in BOOLEAN : Serves(ok)
    BY <1>6, ServeEffect
  <2> DEFINE request == Head(control)
  <2>2. request \in Current /\ Tail(control) \in Seq(Current)
    BY <2>1 DEF Serves
  <2>3. /\ [id |-> request.id, cmd |-> request.cmd, done |-> ok] \in Entries
        /\ [id |-> request.id, ok |-> ok] \in Replies
    BY <2>2 DEF Current, Entries, Replies
  <2>4. /\ Append(log, [id |-> request.id, cmd |-> request.cmd, done |-> ok])
             \in Seq(Entries)
        /\ Append(response, [id |-> request.id, ok |-> ok]) \in Seq(Replies)
    BY <2>3
  <2> QED BY <2>1, <2>2, <2>4 DEF Serves
<1>7. CASE OtherSteps \/ UNCHANGED svars
  BY <1>7, OthersLeaveRelay DEF relay, svars
<1> QED BY <1>1, <1>2, <1>3, <1>4, <1>5, <1>6, <1>7, Steps

LEMMA PlacesStep ==
    ASSUME PlacesTyped, Next
    PROVE  PlacesTyped'
<1> USE DEF PlacesTyped, Quiet, Leaving, Over, Relaying, process, GoTo, Fail, Late
<1>1. CASE Harness
  BY <1>1, Zenon DEF Harness, TakeRequest, TakeGarbage, TakeEnd
<1>2. CASE Supervisor
  <2>1. CASE Start \/ Ready \/ NotReady \/ Spawn \/ PeerDone \/ AuthorityGone
    BY <2>1, ZenonT(30) DEF Start, Ready, NotReady, Spawn, PeerDone, AuthorityGone
  <2>2. CASE Check \/ CheckAgain \/ Send \/ Write \/ Reject
    BY <2>2, Zenon DEF Check, CheckAgain, Send, Write, Reject
  <2>3. CASE Receive \/ ReceiveNothing \/ ReceiveLate
    BY <2>3, Zenon DEF Receive, ReceiveNothing, ReceiveLate, Received
  <2>4. CASE Finish \/ WaitForAuthority \/ WaitForPeer \/ WaitForReceipts
    BY <2>4 DEF Finish, WaitForAuthority, WaitForPeer, WaitForReceipts
  <2>5. CASE Cleanup \/ Terminated \/ TerminateLate \/ Expire
    BY <2>5, Zenon DEF Cleanup, Terminated, TerminateLate, Expire, Active
  <2> QED BY <1>2, <2>1, <2>2, <2>3, <2>4, <2>5 DEF Supervisor
<1>3. CASE Children
  <2>1. CASE Publish \/ Serve \/ ControlEnds \/ AuthorityExits \/ AuthorityLeaves
    BY <2>1, Zenon DEF Publish, Serve, ControlEnds, AuthorityExits, AuthorityLeaves
  <2>2. CASE Receipt
    <3>1. /\ receipts' \in {"complete", "bad"} /\ faulty' \in BOOLEAN
          /\ UNCHANGED <<mode, pc, result, authority, terminal, peer, orphan,
                         terminated>>
      BY <2>2, Zenon DEF Receipt
    <3> QED BY <3>1
  <2>5. CASE ReceiptsEnd
    <3>1. /\ receipts' \in {"whole", "bad"}
          /\ UNCHANGED <<mode, pc, result, authority, terminal, peer, orphan,
                         terminated, faulty>>
      BY <2>5, Zenon DEF ReceiptsEnd
    <3> QED BY <3>1
  <2>3. CASE OrphanExits \/ Kill
    <3>1. orphan' \in BOOLEAN
      BY <2>3, Zenon DEF OrphanExits, Kill
    <3>2. /\ authority' \in {authority, "killed"} /\ peer' \in {peer, "killed"}
          /\ UNCHANGED <<mode, pc, result, terminal, receipts, terminated, faulty>>
      BY <2>3, Zenon DEF OrphanExits, Kill
    <3> QED BY <3>1, <3>2
  <2>4. CASE PeerExits
    <3>1. faulty' \in BOOLEAN
      BY <2>4, Zenon DEF PeerExits
    <3> QED BY <2>4, <3>1 DEF PeerExits
  <2> QED BY <1>3, <2>1, <2>2, <2>3, <2>4, <2>5 DEF Children
<1>4. CASE UNCHANGED svars
  BY <1>4 DEF svars
<1> QED BY <1>1, <1>2, <1>3, <1>4 DEF Next

-----------------------------------------------------------------------------
(* The relay *)

\* Where the steps that leave the pipes alone may take the supervisor.
OtherMoves ==
  \/ pc' = pc
  \/ pc \in Quiet /\ pc' \in Quiet
  \/ pc = "receive" /\ pc' = "write" /\ ~current.internal /\ response # <<>>
  \/ pc = "receive" /\ pc' = "finish" /\ current.internal
  \/ pc \in Leaving /\ pc' \in Leaving
  \/ pc \in Quiet \union Leaving \union Over \union {"receive"} /\ pc' \in Over

LEMMA OthersMove ==
    ASSUME PlacesTyped, OtherSteps
    PROVE  OtherMoves /\ (faulty => faulty')
<1> USE DEF OtherMoves, Quiet, Leaving, Over, GoTo, Fail, Late
<1>1. CASE Start \/ Ready \/ NotReady \/ Spawn \/ PeerDone \/ AuthorityGone
  BY <1>1 DEF Start, Ready, NotReady, Spawn, PeerDone, AuthorityGone
<1>2. CASE TakeGarbage
  BY <1>2 DEF TakeGarbage
<1>8. CASE Check \/ CheckAgain
  <2>1. pc \in {"check", "input"} /\ pc' \in {"cleanup", "input"} /\ faulty' = faulty
    BY <1>8, Zenon DEF Check, CheckAgain
  <2> QED BY <2>1
<1>3. CASE Receive \/ ReceiveNothing \/ ReceiveLate
  BY <1>3 DEF Receive, ReceiveNothing, ReceiveLate, Received
<1>4. CASE Finish \/ WaitForAuthority \/ WaitForPeer \/ WaitForReceipts
  BY <1>4 DEF Finish, WaitForAuthority, WaitForPeer, WaitForReceipts
<1>5. CASE Cleanup \/ Terminated \/ TerminateLate \/ Expire
  BY <1>5 DEF Cleanup, Terminated, TerminateLate, Expire
<1>6. CASE Publish \/ ControlEnds \/ AuthorityExits \/ AuthorityLeaves
  BY <1>6 DEF Publish, ControlEnds, AuthorityExits, AuthorityLeaves
<1>7. CASE Receipt \/ PeerExits \/ ReceiptsEnd \/ OrphanExits \/ Kill
  <2>1. pc' = pc
    BY <1>7, Zenon DEF Receipt, PeerExits, ReceiptsEnd, OrphanExits, Kill
  <2>2. faulty' = faulty \/ faulty' = TRUE \/ PeerExits
    BY <1>7, Zenon DEF Receipt, ReceiptsEnd, OrphanExits, Kill
  <2>3. PeerExits => (faulty => faulty')
    BY Zenon DEF PeerExits
  <2>4. OtherMoves
    BY <2>1
  <2>5. faulty => faulty'
    BY <2>2, <2>3, Zenon
  <2> QED BY <2>4, <2>5
<1> QED BY <1>1, <1>2, <1>3, <1>4, <1>5, <1>6, <1>7, <1>8 DEF OtherSteps

LEMMA PipeLengths ==
    ASSUME Typed
    PROVE  /\ Len(asked) \in Nat /\ Len(answers) \in Nat /\ Len(log) \in Nat
           /\ Len(control) \in Nat
           /\ Idle => Len(control) = 0 /\ Len(log) = Len(answers)
           /\ Sent => Len(control) = 1 /\ Len(log) = Len(answers)
           /\ Served => Len(control) = 0 /\ Len(log) = Len(answers) + 1
           /\ Open => Len(asked) \in {Len(answers), Len(answers) + 1}
BY DEF Typed, MessagesTyped, Idle, Sent, Served, Open

\* Input, output and log are never more than one request apart.
LEMMA LengthBounds ==
    ASSUME Typed, RelayInv
    PROVE  /\ Len(answers) <= Len(asked) /\ Len(asked) <= Len(answers) + 1
           /\ Len(control) <= 1 /\ Len(log) <= Len(answers) + 1
           /\ Len(control) = 1 => Len(log) = Len(answers)
<1> DEFINE a == Len(asked)
           n == Len(answers)
           k == Len(control)
           m == Len(log)
<1>1. CASE pc \in Over
  BY <1>1 DEF RelayInv, InFlight
<1>2. CASE pc \notin Over
  <2>1. a = n \/ Open
    BY <1>2 DEF RelayInv, InFlight, Typed, PlacesTyped, Relaying
  <2>2. Idle \/ Sent \/ Served
    BY <1>2 DEF RelayInv, InFlight, Typed, PlacesTyped, Relaying
  <2>3. a \in Nat /\ n \in Nat /\ (a = n \/ a \in {n, n + 1})
    BY <2>1, PipeLengths, Zenon
  <2>4. (k = 0 /\ m = n) \/ (k = 1 /\ m = n) \/ (k = 0 /\ m = n + 1)
    BY <2>2, PipeLengths, Zenon
  <2> HIDE DEF a, n, k, m
  <2>5. n <= a /\ a <= n + 1 /\ k <= 1 /\ m <= n + 1 /\ (k = 1 => m = n)
    BY <2>3, <2>4
  <2> QED BY <2>5 DEF a, n, k, m
<1> QED BY <1>1, <1>2

LEMMA OverInFlight ==
    ASSUME pc' \in Over,
           Len(answers') <= Len(asked'), Len(asked') <= Len(answers') + 1,
           Len(control') <= 1, Len(log') <= Len(answers') + 1,
           Len(control') = 1 => Len(log') = Len(answers')
    PROVE  InFlight'
BY DEF InFlight, Quiet, Leaving, Over

LEMMA OthersKeepRelay ==
    ASSUME Typed, RelayInv, OtherSteps \/ UNCHANGED svars
    PROVE  RelayInv'
<1>1. UNCHANGED <<asked, current, control, response, log, answers>>
  BY OthersLeaveRelay DEF relay, svars
<1>2. OtherMoves /\ (faulty => faulty')
  BY OthersMove DEF Typed, svars, OtherMoves
<1>3. InFlight'
  <2>1. Idle' = Idle /\ Sent' = Sent /\ Served' = Served /\ Open' = Open
    BY <1>1 DEF Idle, Sent, Served, Open
  <2>2. ~ (response # <<>> /\ (Sent \/ Idle))
    BY DEF Sent, Idle
  <2> USE <1>1, <1>2, <2>1, <2>2
  <2>3. CASE pc' = pc
    BY <2>3 DEF RelayInv, InFlight
  <2>4. CASE pc \in Quiet /\ pc' \in Quiet
    BY <2>4 DEF RelayInv, InFlight, Quiet, Leaving, Over
  <2>5. CASE pc = "receive" /\ pc' = "write" /\ ~current.internal /\ response # <<>>
    BY <2>5 DEF RelayInv, InFlight, Quiet, Leaving, Over
  <2>6. CASE pc = "receive" /\ pc' = "finish" /\ current.internal
    BY <2>6 DEF RelayInv, InFlight, Quiet, Leaving, Over, Open
  <2>7. CASE pc \in Leaving /\ pc' \in Leaving
    BY <2>7 DEF RelayInv, InFlight, Quiet, Leaving, Over
  <2>8. CASE /\ pc \in Quiet \union Leaving \union Over \union {"receive"}
             /\ pc' \in Over
    <3>1. /\ Len(answers) <= Len(asked) /\ Len(asked) <= Len(answers) + 1
          /\ Len(control) <= 1 /\ Len(log) <= Len(answers) + 1
          /\ Len(control) = 1 => Len(log) = Len(answers)
      BY <2>8, LengthBounds
    <3> QED BY <2>8, <3>1 DEF InFlight, Quiet, Leaving, Over
  <2> QED BY <2>3, <2>4, <2>5, <2>6, <2>7, <2>8 DEF OtherMoves
<1>4. Truthful'
  BY <1>1 DEF RelayInv, Truthful
<1>5. FreshIds'
  <2>1. pc' = "send" => pc = "send"
    BY <1>2 DEF OtherMoves, Quiet, Leaving, Over
  <2> QED BY <1>1, <2>1 DEF RelayInv, FreshIds, InLog
<1> QED BY <1>3, <1>4, <1>5 DEF RelayInv

LEMMA TakeRequestKeepsRelay ==
    ASSUME Typed, RelayInv, NEW r \in Requests, TakeRequest(r)
    PROVE  RelayInv'
<1>1. /\ pc = "input" /\ pc' \in {"send", "reject"}
      /\ pc' = "send" => ~Refused(r)
      /\ asked' = Append(asked, r)
      /\ current' = [id |-> r.id, cmd |-> r.cmd, internal |-> FALSE]
      /\ UNCHANGED <<control, response, log, answers>>
  BY DEF TakeRequest, GoTo
<1>2. Idle /\ Len(asked) = Len(answers)
  BY <1>1 DEF RelayInv, InFlight, Quiet
<1>3. /\ Len(asked') = Len(asked) + 1 /\ asked'[Len(asked) + 1] = r
      /\ \A i \in 1..Len(asked) : asked'[i] = asked[i]
  BY <1>1 DEF Typed, MessagesTyped
<1>4. Len(answers) \in Nat /\ DOMAIN answers = 1..Len(answers)
      /\ DOMAIN log = 1..Len(log) /\ DOMAIN asked = 1..Len(asked)
  BY DEF Typed, MessagesTyped
<1>5. Idle' /\ Open' /\ ~current'.internal
  BY <1>1, <1>2, <1>3 DEF Idle, Open
<1>6. InFlight'
  BY <1>1, <1>5 DEF InFlight, Quiet, Leaving, Over
<1>7. Truthful'
  BY <1>1, <1>2, <1>3, <1>4 DEF RelayInv, Truthful, Idle
<1>8. pc' = "send" => ~InLog(r.id)
  <2>1. Len(log) = Len(asked) /\ \A i \in DOMAIN log : log[i].id = asked[i].id
    BY <1>2, <1>4 DEF Idle, RelayInv, Truthful
  <2> QED BY <1>1, <1>4, <2>1 DEF Refused, InLog
<1>9. FreshIds'
  BY <1>1, <1>2, <1>8 DEF RelayInv, FreshIds, InLog, Idle
<1> QED BY <1>6, <1>7, <1>9 DEF RelayInv

LEMMA TakeEndKeepsRelay ==
    ASSUME Typed, RelayInv, NothingRefused, TakeEnd
    PROVE  RelayInv'
<1>1. /\ pc = "input" /\ pc' = "send"
      /\ current' = [id |-> NextInternalQuit, cmd |-> "quit", internal |-> TRUE]
      /\ UNCHANGED <<asked, control, response, log, answers>>
  BY DEF TakeEnd, GoTo
<1>2. Idle /\ Len(asked) = Len(answers)
  BY <1>1 DEF RelayInv, InFlight, Quiet
<1>3. Idle' /\ Open'
  BY <1>1, <1>2 DEF Idle, Open
<1>4. InFlight'
  BY <1>1, <1>3 DEF InFlight, Quiet, Leaving, Over
<1>5. Truthful'
  BY <1>1 DEF RelayInv, Truthful
<1>6. ~InLog(NextInternalQuit)
  <2>1. DOMAIN log = 1..Len(log) /\ DOMAIN asked = 1..Len(asked) /\ Len(log) \in Nat
    BY DEF Typed, MessagesTyped
  <2>2. Len(log) = Len(asked) /\ \A i \in DOMAIN log : log[i].id = asked[i].id
    BY <1>2, <2>1 DEF Idle, RelayInv, Truthful
  <2>3. Len(asked) <= MaxRequests
    BY <1>1 DEF NothingRefused, Over
  <2> QED BY <2>1, <2>2, <2>3, QuitIsFresh DEF InLog
<1>7. FreshIds'
  BY <1>1, <1>2, <1>6 DEF RelayInv, FreshIds, InLog, Idle
<1> QED BY <1>4, <1>5, <1>7 DEF RelayInv

LEMMA SendKeepsRelay ==
    ASSUME Typed, RelayInv, Send
    PROVE  RelayInv'
<1>1. /\ pc = "send"
      /\ UNCHANGED <<asked, current, response, log, answers>>
      /\ \/ control' = Append(control, current) /\ pc' = "receive"
         \/ /\ control' \in {control, Append(control, current)} /\ faulty' = TRUE
            /\ IF current.internal THEN pc' = "receive" ELSE pc' = "cleanup"
  BY DEF Send, GoTo, Fail
<1>2. Open /\ Idle
  BY <1>1 DEF RelayInv, InFlight
<1>3. Append(control, current) = <<current>>
  BY <1>2 DEF Idle, Typed, MessagesTyped
<1>4. Open'
  BY <1>1, <1>2 DEF Open
<1>5. Sent' \/ (faulty' /\ Idle')
  BY <1>1, <1>2, <1>3 DEF Sent, Idle
<1>6. control' = <<>> \/ control' = <<current>>
  BY <1>1, <1>2, <1>3 DEF Idle
<1>7. InFlight'
  <2>1. CASE pc' = "receive"
    <3>1. Sent' \/ (current'.internal /\ faulty' /\ Idle')
      BY <1>1, <1>2, <1>3, <2>1 DEF Sent, Idle
    <3> QED BY <1>4, <2>1, <3>1 DEF InFlight, Quiet, Leaving, Over
  <2>2. CASE pc' = "cleanup"
    <3>1. Len(control') \in 0..1
      <4>1. Len(<<>>) = 0 /\ Len(<<current>>) = 1
        OBVIOUS
      <4> QED BY <1>6, <4>1
    <3>2. Len(asked) \in {Len(answers), Len(answers) + 1} /\ Len(log) = Len(answers)
          /\ Len(answers) \in Nat /\ Len(control') \in Nat
      BY <1>2, <1>6, PipeLengths
    <3>3. Len(control') <= 1
      <4> DEFINE k == Len(control')
      <4>1. k \in 0..1
        BY <3>1
      <4> HIDE DEF k
      <4>2. k <= 1
        BY <4>1
      <4> QED BY <4>2 DEF k
    <3>4. /\ Len(answers) <= Len(asked) /\ Len(asked) <= Len(answers) + 1
          /\ Len(log) <= Len(answers) + 1
      BY <3>2
    <3>5. pc' \in Over
      BY <2>2 DEF Over
    <3> QED BY <1>1, <3>2, <3>3, <3>4, <3>5, OverInFlight
  <2> QED BY <1>1, <2>1, <2>2
<1>8. Truthful'
  BY <1>1 DEF RelayInv, Truthful
<1>9. FreshIds'
  BY <1>1, <1>6 DEF RelayInv, FreshIds, InLog
<1> QED BY <1>7, <1>8, <1>9 DEF RelayInv

LEMMA WriteKeepsRelay ==
    ASSUME Typed, RelayInv, Write
    PROVE  RelayInv'
<1> DEFINE n == Len(answers)
           answer == Answer(Head(response).ok)
<1>1. /\ pc = "write" /\ response' = Tail(response)
      /\ UNCHANGED <<asked, current, control, log>>
      /\ \/ answers' = Append(answers, answer) /\ pc' \in {"check", "finish", "cleanup"}
         \/ answers' = answers /\ pc' = "cleanup"
  <2>1. \A p : p \in {"check", "finish", "cleanup"} <=> p = "check" \/ p = "finish" \/ p = "cleanup"
    OBVIOUS
  <2> QED BY <2>1, Zenon DEF Write, GoTo, Fail, Late
<1>2. ~current.internal /\ Open /\ Served
  BY <1>1 DEF RelayInv, InFlight
<1>3. /\ n \in Nat /\ DOMAIN answers = 1..n
      /\ Len(log) = n + 1 /\ DOMAIN log = 1..n + 1
      /\ Len(asked) = n + 1
  BY <1>2 DEF Open, Served, Typed, MessagesTyped
<1>4. /\ response' = <<>> /\ answer = [id |-> current.id, ok |-> log[n + 1].done]
  BY <1>1, <1>2, <1>3 DEF Served, Answer
<1>5. answer \in Replies
  <2>1. log[n + 1] \in Entries /\ current \in Current
    BY <1>3 DEF Typed, MessagesTyped
  <2> QED BY <1>4, <2>1 DEF Entries, Replies, Current
<1>6. /\ log[n + 1].id = asked[n + 1].id /\ log[n + 1].cmd = asked[n + 1].cmd
      /\ current.id = asked[n + 1].id
  BY <1>2, <1>3 DEF Open, Served
<1>7. CASE answers' = Append(answers, answer) /\ pc' \in {"check", "finish", "cleanup"}
  <2>1. /\ Len(answers') = n + 1 /\ answers'[n + 1] = answer /\ DOMAIN answers' = 1..n + 1
        /\ \A i \in 1..n : answers'[i] = answers[i]
    BY <1>3, <1>5, <1>7 DEF Typed, MessagesTyped
  <2>2. Idle'
    BY <1>1, <1>2, <1>3, <1>4, <2>1 DEF Idle, Served
  <2>3. InFlight'
    <3>1. Len(asked') = Len(answers') /\ ~current'.internal
      BY <1>1, <1>2, <1>3, <2>1
    <3>2. Len(control') = 0 /\ Len(log') = Len(answers')
      BY <2>2 DEF Idle
    <3> QED BY <1>3, <1>7, <2>1, <2>2, <3>1, <3>2 DEF InFlight, Quiet, Leaving, Over
  <2>4. Truthful'
    <3>1. \A i \in DOMAIN log' : i <= Len(answers') =>
             log'[i].id = asked'[i].id /\ log'[i].cmd = asked'[i].cmd
      <4>1. \A i \in 1..n : log[i].id = asked[i].id /\ log[i].cmd = asked[i].cmd
        BY <1>3 DEF RelayInv, Truthful
      <4> QED BY <1>1, <1>3, <1>6, <2>1, <4>1
    <3>2. \A i \in 1..n : /\ answers[i].id = asked[i].id
                          /\ answers[i].ok => i \in DOMAIN log /\ log[i].done
      BY <1>3 DEF RelayInv, Truthful
    <3>3. answer.id = asked[n + 1].id /\ (answer.ok => log[n + 1].done)
      BY <1>4, <1>6
    <3> HIDE DEF answer
    <3>4. \A i \in DOMAIN answers' :
             /\ answers'[i].id = asked'[i].id
             /\ answers'[i].ok => i \in DOMAIN log' /\ log'[i].done
      BY <1>1, <1>3, <2>1, <3>2, <3>3
    <3> QED BY <3>1, <3>4 DEF Truthful
  <2>5. FreshIds'
    BY <1>1, <1>2, <1>7 DEF RelayInv, FreshIds, InLog, Served
  <2> QED BY <2>3, <2>4, <2>5 DEF RelayInv
<1>8. CASE answers' = answers /\ pc' = "cleanup"
  <2>1. InFlight'
    <3>1. Len(control') = 0
      BY <1>1, <1>2 DEF Served
    <3> QED BY <1>1, <1>3, <1>8, <3>1 DEF InFlight, Quiet, Leaving, Over
  <2>2. Truthful'
    BY <1>1, <1>8 DEF RelayInv, Truthful
  <2>3. FreshIds'
    BY <1>1, <1>2, <1>8 DEF RelayInv, FreshIds, InLog, Served
  <2> QED BY <2>1, <2>2, <2>3 DEF RelayInv
<1> QED BY <1>1, <1>7, <1>8

LEMMA RejectKeepsRelay ==
    ASSUME Typed, RelayInv, Reject
    PROVE  RelayInv'
<1> DEFINE n == Len(answers)
           answer == Answer(FALSE)
<1>1. /\ pc = "reject" /\ pc' = "cleanup"
      /\ answers' = answers \/ answers' = Append(answers, answer)
      /\ UNCHANGED <<asked, current, control, response, log>>
  BY Zenon DEF Reject, Fail
<1>2. ~current.internal /\ Open /\ Idle
  BY <1>1 DEF RelayInv, InFlight
<1>3. /\ n \in Nat /\ DOMAIN answers = 1..n
      /\ Len(log) = n /\ DOMAIN log = 1..n /\ Len(control) = 0
      /\ Len(asked) = n + 1 /\ asked[n + 1].id = current.id
  BY <1>2 DEF Open, Idle, Typed, MessagesTyped
<1>4. answer \in Replies /\ answer.id = current.id /\ answer.ok = FALSE
  BY AnswerTyped, Zenon DEF Answer
<1> HIDE DEF answer
<1>5. /\ Len(answers') \in {n, n + 1} /\ DOMAIN answers' = 1..Len(answers')
      /\ Len(answers') = n + 1 => answers'[n + 1] = answer
      /\ \A i \in 1..n : answers'[i] = answers[i]
  BY <1>1, <1>3, <1>4 DEF Typed, MessagesTyped
<1>6. InFlight'
  <2> DEFINE k == Len(answers')
  <2>1. k <= n + 1 /\ n + 1 <= k + 1 /\ n <= k + 1
    <3>1. n \in Nat /\ k \in {n, n + 1}
      BY <1>3, <1>5, Zenon
    <3> HIDE DEF n, k
    <3> QED BY <3>1
  <2>2. pc' \in Over
    BY <1>1 DEF Over
  <2> QED BY <1>1, <1>3, <2>1, <2>2, OverInFlight
<1>7. Truthful'
  <2>1. \A i \in DOMAIN log : log[i].id = asked[i].id /\ log[i].cmd = asked[i].cmd
    BY <1>3 DEF RelayInv, Truthful
  <2>2. \A i \in 1..n : /\ answers[i].id = asked[i].id
                        /\ answers[i].ok => i \in DOMAIN log /\ log[i].done
    BY <1>3 DEF RelayInv, Truthful
  <2>3. \A i \in DOMAIN answers' :
           /\ answers'[i].id = asked'[i].id
           /\ answers'[i].ok => i \in DOMAIN log' /\ log'[i].done
    <3>1. TAKE i \in DOMAIN answers'
    <3>2. CASE i \in 1..n
      BY <1>1, <1>5, <2>2, <3>2, Zenon
    <3>3. CASE i = n + 1 /\ Len(answers') = n + 1
      BY <1>1, <1>3, <1>4, <1>5, <3>3
    <3>4. i \in 1..n \/ (i = n + 1 /\ Len(answers') = n + 1)
      <4> DEFINE k == Len(answers')
      <4>1. n \in Nat /\ k \in {n, n + 1} /\ i \in 1..k
        BY <1>3, <1>5, Zenon
      <4> HIDE DEF n, k
      <4>2. i \in 1..n \/ (i = n + 1 /\ k = n + 1)
        BY <4>1
      <4> QED BY <4>2 DEF k
    <3> QED BY <3>2, <3>3, <3>4
  <2> QED BY <1>1, <2>1, <2>3 DEF Truthful
<1>8. FreshIds'
  BY <1>1 DEF RelayInv, FreshIds, InLog
<1> QED BY <1>6, <1>7, <1>8 DEF RelayInv

\* The authority has at most one request to read.
LEMMA ServedOne ==
    ASSUME Typed, RelayInv, control # <<>>
    PROVE  /\ pc \in {"receive"} \union Leaving \union Over
           /\ pc \notin Over => Sent
           /\ Len(control) = 1 /\ Len(log) = Len(answers)
<1> DEFINE n == Len(answers)
           m == Len(log)
<1>1. pc \in {"receive"} \union Leaving \union Over
  BY DEF RelayInv, InFlight, Idle, Served, Typed, PlacesTyped, Relaying
<1>2. CASE pc \in Over
  <2> DEFINE k == Len(control)
  <2>1. k <= 1 /\ (k = 1 => m = n)
    BY <1>2 DEF RelayInv, InFlight
  <2>2. k # 0 /\ k \in Nat
    BY DEF Typed, MessagesTyped
  <2> HIDE DEF k, m, n
  <2>3. k = 1
    BY <2>1, <2>2
  <2> QED BY <1>1, <1>2, <2>1, <2>3 DEF k, m, n
<1>3. CASE pc \notin Over
  <2>1. Sent
    BY <1>1, <1>3 DEF RelayInv, InFlight, Idle, Served, Sent
  <2>2. Len(control) = 1 /\ Len(log) = Len(answers)
    BY <2>1, PipeLengths
  <2> QED BY <1>1, <1>3, <2>1, <2>2
<1> QED BY <1>2, <1>3

LEMMA ServeKeepsRelay ==
    ASSUME Typed, RelayInv, Serve
    PROVE  RelayInv'
<1> DEFINE n == Len(answers)
           m == Len(log)
<1>1. PICK ok \in BOOLEAN : Serves(ok)
  BY ServeEffect
<1>2. /\ n \in Nat /\ m \in Nat /\ DOMAIN log = 1..m /\ Len(control) \in Nat
  BY DEF Typed, MessagesTyped
<1>4. pc \in {"receive"} \union Leaving \union Over /\ (pc \notin Over => Sent)
  BY <1>1, ServedOne DEF Serves
<1>5. Len(control) = 1 /\ m = n
  BY <1>1, ServedOne DEF Serves
<1> DEFINE request == control[1]
<1>6. /\ control' = <<>> /\ Head(control) = request /\ request \in Current
  <2>1. Len(control) = 1 /\ control \in Seq(Current) /\ control' = Tail(control)
    BY <1>1, <1>5 DEF Serves, Typed, MessagesTyped
  <2>2. control' = <<>>
    BY <2>1, TailOfOne
  <2>3. Head(control) = request /\ request \in Current
    BY <2>1, SMTT(30)
  <2> QED BY <2>2, <2>3
<1>7. [id |-> request.id, cmd |-> request.cmd, done |-> ok] \in Entries
  BY <1>6 DEF Current, Entries
<1>8. /\ Len(log') = m + 1 /\ DOMAIN log' = 1..m + 1
      /\ log'[m + 1] = [id |-> request.id, cmd |-> request.cmd, done |-> ok]
      /\ \A i \in 1..m : log'[i] = log[i]
  BY <1>1, <1>6, <1>7 DEF Serves, Typed, MessagesTyped
<1>9. InFlight'
  <2>1. CASE pc \in Over
    <3>1. /\ Len(control') = 0 /\ Len(log') <= n + 1 /\ UNCHANGED <<pc, asked, answers>>
      BY <1>1, <1>2, <1>5, <1>6, <1>8 DEF Serves
    <3>2. Len(answers) <= Len(asked) /\ Len(asked) <= Len(answers) + 1
      BY <2>1 DEF RelayInv, InFlight
    <3> QED BY <1>2, <1>8, <2>1, <3>1, <3>2, OverInFlight
  <2>2. CASE pc \notin Over
    <3>1. Sent
      BY <1>4, <2>2
    <3>2. Served'
      BY <1>1, <1>2, <1>6, <1>8, <3>1 DEF Serves, Sent, Served
    <3>3. Open' = Open
      BY <1>1 DEF Serves, Open
    <3>4. pc \in Leaving => current.internal
      BY <1>1, <2>2 DEF Serves, RelayInv, InFlight, Idle
    <3> QED BY <1>1, <1>4, <2>2, <3>2, <3>3, <3>4
           DEF Serves, RelayInv, InFlight, Quiet, Leaving, Over
  <2> QED BY <2>1, <2>2
<1>10. Truthful'
  <2>1. \A i \in DOMAIN log' : i <= n => i \in DOMAIN log /\ log'[i] = log[i]
    BY <1>2, <1>5, <1>8
  <2>2. \A i \in DOMAIN log : i \in DOMAIN log' /\ log'[i] = log[i]
    BY <1>2, <1>8
  <2> QED BY <1>1, <2>1, <2>2 DEF Serves, RelayInv, Truthful
<1>11. FreshIds'
  <2>1. ~InLog(request.id)
    BY <1>1 DEF Serves, RelayInv, FreshIds
  <2>2. \A i, j \in DOMAIN log' : log'[i].id = log'[j].id => i = j
    BY <1>2, <1>8, <2>1 DEF RelayInv, FreshIds, InLog
  <2>3. pc' # "send"
    BY <1>1, <1>4 DEF Serves, Leaving, Over
  <2> QED BY <1>6, <2>2, <2>3 DEF FreshIds
<1> QED BY <1>9, <1>10, <1>11 DEF RelayInv

LEMMA RelayStep ==
    ASSUME Typed, RelayInv, NothingRefused, Next
    PROVE  RelayInv'
BY Steps, TakeRequestKeepsRelay, TakeEndKeepsRelay, SendKeepsRelay, WriteKeepsRelay,
   RejectKeepsRelay, ServeKeepsRelay, OthersKeepRelay

-----------------------------------------------------------------------------
(* The stages of a session and its exit code *)

\* What the steps of the other processes leave alone.
LEMMA ChildrenStay ==
    ASSUME Children
    PROVE  /\ UNCHANGED <<mode, pc, result, terminated, asked, current, answers>>
           /\ authority = "ok" => authority' = "ok"
           /\ peer = "ok" => peer' = "ok"
           /\ receipts = "whole" => receipts' = "whole"
<1>1. CASE Publish \/ Serve \/ ControlEnds \/ AuthorityExits \/ AuthorityLeaves
  BY <1>1 DEF Publish, Serve, ControlEnds, AuthorityExits, AuthorityLeaves, relay
<1>2. CASE Receipt \/ ReceiptsEnd \/ OrphanExits
  <2>1. /\ UNCHANGED <<mode, pc, result, terminated, relay, authority, peer>>
        /\ receipts' = receipts \/ receipts \in {"reading", "complete"}
    BY <1>2, Zenon DEF Receipt, ReceiptsEnd, OrphanExits
  <2> QED BY <2>1 DEF relay
<1>3. CASE PeerExits
  <2>1. /\ peer = "running"
        /\ UNCHANGED <<mode, pc, result, terminated, authority, receipts, relay>>
    BY <1>3, Zenon DEF PeerExits
  <2> QED BY <2>1 DEF relay
<1>4. CASE Kill
  <2>1. /\ UNCHANGED <<mode, pc, result, terminated, receipts, relay>>
        /\ authority' = authority \/ authority = "running"
        /\ peer' = peer \/ peer = "running"
    BY <1>4, Zenon DEF Kill
  <2> QED BY <2>1 DEF relay
<1> QED BY <1>1, <1>2, <1>3, <1>4 DEF Children

LEMMA StageStep ==
    ASSUME PlacesTyped, Stage, Next
    PROVE  Stage'
<1> USE DEF Stage, Quiet, Leaving, Over, Relaying, process, GoTo, Fail, Late
<1>1. CASE Harness
  BY <1>1 DEF Harness, TakeRequest, TakeGarbage, TakeEnd
<1>2. CASE Supervisor
  <2>1. CASE Start \/ Ready \/ NotReady \/ Spawn \/ PeerDone \/ AuthorityGone
    BY <2>1 DEF Start, Ready, NotReady, Spawn, PeerDone, AuthorityGone, PlacesTyped
  <2>2. CASE Check \/ CheckAgain
    <3>1. /\ pc \in {"check", "input"}
          /\ \/ pc' = "input" /\ result' = result
             \/ pc' = "cleanup" /\ result' = "err"
          /\ UNCHANGED <<mode, authority, peer, terminated>>
      BY <2>2, Zenon DEF Check, CheckAgain
    <3> QED BY <3>1
  <2>3. CASE Send
    BY <2>3 DEF Send
  <2>4. CASE Write
    BY <2>4 DEF Write
  <2>5. CASE Reject
    BY <2>5 DEF Reject
  <2>6. CASE Receive \/ ReceiveNothing \/ ReceiveLate
    BY <2>6 DEF Receive, ReceiveNothing, ReceiveLate, Received
  <2>7. CASE Finish \/ WaitForAuthority \/ WaitForPeer \/ WaitForReceipts
    BY <2>7 DEF Finish, WaitForAuthority, WaitForPeer, WaitForReceipts
  <2>8. CASE Cleanup
    <3>1. pc' \in {"terminate", "exited"}
      BY <2>8, Zenon DEF Cleanup
    <3> QED BY <3>1
  <2>9. CASE Terminated \/ TerminateLate
    <3>1. pc' = "exited"
      BY <2>9, Zenon DEF Terminated, TerminateLate
    <3> QED BY <3>1
  <2>10. CASE Expire
    BY <2>10 DEF Expire
  <2> QED BY ZenonT(30), <1>2, <2>1, <2>2, <2>3, <2>4, <2>5, <2>6, <2>7, <2>8, <2>9, <2>10
          DEF Supervisor
<1>3. CASE Children
  <2>1. /\ UNCHANGED <<mode, pc, result, terminated>>
        /\ authority = "ok" => authority' = "ok"
        /\ peer = "ok" => peer' = "ok"
    BY <1>3, ChildrenStay
  <2> QED BY <2>1
<1>4. CASE UNCHANGED svars
  BY <1>4 DEF svars
<1> QED BY <1>1, <1>2, <1>3, <1>4 DEF Next

\* The result is only ever set to "ok" where both sessions end, and then kept by
\* the cleanup.
LEMMA ResultOk ==
    ASSUME PlacesTyped, Stage, Next, result' = "ok"
    PROVE  \/ PeerDone \/ WaitForReceipts
           \/ result = "ok" /\ (Cleanup \/ Terminated \/ (Children /\ ~Exited)
                                 \/ UNCHANGED svars)
<1> USE DEF Stage, Quiet, Leaving, Over, Relaying, GoTo, Fail, Late
<1>1. ~Harness
  BY DEF Harness, TakeRequest, TakeGarbage, TakeEnd
<1>2. ~ (Start \/ Ready \/ NotReady \/ Spawn \/ AuthorityGone)
  BY DEF Start, Ready, NotReady, Spawn, AuthorityGone
<1>3. ~ (Check \/ CheckAgain)
  <2>1. Check \/ CheckAgain => pc \in {"check", "input"} /\ (result' = result \/ result' = "err")
    BY Zenon DEF Check, CheckAgain
  <2> QED BY <2>1
<1>4. ~ (Send \/ Write \/ Reject)
  BY DEF Send, Write, Reject
<1>5. ~ (Receive \/ ReceiveNothing \/ ReceiveLate)
  BY DEF Receive, ReceiveNothing, ReceiveLate, Received
<1>6. ~ (Finish \/ WaitForAuthority \/ WaitForPeer)
  BY DEF Finish, WaitForAuthority, WaitForPeer
<1>7. ~ (TerminateLate \/ Expire)
  BY DEF TerminateLate, Expire
<1>8. Cleanup \/ Terminated => result = "ok"
  BY Zenon DEF Cleanup, Terminated
<1>9. Children \/ UNCHANGED svars => result = "ok"
  BY ChildrenStay DEF svars
<1> QED BY <1>1, <1>2, <1>3, <1>4, <1>5, <1>6, <1>7, <1>8, <1>9
    DEF Next, Supervisor

LEMMA ZeroStep ==
    ASSUME Typed, InFlight, Stage, ZeroInv, Next
    PROVE  ZeroInv'
<1>1. pc' \in Over => result' \in {"ok", "err"}
  <2> USE DEF Stage, ZeroInv, Quiet, Leaving, Over, Relaying, GoTo, Fail, Late
  <2>1. Harness => pc' \notin Over \/ result' = "err"
    BY DEF Harness, TakeRequest, TakeGarbage, TakeEnd
  <2>2. Start \/ Ready \/ NotReady \/ Spawn \/ PeerDone \/ AuthorityGone
          => pc' \notin Over \/ result' \in {"ok", "err"}
    BY DEF Start, Ready, NotReady, Spawn, PeerDone, AuthorityGone
  <2>3. Check \/ CheckAgain => pc' = "input" \/ result' = "err"
    BY Zenon DEF Check, CheckAgain
  <2>4. Send \/ Write \/ Reject => pc' \notin Over \/ result' = "err"
    BY Zenon DEF Send, Write, Reject
  <2>5. Receive \/ ReceiveNothing \/ ReceiveLate => pc' \notin Over \/ result' = "err"
    BY DEF Receive, ReceiveNothing, ReceiveLate, Received
  <2>6. Finish \/ WaitForAuthority \/ WaitForPeer \/ WaitForReceipts
          => pc' \notin Over \/ result' \in {"ok", "err"}
    BY DEF Finish, WaitForAuthority, WaitForPeer, WaitForReceipts
  <2>7. TerminateLate \/ Expire => result' = "err"
    BY DEF TerminateLate, Expire
  <2>8. Cleanup \/ Terminated => pc \in Over /\ result' = result
    <3>1. Cleanup \/ Terminated => (pc = "cleanup" \/ pc = "terminate") /\ result' = result
      BY Zenon DEF Cleanup, Terminated
    <3> QED BY <3>1
  <2>9. Children \/ UNCHANGED svars => pc' = pc /\ result' = result
    BY ChildrenStay DEF svars
  <2> QED BY <2>1, <2>2, <2>3, <2>4, <2>5, <2>6, <2>7, <2>8, <2>9 DEF Next, Supervisor
<1>2. ASSUME result' = "ok"
      PROVE  /\ peer' = "ok"
             /\ mode' = "live" => /\ authority' = "ok" /\ receipts' = "whole"
                                  /\ Len(answers') = Len(asked')
             /\ pc' = "exited" => ~Active'
  <2>1. CASE PeerDone
    BY <1>2, <2>1 DEF PeerDone, Stage, process, Fail
  <2>2. CASE WaitForReceipts
    <3>1. /\ pc = "wait_receipts" /\ pc' = "cleanup" /\ receipts = "whole"
          /\ UNCHANGED <<mode, process, relay>>
      BY <1>2, <2>2 DEF WaitForReceipts, Fail
    <3>2. Len(asked) = Len(answers) /\ authority = "ok" /\ peer = "ok"
      BY <3>1 DEF InFlight, Stage, Leaving
    <3> QED BY <3>1, <3>2 DEF process, relay
  <2>3. CASE result = "ok" /\ (Cleanup \/ Terminated)
    <3>1. /\ UNCHANGED <<mode, process, relay>>
          /\ pc' = "exited" => ~Active
      <4>1. "terminate" # "exited"
        OBVIOUS
      <4> QED BY <2>3, <4>1, Zenon DEF Cleanup, Terminated, GoTo
    <3>2. Active' = Active
      BY <3>1 DEF Active, process
    <3> QED BY <2>3, <3>1, <3>2 DEF ZeroInv, process, relay
  <2>4. CASE result = "ok" /\ Children /\ ~Exited
    BY <2>4, ChildrenStay DEF ZeroInv, Exited
  <2>5. CASE result = "ok" /\ UNCHANGED svars
    <3>1. Active' = Active
      BY <2>5 DEF Active, svars, process
    <3> QED BY <2>5, <3>1 DEF ZeroInv, svars, process, relay
  <2> QED BY <1>2, <2>1, <2>2, <2>3, <2>4, <2>5, ResultOk DEF Typed
<1> QED BY <1>1, <1>2 DEF ZeroInv

-----------------------------------------------------------------------------
(* While nobody is at fault *)

LEMMA ExcusedStays ==
    ASSUME Typed, InFlight, Next, Excused
    PROVE  Excused'
<1>1. CASE \E r \in Requests : TakeRequest(r)
  <2>1. pc = "input" /\ (faulty' = TRUE \/ faulty' = faulty)
    BY <1>1 DEF TakeRequest
  <2>2. ~current.internal
    BY <2>1 DEF InFlight, Quiet
  <2> QED BY <2>1, <2>2, Zenon DEF Excused
<1>2. CASE TakeEnd
  <2>1. pc = "input" /\ faulty' = faulty
    BY <1>2 DEF TakeEnd
  <2>2. ~current.internal
    BY <2>1 DEF InFlight, Quiet
  <2> QED BY <2>1, <2>2, Zenon DEF Excused
<1>3. CASE Send \/ Write \/ Reject \/ Serve
  <2>1. UNCHANGED <<asked, current>> /\ (faulty' = TRUE \/ faulty' = faulty)
    BY <1>3, Zenon DEF Send, Write, Reject, Serve, Late
  <2> QED BY <2>1, Zenon DEF Excused
<1>4. CASE OtherSteps
  <2>1. UNCHANGED <<asked, current>>
    BY <1>4, OthersLeaveRelay DEF relay
  <2>2. faulty => faulty'
    BY <1>4, OthersMove DEF Typed
  <2> QED BY <2>1, <2>2, Zenon DEF Excused
<1>5. CASE UNCHANGED svars
  BY <1>5, Zenon DEF svars, relay, Excused
<1> QED BY <1>1, <1>2, <1>3, <1>4, <1>5, Steps

\* What the authority has logged it has logged from the supervisor's own list,
\* so it refuses nothing the supervisor let through.
LEMMA LetThroughTwice ==
    ASSUME Typed, RelayInv, pc = "input", NEW request,
           ~InLog(request.id), Len(asked) < MaxRequests,
           ~ (request.cmd = "capture" /\ Captured(asked))
    PROVE  ~AuthorityRefuses(request)
<1>1. Idle /\ Len(asked) = Len(answers)
  BY DEF RelayInv, InFlight, Quiet
<1>2. Len(log) = Len(asked) /\ Len(log) \in Nat
  BY <1>1 DEF Idle, Typed, MessagesTyped
<1>3. DOMAIN log = DOMAIN asked /\ \A i \in DOMAIN log : log[i].cmd = asked[i].cmd
  BY <1>1, <1>2 DEF RelayInv, Truthful, Typed, MessagesTyped
<1>4. Captured(log) => Captured(asked)
  BY <1>3 DEF Captured
<1>5. ~ (Len(log) >= MaxRequests)
  BY <1>2, SupervisionBounds
<1> QED BY <1>4, <1>5 DEF AuthorityRefuses, InLog

LEMMA RefusedStep ==
    ASSUME Typed, RelayInv, RelayInv', NothingRefused, Next
    PROVE  NothingRefused'
<1>0. Excused => Excused'
  BY ExcusedStays DEF RelayInv
<1>1. ASSUME NEW r \in Requests, TakeRequest(r) PROVE NothingRefused'
  <2>1. /\ pc = "input" /\ asked' = Append(asked, r)
        /\ current' = [id |-> r.id, cmd |-> r.cmd, internal |-> FALSE]
        /\ \/ pc' = "reject" /\ faulty' = TRUE
           \/ pc' = "send" /\ ~Refused(r)
        /\ UNCHANGED <<control, log, answers>>
    BY <1>1 DEF TakeRequest, GoTo
  <2>2. Len(asked') = Len(asked) + 1 /\ Len(asked) \in Nat
    BY <2>1 DEF Typed, MessagesTyped
  <2>3. control = <<>> /\ Len(log) = Len(answers) /\ Len(log) \in Nat
    BY <2>1 DEF RelayInv, InFlight, Quiet, Idle, Typed, MessagesTyped
  <2>4. CASE pc' = "reject" /\ faulty' = TRUE
    BY <2>4 DEF NothingRefused, Excused, Over
  <2>5. CASE pc' = "send" /\ ~Refused(r)
    <3>1. ~ (Len(asked) >= MaxRequests) /\ ~ (r.cmd = "capture" /\ Captured(asked))
      BY <2>5 DEF Refused
    <3>2. Len(asked) < MaxRequests /\ Len(asked') <= MaxRequests
      BY <2>2, <3>1, SupervisionBounds
    <3>3. ~InLog(r.id)
      <4>1. ~InLog(current.id)'
        BY <2>5 DEF RelayInv, FreshIds
      <4> QED BY <2>1, <4>1 DEF InLog
    <3>4. ~AuthorityRefuses(r)
      BY <2>1, <3>1, <3>2, <3>3, LetThroughTwice
    <3>5. ~AuthorityRefuses(current)'
      BY <2>1, <3>4 DEF AuthorityRefuses
    <3>6. ~ (Len(log') > Len(answers'))
      BY <2>1, <2>3
    <3> QED BY <2>1, <2>3, <2>5, <3>2, <3>5, <3>6 DEF NothingRefused, Over
  <2> QED BY <2>1, <2>4, <2>5, Zenon
<1>2. CASE TakeEnd
  <2>1. /\ pc = "input" /\ pc' = "send"
        /\ current' = [id |-> NextInternalQuit, cmd |-> "quit", internal |-> TRUE]
        /\ UNCHANGED <<asked, control, log, answers>>
    BY <1>2 DEF TakeEnd, GoTo
  <2>2. control = <<>> /\ Len(log) = Len(answers) /\ Len(log) \in Nat
    BY <2>1 DEF RelayInv, InFlight, Quiet, Idle, Typed, MessagesTyped
  <2>3. Len(asked) <= MaxRequests /\ Len(asked) \in Nat
    BY <2>1 DEF NothingRefused, Over, Typed, MessagesTyped
  <2>4. ~Excused' => ~AuthorityRefuses(current)'
    <3> SUFFICES ASSUME ~Excused' PROVE ~AuthorityRefuses(current)'
      OBVIOUS
    <3>1. Len(asked) < MaxRequests
      BY <2>1, <2>3, SupervisionBounds DEF Excused
    <3>2. ~InLog(NextInternalQuit)
      <4>1. ~InLog(current.id)'
        BY <2>1 DEF RelayInv, FreshIds
      <4> QED BY <2>1, <4>1 DEF InLog
    <3>3. ~AuthorityRefuses(current')
      BY <2>1, <3>1, <3>2, LetThroughTwice
    <3> QED BY <2>1, <3>3 DEF AuthorityRefuses
  <2>5. ~ (Len(log') > Len(answers'))
    BY <2>1, <2>2
  <2> QED BY <2>1, <2>2, <2>3, <2>4, <2>5 DEF NothingRefused, Over
<1>3. CASE Send
  <2>1. /\ pc = "send" /\ pc' \in {"receive", "cleanup"}
        /\ control' \in {control, Append(control, current)}
        /\ UNCHANGED <<asked, current, log, answers>>
    BY <1>3 DEF Send, GoTo, Fail
  <2>2. Idle /\ Append(control, current) = <<current>>
    BY <2>1 DEF RelayInv, InFlight, Idle, Typed, MessagesTyped
  <2>3. control' = <<>> \/ control' = <<current>>
    BY <2>1, <2>2 DEF Idle
  <2>4. control' # <<>> => control'[1] = current
    BY <2>3
  <2>5. ~Excused' => ~AuthorityRefuses(current)
    BY <1>0, <2>1 DEF NothingRefused
  <2>6. control' # <<>> /\ ~Excused' => ~AuthorityRefuses(control[1])'
    BY <2>1, <2>4, <2>5 DEF AuthorityRefuses
  <2>7. ~ (Len(log') > Len(answers'))
    BY <2>1, <2>2 DEF Idle, Typed, MessagesTyped
  <2> QED BY <1>0, <2>1, <2>6, <2>7 DEF NothingRefused, Over
<1>4. CASE Write
  <2>1. /\ pc = "write" /\ pc' \in {"check", "finish", "cleanup"}
        /\ UNCHANGED <<asked, control, log>>
        /\ \/ answers' = Append(answers, Answer(Head(response).ok))
           \/ faulty' = TRUE
    BY <1>4 DEF Write, GoTo, Fail, Late
  <2>2. Served
    BY <2>1 DEF RelayInv, InFlight
  <2>3. ~Excused' => Len(log') = Len(answers')
    <3> SUFFICES ASSUME ~Excused' PROVE Len(log') = Len(answers')
      OBVIOUS
    <3>1. answers' = Append(answers, Answer(Head(response).ok))
      BY <2>1 DEF Excused
    <3>2. Len(answers') = Len(answers) + 1
      BY <3>1 DEF Typed, MessagesTyped
    <3> QED BY <2>1, <2>2, <3>2 DEF Served
  <2>4. ~Excused' => ~ (Len(log') > Len(answers'))
    BY <2>1, <2>3 DEF Typed, MessagesTyped
  <2> QED BY <2>1, <2>2, <2>4 DEF NothingRefused, Over, Served
<1>5. CASE Reject
  <2>1. pc = "reject" /\ pc' = "cleanup"
    BY <1>5 DEF Reject, Fail
  <2>2. Excused'
    BY <1>0, <2>1 DEF NothingRefused
  <2> QED BY <2>1, <2>2 DEF NothingRefused, Over
<1>6. CASE Serve
  <2>1. PICK ok \in BOOLEAN : Serves(ok)
    BY <1>6, ServeEffect
  <2>2. control' = <<>> /\ control # <<>> /\ Head(control) = control[1]
    <3>1. Len(control) = 1 /\ control \in Seq(Current) /\ control # <<>>
      BY <2>1, ServedOne DEF Serves, Typed, MessagesTyped
    <3>2. Tail(control) = <<>>
      BY <3>1, TailOfOne
    <3> QED BY <2>1, <3>1, <3>2 DEF Serves
  <2>3. pc \notin {"reject", "send"}
    BY <2>1, ServedOne DEF Serves, Leaving, Over
  <2>4. /\ Len(log') = Len(log) + 1
        /\ log'[Len(log) + 1] = [id |-> Head(control).id, cmd |-> Head(control).cmd,
                                 done |-> ok]
    BY <2>1 DEF Serves, Typed, MessagesTyped
  <2>5. ~Excused' /\ Head(control).cmd = "quit" => ok
    <3> SUFFICES ASSUME ~Excused', Head(control).cmd = "quit" PROVE ok
      OBVIOUS
    <3>1. ~AuthorityRefuses(Head(control))
      BY <1>0, <2>2 DEF NothingRefused
    <3>2. log' = Append(log, [id |-> Head(control).id, cmd |-> Head(control).cmd,
                              done |-> TRUE])
      BY <1>6, <3>1, Zenon DEF Serve, Excused
    <3>3. log'[Len(log) + 1] = [id |-> Head(control).id, cmd |-> Head(control).cmd,
                                done |-> TRUE]
      BY <3>2 DEF Typed, MessagesTyped
    <3> QED BY <2>4, <3>3
  <2> QED BY <2>1, <2>2, <2>3, <2>4, <2>5 DEF Serves, NothingRefused
<1>7. CASE OtherSteps \/ UNCHANGED svars
  <2>1. UNCHANGED <<asked, current, control, response, log, answers>>
    BY <1>7, OthersLeaveRelay DEF relay, svars
  <2>2. OtherMoves
    BY <1>7, OthersMove DEF Typed, svars, OtherMoves
  <2>3. /\ pc' # "reject" /\ pc' \notin Over => pc # "reject" /\ pc \notin Over
        /\ pc' = "send" => pc = "send"
        /\ pc' = "reject" => pc = "reject"
    BY <2>2 DEF OtherMoves, Quiet, Leaving, Over
  <2>4. \A request : AuthorityRefuses(request)' = AuthorityRefuses(request)
    BY <2>1 DEF AuthorityRefuses
  <2> QED BY <1>0, <2>1, <2>3, <2>4 DEF NothingRefused
<1> QED BY <1>1, <1>2, <1>3, <1>4, <1>5, <1>6, <1>7, Steps

LEMMA FailedStep ==
    ASSUME Typed, Typed', RelayInv, RelayInv', Stage, NothingRefused, NobodyFailed, Next
    PROVE  NobodyFailed'
<1> SUFFICES ASSUME ~Excused' PROVE NobodyFailed'
  BY DEF NobodyFailed
<1>0. ~Excused /\ faulty' = FALSE
  BY ExcusedStays DEF RelayInv, Excused, Typed, PlacesTyped
<1>a. /\ result # "err"
      /\ terminal \in {"starting", "idle", "quitting"}
      /\ pc # "start" => authority # "none"
      /\ pc \notin Over \union {"start", "readiness", "spawn"} => peer # "none"
      /\ authority = "ok" => terminal = "quitting"
      /\ terminal = "quitting" =>
           /\ pc \in {"receive", "write"} \union Leaving \union Over
           /\ pc \in {"receive", "write"} => current.cmd = "quit" /\ Served
      /\ ~terminated =>
           /\ authority \notin {"failed", "killed"} /\ peer \notin {"failed", "killed"}
           /\ mode = "live" => /\ receipts # "bad"
                               /\ peer = "ok" => receipts \in {"complete", "whole"}
  BY <1>0 DEF NobodyFailed
<1>b. pc \notin Over => ~terminated /\ result = "none"
  BY DEF Stage
<1> USE DEF GoTo, Fail, Late
<1>1. ASSUME NEW r \in Requests, TakeRequest(r) PROVE NobodyFailed'
  <2>1. pc = "input" /\ pc' = "send" /\ UNCHANGED <<mode, result, process, terminated>>
    BY <1>0, <1>1 DEF TakeRequest
  <2> QED BY <1>a, <2>1 DEF NobodyFailed, process, Leaving, Over
<1>2. CASE TakeEnd
  <2>1. pc = "input" /\ pc' = "send" /\ UNCHANGED <<mode, result, process, terminated>>
    BY <1>2 DEF TakeEnd
  <2> QED BY <1>a, <2>1 DEF NobodyFailed, process, Leaving, Over
<1>3. CASE Send
  <2>1. pc = "send" /\ pc' = "receive" /\ UNCHANGED <<mode, result, process, terminated>>
    BY <1>0, <1>3 DEF Send
  <2> QED BY <1>a, <2>1 DEF NobodyFailed, process, Leaving, Over
<1>4. CASE Write
  <2>1. pc = "write" /\ UNCHANGED <<mode, process, terminated, current>>
    BY <1>4 DEF Write
  <2>2. Served
    BY <2>1 DEF RelayInv, InFlight
  <2>3. current.cmd = "quit" => Head(response).ok
    <3>1. Head(response).ok = log[Len(log)].done /\ log[Len(log)].cmd = current.cmd
      BY <2>2 DEF Served
    <3>2. Len(log) > Len(answers)
      BY <2>2 DEF Served, Typed, MessagesTyped
    <3> QED BY <1>0, <3>1, <3>2 DEF NothingRefused
  <2>4. /\ result' = result
        /\ \/ current.cmd = "quit" /\ pc' = "finish"
           \/ current.cmd # "quit" /\ pc' = "check"
    <3>1. Answer(Head(response).ok).ok = Head(response).ok
      BY DEF Answer
    <3>2. faulty' # TRUE
      BY <1>0
    <3> QED BY <1>4, <2>3, <3>1, <3>2, Zenon DEF Write
  <2> QED BY <1>a, <2>1, <2>4, Zenon DEF NobodyFailed, process, Leaving, Over
<1>5. CASE Reject
  BY <1>0, <1>5 DEF Reject, NothingRefused
<1>6. CASE Serve
  <2>1. PICK ok \in BOOLEAN : Serves(ok)
    BY <1>6, ServeEffect
  <2>2. /\ pc \in {"receive"} \union Leaving \union Over /\ (pc \notin Over => Sent)
    BY <2>1, ServedOne DEF Serves
  <2>7. control[1] = Head(control)
    BY <2>1 DEF Serves, Typed, MessagesTyped
  <2>3. ~AuthorityRefuses(Head(control))
    BY <1>0, <2>1, <2>7 DEF NothingRefused, Serves
  <2>4. /\ terminal = "idle"
        /\ \/ terminal' = terminal
           \/ terminal' = "quitting" /\ Head(control).cmd = "quit"
    BY <1>0, <1>6, <2>3, Zenon DEF Serve
  <2>5. pc = "receive" /\ Head(control).cmd = "quit" => current'.cmd = "quit"
    BY <2>1, <2>2, <2>7 DEF Sent, Over, Serves
  <2>6. pc = "receive" => Served'
    <3>1. control' = <<>> /\ Len(log') = Len(answers') + 1
      <4>1. Len(control) = 1 /\ Len(log) = Len(answers)
        BY <2>1, ServedOne DEF Serves
      <4>2. Len(log') = Len(log) + 1 /\ control' = Tail(control) /\ answers' = answers
        BY <2>1 DEF Serves, Typed, MessagesTyped
      <4>3. Tail(control) = <<>>
        <5>1. control \in Seq(Current) /\ Len(control) = 1
          BY <4>1 DEF Typed, MessagesTyped
        <5> QED BY <5>1, TailOfOne
      <4> QED BY <4>1, <4>2, <4>3
    <3> QED BY <1>0, <2>1, <3>1 DEF Serves, RelayInv, InFlight, Sent, Idle, Typed, MessagesTyped
  <2> QED BY <1>a, <2>1, <2>2, <2>4, <2>5, <2>6 DEF NobodyFailed, Serves, Leaving, Over
<1>7. CASE UNCHANGED svars
  <2>1. Served' = Served
    BY <1>7 DEF svars, relay, Served
  <2> QED BY <1>7, <1>a, <2>1, Zenon DEF NobodyFailed, svars, process, relay
<1>8. CASE OtherSteps /\ ~Exited
  <2>1. UNCHANGED <<asked, current, control, response, log, answers>> /\ Served' = Served
    BY <1>8, OthersLeaveRelay DEF relay, Served
  <2>2. CASE Start
    BY <1>0, <1>a, <2>2 DEF Start, NobodyFailed, Leaving, Over
  <2>15. CASE Ready \/ NotReady
    <3>1. pc = "readiness" /\ terminal # "malformed" /\ authority = "running"
      BY <1>a, <1>b, <2>15 DEF Ready, NotReady, Leaving, Over, Typed, PlacesTyped
    <3>2. pc' = "spawn" /\ UNCHANGED <<mode, result, process, terminated>>
      BY <2>15, <3>1 DEF Ready, NotReady
    <3> QED BY <1>a, <3>1, <3>2 DEF NobodyFailed, process, Leaving, Over
  <2>16. CASE Spawn
    <3>1. /\ pc = "spawn" /\ pc' \in {"check", "wait_peer"} /\ peer' = "running"
          /\ UNCHANGED <<mode, result, authority, terminal, receipts, terminated>>
      BY <1>0, <2>16, Zenon DEF Spawn
    <3> QED BY <1>a, <3>1 DEF NobodyFailed, Leaving, Over
  <2>3. CASE PeerDone \/ AuthorityGone
    BY <1>0, <1>a, <1>b, <2>3, Typed
       DEF PeerDone, AuthorityGone, NobodyFailed, process, Leaving, Over, PlacesTyped, Typed
  <2>4. CASE Check \/ CheckAgain
    <3>1. pc \in {"check", "input"}
      BY <2>4, Zenon DEF Check, CheckAgain
    <3>2. authority = "running" /\ peer # "failed" /\ receipts # "bad"
      BY <1>a, <1>b, <3>1 DEF Stage, Leaving, Over, Typed, PlacesTyped
    <3>3. ~Failing(TRUE)
      BY <3>2, Zenon DEF Failing
    <3>4. pc' = "input" /\ result' = result /\ UNCHANGED <<mode, process, terminated>>
      BY <2>4, <3>2, <3>3, Zenon DEF Check, CheckAgain
    <3> QED BY <1>a, <3>1, <3>4 DEF NobodyFailed, process, Leaving, Over
  <2>5. CASE Receive \/ ReceiveNothing \/ ReceiveLate
    <3>1. pc = "receive" /\ UNCHANGED <<mode, process, terminated>>
      BY <2>5, Zenon DEF Receive, ReceiveNothing, ReceiveLate
    <3>4. pc' \in {"finish", "write"} /\ result' = result
      <4>2. CASE current.internal
        BY <2>5, <4>2 DEF Receive, ReceiveNothing, ReceiveLate, Received
      <4>3. CASE ~current.internal
        <5>1. Sent \/ Served
          BY <3>1, <4>3 DEF RelayInv, InFlight
        <5>2. ~ReceiveLate
          BY <1>0 DEF ReceiveLate
        <5>3. ~ReceiveNothing
          <6>1. authority # "running" => terminal = "quitting"
            BY <1>a, <1>b, <3>1 DEF Over, Typed, PlacesTyped
          <6>2. authority # "running" => current.cmd = "quit" /\ response # <<>>
            <7>1. authority # "running" => current.cmd = "quit" /\ Served
              BY <1>a, <3>1, <6>1
            <7>2. Served => response # <<>>
              BY DEF Served
            <7> QED BY <7>1, <7>2
          <6>3. peer # "failed"
            BY <1>a, <1>b, <3>1 DEF Over
          <6> QED BY <6>2, <6>3, Zenon DEF ReceiveNothing, Failing
        <5>4. Receive
          BY <2>5, <5>2, <5>3
        <5>5. Head(response).id = current.id
          BY <5>1, <5>4 DEF Receive, Sent, Served
        <5> QED BY <4>3, <5>4, <5>5 DEF Receive, Received
      <4> QED BY <4>2, <4>3, Zenon
    <3> QED BY <1>a, <2>1, <3>1, <3>4 DEF NobodyFailed, process, Leaving, Over
  <2>6. CASE Finish \/ WaitForAuthority \/ WaitForPeer \/ WaitForReceipts
    BY <1>0, <1>a, <1>b, <2>6
       DEF Finish, WaitForAuthority, WaitForPeer, WaitForReceipts, NobodyFailed, process,
           Leaving, Over, Stage, Typed, PlacesTyped
  <2>7. CASE Cleanup \/ Terminated
    <3>1. /\ pc \in {"cleanup", "terminate"} /\ pc' \in {"terminate", "exited"}
          /\ result' = result /\ UNCHANGED <<mode, process>>
          /\ ~terminated' => ~terminated
      <4>1. CASE Cleanup
        <5>1. /\ pc = "cleanup" /\ (pc' = "terminate" \/ pc' = "exited")
              /\ result' = result /\ UNCHANGED <<mode, process>>
          BY <4>1, Zenon DEF Cleanup
        <5> QED BY <5>1 DEF Stage
      <4>2. CASE Terminated
        BY <4>2, Zenon DEF Terminated
      <4> QED BY <2>7, <4>1, <4>2
    <3> QED BY <1>a, <3>1 DEF NobodyFailed, process, Leaving, Over
  <2>8. CASE TakeGarbage \/ TerminateLate \/ Expire \/ AuthorityLeaves
    BY <1>0, <2>8, ZenonT(30) DEF TakeGarbage, TerminateLate, Expire, AuthorityLeaves
  <2>9. CASE Publish \/ ControlEnds \/ AuthorityExits
    BY <1>0, <1>a, <1>b, <2>1, <2>9
       DEF Publish, ControlEnds, AuthorityExits, NobodyFailed, Leaving, Over
  <2>10. CASE Receipt
    <3>1. /\ peer = "running" /\ receipts' = "complete"
          /\ UNCHANGED <<mode, pc, result, authority, terminal, peer, terminated>>
      BY <1>0, <2>10, Zenon DEF Receipt
    <3> QED BY <1>a, <2>1, <3>1 DEF NobodyFailed
  <2>11. CASE PeerExits
    <3>1. /\ peer' = "ok" /\ (mode = "live" => receipts = "complete")
          /\ UNCHANGED <<mode, pc, result, authority, terminal, receipts, terminated>>
      BY <1>0, <2>11 DEF PeerExits
    <3> QED BY <1>a, <2>1, <3>1 DEF NobodyFailed
  <2>12. CASE ReceiptsEnd
    <3>1. /\ peer \notin {"none", "running"} /\ receipts \in {"reading", "complete"}
          /\ receipts' = IF receipts = "complete" THEN "whole" ELSE "bad"
          /\ UNCHANGED <<mode, pc, result, authority, terminal, peer, terminated>>
      BY <2>12, Zenon DEF ReceiptsEnd
    <3> QED BY <1>a, <2>1, <3>1 DEF NobodyFailed, Typed, PlacesTyped
  <2>13. CASE OrphanExits
    <3>1. UNCHANGED <<mode, pc, result, authority, terminal, peer, receipts, terminated>>
      BY <2>13, Zenon DEF OrphanExits
    <3> QED BY <1>a, <2>1, <3>1 DEF NobodyFailed
  <2>14. CASE Kill
    <3>1. /\ terminated /\ UNCHANGED <<mode, pc, result, terminal, receipts, terminated>>
          /\ authority' \in {authority, "killed"} /\ peer' \in {peer, "killed"}
      BY <2>14, Zenon DEF Kill
    <3> QED BY <1>a, <2>1, <3>1 DEF NobodyFailed
  <2> QED BY ZenonT(30), <1>8, <2>2, <2>3, <2>4, <2>5, <2>6, <2>7, <2>8, <2>9, <2>10, <2>11, <2>12,
             <2>13, <2>14, <2>15, <2>16, Zenon DEF OtherSteps
<1> QED BY <1>1, <1>2, <1>3, <1>4, <1>5, <1>6, <1>7, <1>8, Steps

-----------------------------------------------------------------------------
LEMMA SupervisionInit ==
    ASSUME Init
    PROVE  SupervisionInv
<1> USE DEF Init
<1>1. Typed
  <2>1. NoRequest \in Current
    BY DEF NoRequest, Current, Commands
  <2>2. MessagesTyped
    BY <2>1 DEF MessagesTyped
  <2>3. PlacesTyped
    BY SupervisionBounds, Zenon DEF PlacesTyped, Quiet
  <2> QED BY <2>2, <2>3 DEF Typed
<1>2. RelayInv
  BY DEF RelayInv, InFlight, Truthful, FreshIds, Idle, Quiet, Leaving, Over, NoRequest
<1>3. Stage /\ ZeroInv
  BY DEF Stage, ZeroInv, Leaving, Over, Relaying
<1>4. NothingRefused /\ NobodyFailed
  BY SupervisionBounds DEF NothingRefused, NobodyFailed, Leaving, Over
<1> QED BY <1>1, <1>2, <1>3, <1>4 DEF SupervisionInv

LEMMA SupervisionStep ==
    ASSUME SupervisionInv, [Next]_svars
    PROVE  SupervisionInv'
<1>0. CASE UNCHANGED svars
  <2> USE <1>0 DEF svars, process, relay, SupervisionInv
  <2>1. Typed'
    BY DEF Typed, PlacesTyped, MessagesTyped
  <2>2. RelayInv'
    BY ZenonT(30) DEF RelayInv, InFlight, Truthful, FreshIds, Idle, Sent, Served, Open, InLog
  <2>3. Stage' /\ ZeroInv'
    BY Zenon DEF Stage, ZeroInv, Active
  <2>4. NothingRefused' /\ NobodyFailed'
    BY DEF NothingRefused, NobodyFailed, Excused, AuthorityRefuses, Captured, Served
  <2> QED BY <2>1, <2>2, <2>3, <2>4
<1>1. CASE Next
  <2>1. Typed'
    BY <1>1, MessagesStep, PlacesStep DEF SupervisionInv, Typed, RelayInv
  <2>2. RelayInv'
    BY <1>1, RelayStep DEF SupervisionInv
  <2>3. Stage' /\ ZeroInv'
    BY <1>1, StageStep, ZeroStep DEF SupervisionInv, RelayInv, Typed
  <2>4. NothingRefused'
    BY <1>1, <2>2, RefusedStep DEF SupervisionInv
  <2>5. NobodyFailed'
    BY <1>1, <2>1, <2>2, FailedStep DEF SupervisionInv
  <2> QED BY <2>1, <2>2, <2>3, <2>4, <2>5 DEF SupervisionInv
<1> QED BY <1>0, <1>1

LEMMA SupervisionInvariant == Spec => []SupervisionInv
<1>1. Init => SupervisionInv
  BY SupervisionInit
<1>2. SupervisionInv /\ [Next]_svars => SupervisionInv'
  BY SupervisionStep
<1> QED BY <1>1, <1>2, PTL DEF Spec

\* Standard output answers standard input line by line and says the truth:
\* whatever is lost, refused, late or killed, an acknowledged request was
\* carried out, the authority is never more than one request ahead, and no id
\* reaches it twice.  (run_session_inner, receive_response, next_internal_quit)
THEOREM RelayTheorem == Spec => []RelayIsFaithful
<1>1. SupervisionInv => RelayIsFaithful
  <2> SUFFICES ASSUME SupervisionInv PROVE RelayIsFaithful
    OBVIOUS
  <2>1. /\ Len(answers) <= Len(asked) /\ Len(asked) <= Len(answers) + 1
        /\ Len(log) <= Len(answers) + 1
    BY LengthBounds DEF SupervisionInv
  <2>2. DOMAIN log = 1..Len(log) /\ DOMAIN answers = 1..Len(answers)
        /\ Len(log) \in Nat /\ Len(answers) \in Nat
    BY DEF SupervisionInv, Typed, MessagesTyped
  <2>3. \A i \in DOMAIN answers :
           /\ answers[i].id = asked[i].id
           /\ answers[i].ok => i \in DOMAIN log /\ log[i].done /\ log[i].id = asked[i].id
    BY <2>2 DEF SupervisionInv, RelayInv, Truthful
  <2>4. \A i, j \in DOMAIN log : log[i].id = log[j].id => i = j
    BY DEF SupervisionInv, RelayInv, FreshIds
  <2> QED BY <2>1, <2>3, <2>4 DEF RelayIsFaithful
<1> QED BY <1>1, SupervisionInvariant, PTL

\* Exit code zero means what the command promises: the peer ended by itself with
\* zero, nothing of the job is left, and in live mode the authority ended by
\* itself with zero, the receipts are whole and every line was answered.  (run)
THEOREM ExitZeroTheorem == Spec => []ExitZeroMeansSuccess
<1>1. SupervisionInv => ExitZeroMeansSuccess
  BY DEF SupervisionInv, ZeroInv, ExitZeroMeansSuccess, Exited
<1> QED BY <1>1, SupervisionInvariant, PTL

\* Nothing but somebody else's fault makes the supervisor fail, whatever the
\* order in which children exit, answers arrive and the checks run, except that
\* its own quit is one request too many after exactly the permitted number.
\* (run_session_inner, check_processes, run_supervised_live_terminal)
THEOREM OnlyFaultsTheorem == Spec => []OnlyFaultsFail
<1>1. SupervisionInv => OnlyFaultsFail
  BY DEF SupervisionInv, NobodyFailed, OnlyFaultsFail, Excused
<1> QED BY <1>1, SupervisionInvariant, PTL
=============================================================================
