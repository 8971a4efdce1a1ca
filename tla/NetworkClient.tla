--------------------------- MODULE NetworkClient ---------------------------
(***************************************************************************)
(* The native guest transport (src/crates/stasis_network/src/client.rs).   *)
(* The application's thread calls connect, disconnect, set_background,     *)
(* poll, send and shutdown; a worker thread owns the socket.  They share   *)
(* atomics, the incoming mailbox (behind a mutex) and a bounded command    *)
(* channel.  Every store another thread can observe in between is a step   *)
(* of its own; loads and stores nobody can tell apart are one step.        *)
(* The peer, the TCP stack and the clock are nondeterministic: an attempt  *)
(* ends in any of its outcomes, a read in any of its results.              *)
(***************************************************************************)
EXTENDS Naturals, Sequences, FiniteSets, Functions

CONSTANTS
    MaxRecords,   \* MAX_EVENT_RECORDS: commands, outbound and incoming records
    MaxBytes,     \* MAX_BUFFERED_PAYLOAD
    Sizes,        \* the lengths of payloads
    MaxEpochs,    \* bound: disconnects and suspensions of a behaviour
    MaxFaults,    \* bound: failed attempts and lost connections
    MaxReceived   \* bound: messages the peer delivers

ASSUME ClientBounds ==
    /\ {MaxRecords, MaxBytes, MaxEpochs, MaxFaults, MaxReceived} \subseteq Nat
    /\ Sizes \subseteq Nat

VARIABLES
    desired, background, accepting, status, generation,  \* atomics of Shared
    outRecords, outBytes,                                \* the outbound budget
    incoming,   \* the mailbox: the generation of the socket each record came by
    commands,   \* the command channel
    api,        \* the application's thread: where it is, in which call
    worker,     \* the worker's place in worker_loop
    socket,     \* None, or the open socket
    attempt,    \* attempt_generation
    pending,    \* commands taken from the channel, not yet written
    delayed,    \* next_attempt lies in the future
    epoch,      \* how often the application has left its connection
    faults, received

shared == <<desired, background, accepting, status, generation>>
budget == <<outRecords, outBytes>>
local == <<worker, socket, attempt, pending, delayed>>
bounds == <<epoch, faults, received>>
vars == <<shared, budget, incoming, commands, api, local, bounds>>

None == [gen |-> 0, epoch |-> 0, wire |-> {}]
Disconnected == "disconnected"
Connected == "connected"
Connecting == "connecting"
InvalidCredential == "invalid_credential"

Idle == [at |-> "idle", call |-> "none"]

Active == desired /\ ~background

\* The payloads that wait in a queue, and their bytes: each payload by its
\* place in the queue, each byte by its payload and its place in that.
Sends(queue) == {i \in DOMAIN queue : queue[i].kind = "Send"}
Bytes(queue) == UNION {{i} \X (1 .. queue[i].size) : i \in Sends(queue)}
Records(queue) == Cardinality(Sends(queue))
Total(queue) == Cardinality(Bytes(queue))

ClientInit ==
    /\ desired = FALSE /\ background = FALSE /\ accepting = FALSE
    /\ status = Disconnected /\ generation = 1
    /\ outRecords = 0 /\ outBytes = 0
    /\ incoming = <<>> /\ commands = <<>>
    /\ api = Idle
    /\ worker = "drain" /\ socket = None /\ attempt = 0
    /\ pending = <<>> /\ delayed = FALSE
    /\ epoch = 0 /\ faults = 0 /\ received = 0

-----------------------------------------------------------------------------
(* The application's thread. *)

\* try_send: a full channel drops the command, and the caller reports success.
TrySend(command) ==
    commands' = IF Len(commands) < MaxRecords THEN Append(commands, command)
                                              ELSE commands

Control(kind) == [kind |-> kind, gen |-> 0, size |-> 0, epoch |-> 0]

At(place, call) == api' = [at |-> place, call |-> call]

Connect ==
    /\ api = Idle
    /\ desired' = TRUE
    /\ IF background THEN UNCHANGED api ELSE At("load_status", "connect")
    /\ UNCHANGED <<background, accepting, status, generation, budget, incoming,
                   commands, local, bounds>>

ConnectLoad ==
    /\ api.at = "load_status"
    /\ IF status = Connected THEN api' = Idle ELSE At("store_status", "connect")
    /\ UNCHANGED <<shared, budget, incoming, commands, local, bounds>>

ConnectStore ==
    /\ api = [at |-> "store_status", call |-> "connect"]
    /\ status' = Connecting
    /\ TrySend(Control("Wake"))
    /\ api' = Idle
    /\ UNCHANGED <<desired, background, accepting, generation, budget, incoming,
                   local, bounds>>

Disconnect ==
    /\ api = Idle
    /\ epoch < MaxEpochs
    /\ desired' = FALSE
    /\ epoch' = epoch + 1
    /\ At("bump", "Disconnect")
    /\ UNCHANGED <<background, accepting, status, generation, budget, incoming,
                   commands, local, faults, received>>

Suspend ==
    /\ api = Idle
    /\ ~background
    /\ epoch < MaxEpochs
    /\ background' = TRUE
    /\ epoch' = epoch + 1
    /\ At("bump", "Suspend")
    /\ UNCHANGED <<desired, accepting, status, generation, budget, incoming,
                   commands, local, faults, received>>

\* What disconnect() and set_background(true) do after their first store.
Leave ==
    \/ /\ api.at = "bump"
       /\ generation' = generation + 1
       /\ At("refuse", api.call)
       /\ UNCHANGED <<desired, background, accepting, status, incoming, commands>>
    \/ /\ api.at = "refuse"
       /\ accepting' = FALSE
       /\ At("hang_up", api.call)
       /\ UNCHANGED <<desired, background, status, generation, incoming, commands>>
    \/ /\ api.at = "hang_up"
       /\ status' = Disconnected
       /\ At("empty", api.call)
       /\ UNCHANGED <<desired, background, accepting, generation, incoming, commands>>
    \/ /\ api.at = "empty"
       /\ incoming' = <<>>
       /\ At("tell", api.call)
       /\ UNCHANGED <<shared, commands>>
    \/ /\ api.at = "tell"
       /\ TrySend(Control(api.call))
       /\ api' = Idle
       /\ UNCHANGED <<shared, incoming>>

LeaveStep == Leave /\ UNCHANGED <<budget, local, bounds>>

Foreground ==
    /\ api = Idle
    /\ background
    /\ background' = FALSE
    /\ At("load_desired", "Resume")
    /\ UNCHANGED <<desired, accepting, status, generation, budget, incoming,
                   commands, local, bounds>>

ForegroundLoad ==
    /\ api.at = "load_desired"
    /\ At(IF desired THEN "store_status" ELSE "tell", "Resume")
    /\ UNCHANGED <<shared, budget, incoming, commands, local, bounds>>

ForegroundStore ==
    /\ api = [at |-> "store_status", call |-> "Resume"]
    /\ status' = Connecting
    /\ At("tell", "Resume")
    /\ UNCHANGED <<desired, background, accepting, generation, budget, incoming,
                   commands, local, bounds>>

Poll ==
    /\ api = Idle
    /\ incoming # <<>>
    /\ incoming' = Tail(incoming)
    /\ UNCHANGED <<shared, budget, commands, api, local, bounds>>

\* reserve_outbound followed by try_send; on a full channel the reservation
\* is returned, which leaves no trace.
Send(size) ==
    /\ api = Idle
    /\ Active
    /\ outRecords < MaxRecords
    /\ outBytes + size <= MaxBytes
    /\ Len(commands) < MaxRecords
    /\ outRecords' = outRecords + 1
    /\ outBytes' = outBytes + size
    /\ commands' = Append(commands, [kind |-> "Send", gen |-> generation,
                                     size |-> size, epoch |-> epoch])
    /\ UNCHANGED <<shared, incoming, api, local, bounds>>

Shutdown ==
    /\ api = Idle
    /\ desired' = FALSE
    /\ accepting' = FALSE
    /\ At("send_shutdown", "Shutdown")
    /\ UNCHANGED <<background, status, generation, budget, incoming, commands,
                   local, bounds>>

\* Mutant of ShutdownSend: try_send instead of send.
ShutdownTrySend ==
    /\ api.at = "send_shutdown"
    /\ TrySend(Control("Shutdown"))
    /\ At("join", "Shutdown")
    /\ UNCHANGED <<shared, budget, incoming, local, bounds>>

\* A blocking send: it waits for room.
ShutdownSend ==
    /\ api.at = "send_shutdown"
    /\ Len(commands) < MaxRecords
    /\ commands' = Append(commands, Control("Shutdown"))
    /\ At("join", "Shutdown")
    /\ UNCHANGED <<shared, budget, incoming, local, bounds>>

ShutdownJoin ==
    /\ api.at = "join"
    /\ worker = "done"
    /\ At("dropped", "Shutdown")
    /\ UNCHANGED <<shared, budget, incoming, commands, local, bounds>>

-----------------------------------------------------------------------------
(* The worker thread: worker_loop, handle_command and their helpers. *)

GoTo(place) == worker' = place

\* release_outbound, for payloads of so many bytes in all.
Release(records, bytes) ==
    /\ outRecords' = outRecords - records
    /\ outBytes' = outBytes - bytes

\* Mutant of ClearPendingOnly: the queue is emptied, its bytes stay reserved.
ClearPendingKeeping == pending' = <<>> /\ UNCHANGED budget

ClearPendingOnly == Release(Records(pending), Total(pending)) /\ pending' = <<>>

\* handle_command on the head of the channel; `back` is where the loop goes on.
Handle(back) ==
    /\ commands # <<>>
    /\ LET command == Head(commands)
           rest == Tail(commands) IN
       \/ /\ command.kind \in {"Wake", "Resume"}
          /\ commands' = rest /\ GoTo(back)
          /\ UNCHANGED <<status, incoming, budget, socket, pending>>
       \/ /\ command.kind \in {"Disconnect", "Suspend"}
          /\ commands' = rest /\ GoTo(back)
          /\ socket' = None
          /\ ClearPendingOnly
          /\ incoming' = <<>>
          /\ status' = Disconnected
       \/ /\ command.kind = "Send"
          /\ commands' = rest /\ GoTo(back)
          /\ IF command.gen = generation
             THEN pending' = Append(pending, command) /\ UNCHANGED budget
             ELSE Release(1, command.size) /\ UNCHANGED pending
          /\ UNCHANGED <<status, incoming, socket>>
       \/ /\ command.kind = "Shutdown"    \* clear_pending empties the channel too
          /\ socket' = None
          /\ Release(Records(pending) + Records(rest), Total(pending) + Total(rest))
          /\ pending' = <<>> /\ commands' = <<>>
          /\ GoTo("done")
          /\ UNCHANGED <<status, incoming>>
    /\ UNCHANGED <<desired, background, accepting, generation, attempt, delayed>>

Drain ==
    /\ worker = "drain"
    /\ \/ Handle("drain")
       \/ /\ commands = <<>>
          /\ GoTo("generation")
          /\ UNCHANGED <<shared, budget, incoming, commands, socket, attempt,
                         pending, delayed>>
    /\ UNCHANGED <<api, bounds>>

\* Mutant of CheckGeneration: a socket of an older generation stays open.
CheckGenerationNever ==
    /\ worker = "generation"
    /\ GoTo("active")
    /\ UNCHANGED <<shared, budget, incoming, commands, api, socket, attempt,
                   pending, delayed, bounds>>

CheckGeneration ==
    /\ worker = "generation"
    /\ IF socket # None /\ socket.gen # generation
       THEN /\ socket' = None
            /\ accepting' = FALSE
            /\ ClearPendingOnly
       ELSE UNCHANGED <<socket, accepting, budget, pending>>
    /\ GoTo("active")
    /\ UNCHANGED <<desired, background, status, generation, incoming, commands,
                   api, attempt, delayed, bounds>>

CheckActive ==
    /\ worker = "active"
    /\ GoTo(IF ~Active THEN "inactive"
            ELSE IF socket # None THEN "flush"
            ELSE IF delayed THEN "drain" ELSE "attempt")
    /\ UNCHANGED <<shared, budget, incoming, commands, api, socket, attempt,
                   pending, delayed, bounds>>

Inactive ==
    /\ worker = "inactive"
    /\ socket' = None
    /\ ClearPendingOnly
    /\ status' = IF status = InvalidCredential THEN status ELSE Disconnected
    /\ GoTo("receive")
    /\ UNCHANGED <<desired, background, accepting, generation, incoming,
                   commands, api, attempt, delayed, bounds>>

\* recv_timeout: the next command, or nothing within IO_POLL_INTERVAL.
Receive ==
    /\ worker = "receive"
    /\ \/ Handle("drain")
       \/ /\ commands = <<>>
          /\ GoTo("drain")
          /\ UNCHANGED <<shared, budget, incoming, commands, socket, attempt,
                         pending, delayed>>
    /\ UNCHANGED <<api, bounds>>

BackoffExpires ==
    /\ delayed
    /\ delayed' = FALSE
    /\ UNCHANGED <<shared, budget, incoming, commands, api, worker, socket,
                   attempt, pending, bounds>>

BeginAttempt ==
    /\ worker = "attempt"
    /\ attempt' = generation
    /\ GoTo("announce")
    /\ UNCHANGED <<shared, budget, incoming, commands, api, socket, pending,
                   delayed, bounds>>

\* The stores of a single status word.
StoreStatus(from, value, to) ==
    /\ worker = from
    /\ status' = value
    /\ GoTo(to)
    /\ UNCHANGED <<desired, background, generation, budget, incoming, commands,
                   api, socket, attempt, pending, delayed, bounds>>

Announce == StoreStatus("announce", Connecting, "open") /\ UNCHANGED accepting
AbandonAttempt == StoreStatus("abandon", Disconnected, "drain") /\ UNCHANGED accepting
PublishConnected == StoreStatus("publish", Connected, "accept") /\ UNCHANGED accepting

\* open_socket: it gives up early when the attempt is no longer wanted, and
\* otherwise ends as the peer and the network decide.
OpenSocket ==
    /\ worker = "open"
    /\ \/ GoTo("opened") /\ UNCHANGED <<delayed, faults>>
       \/ /\ ~Active \/ generation # attempt
          /\ GoTo("abandon") /\ UNCHANGED <<delayed, faults>>
       \/ GoTo("rejected") /\ UNCHANGED <<delayed, faults>>
       \/ /\ faults < MaxFaults
          /\ faults' = faults + 1
          /\ delayed' = TRUE
          /\ GoTo("drain")
    /\ UNCHANGED <<shared, budget, incoming, commands, api, socket, attempt,
                   pending, epoch, received>>

\* The guard of the Ok arm; an attempt that is stale by now is closed.
Opened ==
    /\ worker = "opened"
    /\ IF Active /\ generation = attempt
       THEN /\ socket' = [gen |-> attempt, epoch |-> epoch, wire |-> {}]
            /\ GoTo("publish")
       ELSE GoTo("abandon") /\ UNCHANGED socket
    /\ UNCHANGED <<shared, budget, incoming, commands, api, attempt, pending,
                   delayed, bounds>>

AcceptIncoming ==
    /\ worker = "accept"
    /\ accepting' = TRUE
    /\ GoTo("flush")
    /\ UNCHANGED <<desired, background, status, generation, budget, incoming,
                   commands, api, socket, attempt, pending, delayed, bounds>>

Rejected ==
    /\ worker = "rejected"
    /\ desired' = FALSE
    /\ GoTo("report")
    /\ UNCHANGED <<background, accepting, status, generation, budget, incoming,
                   commands, api, socket, attempt, pending, delayed, bounds>>

ReportRejected ==
    /\ worker = "report"
    /\ status' = InvalidCredential
    /\ ClearPendingOnly
    /\ GoTo("drain")
    /\ UNCHANGED <<desired, background, accepting, generation, incoming,
                   commands, api, socket, attempt, delayed, bounds>>

\* Mutant of Flush: whatever is pending is written.
FlushUnchecked ==
    /\ worker = "flush"
    /\ IF pending = <<>>
       THEN GoTo("read") /\ UNCHANGED <<budget, socket, pending>>
       ELSE /\ pending' = Tail(pending)
            /\ Release(1, Head(pending).size)
            /\ socket' = [socket EXCEPT !.wire = @ \union {Head(pending).epoch}]
            /\ UNCHANGED worker
    /\ UNCHANGED <<shared, incoming, commands, api, attempt, delayed, bounds>>

\* flush_pending, one payload at a time: a stale one is dropped, any other is
\* written (or the write fails) and its bytes are released.
Flush ==
    /\ worker = "flush"
    /\ IF pending = <<>>
       THEN GoTo("read") /\ UNCHANGED <<budget, socket, pending, faults>>
       ELSE /\ pending' = Tail(pending)
            /\ Release(1, Head(pending).size)
            /\ IF Head(pending).gen # socket.gen \/ generation # socket.gen \/ ~Active
               THEN UNCHANGED <<worker, socket, faults>>
               ELSE \/ /\ socket' = [socket EXCEPT !.wire = @ \union {Head(pending).epoch}]
                       /\ UNCHANGED <<worker, faults>>
                    \/ /\ faults < MaxFaults
                       /\ faults' = faults + 1
                       /\ GoTo("lost") /\ UNCHANGED socket
    /\ UNCHANGED <<shared, incoming, commands, api, attempt, delayed, epoch, received>>

\* Mutant of Enqueue: the generation is not compared.
EnqueueUnchecked ==
    incoming' = IF accepting /\ Active /\ Len(incoming) < MaxRecords
                THEN Append(incoming, socket.gen) ELSE incoming

\* enqueue_incoming, under the mailbox's lock.
Enqueue ==
    incoming' = IF /\ accepting /\ Active
                   /\ generation = socket.gen
                   /\ Len(incoming) < MaxRecords
                THEN Append(incoming, socket.gen)
                ELSE incoming

\* read_one: a message, nothing (then recv_timeout on the commands), a control
\* frame, or an error, a close frame or a text frame, which lose the connection.
Read ==
    /\ worker = "read"
    /\ \/ /\ received < MaxReceived
          /\ received' = received + 1
          /\ Enqueue
          /\ GoTo("drain")
          /\ UNCHANGED faults
       \/ /\ \E to \in {"receive", "drain"} : GoTo(to)
          /\ UNCHANGED <<incoming, faults, received>>
       \/ /\ faults < MaxFaults
          /\ faults' = faults + 1
          /\ GoTo("lost")
          /\ UNCHANGED <<incoming, received>>
    /\ UNCHANGED <<shared, budget, commands, api, socket, attempt, pending,
                   delayed, epoch>>

Lost ==
    /\ worker = "lost"
    /\ socket' = None
    /\ generation' = generation + 1
    /\ ClearPendingOnly
    /\ GoTo("connection_lost")
    /\ UNCHANGED <<desired, background, accepting, status, incoming, commands,
                   api, attempt, delayed, bounds>>

\* connection_lost: the status is chosen here and stored in the next step.
ConnectionLost ==
    /\ worker = "connection_lost"
    /\ accepting' = FALSE
    /\ GoTo(IF Active THEN "waiting" ELSE "ended")
    /\ UNCHANGED <<desired, background, status, generation, budget, incoming,
                   commands, api, socket, attempt, pending, delayed, bounds>>

LostStatus ==
    /\ worker \in {"waiting", "ended"}
    /\ status' = IF worker = "waiting" THEN Connecting ELSE Disconnected
    /\ incoming' = <<>>
    /\ delayed' = TRUE
    /\ GoTo("drain")
    /\ UNCHANGED <<desired, background, accepting, generation, budget, commands,
                   api, socket, attempt, pending, bounds>>

WorkerStep ==
    \/ Drain \/ CheckGeneration \/ CheckActive \/ Inactive \/ Receive
    \/ BeginAttempt \/ Announce \/ OpenSocket \/ Opened \/ AbandonAttempt
    \/ PublishConnected \/ AcceptIncoming \/ Rejected \/ ReportRejected
    \/ Flush \/ Read \/ Lost \/ ConnectionLost \/ LostStatus

\* What the application's thread does once it is inside a call.
CallStep ==
    \/ ConnectLoad \/ ConnectStore \/ LeaveStep \/ ForegroundLoad
    \/ ForegroundStore \/ ShutdownSend \/ ShutdownJoin

CallStart ==
    \/ Connect \/ Disconnect \/ Suspend \/ Foreground \/ Poll \/ Shutdown
    \/ \E size \in Sizes : Send(size)

\* Nothing is left to do once the client is dropped.
Dropped == api.at = "dropped" /\ UNCHANGED vars

ClientNext == CallStart \/ CallStep \/ WorkerStep \/ BackoffExpires \/ Dropped

ClientSpec == ClientInit /\ [][ClientNext]_vars

\* Threads that can run do run, a started call is finished, and clocks advance.
FairClient ==
    /\ ClientSpec
    /\ WF_vars(WorkerStep)
    /\ WF_vars(CallStep)
    /\ WF_vars(BackoffExpires)

-----------------------------------------------------------------------------
(* Properties. *)

\* reserve_outbound and release_outbound balance on every path: what is
\* reserved is exactly what waits in the channel or in `pending`.
OutboundAccounted ==
    /\ outRecords = Records(commands) + Records(pending)
    /\ outBytes = Total(commands) + Total(pending)

\* "Late work from an old connection must not enter the new mailbox": outside
\* a call, and unless the worker is just recording a loss, everything poll can
\* return came over a socket of the present generation.
MailboxIsCurrent ==
    api = Idle /\ worker \notin {"connection_lost", "waiting", "ended"}
        => \A i \in DOMAIN incoming : incoming[i] = generation

\* A payload the application sent before it disconnected or was suspended is
\* never written to a connection opened after that.
NothingReplayed ==
    socket # None => socket.wire \subseteq {socket.epoch}

\* A connection the application keeps wanting, without calling connect again
\* and again, is there in the end: no attempt is lost to a stale command, a
\* stale generation or an expired backoff.
Wanted == Active /\ api = Idle

WantedConnects ==
    <>[]Wanted => <>[](socket # None /\ socket.gen = generation)

\* shutdown() returns: the worker always takes the command and ends, and what
\* was reserved is released.
ShutdownReturns ==
    api.at = "send_shutdown" ~> (api.at = "dropped" /\ outRecords = 0)

=============================================================================
