------------------------ MODULE NetworkClientProofs ------------------------
(***************************************************************************)
(* What TLAPS proves of the guest transport, for queues of any size and    *)
(* any number of disconnects, faults and messages.                         *)
(*                                                                         *)
(* What is said of mail and of payloads rests on the generation: whatever  *)
(* carries the present one was made since the application last left its    *)
(* connection.  That has to be said with care in the window in which       *)
(* disconnect() or set_background(true) has begun and has not yet raised   *)
(* the generation.  The outbound budget is counted place by place, and     *)
(* shutdown() is followed through the full command channel to the join.    *)
(***************************************************************************)
EXTENDS NetworkClient, FiniteSetTheorems, TLAPS

Kinds == {"Wake", "Resume", "Disconnect", "Suspend", "Send", "Shutdown"}
Command == [kind : Kinds, gen : Nat, size : Nat, epoch : Nat]

ApiTyped ==
    api.at \in {"bump", "refuse", "hang_up", "empty", "tell"}
        => api.call \in {"Disconnect", "Suspend", "Resume"}

\* The parts of the types the proofs use.
Typed ==
    /\ generation \in Nat \ {0} /\ epoch \in Nat
    /\ ApiTyped
    /\ commands \in Seq(Command)
    /\ pending \in Seq(Command)
    /\ incoming \in Seq(Nat)
    /\ socket \in [gen : Nat, epoch : Nat, wire : SUBSET Nat]

\* The epoch in which the present generation began.
Era == IF api.at = "bump" THEN epoch - 1 ELSE epoch

\* What carries a generation, commands and the socket, carries an old one or
\* the epoch of the present one.
Dated(r) ==
    /\ r.gen <= generation
    /\ r.gen = generation => r.epoch = Era

EpochsKnown ==
    /\ \A r \in Range(commands) : r.kind = "Send" => Dated(r)
    /\ \A r \in Range(pending) : Dated(r)
    /\ Dated(socket)
    /\ socket.wire \subseteq {socket.epoch}
    /\ api.at = "bump" => epoch > 0 /\ ~Active

\* Old mail is in the mailbox only while one of the two threads is about to
\* empty it.
Emptying == {"bump", "refuse", "hang_up", "empty"}
Losing == {"connection_lost", "waiting", "ended"}
MailCurrent ==
    api.at \notin Emptying /\ worker \notin Losing
        => \A m \in Range(incoming) : m = generation

ClientInv == Typed /\ EpochsKnown /\ MailCurrent

-----------------------------------------------------------------------------
\* The members of a sequence after an append, and of a tail.
LEMMA RangeAppend ==
    ASSUME NEW S, NEW s \in Seq(S), NEW x \in S
    PROVE  /\ Append(s, x) \in Seq(S)
           /\ Range(Append(s, x)) = Range(s) \union {x}
<1>1. /\ Append(s, x) \in Seq(S) /\ DOMAIN Append(s, x) = 1 .. Len(s) + 1
      /\ DOMAIN s = 1 .. Len(s) /\ Len(s) \in Nat
  OBVIOUS
<1>2. \A i \in 1 .. Len(s) : Append(s, x)[i] = s[i]
  OBVIOUS
<1>3. Append(s, x)[Len(s) + 1] = x
  OBVIOUS
<1>4. 1 .. Len(s) + 1 = (1 .. Len(s)) \union {Len(s) + 1}
  BY <1>1
<1> QED
  BY <1>1, <1>2, <1>3, <1>4 DEF Range

LEMMA RangeTail ==
    ASSUME NEW S, NEW s \in Seq(S), s # <<>>
    PROVE  /\ Head(s) \in S /\ Head(s) \in Range(s)
           /\ Tail(s) \in Seq(S)
           /\ Range(Tail(s)) \subseteq Range(s)
<1>1. /\ Tail(s) \in Seq(S) /\ DOMAIN Tail(s) = 1 .. Len(s) - 1
      /\ DOMAIN s = 1 .. Len(s) /\ Len(s) \in Nat /\ Len(s) > 0
      /\ Head(s) \in S /\ Head(s) = s[1]
  OBVIOUS
<1>2. \A i \in 1 .. Len(s) - 1 : Tail(s)[i] = s[i + 1] /\ i + 1 \in 1 .. Len(s)
  BY <1>1
<1> QED
  BY <1>1, <1>2 DEF Range

LEMMA RangeEmpty ==
    ASSUME NEW S
    PROVE  <<>> \in Seq(S) /\ Range(<<>>) = {}
BY DEF Range

\* try_send of a control command adds no Send.
LEMMA TrySendKeeps ==
    ASSUME commands \in Seq(Command), NEW kind \in Kinds \ {"Send"},
           TrySend(Control(kind))
    PROVE  /\ commands' \in Seq(Command)
           /\ \A r \in Range(commands') : r.kind = "Send" => r \in Range(commands)
<1>1. Control(kind) \in Command /\ Control(kind).kind # "Send"
  BY DEF Control, Command
<1>2. CASE commands' = commands
  BY <1>2
<1>3. CASE commands' = Append(commands, Control(kind))
  BY <1>1, <1>3, RangeAppend
<1> QED
  BY <1>2, <1>3 DEF TrySend

-----------------------------------------------------------------------------
\* A step that leaves the dated things alone, or drops some of them, and does
\* not open the window before a bump.
LEMMA DropsOnly ==
    ASSUME ClientInv,
           UNCHANGED <<generation, epoch>>,
           commands' \in Seq(Command), pending' \in Seq(Command), incoming' \in Seq(Nat),
           \A r \in Range(commands') : r.kind = "Send" => r \in Range(commands),
           Range(pending') \subseteq
               Range(pending) \union {r \in Range(commands) : r.kind = "Send"},
           Range(incoming') \subseteq Range(incoming) \union {generation},
           socket' \in {socket, None},
           api.at = "bump" <=> api'.at = "bump",
           api'.at = "bump" => ~Active',
           ApiTyped',
           api'.at \notin Emptying /\ worker' \notin Losing =>
              (api.at \notin Emptying /\ worker \notin Losing) \/ incoming' = <<>>
    PROVE  ClientInv'
<1>1. Typed'
  BY DEF ClientInv, Typed, None
<1>2. Era' = Era
  BY DEF Era
<1>3. \A r : Dated(r)' <=> Dated(r)
  BY <1>2 DEF Dated
<1>4. Dated(None) /\ None.wire \subseteq {None.epoch}
  BY DEF ClientInv, Typed, Dated, None
<1>5. Dated(socket') /\ socket'.wire \subseteq {socket'.epoch}
  BY <1>4 DEF ClientInv, EpochsKnown
<1>6. /\ \A r \in Range(commands') : r.kind = "Send" => Dated(r)
      /\ \A r \in Range(pending') : Dated(r)
  BY DEF ClientInv, EpochsKnown
<1>7. EpochsKnown'
  <2>1. Dated(socket)' <=> Dated(socket')
    BY <1>2 DEF Dated
  <2> QED
    BY <1>2, <1>3, <1>5, <1>6, <2>1 DEF EpochsKnown, ClientInv
<1>8. MailCurrent'
  BY RangeEmpty DEF MailCurrent, ClientInv
<1> QED
  BY <1>1, <1>7, <1>8 DEF ClientInv

\* A step of the other kind: the generation rises, and nothing of the new one
\* exists yet.
LEMMA GenerationRises ==
    ASSUME ClientInv,
           generation' = generation + 1,
           UNCHANGED <<desired, background, epoch, commands, incoming>>,
           pending' \in {pending, <<>>},
           socket' \in {socket, None},
           ApiTyped',
           api'.at = "bump" => api.at = "bump",
           api'.at \in Emptying \/ worker' \in Losing
    PROVE  ClientInv'
<1>1. Typed'
  <2>1. generation' \in Nat \ {0}
    BY DEF ClientInv, Typed
  <2>2. pending' \in Seq(Command)
    BY RangeEmpty, Zenon DEF ClientInv, Typed
  <2>3. socket' \in [gen : Nat, epoch : Nat, wire : SUBSET Nat]
    BY DEF ClientInv, Typed, None
  <2> QED
    BY <2>1, <2>2, <2>3 DEF ClientInv, Typed
<1>2. Range(pending') \subseteq Range(pending)
  BY RangeEmpty
<1>3. \A r \in Command : r \in Range(commands) /\ r.kind = "Send" => r.gen < generation'
  <2>1. \A r \in Command : r.gen \in Nat
    BY DEF Command
  <2>2. \A r \in Range(commands) : r.kind = "Send" => r.gen <= generation
    BY DEF ClientInv, EpochsKnown, Dated
  <2>3. generation \in Nat
    BY DEF ClientInv, Typed
  <2> QED
    BY <2>1, <2>2, <2>3
<1>4. \A r \in Command : r \in Range(pending) => r.gen < generation'
  <2>1. \A r \in Command : r.gen \in Nat
    BY DEF Command
  <2>2. \A r \in Range(pending) : r.gen <= generation
    BY DEF ClientInv, EpochsKnown, Dated
  <2>3. generation \in Nat
    BY DEF ClientInv, Typed
  <2> QED
    BY <2>1, <2>2, <2>3
<1>5. Range(commands) \subseteq Command /\ Range(pending) \subseteq Command
  BY DEF ClientInv, Typed, Range
<1>6. socket'.gen < generation' /\ socket'.gen \in Nat /\ socket'.wire \subseteq {socket'.epoch}
  BY DEF ClientInv, EpochsKnown, Dated, Typed, None
<1>7. \A r \in Command : r.gen \in Nat
  BY DEF Command
<1>8. generation' \in Nat
  BY <1>1 DEF Typed
<1>9. /\ \A r \in Range(commands') : r.kind = "Send" => Dated(r)'
      /\ \A r \in Range(pending') : Dated(r)'
  <2>1. \A r : r.gen \in Nat /\ r.gen < generation' => Dated(r)'
    BY <1>8 DEF Dated
  <2> QED
    BY <1>2, <1>3, <1>4, <1>5, <1>7, <2>1
<1>10. Dated(socket)'
  BY <1>6, <1>8 DEF Dated
<1>11. EpochsKnown'
  BY <1>6, <1>9, <1>10 DEF EpochsKnown, ClientInv, Active
<1>12. MailCurrent'
  BY DEF MailCurrent
<1> QED
  BY <1>1, <1>11, <1>12 DEF ClientInv

-----------------------------------------------------------------------------
LEMMA InitClient == ClientInit => ClientInv
<1> SUFFICES ASSUME ClientInit PROVE ClientInv
  OBVIOUS
<1>1. Typed
  <2>1. socket \in [gen : Nat, epoch : Nat, wire : SUBSET Nat]
    BY DEF ClientInit, None
  <2>2. ApiTyped
    BY DEF ClientInit, ApiTyped, Idle
  <2> QED
    BY <2>1, <2>2, RangeEmpty DEF ClientInit, Typed
<1>2. EpochsKnown
  BY RangeEmpty DEF ClientInit, EpochsKnown, Dated, Era, Idle, None, Active
<1>3. MailCurrent
  BY RangeEmpty DEF ClientInit, MailCurrent
<1> QED
  BY <1>1, <1>2, <1>3 DEF ClientInv

\* The calls of the application that change nothing dated.
LEMMA QuietCalls ==
    ASSUME ClientInv,
           Connect \/ ConnectLoad \/ Foreground \/ ForegroundLoad \/ ForegroundStore
               \/ Shutdown \/ ShutdownJoin
    PROVE  ClientInv'
<1>1. UNCHANGED <<generation, epoch, commands, pending, incoming, socket, worker>>
  BY DEF Connect, ConnectLoad, Foreground, ForegroundLoad, ForegroundStore,
         Shutdown, ShutdownJoin, shared, budget, local, bounds
<1>2. /\ api.at \in {"idle", "load_status", "load_desired", "store_status", "join"}
      /\ \/ api'.at \in {"idle", "load_status", "load_desired", "store_status",
                          "send_shutdown", "dropped"}
         \/ api'.at = "tell" /\ api'.call = "Resume"
  <2>1. CASE Connect
    BY <2>1 DEF Connect, At, Idle
  <2>2. CASE ConnectLoad
    BY <2>2 DEF ConnectLoad, At, Idle
  <2>3. CASE Foreground
    BY <2>3 DEF Foreground, At, Idle
  <2>4. CASE ForegroundLoad
    BY <2>4 DEF ForegroundLoad, At, Idle
  <2>5. CASE ForegroundStore
    BY <2>5 DEF ForegroundStore, At, Idle
  <2>6. CASE Shutdown
    BY <2>6 DEF Shutdown, At, Idle
  <2>7. CASE ShutdownJoin
    BY <2>7 DEF ShutdownJoin, At, Idle
  <2> QED
    BY <2>1, <2>2, <2>3, <2>4, <2>5, <2>6, <2>7
<1>4. /\ ApiTyped'
      /\ api.at \notin Emptying /\ api'.at \notin Emptying
  BY <1>2 DEF ApiTyped, Emptying
<1>3. commands' \in Seq(Command) /\ pending' \in Seq(Command) /\ incoming' \in Seq(Nat)
  BY <1>1 DEF ClientInv, Typed
<1> QED
  BY <1>1, <1>3, <1>4, DropsOnly DEF Emptying

LEMMA StartLeaving ==
    ASSUME ClientInv, Disconnect \/ Suspend
    PROVE  ClientInv'
<1>1. /\ UNCHANGED <<generation, commands, pending, incoming, socket, worker>>
      /\ epoch' = epoch + 1
      /\ api = Idle /\ api'.at = "bump" /\ api'.call \in {"Disconnect", "Suspend"}
      /\ ~Active'
  BY DEF Disconnect, Suspend, At, Active, local
<1>2. Typed'
  <2>1. ApiTyped'
    BY <1>1 DEF ApiTyped
  <2>2. epoch' \in Nat
    BY <1>1 DEF ClientInv, Typed
  <2> QED
    BY <1>1, <2>1, <2>2 DEF ClientInv, Typed
<1>3. Era' = Era /\ epoch' > 0
  BY <1>1 DEF Era, Idle, ClientInv, Typed
<1>4. EpochsKnown'
  BY <1>1, <1>3 DEF EpochsKnown, Dated, ClientInv
<1>5. MailCurrent'
  BY <1>1 DEF MailCurrent, Emptying
<1> QED
  BY <1>2, <1>4, <1>5 DEF ClientInv

LEMMA Leaving ==
    ASSUME ClientInv, LeaveStep
    PROVE  ClientInv'
<1>1. UNCHANGED <<epoch, pending, socket, worker>>
  BY DEF LeaveStep, local, bounds
<1>2. pending' \in Seq(Command)
  BY <1>1 DEF ClientInv, Typed
<1>3. CASE api.at = "bump"
  <2>1. /\ generation' = generation + 1
        /\ UNCHANGED <<desired, background, commands, incoming>>
        /\ api'.at = "refuse" /\ ApiTyped'
    BY <1>3 DEF LeaveStep, Leave, At, ApiTyped, ClientInv, Typed, Idle
  <2> QED
    BY <1>1, <2>1, GenerationRises DEF Emptying
<1>4. CASE api.at \in {"refuse", "hang_up", "empty"}
  <2>1. /\ UNCHANGED <<generation, desired, background, commands>>
        /\ api'.at \in {"hang_up", "empty", "tell"} /\ api'.call = api.call
        /\ incoming' = incoming \/ incoming' = <<>>
        /\ api'.at \in {"hang_up", "empty"} \/ incoming' = <<>>
    <3>1. CASE api.at = "refuse"
      BY <3>1 DEF LeaveStep, Leave, At
    <3>2. CASE api.at = "hang_up"
      BY <3>2 DEF LeaveStep, Leave, At
    <3>3. CASE api.at = "empty"
      BY <3>3 DEF LeaveStep, Leave, At, shared
    <3> QED
      BY <1>4, <3>1, <3>2, <3>3
  <2>3. /\ ApiTyped'
        /\ api'.at \in Emptying \/ incoming' = <<>>
    BY <1>4, <2>1 DEF ApiTyped, ClientInv, Typed, Emptying
  <2>2. /\ commands' \in Seq(Command) /\ incoming' \in Seq(Nat)
        /\ Range(incoming') \subseteq Range(incoming)
    BY <2>1, RangeEmpty, Zenon DEF ClientInv, Typed
  <2> QED
    BY <1>1, <1>2, <1>4, <2>1, <2>2, <2>3, DropsOnly
<1>5. CASE api.at = "tell"
  <2>1. /\ UNCHANGED <<generation, desired, background, incoming>>
        /\ api'.at = "idle"
        /\ TrySend(Control(api.call))
    BY <1>5 DEF LeaveStep, Leave, Idle, shared
  <2>4. ApiTyped' /\ api.call \in Kinds \ {"Send"}
    BY <1>5, <2>1 DEF ApiTyped, ClientInv, Typed, Kinds
  <2>2. /\ commands' \in Seq(Command)
        /\ \A r \in Range(commands') : r.kind = "Send" => r \in Range(commands)
    BY <2>1, <2>4, TrySendKeeps DEF ClientInv, Typed
  <2>3. incoming' \in Seq(Nat)
    BY <2>1 DEF ClientInv, Typed
  <2> QED
    BY <1>1, <1>2, <1>5, <2>1, <2>2, <2>3, <2>4, DropsOnly DEF Emptying
<1> QED
  BY <1>3, <1>4, <1>5 DEF LeaveStep, Leave

\* The calls that use the channel or the mailbox.
LEMMA ChannelCalls ==
    ASSUME ClientInv,
           ConnectStore \/ ShutdownSend \/ Poll \/ (\E size \in Sizes : Send(size))
    PROVE  ClientInv'
<1>1. /\ UNCHANGED <<generation, epoch, desired, background, pending, socket, worker>>
      /\ pending' \in Seq(Command)
  BY Zenon DEF ConnectStore, ShutdownSend, Poll, Send, shared, local, bounds, ClientInv, Typed
<1>2. /\ ApiTyped'
      /\ api.at \notin Emptying /\ api'.at \notin Emptying
  <2>1. /\ api.at \in {"idle", "store_status", "send_shutdown"}
        /\ api'.at \in {"idle", "join"}
    <3>1. CASE ConnectStore
      BY <3>1 DEF ConnectStore, Idle
    <3>2. CASE ShutdownSend
      BY <3>2 DEF ShutdownSend, At
    <3>3. CASE Poll
      BY <3>3 DEF Poll, Idle
    <3>4. CASE \E size \in Sizes : Send(size)
      BY <3>4 DEF Send, Idle
    <3> QED
      BY <3>1, <3>2, <3>3, <3>4
  <2> QED
    BY <2>1 DEF ApiTyped, Emptying
<1>3. commands \in Seq(Command) /\ incoming \in Seq(Nat)
  BY DEF ClientInv, Typed
<1>4. CASE ConnectStore
  <2>1. TrySend(Control("Wake")) /\ UNCHANGED incoming
    BY <1>4 DEF ConnectStore
  <2>2. /\ commands' \in Seq(Command)
        /\ \A r \in Range(commands') : r.kind = "Send" => r \in Range(commands)
    BY <2>1, <1>3, TrySendKeeps DEF Kinds
  <2> QED
    BY <1>1, <1>2, <1>3, <2>1, <2>2, DropsOnly DEF Emptying
<1>5. CASE ShutdownSend
  <2>1. /\ UNCHANGED incoming
        /\ commands' = Append(commands, Control("Shutdown"))
        /\ Control("Shutdown") \in Command /\ Control("Shutdown").kind # "Send"
    BY <1>5 DEF ShutdownSend, Control, Command, Kinds
  <2>2. /\ commands' \in Seq(Command)
        /\ \A r \in Range(commands') : r.kind = "Send" => r \in Range(commands)
    BY <2>1, <1>3, RangeAppend
  <2> QED
    BY <1>1, <1>2, <1>3, <2>1, <2>2, DropsOnly DEF Emptying
<1>6. CASE Poll
  <2>1. /\ UNCHANGED commands
        /\ incoming' \in Seq(Nat) /\ Range(incoming') \subseteq Range(incoming)
    BY <1>3, <1>6, RangeTail DEF Poll
  <2> QED
    BY <1>1, <1>2, <1>3, <2>1, DropsOnly DEF Emptying
<1>7. CASE \E size \in Sizes : Send(size)
  <2>1. PICK size \in Sizes : Send(size)
    BY <1>7
  <2> DEFINE payload == [kind |-> "Send", gen |-> generation, size |-> size, epoch |-> epoch]
  <2>2. payload \in Command /\ payload.gen = generation /\ payload.epoch = epoch
    BY ClientBounds DEF Command, Kinds, ClientInv, Typed
  <2>3. commands' = Append(commands, payload) /\ UNCHANGED <<incoming, api>> /\ api = Idle
    BY <2>1 DEF Send
  <2> HIDE DEF payload
  <2>4. commands' \in Seq(Command) /\ Range(commands') = Range(commands) \union {payload}
    BY <1>3, <2>2, <2>3, RangeAppend
  <2>5. Typed'
    BY <1>1, <1>2, <1>3, <2>3, <2>4 DEF ClientInv, Typed
  <2>6. Era' = Era /\ Era = epoch
    BY <1>1, <2>3 DEF Era, Idle
  <2>7. Dated(payload)
    BY <2>2, <2>6 DEF Dated, ClientInv, Typed
  <2>8. EpochsKnown'
    BY <1>1, <2>3, <2>4, <2>6, <2>7 DEF EpochsKnown, Dated, ClientInv, Active
  <2>9. MailCurrent'
    BY <1>1, <2>3 DEF MailCurrent, ClientInv
  <2> QED
    BY <2>5, <2>8, <2>9 DEF ClientInv
<1> QED
  BY <1>4, <1>5, <1>6, <1>7

-----------------------------------------------------------------------------
\* Steps of the worker that change nothing dated.
LEMMA QuietWorker ==
    ASSUME ClientInv,
           UNCHANGED <<generation, epoch, commands, pending, incoming, socket, api>>,
           Active' => Active,
           worker \in Losing => worker' \in Losing
    PROVE  ClientInv'
<1>1. /\ commands' \in Seq(Command) /\ pending' \in Seq(Command)
      /\ incoming' \in Seq(Nat) /\ ApiTyped'
  BY DEF ClientInv, Typed, ApiTyped
<1>2. api'.at = "bump" => ~Active'
  BY DEF ClientInv, EpochsKnown
<1> QED
  BY <1>1, <1>2, DropsOnly

LEMMA QuietWorkerSteps ==
    ASSUME ClientInv,
           CheckActive \/ BeginAttempt \/ Announce \/ OpenSocket \/ AbandonAttempt
               \/ PublishConnected \/ AcceptIncoming \/ ConnectionLost \/ BackoffExpires
               \/ Rejected \/ UNCHANGED vars
    PROVE  ClientInv'
<1>1. CASE CheckActive
  BY <1>1, QuietWorker DEF CheckActive, shared, bounds, Active, GoTo, Losing
<1>2. CASE BeginAttempt
  BY <1>2, QuietWorker DEF BeginAttempt, shared, bounds, Active, GoTo, Losing
<1>3. CASE Announce \/ AbandonAttempt \/ PublishConnected
  BY <1>3, QuietWorker DEF Announce, AbandonAttempt, PublishConnected, StoreStatus,
                           bounds, Active, GoTo, Losing
<1>4. CASE OpenSocket
  BY <1>4, QuietWorker DEF OpenSocket, shared, Active, GoTo, Losing
<1>5. CASE AcceptIncoming
  BY <1>5, QuietWorker DEF AcceptIncoming, bounds, Active, GoTo, Losing
<1>6. CASE ConnectionLost
  BY <1>6, QuietWorker DEF ConnectionLost, bounds, Active, GoTo, Losing
<1>7. CASE BackoffExpires
  BY <1>7, QuietWorker DEF BackoffExpires, shared, bounds, Active
<1>8. CASE Rejected
  BY <1>8, QuietWorker DEF Rejected, bounds, Active, GoTo, Losing
<1>9. CASE UNCHANGED vars
  BY <1>9, QuietWorker DEF vars, shared, local, bounds, Active
<1> QED
  BY <1>1, <1>2, <1>3, <1>4, <1>5, <1>6, <1>7, <1>8, <1>9

\* Steps of the worker that drop payloads, mail or the socket.
LEMMA DroppingWorker ==
    ASSUME ClientInv,
           UNCHANGED <<generation, epoch, commands, desired, background, api>>,
           pending' = pending \/ pending' = <<>>,
           incoming' = incoming \/ incoming' = <<>>,
           socket' \in {socket, None},
           worker \in Losing => worker' \in Losing \/ incoming' = <<>>
    PROVE  ClientInv'
<1>1. commands' \in Seq(Command) /\ ApiTyped'
  BY DEF ClientInv, Typed, ApiTyped
<1>2. /\ pending' \in Seq(Command) /\ incoming' \in Seq(Nat)
      /\ Range(pending') \subseteq Range(pending)
      /\ Range(incoming') \subseteq Range(incoming)
  BY RangeEmpty, Zenon DEF ClientInv, Typed
<1>3. api'.at = "bump" => ~Active'
  BY DEF ClientInv, EpochsKnown, Active
<1> QED
  BY <1>1, <1>2, <1>3, DropsOnly

LEMMA DroppingWorkerSteps ==
    ASSUME ClientInv,
           CheckGeneration \/ Inactive \/ ReportRejected \/ LostStatus
    PROVE  ClientInv'
<1>1. CASE CheckGeneration
  BY <1>1, DroppingWorker DEF CheckGeneration, ClearPendingOnly, bounds, GoTo, Losing
<1>2. CASE Inactive
  BY <1>2, DroppingWorker DEF Inactive, ClearPendingOnly, bounds, GoTo, Losing
<1>3. CASE ReportRejected
  BY <1>3, DroppingWorker DEF ReportRejected, ClearPendingOnly, bounds, GoTo, Losing
<1>4. CASE LostStatus
  BY <1>4, DroppingWorker DEF LostStatus, bounds, GoTo, Losing
<1> QED
  BY <1>1, <1>2, <1>3, <1>4

\* handle_command: a Send moves from the channel to `pending` with its date.
LEMMA HandleKeeps ==
    ASSUME ClientInv, NEW back, Handle(back), UNCHANGED <<api, bounds>>,
           worker \notin Losing
    PROVE  ClientInv'
<1>1. /\ UNCHANGED <<generation, epoch, desired, background, api>>
      /\ ApiTyped' /\ commands \in Seq(Command) /\ commands # <<>>
      /\ pending \in Seq(Command) /\ incoming \in Seq(Nat)
  BY DEF Handle, bounds, ClientInv, Typed, ApiTyped
<1> DEFINE command == Head(commands)
<1>2. /\ command \in Command /\ command \in Range(commands)
      /\ Tail(commands) \in Seq(Command) /\ Range(Tail(commands)) \subseteq Range(commands)
  BY <1>1, RangeTail
<1>3. commands' = Tail(commands) \/ commands' = <<>>
  BY DEF Handle
<1>4. commands' \in Seq(Command) /\ Range(commands') \subseteq Range(commands)
  BY <1>2, <1>3, RangeEmpty, Zenon
<1>5. \/ pending' = pending
      \/ pending' = <<>>
      \/ command.kind = "Send" /\ pending' = Append(pending, command)
  BY DEF Handle, ClearPendingOnly
<1>6. /\ pending' \in Seq(Command)
      /\ Range(pending') \subseteq
             Range(pending) \union {r \in Range(commands) : r.kind = "Send"}
  <2> HIDE DEF command
  <2>1. CASE pending' = pending
    BY <1>1, <2>1
  <2>2. CASE pending' = <<>>
    BY <2>2, RangeEmpty
  <2>3. CASE command.kind = "Send" /\ pending' = Append(pending, command)
    BY <1>1, <1>2, <2>3, RangeAppend
  <2> QED
    BY <1>5, <2>1, <2>2, <2>3
<1>7. incoming' = incoming \/ incoming' = <<>>
  BY DEF Handle
<1>8. incoming' \in Seq(Nat) /\ Range(incoming') \subseteq Range(incoming)
  BY <1>1, <1>7, RangeEmpty, Zenon
<1>9. socket' \in {socket, None}
  BY DEF Handle
<1>10. api'.at = "bump" => ~Active'
  BY <1>1 DEF ClientInv, EpochsKnown, Active
<1> QED
  BY <1>1, <1>4, <1>6, <1>8, <1>9, <1>10, DropsOnly

LEMMA TakeCommands ==
    ASSUME ClientInv, Drain \/ Receive
    PROVE  ClientInv'
<1>1. worker \notin Losing /\ UNCHANGED <<api, bounds>>
  BY DEF Drain, Receive, Losing
<1>2. CASE \E back \in {"drain"} : Handle(back)
  BY <1>1, <1>2, HandleKeeps
<1>3. CASE ~ \E back \in {"drain"} : Handle(back)
  <2>1. UNCHANGED <<generation, epoch, commands, pending, incoming, socket, api>>
    BY <1>3 DEF Drain, Receive, shared, bounds
  <2>2. Active' => Active
    BY <1>3, Zenon DEF Drain, Receive, shared, Active
  <2> QED
    BY <1>1, <2>1, <2>2, QuietWorker
<1> QED
  BY <1>2, <1>3

-----------------------------------------------------------------------------
\* A socket is opened under the present generation, and never in the window
\* before a bump: the guard of the Ok arm reads desired and background.
LEMMA OpenedKeeps ==
    ASSUME ClientInv, Opened
    PROVE  ClientInv'
<1>1. UNCHANGED <<generation, epoch, desired, background, commands, pending, incoming, api>>
  BY DEF Opened, shared, bounds
<1>2. CASE ~(Active /\ generation = attempt)
  BY <1>1, <1>2, QuietWorker DEF Opened, Active, GoTo, Losing
<1>3. CASE Active /\ generation = attempt
  <2>1. socket' = [gen |-> generation, epoch |-> epoch, wire |-> {}]
    BY <1>3 DEF Opened
  <2>2. Era' = Era /\ Era = epoch
    BY <1>1, <1>3 DEF Era, ClientInv, EpochsKnown
  <2>3. Typed'
    BY <1>1, <2>1 DEF ClientInv, Typed, ApiTyped
  <2>4. Dated(socket)' /\ socket'.wire \subseteq {socket'.epoch}
    BY <1>1, <2>1, <2>2 DEF Dated, ClientInv, Typed
  <2>5. EpochsKnown'
    BY <1>1, <2>2, <2>4 DEF EpochsKnown, Dated, ClientInv, Active
  <2>6. MailCurrent'
    BY <1>1 DEF MailCurrent, ClientInv, Opened, Losing
  <2> QED
    BY <2>3, <2>5, <2>6 DEF ClientInv
<1> QED
  BY <1>2, <1>3

\* flush_pending: what is written carries the generation of the socket, which
\* is the present one, and so both carry its epoch.
LEMMA FlushKeeps ==
    ASSUME ClientInv, Flush
    PROVE  ClientInv'
<1>1. /\ UNCHANGED <<generation, epoch, desired, background, commands, incoming, api>>
      /\ worker \notin Losing
      /\ commands' \in Seq(Command) /\ incoming' \in Seq(Nat) /\ ApiTyped'
  BY DEF Flush, shared, Losing, ClientInv, Typed, ApiTyped
<1>2. api'.at = "bump" => ~Active'
  BY <1>1 DEF ClientInv, EpochsKnown, Active
<1>3. CASE pending = <<>>
  BY <1>1, <1>3, QuietWorker DEF Flush, Active
<1>4. CASE pending # <<>>
  <2> DEFINE record == Head(pending)
  <2>1. /\ record \in Command /\ record \in Range(pending)
        /\ pending' = Tail(pending)
        /\ pending' \in Seq(Command) /\ Range(pending') \subseteq Range(pending)
    BY <1>4, RangeTail, Zenon DEF Flush, ClientInv, Typed
  <2>2. CASE UNCHANGED socket
    BY <1>1, <1>2, <2>1, <2>2, DropsOnly
  <2>3. CASE ~UNCHANGED socket
    <3>1. /\ record.gen = socket.gen /\ generation = socket.gen
          /\ socket' = [socket EXCEPT !.wire = @ \union {record.epoch}]
      BY <1>4, <2>3 DEF Flush
    <3>2. record.epoch = socket.epoch /\ record.epoch \in Nat
      BY <2>1, <3>1 DEF ClientInv, EpochsKnown, Dated, Command
    <3> HIDE DEF record
    <3>3. /\ socket' \in [gen : Nat, epoch : Nat, wire : SUBSET Nat]
          /\ socket'.gen = socket.gen /\ socket'.epoch = socket.epoch
          /\ socket'.wire \subseteq {socket'.epoch}
      BY <3>1, <3>2 DEF ClientInv, Typed, EpochsKnown
    <3>4. Typed'
      BY <1>1, <2>1, <3>3 DEF ClientInv, Typed
    <3>5. Era' = Era
      BY <1>1 DEF Era
    <3>6. Dated(socket)'
      BY <1>1, <3>3, <3>5 DEF Dated, ClientInv, EpochsKnown
    <3>7. EpochsKnown'
      BY <1>1, <1>2, <2>1, <3>3, <3>5, <3>6 DEF EpochsKnown, Dated, ClientInv
    <3>8. MailCurrent'
      BY <1>1 DEF MailCurrent, ClientInv
    <3> QED
      BY <3>4, <3>7, <3>8 DEF ClientInv
  <2> QED
    BY <2>2, <2>3
<1> QED
  BY <1>3, <1>4

LEMMA ReadKeeps ==
    ASSUME ClientInv, Read
    PROVE  ClientInv'
<1>1. /\ UNCHANGED <<generation, epoch, desired, background, commands, pending, socket, api>>
      /\ worker \notin Losing
      /\ commands' \in Seq(Command) /\ pending' \in Seq(Command) /\ ApiTyped'
      /\ incoming \in Seq(Nat) /\ generation \in Nat
  BY DEF Read, shared, Losing, ClientInv, Typed, ApiTyped
<1>2. api'.at = "bump" => ~Active'
  BY <1>1 DEF ClientInv, EpochsKnown, Active
<1>3. incoming' = incoming \/ incoming' = Append(incoming, generation)
  BY DEF Read, Enqueue
<1>4. incoming' \in Seq(Nat) /\ Range(incoming') \subseteq Range(incoming) \union {generation}
  <2>1. CASE incoming' = incoming
    BY <1>1, <2>1
  <2>2. CASE incoming' = Append(incoming, generation)
    BY <1>1, <2>2, RangeAppend
  <2> QED
    BY <1>3, <2>1, <2>2
<1> QED
  BY <1>1, <1>2, <1>4, DropsOnly

LEMMA LostKeeps ==
    ASSUME ClientInv, Lost
    PROVE  ClientInv'
BY GenerationRises DEF Lost, ClearPendingOnly, bounds, GoTo, Losing, ClientInv, Typed, ApiTyped

-----------------------------------------------------------------------------
LEMMA StepKeeps ==
    ASSUME ClientInv, [ClientNext]_vars
    PROVE  ClientInv'
<1>1. CASE CallStart
  BY <1>1, QuietCalls, StartLeaving, ChannelCalls DEF CallStart
<1>2. CASE CallStep
  BY <1>2, QuietCalls, Leaving, ChannelCalls DEF CallStep
<1>3. CASE WorkerStep
  BY <1>3, QuietWorkerSteps, DroppingWorkerSteps, TakeCommands, OpenedKeeps, FlushKeeps,
     ReadKeeps, LostKeeps DEF WorkerStep
<1>4. CASE BackoffExpires \/ Dropped \/ UNCHANGED vars
  BY <1>4, QuietWorkerSteps DEF Dropped
<1> QED
  BY <1>1, <1>2, <1>3, <1>4 DEF ClientNext

\* Whatever carries the present generation was made since the application last
\* left its connection, at every step of the two threads.
THEOREM GenerationsDateEverything == ClientSpec => []ClientInv
<1>1. ClientInit => ClientInv
  BY InitClient
<1>2. ClientInv /\ [ClientNext]_vars => ClientInv'
  BY StepKeeps
<1> QED
  BY <1>1, <1>2, PTL DEF ClientSpec

\* flush_pending never writes to a connection what the application sent before
\* it left an earlier one.
THEOREM NothingIsReplayed == ClientSpec => []NothingReplayed
<1>1. ClientInv => NothingReplayed
  BY DEF ClientInv, EpochsKnown, NothingReplayed
<1> QED
  BY <1>1, GenerationsDateEverything, PTL

\* enqueue_incoming and the two places that empty the mailbox keep late mail
\* of an old connection out of what poll returns.
THEOREM MailIsCurrent == ClientSpec => []MailboxIsCurrent
<1>1. ASSUME ClientInv PROVE MailboxIsCurrent
  <2> SUFFICES ASSUME api = Idle, worker \notin Losing,
                      NEW i \in DOMAIN incoming
               PROVE  incoming[i] = generation
    BY DEF MailboxIsCurrent, Losing
  <2>1. api.at \notin Emptying
    BY DEF Idle, Emptying
  <2>2. incoming[i] \in Range(incoming)
    BY DEF Range
  <2> QED
    BY <1>1, <2>1, <2>2 DEF ClientInv, MailCurrent
<1> QED
  BY <1>1, GenerationsDateEverything, PTL
-----------------------------------------------------------------------------
(* The outbound budget: what reserve_outbound has taken and release_outbound *)
(* has not given back is what waits in the channel or in `pending`.          *)

\* The worker queues payloads only.
PendingPays == \A i \in DOMAIN pending : pending[i].kind = "Send"

OutboundInv == PendingPays /\ OutboundAccounted

\* The payloads and the bytes of a queue can be counted.
LEMMA QueueFinite ==
    ASSUME NEW s \in Seq(Command)
    PROVE  /\ IsFiniteSet(Sends(s)) /\ IsFiniteSet(Bytes(s))
           /\ Records(s) \in Nat /\ Total(s) \in Nat
<1>1. IsFiniteSet(1 .. Len(s)) /\ Sends(s) \subseteq 1 .. Len(s)
  <2>1. Len(s) \in Int /\ 1 \in Int /\ Sends(s) \subseteq 1 .. Len(s)
    BY DEF Sends
  <2> QED
    BY <2>1, FS_Interval
<1>2. IsFiniteSet(Sends(s))
  BY <1>1, FS_Subset
<1>3. ASSUME NEW i \in Sends(s) PROVE IsFiniteSet({i} \X (1 .. s[i].size))
  <2>1. s[i] \in Command
    BY DEF Sends
  <2>2. s[i].size \in Int /\ 1 \in Int
    BY <2>1 DEF Command
  <2>3. IsFiniteSet({i}) /\ IsFiniteSet(1 .. s[i].size)
    BY <2>2, FS_Interval, FS_Singleton, Zenon
  <2> QED
    BY <2>3, FS_Product, Zenon
<1>4. IsFiniteSet({{i} \X (1 .. s[i].size) : i \in Sends(s)})
  <2> DEFINE of == [i \in Sends(s) |-> {i} \X (1 .. s[i].size)]
             All == {{i} \X (1 .. s[i].size) : i \in Sends(s)}
  <2>1. of \in Surjection(Sends(s), All)
    BY Zenon DEF Surjection
  <2> QED
    BY <1>2, <2>1, FS_Surjection
<1>5. IsFiniteSet(Bytes(s))
  BY <1>3, <1>4, FS_UNION, Zenon DEF Bytes
<1> QED
  BY <1>2, <1>5, FS_CardinalityType DEF Records, Total

LEMMA DisjointUnion ==
    ASSUME NEW S, NEW T, IsFiniteSet(S), IsFiniteSet(T), S \intersect T = {}
    PROVE  Cardinality(S \union T) = Cardinality(S) + Cardinality(T)
<1>1. Cardinality(S) \in Nat /\ Cardinality(T) \in Nat
  BY FS_CardinalityType
<1>2. Cardinality(S \intersect T) = 0
  BY FS_EmptySet, Zenon
<1>3. Cardinality(S \union T) = Cardinality(S) + Cardinality(T) - Cardinality(S \intersect T)
  BY FS_Union
<1> QED
  BY <1>1, <1>2, <1>3

\* The bytes of one payload.
LEMMA PayloadBytes ==
    ASSUME NEW i, NEW n \in Nat
    PROVE  IsFiniteSet({i} \X (1 .. n)) /\ Cardinality({i} \X (1 .. n)) = n
<1>1. IsFiniteSet({i}) /\ Cardinality({i}) = 1
  BY FS_Singleton, Zenon
<1>2. /\ IsFiniteSet(1 .. n)
      /\ Cardinality(1 .. n) = IF 1 > n THEN 0 ELSE n - 1 + 1
  BY FS_Interval
<1>3. Cardinality(1 .. n) = n
  BY <1>2
<1>4. /\ IsFiniteSet({i} \X (1 .. n))
      /\ Cardinality({i} \X (1 .. n)) = Cardinality({i}) * Cardinality(1 .. n)
  BY <1>1, <1>2, FS_Product, Zenon
<1> QED
  BY <1>1, <1>3, <1>4

LEMMA QueueEmpty == Records(<<>>) = 0 /\ Total(<<>>) = 0
<1>1. Sends(<<>>) = {} /\ Bytes(<<>>) = {}
  BY DEF Sends, Bytes
<1> QED
  BY <1>1, FS_EmptySet DEF Records, Total

\* A payload that joins a queue brings one record and its bytes.
LEMMA QueueAppend ==
    ASSUME NEW s \in Seq(Command), NEW x \in Command
    PROVE  /\ x.kind = "Send" =>
                /\ Records(Append(s, x)) = Records(s) + 1
                /\ Total(Append(s, x)) = Total(s) + x.size
           /\ x.kind # "Send" =>
                /\ Records(Append(s, x)) = Records(s)
                /\ Total(Append(s, x)) = Total(s)
<1> DEFINE t == Append(s, x)
           n == Len(s) + 1
<1>1. /\ DOMAIN s = 1 .. Len(s) /\ DOMAIN t = (1 .. Len(s)) \union {n}
      /\ n \notin 1 .. Len(s)
  OBVIOUS
<1>2. t[n] = x /\ \A i \in 1 .. Len(s) : t[i] = s[i]
  OBVIOUS
<1> HIDE DEF t, n
<1>3. CASE x.kind = "Send"
  <2>1. Sends(t) = Sends(s) \union {n} /\ n \notin Sends(s)
    BY <1>1, <1>2, <1>3 DEF Sends
  <2>2. Bytes(t) = Bytes(s) \union ({n} \X (1 .. x.size))
    <3>1. \A i \in Sends(s) : t[i] = s[i]
      BY <1>1, <1>2 DEF Sends
    <3> QED
      BY <1>2, <2>1, <3>1 DEF Bytes
  <2>3. Bytes(s) \intersect ({n} \X (1 .. x.size)) = {}
    BY <2>1 DEF Bytes
  <2>4. x.size \in Nat
    BY DEF Command
  <2>5. Cardinality(Sends(t)) = Cardinality(Sends(s)) + 1
    BY <2>1, QueueFinite, FS_AddElement, Zenon
  <2>6. Cardinality(Bytes(t)) = Cardinality(Bytes(s)) + x.size
    <3>1. /\ IsFiniteSet({n} \X (1 .. x.size))
          /\ Cardinality({n} \X (1 .. x.size)) = x.size
      BY <2>4, PayloadBytes, Zenon
    <3> QED
      BY <2>2, <2>3, <3>1, QueueFinite, DisjointUnion
  <2> QED
    BY <1>3, <2>5, <2>6 DEF Records, Total, t
<1>4. CASE x.kind # "Send"
  <2>1. Sends(t) = Sends(s) /\ \A i \in Sends(s) : t[i] = s[i]
    BY <1>1, <1>2, <1>4 DEF Sends
  <2>2. Bytes(t) = Bytes(s)
    BY <2>1 DEF Bytes
  <2> QED
    BY <1>4, <2>1, <2>2 DEF Records, Total, t
<1> QED
  BY <1>3, <1>4

\* The head of a queue takes its record and its bytes with it.
LEMMA QueueTail ==
    ASSUME NEW s \in Seq(Command), s # <<>>
    PROVE  /\ Head(s).kind = "Send" =>
                /\ Records(s) = Records(Tail(s)) + 1
                /\ Total(s) = Total(Tail(s)) + Head(s).size
           /\ Head(s).kind # "Send" =>
                /\ Records(s) = Records(Tail(s))
                /\ Total(s) = Total(Tail(s))
<1> DEFINE t == Tail(s)
           Rest == Sends(s) \ {1}
           RestBytes == UNION {{i} \X (1 .. s[i].size) : i \in Rest}
           moved == [i \in Sends(t) |-> i + 1]
           shifted == [b \in Bytes(t) |-> <<b[1] + 1, b[2]>>]
<1>1. /\ t \in Seq(Command) /\ DOMAIN t = 1 .. Len(s) - 1
      /\ DOMAIN s = 1 .. Len(s) /\ Len(s) \in Nat /\ Len(s) > 0
      /\ Head(s) = s[1] /\ s[1] \in Command
  OBVIOUS
<1>2. \A i \in 1 .. Len(s) - 1 : t[i] = s[i + 1] /\ i + 1 \in 1 .. Len(s)
  BY <1>1
<1>3. \A i \in 1 .. Len(s) : i # 1 => i - 1 \in 1 .. Len(s) - 1 /\ t[i - 1] = s[i]
  BY <1>1, <1>2
<1> HIDE DEF t
<1>4. Cardinality(Rest) = Cardinality(Sends(t)) /\ IsFiniteSet(Rest)
  <2>1. \A i \in Sends(t) : i \in Nat /\ i > 0 /\ i + 1 \in Rest
    BY <1>1, <1>2 DEF Sends
  <2>2. \A i \in Rest : i - 1 \in Sends(t) /\ moved[i - 1] = i
    BY <1>1, <1>3 DEF Sends
  <2>3. moved \in [Sends(t) -> Rest] /\ \A i, j \in Sends(t) : moved[i] = moved[j] => i = j
    BY <2>1
  <2>4. \A i \in Rest : \E j \in Sends(t) : moved[j] = i
    BY <2>2, Zenon
  <2>5. moved \in Bijection(Sends(t), Rest)
    BY <2>3, <2>4 DEF Bijection, Injection, Surjection, IsInjective
  <2> QED
    BY <1>1, <2>5, QueueFinite, FS_Bijection DEF ExistsBijection
<1>5. Cardinality(RestBytes) = Cardinality(Bytes(t)) /\ IsFiniteSet(RestBytes)
  <2>1. \A i \in Sends(t) : i \in Nat /\ i > 0 /\ i + 1 \in Rest /\ s[i + 1] = t[i]
    BY <1>1, <1>2 DEF Sends
  <2>2. \A i \in Rest : i \in Nat /\ i - 1 \in Sends(t) /\ t[i - 1] = s[i]
    BY <1>1, <1>3 DEF Sends
  <2>3. \A b \in Bytes(t) : /\ b[1] \in Sends(t) /\ b[2] \in 1 .. t[b[1]].size
                            /\ b = <<b[1], b[2]>>
    BY DEF Bytes
  <2>4. \A b \in RestBytes : /\ b[1] \in Rest /\ b[2] \in 1 .. s[b[1]].size
                             /\ b = <<b[1], b[2]>>
    OBVIOUS
  <2>5. \A b \in Bytes(t) : <<b[1] + 1, b[2]>> \in RestBytes
    BY <2>1, <2>3
  <2>6. \A b \in RestBytes : <<b[1] - 1, b[2]>> \in Bytes(t)
    BY <2>2, <2>4 DEF Bytes
  <2>7. \A b \in RestBytes : shifted[<<b[1] - 1, b[2]>>] = b
    <3> SUFFICES ASSUME NEW b \in RestBytes PROVE shifted[<<b[1] - 1, b[2]>>] = b
      BY Zenon
    <3>1. shifted[<<b[1] - 1, b[2]>>] = <<(b[1] - 1) + 1, b[2]>>
      BY <2>6
    <3>2. (b[1] - 1) + 1 = b[1]
      BY <2>2, <2>4
    <3> QED
      BY <2>4, <3>1, <3>2, Zenon
  <2>8. ASSUME NEW b \in Bytes(t), NEW c \in Bytes(t), shifted[b] = shifted[c] PROVE b = c
    <3>1. <<b[1] + 1, b[2]>> = <<c[1] + 1, c[2]>>
      BY <2>8
    <3>2. b[1] + 1 = c[1] + 1 /\ b[2] = c[2]
      BY <3>1
    <3>3. b[1] = c[1]
      BY <2>1, <2>3, <3>2
    <3> QED
      BY <2>3, <3>2, <3>3
  <2>9. shifted \in [Bytes(t) -> RestBytes]
    BY <2>5
  <2> HIDE DEF shifted, RestBytes
  <2>10. shifted \in Bijection(Bytes(t), RestBytes)
    BY <2>6, <2>7, <2>8, <2>9, Zenon DEF Bijection, Injection, Surjection, IsInjective
  <2> QED
    BY <1>1, <2>10, QueueFinite, FS_Bijection DEF ExistsBijection
<1>6. CASE Head(s).kind = "Send"
  <2>1. Sends(s) = Rest \union {1} /\ 1 \notin Rest
    BY <1>1, <1>6 DEF Sends
  <2>2. Cardinality(Sends(s)) = Cardinality(Rest) + 1
    BY <1>4, <2>1, FS_AddElement, Zenon
  <2>3. /\ Bytes(s) = RestBytes \union ({1} \X (1 .. Head(s).size))
        /\ RestBytes \intersect ({1} \X (1 .. Head(s).size)) = {}
    BY <1>1, <2>1 DEF Bytes
  <2>4. /\ IsFiniteSet({1} \X (1 .. Head(s).size))
        /\ Cardinality({1} \X (1 .. Head(s).size)) = Head(s).size
        /\ Head(s).size \in Nat
    <3>1. Head(s).size \in Nat
      BY <1>1 DEF Command
    <3> QED
      BY <3>1, PayloadBytes, Zenon
  <2>5. Cardinality(Bytes(s)) = Cardinality(RestBytes) + Head(s).size
    <3> HIDE DEF RestBytes
    <3> QED
      BY <1>5, <2>3, <2>4, DisjointUnion
  <2> QED
    BY <1>4, <1>5, <1>6, <2>2, <2>5 DEF Records, Total, t
<1>7. CASE Head(s).kind # "Send"
  <2>1. Sends(s) = Rest
    BY <1>1, <1>7 DEF Sends
  <2>2. Bytes(s) = RestBytes
    BY <2>1 DEF Bytes
  <2> QED
    BY <1>4, <1>5, <1>7, <2>1, <2>2, Zenon DEF Records, Total, t
<1> QED
  BY <1>6, <1>7

-----------------------------------------------------------------------------
\* A step that moves no payload and touches no counter.
LEMMA NothingMoves ==
    ASSUME OutboundInv, UNCHANGED <<outRecords, outBytes, pending>>,
           Records(commands') = Records(commands), Total(commands') = Total(commands)
    PROVE  OutboundInv'
<1>1. PendingPays'
  BY DEF OutboundInv, PendingPays
<1>2. OutboundAccounted'
  BY DEF OutboundInv, OutboundAccounted
<1> QED
  BY <1>1, <1>2 DEF OutboundInv

\* clear_pending_only gives back what the worker's queue had reserved.
LEMMA PendingCleared ==
    ASSUME Typed, OutboundInv, ClearPendingOnly,
           Records(commands') = Records(commands), Total(commands') = Total(commands)
    PROVE  OutboundInv'
<1>1. /\ Records(pending) \in Nat /\ Total(pending) \in Nat
      /\ Records(commands) \in Nat /\ Total(commands) \in Nat
  BY QueueFinite DEF Typed
<1>2. /\ outRecords' = outRecords - Records(pending)
      /\ outBytes' = outBytes - Total(pending)
      /\ pending' = <<>>
  BY DEF ClearPendingOnly, Release
<1>3. /\ outRecords = Records(commands) + Records(pending)
      /\ outBytes = Total(commands) + Total(pending)
  BY DEF OutboundInv, OutboundAccounted
<1>4. Records(pending') = 0 /\ Total(pending') = 0
  BY <1>2, QueueEmpty
<1>5. /\ outRecords' = Records(commands') + Records(pending')
      /\ outBytes' = Total(commands') + Total(pending')
  BY <1>1, <1>2, <1>3, <1>4
<1>6. PendingPays'
  BY <1>2 DEF PendingPays
<1> QED
  BY <1>5, <1>6 DEF OutboundInv, OutboundAccounted

\* A control command carries no payload.
LEMMA ControlIsFree ==
    ASSUME Typed, NEW kind \in Kinds \ {"Send"},
           commands' = commands \/ commands' = Append(commands, Control(kind))
    PROVE  Records(commands') = Records(commands) /\ Total(commands') = Total(commands)
<1>1. Control(kind) \in Command /\ Control(kind).kind # "Send"
  BY DEF Control, Command
<1>2. CASE commands' = Append(commands, Control(kind))
  BY <1>1, <1>2, QueueAppend DEF Typed
<1> QED
  BY <1>2

\* send: the reservation and the payload enter together.
LEMMA SendReserves ==
    ASSUME Typed, OutboundInv, NEW size \in Sizes, Send(size)
    PROVE  OutboundInv'
<1> DEFINE payload == [kind |-> "Send", gen |-> generation, size |-> size, epoch |-> epoch]
<1>1. payload \in Command /\ payload.kind = "Send" /\ payload.size = size /\ size \in Nat
  BY ClientBounds DEF Command, Kinds, Typed
<1>2. /\ commands' = Append(commands, payload) /\ UNCHANGED pending
      /\ outRecords' = outRecords + 1 /\ outBytes' = outBytes + size
  BY DEF Send, local
<1> HIDE DEF payload
<1>3. /\ Records(pending) \in Nat /\ Total(pending) \in Nat
      /\ Records(commands) \in Nat /\ Total(commands) \in Nat
  BY QueueFinite DEF Typed
<1>4. Records(commands') = Records(commands) + 1 /\ Total(commands') = Total(commands) + size
  BY <1>1, <1>2, QueueAppend DEF Typed
<1>5. /\ outRecords = Records(commands) + Records(pending)
      /\ outBytes = Total(commands) + Total(pending)
  BY DEF OutboundInv, OutboundAccounted
<1>6. Records(pending') = Records(pending) /\ Total(pending') = Total(pending)
  BY <1>2
<1>7. outRecords' = outRecords + 1 /\ outBytes' = outBytes + size
  BY <1>2
<1>8. /\ outRecords' = Records(commands') + Records(pending')
      /\ outBytes' = Total(commands') + Total(pending')
  BY <1>1, <1>3, <1>4, <1>5, <1>6, <1>7
<1>9. PendingPays'
  BY <1>2 DEF OutboundInv, PendingPays
<1> QED
  BY <1>8, <1>9 DEF OutboundInv, OutboundAccounted

\* The calls of the application.
LEMMA CallsBalance ==
    ASSUME Typed, OutboundInv, CallStart \/ CallStep
    PROVE  OutboundInv'
<1>1. CASE Connect \/ ConnectLoad \/ Disconnect \/ Suspend \/ Foreground \/ ForegroundLoad
           \/ ForegroundStore \/ Poll \/ Shutdown \/ ShutdownJoin
  <2>1. UNCHANGED <<outRecords, outBytes, pending, commands>>
    BY <1>1 DEF Connect, ConnectLoad, Disconnect, Suspend, Foreground, ForegroundLoad,
                ForegroundStore, Poll, Shutdown, ShutdownJoin, budget, local
  <2> QED
    BY <2>1, NothingMoves, ZenonT(30)
<1>2. CASE ConnectStore
  <2>1. /\ UNCHANGED <<outRecords, outBytes, pending>>
        /\ commands' = commands \/ commands' = Append(commands, Control("Wake"))
    BY <1>2 DEF ConnectStore, TrySend, budget, local
  <2>2. "Wake" \in Kinds \ {"Send"}
    BY DEF Kinds
  <2> QED
    BY <2>1, <2>2, ControlIsFree, NothingMoves
<1>3. CASE LeaveStep
  <2>1. UNCHANGED <<outRecords, outBytes, pending>>
    BY <1>3 DEF LeaveStep, budget, local
  <2>2. CASE commands' = commands
    BY <2>1, <2>2, NothingMoves
  <2>3. CASE commands' # commands
    <3>1. /\ api.at = "tell"
          /\ commands' = commands \/ commands' = Append(commands, Control(api.call))
      BY <1>3, <2>3 DEF LeaveStep, Leave, TrySend
    <3>2. api.call \in Kinds \ {"Send"}
      BY <3>1 DEF Typed, ApiTyped, Kinds
    <3> QED
      BY <2>1, <3>1, <3>2, ControlIsFree, NothingMoves
  <2> QED
    BY <2>2, <2>3
<1>4. CASE ShutdownSend
  <2>1. /\ UNCHANGED <<outRecords, outBytes, pending>>
        /\ commands' = Append(commands, Control("Shutdown"))
    BY <1>4 DEF ShutdownSend, budget, local
  <2>2. "Shutdown" \in Kinds \ {"Send"}
    BY DEF Kinds
  <2> QED
    BY <2>1, <2>2, ControlIsFree, NothingMoves
<1>5. CASE \E size \in Sizes : Send(size)
  BY <1>5, SendReserves
<1> QED
  BY <1>1, <1>2, <1>3, <1>4, <1>5 DEF CallStart, CallStep

\* handle_command: a payload moves on with its reservation, or both go.
LEMMA HandleBalances ==
    ASSUME Typed, OutboundInv, NEW back, Handle(back)
    PROVE  OutboundInv'
<1> DEFINE command == Head(commands)
           rest == Tail(commands)
<1>1. /\ commands \in Seq(Command) /\ commands # <<>> /\ pending \in Seq(Command)
      /\ command \in Command /\ rest \in Seq(Command)
  BY RangeTail DEF Handle, Typed
<1>2. command.size \in Nat
  BY <1>1 DEF Command
<1>3. /\ Records(pending) \in Nat /\ Total(pending) \in Nat
      /\ Records(rest) \in Nat /\ Total(rest) \in Nat
      /\ Records(commands) \in Nat /\ Total(commands) \in Nat
  BY <1>1, QueueFinite, Zenon
<1>4. /\ outRecords = Records(commands) + Records(pending)
      /\ outBytes = Total(commands) + Total(pending)
  BY DEF OutboundInv, OutboundAccounted
<1>5. CASE command.kind # "Send"
  <2>1. Records(rest) = Records(commands) /\ Total(rest) = Total(commands)
    BY <1>1, <1>5, QueueTail
  <2>2. CASE command.kind \in {"Wake", "Resume"}
    <3>1. UNCHANGED <<outRecords, outBytes, pending>> /\ commands' = rest
      BY <1>5, <2>2 DEF Handle, budget
    <3> QED
      BY <2>1, <3>1, NothingMoves
  <2>3. CASE command.kind \in {"Disconnect", "Suspend"}
    <3>1. ClearPendingOnly /\ commands' = rest
      BY <1>5, <2>3 DEF Handle
    <3> QED
      BY <2>1, <3>1, PendingCleared
  <2>4. CASE command.kind = "Shutdown"
    <3>1. /\ outRecords' = outRecords - (Records(pending) + Records(rest))
          /\ outBytes' = outBytes - (Total(pending) + Total(rest))
          /\ pending' = <<>> /\ commands' = <<>>
      BY <1>5, <2>4 DEF Handle, Release
    <3>2. Records(pending') + Records(commands') = 0 /\ Total(pending') + Total(commands') = 0
      BY <3>1, QueueEmpty
    <3>3. outRecords' = 0 /\ outBytes' = 0
      BY <1>3, <1>4, <2>1, <3>1
    <3>4. PendingPays'
      BY <3>1 DEF PendingPays
    <3>5. OutboundAccounted'
      BY <3>1, <3>3, QueueEmpty DEF OutboundAccounted
    <3> QED
      BY <3>4, <3>5 DEF OutboundInv
  <2> QED
    BY <1>1, <1>5, <2>2, <2>3, <2>4 DEF Command, Kinds
<1>6. CASE command.kind = "Send"
  <2>1. /\ Records(commands) = Records(rest) + 1
        /\ Total(commands) = Total(rest) + command.size
    BY <1>1, <1>6, QueueTail
  <2>2. commands' = rest
    BY <1>6 DEF Handle
  <2>3. CASE command.gen = generation
    <3>1. pending' = Append(pending, command) /\ UNCHANGED <<outRecords, outBytes>>
      BY <1>6, <2>3 DEF Handle, budget
    <3> HIDE DEF command, rest
    <3>2. Records(pending') = Records(pending) + 1 /\ Total(pending') = Total(pending) + command.size
      BY <1>1, <1>6, <3>1, QueueAppend
    <3>3. outRecords' = outRecords /\ outBytes' = outBytes
      BY <3>1
    <3>4. Records(commands') = Records(rest) /\ Total(commands') = Total(rest)
      BY <2>2
    <3>5. /\ outRecords' = Records(commands') + Records(pending')
          /\ outBytes' = Total(commands') + Total(pending')
      BY <1>2, <1>3, <1>4, <2>1, <3>2, <3>3, <3>4
    <3>6. PendingPays'
      <4>1. \A i \in DOMAIN pending' : \/ i \in DOMAIN pending /\ pending'[i] = pending[i]
                                       \/ pending'[i] = command
        BY <1>1, <3>1
      <4> QED
        BY <1>6, <4>1 DEF OutboundInv, PendingPays
    <3> QED
      BY <3>5, <3>6 DEF OutboundInv, OutboundAccounted
  <2>4. CASE command.gen # generation
    <3>1. /\ UNCHANGED pending
          /\ outRecords' = outRecords - 1 /\ outBytes' = outBytes - command.size
      BY <1>6, <2>4 DEF Handle, Release
    <3> HIDE DEF command, rest
    <3>2. /\ Records(commands') = Records(rest) /\ Total(commands') = Total(rest)
          /\ Records(pending') = Records(pending) /\ Total(pending') = Total(pending)
      BY <2>2, <3>1
    <3>3. /\ outRecords' = Records(commands') + Records(pending')
          /\ outBytes' = Total(commands') + Total(pending')
      BY <1>2, <1>3, <1>4, <2>1, <3>1, <3>2
    <3>4. PendingPays'
      BY <3>1 DEF OutboundInv, PendingPays
    <3> QED
      BY <3>3, <3>4 DEF OutboundInv, OutboundAccounted
  <2> QED
    BY <2>3, <2>4
<1> QED
  BY <1>5, <1>6

\* flush_pending releases each payload it takes, written or stale.
LEMMA FlushBalances ==
    ASSUME Typed, OutboundInv, Flush
    PROVE  OutboundInv'
<1>1. UNCHANGED commands
  BY DEF Flush
<1>2. CASE pending = <<>>
  <2>1. UNCHANGED <<outRecords, outBytes, pending>>
    BY <1>2 DEF Flush, budget
  <2> QED
    BY <1>1, <2>1, NothingMoves
<1>3. CASE pending # <<>>
  <2> DEFINE record == Head(pending)
  <2>1. /\ pending' = Tail(pending)
        /\ outRecords' = outRecords - 1 /\ outBytes' = outBytes - record.size
    BY <1>3 DEF Flush, Release
  <2>2. /\ pending \in Seq(Command) /\ record = pending[1] /\ 1 \in DOMAIN pending
        /\ record \in Command /\ Tail(pending) \in Seq(Command)
    BY <1>3 DEF Typed
  <2>3. record.kind = "Send" /\ record.size \in Nat
    BY <2>2 DEF OutboundInv, PendingPays, Command
  <2>4. /\ Records(pending) = Records(Tail(pending)) + 1
        /\ Total(pending) = Total(Tail(pending)) + record.size
    BY <1>3, <2>2, <2>3, QueueTail
  <2>5. /\ Records(Tail(pending)) \in Nat /\ Total(Tail(pending)) \in Nat
        /\ Records(commands) \in Nat /\ Total(commands) \in Nat
    BY <2>2, QueueFinite, Zenon DEF Typed
  <2>6. /\ outRecords = Records(commands) + Records(pending)
        /\ outBytes = Total(commands) + Total(pending)
    BY DEF OutboundInv, OutboundAccounted
  <2>7. /\ Records(commands') = Records(commands) /\ Total(commands') = Total(commands)
        /\ Records(pending') = Records(Tail(pending)) /\ Total(pending') = Total(Tail(pending))
    BY <1>1, <2>1
  <2>8. outRecords' = outRecords - 1 /\ outBytes' = outBytes - record.size
    BY <2>1
  <2> HIDE DEF record
  <2>9. /\ outRecords' = Records(commands') + Records(pending')
        /\ outBytes' = Total(commands') + Total(pending')
    BY <2>3, <2>4, <2>5, <2>6, <2>7, <2>8
  <2>10. PendingPays'
    <3>1. \A i \in DOMAIN Tail(pending) : i + 1 \in DOMAIN pending /\ Tail(pending)[i] = pending[i + 1]
      BY <1>3, <2>2
    <3> QED
      BY <2>1, <3>1 DEF OutboundInv, PendingPays
  <2> QED
    BY <2>9, <2>10 DEF OutboundInv, OutboundAccounted
<1> QED
  BY <1>2, <1>3

\* The worker's steps.
LEMMA WorkerBalances ==
    ASSUME Typed, OutboundInv, WorkerStep
    PROVE  OutboundInv'
<1>1. CASE Drain \/ Receive
  <2>1. CASE \E back \in {"drain"} : Handle(back)
    BY <2>1, HandleBalances
  <2>2. CASE ~ \E back \in {"drain"} : Handle(back)
    <3>1. UNCHANGED <<outRecords, outBytes, pending, commands>>
      BY <1>1, <2>2 DEF Drain, Receive, budget
    <3> QED
      BY <3>1, NothingMoves
  <2> QED
    BY <2>1, <2>2
<1>2. CASE CheckGeneration \/ Inactive \/ ReportRejected \/ Lost
  <2>1. UNCHANGED commands
    BY <1>2 DEF CheckGeneration, Inactive, ReportRejected, Lost
  <2>2. ClearPendingOnly \/ UNCHANGED <<outRecords, outBytes, pending>>
    BY <1>2 DEF CheckGeneration, Inactive, ReportRejected, Lost, budget
  <2> QED
    BY <2>1, <2>2, PendingCleared, NothingMoves
<1>3. CASE Flush
  BY <1>3, FlushBalances, ZenonT(30)
<1>4. CASE CheckActive \/ BeginAttempt \/ Announce \/ OpenSocket \/ Opened \/ AbandonAttempt
           \/ PublishConnected \/ AcceptIncoming \/ Rejected \/ Read \/ ConnectionLost
           \/ LostStatus
  <2>1. UNCHANGED <<outRecords, outBytes, pending, commands>>
    BY <1>4 DEF CheckActive, BeginAttempt, Announce, OpenSocket, Opened, AbandonAttempt,
                PublishConnected, StoreStatus, AcceptIncoming, Rejected, Read,
                ConnectionLost, LostStatus, budget
  <2> QED
    BY <2>1, NothingMoves
<1> QED
  BY <1>1, <1>2, <1>3, <1>4 DEF WorkerStep

\* reserve_outbound and release_outbound balance on every path of the two
\* threads: the counters are what waits, payload by payload and byte by byte,
\* so they never underflow and a send is refused only for what really waits.
THEOREM OutboundIsExact == ClientSpec => []OutboundAccounted
<1>1. ClientInit => OutboundInv
  <2> SUFFICES ASSUME ClientInit PROVE OutboundInv
    OBVIOUS
  <2>1. /\ outRecords = 0 /\ outBytes = 0 /\ commands = <<>> /\ pending = <<>>
    BY DEF ClientInit
  <2>2. OutboundAccounted
    BY <2>1, QueueEmpty DEF OutboundAccounted
  <2>3. PendingPays
    BY <2>1 DEF PendingPays
  <2> QED
    BY <2>2, <2>3 DEF OutboundInv
<1>2. ClientInv /\ OutboundInv /\ [ClientNext]_vars => OutboundInv'
  <2> SUFFICES ASSUME ClientInv, OutboundInv, [ClientNext]_vars PROVE OutboundInv'
    OBVIOUS
  <2>1. Typed
    BY DEF ClientInv
  <2>2. CASE CallStart \/ CallStep
    BY <2>1, <2>2, CallsBalance
  <2>3. CASE WorkerStep
    BY <2>1, <2>3, WorkerBalances
  <2>4. CASE BackoffExpires \/ Dropped \/ UNCHANGED vars
    <3>1. UNCHANGED <<outRecords, outBytes, pending, commands>>
      BY <2>4 DEF BackoffExpires, Dropped, vars, budget, local
    <3> QED
      BY <3>1, NothingMoves
  <2> QED
    BY <2>2, <2>3, <2>4 DEF ClientNext
<1>3. OutboundInv => OutboundAccounted
  BY Zenon DEF OutboundInv
<1> QED
  BY <1>1, <1>2, <1>3, GenerationsDateEverything, PTL DEF ClientSpec


-----------------------------------------------------------------------------
(***************************************************************************)
(* The end of the transport.  shutdown() waits twice: for room in the      *)
(* command channel, which only a living worker makes, and for the worker   *)
(* to end, which only the Shutdown command makes it do.                    *)
(***************************************************************************)

ShutdownWaits == \E r \in Range(commands) : r.kind = "Shutdown"

\* The command is in the channel only during the join, the worker has ended only
\* by taking it, and then nothing is left with the worker.
ShutdownInv ==
    /\ ShutdownWaits => api.at = "join"
    /\ api.at = "join" => worker = "done" \/ ShutdownWaits
    /\ api.at = "dropped" => worker = "done"
    /\ worker = "done" => /\ api.at \in {"join", "dropped"}
                          /\ commands = <<>> /\ pending = <<>> /\ socket = None

\* Neither wait of shutdown() is in vain, and it returns with the socket closed
\* and every reservation given back: while it waits for room the worker runs;
\* while it waits for the worker, the worker has ended or has the command to
\* come.
ShutdownServed ==
    /\ api.at = "send_shutdown" => worker # "done"
    /\ api.at = "join" => worker = "done" \/ ShutdownWaits
    /\ api.at = "dropped" =>
          /\ worker = "done" /\ socket = None /\ commands = <<>>
          /\ outRecords = 0 /\ outBytes = 0

\* A command is the first of the channel or one of the rest.
LEMMA HeadOrTail ==
    ASSUME NEW S, NEW s \in Seq(S), s # <<>>
    PROVE  \A r \in Range(s) : r = Head(s) \/ r \in Range(Tail(s))
<1>1. /\ DOMAIN Tail(s) = 1 .. Len(s) - 1 /\ DOMAIN s = 1 .. Len(s)
      /\ Len(s) \in Nat /\ Len(s) > 0 /\ Head(s) = s[1]
  OBVIOUS
<1>2. \A i \in 1 .. Len(s) - 1 : Tail(s)[i] = s[i + 1]
  OBVIOUS
<1> SUFFICES ASSUME NEW i \in DOMAIN s, i # 1 PROVE s[i] \in Range(Tail(s))
  BY <1>1 DEF Range
<1>3. i - 1 \in DOMAIN Tail(s) /\ Tail(s)[i - 1] = s[i]
  BY <1>1, <1>2
<1> QED
  BY <1>3 DEF Range

\* A call that adds at most one command, other than Shutdown, and does not get
\* to the join.
LEMMA ShutdownNotYet ==
    ASSUME commands \in Seq(Command), ShutdownInv,
           api.at \notin {"join", "dropped"}, api'.at \notin {"join", "dropped"},
           UNCHANGED worker,
           NEW c \in Command, c.kind # "Shutdown",
           commands' \in {commands, Append(commands, c)}
    PROVE  ShutdownInv'
<1>1. worker # "done" /\ ~ShutdownWaits
  BY DEF ShutdownInv
<1>2. Range(commands') \subseteq Range(commands) \union {c}
  BY RangeAppend, Zenon
<1>3. ~ShutdownWaits'
  BY <1>1, <1>2 DEF ShutdownWaits
<1> QED
  BY <1>1, <1>3 DEF ShutdownInv

\* Every step of the application's thread.
LEMMA CallsServe ==
    ASSUME Typed, ShutdownInv, CallStart \/ CallStep
    PROVE  ShutdownInv'
<1> DEFINE Other == {"Wake", "Resume", "Disconnect", "Suspend"}
<1>1. commands \in Seq(Command)
  BY DEF Typed
<1>2. UNCHANGED <<worker, pending, socket>>
  <2>1. CASE CallStart
    BY <2>1, Zenon DEF CallStart, Connect, Disconnect, Suspend, Foreground, Poll, Shutdown, Send, local
  <2>2. CASE CallStep
    BY <2>2 DEF CallStep, ConnectLoad, ConnectStore, LeaveStep, ForegroundLoad,
                ForegroundStore, ShutdownSend, ShutdownJoin, local
  <2> QED
    BY <2>1, <2>2
<1>3. \A kind \in Other : Control(kind) \in Command /\ Control(kind).kind # "Shutdown"
  BY DEF Control, Command, Kinds
<1>4. CASE Connect \/ Disconnect \/ Suspend \/ Foreground \/ Poll \/ Shutdown
           \/ ConnectLoad \/ ForegroundLoad \/ ForegroundStore
  <2>1. /\ api.at \notin {"join", "dropped"} /\ api'.at \notin {"join", "dropped"}
        /\ commands' = commands
    BY <1>4 DEF Connect, Disconnect, Suspend, Foreground, Poll, Shutdown, ConnectLoad,
                ForegroundLoad, ForegroundStore, At, Idle
  <2> QED
    BY <1>1, <1>2, <1>3, <2>1, ShutdownNotYet, ZenonT(30)
<1>5. ASSUME NEW size \in Sizes, Send(size) PROVE ShutdownInv'
  <2> DEFINE c == [kind |-> "Send", gen |-> generation, size |-> size, epoch |-> epoch]
  <2>1. c \in Command /\ c.kind # "Shutdown"
    BY ClientBounds DEF Typed, Command, Kinds
  <2>2. /\ api.at \notin {"join", "dropped"} /\ api'.at \notin {"join", "dropped"}
        /\ commands' = Append(commands, c)
    BY <1>5 DEF Send, Idle
  <2> QED
    BY <1>1, <1>2, <2>1, <2>2, ShutdownNotYet, Zenon
<1>6. ASSUME NEW kind \in Other, TrySend(Control(kind)),
             api.at \notin {"join", "dropped"}, api' = Idle
      PROVE  ShutdownInv'
  <2>1. commands' \in {commands, Append(commands, Control(kind))}
    BY <1>6 DEF TrySend
  <2>2. api'.at \notin {"join", "dropped"}
    BY <1>6 DEF Idle
  <2> QED
    BY <1>1, <1>2, <1>3, <1>6, <2>1, <2>2, ShutdownNotYet
<1>7. CASE ConnectStore
  <2>1. TrySend(Control("Wake")) /\ api.at \notin {"join", "dropped"} /\ api' = Idle
    BY <1>7 DEF ConnectStore
  <2> QED
    BY <2>1, <1>6
<1>8. CASE LeaveStep
  <2>1. CASE api.at = "tell"
    <3>1. TrySend(Control(api.call)) /\ api' = Idle
      BY <1>8, <2>1 DEF LeaveStep, Leave
    <3>2. api.call \in Other
      BY <2>1, Zenon DEF Typed, ApiTyped
    <3> QED
      BY <2>1, <3>1, <3>2, <1>6
  <2>2. CASE api.at # "tell"
    <3>1. /\ api.at \notin {"join", "dropped"} /\ api'.at \notin {"join", "dropped"}
          /\ commands' = commands
      BY <1>8, <2>2 DEF LeaveStep, Leave, At, shared
    <3> QED
      BY <1>1, <1>2, <1>3, <3>1, ShutdownNotYet
  <2> QED
    BY <2>1, <2>2
<1>9. CASE ShutdownSend
  <2>1. /\ commands' = Append(commands, Control("Shutdown"))
        /\ api.at = "send_shutdown" /\ api'.at = "join"
    BY <1>9 DEF ShutdownSend, At
  <2>2. Control("Shutdown") \in Command /\ Control("Shutdown").kind = "Shutdown"
    BY DEF Control, Command, Kinds
  <2>3. ShutdownWaits'
    BY <1>1, <2>1, <2>2, RangeAppend DEF ShutdownWaits
  <2>4. worker' # "done"
    BY <1>2, <2>1, ZenonT(30) DEF ShutdownInv
  <2> QED
    BY <2>1, <2>3, <2>4 DEF ShutdownInv
<1>10. CASE ShutdownJoin
  <2>1. worker = "done" /\ api'.at = "dropped" /\ commands' = commands
    BY <1>10 DEF ShutdownJoin, At
  <2>2. commands = <<>> /\ pending = <<>> /\ socket = None
    BY <2>1 DEF ShutdownInv
  <2>3. ~ShutdownWaits'
    BY <2>1, <2>2, RangeEmpty DEF ShutdownWaits
  <2> QED
    BY <1>2, <2>1, <2>2, <2>3 DEF ShutdownInv, None
<1> QED
  BY <1>4, <1>5, <1>7, <1>8, <1>9, <1>10 DEF CallStart, CallStep

\* The worker takes a command.
LEMMA HandleServes ==
    ASSUME Typed, ShutdownInv, Handle("drain"), worker # "done", UNCHANGED api
    PROVE  ShutdownInv'
<1>1. commands \in Seq(Command) /\ commands # <<>>
  BY DEF Typed, Handle
<1>2. CASE Head(commands).kind = "Shutdown"
  <2>1. /\ worker' = "done" /\ commands' = <<>> /\ pending' = <<>> /\ socket' = None
    BY <1>2 DEF Handle, GoTo
  <2>2. api.at = "join"
    BY <1>1, <1>2, RangeTail DEF ShutdownInv, ShutdownWaits
  <2>3. ~ShutdownWaits'
    BY <2>1, RangeEmpty DEF ShutdownWaits
  <2> QED
    BY <2>1, <2>2, <2>3 DEF ShutdownInv, None
<1>3. CASE Head(commands).kind # "Shutdown"
  <2>1. worker' = "drain" /\ commands' = Tail(commands)
    BY <1>3 DEF Handle, GoTo
  <2>2. ShutdownWaits' <=> ShutdownWaits
    BY <1>1, <1>3, <2>1, RangeTail, HeadOrTail DEF ShutdownWaits
  <2> QED
    BY <2>1, <2>2 DEF ShutdownInv
<1> QED
  BY <1>2, <1>3

\* Every step of the worker.
LEMMA WorkerServes ==
    ASSUME Typed, ShutdownInv, WorkerStep
    PROVE  ShutdownInv'
<1>1. CASE (Drain \/ Receive) /\ Handle("drain")
  <2>1. worker # "done" /\ UNCHANGED api
    BY <1>1 DEF Drain, Receive
  <2> QED
    BY <1>1, <2>1, HandleServes
<1>2. CASE ~((Drain \/ Receive) /\ Handle("drain"))
  <2>1. UNCHANGED <<api, commands>> /\ worker # "done" /\ worker' # "done"
    <3>1. CASE Drain \/ Receive
      BY <1>2, <3>1, ZenonT(30) DEF Drain, Receive, GoTo
    <3>2. CASE CheckGeneration \/ CheckActive \/ Inactive \/ BeginAttempt \/ OpenSocket \/ Opened
      BY <3>2 DEF CheckGeneration, CheckActive, Inactive, BeginAttempt, OpenSocket, Opened, GoTo
    <3>3. CASE Announce \/ AbandonAttempt \/ PublishConnected \/ AcceptIncoming
               \/ Rejected \/ ReportRejected
      BY <3>3 DEF Announce, AbandonAttempt, PublishConnected, StoreStatus, AcceptIncoming,
                  Rejected, ReportRejected, GoTo
    <3>4. CASE Flush
      BY <3>4 DEF Flush, GoTo
    <3>5. CASE Read
      BY <3>5 DEF Read, GoTo
    <3>6. CASE Lost \/ ConnectionLost \/ LostStatus
      BY <3>6 DEF Lost, ConnectionLost, LostStatus, GoTo
    <3> QED
      BY <3>1, <3>2, <3>3, <3>4, <3>5, <3>6, Zenon DEF WorkerStep
  <2>2. ShutdownWaits' <=> ShutdownWaits
    BY <2>1 DEF ShutdownWaits
  <2> QED
    BY <2>1, <2>2 DEF ShutdownInv
<1> QED
  BY <1>1, <1>2

LEMMA ServedAlways == ClientSpec => []ShutdownInv
<1>1. ClientInit => ShutdownInv
  <2> SUFFICES ASSUME ClientInit PROVE ShutdownInv
    OBVIOUS
  <2>1. ~ShutdownWaits
    BY RangeEmpty DEF ClientInit, ShutdownWaits
  <2> QED
    BY <2>1 DEF ClientInit, ShutdownInv, Idle
<1>2. ClientInv /\ ShutdownInv /\ [ClientNext]_vars => ShutdownInv'
  <2> SUFFICES ASSUME Typed, ShutdownInv, [ClientNext]_vars PROVE ShutdownInv'
    BY DEF ClientInv
  <2>1. CASE CallStart \/ CallStep
    BY <2>1, CallsServe
  <2>2. CASE WorkerStep
    BY <2>2, WorkerServes, Zenon
  <2>3. CASE BackoffExpires \/ Dropped \/ UNCHANGED vars
    <3>1. UNCHANGED <<api, commands, worker, pending, socket>>
      BY <2>3 DEF BackoffExpires, Dropped, vars, local
    <3> QED
      BY <3>1 DEF ShutdownInv, ShutdownWaits, None
  <2> QED
    BY <2>1, <2>2, <2>3 DEF ClientNext
<1> QED
  BY <1>1, <1>2, GenerationsDateEverything, PTL DEF ClientSpec

\* shutdown() is always served: its blocking send has a living worker to make
\* room, its join has a worker that has ended or is still to take the command,
\* and when it returns the socket is closed and nothing is reserved.  (That the
\* worker then takes its steps is the fairness ShutdownReturns assumes.)
THEOREM ShutdownIsServed == ClientSpec => []ShutdownServed
<1>1. ShutdownInv /\ OutboundAccounted => ShutdownServed
  <2> SUFFICES ASSUME ShutdownInv, OutboundAccounted PROVE ShutdownServed
    OBVIOUS
  <2>1. ASSUME api.at = "dropped"
        PROVE  /\ worker = "done" /\ socket = None /\ commands = <<>>
               /\ outRecords = 0 /\ outBytes = 0
    <3>1. worker = "done" /\ socket = None /\ commands = <<>> /\ pending = <<>>
      BY <2>1 DEF ShutdownInv
    <3>2. outRecords = 0 + 0 /\ outBytes = 0 + 0
      BY <3>1, QueueEmpty DEF OutboundAccounted
    <3> QED
      BY <3>1, <3>2
  <2> QED
    BY <2>1 DEF ShutdownInv, ShutdownServed
<1> QED
  BY <1>1, ServedAlways, OutboundIsExact, PTL

=============================================================================
