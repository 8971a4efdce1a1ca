---------------------------- MODULE NetworkHost ----------------------------
(***************************************************************************)
(* The native session host (src/crates/stasis_network/src/lib.rs): the     *)
(* application's thread polls events, sends and stops; a listener thread   *)
(* accepts connections and hands payloads to their writers; one thread per *)
(* connection answers HTTP or serves a WebSocket session.  They share one  *)
(* budget of buffered bytes, two bounded channels, the table of writers    *)
(* and the table of resume credentials.  A payload is one unit of bytes;   *)
(* credentials are numbered in the order they are first seen, which is the *)
(* order of their handles, so a handle is its place in the resume table.   *)
(* What arrives over a connection, and when it breaks, is nondeterministic.*)
(***************************************************************************)
EXTENDS Integers, Sequences, FiniteSets, Functions

CONSTANTS
    MaxSeats,        \* MAX_SEATS: resume records the host keeps
    MaxConnections,  \* max_connections: connections served at a time
    MaxBuffered,     \* max_buffered_bytes
    MaxEvents,       \* the capacity of the event and command channels
    MaxQueued,       \* the capacity of one writer's channel
    MaxAccepts,      \* bound: connections of a behaviour
    MaxSends,        \* bound: payloads the application sends
    MaxMessages      \* bound: messages that arrive

ASSUME HostBounds ==
    {MaxSeats, MaxConnections, MaxBuffered, MaxEvents, MaxQueued, MaxAccepts,
     MaxSends, MaxMessages} \subseteq Nat

VARIABLES
    stopped, buffered, active,  \* atomics of Shared
    lost,                       \* overflow_count > 0
    events, commands,           \* the two channels
    writers,                    \* handle -> the connection holding the receiver
    resume,                     \* resume_credentials: the active flag of each handle
    conns,                      \* the connection threads, in order of accept
    listener,                   \* the listener thread: [at, target]
    app,                        \* the application's thread
    sends, messages,            \* bounds
    view                        \* handle -> what poll last said of it

hostVars == <<stopped, buffered, active, lost, events, commands,
              writers, resume, conns, listener, app, sends, messages, view>>

Threads == 1 .. Len(conns)
Listening == [at |-> "command", target |-> 0]

HostInit ==
    /\ stopped = FALSE /\ buffered = 0 /\ active = 0
    /\ lost = FALSE
    /\ events = <<>> /\ commands = <<>>
    /\ writers = <<>> /\ resume = <<>> /\ conns = <<>>
    /\ listener = Listening
    /\ app = "running"
    /\ sends = 0 /\ messages = 0
    /\ view = <<>>

-----------------------------------------------------------------------------
(* The budget and the event channel. *)

\* An event of a session names its handle; the others only say what happened.
Event(kind, handle, bytes) == [kind |-> kind, connection |-> handle, bytes |-> bytes]
Rejected == Event("Rejected", 0, 0)
Overflow == Event("Overflow", 0, 0)

\* publish: reserve the payload, then try_send; either failure is an overflow,
\* the first of which is itself announced when there is room.  `spare` is what
\* the step released before.
Publish(event, spare) ==
    LET held == buffered - spare
        room == Len(events) < MaxEvents
        afford == event.bytes <= MaxBuffered - held
    IN /\ events' = IF ~room THEN events
                    ELSE Append(events, IF afford THEN event ELSE Overflow)
       /\ lost' = (lost \/ ~room \/ ~afford)
       /\ buffered' = IF room /\ afford THEN held + event.bytes ELSE held

\* note_overflow.
NoteOverflow ==
    /\ lost' = TRUE
    /\ events' = IF Len(events) < MaxEvents THEN Append(events, Overflow) ELSE events

-----------------------------------------------------------------------------
(* The application's thread. *)

Poll ==
    /\ app = "running"
    /\ events # <<>>
    /\ LET event == Head(events) IN
       /\ events' = Tail(events)
       /\ buffered' = buffered - event.bytes
       /\ view' = IF event.kind \in {"Connected", "Disconnected"}
                  THEN [h \in DOMAIN view \union {event.connection} |->
                            IF h = event.connection THEN event.kind ELSE view[h]]
                  ELSE view
    /\ UNCHANGED <<stopped, active, lost, commands, writers,
                   resume, conns, listener, app, sends, messages>>

\* send: reserve, then try_send; a full or a closed channel gives them back.
Send(handle) ==
    /\ app = "running"
    /\ sends < MaxSends
    /\ sends' = sends + 1
    /\ \/ /\ buffered < MaxBuffered /\ listener.at # "done"
          /\ Len(commands) < MaxEvents
          /\ commands' = Append(commands, handle)
          /\ buffered' = buffered + 1
          /\ UNCHANGED <<lost, events>>
       \/ /\ buffered < MaxBuffered /\ listener.at # "done"
          /\ Len(commands) >= MaxEvents
          /\ NoteOverflow
          /\ UNCHANGED <<commands, buffered>>
       \/ /\ buffered >= MaxBuffered
          /\ UNCHANGED <<commands, buffered, lost, events>>
       \/ /\ listener.at = "done"
          /\ UNCHANGED <<commands, buffered, lost, events>>
    /\ UNCHANGED <<stopped, active, writers, resume, conns,
                   listener, app, messages, view>>

\* stop: raise the flag, try to queue Stop (command 0), then join the listener.
Stop ==
    /\ app = "running"
    /\ stopped' = TRUE
    /\ commands' = IF Len(commands) < MaxEvents THEN Append(commands, 0) ELSE commands
    /\ app' = "joining"
    /\ UNCHANGED <<buffered, active, lost, events, writers,
                   resume, conns, listener, sends, messages, view>>

Joined ==
    /\ app = "joining"
    /\ listener.at = "done"
    /\ app' = "stopped"
    /\ UNCHANGED <<stopped, buffered, active, lost, events,
                   commands, writers, resume, conns, listener, sends, messages, view>>

-----------------------------------------------------------------------------
(* The listener thread: one command, then one look at the socket and at        *)
(* `stopped`.  An empty command channel costs no step of its own.             *)

ListenAt(place) == listener' = [Listening EXCEPT !.at = place]

\* A Send finds its writer (a clone of the sender, used in the next step) or
\* is turned away; Stop ends the loop.
TakeCommand ==
    /\ listener.at = "command"
    /\ commands # <<>>
    /\ commands' = Tail(commands)
    /\ LET handle == Head(commands) IN
       \/ /\ handle = 0
          /\ ListenAt("join")
          /\ UNCHANGED <<buffered, lost, events>>
       \/ /\ handle # 0 /\ handle \in DOMAIN writers
          /\ listener' = [at |-> "hand_over", target |-> writers[handle]]
          /\ UNCHANGED <<buffered, lost, events>>
       \/ /\ handle # 0 /\ handle \notin DOMAIN writers
          /\ Publish(Rejected, 1)
          /\ ListenAt("accept")
    /\ UNCHANGED <<stopped, active, writers, resume, conns, app,
                   sends, messages, view>>

\* sender.try_send on the clone.
HandOver ==
    /\ listener.at = "hand_over"
    /\ LET target == listener.target IN
       \/ /\ conns[target].receiving /\ conns[target].queued < MaxQueued
          /\ conns' = [conns EXCEPT ![target].queued = @ + 1]
          /\ UNCHANGED <<buffered, lost, events>>
       \/ /\ conns[target].receiving /\ conns[target].queued >= MaxQueued
          /\ buffered' = buffered - 1
          /\ NoteOverflow
          /\ UNCHANGED conns
       \/ /\ ~conns[target].receiving
          /\ Publish(Rejected, 1)
          /\ UNCHANGED conns
    /\ ListenAt("accept")
    /\ UNCHANGED <<stopped, active, commands, writers, resume,
                   app, sends, messages, view>>

NewConnection == [at |-> "request", handle |-> 0, queued |-> 0, receiving |-> FALSE]

Accepting == listener.at = "accept" \/ (listener.at = "command" /\ commands = <<>>)

\* The end of the loop's body.
CheckStopped == ListenAt(IF stopped THEN "join" ELSE "command")

\* accept finds nobody (or a thread that cannot be started).
AcceptNobody ==
    /\ Accepting
    /\ CheckStopped
    /\ UNCHANGED <<stopped, buffered, active, lost, events, commands, writers,
                   resume, conns, app, sends, messages, view>>

\* A connection arrives: it gets its thread, or is one too many, which skips
\* the look at `stopped`.
Accept ==
    /\ Accepting
    /\ \/ /\ active >= MaxConnections
          /\ NoteOverflow
          /\ ListenAt("command")
          /\ UNCHANGED <<active, conns>>
       \/ /\ active < MaxConnections /\ Len(conns) < MaxAccepts
          /\ active' = active + 1
          /\ conns' = Append(conns, NewConnection)
          /\ CheckStopped
          /\ UNCHANGED <<lost, events>>
    /\ UNCHANGED <<stopped, buffered, commands, writers, resume, app, sends,
                   messages, view>>

\* An error of accept ends the loop as Stop does, with `stopped` still down.
AcceptFails ==
    /\ Accepting
    /\ ListenAt("join")
    /\ UNCHANGED <<stopped, buffered, active, lost, events, commands, writers,
                   resume, conns, app, sends, messages, view>>

\* Joining every worker; then the command receiver is dropped.
JoinWorkers ==
    /\ listener.at = "join"
    /\ \A t \in Threads : conns[t].at = "done"
    /\ ListenAt("done")
    /\ UNCHANGED <<stopped, buffered, active, lost, events,
                   commands, writers, resume, conns, app, sends, messages, view>>

-----------------------------------------------------------------------------
(* The connection threads. *)

Move(t, place) == conns' = [conns EXCEPT ![t].at = place]

\* The steps of thread t that publish an event and go on.
Announce(t, from, event, to) ==
    /\ conns[t].at = from
    /\ Publish(event, 0)
    /\ Move(t, to)
    /\ UNCHANGED <<stopped, active, commands, writers, resume,
                   listener, app, sends, messages, view>>

\* The steps of thread t that change nothing but where it is.
Silent(t, from, to) ==
    /\ conns[t].at = from
    /\ Move(t, to)
    /\ UNCHANGED <<stopped, buffered, active, lost, events,
                   commands, writers, resume, listener, app, sends, messages, view>>

\* The peer goes before its header is complete, or the header is an HTTP
\* request served (HttpRequest carries the path) or an unacceptable request
\* (Rejected).  A WebSocket upgrade goes on to ClaimResume.
Request(t) ==
    \/ Silent(t, "request", "finish")
    \/ Announce(t, "request", Event("HttpRequest", 0, 1), "finish")
    \/ Announce(t, "request", Rejected, "finish")

\* claim_resume, inside the handshake's callback: the handle of a known
\* credential unless it is in use, a fresh handle while seats remain; or Rejected.
ClaimResume(t) ==
    /\ conns[t].at = "request"
    /\ \E handle \in 1 .. Len(resume) + 1 :
       \/ /\ handle <= Len(resume) /\ ~resume[handle]
          /\ resume' = [resume EXCEPT ![handle] = TRUE]
          /\ conns' = [conns EXCEPT ![t].at = "claimed", ![t].handle = handle]
          /\ UNCHANGED <<buffered, lost, events>>
       \/ /\ handle > Len(resume) /\ Len(resume) < MaxSeats
          /\ resume' = Append(resume, TRUE)
          /\ conns' = [conns EXCEPT ![t].at = "claimed", ![t].handle = handle]
          /\ UNCHANGED <<buffered, lost, events>>
       \/ /\ IF handle <= Len(resume) THEN resume[handle] ELSE Len(resume) >= MaxSeats
          /\ Publish(Rejected, 0)
          /\ Move(t, "finish")
          /\ UNCHANGED resume
    /\ UNCHANGED <<stopped, active, commands, writers, listener, app, sends,
                   messages, view>>

\* release_resume.
ReleaseResume(t, from, to) ==
    /\ conns[t].at = from
    /\ resume' = [resume EXCEPT ![conns[t].handle] = FALSE]
    /\ Move(t, to)
    /\ UNCHANGED <<stopped, buffered, active, lost, events,
                   commands, writers, listener, app, sends, messages, view>>

\* Mutant of HandshakeFails: the claim is not given back.
HandshakeFailsHolding(t) == Announce(t, "claimed", Rejected, "finish")

\* The handshake fails after the claim, which is given back.
HandshakeFails(t) ==
    \/ ReleaseResume(t, "claimed", "refused")
    \/ Announce(t, "refused", Rejected, "finish")

\* It succeeds: websocket_loop makes its channel and enters its writer.
InsertWriter(t) ==
    /\ conns[t].at = "claimed"
    /\ LET handle == conns[t].handle IN
       writers' = [h \in DOMAIN writers \union {handle} |->
                       IF h = handle THEN t ELSE writers[h]]
    /\ conns' = [conns EXCEPT ![t].at = "greet", ![t].receiving = TRUE]
    /\ UNCHANGED <<stopped, buffered, active, lost, events,
                   commands, resume, listener, app, sends, messages, view>>

\* Mutant of Round: the session does not look at `stopped`.
RoundForever == "serve"

\* The loop's look at `stopped`.
Round == IF stopped THEN "remove" ELSE "serve"

\* One payload of the writer's channel is written, or fails to be (which ends
\* the writing of this round); its bytes are released either way.
WriteOne(t) ==
    /\ conns[t].at = "serve"
    /\ conns[t].queued > 0
    /\ \E to \in {"serve", "read"} :
          conns' = [conns EXCEPT ![t].queued = @ - 1, ![t].at = to]
    /\ buffered' = buffered - 1
    /\ UNCHANGED <<stopped, active, lost, events, commands,
                   writers, resume, listener, app, sends, messages, view>>

\* socket.read comes once the channel is empty or a write has failed.
Reading(t) == conns[t].at = "read" \/ (conns[t].at = "serve" /\ conns[t].queued = 0)

\* It finds nothing within the read timeout (or a control frame).
ReadNothing(t) ==
    /\ Reading(t)
    /\ Silent(t, conns[t].at, Round)

\* It finds a message, a close frame or an error.
ReadPeer(t) ==
    /\ Reading(t)
    /\ \/ /\ messages < MaxMessages
          /\ messages' = messages + 1
          /\ Publish(Event("Message", conns[t].handle, 1), 0)
          /\ Move(t, Round)
       \/ /\ Move(t, "remove")
          /\ UNCHANGED <<buffered, lost, events, messages>>
    /\ UNCHANGED <<stopped, active, commands, writers, resume, listener, app,
                   sends, view>>

Greet(t) == Announce(t, "greet", Event("Connected", conns[t].handle, 1), Round)

RemoveWriter(t) ==
    /\ conns[t].at = "remove"
    /\ writers' = Restrict(writers, DOMAIN writers \ {conns[t].handle})
    /\ Move(t, "drain")
    /\ UNCHANGED <<stopped, buffered, active, lost, events,
                   commands, resume, listener, app, sends, messages, view>>

\* Mutant of DrainWriter: the drained payloads are not released.
DrainWriterKeeping(t) ==
    /\ conns[t].at = "drain"
    /\ conns' = [conns EXCEPT ![t].at = "farewell", ![t].queued = 0]
    /\ UNCHANGED <<stopped, buffered, active, lost, events, commands, writers,
                   resume, listener, app, sends, messages, view>>

DrainWriter(t) ==
    /\ conns[t].at = "drain"
    /\ buffered' = buffered - conns[t].queued
    /\ conns' = [conns EXCEPT ![t].at = "farewell", ![t].queued = 0]
    /\ UNCHANGED <<stopped, active, lost, events, commands,
                   writers, resume, listener, app, sends, messages, view>>

\* Mutant of Depart: the claim is released before Disconnected is published.
DepartReleasingFirst(t) ==
    \/ RemoveWriter(t)
    \/ DrainWriter(t)
    \/ ReleaseResume(t, "farewell", "release")
    \/ Announce(t, "release", Event("Disconnected", conns[t].handle, 0), "finish")

Depart(t) ==
    \/ RemoveWriter(t)
    \/ DrainWriter(t)
    \/ Announce(t, "farewell", Event("Disconnected", conns[t].handle, 0), "release")
    \/ ReleaseResume(t, "release", "finish")

\* The receiver is dropped with whatever it holds, and finish() counts down.
Finish(t) ==
    /\ conns[t].at = "finish"
    /\ active' = active - 1
    /\ conns' = [conns EXCEPT ![t] = [NewConnection EXCEPT !.at = "done",
                                                           !.queued = conns[t].queued]]
    /\ UNCHANGED <<stopped, buffered, lost, events, commands,
                   writers, resume, listener, app, sends, messages, view>>

\* What a peer does, at any time or never.
PeerStep(t) == Request(t) \/ ClaimResume(t) \/ ReadPeer(t)

\* What a connection's thread does by itself: every wait of it has a timeout.
ThreadStep(t) ==
    \/ stopped /\ Silent(t, "request", "finish")
    \/ HandshakeFails(t) \/ InsertWriter(t) \/ Greet(t) \/ WriteOne(t)
    \/ ReadNothing(t) \/ Depart(t) \/ Finish(t)

ListenerStep == TakeCommand \/ HandOver \/ AcceptNobody \/ JoinWorkers

AppStep == Poll \/ Stop \/ \E handle \in DOMAIN resume : Send(handle)

\* The host has stopped: nothing more happens.
Over == app = "stopped" /\ UNCHANGED hostVars

HostNext ==
    \/ AppStep \/ Joined \/ ListenerStep \/ Accept \/ AcceptFails \/ Over
    \/ \E t \in Threads : PeerStep(t) \/ ThreadStep(t)

HostSpec == HostInit /\ [][HostNext]_hostVars

\* Every thread that can run does, and a write to a socket returns.  Neither the
\* application nor a peer owes anything; accept does find nobody now and then.
FairHost ==
    /\ HostSpec
    /\ WF_hostVars(ListenerStep)
    /\ WF_hostVars(Joined)
    /\ \A t \in 1 .. MaxAccepts : WF_hostVars(t \in Threads /\ ThreadStep(t))

-----------------------------------------------------------------------------
(* Properties. *)

\* Where a thread owns its handle: from the claim to release_resume.
Holding == {"claimed", "greet", "serve", "read", "remove", "drain", "farewell",
            "release"}
\* Where its writer is in the table.
Listed == {"greet", "serve", "read", "remove"}

Holders(handle) == {t \in Threads : conns[t].at \in Holding /\ conns[t].handle = handle}

\* What is in a channel, in the listener's hand or in a writer's queue.
Loaded == {i \in DOMAIN events : events[i].bytes # 0}
Ordered == {i \in DOMAIN commands : commands[i] # 0}
InHand == IF listener.at = "hand_over" THEN 1 ELSE 0
Queued == UNION {{t} \X (1 .. conns[t].queued) : t \in Threads}

InFlight == Cardinality(Loaded) + Cardinality(Ordered) + InHand + Cardinality(Queued)

\* Every reserved byte is in exactly one place, and each place gives it back
\* once: no path of send, listener_loop, websocket_loop, publish or poll
\* releases twice (buffered_bytes would wrap) or forgets to.  The one exception
\* is bounded: websocket_loop takes its writer out of the table before it
\* drains the channel, so only the payload whose sender listener_loop had
\* already cloned can still get in behind the drain, where its bytes are never
\* released.
BufferedAccounted ==
    /\ buffered = InFlight
    /\ \A t \in Threads :
          conns[t].at \in {"farewell", "release", "finish", "done"} => conns[t].queued <= 1

\* A credential is marked active exactly while one thread holds its handle, so
\* no path of the handshake or the session leaves a seat that can never be
\* resumed, and a writer is in the table exactly while that thread serves it.
ClaimsHaveHolders ==
    /\ \A h \in DOMAIN resume : resume[h] <=> Holders(h) # {}
    /\ \A h \in DOMAIN resume : \A t, u \in Holders(h) : t = u
    /\ \A t \in Threads :
          conns[t].at \in Listed => /\ conns[t].handle \in DOMAIN writers
                                    /\ writers[conns[t].handle] = t
    /\ \A h \in DOMAIN writers : writers[h] \in Holders(h) /\ conns[writers[h]].at \in Listed

\* What poll has said of a handle (place 0) and will say of it (its events).
Mentions(handle) == {0} \union {i \in DOMAIN events : events[i].connection = handle}

Said(handle, i) ==
    IF i # 0 THEN events[i].kind
    ELSE IF handle \in DOMAIN view THEN view[handle] ELSE "Disconnected"

Consecutive(handle, i, j) == i < j /\ \A k \in Mentions(handle) : k <= i \/ j <= k

\* As long as nothing overflowed, the application sees each handle connect,
\* deliver, disconnect, and connect again in that order, across the threads of
\* successive connections that resume it: websocket_loop publishes Disconnected
\* before release_resume lets the next one in.
SessionsAlternate ==
    ~lost =>
        \A h \in DOMAIN resume : \A i, j \in Mentions(h) :
            Consecutive(h, i, j) =>
                (Said(h, j) = "Connected") = (Said(h, i) = "Disconnected")

\* stop() returns, though Stop may not fit in the command channel, sessions are
\* in progress and connections keep arriving.
StopReturns == app = "joining" ~> app = "stopped"

=============================================================================
