---------------------------- MODULE LiveSession ----------------------------
(***************************************************************************)
(* The live-session channel between several clients and one workspace      *)
(* (src/crates/stasis_runner/src/live.rs) and the way the workspace's      *)
(* boundary answers through it (process_boundary, enqueue_response in      *)
(* src/apps/stasis/src/live_workspace.rs).  Clients share a bounded request*)
(* channel; each has a bounded mailbox; the routing table, behind a mutex, *)
(* translates the clients' request ids into wire ids and back.  What a     *)
(* request does, and how many intermediate responses it gets, is left to   *)
(* LiveWorkspace; here a request is ordinary or cancels another.           *)
(***************************************************************************)
EXTENDS Naturals, Sequences, FiniteSets, FiniteSetsExt, Functions

CONSTANTS
    CallerIds,     \* the request ids clients choose
    Capacity,      \* of the request channel and of each mailbox
    MaxPerClient,  \* MAX_LIVE_OUTSTANDING_REQUESTS_PER_CLIENT
    MaxPerSession, \* MAX_LIVE_OUTSTANDING_REQUESTS_PER_SESSION
    MaxOwners,     \* bound: clients of a behaviour
    MaxWires,      \* bound: submissions that get a wire id
    MaxNotices     \* bound: responses with request id zero

ASSUME SessionBounds ==
    /\ CallerIds \subseteq Nat \ {0}
    /\ {Capacity, MaxPerClient, MaxPerSession, MaxOwners, MaxWires, MaxNotices}
          \subseteq Nat \ {0}

VARIABLES
    closed,      \* the flag the server's drop raises first
    mailboxes,   \* owner -> the responses in its mailbox
    routes,      \* wire id -> [owner, caller]
    locals,      \* local_requests: <<owner, caller>> -> wire id
    primary,     \* primary_owner; 0 is None
    clients,     \* the clients made so far: is each still there?
    nextWire,    \* next_wire_id
    requests,    \* the request channel
    server,      \* the boundary: "flush", "work", "inspection",
                 \* "report", "watches", "quit", "closing", "gone"
    held,        \* requests drained and not finally answered
    outbox,      \* pending_responses
    dropped,     \* dropped_watch_events
    notices,     \* bound
    sent,        \* wire id -> [owner, caller] of every accepted submission
    finals       \* wire id -> final responses that reached a mailbox

sessionVars == <<closed, mailboxes, routes, locals, primary, clients, nextWire,
                 requests, server, held, outbox, dropped, notices, sent,
                 finals>>
routing == <<mailboxes, routes, locals, primary>>
events == <<dropped, notices>>

Owners == DOMAIN clients
Extend(f, x, y) == [z \in DOMAIN f \union {x} |-> IF z = x THEN y ELSE f[z]]
Without(f, S) == Restrict(f, DOMAIN f \ S)

SessionInit ==
    /\ closed = FALSE
    /\ mailboxes = [owner \in {1} |-> <<>>] /\ primary = 1 /\ clients = <<TRUE>>
    /\ routes = <<>> /\ locals = <<>>
    /\ nextWire = 1
    /\ requests = <<>> /\ held = {} /\ outbox = <<>>
    /\ server = "flush"
    /\ dropped = 0 /\ notices = 0 /\ sent = <<>> /\ finals = <<>>

-----------------------------------------------------------------------------
(* Clients. *)

\* LiveSessionClient::clone: register_client, under the lock.
Clone ==
    /\ \E o \in Owners : clients[o]
    /\ Len(clients) < MaxOwners
    /\ LET owner == Len(clients) + 1 IN
       /\ clients' = Append(clients, TRUE)
       /\ IF closed
          THEN UNCHANGED <<mailboxes, primary>>
          ELSE /\ mailboxes' = Extend(mailboxes, owner, <<>>)
               /\ primary' = IF primary = 0 THEN owner ELSE primary
    /\ UNCHANGED <<closed, routes, locals, nextWire, requests, server, held,
                   outbox, events, sent, finals>>

\* Who has the primary role once the owner's mailbox is removed.
Successor(owner) ==
    LET rest == DOMAIN mailboxes \ {owner} IN
    IF primary # owner THEN primary ELSE IF rest = {} THEN 0 ELSE Min(rest)

\* Mutant of Drop: local_requests keeps the client's entries.
DropKeepingLocals(owner) ==
    /\ clients[owner]
    /\ clients' = [clients EXCEPT ![owner] = FALSE]
    /\ mailboxes' = Without(mailboxes, {owner})
    /\ routes' = Without(routes, {w \in DOMAIN routes : routes[w].owner = owner})
    /\ primary' = Successor(owner)
    /\ UNCHANGED <<closed, locals, nextWire, requests, server, held, outbox,
                   events, sent, finals>>

\* Dropping a client: unregister_client.
Drop(owner) ==
    /\ clients[owner]
    /\ clients' = [clients EXCEPT ![owner] = FALSE]
    /\ mailboxes' = Without(mailboxes, {owner})
    /\ routes' = Without(routes, {w \in DOMAIN routes : routes[w].owner = owner})
    /\ locals' = Without(locals, {k \in DOMAIN locals : k[1] = owner})
    /\ primary' = Successor(owner)
    /\ UNCHANGED <<closed, nextWire, requests, server, held, outbox, events,
                   sent, finals>>

\* claim_unsolicited_responses.
Claim(owner) ==
    /\ clients[owner]
    /\ owner \in DOMAIN mailboxes
    /\ primary' = owner
    /\ UNCHANGED <<closed, mailboxes, routes, locals, clients, nextWire,
                   requests, server, held, outbox, events, sent, finals>>

Outstanding(owner) == Cardinality({k \in DOMAIN locals : k[1] = owner})

\* The tests submit makes under the lock, before and at the channel.
Accepted(owner, caller) ==
    /\ ~closed
    /\ owner \in DOMAIN mailboxes
    /\ <<owner, caller>> \notin DOMAIN locals
    /\ Outstanding(owner) < MaxPerClient
    /\ Cardinality(DOMAIN routes) < MaxPerSession
    /\ Len(requests) < Capacity

\* Mutant of Target: the id is looked up among the requests of all clients.
TargetOfAnyone(owner, cancels) ==
    LET keys == {k \in DOMAIN locals : k[2] = cancels} IN
    IF keys = {} THEN 0 ELSE locals[CHOOSE k \in keys : TRUE]

\* A cancel names its target by the caller's id and travels with the wire id,
\* or with 0 when the client has no such request.
Target(owner, cancels) ==
    IF <<owner, cancels>> \in DOMAIN locals THEN locals[<<owner, cancels>>] ELSE 0

\* submit; cancels is 0 for an ordinary request.
Submit(owner, caller, cancels) ==
    /\ clients[owner]
    /\ nextWire <= MaxWires
    /\ nextWire' = nextWire + 1
    /\ IF Accepted(owner, caller)
       THEN LET route == [owner |-> owner, caller |-> caller] IN
               /\ requests' = Append(requests, [wire |-> nextWire, phase |-> "new",
                                               target |-> Target(owner, cancels)])
               /\ routes' = Extend(routes, nextWire, route)
               /\ locals' = Extend(locals, <<owner, caller>>, nextWire)
               /\ sent' = Extend(sent, nextWire, route)
               /\ finals' = Extend(finals, nextWire, 0)
       ELSE UNCHANGED <<requests, routes, locals, sent, finals>>
    /\ UNCHANGED <<closed, mailboxes, primary, clients, server, held, outbox, events>>

\* receive_timeout, try_receive.
Receive(owner) ==
    /\ clients[owner]
    /\ owner \in DOMAIN mailboxes /\ mailboxes[owner] # <<>>
    /\ mailboxes' = [mailboxes EXCEPT ![owner] = Tail(@)]
    /\ UNCHANGED <<closed, routes, locals, primary, clients, nextWire, requests,
                   server, held, outbox, events, sent, finals>>

-----------------------------------------------------------------------------
(* The server: respond, and the boundary that calls it. *)

\* The recipient of a response: its route's owner; for id zero the primary
\* owner, which is the oldest client when it has left; 0 when there is none.
Recipient(response) ==
    IF response.wire = 0
    THEN IF primary \in DOMAIN mailboxes THEN primary
         ELSE IF DOMAIN mailboxes = {} THEN 0 ELSE Min(DOMAIN mailboxes)
    ELSE IF response.wire \in DOMAIN routes
         THEN routes[response.wire].owner ELSE 0

\* Mutant of Stale: a response whose route is gone counts as a hang-up.
StaleNever(response) == FALSE

\* A response whose route is gone, while there are clients.
Stale(response) ==
    /\ response.wire # 0 /\ response.wire \notin DOMAIN routes
    /\ DOMAIN mailboxes # {}

Full(response) ==
    /\ ~closed
    /\ Recipient(response) \in DOMAIN mailboxes
    /\ Len(mailboxes[Recipient(response)]) >= Capacity

Hung(response) ==
    closed \/ (~Stale(response) /\ Recipient(response) \notin DOMAIN mailboxes)

\* Mutant of Translated: the wire id is left in place.
Untranslated(response) == response

\* A response carries the caller's id.
Translated(response) == [response EXCEPT !.id = routes[response.wire].caller]

\* The Ok outcomes of respond: dropped as stale, or delivered under the
\* caller's id; a final response ends its route.
Respond(response) ==
    \/ Stale(response) /\ UNCHANGED <<mailboxes, routes, locals, primary, finals>>
    \/ /\ ~Stale(response) /\ response.wire = 0
       /\ mailboxes' = [mailboxes EXCEPT ![Recipient(response)] = Append(@, response)]
       /\ primary' = Recipient(response)
       /\ UNCHANGED <<routes, locals, finals>>
    \/ /\ ~Stale(response) /\ response.wire # 0
       /\ LET route == routes[response.wire] IN
          /\ mailboxes' = [mailboxes EXCEPT ![route.owner] =
                               Append(@, Translated(response))]
          /\ IF response.final
             THEN /\ routes' = Without(routes, {response.wire})
                  /\ locals' = Without(locals, {<<route.owner, route.caller>>})
                  /\ finals' = [finals EXCEPT ![response.wire] = @ + 1]
             ELSE UNCHANGED <<routes, locals, finals>>
       /\ UNCHANGED primary

Response(wire, final) == [id |-> wire, wire |-> wire, final |-> final]

\* The head of pending_responses: when it finds its mailbox full the boundary
\* ends, and the tick goes on without it.
Flush ==
    /\ server = "flush"
    /\ outbox # <<>>
    /\ \/ /\ Hung(Head(outbox))
          /\ server' = "quit"
          /\ UNCHANGED <<routing, outbox, finals>>
       \/ /\ ~Hung(Head(outbox)) /\ ~Full(Head(outbox))
          /\ Respond(Head(outbox))
          /\ outbox' = Tail(outbox)
          /\ UNCHANGED server
       \/ /\ Full(Head(outbox))
          /\ server' = "inspection"
          /\ UNCHANGED <<routing, outbox, finals>>
    /\ UNCHANGED <<closed, clients, nextWire, requests, held, events, sent>>

\* drain(usize::MAX).  A preparation begun at an earlier boundary is done.
Drain ==
    /\ server = "flush"
    /\ outbox = <<>>
    /\ requests' = <<>>
    /\ held' = {[r EXCEPT !.phase = IF @ = "preparing" THEN "ready" ELSE @] :
                    r \in held \union Range(requests)}
    /\ server' = "work"
    /\ UNCHANGED <<closed, routing, clients, nextWire, outbox, events, sent, finals>>

\* Mutant of Enqueue: a response that finds its mailbox full is dropped.
EnqueueOrDrop(response, next) ==
    \/ /\ Hung(response)
       /\ server' = "quit"
       /\ UNCHANGED <<routing, outbox, finals>>
    \/ /\ Full(response)
       /\ server' = next
       /\ UNCHANGED <<routing, outbox, finals>>
    \/ /\ ~Hung(response) /\ ~Full(response)
       /\ Respond(response)
       /\ server' = next
       /\ UNCHANGED outbox

\* enqueue_response; `next` is where the boundary goes on.
Enqueue(response, next) ==
    \/ /\ Hung(response)
       /\ server' = "quit"
       /\ UNCHANGED <<routing, outbox, finals>>
    \/ /\ Full(response)
       /\ outbox' = Append(outbox, response)
       /\ server' = next
       /\ UNCHANGED <<routing, finals>>
    \/ /\ ~Hung(response) /\ ~Full(response)
       /\ Respond(response)
       /\ server' = next
       /\ UNCHANGED outbox

\* A request held since this boundary's drain gets its final response, or the
\* intermediate one of a preparation ("edit_preparing", "completion_preparing");
\* a cancel that finds its target waiting answers that first.
Answer(request) ==
    /\ server = "work"
    /\ request.phase # "preparing"
    /\ ~\E r \in held : r.wire = request.target /\ r.phase = "new"
    /\ \/ /\ held' = held \ {request}
          /\ Enqueue(Response(request.wire, TRUE), "work")
       \/ /\ request.target = 0 /\ request.phase = "new"
          /\ held' = (held \ {request}) \union {[request EXCEPT !.phase = "preparing"]}
          /\ Enqueue(Response(request.wire, FALSE), "work")
    /\ UNCHANGED <<closed, clients, nextWire, requests, events, sent>>

EndBoundary ==
    /\ server = "work"
    /\ \A r \in held : r.phase = "preparing"
    /\ server' = "inspection"
    /\ UNCHANGED <<closed, routing, clients, nextWire, requests, held, outbox,
                   events, sent, finals>>

\* publish_watches sends an event of request id zero, and goes on at `next`; one
\* that finds the mailbox full is dropped and counted.
Notify(next) ==
    /\ notices < MaxNotices
    /\ notices' = notices + 1
    /\ LET event == Response(0, TRUE) IN
       \/ /\ Hung(event)
          /\ server' = "quit"
          /\ UNCHANGED <<routing, finals, dropped>>
       \/ /\ Full(event)
          /\ dropped' = dropped + 1
          /\ server' = next
          /\ UNCHANGED <<routing, finals>>
       \/ /\ ~Hung(event) /\ ~Full(event)
          /\ Respond(event)
          /\ server' = next
          /\ UNCHANGED dropped
    /\ UNCHANGED <<closed, clients, nextWire, requests, held, outbox, sent>>

\* The state-inspection subscription, when this tick is one of its ticks.
Inspection ==
    /\ server = "inspection"
    /\ \/ Notify("report")
       \/ /\ server' = "report"
          /\ UNCHANGED <<closed, routing, clients, nextWire, requests, held, outbox,
                         events, sent, finals>>

\* The dropped events are reported before any watch is looked at; without room
\* for the report, or with watch polling off, the tick ends here.
Report ==
    /\ server = "report"
    /\ LET report == Response(0, TRUE) IN
       \/ /\ server' = "flush"
          /\ UNCHANGED <<routing, finals, dropped>>
       \/ /\ dropped = 0
          /\ server' = "watches"
          /\ UNCHANGED <<routing, finals, dropped>>
       \/ /\ dropped > 0 /\ Hung(report)
          /\ server' = "quit"
          /\ UNCHANGED <<routing, finals, dropped>>
       \/ /\ dropped > 0 /\ ~Hung(report) /\ ~Full(report)
          /\ Respond(report)
          /\ dropped' = 0
          /\ server' = "watches"
    /\ UNCHANGED <<closed, clients, nextWire, requests, held, outbox, notices, sent>>

\* The watches whose value changed, one by one.
Watches ==
    /\ server = "watches"
    /\ \/ Notify("watches")
       \/ /\ server' = "flush"
          /\ UNCHANGED <<closed, routing, clients, nextWire, requests, held, outbox,
                         events, sent, finals>>

\* The workspace quits, by a request or because respond said Disconnected, and
\* is dropped: the flag first, then the tables under the lock.
Quit ==
    /\ server \in {"work", "quit"}
    /\ server' = "closing"
    /\ closed' = TRUE
    /\ UNCHANGED <<routing, clients, nextWire, requests, held, outbox, events,
                   sent, finals>>

Close ==
    /\ server = "closing"
    /\ server' = "gone"
    /\ routes' = <<>> /\ locals' = <<>> /\ mailboxes' = <<>> /\ primary' = 0
    /\ UNCHANGED <<closed, clients, nextWire, requests, held, outbox, events,
                   sent, finals>>

ServerStep ==
    \/ Flush \/ Drain \/ EndBoundary \/ Inspection \/ Report \/ Watches \/ Close
    \/ server = "quit" /\ Quit
    \/ \E request \in held : Answer(request)

ClientStep ==
    \/ Clone
    \/ \E owner \in Owners :
          \/ Drop(owner) \/ Claim(owner)
          \/ \E caller \in CallerIds, cancels \in CallerIds \union {0} :
                Submit(owner, caller, cancels)

\* Every client has left and the server is gone.
Over == server = "gone" /\ UNCHANGED sessionVars

SessionNext ==
    \/ ServerStep \/ (server = "work" /\ Quit) \/ ClientStep \/ Over
    \/ \E owner \in Owners : Receive(owner)

SessionSpec == SessionInit /\ [][SessionNext]_sessionVars

\* The play loop comes to its boundary again and again and answers what it
\* holds; a client reads its mailbox.
FairSession ==
    /\ SessionSpec
    /\ WF_sessionVars(ServerStep)
    /\ \A owner \in 1 .. MaxOwners : WF_sessionVars(owner \in Owners /\ Receive(owner))

-----------------------------------------------------------------------------
(* Properties. *)

\* routes and local_requests are inverse to each other and name registered
\* clients only, however submissions, responses and departures interleave; so
\* neither an id stays "already pending" for ever nor a response finds a route
\* without its mailbox.
RoutesMirror ==
    /\ \A w \in DOMAIN routes :
          LET key == <<routes[w].owner, routes[w].caller>> IN
          key \in DOMAIN locals /\ locals[key] = w /\ routes[w].owner \in DOMAIN mailboxes
    /\ \A key \in DOMAIN locals :
          /\ locals[key] \in DOMAIN routes
          /\ routes[locals[key]] = [owner |-> key[1], caller |-> key[2]]

\* A response comes to the client that made the request, under the id that
\* client chose, and no request gets two final responses.
AnswersGoHome ==
    /\ \A o \in DOMAIN mailboxes : \A response \in Range(mailboxes[o]) :
          response.wire # 0 => sent[response.wire] = [owner |-> o, caller |-> response.id]
    /\ \A w \in DOMAIN finals : finals[w] <= 1

\* A cancel reaches the workspace only with a target of the same client,
\* whatever ids other clients use, or with none.
CancelsOwn ==
    \A r \in held \union Range(requests) :
        r.target # 0 => sent[r.target].owner = sent[r.wire].owner

\* respond says Disconnected, which ends the session, only when the last client
\* has left: a response to a client that left does not take the others down.
OnlyLastClientEnds ==
    server = "quit" => \A o \in Owners : ~clients[o]

\* An accepted request is finally answered, or its client left, or the session
\* ended: neither a full mailbox of another client nor its departure loses it.
EveryRequestAnswered ==
    \A w \in 1 .. MaxWires :
        w \in DOMAIN sent ~> /\ w \in DOMAIN sent
                             /\ finals[w] = 1 \/ ~clients[sent[w].owner] \/ closed
=============================================================================
