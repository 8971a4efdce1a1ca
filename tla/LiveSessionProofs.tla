------------------------- MODULE LiveSessionProofs -------------------------
(***************************************************************************)
(* What TLAPS proves of the live-session channel, for any number of        *)
(* clients, requests and notices and for channels of any capacity.         *)
(*                                                                         *)
(* A wire id is given out once and its route is the submission's own, so   *)
(* whatever the routing table still holds is what was sent; a mailbox      *)
(* belongs to a client that is there, and while the session is open every  *)
(* such client has one.  No request is lost between submission and its     *)
(* final response, and no boundary is stuck with requests to answer.       *)
(***************************************************************************)
EXTENDS LiveSession, WellFoundedInduction, TLAPS

Routes == [owner : Nat \ {0}, caller : CallerIds]
Messages == [id : Nat, wire : Nat, final : BOOLEAN]
Requests == [wire : Nat \ {0}, phase : {"new", "preparing", "ready"}, target : Nat]
Stages == {"flush", "work", "inspection", "report", "watches", "quit", "closing", "gone"}

\* Every wire id in use was given out, and a route that is still there is the
\* submission's, not finally answered.
TablesInv ==
    /\ nextWire \in Nat \ {0} /\ DOMAIN sent \subseteq 1 .. nextWire - 1
    /\ sent \in [DOMAIN sent -> Routes] /\ finals \in [DOMAIN sent -> Nat]
    /\ DOMAIN routes \subseteq DOMAIN sent /\ routes \in [DOMAIN routes -> Routes]
    /\ \A w \in DOMAIN routes : routes[w] = sent[w] /\ finals[w] = 0
    /\ DOMAIN locals \subseteq (Nat \ {0}) \X CallerIds
    /\ locals \in [DOMAIN locals -> Nat]
    /\ mailboxes \in [DOMAIN mailboxes -> Seq(Messages)]
    /\ \A o \in DOMAIN mailboxes : \A response \in Range(mailboxes[o]) :
          response.wire # 0 => response.wire \in DOMAIN sent
    /\ RoutesMirror /\ AnswersGoHome

\* A client that is there has a mailbox while the session is open, and nobody
\* else ever has one.
ClientsInv ==
    /\ server \in Stages
    /\ clients \in Seq(BOOLEAN)
    /\ closed \in BOOLEAN
    /\ closed <=> server \in {"closing", "gone"}
    /\ DOMAIN mailboxes \subseteq Owners
    /\ \A o \in DOMAIN mailboxes : clients[o]
    /\ ~closed => \A o \in Owners : clients[o] => o \in DOMAIN mailboxes
    /\ OnlyLastClientEnds

\* What is on its way to the server, or with it, was sent.
QueuesInv ==
    /\ requests \in Seq(Requests) /\ held \subseteq Requests
    /\ outbox \in Seq(Messages)
    /\ \A r \in held \union Range(requests) :
          /\ r.wire \in DOMAIN sent
          /\ r.target # 0 => r.target \in DOMAIN sent
    /\ CancelsOwn

SessionInv == TablesInv /\ ClientsInv /\ QueuesInv

-----------------------------------------------------------------------------
\* The members of a sequence after an append, and of a tail.
LEMMA RangeAppend ==
    ASSUME NEW S, NEW s \in Seq(S), NEW x \in S
    PROVE  /\ Append(s, x) \in Seq(S)
           /\ Range(Append(s, x)) = Range(s) \union {x}
<1>1. /\ Append(s, x) \in Seq(S) /\ DOMAIN Append(s, x) = 1 .. Len(s) + 1
      /\ DOMAIN s = 1 .. Len(s) /\ Len(s) \in Nat
  OBVIOUS
<1>2. \A i \in 1 .. Len(s) : Append(s, x)[i] = s[i]
  OBVIOUS
<1>3. Append(s, x)[Len(s) + 1] = x
  OBVIOUS
<1>4. 1 .. Len(s) + 1 = (1 .. Len(s)) \union {Len(s) + 1}
  BY <1>1
<1> QED
  BY <1>1, <1>2, <1>3, <1>4 DEF Range

LEMMA RangeTail ==
    ASSUME NEW S, NEW s \in Seq(S), s # <<>>
    PROVE  /\ Head(s) \in S /\ Head(s) \in Range(s)
           /\ Tail(s) \in Seq(S)
           /\ Range(Tail(s)) \subseteq Range(s)
<1>1. /\ Tail(s) \in Seq(S) /\ DOMAIN Tail(s) = 1 .. Len(s) - 1
      /\ DOMAIN s = 1 .. Len(s) /\ Len(s) \in Nat /\ Len(s) > 0
      /\ Head(s) \in S /\ Head(s) = s[1]
  OBVIOUS
<1>2. \A i \in 1 .. Len(s) - 1 : Tail(s)[i] = s[i + 1] /\ i + 1 \in 1 .. Len(s)
  BY <1>1
<1> QED
  BY <1>1, <1>2 DEF Range

\* A set of naturals that is not empty holds its minimum.
LEMMA MinMember ==
    ASSUME NEW S \in SUBSET Nat, S # {}
    PROVE  Min(S) \in S
<1>1. PICK x \in S : \A y \in S : ~(<<y, x>> \in OpToRel(<, Nat))
  BY NatLessThanWellFounded, WFMin
<1>2. x \in Nat /\ \A y \in S : y \in Nat
  OBVIOUS
<1>3. \A y \in S : ~(y < x)
  BY <1>1, <1>2, Zenon DEF OpToRel
<1>4. \A y \in S : x <= y
  BY <1>2, <1>3
<1> QED
  BY <1>4, Zenon DEF Min

-----------------------------------------------------------------------------
\* What the mailboxes hold, as part of TablesInv.
MailboxesInv ==
    /\ mailboxes \in [DOMAIN mailboxes -> Seq(Messages)]
    /\ \A o \in DOMAIN mailboxes : \A response \in Range(mailboxes[o]) :
          response.wire # 0 =>
              /\ response.wire \in DOMAIN sent
              /\ sent[response.wire] = [owner |-> o, caller |-> response.id]

LEMMA MailboxPart == TablesInv => MailboxesInv
BY DEF TablesInv, MailboxesInv, AnswersGoHome

\* A message put into the mailbox of the client that asked keeps the mailboxes
\* right.
LEMMA Deliver ==
    ASSUME MailboxesInv, NEW o \in DOMAIN mailboxes, NEW m \in Messages,
           m.wire # 0 => /\ m.wire \in DOMAIN sent
                         /\ sent[m.wire] = [owner |-> o, caller |-> m.id],
           mailboxes' = [mailboxes EXCEPT ![o] = Append(@, m)], UNCHANGED sent
    PROVE  MailboxesInv' /\ DOMAIN mailboxes' = DOMAIN mailboxes
<1>1. mailboxes[o] \in Seq(Messages)
  BY DEF MailboxesInv
<1>2. /\ Append(mailboxes[o], m) \in Seq(Messages)
      /\ Range(Append(mailboxes[o], m)) = Range(mailboxes[o]) \union {m}
  BY <1>1, RangeAppend
<1>3. /\ DOMAIN mailboxes' = DOMAIN mailboxes
      /\ mailboxes'[o] = Append(mailboxes[o], m)
      /\ \A p \in DOMAIN mailboxes : p # o => mailboxes'[p] = mailboxes[p]
  BY DEF MailboxesInv
<1>4. mailboxes' \in [DOMAIN mailboxes -> Seq(Messages)]
  BY <1>2 DEF MailboxesInv
<1> QED
  BY <1>2, <1>3, <1>4 DEF MailboxesInv

\* The recipient of a response with request id zero is there, unless nobody is.
LEMMA ZeroRecipient ==
    ASSUME ClientsInv, NEW r, r.wire = 0, DOMAIN mailboxes # {}
    PROVE  Recipient(r) \in DOMAIN mailboxes
<1>1. DOMAIN mailboxes \subseteq Nat
  BY DEF ClientsInv, Owners
<1>2. Min(DOMAIN mailboxes) \in DOMAIN mailboxes
  BY <1>1, MinMember
<1> QED
  BY <1>2 DEF Recipient

\* respond says Disconnected in an open session only when every client has left.
LEMMA HungMeansEmpty ==
    ASSUME TablesInv, ClientsInv, NEW r, Hung(r), ~closed
    PROVE  \A o \in Owners : ~clients[o]
<1>1. ~Stale(r) /\ Recipient(r) \notin DOMAIN mailboxes
  BY DEF Hung
<1>2. CASE r.wire = 0
  BY <1>1, <1>2, ZeroRecipient DEF ClientsInv
<1>3. CASE r.wire # 0 /\ r.wire \in DOMAIN routes
  BY <1>1, <1>3, Zenon DEF Recipient, TablesInv, RoutesMirror
<1>4. CASE r.wire # 0 /\ r.wire \notin DOMAIN routes
  BY <1>1, <1>4 DEF Stale, ClientsInv
<1> QED
  BY <1>2, <1>3, <1>4

\* respond keeps the tables right.
LEMMA RespondTables ==
    ASSUME TablesInv, ClientsInv, NEW r \in Messages, ~Hung(r), Respond(r),
           UNCHANGED <<nextWire, sent>>
    PROVE  TablesInv' /\ DOMAIN mailboxes' = DOMAIN mailboxes
<1>1. CASE Stale(r)
  <2>1. UNCHANGED <<mailboxes, routes, locals, finals, nextWire, sent>>
    BY <1>1 DEF Respond
  <2> QED
    BY <2>1 DEF TablesInv, RoutesMirror, AnswersGoHome
<1>2. CASE ~Stale(r) /\ r.wire = 0
  <2>1. /\ mailboxes' = [mailboxes EXCEPT ![Recipient(r)] = Append(@, r)]
        /\ UNCHANGED <<routes, locals, finals>>
    BY <1>2 DEF Respond
  <2>2. Recipient(r) \in DOMAIN mailboxes
    BY <1>2 DEF Hung
  <2>3. MailboxesInv' /\ DOMAIN mailboxes' = DOMAIN mailboxes
    BY <1>2, <2>1, <2>2, Deliver, MailboxPart, Zenon
  <2>4. RoutesMirror'
    BY <2>1, <2>3 DEF RoutesMirror, TablesInv
  <2>5. AnswersGoHome'
    BY <2>1, <2>3 DEF MailboxesInv, TablesInv, AnswersGoHome
  <2> QED
    BY <2>1, <2>3, <2>4, <2>5, Zenon DEF TablesInv, MailboxesInv
<1>3. CASE ~Stale(r) /\ r.wire # 0
  <2> DEFINE route == routes[r.wire]
  <2>1. /\ mailboxes' = [mailboxes EXCEPT ![route.owner] = Append(@, Translated(r))]
        /\ IF r.final
           THEN /\ routes' = Without(routes, {r.wire})
                /\ locals' = Without(locals, {<<route.owner, route.caller>>})
                /\ finals' = [finals EXCEPT ![r.wire] = @ + 1]
           ELSE UNCHANGED <<routes, locals, finals>>
    BY <1>3 DEF Respond
  <2>2. r.wire \in DOMAIN routes
    <3>1. Recipient(r) \in DOMAIN mailboxes /\ 0 \notin DOMAIN mailboxes
      BY <1>3 DEF Hung, ClientsInv, Owners
    <3> QED
      BY <1>3, <3>1 DEF Recipient
  <2>3. /\ route \in Routes /\ route = sent[r.wire] /\ r.wire \in DOMAIN sent
        /\ route.owner \in DOMAIN mailboxes /\ finals[r.wire] = 0
        /\ <<route.owner, route.caller>> \in DOMAIN locals
        /\ locals[<<route.owner, route.caller>>] = r.wire
    BY <2>2 DEF TablesInv, RoutesMirror
  <2>4. /\ Translated(r) \in Messages
        /\ Translated(r).wire = r.wire /\ Translated(r).id = route.caller
    BY <2>3, SessionBounds DEF Translated, Messages, Routes
  <2>5. sent[r.wire] = [owner |-> route.owner, caller |-> route.caller]
    BY <2>3 DEF Routes
  <2> HIDE DEF route
  <2>6. MailboxesInv' /\ DOMAIN mailboxes' = DOMAIN mailboxes
    BY <2>1, <2>3, <2>4, <2>5, Deliver, MailboxPart, Zenon
  <2>7. CASE ~r.final
    <3>1. UNCHANGED <<routes, locals, finals>>
      BY <2>1, <2>7
    <3>2. RoutesMirror' /\ AnswersGoHome'
      BY <3>1, <2>6 DEF RoutesMirror, TablesInv, AnswersGoHome, MailboxesInv
    <3> QED
      BY <3>1, <3>2, <2>6, Zenon DEF TablesInv, MailboxesInv
  <2>8. CASE r.final
    <3> DEFINE key == <<route.owner, route.caller>>
    <3>1. /\ DOMAIN routes' = DOMAIN routes \ {r.wire}
          /\ \A w \in DOMAIN routes' : routes'[w] = routes[w]
          /\ routes' = [w \in DOMAIN routes' |-> routes'[w]]
      BY <2>1, <2>8 DEF Without, Restrict
    <3>2. /\ DOMAIN locals' = DOMAIN locals \ {key}
          /\ \A k \in DOMAIN locals' : locals'[k] = locals[k]
          /\ locals' = [k \in DOMAIN locals' |-> locals'[k]]
      BY <2>1, <2>8 DEF Without, Restrict
    <3>3. /\ DOMAIN finals' = DOMAIN sent /\ finals' \in [DOMAIN sent -> Nat]
          /\ finals'[r.wire] = 1
          /\ \A w \in DOMAIN sent : w # r.wire => finals'[w] = finals[w]
      BY <2>1, <2>3, <2>8 DEF TablesInv
    <3> HIDE DEF key
    <3>4. /\ routes' \in [DOMAIN routes' -> Routes]
          /\ locals' \in [DOMAIN locals' -> Nat]
          /\ \A w \in DOMAIN routes' : routes'[w] = sent[w] /\ finals'[w] = 0
      BY <3>1, <3>2, <3>3 DEF TablesInv
    <3>5. RoutesMirror'
      <4>1. ASSUME NEW w \in DOMAIN routes'
            PROVE  /\ <<routes'[w].owner, routes'[w].caller>> \in DOMAIN locals'
                   /\ locals'[<<routes'[w].owner, routes'[w].caller>>] = w
                   /\ routes'[w].owner \in DOMAIN mailboxes'
        BY <3>1, <3>2, <2>3, <2>6 DEF TablesInv, RoutesMirror, key
      <4>2. ASSUME NEW k \in DOMAIN locals'
            PROVE  /\ locals'[k] \in DOMAIN routes'
                   /\ routes'[locals'[k]] = [owner |-> k[1], caller |-> k[2]]
        <5>1. /\ k \in DOMAIN locals /\ k # key /\ locals'[k] = locals[k]
              /\ locals[k] \in DOMAIN routes
              /\ routes[locals[k]] = [owner |-> k[1], caller |-> k[2]]
          BY <3>2 DEF TablesInv, RoutesMirror
        <5>2. k = <<k[1], k[2]>>
          BY <5>1 DEF TablesInv
        <5>3. locals[k] # r.wire
          BY <5>1, <5>2 DEF route, key
        <5> QED
          BY <5>1, <5>3, <3>1
      <4> QED
        BY <4>1, <4>2 DEF RoutesMirror
    <3>6. AnswersGoHome'
      <4>1. \A w \in DOMAIN finals' : finals'[w] <= 1
        <5>1. \A w \in DOMAIN sent : finals[w] <= 1
          BY Zenon DEF AnswersGoHome, TablesInv
        <5>2. \A w \in DOMAIN sent : finals'[w] = 1 \/ finals'[w] = finals[w]
          BY <3>3, Zenon
        <5>3. 1 <= 1
          OBVIOUS
        <5> QED
          BY <3>3, <5>1, <5>2, <5>3, Zenon
      <4> QED
        BY <4>1, <2>6 DEF AnswersGoHome, MailboxesInv
    <3> QED
      BY <3>1, <3>2, <3>3, <3>4, <3>5, <3>6, <2>6, Zenon DEF TablesInv, MailboxesInv
  <2> QED
    BY <2>6, <2>7, <2>8, ZenonT(30)
<1> QED
  BY <1>1, <1>2, <1>3

-----------------------------------------------------------------------------
(* The clients' steps. *)

LEMMA CloneStep ==
    ASSUME SessionInv, Clone
    PROVE  SessionInv'
<1> DEFINE owner == Len(clients) + 1
<1>1. /\ clients' = Append(clients, TRUE)
      /\ UNCHANGED <<closed, routes, locals, nextWire, requests, server, held,
                     outbox, sent, finals>>
      /\ mailboxes' = IF closed THEN mailboxes ELSE Extend(mailboxes, owner, <<>>)
      /\ \E o \in Owners : clients[o]
  BY DEF Clone, events
<1>2. /\ clients \in Seq(BOOLEAN) /\ Owners = 1 .. Len(clients) /\ Len(clients) \in Nat
      /\ DOMAIN mailboxes \subseteq 1 .. Len(clients) /\ owner \notin DOMAIN mailboxes
  BY DEF SessionInv, ClientsInv, Owners
<1>3. /\ clients' \in Seq(BOOLEAN) /\ Owners' = 1 .. owner
      /\ \A o \in 1 .. Len(clients) : clients'[o] = clients[o]
      /\ clients'[owner] = TRUE
  BY <1>1, <1>2 DEF Owners
<1>4. /\ DOMAIN mailboxes' = IF closed THEN DOMAIN mailboxes
                             ELSE DOMAIN mailboxes \union {owner}
      /\ \A o \in DOMAIN mailboxes : mailboxes'[o] = mailboxes[o]
      /\ ~closed => mailboxes'[owner] = <<>>
      /\ mailboxes' = [o \in DOMAIN mailboxes' |-> mailboxes'[o]]
  BY <1>1, <1>2, Zenon DEF Extend, SessionInv, TablesInv
<1> HIDE DEF owner
<1>5. ClientsInv'
  <2>1. server # "quit"
    BY <1>1 DEF SessionInv, ClientsInv, OnlyLastClientEnds
  <2>2. OnlyLastClientEnds'
    BY <2>1, <1>1 DEF OnlyLastClientEnds
  <2>3. DOMAIN mailboxes' \subseteq Owners'
    BY <1>2, <1>3, <1>4 DEF owner
  <2>4. \A o \in DOMAIN mailboxes' : clients'[o]
    BY <1>2, <1>3, <1>4 DEF SessionInv, ClientsInv
  <2>5. ~closed => \A o \in Owners' : clients'[o] => o \in DOMAIN mailboxes'
    <3>1. 1 .. owner = (1 .. Len(clients)) \union {owner}
      BY <1>2 DEF owner
    <3> QED
      BY <1>2, <1>3, <1>4, <3>1 DEF SessionInv, ClientsInv
  <2> QED
    BY <2>2, <2>3, <2>4, <2>5, <1>1, <1>3, Zenon DEF SessionInv, ClientsInv
<1>6. TablesInv'
  <2>1. MailboxesInv'
    <3>1. \A o \in DOMAIN mailboxes' : mailboxes'[o] \in Seq(Messages)
      <4>1. <<>> \in Seq(Messages)
        OBVIOUS
      <4>2. \A o \in DOMAIN mailboxes : mailboxes[o] \in Seq(Messages)
        BY DEF SessionInv, TablesInv
      <4> QED
        BY <1>4, <4>1, <4>2, Zenon
    <3>2. mailboxes' \in [DOMAIN mailboxes' -> Seq(Messages)]
      BY <1>4, <3>1
    <3>3. Range(<<>>) = {}
      BY DEF Range
    <3> QED
      BY <1>1, <1>4, <3>2, <3>3, MailboxPart DEF SessionInv, MailboxesInv
  <2>2. RoutesMirror'
    BY <1>1, <1>4 DEF SessionInv, TablesInv, RoutesMirror
  <2>3. AnswersGoHome'
    BY <2>1, <1>1 DEF SessionInv, TablesInv, MailboxesInv, AnswersGoHome
  <2> QED
    BY <2>1, <2>2, <2>3, <1>1, Zenon DEF SessionInv, TablesInv, MailboxesInv
<1>7. QueuesInv'
  BY <1>1 DEF SessionInv, QueuesInv, CancelsOwn
<1> QED
  BY <1>5, <1>6, <1>7 DEF SessionInv

LEMMA DropStep ==
    ASSUME SessionInv, NEW owner \in Owners, Drop(owner)
    PROVE  SessionInv'
<1>1. /\ clients' = [clients EXCEPT ![owner] = FALSE]
      /\ UNCHANGED <<closed, nextWire, requests, server, held, outbox, sent, finals>>
  BY DEF Drop
<1>2. /\ DOMAIN mailboxes' = DOMAIN mailboxes \ {owner}
      /\ \A o \in DOMAIN mailboxes' : mailboxes'[o] = mailboxes[o]
      /\ mailboxes' = [o \in DOMAIN mailboxes' |-> mailboxes'[o]]
  BY DEF Drop, Without, Restrict
<1>3. /\ DOMAIN routes' = {w \in DOMAIN routes : routes[w].owner # owner}
      /\ \A w \in DOMAIN routes' : routes'[w] = routes[w]
      /\ routes' = [w \in DOMAIN routes' |-> routes'[w]]
  BY DEF Drop, Without, Restrict
<1>4. /\ DOMAIN locals' = {k \in DOMAIN locals : k[1] # owner}
      /\ \A k \in DOMAIN locals' : locals'[k] = locals[k]
      /\ locals' = [k \in DOMAIN locals' |-> locals'[k]]
  BY DEF Drop, Without, Restrict
<1>5. ClientsInv'
  <2>1. /\ clients' \in Seq(BOOLEAN) /\ Owners' = Owners
        /\ clients'[owner] = FALSE
        /\ \A o \in Owners : o # owner => clients'[o] = clients[o]
    BY <1>1 DEF SessionInv, ClientsInv, Owners
  <2>2. OnlyLastClientEnds'
    BY <1>1, <2>1 DEF SessionInv, ClientsInv, OnlyLastClientEnds
  <2> QED
    BY <1>1, <1>2, <2>1, <2>2 DEF SessionInv, ClientsInv
<1>6. TablesInv'
  <2>1. MailboxesInv'
    <3>1. mailboxes' \in [DOMAIN mailboxes' -> Seq(Messages)]
      BY <1>2 DEF SessionInv, TablesInv
    <3> QED
      BY <1>1, <1>2, <3>1, MailboxPart DEF SessionInv, MailboxesInv
  <2>2. /\ routes' \in [DOMAIN routes' -> Routes] /\ locals' \in [DOMAIN locals' -> Nat]
    BY <1>3, <1>4 DEF SessionInv, TablesInv
  <2>3. RoutesMirror'
    BY <1>2, <1>3, <1>4 DEF SessionInv, TablesInv, RoutesMirror
  <2>4. AnswersGoHome'
    BY <2>1, <1>1 DEF SessionInv, TablesInv, MailboxesInv, AnswersGoHome
  <2> QED
    BY <2>1, <2>2, <2>3, <2>4, <1>1, <1>3, <1>4, Zenon DEF SessionInv, TablesInv, MailboxesInv
<1>7. QueuesInv'
  BY <1>1 DEF SessionInv, QueuesInv, CancelsOwn
<1> QED
  BY <1>5, <1>6, <1>7 DEF SessionInv

LEMMA ReceiveStep ==
    ASSUME SessionInv, NEW owner \in Owners, Receive(owner)
    PROVE  SessionInv'
<1>1. /\ owner \in DOMAIN mailboxes /\ mailboxes[owner] # <<>>
      /\ mailboxes' = [mailboxes EXCEPT ![owner] = Tail(@)]
      /\ UNCHANGED <<closed, routes, locals, clients, nextWire, requests, server,
                     held, outbox, sent, finals>>
  BY DEF Receive
<1>2. mailboxes[owner] \in Seq(Messages)
  BY <1>1 DEF SessionInv, TablesInv
<1>3. /\ Tail(mailboxes[owner]) \in Seq(Messages)
      /\ Range(Tail(mailboxes[owner])) \subseteq Range(mailboxes[owner])
  BY <1>1, <1>2, RangeTail
<1>4. /\ DOMAIN mailboxes' = DOMAIN mailboxes
      /\ mailboxes' \in [DOMAIN mailboxes -> Seq(Messages)]
      /\ \A o \in DOMAIN mailboxes : Range(mailboxes'[o]) \subseteq Range(mailboxes[o])
  BY <1>1, <1>3 DEF SessionInv, TablesInv
<1>5. ClientsInv'
  BY <1>1, <1>4 DEF SessionInv, ClientsInv, OnlyLastClientEnds, Owners
<1>6. RoutesMirror' /\ AnswersGoHome'
  BY <1>1, <1>4 DEF SessionInv, TablesInv, RoutesMirror, AnswersGoHome
<1>7. TablesInv'
  BY <1>1, <1>4, <1>6 DEF SessionInv, TablesInv
<1>8. QueuesInv'
  BY <1>1 DEF SessionInv, QueuesInv, CancelsOwn
<1> QED
  BY <1>5, <1>7, <1>8 DEF SessionInv

LEMMA ClaimStep ==
    ASSUME SessionInv, NEW owner \in Owners, Claim(owner)
    PROVE  SessionInv'
<1>1. UNCHANGED <<closed, mailboxes, routes, locals, clients, nextWire, requests,
                  server, held, outbox, sent, finals>>
  BY DEF Claim
<1> QED
  BY <1>1 DEF SessionInv, TablesInv, ClientsInv, QueuesInv, RoutesMirror, AnswersGoHome,
              CancelsOwn, OnlyLastClientEnds, Owners

LEMMA SubmitStep ==
    ASSUME SessionInv, NEW owner \in Owners, NEW caller \in CallerIds,
           NEW cancels \in CallerIds \union {0}, Submit(owner, caller, cancels)
    PROVE  SessionInv'
<1>1. /\ nextWire' = nextWire + 1
      /\ UNCHANGED <<closed, mailboxes, clients, server, held, outbox>>
  BY DEF Submit
<1>2. ClientsInv'
  BY <1>1 DEF SessionInv, ClientsInv, OnlyLastClientEnds, Owners
<1>3. CASE ~Accepted(owner, caller)
  <2>1. UNCHANGED <<requests, routes, locals, sent, finals>>
    BY <1>3 DEF Submit
  <2>2. TablesInv'
    BY <1>1, <2>1 DEF SessionInv, TablesInv, RoutesMirror, AnswersGoHome
  <2>3. QueuesInv'
    BY <1>1, <2>1 DEF SessionInv, QueuesInv, CancelsOwn
  <2> QED
    BY <1>2, <2>2, <2>3 DEF SessionInv
<1>4. CASE Accepted(owner, caller)
  <2> DEFINE route == [owner |-> owner, caller |-> caller]
             key == <<owner, caller>>
             request == [wire |-> nextWire, phase |-> "new", target |-> Target(owner, cancels)]
  <2>1. /\ requests' = Append(requests, request)
        /\ routes' = Extend(routes, nextWire, route)
        /\ locals' = Extend(locals, key, nextWire)
        /\ sent' = Extend(sent, nextWire, route)
        /\ finals' = Extend(finals, nextWire, 0)
    BY <1>4 DEF Submit
  <2>2. /\ nextWire \in Nat \ {0} /\ nextWire \notin DOMAIN sent /\ nextWire \notin DOMAIN routes
        /\ key \notin DOMAIN locals /\ owner \in DOMAIN mailboxes
        /\ owner \in Nat \ {0} /\ route \in Routes
    BY <1>4 DEF Accepted, SessionInv, TablesInv, ClientsInv, Owners, Routes
  <2>3. /\ DOMAIN routes' = DOMAIN routes \union {nextWire}
        /\ routes'[nextWire] = route
        /\ \A w \in DOMAIN routes : routes'[w] = routes[w]
        /\ routes' = [w \in DOMAIN routes' |-> routes'[w]]
    BY <2>1, <2>2 DEF Extend
  <2>4. /\ DOMAIN locals' = DOMAIN locals \union {key}
        /\ locals'[key] = nextWire
        /\ \A k \in DOMAIN locals : locals'[k] = locals[k]
        /\ locals' = [k \in DOMAIN locals' |-> locals'[k]]
    BY <2>1, <2>2, Zenon DEF Extend
  <2>5. /\ DOMAIN sent' = DOMAIN sent \union {nextWire}
        /\ sent'[nextWire] = route
        /\ \A w \in DOMAIN sent : sent'[w] = sent[w]
        /\ sent' = [w \in DOMAIN sent' |-> sent'[w]]
    BY <2>1, <2>2 DEF Extend
  <2>6. /\ DOMAIN finals' = DOMAIN sent'
        /\ finals'[nextWire] = 0
        /\ \A w \in DOMAIN sent : finals'[w] = finals[w]
        /\ finals' = [w \in DOMAIN finals' |-> finals'[w]]
    BY <2>1, <2>2, <2>5 DEF Extend, SessionInv, TablesInv
  <2>7. /\ Target(owner, cancels) \in Nat
        /\ Target(owner, cancels) # 0 =>
              /\ Target(owner, cancels) \in DOMAIN sent
              /\ sent[Target(owner, cancels)].owner = owner
    <3>1. CASE <<owner, cancels>> \in DOMAIN locals
      <4>1. /\ locals[<<owner, cancels>>] \in DOMAIN routes
            /\ routes[locals[<<owner, cancels>>]] = [owner |-> owner, caller |-> cancels]
        BY <3>1 DEF SessionInv, TablesInv, RoutesMirror
      <4>2. locals[<<owner, cancels>>] \in Nat
        BY <3>1 DEF SessionInv, TablesInv
      <4> QED
        BY <3>1, <4>1, <4>2 DEF Target, SessionInv, TablesInv
    <3>2. CASE <<owner, cancels>> \notin DOMAIN locals
      BY <3>2 DEF Target
    <3> QED
      BY <3>1, <3>2
  <2>8. request \in Requests /\ request.wire = nextWire /\ request.target = Target(owner, cancels)
    BY <2>2, <2>7 DEF Requests
  <2>9. /\ key \in (Nat \ {0}) \X CallerIds /\ key[1] = owner /\ key[2] = caller
    BY <2>2
  <2>10. route.owner = owner /\ route.caller = caller
    OBVIOUS
  <2> HIDE DEF request
  <2>11. TablesInv'
    <3>1. /\ nextWire' \in Nat \ {0} /\ DOMAIN sent' \subseteq 1 .. nextWire' - 1
      BY <1>1, <2>2, <2>5 DEF SessionInv, TablesInv
    <3>2. /\ sent' \in [DOMAIN sent' -> Routes] /\ finals' \in [DOMAIN sent' -> Nat]
          /\ routes' \in [DOMAIN routes' -> Routes] /\ locals' \in [DOMAIN locals' -> Nat]
      <4>1. \A w \in DOMAIN sent' : sent'[w] \in Routes
        BY <2>2, <2>5 DEF SessionInv, TablesInv
      <4>2. \A w \in DOMAIN sent' : finals'[w] \in Nat
        BY <2>5, <2>6 DEF SessionInv, TablesInv
      <4>3. \A w \in DOMAIN routes' : routes'[w] \in Routes
        BY <2>2, <2>3 DEF SessionInv, TablesInv
      <4>4. \A k \in DOMAIN locals' : locals'[k] \in Nat
        BY <2>2, <2>4, Zenon DEF SessionInv, TablesInv
      <4> HIDE DEF route, key
      <4> QED
        BY <2>3, <2>4, <2>5, <2>6, <4>1, <4>2, <4>3, <4>4
    <3>3. \A w \in DOMAIN routes' : routes'[w] = sent'[w] /\ finals'[w] = 0
      BY <2>3, <2>5, <2>6 DEF SessionInv, TablesInv
    <3>4. /\ DOMAIN routes' \subseteq DOMAIN sent'
          /\ DOMAIN locals' \subseteq (Nat \ {0}) \X CallerIds
      BY <2>3, <2>4, <2>5, <2>9 DEF SessionInv, TablesInv
    <3>5. RoutesMirror'
      <4>1. ASSUME NEW w \in DOMAIN routes'
            PROVE  /\ <<routes'[w].owner, routes'[w].caller>> \in DOMAIN locals'
                   /\ locals'[<<routes'[w].owner, routes'[w].caller>>] = w
                   /\ routes'[w].owner \in DOMAIN mailboxes'
        <5>1. CASE w = nextWire
          BY <5>1, <1>1, <2>2, <2>3, <2>4, <2>10
        <5>2. CASE w \in DOMAIN routes
          BY <5>2, <1>1, <2>3, <2>4 DEF SessionInv, TablesInv, RoutesMirror
        <5> QED
          BY <5>1, <5>2, <2>3
      <4>2. ASSUME NEW k \in DOMAIN locals'
            PROVE  /\ locals'[k] \in DOMAIN routes'
                   /\ routes'[locals'[k]] = [owner |-> k[1], caller |-> k[2]]
        <5>1. CASE k = key
          BY <5>1, <2>3, <2>4, <2>9
        <5>2. CASE k \in DOMAIN locals
          BY <5>2, <2>3, <2>4 DEF SessionInv, TablesInv, RoutesMirror
        <5> QED
          BY <5>1, <5>2, <2>4
      <4> QED
        BY <4>1, <4>2 DEF RoutesMirror
    <3>6. MailboxesInv'
      BY <1>1, <2>5, MailboxPart DEF SessionInv, MailboxesInv
    <3>7. AnswersGoHome'
      <4>1. \A w \in DOMAIN finals' : finals'[w] <= 1
        BY <2>5, <2>6 DEF SessionInv, TablesInv, AnswersGoHome
      <4> QED
        BY <4>1, <3>6 DEF AnswersGoHome, MailboxesInv
    <3> QED
      BY <3>1, <3>2, <3>3, <3>4, <3>5, <3>6, <3>7, Zenon DEF TablesInv, MailboxesInv
  <2>12. QueuesInv'
    <3>1. /\ requests' \in Seq(Requests)
          /\ Range(requests') = Range(requests) \union {request}
      BY <2>1, <2>8, RangeAppend DEF SessionInv, QueuesInv
    <3>2. ASSUME NEW r \in held' \union Range(requests')
          PROVE  /\ r.wire \in DOMAIN sent'
                 /\ r.target # 0 => /\ r.target \in DOMAIN sent'
                                    /\ sent'[r.target].owner = sent'[r.wire].owner
      <4>1. CASE r = request
        BY <4>1, <2>2, <2>5, <2>7, <2>8, <2>10
      <4>2. CASE r \in held \union Range(requests)
        BY <4>2, <2>5 DEF SessionInv, QueuesInv, CancelsOwn
      <4> QED
        BY <1>1, <3>1, <4>1, <4>2
    <3> QED
      BY <1>1, <3>1, <3>2 DEF SessionInv, QueuesInv, CancelsOwn
  <2> QED
    BY <1>2, <2>11, <2>12 DEF SessionInv
<1> QED
  BY <1>3, <1>4

-----------------------------------------------------------------------------
(* The server's steps. *)

Open == {"flush", "work", "inspection", "report", "watches"}

\* A step of an open session that keeps the clients and who has a mailbox.
LEMMA StaysOpen ==
    ASSUME SessionInv, ~closed, server' \in Open, UNCHANGED <<closed, clients>>,
           DOMAIN mailboxes' = DOMAIN mailboxes
    PROVE  ClientsInv'
BY DEF SessionInv, ClientsInv, OnlyLastClientEnds, Owners, Open, Stages

\* A step that takes respond's Disconnected.
LEMMA HangsUp ==
    ASSUME SessionInv, ~closed, NEW r, Hung(r), server' = "quit",
           UNCHANGED <<closed, clients, mailboxes>>
    PROVE  ClientsInv'
<1>1. \A o \in Owners : ~clients[o]
  BY HungMeansEmpty DEF SessionInv
<1> QED
  BY <1>1 DEF SessionInv, ClientsInv, OnlyLastClientEnds, Owners, Stages

LEMMA TablesUnchanged ==
    ASSUME TablesInv, UNCHANGED <<mailboxes, routes, locals, nextWire, sent, finals>>
    PROVE  TablesInv'
BY DEF TablesInv, RoutesMirror, AnswersGoHome

LEMMA QueuesUnchanged ==
    ASSUME QueuesInv, UNCHANGED <<requests, held, outbox, sent>>
    PROVE  QueuesInv'
BY DEF QueuesInv, CancelsOwn

LEMMA OpenStage ==
    ASSUME SessionInv, server \in Open
    PROVE  ~closed
BY DEF SessionInv, ClientsInv, Open

LEMMA ResponseType ==
    ASSUME NEW w \in Nat, NEW final \in BOOLEAN
    PROVE  Response(w, final) \in Messages
BY DEF Response, Messages

LEMMA FlushStep ==
    ASSUME SessionInv, Flush
    PROVE  SessionInv'
<1>1. /\ ~closed /\ server = "flush" /\ outbox # <<>>
      /\ UNCHANGED <<closed, clients, nextWire, requests, held, sent>>
  BY OpenStage DEF Flush, Open
<1>2. Head(outbox) \in Messages /\ Tail(outbox) \in Seq(Messages)
  BY <1>1, RangeTail DEF SessionInv, QueuesInv
<1>3. CASE Hung(Head(outbox)) /\ server' = "quit" /\ UNCHANGED <<routing, outbox, finals>>
  <2>1. UNCHANGED <<mailboxes, routes, locals>>
    BY <1>3 DEF routing
  <2> QED
    BY <1>1, <1>3, <2>1, HangsUp, TablesUnchanged, QueuesUnchanged DEF SessionInv
<1>4. CASE /\ ~Hung(Head(outbox)) /\ Respond(Head(outbox))
           /\ outbox' = Tail(outbox) /\ UNCHANGED server
  <2>1. TablesInv' /\ DOMAIN mailboxes' = DOMAIN mailboxes
    BY <1>1, <1>2, <1>4, RespondTables DEF SessionInv
  <2>2. ClientsInv'
    BY <1>1, <1>4, <2>1, StaysOpen DEF Open
  <2>3. QueuesInv'
    BY <1>1, <1>2, <1>4 DEF SessionInv, QueuesInv, CancelsOwn
  <2> QED
    BY <2>1, <2>2, <2>3 DEF SessionInv
<1>5. CASE Full(Head(outbox)) /\ server' = "inspection" /\ UNCHANGED <<routing, outbox, finals>>
  <2>1. UNCHANGED <<mailboxes, routes, locals>>
    BY <1>5 DEF routing
  <2> QED
    BY <1>1, <1>5, <2>1, StaysOpen, TablesUnchanged, QueuesUnchanged DEF SessionInv, Open
<1> QED
  BY <1>3, <1>4, <1>5 DEF Flush

LEMMA DrainStep ==
    ASSUME SessionInv, Drain
    PROVE  SessionInv'
<1>1. /\ ~closed /\ server' = "work" /\ requests' = <<>>
      /\ UNCHANGED <<closed, mailboxes, routes, locals, clients, nextWire, outbox,
                     sent, finals>>
  BY OpenStage DEF Drain, Open, routing
<1>2. ASSUME NEW r \in held'
      PROVE  \E q \in held \union Range(requests) :
                /\ r = [q EXCEPT !.phase = IF @ = "preparing" THEN "ready" ELSE @]
                /\ q \in Requests
  <2>1. Range(requests) \subseteq Requests
    BY DEF SessionInv, QueuesInv, Range
  <2> QED
    BY <1>2, <2>1 DEF Drain, SessionInv, QueuesInv
<1>3. ASSUME NEW r \in held'
      PROVE  \E q \in held \union Range(requests) :
                r \in Requests /\ r.wire = q.wire /\ r.target = q.target
  <2>1. PICK q \in held \union Range(requests) :
                /\ r = [q EXCEPT !.phase = IF @ = "preparing" THEN "ready" ELSE @]
                /\ q \in Requests
    BY <1>2, <1>3
  <2> QED
    BY <2>1 DEF Requests
<1>4. Range(requests') = {} /\ requests' \in Seq(Requests)
  BY <1>1 DEF Range
<1>5. QueuesInv'
  BY <1>1, <1>3, <1>4 DEF SessionInv, QueuesInv, CancelsOwn
<1> QED
  BY <1>1, <1>5, StaysOpen, TablesUnchanged DEF SessionInv, Open

\* enqueue_response, whatever becomes of the request it answers.
LEMMA EnqueueKeeps ==
    ASSUME SessionInv, ~closed, NEW r \in Messages, NEW next \in Open,
           Enqueue(r, next), UNCHANGED <<closed, clients, nextWire, sent>>
    PROVE  TablesInv' /\ ClientsInv' /\ outbox' \in Seq(Messages)
<1>1. CASE Hung(r) /\ server' = "quit" /\ UNCHANGED <<routing, outbox, finals>>
  <2>1. UNCHANGED <<mailboxes, routes, locals>>
    BY <1>1 DEF routing
  <2> QED
    BY <1>1, <2>1, HangsUp, TablesUnchanged DEF SessionInv, QueuesInv
<1>2. CASE /\ Full(r) /\ outbox' = Append(outbox, r) /\ server' = next
           /\ UNCHANGED <<routing, finals>>
  <2>1. UNCHANGED <<mailboxes, routes, locals>>
    BY <1>2 DEF routing
  <2>2. outbox' \in Seq(Messages)
    BY <1>2, RangeAppend DEF SessionInv, QueuesInv
  <2> QED
    BY <1>2, <2>1, <2>2, StaysOpen, TablesUnchanged DEF SessionInv
<1>3. CASE ~Hung(r) /\ Respond(r) /\ server' = next /\ UNCHANGED outbox
  BY <1>3, RespondTables, StaysOpen DEF SessionInv, QueuesInv
<1> QED
  BY <1>1, <1>2, <1>3 DEF Enqueue

LEMMA AnswerStep ==
    ASSUME SessionInv, NEW request \in held, Answer(request)
    PROVE  SessionInv'
<1>1. /\ ~closed /\ UNCHANGED <<closed, clients, nextWire, requests, sent>>
  BY OpenStage DEF Answer, Open
<1>2. request \in Requests /\ request.wire \in Nat
  BY DEF SessionInv, QueuesInv, Requests
<1>3. TablesInv' /\ ClientsInv' /\ outbox' \in Seq(Messages)
  <2>1. PICK final \in BOOLEAN : Enqueue(Response(request.wire, final), "work")
    BY Zenon DEF Answer
  <2> QED
    BY <1>1, <1>2, <2>1, ResponseType, EnqueueKeeps DEF Open
<1>4. QueuesInv'
  <2>1. \/ held' = held \ {request}
        \/ held' = (held \ {request}) \union {[request EXCEPT !.phase = "preparing"]}
    BY Zenon DEF Answer
  <2>2. /\ [request EXCEPT !.phase = "preparing"] \in Requests
        /\ [request EXCEPT !.phase = "preparing"].wire = request.wire
        /\ [request EXCEPT !.phase = "preparing"].target = request.target
    BY <1>2 DEF Requests
  <2>3. ASSUME NEW r \in held' \union Range(requests')
        PROVE  \E q \in held \union Range(requests) :
                  r.wire = q.wire /\ r.target = q.target
    BY <1>1, <2>1, <2>2, Zenon
  <2>4. held' \subseteq Requests
    BY <2>1, <2>2 DEF SessionInv, QueuesInv
  <2>5. \A r \in held' \union Range(requests') :
            /\ r.wire \in DOMAIN sent
            /\ r.target # 0 => /\ r.target \in DOMAIN sent
                               /\ sent[r.target].owner = sent[r.wire].owner
    BY <2>3 DEF SessionInv, QueuesInv, CancelsOwn
  <2> QED
    BY <1>1, <1>3, <2>4, <2>5 DEF SessionInv, QueuesInv, CancelsOwn
<1> QED
  BY <1>3, <1>4 DEF SessionInv

\* A step within an open session that touches neither tables nor queues.
LEMMA StageStep ==
    ASSUME SessionInv, ~closed, server' \in Open,
           UNCHANGED <<closed, mailboxes, routes, locals, clients, nextWire, requests,
                       held, outbox, sent, finals>>
    PROVE  SessionInv'
BY StaysOpen, TablesUnchanged, QueuesUnchanged DEF SessionInv

LEMMA NotifyStep ==
    ASSUME SessionInv, ~closed, NEW next \in Open, Notify(next)
    PROVE  SessionInv'
<1> DEFINE event == Response(0, TRUE)
<1>1. UNCHANGED <<closed, clients, nextWire, requests, held, outbox, sent>>
  BY DEF Notify
<1>2. QueuesInv' /\ event \in Messages
  BY <1>1, QueuesUnchanged, ResponseType, Zenon DEF SessionInv
<1>3. CASE Hung(event) /\ server' = "quit" /\ UNCHANGED <<routing, finals>>
  <2>1. UNCHANGED <<mailboxes, routes, locals>>
    BY <1>3 DEF routing
  <2> QED
    BY <1>1, <1>2, <1>3, <2>1, HangsUp, TablesUnchanged, Zenon DEF SessionInv
<1>4. CASE Full(event) /\ server' = next /\ UNCHANGED <<routing, finals>>
  BY <1>1, <1>4, StageStep DEF routing
<1>5. CASE ~Hung(event) /\ Respond(event) /\ server' = next
  <2> HIDE DEF event
  <2> QED
    BY <1>1, <1>2, <1>5, RespondTables, StaysOpen DEF SessionInv
<1> QED
  BY <1>3, <1>4, <1>5, Zenon DEF Notify

LEMMA ReportStep ==
    ASSUME SessionInv, Report
    PROVE  SessionInv'
<1> DEFINE report == Response(0, TRUE)
<1>1. ~closed /\ UNCHANGED <<closed, clients, nextWire, requests, held, outbox, sent>>
  BY OpenStage DEF Report, Open
<1>2. QueuesInv' /\ report \in Messages
  BY <1>1, QueuesUnchanged, ResponseType, Zenon DEF SessionInv
<1>3. CASE server' \in {"flush", "watches"} /\ UNCHANGED <<routing, finals>>
  BY <1>1, <1>3, StageStep DEF routing, Open
<1>4. CASE Hung(report) /\ server' = "quit" /\ UNCHANGED <<routing, finals>>
  <2>1. UNCHANGED <<mailboxes, routes, locals>>
    BY <1>4 DEF routing
  <2> QED
    BY <1>1, <1>2, <1>4, <2>1, HangsUp, TablesUnchanged, Zenon DEF SessionInv
<1>5. CASE ~Hung(report) /\ Respond(report) /\ server' = "watches"
  <2> HIDE DEF report
  <2> QED
    BY <1>1, <1>2, <1>5, RespondTables, StaysOpen DEF SessionInv, Open
<1> QED
  BY <1>3, <1>4, <1>5, Zenon DEF Report

LEMMA QuitStep ==
    ASSUME SessionInv, Quit
    PROVE  SessionInv'
<1>1. /\ server' = "closing" /\ closed' = TRUE
      /\ UNCHANGED <<mailboxes, routes, locals, clients, nextWire, requests, held,
                     outbox, sent, finals>>
  BY DEF Quit, routing
<1>2. ClientsInv'
  BY <1>1 DEF SessionInv, ClientsInv, OnlyLastClientEnds, Owners, Stages
<1> QED
  BY <1>1, <1>2, TablesUnchanged, QueuesUnchanged DEF SessionInv

LEMMA CloseStep ==
    ASSUME SessionInv, Close
    PROVE  SessionInv'
<1>1. /\ server = "closing" /\ server' = "gone"
      /\ routes' = <<>> /\ locals' = <<>> /\ mailboxes' = <<>>
      /\ UNCHANGED <<closed, clients, nextWire, requests, held, outbox, sent, finals>>
  BY DEF Close
<1>2. /\ DOMAIN routes' = {} /\ DOMAIN locals' = {} /\ DOMAIN mailboxes' = {}
      /\ routes' \in [{} -> Routes] /\ locals' \in [{} -> Nat]
      /\ mailboxes' \in [{} -> Seq(Messages)]
  BY <1>1
<1>3. ClientsInv'
  BY <1>1, <1>2 DEF SessionInv, ClientsInv, OnlyLastClientEnds, Owners, Stages
<1>4. RoutesMirror' /\ AnswersGoHome'
  BY <1>1, <1>2 DEF SessionInv, TablesInv, RoutesMirror, AnswersGoHome
<1>5. TablesInv'
  BY <1>1, <1>2, <1>4 DEF SessionInv, TablesInv
<1> QED
  BY <1>1, <1>3, <1>5, QueuesUnchanged DEF SessionInv

-----------------------------------------------------------------------------
\* The inductive invariant of the channel.
THEOREM SessionInvariance == SessionSpec => []SessionInv
<1>1. SessionInit => SessionInv
  <2> SUFFICES ASSUME SessionInit PROVE SessionInv
    OBVIOUS
  <2>1. /\ DOMAIN mailboxes = {1} /\ mailboxes[1] = <<>>
        /\ mailboxes \in [DOMAIN mailboxes -> Seq(Messages)]
        /\ Range(mailboxes[1]) = {}
    BY DEF SessionInit, Range
  <2>2. /\ DOMAIN routes = {} /\ DOMAIN locals = {} /\ DOMAIN sent = {} /\ DOMAIN finals = {}
        /\ routes \in [{} -> Routes] /\ locals \in [{} -> Nat]
        /\ sent \in [{} -> Routes] /\ finals \in [{} -> Nat]
        /\ nextWire = 1 /\ Range(requests) = {} /\ held = {}
        /\ requests \in Seq(Requests) /\ outbox \in Seq(Messages)
    BY DEF SessionInit, Range
  <2>3. /\ clients \in Seq(BOOLEAN) /\ Owners = {1} /\ clients[1] = TRUE
        /\ closed = FALSE /\ server = "flush"
    BY DEF SessionInit, Owners
  <2>4. TablesInv
    BY <2>1, <2>2 DEF TablesInv, RoutesMirror, AnswersGoHome
  <2>5. ClientsInv
    BY <2>1, <2>3, Zenon DEF ClientsInv, OnlyLastClientEnds, Stages
  <2>6. QueuesInv
    BY <2>2 DEF QueuesInv, CancelsOwn
  <2> QED
    BY <2>4, <2>5, <2>6 DEF SessionInv
<1>2. SessionInv /\ [SessionNext]_sessionVars => SessionInv'
  <2> SUFFICES ASSUME SessionInv, [SessionNext]_sessionVars
               PROVE  SessionInv'
    OBVIOUS
  <2>1. CASE ServerStep
    <3>1. CASE EndBoundary
      <4>1. ~closed
        BY <3>1, OpenStage DEF EndBoundary, Open
      <4> QED
        BY <3>1, <4>1, StageStep DEF EndBoundary, Open, routing
    <3>2. CASE Inspection
      <4>1. ~closed
        BY <3>2, OpenStage DEF Inspection, Open
      <4>2. CASE Notify("report")
        BY <4>1, <4>2, NotifyStep DEF Open
      <4> QED
        BY <3>2, <4>1, <4>2, StageStep DEF Inspection, Open, routing
    <3>3. CASE Watches
      <4>1. ~closed
        BY <3>3, OpenStage DEF Watches, Open
      <4>2. CASE Notify("watches")
        BY <4>1, <4>2, NotifyStep DEF Open
      <4> QED
        BY <3>3, <4>1, <4>2, StageStep DEF Watches, Open, routing
    <3>4. ASSUME NEW request \in held, Answer(request) PROVE SessionInv'
      BY <3>4, AnswerStep
    <3> QED
      BY <2>1, <3>1, <3>2, <3>3, <3>4, FlushStep, DrainStep, ReportStep, CloseStep, QuitStep
         DEF ServerStep
  <2>2. CASE ClientStep
    BY <2>2, CloneStep, DropStep, ClaimStep, SubmitStep DEF ClientStep
  <2>3. CASE server = "work" /\ Quit
    BY <2>3, QuitStep
  <2>4. CASE \E owner \in Owners : Receive(owner)
    BY <2>4, ReceiveStep
  <2>5. CASE UNCHANGED sessionVars
    <3>1. UNCHANGED <<closed, mailboxes, routes, locals, clients, nextWire, requests,
                      server, held, outbox, sent, finals>>
      BY <2>5 DEF sessionVars
    <3> QED
      BY <3>1, TablesUnchanged, QueuesUnchanged
         DEF SessionInv, ClientsInv, OnlyLastClientEnds, Owners
  <2> QED
    BY <2>1, <2>2, <2>3, <2>4, <2>5 DEF SessionNext, Over
<1> QED
  BY <1>1, <1>2, PTL DEF SessionSpec

\* The two tables that submit, respond, unregister_client and close update stay
\* inverse to each other and name registered clients only.
THEOREM TablesMirror == SessionSpec => []RoutesMirror
<1>1. SessionInv => RoutesMirror
  BY DEF SessionInv, TablesInv
<1> QED
  BY <1>1, SessionInvariance, PTL

\* respond delivers to the client that asked, under the id that client chose,
\* and delivers no second final response.
THEOREM AnswersReachCaller == SessionSpec => []AnswersGoHome
<1>1. SessionInv => AnswersGoHome
  BY DEF SessionInv, TablesInv
<1> QED
  BY <1>1, SessionInvariance, PTL

\* submit translates a cancel into the wire id of a request of the same client.
THEOREM CancelsStayHome == SessionSpec => []CancelsOwn
<1>1. SessionInv => CancelsOwn
  BY DEF SessionInv, QueuesInv
<1> QED
  BY <1>1, SessionInvariance, PTL

\* respond says Disconnected, and so ends the workspace, only after the last
\* client has left.
THEOREM LastClientEnds == SessionSpec => []OnlyLastClientEnds
<1>1. SessionInv => OnlyLastClientEnds
  BY DEF SessionInv, ClientsInv
<1> QED
  BY <1>1, SessionInvariance, PTL

-----------------------------------------------------------------------------
(***************************************************************************)
(* No request is lost, and no boundary waits for itself.                   *)
(***************************************************************************)

\* A request is on its way to the server, with it, or its final response waits
\* for room in the mailbox.
Waiting(w) ==
    \/ \E r \in held \union Range(requests) : r.wire = w
    \/ \E m \in Range(outbox) : m.wire = w /\ m.final

\* What is not finally answered keeps its route while its client is there.
RoutesKept ==
    \A w \in DOMAIN sent :
        /\ sent[w].owner \in Owners
        /\ finals[w] = 0 /\ ~closed /\ clients[sent[w].owner] => w \in DOMAIN routes

\* A route is there only as long as an answer is to come.
AnswersComing == ~closed => \A w \in DOMAIN routes : Waiting(w)

\* A cancel is younger than what it cancels.
CancelsBack == \A r \in held \union Range(requests) : r.target < r.wire

KeptInv == RoutesKept /\ AnswersComing /\ CancelsBack

\* An accepted request has had its final response, or its client has left, or the
\* session ended, or the server still has what it takes to answer: neither a full
\* mailbox, nor a preparation, nor the departure of others loses it.
RequestsKept ==
    \A w \in DOMAIN sent :
        finals[w] = 1 \/ closed \/ ~clients[sent[w].owner] \/ Waiting(w)

\* The guard of Answer.
MayAnswer(r) ==
    /\ r.phase # "preparing"
    /\ ~\E q \in held : q.wire = r.target /\ q.phase = "new"

\* A boundary with requests left to answer can answer one of them: requests that
\* cancel each other never wait in a circle.
BoundaryGoesOn ==
    (\E r \in held : r.phase # "preparing") => \E r \in held : MayAnswer(r)

LEMMA HeadOrTail ==
    ASSUME NEW S, NEW s \in Seq(S), s # <<>>
    PROVE  \A r \in Range(s) : r = Head(s) \/ r \in Range(Tail(s))
<1>1. /\ DOMAIN Tail(s) = 1 .. Len(s) - 1 /\ DOMAIN s = 1 .. Len(s)
      /\ Len(s) \in Nat /\ Len(s) > 0 /\ Head(s) = s[1]
  OBVIOUS
<1>2. \A i \in 1 .. Len(s) - 1 : Tail(s)[i] = s[i + 1]
  OBVIOUS
<1> SUFFICES ASSUME NEW i \in DOMAIN s, i # 1 PROVE s[i] \in Range(Tail(s))
  BY <1>1 DEF Range
<1>3. i - 1 \in DOMAIN Tail(s) /\ Tail(s)[i - 1] = s[i]
  BY <1>1, <1>2
<1> QED
  BY <1>3 DEF Range

\* A step that leaves alone what KeptInv is about.
LEMMA KeepsQuietly ==
    ASSUME KeptInv,
           UNCHANGED <<closed, clients, sent, finals, routes, held, requests, outbox>>
    PROVE  KeptInv'
BY Zenon DEF KeptInv, RoutesKept, AnswersComing, CancelsBack, Waiting, Owners

\* A step after which a request without its final response has the route it had.
LEMMA KeepsRoutes ==
    ASSUME RoutesKept, UNCHANGED <<closed, clients, sent>>,
           \A w \in DOMAIN sent :
               finals'[w] = 0 => finals[w] = 0 /\ (w \in DOMAIN routes => w \in DOMAIN routes')
    PROVE  RoutesKept'
BY Zenon DEF RoutesKept, Owners

\* respond takes a route away only with the final response, and then always.
LEMMA RespondRoutes ==
    ASSUME TablesInv, ClientsInv, NEW r \in Messages, ~Hung(r), Respond(r)
    PROVE  /\ \A w \in DOMAIN sent :
                 finals'[w] = 0 =>
                    finals[w] = 0 /\ (w \in DOMAIN routes => w \in DOMAIN routes')
           /\ DOMAIN routes' \subseteq DOMAIN routes
           /\ r.final /\ r.wire # 0 => r.wire \notin DOMAIN routes'
<1>1. CASE Stale(r)
  <2>1. UNCHANGED <<routes, finals>> /\ r.wire \notin DOMAIN routes
    BY <1>1 DEF Respond, Stale
  <2> QED
    BY <2>1, Zenon
<1>2. CASE ~Stale(r) /\ r.wire = 0
  <2>1. UNCHANGED <<routes, finals>>
    BY <1>2 DEF Respond
  <2> QED
    BY <1>2, <2>1
<1>3. CASE ~Stale(r) /\ r.wire # 0
  <2>1. IF r.final THEN /\ routes' = Without(routes, {r.wire})
                        /\ finals' = [finals EXCEPT ![r.wire] = @ + 1]
                   ELSE UNCHANGED <<routes, finals>>
    BY <1>3 DEF Respond
  <2>2. CASE ~r.final
    BY <2>1, <2>2
  <2>3. CASE r.final
    <3>1. DOMAIN routes' = DOMAIN routes \ {r.wire}
      BY <2>1, <2>3 DEF Without, Restrict
    <3>2. r.wire \in DOMAIN routes
      <4>1. Recipient(r) \in DOMAIN mailboxes /\ 0 \notin DOMAIN mailboxes
        BY <1>3 DEF Hung, ClientsInv, Owners
      <4> QED
        BY <1>3, <4>1 DEF Recipient
    <3>3. finals \in [DOMAIN sent -> Nat] /\ finals[r.wire] = 0 /\ r.wire \in DOMAIN sent
      BY <3>2 DEF TablesInv
    <3>4. /\ finals'[r.wire] = 1
          /\ \A w \in DOMAIN sent : w # r.wire => finals'[w] = finals[w]
      BY <2>1, <2>3, <3>3
    <3> QED
      BY <3>1, <3>3, <3>4
  <2> QED
    BY <2>2, <2>3, Zenon
<1> QED
  BY <1>1, <1>2, <1>3

-----------------------------------------------------------------------------
(* The clients' steps. *)

LEMMA CloneKeeps ==
    ASSUME SessionInv, KeptInv, Clone
    PROVE  KeptInv'
<1>1. /\ clients' = Append(clients, TRUE)
      /\ UNCHANGED <<closed, routes, requests, held, outbox, sent, finals>>
  BY DEF Clone
<1>2. /\ Owners \subseteq Owners'
      /\ \A o \in Owners : clients'[o] = clients[o]
  <2>1. clients \in Seq(BOOLEAN) /\ Owners = 1 .. Len(clients) /\ Len(clients) \in Nat
    BY DEF SessionInv, ClientsInv, Owners
  <2>2. /\ Owners' = 1 .. Len(clients) + 1
        /\ \A o \in 1 .. Len(clients) : clients'[o] = clients[o]
    BY <1>1, <2>1 DEF Owners
  <2>3. 1 .. Len(clients) \subseteq 1 .. Len(clients) + 1
    BY <2>1
  <2> QED
    BY <2>1, <2>2, <2>3, Zenon
<1>3. RoutesKept'
  BY <1>1, <1>2, Zenon DEF KeptInv, RoutesKept
<1> QED
  BY <1>1, <1>3, Zenon DEF KeptInv, AnswersComing, CancelsBack, Waiting

LEMMA DropKeeps ==
    ASSUME SessionInv, KeptInv, NEW owner \in Owners, Drop(owner)
    PROVE  KeptInv'
<1>1. /\ clients' = [clients EXCEPT ![owner] = FALSE]
      /\ UNCHANGED <<closed, requests, held, outbox, sent, finals>>
  BY ZenonT(30) DEF Drop
<1>2. DOMAIN routes' = {w \in DOMAIN routes : routes[w].owner # owner}
  BY DEF Drop, Without, Restrict
<1>3. /\ Owners' = Owners /\ clients'[owner] = FALSE
      /\ \A o \in Owners : o # owner => clients'[o] = clients[o]
  BY <1>1 DEF SessionInv, ClientsInv, Owners
<1>4. \A w \in DOMAIN routes : routes[w] = sent[w]
  BY DEF SessionInv, TablesInv
<1>5. RoutesKept'
  BY <1>1, <1>2, <1>3, <1>4 DEF KeptInv, RoutesKept
<1>6. AnswersComing'
  BY <1>1, <1>2 DEF KeptInv, AnswersComing, Waiting
<1> QED
  BY <1>1, <1>5, <1>6 DEF KeptInv, CancelsBack

LEMMA SubmitKeeps ==
    ASSUME SessionInv, KeptInv, NEW owner \in Owners, NEW caller \in CallerIds,
           NEW cancels \in CallerIds \union {0}, Submit(owner, caller, cancels)
    PROVE  KeptInv'
<1>1. UNCHANGED <<closed, clients, held, outbox>>
  BY DEF Submit
<1>2. CASE ~Accepted(owner, caller)
  <2>1. UNCHANGED <<requests, routes, sent, finals>>
    BY <1>2 DEF Submit
  <2> QED
    BY <1>1, <2>1, KeepsQuietly
<1>3. CASE Accepted(owner, caller)
  <2> DEFINE route == [owner |-> owner, caller |-> caller]
             request == [wire |-> nextWire, phase |-> "new", target |-> Target(owner, cancels)]
  <2>1. /\ requests' = Append(requests, request)
        /\ routes' = Extend(routes, nextWire, route)
        /\ sent' = Extend(sent, nextWire, route)
        /\ finals' = Extend(finals, nextWire, 0)
    BY <1>3 DEF Submit
  <2>2. nextWire \in Nat \ {0} /\ DOMAIN sent \subseteq 1 .. nextWire - 1
    BY DEF SessionInv, TablesInv
  <2>3. DOMAIN routes' = DOMAIN routes \union {nextWire}
    BY <2>1 DEF Extend
  <2>4. /\ DOMAIN sent' = DOMAIN sent \union {nextWire}
        /\ sent'[nextWire].owner = owner
        /\ \A w \in DOMAIN sent : sent'[w] = sent[w] /\ finals'[w] = finals[w]
    <3>1. nextWire \notin DOMAIN sent /\ DOMAIN finals = DOMAIN sent
      BY <2>2 DEF SessionInv, TablesInv
    <3> QED
      BY <2>1, <3>1 DEF Extend
  <2>5. Target(owner, cancels) \in Nat /\ Target(owner, cancels) < nextWire
    <3>1. CASE <<owner, cancels>> \in DOMAIN locals
      <4>1. locals[<<owner, cancels>>] \in DOMAIN sent
        BY <3>1, Zenon DEF SessionInv, TablesInv, RoutesMirror
      <4> QED
        BY <2>2, <3>1, <4>1 DEF Target
    <3>2. CASE <<owner, cancels>> \notin DOMAIN locals
      BY <2>2, <3>2 DEF Target
    <3> QED
      BY <3>1, <3>2
  <2>6. request \in Requests /\ request.wire = nextWire /\ request.target = Target(owner, cancels)
    BY <2>2, <2>5 DEF Requests
  <2> HIDE DEF request, route
  <2>7. Range(requests') = Range(requests) \union {request}
    BY <2>1, <2>6, RangeAppend DEF SessionInv, QueuesInv
  <2>8. RoutesKept'
    BY <1>1, <2>3, <2>4 DEF KeptInv, RoutesKept, Owners
  <2>9. AnswersComing'
    BY <1>1, <2>3, <2>6, <2>7 DEF KeptInv, AnswersComing, Waiting
  <2>10. CancelsBack'
    BY <1>1, <2>5, <2>6, <2>7 DEF KeptInv, CancelsBack
  <2> QED
    BY <2>8, <2>9, <2>10 DEF KeptInv
<1> QED
  BY <1>2, <1>3

-----------------------------------------------------------------------------
(* The server's steps. *)

LEMMA FlushKeeps ==
    ASSUME SessionInv, KeptInv, Flush
    PROVE  KeptInv'
<1>1. /\ outbox # <<>> /\ UNCHANGED <<closed, clients, requests, held, sent>>
  BY DEF Flush
<1>2. CASE UNCHANGED <<routing, outbox, finals>>
  BY <1>1, <1>2, KeepsQuietly DEF routing
<1>3. CASE ~Hung(Head(outbox)) /\ Respond(Head(outbox)) /\ outbox' = Tail(outbox)
  <2>1. outbox \in Seq(Messages) /\ Head(outbox) \in Messages
    BY <1>1, RangeTail DEF SessionInv, QueuesInv
  <2>2. /\ \A w \in DOMAIN sent :
              finals'[w] = 0 =>
                 finals[w] = 0 /\ (w \in DOMAIN routes => w \in DOMAIN routes')
        /\ DOMAIN routes' \subseteq DOMAIN routes
        /\ Head(outbox).final /\ Head(outbox).wire # 0 =>
              Head(outbox).wire \notin DOMAIN routes'
    BY <1>3, <2>1, RespondRoutes DEF SessionInv
  <2>3. RoutesKept'
    BY <1>1, <2>2, KeepsRoutes DEF KeptInv
  <2>4. AnswersComing'
    <3>1. \A m \in Range(outbox) : m = Head(outbox) \/ m \in Range(outbox')
      BY <1>1, <1>3, <2>1, HeadOrTail
    <3>2. 0 \notin DOMAIN routes
      BY DEF SessionInv, TablesInv
    <3>3. ASSUME NEW w \in DOMAIN routes', ~closed PROVE Waiting(w)'
      BY <1>1, <2>2, <3>1, <3>2, <3>3 DEF KeptInv, AnswersComing, Waiting
    <3> QED
      BY <1>1, <3>3, Zenon DEF AnswersComing
  <2> QED
    BY <1>1, <2>3, <2>4 DEF KeptInv, CancelsBack
<1> QED
  BY <1>2, <1>3 DEF Flush

LEMMA DrainKeeps ==
    ASSUME SessionInv, KeptInv, Drain
    PROVE  KeptInv'
<1> DEFINE Taken(q) == [q EXCEPT !.phase = IF @ = "preparing" THEN "ready" ELSE @]
<1>1. /\ requests' = <<>>
      /\ held' = {Taken(q) : q \in held \union Range(requests)}
      /\ UNCHANGED <<closed, routes, clients, outbox, sent, finals>>
  BY DEF Drain, routing
<1>2. \A q \in held \union Range(requests) :
          Taken(q).wire = q.wire /\ Taken(q).target = q.target
  <2>1. held \union Range(requests) \subseteq Requests
    BY DEF SessionInv, QueuesInv, Range
  <2> QED
    BY <2>1 DEF Requests
<1> HIDE DEF Taken
<1>3. Range(requests') = {}
  BY <1>1 DEF Range
<1>4. RoutesKept'
  BY <1>1, KeepsRoutes DEF KeptInv
<1>5. AnswersComing'
  BY <1>1, <1>2 DEF KeptInv, AnswersComing, Waiting
<1>6. CancelsBack'
  BY <1>1, <1>2, <1>3 DEF KeptInv, CancelsBack
<1> QED
  BY <1>4, <1>5, <1>6 DEF KeptInv

LEMMA AnswerKeeps ==
    ASSUME SessionInv, KeptInv, NEW request \in held, Answer(request)
    PROVE  KeptInv'
<1> DEFINE begun == [request EXCEPT !.phase = "preparing"]
<1>1. /\ ~closed /\ UNCHANGED <<closed, clients, requests, sent>>
  BY OpenStage DEF Answer, Open
<1>2. /\ request \in Requests /\ request.wire \in Nat \ {0}
      /\ begun.wire = request.wire /\ begun.target = request.target
  BY DEF SessionInv, QueuesInv, Requests
<1>3. PICK final \in BOOLEAN :
         /\ Enqueue(Response(request.wire, final), "work")
         /\ held' = IF final THEN held \ {request} ELSE (held \ {request}) \union {begun}
  BY Zenon DEF Answer
<1> DEFINE r == Response(request.wire, final)
<1>4. r \in Messages /\ r.wire = request.wire /\ r.final = final
  BY <1>2, ResponseType DEF Response
<1> HIDE DEF begun, r
<1>5. CancelsBack'
  BY <1>1, <1>2, <1>3 DEF KeptInv, CancelsBack
<1>6. CASE Hung(r) /\ UNCHANGED <<routing, outbox, finals>>
  <2>1. UNCHANGED <<routes, mailboxes>>
    BY <1>6 DEF routing
  <2>2. DOMAIN mailboxes = {}
    BY <1>1, <1>6, HungMeansEmpty, Zenon DEF SessionInv, ClientsInv
  <2>3. DOMAIN routes' = {}
    BY <2>1, <2>2, Zenon DEF SessionInv, TablesInv, RoutesMirror
  <2>4. RoutesKept'
    BY <1>1, <1>6, <2>1, KeepsRoutes DEF KeptInv
  <2> QED
    BY <1>5, <2>3, <2>4 DEF KeptInv, AnswersComing
<1>7. CASE Full(r) /\ outbox' = Append(outbox, r) /\ UNCHANGED <<routing, finals>>
  <2>1. UNCHANGED routes /\ Range(outbox') = Range(outbox) \union {r}
    BY <1>4, <1>7, RangeAppend DEF routing, SessionInv, QueuesInv
  <2>2. RoutesKept'
    BY <1>1, <1>7, <2>1, KeepsRoutes DEF KeptInv
  <2>3. AnswersComing'
    <3>1. ASSUME NEW w \in DOMAIN routes PROVE Waiting(w)'
      <4>1. CASE w = request.wire /\ final
        BY <1>4, <2>1, <4>1, Zenon DEF Waiting
      <4>2. CASE w = request.wire /\ ~final
        BY <1>2, <1>3, <4>2, Zenon DEF Waiting
      <4>3. CASE w # request.wire
        BY <1>1, <1>3, <2>1, <4>3, Zenon DEF Waiting, KeptInv, AnswersComing
      <4> QED
        BY <4>1, <4>2, <4>3
    <3> QED
      BY <2>1, <3>1, Zenon DEF AnswersComing
  <2> QED
    BY <1>5, <2>2, <2>3 DEF KeptInv
<1>8. CASE ~Hung(r) /\ Respond(r) /\ UNCHANGED outbox
  <2>1. /\ \A w \in DOMAIN sent :
              finals'[w] = 0 =>
                 finals[w] = 0 /\ (w \in DOMAIN routes => w \in DOMAIN routes')
        /\ DOMAIN routes' \subseteq DOMAIN routes
        /\ r.final /\ r.wire # 0 => r.wire \notin DOMAIN routes'
    BY <1>4, <1>8, RespondRoutes DEF SessionInv
  <2>2. RoutesKept'
    BY <1>1, <2>1, KeepsRoutes DEF KeptInv
  <2>3. AnswersComing'
    <3>1. ASSUME NEW w \in DOMAIN routes' PROVE Waiting(w)'
      <4>1. CASE w = request.wire
        <5>1. ~final
          BY <1>2, <1>4, <2>1, <4>1
        <5> QED
          BY <1>2, <1>3, <4>1, <5>1, Zenon DEF Waiting
      <4>2. CASE w # request.wire
        BY <1>1, <1>3, <1>8, <2>1, <4>2, Zenon DEF Waiting, KeptInv, AnswersComing
      <4> QED
        BY <4>1, <4>2
    <3> QED
      BY <3>1, Zenon DEF AnswersComing
  <2> QED
    BY <1>5, <2>2, <2>3 DEF KeptInv
<1> QED
  BY <1>3, <1>6, <1>7, <1>8, Zenon DEF Enqueue, r

\* An event or a report, with request id zero, touches no route.
LEMMA NoticeIsNoAnswer ==
    ASSUME NEW r, r.wire = 0, Respond(r)
    PROVE  UNCHANGED <<routes, finals>>
BY DEF Respond

LEMMA NotifyKeeps ==
    ASSUME KeptInv, NEW next, Notify(next)
    PROVE  KeptInv'
<1>1. UNCHANGED <<closed, clients, requests, held, outbox, sent>>
  BY DEF Notify
<1>2. Response(0, TRUE).wire = 0
  BY DEF Response
<1>3. UNCHANGED <<routes, finals>>
  BY <1>2, NoticeIsNoAnswer, Zenon DEF Notify, routing
<1> QED
  BY <1>1, <1>3, KeepsQuietly

LEMMA ReportKeeps ==
    ASSUME KeptInv, Report
    PROVE  KeptInv'
<1>1. UNCHANGED <<closed, clients, requests, held, outbox, sent>>
  BY DEF Report
<1>2. Response(0, TRUE).wire = 0
  BY DEF Response
<1>3. UNCHANGED <<routes, finals>>
  BY <1>2, NoticeIsNoAnswer, Zenon DEF Report, routing
<1> QED
  BY <1>1, <1>3, KeepsQuietly

\* Once the session is closed nothing more is promised.
LEMMA ClosedKeeps ==
    ASSUME KeptInv, Quit \/ (SessionInv /\ Close)
    PROVE  KeptInv'
<1>1. closed' /\ UNCHANGED <<clients, requests, held, sent>>
  BY DEF Quit, Close, SessionInv, ClientsInv
<1> QED
  BY <1>1, Zenon DEF KeptInv, RoutesKept, AnswersComing, CancelsBack, Owners

LEMMA KeptAlways == SessionSpec => []KeptInv
<1>1. SessionInit => KeptInv
  <2> SUFFICES ASSUME SessionInit PROVE KeptInv
    OBVIOUS
  <2>1. DOMAIN sent = {} /\ DOMAIN routes = {} /\ held = {} /\ Range(requests) = {}
    BY DEF SessionInit, Range
  <2> QED
    BY <2>1 DEF KeptInv, RoutesKept, AnswersComing, CancelsBack
<1>2. SessionInv /\ KeptInv /\ [SessionNext]_sessionVars => KeptInv'
  <2> SUFFICES ASSUME SessionInv, KeptInv, [SessionNext]_sessionVars
               PROVE  KeptInv'
    OBVIOUS
  <2>1. CASE EndBoundary \/ Inspection \/ Watches \/ Over \/ UNCHANGED sessionVars
             \/ \E owner \in Owners : Claim(owner) \/ Receive(owner)
    <3>1. CASE Notify("report") \/ Notify("watches")
      BY <3>1, NotifyKeeps
    <3>2. CASE ~(Notify("report") \/ Notify("watches"))
      <4>1. UNCHANGED <<closed, clients, sent, finals, routes, held, requests, outbox>>
        BY <2>1, <3>2 DEF EndBoundary, Inspection, Watches, Over, Claim, Receive,
                          routing, sessionVars
      <4> QED
        BY <4>1, KeepsQuietly
    <3> QED
      BY <3>1, <3>2
  <2>2. CASE ServerStep \/ (server = "work" /\ Quit)
    BY <2>1, <2>2, FlushKeeps, DrainKeeps, AnswerKeeps, ReportKeeps, ClosedKeeps DEF ServerStep
  <2>3. CASE ClientStep
    BY <2>1, <2>3, CloneKeeps, DropKeeps, SubmitKeeps DEF ClientStep
  <2> QED
    BY <2>1, <2>2, <2>3 DEF SessionNext
<1> QED
  BY <1>1, <1>2, SessionInvariance, PTL DEF SessionSpec

\* No accepted request is lost between submit, drain, the boundary and
\* pending_responses: until its final response is in the mailbox the server has
\* the request or that response.  (That the boundary then comes round is the
\* fairness EveryRequestAnswered assumes.)
THEOREM NoRequestIsLost == SessionSpec => []RequestsKept
<1>1. SessionInv /\ KeptInv => RequestsKept
  <2> SUFFICES ASSUME SessionInv, KeptInv, NEW w \in DOMAIN sent,
                      finals[w] # 1, ~closed, clients[sent[w].owner]
               PROVE  Waiting(w)
    BY DEF RequestsKept
  <2>1. finals[w] = 0
    BY DEF SessionInv, TablesInv, AnswersGoHome
  <2> QED
    BY <2>1 DEF KeptInv, RoutesKept, AnswersComing
<1> QED
  BY <1>1, KeptAlways, SessionInvariance, PTL

\* The boundary never waits for itself: as long as it holds a request to answer
\* there is one whose target, if it is a cancel, is not waiting.
THEOREM BoundaryNeverStuck == SessionSpec => []BoundaryGoesOn
<1>1. SessionInv /\ KeptInv => BoundaryGoesOn
  <2> SUFFICES ASSUME SessionInv, KeptInv, NEW a \in held, a.phase # "preparing"
               PROVE  \E r \in held : MayAnswer(r)
    BY DEF BoundaryGoesOn
  <2> DEFINE S == {r.wire : r \in {q \in held : q.phase # "preparing"}}
  <2>1. held \subseteq Requests /\ \A q \in held : q.target < q.wire
    BY DEF SessionInv, QueuesInv, KeptInv, CancelsBack
  <2>2. S \subseteq Nat /\ S # {}
    BY <2>1 DEF Requests
  <2>3. PICK x \in S : \A y \in S : ~(<<y, x>> \in OpToRel(<, Nat))
    BY <2>2, NatLessThanWellFounded, WFMin
  <2>4. PICK r \in held : r.phase # "preparing" /\ r.wire = x
    OBVIOUS
  <2>5. ASSUME NEW q \in held, q.wire = r.target, q.phase = "new" PROVE FALSE
    <3>1. q.wire \in S /\ q.phase # "preparing"
      BY <2>5
    <3>2. q.wire \in Nat /\ x \in Nat /\ q.wire < x
      BY <2>1, <2>2, <2>4, <2>5, <3>1
    <3> HIDE DEF S
    <3>3. ~(q.wire < x)
      BY <2>3, <3>1, <3>2, Zenon DEF OpToRel
    <3> QED
      BY <3>2, <3>3
  <2> QED
    BY <2>4, <2>5 DEF MayAnswer
<1> QED
  BY <1>1, KeptAlways, SessionInvariance, PTL

=============================================================================
