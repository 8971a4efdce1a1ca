------------------------- MODULE NetworkHostProofs -------------------------
(***************************************************************************)
(* What TLAPS proves of the session host, for any number of seats,         *)
(* connections and messages and any capacity of the channels: the table of *)
(* resume credentials and the table of writers always agree with the       *)
(* connection threads; the shared budget of buffered bytes is exactly what *)
(* is in flight; what poll says of a handle alternates, whatever the order *)
(* in which the threads claim, serve, drain and release; the limit on      *)
(* connections bounds their threads; and stop() leaves nothing behind.     *)
(***************************************************************************)
EXTENDS NetworkHost, FiniteSetTheorems, TLAPS

Places == Holding \union {"request", "refused", "finish", "done"}
Conn == [at : Places, handle : Nat, queued : Nat, receiving : BOOLEAN]

TablesTyped ==
    /\ conns \in Seq(Conn)
    /\ resume \in Seq(BOOLEAN)
    /\ DOMAIN writers \subseteq Nat

Holds(t) == conns[t].at \in Holding
Lists(t) == conns[t].at \in Listed

\* A thread inside its claim has an active credential, no other thread has the
\* same one, and every active credential is somebody's.
ClaimsExclusive ==
    /\ \A t \in Threads : Holds(t) => /\ conns[t].handle \in DOMAIN resume
                                      /\ resume[conns[t].handle]
    /\ \A t, u \in Threads :
          Holds(t) /\ Holds(u) /\ conns[t].handle = conns[u].handle => t = u
    /\ \A h \in DOMAIN resume :
          resume[h] => \E t \in Threads : Holds(t) /\ conns[t].handle = h

WritersServed ==
    /\ \A t \in Threads : Lists(t) => /\ conns[t].handle \in DOMAIN writers
                                      /\ writers[conns[t].handle] = t
    /\ \A h \in DOMAIN writers : /\ writers[h] \in Threads
                                 /\ Lists(writers[h])
                                 /\ conns[writers[h]].handle = h

HostInv == TablesTyped /\ ClaimsExclusive /\ WritersServed

-----------------------------------------------------------------------------
LEMMA NotBelow ==
    ASSUME NEW n \in Nat, NEW i, n <= i, i = n \/ i \in 0 .. n - 1
    PROVE  i = n
OBVIOUS

LEMMA NotLess ==
    ASSUME NEW n \in Nat
    PROVE  ~(n < n)
OBVIOUS

LEMMA LessOne ==
    ASSUME NEW l \in Nat, NEW o \in Nat, NEW k \in {0, 1}
    PROVE  (l + o) - k = (l - k) + o /\ (l + o) - k \in Int
OBVIOUS

LEMMA AppendKeeps ==
    ASSUME NEW S, NEW s \in Seq(S), NEW x \in S
    PROVE  \A i \in DOMAIN s : Append(s, x)[i] = s[i]
OBVIOUS

\* One thread's record is replaced.
LEMMA Replaced ==
    ASSUME TablesTyped, NEW t \in Threads, NEW c \in Conn,
           conns' = [conns EXCEPT ![t] = c]
    PROVE  /\ conns' \in Seq(Conn) /\ Threads' = Threads
           /\ conns'[t] = c
           /\ \A u \in Threads : u # t => conns'[u] = conns[u]
BY DEF TablesTyped, Threads

LEMMA Moved ==
    ASSUME TablesTyped, NEW t \in Threads, NEW place \in Places, Move(t, place)
    PROVE  /\ conns' \in Seq(Conn) /\ Threads' = Threads
           /\ conns'[t].at = place /\ conns'[t].handle = conns[t].handle
           /\ conns'[t].queued = conns[t].queued
           /\ conns'[t].receiving = conns[t].receiving
           /\ \A u \in Threads : u # t => conns'[u] = conns[u]
<1>1. conns[t] \in Conn
  BY DEF TablesTyped, Threads
<1> DEFINE c == [conns[t] EXCEPT !.at = place]
<1>2. /\ c \in Conn /\ c.at = place /\ c.handle = conns[t].handle
      /\ c.queued = conns[t].queued /\ c.receiving = conns[t].receiving
  BY <1>1 DEF Conn
<1>3. conns' = [conns EXCEPT ![t] = c]
  BY DEF Move
<1> HIDE DEF c
<1> QED
  BY <1>2, <1>3, Replaced, Zenon

\* A step that neither enters nor leaves a claim or a writer's time in the
\* table, and touches neither table.
LEMMA SameRoles ==
    ASSUME HostInv, UNCHANGED <<resume, writers>>,
           conns' \in Seq(Conn), Threads' = Threads,
           \A u \in Threads : /\ Holds(u)' <=> Holds(u)
                              /\ Lists(u)' <=> Lists(u)
                              /\ Holds(u) => conns'[u].handle = conns[u].handle
    PROVE  HostInv'
<1>1. TablesTyped'
  BY DEF HostInv, TablesTyped
<1>2. ClaimsExclusive'
  BY DEF HostInv, ClaimsExclusive
<1>3. \A u \in Threads : Lists(u) => Holds(u)
  BY DEF Lists, Holds, Listed, Holding
<1>4. WritersServed'
  BY <1>3 DEF HostInv, WritersServed
<1> QED
  BY <1>1, <1>2, <1>4 DEF HostInv

LEMMA MovedInRole ==
    ASSUME HostInv, NEW t \in Threads, NEW place \in Places, Move(t, place),
           UNCHANGED <<resume, writers>>,
           place \in Holding <=> Holds(t),
           place \in Listed <=> Lists(t)
    PROVE  HostInv'
<1>1. /\ conns' \in Seq(Conn) /\ Threads' = Threads
      /\ conns'[t].at = place /\ conns'[t].handle = conns[t].handle
      /\ \A u \in Threads : u # t => conns'[u] = conns[u]
  BY Moved DEF HostInv
<1> QED
  BY <1>1, SameRoles DEF Holds, Lists

\* The steps of the application and the listener that leave the threads and
\* both tables alone.
LEMMA TablesUntouched ==
    ASSUME HostInv, UNCHANGED <<conns, resume, writers>>
    PROVE  HostInv'
<1>1. conns' \in Seq(Conn) /\ Threads' = Threads
  BY DEF HostInv, TablesTyped, Threads
<1> QED
  BY <1>1, SameRoles DEF Holds, Lists

LEMMA ApplicationSteps ==
    ASSUME HostInv,
           AppStep \/ Joined \/ TakeCommand \/ AcceptNobody \/ JoinWorkers \/ AcceptFails
               \/ UNCHANGED hostVars
    PROVE  HostInv'
<1>1. CASE Poll \/ Stop \/ Joined \/ TakeCommand
  BY <1>1, TablesUntouched DEF Poll, Stop, Joined, TakeCommand
<1>2. CASE AcceptNobody \/ JoinWorkers \/ AcceptFails
  BY <1>2, TablesUntouched DEF AcceptNobody, JoinWorkers, AcceptFails
<1>3. CASE \E handle \in DOMAIN resume : Send(handle)
  BY <1>3, TablesUntouched DEF Send
<1>4. CASE UNCHANGED hostVars
  BY <1>4, TablesUntouched DEF hostVars
<1> QED
  BY <1>1, <1>2, <1>3, <1>4 DEF AppStep

\* A payload handed over lands in a queue.  (Outside the threads the update
\* would change nothing.)
LEMMA HandOverKeeps ==
    ASSUME HostInv, HandOver
    PROVE  HostInv'
<1>1. UNCHANGED <<resume, writers>>
  BY DEF HandOver
<1>2. CASE UNCHANGED conns
  BY <1>1, <1>2, TablesUntouched
<1>4. CASE /\ conns' = [conns EXCEPT ![listener.target].queued = @ + 1]
           /\ listener.target \notin Threads
  <2>1. conns' = conns
    BY <1>4 DEF HostInv, TablesTyped, Threads
  <2> QED
    BY <1>1, <2>1, TablesUntouched
<1>3. CASE /\ conns' = [conns EXCEPT ![listener.target].queued = @ + 1]
           /\ listener.target \in Threads
  <2> DEFINE t == listener.target
             c == [conns[t] EXCEPT !.queued = @ + 1]
  <2>1. t \in Threads /\ conns[t] \in Conn
    BY <1>3 DEF HostInv, TablesTyped, Threads
  <2>2. c \in Conn /\ c.at = conns[t].at /\ c.handle = conns[t].handle
    BY <2>1 DEF Conn
  <2>3. conns' = [conns EXCEPT ![t] = c]
    BY <1>3
  <2> HIDE DEF c
  <2>4. /\ conns' \in Seq(Conn) /\ Threads' = Threads /\ conns'[t] = c
        /\ \A u \in Threads : u # t => conns'[u] = conns[u]
    BY <2>1, <2>2, <2>3, Replaced, Zenon DEF HostInv
  <2> QED
    BY <1>1, <2>1, <2>2, <2>4, SameRoles DEF Holds, Lists
<1> QED
  BY <1>2, <1>3, <1>4 DEF HandOver

\* A new thread holds nothing yet.
LEMMA AcceptKeeps ==
    ASSUME HostInv, Accept
    PROVE  HostInv'
<1>1. UNCHANGED <<resume, writers>>
  BY DEF Accept
<1>2. CASE UNCHANGED conns
  BY <1>1, <1>2, TablesUntouched
<1>3. CASE conns' = Append(conns, NewConnection)
  <2>1. NewConnection \in Conn /\ NewConnection.at = "request"
    BY DEF NewConnection, Conn, Places
  <2>0. PICK n \in Nat : n = Len(conns) + 1
    BY DEF HostInv, TablesTyped
  <2>2. /\ conns' \in Seq(Conn)
        /\ Threads' = Threads \union {n} /\ n \notin Threads
        /\ conns'[n] = NewConnection
        /\ \A u \in Threads : conns'[u] = conns[u]
    BY <1>3, <2>0, <2>1 DEF HostInv, TablesTyped, Threads
  <2>3. /\ \A u \in Threads : (Holds(u)' <=> Holds(u)) /\ (Lists(u)' <=> Lists(u))
        /\ ~Holds(n)' /\ ~Lists(n)'
    BY <2>1, <2>2 DEF Holds, Lists, Holding, Listed
  <2>4. TablesTyped'
    BY <1>1, <2>2 DEF HostInv, TablesTyped
  <2>5. ClaimsExclusive'
    BY <1>1, <2>2, <2>3 DEF HostInv, ClaimsExclusive
  <2>6. WritersServed'
    BY <1>1, <2>2, <2>3 DEF HostInv, WritersServed
  <2> QED
    BY <2>4, <2>5, <2>6 DEF HostInv
<1> QED
  BY <1>2, <1>3 DEF Accept

-----------------------------------------------------------------------------
\* claim_resume gives an idle credential, or a new one, to the claiming thread.
LEMMA ClaimResumeKeeps ==
    ASSUME HostInv, NEW t \in Threads, ClaimResume(t)
    PROVE  HostInv'
<1>1. /\ UNCHANGED writers
      /\ conns[t].at = "request" /\ conns[t] \in Conn
      /\ resume \in Seq(BOOLEAN)
  BY DEF ClaimResume, HostInv, TablesTyped, Threads
<1>2. ~Holds(t) /\ ~Lists(t)
  BY <1>1 DEF Holds, Lists, Holding, Listed
<1>3. CASE UNCHANGED resume /\ Move(t, "finish")
  BY <1>1, <1>2, <1>3, MovedInRole DEF Places, Holding, Listed
<1>4. ASSUME NEW handle \in Nat,
             conns' = [conns EXCEPT ![t].at = "claimed", ![t].handle = handle],
             resume' \in Seq(BOOLEAN),
             DOMAIN resume' = DOMAIN resume \union {handle}, resume'[handle],
             \A h \in DOMAIN resume : h # handle => resume'[h] = resume[h],
             handle \in DOMAIN resume => ~resume[handle]
      PROVE  HostInv'
  <2> DEFINE c == [conns[t] EXCEPT !.at = "claimed", !.handle = handle]
  <2>1. c \in Conn /\ c.at = "claimed" /\ c.handle = handle
    BY <1>1, <1>4, Zenon DEF Conn, Places, Holding
  <2>2. conns' = [conns EXCEPT ![t] = c]
    BY <1>4, Zenon
  <2> HIDE DEF c
  <2>3. /\ conns' \in Seq(Conn) /\ Threads' = Threads
        /\ conns'[t].at = "claimed" /\ conns'[t].handle = handle
        /\ \A u \in Threads : u # t => conns'[u] = conns[u]
    BY <2>1, <2>2, Replaced, Zenon DEF HostInv
  <2>4. /\ \A u \in Threads : u # t => (Holds(u)' <=> Holds(u)) /\ (Lists(u)' <=> Lists(u))
        /\ Holds(t)' /\ ~Lists(t)'
    BY <2>3 DEF Holds, Lists, Holding, Listed
  <2>5. \A u \in Threads : Holds(u) => conns[u].handle # handle
    BY <1>4 DEF HostInv, ClaimsExclusive
  <2>6. TablesTyped'
    BY <1>1, <1>4, <2>3 DEF HostInv, TablesTyped
  <2>7. ClaimsExclusive'
    <3>1. \A u \in Threads' : Holds(u)' => /\ conns'[u].handle \in DOMAIN resume'
                                            /\ resume'[conns'[u].handle]
      <4>1. conns'[t].handle \in DOMAIN resume' /\ resume'[conns'[t].handle]
        BY <1>4, <2>3
      <4>2. \A u \in Threads : u # t /\ Holds(u)' =>
               /\ conns'[u].handle = conns[u].handle /\ conns[u].handle # handle
               /\ conns[u].handle \in DOMAIN resume /\ resume[conns[u].handle]
        BY <2>3, <2>4, <2>5 DEF HostInv, ClaimsExclusive
      <4> QED
        BY <1>4, <2>3, <4>1, <4>2, Zenon
    <3>2. \A u, v \in Threads' :
             Holds(u)' /\ Holds(v)' /\ conns'[u].handle = conns'[v].handle => u = v
      BY <2>3, <2>4, <2>5 DEF HostInv, ClaimsExclusive
    <3>3. \A h \in DOMAIN resume' :
             resume'[h] => \E u \in Threads' : Holds(u)' /\ conns'[u].handle = h
      <4> SUFFICES ASSUME NEW h \in DOMAIN resume', resume'[h]
                   PROVE  \E u \in Threads' : Holds(u)' /\ conns'[u].handle = h
        OBVIOUS
      <4>1. CASE h = handle
        BY <2>3, <2>4, <4>1
      <4>2. CASE h # handle
        <5>1. h \in DOMAIN resume /\ resume[h]
          BY <1>4, <4>2
        <5>2. PICK u \in Threads : Holds(u) /\ conns[u].handle = h
          BY <5>1 DEF HostInv, ClaimsExclusive
        <5> QED
          BY <1>2, <2>3, <2>4, <5>2
      <4> QED
        BY <4>1, <4>2
    <3> QED
      BY <3>1, <3>2, <3>3 DEF ClaimsExclusive
  <2>8. WritersServed'
    BY <1>1, <1>2, <2>3, <2>4 DEF HostInv, WritersServed
  <2> QED
    BY <2>6, <2>7, <2>8 DEF HostInv
<1>5. PICK handle \in 1 .. Len(resume) + 1 :
        \/ /\ handle <= Len(resume) /\ ~resume[handle]
           /\ resume' = [resume EXCEPT ![handle] = TRUE]
           /\ conns' = [conns EXCEPT ![t].at = "claimed", ![t].handle = handle]
        \/ /\ handle > Len(resume)
           /\ resume' = Append(resume, TRUE)
           /\ conns' = [conns EXCEPT ![t].at = "claimed", ![t].handle = handle]
        \/ UNCHANGED resume /\ Move(t, "finish")
  BY Zenon DEF ClaimResume
<1>6. CASE /\ handle <= Len(resume) /\ ~resume[handle]
           /\ resume' = [resume EXCEPT ![handle] = TRUE]
           /\ conns' = [conns EXCEPT ![t].at = "claimed", ![t].handle = handle]
  <2>1. /\ handle \in Nat /\ handle \in DOMAIN resume
        /\ resume' \in Seq(BOOLEAN) /\ DOMAIN resume' = DOMAIN resume
        /\ resume'[handle]
        /\ \A h \in DOMAIN resume : h # handle => resume'[h] = resume[h]
    BY <1>1, <1>6
  <2> QED
    BY <1>4, <1>6, <2>1, Zenon
<1>7. CASE /\ handle > Len(resume)
           /\ resume' = Append(resume, TRUE)
           /\ conns' = [conns EXCEPT ![t].at = "claimed", ![t].handle = handle]
  <2>1. /\ handle = Len(resume) + 1 /\ handle \in Nat /\ handle \notin DOMAIN resume
        /\ DOMAIN resume = 1 .. Len(resume)
    BY <1>1, <1>7
  <2>2. resume' \in Seq(BOOLEAN) /\ Len(resume') = handle
    BY <1>1, <1>7, <2>1
  <2>3. DOMAIN resume' = DOMAIN resume \union {handle}
    BY <1>1, <2>1, <2>2
  <2>4. resume'[handle] = TRUE
    BY <1>1, <1>7, <2>1
  <2>5. \A h \in DOMAIN resume : resume'[h] = resume[h]
    BY <1>1, <1>7, AppendKeeps, ZenonT(30)
  <2> QED
    BY <1>4, <1>7, <2>1, <2>2, <2>3, <2>4, <2>5, Zenon
<1> QED
  BY <1>3, <1>5, <1>6, <1>7, Zenon

\* release_resume comes from the only holder, and its writer is gone by then.
LEMMA ReleaseResumeKeeps ==
    ASSUME HostInv, NEW t \in Threads,
           \/ ReleaseResume(t, "claimed", "refused")
           \/ ReleaseResume(t, "release", "finish")
    PROVE  HostInv'
<1> DEFINE handle == conns[t].handle
<1>1. PICK place \in {"refused", "finish"} : Move(t, place)
  BY DEF ReleaseResume
<1>2. /\ UNCHANGED writers
      /\ conns[t].at \in {"claimed", "release"} /\ conns[t] \in Conn
      /\ resume' = [resume EXCEPT ![handle] = FALSE] /\ resume \in Seq(BOOLEAN)
  BY DEF ReleaseResume, HostInv, TablesTyped, Threads
<1>3. Holds(t) /\ ~Lists(t) /\ place \in Places /\ place \notin Holding
  BY <1>2 DEF Holds, Lists, Holding, Listed, Places
<1>4. handle \in DOMAIN resume
  BY <1>3 DEF HostInv, ClaimsExclusive
<1>5. /\ conns' \in Seq(Conn) /\ Threads' = Threads
      /\ conns'[t].at = place /\ conns'[t].handle = handle
      /\ \A u \in Threads : u # t => conns'[u] = conns[u]
  BY <1>1, <1>3, Moved DEF HostInv
<1>6. /\ \A u \in Threads : u # t => (Holds(u)' <=> Holds(u)) /\ (Lists(u)' <=> Lists(u))
      /\ ~Holds(t)' /\ ~Lists(t)'
  BY <1>3, <1>5 DEF Holds, Lists, Holding, Listed
<1>7. /\ resume' \in Seq(BOOLEAN) /\ DOMAIN resume' = DOMAIN resume /\ ~resume'[handle]
      /\ \A h \in DOMAIN resume : h # handle => resume'[h] = resume[h]
  BY <1>2, <1>4
<1>8. \A u \in Threads : u # t /\ Holds(u) => conns[u].handle # handle
  BY <1>3 DEF HostInv, ClaimsExclusive
<1>9. TablesTyped'
  BY <1>2, <1>5, <1>7 DEF HostInv, TablesTyped
<1> HIDE DEF handle
<1>10. ClaimsExclusive'
  <2>1. \A u \in Threads' : Holds(u)' => /\ conns'[u].handle \in DOMAIN resume'
                                          /\ resume'[conns'[u].handle]
    BY <1>5, <1>6, <1>7, <1>8 DEF HostInv, ClaimsExclusive
  <2>2. \A u, v \in Threads' :
           Holds(u)' /\ Holds(v)' /\ conns'[u].handle = conns'[v].handle => u = v
    BY <1>5, <1>6 DEF HostInv, ClaimsExclusive
  <2>3. \A h \in DOMAIN resume' :
           resume'[h] => \E u \in Threads' : Holds(u)' /\ conns'[u].handle = h
    <3> SUFFICES ASSUME NEW h \in DOMAIN resume', resume'[h]
                 PROVE  \E u \in Threads' : Holds(u)' /\ conns'[u].handle = h
      OBVIOUS
    <3>1. h # handle /\ h \in DOMAIN resume /\ resume[h]
      BY <1>7
    <3>2. PICK u \in Threads : Holds(u) /\ conns[u].handle = h
      BY <3>1 DEF HostInv, ClaimsExclusive
    <3> QED
      BY <1>5, <1>6, <3>1, <3>2 DEF handle
  <2> QED
    BY <2>1, <2>2, <2>3 DEF ClaimsExclusive
<1>11. WritersServed'
  BY <1>2, <1>3, <1>5, <1>6 DEF HostInv, WritersServed
<1> QED
  BY <1>9, <1>10, <1>11 DEF HostInv

\* websocket_loop enters its writer under the handle only it holds ...
LEMMA InsertWriterKeeps ==
    ASSUME HostInv, NEW t \in Threads, InsertWriter(t)
    PROVE  HostInv'
<1>1. /\ UNCHANGED resume /\ conns[t].at = "claimed" /\ conns[t] \in Conn
      /\ DOMAIN writers \subseteq Nat
  BY DEF InsertWriter, HostInv, TablesTyped, Threads
<1> DEFINE handle == conns[t].handle
           c == [conns[t] EXCEPT !.at = "greet", !.receiving = TRUE]
<1>2. c \in Conn /\ c.at = "greet" /\ c.handle = handle /\ handle \in Nat
  BY <1>1, Zenon DEF Conn, Places, Holding
<1>3. /\ conns' = [conns EXCEPT ![t] = c]
      /\ DOMAIN writers' = DOMAIN writers \union {handle} /\ writers'[handle] = t
      /\ \A h \in DOMAIN writers : h # handle => writers'[h] = writers[h]
  BY Zenon DEF InsertWriter
<1> HIDE DEF c
<1>4. /\ conns' \in Seq(Conn) /\ Threads' = Threads
      /\ conns'[t].at = "greet" /\ conns'[t].handle = handle
      /\ \A u \in Threads : u # t => conns'[u] = conns[u]
  BY <1>2, <1>3, Replaced, Zenon DEF HostInv
<1>5. /\ \A u \in Threads : u # t => (Holds(u)' <=> Holds(u)) /\ (Lists(u)' <=> Lists(u))
      /\ Holds(t) /\ ~Lists(t) /\ Holds(t)' /\ Lists(t)'
  BY <1>1, <1>4 DEF Holds, Lists, Holding, Listed
<1> HIDE DEF handle
<1>6. TablesTyped'
  BY <1>1, <1>2, <1>3, <1>4 DEF HostInv, TablesTyped
<1>7. ClaimsExclusive'
  BY <1>1, <1>4, <1>5 DEF HostInv, ClaimsExclusive, handle
<1>8. \A u \in Threads : u # t /\ Lists(u) => conns[u].handle # handle
  <2>1. \A u \in Threads : Lists(u) => Holds(u)
    BY DEF Lists, Holds, Listed, Holding
  <2> QED
    BY <1>5, <2>1 DEF HostInv, ClaimsExclusive, handle
<1>9. handle \notin DOMAIN writers
  BY <1>5, <1>8 DEF HostInv, WritersServed
<1>10. WritersServed'
  <2>1. \A u \in Threads' : Lists(u)' => /\ conns'[u].handle \in DOMAIN writers'
                                          /\ writers'[conns'[u].handle] = u
    BY <1>3, <1>4, <1>5, <1>8 DEF HostInv, WritersServed
  <2>2. \A h \in DOMAIN writers' : /\ writers'[h] \in Threads'
                                   /\ Lists(writers[h])'
                                   /\ conns'[writers'[h]].handle = h
    <3> SUFFICES ASSUME NEW h \in DOMAIN writers'
                 PROVE  /\ writers'[h] \in Threads' /\ Lists(writers[h])'
                        /\ conns'[writers'[h]].handle = h
      OBVIOUS
    <3>1. CASE h = handle
      BY <1>3, <1>4, <3>1 DEF Lists, Listed
    <3>2. CASE h # handle
      <4>1. h \in DOMAIN writers /\ writers'[h] = writers[h]
        BY <1>3, <3>2
      <4>2. writers[h] \in Threads /\ Lists(writers[h]) /\ conns[writers[h]].handle = h
        BY <4>1 DEF HostInv, WritersServed
      <4>3. conns'[writers[h]] = conns[writers[h]]
        BY <1>4, <1>5, <4>2
      <4> QED
        BY <1>4, <4>1, <4>2, <4>3 DEF Lists
    <3> QED
      BY <3>1, <3>2
  <2> QED
    BY <2>1, <2>2 DEF WritersServed
<1> QED
  BY <1>6, <1>7, <1>10 DEF HostInv

\* ... and takes out that one again.
LEMMA RemoveWriterKeeps ==
    ASSUME HostInv, NEW t \in Threads, RemoveWriter(t)
    PROVE  HostInv'
<1> DEFINE handle == conns[t].handle
<1>1. /\ UNCHANGED resume /\ conns[t].at = "remove" /\ Move(t, "drain")
      /\ DOMAIN writers \subseteq Nat
  BY DEF RemoveWriter, HostInv, TablesTyped
<1>2. /\ DOMAIN writers' = DOMAIN writers \ {handle}
      /\ \A h \in DOMAIN writers' : writers'[h] = writers[h]
  BY DEF RemoveWriter, Restrict
<1>3. /\ conns' \in Seq(Conn) /\ Threads' = Threads
      /\ conns'[t].at = "drain" /\ conns'[t].handle = handle
      /\ \A u \in Threads : u # t => conns'[u] = conns[u]
  BY <1>1, Moved DEF HostInv, Places, Holding
<1>4. /\ \A u \in Threads : u # t => (Holds(u)' <=> Holds(u)) /\ (Lists(u)' <=> Lists(u))
      /\ Holds(t) /\ Lists(t) /\ Holds(t)' /\ ~Lists(t)'
  BY <1>1, <1>3 DEF Holds, Lists, Holding, Listed
<1>5. TablesTyped'
  BY <1>1, <1>2, <1>3 DEF HostInv, TablesTyped
<1>6. ClaimsExclusive'
  BY <1>1, <1>3, <1>4 DEF HostInv, ClaimsExclusive
<1>7. writers[handle] = t
  BY <1>4 DEF HostInv, WritersServed
<1>8. \A h \in DOMAIN writers' : /\ writers[h] \in Threads /\ writers[h] # t
                                 /\ Lists(writers[h]) /\ conns[writers[h]].handle = h
  BY <1>2 DEF HostInv, WritersServed
<1> HIDE DEF handle
<1>9. WritersServed'
  <2>1. \A u \in Threads' : Lists(u)' => /\ conns'[u].handle \in DOMAIN writers'
                                          /\ writers'[conns'[u].handle] = u
    <3> SUFFICES ASSUME NEW u \in Threads, Lists(u)'
                 PROVE  /\ conns'[u].handle \in DOMAIN writers'
                        /\ writers'[conns'[u].handle] = u
      BY <1>3
    <3>1. u # t /\ Lists(u) /\ conns'[u] = conns[u]
      BY <1>3, <1>4
    <3>2. conns[u].handle \in DOMAIN writers /\ writers[conns[u].handle] = u
      BY <3>1 DEF HostInv, WritersServed
    <3> QED
      BY <1>2, <1>7, <3>1, <3>2
  <2>2. \A h \in DOMAIN writers' : /\ writers'[h] \in Threads'
                                   /\ Lists(writers[h])'
                                   /\ conns'[writers'[h]].handle = h
    BY <1>2, <1>3, <1>8 DEF Lists
  <2> QED
    BY <2>1, <2>2 DEF WritersServed
<1> QED
  BY <1>5, <1>6, <1>9 DEF HostInv

-----------------------------------------------------------------------------
\* The steps of a session that stay inside its claim and its time in the
\* table, or outside of both.
LEMMA SessionSteps ==
    ASSUME HostInv, NEW t \in Threads,
           Request(t) \/ ReadPeer(t) \/ ReadNothing(t) \/ Greet(t)
               \/ Silent(t, "request", "finish")
               \/ Announce(t, "refused", Rejected, "finish")
               \/ Announce(t, "farewell", Event("Disconnected", conns[t].handle, 0), "release")
    PROVE  HostInv'
<1> USE DEF Places, Holding, Listed
<1>1. Round \in {"remove", "serve"}
  BY DEF Round
<1>2. CASE Request(t) \/ Silent(t, "request", "finish")
  BY <1>2, MovedInRole, Zenon DEF Request, Silent, Announce, Holds, Lists
<1>3. CASE ReadPeer(t) \/ ReadNothing(t)
  BY <1>1, <1>3, MovedInRole, ZenonT(30) DEF ReadPeer, ReadNothing, Reading, Silent, Holds, Lists
<1>4. CASE Greet(t)
  BY <1>1, <1>4, MovedInRole DEF Greet, Announce, Holds, Lists
<1>5. CASE Announce(t, "refused", Rejected, "finish")
  BY <1>5, MovedInRole DEF Announce, Holds, Lists
<1>6. CASE Announce(t, "farewell", Event("Disconnected", conns[t].handle, 0), "release")
  BY <1>6, MovedInRole DEF Announce, Holds, Lists
<1> QED
  BY <1>2, <1>3, <1>4, <1>5, <1>6

Requeue(r, p, q) == [r EXCEPT !.at = p, !.queued = q]

LEMMA Requeued ==
    ASSUME NEW r \in Conn, NEW q \in Nat, NEW p \in Places
    PROVE  /\ Requeue(r, p, q) \in Conn
           /\ Requeue(r, p, q).at = p
           /\ Requeue(r, p, q).handle = r.handle
           /\ Requeue(r, p, q).queued = q
BY Zenon DEF Requeue, Conn

LEMMA QueueSteps ==
    ASSUME HostInv, NEW t \in Threads, WriteOne(t) \/ DrainWriter(t) \/ Finish(t)
    PROVE  HostInv'
<1>1. conns[t] \in Conn /\ UNCHANGED <<resume, writers>>
  BY DEF HostInv, TablesTyped, Threads, WriteOne, DrainWriter, Finish
<1>2. ASSUME NEW c \in Conn, conns' = [conns EXCEPT ![t] = c],
             c.at \in Holding <=> Holds(t), c.at \in Listed <=> Lists(t),
             Holds(t) => c.handle = conns[t].handle
      PROVE  HostInv'
  <2>1. /\ conns' \in Seq(Conn) /\ Threads' = Threads /\ conns'[t] = c
        /\ \A u \in Threads : u # t => conns'[u] = conns[u]
    BY <1>2, Replaced, Zenon DEF HostInv
  <2> QED
    BY <1>1, <1>2, <2>1, SameRoles DEF Holds, Lists
<1>3. CASE WriteOne(t)
  <2>1. PICK to \in {"serve", "read"} :
            conns' = [conns EXCEPT ![t].queued = @ - 1, ![t].at = to]
    BY <1>3, Zenon DEF WriteOne
  <2> DEFINE q == conns[t].queued - 1
             c == Requeue(conns[t], to, q)
  <2>5. to \in Places /\ q \in Nat
    BY <1>1, <1>3 DEF WriteOne, Conn, Places, Holding
  <2>2. c \in Conn /\ c.at = to /\ c.handle = conns[t].handle
    BY <1>1, <2>5, Requeued
  <2>3. conns' = [conns EXCEPT ![t] = c]
    BY <2>1, Zenon DEF Requeue
  <2>4. Holds(t) /\ Lists(t) /\ to \in Holding /\ to \in Listed
    BY <1>3 DEF WriteOne, Holds, Lists, Holding, Listed
  <2> HIDE DEF c
  <2> QED
    BY <1>2, <2>2, <2>3, <2>4, Zenon
<1>4. CASE DrainWriter(t)
  <2> DEFINE c == Requeue(conns[t], "farewell", 0)
  <2>1. "farewell" \in Places /\ 0 \in Nat
    BY DEF Places, Holding
  <2>2. c \in Conn /\ c.at = "farewell" /\ c.handle = conns[t].handle
    BY <1>1, <2>1, Requeued
  <2>3. conns' = [conns EXCEPT ![t] = c]
    BY <1>4, Zenon DEF DrainWriter, Requeue
  <2>4. Holds(t) /\ ~Lists(t) /\ "farewell" \in Holding /\ "farewell" \notin Listed
    BY <1>4 DEF DrainWriter, Holds, Lists, Holding, Listed
  <2> HIDE DEF c
  <2> QED
    BY <1>2, <2>2, <2>3, <2>4, Zenon
<1>5. CASE Finish(t)
  <2> DEFINE c == [NewConnection EXCEPT !.at = "done", !.queued = conns[t].queued]
  <2>2. c \in Conn /\ c.at = "done"
    BY <1>1, Zenon DEF Conn, Places, NewConnection
  <2>3. conns' = [conns EXCEPT ![t] = c]
    BY <1>5 DEF Finish
  <2>4. ~Holds(t) /\ ~Lists(t) /\ "done" \notin Holding /\ "done" \notin Listed
    BY <1>5 DEF Finish, Holds, Lists, Holding, Listed
  <2> HIDE DEF c
  <2> QED
    BY <1>2, <2>2, <2>3, <2>4, Zenon
<1> QED
  BY <1>3, <1>4, <1>5

-----------------------------------------------------------------------------
LEMMA HostStarts == HostInit => HostInv
<1> SUFFICES ASSUME HostInit PROVE HostInv
  OBVIOUS
<1>1. Threads = {} /\ DOMAIN writers = {} /\ DOMAIN resume = {}
  BY DEF HostInit, Threads
<1>2. conns \in Seq(Conn) /\ resume \in Seq(BOOLEAN)
  BY DEF HostInit
<1> QED
  BY <1>1, <1>2 DEF HostInv, TablesTyped, ClaimsExclusive, WritersServed

LEMMA HostSteps ==
    ASSUME HostInv, [HostNext]_hostVars
    PROVE  HostInv'
<1>1. CASE AppStep \/ Joined \/ ListenerStep \/ Accept \/ AcceptFails \/ Over
              \/ UNCHANGED hostVars
  BY <1>1, ApplicationSteps, HandOverKeeps, AcceptKeeps DEF ListenerStep, Over
<1>2. ASSUME NEW t \in Threads, PeerStep(t) PROVE HostInv'
  BY <1>2, SessionSteps, ClaimResumeKeeps DEF PeerStep
<1>3. ASSUME NEW t \in Threads, ThreadStep(t) PROVE HostInv'
  BY <1>3, SessionSteps, QueueSteps, ReleaseResumeKeeps, InsertWriterKeeps,
     RemoveWriterKeeps DEF ThreadStep, HandshakeFails, Depart
<1> QED
  BY <1>1, <1>2, <1>3 DEF HostNext

\* The invariant of the two tables and the connection threads.
THEOREM HostInvariance == HostSpec => []HostInv
<1>1. HostInit => HostInv
  BY HostStarts
<1>2. HostInv /\ [HostNext]_hostVars => HostInv'
  BY HostSteps
<1> QED
  BY <1>1, <1>2, PTL DEF HostSpec

\* claim_resume, websocket_loop and release_resume leave no credential active
\* without its one holder, and no writer in the table without its thread.
THEOREM EveryClaimHasItsHolder == HostSpec => []ClaimsHaveHolders
<1>1. ASSUME HostInv PROVE ClaimsHaveHolders
  <2>1. \A h \in DOMAIN resume : resume[h] <=> Holders(h) # {}
    BY <1>1 DEF HostInv, ClaimsExclusive, Holders, Holds
  <2>2. \A h \in DOMAIN resume : \A t, u \in Holders(h) : t = u
    BY <1>1 DEF HostInv, ClaimsExclusive, Holders, Holds
  <2>3. \A h \in DOMAIN writers : writers[h] \in Holders(h) /\ conns[writers[h]].at \in Listed
    BY <1>1 DEF HostInv, WritersServed, Holders, Lists, Listed, Holding
  <2> QED
    BY <1>1, <2>1, <2>2, <2>3 DEF ClaimsHaveHolders, HostInv, WritersServed, Lists
<1> QED
  BY <1>1, HostInvariance, PTL

-----------------------------------------------------------------------------
(* The budget.  Every place a payload can be in is counted, and the queue of a *)
(* session is bounded by what the listener can still put behind its drain.     *)

Kinds == {"Connected", "Disconnected", "Message", "HttpRequest", "Rejected", "Overflow"}
Events == [kind : Kinds, connection : Nat, bytes : {0, 1}]

ChannelsTyped ==
    /\ events \in Seq(Events)
    /\ commands \in Seq(Nat)
    /\ buffered \in Int
    /\ listener.at = "hand_over" => listener.target \in Threads

Targets(t) == listener.at = "hand_over" /\ listener.target = t
Early == {"request", "claimed", "refused"}
Drained == {"farewell", "release", "finish", "done"}

\* Nothing is queued before the channel exists; behind the drain there is at
\* most the one payload whose sender the listener had cloned.
QueueBounded(t) ==
    /\ conns[t].at \in Early => conns[t].queued = 0 /\ ~conns[t].receiving
    /\ conns[t].at \in Drained =>
          /\ conns[t].queued <= 1
          /\ Targets(t) /\ conns[t].receiving => conns[t].queued = 0

BudgetInv ==
    /\ ChannelsTyped
    /\ \A t \in Threads : QueueBounded(t)
    /\ buffered = InFlight

\* What publish and note_overflow do: the event goes in with its bytes, or the
\* loss is noted (and announced when there is room) and takes no bytes.
Published(e, spare) ==
    \/ /\ lost' /\ (events' = events \/ events' = Append(events, Overflow))
       /\ buffered' = buffered - spare
    \/ /\ lost' <=> lost
       /\ events' = Append(events, e)
       /\ buffered' = buffered - spare + e.bytes

LEMMA PublishEffect ==
    ASSUME NEW e \in Events, NEW spare \in Nat, buffered \in Int, Publish(e, spare)
    PROVE  Published(e, spare)
<1> DEFINE room == Len(events) < MaxEvents
           afford == e.bytes <= MaxBuffered - (buffered - spare)
<1>1. /\ events' = IF ~room THEN events
                   ELSE Append(events, IF afford THEN e ELSE Overflow)
      /\ lost' = (lost \/ ~room \/ ~afford)
      /\ buffered' = IF room /\ afford THEN buffered - spare + e.bytes
                     ELSE buffered - spare
  BY Zenon DEF Publish
<1> HIDE DEF room, afford
<1> QED
  BY <1>1, Zenon DEF Published

LEMMA OverflowEffect ==
    ASSUME NEW e, NEW spare \in Nat, NoteOverflow, buffered' = buffered - spare
    PROVE  Published(e, spare)
BY DEF NoteOverflow, Published

LEMMA EventFields ==
    ASSUME NEW kind \in Kinds, NEW h \in Nat, NEW b \in {0, 1}
    PROVE  /\ Event(kind, h, b) \in Events /\ Event(kind, h, b).bytes = b
           /\ Event(kind, h, b).connection = h /\ Event(kind, h, b).kind = kind
BY DEF Event, Events

LEMMA EventTyped ==
    /\ Rejected \in Events /\ Rejected.bytes = 0 /\ Rejected.connection = 0
    /\ Overflow \in Events /\ Overflow.bytes = 0 /\ Overflow.connection = 0
    /\ Rejected.kind = "Rejected" /\ Overflow.kind = "Overflow"
    /\ \A kind \in Kinds, h \in Nat, b \in {0, 1} :
          LET e == Event(kind, h, b) IN
          e \in Events /\ e.bytes = b /\ e.connection = h /\ e.kind = kind
BY DEF Rejected, Overflow, Event, Events, Kinds

LEMMA CountBounded ==
    ASSUME NEW n \in Int, NEW D \in SUBSET (1 .. n)
    PROVE  IsFiniteSet(D) /\ Cardinality(D) \in Nat
<1>1. IsFiniteSet(1 .. n)
  BY FS_Interval
<1>2. IsFiniteSet(D)
  BY <1>1, FS_Subset, Zenon
<1> QED
  BY <1>2, FS_CardinalityType

\* The places of a channel after its head has been taken.
LEMMA CountRest ==
    ASSUME NEW n \in Nat, NEW D \in SUBSET (1 .. n), NEW E \in SUBSET Nat,
           \A i \in Nat : i \in E <=> i >= 1 /\ i + 1 \in D
    PROVE  /\ IsFiniteSet(D) /\ IsFiniteSet(E)
           /\ Cardinality(D) \in Nat /\ Cardinality(E) \in Nat
           /\ Cardinality(E) = Cardinality(D) - (IF 1 \in D THEN 1 ELSE 0)
<1>0. n \in Int
  OBVIOUS
<1>1. IsFiniteSet(D) /\ Cardinality(D) \in Nat
  BY <1>0, CountBounded, Zenon
<1> DEFINE R == D \ {1}
           f == [i \in R |-> i - 1]
<1>2. IsFiniteSet(R) /\ Cardinality(R) = Cardinality(D) - (IF 1 \in D THEN 1 ELSE 0)
  BY <1>1, FS_RemoveElement
<1>3. f \in Bijection(R, E)
  <2>1. \A i \in R : i \in Nat /\ i >= 2 /\ i - 1 \in E
    BY SMT
  <2>2. \A j \in E : j + 1 \in R /\ (j + 1) - 1 = j
    OBVIOUS
  <2>3. f \in [R -> E]
    BY <2>1
  <2>4. \A i, j \in R : f[i] = f[j] => i = j
    BY <2>1
  <2>5. \A j \in E : \E i \in R : f[i] = j
    BY <2>2
  <2> QED
    BY <2>3, <2>4, <2>5 DEF Bijection, Injection, Surjection, IsInjective
<1>4. IsFiniteSet(E) /\ Cardinality(E) = Cardinality(R)
  <2>1. ExistsBijection(R, E)
    BY <1>3 DEF ExistsBijection
  <2> QED BY <1>2, <2>1, FS_Bijection
<1> QED
  BY <1>1, <1>2, <1>4, FS_CardinalityType

\* The places of a channel after something has been put in.
LEMMA CountMore ==
    ASSUME NEW n \in Nat, NEW D \in SUBSET (1 .. n), NEW E, NEW b \in BOOLEAN,
           E = IF b THEN D \union {n + 1} ELSE D
    PROVE  /\ IsFiniteSet(D) /\ IsFiniteSet(E)
           /\ Cardinality(D) \in Nat /\ Cardinality(E) \in Nat
           /\ Cardinality(E) = Cardinality(D) + (IF b THEN 1 ELSE 0)
<1>1. IsFiniteSet(D) /\ Cardinality(D) \in Nat
  BY CountBounded
<1>2. n + 1 \notin D
  OBVIOUS
<1>3. CASE b
  BY <1>1, <1>2, <1>3, FS_AddElement
<1>4. CASE ~b
  BY <1>1, <1>4
<1> QED
  BY <1>3, <1>4

LEMMA LoadedMore ==
    ASSUME events \in Seq(Events), NEW e \in Events, events' = Append(events, e)
    PROVE  /\ events' \in Seq(Events)
           /\ Cardinality(Loaded) \in Nat
           /\ Cardinality(Loaded)' = Cardinality(Loaded) + e.bytes
<1> DEFINE n == Len(events)
<1>1. n \in Nat /\ DOMAIN events = 1 .. n /\ e.bytes \in {0, 1}
  BY DEF Events
<1>2. /\ events' \in Seq(Events) /\ DOMAIN events' = 1 .. n + 1 /\ events'[n + 1] = e
      /\ \A i \in 1 .. n : events'[i] = events[i]
  OBVIOUS
<1> HIDE DEF n
<1>3. Loaded' = IF e.bytes # 0 THEN Loaded \union {n + 1} ELSE Loaded
  BY <1>1, <1>2 DEF Loaded
<1>4. Loaded \in SUBSET (1 .. n) /\ (e.bytes # 0) \in BOOLEAN
  BY <1>1 DEF Loaded
<1>5. /\ Cardinality(Loaded) \in Nat
      /\ Cardinality(Loaded') = Cardinality(Loaded) + (IF e.bytes # 0 THEN 1 ELSE 0)
  BY <1>1, <1>3, <1>4, CountMore, Zenon
<1> QED
  BY <1>1, <1>2, <1>5

LEMMA LoadedRest ==
    ASSUME events \in Seq(Events), events # <<>>, events' = Tail(events)
    PROVE  /\ events' \in Seq(Events) /\ Head(events) \in Events
           /\ Cardinality(Loaded) \in Nat
           /\ Cardinality(Loaded)' = Cardinality(Loaded) - Head(events).bytes
<1> DEFINE n == Len(events)
<1>1. /\ n \in Nat /\ DOMAIN events = 1 .. n /\ n >= 1
      /\ Head(events) = events[1] /\ events[1] \in Events
  OBVIOUS
<1>2. /\ events' \in Seq(Events) /\ DOMAIN events' = 1 .. n - 1
      /\ \A i \in 1 .. n - 1 : events'[i] = events[i + 1]
  OBVIOUS
<1> HIDE DEF n
<1>3. \A i \in Nat : i \in Loaded' <=> i >= 1 /\ i + 1 \in Loaded
  BY <1>1, <1>2 DEF Loaded
<1>4. Loaded \in SUBSET (1 .. n) /\ Loaded' \in SUBSET Nat
  BY <1>1, <1>2 DEF Loaded
<1>5. 1 \in Loaded <=> events[1].bytes # 0
  BY <1>1 DEF Loaded
<1>6. /\ Cardinality(Loaded) \in Nat
      /\ Cardinality(Loaded') = Cardinality(Loaded) - (IF 1 \in Loaded THEN 1 ELSE 0)
  BY <1>1, <1>3, <1>4, CountRest, Zenon
<1> QED
  BY <1>1, <1>2, <1>5, <1>6 DEF Events

LEMMA OrderedMore ==
    ASSUME commands \in Seq(Nat), NEW handle \in Nat, commands' = Append(commands, handle)
    PROVE  /\ commands' \in Seq(Nat)
           /\ Cardinality(Ordered) \in Nat
           /\ Cardinality(Ordered)' = Cardinality(Ordered) + (IF handle # 0 THEN 1 ELSE 0)
<1> DEFINE n == Len(commands)
<1>1. n \in Nat /\ DOMAIN commands = 1 .. n
  OBVIOUS
<1>2. /\ commands' \in Seq(Nat) /\ DOMAIN commands' = 1 .. n + 1
      /\ commands'[n + 1] = handle
      /\ \A i \in 1 .. n : commands'[i] = commands[i]
  OBVIOUS
<1> HIDE DEF n
<1>3. Ordered' = IF handle # 0 THEN Ordered \union {n + 1} ELSE Ordered
  BY <1>1, <1>2 DEF Ordered
<1>4. Ordered \in SUBSET (1 .. n) /\ (handle # 0) \in BOOLEAN
  BY <1>1 DEF Ordered
<1> QED
  BY <1>1, <1>2, <1>3, <1>4, CountMore, ZenonT(30)

LEMMA OrderedRest ==
    ASSUME commands \in Seq(Nat), commands # <<>>, commands' = Tail(commands)
    PROVE  /\ commands' \in Seq(Nat) /\ Head(commands) \in Nat
           /\ Cardinality(Ordered) \in Nat /\ Cardinality(Ordered)' \in Nat
           /\ Cardinality(Ordered)'
                 = Cardinality(Ordered) - (IF Head(commands) # 0 THEN 1 ELSE 0)
<1> DEFINE n == Len(commands)
<1>1. /\ n \in Nat /\ DOMAIN commands = 1 .. n /\ n >= 1
      /\ Head(commands) = commands[1] /\ commands[1] \in Nat
  OBVIOUS
<1>2. /\ commands' \in Seq(Nat) /\ DOMAIN commands' = 1 .. n - 1
      /\ \A i \in 1 .. n - 1 : commands'[i] = commands[i + 1]
  OBVIOUS
<1> HIDE DEF n
<1>3. \A i \in Nat : i \in Ordered' <=> i >= 1 /\ i + 1 \in Ordered
  BY <1>1, <1>2 DEF Ordered
<1>4. Ordered \in SUBSET (1 .. n) /\ Ordered' \in SUBSET Nat
  BY <1>1, <1>2 DEF Ordered
<1>5. 1 \in Ordered <=> commands[1] # 0
  BY <1>1 DEF Ordered
<1>6. /\ Cardinality(Ordered) \in Nat /\ Cardinality(Ordered') \in Nat
      /\ Cardinality(Ordered') = Cardinality(Ordered) - (IF 1 \in Ordered THEN 1 ELSE 0)
  BY <1>1, <1>3, <1>4, CountRest, Zenon
<1> QED
  BY <1>1, <1>2, <1>5, <1>6

LEMMA QueueTyped ==
    ASSUME TablesTyped, NEW t \in Threads
    PROVE  conns[t] \in Conn /\ conns[t].queued \in Nat
<1>1. conns[t] \in Conn
  BY DEF TablesTyped, Threads
<1> QED
  BY <1>1 DEF Conn

\* Both channels, and the queues, hold a number of payloads.
LEMMA Counted ==
    ASSUME TablesTyped, events \in Seq(Events), commands \in Seq(Nat)
    PROVE  /\ Cardinality(Loaded) \in Nat /\ Cardinality(Ordered) \in Nat
           /\ IsFiniteSet(Queued) /\ Cardinality(Queued) \in Nat
           /\ InHand \in {0, 1}
<1>1. /\ Loaded \in SUBSET (1 .. Len(events)) /\ Len(events) \in Int
      /\ Ordered \in SUBSET (1 .. Len(commands)) /\ Len(commands) \in Int
  BY DEF Loaded, Ordered
<1>2. Cardinality(Loaded) \in Nat /\ Cardinality(Ordered) \in Nat
  BY <1>1, CountBounded, Zenon
<1> DEFINE Queue(t) == {t} \X (1 .. conns[t].queued)
           Queues == {Queue(t) : t \in Threads}
<1>3. \A t \in Threads : IsFiniteSet(Queue(t))
  <2>1. \A t \in Threads : conns[t].queued \in Int /\ 1 \in Int
    BY QueueTyped
  <2>2. \A t \in Threads : IsFiniteSet(1 .. conns[t].queued)
    BY <2>1, FS_Interval
  <2> QED
    BY <2>2, FS_Product, FS_Singleton, Zenon
<1>4. IsFiniteSet(Queues)
  <2> DEFINE f == [t \in Threads |-> Queue(t)]
  <2> HIDE DEF Queue
  <2>1. f \in Surjection(Threads, Queues)
    BY DEF Surjection
  <2>2. IsFiniteSet(Threads)
    BY FS_Interval DEF Threads, TablesTyped
  <2> QED
    BY <2>1, <2>2, FS_Surjection
<1>5. IsFiniteSet(Queued)
  <2>1. \A T \in Queues : IsFiniteSet(T)
    BY <1>3
  <2>2. IsFiniteSet(UNION Queues)
    BY <1>4, <2>1, FS_UNION, Zenon
  <2> QED
    BY <2>2 DEF Queued
<1> QED
  BY <1>2, <1>5, FS_CardinalityType DEF InHand

\* The queues of the other threads.
OthersQueued(t) == {x \in Queued : x[1] # t}

LEMMA QueueApart ==
    ASSUME TablesTyped, events \in Seq(Events), commands \in Seq(Nat), NEW t \in Threads
    PROVE  /\ Cardinality(OthersQueued(t)) \in Nat
           /\ Cardinality(Queued) = Cardinality(OthersQueued(t)) + conns[t].queued
<1> DEFINE q == conns[t].queued
           mine == {t} \X (1 .. q)
           rest == OthersQueued(t)
<1>1. q \in Nat
  BY QueueTyped
<1>2. IsFiniteSet(mine) /\ Cardinality(mine) = q
  <2>1. IsFiniteSet(1 .. q) /\ Cardinality(1 .. q) = q
    <3> HIDE DEF q
    <3>1. Cardinality(1 .. q) = IF 1 > q THEN 0 ELSE q - 1 + 1
      BY <1>1, FS_Interval
    <3> QED
      BY <1>1, <3>1, FS_Interval
  <2>2. IsFiniteSet({t}) /\ Cardinality({t}) = 1
    BY FS_Singleton, Zenon
  <2>3. IsFiniteSet(mine) /\ Cardinality(mine) = Cardinality({t}) * Cardinality(1 .. q)
    BY <2>1, <2>2, FS_Product, Zenon
  <2> QED
    BY <1>1, <2>1, <2>2, <2>3
<1>3. IsFiniteSet(rest) /\ Cardinality(rest) \in Nat
  BY Counted, FS_Subset, FS_CardinalityType DEF OthersQueued
<1>4. rest \cap mine = {} /\ Queued = rest \union mine
  <2>1. \A x \in Queued : x[1] = t => x \in mine
    BY DEF Queued
  <2>2. mine \subseteq Queued
    BY DEF Queued
  <2>3. \A x \in mine : x[1] = t
    OBVIOUS
  <2> QED
    BY <2>1, <2>2, <2>3 DEF OthersQueued
<1>5. Cardinality(rest \cap mine) = 0
  BY <1>4, FS_EmptySet, Zenon
<1> HIDE DEF mine, rest, q
<1>6. Cardinality(Queued) = Cardinality(rest) + Cardinality(mine) - Cardinality(rest \cap mine)
  BY <1>2, <1>3, <1>4, FS_Union
<1> QED
  BY <1>1, <1>2, <1>3, <1>5, <1>6 DEF q, rest

\* The payloads that are not in the event channel.
Outbound == Cardinality(Ordered) + InHand + Cardinality(Queued)

LEMMA OutboundCounted ==
    TablesTyped /\ events \in Seq(Events) /\ commands \in Seq(Nat)
        => Outbound \in Nat /\ InFlight = Cardinality(Loaded) + Outbound
BY Counted DEF Outbound, InFlight

LEMMA OutboundNext ==
    ASSUME TablesTyped', events' \in Seq(Events), commands' \in Seq(Nat)
    PROVE  Outbound' \in Nat /\ InFlight' = Cardinality(Loaded)' + Outbound'
<1>1. (TablesTyped /\ events \in Seq(Events) /\ commands \in Seq(Nat)
          => Outbound \in Nat /\ InFlight = Cardinality(Loaded) + Outbound)'
  BY OutboundCounted, PTL
<1> QED
  BY <1>1

\* One thread's queue changes: the count of all of them moves by as much.
QueuesSplit ==
    \A u \in Threads : /\ Cardinality(OthersQueued(u)) \in Nat
                       /\ Cardinality(Queued)
                             = Cardinality(OthersQueued(u)) + conns[u].queued

LEMMA QueueSplit ==
    TablesTyped /\ events \in Seq(Events) /\ commands \in Seq(Nat)
        => QueuesSplit
BY QueueApart DEF QueuesSplit

LEMMA OneQueue ==
    ASSUME TablesTyped, events \in Seq(Events), commands \in Seq(Nat),
           TablesTyped', events' \in Seq(Events), commands' \in Seq(Nat),
           NEW t \in Threads, Threads' = Threads,
           \A u \in Threads : u # t => conns'[u] = conns[u]
    PROVE  Cardinality(Queued)' = Cardinality(Queued) - conns[t].queued + conns'[t].queued
<1>1. (TablesTyped /\ events \in Seq(Events) /\ commands \in Seq(Nat)
          => QueuesSplit)'
  BY QueueSplit, PTL
<1>2. OthersQueued(t)' = OthersQueued(t)
  <2>1. \A x : x \in OthersQueued(t) <=>
               \E u \in Threads : u # t /\ x \in {u} \X (1 .. conns[u].queued)
    BY DEF OthersQueued, Queued
  <2>2. \A x : x \in OthersQueued(t)' <=>
               \E u \in Threads' : u # t /\ x \in {u} \X (1 .. conns'[u].queued)
    BY DEF OthersQueued, Queued
  <2>3. \A x : x \in OthersQueued(t)' <=> x \in OthersQueued(t)
    BY <2>1, <2>2, Zenon
  <2> QED
    BY <2>3, Zenon
<1>3. /\ Cardinality(OthersQueued(t)) \in Nat
      /\ Cardinality(Queued) = Cardinality(OthersQueued(t)) + conns[t].queued
      /\ conns[t].queued \in Nat
  BY QueueApart, QueueTyped
<1>4. Cardinality(Queued)' = Cardinality(OthersQueued(t)) + conns'[t].queued
  BY <1>1, <1>2 DEF QueuesSplit
<1>5. conns'[t].queued \in Nat
  <2>1. conns'[t] \in Conn
    BY DEF TablesTyped, Threads
  <2> QED BY <2>1 DEF Conn
<1> QED
  BY <1>3, <1>4, <1>5

\* A step that touches no event moves the other counts and the budget together ...
LEMMA QuietBudget ==
    ASSUME HostInv, HostInv', BudgetInv, NEW d \in Int,
           events' = events, commands' \in Seq(Nat), buffered' = buffered + d,
           Outbound' = Outbound + d,
           (listener.at = "hand_over" => listener.target \in Threads)',
           \A t \in Threads' : QueueBounded(t)'
    PROVE  BudgetInv'
<1>1. Outbound' \in Nat /\ InFlight' = Cardinality(Loaded)' + Outbound'
  BY OutboundNext DEF BudgetInv, ChannelsTyped, HostInv
<1>2. /\ Outbound \in Nat /\ InFlight = Cardinality(Loaded) + Outbound
      /\ Cardinality(Loaded) \in Nat
  BY OutboundCounted, Counted DEF BudgetInv, ChannelsTyped, HostInv
<1>3. Loaded' = Loaded
  BY DEF Loaded
<1>4. buffered' = InFlight' /\ buffered' \in Int
  BY <1>1, <1>2, <1>3 DEF BudgetInv
<1> QED
  BY <1>4 DEF BudgetInv, ChannelsTyped

\* ... and one that publishes first gives back what it had spare.
LEMMA LoudBudget ==
    ASSUME HostInv, HostInv', BudgetInv, NEW e \in Events, NEW spare \in Nat,
           Published(e, spare), commands' \in Seq(Nat), Outbound' = Outbound - spare,
           (listener.at = "hand_over" => listener.target \in Threads)',
           \A t \in Threads' : QueueBounded(t)'
    PROVE  BudgetInv'
<1>1. /\ events \in Seq(Events) /\ buffered \in Int /\ e.bytes \in {0, 1}
  BY DEF BudgetInv, ChannelsTyped, Events
<1>2. CASE events' = events /\ buffered' = buffered - spare
  <2>1. - spare \in Int /\ buffered' = buffered + (- spare) /\ Outbound' = Outbound + (- spare)
    <3>1. Outbound \in Nat
      BY OutboundCounted DEF BudgetInv, ChannelsTyped, HostInv
    <3> QED BY <1>1, <1>2, <3>1
  <2> QED
    BY <1>2, <2>1, QuietBudget
<1>3. ASSUME NEW x \in Events, events' = Append(events, x),
             buffered' = buffered - spare + x.bytes
      PROVE  BudgetInv'
  <2>1. /\ events' \in Seq(Events) /\ Cardinality(Loaded) \in Nat
        /\ Cardinality(Loaded)' = Cardinality(Loaded) + x.bytes
        /\ x.bytes \in {0, 1}
    BY <1>1, <1>3, LoadedMore DEF Events
  <2>2. Outbound' \in Nat /\ InFlight' = Cardinality(Loaded)' + Outbound'
    BY <2>1, OutboundNext DEF HostInv
  <2>3. Outbound \in Nat /\ InFlight = Cardinality(Loaded) + Outbound
    BY OutboundCounted DEF BudgetInv, ChannelsTyped, HostInv
  <2>5. buffered = InFlight
    BY DEF BudgetInv
  <2>4. buffered' = InFlight' /\ buffered' \in Int
    <3>1. x.bytes \in Int /\ buffered \in Int
      BY <1>1, <2>1
    <3>2. InFlight' = Cardinality(Loaded) + x.bytes + (Outbound - spare)
      BY <2>1, <2>2
    <3>3. /\ buffered' = Cardinality(Loaded) + Outbound - spare + x.bytes
          /\ Cardinality(Loaded) \in Nat /\ Outbound \in Nat
      BY <1>3, <2>1, <2>3, <2>5
    <3> QED BY <3>1, <3>2, <3>3
  <2> QED
    BY <2>1, <2>4 DEF BudgetInv, ChannelsTyped
<1>4. Overflow \in Events /\ Overflow.bytes = 0
  BY EventTyped
<1>5. CASE events' = Append(events, Overflow) /\ buffered' = buffered - spare
  <2>1. buffered' = buffered - spare + Overflow.bytes
    BY <1>1, <1>4, <1>5
  <2> QED BY <1>3, <1>4, <1>5, <2>1
<1> QED
  BY <1>2, <1>3, <1>5 DEF Published

-----------------------------------------------------------------------------
\* A step that leaves the threads alone and gives the listener no target.
LEMMA SameQueues ==
    ASSUME BudgetInv, conns' = conns,
           listener' = listener \/ listener'.at # "hand_over"
    PROVE  /\ Queued' = Queued /\ Threads' = Threads
           /\ (listener.at = "hand_over" => listener.target \in Threads)'
           /\ \A t \in Threads' : QueueBounded(t)'
<1>1. Queued' = Queued /\ Threads' = Threads
  BY DEF Queued, Threads
<1>2. \A t \in Threads : Targets(t)' => Targets(t)
  BY DEF Targets
<1>3. \A t \in Threads : QueueBounded(t)'
  BY <1>2 DEF BudgetInv, QueueBounded
<1> QED
  BY <1>1, <1>3 DEF BudgetInv, ChannelsTyped

LEMMA ApplicationBudget ==
    ASSUME HostInv, HostInv', BudgetInv,
           AppStep \/ Joined \/ AcceptNobody \/ JoinWorkers \/ AcceptFails
               \/ UNCHANGED hostVars
    PROVE  BudgetInv'
<1> USE DEF ListenAt, Listening
<1>1. commands \in Seq(Nat) /\ events \in Seq(Events) /\ buffered \in Int
  BY DEF BudgetInv, ChannelsTyped
<1>2. Outbound \in Nat /\ InHand \in {0, 1} /\ Cardinality(Ordered) \in Nat
         /\ Cardinality(Queued) \in Nat
  BY OutboundCounted, Counted DEF BudgetInv, ChannelsTyped, HostInv
<1>3. CASE Poll
  <2>1. /\ UNCHANGED <<commands, conns, listener>>
        /\ events # <<>> /\ events' = Tail(events)
        /\ buffered' = buffered - Head(events).bytes
    BY <1>3 DEF Poll
  <2>2. /\ events' \in Seq(Events) /\ Head(events).bytes \in {0, 1}
        /\ Cardinality(Loaded) \in Nat
        /\ Cardinality(Loaded)' = Cardinality(Loaded) - Head(events).bytes
    BY <1>1, <2>1, LoadedRest DEF Events
  <2>3. Outbound' = Outbound
    BY <2>1 DEF Outbound, Ordered, InHand, Queued, Threads
  <2>4. InFlight' = Cardinality(Loaded)' + Outbound'
    BY <1>1, <2>1, <2>2, OutboundNext DEF HostInv
  <2>5. InFlight = Cardinality(Loaded) + Outbound
    BY OutboundCounted DEF BudgetInv, ChannelsTyped, HostInv
  <2>6. buffered' = InFlight' /\ buffered' \in Int
    <3>1. buffered = Cardinality(Loaded) + Outbound
      BY <2>5, Zenon DEF BudgetInv
    <3>2. buffered' = (Cardinality(Loaded) + Outbound) - Head(events).bytes
      BY <2>1, <3>1, Zenon
    <3>3. InFlight' = (Cardinality(Loaded) - Head(events).bytes) + Outbound
      BY <2>2, <2>3, <2>4, Zenon
    <3> QED
      BY <1>2, <2>2, <3>2, <3>3, LessOne, Zenon
  <2> QED
    BY <1>1, <2>1, <2>2, <2>6, SameQueues DEF BudgetInv, ChannelsTyped
<1>4. CASE Stop
  <2>1. /\ UNCHANGED <<events, buffered, conns, listener>>
        /\ commands' = commands \/ commands' = Append(commands, 0)
    BY <1>4 DEF Stop
  <2>2. commands' \in Seq(Nat) /\ Cardinality(Ordered)' = Cardinality(Ordered)
    <3>1. CASE commands' = commands
      BY <1>1, <3>1 DEF Ordered
    <3>2. CASE commands' = Append(commands, 0)
      <4>1. /\ commands' \in Seq(Nat)
            /\ Cardinality(Ordered)' = Cardinality(Ordered) + (IF 0 # 0 THEN 1 ELSE 0)
        BY <1>1, <3>2, OrderedMore
      <4> QED BY <1>2, <4>1
    <3> QED BY <2>1, <3>1, <3>2
  <2>3. Outbound' = Outbound + 0 /\ buffered' = buffered + 0
    BY <1>1, <1>2, <2>1, <2>2 DEF Outbound, InHand, Queued, Threads
  <2> QED
    BY <2>1, <2>2, <2>3, SameQueues, QuietBudget
<1>5. ASSUME NEW handle \in DOMAIN resume, Send(handle) PROVE BudgetInv'
  <2>1. handle \in Nat /\ handle # 0
    BY DEF HostInv, TablesTyped
  <2>2. UNCHANGED <<conns, listener>>
    BY <1>5 DEF Send
  <2>3. Queued' = Queued /\ InHand' = InHand
    BY <2>2 DEF Queued, Threads, InHand
  <2>4. CASE /\ commands' = Append(commands, handle) /\ buffered' = buffered + 1
             /\ events' = events
    <3>1. commands' \in Seq(Nat) /\ Cardinality(Ordered)' = Cardinality(Ordered) + 1
      BY <1>1, <2>1, <2>4, OrderedMore
    <3>2. Outbound' = Outbound + 1
      BY <1>2, <2>3, <3>1 DEF Outbound
    <3> QED
      BY <2>2, <2>4, <3>1, <3>2, SameQueues, QuietBudget
  <2>5. CASE UNCHANGED <<commands, buffered>> /\ (events' = events \/ NoteOverflow)
    <3>1. Outbound' = Outbound - 0 /\ Outbound' = Outbound + 0
      BY <1>2, <2>3, <2>5 DEF Outbound, Ordered
    <3>2. buffered' = buffered + 0 /\ buffered' = buffered - 0 /\ commands' \in Seq(Nat)
      BY <1>1, <2>5
    <3>3. CASE events' = events
      BY <2>2, <3>1, <3>2, <3>3, SameQueues, QuietBudget
    <3>4. CASE NoteOverflow
      BY <2>2, <3>1, <3>2, <3>4, SameQueues, OverflowEffect, EventTyped, LoudBudget
    <3> QED BY <2>5, <3>3, <3>4
  <2> QED
    BY <1>5, <2>4, <2>5 DEF Send
<1>6. CASE Joined \/ AcceptNobody \/ JoinWorkers \/ AcceptFails \/ UNCHANGED hostVars
  <2>1. /\ UNCHANGED <<events, commands, buffered, conns>>
        /\ listener' = listener
              \/ (listener'.at # "hand_over" /\ listener.at # "hand_over")
    BY <1>6 DEF Joined, AcceptNobody, JoinWorkers, AcceptFails, hostVars, Accepting,
       CheckStopped
  <2>2. Outbound' = Outbound + 0 /\ buffered' = buffered + 0
    BY <1>1, <1>2, <2>1 DEF Outbound, Ordered, InHand, Queued, Threads
  <2> QED
    BY <1>1, <2>1, <2>2, SameQueues, QuietBudget
<1> QED
  BY <1>3, <1>4, <1>5, <1>6 DEF AppStep

\* listener_loop takes a command: Stop weighs nothing, a payload goes to the
\* listener's hand or is given back.
LEMMA TakeCommandBudget ==
    ASSUME HostInv, HostInv', BudgetInv, TakeCommand
    PROVE  BudgetInv'
<1> USE DEF ListenAt, Listening
<1> DEFINE handle == Head(commands)
<1>1. /\ commands \in Seq(Nat) /\ buffered \in Int
      /\ listener.at = "command" /\ commands # <<>> /\ commands' = Tail(commands)
      /\ conns' = conns
  BY DEF BudgetInv, ChannelsTyped, TakeCommand
<1>2. /\ commands' \in Seq(Nat) /\ handle \in Nat
      /\ Cardinality(Ordered) \in Nat /\ Cardinality(Ordered)' \in Nat
      /\ Cardinality(Ordered)' = Cardinality(Ordered) - (IF handle # 0 THEN 1 ELSE 0)
  BY <1>1, OrderedRest
<1>3. /\ InHand = 0 /\ Cardinality(Queued) \in Nat
      /\ Queued' = Queued /\ Threads' = Threads
  BY <1>1, Counted DEF InHand, BudgetInv, ChannelsTyped, HostInv, Queued, Threads
<1>4. CASE /\ handle = 0 /\ listener'.at # "hand_over"
           /\ UNCHANGED <<buffered, events>>
  <2>1. InHand' = 0
    BY <1>4 DEF InHand
  <2>2. Outbound' = Outbound + 0 /\ buffered' = buffered + 0
    BY <1>1, <1>2, <1>3, <1>4, <2>1 DEF Outbound
  <2> QED
    BY <1>1, <1>2, <1>4, <2>2, SameQueues, QuietBudget
<1>5. CASE /\ handle # 0 /\ handle \in DOMAIN writers
           /\ listener' = [at |-> "hand_over", target |-> writers[handle]]
           /\ UNCHANGED <<buffered, events>>
  <2>1. InHand' = 1
    BY <1>5 DEF InHand
  <2>2. Outbound' = Outbound + 0 /\ buffered' = buffered + 0
    BY <1>1, <1>2, <1>3, <1>5, <2>1 DEF Outbound
  <2>3. writers[handle] \in Threads /\ conns[writers[handle]].at \in Listed
    BY <1>5 DEF HostInv, WritersServed, Lists
  <2>4. \A t \in Threads : QueueBounded(t)'
    <3> SUFFICES ASSUME NEW t \in Threads PROVE QueueBounded(t)'
      OBVIOUS
    <3>1. Targets(t)' => conns[t].at \notin Drained
      BY <1>5, <2>3 DEF Targets, Listed, Drained
    <3> QED
      BY <1>1, <3>1 DEF BudgetInv, QueueBounded
  <2>5. (listener.at = "hand_over" => listener.target \in Threads)'
    BY <1>3, <1>5, <2>3
  <2> QED
    BY <1>2, <1>3, <1>5, <2>2, <2>4, <2>5, QuietBudget
<1>6. CASE handle # 0 /\ Publish(Rejected, 1) /\ listener'.at # "hand_over"
  <2>1. InHand' = 0
    BY <1>6 DEF InHand
  <2>2. Outbound' = Outbound - 1
    BY <1>2, <1>3, <1>6, <2>1 DEF Outbound
  <2>3. Rejected \in Events /\ Published(Rejected, 1)
    BY <1>1, <1>6, EventTyped, PublishEffect
  <2> QED
    BY <1>1, <1>2, <1>6, <2>2, <2>3, SameQueues, LoudBudget
<1> QED
  BY <1>4, <1>5, <1>6 DEF TakeCommand

\* try_send moves the payload into the queue, or gives it back.
LEMMA HandOverBudget ==
    ASSUME HostInv, HostInv', BudgetInv, HandOver
    PROVE  BudgetInv'
<1> USE DEF ListenAt, Listening
<1> DEFINE t == listener.target
<1>1. /\ commands' = commands /\ commands \in Seq(Nat) /\ events \in Seq(Events)
      /\ listener.at = "hand_over" /\ listener'.at # "hand_over"
      /\ t \in Threads /\ buffered \in Int
  BY DEF HandOver, BudgetInv, ChannelsTyped
<1>2. /\ InHand = 1 /\ InHand' = 0 /\ Ordered' = Ordered
      /\ Cardinality(Ordered) \in Nat /\ Cardinality(Queued) \in Nat
  BY <1>1, Counted DEF InHand, Ordered, HostInv
<1>3. CASE /\ conns[t].receiving /\ UNCHANGED <<buffered, events>>
           /\ conns' = [conns EXCEPT ![t].queued = @ + 1]
  <2> DEFINE c == [conns[t] EXCEPT !.queued = @ + 1]
  <2>1. conns[t] \in Conn /\ conns[t].queued \in Nat
    BY <1>1, QueueTyped DEF HostInv
  <2>2. /\ c \in Conn /\ c.at = conns[t].at /\ c.queued = conns[t].queued + 1
    BY <2>1 DEF Conn
  <2>3. conns' = [conns EXCEPT ![t] = c]
    BY <1>3
  <2> HIDE DEF c
  <2>4. /\ Threads' = Threads /\ conns'[t] = c
        /\ \A u \in Threads : u # t => conns'[u] = conns[u]
    BY <1>1, <2>2, <2>3, Replaced, Zenon DEF HostInv
  <2>5. Cardinality(Queued)' = Cardinality(Queued) + 1
    <3>1. Cardinality(Queued)' = Cardinality(Queued) - conns[t].queued + conns'[t].queued
      BY <1>1, <1>3, <2>4, OneQueue, Zenon DEF HostInv
    <3> QED BY <1>2, <2>1, <2>2, <2>4, <3>1
  <2>6. Outbound' = Outbound + 0 /\ buffered' = buffered + 0
    <3>1. Outbound' = Outbound + 0
      BY <1>2, <2>5 DEF Outbound
    <3> QED BY <1>1, <1>3, <3>1
  <2>8. 0 \in Int
    OBVIOUS
  <2>7. \A u \in Threads' : QueueBounded(u)'
    <3> SUFFICES ASSUME NEW u \in Threads PROVE QueueBounded(u)'
      BY <2>4
    <3>1. ~Targets(u)'
      BY <1>1 DEF Targets
    <3>2. CASE u # t
      BY <2>4, <3>1, <3>2, ZenonT(30) DEF BudgetInv, QueueBounded
    <3>3. CASE u = t
      <4>1. Targets(t) /\ QueueBounded(t)
        BY <1>1 DEF Targets, BudgetInv
      <4>2. conns[t].at \notin Early /\ (conns[t].at \in Drained => conns[t].queued = 0)
        BY <1>3, <4>1 DEF QueueBounded
      <4> QED
        BY <2>1, <2>2, <2>4, <3>1, <3>3, <4>2 DEF QueueBounded
    <3> QED BY <3>2, <3>3
  <2> QED
    BY <1>1, <1>3, <2>6, <2>7, <2>8, QuietBudget, Zenon
<1>4. CASE UNCHANGED conns /\ Published(Rejected, 1)
  <2>1. Queued' = Queued
    BY <1>4 DEF Queued, Threads
  <2>2. Outbound' = Outbound - 1
    BY <1>2, <2>1 DEF Outbound
  <2> QED
    BY <1>1, <1>4, <2>2, SameQueues, EventTyped, LoudBudget
<1>5. CASE UNCHANGED conns /\ buffered' = buffered - 1 /\ NoteOverflow
  BY <1>4, <1>5, OverflowEffect
<1>6. CASE UNCHANGED conns /\ Publish(Rejected, 1)
  BY <1>1, <1>4, <1>6, PublishEffect, EventTyped
<1> QED
  BY <1>3, <1>5, <1>6 DEF HandOver

\* A new connection has queued nothing.
LEMMA AcceptBudget ==
    ASSUME HostInv, HostInv', BudgetInv, Accept
    PROVE  BudgetInv'
<1> USE DEF ListenAt, Listening
<1>1. /\ commands' = commands /\ commands \in Seq(Nat) /\ buffered' = buffered
      /\ buffered \in Int /\ events \in Seq(Events)
      /\ listener.at # "hand_over" /\ listener'.at # "hand_over"
  BY DEF Accept, Accepting, CheckStopped, BudgetInv, ChannelsTyped
<1>2. /\ InHand = 0 /\ InHand' = 0 /\ Ordered' = Ordered
      /\ Cardinality(Ordered) \in Nat /\ Cardinality(Queued) \in Nat
  BY <1>1, Counted DEF InHand, Ordered, HostInv
<1>3. CASE UNCHANGED conns /\ NoteOverflow
  <2>1. Queued' = Queued
    BY <1>3 DEF Queued, Threads
  <2>2. Outbound' = Outbound - 0 /\ buffered' = buffered - 0
    BY <1>1, <1>2, <2>1 DEF Outbound
  <2> QED
    BY <1>1, <1>3, <2>2, SameQueues, EventTyped, OverflowEffect, LoudBudget
<1>4. CASE conns' = Append(conns, NewConnection) /\ UNCHANGED events
  <2>1. /\ NewConnection \in Conn /\ NewConnection.at = "request"
        /\ NewConnection.queued = 0 /\ ~NewConnection.receiving
    BY DEF NewConnection, Conn, Places
  <2>0. PICK n \in Nat : n = Len(conns) + 1
    BY DEF HostInv, TablesTyped
  <2>2. /\ Threads' = Threads \union {n} /\ n \notin Threads
        /\ conns'[n] = NewConnection
        /\ \A u \in Threads : conns'[u] = conns[u]
    BY <1>4, <2>0, <2>1 DEF HostInv, TablesTyped, Threads
  <2>3. Queued' = Queued
    <3>1. \A x : x \in Queued' <=> \E u \in Threads' : x \in {u} \X (1 .. conns'[u].queued)
      BY DEF Queued
    <3>2. \A x : x \in Queued <=> \E u \in Threads : x \in {u} \X (1 .. conns[u].queued)
      BY DEF Queued
    <3>3. 1 .. conns'[n].queued = {}
      BY <2>1, <2>2
    <3>4. \A x : x \in Queued' <=> x \in Queued
      BY <2>2, <3>1, <3>2, <3>3
    <3> QED BY <3>4
  <2>4. Outbound' = Outbound + 0 /\ buffered' = buffered + 0
    BY <1>1, <1>2, <2>3 DEF Outbound
  <2>5. \A u \in Threads' : QueueBounded(u)'
    <3> SUFFICES ASSUME NEW u \in Threads' PROVE QueueBounded(u)'
      OBVIOUS
    <3>1. ~Targets(u)'
      BY <1>1 DEF Targets
    <3>2. CASE u \in Threads
      BY <2>2, <3>1, <3>2 DEF BudgetInv, QueueBounded
    <3>3. CASE u = n
      BY <2>1, <2>2, <3>1, <3>3 DEF QueueBounded, Drained
    <3> QED BY <2>2, <3>2, <3>3
  <2> QED
    BY <1>1, <1>4, <2>4, <2>5, QuietBudget
<1> QED
  BY <1>3, <1>4 DEF Accept

-----------------------------------------------------------------------------
\* A step of one connection's thread.
LEMMA ThreadQueue ==
    ASSUME HostInv, HostInv', BudgetInv, events' \in Seq(Events),
           UNCHANGED <<commands, listener>>, NEW t \in Threads,
           NEW c \in Conn, conns' = [conns EXCEPT ![t] = c],
           c.at \in Early => c.queued = 0 /\ ~c.receiving,
           c.at \in Drained => /\ c.queued <= 1
                               /\ Targets(t) /\ c.receiving => c.queued = 0
    PROVE  /\ Outbound' = Outbound + (c.queued - conns[t].queued)
           /\ (listener.at = "hand_over" => listener.target \in Threads)'
           /\ \A u \in Threads' : QueueBounded(u)'
<1>1. commands \in Seq(Nat) /\ events \in Seq(Events) /\ conns[t].queued \in Nat
  BY QueueTyped DEF BudgetInv, ChannelsTyped, HostInv
<1>2. /\ Threads' = Threads /\ conns'[t] = c
      /\ \A u \in Threads : u # t => conns'[u] = conns[u]
  BY Replaced, Zenon DEF HostInv
<1>3. Cardinality(Queued)' = Cardinality(Queued) - conns[t].queued + c.queued
  BY <1>1, <1>2, OneQueue DEF HostInv
<1>4. /\ InHand' = InHand /\ Ordered' = Ordered /\ InHand \in {0, 1}
      /\ Cardinality(Ordered) \in Nat /\ Cardinality(Queued) \in Nat
  BY <1>1, Counted DEF InHand, Ordered, HostInv
<1>5. c.queued \in Nat
  BY DEF Conn
<1>6. Outbound' = Outbound + (c.queued - conns[t].queued)
  BY <1>1, <1>3, <1>4, <1>5 DEF Outbound
<1>7. \A u \in Threads : Targets(u)' <=> Targets(u)
  BY DEF Targets
<1>8. \A u \in Threads : QueueBounded(u)'
  BY <1>2, <1>7 DEF BudgetInv, QueueBounded
<1> QED
  BY <1>2, <1>6, <1>8 DEF BudgetInv, ChannelsTyped

\* A move leaves the queue as it is.
LEMMA MoveBudget ==
    ASSUME HostInv, HostInv', BudgetInv, UNCHANGED <<commands, listener>>,
           NEW t \in Threads, NEW place \in Places, Move(t, place),
           place \in Early => conns[t].at \in Early,
           place \in Drained => conns[t].at \in Early \union Drained,
           \/ UNCHANGED <<events, buffered>>
           \/ \E e \in Events : Publish(e, 0)
    PROVE  BudgetInv'
<1> DEFINE c == [conns[t] EXCEPT !.at = place]
<1>1. /\ conns[t] \in Conn /\ conns[t].queued \in Nat /\ QueueBounded(t)
      /\ events \in Seq(Events) /\ buffered \in Int /\ commands \in Seq(Nat)
  BY QueueTyped DEF HostInv, BudgetInv, ChannelsTyped
<1>2. /\ c \in Conn /\ c.at = place /\ c.queued = conns[t].queued
      /\ c.receiving = conns[t].receiving
  BY <1>1, Zenon DEF Conn
<1>3. conns' = [conns EXCEPT ![t] = c]
  BY DEF Move
<1> HIDE DEF c
<1>4. /\ c.at \in Early => c.queued = 0 /\ ~c.receiving
      /\ c.at \in Drained => /\ c.queued <= 1
                             /\ Targets(t) /\ c.receiving => c.queued = 0
  BY <1>1, <1>2 DEF QueueBounded
<1>5. Outbound \in Nat
  BY OutboundCounted, Zenon DEF BudgetInv, ChannelsTyped, HostInv
<1>6. ASSUME events' \in Seq(Events)
      PROVE  /\ Outbound' = Outbound + 0 /\ Outbound' = Outbound - 0
             /\ (listener.at = "hand_over" => listener.target \in Threads)'
             /\ \A u \in Threads' : QueueBounded(u)'
  <2>1. /\ Outbound' = Outbound + (c.queued - conns[t].queued)
        /\ (listener.at = "hand_over" => listener.target \in Threads)'
        /\ \A u \in Threads' : QueueBounded(u)'
    BY <1>2, <1>3, <1>4, <1>6, ThreadQueue, Zenon
  <2>2. Outbound' = Outbound + 0 /\ Outbound' = Outbound - 0
    BY <1>1, <1>2, <1>5, <2>1
  <2> QED BY <2>1, <2>2
<1>7. CASE UNCHANGED <<events, buffered>>
  <2>1. buffered' = buffered + 0 /\ events' \in Seq(Events)
    BY <1>1, <1>7
  <2> QED BY <1>1, <1>6, <1>7, <2>1, QuietBudget
<1>8. ASSUME NEW e \in Events, Publish(e, 0) PROVE BudgetInv'
  <2>1. Published(e, 0)
    BY <1>1, <1>8, PublishEffect, ZenonT(30)
  <2>2. events' \in Seq(Events)
    BY <1>1, <2>1, EventTyped, LoadedMore DEF Published
  <2> QED BY <1>1, <1>6, <2>1, <2>2, LoudBudget, Zenon
<1> QED
  BY <1>7, <1>8, Zenon

\* A thread's own queue and its share of the budget.
LEMMA ShareBudget ==
    ASSUME HostInv, HostInv', BudgetInv, UNCHANGED <<events, commands, listener>>,
           NEW t \in Threads, NEW c \in Conn, conns' = [conns EXCEPT ![t] = c],
           buffered' = buffered + (c.queued - conns[t].queued),
           c.at \in Early => c.queued = 0 /\ ~c.receiving,
           c.at \in Drained => /\ c.queued <= 1
                               /\ Targets(t) /\ c.receiving => c.queued = 0
    PROVE  BudgetInv'
<1>1. /\ events' \in Seq(Events) /\ commands' \in Seq(Nat)
      /\ conns[t].queued \in Nat /\ c.queued \in Nat
  BY QueueTyped DEF BudgetInv, ChannelsTyped, HostInv, Conn
<1>2. /\ Outbound' = Outbound + (c.queued - conns[t].queued)
      /\ (listener.at = "hand_over" => listener.target \in Threads)'
      /\ \A u \in Threads' : QueueBounded(u)'
  BY <1>1, ThreadQueue, Zenon
<1>3. c.queued - conns[t].queued \in Int
  BY <1>1
<1> QED
  BY <1>1, <1>2, <1>3, QuietBudget

LEMMA ThreadBudget ==
    ASSUME HostInv, HostInv', BudgetInv, NEW t \in Threads, PeerStep(t) \/ ThreadStep(t)
    PROVE  BudgetInv'
<1>1. /\ UNCHANGED <<commands, listener>>
      /\ conns[t] \in Conn /\ conns[t].queued \in Nat /\ conns[t].handle \in Nat
      /\ QueueBounded(t) /\ buffered \in Int
  <2>1. UNCHANGED <<commands, listener>>
    BY Zenon DEF PeerStep, ThreadStep, Request, ClaimResume, ReadPeer, Silent, Announce,
       HandshakeFails, ReleaseResume, InsertWriter, Greet, WriteOne, ReadNothing, Depart,
       RemoveWriter, DrainWriter, Finish
  <2> QED
    BY <2>1, QueueTyped DEF HostInv, BudgetInv, ChannelsTyped, Conn
<1>2. /\ Rejected \in Events
      /\ \A kind \in Kinds, b \in {0, 1} : Event(kind, conns[t].handle, b) \in Events
      /\ Event("HttpRequest", 0, 1) \in Events
  BY <1>1, EventTyped DEF Kinds
<1>3. Round \in {"remove", "serve"}
  BY DEF Round
<1>4. CASE Request(t) \/ Silent(t, "request", "finish")
  BY <1>1, <1>2, <1>4, MoveBudget, Zenon DEF Request, Silent, Announce, Places, Early, Drained
<1>5. CASE ClaimResume(t)
  <2>1. CASE Move(t, "finish") /\ Publish(Rejected, 0)
    BY <1>1, <1>2, <1>5, <2>1, MoveBudget DEF ClaimResume, Places, Early, Drained
  <2>2. ASSUME NEW handle \in Nat, UNCHANGED <<buffered, events>>,
               conns' = [conns EXCEPT ![t].at = "claimed", ![t].handle = handle]
        PROVE  BudgetInv'
    <3> DEFINE c == [conns[t] EXCEPT !.at = "claimed", !.handle = handle]
    <3>1. /\ c \in Conn /\ c.at = "claimed" /\ c.queued = conns[t].queued
          /\ c.receiving = conns[t].receiving
      BY <1>1, <2>2, Zenon DEF Conn, Places, Holding
    <3>2. conns' = [conns EXCEPT ![t] = c]
      BY <2>2, Zenon
    <3> HIDE DEF c
    <3>3. conns[t].queued = 0 /\ ~conns[t].receiving
      BY <1>1, <1>5 DEF ClaimResume, QueueBounded, Early
    <3>4. buffered' = buffered + (c.queued - conns[t].queued)
      BY <1>1, <2>2, <3>1
    <3> QED
      BY <1>1, <2>2, <3>1, <3>2, <3>3, <3>4, ShareBudget, Zenon DEF Early, Drained
  <2>3. \A handle \in 1 .. Len(resume) + 1 : handle \in Nat
    BY DEF HostInv, TablesTyped
  <2> QED
    BY <1>5, <2>1, <2>2, <2>3, Zenon DEF ClaimResume
<1>6. CASE ReadPeer(t)
  <2>1. conns[t].at \in {"read", "serve"} /\ Event("Message", conns[t].handle, 1) \in Events
    BY <1>2, <1>6, Zenon DEF ReadPeer, Reading, Kinds
  <2> QED
    BY <1>1, <1>3, <1>6, <2>1, MoveBudget, Zenon DEF ReadPeer, Places, Holding, Early, Drained
<1>7. CASE ReadNothing(t)
  BY <1>1, <1>3, <1>7, MoveBudget, Zenon DEF ReadNothing, Silent, Places, Holding, Early, Drained
<1>8. CASE Greet(t)
  <2>1. Event("Connected", conns[t].handle, 1) \in Events
    BY <1>2, Zenon DEF Kinds
  <2> QED
    BY <1>1, <1>3, <1>8, <2>1, MoveBudget, Zenon DEF Greet, Announce, Places, Holding, Early, Drained
<1>9. CASE HandshakeFails(t)
  BY Zenon, <1>1, <1>2, <1>9, MoveBudget
     DEF HandshakeFails, ReleaseResume, Announce, Places, Early, Drained
<1>10. CASE InsertWriter(t)
  <2> DEFINE c == [conns[t] EXCEPT !.at = "greet", !.receiving = TRUE]
  <2>1. c \in Conn /\ c.at = "greet" /\ c.queued = conns[t].queued
    BY <1>1, Zenon DEF Conn, Places, Holding
  <2>2. conns' = [conns EXCEPT ![t] = c] /\ UNCHANGED <<buffered, events>>
    BY <1>10, Zenon DEF InsertWriter
  <2> HIDE DEF c
  <2>3. buffered' = buffered + (c.queued - conns[t].queued)
    BY <1>1, <2>1, <2>2
  <2> QED
    BY <1>1, <2>1, <2>2, <2>3, ShareBudget, Zenon DEF Early, Drained
<1>11. CASE WriteOne(t)
  <2>1. PICK to \in {"serve", "read"} :
            conns' = [conns EXCEPT ![t].queued = @ - 1, ![t].at = to]
    BY <1>11, Zenon DEF WriteOne
  <2>2. conns[t].queued > 0 /\ buffered' = buffered - 1 /\ events' = events
    BY <1>11, Zenon DEF WriteOne
  <2> DEFINE q == conns[t].queued - 1
             c == Requeue(conns[t], to, q)
  <2>6. to \in Places /\ q \in Nat
    BY <1>1, <2>2 DEF Places, Holding
  <2>3. c \in Conn /\ c.at = to /\ c.queued = conns[t].queued - 1
    BY <1>1, <2>6, Requeued, ZenonT(30)
  <2>4. conns' = [conns EXCEPT ![t] = c]
    BY <2>1, Zenon DEF Requeue
  <2> HIDE DEF c
  <2>5. buffered' = buffered + (c.queued - conns[t].queued)
    BY <1>1, <2>2, <2>3
  <2> QED
    BY <1>1, <2>2, <2>3, <2>4, <2>5, ShareBudget, Zenon DEF Early, Drained
<1>12. CASE DrainWriter(t)
  <2> DEFINE c == Requeue(conns[t], "farewell", 0)
  <2>1. c \in Conn /\ c.at = "farewell" /\ c.queued = 0
    <3>1. "farewell" \in Places /\ 0 \in Nat
      BY DEF Places, Holding
    <3> QED BY <1>1, <3>1, Requeued, ZenonT(30)
  <2>2. /\ conns' = [conns EXCEPT ![t] = c] /\ events' = events
        /\ buffered' = buffered - conns[t].queued
    BY <1>12, Zenon DEF DrainWriter, Requeue
  <2> HIDE DEF c
  <2>3. buffered' = buffered + (c.queued - conns[t].queued)
    BY <1>1, <2>1, <2>2
  <2>4. c.at \notin Early /\ c.queued <= 1 /\ c.queued = 0
    <3>1. c.at \notin Early
      BY <2>1, Zenon DEF Early
    <3> QED BY <2>1, <3>1
  <2> QED
    BY <1>1, <2>1, <2>2, <2>3, <2>4, ShareBudget, Zenon
<1>13. CASE RemoveWriter(t) \/ ReleaseResume(t, "release", "finish")
  BY <1>1, <1>13, MoveBudget, Zenon DEF RemoveWriter, ReleaseResume, Places, Holding, Early, Drained
<1>14. CASE Announce(t, "farewell", Event("Disconnected", conns[t].handle, 0), "release")
  <2>1. Event("Disconnected", conns[t].handle, 0) \in Events
    BY <1>2 DEF Kinds
  <2> QED
    BY <1>1, <1>14, <2>1, MoveBudget DEF Announce, Places, Holding, Early, Drained
<1>15. CASE Finish(t)
  <2> DEFINE c == [NewConnection EXCEPT !.at = "done", !.queued = conns[t].queued]
  <2>1. c \in Conn /\ c.at = "done" /\ c.queued = conns[t].queued /\ ~c.receiving
    BY <1>1, Zenon DEF Conn, Places, NewConnection
  <2>2. /\ conns' = [conns EXCEPT ![t] = c] /\ UNCHANGED <<events, buffered>>
        /\ conns[t].queued <= 1
    BY <1>1, <1>15 DEF Finish, QueueBounded, Drained
  <2> HIDE DEF c
  <2>3. buffered' = buffered + (c.queued - conns[t].queued)
    BY <1>1, <2>1, <2>2
  <2> QED
    BY <1>1, <2>1, <2>2, <2>3, ShareBudget, Zenon DEF Early, Drained
<1> QED
  BY Zenon, <1>4, <1>5, <1>6, <1>7, <1>8, <1>9, <1>10, <1>11, <1>12, <1>13, <1>14, <1>15
     DEF PeerStep, ThreadStep, Depart

LEMMA BudgetStarts == HostInit => BudgetInv
<1> SUFFICES ASSUME HostInit PROVE BudgetInv
  OBVIOUS
<1>1. ChannelsTyped
  BY DEF HostInit, ChannelsTyped, Listening
<1>2. Threads = {}
  BY DEF HostInit, Threads
<1>3. Loaded = {} /\ Ordered = {} /\ Queued = {} /\ InHand = 0
  BY <1>2 DEF HostInit, Loaded, Ordered, Queued, InHand, Listening
<1>4. InFlight = 0
  BY <1>3, FS_EmptySet DEF InFlight
<1> QED
  BY <1>1, <1>2, <1>4 DEF BudgetInv, HostInit

LEMMA BudgetSteps ==
    ASSUME HostInv, BudgetInv, [HostNext]_hostVars
    PROVE  BudgetInv'
<1>1. HostInv'
  BY HostSteps
<1>2. CASE AppStep \/ Joined \/ ListenerStep \/ Accept \/ AcceptFails \/ Over
              \/ UNCHANGED hostVars
  BY <1>1, <1>2, ApplicationBudget, TakeCommandBudget, HandOverBudget, AcceptBudget
     DEF ListenerStep, Over
<1>3. ASSUME NEW t \in Threads, PeerStep(t) \/ ThreadStep(t) PROVE BudgetInv'
  BY <1>1, <1>3, ThreadBudget
<1> QED
  BY <1>2, <1>3 DEF HostNext

\* buffered_bytes is exactly what the channels, the listener and the writers'
\* queues hold, over all interleavings of send, poll, listener_loop and
\* websocket_loop, and at most one payload is left behind a drained queue.
THEOREM BudgetIsExact == HostSpec => []BufferedAccounted
<1>1. HostInit => HostInv /\ BudgetInv
  BY HostStarts, BudgetStarts
<1>2. HostInv /\ BudgetInv /\ [HostNext]_hostVars => (HostInv /\ BudgetInv)'
  BY HostSteps, BudgetSteps
<1>3. BudgetInv => BufferedAccounted
  BY DEF BudgetInv, QueueBounded, Drained, BufferedAccounted
<1> QED
  BY <1>1, <1>2, <1>3, PTL DEF HostSpec

-----------------------------------------------------------------------------
(* What the application is told.  The last word on a handle, said or still    *)
(* queued, is Disconnected exactly while no thread is between publishing       *)
(* Connected and publishing Disconnected for it.                              *)

Greeted == {"serve", "read", "remove", "drain", "farewell"}
InSession(h) == \E t \in Threads : conns[t].handle = h /\ conns[t].at \in Greeted
Latest(h, i) == i \in Mentions(h) /\ \A j \in Mentions(h) : j <= i

Told ==
    /\ \A i \in DOMAIN events :
          /\ events[i].connection \in {0} \union DOMAIN resume
          /\ events[i].kind \in {"Connected", "Disconnected"} => events[i].connection # 0
    /\ DOMAIN view \subseteq DOMAIN resume
    /\ \A h \in DOMAIN view : view[h] \in {"Connected", "Disconnected"}

LatestSaid ==
    \A h \in DOMAIN resume : \A i \in Mentions(h) :
        Latest(h, i) => (Said(h, i) = "Disconnected" <=> ~InSession(h))

Alternates ==
    \A h \in DOMAIN resume : \A i, j \in Mentions(h) :
        Consecutive(h, i, j) => (Said(h, j) = "Connected" <=> Said(h, i) = "Disconnected")

TellInv == Told /\ (~lost => LatestSaid /\ Alternates)

LEMMA MentionsTyped ==
    ASSUME HostInv, BudgetInv
    PROVE  /\ 0 \notin DOMAIN resume /\ DOMAIN resume \subseteq Nat
           /\ \A h : Mentions(h) \subseteq 0 .. Len(events)
BY DEF HostInv, TablesTyped, BudgetInv, ChannelsTyped, Mentions

\* Nothing is said about the handles that exist; a new handle is unknown.
LEMMA SilentTold ==
    ASSUME HostInv, BudgetInv, TellInv, UNCHANGED <<events, view>>, ~lost' => ~lost,
           DOMAIN resume \subseteq DOMAIN resume', 0 \notin DOMAIN resume',
           \A h \in DOMAIN resume : InSession(h)' <=> InSession(h),
           \A h \in DOMAIN resume' \ DOMAIN resume : ~InSession(h)'
    PROVE  TellInv'
<1>1. Told'
  BY DEF TellInv, Told
<1>2. \A h : Mentions(h)' = Mentions(h)
  BY DEF Mentions
<1>3. \A h, i : Said(h, i)' = Said(h, i)
  BY DEF Said
<1>4. \A h \in DOMAIN resume' \ DOMAIN resume :
         Mentions(h) = {0} /\ Said(h, 0) = "Disconnected"
  BY DEF TellInv, Told, Mentions, Said
<1>5. ASSUME ~lost' PROVE LatestSaid' /\ Alternates'
  <2>1. LatestSaid /\ Alternates
    BY <1>5 DEF TellInv
  <2>2. \A h, i : Latest(h, i)' <=> Latest(h, i)
    BY <1>2 DEF Latest
  <2>3. \A h, i, j : Consecutive(h, i, j)' <=> Consecutive(h, i, j)
    BY <1>2 DEF Consecutive
  <2>4. LatestSaid'
    BY <1>2, <1>3, <1>4, <2>1, <2>2 DEF LatestSaid
  <2>5. Alternates'
    <3> SUFFICES ASSUME NEW h \in DOMAIN resume', NEW i \in Mentions(h)',
                        NEW j \in Mentions(h)', Consecutive(h, i, j)'
                 PROVE  Said(h, j)' = "Connected" <=> Said(h, i)' = "Disconnected"
      BY DEF Alternates
    <3>1. CASE h \in DOMAIN resume
      BY <1>2, <1>3, <2>1, <2>3, <3>1 DEF Alternates
    <3>2. CASE h \notin DOMAIN resume
      BY <1>2, <1>4, <3>2 DEF Consecutive
    <3> QED BY <3>1, <3>2
  <2> QED BY <2>4, <2>5
<1> QED
  BY <1>1, <1>5 DEF TellInv

\* An event is put in the channel.
LEMMA AppendMentions ==
    ASSUME HostInv, BudgetInv, NEW e \in Events, events' = Append(events, e), view' = view,
           NEW n \in Nat, n = Len(events) + 1
    PROVE  /\ \A h : Mentions(h) \subseteq 0 .. n - 1
           /\ \A h : /\ e.connection = h => Mentions(h)' = Mentions(h) \union {n}
                     /\ e.connection # h => Mentions(h)' = Mentions(h)
                     /\ \A i \in Mentions(h) : Said(h, i)' = Said(h, i)
                     /\ Said(h, n)' = e.kind
<1>1. events \in Seq(Events)
  BY DEF BudgetInv, ChannelsTyped
<1>2. /\ n # 0 /\ DOMAIN events = 1 .. n - 1 /\ DOMAIN events' = 1 .. n
      /\ events'[n] = e
      /\ \A i \in DOMAIN events : events'[i] = events[i]
  BY <1>1
<1>3. \A h : Mentions(h) \subseteq 0 .. n - 1
  BY <1>2 DEF Mentions
<1>4. \A h : /\ e.connection = h => Mentions(h)' = Mentions(h) \union {n}
             /\ e.connection # h => Mentions(h)' = Mentions(h)
  BY <1>2 DEF Mentions
<1>5. \A h : \A i \in Mentions(h) : Said(h, i)' = Said(h, i)
  BY <1>2 DEF Said, Mentions
<1>6. \A h : Said(h, n)' = e.kind
  BY <1>2 DEF Said
<1> QED
  BY <1>3, <1>4, <1>5, <1>6

LEMMA AppendTold ==
    ASSUME HostInv, BudgetInv, TellInv, NEW e \in Events,
           events' = Append(events, e), UNCHANGED view, DOMAIN resume' = DOMAIN resume,
           e.connection \in {0} \union DOMAIN resume,
           e.kind \in {"Connected", "Disconnected"} => e.connection # 0
    PROVE  Told'
<1>1. events \in Seq(Events)
  BY DEF BudgetInv, ChannelsTyped
<1>2. \A i \in DOMAIN events' : events'[i] = e \/ (i \in DOMAIN events /\ events'[i] = events[i])
  BY <1>1
<1> QED
  BY <1>2 DEF TellInv, Told

\* Once something was lost, only what the events name matters.
LEMMA LostTold ==
    ASSUME HostInv, BudgetInv, TellInv, lost', UNCHANGED view, DOMAIN resume' = DOMAIN resume,
           events' = events \/ events' = Append(events, Overflow)
    PROVE  TellInv'
<1>1. Told'
  <2>1. CASE events' = events
    BY <2>1 DEF TellInv, Told
  <2>2. CASE events' = Append(events, Overflow)
    BY <2>2, AppendTold, EventTyped
  <2> QED BY <2>1, <2>2
<1> QED
  BY <1>1 DEF TellInv

\* An event of no session.
LEMMA OtherEventTold ==
    ASSUME HostInv, BudgetInv, TellInv, NEW e \in Events,
           events' = Append(events, e), lost' <=> lost, UNCHANGED view,
           DOMAIN resume' = DOMAIN resume,
           e.connection = 0, e.kind \notin {"Connected", "Disconnected"},
           \A h \in DOMAIN resume : InSession(h)' <=> InSession(h)
    PROVE  TellInv'
<1>1. Told'
  BY AppendTold
<1>2. \A h \in DOMAIN resume : h \in Nat \ {0}
  BY MentionsTyped
<1>3. \A h \in DOMAIN resume : /\ Mentions(h)' = Mentions(h)
                               /\ \A i \in Mentions(h) : Said(h, i)' = Said(h, i)
  <2>1. PICK n \in Nat : n = Len(events) + 1
    BY DEF BudgetInv, ChannelsTyped
  <2> QED
    BY <1>2, <2>1, AppendMentions
<1>4. ASSUME ~lost' PROVE LatestSaid' /\ Alternates'
  <2>1. LatestSaid /\ Alternates
    BY <1>4 DEF TellInv
  <2>2. \A h \in DOMAIN resume : \A i : Latest(h, i)' <=> Latest(h, i)
    BY <1>3 DEF Latest
  <2>3. \A h \in DOMAIN resume : \A i, j : Consecutive(h, i, j)' <=> Consecutive(h, i, j)
    BY <1>3 DEF Consecutive
  <2>4. LatestSaid'
    BY <1>3, <2>1, <2>2, ZenonT(30) DEF LatestSaid
  <2>5. Alternates'
    BY <1>3, <2>1, <2>3 DEF Alternates
  <2> QED BY <2>4, <2>5
<1> QED
  BY <1>1, <1>4 DEF TellInv

\* An event of a session: it follows the last word on its handle, and becomes it.
LEMMA OwnEventTold ==
    ASSUME HostInv, BudgetInv, TellInv, NEW e \in Events,
           events' = Append(events, e), lost' <=> lost, UNCHANGED view,
           DOMAIN resume' = DOMAIN resume,
           NEW g \in DOMAIN resume, e.connection = g,
           e.kind = "Connected" <=> ~InSession(g),
           e.kind = "Disconnected" <=> ~InSession(g)',
           \A h \in DOMAIN resume : h # g => (InSession(h)' <=> InSession(h))
    PROVE  TellInv'
<1>0. PICK n \in Nat : n = Len(events) + 1
  BY DEF BudgetInv, ChannelsTyped
<1>2. \A h \in DOMAIN resume : h \in Nat \ {0}
  BY MentionsTyped
<1>1. Told'
  BY <1>2, AppendTold
<1>3. /\ n \in Nat
      /\ \A h \in DOMAIN resume : /\ Mentions(h) \subseteq 0 .. n - 1
                                  /\ h # g => Mentions(h)' = Mentions(h)
                                  /\ \A i \in Mentions(h) : Said(h, i)' = Said(h, i)
      /\ Mentions(g)' = Mentions(g) \union {n}
      /\ Said(g, n)' = e.kind
  BY <1>0, <1>2, AppendMentions, Zenon
<1>4. ASSUME ~lost' PROVE LatestSaid' /\ Alternates'
  <2>1. LatestSaid /\ Alternates
    BY <1>4, ZenonT(30) DEF TellInv
  <2>2. LatestSaid'
    <3> SUFFICES ASSUME NEW h \in DOMAIN resume, NEW i \in Mentions(h)', Latest(h, i)'
                 PROVE  Said(h, i)' = "Disconnected" <=> ~InSession(h)'
      BY Zenon DEF LatestSaid
    <3>1. CASE h # g
      <4>1. Latest(h, i) /\ i \in Mentions(h)
        BY <1>3, <3>1, Zenon DEF Latest
      <4> QED BY <1>3, <2>1, <3>1, <4>1, Zenon DEF LatestSaid
    <3>2. CASE h = g
      <4>1. n <= i /\ (i = n \/ i \in 0 .. n - 1)
        BY <1>3, <3>2, Zenon DEF Latest
      <4>2. i = n
        BY <1>3, <4>1, NotBelow, Zenon
      <4> QED BY <1>3, <3>2, <4>2, Zenon
    <3> QED BY <3>1, <3>2
  <2>3. Alternates'
    <3> SUFFICES ASSUME NEW h \in DOMAIN resume, NEW i \in Mentions(h)',
                        NEW j \in Mentions(h)', Consecutive(h, i, j)'
                 PROVE  Said(h, j)' = "Connected" <=> Said(h, i)' = "Disconnected"
      BY DEF Alternates
    <3>0. i < j /\ \A k \in Mentions(h) : k <= i \/ j <= k
      BY <1>3, ZenonT(30) DEF Consecutive
    <3>1. CASE i \in Mentions(h) /\ j \in Mentions(h)
      <4>1. Consecutive(h, i, j)
        BY <3>0 DEF Consecutive
      <4> QED BY <1>3, <2>1, <3>1, <4>1 DEF Alternates
    <3>2. CASE h = g /\ j = n
      <4>1. i \in Mentions(g) /\ i \in 0 .. n - 1
        BY <1>3, <3>0, <3>2, NotLess, ZenonT(30)
      <4>2. \A k \in Mentions(g) : k <= i
        BY <1>3, <3>0, <3>2, <4>1
      <4>3. Said(g, i) = "Disconnected" <=> ~InSession(g)
        BY <2>1, <4>1, <4>2, ZenonT(30) DEF LatestSaid, Latest
      <4> QED BY <1>3, <3>2, <4>1, <4>3, ZenonT(30)
    <3>3. CASE h = g /\ i = n
      BY <1>3, <3>0, <3>3
    <3> QED BY <1>3, <3>1, <3>2, <3>3, Zenon
  <2> QED BY <2>2, <2>3
<1> QED
  BY <1>1, <1>4 DEF TellInv

\* poll says the first event: what was at place 1 moves to place 0, and the
\* other places down by one.
LEMMA PollTold ==
    ASSUME HostInv, BudgetInv, TellInv, Poll
    PROVE  TellInv'
<1> DEFINE first == events[1]
<1>1. /\ events \in Seq(Events) /\ events # <<>> /\ events' = Tail(events)
      /\ UNCHANGED <<conns, resume, lost>>
      /\ view' = IF Head(events).kind \in {"Connected", "Disconnected"}
                 THEN [h \in DOMAIN view \union {Head(events).connection} |->
                           IF h = Head(events).connection THEN Head(events).kind
                           ELSE view[h]]
                 ELSE view
  BY DEF Poll, BudgetInv, ChannelsTyped
<1>2. PICK n \in Nat : n = Len(events)
  BY <1>1
<1>3. /\ DOMAIN events = 1 .. n /\ n >= 1 /\ DOMAIN events' = 1 .. n - 1
      /\ Head(events) = first /\ 1 \in DOMAIN events
      /\ \A i \in 1 .. n - 1 : events'[i] = events[i + 1]
  BY <1>1, <1>2
<1>4. /\ first.kind \in {"Connected", "Disconnected"} =>
            /\ DOMAIN view' = DOMAIN view \union {first.connection}
            /\ view'[first.connection] = first.kind
            /\ \A h \in DOMAIN view : h # first.connection => view'[h] = view[h]
      /\ first.kind \notin {"Connected", "Disconnected"} => view' = view
  BY <1>1, <1>3
<1>5. Told'
  <2>1. /\ first.connection \in {0} \union DOMAIN resume
        /\ first.kind \in {"Connected", "Disconnected"} => first.connection \in DOMAIN resume
    BY <1>3 DEF TellInv, Told
  <2>2. /\ DOMAIN view' \subseteq DOMAIN resume
        /\ \A h \in DOMAIN view' : view'[h] \in {"Connected", "Disconnected"}
    <3>1. CASE first.kind \in {"Connected", "Disconnected"}
      BY <1>4, <2>1, <3>1, Zenon DEF TellInv, Told
    <3>2. CASE first.kind \notin {"Connected", "Disconnected"}
      BY <1>4, <3>2 DEF TellInv, Told
    <3> QED BY <3>1, <3>2
  <2>3. \A i \in DOMAIN events' : i + 1 \in DOMAIN events /\ events'[i] = events[i + 1]
    BY <1>3
  <2>4. \A i \in DOMAIN events' :
          /\ events'[i].connection \in {0} \union DOMAIN resume
          /\ events'[i].kind \in {"Connected", "Disconnected"} => events'[i].connection # 0
    BY <2>3 DEF TellInv, Told
  <2> QED
    BY <1>1, <2>2, <2>4, Zenon DEF Told
<1>6. \A h \in DOMAIN resume : InSession(h)' <=> InSession(h)
  BY <1>1 DEF InSession, Threads
<1>7. ASSUME ~lost' PROVE LatestSaid' /\ Alternates'
  <2>1. LatestSaid /\ Alternates
    BY <1>1, <1>7 DEF TellInv
  <2>2. SUFFICES ASSUME NEW h \in DOMAIN resume
        PROVE  /\ \A i \in Mentions(h)' : Latest(h, i)' =>
                       (Said(h, i)' = "Disconnected" <=> ~InSession(h))
               /\ \A i, j \in Mentions(h)' : Consecutive(h, i, j)' =>
                       (Said(h, j)' = "Connected" <=> Said(h, i)' = "Disconnected")
    BY <1>1, <1>6, ZenonT(30) DEF LatestSaid, Alternates
  <2> DEFINE Back(i) == IF i = 0 THEN (IF first.connection = h THEN 1 ELSE 0) ELSE i + 1
  <2>3. /\ Mentions(h) \subseteq 0 .. n /\ h # 0 /\ 0 \in Mentions(h)
        /\ 1 \in Mentions(h) <=> first.connection = h
    BY <1>2, <1>3, MentionsTyped DEF Mentions
  <2>4. \A i \in Mentions(h)' : /\ i \in 0 .. n - 1
                                /\ i # 0 => i + 1 \in Mentions(h)
    BY <1>3 DEF Mentions
  <2>5. \A i \in Mentions(h) : i >= 2 => i - 1 \in Mentions(h)'
    <3> SUFFICES ASSUME NEW i \in Mentions(h), i >= 2 PROVE i - 1 \in Mentions(h)'
      OBVIOUS
    <3>1. i \in 1 .. n /\ events[i].connection = h
      BY <1>3, <2>3 DEF Mentions
    <3>2. i - 1 \in 1 .. n - 1 /\ (i - 1) + 1 = i
      BY <3>1
    <3>3. events'[i - 1] = events[i]
      BY <1>3, <3>2
    <3> QED BY <1>3, <3>1, <3>2, <3>3 DEF Mentions
  <2>6. \A i \in Mentions(h)' : Back(i) \in Mentions(h) /\ Back(i) \in Nat
    BY <2>3, <2>4
  <2>7. \A i \in Mentions(h)' : i # 0 => Said(h, i)' = Said(h, i + 1)
    BY <1>3, <2>4 DEF Said, Mentions
  <2>8. Said(h, 0)' = "Disconnected" <=> Said(h, Back(0)) = "Disconnected"
    <3>1. CASE first.connection # h
      <4>1. Back(0) = 0
        BY <3>1
      <4>2. Said(h, 0)' = Said(h, 0)
        BY <1>4, <3>1 DEF Said
      <4> QED BY <4>1, <4>2
    <3>2. CASE first.connection = h
      <4>1. Back(0) = 1 /\ Said(h, 1) = first.kind
        BY <3>2 DEF Said
      <4>2. CASE first.kind \in {"Connected", "Disconnected"}
        BY <1>4, <3>2, <4>1, <4>2, ZenonT(30) DEF Said
      <4>3. CASE first.kind \notin {"Connected", "Disconnected"}
        <5>1. Said(h, 0)' = Said(h, 0)
          BY <1>4, <4>3 DEF Said
        <5>2. Consecutive(h, 0, 1)
          BY <2>3 DEF Consecutive
        <5>3. Said(h, 1) = "Connected" <=> Said(h, 0) = "Disconnected"
          BY <2>1, <2>3, <3>2, <5>2, Zenon DEF Alternates
        <5> QED BY <4>1, <4>3, <5>1, <5>3, Zenon
      <4> QED BY <4>2, <4>3
    <3> QED BY <3>1, <3>2
  <2>9. \A i \in Mentions(h)' :
           Said(h, i)' = "Disconnected" <=> Said(h, Back(i)) = "Disconnected"
    BY <2>7, <2>8
  <2>10. ASSUME NEW i \in Mentions(h)', Latest(h, i)'
         PROVE  Said(h, i)' = "Disconnected" <=> ~InSession(h)
    <3>1. \A j \in Mentions(h)' : j <= i
      BY <2>10 DEF Latest
    <3>2. \A j \in Mentions(h) : j <= Back(i)
      BY <2>3, <2>4, <2>5, <3>1
    <3>3. Said(h, Back(i)) = "Disconnected" <=> ~InSession(h)
      BY <2>1, <2>6, <3>2, Zenon DEF LatestSaid, Latest
    <3> QED BY <2>9, <3>3
  <2>11. ASSUME NEW i \in Mentions(h)', NEW j \in Mentions(h)', Consecutive(h, i, j)'
         PROVE  Said(h, j)' = "Connected" <=> Said(h, i)' = "Disconnected"
    <3>1. i < j /\ \A k \in Mentions(h)' : k <= i \/ j <= k
      BY <2>11 DEF Consecutive
    <3>2. j # 0 /\ j + 1 \in Mentions(h) /\ i \in Nat /\ j \in Nat
      BY <2>4, <3>1
    <3>3. Back(i) < j + 1
      BY <3>1, <3>2
    <3>4. \A k \in Mentions(h) : k <= Back(i) \/ j + 1 <= k
      BY <2>3, <2>5, <3>1, <3>2
    <3>5. Consecutive(h, Back(i), j + 1)
      BY <3>3, <3>4, Zenon DEF Consecutive
    <3>6. Said(h, j + 1) = "Connected" <=> Said(h, Back(i)) = "Disconnected"
      BY <2>1, <2>6, <3>2, <3>5, Zenon DEF Alternates
    <3> QED BY <2>7, <2>9, <3>2, <3>6
  <2> QED BY <2>10, <2>11
<1> QED
  BY <1>5, <1>7 DEF TellInv

-----------------------------------------------------------------------------
\* Who is in session, after a step of one thread.
LEMMA SessionsKept ==
    ASSUME NEW t \in Threads, Threads' = Threads,
           \A u \in Threads : u # t => conns'[u] = conns[u],
           conns'[t].at \in Greeted <=> conns[t].at \in Greeted,
           conns[t].at \in Greeted => conns'[t].handle = conns[t].handle
    PROVE  \A h : InSession(h)' <=> InSession(h)
BY DEF InSession

LEMMA SessionsOfOthers ==
    ASSUME NEW t \in Threads, Threads' = Threads,
           \A u \in Threads : u # t => conns'[u] = conns[u],
           conns'[t].handle = conns[t].handle
    PROVE  \A h : h # conns[t].handle => (InSession(h)' <=> InSession(h))
BY DEF InSession

\* The one holder of a handle decides whether it is in session.
SessionsHeld ==
    \A t \in Threads : Holds(t) => (InSession(conns[t].handle) <=> conns[t].at \in Greeted)

LEMMA HolderDecides == HostInv => SessionsHeld
<1> SUFFICES ASSUME HostInv, NEW t \in Threads, Holds(t)
             PROVE  InSession(conns[t].handle) <=> conns[t].at \in Greeted
  BY DEF SessionsHeld
<1>1. \A u \in Threads : conns[u].at \in Greeted => Holds(u)
  BY DEF Greeted, Holds, Holding
<1> QED
  BY <1>1 DEF HostInv, ClaimsExclusive, InSession

LEMMA HolderDecidesNext == ASSUME HostInv' PROVE SessionsHeld'
<1>1. (HostInv => SessionsHeld)'
  BY HolderDecides, PTL
<1> QED BY <1>1

\* The steps that publish nothing of a session, or nothing at all.
LEMMA PlainTold ==
    ASSUME HostInv, BudgetInv, TellInv, UNCHANGED <<resume, view>>,
           \A h : InSession(h)' <=> InSession(h),
           \/ UNCHANGED <<events, lost>>
           \/ NoteOverflow
           \/ \E e \in Events, spare \in Nat :
                 /\ e.connection = 0 /\ e.kind \notin {"Connected", "Disconnected"}
                 /\ Publish(e, spare)
    PROVE  TellInv'
<1>1. 0 \notin DOMAIN resume /\ buffered \in Int
  BY MentionsTyped DEF BudgetInv, ChannelsTyped
<1>2. CASE UNCHANGED <<events, lost>>
  BY <1>1, <1>2, SilentTold
<1>3. CASE NoteOverflow
  BY <1>3, LostTold DEF NoteOverflow
<1>4. ASSUME NEW e \in Events, NEW spare \in Nat, Publish(e, spare),
             e.connection = 0, e.kind \notin {"Connected", "Disconnected"}
      PROVE  TellInv'
  <2>1. Published(e, spare)
    BY <1>1, <1>4, PublishEffect
  <2> QED
    BY <1>4, <2>1, LostTold, OtherEventTold DEF Published
<1> QED
  BY <1>2, <1>3, <1>4

LEMMA OwnTold ==
    ASSUME HostInv, HostInv', BudgetInv, TellInv, UNCHANGED <<resume, view>>,
           NEW t \in Threads, NEW place \in Places, Move(t, place),
           Holds(t), place \in Holding,
           NEW kind \in {"Connected", "Disconnected", "Message"}, NEW bytes \in {0, 1},
           Publish(Event(kind, conns[t].handle, bytes), 0),
           kind = "Connected" <=> conns[t].at \notin Greeted,
           kind = "Disconnected" <=> place \notin Greeted
    PROVE  TellInv'
<1> DEFINE g == conns[t].handle
           e == Event(kind, g, bytes)
<1>1. g \in DOMAIN resume /\ g \in Nat /\ buffered \in Int
  BY MentionsTyped, Zenon DEF HostInv, ClaimsExclusive, BudgetInv, ChannelsTyped
<1>2. e \in Events /\ e.connection = g /\ e.kind = kind
  <2>1. kind \in Kinds
    BY Zenon DEF Kinds
  <2> QED BY <1>1, <2>1, EventFields, ZenonT(30)
<1>3. /\ Threads' = Threads /\ conns'[t].at = place /\ conns'[t].handle = g
      /\ \A u \in Threads : u # t => conns'[u] = conns[u]
  BY Moved DEF HostInv
<1>4. InSession(g) <=> conns[t].at \in Greeted
  BY HolderDecides DEF SessionsHeld
<1>5. \A h : h = g => (InSession(h)' <=> place \in Greeted)
  <2>1. Holds(t)'
    BY <1>3, Zenon DEF Holds
  <2>2. InSession(conns[t].handle)' <=> conns'[t].at \in Greeted
    BY <1>3, <2>1, HolderDecidesNext, ZenonT(30) DEF SessionsHeld
  <2>3. \A h : h = conns'[t].handle => (InSession(h)' <=> conns'[t].at \in Greeted)
    BY <2>2 DEF InSession
  <2> QED BY <1>3, <2>3
<1>6. \A h : h # g => (InSession(h)' <=> InSession(h))
  BY <1>3, SessionsOfOthers, ZenonT(30)
<1>7. Published(e, 0)
  BY <1>1, <1>2, PublishEffect
<1> HIDE DEF e, g
<1>8. CASE lost' /\ (events' = events \/ events' = Append(events, Overflow))
  BY <1>8, LostTold, Zenon
<1>9. CASE (lost' <=> lost) /\ events' = Append(events, e)
  BY <1>1, <1>2, <1>4, <1>5, <1>6, <1>9, OwnEventTold, Zenon DEF g
<1> QED
  BY <1>7, <1>8, <1>9, Zenon DEF Published

\* The application and the listener say nothing of a session.
LEMMA ListenerTold ==
    ASSUME HostInv, BudgetInv, TellInv,
           AppStep \/ Joined \/ ListenerStep \/ Accept \/ AcceptFails \/ UNCHANGED hostVars
    PROVE  TellInv'
<1>0. /\ Rejected \in Events /\ Rejected.connection = 0
      /\ Rejected.kind \notin {"Connected", "Disconnected"} /\ 1 \in Nat
  BY EventTyped
<1>1. CASE Poll
  BY <1>1, PollTold
<1>2. CASE Stop \/ Joined \/ AcceptNobody \/ AcceptFails \/ JoinWorkers \/ UNCHANGED hostVars
  <2>1. UNCHANGED <<conns, resume, view, events, lost>>
    BY <1>2, Zenon DEF Stop, Joined, AcceptNobody, AcceptFails, JoinWorkers, hostVars
  <2>2. \A h : InSession(h)' <=> InSession(h)
    BY <2>1 DEF InSession, Threads
  <2> QED BY <2>1, <2>2, PlainTold, ZenonT(30)
<1>3. ASSUME NEW handle \in DOMAIN resume, Send(handle) PROVE TellInv'
  <2>1. UNCHANGED <<conns, resume, view>> /\ (NoteOverflow \/ UNCHANGED <<events, lost>>)
    BY <1>3 DEF Send
  <2>2. \A h : InSession(h)' <=> InSession(h)
    BY <2>1 DEF InSession, Threads
  <2> QED BY <2>1, <2>2, PlainTold
<1>4. CASE TakeCommand
  <2>1. UNCHANGED <<conns, resume, view>> /\ (Publish(Rejected, 1) \/ UNCHANGED <<events, lost>>)
    BY <1>4 DEF TakeCommand
  <2>2. \A h : InSession(h)' <=> InSession(h)
    BY <2>1 DEF InSession, Threads
  <2> QED BY <1>0, <2>1, <2>2, PlainTold, ZenonT(30)
<1>5. CASE HandOver
  <2> DEFINE t == listener.target
  <2>1. /\ UNCHANGED <<resume, view>>
        /\ Publish(Rejected, 1) \/ NoteOverflow \/ UNCHANGED <<events, lost>>
        /\ conns' = conns \/ conns' = [conns EXCEPT ![t].queued = @ + 1]
        /\ t \in Threads
    BY <1>5 DEF HandOver, BudgetInv, ChannelsTyped
  <2>2. /\ Threads' = Threads
        /\ \A u \in Threads : /\ conns'[u].at = conns[u].at
                              /\ conns'[u].handle = conns[u].handle
    <3>1. CASE conns' = conns
      BY <3>1 DEF Threads
    <3>2. CASE conns' = [conns EXCEPT ![t].queued = @ + 1]
      <4>1. conns[t] \in Conn /\ conns \in Seq(Conn)
        BY <2>1, QueueTyped DEF HostInv, TablesTyped
      <4>2. Len(conns') = Len(conns) /\ \A u \in Threads : u # t => conns'[u] = conns[u]
        BY <3>2, <4>1 DEF Threads
      <4>3. conns'[t] = [conns[t] EXCEPT !.queued = @ + 1]
        BY <2>1, <3>2, <4>1 DEF Threads
      <4>4. conns'[t].at = conns[t].at /\ conns'[t].handle = conns[t].handle
        BY <4>1, <4>3 DEF Conn
      <4> QED BY <4>2, <4>4 DEF Threads
    <3> QED BY <2>1, <3>1, <3>2
  <2>3. \A h : InSession(h)' <=> InSession(h)
    BY <2>2 DEF InSession
  <2> QED BY <1>0, <2>1, <2>3, PlainTold
<1>6. CASE Accept
  <2>1. /\ UNCHANGED <<resume, view>>
        /\ \/ NoteOverflow /\ conns' = conns
           \/ UNCHANGED <<events, lost>> /\ conns' = Append(conns, NewConnection)
    BY <1>6 DEF Accept
  <2>2. \A h : InSession(h)' <=> InSession(h)
    <3>1. CASE conns' = conns
      BY <3>1 DEF InSession, Threads
    <3>2. CASE conns' = Append(conns, NewConnection)
      <4>0. PICK n \in Nat : n = Len(conns) + 1
        BY DEF HostInv, TablesTyped
      <4>1. NewConnection \in Conn /\ NewConnection.at = "request"
        BY DEF NewConnection, Conn, Places
      <4>2. /\ Threads' = Threads \union {n} /\ conns'[n] = NewConnection
            /\ \A u \in Threads : conns'[u] = conns[u]
        BY <3>2, <4>0, <4>1 DEF HostInv, TablesTyped, Threads
      <4> QED BY <4>1, <4>2 DEF InSession, Greeted
    <3> QED BY <2>1, <3>1, <3>2
  <2> QED BY <2>1, <2>2, PlainTold
<1> QED
  BY <1>1, <1>2, <1>3, <1>4, <1>5, <1>6, Zenon DEF AppStep, ListenerStep

\* A thread that enters or leaves no session.
LEMMA MoveTold ==
    ASSUME HostInv, BudgetInv, TellInv, UNCHANGED <<resume, view>>,
           NEW t \in Threads, NEW place \in Places, Move(t, place),
           place \in Greeted <=> conns[t].at \in Greeted,
           UNCHANGED <<events, lost>> \/ Publish(Rejected, 0)
               \/ Publish(Event("HttpRequest", 0, 1), 0)
    PROVE  TellInv'
<1>1. /\ Threads' = Threads /\ conns'[t].at = place /\ conns'[t].handle = conns[t].handle
      /\ \A u \in Threads : u # t => conns'[u] = conns[u]
  BY Moved, Zenon DEF HostInv
<1>2. \A h : InSession(h)' <=> InSession(h)
  BY <1>1, SessionsKept, Zenon
<1> DEFINE http == Event("HttpRequest", 0, 1)
<1>3. /\ Rejected \in Events /\ Rejected.connection = 0 /\ Rejected.kind = "Rejected"
      /\ http \in Events /\ http.connection = 0 /\ http.kind = "HttpRequest" /\ 0 \in Nat
  BY EventTyped DEF Kinds
<1> HIDE DEF http
<1>4. CASE UNCHANGED <<events, lost>>
  BY <1>2, <1>4, PlainTold, Zenon
<1>5. CASE Publish(Rejected, 0)
  BY <1>2, <1>3, <1>5, PlainTold, Zenon
<1>6. CASE Publish(http, 0)
  BY <1>2, <1>3, <1>6, PlainTold, ZenonT(30)
<1> QED
  BY <1>4, <1>5, <1>6, ZenonT(30) DEF http

\* A thread's record changes outside of any session.
LEMMA QuietThreadTold ==
    ASSUME HostInv, BudgetInv, TellInv, UNCHANGED <<resume, view, events, lost>>,
           NEW t \in Threads, NEW c \in Conn, conns' = [conns EXCEPT ![t] = c],
           c.at \in Greeted <=> conns[t].at \in Greeted,
           conns[t].at \in Greeted => c.handle = conns[t].handle
    PROVE  TellInv'
<1>1. /\ Threads' = Threads /\ conns'[t] = c
      /\ \A u \in Threads : u # t => conns'[u] = conns[u]
  BY Replaced, Zenon DEF HostInv
<1>2. \A h : InSession(h)' <=> InSession(h)
  BY <1>1, SessionsKept
<1> QED BY <1>2, PlainTold

LEMMA ClaimTold ==
    ASSUME HostInv, HostInv', BudgetInv, TellInv, NEW t \in Threads, ClaimResume(t)
    PROVE  TellInv'
<1>1. conns[t].at = "request" /\ conns[t] \in Conn /\ view' = view
  BY QueueTyped, ZenonT(30) DEF ClaimResume, HostInv
<1>2. CASE Move(t, "finish") /\ Publish(Rejected, 0) /\ UNCHANGED resume
  BY <1>1, <1>2, MoveTold DEF Places, Greeted
<1>3. ASSUME NEW handle \in Nat, UNCHANGED <<lost, events>>,
             DOMAIN resume \subseteq DOMAIN resume',
             DOMAIN resume' \subseteq DOMAIN resume \union {handle},
             conns' = [conns EXCEPT ![t].at = "claimed", ![t].handle = handle]
      PROVE  TellInv'
  <2> DEFINE c == [conns[t] EXCEPT !.at = "claimed", !.handle = handle]
  <2>1. c \in Conn /\ c.at = "claimed" /\ c.handle = handle
    BY <1>1, <1>3, Zenon DEF Conn, Places, Holding
  <2>2. conns' = [conns EXCEPT ![t] = c]
    BY <1>3, Zenon
  <2> HIDE DEF c
  <2>3. /\ Threads' = Threads /\ conns'[t] = c
        /\ \A u \in Threads : u # t => conns'[u] = conns[u]
    BY <2>1, <2>2, Replaced, Zenon DEF HostInv
  <2>4. \A h : InSession(h)' <=> InSession(h)
    BY <1>1, <2>1, <2>3, SessionsKept DEF Greeted
  <2>5. \A h \in DOMAIN resume' \ DOMAIN resume : ~InSession(h)
    <3>1. \A u \in Threads : conns[u].at \in Greeted => conns[u].handle \in DOMAIN resume
      BY DEF HostInv, ClaimsExclusive, Holds, Holding, Greeted
    <3> QED BY <3>1, ZenonT(30) DEF InSession
  <2>6. 0 \notin DOMAIN resume'
    BY DEF HostInv, TablesTyped
  <2> QED
    BY <1>1, <1>3, <2>4, <2>5, <2>6, SilentTold
<1>4. PICK handle \in 1 .. Len(resume) + 1 :
        \/ /\ handle <= Len(resume)
           /\ resume' = [resume EXCEPT ![handle] = TRUE]
           /\ conns' = [conns EXCEPT ![t].at = "claimed", ![t].handle = handle]
           /\ UNCHANGED <<lost, events>>
        \/ /\ handle > Len(resume)
           /\ resume' = Append(resume, TRUE)
           /\ conns' = [conns EXCEPT ![t].at = "claimed", ![t].handle = handle]
           /\ UNCHANGED <<lost, events>>
        \/ Move(t, "finish") /\ Publish(Rejected, 0) /\ UNCHANGED resume
  BY Zenon DEF ClaimResume
<1>5. resume \in Seq(BOOLEAN) /\ handle \in Nat
  BY DEF HostInv, TablesTyped
<1>6. CASE resume' = [resume EXCEPT ![handle] = TRUE]
  <2>1. DOMAIN resume' = DOMAIN resume
    BY <1>5, <1>6
  <2>2. CASE /\ conns' = [conns EXCEPT ![t].at = "claimed", ![t].handle = handle]
             /\ UNCHANGED <<lost, events>>
    BY <1>3, <1>5, <2>1, <2>2, Zenon
  <2> QED BY <1>2, <1>4, <2>2, Zenon
<1>7. CASE resume' = Append(resume, TRUE) /\ handle > Len(resume)
  <2>1. handle = Len(resume) + 1 /\ Len(resume) \in Nat
    BY <1>5, <1>7
  <2>2. /\ DOMAIN resume = 1 .. Len(resume)
        /\ DOMAIN resume' = 1 .. Len(resume) + 1
    BY <1>5, <1>7
  <2>3. /\ DOMAIN resume \subseteq DOMAIN resume'
        /\ DOMAIN resume' \subseteq DOMAIN resume \union {handle}
    BY <2>1, <2>2
  <2>4. CASE /\ conns' = [conns EXCEPT ![t].at = "claimed", ![t].handle = handle]
             /\ UNCHANGED <<lost, events>>
    BY <1>3, <1>5, <2>3, <2>4, ZenonT(30)
  <2> QED BY <1>2, <1>4, <2>4, Zenon
<1> QED
  BY <1>2, <1>4, <1>6, <1>7, Zenon

\* release_resume leaves the handle out of any session.
LEMMA ReleaseTold ==
    ASSUME HostInv, HostInv', BudgetInv, TellInv, NEW t \in Threads,
           \/ ReleaseResume(t, "claimed", "refused")
           \/ ReleaseResume(t, "release", "finish")
    PROVE  TellInv'
<1>1. PICK place \in {"refused", "finish"} : Move(t, place)
  BY ZenonT(30) DEF ReleaseResume
<1>2. /\ UNCHANGED <<events, lost, view>> /\ conns[t].at \in {"claimed", "release"}
      /\ resume' = [resume EXCEPT ![conns[t].handle] = FALSE]
  BY DEF ReleaseResume
<1>3. DOMAIN resume' = DOMAIN resume /\ 0 \notin DOMAIN resume
  BY <1>2, MentionsTyped, Zenon
<1>4. /\ Threads' = Threads /\ conns'[t].at = place /\ conns'[t].handle = conns[t].handle
      /\ \A u \in Threads : u # t => conns'[u] = conns[u]
  BY <1>1, Moved, ZenonT(30) DEF HostInv, Places
<1>5. \A h : InSession(h)' <=> InSession(h)
  BY <1>2, <1>4, SessionsKept DEF Greeted
<1> QED
  BY <1>2, <1>3, <1>5, SilentTold

LEMMA ThreadTold ==
    ASSUME HostInv, HostInv', BudgetInv, TellInv, NEW t \in Threads,
           PeerStep(t) \/ ThreadStep(t)
    PROVE  TellInv'
<1> USE DEF Places, Holding
<1>1. conns[t] \in Conn /\ conns[t].queued \in Nat /\ conns[t].handle \in Nat
  BY QueueTyped DEF HostInv, Conn
<1>2. Round \in {"remove", "serve"}
  BY ZenonT(30) DEF Round
<1>3. CASE Request(t) \/ Silent(t, "request", "finish")
  BY <1>3, MoveTold, Zenon DEF Request, Silent, Announce, Greeted
<1>4. CASE ClaimResume(t)
  BY <1>4, ClaimTold, ZenonT(30)
<1>5. CASE ReadNothing(t)
  BY <1>2, <1>5, MoveTold, Zenon DEF ReadNothing, Reading, Silent, Greeted
<1>6. CASE ReadPeer(t)
  <2>1. conns[t].at \in {"read", "serve"} /\ UNCHANGED <<resume, view>>
    BY <1>6, Zenon DEF ReadPeer, Reading
  <2>2. CASE Move(t, "remove") /\ UNCHANGED <<lost, events>>
    BY <2>1, <2>2, MoveTold, Zenon DEF Greeted
  <2>3. CASE Publish(Event("Message", conns[t].handle, 1), 0) /\ Move(t, Round)
    BY <1>2, <2>1, <2>3, OwnTold, Zenon DEF Greeted, Holds
  <2> QED BY <1>6, <2>2, <2>3, ZenonT(30) DEF ReadPeer
<1>7. CASE Greet(t)
  BY <1>2, <1>7, OwnTold, ZenonT(30) DEF Greet, Announce, Greeted, Holds
<1>8. CASE Announce(t, "farewell", Event("Disconnected", conns[t].handle, 0), "release")
  BY <1>8, OwnTold DEF Announce, Greeted, Holds
<1>9. CASE ReleaseResume(t, "claimed", "refused") \/ ReleaseResume(t, "release", "finish")
  BY <1>9, ReleaseTold
<1>10. CASE Announce(t, "refused", Rejected, "finish")
  BY <1>10, MoveTold, ZenonT(30) DEF Announce, Greeted
<1>11. CASE RemoveWriter(t)
  BY <1>11, MoveTold DEF RemoveWriter, Greeted
<1>12. CASE InsertWriter(t)
  <2> DEFINE c == [conns[t] EXCEPT !.at = "greet", !.receiving = TRUE]
  <2>1. c \in Conn /\ c.at = "greet"
    BY <1>1, Zenon DEF Conn
  <2>2. /\ conns' = [conns EXCEPT ![t] = c] /\ UNCHANGED <<resume, view, events, lost>>
        /\ conns[t].at = "claimed"
    BY <1>12, Zenon DEF InsertWriter
  <2> HIDE DEF c
  <2> QED BY <2>1, <2>2, QuietThreadTold, Zenon DEF Greeted
<1>13. CASE WriteOne(t)
  <2>1. PICK to \in {"serve", "read"} :
            conns' = [conns EXCEPT ![t].queued = @ - 1, ![t].at = to]
    BY <1>13, Zenon DEF WriteOne
  <2> DEFINE q == conns[t].queued - 1
             c == Requeue(conns[t], to, q)
  <2>2. to \in Places /\ q \in Nat
    BY <1>1, <1>13 DEF WriteOne
  <2>3. c \in Conn /\ c.at = to /\ c.handle = conns[t].handle
    BY <1>1, <2>2, Requeued, ZenonT(30)
  <2>4. /\ conns' = [conns EXCEPT ![t] = c] /\ UNCHANGED <<resume, view, events, lost>>
        /\ conns[t].at = "serve"
    BY <1>13, <2>1, Zenon DEF WriteOne, Requeue
  <2> HIDE DEF c
  <2> QED BY <2>3, <2>4, QuietThreadTold, Zenon DEF Greeted
<1>14. CASE DrainWriter(t)
  <2> DEFINE c == Requeue(conns[t], "farewell", 0)
  <2>1. "farewell" \in Places /\ 0 \in Nat
    OBVIOUS
  <2>2. c \in Conn /\ c.at = "farewell" /\ c.handle = conns[t].handle
    BY <1>1, <2>1, Requeued, ZenonT(30)
  <2>3. /\ conns' = [conns EXCEPT ![t] = c] /\ UNCHANGED <<resume, view, events, lost>>
        /\ conns[t].at = "drain"
    BY <1>14, Zenon DEF DrainWriter, Requeue
  <2> HIDE DEF c
  <2> QED BY <2>2, <2>3, QuietThreadTold, Zenon DEF Greeted
<1>15. CASE Finish(t)
  <2> DEFINE c == [NewConnection EXCEPT !.at = "done", !.queued = conns[t].queued]
  <2>1. c \in Conn /\ c.at = "done"
    BY <1>1, Zenon DEF Conn, NewConnection
  <2>2. /\ conns' = [conns EXCEPT ![t] = c] /\ UNCHANGED <<resume, view, events, lost>>
        /\ conns[t].at = "finish"
    BY <1>15 DEF Finish
  <2> HIDE DEF c
  <2> QED BY <2>1, <2>2, QuietThreadTold, Zenon DEF Greeted
<1> QED
  BY ZenonT(30), <1>3, <1>4, <1>5, <1>6, <1>7, <1>8, <1>9, <1>10, <1>11, <1>12, <1>13, <1>14, <1>15
     DEF PeerStep, ThreadStep, HandshakeFails, Depart

LEMMA TellSteps ==
    ASSUME HostInv, BudgetInv, TellInv, [HostNext]_hostVars
    PROVE  TellInv'
<1>1. HostInv'
  BY HostSteps
<1>2. CASE AppStep \/ Joined \/ ListenerStep \/ Accept \/ AcceptFails \/ Over
              \/ UNCHANGED hostVars
  BY <1>2, ListenerTold DEF Over
<1>3. ASSUME NEW t \in Threads, PeerStep(t) \/ ThreadStep(t) PROVE TellInv'
  BY <1>1, <1>3, ThreadTold
<1> QED
  BY <1>2, <1>3 DEF HostNext

\* As long as nothing overflowed, poll reports every handle's connections one
\* after the other, over any number of resumptions by different threads:
\* websocket_loop publishes Disconnected before release_resume.
THEOREM SessionsDoAlternate == HostSpec => []SessionsAlternate
<1>1. HostInit => HostInv /\ BudgetInv /\ TellInv
  <2>1. HostInit => TellInv
    BY DEF HostInit, TellInv, Told, LatestSaid, Alternates
  <2> QED
    BY <2>1, HostStarts, BudgetStarts
<1>2. HostInv /\ BudgetInv /\ TellInv /\ [HostNext]_hostVars
        => (HostInv /\ BudgetInv /\ TellInv)'
  BY HostSteps, BudgetSteps, TellSteps
<1>3. TellInv => SessionsAlternate
  BY DEF TellInv, Alternates, SessionsAlternate
<1> QED
  BY <1>1, <1>2, <1>3, PTL DEF HostSpec

-----------------------------------------------------------------------------
(* The count of connections, and what stop() leaves behind.                   *)

Live == {t \in Threads : conns[t].at # "done"}

\* max_connections is a bound on threads, not only on a counter: `active` is
\* the number of connection threads that have not run finish(), whichever way
\* they leave, and never exceeds the limit.
ConnectionsCounted ==
    /\ active = Cardinality(Live)
    /\ active <= MaxConnections

\* When stop() has joined the listener, no connection thread is left, no
\* connection is counted, no writer is in the table and every credential can be
\* resumed, though accept may have failed or connections kept arriving.
StoppedIsQuiet ==
    app = "stopped" =>
        /\ listener.at = "done" /\ Live = {} /\ active = 0
        /\ DOMAIN writers = {}
        /\ \A h \in DOMAIN resume : ~resume[h]

QuietInv ==
    /\ listener.at = "done" => Live = {}
    /\ app = "stopped" => listener.at = "done"

CountInv == IsFiniteSet(Live) /\ ConnectionsCounted /\ QuietInv

LEMMA NatLess ==
    ASSUME NEW n \in Nat, NEW m \in Nat, n < m
    PROVE  n + 1 <= m /\ n + 1 \in Nat
OBVIOUS

LEMMA NatDown ==
    ASSUME NEW n \in Nat, NEW m \in Nat, n <= m
    PROVE  n - 1 <= m
OBVIOUS

\* A step after which the same threads are alive.
LEMMA SameLive ==
    ASSUME CountInv, Live' = Live, active' = active,
           listener'.at = "done" => listener.at = "done" \/ Live = {},
           app' = "stopped" => listener'.at = "done"
    PROVE  CountInv'
<1>1. IsFiniteSet(Live)' /\ ConnectionsCounted'
  BY Zenon DEF CountInv, ConnectionsCounted
<1>2. QuietInv'
  BY Zenon DEF CountInv, QuietInv
<1> QED
  BY <1>1, <1>2, Zenon DEF CountInv

LEMMA SameThreads ==
    ASSUME UNCHANGED conns
    PROVE  Live' = Live
BY Zenon DEF Live, Threads

\* One thread goes on, and stays alive.
LEMMA OneMoves ==
    ASSUME HostInv, NEW t \in Threads, NEW c \in Conn,
           conns' = [conns EXCEPT ![t] = c],
           c.at # "done", conns[t].at # "done"
    PROVE  Live' = Live
<1>1. /\ Threads' = Threads /\ conns'[t] = c
      /\ \A u \in Threads : u # t => conns'[u] = conns[u]
  BY Replaced, Zenon DEF HostInv
<1> QED
  BY <1>1, Zenon DEF Live

LEMMA OnePlace ==
    ASSUME HostInv, NEW t \in Threads, NEW place \in Places, Move(t, place),
           place # "done", conns[t].at # "done"
    PROVE  Live' = Live
<1>1. /\ Threads' = Threads /\ conns'[t].at = place
      /\ \A u \in Threads : u # t => conns'[u] = conns[u]
  BY Moved, Zenon DEF HostInv
<1> QED
  BY <1>1, Zenon DEF Live

\* finish() counts down the thread that ends, and no other.
LEMMA FinishCounts ==
    ASSUME HostInv, CountInv, NEW t \in Threads, Finish(t)
    PROVE  CountInv'
<1> DEFINE c == [NewConnection EXCEPT !.at = "done", !.queued = conns[t].queued]
<1>1. conns[t] \in Conn
  BY DEF HostInv, TablesTyped, Threads
<1>2. c \in Conn /\ c.at = "done"
  BY <1>1, Zenon DEF Conn, NewConnection, Places, Holding
<1>3. /\ conns' = [conns EXCEPT ![t] = c] /\ conns[t].at = "finish"
      /\ active' = active - 1 /\ UNCHANGED <<listener, app>>
  BY Zenon DEF Finish
<1> HIDE DEF c
<1>4. /\ Threads' = Threads /\ conns'[t] = c
      /\ \A u \in Threads : u # t => conns'[u] = conns[u]
  BY <1>2, <1>3, Replaced, Zenon DEF HostInv
<1>5. Live' = Live \ {t} /\ t \in Live
  BY <1>2, <1>3, <1>4 DEF Live
<1>6. IsFiniteSet(Live) /\ active = Cardinality(Live) /\ active <= MaxConnections
  BY Zenon DEF CountInv, ConnectionsCounted
<1>7. IsFiniteSet(Live \ {t}) /\ Cardinality(Live \ {t}) = Cardinality(Live) - 1
  BY <1>5, <1>6, FS_RemoveElement, Zenon
<1>8. active \in Nat /\ MaxConnections \in Nat
  BY <1>6, FS_CardinalityType, HostBounds, Zenon
<1>9. active' <= MaxConnections
  BY <1>3, <1>6, <1>8, NatDown, Zenon
<1>10. ConnectionsCounted' /\ IsFiniteSet(Live)'
  BY <1>3, <1>5, <1>6, <1>7, <1>9, Zenon DEF ConnectionsCounted
<1>11. QuietInv'
  BY <1>3, <1>5, Zenon DEF CountInv, QuietInv
<1> QED
  BY <1>10, <1>11, Zenon DEF CountInv

\* listener_loop counts the connection before it starts the thread, and only
\* while there is room for it.
LEMMA AcceptCounts ==
    ASSUME HostInv, CountInv, Accept
    PROVE  CountInv'
<1>1. listener.at # "done" /\ UNCHANGED app /\ listener'.at # "done"
  <2>1. listener.at # "done" /\ UNCHANGED app
    BY DEF Accept, Accepting
  <2>2. \E place \in {"join", "command"} : ListenAt(place)
    BY Zenon DEF Accept, CheckStopped
  <2> QED
    BY <2>1, <2>2 DEF ListenAt, Listening
<1>2. CASE UNCHANGED <<active, conns>>
  BY <1>1, <1>2, SameThreads, SameLive, Zenon DEF CountInv, QuietInv
<1>3. CASE /\ active < MaxConnections /\ active' = active + 1
           /\ conns' = Append(conns, NewConnection)
  <2>1. NewConnection \in Conn /\ NewConnection.at = "request"
    BY DEF NewConnection, Conn, Places
  <2>2. PICK n \in Nat : n = Len(conns) + 1
    BY DEF HostInv, TablesTyped
  <2>3. /\ Threads' = Threads \union {n} /\ n \notin Threads
        /\ conns'[n] = NewConnection
        /\ \A u \in Threads : conns'[u] = conns[u]
    BY <1>3, <2>1, <2>2 DEF HostInv, TablesTyped, Threads
  <2>4. Live' = Live \union {n} /\ n \notin Live
    BY <2>1, <2>3 DEF Live
  <2>5. IsFiniteSet(Live) /\ active = Cardinality(Live)
    BY Zenon DEF CountInv, ConnectionsCounted
  <2>6. IsFiniteSet(Live \union {n}) /\ Cardinality(Live \union {n}) = Cardinality(Live) + 1
    BY <2>4, <2>5, FS_AddElement, Zenon
  <2>7. active \in Nat /\ MaxConnections \in Nat
    BY <2>5, FS_CardinalityType, HostBounds, Zenon
  <2>8. active' <= MaxConnections
    BY <1>3, <2>7, NatLess, Zenon
  <2>9. ConnectionsCounted' /\ IsFiniteSet(Live)'
    BY <1>3, <2>4, <2>5, <2>6, <2>8, Zenon DEF ConnectionsCounted
  <2>10. QuietInv'
    BY <1>1, Zenon DEF CountInv, QuietInv
  <2> QED
    BY <2>9, <2>10, Zenon DEF CountInv
<1> QED
  BY <1>2, <1>3, Zenon DEF Accept

\* The application and the listener start and end no thread; the listener is
\* done only when every thread is.
LEMMA ListenerCounts ==
    ASSUME HostInv, CountInv,
           AppStep \/ Joined \/ ListenerStep \/ AcceptFails \/ Over \/ UNCHANGED hostVars
    PROVE  CountInv'
<1>1. CASE UNCHANGED <<conns, active, listener, app>>
  BY <1>1, SameThreads, SameLive, Zenon DEF CountInv, QuietInv
<1>2. CASE Stop
  <2>1. UNCHANGED <<conns, active, listener>> /\ app' = "joining"
    BY <1>2, Zenon DEF Stop
  <2>2. app' # "stopped"
    BY <2>1
  <2> QED
    BY <2>1, <2>2, SameThreads, SameLive, Zenon
<1>3. CASE Joined
  BY <1>3, SameThreads, SameLive, Zenon DEF Joined
<1>4. CASE JoinWorkers
  <2>1. UNCHANGED <<conns, active, app>> /\ listener.at = "join"
    BY <1>4, Zenon DEF JoinWorkers
  <2>2. Live = {}
    BY <1>4, Zenon DEF JoinWorkers, Live
  <2>3. listener'.at = "done"
    BY <1>4 DEF JoinWorkers, ListenAt, Listening
  <2> QED
    BY <2>1, <2>2, <2>3, SameThreads, SameLive, Zenon
<1>5. CASE TakeCommand \/ HandOver \/ AcceptNobody \/ AcceptFails
  <2>1. listener.at # "done"
    BY <1>5 DEF TakeCommand, HandOver, AcceptNobody, AcceptFails, Accepting
  <2>2. UNCHANGED <<active, app>>
    BY <1>5, Zenon DEF TakeCommand, HandOver, AcceptNobody, AcceptFails
  <2>3. listener'.at # "done"
    <3>1. ASSUME NEW place \in {"join", "command", "accept"}, ListenAt(place)
          PROVE  listener'.at # "done"
      BY <3>1 DEF ListenAt, Listening
    <3>2. ASSUME NEW t, listener' = [at |-> "hand_over", target |-> t]
          PROVE  listener'.at # "done"
      BY <3>2
    <3> QED
      BY <1>5, <3>1, <3>2, Zenon DEF TakeCommand, HandOver, AcceptNobody, AcceptFails,
         CheckStopped
  <2>4. Live' = Live
    <3>1. CASE UNCHANGED conns
      BY <3>1, SameThreads, Zenon
    <3>2. CASE conns' = [conns EXCEPT ![listener.target].queued = @ + 1]
      <4>1. CASE listener.target \notin Threads
        <5>1. conns' = conns
          BY <3>2, <4>1 DEF HostInv, TablesTyped, Threads
        <5> QED BY <5>1, SameThreads, Zenon
      <4>2. CASE listener.target \in Threads
        <5> DEFINE u == listener.target
                   c == [conns[u] EXCEPT !.queued = @ + 1]
        <5>1. u \in Threads /\ conns[u] \in Conn
          BY <4>2 DEF HostInv, TablesTyped, Threads
        <5>2. c \in Conn /\ c.at = conns[u].at
          BY <5>1 DEF Conn
        <5>3. conns' = [conns EXCEPT ![u] = c]
          BY <3>2, Zenon
        <5> HIDE DEF c
        <5>4. /\ Threads' = Threads /\ conns'[u] = c
              /\ \A v \in Threads : v # u => conns'[v] = conns[v]
          BY <5>1, <5>2, <5>3, Replaced, Zenon DEF HostInv
        <5>5. \A v \in Threads : conns'[v].at = conns[v].at
          BY <5>2, <5>4, Zenon
        <5> QED BY <5>4, <5>5, Zenon DEF Live
      <4> QED BY <4>1, <4>2, Zenon
    <3> QED
      BY <1>5, <3>1, <3>2, Zenon DEF TakeCommand, HandOver, AcceptNobody, AcceptFails
  <2>5. app # "stopped"
    BY <2>1, Zenon DEF CountInv, QuietInv
  <2> QED
    BY <2>2, <2>3, <2>4, <2>5, SameLive, Zenon
<1> QED
  BY <1>1, <1>2, <1>3, <1>4, <1>5, Zenon
     DEF AppStep, Poll, Send, ListenerStep, Over, hostVars

\* Between accept and finish() a thread stays alive.
LEMMA ThreadCounts ==
    ASSUME HostInv, CountInv, NEW t \in Threads, PeerStep(t) \/ ThreadStep(t)
    PROVE  CountInv'
<1> USE DEF Places, Holding
<1>1. conns[t] \in Conn /\ conns[t].queued \in Nat /\ conns[t].handle \in Nat
  BY QueueTyped, Zenon DEF HostInv, Conn
<1>2. Round \in {"remove", "serve"}
  BY ZenonT(30) DEF Round
<1>3. ASSUME Live' = Live, UNCHANGED <<active, listener, app>>
      PROVE  CountInv'
  BY <1>3, SameLive, Zenon DEF CountInv, QuietInv
<1>4. ASSUME NEW from \in Places, NEW place \in Places, Move(t, place),
             conns[t].at = from, from # "done", place # "done",
             UNCHANGED <<active, listener, app>>
      PROVE  CountInv'
  BY <1>3, <1>4, OnePlace, Zenon
<1>5. ASSUME NEW c \in Conn, conns' = [conns EXCEPT ![t] = c],
             c.at # "done", conns[t].at # "done",
             UNCHANGED <<active, listener, app>>
      PROVE  CountInv'
  BY <1>3, <1>5, OneMoves, Zenon
<1>6. CASE Request(t) \/ Silent(t, "request", "finish")
  BY <1>4, <1>6, ZenonT(30) DEF Request, Silent, Announce
<1>7. CASE ClaimResume(t)
  <2>1. conns[t].at = "request" /\ UNCHANGED <<active, listener, app>>
    BY <1>7, Zenon DEF ClaimResume
  <2>2. CASE Move(t, "finish")
    BY <1>4, <2>1, <2>2, ZenonT(30)
  <2>3. ASSUME NEW handle \in 1 .. Len(resume) + 1,
               conns' = [conns EXCEPT ![t].at = "claimed", ![t].handle = handle]
        PROVE  CountInv'
    <3> DEFINE c == [conns[t] EXCEPT !.at = "claimed", !.handle = handle]
    <3>1. handle \in Nat
      BY <2>3
    <3>2. c \in Conn /\ c.at = "claimed"
      BY <1>1, <3>1, Zenon DEF Conn
    <3>3. conns' = [conns EXCEPT ![t] = c]
      BY <2>3, Zenon
    <3> HIDE DEF c
    <3> QED BY <1>5, <2>1, <3>2, <3>3, ZenonT(30)
  <2> QED
    BY <1>7, <2>2, <2>3, Zenon DEF ClaimResume
<1>8. CASE ReadNothing(t)
  BY <1>2, <1>4, <1>8, ZenonT(30) DEF ReadNothing, Reading, Silent
<1>9. CASE ReadPeer(t)
  <2>1. conns[t].at \in {"read", "serve"} /\ UNCHANGED <<active, listener, app>>
    BY <1>9, Zenon DEF ReadPeer, Reading
  <2>2. Move(t, Round) \/ Move(t, "remove")
    BY <1>9, Zenon DEF ReadPeer
  <2> QED BY <1>2, <1>4, <2>1, <2>2, ZenonT(30)
<1>10. CASE Greet(t)
  BY <1>2, <1>4, <1>10, ZenonT(30) DEF Greet, Announce
<1>11. CASE \/ Announce(t, "farewell", Event("Disconnected", conns[t].handle, 0), "release")
            \/ Announce(t, "refused", Rejected, "finish")
  BY <1>4, <1>11, ZenonT(30) DEF Announce
<1>12. CASE ReleaseResume(t, "claimed", "refused") \/ ReleaseResume(t, "release", "finish")
  BY <1>4, <1>12, ZenonT(30) DEF ReleaseResume
<1>13. CASE RemoveWriter(t)
  BY <1>4, <1>13, ZenonT(30) DEF RemoveWriter
<1>14. CASE InsertWriter(t)
  <2> DEFINE c == [conns[t] EXCEPT !.at = "greet", !.receiving = TRUE]
  <2>1. c \in Conn /\ c.at = "greet"
    BY <1>1, Zenon DEF Conn
  <2>2. /\ conns' = [conns EXCEPT ![t] = c] /\ conns[t].at = "claimed"
        /\ UNCHANGED <<active, listener, app>>
    BY <1>14, Zenon DEF InsertWriter
  <2> HIDE DEF c
  <2> QED BY <1>5, <2>1, <2>2, ZenonT(30)
<1>15. CASE WriteOne(t)
  <2>1. PICK to \in {"serve", "read"} :
            conns' = [conns EXCEPT ![t].queued = @ - 1, ![t].at = to]
    BY <1>15, Zenon DEF WriteOne
  <2> DEFINE q == conns[t].queued - 1
             c == Requeue(conns[t], to, q)
  <2>2. to \in Places /\ q \in Nat
    BY <1>1, <1>15 DEF WriteOne
  <2>3. c \in Conn /\ c.at = to
    BY <1>1, <2>2, Requeued, ZenonT(30)
  <2>4. /\ conns' = [conns EXCEPT ![t] = c] /\ conns[t].at = "serve"
        /\ UNCHANGED <<active, listener, app>>
    BY <1>15, <2>1, Zenon DEF WriteOne, Requeue
  <2> HIDE DEF c
  <2> QED BY <1>5, <2>3, <2>4, ZenonT(30)
<1>16. CASE DrainWriter(t)
  <2> DEFINE c == Requeue(conns[t], "farewell", 0)
  <2>1. "farewell" \in Places /\ 0 \in Nat
    OBVIOUS
  <2>2. c \in Conn /\ c.at = "farewell"
    BY <1>1, <2>1, Requeued, Zenon
  <2>3. /\ conns' = [conns EXCEPT ![t] = c] /\ conns[t].at = "drain"
        /\ UNCHANGED <<active, listener, app>>
    BY <1>16, Zenon DEF DrainWriter, Requeue
  <2> HIDE DEF c
  <2> QED BY <1>5, <2>2, <2>3, ZenonT(30)
<1>17. CASE Finish(t)
  BY <1>17, FinishCounts, Zenon
<1> QED
  BY ZenonT(30), <1>6, <1>7, <1>8, <1>9, <1>10, <1>11, <1>12, <1>13, <1>14, <1>15, <1>16,
     <1>17 DEF PeerStep, ThreadStep, HandshakeFails, Depart

LEMMA CountAlways == HostSpec => [](HostInv /\ CountInv)
<1>1. HostInit => HostInv /\ CountInv
  <2> SUFFICES ASSUME HostInit PROVE CountInv
    BY HostStarts, Zenon
  <2>1. Live = {} /\ active = 0 /\ app # "stopped"
    BY DEF HostInit, Live, Threads
  <2>2. IsFiniteSet({}) /\ Cardinality({}) = 0
    BY FS_EmptySet, Zenon
  <2>3. 0 <= MaxConnections
    BY HostBounds
  <2> QED
    BY <2>1, <2>2, <2>3, Zenon DEF CountInv, ConnectionsCounted, QuietInv
<1>2. HostInv /\ CountInv /\ [HostNext]_hostVars => (HostInv /\ CountInv)'
  <2> SUFFICES ASSUME HostInv, CountInv, [HostNext]_hostVars PROVE CountInv'
    BY HostSteps, Zenon
  <2>1. ASSUME NEW t \in Threads, PeerStep(t) \/ ThreadStep(t) PROVE CountInv'
    BY <2>1, ThreadCounts, Zenon
  <2> QED
    BY <2>1, AcceptCounts, ListenerCounts, Zenon DEF HostNext
<1> QED
  BY <1>1, <1>2, PTL DEF HostSpec

\* `active` counts the connection threads exactly, on every path through the
\* handshake and the session, and stays within max_connections.
THEOREM LimitIsOnThreads == HostSpec => []ConnectionsCounted
<1>1. HostInv /\ CountInv => ConnectionsCounted
  BY Zenon DEF CountInv
<1> QED
  BY <1>1, CountAlways, PTL

\* stop() returns to a host with no thread, no count, no writer and no claim.
THEOREM StopLeavesNothing == HostSpec => []StoppedIsQuiet
<1>1. ASSUME HostInv, CountInv PROVE StoppedIsQuiet
  <2> SUFFICES ASSUME app = "stopped"
               PROVE  /\ listener.at = "done" /\ Live = {} /\ active = 0
                      /\ DOMAIN writers = {}
                      /\ \A h \in DOMAIN resume : ~resume[h]
    BY Zenon DEF StoppedIsQuiet
  <2>1. listener.at = "done" /\ Live = {} /\ active = 0
    BY <1>1, FS_EmptySet, Zenon DEF CountInv, QuietInv, ConnectionsCounted
  <2>2. \A t \in Threads : conns[t].at = "done"
    BY <2>1, Zenon DEF Live
  <2>3. \A t \in Threads : ~Holds(t) /\ ~Lists(t)
    BY <2>2 DEF Holds, Lists, Holding, Listed
  <2>4. \A h \in DOMAIN resume : ~resume[h]
    BY <1>1, <2>3, Zenon DEF HostInv, ClaimsExclusive
  <2>5. DOMAIN writers = {}
    BY <1>1, <2>3, Zenon DEF HostInv, WritersServed
  <2> QED
    BY <2>1, <2>4, <2>5, Zenon
<1> QED
  BY <1>1, CountAlways, PTL
=============================================================================
