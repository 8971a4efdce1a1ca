----------------------------- MODULE PlayProofs -----------------------------
(***************************************************************************)
(* What TLAPS proves of `stasis play` with a live workspace, for any files, *)
(* contents and edits, any number of requests and of saves of an editor,    *)
(* and queues of any size.                                                  *)
(*                                                                         *)
(* A live edit goes through three hands: the backlog, the preparation, and  *)
(* the commit whose sources are written and whose code is not active yet.   *)
(* The invariants follow it: what its plan found and what it writes (Types, *)
(* Plans), where its request id may still be (Ids), what the history says   *)
(* of the disk (History), and which change of a file nobody has compiled    *)
(* yet (Watch).  A request is somewhere in hand until it has its last       *)
(* response, and nowhere after it.                                          *)
(***************************************************************************)
EXTENDS PlaySession, WellFoundedInduction, TLAPS

(***************************************************************************)
(* Types, and what a prepared edit is.                                     *)
(***************************************************************************)

Actions == {"new", "preview", "pending", "undo", "redo"}

InputTyped(input) ==
    /\ input.restore \in BOOLEAN /\ input.action \in Actions
    /\ \A sources \in Sources : PlanOf(input, sources) \in Plans

\* A result of prepare_edit: its plan fits the sources it was made for, and its
\* candidate is what the plan makes of them.
PreparedTyped(edit) ==
    /\ edit.plan \in Plans /\ edit.restore \in BOOLEAN /\ edit.action \in Actions
    /\ edit.inputs \in Sources
    /\ PlanFits(edit.plan, edit.restore, edit.inputs)
    /\ edit.candidate = ApplyPlan(edit.plan, edit.restore, edit.inputs)

HasResult == preparation # None /\ preparation.result # None /\ preparation.result.ok

JobTyped ==
    watchJob # None =>
        /\ DOMAIN watchJob = {"revision", "sources", "unread", "result"}
        /\ watchJob.revision \in Nat /\ watchJob.sources \in Sources
        /\ watchJob.unread \subseteq Files

SourcesTyped ==
    /\ disk \in Sources /\ running \in Sources /\ events \subseteq Files
    /\ selfWriteHashes \in [Files -> Contents \union {None}]
    /\ writes \in Nat /\ requestedRevision \in Nat /\ finishedRevision \in Nat
    /\ JobTyped

QueuesTyped ==
    /\ sent \in Nat
    /\ inbox \in Seq(Requests)
    /\ pendingRequests \in Seq(Requests) /\ Len(pendingRequests) <= MaxPending
    /\ \A r \in Range(pendingRequests) : ~IsControl(r)

PlansTyped ==
    /\ pendingPlan # None => pendingPlan.plan \in Plans
    /\ history \in Seq(Plans) /\ historyCursor \in 0 .. Len(history)

HandsTyped ==
    /\ preparation # None =>
          /\ DOMAIN preparation = {"id", "canceled", "active", "input", "result"}
          /\ InputTyped(preparation.input)
    /\ HasResult => PreparedTyped(preparation.result)
    /\ pc = "activate" => /\ PreparedTyped(commit.edit) /\ commit.edit.action # "preview"
                          /\ preparation = None
    /\ pc # "activate" => commit = None

\* What an undo and a redo are about.
ActionTied(action, restore, plan) ==
    /\ action \in {"new", "pending", "redo"} => ~restore
    /\ action = "undo" => restore /\ historyCursor > 0 /\ plan = history[historyCursor]
    /\ action = "redo" => historyCursor < Len(history) /\ plan = history[historyCursor + 1]

Tied ==
    /\ preparation # None =>
          \A sources \in Sources :
              ActionTied(preparation.input.action, preparation.input.restore,
                         PlanOf(preparation.input, sources))
    /\ HasResult =>
          ActionTied(preparation.result.action, preparation.result.restore, preparation.result.plan)
    /\ pc = "activate" => ActionTied(commit.edit.action, commit.edit.restore, commit.edit.plan)

Typed == SourcesTyped /\ QueuesTyped /\ PlansTyped /\ HandsTyped /\ Tied

\* While a prepared edit is being activated, its candidate is on disk, except
\* where a save came after the write.
ActivatesDisk ==
    pc = "activate" => \A f \in Files : commit.edit.candidate[f] = disk[f] \/ f \in events

(***************************************************************************)
(* The ids of requests.                                                    *)
(***************************************************************************)

Rising(queue) == \A i, j \in DOMAIN queue : i < j => queue[i].id < queue[j].id

Waiting == Range(inbox) \union Range(pendingRequests)

\* The request has been taken out of the queues.
Spent(id) == id \in Nat /\ id <= sent /\ \A r \in Waiting : r.id # id

IdsRise ==
    /\ Rising(inbox) /\ Rising(pendingRequests)
    /\ \A r \in Range(pendingRequests), q \in Range(inbox) : r.id < q.id
    /\ \A r \in Waiting : r.id <= sent

NotApplied(id) == \A r \in Said : r.kind = "applied" => r.id # id

\* An id is with the preparation or the commit only before it is applied.
IdsHeld ==
    /\ preparation # None => Spent(preparation.id) /\ NotApplied(preparation.id)
    /\ pc = "activate" => Spent(commit.id) /\ NotApplied(commit.id)
    /\ \A r \in Said : r.kind = "applied" => Spent(r.id)

\* An edit that was canceled in the background is neither in a queue nor in a
\* commit, and its preparation has the flag.
Acknowledged ==
    \A ack \in Said :
        ack.kind = "canceling" /\ ack.background =>
            /\ Spent(ack.target) /\ NotApplied(ack.target)
            /\ preparation # None /\ preparation.id = ack.target => preparation.canceled
            /\ pc = "activate" => commit.id # ack.target

Responses ==
    UNION {{Failure(id) : id \in Ids},
           {Success(id, kind) : id \in Ids,
                                kind \in {"quitting", "previewed", "applied", "preparing"}},
           {CancelAck(id, target, background) :
                id \in Ids, target \in Ids, background \in BOOLEAN}}

RepliesTyped ==
    /\ mailbox \in Seq(Responses) /\ Len(mailbox) <= Capacity
    /\ pendingResponses \in Seq(Responses)
    /\ controls \in Seq(Responses)
    /\ preparation # None => preparation.id \in Ids
    /\ pc = "activate" => commit.id \in Ids

IdsInv == RepliesTyped /\ IdsRise /\ IdsHeld /\ Acknowledged

(***************************************************************************)
(* The history.                                                            *)
(***************************************************************************)

\* Every plan of the history fits the sources the plans before it leave.
HistoryFits ==
    \A n \in 1 .. Len(history) : PlanFits(history[n], FALSE, Replay(history)[n - 1])

\* The remembered hashes of the reported files are those of the sources.
Matching(reported, hashes, sources) == \A f \in reported : hashes[f] = sources[f]

\* Until an editor writes, the watcher reports only the workspace's own writes.
Undisturbed ==
    /\ HistoryFits
    /\ Matching(events, selfWriteHashes, disk)
    /\ requestedRevision = 0 /\ finishedRevision = 0 /\ watchJob = None
    /\ running = Replayed
    /\ pc # "activate" => disk = Replayed
    /\ pc = "activate" => commit.edit.inputs = Replayed /\ disk = commit.edit.candidate

HistoryInv ==
    /\ Range(history) \subseteq receipts
    /\ writes = 0 => Undisturbed

(***************************************************************************)
(* The watch compile.                                                      *)
(***************************************************************************)

\* A file that is not as in these sources has a change to be reported, or was
\* last written by the workspace.
Known(f, sources) ==
    sources[f] = disk[f] \/ f \in events \/ selfWriteHashes[f] # None

\* The program the last finished compile took, published or refused.
Compiled(sources) ==
    /\ running = sources \/ ~Compiles(sources) \/ ~HookAccepts(sources)
    /\ \A f \in Files : Known(f, sources)

Revisions ==
    /\ finishedRevision <= requestedRevision
    /\ watchJob # None =>
          /\ finishedRevision < watchJob.revision /\ watchJob.revision <= requestedRevision
          /\ watchJob.result # None =>
                /\ watchJob.unread = {}
                /\ watchJob.result = "error" => ~Compiles(watchJob.sources)

\* Until the first live commit: what is not compiled yet is known, to the
\* watcher, to the loop, or to the job that has not read it.
Covered ==
    history = <<>> =>
        /\ watchJob = None => \/ requestedRevision > finishedRevision
                              \/ \E sources \in Sources : Compiled(sources)
        /\ watchJob # None => \/ watchJob.revision < requestedRevision
                              \/ \A f \in Files \ watchJob.unread : Known(f, watchJob.sources)

WatchInv == Revisions /\ Covered
-----------------------------------------------------------------------------
(* Induction, and functions defined by recursion on a queue. *)

\* Every non-empty set of naturals has a least member.
LEMMA LeastNatural ==
    ASSUME NEW T \in SUBSET Nat, T # {}
    PROVE  \E m \in T : \A n \in T : m <= n
<1> DEFINE R == OpToRel(<, Nat)
<1>1. \A m, n \in Nat : m < n => <<m, n>> \in R
  BY DEF OpToRel
<1>2. IsWellFoundedOn(R, Nat)
  BY NatLessThanWellFounded, Zenon
<1> HIDE DEF R
<1>3. PICK m \in T : \A n \in T : ~ (<<n, m>> \in R)
  BY <1>2, WFMin, Zenon
<1>4. \A n \in T : ~ (n < m)
  BY <1>1, <1>3, Zenon
<1> QED
  BY <1>4

\* Induction up to N, with the hypothesis as a set.
LEMMA Induction ==
    ASSUME NEW N \in Nat, NEW T, 0 \in T,
           \A n \in 0 .. N : n < N /\ n \in T => n + 1 \in T
    PROVE  \A n \in 0 .. N : n \in T
<1> DEFINE Bad == {n \in 0 .. N : n \notin T}
<1>1. SUFFICES ASSUME Bad # {} PROVE FALSE
  OBVIOUS
<1>2. Bad \in SUBSET Nat
  OBVIOUS
<1>3. PICK m \in Bad : \A n \in Bad : m <= n
  <2> HIDE DEF Bad
  <2> QED
    BY <1>1, <1>2, LeastNatural, Zenon
<1>4. m \in 1 .. N /\ m - 1 \in 0 .. N /\ m - 1 < N /\ m \notin T
  OBVIOUS
<1>5. m - 1 \in T
  BY <1>3, <1>4
<1>6. (m - 1) + 1 \in T
  BY <1>4, <1>5
<1> QED
  BY <1>4, <1>6

\* A step function can be iterated.
Steps(N, X) == [(1 .. N) \X X -> X]
Iterates(t, N, x0, step) ==
    t[0] = x0 /\ \A n \in 1 .. N : t[n] = step[<<n, t[n - 1]>>]

LEMMA Iterate ==
    ASSUME NEW N \in Nat, NEW X, NEW x0 \in X, NEW step \in Steps(N, X)
    PROVE  \E t \in [0 .. N -> X] : Iterates(t, N, x0, step)
<1> USE DEF Steps, Iterates
<1> DEFINE Upto(k) == \E t \in [0 .. k -> X] :
                          t[0] = x0 /\ \A n \in 1 .. k : t[n] = step[<<n, t[n - 1]>>]
           T == {k \in 0 .. N : Upto(k)}
<1>1. 0 \in T
  <2> DEFINE t == [i \in 0 .. 0 |-> x0]
  <2>1. t \in [0 .. 0 -> X] /\ t[0] = x0 /\ 1 .. 0 = {}
    OBVIOUS
  <2>2. Upto(0)
    <3> HIDE DEF t
    <3> QED
      BY <2>1
  <2> QED
    BY <2>2
<1>2. ASSUME NEW k \in 0 .. N, k < N, k \in T PROVE k + 1 \in T
  <2>1. PICK t \in [0 .. k -> X] :
               t[0] = x0 /\ \A n \in 1 .. k : t[n] = step[<<n, t[n - 1]>>]
    BY <1>2
  <2> DEFINE u == [i \in 0 .. k + 1 |-> IF i = k + 1 THEN step[<<k + 1, t[k]>>] ELSE t[i]]
  <2>2. k \in Nat /\ k + 1 \in 1 .. N /\ k \in 0 .. k
    BY <1>2
  <2>3. step[<<k + 1, t[k]>>] \in X
    BY <2>1, <2>2
  <2>4. u \in [0 .. k + 1 -> X]
    BY <2>1, <2>2, <2>3
  <2>5. u[0] = x0 /\ u[k + 1] = step[<<k + 1, u[k]>>]
    <3>1. 0 \in 0 .. k + 1 /\ k \in 0 .. k + 1 /\ k + 1 \in 0 .. k + 1 /\ 0 # k + 1 /\ k # k + 1
      BY <2>2
    <3>2. u[0] = t[0] /\ u[k] = t[k] /\ u[k + 1] = step[<<k + 1, t[k]>>]
      BY <3>1, Zenon
    <3> QED
      BY <2>1, <3>2, Zenon
  <2>6. \A n \in 1 .. k : u[n] = step[<<n, u[n - 1]>>]
    <3> SUFFICES ASSUME NEW n \in 1 .. k PROVE u[n] = step[<<n, u[n - 1]>>]
      BY Zenon
    <3>1. u[n] = t[n] /\ u[n - 1] = t[n - 1]
      BY <2>2
    <3> QED
      BY <2>1, <3>1
  <2>7. (k + 1) - 1 = k /\ \A n \in 1 .. k + 1 : n = k + 1 \/ n \in 1 .. k
    BY <2>2
  <2> HIDE DEF u
  <2>8. Upto(k + 1)
    BY <2>4, <2>5, <2>6, <2>7, Zenon
  <2> QED
    BY <2>2, <2>8
<1>3. N \in T
  <2> HIDE DEF T
  <2> QED
    BY <1>1, <1>2, Induction
<1> QED
  BY <1>3

\* What the definition of Filtered chooses.
Takes(t, queue, S) ==
    t = [n \in 0 .. Len(queue) |->
            IF n = 0 THEN <<>>
            ELSE IF queue[n] \in S THEN Append(t[n - 1], queue[n]) ELSE t[n - 1]]

Unfolds(t, queue, S) ==
    /\ t[0] = <<>>
    /\ \A n \in 1 .. Len(queue) :
          t[n] = IF queue[n] \in S THEN Append(t[n - 1], queue[n]) ELSE t[n - 1]
    /\ Filtered(queue, S) = t[Len(queue)]

LEMMA FilteredUnfolds ==
    ASSUME NEW R, NEW queue \in Seq(R), NEW S
    PROVE  \E t \in [0 .. Len(queue) -> Seq(R)] : Unfolds(t, queue, S)
<1> DEFINE N == Len(queue)
           X == Seq(R)
           step == [p \in (1 .. N) \X X |->
                      IF queue[p[1]] \in S THEN Append(p[2], queue[p[1]]) ELSE p[2]]
<1>1. N \in Nat /\ <<>> \in X /\ \A n \in 1 .. N : queue[n] \in R
  OBVIOUS
<1>2. step \in [(1 .. N) \X X -> X]
  <2>1. \A p \in (1 .. N) \X X : p[1] \in 1 .. N /\ p[2] \in X
    OBVIOUS
  <2>2. \A q \in X, n \in 1 .. N : Append(q, queue[n]) \in X
    BY <1>1
  <2> HIDE DEF N, X
  <2> QED
    BY <2>1, <2>2
<1>3. PICK t \in [0 .. N -> X] :
            t[0] = <<>> /\ \A n \in 1 .. N : t[n] = step[<<n, t[n - 1]>>]
  <2>1. step \in Steps(N, X)
    BY <1>2 DEF Steps
  <2> HIDE DEF N, X, step
  <2>2. \E t \in [0 .. N -> X] : Iterates(t, N, <<>>, step)
    BY <1>1, <2>1, Iterate
  <2> QED
    BY <2>2, Zenon DEF Iterates
<1>4. \A n \in 1 .. N : t[n] = IF queue[n] \in S THEN Append(t[n - 1], queue[n]) ELSE t[n - 1]
  <2> SUFFICES ASSUME NEW n \in 1 .. N
               PROVE  t[n] = IF queue[n] \in S THEN Append(t[n - 1], queue[n]) ELSE t[n - 1]
    OBVIOUS
  <2>1. n - 1 \in 0 .. N /\ t[n - 1] \in X
    BY <1>1, <1>3
  <2>2. step[<<n, t[n - 1]>>] = IF queue[n] \in S THEN Append(t[n - 1], queue[n]) ELSE t[n - 1]
    <3> HIDE DEF X
    <3> QED
      BY <2>1
  <2> QED
    BY <1>3, <2>2, Zenon
<1>5. Takes(t, queue, S)
  <2>1. \A n \in 0 .. N : n = 0 \/ n \in 1 .. N
    BY <1>1
  <2> HIDE DEF X, step
  <2>2. t = [n \in 0 .. N |-> t[n]]
    OBVIOUS
  <2>3. \A n \in 0 .. N : t[n] = IF n = 0 THEN <<>>
              ELSE IF queue[n] \in S THEN Append(t[n - 1], queue[n]) ELSE t[n - 1]
    BY <1>3, <1>4, <2>1, Zenon
  <2> HIDE DEF N
  <2> QED
    BY <2>2, <2>3, ZenonT(30) DEF Takes, N
<1> DEFINE c == CHOOSE u : Takes(u, queue, S)
<1>6. Takes(c, queue, S)
  BY <1>5, Zenon
<1>7. Filtered(queue, S) = c[N]
  BY DEF Filtered, Takes
<1> HIDE DEF c
<1>8. /\ DOMAIN c = 0 .. N
      /\ \A n \in 0 .. N : c[n] = IF n = 0 THEN <<>>
              ELSE IF queue[n] \in S THEN Append(c[n - 1], queue[n]) ELSE c[n - 1]
      /\ c = [n \in 0 .. N |-> c[n]]
  BY <1>6, Zenon DEF Takes
<1>9. \A n \in 0 .. N : c[n] \in X
  <2> DEFINE T == {n \in 0 .. N : c[n] \in X}
  <2>1. 0 \in T
    <3>1. 0 \in 0 .. N
      BY <1>1
    <3>2. c[0] = <<>>
      BY <1>8, <3>1, Zenon
    <3> QED
      BY <1>1, <3>1, <3>2, Zenon
  <2>2. ASSUME NEW n \in 0 .. N, n < N, n \in T PROVE n + 1 \in T
    <3>1. n + 1 \in 1 .. N /\ n + 1 \in 0 .. N /\ n + 1 # 0 /\ (n + 1) - 1 = n
      BY <1>1, <2>2
    <3>2. c[n + 1] = IF queue[n + 1] \in S THEN Append(c[n], queue[n + 1]) ELSE c[n]
      BY <1>8, <3>1, Zenon
    <3>3. c[n] \in X /\ queue[n + 1] \in R
      BY <1>1, <2>2, <3>1
    <3>4. c[n + 1] \in X
      BY <3>2, <3>3
    <3> QED
      BY <3>1, <3>4
  <2>3. \A n \in 0 .. N : n \in T
    <3> HIDE DEF T
    <3> QED
      BY <1>1, <2>1, <2>2, Induction, Zenon
  <2> QED
    BY <2>3
<1>10. c \in [0 .. N -> X]
  <2> HIDE DEF X
  <2> QED
    BY <1>8, <1>9
<1>11. \A n \in 1 .. N : n \in 0 .. N /\ n # 0
  BY <1>1
<1>12. 0 \in 0 .. N
  BY <1>1
<1> HIDE DEF N, X, step
<1>13. c[0] = <<>> /\ \A n \in 1 .. N :
           c[n] = IF queue[n] \in S THEN Append(c[n - 1], queue[n]) ELSE c[n - 1]
  BY <1>8, <1>11, <1>12, Zenon
<1> QED
  BY <1>7, <1>10, <1>13, Zenon DEF N, X, Unfolds

\* Filtered keeps members of S, and their order.
LEMMA FilteredKeeps ==
    ASSUME NEW queue \in Seq(Requests), NEW S
    PROVE  /\ Filtered(queue, S) \in Seq(Requests)
           /\ Len(Filtered(queue, S)) <= Len(queue)
           /\ Range(Filtered(queue, S)) \subseteq Range(queue) \intersect S
           /\ Rising(queue) => Rising(Filtered(queue, S))
<1> DEFINE N == Len(queue)
<1>1. N \in Nat /\ DOMAIN queue = 1 .. N /\ \A n \in 1 .. N : queue[n] \in Requests
  OBVIOUS
<1>2. PICK t \in [0 .. N -> Seq(Requests)] :
            /\ t[0] = <<>>
            /\ \A n \in 1 .. N :
                  t[n] = IF queue[n] \in S THEN Append(t[n - 1], queue[n]) ELSE t[n - 1]
            /\ Filtered(queue, S) = t[N]
  <2>1. \E t \in [0 .. N -> Seq(Requests)] : Unfolds(t, queue, S)
    BY FilteredUnfolds, Zenon
  <2> QED
    BY <2>1 DEF Unfolds
<1> DEFINE From(n) == \A i \in DOMAIN t[n] :
                         \E k \in 1 .. n : t[n][i] = queue[k] /\ queue[k] \in S
           T == {n \in 0 .. N : From(n) /\ Len(t[n]) <= n /\ (Rising(queue) => Rising(t[n]))}
<1>3. 0 \in T
  <2>1. t[0] = <<>> /\ 0 \in 0 .. N
    BY <1>1, <1>2
  <2>2. From(0) /\ Rising(t[0])
    BY <2>1 DEF Rising
  <2>3. Len(t[0]) <= 0
    BY <2>1
  <2> QED
    BY <2>1, <2>2, <2>3
<1>4. ASSUME NEW n \in 0 .. N, n < N, n \in T PROVE n + 1 \in T
  <2>1. n + 1 \in 1 .. N /\ n + 1 \in 0 .. N /\ (n + 1) - 1 = n /\ n \in Nat
    BY <1>1, <1>4
  <2>2. t[n + 1] = IF queue[n + 1] \in S THEN Append(t[n], queue[n + 1]) ELSE t[n]
    BY <1>2, <2>1
  <2>3. /\ t[n] \in Seq(Requests) /\ From(n) /\ (Rising(queue) => Rising(t[n]))
        /\ Len(t[n]) \in Nat /\ Len(t[n]) <= n
    BY <1>2, <1>4
  <2>4. \A k \in 1 .. n : k \in 1 .. n + 1 /\ k < n + 1
    BY <2>1
  <2>5. CASE queue[n + 1] \notin S
    <3>1. t[n + 1] = t[n]
      BY <2>2, <2>5
    <3>2. From(n + 1)
      BY <2>3, <2>4, <3>1
    <3>3. Len(t[n + 1]) <= n + 1
      BY <2>1, <2>3, <3>1
    <3> QED
      BY <2>1, <2>3, <3>1, <3>2, <3>3
  <2>6. CASE queue[n + 1] \in S
    <3> DEFINE m == Len(t[n]) + 1
    <3>1. t[n + 1] = Append(t[n], queue[n + 1]) /\ queue[n + 1] \in Requests
      BY <1>1, <2>1, <2>2, <2>6
    <3>2. /\ DOMAIN t[n + 1] = 1 .. m /\ DOMAIN t[n] = 1 .. m - 1 /\ m \in Nat
          /\ t[n + 1][m] = queue[n + 1]
          /\ \A i \in 1 .. m - 1 : t[n + 1][i] = t[n][i]
      BY <2>3, <3>1
    <3>3. \A i \in 1 .. m : i = m \/ i \in 1 .. m - 1
      BY <3>2
    <3>7. Len(t[n + 1]) <= n + 1
      BY <2>1, <2>3, <3>1
    <3> HIDE DEF m
    <3>4. From(n + 1)
      <4>1. n + 1 \in 1 .. n + 1
        BY <2>1
      <4>2. ASSUME NEW i \in 1 .. m
            PROVE  \E k \in 1 .. n + 1 : t[n + 1][i] = queue[k] /\ queue[k] \in S
        <5>1. CASE i = m
          BY <2>6, <3>2, <4>1, <5>1
        <5>2. CASE i \in 1 .. m - 1
          <6>1. PICK k \in 1 .. n : t[n][i] = queue[k] /\ queue[k] \in S
            BY <2>3, <3>2, <5>2, Zenon
          <6> QED
            BY <2>4, <3>2, <5>2, <6>1, Zenon
        <5> QED
          BY <3>3, <5>1, <5>2
      <4> QED
        BY <3>2, <4>2, ZenonT(30)
    <3>5. ASSUME Rising(queue), NEW i \in 1 .. m, NEW j \in 1 .. m, i < j
          PROVE  t[n + 1][i].id < t[n + 1][j].id
      <4>1. i \in 1 .. m - 1
        BY <3>2, <3>5
      <4>2. PICK k \in 1 .. n : t[n][i] = queue[k]
        BY <2>3, <3>2, <4>1, Zenon
      <4>3. CASE j = m
        <5>1. k \in DOMAIN queue /\ n + 1 \in DOMAIN queue /\ k < n + 1
          BY <1>1, <2>1
        <5> QED
          BY <3>2, <3>5, <4>1, <4>2, <4>3, <5>1, Zenon DEF Rising
      <4>4. CASE j \in 1 .. m - 1
        BY <2>3, <3>2, <3>5, <4>1, <4>4, Zenon DEF Rising
      <4> QED
        BY <3>3, <4>3, <4>4
    <3>6. Rising(queue) => Rising(t[n + 1])
      BY <3>2, <3>5, Zenon DEF Rising
    <3> QED
      BY <2>1, <3>4, <3>6, <3>7
  <2> QED
    BY <2>5, <2>6
<1>5. N \in T
  <2>1. N \in Nat /\ N \in 0 .. N
    BY <1>1
  <2> HIDE DEF T, N
  <2>2. \A n \in 0 .. N : n \in T
    BY <1>3, <1>4, <2>1, Induction, Zenon
  <2> QED
    BY <2>1, <2>2
<1>6. Filtered(queue, S) = t[N] /\ t[N] \in Seq(Requests)
  BY <1>1, <1>2
<1>8. Len(t[N]) <= Len(queue)
  BY <1>5
<1>7. Range(t[N]) \subseteq Range(queue) \intersect S
  BY <1>1, <1>5, ZenonT(30) DEF Range
<1> QED
  BY <1>5, <1>6, <1>7, <1>8

-----------------------------------------------------------------------------
(* Plans *)

LEMMA PlanTyped ==
    ASSUME NEW plan \in Plans
    PROVE  /\ DOMAIN plan \subseteq Files
           /\ \A f \in DOMAIN plan, restore \in BOOLEAN : PlanSource(plan, restore, f) \in Contents
<1>1. PICK S \in SUBSET Files : plan \in [S -> [before : Contents, after : Contents]]
  BY DEF Plans
<1>2. \A f \in S : plan[f].before \in Contents /\ plan[f].after \in Contents
  BY <1>1
<1> QED
  BY <1>1, <1>2 DEF PlanSource

LEMMA ApplyTyped ==
    ASSUME NEW plan \in Plans, NEW restore \in BOOLEAN, NEW sources \in Sources
    PROVE  ApplyPlan(plan, restore, sources) \in Sources
BY PlanTyped DEF ApplyPlan, Sources

\* rollback_prepared undoes what a fitting plan did, and so does an undo.
LEMMA RestoresWhatItFound ==
    ASSUME NEW plan \in Plans, NEW restore \in BOOLEAN, NEW sources \in Sources,
           PlanFits(plan, restore, sources)
    PROVE  /\ PlanFits(plan, ~restore, ApplyPlan(plan, restore, sources))
           /\ ApplyPlan(plan, ~restore, ApplyPlan(plan, restore, sources)) = sources
<1> DEFINE written == ApplyPlan(plan, restore, sources)
<1>1. ~~restore = restore
  OBVIOUS
<1>2. \A f \in DOMAIN plan : f \in Files /\ sources[f] = PlanSource(plan, ~restore, f)
  BY PlanTyped DEF PlanFits
<1>3. \A f \in Files : written[f] = IF f \in DOMAIN plan THEN PlanSource(plan, restore, f)
                                                         ELSE sources[f]
  BY DEF ApplyPlan
<1>4. PlanFits(plan, ~restore, written)
  <2> HIDE DEF written
  <2> QED
    BY <1>1, <1>2, <1>3, Zenon DEF PlanFits
<1>5. \A f \in Files : ApplyPlan(plan, ~restore, written)[f] = sources[f]
  <2> HIDE DEF written
  <2> QED
    BY <1>2, <1>3 DEF ApplyPlan
<1>6. sources = [f \in Files |-> sources[f]]
  BY DEF Sources
<1>7. ApplyPlan(plan, ~restore, written) = [f \in Files |-> ApplyPlan(plan, ~restore, written)[f]]
  BY DEF ApplyPlan
<1> QED
  BY <1>4, <1>5, <1>6, <1>7, Zenon

\* What the definition of Replay chooses.
Replays(t, plans) ==
    t = [n \in 0 .. Len(plans) |->
            IF n = 0 THEN Start ELSE ApplyPlan(plans[n], FALSE, t[n - 1])]

LEMMA ReplayUnfolds ==
    ASSUME NEW plans \in Seq(Plans)
    PROVE  /\ Replay(plans) \in [0 .. Len(plans) -> Sources]
           /\ Replay(plans)[0] = Start
           /\ \A n \in 1 .. Len(plans) :
                 Replay(plans)[n] = ApplyPlan(plans[n], FALSE, Replay(plans)[n - 1])
<1> DEFINE N == Len(plans)
           step == [p \in (1 .. N) \X Sources |-> ApplyPlan(plans[p[1]], FALSE, p[2])]
<1>1. N \in Nat /\ Start \in Sources /\ \A n \in 1 .. N : plans[n] \in Plans
  BY SessionAssumption
<1>2. step \in Steps(N, Sources)
  <2>1. \A p \in (1 .. N) \X Sources : ApplyPlan(plans[p[1]], FALSE, p[2]) \in Sources
    BY <1>1, ApplyTyped, Zenon
  <2> QED
    BY <2>1, Zenon DEF Steps
<1>3. PICK t \in [0 .. N -> Sources] :
            t[0] = Start /\ \A n \in 1 .. N : t[n] = step[<<n, t[n - 1]>>]
  <2> HIDE DEF N, step
  <2>1. \E t \in [0 .. N -> Sources] : Iterates(t, N, Start, step)
    BY <1>1, <1>2, Iterate
  <2> QED
    BY <2>1, Zenon DEF Iterates
<1>4. \A n \in 1 .. N : t[n] = ApplyPlan(plans[n], FALSE, t[n - 1])
  <2> SUFFICES ASSUME NEW n \in 1 .. N PROVE t[n] = ApplyPlan(plans[n], FALSE, t[n - 1])
    BY Zenon
  <2>1. t[n - 1] \in Sources
    BY <1>1, <1>3
  <2>2. step[<<n, t[n - 1]>>] = ApplyPlan(plans[n], FALSE, t[n - 1])
    BY <2>1, Zenon
  <2> QED
    BY <1>3, <2>2, Zenon
<1>5. \A n \in 0 .. N : n = 0 \/ n \in 1 .. N
  BY <1>1
<1>6. Replays(t, plans)
  <2> HIDE DEF step
  <2>1. t = [n \in 0 .. N |-> t[n]]
    OBVIOUS
  <2>2. \A n \in 0 .. N : t[n] = IF n = 0 THEN Start ELSE ApplyPlan(plans[n], FALSE, t[n - 1])
    BY <1>3, <1>4, <1>5
  <2> HIDE DEF N
  <2> QED
    BY <2>1, <2>2 DEF Replays, N
<1> DEFINE c == CHOOSE u : Replays(u, plans)
<1>7. Replays(c, plans)
  BY <1>6, Zenon
<1>8. Replay(plans) = c
  BY DEF Replay, Replays
<1> HIDE DEF c
<1>9. /\ DOMAIN c = 0 .. N
      /\ \A n \in 0 .. N : c[n] = IF n = 0 THEN Start ELSE ApplyPlan(plans[n], FALSE, c[n - 1])
      /\ c = [n \in 0 .. N |-> c[n]]
  BY <1>7, Zenon DEF Replays
<1>10. 0 \in 0 .. N /\ \A n \in 1 .. N : n \in 0 .. N /\ n # 0
  BY <1>1
<1>11. c[0] = Start /\ \A n \in 1 .. N : c[n] = ApplyPlan(plans[n], FALSE, c[n - 1])
  <2> HIDE DEF N
  <2> QED
    BY <1>9, <1>10, Zenon
<1>12. \A n \in 0 .. N : c[n] \in Sources
  <2> DEFINE T == {n \in 0 .. N : c[n] \in Sources}
  <2>1. 0 \in T
    BY <1>1, <1>10, <1>11
  <2>2. ASSUME NEW n \in 0 .. N, n < N, n \in T PROVE n + 1 \in T
    <3>1. n + 1 \in 1 .. N /\ n + 1 \in 0 .. N /\ (n + 1) - 1 = n
      BY <1>1, <2>2
    <3>2. c[n + 1] = ApplyPlan(plans[n + 1], FALSE, c[n])
      BY <1>11, <3>1
    <3>3. c[n] \in Sources /\ plans[n + 1] \in Plans
      BY <1>1, <2>2, <3>1
    <3>4. c[n + 1] \in Sources
      BY <3>2, <3>3, ApplyTyped
    <3> QED
      BY <3>1, <3>4
  <2>3. N \in Nat
    BY <1>1
  <2> HIDE DEF T, N
  <2>4. \A n \in 0 .. N : n \in T
    BY <2>1, <2>2, <2>3, Induction
  <2> QED
    BY <2>4 DEF T
<1> HIDE DEF N
<1>13. c \in [0 .. N -> Sources]
  BY <1>9, <1>12
<1> QED
  BY <1>8, <1>11, <1>13 DEF N

\* Histories that begin alike replay alike.
LEMMA ReplayPrefix ==
    ASSUME NEW p \in Seq(Plans), NEW q \in Seq(Plans),
           NEW N \in Nat, N <= Len(p), N <= Len(q), \A i \in 1 .. N : p[i] = q[i]
    PROVE  \A n \in 0 .. N : Replay(p)[n] = Replay(q)[n]
<1> DEFINE T == {n \in 0 .. N : Replay(p)[n] = Replay(q)[n]}
<1>1. 0 \in T
  <2>1. Replay(p)[0] = Start /\ Replay(q)[0] = Start
    BY ReplayUnfolds, Zenon
  <2> QED
    BY <2>1
<1>2. ASSUME NEW n \in 0 .. N, n < N, n \in T PROVE n + 1 \in T
  <2>1. /\ n + 1 \in 0 .. N /\ n + 1 \in 1 .. N /\ (n + 1) - 1 = n
        /\ n + 1 \in 1 .. Len(p) /\ n + 1 \in 1 .. Len(q)
    BY <1>2
  <2>2. /\ Replay(p)[n + 1] = ApplyPlan(p[n + 1], FALSE, Replay(p)[(n + 1) - 1])
        /\ Replay(q)[n + 1] = ApplyPlan(q[n + 1], FALSE, Replay(q)[(n + 1) - 1])
    BY <2>1, ReplayUnfolds, Zenon
  <2>3. Replay(p)[n] = Replay(q)[n] /\ p[n + 1] = q[n + 1]
    BY <1>2, <2>1
  <2>4. Replay(p)[n + 1] = Replay(q)[n + 1]
    BY <2>1, <2>2, <2>3, Zenon
  <2> QED
    BY <2>1, <2>4
<1> HIDE DEF T
<1>3. \A n \in 0 .. N : n \in T
  BY <1>1, <1>2, Induction, Zenon
<1> QED
  BY <1>3 DEF T

-----------------------------------------------------------------------------
(* Queues *)

LEMMA RangeAppend ==
    ASSUME NEW S, NEW s \in Seq(S), NEW x \in S
    PROVE  /\ Append(s, x) \in Seq(S)
           /\ Range(Append(s, x)) = Range(s) \union {x}
<1>1. /\ Append(s, x) \in Seq(S) /\ DOMAIN Append(s, x) = 1 .. Len(s) + 1
      /\ DOMAIN s = 1 .. Len(s) /\ Len(s) \in Nat
  OBVIOUS
<1>2. \A i \in 1 .. Len(s) : Append(s, x)[i] = s[i]
  OBVIOUS
<1>3. Append(s, x)[Len(s) + 1] = x
  OBVIOUS
<1>4. 1 .. Len(s) + 1 = (1 .. Len(s)) \union {Len(s) + 1}
  BY <1>1
<1> QED
  BY <1>1, <1>2, <1>3, <1>4 DEF Range

LEMMA RangeTail ==
    ASSUME NEW S, NEW s \in Seq(S), s # <<>>
    PROVE  /\ Head(s) \in S /\ Head(s) \in Range(s) /\ Tail(s) \in Seq(S)
           /\ Range(s) = {Head(s)} \union Range(Tail(s))
<1>1. /\ Tail(s) \in Seq(S) /\ DOMAIN Tail(s) = 1 .. Len(s) - 1
      /\ DOMAIN s = 1 .. Len(s) /\ Len(s) \in Nat /\ Len(s) > 0
      /\ Head(s) \in S /\ Head(s) = s[1]
  OBVIOUS
<1>2. \A i \in 1 .. Len(s) - 1 : Tail(s)[i] = s[i + 1] /\ i + 1 \in 1 .. Len(s)
  BY <1>1
<1>3. \A i \in 1 .. Len(s) : i = 1 \/ (i - 1 \in 1 .. Len(s) - 1 /\ Tail(s)[i - 1] = s[i])
  BY <1>1, <1>2
<1>4. Head(s) \in Range(s) /\ Range(Tail(s)) \subseteq Range(s)
  BY <1>1, <1>2 DEF Range
<1>5. ASSUME NEW i \in 1 .. Len(s) PROVE s[i] \in {Head(s)} \union Range(Tail(s))
  BY <1>1, <1>3, Zenon DEF Range
<1>6. Range(s) \subseteq {Head(s)} \union Range(Tail(s))
  BY <1>1, <1>5 DEF Range
<1> QED
  BY <1>1, <1>4, <1>6

LEMMA RangeConcat ==
    ASSUME NEW S, NEW s \in Seq(S), NEW t \in Seq(S)
    PROVE  /\ s \o t \in Seq(S)
           /\ Range(s \o t) \subseteq Range(s) \union Range(t)
<1>1. /\ s \o t \in Seq(S) /\ DOMAIN (s \o t) = 1 .. Len(s) + Len(t)
      /\ DOMAIN s = 1 .. Len(s) /\ DOMAIN t = 1 .. Len(t)
      /\ Len(s) \in Nat /\ Len(t) \in Nat
  OBVIOUS
<1>2. \A i \in 1 .. Len(s) + Len(t) :
         (s \o t)[i] = IF i <= Len(s) THEN s[i] ELSE t[i - Len(s)]
  OBVIOUS
<1>3. \A i \in 1 .. Len(s) + Len(t) : i \in 1 .. Len(s) \/ (i > Len(s) /\ i - Len(s) \in 1 .. Len(t))
  BY <1>1
<1>4. ASSUME NEW i \in 1 .. Len(s) + Len(t) PROVE (s \o t)[i] \in Range(s) \union Range(t)
  <2>1. CASE i \in 1 .. Len(s)
    BY <1>1, <1>2, <2>1 DEF Range
  <2>2. CASE i > Len(s) /\ i - Len(s) \in 1 .. Len(t)
    <3>1. (s \o t)[i] = t[i - Len(s)]
      BY <1>1, <1>2, <2>2
    <3> QED
      BY <1>1, <2>2, <3>1, Zenon DEF Range
  <2> QED
    BY <1>3, <2>1, <2>2
<1> QED
  BY <1>1, <1>4 DEF Range

LEMMA RangeJoined ==
    ASSUME NEW S, NEW s \in Seq(S), NEW t \in Seq(S)
    PROVE  s \o t \in Seq(S) /\ Range(s \o t) = Range(s) \union Range(t)
<1>1. /\ DOMAIN (s \o t) = 1 .. Len(s) + Len(t) /\ s \o t \in Seq(S)
      /\ DOMAIN s = 1 .. Len(s) /\ DOMAIN t = 1 .. Len(t)
      /\ Len(s) \in Nat /\ Len(t) \in Nat
  OBVIOUS
<1>2. \A i \in 1 .. Len(s) : i \in 1 .. Len(s) + Len(t) /\ (s \o t)[i] = s[i]
  OBVIOUS
<1>3. \A i \in 1 .. Len(t) :
         Len(s) + i \in 1 .. Len(s) + Len(t) /\ (s \o t)[Len(s) + i] = t[i]
  OBVIOUS
<1>4. Range(s) \subseteq Range(s \o t)
  BY <1>1, <1>2, Zenon DEF Range
<1>5. Range(t) \subseteq Range(s \o t)
  BY <1>1, <1>3, Zenon DEF Range
<1>6. Range(s \o t) \subseteq Range(s) \union Range(t)
  BY RangeConcat, Zenon
<1> QED
  BY <1>1, <1>4, <1>5, <1>6, Zenon

LEMMA RangeSubSeq ==
    ASSUME NEW S, NEW s \in Seq(S), NEW m \in 1 .. Len(s) + 1, NEW n \in 0 .. Len(s)
    PROVE  /\ SubSeq(s, m, n) \in Seq(S)
           /\ Range(SubSeq(s, m, n)) \subseteq Range(s)
<1>1. SubSeq(s, m, n) \in Seq(S)
  OBVIOUS
<1>2. \A i \in DOMAIN SubSeq(s, m, n) :
         m + i - 1 \in 1 .. Len(s) /\ SubSeq(s, m, n)[i] = s[m + i - 1]
  OBVIOUS
<1> QED
  BY <1>1, <1>2 DEF Range

-----------------------------------------------------------------------------
(* What the steps leave alone *)

sourceVars == <<disk, running, events, selfWriteHashes, writes, requestedRevision,
                finishedRevision, watchJob>>
queueVars == <<sent, inbox, pendingRequests>>
planVars == <<pendingPlan, history, historyCursor, receipts>>
spokenVars == <<heard, mailbox, pendingResponses, controls>>

WatchStep ==
    \/ TakeWatchResult \/ StartWatchJob \/ DrainEvents \/ CompileSources
    \/ (\E f \in Files : ReadSource(f))
    \/ \E f \in Files, content \in Contents : content \in Written[f] /\ Save(f, content)
SourceStep == WatchStep \/ ((FinishPreparation \/ Activate) /\ UNCHANGED sessionVars)
QueueStep == DrainRequests \/ HandleRequest \/ \E command \in Commands : Submit(command)
PlanStep == FinishPreparation \/ Activate
HandStep == DrainRequests \/ FinishPreparation \/ Activate \/ HandleRequest \/ PrepareEdit
SpeakStep ==
    \/ BlockedBoundary \/ DrainRequests \/ FinishPreparation \/ Activate \/ AnswerControls
    \/ HandleRequest \/ Receive

HandsStill ==
    /\ UNCHANGED <<preparation, commit>>
    /\ (pc = "activate") = (pc' = "activate")

LEMMA Frame ==
    ASSUME [Next]_vars
    PROVE  /\ SourceStep \/ UNCHANGED sourceVars
           /\ QueueStep \/ UNCHANGED queueVars
           /\ PlanStep \/ UNCHANGED planVars
           /\ HandStep \/ HandsStill
           /\ SpeakStep \/ UNCHANGED spokenVars
<1> USE DEF sourceVars, queueVars, planVars, spokenVars, HandsStill, worldVars, clientVars,
            replyVars, editVars, requestVars, sessionVars, workspaceVars
<1>1. CASE BlockedBoundary /\ UNCHANGED sessionVars
  BY <1>1 DEF BlockedBoundary, SpeakStep
<1>2. CASE DrainRequests /\ UNCHANGED sessionVars
  BY <1>2, Zenon DEF DrainRequests, SpeakStep, QueueStep, HandStep
<1>3. CASE FinishPreparation /\ UNCHANGED sessionVars
  BY <1>3 DEF FinishPreparation, SpeakStep, SourceStep, PlanStep, HandStep
<1>4. CASE Activate /\ UNCHANGED sessionVars
  BY <1>4 DEF Activate, SpeakStep, SourceStep, PlanStep, HandStep
<1>5. CASE AnswerControls /\ UNCHANGED sessionVars
  BY <1>5 DEF AnswerControls, SpeakStep
<1>6. CASE HandleRequest /\ UNCHANGED sessionVars
  BY <1>6 DEF HandleRequest, SpeakStep, QueueStep, HandStep
<1>7. CASE EndBoundary /\ UNCHANGED sessionVars
  BY <1>7, ZenonT(30) DEF EndBoundary
<1>8. CASE TakeWatchResult
  BY <1>8 DEF TakeWatchResult, SourceStep, WatchStep
<1>9. CASE SkipWatchResult \/ Tick \/ CloseWindow
  BY <1>9 DEF SkipWatchResult, Tick, CloseWindow
<1>10. CASE StartWatchJob
  BY <1>10, Zenon DEF StartWatchJob, SourceStep, WatchStep
<1>11. CASE DrainEvents
  BY <1>11 DEF DrainEvents, SourceStep, WatchStep
<1>12. CASE EditWorker
  BY <1>12 DEF EditWorker, PrepareEdit, HandStep
<1>13. CASE WatchWorker
  BY <1>13, Zenon DEF WatchWorker, ReadSource, CompileSources, SourceStep, WatchStep
<1>14. CASE \E f \in Files, content \in Contents : content \in Written[f] /\ Save(f, content)
  BY <1>14, Zenon DEF Save, SourceStep, WatchStep
<1>15. CASE \E command \in Commands : Submit(command)
  BY <1>15 DEF Submit, QueueStep
<1>16. CASE Receive
  BY <1>16 DEF Receive, SpeakStep
<1>17. CASE Disconnect
  BY <1>17 DEF Disconnect
<1>18. CASE UNCHANGED vars
  BY <1>18 DEF vars
<1> QED
  BY <1>1, <1>2, <1>3, <1>4, <1>5, <1>6, <1>7, <1>8, <1>9, <1>10, <1>11, <1>12, <1>13, <1>14,
     <1>15, <1>16, <1>17, <1>18, Zenon DEF Next, Loop, Workspace, Done

-----------------------------------------------------------------------------
(* Types *)

LEMMA RememberTyped ==
    ASSUME SourcesTyped, NEW plan \in Plans, NEW restore \in BOOLEAN
    PROVE  /\ RememberPlanHashes(plan, restore) \in [Files -> Contents \union {None}]
           /\ \A f \in Files \ DOMAIN plan :
                 RememberPlanHashes(plan, restore)[f] = selfWriteHashes[f]
           /\ \A f \in DOMAIN plan :
                 /\ RememberPlanHashes(plan, restore)[f] = PlanSource(plan, restore, f)
                 /\ RememberPlanHashes(plan, restore)[f] # None
<1>1. /\ DOMAIN plan \subseteq Files
      /\ \A f \in DOMAIN plan : PlanSource(plan, restore, f) \in Contents
  BY PlanTyped
<1>2. None \notin Contents
  BY WorkspaceAssumption
<1> QED
  BY <1>1, <1>2 DEF RememberPlanHashes, SourcesTyped

\* Hashes remembered of a plan that is on disk are those of the disk.
LEMMA RemembersDisk ==
    ASSUME SourcesTyped, NEW plan \in Plans, NEW restore \in BOOLEAN,
           Matching(events, selfWriteHashes, disk),
           \A f \in DOMAIN plan : disk[f] = PlanSource(plan, restore, f)
    PROVE  Matching(events \union DOMAIN plan, RememberPlanHashes(plan, restore), disk)
<1>1. events \subseteq Files
  BY DEF SourcesTyped
<1> QED
  BY <1>1, RememberTyped DEF Matching

\* And so are those of a plan that is just written.
LEMMA RemembersWritten ==
    ASSUME SourcesTyped, NEW plan \in Plans, NEW restore \in BOOLEAN,
           Matching(events, selfWriteHashes, disk)
    PROVE  Matching(events \union DOMAIN plan, RememberPlanHashes(plan, restore),
                    ApplyPlan(plan, restore, disk))
<1>1. events \subseteq Files /\ DOMAIN plan \subseteq Files
  BY PlanTyped DEF SourcesTyped
<1>2. \A f \in Files : ApplyPlan(plan, restore, disk)[f] =
                          IF f \in DOMAIN plan THEN PlanSource(plan, restore, f) ELSE disk[f]
  BY DEF ApplyPlan
<1> QED
  BY <1>1, <1>2, RememberTyped DEF Matching

\* write_prepared_sources: it writes the plan, or puts every source back.
LEMMA Writing ==
    ASSUME NEW edit, WriteSources(edit)
    PROVE  /\ edit.action # "preview" /\ events' = events \union DOMAIN edit.plan
           /\ UNCHANGED <<running, history, historyCursor, receipts, pendingPlan>>
           /\ \/ /\ disk' = ApplyPlan(edit.plan, edit.restore, disk)
                 /\ selfWriteHashes' = RememberPlanHashes(edit.plan, edit.restore)
                 /\ commit'.edit = edit /\ commit'.id = preparation.id /\ pc' = "activate"
              \/ /\ selfWriteHashes' = RememberPlanHashes(edit.plan, ~edit.restore)
                 /\ pc' = "controls" /\ UNCHANGED <<disk, commit>>
<1>1. commit' = [id |-> preparation.id, edit |-> edit, revision |-> hostEntryRevision' + 1] =>
         commit'.edit = edit /\ commit'.id = preparation.id
  OBVIOUS
<1> QED
  BY <1>1, Zenon DEF WriteSources

\* finish_edit_preparation when it writes.
LEMMA Finishing ==
    ASSUME Typed, FinishPreparation
    PROVE  /\ preparation = None \/ preparation' = None \/ UNCHANGED preparation
           /\ \/ /\ UNCHANGED <<disk, running, events, selfWriteHashes, commit>>
                 /\ pc = "finish" /\ pc' = "controls"
              \/ /\ PreparationReady /\ preparation' = None
                 /\ WriteSources(preparation.result)
                 /\ HasResult /\ PreparedTyped(preparation.result)
                 /\ disk = preparation.result.inputs
                 /\ pc = "finish"
<1>1. CASE ~PreparationReady
  BY <1>1 DEF FinishPreparation, RefusePrepared, KeepPreview, WriteSources, worldVars, editVars
<1>2. CASE PreparationReady /\ WriteSources(preparation.result)
  <2>1. HasResult
    BY <1>2 DEF PreparationReady, WriteSources, Acceptable, HasResult
  <2>2. PreparedTyped(preparation.result)
    BY <2>1 DEF Typed, HandsTyped
  <2>3. disk = preparation.result.inputs /\ preparation' = None /\ pc = "finish"
    BY <1>2 DEF WriteSources, Acceptable, CommitAllowed, FinishPreparation
  <2> QED
    BY <1>2, <2>1, <2>2, <2>3, ZenonT(30)
<1>3. CASE PreparationReady /\ (RefusePrepared(preparation.result) \/ KeepPreview(preparation.result))
  BY <1>3, ZenonT(30) DEF FinishPreparation, RefusePrepared, KeepPreview, worldVars, editVars
<1> QED
  BY <1>1, <1>2, <1>3, ZenonT(30) DEF FinishPreparation

LEMMA WritingKeepsTypes ==
    ASSUME Typed, FinishPreparation, UNCHANGED sessionVars
    PROVE  SourcesTyped'
<1>1. UNCHANGED <<writes, requestedRevision, finishedRevision, watchJob>> /\ SourcesTyped
  BY DEF sessionVars, Typed
<1>2. CASE UNCHANGED <<disk, running, events, selfWriteHashes>>
  BY <1>1, <1>2 DEF SourcesTyped, JobTyped
<1>3. CASE /\ WriteSources(preparation.result) /\ PreparedTyped(preparation.result)
           /\ disk = preparation.result.inputs
  <2> DEFINE edit == preparation.result
  <2>1. edit.plan \in Plans /\ edit.restore \in BOOLEAN /\ (~edit.restore) \in BOOLEAN
    BY <1>3 DEF PreparedTyped
  <2>2. /\ events' = events \union DOMAIN edit.plan /\ running' = running
        /\ disk' = disk \/ disk' = ApplyPlan(edit.plan, edit.restore, disk)
        /\ \/ selfWriteHashes' = RememberPlanHashes(edit.plan, edit.restore)
           \/ selfWriteHashes' = RememberPlanHashes(edit.plan, ~edit.restore)
    BY <1>3, Writing, Zenon
  <2> HIDE DEF edit
  <2>3. DOMAIN edit.plan \subseteq Files
    BY <2>1, PlanTyped
  <2>4. disk' \in Sources
    BY <1>1, <2>1, <2>2, ApplyTyped DEF SourcesTyped
  <2>5. selfWriteHashes' \in [Files -> Contents \union {None}]
    BY <1>1, <2>1, <2>2, RememberTyped, ZenonT(30)
  <2> QED
    BY <1>1, <2>2, <2>3, <2>4, <2>5 DEF SourcesTyped, JobTyped
<1> QED
  BY <1>2, <1>3, Finishing

LEMMA ActivatingKeepsTypes ==
    ASSUME Typed, Activate, UNCHANGED sessionVars
    PROVE  SourcesTyped'
<1>1. UNCHANGED <<writes, requestedRevision, finishedRevision, watchJob>> /\ SourcesTyped
  BY DEF sessionVars, Typed
<1> DEFINE edit == commit.edit
<1>2. PreparedTyped(edit)
  BY DEF Activate, Typed, HandsTyped
<1> HIDE DEF edit
<1>3. edit.plan \in Plans /\ edit.restore \in BOOLEAN /\ (~edit.restore) \in BOOLEAN
  BY <1>2 DEF PreparedTyped
<1>4. edit.candidate \in Sources
  BY <1>2, <1>3, ApplyTyped DEF PreparedTyped
<1>5. DOMAIN edit.plan \subseteq Files
  BY <1>3, PlanTyped
<1>6. CASE ActivateCandidate
  <2>1. /\ UNCHANGED <<disk, events>> /\ running' = edit.candidate
        /\ selfWriteHashes' = RememberPlanHashes(edit.plan, edit.restore)
    BY <1>6 DEF ActivateCandidate, edit
  <2>2. selfWriteHashes' \in [Files -> Contents \union {None}]
    BY <1>1, <1>3, <2>1, RememberTyped
  <2> QED
    BY <1>1, <1>4, <2>1, <2>2 DEF SourcesTyped, JobTyped
<1>7. CASE RollbackPrepared
  <2>1. /\ UNCHANGED running
        /\ disk' = disk \/ disk' = ApplyPlan(edit.plan, ~edit.restore, disk)
        /\ events' = events \/ events' = events \union DOMAIN edit.plan
        /\ selfWriteHashes' = RememberPlanHashes(edit.plan, ~edit.restore)
    BY <1>7 DEF RollbackPrepared, edit
  <2>2. selfWriteHashes' \in [Files -> Contents \union {None}]
    BY <1>1, <1>3, <2>1, RememberTyped, Zenon
  <2>3. disk' \in Sources
    BY <1>1, <1>3, <2>1, ApplyTyped, Zenon DEF SourcesTyped
  <2> QED
    BY <1>1, <1>5, <2>1, <2>2, <2>3 DEF SourcesTyped, JobTyped
<1> QED
  BY <1>6, <1>7 DEF Activate

LEMMA WatchingKeepsTypes ==
    ASSUME Typed, WatchStep
    PROVE  SourcesTyped'
<1>0. SourcesTyped
  BY DEF Typed
<1>1. CASE TakeWatchResult
  <2>1. /\ UNCHANGED <<disk, events, selfWriteHashes, writes, requestedRevision>>
        /\ finishedRevision' = watchJob.revision /\ watchJob' = None /\ watchJob # None
        /\ running' = running \/ running' = watchJob.sources
    BY <1>1 DEF TakeWatchResult, FinishJob, WatchReady
  <2> QED
    BY <1>0, <2>1 DEF SourcesTyped, JobTyped
<1>2. CASE StartWatchJob
  <2>1. UNCHANGED <<disk, running, events, selfWriteHashes, writes, requestedRevision,
                    finishedRevision>>
    BY <1>2 DEF StartWatchJob, worldVars, editVars
  <2>2. \/ UNCHANGED watchJob
        \/ watchJob' = [revision |-> requestedRevision, sources |-> running,
                        unread |-> Files, result |-> None]
    BY <1>2 DEF StartWatchJob
  <2> QED
    BY <1>0, <2>1, <2>2 DEF SourcesTyped, JobTyped
<1>3. CASE DrainEvents
  <2>1. /\ UNCHANGED <<disk, running, writes, finishedRevision, watchJob>>
        /\ events' = {}
        /\ requestedRevision' \in {requestedRevision, requestedRevision + 1}
        /\ \E foreign : selfWriteHashes' = [f \in Files |->
                                 IF f \in foreign THEN None ELSE selfWriteHashes[f]]
    BY <1>3, Zenon DEF DrainEvents
  <2> QED
    BY <1>0, <2>1 DEF SourcesTyped, JobTyped
<1>4. CASE CompileSources
  <2>1. UNCHANGED <<disk, running, events, selfWriteHashes, writes, requestedRevision,
                    finishedRevision>>
    BY <1>4 DEF CompileSources, workspaceVars, worldVars, editVars
  <2>2. watchJob # None /\ \E x : watchJob' = [watchJob EXCEPT !.result = x]
    BY <1>4, Zenon DEF CompileSources
  <2> QED
    BY <1>0, <2>1, <2>2 DEF SourcesTyped, JobTyped
<1>5. CASE \E f \in Files : ReadSource(f)
  <2>1. UNCHANGED <<disk, running, events, selfWriteHashes, writes, requestedRevision,
                    finishedRevision>>
    BY <1>5 DEF ReadSource, workspaceVars, worldVars, editVars
  <2>2. PICK f \in Files : ReadSource(f)
    BY <1>5
  <2>3. /\ watchJob # None
        /\ watchJob' = [watchJob EXCEPT !.sources[f] = disk[f], !.unread = @ \ {f}]
    BY <2>2 DEF ReadSource
  <2>4. /\ DOMAIN watchJob' = {"revision", "sources", "unread", "result"}
        /\ watchJob'.revision = watchJob.revision
        /\ watchJob'.sources = [watchJob.sources EXCEPT ![f] = disk[f]]
        /\ watchJob'.unread = watchJob.unread \ {f}
    BY <1>0, <2>3 DEF SourcesTyped, JobTyped
  <2>5. watchJob'.sources \in Sources
    BY <1>0, <2>3, <2>4 DEF SourcesTyped, JobTyped, Sources
  <2> QED
    BY <1>0, <2>1, <2>3, <2>4, <2>5 DEF SourcesTyped, JobTyped
<1>6. CASE \E f \in Files, content \in Contents : content \in Written[f] /\ Save(f, content)
  <2>1. PICK f \in Files, content \in Contents : Save(f, content)
    BY <1>6
  <2>2. /\ UNCHANGED <<running, selfWriteHashes, requestedRevision, finishedRevision, watchJob>>
        /\ disk' = [disk EXCEPT ![f] = content]
        /\ events' = events \union {f}
        /\ writes' = writes + 1
    BY <2>1 DEF Save, editVars
  <2>3. disk' \in Sources
    BY <1>0, <2>2 DEF SourcesTyped, Sources
  <2> QED
    BY <1>0, <2>2, <2>3 DEF SourcesTyped, JobTyped
<1> QED
  BY <1>1, <1>2, <1>3, <1>4, <1>5, <1>6 DEF WatchStep

LEMMA SourcesKeepTypes ==
    ASSUME Typed, [Next]_vars
    PROVE  SourcesTyped'
<1>1. CASE UNCHANGED sourceVars
  BY <1>1 DEF sourceVars, Typed, SourcesTyped, JobTyped
<1>2. CASE SourceStep
  BY <1>2, WritingKeepsTypes, ActivatingKeepsTypes, WatchingKeepsTypes DEF SourceStep
<1> QED
  BY <1>1, <1>2, Frame

\* The parts of the boundary that drains the queue.
OtherRequests == Filtered(inbox, {r \in Range(inbox) : ~IsControl(r)})
ControlRequests == Filtered(inbox, {r \in Range(inbox) : IsControl(r)})
Targets ==
    {r.command.target : r \in {c \in Range(ControlRequests) : c.command.op = "cancel"}}
Quitting == \E r \in Range(ControlRequests) : r.command.op = "quit"
Backlog == pendingRequests \o SubSeq(OtherRequests, 1, Admitted(OtherRequests))
Refused == SubSeq(OtherRequests, Admitted(OtherRequests) + 1, Len(OtherRequests))
Dropped == Filtered(Backlog, {r \in Range(Backlog) : r.id \in Targets})
Failures == [i \in 1 .. Len(Refused) |-> Failure(Refused[i].id)]
            \o [i \in 1 .. Len(Dropped) |-> Failure(Dropped[i].id)]

LEMMA Draining ==
    ASSUME DrainRequests
    PROVE  /\ inbox' = <<>>
           /\ pendingRequests' = Filtered(Backlog, {r \in Range(Backlog) : r.id \notin Targets})
           /\ controls' = [i \in 1 .. Len(ControlRequests) |-> ControlResponse(ControlRequests[i])]
           /\ preparation' = FlagPreparation(Targets, Quitting)
           /\ Post(<<>>, pendingResponses \o Failures)
           /\ pc = "boundary" /\ pc' = "finish"
           /\ UNCHANGED <<commit, sent, heard>>
BY Zenon DEF DrainRequests, OtherRequests, ControlRequests, Targets, Quitting, Backlog, Refused,
             Dropped, Failures

LEMMA CommandTyped ==
    ASSUME NEW command \in Commands
    PROVE  /\ command.op \in {"edit", "preview", "apply", "undo", "redo", "quit", "cancel"}
           /\ command.op \in {"edit", "preview"} => command.edit \in Edits /\ command.preview \in BOOLEAN
           /\ command.op = "cancel" => command.target \in Ids
<1>1. \/ \E e \in Edits : command = [op |-> "edit", edit |-> e, preview |-> FALSE]
      \/ \E e \in Edits : command = [op |-> "preview", edit |-> e, preview |-> TRUE]
      \/ \E op \in {"apply", "undo", "redo", "quit"} : command = [op |-> op]
      \/ \E id \in Ids : command = [op |-> "cancel", target |-> id]
  BY DEF Commands
<1>2. CASE \E e \in Edits : command = [op |-> "edit", edit |-> e, preview |-> FALSE]
  BY <1>2
<1>3. CASE \E e \in Edits : command = [op |-> "preview", edit |-> e, preview |-> TRUE]
  BY <1>3
<1>4. CASE \E op \in {"apply", "undo", "redo", "quit"} : command = [op |-> op]
  BY <1>4
<1>5. CASE \E id \in Ids : command = [op |-> "cancel", target |-> id]
  BY <1>5
<1> QED
  BY <1>1, <1>2, <1>3, <1>4, <1>5, ZenonT(30)

LEMMA RequestTyped ==
    ASSUME NEW r \in Requests
    PROVE  r.id \in Ids /\ r.id \in Nat /\ r.command \in Commands
BY WorkspaceAssumption DEF Requests, Ids

LEMMA WaitingTyped ==
    ASSUME QueuesTyped, NEW r \in Waiting
    PROVE  r \in Requests
BY DEF Waiting, QueuesTyped, Range

\* The backlog admits as many of the requests as there is room for.
LEMMA AdmittedFit ==
    ASSUME QueuesTyped, NEW requests \in Seq(Requests)
    PROVE  /\ Admitted(requests) \in 0 .. Len(requests)
           /\ Len(pendingRequests) + Admitted(requests) <= MaxPending
<1>1. /\ Len(requests) \in Nat /\ Len(pendingRequests) \in Nat
      /\ Len(pendingRequests) <= MaxPending /\ MaxPending \in Nat
  BY WorkspaceAssumption DEF QueuesTyped
<1> QED
  BY <1>1 DEF Admitted

\* What the drain makes of the queues.
LEMMA BacklogTyped ==
    ASSUME QueuesTyped
    PROVE  /\ OtherRequests \in Seq(Requests) /\ ControlRequests \in Seq(Requests)
           /\ Backlog \in Seq(Requests) /\ Refused \in Seq(Requests)
           /\ Len(Backlog) <= MaxPending
           /\ Range(OtherRequests) \subseteq {r \in Range(inbox) : ~IsControl(r)}
           /\ Range(ControlRequests) \subseteq {r \in Range(inbox) : IsControl(r)}
           /\ Range(Backlog) \subseteq Range(pendingRequests) \union Range(OtherRequests)
           /\ Range(Refused) \subseteq Range(OtherRequests)
<1>1. /\ OtherRequests \in Seq(Requests)
      /\ Range(OtherRequests) \subseteq {r \in Range(inbox) : ~IsControl(r)}
  BY FilteredKeeps DEF QueuesTyped, OtherRequests
<1>2. /\ ControlRequests \in Seq(Requests)
      /\ Range(ControlRequests) \subseteq {r \in Range(inbox) : IsControl(r)}
  BY FilteredKeeps DEF QueuesTyped, ControlRequests
<1> DEFINE n == Admitted(OtherRequests)
<1>3. /\ Len(OtherRequests) \in Nat /\ Len(pendingRequests) \in Nat
      /\ Len(pendingRequests) <= MaxPending /\ MaxPending \in Nat
  BY <1>1, WorkspaceAssumption DEF QueuesTyped
<1>4. n \in 0 .. Len(OtherRequests) /\ Len(pendingRequests) + n <= MaxPending
  BY <1>1, AdmittedFit, Zenon
<1> HIDE DEF n
<1>5. 1 \in 1 .. Len(OtherRequests) + 1 /\ n + 1 \in 1 .. Len(OtherRequests) + 1
      /\ Len(OtherRequests) \in 0 .. Len(OtherRequests)
  BY <1>3, <1>4
<1>6. /\ SubSeq(OtherRequests, 1, n) \in Seq(Requests)
      /\ Range(SubSeq(OtherRequests, 1, n)) \subseteq Range(OtherRequests)
      /\ SubSeq(OtherRequests, n + 1, Len(OtherRequests)) \in Seq(Requests)
      /\ Range(SubSeq(OtherRequests, n + 1, Len(OtherRequests))) \subseteq Range(OtherRequests)
  BY <1>1, <1>4, <1>5, RangeSubSeq
<1>7. /\ Backlog \in Seq(Requests)
      /\ Range(Backlog) \subseteq Range(pendingRequests) \union Range(SubSeq(OtherRequests, 1, n))
  BY <1>6, RangeConcat, Zenon DEF Backlog, QueuesTyped, n
<1>8. Len(Backlog) <= MaxPending
  <2>1. Len(SubSeq(OtherRequests, 1, n)) = n
    BY <1>1, <1>4
  <2>2. pendingRequests \in Seq(Requests)
    BY DEF QueuesTyped
  <2>3. Len(Backlog) = Len(pendingRequests) + Len(SubSeq(OtherRequests, 1, n))
    BY <1>6, <2>2 DEF Backlog, n
  <2> QED
    BY <1>4, <2>1, <2>3
<1> QED
  BY <1>1, <1>2, <1>6, <1>7, <1>8 DEF Refused, n

LEMMA QueuesKeepTypes ==
    ASSUME Typed, [Next]_vars
    PROVE  QueuesTyped'
<1>0. QueuesTyped
  BY DEF Typed
<1>1. CASE UNCHANGED queueVars
  BY <1>0, <1>1 DEF queueVars, QueuesTyped
<1>2. CASE DrainRequests
  <2> DEFINE S == {r \in Range(Backlog) : r.id \notin Targets}
  <2>1. /\ inbox' = <<>> /\ UNCHANGED sent
        /\ pendingRequests' = Filtered(Backlog, S)
    BY <1>2, Draining
  <2>2. /\ Backlog \in Seq(Requests) /\ Len(Backlog) <= MaxPending
        /\ \A r \in Range(Backlog) : ~IsControl(r)
    BY <1>0, BacklogTyped DEF QueuesTyped
  <2> HIDE DEF S
  <2>3. /\ pendingRequests' \in Seq(Requests) /\ Range(pendingRequests') \subseteq Range(Backlog)
        /\ Len(pendingRequests') <= Len(Backlog)
    BY <2>1, <2>2, FilteredKeeps
  <2>4. Len(pendingRequests') \in Nat /\ Len(Backlog) \in Nat /\ MaxPending \in Nat
    BY <2>2, <2>3, WorkspaceAssumption
  <2>5. Len(pendingRequests') <= MaxPending
    BY <2>2, <2>3, <2>4
  <2> QED
    BY <1>0, <2>1, <2>2, <2>3, <2>5 DEF QueuesTyped
<1>3. CASE HandleRequest
  <2>1. /\ UNCHANGED <<inbox, sent>> /\ pendingRequests # <<>>
        /\ pendingRequests' = Tail(pendingRequests)
    BY <1>3 DEF HandleRequest, clientVars
  <2>2. /\ pendingRequests' \in Seq(Requests)
        /\ Range(pendingRequests') \subseteq Range(pendingRequests)
    BY <1>0, <2>1, RangeTail DEF QueuesTyped
  <2>3. Len(pendingRequests') <= MaxPending
    BY <1>0, <2>1, WorkspaceAssumption DEF QueuesTyped
  <2> QED
    BY <1>0, <2>1, <2>2, <2>3 DEF QueuesTyped
<1>4. CASE \E command \in Commands : Submit(command)
  <2>1. PICK command \in Commands : Submit(command)
    BY <1>4
  <2> DEFINE request == [id |-> sent + 1, command |-> command]
  <2>2. /\ sent' = sent + 1 /\ inbox' = Append(inbox, request) /\ UNCHANGED pendingRequests
        /\ sent < MaxRequests
    BY <2>1 DEF Submit, requestVars
  <2>3. request \in Requests
    BY <1>0, <2>2, WorkspaceAssumption DEF QueuesTyped, Requests, Ids
  <2> HIDE DEF request
  <2>4. inbox' \in Seq(Requests)
    BY <1>0, <2>2, <2>3, RangeAppend DEF QueuesTyped
  <2>5. sent' \in Nat
    BY <1>0, <2>2 DEF QueuesTyped
  <2> QED
    BY <1>0, <2>2, <2>4, <2>5 DEF QueuesTyped
<1> QED
  BY <1>1, <1>2, <1>3, <1>4, Frame DEF QueueStep

LEMMA PlansKeepTypes ==
    ASSUME Typed, [Next]_vars
    PROVE  PlansTyped'
<1>0. PlansTyped
  BY DEF Typed
<1>1. CASE UNCHANGED planVars
  BY <1>0, <1>1 DEF planVars, PlansTyped
<1>2. CASE FinishPreparation
  <2>1. CASE UNCHANGED pendingPlan
    <3>1. UNCHANGED <<history, historyCursor>>
      BY <1>2 DEF FinishPreparation, RefusePrepared, KeepPreview, WriteSources, editVars
    <3> QED
      BY <1>0, <2>1, <3>1, ZenonT(30) DEF PlansTyped
  <2>2. CASE ~UNCHANGED pendingPlan
    <3>1. KeepPreview(preparation.result) /\ PreparationReady
      BY <1>2, <2>2 DEF FinishPreparation, RefusePrepared, WriteSources, editVars
    <3>2. HasResult
      BY <3>1 DEF KeepPreview, Acceptable, PreparationReady, HasResult
    <3>3. preparation.result.plan \in Plans
      BY <3>2, Zenon DEF Typed, HandsTyped, PreparedTyped
    <3>4. pendingPlan'.plan = preparation.result.plan /\ UNCHANGED <<history, historyCursor>>
      BY <3>1 DEF KeepPreview
    <3> QED
      BY <1>0, <3>3, <3>4, ZenonT(30) DEF PlansTyped
  <2> QED
    BY <2>1, <2>2
<1>3. CASE Activate
  <2>1. CASE RollbackPrepared
    BY <1>0, <2>1 DEF RollbackPrepared, PlansTyped
  <2>2. CASE ActivateCandidate
    <3> DEFINE edit == commit.edit
    <3>1. /\ pendingPlan' \in {pendingPlan, None}
          /\ history' = IF edit.action \in {"new", "pending"} THEN PushHistory(edit.plan)
                                                              ELSE history
          /\ historyCursor' = CASE edit.action = "undo" -> historyCursor - 1
                                [] edit.action = "redo" -> historyCursor + 1
                                [] OTHER                -> Len(history')
      BY <2>2 DEF ActivateCandidate
    <3>2. edit.plan \in Plans
      BY <1>3, ZenonT(30) DEF Activate, Typed, HandsTyped, PreparedTyped
    <3>3. ActionTied(edit.action, edit.restore, edit.plan) /\ edit.action \in Actions
      BY <1>3 DEF Activate, Typed, Tied, HandsTyped, PreparedTyped
    <3> HIDE DEF edit
    <3>4. history \in Seq(Plans) /\ historyCursor \in 0 .. Len(history) /\ Len(history) \in Nat
      BY <1>0 DEF PlansTyped
    <3>5. PushHistory(edit.plan) \in Seq(Plans)
      BY <3>2, <3>4 DEF PushHistory
    <3>6. history' \in Seq(Plans)
      BY <3>1, <3>4, <3>5
    <3>7. historyCursor' \in 0 .. Len(history')
      <4>1. CASE edit.action = "undo"
        <5>1. historyCursor > 0 /\ historyCursor' = historyCursor - 1 /\ history' = history
          BY <3>1, <3>3, <4>1 DEF ActionTied
        <5> QED
          BY <3>4, <5>1
      <4>2. CASE edit.action = "redo"
        <5>1. historyCursor < Len(history) /\ historyCursor' = historyCursor + 1 /\ history' = history
          BY <3>1, <3>3, <4>2 DEF ActionTied
        <5> QED
          BY <3>4, <5>1
      <4>3. CASE edit.action \notin {"undo", "redo"}
        <5>1. historyCursor' = Len(history')
          BY <3>1, <4>3
        <5>2. Len(history') \in Nat
          BY <3>6
        <5> QED
          BY <5>1, <5>2
      <4> QED
        BY <4>1, <4>2, <4>3
    <3>8. pendingPlan' # None => pendingPlan'.plan \in Plans
      BY <1>0, <3>1 DEF PlansTyped
    <3> QED
      BY <3>6, <3>7, <3>8 DEF PlansTyped
  <2> QED
    BY <1>3, <2>1, <2>2 DEF Activate
<1> QED
  BY <1>1, <1>2, <1>3, Frame DEF PlanStep

\* What handle_request hands to the preparation.
LEMMA PlanForTyped ==
    ASSUME NEW edit \in Edits, NEW sources \in Sources
    PROVE  PlanFor(edit, sources) \in Plans
<1> DEFINE S == {g \in DOMAIN edit : edit[g] # sources[g]}
<1>1. /\ S \in SUBSET Files
      /\ \A f \in S : sources[f] \in Contents /\ edit[f] \in Contents
  BY WorkspaceAssumption DEF Sources
<1>2. PlanFor(edit, sources) = [f \in S |-> [before |-> sources[f], after |-> edit[f]]]
  BY DEF PlanFor
<1> HIDE DEF S
<1>3. PlanFor(edit, sources) \in [S -> [before : Contents, after : Contents]]
  BY <1>1, <1>2
<1> QED
  BY <1>1, <1>3, ZenonT(30) DEF Plans

LEMMA InputIsTyped ==
    ASSUME PlansTyped, NEW command \in Commands, command.op \notin {"cancel", "quit"},
           HasInput(command)
    PROVE  /\ InputTyped(InputOf(command))
           /\ \A sources \in Sources :
                 ActionTied(InputOf(command).action, InputOf(command).restore,
                            PlanOf(InputOf(command), sources))
<1>1. command.op \in {"edit", "preview", "apply", "undo", "redo"}
  BY CommandTyped
<1>2. ASSUME NEW plan \in Plans, NEW restore \in BOOLEAN, NEW expected, NEW action \in Actions,
             InputOf(command) = PlanInput(plan, restore, expected, action),
             ActionTied(action, restore, plan)
      PROVE  /\ InputTyped(InputOf(command))
             /\ \A sources \in Sources :
                   ActionTied(InputOf(command).action, InputOf(command).restore,
                              PlanOf(InputOf(command), sources))
  <2> DEFINE input == InputOf(command)
  <2>1. /\ input.restore = restore /\ input.action = action /\ input.plan = plan
        /\ "edit" \notin DOMAIN input
    BY <1>2 DEF PlanInput
  <2> HIDE DEF input
  <2>2. \A sources \in Sources : PlanOf(input, sources) = plan
    BY <2>1 DEF PlanOf
  <2> QED
    BY <1>2, <2>1, <2>2, Zenon DEF InputTyped, input
<1>3. history \in Seq(Plans) /\ historyCursor \in 0 .. Len(history)
  BY DEF PlansTyped
<1>4. CASE command.op = "apply"
  <2>1. InputOf(command) = PlanInput(pendingPlan.plan, FALSE, pendingPlan.preview, "pending")
    BY <1>4 DEF InputOf
  <2>2. pendingPlan.plan \in Plans
    BY <1>4 DEF PlansTyped, HasInput
  <2>3. ActionTied("pending", FALSE, pendingPlan.plan)
    BY DEF ActionTied
  <2> QED
    BY <1>2, <2>1, <2>2, <2>3, Zenon DEF Actions
<1>5. CASE command.op = "undo"
  <2>1. InputOf(command) = PlanInput(history[historyCursor], TRUE, None, "undo")
    BY <1>5 DEF InputOf
  <2>2. historyCursor > 0
    BY <1>5 DEF HasInput
  <2>3. history[historyCursor] \in Plans
    BY <1>3, <2>2
  <2>4. ActionTied("undo", TRUE, history[historyCursor])
    BY <2>2 DEF ActionTied
  <2> QED
    BY <1>2, <2>1, <2>3, <2>4, Zenon DEF Actions
<1>6. CASE command.op = "redo"
  <2>1. InputOf(command) = PlanInput(history[historyCursor + 1], FALSE, None, "redo")
    BY <1>6 DEF InputOf
  <2>2. historyCursor < Len(history)
    BY <1>6 DEF HasInput
  <2>3. history[historyCursor + 1] \in Plans
    BY <1>3, <2>2
  <2>4. ActionTied("redo", FALSE, history[historyCursor + 1])
    BY <2>2 DEF ActionTied
  <2> QED
    BY <1>2, <2>1, <2>3, <2>4, Zenon DEF Actions
<1>7. CASE command.op \in {"edit", "preview"}
  <2> DEFINE input == InputOf(command)
  <2>1. input = EditInput(command)
    BY <1>7, Zenon DEF InputOf
  <2>2. command.edit \in Edits
    BY <1>7, CommandTyped, ZenonT(30)
  <2>3. /\ input.restore = FALSE /\ input.edit = command.edit /\ "edit" \in DOMAIN input
        /\ input.action \in {"preview", "new"}
    BY <2>1 DEF EditInput
  <2> HIDE DEF input
  <2>4. \A sources \in Sources : PlanOf(input, sources) \in Plans
    BY <2>2, <2>3, PlanForTyped DEF PlanOf
  <2>5. \A sources \in Sources : ActionTied(input.action, input.restore, PlanOf(input, sources))
    BY <2>3, Zenon DEF ActionTied
  <2> QED
    BY <2>3, <2>4, <2>5, Zenon DEF InputTyped, input, Actions
<1> QED
  BY <1>1, <1>4, <1>5, <1>6, <1>7

\* prepare_edit: a result fits the sources it was made for.
LEMMA ResultIsTyped ==
    ASSUME NEW input, InputTyped(input), NEW sources \in Sources, NEW active,
           Prepares(input, sources),
           \A s \in Sources : ActionTied(input.action, input.restore, PlanOf(input, s))
    PROVE  /\ PreparedTyped(Prepared(input, active, sources))
           /\ ActionTied(Prepared(input, active, sources).action,
                         Prepared(input, active, sources).restore,
                         Prepared(input, active, sources).plan)
<1> DEFINE result == Prepared(input, active, sources)
           plan == PlanOf(input, sources)
<1>1. /\ result.plan = plan /\ result.restore = input.restore /\ result.inputs = sources
      /\ result.candidate = ApplyPlan(plan, input.restore, sources)
      /\ result.action = PreparedAction(input, plan)
  BY DEF Prepared
<1>2. plan \in Plans /\ input.restore \in BOOLEAN /\ input.action \in Actions
  BY DEF InputTyped
<1>3. PlanFits(plan, input.restore, sources)
  BY ZenonT(30) DEF Prepares
<1>4. result.action = input.action \/ (input.action = "new" /\ result.action = "preview")
  BY <1>1, Zenon DEF PreparedAction
<1>5. ActionTied(input.action, input.restore, plan)
  BY ZenonT(30)
<1> HIDE DEF result, plan
<1>6. ActionTied(result.action, result.restore, result.plan)
  BY <1>1, <1>4, <1>5, Zenon DEF ActionTied
<1>7. result.action \in Actions
  BY <1>2, <1>4, ZenonT(30) DEF Actions
<1>8. PreparedTyped(result)
  BY <1>1, <1>2, <1>3, <1>7, Zenon DEF PreparedTyped
<1> QED
  BY <1>6, <1>8, Zenon DEF result

\* The parts of a preparation that a flag does not touch.
LEMMA FlagKeeps ==
    ASSUME HandsTyped, NEW targets, NEW quitting \in BOOLEAN,
           preparation' = FlagPreparation(targets, quitting)
    PROVE  /\ preparation = None => preparation' = None
           /\ preparation # None =>
                /\ DOMAIN preparation' = DOMAIN preparation
                /\ preparation'.id = preparation.id /\ preparation'.input = preparation.input
                /\ preparation'.result = preparation.result
                /\ preparation'.canceled =
                      (IF quitting \/ preparation.id \in targets THEN TRUE ELSE preparation.canceled)
BY Zenon DEF FlagPreparation, HandsTyped

LEMMA HandsKeepTypes ==
    ASSUME Typed, [Next]_vars
    PROVE  HandsTyped' /\ Tied'
<1>0. HandsTyped /\ Tied /\ PlansTyped
  BY DEF Typed
<1>1. CASE HandsStill /\ UNCHANGED planVars
  <2>1. /\ UNCHANGED <<preparation, commit, history, historyCursor>>
        /\ (pc = "activate") = (pc' = "activate")
    BY <1>1 DEF HandsStill, planVars
  <2>2. HandsTyped'
    BY <1>0, <2>1, ZenonT(30) DEF HandsTyped, HasResult
  <2>3. Tied'
    BY <1>0, <2>1 DEF Tied, HasResult, ActionTied
  <2> QED
    BY <2>2, <2>3
<1>2. CASE DrainRequests
  <2>1. /\ UNCHANGED <<commit, history, historyCursor>>
        /\ pc # "activate" /\ pc' # "activate"
    BY <1>2, ZenonT(30) DEF DrainRequests, editVars
  <2>2. preparation' = FlagPreparation(Targets, Quitting) /\ Quitting \in BOOLEAN
    BY <1>2, Draining, ZenonT(30) DEF Quitting
  <2>3. CASE preparation = None
    <3>1. preparation' = None
      BY <1>0, <2>2, <2>3, FlagKeeps
    <3> QED
      BY <1>0, <2>1, <3>1 DEF HandsTyped, Tied, HasResult
  <2>4. CASE preparation # None
    <3>1. /\ DOMAIN preparation' = DOMAIN preparation
          /\ preparation'.input = preparation.input
          /\ preparation'.result = preparation.result
      BY <1>0, <2>2, <2>4, FlagKeeps, Zenon
    <3>2. HasResult' => HasResult
      BY <2>4, <3>1 DEF HasResult
    <3>3. HandsTyped'
      BY <1>0, <2>1, <2>4, <3>1, <3>2, ZenonT(30) DEF HandsTyped
    <3>4. Tied'
      BY <1>0, <2>1, <2>4, <3>1, <3>2 DEF Tied, ActionTied
    <3> QED
      BY <3>3, <3>4
  <2> QED
    BY <2>3, <2>4
<1>3. CASE PrepareEdit
  <2>1. /\ UNCHANGED <<commit, history, historyCursor, pc>>
        /\ preparation # None /\ pc # "activate"
    BY <1>0, <1>3 DEF PrepareEdit, editVars, HandsTyped
  <2>2. PICK result : /\ preparation' = [preparation EXCEPT !.result = result]
                      /\ \/ result = [ok |-> FALSE]
                         \/ /\ Prepares(preparation.input, disk)
                            /\ result = Prepared(preparation.input, preparation.active, disk)
    BY <1>3, Zenon DEF PrepareEdit
  <2>3. /\ DOMAIN preparation' = DOMAIN preparation
        /\ preparation'.input = preparation.input
        /\ preparation'.result = result
    BY <1>0, <2>1, <2>2 DEF HandsTyped
  <2>4. result.ok => /\ PreparedTyped(result)
                     /\ ActionTied(result.action, result.restore, result.plan)
    <3>1. CASE result = [ok |-> FALSE]
      BY <3>1
    <3>2. CASE /\ Prepares(preparation.input, disk)
               /\ result = Prepared(preparation.input, preparation.active, disk)
      <4>1. InputTyped(preparation.input) /\ disk \in Sources
        BY <2>1, ZenonT(30) DEF Typed, HandsTyped, SourcesTyped
      <4>2. \A s \in Sources : ActionTied(preparation.input.action, preparation.input.restore,
                                          PlanOf(preparation.input, s))
        BY <1>0, <2>1 DEF Tied
      <4> QED
        BY <3>2, <4>1, <4>2, ResultIsTyped, Zenon
    <3> QED
      BY <2>2, <3>1, <3>2
  <2>5. HandsTyped'
    BY <1>0, <2>1, <2>3, <2>4, ZenonT(30) DEF HandsTyped, HasResult
  <2>6. Tied'
    BY <1>0, <2>1, <2>3, <2>4 DEF Tied, HasResult, ActionTied
  <2> QED
    BY <2>5, <2>6
<1>4. CASE FinishPreparation
  <2>1. UNCHANGED <<history, historyCursor>>
    BY <1>4 DEF FinishPreparation, RefusePrepared, KeepPreview, WriteSources, editVars
  <2>2. CASE pc' = "activate"
    <3>1. /\ PreparationReady /\ WriteSources(preparation.result)
          /\ HasResult /\ PreparedTyped(preparation.result) /\ preparation' = None
      BY <1>4, <2>2, Finishing, ZenonT(30)
    <3>2. commit'.edit = preparation.result /\ preparation.result.action # "preview"
      BY <2>2, <3>1, Writing
    <3>3. HandsTyped'
      BY <2>2, <3>1, <3>2 DEF HandsTyped, HasResult
    <3>4. Tied'
      BY <1>0, <2>1, <3>1, <3>2, Zenon DEF Tied, HasResult, ActionTied
    <3> QED
      BY <3>3, <3>4
  <2>3. CASE pc' # "activate"
    <3>1. commit' = None /\ (preparation' = preparation \/ preparation' = None)
      BY <1>0, <1>4, <2>3, Zenon DEF FinishPreparation, RefusePrepared, KeepPreview, WriteSources, HandsTyped
    <3>2. HandsTyped'
      BY <1>0, <2>3, <3>1, ZenonT(30) DEF HandsTyped, HasResult
    <3>3. Tied'
      BY <1>0, <2>1, <2>3, <3>1 DEF Tied, HasResult, ActionTied
    <3> QED
      BY <3>2, <3>3
  <2> QED
    BY <2>2, <2>3
<1>5. CASE Activate
  <2>1. preparation' = None /\ commit' = None /\ pc' = "controls"
    BY <1>0, <1>5, Zenon DEF Activate, HandsTyped
  <2> QED
    BY <2>1 DEF HandsTyped, Tied, HasResult
<1>6. CASE HandleRequest
  <2>1. /\ UNCHANGED <<commit, history, historyCursor>> /\ pc # "activate" /\ pc' # "activate"
        /\ pendingRequests # <<>>
    BY <1>6, ZenonT(30) DEF HandleRequest, editVars
  <2>2. CASE UNCHANGED preparation
    BY <1>0, <2>1, <2>2, ZenonT(30) DEF HandsTyped, Tied, HasResult, ActionTied
  <2>3. CASE ~UNCHANGED preparation
    <3> DEFINE request == Head(pendingRequests)
               command == request.command
    <3>1. /\ HasInput(command)
          /\ preparation' = [id |-> request.id, canceled |-> FALSE, active |-> running,
                             input |-> InputOf(command), result |-> None]
      BY <1>6, <2>3 DEF HandleRequest
    <3>2. request \in Requests /\ request \in Range(pendingRequests)
      BY <2>1, RangeTail DEF Typed, QueuesTyped
    <3>3. command \in Commands /\ command.op \notin {"cancel", "quit"}
      BY <3>2, RequestTyped DEF Typed, QueuesTyped, IsControl
    <3> HIDE DEF request, command
    <3>4. /\ InputTyped(InputOf(command))
          /\ \A sources \in Sources :
                 ActionTied(InputOf(command).action, InputOf(command).restore,
                            PlanOf(InputOf(command), sources))
      BY <1>0, <3>1, <3>3, InputIsTyped
    <3>5. /\ DOMAIN preparation' = {"id", "canceled", "active", "input", "result"}
          /\ preparation'.input = InputOf(command) /\ preparation'.result = None
      BY <3>1, Zenon
    <3>6. HandsTyped'
      BY <1>0, <2>1, <3>4, <3>5, ZenonT(30) DEF HandsTyped, HasResult
    <3>7. Tied'
      <4> DEFINE input == InputOf(command)
      <4>1. \A sources \in Sources :
                 ActionTied(input.action, input.restore, PlanOf(input, sources))
        BY <3>4
      <4>2. preparation'.input = input
        BY <3>5
      <4> HIDE DEF input
      <4>3. \A sources \in Sources :
                 ActionTied(preparation'.input.action, preparation'.input.restore,
                            PlanOf(preparation'.input, sources))
        BY <4>1, <4>2
      <4> QED
        BY <2>1, <3>5, <4>3 DEF Tied, HasResult, ActionTied
    <3> QED
      BY <3>6, <3>7
  <2> QED
    BY <2>2, <2>3
<1> QED
  BY <1>1, <1>2, <1>3, <1>4, <1>5, <1>6, Frame DEF HandStep, PlanStep

LEMMA InitTyped == Init => Typed
<1> SUFFICES ASSUME Init PROVE Typed
  OBVIOUS
<1>1. SourcesTyped
  BY SessionAssumption DEF Init, SourcesTyped, JobTyped
<1>2. QueuesTyped
  BY WorkspaceAssumption DEF Init, QueuesTyped, Range
<1>3. PlansTyped
  BY DEF Init, PlansTyped
<1>4. HandsTyped /\ Tied
  BY DEF Init, HandsTyped, Tied, HasResult
<1> QED
  BY <1>1, <1>2, <1>3, <1>4 DEF Typed

\* Types, and what the parts of an edit in progress are, at every step of the
\* loop, its workers, the client and the editor.
THEOREM PlayIsTyped == Spec => []Typed
<1>1. Init => Typed
  BY InitTyped
<1>2. Typed /\ [Next]_vars => Typed'
  BY SourcesKeepTypes, QueuesKeepTypes, PlansKeepTypes, HandsKeepTypes, Zenon DEF Typed
<1> QED
  BY <1>1, <1>2, PTL DEF Spec

-----------------------------------------------------------------------------
(* A commit and the disk *)

\* Only finish_edit_preparation begins a commit.
LEMMA CommitsFrom ==
    ASSUME Typed, [Next]_vars, pc' = "activate"
    PROVE  \/ pc = "activate" /\ UNCHANGED <<preparation, commit>>
           \/ /\ FinishPreparation /\ WriteSources(preparation.result)
              /\ HasResult /\ PreparedTyped(preparation.result)
              /\ preparation' = None
              /\ disk = preparation.result.inputs
              /\ disk' = preparation.result.candidate
              /\ commit'.edit = preparation.result /\ commit'.id = preparation.id
<1>1. CASE FinishPreparation
  <2>1. /\ WriteSources(preparation.result) /\ preparation' = None
        /\ HasResult /\ PreparedTyped(preparation.result)
        /\ disk = preparation.result.inputs
    BY <1>1, Finishing, Zenon
  <2>2. /\ disk' = ApplyPlan(preparation.result.plan, preparation.result.restore, disk)
        /\ commit'.edit = preparation.result /\ commit'.id = preparation.id
    BY <2>1, Writing
  <2> QED
    BY <1>1, <2>1, <2>2 DEF PreparedTyped
<1>2. CASE PrepareEdit
  BY <1>2, Zenon DEF PrepareEdit, Typed, HandsTyped
<1>3. CASE DrainRequests \/ Activate \/ HandleRequest
  BY <1>3 DEF DrainRequests, Activate, HandleRequest
<1>4. CASE HandsStill
  BY <1>4, ZenonT(30) DEF HandsStill
<1> QED
  BY <1>1, <1>2, <1>3, <1>4, Frame, ZenonT(30) DEF HandStep

LEMMA CommitKeepsDisk ==
    ASSUME Typed, Typed', ActivatesDisk, [Next]_vars
    PROVE  ActivatesDisk'
<1> SUFFICES ASSUME pc' = "activate", NEW f \in Files
             PROVE  commit'.edit.candidate[f] = disk'[f] \/ f \in events'
  BY DEF ActivatesDisk
<1>1. CASE FinishPreparation
  <2>1. disk' = preparation.result.candidate /\ commit'.edit = preparation.result
    BY <1>1, CommitsFrom, Zenon DEF FinishPreparation
  <2> QED
    BY <2>1
<1>2. CASE pc = "activate" /\ UNCHANGED commit
  <2>1. commit.edit.candidate[f] = disk[f] \/ f \in events
    BY <1>2 DEF ActivatesDisk
  <2>2. CASE UNCHANGED <<disk, events>>
    BY <1>2, <2>1, <2>2
  <2>3. CASE \E g \in Files, content \in Contents : content \in Written[g] /\ Save(g, content)
    <3>1. PICK g \in Files, content \in Contents : Save(g, content)
      BY <2>3
    <3>2. disk' = [disk EXCEPT ![g] = content] /\ events' = events \union {g}
      BY <3>1 DEF Save
    <3>3. DOMAIN disk = Files
      BY DEF Typed, SourcesTyped, Sources
    <3> QED
      BY <1>2, <2>1, <3>2, <3>3, Zenon
  <2>4. CASE WatchStep
    <3>1. ~TakeWatchResult /\ ~StartWatchJob /\ ~DrainEvents
      BY <1>2 DEF TakeWatchResult, StartWatchJob, DrainEvents
    <3>2. CompileSources \/ (\E g \in Files : ReadSource(g)) => UNCHANGED <<disk, events>>
      BY Zenon DEF CompileSources, ReadSource, workspaceVars, worldVars
    <3> QED
      BY <2>2, <2>3, <2>4, <3>1, <3>2, Zenon DEF WatchStep
  <2>5. CASE FinishPreparation \/ Activate
    BY <1>2, <2>5, Zenon DEF FinishPreparation, Activate
  <2>6. CASE UNCHANGED sourceVars
    BY <2>2, <2>6 DEF sourceVars
  <2> QED
    BY <2>4, <2>5, <2>6, Frame DEF SourceStep
<1> QED
  BY <1>1, <1>2, CommitsFrom

\* commit_prepared activates a program whose files are the ones on disk, or
\* have a change the watcher will report, for any files, edits and saves:
\* ActivatesDisk, with the types of the prepared edit, is inductive.
THEOREM CommitsTheDisk == Spec => []CommitMatchesDisk
<1>1. Init => ActivatesDisk
  BY DEF Init, ActivatesDisk
<1>2. Typed /\ Typed' /\ ActivatesDisk /\ [Next]_vars => ActivatesDisk'
  BY CommitKeepsDisk, Zenon
<1>3. Typed /\ ActivatesDisk => CommitMatchesDisk
  BY DEF Typed, HandsTyped, ActivatesDisk, CommitMatchesDisk
<1> QED
  BY <1>1, <1>2, <1>3, PlayIsTyped, PTL DEF Spec

-----------------------------------------------------------------------------
(* Responses *)

LEMMA ResponseTyped ==
    ASSUME NEW id \in Ids
    PROVE  /\ Failure(id) \in Responses
           /\ \A kind \in {"quitting", "previewed", "applied", "preparing"} :
                 Success(id, kind) \in Responses
           /\ \A target \in Ids, background \in BOOLEAN :
                 CancelAck(id, target, background) \in Responses
<1>1. Failure(id) \in {Failure(i) : i \in Ids}
  OBVIOUS
<1>2. \A kind \in {"quitting", "previewed", "applied", "preparing"} :
         Success(id, kind) \in {Success(i, k) : i \in Ids,
                                    k \in {"quitting", "previewed", "applied", "preparing"}}
  OBVIOUS
<1>3. \A target \in Ids, background \in BOOLEAN :
         CancelAck(id, target, background) \in
             {CancelAck(i, t, b) : i \in Ids, t \in Ids, b \in BOOLEAN}
  OBVIOUS
<1> QED
  BY <1>1, <1>2, <1>3 DEF Responses

LEMMA ResponseKinds ==
    ASSUME NEW id, NEW kind, NEW target, NEW background
    PROVE  /\ Failure(id).kind = "failed" /\ Success(id, kind).kind = kind
           /\ Success(id, kind).id = id
           /\ CancelAck(id, target, background).kind = "canceling"
           /\ CancelAck(id, target, background).target = target
           /\ CancelAck(id, target, background).background = background
BY DEF Failure, Success, CancelAck

LEMMA FailureKind ==
    ASSUME NEW id
    PROVE  Failure(id).kind = "failed"
BY DEF Failure

LEMMA SuccessKind ==
    ASSUME NEW id, NEW kind
    PROVE  Success(id, kind).kind = kind /\ Success(id, kind).id = id
BY DEF Success

LEMMA NoneRise == Rising(<<>>)
BY DEF Rising

\* A delivery says what it is given, and nothing else.
LEMMA Delivered ==
    ASSUME RepliesTyped, NEW waiting \in Seq(Responses), NEW responses \in Seq(Responses),
           Deliver(waiting, responses), Range(waiting) \subseteq Range(pendingResponses)
    PROVE  /\ mailbox' \in Seq(Responses) /\ Len(mailbox') <= Capacity
           /\ pendingResponses' \in Seq(Responses)
           /\ Range(mailbox') \union Range(pendingResponses')
                 \subseteq Range(mailbox) \union Range(pendingResponses) \union Range(responses)
<1>0. mailbox \in Seq(Responses) /\ Len(mailbox) <= Capacity /\ pendingResponses \in Seq(Responses)
  BY DEF RepliesTyped
<1>1. CASE ~connected
  BY <1>0, <1>1 DEF Deliver
<1>2. CASE connected
  <2> DEFINE room == Capacity - Len(mailbox)
             fits == IF Len(responses) < room THEN Len(responses) ELSE room
             now == SubSeq(responses, 1, fits)
             later == SubSeq(responses, fits + 1, Len(responses))
  <2>1. Capacity \in Nat /\ Len(mailbox) \in Nat /\ Len(responses) \in Nat
    BY <1>0, WorkspaceAssumption
  <2>2. fits \in 0 .. Len(responses) /\ Len(mailbox) + fits <= Capacity
    BY <1>0, <2>1
  <2>3. mailbox' = mailbox \o now /\ pendingResponses' = waiting \o later
    BY <1>2, Zenon DEF Deliver
  <2> HIDE DEF fits
  <2>4. /\ 1 \in 1 .. Len(responses) + 1 /\ fits + 1 \in 1 .. Len(responses) + 1
        /\ Len(responses) \in 0 .. Len(responses)
    BY <2>1, <2>2
  <2>5. /\ now \in Seq(Responses) /\ later \in Seq(Responses)
        /\ Range(now) \subseteq Range(responses) /\ Range(later) \subseteq Range(responses)
    BY <2>2, <2>4, RangeSubSeq, ZenonT(30)
  <2>6. Len(now) = fits
    BY <2>2, <2>4
  <2> HIDE DEF now, later
  <2>7. /\ mailbox' \in Seq(Responses)
        /\ Range(mailbox') \subseteq Range(mailbox) \union Range(now)
    BY <1>0, <2>3, <2>5, RangeConcat
  <2>8. /\ pendingResponses' \in Seq(Responses)
        /\ Range(pendingResponses') \subseteq Range(waiting) \union Range(later)
    BY <2>3, <2>5, RangeConcat
  <2>9. Len(mailbox') <= Capacity
    <3>1. Len(mailbox \o now) = Len(mailbox) + Len(now)
      BY <1>0, <2>5
    <3> QED
      BY <2>2, <2>3, <2>6, <3>1
  <2> QED
    BY <2>5, <2>7, <2>8, <2>9, Zenon
<1> QED
  BY <1>1, <1>2

LEMMA SingleTyped ==
    ASSUME NEW r \in Responses
    PROVE  <<r>> \in Seq(Responses) /\ Range(<<r>>) = {r}
BY DEF Range

\* What a step leaves of the mailbox and the responses that wait, and what it
\* says.
Speaks(new) ==
    /\ mailbox' \in Seq(Responses) /\ Len(mailbox') <= Capacity
    /\ pendingResponses' \in Seq(Responses) /\ controls' \in Seq(Responses)
    /\ Said' \subseteq Said \union new

LEMMA Responding ==
    ASSUME RepliesTyped, NEW r \in Responses, Respond(<<r>>), UNCHANGED <<heard, controls>>
    PROVE  Speaks({r})
<1>1. /\ Deliver(pendingResponses, <<r>>) /\ pendingResponses \in Seq(Responses)
      /\ controls \in Seq(Responses)
  BY DEF Respond, Post, RepliesTyped
<1>2. <<r>> \in Seq(Responses) /\ Range(<<r>>) = {r}
  BY SingleTyped
<1>3. /\ mailbox' \in Seq(Responses) /\ Len(mailbox') <= Capacity
      /\ pendingResponses' \in Seq(Responses)
      /\ Range(mailbox') \union Range(pendingResponses')
            \subseteq Range(mailbox) \union Range(pendingResponses) \union {r}
  BY <1>1, <1>2, Delivered, Zenon
<1> QED
  BY <1>1, <1>3, Zenon DEF Speaks, Said

LEMMA ControlsTyped ==
    ASSUME Typed, RepliesTyped, DrainRequests
    PROVE  /\ controls' \in Seq(Responses)
           /\ \A r \in Range(controls') : \E request \in Range(ControlRequests) :
                  r = ControlResponse(request)
<1>1. /\ ControlRequests \in Seq(Requests)
      /\ Range(ControlRequests) \subseteq {r \in Range(inbox) : IsControl(r)}
  BY BacklogTyped DEF Typed
<1>2. controls' = [i \in 1 .. Len(ControlRequests) |-> ControlResponse(ControlRequests[i])]
  BY Draining
<1>3. ASSUME NEW i \in 1 .. Len(ControlRequests)
      PROVE  ControlRequests[i] \in Range(ControlRequests) /\ ControlRequests[i] \in Requests
  BY <1>1 DEF Range
<1>4. ASSUME NEW request \in Requests, IsControl(request)
      PROVE  ControlResponse(request) \in Responses
  <2>1. request.id \in Ids /\ request.command \in Commands
    BY RequestTyped
  <2>2. CASE request.command.op = "quit"
    BY <2>1, <2>2, ResponseTyped, Zenon DEF ControlResponse
  <2>3. CASE request.command.op # "quit"
    <3> DEFINE background == preparation # None /\ preparation.id = request.command.target
    <3>1. request.command.op = "cancel"
      BY <1>4, <2>3 DEF IsControl
    <3>2. request.command.target \in Ids /\ background \in BOOLEAN
      BY <2>1, <3>1, CommandTyped, Zenon
    <3>3. ControlResponse(request) = CancelAck(request.id, request.command.target, background)
      BY <2>3 DEF ControlResponse
    <3> HIDE DEF background
    <3> QED
      BY <2>1, <3>2, <3>3, ResponseTyped
  <2> QED
    BY <2>2, <2>3
<1>5. \A i \in 1 .. Len(ControlRequests) : ControlResponse(ControlRequests[i]) \in Responses
  BY <1>1, <1>3, <1>4
<1>6. Len(ControlRequests) \in Nat
  BY <1>1
<1>7. controls' \in [1 .. Len(ControlRequests) -> Responses]
  BY <1>2, <1>5
<1>8. controls' \in Seq(Responses)
  BY <1>6, <1>7
<1>9. ASSUME NEW r \in Range(controls')
      PROVE  \E request \in Range(ControlRequests) : r = ControlResponse(request)
  BY <1>2, <1>3 DEF Range
<1> QED
  BY <1>8, <1>9

LEMMA FailuresTyped ==
    ASSUME Typed
    PROVE  Failures \in Seq(Responses) /\ \A r \in Range(Failures) : r.kind = "failed"
<1> DEFINE Fails(requests) == [i \in 1 .. Len(requests) |-> Failure(requests[i].id)]
<1>1. ASSUME NEW requests \in Seq(Requests)
      PROVE  Fails(requests) \in Seq(Responses) /\ \A r \in Range(Fails(requests)) : r.kind = "failed"
  <2>1. \A i \in 1 .. Len(requests) : requests[i] \in Requests
    OBVIOUS
  <2>2. \A i \in 1 .. Len(requests) : Failure(requests[i].id) \in Responses
    BY <2>1, RequestTyped, ResponseTyped
  <2>3. Fails(requests) \in [1 .. Len(requests) -> Responses] /\ Len(requests) \in Nat
    BY <2>2
  <2>4. \A r \in Range(Fails(requests)) : r.kind = "failed"
    BY DEF Range, Failure
  <2> QED
    BY <2>3, <2>4
<1>2. Refused \in Seq(Requests) /\ Backlog \in Seq(Requests)
  BY BacklogTyped DEF Typed
<1>3. Dropped \in Seq(Requests)
  BY <1>2, FilteredKeeps DEF Dropped
<1>4. Failures = Fails(Refused) \o Fails(Dropped)
  BY DEF Failures
<1> HIDE DEF Fails
<1>5. Fails(Refused) \in Seq(Responses) /\ Fails(Dropped) \in Seq(Responses)
  BY <1>1, <1>2, <1>3
<1>6. /\ Failures \in Seq(Responses)
      /\ Range(Failures) \subseteq Range(Fails(Refused)) \union Range(Fails(Dropped))
  BY <1>4, <1>5, RangeConcat
<1> QED
  BY <1>1, <1>2, <1>3, <1>6

LEMMA DrainSpeaks ==
    ASSUME Typed, RepliesTyped, DrainRequests
    PROVE  Speaks(Range(Failures) \union Range(controls'))
<1>1. /\ Failures \in Seq(Responses) /\ pendingResponses \in Seq(Responses)
      /\ mailbox \in Seq(Responses)
  BY FailuresTyped DEF RepliesTyped
<1> DEFINE responses == pendingResponses \o Failures
<1>2. /\ responses \in Seq(Responses)
      /\ Range(responses) \subseteq Range(pendingResponses) \union Range(Failures)
  BY <1>1, RangeConcat
<1>3. Deliver(<<>>, responses) /\ UNCHANGED heard
  BY Draining DEF Post
<1> HIDE DEF responses
<1>4. <<>> \in Seq(Responses) /\ Range(<<>>) = {}
  BY DEF Range
<1>5. /\ mailbox' \in Seq(Responses) /\ Len(mailbox') <= Capacity
      /\ pendingResponses' \in Seq(Responses)
      /\ Range(mailbox') \union Range(pendingResponses')
            \subseteq Range(mailbox) \union Range(pendingResponses) \union Range(responses)
  BY <1>2, <1>3, <1>4, Delivered, Zenon
<1>6. controls' \in Seq(Responses)
  BY ControlsTyped
<1> QED
  BY <1>2, <1>3, <1>5, <1>6 DEF Speaks, Said

\* Only a drain acknowledges a cancel, and only commit_prepared says applied.
Silent == \A r \in Said' : r \notin Said => r.kind \notin {"applied", "canceling"}

RepliesKept ==
    /\ mailbox' \in Seq(Responses) /\ Len(mailbox') <= Capacity
    /\ pendingResponses' \in Seq(Responses) /\ controls' \in Seq(Responses)

\* What the steps say.
LEMMA Saying ==
    ASSUME Typed, RepliesTyped, [Next]_vars
    PROVE  /\ RepliesKept
           /\ \/ Silent
              \/ /\ DrainRequests
                 /\ \A r \in Said' : r \notin Said /\ r.kind \in {"applied", "canceling"} =>
                        \E request \in Range(ControlRequests) :
                            r = ControlResponse(request) /\ request.command.op = "cancel"
              \/ /\ Activate
                 /\ Said' \subseteq Said \union {Success(commit.id, "applied")}
<1>0. /\ mailbox \in Seq(Responses) /\ pendingResponses \in Seq(Responses)
      /\ controls \in Seq(Responses) /\ Len(mailbox) <= Capacity
  BY Zenon DEF RepliesTyped
<1>1. CASE UNCHANGED spokenVars
  BY <1>0, <1>1, ZenonT(30) DEF spokenVars, RepliesKept, Silent, Said
<1>2. CASE BlockedBoundary
  <2>1. Deliver(<<>>, pendingResponses) /\ UNCHANGED <<heard, controls>>
    BY <1>2 DEF BlockedBoundary, Post, clientVars, requestVars
  <2>2. <<>> \in Seq(Responses) /\ Range(<<>>) = {}
    BY DEF Range
  <2>3. /\ mailbox' \in Seq(Responses) /\ Len(mailbox') <= Capacity
        /\ pendingResponses' \in Seq(Responses)
        /\ Range(mailbox') \union Range(pendingResponses')
              \subseteq Range(mailbox) \union Range(pendingResponses) \union Range(pendingResponses)
    BY <1>0, <2>1, <2>2, Delivered, ZenonT(30)
  <2> QED
    BY <1>0, <2>1, <2>3 DEF RepliesKept, Silent, Said
<1>3. CASE DrainRequests
  <2>1. Speaks(Range(Failures) \union Range(controls'))
    BY <1>3, DrainSpeaks
  <2>2. ASSUME NEW r \in Said', r \notin Said, r.kind \in {"applied", "canceling"}
        PROVE  \E request \in Range(ControlRequests) :
                   r = ControlResponse(request) /\ request.command.op = "cancel"
    <3>1. r \notin Range(Failures)
      BY <2>2, FailuresTyped
    <3>2. r \in Range(controls')
      BY <2>1, <2>2, <3>1 DEF Speaks
    <3>3. PICK request \in Range(ControlRequests) : r = ControlResponse(request)
      BY <1>3, <3>2, ControlsTyped, ZenonT(30)
    <3>4. request.command.op # "quit"
      BY <2>2, <3>3, ResponseKinds DEF ControlResponse
    <3>5. IsControl(request)
      BY <3>3, BacklogTyped, Zenon DEF Typed
    <3> QED
      BY <3>3, <3>4, <3>5 DEF IsControl
  <2> QED
    BY <1>3, <2>1, <2>2, Zenon DEF Speaks, RepliesKept
<1>4. CASE FinishPreparation
  <2>1. UNCHANGED <<heard, controls>>
    BY <1>4, ZenonT(30) DEF FinishPreparation, clientVars, requestVars
  <2>2. CASE UNCHANGED <<mailbox, pendingResponses>>
    BY <1>0, <2>1, <2>2 DEF RepliesKept, Silent, Said
  <2>3. CASE ~UNCHANGED <<mailbox, pendingResponses>>
    <3>1. /\ preparation # None
          /\ \/ Respond(<<Failure(preparation.id)>>)
             \/ Respond(<<Success(preparation.id, "previewed")>>)
      BY <1>4, <2>3, Zenon DEF FinishPreparation, RefusePrepared, KeepPreview, WriteSources,
                               replyVars, PreparationReady
    <3>2. preparation.id \in Ids
      BY <3>1 DEF RepliesTyped
    <3>3. Failure(preparation.id) \in Responses /\ Success(preparation.id, "previewed") \in Responses
      BY <3>2, ResponseTyped
    <3>4. Speaks({Failure(preparation.id)}) \/ Speaks({Success(preparation.id, "previewed")})
      BY <2>1, <3>1, <3>3, Responding, Zenon
    <3>5. /\ Failure(preparation.id).kind = "failed"
          /\ Success(preparation.id, "previewed").kind = "previewed"
      BY FailureKind, SuccessKind, Zenon
    <3> QED
      BY <3>4, <3>5, Zenon DEF Speaks, RepliesKept, Silent
  <2> QED
    BY <2>2, <2>3
<1>5. CASE Activate
  <2>1. UNCHANGED <<heard, controls>>
    BY <1>5 DEF Activate, clientVars, requestVars
  <2>2. \/ Respond(<<Failure(commit.id)>>)
        \/ Respond(<<Success(commit.id, "applied")>>)
    BY <1>5 DEF Activate, ActivateCandidate, RollbackPrepared
  <2>3. commit.id \in Ids
    BY <1>5 DEF RepliesTyped, Activate
  <2>4. Failure(commit.id) \in Responses /\ Success(commit.id, "applied") \in Responses
    BY <2>3, ResponseTyped
  <2>5. Speaks({Failure(commit.id)}) \/ Speaks({Success(commit.id, "applied")})
    BY <2>1, <2>2, <2>4, Responding
  <2>6. Failure(commit.id).kind = "failed"
    BY ResponseKinds, ZenonT(30)
  <2> QED
    BY <1>5, <2>5, <2>6 DEF Speaks, RepliesKept, Silent
<1>6. CASE AnswerControls
  <2>1. Deliver(pendingResponses, controls) /\ UNCHANGED heard /\ controls' = <<>>
    BY <1>6 DEF AnswerControls, clientVars
  <2>2. controls' \in Seq(Responses) /\ Range(controls') = {}
    BY <2>1 DEF Range
  <2>3. /\ mailbox' \in Seq(Responses) /\ Len(mailbox') <= Capacity
        /\ pendingResponses' \in Seq(Responses)
        /\ Range(mailbox') \union Range(pendingResponses')
              \subseteq Range(mailbox) \union Range(pendingResponses) \union Range(controls)
    BY <1>0, <2>1, Delivered, Zenon
  <2> QED
    BY <2>1, <2>2, <2>3, Zenon DEF RepliesKept, Silent, Said
<1>7. CASE HandleRequest
  <2> DEFINE id == Head(pendingRequests).id
  <2>1. UNCHANGED <<heard, controls>> /\ pendingRequests # <<>>
    BY <1>7, Zenon DEF HandleRequest, clientVars
  <2>2. Respond(<<Failure(id)>>) \/ Respond(<<Success(id, "preparing")>>)
    BY <1>7 DEF HandleRequest
  <2>3. Head(pendingRequests) \in Requests
    BY <2>1, RangeTail DEF Typed, QueuesTyped
  <2>4. id \in Ids
    BY <2>3, RequestTyped
  <2> HIDE DEF id
  <2>5. Failure(id) \in Responses /\ Success(id, "preparing") \in Responses
    BY <2>4, ResponseTyped
  <2>6. Speaks({Failure(id)}) \/ Speaks({Success(id, "preparing")})
    BY <2>1, <2>2, <2>5, Responding
  <2>7. Failure(id).kind = "failed" /\ Success(id, "preparing").kind = "preparing"
    BY FailureKind, SuccessKind, Zenon
  <2> QED
    BY <2>6, <2>7, Zenon DEF Speaks, RepliesKept, Silent
<1>8. CASE Receive
  <2>1. /\ heard' = heard \union {Head(mailbox)} /\ mailbox' = Tail(mailbox) /\ mailbox # <<>>
        /\ UNCHANGED <<pendingResponses, controls>>
    BY <1>8 DEF Receive, requestVars
  <2>2. /\ Head(mailbox) \in Range(mailbox) /\ Tail(mailbox) \in Seq(Responses)
        /\ Range(mailbox) = {Head(mailbox)} \union Range(Tail(mailbox))
    BY <1>0, <2>1, RangeTail, ZenonT(30)
  <2>3. Len(mailbox') <= Capacity
    <3>1. Len(Tail(mailbox)) = Len(mailbox) - 1 /\ Len(mailbox) \in Nat
      BY <1>0, <2>1
    <3> QED
      BY <1>0, <2>1, <3>1, WorkspaceAssumption
  <2> QED
    BY <1>0, <2>1, <2>2, <2>3 DEF RepliesKept, Silent, Said
<1> QED
  BY <1>1, <1>2, <1>3, <1>4, <1>5, <1>6, <1>7, <1>8, Frame, Zenon DEF SpeakStep

-----------------------------------------------------------------------------
(* Request ids *)

LEMMA RisingTail ==
    ASSUME NEW queue \in Seq(Requests), Rising(queue), queue # <<>>
    PROVE  Rising(Tail(queue)) /\ \A r \in Range(Tail(queue)) : Head(queue).id < r.id
<1>1. /\ DOMAIN Tail(queue) = 1 .. Len(queue) - 1
      /\ DOMAIN queue = 1 .. Len(queue) /\ Len(queue) \in Nat /\ Len(queue) > 0
      /\ Head(queue) = queue[1]
  OBVIOUS
<1>2. \A i \in 1 .. Len(queue) - 1 :
         Tail(queue)[i] = queue[i + 1] /\ i + 1 \in 1 .. Len(queue) /\ 1 < i + 1
  BY <1>1
<1>3. 1 \in DOMAIN queue /\ \A i, j \in 1 .. Len(queue) - 1 : i < j => i + 1 < j + 1
  BY <1>1
<1>4. Rising(Tail(queue))
  BY <1>1, <1>2, <1>3, Zenon DEF Rising
<1>5. ASSUME NEW r \in Range(Tail(queue)) PROVE Head(queue).id < r.id
  <2>1. PICK i \in 1 .. Len(queue) - 1 : r = Tail(queue)[i]
    BY <1>1, Zenon DEF Range
  <2> QED
    BY <1>1, <1>2, <1>3, <2>1 DEF Rising
<1> QED
  BY <1>4, <1>5

LEMMA RisingConcat ==
    ASSUME NEW p \in Seq(Requests), NEW q \in Seq(Requests), Rising(p), Rising(q),
           \A r \in Range(p), s \in Range(q) : r.id < s.id
    PROVE  Rising(p \o q)
<1>1. /\ DOMAIN (p \o q) = 1 .. Len(p) + Len(q) /\ Len(p) \in Nat /\ Len(q) \in Nat
      /\ DOMAIN p = 1 .. Len(p) /\ DOMAIN q = 1 .. Len(q)
  OBVIOUS
<1>2. \A i \in 1 .. Len(p) + Len(q) :
         (p \o q)[i] = IF i <= Len(p) THEN p[i] ELSE q[i - Len(p)]
  OBVIOUS
<1> SUFFICES ASSUME NEW i \in 1 .. Len(p) + Len(q), NEW j \in 1 .. Len(p) + Len(q), i < j
             PROVE  (p \o q)[i].id < (p \o q)[j].id
  BY <1>1, Zenon DEF Rising
<1>3. CASE j <= Len(p)
  <2>1. i \in DOMAIN p /\ j \in DOMAIN p /\ i <= Len(p)
    BY <1>1, <1>3
  <2>2. p[i].id < p[j].id
    BY <2>1, ZenonT(30) DEF Rising
  <2> QED
    BY <1>2, <1>3, <2>1, <2>2
<1>4. CASE i > Len(p)
  <2>1. /\ i - Len(p) \in DOMAIN q /\ j - Len(p) \in DOMAIN q /\ i - Len(p) < j - Len(p)
        /\ ~(i <= Len(p)) /\ ~(j <= Len(p))
    BY <1>1, <1>4
  <2>2. q[i - Len(p)].id < q[j - Len(p)].id
    BY <2>1, Zenon DEF Rising
  <2> QED
    BY <1>2, <2>1, <2>2
<1>5. CASE i <= Len(p) /\ j > Len(p)
  <2>1. i \in DOMAIN p /\ j - Len(p) \in DOMAIN q /\ ~(j <= Len(p))
    BY <1>1, <1>5
  <2>2. p[i] \in Range(p) /\ q[j - Len(p)] \in Range(q)
    BY <2>1 DEF Range
  <2>3. p[i].id < q[j - Len(p)].id
    BY <2>2
  <2> QED
    BY <1>2, <1>5, <2>1, <2>3
<1> QED
  BY <1>1, <1>3, <1>4, <1>5

LEMMA RisingSubSeq ==
    ASSUME NEW queue \in Seq(Requests), Rising(queue), NEW n \in 0 .. Len(queue)
    PROVE  Rising(SubSeq(queue, 1, n))
<1>1. \A i \in DOMAIN SubSeq(queue, 1, n) : i \in DOMAIN queue /\ SubSeq(queue, 1, n)[i] = queue[i]
  OBVIOUS
<1> QED
  BY <1>1 DEF Rising

LEMMA RisingAppend ==
    ASSUME NEW queue \in Seq(Requests), Rising(queue), NEW r \in Requests,
           \A q \in Range(queue) : q.id < r.id
    PROVE  Rising(Append(queue, r))
<1>1. /\ DOMAIN Append(queue, r) = 1 .. Len(queue) + 1 /\ DOMAIN queue = 1 .. Len(queue)
      /\ Len(queue) \in Nat
      /\ \A i \in 1 .. Len(queue) : Append(queue, r)[i] = queue[i]
      /\ Append(queue, r)[Len(queue) + 1] = r
  OBVIOUS
<1> SUFFICES ASSUME NEW i \in 1 .. Len(queue) + 1, NEW j \in 1 .. Len(queue) + 1, i < j
             PROVE  Append(queue, r)[i].id < Append(queue, r)[j].id
  BY <1>1 DEF Rising
<1>2. i \in 1 .. Len(queue) /\ (j \in 1 .. Len(queue) \/ j = Len(queue) + 1)
  BY <1>1
<1>3. queue[i] \in Range(queue)
  BY <1>1, <1>2 DEF Range
<1> QED
  BY <1>1, <1>2, <1>3 DEF Rising

\* The backlog a drain builds is in the order of the requests.
LEMMA BacklogRises ==
    ASSUME Typed, IdsRise
    PROVE  Rising(Backlog) /\ Range(Backlog) \subseteq Waiting
<1>0. QueuesTyped
  BY DEF Typed
<1>1. /\ OtherRequests \in Seq(Requests)
      /\ Range(OtherRequests) \subseteq Range(inbox)
      /\ Range(Backlog) \subseteq Range(pendingRequests) \union Range(OtherRequests)
  BY <1>0, BacklogTyped
<1>2. Rising(OtherRequests)
  BY <1>0, FilteredKeeps, Zenon DEF OtherRequests, IdsRise, QueuesTyped
<1> DEFINE n == Admitted(OtherRequests)
           taken == SubSeq(OtherRequests, 1, n)
<1>3. /\ Len(OtherRequests) \in Nat /\ Len(pendingRequests) \in Nat
      /\ Len(pendingRequests) <= MaxPending /\ MaxPending \in Nat
      /\ pendingRequests \in Seq(Requests)
  BY <1>0, <1>1, WorkspaceAssumption DEF QueuesTyped
<1>4. n \in 0 .. Len(OtherRequests)
  BY <1>3 DEF Admitted
<1>5. Backlog = pendingRequests \o taken
  BY DEF Backlog
<1> HIDE DEF n
<1>6. Rising(taken)
  BY <1>1, <1>2, <1>4, RisingSubSeq
<1>7. 1 \in 1 .. Len(OtherRequests) + 1
  BY <1>3
<1>8. taken \in Seq(Requests) /\ Range(taken) \subseteq Range(OtherRequests)
  BY <1>1, <1>4, <1>7, RangeSubSeq
<1> HIDE DEF taken
<1>9. Rising(pendingRequests) /\ \A r \in Range(pendingRequests), s \in Range(taken) : r.id < s.id
  BY <1>1, <1>8 DEF IdsRise
<1>10. Rising(Backlog)
  BY <1>3, <1>5, <1>6, <1>8, <1>9, RisingConcat, ZenonT(30)
<1> QED
  BY <1>1, <1>10 DEF Waiting

\* No request comes back, and ids are never given twice.
LEMMA IdsKeepRising ==
    ASSUME Typed, Typed', IdsRise, [Next]_vars
    PROVE  /\ IdsRise'
           /\ \A id : Spent(id) => Spent(id)'
<1>0. QueuesTyped /\ QueuesTyped'
  BY DEF Typed
<1>a. /\ inbox \in Seq(Requests) /\ pendingRequests \in Seq(Requests) /\ sent \in Nat
      /\ \A r \in Requests : r.id \in Nat /\ r.id \in Ids
  BY <1>0, RequestTyped DEF QueuesTyped
<1>b. Waiting \subseteq Requests
  BY <1>a DEF Waiting, Range
<1>1. CASE UNCHANGED queueVars
  BY <1>1 DEF queueVars, IdsRise, Spent, Waiting
<1>2. CASE DrainRequests
  <2> DEFINE S == {r \in Range(Backlog) : r.id \notin Targets}
  <2>1. inbox' = <<>> /\ UNCHANGED sent /\ pendingRequests' = Filtered(Backlog, S)
    BY <1>2, Draining
  <2>2. Rising(Backlog) /\ Range(Backlog) \subseteq Waiting /\ Backlog \in Seq(Requests)
    BY <1>0, BacklogRises, BacklogTyped
  <2> HIDE DEF S
  <2>3. Rising(pendingRequests') /\ Range(pendingRequests') \subseteq Range(Backlog)
    BY <2>1, <2>2, FilteredKeeps
  <2>4. Range(inbox') = {} /\ Rising(inbox')
    BY <2>1 DEF Range, Rising
  <2>5. Waiting' \subseteq Waiting
    BY <2>2, <2>3, <2>4 DEF Waiting
  <2> QED
    BY <2>1, <2>3, <2>4, <2>5 DEF IdsRise, Spent
<1>3. CASE HandleRequest
  <2>1. pendingRequests # <<>> /\ pendingRequests' = Tail(pendingRequests) /\ UNCHANGED <<sent, inbox>>
    BY <1>3 DEF HandleRequest, clientVars
  <2>2. /\ Range(pendingRequests') \subseteq Range(pendingRequests)
        /\ Rising(pendingRequests')
    BY <1>a, <2>1, RangeTail, RisingTail DEF IdsRise
  <2>3. Waiting' \subseteq Waiting
    BY <2>1, <2>2 DEF Waiting
  <2> QED
    BY <2>1, <2>2, <2>3, Zenon DEF IdsRise, Spent
<1>4. CASE \E command \in Commands : Submit(command)
  <2>1. PICK command \in Commands : Submit(command)
    BY <1>4
  <2> DEFINE request == [id |-> sent + 1, command |-> command]
  <2>2. /\ sent' = sent + 1 /\ inbox' = Append(inbox, request) /\ sent < MaxRequests
        /\ UNCHANGED pendingRequests
    BY <2>1, ZenonT(30) DEF Submit, requestVars
  <2>3. request \in Requests /\ request.id = sent + 1
    BY <1>a, <2>2, WorkspaceAssumption DEF Requests, Ids
  <2> HIDE DEF request
  <2>4. Range(inbox') = Range(inbox) \union {request}
    BY <1>a, <2>2, <2>3, RangeAppend
  <2>5. \A r \in Waiting : r.id <= sent /\ r.id < request.id
    BY <1>a, <1>b, <2>3 DEF IdsRise
  <2>6. Rising(inbox')
    BY <1>a, <2>2, <2>3, <2>5, RisingAppend DEF IdsRise, Waiting
  <2>7. Waiting' = Waiting \union {request}
    BY <2>2, <2>4 DEF Waiting
  <2>8. \A r \in Range(pendingRequests'), q \in Range(inbox') : r.id < q.id
    BY <2>2, <2>4, <2>5 DEF IdsRise, Waiting
  <2>9. \A r \in Waiting' : r.id <= sent'
    BY <1>a, <1>b, <2>2, <2>3, <2>5, <2>7
  <2>10. ASSUME NEW id, Spent(id) PROVE Spent(id)'
    <3>1. id \in Nat /\ id <= sent /\ \A r \in Waiting : r.id # id
      BY <2>10 DEF Spent
    <3>2. id <= sent' /\ request.id # id
      BY <1>a, <2>2, <2>3, <3>1
    <3> QED
      BY <2>7, <3>1, <3>2 DEF Spent
  <2> QED
    BY <2>2, <2>6, <2>8, <2>9, <2>10 DEF IdsRise
<1> QED
  BY <1>1, <1>2, <1>3, <1>4, Frame DEF QueueStep

\* A preparation keeps its id and its flag; a new one has the id of the request
\* at the head of the backlog.
LEMMA PreparesFrom ==
    ASSUME Typed, [Next]_vars, preparation' # None
    PROVE  \/ /\ preparation # None /\ preparation'.id = preparation.id
              /\ preparation.canceled => preparation'.canceled
              /\ ~Activate
           \/ /\ HandleRequest /\ pendingRequests # <<>>
              /\ preparation'.id = Head(pendingRequests).id
<1>0. HandsTyped
  BY ZenonT(30) DEF Typed
<1>1. CASE HandsStill
  <2>1. ~Activate
    BY <1>1, Zenon DEF HandsStill, Activate
  <2> QED
    BY <1>1, <2>1 DEF HandsStill
<1>2. CASE DrainRequests
  <2>1. preparation' = FlagPreparation(Targets, Quitting) /\ Quitting \in BOOLEAN
    BY <1>2, Draining DEF Quitting
  <2>2. /\ preparation # None /\ preparation'.id = preparation.id
        /\ preparation.canceled => preparation'.canceled
    BY <1>0, <2>1, FlagKeeps, Zenon
  <2>3. ~Activate
    BY <1>2, Zenon DEF DrainRequests, Activate
  <2> QED
    BY <2>2, <2>3, Zenon
<1>3. CASE FinishPreparation
  <2>1. preparation' = preparation /\ ~Activate
    BY <1>3 DEF FinishPreparation, Activate
  <2> QED
    BY <2>1
<1>4. CASE Activate
  BY <1>0, <1>4, Zenon DEF Activate, HandsTyped
<1>5. CASE HandleRequest
  <2>1. pendingRequests # <<>> /\ ~Activate
    BY <1>5 DEF HandleRequest, Activate
  <2>2. CASE UNCHANGED preparation
    BY <2>1, <2>2
  <2>3. CASE ~UNCHANGED preparation
    <3>1. preparation' = [id |-> Head(pendingRequests).id, canceled |-> FALSE, active |-> running,
                          input |-> InputOf(Head(pendingRequests).command), result |-> None]
      BY <1>5, <2>3 DEF HandleRequest
    <3> QED
      BY <1>5, <2>1, <3>1, Zenon
  <2> QED
    BY <2>2, <2>3, Zenon
<1>6. CASE PrepareEdit
  <2>1. PICK result : preparation' = [preparation EXCEPT !.result = result]
    BY <1>6 DEF PrepareEdit
  <2>2. preparation # None /\ pc # "activate"
    BY <1>0, <1>6 DEF PrepareEdit, HandsTyped
  <2> QED
    BY <1>0, <2>1, <2>2 DEF HandsTyped, Activate
<1> QED
  BY <1>1, <1>2, <1>3, <1>4, <1>5, <1>6, Frame, Zenon DEF HandStep

\* The request at the head of the backlog has an id nobody else holds.
LEMMA HeadIsFresh ==
    ASSUME Typed, IdsInv, HandleRequest, pendingRequests # <<>>,
           NEW id, id = Head(pendingRequests).id
    PROVE  id \in Ids /\ ~Spent(id) /\ Spent(id)'
<1> DEFINE request == Head(pendingRequests)
<1>1. /\ inbox \in Seq(Requests) /\ pendingRequests \in Seq(Requests) /\ sent \in Nat
      /\ \A r \in Requests : r.id \in Nat /\ r.id \in Ids
  BY RequestTyped, Zenon DEF Typed, QueuesTyped
<1>2. pendingRequests' = Tail(pendingRequests) /\ UNCHANGED <<sent, inbox>>
  BY DEF HandleRequest, clientVars
<1>3. request \in Requests /\ request \in Range(pendingRequests)
  BY <1>1, RangeTail
<1>4. \A r \in Range(Tail(pendingRequests)) : request.id < r.id
  BY <1>1, RisingTail DEF IdsInv, IdsRise
<1> HIDE DEF request
<1>5. \A r \in Range(inbox) : request.id < r.id
  BY <1>3, Zenon DEF IdsInv, IdsRise
<1>6. request.id <= sent /\ request.id \in Nat
  BY <1>1, <1>3 DEF IdsInv, IdsRise, Waiting
<1>7. \A r \in Range(Tail(pendingRequests)) \union Range(inbox) : r.id # request.id
  BY <1>4, <1>5, <1>6
<1>8. id = request.id
  BY DEF request
<1>9. Spent(id)'
  BY <1>2, <1>6, <1>7, <1>8 DEF Spent, Waiting
<1>10. ~Spent(id)
  BY <1>3, <1>8, ZenonT(30) DEF Spent, Waiting
<1> QED
  BY <1>1, <1>3, <1>8, <1>9, <1>10

\* An id that has not been said to be applied: only an activation can say so.
LEMMA AppliedBy ==
    ASSUME Typed, IdsInv, [Next]_vars, NEW r \in Said', r.kind = "applied"
    PROVE  \/ r \in Said /\ Spent(r.id)
           \/ Activate /\ pc = "activate" /\ r.id = commit.id /\ Spent(commit.id)
<1>0. RepliesTyped
  BY DEF IdsInv
<1>1. CASE r \in Said
  BY <1>1, ZenonT(30) DEF IdsInv, IdsHeld
<1>2. CASE r \notin Said
  <2>1. ~Silent
    BY <1>2, Zenon DEF Silent
  <2>2. CASE DrainRequests /\ \E request \in Range(ControlRequests) :
                  r = ControlResponse(request) /\ request.command.op = "cancel"
    <3>1. r.kind = "canceling"
      BY <2>2, ResponseKinds, SMTT(30) DEF ControlResponse
    <3> QED
      BY <3>1, ZenonT(30)
  <2>3. CASE Activate /\ r = Success(commit.id, "applied")
    <3>1. pc = "activate" /\ r.id = commit.id
      BY <2>3, ResponseKinds DEF Activate
    <3> QED
      BY <2>3, <3>1, ZenonT(30) DEF IdsInv, IdsHeld
  <2> QED
    BY <1>0, <1>2, <2>1, <2>2, <2>3, Saying
<1> QED
  BY <1>1, <1>2

LEMMA HeldKept ==
    ASSUME Typed, Typed', IdsInv, IdsRise', [Next]_vars, \A id : Spent(id) => Spent(id)'
    PROVE  IdsHeld' /\ RepliesTyped'
<1>0. RepliesTyped
  BY ZenonT(30) DEF IdsInv
<1>1. ASSUME preparation' # None, NEW id, id = preparation'.id
      PROVE  id \in Ids /\ Spent(id)' /\ NotApplied(id)'
  <2>1. CASE preparation # None /\ id = preparation.id /\ ~Activate
    <3>1. id \in Ids /\ Spent(id) /\ NotApplied(id)
      BY <2>1, Zenon DEF IdsInv, IdsHeld, RepliesTyped
    <3>2. \A r \in Said' : r.kind = "applied" => r.id # id
      BY <2>1, <3>1, AppliedBy DEF NotApplied
    <3> QED
      BY <3>1, <3>2, Zenon DEF NotApplied
  <2>2. CASE HandleRequest /\ pendingRequests # <<>> /\ id = Head(pendingRequests).id
    <3>1. id \in Ids /\ ~Spent(id) /\ Spent(id)'
      BY <2>2, HeadIsFresh
    <3>2. ~Activate
      BY <2>2, Zenon DEF HandleRequest, Activate
    <3>3. \A r \in Said' : r.kind = "applied" => r.id # id
      BY <3>1, <3>2, AppliedBy, Zenon
    <3> QED
      BY <3>1, <3>3, Zenon DEF NotApplied
  <2> QED
    BY <1>1, <2>1, <2>2, PreparesFrom
<1>2. ASSUME pc' = "activate", NEW id, id = commit'.id
      PROVE  id \in Ids /\ Spent(id)' /\ NotApplied(id)'
  <2>1. ~Activate
    BY <1>2, Zenon DEF Activate
  <2>2. id \in Ids /\ Spent(id) /\ NotApplied(id)
    <3>1. CASE pc = "activate" /\ id = commit.id
      BY <3>1 DEF IdsInv, IdsHeld, RepliesTyped
    <3>2. CASE HasResult /\ id = preparation.id
      BY <3>2, ZenonT(30) DEF IdsInv, IdsHeld, RepliesTyped, HasResult
    <3> QED
      BY <1>2, <3>1, <3>2, CommitsFrom, ZenonT(30)
  <2>3. \A r \in Said' : r.kind = "applied" => r.id # id
    BY <2>1, <2>2, AppliedBy DEF NotApplied
  <2> QED
    BY <2>2, <2>3 DEF NotApplied
<1>3. ASSUME NEW r \in Said', r.kind = "applied" PROVE Spent(r.id)'
  BY <1>3, AppliedBy, ZenonT(30)
<1>4. IdsHeld'
  <2>1. preparation' # None => (Spent(preparation.id) /\ NotApplied(preparation.id))'
    BY <1>1 DEF Spent, NotApplied
  <2>2. pc' = "activate" => (Spent(commit.id) /\ NotApplied(commit.id))'
    BY <1>2 DEF Spent, NotApplied
  <2>3. (\A r \in Said : r.kind = "applied" => Spent(r.id))'
    BY <1>3, Zenon DEF Spent
  <2> QED
    BY <2>1, <2>2, <2>3, Zenon DEF IdsHeld
<1>5. RepliesTyped'
  BY <1>0, <1>1, <1>2, Saying, ZenonT(30) DEF RepliesTyped, RepliesKept
<1> QED
  BY <1>4, <1>5

LEMMA AcknowledgedKept ==
    ASSUME Typed, Typed', IdsInv, [Next]_vars, \A id : Spent(id) => Spent(id)'
    PROVE  Acknowledged'
<1> SUFFICES ASSUME NEW ack \in Said', ack.kind = "canceling", ack.background
             PROVE  /\ Spent(ack.target)' /\ NotApplied(ack.target)'
                    /\ preparation' # None /\ preparation'.id = ack.target => preparation'.canceled
                    /\ pc' = "activate" => commit'.id # ack.target
  BY DEF Acknowledged, Spent, NotApplied
<1>0. RepliesTyped
  BY DEF IdsInv
<1>1. CASE ack \in Said
  <2>1. /\ Spent(ack.target) /\ NotApplied(ack.target)
        /\ preparation # None /\ preparation.id = ack.target => preparation.canceled
        /\ pc = "activate" => commit.id # ack.target
    BY <1>1, ZenonT(30) DEF IdsInv, Acknowledged
  <2>2. \A r \in Said' : r.kind = "applied" => r.id # ack.target
    BY <2>1, AppliedBy DEF NotApplied
  <2>3. preparation' # None /\ preparation'.id = ack.target => preparation'.canceled
    <3> SUFFICES ASSUME preparation' # None, preparation'.id = ack.target
                 PROVE  preparation'.canceled
      BY Zenon
    <3>1. CASE /\ preparation # None /\ preparation'.id = preparation.id
               /\ preparation.canceled => preparation'.canceled
      BY <2>1, <3>1
    <3>2. CASE HandleRequest /\ pendingRequests # <<>> /\ preparation'.id = Head(pendingRequests).id
      BY <2>1, <3>2, HeadIsFresh, Zenon
    <3> QED
      BY <3>1, <3>2, PreparesFrom, Zenon
  <2>4. pc' = "activate" => commit'.id # ack.target
    <3> SUFFICES ASSUME pc' = "activate" PROVE commit'.id # ack.target
      BY Zenon
    <3>1. CASE pc = "activate" /\ UNCHANGED commit
      BY <2>1, <3>1, ZenonT(30)
    <3>2. CASE WriteSources(preparation.result) /\ HasResult /\ commit'.id = preparation.id
      <4>1. ~preparation.canceled /\ preparation # None
        BY <3>2, ZenonT(30) DEF WriteSources, Acceptable, IsCanceled, HasResult
      <4> QED
        BY <2>1, <3>2, <4>1
    <3> QED
      BY <3>1, <3>2, CommitsFrom
  <2> QED
    BY <2>1, <2>2, <2>3, <2>4, ZenonT(30) DEF NotApplied
<1>2. CASE ack \notin Said
  <2>1. CASE /\ DrainRequests
             /\ \E request \in Range(ControlRequests) :
                    ack = ControlResponse(request) /\ request.command.op = "cancel"
    <3>1. PICK request \in Range(ControlRequests) :
                 ack = ControlResponse(request) /\ request.command.op = "cancel"
      BY <2>1, Zenon
    <3> DEFINE target == request.command.target
               background == preparation # None /\ preparation.id = target
    <3>2. ack = CancelAck(request.id, target, background)
      BY <3>1, Zenon DEF ControlResponse
    <3>3. target \in Targets
      BY <3>1 DEF Targets
    <3>4. ack.target = target /\ (ack.background => background)
      BY <3>2, Zenon DEF CancelAck
    <3>5. preparation # None /\ preparation.id = target
      BY <3>4, Zenon
    <3> HIDE DEF target, background
    <3>6. Spent(target) /\ NotApplied(target)
      BY <3>5 DEF IdsInv, IdsHeld
    <3>7. ~Activate /\ pc' # "activate"
      BY <2>1, Zenon DEF DrainRequests, Activate
    <3>8. \A r \in Said' : r.kind = "applied" => r.id # target
      BY <3>6, <3>7, AppliedBy, Zenon DEF NotApplied
    <3>9. preparation' = FlagPreparation(Targets, Quitting) /\ Quitting \in BOOLEAN
      BY <2>1, Draining, Zenon DEF Quitting
    <3>10. preparation'.canceled
      BY <3>3, <3>5, <3>9, FlagKeeps, ZenonT(30) DEF Typed
    <3> QED
      BY <3>4, <3>6, <3>7, <3>8, <3>10, Zenon DEF NotApplied
  <2>2. CASE Said' \subseteq Said \union {Success(commit.id, "applied")}
    <3>1. ack.kind = "applied"
      BY <1>2, <2>2, ResponseKinds
    <3> QED
      BY <3>1, Zenon
  <2>3. ~Silent
    BY <1>2 DEF Silent
  <2> QED
    BY <1>0, <1>2, <2>1, <2>2, <2>3, Saying, Zenon
<1> QED
  BY <1>1, <1>2, ZenonT(30)

LEMMA InitIds == Init => IdsInv
<1> SUFFICES ASSUME Init PROVE IdsInv
  OBVIOUS
<1>1. Range(<<>>) = {}
  BY DEF Range
<1>2. Said = {} /\ Waiting = {}
  BY <1>1, Zenon DEF Init, Said, Waiting
<1>3. RepliesTyped
  BY WorkspaceAssumption DEF Init, RepliesTyped
<1>4. IdsRise
  <2>1. inbox = <<>> /\ pendingRequests = <<>>
    BY ZenonT(30) DEF Init
  <2> QED
    BY <1>1, <1>2, <2>1, NoneRise, Zenon DEF IdsRise
<1>5. IdsHeld /\ Acknowledged
  BY <1>2 DEF Init, IdsHeld, Acknowledged
<1> QED
  BY <1>3, <1>4, <1>5 DEF IdsInv

\* An id is in one place at a time, and what was acknowledged stays canceled.
LEMMA IdsAlways == Spec => []IdsInv
<1>1. Init => IdsInv
  BY InitIds
<1>2. Typed /\ Typed' /\ IdsInv /\ [Next]_vars => IdsInv'
  <2> SUFFICES ASSUME Typed, Typed', IdsInv, [Next]_vars PROVE IdsInv'
    OBVIOUS
  <2>1. IdsRise' /\ \A id : Spent(id) => Spent(id)'
    BY IdsKeepRising DEF IdsInv
  <2>2. IdsHeld' /\ RepliesTyped'
    BY <2>1, HeldKept
  <2>3. Acknowledged'
    BY <2>1, AcknowledgedKept
  <2> QED
    BY <2>1, <2>2, <2>3 DEF IdsInv
<1> QED
  BY <1>1, <1>2, PlayIsTyped, PTL DEF Spec

\* An edit whose cancel was acknowledged in the background is never committed,
\* for any number of requests, queues of any size, and however the boundary, the
\* worker and the client interleave: IdsInv says where an id may be, and that
\* the flag is set wherever the acknowledged one still is.
THEOREM CanceledTheorem == Spec => []CanceledNeverCommits
<1>1. Typed /\ IdsInv => CanceledNeverCommits
  <2> SUFFICES ASSUME Typed, IdsInv, NEW ack \in Said, ack.kind = "canceling", ack.background
               PROVE  /\ Success(ack.target, "applied") \notin Said
                      /\ commit # None => commit.id # ack.target
    BY Zenon DEF CanceledNeverCommits
  <2>1. NotApplied(ack.target) /\ (pc = "activate" => commit.id # ack.target)
    BY ZenonT(30) DEF IdsInv, Acknowledged
  <2>2. Success(ack.target, "applied") \notin Said
    BY <2>1, SuccessKind, Zenon DEF NotApplied
  <2>3. commit # None => pc = "activate"
    BY DEF Typed, HandsTyped
  <2> QED
    BY <2>1, <2>2, <2>3
<1> QED
  BY <1>1, PlayIsTyped, IdsAlways, PTL

-----------------------------------------------------------------------------
(* No request is lost, and none is answered for good twice *)

\* The request is with the preparation or the commit.
Held(id) ==
    \/ preparation # None /\ preparation.id = id
    \/ pc = "activate" /\ commit.id = id

InHand(id) == Held(id) \/ \E r \in Waiting : r.id = id
Answered(id) == \E r \in Said : r.id = id /\ Final(r)

\* While the client stays, every request it has sent waits in a queue, is with
\* the preparation or the commit, or has its last response on the way
\* (process_boundary, handle_request, finish_edit_preparation).
RequestsKept == connected => \A id \in 1 .. sent : InHand(id) \/ Answered(id)

\* A request with its last response is nowhere in hand any more, so it gets no
\* second one, whoever cancels it and whatever fails.
AnsweredForGood == \A r \in Said : Final(r) => ~InHand(r.id)

\* The responses owed to cancels and quits are gone before the next drain.
ControlsDone == pc \in {"finish", "activate", "controls"} \/ controls = <<>>

OverInv == \A r \in Said : Final(r) => Spent(r.id) /\ ~Held(r.id)

\* The value that stands for "no preparation" is not itself a preparation.
NoneIsNoPreparation == DOMAIN None # {"id", "canceled", "active", "input", "result"}

LEMMA RangeParts ==
    ASSUME NEW S, NEW s \in Seq(S), NEW n \in 0 .. Len(s)
    PROVE  /\ SubSeq(s, 1, n) \in Seq(S) /\ SubSeq(s, n + 1, Len(s)) \in Seq(S)
           /\ Range(s) = Range(SubSeq(s, 1, n)) \union Range(SubSeq(s, n + 1, Len(s)))
<1> DEFINE p == SubSeq(s, 1, n)
           q == SubSeq(s, n + 1, Len(s))
<1>1. /\ DOMAIN s = 1 .. Len(s) /\ Len(s) \in Nat
      /\ 1 \in 1 .. Len(s) + 1 /\ n + 1 \in 1 .. Len(s) + 1 /\ Len(s) \in 0 .. Len(s)
  OBVIOUS
<1>2. \A i \in 1 .. Len(s) : i <= n => i \in DOMAIN p /\ p[i] = s[i]
  OBVIOUS
<1>3. \A i \in 1 .. Len(s) : ~(i <= n) => i - n \in DOMAIN q /\ q[i - n] = s[i]
  OBVIOUS
<1>4. /\ p \in Seq(S) /\ Range(p) \subseteq Range(s)
      /\ q \in Seq(S) /\ Range(q) \subseteq Range(s)
  BY <1>1, RangeSubSeq
<1> HIDE DEF p, q
<1>5. Range(s) \subseteq Range(p) \union Range(q)
  BY <1>1, <1>2, <1>3, Zenon DEF Range
<1> QED
  BY <1>4, <1>5, Zenon DEF p, q

\* Filtered loses no member of S.
LEMMA FilteredAll ==
    ASSUME NEW queue \in Seq(Requests), NEW S
    PROVE  Range(queue) \intersect S \subseteq Range(Filtered(queue, S))
<1> DEFINE N == Len(queue)
<1>1. N \in Nat /\ DOMAIN queue = 1 .. N /\ \A n \in 1 .. N : queue[n] \in Requests
  OBVIOUS
<1>2. PICK t \in [0 .. N -> Seq(Requests)] :
            /\ \A n \in 1 .. N :
                  t[n] = IF queue[n] \in S THEN Append(t[n - 1], queue[n]) ELSE t[n - 1]
            /\ Filtered(queue, S) = t[N]
  <2>1. \E t \in [0 .. N -> Seq(Requests)] : Unfolds(t, queue, S)
    BY FilteredUnfolds, Zenon
  <2> QED
    BY <2>1 DEF Unfolds
<1> DEFINE Has(n) == \A k \in 1 .. n : queue[k] \in S => queue[k] \in Range(t[n])
           T == {n \in 0 .. N : Has(n)}
<1>3. 0 \in T
  BY <1>1
<1>4. ASSUME NEW n \in 0 .. N, n < N, n \in T PROVE n + 1 \in T
  <2>1. n + 1 \in 1 .. N /\ n + 1 \in 0 .. N /\ (n + 1) - 1 = n
    BY <1>1, <1>4
  <2>2. t[n + 1] = IF queue[n + 1] \in S THEN Append(t[n], queue[n + 1]) ELSE t[n]
    BY <1>2, <2>1, Zenon
  <2>3. t[n] \in Seq(Requests) /\ queue[n + 1] \in Requests /\ Has(n)
    BY <1>1, <1>2, <1>4, <2>1
  <2>4. \A k \in 1 .. n + 1 : k \in 1 .. n \/ k = n + 1
    BY <1>1
  <2>5. Range(Append(t[n], queue[n + 1])) = Range(t[n]) \union {queue[n + 1]}
    BY <2>3, RangeAppend
  <2>6. Range(t[n]) \subseteq Range(t[n + 1])
    BY <2>2, <2>5, Zenon
  <2>7. queue[n + 1] \in S => queue[n + 1] \in Range(t[n + 1])
    BY <2>2, <2>5, Zenon
  <2>8. Has(n + 1)
    BY <2>3, <2>4, <2>6, <2>7, Zenon
  <2> QED
    BY <2>1, <2>8
<1>5. N \in T
  <2>1. N \in Nat /\ N \in 0 .. N
    BY <1>1
  <2> HIDE DEF T, N
  <2>2. \A n \in 0 .. N : n \in T
    BY <1>3, <1>4, <2>1, Induction, Zenon
  <2> QED
    BY <2>1, <2>2
<1>6. \A k \in 1 .. N : queue[k] \in S => queue[k] \in Range(t[N])
  BY <1>5, Zenon
<1>7. ASSUME NEW r \in Range(queue), r \in S PROVE r \in Range(t[N])
  <2>1. PICK k \in DOMAIN queue : r = queue[k]
    BY DEF Range
  <2> QED
    BY <1>1, <1>6, <1>7, <2>1, Zenon
<1> QED
  BY <1>2, <1>7, Zenon

\* To a client that is there, a delivery drops nothing.
LEMMA AllSaid ==
    ASSUME RepliesTyped, connected, NEW waiting \in Seq(Responses),
           NEW responses \in Seq(Responses), Deliver(waiting, responses)
    PROVE  Range(mailbox) \union Range(waiting) \union Range(responses)
               \subseteq Range(mailbox') \union Range(pendingResponses')
<1> DEFINE room == Capacity - Len(mailbox)
           fits == IF Len(responses) < room THEN Len(responses) ELSE room
           now == SubSeq(responses, 1, fits)
           later == SubSeq(responses, fits + 1, Len(responses))
<1>0. mailbox \in Seq(Responses) /\ Len(mailbox) <= Capacity
  BY DEF RepliesTyped
<1>1. Capacity \in Nat /\ Len(mailbox) \in Nat /\ Len(responses) \in Nat
  BY <1>0, WorkspaceAssumption
<1>2. fits \in 0 .. Len(responses)
  BY <1>0, <1>1
<1>3. mailbox' = mailbox \o now /\ pendingResponses' = waiting \o later
  BY Zenon DEF Deliver
<1> HIDE DEF fits
<1>4. /\ now \in Seq(Responses) /\ later \in Seq(Responses)
      /\ Range(responses) = Range(now) \union Range(later)
  BY <1>2, RangeParts
<1> HIDE DEF now, later
<1>5. Range(mailbox') = Range(mailbox) \union Range(now)
  BY <1>0, <1>3, <1>4, RangeJoined
<1>6. Range(pendingResponses') = Range(waiting) \union Range(later)
  BY <1>3, <1>4, RangeJoined
<1> QED
  BY <1>4, <1>5, <1>6, Zenon

LEMMA SaysOne ==
    ASSUME RepliesTyped, connected, NEW r \in Responses, Respond(<<r>>),
           UNCHANGED <<heard, controls>>
    PROVE  Said \union {r} \subseteq Said'
<1>1. Deliver(pendingResponses, <<r>>) /\ pendingResponses \in Seq(Responses)
  BY Zenon DEF Respond, Post, RepliesTyped
<1>2. <<r>> \in Seq(Responses) /\ Range(<<r>>) = {r}
  BY SingleTyped
<1>3. Range(mailbox) \union Range(pendingResponses) \union {r}
          \subseteq Range(mailbox') \union Range(pendingResponses')
  BY <1>1, <1>2, AllSaid, Zenon
<1>4. heard' = heard /\ controls' = controls
  OBVIOUS
<1> QED
  BY <1>3, <1>4, Zenon DEF Said

LEMMA DrainSays ==
    ASSUME Typed, RepliesTyped, ControlsDone, connected, DrainRequests
    PROVE  Said \union Range(Failures) \union Range(controls') \subseteq Said'
<1>1. Failures \in Seq(Responses) /\ pendingResponses \in Seq(Responses)
  BY FailuresTyped, Zenon DEF RepliesTyped
<1> DEFINE responses == pendingResponses \o Failures
<1>2. /\ responses \in Seq(Responses)
      /\ Range(responses) = Range(pendingResponses) \union Range(Failures)
  BY <1>1, RangeJoined
<1>3. Deliver(<<>>, responses) /\ heard' = heard /\ pc = "boundary"
  BY Draining DEF Post
<1> HIDE DEF responses
<1>4. <<>> \in Seq(Responses) /\ Range(<<>>) = {}
  BY DEF Range
<1>5. Range(mailbox) \union Range(responses)
          \subseteq Range(mailbox') \union Range(pendingResponses')
  BY <1>2, <1>3, <1>4, AllSaid, Zenon
<1>6. Range(controls) = {}
  BY <1>3, <1>4 DEF ControlsDone
<1> QED
  BY <1>2, <1>3, <1>5, <1>6, Zenon DEF Said

\* What has been said to a client that stays is not taken back.
LEMMA SaidStays ==
    ASSUME Typed, RepliesTyped, ControlsDone, connected, [Next]_vars
    PROVE  Said \subseteq Said'
<1>0. /\ mailbox \in Seq(Responses) /\ pendingResponses \in Seq(Responses)
      /\ controls \in Seq(Responses)
  BY Zenon DEF RepliesTyped
<1>a. <<>> \in Seq(Responses) /\ Range(<<>>) = {}
  BY DEF Range
<1>1. CASE UNCHANGED spokenVars
  BY <1>1 DEF spokenVars, Said
<1>2. CASE BlockedBoundary
  <2>1. Deliver(<<>>, pendingResponses) /\ heard' = heard /\ controls' = controls
    BY <1>2 DEF BlockedBoundary, Post, clientVars, requestVars
  <2>2. Range(mailbox) \union Range(pendingResponses)
            \subseteq Range(mailbox') \union Range(pendingResponses')
    BY <1>0, <1>a, <2>1, AllSaid, Zenon
  <2> QED
    BY <2>1, <2>2, Zenon DEF Said
<1>3. CASE DrainRequests
  BY <1>3, DrainSays, Zenon
<1>4. CASE FinishPreparation
  <2>1. heard' = heard /\ controls' = controls
    BY <1>4, ZenonT(30) DEF FinishPreparation, clientVars, requestVars
  <2>2. CASE UNCHANGED <<mailbox, pendingResponses>>
    BY <2>1, <2>2 DEF Said
  <2>3. CASE ~UNCHANGED <<mailbox, pendingResponses>>
    <3>1. /\ preparation # None
          /\ \/ Respond(<<Failure(preparation.id)>>)
             \/ Respond(<<Success(preparation.id, "previewed")>>)
      BY <1>4, <2>3, Zenon DEF FinishPreparation, RefusePrepared, KeepPreview, WriteSources,
                               replyVars, PreparationReady
    <3>2. preparation.id \in Ids
      BY <3>1, Zenon DEF RepliesTyped
    <3>3. Failure(preparation.id) \in Responses /\ Success(preparation.id, "previewed") \in Responses
      BY <3>2, ResponseTyped
    <3> QED
      BY <2>1, <3>1, <3>3, SaysOne, Zenon
  <2> QED
    BY <2>2, <2>3
<1>5. CASE Activate
  <2>1. heard' = heard /\ controls' = controls
    BY <1>5 DEF Activate, clientVars, requestVars
  <2>2. \/ Respond(<<Failure(commit.id)>>)
        \/ Respond(<<Success(commit.id, "applied")>>)
    BY <1>5 DEF Activate, ActivateCandidate, RollbackPrepared
  <2>3. commit.id \in Ids
    BY <1>5 DEF RepliesTyped, Activate
  <2>4. Failure(commit.id) \in Responses /\ Success(commit.id, "applied") \in Responses
    BY <2>3, ResponseTyped
  <2> QED
    BY <2>1, <2>2, <2>4, SaysOne, Zenon
<1>6. CASE AnswerControls
  <2>1. Deliver(pendingResponses, controls) /\ heard' = heard
    BY <1>6 DEF AnswerControls, clientVars
  <2>2. Range(mailbox) \union Range(pendingResponses) \union Range(controls)
            \subseteq Range(mailbox') \union Range(pendingResponses')
    BY <1>0, <2>1, AllSaid, Zenon
  <2> QED
    BY <2>1, <2>2, ZenonT(30) DEF Said
<1>7. CASE HandleRequest
  <2> DEFINE id == Head(pendingRequests).id
  <2>1. heard' = heard /\ controls' = controls /\ pendingRequests # <<>>
    BY <1>7, ZenonT(30) DEF HandleRequest, clientVars
  <2>2. Respond(<<Failure(id)>>) \/ Respond(<<Success(id, "preparing")>>)
    BY <1>7 DEF HandleRequest
  <2>3. Head(pendingRequests) \in Requests
    BY <2>1, RangeTail DEF Typed, QueuesTyped
  <2>4. id \in Ids
    BY <2>3, RequestTyped
  <2> HIDE DEF id
  <2>5. Failure(id) \in Responses /\ Success(id, "preparing") \in Responses
    BY <2>4, ResponseTyped
  <2> QED
    BY <2>1, <2>2, <2>5, SaysOne, Zenon
<1>8. CASE Receive
  <2>1. /\ heard' = heard \union {Head(mailbox)} /\ mailbox' = Tail(mailbox) /\ mailbox # <<>>
        /\ pendingResponses' = pendingResponses /\ controls' = controls
    BY <1>8 DEF Receive, requestVars
  <2>2. Range(mailbox) = {Head(mailbox)} \union Range(Tail(mailbox))
    BY <1>0, <2>1, RangeTail, Zenon
  <2> QED
    BY <2>1, <2>2, Zenon DEF Said
<1> QED
  BY <1>1, <1>2, <1>3, <1>4, <1>5, <1>6, <1>7, <1>8, Frame, Zenon DEF SpeakStep

\* A client that is gone stays gone, and every drain finds the controls of the
\* boundary before answered.
LEMMA BoundaryOrder ==
    ASSUME ControlsDone, [Next]_vars
    PROVE  ControlsDone' /\ (connected' => connected)
<1> USE DEF ControlsDone, worldVars, clientVars, replyVars, editVars, requestVars, sessionVars,
            workspaceVars
<1>1. CASE BlockedBoundary \/ EndBoundary
  BY <1>1 DEF BlockedBoundary, EndBoundary
<1>2. CASE DrainRequests
  BY <1>2, Zenon DEF DrainRequests
<1>3. CASE FinishPreparation
  <2>1. pc = "finish" /\ controls' = controls /\ connected' = connected
    BY <1>3, Zenon DEF FinishPreparation
  <2>2. pc' \in {"controls", "activate"}
    BY <1>3, Zenon DEF FinishPreparation, RefusePrepared, KeepPreview, WriteSources
  <2> QED
    BY <2>1, <2>2
<1>4. CASE Activate
  BY <1>4, Zenon DEF Activate
<1>5. CASE AnswerControls
  BY <1>5, Zenon DEF AnswerControls
<1>6. CASE HandleRequest
  <2>1. pc = "requests" /\ controls' = controls /\ connected' = connected
    BY <1>6, Zenon DEF HandleRequest
  <2> QED
    BY <2>1
<1>7. CASE TakeWatchResult
  <2>1. pc = "watch" /\ controls' = controls /\ connected' = connected
    BY <1>7, ZenonT(30) DEF TakeWatchResult
  <2> QED
    BY <2>1
<1>8. CASE SkipWatchResult \/ Tick \/ CloseWindow
  BY <1>8 DEF SkipWatchResult, Tick, CloseWindow
<1>9. CASE StartWatchJob
  <2>1. pc = "start" /\ controls' = controls /\ connected' = connected
    BY <1>9, Zenon DEF StartWatchJob
  <2> QED
    BY <2>1
<1>10. CASE DrainEvents
  <2>1. pc = "events" /\ controls' = controls /\ connected' = connected
    BY <1>10, Zenon DEF DrainEvents
  <2> QED
    BY <2>1
<1>11. CASE EditWorker
  BY <1>11, Zenon DEF EditWorker, PrepareEdit
<1>12. CASE WatchWorker
  <2>1. pc' = pc /\ controls' = controls /\ connected' = connected
    BY <1>12, Zenon DEF WatchWorker, ReadSource, CompileSources
  <2> QED
    BY <2>1
<1>13. CASE \E f \in Files, content \in Contents : content \in Written[f] /\ Save(f, content)
  <2>1. pc' = pc /\ controls' = controls /\ connected' = connected
    BY <1>13, Zenon DEF Save
  <2> QED
    BY <2>1
<1>14. CASE \E command \in Commands : Submit(command)
  BY <1>14, Zenon DEF Submit
<1>15. CASE Receive \/ Disconnect
  BY <1>15, Zenon DEF Receive, Disconnect
<1>16. CASE UNCHANGED vars
  BY <1>16 DEF vars
<1> QED
  BY <1>1, <1>2, <1>3, <1>4, <1>5, <1>6, <1>7, <1>8, <1>9, <1>10, <1>11, <1>12, <1>13, <1>14,
     <1>15, <1>16, Zenon DEF Next, Loop, Workspace, Done

\* The failures of a drain are those of the requests refused and dropped.
LEMMA FailuresAll ==
    ASSUME Typed
    PROVE  /\ \A r \in Range(Refused) \union Range(Dropped) : Failure(r.id) \in Range(Failures)
           /\ \A a \in Range(Failures) : \E r \in Range(Refused) \union Range(Dropped) :
                  a = Failure(r.id)
<1> DEFINE Fails(requests) == [i \in 1 .. Len(requests) |-> Failure(requests[i].id)]
<1>1. ASSUME NEW requests \in Seq(Requests)
      PROVE  /\ Fails(requests) \in Seq(Responses)
             /\ \A r \in Range(requests) : Failure(r.id) \in Range(Fails(requests))
             /\ \A a \in Range(Fails(requests)) : \E r \in Range(requests) : a = Failure(r.id)
  <2>1. /\ DOMAIN requests = 1 .. Len(requests) /\ Len(requests) \in Nat
        /\ \A i \in 1 .. Len(requests) : requests[i] \in Requests
    OBVIOUS
  <2>2. \A i \in 1 .. Len(requests) : Failure(requests[i].id) \in Responses
    BY <2>1, RequestTyped, ResponseTyped
  <2>3. Fails(requests) \in [1 .. Len(requests) -> Responses]
    BY <2>2
  <2>4. Fails(requests) \in Seq(Responses)
    BY <2>1, <2>3
  <2>5. /\ DOMAIN Fails(requests) = 1 .. Len(requests)
        /\ \A i \in 1 .. Len(requests) : Fails(requests)[i] = Failure(requests[i].id)
    OBVIOUS
  <2> HIDE DEF Fails
  <2>6. \A r \in Range(requests) : Failure(r.id) \in Range(Fails(requests))
    BY <2>1, <2>5, Zenon DEF Range
  <2>7. \A a \in Range(Fails(requests)) : \E r \in Range(requests) : a = Failure(r.id)
    BY <2>1, <2>5, Zenon DEF Range
  <2> QED
    BY <2>4, <2>6, <2>7
<1>2. Refused \in Seq(Requests) /\ Backlog \in Seq(Requests)
  BY BacklogTyped DEF Typed
<1>3. Dropped \in Seq(Requests)
  BY <1>2, FilteredKeeps DEF Dropped
<1>4. Failures = Fails(Refused) \o Fails(Dropped)
  BY DEF Failures
<1> HIDE DEF Fails
<1>5. Range(Failures) = Range(Fails(Refused)) \union Range(Fails(Dropped))
  BY <1>1, <1>2, <1>3, <1>4, RangeJoined
<1>6. /\ \A r \in Range(Refused) : Failure(r.id) \in Range(Fails(Refused))
      /\ \A a \in Range(Fails(Refused)) : \E r \in Range(Refused) : a = Failure(r.id)
  BY <1>1, <1>2, Zenon
<1>7. /\ \A r \in Range(Dropped) : Failure(r.id) \in Range(Fails(Dropped))
      /\ \A a \in Range(Fails(Dropped)) : \E r \in Range(Dropped) : a = Failure(r.id)
  BY <1>1, <1>3, Zenon
<1> QED
  BY <1>5, <1>6, <1>7, Zenon

LEMMA FinalKinds ==
    ASSUME NEW id, NEW target, NEW background
    PROVE  /\ Failure(id).id = id /\ Final(Failure(id))
           /\ \A kind \in {"quitting", "previewed", "applied"} :
                 Success(id, kind).id = id /\ Final(Success(id, kind))
           /\ ~Final(Success(id, "preparing"))
           /\ CancelAck(id, target, background).id = id
           /\ Final(CancelAck(id, target, background))
BY DEF Failure, Success, CancelAck, Final

LEMMA AckFinal ==
    ASSUME NEW id, NEW target, NEW background
    PROVE  /\ CancelAck(id, target, background).id = id
           /\ Final(CancelAck(id, target, background))
BY DEF CancelAck, Final

LEMMA ControlFinal ==
    ASSUME NEW request
    PROVE  ControlResponse(request).id = request.id /\ Final(ControlResponse(request))
<1>1. CASE request.command.op = "quit"
  BY <1>1, FinalKinds, ZenonT(30) DEF ControlResponse
<1>2. CASE request.command.op # "quit"
  <2> DEFINE background == preparation # None /\ preparation.id = request.command.target
  <2>1. ControlResponse(request) = CancelAck(request.id, request.command.target, background)
    BY <1>2 DEF ControlResponse
  <2> HIDE DEF background
  <2> QED
    BY <2>1, AckFinal, ZenonT(30)
<1> QED
  BY <1>1, <1>2, Zenon

\* The queues a drain splits the waiting requests into.
LEMMA DrainSplits ==
    ASSUME Typed
    PROVE  /\ Range(inbox) = Range(OtherRequests) \union Range(ControlRequests)
           /\ Range(Backlog) \union Range(Refused)
                 = Range(pendingRequests) \union Range(OtherRequests)
           /\ Range(Backlog) =
                 Range(Filtered(Backlog, {r \in Range(Backlog) : r.id \notin Targets}))
                     \union Range(Dropped)
<1>1. /\ inbox \in Seq(Requests) /\ pendingRequests \in Seq(Requests)
      /\ Len(pendingRequests) <= MaxPending
  BY Zenon DEF Typed, QueuesTyped
<1>2. /\ OtherRequests \in Seq(Requests) /\ Backlog \in Seq(Requests)
      /\ Range(OtherRequests) \subseteq Range(inbox)
      /\ Range(ControlRequests) \subseteq Range(inbox)
  BY BacklogTyped DEF Typed
<1>3. Range(inbox) = Range(OtherRequests) \union Range(ControlRequests)
  <2>1. Range(inbox) \intersect {r \in Range(inbox) : ~IsControl(r)} \subseteq Range(OtherRequests)
    BY <1>1, FilteredAll, Zenon DEF OtherRequests
  <2>2. Range(inbox) \intersect {r \in Range(inbox) : IsControl(r)} \subseteq Range(ControlRequests)
    BY <1>1, FilteredAll, Zenon DEF ControlRequests
  <2> QED
    BY <1>2, <2>1, <2>2
<1> DEFINE n == Admitted(OtherRequests)
<1>4. n \in 0 .. Len(OtherRequests)
  BY <1>2, AdmittedFit, Zenon DEF Typed
<1>5. Backlog = pendingRequests \o SubSeq(OtherRequests, 1, n)
      /\ Refused = SubSeq(OtherRequests, n + 1, Len(OtherRequests))
  BY Zenon DEF Backlog, Refused
<1> HIDE DEF n
<1>6. /\ SubSeq(OtherRequests, 1, n) \in Seq(Requests)
      /\ Range(OtherRequests) = Range(SubSeq(OtherRequests, 1, n)) \union Range(Refused)
  BY <1>2, <1>4, <1>5, RangeParts
<1>7. Range(Backlog) = Range(pendingRequests) \union Range(SubSeq(OtherRequests, 1, n))
  <2> DEFINE taken == SubSeq(OtherRequests, 1, n)
  <2>1. Backlog = pendingRequests \o taken /\ taken \in Seq(Requests)
    BY <1>5, <1>6, Zenon
  <2> HIDE DEF taken
  <2>2. Range(pendingRequests \o taken) = Range(pendingRequests) \union Range(taken)
    BY <1>1, <2>1, RangeJoined, ZenonT(30)
  <2> QED
    BY <2>1, <2>2, Zenon DEF taken
<1> DEFINE kept == {r \in Range(Backlog) : r.id \notin Targets}
           cut == {r \in Range(Backlog) : r.id \in Targets}
<1>8. /\ Range(Backlog) \intersect kept \subseteq Range(Filtered(Backlog, kept))
      /\ Range(Filtered(Backlog, kept)) \subseteq Range(Backlog)
  <2> HIDE DEF kept
  <2> QED
    BY <1>2, FilteredAll, FilteredKeeps, Zenon
<1>9. /\ Range(Backlog) \intersect cut \subseteq Range(Dropped)
      /\ Range(Dropped) \subseteq Range(Backlog)
  <2>1. Dropped = Filtered(Backlog, cut)
    BY Zenon DEF Dropped
  <2> HIDE DEF cut
  <2> QED
    BY <1>2, <2>1, FilteredAll, FilteredKeeps
<1>10. Range(Backlog) \subseteq kept \union cut
  OBVIOUS
<1>11. Range(Backlog) = Range(Filtered(Backlog, kept)) \union Range(Dropped)
  <2> HIDE DEF kept, cut
  <2> QED
    BY <1>8, <1>9, <1>10, Zenon
<1> QED
  BY <1>3, <1>6, <1>7, <1>11, Zenon

\* A drain leaves every waiting request in the backlog or answers it.
LEMMA DrainKeeps ==
    ASSUME Typed, RepliesTyped, ControlsDone, connected, DrainRequests, NEW r \in Waiting
    PROVE  r \in Waiting' \/ Answered(r.id)'
<1>1. Said \union Range(Failures) \union Range(controls') \subseteq Said'
  BY DrainSays, ZenonT(30)
<1>2. /\ pendingRequests' = Filtered(Backlog, {q \in Range(Backlog) : q.id \notin Targets})
      /\ controls' = [i \in 1 .. Len(ControlRequests) |-> ControlResponse(ControlRequests[i])]
      /\ ControlRequests \in Seq(Requests)
  BY Draining, BacklogTyped DEF Typed
<1>3. \/ r \in Range(ControlRequests)
      \/ r \in Range(Refused) \union Range(Dropped)
      \/ r \in Range(pendingRequests')
  BY <1>2, DrainSplits, Zenon DEF Waiting
<1>4. CASE r \in Range(ControlRequests)
  <2>1. PICK i \in 1 .. Len(ControlRequests) : r = ControlRequests[i]
    BY <1>2, <1>4 DEF Range
  <2>2. ControlResponse(r) \in Range(controls')
    BY <1>2, <2>1 DEF Range
  <2>3. ControlResponse(r).id = r.id /\ Final(ControlResponse(r))
    BY ControlFinal, Zenon
  <2>4. \E a \in Said' : a.id = r.id /\ Final(a)
    BY <1>1, <2>2, <2>3, Zenon
  <2> QED
    BY <2>4, ZenonT(30) DEF Answered
<1>5. CASE r \in Range(Refused) \union Range(Dropped)
  <2>1. Failure(r.id) \in Said'
    BY <1>1, <1>5, FailuresAll, Zenon
  <2>2. Failure(r.id).id = r.id /\ Final(Failure(r.id))
    BY FinalKinds, Zenon
  <2> QED
    BY <2>1, <2>2, Zenon DEF Answered
<1>6. CASE r \in Range(pendingRequests')
  BY <1>6, Zenon DEF Waiting
<1> QED
  BY <1>3, <1>4, <1>5, <1>6, Zenon

\* A waiting request stays in hand until it is answered.
LEMMA WaitingKept ==
    ASSUME NoneIsNoPreparation, Typed, RepliesTyped, ControlsDone, connected, [Next]_vars,
           NEW r \in Waiting
    PROVE  InHand(r.id)' \/ Answered(r.id)'
<1>0. inbox \in Seq(Requests) /\ pendingRequests \in Seq(Requests)
  BY Zenon DEF Typed, QueuesTyped
<1>1. CASE r \in Waiting'
  BY <1>1, Zenon DEF InHand
<1>2. CASE UNCHANGED queueVars
  <2>1. Waiting' = Waiting
    BY <1>2 DEF queueVars, Waiting
  <2> QED
    BY <1>1, <2>1
<1>3. CASE DrainRequests
  BY <1>1, <1>3, DrainKeeps, Zenon
<1>4. CASE HandleRequest
  <2> DEFINE request == Head(pendingRequests)
             starts == preparation = None /\ HasInput(request.command)
  <2>1. /\ pendingRequests # <<>> /\ pendingRequests' = Tail(pendingRequests)
        /\ inbox' = inbox /\ heard' = heard /\ controls' = controls
    BY <1>4 DEF HandleRequest, clientVars
  <2>2. /\ Range(pendingRequests) = {request} \union Range(Tail(pendingRequests))
        /\ request \in Requests
    BY <1>0, <2>1, RangeTail
  <2>3. r = request \/ r \in Waiting'
    BY <2>1, <2>2, Zenon DEF Waiting
  <2>4. CASE r = request /\ starts
    <3>1. preparation' = [id |-> request.id, canceled |-> FALSE, active |-> running,
                          input |-> InputOf(request.command), result |-> None]
      BY <1>4, <2>4, ZenonT(30) DEF HandleRequest
    <3>2. /\ preparation'.id = request.id
          /\ DOMAIN preparation' = {"id", "canceled", "active", "input", "result"}
      BY <3>1
    <3>3. preparation' # None
      BY <3>2, Zenon DEF NoneIsNoPreparation
    <3> QED
      BY <2>4, <3>2, <3>3, Zenon DEF InHand, Held
  <2>5. CASE r = request /\ ~starts
    <3>1. Respond(<<Failure(request.id)>>)
      BY <1>4, <2>5, Zenon DEF HandleRequest
    <3>2. Failure(request.id) \in Responses
      BY <2>2, RequestTyped, ResponseTyped
    <3>3. Failure(request.id) \in Said'
      BY <2>1, <3>1, <3>2, SaysOne, Zenon
    <3>4. Failure(r.id) \in Said' /\ Failure(r.id).id = r.id /\ Final(Failure(r.id))
      BY <2>5, <3>3, FinalKinds, Zenon
    <3> QED
      BY <3>4, Zenon DEF Answered
  <2> QED
    BY <1>1, <2>3, <2>4, <2>5, ZenonT(30)
<1>5. CASE \E command \in Commands : Submit(command)
  <2>1. PICK command \in Commands : Submit(command)
    BY <1>5, Zenon
  <2> DEFINE request == [id |-> sent + 1, command |-> command]
  <2>2. /\ inbox' = Append(inbox, request) /\ pendingRequests' = pendingRequests
        /\ sent < MaxRequests
    BY <2>1, ZenonT(30) DEF Submit, requestVars
  <2>3. request \in Requests
    BY <2>2, WorkspaceAssumption DEF Typed, QueuesTyped, Requests, Ids
  <2> HIDE DEF request
  <2>4. Range(inbox') = Range(inbox) \union {request}
    BY <1>0, <2>2, <2>3, RangeAppend
  <2> QED
    BY <1>1, <2>2, <2>4, Zenon DEF Waiting
<1> QED
  BY <1>2, <1>3, <1>4, <1>5, Frame, Zenon DEF QueueStep

\* So does one that is with the preparation or the commit.
LEMMA HeldIsKept ==
    ASSUME NoneIsNoPreparation, Typed, RepliesTyped, ControlsDone, connected, [Next]_vars,
           NEW id \in Ids, Held(id)
    PROVE  InHand(id)' \/ Answered(id)'
<1>0. /\ HandsTyped
      /\ preparation # None =>
             DOMAIN preparation = {"id", "canceled", "active", "input", "result"}
  BY Zenon DEF Typed, HandsTyped
<1>a. ASSUME NEW a \in Said', a.id = id, Final(a) PROVE Answered(id)'
  BY <1>a, Zenon DEF Answered
<1>b. /\ Failure(id) \in Responses /\ Success(id, "previewed") \in Responses
      /\ Success(id, "applied") \in Responses
  BY ResponseTyped, ZenonT(30)
<1>c. /\ Failure(id).id = id /\ Final(Failure(id))
      /\ Success(id, "previewed").id = id /\ Final(Success(id, "previewed"))
      /\ Success(id, "applied").id = id /\ Final(Success(id, "applied"))
  BY FinalKinds
<1>d. ASSUME preparation # None, preparation.id = id, preparation'.id = preparation.id,
             DOMAIN preparation' = DOMAIN preparation
      PROVE  InHand(id)'
  <2>1. preparation' # None
    BY <1>0, <1>d, Zenon DEF NoneIsNoPreparation
  <2> QED
    BY <1>d, <2>1, Zenon DEF InHand, Held
<1>1. CASE preparation # None /\ preparation.id = id
  <2>1. CASE preparation' = preparation
    BY <1>1, <2>1, Zenon DEF InHand, Held
  <2>2. CASE DrainRequests
    <3>1. preparation' = FlagPreparation(Targets, Quitting) /\ Quitting \in BOOLEAN
      BY <2>2, Draining, Zenon DEF Quitting
    <3>2. preparation'.id = preparation.id /\ DOMAIN preparation' = DOMAIN preparation
      BY <1>0, <1>1, <3>1, FlagKeeps, Zenon
    <3> QED
      BY <1>1, <1>d, <3>2, Zenon
  <2>3. CASE FinishPreparation
    <3>1. heard' = heard /\ controls' = controls
      BY <2>3, ZenonT(30) DEF FinishPreparation, clientVars, requestVars
    <3>2. \/ preparation' = preparation
          \/ Respond(<<Failure(preparation.id)>>)
          \/ Respond(<<Success(preparation.id, "previewed")>>)
          \/ pc' = "activate" /\ commit' = [id |-> preparation.id, edit |-> preparation.result,
                                            revision |-> hostEntryRevision' + 1]
      BY <2>3, Zenon DEF FinishPreparation, RefusePrepared, KeepPreview, WriteSources
    <3>3. CASE Respond(<<Failure(preparation.id)>>)
      <4>1. Failure(id) \in Said'
        BY <1>1, <1>b, <3>1, <3>3, SaysOne, Zenon
      <4> QED
        BY <1>a, <1>c, <4>1, Zenon
    <3>4. CASE Respond(<<Success(preparation.id, "previewed")>>)
      <4>1. Success(id, "previewed") \in Said'
        BY <1>1, <1>b, <3>1, <3>4, SaysOne, Zenon
      <4> QED
        BY <1>a, <1>c, <4>1, Zenon
    <3>5. CASE pc' = "activate" /\ commit' = [id |-> preparation.id, edit |-> preparation.result,
                                              revision |-> hostEntryRevision' + 1]
      <4>1. commit'.id = id
        BY <1>1, <3>5
      <4> QED
        BY <3>5, <4>1, Zenon DEF InHand, Held
    <3> QED
      BY <2>1, <3>2, <3>3, <3>4, <3>5, Zenon
  <2>4. CASE Activate
    BY <2>1, <2>4, Zenon DEF Activate
  <2>5. CASE HandleRequest
    BY <1>1, <2>1, <2>5, Zenon DEF HandleRequest
  <2>6. CASE PrepareEdit
    <3>1. PICK result : preparation' = [preparation EXCEPT !.result = result]
      BY <2>6, Zenon DEF PrepareEdit
    <3>2. preparation'.id = preparation.id /\ DOMAIN preparation' = DOMAIN preparation
      BY <1>0, <1>1, <3>1
    <3> QED
      BY <1>1, <1>d, <3>2, Zenon
  <2> QED
    BY <2>1, <2>2, <2>3, <2>4, <2>5, <2>6, Frame, Zenon DEF HandStep, HandsStill
<1>2. CASE pc = "activate" /\ commit.id = id
  <2>1. CASE pc' = "activate" /\ commit' = commit
    BY <1>2, <2>1, Zenon DEF InHand, Held
  <2>2. CASE Activate
    <3>1. heard' = heard /\ controls' = controls
      BY <2>2, Zenon DEF Activate, clientVars, requestVars
    <3>2. Respond(<<Failure(id)>>) \/ Respond(<<Success(id, "applied")>>)
      BY <1>2, <2>2, Zenon DEF Activate, ActivateCandidate, RollbackPrepared
    <3>3. Failure(id) \in Said' \/ Success(id, "applied") \in Said'
      BY <1>b, <3>1, <3>2, SaysOne, Zenon
    <3> QED
      BY <1>a, <1>c, <3>3, Zenon
  <2>3. CASE DrainRequests \/ FinishPreparation \/ HandleRequest
    BY <1>2, <2>3, Zenon DEF DrainRequests, FinishPreparation, HandleRequest
  <2>4. CASE PrepareEdit
    BY <1>2, <2>1, <2>4, Zenon DEF PrepareEdit
  <2> QED
    BY <1>2, <2>1, <2>2, <2>3, <2>4, Frame, Zenon DEF HandStep, HandsStill
<1> QED
  BY <1>1, <1>2, Zenon DEF Held

LEMMA RequestsKeptStep ==
    ASSUME NoneIsNoPreparation, Typed, IdsInv, ControlsDone, RequestsKept, [Next]_vars
    PROVE  RequestsKept'
<1> SUFFICES ASSUME connected', NEW id \in 1 .. sent'
             PROVE  InHand(id)' \/ Answered(id)'
  BY Zenon DEF RequestsKept
<1>1. RepliesTyped /\ connected /\ Said \subseteq Said'
  BY BoundaryOrder, SaidStays, Zenon DEF IdsInv
<1>2. CASE id \in 1 .. sent
  <2>1. InHand(id) \/ Answered(id)
    BY <1>1, <1>2, Zenon DEF RequestsKept
  <2>2. CASE Answered(id)
    BY <1>1, <2>2, Zenon DEF Answered
  <2>3. CASE \E r \in Waiting : r.id = id
    BY <1>1, <2>3, WaitingKept, Zenon
  <2>4. CASE Held(id)
    <3>1. id \in Ids
      BY <2>4, Zenon DEF IdsInv, RepliesTyped, Held
    <3> QED
      BY <1>1, <2>4, <3>1, HeldIsKept, Zenon
  <2> QED
    BY <2>1, <2>2, <2>3, <2>4, Zenon DEF InHand
<1>3. CASE id \notin 1 .. sent
  <2>1. sent \in Nat /\ inbox \in Seq(Requests)
    BY Zenon DEF Typed, QueuesTyped
  <2>2. ~UNCHANGED queueVars
    BY <1>3 DEF queueVars
  <2>3. ~DrainRequests /\ ~HandleRequest
    <3>1. sent' # sent
      BY <1>3, Zenon
    <3> QED
      BY <3>1, Zenon DEF DrainRequests, HandleRequest, clientVars
  <2>4. PICK command \in Commands : Submit(command)
    BY <2>2, <2>3, Frame, Zenon DEF QueueStep
  <2> DEFINE request == [id |-> sent + 1, command |-> command]
  <2>5. sent' = sent + 1 /\ inbox' = Append(inbox, request) /\ sent < MaxRequests
    BY <2>4, ZenonT(30) DEF Submit
  <2>6. request \in Requests /\ request.id = sent + 1
    BY <2>1, <2>5, WorkspaceAssumption DEF Requests, Ids
  <2> HIDE DEF request
  <2>7. request \in Range(inbox')
    BY <2>1, <2>5, <2>6, RangeAppend
  <2>8. request.id = id
    BY <1>3, <2>1, <2>5, <2>6
  <2> QED
    BY <2>7, <2>8, Zenon DEF InHand, Waiting
<1> QED
  BY <1>2, <1>3, Zenon

\* No request is lost while its client stays: for queues and mailboxes of any
\* size, and however drains, cancels, failed edits, refused requests and a slow
\* client interleave.  This is what RequestsAnswered needs of the code; that the
\* loop and the workers go on is fairness.  It is proved for a None that is no
\* record of a preparation.
THEOREM NoRequestIsLost == NoneIsNoPreparation => (Spec => []RequestsKept)
<1> SUFFICES ASSUME NoneIsNoPreparation PROVE Spec => []RequestsKept
  OBVIOUS
<1>1. Init => ControlsDone /\ RequestsKept
  BY DEF Init, ControlsDone, RequestsKept
<1>2. Typed /\ IdsInv /\ ControlsDone /\ RequestsKept /\ [Next]_vars =>
          (ControlsDone /\ RequestsKept)'
  BY BoundaryOrder, RequestsKeptStep, Zenon
<1> QED
  BY <1>1, <1>2, PlayIsTyped, IdsAlways, PTL DEF Spec

\* Members of a queue with the same id are the same.
LEMMA UniqueIds ==
    ASSUME NEW queue \in Seq(Requests), Rising(queue),
           NEW a \in Range(queue), NEW b \in Range(queue), a.id = b.id
    PROVE  a = b
<1>1. PICK i \in DOMAIN queue : a = queue[i]
  BY DEF Range
<1>2. PICK j \in DOMAIN queue : b = queue[j]
  BY DEF Range
<1>3. i \in Nat /\ j \in Nat
  OBVIOUS
<1>4. a.id \in Nat
  <2>1. a \in Requests
    BY <1>1
  <2> QED
    BY <2>1, RequestTyped
<1>5. ~(i < j) /\ ~(j < i)
  BY <1>1, <1>2, <1>4 DEF Rising
<1>6. i = j
  BY <1>3, <1>5
<1> QED
  BY <1>1, <1>2, <1>6, Zenon

\* The first part of a queue comes before the rest of it.
LEMMA PartsRise ==
    ASSUME NEW queue \in Seq(Requests), Rising(queue), NEW n \in 0 .. Len(queue),
           NEW a \in Range(SubSeq(queue, 1, n)),
           NEW b \in Range(SubSeq(queue, n + 1, Len(queue)))
    PROVE  a.id < b.id
<1>1. PICK i \in DOMAIN SubSeq(queue, 1, n) : a = SubSeq(queue, 1, n)[i]
  BY DEF Range
<1>2. PICK j \in DOMAIN SubSeq(queue, n + 1, Len(queue)) :
          b = SubSeq(queue, n + 1, Len(queue))[j]
  BY Zenon DEF Range
<1>3. i \in DOMAIN queue /\ a = queue[i] /\ i \in Nat /\ i <= n
  BY <1>1
<1>4. n + j \in DOMAIN queue /\ b = queue[n + j] /\ n + j > n
  BY <1>2
<1>5. i < n + j
  BY <1>3, <1>4
<1> QED
  BY <1>3, <1>4, <1>5, ZenonT(30) DEF Rising

\* What a drain answers it takes out of the queues.
LEMMA DrainIsDone ==
    ASSUME Typed, IdsRise, DrainRequests,
           NEW r \in Range(Refused) \union Range(Dropped) \union Range(ControlRequests)
    PROVE  r \in Waiting /\ \A q \in Waiting' : q.id # r.id
<1>1. /\ inbox \in Seq(Requests) /\ pendingRequests \in Seq(Requests)
      /\ Len(pendingRequests) <= MaxPending
      /\ Rising(inbox) /\ \A p \in Range(pendingRequests), q \in Range(inbox) : p.id < q.id
  BY Zenon DEF Typed, QueuesTyped, IdsRise
<1>2. /\ OtherRequests \in Seq(Requests) /\ Backlog \in Seq(Requests)
      /\ Range(OtherRequests) \subseteq {p \in Range(inbox) : ~IsControl(p)}
      /\ Range(ControlRequests) \subseteq {p \in Range(inbox) : IsControl(p)}
      /\ Range(Backlog) \subseteq Range(pendingRequests) \union Range(OtherRequests)
      /\ Range(Refused) \subseteq Range(OtherRequests)
  BY BacklogTyped DEF Typed
<1> DEFINE kept == {p \in Range(Backlog) : p.id \notin Targets}
           cut == {p \in Range(Backlog) : p.id \in Targets}
<1>3. inbox' = <<>> /\ pendingRequests' = Filtered(Backlog, kept)
  BY Draining, ZenonT(30)
<1>4. Range(inbox') = {}
  BY <1>3 DEF Range
<1>5. Range(pendingRequests') \subseteq Range(Backlog) \intersect kept
  <2> HIDE DEF kept
  <2> QED
    BY <1>2, <1>3, FilteredKeeps, Zenon
<1>6. Range(Dropped) \subseteq Range(Backlog) \intersect cut
  <2>1. Dropped = Filtered(Backlog, cut)
    BY Zenon DEF Dropped
  <2> HIDE DEF cut
  <2> QED
    BY <1>2, <2>1, FilteredKeeps
<1>7. Waiting' = Range(pendingRequests')
  BY <1>4, Zenon DEF Waiting
<1>8. r \in Waiting
  BY <1>2, <1>6, Zenon DEF Waiting
<1>9. \A p \in Range(inbox) \union Range(pendingRequests) : p.id \in Nat
  BY <1>1, RequestTyped DEF Range
<1>10. SUFFICES ASSUME NEW q \in Range(pendingRequests'), q.id = r.id PROVE FALSE
  BY <1>7, <1>8, Zenon
<1>11. q \in Range(Backlog) /\ q.id \notin Targets
  BY <1>5
<1>12. r \notin Range(Dropped)
  BY <1>6, <1>10, <1>11, Zenon
<1>13. r \in Range(inbox)
  BY <1>2, <1>12
<1>14. q \notin Range(pendingRequests)
  <2>1. q \in Range(pendingRequests) => q.id < r.id
    BY <1>1, <1>13, Zenon
  <2> QED
    BY <1>9, <1>10, <1>13, <2>1
<1>15. q \in Range(OtherRequests)
  BY <1>2, <1>11, <1>14, Zenon
<1>16. CASE r \in Range(ControlRequests)
  <2>1. q \in Range(inbox) /\ ~IsControl(q) /\ IsControl(r)
    BY <1>2, <1>15, <1>16
  <2>2. q = r
    BY <1>1, <1>10, <1>13, <2>1, UniqueIds, Zenon
  <2> QED
    BY <2>1, <2>2, Zenon
<1>17. CASE r \in Range(Refused)
  <2> DEFINE n == Admitted(OtherRequests)
  <2>1. n \in 0 .. Len(OtherRequests)
    BY <1>2, AdmittedFit, Zenon DEF Typed
  <2>2. /\ Backlog = pendingRequests \o SubSeq(OtherRequests, 1, n)
        /\ Refused = SubSeq(OtherRequests, n + 1, Len(OtherRequests))
    BY Zenon DEF Backlog, Refused
  <2>3. Rising(OtherRequests)
    BY <1>1, FilteredKeeps, Zenon DEF OtherRequests
  <2> HIDE DEF n
  <2>4. SubSeq(OtherRequests, 1, n) \in Seq(Requests)
    BY <1>2, <2>1, RangeParts, Zenon
  <2>5. Range(Backlog) = Range(pendingRequests) \union Range(SubSeq(OtherRequests, 1, n))
    <3> DEFINE taken == SubSeq(OtherRequests, 1, n)
    <3>1. Backlog = pendingRequests \o taken /\ taken \in Seq(Requests)
      BY <2>2, <2>4, Zenon
    <3> HIDE DEF taken
    <3>2. Range(pendingRequests \o taken) = Range(pendingRequests) \union Range(taken)
      BY <1>1, <3>1, RangeJoined
    <3> QED
      BY <3>1, <3>2, Zenon DEF taken
  <2>6. q \in Range(SubSeq(OtherRequests, 1, n))
    BY <1>11, <1>14, <2>5, Zenon
  <2>7. r \in Range(SubSeq(OtherRequests, n + 1, Len(OtherRequests)))
    BY <1>17, <2>2, Zenon
  <2>8. q.id < r.id
    BY <1>2, <2>1, <2>3, <2>6, <2>7, PartsRise, Zenon
  <2> QED
    BY <1>9, <1>10, <1>13, <2>8
<1> QED
  BY <1>12, <1>16, <1>17, Zenon

\* Who gives a request its last response.
LEMMA FinallySaid ==
    ASSUME Typed, RepliesTyped, [Next]_vars, NEW a \in Said', a \notin Said, Final(a)
    PROVE  \/ /\ DrainRequests
              /\ \E r \in Range(Refused) \union Range(Dropped) \union Range(ControlRequests) :
                     a.id = r.id
           \/ /\ FinishPreparation /\ preparation # None /\ a.id = preparation.id
              /\ preparation' = None /\ pc' = "controls"
           \/ Activate /\ a.id = commit.id
           \/ /\ HandleRequest /\ pendingRequests # <<>> /\ a.id = Head(pendingRequests).id
              /\ preparation' = preparation
<1>0. /\ mailbox \in Seq(Responses) /\ pendingResponses \in Seq(Responses)
      /\ controls \in Seq(Responses)
  BY Zenon DEF RepliesTyped
<1>a. <<>> \in Seq(Responses) /\ Range(<<>>) = {}
  BY DEF Range
<1>1. CASE UNCHANGED spokenVars
  <2>1. Said' = Said
    BY <1>1 DEF spokenVars, Said
  <2> QED
    BY <2>1, Zenon
<1>2. CASE BlockedBoundary
  <2>1. Deliver(<<>>, pendingResponses) /\ heard' = heard /\ controls' = controls
    BY <1>2 DEF BlockedBoundary, Post, clientVars, requestVars
  <2>2. Range(mailbox') \union Range(pendingResponses')
            \subseteq Range(mailbox) \union Range(pendingResponses) \union Range(pendingResponses)
    BY <1>0, <1>a, <2>1, Delivered, ZenonT(30)
  <2>3. Said' \subseteq Said
    BY <2>1, <2>2, Zenon DEF Said
  <2> QED
    BY <2>3, Zenon
<1>3. CASE DrainRequests
  <2>1. a \in Range(Failures) \union Range(controls')
    BY <1>3, DrainSpeaks, Zenon DEF Speaks
  <2>2. CASE a \in Range(Failures)
    <3>1. PICK r \in Range(Refused) \union Range(Dropped) : a = Failure(r.id)
      BY <2>2, FailuresAll, Zenon
    <3>2. a.id = r.id
      BY <3>1, FinalKinds, Zenon
    <3> QED
      BY <1>3, <3>2, Zenon
  <2>3. CASE a \in Range(controls')
    <3>1. PICK r \in Range(ControlRequests) : a = ControlResponse(r)
      BY <1>3, <2>3, ControlsTyped, Zenon
    <3>2. a.id = r.id
      BY <3>1, ControlFinal, Zenon
    <3> QED
      BY <1>3, <3>2, Zenon
  <2> QED
    BY <2>1, <2>2, <2>3, Zenon
<1>4. CASE FinishPreparation
  <2>1. heard' = heard /\ controls' = controls
    BY <1>4, ZenonT(30) DEF FinishPreparation, clientVars, requestVars
  <2>2. ~UNCHANGED <<mailbox, pendingResponses>>
    <3>1. UNCHANGED <<mailbox, pendingResponses>> => Said' = Said
      BY <2>1 DEF Said
    <3> QED
      BY <3>1, Zenon
  <2>3. /\ preparation # None /\ preparation' = None /\ pc' = "controls"
        /\ \/ Respond(<<Failure(preparation.id)>>)
           \/ Respond(<<Success(preparation.id, "previewed")>>)
    BY <1>4, <2>2, Zenon DEF FinishPreparation, RefusePrepared, KeepPreview, WriteSources,
                             replyVars, PreparationReady
  <2>4. preparation.id \in Ids
    BY <2>3, Zenon DEF RepliesTyped
  <2>5. Failure(preparation.id) \in Responses /\ Success(preparation.id, "previewed") \in Responses
    BY <2>4, ResponseTyped
  <2>6. a = Failure(preparation.id) \/ a = Success(preparation.id, "previewed")
    BY <2>1, <2>3, <2>5, Responding, Zenon DEF Speaks
  <2>7. a.id = preparation.id
    BY <2>6, FinalKinds, Zenon
  <2> QED
    BY <1>4, <2>3, <2>7, Zenon
<1>5. CASE Activate
  <2>1. heard' = heard /\ controls' = controls
    BY <1>5, Zenon DEF Activate, clientVars, requestVars
  <2>2. Respond(<<Failure(commit.id)>>) \/ Respond(<<Success(commit.id, "applied")>>)
    BY <1>5, Zenon DEF Activate, ActivateCandidate, RollbackPrepared
  <2>3. commit.id \in Ids
    BY <1>5, Zenon DEF RepliesTyped, Activate
  <2>4. Failure(commit.id) \in Responses /\ Success(commit.id, "applied") \in Responses
    BY <2>3, ResponseTyped
  <2>5. a = Failure(commit.id) \/ a = Success(commit.id, "applied")
    BY <2>1, <2>2, <2>4, Responding, Zenon DEF Speaks
  <2>6. a.id = commit.id
    BY <2>5, FinalKinds, Zenon
  <2> QED
    BY <1>5, <2>6, Zenon
<1>6. CASE AnswerControls
  <2>1. Deliver(pendingResponses, controls) /\ heard' = heard /\ controls' = <<>>
    BY <1>6, Zenon DEF AnswerControls, clientVars
  <2>2. Range(mailbox') \union Range(pendingResponses')
            \subseteq Range(mailbox) \union Range(pendingResponses) \union Range(controls)
    BY <1>0, <2>1, Delivered, Zenon
  <2>3. Said' \subseteq Said
    BY <1>a, <2>1, <2>2, Zenon DEF Said
  <2> QED
    BY <2>3, Zenon
<1>7. CASE HandleRequest
  <2> DEFINE request == Head(pendingRequests)
             starts == preparation = None /\ HasInput(request.command)
  <2>1. heard' = heard /\ controls' = controls /\ pendingRequests # <<>>
    BY <1>7, Zenon DEF HandleRequest, clientVars
  <2>2. request.id \in Ids
    BY <2>1, RangeTail, RequestTyped, Zenon DEF Typed, QueuesTyped
  <2>3. Failure(request.id) \in Responses /\ Success(request.id, "preparing") \in Responses
    BY <2>2, ResponseTyped
  <2>4. CASE starts
    <3>1. Respond(<<Success(request.id, "preparing")>>)
      BY <1>7, <2>4, Zenon DEF HandleRequest
    <3>2. a = Success(request.id, "preparing")
      BY <2>1, <2>3, <3>1, Responding, Zenon DEF Speaks
    <3> QED
      BY <3>2, FinalKinds, Zenon
  <2>5. CASE ~starts
    <3>1. Respond(<<Failure(request.id)>>) /\ preparation' = preparation
      BY <1>7, <2>5, Zenon DEF HandleRequest
    <3>2. a = Failure(request.id)
      BY <2>1, <2>3, <3>1, Responding, Zenon DEF Speaks
    <3>3. a.id = request.id
      BY <3>2, FinalKinds, Zenon
    <3> QED
      BY <1>7, <2>1, <3>1, <3>3, Zenon
  <2> QED
    BY <2>4, <2>5, Zenon
<1>8. CASE Receive
  <2>1. /\ heard' = heard \union {Head(mailbox)} /\ mailbox' = Tail(mailbox) /\ mailbox # <<>>
        /\ pendingResponses' = pendingResponses /\ controls' = controls
    BY <1>8 DEF Receive, requestVars
  <2>2. Range(mailbox) = {Head(mailbox)} \union Range(Tail(mailbox))
    BY <1>0, <2>1, RangeTail, Zenon
  <2>3. Said' \subseteq Said
    BY <2>1, <2>2, Zenon DEF Said
  <2> QED
    BY <2>3, Zenon
<1> QED
  BY <1>1, <1>2, <1>3, <1>4, <1>5, <1>6, <1>7, <1>8, Frame, Zenon DEF SpeakStep

LEMMA OverStep ==
    ASSUME Typed, Typed', IdsInv, OverInv, [Next]_vars
    PROVE  OverInv'
<1> SUFFICES ASSUME NEW a \in Said', Final(a), NEW id, id = a.id
             PROVE  Spent(id)' /\ ~Held(id)'
  BY Zenon DEF OverInv, Spent, Held
<1>0. RepliesTyped /\ IdsRise /\ HandsTyped /\ \A i : Spent(i) => Spent(i)'
  BY IdsKeepRising, Zenon DEF IdsInv, Typed
<1>1. CASE a \in Said
  <2>1. Spent(id) /\ Spent(id)' /\ ~Held(id)
    BY <1>0, <1>1, Zenon DEF OverInv
  <2>2. ASSUME preparation' # None PROVE preparation'.id # id
    <3>1. CASE preparation # None /\ preparation'.id = preparation.id
      BY <2>1, <3>1, Zenon DEF Held
    <3>2. CASE HandleRequest /\ pendingRequests # <<>>
                  /\ preparation'.id = Head(pendingRequests).id
      <4>1. ~Spent(preparation'.id)
        BY <3>2, HeadIsFresh, Zenon
      <4> QED
        BY <2>1, <4>1, Zenon
    <3> QED
      BY <2>2, <3>1, <3>2, PreparesFrom, Zenon
  <2>3. ASSUME pc' = "activate" PROVE commit'.id # id
    <3>1. CASE pc = "activate" /\ commit'.id = commit.id
      BY <2>1, <3>1, Zenon DEF Held
    <3>2. CASE HasResult /\ commit'.id = preparation.id
      BY <2>1, <3>2, Zenon DEF Held, HasResult
    <3> QED
      BY <2>3, <3>1, <3>2, CommitsFrom, Zenon
  <2> QED
    BY <2>1, <2>2, <2>3, Zenon DEF Held
<1>2. CASE a \notin Said
  <2>1. CASE /\ DrainRequests
             /\ \E r \in Range(Refused) \union Range(Dropped) \union Range(ControlRequests) :
                    a.id = r.id
    <3>1. PICK r \in Waiting : id = r.id /\ \A q \in Waiting' : q.id # r.id
      BY <1>0, <2>1, DrainIsDone, Zenon
    <3>2. id \in Nat /\ id <= sent
      <4>1. r \in Requests
        BY WaitingTyped, Zenon DEF Typed
      <4> QED
        BY <1>0, <3>1, <4>1, RequestTyped, ZenonT(30) DEF IdsRise
    <3>3. pc' = "finish" /\ sent' = sent
      BY <2>1, Draining
    <3>4. Spent(id)'
      BY <3>1, <3>2, <3>3, Zenon DEF Spent
    <3>5. preparation' # None => preparation # None /\ preparation'.id = preparation.id
      <4>1. ~HandleRequest
        BY <2>1, Zenon DEF DrainRequests, HandleRequest
      <4> QED
        BY <4>1, PreparesFrom, Zenon
    <3>6. preparation # None => preparation.id # id
      BY <3>1, Zenon DEF IdsInv, IdsHeld, Spent
    <3>7. pc' # "activate"
      BY <3>3
    <3> QED
      BY <3>4, <3>5, <3>6, <3>7, Zenon DEF Held
  <2>2. CASE /\ FinishPreparation /\ preparation # None /\ a.id = preparation.id
             /\ preparation' = None /\ pc' = "controls"
    <3>1. Spent(id)'
      BY <1>0, <2>2, Zenon DEF IdsInv, IdsHeld
    <3>2. pc' # "activate"
      BY <2>2
    <3> QED
      BY <2>2, <3>1, <3>2, Zenon DEF Held
  <2>3. CASE Activate /\ a.id = commit.id
    <3>1. pc = "activate" /\ pc' = "controls" /\ preparation' = preparation
      BY <2>3, Zenon DEF Activate
    <3>2. preparation = None
      BY <1>0, <3>1, Zenon DEF HandsTyped
    <3>3. Spent(id)'
      BY <1>0, <2>3, <3>1, Zenon DEF IdsInv, IdsHeld
    <3>4. pc' # "activate"
      BY <3>1
    <3> QED
      BY <3>1, <3>2, <3>3, <3>4, Zenon DEF Held
  <2>4. CASE /\ HandleRequest /\ pendingRequests # <<>> /\ a.id = Head(pendingRequests).id
             /\ preparation' = preparation
    <3>1. ~Spent(id) /\ Spent(id)'
      BY <2>4, HeadIsFresh, Zenon
    <3>2. preparation # None => preparation.id # id
      BY <3>1, Zenon DEF IdsInv, IdsHeld
    <3>3. pc' # "activate"
      BY <2>4 DEF HandleRequest
    <3> QED
      BY <2>4, <3>1, <3>2, <3>3, Zenon DEF Held
  <2> QED
    BY <1>0, <1>2, <2>1, <2>2, <2>3, <2>4, FinallySaid, Zenon
<1> QED
  BY <1>1, <1>2, Zenon

\* A request is answered for good at most once: whoever gives the last response,
\* a drain that refuses or drops it, a preparation that fails, a commit or its
\* rollback, has it in hand alone, and the id never comes back.
THEOREM AnsweredOnce == Spec => []AnsweredForGood
<1>1. Init => OverInv
  <2>1. Init => Said = {}
    BY DEF Init, Said, Range
  <2> QED
    BY <2>1, Zenon DEF OverInv
<1>2. Typed /\ Typed' /\ IdsInv /\ OverInv /\ [Next]_vars => OverInv'
  BY OverStep, Zenon
<1>3. OverInv => AnsweredForGood
  BY Zenon DEF OverInv, AnsweredForGood, InHand, Spent
<1> QED
  BY <1>1, <1>2, <1>3, PlayIsTyped, IdsAlways, PTL DEF Spec

-----------------------------------------------------------------------------
(* The history *)

\* A new entry goes where the cursor is, and replays on top of what was there.
LEMMA Pushing ==
    ASSUME PlansTyped, HistoryFits, NEW plan \in Plans, PlanFits(plan, FALSE, Replayed),
           NEW pushed, pushed = PushHistory(plan)
    PROVE  /\ pushed \in Seq(Plans) /\ Len(pushed) = historyCursor + 1
           /\ Replay(pushed)[historyCursor + 1] = ApplyPlan(plan, FALSE, Replayed)
           /\ \A n \in 1 .. Len(pushed) : PlanFits(pushed[n], FALSE, Replay(pushed)[n - 1])
<1> DEFINE N == historyCursor
<1>1. history \in Seq(Plans) /\ N \in 0 .. Len(history) /\ Len(history) \in Nat
  BY DEF PlansTyped
<1>2. /\ pushed \in Seq(Plans) /\ Len(pushed) = N + 1
      /\ \A i \in 1 .. N : pushed[i] = history[i]
      /\ pushed[N + 1] = plan
  BY <1>1 DEF PushHistory
<1>3. N \in Nat /\ N <= Len(history) /\ N <= Len(pushed)
  BY <1>1, <1>2
<1>4. \A n \in 0 .. N : Replay(pushed)[n] = Replay(history)[n]
  <2> HIDE DEF N
  <2> QED
    BY <1>1, <1>2, <1>3, ReplayPrefix, Zenon
<1>5. N + 1 \in 1 .. Len(pushed) /\ (N + 1) - 1 = N /\ N \in 0 .. N
  BY <1>2, <1>3
<1>6. Replay(pushed)[N] = Replayed
  BY <1>4, <1>5 DEF Replayed
<1>7. Replay(pushed)[N + 1] = ApplyPlan(pushed[N + 1], FALSE, Replay(pushed)[(N + 1) - 1])
  <2> HIDE DEF N
  <2> QED
    BY <1>2, <1>5, ReplayUnfolds, Zenon
<1>8. Replay(pushed)[N + 1] = ApplyPlan(plan, FALSE, Replayed)
  BY <1>2, <1>5, <1>6, <1>7, Zenon
<1>9. ASSUME NEW n \in 1 .. Len(pushed)
      PROVE  PlanFits(pushed[n], FALSE, Replay(pushed)[n - 1])
  <2>1. CASE n = N + 1
    BY <1>2, <1>5, <1>6, <2>1, Zenon
  <2>2. CASE n \in 1 .. N
    <3>1. n - 1 \in 0 .. N /\ n \in 1 .. Len(history)
      BY <1>3, <2>2
    <3>2. PlanFits(history[n], FALSE, Replay(history)[n - 1])
      BY <3>1, Zenon DEF HistoryFits
    <3> QED
      BY <1>2, <1>4, <2>2, <3>1, <3>2, Zenon
  <2>3. n \in 1 .. N + 1
    BY <1>2
  <2>4. n = N + 1 \/ n \in 1 .. N
    BY <1>3, <2>3
  <2> QED
    BY <2>1, <2>2, <2>4, Zenon
<1> QED
  BY <1>2, <1>8, <1>9, Zenon

\* An undo and a redo go to the sources of the entry before and after.
LEMMA Stepping ==
    ASSUME PlansTyped, HistoryFits
    PROVE  /\ historyCursor > 0 =>
                 ApplyPlan(history[historyCursor], TRUE, Replayed) = Replay(history)[historyCursor - 1]
           /\ historyCursor < Len(history) =>
                 ApplyPlan(history[historyCursor + 1], FALSE, Replayed)
                     = Replay(history)[historyCursor + 1]
<1> DEFINE N == historyCursor
<1>1. /\ history \in Seq(Plans) /\ N \in 0 .. Len(history) /\ Len(history) \in Nat
      /\ Replayed = Replay(history)[N]
  BY DEF PlansTyped, Replayed
<1> HIDE DEF N
<1>2. ASSUME N > 0 PROVE ApplyPlan(history[N], TRUE, Replayed) = Replay(history)[N - 1]
  <2>1. N \in 1 .. Len(history) /\ N - 1 \in 0 .. Len(history)
    BY <1>1, <1>2
  <2>2. history[N] \in Plans /\ Replay(history)[N - 1] \in Sources
    <3>1. Replay(history) \in [0 .. Len(history) -> Sources]
      BY <1>1, ReplayUnfolds, Zenon
    <3> QED
      BY <1>1, <2>1, <3>1
  <2>3. Replayed = ApplyPlan(history[N], FALSE, Replay(history)[N - 1])
    BY <1>1, <2>1, ReplayUnfolds, Zenon
  <2>4. PlanFits(history[N], FALSE, Replay(history)[N - 1])
    BY <2>1, Zenon DEF HistoryFits
  <2>5. ApplyPlan(history[N], ~FALSE, ApplyPlan(history[N], FALSE, Replay(history)[N - 1]))
            = Replay(history)[N - 1]
    BY <2>2, <2>4, RestoresWhatItFound, Zenon
  <2> QED
    BY <2>3, <2>5, Zenon
<1>3. ASSUME N < Len(history)
      PROVE  ApplyPlan(history[N + 1], FALSE, Replayed) = Replay(history)[N + 1]
  <2>1. N + 1 \in 1 .. Len(history) /\ (N + 1) - 1 = N
    BY <1>1, <1>3
  <2>2. Replay(history)[N + 1] = ApplyPlan(history[N + 1], FALSE, Replay(history)[(N + 1) - 1])
    BY <1>1, <2>1, ReplayUnfolds, Zenon
  <2> QED
    BY <1>1, <2>1, <2>2, ZenonT(30)
<1> QED
  BY <1>2, <1>3, Zenon DEF N

\* Committing an edit that was made for what the history replays to.
LEMMA CursorFollows ==
    ASSUME Typed, pc = "activate", ActivateCandidate, HistoryFits,
           commit.edit.inputs = Replayed
    PROVE  HistoryFits' /\ Replayed' = commit.edit.candidate
<1> DEFINE edit == commit.edit
<1>1. /\ edit.plan \in Plans /\ edit.restore \in BOOLEAN /\ edit.action \in Actions
      /\ PlanFits(edit.plan, edit.restore, Replayed)
      /\ edit.candidate = ApplyPlan(edit.plan, edit.restore, Replayed)
      /\ ActionTied(edit.action, edit.restore, edit.plan)
      /\ edit.action # "preview"
  BY Zenon DEF Typed, HandsTyped, Tied, PreparedTyped
<1>2. PlansTyped
  BY DEF Typed
<1>3. /\ history' = IF edit.action \in {"new", "pending"} THEN PushHistory(edit.plan) ELSE history
      /\ historyCursor' = CASE edit.action = "undo" -> historyCursor - 1
                            [] edit.action = "redo" -> historyCursor + 1
                            [] OTHER                -> Len(history')
  BY DEF ActivateCandidate
<1> HIDE DEF edit
<1>4. CASE edit.action \in {"new", "pending"}
  <2>1. edit.restore = FALSE
    BY <1>1, <1>4 DEF ActionTied
  <2>2. history' = PushHistory(edit.plan) /\ historyCursor' = Len(history')
    BY <1>3, <1>4
  <2>3. /\ Len(history') = historyCursor + 1
        /\ Replay(history')[historyCursor + 1] = ApplyPlan(edit.plan, FALSE, Replayed)
        /\ \A n \in 1 .. Len(history') : PlanFits(history'[n], FALSE, Replay(history')[n - 1])
    BY <1>1, <1>2, <2>1, <2>2, Pushing, Zenon
  <2>4. HistoryFits'
    BY <2>3, Zenon DEF HistoryFits
  <2>5. Replayed' = edit.candidate
    BY <1>1, <2>1, <2>2, <2>3, Zenon DEF Replayed
  <2> QED
    BY <2>4, <2>5, ZenonT(30) DEF edit
<1>5. CASE edit.action \in {"undo", "redo"}
  <2>1. UNCHANGED history
    BY <1>3, <1>5
  <2>2. HistoryFits'
    BY <2>1, Zenon DEF HistoryFits
  <2>3. Replayed' = edit.candidate
    <3>1. CASE edit.action = "undo"
      <4>1. edit.restore = TRUE /\ historyCursor > 0 /\ edit.plan = history[historyCursor]
        BY <1>1, <3>1 DEF ActionTied
      <4>2. historyCursor' = historyCursor - 1
        BY <1>3, <3>1
      <4>3. edit.candidate = Replay(history)[historyCursor - 1]
        BY <1>1, <1>2, <4>1, Stepping, Zenon
      <4> QED
        BY <2>1, <4>2, <4>3, ZenonT(30) DEF Replayed
    <3>2. CASE edit.action = "redo"
      <4>1. /\ edit.restore = FALSE /\ historyCursor < Len(history)
            /\ edit.plan = history[historyCursor + 1]
        BY <1>1, <3>2 DEF ActionTied
      <4>2. historyCursor' = historyCursor + 1
        BY <1>3, <3>2
      <4>3. edit.candidate = Replay(history)[historyCursor + 1]
        BY <1>1, <1>2, <4>1, Stepping, Zenon
      <4> QED
        BY <2>1, <4>2, <4>3, ZenonT(30) DEF Replayed
    <3> QED
      BY <1>5, <3>1, <3>2
  <2> QED
    BY <2>2, <2>3 DEF edit
<1> QED
  BY <1>1, <1>4, <1>5 DEF Actions

\* Every entry of the history keeps its receipt.
LEMMA ReceiptsKept ==
    ASSUME Typed, Range(history) \subseteq receipts, [Next]_vars
    PROVE  Range(history') \subseteq receipts'
<1>1. CASE UNCHANGED planVars
  BY <1>1 DEF planVars
<1>2. CASE FinishPreparation
  BY <1>2, ZenonT(30) DEF FinishPreparation, RefusePrepared, KeepPreview, WriteSources, editVars
<1>3. CASE Activate /\ RollbackPrepared
  BY <1>3 DEF RollbackPrepared, CleanupNewReceipt
<1>4. CASE Activate /\ ActivateCandidate
  <2> DEFINE plan == commit.edit.plan
             kept == SubSeq(history, 1, historyCursor)
  <2>1. plan \in Plans /\ history \in Seq(Plans) /\ historyCursor \in 0 .. Len(history)
    BY <1>4 DEF Activate, Typed, HandsTyped, PreparedTyped, PlansTyped
  <2>2. /\ receipts' = receipts \union {plan}
        /\ history' = history \/ history' = Append(kept, plan)
    BY <1>4, Zenon DEF ActivateCandidate, PushHistory
  <2>3. 1 \in 1 .. Len(history) + 1
    BY <2>1
  <2>4. kept \in Seq(Plans) /\ Range(kept) \subseteq Range(history)
    BY <2>1, <2>3, RangeSubSeq, ZenonT(30)
  <2> HIDE DEF plan, kept
  <2>5. Range(Append(kept, plan)) = Range(kept) \union {plan}
    BY <2>1, <2>4, RangeAppend
  <2> QED
    BY <2>2, <2>4, <2>5, ZenonT(30)
<1> QED
  BY <1>1, <1>2, <1>3, <1>4, Frame, ZenonT(30) DEF PlanStep, Activate

LEMMA FinishUndisturbed ==
    ASSUME Typed, Undisturbed, FinishPreparation, UNCHANGED sessionVars
    PROVE  Undisturbed'
<1>0. /\ UNCHANGED <<requestedRevision, finishedRevision, watchJob, history, historyCursor>>
      /\ SourcesTyped
  BY Zenon DEF sessionVars, FinishPreparation, RefusePrepared, KeepPreview, WriteSources, editVars, Typed
<1>1. HistoryFits' /\ Replayed' = Replayed
  BY <1>0, Zenon DEF Undisturbed, HistoryFits, Replayed
<1>2. CASE /\ UNCHANGED <<disk, running, events, selfWriteHashes, commit>>
           /\ pc = "finish" /\ pc' = "controls"
  BY <1>0, <1>1, <1>2, Zenon DEF Undisturbed
<1>3. CASE /\ WriteSources(preparation.result)
           /\ PreparedTyped(preparation.result)
           /\ disk = preparation.result.inputs
           /\ pc = "finish"
  <2> DEFINE edit == preparation.result
             back == ~edit.restore
  <2>1. /\ edit.plan \in Plans /\ edit.restore \in BOOLEAN /\ back \in BOOLEAN
        /\ PlanFits(edit.plan, edit.restore, disk)
        /\ edit.candidate = ApplyPlan(edit.plan, edit.restore, disk)
    BY <1>3, Zenon DEF PreparedTyped
  <2>2. /\ events' = events \union DOMAIN edit.plan /\ running' = running
        /\ \/ /\ disk' = ApplyPlan(edit.plan, edit.restore, disk)
              /\ commit'.edit = edit /\ pc' = "activate"
              /\ selfWriteHashes' = RememberPlanHashes(edit.plan, edit.restore)
           \/ /\ disk' = disk /\ pc' = "controls"
              /\ selfWriteHashes' = RememberPlanHashes(edit.plan, back)
    BY <1>3, Writing, Zenon
  <2>3. /\ disk = Replayed /\ edit.inputs = disk /\ running = Replayed
        /\ Matching(events, selfWriteHashes, disk)
    BY <1>3, Zenon DEF Undisturbed
  <2>4. \A f \in DOMAIN edit.plan : disk[f] = PlanSource(edit.plan, back, f)
    BY <2>1, Zenon DEF PlanFits
  <2> HIDE DEF edit, back
  <2>5. /\ Matching(events \union DOMAIN edit.plan, RememberPlanHashes(edit.plan, edit.restore),
                    ApplyPlan(edit.plan, edit.restore, disk))
        /\ Matching(events \union DOMAIN edit.plan, RememberPlanHashes(edit.plan, back), disk)
    BY <1>0, <2>1, <2>3, <2>4, RemembersDisk, RemembersWritten, Zenon
  <2>6. Matching(events', selfWriteHashes', disk')
    BY <2>2, <2>5, Zenon
  <2> QED
    BY <1>0, <1>1, <2>1, <2>2, <2>3, <2>6, Zenon DEF Undisturbed
<1> QED
  BY <1>2, <1>3, Finishing, Zenon

LEMMA ActivateUndisturbed ==
    ASSUME Typed, Undisturbed, Activate, UNCHANGED sessionVars
    PROVE  Undisturbed'
<1> DEFINE edit == commit.edit
           back == ~edit.restore
<1>0. /\ UNCHANGED <<requestedRevision, finishedRevision, watchJob>>
      /\ SourcesTyped /\ pc = "activate" /\ pc' = "controls"
  BY Zenon DEF sessionVars, Typed, Activate
<1>1. /\ edit.plan \in Plans /\ edit.restore \in BOOLEAN /\ back \in BOOLEAN
      /\ edit.inputs \in Sources
      /\ PlanFits(edit.plan, edit.restore, edit.inputs)
      /\ edit.candidate = ApplyPlan(edit.plan, edit.restore, edit.inputs)
  BY <1>0, Zenon DEF Typed, HandsTyped, PreparedTyped
<1>2. /\ edit.inputs = Replayed /\ disk = edit.candidate
      /\ HistoryFits /\ Matching(events, selfWriteHashes, disk)
      /\ running = Replayed
  BY <1>0, Zenon DEF Undisturbed
<1>3. /\ PlanFits(edit.plan, back, disk)
      /\ ApplyPlan(edit.plan, back, disk) = edit.inputs
  <2>1. /\ PlanFits(edit.plan, ~edit.restore, disk)
        /\ ApplyPlan(edit.plan, ~edit.restore, disk) = edit.inputs
    <3> HIDE DEF edit
    <3> QED
      BY <1>1, <1>2, RestoresWhatItFound
  <2> QED
    BY <2>1, ZenonT(30)
<1>4. CASE ActivateCandidate
  <2>1. HistoryFits' /\ Replayed' = edit.candidate
    BY <1>0, <1>2, <1>4, CursorFollows
  <2>2. /\ UNCHANGED <<disk, events>> /\ running' = edit.candidate
        /\ selfWriteHashes' = RememberPlanHashes(edit.plan, edit.restore)
    BY <1>4, Zenon DEF ActivateCandidate
  <2>3. \A f \in DOMAIN edit.plan : disk[f] = PlanSource(edit.plan, ~back, f)
    BY <1>3, Zenon DEF PlanFits
  <2>4. (~back) = edit.restore
    BY <1>1
  <2>5. \A f \in DOMAIN edit.plan : disk[f] = PlanSource(edit.plan, edit.restore, f)
    <3> HIDE DEF edit, back
    <3> QED
      BY <2>3, <2>4, Zenon
  <2> HIDE DEF edit, back
  <2>6. Matching(events \union DOMAIN edit.plan, RememberPlanHashes(edit.plan, edit.restore), disk)
    BY <1>0, <1>1, <1>2, <2>5, RemembersDisk, Zenon
  <2>7. Matching(events', selfWriteHashes', disk')
    BY <2>2, <2>6, Zenon DEF Matching
  <2> QED
    BY <1>0, <1>2, <2>1, <2>2, <2>7, Zenon DEF Undisturbed
<1>5. CASE RollbackPrepared
  <2>1. UNCHANGED <<history, historyCursor, running>>
    BY <1>5, Zenon DEF RollbackPrepared
  <2>2. HistoryFits' /\ Replayed' = Replayed
    BY <1>2, <2>1, Zenon DEF HistoryFits, Replayed
  <2>3. /\ disk' = ApplyPlan(edit.plan, back, disk)
        /\ events' = events \union DOMAIN edit.plan
        /\ selfWriteHashes' = RememberPlanHashes(edit.plan, back)
    BY <1>3, <1>5, Zenon DEF RollbackPrepared
  <2> HIDE DEF edit, back
  <2>4. Matching(events \union DOMAIN edit.plan, RememberPlanHashes(edit.plan, back),
                 ApplyPlan(edit.plan, back, disk))
    BY <1>0, <1>1, <1>2, RemembersWritten, Zenon
  <2>5. Matching(events', selfWriteHashes', disk')
    BY <2>3, <2>4, Zenon
  <2> QED
    BY <1>0, <1>2, <1>3, <2>1, <2>2, <2>3, <2>5, Zenon DEF Undisturbed
<1> QED
  BY <1>4, <1>5, Zenon DEF Activate

LEMMA WatchUndisturbed ==
    ASSUME Typed, Undisturbed, WatchStep, writes = 0, writes' = 0
    PROVE  Undisturbed'
<1>0. SourcesTyped /\ watchJob = None /\ requestedRevision = 0 /\ finishedRevision = 0
  BY DEF Typed, Undisturbed
<1>1. ~TakeWatchResult /\ ~CompileSources /\ ~(\E f \in Files : ReadSource(f))
  BY <1>0 DEF TakeWatchResult, WatchReady, CompileSources, ReadSource
<1>2. ~(\E f \in Files, content \in Contents : content \in Written[f] /\ Save(f, content))
  <2>1. ASSUME NEW f, NEW content, Save(f, content) PROVE writes' = writes + 1
    BY <2>1, Zenon DEF Save
  <2>2. writes' # writes + 1
    OBVIOUS
  <2> QED
    BY <2>1, <2>2, Zenon
<1>3. CASE StartWatchJob
  <2>1. /\ UNCHANGED <<disk, running, events, selfWriteHashes, requestedRevision, finishedRevision,
                       history, historyCursor, watchJob>>
        /\ pc # "activate" /\ pc' # "activate"
    BY <1>0, <1>3 DEF StartWatchJob, worldVars, editVars
  <2> QED
    BY <2>1, Zenon DEF Undisturbed, HistoryFits, Replayed
<1>4. CASE DrainEvents
  <2>1. /\ UNCHANGED <<disk, running, finishedRevision, history, historyCursor, watchJob>>
        /\ events' = {} /\ pc # "activate" /\ pc' # "activate"
    BY <1>4, Zenon DEF DrainEvents
  <2>2. {f \in events : ~ConsumesSelfWrite(f)} = {}
    BY DEF Undisturbed, Matching, ConsumesSelfWrite
  <2>3. requestedRevision' = requestedRevision
    BY <1>4, <2>2, Zenon DEF DrainEvents
  <2> QED
    BY <2>1, <2>3, Zenon DEF Undisturbed, Matching, HistoryFits, Replayed
<1> QED
  BY <1>1, <1>2, <1>3, <1>4, ZenonT(30) DEF WatchStep

LEMMA HistoryKept ==
    ASSUME Typed, HistoryInv, [Next]_vars
    PROVE  HistoryInv'
<1>1. Range(history') \subseteq receipts'
  BY ReceiptsKept DEF HistoryInv
<1> SUFFICES ASSUME writes' = 0 PROVE Undisturbed'
  BY <1>1 DEF HistoryInv
<1>2. writes \in Nat
  BY DEF Typed, SourcesTyped
<1>3. CASE PlanStep /\ UNCHANGED sessionVars
  <2>1. Undisturbed
    BY <1>3 DEF sessionVars, HistoryInv
  <2> QED
    BY <1>3, <2>1, FinishUndisturbed, ActivateUndisturbed, ZenonT(30) DEF PlanStep
<1>4. CASE WatchStep
  <2>1. writes = 0
    <3>1. CASE \E f \in Files, content \in Contents : content \in Written[f] /\ Save(f, content)
      BY <1>2, <3>1 DEF Save
    <3>2. CASE ~(\E f \in Files, content \in Contents : content \in Written[f] /\ Save(f, content))
      BY <1>4, <3>2, Zenon DEF WatchStep, TakeWatchResult, StartWatchJob, DrainEvents, CompileSources,
                        ReadSource
    <3> QED
      BY <3>1, <3>2, ZenonT(30)
  <2>2. Undisturbed
    BY <2>1 DEF HistoryInv
  <2> QED
    BY <1>4, <2>1, <2>2, WatchUndisturbed, Zenon
<1>5. CASE UNCHANGED sourceVars /\ ~PlanStep
  <2>1. UNCHANGED <<disk, running, events, selfWriteHashes, writes, requestedRevision,
                    finishedRevision, watchJob>>
    BY <1>5 DEF sourceVars
  <2>2. UNCHANGED <<history, historyCursor>>
    BY <1>5, Frame DEF planVars
  <2>3. Undisturbed
    BY <2>1 DEF HistoryInv
  <2>4. (pc = "activate") = (pc' = "activate") /\ UNCHANGED commit
    <3>1. CASE HandsStill
      BY <3>1 DEF HandsStill
    <3>2. CASE DrainRequests \/ HandleRequest \/ PrepareEdit
      BY <3>2, Zenon DEF DrainRequests, HandleRequest, PrepareEdit
    <3> QED
      BY <1>5, <3>1, <3>2, Frame, Zenon DEF HandStep, PlanStep
  <2> QED
    BY <2>1, <2>2, <2>3, <2>4, Zenon DEF Undisturbed, HistoryFits, Replayed
<1> QED
  BY <1>3, <1>4, <1>5, Frame, Zenon DEF SourceStep, PlanStep, sourceVars, sessionVars

LEMMA InitHistory == Init => HistoryInv
<1> SUFFICES ASSUME Init PROVE HistoryInv
  OBVIOUS
<1>1. history = <<>> /\ historyCursor = 0 /\ <<>> \in Seq(Plans) /\ Len(<<>>) = 0 /\ Range(<<>>) = {}
  BY DEF Init, Range
<1>2. Replay(history)[0] = Start
  BY <1>1, ReplayUnfolds, Zenon
<1>3. Replayed = Start
  BY <1>1, <1>2 DEF Replayed
<1>4. HistoryFits
  BY <1>1 DEF HistoryFits
<1> QED
  BY <1>1, <1>3, <1>4, Zenon DEF Init, HistoryInv, Undisturbed, Matching

\* As long as no editor writes beside the session, the disk and the running
\* program are what the history replays to, through any sequence of edits,
\* previews, undos, redos, cancels and failures, and every entry of the history
\* has its receipt.  Undisturbed says what the commit in progress was made for,
\* and that the plans of the history fit one after the other: without that, an
\* undo would not lead back to the entry before.
THEOREM HistoryTheorem == Spec => [](writes = 0 => HistoryReplays)
<1>1. Init => HistoryInv
  BY InitHistory
<1>2. Typed /\ HistoryInv /\ [Next]_vars => HistoryInv'
  BY HistoryKept, Zenon
<1>3. HistoryInv => (writes = 0 => HistoryReplays)
  BY ZenonT(30) DEF HistoryInv, Undisturbed, HistoryReplays
<1> QED
  BY <1>1, <1>2, <1>3, PlayIsTyped, PTL DEF Spec

-----------------------------------------------------------------------------
(* The watch compile *)

\* A write of the workspace, or of the editor, leaves no file unknown.
LEMMA WritesAreKnown ==
    ASSUME SourcesTyped, NEW S \in SUBSET Files,
           \A g \in Files \ S : disk'[g] = disk[g] /\ selfWriteHashes'[g] = selfWriteHashes[g],
           \A g \in S : g \in events' \/ selfWriteHashes'[g] # None,
           events \subseteq events'
    PROVE  \A f \in Files : \A sources : Known(f, sources) => Known(f, sources)'
BY DEF Known

LEMMA CommitsAreKnown ==
    ASSUME Typed, PlanStep
    PROVE  \A f \in Files : \A sources : Known(f, sources) => Known(f, sources)'
<1>0. SourcesTyped
  BY DEF Typed
<1>1. ASSUME NEW plan \in Plans, NEW restore \in BOOLEAN, NEW back \in BOOLEAN,
             disk' = disk \/ disk' = ApplyPlan(plan, back, disk),
             events \subseteq events', selfWriteHashes' = RememberPlanHashes(plan, restore)
      PROVE  \A f \in Files : \A sources : Known(f, sources) => Known(f, sources)'
  <2>1. DOMAIN plan \subseteq Files
    BY PlanTyped
  <2>2. \A g \in Files \ DOMAIN plan : disk'[g] = disk[g]
    BY <1>1, ZenonT(30) DEF ApplyPlan
  <2>3. /\ \A g \in Files \ DOMAIN plan : selfWriteHashes'[g] = selfWriteHashes[g]
        /\ \A g \in DOMAIN plan : selfWriteHashes'[g] # None
    BY <1>0, <1>1, RememberTyped
  <2> QED
    BY <1>0, <1>1, <2>1, <2>2, <2>3, WritesAreKnown, Zenon
<1>2. CASE FinishPreparation
  <2>1. CASE UNCHANGED <<disk, events, selfWriteHashes>>
    BY <2>1 DEF Known
  <2>2. CASE WriteSources(preparation.result) /\ PreparedTyped(preparation.result)
    <3> DEFINE edit == preparation.result
               back == ~edit.restore
    <3>1. edit.plan \in Plans /\ edit.restore \in BOOLEAN /\ back \in BOOLEAN
      BY <2>2 DEF PreparedTyped
    <3>2. /\ events \subseteq events'
          /\ disk' = disk \/ disk' = ApplyPlan(edit.plan, edit.restore, disk)
          /\ \/ selfWriteHashes' = RememberPlanHashes(edit.plan, edit.restore)
             \/ selfWriteHashes' = RememberPlanHashes(edit.plan, back)
      BY <2>2, Writing, Zenon
    <3> HIDE DEF edit, back
    <3> QED
      BY <1>1, <3>1, <3>2, ZenonT(30)
  <2> QED
    BY <1>2, <2>1, <2>2, Finishing, Zenon
<1>3. CASE Activate
  <2> DEFINE edit == commit.edit
             back == ~edit.restore
  <2>1. edit.plan \in Plans /\ edit.restore \in BOOLEAN /\ back \in BOOLEAN
    BY <1>3 DEF Activate, Typed, HandsTyped, PreparedTyped
  <2>2. /\ events \subseteq events'
        /\ disk' = disk \/ disk' = ApplyPlan(edit.plan, back, disk)
        /\ \/ selfWriteHashes' = RememberPlanHashes(edit.plan, edit.restore)
           \/ selfWriteHashes' = RememberPlanHashes(edit.plan, back)
    BY <1>3, Zenon DEF Activate, ActivateCandidate, RollbackPrepared
  <2> HIDE DEF edit, back
  <2> QED
    BY <1>1, <2>1, <2>2, ZenonT(30)
<1> QED
  BY <1>2, <1>3 DEF PlanStep

\* The first commit puts a plan into the history, and the history is never
\* empty again.
LEMMA FirstCommit ==
    ASSUME Typed, [Next]_vars, history' = <<>>
    PROVE  history = <<>> /\ (PlanStep => UNCHANGED running)
<1>1. CASE UNCHANGED planVars /\ ~PlanStep
  BY <1>1 DEF planVars
<1>2. CASE FinishPreparation
  <2>1. UNCHANGED <<history, running>>
    BY <1>2, ZenonT(30) DEF FinishPreparation, RefusePrepared, KeepPreview, WriteSources, editVars, worldVars
  <2> QED
    BY <2>1
<1>3. CASE Activate /\ RollbackPrepared
  BY <1>3 DEF RollbackPrepared
<1>4. CASE Activate /\ ActivateCandidate
  <2> DEFINE edit == commit.edit
  <2>1. /\ edit.action \in Actions /\ edit.action # "preview" /\ edit.plan \in Plans
        /\ ActionTied(edit.action, edit.restore, edit.plan)
    BY <1>4, Zenon DEF Activate, Typed, HandsTyped, PreparedTyped, Tied
  <2>2. history \in Seq(Plans) /\ historyCursor \in 0 .. Len(history)
    BY DEF Typed, PlansTyped
  <2>3. history' = IF edit.action \in {"new", "pending"} THEN PushHistory(edit.plan) ELSE history
    BY <1>4 DEF ActivateCandidate
  <2> HIDE DEF edit
  <2>4. Len(PushHistory(edit.plan)) = historyCursor + 1
    BY <2>1, <2>2 DEF PushHistory
  <2>5. PushHistory(edit.plan) # <<>>
    BY <2>2, <2>4
  <2>6. CASE edit.action \in {"undo", "redo"}
    <3>1. Len(history) # 0
      BY <2>1, <2>2, <2>6 DEF ActionTied
    <3>2. edit.action \notin {"new", "pending"}
      BY <2>6
    <3>3. history' = history
      BY <2>3, <3>2, Zenon
    <3>4. Len(<<>>) = 0
      OBVIOUS
    <3> QED
      BY <3>1, <3>3, <3>4, Zenon
  <2> QED
    BY <2>1, <2>3, <2>5, <2>6 DEF Actions
<1> QED
  BY <1>1, <1>2, <1>3, <1>4, Frame, Zenon DEF PlanStep, Activate

LEMMA RevisionsKept ==
    ASSUME Typed, Revisions, [Next]_vars
    PROVE  Revisions'
<1>0. /\ requestedRevision \in Nat /\ finishedRevision \in Nat
      /\ watchJob # None =>
            /\ DOMAIN watchJob = {"revision", "sources", "unread", "result"}
            /\ watchJob.revision \in Nat
  BY Zenon DEF Typed, SourcesTyped, JobTyped
<1>1. CASE UNCHANGED sourceVars
  BY <1>1 DEF sourceVars, Revisions
<1>2. CASE (FinishPreparation \/ Activate) /\ UNCHANGED sessionVars
  BY <1>2, Zenon DEF sessionVars, Revisions
<1>3. CASE TakeWatchResult
  BY <1>3, Zenon DEF TakeWatchResult, FinishJob, WatchReady, Revisions
<1>4. CASE StartWatchJob
  <2>1. UNCHANGED <<requestedRevision, finishedRevision>>
    BY <1>4, Zenon DEF StartWatchJob
  <2>2. CASE watchJob' = watchJob
    BY <2>1, <2>2, Zenon DEF Revisions
  <2>3. CASE /\ requestedRevision > finishedRevision
             /\ watchJob' = [revision |-> requestedRevision, sources |-> running,
                             unread |-> Files, result |-> None]
    <3>1. /\ watchJob'.revision = requestedRevision /\ watchJob'.result = None
          /\ finishedRevision < requestedRevision /\ requestedRevision <= requestedRevision
          /\ finishedRevision <= requestedRevision
      BY <1>0, <2>3
    <3> QED
      BY <2>1, <3>1, ZenonT(30) DEF Revisions
  <2> QED
    BY <1>4, <2>2, <2>3, Zenon DEF StartWatchJob
<1>5. CASE DrainEvents
  <2>1. /\ requestedRevision' \in {requestedRevision, requestedRevision + 1}
        /\ UNCHANGED <<finishedRevision, watchJob>>
    BY <1>5 DEF DrainEvents
  <2> QED
    BY <1>0, <2>1 DEF Revisions
<1>6. CASE CompileSources
  <2>1. /\ watchJob # None /\ watchJob.unread = {}
        /\ watchJob' = [watchJob EXCEPT !.result =
                           IF Compiles(watchJob.sources) THEN "ok" ELSE "error"]
        /\ UNCHANGED <<requestedRevision, finishedRevision>>
    BY <1>6 DEF CompileSources
  <2>2. /\ watchJob'.revision = watchJob.revision /\ watchJob'.sources = watchJob.sources
        /\ watchJob'.unread = {}
        /\ watchJob'.result = IF Compiles(watchJob.sources) THEN "ok" ELSE "error"
    BY <1>0, <2>1
  <2> QED
    BY <2>1, <2>2 DEF Revisions
<1>7. CASE \E f \in Files : ReadSource(f)
  <2>1. PICK f \in Files : ReadSource(f)
    BY <1>7
  <2>2. /\ watchJob # None /\ f \in watchJob.unread
        /\ watchJob' = [watchJob EXCEPT !.sources[f] = disk[f], !.unread = @ \ {f}]
        /\ UNCHANGED <<requestedRevision, finishedRevision>>
    BY <2>1 DEF ReadSource
  <2>3. watchJob'.revision = watchJob.revision /\ watchJob'.result = watchJob.result
    BY <1>0, <2>2, ZenonT(30)
  <2> QED
    BY <2>2, <2>3 DEF Revisions
<1>8. CASE \E f \in Files, content \in Contents : content \in Written[f] /\ Save(f, content)
  BY <1>8, Zenon DEF Save, Revisions
<1> QED
  BY <1>1, <1>2, <1>3, <1>4, <1>5, <1>6, <1>7, <1>8, Frame, ZenonT(30) DEF SourceStep, WatchStep

\* Covered, for a step that leaves the job and the revisions alone.
LEMMA CoveredStays ==
    ASSUME Covered, history' = <<>> => history = <<>> /\ UNCHANGED running,
           UNCHANGED <<requestedRevision, finishedRevision, watchJob>>,
           \A f \in Files : \A sources : Known(f, sources) => Known(f, sources)'
    PROVE  Covered'
<1> SUFFICES ASSUME history' = <<>>
             PROVE  /\ watchJob' = None => \/ requestedRevision' > finishedRevision'
                                           \/ \E sources \in Sources : Compiled(sources)'
                    /\ watchJob' # None =>
                          \/ watchJob'.revision < requestedRevision'
                          \/ \A f \in Files \ watchJob'.unread : Known(f, watchJob.sources)'
  BY Zenon DEF Covered
<1>1. history = <<>> /\ UNCHANGED running
  OBVIOUS
<1>2. ASSUME watchJob = None, NEW sources \in Sources, Compiled(sources)
      PROVE  Compiled(sources)'
  BY <1>1, <1>2, ZenonT(30) DEF Compiled
<1>3. ASSUME watchJob # None, NEW f \in Files \ watchJob.unread, Known(f, watchJob.sources)
      PROVE  Known(f, watchJob.sources)'
  <2>1. PICK sources : sources = watchJob.sources /\ sources = watchJob'.sources
    BY Zenon
  <2>2. Known(f, sources)'
    BY <1>3, <2>1, Zenon
  <2> QED
    BY <2>1, <2>2, Zenon DEF Known
<1> QED
  BY <1>1, <1>2, <1>3, ZenonT(30) DEF Covered

LEMMA CoveredKept ==
    ASSUME ~HookVaries, Typed, Typed', Revisions, Covered, [Next]_vars
    PROVE  Covered'
<1>0. /\ requestedRevision \in Nat /\ finishedRevision \in Nat /\ SourcesTyped
      /\ watchJob # None =>
            /\ DOMAIN watchJob = {"revision", "sources", "unread", "result"}
            /\ watchJob.revision \in Nat /\ watchJob.sources \in Sources
  BY DEF Typed, SourcesTyped, JobTyped
<1>1. CASE UNCHANGED sourceVars /\ ~PlanStep
  <2>1. UNCHANGED <<disk, running, events, selfWriteHashes, requestedRevision, finishedRevision,
                    watchJob>>
    BY <1>1 DEF sourceVars
  <2>2. UNCHANGED history
    BY <1>1, Frame, Zenon DEF planVars
  <2>3. \A f \in Files : \A sources : Known(f, sources) => Known(f, sources)'
    BY <2>1, Zenon DEF Known
  <2> QED
    BY <2>1, <2>2, <2>3, CoveredStays, Zenon
<1>2. CASE PlanStep /\ UNCHANGED sessionVars
  <2>1. UNCHANGED <<requestedRevision, finishedRevision, watchJob>>
    BY <1>2 DEF sessionVars
  <2>2. \A f \in Files : \A sources : Known(f, sources) => Known(f, sources)'
    BY <1>2, CommitsAreKnown
  <2>3. history' = <<>> => history = <<>> /\ UNCHANGED running
    BY <1>2, FirstCommit
  <2> QED
    BY <2>1, <2>2, <2>3, CoveredStays, ZenonT(30)
<1>3. CASE TakeWatchResult
  <2>1. /\ watchJob # None /\ watchJob.result # None
        /\ finishedRevision' = watchJob.revision /\ watchJob' = None
        /\ UNCHANGED <<disk, events, selfWriteHashes, history, requestedRevision>>
        /\ \/ running' = watchJob.sources
           \/ /\ \/ watchJob.revision < requestedRevision
                 \/ watchJob.result = "error"
                 \/ HookRejects(watchJob.sources)
              /\ UNCHANGED running
    BY <1>3, Zenon DEF TakeWatchResult, WatchReady, FinishJob
  <2> SUFFICES ASSUME history = <<>>, ~(watchJob.revision < requestedRevision)
               PROVE  \E sources \in Sources : Compiled(sources)'
    BY <1>0, <2>1, Zenon DEF Covered
  <2>2. PICK sources \in Sources : sources = watchJob.sources
    BY <1>0, <2>1, Zenon
  <2>3. \A f \in Files : Known(f, sources)
    BY <2>1, <2>2, Zenon DEF Covered, Revisions
  <2>4. running' = sources \/ ~Compiles(sources) \/ ~HookAccepts(sources)
    BY <2>1, <2>2, Zenon DEF Revisions, HookRejects
  <2>5. Compiled(sources)'
    BY <2>1, <2>3, <2>4, Zenon DEF Compiled, Known
  <2> QED
    BY <2>5, Zenon
<1>4. CASE StartWatchJob
  <2>1. UNCHANGED <<disk, running, events, selfWriteHashes, history, requestedRevision,
                    finishedRevision>>
    BY <1>4 DEF StartWatchJob, worldVars, editVars
  <2>2. CASE UNCHANGED watchJob
    <3>1. \A f \in Files : \A sources : Known(f, sources) => Known(f, sources)'
      BY <2>1 DEF Known
    <3> QED
      BY <2>1, <2>2, <3>1, CoveredStays, Zenon
  <2>3. CASE watchJob' = [revision |-> requestedRevision, sources |-> running,
                          unread |-> Files, result |-> None]
    <3>1. watchJob'.unread = Files
      BY <2>3
    <3>2. CASE requestedRevision > finishedRevision
      BY <2>1, <3>1, <3>2, Zenon DEF Covered
    <3>3. CASE ~(requestedRevision > finishedRevision)
      BY <1>4, <2>2, <3>3 DEF StartWatchJob
    <3> QED
      BY <3>2, <3>3, ZenonT(30)
  <2> QED
    BY <1>4, <2>2, <2>3, ZenonT(30) DEF StartWatchJob
<1>5. CASE DrainEvents
  <2> DEFINE foreign == {f \in events : ~ConsumesSelfWrite(f)}
  <2>1. /\ UNCHANGED <<disk, running, history, finishedRevision, watchJob>>
        /\ events' = {}
        /\ selfWriteHashes' = [f \in Files |-> IF f \in foreign THEN None ELSE selfWriteHashes[f]]
        /\ requestedRevision' = IF foreign # {} THEN requestedRevision + 1 ELSE requestedRevision
    BY <1>5, ZenonT(30) DEF DrainEvents
  <2>2. CASE foreign # {}
    <3>1. requestedRevision' = requestedRevision + 1
      BY <2>1, <2>2, ZenonT(30)
    <3>2. /\ requestedRevision' > finishedRevision'
          /\ watchJob' # None => watchJob'.revision < requestedRevision'
      BY <1>0, <2>1, <3>1 DEF Revisions
    <3> QED
      BY <3>2 DEF Covered
  <2>3. CASE foreign = {}
    <3>1. requestedRevision' = requestedRevision /\ \A f \in Files : selfWriteHashes'[f] = selfWriteHashes[f]
      BY <2>1, <2>3
    <3>2. \A f \in events : selfWriteHashes[f] = disk[f]
      BY <2>3, Zenon DEF ConsumesSelfWrite
    <3>3. \A f \in events : selfWriteHashes[f] # None
      BY <1>0, <3>2, WorkspaceAssumption, ZenonT(30) DEF SourcesTyped, Sources
    <3>4. \A f \in Files : \A sources : Known(f, sources) => Known(f, sources)'
      BY <2>1, <3>1, <3>3 DEF Known
    <3> QED
      BY <2>1, <3>1, <3>4, CoveredStays, Zenon
  <2> QED
    BY <2>2, <2>3, Zenon
<1>6. CASE CompileSources
  <2>1. /\ watchJob # None /\ \E x : watchJob' = [watchJob EXCEPT !.result = x]
        /\ UNCHANGED <<disk, running, events, selfWriteHashes, history, requestedRevision,
                       finishedRevision>>
    BY <1>6, Zenon DEF CompileSources, workspaceVars, worldVars, editVars
  <2>2. /\ watchJob'.revision = watchJob.revision /\ watchJob'.sources = watchJob.sources
        /\ watchJob'.unread = watchJob.unread
    BY <1>0, <2>1
  <2>3. requestedRevision' > finishedRevision'
    BY <1>0, <2>1 DEF Revisions
  <2> QED
    BY <2>1, <2>2, <2>3 DEF Covered, Known
<1>7. CASE \E f \in Files : ReadSource(f)
  <2>1. PICK f \in Files : ReadSource(f)
    BY <1>7
  <2>2. /\ watchJob # None /\ f \in watchJob.unread
        /\ watchJob' = [watchJob EXCEPT !.sources[f] = disk[f], !.unread = @ \ {f}]
        /\ UNCHANGED <<disk, running, events, selfWriteHashes, history, requestedRevision,
                       finishedRevision>>
    BY <2>1 DEF ReadSource, workspaceVars, worldVars, editVars
  <2>3. /\ watchJob'.revision = watchJob.revision
        /\ watchJob'.sources = [watchJob.sources EXCEPT ![f] = disk[f]]
        /\ watchJob'.unread = watchJob.unread \ {f}
    BY <1>0, <2>2
  <2>4. watchJob'.sources[f] = disk[f] /\ \A g \in Files \ {f} : watchJob'.sources[g] = watchJob.sources[g]
    BY <1>0, <2>2, <2>3 DEF Sources
  <2>5. requestedRevision' > finishedRevision'
    BY <1>0, <2>2 DEF Revisions
  <2> QED
    BY <2>2, <2>3, <2>4, <2>5, Zenon DEF Covered, Known
<1>8. CASE \E f \in Files, content \in Contents : content \in Written[f] /\ Save(f, content)
  <2>1. PICK f \in Files, content \in Contents : Save(f, content)
    BY <1>8, Zenon
  <2>2. /\ UNCHANGED <<running, selfWriteHashes, history, requestedRevision, finishedRevision, watchJob>>
        /\ disk' = [disk EXCEPT ![f] = content]
        /\ events' = events \union {f}
    BY <2>1, Zenon DEF Save, editVars
  <2>3. \A g \in Files \ {f} : disk'[g] = disk[g]
    BY <1>0, <2>2, Zenon DEF SourcesTyped, Sources
  <2>4. \A g \in Files : \A sources : Known(g, sources) => Known(g, sources)'
    BY <1>0, <2>2, <2>3, WritesAreKnown, Zenon
  <2> QED
    BY <2>2, <2>4, CoveredStays
<1> QED
  BY ZenonT(30), <1>1, <1>2, <1>3, <1>4, <1>5, <1>6, <1>7, <1>8, Frame
     DEF SourceStep, WatchStep, PlanStep, sourceVars, sessionVars

LEMMA InitWatch == Init => WatchInv
<1> SUFFICES ASSUME Init PROVE WatchInv
  OBVIOUS
<1>1. Revisions
  BY DEF Init, Revisions
<1>2. Start \in Sources /\ disk = Start /\ running = Start /\ watchJob = None
  BY SessionAssumption, Zenon DEF Init
<1>3. Compiled(Start)
  BY <1>2 DEF Compiled, Known
<1> QED
  BY <1>1, <1>2, <1>3, Zenon DEF WatchInv, Covered

\* Until the first live commit, and when a hook accepts a program or not by
\* what the program is: whenever nothing is on its way, the program on disk
\* runs, unless it does not compile or rejects its swap, however the saves fall
\* between the reads of the compile.  Covered follows each changed file from the
\* watcher's event to the requested revision and to the job that reads it.
THEOREM RunsTheorem ==
    ASSUME ~HookVaries
    PROVE  Spec => []RunsTheDisk
<1>1. Init => WatchInv
  BY InitWatch
<1>2. Typed /\ Typed' /\ WatchInv /\ [Next]_vars => WatchInv'
  BY RevisionsKept, CoveredKept DEF WatchInv
<1>3. Typed /\ WatchInv => RunsTheDisk
  <2> SUFFICES ASSUME Typed, WatchInv, Quiet, LiveWroteNothing, Compiles(disk), HookAccepts(disk)
               PROVE  running = disk
    BY DEF RunsTheDisk
  <2>1. requestedRevision \in Nat /\ finishedRevision \in Nat /\ disk \in Sources
    BY Zenon DEF Typed, SourcesTyped
  <2>0. watchJob = None /\ ~(requestedRevision > finishedRevision)
    <3>1. watchJob = None /\ requestedRevision = finishedRevision
      BY ZenonT(30) DEF Quiet
    <3> QED
      BY <2>1, <3>1
  <2>2. PICK sources \in Sources : Compiled(sources)
    BY <2>0, ZenonT(30) DEF WatchInv, Covered, LiveWroteNothing
  <2>3. \A f \in Files : sources[f] = disk[f]
    BY <2>2 DEF Compiled, Known, Quiet, LiveWroteNothing
  <2>4. sources = disk
    BY <2>1, <2>2, <2>3 DEF Sources
  <2> QED
    BY <2>2, <2>4 DEF Compiled
<1> QED
  BY <1>1, <1>2, <1>3, PlayIsTyped, PTL DEF Spec
=============================================================================
