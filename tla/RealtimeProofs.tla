--------------------------- MODULE RealtimeProofs ---------------------------
(***************************************************************************)
(* Proofs, for every number of seats, every table size and every delay,    *)
(* of the safety properties of RealtimeSafety and RealtimeReplay.          *)
(*                                                                         *)
(* The properties about what was applied or was in conflict before are not *)
(* inductive: the session forgets.  What makes them hold is that the two   *)
(* sequence numbers a seat keeps cover everything it has forgotten, which  *)
(* is what the conjuncts AppliedBelowFloor and ConflictsCovered say.       *)
(* From them follows what may leave the schedule, and that it never comes  *)
(* back.  A replay is compared with the session that wrote the log by      *)
(* ReplayInv.                                                              *)
(***************************************************************************)
EXTENDS RealtimeSafety, RealtimeReplay, FiniteSetTheorems, WellFoundedInduction, TLAPS

Ids == Seats \X (1..MaxEpoch) \X (1..MaxSequence)

Typed ==
    /\ TypeOK
    /\ IsFiniteSet(pending)
    /\ IsFiniteSet(quarantined)
    /\ applied \subseteq Ids
    /\ conflicted \subseteq Ids

SequencesKnown ==
    /\ \A s \in Seats : highest_applied_sequence[s] <= highest_sequence[s]
    /\ \A t \in pending : t.sequence <= highest_sequence[t.seat]

AppliedBelowFloor ==
    \A id \in applied :
        /\ id[2] <= epochs[id[1]]
        /\ id[2] = epochs[id[1]] => id[3] <= highest_applied_sequence[id[1]]

ConflictsCovered ==
    \A id \in conflicted :
        /\ id[2] <= epochs[id[1]]
        /\ id[2] = epochs[id[1]] =>
              /\ id[3] <= highest_sequence[id[1]]
              /\ \/ id \in quarantined
                 \/ id[3] <= highest_applied_sequence[id[1]]
                 \/ resync_required

PendingUntainted ==
    \A t \in pending : Identity(t) \notin applied /\ Identity(t) \notin conflicted

IInv ==
    /\ Typed
    /\ TablesBounded
    /\ PendingIsFuture
    /\ PendingIdentitiesUnique
    /\ InactiveSeatIsNeutral
    /\ SequencesKnown
    /\ AppliedBelowFloor
    /\ ConflictsCovered
    /\ PendingUntainted
    /\ ConflictNeverApplied

USE SeatsAssumption, NeutralAssumption, BoundsAssumption, TimingAssumption,
    CapacityAssumption, ReceivedAssumption, SnapshotsAssumption,
    NoTransitionAssumption

-----------------------------------------------------------------------------
LEMMA NextTick ==
    ASSUME NEW n \in 0..MaxTick, n < MaxTick
    PROVE  n + 1 \in 0..MaxTick
BY BoundsAssumption

\* A bounded, non-empty set of naturals has a largest element: the floor that
\* advance_tick keeps per seat is well defined.
LEMMA BoundedMaximum ==
    ASSUME NEW b \in Nat, NEW S \in SUBSET (0..b), S # {}
    PROVE  \E m \in S : \A n \in S : n <= m
<1> DEFINE T == {b - n : n \in S}
<1>1. T \subseteq Nat
  <2>1. \A n \in S : b - n \in Nat
    OBVIOUS
  <2>. QED BY <2>1
<1>a. PICK n0 \in S : TRUE
  BY Zenon
<1>b. b - n0 \in T
  OBVIOUS
<1>2. PICK x \in T : \A y \in T : ~(<<y, x>> \in OpToRel(<, Nat))
  <2>. HIDE DEF T
  <2>. QED BY <1>1, <1>b, NatLessThanWellFounded, WFMin, Zenon
<1>3. \A y \in T : ~(y < x)
  <2>. HIDE DEF T
  <2>. QED BY <1>1, <1>2, Zenon DEF OpToRel
<1>4. PICK m \in S : x = b - m
  OBVIOUS
<1>5. ASSUME NEW n \in S PROVE n <= m
  <2>1. b - n \in T
    OBVIOUS
  <2>2. ~(b - n < b - m)
    BY <1>3, <1>4, <2>1
  <2>3. n \in 0..b /\ m \in 0..b
    OBVIOUS
  <2>. HIDE DEF T
  <2>. QED BY <2>2, <2>3
<1>. QED BY <1>5

LEMMA MaxOfIsMaximum ==
    ASSUME NEW b \in Nat, NEW S \in SUBSET (0..b), S # {}
    PROVE  MaxOf(S) \in S /\ \A n \in S : n <= MaxOf(S)
BY BoundedMaximum, Zenon DEF MaxOf

LEMMA RemainderInRing == \A n \in Nat : n % Capacity \in Ring
BY DEF Ring

LEMMA LargerBounds ==
    \A a, b \in 0..MaxSequence :
        Larger(a, b) \in 0..MaxSequence /\ a <= Larger(a, b) /\ b <= Larger(a, b)
BY DEF Larger

LEMMA AtMostTransitive ==
    \A a, b, c \in 0..MaxSequence : a <= b /\ b <= c => a <= c
OBVIOUS

LEMMA NewerEpoch ==
    \A e, f, g \in 1..MaxEpoch : e <= f /\ f < g => e <= g /\ e # g
OBVIOUS

LEMMA SameOrNewer ==
    \A e, f \in 1..MaxEpoch : e <= f => e < f \/ f = e
OBVIOUS

LEMMA NextTickIsSooner ==
    \A i, j \in 0..MaxTick :
        i < j /\ j # i + 1 /\ j <= i + Horizon => i + 1 < j /\ j <= i + 1 + Horizon
OBVIOUS

LEMMA BackIsNotForth ==
    ASSUME current_tick \in 0..MaxTick, current_tick' < current_tick
    PROVE  current_tick' # current_tick /\ current_tick' # current_tick + 1
OBVIOUS

LEMMA ResetRenews ==
    ASSUME epochs \in [Seats -> 1..MaxEpoch], NEW rematch \in BOOLEAN, ResetAll(rematch)
    PROVE  \A s \in Seats : epochs'[s] > epochs[s]
BY DEF ResetAll

LEMMA IdentityParts ==
    ASSUME NEW t \in Transition
    PROVE  /\ Identity(t) \in Ids
           /\ Identity(t)[1] = t.seat /\ t.seat \in Seats
           /\ Identity(t)[2] = t.epoch /\ t.epoch \in 1..MaxEpoch
           /\ Identity(t)[3] = t.sequence /\ t.sequence \in 1..MaxSequence
           /\ t.sequence \in 0..MaxSequence
BY DEF Identity, Ids, Transition

LEMMA AdmissibleIsTransition ==
    ASSUME NEW t \in Received, Admissible(t)
    PROVE  t \in Transition
BY DEF Admissible, WellFormed, Transition, RawTransition

\* The floor a tick leaves behind covers the old one and all it applied.
LEMMA FloorCovers ==
    ASSUME TypeOK, NEW tick, NEW s \in Seats
    PROVE  /\ AppliedFloor(tick, s) \in 0..MaxSequence
           /\ highest_applied_sequence[s] <= AppliedFloor(tick, s)
           /\ \A t \in DueOf(tick, s) : t.sequence <= AppliedFloor(tick, s)
           /\ \/ AppliedFloor(tick, s) = highest_applied_sequence[s]
              \/ \E t \in DueOf(tick, s) : AppliedFloor(tick, s) = t.sequence
<1> DEFINE S == {highest_applied_sequence[s]} \cup {t.sequence : t \in DueOf(tick, s)}
<1>1. S \subseteq 0..MaxSequence /\ S # {}
  BY DEF TypeOK, DueOf, Due, Transition
<1>2. AppliedFloor(tick, s) = MaxOf(S)
  BY DEF AppliedFloor
<1>3. MaxOf(S) \in S /\ \A n \in S : n <= MaxOf(S)
  <2>. HIDE DEF S
  <2>. QED BY <1>1, MaxOfIsMaximum, Zenon
<1>. QED BY <1>1, <1>2, <1>3
\* A seat with due transitions has a last one in sequence order.
LEMMA LastDueIsDue ==
    ASSUME pending \subseteq Transition, NEW tick, NEW s \in Seats,
           DueOf(tick, s) # {}
    PROVE  LastDueOf(tick, s) \in DueOf(tick, s)
<1> DEFINE S == {t.sequence : t \in DueOf(tick, s)}
<1>1. S \subseteq 0..MaxSequence
  BY IdentityParts DEF DueOf, Due
<1>2. S # {}
  OBVIOUS
<1>3. PICK m \in S : \A n \in S : n <= m
  <2>. HIDE DEF S
  <2>. QED BY <1>1, <1>2, BoundedMaximum, Zenon
<1>4. PICK t \in DueOf(tick, s) : t.sequence = m
  OBVIOUS
<1>5. \A u \in DueOf(tick, s) : u.sequence <= t.sequence
  BY <1>3, <1>4
<1>. HIDE DEF S
<1>. QED BY <1>5 DEF LastDueOf

-----------------------------------------------------------------------------
\* A new session satisfies the invariant.
LEMMA InitEstablishes == SafetyInit => IInv
<1> SUFFICES ASSUME SafetyInit PROVE IInv
  OBVIOUS
<1> USE DEF SafetyInit, Init
<1>1. TypeOK
  <2>1. 0 \in 0..MaxTick /\ 0 \in 0..MaxRevision /\ 1 \in 1..MaxEpoch
        /\ 0 \in 0..MaxSequence /\ 0 \in Ring
    BY DEF Ring
  <2>. QED BY <2>1, Zenon DEF TypeOK
<1>2. Typed
  BY <1>1, FS_EmptySet DEF Typed
<1>3. TablesBounded
  BY FS_EmptySet DEF TablesBounded
<1>4. /\ PendingIsFuture /\ PendingIdentitiesUnique /\ InactiveSeatIsNeutral
      /\ SequencesKnown /\ PendingUntainted
  BY DEF PendingIsFuture, PendingIdentitiesUnique, InactiveSeatIsNeutral,
         SequencesKnown, PendingUntainted
<1>5. AppliedBelowFloor /\ ConflictsCovered /\ ConflictNeverApplied
  BY DEF AppliedBelowFloor, ConflictsCovered, ConflictNeverApplied
<1>. QED BY <1>2, <1>3, <1>4, <1>5 DEF IInv

\* A transition that is still to be scheduled carries an identity that was
\* neither applied nor in conflict: the duplicate check, the floor and the
\* quarantine table together stand in for the forgotten past.
LEMMA FreshIsUntainted ==
    ASSUME IInv, NEW t \in Received, Fresh(t)
    PROVE  Identity(t) \notin applied /\ Identity(t) \notin conflicted
<1>1. Admissible(t)
  BY DEF Fresh
<1>2. t \in Transition
  BY <1>1, AdmissibleIsTransition
<1>3. /\ t.epoch = epochs[t.seat]
      /\ t.sequence > highest_applied_sequence[t.seat]
      /\ Identity(t) \notin quarantined
      /\ ~resync_required
  BY <1>1 DEF Admissible, Fresh
<1>4. highest_applied_sequence[t.seat] \in 0..MaxSequence
  BY <1>2, IdentityParts, Zenon DEF IInv, Typed, TypeOK
<1>5. Identity(t) \notin applied
  BY <1>2, <1>3, <1>4, IdentityParts DEF IInv, AppliedBelowFloor
<1>6. Identity(t) \notin conflicted
  BY <1>2, <1>3, <1>4, IdentityParts DEF IInv, ConflictsCovered
<1>. QED BY <1>5, <1>6

\* submit_transition, the path that schedules.
LEMMA SchedulePreserves ==
    ASSUME IInv, NEW t \in Received, Schedule(t), UNCHANGED history
    PROVE  IInv'
<1>1. Fresh(t) /\ Admissible(t) /\ ~QuarantineFull /\ ~PendingFull
  BY DEF Schedule, Schedulable, Fresh
<1>2. t \in Transition /\ t.seat \in Seats /\ t.sequence \in 0..MaxSequence
  BY <1>1, AdmissibleIsTransition, IdentityParts
<1>3. pending' = pending \cup {t} /\ t \notin pending
  BY <1>1 DEF Schedule, Fresh, PendingIdentities
<1>4. /\ \A s \in Seats : highest_sequence[s] <= highest_sequence'[s]
      /\ t.sequence <= highest_sequence'[t.seat]
      /\ highest_sequence' \in [Seats -> 0..MaxSequence]
  <2> DEFINE L == Larger(highest_sequence[t.seat], t.sequence)
  <2>1. highest_sequence \in [Seats -> 0..MaxSequence]
    BY DEF IInv, Typed, TypeOK
  <2>2. L \in 0..MaxSequence /\ highest_sequence[t.seat] <= L /\ t.sequence <= L
    BY <1>2, <2>1, LargerBounds, Zenon
  <2>3. highest_sequence' = [highest_sequence EXCEPT ![t.seat] = L]
    BY DEF Schedule
  <2>. HIDE DEF L
  <2>. QED BY <1>2, <2>1, <2>2, <2>3
<1>5. Typed'
  <2>1. TypeOK'
    BY <1>2, <1>3, <1>4 DEF IInv, Typed, TypeOK, Schedule
  <2>2. IsFiniteSet(pending') /\ IsFiniteSet(quarantined')
    BY <1>3, FS_AddElement DEF IInv, Typed, Schedule
  <2>. QED BY <2>1, <2>2 DEF IInv, Typed, history, Ids
<1>6. TablesBounded'
  <2>1. Cardinality(pending) \in Nat /\ Cardinality(pending) # Capacity
    BY <1>1, FS_CardinalityType DEF IInv, Typed, PendingFull
  <2>2. Cardinality(pending') = Cardinality(pending) + 1
    BY <1>3, FS_AddElement, Zenon DEF IInv, Typed
  <2>. QED BY <2>1, <2>2 DEF IInv, TablesBounded, Schedule
<1>7. PendingIsFuture'
  <2>1. /\ active[t.seat] /\ t.epoch = epochs[t.seat]
        /\ t.apply_tick >= SaturatingAdd(current_tick, Delay)
        /\ t.apply_tick <= SaturatingAdd(current_tick, Horizon)
    BY <1>1 DEF Admissible, EarliestApplyTick, LatestApplyTick
  <2>2. t.apply_tick \in 0..MaxTick /\ current_tick \in 0..MaxTick
    BY <1>2 DEF Transition, IInv, Typed, TypeOK
  <2>3. /\ current_tick < t.apply_tick \/ current_tick = MaxTick
        /\ t.apply_tick <= current_tick + Horizon
    BY <2>1, <2>2 DEF SaturatingAdd
  <2>4. /\ active' = active /\ epochs' = epochs /\ current_tick' = current_tick
    BY DEF Schedule
  <2>. QED BY <1>3, <2>1, <2>3, <2>4 DEF IInv, PendingIsFuture
<1>8. PendingIdentitiesUnique'
  BY <1>1, <1>3 DEF IInv, PendingIdentitiesUnique, Fresh, PendingIdentities
<1>9. InactiveSeatIsNeutral'
  BY DEF IInv, InactiveSeatIsNeutral, Schedule
<1>10. SequencesKnown'
  <2>1. \A u \in pending : u.seat \in Seats /\ u.sequence \in 0..MaxSequence
    BY IdentityParts DEF IInv, Typed, TypeOK
  <2>2. highest_applied_sequence' = highest_applied_sequence
    BY DEF Schedule
  <2>3. highest_applied_sequence \in [Seats -> 0..MaxSequence]
        /\ highest_sequence \in [Seats -> 0..MaxSequence]
    BY DEF IInv, Typed, TypeOK
  <2>4. \A s \in Seats : highest_applied_sequence'[s] <= highest_sequence'[s]
    <3>1. \A s \in Seats : highest_applied_sequence[s] <= highest_sequence[s]
      BY DEF IInv, SequencesKnown
    <3>. QED BY <1>4, <2>2, <2>3, <3>1
  <2>5. \A u \in pending' : u.sequence <= highest_sequence'[u.seat]
    <3>1. \A u \in pending : u.sequence <= highest_sequence[u.seat]
      BY DEF IInv, SequencesKnown
    <3>. QED BY <1>2, <1>3, <1>4, <2>1, <2>3, <3>1, AtMostTransitive, Zenon
  <2>. QED BY <2>4, <2>5 DEF SequencesKnown
<1>11. AppliedBelowFloor'
  BY DEF IInv, AppliedBelowFloor, Schedule, history
<1>12. ConflictsCovered'
  <2>1. \A id \in conflicted : id[1] \in Seats /\ id[3] \in 0..MaxSequence
    BY DEF IInv, Typed, Ids
  <2>2. highest_sequence \in [Seats -> 0..MaxSequence]
    BY DEF IInv, Typed, TypeOK
  <2>3. /\ epochs' = epochs /\ quarantined' = quarantined
        /\ highest_applied_sequence' = highest_applied_sequence
        /\ resync_required' = resync_required /\ conflicted' = conflicted
    BY DEF Schedule, history
  <2>4. ASSUME NEW id \in conflicted, id[3] <= highest_sequence[id[1]]
        PROVE  id[3] <= highest_sequence'[id[1]]
    BY <1>4, <2>1, <2>2, <2>4, AtMostTransitive, Zenon
  <2>. QED BY <2>3, <2>4 DEF IInv, ConflictsCovered
<1>13. PendingUntainted' /\ ConflictNeverApplied'
  BY <1>1, <1>3, FreshIsUntainted
     DEF IInv, PendingUntainted, ConflictNeverApplied, history
<1>. QED BY <1>5, <1>6, <1>7, <1>8, <1>9, <1>10, <1>11, <1>12, <1>13 DEF IInv

\* submit_transition when a second variant meets a scheduled one: the pending
\* transition is withdrawn and its identity is quarantined, or, with the table
\* full, the session asks for a resync.
LEMMA WithdrawPreserves ==
    ASSUME IInv, NEW t \in Received, Conflicting(t),
           pending' = WithoutIdentity(Identity(t)),
           conflicted' = conflicted \cup {Identity(t)},
           quarantined \subseteq quarantined', quarantined' \subseteq Ids,
           IsFiniteSet(quarantined'), Cardinality(quarantined') <= Capacity,
           resync_required' \in BOOLEAN, resync_required => resync_required',
           Identity(t) \in quarantined' \/ resync_required',
           UNCHANGED <<current_tick, snapshot_revision, controls, epochs, active,
                       highest_applied_sequence, highest_sequence, recent,
                       recent_next, applied>>
    PROVE  IInv'
<1>1. t \in Transition /\ t.epoch = epochs[t.seat]
  BY AdmissibleIsTransition DEF Conflicting, Admissible
<1>2. PICK p \in pending : Identity(p) = Identity(t)
  BY DEF Conflicting, PendingIdentities
<1>3. p \in Transition /\ p.seat = t.seat /\ p.sequence = t.sequence
  BY <1>1, <1>2, IdentityParts DEF IInv, Typed, TypeOK
<1>4. pending' \subseteq pending /\ \A u \in pending' : Identity(u) # Identity(t)
  BY DEF WithoutIdentity
<1>5. IsFiniteSet(pending') /\ Cardinality(pending') <= Cardinality(pending)
  BY <1>4, FS_Subset DEF IInv, Typed
<1>6. Typed'
  <2>1. TypeOK'
    BY <1>4 DEF IInv, Typed, TypeOK, Ids
  <2>2. Identity(t) \in Ids
    BY <1>1, IdentityParts
  <2>. QED BY <1>5, <2>1, <2>2 DEF IInv, Typed, Ids
<1>7. TablesBounded'
  <2>1. Cardinality(pending') \in Nat /\ Cardinality(pending) \in Nat
    BY <1>5, FS_CardinalityType DEF IInv, Typed
  <2>2. Cardinality(pending) <= Capacity
    BY DEF IInv, TablesBounded
  <2>. QED BY <1>5, <2>1, <2>2 DEF TablesBounded
<1>8. PendingIsFuture' /\ PendingIdentitiesUnique'
  BY <1>4 DEF IInv, PendingIsFuture, PendingIdentitiesUnique
<1>9. InactiveSeatIsNeutral' /\ AppliedBelowFloor'
  BY DEF IInv, InactiveSeatIsNeutral, AppliedBelowFloor
<1>10. SequencesKnown'
  BY <1>4 DEF IInv, SequencesKnown
<1>11. ConflictsCovered'
  <2> DEFINE i == Identity(t)
  <2>1. i[2] = epochs[i[1]] /\ i[3] <= highest_sequence[i[1]]
    BY <1>1, <1>2, <1>3, IdentityParts DEF IInv, SequencesKnown
  <2>2. i[2] <= epochs[i[1]]
    BY <1>1, <2>1, IdentityParts
  <2>. HIDE DEF i
  <2>. QED BY <2>1, <2>2 DEF IInv, ConflictsCovered, i
<1>12. PendingUntainted' /\ ConflictNeverApplied'
  BY <1>2, <1>4 DEF IInv, PendingUntainted, ConflictNeverApplied
<1>. QED BY <1>6, <1>7, <1>8, <1>9, <1>10, <1>11, <1>12, ZenonT(30) DEF IInv

LEMMA ConflictPreserves ==
    ASSUME IInv, NEW t \in Received,
           QuarantineConflict(t) \/ QuarantineOverflow(t),
           conflicted' = conflicted \cup {Identity(t)}, UNCHANGED applied
    PROVE  IInv'
<1>1. Conflicting(t)
  BY DEF QuarantineConflict, QuarantineOverflow
<1>2. Identity(t) \in Ids
  BY <1>1, AdmissibleIsTransition, IdentityParts DEF Conflicting
<1>3. /\ quarantined \subseteq Ids /\ IsFiniteSet(quarantined)
      /\ Cardinality(quarantined) \in Nat /\ Cardinality(quarantined) <= Capacity
      /\ resync_required \in BOOLEAN
  BY FS_CardinalityType DEF IInv, Typed, TypeOK, TablesBounded, Ids
<1>4. CASE QuarantineConflict(t)
  <2>1. /\ Identity(t) \in quarantined \/ Cardinality(quarantined) # Capacity
        /\ quarantined' = quarantined \cup {Identity(t)}
    BY <1>4 DEF QuarantineConflict, QuarantineIdentity, QuarantineFull
  <2>2. /\ IsFiniteSet(quarantined')
        /\ Cardinality(quarantined') = IF Identity(t) \in quarantined
             THEN Cardinality(quarantined) ELSE Cardinality(quarantined) + 1
    BY <1>3, <2>1, FS_AddElement
  <2>3. Cardinality(quarantined') <= Capacity
    BY <1>3, <2>1, <2>2
  <2>. QED
    BY Zenon, <1>1, <1>2, <1>3, <1>4, <2>1, <2>2, <2>3, WithdrawPreserves
       DEF QuarantineConflict, QuarantineIdentity
<1>5. CASE QuarantineOverflow(t)
  BY <1>1, <1>2, <1>3, <1>5, WithdrawPreserves DEF QuarantineOverflow
<1>. QED BY <1>4, <1>5

\* submit_transition when it only asks for a resync, and when it rejects.
LEMMA UnscheduledPreserves ==
    ASSUME IInv, UNCHANGED history,
           \/ \E t \in Received : RequireResync(t)
           \/ UNCHANGED vars
    PROVE  IInv'
<1>1. /\ UNCHANGED <<current_tick, snapshot_revision, controls, epochs, active,
                     highest_applied_sequence, highest_sequence, quarantined,
                     pending, recent, recent_next, applied, conflicted>>
      /\ resync_required' = TRUE \/ UNCHANGED resync_required
  BY DEF RequireResync, vars, history
<1>2. Typed' /\ TablesBounded'
  BY <1>1, Zenon DEF IInv, Typed, TypeOK, TablesBounded, Ids
<1>3. PendingIsFuture' /\ PendingIdentitiesUnique' /\ InactiveSeatIsNeutral'
  BY <1>1, Zenon DEF IInv, PendingIsFuture, PendingIdentitiesUnique, InactiveSeatIsNeutral
<1>4. SequencesKnown' /\ AppliedBelowFloor' /\ ConflictsCovered'
  BY <1>1 DEF IInv, SequencesKnown, AppliedBelowFloor, ConflictsCovered
<1>5. PendingUntainted' /\ ConflictNeverApplied'
  BY <1>1 DEF IInv, PendingUntainted, ConflictNeverApplied
<1>. QED BY <1>2, <1>3, <1>4, <1>5 DEF IInv

\* advance_tick: what is due becomes applied and its seat's floor covers it;
\* an identity leaves quarantine only below the floor.
LEMMA TickPreserves ==
    ASSUME IInv, TickStep
    PROVE  IInv'
<1> DEFINE tick == current_tick + 1
<1>1. /\ current_tick < MaxTick /\ current_tick' = tick
      /\ pending' = pending \ Due(tick)
      /\ controls' = [s \in Seats |-> IF DueOf(tick, s) = {} THEN controls[s]
                                      ELSE LastDueOf(tick, s).state]
      /\ highest_applied_sequence' = [s \in Seats |-> AppliedFloor(tick, s)]
      /\ quarantined' = Compacted(tick)
      /\ applied' = applied \cup {Identity(t) : t \in Due(tick)}
      /\ UNCHANGED <<snapshot_revision, epochs, active, highest_sequence,
                     resync_required, conflicted>>
  BY ZenonT(30) DEF TickStep, AdvanceTick
<1>2. current_tick \in 0..MaxTick /\ tick \in 0..MaxTick
  <2>1. current_tick \in 0..MaxTick
    BY Zenon DEF IInv, Typed, TypeOK
  <2>. QED BY <1>1, <2>1, NextTick, Zenon
<1>3. /\ pending \subseteq Transition /\ Due(tick) \subseteq pending
      /\ IsFiniteSet(pending) /\ IsFiniteSet(Due(tick))
  <2>1. Due(tick) \subseteq pending
    BY DEF Due
  <2>. QED BY <2>1, FS_Subset DEF IInv, Typed, TypeOK
<1>4. \A s \in Seats : /\ AppliedFloor(tick, s) \in 0..MaxSequence
                       /\ highest_applied_sequence[s] <= AppliedFloor(tick, s)
                       /\ \A t \in DueOf(tick, s) : t.sequence <= AppliedFloor(tick, s)
                       /\ \/ AppliedFloor(tick, s) = highest_applied_sequence[s]
                          \/ \E t \in DueOf(tick, s) : AppliedFloor(tick, s) = t.sequence
  BY FloorCovers DEF IInv, Typed
<1> HIDE DEF tick
<1>5. quarantined' \subseteq quarantined
  BY <1>1 DEF Compacted
<1>6. IsFiniteSet(pending') /\ Cardinality(pending') <= Cardinality(pending)
      /\ IsFiniteSet(quarantined') /\ Cardinality(quarantined') <= Cardinality(quarantined)
  <2>1. pending' \subseteq pending
    BY <1>1
  <2>. QED BY <1>5, <2>1, FS_Subset DEF IInv, Typed
<1>7. Typed'
  <2>1. controls' \in [Seats -> ControlStates]
    <3>1. ASSUME NEW s \in Seats, DueOf(tick, s) # {}
          PROVE  LastDueOf(tick, s).state \in ControlStates
      <4>1. LastDueOf(tick, s) \in DueOf(tick, s)
        BY <1>3, <3>1, LastDueIsDue, Zenon DEF IInv, Typed
      <4>. QED BY <1>3, <4>1 DEF DueOf, Transition
    <3>. QED BY <1>1, <3>1 DEF IInv, Typed, TypeOK
  <2>2. highest_applied_sequence' \in [Seats -> 0..MaxSequence]
    BY <1>1, <1>4
  <2>3. recent' \in [Ring -> Transition \cup {NoTransition}]
    <3>1. recent' = [i \in Ring |->
                      IF \E t \in Due(tick) : RingSlot(t, tick) = i
                      THEN CHOOSE t \in Due(tick) : RingSlot(t, tick) = i
                      ELSE recent[i]]
      BY DEF TickStep, AdvanceTick, tick
    <3>2. ASSUME NEW i \in Ring, \E t \in Due(tick) : RingSlot(t, tick) = i
          PROVE  (CHOOSE t \in Due(tick) : RingSlot(t, tick) = i) \in Transition
      BY <1>3, <3>2
    <3>. QED BY <3>1, <3>2 DEF IInv, Typed, TypeOK
  <2>4. recent_next' \in Ring
    <3>1. recent_next' = (recent_next + Cardinality(Due(tick))) % Capacity
      BY DEF TickStep, AdvanceTick, tick
    <3>2. recent_next + Cardinality(Due(tick)) \in Nat
      BY <1>3, FS_CardinalityType DEF IInv, Typed, TypeOK, Ring
    <3>. QED BY <3>1, <3>2, RemainderInRing
  <2>5. TypeOK'
    BY <1>1, <1>2, <1>3, <1>5, <2>1, <2>2, <2>3, <2>4, Zenon DEF IInv, Typed, TypeOK
  <2>6. applied' \subseteq Ids
    BY <1>1, <1>3, IdentityParts DEF IInv, Typed
  <2>. QED BY <1>1, <1>6, <2>5, <2>6, Zenon DEF IInv, Typed, Ids
<1>8. TablesBounded'
  <2>1. /\ Cardinality(pending') \in Nat /\ Cardinality(pending) \in Nat
        /\ Cardinality(quarantined') \in Nat /\ Cardinality(quarantined) \in Nat
    BY <1>6, FS_CardinalityType, Zenon DEF IInv, Typed
  <2>. QED BY <1>6, <2>1 DEF IInv, TablesBounded
<1>9. PendingIsFuture'
  <2> SUFFICES ASSUME NEW t \in pending'
               PROVE  /\ active'[t.seat] /\ t.epoch = epochs'[t.seat]
                      /\ current_tick' < t.apply_tick \/ current_tick' = MaxTick
                      /\ t.apply_tick <= current_tick' + Horizon
    BY DEF PendingIsFuture
  <2>1. t \in pending /\ t.apply_tick # tick
    BY <1>1 DEF Due
  <2>2. t.apply_tick \in 0..MaxTick
    BY <1>3, <2>1 DEF Transition
  <2>3. /\ active[t.seat] /\ t.epoch = epochs[t.seat]
        /\ current_tick < t.apply_tick
        /\ t.apply_tick <= current_tick + Horizon
    BY <1>1, <1>2, <2>1 DEF IInv, PendingIsFuture
  <2>4. tick < t.apply_tick /\ t.apply_tick <= tick + Horizon
    BY <1>2, <2>1, <2>2, <2>3, NextTickIsSooner, ZenonT(30) DEF tick
  <2>. QED BY <1>1, <2>3, <2>4
<1>10. PendingIdentitiesUnique'
  BY <1>1, Zenon DEF IInv, PendingIdentitiesUnique
<1>11. InactiveSeatIsNeutral'
  <2>1. ASSUME NEW s \in Seats, ~active[s] PROVE DueOf(tick, s) = {}
    BY <1>3, <2>1 DEF DueOf, IInv, PendingIsFuture
  <2>. QED BY <1>1, <2>1 DEF IInv, InactiveSeatIsNeutral
<1>12. SequencesKnown'
  <2>1. ASSUME NEW s \in Seats
        PROVE  highest_applied_sequence'[s] <= highest_sequence'[s]
    <3>1. highest_applied_sequence'[s] = AppliedFloor(tick, s)
      BY <1>1
    <3>2. highest_applied_sequence[s] <= highest_sequence[s]
      BY DEF IInv, SequencesKnown
    <3>3. \A t \in DueOf(tick, s) : t.sequence <= highest_sequence[s]
      BY <1>3, ZenonT(30) DEF DueOf, IInv, SequencesKnown
    <3>. QED BY <1>1, <1>4, <3>1, <3>2, <3>3, Zenon
  <2>2. \A t \in pending' : t.sequence <= highest_sequence'[t.seat]
    BY <1>1 DEF IInv, SequencesKnown
  <2>. QED BY <2>1, <2>2, Zenon DEF SequencesKnown
<1>13. AppliedBelowFloor'
  <2> SUFFICES ASSUME NEW id \in applied'
               PROVE  /\ id[2] <= epochs[id[1]]
                      /\ id[2] = epochs[id[1]] => id[3] <= AppliedFloor(tick, id[1])
    <3>1. \A i \in applied' : i[1] \in Seats
      BY <1>7 DEF Typed, Ids
    <3>. QED BY <1>1, <3>1 DEF AppliedBelowFloor
  <2>1. CASE id \in applied
    <3>1. id[1] \in Seats /\ id[3] \in 0..MaxSequence
      BY <2>1 DEF IInv, Typed, Ids
    <3>2. highest_applied_sequence[id[1]] \in 0..MaxSequence
      BY <3>1, Zenon DEF IInv, Typed, TypeOK
    <3>. QED BY <1>4, <2>1, <3>1, <3>2, AtMostTransitive, Zenon DEF IInv, AppliedBelowFloor
  <2>2. CASE \E t \in Due(tick) : id = Identity(t)
    <3>1. PICK t \in Due(tick) : id = Identity(t)
      BY <2>2
    <3>2. t \in Transition /\ t \in DueOf(tick, t.seat) /\ t.epoch = epochs[t.seat]
      BY <1>3 DEF DueOf, IInv, PendingIsFuture
    <3>3. /\ id[1] = t.seat /\ id[2] = t.epoch /\ id[3] = t.sequence
          /\ t.seat \in Seats /\ t.epoch \in 1..MaxEpoch
      BY <3>1, <3>2, IdentityParts
    <3>4. id[2] <= epochs[id[1]]
      BY <3>2, <3>3
    <3>. QED BY <1>4, <3>2, <3>3, <3>4, Zenon
  <2>. QED BY <1>1, <2>1, <2>2, Zenon
<1>14. ConflictsCovered'
  <2> SUFFICES ASSUME NEW id \in conflicted
               PROVE  /\ id[2] <= epochs[id[1]]
                      /\ id[2] = epochs[id[1]] =>
                           /\ id[3] <= highest_sequence[id[1]]
                           /\ \/ id \in quarantined'
                              \/ id[3] <= highest_applied_sequence'[id[1]]
                              \/ resync_required
    BY <1>1 DEF ConflictsCovered
  <2>0. id \in Ids
    BY Zenon DEF IInv, Typed
  <2>1. id[1] \in Seats /\ id[3] \in 0..MaxSequence
    BY <2>0 DEF Ids
  <2>2. highest_applied_sequence'[id[1]] = AppliedFloor(tick, id[1])
    BY <1>1, <2>1
  <2>3. /\ highest_applied_sequence[id[1]] \in 0..MaxSequence
        /\ AppliedFloor(tick, id[1]) \in 0..MaxSequence
        /\ highest_applied_sequence[id[1]] <= AppliedFloor(tick, id[1])
    BY <1>4, <2>1, Zenon DEF IInv, Typed, TypeOK
  <2>4. ASSUME id \in quarantined, id \notin quarantined'
        PROVE  id[3] <= AppliedFloor(tick, id[1])
    BY <1>1, <2>4 DEF Compacted
  <2>5. ASSUME id[3] <= highest_applied_sequence[id[1]]
        PROVE  id[3] <= AppliedFloor(tick, id[1])
    BY <2>1, <2>3, <2>5, AtMostTransitive
  <2>. QED BY <2>2, <2>4, <2>5, ZenonT(30) DEF IInv, ConflictsCovered
<1>15. PendingUntainted'
  <2> SUFFICES ASSUME NEW t \in pending'
               PROVE  Identity(t) \notin applied' /\ Identity(t) \notin conflicted'
    BY Zenon DEF PendingUntainted
  <2>1. t \in pending /\ t \notin Due(tick)
    BY <1>1
  <2>2. \A u \in Due(tick) : Identity(u) # Identity(t)
    BY <1>3, <2>1 DEF IInv, PendingIdentitiesUnique
  <2>. QED BY <1>1, <2>1, <2>2 DEF IInv, PendingUntainted
<1>16. ConflictNeverApplied'
  BY <1>1, <1>3 DEF IInv, PendingUntainted, ConflictNeverApplied
<1>. QED BY <1>7, <1>8, <1>9, <1>10, <1>11, <1>12, <1>13, <1>14, <1>15, <1>16, Zenon DEF IInv

\* disconnect and reconnect: the seat's own past ends with its epoch, the
\* other seats keep theirs.
LEMMA LifecyclePreserves ==
    ASSUME IInv, NEW s \in Seats, NEW activate \in BOOLEAN,
           LifecycleEpoch(s, activate), UNCHANGED history
    PROVE  IInv'
<1> USE DEF LifecycleEpoch, history
<1>1. pending' \subseteq pending /\ \A t \in pending' : t.seat # s
  OBVIOUS
<1>2. quarantined' \subseteq quarantined
  BY Zenon
<1>3. epochs \in [Seats -> 1..MaxEpoch] /\ epochs[s] + 1 \in 1..MaxEpoch
  BY DEF IInv, Typed, TypeOK
<1>4. \A r \in Seats : r # s =>
        /\ epochs'[r] = epochs[r] /\ active'[r] = active[r]
        /\ controls'[r] = controls[r]
        /\ highest_sequence'[r] = highest_sequence[r]
        /\ highest_applied_sequence'[r] = highest_applied_sequence[r]
  BY Zenon DEF IInv, Typed, TypeOK
<1>5. /\ epochs[s] < epochs'[s] /\ epochs'[s] \in 1..MaxEpoch /\ controls'[s] = Neutral
      /\ highest_sequence'[s] = 0 /\ highest_applied_sequence'[s] = 0
  BY <1>3 DEF IInv, Typed, TypeOK
<1>6. TypeOK'
  <2>1. epochs' \in [Seats -> 1..MaxEpoch]
    BY <1>3, Zenon
  <2>2. /\ controls' \in [Seats -> ControlStates] /\ active' \in [Seats -> BOOLEAN]
        /\ highest_sequence' \in [Seats -> 0..MaxSequence]
        /\ highest_applied_sequence' \in [Seats -> 0..MaxSequence]
    BY DEF IInv, Typed, TypeOK
  <2>3. recent' \in [Ring -> Transition \cup {NoTransition}]
    BY Zenon DEF IInv, Typed, TypeOK
  <2>. QED BY <1>1, <1>2, <2>1, <2>2, <2>3, Zenon DEF IInv, Typed, TypeOK
<1>7. /\ IsFiniteSet(pending') /\ Cardinality(pending') <= Cardinality(pending)
      /\ IsFiniteSet(quarantined') /\ Cardinality(quarantined') <= Cardinality(quarantined)
  BY <1>1, <1>2, FS_Subset, Zenon DEF IInv, Typed
<1>8. Typed'
  BY <1>6, <1>7, Zenon DEF IInv, Typed, Ids
<1>9. TablesBounded'
  <2>1. /\ Cardinality(pending') \in Nat /\ Cardinality(pending) \in Nat
        /\ Cardinality(quarantined') \in Nat /\ Cardinality(quarantined) \in Nat
    BY <1>7, FS_CardinalityType, Zenon DEF IInv, Typed
  <2>. QED BY <1>7, <2>1 DEF IInv, TablesBounded
<1>10. \A t \in pending' : t \in pending /\ t.seat \in Seats /\ t.seat # s
  BY <1>1, Zenon DEF IInv, Typed, TypeOK, Transition
<1>11. PendingIsFuture' /\ PendingIdentitiesUnique'
  BY <1>4, <1>10 DEF IInv, PendingIsFuture, PendingIdentitiesUnique
<1>12. InactiveSeatIsNeutral'
  BY <1>4, <1>5, Zenon DEF IInv, InactiveSeatIsNeutral
<1>13. SequencesKnown'
  BY <1>4, <1>5, <1>10 DEF IInv, SequencesKnown
<1>14. \A id \in Ids : /\ id[1] \in Seats /\ id[2] \in 1..MaxEpoch
  BY Zenon DEF Ids
<1>15. AppliedBelowFloor'
  <2> SUFFICES ASSUME NEW id \in applied
               PROVE  /\ id[2] <= epochs'[id[1]]
                      /\ id[2] = epochs'[id[1]] => id[3] <= highest_applied_sequence'[id[1]]
    BY Zenon DEF AppliedBelowFloor
  <2>1. id[1] \in Seats /\ id[2] \in 1..MaxEpoch /\ id[2] <= epochs[id[1]]
    BY <1>14 DEF IInv, Typed, AppliedBelowFloor
  <2>2. CASE id[1] = s
    BY <1>3, <1>5, <2>1, <2>2, NewerEpoch, Zenon
  <2>3. CASE id[1] # s
    BY <1>4, <2>1, <2>3, Zenon DEF IInv, AppliedBelowFloor
  <2>. QED BY <2>2, <2>3
<1>16. ConflictsCovered'
  <2> SUFFICES ASSUME NEW id \in conflicted
               PROVE  /\ id[2] <= epochs'[id[1]]
                      /\ id[2] = epochs'[id[1]] =>
                           /\ id[3] <= highest_sequence'[id[1]]
                           /\ \/ id \in quarantined'
                              \/ id[3] <= highest_applied_sequence'[id[1]]
                              \/ resync_required
    BY Zenon DEF ConflictsCovered
  <2>1. id[1] \in Seats /\ id[2] \in 1..MaxEpoch /\ id[2] <= epochs[id[1]]
    BY <1>14 DEF IInv, Typed, ConflictsCovered
  <2>2. CASE id[1] = s
    BY <1>3, <1>5, <2>1, <2>2, NewerEpoch, ZenonT(30)
  <2>3. CASE id[1] # s
    BY <1>4, <2>1, <2>3, Zenon DEF IInv, ConflictsCovered
  <2>. QED BY <2>2, <2>3, Zenon
<1>17. PendingUntainted' /\ ConflictNeverApplied'
  BY <1>1 DEF IInv, PendingUntainted, ConflictNeverApplied
<1>. QED BY <1>8, <1>9, <1>11, <1>12, <1>13, <1>15, <1>16, <1>17, ZenonT(30) DEF IInv

\* pause, focus loss, rematch and an authoritative snapshot all clear the
\* tables.  What was forgotten is covered again: a seat either enters a new
\* epoch, or takes a floor at or above every sequence it has seen.
LEMMA ClearingPreserves ==
    ASSUME IInv, TypeOK', pending' = {}, quarantined' = {},
           highest_applied_sequence' = highest_sequence',
           InactiveSeatIsNeutral',
           \A s \in Seats : \/ epochs[s] < epochs'[s]
                            \/ /\ epochs'[s] = epochs[s]
                               /\ highest_sequence[s] <= highest_sequence'[s],
           UNCHANGED history
    PROVE  IInv'
<1>1. Typed' /\ TablesBounded'
  BY FS_EmptySet DEF IInv, Typed, TablesBounded, history, Ids
<1>2. PendingIsFuture' /\ PendingIdentitiesUnique' /\ PendingUntainted'
  BY DEF PendingIsFuture, PendingIdentitiesUnique, PendingUntainted
<1>3. ConflictNeverApplied'
  BY Zenon DEF IInv, ConflictNeverApplied, history
<1>4. /\ highest_sequence \in [Seats -> 0..MaxSequence]
      /\ highest_applied_sequence \in [Seats -> 0..MaxSequence]
      /\ highest_sequence' \in [Seats -> 0..MaxSequence]
      /\ epochs \in [Seats -> 1..MaxEpoch] /\ epochs' \in [Seats -> 1..MaxEpoch]
  BY DEF IInv, Typed, TypeOK
<1>5. SequencesKnown'
  BY <1>4 DEF SequencesKnown
<1>6. \A id \in Ids : /\ id[1] \in Seats /\ id[2] \in 1..MaxEpoch
                      /\ id[3] \in 0..MaxSequence
  BY DEF Ids
<1>7. ASSUME NEW id \in Ids, id[2] <= epochs[id[1]],
             id[2] = epochs[id[1]] => id[3] <= highest_sequence[id[1]]
      PROVE  /\ id[2] <= epochs'[id[1]]
             /\ id[2] = epochs'[id[1]] => id[3] <= highest_sequence'[id[1]]
  <2>1. /\ id[1] \in Seats /\ id[2] \in 1..MaxEpoch /\ id[3] \in 0..MaxSequence
        /\ epochs[id[1]] \in 1..MaxEpoch /\ epochs'[id[1]] \in 1..MaxEpoch
        /\ highest_sequence[id[1]] \in 0..MaxSequence
        /\ highest_sequence'[id[1]] \in 0..MaxSequence
    BY <1>4, <1>6, Zenon
  <2>2. CASE epochs[id[1]] < epochs'[id[1]]
    BY <1>7, <2>1, <2>2, NewerEpoch
  <2>3. CASE /\ epochs'[id[1]] = epochs[id[1]]
             /\ highest_sequence[id[1]] <= highest_sequence'[id[1]]
    BY <1>7, <2>1, <2>3, AtMostTransitive, ZenonT(30)
  <2>. QED BY <2>1, <2>2, <2>3, Zenon
<1>8. AppliedBelowFloor'
  <2>1. \A id \in applied : id[2] = epochs[id[1]] => id[3] <= highest_sequence[id[1]]
    <3> SUFFICES ASSUME NEW id \in applied, id[2] = epochs[id[1]]
                 PROVE  id[3] <= highest_sequence[id[1]]
      OBVIOUS
    <3>1. id \in Ids /\ id[3] <= highest_applied_sequence[id[1]]
      BY DEF IInv, Typed, AppliedBelowFloor
    <3>2. highest_applied_sequence[id[1]] <= highest_sequence[id[1]]
      BY <1>6, <3>1, Zenon DEF IInv, SequencesKnown
    <3>3. /\ id[3] \in 0..MaxSequence
          /\ highest_sequence[id[1]] \in 0..MaxSequence
          /\ highest_applied_sequence[id[1]] \in 0..MaxSequence
      BY <1>4, <1>6, <3>1, Zenon
    <3>. QED BY <3>1, <3>2, <3>3, AtMostTransitive
  <2>. QED BY <1>7, <2>1 DEF IInv, Typed, AppliedBelowFloor, history
<1>9. ConflictsCovered'
  BY <1>7 DEF IInv, Typed, ConflictsCovered, history
<1>. QED BY <1>1, <1>2, <1>3, <1>5, <1>8, <1>9, Zenon DEF IInv

LEMMA ResetPreserves ==
    ASSUME IInv, NEW rematch \in BOOLEAN, ResetAll(rematch), UNCHANGED history
    PROVE  IInv'
<1> USE DEF ResetAll
<1>1. epochs \in [Seats -> 1..MaxEpoch] /\ active \in [Seats -> BOOLEAN]
  BY DEF IInv, Typed, TypeOK
<1>2. epochs' \in [Seats -> 1..MaxEpoch] /\ \A s \in Seats : epochs[s] < epochs'[s]
  <2>1. \A s \in Seats : epochs[s] + 1 \in 1..MaxEpoch
    BY <1>1
  <2>. QED BY <1>1, <2>1
<1>3. current_tick' \in 0..MaxTick /\ snapshot_revision' \in 0..MaxRevision
  BY DEF IInv, Typed, TypeOK
<1>4. /\ active' \in [Seats -> BOOLEAN] /\ controls' \in [Seats -> ControlStates]
      /\ highest_sequence' \in [Seats -> 0..MaxSequence]
      /\ recent' \in [Ring -> Transition \cup {NoTransition}] /\ recent_next' \in Ring
  BY <1>1 DEF Ring
<1>5. TypeOK'
  BY <1>2, <1>3, <1>4, Zenon DEF TypeOK
<1>6. InactiveSeatIsNeutral'
  BY Zenon DEF InactiveSeatIsNeutral
<1>. QED BY <1>2, <1>5, <1>6, ClearingPreserves, Zenon

LEMMA SnapshotPreserves ==
    ASSUME IInv, NEW snap \in Snapshots, ApplyAuthoritativeSnapshot(snap),
           UNCHANGED history
    PROVE  IInv'
<1> USE DEF ApplyAuthoritativeSnapshot, ApplySnapshot
<1>1. /\ snap.revision \in 0..MaxRevision /\ snap.tick \in 0..MaxTick
      /\ snap.controls \in [Seats -> ControlStates]
      /\ snap.sequences \in [Seats -> 0..MaxSequence]
      /\ snap.epochs \in [Seats -> 0..MaxEpoch]
      /\ snap.active \in [Seats -> BOOLEAN]
  BY Zenon DEF AuthoritativeSnapshot
<1>2. epochs \in [Seats -> 1..MaxEpoch]
  BY Zenon DEF IInv, Typed, TypeOK
<1>3. \A s \in Seats :
        /\ epochs[s] <= snap.epochs[s]
        /\ snap.epochs[s] = epochs[s] => highest_sequence[s] <= snap.sequences[s]
        /\ ~snap.active[s] => snap.controls[s] = Neutral
  BY Zenon DEF SnapshotAccepted
<1>4. epochs' \in [Seats -> 1..MaxEpoch]
  <2>1. ASSUME NEW s \in Seats PROVE snap.epochs[s] \in 1..MaxEpoch
    <3>1. /\ epochs[s] \in 1..MaxEpoch /\ snap.epochs[s] \in 0..MaxEpoch
          /\ epochs[s] <= snap.epochs[s]
      BY <1>1, <1>2, <1>3
    <3>2. \A e \in 1..MaxEpoch, f \in 0..MaxEpoch : e <= f => f \in 1..MaxEpoch
      OBVIOUS
    <3>. QED BY <3>1, <3>2, Zenon
  <2>. QED BY <1>1, <2>1
<1>5. \A s \in Seats : \/ epochs[s] < epochs'[s]
                       \/ /\ epochs'[s] = epochs[s]
                          /\ highest_sequence[s] <= highest_sequence'[s]
  <2> SUFFICES ASSUME NEW s \in Seats
               PROVE  \/ epochs[s] < epochs'[s]
                      \/ /\ epochs'[s] = epochs[s]
                         /\ highest_sequence[s] <= highest_sequence'[s]
    BY Zenon
  <2>1. epochs'[s] = snap.epochs[s] /\ highest_sequence'[s] = snap.sequences[s]
    BY Zenon
  <2>2. epochs[s] \in 1..MaxEpoch /\ epochs'[s] \in 1..MaxEpoch
    BY <1>2, <1>4, Zenon
  <2>. QED BY <1>3, <2>1, <2>2, SameOrNewer, Zenon
<1>6. TypeOK'
  <2>1. /\ recent' \in [Ring -> Transition \cup {NoTransition}]
        /\ recent_next' \in Ring
    BY DEF Ring
  <2>2. /\ current_tick' \in 0..MaxTick /\ snapshot_revision' \in 0..MaxRevision
        /\ controls' \in [Seats -> ControlStates] /\ active' \in [Seats -> BOOLEAN]
        /\ highest_applied_sequence' \in [Seats -> 0..MaxSequence]
        /\ highest_sequence' \in [Seats -> 0..MaxSequence]
    BY <1>1, Zenon
  <2>. QED BY <1>4, <2>1, <2>2, Zenon DEF TypeOK
<1>7. InactiveSeatIsNeutral'
  BY <1>3, Zenon DEF InactiveSeatIsNeutral
<1>. QED BY <1>5, <1>6, <1>7, ClearingPreserves

-----------------------------------------------------------------------------
\* Every operation of the session preserves the invariant.
LEMMA StepPreserves == IInv /\ [SafetyNext]_allVars => IInv'
<1> SUFFICES ASSUME IInv, [SafetyNext]_allVars PROVE IInv'
  OBVIOUS
<1>1. ASSUME NEW t \in Received, SubmitStep(t) PROVE IInv'
  <2>1. CASE Schedule(t)
    <3>1. ~Conflicting(t)
      BY <2>1 DEF Schedule, Schedulable, Fresh, Conflicting
    <3>. QED BY <1>1, <2>1, <3>1, SchedulePreserves, ZenonT(30) DEF SubmitStep, history
  <2>2. CASE QuarantineConflict(t) \/ QuarantineOverflow(t)
    BY Zenon, <1>1, <2>2, ConflictPreserves
       DEF SubmitStep, QuarantineConflict, QuarantineOverflow
  <2>3. CASE RequireResync(t)
    <3>1. ~Conflicting(t)
      BY <2>3 DEF RequireResync, Fresh, Conflicting
    <3>. QED BY <1>1, <2>3, <3>1, UnscheduledPreserves, ZenonT(30) DEF SubmitStep, history
  <2>4. CASE Reject(t)
    BY <1>1, <2>4, UnscheduledPreserves DEF SubmitStep, Reject, history
  <2>. QED BY <1>1, <2>1, <2>2, <2>3, <2>4 DEF SubmitStep, SubmitTransition
<1>2. CASE TickStep
  BY <1>2, TickPreserves
<1>3. CASE ResetStep
  BY <1>3, LifecyclePreserves, ResetPreserves, SnapshotPreserves DEF ResetStep
<1>4. CASE UNCHANGED allVars
  BY <1>4, UnscheduledPreserves DEF allVars
<1>. QED BY <1>1, <1>2, <1>3, <1>4 DEF SafetyNext

\* The invariant holds in every reachable state, for any number of seats, any
\* table capacity, delay and horizon, and any transitions and snapshots.
THEOREM Invariance == SafetySpec => []IInv
BY InitEstablishes, StepPreserves, PTL DEF SafetySpec

\* The state always has the shape the code's fixed tables give it.
THEOREM TypeCorrect == SafetySpec => []TypeOK
<1>1. IInv => TypeOK
  BY DEF IInv, Typed
<1>. QED BY <1>1, Invariance, PTL

\* A scheduled transition has never been applied before: no identity reaches
\* the simulation twice, however the network repeats and reorders it.
THEOREM AppliedOnce == SafetySpec => []NeverScheduledAgain
<1>1. IInv => NeverScheduledAgain
  BY DEF IInv, PendingUntainted, NeverScheduledAgain, PendingIdentities
<1>. QED BY <1>1, Invariance, PTL

\* Two variants of an identity that met in the schedule are both kept from the
\* simulation, also after compaction, resets and snapshots.
THEOREM ConflictsExcluded == SafetySpec => []ConflictNeverApplied
<1>1. IInv => ConflictNeverApplied
  BY DEF IInv
<1>. QED BY <1>1, Invariance, PTL

\* Nothing scheduled is ever missed: it lies ahead of the clock, within the
\* horizon, in the current epoch of an active seat.
THEOREM NothingMissed == SafetySpec => []PendingIsFuture
<1>1. IInv => PendingIsFuture
  BY DEF IInv
<1>. QED BY <1>1, Invariance, PTL

\* The fixed tables never overflow and an absent seat holds no control.
THEOREM TablesAndSeats ==
    SafetySpec => [](TablesBounded /\ PendingIdentitiesUnique /\ InactiveSeatIsNeutral)
<1>1. IInv => TablesBounded /\ PendingIdentitiesUnique /\ InactiveSeatIsNeutral
  BY DEF IInv
<1>. QED BY <1>1, Invariance, PTL

-----------------------------------------------------------------------------
\* One step never turns the clock back for an epoch that survives it.
LEMMA RewindStep ==
    ASSUME IInv, [SafetyNext]_allVars, current_tick' < current_tick
    PROVE  \A s \in Seats : epochs'[s] > epochs[s]
<1>1. current_tick \in 0..MaxTick /\ epochs \in [Seats -> 1..MaxEpoch]
  BY DEF IInv, Typed, TypeOK
<1>2. current_tick' # current_tick /\ current_tick' # current_tick + 1
  BY <1>1, BackIsNotForth, ZenonT(30)
<1>3. \/ \E rematch \in BOOLEAN : ResetAll(rematch)
      \/ \E snap \in Snapshots : ApplyAuthoritativeSnapshot(snap)
  BY <1>2 DEF SafetyNext, SubmitStep, SubmitTransition, Schedule,
       QuarantineConflict, QuarantineIdentity, QuarantineOverflow, RequireResync,
       Reject, TickStep, AdvanceTick, ResetStep, LifecycleEpoch, vars, allVars
<1>4. CASE \E rematch \in BOOLEAN : ResetAll(rematch)
  BY <1>1, <1>4, ResetRenews, ZenonT(30)
<1>5. ASSUME NEW snap \in Snapshots, ApplyAuthoritativeSnapshot(snap)
      PROVE  \A s \in Seats : epochs'[s] > epochs[s]
  <2> SUFFICES ASSUME NEW s \in Seats PROVE epochs'[s] > epochs[s]
    BY ZenonT(30)
  <2>1. /\ epochs'[s] = snap.epochs[s] /\ current_tick' = snap.tick
        /\ epochs'[s] >= epochs[s]
        /\ epochs'[s] = epochs[s] => snap.tick >= current_tick
    BY <1>5, Zenon DEF ApplyAuthoritativeSnapshot, ApplySnapshot, SnapshotAccepted
  <2>2. snap.tick \in 0..MaxTick /\ snap.epochs[s] \in 0..MaxEpoch
    BY Zenon DEF AuthoritativeSnapshot
  <2>3. epochs'[s] # epochs[s]
    BY <1>1, <2>1, <2>2
  <2>4. epochs[s] \in 1..MaxEpoch
    BY <1>1, Zenon
  <2>5. epochs'[s] \in Int /\ epochs[s] \in Int
    BY <2>1, <2>2, <2>4
  <2>. QED BY <2>1, <2>3, <2>5
<1>. QED BY <1>3, <1>4, <1>5, Zenon

\* Time runs backwards only for epochs that end with it.
THEOREM RewindsRenew == SafetySpec => RewindRenewsEveryEpoch
<1>1. IInv /\ [SafetyNext]_allVars =>
        [current_tick' < current_tick => \A s \in Seats : epochs'[s] > epochs[s]]_allVars
  BY RewindStep
<1>. QED BY <1>1, Invariance, PTL DEF SafetySpec, RewindRenewsEveryEpoch

\* One step never lowers the floor of an epoch that survives it.
LEMMA FloorStep ==
    ASSUME IInv, [SafetyNext]_allVars, NEW s \in Seats, epochs'[s] = epochs[s]
    PROVE  highest_applied_sequence'[s] >= highest_applied_sequence[s]
<1>1. /\ highest_applied_sequence[s] \in 0..MaxSequence
      /\ highest_sequence[s] \in 0..MaxSequence
      /\ highest_applied_sequence[s] <= highest_sequence[s]
      /\ epochs \in [Seats -> 1..MaxEpoch]
      /\ highest_applied_sequence \in [Seats -> 0..MaxSequence]
  BY DEF IInv, Typed, TypeOK, SequencesKnown
<1>2. CASE UNCHANGED highest_applied_sequence
  BY <1>1, <1>2
<1>3. CASE TickStep
  <2>1. highest_applied_sequence'[s] = AppliedFloor(current_tick + 1, s)
    BY <1>3, Zenon DEF TickStep, AdvanceTick
  <2>2. highest_applied_sequence[s] <= AppliedFloor(current_tick + 1, s)
        /\ AppliedFloor(current_tick + 1, s) \in 0..MaxSequence
    BY FloorCovers, Zenon DEF IInv, Typed
  <2>. QED BY <1>1, <2>1, <2>2, Zenon
<1>4. ASSUME NEW r \in Seats, NEW activate \in BOOLEAN, LifecycleEpoch(r, activate)
      PROVE  highest_applied_sequence'[s] = highest_applied_sequence[s]
  <2>1. r # s
    BY <1>1, <1>4 DEF LifecycleEpoch
  <2>. QED BY <1>1, <1>4, <2>1, Zenon DEF LifecycleEpoch
<1>5. ~\E rematch \in BOOLEAN : ResetAll(rematch)
  BY <1>1 DEF ResetAll
<1>6. ASSUME NEW snap \in Snapshots, ApplyAuthoritativeSnapshot(snap)
      PROVE  highest_applied_sequence'[s] >= highest_applied_sequence[s]
  <2>1. /\ highest_applied_sequence'[s] = snap.sequences[s]
        /\ highest_sequence[s] <= snap.sequences[s]
    BY <1>6 DEF ApplyAuthoritativeSnapshot, ApplySnapshot, SnapshotAccepted
  <2>2. snap.sequences[s] \in 0..MaxSequence
    BY DEF AuthoritativeSnapshot
  <2>3. highest_applied_sequence[s] <= snap.sequences[s]
    BY <1>1, <2>1, <2>2, AtMostTransitive, ZenonT(30)
  <2>. QED BY <1>1, <2>1, <2>2, <2>3, Zenon
<1>7. \/ UNCHANGED highest_applied_sequence
      \/ TickStep
      \/ \E r \in Seats, activate \in BOOLEAN : LifecycleEpoch(r, activate)
      \/ \E rematch \in BOOLEAN : ResetAll(rematch)
      \/ \E snap \in Snapshots : ApplyAuthoritativeSnapshot(snap)
  BY DEF SafetyNext, SubmitStep, SubmitTransition, Schedule, QuarantineConflict,
         QuarantineIdentity, QuarantineOverflow, RequireResync, Reject, ResetStep,
         vars, allVars
<1>. QED BY <1>1, <1>2, <1>3, <1>4, <1>5, <1>6, <1>7

\* Within an epoch a seat's floor never falls.
THEOREM FloorsHold == SafetySpec => FloorNeverFalls
<1>1. IInv /\ [SafetyNext]_allVars =>
        [\A s \in Seats : epochs'[s] = epochs[s] =>
            highest_applied_sequence'[s] >= highest_applied_sequence[s]]_allVars
  BY FloorStep, Zenon
<1>. QED BY <1>1, Invariance, PTL DEF SafetySpec, FloorNeverFalls

-----------------------------------------------------------------------------
(* A scheduled transition leaves the schedule for one of four reasons, and for *)
(* good. *)

\* It reaches the simulation, at its own tick; or a variant of it met it; or its
\* epoch ends; or a snapshot takes it over, whose sequence number covers it.
LeftRightly(t) ==
    \/ t.apply_tick = current_tick' /\ Identity(t) \in applied'
    \/ Identity(t) \in conflicted'
    \/ t.epoch < epochs'[t.seat]
    \/ /\ snapshot_revision' > snapshot_revision
       /\ t.sequence <= highest_applied_sequence'[t.seat]

\* The session is done with an identity, although it may have forgotten why.
Spent(id) ==
    \/ id[2] < epochs[id[1]]
    \/ id[2] = epochs[id[1]] /\ id[3] <= highest_applied_sequence[id[1]]
    \/ id \in conflicted

\* No scheduled transition vanishes without a reason.
NothingVanishes == [][\A t \in pending : t \in pending' \/ LeftRightly(t)]_allVars

\* What leaves the schedule is spent, what is spent stays so, and nothing spent
\* is scheduled: an identity is in the schedule once, in whatever order copies,
\* resets and snapshots come and whatever the tables have dropped.
ScheduledOnce ==
    [][/\ \A t \in pending : t \in pending' \/ Spent(Identity(t))'
       /\ \A id \in Ids : Spent(id) => Spent(id)'
       /\ \A t \in pending' : t \in pending \/ ~Spent(Identity(t))]_allVars

\* What the invariant says of one scheduled transition.
LEMMA PendingFacts ==
    ASSUME IInv, NEW t \in pending
    PROVE  /\ t \in Transition /\ t.seat \in Seats
           /\ t.epoch = epochs[t.seat] /\ t.epoch \in 1..MaxEpoch
           /\ t.sequence \in 0..MaxSequence
           /\ highest_sequence[t.seat] \in 0..MaxSequence
           /\ t.sequence <= highest_sequence[t.seat]
<1>1. t \in Transition
  BY Zenon DEF IInv, Typed, TypeOK
<1>2. t.seat \in Seats /\ t.epoch \in 1..MaxEpoch /\ t.sequence \in 0..MaxSequence
  BY <1>1, IdentityParts
<1>3. highest_sequence[t.seat] \in 0..MaxSequence
  BY <1>2, Zenon DEF IInv, Typed, TypeOK
<1>. QED BY <1>1, <1>2, <1>3, Zenon DEF IInv, PendingIsFuture, SequencesKnown

LEMMA LifecycleRenews ==
    ASSUME epochs \in [Seats -> 1..MaxEpoch], NEW r \in Seats, NEW activate \in BOOLEAN,
           LifecycleEpoch(r, activate)
    PROVE  /\ epochs'[r] > epochs[r]
           /\ \A s \in Seats : s # r => epochs'[s] = epochs[s]
BY DEF LifecycleEpoch

\* One step takes a transition out of the schedule only for a reason.
LEMMA LeaveStep ==
    ASSUME IInv, [SafetyNext]_allVars, NEW t \in pending, t \notin pending'
    PROVE  LeftRightly(t)
<1>1. /\ t \in Transition /\ t.seat \in Seats
      /\ t.epoch = epochs[t.seat] /\ t.epoch \in 1..MaxEpoch
      /\ t.sequence \in 0..MaxSequence
      /\ highest_sequence[t.seat] \in 0..MaxSequence
      /\ t.sequence <= highest_sequence[t.seat]
  BY PendingFacts, Zenon
<1>2. epochs \in [Seats -> 1..MaxEpoch] /\ snapshot_revision \in 0..MaxRevision
  BY Zenon DEF IInv, Typed, TypeOK
<1>3. ASSUME NEW u \in Received, SubmitStep(u) PROVE LeftRightly(t)
  <2>1. Identity(t) = Identity(u) /\ Conflicting(u)
    BY <1>3, Zenon DEF SubmitStep, SubmitTransition, Schedule, QuarantineConflict,
       QuarantineIdentity, QuarantineOverflow, RequireResync, Reject, WithoutIdentity, vars
  <2>2. Identity(u) \in conflicted'
    BY <1>3, <2>1, Zenon DEF SubmitStep
  <2>. QED BY <2>1, <2>2, Zenon DEF LeftRightly
<1>4. CASE TickStep
  <2>1. /\ current_tick' = current_tick + 1
        /\ pending' = pending \ Due(current_tick + 1)
        /\ applied' = applied \cup {Identity(d) : d \in Due(current_tick + 1)}
    BY <1>4, Zenon DEF TickStep, AdvanceTick
  <2>2. t \in Due(current_tick + 1)
    BY <2>1, Zenon
  <2>3. t.apply_tick = current_tick' /\ Identity(t) \in applied'
    BY <2>1, <2>2, Zenon DEF Due
  <2>. QED BY <2>3, Zenon DEF LeftRightly
<1>5. ASSUME NEW r \in Seats, NEW activate \in BOOLEAN, LifecycleEpoch(r, activate)
      PROVE  LeftRightly(t)
  <2>1. t.seat = r
    BY <1>5, Zenon DEF LifecycleEpoch
  <2>2. epochs'[r] > epochs[r]
    BY <1>2, <1>5, LifecycleRenews, Zenon
  <2>. QED BY <1>1, <2>1, <2>2, Zenon DEF LeftRightly
<1>6. ASSUME NEW rematch \in BOOLEAN, ResetAll(rematch) PROVE LeftRightly(t)
  <2>1. epochs'[t.seat] > epochs[t.seat]
    BY <1>1, <1>2, <1>6, ResetRenews, Zenon
  <2>. QED BY <1>1, <2>1, Zenon DEF LeftRightly
<1>7. ASSUME NEW snap \in Snapshots, ApplyAuthoritativeSnapshot(snap) PROVE LeftRightly(t)
  <2>1. /\ epochs'[t.seat] = snap.epochs[t.seat] /\ epochs'[t.seat] >= epochs[t.seat]
        /\ epochs'[t.seat] = epochs[t.seat] => snap.sequences[t.seat] >= highest_sequence[t.seat]
        /\ highest_applied_sequence'[t.seat] = snap.sequences[t.seat]
        /\ snapshot_revision' = snap.revision /\ snap.revision > snapshot_revision
    BY <1>1, <1>7, Zenon DEF ApplyAuthoritativeSnapshot, ApplySnapshot, SnapshotAccepted
  <2>2. /\ snap.epochs[t.seat] \in 0..MaxEpoch /\ snap.sequences[t.seat] \in 0..MaxSequence
    BY <1>1, Zenon DEF AuthoritativeSnapshot
  <2>3. CASE epochs'[t.seat] = epochs[t.seat]
    <3>1. t.sequence <= snap.sequences[t.seat]
      BY <1>1, <2>1, <2>2, <2>3, AtMostTransitive, Zenon
    <3>. QED BY <2>1, <3>1, Zenon DEF LeftRightly
  <2>4. CASE epochs'[t.seat] # epochs[t.seat]
    <3>1. t.epoch < epochs'[t.seat]
      BY <1>1, <2>1, <2>2, <2>4
    <3>. QED BY <3>1, ZenonT(30) DEF LeftRightly
  <2>. QED BY <2>3, <2>4, Zenon
<1>8. CASE UNCHANGED allVars
  BY <1>8, Zenon DEF allVars, vars
<1>. QED BY <1>3, <1>4, <1>5, <1>6, <1>7, <1>8, Zenon DEF SafetyNext, ResetStep

\* The four reasons, as a property of every step.
THEOREM LeavesForAReason == SafetySpec => NothingVanishes
<1>1. IInv /\ [SafetyNext]_allVars =>
        [\A t \in pending : t \in pending' \/ LeftRightly(t)]_allVars
  BY LeaveStep, Zenon
<1>. QED BY <1>1, Invariance, PTL DEF SafetySpec, NothingVanishes

\* An epoch number never falls.
LEMMA EpochStep ==
    ASSUME IInv, [SafetyNext]_allVars, NEW s \in Seats
    PROVE  epochs'[s] \in 1..MaxEpoch /\ epochs[s] \in 1..MaxEpoch /\ epochs[s] <= epochs'[s]
<1>1. epochs \in [Seats -> 1..MaxEpoch] /\ epochs' \in [Seats -> 1..MaxEpoch]
  BY StepPreserves, Zenon DEF IInv, Typed, TypeOK
<1>2. epochs[s] \in 1..MaxEpoch /\ epochs'[s] \in 1..MaxEpoch
  BY <1>1
<1>3. \/ epochs'[s] = epochs[s] \/ epochs'[s] > epochs[s] \/ epochs'[s] >= epochs[s]
  <2>1. CASE UNCHANGED epochs
    BY <2>1
  <2>2. ASSUME NEW r \in Seats, NEW activate \in BOOLEAN, LifecycleEpoch(r, activate)
        PROVE  epochs'[s] = epochs[s] \/ epochs'[s] > epochs[s]
    BY <1>1, <2>2, LifecycleRenews, Zenon
  <2>3. ASSUME NEW rematch \in BOOLEAN, ResetAll(rematch) PROVE epochs'[s] > epochs[s]
    BY <1>1, <2>3, ResetRenews, Zenon
  <2>4. ASSUME NEW snap \in Snapshots, ApplyAuthoritativeSnapshot(snap)
        PROVE  epochs'[s] >= epochs[s]
    BY <2>4, Zenon DEF ApplyAuthoritativeSnapshot, ApplySnapshot, SnapshotAccepted
  <2>5. \/ UNCHANGED epochs
        \/ \E r \in Seats, activate \in BOOLEAN : LifecycleEpoch(r, activate)
        \/ \E rematch \in BOOLEAN : ResetAll(rematch)
        \/ \E snap \in Snapshots : ApplyAuthoritativeSnapshot(snap)
    BY Zenon DEF SafetyNext, SubmitStep, SubmitTransition, Schedule, QuarantineConflict,
         QuarantineIdentity, QuarantineOverflow, RequireResync, Reject, TickStep,
         AdvanceTick, ResetStep, vars, allVars
  <2>. QED BY <2>1, <2>2, <2>3, <2>4, <2>5, Zenon
<1>. QED BY <1>2, <1>3

\* What is spent stays spent.
LEMMA SpentStep ==
    ASSUME IInv, [SafetyNext]_allVars, NEW id \in Ids, Spent(id)
    PROVE  Spent(id)'
<1>1. id[1] \in Seats /\ id[2] \in 1..MaxEpoch /\ id[3] \in 0..MaxSequence
  BY DEF Ids
<1>2. /\ epochs'[id[1]] \in 1..MaxEpoch /\ epochs[id[1]] \in 1..MaxEpoch
      /\ epochs[id[1]] <= epochs'[id[1]]
  BY <1>1, EpochStep, Zenon
<1>3. CASE id \in conflicted
  <2>1. conflicted \subseteq conflicted'
    BY Zenon DEF SafetyNext, SubmitStep, TickStep, ResetStep, history, allVars
  <2>. QED BY <1>3, <2>1, Zenon DEF Spent
<1>4. CASE epochs'[id[1]] # epochs[id[1]]
  <2>1. id[2] <= epochs[id[1]] \/ id \in conflicted
    BY <1>1, <1>2 DEF Spent
  <2>2. id[2] <= epochs[id[1]] => id[2] < epochs'[id[1]]
    BY <1>1, <1>2, <1>4
  <2>. QED BY <1>3, <2>1, <2>2, Zenon DEF Spent
<1>5. CASE epochs'[id[1]] = epochs[id[1]] /\ id \notin conflicted
  <2>1. highest_applied_sequence'[id[1]] >= highest_applied_sequence[id[1]]
    BY <1>1, <1>5, FloorStep, Zenon
  <2>2. /\ highest_applied_sequence[id[1]] \in 0..MaxSequence
        /\ highest_applied_sequence'[id[1]] \in 0..MaxSequence
    BY <1>1, StepPreserves, Zenon DEF IInv, Typed, TypeOK
  <2>3. \/ id[2] < epochs'[id[1]]
        \/ id[2] = epochs'[id[1]] /\ id[3] <= highest_applied_sequence'[id[1]]
    BY <1>1, <1>5, <2>1, <2>2, AtMostTransitive, Zenon DEF Spent
  <2>. QED BY <2>3, Zenon DEF Spent
<1>. QED BY <1>3, <1>4, <1>5, Zenon

\* What leaves the schedule is spent.
LEMMA LeavesSpent ==
    ASSUME IInv, [SafetyNext]_allVars, NEW t \in pending, t \notin pending'
    PROVE  Spent(Identity(t))'
<1>1. t \in Transition
  BY PendingFacts, Zenon
<1>2. Identity(t)[1] = t.seat /\ Identity(t)[2] = t.epoch /\ Identity(t)[3] = t.sequence
  BY <1>1, IdentityParts, Zenon
<1>3. IInv'
  BY StepPreserves, Zenon
<1>4. LeftRightly(t)
  BY LeaveStep, Zenon
<1>5. CASE Identity(t) \in applied'
  <2>1. /\ t.epoch <= epochs'[t.seat]
        /\ t.epoch = epochs'[t.seat] => t.sequence <= highest_applied_sequence'[t.seat]
    BY <1>2, <1>3, <1>5, Zenon DEF IInv, AppliedBelowFloor
  <2>2. t.epoch \in 1..MaxEpoch /\ epochs'[t.seat] \in 1..MaxEpoch
    BY <1>1, <1>3, IdentityParts, Zenon DEF IInv, Typed, TypeOK
  <2>3. t.epoch < epochs'[t.seat] \/ t.epoch = epochs'[t.seat]
    BY <2>1, <2>2, SameOrNewer, Zenon
  <2>. QED BY <1>2, <2>1, <2>3, Zenon DEF Spent
<1>6. CASE Identity(t) \in conflicted' \/ t.epoch < epochs'[t.seat]
  BY <1>2, <1>6, Zenon DEF Spent
<1>7. CASE t.sequence <= highest_applied_sequence'[t.seat]
  <2>1. t.epoch = epochs[t.seat] /\ t.seat \in Seats
    BY PendingFacts, Zenon
  <2>2. /\ epochs'[t.seat] \in 1..MaxEpoch /\ epochs[t.seat] \in 1..MaxEpoch
        /\ epochs[t.seat] <= epochs'[t.seat]
    BY <2>1, EpochStep, Zenon
  <2>3. t.epoch < epochs'[t.seat] \/ t.epoch = epochs'[t.seat]
    BY <2>1, <2>2, SameOrNewer, Zenon
  <2>. QED BY <1>2, <1>7, <2>3, Zenon DEF Spent
<1>. QED BY <1>4, <1>5, <1>6, <1>7, Zenon DEF LeftRightly

\* Nothing spent is scheduled.
LEMMA EntersUnspent ==
    ASSUME IInv, [SafetyNext]_allVars, NEW t \in pending', t \notin pending
    PROVE  ~Spent(Identity(t))
<1>1. t \in Received /\ Fresh(t)
  <2>1. ~TickStep
    BY Zenon DEF TickStep, AdvanceTick
  <2>2. ~ResetStep
    BY Zenon DEF ResetStep, LifecycleEpoch, ResetAll, ApplyAuthoritativeSnapshot, ApplySnapshot
  <2>3. ~UNCHANGED allVars
    BY Zenon DEF allVars, vars
  <2>4. PICK u \in Received : SubmitStep(u)
    BY <2>1, <2>2, <2>3, Zenon DEF SafetyNext
  <2>5. Schedule(u)
    BY <2>4, Zenon DEF SubmitStep, SubmitTransition, QuarantineConflict, QuarantineIdentity,
       QuarantineOverflow, WithoutIdentity, RequireResync, Reject, vars
  <2>6. Fresh(u) /\ pending' = pending \cup {u}
    BY <2>5, Zenon DEF Schedule, Schedulable
  <2>. QED BY <2>4, <2>6, Zenon
<1>2. t \in Transition
  BY <1>1, AdmissibleIsTransition, Zenon DEF Fresh
<1>3. /\ Identity(t)[1] = t.seat /\ Identity(t)[2] = t.epoch /\ Identity(t)[3] = t.sequence
      /\ t.seat \in Seats /\ t.sequence \in 0..MaxSequence /\ t.epoch \in 1..MaxEpoch
  BY <1>2, IdentityParts, Zenon
<1>4. t.epoch = epochs[t.seat] /\ t.sequence > highest_applied_sequence[t.seat]
  BY <1>1, Zenon DEF Fresh, Admissible
<1>5. highest_applied_sequence[t.seat] \in 0..MaxSequence
  BY <1>3, Zenon DEF IInv, Typed, TypeOK
<1>6. ~(t.epoch < epochs[t.seat]) /\ ~(t.sequence <= highest_applied_sequence[t.seat])
  BY <1>3, <1>4, <1>5
<1>7. Identity(t) \notin conflicted
  BY <1>1, FreshIsUntainted, Zenon
<1>. QED BY <1>3, <1>6, <1>7, Zenon DEF Spent

\* An identity is in the schedule once: the floor and the epoch of a seat, and
\* the quarantine, keep out whatever has left it.
THEOREM EntersOnce == SafetySpec => ScheduledOnce
<1>1. IInv /\ [SafetyNext]_allVars =>
        [/\ \A t \in pending : t \in pending' \/ Spent(Identity(t))'
         /\ \A id \in Ids : Spent(id) => Spent(id)'
         /\ \A t \in pending' : t \in pending \/ ~Spent(Identity(t))]_allVars
  BY LeavesSpent, SpentStep, EntersUnspent, Zenon
<1>. QED BY <1>1, Invariance, PTL DEF SafetySpec, ScheduledOnce

-----------------------------------------------------------------------------
(***************************************************************************)
(* The replay.  A session that replays the log is compared with the one    *)
(* that wrote it.  While the live session waits for a resync it withdraws  *)
(* what it has no record of, so only its clock, seats and controls are     *)
(* still those of the replay; a reset or a snapshot clears the rest.       *)
(***************************************************************************)

FrameReplayed ==
    /\ r_tick = current_tick /\ r_controls = controls
    /\ r_epochs = epochs /\ r_active = active

TablesReplayed ==
    /\ r_applied_sequence = highest_applied_sequence /\ r_sequence = highest_sequence
    /\ r_quarantined = quarantined /\ r_pending = pending
    /\ r_recent = recent /\ r_recent_next = recent_next

LogOpen == complete /\ IsOpenTick(last) => last.tick = current_tick

ReplayInv ==
    /\ r_resync = FALSE /\ current_tick \in Nat
    /\ records \in 0 .. Limit /\ (~complete => records = Limit)
    /\ complete /\ ~diverged => FrameReplayed /\ (~resync_required => TablesReplayed)
    /\ LogOpen

\* What a step has to keep, and when it may end the replay.
ReplayKept == ReplayInv' /\ (diverged' /\ ~diverged => resync_required)

\* What a pushed record leaves of the log: if it is still complete, the record
\* was kept, and unless the replay has ended, it was consumed.
LEMMA PushedRecord ==
    ASSUME ReplayInv, NEW record, Push(record)
    PROVE  /\ records' \in 0 .. Limit /\ (~complete' => records' = Limit)
           /\ complete' => complete /\ records < Limit /\ last' = record
           /\ Consuming => complete
  BY LimitAssumption DEF ReplayInv, Push, Consuming

\* A record the replay does not see, because the log is full or the replay over.
LEMMA NotConsumed ==
    ASSUME ReplayInv, NEW record, Push(record), ~Consuming, UNCHANGED <<rvars, diverged>>,
           current_tick' \in Nat, IsOpenTick(record) => record.tick = current_tick'
    PROVE  ReplayKept
<1>1. /\ records' \in 0 .. Limit /\ (~complete' => records' = Limit)
      /\ complete' => records < Limit /\ last' = record
  BY PushedRecord
<1>2. complete' => diverged
  BY <1>1 DEF Consuming
<1>3. r_resync' = FALSE
  BY DEF rvars, ReplayInv
<1>4. LogOpen'
  BY <1>1 DEF LogOpen
<1> QED
  BY <1>1, <1>2, <1>3, <1>4, Zenon DEF ReplayKept, ReplayInv

\* A record the replaying session has consumed.
LEMMA Consumed ==
    ASSUME ReplayInv, NEW record, Push(record), r_resync' = FALSE,
           current_tick' \in Nat, IsOpenTick(record) => record.tick = current_tick',
           diverged' => resync_required,
           ~diverged' => FrameReplayed' /\ (~resync_required' => TablesReplayed')
    PROVE  ReplayKept
<1>1. /\ records' \in 0 .. Limit /\ (~complete' => records' = Limit)
      /\ complete' => records < Limit /\ last' = record
  BY PushedRecord
<1>2. LogOpen'
  BY <1>1 DEF LogOpen
<1> QED
  BY <1>1, <1>2, Zenon DEF ReplayKept, ReplayInv

LEMMA OtherIsNoTick == ~IsOpenTick(Other)
  BY DEF IsOpenTick, Other

\* The replaying session's tables are counted as the live one's.
LEMMA CountedAlike == \A S : Replayed!Cardinality(S) = Cardinality(S)
  BY Zenon DEF Cardinality, Replayed!Cardinality

\* Sessions in the same state admit the same transitions.
LEMMA AgreeOnSchedulable ==
    ASSUME FrameReplayed, TablesReplayed, r_resync = FALSE, NEW t, Schedulable(t)
    PROVE  Replayed!Schedulable(t)
<1>1. Replayed!Admissible(t)
  BY DEF FrameReplayed, TablesReplayed, Schedulable, Fresh, Admissible,
         Replayed!Admissible, WellFormed, Replayed!WellFormed, EarliestApplyTick,
         Replayed!EarliestApplyTick, LatestApplyTick, Replayed!LatestApplyTick,
         SaturatingAdd, Replayed!SaturatingAdd, Identity, Replayed!Identity
<1>2. Replayed!PendingIdentities = PendingIdentities
  BY Zenon DEF TablesReplayed, PendingIdentities, Replayed!PendingIdentities,
         Identity, Replayed!Identity
<1>3. Replayed!RecentIdentities = RecentIdentities
  BY Zenon DEF TablesReplayed, RecentIdentities, Replayed!RecentIdentities,
         Identity, Replayed!Identity, Ring, Replayed!Ring
<1>4. Replayed!Identity(t) = Identity(t)
  BY ZenonT(30) DEF Identity, Replayed!Identity
<1>5. Replayed!Fresh(t)
  BY <1>1, <1>2, <1>3, <1>4 DEF TablesReplayed, Schedulable, Fresh, Replayed!Fresh
<1> QED
  BY <1>5, CountedAlike, Zenon DEF TablesReplayed, Schedulable, Replayed!Schedulable, QuarantineFull,
         Replayed!QuarantineFull, PendingFull, Replayed!PendingFull

LEMMA ScheduleReplayed ==
    ASSUME ReplayInv, NEW t, ReplaySchedule(t)
    PROVE  ReplayKept
<1>1. /\ Schedule(t) /\ Push(Other) /\ ~resync_required /\ Schedulable(t)
      /\ Consume(Replayed!Schedulable(t), Replayed!Schedule(t))
  BY Zenon DEF ReplaySchedule, Schedule, Schedulable, Fresh, Admissible
<1>2. current_tick' \in Nat
  BY <1>1 DEF ReplayInv, Schedule
<1>3. CASE Consuming
  <2>1. FrameReplayed /\ TablesReplayed /\ r_resync = FALSE /\ ~diverged
    BY <1>1, <1>3, PushedRecord DEF ReplayInv, Consuming
  <2>2. Replayed!Schedule(t) /\ diverged' = diverged
    BY <1>1, <1>3, <2>1, AgreeOnSchedulable, ZenonT(30) DEF Consume
  <2>3. FrameReplayed' /\ TablesReplayed' /\ r_resync' = FALSE
    BY <1>1, <2>1, <2>2 DEF FrameReplayed, TablesReplayed, Schedule, Replayed!Schedule,
           Larger, Replayed!Larger
  <2> QED
    BY <1>1, <1>2, <2>1, <2>2, <2>3, Consumed, OtherIsNoTick, Zenon
<1>4. CASE ~Consuming
  BY <1>1, <1>2, <1>4, NotConsumed, OtherIsNoTick, Zenon DEF Consume
<1> QED
  BY <1>3, <1>4

LEMMA QuarantineReplayed ==
    ASSUME ReplayInv, NEW t, ReplayQuarantine(t)
    PROVE  ReplayKept
<1> DEFINE id == Identity(t)
<1>1. /\ QuarantineIdentity(id) /\ Push(Other) /\ ~resync_required
      /\ Consume(id \in r_quarantined \/ ~Replayed!QuarantineFull,
                 Replayed!QuarantineIdentity(id))
  BY Zenon DEF ReplayQuarantine, QuarantineConflict, Conflicting, Admissible
<1> HIDE DEF id
<1>2. current_tick' \in Nat
  BY <1>1 DEF ReplayInv, QuarantineIdentity
<1>3. CASE Consuming
  <2>1. FrameReplayed /\ TablesReplayed /\ r_resync = FALSE /\ ~diverged
    BY <1>1, <1>3, PushedRecord, Zenon DEF ReplayInv, Consuming
  <2>2. id \in r_quarantined \/ ~Replayed!QuarantineFull
    BY <1>1, <2>1, CountedAlike DEF TablesReplayed, QuarantineIdentity, QuarantineFull,
                                    Replayed!QuarantineFull
  <2>3. Replayed!QuarantineIdentity(id) /\ diverged' = diverged
    BY <1>1, <1>3, <2>2 DEF Consume
  <2>4. Replayed!WithoutIdentity(id) = WithoutIdentity(id)
    BY <2>1, ZenonT(30) DEF TablesReplayed, WithoutIdentity, Replayed!WithoutIdentity, Identity, Replayed!Identity
  <2>5. FrameReplayed' /\ TablesReplayed' /\ r_resync' = FALSE
    BY <1>1, <2>1, <2>3, <2>4 DEF FrameReplayed, TablesReplayed, QuarantineIdentity,
           Replayed!QuarantineIdentity
  <2> QED
    BY <1>1, <1>2, <2>1, <2>3, <2>5, Consumed, OtherIsNoTick, Zenon
<1>4. CASE ~Consuming
  BY <1>1, <1>2, <1>4, NotConsumed, OtherIsNoTick, Zenon DEF Consume
<1> QED
  BY <1>3, <1>4

\* What a tick makes of the transitions that are due and of the tables.
DueAt(due, s) == {t \in due : t.seat = s}

ControlsAfter(due, held) ==
    [s \in Seats |->
        IF DueAt(due, s) = {} THEN held[s]
        ELSE (CHOOSE t \in DueAt(due, s) : \A u \in DueAt(due, s) : u.sequence <= t.sequence).state]

FloorsAfter(due, floors) ==
    [s \in Seats |-> MaxOf({floors[s]} \cup {t.sequence : t \in DueAt(due, s)})]

CompactedAfter(due, floors, held, ids) ==
    {id \in ids :
        ~ /\ DueAt(due, id[1]) # {}
          /\ id[2] = held[id[1]]
          /\ id[3] <= MaxOf({floors[id[1]]} \cup {t.sequence : t \in DueAt(due, id[1])})}

SlotAfter(due, next, t) == (next + Cardinality({u \in due : Before(u, t)})) % Capacity

RingAfter(due, next, ring) ==
    [i \in Ring |-> IF \E t \in due : SlotAfter(due, next, t) = i
                    THEN CHOOSE t \in due : SlotAfter(due, next, t) = i
                    ELSE ring[i]]

LEMMA LiveTick ==
    ASSUME AdvanceTick
    PROVE  /\ current_tick < MaxTick /\ current_tick' = current_tick + 1
           /\ pending' = pending \ Due(current_tick + 1)
           /\ controls' = ControlsAfter(Due(current_tick + 1), controls)
           /\ highest_applied_sequence' =
                 FloorsAfter(Due(current_tick + 1), highest_applied_sequence)
           /\ quarantined' = CompactedAfter(Due(current_tick + 1), highest_applied_sequence,
                                            epochs, quarantined)
           /\ recent' = RingAfter(Due(current_tick + 1), recent_next, recent)
           /\ recent_next' = (recent_next + Cardinality(Due(current_tick + 1))) % Capacity
           /\ UNCHANGED <<epochs, active, highest_sequence, resync_required>>
<1>1. /\ current_tick < MaxTick /\ current_tick' = current_tick + 1
      /\ pending' = pending \ Due(current_tick + 1)
      /\ recent_next' = (recent_next + Cardinality(Due(current_tick + 1))) % Capacity
      /\ UNCHANGED <<epochs, active, highest_sequence, resync_required>>
  BY Zenon DEF AdvanceTick
<1>2. controls' = ControlsAfter(Due(current_tick + 1), controls)
  BY Zenon DEF AdvanceTick, ControlsAfter, DueAt, DueOf, LastDueOf
<1>3. highest_applied_sequence' = FloorsAfter(Due(current_tick + 1), highest_applied_sequence)
  BY Zenon DEF AdvanceTick, FloorsAfter, DueAt, DueOf, AppliedFloor
<1>4. quarantined' = CompactedAfter(Due(current_tick + 1), highest_applied_sequence,
                                    epochs, quarantined)
  BY Zenon DEF AdvanceTick, CompactedAfter, DueAt, DueOf, Compacted, AppliedFloor
<1>5. recent' = RingAfter(Due(current_tick + 1), recent_next, recent)
  BY Zenon DEF AdvanceTick, RingAfter, SlotAfter, RingSlot
<1> QED
  BY <1>1, <1>2, <1>3, <1>4, <1>5, Zenon

LEMMA ReplayedTick ==
    ASSUME Replayed!AdvanceTick
    PROVE  /\ r_tick < MaxTick /\ r_tick' = r_tick + 1
           /\ r_pending' = r_pending \ Replayed!Due(r_tick + 1)
           /\ r_controls' = ControlsAfter(Replayed!Due(r_tick + 1), r_controls)
           /\ r_applied_sequence' = FloorsAfter(Replayed!Due(r_tick + 1), r_applied_sequence)
           /\ r_quarantined' = CompactedAfter(Replayed!Due(r_tick + 1), r_applied_sequence,
                                              r_epochs, r_quarantined)
           /\ r_recent' = RingAfter(Replayed!Due(r_tick + 1), r_recent_next, r_recent)
           /\ r_recent_next' = (r_recent_next + Cardinality(Replayed!Due(r_tick + 1))) % Capacity
           /\ UNCHANGED <<r_epochs, r_active, r_sequence, r_resync>>
<1>1. /\ r_tick < MaxTick /\ r_tick' = r_tick + 1
      /\ r_pending' = r_pending \ Replayed!Due(r_tick + 1)
      /\ UNCHANGED <<r_epochs, r_active, r_sequence, r_resync>>
  BY Zenon DEF Replayed!AdvanceTick
<1>2. r_recent_next' = (r_recent_next + Cardinality(Replayed!Due(r_tick + 1))) % Capacity
  BY Zenon DEF Replayed!AdvanceTick, Replayed!Cardinality, Cardinality
<1>3. r_controls' = ControlsAfter(Replayed!Due(r_tick + 1), r_controls)
  BY Zenon DEF Replayed!AdvanceTick, ControlsAfter, DueAt, Replayed!DueOf, Replayed!LastDueOf
<1>4. r_applied_sequence' = FloorsAfter(Replayed!Due(r_tick + 1), r_applied_sequence)
  BY Zenon DEF Replayed!AdvanceTick, FloorsAfter, DueAt, Replayed!DueOf,
         Replayed!AppliedFloor, Replayed!MaxOf, MaxOf
<1>5. r_quarantined' = CompactedAfter(Replayed!Due(r_tick + 1), r_applied_sequence,
                                      r_epochs, r_quarantined)
  BY Zenon DEF Replayed!AdvanceTick, CompactedAfter, DueAt, Replayed!DueOf,
         Replayed!Compacted, Replayed!AppliedFloor, Replayed!MaxOf, MaxOf
<1>6. r_recent' = RingAfter(Replayed!Due(r_tick + 1), r_recent_next, r_recent)
  BY Zenon DEF Replayed!AdvanceTick, RingAfter, SlotAfter, Replayed!RingSlot, Replayed!Ring,
         Ring, Replayed!Before, Before, Replayed!Cardinality, Cardinality
<1> QED
  BY <1>1, <1>2, <1>3, <1>4, <1>5, <1>6, Zenon

\* Sessions in the same state take the same step at a tick.
LEMMA AgreeOnTick ==
    ASSUME FrameReplayed, TablesReplayed, AdvanceTick, Replayed!AdvanceTick
    PROVE  FrameReplayed' /\ TablesReplayed'
<1>1. Replayed!Due(r_tick + 1) = Due(current_tick + 1)
  BY DEF FrameReplayed, TablesReplayed, Due, Replayed!Due
<1> QED
  BY <1>1, LiveTick, ReplayedTick, Zenon DEF FrameReplayed, TablesReplayed

LEMMA TickReplayed ==
    ASSUME ReplayInv, ReplayTick
    PROVE  ReplayKept
<1> DEFINE record == Tick(current_tick + 1, FALSE)
<1>1. AdvanceTick /\ Push(record)
  BY Zenon DEF ReplayTick
<1>2. /\ current_tick < MaxTick /\ current_tick' = current_tick + 1
      /\ resync_required' = resync_required /\ epochs' = epochs /\ active' = active
  BY <1>1, LiveTick, Zenon
<1>3. record.tick = current_tick' /\ current_tick' \in Nat
  BY <1>2 DEF ReplayInv, Tick
<1>4. CASE Consuming
  <2>1. FrameReplayed /\ r_resync = FALSE /\ (~resync_required => TablesReplayed)
    BY <1>1, <1>4, PushedRecord, Zenon DEF ReplayInv, Consuming
  <2>2. r_tick # MaxTick
    BY <1>2, <2>1, BoundsAssumption DEF FrameReplayed, ReplayInv
  <2>3. Replayed!AdvanceTick /\ diverged' = (r_tick' # current_tick' \/ r_controls' # controls')
    BY <1>4, <2>2, Zenon DEF ReplayTick
  <2>4. r_tick' = current_tick' /\ r_epochs' = epochs' /\ r_active' = active' /\ r_resync' = FALSE
    BY <1>2, <2>1, <2>3, ReplayedTick, ZenonT(30) DEF FrameReplayed
  <2>5. ~resync_required => FrameReplayed' /\ TablesReplayed'
    BY <1>1, <2>1, <2>3, AgreeOnTick
  <2>6. diverged' => resync_required
    BY <2>3, <2>4, <2>5, Zenon DEF FrameReplayed
  <2>7. ~diverged' => FrameReplayed'
    BY <2>3, <2>4, Zenon DEF FrameReplayed
  <2> HIDE DEF record
  <2> QED
    BY <1>1, <1>2, <1>3, <2>4, <2>5, <2>6, <2>7, Consumed, ZenonT(30)
<1>5. CASE ~Consuming
  <2>1. UNCHANGED <<rvars, diverged>>
    BY <1>5 DEF ReplayTick
  <2> HIDE DEF record
  <2> QED
    BY <1>1, <1>3, <1>5, <2>1, NotConsumed, Zenon
<1> QED
  BY <1>4, <1>5

LEMMA LifecycleReplayed ==
    ASSUME ReplayInv, NEW s \in Seats, NEW activate \in BOOLEAN, ReplayLifecycle(s, activate)
    PROVE  ReplayKept
<1>1. /\ LifecycleEpoch(s, activate) /\ Push(Other) /\ epochs[s] < MaxEpoch
      /\ Consume(r_epochs[s] < MaxEpoch, Replayed!LifecycleEpoch(s, activate))
  BY DEF ReplayLifecycle, LifecycleEpoch
<1>2. current_tick' \in Nat /\ resync_required' = resync_required
  BY <1>1, Zenon DEF ReplayInv, LifecycleEpoch
<1>3. CASE Consuming
  <2>1. FrameReplayed /\ r_resync = FALSE /\ (~resync_required => TablesReplayed) /\ ~diverged
    BY <1>1, <1>3, PushedRecord DEF ReplayInv, Consuming
  <2>2. Replayed!LifecycleEpoch(s, activate) /\ diverged' = diverged
    BY <1>1, <1>3, <2>1, Zenon DEF Consume, FrameReplayed
  <2>3. FrameReplayed' /\ r_resync' = FALSE
    BY <1>1, <2>1, <2>2, ZenonT(30) DEF FrameReplayed, LifecycleEpoch, Replayed!LifecycleEpoch
  <2>4. ASSUME TablesReplayed PROVE TablesReplayed'
    BY <1>1, <2>2, <2>4, Zenon DEF TablesReplayed, LifecycleEpoch, Replayed!LifecycleEpoch, Ring,
           Replayed!Ring
  <2> QED
    BY <1>1, <1>2, <2>1, <2>2, <2>3, <2>4, Consumed, OtherIsNoTick, ZenonT(30)
<1>4. CASE ~Consuming
  BY <1>1, <1>2, <1>4, NotConsumed, OtherIsNoTick, Zenon DEF Consume
<1> QED
  BY <1>3, <1>4, ZenonT(30)

\* A reset makes the two sessions alike again, whatever was withdrawn before.
LEMMA ResetReplayed ==
    ASSUME ReplayInv, NEW rematch \in BOOLEAN, ReplayReset(rematch)
    PROVE  ReplayKept
<1>1. /\ ResetAll(rematch) /\ Push(Other) /\ (\A s \in Seats : epochs[s] < MaxEpoch)
      /\ Consume(\A s \in Seats : r_epochs[s] < MaxEpoch, Replayed!ResetAll(rematch))
  BY Zenon DEF ReplayReset, ResetAll
<1>2. current_tick' \in Nat
  BY <1>1 DEF ReplayInv, ResetAll
<1>3. CASE Consuming
  <2>1. FrameReplayed /\ ~diverged
    BY <1>1, <1>3, PushedRecord DEF ReplayInv, Consuming
  <2>2. Replayed!ResetAll(rematch) /\ diverged' = diverged
    BY <1>1, <1>3, <2>1, Zenon DEF Consume, FrameReplayed
  <2>3. FrameReplayed' /\ r_resync' = FALSE
    BY <1>1, <2>1, <2>2, ZenonT(30) DEF FrameReplayed, ResetAll, Replayed!ResetAll
  <2>4. TablesReplayed'
    BY <1>1, <2>2 DEF TablesReplayed, ResetAll, Replayed!ResetAll, Ring, Replayed!Ring
  <2> QED
    BY <1>1, <1>2, <2>1, <2>2, <2>3, <2>4, Consumed, OtherIsNoTick, ZenonT(30)
<1>4. CASE ~Consuming
  BY <1>1, <1>2, <1>4, NotConsumed, OtherIsNoTick, Zenon DEF Consume
<1> QED
  BY <1>3, <1>4

LEMMA SnapshotReplayed ==
    ASSUME ReplayInv, NEW snap \in Snapshots, ReplaySnapshot(snap)
    PROVE  ReplayKept
<1>1. /\ ApplySnapshot(snap) /\ Push(Other)
      /\ Consume(TRUE, Replayed!ApplySnapshot(snap))
  BY Zenon DEF ReplaySnapshot, ApplyAuthoritativeSnapshot
<1>2. current_tick' \in Nat
  BY <1>1, SnapshotsAssumption, BoundsAssumption DEF ApplySnapshot, AuthoritativeSnapshot
<1>3. CASE Consuming
  <2>1. ~diverged
    BY <1>3 DEF Consuming
  <2>2. Replayed!ApplySnapshot(snap) /\ diverged' = diverged
    BY <1>1, <1>3, ZenonT(30) DEF Consume
  <2>3. FrameReplayed' /\ TablesReplayed' /\ r_resync' = FALSE
    BY <1>1, <2>2 DEF FrameReplayed, TablesReplayed, ApplySnapshot, Replayed!ApplySnapshot,
           Ring, Replayed!Ring
  <2> QED
    BY <1>1, <1>2, <2>1, <2>2, <2>3, Consumed, OtherIsNoTick, Zenon
<1>4. CASE ~Consuming
  BY <1>1, <1>2, <1>4, NotConsumed, OtherIsNoTick, Zenon DEF Consume
<1> QED
  BY <1>3, <1>4

\* What leaves no record leaves the clock and the seats alone, and withdraws a
\* transition only together with asking for a resync.
LEMMA UnrecordedKept ==
    ASSUME ReplayInv, NEW t, ReplayUnrecorded(t)
    PROVE  ReplayKept
<1>1. UNCHANGED <<records, complete, last, rvars, diverged>>
  BY Zenon DEF ReplayUnrecorded, log
<1>2. /\ UNCHANGED <<current_tick, controls, epochs, active>>
      /\ \/ resync_required' = TRUE
         \/ UNCHANGED <<resync_required, highest_applied_sequence, highest_sequence,
                        quarantined, pending, recent, recent_next>>
  BY Zenon DEF ReplayUnrecorded, QuarantineOverflow, RequireResync, Reject, vars
<1>3. LogOpen' /\ current_tick' \in Nat /\ r_resync' = FALSE
  BY <1>1, <1>2, Zenon DEF LogOpen, ReplayInv, rvars
<1>4. FrameReplayed => FrameReplayed'
  BY <1>1, <1>2, ZenonT(30) DEF FrameReplayed, rvars
<1>5. ASSUME ~resync_required', ~resync_required => TablesReplayed PROVE TablesReplayed'
  BY <1>1, <1>2, <1>5 DEF TablesReplayed, rvars
<1> QED
  BY <1>1, <1>3, <1>4, <1>5, Zenon DEF ReplayKept, ReplayInv

LEMMA HashKept ==
    ASSUME ReplayInv, RecordAuthoritativeHash(current_tick) \/ UNCHANGED replayVars
    PROVE  ReplayKept
<1>1. UNCHANGED <<vars, rvars, diverged, records, complete>>
  BY Zenon DEF RecordAuthoritativeHash, replayVars, log
<1>2. last' = last \/ ~IsOpenTick(last')
  BY DEF RecordAuthoritativeHash, replayVars, log, IsOpenTick, Tick
<1>3. LogOpen'
  BY <1>1, <1>2 DEF LogOpen, ReplayInv, vars
<1>4. FrameReplayed' = FrameReplayed /\ TablesReplayed' = TablesReplayed
  BY <1>1, Zenon DEF FrameReplayed, TablesReplayed, vars, rvars
<1>5. resync_required' = resync_required /\ current_tick' = current_tick /\ r_resync' = r_resync
  BY <1>1 DEF vars, rvars
<1> QED
  BY <1>1, <1>3, <1>4, <1>5, Zenon DEF ReplayKept, ReplayInv

LEMMA ReplayStep ==
    ASSUME ReplayInv, [ReplayNext]_replayVars
    PROVE  ReplayKept
  BY ScheduleReplayed, QuarantineReplayed, UnrecordedKept, TickReplayed, LifecycleReplayed,
     ResetReplayed, SnapshotReplayed, HashKept, Zenon DEF ReplayNext

LEMMA ReplayStarts == ReplayInit => ReplayInv
<1> SUFFICES ASSUME ReplayInit PROVE ReplayInv
  BY Zenon
<1>1. FrameReplayed /\ TablesReplayed /\ r_resync = FALSE /\ current_tick \in Nat
  BY DEF ReplayInit, Init, Replayed!Init, FrameReplayed, TablesReplayed, Ring, Replayed!Ring
<1>2. LogOpen /\ records \in 0 .. Limit /\ complete = TRUE
  BY LimitAssumption, OtherIsNoTick DEF ReplayInit, LogOpen
<1> QED
  BY <1>1, <1>2 DEF ReplayInv

\* The replaying session keeps up with the live one: it has the same clock,
\* seats and controls after every record, and the same tables unless the live
\* one has entered resync.
THEOREM ReplayInvariance == ReplaySpec => []ReplayInv
<1>1. ReplayInit => ReplayInv
  BY ReplayStarts
<1>2. ReplayInv /\ [ReplayNext]_replayVars => ReplayInv'
  BY ReplayStep DEF ReplayKept
<1> QED
  BY <1>1, <1>2, PTL DEF ReplaySpec

\* The log of a session determines its state, for any number of seats, any
\* tables and any length of the log: replay_with_events leads to the same clock,
\* controls, epochs, floors, schedule and quarantine, and an open tick record is
\* the tick the session is at.  The ring is part of the invariant, since the
\* replay refuses what it finds there.
THEOREM ReplayTheorem == ReplaySpec => []LogDeterminesSession
<1>1. ReplayInv => LogDeterminesSession
  BY DEF ReplayInv, FrameReplayed, TablesReplayed, LogOpen, LogDeterminesSession
<1> QED
  BY <1>1, ReplayInvariance, PTL

\* A replay returns an error only at a record that was written while the session
\* waited for a resync.
THEOREM DivergenceTheorem == ReplaySpec => DivergesOnlyDuringResync
<1>1. ReplayInv /\ [ReplayNext]_replayVars =>
         [diverged' /\ ~diverged => resync_required]_replayVars
  BY ReplayStep DEF ReplayKept
<1> QED
  BY <1>1, ReplayInvariance, PTL DEF ReplaySpec, DivergesOnlyDuringResync
=============================================================================
