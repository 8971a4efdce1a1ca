------------------------------ MODULE Realtime ------------------------------
(***************************************************************************)
(* The fixed-tick control scheduler: RealtimeSession of                    *)
(* src/crates/stasis_network/src/realtime.rs.                              *)
(*                                                                         *)
(* A transition asks for a seat's control state to change at a given tick. *)
(* It is identified by its seat, the seat's epoch and a sequence number.   *)
(* The network delivers transitions late, twice, reordered and in          *)
(* conflicting variants; the session decides which of them the simulation  *)
(* sees, tick by tick.  Every operation runs to completion on the          *)
(* simulation thread, so each one is a single action.  An envelope of      *)
(* transitions is submitted one transition after the other                 *)
(* (submit_envelope), which is a run of SubmitTransition steps.            *)
(*                                                                         *)
(* The arrays of slots `pending' and `quarantined' are sets here: the      *)
(* code looks them up by identity, keeps identities unique and sorts what  *)
(* is due, so the slot a value sits in is never observed.  `recent' is a   *)
(* ring that overwrites its oldest entry, and stays a ring.                *)
(***************************************************************************)
EXTENDS Integers, FiniteSets

CONSTANTS
    Seats,           \* the configured seats
    ControlStates,   \* values of ControlState
    Neutral,         \* ControlState::neutral()
    MaxTick,         \* stands for u64::MAX
    MaxEpoch,        \* stands for u32::MAX as an epoch
    MaxSequence,     \* stands for u32::MAX as a sequence number
    MaxRevision,     \* largest snapshot revision considered
    Delay,           \* input_delay_ticks
    Horizon,         \* MAX_FUTURE_TICKS
    Capacity,        \* MAX_PENDING_TRANSITIONS, the size of all three tables
    Received,        \* the transitions the network may deliver, well formed or not
    Snapshots,       \* the authoritative snapshots the server may send
    NoTransition     \* an empty ring slot

ASSUME SeatsAssumption == Seats \subseteq Nat
ASSUME NeutralAssumption == Neutral \in ControlStates
ASSUME BoundsAssumption ==
    /\ MaxTick \in Nat
    /\ MaxEpoch \in Nat \ {0}
    /\ MaxSequence \in Nat
    /\ MaxRevision \in Nat
ASSUME TimingAssumption ==
    /\ Delay \in Nat \ {0}
    /\ Horizon \in Nat
ASSUME CapacityAssumption == Capacity \in Nat \ {0}

Transition == [seat : Seats, epoch : 1..MaxEpoch, sequence : 1..MaxSequence,
               apply_tick : 0..MaxTick, state : ControlStates]

\* What decode_transition can produce before validate_transition looks at it.
RawTransition == [seat : Nat, epoch : 0..MaxEpoch, sequence : 0..MaxSequence,
                  apply_tick : 0..MaxTick, state : ControlStates]

AuthoritativeSnapshot ==
    [revision : 0..MaxRevision, tick : 0..MaxTick,
     controls : [Seats -> ControlStates], sequences : [Seats -> 0..MaxSequence],
     epochs : [Seats -> 0..MaxEpoch], active : [Seats -> BOOLEAN]]

ASSUME ReceivedAssumption == Received \subseteq RawTransition
ASSUME SnapshotsAssumption == Snapshots \subseteq AuthoritativeSnapshot
ASSUME NoTransitionAssumption == NoTransition \notin Transition

VARIABLES
    current_tick, snapshot_revision, controls, epochs, active,
    highest_applied_sequence, highest_sequence, quarantined,
    resync_required, pending, recent, recent_next

vars == <<current_tick, snapshot_revision, controls, epochs, active,
          highest_applied_sequence, highest_sequence, quarantined,
          resync_required, pending, recent, recent_next>>

Ring == 0..(Capacity - 1)

Identity(t) == <<t.seat, t.epoch, t.sequence>>

MaxOf(S) == CHOOSE m \in S : \A n \in S : n <= m

Larger(a, b) == IF a >= b THEN a ELSE b

\* u64::saturating_add
SaturatingAdd(tick, n) == IF tick + n > MaxTick THEN MaxTick ELSE tick + n

-----------------------------------------------------------------------------
Init ==
    /\ current_tick = 0
    /\ snapshot_revision = 0
    /\ controls = [s \in Seats |-> Neutral]
    /\ epochs = [s \in Seats |-> 1]
    /\ active = [s \in Seats |-> TRUE]
    /\ highest_applied_sequence = [s \in Seats |-> 0]
    /\ highest_sequence = [s \in Seats |-> 0]
    /\ quarantined = {}
    /\ resync_required = FALSE
    /\ pending = {}
    /\ recent = [i \in Ring |-> NoTransition]
    /\ recent_next = 0

-----------------------------------------------------------------------------
(* submit_transition.  The early returns before the table lookups. *)

WellFormed(t) == t.seat \in Seats /\ t.epoch # 0 /\ t.sequence # 0

EarliestWithoutDelay == current_tick

EarliestApplyTick == SaturatingAdd(current_tick, Delay)
LatestApplyTick   == SaturatingAdd(current_tick, Horizon)

Admissible(t) ==
    /\ WellFormed(t)
    /\ ~resync_required
    /\ active[t.seat]
    /\ t.epoch = epochs[t.seat]
    /\ t.apply_tick >= EarliestApplyTick
    /\ t.apply_tick <= LatestApplyTick
    /\ Identity(t) \notin quarantined

PendingIdentities == {Identity(p) : p \in pending}

RecentIdentities ==
    {Identity(r) : r \in {recent[i] : i \in Ring} \ {NoTransition}}

\* A second variant of an identity that is still scheduled.
Conflicting(t) ==
    /\ Admissible(t)
    /\ Identity(t) \in PendingIdentities
    /\ t \notin pending

FreshByRing(t) ==
    /\ Admissible(t)
    /\ Identity(t) \notin PendingIdentities
    /\ Identity(t) \notin RecentIdentities

\* An identity the session has neither scheduled nor moved past.
Fresh(t) ==
    /\ Admissible(t)
    /\ Identity(t) \notin PendingIdentities
    /\ Identity(t) \notin RecentIdentities
    /\ t.sequence > highest_applied_sequence[t.seat]

QuarantineFull == Cardinality(quarantined) = Capacity
PendingFull    == Cardinality(pending) = Capacity

Schedulable(t) == Fresh(t) /\ ~QuarantineFull /\ ~PendingFull

WithoutIdentity(id) == {p \in pending : Identity(p) # id}

\* quarantine_identity when it returns true
QuarantineIdentity(id) ==
    /\ id \in quarantined \/ ~QuarantineFull
    /\ pending' = WithoutIdentity(id)
    /\ quarantined' = quarantined \cup {id}
    /\ UNCHANGED <<current_tick, snapshot_revision, controls, epochs, active,
                   highest_applied_sequence, highest_sequence,
                   resync_required, recent, recent_next>>

Schedule(t) ==
    /\ Schedulable(t)
    /\ pending' = pending \cup {t}
    /\ highest_sequence' =
         [highest_sequence EXCEPT ![t.seat] = Larger(@, t.sequence)]
    /\ UNCHANGED <<current_tick, snapshot_revision, controls, epochs, active,
                   highest_applied_sequence, quarantined, resync_required,
                   recent, recent_next>>

QuarantineConflict(t) == Conflicting(t) /\ QuarantineIdentity(Identity(t))

\* quarantine_identity removes the pending transition before it finds the
\* table full.
QuarantineOverflow(t) ==
    /\ Conflicting(t)
    /\ QuarantineFull
    /\ pending' = WithoutIdentity(Identity(t))
    /\ resync_required' = TRUE
    /\ UNCHANGED <<current_tick, snapshot_revision, controls, epochs, active,
                   highest_applied_sequence, highest_sequence, quarantined,
                   recent, recent_next>>

\* A fresh identity met with a full quarantine table.
RequireResync(t) ==
    /\ Fresh(t)
    /\ QuarantineFull
    /\ resync_required' = TRUE
    /\ UNCHANGED <<current_tick, snapshot_revision, controls, epochs, active,
                   highest_applied_sequence, highest_sequence, quarantined,
                   pending, recent, recent_next>>

\* Malformed, ResyncRequired, Inactive, Stale, Late, TooFar, Duplicate, Full
Reject(t) ==
    /\ ~Conflicting(t)
    /\ Fresh(t) => PendingFull /\ ~QuarantineFull
    /\ UNCHANGED vars

SubmitTransition(t) ==
    \/ Schedule(t)
    \/ QuarantineConflict(t)
    \/ QuarantineOverflow(t)
    \/ RequireResync(t)
    \/ Reject(t)

-----------------------------------------------------------------------------
(* advance_tick *)

DueBeforeIncrement(tick) == {t \in pending : t.apply_tick = tick - 1}

Due(tick) == {t \in pending : t.apply_tick = tick}

DueOf(tick, s) == {t \in Due(tick) : t.seat = s}

\* Sorted by seat and sequence, the last one of a seat is what it holds.
LastDueOf(tick, s) ==
    CHOOSE t \in DueOf(tick, s) : \A u \in DueOf(tick, s) : u.sequence <= t.sequence

\* The order of due.sort_by_key; identities are unique, so it is total on
\* the due transitions.  Seats are compared as the code compares their u8.
Before(t, u) == t.seat < u.seat \/ (t.seat = u.seat /\ t.sequence < u.sequence)

RingSlot(t, tick) ==
    (recent_next + Cardinality({u \in Due(tick) : Before(u, t)})) % Capacity

AppliedFloorOverwritten(tick, s) ==
    IF DueOf(tick, s) = {} THEN highest_applied_sequence[s]
    ELSE MaxOf({t.sequence : t \in DueOf(tick, s)})

AppliedFloor(tick, s) ==
    MaxOf({highest_applied_sequence[s]} \cup {t.sequence : t \in DueOf(tick, s)})

CompactedWholeEpoch(tick) ==
    {id \in quarantined :
        ~(DueOf(tick, id[1]) # {} /\ id[2] = epochs[id[1]])}

\* compact_quarantine(seat), once for every transition applied to the seat
Compacted(tick) ==
    {id \in quarantined :
        ~ /\ DueOf(tick, id[1]) # {}
          /\ id[2] = epochs[id[1]]
          /\ id[3] <= AppliedFloor(tick, id[1])}

AdvanceTick ==
    LET tick == current_tick + 1 IN
    /\ current_tick < MaxTick
    /\ current_tick' = tick
    /\ pending' = pending \ Due(tick)
    /\ controls' = [s \in Seats |-> IF DueOf(tick, s) = {} THEN controls[s]
                                    ELSE LastDueOf(tick, s).state]
    /\ highest_applied_sequence' = [s \in Seats |-> AppliedFloor(tick, s)]
    /\ quarantined' = Compacted(tick)
    /\ recent' = [i \in Ring |->
                    IF \E t \in Due(tick) : RingSlot(t, tick) = i
                    THEN CHOOSE t \in Due(tick) : RingSlot(t, tick) = i
                    ELSE recent[i]]
    /\ recent_next' = (recent_next + Cardinality(Due(tick))) % Capacity
    /\ UNCHANGED <<snapshot_revision, epochs, active, highest_sequence,
                   resync_required>>

-----------------------------------------------------------------------------
(* Lifecycle *)

\* disconnect (activate = FALSE) and reconnect (activate = TRUE)
LifecycleEpoch(s, activate) ==
    /\ epochs[s] < MaxEpoch
    /\ epochs' = [epochs EXCEPT ![s] = @ + 1]
    /\ active' = [active EXCEPT ![s] = activate]
    /\ controls' = [controls EXCEPT ![s] = Neutral]
    /\ pending' = {t \in pending : t.seat # s}
    /\ highest_sequence' = [highest_sequence EXCEPT ![s] = 0]
    /\ highest_applied_sequence' = [highest_applied_sequence EXCEPT ![s] = 0]
    /\ recent' = [i \in Ring |->
                    IF recent[i] # NoTransition /\ recent[i].seat = s
                    THEN NoTransition ELSE recent[i]]
    /\ quarantined' = {id \in quarantined : id[1] # s}
    /\ UNCHANGED <<current_tick, snapshot_revision, resync_required, recent_next>>

\* pause, focus_lost (rematch = FALSE) and rematch
ResetAll(rematch) ==
    /\ \A s \in Seats : epochs[s] < MaxEpoch
    /\ epochs' = [s \in Seats |-> epochs[s] + 1]
    /\ current_tick' = IF rematch THEN 0 ELSE current_tick
    /\ active' = IF rematch THEN [s \in Seats |-> TRUE] ELSE active
    /\ controls' = [s \in Seats |-> Neutral]
    /\ pending' = {}
    /\ highest_sequence' = [s \in Seats |-> 0]
    /\ highest_applied_sequence' = [s \in Seats |-> 0]
    /\ quarantined' = {}
    /\ resync_required' = FALSE
    /\ recent' = [i \in Ring |-> NoTransition]
    /\ recent_next' = 0
    /\ UNCHANGED snapshot_revision

-----------------------------------------------------------------------------
(* apply_authoritative_snapshot *)

SnapshotOlderEpoch(snap) ==
    /\ snap.revision > snapshot_revision
    /\ snap.tick <= MaxTick - Horizon
    /\ \A s \in Seats : ~snap.active[s] =>
          snap.controls[s] = Neutral /\ snap.sequences[s] = 0
    /\ \A s \in Seats :
          /\ snap.epochs[s] # MaxEpoch
          /\ snap.epochs[s] = epochs[s] =>
                /\ snap.tick >= current_tick
                /\ snap.sequences[s] >= highest_sequence[s]

SnapshotAccepted(snap) ==
    /\ snap.revision > snapshot_revision
    /\ snap.tick <= MaxTick - Horizon
    /\ \A s \in Seats : ~snap.active[s] =>
          snap.controls[s] = Neutral /\ snap.sequences[s] = 0
    /\ \A s \in Seats :
          /\ snap.epochs[s] # MaxEpoch
          /\ snap.epochs[s] >= epochs[s]
          /\ snap.epochs[s] = epochs[s] =>
                /\ snap.tick >= current_tick
                /\ snap.sequences[s] >= highest_sequence[s]

ApplySnapshot(snap) ==
    /\ snapshot_revision' = snap.revision
    /\ current_tick' = snap.tick
    /\ controls' = snap.controls
    /\ highest_applied_sequence' = snap.sequences
    /\ highest_sequence' = snap.sequences
    /\ epochs' = snap.epochs
    /\ active' = snap.active
    /\ pending' = {}
    /\ recent' = [i \in Ring |-> NoTransition]
    /\ recent_next' = 0
    /\ quarantined' = {}
    /\ resync_required' = FALSE

ApplyAuthoritativeSnapshot(snap) ==
    /\ SnapshotAccepted(snap)
    /\ ApplySnapshot(snap)

-----------------------------------------------------------------------------
Next ==
    \/ \E t \in Received : SubmitTransition(t)
    \/ AdvanceTick
    \/ \E s \in Seats, activate \in BOOLEAN : LifecycleEpoch(s, activate)
    \/ \E rematch \in BOOLEAN : ResetAll(rematch)
    \/ \E snap \in Snapshots : ApplyAuthoritativeSnapshot(snap)

Spec == Init /\ [][Next]_vars

-----------------------------------------------------------------------------
TypeOK ==
    /\ current_tick \in 0..MaxTick
    /\ snapshot_revision \in 0..MaxRevision
    /\ controls \in [Seats -> ControlStates]
    /\ epochs \in [Seats -> 1..MaxEpoch]
    /\ active \in [Seats -> BOOLEAN]
    /\ highest_applied_sequence \in [Seats -> 0..MaxSequence]
    /\ highest_sequence \in [Seats -> 0..MaxSequence]
    /\ quarantined \subseteq (Seats \X (1..MaxEpoch) \X (1..MaxSequence))
    /\ resync_required \in BOOLEAN
    /\ pending \subseteq Transition
    /\ recent \in [Ring -> Transition \cup {NoTransition}]
    /\ recent_next \in Ring
=============================================================================
