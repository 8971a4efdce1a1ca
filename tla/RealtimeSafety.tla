--------------------------- MODULE RealtimeSafety ---------------------------
(***************************************************************************)
(* What a RealtimeSession promises about the controls it lets through.     *)
(* The session forgets: `recent' overwrites its oldest entry, quarantined  *)
(* identities are compacted away, snapshots and resets clear both.  Two    *)
(* history variables remember what the session itself no longer knows.     *)
(***************************************************************************)
EXTENDS Realtime

VARIABLES
    applied,      \* every identity that has reached the simulation
    conflicted    \* every identity of which two variants met in the schedule

history == <<applied, conflicted>>
allVars == <<vars, history>>

SafetyInit == Init /\ applied = {} /\ conflicted = {}

SubmitStep(t) ==
    /\ SubmitTransition(t)
    /\ conflicted' = IF Conflicting(t) THEN conflicted \cup {Identity(t)}
                     ELSE conflicted
    /\ UNCHANGED applied

TickStep ==
    /\ AdvanceTick
    /\ applied' = applied \cup {Identity(t) : t \in Due(current_tick + 1)}
    /\ UNCHANGED conflicted

ResetStep ==
    /\ \/ \E s \in Seats, activate \in BOOLEAN : LifecycleEpoch(s, activate)
       \/ \E rematch \in BOOLEAN : ResetAll(rematch)
       \/ \E snap \in Snapshots : ApplyAuthoritativeSnapshot(snap)
    /\ UNCHANGED history

SafetyNext == (\E t \in Received : SubmitStep(t)) \/ TickStep \/ ResetStep

SafetySpec == SafetyInit /\ [][SafetyNext]_allVars

\* The host's loop keeps ticking; nothing obliges peers to send or to leave.
FairSpec == SafetySpec /\ WF_allVars(TickStep)

-----------------------------------------------------------------------------
\* Every scheduled transition belongs to the current epoch of an active seat
\* and lies in the future, within the horizon.  advance_tick looks only for
\* apply_tick == current_tick, so a transition that time had passed would stay
\* pending for ever.  At the last tick saturating_add lets one in that is due
\* "now"; no tick follows it.
PendingIsFuture ==
    \A t \in pending :
        /\ active[t.seat]
        /\ t.epoch = epochs[t.seat]
        /\ current_tick < t.apply_tick \/ current_tick = MaxTick
        /\ t.apply_tick <= current_tick + Horizon

\* A transition that is scheduled has not reached the simulation before, in
\* whatever order its copies arrive and however much `recent' has forgotten:
\* together with PendingIdentitiesUnique, an identity is applied at most once.
NeverScheduledAgain == PendingIdentities \cap applied = {}

\* When two variants of an identity met in the schedule, neither of them ever
\* reaches the simulation: not after compact_quarantine dropped the identity,
\* and not after a snapshot or a reset cleared the table.
ConflictNeverApplied == applied \cap conflicted = {}

\* No two scheduled transitions share an identity, so the order in which the
\* due ones are applied is determined and remove_pending_sequence leaves none.
PendingIdentitiesUnique ==
    \A t, u \in pending : Identity(t) = Identity(u) => t = u

\* A seat that has left, or that a snapshot declares absent, holds no control:
\* its buttons are not stuck down and nothing is scheduled that would press one.
InactiveSeatIsNeutral ==
    \A s \in Seats : ~active[s] => controls[s] = Neutral

\* The three fixed tables never overflow: submit_transition's `expect' on a
\* free slot holds and pending_count does not underflow.
TablesBounded ==
    /\ Cardinality(pending) <= Capacity
    /\ Cardinality(quarantined) <= Capacity

\* Simulation time runs backwards only together with a new epoch of every
\* seat (rematch, or a snapshot that renews them all), so a transition of a
\* surviving epoch never meets the same tick twice.
RewindRenewsEveryEpoch ==
    [][current_tick' < current_tick => \A s \in Seats : epochs'[s] > epochs[s]]_allVars

\* Within an epoch the floor of accepted sequence numbers never falls, neither
\* by a tick that applies an older transition late nor by a snapshot.
FloorNeverFalls ==
    [][\A s \in Seats : epochs'[s] = epochs[s] =>
          highest_applied_sequence'[s] >= highest_applied_sequence[s]]_allVars

\* A transition scheduled for the future does not stay scheduled for ever: the
\* simulation reaches its tick, or a conflict, reset or snapshot withdraws it.
ScheduledIsResolved ==
    \A t \in Received :
        (t \in pending /\ current_tick < t.apply_tick) ~> (t \notin pending)
=============================================================================
