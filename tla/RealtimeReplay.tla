--------------------------- MODULE RealtimeReplay ---------------------------
(***************************************************************************)
(* The replay log of a RealtimeSession and what replay_with_events makes   *)
(* of it (ReplayLog in src/crates/stasis_network/src/realtime.rs).         *)
(*                                                                         *)
(* Replaying is a left fold over the records with a fresh session as its   *)
(* accumulator.  The r_ variables are that session after the records       *)
(* logged so far: whenever the live session pushes a record, the replaying *)
(* one consumes it in the same step.  `diverged' is the fold's error: a    *)
(* Scheduled record that is not admitted, a tick whose number or controls  *)
(* differ, a Quarantine record that finds the table full.                  *)
(***************************************************************************)
EXTENDS Realtime

CONSTANT Limit       \* limit of ReplayLog::with_limit

ASSUME LimitAssumption == Limit \in Nat \ {0}

VARIABLES
    r_tick, r_revision, r_controls, r_epochs, r_active, r_applied_sequence,
    r_sequence, r_quarantined, r_resync, r_pending, r_recent, r_recent_next,
    diverged,    \* the replaying session has returned an error
    records,     \* number of records in the log
    complete,    \* ReplayLog::complete
    last         \* what record_hash sees of the last record

rvars == <<r_tick, r_revision, r_controls, r_epochs, r_active,
           r_applied_sequence, r_sequence, r_quarantined, r_resync, r_pending,
           r_recent, r_recent_next>>

log == <<records, complete, last>>

replayVars == <<vars, rvars, diverged, log>>

Replayed == INSTANCE Realtime WITH
    current_tick <- r_tick, snapshot_revision <- r_revision,
    controls <- r_controls, epochs <- r_epochs, active <- r_active,
    highest_applied_sequence <- r_applied_sequence,
    highest_sequence <- r_sequence, quarantined <- r_quarantined,
    resync_required <- r_resync, pending <- r_pending,
    recent <- r_recent, recent_next <- r_recent_next

Other  == [kind |-> "other"]
Tick(n, hashed) == [kind |-> "tick", tick |-> n, hashed |-> hashed]
IsOpenTick(r) == r.kind = "tick" /\ ~r.hashed

ReplayInit ==
    /\ Init
    /\ Replayed!Init
    /\ diverged = FALSE
    /\ records = 0
    /\ complete = TRUE
    /\ last = Other

-----------------------------------------------------------------------------

\* ReplayLog::push: a full log drops the record and is incomplete from then on.
Push(record) ==
    IF records = Limit
    THEN complete' = FALSE /\ UNCHANGED <<records, last>>
    ELSE /\ records' = records + 1
         /\ last' = record
         /\ UNCHANGED complete

\* The replaying session consumes the record, unless it was dropped or an
\* earlier record already ended the replay.
Consuming == records < Limit /\ ~diverged

Diverge == diverged' = TRUE /\ UNCHANGED rvars

\* One step of replay_with_events: the record is consumed by `step' when
\* `possible', and ends the replay otherwise.
Consume(possible, step) ==
    \/ Consuming /\ possible /\ step /\ UNCHANGED diverged
    \/ Consuming /\ ~possible /\ Diverge
    \/ ~Consuming /\ UNCHANGED <<rvars, diverged>>

-----------------------------------------------------------------------------
ReplaySchedule(t) ==
    /\ Schedule(t)
    /\ Push(Other)
    /\ Consume(Replayed!Schedulable(t), Replayed!Schedule(t))

ReplayQuarantineUnrecorded(t) ==
    /\ QuarantineConflict(t)
    /\ UNCHANGED <<log, rvars, diverged>>

ReplayQuarantine(t) ==
    /\ QuarantineConflict(t)
    /\ Push(Other)
    /\ Consume(Identity(t) \in r_quarantined \/ ~Replayed!QuarantineFull,
               Replayed!QuarantineIdentity(Identity(t)))

\* Nothing is pushed for a rejected transition, nor when the session gives up
\* on its quarantine table.
ReplayUnrecorded(t) ==
    /\ QuarantineOverflow(t) \/ RequireResync(t) \/ Reject(t)
    /\ UNCHANGED <<log, rvars, diverged>>

\* The tick record carries the live session's tick and controls; the
\* replaying session advances and is compared with them.
ReplayTick ==
    /\ AdvanceTick
    /\ Push(Tick(current_tick + 1, FALSE))
    /\ \/ /\ Consuming
          /\ Replayed!AdvanceTick
          /\ diverged' = (r_tick' # current_tick' \/ r_controls' # controls')
       \/ Consuming /\ r_tick = MaxTick /\ Diverge
       \/ ~Consuming /\ UNCHANGED <<rvars, diverged>>

ReplayLifecycle(s, activate) ==
    /\ LifecycleEpoch(s, activate)
    /\ Push(Other)
    /\ Consume(r_epochs[s] < MaxEpoch, Replayed!LifecycleEpoch(s, activate))

ReplayResetUnrecorded(rematch) ==
    /\ ResetAll(rematch)
    /\ UNCHANGED <<log, rvars, diverged>>

ReplayReset(rematch) ==
    /\ ResetAll(rematch)
    /\ Push(Other)
    /\ Consume(\A s \in Seats : r_epochs[s] < MaxEpoch, Replayed!ResetAll(rematch))

\* Replay applies a snapshot without validating it again.
ReplaySnapshot(snap) ==
    /\ ApplyAuthoritativeSnapshot(snap)
    /\ Push(Other)
    /\ Consume(TRUE, Replayed!ApplySnapshot(snap))

\* record_authoritative_hash: only for the tick record that ends the log.
RecordAuthoritativeHash(tick) ==
    /\ IsOpenTick(last)
    /\ last.tick = tick
    /\ last' = Tick(tick, TRUE)
    /\ UNCHANGED <<vars, rvars, diverged, records, complete>>

ReplayNext ==
    \/ \E t \in Received : \/ ReplaySchedule(t)
                           \/ ReplayQuarantine(t)
                           \/ ReplayUnrecorded(t)
    \/ ReplayTick
    \/ \E s \in Seats, activate \in BOOLEAN : ReplayLifecycle(s, activate)
    \/ \E rematch \in BOOLEAN : ReplayReset(rematch)
    \/ \E snap \in Snapshots : ReplaySnapshot(snap)
    \/ RecordAuthoritativeHash(current_tick)

ReplaySpec == ReplayInit /\ [][ReplayNext]_replayVars

-----------------------------------------------------------------------------

\* While the session has not asked for a resync, the log determines all of
\* its state: a session that replays the log so far has the same clock,
\* controls, epochs, floors, schedule and quarantine.  A tick record that ends
\* the log is the tick the session is at, so a hash recorded after a tick cannot
\* land on the tick of another timeline: a rematch or a snapshot in between
\* closes the record.
LogDeterminesSession ==
    /\ complete /\ ~diverged /\ ~resync_required =>
           /\ <<r_tick, r_controls, r_epochs, r_active>>
                = <<current_tick, controls, epochs, active>>
           /\ <<r_applied_sequence, r_sequence>>
                = <<highest_applied_sequence, highest_sequence>>
           /\ <<r_quarantined, r_pending>> = <<quarantined, pending>>
    /\ complete /\ IsOpenTick(last) => last.tick = current_tick

\* A replay goes wrong only at a tick taken while resync_required is set.
DivergesOnlyDuringResync ==
    [][diverged' /\ ~diverged => resync_required]_replayVars

=============================================================================
