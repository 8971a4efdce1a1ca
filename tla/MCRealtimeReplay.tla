------------------------- MODULE MCRealtimeReplay -------------------------
(* One seat, one tick of delay; the snapshots renew the epoch or keep it. *)
EXTENDS RealtimeReplay

MCReceived ==
    [seat : Seats, epoch : 1..MaxEpoch, sequence : 1..MaxSequence,
     apply_tick : 1..MaxTick, state : ControlStates]

MCSnapshots ==
    {snap \in AuthoritativeSnapshot :
        /\ snap.revision = 1
        /\ snap.tick \in {0, 1}
        /\ \A s \in Seats : snap.active[s] /\ snap.sequences[s] \in {1, MaxSequence}}
===========================================================================
