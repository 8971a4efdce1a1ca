---------------------------- MODULE MCRealtime ----------------------------
(* One seat: every admission outcome, ring eviction and table overflow. *)
EXTENDS RealtimeSafety

MCReceived ==
    [seat : Seats, epoch : 1..MaxEpoch, sequence : 1..MaxSequence,
     apply_tick : 1..MaxTick, state : ControlStates]
    \cup {[seat |-> 9, epoch |-> 1, sequence |-> 1, apply_tick |-> 1, state |-> Neutral],
          [seat |-> 0, epoch |-> 1, sequence |-> 0, apply_tick |-> 1, state |-> Neutral]}

\* All snapshots, including the ones the session refuses.
MCSnapshots == AuthoritativeSnapshot
===========================================================================
