----------------------------- MODULE SwapService -----------------------------
(***************************************************************************)
(* What the development runner promises about hot swaps, without its files, *)
(* its channels and its threads: saved changes are taken up one request at  *)
(* a time, a request ends with a failed compile or with a decided commit,   *)
(* only an accepted commit changes what runs, it is announced before the    *)
(* next request begins, and a shutdown rejects the request it interrupts    *)
(* and nothing else.  Runner implements it.                                 *)
(***************************************************************************)
EXTENDS Naturals

VARIABLES
    changed,    \* changes have been submitted and not yet taken up
    phase,      \* where the last request is
    request,    \* its number, 0 before the first
    running,    \* the request whose program runs, 0 before the first
    announced,  \* the requests announced as swapped in
    rejected    \* the requests the shutdown rejected

serviceVars == <<changed, phase, request, running, announced, rejected>>

Init ==
    /\ changed = FALSE
    /\ phase = "idle"
    /\ request = 0 /\ running = 0
    /\ announced = {} /\ rejected = {}

Change ==
    /\ phase # "stopped"
    /\ changed' = TRUE
    /\ UNCHANGED <<phase, request, running, announced, rejected>>

\* The changes so far become the next request.
Dispatch ==
    /\ phase = "idle" /\ changed
    /\ changed' = FALSE
    /\ phase' = "compiling"
    /\ request' = request + 1
    /\ UNCHANGED <<running, announced, rejected>>

CompileEnds ==
    /\ phase = "compiling"
    /\ phase' \in {"idle", "waiting"}
    /\ UNCHANGED <<changed, request, running, announced, rejected>>

\* The commit of a compiled candidate is accepted or rejected.
Decide ==
    /\ phase = "waiting"
    /\ phase' = "decided"
    /\ running' \in {running, request}
    /\ UNCHANGED <<changed, request, announced, rejected>>

Announce ==
    /\ phase = "decided"
    /\ phase' = "idle"
    /\ announced' = announced \union ({running} \intersect {request})
    /\ UNCHANGED <<changed, request, running, rejected>>

Shutdown ==
    /\ phase \in {"idle", "compiling", "waiting"}
    /\ phase' = "stopped"
    /\ changed' = FALSE
    /\ rejected' = IF phase = "idle" THEN {} ELSE {request}
    /\ UNCHANGED <<request, running, announced>>

\* A request that has begun goes on.
GoOn == CompileEnds \/ Decide \/ Announce \/ (phase # "idle" /\ Shutdown)

Next == Change \/ Dispatch \/ GoOn \/ Shutdown

SafeSpec == Init /\ [][Next]_serviceVars

Spec ==
    /\ SafeSpec
    /\ WF_serviceVars(Dispatch) /\ WF_serviceVars(GoOn)
=============================================================================
