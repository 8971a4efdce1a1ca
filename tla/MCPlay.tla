-------------------------------- MODULE MCPlay --------------------------------
(***************************************************************************)
(* Small instances of the play session: two files, five contents.  The      *)
(* content `bad` does not compile, `veto` rejects its swap, `wide` declares  *)
(* another state layout.                                                     *)
(***************************************************************************)
EXTENDS PlaySession, TLC

CONSTANTS main, lib, old, new, bad, veto, wide

MCFiles == {main, lib}
MCContents == {old, new, bad, veto, wide}
MCLayout == [c \in MCContents |-> IF c = wide THEN 1 ELSE 0]
MCStart == [f \in MCFiles |-> old]

\* Edits of either file, and one of both that changes the state layout.
MCEdits == {main :> new, lib :> new, main :> wide @@ lib :> new}
MCGoodEdits == {lib :> new}

MCNone == [f \in MCFiles |-> {}]
MCWritten == [f \in MCFiles |-> IF f = main THEN {new, bad} ELSE {new, veto}]
MCMainWritten == [f \in MCFiles |-> IF f = main THEN {new} ELSE {}]
===============================================================================
