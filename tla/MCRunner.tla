------------------------------ MODULE MCRunner ------------------------------
(***************************************************************************)
(* The runner on a project of two files: an entry that imports a library.  *)
(***************************************************************************)
EXTENDS Runner, TLC

CONSTANTS main, lib, m0, m1, l0, l1

MCFiles == {main, lib}
MCContents == {m0, m1, l0, l1}
MCVersions == (main :> {m0, m1}) @@ (lib :> {l0, l1})

\* Every entry version imports the library.
MCImports == [c \in MCContents |-> IF c \in {m0, m1} THEN {lib} ELSE {}]

\* The second entry version calls what only the second library version has.
MCConflicts == {{m1, l0}}
=============================================================================
