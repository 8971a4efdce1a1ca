---------------------------- MODULE MCPatchPlan ----------------------------
(***************************************************************************)
(* A small instance of the selective JIT: a host entry and a helper in one  *)
(* file and two files that declare the same name, with bodies that make     *)
(* chains, recursion through two functions, templates and readers of a      *)
(* constant.                                                                *)
(***************************************************************************)
EXTENDS PatchPlan

CONSTANTS main, help, one, two, value, app, a, b

AllFunctions == {main, help, one, two}
HostEntries == {main}
Declaring == {one, two}
Sources == {app, a, b}
SourceOf == [f \in AllFunctions |-> CASE f = one -> a [] f = two -> b [] OTHER -> app]

Text(n, c, t, k) == [says |-> n, calls |-> c, template |-> t, constant |-> k]
Leaf == Text(0, {}, FALSE, FALSE)
CallsBoth == Text(0, {help, value}, FALSE, FALSE)
CallsValue == Text(0, {value}, FALSE, FALSE)

Bodies ==
    {Leaf, CallsBoth, CallsValue,
     Text(1, {}, FALSE, FALSE), Text(0, {}, FALSE, TRUE),
     Text(0, {}, TRUE, FALSE), Text(0, {}, TRUE, TRUE),
     Text(0, {help}, FALSE, FALSE)}

\* A diamond, a chain past a function that is not there yet, and a program
\* without a host entry.
StartingProgram(m, h) ==
    [program |-> [f \in AllFunctions |-> CASE f = main -> m
                                           [] f = help -> h
                                           [] OTHER -> Leaf],
     imports |-> [file \in Sources |-> IF file = app THEN {a} ELSE {}]]

StartingPrograms ==
    {StartingProgram(CallsBoth, CallsValue), StartingProgram(CallsValue, Absent),
     StartingProgram(Absent, CallsValue)}
============================================================================
