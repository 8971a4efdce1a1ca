----------------------------- MODULE PatchPlan -----------------------------
(***************************************************************************)
(* The selective JIT (crates/stasis_compiler/src/backend): a warm compile   *)
(* compares the program with the accepted one, plans which functions must   *)
(* be emitted again (patch_plan.rs), emits them as one module whose calls   *)
(* bind to native addresses, and keeps the machine code of all the others   *)
(* (jit.rs).                                                                *)
(*                                                                         *)
(* A text stands for the body that body_hash hashes: what it says, the      *)
(* names it calls without arguments, whether it is an @requires template    *)
(* and whether it reads the constant.  The name Value is declared in        *)
(* several files, by the functions of Homonyms; which of them a call means  *)
(* depends on the files its own file imports, directly or not.              *)
(*                                                                         *)
(* A compile that fails, and a staged candidate that is dropped, leave      *)
(* everything as it was (jit.rs compile, staged_candidate), so neither is   *)
(* an action.                                                               *)
(***************************************************************************)
EXTENDS Integers, FiniteSets

CONSTANTS
    Functions,      \* canonical function identities (FunctionKey)
    Files,          \* the source files
    FileOf,         \* the file of every function
    Entries,        \* the functions with the name of a host entry
    Homonyms,       \* the functions called by the name Value
    Value,          \* that name
    Texts,          \* the bodies an edit may give a function
    Starts,         \* the programs of a first compile, with their imports
    Absent,         \* no such function in the program
    NoUnit,         \* no machine code for the function
    NoProgram,      \* nothing has been compiled
    MaxEdits        \* bound on the edits of one run

AcceptedPrograms ==
    [text : [Functions -> Texts \union {Absent}],
     calls : [Functions -> SUBSET Functions],
     reachable : SUBSET Functions,
     layout : {0, 1},
     contract : [Functions -> SUBSET {0, 1}]]

Units ==
    [module : Nat, text : Texts, embedded : SUBSET (Functions \X Texts),
     contract : SUBSET {0, 1}, layout : {0, 1}, binds : SUBSET (Functions \X Nat)]

ASSUME PatchAssumption ==
    /\ IsFiniteSet(Functions) /\ FileOf \in [Functions -> Files]
    /\ Entries \subseteq Functions /\ Homonyms \subseteq Functions
    /\ Value \notin Functions /\ Absent \notin Texts
    /\ \A f, g \in Homonyms : FileOf[f] = FileOf[g] => f = g
    /\ Texts \subseteq [says : Nat, calls : SUBSET ((Functions \ Homonyms) \union {Value}),
                        template : BOOLEAN, constant : BOOLEAN]
    /\ \A t \in Texts : t.template => t.calls = {}
    /\ Starts \subseteq [program : [Functions -> Texts \union {Absent}],
                         imports : [Files -> SUBSET Files]]
    /\ NoProgram \notin AcceptedPrograms /\ NoUnit \notin Units
    /\ MaxEdits \in Nat

VARIABLES
    program,    \* the text of every function, or Absent
    imports,    \* the files every file imports
    constant,   \* the value of the constant
    layout,     \* the compiler-layout digest
    accepted,   \* the accepted program, or NoProgram
    units,      \* the artifact of every function, or NoUnit
    modules,    \* how many modules have been emitted
    edits,      \* edits so far
    rebound     \* the functions whose unchanged text has come to call other
                \* functions since they were emitted

vars == <<program, imports, constant, layout, accepted, units, modules, edits,
          rebound>>
----------------------------------------------------------------------------
\* The call graph of the program.

Present == {f \in Functions : program[f] # Absent}
Template(f) == program[f].template

\* What can be reached from a set along the edges of next: the
\* least set that holds them and what its members lead to.
Closed(s, next) == \A f \in s : next[f] \subseteq s
Reached(from, next) ==
    LET closed == {s \in SUBSET DOMAIN next : from \subseteq s /\ Closed(s, next)}
    IN {f \in DOMAIN next : \A s \in closed : f \in s}

\* visible_module_aliases: a file sees the files it imports, directly or not.
Sees(f) == Reached({FileOf[f]}, imports)

\* resolve_module_call: the functions a name may mean in the body of f.
Meant(f, name) ==
    {g \in Present : /\ FileOf[g] \in Sees(f)
                     /\ g = name \/ (name = Value /\ g \in Homonyms)}

\* A recursive call is not an edge.
Dependencies(f) ==
    IF f \in Present THEN UNION {Meant(f, n) : n \in program[f].calls} \ {f} ELSE {}

\* deterministic_traversal refuses an import cycle.
Acyclic == \A file \in Files : file \notin Reached(imports[file], imports)

\* The index pass accepts a program whose calls all mean one function.
Resolves ==
    /\ Acyclic
    /\ \A f \in Present : \A n \in program[f].calls : Cardinality(Meant(f, n)) = 1

Roots == {f \in Entries \intersect Present : ~Template(f)}

\* Templates are expanded in their callers and never emitted.  A program
\* without a root keeps every function.
ReachableAlong(called) ==
    IF Roots = {} THEN {f \in Present : ~Template(f)}
    ELSE Reached(Roots, called)

\* CurrentGraph: what every function calls, the reachable functions, the
\* reachable callers of every function, and the strongly connected component
\* of every reachable one.
CurrentGraph ==
    LET calls == [f \in Functions |-> Dependencies(f)]
        called == [f \in Functions |-> {g \in calls[f] : ~Template(g)}]
        reachable == ReachableAlong(called)
        below == [f \in reachable |-> Reached({f}, called)]
    IN [calls |-> calls,
        reachable |-> reachable,
        callers |-> [f \in Functions |-> {g \in reachable : f \in calls[g]}],
        component |-> [f \in reachable |->
                          {g \in reachable : g \in below[f] /\ f \in below[g]}]]

\* What lowering f embeds besides its own text: the templates it expands and
\* the constant, when it or one of those templates reads it.
Embedded(f) == {<<g, program[g]>> : g \in {h \in Dependencies(f) : Template(h)}}
ReadsConstant(f) ==
    \/ program[f].constant
    \/ \E g \in Dependencies(f) : Template(g) /\ program[g].constant
Contract(f) == IF ReadsConstant(f) THEN {constant} ELSE {}
----------------------------------------------------------------------------
\* plan_patch.

LoweredContractChanged(f) ==
    \/ accepted.layout # layout
    \/ accepted.contract[f] # Contract(f)

\* The reachable functions of the accepted program that are gone.
RemovedReachable == accepted.reachable \ Present

Changed(f) ==
    \/ accepted.text[f] = Absent
    \/ f \notin accepted.reachable
    \/ accepted.text[f] # program[f]
    \/ LoweredContractChanged(f)

ExpandsChanged(f) ==
    \E g \in Dependencies(f) : Template(g) /\ accepted.text[g] # program[g]

CalledRemoved(f) == accepted.calls[f] \intersect RemovedReachable # {}

\* What the planner does not look at: the text of f is as accepted and calls
\* other functions, although no emitted function it called is gone.
Redirected(f) ==
    /\ accepted # NoProgram
    /\ accepted.text[f] = program[f]
    /\ accepted.calls[f] # Dependencies(f)
    /\ accepted.calls[f] \intersect accepted.reachable \subseteq Present

Seeds(graph) ==
    IF accepted = NoProgram THEN graph.reachable
    ELSE {f \in graph.reachable :
              Changed(f) \/ ExpandsChanged(f) \/ CalledRemoved(f)}

\* Mutant: the direct callers of a changed function and no further.
AffectedCallers(graph, seeds) ==
    seeds \union UNION {graph.component[f] \union graph.callers[f] : f \in seeds}

\* Mutant: what the patched code calls is emitted as well.
AffectedAndCallees(graph, seeds) ==
    LET closure == Reached(seeds, [f \in graph.reachable |-> graph.callers[f]])
    IN closure \union (UNION {graph.calls[f] : f \in closure} \intersect graph.reachable)

\* expand_affected_closure: the peers of an affected function's component and
\* its direct callers are affected.
AffectedClosure(graph, seeds) ==
    Reached(seeds, [f \in graph.reachable |->
                        graph.component[f] \union graph.callers[f]])

PlanPatch(graph) ==
    LET reJit == AffectedClosure(graph, Seeds(graph))
    IN [reJit |-> reJit, reused |-> graph.reachable \ reJit]
----------------------------------------------------------------------------
CaptureAccepted(graph) ==
    [text |-> program,
     calls |-> graph.calls,
     reachable |-> graph.reachable,
     layout |-> layout,
     contract |-> [f \in Functions |->
                       IF f \in graph.reachable THEN Contract(f) ELSE {}]]

\* The code of f in the module being emitted: calls within the patch bind to
\* the new bodies, the others to the addresses of the retained ones.
Emit(f, graph, plan) ==
    [module |-> modules + 1, text |-> program[f], embedded |-> Embedded(f),
     contract |-> Contract(f), layout |-> layout,
     binds |-> {<<g, IF g \in plan.reJit THEN modules + 1 ELSE units[g].module>> :
                    g \in graph.calls[f] \intersect graph.reachable}]

Compile ==
    /\ Resolves
    /\ LET graph == CurrentGraph
           plan == PlanPatch(graph)
       IN /\ \A f \in plan.reused : units[f] # NoUnit
          /\ accepted' = CaptureAccepted(graph)
          /\ units' = [f \in Functions |->
                          IF f \in plan.reJit THEN Emit(f, graph, plan)
                          ELSE IF f \in plan.reused THEN units[f] ELSE NoUnit]
          /\ modules' = IF plan.reJit = {} THEN modules ELSE modules + 1
          /\ rebound' = {f \in plan.reused : f \in rebound \/ Redirected(f)}
    /\ UNCHANGED <<program, imports, constant, layout, edits>>

\* An edit of the body of f, which is added if there was none.
EditBody(f, t) ==
    /\ program[f] # t
    /\ program' = [program EXCEPT ![f] = t]
    /\ UNCHANGED <<imports, constant, layout>>

Remove(f) ==
    /\ program[f] # Absent
    /\ program' = [program EXCEPT ![f] = Absent]
    /\ UNCHANGED <<imports, constant, layout>>

EditImports(file, targets) ==
    /\ imports[file] # targets
    /\ imports' = [imports EXCEPT ![file] = targets]
    /\ UNCHANGED <<program, constant, layout>>

EditConstant ==
    /\ constant' = 1 - constant
    /\ UNCHANGED <<program, imports, layout>>

EditLayout ==
    /\ layout' = 1 - layout
    /\ UNCHANGED <<program, imports, constant>>

Edit ==
    /\ edits < MaxEdits
    /\ accepted # NoProgram
    /\ edits' = edits + 1
    /\ UNCHANGED <<accepted, units, modules, rebound>>
    /\ \/ \E f \in Functions, t \in Texts : EditBody(f, t)
       \/ \E f \in Functions : Remove(f)
       \/ \E file \in Files, targets \in SUBSET Files : EditImports(file, targets)
       \/ EditConstant
       \/ EditLayout

Init ==
    /\ \E start \in Starts :
          program = start.program /\ imports = start.imports
    /\ constant = 0 /\ layout = 0
    /\ accepted = NoProgram
    /\ units = [f \in Functions |-> NoUnit]
    /\ modules = 0 /\ edits = 0 /\ rebound = {}

Next == Compile \/ Edit

Spec == Init /\ [][Next]_vars
----------------------------------------------------------------------------
\* The program, the accepted program and the artifacts are what jit.rs and
\* patch_plan.rs declare them to be, and exactly the accepted reachable
\* functions have machine code.
PatchTypeOK ==
    /\ program \in [Functions -> Texts \union {Absent}]
    /\ imports \in [Files -> SUBSET Files]
    /\ {constant, layout} \subseteq {0, 1}
    /\ modules \in Nat /\ edits \in 0 .. MaxEdits /\ rebound \subseteq Functions
    /\ accepted \in AcceptedPrograms \union {NoProgram}
    /\ units \in [Functions -> Units \union {NoUnit}]
    /\ \A f \in Functions :
          units[f] # NoUnit <=> accepted # NoProgram /\ f \in accepted.reachable

\* The machine code of f is what a full compile of the accepted program would
\* have produced: lowered from the accepted text, templates, constant and
\* layout, and calling the current code of every callee.
UpToDate(f) ==
    LET templates == {g \in accepted.calls[f] : accepted.text[g].template}
    IN /\ units[f].text = accepted.text[f]
       /\ units[f].embedded = {<<g, accepted.text[g]>> : g \in templates}
       /\ units[f].contract = accepted.contract[f]
       /\ units[f].layout = accepted.layout
       /\ units[f].binds = {<<g, units[g].module>> : g \in accepted.calls[f] \ templates}

\* "Selective JIT must never retain a caller containing stale embedded code":
\* whatever sequence of edits, removals, additions, template, constant and
\* layout changes led to the accepted program, no code the planner retained
\* is out of date, calls included.  A function whose unchanged text has come to
\* call other functions, with the old ones still there, is left out: see
\* NoCodeStale.
NoRetainedCodeStale ==
    accepted # NoProgram =>
        \A f \in accepted.reachable \ rebound : UpToDate(f)

\* The same of every function, as docs/jit_generation_contract.md:53-54 and
\* :78-80 say it.
NoCodeStale ==
    accepted # NoProgram => \A f \in accepted.reachable : UpToDate(f)

\* The code a function has would not be produced again from the program, or
\* its calls have been redirected since it was.
OutOfDate(f, graph) ==
    \/ f \in rebound
    \/ units[f] = NoUnit
    \/ units[f].text # program[f]
    \/ units[f].embedded # Embedded(f)
    \/ units[f].contract # Contract(f)
    \/ units[f].layout # layout
    \/ {b[1] : b \in units[f].binds} # graph.calls[f] \intersect graph.reachable

\* The least set of reachable functions that holds the out-of-date ones and
\* every caller of its own.
Affected(graph) ==
    Reached({f \in graph.reachable : OutOfDate(f, graph)},
            [f \in graph.reachable |-> graph.callers[f]])

\* A warm edit emits only the exact affected reverse-caller closure
\* (jit_generation_contract.md:37): a function that gets new code has
\* out-of-date code or calls, directly or not, one that has.
EmitsOnlyAffected ==
    [][units' # units =>
          {f \in Functions : units'[f] # units[f] /\ units'[f] # NoUnit}
              \subseteq Affected(CurrentGraph)]_vars

\* Every program whose calls resolve can be compiled: no function the plan
\* reuses is without an address to retain ("retained JIT address missing").
PlanIsComplete ==
    Resolves => \A f \in PlanPatch(CurrentGraph).reused : units[f] # NoUnit
============================================================================
