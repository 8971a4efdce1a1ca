-------------------------- MODULE PatchPlanProofs --------------------------
(***************************************************************************)
(* What TLAPS proves of the selective JIT, for every set of functions,     *)
(* bodies and starting programs and any number of edits.                   *)
(***************************************************************************)
EXTENDS PatchPlan, TLAPS

Reachable == CurrentGraph.reachable
Emitted == PlanPatch(CurrentGraph).reJit
Runtime(f) == {g \in Dependencies(f) : ~Template(g)}

-----------------------------------------------------------------------------
\* Reached holds where it starts from and is closed, when its edges stay in
\* their domain.
LEMMA ReachedClosed ==
    ASSUME NEW next, NEW from, from \subseteq DOMAIN next,
           Closed(DOMAIN next, next)
    PROVE  /\ from \subseteq Reached(from, next)
           /\ Reached(from, next) \subseteq DOMAIN next
           /\ Closed(Reached(from, next), next)
BY DEF Reached, Closed

\* Reached is within every closed set that holds where it starts from.
LEMMA ReachedLeast ==
    ASSUME NEW next, NEW from, NEW s, s \subseteq DOMAIN next,
           from \subseteq s, Closed(s, next)
    PROVE  Reached(from, next) \subseteq s
BY DEF Reached, Closed

\* The fields of the current graph.
LEMMA GraphFields ==
    /\ CurrentGraph.calls = [f \in Functions |-> Dependencies(f)]
    /\ Reachable = ReachableAlong([f \in Functions |-> Runtime(f)])
    /\ CurrentGraph.callers =
          [f \in Functions |-> {g \in Reachable : f \in CurrentGraph.calls[g]}]
    /\ CurrentGraph.component =
          [f \in Reachable |->
              {g \in Reachable :
                  /\ g \in Reached({f}, [h \in Functions |-> Runtime(h)])
                  /\ f \in Reached({g}, [h \in Functions |-> Runtime(h)])}]
<1> DEFINE calls == [f \in Functions |-> Dependencies(f)]
           called == [f \in Functions |-> {g \in calls[f] : ~Template(g)}]
           reachable == ReachableAlong(called)
           below == [f \in reachable |-> Reached({f}, called)]
<1>1. called = [f \in Functions |-> Runtime(f)]
  BY DEF Runtime
<1>2. CurrentGraph =
        [calls |-> calls,
         reachable |-> reachable,
         callers |-> [f \in Functions |-> {g \in reachable : f \in calls[g]}],
         component |-> [f \in reachable |->
                           {g \in reachable : g \in below[f] /\ f \in below[g]}]]
  BY DEF CurrentGraph
<1> HIDE DEF called, calls
<1>3. Reachable = reachable /\ CurrentGraph.calls = calls
  BY <1>2 DEF Reachable
<1>4. CurrentGraph.callers =
          [f \in Functions |-> {g \in Reachable : f \in CurrentGraph.calls[g]}]
  BY <1>2, <1>3
<1> HIDE DEF reachable
<1>5. [f \in reachable |-> {g \in reachable : g \in below[f] /\ f \in below[g]}]
        = [f \in reachable |-> {g \in reachable : /\ g \in Reached({f}, called)
                                                  /\ f \in Reached({g}, called)}]
  OBVIOUS
<1> HIDE DEF below
<1>6. CurrentGraph.component =
          [f \in Reachable |-> {g \in Reachable : /\ g \in Reached({f}, called)
                                                  /\ f \in Reached({g}, called)}]
  BY <1>2, <1>3, <1>5, Zenon
<1> QED
  BY <1>1, <1>3, <1>4, <1>6 DEF calls, reachable

LEMMA DependenciesPresent == \A f : Dependencies(f) \subseteq Present
BY DEF Dependencies, Meant

\* What is reachable is there, is no template, and calls what is reachable.
LEMMA ReachableFacts ==
    ASSUME Resolves
    PROVE  /\ Reachable \subseteq {f \in Present : ~Template(f)}
           /\ \A f \in Reachable : Runtime(f) \subseteq Reachable
<1> DEFINE runtime == [f \in Functions |-> Runtime(f)]
           proper == {f \in Present : ~Template(f)}
<1>1. \A f \in Functions : Runtime(f) \subseteq proper
  BY DependenciesPresent DEF Runtime
<1>2. proper \subseteq Functions /\ Roots \subseteq proper
  BY DEF Present, Roots
<1>3. CASE Roots = {}
  <2>1. Reachable = proper
    BY <1>3, GraphFields DEF ReachableAlong
  <2> QED
    BY <2>1, <1>1, <1>2
<1>4. CASE Roots # {}
  <2>1. Reachable = Reached(Roots, runtime)
    BY <1>4, GraphFields DEF ReachableAlong
  <2>2. DOMAIN runtime = Functions
    OBVIOUS
  <2>3. Closed(proper, runtime) /\ Closed(DOMAIN runtime, runtime)
    BY <1>1, <1>2 DEF Closed
  <2> HIDE DEF runtime
  <2>4. Reachable \subseteq proper
    BY <2>1, <2>2, <2>3, <1>2, ReachedLeast
  <2>5. Closed(Reachable, runtime)
    BY <2>1, <2>2, <2>3, <1>2, ReachedClosed
  <2> QED
    BY <2>4, <2>5, <1>2, Zenon DEF Closed, runtime
<1> QED
  BY <1>3, <1>4

\* The edges of the affected closure.
LEMMA AffectedEdges ==
    ASSUME Resolves
    PROVE  \A f \in Reachable :
              /\ CurrentGraph.component[f] \subseteq Reachable
              /\ CurrentGraph.callers[f] = {g \in Reachable : f \in Dependencies(g)}
<1>1. Reachable \subseteq Functions
  BY ReachableFacts DEF Present
<1>2. \A f \in Reachable : CurrentGraph.component[f] \subseteq Reachable
  BY GraphFields
<1>3. \A g \in Reachable : CurrentGraph.calls[g] = Dependencies(g)
  BY GraphFields, <1>1
<1>4. ASSUME NEW f \in Reachable
      PROVE  CurrentGraph.callers[f] = {g \in Reachable : f \in CurrentGraph.calls[g]}
  BY GraphFields, <1>1
<1> QED
  BY <1>2, <1>3, <1>4

\* The plan emits the seeds and, with a function, its reachable callers; what
\* it does not emit it reuses.
LEMMA PlanFacts ==
    ASSUME Resolves
    PROVE  /\ Emitted \subseteq Reachable
           /\ Seeds(CurrentGraph) \subseteq Emitted
           /\ \A f \in Emitted, g \in Reachable : f \in Dependencies(g) => g \in Emitted
           /\ PlanPatch(CurrentGraph).reused = Reachable \ Emitted
<1> DEFINE edges == [f \in Reachable |->
                        CurrentGraph.component[f] \union CurrentGraph.callers[f]]
<1>1. Emitted = Reached(Seeds(CurrentGraph), edges)
  BY DEF Emitted, PlanPatch, AffectedClosure, Reachable
<1>2. PlanPatch(CurrentGraph).reused = Reachable \ Emitted
  BY DEF PlanPatch, Emitted, Reachable
<1>3. Seeds(CurrentGraph) \subseteq Reachable
  BY DEF Seeds, Reachable
<1>4. DOMAIN edges = Reachable /\ Closed(Reachable, edges)
  BY AffectedEdges DEF Closed
<1>5. \A f \in Reachable, g \in Reachable : f \in Dependencies(g) => g \in edges[f]
  BY AffectedEdges
<1> HIDE DEF edges
<1>6. /\ Seeds(CurrentGraph) \subseteq Emitted
      /\ Emitted \subseteq Reachable
      /\ Closed(Emitted, edges)
  BY <1>1, <1>3, <1>4, ReachedClosed
<1> QED
  BY <1>2, <1>5, <1>6 DEF Closed

-----------------------------------------------------------------------------
\* The runtime calls of a reachable function are its calls to reachable ones.
LEMMA RuntimeCalls ==
    ASSUME Resolves, NEW f \in Reachable
    PROVE  CurrentGraph.calls[f] \intersect CurrentGraph.reachable = Runtime(f)
<1>1. CurrentGraph.calls[f] = Dependencies(f)
  BY GraphFields, ReachableFacts DEF Present
<1> QED
  BY <1>1, ReachableFacts DEF Runtime, Reachable

\* The artifact that emission gives a function.
LEMMA EmitFields ==
    ASSUME Resolves, NEW f \in Emitted
    PROVE  Emit(f, CurrentGraph, PlanPatch(CurrentGraph)) =
             [module |-> modules + 1, text |-> program[f], embedded |-> Embedded(f),
              contract |-> Contract(f), layout |-> layout,
              binds |-> {<<g, IF g \in Emitted THEN modules + 1 ELSE units[g].module>> :
                             g \in Runtime(f)}]
<1>1. CurrentGraph.calls[f] \intersect CurrentGraph.reachable = Runtime(f)
  BY RuntimeCalls, PlanFacts
<1>2. PlanPatch(CurrentGraph).reJit = Emitted
  BY DEF Emitted
<1> QED
  BY <1>1, <1>2, Zenon DEF Emit

\* The program that a compile accepts.
LEMMA CaptureFields ==
    LET captured == CaptureAccepted(CurrentGraph) IN
    /\ captured.text = program
    /\ captured.calls = [f \in Functions |-> Dependencies(f)]
    /\ captured.reachable = Reachable
    /\ captured.layout = layout
    /\ captured.contract =
          [f \in Functions |-> IF f \in Reachable THEN Contract(f) ELSE {}]
BY GraphFields DEF CaptureAccepted, Reachable

\* What a compile does, in terms of the reachable and the emitted functions.
LEMMA CompileEffect ==
    ASSUME Compile
    PROVE  /\ Resolves
           /\ \A f \in Reachable \ Emitted : units[f] # NoUnit
           /\ accepted' = CaptureAccepted(CurrentGraph)
           /\ units' = [f \in Functions |->
                 IF f \in Emitted THEN Emit(f, CurrentGraph, PlanPatch(CurrentGraph))
                 ELSE IF f \in Reachable \ Emitted THEN units[f] ELSE NoUnit]
           /\ modules' \in {modules, modules + 1}
           /\ rebound' = {f \in Reachable \ Emitted : f \in rebound \/ Redirected(f)}
           /\ UNCHANGED <<program, imports, constant, layout, edits>>
<1>1. Resolves
  BY DEF Compile
<1>2. PlanPatch(CurrentGraph).reused = Reachable \ Emitted
  BY <1>1, PlanFacts
<1>3. PlanPatch(CurrentGraph).reJit = Emitted
  BY DEF Emitted
<1> QED
  BY <1>1, <1>2, <1>3 DEF Compile

-----------------------------------------------------------------------------
\* An artifact is of its type.
LEMMA EmitType ==
    ASSUME PatchTypeOK, Resolves, NEW f \in Emitted,
           \A g \in Reachable \ Emitted : units[g] # NoUnit
    PROVE  Emit(f, CurrentGraph, PlanPatch(CurrentGraph)) \in Units
<1>1. f \in Reachable /\ f \in Functions /\ program[f] \in Texts
  BY PlanFacts, ReachableFacts DEF PatchTypeOK, Present
<1>2. Embedded(f) \subseteq Functions \X Texts
  <2>1. \A g \in Dependencies(f) : g \in Functions /\ program[g] \in Texts
    BY DependenciesPresent DEF Present, PatchTypeOK
  <2> QED
    BY <2>1 DEF Embedded
<1>3. Contract(f) \subseteq {0, 1} /\ layout \in {0, 1}
  BY DEF Contract, PatchTypeOK
<1>4. ASSUME NEW g \in Runtime(f)
      PROVE  /\ g \in Functions
             /\ (IF g \in Emitted THEN modules + 1 ELSE units[g].module) \in Nat
  <2>1. g \in Reachable /\ g \in Functions
    BY <1>1, ReachableFacts DEF Present
  <2>2. g \notin Emitted => units[g] \in Units
    BY <2>1 DEF PatchTypeOK
  <2>3. g \notin Emitted => units[g].module \in Nat
    BY <2>2 DEF Units
  <2> QED
    BY <2>1, <2>3 DEF PatchTypeOK
<1>5. {<<g, IF g \in Emitted THEN modules + 1 ELSE units[g].module>> :
          g \in Runtime(f)} \subseteq Functions \X Nat
  BY <1>4
<1>6. modules + 1 \in Nat
  BY DEF PatchTypeOK
<1> QED
  BY <1>1, <1>2, <1>3, <1>5, <1>6, EmitFields DEF Units

\* The program that a compile accepts is of its type.
LEMMA CaptureType ==
    ASSUME PatchTypeOK, Resolves
    PROVE  CaptureAccepted(CurrentGraph) \in AcceptedPrograms
<1>1. \A f \in Functions : Dependencies(f) \subseteq Functions
  BY DependenciesPresent DEF Present
<1>2. [f \in Functions |-> Dependencies(f)] \in [Functions -> SUBSET Functions]
  BY <1>1
<1>3. \A f \in Functions : Contract(f) \subseteq {0, 1}
  BY DEF Contract, PatchTypeOK
<1>4. [f \in Functions |-> IF f \in Reachable THEN Contract(f) ELSE {}]
        \in [Functions -> SUBSET {0, 1}]
  BY <1>3
<1>5. Reachable \subseteq Functions
  BY ReachableFacts DEF Present
<1>6. CaptureAccepted(CurrentGraph) =
        [text |-> program, calls |-> [f \in Functions |-> Dependencies(f)],
         reachable |-> Reachable, layout |-> layout,
         contract |-> [f \in Functions |-> IF f \in Reachable THEN Contract(f) ELSE {}]]
  BY GraphFields DEF CaptureAccepted, Reachable
<1> QED
  BY <1>2, <1>4, <1>5, <1>6 DEF AcceptedPrograms, PatchTypeOK

\* Every variable keeps its type, and exactly the accepted reachable functions
\* have machine code: the artifact table of jit.rs is never short of one.
THEOREM PatchTypes == Spec => []PatchTypeOK
<1>1. Init => PatchTypeOK
  BY PatchAssumption DEF Init, PatchTypeOK
<1>2. PatchTypeOK /\ [Next]_vars => PatchTypeOK'
  <2> SUFFICES ASSUME PatchTypeOK, [Next]_vars
               PROVE  PatchTypeOK'
    OBVIOUS
  <2>1. CASE Compile
    <3>1. accepted' \in AcceptedPrograms
      BY <2>1, CompileEffect, CaptureType
    <3>2. accepted'.reachable = Reachable
      BY <2>1, CompileEffect, CaptureFields
    <3>3. accepted' # NoProgram
      BY <3>1, PatchAssumption
    <3>4. \A f \in Emitted : Emit(f, CurrentGraph, PlanPatch(CurrentGraph)) \in Units
      BY <2>1, CompileEffect, EmitType
    <3>5. Emitted \subseteq Reachable
      BY <2>1, CompileEffect, PlanFacts
    <3>6. ASSUME NEW f \in Functions
          PROVE  /\ units'[f] \in Units \union {NoUnit}
                 /\ units'[f] # NoUnit <=> f \in Reachable
      <4>1. CASE f \in Emitted
        BY <4>1, <3>4, <3>5, <2>1, CompileEffect, PatchAssumption
      <4>2. CASE f \in Reachable \ Emitted
        BY <4>2, <2>1, CompileEffect DEF PatchTypeOK
      <4>3. CASE f \notin Reachable
        BY <4>3, <3>5, <2>1, CompileEffect
      <4> QED
        BY <4>1, <4>2, <4>3
    <3>7. units' \in [Functions -> Units \union {NoUnit}]
      <4>1. /\ units' = [f \in Functions |-> units'[f]]
        BY <2>1, CompileEffect
      <4> QED
        BY <4>1, <3>6
    <3>8. /\ modules' \in Nat /\ rebound' \subseteq Functions
          /\ UNCHANGED <<program, imports, constant, layout, edits>>
      BY <2>1, CompileEffect, ReachableFacts DEF PatchTypeOK, Present
    <3> QED
      BY <3>1, <3>2, <3>3, <3>6, <3>7, <3>8 DEF PatchTypeOK
  <2>2. CASE Edit
    <3>1. edits' \in 0 .. MaxEdits /\ UNCHANGED <<accepted, units, modules, rebound>>
      BY <2>2, PatchAssumption DEF Edit, PatchTypeOK
    <3>2. /\ program' \in [Functions -> Texts \union {Absent}]
          /\ imports' \in [Files -> SUBSET Files]
          /\ {constant', layout'} \subseteq {0, 1}
      <4>1. ASSUME NEW f \in Functions, NEW t \in Texts, EditBody(f, t) PROVE <3>2!:
        BY <4>1 DEF EditBody, PatchTypeOK
      <4>2. ASSUME NEW f \in Functions, Remove(f) PROVE <3>2!:
        BY <4>2 DEF Remove, PatchTypeOK
      <4>3. ASSUME NEW file \in Files, NEW targets \in SUBSET Files,
                  EditImports(file, targets) PROVE <3>2!:
        BY <4>3 DEF EditImports, PatchTypeOK
      <4>4. CASE EditConstant
        BY <4>4 DEF EditConstant, PatchTypeOK
      <4>5. CASE EditLayout
        BY <4>5 DEF EditLayout, PatchTypeOK
      <4> QED
        BY <4>1, <4>2, <4>3, <4>4, <4>5, <2>2 DEF Edit
    <3> QED
      BY <3>1, <3>2 DEF PatchTypeOK
  <2>3. CASE UNCHANGED vars
    BY <2>3 DEF vars, PatchTypeOK
  <2> QED
    BY <2>1, <2>2, <2>3 DEF Next
<1> QED
  BY <1>1, <1>2, PTL DEF Spec

-----------------------------------------------------------------------------
\* The accepted reachable functions are no templates.
CodeInv ==
    /\ accepted # NoProgram =>
          \A f \in accepted.reachable :
              accepted.text[f] # Absent /\ ~accepted.text[f].template
    /\ NoRetainedCodeStale

\* A function the plan reuses is no seed: it was accepted, reachable, with the
\* text, the contract, the layout and the templates it has now.
LEMMA ReusedIsAccepted ==
    ASSUME Resolves, NEW f \in Reachable \ Emitted
    PROVE  /\ accepted # NoProgram
           /\ f \in accepted.reachable
           /\ accepted.text[f] = program[f]
           /\ accepted.layout = layout /\ accepted.contract[f] = Contract(f)
           /\ \A g \in Dependencies(f) : Template(g) => accepted.text[g] = program[g]
           /\ ~Redirected(f) => accepted.calls[f] = Dependencies(f)
<1>1. f \notin Seeds(CurrentGraph)
  BY PlanFacts
<1>2. accepted # NoProgram
  BY <1>1 DEF Seeds, Reachable
<1>3. ~Changed(f) /\ ~ExpandsChanged(f) /\ ~CalledRemoved(f)
  BY <1>1, <1>2 DEF Seeds, Reachable
<1> QED
  BY <1>2, <1>3 DEF Changed, ExpandsChanged, LoweredContractChanged, CalledRemoved,
                    RemovedReachable, Redirected

\* Its runtime callees are reused as well, and the templates it expands are the
\* ones it expanded.
LEMMA ReusedCallees ==
    ASSUME PatchTypeOK, CodeInv, Resolves, NEW f \in Reachable \ Emitted, ~Redirected(f)
    PROVE  /\ accepted.calls[f] = Dependencies(f)
           /\ Runtime(f) \subseteq Reachable \ Emitted
           /\ \A g \in Dependencies(f) :
                 Template(g) <=> accepted.text[g].template
<1>1. f \in Functions
  BY ReachableFacts DEF Present
<1>2. accepted.calls[f] = Dependencies(f)
  BY ReusedIsAccepted
<1>3. Runtime(f) \subseteq Reachable \ Emitted
  BY ReachableFacts, PlanFacts DEF Runtime
<1>4. ASSUME NEW g \in Dependencies(f), ~Template(g)
      PROVE  ~accepted.text[g].template
  <2>1. g \in Reachable \ Emitted
    BY <1>3, <1>4 DEF Runtime
  <2> QED
    BY <2>1, ReusedIsAccepted DEF CodeInv
<1>5. ASSUME NEW g \in Dependencies(f), Template(g)
      PROVE  accepted.text[g].template
  BY <1>5, ReusedIsAccepted DEF Template
<1> QED
  BY <1>2, <1>3, <1>4, <1>5

\* Emission makes the code of a function current.
LEMMA EmittedUpToDate ==
    ASSUME PatchTypeOK, Compile, NEW f \in Emitted
    PROVE  UpToDate(f)'
<1> USE CompileEffect
<1> DEFINE templates == {g \in Dependencies(f) : Template(g)}
<1>1. f \in Reachable /\ f \in Functions
  BY PlanFacts, ReachableFacts DEF Present
<1>2. /\ accepted'.calls[f] = Dependencies(f) /\ accepted'.text = program
      /\ accepted'.layout = layout /\ accepted'.contract[f] = Contract(f)
  BY <1>1, CaptureFields
<1>3. {g \in accepted'.calls[f] : accepted'.text[g].template} = templates
  BY <1>2 DEF Template
<1>4. units'[f] = Emit(f, CurrentGraph, PlanPatch(CurrentGraph))
  BY <1>1
<1>5. /\ units'[f].text = program[f]
      /\ units'[f].embedded = {<<g, program[g]>> : g \in templates}
      /\ units'[f].contract = Contract(f)
      /\ units'[f].layout = layout
      /\ units'[f].binds =
            {<<g, IF g \in Emitted THEN modules + 1 ELSE units[g].module>> :
                 g \in Runtime(f)}
  BY <1>4, EmitFields DEF Embedded
<1>6. ASSUME NEW g \in Runtime(f)
      PROVE  units'[g].module = IF g \in Emitted THEN modules + 1 ELSE units[g].module
  <2>1. g \in Reachable /\ g \in Functions
    BY <1>1, ReachableFacts DEF Present
  <2>2. CASE g \in Emitted
    <3>1. units'[g] = Emit(g, CurrentGraph, PlanPatch(CurrentGraph))
      BY <2>1, <2>2
    <3> QED
      BY <3>1, <2>2, EmitFields
  <2>3. CASE g \notin Emitted
    BY <2>1, <2>3
  <2> QED
    BY <2>2, <2>3
<1>7. Runtime(f) = accepted'.calls[f] \ templates
  BY <1>2 DEF Runtime
<1>8. units'[f].binds = {<<g, units'[g].module>> : g \in accepted'.calls[f] \ templates}
  BY <1>5, <1>6, <1>7
<1> QED
  BY <1>2, <1>3, <1>5, <1>8 DEF UpToDate

\* Reuse keeps the code of a function current.
LEMMA ReusedUpToDate ==
    ASSUME PatchTypeOK, CodeInv, Compile, NEW f \in Reachable \ Emitted,
           f \notin rebound, ~Redirected(f)
    PROVE  UpToDate(f)'
<1> USE CompileEffect
<1> DEFINE templates == {g \in Dependencies(f) : Template(g)}
<1>1. f \in Functions
  BY ReachableFacts DEF Present
<1>2. UpToDate(f)
  BY ReusedIsAccepted DEF CodeInv, NoRetainedCodeStale
<1>3. /\ accepted'.calls[f] = Dependencies(f) /\ accepted'.text = program
      /\ accepted'.layout = layout /\ accepted'.contract[f] = Contract(f)
  BY <1>1, CaptureFields
<1>4. /\ {g \in accepted'.calls[f] : accepted'.text[g].template} = templates
      /\ {g \in accepted.calls[f] : accepted.text[g].template} = templates
  BY <1>3, ReusedCallees DEF Template
<1>5. units'[f] = units[f]
  BY <1>1
<1>6. {<<g, accepted.text[g]>> : g \in templates} = {<<g, accepted'.text[g]>> : g \in templates}
  BY <1>3, ReusedIsAccepted
<1>7. \A g \in accepted.calls[f] \ templates : units'[g] = units[g]
  <2>1. accepted.calls[f] \ templates = Runtime(f)
    BY ReusedCallees DEF Runtime
  <2>2. Runtime(f) \subseteq Functions
    BY ReusedCallees, ReachableFacts DEF Present
  <2> QED
    BY <2>1, <2>2, ReusedCallees
<1>8. accepted'.calls[f] = accepted.calls[f]
  BY <1>3, ReusedCallees
<1>9. {<<g, units[g].module>> : g \in accepted.calls[f] \ templates}
        = {<<g, units'[g].module>> : g \in accepted'.calls[f] \ templates}
  BY <1>7, <1>8
<1>10. /\ units[f].text = accepted.text[f]
       /\ units[f].embedded = {<<g, accepted.text[g]>> : g \in templates}
       /\ units[f].contract = accepted.contract[f]
       /\ units[f].layout = accepted.layout
       /\ units[f].binds = {<<g, units[g].module>> : g \in accepted.calls[f] \ templates}
  BY <1>2, <1>4 DEF UpToDate
<1>11. /\ units'[f].text = accepted'.text[f]
       /\ units'[f].embedded = {<<g, accepted'.text[g]>> : g \in templates}
       /\ units'[f].contract = accepted'.contract[f]
       /\ units'[f].layout = accepted'.layout
       /\ units'[f].binds = {<<g, units'[g].module>> : g \in accepted'.calls[f] \ templates}
  BY <1>3, <1>5, <1>6, <1>9, <1>10, ReusedIsAccepted
<1> QED
  BY <1>4, <1>11 DEF UpToDate

\* The inductive invariant.
THEOREM CodeInvariance == Spec => []CodeInv
<1>1. Init => CodeInv
  BY DEF Init, CodeInv, NoRetainedCodeStale
<1>2. PatchTypeOK /\ CodeInv /\ [Next]_vars => CodeInv'
  <2> SUFFICES ASSUME PatchTypeOK, CodeInv, [Next]_vars
               PROVE  CodeInv'
    OBVIOUS
  <2>1. CASE Compile
    <3> USE <2>1
    <3>1. /\ accepted'.reachable = Reachable /\ accepted'.text = program
          /\ \A f \in Functions : accepted'.calls[f] = Dependencies(f)
      BY CompileEffect, CaptureFields
    <3>3. \A f \in accepted'.reachable :
              accepted'.text[f] # Absent /\ ~accepted'.text[f].template
      BY <3>1, CompileEffect, ReachableFacts DEF Present, Template
    <3>4. ASSUME NEW f \in Reachable \ rebound'
          PROVE  UpToDate(f)'
      BY CompileEffect, EmittedUpToDate, ReusedUpToDate
    <3>5. NoRetainedCodeStale'
      BY <3>1, <3>4 DEF NoRetainedCodeStale
    <3> QED
      BY <3>3, <3>5 DEF CodeInv
  <2>2. CASE Edit
    <3>1. UNCHANGED <<accepted, units, rebound>>
      BY <2>2 DEF Edit
    <3>2. \A f : UpToDate(f)' = UpToDate(f)
      BY <3>1 DEF UpToDate
    <3> QED
      BY <3>1, <3>2 DEF CodeInv, NoRetainedCodeStale
  <2>3. CASE UNCHANGED vars
    BY <2>3 DEF vars, CodeInv, NoRetainedCodeStale, UpToDate
  <2> QED
    BY <2>1, <2>2, <2>3 DEF Next
<1> QED
  BY <1>1, <1>2, PatchTypes, PTL DEF Spec

\* "Selective JIT must never retain a caller containing stale embedded code":
\* for every program and every sequence of edits, code that plan_patch retains
\* is what a full compile would emit, redirected calls apart.
THEOREM RetainedCodeIsCurrent == Spec => []NoRetainedCodeStale
<1>1. CodeInv => NoRetainedCodeStale
  BY DEF CodeInv
<1> QED
  BY <1>1, CodeInvariance, PTL

\* compile_candidate_staged never fails for want of a retained address: every
\* function the plan reuses has machine code.
THEOREM RetainedAddressesExist == Spec => []PlanIsComplete
<1>1. PatchTypeOK => PlanIsComplete
  <2> SUFFICES ASSUME PatchTypeOK, Resolves,
                      NEW f \in PlanPatch(CurrentGraph).reused
               PROVE  units[f] # NoUnit
    BY DEF PlanIsComplete
  <2>1. f \in Reachable \ Emitted
    BY PlanFacts
  <2>2. f \in Functions
    BY <2>1, ReachableFacts DEF Present
  <2> QED
    BY <2>1, <2>2, ReusedIsAccepted DEF PatchTypeOK
<1> QED
  BY <1>1, PatchTypes, PTL

-----------------------------------------------------------------------------
\* The affected functions hold the out-of-date ones and their callers.
LEMMA AffectedFacts ==
    ASSUME Resolves
    PROVE  /\ Affected(CurrentGraph) \subseteq Reachable
           /\ \A f \in Reachable :
                 OutOfDate(f, CurrentGraph) => f \in Affected(CurrentGraph)
           /\ \A f \in Affected(CurrentGraph), g \in Reachable :
                 f \in Dependencies(g) => g \in Affected(CurrentGraph)
<1> DEFINE callers == [f \in Reachable |-> CurrentGraph.callers[f]]
           stale == {f \in Reachable : OutOfDate(f, CurrentGraph)}
<1>1. Affected(CurrentGraph) = Reached(stale, callers)
  BY DEF Affected, Reachable
<1>2. DOMAIN callers = Reachable /\ Closed(Reachable, callers)
  BY AffectedEdges DEF Closed
<1>3. \A f \in Reachable : callers[f] = {g \in Reachable : f \in Dependencies(g)}
  BY AffectedEdges
<1> HIDE DEF callers
<1>4. stale \subseteq Reachable
  OBVIOUS
<1>5. /\ stale \subseteq Affected(CurrentGraph)
      /\ Affected(CurrentGraph) \subseteq Reachable
      /\ Closed(Affected(CurrentGraph), callers)
  <2> HIDE DEF stale
  <2> QED
    BY <1>1, <1>2, <1>4, ReachedClosed
<1> QED
  BY <1>3, <1>5 DEF Closed

\* A peer in a strongly connected component calls, directly or not, the
\* function it is a peer of; so it is affected with it.
LEMMA PeersAffected ==
    ASSUME Resolves, NEW f \in Affected(CurrentGraph)
    PROVE  CurrentGraph.component[f] \subseteq Affected(CurrentGraph)
<1> DEFINE runtime == [h \in Functions |-> Runtime(h)]
           others == Reachable \ Affected(CurrentGraph)
<1>1. f \in Reachable /\ Reachable \subseteq Functions
  BY AffectedFacts, ReachableFacts DEF Present
<1> SUFFICES ASSUME NEW g \in CurrentGraph.component[f], g \notin Affected(CurrentGraph)
             PROVE  FALSE
  OBVIOUS
<1>2. g \in Reachable /\ f \in Reached({g}, runtime)
  BY <1>1, GraphFields
<1>3. DOMAIN runtime = Functions
  OBVIOUS
<1>4. Closed(others, runtime)
  <2> SUFFICES ASSUME NEW h \in others, NEW c \in Runtime(h)
               PROVE  c \in others
    BY <1>1 DEF Closed
  <2>1. c \in Reachable /\ c \in Dependencies(h)
    BY ReachableFacts DEF Runtime
  <2> QED
    BY <2>1, AffectedFacts
<1> HIDE DEF runtime
<1>5. Reached({g}, runtime) \subseteq others
  BY <1>1, <1>2, <1>3, <1>4, ReachedLeast
<1> QED
  BY <1>2, <1>5

\* A seed of the plan has out-of-date code.
LEMMA SeedsOutOfDate ==
    ASSUME PatchTypeOK, CodeInv, Resolves, NEW f \in Seeds(CurrentGraph)
    PROVE  OutOfDate(f, CurrentGraph)
<1>1. f \in Reachable /\ f \in Functions /\ f \in Present
  BY ReachableFacts DEF Present, Seeds, Reachable
<1> SUFFICES ASSUME ~OutOfDate(f, CurrentGraph)
             PROVE  FALSE
  OBVIOUS
<1>2. /\ f \notin rebound /\ units[f] # NoUnit
      /\ units[f].text = program[f] /\ units[f].embedded = Embedded(f)
      /\ units[f].contract = Contract(f) /\ units[f].layout = layout
      /\ {b[1] : b \in units[f].binds} = Runtime(f)
  BY <1>1, RuntimeCalls DEF OutOfDate
<1>3. accepted # NoProgram /\ f \in accepted.reachable
  BY <1>1, <1>2 DEF PatchTypeOK
<1>4. UpToDate(f)
  BY <1>2, <1>3 DEF CodeInv, NoRetainedCodeStale
<1>5. ~Changed(f)
  BY <1>2, <1>3, <1>4 DEF UpToDate, Changed, LoweredContractChanged, CodeInv
<1>6. ~ExpandsChanged(f)
  <2> SUFFICES ASSUME NEW g \in Dependencies(f), Template(g)
               PROVE  accepted.text[g] = program[g]
    BY DEF ExpandsChanged
  <2>1. <<g, program[g]>> \in units[f].embedded
    BY <1>2 DEF Embedded
  <2>2. units[f].embedded = {<<h, accepted.text[h]>> :
            h \in {c \in accepted.calls[f] : accepted.text[c].template}}
    BY <1>4 DEF UpToDate
  <2> QED
    BY <2>1, <2>2
<1>7. ~CalledRemoved(f)
  <2> SUFFICES ASSUME NEW g \in accepted.calls[f], g \in accepted.reachable
               PROVE  g \in Present
    BY DEF CalledRemoved, RemovedReachable
  <2>1. ~accepted.text[g].template
    BY <1>3 DEF CodeInv
  <2>2. <<g, units[g].module>> \in units[f].binds
    BY <1>4, <2>1 DEF UpToDate
  <2>3. g \in Runtime(f)
    BY <1>2, <2>2
  <2> QED
    BY <2>3, DependenciesPresent DEF Runtime
<1> QED
  BY <1>3, <1>5, <1>6, <1>7 DEF Seeds

\* The plan emits nothing that is not affected.
LEMMA EmittedAffected ==
    ASSUME PatchTypeOK, CodeInv, Resolves
    PROVE  Emitted \subseteq Affected(CurrentGraph)
<1> DEFINE edges == [f \in Reachable |->
                        CurrentGraph.component[f] \union CurrentGraph.callers[f]]
           affected == Affected(CurrentGraph)
<1>1. Emitted = Reached(Seeds(CurrentGraph), edges)
  BY DEF Emitted, PlanPatch, AffectedClosure, Reachable
<1>2. Seeds(CurrentGraph) \subseteq Reachable
  BY DEF Seeds, Reachable
<1>3. Seeds(CurrentGraph) \subseteq affected
  BY <1>2, SeedsOutOfDate, AffectedFacts
<1>4. affected \subseteq Reachable
  BY AffectedFacts
<1>5. ASSUME NEW f \in affected
      PROVE  edges[f] \subseteq affected
  <2>1. edges[f] = CurrentGraph.component[f] \union CurrentGraph.callers[f]
    BY <1>4
  <2>2. CurrentGraph.callers[f] \subseteq affected
    BY <1>4, AffectedEdges, AffectedFacts
  <2> QED
    BY <2>1, <2>2, PeersAffected
<1>6. Closed(affected, edges)
  BY <1>5 DEF Closed
<1>7. DOMAIN edges = Reachable
  OBVIOUS
<1> HIDE DEF edges, affected
<1>8. Reached(Seeds(CurrentGraph), edges) \subseteq affected
  BY <1>3, <1>4, <1>6, <1>7, ReachedLeast
<1> QED
  BY <1>1, <1>8 DEF affected

\* A warm edit emits only the affected reverse-caller closure: no step gives
\* new code to a function whose own code is current and that calls, directly
\* or not, no function whose code is not.
THEOREM EmissionIsExact == Spec => EmitsOnlyAffected
<1>1. PatchTypeOK /\ CodeInv /\ [Next]_vars
        => [units' # units =>
              {f \in Functions : units'[f] # units[f] /\ units'[f] # NoUnit}
                  \subseteq Affected(CurrentGraph)]_vars
  <2> SUFFICES ASSUME PatchTypeOK, CodeInv, Next, units' # units,
                      NEW f \in Functions, units'[f] # units[f], units'[f] # NoUnit
               PROVE  f \in Affected(CurrentGraph)
    OBVIOUS
  <2>1. CASE Compile
    BY <2>1, CompileEffect, EmittedAffected
  <2>2. CASE Edit
    BY <2>2 DEF Edit
  <2> QED
    BY <2>1, <2>2 DEF Next
<1> QED
  BY <1>1, PatchTypes, CodeInvariance, PTL DEF Spec, EmitsOnlyAffected
=============================================================================
