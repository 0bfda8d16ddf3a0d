------------------------ MODULE WorkflowRulesProofs ------------------------
(***************************************************************************)
(* The verdict of validate_graph is exact for workflows of any size.       *)
(***************************************************************************)
EXTENDS WorkflowRules, FiniteSetTheorems, TLAPS

TypeInv ==
    /\ phase \in {"stages", "graph", "cycle", "bindings", "run", "refused"}
    /\ stages \subseteq Stages
    /\ dependsOn \in [Stages -> SUBSET Stages]
    /\ inputs \in [Stages -> SUBSET Artifacts]
    /\ outputs \in [Stages -> SUBSET Artifacts]
    /\ dependencies \in [Stages -> SUBSET Stages]

\* Every nonempty set of visited stages has one that depends on none of them.
Ordered(V) == \A S \in SUBSET V : S # {} => \E s \in S : Edges(s) \cap S = {}

\* What the loop of validate_graph keeps true.
LoopInv ==
    /\ WellFormed(producer)
    /\ popped \subseteq stages
    /\ visited = Cardinality(popped)
    /\ \A s \in stages : dependencies[s] = Edges(s) \ popped
    /\ \A s \in popped : Edges(s) \subseteq popped
    /\ ready = {s \in stages \ popped : Edges(s) \subseteq popped}
    /\ Ordered(popped)

PhaseInv ==
    /\ phase = "stages" => popped = {} /\ visited = 0
    /\ phase \in {"stages", "graph", "cycle", "bindings"} => succeeded = {}
    /\ phase \in {"graph", "cycle", "bindings", "run"} => LoopInv
    /\ phase = "cycle" => ready = {} /\ popped # stages
    /\ phase \in {"bindings", "run"} => popped = stages
    /\ phase = "run" => bound = Externals /\ succeeded \subseteq stages

IInv == TypeInv /\ PhaseInv

-----------------------------------------------------------------------------
(* The graph.                                                              *)

\* The runtime's dependencies are the edges of the validated graph.
LEMMA SameEdges ==
    ASSUME TypeInv, WellFormed(producer), NEW s \in stages
    PROVE  RunDependencies(s) = Edges(s)
<1>1. ASSUME NEW t \in RunDependencies(s) PROVE t \in Edges(s)
  <2>1. CASE t \in dependsOn[s]
    BY <2>1 DEF Edges
  <2>2. CASE t \notin dependsOn[s]
    <3>1. PICK a \in inputs[s] : t = producer[a] /\ t # None
      BY <1>1, <2>2 DEF RunDependencies
    <3>2. a \in DOMAIN producer /\ t \in stages
      BY <3>1 DEF WellFormed
    <3>3. a \in outputs[t]
      BY <3>1, <3>2 DEF WellFormed
    <3>4. QED
      BY <3>1, <3>2, <3>3 DEF Edges
  <2>3. QED
    BY <2>1, <2>2
<1>2. ASSUME NEW t \in Edges(s) PROVE t \in RunDependencies(s)
  <2>1. CASE t \in dependsOn[s]
    BY <2>1 DEF RunDependencies
  <2>2. CASE t \notin dependsOn[s]
    <3>1. t \in stages /\ (\E a \in inputs[s] : a \in outputs[t])
      BY <1>2, <2>2 DEF Edges
    <3>2. PICK a \in inputs[s] : a \in outputs[t]
      BY <3>1
    <3>3. a \in DOMAIN producer
      BY DEF WellFormed
    <3>4. producer[a] = t /\ t # None
      BY <3>1, <3>2, <3>3, NamesAssumption DEF WellFormed, TypeInv
    <3>5. QED
      BY <3>2, <3>4 DEF RunDependencies
  <2>3. QED
    BY <2>1, <2>2
<1>3. QED
  BY <1>1, <1>2

\* Edges lead to stages of the workflow.
LEMMA EdgesInside ==
    ASSUME WellFormed(producer), NEW s \in stages
    PROVE  Edges(s) \subseteq stages
BY DEF WellFormed, Edges

\* Visiting a stage whose predecessors are all visited keeps the order.
LEMMA OrderedStep ==
    ASSUME NEW V, NEW p, p \notin V, Ordered(V),
           Edges(p) \subseteq V, \A s \in V : Edges(s) \subseteq V
    PROVE  Ordered(V \cup {p})
<1> SUFFICES ASSUME NEW S \in SUBSET (V \cup {p}), S # {}
             PROVE  \E s \in S : Edges(s) \cap S = {}
  BY DEF Ordered
<1>1. CASE p \notin S
  <2>1. S \in SUBSET V
    BY <1>1
  <2>2. QED
    BY <2>1 DEF Ordered
<1>2. CASE S = {p}
  BY <1>2
<1>3. CASE p \in S /\ S # {p}
  <2>1. S \ {p} \in SUBSET V /\ S \ {p} # {}
    BY <1>3
  <2>2. PICK s \in S \ {p} : Edges(s) \cap (S \ {p}) = {}
    BY <2>1 DEF Ordered
  <2>3. p \notin Edges(s)
    BY <2>1, <2>2
  <2>4. QED
    BY <2>2, <2>3
<1>4. QED
  BY <1>1, <1>2, <1>3

\* The stages of a workflow are finitely many.
LEMMA FiniteStages == TypeInv => IsFiniteSet(stages)
BY FS_Subset, NamesAssumption DEF TypeInv

-----------------------------------------------------------------------------
(* The invariant.                                                          *)

LEMMA InitInv == Init => IInv
<1> SUFFICES ASSUME Init PROVE IInv
  OBVIOUS
<1>1. TypeInv
  BY DEF Init, TypeInv
<1>2. PhaseInv
  BY DEF Init, PhaseInv
<1>3. QED
  BY <1>1, <1>2 DEF IInv

LEMMA RefuseInv == IInv /\ Refuse => IInv'
<1> SUFFICES ASSUME IInv, Refuse PROVE IInv'
  OBVIOUS
<1>1. TypeInv'
  BY DEF IInv, TypeInv, Refuse, description, graph
<1>2. PhaseInv'
  BY DEF IInv, PhaseInv, Refuse, description, graph
<1>3. QED
  BY <1>1, <1>2 DEF IInv

LEMMA ReadStageInv == ASSUME NEW s \in Stages PROVE IInv /\ ReadStage(s) => IInv'
<1> SUFFICES ASSUME IInv, ReadStage(s) PROVE IInv'
  OBVIOUS
<1>1. CASE Refuse
  BY <1>1, RefuseInv
<1>2. CASE ~Refuse
  <2>1. PICK d \in SUBSET Stages, i \in SUBSET Artifacts, o \in SUBSET Artifacts :
           /\ stages' = stages \cup {s}
           /\ dependsOn' = [dependsOn EXCEPT ![s] = d]
           /\ inputs' = [inputs EXCEPT ![s] = i]
           /\ outputs' = [outputs EXCEPT ![s] = o]
           /\ UNCHANGED <<phase, producer, graph, bound, succeeded>>
    BY <1>2 DEF ReadStage
  <2>2. TypeInv'
    BY <2>1 DEF IInv, TypeInv, graph
  <2>3. PhaseInv'
    BY <2>1 DEF IInv, PhaseInv, ReadStage, graph
  <2>4. QED
    BY <2>2, <2>3 DEF IInv
<1>3. QED
  BY <1>1, <1>2

LEMMA ReadWorkflowInv == IInv /\ ReadWorkflow => IInv'
<1> SUFFICES ASSUME IInv, ReadWorkflow PROVE IInv'
  OBVIOUS
<1>1. CASE Refuse
  BY <1>1, RefuseInv
<1>2. CASE ~Refuse
  <2>1. PICK p \in Declarations :
           /\ WellFormed(p)
           /\ phase' = "graph"
           /\ producer' = p
           /\ dependencies' =
                 [s \in Stages |-> IF s \in stages THEN Edges(s) ELSE {}]
           /\ ready' = {s \in stages : Edges(s) = {}}
           /\ UNCHANGED <<description, popped, visited, bound, succeeded>>
    BY <1>2 DEF ReadWorkflow
  <2>2. /\ phase = "stages" /\ popped = {} /\ visited = 0 /\ succeeded = {}
    BY DEF ReadWorkflow, IInv, PhaseInv
  <2>3. \A s \in stages : Edges(s) \subseteq stages
    BY <2>1 DEF WellFormed, Edges
  <2>4. TypeInv'
    BY <2>1, <2>3 DEF IInv, TypeInv, description
  <2>5. \A s : Edges(s)' = Edges(s)
    BY <2>1 DEF Edges, description
  <2>6. LoopInv'
    <3>1. WellFormed(producer)'
      BY <2>1 DEF WellFormed, description
    <3>2. visited' = Cardinality(popped')
      BY <2>1, <2>2, FS_EmptySet
    <3>3. \A s \in stages' : dependencies'[s] = Edges(s)' \ popped'
      BY <2>1, <2>2, <2>5 DEF description, IInv, TypeInv
    <3>4. ready' = {s \in stages' \ popped' : Edges(s)' \subseteq popped'}
      BY <2>1, <2>2, <2>5 DEF description
    <3>5. Ordered(popped)'
      BY <2>1, <2>2 DEF Ordered
    <3>6. QED
      BY <2>1, <2>2, <3>1, <3>2, <3>3, <3>4, <3>5 DEF LoopInv
  <2>7. PhaseInv'
    BY <2>1, <2>2, <2>6 DEF PhaseInv
  <2>8. QED
    BY <2>4, <2>7 DEF IInv
<1>3. QED
  BY <1>1, <1>2

\* One turn of the loop: the visited stage had no predecessor left, so those
\* that become ready are exactly those whose predecessors are now visited.
LEMMA VisitInv == ASSUME NEW s \in Stages PROVE IInv /\ Visit(s) => IInv'
<1> SUFFICES ASSUME IInv, Visit(s) PROVE IInv'
  OBVIOUS
<1>1. LoopInv /\ phase = "graph" /\ s \in ready /\ TypeInv
  BY DEF Visit, IInv, PhaseInv
<1>2. s \in stages /\ s \notin popped /\ Edges(s) \subseteq popped
  BY <1>1 DEF LoopInv
<1>3. \A t : Edges(t)' = Edges(t)
  BY DEF Visit, description, Edges
<1>4. TypeInv'
  BY <1>1 DEF Visit, TypeInv, description
<1>5. popped' = popped \cup {s} /\ stages' = stages
  BY DEF Visit, description
<1>6. \A t \in stages' : dependencies'[t] = Edges(t)' \ popped'
  <2> TAKE t \in stages'
  <2>1. t \in Stages /\ t \in stages /\ dependencies[t] = Edges(t) \ popped
    BY <1>1, <1>5 DEF LoopInv, TypeInv
  <2>2. t \in Dependents(s) <=> s \in Edges(t)
    BY <2>1 DEF Dependents
  <2>3. dependencies'[t] = dependencies[t] \ (IF t \in Dependents(s) THEN {s} ELSE {})
    BY <2>1 DEF Visit
  <2>4. CASE s \in Edges(t)
    BY <1>3, <1>5, <2>1, <2>2, <2>3, <2>4
  <2>5. CASE s \notin Edges(t)
    BY <1>3, <1>5, <2>1, <2>2, <2>3, <2>5
  <2>6. QED
    BY <2>4, <2>5
<1>7. ready' = {t \in stages' \ popped' : Edges(t)' \subseteq popped'}
  <2>1. ready' = (ready \ {s}) \cup {t \in Dependents(s) : dependencies[t] \ {s} = {}}
    BY DEF Visit
  <2>2. ASSUME NEW t \in ready'
        PROVE  t \in stages \ popped' /\ Edges(t) \subseteq popped'
    <3>1. CASE t \in ready \ {s}
      BY <1>1, <1>5, <3>1 DEF LoopInv
    <3>2. CASE t \notin ready \ {s}
      <4>1. t \in stages /\ s \in Edges(t) /\ dependencies[t] \ {s} = {}
        BY <2>1, <2>2, <3>2 DEF Dependents
      <4>2. Edges(t) \subseteq popped'
        BY <1>1, <1>5, <4>1 DEF LoopInv
      <4>3. t \notin popped'
        BY <1>1, <1>2, <1>5, <4>1 DEF LoopInv
      <4>4. QED
        BY <4>1, <4>2, <4>3
    <3>3. QED
      BY <3>1, <3>2
  <2>3. ASSUME NEW t \in stages \ popped', Edges(t) \subseteq popped'
        PROVE  t \in ready'
    <3>1. CASE s \in Edges(t)
      BY <1>1, <1>5, <2>1, <2>3, <3>1 DEF LoopInv, Dependents
    <3>2. CASE s \notin Edges(t)
      BY <1>1, <1>5, <2>1, <2>3, <3>2 DEF LoopInv
    <3>3. QED
      BY <3>1, <3>2
  <2>4. QED
    BY <1>3, <1>5, <2>2, <2>3
<1>8. visited' = Cardinality(popped')
  <2>1. IsFiniteSet(popped)
    BY <1>1, FiniteStages, FS_Subset DEF LoopInv
  <2>2. Cardinality(popped \cup {s}) = Cardinality(popped) + 1
    BY <1>2, <2>1, FS_AddElement
  <2>3. QED
    BY <1>1, <1>5, <2>2 DEF Visit, LoopInv
<1>9. Ordered(popped)'
  <2>1. Ordered(popped \cup {s})
    BY <1>1, <1>2, OrderedStep DEF LoopInv
  <2>2. QED
    BY <1>3, <1>5, <2>1 DEF Ordered
<1>10. WellFormed(producer)' /\ \A t \in popped' : Edges(t)' \subseteq popped'
  <2>1. WellFormed(producer)'
    BY <1>1 DEF LoopInv, Visit, description, WellFormed
  <2>2. \A t \in popped' : Edges(t)' \subseteq popped'
    BY <1>1, <1>2, <1>3, <1>5 DEF LoopInv
  <2>3. QED
    BY <2>1, <2>2
<1>11. LoopInv'
  BY <1>1, <1>2, <1>5, <1>6, <1>7, <1>8, <1>9, <1>10 DEF LoopInv
<1>12. PhaseInv'
  BY <1>1, <1>11 DEF IInv, PhaseInv, Visit
<1>13. QED
  BY <1>4, <1>12 DEF IInv

\* The count of visits decides like the set of visited stages.
LEMMA EndGraphInv == IInv /\ EndGraph => IInv'
<1> SUFFICES ASSUME IInv, EndGraph PROVE IInv'
  OBVIOUS
<1>1. LoopInv /\ TypeInv /\ succeeded = {} /\ ready = {}
  BY DEF EndGraph, IInv, PhaseInv
<1>2. visited = Cardinality(stages) <=> popped = stages
  <2>1. IsFiniteSet(stages) /\ popped \subseteq stages
    BY <1>1, FiniteStages DEF LoopInv
  <2>2. Cardinality(stages) = Cardinality(popped) => stages = popped
    BY <2>1, FS_Subset
  <2>3. QED
    BY <1>1, <2>2 DEF LoopInv
<1>3. TypeInv'
  BY <1>1 DEF EndGraph, TypeInv, description, graph
<1>4. LoopInv'
  <2>1. \A t : Edges(t)' = Edges(t)
    BY DEF EndGraph, description, Edges
  <2>2. WellFormed(producer)' /\ Ordered(popped)'
    BY <1>1, <2>1 DEF EndGraph, description, graph, WellFormed, Ordered, LoopInv
  <2>3. QED
    BY <1>1, <2>1, <2>2 DEF LoopInv, EndGraph, description, graph
<1>5. PhaseInv'
  BY <1>1, <1>2, <1>4 DEF PhaseInv, EndGraph, description, graph
<1>6. QED
  BY <1>3, <1>5 DEF IInv

\* The graph is left alone once it has been validated.
LEMMA LoopInvKept ==
    ASSUME LoopInv, UNCHANGED <<description, producer, graph>>
    PROVE  LoopInv' /\ Externals' = Externals
<1>1. \A t : Edges(t)' = Edges(t)
  BY DEF description, Edges
<1>2. WellFormed(producer)' /\ Ordered(popped)'
  BY <1>1 DEF description, graph, WellFormed, Ordered, LoopInv
<1>3. LoopInv'
  BY <1>1, <1>2 DEF LoopInv, description, graph
<1>4. Externals' = Externals
  BY DEF Externals, Produced, Consumed, description
<1>5. QED
  BY <1>3, <1>4

LEMMA ReadBindingsInv == IInv /\ ReadBindings => IInv'
<1> SUFFICES ASSUME IInv, ReadBindings PROVE IInv'
  OBVIOUS
<1>1. CASE Refuse
  BY <1>1, RefuseInv
<1>2. CASE ~Refuse
  <2>1. /\ phase' = "run" /\ bound' = Externals
        /\ UNCHANGED <<description, producer, graph, succeeded>>
    BY <1>2 DEF ReadBindings
  <2>2. LoopInv /\ TypeInv /\ succeeded = {} /\ popped = stages
    BY DEF ReadBindings, IInv, PhaseInv
  <2>3. TypeInv'
    BY <2>1, <2>2 DEF TypeInv, description, graph
  <2>4. LoopInv' /\ Externals' = Externals
    BY <2>1, <2>2, LoopInvKept
  <2>5. PhaseInv'
    BY <2>1, <2>2, <2>4 DEF PhaseInv, description, graph
  <2>6. QED
    BY <2>3, <2>5 DEF IInv
<1>3. QED
  BY <1>1, <1>2

LEMMA SucceedInv == ASSUME NEW s \in Stages PROVE IInv /\ Succeed(s) => IInv'
<1> SUFFICES ASSUME IInv, Succeed(s) PROVE IInv'
  OBVIOUS
<1>1. LoopInv /\ TypeInv /\ phase = "run" /\ popped = stages
      /\ bound = Externals /\ succeeded \subseteq stages
  BY DEF Succeed, IInv, PhaseInv
<1>2. TypeInv'
  BY <1>1 DEF Succeed, TypeInv, description, graph
<1>3. LoopInv' /\ Externals' = Externals
  BY <1>1, LoopInvKept DEF Succeed
<1>4. PhaseInv'
  BY <1>1, <1>3 DEF PhaseInv, Succeed, Startable, description, graph
<1>5. QED
  BY <1>2, <1>4 DEF IInv

LEMMA NextInv == IInv /\ [Next]_vars => IInv'
<1> SUFFICES ASSUME IInv, [Next]_vars PROVE IInv'
  OBVIOUS
<1>1. CASE UNCHANGED vars
  <2>1. TypeInv'
    BY <1>1 DEF IInv, TypeInv, vars, description, graph
  <2>2. LoopInv => LoopInv'
    BY <1>1, LoopInvKept DEF vars
  <2>3. Externals' = Externals
    BY <1>1 DEF vars, description, Externals, Produced, Consumed
  <2>4. PhaseInv'
    BY <1>1, <2>2, <2>3 DEF IInv, PhaseInv, vars, description, graph
  <2>5. QED
    BY <2>1, <2>4 DEF IInv
<1>2. QED
  BY <1>1, ReadStageInv, ReadWorkflowInv, VisitInv, EndGraphInv,
     ReadBindingsInv, SucceedInv DEF Next

THEOREM InvHolds == Spec => []IInv
BY InitInv, NextInv, PTL DEF Spec

-----------------------------------------------------------------------------
(* What follows.                                                           *)

\* Stages that are never visited each wait for another of them.
LEMMA CycleFound == IInv => RefusedForCause
<1> SUFFICES ASSUME IInv, phase = "cycle"
             PROVE  \E S \in SUBSET stages : WaitInCircle(S)
  BY DEF RefusedForCause
<1>1. LoopInv /\ TypeInv /\ ready = {} /\ popped # stages
  BY DEF IInv, PhaseInv
<1> DEFINE S == stages \ popped
<1>2. S \subseteq stages /\ S # {}
  BY <1>1 DEF LoopInv
<1>3. ASSUME NEW s \in S PROVE RunDependencies(s) \cap S # {}
  <2>1. ~(Edges(s) \subseteq popped)
    BY <1>1 DEF LoopInv
  <2>2. Edges(s) \subseteq stages
    BY <1>1, EdgesInside DEF LoopInv
  <2>3. RunDependencies(s) = Edges(s)
    BY <1>1, SameEdges DEF LoopInv
  <2>4. QED
    BY <2>1, <2>2, <2>3
<1>4. WITNESS S \in SUBSET stages
<1>5. QED
  BY <1>2, <1>3 DEF WaitInCircle

\* Of the stages that have not run, one depends on none of them; its inputs
\* are bound, or outputs of stages that have run.
LEMMA SomeStartable == IInv => NeverStuck
<1> SUFFICES ASSUME IInv, phase = "run", succeeded # stages
             PROVE  Startable # {}
  BY DEF NeverStuck
<1>1. LoopInv /\ TypeInv /\ popped = stages /\ bound = Externals
      /\ succeeded \subseteq stages
  BY DEF IInv, PhaseInv
<1>2. PICK s \in stages \ succeeded : Edges(s) \cap (stages \ succeeded) = {}
  <2>1. stages \ succeeded \in SUBSET popped /\ stages \ succeeded # {}
    BY <1>1
  <2>2. QED
    BY <1>1, <2>1 DEF LoopInv, Ordered
<1>3. Edges(s) \subseteq succeeded
  BY <1>1, <1>2, EdgesInside DEF LoopInv
<1>4. RunDependencies(s) \subseteq succeeded
  BY <1>1, <1>2, <1>3, SameEdges DEF LoopInv
<1>5. ASSUME NEW a \in inputs[s] PROVE a \in Available
  <2>1. CASE \E t \in stages : a \in outputs[t]
    <3>1. PICK t \in stages : a \in outputs[t]
      BY <2>1
    <3>2. t \in succeeded
      BY <1>2, <1>3, <1>5, <3>1 DEF Edges
    <3>3. QED
      BY <3>1, <3>2 DEF Available
  <2>2. CASE ~\E t \in stages : a \in outputs[t]
    <3>1. stages # {} /\ a \in Consumed /\ a \notin Produced
      BY <1>2, <1>5, <2>2 DEF Consumed, Produced
    <3>2. QED
      BY <1>1, <3>1 DEF Externals, Available
  <2>3. QED
    BY <2>1, <2>2
<1>6. s \in Startable
  BY <1>2, <1>4, <1>5 DEF Startable
<1>7. QED
  BY <1>6

\* The verdict of the validation is exact for any number of stages and
\* artifacts: a workflow refused for a cycle has stages that wait for one
\* another in a circle, and an accepted scenario runs to its end without ever
\* being stuck (WorkflowSpec.validate_graph, ScenarioSpec.validate_references
\* and the dependencies Runtime._build derives).
THEOREM VerdictCorrect == Spec => []VerdictExact
<1>1. IInv => VerdictExact
  BY CycleFound, SomeStartable DEF VerdictExact
<1>2. QED
  BY <1>1, InvHolds, PTL
=============================================================================
