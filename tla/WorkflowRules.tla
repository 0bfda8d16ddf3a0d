--------------------------- MODULE WorkflowRules ---------------------------
(***************************************************************************)
(* Which workflows a scenario accepts, and why the accepted ones can run.  *)
(* The models refuse a stage (StageSpec.validate_lists), a workflow        *)
(* (WorkflowSpec.validate_graph) or a request's bindings                   *)
(* (ScenarioSpec.validate_references) with a reason; what remains is       *)
(* handed to the runtime, which derives the dependencies a second time,    *)
(* from the declared producers, and starts a stage when they are done.     *)
(*                                                                         *)
(* Identifiers are unique here: sets stand for the lists.  validate_graph  *)
(* keeps the ready stages in a list; any of them may be popped.            *)
(***************************************************************************)
EXTENDS Integers, FiniteSets

CONSTANTS
    Stages,         \* the stage names a description may use
    Artifacts,      \* the artifact names it may use
    None            \* no producer

ASSUME NamesAssumption ==
    /\ IsFiniteSet(Stages)
    /\ None \notin Stages

VARIABLES
    phase,          \* what is being validated, then "run"; or why it ended
    stages,         \* the stages accepted so far
    dependsOn,      \* their explicit predecessors
    inputs,         \* the artifacts they consume
    outputs,        \* the artifacts they produce
    producer,       \* producer_stage of each declared artifact
    dependencies,   \* predecessors not visited yet
    ready,          \* the stages without such predecessors, to be visited
    popped,         \* the stages visited; the code only counts them
    visited,        \* that count
    bound,          \* the artifacts a request binds to stored content
    succeeded       \* the stages that have run

description == <<stages, dependsOn, inputs, outputs>>
graph == <<dependencies, ready, popped, visited>>
vars == <<phase, description, producer, graph, bound, succeeded>>

Init ==
    /\ phase = "stages"
    /\ stages = {}
    /\ dependsOn = [s \in Stages |-> {}]
    /\ inputs = [s \in Stages |-> {}]
    /\ outputs = [s \in Stages |-> {}]
    /\ producer = <<>>
    /\ dependencies = [s \in Stages |-> {}]
    /\ ready = {} /\ popped = {} /\ visited = 0
    /\ bound = {}
    /\ succeeded = {}

Refuse ==
    /\ phase' = "refused"
    /\ UNCHANGED <<description, producer, graph, bound, succeeded>>

\* StageSpec.validate_lists: one more stage of the workflow
StageAccepted(s, d, i, o) == s \notin d /\ i \cap o = {}

ReadStage(s) ==
    /\ phase = "stages" /\ s \notin stages
    /\ \E d \in SUBSET Stages, i \in SUBSET Artifacts, o \in SUBSET Artifacts :
          \/ /\ StageAccepted(s, d, i, o)
             /\ stages' = stages \cup {s}
             /\ dependsOn' = [dependsOn EXCEPT ![s] = d]
             /\ inputs' = [inputs EXCEPT ![s] = i]
             /\ outputs' = [outputs EXCEPT ![s] = o]
             /\ UNCHANGED <<phase, producer, graph, bound, succeeded>>
          \/ ~StageAccepted(s, d, i, o) /\ Refuse

\* WorkflowSpec.validate_graph, the references: every name is declared, an
\* artifact has one producer, and the declaration of it agrees
Declarations ==
    UNION {[declared -> Stages \cup {None}] : declared \in SUBSET Artifacts}

WellFormed(p) ==
    /\ \A s \in stages :
          dependsOn[s] \subseteq stages /\ inputs[s] \cup outputs[s] \subseteq DOMAIN p
    /\ \A s, t \in stages : s # t => outputs[s] \cap outputs[t] = {}
    /\ \A a \in DOMAIN p :
          /\ p[a] \in stages \cup {None}
          /\ \A s \in stages : p[a] = s <=> a \in outputs[s]

\* data dependencies count as edges
ExplicitEdges(s) == dependsOn[s] \* variant
Edges(s) == dependsOn[s] \cup {t \in stages : inputs[s] \cap outputs[t] # {}}

ReadWorkflow ==
    /\ phase = "stages"
    /\ \E p \in Declarations :
          \/ /\ WellFormed(p)
             /\ phase' = "graph"
             /\ producer' = p
             /\ dependencies' =
                   [s \in Stages |-> IF s \in stages THEN Edges(s) ELSE {}]
             /\ ready' = {s \in stages : Edges(s) = {}}
             /\ UNCHANGED <<description, popped, visited, bound, succeeded>>
          \/ ~WellFormed(p) /\ Refuse

\* validate_graph, one turn of its loop: `dependents` are the edges turned
\* round, as they were before the loop
Dependents(s) == {t \in stages : s \in Edges(t)}

Visit(s) ==
    /\ phase = "graph" /\ s \in ready
    /\ popped' = popped \cup {s}
    /\ visited' = visited + 1
    /\ dependencies' =
          [t \in Stages |-> dependencies[t] \
                            (IF t \in Dependents(s) THEN {s} ELSE {})]
    /\ ready' = (ready \ {s}) \cup
                {t \in Dependents(s) : dependencies[t] \ {s} = {}}
    /\ UNCHANGED <<phase, description, producer, bound, succeeded>>

EndGraph ==
    /\ phase = "graph" /\ ready = {}
    /\ phase' = IF visited = Cardinality(stages) THEN "bindings" ELSE "cycle"
    /\ UNCHANGED <<description, producer, graph, bound, succeeded>>

\* ScenarioSpec.validate_references: a request binds exactly the inputs no
\* stage produces, to content that is stored somewhere
Consumed == UNION {inputs[s] : s \in stages}
Produced == UNION {outputs[s] : s \in stages}
Externals ==
    IF stages = {} THEN DOMAIN producer \ Produced ELSE Consumed \ Produced

ReadBindings ==
    /\ phase = "bindings"
    /\ \E b \in SUBSET DOMAIN producer, stored \in SUBSET DOMAIN producer :
          \/ /\ b = Externals /\ b \subseteq stored
             /\ phase' = "run"
             /\ bound' = b
             /\ UNCHANGED <<description, producer, graph, succeeded>>
          \/ ~(b = Externals /\ b \subseteq stored) /\ Refuse

\* Runtime._build and the test of _settle_active
RunDependencies(s) == dependsOn[s] \cup ({producer[a] : a \in inputs[s]} \ {None})
Available == bound \cup UNION {outputs[s] : s \in succeeded}
Startable ==
    {s \in stages \ succeeded :
        RunDependencies(s) \subseteq succeeded /\ inputs[s] \subseteq Available}

Succeed(s) ==
    /\ phase = "run" /\ s \in Startable
    /\ succeeded' = succeeded \cup {s}
    /\ UNCHANGED <<phase, description, producer, graph, bound>>

Next ==
    \/ \E s \in Stages : ReadStage(s)
    \/ ReadWorkflow
    \/ \E s \in Stages : Visit(s)
    \/ EndGraph
    \/ ReadBindings
    \/ \E s \in Stages : Succeed(s)

Spec == Init /\ [][Next]_vars

-----------------------------------------------------------------------------
\* stages that each wait for another of them
WaitInCircle(S) ==
    /\ S \subseteq stages /\ S # {}
    /\ \A s \in S : RunDependencies(s) \cap S # {}

\* A workflow is refused for a cycle only when some stages do wait for one
\* another in a circle, whichever order the ready stages were visited in
\* (validate_graph counts visits instead of looking for the cycle).
RefusedForCause == phase = "cycle" => \E S \in SUBSET stages : WaitInCircle(S)

\* An accepted scenario never gets stuck: until all have run, some stage has
\* its predecessors done and its inputs stored or produced, although the
\* runtime takes the dependencies from producer_stage and the validation took
\* them from the outputs.
NeverStuck == phase = "run" => succeeded = stages \/ Startable # {}

\* The verdict of the validation is right both ways: what it refuses for a
\* cycle could not run, what it accepts can always go on.
VerdictExact == RefusedForCause /\ NeverStuck
=============================================================================
