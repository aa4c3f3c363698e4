---------------------------- MODULE PipelineSteps ----------------------------
(***************************************************************************)
(* The typed step list of a pipeline (backend/core/pipeline_engine.py,     *)
(* PipelineStep) and the execution groups its depends_on lists amount to:  *)
(* a step is in the group after the last one it depends on.  This is what  *)
(* _build_execution_groups is meant to compute; ExecutionGroups models how *)
(* it does.  Indices count from 1.                                         *)
(***************************************************************************)
EXTENDS Integers, Sequences, FiniteSetsExt

CONSTANT Pipelines  \* the step lists run_pipeline may be given

\* p.depends_on[i] is the list of step i, p.confirm the steps that require
\* confirmation.
Index(p) == DOMAIN p.depends_on

\* The dependencies that count: a step is no dependency of itself, and an
\* index out of range is ignored.
Dependencies(p, i) ==
  {p.depends_on[i][k] : k \in DOMAIN p.depends_on[i]} \cap (Index(p) \ {i})

\* What run_pipeline makes: lists of integers, and steps marked that exist.
ASSUME PipelineAssumption ==
  \A p \in Pipelines : p.depends_on \in Seq(Seq(Int)) /\ p.confirm \subseteq Index(p)

Explicit(p) == \E i \in Index(p) : p.depends_on[i] # <<>>

Sequential(p) == [k \in Index(p) |-> {k}]

\* The depth of every step, if there is one: a cycle admits none.
Depths(p) ==
  {depth \in [Index(p) -> Index(p)] :
     \A i \in Index(p) :
       depth[i] = IF Dependencies(p, i) = {} THEN 1
                  ELSE 1 + Max({depth[d] : d \in Dependencies(p, i)})}

Groups(p) ==
  IF ~Explicit(p) \/ Depths(p) = {} THEN Sequential(p)
  ELSE LET depth == CHOOSE f \in Depths(p) : TRUE
       IN [k \in 1..Max({depth[i] : i \in Index(p)}) |-> {i \in Index(p) : depth[i] = k}]

\* The steps whose results step i relies on.
Before(p, i) ==
  IF ~Explicit(p) \/ Depths(p) = {} THEN {d \in Index(p) : d < i}
  ELSE Dependencies(p, i)
=============================================================================
