--------------------------- MODULE ExecutionGroups ---------------------------
(***************************************************************************)
(* _build_execution_groups (backend/core/pipeline_engine.py): Kahn's       *)
(* algorithm over the depends_on lists of a pipeline, which may repeat an  *)
(* index, name the step itself or lie out of range, with the sequential    *)
(* fallback for lists without dependencies and for cycles.  One action is  *)
(* one turn of a loop.                                                     *)
(***************************************************************************)
EXTENDS Integers, Sequences, PipelineSteps, SequencesExt

VARIABLES
  steps,      \* the argument
  in_degree,  \* dependencies of each step not yet in a group
  dependents, \* the steps to release when a step is placed, in order
  groups,     \* the groups so far, as lists
  visited,    \* how many steps they have
  ready,      \* the next group
  next_ready, \* the members of the group after it
  stage,      \* the loop the function is in
  pos,        \* where: list and entry, or member of ready and dependent
  returned    \* what the function returned

lists == <<in_degree, dependents>>
placed == <<groups, visited, ready, next_ready>>
buildVars == <<steps, lists, placed, stage, pos, returned>>

BuildInit ==
  /\ steps \in Pipelines
  /\ in_degree = [i \in Index(steps) |-> 0]
  /\ dependents = [d \in Index(steps) |-> <<>>]
  /\ groups = <<>> /\ visited = 0 /\ ready = <<>> /\ next_ready = <<>>
  /\ stage = "depends" /\ pos = <<1, 1>>
  /\ returned = <<>>

\* Mutant: a step that names itself waits for itself.
CountsMutant(i, d) == d \in Index(steps)

\* A step is no dependency of itself, an index out of range is ignored.
Counts(i, d) == d \in Index(steps) \ {i}

\* An entry of the depends_on list of a step.
Depend ==
  LET i == pos[1]
      d == steps.depends_on[i][pos[2]]
  IN
  /\ stage = "depends" /\ i \in Index(steps) /\ pos[2] \in DOMAIN steps.depends_on[i]
  /\ IF Counts(i, d)
     THEN /\ in_degree' = [in_degree EXCEPT ![i] = @ + 1]
          /\ dependents' = [dependents EXCEPT ![d] = Append(@, i)]
     ELSE UNCHANGED lists
  /\ pos' = <<i, pos[2] + 1>>
  /\ UNCHANGED <<steps, placed, stage, returned>>

NextList ==
  /\ stage = "depends" /\ pos[1] \in Index(steps)
  /\ pos[2] \notin DOMAIN steps.depends_on[pos[1]]
  /\ pos' = <<pos[1] + 1, 1>>
  /\ UNCHANGED <<steps, lists, placed, stage, returned>>

OnePerGroup == [k \in Index(steps) |-> <<k>>]

NoDependencies ==
  /\ stage = "depends" /\ pos[1] \notin Index(steps) /\ ~Explicit(steps)
  /\ returned' = OnePerGroup /\ stage' = "returned"
  /\ UNCHANGED <<steps, lists, placed, pos>>

Declared ==
  /\ stage = "depends" /\ pos[1] \notin Index(steps) /\ Explicit(steps)
  /\ stage' = "roots" /\ pos' = <<1, 1>>
  /\ UNCHANGED <<steps, lists, placed, returned>>

\* The first ready list: the steps with nothing to wait for, in order.
Root ==
  /\ stage = "roots" /\ pos[1] \in Index(steps)
  /\ ready' = IF in_degree[pos[1]] = 0 THEN Append(ready, pos[1]) ELSE ready
  /\ pos' = <<pos[1] + 1, 1>>
  /\ UNCHANGED <<steps, lists, groups, visited, next_ready, stage, returned>>

RootsEnd ==
  /\ stage = "roots" /\ pos[1] \notin Index(steps)
  /\ stage' = "while"
  /\ UNCHANGED <<steps, lists, placed, pos, returned>>

\* The ready list is a group.
TakeReady ==
  /\ stage = "while" /\ ready # <<>>
  /\ groups' = Append(groups, ready)
  /\ visited' = visited + Len(ready)
  /\ next_ready' = <<>>
  /\ stage' = "for" /\ pos' = <<1, 1>>
  /\ UNCHANGED <<steps, lists, ready, returned>>

\* A dependent of a member of the ready list has one step less to wait for.
Release ==
  LET deps == dependents[ready[pos[1]]]
      d == deps[pos[2]]
  IN
  /\ stage = "for" /\ pos[1] \in DOMAIN ready /\ pos[2] \in DOMAIN deps
  /\ in_degree' = [in_degree EXCEPT ![d] = @ - 1]
  /\ next_ready' = IF in_degree'[d] = 0 THEN Append(next_ready, d) ELSE next_ready
  /\ pos' = <<pos[1], pos[2] + 1>>
  /\ UNCHANGED <<steps, dependents, groups, visited, ready, stage, returned>>

NextMember ==
  /\ stage = "for" /\ pos[1] \in DOMAIN ready
  /\ pos[2] \notin DOMAIN dependents[ready[pos[1]]]
  /\ pos' = <<pos[1] + 1, 1>>
  /\ UNCHANGED <<steps, lists, placed, stage, returned>>

\* What the group released is the next ready list.
ForEnds ==
  /\ stage = "for" /\ pos[1] \notin DOMAIN ready
  /\ ready' = next_ready
  /\ stage' = "while"
  /\ UNCHANGED <<steps, lists, groups, visited, next_ready, pos, returned>>

\* Mutant: the function waits until every step is placed.
BuildReturnMutant ==
  /\ stage = "while" /\ ready = <<>> /\ visited = Len(steps.depends_on)
  /\ returned' = groups /\ stage' = "returned"
  /\ UNCHANGED <<steps, lists, placed, pos>>

\* Steps that were never ready are on a cycle, or wait for one.
BuildReturn ==
  /\ stage = "while" /\ ready = <<>>
  /\ returned' = IF visited < Len(steps.depends_on) THEN OnePerGroup ELSE groups
  /\ stage' = "returned"
  /\ UNCHANGED <<steps, lists, placed, pos>>

BuildNext ==
  \/ Depend \/ NextList \/ NoDependencies \/ Declared
  \/ Root \/ RootsEnd
  \/ TakeReady \/ Release \/ NextMember \/ ForEnds
  \/ BuildReturn

BuildSpec == BuildInit /\ [][BuildNext]_buildVars /\ WF_buildVars(BuildNext)

-----------------------------------------------------------------------------

\* The groups are those of the definition: every step once, in the group
\* right after the last of its dependencies, and one step per group when
\* nothing is declared or the declarations contain a cycle.
ComputesGroups ==
  stage = "returned" =>
    [k \in DOMAIN returned |-> ToSet(returned[k])] = Groups(steps)

\* The function returns, cycle or not.
Returns == <>(stage = "returned")
=============================================================================
