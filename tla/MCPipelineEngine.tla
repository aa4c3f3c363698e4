-------------------------- MODULE MCPipelineEngine --------------------------
(***************************************************************************)
(* Instances of PipelineEngine.  Steps count from 1, as in PipelineSteps.  *)
(***************************************************************************)
EXTENDS PipelineEngine, TLC

Pipeline(depends_on, confirm) == [depends_on |-> depends_on, confirm |-> confirm]

Chain == <<<<>>, <<>>, <<>>>>       \* nothing declared: one after the other
Join == <<<<>>, <<>>, <<1, 2>>>>    \* the last step needs both others
Fork == <<<<>>, <<1>>, <<1>>>>      \* both others need the first step
Late == <<<<>>, <<3>>, <<>>>>       \* the second step waits for the third

\* In Late the order of the groups is not that of the indices.
ByIndex == {Pipeline(d, c) : d \in {Chain, Join, Fork}, c \in SUBSET (1..3)}
AllPipelines == ByIndex \cup {Pipeline(Late, c) : c \in SUBSET (1..3)}

\* In the second list the dependency is out of range and ignored, so the two
\* steps form one group.
Pairs == {Pipeline(d, c) : d \in {<<<<>>, <<>>>>, <<<<>>, <<9>>>>},
                           c \in {{1}, {2}, {1, 2}}}
Swap == Permutations(Requests)
TwoSteps == {Pipeline(<<<<>>, <<>>>>, {1, 2})}
=============================================================================
