-------------------------- MODULE MCWorkflowEngine --------------------------
(***************************************************************************)
(* Workflow definitions for model checking WorkflowEngine: every DAG over  *)
(* four nodes, and hand-made graphs with branches, joins behind branches   *)
(* and edges listed in an unhelpful order.                                 *)
(***************************************************************************)
EXTENDS WorkflowEngine, SequencesExt

CONSTANTS n1, n2, n3, n4, n5, yes, no, none

MCNode == {n1, n2, n3, n4, n5}
MCLabel == {yes, no}

E(s, t) == [source |-> s, target |-> t, label |-> none]
EL(s, t, l) == [source |-> s, target |-> t, label |-> l]

Wf(nodes, edges, conditions) ==
  [nodes |-> nodes, edges |-> edges, conditions |-> conditions]

Diamond == Wf(<<n1, n2, n3, n4>>,
              <<E(n1, n2), E(n1, n3), E(n2, n4), E(n3, n4)>>, {})

\* A join two steps behind one branch and one behind the other.
BranchJoin == Wf(<<n1, n2, n3, n4, n5>>,
                 <<EL(n1, n2, yes), EL(n1, n3, no), E(n3, n4), E(n2, n5), E(n4, n5)>>, {n1})

\* The branch n2 turns away from n4, which n3 leads to; n5 waits for both.
Revival == Wf(<<n1, n2, n3, n4, n5>>,
              <<E(n1, n2), E(n1, n3), EL(n2, n4, no), EL(n2, n5, yes), E(n3, n4), E(n4, n5)>>,
              {n2})

\* The edges of a condition listed in the other order.
EdgeOrder == Wf(<<n1, n2, n3>>, <<EL(n1, n3, yes), EL(n1, n2, no), E(n2, n3)>>, {n1})

TwoStarts == Wf(<<n1, n2, n3>>, <<E(n1, n3), E(n2, n3)>>, {})

\* The pairs of four nodes in topological order, and edges built from them.
Pairs == <<<<n1, n2>>, <<n1, n3>>, <<n1, n4>>, <<n2, n3>>, <<n2, n4>>, <<n3, n4>>>>
PairSet == {Pairs[i] : i \in DOMAIN Pairs}
Four == <<n1, n2, n3, n4>>

\* Every DAG over four nodes, its edges listed forwards and backwards.
Dags ==
  LET EdgesOf(ps) ==
        LET Test(p) == p \in ps
            chosen == SelectSeq(Pairs, Test)
        IN [i \in DOMAIN chosen |-> E(chosen[i][1], chosen[i][2])]
  IN UNION {{Wf(Four, EdgesOf(ps), {}), Wf(Four, Reverse(EdgesOf(ps)), {})} :
              ps \in SUBSET PairSet}

\* The same with n2 a condition, its edges unlabelled or on one of two branches.
Branchings ==
  LET EdgesOf(ps, lab) ==
        LET Test(p) == p \in ps
            chosen == SelectSeq(Pairs, Test)
        IN [i \in DOMAIN chosen |->
              EL(chosen[i][1], chosen[i][2],
                 IF chosen[i][1] = n2 THEN lab[chosen[i][2]] ELSE none)]
  IN UNION {{Wf(Four, EdgesOf(ps, lab), {n2}), Wf(Four, Reverse(EdgesOf(ps, lab)), {n2})} :
              <<ps, lab>> \in (SUBSET PairSet) \X [{n3, n4} -> {yes, no, none}]}

FaultGraphs == {Diamond, BranchJoin, Revival, EdgeOrder, TwoStarts}
AllGraphs == Dags \cup Branchings \cup FaultGraphs

\* Faults and retries happen on the hand-made graphs only.
GraphFaults == [w \in AllGraphs |-> IF w \in FaultGraphs THEN 2 ELSE 0]
GraphRetries == [w \in AllGraphs |-> IF w \in FaultGraphs THEN 1 ELSE 0]
=============================================================================
