------------------------- MODULE PipelineEngineProofs -------------------------
(***************************************************************************)
(* What PipelineEngine keeps for every step list, every number of          *)
(* requests and every bound: its types, the order of dependent steps, what *)
(* a completed checkpoint says and what the user is asked.                 *)
(*                                                                         *)
(* The groups come first: GroupsLayered says of every step list that each  *)
(* step is in one group, after all it relies on, and GroupsComputed that   *)
(* the loops of _build_execution_groups return exactly these groups.  The  *)
(* last part holds for one request at a time: every pause can be answered, *)
(* a step is repeated only by a failure, and only what the user was asked  *)
(* about is passed on as confirmed.                                        *)
(***************************************************************************)
EXTENDS PipelineEngine, ExecutionGroups, Ranking, WellFoundedInduction, SequenceTheorems,
        FiniteSetTheorems, TLAPS

-----------------------------------------------------------------------------
(* Least and greatest elements *)

Less == {ss \in Nat \X Nat : ss[1] < ss[2]}

LEMMA LessWellFounded == IsWellFoundedOn(Less, Nat)
BY NatLessThanWellFounded, Zenon DEF OpToRel, Less

LEMMA MinFacts ==
  ASSUME NEW S, S \subseteq Nat, S # {}
  PROVE  Min(S) \in S /\ \A y \in S : Min(S) <= y
<1>1. PICK x \in S : \A y \in S : ~ (<<y, x>> \in Less) BY LessWellFounded, WFMin
<1>2. \A y \in S : x <= y
  <2> TAKE y \in S
  <2>1. x \in Nat /\ y \in Nat OBVIOUS
  <2>2. ~ (<<y, x>> \in Less) BY <1>1
  <2>3. ~ (y < x) BY <2>1, <2>2 DEF Less
  <2> QED BY <2>1, <2>3
<1> QED BY <1>2 DEF Min

LEMMA MaxFacts ==
  ASSUME NEW n \in Nat, NEW S, S \subseteq 0..n, S # {}
  PROVE  Max(S) \in S /\ \A y \in S : y <= Max(S)
<1> DEFINE T == {n - x : x \in S}
<1>1. T \subseteq Nat
  <2> SUFFICES ASSUME NEW x \in S PROVE n - x \in Nat BY DEF T
  <2>1. x \in 0..n OBVIOUS
  <2> QED BY <2>1
<1>2. T # {} OBVIOUS
<1>3. Min(T) \in T /\ \A y \in T : Min(T) <= y BY <1>1, <1>2, MinFacts
<1>4. PICK x \in S : Min(T) = n - x BY <1>3
<1>5. \A y \in S : n - y \in T OBVIOUS
<1>6. \A y \in S : x >= y
  <2> TAKE y \in S
  <2>1. x \in 0..n /\ y \in 0..n OBVIOUS
  <2> HIDE DEF T
  <2> QED BY <2>1, <1>3, <1>4, <1>5
<1> QED BY <1>6 DEF Max

-----------------------------------------------------------------------------
(* Execution groups *)

\* A step list as run_pipeline makes it.
StepList(p) == p.depends_on \in Seq(Seq(Int)) /\ p.confirm \subseteq Index(p)

\* What the engine relies on: every step is in exactly one group, after the
\* groups of the steps it relies on.
Layered(p, G) ==
  /\ \E m \in Nat : DOMAIN G = 1..m
  /\ \A k \in DOMAIN G : G[k] \subseteq Index(p)
  /\ \A i \in Index(p) : \E k \in DOMAIN G : i \in G[k]
  /\ \A j, k \in DOMAIN G : \A i \in G[j] \cap G[k] : j = k
  /\ \A k \in DOMAIN G : \A i \in G[k] : \A d \in Before(p, i) :
       \E j \in DOMAIN G : j < k /\ d \in G[j]

LEMMA IndexFacts == ASSUME NEW p, StepList(p) PROVE \E n \in Nat : Index(p) = 1..n
BY DEF StepList, Index

LEMMA SequentialLayered ==
  ASSUME NEW p, StepList(p), ~Explicit(p) \/ Depths(p) = {}
  PROVE  Layered(p, Sequential(p))
<1>1. PICK n \in Nat : Index(p) = 1..n BY IndexFacts
<1>2. \A i : Before(p, i) = {d \in Index(p) : d < i} BY DEF Before
<1> QED BY <1>1, <1>2 DEF Layered, Sequential

\* A step is deeper than what it depends on.
LEMMA DepthFacts ==
  ASSUME NEW p, StepList(p), NEW depth \in Depths(p), NEW i \in Index(p),
         NEW d \in Dependencies(p, i)
  PROVE  depth[d] < depth[i]
<1> DEFINE S == {depth[e] : e \in Dependencies(p, i)}
<1>1. PICK n \in Nat : Index(p) = 1..n BY IndexFacts
<1>2. depth \in [Index(p) -> Index(p)] BY DEF Depths
<1>3. Dependencies(p, i) \subseteq Index(p) BY DEF Dependencies
<1>5. depth[d] \in S OBVIOUS
<1>4. S \subseteq 0..n /\ S # {}
  <2>1. \A e \in Dependencies(p, i) : depth[e] \in 1..n BY <1>1, <1>2, <1>3
  <2>2. \A x \in 1..n : x \in 0..n OBVIOUS
  <2>3. S \subseteq 0..n BY <2>1, <2>2, Zenon
  <2> QED BY <1>5, <2>3
<1>6. depth[i] = 1 + Max(S) BY DEF Depths
<1>7. Max(S) \in S /\ depth[d] <= Max(S) BY <1>4, <1>5, MaxFacts
<1>8. depth[d] \in Nat /\ Max(S) \in Nat BY <1>4, <1>5, <1>7
<1> HIDE DEF S
<1> QED BY <1>6, <1>7, <1>8

LEMMA DepthsLayered ==
  ASSUME NEW p, StepList(p), Explicit(p), Depths(p) # {}
  PROVE  Layered(p, Groups(p))
<1> DEFINE depth == CHOOSE f \in Depths(p) : TRUE
           S == {depth[i] : i \in Index(p)}
           G == Groups(p)
<1>1. depth \in Depths(p) OBVIOUS
<1>2. G = [k \in 1..Max(S) |-> {i \in Index(p) : depth[i] = k}] BY DEF Groups
<1>3. PICK n \in Nat : Index(p) = 1..n BY IndexFacts
<1>4. depth \in [Index(p) -> Index(p)] BY <1>1 DEF Depths
<1>5. S \subseteq 0..n /\ S # {}
  <2>1. PICK i \in Index(p) : TRUE BY DEF Explicit
  <2>2. depth[i] \in S OBVIOUS
  <2> HIDE DEF depth
  <2>3. \A j \in Index(p) : depth[j] \in 1..n BY <1>3, <1>4
  <2> QED BY <2>2, <2>3
<1>6. Max(S) \in S /\ \A y \in S : y <= Max(S) BY <1>5, MaxFacts
<1>7. Max(S) \in Nat BY <1>5, <1>6
<1>8. \A i \in Index(p) : depth[i] \in 1..Max(S)
  <2> TAKE i \in Index(p)
  <2>1. depth[i] \in S OBVIOUS
  <2> HIDE DEF depth, S
  <2>2. depth[i] \in 1..n BY <1>3, <1>4
  <2> QED BY <1>6, <1>7, <2>1, <2>2
<1>9. \A i \in Index(p) : Before(p, i) = Dependencies(p, i) BY DEF Before
<1>10. \A i \in Index(p) : \A d \in Dependencies(p, i) : d \in Index(p) /\ depth[d] < depth[i]
  BY <1>1, DepthFacts DEF Dependencies
<1> HIDE DEF depth, S, G
<1>11. DOMAIN G = 1..Max(S) /\ \A k \in DOMAIN G : G[k] = {i \in Index(p) : depth[i] = k}
  BY <1>2
<1>12. \A k \in DOMAIN G : \A i \in G[k] : \A d \in Before(p, i) :
         \E j \in DOMAIN G : j < k /\ d \in G[j]
  BY <1>8, <1>9, <1>10, <1>11
<1> QED BY <1>7, <1>8, <1>11, <1>12 DEF Layered, G

\* Whatever is declared, cycles included: every step is in one group, after
\* the groups of all the steps whose results it is given.
THEOREM GroupsLayered == ASSUME NEW p, StepList(p) PROVE Layered(p, Groups(p))
BY SequentialLayered, DepthsLayered DEF Groups

-----------------------------------------------------------------------------
(* _build_execution_groups *)

\* A step list as run_pipeline makes it is the argument; indices are positions.
Deps(s) == Dependencies(steps, s)
Entry(i, k) == steps.depends_on[i][k]

\* The first loops have seen entry k of list i.
Seen(i, k) == stage # "depends" \/ i < pos[1] \/ (i = pos[1] /\ k < pos[2])

\* Step s is in group k.
In(s, k) == k \in DOMAIN groups /\ s \in ToSet(groups[k])
Placed(s) == \E k \in DOMAIN groups : In(s, k)

\* An edge is an entry of dependents; it is freed when the loops have passed it.
Edges == {e \in Index(steps) \X Nat : e[2] \in DOMAIN dependents[e[1]]}
Target(e) == dependents[e[1]][e[2]]
Passed(d, m) ==
  \E a \in DOMAIN ready : ready[a] = d /\ (a < pos[1] \/ (a = pos[1] /\ m < pos[2]))
Freed(e) ==
  \/ \E k \in DOMAIN groups : In(e[1], k) /\ (stage = "for" => k < Len(groups))
  \/ stage = "for" /\ Passed(e[1], e[2])
Into(i) == {e \in Edges : Target(e) = i /\ ~Freed(e)}

\* What is in a group or will be in the next one, and what that one is.
Coming == IF stage = "for" THEN next_ready ELSE ready

\* The group a step belongs in: after all it depends on, right after one.
Layer(s, k) ==
  /\ \A d \in Deps(s) : \E j \in 1..(k - 1) : In(d, j)
  /\ k # 1 => \E d \in Deps(s) : In(d, k - 1)

Distinct(q) == \A a, b \in DOMAIN q : q[a] = q[b] => a = b

BuildTypes ==
  /\ steps \in Pipelines
  /\ in_degree \in [Index(steps) -> Int]
  /\ dependents \in [Index(steps) -> Seq(Index(steps))]
  /\ groups \in Seq(Seq(Index(steps)))
  /\ visited \in Nat
  /\ ready \in Seq(Index(steps)) /\ next_ready \in Seq(Index(steps))
  /\ stage \in {"depends", "roots", "while", "for", "returned"}
  /\ pos \in (Nat \ {0}) \X (Nat \ {0})
  /\ stage \in {"roots", "while", "for"} => Explicit(steps)

\* dependents has the declared dependencies the first loops have seen.
Recorded ==
  \A i, d \in Index(steps) :
    i \in ToSet(dependents[d])
      <=> i # d /\ \E k \in DOMAIN steps.depends_on[i] : Entry(i, k) = d /\ Seen(i, k)

\* in_degree counts the edges not freed yet.
EdgesCounted ==
  \A i \in Index(steps) : IsFiniteSet(Into(i)) /\ in_degree[i] = Cardinality(Into(i))

\* The groups: no step twice, each in its layer, none empty, and counted.
Grouped ==
  /\ \A k \in DOMAIN groups : groups[k] # <<>> /\ \A s \in ToSet(groups[k]) : Layer(s, k)
  /\ \A s, j, k : In(s, j) /\ In(s, k) => j = k
  /\ visited = Cardinality({s \in Index(steps) : Placed(s)})
  /\ stage \in {"depends", "roots"} => groups = <<>>

\* The next group: what has nothing to wait for and is in no group yet.
NextGroup ==
  /\ Distinct(Coming)
  /\ \A s \in ToSet(Coming) : ~Placed(s) /\ Layer(s, Len(groups) + 1)
  /\ stage = "depends" => Coming = <<>>
  /\ stage = "roots" => \A s \in Index(steps) : s \in ToSet(ready) <=> s < pos[1] /\ in_degree[s] = 0
  /\ stage \in {"while", "for"} =>
       \A s \in Index(steps) : Placed(s) \/ s \in ToSet(Coming) <=> in_degree[s] = 0

\* The loop over the ready list is that over the last group.
Current == stage = "for" =>
  /\ groups # <<>> /\ ready = groups[Len(groups)] /\ Distinct(ready)

BuildInv ==
  /\ BuildTypes
  /\ stage # "returned" => Recorded /\ EdgesCounted /\ Grouped /\ NextGroup /\ Current
  /\ ComputesGroups

-----------------------------------------------------------------------------
(* Facts about sequences *)

LEMMA ToSetFacts ==
  ASSUME NEW S, NEW q \in Seq(S)
  PROVE  /\ ToSet(q) \subseteq S
         /\ \A a \in DOMAIN q : q[a] \in ToSet(q)
         /\ \A x \in ToSet(q) : \E a \in DOMAIN q : q[a] = x
         /\ q = <<>> <=> ToSet(q) = {}
         /\ DOMAIN q = 1..Len(q)
BY DEF ToSet

LEMMA AppendSet ==
  ASSUME NEW S, NEW q \in Seq(S), NEW x \in S
  PROVE  /\ Append(q, x) \in Seq(S)
         /\ ToSet(Append(q, x)) = ToSet(q) \cup {x}
         /\ Distinct(q) /\ x \notin ToSet(q) => Distinct(Append(q, x))
<1>1. Append(q, x) \in Seq(S) OBVIOUS
<1>2. ASSUME NEW y PROVE y \in ToSet(Append(q, x)) <=> y \in ToSet(q) \cup {x}
  <2>1. CASE y = x
    <3>1. Append(q, x)[Len(q) + 1] = x /\ Len(q) + 1 \in DOMAIN Append(q, x) OBVIOUS
    <3> QED BY <2>1, <3>1 DEF ToSet
  <2>2. CASE y # x
    <3>1. \A a \in DOMAIN Append(q, x) : a # Len(q) + 1 => a \in DOMAIN q /\ Append(q, x)[a] = q[a]
      OBVIOUS
    <3>2. Append(q, x)[Len(q) + 1] = x OBVIOUS
    <3>3. \A a \in DOMAIN q : a \in DOMAIN Append(q, x) /\ Append(q, x)[a] = q[a] OBVIOUS
    <3> QED BY <2>2, <3>1, <3>2, <3>3 DEF ToSet
  <2> QED BY <2>1, <2>2
<1>3. ASSUME Distinct(q), x \notin ToSet(q) PROVE Distinct(Append(q, x))
  <2>1. \A a \in DOMAIN q : q[a] # x BY <1>3 DEF ToSet
  <2>2. \A a \in DOMAIN Append(q, x) : a = Len(q) + 1 \/ (a \in DOMAIN q /\ Append(q, x)[a] = q[a])
    OBVIOUS
  <2>3. Append(q, x)[Len(q) + 1] = x OBVIOUS
  <2> QED BY <1>3, <2>1, <2>2, <2>3 DEF Distinct
<1> QED BY <1>1, <1>2, <1>3

\* A list without repetition has as many members as entries.
LEMMA DistinctCount ==
  ASSUME NEW S, NEW q \in Seq(S), Distinct(q)
  PROVE  IsFiniteSet(ToSet(q)) /\ Cardinality(ToSet(q)) = Len(q)
<1>1. q \in [1..Len(q) -> ToSet(q)] /\ DOMAIN q = 1..Len(q) BY DEF ToSet
<1>2. q \in Bijection(1..Len(q), ToSet(q))
  <2>1. \A a, b \in 1..Len(q) : q[a] = q[b] => a = b BY <1>1 DEF Distinct
  <2>2. \A x \in ToSet(q) : \E a \in 1..Len(q) : q[a] = x BY <1>1 DEF ToSet
  <2>3. q \in Injection(1..Len(q), ToSet(q)) BY <1>1, <2>1 DEF Injection, IsInjective
  <2>4. q \in Surjection(1..Len(q), ToSet(q)) BY <1>1, <2>2 DEF Surjection
  <2> QED BY <2>3, <2>4 DEF Bijection
<1>3. Len(q) \in Nat OBVIOUS
<1>4. ToSet(q) \in SUBSET S BY DEF ToSet
<1>5. IsFiniteSet(1..Len(q)) /\ Cardinality(1..Len(q)) = Len(q)
  BY <1>3, FS_Interval
<1> QED BY <1>2, <1>5, FS_Bijection DEF ExistsBijection

LEMMA StepsFacts ==
  ASSUME steps \in Pipelines
  PROVE  /\ Index(steps) = 1..Len(steps.depends_on) /\ Len(steps.depends_on) \in Nat
         /\ IsFiniteSet(Index(steps))
         /\ Cardinality(Index(steps)) = Len(steps.depends_on)
         /\ \A i \in Index(steps) : steps.depends_on[i] \in Seq(Int)
         /\ \A s : Deps(s) \subseteq Index(steps) \ {s}
<1>1. steps.depends_on \in Seq(Seq(Int)) BY PipelineAssumption
<1>2. /\ Index(steps) = 1..Len(steps.depends_on) /\ Len(steps.depends_on) \in Nat
      /\ \A i \in Index(steps) : steps.depends_on[i] \in Seq(Int)
  BY <1>1 DEF Index
<1>3. IsFiniteSet(Index(steps)) /\ Cardinality(Index(steps)) = Len(steps.depends_on)
  BY <1>2, FS_Interval
<1> QED BY <1>2, <1>3 DEF Deps, Dependencies

\* The groups do not change.
LEMMA GroupsKept ==
  ASSUME UNCHANGED <<steps, groups, visited>>, Grouped,
         stage' \in {"depends", "roots"} => stage \in {"depends", "roots"}
  PROVE  /\ \A s, k : (In(s, k))' <=> In(s, k)
         /\ \A s : (Placed(s))' <=> Placed(s)
         /\ \A s, k : (Layer(s, k))' <=> Layer(s, k)
         /\ Grouped'
<1>1. \A s, k : (In(s, k))' <=> In(s, k) BY DEF In
<1>2. \A s : (Placed(s))' <=> Placed(s) BY <1>1 DEF Placed
<1>3. \A s, k : (Layer(s, k))' <=> Layer(s, k) BY <1>1 DEF Layer, Deps
<1>4. {s \in Index(steps) : Placed(s)} = {s \in Index(steps)' : Placed(s)'} BY <1>2
<1> QED BY <1>1, <1>2, <1>3, <1>4 DEF Grouped

\* No edge is added or freed.
LEMMA EdgesKept ==
  ASSUME UNCHANGED <<steps, lists>>, EdgesCounted,
         \A e \in Edges : (Freed(e))' <=> Freed(e)
  PROVE  EdgesCounted'
<1>1. Edges' = Edges /\ \A e : (Target(e))' = Target(e) BY DEF Edges, Target, lists
<1>2. ASSUME NEW i PROVE (Into(i))' = Into(i) BY <1>1 DEF Into
<1> QED BY <1>2 DEF EdgesCounted, lists

LEMMA RecordedKept ==
  ASSUME UNCHANGED <<steps, dependents>>, Recorded,
         \A i \in Index(steps) : \A k \in DOMAIN steps.depends_on[i] : (Seen(i, k))' <=> Seen(i, k)
  PROVE  Recorded'
BY DEF Recorded, Entry

\* The next group does not change, and what has nothing to wait for neither.
LEMMA ComingKept ==
  ASSUME NextGroup, Grouped, UNCHANGED <<steps, in_degree, groups, visited>>, Coming' = Coming,
         \/ stage' = stage /\ pos' = pos
         \/ stage' = stage /\ stage # "roots"
         \/ {stage, stage'} \subseteq {"while", "for"}
  PROVE  NextGroup'
<1>1. stage' \in {"depends", "roots"} => stage \in {"depends", "roots"} OBVIOUS
<1>2. /\ \A s : (Placed(s))' <=> Placed(s)
      /\ \A s, k : (Layer(s, k))' <=> Layer(s, k)
  BY <1>1, GroupsKept
<1> QED BY <1>2 DEF NextGroup, Coming

-----------------------------------------------------------------------------
(* The steps of _build_execution_groups *)

LEMMA InitBuild == BuildInit => BuildInv
<1> SUFFICES ASSUME BuildInit PROVE BuildInv OBVIOUS
<1>1. StepList(steps) /\ steps \in Pipelines BY PipelineAssumption DEF BuildInit, StepList
<1>2. BuildTypes BY <1>1 DEF BuildInit, BuildTypes
<1>3. \A d \in Index(steps) : ToSet(dependents[d]) = {} BY DEF BuildInit, ToSet
<1>4. Recorded
  <2>1. \A i \in Index(steps) : \A k \in DOMAIN steps.depends_on[i] : ~Seen(i, k)
    BY <1>1, StepsFacts DEF BuildInit, Seen
  <2> QED BY <1>3, <2>1 DEF Recorded
<1>5. EdgesCounted
  <2>1. \A i \in Index(steps) : Into(i) = {}
    BY DEF BuildInit, Into, Edges
  <2> QED BY <2>1, FS_EmptySet DEF EdgesCounted, BuildInit
<1>6. \A s : ~Placed(s) /\ \A k : ~In(s, k) BY DEF BuildInit, Placed, In
<1>7. Grouped
  <2>1. {s \in Index(steps) : Placed(s)} = {} BY <1>6
  <2>2. visited = Cardinality({s \in Index(steps) : Placed(s)}) BY <2>1, FS_EmptySet DEF BuildInit
  <2>3. groups = <<>> /\ DOMAIN groups = {} BY DEF BuildInit
  <2> QED BY <1>6, <2>2, <2>3 DEF Grouped
<1>8. NextGroup
  <2>1. Coming = <<>> BY DEF BuildInit, Coming
  <2> QED BY <2>1 DEF BuildInit, NextGroup, Distinct, ToSet
<1>9. Current BY DEF BuildInit, Current
<1>10. ComputesGroups BY DEF BuildInit, ComputesGroups
<1> QED BY <1>2, <1>4, <1>5, <1>7, <1>8, <1>9, <1>10 DEF BuildInv

LEMMA DependBuild == ASSUME BuildInv, Depend PROVE BuildInv'
<1>0. PICK i, d : i = pos[1] /\ d = steps.depends_on[i][pos[2]] OBVIOUS
<1>1. /\ stage = "depends" /\ i \in Index(steps) /\ pos[2] \in DOMAIN steps.depends_on[i]
      /\ pos' = <<i, pos[2] + 1>> /\ steps \in Pipelines
      /\ UNCHANGED <<steps, placed, stage, returned>>
  BY <1>0 DEF BuildInv, BuildTypes, Depend
<1>2. steps.depends_on[i] \in Seq(Int) /\ d \in Int BY <1>0, <1>1, StepsFacts
<1>3. BuildTypes /\ Recorded /\ EdgesCounted /\ Grouped /\ NextGroup BY <1>1 DEF BuildInv
<1>4. i \in Nat /\ pos[2] \in Nat /\ pos = <<i, pos[2]>> /\ i # 0 /\ pos[2] # 0
  BY <1>0, <1>3 DEF BuildTypes
<1>5. \A j \in Index(steps) : \A k \in DOMAIN steps.depends_on[j] :
        (Seen(j, k))' <=> Seen(j, k) \/ (j = i /\ k = pos[2])
  <2> SUFFICES ASSUME NEW j \in Index(steps), NEW k \in DOMAIN steps.depends_on[j]
               PROVE  (Seen(j, k))' <=> Seen(j, k) \/ (j = i /\ k = pos[2])
    OBVIOUS
  <2>1. steps.depends_on[j] \in Seq(Int) /\ j \in Nat BY <1>1, StepsFacts
  <2>2. k \in Nat BY <2>1
  <2>3. pos'[1] = i /\ pos'[2] = pos[2] + 1 /\ stage' = "depends" BY <1>1
  <2>4. pos[1] = i BY <1>0
  <2> QED BY <1>1, <1>4, <2>1, <2>2, <2>3, <2>4 DEF Seen
<1>6. Grouped' BY <1>1, <1>3, GroupsKept DEF placed
<1>7. groups = <<>> /\ Coming = <<>> /\ Coming' = <<>>
  BY <1>1, <1>3 DEF Grouped, NextGroup, Coming, placed
<1>8. NextGroup' BY <1>1, <1>7 DEF NextGroup, Distinct, ToSet
<1>9. Current' BY <1>1 DEF Current
<1>10. \A e : ~Freed(e) /\ ~(Freed(e))' BY <1>1, <1>7 DEF Freed, placed
<1>13. i \in Index(steps) /\ Entry(i, pos[2]) = d BY <1>0, <1>1 DEF Entry
<1>14. ComputesGroups' BY <1>1 DEF ComputesGroups
<1>11. CASE Counts(i, d)
  <2>1. /\ in_degree' = [in_degree EXCEPT ![i] = @ + 1]
        /\ dependents' = [dependents EXCEPT ![d] = Append(@, i)]
        /\ d \in Index(steps) /\ d # i
    BY <1>0, <1>11 DEF Depend, Counts
  <2>2. dependents[d] \in Seq(Index(steps)) BY <1>3, <2>1 DEF BuildTypes
  <2>3. BuildTypes' BY <1>1, <1>3, <1>4, <2>1, <2>2 DEF BuildTypes, placed
  <2>7. /\ dependents'[d] = Append(dependents[d], i)
        /\ \A c \in Index(steps) : c # d => dependents'[c] = dependents[c]
    BY <1>3, <2>1 DEF BuildTypes
  <2>4. ToSet(dependents'[d]) = ToSet(dependents[d]) \cup {i}
    BY <1>13, <2>2, <2>7, AppendSet
  <2>5. Recorded'
    <3> SUFFICES ASSUME NEW j \in Index(steps), NEW c \in Index(steps)
                 PROVE  j \in ToSet(dependents'[c])
                          <=> j # c /\ \E k \in DOMAIN steps.depends_on[j] :
                                         Entry(j, k) = c /\ (Seen(j, k))'
      BY <1>1 DEF Recorded, Entry
    <3>1. j \in ToSet(dependents[c])
            <=> j # c /\ \E k \in DOMAIN steps.depends_on[j] : Entry(j, k) = c /\ Seen(j, k)
      BY <1>3 DEF Recorded
    <3>2. CASE c = d
      <4>1. j \in ToSet(dependents'[c]) <=> j \in ToSet(dependents[c]) \/ j = i BY <2>4, <3>2
      <4> QED BY <1>1, <1>5, <1>13, <2>1, <3>1, <3>2, <4>1
    <3>3. CASE c # d
      <4>1. dependents'[c] = dependents[c] BY <2>7, <3>3
      <4> QED BY <1>5, <1>13, <3>1, <3>3, <4>1
    <3> QED BY <3>2, <3>3
  <2>6. EdgesCounted'
    <3>9. PICK new : new = <<d, Len(dependents[d]) + 1>> OBVIOUS
    <3>1. Edges' = Edges \cup {new} /\ new \notin Edges
      <4>1. DOMAIN dependents'[d] = DOMAIN dependents[d] \cup {Len(dependents[d]) + 1}
            /\ Len(dependents[d]) + 1 \notin DOMAIN dependents[d] /\ Len(dependents[d]) \in Nat
        BY <2>2, <2>7
      <4>2. ASSUME NEW c \in Index(steps), NEW m \in Nat
            PROVE  m \in DOMAIN dependents'[c]
                     <=> m \in DOMAIN dependents[c] \/ (c = d /\ m = Len(dependents[d]) + 1)
        BY <2>7, <4>1
      <4>3. Edges' \subseteq Edges \cup {new} /\ Edges \subseteq Edges' BY <1>1, <3>9, <4>2 DEF Edges
      <4>4. new \in Edges' BY <3>9, <1>1, <2>1, <4>1 DEF Edges
      <4>5. new \notin Edges BY <3>9, <4>1 DEF Edges
      <4> QED BY <4>3, <4>4, <4>5
    <3>2. (Target(new))' = i /\ \A e \in Edges : (Target(e))' = Target(e)
      <4>1. dependents'[d][Len(dependents[d]) + 1] = i
            /\ \A m \in DOMAIN dependents[d] : dependents'[d][m] = dependents[d][m]
        BY <1>13, <2>2, <2>7
      <4>2. (Target(new))' = i BY <3>9, <4>1 DEF Target
      <4>3. ASSUME NEW e \in Edges PROVE (Target(e))' = Target(e)
        <5>1. e[1] \in Index(steps) /\ e[2] \in DOMAIN dependents[e[1]] BY DEF Edges
        <5>2. dependents'[e[1]][e[2]] = dependents[e[1]][e[2]] BY <2>7, <4>1, <5>1
        <5> QED BY <5>2 DEF Target
      <4> QED BY <4>2, <4>3
    <3>7. ASSUME NEW j, NEW e
          PROVE  e \in (Into(j))' <=> e \in Into(j) \/ (j = i /\ e = new)
      <4>1. e \in (Into(j))' <=> e \in Edges' /\ (Target(e))' = j BY <1>10 DEF Into
      <4>2. e \in Into(j) <=> e \in Edges /\ Target(e) = j BY <1>10 DEF Into
      <4> QED BY <3>1, <3>2, <4>1, <4>2
    <3>3. (Into(i))' = Into(i) \cup {new} /\ new \notin Into(i)
      BY <3>1, <3>7 DEF Into
    <3>4. \A j \in Index(steps) : j # i => (Into(j))' = Into(j)
      BY <3>7
    <3>5. IsFiniteSet((Into(i))') /\ Cardinality((Into(i))') = Cardinality(Into(i)) + 1
      BY <1>1, <1>3, <3>3, FS_AddElement DEF EdgesCounted
    <3>6. in_degree'[i] = in_degree[i] + 1 /\ \A j \in Index(steps) : j # i => in_degree'[j] = in_degree[j]
      BY <1>1, <1>3, <2>1 DEF BuildTypes
    <3>8. ASSUME NEW j \in Index(steps)
          PROVE  IsFiniteSet((Into(j))') /\ in_degree'[j] = Cardinality((Into(j))')
      <4>1. IsFiniteSet(Into(j)) /\ in_degree[j] = Cardinality(Into(j)) BY <1>3 DEF EdgesCounted
      <4>2. CASE j = i BY <3>3, <3>5, <3>6, <4>1, <4>2
      <4>3. CASE j # i BY <3>4, <3>6, <4>1, <4>3
      <4> QED BY <4>2, <4>3
    <3> QED BY <1>1, <3>8 DEF EdgesCounted
  <2> QED BY <1>6, <1>8, <1>9, <1>14, <2>3, <2>5, <2>6 DEF BuildInv
<1>12. CASE ~Counts(i, d)
  <2>1. UNCHANGED lists BY <1>0, <1>12 DEF Depend
  <2>2. BuildTypes' BY <1>1, <1>3, <1>4, <2>1 DEF BuildTypes, placed, lists
  <2>3. Recorded'
    <3>1. \A j \in Index(steps) : \A c \in Index(steps) \ {j} : \A k \in DOMAIN steps.depends_on[j] :
            Entry(j, k) = c => ((Seen(j, k))' <=> Seen(j, k))
      BY <1>5, <1>12, <1>13 DEF Counts
    <3> QED BY <1>1, <1>3, <2>1, <3>1 DEF Recorded, Entry, lists
  <2>4. EdgesCounted' BY <1>1, <1>3, <1>10, <2>1, EdgesKept
  <2> QED BY <1>6, <1>8, <1>9, <1>14, <2>2, <2>3, <2>4 DEF BuildInv
<1> QED BY <1>11, <1>12

LEMMA NextListBuild == ASSUME BuildInv, NextList PROVE BuildInv'
<1>1. /\ stage = "depends" /\ pos[1] \in Index(steps) /\ steps \in Pipelines
      /\ pos[2] \notin DOMAIN steps.depends_on[pos[1]]
      /\ pos' = <<pos[1] + 1, 1>>
      /\ UNCHANGED <<steps, lists, placed, stage, returned>>
  BY DEF BuildInv, BuildTypes, NextList
<1>2. BuildTypes /\ Recorded /\ EdgesCounted /\ Grouped /\ NextGroup BY <1>1 DEF BuildInv
<1>3. pos[1] \in Nat /\ pos[2] \in Nat \ {0} BY <1>2 DEF BuildTypes
<1>4. BuildTypes' BY <1>1, <1>2, <1>3 DEF BuildTypes, lists, placed
<1>5. Recorded'
  <2>1. ASSUME NEW j \in Index(steps), NEW k \in DOMAIN steps.depends_on[j]
        PROVE  (Seen(j, k))' <=> Seen(j, k)
    <3>1. steps.depends_on[j] \in Seq(Int) /\ j \in Nat BY <1>1, StepsFacts
    <3>2. k \in Nat \ {0} /\ k <= Len(steps.depends_on[j]) /\ Len(steps.depends_on[j]) \in Nat
          /\ DOMAIN steps.depends_on[j] = 1..Len(steps.depends_on[j])
      BY <3>1
    <3>3. j = pos[1] => k < pos[2] BY <1>1, <1>3, <3>2
    <3>4. pos'[1] = pos[1] + 1 /\ pos'[2] = 1 /\ stage' = "depends" BY <1>1
    <3> QED BY <1>1, <1>3, <3>1, <3>2, <3>3, <3>4 DEF Seen
  <2> QED BY <1>1, <1>2, <2>1, RecordedKept DEF lists
<1>6. groups = <<>> BY <1>1, <1>2 DEF Grouped
<1>7. \A e : (Freed(e))' <=> Freed(e) BY <1>1, <1>6 DEF Freed, placed
<1>8. EdgesCounted' BY <1>1, <1>2, <1>7, EdgesKept
<1>9. Grouped' BY <1>1, <1>2, GroupsKept DEF placed
<1>10. NextGroup' BY <1>1, <1>2, ComingKept DEF Coming, placed, lists
<1> QED BY <1>1, <1>4, <1>5, <1>8, <1>9, <1>10 DEF BuildInv, Current, ComputesGroups

\* Past the first loops.
LEMMA AllSeen ==
  ASSUME BuildTypes, Recorded, stage # "depends" \/ pos[1] \notin Index(steps)
  PROVE  /\ \A i \in Index(steps) : \A k \in DOMAIN steps.depends_on[i] : Seen(i, k)
         /\ \A s, d \in Index(steps) : s \in ToSet(dependents[d]) <=> d \in Deps(s)
<1>1. steps \in Pipelines /\ pos[1] \in Nat \ {0} BY DEF BuildTypes
<1>2. \A i \in Index(steps) : stage # "depends" \/ i < pos[1] BY <1>1, StepsFacts
<1>3. \A i \in Index(steps) : \A k \in DOMAIN steps.depends_on[i] : Seen(i, k)
  BY <1>2 DEF Seen
<1> QED BY <1>3 DEF Recorded, Deps, Dependencies, Entry

LEMMA NoDependenciesBuild == ASSUME BuildInv, NoDependencies PROVE BuildInv'
<1>1. /\ ~Explicit(steps) /\ returned' = OnePerGroup /\ stage' = "returned"
      /\ UNCHANGED <<steps, lists, placed, pos>>
  BY DEF NoDependencies
<1>2. BuildTypes' BY <1>1 DEF BuildInv, BuildTypes, lists, placed
<1>3. Groups(steps) = Sequential(steps) BY <1>1 DEF Groups
<1>4. [k \in DOMAIN OnePerGroup |-> ToSet(OnePerGroup[k])] = Sequential(steps)
  BY DEF OnePerGroup, Sequential, ToSet
<1>5. ComputesGroups' BY <1>1, <1>3, <1>4 DEF ComputesGroups, OnePerGroup
<1> QED BY <1>1, <1>2, <1>5 DEF BuildInv

LEMMA DeclaredBuild == ASSUME BuildInv, Declared PROVE BuildInv'
<1>1. /\ stage = "depends" /\ pos[1] \notin Index(steps) /\ steps \in Pipelines /\ Explicit(steps)
      /\ stage' = "roots" /\ pos' = <<1, 1>>
      /\ UNCHANGED <<steps, lists, placed, returned>>
  BY DEF BuildInv, BuildTypes, Declared
<1>2. BuildTypes /\ Recorded /\ EdgesCounted /\ Grouped /\ NextGroup BY <1>1 DEF BuildInv
<1>3. BuildTypes' BY <1>1, <1>2 DEF BuildTypes, lists, placed
<1>4. Recorded'
  <2>1. \A i \in Index(steps) : \A k \in DOMAIN steps.depends_on[i] : Seen(i, k) /\ (Seen(i, k))'
    BY <1>1, <1>2, AllSeen DEF Seen
  <2> QED BY <1>1, <1>2, <2>1, RecordedKept DEF lists
<1>5. groups = <<>> /\ Coming = <<>> /\ ready = <<>> BY <1>1, <1>2 DEF Grouped, NextGroup, Coming
<1>6. \A e : (Freed(e))' <=> Freed(e) BY <1>1, <1>5 DEF Freed, placed
<1>7. EdgesCounted' BY <1>1, <1>2, <1>6, EdgesKept
<1>8. Grouped' BY <1>1, <1>2, GroupsKept DEF placed
<1>9. NextGroup'
  <2>1. Coming' = <<>> /\ ready' = <<>> BY <1>1, <1>5 DEF Coming, placed
  <2>2. ToSet(<<>>) = {} /\ Distinct(<<>>) BY DEF ToSet, Distinct
  <2>3. \A s \in Index(steps) : ~(s < pos'[1]) BY <1>1, StepsFacts
  <2> QED BY <1>1, <2>1, <2>2, <2>3 DEF NextGroup
<1> QED BY <1>1, <1>3, <1>4, <1>7, <1>8, <1>9 DEF BuildInv, Current, ComputesGroups

\* A step with nothing left to wait for: all its dependencies are freed.
LEMMA AllFreed ==
  ASSUME BuildTypes, Recorded, EdgesCounted, stage # "depends",
         NEW s \in Index(steps), in_degree[s] = 0, NEW d \in Deps(s)
  PROVE  \E m \in DOMAIN dependents[d] : dependents[d][m] = s /\ Freed(<<d, m>>)
<1>1. steps \in Pipelines BY DEF BuildTypes
<1>2. d \in Index(steps) /\ s \in ToSet(dependents[d]) BY <1>1, AllSeen, StepsFacts
<1>3. Into(s) = {} BY FS_EmptySet DEF EdgesCounted
<1>4. dependents[d] \in Seq(Index(steps)) BY <1>2 DEF BuildTypes
<1>5. PICK m \in DOMAIN dependents[d] : dependents[d][m] = s BY <1>2 DEF ToSet
<1>6. m \in Nat BY <1>4
<1>7. <<d, m>> \in Edges /\ Target(<<d, m>>) = s BY <1>2, <1>5, <1>6 DEF Edges, Target
<1> QED BY <1>3, <1>5, <1>7 DEF Into

\* One that still waits does so for some step.
LEMMA SomeOpen ==
  ASSUME BuildTypes, Recorded, EdgesCounted, stage # "depends",
         NEW s \in Index(steps), in_degree[s] # 0
  PROVE  \E d \in Deps(s) : \E m \in DOMAIN dependents[d] : ~Freed(<<d, m>>)
<1>1. steps \in Pipelines BY DEF BuildTypes
<1>2. Into(s) # {} BY FS_EmptySet DEF EdgesCounted
<1>3. PICK e \in Edges : Target(e) = s /\ ~Freed(e) BY <1>2 DEF Into
<1>4. e[1] \in Index(steps) /\ e[2] \in DOMAIN dependents[e[1]] /\ e = <<e[1], e[2]>>
  BY <1>3 DEF Edges
<1>5. s \in ToSet(dependents[e[1]]) BY <1>3, <1>4 DEF ToSet, Target
<1> QED BY <1>3, <1>4, <1>5, AllSeen

LEMMA RootBuild == ASSUME BuildInv, Root PROVE BuildInv'
<1>0. PICK i : i = pos[1] OBVIOUS
<1>1. /\ stage = "roots" /\ i \in Index(steps) /\ steps \in Pipelines
      /\ ready' = IF in_degree[i] = 0 THEN Append(ready, i) ELSE ready
      /\ pos' = <<i + 1, 1>>
      /\ UNCHANGED <<steps, lists, groups, visited, next_ready, stage, returned>>
  BY <1>0 DEF BuildInv, BuildTypes, Root
<1>2. BuildTypes /\ Recorded /\ EdgesCounted /\ Grouped /\ NextGroup BY <1>1 DEF BuildInv
<1>3. i \in Nat /\ ready \in Seq(Index(steps)) BY <1>0, <1>2 DEF BuildTypes
<1>4. ready' \in Seq(Index(steps)) BY <1>1, <1>3, AppendSet
<1>5. BuildTypes' BY <1>1, <1>2, <1>3, <1>4 DEF BuildTypes, lists
<1>6. Recorded' BY <1>1, <1>2, RecordedKept DEF Seen, lists
<1>7. groups = <<>> /\ Coming = ready /\ Coming' = ready'
  BY <1>1, <1>2 DEF Grouped, Coming
<1>8. \A e : ~Freed(e) /\ ((Freed(e))' <=> Freed(e)) BY <1>1, <1>7 DEF Freed
<1>9. EdgesCounted' BY <1>1, <1>2, <1>8, EdgesKept
<1>10. /\ Grouped' /\ \A s : (Placed(s))' <=> Placed(s)
       /\ \A s, k : (Layer(s, k))' <=> Layer(s, k)
  BY <1>1, <1>2, GroupsKept
<1>11. \A s \in Index(steps) : s \in ToSet(ready) <=> s < i /\ in_degree[s] = 0
  BY <1>0, <1>1, <1>2 DEF NextGroup
<1>12. i \notin ToSet(ready) BY <1>1, <1>3, <1>11
<1>13. ToSet(ready') = ToSet(ready) \cup (IF in_degree[i] = 0 THEN {i} ELSE {}) /\ Distinct(ready')
  <2>1. Distinct(ready) BY <1>2, <1>7 DEF NextGroup
  <2> QED BY <1>1, <1>3, <1>12, <2>1, AppendSet
<1>14. in_degree[i] = 0 => ~Placed(i) /\ Layer(i, 1)
  <2>1. in_degree[i] = 0 => Deps(i) = {} BY <1>1, <1>2, <1>8, AllFreed
  <2> QED BY <1>7, <2>1 DEF Placed, Layer
<1>15. NextGroup'
  <2>1. \A s \in ToSet(ready') : ~(Placed(s))' /\ (Layer(s, Len(groups) + 1))'
    <3>1. Len(groups) = 0 BY <1>7
    <3>2. \A s \in ToSet(ready) : ~Placed(s) /\ Layer(s, 1) BY <1>2, <1>7, <3>1 DEF NextGroup
    <3>3. \A s : (Layer(s, Len(groups) + 1))' <=> Layer(s, 1) BY <1>1, <1>10, <3>1
    <3> QED BY <1>10, <1>13, <1>14, <3>2, <3>3
  <2>2. \A s \in Index(steps) : s \in ToSet(ready') <=> s < pos'[1] /\ in_degree[s] = 0
    <3>1. \A s \in Index(steps) : s < i + 1 <=> s < i \/ s = i BY <1>1, <1>3, StepsFacts
    <3> QED BY <1>1, <1>11, <1>13, <3>1
  <2> QED BY <1>1, <1>7, <1>13, <2>1, <2>2 DEF NextGroup, lists
<1> QED BY <1>1, <1>5, <1>6, <1>9, <1>10, <1>15 DEF BuildInv, Current, ComputesGroups

LEMMA RootsEndBuild == ASSUME BuildInv, RootsEnd PROVE BuildInv'
<1>1. /\ stage = "roots" /\ pos[1] \notin Index(steps) /\ steps \in Pipelines /\ stage' = "while"
      /\ UNCHANGED <<steps, lists, placed, pos, returned>>
  BY DEF BuildInv, BuildTypes, RootsEnd
<1>2. BuildTypes /\ Recorded /\ EdgesCounted /\ Grouped /\ NextGroup BY <1>1 DEF BuildInv
<1>3. BuildTypes' BY <1>1, <1>2 DEF BuildTypes, lists, placed
<1>4. Recorded' BY <1>1, <1>2, RecordedKept DEF Seen, lists
<1>5. \A e : (Freed(e))' <=> Freed(e) BY <1>1 DEF Freed, In, placed
<1>6. EdgesCounted' BY <1>1, <1>2, <1>5, EdgesKept
<1>7. /\ Grouped' /\ \A s : (Placed(s))' <=> Placed(s)
      /\ \A s, k : (Layer(s, k))' <=> Layer(s, k)
  BY <1>1, <1>2, GroupsKept DEF placed
<1>8. NextGroup'
  <2>1. Coming = ready /\ Coming' = ready /\ groups' = groups BY <1>1 DEF Coming, placed
  <2>2. \A s \in Index(steps) : s < pos[1] BY <1>1, <1>2, StepsFacts DEF BuildTypes
  <2>3. \A s \in Index(steps) : s \in ToSet(ready) <=> in_degree[s] = 0
    BY <1>1, <1>2, <2>2 DEF NextGroup
  <2>4. \A s : ~Placed(s) BY <1>1, <1>2 DEF Grouped, Placed
  <2> QED BY <1>1, <1>2, <1>7, <2>1, <2>3, <2>4 DEF NextGroup, lists
<1> QED BY <1>1, <1>3, <1>4, <1>6, <1>7, <1>8 DEF BuildInv, Current, ComputesGroups

LEMMA TakeReadyBuild == ASSUME BuildInv, TakeReady PROVE BuildInv'
<1>0. PICK n : n = Len(groups) OBVIOUS
<1>1. /\ stage = "while" /\ ready # <<>> /\ steps \in Pipelines
      /\ groups' = Append(groups, ready) /\ visited' = visited + Len(ready)
      /\ next_ready' = <<>> /\ stage' = "for" /\ pos' = <<1, 1>>
      /\ UNCHANGED <<steps, lists, ready, returned>>
  BY DEF BuildInv, BuildTypes, TakeReady
<1>2. BuildTypes /\ Recorded /\ EdgesCounted /\ Grouped /\ NextGroup BY <1>1 DEF BuildInv
<1>3. ready \in Seq(Index(steps)) /\ groups \in Seq(Seq(Index(steps))) BY <1>2 DEF BuildTypes
<1>4. BuildTypes' BY <1>1, <1>2, <1>3 DEF BuildTypes, lists
<1>5. Recorded' BY <1>1, <1>2, RecordedKept DEF Seen, lists
<1>6. /\ n \in Nat /\ DOMAIN groups = 1..n /\ DOMAIN groups' = 1..(n + 1) /\ Len(groups') = n + 1
      /\ groups'[n + 1] = ready /\ \A k \in 1..n : groups'[k] = groups[k]
  BY <1>0, <1>1, <1>3
<1>7. ASSUME NEW s, NEW k PROVE (In(s, k))' <=> In(s, k) \/ (k = n + 1 /\ s \in ToSet(ready))
  BY <1>6 DEF In
<1>8. ASSUME NEW s PROVE (Placed(s))' <=> Placed(s) \/ s \in ToSet(ready)
  <2>1. (Placed(s))' <=> \E k \in 1..(n + 1) : (In(s, k))' BY <1>6 DEF Placed
  <2>2. Placed(s) <=> \E k \in 1..n : In(s, k) BY <1>6 DEF Placed
  <2>3. n + 1 \in 1..(n + 1) BY <1>6
  <2>4. \A k \in 1..n : k \in 1..(n + 1) BY <1>6
  <2>5. \A k : In(s, k) => k \in 1..n BY <1>6 DEF In
  <2>6. CASE Placed(s)
    <3>1. PICK k \in 1..n : In(s, k) BY <2>2, <2>6
    <3>2. k \in 1..(n + 1) /\ (In(s, k))' BY <1>7, <2>4, <3>1
    <3> QED BY <2>1, <2>6, <3>2
  <2>7. CASE s \in ToSet(ready)
    <3>1. (In(s, n + 1))' BY <1>7, <2>7
    <3> QED BY <2>1, <2>3, <2>7, <3>1
  <2>8. ASSUME (Placed(s))', s \notin ToSet(ready) PROVE Placed(s)
    <3>1. PICK k \in 1..(n + 1) : (In(s, k))' BY <2>1, <2>8
    <3>2. In(s, k) BY <1>7, <2>8, <3>1
    <3> QED BY <2>2, <2>5, <3>2
  <2> QED BY <2>6, <2>7, <2>8
<1>9. Coming = ready /\ Coming' = <<>> BY <1>1 DEF Coming
<1>10. Distinct(ready) /\ \A s \in ToSet(ready) : ~Placed(s) /\ Layer(s, n + 1)
  BY <1>0, <1>2, <1>9 DEF NextGroup
<1>11. ASSUME NEW s, NEW k \in 1..(n + 1), Layer(s, k) PROVE (Layer(s, k))'
  <2>1. \A j \in 1..(k - 1) : j \in DOMAIN groups BY <1>6
  <2> QED BY <1>1, <1>7, <1>11 DEF Layer, Deps
<1>12. Grouped'
  <2>1. ASSUME NEW k \in DOMAIN groups'
        PROVE  groups'[k] # <<>> /\ \A s \in ToSet(groups'[k]) : (Layer(s, k))'
    <3>1. CASE k = n + 1 BY <1>1, <1>6, <1>10, <1>11, <3>1
    <3>2. CASE k # n + 1
      <4>1. k \in 1..n /\ k \in 1..(n + 1) BY <1>6, <3>2
      <4>2. groups[k] # <<>> /\ \A s \in ToSet(groups[k]) : Layer(s, k)
        BY <1>2, <1>6, <4>1 DEF Grouped
      <4> QED BY <1>6, <1>11, <4>1, <4>2
    <3> QED BY <3>1, <3>2
  <2>2. \A s, j, k : (In(s, j))' /\ (In(s, k))' => j = k
    <3>1. \A s, j, k : In(s, j) /\ In(s, k) => j = k BY <1>2 DEF Grouped
    <3>2. \A s, j : In(s, j) => Placed(s) BY DEF In, Placed
    <3> QED BY <1>7, <1>10, <3>1, <3>2
  <2>3. visited' = Cardinality({s \in Index(steps) : (Placed(s))'})
    <3> DEFINE P == {s \in Index(steps) : Placed(s)}
    <3>1. P \subseteq Index(steps) /\ IsFiniteSet(P) BY <1>1, StepsFacts, FS_Subset
    <3>2. IsFiniteSet(ToSet(ready)) /\ Cardinality(ToSet(ready)) = Len(ready)
      BY <1>3, <1>10, DistinctCount
    <3>3. P \cap ToSet(ready) = {} BY <1>10
    <3>4. {s \in Index(steps) : (Placed(s))'} = P \cup ToSet(ready)
      <4>1. ToSet(ready) \subseteq Index(steps) BY <1>3, ToSetFacts
      <4> QED BY <1>8, <4>1
    <3>5. visited = Cardinality(P) BY <1>2 DEF Grouped
    <3> HIDE DEF P
    <3>6. Cardinality(P \cap ToSet(ready)) = 0 BY <3>3, FS_EmptySet
    <3>7. Cardinality(P \cup ToSet(ready))
            = Cardinality(P) + Cardinality(ToSet(ready)) - Cardinality(P \cap ToSet(ready))
      BY <3>1, <3>2, FS_Union
    <3>8. Cardinality(P) \in Nat /\ Len(ready) \in Nat BY <1>3, <3>1, FS_CardinalityType
    <3>9. visited' = Cardinality(P \cup ToSet(ready)) BY <1>1, <3>2, <3>5, <3>6, <3>7, <3>8
    <3> QED BY <3>4, <3>9
  <2> QED BY <1>1, <2>1, <2>2, <2>3 DEF Grouped
<1>13. EdgesCounted'
  <2>1. ASSUME NEW e \in Edges PROVE (Freed(e))' <=> Freed(e)
    <3>1. e[1] \in Index(steps) /\ e[2] \in DOMAIN dependents[e[1]] BY DEF Edges
    <3>2. dependents[e[1]] \in Seq(Index(steps)) BY <1>2, <3>1 DEF BuildTypes
    <3>3. e[2] \in Nat /\ ~(e[2] < 1) BY <3>1, <3>2
    <3>4. \A a \in DOMAIN ready : ~(a < 1) BY <1>3
    <3>5. ~(Passed(e[1], e[2]))' BY <1>1, <3>3, <3>4 DEF Passed
    <3>6. \A k \in 1..(n + 1) : k < n + 1 <=> k \in 1..n BY <1>6
    <3>7. (Freed(e))' <=> \E k \in 1..(n + 1) : (In(e[1], k))' /\ k < n + 1
      BY <1>1, <1>6, <3>5 DEF Freed
    <3>8. Freed(e) <=> \E k \in 1..n : In(e[1], k) BY <1>1, <1>6 DEF Freed
    <3>9. \A k \in 1..n : k # n + 1 /\ k \in 1..(n + 1) BY <1>6
    <3> QED BY <1>7, <3>6, <3>7, <3>8, <3>9
  <2> QED BY <1>1, <1>2, <2>1, EdgesKept
<1>14. NextGroup'
  <2>1. Distinct(<<>>) /\ ToSet(<<>>) = {} BY DEF Distinct, ToSet
  <2>2. \A s \in Index(steps) : Placed(s) \/ s \in ToSet(ready) <=> in_degree[s] = 0
    BY <1>1, <1>2, <1>9 DEF NextGroup
  <2> QED BY <1>1, <1>8, <1>9, <2>1, <2>2 DEF NextGroup, lists
<1>15. Current' BY <1>1, <1>6, <1>10 DEF Current
<1> QED BY <1>1, <1>4, <1>5, <1>12, <1>13, <1>14, <1>15 DEF BuildInv, ComputesGroups

LEMMA ReleaseBuild == ASSUME BuildInv, Release PROVE BuildInv'
<1>0. PICK a, m, r, d : a = pos[1] /\ m = pos[2] /\ r = ready[a] /\ d = dependents[r][m] OBVIOUS
<1>1. /\ stage = "for" /\ a \in DOMAIN ready /\ m \in DOMAIN dependents[r] /\ steps \in Pipelines
      /\ in_degree' = [in_degree EXCEPT ![d] = @ - 1]
      /\ next_ready' = IF in_degree'[d] = 0 THEN Append(next_ready, d) ELSE next_ready
      /\ pos' = <<a, m + 1>>
      /\ UNCHANGED <<steps, dependents, groups, visited, ready, stage, returned>>
  BY <1>0 DEF BuildInv, BuildTypes, Release
<1>2. BuildTypes /\ Recorded /\ EdgesCounted /\ Grouped /\ NextGroup /\ Current
  BY <1>1 DEF BuildInv
<1>3. /\ ready \in Seq(Index(steps)) /\ next_ready \in Seq(Index(steps))
      /\ a \in Nat \ {0} /\ m \in Nat \ {0} /\ in_degree \in [Index(steps) -> Int]
  BY <1>0, <1>2 DEF BuildTypes
<1>4. r \in Index(steps) /\ r \in ToSet(ready) BY <1>0, <1>1, <1>3 DEF ToSet
<1>5. dependents[r] \in Seq(Index(steps)) BY <1>2, <1>4 DEF BuildTypes
<1>6. d \in Index(steps) /\ d \in ToSet(dependents[r]) BY <1>0, <1>1, <1>5 DEF ToSet
<1>7. next_ready' \in Seq(Index(steps)) BY <1>1, <1>3, <1>6, AppendSet
<1>8. in_degree' \in [Index(steps) -> Int] BY <1>1, <1>3, <1>6
<1>9. BuildTypes'
  <2>1. pos' \in (Nat \ {0}) \X (Nat \ {0}) BY <1>1, <1>3
  <2> QED BY <1>1, <1>2, <1>7, <1>8, <2>1 DEF BuildTypes
<1>10. Recorded' BY <1>1, <1>2, RecordedKept DEF Seen
<1>11. /\ Grouped'
       /\ \A s, k : (In(s, k))' <=> In(s, k)
       /\ \A s : (Placed(s))' <=> Placed(s)
       /\ \A s, k : (Layer(s, k))' <=> Layer(s, k)
  BY <1>1, <1>2, GroupsKept
<1>12. /\ groups # <<>> /\ ready = groups[Len(groups)] /\ Distinct(ready)
       /\ Len(groups) \in DOMAIN groups
  <2>1. groups # <<>> /\ ready = groups[Len(groups)] /\ Distinct(ready) BY <1>1, <1>2 DEF Current
  <2>2. groups \in Seq(Seq(Index(steps))) BY <1>2 DEF BuildTypes
  <2> QED BY <2>1, <2>2
<1>13. \A s : s \in ToSet(ready) <=> In(s, Len(groups)) BY <1>12 DEF In
<1>14. PICK e0 : e0 = <<r, m>> OBVIOUS
<1>15. e0 \in Edges /\ Target(e0) = d /\ ~Freed(e0)
  <2>1. e0 \in Edges BY <1>1, <1>3, <1>4, <1>14 DEF Edges
  <2>2. Target(e0) = d BY <1>0, <1>14 DEF Target
  <2>3. \A k \in DOMAIN groups : In(r, k) => ~(k < Len(groups))
    <3>1. In(r, Len(groups)) BY <1>4, <1>13
    <3>2. \A k : In(r, k) => k = Len(groups) BY <1>2, <3>1 DEF Grouped
    <3>3. Len(groups) \in Nat BY <1>2 DEF BuildTypes
    <3> QED BY <3>2, <3>3
  <2>4. ~Passed(r, m)
    <3>1. \A b \in DOMAIN ready : ready[b] = r => b = a BY <1>0, <1>1, <1>12 DEF Distinct
    <3> QED BY <1>0, <1>3, <3>1 DEF Passed
  <2>5. e0[1] = r /\ e0[2] = m BY <1>14
  <2> QED BY <1>1, <2>1, <2>2, <2>3, <2>4, <2>5 DEF Freed
<1>16. ASSUME NEW e \in Edges PROVE (Freed(e))' <=> Freed(e) \/ e = e0
  <2>1. /\ e[1] \in Index(steps) /\ e[2] \in DOMAIN dependents[e[1]] /\ e = <<e[1], e[2]>>
        /\ e[2] \in Nat
    BY DEF Edges
  <2>2. (Passed(e[1], e[2]))' <=> Passed(e[1], e[2]) \/ e = e0
    <3>1. pos'[1] = a /\ pos'[2] = m + 1 /\ ready' = ready BY <1>1
    <3>2. \A b \in DOMAIN ready : b \in Nat BY <1>3
    <3>3. e = e0 <=> e[1] = r /\ e[2] = m BY <1>14, <2>1
    <3>4. e[2] < m + 1 <=> e[2] < m \/ e[2] = m BY <1>3, <2>1
    <3>5. (Passed(e[1], e[2]))' <=>
            \E b \in DOMAIN ready : ready[b] = e[1] /\ (b < a \/ (b = a /\ e[2] < m + 1))
      BY <3>1 DEF Passed
    <3>6. Passed(e[1], e[2]) <=>
            \E b \in DOMAIN ready : ready[b] = e[1] /\ (b < a \/ (b = a /\ e[2] < m))
      BY <1>0 DEF Passed
    <3> QED BY <1>0, <1>1, <3>3, <3>4, <3>5, <3>6
  <2> QED BY <1>1, <1>11, <2>2 DEF Freed
<1>17. Edges' = Edges /\ \A e : (Target(e))' = Target(e) BY <1>1 DEF Edges, Target
<1>18. \A s : (Into(s))' = IF s = d THEN Into(s) \ {e0} ELSE Into(s)
  <2> SUFFICES ASSUME NEW s PROVE (Into(s))' = IF s = d THEN Into(s) \ {e0} ELSE Into(s)
    OBVIOUS
  <2>1. ASSUME NEW e PROVE e \in (Into(s))' <=> e \in Into(s) /\ e # e0
    BY <1>16, <1>17 DEF Into
  <2>2. s # d => e0 \notin Into(s) BY <1>15 DEF Into
  <2> QED BY <2>1, <2>2
<1>19. /\ e0 \in Into(d) /\ IsFiniteSet(Into(d)) /\ in_degree[d] = Cardinality(Into(d))
       /\ in_degree[d] # 0
  <2>1. e0 \in Into(d) BY <1>15 DEF Into
  <2>2. IsFiniteSet(Into(d)) /\ in_degree[d] = Cardinality(Into(d)) BY <1>2, <1>6 DEF EdgesCounted
  <2> QED BY <2>1, <2>2, FS_EmptySet
<1>20. /\ in_degree'[d] = in_degree[d] - 1
       /\ \A s \in Index(steps) : s # d => in_degree'[s] = in_degree[s]
  BY <1>1, <1>3, <1>6
<1>21. EdgesCounted'
  <2>1. ASSUME NEW s \in Index(steps)
        PROVE  IsFiniteSet((Into(s))') /\ in_degree'[s] = Cardinality((Into(s))')
    <3>1. CASE s = d
      <4>1. IsFiniteSet(Into(d) \ {e0}) /\ Cardinality(Into(d) \ {e0}) = Cardinality(Into(d)) - 1
        BY <1>19, FS_RemoveElement
      <4> QED BY <1>18, <1>19, <1>20, <3>1, <4>1
    <3>2. CASE s # d BY <1>2, <1>18, <1>20, <3>2 DEF EdgesCounted
    <3> QED BY <3>1, <3>2
  <2> QED BY <1>1, <2>1 DEF EdgesCounted
<1>22. Coming = next_ready /\ Coming' = next_ready' BY <1>1 DEF Coming
<1>23. \A s \in Index(steps) : Placed(s) \/ s \in ToSet(next_ready) <=> in_degree[s] = 0
  BY <1>1, <1>2, <1>22 DEF NextGroup
<1>24. ~Placed(d) /\ d \notin ToSet(next_ready) BY <1>6, <1>19, <1>23
<1>25. in_degree'[d] = 0 => Layer(d, Len(groups) + 1)
  <2> SUFFICES ASSUME in_degree'[d] = 0 PROVE Layer(d, Len(groups) + 1) OBVIOUS
  <2>1. Len(groups) \in Nat /\ DOMAIN groups = 1..Len(groups) BY <1>2 DEF BuildTypes
  <2>2. r \in Deps(d) /\ In(r, Len(groups)) BY <1>1, <1>2, <1>4, <1>6, <1>13, AllSeen
  <2>3. ASSUME NEW c \in Deps(d) PROVE \E j \in 1..Len(groups) : In(c, j)
    <3>1. c \in Index(steps) BY <1>1, StepsFacts
    <3>2. d \in ToSet(dependents[c]) BY <1>1, <1>2, <1>6, <2>3, <3>1, AllSeen
    <3>3. PICK x \in DOMAIN dependents[c] : dependents[c][x] = d BY <3>2 DEF ToSet
    <3>4. dependents[c] \in Seq(Index(steps)) BY <1>2, <3>1 DEF BuildTypes
    <3>5. PICK e : e = <<c, x>> OBVIOUS
    <3>6. e \in Edges /\ Target(e) = d /\ e[1] = c BY <3>1, <3>3, <3>4, <3>5 DEF Edges, Target
    <3>7. (Into(d))' = {}
      <4>1. IsFiniteSet((Into(d))') /\ Cardinality((Into(d))') = 0
        BY <1>1, <1>6, <1>21 DEF EdgesCounted
      <4> QED BY <4>1, FS_EmptySet
    <3>8. (Freed(e))' BY <1>17, <3>6, <3>7 DEF Into
    <3>9. Freed(e) \/ e = e0 BY <1>16, <3>6, <3>8
    <3>10. CASE e = e0 BY <1>4, <1>13, <1>14, <2>1, <3>6, <3>10 DEF In
    <3>11. CASE Freed(e)
      <4>1. CASE \E k \in DOMAIN groups : In(e[1], k) BY <2>1, <3>6, <4>1
      <4>2. CASE Passed(e[1], e[2])
        <5>1. c \in ToSet(ready) BY <3>6, <4>2 DEF Passed, ToSet
        <5> QED BY <1>13, <2>1, <5>1 DEF In
      <4> QED BY <3>11, <4>1, <4>2 DEF Freed
    <3> QED BY <3>9, <3>10, <3>11
  <2>4. (Len(groups) + 1) - 1 = Len(groups) BY <2>1
  <2> QED BY <2>2, <2>3, <2>4 DEF Layer
<1>26. /\ ToSet(next_ready') = ToSet(next_ready) \cup (IF in_degree'[d] = 0 THEN {d} ELSE {})
       /\ Distinct(next_ready')
  <2>1. Distinct(next_ready) BY <1>2, <1>22 DEF NextGroup
  <2> QED BY <1>1, <1>3, <1>6, <1>24, <2>1, AppendSet
<1>27. NextGroup'
  <2>1. ASSUME NEW s \in ToSet(next_ready') PROVE ~(Placed(s))' /\ (Layer(s, Len(groups) + 1))'
    <3>1. ~Placed(s) /\ Layer(s, Len(groups) + 1)
      BY <1>2, <1>22, <1>24, <1>25, <1>26 DEF NextGroup
    <3>2. \A k : (Layer(s, k))' <=> Layer(s, k) BY <1>11
    <3>3. (Len(groups))' = Len(groups) BY <1>1
    <3>4. (Layer(s, Len(groups) + 1))' BY <3>1, <3>2, <3>3, <1>1, <1>11 DEF Layer, Deps
    <3> QED BY <1>11, <3>1, <3>4
  <2>2. ASSUME NEW s \in Index(steps)
        PROVE  (Placed(s))' \/ s \in ToSet(next_ready') <=> in_degree'[s] = 0
    <3>1. CASE s = d BY <1>11, <1>24, <1>26, <3>1
    <3>2. CASE s # d BY <1>11, <1>20, <1>23, <1>26, <3>2
    <3> QED BY <3>1, <3>2
  <2> QED BY <1>1, <1>22, <1>26, <2>1, <2>2 DEF NextGroup
<1>28. Current' BY <1>1, <1>12 DEF Current
<1> QED BY <1>1, <1>9, <1>10, <1>11, <1>21, <1>27, <1>28 DEF BuildInv, ComputesGroups

LEMMA NextMemberBuild == ASSUME BuildInv, NextMember PROVE BuildInv'
<1>0. PICK a, m, r : a = pos[1] /\ m = pos[2] /\ r = ready[a] OBVIOUS
<1>1. /\ stage = "for" /\ a \in DOMAIN ready /\ m \notin DOMAIN dependents[r] /\ steps \in Pipelines
      /\ pos' = <<a + 1, 1>>
      /\ UNCHANGED <<steps, lists, placed, stage, returned>>
  BY <1>0 DEF BuildInv, BuildTypes, NextMember
<1>2. BuildTypes /\ Recorded /\ EdgesCounted /\ Grouped /\ NextGroup /\ Current
  BY <1>1 DEF BuildInv
<1>3. /\ ready \in Seq(Index(steps)) /\ a \in Nat \ {0} /\ m \in Nat \ {0}
  BY <1>0, <1>2 DEF BuildTypes
<1>4. pos' \in (Nat \ {0}) \X (Nat \ {0}) BY <1>1, <1>3
<1>5. BuildTypes' BY <1>1, <1>2, <1>4 DEF BuildTypes, lists, placed
<1>6. Recorded' BY <1>1, <1>2, RecordedKept DEF Seen, lists
<1>7. Grouped' /\ \A s, k : (In(s, k))' <=> In(s, k) BY <1>1, <1>2, GroupsKept DEF placed
<1>8. EdgesCounted'
  <2>1. ASSUME NEW e \in Edges PROVE (Freed(e))' <=> Freed(e)
    <3>1. e[1] \in Index(steps) /\ e[2] \in DOMAIN dependents[e[1]] BY DEF Edges
    <3>2. dependents[e[1]] \in Seq(Index(steps)) BY <1>2, <3>1 DEF BuildTypes
    <3>3. e[2] \in Nat \ {0} BY <3>1, <3>2
    <3>4. e[1] = r => e[2] < m BY <1>1, <1>3, <3>1, <3>2, <3>3
    <3>5. pos'[1] = a + 1 /\ pos'[2] = 1 /\ ready' = ready BY <1>1 DEF placed
    <3>6. (Passed(e[1], e[2]))' <=>
            \E b \in DOMAIN ready : ready[b] = e[1] /\ (b < a + 1 \/ (b = a + 1 /\ e[2] < 1))
      BY <3>5 DEF Passed
    <3>7. Passed(e[1], e[2]) <=>
            \E b \in DOMAIN ready : ready[b] = e[1] /\ (b < a \/ (b = a /\ e[2] < m))
      BY <1>0 DEF Passed
    <3>8. \A b \in DOMAIN ready : b \in Nat BY <1>3
    <3>9. \A b \in Nat : b < a + 1 <=> b < a \/ b = a BY <1>3
    <3>10. ~(e[2] < 1) BY <3>3
    <3>11. (Passed(e[1], e[2]))' <=> Passed(e[1], e[2])
      BY <1>0, <3>4, <3>6, <3>7, <3>8, <3>9, <3>10
    <3> QED BY <1>1, <1>7, <3>11 DEF Freed, placed
  <2> QED BY <1>1, <1>2, <2>1, EdgesKept
<1>9. NextGroup' BY <1>1, <1>2, ComingKept DEF Coming, placed, lists
<1>10. Current' BY <1>1, <1>2 DEF Current, placed
<1> QED BY <1>1, <1>5, <1>6, <1>7, <1>8, <1>9, <1>10 DEF BuildInv, ComputesGroups

LEMMA ForEndsBuild == ASSUME BuildInv, ForEnds PROVE BuildInv'
<1>1. /\ stage = "for" /\ pos[1] \notin DOMAIN ready /\ steps \in Pipelines
      /\ ready' = next_ready /\ stage' = "while"
      /\ UNCHANGED <<steps, lists, groups, visited, next_ready, pos, returned>>
  BY DEF BuildInv, BuildTypes, ForEnds
<1>2. BuildTypes /\ Recorded /\ EdgesCounted /\ Grouped /\ NextGroup /\ Current
  BY <1>1 DEF BuildInv
<1>3. ready \in Seq(Index(steps)) /\ pos[1] \in Nat \ {0} /\ groups \in Seq(Seq(Index(steps)))
  BY <1>2 DEF BuildTypes
<1>4. BuildTypes' BY <1>1, <1>2 DEF BuildTypes, lists
<1>5. Recorded' BY <1>1, <1>2, RecordedKept DEF Seen, lists
<1>6. Grouped' /\ \A s, k : (In(s, k))' <=> In(s, k) BY <1>1, <1>2, GroupsKept
<1>7. EdgesCounted'
  <2>1. groups # <<>> /\ ready = groups[Len(groups)] BY <1>1, <1>2 DEF Current
  <2>2. /\ Len(groups) \in DOMAIN groups /\ DOMAIN groups = 1..Len(groups) /\ Len(groups) \in Nat
        /\ \A k \in DOMAIN groups : k < Len(groups) \/ k = Len(groups)
    BY <1>3, <2>1
  <2>3. \A b \in DOMAIN ready : b < pos[1] BY <1>1, <1>3
  <2>4. ASSUME NEW e \in Edges PROVE (Freed(e))' <=> Freed(e)
    <3>1. Passed(e[1], e[2]) <=> e[1] \in ToSet(ready) BY <2>3 DEF Passed, ToSet
    <3>2. Passed(e[1], e[2]) <=> In(e[1], Len(groups)) BY <2>1, <2>2, <3>1 DEF In
    <3>3. Freed(e) <=> (\E k \in DOMAIN groups : In(e[1], k) /\ k < Len(groups))
                       \/ In(e[1], Len(groups))
      BY <1>1, <3>2 DEF Freed
    <3>4. (Freed(e))' <=> \E k \in DOMAIN groups : In(e[1], k) BY <1>1, <1>6 DEF Freed
    <3> QED BY <2>2, <3>3, <3>4
  <2> QED BY <1>1, <1>2, <2>4, EdgesKept
<1>8. NextGroup'
  <2>1. Coming' = Coming BY <1>1 DEF Coming
  <2> QED BY <1>1, <1>2, <2>1, ComingKept DEF lists
<1> QED BY <1>1, <1>4, <1>5, <1>6, <1>7, <1>8 DEF BuildInv, Current, ComputesGroups

-----------------------------------------------------------------------------
(* What the loops leave when nothing is ready *)

\* There is one way to give every step a depth: of two, look at the step
\* they differ in that is least deep in one of them.
LEMMA DepthsUnique ==
  ASSUME NEW p, StepList(p), NEW f \in Depths(p), NEW g \in Depths(p)
  PROVE  f = g
<1>1. PICK n \in Nat : Index(p) = 1..n BY IndexFacts
<1>2. f \in [Index(p) -> Index(p)] /\ g \in [Index(p) -> Index(p)] BY DEF Depths
<1>3. SUFFICES ASSUME f # g PROVE FALSE OBVIOUS
<1>11. \A j \in Index(p) : f[j] \in Nat BY <1>1, <1>2
<1> DEFINE S == {f[i] : i \in {j \in Index(p) : f[j] # g[j]}}
<1>4. S \subseteq Nat /\ S # {}
  <2>1. \E j \in Index(p) : f[j] # g[j] BY <1>2, <1>3
  <2> QED BY <1>11, <2>1
<1>5. Min(S) \in S /\ \A y \in S : Min(S) <= y BY <1>4, MinFacts
<1>6. PICK i \in Index(p) : f[i] # g[i] /\ Min(S) = f[i] BY <1>5
<1>7. \A j \in Index(p) : f[j] # g[j] => f[i] <= f[j] BY <1>5, <1>6
<1> HIDE DEF S
<1>8. ASSUME NEW d \in Dependencies(p, i) PROVE f[d] = g[d]
  <2>1. d \in Index(p) BY DEF Dependencies
  <2>2. f[d] < f[i] BY DepthFacts
  <2>3. f[d] \in Nat /\ f[i] \in Nat BY <1>6, <1>11, <2>1
  <2> QED BY <1>7, <2>1, <2>2, <2>3
<1>9. {f[d] : d \in Dependencies(p, i)} = {g[d] : d \in Dependencies(p, i)} BY <1>8
<1>10. f[i] = g[i] BY <1>9 DEF Depths
<1> QED BY <1>6, <1>10

\* A maximum is what is in the set and not exceeded.
LEMMA MaxIs ==
  ASSUME NEW n \in Nat, NEW S, S \subseteq 0..n, NEW x \in S, \A y \in S : y <= x
  PROVE  Max(S) = x
<1>1. Max(S) \in S /\ \A y \in S : y <= Max(S) BY MaxFacts
<1>2. Max(S) \in 0..n /\ x \in 0..n BY <1>1
<1>3. Max(S) <= x /\ x <= Max(S) BY <1>1
<1> QED BY <1>2, <1>3

\* When every step is placed the groups are those of the definition.
LEMMA AllPlaced ==
  ASSUME BuildTypes, Grouped, Explicit(steps), \A s \in Index(steps) : Placed(s)
  PROVE  [k \in DOMAIN groups |-> ToSet(groups[k])] = Groups(steps)
<1> DEFINE n == Len(groups)
           N == Len(steps.depends_on)
           depth == [s \in Index(steps) |-> CHOOSE k \in DOMAIN groups : In(s, k)]
<1>1. steps \in Pipelines /\ groups \in Seq(Seq(Index(steps))) BY DEF BuildTypes
<1>2. StepList(steps) BY <1>1, PipelineAssumption DEF StepList
<1>3. Index(steps) = 1..N /\ N \in Nat BY <1>1, StepsFacts
<1>4. DOMAIN groups = 1..n /\ n \in Nat BY <1>1
<1>5. \A s \in Index(steps) : depth[s] \in 1..n /\ In(s, depth[s])
  BY <1>4 DEF Placed
<1>6. \A s \in Index(steps) : \A k : In(s, k) => k = depth[s] BY <1>5 DEF Grouped
<1> HIDE DEF depth
<1>7. \A s, k : In(s, k) => s \in Index(steps)
  <2>1. \A k \in DOMAIN groups : groups[k] \in Seq(Index(steps)) BY <1>1
  <2> QED BY <2>1, ToSetFacts DEF In
<1>8. \A k \in 1..n : \E s \in Index(steps) : depth[s] = k
  <2> TAKE k \in 1..n
  <2>1. groups[k] \in Seq(Index(steps)) /\ groups[k] # <<>> BY <1>1, <1>4 DEF Grouped
  <2>2. ToSet(groups[k]) # {} BY <2>1, ToSetFacts
  <2>3. PICK s : In(s, k) BY <1>4, <2>2 DEF In
  <2> QED BY <1>6, <1>7, <2>3
<1>9. \A s \in Index(steps) : Layer(s, depth[s]) BY <1>5 DEF Grouped, In
<1>10. \A s \in Index(steps) : \A d \in Deps(s) : d \in Index(steps) /\ depth[d] < depth[s]
  <2> SUFFICES ASSUME NEW s \in Index(steps), NEW d \in Deps(s)
               PROVE  d \in Index(steps) /\ depth[d] < depth[s]
    OBVIOUS
  <2>1. d \in Index(steps) BY <1>1, StepsFacts
  <2>2. PICK j \in 1..(depth[s] - 1) : In(d, j) BY <1>9 DEF Layer
  <2>3. j = depth[d] /\ depth[s] \in Nat BY <1>4, <1>5, <1>6, <2>1, <2>2
  <2> QED BY <2>1, <2>2, <2>3
<1>11. \A s \in Index(steps) : depth[s] # 1 => \E d \in Deps(s) : depth[d] = depth[s] - 1
  BY <1>6, <1>9, <1>10 DEF Layer
<1>12. \A s \in Index(steps) : Deps(s) = {} => depth[s] = 1 BY <1>11
<1>13. \A s \in Index(steps) : Deps(s) # {} =>
         depth[s] = 1 + Max({depth[d] : d \in Dependencies(steps, s)})
  <2> SUFFICES ASSUME NEW s \in Index(steps), Deps(s) # {}
               PROVE  depth[s] = 1 + Max({depth[d] : d \in Dependencies(steps, s)})
    OBVIOUS
  <2> DEFINE S == {depth[d] : d \in Dependencies(steps, s)}
  <2>1. \A d \in Dependencies(steps, s) : d \in Index(steps) /\ depth[d] < depth[s]
    BY <1>10 DEF Deps
  <2>2. \A d \in Dependencies(steps, s) : depth[d] \in 0..n /\ depth[d] <= depth[s] - 1
    BY <1>4, <1>5, <2>1
  <2>3. S \subseteq 0..n BY <2>2
  <2>4. depth[s] # 1 BY <1>4, <1>5, <2>1 DEF Deps
  <2>5. depth[s] - 1 \in S BY <1>11, <2>4 DEF Deps
  <2>6. \A y \in S : y <= depth[s] - 1 BY <2>2
  <2> HIDE DEF S
  <2>7. Max(S) = depth[s] - 1 BY <1>4, <2>3, <2>5, <2>6, MaxIs
  <2>8. depth[s] = 1 + Max(S) BY <1>4, <1>5, <2>7
  <2> QED BY <2>8 DEF S
<1>14. \A s \in Index(steps) : depth[s] \in Index(steps)
  <2>1. n <= N
    <3>1. depth \in [Index(steps) -> 1..n]
      BY <1>5 DEF depth
    <3>2. depth \in Surjection(Index(steps), 1..n) BY <1>8, <3>1 DEF Surjection
    <3>3. IsFiniteSet(Index(steps)) /\ Cardinality(Index(steps)) = N BY <1>1, StepsFacts
    <3>4. Cardinality(1..n) <= Cardinality(Index(steps)) BY <3>2, <3>3, FS_Surjection DEF ExistsSurjection
    <3>5. n \in Nat /\ 1 \in Int /\ n \in Int BY <1>4
    <3> HIDE DEF n
    <3>6. Cardinality(1..n) = IF 1 > n THEN 0 ELSE n - 1 + 1 BY <3>5, FS_Interval
    <3>7. Cardinality(1..n) = n BY <3>5, <3>6
    <3> QED BY <3>3, <3>4, <3>7
  <2> QED BY <1>3, <1>4, <1>5, <2>1
<1>15. depth \in [Index(steps) -> Index(steps)] BY <1>14 DEF depth
<1>16. depth \in Depths(steps) BY <1>12, <1>13, <1>15 DEF Depths, Deps
<1>17. (CHOOSE f \in Depths(steps) : TRUE) = depth BY <1>2, <1>16, DepthsUnique
<1>18. Groups(steps) = [k \in 1..Max({depth[i] : i \in Index(steps)}) |->
                         {i \in Index(steps) : depth[i] = k}]
  BY <1>16, <1>17 DEF Groups
<1>19. Max({depth[i] : i \in Index(steps)}) = n
  <2> DEFINE S == {depth[i] : i \in Index(steps)}
  <2>1. PICK i \in Index(steps) : TRUE BY DEF Explicit
  <2>2. n \in 1..n BY <1>4, <1>5, <2>1
  <2>3. n \in S BY <1>8, <2>2
  <2>4. S \subseteq 0..n /\ \A y \in S : y <= n
    <3>1. \A s \in Index(steps) : depth[s] \in 0..n /\ depth[s] <= n BY <1>4, <1>5
    <3> QED BY <3>1
  <2> HIDE DEF S
  <2>5. Max(S) = n BY <1>4, <2>3, <2>4, MaxIs
  <2> QED BY <2>5 DEF S
<1>20. \A k \in 1..n : ToSet(groups[k]) = {i \in Index(steps) : depth[i] = k}
  <2> TAKE k \in 1..n
  <2>1. \A s : s \in ToSet(groups[k]) <=> In(s, k) BY <1>4 DEF In
  <2>2. \A s \in Index(steps) : In(s, k) <=> depth[s] = k BY <1>5, <1>6
  <2> QED BY <1>7, <2>1, <2>2
<1> QED BY <1>4, <1>18, <1>19, <1>20

\* When some step is not, no depths exist: the least deep of those steps
\* would only wait for steps that are placed.
LEMMA NotAllPlaced ==
  ASSUME BuildTypes, Recorded, EdgesCounted, NextGroup, stage = "while", ready = <<>>,
         NEW s \in Index(steps), ~Placed(s)
  PROVE  Depths(steps) = {}
<1>1. SUFFICES ASSUME NEW f \in Depths(steps) PROVE FALSE OBVIOUS
<1>2. steps \in Pipelines /\ StepList(steps) BY PipelineAssumption DEF BuildTypes, StepList
<1>3. PICK n \in Nat : Index(steps) = 1..n BY <1>2, IndexFacts
<1>4. f \in [Index(steps) -> Index(steps)] BY DEF Depths
<1>15. \A j \in Index(steps) : f[j] \in Nat BY <1>3, <1>4
<1> DEFINE S == {f[i] : i \in {j \in Index(steps) : ~Placed(j)}}
<1>5. S \subseteq Nat /\ S # {}
  <2>2. f[s] \in S OBVIOUS
  <2> QED BY <1>15, <2>2
<1>6. Min(S) \in S /\ \A y \in S : Min(S) <= y BY <1>5, MinFacts
<1>7. PICK i \in Index(steps) : ~Placed(i) /\ Min(S) = f[i] BY <1>6
<1>8. \A j \in Index(steps) : ~Placed(j) => f[i] <= f[j] BY <1>6, <1>7
<1> HIDE DEF S
<1>9. in_degree[i] # 0
  <2>1. Coming = <<>> BY DEF Coming
  <2>2. ToSet(<<>>) = {} BY DEF ToSet
  <2> QED BY <1>7, <2>1, <2>2 DEF NextGroup
<1>10. PICK d \in Deps(i) : \E m \in DOMAIN dependents[d] : ~Freed(<<d, m>>)
  BY <1>9, SomeOpen
<1>11. ~Placed(d)
  <2>1. PICK e : e[1] = d /\ ~Freed(e) BY <1>10
  <2> QED BY <2>1 DEF Freed, Placed
<1>12. d \in Index(steps) BY <1>2, StepsFacts
<1>13. f[d] < f[i] BY <1>2, DepthFacts DEF Deps
<1>14. f[d] \in Nat /\ f[i] \in Nat BY <1>7, <1>12, <1>15
<1> QED BY <1>8, <1>11, <1>12, <1>13, <1>14

LEMMA ReturnBuild == ASSUME BuildInv, BuildReturn PROVE BuildInv'
<1>1. /\ stage = "while" /\ ready = <<>> /\ steps \in Pipelines
      /\ returned' = IF visited < Len(steps.depends_on) THEN OnePerGroup ELSE groups
      /\ stage' = "returned" /\ UNCHANGED <<steps, lists, placed, pos>>
  BY DEF BuildInv, BuildTypes, BuildReturn
<1>2. BuildTypes /\ Recorded /\ EdgesCounted /\ Grouped /\ NextGroup BY <1>1 DEF BuildInv
<1>3. BuildTypes' BY <1>1, <1>2 DEF BuildTypes, lists, placed
<1> DEFINE P == {s \in Index(steps) : Placed(s)}
<1>4. /\ visited = Cardinality(P) /\ IsFiniteSet(Index(steps)) /\ P \subseteq Index(steps)
      /\ Cardinality(Index(steps)) = Len(steps.depends_on) /\ Len(steps.depends_on) \in Nat
  BY <1>1, <1>2, StepsFacts DEF Grouped
<1>5. CASE visited < Len(steps.depends_on)
  <2>1. P # Index(steps)
    <3>1. P = Index(steps) => Cardinality(P) = Cardinality(Index(steps)) OBVIOUS
    <3> HIDE DEF P
    <3>2. Cardinality(P) \in Nat BY <1>4, FS_Subset, FS_CardinalityType
    <3> QED BY <1>4, <1>5, <3>1, <3>2
  <2>2. PICK s \in Index(steps) : ~Placed(s) BY <2>1
  <2>3. Depths(steps) = {} BY <1>1, <1>2, <2>2, NotAllPlaced
  <2>4. Groups(steps) = Sequential(steps) BY <2>3 DEF Groups
  <2>5. [k \in DOMAIN OnePerGroup |-> ToSet(OnePerGroup[k])] = Sequential(steps)
    BY DEF OnePerGroup, Sequential, ToSet
  <2>6. ComputesGroups' BY <1>1, <1>5, <2>4, <2>5 DEF ComputesGroups
  <2> QED BY <1>1, <1>3, <2>6 DEF BuildInv
<1>6. CASE ~(visited < Len(steps.depends_on))
  <2>1. P = Index(steps)
    <3> HIDE DEF P
    <3>1. Cardinality(P) \in Nat /\ Cardinality(P) <= Cardinality(Index(steps))
      BY <1>4, FS_Subset, FS_CardinalityType
    <3>2. Cardinality(P) = Cardinality(Index(steps)) BY <1>4, <1>6, <3>1
    <3> QED BY <1>4, <3>2, FS_Subset
  <2>2. \A s \in Index(steps) : Placed(s) BY <2>1
  <2>3. returned' = groups BY <1>1, <1>6
  <2>4. Explicit(steps) BY <1>1, <1>2 DEF BuildTypes
  <2>5. [k \in DOMAIN groups |-> ToSet(groups[k])] = Groups(steps)
    BY <1>2, <2>2, <2>4, AllPlaced
  <2>6. ComputesGroups' BY <1>1, <2>3, <2>5 DEF ComputesGroups
  <2> QED BY <1>1, <1>3, <2>6 DEF BuildInv
<1> QED BY <1>5, <1>6

LEMMA NextBuild == BuildInv /\ [BuildNext]_buildVars => BuildInv'
<1> SUFFICES ASSUME BuildInv, [BuildNext]_buildVars PROVE BuildInv' OBVIOUS
<1>1. CASE Depend BY <1>1, DependBuild
<1>2. CASE NextList BY <1>2, NextListBuild
<1>3. CASE NoDependencies BY <1>3, NoDependenciesBuild
<1>4. CASE Declared BY <1>4, DeclaredBuild
<1>5. CASE Root BY <1>5, RootBuild
<1>6. CASE RootsEnd BY <1>6, RootsEndBuild
<1>7. CASE TakeReady BY <1>7, TakeReadyBuild
<1>8. CASE Release BY <1>8, ReleaseBuild
<1>9. CASE NextMember BY <1>9, NextMemberBuild
<1>10. CASE ForEnds BY <1>10, ForEndsBuild
<1>11. CASE BuildReturn BY <1>11, ReturnBuild
<1>12. CASE UNCHANGED buildVars
  <2>1. UNCHANGED <<steps, lists, placed, stage, pos, returned>> BY <1>12 DEF buildVars
  <2>2. BuildTypes' BY <2>1 DEF BuildInv, BuildTypes, lists, placed
  <2>3. ComputesGroups' BY <2>1 DEF BuildInv, ComputesGroups
  <2>4. ASSUME stage # "returned" PROVE (Recorded /\ EdgesCounted /\ Grouped /\ NextGroup /\ Current)'
    <3>1. Recorded /\ EdgesCounted /\ Grouped /\ NextGroup /\ Current BY <2>4 DEF BuildInv
    <3>2. Recorded' BY <2>1, <3>1, RecordedKept DEF Seen, lists
    <3>3. Grouped' BY <2>1, <3>1, GroupsKept DEF placed
    <3>4. EdgesCounted' BY <2>1, <3>1, EdgesKept DEF Freed, In, Passed, placed
    <3>5. NextGroup' BY <2>1, <3>1, ComingKept DEF Coming, placed, lists
    <3>6. Current' BY <2>1, <3>1 DEF Current, Distinct, placed
    <3> QED BY <3>2, <3>3, <3>4, <3>5, <3>6
  <2> QED BY <2>1, <2>2, <2>3, <2>4 DEF BuildInv
<1> QED BY <1>1, <1>2, <1>3, <1>4, <1>5, <1>6, <1>7, <1>8, <1>9, <1>10, <1>11, <1>12 DEF BuildNext

\* Whatever a list of steps declares, repeated, circular and out-of-range
\* dependencies included, _build_execution_groups returns the groups of the
\* definition.
THEOREM GroupsComputed == BuildSpec => []ComputesGroups
<1>1. BuildInit => BuildInv BY InitBuild
<1>2. BuildInv /\ [BuildNext]_buildVars => BuildInv' BY NextBuild
<1>3. BuildInv => ComputesGroups BY DEF BuildInv
<1> QED BY <1>1, <1>2, <1>3, PTL DEF BuildSpec

-----------------------------------------------------------------------------
(* The inductive invariant *)

\* What a request keeps: its types.  D are the transactions there are.
StepSets(p) == SUBSET Index(p)
ResultTypes(p) ==
  [status : Statuses, done : StepSets(p), failed : StepSets(p), cancelled : StepSets(p),
   awaiting : SUBSET p.confirm]
CheckpointTypes(p) ==
  [result : ResultTypes(p), steps : BOOLEAN, confirmed : SUBSET p.confirm]
Places == {"idle", "mark", "load", "gate", "groups", "steps", "journal", "key", "read",
           "write", "executed", "clear"}
Outs(p) == UNION {[D -> {"completed", "failed", "cancelled"}] : D \in StepSets(p)}
Locals(p) ==
  [pc : Places, auto : BOOLEAN, tx : Nat, ask : Nat, confirmed : SUBSET p.confirm,
   result : ResultTypes(p), group : Nat, todo : StepSets(p), out : Outs(p), guarded : BOOLEAN,
   at : {None} \cup p.confirm, put : SUBSET {"steps", "confirmed"},
   payload : CheckpointTypes(p), next : {"idle", "groups", "executed"}]

Typed(p, D, l) ==
  /\ l \in Locals(p)
  /\ l.tx \in {None} \cup D
  /\ DOMAIN l.out \subseteq l.todo
  /\ l.pc = "journal" => l.at \in p.confirm
  /\ l.pc = "key" => l.ask \in D

\* In the loop of execute(), or at a checkpoint that returns to it.
InLoop(l) == l.pc \in {"groups", "steps"} \/ (l.pc \in {"read", "write"} /\ l.next = "groups")

Clean(l) == l.result.failed = {} /\ l.result.cancelled = {}

\* As long as nothing failed the groups before the present one are completed;
\* what runs is the rest of the present one.
Looped(p, l) ==
  /\ l.pc # "steps" => l.todo = {}
  /\ l.pc \in {"mark", "load", "gate"} => l.group = 0
  /\ l.pc = "gate" \/ InLoop(l) => l.result.status = "running"
  /\ InLoop(l) /\ Clean(l) =>
       \A j \in DOMAIN Plan[p] :
         j < l.group \/ (j = l.group /\ l.pc # "steps") => Plan[p][j] \subseteq l.result.done
  /\ l.pc = "steps" => /\ Clean(l) /\ l.group \in DOMAIN Plan[p]
                       /\ l.todo = Plan[p][l.group] \ l.result.done

\* What counts as completed was completed, and a completed pipeline is all
\* of it.
Counted(p, c, result) ==
  /\ \A i \in result.done : c[i] > 0
  /\ result.status = "completed" => result.done = Index(p)

Ended(c, l) == \A i \in DOMAIN l.out : l.out[i] = "completed" => c[i] > 0

\* The step to pause before is the first open one and still to come.
Asked(p, l) ==
  InLoop(l) =>
    \/ l.auto
    \/ l.at = None /\ p.confirm \subseteq l.confirmed
    \/ /\ l.at \in p.confirm
       /\ \A b \in p.confirm \ l.confirmed : l.at <= b
       /\ \A k \in DOMAIN Plan[p] : l.at \in Plan[p][k] => k > l.group

Good(p, D, c, l) ==
  Typed(p, D, l) /\ Looped(p, l) /\ Counted(p, c, l.result) /\ Ended(c, l) /\ Asked(p, l)

Stored ==
  /\ pipe \in Pipelines
  /\ ckpt \in CheckpointTypes(pipe)
  /\ Counted(pipe, completions, ckpt.result)
  /\ tx \in Seq([status : {"pending", "confirmed", "executed"}, step : pipe.confirm])
  /\ pending \in {None, Other} \cup DOMAIN tx
  /\ completions \in [Index(pipe) -> Nat]
  /\ confirms \in 0..MaxConfirms /\ faults \in 0..MaxFaults

IInv ==
  /\ Stored
  /\ req \in [Requests -> Locals(pipe)]
  /\ \A r \in Requests : Good(pipe, DOMAIN tx, completions, req[r])
  /\ AsksInOrder

-----------------------------------------------------------------------------
(* Facts about types *)

LEMMA PlanFacts ==
  ASSUME NEW p \in Pipelines
  PROVE  Layered(p, Plan[p]) /\ p.confirm \subseteq Index(p) /\ Index(p) \subseteq Nat \ {0}
<1>1. StepList(p) BY PipelineAssumption DEF StepList
<1>2. Plan[p] = Groups(p) BY DEF Plan
<1> QED BY <1>1, <1>2, GroupsLayered, IndexFacts DEF StepList

LEMMA NewResultType ==
  ASSUME NEW p, NEW done \in SUBSET Index(p)
  PROVE  /\ NewResult(done) \in ResultTypes(p)
         /\ NewResult(done).status = "running" /\ NewResult(done).done = done
         /\ NewResult(done).failed = {} /\ NewResult(done).cancelled = {}
BY DEF NewResult, ResultTypes, StepSets, Statuses

LEMMA NoCheckpointType ==
  ASSUME NEW p
  PROVE  NoCheckpoint \in CheckpointTypes(p) /\ NoCheckpoint.result.done = {}
         /\ NoCheckpoint.result.status = "none"
BY DEF NoCheckpoint, NewResult, CheckpointTypes, ResultTypes, StepSets, Statuses

LEMMA IdleType ==
  ASSUME NEW p
  PROVE  /\ Idle \in Locals(p)
         /\ Idle.pc = "idle" /\ Idle.tx = None /\ Idle.todo = {} /\ DOMAIN Idle.out = {}
         /\ Idle.group = 0 /\ Idle.result = NewResult({}) /\ Idle.next = "idle"
<1>1. <<>> \in Outs(p)
  <2>1. <<>> \in [{} -> {"completed", "failed", "cancelled"}] OBVIOUS
  <2> QED BY <2>1 DEF Outs, StepSets
<1>2. NewResult({}) \in ResultTypes(p) BY NewResultType
<1>3. NoCheckpoint \in CheckpointTypes(p) BY NoCheckpointType
<1> QED BY <1>1, <1>2, <1>3 DEF Idle, Locals, Places, StepSets, None

\* A request that is not in the loop and runs no steps.
LEMMA Quiet ==
  ASSUME NEW p, NEW D, NEW c, NEW l \in Locals(p), l.tx \in {None} \cup D,
         l.pc \notin {"steps", "mark", "load", "gate"}, ~InLoop(l),
         l.todo = {}, DOMAIN l.out = {},
         l.pc = "journal" => l.at \in p.confirm,
         l.pc = "key" => l.ask \in D,
         Counted(p, c, l.result)
  PROVE  Good(p, D, c, l)
BY DEF Good, Typed, Looped, Ended, Asked

LEMMA IdleGood ==
  ASSUME NEW p, NEW D, NEW c
  PROVE  Good(p, D, c, Idle)
<1>1. Counted(p, c, Idle.result) BY NewResultType, IdleType DEF Counted
<1> QED BY <1>1, IdleType, Quiet DEF InLoop

\* Where a request begins.
LEMMA EntryGood ==
  ASSUME NEW p, NEW D, NEW c, NEW l \in Locals(p), l.tx \in {None} \cup D,
         l.pc \in {"mark", "load", "gate"}, l.group = 0, l.todo = {}, DOMAIN l.out = {},
         l.pc = "gate" => l.result.status = "running", Counted(p, c, l.result)
  PROVE  Good(p, D, c, l)
BY DEF Good, Typed, Looped, Ended, Asked, InLoop

\* Nothing a request relies on is taken away by transactions that are added
\* and steps that are completed.
LEMMA GoodKept ==
  ASSUME NEW p, NEW D, NEW c \in [Index(p) -> Nat], NEW l, Good(p, D, c, l),
         NEW E, D \subseteq E, NEW d \in [Index(p) -> Nat], \A i \in Index(p) : d[i] >= c[i]
  PROVE  Good(p, E, d, l)
<1>1. Typed(p, E, l) BY DEF Good, Typed
<1>2. l \in Locals(p) BY DEF Good, Typed
<1>3. l.result.done \subseteq Index(p) BY <1>2 DEF Locals, ResultTypes, StepSets
<1>4. DOMAIN l.out \subseteq Index(p) BY <1>2 DEF Good, Typed, Locals, StepSets
<1>5. Counted(p, d, l.result) BY <1>3 DEF Good, Counted
<1>6. Ended(d, l) BY <1>4 DEF Good, Ended
<1> QED BY <1>1, <1>5, <1>6 DEF Good

LEMMA CheckpointFields ==
  ASSUME NEW p, NEW l \in Locals(p), NEW put \in SUBSET {"steps", "confirmed"},
         NEW next \in {"idle", "groups", "executed"}
  PROVE  LET m == Checkpoint(l, put, next) IN
         /\ m \in Locals(p) /\ m.pc = "read" /\ m.next = next /\ m.put = put
         /\ m.auto = l.auto /\ m.tx = l.tx /\ m.at = l.at
         /\ m.confirmed = l.confirmed /\ m.result = l.result /\ m.group = l.group
         /\ m.todo = l.todo /\ m.out = l.out
BY DEF Checkpoint, Locals, Places

LEMMA PauseGood ==
  ASSUME NEW p, NEW D, NEW c, NEW l \in Locals(p), l.tx \in {None} \cup D,
         l.todo = {}, DOMAIN l.out = {}, Counted(p, c, l.result), NEW i \in p.confirm
  PROVE  Good(p, D, c, Pause(l, i))
<1> DEFINE m == Pause(l, i)
<1>1. l.result \in ResultTypes(p) BY DEF Locals
<1>2. PICK res : res = [l.result EXCEPT !.status = "awaiting_confirmation", !.awaiting = @ \cup {i}]
  OBVIOUS
<1>3. res \in ResultTypes(p) /\ res.status = "awaiting_confirmation" /\ res.done = l.result.done
  BY <1>1, <1>2 DEF ResultTypes, Statuses
<1>4. m = [l EXCEPT !.pc = "journal", !.at = i, !.result = res] BY <1>2 DEF Pause, Locals
<1>5. m \in Locals(p) BY <1>3, <1>4 DEF Locals, Places
<1>6. /\ m.pc = "journal" /\ m.at = i /\ m.result = res /\ m.tx = l.tx /\ m.todo = {}
      /\ DOMAIN m.out = {}
  BY <1>4 DEF Locals
<1>7. Counted(p, c, m.result) BY <1>3, <1>6 DEF Counted
<1> HIDE DEF m
<1> QED BY <1>5, <1>6, <1>7, Quiet DEF InLoop, m

LEMMA SettleGood ==
  ASSUME NEW p, NEW D, NEW c, NEW l \in Locals(p), l.tx \in {None} \cup D,
         l.todo = {}, DOMAIN l.out = {}, Counted(p, c, l.result),
         FinalStatus(l.result) = "completed" => l.result.done = Index(p)
  PROVE  Good(p, D, c, Settle(l))
<1> DEFINE m == [l EXCEPT !.result.status = FinalStatus(l.result), !.guarded = FALSE]
           next == IF l.tx = None THEN "idle" ELSE "executed"
<1>1. l.result \in ResultTypes(p) BY DEF Locals
<1>2. FinalStatus(l.result) \in Statuses BY <1>1 DEF ResultTypes, FinalStatus, Statuses
<1>3. PICK res : res = [l.result EXCEPT !.status = FinalStatus(l.result)] OBVIOUS
<1>4. res \in ResultTypes(p) /\ res.status = FinalStatus(l.result) /\ res.done = l.result.done
  BY <1>1, <1>2, <1>3 DEF ResultTypes
<1>5. m = [l EXCEPT !.result = res, !.guarded = FALSE] BY <1>3 DEF Locals
<1>6. m \in Locals(p) BY <1>4, <1>5 DEF Locals
<1>7. m.result = res /\ m.tx = l.tx /\ m.todo = {} /\ m.out = l.out BY <1>5 DEF Locals
<1>8. Settle(l) = Checkpoint(m, {}, next) BY DEF Settle
<1> HIDE DEF m
<1>9. /\ Settle(l) \in Locals(p) /\ Settle(l).pc = "read" /\ Settle(l).next # "groups"
      /\ Settle(l).tx = l.tx /\ Settle(l).result = res /\ Settle(l).todo = {}
      /\ DOMAIN Settle(l).out = {}
  BY <1>6, <1>7, <1>8, CheckpointFields
<1>10. Counted(p, c, Settle(l).result) BY <1>4, <1>9 DEF Counted
<1> QED BY <1>9, <1>10, Quiet DEF InLoop

-----------------------------------------------------------------------------
(* One lemma per group of actions *)

LEMMA StoreKept ==
  ASSUME Stored, UNCHANGED <<pipe, store, completions>>,
         confirms' \in 0..MaxConfirms, faults' \in 0..MaxFaults
  PROVE  Stored'
BY DEF Stored, store

LEMMA AsksKept == ASSUME AsksInOrder, UNCHANGED <<pipe, bare>> PROVE AsksInOrder'
BY DEF AsksInOrder, InOrder

LEMMA RequestsKept ==
  ASSUME IInv, NEW r \in Requests, NEW l, Becomes(r, l), pipe' = pipe, Stored',
         DOMAIN tx \subseteq DOMAIN tx', \A i \in Index(pipe) : completions'[i] >= completions[i],
         Good(pipe, DOMAIN tx', completions', l), AsksInOrder'
  PROVE  IInv'
<1>1. completions \in [Index(pipe) -> Nat] /\ completions' \in [Index(pipe) -> Nat]
  BY DEF IInv, Stored
<1>2. l \in Locals(pipe) BY DEF Good, Typed
<1>3. req \in [Requests -> Locals(pipe)] BY DEF IInv
<1>4. req' \in [Requests -> Locals(pipe)] /\ req'[r] = l /\ \A q \in Requests \ {r} : req'[q] = req[q]
  BY <1>2, <1>3 DEF Becomes
<1>5. ASSUME NEW q \in Requests PROVE Good(pipe, DOMAIN tx', completions', req'[q])
  <2>1. Good(pipe, DOMAIN tx, completions, req[q]) BY DEF IInv
  <2>2. Good(pipe, DOMAIN tx', completions', req[q]) BY <1>1, <2>1, GoodKept
  <2> QED BY <1>4, <2>2
<1> QED BY <1>4, <1>5 DEF IInv

\* The request that moved is the only thing that changed.
LEMMA Moves ==
  ASSUME IInv, NEW r \in Requests, NEW l, Becomes(r, l),
         UNCHANGED <<pipe, store, completions, bare>>,
         confirms' \in 0..MaxConfirms, faults' \in 0..MaxFaults,
         Good(pipe, DOMAIN tx, completions, l)
  PROVE  IInv'
<1>1. Stored' /\ AsksInOrder' BY StoreKept, AsksKept DEF IInv
<1>2. \A i \in Index(pipe) : completions'[i] >= completions[i] BY DEF IInv, Stored
<1>3. tx' = tx /\ completions' = completions BY DEF store
<1> QED BY <1>1, <1>2, <1>3, RequestsKept

\* What the invariant says of the request that moves.
LEMMA Mine ==
  ASSUME IInv, NEW r \in Requests
  PROVE  /\ pipe \in Pipelines /\ completions \in [Index(pipe) -> Nat]
         /\ req[r] \in Locals(pipe) /\ Good(pipe, DOMAIN tx, completions, req[r])
         /\ req[r].tx \in {None} \cup DOMAIN tx /\ Counted(pipe, completions, req[r].result)
         /\ DOMAIN req[r].out \subseteq req[r].todo
         /\ req[r].pc # "steps" => req[r].todo = {} /\ DOMAIN req[r].out = {}
         /\ confirms \in 0..MaxConfirms /\ faults \in 0..MaxFaults
BY DEF IInv, Stored, Good, Typed, Looped

LEMMA FaultBound == ASSUME faults \in 0..MaxFaults, Fault PROVE faults' \in 0..MaxFaults
BY BoundsAssumption DEF Fault

LEMMA InitIInv == Init => IInv
<1> SUFFICES ASSUME Init PROVE IInv OBVIOUS
<1>1. \A r \in Requests : Good(pipe, DOMAIN tx, completions, req[r])
  BY IdleGood DEF Init
<1>2. req \in [Requests -> Locals(pipe)] BY IdleType DEF Init
<1>3. Counted(pipe, completions, ckpt.result) BY NoCheckpointType DEF Init, Counted
<1>4. Stored BY <1>3, NoCheckpointType, BoundsAssumption DEF Init, Stored
<1> QED BY <1>1, <1>2, <1>4 DEF IInv, AsksInOrder, Init

LEMMA StartStep ==
  ASSUME IInv, NEW r \in Requests, NEW auto \in BOOLEAN, Start(r, auto)
  PROVE  IInv'
<1> DEFINE l == [Idle EXCEPT !.pc = "gate", !.auto = auto]
<1>1. /\ l \in Locals(pipe) /\ l.pc = "gate" /\ l.tx = None /\ l.todo = {} /\ DOMAIN l.out = {}
      /\ l.group = 0 /\ l.result = NewResult({})
  BY IdleType DEF Locals, Places
<1>2. Counted(pipe, completions, NewResult({})) BY NewResultType DEF Counted
<1>3. Good(pipe, DOMAIN tx, completions, l)
  <2> HIDE DEF l
  <2> QED BY <1>1, <1>2, EntryGood, NewResultType
<1>4. Becomes(r, l) BY DEF Start
<1> HIDE DEF l
<1> QED BY <1>3, <1>4, Moves, Mine DEF Start

LEMMA LookupStep == ASSUME IInv, NEW r \in Requests, Lookup(r) PROVE IInv'
<1> DEFINE l == [Idle EXCEPT !.pc = "mark", !.tx = pending]
<1>0. pending \in DOMAIN tx /\ pending \in Nat BY DEF Lookup, IInv, Stored
<1>1. /\ l \in Locals(pipe) /\ l.pc = "mark" /\ l.tx = pending /\ l.todo = {} /\ DOMAIN l.out = {}
      /\ l.group = 0 /\ l.result = NewResult({})
  BY <1>0, IdleType DEF Locals, Places
<1>2. Counted(pipe, completions, NewResult({})) BY NewResultType DEF Counted
<1>3. Good(pipe, DOMAIN tx, completions, l)
  <2> HIDE DEF l
  <2> QED BY <1>0, <1>1, <1>2, EntryGood, NewResultType
<1>4. Becomes(r, l) BY DEF Lookup
<1>5. confirms' \in 0..MaxConfirms BY Mine, BoundsAssumption DEF Lookup
<1> HIDE DEF l
<1> QED BY <1>3, <1>4, <1>5, Moves, Mine DEF Lookup

LEMMA Marked ==
  ASSUME IInv, NEW k, NEW s \in {"pending", "confirmed", "executed"},
         tx' = [tx EXCEPT ![k].status = s],
         UNCHANGED <<pipe, ckpt, pending, completions, confirms, faults>>
  PROVE  Stored' /\ DOMAIN tx' = DOMAIN tx
<1> DEFINE T == [status : {"pending", "confirmed", "executed"}, step : pipe.confirm]
<1>1. tx \in Seq(T) BY DEF IInv, Stored
<1>2. \A t \in T : [t EXCEPT !.status = s] \in T OBVIOUS
<1> HIDE DEF T
<1>3. DOMAIN tx' = DOMAIN tx OBVIOUS
<1>4. ASSUME NEW i \in DOMAIN tx
      PROVE  tx[i] \in T /\ (tx'[i] = tx[i] \/ tx'[i] = [tx[i] EXCEPT !.status = s])
  <2>1. tx[i] \in T BY <1>1
  <2>2. tx' = [j \in DOMAIN tx |-> IF j = k THEN [tx[j] EXCEPT !.status = s] ELSE tx[j]]
    OBVIOUS
  <2>3. tx'[i] = IF i = k THEN [tx[i] EXCEPT !.status = s] ELSE tx[i] BY <2>2, Zenon
  <2> QED BY <2>1, <2>3
<1>5. Len(tx) \in Nat /\ DOMAIN tx = 1..Len(tx) BY <1>1
<1>6. tx' = [i \in 1..Len(tx) |-> tx'[i]] BY <1>3, <1>5
<1>7. tx' \in Seq(T)
  <2>1. \A i \in 1..Len(tx) : tx'[i] \in T BY <1>2, <1>4, <1>5
  <2>2. tx' \in [1..Len(tx) -> T] BY <1>6, <2>1, Zenon
  <2> QED BY <1>5, <2>2, SeqDef
<1> QED BY <1>3, <1>7 DEF T, IInv, Stored

LEMMA MarkConfirmedStep == ASSUME IInv, NEW r \in Requests, MarkConfirmed(r) PROVE IInv'
<1> DEFINE l == [req[r] EXCEPT !.pc = "load"]
<1>1. /\ l \in Locals(pipe) /\ l.pc = "load" /\ l.tx = req[r].tx /\ l.todo = {} /\ DOMAIN l.out = {}
      /\ l.group = 0 /\ l.result = req[r].result
  <2>1. req[r].group = 0 BY Mine DEF MarkConfirmed, At, Good, Looped
  <2> QED BY <2>1, Mine DEF Locals, Places, MarkConfirmed, At
<1>2. Stored' /\ DOMAIN tx' = DOMAIN tx
  BY Marked DEF MarkConfirmed, Alone, history
<1>3. Becomes(r, l) BY DEF MarkConfirmed
<1>4. AsksInOrder' BY AsksKept DEF IInv, MarkConfirmed, Alone, history
<1> HIDE DEF l
<1>5. Good(pipe, DOMAIN tx, completions, l) BY <1>1, Mine, EntryGood
<1>6. completions' = completions /\ pipe' = pipe BY DEF MarkConfirmed, Alone, history
<1>7. \A i \in Index(pipe) : completions[i] >= completions[i] BY Mine
<1> QED BY <1>2, <1>3, <1>4, <1>5, <1>6, <1>7, RequestsKept

LEMMA LoadStep == ASSUME IInv, NEW r \in Requests, Load(r) PROVE IInv'
<1>1. /\ confirms' \in 0..MaxConfirms /\ faults' \in 0..MaxFaults
      /\ UNCHANGED <<pipe, store, completions, bare>>
  BY Mine DEF Load, Alone, history
<1>2. /\ ckpt.result.done \subseteq Index(pipe) /\ ckpt.confirmed \subseteq pipe.confirm
      /\ ckpt.result.awaiting \subseteq pipe.confirm
      /\ \A i \in ckpt.result.done : completions[i] > 0
  BY DEF IInv, Stored, CheckpointTypes, ResultTypes, StepSets, Counted
<1>3. req[r].group = 0 BY Mine DEF Load, At, Good, Looped
<1>4. CASE ~ckpt.steps
  <2> DEFINE l == [req[r] EXCEPT !.pc = "clear"]
  <2>1. /\ l \in Locals(pipe) /\ l.pc = "clear" /\ l.tx = req[r].tx /\ l.todo = {}
        /\ DOMAIN l.out = {} /\ l.result = req[r].result
    BY Mine DEF Locals, Places, Load, At
  <2>2. Becomes(r, l) BY <1>4 DEF Load
  <2> HIDE DEF l
  <2>3. Good(pipe, DOMAIN tx, completions, l) BY <2>1, Mine, Quiet DEF InLoop
  <2> QED BY <1>1, <2>2, <2>3, Moves
<1>5. CASE ckpt.steps
  <2> DEFINE l == [req[r] EXCEPT !.pc = "gate",
                        !.confirmed = ckpt.confirmed \cup ckpt.result.awaiting,
                        !.result = NewResult(ckpt.result.done)]
  <2>0. ckpt.result.done \in SUBSET Index(pipe) BY <1>2
  <2>6. /\ NewResult(ckpt.result.done) \in ResultTypes(pipe)
        /\ NewResult(ckpt.result.done).status = "running"
        /\ NewResult(ckpt.result.done).done = ckpt.result.done
    BY <2>0, NewResultType
  <2>7. PICK confirmed \in SUBSET pipe.confirm : confirmed = ckpt.confirmed \cup ckpt.result.awaiting
    BY <1>2
  <2>8. PICK k \in Locals(pipe) : k = req[r] /\ k.todo = {} /\ DOMAIN k.out = {}
    BY Mine DEF Load, At
  <2>9. PICK new \in ResultTypes(pipe) : new = NewResult(ckpt.result.done) BY <2>6
  <2>10. l = [k EXCEPT !.pc = "gate", !.confirmed = confirmed, !.result = new]
    BY <2>7, <2>8, <2>9
  <2>1. /\ l \in Locals(pipe) /\ l.pc = "gate" /\ l.tx = req[r].tx /\ l.todo = {}
        /\ DOMAIN l.out = {} /\ l.group = 0 /\ l.result = NewResult(ckpt.result.done)
    <3> HIDE DEF l
    <3>1. l \in Locals(pipe) BY <2>10 DEF Locals, Places
    <3>2. /\ l.pc = "gate" /\ l.tx = k.tx /\ l.todo = k.todo /\ l.out = k.out
          /\ l.group = k.group /\ l.result = new
      BY <2>10 DEF Locals
    <3> QED BY <1>3, <2>8, <2>9, <3>1, <3>2
  <2>2. Becomes(r, l) BY <1>5 DEF Load
  <2> HIDE DEF l
  <2>3. Counted(pipe, completions, l.result) BY <1>2, <2>1, <2>6 DEF Counted
  <2>4. l.result.status = "running" BY <2>1, <2>6
  <2>5. Good(pipe, DOMAIN tx, completions, l) BY <2>1, <2>3, <2>4, Mine, EntryGood
  <2> QED BY <1>1, <2>2, <2>5, Moves
<1> QED BY <1>4, <1>5

LEMMA GateStep == ASSUME IInv, NEW r \in Requests, Gate(r) PROVE IInv'
<1> DEFINE open == pipe.confirm \ req[r].confirmed
<1>1. /\ confirms' \in 0..MaxConfirms /\ faults' \in 0..MaxFaults
      /\ UNCHANGED <<pipe, store, completions, bare>>
  BY Mine DEF Gate, Alone, history
<1>2. req[r].group = 0 /\ req[r].result.status = "running"
  BY Mine DEF Gate, At, Good, Looped
<1>3. pipe.confirm \subseteq Nat \ {0} /\ Layered(pipe, Plan[pipe]) BY Mine, PlanFacts
<1>4. CASE ~req[r].auto /\ req[r].confirmed = {} /\ pipe.confirm # {}
  <2> DEFINE k == [req[r] EXCEPT !.result = NewResult({})]
  <2>1. /\ k \in Locals(pipe) /\ k.tx = req[r].tx /\ k.todo = {}
        /\ DOMAIN k.out = {} /\ k.result = NewResult({})
    BY Mine, NewResultType DEF Locals, Gate, At
  <2>2. Becomes(r, Pause(k, Min(pipe.confirm))) BY <1>4 DEF Gate
  <2> HIDE DEF k
  <2>3. Counted(pipe, completions, k.result) BY <2>1, NewResultType DEF Counted
  <2>4. Min(pipe.confirm) \in pipe.confirm BY <1>3, <1>4, MinFacts
  <2>5. Good(pipe, DOMAIN tx, completions, Pause(k, Min(pipe.confirm)))
    BY <2>1, <2>3, <2>4, Mine, PauseGood
  <2> QED BY <1>1, <2>2, <2>5, Moves
<1>5. CASE ~(~req[r].auto /\ req[r].confirmed = {} /\ pipe.confirm # {})
  <2> DEFINE at == IF req[r].auto \/ open = {} THEN None ELSE Min(open)
             k == [req[r] EXCEPT !.at = at]
             l == Checkpoint(k, {"steps"}, "groups")
  <2>1. open # {} => Min(open) \in open /\ \A b \in open : Min(open) <= b BY <1>3, MinFacts
  <2>2. at \in {None} \cup pipe.confirm BY <2>1
  <2>3. Becomes(r, l) BY <1>5 DEF Gate
  <2> HIDE DEF at
  <2>4. /\ k \in Locals(pipe) /\ k.tx = req[r].tx /\ k.todo = {} /\ k.group = 0
        /\ DOMAIN k.out = {} /\ k.result = req[r].result /\ k.at = at
        /\ k.auto = req[r].auto /\ k.confirmed = req[r].confirmed
    BY <1>2, <2>2, Mine DEF Locals, Gate, At
  <2> HIDE DEF k
  <2>5. /\ l \in Locals(pipe) /\ l.tx = req[r].tx /\ l.todo = {} /\ l.group = 0
        /\ DOMAIN l.out = {} /\ l.result = req[r].result /\ l.at = at
        /\ l.auto = req[r].auto /\ l.confirmed = req[r].confirmed
        /\ l.pc = "read" /\ l.next = "groups"
    BY <2>4, CheckpointFields
  <2> HIDE DEF l
  <2>6. Typed(pipe, DOMAIN tx, l) BY <2>5, Mine DEF Typed
  <2>7. Looped(pipe, l) BY <1>2, <1>3, <2>5 DEF Looped, InLoop, Layered
  <2>8. Asked(pipe, l)
    <3>1. l.auto \/ (at = None /\ pipe.confirm \subseteq l.confirmed)
          \/ (at \in open /\ \A b \in open : at <= b)
      BY <2>1, <2>5 DEF at
    <3>2. \A j \in DOMAIN Plan[pipe] : j > 0 BY <1>3 DEF Layered
    <3> QED BY <2>5, <3>1, <3>2 DEF Asked
  <2>9. Good(pipe, DOMAIN tx, completions, l) BY <2>5, <2>6, <2>7, <2>8, Mine DEF Good, Ended
  <2> QED BY <1>1, <2>3, <2>9, Moves
<1> QED BY <1>4, <1>5

LEMMA ReturnGood ==
  ASSUME NEW p, NEW D, NEW c, NEW l, Good(p, D, c, l), l.pc \in {"read", "write"},
         NEW m, m = IF l.next = "idle" THEN Idle
                    ELSE [l EXCEPT !.pc = l.next, !.put = {}, !.payload = NoCheckpoint,
                                   !.next = "idle"]
  PROVE  Good(p, D, c, m)
<1>1. CASE l.next = "idle" BY <1>1, IdleGood
<1>2. CASE l.next # "idle"
  <2>1. l \in Locals(p) /\ l.tx \in {None} \cup D /\ l.todo = {} /\ DOMAIN l.out = {}
        /\ Counted(p, c, l.result)
    BY DEF Good, Typed, Looped
  <2>2. m = [l EXCEPT !.pc = l.next, !.put = {}, !.payload = NoCheckpoint, !.next = "idle"]
    BY <1>2
  <2>4. l.next \in {"groups", "executed"} BY <1>2, <2>1 DEF Locals
  <2>7. PICK n \in {"groups", "executed"} : n = l.next BY <2>4
  <2>8. PICK none \in CheckpointTypes(p) : none = NoCheckpoint BY NoCheckpointType
  <2>9. m = [l EXCEPT !.pc = n, !.put = {}, !.payload = none, !.next = "idle"]
    BY <2>2, <2>7, <2>8
  <2>3. /\ m \in Locals(p) /\ m.pc = l.next /\ m.next = "idle" /\ m.tx = l.tx /\ m.todo = {}
        /\ m.out = l.out /\ m.result = l.result /\ m.group = l.group /\ m.at = l.at
        /\ m.auto = l.auto /\ m.confirmed = l.confirmed
    <3>1. n \in Places BY <2>7 DEF Places
    <3>2. m \in Locals(p) BY <2>1, <2>9, <3>1 DEF Locals
    <3>3. /\ m.pc = n /\ m.next = "idle" /\ m.tx = l.tx /\ m.todo = l.todo
          /\ m.out = l.out /\ m.result = l.result /\ m.group = l.group /\ m.at = l.at
          /\ m.auto = l.auto /\ m.confirmed = l.confirmed
      BY <2>1, <2>9 DEF Locals
    <3> QED BY <2>1, <2>7, <3>2, <3>3
  <2>5. CASE l.next = "executed" BY <2>1, <2>3, <2>5, Quiet DEF InLoop
  <2>6. CASE l.next = "groups"
    <3>1. InLoop(l) /\ InLoop(m) BY <2>3, <2>6 DEF InLoop
    <3>2. Typed(p, D, m) BY <2>1, <2>3, <2>6 DEF Typed
    <3>3. Looped(p, m) BY <2>1, <2>3, <2>6, <3>1 DEF Good, Looped, Clean
    <3>4. Asked(p, m) BY <2>3, <3>1 DEF Good, Asked
    <3> QED BY <2>1, <2>3, <3>2, <3>3, <3>4 DEF Good, Ended
  <2> QED BY <2>4, <2>5, <2>6
<1> QED BY <1>1, <1>2

\* A loop that ends with nothing failed has completed every group.
LEMMA LoopEndsFacts ==
  ASSUME IInv, NEW r \in Requests, At(r, "groups"), LoopEnds(req[r]), Clean(req[r])
  PROVE  req[r].result.done = Index(pipe)
<1> DEFINE l == req[r]
<1>1. Layered(pipe, Plan[pipe]) BY Mine, PlanFacts
<1>2. InLoop(l) /\ l.pc # "steps" BY DEF At, InLoop
<1>3. l.group \in Nat /\ l.result.done \subseteq Index(pipe)
  BY Mine DEF Locals, ResultTypes, StepSets
<1>4. \A j \in DOMAIN Plan[pipe] : j < l.group \/ j = l.group => Plan[pipe][j] \subseteq l.result.done
  BY <1>2, Mine DEF Good, Looped
<1>5. \A j \in DOMAIN Plan[pipe] : j > l.group => Plan[pipe][j] \subseteq l.result.done
  BY DEF LoopEnds, NextGroups, Clean
<1>6. \A j \in DOMAIN Plan[pipe] : j \in Nat BY <1>1 DEF Layered
<1>7. \A j \in DOMAIN Plan[pipe] : Plan[pipe][j] \subseteq l.result.done
  BY <1>3, <1>4, <1>5, <1>6
<1> QED BY <1>1, <1>3, <1>7 DEF Layered

LEMMA ProceedSettles ==
  ASSUME IInv, NEW r \in Requests, Proceed(r), LoopEnds(req[r])
  PROVE  IInv'
<1> DEFINE k == IF req[r].result.cancelled = {} THEN req[r]
                ELSE [req[r] EXCEPT !.result.status = "cancelled"]
<1>1. At(r, "groups") BY DEF Proceed
<1>2. /\ req[r] \in Locals(pipe) /\ req[r].tx \in {None} \cup DOMAIN tx /\ req[r].todo = {}
      /\ DOMAIN req[r].out = {} /\ Counted(pipe, completions, req[r].result)
  BY <1>1, Mine DEF At
<1>3. Good(pipe, DOMAIN tx, completions, Settle(k))
  <2>1. CASE req[r].result.cancelled = {}
    <3>1. FinalStatus(req[r].result) = "completed" => req[r].result.done = Index(pipe)
      <4>1. req[r].result.status = "running" BY <1>1, Mine DEF Good, Looped, InLoop, At
      <4> QED BY <1>1, <2>1, <4>1, LoopEndsFacts DEF FinalStatus, Clean
    <3>2. k = req[r] BY <2>1
    <3> QED BY <1>2, <3>1, <3>2, SettleGood
  <2>2. CASE req[r].result.cancelled # {}
    <3>1. PICK res : res = [req[r].result EXCEPT !.status = "cancelled"] OBVIOUS
    <3>2. /\ res \in ResultTypes(pipe) /\ res.status = "cancelled"
          /\ res.done = req[r].result.done
      BY <1>2, <3>1 DEF Locals, ResultTypes, Statuses
    <3>3. k = [req[r] EXCEPT !.result = res] BY <1>2, <2>2, <3>1 DEF Locals
    <3> HIDE DEF k
    <3>4. k \in Locals(pipe) BY <1>2, <3>2, <3>3 DEF Locals
    <3>5. k.tx = req[r].tx /\ k.todo = req[r].todo /\ k.out = req[r].out /\ k.result = res
      BY <1>2, <3>3 DEF Locals
    <3>6. Counted(pipe, completions, k.result) BY <1>2, <3>2, <3>5 DEF Counted
    <3>7. FinalStatus(k.result) = "cancelled" BY <3>2, <3>5 DEF FinalStatus
    <3> QED BY <1>2, <3>4, <3>5, <3>6, <3>7, SettleGood
  <2> QED BY <2>1, <2>2
<1>4. Becomes(r, Settle(k)) BY DEF Proceed
<1> HIDE DEF k
<1> QED BY <1>3, <1>4, Moves, Mine DEF Proceed, Alone

LEMMA ProceedPauses ==
  ASSUME IInv, NEW r \in Requests, Proceed(r), ~LoopEnds(req[r]),
         Pauses(req[r], Min(NextGroups(req[r])))
  PROVE  IInv'
<1> DEFINE k == [req[r] EXCEPT !.guarded = TRUE]
<1>1. At(r, "groups") BY DEF Proceed
<1>2. /\ req[r] \in Locals(pipe) /\ req[r].tx \in {None} \cup DOMAIN tx /\ req[r].todo = {}
      /\ DOMAIN req[r].out = {} /\ Counted(pipe, completions, req[r].result)
  BY <1>1, Mine DEF At
<1>3. /\ k \in Locals(pipe) /\ k.tx = req[r].tx /\ k.todo = {} /\ DOMAIN k.out = {}
      /\ k.result = req[r].result
  BY <1>2 DEF Locals
<1>4. Layered(pipe, Plan[pipe]) /\ Index(pipe) \subseteq Nat \ {0} BY Mine, PlanFacts
<1>5. Min(NextGroups(req[r])) \in DOMAIN Plan[pipe]
  <2>1. NextGroups(req[r]) \subseteq Nat /\ NextGroups(req[r]) # {}
    BY <1>4 DEF LoopEnds, NextGroups, Layered
  <2>2. Min(NextGroups(req[r])) \in NextGroups(req[r]) BY <2>1, MinFacts
  <2> QED BY <2>2 DEF NextGroups
<1>6. req[r].at \in pipe.confirm
  BY <1>2, <1>4, <1>5 DEF Pauses, Layered, Locals, None
<1>7. Becomes(r, Pause(k, req[r].at)) /\ bare' = bare BY DEF Proceed
<1> HIDE DEF k
<1>8. Good(pipe, DOMAIN tx, completions, Pause(k, req[r].at)) BY <1>2, <1>3, <1>6, PauseGood
<1> QED BY <1>7, <1>8, Moves, Mine DEF Proceed, Alone

LEMMA ProceedBegins ==
  ASSUME IInv, NEW r \in Requests, Proceed(r), ~LoopEnds(req[r]),
         ~Pauses(req[r], Min(NextGroups(req[r])))
  PROVE  IInv'
<1> DEFINE l == req[r]
           P == Plan[pipe]
           N == NextGroups(l)
           k == Min(N)
           todo == P[k] \ l.result.done
           m == [l EXCEPT !.pc = "steps", !.guarded = TRUE, !.group = k, !.todo = todo, !.out = <<>>]
<1>1. l.pc = "groups" BY DEF Proceed, At
<1>2. l \in Locals(pipe) /\ l.tx \in {None} \cup DOMAIN tx /\ Counted(pipe, completions, l.result)
  BY Mine
<1>3. /\ Layered(pipe, P) /\ Index(pipe) \subseteq Nat \ {0} /\ pipe.confirm \subseteq Index(pipe)
      /\ DOMAIN P \subseteq Nat
  BY Mine, PlanFacts DEF Layered
<1>4. k \in N /\ \A j \in N : k <= j
  <2>1. N \subseteq Nat /\ N # {} BY <1>3 DEF LoopEnds, NextGroups
  <2> QED BY <2>1, MinFacts
<1>5. k \in DOMAIN P /\ k > l.group /\ k \in Nat /\ l.group \in Nat
  BY <1>2, <1>3, <1>4 DEF NextGroups, Locals
<1>6. Clean(l) BY DEF LoopEnds, Clean
<1>7. \A j \in DOMAIN P : j < k => P[j] \subseteq l.result.done
  <2> TAKE j \in DOMAIN P
  <2> HAVE j < k
  <2>1. j \in Nat BY <1>3
  <2>2. CASE j > l.group
    <3>1. j \notin N BY <1>4, <1>5, <2>1
    <3> QED BY <2>2, <3>1 DEF NextGroups
  <2>3. CASE ~(j > l.group)
    <3>1. j < l.group \/ j = l.group BY <1>5, <2>1, <2>3
    <3> QED BY <1>1, <1>6, <3>1, Mine DEF Good, Looped, InLoop
  <2> QED BY <2>2, <2>3
<1>8. Asked(pipe, l) BY Mine DEF Good
<1>9. todo \in StepSets(pipe) BY <1>3, <1>5 DEF Layered, StepSets
<1>10. ~(l.at \in P[k]) BY DEF Pauses
<1>11. \A j \in DOMAIN P : l.at \in P[j] /\ j > l.group => j > k
  <2> TAKE j \in DOMAIN P
  <2> HAVE l.at \in P[j] /\ j > l.group
  <2>1. j \in N BY DEF NextGroups, Pauses
  <2>2. j # k BY <1>10
  <2> QED BY <1>3, <1>4, <1>5, <2>1, <2>2
<1>12. Becomes(r, m) /\ bare' = bare \cup (todo \ (IF l.auto THEN todo ELSE todo \cap l.confirmed))
  BY DEF Proceed
<1> HIDE DEF N, k, todo
<1>13. m \in Locals(pipe)
  <2>1. <<>> \in Outs(pipe)
    <3>1. <<>> \in [{} -> {"completed", "failed", "cancelled"}] OBVIOUS
    <3> QED BY <3>1 DEF Outs, StepSets
  <2> QED BY <1>2, <1>5, <1>9, <2>1 DEF Locals, Places
<1>14. /\ m.pc = "steps" /\ m.group = k /\ m.todo = todo /\ DOMAIN m.out = {} /\ m.tx = l.tx
       /\ m.result = l.result /\ m.at = l.at /\ m.auto = l.auto /\ m.confirmed = l.confirmed
  BY <1>2 DEF Locals
<1> HIDE DEF m
<1>15. Typed(pipe, DOMAIN tx, m) BY <1>2, <1>13, <1>14 DEF Typed
<1>16. Looped(pipe, m)
  <2>1. m.result.status = "running" BY <1>1, <1>14, Mine DEF Good, Looped, InLoop
  <2>2. Clean(m) BY <1>6, <1>14 DEF Clean
  <2> QED BY <1>5, <1>7, <1>14, <2>1, <2>2 DEF Looped, todo
<1>17. Asked(pipe, m)
  <2>1. InLoop(l) BY <1>1 DEF InLoop
  <2> QED BY <1>8, <1>11, <1>14, <2>1 DEF Asked
<1>18. Good(pipe, DOMAIN tx, completions, m) BY <1>2, <1>14, <1>15, <1>16, <1>17 DEF Good, Ended
<1>19. AsksInOrder'
  <2> SUFFICES ASSUME InOrder, NEW i \in todo \cap pipe.confirm, ~l.auto, i \notin l.confirmed
      PROVE FALSE
    <3>1. pipe' = pipe BY DEF Proceed, Alone
    <3>2. InOrder' = InOrder BY <3>1 DEF InOrder
    <3>3. InOrder => bare \cap pipe.confirm = {} BY DEF IInv, AsksInOrder
    <3> QED BY <1>12, <3>1, <3>2, <3>3 DEF AsksInOrder
  <2>1. InLoop(l) BY <1>1 DEF InLoop
  <2>2. /\ l.at \in pipe.confirm /\ l.at <= i
        /\ \A j \in DOMAIN P : l.at \in P[j] => j > l.group
    BY <1>8, <2>1 DEF Asked
  <2>3. PICK g \in DOMAIN P : l.at \in P[g] BY <1>3, <2>2 DEF Layered
  <2>4. g > k BY <1>11, <2>2, <2>3
  <2>5. i \in P[k] BY DEF todo
  <2>6. i < l.at BY <1>5, <2>3, <2>4, <2>5 DEF InOrder
  <2>7. i \in Nat /\ l.at \in Nat BY <1>3, <2>2
  <2> QED BY <2>2, <2>6, <2>7
<1>20. UNCHANGED <<pipe, store, confirms, faults, completions>> BY DEF Proceed, Alone
<1>21. Stored' BY <1>20, StoreKept, Mine DEF IInv
<1>22. \A i \in Index(pipe) : completions'[i] >= completions[i] BY <1>20, Mine
<1>23. tx' = tx BY <1>20 DEF store
<1> QED BY <1>12, <1>18, <1>19, <1>20, <1>21, <1>22, <1>23, RequestsKept

LEMMA StepEndsStep ==
  ASSUME IInv, NEW r \in Requests, NEW i \in Index(pipe),
         NEW status \in {"completed", "failed", "cancelled"}, StepEnds(r, i, status)
  PROVE  IInv'
<1> DEFINE l == req[r]
           out == [j \in DOMAIN l.out \cup {i} |-> IF j = i THEN status ELSE l.out[j]]
           m == [l EXCEPT !.out = out]
<1>1. /\ l \in Locals(pipe) /\ l.tx \in {None} \cup DOMAIN tx
      /\ Counted(pipe, completions, l.result) /\ DOMAIN l.out \subseteq l.todo
      /\ completions \in [Index(pipe) -> Nat]
  BY Mine
<1>2. l.pc = "steps" /\ i \in l.todo BY DEF StepEnds, At
<1>3. out \in Outs(pipe)
  <2>1. PICK D \in StepSets(pipe) : l.out \in [D -> {"completed", "failed", "cancelled"}]
    BY <1>1 DEF Locals, Outs
  <2>2. D \cup {i} \in StepSets(pipe) BY DEF StepSets
  <2>3. out \in [D \cup {i} -> {"completed", "failed", "cancelled"}] BY <2>1
  <2> QED BY <2>2, <2>3 DEF Outs
<1>4. /\ DOMAIN out = DOMAIN l.out \cup {i} /\ out[i] = status
      /\ \A j \in DOMAIN l.out : j # i => out[j] = l.out[j]
  OBVIOUS
<1>5. Becomes(r, m) BY DEF StepEnds
<1> HIDE DEF out
<1>6. m \in Locals(pipe) BY <1>1, <1>3 DEF Locals
<1>7. /\ m.pc = "steps" /\ m.out = out /\ m.tx = l.tx /\ m.result = l.result /\ m.at = l.at
      /\ m.auto = l.auto /\ m.confirmed = l.confirmed /\ m.group = l.group /\ m.todo = l.todo
  BY <1>1, <1>2 DEF Locals
<1> HIDE DEF m
<1>8. /\ completions' \in [Index(pipe) -> Nat]
      /\ \A j \in Index(pipe) : completions'[j] >= completions[j]
      /\ status = "completed" => completions'[i] > 0
  BY <1>1 DEF StepEnds
<1>9. Typed(pipe, DOMAIN tx, m) BY <1>1, <1>2, <1>4, <1>6, <1>7 DEF Typed
<1>10. Looped(pipe, m) /\ Asked(pipe, m)
  BY <1>2, <1>7, Mine DEF Good, Looped, Asked, InLoop, Clean
<1>11. l.result.done \subseteq Index(pipe) /\ DOMAIN l.out \subseteq Index(pipe)
  BY <1>1 DEF Locals, ResultTypes, StepSets
<1>12. Counted(pipe, completions', m.result) BY <1>1, <1>7, <1>8, <1>11 DEF Counted
<1>13. Ended(completions', m)
  <2>1. \A j \in DOMAIN l.out : l.out[j] = "completed" => completions[j] > 0
    BY Mine DEF Good, Ended
  <2> QED BY <1>1, <1>4, <1>7, <1>8, <1>11, <2>1 DEF Ended
<1>14. Good(pipe, DOMAIN tx, completions', m) BY <1>9, <1>10, <1>12, <1>13 DEF Good
<1>15. UNCHANGED <<pipe, store, confirms, faults, bare>> BY DEF StepEnds, Alone
<1>16. Stored'
  <2>1. ckpt.result.done \subseteq Index(pipe)
    BY DEF IInv, Stored, CheckpointTypes, ResultTypes, StepSets
  <2>2. Counted(pipe, completions', ckpt.result) BY <1>1, <1>8, <2>1 DEF IInv, Stored, Counted
  <2> QED BY <1>8, <1>15, <2>2 DEF IInv, Stored, store
<1>17. AsksInOrder' BY <1>15, AsksKept DEF IInv
<1>18. tx' = tx BY <1>15 DEF store
<1> QED BY <1>5, <1>8, <1>14, <1>15, <1>16, <1>17, <1>18, RequestsKept

LEMMA StepRaisesStep ==
  ASSUME IInv, NEW r \in Requests, NEW i \in Index(pipe), StepRaises(r, i)
  PROVE  IInv'
<1> DEFINE k == [req[r] EXCEPT !.result.status = "failed", !.todo = {}]
<1>1. /\ req[r] \in Locals(pipe) /\ req[r].tx \in {None} \cup DOMAIN tx
      /\ DOMAIN req[r].out = {} /\ Counted(pipe, completions, req[r].result)
  BY Mine DEF StepRaises
<1>2. PICK res : res = [req[r].result EXCEPT !.status = "failed"] OBVIOUS
<1>3. res \in ResultTypes(pipe) /\ res.status = "failed" /\ res.done = req[r].result.done
  BY <1>1, <1>2 DEF Locals, ResultTypes, Statuses
<1>4. k = [req[r] EXCEPT !.result = res, !.todo = {}] BY <1>1, <1>2 DEF Locals
<1>5. Becomes(r, Settle(k)) BY DEF StepRaises
<1> HIDE DEF k
<1>6. k \in Locals(pipe) BY <1>1, <1>3, <1>4 DEF Locals, StepSets
<1>7. k.tx = req[r].tx /\ k.todo = {} /\ k.out = req[r].out /\ k.result = res
  BY <1>1, <1>4 DEF Locals
<1>8. Counted(pipe, completions, k.result) BY <1>1, <1>3, <1>7 DEF Counted
<1>9. FinalStatus(k.result) = "failed" BY <1>3, <1>7 DEF FinalStatus
<1>10. Good(pipe, DOMAIN tx, completions, Settle(k)) BY <1>1, <1>6, <1>7, <1>8, <1>9, SettleGood
<1> QED BY <1>5, <1>10, Moves, Mine DEF StepRaises, Alone, history

\* A group that is put together with nothing failed is completed.
LEMMA GroupDoneStep == ASSUME IInv, NEW r \in Requests, GroupDone(r) PROVE IInv'
<1> DEFINE l == req[r]
           E(status) == {i \in DOMAIN l.out : l.out[i] = status}
           res == [l.result EXCEPT !.done = @ \cup E("completed"),
                                   !.failed = @ \cup E("failed"),
                                   !.cancelled = @ \cup E("cancelled")]
           k == [l EXCEPT !.result = res, !.todo = {}, !.out = <<>>]
           m == Checkpoint(k, {}, "groups")
<1>1. /\ l \in Locals(pipe) /\ l.tx \in {None} \cup DOMAIN tx
      /\ Counted(pipe, completions, l.result)
      /\ pipe \in Pipelines
  BY Mine
<1>2. l.pc = "steps" /\ DOMAIN l.out = l.todo BY DEF GroupDone, At
<1>3. l.result \in ResultTypes(pipe) /\ l.todo \subseteq Index(pipe) BY <1>1 DEF Locals, StepSets
<1>4. \A i \in DOMAIN l.out : l.out[i] \in {"completed", "failed", "cancelled"}
  BY <1>1 DEF Locals, Outs
<1>5. /\ E("completed") \subseteq Index(pipe) /\ E("failed") \subseteq Index(pipe)
      /\ E("cancelled") \subseteq Index(pipe)
      /\ \A i \in E("completed") : completions[i] > 0
      /\ E("failed") = {} /\ E("cancelled") = {} => l.todo \subseteq E("completed")
  BY <1>2, <1>3, <1>4, Mine DEF Good, Ended
<1>0. k = [l EXCEPT !.result.done = @ \cup E("completed"),
                    !.result.failed = @ \cup E("failed"),
                    !.result.cancelled = @ \cup E("cancelled"),
                    !.todo = {}, !.out = <<>>]
  BY <1>1, <1>3 DEF Locals, ResultTypes
<1>6. Becomes(r, m)
  <2> HIDE DEF k
  <2> QED BY <1>0 DEF GroupDone
<1> HIDE DEF E
<1>7. /\ res \in ResultTypes(pipe) /\ res.status = l.result.status
      /\ res.done = l.result.done \cup E("completed")
      /\ res.failed = l.result.failed \cup E("failed")
      /\ res.cancelled = l.result.cancelled \cup E("cancelled")
  BY <1>3, <1>5 DEF ResultTypes, StepSets
<1> HIDE DEF res
<1>8. <<>> \in Outs(pipe)
  <2>1. <<>> \in [{} -> {"completed", "failed", "cancelled"}] OBVIOUS
  <2> QED BY <2>1 DEF Outs, StepSets
<1>9. k \in Locals(pipe) BY <1>1, <1>7, <1>8 DEF Locals, StepSets
<1>10. /\ k.todo = {} /\ DOMAIN k.out = {} /\ k.tx = l.tx /\ k.result = res /\ k.at = l.at
       /\ k.auto = l.auto /\ k.confirmed = l.confirmed /\ k.group = l.group
  BY <1>1 DEF Locals
<1> HIDE DEF k
<1>11. /\ m \in Locals(pipe) /\ m.pc = "read" /\ m.next = "groups" /\ m.todo = {}
       /\ DOMAIN m.out = {} /\ m.tx = l.tx /\ m.result = res /\ m.at = l.at
       /\ m.auto = l.auto /\ m.confirmed = l.confirmed /\ m.group = l.group
  BY <1>9, <1>10, CheckpointFields
<1> HIDE DEF m
<1>12. InLoop(l) /\ InLoop(m) BY <1>2, <1>11 DEF InLoop
<1>13. Typed(pipe, DOMAIN tx, m) BY <1>1, <1>11 DEF Typed
<1>14. /\ l.result.status = "running" /\ Clean(l) /\ l.group \in DOMAIN Plan[pipe]
       /\ l.todo = Plan[pipe][l.group] \ l.result.done
       /\ \A j \in DOMAIN Plan[pipe] : j < l.group => Plan[pipe][j] \subseteq l.result.done
  BY <1>2, <1>12, Mine DEF Good, Looped
<1>15. Looped(pipe, m)
  <2> SUFFICES ASSUME Clean(m), NEW j \in DOMAIN Plan[pipe], j < m.group \/ j = m.group
               PROVE  Plan[pipe][j] \subseteq m.result.done
    BY <1>7, <1>11, <1>12, <1>14 DEF Looped
  <2>1. l.todo \subseteq E("completed") BY <1>5, <1>7, <1>11 DEF Clean
  <2> QED BY <1>7, <1>11, <1>14, <2>1
<1>16. Asked(pipe, m) BY <1>11, <1>12, Mine DEF Good, Asked
<1>17. Counted(pipe, completions, m.result) BY <1>1, <1>5, <1>7, <1>11, <1>14 DEF Counted
<1>18. Good(pipe, DOMAIN tx, completions, m) BY <1>11, <1>13, <1>15, <1>16, <1>17 DEF Good, Ended
<1> QED BY <1>6, <1>18, Moves, Mine DEF GroupDone, Alone, history

LEMMA JournalStep == ASSUME IInv, NEW r \in Requests, Journal(r) PROVE IInv'
<1> DEFINE l == req[r]
           T == [status : {"pending", "confirmed", "executed"}, step : pipe.confirm]
           m == [l EXCEPT !.pc = "key", !.ask = Len(tx')]
<1>1. /\ l \in Locals(pipe) /\ l.tx \in {None} \cup DOMAIN tx /\ l.todo = {} /\ DOMAIN l.out = {}
      /\ Counted(pipe, completions, l.result)
  BY Mine DEF Journal, At
<1>2. l.at \in pipe.confirm BY Mine DEF Journal, At, Good, Typed
<1>3. tx \in Seq(T) BY DEF IInv, Stored
<1>4. [status |-> "pending", step |-> l.at] \in T BY <1>2
<1>5. tx' = Append(tx, [status |-> "pending", step |-> l.at]) /\ Becomes(r, m)
  BY DEF Journal
<1> HIDE DEF T
<1>6. /\ tx' \in Seq(T) /\ Len(tx') = Len(tx) + 1 /\ Len(tx) \in Nat
      /\ DOMAIN tx = 1..Len(tx) /\ DOMAIN tx' = 1..Len(tx')
  BY <1>3, <1>4, <1>5
<1>7. DOMAIN tx \subseteq DOMAIN tx' /\ Len(tx') \in DOMAIN tx' /\ Len(tx') \in Nat BY <1>6
<1>8. m \in Locals(pipe) BY <1>1, <1>7 DEF Locals, Places
<1>9. /\ m.pc = "key" /\ m.ask = Len(tx') /\ m.tx = l.tx /\ m.todo = l.todo /\ m.out = l.out
      /\ m.result = l.result
  BY <1>1 DEF Locals
<1> HIDE DEF m
<1>10. Good(pipe, DOMAIN tx', completions, m) BY <1>1, <1>7, <1>8, <1>9, Quiet DEF InLoop
<1>11. UNCHANGED <<pipe, ckpt, pending, confirms, faults, completions, bare>>
  BY DEF Journal, Alone, history
<1>12. Stored' BY <1>6, <1>7, <1>11 DEF IInv, Stored, T
<1>13. AsksInOrder' BY <1>11, AsksKept DEF IInv
<1>14. \A i \in Index(pipe) : completions'[i] >= completions[i] BY <1>11, Mine
<1>15. completions' = completions /\ pipe' = pipe BY <1>11
<1> QED BY <1>5, <1>7, <1>10, <1>12, <1>13, <1>14, <1>15, RequestsKept

LEMMA SetPendingStep == ASSUME IInv, NEW r \in Requests, SetPending(r) PROVE IInv'
<1> DEFINE m == Checkpoint(req[r], {"steps", "confirmed"}, "idle")
<1>1. /\ req[r] \in Locals(pipe) /\ req[r].tx \in {None} \cup DOMAIN tx /\ req[r].todo = {}
      /\ DOMAIN req[r].out = {} /\ Counted(pipe, completions, req[r].result)
  BY Mine DEF SetPending, At
<1>2. req[r].ask \in DOMAIN tx BY Mine DEF SetPending, At, Good, Typed
<1>3. /\ m \in Locals(pipe) /\ m.pc = "read" /\ m.next = "idle" /\ m.tx = req[r].tx
      /\ m.todo = {} /\ DOMAIN m.out = {} /\ m.result = req[r].result
  BY <1>1, CheckpointFields
<1>4. Becomes(r, m) BY DEF SetPending
<1> HIDE DEF m
<1>5. Good(pipe, DOMAIN tx, completions, m) BY <1>1, <1>3, Quiet DEF InLoop
<1>6. UNCHANGED <<pipe, ckpt, tx, confirms, faults, completions, bare>> /\ pending' = req[r].ask
  BY DEF SetPending, Alone, history
<1>7. Stored' BY <1>2, <1>6 DEF IInv, Stored
<1>8. AsksInOrder' BY <1>6, AsksKept DEF IInv
<1>9. \A i \in Index(pipe) : completions'[i] >= completions[i] BY <1>6, Mine
<1>10. completions' = completions /\ pipe' = pipe /\ tx' = tx BY <1>6
<1> QED BY <1>4, <1>5, <1>7, <1>8, <1>9, <1>10, RequestsKept

LEMMA ReadStep == ASSUME IInv, NEW r \in Requests, ReadCheckpoint(r) PROVE IInv'
<1> DEFINE l == req[r]
           m == [l EXCEPT !.pc = "write", !.payload = ckpt]
<1>1. l \in Locals(pipe) /\ l.pc = "read" /\ Good(pipe, DOMAIN tx, completions, l)
  BY Mine DEF ReadCheckpoint, At
<1>2. ckpt \in CheckpointTypes(pipe) BY DEF IInv, Stored
<1>3. m \in Locals(pipe) BY <1>1, <1>2 DEF Locals, Places
<1>4. /\ m.pc = "write" /\ m.next = l.next /\ m.tx = l.tx /\ m.todo = l.todo /\ m.out = l.out
      /\ m.result = l.result /\ m.at = l.at /\ m.auto = l.auto /\ m.confirmed = l.confirmed
      /\ m.group = l.group
  BY <1>1 DEF Locals
<1>5. Becomes(r, m) BY DEF ReadCheckpoint
<1> HIDE DEF m
<1>6. InLoop(m) = InLoop(l) BY <1>1, <1>4 DEF InLoop
<1>7. Typed(pipe, DOMAIN tx, m) BY <1>1, <1>3, <1>4 DEF Good, Typed
<1>8. Looped(pipe, m) BY <1>1, <1>4, <1>6 DEF Good, Looped, Clean
<1>9. Asked(pipe, m) BY <1>1, <1>4, <1>6 DEF Good, Asked
<1>10. Good(pipe, DOMAIN tx, completions, m) BY <1>1, <1>4, <1>7, <1>8, <1>9 DEF Good, Ended
<1> QED BY <1>5, <1>10, Moves, Mine DEF ReadCheckpoint, Alone, history

\* What a request writes counts like its own result.
LEMMA WriteStep == ASSUME IInv, NEW r \in Requests, WriteCheckpoint(r) PROVE IInv'
<1> DEFINE l == req[r]
           m == IF l.next = "idle" THEN Idle
                ELSE [l EXCEPT !.pc = l.next, !.put = {}, !.payload = NoCheckpoint, !.next = "idle"]
<1>1. /\ l \in Locals(pipe) /\ l.pc = "write" /\ Good(pipe, DOMAIN tx, completions, l)
      /\ Counted(pipe, completions, l.result)
  BY Mine DEF WriteCheckpoint, At
<1>2. Becomes(r, m) BY DEF WriteCheckpoint, Return
<1>3. Good(pipe, DOMAIN tx, completions, m) BY <1>1, ReturnGood
<1>4. /\ UNCHANGED <<pipe, pending, tx, confirms, faults, completions, bare>>
      /\ ckpt' = [result |-> l.result,
                  steps |-> "steps" \in l.put \/ l.payload.steps,
                  confirmed |-> IF "confirmed" \in l.put THEN l.confirmed ELSE l.payload.confirmed]
  BY DEF WriteCheckpoint, Alone, history
<1>5. /\ l.result \in ResultTypes(pipe) /\ l.confirmed \in SUBSET pipe.confirm
      /\ l.payload \in CheckpointTypes(pipe)
  BY <1>1 DEF Locals
<1>6. l.payload.steps \in BOOLEAN /\ l.payload.confirmed \in SUBSET pipe.confirm
  BY <1>5 DEF CheckpointTypes
<1>7. ("steps" \in l.put \/ l.payload.steps) \in BOOLEAN OBVIOUS
<1>8. ckpt' \in CheckpointTypes(pipe) BY <1>4, <1>5, <1>6, <1>7 DEF CheckpointTypes
<1>9. ckpt'.result = l.result BY <1>4
<1>10. Stored' BY <1>1, <1>4, <1>8, <1>9 DEF IInv, Stored
<1>11. AsksInOrder' BY <1>4, AsksKept DEF IInv
<1>12. \A i \in Index(pipe) : completions'[i] >= completions[i] BY <1>4, Mine
<1>13. completions' = completions /\ pipe' = pipe /\ tx' = tx BY <1>4
<1> HIDE DEF m
<1> QED BY <1>2, <1>3, <1>10, <1>11, <1>12, <1>13, RequestsKept

LEMMA MarkExecutedStep == ASSUME IInv, NEW r \in Requests, MarkExecuted(r) PROVE IInv'
<1> DEFINE l == [req[r] EXCEPT !.pc = "clear"]
<1>1. /\ l \in Locals(pipe) /\ l.pc = "clear" /\ l.tx = req[r].tx /\ l.todo = {} /\ DOMAIN l.out = {}
      /\ l.result = req[r].result
  BY Mine DEF Locals, Places, MarkExecuted, At
<1>2. Stored' /\ DOMAIN tx' = DOMAIN tx
  BY Marked DEF MarkExecuted, Alone, history
<1>3. Becomes(r, l) BY DEF MarkExecuted
<1>4. AsksInOrder' BY AsksKept DEF IInv, MarkExecuted, Alone, history
<1> HIDE DEF l
<1>5. Good(pipe, DOMAIN tx, completions, l) BY <1>1, Mine, Quiet DEF InLoop
<1>6. completions' = completions /\ pipe' = pipe BY DEF MarkExecuted, Alone, history
<1>7. \A i \in Index(pipe) : completions[i] >= completions[i] BY Mine
<1> QED BY <1>2, <1>3, <1>4, <1>5, <1>6, <1>7, RequestsKept

LEMMA ClearPendingStep == ASSUME IInv, NEW r \in Requests, ClearPending(r) PROVE IInv'
<1>1. UNCHANGED <<pipe, ckpt, tx, confirms, faults, completions, bare>> /\ pending' = None
  BY DEF ClearPending, Alone, history
<1>2. Stored' BY <1>1 DEF IInv, Stored
<1>3. AsksInOrder' BY <1>1, AsksKept DEF IInv
<1>4. \A i \in Index(pipe) : completions'[i] >= completions[i] BY <1>1, Mine
<1>5. Becomes(r, Idle) BY DEF ClearPending
<1>6. Good(pipe, DOMAIN tx', completions', Idle) BY IdleGood
<1> QED BY <1>1, <1>2, <1>3, <1>4, <1>5, <1>6, RequestsKept

\* A fault leaves the session's keys alone.
LEMMA FaultMoves ==
  ASSUME IInv, NEW r \in Requests, NEW l, Becomes(r, l), Fault,
         UNCHANGED <<pipe, store, started, confirms, history>>,
         Good(pipe, DOMAIN tx, completions, l)
  PROVE  IInv'
<1>1. faults' \in 0..MaxFaults /\ confirms' \in 0..MaxConfirms BY FaultBound, Mine
<1>2. UNCHANGED <<pipe, store, completions, bare>> BY DEF history
<1> QED BY <1>1, <1>2, Moves

LEMMA CancelStep == ASSUME IInv, NEW r \in Requests, Cancel(r) PROVE IInv'
<1> DEFINE k == [req[r] EXCEPT !.result.status = "cancelled", !.guarded = FALSE,
                               !.todo = {}, !.out = <<>>]
           m == Checkpoint(k, {}, "idle")
<1>1. /\ req[r] \in Locals(pipe) /\ req[r].tx \in {None} \cup DOMAIN tx
      /\ Counted(pipe, completions, req[r].result)
  BY Mine
<1>2. PICK res : res = [req[r].result EXCEPT !.status = "cancelled"] OBVIOUS
<1>3. res \in ResultTypes(pipe) /\ res.status = "cancelled" /\ res.done = req[r].result.done
  BY <1>1, <1>2 DEF Locals, ResultTypes, Statuses
<1>4. <<>> \in Outs(pipe)
  <2>1. <<>> \in [{} -> {"completed", "failed", "cancelled"}] OBVIOUS
  <2> QED BY <2>1 DEF Outs, StepSets
<1>5. k = [req[r] EXCEPT !.result = res, !.guarded = FALSE, !.todo = {}, !.out = <<>>]
  BY <1>1, <1>2 DEF Locals
<1>6. CASE req[r].guarded
  <2>1. Becomes(r, m) BY <1>6 DEF Cancel
  <2> HIDE DEF k
  <2>2. k \in Locals(pipe) BY <1>1, <1>3, <1>4, <1>5 DEF Locals, StepSets
  <2>3. k.tx = req[r].tx /\ k.todo = {} /\ DOMAIN k.out = {} /\ k.result = res
    BY <1>1, <1>5 DEF Locals
  <2>4. /\ m \in Locals(pipe) /\ m.pc = "read" /\ m.next = "idle" /\ m.tx = req[r].tx
        /\ m.todo = {} /\ DOMAIN m.out = {} /\ m.result = res
    BY <2>2, <2>3, CheckpointFields
  <2> HIDE DEF m
  <2>5. Counted(pipe, completions, m.result) BY <1>1, <1>3, <2>4 DEF Counted
  <2>6. Good(pipe, DOMAIN tx, completions, m) BY <1>1, <2>4, <2>5, Quiet DEF InLoop
  <2> QED BY <2>1, <2>6, FaultMoves DEF Cancel
<1>7. CASE ~req[r].guarded
  <2>1. Becomes(r, Idle) BY <1>7 DEF Cancel
  <2> QED BY <2>1, IdleGood, FaultMoves DEF Cancel
<1> QED BY <1>6, <1>7

LEMMA CheckpointFailsStep == ASSUME IInv, NEW r \in Requests, CheckpointFails(r) PROVE IInv'
<1> DEFINE l == req[r]
           m == IF l.next = "idle" THEN Idle
                ELSE [l EXCEPT !.pc = l.next, !.put = {}, !.payload = NoCheckpoint, !.next = "idle"]
<1>1. l.pc \in {"read", "write"} /\ Good(pipe, DOMAIN tx, completions, l)
  BY Mine DEF CheckpointFails
<1>2. Becomes(r, m) BY DEF CheckpointFails, Return
<1>3. Good(pipe, DOMAIN tx, completions, m) BY <1>1, ReturnGood
<1> HIDE DEF m
<1> QED BY <1>2, <1>3, FaultMoves DEF CheckpointFails

LEMMA JournalFailsStep == ASSUME IInv, NEW r \in Requests, JournalFails(r) PROVE IInv'
<1> DEFINE k == [req[r] EXCEPT !.result.status = "failed"]
<1>1. /\ req[r] \in Locals(pipe) /\ req[r].tx \in {None} \cup DOMAIN tx
      /\ req[r].todo = {} /\ DOMAIN req[r].out = {}
      /\ Counted(pipe, completions, req[r].result)
  BY Mine DEF JournalFails
<1>2. CASE req[r].guarded
  <2>1. PICK res : res = [req[r].result EXCEPT !.status = "failed"] OBVIOUS
  <2>2. res \in ResultTypes(pipe) /\ res.status = "failed" /\ res.done = req[r].result.done
    BY <1>1, <2>1 DEF Locals, ResultTypes, Statuses
  <2>3. k = [req[r] EXCEPT !.result = res] BY <1>1, <2>1 DEF Locals
  <2>4. Becomes(r, Settle(k)) BY <1>2 DEF JournalFails
  <2> HIDE DEF k
  <2>5. k \in Locals(pipe) BY <1>1, <2>2, <2>3 DEF Locals
  <2>6. k.tx = req[r].tx /\ k.todo = req[r].todo /\ k.out = req[r].out /\ k.result = res
    BY <1>1, <2>3 DEF Locals
  <2>7. Counted(pipe, completions, k.result) BY <1>1, <2>2, <2>6 DEF Counted
  <2>8. FinalStatus(k.result) = "failed" BY <2>2, <2>6 DEF FinalStatus
  <2>9. Good(pipe, DOMAIN tx, completions, Settle(k)) BY <1>1, <2>5, <2>6, <2>7, <2>8, SettleGood
  <2> QED BY <2>4, <2>9, FaultMoves DEF JournalFails
<1>3. CASE ~req[r].guarded
  <2>1. Becomes(r, Idle) BY <1>3 DEF JournalFails
  <2> QED BY <2>1, IdleGood, FaultMoves DEF JournalFails
<1> QED BY <1>2, <1>3

LEMMA LoadFailsStep == ASSUME IInv, NEW r \in Requests, LoadFails(r) PROVE IInv'
<1> DEFINE l == [req[r] EXCEPT !.pc = "clear"]
<1>1. /\ l \in Locals(pipe) /\ l.pc = "clear" /\ l.tx = req[r].tx /\ l.todo = {} /\ DOMAIN l.out = {}
      /\ l.result = req[r].result
  BY Mine DEF Locals, Places, LoadFails, At
<1>2. Becomes(r, l) BY DEF LoadFails
<1> HIDE DEF l
<1>3. Good(pipe, DOMAIN tx, completions, l) BY <1>1, Mine, Quiet DEF InLoop
<1> QED BY <1>2, <1>3, FaultMoves DEF LoadFails

LEMMA OutsideStep == ASSUME IInv, Crash \/ CheckpointExpires \/ OtherPending PROVE IInv'
<1>1. pipe' = pipe /\ tx' = tx /\ completions' = completions /\ bare' = bare
  BY DEF Crash, CheckpointExpires, OtherPending, store, history
<1>2. faults' \in 0..MaxFaults /\ confirms' \in 0..MaxConfirms
  BY FaultBound DEF IInv, Stored, Crash, CheckpointExpires, OtherPending
<1>3. ckpt' \in {ckpt, NoCheckpoint} /\ pending' \in {pending, Other}
  BY DEF Crash, CheckpointExpires, OtherPending, store
<1>4. Counted(pipe, completions, NoCheckpoint.result) BY NoCheckpointType DEF Counted
<1>5. Stored' BY <1>1, <1>2, <1>3, <1>4, NoCheckpointType DEF IInv, Stored
<1>6. req' = req \/ req' = [r \in Requests |-> Idle]
  BY DEF Crash, CheckpointExpires, OtherPending
<1>7. req' \in [Requests -> Locals(pipe)] BY <1>6, IdleType DEF IInv
<1>8. \A r \in Requests : Good(pipe, DOMAIN tx, completions, req'[r])
  BY <1>6, IdleGood DEF IInv
<1>9. AsksInOrder' BY <1>1, AsksKept DEF IInv
<1> QED BY <1>1, <1>5, <1>7, <1>8, <1>9 DEF IInv

LEMMA StutterStep == ASSUME IInv, UNCHANGED vars PROVE IInv'
<1>1. Stored' BY DEF IInv, Stored, vars
<1>2. AsksInOrder' BY AsksKept DEF IInv, vars
<1> QED BY <1>1, <1>2 DEF IInv, vars

LEMMA NextIInv == IInv /\ [Next]_vars => IInv'
<1> SUFFICES ASSUME IInv, [Next]_vars PROVE IInv' OBVIOUS
<1>1. ASSUME NEW r \in Requests, Work(r) PROVE IInv'
  <2>1. CASE Proceed(r) BY <2>1, ProceedSettles, ProceedPauses, ProceedBegins
  <2>2. CASE \E i \in Index(pipe), status \in {"completed", "failed", "cancelled"} :
               StepEnds(r, i, status)
    BY <2>2, StepEndsStep
  <2>3. CASE \E i \in Index(pipe) : StepRaises(r, i) BY <2>3, StepRaisesStep
  <2> QED BY <1>1, <2>1, <2>2, <2>3, MarkConfirmedStep, LoadStep, GateStep, GroupDoneStep,
             JournalStep, SetPendingStep, ReadStep, WriteStep, MarkExecutedStep,
             ClearPendingStep DEF Work
<1>2. ASSUME NEW r \in Requests,
             (\E auto \in BOOLEAN : Start(r, auto)) \/ Lookup(r) \/ Cancel(r)
             \/ CheckpointFails(r) \/ JournalFails(r) \/ LoadFails(r)
      PROVE  IInv'
  BY <1>2, StartStep, LookupStep, CancelStep, CheckpointFailsStep, JournalFailsStep, LoadFailsStep
<1> QED BY <1>1, <1>2, OutsideStep, StutterStep DEF Next

\* What the keys in Redis and each request keep, in every reachable state.
THEOREM Invariant == Spec => []IInv
BY InitIInv, NextIInv, PTL DEF Spec

-----------------------------------------------------------------------------
(* What the invariant gives *)

\* The types; a request refers to an existing transaction, and only steps
\* that require it are asked for.
THEOREM TypeCorrect == Spec => []TypeOK
<1>1. IInv => TypeOK
  <2> SUFFICES ASSUME IInv PROVE TypeOK OBVIOUS
  <2>1. pipe.confirm \subseteq Index(pipe) BY PlanFacts DEF IInv, Stored
  <2>2. ResultTypes(pipe) \subseteq Results BY <2>1 DEF ResultTypes, Results, StepSets
  <2>3. CheckpointTypes(pipe) \subseteq Checkpoints BY <2>1, <2>2 DEF CheckpointTypes, Checkpoints
  <2>4. \A t \in DOMAIN tx : tx[t] \in [status : {"pending", "confirmed", "executed"},
                                        step : pipe.confirm]
    <3> DEFINE T == [status : {"pending", "confirmed", "executed"}, step : pipe.confirm]
    <3>1. tx \in Seq(T) BY DEF IInv, Stored
    <3> HIDE DEF T
    <3>2. \A t \in DOMAIN tx : tx[t] \in T BY <3>1
    <3> QED BY <3>2 DEF T
  <2>5. ASSUME NEW r \in Requests
        PROVE  /\ req[r].result \in Results /\ req[r].payload \in Checkpoints
               /\ req[r].tx \in {None} \cup DOMAIN tx
               /\ req[r].confirmed \subseteq pipe.confirm
               /\ DOMAIN req[r].out \subseteq req[r].todo
    <3>1. /\ req[r].result \in ResultTypes(pipe) /\ req[r].payload \in CheckpointTypes(pipe)
          /\ req[r].confirmed \subseteq pipe.confirm
      BY Mine DEF Locals
    <3> QED BY <2>2, <2>3, <3>1, Mine
  <2>6. ckpt \in Checkpoints BY <2>3 DEF IInv, Stored
  <2>7. /\ pending \in {None, Other} \cup DOMAIN tx
        /\ confirms \in 0..MaxConfirms /\ faults \in 0..MaxFaults
    BY DEF IInv, Stored
  <2> QED BY <2>4, <2>5, <2>6, <2>7 DEF TypeOK
<1> QED BY <1>1, Invariant, PTL

\* A step's agent runs only when the steps whose results it relies on have
\* been completed: the groups before its own are, as nothing failed, and in
\* them is what it depends on.
THEOREM DependenciesRespected == Spec => []DependenciesFirst
<1>1. IInv => DependenciesFirst
  <2> SUFFICES ASSUME IInv, NEW r \in Requests, NEW i \in req[r].todo, NEW d \in Before(pipe, i)
               PROVE  completions[d] > 0
    BY DEF DependenciesFirst
  <2>1. req[r].pc = "steps" BY Mine
  <2>2. /\ Clean(req[r]) /\ req[r].group \in DOMAIN Plan[pipe]
        /\ i \in Plan[pipe][req[r].group]
        /\ \A j \in DOMAIN Plan[pipe] : j < req[r].group => Plan[pipe][j] \subseteq req[r].result.done
    BY <2>1, Mine DEF Good, Looped, InLoop
  <2>3. Layered(pipe, Plan[pipe]) BY Mine, PlanFacts
  <2>4. PICK j \in DOMAIN Plan[pipe] : j < req[r].group /\ d \in Plan[pipe][j]
    BY <2>2, <2>3 DEF Layered
  <2>5. d \in req[r].result.done BY <2>2, <2>4
  <2> QED BY <2>5, Mine DEF Counted
<1> QED BY <1>1, Invariant, PTL

\* The checkpoint of a completed pipeline: every step was.
THEOREM CompletedIsComplete == Spec => []CompletedMeansAll
<1>1. IInv => CompletedMeansAll
  BY DEF IInv, Stored, Counted, CompletedMeansAll
<1> QED BY <1>1, Invariant, PTL

\* Where the groups follow the indices, no step that needs the user's
\* confirmation runs without one, whatever fails in between.
THEOREM NothingUnasked == Spec => []AsksInOrder
<1>1. IInv => AsksInOrder BY DEF IInv
<1> QED BY <1>1, Invariant, PTL

-----------------------------------------------------------------------------
(* One request at a time *)

\* One slot for requests: a request ends before the next one begins.
OneRequest == \E r : Requests = {r}

AtCheckpoint(l, next) == l.pc \in {"read", "write"} /\ l.next = next

\* From the pause to the end of the request.
Asks(l) == l.pc \in {"journal", "key"} \/ (AtCheckpoint(l, "idle") /\ l.put # {})

Done(l) == {i \in DOMAIN l.out : l.out[i] = "completed"}

\* No confirmation would be accepted.
Refused == pending \notin DOMAIN tx

\* What a resume that loads the checkpoint now will not run again: the gate
\* forgets what is completed when nothing is confirmed.
Resumed ==
  IF ~ckpt.steps THEN Index(pipe)
  ELSE IF ckpt.confirmed \cup ckpt.result.awaiting = {} /\ pipe.confirm # {} THEN {}
  ELSE ckpt.result.done

\* Step i will not be run again unless something fails.
Known(l, i) ==
  \/ l.pc = "idle" /\ (Refused \/ i \in Resumed)
  \/ l.pc \in {"mark", "load"} /\ i \in Resumed
  \/ l.pc = "gate" /\ (l.auto \/ l.confirmed # {} \/ pipe.confirm = {}) /\ i \in l.result.done
  \/ InLoop(l) /\ i \in l.result.done \cup Done(l)
  \/ Asks(l) /\ i \in l.result.done
  \/ AtCheckpoint(l, "idle") /\ l.put = {} /\ Refused
  \/ AtCheckpoint(l, "executed") \/ l.pc \in {"executed", "clear"}

\* Every fault pays for one more completion of what is known then.
Once(l) == \A i \in Index(pipe) : completions[i] <= faults + (IF Known(l, i) THEN 1 ELSE 0)

Unstarted ==
  ~started => /\ tx = <<>> /\ approved = {}
              /\ \A r \in Requests : req[r].pc = "idle"
              /\ \A i \in Index(pipe) : completions[i] = 0

\* A pause names its step and stores the step list; a resume answers one, and
\* before the first there is nothing to confirm.
Pausing(l) ==
  /\ Asks(l) => l.result.awaiting # {}
  /\ AtCheckpoint(l, "idle") => l.put \in {{}, {"steps", "confirmed"}}
  /\ l.pc \in {"mark", "load"} => l.tx # None
  /\ l.tx = None /\ (l.pc \in {"gate", "journal", "key"} \/ InLoop(l)) => Refused

\* As long as nothing failed: who waits for which step, from the pause over
\* the confirmation to the resume.
Answerable(l) ==
  /\ pending # Other
  /\ l.pc = "idle" =>
       /\ pending = None <=> ckpt.result.awaiting = {}
       /\ pending # None => ckpt.result.awaiting = {tx[pending].step} /\ ckpt.steps
  /\ l.pc \in {"mark", "load"} =>
       /\ pending = l.tx /\ pending # None
       /\ ckpt.result.awaiting = {tx[pending].step} /\ ckpt.steps
  /\ l.pc = "gate" \/ InLoop(l) \/ AtCheckpoint(l, "executed") => l.result.awaiting = {}
  /\ l.pc \in {"journal", "key"} => l.result.awaiting = {l.at}
  /\ l.pc = "key" => tx[l.ask].step = l.at
  /\ AtCheckpoint(l, "idle") =>
       IF l.put = {} THEN pending = None /\ l.result.awaiting = {}
       ELSE pending # None /\ l.result.awaiting = {tx[pending].step}
  /\ l.pc \in {"executed", "clear"} => ckpt.result.awaiting = {}

\* And what is confirmed, wherever it is kept, is what the user confirmed.
Told(l) ==
  /\ armed \subseteq approved /\ ckpt.confirmed \subseteq approved
  /\ l.auto => Index(pipe) \subseteq approved
  /\ l.confirmed \subseteq approved /\ l.payload.confirmed \subseteq approved
  /\ l.pc \in {"mark", "load"} => ckpt.result.awaiting \subseteq approved

Solo(l) == Pausing(l) /\ Once(l) /\ (faults = 0 => Answerable(l) /\ Told(l))

SInv == Unstarted /\ \A r \in Requests : Solo(req[r])

-----------------------------------------------------------------------------
(* Facts about one request *)

LEMMA SoloMine ==
  ASSUME IInv, SInv, NEW r \in Requests
  PROVE  /\ Solo(req[r]) /\ req[r] \in Locals(pipe) /\ Good(pipe, DOMAIN tx, completions, req[r])
         /\ req[r].pc # "idle" => started
         /\ req[r].pc # "steps" => DOMAIN req[r].out = {}
         /\ faults \in Nat /\ completions \in [Index(pipe) -> Nat] /\ pipe \in Pipelines
         /\ ckpt \in CheckpointTypes(pipe) /\ pending \in {None, Other} \cup DOMAIN tx
         /\ DOMAIN tx \subseteq Nat \ {0}
         /\ pipe.confirm \subseteq Index(pipe)
<1>1. DOMAIN tx \subseteq Nat \ {0} BY DEF IInv, Stored
<1> QED BY <1>1, Mine, PlanFacts DEF SInv, Unstarted, IInv, Stored

LEMMA SoloMoves ==
  ASSUME OneRequest, IInv, NEW r \in Requests, NEW l, Becomes(r, l), started',
         (Solo(l))'
  PROVE  SInv'
<1>1. req'[r] = l BY DEF Becomes, IInv
<1>2. ASSUME NEW q \in Requests PROVE (Solo(req[q]))'
  <2>1. q = r BY DEF OneRequest
  <2> QED BY <1>1, <2>1
<1> QED BY <1>2 DEF SInv, Unstarted

LEMMA OnceKept ==
  ASSUME NEW k, NEW l, Once(k), UNCHANGED <<completions, faults, pipe>>,
         faults \in Nat, completions \in [Index(pipe) -> Nat],
         \A i \in Index(pipe) : Known(k, i) => (Known(l, i))'
  PROVE  (Once(l))'
<1> SUFFICES ASSUME NEW i \in Index(pipe)
             PROVE  completions[i] <= faults + (IF (Known(l, i))' THEN 1 ELSE 0)
  BY DEF Once
<1>1. completions[i] <= faults + (IF Known(k, i) THEN 1 ELSE 0) BY DEF Once
<1>2. completions[i] \in Nat OBVIOUS
<1>3. CASE Known(k, i) BY <1>1, <1>3
<1>4. CASE ~Known(k, i) BY <1>1, <1>2, <1>4
<1> QED BY <1>3, <1>4

LEMMA ToldKept ==
  ASSUME NEW k, NEW l, Told(k), UNCHANGED <<pipe, ckpt, approved, armed>>,
         l.auto = k.auto, l.confirmed = k.confirmed, l.payload = k.payload,
         l.pc \notin {"mark", "load"}
  PROVE  (Told(l))'
BY DEF Told

LEMMA IdleFields ==
  /\ Idle.pc = "idle" /\ Idle.auto = FALSE /\ Idle.confirmed = {} /\ Idle.payload.confirmed = {}
  /\ Idle.result.awaiting = {} /\ Idle.tx = None
BY DEF Idle, NoCheckpoint, NewResult

LEMMA CheckpointRest ==
  ASSUME NEW p, NEW l \in Locals(p), NEW put \in SUBSET {"steps", "confirmed"},
         NEW next \in {"idle", "groups", "executed"}
  PROVE  LET m == Checkpoint(l, put, next) IN m.payload = l.payload /\ m.guarded = l.guarded
BY DEF Checkpoint, Locals

LEMMA PauseFields ==
  ASSUME NEW p, NEW l \in Locals(p), NEW i
  PROVE  LET m == Pause(l, i) IN
         /\ m.pc = "journal" /\ m.at = i /\ m.tx = l.tx /\ m.auto = l.auto
         /\ m.confirmed = l.confirmed /\ m.payload = l.payload
         /\ m.result.done = l.result.done /\ m.result.awaiting = l.result.awaiting \cup {i}
<1>1. l.result \in ResultTypes(p) BY DEF Locals
<1>2. PICK res : res = [l.result EXCEPT !.status = "awaiting_confirmation", !.awaiting = @ \cup {i}]
  OBVIOUS
<1>3. res.done = l.result.done /\ res.awaiting = l.result.awaiting \cup {i}
  BY <1>1, <1>2 DEF ResultTypes
<1>4. Pause(l, i) = [l EXCEPT !.pc = "journal", !.at = i, !.result = res]
  BY <1>2 DEF Pause, Locals
<1> QED BY <1>3, <1>4 DEF Locals

LEMMA SettleFields ==
  ASSUME NEW p, NEW l \in Locals(p)
  PROVE  LET m == Settle(l) IN
         /\ m.pc = "read" /\ m.next = (IF l.tx = None THEN "idle" ELSE "executed")
         /\ ~m.guarded /\ m.put = {} /\ m.tx = l.tx /\ m.auto = l.auto
         /\ m.confirmed = l.confirmed /\ m.payload = l.payload
         /\ m.result.done = l.result.done /\ m.result.awaiting = l.result.awaiting
<1> DEFINE k == [l EXCEPT !.result.status = FinalStatus(l.result), !.guarded = FALSE]
           next == IF l.tx = None THEN "idle" ELSE "executed"
<1>1. l.result \in ResultTypes(p) BY DEF Locals
<1>2. FinalStatus(l.result) \in Statuses BY <1>1 DEF ResultTypes, FinalStatus, Statuses
<1>3. PICK res : res = [l.result EXCEPT !.status = FinalStatus(l.result)] OBVIOUS
<1>4. res \in ResultTypes(p) /\ res.done = l.result.done /\ res.awaiting = l.result.awaiting
  BY <1>1, <1>2, <1>3 DEF ResultTypes
<1>5. k = [l EXCEPT !.result = res, !.guarded = FALSE] BY <1>3 DEF Locals
<1>6. k \in Locals(p) BY <1>4, <1>5 DEF Locals
<1>7. /\ k.result = res /\ k.tx = l.tx /\ k.auto = l.auto /\ k.confirmed = l.confirmed
      /\ k.payload = l.payload /\ ~k.guarded
  BY <1>5 DEF Locals
<1>8. Settle(l) = Checkpoint(k, {}, next) BY DEF Settle
<1> HIDE DEF k
<1> QED BY <1>4, <1>6, <1>7, <1>8, CheckpointFields, CheckpointRest

\* The status of a transaction is no part of what it asks.
LEMMA MarkedSteps ==
  ASSUME IInv, NEW k, NEW s, tx' = [tx EXCEPT ![k].status = s]
  PROVE  DOMAIN tx' = DOMAIN tx /\ \A j \in DOMAIN tx : tx'[j].step = tx[j].step
<1> DEFINE T == [status : {"pending", "confirmed", "executed"}, step : pipe.confirm]
<1>1. tx \in Seq(T) BY DEF IInv, Stored
<1>2. \A t \in T : [t EXCEPT !.status = s].step = t.step OBVIOUS
<1> HIDE DEF T
<1>3. DOMAIN tx' = DOMAIN tx OBVIOUS
<1>4. ASSUME NEW j \in DOMAIN tx PROVE tx'[j].step = tx[j].step
  <2>1. tx[j] \in T BY <1>1
  <2>2. tx'[j] = tx[j] \/ tx'[j] = [tx[j] EXCEPT !.status = s]
    <3>1. tx' = [i \in DOMAIN tx |-> IF i = k THEN [tx[i] EXCEPT !.status = s] ELSE tx[i]]
      OBVIOUS
    <3>2. tx'[j] = IF j = k THEN [tx[j] EXCEPT !.status = s] ELSE tx[j] BY <3>1, Zenon
    <3> QED BY <3>2
  <2> QED BY <1>2, <2>1, <2>2
<1> QED BY <1>3, <1>4

-----------------------------------------------------------------------------
(* The steps of one request *)

LEMMA InitSolo == Init => SInv
<1> SUFFICES ASSUME Init PROVE SInv OBVIOUS
<1>1. Unstarted BY IdleFields DEF Init, Unstarted
<1>2. \A r \in Requests : req[r] = Idle BY DEF Init
<1>3. Pausing(Idle) BY IdleFields DEF Pausing, Asks, AtCheckpoint, InLoop
<1>4. Once(Idle) BY DEF Init, Once
<1>5. Answerable(Idle)
  <2>1. ckpt.result.awaiting = {} BY DEF Init, NoCheckpoint, NewResult
  <2>2. pending = None BY DEF Init
  <2> QED BY <2>1, <2>2, IdleFields DEF Answerable, InLoop, AtCheckpoint, None, Other
<1>6. Told(Idle)
  <2>1. ckpt.confirmed = {} BY DEF Init, NoCheckpoint
  <2> QED BY <2>1, IdleFields DEF Init, Told
<1> QED BY <1>1, <1>2, <1>3, <1>4, <1>5, <1>6 DEF SInv, Solo

LEMMA StartSolo ==
  ASSUME OneRequest, IInv, SInv, NEW r \in Requests, NEW auto \in BOOLEAN, Start(r, auto)
  PROVE  SInv'
<1>1. PICK k : k = req[r] OBVIOUS
<1>2. PICK l : l = [Idle EXCEPT !.pc = "gate", !.auto = auto] OBVIOUS
<1>3. /\ l.pc = "gate" /\ l.auto = auto /\ l.confirmed = {} /\ l.payload.confirmed = {}
      /\ l.result.awaiting = {}
  BY <1>2 DEF Idle, NoCheckpoint, NewResult
<1>4. /\ Becomes(r, l) /\ started' /\ k.pc = "idle"
      /\ UNCHANGED <<pipe, store, confirms, faults, armed, bare, completions>>
      /\ approved' = IF auto THEN Index(pipe) ELSE {}
      /\ tx = <<>> /\ approved = {} /\ \A i \in Index(pipe) : completions[i] = 0
  BY <1>1, <1>2 DEF Start, At, SInv, Unstarted
<1>5. Solo(k) /\ faults \in Nat /\ pending \in {None, Other} \cup DOMAIN tx
  BY <1>1, SoloMine
<1>6. (Pausing(l))'
  <2>1. pending' \notin DOMAIN tx' BY <1>4, <1>5 DEF store, None, Other
  <2> QED BY <1>3, <2>1 DEF Pausing, Asks, AtCheckpoint, InLoop, Refused
<1>7. (Once(l))' BY <1>4, <1>5 DEF Once
<1>8. ASSUME faults' = 0 PROVE (Answerable(l))' /\ (Told(l))'
  <2>1. Answerable(k) /\ Told(k) BY <1>4, <1>5, <1>8 DEF Solo
  <2>2. (Answerable(l))' BY <1>3, <1>4, <2>1 DEF Answerable, store, AtCheckpoint
  <2>3. (Told(l))' BY <1>3, <1>4, <2>1 DEF Told, store
  <2> QED BY <2>2, <2>3
<1> QED BY <1>4, <1>6, <1>7, <1>8, SoloMoves DEF Solo

LEMMA LookupSolo ==
  ASSUME OneRequest, IInv, SInv, NEW r \in Requests, Lookup(r) PROVE SInv'
<1>1. PICK k : k = req[r] OBVIOUS
<1>2. PICK l : l = [Idle EXCEPT !.pc = "mark", !.tx = pending] OBVIOUS
<1>3. /\ l.pc = "mark" /\ l.auto = FALSE /\ l.confirmed = {} /\ l.payload.confirmed = {}
      /\ l.tx = pending
  BY <1>2 DEF Idle, NoCheckpoint
<1>4. /\ Becomes(r, l) /\ started' /\ k.pc = "idle" /\ pending \in DOMAIN tx
      /\ UNCHANGED <<pipe, store, started, faults, armed, bare, completions>>
      /\ approved' = approved \cup {tx[pending].step}
  BY <1>1, <1>2 DEF Lookup, At
<1>5. /\ Solo(k) /\ faults \in Nat /\ completions \in [Index(pipe) -> Nat]
      /\ DOMAIN tx \subseteq Nat \ {0}
  BY <1>1, SoloMine
<1>6. (Pausing(l))'
  <2>1. l.tx # None BY <1>3, <1>4, <1>5 DEF None
  <2> QED BY <1>3, <2>1 DEF Pausing, Asks, AtCheckpoint, InLoop
<1>7. (Once(l))'
  <2>1. \A i \in Index(pipe) : Known(k, i) => (Known(l, i))'
    BY <1>3, <1>4 DEF Known, Resumed, Refused, InLoop, Asks, AtCheckpoint, store
  <2> QED BY <1>4, <1>5, <2>1, OnceKept DEF Solo
<1>8. ASSUME faults' = 0 PROVE (Answerable(l))' /\ (Told(l))'
  <2>1. Answerable(k) /\ Told(k) BY <1>4, <1>5, <1>8 DEF Solo
  <2>2. pending # None BY <1>4, <1>5 DEF None
  <2>3. (Answerable(l))'
    BY <1>3, <1>4, <2>1, <2>2 DEF Answerable, store, AtCheckpoint, InLoop
  <2>4. (Told(l))' BY <1>3, <1>4, <2>1, <2>2 DEF Told, Answerable, store
  <2> QED BY <2>3, <2>4
<1> QED BY <1>4, <1>6, <1>7, <1>8, SoloMoves DEF Solo

LEMMA MarkConfirmedSolo ==
  ASSUME OneRequest, IInv, SInv, NEW r \in Requests, MarkConfirmed(r) PROVE SInv'
<1>1. PICK k : k = req[r] OBVIOUS
<1>2. PICK l : l = [k EXCEPT !.pc = "load"] OBVIOUS
<1>3. /\ Solo(k) /\ k \in Locals(pipe) /\ k.pc = "mark" /\ started
      /\ faults \in Nat /\ completions \in [Index(pipe) -> Nat]
      /\ pending \in {None, Other} \cup DOMAIN tx
  BY <1>1, SoloMine DEF MarkConfirmed, At
<1>4. /\ l.pc = "load" /\ l.auto = k.auto /\ l.confirmed = k.confirmed
      /\ l.payload = k.payload /\ l.tx = k.tx
  BY <1>2, <1>3 DEF Locals
<1>5. /\ Becomes(r, l) /\ tx' = [tx EXCEPT ![k.tx].status = "confirmed"]
      /\ UNCHANGED <<pipe, started, faults, ckpt, pending, approved, armed, completions>>
  BY <1>1, <1>2 DEF MarkConfirmed, Alone, history
<1>6. DOMAIN tx' = DOMAIN tx /\ \A j \in DOMAIN tx : tx'[j].step = tx[j].step
  BY <1>5, MarkedSteps
<1>7. (Pausing(l))' BY <1>3, <1>4 DEF Solo, Pausing, Asks, AtCheckpoint, InLoop
<1>8. (Once(l))'
  <2>1. \A i \in Index(pipe) : Known(k, i) => (Known(l, i))'
    BY <1>3, <1>4, <1>5 DEF Known, Resumed, InLoop, Asks, AtCheckpoint
  <2> QED BY <1>3, <1>5, <2>1, OnceKept DEF Solo
<1>9. ASSUME faults' = 0 PROVE (Answerable(l))' /\ (Told(l))'
  <2>1. Answerable(k) /\ Told(k) BY <1>3, <1>5, <1>9 DEF Solo
  <2>2. pending \in DOMAIN tx BY <1>3, <2>1 DEF Answerable
  <2>3. (Answerable(l))'
    BY <1>3, <1>4, <1>5, <1>6, <2>1, <2>2 DEF Answerable, AtCheckpoint, InLoop
  <2>4. (Told(l))' BY <1>3, <1>4, <1>5, <2>1 DEF Told
  <2> QED BY <2>3, <2>4
<1> QED BY <1>3, <1>5, <1>7, <1>8, <1>9, SoloMoves DEF Solo

LEMMA LoadSolo ==
  ASSUME OneRequest, IInv, SInv, NEW r \in Requests, Load(r) PROVE SInv'
<1>1. PICK k : k = req[r] OBVIOUS
<1>2. /\ Solo(k) /\ k \in Locals(pipe) /\ k.pc = "load" /\ started
      /\ faults \in Nat /\ completions \in [Index(pipe) -> Nat]
      /\ UNCHANGED <<pipe, started, faults, ckpt, pending, tx, approved, armed, completions>>
  BY <1>1, SoloMine DEF Load, At, Alone, store, history
<1>3. CASE ~ckpt.steps
  <2>1. PICK l : l = [k EXCEPT !.pc = "clear"] OBVIOUS
  <2>2. /\ l.pc = "clear" /\ l.auto = k.auto /\ l.confirmed = k.confirmed
        /\ l.payload = k.payload
    BY <1>2, <2>1 DEF Locals
  <2>3. Becomes(r, l) BY <1>1, <1>3, <2>1 DEF Load
  <2>4. (Pausing(l))' BY <2>2 DEF Pausing, Asks, AtCheckpoint, InLoop
  <2>5. (Once(l))'
    <3>1. \A i \in Index(pipe) : (Known(l, i))' BY <2>2 DEF Known
    <3> QED BY <1>2, <3>1, OnceKept DEF Solo
  <2>6. faults' # 0 BY <1>2, <1>3 DEF Solo, Answerable
  <2> QED BY <1>2, <2>3, <2>4, <2>5, <2>6, SoloMoves DEF Solo
<1>4. CASE ckpt.steps
  <2>0. PICK new : new = NewResult(ckpt.result.done) OBVIOUS
  <2>1. PICK l : l = [k EXCEPT !.pc = "gate", !.result = new,
                               !.confirmed = ckpt.confirmed \cup ckpt.result.awaiting]
    OBVIOUS
  <2>2. /\ l.pc = "gate" /\ l.auto = k.auto /\ l.payload = k.payload /\ l.tx = k.tx
        /\ l.confirmed = ckpt.confirmed \cup ckpt.result.awaiting /\ l.result = new
    BY <1>2, <2>1 DEF Locals
  <2>3. new.done = ckpt.result.done /\ new.awaiting = {} BY <2>0 DEF NewResult
  <2>4. Becomes(r, l)
    <3>1. l = [k EXCEPT !.pc = "gate", !.confirmed = ckpt.confirmed \cup ckpt.result.awaiting,
                        !.result = NewResult(ckpt.result.done)]
      BY <2>0, <2>1, <1>2 DEF Locals
    <3> QED BY <1>1, <1>4, <3>1 DEF Load
  <2>5. (Pausing(l))'
    <3>1. l.tx # None BY <1>2, <2>2 DEF Solo, Pausing
    <3> QED BY <2>2, <3>1 DEF Pausing, Asks, AtCheckpoint, InLoop, Refused
  <2>6. (Once(l))'
    <3>1. \A i \in Index(pipe) : Known(k, i) => (Known(l, i))'
      BY <1>2, <1>4, <2>2, <2>3 DEF Known, Resumed, InLoop, Asks, AtCheckpoint
    <3> QED BY <1>2, <3>1, OnceKept DEF Solo
  <2>7. ASSUME faults' = 0 PROVE (Answerable(l))' /\ (Told(l))'
    <3>1. Answerable(k) /\ Told(k) BY <1>2, <2>7 DEF Solo
    <3>2. (Answerable(l))' BY <1>2, <2>2, <2>3, <3>1 DEF Answerable, AtCheckpoint, InLoop
    <3>3. (Told(l))' BY <1>2, <2>2, <3>1 DEF Told
    <3> QED BY <3>2, <3>3
  <2> QED BY <1>2, <2>4, <2>5, <2>6, <2>7, SoloMoves DEF Solo
<1> QED BY <1>3, <1>4

LEMMA GateSolo ==
  ASSUME OneRequest, IInv, SInv, NEW r \in Requests, Gate(r) PROVE SInv'
<1>1. PICK k : k = req[r] OBVIOUS
<1>2. /\ Solo(k) /\ k \in Locals(pipe) /\ k.pc = "gate" /\ started
      /\ faults \in Nat /\ completions \in [Index(pipe) -> Nat]
      /\ UNCHANGED <<pipe, started, faults, ckpt, pending, tx, approved, armed, completions>>
  BY <1>1, SoloMine DEF Gate, At, Alone, store, history
<1>3. CASE ~k.auto /\ k.confirmed = {} /\ pipe.confirm # {}
  <2>1. PICK new : new = [k EXCEPT !.result = NewResult({})] OBVIOUS
  <2>2. PICK l : l = Pause(new, Min(pipe.confirm)) OBVIOUS
  <2>3. /\ new \in Locals(pipe) /\ new.tx = k.tx /\ new.auto = k.auto
        /\ new.confirmed = k.confirmed /\ new.payload = k.payload
        /\ new.result = NewResult({})
    BY <1>2, <2>1, NewResultType DEF Locals
  <2>4. /\ l.pc = "journal" /\ l.at = Min(pipe.confirm) /\ l.tx = k.tx /\ l.auto = k.auto
        /\ l.confirmed = k.confirmed /\ l.payload = k.payload
        /\ l.result.awaiting = NewResult({}).awaiting \cup {Min(pipe.confirm)}
    BY <2>2, <2>3, PauseFields
  <2>5. l.result.awaiting = {l.at} BY <2>4 DEF NewResult
  <2>6. Becomes(r, l) BY <1>1, <1>3, <2>1, <2>2 DEF Gate
  <2>7. (Pausing(l))' BY <1>2, <2>4, <2>5 DEF Solo, Pausing, Asks, AtCheckpoint, InLoop, Refused
  <2>8. (Once(l))'
    <3>1. \A i \in Index(pipe) : ~Known(k, i)
      BY <1>2, <1>3 DEF Known, InLoop, Asks, AtCheckpoint
    <3> QED BY <1>2, <3>1, OnceKept DEF Solo
  <2>9. ASSUME faults' = 0 PROVE (Answerable(l))' /\ (Told(l))'
    <3>1. Answerable(k) /\ Told(k) BY <1>2, <2>9 DEF Solo
    <3>2. (Answerable(l))' BY <1>2, <2>4, <2>5, <3>1 DEF Answerable, AtCheckpoint, InLoop
    <3>3. (Told(l))' BY <1>2, <2>4, <3>1, ToldKept
    <3> QED BY <3>2, <3>3
  <2> QED BY <1>2, <2>6, <2>7, <2>8, <2>9, SoloMoves DEF Solo
<1>4. CASE ~(~k.auto /\ k.confirmed = {} /\ pipe.confirm # {})
  <2>0. PICK open : open = pipe.confirm \ k.confirmed OBVIOUS
  <2>1. PICK at : at = IF k.auto \/ open = {} THEN None ELSE Min(open) OBVIOUS
  <2>2. PICK new : new = [k EXCEPT !.at = at] OBVIOUS
  <2>3. PICK l : l = Checkpoint(new, {"steps"}, "groups") OBVIOUS
  <2>4. at \in {None} \cup pipe.confirm
    <3>1. open # {} => Min(open) \in open
      <4>1. pipe.confirm \subseteq Nat BY <1>1, SoloMine, PlanFacts
      <4> QED BY <2>0, <4>1, MinFacts
    <3> QED BY <2>0, <2>1, <3>1
  <2>5. /\ new \in Locals(pipe) /\ new.tx = k.tx /\ new.auto = k.auto
        /\ new.confirmed = k.confirmed /\ new.payload = k.payload /\ new.result = k.result
        /\ new.out = k.out
    BY <1>2, <2>2, <2>4 DEF Locals
  <2>6. /\ l.pc = "read" /\ l.next = "groups" /\ l.tx = k.tx /\ l.auto = k.auto
        /\ l.confirmed = k.confirmed /\ l.payload = k.payload /\ l.result = k.result
    BY <2>3, <2>5, CheckpointFields, CheckpointRest
  <2>7. Becomes(r, l)
    <3>1. l = Checkpoint([k EXCEPT !.at = IF k.auto \/ pipe.confirm \ k.confirmed = {} THEN None
                                          ELSE Min(pipe.confirm \ k.confirmed)],
                         {"steps"}, "groups")
      BY <2>0, <2>1, <2>2, <2>3
    <3> QED BY <1>1, <1>4, <3>1 DEF Gate
  <2>8. (Pausing(l))' BY <1>2, <2>6 DEF Solo, Pausing, Asks, AtCheckpoint, InLoop, Refused
  <2>9. (Once(l))'
    <3>1. \A i \in Index(pipe) : Known(k, i) => (Known(l, i))'
      BY <1>2, <2>6 DEF Known, InLoop, Asks, AtCheckpoint
    <3> QED BY <1>2, <3>1, OnceKept DEF Solo
  <2>10. ASSUME faults' = 0 PROVE (Answerable(l))' /\ (Told(l))'
    <3>1. Answerable(k) /\ Told(k) BY <1>2, <2>10 DEF Solo
    <3>2. (Answerable(l))' BY <1>2, <2>6, <3>1 DEF Answerable, AtCheckpoint, InLoop
    <3>3. (Told(l))' BY <1>2, <2>6, <3>1, ToldKept
    <3> QED BY <3>2, <3>3
  <2> QED BY <1>2, <2>7, <2>8, <2>9, <2>10, SoloMoves DEF Solo
<1> QED BY <1>3, <1>4

\* A request settles: nothing is known less, and without a transaction no
\* confirmation would be accepted.
LEMMA Settles ==
  ASSUME OneRequest, IInv, SInv, NEW r \in Requests, InLoop(req[r]),
         NEW k \in Locals(pipe), k.tx = req[r].tx, k.auto = req[r].auto,
         k.confirmed = req[r].confirmed, k.payload = req[r].payload,
         k.result.awaiting = req[r].result.awaiting, Becomes(r, Settle(k)),
         UNCHANGED <<pipe, started, faults, ckpt, pending, tx, approved, armed, completions>>
  PROVE  SInv'
<1>1. /\ Solo(req[r]) /\ started /\ faults \in Nat /\ completions \in [Index(pipe) -> Nat]
      /\ pending \in {None, Other} \cup DOMAIN tx
  BY SoloMine DEF InLoop
<1>2. PICK l : l = Settle(k) OBVIOUS
<1>3. /\ l.pc = "read" /\ l.next = (IF k.tx = None THEN "idle" ELSE "executed") /\ l.put = {}
      /\ l.tx = k.tx /\ l.auto = k.auto /\ l.confirmed = k.confirmed /\ l.payload = k.payload
      /\ l.result.awaiting = req[r].result.awaiting
  BY <1>2, SettleFields
<1>4. k.tx = None => Refused BY <1>1 DEF Solo, Pausing
<1>5. (Pausing(l))' BY <1>3 DEF Pausing, Asks, AtCheckpoint, InLoop
<1>6. (Once(l))'
  <2>1. \A i \in Index(pipe) : (Known(l, i))' BY <1>3, <1>4 DEF Known, AtCheckpoint, Refused
  <2> QED BY <1>1, <2>1, OnceKept DEF Solo
<1>7. ASSUME faults' = 0 PROVE (Answerable(l))' /\ (Told(l))'
  <2>1. Answerable(req[r]) /\ Told(req[r]) BY <1>1, <1>7 DEF Solo
  <2>2. l.result.awaiting = {} BY <1>3, <2>1 DEF Answerable
  <2>3. k.tx = None => pending = None BY <1>1, <1>4, <2>1 DEF Answerable, Refused
  <2>4. (Answerable(l))' BY <1>3, <2>1, <2>2, <2>3 DEF Answerable, AtCheckpoint, InLoop
  <2>5. (Told(l))' BY <1>3, <2>1, ToldKept
  <2> QED BY <2>4, <2>5
<1> QED BY <1>1, <1>2, <1>5, <1>6, <1>7, SoloMoves DEF Solo

LEMMA ProceedSolo ==
  ASSUME OneRequest, IInv, SInv, NEW r \in Requests, Proceed(r) PROVE SInv'
<1>1. PICK k : k = req[r] OBVIOUS
<1>2. /\ Solo(k) /\ k \in Locals(pipe) /\ k.pc = "groups" /\ started /\ InLoop(k)
      /\ faults \in Nat /\ completions \in [Index(pipe) -> Nat] /\ DOMAIN k.out = {}
      /\ UNCHANGED <<pipe, started, faults, ckpt, pending, tx, approved, completions>>
  BY <1>1, SoloMine DEF Proceed, At, Alone, store, InLoop
<1>3. CASE LoopEnds(k)
  <2>1. PICK end : end = IF k.result.cancelled = {} THEN k
                         ELSE [k EXCEPT !.result.status = "cancelled"]
    OBVIOUS
  <2>2. Becomes(r, Settle(end)) /\ armed' = armed BY <1>1, <1>3, <2>1 DEF Proceed
  <2>3. /\ end \in Locals(pipe) /\ end.tx = k.tx /\ end.auto = k.auto
        /\ end.confirmed = k.confirmed /\ end.payload = k.payload
        /\ end.result.awaiting = k.result.awaiting
    <3>1. PICK res : res = [k.result EXCEPT !.status = "cancelled"] OBVIOUS
    <3>2. res \in ResultTypes(pipe) /\ res.awaiting = k.result.awaiting
      BY <1>2, <3>1 DEF Locals, ResultTypes, Statuses
    <3>3. end = k \/ end = [k EXCEPT !.result = res] BY <2>1, <3>1
    <3> QED BY <1>2, <3>2, <3>3 DEF Locals
  <2> QED BY <1>1, <1>2, <2>2, <2>3, Settles
<1>4. CASE ~LoopEnds(k) /\ Pauses(k, Min(NextGroups(k)))
  <2>1. PICK new : new = [k EXCEPT !.guarded = TRUE] OBVIOUS
  <2>2. PICK l : l = Pause(new, k.at) OBVIOUS
  <2>3. Becomes(r, l) /\ armed' = armed BY <1>1, <1>4, <2>1, <2>2 DEF Proceed
  <2>4. /\ new \in Locals(pipe) /\ new.tx = k.tx /\ new.auto = k.auto
        /\ new.confirmed = k.confirmed /\ new.payload = k.payload /\ new.result = k.result
    BY <1>2, <2>1 DEF Locals
  <2>5. /\ l.pc = "journal" /\ l.at = k.at /\ l.tx = k.tx /\ l.auto = k.auto
        /\ l.confirmed = k.confirmed /\ l.payload = k.payload
        /\ l.result.done = k.result.done /\ l.result.awaiting = k.result.awaiting \cup {k.at}
    BY <2>2, <2>4, PauseFields
  <2>6. (Pausing(l))' BY <1>2, <2>5 DEF Solo, Pausing, Asks, AtCheckpoint, InLoop, Refused
  <2>7. (Once(l))'
    <3>1. \A i \in Index(pipe) : Known(k, i) => (Known(l, i))'
      BY <1>2, <2>5 DEF Known, InLoop, Asks, AtCheckpoint, Done
    <3> QED BY <1>2, <3>1, OnceKept DEF Solo
  <2>8. ASSUME faults' = 0 PROVE (Answerable(l))' /\ (Told(l))'
    <3>1. Answerable(k) /\ Told(k) BY <1>2, <2>8 DEF Solo
    <3>2. l.result.awaiting = {l.at} BY <1>2, <2>5, <3>1 DEF Answerable
    <3>3. (Answerable(l))' BY <1>2, <2>5, <3>1, <3>2 DEF Answerable, AtCheckpoint, InLoop
    <3>4. (Told(l))' BY <1>2, <2>3, <2>5, <3>1, ToldKept
    <3> QED BY <3>3, <3>4
  <2> QED BY <1>2, <2>3, <2>6, <2>7, <2>8, SoloMoves DEF Solo
<1>5. CASE ~LoopEnds(k) /\ ~Pauses(k, Min(NextGroups(k)))
  <2>1. PICK g, todo : g = Min(NextGroups(k)) /\ todo = Plan[pipe][g] \ k.result.done OBVIOUS
  <2>2. PICK l : l = [k EXCEPT !.pc = "steps", !.guarded = TRUE,
                               !.group = g, !.todo = todo, !.out = <<>>]
    OBVIOUS
  <2>3. /\ Becomes(r, l)
        /\ armed' = armed \cup (IF k.auto THEN todo ELSE todo \cap k.confirmed)
    BY <1>1, <1>5, <2>1, <2>2 DEF Proceed
  <2>4. /\ l.pc = "steps" /\ l.tx = k.tx /\ l.auto = k.auto /\ l.confirmed = k.confirmed
        /\ l.payload = k.payload /\ l.result = k.result
    BY <1>2, <2>2 DEF Locals
  <2>5. todo \subseteq Index(pipe)
    <3>1. IInv' BY <1>1, <1>5, ProceedBegins
    <3>2. req'[r] = l BY <2>3 DEF Becomes, IInv
    <3>3. l \in Locals(pipe) BY <1>2, <3>1, <3>2 DEF IInv
    <3>4. l.todo = todo BY <1>2, <2>2 DEF Locals
    <3> QED BY <3>3, <3>4 DEF Locals, StepSets
  <2>6. (Pausing(l))' BY <1>2, <2>4 DEF Solo, Pausing, Asks, AtCheckpoint, InLoop, Refused
  <2>7. (Once(l))'
    <3>1. \A i \in Index(pipe) : Known(k, i) => (Known(l, i))'
      BY <1>2, <2>4 DEF Known, InLoop, Asks, AtCheckpoint, Done
    <3> QED BY <1>2, <3>1, OnceKept DEF Solo
  <2>8. ASSUME faults' = 0 PROVE (Answerable(l))' /\ (Told(l))'
    <3>1. Answerable(k) /\ Told(k) BY <1>2, <2>8 DEF Solo
    <3>2. (Answerable(l))' BY <1>2, <2>4, <3>1 DEF Answerable, AtCheckpoint, InLoop
    <3>3. armed' \subseteq approved' BY <1>2, <2>3, <2>5, <3>1 DEF Told
    <3>4. (Told(l))' BY <1>2, <2>4, <3>1, <3>3 DEF Told
    <3> QED BY <3>2, <3>4
  <2> QED BY <1>2, <2>3, <2>6, <2>7, <2>8, SoloMoves DEF Solo
<1> QED BY <1>3, <1>4, <1>5

\* A step that is completed was not known to be, so one completion more is
\* what its being known allows.
LEMMA StepEndsSolo ==
  ASSUME OneRequest, IInv, SInv, NEW r \in Requests, NEW i \in Index(pipe),
         NEW status \in {"completed", "failed", "cancelled"}, StepEnds(r, i, status)
  PROVE  SInv'
<1>1. PICK k : k = req[r] OBVIOUS
<1>2. /\ Solo(k) /\ k \in Locals(pipe) /\ k.pc = "steps" /\ started /\ InLoop(k)
      /\ faults \in Nat /\ completions \in [Index(pipe) -> Nat]
      /\ i \in k.todo \ DOMAIN k.out
      /\ UNCHANGED <<pipe, started, faults, ckpt, pending, tx, approved, armed>>
      /\ completions' = IF status = "completed" THEN [completions EXCEPT ![i] = @ + 1]
                        ELSE completions
  BY <1>1, SoloMine DEF StepEnds, At, Alone, store, InLoop
<1>3. PICK out : out = [j \in DOMAIN k.out \cup {i} |-> IF j = i THEN status ELSE k.out[j]]
  OBVIOUS
<1>4. PICK l : l = [k EXCEPT !.out = out] OBVIOUS
<1>5. /\ l.pc = "steps" /\ l.tx = k.tx /\ l.auto = k.auto /\ l.confirmed = k.confirmed
      /\ l.payload = k.payload /\ l.result = k.result /\ l.out = out
  BY <1>2, <1>4 DEF Locals
<1>6. Becomes(r, l)
  <2>1. l = [k EXCEPT !.out = [j \in DOMAIN @ \cup {i} |-> IF j = i THEN status ELSE @[j]]]
    BY <1>2, <1>3, <1>4 DEF Locals
  <2> QED BY <1>1, <2>1 DEF StepEnds
<1>7. (Pausing(l))' BY <1>2, <1>5 DEF Solo, Pausing, Asks, AtCheckpoint, InLoop, Refused
<1>8. i \notin k.result.done
  <2>1. Looped(pipe, k) BY <1>1, SoloMine DEF Good
  <2> QED BY <1>2, <2>1 DEF Looped
<1>9. Done(l) = Done(k) \cup (IF status = "completed" THEN {i} ELSE {})
  BY <1>2, <1>3, <1>5 DEF Done
<1>10. \A j : Known(k, j) <=> j \in k.result.done \cup Done(k)
  BY <1>2 DEF Known, Asks, AtCheckpoint
<1>11. \A j : (Known(l, j))' <=> j \in k.result.done \cup Done(l)
  BY <1>5 DEF Known, InLoop, Asks, AtCheckpoint
<1>12. i \notin Done(k) BY <1>2 DEF Done
<1>13. (Once(l))'
  <2> SUFFICES ASSUME NEW j \in Index(pipe)
               PROVE  completions'[j] <= faults + (IF (Known(l, j))' THEN 1 ELSE 0)
    BY <1>2 DEF Once
  <2>1. completions[j] <= faults + (IF Known(k, j) THEN 1 ELSE 0) BY <1>2 DEF Solo, Once
  <2>2. completions[j] \in Nat BY <1>2
  <2>3. CASE j = i /\ status = "completed"
    <3>1. completions'[j] = completions[j] + 1 BY <1>2, <2>3
    <3>2. ~Known(k, j) /\ (Known(l, j))' BY <1>8, <1>9, <1>10, <1>11, <1>12, <2>3
    <3> QED BY <1>2, <2>1, <2>2, <3>1, <3>2
  <2>4. CASE ~(j = i /\ status = "completed")
    <3>1. completions'[j] = completions[j] BY <1>2, <2>4
    <3>2. Known(k, j) => (Known(l, j))' BY <1>9, <1>10, <1>11
    <3>3. CASE Known(k, j) BY <2>1, <3>1, <3>2, <3>3
    <3>4. CASE ~Known(k, j) BY <1>2, <2>1, <2>2, <3>1, <3>4
    <3> QED BY <3>3, <3>4
  <2> QED BY <2>3, <2>4
<1>14. ASSUME faults' = 0 PROVE (Answerable(l))' /\ (Told(l))'
  <2>1. Answerable(k) /\ Told(k) BY <1>2, <1>14 DEF Solo
  <2>2. (Answerable(l))' BY <1>2, <1>5, <2>1 DEF Answerable, AtCheckpoint, InLoop
  <2>3. (Told(l))' BY <1>2, <1>5, <2>1, ToldKept
  <2> QED BY <2>2, <2>3
<1> QED BY <1>2, <1>6, <1>7, <1>13, <1>14, SoloMoves DEF Solo

LEMMA StepRaisesSolo ==
  ASSUME OneRequest, IInv, SInv, NEW r \in Requests, NEW i \in Index(pipe), StepRaises(r, i)
  PROVE  SInv'
<1>1. PICK k : k = req[r] OBVIOUS
<1>2. k \in Locals(pipe) /\ InLoop(k) BY <1>1, SoloMine DEF StepRaises, At, InLoop
<1>3. PICK res : res = [k.result EXCEPT !.status = "failed"] OBVIOUS
<1>4. res \in ResultTypes(pipe) /\ res.awaiting = k.result.awaiting
  BY <1>2, <1>3 DEF Locals, ResultTypes, Statuses
<1>5. PICK end : end = [k EXCEPT !.result = res, !.todo = {}] OBVIOUS
<1>6. /\ end \in Locals(pipe) /\ end.tx = k.tx /\ end.auto = k.auto
      /\ end.confirmed = k.confirmed /\ end.payload = k.payload /\ end.result = res
  BY <1>2, <1>4, <1>5 DEF Locals, StepSets
<1>7. Becomes(r, Settle(end))
  <2>1. end = [k EXCEPT !.result.status = "failed", !.todo = {}]
    BY <1>2, <1>3, <1>5 DEF Locals
  <2> QED BY <1>1, <2>1 DEF StepRaises
<1>8. UNCHANGED <<pipe, started, faults, ckpt, pending, tx, approved, armed, completions>>
  BY DEF StepRaises, Alone, store, history
<1> QED BY <1>1, <1>2, <1>4, <1>6, <1>7, <1>8, Settles

LEMMA GroupDoneSolo ==
  ASSUME OneRequest, IInv, SInv, NEW r \in Requests, GroupDone(r) PROVE SInv'
<1>1. PICK k : k = req[r] OBVIOUS
<1>2. /\ Solo(k) /\ k \in Locals(pipe) /\ k.pc = "steps" /\ started /\ InLoop(k)
      /\ faults \in Nat /\ completions \in [Index(pipe) -> Nat]
      /\ UNCHANGED <<pipe, started, faults, ckpt, pending, tx, approved, armed, completions>>
  BY <1>1, SoloMine DEF GroupDone, At, Alone, store, history, InLoop
<1> DEFINE E(status) == {i \in DOMAIN k.out : k.out[i] = status}
<1>3. PICK res : res = [k.result EXCEPT !.done = @ \cup E("completed"),
                                        !.failed = @ \cup E("failed"),
                                        !.cancelled = @ \cup E("cancelled")]
  OBVIOUS
<1>4. PICK new : new = [k EXCEPT !.result = res, !.todo = {}, !.out = <<>>] OBVIOUS
<1>5. PICK l : l = Checkpoint(new, {}, "groups") OBVIOUS
<1>6. k.result \in ResultTypes(pipe) BY <1>2 DEF Locals
<1>7. new = [k EXCEPT !.result.done = @ \cup E("completed"),
                      !.result.failed = @ \cup E("failed"),
                      !.result.cancelled = @ \cup E("cancelled"),
                      !.todo = {}, !.out = <<>>]
  BY <1>2, <1>3, <1>4, <1>6 DEF Locals, ResultTypes
<1>8. Becomes(r, l) BY <1>1, <1>5, <1>7 DEF GroupDone
<1>9. E("completed") = Done(k) BY DEF Done
<1> HIDE DEF E
<1>10. res.done = k.result.done \cup Done(k) /\ res.awaiting = k.result.awaiting
  BY <1>3, <1>6, <1>9 DEF ResultTypes
<1>11. /\ l.pc = "read" /\ l.next = "groups" /\ l.tx = k.tx /\ l.auto = k.auto
       /\ l.confirmed = k.confirmed /\ l.payload = k.payload /\ l.result = res
  BY <1>2, <1>4, <1>5 DEF Checkpoint, Locals
<1>12. (Pausing(l))' BY <1>2, <1>11 DEF Solo, Pausing, Asks, AtCheckpoint, InLoop, Refused
<1>13. (Once(l))'
  <2>1. \A i \in Index(pipe) : Known(k, i) => (Known(l, i))'
    BY <1>2, <1>10, <1>11 DEF Known, InLoop, Asks, AtCheckpoint
  <2> QED BY <1>2, <2>1, OnceKept DEF Solo
<1>14. ASSUME faults' = 0 PROVE (Answerable(l))' /\ (Told(l))'
  <2>1. Answerable(k) /\ Told(k) BY <1>2, <1>14 DEF Solo
  <2>2. (Answerable(l))' BY <1>2, <1>10, <1>11, <2>1 DEF Answerable, AtCheckpoint, InLoop
  <2>3. (Told(l))' BY <1>2, <1>11, <2>1, ToldKept
  <2> QED BY <2>2, <2>3
<1> QED BY <1>2, <1>8, <1>12, <1>13, <1>14, SoloMoves DEF Solo

LEMMA JournalSolo ==
  ASSUME OneRequest, IInv, SInv, NEW r \in Requests, Journal(r) PROVE SInv'
<1>1. PICK k : k = req[r] OBVIOUS
<1>2. /\ Solo(k) /\ k \in Locals(pipe) /\ k.pc = "journal" /\ started
      /\ faults \in Nat /\ completions \in [Index(pipe) -> Nat]
      /\ pending \in {None, Other} \cup DOMAIN tx
      /\ UNCHANGED <<pipe, started, faults, ckpt, pending, approved, armed, completions>>
  BY <1>1, SoloMine DEF Journal, At, Alone, history
<1>3. /\ tx' = Append(tx, [status |-> "pending", step |-> k.at])
      /\ Becomes(r, [k EXCEPT !.pc = "key", !.ask = Len(tx')])
  BY <1>1 DEF Journal
<1>4. /\ Len(tx) \in Nat /\ DOMAIN tx = 1..Len(tx) /\ DOMAIN tx' = 1..(Len(tx) + 1)
      /\ Len(tx') = Len(tx) + 1 /\ tx'[Len(tx) + 1].step = k.at
      /\ \A j \in DOMAIN tx : tx'[j] = tx[j]
  BY <1>3 DEF IInv, Stored
<1>5. PICK l : l = [k EXCEPT !.pc = "key", !.ask = Len(tx')] OBVIOUS
<1>6. /\ l.pc = "key" /\ l.ask = Len(tx') /\ l.tx = k.tx /\ l.auto = k.auto /\ l.at = k.at
      /\ l.confirmed = k.confirmed /\ l.payload = k.payload /\ l.result = k.result
  BY <1>2, <1>5 DEF Locals
<1>7. pending' \notin DOMAIN tx \/ pending' \in DOMAIN tx' BY <1>4
<1>8. (Pausing(l))'
  <2>1. k.tx = None => pending \in {None, Other} BY <1>2 DEF Solo, Pausing, Refused
  <2>2. k.tx = None => pending' \notin DOMAIN tx' BY <1>2, <1>4, <2>1 DEF None, Other
  <2>3. l.result.awaiting # {} BY <1>2, <1>6 DEF Solo, Pausing, Asks
  <2> QED BY <1>6, <2>2, <2>3 DEF Pausing, Asks, AtCheckpoint, InLoop, Refused
<1>9. (Once(l))'
  <2>1. \A i \in Index(pipe) : Known(k, i) => (Known(l, i))'
    BY <1>2, <1>6 DEF Known, InLoop, Asks, AtCheckpoint
  <2> QED BY <1>2, <2>1, OnceKept DEF Solo
<1>10. ASSUME faults' = 0 PROVE (Answerable(l))' /\ (Told(l))'
  <2>1. Answerable(k) /\ Told(k) BY <1>2, <1>10 DEF Solo
  <2>2. tx'[l.ask].step = l.at BY <1>4, <1>6
  <2>3. (Answerable(l))' BY <1>2, <1>6, <2>1, <2>2 DEF Answerable, AtCheckpoint, InLoop
  <2>4. (Told(l))' BY <1>2, <1>6, <2>1, ToldKept
  <2> QED BY <2>3, <2>4
<1> QED BY <1>2, <1>3, <1>5, <1>8, <1>9, <1>10, SoloMoves DEF Solo

LEMMA SetPendingSolo ==
  ASSUME OneRequest, IInv, SInv, NEW r \in Requests, SetPending(r) PROVE SInv'
<1>1. PICK k : k = req[r] OBVIOUS
<1>2. /\ Solo(k) /\ k \in Locals(pipe) /\ k.pc = "key" /\ started
      /\ faults \in Nat /\ completions \in [Index(pipe) -> Nat]
      /\ UNCHANGED <<pipe, started, faults, ckpt, tx, approved, armed, completions>>
      /\ pending' = k.ask
  BY <1>1, SoloMine DEF SetPending, At, Alone, history
<1>3. k.ask \in DOMAIN tx /\ k.ask # None /\ k.ask # Other
  <2>1. k.ask \in DOMAIN tx /\ DOMAIN tx \subseteq Nat \ {0}
    BY <1>1, <1>2, SoloMine DEF Good, Typed
  <2> QED BY <2>1 DEF None, Other
<1>4. PICK l : l = Checkpoint(k, {"steps", "confirmed"}, "idle") OBVIOUS
<1>5. /\ l.pc = "read" /\ l.next = "idle" /\ l.put = {"steps", "confirmed"} /\ l.tx = k.tx
      /\ l.auto = k.auto /\ l.confirmed = k.confirmed /\ l.payload = k.payload
      /\ l.result = k.result
  BY <1>2, <1>4, CheckpointFields, CheckpointRest
<1>6. Becomes(r, l) BY <1>1, <1>4 DEF SetPending
<1>7. (Pausing(l))' BY <1>2, <1>5 DEF Solo, Pausing, Asks, AtCheckpoint, InLoop
<1>8. (Once(l))'
  <2>1. \A i \in Index(pipe) : Known(k, i) => (Known(l, i))'
    BY <1>2, <1>5 DEF Known, InLoop, Asks, AtCheckpoint
  <2> QED BY <1>2, <2>1, OnceKept DEF Solo
<1>9. ASSUME faults' = 0 PROVE (Answerable(l))' /\ (Told(l))'
  <2>1. Answerable(k) /\ Told(k) BY <1>2, <1>9 DEF Solo
  <2>2. (Answerable(l))' BY <1>2, <1>3, <1>5, <2>1 DEF Answerable, AtCheckpoint, InLoop
  <2>3. (Told(l))' BY <1>2, <1>5, <2>1, ToldKept
  <2> QED BY <2>2, <2>3
<1> QED BY <1>2, <1>6, <1>7, <1>8, <1>9, SoloMoves DEF Solo


LEMMA ReadSolo ==
  ASSUME OneRequest, IInv, SInv, NEW r \in Requests, ReadCheckpoint(r) PROVE SInv'
<1>1. PICK k : k = req[r] OBVIOUS
<1>2. /\ Solo(k) /\ k \in Locals(pipe) /\ k.pc = "read" /\ started
      /\ faults \in Nat /\ completions \in [Index(pipe) -> Nat]
      /\ UNCHANGED <<pipe, started, faults, ckpt, pending, tx, approved, armed, completions>>
  BY <1>1, SoloMine DEF ReadCheckpoint, At, Alone, store, history
<1>3. PICK l : l = [k EXCEPT !.pc = "write", !.payload = ckpt] OBVIOUS
<1>4. /\ l.pc = "write" /\ l.payload = ckpt /\ l.next = k.next /\ l.put = k.put /\ l.tx = k.tx
      /\ l.auto = k.auto /\ l.confirmed = k.confirmed /\ l.result = k.result /\ l.out = k.out
  BY <1>2, <1>3 DEF Locals
<1>5. Becomes(r, l) BY <1>1, <1>3 DEF ReadCheckpoint
<1>6. (Pausing(l))' BY <1>2, <1>4 DEF Solo, Pausing, Asks, AtCheckpoint, InLoop, Refused
<1>7. (Once(l))'
  <2>1. \A i \in Index(pipe) : Known(k, i) => (Known(l, i))'
    BY <1>2, <1>4 DEF Known, InLoop, Asks, AtCheckpoint, Refused, Done
  <2> QED BY <1>2, <2>1, OnceKept DEF Solo
<1>8. ASSUME faults' = 0 PROVE (Answerable(l))' /\ (Told(l))'
  <2>1. Answerable(k) /\ Told(k) BY <1>2, <1>8 DEF Solo
  <2>2. (Answerable(l))' BY <1>2, <1>4, <2>1 DEF Answerable, AtCheckpoint, InLoop
  <2>3. (Told(l))' BY <1>2, <1>4, <2>1 DEF Told
  <2> QED BY <2>2, <2>3
<1> QED BY <1>2, <1>5, <1>6, <1>7, <1>8, SoloMoves DEF Solo

\* The pause ends with a checkpoint that names its step and has the step list:
\* what was known stays known to the resume that reads it.
LEMMA WriteSolo ==
  ASSUME OneRequest, IInv, SInv, NEW r \in Requests, WriteCheckpoint(r) PROVE SInv'
<1>1. PICK k : k = req[r] OBVIOUS
<1>2. /\ Solo(k) /\ k \in Locals(pipe) /\ k.pc = "write" /\ started
      /\ faults \in Nat /\ completions \in [Index(pipe) -> Nat]
      /\ UNCHANGED <<pipe, started, faults, pending, tx, approved, armed, completions>>
  BY <1>1, SoloMine DEF WriteCheckpoint, At, Alone, history
<1>3. /\ ckpt'.result = k.result
      /\ ckpt'.steps = ("steps" \in k.put \/ k.payload.steps)
      /\ ckpt'.confirmed = IF "confirmed" \in k.put THEN k.confirmed ELSE k.payload.confirmed
  BY <1>1 DEF WriteCheckpoint
<1>4. k.next \in {"idle", "groups", "executed"} BY <1>2 DEF Locals
<1>5. CASE k.next = "idle"
  <2>1. Becomes(r, Idle) BY <1>1, <1>5 DEF WriteCheckpoint, Return
  <2>2. k.put \in {{}, {"steps", "confirmed"}}
    BY <1>2, <1>5 DEF Solo, Pausing, AtCheckpoint
  <2>3. k.put # {} => ckpt'.steps /\ k.result.awaiting # {}
    BY <1>2, <1>3, <1>5, <2>2 DEF Solo, Pausing, Asks, AtCheckpoint
  <2>4. (Pausing(Idle))' BY IdleFields DEF Pausing, Asks, AtCheckpoint, InLoop
  <2>5. (Once(Idle))'
    <3>1. ASSUME NEW i \in Index(pipe), Known(k, i) PROVE (Known(Idle, i))'
      <4>1. CASE k.put = {}
        BY <1>2, <1>5, <3>1, <4>1, IdleFields DEF Known, InLoop, Asks, AtCheckpoint, Refused
      <4>2. CASE k.put # {}
        <5>1. i \in k.result.done
          BY <1>2, <1>5, <3>1, <4>2 DEF Known, InLoop, Asks, AtCheckpoint
        <5>2. i \in Resumed' BY <1>3, <2>3, <4>2, <5>1 DEF Resumed
        <5> QED BY <5>2, IdleFields DEF Known
      <4> QED BY <4>1, <4>2
    <3> QED BY <1>2, <3>1, OnceKept DEF Solo
  <2>6. ASSUME faults' = 0 PROVE (Answerable(Idle))' /\ (Told(Idle))'
    <3>1. Answerable(k) /\ Told(k) BY <1>2, <2>6 DEF Solo
    <3>2. (Answerable(Idle))'
      BY <1>2, <1>3, <1>5, <2>3, <3>1, IdleFields DEF Answerable, AtCheckpoint, InLoop
    <3>3. (Told(Idle))' BY <1>2, <1>3, <3>1, IdleFields DEF Told
    <3> QED BY <3>2, <3>3
  <2> QED BY <1>2, <2>1, <2>4, <2>5, <2>6, SoloMoves DEF Solo
<1>6. CASE k.next # "idle"
  <2>1. PICK l : l = [k EXCEPT !.pc = k.next, !.put = {}, !.payload = NoCheckpoint, !.next = "idle"]
    OBVIOUS
  <2>2. /\ l.pc = k.next /\ l.tx = k.tx /\ l.auto = k.auto /\ l.confirmed = k.confirmed
        /\ l.result = k.result /\ l.out = k.out /\ l.payload = NoCheckpoint
    BY <1>2, <2>1 DEF Locals
  <2>3. Becomes(r, l) BY <1>1, <1>6, <2>1 DEF WriteCheckpoint, Return
  <2>4. l.pc \in {"groups", "executed"} BY <1>4, <1>6, <2>2
  <2>5. (Pausing(l))'
    BY <1>2, <2>2, <2>4 DEF Solo, Pausing, Asks, AtCheckpoint, InLoop, Refused
  <2>6. (Once(l))'
    <3>1. \A i \in Index(pipe) : Known(k, i) => (Known(l, i))'
      BY <1>2, <1>6, <2>2, <2>4 DEF Known, InLoop, Asks, AtCheckpoint, Done
    <3> QED BY <1>2, <3>1, OnceKept DEF Solo
  <2>7. ASSUME faults' = 0 PROVE (Answerable(l))' /\ (Told(l))'
    <3>1. Answerable(k) /\ Told(k) BY <1>2, <2>7 DEF Solo
    <3>2. (Answerable(l))'
      BY <1>2, <1>3, <2>2, <2>4, <3>1 DEF Answerable, AtCheckpoint, InLoop
    <3>3. l.payload.confirmed = {} BY <2>2 DEF NoCheckpoint
    <3>4. (Told(l))' BY <1>2, <1>3, <2>2, <2>4, <3>1, <3>3 DEF Told
    <3> QED BY <3>2, <3>4
  <2> QED BY <1>2, <2>3, <2>5, <2>6, <2>7, SoloMoves DEF Solo
<1> QED BY <1>5, <1>6

LEMMA MarkExecutedSolo ==
  ASSUME OneRequest, IInv, SInv, NEW r \in Requests, MarkExecuted(r) PROVE SInv'
<1>1. PICK k : k = req[r] OBVIOUS
<1>2. /\ Solo(k) /\ k \in Locals(pipe) /\ k.pc = "executed" /\ started
      /\ faults \in Nat /\ completions \in [Index(pipe) -> Nat]
      /\ UNCHANGED <<pipe, started, faults, ckpt, pending, approved, armed, completions>>
  BY <1>1, SoloMine DEF MarkExecuted, At, Alone, history
<1>3. PICK l : l = [k EXCEPT !.pc = "clear"] OBVIOUS
<1>4. /\ l.pc = "clear" /\ l.auto = k.auto /\ l.confirmed = k.confirmed /\ l.payload = k.payload
  BY <1>2, <1>3 DEF Locals
<1>5. Becomes(r, l) BY <1>1, <1>3 DEF MarkExecuted
<1>6. (Pausing(l))' BY <1>4 DEF Pausing, Asks, AtCheckpoint, InLoop
<1>7. (Once(l))'
  <2>1. \A i \in Index(pipe) : (Known(l, i))' BY <1>4 DEF Known
  <2> QED BY <1>2, <2>1, OnceKept DEF Solo
<1>8. ASSUME faults' = 0 PROVE (Answerable(l))' /\ (Told(l))'
  <2>1. Answerable(k) /\ Told(k) BY <1>2, <1>8 DEF Solo
  <2>2. (Answerable(l))' BY <1>2, <1>4, <2>1 DEF Answerable, AtCheckpoint, InLoop
  <2>3. (Told(l))' BY <1>2, <1>4, <2>1, ToldKept
  <2> QED BY <2>2, <2>3
<1> QED BY <1>2, <1>5, <1>6, <1>7, <1>8, SoloMoves DEF Solo

LEMMA ClearPendingSolo ==
  ASSUME OneRequest, IInv, SInv, NEW r \in Requests, ClearPending(r) PROVE SInv'
<1>1. PICK k : k = req[r] OBVIOUS
<1>2. /\ Solo(k) /\ k \in Locals(pipe) /\ k.pc = "clear" /\ started
      /\ faults \in Nat /\ completions \in [Index(pipe) -> Nat]
      /\ UNCHANGED <<pipe, started, faults, ckpt, tx, approved, armed, completions>>
      /\ pending' = None /\ Becomes(r, Idle) /\ DOMAIN tx \subseteq Nat \ {0}
  BY <1>1, SoloMine DEF ClearPending, At, Alone, history
<1>3. Refused' BY <1>2 DEF Refused, None
<1>4. (Pausing(Idle))' BY IdleFields DEF Pausing, Asks, AtCheckpoint, InLoop
<1>5. (Once(Idle))'
  <2>1. \A i \in Index(pipe) : (Known(Idle, i))' BY <1>3, IdleFields DEF Known
  <2> QED BY <1>2, <2>1, OnceKept DEF Solo
<1>6. ASSUME faults' = 0 PROVE (Answerable(Idle))' /\ (Told(Idle))'
  <2>1. Answerable(k) /\ Told(k) BY <1>2, <1>6 DEF Solo
  <2>2. (Answerable(Idle))'
    BY <1>2, <2>1, IdleFields DEF Answerable, AtCheckpoint, InLoop, None, Other
  <2>3. (Told(Idle))' BY <1>2, <2>1, IdleFields DEF Told
  <2> QED BY <2>2, <2>3
<1> QED BY <1>2, <1>4, <1>5, <1>6, SoloMoves DEF Solo

-----------------------------------------------------------------------------
(* What may fail: it pays for one completion more, and ends what holds only as
   long as nothing failed *)

LEMMA FaultPays ==
  ASSUME NEW k, NEW l, Once(k), Fault, UNCHANGED <<pipe, completions>>,
         faults \in Nat, completions \in [Index(pipe) -> Nat], (Pausing(l))'
  PROVE  (Solo(l))'
<1>1. faults' = faults + 1 /\ faults' # 0 BY DEF Fault
<1>2. (Once(l))'
  <2> SUFFICES ASSUME NEW i \in Index(pipe)
               PROVE  completions[i] <= faults' + (IF (Known(l, i))' THEN 1 ELSE 0)
    BY DEF Once
  <2>1. completions[i] <= faults + (IF Known(k, i) THEN 1 ELSE 0) BY DEF Once
  <2>2. completions[i] \in Nat OBVIOUS
  <2>3. completions[i] <= faults + 1
    <3>1. CASE Known(k, i) BY <2>1, <3>1
    <3>2. CASE ~Known(k, i) BY <2>1, <2>2, <3>2
    <3> QED BY <3>1, <3>2
  <2>4. CASE (Known(l, i))' BY <1>1, <2>2, <2>3, <2>4
  <2>5. CASE ~(Known(l, i))' BY <1>1, <2>2, <2>3, <2>5
  <2> QED BY <2>4, <2>5
<1> QED BY <1>1, <1>2 DEF Solo

LEMMA FaultSolo ==
  ASSUME OneRequest, IInv, SInv, NEW r \in Requests, req[r].pc # "idle", Fault, NEW l,
         Becomes(r, l), UNCHANGED <<pipe, completions, started>>, (Pausing(l))'
  PROVE  SInv'
<1>1. Once(req[r]) /\ started /\ faults \in Nat /\ completions \in [Index(pipe) -> Nat]
  BY SoloMine DEF Solo
<1>2. (Solo(l))' BY <1>1, FaultPays
<1> QED BY <1>1, <1>2, SoloMoves

LEMMA IdlePauses == (Pausing(Idle))'
BY IdleFields DEF Pausing, Asks, AtCheckpoint, InLoop

LEMMA CancelSolo ==
  ASSUME OneRequest, IInv, SInv, NEW r \in Requests, Cancel(r) PROVE SInv'
<1>1. PICK k : k = req[r] OBVIOUS
<1>2. /\ k \in Locals(pipe) /\ k.pc # "idle" /\ Fault
      /\ UNCHANGED <<pipe, completions, started>>
  BY <1>1, SoloMine DEF Cancel, history
<1>3. CASE k.guarded
  <2>1. PICK res : res = [k.result EXCEPT !.status = "cancelled"] OBVIOUS
  <2>2. res \in ResultTypes(pipe)
    BY <1>2, <2>1 DEF Locals, ResultTypes, Statuses
  <2>3. PICK new : new = [k EXCEPT !.result = res, !.guarded = FALSE, !.todo = {}, !.out = <<>>]
    OBVIOUS
  <2>4. new = [k EXCEPT !.result.status = "cancelled", !.guarded = FALSE, !.todo = {}, !.out = <<>>]
    BY <1>2, <2>1, <2>3 DEF Locals
  <2>5. PICK l : l = Checkpoint(new, {}, "idle") OBVIOUS
  <2>6. l.pc = "read" /\ l.put = {} /\ l.next = "idle"
    BY <1>2, <2>3, <2>5 DEF Checkpoint, Locals
  <2>7. Becomes(r, l) BY <1>1, <1>3, <2>4, <2>5 DEF Cancel
  <2>8. (Pausing(l))' BY <2>6 DEF Pausing, Asks, AtCheckpoint, InLoop
  <2> QED BY <1>1, <1>2, <2>7, <2>8, FaultSolo
<1>4. CASE ~k.guarded
  <2>1. Becomes(r, Idle) BY <1>1, <1>4 DEF Cancel
  <2> QED BY <1>1, <1>2, <2>1, IdlePauses, FaultSolo
<1> QED BY <1>3, <1>4

LEMMA CheckpointFailsSolo ==
  ASSUME OneRequest, IInv, SInv, NEW r \in Requests, CheckpointFails(r) PROVE SInv'
<1>1. PICK k : k = req[r] OBVIOUS
<1>2. /\ Solo(k) /\ k \in Locals(pipe) /\ k.pc \in {"read", "write"} /\ Fault
      /\ UNCHANGED <<pipe, completions, started, pending, tx>>
  BY <1>1, SoloMine DEF CheckpointFails, store, history
<1>3. k.next \in {"idle", "groups", "executed"} BY <1>2 DEF Locals
<1>4. CASE k.next = "idle"
  <2>1. Becomes(r, Idle) BY <1>1, <1>4 DEF CheckpointFails, Return
  <2> QED BY <1>1, <1>2, <2>1, IdlePauses, FaultSolo
<1>5. CASE k.next # "idle"
  <2>1. PICK l : l = [k EXCEPT !.pc = k.next, !.put = {}, !.payload = NoCheckpoint, !.next = "idle"]
    OBVIOUS
  <2>2. l.pc = k.next /\ l.tx = k.tx BY <1>2, <2>1 DEF Locals
  <2>3. Becomes(r, l) BY <1>1, <1>5, <2>1 DEF CheckpointFails, Return
  <2>4. (Pausing(l))'
    BY <1>2, <1>3, <1>5, <2>2 DEF Solo, Pausing, Asks, AtCheckpoint, InLoop, Refused
  <2> QED BY <1>1, <1>2, <2>3, <2>4, FaultSolo
<1> QED BY <1>4, <1>5

LEMMA JournalFailsSolo ==
  ASSUME OneRequest, IInv, SInv, NEW r \in Requests, JournalFails(r) PROVE SInv'
<1>1. PICK k : k = req[r] OBVIOUS
<1>2. /\ k \in Locals(pipe) /\ k.pc # "idle" /\ Fault
      /\ UNCHANGED <<pipe, completions, started>>
  BY <1>1, SoloMine DEF JournalFails, history
<1>3. CASE k.guarded
  <2>1. PICK res : res = [k.result EXCEPT !.status = "failed"] OBVIOUS
  <2>2. res \in ResultTypes(pipe)
    BY <1>2, <2>1 DEF Locals, ResultTypes, Statuses
  <2>3. PICK new : new = [k EXCEPT !.result = res] OBVIOUS
  <2>4. new \in Locals(pipe) /\ new = [k EXCEPT !.result.status = "failed"]
    BY <1>2, <2>1, <2>2, <2>3 DEF Locals
  <2>5. PICK l : l = Settle(new) OBVIOUS
  <2>6. l.pc = "read" /\ l.put = {} /\ l.next \in {"idle", "executed"}
    BY <2>4, <2>5, SettleFields
  <2>7. Becomes(r, l) BY <1>1, <1>3, <2>4, <2>5 DEF JournalFails
  <2>8. (Pausing(l))' BY <2>6 DEF Pausing, Asks, AtCheckpoint, InLoop
  <2> QED BY <1>1, <1>2, <2>7, <2>8, FaultSolo
<1>4. CASE ~k.guarded
  <2>1. Becomes(r, Idle) BY <1>1, <1>4 DEF JournalFails
  <2> QED BY <1>1, <1>2, <2>1, IdlePauses, FaultSolo
<1> QED BY <1>3, <1>4

LEMMA LoadFailsSolo ==
  ASSUME OneRequest, IInv, SInv, NEW r \in Requests, LoadFails(r) PROVE SInv'
<1>1. PICK k : k = req[r] OBVIOUS
<1>2. k \in Locals(pipe) /\ k.pc = "load" /\ Fault /\ UNCHANGED <<pipe, completions, started>>
  BY <1>1, SoloMine DEF LoadFails, At, history
<1>3. PICK l : l = [k EXCEPT !.pc = "clear"] OBVIOUS
<1>4. l.pc = "clear" BY <1>2, <1>3 DEF Locals
<1>5. Becomes(r, l) BY <1>1, <1>3 DEF LoadFails
<1>6. (Pausing(l))' BY <1>4 DEF Pausing, Asks, AtCheckpoint, InLoop
<1> QED BY <1>1, <1>2, <1>5, <1>6, FaultSolo

LEMMA OutsideSolo ==
  ASSUME OneRequest, IInv, SInv, Crash \/ CheckpointExpires \/ OtherPending
  PROVE  SInv'
<1>1. /\ Fault /\ UNCHANGED <<pipe, tx, started, completions, approved>>
      /\ DOMAIN tx \subseteq Nat \ {0}
  BY DEF Crash, CheckpointExpires, OtherPending, store, history, IInv, Stored
<1>2. ASSUME NEW r \in Requests PROVE (Solo(req[r]))'
  <2>1. /\ Solo(req[r]) /\ faults \in Nat /\ completions \in [Index(pipe) -> Nat]
    BY SoloMine
  <2>2. (Pausing(req[r]))'
    <3>1. CASE Crash
      <4>1. req'[r] = Idle BY <3>1 DEF Crash
      <4> QED BY <4>1, IdlePauses
    <3>2. CASE CheckpointExpires
      <4>1. UNCHANGED <<req, pending>> BY <3>2 DEF CheckpointExpires
      <4> QED BY <1>1, <2>1, <4>1 DEF Solo, Pausing, Asks, AtCheckpoint, InLoop, Refused
    <3>3. CASE OtherPending
      <4>1. UNCHANGED req /\ Refused'
        BY <1>1, <3>3 DEF OtherPending, Refused, Other
      <4> QED BY <2>1, <4>1 DEF Solo, Pausing, Asks, AtCheckpoint, InLoop
    <3> QED BY <3>1, <3>2, <3>3
  <2> QED BY <1>1, <2>1, <2>2, FaultPays DEF Solo
<1>3. Unstarted'
  <2>1. \A r \in Requests : req'[r] = Idle \/ req'[r] = req[r]
    BY DEF Crash, CheckpointExpires, OtherPending
  <2> QED BY <1>1, <2>1, IdleFields DEF SInv, Unstarted
<1> QED BY <1>2, <1>3 DEF SInv

LEMMA StutterSolo == ASSUME SInv, UNCHANGED vars PROVE SInv'
BY DEF vars, SInv, Unstarted, Solo, Pausing, Once, Answerable, Told, Known, Refused, Resumed

-----------------------------------------------------------------------------
(* What the invariant of one request shows *)

LEMMA NextSolo == OneRequest /\ IInv /\ SInv /\ [Next]_vars => SInv'
<1> SUFFICES ASSUME OneRequest, IInv, SInv, [Next]_vars PROVE SInv' OBVIOUS
<1>1. CASE \E r \in Requests : \E auto \in BOOLEAN : Start(r, auto) BY <1>1, StartSolo
<1>2. CASE \E r \in Requests : Lookup(r) BY <1>2, LookupSolo
<1>3. CASE \E r \in Requests : Work(r)
  <2> PICK r \in Requests : Work(r) BY <1>3
  <2>1. CASE MarkConfirmed(r) BY <2>1, MarkConfirmedSolo
  <2>2. CASE Load(r) BY <2>2, LoadSolo
  <2>3. CASE Gate(r) BY <2>3, GateSolo
  <2>4. CASE Proceed(r) BY <2>4, ProceedSolo
  <2>5. CASE \E i \in Index(pipe), status \in {"completed", "failed", "cancelled"} :
               StepEnds(r, i, status)
    BY <2>5, StepEndsSolo
  <2>6. CASE \E i \in Index(pipe) : StepRaises(r, i) BY <2>6, StepRaisesSolo
  <2>7. CASE GroupDone(r) BY <2>7, GroupDoneSolo
  <2>8. CASE Journal(r) BY <2>8, JournalSolo
  <2>9. CASE SetPending(r) BY <2>9, SetPendingSolo
  <2>10. CASE ReadCheckpoint(r) BY <2>10, ReadSolo
  <2>11. CASE WriteCheckpoint(r) BY <2>11, WriteSolo
  <2>12. CASE MarkExecuted(r) BY <2>12, MarkExecutedSolo
  <2>13. CASE ClearPending(r) BY <2>13, ClearPendingSolo
  <2> QED BY <2>1, <2>2, <2>3, <2>4, <2>5, <2>6, <2>7, <2>8, <2>9, <2>10, <2>11, <2>12, <2>13
          DEF Work
<1>4. CASE \E r \in Requests : Cancel(r) BY <1>4, CancelSolo
<1>5. CASE \E r \in Requests : CheckpointFails(r) BY <1>5, CheckpointFailsSolo
<1>6. CASE \E r \in Requests : JournalFails(r) BY <1>6, JournalFailsSolo
<1>7. CASE \E r \in Requests : LoadFails(r) BY <1>7, LoadFailsSolo
<1>8. CASE Crash \/ CheckpointExpires \/ OtherPending BY <1>8, OutsideSolo
<1>9. CASE UNCHANGED vars BY <1>9, StutterSolo
<1> QED BY <1>1, <1>2, <1>3, <1>4, <1>5, <1>6, <1>7, <1>8, <1>9 DEF Next

\* With one request: what is known of each step, where a pause stands and what
\* was confirmed agree in the request, the checkpoint and the session's key.
THEOREM SoloInvariant == ASSUME OneRequest PROVE Spec => []SInv
<1>1. SInv /\ IInv /\ [Next]_vars => SInv' BY NextSolo
<1> QED BY <1>1, InitSolo, Invariant, PTL DEF Spec

\* With one request and as long as nothing is lost, whenever no request runs
\* the checkpoint waits for a step exactly when the session's pending
\* transaction asks for that step: the user can answer every pause.
THEOREM PauseAnswerable ==
  ASSUME OneRequest PROVE Spec => []AwaitingIsConfirmable
<1>1. SInv => AwaitingIsConfirmable
  <2> SUFFICES ASSUME SInv, faults = 0, \A r \in Requests : At(r, "idle")
               PROVE  /\ pending = None <=> ckpt.result.awaiting = {}
                      /\ pending # None => /\ ckpt.result.awaiting = {tx[pending].step}
                                           /\ ckpt.steps
    BY DEF AwaitingIsConfirmable
  <2>1. PICK r \in Requests : TRUE BY DEF OneRequest
  <2> QED BY <2>1 DEF SInv, Solo, Answerable, At
<1> QED BY <1>1, SoloInvariant, PTL

\* With one request, a step is completed once, and once more for each failure.
THEOREM FailuresPay ==
  ASSUME OneRequest PROVE Spec => []NothingRepeated
<1>1. IInv /\ SInv => NothingRepeated
  <2> SUFFICES ASSUME IInv, SInv, NEW i \in Index(pipe) PROVE completions[i] <= 1 + faults
    BY DEF NothingRepeated
  <2>1. PICK r \in Requests : TRUE BY DEF OneRequest
  <2>2. /\ completions[i] <= faults + (IF Known(req[r], i) THEN 1 ELSE 0)
        /\ completions[i] \in Nat /\ faults \in Nat
    BY <2>1, SoloMine DEF Solo, Once
  <2>3. CASE Known(req[r], i) BY <2>2, <2>3
  <2>4. CASE ~Known(req[r], i) BY <2>2, <2>4
  <2> QED BY <2>3, <2>4
<1> QED BY <1>1, Invariant, SoloInvariant, PTL

\* With one request and as long as nothing fails, an agent is told that its
\* step is confirmed only when the user was asked about that step.
THEOREM ConfirmedWasAsked ==
  ASSUME OneRequest PROVE Spec => []ArmedMeansApproved
<1>1. SInv => ArmedMeansApproved
  <2> SUFFICES ASSUME SInv, faults = 0 PROVE armed \subseteq approved
    BY DEF ArmedMeansApproved
  <2>1. PICK r \in Requests : TRUE BY DEF OneRequest
  <2> QED BY <2>1 DEF SInv, Solo, Told
<1> QED BY <1>1, SoloInvariant, PTL

-----------------------------------------------------------------------------
(* Ranks: tuples of naturals, the first difference decides *)

\* A rank cannot get lower and lower for ever.
THEOREM RanksWellFounded ==
  ASSUME NEW n \in Nat
  PROVE  IsWellFoundedOn({vw \in Ranks(n) \X Ranks(n) : Lower(vw[1], vw[2])}, Ranks(n))
<1> DEFINE Lowers == {vw \in Ranks(n) \X Ranks(n) : Lower(vw[1], vw[2])}
<1>1. IsWellFoundedOn(LexProductOrdering(Less, Nat, n), Ranks(n))
  BY LessWellFounded, WFLexProductOrdering DEF Ranks
<1>2. ASSUME NEW v \in Ranks(n), NEW w \in Ranks(n), Lower(v, w)
      PROVE  <<v, w>> \in LexProductOrdering(Less, Nat, n)
  <2>1. PICK j \in 1..n : v[j] < w[j] /\ \A i \in 1..n : i < j => v[i] = w[i]
    BY <1>2 DEF Lower, Ranks
  <2>2. <<v[j], w[j]>> \in Less BY <2>1 DEF Less, Ranks
  <2>3. \A i \in 1..(j - 1) : i \in 1..n /\ i < j BY <2>1
  <2>4. \E jj \in 1..n : /\ \A i \in 1..(jj - 1) : v[i] = w[i]
                         /\ <<v[jj], w[jj]>> \in Less
    BY <2>1, <2>2, <2>3
  <2> QED BY <2>4 DEF LexProductOrdering, Ranks
<1>3. Lowers \cap (Ranks(n) \X Ranks(n)) \subseteq LexProductOrdering(Less, Nat, n)
  BY <1>2
<1> QED BY <1>1, <1>3, IsWellFoundedOnSubrelation

LEMMA LeftFacts ==
  ASSUME NEW a \in Int, NEW b \in Int
  PROVE  /\ Left(a, b) \in Nat
         /\ a <= b => Left(a + 1, b) < Left(a, b)
         /\ \A c \in Int : a < c /\ a <= b => Left(c, b) < Left(a, b)
BY DEF Left

LEMMA LeftInList ==
  ASSUME NEW S, NEW q \in Seq(S), NEW a \in DOMAIN q PROVE Left(a + 1, Len(q)) < Left(a, Len(q))
<1>1. a \in Int /\ Len(q) \in Int /\ a <= Len(q) OBVIOUS
<1> QED BY <1>1, LeftFacts

-----------------------------------------------------------------------------
(* _build_execution_groups comes to an end *)

\* The loops still to come, the steps not placed, whether the ready list is
\* being gone through, and what is left of the list and of its entry.
Loops == CASE stage = "depends" -> 3 [] stage = "roots" -> 2
           [] stage \in {"while", "for"} -> 1 [] stage = "returned" -> 0
Turns ==
  << Loops,
     Left(visited + 1, Len(steps.depends_on)),
     IF stage = "for" THEN 1 ELSE 0,
     Left(pos[1], IF stage = "for" THEN Len(ready) ELSE Len(steps.depends_on)),
     IF stage = "for"
     THEN IF pos[1] \in DOMAIN ready THEN Left(pos[2], Len(dependents[ready[pos[1]]])) ELSE 0
     ELSE IF pos[1] \in Index(steps) THEN Left(pos[2], Len(steps.depends_on[pos[1]])) ELSE 0 >>

LEMMA TurnsTyped == BuildTypes => Turns \in Ranks(5)
<1> SUFFICES ASSUME BuildTypes PROVE Turns \in Ranks(5) OBVIOUS
<1>1. /\ Len(steps.depends_on) \in Nat /\ visited \in Nat
      /\ pos[1] \in Nat /\ pos[2] \in Nat /\ Len(ready) \in Nat
      /\ stage \in {"depends", "roots", "while", "for", "returned"}
  BY StepsFacts DEF BuildTypes
<1>2. Loops \in Nat BY <1>1 DEF Loops
<1>3. pos[1] \in DOMAIN ready => Len(dependents[ready[pos[1]]]) \in Nat
  BY DEF BuildTypes
<1>4. pos[1] \in Index(steps) => Len(steps.depends_on[pos[1]]) \in Nat
  BY StepsFacts DEF BuildTypes
<1>5. \A a, b \in Nat : Left(a, b) \in Nat BY LeftFacts
<1>6. Turns[1] \in Nat /\ Turns[2] \in Nat /\ Turns[3] \in Nat
  <2>1. visited + 1 \in Nat BY <1>1
  <2>2. Left(visited + 1, Len(steps.depends_on)) \in Nat BY <1>1, <1>5, <2>1
  <2> QED BY <1>2, <2>2 DEF Turns
<1>7. Turns[4] \in Nat BY <1>1, <1>5 DEF Turns
<1>8. Turns[5] \in Nat BY <1>1, <1>3, <1>4, <1>5 DEF Turns
<1>9. Turns = [j \in 1..5 |-> Turns[j]] BY DEF Turns
<1> QED BY <1>6, <1>7, <1>8, <1>9 DEF Ranks

LEMMA TurnsStep == BuildInv /\ BuildInv' /\ BuildNext => Lower(Turns', Turns)
<1> SUFFICES ASSUME BuildInv, BuildInv', BuildNext PROVE Lower(Turns', Turns) OBVIOUS
<1>1. /\ BuildTypes /\ Len(steps.depends_on) \in Nat /\ visited \in Nat
      /\ pos \in (Nat \ {0}) \X (Nat \ {0}) /\ Len(ready) \in Nat
      /\ Index(steps) = 1..Len(steps.depends_on) /\ DOMAIN ready = 1..Len(ready)
      /\ \A i \in Index(steps) : steps.depends_on[i] \in Seq(Int)
      /\ DOMAIN Turns = 1..5
  BY StepsFacts DEF BuildInv, BuildTypes, Turns
<1>2. CASE NoDependencies \/ Declared \/ RootsEnd \/ BuildReturn
  <2>1. \/ stage = "depends" /\ stage' \in {"roots", "returned"}
        \/ stage = "roots" /\ stage' = "while"
        \/ stage = "while" /\ stage' = "returned"
    BY <1>2 DEF NoDependencies, Declared, RootsEnd, BuildReturn
  <2>2. Loops' < Loops BY <2>1 DEF Loops
  <2>3. Turns'[1] < Turns[1] BY <2>2 DEF Turns
  <2> QED BY <1>1, <2>3 DEF Lower
<1>3. CASE Depend
  <2>1. /\ stage = "depends" /\ stage' = stage /\ pos[1] \in Index(steps)
        /\ pos[2] \in DOMAIN steps.depends_on[pos[1]] /\ pos' = <<pos[1], pos[2] + 1>>
        /\ UNCHANGED <<steps, visited>>
    BY <1>3 DEF Depend, placed
  <2>2. Left(pos[2] + 1, Len(steps.depends_on[pos[1]])) < Left(pos[2], Len(steps.depends_on[pos[1]]))
    <3>1. steps.depends_on[pos[1]] \in Seq(Int) BY <1>1, <2>1
    <3> QED BY <2>1, <3>1, LeftInList
  <2>3. Turns'[5] < Turns[5] BY <2>1, <2>2 DEF Turns
  <2>4. /\ Turns'[1] = Turns[1] /\ Turns'[2] = Turns[2] /\ Turns'[3] = Turns[3]
        /\ Turns'[4] = Turns[4]
    BY <2>1 DEF Turns, Loops
  <2> QED BY <1>1, <2>3, <2>4 DEF Lower
<1>4. CASE NextList \/ Root
  <2>1. /\ stage \in {"depends", "roots"} /\ stage' = stage /\ pos[1] \in Index(steps)
        /\ pos' = <<pos[1] + 1, 1>> /\ UNCHANGED <<steps, visited>>
    BY <1>4 DEF NextList, Root, placed
  <2>2. Left(pos[1] + 1, Len(steps.depends_on)) < Left(pos[1], Len(steps.depends_on))
    <3>1. pos[1] \in Int /\ Len(steps.depends_on) \in Int /\ pos[1] <= Len(steps.depends_on)
      BY <1>1, <2>1
    <3> QED BY <3>1, LeftFacts
  <2>3. Turns'[4] < Turns[4] BY <2>1, <2>2 DEF Turns
  <2>4. Turns'[1] = Turns[1] /\ Turns'[2] = Turns[2] /\ Turns'[3] = Turns[3]
    BY <2>1 DEF Turns, Loops
  <2> QED BY <1>1, <2>3, <2>4 DEF Lower
<1>5. CASE TakeReady
  <2>1. /\ stage = "while" /\ stage' = "for" /\ ready # <<>> /\ visited' = visited + Len(ready)
        /\ UNCHANGED steps
    BY <1>5 DEF TakeReady
  <2>2. Len(ready) > 0 BY <1>1, <2>1 DEF BuildTypes
  <2>3. visited' <= Len(steps.depends_on)
    <3>1. visited' = Cardinality({s \in Index(steps) : (Placed(s))'})
      BY <2>1 DEF BuildInv, Grouped
    <3>2. Cardinality({s \in Index(steps) : (Placed(s))'}) <= Cardinality(Index(steps))
      BY <1>1, StepsFacts, FS_Subset DEF BuildTypes
    <3> QED BY <1>1, <3>1, <3>2, StepsFacts DEF BuildTypes
  <2>4. visited' \in Nat /\ visited < visited' BY <1>1, <2>1, <2>2
  <2>5. Left(visited' + 1, Len(steps.depends_on)) < Left(visited + 1, Len(steps.depends_on))
    <3>1. PICK n : n = Len(steps.depends_on) OBVIOUS
    <3>2. n \in Nat /\ visited \in Nat /\ visited' \in Nat BY <1>1, <2>4, <3>1
    <3>3. visited < visited' /\ visited' <= n BY <2>3, <2>4, <3>1
    <3>4. \A a, b, m \in Nat : a < b /\ b <= m => Left(b + 1, m) < Left(a + 1, m)
      BY DEF Left
    <3>5. Left(visited' + 1, n) < Left(visited + 1, n) BY <3>2, <3>3, <3>4
    <3> QED BY <3>1, <3>5
  <2>6. Turns'[2] < Turns[2] BY <2>1, <2>5 DEF Turns
  <2>7. Turns'[1] = Turns[1] BY <2>1 DEF Turns, Loops
  <2> QED BY <1>1, <2>6, <2>7 DEF Lower
<1>6. CASE Release
  <2>1. /\ stage = "for" /\ stage' = stage /\ pos[1] \in DOMAIN ready
        /\ pos[2] \in DOMAIN dependents[ready[pos[1]]] /\ pos' = <<pos[1], pos[2] + 1>>
        /\ UNCHANGED <<steps, visited, ready, dependents>>
    BY <1>6 DEF Release
  <2>2. dependents[ready[pos[1]]] \in Seq(Index(steps)) BY <1>1, <2>1 DEF BuildTypes
  <2>3. Left(pos[2] + 1, Len(dependents[ready[pos[1]]])) < Left(pos[2], Len(dependents[ready[pos[1]]]))
    BY <2>1, <2>2, LeftInList
  <2>4. Turns'[5] < Turns[5] BY <2>1, <2>3 DEF Turns
  <2>5. /\ Turns'[1] = Turns[1] /\ Turns'[2] = Turns[2] /\ Turns'[3] = Turns[3]
        /\ Turns'[4] = Turns[4]
    BY <2>1 DEF Turns, Loops
  <2> QED BY <1>1, <2>4, <2>5 DEF Lower
<1>7. CASE NextMember
  <2>1. /\ stage = "for" /\ stage' = stage /\ pos[1] \in DOMAIN ready
        /\ pos' = <<pos[1] + 1, 1>> /\ UNCHANGED <<steps, visited, ready>>
    BY <1>7 DEF NextMember, placed
  <2>2. Left(pos[1] + 1, Len(ready)) < Left(pos[1], Len(ready)) BY <1>1, <2>1, LeftFacts
  <2>3. Turns'[4] < Turns[4] BY <2>1, <2>2 DEF Turns
  <2>4. Turns'[1] = Turns[1] /\ Turns'[2] = Turns[2] /\ Turns'[3] = Turns[3]
    BY <2>1 DEF Turns, Loops
  <2> QED BY <1>1, <2>3, <2>4 DEF Lower
<1>8. CASE ForEnds
  <2>1. stage = "for" /\ stage' = "while" /\ UNCHANGED <<steps, visited>>
    BY <1>8 DEF ForEnds
  <2>2. Turns'[3] < Turns[3] BY <2>1 DEF Turns
  <2>3. Turns'[1] = Turns[1] /\ Turns'[2] = Turns[2] BY <2>1 DEF Turns, Loops
  <2> QED BY <1>1, <2>2, <2>3 DEF Lower
<1> QED BY <1>2, <1>3, <1>4, <1>5, <1>6, <1>7, <1>8 DEF BuildNext

\* Whatever the lists declare, cycles included, each turn of a loop of
\* _build_execution_groups leaves fewer turns to come.
THEOREM TurnsShrink == BuildSpec => [](Turns \in Ranks(5)) /\ [][Lower(Turns', Turns)]_buildVars
<1>1. BuildInit => BuildInv BY InitBuild
<1>2. BuildInv /\ [BuildNext]_buildVars => BuildInv' BY NextBuild
<1>3. BuildInv => Turns \in Ranks(5) BY TurnsTyped DEF BuildInv
<1>4. BuildInv /\ BuildInv' /\ [BuildNext]_buildVars => [Lower(Turns', Turns)]_buildVars
  BY TurnsStep
<1> QED BY <1>1, <1>2, <1>3, <1>4, PTL DEF BuildSpec

-----------------------------------------------------------------------------
(* A request comes to an end *)

\* Before the loop of execute(), in it, after it, or over.
Part(l) == IF l.pc = "idle" THEN 0 ELSE IF l.pc \in {"mark", "load", "gate"} THEN 3
           ELSE IF InLoop(l) THEN 2 ELSE 1

Later(l) == {j \in DOMAIN Plan[pipe] : j > l.group}

\* The awaits of each part, the last one lowest.
Order ==
  [mark |-> 3, load |-> 2, gate |-> 1, steps |-> 4, read |-> 3, write |-> 2, groups |-> 1,
   journal |-> 5, key |-> 4, executed |-> 1, clear |-> 0, idle |-> 0]

\* What a request has left to do: its part, the groups to come or whether it
\* would record a cancellation, its await, the steps that run.
Rest(l) ==
  << Part(l),
     IF Part(l) = 2 THEN Cardinality(Later(l)) ELSE IF Part(l) = 1 /\ l.guarded THEN 1 ELSE 0,
     Order[l.pc],
     Cardinality(l.todo \ DOMAIN l.out) >>

LEMMA PlanFinite ==
  ASSUME NEW p \in Pipelines
  PROVE  IsFiniteSet(Index(p)) /\ IsFiniteSet(DOMAIN Plan[p]) /\ DOMAIN Plan[p] \subseteq Nat
<1>1. PICK m \in Nat : DOMAIN Plan[p] = 1..m BY PlanFacts DEF Layered
<1>2. PICK n \in Nat : Index(p) = 1..n BY PipelineAssumption, IndexFacts DEF StepList
<1> QED BY <1>1, <1>2, FS_Interval

LEMMA RestTyped ==
  ASSUME pipe \in Pipelines, NEW l \in Locals(pipe) PROVE Rest(l) \in Ranks(4)
<1>1. IsFiniteSet(Later(l)) BY PlanFinite, FS_Subset DEF Later
<1>2. IsFiniteSet(l.todo \ DOMAIN l.out)
  <2>1. l.todo \subseteq Index(pipe) BY DEF Locals, StepSets
  <2> QED BY <2>1, PlanFinite, FS_Subset
<1>3. Cardinality(Later(l)) \in Nat /\ Cardinality(l.todo \ DOMAIN l.out) \in Nat
  BY <1>1, <1>2, FS_CardinalityType
<1>4. Order[l.pc] \in Nat
  <2>1. l.pc \in Places BY DEF Locals
  <2> QED BY <2>1 DEF Order, Places
<1>5. Part(l) \in Nat BY DEF Part
<1>6. Rest(l)[1] \in Nat /\ Rest(l)[3] \in Nat /\ Rest(l)[4] \in Nat
  BY <1>3, <1>4, <1>5 DEF Rest
<1>7. Rest(l)[2] \in Nat BY <1>3 DEF Rest
<1>8. Rest(l) = [j \in 1..4 |-> Rest(l)[j]] BY DEF Rest
<1> QED BY <1>6, <1>7, <1>8 DEF Ranks

LEMMA PartFalls ==
  ASSUME NEW k, NEW l, Part(l) < Part(k) PROVE Lower(Rest(l), Rest(k))
<1>1. Rest(l)[1] < Rest(k)[1] /\ DOMAIN Rest(k) = 1..4 BY DEF Rest
<1> QED BY <1>1 DEF Lower

LEMMA AwaitFalls ==
  ASSUME NEW k, NEW l, Part(l) = Part(k), l.group = k.group, l.guarded = k.guarded,
         Order[l.pc] < Order[k.pc]
  PROVE  Lower(Rest(l), Rest(k))
<1>1. Rest(l)[1] = Rest(k)[1] /\ Rest(l)[2] = Rest(k)[2] BY DEF Rest, Later
<1>2. Rest(l)[3] < Rest(k)[3] /\ DOMAIN Rest(k) = 1..4 BY DEF Rest
<1> QED BY <1>1, <1>2 DEF Lower

LEMMA GuardFalls ==
  ASSUME NEW k, NEW l, Part(l) = 1, Part(k) = 1, k.guarded, ~l.guarded
  PROVE  Lower(Rest(l), Rest(k))
<1>1. Rest(l)[1] = Rest(k)[1] /\ Rest(l)[2] < Rest(k)[2] /\ DOMAIN Rest(k) = 1..4 BY DEF Rest
<1> QED BY <1>1 DEF Lower

LEMMA SettleFalls ==
  ASSUME NEW k, Part(k) = 2, NEW l \in Locals(pipe) PROVE Lower(Rest(Settle(l)), Rest(k))
<1>1. Settle(l).pc = "read" /\ Settle(l).next \in {"idle", "executed"} BY SettleFields
<1>2. Part(Settle(l)) = 1 BY <1>1 DEF Part, InLoop
<1> QED BY <1>2, PartFalls

\* The loop goes on to a later group, pauses, or is over.
LEMMA ProceedFalls ==
  ASSUME IInv, NEW r \in Requests, Proceed(r) PROVE Lower(Rest(req'[r]), Rest(req[r]))
<1>1. PICK k : k = req[r] OBVIOUS
<1>2. k \in Locals(pipe) /\ k.pc = "groups" /\ pipe \in Pipelines /\ Part(k) = 2
  BY <1>1, Mine DEF Proceed, At, Part, InLoop
<1>3. \A l : Becomes(r, l) => req'[r] = l BY DEF Becomes, IInv
<1>4. CASE LoopEnds(k)
  <2>1. PICK res : res = [k.result EXCEPT !.status = "cancelled"] OBVIOUS
  <2>2. res \in ResultTypes(pipe) BY <1>2, <2>1 DEF Locals, ResultTypes, Statuses
  <2>3. [k EXCEPT !.result.status = "cancelled"] = [k EXCEPT !.result = res]
    BY <1>2, <2>1 DEF Locals
  <2>4. [k EXCEPT !.result = res] \in Locals(pipe) BY <1>2, <2>2 DEF Locals
  <2>5. PICK end \in Locals(pipe) : Becomes(r, Settle(end))
    <3>1. Becomes(r, Settle(IF k.result.cancelled = {} THEN k
                            ELSE [k EXCEPT !.result.status = "cancelled"]))
      BY <1>1, <1>4 DEF Proceed
    <3>2. CASE k.result.cancelled = {} BY <1>2, <3>1, <3>2
    <3>3. CASE k.result.cancelled # {} BY <2>3, <2>4, <3>1, <3>3
    <3> QED BY <3>2, <3>3
  <2> QED BY <1>1, <1>2, <1>3, <2>5, SettleFalls
<1>5. CASE ~LoopEnds(k) /\ Pauses(k, Min(NextGroups(k)))
  <2>1. PICK new : new = [k EXCEPT !.guarded = TRUE] OBVIOUS
  <2>2. PICK l : l = Pause(new, k.at) OBVIOUS
  <2>3. Becomes(r, l) BY <1>1, <1>5, <2>1, <2>2 DEF Proceed
  <2>4. l.pc = "journal"
    <3>1. new \in Locals(pipe) BY <1>2, <2>1 DEF Locals
    <3> QED BY <2>2, <3>1, PauseFields
  <2>5. Part(l) = 1 BY <2>4 DEF Part, InLoop
  <2> QED BY <1>1, <1>2, <1>3, <2>3, <2>5, PartFalls
<1>6. CASE ~LoopEnds(k) /\ ~Pauses(k, Min(NextGroups(k)))
  <2>1. PICK g, todo : g = Min(NextGroups(k)) /\ todo = Plan[pipe][g] \ k.result.done OBVIOUS
  <2>2. PICK l : l = [k EXCEPT !.pc = "steps", !.guarded = TRUE,
                               !.group = g, !.todo = todo, !.out = <<>>]
    OBVIOUS
  <2>3. Becomes(r, l) BY <1>1, <1>6, <2>1, <2>2 DEF Proceed
  <2>4. l.pc = "steps" /\ l.group = g BY <1>2, <2>2 DEF Locals
  <2>5. Part(l) = 2 BY <2>4 DEF Part, InLoop
  <2>6. g \in DOMAIN Plan[pipe] /\ g > k.group /\ g \in Nat /\ k.group \in Nat
    <3>1. NextGroups(k) # {} /\ NextGroups(k) \subseteq DOMAIN Plan[pipe]
      BY <1>6 DEF LoopEnds, NextGroups
    <3>2. g \in NextGroups(k) BY <1>2, <2>1, <3>1, PlanFinite, MinFacts
    <3> QED BY <1>2, <3>2, PlanFinite DEF NextGroups, Locals
  <2>7. Cardinality(Later(l)) < Cardinality(Later(k))
    <3>1. DOMAIN Plan[pipe] \subseteq Nat BY <1>2, PlanFinite
    <3>2. Later(l) \subseteq Later(k) \ {g} /\ g \in Later(k) BY <2>4, <2>6, <3>1 DEF Later
    <3>3. IsFiniteSet(Later(k)) BY <1>2, PlanFinite, FS_Subset DEF Later
    <3>4. Later(l) # Later(k) /\ Later(l) \subseteq Later(k) BY <3>2
    <3>5. /\ Cardinality(Later(l)) <= Cardinality(Later(k))
          /\ Cardinality(Later(l)) # Cardinality(Later(k))
      BY <3>3, <3>4, FS_Subset
    <3>6. Cardinality(Later(l)) \in Nat /\ Cardinality(Later(k)) \in Nat
      BY <3>3, <3>4, FS_Subset, FS_CardinalityType
    <3> QED BY <3>5, <3>6
  <2>8. Rest(l)[1] = Rest(k)[1] /\ Rest(l)[2] < Rest(k)[2] /\ DOMAIN Rest(k) = 1..4
    BY <1>2, <2>5, <2>7 DEF Rest
  <2>9. Lower(Rest(l), Rest(k)) BY <2>8 DEF Lower
  <2> QED BY <1>1, <1>3, <2>3, <2>9
<1> QED BY <1>4, <1>5, <1>6

LEMMA StepEndsFalls ==
  ASSUME IInv, NEW r \in Requests, NEW i \in Index(pipe), NEW status, StepEnds(r, i, status)
  PROVE  Lower(Rest(req'[r]), Rest(req[r]))
<1>1. PICK k : k = req[r] OBVIOUS
<1>2. /\ k \in Locals(pipe) /\ k.pc = "steps" /\ pipe \in Pipelines /\ Part(k) = 2
      /\ i \in k.todo \ DOMAIN k.out
  BY <1>1, Mine DEF StepEnds, At, Part, InLoop
<1>3. PICK out : out = [j \in DOMAIN k.out \cup {i} |-> IF j = i THEN status ELSE k.out[j]]
  OBVIOUS
<1>4. PICK l : l = [k EXCEPT !.out = out] OBVIOUS
<1>5. l.pc = "steps" /\ l.todo = k.todo /\ l.out = out /\ l.group = k.group
  BY <1>2, <1>4 DEF Locals
<1>6. Becomes(r, l)
  <2>1. l = [k EXCEPT !.out = [j \in DOMAIN @ \cup {i} |-> IF j = i THEN status ELSE @[j]]]
    BY <1>2, <1>3, <1>4 DEF Locals
  <2> QED BY <1>1, <2>1 DEF StepEnds
<1>7. req'[r] = l BY <1>6 DEF Becomes, IInv
<1>8. Part(l) = 2 BY <1>5 DEF Part, InLoop
<1>9. PICK A, B : A = k.todo \ DOMAIN k.out /\ B = l.todo \ DOMAIN l.out OBVIOUS
<1>10. Cardinality(B) < Cardinality(A)
  <2>1. B \subseteq A /\ B # A BY <1>2, <1>3, <1>5, <1>9
  <2>2. IsFiniteSet(A)
    <3>1. A \subseteq Index(pipe) BY <1>2, <1>9 DEF Locals, StepSets
    <3> QED BY <1>2, <3>1, PlanFinite, FS_Subset
  <2>3. Cardinality(B) <= Cardinality(A) /\ Cardinality(B) # Cardinality(A)
    BY <2>1, <2>2, FS_Subset
  <2>4. Cardinality(B) \in Nat /\ Cardinality(A) \in Nat
    BY <2>1, <2>2, FS_Subset, FS_CardinalityType
  <2> QED BY <2>3, <2>4
<1>11. /\ Rest(l)[1] = Rest(k)[1] /\ Rest(l)[2] = Rest(k)[2] /\ Rest(l)[3] = Rest(k)[3]
       /\ Rest(l)[4] < Rest(k)[4] /\ DOMAIN Rest(k) = 1..4
  BY <1>2, <1>5, <1>8, <1>9, <1>10 DEF Rest, Later
<1> QED BY <1>1, <1>7, <1>11 DEF Lower

LEMMA StepRaisesFalls ==
  ASSUME IInv, NEW r \in Requests, NEW i \in Index(pipe), StepRaises(r, i)
  PROVE  Lower(Rest(req'[r]), Rest(req[r]))
<1>1. PICK k : k = req[r] OBVIOUS
<1>2. k \in Locals(pipe) /\ Part(k) = 2 BY <1>1, Mine DEF StepRaises, At, Part, InLoop
<1>3. PICK res : res = [k.result EXCEPT !.status = "failed"] OBVIOUS
<1>4. res \in ResultTypes(pipe) BY <1>2, <1>3 DEF Locals, ResultTypes, Statuses
<1>5. PICK end : end = [k EXCEPT !.result = res, !.todo = {}] OBVIOUS
<1>6. end \in Locals(pipe) BY <1>2, <1>4, <1>5 DEF Locals, StepSets
<1>7. Becomes(r, Settle(end))
  <2>1. end = [k EXCEPT !.result.status = "failed", !.todo = {}]
    BY <1>2, <1>3, <1>5 DEF Locals
  <2> QED BY <1>1, <2>1 DEF StepRaises
<1>8. req'[r] = Settle(end) BY <1>7 DEF Becomes, IInv
<1> QED BY <1>1, <1>2, <1>6, <1>8, SettleFalls

LEMMA GroupDoneFalls ==
  ASSUME IInv, NEW r \in Requests, GroupDone(r) PROVE Lower(Rest(req'[r]), Rest(req[r]))
<1>1. PICK k : k = req[r] OBVIOUS
<1>2. k \in Locals(pipe) /\ k.pc = "steps" /\ Part(k) = 2
  BY <1>1, Mine DEF GroupDone, At, Part, InLoop
<1> DEFINE E(status) == {i \in DOMAIN k.out : k.out[i] = status}
<1>3. PICK res : res = [k.result EXCEPT !.done = @ \cup E("completed"),
                                        !.failed = @ \cup E("failed"),
                                        !.cancelled = @ \cup E("cancelled")]
  OBVIOUS
<1>4. PICK new : new = [k EXCEPT !.result = res, !.todo = {}, !.out = <<>>] OBVIOUS
<1>5. PICK l : l = Checkpoint(new, {}, "groups") OBVIOUS
<1>6. k.result \in ResultTypes(pipe) BY <1>2 DEF Locals
<1>7. new = [k EXCEPT !.result.done = @ \cup E("completed"),
                      !.result.failed = @ \cup E("failed"),
                      !.result.cancelled = @ \cup E("cancelled"),
                      !.todo = {}, !.out = <<>>]
  BY <1>2, <1>3, <1>4, <1>6 DEF Locals, ResultTypes
<1>8. Becomes(r, l) BY <1>1, <1>5, <1>7 DEF GroupDone
<1> HIDE DEF E
<1>9. /\ l.pc = "read" /\ l.next = "groups" /\ l.group = k.group /\ l.guarded = k.guarded
  BY <1>2, <1>4, <1>5 DEF Checkpoint, Locals
<1>10. req'[r] = l BY <1>8 DEF Becomes, IInv
<1>11. Part(l) = 2 /\ Order[l.pc] < Order[k.pc] BY <1>2, <1>9 DEF Part, InLoop, Order
<1> QED BY <1>1, <1>2, <1>9, <1>10, <1>11, AwaitFalls

\* _checkpoint returns to where it was called.
LEMMA ReturnFalls ==
  ASSUME IInv, NEW r \in Requests, req[r].pc \in {"read", "write"}, Return(r, req[r])
  PROVE  Lower(Rest(req'[r]), Rest(req[r]))
<1>1. PICK k : k = req[r] OBVIOUS
<1>2. /\ k \in Locals(pipe) /\ k.pc \in {"read", "write"} /\ k.next \in {"idle", "groups", "executed"}
  BY <1>1, Mine DEF Locals
<1>3. CASE k.next = "idle"
  <2>1. Becomes(r, Idle) BY <1>1, <1>3 DEF Return
  <2>2. req'[r] = Idle BY <2>1 DEF Becomes, IInv
  <2>3. Part(Idle) = 0 /\ Part(k) = 1 BY <1>2, <1>3, IdleFields DEF Part, InLoop
  <2> QED BY <1>1, <2>2, <2>3, PartFalls
<1>4. CASE k.next # "idle"
  <2>1. PICK l : l = [k EXCEPT !.pc = k.next, !.put = {}, !.payload = NoCheckpoint, !.next = "idle"]
    OBVIOUS
  <2>2. Becomes(r, l) BY <1>1, <1>4, <2>1 DEF Return
  <2>3. req'[r] = l BY <2>2 DEF Becomes, IInv
  <2>4. l.pc = k.next /\ l.group = k.group /\ l.guarded = k.guarded BY <1>2, <2>1 DEF Locals
  <2>5. Part(l) = Part(k) /\ Order[l.pc] < Order[k.pc]
    BY <1>2, <1>4, <2>4 DEF Part, InLoop, Order
  <2> QED BY <1>1, <2>3, <2>4, <2>5, AwaitFalls
<1> QED BY <1>3, <1>4

LEMMA WorkFalls ==
  ASSUME IInv, NEW r \in Requests, Work(r) PROVE Lower(Rest(req'[r]), Rest(req[r]))
<1>1. PICK k : k = req[r] OBVIOUS
<1>2. k \in Locals(pipe) /\ pipe \in Pipelines BY <1>1, Mine
<1>3. \A l : Becomes(r, l) => req'[r] = l BY DEF Becomes, IInv
<1>4. CASE MarkConfirmed(r)
  <2>1. PICK l : l = [k EXCEPT !.pc = "load"] OBVIOUS
  <2>2. req'[r] = l /\ k.pc = "mark" BY <1>1, <1>3, <1>4, <2>1 DEF MarkConfirmed, At
  <2>3. l.pc = "load" /\ l.group = k.group /\ l.guarded = k.guarded BY <1>2, <2>1 DEF Locals
  <2>4. Part(l) = Part(k) /\ Order[l.pc] < Order[k.pc] BY <2>2, <2>3 DEF Part, Order
  <2> QED BY <1>1, <2>2, <2>3, <2>4, AwaitFalls
<1>5. CASE Load(r)
  <2>1. k.pc = "load" BY <1>1, <1>5 DEF Load, At
  <2>2. CASE ~ckpt.steps
    <3>1. PICK l : l = [k EXCEPT !.pc = "clear"] OBVIOUS
    <3>2. req'[r] = l BY <1>1, <1>3, <1>5, <2>2, <3>1 DEF Load
    <3>3. l.pc = "clear" BY <1>2, <3>1 DEF Locals
    <3>4. Part(l) < Part(k) BY <2>1, <3>3 DEF Part, InLoop
    <3> QED BY <1>1, <3>2, <3>4, PartFalls
  <2>3. CASE ckpt.steps
    <3>1. PICK l : l = [k EXCEPT !.pc = "gate",
                          !.confirmed = ckpt.confirmed \cup ckpt.result.awaiting,
                          !.result = NewResult(ckpt.result.done)]
      OBVIOUS
    <3>2. req'[r] = l BY <1>1, <1>3, <1>5, <2>3, <3>1 DEF Load
    <3>3. l.pc = "gate" /\ l.group = k.group /\ l.guarded = k.guarded
      BY <1>2, <3>1 DEF Locals
    <3>4. Part(l) = Part(k) /\ Order[l.pc] < Order[k.pc] BY <2>1, <3>3 DEF Part, Order
    <3> QED BY <1>1, <3>2, <3>3, <3>4, AwaitFalls
  <2> QED BY <2>2, <2>3
<1>6. CASE Gate(r)
  <2>1. k.pc = "gate" BY <1>1, <1>6 DEF Gate, At
  <2>2. CASE ~k.auto /\ k.confirmed = {} /\ pipe.confirm # {}
    <3>1. PICK new : new = [k EXCEPT !.result = NewResult({})] OBVIOUS
    <3>2. PICK l : l = Pause(new, Min(pipe.confirm)) OBVIOUS
    <3>3. new \in Locals(pipe) BY <1>2, <3>1, NewResultType DEF Locals
    <3>4. l.pc = "journal" BY <3>2, <3>3, PauseFields
    <3>5. req'[r] = l BY <1>1, <1>3, <1>6, <2>2, <3>1, <3>2 DEF Gate
    <3>6. Part(l) < Part(k) BY <2>1, <3>4 DEF Part, InLoop
    <3> QED BY <1>1, <3>5, <3>6, PartFalls
  <2>3. CASE ~(~k.auto /\ k.confirmed = {} /\ pipe.confirm # {})
    <3>1. PICK at : at = IF k.auto \/ pipe.confirm \ k.confirmed = {} THEN None
                         ELSE Min(pipe.confirm \ k.confirmed)
      OBVIOUS
    <3>2. PICK l : l = Checkpoint([k EXCEPT !.at = at], {"steps"}, "groups") OBVIOUS
    <3>3. l.pc = "read" /\ l.next = "groups" BY <1>2, <3>2 DEF Checkpoint, Locals
    <3>4. req'[r] = l
      <4>1. Becomes(r, Checkpoint([k EXCEPT !.at =
                IF k.auto \/ pipe.confirm \ k.confirmed = {} THEN None
                ELSE Min(pipe.confirm \ k.confirmed)], {"steps"}, "groups"))
        BY <1>1, <1>6, <2>3 DEF Gate
      <4> QED BY <1>3, <3>1, <3>2, <4>1
    <3>5. Part(l) < Part(k) BY <2>1, <3>3 DEF Part, InLoop
    <3> QED BY <1>1, <3>4, <3>5, PartFalls
  <2> QED BY <2>2, <2>3
<1>7. CASE Journal(r)
  <2>1. PICK l : l = [k EXCEPT !.pc = "key", !.ask = Len(tx')] OBVIOUS
  <2>2. req'[r] = l /\ k.pc = "journal" BY <1>1, <1>3, <1>7, <2>1 DEF Journal, At
  <2>3. l.pc = "key" /\ l.group = k.group /\ l.guarded = k.guarded BY <1>2, <2>1 DEF Locals
  <2>4. Part(l) = Part(k) /\ Order[l.pc] < Order[k.pc] BY <2>2, <2>3 DEF Part, InLoop, Order
  <2> QED BY <1>1, <2>2, <2>3, <2>4, AwaitFalls
<1>8. CASE SetPending(r)
  <2>1. PICK l : l = Checkpoint(k, {"steps", "confirmed"}, "idle") OBVIOUS
  <2>2. req'[r] = l /\ k.pc = "key" BY <1>1, <1>3, <1>8, <2>1 DEF SetPending, At
  <2>3. /\ l.pc = "read" /\ l.next = "idle" /\ l.group = k.group /\ l.guarded = k.guarded
    BY <1>2, <2>1, CheckpointFields, CheckpointRest
  <2>4. Part(l) = Part(k) /\ Order[l.pc] < Order[k.pc] BY <2>2, <2>3 DEF Part, InLoop, Order
  <2> QED BY <1>1, <2>2, <2>3, <2>4, AwaitFalls
<1>9. CASE ReadCheckpoint(r)
  <2>1. PICK l : l = [k EXCEPT !.pc = "write", !.payload = ckpt] OBVIOUS
  <2>2. req'[r] = l /\ k.pc = "read" BY <1>1, <1>3, <1>9, <2>1 DEF ReadCheckpoint, At
  <2>3. l.pc = "write" /\ l.next = k.next /\ l.group = k.group /\ l.guarded = k.guarded
    BY <1>2, <2>1 DEF Locals
  <2>4. Part(l) = Part(k) /\ Order[l.pc] < Order[k.pc] BY <2>2, <2>3 DEF Part, InLoop, Order
  <2> QED BY <1>1, <2>2, <2>3, <2>4, AwaitFalls
<1>10. CASE WriteCheckpoint(r) BY <1>10, ReturnFalls DEF WriteCheckpoint, At
<1>11. CASE MarkExecuted(r)
  <2>1. PICK l : l = [k EXCEPT !.pc = "clear"] OBVIOUS
  <2>2. req'[r] = l /\ k.pc = "executed" BY <1>1, <1>3, <1>11, <2>1 DEF MarkExecuted, At
  <2>3. l.pc = "clear" /\ l.group = k.group /\ l.guarded = k.guarded BY <1>2, <2>1 DEF Locals
  <2>4. Part(l) = Part(k) /\ Order[l.pc] < Order[k.pc] BY <2>2, <2>3 DEF Part, InLoop, Order
  <2> QED BY <1>1, <2>2, <2>3, <2>4, AwaitFalls
<1>12. CASE ClearPending(r)
  <2>1. req'[r] = Idle /\ k.pc = "clear" BY <1>1, <1>3, <1>12 DEF ClearPending, At
  <2>2. Part(Idle) < Part(k) BY <2>1, IdleFields DEF Part, InLoop
  <2> QED BY <1>1, <2>1, <2>2, PartFalls
<1> QED BY <1>4, <1>5, <1>6, <1>7, <1>8, <1>9, <1>10, <1>11, <1>12, ProceedFalls,
           StepEndsFalls, StepRaisesFalls, GroupDoneFalls
        DEF Work

\* A cancellation or a failing call leaves a request less to do.
LEMMA FaultFalls ==
  ASSUME IInv, NEW r \in Requests,
         Cancel(r) \/ CheckpointFails(r) \/ JournalFails(r) \/ LoadFails(r)
  PROVE  Lower(Rest(req'[r]), Rest(req[r]))
<1>1. PICK k : k = req[r] OBVIOUS
<1>2. k \in Locals(pipe) /\ pipe \in Pipelines BY <1>1, Mine
<1>3. \A l : Becomes(r, l) => req'[r] = l BY DEF Becomes, IInv
<1>4. req'[r] = Idle /\ k.pc # "idle" => Lower(Rest(req'[r]), Rest(req[r]))
  <2>1. k.pc # "idle" => Part(Idle) < Part(k) BY IdleFields DEF Part
  <2> QED BY <1>1, <2>1, PartFalls
<1>5. ASSUME NEW l, req'[r] = l, l.pc = "read", l.next \in {"idle", "executed"}, ~l.guarded,
             k.guarded, k.pc \notin {"idle", "gate"}
      PROVE  Lower(Rest(req'[r]), Rest(req[r]))
  <2>1. Part(l) = 1 /\ Part(k) \in {1, 2, 3} BY <1>5 DEF Part, InLoop
  <2>2. CASE Part(k) = 1 BY <1>1, <1>5, <2>1, <2>2, GuardFalls
  <2>3. CASE Part(k) # 1 BY <1>1, <1>5, <2>1, <2>3, PartFalls
  <2> QED BY <2>2, <2>3
<1>6. CASE Cancel(r)
  <2>1. k.pc \notin {"idle", "gate"} BY <1>1, <1>6 DEF Cancel
  <2>2. CASE k.guarded
    <3>1. PICK res : res = [k.result EXCEPT !.status = "cancelled"] OBVIOUS
    <3>2. PICK new : new = [k EXCEPT !.result = res, !.guarded = FALSE, !.todo = {}, !.out = <<>>]
      OBVIOUS
    <3>3. new = [k EXCEPT !.result.status = "cancelled", !.guarded = FALSE, !.todo = {}, !.out = <<>>]
      BY <1>2, <3>1, <3>2 DEF Locals
    <3>4. PICK l : l = Checkpoint(new, {}, "idle") OBVIOUS
    <3>5. l.pc = "read" /\ l.next = "idle" /\ ~l.guarded
      BY <1>2, <3>2, <3>4 DEF Checkpoint, Locals
    <3>6. req'[r] = l BY <1>1, <1>3, <1>6, <2>2, <3>3, <3>4 DEF Cancel
    <3> QED BY <1>5, <2>1, <2>2, <3>5, <3>6
  <2>3. CASE ~k.guarded
    <3>1. req'[r] = Idle BY <1>1, <1>3, <1>6, <2>3 DEF Cancel
    <3> QED BY <1>4, <2>1, <3>1
  <2> QED BY <2>2, <2>3
<1>7. CASE CheckpointFails(r) BY <1>7, ReturnFalls DEF CheckpointFails
<1>8. CASE JournalFails(r)
  <2>1. k.pc \notin {"idle", "gate"} BY <1>1, <1>8 DEF JournalFails
  <2>2. CASE k.guarded
    <3>1. PICK res : res = [k.result EXCEPT !.status = "failed"] OBVIOUS
    <3>2. res \in ResultTypes(pipe) BY <1>2, <3>1 DEF Locals, ResultTypes, Statuses
    <3>3. PICK new : new = [k EXCEPT !.result = res] OBVIOUS
    <3>4. new \in Locals(pipe) /\ new = [k EXCEPT !.result.status = "failed"]
      BY <1>2, <3>1, <3>2, <3>3 DEF Locals
    <3>5. PICK l : l = Settle(new) OBVIOUS
    <3>6. l.pc = "read" /\ l.next \in {"idle", "executed"} /\ ~l.guarded
      BY <3>4, <3>5, SettleFields
    <3>7. req'[r] = l BY <1>1, <1>3, <1>8, <2>2, <3>4, <3>5 DEF JournalFails
    <3> QED BY <1>5, <2>1, <2>2, <3>6, <3>7
  <2>3. CASE ~k.guarded
    <3>1. req'[r] = Idle BY <1>1, <1>3, <1>8, <2>3 DEF JournalFails
    <3> QED BY <1>4, <2>1, <3>1
  <2> QED BY <2>2, <2>3
<1>9. CASE LoadFails(r)
  <2>1. PICK l : l = [k EXCEPT !.pc = "clear"] OBVIOUS
  <2>2. req'[r] = l /\ k.pc = "load" BY <1>1, <1>3, <1>9, <2>1 DEF LoadFails, At
  <2>3. l.pc = "clear" BY <1>2, <2>1 DEF Locals
  <2>4. Part(l) < Part(k) BY <2>2, <2>3 DEF Part, InLoop
  <2> QED BY <1>1, <2>2, <2>4, PartFalls
<1> QED BY <1>6, <1>7, <1>8, <1>9

\* A request that is not over only moves towards its end: each of its steps
\* leaves it less to do, so does whatever befalls it, and the steps of other
\* requests leave it alone.
RestShrinks ==
  [][\A r \in Requests :
       /\ Work(r) => Lower(Rest(req'[r]), Rest(req[r]))
       /\ req[r].pc # "idle" => req'[r] = req[r] \/ Lower(Rest(req'[r]), Rest(req[r]))]_vars

LEMMA NextFalls ==
  ASSUME IInv, Next, NEW r \in Requests, req[r].pc # "idle"
  PROVE  req'[r] = req[r] \/ Lower(Rest(req'[r]), Rest(req[r]))
<1>1. ASSUME NEW q \in Requests, NEW l, Becomes(q, l), q # r PROVE req'[r] = req[r]
  BY <1>1 DEF Becomes, IInv
<1>2. CASE \E q \in Requests : Lookup(q) \/ \E auto \in BOOLEAN : Start(q, auto)
  BY <1>1, <1>2 DEF Start, Lookup, At
<1>3. CASE \E q \in Requests :
             Work(q) \/ Cancel(q) \/ CheckpointFails(q) \/ JournalFails(q) \/ LoadFails(q)
  <2>1. PICK q \in Requests :
          Work(q) \/ Cancel(q) \/ CheckpointFails(q) \/ JournalFails(q) \/ LoadFails(q)
    BY <1>3
  <2>2. CASE q = r BY <2>1, <2>2, WorkFalls, FaultFalls
  <2>3. CASE q # r
    <3>1. \E l : Becomes(q, l)
      <4>1. Work(q) => \E l : Becomes(q, l)
        BY DEF Work, MarkConfirmed, Load, Gate, Proceed, StepEnds, StepRaises, GroupDone, Journal,
               SetPending, ReadCheckpoint, WriteCheckpoint, Return, MarkExecuted, ClearPending
      <4> QED BY <2>1, <4>1 DEF Cancel, CheckpointFails, Return, JournalFails, LoadFails
    <3> QED BY <1>1, <2>3, <3>1
  <2> QED BY <2>2, <2>3
<1>4. CASE Crash
  <2>1. req'[r] = Idle BY <1>4 DEF Crash
  <2>2. Part(Idle) < Part(req[r]) BY IdleFields DEF Part
  <2> QED BY <2>1, <2>2, PartFalls
<1>5. CASE CheckpointExpires \/ OtherPending BY <1>5 DEF CheckpointExpires, OtherPending
<1> QED BY <1>2, <1>3, <1>4, <1>5 DEF Next

\* Every request takes finitely many steps, whatever its steps do and whatever
\* fails: what it has left to do is a rank, and ranks are well founded.
THEOREM RequestsShrink == Spec => [](\A r \in Requests : Rest(req[r]) \in Ranks(4)) /\ RestShrinks
<1>1. IInv => \A r \in Requests : Rest(req[r]) \in Ranks(4) BY Mine, RestTyped
<1>2. IInv /\ [Next]_vars =>
        [\A r \in Requests :
           /\ Work(r) => Lower(Rest(req'[r]), Rest(req[r]))
           /\ req[r].pc # "idle" => req'[r] = req[r] \/ Lower(Rest(req'[r]), Rest(req[r]))]_vars
  BY WorkFalls, NextFalls
<1> QED BY <1>1, <1>2, Invariant, PTL DEF Spec, RestShrinks

=============================================================================
