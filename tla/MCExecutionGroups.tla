-------------------------- MODULE MCExecutionGroups --------------------------
(***************************************************************************)
(* Every pipeline of three steps whose depends_on lists have at most two   *)
(* entries between 0 and 3, so that repeated, circular, self-referring and *)
(* out-of-range dependencies occur (0 is out of range when counting from   *)
(* 1).                                                                     *)
(***************************************************************************)
EXTENDS ExecutionGroups

Lists == {<<>>} \cup {<<a>> : a \in 0..3} \cup {<<a, b>> : a \in 0..3, b \in 0..3}

Pipelines3 == {[depends_on |-> <<a, b, c>>, confirm |-> {}] :
                 a \in Lists, b \in Lists, c \in Lists}
=============================================================================
