------------------------------ MODULE JobRecord ------------------------------
(***************************************************************************)
(* What a client polling GET /api/agents/jobs/{id} may observe: the status *)
(* of each job's Redis record.  A job's own run ends at most once, so a    *)
(* verdict of the run is final except for a cancellation, which may be     *)
(* written over it by a cancel request that had read the record before.    *)
(***************************************************************************)
CONSTANT Job  \* job ids

VARIABLE status  \* status of the record of each job, "none" before it exists

Verdict == {"succeeded", "failed", "cancelled"}

Init == status = [j \in Job |-> "none"]

Change(j, from, to) ==
  /\ status[j] \in from
  /\ status' = [status EXCEPT ![j] = to]

Accept(j) == Change(j, {"none"}, "pending")

\* A record cancelled while the job was being launched goes back to running.
Begin(j) == Change(j, {"pending", "cancelled"}, "running")

Succeed(j) == Change(j, {"running", "cancelled"}, "succeeded")

\* The write of "running" may have failed: then a pending record ends.
Fail(j) == Change(j, {"pending", "running", "cancelled"}, "failed")

Cancel(j) == Change(j, {"pending", "running"} \cup Verdict, "cancelled")

Next == \E j \in Job : Accept(j) \/ Begin(j) \/ Succeed(j) \/ Fail(j) \/ Cancel(j)

Spec == Init /\ [][Next]_status
=============================================================================
