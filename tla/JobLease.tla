------------------------------ MODULE JobLease ------------------------------
(***************************************************************************)
(* What the control server promises about the ownership of a job, whatever *)
(* table, statements and clocks implement it: a job has at most one holder, *)
(* every acquisition opens a new epoch (the fencing token), a lease passes  *)
(* from one agent to another only by lapsing first, and a completed job is  *)
(* never leased again.                                                      *)
(***************************************************************************)
EXTENDS Naturals

CONSTANTS Jobs, Agents, NULL

VARIABLES holder,   \* holder[j]: the agent that holds job j's lease, or NULL
          epoch,    \* epoch[j]: how many times job j has been acquired
          done      \* the jobs that have a final result

vars == <<holder, epoch, done>>

Init == /\ holder = [j \in Jobs |-> NULL]
        /\ epoch = [j \in Jobs |-> 0]
        /\ done = {}

Acquire(j, a) ==
  /\ holder[j] = NULL
  /\ j \notin done
  /\ holder' = [holder EXCEPT ![j] = a]
  /\ epoch' = [epoch EXCEPT ![j] = @ + 1]
  /\ UNCHANGED done

Lapse(j) ==
  /\ holder[j] # NULL
  /\ holder' = [holder EXCEPT ![j] = NULL]
  /\ UNCHANGED <<epoch, done>>

Complete(j) ==
  /\ j \notin done
  /\ holder' = [holder EXCEPT ![j] = NULL]
  /\ done' = done \cup {j}
  /\ UNCHANGED epoch

Next == \E j \in Jobs :
          \/ \E a \in Agents : Acquire(j, a)
          \/ Lapse(j)
          \/ Complete(j)

Spec == Init /\ [][Next]_vars
=============================================================================
