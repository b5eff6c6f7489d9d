--------------------------- MODULE InstallLedger ---------------------------
(***************************************************************************)
(* What the history of installation jobs promises to its reader            *)
(* (AppFacade.jobs, the job list of the services view): every row goes     *)
(* from queued to running to one outcome, which is final, and it says      *)
(* success of a job only if each of its items, the commands of its plan    *)
(* and the verification, was carried out with success, in order.           *)
(***************************************************************************)
EXTENDS Naturals

CONSTANTS Jobs, MaxItems

VARIABLES
  phase,  \* what the row of a job says: none is no row
  items,  \* how many items the job has
  work    \* how many of them have succeeded

vars == <<phase, items, work>>

Init ==
  /\ phase = [j \in Jobs |-> "none"]
  /\ items = [j \in Jobs |-> 0]
  /\ work = [j \in Jobs |-> 0]

Move(j, from, to) == phase[j] = from /\ phase' = [phase EXCEPT ![j] = to]

Request(j) ==
  /\ Move(j, "none", "queued")
  /\ \E n \in 0..MaxItems : items' = [items EXCEPT ![j] = n]
  /\ UNCHANGED work

Begin(j) == Move(j, "queued", "running") /\ UNCHANGED <<items, work>>

Work(j) ==
  /\ phase[j] = "running"
  /\ work[j] < items[j]
  /\ work' = [work EXCEPT ![j] = @ + 1]
  /\ UNCHANGED <<phase, items>>

Succeed(j) ==
  /\ work[j] = items[j]
  /\ Move(j, "running", "success")
  /\ UNCHANGED <<items, work>>

Fail(j) == Move(j, "running", "failed") /\ UNCHANGED <<items, work>>

Next == \E j \in Jobs :
  Request(j) \/ Begin(j) \/ Work(j) \/ Succeed(j) \/ Fail(j)

Spec == Init /\ [][Next]_vars
=============================================================================
