---------------------------- MODULE InstallJobs ----------------------------
(***************************************************************************)
(* PackageInstaller of pibic_lab_core/infrastructure/catalog.py: jobs that *)
(* run the commands of an installation plan on a VM, on a pool of worker   *)
(* threads, and are recorded in SQLite and in the audit log.               *)
(*                                                                         *)
(* A worker thread may be preempted between any two statements; a step of  *)
(* this module ends where the others can see it: at a write of the job's   *)
(* row, at an event of the audit log, at a remote command.  The writes may *)
(* fail (disk full, database locked for longer than its timeout) and the   *)
(* process may be killed: the rows, the log and the VMs stay.              *)
(***************************************************************************)
EXTENDS Naturals, FiniteSets, Sequences

CONSTANTS
  Jobs,        \* job ids that may be drawn
  MaxWorkers,  \* max_workers of the ThreadPoolExecutor
  MaxPlan,     \* bound on the commands of a plan
  MaxCrashes,  \* bound on the times the process is killed
  MaxFaults    \* bound on the writes that fail

ASSUME ConstantsAssumption ==
  /\ MaxWorkers \in Nat \ {0}
  /\ MaxPlan \in Nat
  /\ MaxCrashes \in Nat
  /\ MaxFaults \in Nat

VARIABLES
  request,   \* the length of the job's plan, and whether its manifest verifies
  job,       \* the InstallationJob object in memory
  row,       \* its row in installation_jobs
  audit,     \* the events of the audit log about the job
  queue,     \* the work queue of the executor
  pc,        \* where the thread that handles the job is
  method,    \* how the job's thread runs its commands, from privilege_info
  launched,  \* the number of its commands that reached the VM
  passed,    \* the number of its items that succeeded
  remote,    \* whether a command of the job is running on the VM
  crashes, faults

diskVars   == <<row, audit>>
remoteVars == <<launched, passed, remote>>
vars == <<request, job, diskVars, queue, pc, method, remoteVars, crashes, faults>>

State  == {"none", "queued", "running", "success", "failed"}
Exit   == {"unset", "zero", "nonzero"}
Record == [state : State, output : 0..MaxPlan, exit_code : Exit, finished : BOOLEAN]
Event  == {"install_requested", "install_finished", "install_failed"}
Request == [plan : 0..MaxPlan, verify : BOOLEAN]
Place  == {"idle", "requested", "queued", "privilege", "announce", "launch", "wait",
           "result", "verify", "success", "failed", "finally", "over"}
Method == {"unset", "plain", "sudo", "doas"}

NoJob == [state |-> "none", output |-> 0, exit_code |-> "unset", finished |-> FALSE]
NoRequest == [plan |-> 0, verify |-> FALSE]

\* The commands of the plan and the verification, when the manifest has one.
Items(j) == request[j].plan + IF request[j].verify THEN 1 ELSE 0

TypeOK ==
  /\ request \in [Jobs -> Request]
  /\ job \in [Jobs -> Record]
  /\ row \in [Jobs -> Record]
  /\ audit \in [Jobs -> SUBSET Event]
  /\ queue \in Seq(Jobs)
  /\ pc \in [Jobs -> Place]
  /\ method \in [Jobs -> Method]
  /\ launched \in [Jobs -> Nat]
  /\ passed \in [Jobs -> Nat]
  /\ remote \in [Jobs -> BOOLEAN]
  /\ crashes \in 0..MaxCrashes
  /\ faults \in 0..MaxFaults

Init ==
  /\ request = [j \in Jobs |-> NoRequest]
  /\ job = [j \in Jobs |-> NoJob]
  /\ row = [j \in Jobs |-> NoJob]
  /\ audit = [j \in Jobs |-> {}]
  /\ queue = <<>>
  /\ pc = [j \in Jobs |-> "idle"]
  /\ method = [j \in Jobs |-> "unset"]
  /\ launched = [j \in Jobs |-> 0]
  /\ passed = [j \in Jobs |-> 0]
  /\ remote = [j \in Jobs |-> FALSE]
  /\ crashes = 0
  /\ faults = 0

-----------------------------------------------------------------------------
(* Building blocks.                                                        *)

Goto(j, place) == pc' = [pc EXCEPT ![j] = place]

\* job.<fields> are assigned, then store.save_job(job) succeeds.
SaveJob(j, record) ==
  /\ job' = [job EXCEPT ![j] = record]
  /\ row' = [row EXCEPT ![j] = record]
  /\ UNCHANGED faults

\* The fields are assigned and the write raises.
SaveFails(j, record) ==
  /\ faults < MaxFaults
  /\ faults' = faults + 1
  /\ job' = [job EXCEPT ![j] = record]
  /\ UNCHANGED row

AuditLog(j, event) ==
  /\ audit' = [audit EXCEPT ![j] = @ \cup {event}]
  /\ UNCHANGED faults

AuditFails ==
  /\ faults < MaxFaults
  /\ faults' = faults + 1
  /\ UNCHANGED audit

\* The jobs that hold a worker thread.
WorkersNeverFreed ==                          \* a bug: a worker is not given back
  {j \in Jobs : pc[j] \notin {"idle", "requested", "queued"}}
Working == {j \in Jobs : pc[j] \notin {"idle", "requested", "queued", "over"}}

-----------------------------------------------------------------------------
(* start_job, on the thread of the API call.  Without confirmation or with *)
(* an incompatible plan it raises before it writes anything.               *)

StartJob(j) ==
  \E r \in Request :
    /\ pc[j] = "idle"
    /\ row[j].state = "none"
    /\ request' = [request EXCEPT ![j] = r]
    /\ SaveJob(j, [NoJob EXCEPT !.state = "queued"])
    /\ Goto(j, "requested")
    /\ UNCHANGED <<audit, queue, method, remoteVars, crashes>>

\* The request is audited and submitted; if the log cannot be written the row
\* stays queued and nobody will ever take it.
Submit(j) ==
  /\ pc[j] = "requested"
  /\ \/ /\ AuditLog(j, "install_requested")
        /\ queue' = Append(queue, j)
        /\ Goto(j, "queued")
     \/ /\ AuditFails
        /\ Goto(j, "over")
        /\ UNCHANGED queue
  /\ UNCHANGED <<request, job, row, method, remoteVars, crashes>>

-----------------------------------------------------------------------------
(* _execute_job, on a worker thread.                                       *)

\* A free worker takes the oldest job and marks it running.  This write is
\* outside the try: if it raises, the Future swallows it.
Begin(j) ==
  LET record == [job[j] EXCEPT !.state = "running"]
  IN  /\ pc[j] = "queued"
      /\ queue # <<>> /\ j = Head(queue)
      /\ Cardinality(Working) < MaxWorkers
      /\ queue' = Tail(queue)
      /\ \/ SaveJob(j, record) /\ Goto(j, "privilege")
         \/ SaveFails(j, record) /\ Goto(j, "over")
      /\ UNCHANGED <<request, audit, method, remoteVars, crashes>>

\* What follows the commands done so far: the next one, the verification, the end.
AfterCommandsAndOne(j, done) ==               \* a bug: off by one
  IF done <= request[j].plan THEN "announce"
  ELSE IF request[j].verify THEN "verify" ELSE "success"
AfterCommandsUnverified(j, done) ==           \* a bug: no verification
  IF done < request[j].plan THEN "announce" ELSE "success"
AfterCommands(j, done) ==
  IF done < request[j].plan THEN "announce"
  ELSE IF request[j].verify THEN "verify" ELSE "success"

\* Elevation: none for root or a manifest that needs none, else sudo before doas.
Elevation(requires_admin, can) ==
  IF ~requires_admin \/ "root" \in can THEN "plain"
  ELSE IF "sudo" \in can THEN "sudo" ELSE "doas"

\* detector.privilege_info finds what the account can do, or raises.  Without
\* root a manifest that requires admin needs an elevator and a password.
Privilege(j) ==
  /\ pc[j] = "privilege"
  /\ \/ \E can \in SUBSET {"root", "sudo", "doas"},
           requires_admin, elevation_password \in BOOLEAN :
          /\ requires_admin /\ "root" \notin can => can # {} /\ elevation_password
          /\ method' = [method EXCEPT ![j] = Elevation(requires_admin, can)]
          /\ Goto(j, AfterCommands(j, 0))
     \/ Goto(j, "failed") /\ UNCHANGED method
  /\ UNCHANGED <<request, job, diskVars, queue, remoteVars, crashes, faults>>

\* The command is appended to the output and saved before it is run.
AnnounceUnsaved(j) ==                         \* a bug: saved with its result only
  /\ pc[j] = "announce"
  /\ job' = [job EXCEPT ![j].output = @ + 1]
  /\ Goto(j, "launch")
  /\ UNCHANGED <<request, diskVars, queue, method, remoteVars, crashes, faults>>
Announce(j) ==
  LET record == [job[j] EXCEPT !.output = @ + 1]
  IN  /\ pc[j] = "announce"
      /\ \/ SaveJob(j, record) /\ Goto(j, "launch")
         \/ SaveFails(j, record) /\ Goto(j, "failed")
      /\ UNCHANGED <<request, audit, queue, method, remoteVars, crashes>>

\* _run_privileged_if_needed sends it to the VM, or raises for want of a session.
Launch(j) ==
  /\ pc[j] = "launch"
  /\ \/ /\ launched' = [launched EXCEPT ![j] = @ + 1]
        /\ remote' = [remote EXCEPT ![j] = TRUE]
        /\ Goto(j, "wait")
     \/ /\ Goto(j, "failed")
        /\ UNCHANGED <<launched, remote>>
  /\ UNCHANGED <<request, job, diskVars, queue, method, passed, crashes, faults>>

\* It exits, or its time is up or the session is lost and it may run on.
Returns(j) ==
  /\ pc[j] = "wait"
  /\ \/ /\ remote[j]
        /\ remote' = [remote EXCEPT ![j] = FALSE]
        /\ \E e \in {"zero", "nonzero"} :
             /\ job' = [job EXCEPT ![j].exit_code = e]
             /\ passed' = [passed EXCEPT ![j] = IF e = "zero" THEN @ + 1 ELSE @]
        /\ Goto(j, "result")
     \/ /\ Goto(j, "failed")
        /\ UNCHANGED <<job, passed, remote>>
  /\ UNCHANGED <<request, diskVars, queue, method, launched, crashes, faults>>

GoesOnAnyway(j) == TRUE                       \* a bug: the exit code is not looked at
GoesOn(j) == job[j].exit_code = "zero"

\* The exit code is saved, and only zero lets the job go on.
Result(j) ==
  /\ pc[j] = "result"
  /\ \/ /\ SaveJob(j, job[j])
        /\ Goto(j, IF GoesOn(j) THEN AfterCommands(j, job[j].output) ELSE "failed")
     \/ SaveFails(j, job[j]) /\ Goto(j, "failed")
  /\ UNCHANGED <<request, audit, queue, method, remoteVars, crashes>>

\* The verification command exits with zero and prints something, or does not.
Verify(j) ==
  /\ pc[j] = "verify"
  /\ \/ /\ passed' = [passed EXCEPT ![j] = @ + 1]
        /\ Goto(j, "success")
     \/ Goto(j, "failed") /\ UNCHANGED passed
  /\ UNCHANGED <<request, job, diskVars, queue, method, launched, remote, crashes, faults>>

\* The end of the try block; a log that cannot be written makes the job fail.
SucceedAnyway(j) ==                           \* a bug: it is ignored
  /\ pc[j] = "success"
  /\ job' = [job EXCEPT ![j] = [@ EXCEPT !.state = "success", !.exit_code = "zero"]]
  /\ AuditLog(j, "install_finished") \/ AuditFails
  /\ Goto(j, "finally")
  /\ UNCHANGED <<request, row, queue, method, remoteVars, crashes>>
Succeed(j) ==
  /\ pc[j] = "success"
  /\ job' = [job EXCEPT ![j] = [@ EXCEPT !.state = "success", !.exit_code = "zero"]]
  /\ \/ AuditLog(j, "install_finished") /\ Goto(j, "finally")
     \/ AuditFails /\ Goto(j, "failed")
  /\ UNCHANGED <<request, row, queue, method, remoteVars, crashes>>

\* except Exception: whether or not the failure is logged, finally follows.
Fail(j) ==
  /\ pc[j] = "failed"
  /\ job' = [job EXCEPT ![j].state = "failed"]
  /\ AuditLog(j, "install_failed") \/ AuditFails
  /\ Goto(j, "finally")
  /\ UNCHANGED <<request, row, queue, method, remoteVars, crashes>>

Finally(j) ==
  LET record == [job[j] EXCEPT !.finished = TRUE]
  IN  /\ pc[j] = "finally"
      /\ SaveJob(j, record) \/ SaveFails(j, record)
      /\ Goto(j, "over")
      /\ method' = [method EXCEPT ![j] = "unset"]
      /\ UNCHANGED <<request, audit, queue, remoteVars, crashes>>

-----------------------------------------------------------------------------
(* What the program does not control.                                      *)

\* A command that was given up ends by itself.
StrayEnds(j) ==
  /\ remote[j] /\ pc[j] # "wait"
  /\ remote' = [remote EXCEPT ![j] = FALSE]
  /\ UNCHANGED <<request, job, diskVars, queue, pc, method, launched, passed, crashes, faults>>

\* The process is killed and started again: nothing takes the old jobs up, and
\* the commands that were running may run on.
Crash ==
  /\ crashes < MaxCrashes
  /\ crashes' = crashes + 1
  /\ queue' = <<>>
  /\ pc' = [j \in Jobs |-> IF pc[j] = "idle" THEN "idle" ELSE "over"]
  /\ method' = [j \in Jobs |-> "unset"]
  /\ UNCHANGED <<request, job, diskVars, remoteVars, faults>>

-----------------------------------------------------------------------------
Step(j) ==
  \/ Submit(j)
  \/ Begin(j)
  \/ Privilege(j)
  \/ Announce(j)
  \/ Launch(j)
  \/ Returns(j)
  \/ Result(j)
  \/ Verify(j)
  \/ Succeed(j)
  \/ Fail(j)
  \/ Finally(j)

Next == (\E j \in Jobs : StartJob(j) \/ Step(j) \/ StrayEnds(j)) \/ Crash

Spec == Init /\ [][Next]_vars

\* Threads are scheduled, and every remote command is bounded by a timeout.
FairSpec == Spec /\ \A j \in Jobs : WF_vars(Step(j))

-----------------------------------------------------------------------------
(* Properties.                                                             *)

\* A command that reached the VM is in the row that survives a crash: the output
\* is saved before the command is run (catalog.py:178-180).
CommandsAreAnnounced == \A j \in Jobs : launched[j] <= row[j].output

\* The row and the audit log do not tell different stories: a row says success
\* only of a job whose success is logged, none is logged both ways, and a
\* failure is missing from the log only after a write that failed.
RowAgreesWithAudit ==
  \A j \in Jobs :
    /\ row[j].state = "success" => "install_finished" \in audit[j]
    /\ row[j].state = "failed" /\ faults = 0 => "install_failed" \in audit[j]
    /\ ~ ({"install_finished", "install_failed"} \subseteq audit[j])

\* After a command that failed, or one whose result is unknown, no other command
\* of the job reaches the VM.
StopsAtTheFirstFailure ==
  [][\A j \in Jobs :
       launched'[j] # launched[j] => passed[j] = launched[j] /\ ~remote[j]]_vars

\* SECURITY.md:35: "`doas` automatizado não é implementado nesta versão".
DoasIsManual == \A j \in Jobs : method[j] = "doas" => launched[j] = 0

\* A job that was submitted gets an outcome in its row, in a process that is not
\* killed and whose writes succeed.
EveryJobEnds ==
  \A j \in Jobs :
    row[j].state = "queued" ~>
      row[j].finished \/ crashes > 0 \/ faults > 0

\* The rows are a ledger of jobs.
Ledger == INSTANCE InstallLedger
  WITH phase <- [j \in Jobs |-> row[j].state],
       items <- [j \in Jobs |-> Items(j)],
       work <- passed,
       MaxItems <- MaxPlan + 1
LedgerSpec == Ledger!Spec

-----------------------------------------------------------------------------
(* What the proofs rest on.                                                *)

\* Where a job is, what its row says and how far it has come.
ProgressOf(j) ==
  /\ pc[j] = "idle" => row[j].state = "none" /\ request[j] = NoRequest
  /\ pc[j] \in {"idle", "requested", "queued", "privilege"} =>
       launched[j] = 0 /\ passed[j] = 0 /\ job[j].output = 0
  /\ pc[j] \in {"requested", "queued"} => row[j].state = "queued"
  /\ pc[j] \notin {"idle", "requested", "queued", "over"} => row[j].state = "running"
  /\ pc[j] \in {"privilege", "announce", "launch", "wait", "result", "verify", "success"} =>
       job[j].state = "running"
  /\ remote[j] => pc[j] \in {"wait", "failed", "finally", "over"}
  /\ pc[j] = "announce" => job[j].output < request[j].plan
  /\ pc[j] \in {"announce", "verify"} =>
       launched[j] = job[j].output /\ passed[j] = job[j].output
  /\ pc[j] = "launch" =>
       /\ job[j].output = launched[j] + 1
       /\ passed[j] = launched[j]
       /\ launched[j] < request[j].plan
  /\ pc[j] = "wait" => job[j].output = launched[j] /\ launched[j] = passed[j] + 1
  /\ pc[j] \in {"wait", "result"} => launched[j] <= request[j].plan
  /\ pc[j] = "result" => job[j].output = launched[j]
  /\ pc[j] = "result" /\ job[j].exit_code = "zero" => passed[j] = launched[j]
  /\ pc[j] = "verify" => passed[j] = request[j].plan /\ request[j].verify
  /\ pc[j] = "success" => passed[j] = Items(j)
  /\ pc[j] = "finally" => job[j].state \in {"success", "failed"}
  /\ pc[j] = "finally" /\ job[j].state = "success" => passed[j] = Items(j)
Progress == \A j \in Jobs : ProgressOf(j)

\* What was launched is in the row, and the row is not ahead of the object.
AnnouncedOf(j) ==
  /\ launched[j] <= row[j].output
  /\ row[j].output <= job[j].output
  /\ pc[j] = "launch" => launched[j] < row[j].output
Announced == \A j \in Jobs : AnnouncedOf(j)

\* The log tells the outcome before the row does.
AuditedOf(j) ==
  /\ pc[j] \notin {"finally", "over"} =>
       audit[j] \cap {"install_finished", "install_failed"} = {}
  /\ pc[j] = "finally" /\ job[j].state = "success" => "install_finished" \in audit[j]
  /\ pc[j] = "finally" /\ job[j].state = "failed" /\ faults = 0 =>
       "install_failed" \in audit[j]
Audited == \A j \in Jobs : AuditedOf(j)
=============================================================================
