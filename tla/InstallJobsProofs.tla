------------------------- MODULE InstallJobsProofs -------------------------
(***************************************************************************)
(* Theorems about InstallJobs, for any number of jobs and workers, any     *)
(* plan and any number of crashes and failed writes.  The types need       *)
(* Progress, which bounds the output of a job by its plan, and everything  *)
(* else needs both: the inductive invariant is their conjunction.          *)
(***************************************************************************)
EXTENDS InstallJobs, TLAPS

USE DEF diskVars, remoteVars, vars

-----------------------------------------------------------------------------
(* The job object and its row.                                             *)

\* The record of no job is one.
LEMMA NoJobType == NoJob \in Record
BY ConstantsAssumption DEF NoJob, Record, State, Exit

\* A save, done or failed, keeps the types of what it writes.
LEMMA SaveTypes ==
  ASSUME TypeOK, NEW j \in Jobs, NEW record \in Record,
         SaveJob(j, record) \/ SaveFails(j, record)
  PROVE  job' \in [Jobs -> Record] /\ row' \in [Jobs -> Record] /\ faults' \in 0..MaxFaults
<1>1. CASE SaveJob(j, record)
  BY <1>1 DEF SaveJob, TypeOK
<1>2. CASE SaveFails(j, record)
  BY <1>2, ConstantsAssumption DEF SaveFails, TypeOK
<1>3. QED BY <1>1, <1>2

\* So does an event of the log.
LEMMA LogTypes ==
  ASSUME TypeOK, NEW j \in Jobs, NEW e \in Event, AuditLog(j, e) \/ AuditFails
  PROVE  audit' \in [Jobs -> SUBSET Event] /\ faults' \in 0..MaxFaults
<1>1. CASE AuditLog(j, e)
  BY <1>1 DEF AuditLog, TypeOK
<1>2. CASE AuditFails
  BY <1>2, ConstantsAssumption DEF AuditFails, TypeOK
<1>3. QED BY <1>1, <1>2

\* And a move of the program counter.
LEMMA GotoTypes ==
  ASSUME TypeOK, NEW j \in Jobs, NEW place \in Place, Goto(j, place)
  PROVE  pc' \in [Jobs -> Place]
BY DEF Goto, TypeOK

-----------------------------------------------------------------------------
(* Types and progress.                                                     *)

\* One step preserves the types.
LEMMA TypeStep == TypeOK /\ Progress /\ [Next]_vars => TypeOK'
<1> SUFFICES ASSUME TypeOK, Progress, [Next]_vars PROVE TypeOK'
  OBVIOUS
<1> USE ConstantsAssumption
<1>0. ASSUME NEW j \in Jobs
      PROVE  /\ job[j] \in Record
             /\ request[j] \in Request
             /\ queue \in Seq(Jobs) /\ Append(queue, j) \in Seq(Jobs)
             /\ launched[j] \in Nat /\ passed[j] \in Nat
             /\ \A done : AfterCommands(j, done) \in Place
  BY DEF TypeOK, AfterCommands, Place
<1>p. {"requested", "queued", "privilege", "announce", "launch", "wait", "result", "verify",
       "success", "failed", "finally", "over"} \subseteq Place
  BY DEF Place
<1>1. ASSUME NEW j \in Jobs, StartJob(j) PROVE TypeOK'
  <2>1. [NoJob EXCEPT !.state = "queued"] \in Record
    BY NoJobType DEF Record, State
  <2>2. job' \in [Jobs -> Record] /\ row' \in [Jobs -> Record] /\ faults' \in 0..MaxFaults
    BY <1>1, <2>1, SaveTypes DEF StartJob
  <2>3. pc' \in [Jobs -> Place]
    BY <1>1, <1>p, GotoTypes DEF StartJob
  <2>4. QED BY <2>3, <1>1, <2>2 DEF StartJob, TypeOK
<1>2. ASSUME NEW j \in Jobs, Submit(j) PROVE TypeOK'
  <2>1. queue' \in Seq(Jobs)
    BY <1>0, <1>2 DEF Submit
  <2>2. audit' \in [Jobs -> SUBSET Event] /\ faults' \in 0..MaxFaults
    BY <1>2, LogTypes DEF Submit, Event
  <2>3. pc' \in [Jobs -> Place]
    BY <1>2, <1>p, GotoTypes DEF Submit
  <2>4. QED BY <2>3, <1>2, <2>1, <2>2 DEF Submit, TypeOK
<1>3. ASSUME NEW j \in Jobs, Begin(j) PROVE TypeOK'
  <2>1. [job[j] EXCEPT !.state = "running"] \in Record
    BY <1>0 DEF Record, State, Exit
  <2>2. queue' \in Seq(Jobs)
    BY <1>3 DEF Begin, TypeOK
  <2>3. job' \in [Jobs -> Record] /\ row' \in [Jobs -> Record] /\ faults' \in 0..MaxFaults
    BY <1>3, <2>1, SaveTypes DEF Begin
  <2>4. pc' \in [Jobs -> Place]
    BY <1>3, <1>p, GotoTypes DEF Begin
  <2>5. QED BY <2>4, <1>3, <2>2, <2>3 DEF Begin, TypeOK
<1>4. ASSUME NEW j \in Jobs, Privilege(j) PROVE TypeOK'
  <2>1. ASSUME NEW can \in SUBSET {"root", "sudo", "doas"}, NEW requires_admin \in BOOLEAN
        PROVE  Elevation(requires_admin, can) \in Method
    BY DEF Elevation, Method
  <2>2. \/ \E can \in SUBSET {"root", "sudo", "doas"}, requires_admin \in BOOLEAN :
             method' = [method EXCEPT ![j] = Elevation(requires_admin, can)]
        \/ UNCHANGED method
    BY <1>4 DEF Privilege
  <2>3. method' \in [Jobs -> Method]
    BY <2>1, <2>2 DEF TypeOK
  <2>4. Goto(j, AfterCommands(j, 0)) \/ Goto(j, "failed")
    BY <1>4 DEF Privilege
  <2>5. pc' \in [Jobs -> Place]
    BY <1>0, <1>p, <2>4, GotoTypes
  <2>6. QED BY <1>4, <2>3, <2>5 DEF Privilege, TypeOK
<1>5. ASSUME NEW j \in Jobs, Announce(j) PROVE TypeOK'
  <2>1. job[j].output \in Nat /\ request[j].plan \in 0..MaxPlan
    BY <1>0 DEF Record, Request
  <2>2. job[j].output < request[j].plan
    BY <1>5 DEF Announce, Progress, ProgressOf
  <2>3. job[j].output + 1 \in 0..MaxPlan
    BY <2>1, <2>2
  <2>4. [job[j] EXCEPT !.output = @ + 1] \in Record
    BY <1>0, <2>3 DEF Record
  <2>5. job' \in [Jobs -> Record] /\ row' \in [Jobs -> Record] /\ faults' \in 0..MaxFaults
    BY <1>5, <2>4, SaveTypes DEF Announce
  <2>6. pc' \in [Jobs -> Place]
    BY <1>5, <1>p, GotoTypes DEF Announce
  <2>7. QED BY <2>6, <1>5, <2>5 DEF Announce, TypeOK
<1>6. ASSUME NEW j \in Jobs, Launch(j) PROVE TypeOK'
  <2>1. pc' \in [Jobs -> Place]
    BY <1>6, <1>p, GotoTypes DEF Launch
  <2>2. launched' \in [Jobs -> Nat] /\ remote' \in [Jobs -> BOOLEAN]
    <3>1. \/ launched' = [launched EXCEPT ![j] = @ + 1] /\ remote' = [remote EXCEPT ![j] = TRUE]
          \/ UNCHANGED <<launched, remote>>
      BY <1>6 DEF Launch
    <3>2. launched' \in [Jobs -> Nat]
      BY <1>0, <3>1 DEF TypeOK
    <3>3. remote' \in [Jobs -> BOOLEAN]
      BY <3>1, Zenon DEF TypeOK
    <3>4. QED BY <3>2, <3>3
  <2>3. QED BY <2>1, <2>2, <1>6 DEF Launch, TypeOK
<1>7. ASSUME NEW j \in Jobs, Returns(j) PROVE TypeOK'
  <2>1. \A e \in {"zero", "nonzero"} : [job[j] EXCEPT !.exit_code = e] \in Record
    BY <1>0 DEF Record, Exit
  <2>2. job' \in [Jobs -> Record]
    <3>1. \/ \E e \in {"zero", "nonzero"} : job' = [job EXCEPT ![j].exit_code = e]
          \/ UNCHANGED job
      BY <1>7 DEF Returns
    <3>2. QED BY <2>1, <3>1 DEF TypeOK
  <2>3. passed' \in [Jobs -> Nat]
    <3>1. \/ \E e \in {"zero", "nonzero"} :
               passed' = [passed EXCEPT ![j] = IF e = "zero" THEN @ + 1 ELSE @]
          \/ UNCHANGED passed
      BY <1>7 DEF Returns
    <3>2. QED BY <1>0, <3>1 DEF TypeOK
  <2>4. pc' \in [Jobs -> Place]
    BY <1>7, <1>p, GotoTypes DEF Returns
  <2>5. QED BY <2>4, <1>7, <2>2, <2>3 DEF Returns, TypeOK
<1>8. ASSUME NEW j \in Jobs, Result(j) PROVE TypeOK'
  <2>1. job' \in [Jobs -> Record] /\ row' \in [Jobs -> Record] /\ faults' \in 0..MaxFaults
    BY <1>0, <1>8, SaveTypes DEF Result
  <2>2. pc' \in [Jobs -> Place]
    BY <1>0, <1>8 DEF Result, Goto, TypeOK, Place
  <2>3. QED BY <1>8, <2>1, <2>2 DEF Result, TypeOK
<1>9. ASSUME NEW j \in Jobs, Verify(j) PROVE TypeOK'
  <2>1. pc' \in [Jobs -> Place]
    BY <1>9, <1>p, GotoTypes DEF Verify
  <2>2. passed' \in [Jobs -> Nat]
    BY <1>0, <1>9 DEF Verify, TypeOK
  <2>3. QED BY <2>1, <2>2, <1>9 DEF Verify, TypeOK
<1>10. ASSUME NEW j \in Jobs, Succeed(j) PROVE TypeOK'
  <2>1. [job[j] EXCEPT !.state = "success", !.exit_code = "zero"] \in Record
    BY <1>0 DEF Record, State, Exit
  <2>2. job' \in [Jobs -> Record]
    BY <1>10, <2>1 DEF Succeed, TypeOK
  <2>3. audit' \in [Jobs -> SUBSET Event] /\ faults' \in 0..MaxFaults
    BY <1>10, LogTypes DEF Succeed, Event
  <2>4. pc' \in [Jobs -> Place]
    BY <1>10, <1>p, GotoTypes DEF Succeed
  <2>5. QED BY <2>4, <1>10, <2>2, <2>3 DEF Succeed, TypeOK
<1>11. ASSUME NEW j \in Jobs, Fail(j) PROVE TypeOK'
  <2>1. [job[j] EXCEPT !.state = "failed"] \in Record
    BY <1>0 DEF Record, State, Exit
  <2>2. job' \in [Jobs -> Record]
    BY <1>11, <2>1 DEF Fail, TypeOK
  <2>3. audit' \in [Jobs -> SUBSET Event] /\ faults' \in 0..MaxFaults
    BY <1>11, LogTypes DEF Fail, Event
  <2>4. pc' \in [Jobs -> Place]
    BY <1>11, <1>p, GotoTypes DEF Fail
  <2>5. QED BY <2>4, <1>11, <2>2, <2>3 DEF Fail, TypeOK
<1>12. ASSUME NEW j \in Jobs, Finally(j) PROVE TypeOK'
  <2>1. [job[j] EXCEPT !.finished = TRUE] \in Record
    BY <1>0 DEF Record
  <2>2. job' \in [Jobs -> Record] /\ row' \in [Jobs -> Record] /\ faults' \in 0..MaxFaults
    BY <1>12, <2>1, SaveTypes DEF Finally
  <2>3. pc' \in [Jobs -> Place]
    BY <1>12, <1>p, GotoTypes DEF Finally
  <2>4. QED BY <2>3, <1>12, <2>2 DEF Finally, TypeOK, Method
<1>13. ASSUME NEW j \in Jobs, StrayEnds(j) PROVE TypeOK'
  BY <1>13 DEF StrayEnds, TypeOK
<1>14. CASE Crash
  BY <1>14 DEF Crash, TypeOK, Place, Method
<1>15. CASE UNCHANGED vars
  BY <1>15 DEF TypeOK
<1>16. QED
  BY <1>1, <1>2, <1>3, <1>4, <1>5, <1>6, <1>7, <1>8, <1>9, <1>10, <1>11, <1>12, <1>13, <1>14,
     <1>15 DEF Next, Step

-----------------------------------------------------------------------------
(* Progress.                                                               *)

\* A job is touched by its own steps only.
LEMMA Frame ==
  ASSUME TypeOK, NEW j \in Jobs, NEW k \in Jobs, k # j,
         StartJob(j) \/ Step(j) \/ StrayEnds(j)
  PROVE  /\ request'[k] = request[k] /\ job'[k] = job[k] /\ row'[k] = row[k]
         /\ audit'[k] = audit[k] /\ pc'[k] = pc[k] /\ method'[k] = method[k]
         /\ launched'[k] = launched[k] /\ passed'[k] = passed[k] /\ remote'[k] = remote[k]
<1> USE DEF TypeOK, Goto, SaveJob, SaveFails, AuditLog, AuditFails
<1>1. CASE StartJob(j) \/ StrayEnds(j)
  BY <1>1 DEF StartJob, StrayEnds
<1>2. CASE Submit(j) \/ Begin(j)
  BY <1>2 DEF Submit, Begin
<1>3. CASE Privilege(j) \/ Launch(j) \/ Returns(j)
  BY <1>3 DEF Privilege, Launch, Returns
<1>4. CASE Announce(j) \/ Result(j)
  BY <1>4 DEF Announce, Result
<1>5. CASE Verify(j) \/ Succeed(j)
  BY <1>5 DEF Verify, Succeed
<1>6. CASE Fail(j) \/ Finally(j)
  BY <1>6 DEF Fail, Finally
<1>7. QED BY <1>1, <1>2, <1>3, <1>4, <1>5, <1>6 DEF Step

\* One step preserves the progress of the job that takes it.
LEMMA OwnProgress ==
  ASSUME TypeOK, Progress, NEW j \in Jobs, StartJob(j) \/ Step(j) \/ StrayEnds(j)
  PROVE  ProgressOf(j)'
<1> USE DEF Goto, SaveJob, SaveFails, AuditLog, AuditFails
<1>0. /\ request[j] \in Request /\ job[j] \in Record /\ row[j] \in Record
      /\ launched[j] \in Nat /\ passed[j] \in Nat /\ remote[j] \in BOOLEAN
      /\ job[j].output \in Nat /\ request[j].plan \in Nat /\ request[j].verify \in BOOLEAN
      /\ ProgressOf(j)
  BY ConstantsAssumption DEF TypeOK, Progress, Record, Request
<1>1. CASE StartJob(j)
  BY <1>0, <1>1 DEF StartJob, ProgressOf, NoJob, TypeOK
<1>2. CASE Submit(j)
  BY <1>0, <1>2 DEF Submit, ProgressOf, TypeOK
<1>3. CASE Begin(j)
  <2>1. UNCHANGED <<request, launched, passed, remote>> /\ pc[j] = "queued"
    BY <1>3 DEF Begin
  <2>2. /\ job'[j] = [job[j] EXCEPT !.state = "running"]
        /\ \/ row'[j] = job'[j] /\ pc'[j] = "privilege"
           \/ row'[j] = row[j] /\ pc'[j] = "over"
    BY <1>3 DEF Begin, TypeOK
  <2>3. job'[j].state = "running" /\ job'[j].output = job[j].output
    BY <1>0, <2>2 DEF Record
  <2>4. QED BY <1>0, <2>1, <2>2, <2>3 DEF ProgressOf, Items
<1>4. CASE Privilege(j)
  <2>1. UNCHANGED <<request, job, row, launched, passed, remote>>
    BY <1>4 DEF Privilege
  <2>2. pc[j] = "privilege" /\ pc'[j] \in {AfterCommands(j, 0), "failed"}
    BY <1>4 DEF Privilege, TypeOK
  <2>3. QED BY <1>0, <2>1, <2>2 DEF ProgressOf, AfterCommands, Items
<1>5. CASE Announce(j)
  <2>1. UNCHANGED <<request, launched, passed, remote>> /\ pc[j] = "announce"
    BY <1>5 DEF Announce
  <2>2. /\ job'[j] = [job[j] EXCEPT !.output = @ + 1]
        /\ \/ row'[j] = job'[j] /\ pc'[j] = "launch"
           \/ row'[j] = row[j] /\ pc'[j] = "failed"
    BY <1>5 DEF Announce, TypeOK
  <2>3. job'[j].state = job[j].state /\ job'[j].output = job[j].output + 1
    BY <1>0, <2>2 DEF Record
  <2>4. QED BY <1>0, <2>1, <2>2, <2>3 DEF ProgressOf, Items
<1>6. CASE Launch(j)
  <2>1. UNCHANGED <<request, job, row, passed>> /\ pc[j] = "launch"
    BY <1>6 DEF Launch
  <2>2. \/ launched'[j] = launched[j] + 1 /\ pc'[j] = "wait"
        \/ UNCHANGED launched /\ pc'[j] = "failed"
    BY <1>6 DEF Launch, TypeOK
  <2>3. QED BY <1>0, <2>1, <2>2 DEF ProgressOf, Items
<1>7. CASE Returns(j)
  <2>1. UNCHANGED <<request, row, launched>> /\ pc[j] = "wait"
    BY <1>7 DEF Returns
  <2>2. \/ /\ pc'[j] = "result" /\ ~remote'[j]
           /\ \E e \in {"zero", "nonzero"} :
                /\ job'[j] = [job[j] EXCEPT !.exit_code = e]
                /\ e = "zero" => passed'[j] = passed[j] + 1
        \/ pc'[j] = "failed" /\ UNCHANGED <<job, passed>>
    BY <1>7 DEF Returns, TypeOK
  <2>3. CASE pc'[j] = "failed"
    BY <1>0, <2>1, <2>2, <2>3 DEF ProgressOf, Items
  <2>4. CASE pc'[j] = "result"
    <3>1. PICK e \in {"zero", "nonzero"} :
            /\ job'[j] = [job[j] EXCEPT !.exit_code = e]
            /\ e = "zero" => passed'[j] = passed[j] + 1
      BY <2>2, <2>4
    <3>2. job'[j].exit_code = e /\ job'[j].output = job[j].output /\ job'[j].state = job[j].state
      BY <1>0, <3>1 DEF Record
    <3>3. ~remote'[j]
      BY <2>2, <2>4
    <3>4. QED BY <1>0, <2>1, <2>4, <3>1, <3>2, <3>3 DEF ProgressOf, Items
  <2>5. QED BY <2>2, <2>3, <2>4
<1>8. CASE Result(j)
  BY <1>0, <1>8 DEF Result, ProgressOf, TypeOK, GoesOn, AfterCommands, Items
<1>9. CASE Verify(j)
  BY <1>0, <1>9 DEF Verify, ProgressOf, TypeOK, Items
<1>10. CASE Succeed(j)
  BY <1>0, <1>10 DEF Succeed, ProgressOf, TypeOK, Items
<1>11. CASE Fail(j)
  BY <1>0, <1>11 DEF Fail, ProgressOf, TypeOK
<1>12. CASE Finally(j)
  BY <1>0, <1>12 DEF Finally, ProgressOf, TypeOK
<1>13. CASE StrayEnds(j)
  BY <1>0, <1>13 DEF StrayEnds, ProgressOf, TypeOK, Items
<1>14. QED
  BY <1>1, <1>2, <1>3, <1>4, <1>5, <1>6, <1>7, <1>8, <1>9, <1>10, <1>11, <1>12, <1>13 DEF Step

\* And that of every job.
LEMMA ProgressStep == TypeOK /\ Progress /\ [Next]_vars => Progress'
<1> SUFFICES ASSUME TypeOK, Progress, [Next]_vars, NEW k \in Jobs PROVE ProgressOf(k)'
  BY DEF Progress
<1>1. ASSUME NEW j \in Jobs, StartJob(j) \/ Step(j) \/ StrayEnds(j) PROVE ProgressOf(k)'
  <2>1. CASE j = k
    BY <1>1, <2>1, OwnProgress
  <2>2. CASE j # k
    BY <1>1, <2>2, Frame DEF Progress, ProgressOf, Items
  <2>3. QED BY <2>1, <2>2
<1>2. CASE Crash
  BY <1>2 DEF Crash, Progress, ProgressOf, Items, TypeOK
<1>3. CASE UNCHANGED vars
  BY <1>3 DEF Progress, ProgressOf, Items
<1>4. QED BY <1>1, <1>2, <1>3 DEF Next

-----------------------------------------------------------------------------
(* The row is ahead of the commands.                                       *)

\* One step preserves it for the job that takes it.
LEMMA OwnAnnounced ==
  ASSUME TypeOK, Progress, Announced, NEW j \in Jobs, StartJob(j) \/ Step(j) \/ StrayEnds(j)
  PROVE  AnnouncedOf(j)'
<1> USE DEF Goto, SaveJob, SaveFails, AuditLog, AuditFails
<1>0. /\ job[j] \in Record /\ row[j] \in Record /\ launched[j] \in Nat
      /\ job[j].output \in Nat /\ row[j].output \in Nat
      /\ ProgressOf(j) /\ AnnouncedOf(j)
  BY ConstantsAssumption DEF TypeOK, Progress, Announced, Record
<1>1. CASE StartJob(j)
  BY <1>0, <1>1 DEF StartJob, ProgressOf, AnnouncedOf, NoJob, TypeOK
<1>2. CASE Submit(j)
  BY <1>0, <1>2 DEF Submit, AnnouncedOf, TypeOK
<1>3. CASE Begin(j)
  <2>1. UNCHANGED launched /\ pc'[j] # "launch"
    BY <1>3 DEF Begin, TypeOK
  <2>2. job'[j] = [job[j] EXCEPT !.state = "running"] /\ row'[j] \in {job'[j], row[j]}
    BY <1>3 DEF Begin, TypeOK
  <2>3. job'[j].output = job[j].output
    BY <1>0, <2>2 DEF Record
  <2>4. row'[j].output = job[j].output \/ row'[j].output = row[j].output
    BY <2>2, <2>3
  <2>5. QED BY <1>0, <2>1, <2>3, <2>4 DEF AnnouncedOf
<1>4. CASE Privilege(j)
  <2>1. UNCHANGED <<job, row, launched>> /\ pc'[j] # "launch"
    BY <1>4 DEF Privilege, AfterCommands, TypeOK
  <2>2. QED BY <1>0, <2>1 DEF AnnouncedOf
<1>5. CASE Announce(j)
  <2>1. UNCHANGED launched /\ pc[j] = "announce"
    BY <1>5 DEF Announce
  <2>2. /\ job'[j] = [job[j] EXCEPT !.output = @ + 1]
        /\ \/ row'[j] = job'[j] /\ pc'[j] = "launch"
           \/ row'[j] = row[j] /\ pc'[j] = "failed"
    BY <1>5 DEF Announce, TypeOK
  <2>3. job'[j].output = job[j].output + 1
    BY <1>0, <2>2 DEF Record
  <2>4. \/ row'[j].output = job[j].output + 1 /\ pc'[j] = "launch"
        \/ row'[j].output = row[j].output /\ pc'[j] = "failed"
    BY <2>2, <2>3
  <2>5. QED BY <1>0, <2>1, <2>3, <2>4 DEF ProgressOf, AnnouncedOf
<1>6. CASE Launch(j)
  <2>1. UNCHANGED <<job, row>> /\ pc[j] = "launch" /\ pc'[j] # "launch"
    BY <1>6 DEF Launch, TypeOK
  <2>2. launched'[j] \in {launched[j], launched[j] + 1}
    BY <1>6 DEF Launch, TypeOK
  <2>3. QED BY <1>0, <2>1, <2>2 DEF AnnouncedOf
<1>7. CASE Returns(j)
  <2>1. UNCHANGED <<row, launched>> /\ pc'[j] # "launch"
    BY <1>7 DEF Returns, TypeOK
  <2>2. job'[j] = job[j] \/ \E e \in {"zero", "nonzero"} : job'[j] = [job[j] EXCEPT !.exit_code = e]
    BY <1>7 DEF Returns, TypeOK
  <2>3. job'[j].output = job[j].output
    BY <1>0, <2>2 DEF Record
  <2>4. QED BY <1>0, <2>1, <2>3 DEF AnnouncedOf
<1>8. CASE Result(j)
  <2>1. UNCHANGED launched /\ pc'[j] # "launch" /\ job'[j] = job[j] /\ row'[j] \in {job[j], row[j]}
    BY <1>8 DEF Result, AfterCommands, TypeOK
  <2>2. QED BY <1>0, <2>1 DEF AnnouncedOf
<1>9. CASE Verify(j) \/ StrayEnds(j)
  BY <1>0, <1>9 DEF Verify, StrayEnds, AnnouncedOf, TypeOK
<1>10. CASE Succeed(j) \/ Fail(j)
  <2>1. UNCHANGED <<row, launched>> /\ pc'[j] # "launch"
    BY <1>10 DEF Succeed, Fail, TypeOK
  <2>2. \/ job'[j] = [job[j] EXCEPT !.state = "success", !.exit_code = "zero"]
        \/ job'[j] = [job[j] EXCEPT !.state = "failed"]
    BY <1>10 DEF Succeed, Fail, TypeOK
  <2>3. job'[j].output = job[j].output
    BY <1>0, <2>2 DEF Record
  <2>4. QED BY <1>0, <2>1, <2>3 DEF AnnouncedOf
<1>11. CASE Finally(j)
  <2>1. UNCHANGED launched /\ pc'[j] # "launch"
    BY <1>11 DEF Finally, TypeOK
  <2>2. job'[j] = [job[j] EXCEPT !.finished = TRUE] /\ row'[j] \in {job'[j], row[j]}
    BY <1>11 DEF Finally, TypeOK
  <2>3. job'[j].output = job[j].output
    BY <1>0, <2>2 DEF Record
  <2>4. row'[j].output = job[j].output \/ row'[j].output = row[j].output
    BY <2>2, <2>3
  <2>5. QED BY <1>0, <2>1, <2>3, <2>4 DEF AnnouncedOf
<1>12. QED
  BY <1>1, <1>2, <1>3, <1>4, <1>5, <1>6, <1>7, <1>8, <1>9, <1>10, <1>11 DEF Step

\* And for every job.
LEMMA AnnouncedStep == TypeOK /\ Progress /\ Announced /\ [Next]_vars => Announced'
<1> SUFFICES ASSUME TypeOK, Progress, Announced, [Next]_vars, NEW k \in Jobs PROVE AnnouncedOf(k)'
  BY DEF Announced
<1>1. ASSUME NEW j \in Jobs, StartJob(j) \/ Step(j) \/ StrayEnds(j) PROVE AnnouncedOf(k)'
  <2>1. CASE j = k
    BY <1>1, <2>1, OwnAnnounced
  <2>2. CASE j # k
    BY <1>1, <2>2, Frame DEF Announced, AnnouncedOf
  <2>3. QED BY <2>1, <2>2
<1>2. CASE Crash
  BY <1>2 DEF Crash, Announced, AnnouncedOf, TypeOK
<1>3. CASE UNCHANGED vars
  BY <1>3 DEF Announced, AnnouncedOf
<1>4. QED BY <1>1, <1>2, <1>3 DEF Next

-----------------------------------------------------------------------------
(* The audit log is ahead of the row.                                      *)

AuditInv == Audited /\ RowAgreesWithAudit

\* What Audited says of a job, with what it says of its row.
AuditInvOf(j) ==
  /\ AuditedOf(j)
  /\ row[j].state = "success" => "install_finished" \in audit[j]
  /\ row[j].state = "failed" /\ faults = 0 => "install_failed" \in audit[j]
  /\ ~ ({"install_finished", "install_failed"} \subseteq audit[j])

\* One step preserves it for the job that takes it.
LEMMA OwnAudited ==
  ASSUME TypeOK, Progress, AuditInv, NEW j \in Jobs, StartJob(j) \/ Step(j) \/ StrayEnds(j)
  PROVE  AuditInvOf(j)'
<1> USE DEF Goto, SaveJob, SaveFails, AuditLog, AuditFails
<1>0. /\ job[j] \in Record /\ row[j] \in Record /\ audit[j] \in SUBSET Event /\ faults \in Nat
      /\ ProgressOf(j) /\ AuditInvOf(j)
  BY ConstantsAssumption DEF TypeOK, Progress, AuditInv, AuditInvOf, Audited, RowAgreesWithAudit
<1>f. faults' = faults \/ faults' = faults + 1
  BY <1>0 DEF Step, StartJob, StrayEnds, Submit, Begin, Privilege, Announce, Launch, Returns,
              Result, Verify, Succeed, Fail, Finally
<1>1. CASE StartJob(j)
  BY <1>0, <1>1 DEF StartJob, ProgressOf, AuditedOf, AuditInvOf, NoJob, TypeOK
<1>2. CASE Submit(j)
  <2>1. UNCHANGED <<job, row>> /\ pc[j] = "requested" /\ pc'[j] \in {"queued", "over"}
    BY <1>2 DEF Submit, TypeOK
  <2>2. audit'[j] = audit[j] \/ audit'[j] = audit[j] \cup {"install_requested"}
    BY <1>2 DEF Submit, TypeOK
  <2>3. QED BY <1>0, <1>f, <2>1, <2>2 DEF ProgressOf, AuditedOf, AuditInvOf
<1>3. CASE Begin(j)
  <2>1. UNCHANGED audit /\ pc[j] = "queued" /\ pc'[j] # "finally"
    BY <1>3 DEF Begin, TypeOK
  <2>2. job'[j] = [job[j] EXCEPT !.state = "running"] /\ row'[j] \in {job'[j], row[j]}
    BY <1>3 DEF Begin, TypeOK
  <2>3. job'[j].state = "running"
    BY <1>0, <2>2 DEF Record
  <2>4. QED BY <1>0, <1>f, <2>1, <2>2, <2>3 DEF ProgressOf, AuditedOf, AuditInvOf
<1>4. CASE Privilege(j) \/ Launch(j) \/ Returns(j) \/ Verify(j)
  <2>1. UNCHANGED <<row, audit, faults>>
    BY <1>4 DEF Privilege, Launch, Returns, Verify
  <2>2. pc[j] \notin {"finally", "over"}
    BY <1>4 DEF Privilege, Launch, Returns, Verify
  <2>3. pc'[j] \notin {"finally", "over"}
    BY <1>4 DEF Privilege, Launch, Returns, Verify, AfterCommands, TypeOK
  <2>4. QED BY <1>0, <2>1, <2>2, <2>3 DEF AuditedOf, AuditInvOf
<1>5. CASE Announce(j)
  <2>1. UNCHANGED audit /\ pc[j] = "announce" /\ pc'[j] \in {"launch", "failed"}
    BY <1>5 DEF Announce, TypeOK
  <2>2. job'[j] = [job[j] EXCEPT !.output = @ + 1] /\ row'[j] \in {job'[j], row[j]}
    BY <1>5 DEF Announce, TypeOK
  <2>3. job'[j].state = job[j].state
    BY <1>0, <2>2 DEF Record
  <2>4. QED BY <1>0, <1>f, <2>1, <2>2, <2>3 DEF ProgressOf, AuditedOf, AuditInvOf
<1>6. CASE Result(j)
  <2>1. UNCHANGED audit /\ pc[j] = "result" /\ pc'[j] \notin {"finally", "over"}
    BY <1>6 DEF Result, AfterCommands, TypeOK
  <2>2. row'[j] \in {job[j], row[j]}
    BY <1>6 DEF Result, TypeOK
  <2>3. QED BY <1>0, <1>f, <2>1, <2>2 DEF ProgressOf, AuditedOf, AuditInvOf
<1>7. CASE Succeed(j)
  <2>1. UNCHANGED row /\ pc[j] = "success"
    BY <1>7 DEF Succeed
  <2>2. job'[j] = [job[j] EXCEPT !.state = "success", !.exit_code = "zero"]
    BY <1>7 DEF Succeed, TypeOK
  <2>3. \/ audit'[j] = audit[j] \cup {"install_finished"} /\ pc'[j] = "finally"
        \/ audit'[j] = audit[j] /\ pc'[j] = "failed"
    BY <1>7 DEF Succeed, TypeOK
  <2>4. job'[j].state = "success"
    BY <1>0, <2>2 DEF Record
  <2>5. QED BY <1>0, <1>f, <2>1, <2>3, <2>4 DEF ProgressOf, AuditedOf, AuditInvOf
<1>8. CASE Fail(j)
  <2>1. UNCHANGED row /\ pc[j] = "failed" /\ pc'[j] = "finally"
    BY <1>8 DEF Fail, TypeOK
  <2>2. job'[j] = [job[j] EXCEPT !.state = "failed"]
    BY <1>8 DEF Fail, TypeOK
  <2>3. \/ audit'[j] = audit[j] \cup {"install_failed"}
        \/ audit'[j] = audit[j] /\ faults' = faults + 1
    BY <1>8 DEF Fail, TypeOK
  <2>4. job'[j].state = "failed"
    BY <1>0, <2>2 DEF Record
  <2>5. QED BY <1>0, <1>f, <2>1, <2>3, <2>4 DEF ProgressOf, AuditedOf, AuditInvOf
<1>9. CASE Finally(j)
  <2>1. UNCHANGED audit /\ pc[j] = "finally" /\ pc'[j] = "over"
    BY <1>9 DEF Finally, TypeOK
  <2>2. job'[j] = [job[j] EXCEPT !.finished = TRUE] /\ row'[j] \in {job'[j], row[j]}
    BY <1>9 DEF Finally, TypeOK
  <2>3. job'[j].state = job[j].state
    BY <1>0, <2>2 DEF Record
  <2>4. row'[j].state = job[j].state \/ row'[j] = row[j]
    BY <2>2, <2>3
  <2>5. QED BY <1>0, <1>f, <2>1, <2>3, <2>4 DEF ProgressOf, AuditedOf, AuditInvOf
<1>10. CASE StrayEnds(j)
  BY <1>0, <1>10 DEF StrayEnds, AuditedOf, AuditInvOf
<1>11. QED
  BY <1>1, <1>2, <1>3, <1>4, <1>5, <1>6, <1>7, <1>8, <1>9, <1>10 DEF Step

\* And for every job.
LEMMA AuditStep == TypeOK /\ Progress /\ AuditInv /\ [Next]_vars => AuditInv'
<1> SUFFICES ASSUME TypeOK, Progress, AuditInv, [Next]_vars PROVE AuditInv'
  OBVIOUS
<1>0. faults \in Nat
  BY ConstantsAssumption DEF TypeOK
<1>1. ASSUME NEW k \in Jobs PROVE AuditInvOf(k)
  BY <1>1 DEF AuditInv, AuditInvOf, Audited, RowAgreesWithAudit
<1>2. ASSUME NEW k \in Jobs, NEW j \in Jobs, StartJob(j) \/ Step(j) \/ StrayEnds(j)
      PROVE  AuditInvOf(k)'
  <2>1. CASE j = k
    BY <1>2, <2>1, OwnAudited
  <2>2. CASE j # k
    <3>1. faults' = faults \/ faults' = faults + 1
      BY <1>0, <1>2 DEF Step, StartJob, StrayEnds, Submit, Begin, Privilege, Announce, Launch,
         Returns, Result, Verify, Succeed, Fail, Finally, SaveJob, SaveFails, AuditLog, AuditFails
    <3>2. QED BY <1>0, <1>1, <1>2, <2>2, <3>1, Frame DEF AuditInvOf, AuditedOf
  <2>3. QED BY <2>1, <2>2
<1>3. ASSUME NEW k \in Jobs, Crash PROVE AuditInvOf(k)'
  BY <1>1, <1>3 DEF Crash, AuditInvOf, AuditedOf, TypeOK
<1>4. ASSUME NEW k \in Jobs, UNCHANGED vars PROVE AuditInvOf(k)'
  BY <1>1, <1>4 DEF AuditInvOf, AuditedOf
<1>5. \A k \in Jobs : AuditInvOf(k)'
  BY <1>2, <1>3, <1>4 DEF Next
<1>6. QED BY <1>5 DEF AuditInv, AuditInvOf, Audited, RowAgreesWithAudit

-----------------------------------------------------------------------------
(* The theorems.                                                           *)

IInv == TypeOK /\ Progress

\* The invariant the others are relative to.
LEMMA Inductive == Spec => []IInv
<1>1. Init => IInv
  BY ConstantsAssumption, NoJobType
     DEF Init, IInv, TypeOK, Progress, ProgressOf, Place, Method, Request, NoRequest, NoJob
<1>2. IInv /\ [Next]_vars => IInv'
  BY TypeStep, ProgressStep DEF IInv
<1>3. QED BY <1>1, <1>2, PTL DEF Spec

\* Every variable keeps its type; in particular the output names no more commands
\* than the plan has.
THEOREM TypeCorrect == Spec => []TypeOK
<1>1. IInv => TypeOK
  BY DEF IInv
<1>2. QED BY Inductive, <1>1, PTL

\* A command that reached a VM is in the row of its job, whenever the process is
\* killed and whichever writes fail.
THEOREM CommandsInRow == Spec => []CommandsAreAnnounced
<1>1. Init => Announced
  BY DEF Init, Announced, AnnouncedOf, NoJob
<1>2. IInv /\ Announced /\ [Next]_vars => Announced'
  BY AnnouncedStep DEF IInv
<1>3. Announced => CommandsAreAnnounced
  BY DEF Announced, AnnouncedOf, CommandsAreAnnounced
<1>4. QED BY Inductive, <1>1, <1>2, <1>3, PTL DEF Spec

\* The rows and the audit log never contradict one another.
THEOREM RowsAgreeWithAudit == Spec => []RowAgreesWithAudit
<1>1. Init => AuditInv
  BY DEF Init, AuditInv, Audited, AuditedOf, RowAgreesWithAudit, NoJob
<1>2. IInv /\ AuditInv /\ [Next]_vars => AuditInv'
  BY AuditStep DEF IInv
<1>3. AuditInv => RowAgreesWithAudit
  BY DEF AuditInv
<1>4. QED BY Inductive, <1>1, <1>2, <1>3, PTL DEF Spec

\* A command is launched only when every command of the job before it has succeeded.
THEOREM StopsAtFailure == Spec => StopsAtTheFirstFailure
<1> DEFINE Stops == \A k \in Jobs :
             launched'[k] # launched[k] => passed[k] = launched[k] /\ ~remote[k]
<1>1. IInv /\ [Next]_vars => Stops
  <2> SUFFICES ASSUME IInv, [Next]_vars, NEW k \in Jobs, launched'[k] # launched[k]
               PROVE  passed[k] = launched[k] /\ ~remote[k]
    OBVIOUS
  <2>1. ASSUME NEW j \in Jobs, StartJob(j) \/ Step(j) \/ StrayEnds(j)
        PROVE  Launch(j) \/ UNCHANGED launched
    BY <2>1 DEF Step, StartJob, StrayEnds, Submit, Begin, Privilege, Announce, Returns, Result,
                Verify, Succeed, Fail, Finally
  <2>2. PICK j \in Jobs : Launch(j)
    BY <2>1 DEF Next, Crash
  <2>3. j = k
    BY <2>2, Frame DEF IInv, Step
  <2>4. pc[k] = "launch"
    BY <2>2, <2>3 DEF Launch
  <2>5. QED BY <2>4 DEF IInv, Progress, ProgressOf
<1>2. Stops <=> \A j \in Jobs :
                  launched'[j] # launched[j] => passed[j] = launched[j] /\ ~remote[j]
  OBVIOUS
<1>3. QED BY Inductive, <1>1, <1>2, PTL DEF Spec, StopsAtTheFirstFailure

\* The rows behave as the history their readers expect: queued, running, then one
\* final outcome, success only of a job all of whose items succeeded.
THEOREM RowsAreALedger == Spec => LedgerSpec
<1>1. Init => Ledger!Init
  BY DEF Init, Ledger!Init, Items, NoJob, NoRequest
<1>2. IInv /\ [Next]_vars => [Ledger!Next]_(Ledger!vars)
  <2> SUFFICES ASSUME IInv, [Next]_vars PROVE [Ledger!Next]_(Ledger!vars)
    OBVIOUS
  <2> USE DEF IInv, SaveJob, SaveFails
  <2>0. ASSUME NEW j \in Jobs
        PROVE  /\ job[j] \in Record /\ row[j] \in Record /\ request[j] \in Request
               /\ passed[j] \in Nat /\ ProgressOf(j)
    BY DEF TypeOK, Progress
  <2>1. ASSUME NEW j \in Jobs, StartJob(j) PROVE Ledger!Request(j)
    <3>1. UNCHANGED passed /\ row[j].state = "none"
      BY <2>1 DEF StartJob
    <3>2. row' = [row EXCEPT ![j] = [NoJob EXCEPT !.state = "queued"]]
      BY <2>1 DEF StartJob
    <3>3. [i \in Jobs |-> row[i].state]' = [[i \in Jobs |-> row[i].state] EXCEPT ![j] = "queued"]
      BY <3>2 DEF TypeOK, NoJob
    <3>4. PICK r \in Request : request' = [request EXCEPT ![j] = r]
      BY <2>1 DEF StartJob
    <3>5. [i \in Jobs |-> Items(i)]' = [[i \in Jobs |-> Items(i)] EXCEPT ![j] = Items(j)']
      BY <3>4 DEF TypeOK, Items
    <3>6. Items(j)' \in 0..(MaxPlan + 1)
      BY <3>4, ConstantsAssumption DEF TypeOK, Items, Request
    <3>7. QED BY <3>1, <3>3, <3>5, <3>6 DEF Ledger!Request, Ledger!Move
  <2>2. ASSUME NEW j \in Jobs, Begin(j) PROVE Ledger!Begin(j) \/ UNCHANGED Ledger!vars
    <3>1. UNCHANGED <<request, passed>> /\ row[j].state = "queued"
      BY <2>0, <2>2 DEF Begin, ProgressOf
    <3>2. UNCHANGED row \/ row' = [row EXCEPT ![j] = [job[j] EXCEPT !.state = "running"]]
      BY <2>2 DEF Begin
    <3>3. [job[j] EXCEPT !.state = "running"].state = "running"
      BY <2>0 DEF Record
    <3>4. \/ UNCHANGED row
          \/ [i \in Jobs |-> row[i].state]' = [[i \in Jobs |-> row[i].state] EXCEPT ![j] = "running"]
      BY <3>2, <3>3 DEF TypeOK
    <3>5. QED BY <3>1, <3>4 DEF Ledger!Begin, Ledger!Move, Ledger!vars, Items
  <2>3. ASSUME NEW j \in Jobs, Returns(j) PROVE Ledger!Work(j) \/ UNCHANGED Ledger!vars
    <3>1. UNCHANGED <<request, row>> /\ pc[j] = "wait"
      BY <2>3 DEF Returns
    <3>2. UNCHANGED passed \/ passed' = [passed EXCEPT ![j] = @ + 1]
      BY <2>3 DEF Returns, TypeOK
    <3>3. Items(j) \in {request[j].plan, request[j].plan + 1} /\ request[j].plan \in Nat
      BY <2>0 DEF Items, Request
    <3>4. row[j].state = "running" /\ passed[j] + 1 <= request[j].plan
      BY <2>0, <3>1 DEF ProgressOf
    <3>5. passed[j] < Items(j)
      BY <2>0, <3>3, <3>4
    <3>6. QED BY <3>1, <3>2, <3>4, <3>5 DEF Ledger!Work, Ledger!vars, Items
  <2>4. ASSUME NEW j \in Jobs, Verify(j) PROVE Ledger!Work(j) \/ UNCHANGED Ledger!vars
    <3>1. UNCHANGED <<request, row>> /\ pc[j] = "verify"
      BY <2>4 DEF Verify
    <3>2. UNCHANGED passed \/ passed' = [passed EXCEPT ![j] = @ + 1]
      BY <2>4 DEF Verify
    <3>3. row[j].state = "running" /\ passed[j] < Items(j)
      BY <2>0, <3>1 DEF ProgressOf, Items
    <3>4. QED BY <3>1, <3>2, <3>3 DEF Ledger!Work, Ledger!vars, Items
  <2>5. ASSUME NEW j \in Jobs, Finally(j)
        PROVE  Ledger!Succeed(j) \/ Ledger!Fail(j) \/ UNCHANGED Ledger!vars
    <3>1. UNCHANGED <<request, passed>> /\ row[j].state = "running"
      BY <2>0, <2>5 DEF Finally, ProgressOf
    <3>2. UNCHANGED row \/ row' = [row EXCEPT ![j] = [job[j] EXCEPT !.finished = TRUE]]
      BY <2>5 DEF Finally
    <3>3. [job[j] EXCEPT !.finished = TRUE].state = job[j].state
      BY <2>0 DEF Record
    <3>4. \/ UNCHANGED row
          \/ [i \in Jobs |-> row[i].state]'
               = [[i \in Jobs |-> row[i].state] EXCEPT ![j] = job[j].state]
      BY <3>2, <3>3 DEF TypeOK
    <3>5. job[j].state = "failed" \/ (job[j].state = "success" /\ passed[j] = Items(j))
      <4>1. pc[j] = "finally"
        BY <2>5 DEF Finally
      <4>2. job[j].state \in {"success", "failed"}
        BY <2>0, <4>1 DEF ProgressOf
      <4>3. job[j].state = "success" => passed[j] = Items(j)
        BY <2>0, <4>1 DEF ProgressOf
      <4>4. QED BY <4>2, <4>3
    <3>6. QED
      BY <3>1, <3>4, <3>5 DEF Ledger!Succeed, Ledger!Fail, Ledger!Move, Ledger!vars, Items
  <2>6. ASSUME NEW j \in Jobs, Announce(j) \/ Result(j)
        PROVE  UNCHANGED Ledger!vars
    <3>1. UNCHANGED <<request, passed>> /\ row[j].state = job[j].state
      BY <2>0, <2>6 DEF Announce, Result, ProgressOf
    <3>2. \/ UNCHANGED row
          \/ row' = [row EXCEPT ![j] = job[j]]
          \/ row' = [row EXCEPT ![j] = [job[j] EXCEPT !.output = @ + 1]]
      BY <2>6 DEF Announce, Result
    <3>3. [job[j] EXCEPT !.output = @ + 1].state = job[j].state
      BY <2>0 DEF Record
    <3>4. [i \in Jobs |-> row[i].state]' = [i \in Jobs |-> row[i].state]
      BY <3>1, <3>2, <3>3 DEF TypeOK
    <3>5. QED BY <3>1, <3>4 DEF Ledger!vars, Items
  <2>7. ASSUME NEW j \in Jobs,
               \/ Submit(j) \/ Privilege(j) \/ Launch(j) \/ Succeed(j) \/ Fail(j) \/ StrayEnds(j)
        PROVE  UNCHANGED Ledger!vars
    <3>1. UNCHANGED <<request, row, passed>>
      BY <2>7 DEF Submit, Privilege, Launch, Succeed, Fail, StrayEnds
    <3>2. QED BY <3>1 DEF Ledger!vars, Items
  <2>8. CASE Crash
    BY <2>8 DEF Crash, Ledger!vars, Items
  <2>9. CASE UNCHANGED vars
    BY <2>9 DEF Ledger!vars, Items
  <2>10. QED
    BY <2>1, <2>2, <2>3, <2>4, <2>5, <2>6, <2>7, <2>8, <2>9 DEF Next, Step, Ledger!Next
<1>3. QED BY Inductive, <1>1, <1>2, PTL DEF Spec, LedgerSpec, Ledger!Spec
=============================================================================
