-------------------------- MODULE ProxmoxTaskProofs --------------------------
(***************************************************************************)
(* What ProxmoxTask keeps for any number of operations, polls and faults:  *)
(* types; listeners that end with their requests; what an answer in flight *)
(* says of its task, which is what makes the reports true and the audit    *)
(* log agree with them; errors that are real where nothing was lost; and   *)
(* the panel, while no two operations are followed in it.                  *)
(***************************************************************************)
EXTENDS ProxmoxTask, TLAPS

(* How the coroutine of an operation, its request, its task and its report *)
(* relate.                                                                 *)

Replied(r) == step[r] \in {"served", "answered"}

\* The request in flight is the first one, the one that starts the task.
First(o) == follow[o] \in {"request", "ended"}

Progress(o) ==
  /\ follow[o] = "new" <=> what[o] = "none"
  /\ follow[o] = "new" => step[o] = "idle" /\ task[o] = "none"
  /\ follow[o] \in {"request", "poll"} => step[o] # "idle"
  /\ follow[o] = "sleep" => step[o] = "idle"
  /\ follow[o] \in {"sleep", "poll"} => what[o] \in Tasked /\ task[o] \in TaskStates
  /\ follow[o] = "refresh" => what[o] = "iso" /\ task[o] \in {"ok", "accepted", "unknown"}
  /\ First(o) /\ step[o] \in {"sent", "proxied"} /\ what[o] \in Changes => task[o] = "none"
  /\ report[o] # "none" <=> follow[o] = "ended"
  /\ follow[o] = "ended" /\ step[o] # "idle" => what[o] = "provision" /\ report[o] = "cancelled"

PageRefs ==
  /\ step[Canceller] # "idle" => target \in Ops
  /\ activeRequestController # None =>
       follow[activeRequestController] = "request" /\ InPanel(activeRequestController)

TypeInv == TypeOK /\ (\A o \in Ops : Progress(o)) /\ PageRefs

(* Listeners.                                                              *)

ListenersInv ==
  /\ \A r \in Requests : step[r] \in {"proxied", "served"} <=> listener[r] # "none"
  /\ leaked # {} => faults > 0 /\ session = "up"

(* What an answer says, and what is told of it.                            *)

AnswerOk(o) ==
  Replied(o) =>
    /\ First(o) /\ what[o] \in Changes =>
         /\ answer[o] \in {"error", "accepted", "upid"}
         /\ answer[o] = "accepted" => task[o] = "accepted"
         /\ answer[o] = "upid" => task[o] \in TaskStates
    /\ follow[o] = "poll" =>
         /\ answer[o] \in {"error"} \cup TaskStates
         /\ answer[o] \in TaskStates \ {"running"} => task[o] = answer[o]

AnswersInv == (\A o \in Ops : AnswerOk(o)) /\ DoneIsTrue

AuditInv ==
  /\ AuditAgrees
  /\ \A o \in Ops :
       /\ follow[o] \in {"sleep", "poll", "refresh"} => o \in audited
       /\ step[o] = "answered" /\ First(o) /\ what[o] \in Changes /\ answer[o] # "error" =>
            o \in audited

(* Errors, where nothing was lost.                                         *)

RightsOk ==
  /\ "status" \in rights /\ ("iso" \in rights => "options" \in rights)
  /\ \A o \in Ops :
       /\ step[o] = "proxied" /\ First(o) => what[o] \in rights
       /\ task[o] # "none" => what[o] \in rights

ErrorOk(o) ==
  Replied(o) /\ answer[o] = "error" =>
    /\ First(o) /\ what[o] \in Changes => task[o] = "none"
    /\ follow[o] = "poll" => elsewhere[o]
    /\ follow[o] # "refresh"

NothingLost == session = "up" /\ \A r \in Requests : listener[r] # "dead"

ErrorsInv ==
  /\ RightsOk /\ ErrorsAreReal
  /\ faults = 0 => NothingLost /\ \A o \in Ops : ErrorOk(o)

(* The panel, while no two operations are followed in it.                  *)

PanelOk ==
  /\ InPanel(panel) /\ follow[panel] # "new"
  /\ \A p \in Ops : Followed(p) => p = panel
  /\ \/ shown = IF follow[panel] = "ended" THEN report[panel] ELSE "busy"
     \/ shown \in Cancelling /\ clicked # {}
  /\ activeTask # None => activeTask = panel

PanelInv ==
  ~mixed =>
    /\ \A p, q \in Ops : Followed(p) /\ Followed(q) => p = q
    /\ panel # None => PanelOk
    /\ target # None => target \in clicked
    /\ asked \subseteq clicked

-----------------------------------------------------------------------------
(* Types.                                                                  *)

LEMMA ConstantFacts ==
  /\ Canceller \notin Ops /\ None \notin Ops /\ None # Canceller
  /\ MaxPolls \in Nat /\ MaxFaults \in Nat
BY ConstantsAssumption

\* What a request is for tells whose it is, and where its coroutine waits.
LEMMA AsksWhat ==
  ASSUME TypeInv, NEW r \in Requests
  PROVE  /\ r = Canceller => Asks(r) = "cancel"
         /\ r # Canceller => r \in Ops /\ Asks(r) \in Kinds \cup {"none", "status"}
         /\ Asks(r) = "status" => r \in Ops /\ follow[r] = "poll"
         /\ r \in Ops /\ follow[r] = "poll" => Asks(r) = "status"
         /\ r \in Ops /\ follow[r] = "refresh" => Asks(r) = "options"
         /\ r \in Ops /\ First(r) => Asks(r) = what[r]
         /\ Asks(r) \in Changes /\ step[r] # "idle" => r \in Ops /\ First(r)
         /\ Asks(r) = "options" => r \in Ops /\ (follow[r] = "refresh" \/ what[r] = "options")
<1> USE ConstantFacts DEF TypeInv, TypeOK, Kinds, Changes, Tasked, Reads
<1>1. CASE r = Canceller
  BY <1>1 DEF Asks
<1>2. CASE r # Canceller
  <2>1. r \in Ops
    BY <1>2 DEF Requests
  <2>2. CASE follow[r] = "poll"
    <3>1. Asks(r) = "status"
      BY <1>2, <2>2 DEF Asks
    <3> QED
      BY <1>2, <2>1, <2>2, <3>1 DEF First
  <2>3. CASE follow[r] = "refresh"
    <3>1. Asks(r) = "options"
      BY <1>2, <2>3 DEF Asks
    <3> QED
      BY <1>2, <2>1, <2>3, <3>1 DEF First
  <2>4. CASE follow[r] \notin {"poll", "refresh"}
    <3>1. Asks(r) = what[r]
      BY <1>2, <2>4 DEF Asks
    <3>2. follow[r] \in {"new", "sleep"} => step[r] = "idle"
      BY <2>1 DEF Progress
    <3> QED
      BY <1>2, <2>1, <2>4, <3>1, <3>2 DEF First
  <2> QED
    BY <2>2, <2>3, <2>4
<1> QED
  BY <1>1, <1>2

LEMMA InitTyped == Init => TypeInv
<1> SUFFICES ASSUME Init PROVE TypeInv
  OBVIOUS
<1>1. rights \subseteq Kinds \cup {"status", "cancel"}
  <2>1. PICK p \in Profile : rights = Rights(p)
    BY DEF Init
  <2> QED
    BY <2>1 DEF Rights, permissions_for, Kinds, Changes, Tasked, Reads
<1>2. 0 \in 0..MaxPolls /\ 0 \in 0..MaxFaults
  BY ConstantFacts
<1>3. answer \in [Requests -> Answers]
  BY DEF Init, Answers
<1>4. TypeOK
  BY <1>1, <1>2, <1>3 DEF Init, TypeOK
<1>5. (\A o \in Ops : Progress(o)) /\ PageRefs
  BY DEF Init, Progress, First, PageRefs, Requests
<1> QED
  BY <1>4, <1>5 DEF TypeInv

\* A request goes on; its task may only start as the first request is served.
LEMMA RequestTyped ==
  ASSUME TypeInv, NEW r \in Requests, step[r] # "idle",
         NEW next \in {"sent", "proxied", "served", "answered"}, Goto(r, next),
         next = "sent" => Asks(r) = "options", next = "proxied" => step[r] = "sent",
         \A o \in Ops :
           task'[o] = task[o] \/ /\ o = r /\ next = "served" /\ First(o)
                                 /\ what[o] \in Changes /\ task'[o] # "none",
         UNCHANGED <<follow, what, report, pageVars>>
  PROVE  /\ step' \in [Requests -> {"idle", "sent", "proxied", "served", "answered"}]
         /\ \A o \in Ops : Progress(o)'
         /\ PageRefs'
<1> USE DEF TypeInv, TypeOK, linkVars, panelVars
<1>1. step' \in [Requests -> {"idle", "sent", "proxied", "served", "answered"}]
  BY DEF Goto
<1>2. ASSUME NEW o \in Ops PROVE Progress(o)'
  <2>1. CASE o # r
    <3>1. step'[o] = step[o] /\ task'[o] = task[o]
      BY <2>1 DEF Goto, Requests
    <3> QED
      BY <3>1 DEF Progress, First
  <2>2. CASE o = r
    <3>1. step'[o] = next /\ step[o] # "idle"
      BY <2>2 DEF Goto
    <3>2. First(o) /\ next = "sent" => what[o] \notin Changes
      BY <2>2, AsksWhat DEF First, Changes, Tasked
    <3> QED
      BY <2>2, <3>1, <3>2 DEF Progress, First
  <2> QED
    BY <2>1, <2>2
<1>3. PageRefs'
  BY ConstantFacts DEF Goto, PageRefs, InPanel, pageVars, Requests
<1> QED
  BY <1>1, <1>2, <1>3

\* What Proxmox does: a task starts with the first request of its operation, and
\* the answer says so.
LEMMA EffectTyped ==
  ASSUME TypeInv, NEW r \in Requests, step[r] # "idle", Effect(r)
  PROVE  /\ task' \in [Ops -> {"none", "accepted"} \cup TaskStates]
         /\ asked' \subseteq Ops /\ answer' \in [Requests -> Answers]
         /\ \A q \in Requests : q # r => answer'[q] = answer[q]
         /\ \A o \in Ops :
              task'[o] = task[o] \/ /\ o = r /\ First(o) /\ what[o] \in Changes
                                    /\ task'[o] \in {"accepted", "running"}
         /\ r \in Ops /\ First(r) /\ what[r] \in Changes =>
              \/ answer'[r] = "accepted" /\ task'[r] = "accepted"
              \/ answer'[r] = "upid" /\ task'[r] = "running"
         /\ r \in Ops /\ follow[r] = "poll" => answer'[r] = task[r] /\ ~elsewhere[r]
         /\ answer'[r] # "error"
         /\ asked' = asked \/ (r = Canceller /\ asked' = asked \cup {target})
<1> USE DEF TypeInv, TypeOK, linkVars, panelVars
<1>1. CASE create_or_clone_vm(r) \/ download_iso(r) \/ power_action(r)
  <2>1. Asks(r) \in Changes /\ Change(r)
    BY <1>1 DEF create_or_clone_vm, download_iso, power_action, Changes, Tasked
  <2>2. r \in Ops /\ First(r) /\ what[r] \in Changes
    BY <2>1, AsksWhat
  <2>3. PICK s \in {"accepted", "running"} :
          /\ task' = [task EXCEPT ![r] = s]
          /\ answer' = [answer EXCEPT ![r] = IF s = "running" THEN "upid" ELSE s]
    BY <2>1 DEF Change
  <2>4. asked' = asked
    BY <2>1 DEF Change
  <2>5. /\ task' \in [Ops -> {"none", "accepted"} \cup TaskStates]
        /\ answer' \in [Requests -> Answers]
    BY <2>2, <2>3 DEF TaskStates, Answers
  <2> QED
    BY <2>2, <2>3, <2>4, <2>5 DEF First
<1>2. CASE list_vms(r) \/ node_options(r)
  <2>1. Asks(r) \in {"list", "options"} /\ Read(r)
    BY <1>2 DEF list_vms, node_options
  <2>2. UNCHANGED taskVars /\ answer' = [answer EXCEPT ![r] = "data"]
    BY <2>1 DEF Read
  <2>3. r \in Ops => ~(First(r) /\ what[r] \in Changes) /\ follow[r] # "poll"
    BY <2>1, AsksWhat DEF Changes, Tasked
  <2> QED
    BY <2>2, <2>3 DEF taskVars, Answers
<1>3. CASE task_status(r)
  <2>1. r \in Ops /\ follow[r] = "poll" /\ task[r] \in TaskStates
    BY <1>3, AsksWhat DEF task_status, Progress
  <2> QED
    BY <1>3, <2>1 DEF task_status, taskVars, TaskStates, Answers, First
<1>4. CASE cancel_task(r)
  <2>1. r = Canceller
    BY <1>4, AsksWhat DEF cancel_task, Kinds, Changes, Tasked, Reads
  <2>2. target \in Ops
    BY <2>1 DEF PageRefs
  <2> QED
    BY <1>4, <2>1, <2>2, ConstantFacts DEF cancel_task, Answers
<1> QED
  BY <1>1, <1>2, <1>3, <1>4 DEF Effect

\* Every step of the program keeps the types.
LEMMA ProgramTyped ==
  ASSUME TypeInv, NEW r \in Requests, Program(r) PROVE TypeInv'
<1> USE ConstantFacts DEF TypeInv, TypeOK, linkVars, panelVars
<1>1. CASE Refused(r)
  <2>1. answer' \in [Requests -> Answers]
    BY <1>1 DEF Refused, Answers
  <2> QED
    BY <1>1, <2>1, RequestTyped DEF Refused, taskVars, opVars, pageVars
<1>2. CASE Proxied(r)
  <2>1. listener' \in [Requests -> {"none", "open", "dead"}]
    BY <1>2 DEF Proxied
  <2> QED
    BY <1>2, <2>1, RequestTyped DEF Proxied, taskVars, opVars, pageVars
<1>8. CASE ProxiedTooLate(r)
  <2>1. answer' \in [Requests -> Answers] /\ faults' \in 0..MaxFaults /\ leaked' \subseteq Requests
    BY <1>8 DEF ProxiedTooLate, Fault, Answers
  <2> QED
    BY <1>8, <2>1, RequestTyped DEF ProxiedTooLate, taskVars, opVars, pageVars
<1>3. CASE Served(r)
  <2>1. Goto(r, "served") /\ step[r] # "idle" /\ Effect(r)
    BY <1>3 DEF Served
  <2>2. \A o \in Ops :
          task'[o] = task[o] \/ (o = r /\ First(o) /\ what[o] \in Changes /\ task'[o] # "none")
    BY <2>1, EffectTyped
  <2> QED
    BY <1>3, <2>1, <2>2, EffectTyped, RequestTyped DEF Served, opVars, pageVars
<1>4. CASE Declined(r)
  <2>1. answer' \in [Requests -> Answers] /\ faults' \in 0..MaxFaults
    BY <1>4 DEF Declined, Fault, Answers
  <2> QED
    BY <1>4, <2>1, RequestTyped DEF Declined, taskVars, opVars, pageVars
<1>5. CASE Unanswered(r)
  <2>1. r \in Ops /\ First(r) /\ what[r] \in Changes
    BY <1>5, AsksWhat DEF Unanswered
  <2>2. answer' \in [Requests -> Answers] /\ faults' \in 0..MaxFaults
    BY <1>5 DEF Unanswered, Fault, Answers
  <2>3. task' \in [Ops -> {"none", "accepted"} \cup TaskStates]
    <3>1. task' = [task EXCEPT ![r] = "running"]
      BY <1>5 DEF Unanswered
    <3> QED
      BY <3>1 DEF TaskStates
  <2>4. \A o \in Ops : task'[o] = task[o] \/ (o = r /\ task'[o] # "none")
    BY <1>5 DEF Unanswered
  <2> QED
    BY <1>5, <2>1, <2>2, <2>3, <2>4, RequestTyped DEF Unanswered, opVars, pageVars
<1>6. CASE Finished(r) \/ AuditFails(r)
  <2>1. PICK result \in Answers : Answered(r, result)
    BY <1>6 DEF Finished, AuditFails, Answers
  <2>2. faults' \in 0..MaxFaults
    BY <1>6 DEF Finished, AuditFails, Fault
  <2>3. audited' \subseteq Ops
    BY <1>6, AsksWhat DEF Finished, AuditFails, Logs
  <2>4. answer' \in [Requests -> Answers] /\ listener' \in [Requests -> {"none", "open", "dead"}]
    BY <2>1 DEF Answered, Closed
  <2> QED
    BY <1>6, <2>1, <2>2, <2>3, <2>4, RequestTyped
       DEF Finished, AuditFails, Answered, taskVars, opVars, pageVars
<1>7. CASE r \in Ops /\ NextRead(r)
  <2>1. polls' \in [Ops -> 0..MaxPolls] /\ listener' \in [Requests -> {"none", "open", "dead"}]
    BY <1>7 DEF NextRead, Closed
  <2> QED
    BY <1>7, <2>1, RequestTyped DEF NextRead, taskVars, pageVars
<1> QED
  BY <1>1, <1>2, <1>3, <1>4, <1>5, <1>6, <1>7, <1>8 DEF Program

-----------------------------------------------------------------------------
(* What a step of the page does to an operation.                           *)

\* Its task runs, and is asked about later.
Sleeps(o) ==
  /\ step[o] = "answered" /\ step'[o] = "idle" /\ follow'[o] = "sleep"
  /\ \/ follow[o] = "request" /\ answer[o] = "upid" /\ what[o] \in Tasked
     \/ follow[o] = "poll" /\ answer[o] = "running" /\ activeTask' = activeTask
  /\ shown' = IF InPanel(o) /\ panel # None THEN "busy" ELSE shown
  /\ UNCHANGED report

\* The request or the task went well, as far as it is followed.
WentWell(o) ==
  /\ step[o] = "answered"
  /\ \/ follow[o] = "request" /\ answer[o] # "error" /\ ~(answer[o] = "upid" /\ what[o] \in Tasked)
     \/ follow[o] = "poll" /\ (answer[o] = "ok" \/ (answer[o] = "unknown" /\ ~InPanel(o)))

Rereads(o) ==
  /\ WentWell(o) /\ what[o] = "iso"
  /\ step'[o] = "idle" /\ follow'[o] = "refresh"
  /\ UNCHANGED <<report, shown, activeTask>>

\* The answer is an error, or tells of a task that did not go well.
Erred(o) ==
  /\ step[o] = "answered"
  /\ \/ answer[o] = "error"
     \/ follow[o] = "poll" /\ answer[o] \in {"failed", "stopped", "warned"}
     \/ follow[o] = "poll" /\ answer[o] = "unknown" /\ InPanel(o)

\* It is over, and the user is told.
Ends(o, kind) ==
  /\ follow[o] \notin {"new", "ended"} /\ follow'[o] = "ended" /\ elsewhere'[o] = elsewhere[o]
  /\ report'[o] = kind /\ step[o] \in {"idle", "answered"} /\ step'[o] = "idle"
  /\ shown' = IF InPanel(o) /\ panel # None THEN kind ELSE shown
  /\ kind = "done" =>
       \/ WentWell(o) /\ what[o] # "iso"
       \/ follow[o] = "refresh" /\ step[o] = "answered" /\ answer[o] # "error"
  /\ kind = "error" => Erred(o) \/ (follow[o] = "sleep" /\ polls'[o] = MaxPolls) \/ o \in tripped'
  /\ activeTask' = activeTask
       \/ (kind = "done" /\ follow[o] = "request" /\ InPanel(o) /\ activeTask' = o)

Forgets(o) ==
  /\ follow[o] = "ended" /\ follow'[o] = "ended"
  /\ step[o] = "answered" /\ step'[o] = "idle"
  /\ UNCHANGED <<report, shown, activeTask>>

Sends(o) ==
  /\ step[o] = "idle" /\ step'[o] = "sent"
  /\ \/ follow[o] = "sleep" /\ follow'[o] = "poll"
     \/ follow[o] = "refresh" /\ follow'[o] = "refresh"
  /\ UNCHANGED <<report, shown, activeTask, answer>>

PageStep(o) ==
  /\ Sleeps(o) \/ Rereads(o) \/ (\E kind \in Outcomes : Ends(o, kind))
     \/ Forgets(o) \/ Sends(o)
  /\ \A p \in Ops : p # o => /\ follow'[p] = follow[p] /\ report'[p] = report[p]
                            /\ polls'[p] = polls[p] /\ elsewhere'[p] = elsewhere[p]
  /\ tripped \subseteq tripped'
  /\ \A r \in Requests : r # o => step'[r] = step[r] /\ answer'[r] = answer[r]
  /\ activeTask' = activeTask \/ (activeTask' = o /\ follow[o] = "request" /\ InPanel(o))
  /\ activeRequestController' \in {activeRequestController, None}
  /\ activeRequestController' # o
  /\ UNCHANGED <<linkVars, listener, audited, faults, taskVars, what,
                 panel, button, target, from, clicked, mixed>>

PageTypes ==
  /\ step' \in [Requests -> {"idle", "sent", "proxied", "served", "answered"}]
  /\ answer' \in [Requests -> Answers]
  /\ follow' \in [Ops -> {"new", "request", "sleep", "poll", "refresh", "ended"}]
  /\ polls' \in [Ops -> 0..MaxPolls] /\ report' \in [Ops -> Outcomes \cup {"none"}]
  /\ shown' \in Outcomes \cup Cancelling \cup {"busy"}
  /\ elsewhere' \in [Ops -> BOOLEAN] /\ tripped' \subseteq Ops /\ hidden' \in BOOLEAN

\* The end of an operation, or of all but the last reading of a download.
LEMMA SettledEnds ==
  ASSUME TypeInv, NEW o \in Ops, NEW kind \in Outcomes, Settled(o, kind)
  PROVE  /\ follow' \in [Ops -> {"new", "request", "sleep", "poll", "refresh", "ended"}]
         /\ polls' \in [Ops -> 0..MaxPolls] /\ report' \in [Ops -> Outcomes \cup {"none"}]
         /\ \A p \in Ops : p # o => /\ follow'[p] = follow[p] /\ report'[p] = report[p]
                                   /\ polls'[p] = polls[p]
         /\ IF what[o] = "iso" /\ kind = "done"
            THEN follow'[o] = "refresh" /\ report' = report
            ELSE follow'[o] = "ended" /\ report'[o] = kind
BY ConstantFacts DEF TypeInv, TypeOK, Settled, End

LEMMA EndEnds ==
  ASSUME TypeInv, NEW o \in Ops, NEW kind \in Outcomes, End(o, kind)
  PROVE  /\ follow' \in [Ops -> {"new", "request", "sleep", "poll", "refresh", "ended"}]
         /\ polls' \in [Ops -> 0..MaxPolls] /\ report' \in [Ops -> Outcomes \cup {"none"}]
         /\ \A p \in Ops : p # o => /\ follow'[p] = follow[p] /\ report'[p] = report[p]
                                   /\ polls'[p] = polls[p]
         /\ follow'[o] = "ended" /\ report'[o] = kind
BY ConstantFacts DEF TypeInv, TypeOK, End

LEMMA TakesTyped ==
  ASSUME TypeInv, NEW o \in Ops, Takes(o)
  PROVE  /\ step' \in [Requests -> {"idle", "sent", "proxied", "served", "answered"}]
         /\ answer' \in [Requests -> Answers]
         /\ step[o] = "answered" /\ step'[o] = "idle"
         /\ \A r \in Requests : r # o => step'[r] = step[r] /\ answer'[r] = answer[r]
         /\ UNCHANGED <<linkVars, listener, audited, faults, taskVars, what,
                        panel, button, target, from, clicked, mixed>>
BY DEF TypeInv, TypeOK, Takes, Goto, Requests, Answers

\* The controller is that of a request whose operation has a panel.
LEMMA ControllerFact ==
  ASSUME TypeInv, NEW o \in Ops, activeRequestController = o
  PROVE  follow[o] = "request" /\ InPanel(o)
BY ConstantFacts DEF TypeInv, PageRefs

LEMMA PageDoes ==
  ASSUME TypeInv, NEW o \in Ops, AnswerOk(o), Page(o)
  PROVE  PageStep(o) /\ PageTypes
<1> USE ConstantFacts DEF TypeInv, TypeOK, linkVars, panelVars, UpdateOperation, FinishOperation,
                          KeepPanel
<1> DEFINE Told == Outcomes
<1>0. InPanel(o) => what[o] \in Tasked /\ what[o] # "iso"
  BY DEF InPanel, Tasked
<1>1. CASE ResponseTaken(o)
  <2> DEFINE over == IF answer[o] = "error" THEN "error" ELSE "done"
  <2>1. follow[o] = "request" /\ Takes(o) /\ tripped' = tripped
    BY <1>1 DEF ResponseTaken
  <2>2. /\ activeRequestController' \in {activeRequestController, None}
        /\ activeRequestController' # o
    BY <1>1, ControllerFact DEF ResponseTaken
  <2>3. activeTask' = activeTask \/ (activeTask' = o /\ answer[o] = "upid" /\ InPanel(o))
    BY <1>1 DEF ResponseTaken
  <2>4. CASE answer[o] = "upid" /\ what[o] \in Tasked
    <3>1. /\ follow' = [follow EXCEPT ![o] = "sleep"] /\ UNCHANGED <<polls, report>>
          /\ shown' = IF InPanel(o) /\ panel # None THEN "busy" ELSE shown
          /\ hidden' \in BOOLEAN
      BY <1>1, <2>4 DEF ResponseTaken
    <3>2. PICK e \in BOOLEAN : elsewhere' = [elsewhere EXCEPT ![o] = e]
      BY <1>1, <2>4 DEF ResponseTaken
    <3>3. Sleeps(o)
      BY <2>1, <2>4, <3>1, TakesTyped DEF Sleeps
    <3>4. shown' \in Outcomes \cup Cancelling \cup {"busy"}
      BY <3>1
    <3> QED
      BY <2>1, <2>2, <2>3, <3>1, <3>2, <3>3, <3>4, TakesTyped DEF PageStep, PageTypes
  <2>5. CASE ~(answer[o] = "upid" /\ what[o] \in Tasked)
    <3>1. Settled(o, over) /\ over \in Told /\ elsewhere' = elsewhere
      BY <1>1, <2>5 DEF ResponseTaken, Outcomes
    <3>2. /\ shown' = IF InPanel(o) /\ panel # None THEN over ELSE shown
          /\ hidden' \in BOOLEAN
      BY <1>1, <2>5 DEF ResponseTaken
    <3>3. shown' \in Outcomes \cup Cancelling \cup {"busy"}
      BY <3>1, <3>2
    <3>5. over = "done" => WentWell(o)
      BY <2>1, <2>5, TakesTyped DEF WentWell
    <3>6. CASE what[o] = "iso" /\ over = "done"
      <4>1. follow'[o] = "refresh" /\ report' = report
        BY <3>1, <3>6, SettledEnds
      <4>2. Rereads(o)
        BY <1>0, <2>1, <2>3, <3>2, <3>5, <3>6, <4>1, TakesTyped DEF Rereads
      <4> QED
        BY <2>1, <2>2, <2>3, <3>1, <3>2, <3>3, <4>2, SettledEnds, TakesTyped DEF PageStep, PageTypes
    <3>7. CASE ~(what[o] = "iso" /\ over = "done")
      <4>1. follow'[o] = "ended" /\ report'[o] = over
        BY <3>1, <3>7, SettledEnds
      <4>2. Ends(o, over)
        <5>1. over = "error" => Erred(o)
          BY <2>1, TakesTyped DEF Erred
        <5>2. activeTask' = activeTask \/ (over = "done" /\ InPanel(o) /\ activeTask' = o)
          BY <2>3
        <5> QED
          BY <2>1, <3>1, <3>2, <3>5, <3>7, <4>1, <5>1, <5>2, TakesTyped DEF Ends
      <4> QED
        BY <2>1, <2>2, <2>3, <3>1, <3>2, <3>3, <4>2, SettledEnds, TakesTyped DEF PageStep, PageTypes
    <3> QED
      BY <3>6, <3>7
  <2> QED
    BY <2>4, <2>5
<1>2. CASE Unheard(o)
  <2>1. follow[o] = "ended" /\ Takes(o)
        /\ UNCHANGED <<elsewhere, follow, polls, report, tripped, shown, hidden, activeTask,
                       activeRequestController>>
    BY <1>2 DEF Unheard
  <2>2. Forgets(o)
    BY <2>1, TakesTyped DEF Forgets
  <2> QED
    BY <2>1, <2>2, TakesTyped, ControllerFact DEF PageStep, PageTypes
<1>3. CASE Poll(o)
  <2>1. Sends(o)
    BY <1>3 DEF Poll, Goto, Sends, Requests, Progress, opVars, pageVars
  <2>2. polls' \in [Ops -> 0..MaxPolls] /\ \A p \in Ops : p # o => polls'[p] = polls[p]
    BY <1>3 DEF Poll
  <2> QED
    BY <1>3, <2>1, <2>2, ControllerFact DEF Poll, Goto, PageStep, PageTypes, Requests, pageVars
<1>4. CASE Refresh(o)
  <2>1. Sends(o)
    BY <1>4 DEF Refresh, Goto, Sends, Requests, opVars, pageVars
  <2> QED
    BY <1>4, <2>1, ControllerFact DEF Refresh, Goto, PageStep, PageTypes, Requests, opVars, pageVars
<1>5. CASE GiveUp(o)
  <2>1. /\ follow[o] = "sleep" /\ polls[o] = MaxPolls
        /\ follow' = [follow EXCEPT ![o] = "ended"] /\ report' = [report EXCEPT ![o] = "error"]
        /\ UNCHANGED <<linkVars, step, listener, answer, audited, faults, taskVars, what,
                       elsewhere, polls, tripped, panel, button, activeTask,
                       activeRequestController, target, from, clicked, mixed>>
    BY <1>5 DEF GiveUp, serverVars
  <2>2. /\ shown' = IF InPanel(o) /\ panel # None THEN "error" ELSE shown
        /\ hidden' \in BOOLEAN
    BY <1>5 DEF GiveUp
  <2>3. Ends(o, "error")
    BY <2>1, <2>2 DEF Ends, Progress
  <2>4. /\ shown' \in Outcomes \cup Cancelling \cup {"busy"}
        /\ report' \in [Ops -> Outcomes \cup {"none"}] /\ "error" \in Outcomes
    BY <2>1, <2>2 DEF Outcomes
  <2> QED
    BY <2>1, <2>2, <2>3, <2>4, ControllerFact DEF PageStep, PageTypes
<1>6. CASE PollTaken(o)
  <2>1. follow[o] = "poll" /\ Takes(o) /\ activeTask' = activeTask
        /\ elsewhere' = elsewhere /\ tripped' = tripped
    BY <1>6 DEF PollTaken
  <2>2. /\ activeRequestController' \in {activeRequestController, None}
        /\ activeRequestController' # o
    BY <1>6, <2>1, ControllerFact DEF PollTaken
  <2>3. CASE answer[o] = "running"
    <3>1. /\ follow' = [follow EXCEPT ![o] = "sleep"] /\ UNCHANGED <<polls, report>>
          /\ shown' = IF InPanel(o) /\ panel # None THEN "busy" ELSE shown
          /\ hidden' = hidden
      BY <1>6, <2>3 DEF PollTaken
    <3>2. Sleeps(o)
      BY <2>1, <2>3, <3>1, TakesTyped DEF Sleeps
    <3>3. shown' \in Outcomes \cup Cancelling \cup {"busy"}
      BY <3>1
    <3> QED
      BY <2>1, <2>2, <3>1, <3>2, <3>3, TakesTyped DEF PageStep, PageTypes
  <2>4. CASE answer[o] # "running"
    <3> DEFINE kind == Outcome(o)
    <3>1. kind \in Outcomes
      BY DEF Outcome, Outcomes
    <3>2. Settled(o, kind)
      BY <1>6, <2>4 DEF PollTaken
    <3>3. shown' = (IF InPanel(o) /\ panel # None THEN kind ELSE shown) /\ hidden' \in BOOLEAN
      BY <1>6, <2>4 DEF PollTaken
    <3>4. shown' \in Outcomes \cup Cancelling \cup {"busy"}
      BY <3>1, <3>3
    <3>5. kind = "done" => WentWell(o)
      <4>1. kind = "done" => answer[o] = "ok" \/ (answer[o] = "unknown" /\ ~InPanel(o))
        BY DEF Outcome
      <4> QED
        BY <2>1, <4>1, TakesTyped DEF WentWell
    <3>8. kind = "error" => Erred(o)
      <4>1. step[o] = "answered" /\ answer[o] \in {"error"} \cup TaskStates
        BY <2>1, TakesTyped DEF AnswerOk, Replied
      <4>2. kind = "error" => /\ answer[o] # "ok"
                              /\ ~(answer[o] = "unknown" /\ ~InPanel(o))
        BY DEF Outcome
      <4> QED
        BY <2>1, <2>4, <4>1, <4>2 DEF Erred, TaskStates
    <3> HIDE DEF kind
    <3>6. CASE what[o] = "iso" /\ kind = "done"
      <4>1. follow'[o] = "refresh" /\ report' = report
        BY <3>1, <3>2, <3>6, SettledEnds
      <4>2. Rereads(o)
        BY <1>0, <2>1, <3>3, <3>5, <3>6, <4>1, TakesTyped DEF Rereads
      <4> QED
        BY <2>1, <2>2, <3>1, <3>2, <3>3, <3>4, <4>2, SettledEnds, TakesTyped DEF PageStep, PageTypes
    <3>7. CASE ~(what[o] = "iso" /\ kind = "done")
      <4>1. follow'[o] = "ended" /\ report'[o] = kind
        BY <3>1, <3>2, <3>7, SettledEnds
      <4>2. Ends(o, kind)
        BY <2>1, <3>1, <3>3, <3>5, <3>7, <3>8, <4>1, TakesTyped DEF Ends
      <4> QED
        BY <2>1, <2>2, <3>1, <3>2, <3>3, <3>4, <4>2, SettledEnds, TakesTyped DEF PageStep, PageTypes
    <3> QED
      BY <3>6, <3>7
  <2> QED
    BY <2>3, <2>4
<1>7. CASE RefreshTaken(o)
  <2> DEFINE kind == IF answer[o] = "error" THEN "error" ELSE "done"
  <2>1. /\ follow[o] = "refresh" /\ Takes(o) /\ End(o, kind) /\ kind \in Told
        /\ UNCHANGED <<elsewhere, tripped, shown, hidden, activeTask, activeRequestController>>
    BY <1>7 DEF RefreshTaken, Outcomes
  <2>2. ~InPanel(o)
    BY <2>1 DEF Progress, InPanel
  <2>3. Ends(o, kind)
    BY <2>1, <2>2, EndEnds, TakesTyped DEF Ends, Erred
  <2> QED
    BY <2>1, <2>3, EndEnds, TakesTyped, ControllerFact DEF PageStep, PageTypes
<1>8. CASE FormGone(o)
  <2>1. /\ what[o] = "iso" /\ follow[o] \in {"request", "poll", "refresh"}
        /\ Takes(o) /\ End(o, "error") /\ tripped' = tripped \cup {o} /\ "error" \in Told
        /\ UNCHANGED <<elsewhere, shown, hidden, activeTask, activeRequestController>>
    BY <1>8 DEF FormGone, Outcomes
  <2>2. Ends(o, "error")
    BY <1>0, <2>1, EndEnds, TakesTyped DEF Ends
  <2>3. activeRequestController # o
    BY <1>0, <2>1, ControllerFact
  <2> QED
    BY <2>1, <2>2, <2>3, EndEnds, TakesTyped DEF PageStep, PageTypes
<1> QED
  BY <1>1, <1>2, <1>3, <1>4, <1>5, <1>6, <1>7, <1>8 DEF Page

LEMMA PageTyped ==
  ASSUME TypeInv, NEW o \in Ops, AnswerOk(o), Page(o) PROVE TypeInv'
<1> USE DEF TypeInv, TypeOK, linkVars, panelVars
<1>1. PageStep(o) /\ PageTypes
  BY PageDoes
<1>2. TypeOK'
  <2>1. activeTask' \in Ops \cup {None} /\ activeRequestController' \in Ops \cup {None}
    BY <1>1 DEF PageStep
  <2> QED
    BY <1>1, <2>1 DEF PageStep, PageTypes, taskVars
<1>3. ASSUME NEW p \in Ops PROVE Progress(p)'
  <2>1. what'[p] = what[p] /\ task'[p] = task[p]
    BY <1>1 DEF PageStep, taskVars
  <2>2. CASE p # o
    BY <1>1, <2>1, <2>2 DEF PageStep, Progress, First, Requests
  <2>3. CASE p = o
    <3> USE <2>1, <2>3
    <3>1. CASE Sleeps(o)
      BY <3>1 DEF Sleeps, Progress, First, AnswerOk, Replied, Changes
    <3>2. CASE Rereads(o)
      <4>1. step'[o] = "idle" /\ follow'[o] = "refresh" /\ report' = report /\ what[o] = "iso"
        BY <3>2 DEF Rereads
      <4>2. report[o] = "none"
        BY <3>2 DEF Rereads, WentWell, Progress
      <4>3. CASE follow[o] = "request"
        BY <3>2, <4>1, <4>2, <4>3 DEF Rereads, WentWell, Progress, First, AnswerOk, Replied, Changes,
                                      Tasked
      <4>4. CASE follow[o] = "poll"
        <5>1. task[o] \in {"ok", "unknown"}
          BY <3>2, <4>4 DEF Rereads, WentWell, AnswerOk, Replied, TaskStates
        <5> QED
          BY <4>1, <4>2, <5>1 DEF Progress, First
      <4> QED
        BY <3>2, <4>3, <4>4 DEF Rereads, WentWell
    <3>3. CASE \E kind \in Outcomes : Ends(o, kind)
      BY <3>3 DEF Ends, Progress, First, Outcomes
    <3>4. CASE Forgets(o) \/ Sends(o)
      BY <3>4 DEF Forgets, Sends, Progress, First
    <3> QED
      BY <1>1, <3>1, <3>2, <3>3, <3>4 DEF PageStep
  <2> QED
    BY <2>2, <2>3
<1>4. PageRefs'
  BY <1>1, ConstantFacts DEF PageStep, PageRefs, InPanel, Requests
<1> QED
  BY <1>2, <1>3, <1>4

LEMMA BeginTyped ==
  ASSUME TypeInv, NEW o \in Ops, Begin(o) PROVE TypeInv'
<1> USE DEF TypeInv, TypeOK, linkVars, panelVars
<1>1. PICK k \in Kinds :
        /\ what' = [what EXCEPT ![o] = k]
        /\ IF k = "provision"
           THEN BeginOperation(o) /\ mixed' = (mixed \/ \E p \in Ops : Followed(p))
           ELSE UNCHANGED <<panelVars, activeRequestController, activeTask, mixed>>
  BY DEF Begin
<1>2. /\ panel' \in Ops \cup {None} /\ shown' \in Outcomes \cup Cancelling \cup {"busy"}
      /\ button' \in {"ready", "busy"} /\ hidden' \in BOOLEAN /\ mixed' \in BOOLEAN
      /\ activeTask' \in Ops \cup {None} /\ activeRequestController' \in Ops \cup {None}
  <2>1. (mixed \/ \E p \in Ops : Followed(p)) \in BOOLEAN
    OBVIOUS
  <2> QED
    BY <1>1, <2>1 DEF BeginOperation, NewPanel
<1>3. /\ what' \in [Ops -> Kinds \cup {"none"}]
      /\ follow' = [follow EXCEPT ![o] = "request"] /\ step' = [step EXCEPT ![o] = "sent"]
      /\ follow[o] = "new" /\ UNCHANGED <<task, asked, report, target>>
  BY <1>1 DEF Begin, Goto, taskVars
<1>4. TypeOK'
  BY <1>2, <1>3 DEF Begin, taskVars, Requests
<1>5. ASSUME NEW p \in Ops PROVE Progress(p)'
  <2>1. CASE p # o
    <3>1. what'[p] = what[p]
      BY <1>1, <2>1
    <3> QED
      BY <1>3, <2>1, <3>1 DEF Progress, First, Requests
  <2>2. CASE p = o
    <3>1. what'[p] = k
      BY <1>1, <2>2
    <3>2. k # "none"
      BY DEF Kinds, Changes, Tasked, Reads
    <3> QED
      BY <1>3, <2>2, <3>1, <3>2 DEF Progress, First, Requests
  <2> QED
    BY <2>1, <2>2
<1>6. PageRefs'
  <2>1. step'[Canceller] = step[Canceller]
    BY <1>3, ConstantFacts DEF Requests
  <2>2. CASE k = "provision"
    BY <1>1, <1>3, <2>1, <2>2, ConstantFacts DEF PageRefs, BeginOperation, NewPanel, InPanel
  <2>3. CASE k # "provision"
    <3>1. activeRequestController' = activeRequestController /\ activeRequestController # o
      BY <1>1, <1>3, <2>3, ControllerFact
    <3> QED
      BY <1>1, <1>3, <2>1, <3>1, ConstantFacts DEF PageRefs, InPanel
  <2> QED
    BY <2>2, <2>3
<1> QED
  BY <1>4, <1>5, <1>6

\* What aborting does: nothing, or the active request is not waited for any more.
LEMMA AbortDoes ==
  ASSUME TypeInv, AbortRequest
  PROVE  /\ UNCHANGED <<linkVars, step, listener, answer, audited, faults, task, asked,
                        what, elsewhere, tripped, panel, activeTask, target, from, mixed>>
         /\ panel # None /\ clicked' = clicked \cup {panel}
         /\ button' = "busy" /\ hidden' \in BOOLEAN /\ activeRequestController' = None
         /\ follow' \in [Ops -> {"new", "request", "sleep", "poll", "refresh", "ended"}]
         /\ polls' \in [Ops -> 0..MaxPolls] /\ report' \in [Ops -> Outcomes \cup {"none"}]
         /\ \/ UNCHANGED <<follow, report, polls, shown>>
            \/ \E o \in Ops :
                 /\ follow[o] = "request" /\ InPanel(o) /\ step[o] # "idle"
                 /\ follow'[o] = "ended" /\ report'[o] = "cancelled" /\ shown' = "cancelled"
                 /\ \A p \in Ops : p # o => /\ follow'[p] = follow[p] /\ report'[p] = report[p]
                                           /\ polls'[p] = polls[p]
<1> USE DEF TypeInv, TypeOK, linkVars, panelVars
<1>1. /\ UNCHANGED <<linkVars, step, listener, answer, audited, faults, task, asked,
                     what, elsewhere, tripped, panel, activeTask, target, from, mixed>>
      /\ panel # None /\ clicked' = clicked \cup {panel} /\ button' = "busy"
  BY DEF AbortRequest, CanClick, serverVars, taskVars
<1>2. CASE activeRequestController = None
  BY <1>1, <1>2 DEF AbortRequest, KeepPanel
<1>3. CASE activeRequestController # None
  <2> DEFINE o == activeRequestController
  <2>1. o \in Ops /\ follow[o] = "request" /\ InPanel(o) /\ step[o] # "idle"
    BY <1>3, ControllerFact DEF Progress
  <2>2. /\ End(o, "cancelled") /\ activeRequestController' = None /\ shown' = "cancelled"
        /\ hidden' \in BOOLEAN /\ "cancelled" \in Outcomes
    BY <1>1, <1>3 DEF AbortRequest, Aborted, FinishOperation, UpdateOperation, Outcomes
  <2> HIDE DEF o
  <2>3. /\ follow' \in [Ops -> {"new", "request", "sleep", "poll", "refresh", "ended"}]
        /\ polls' \in [Ops -> 0..MaxPolls] /\ report' \in [Ops -> Outcomes \cup {"none"}]
        /\ \A p \in Ops : p # o => /\ follow'[p] = follow[p] /\ report'[p] = report[p]
                                  /\ polls'[p] = polls[p]
        /\ follow'[o] = "ended" /\ report'[o] = "cancelled"
    BY <2>1, <2>2, EndEnds
  <2> QED
    BY <1>1, <2>1, <2>2, <2>3
<1> QED
  BY <1>2, <1>3

LEMMA AbortTyped ==
  ASSUME TypeInv, AbortRequest PROVE TypeInv'
<1> USE DEF TypeInv, TypeOK, linkVars, panelVars
<1>1. TypeOK'
  <2>1. clicked' \subseteq Ops /\ button' \in {"ready", "busy"} /\ activeRequestController' \in Ops \cup {None}
        /\ shown' \in Outcomes \cup Cancelling \cup {"busy"}
    BY AbortDoes DEF Outcomes
  <2> QED
    BY <2>1, AbortDoes
<1>2. ASSUME NEW p \in Ops PROVE Progress(p)'
  <2>1. UNCHANGED <<step, task, what>>
    BY AbortDoes
  <2>2. CASE UNCHANGED <<follow, report>>
    BY <2>1, <2>2 DEF Progress, First
  <2>3. ASSUME NEW o \in Ops, follow[o] = "request", InPanel(o), step[o] # "idle",
               follow'[o] = "ended", report'[o] = "cancelled",
               \A q \in Ops : q # o => follow'[q] = follow[q] /\ report'[q] = report[q]
        PROVE  Progress(p)'
    BY <2>1, <2>3 DEF Progress, First, InPanel, Tasked
  <2> QED
    BY <2>2, <2>3, AbortDoes
<1>3. PageRefs'
  BY AbortDoes DEF PageRefs
<1> QED
  BY <1>1, <1>2, <1>3

LEMMA NextTyped ==
  ASSUME TypeInv, \A o \in Ops : AnswerOk(o), [Next]_vars PROVE TypeInv'
<1> USE DEF TypeInv, TypeOK, linkVars, panelVars
<1>1. CASE \E o \in Ops : Begin(o)
  BY <1>1, BeginTyped
<1>2. CASE \E o \in Ops : Page(o)
  BY <1>2, PageTyped
<1>3. ASSUME NEW o \in Ops, TaskEnds(o) PROVE TypeInv'
  <2>1. PICK s \in TaskStates : task' = [task EXCEPT ![o] = s]
    BY <1>3 DEF TaskEnds
  <2>2. task[o] = "running" /\ UNCHANGED <<serverVars, asked, opVars, pageVars>>
    BY <1>3 DEF TaskEnds
  <2>3. TypeOK'
    BY <2>1, <2>2 DEF serverVars, opVars, pageVars
  <2>4. ASSUME NEW p \in Ops PROVE Progress(p)'
    <3>1. CASE p = o
      <4>1. task'[p] \in TaskStates
        BY <2>1, <3>1
      <4> QED
        BY <2>2, <3>1, <4>1 DEF Progress, First, serverVars, opVars, TaskStates
    <3>2. CASE p # o
      <4>1. task'[p] = task[p]
        BY <2>1, <3>2
      <4> QED
        BY <2>2, <4>1 DEF Progress, First, serverVars, opVars
    <3> QED
      BY <3>1, <3>2
  <2>5. PageRefs'
    BY <2>2 DEF PageRefs, InPanel, serverVars, opVars, pageVars
  <2> QED
    BY <2>3, <2>4, <2>5
<1>4. CASE \E r \in Requests : Program(r)
  BY <1>4, ProgramTyped
<1>5. CASE SessionLost \/ Reconnect
  <2>1. session' \in {"up", "gone"} /\ faults' \in 0..MaxFaults /\ leaked' \subseteq Requests
        /\ listener' \in [Requests -> {"none", "open", "dead"}]
    BY <1>5, ConstantFacts DEF SessionLost, Reconnect, Fault
  <2>2. UNCHANGED <<rights, step, answer, audited, taskVars, opVars, pageVars>>
    BY <1>5 DEF SessionLost, Reconnect
  <2>3. (\A o \in Ops : Progress(o)') /\ PageRefs'
    BY <2>2 DEF Progress, First, PageRefs, InPanel, taskVars, opVars, pageVars
  <2> QED
    BY <2>1, <2>2, <2>3 DEF taskVars, opVars, pageVars
<1>6. CASE CloseModal
  <2>1. (\A o \in Ops : Progress(o)') /\ PageRefs'
    BY <1>6 DEF CloseModal, Progress, First, PageRefs, InPanel, serverVars, taskVars, opVars
  <2> QED
    BY <1>6, <2>1 DEF CloseModal, serverVars, taskVars, opVars
<1>7. CASE CancelTask
  <2>1. step' \in [Requests -> {"idle", "sent", "proxied", "served", "answered"}]
        /\ \A o \in Ops : step'[o] = step[o]
    BY <1>7, ConstantFacts DEF CancelTask, Goto, Requests
  <2>2. (\A o \in Ops : Progress(o)') /\ PageRefs'
    BY <1>7, <2>1 DEF CancelTask, CanClick, Progress, First, PageRefs, InPanel, taskVars, opVars
  <2>3. panel \in Ops /\ activeTask \in Ops
    BY <1>7 DEF CancelTask, CanClick
  <2>4. clicked' \subseteq Ops
    BY <1>7, <2>3 DEF CancelTask
  <2>5. shown' \in Outcomes \cup Cancelling \cup {"busy"}
    BY <1>7 DEF CancelTask, UpdateOperation, Cancelling
  <2> QED
    BY <1>7, <2>1, <2>2, <2>3, <2>4, <2>5 DEF CancelTask, taskVars, opVars
<1>8. CASE AbortRequest
  BY <1>8, AbortTyped
<1>9. CASE CancelTaken
  <2>1. step' \in [Requests -> {"idle", "sent", "proxied", "served", "answered"}]
        /\ \A o \in Ops : step'[o] = step[o]
    BY <1>9, ConstantFacts DEF CancelTaken, Goto, Requests
  <2>2. answer' \in [Requests -> Answers]
    BY <1>9 DEF CancelTaken, Answers
  <2>3. step'[Canceller] = "idle"
    BY <1>9 DEF CancelTaken, Goto, Requests
  <2>4. (\A o \in Ops : Progress(o)') /\ PageRefs'
    BY <1>9, <2>1, <2>3 DEF CancelTaken, Progress, First, PageRefs, InPanel, taskVars, opVars
  <2>5. button' \in {"ready", "busy"} /\ shown' \in Outcomes \cup Cancelling \cup {"busy"}
    BY <1>9 DEF CancelTaken, UpdateOperation, Cancelling
  <2> QED
    BY <1>9, <2>1, <2>2, <2>4, <2>5 DEF CancelTaken, taskVars, opVars
<1>10. CASE UNCHANGED vars
  BY <1>10 DEF vars, serverVars, taskVars, opVars, pageVars, Progress, First, PageRefs, InPanel
<1> QED
  BY <1>1, <1>2, <1>3, <1>4, <1>5, <1>6, <1>7, <1>8, <1>9, <1>10 DEF Next, Rest

-----------------------------------------------------------------------------
(* What an answer says is so, and what is told of it.                      *)

\* A step of the program is about one request, and may start its task.
LEMMA ProgramDoes ==
  ASSUME TypeInv, NEW r \in Requests, Program(r)
  PROVE  /\ step[r] # "idle"
         /\ UNCHANGED <<session, rights, follow, what, elsewhere, report, tripped, pageVars>>
         /\ \A o \in Ops : polls'[o] = polls[o] \/ (o = r /\ Asks(r) = "options")
         /\ \A q \in Requests : q # r => /\ step'[q] = step[q] /\ answer'[q] = answer[q]
                                         /\ listener'[q] = listener[q]
         /\ \A o \in Ops :
              task'[o] = task[o] \/ /\ o = r /\ First(o) /\ what[o] \in Changes
                                    /\ step[o] = "proxied" /\ task'[o] # "none"
<1> USE DEF TypeInv, TypeOK, linkVars, panelVars
<1>1. CASE Refused(r) \/ Proxied(r) \/ ProxiedTooLate(r) \/ Declined(r)
  BY <1>1 DEF Refused, Proxied, ProxiedTooLate, Declined, Goto, taskVars, opVars
<1>2. CASE Served(r)
  <2>1. step[r] = "proxied" /\ Effect(r) /\ Goto(r, "served") /\ UNCHANGED <<session, rights, listener, opVars, pageVars>>
    BY <1>2 DEF Served
  <2>2. \A o \in Ops : task'[o] = task[o]
                       \/ (o = r /\ First(o) /\ what[o] \in Changes /\ task'[o] # "none")
    BY <2>1, EffectTyped
  <2> QED
    BY <2>1, <2>2, EffectTyped DEF Goto, opVars
<1>3. CASE Unanswered(r)
  <2>1. step[r] = "proxied" /\ Goto(r, "served") /\ UNCHANGED <<session, rights, listener, opVars, pageVars>>
        /\ task' = [task EXCEPT ![r] = "running"] /\ answer' = [answer EXCEPT ![r] = "error"]
    BY <1>3 DEF Unanswered
  <2>2. r \in Ops /\ First(r) /\ what[r] \in Changes
    BY <1>3, AsksWhat DEF Unanswered
  <2> QED
    BY <2>1, <2>2 DEF Goto, opVars
<1>4. CASE Finished(r) \/ AuditFails(r)
  BY <1>4 DEF Finished, AuditFails, Answered, Closed, Goto, taskVars, opVars
<1>5. CASE NextRead(r)
  BY <1>5 DEF NextRead, Closed, Goto, taskVars
<1> QED
  BY <1>1, <1>2, <1>3, <1>4, <1>5 DEF Program

\* The task of an operation, once the page knows of it, is as the answer says;
\* and what the user was told was done stays so.
LEMMA ProgramAnswers ==
  ASSUME TypeInv, AnswersInv, NEW r \in Requests, Program(r) PROVE AnswersInv'
<1> USE DEF TypeInv, TypeOK, linkVars, panelVars
<1>1. /\ step[r] # "idle" /\ UNCHANGED <<follow, what, report>>
      /\ \A q \in Requests : q # r => step'[q] = step[q] /\ answer'[q] = answer[q]
      /\ \A o \in Ops :
           task'[o] = task[o] \/ /\ o = r /\ First(o) /\ what[o] \in Changes
                                 /\ step[o] = "proxied" /\ task'[o] # "none"
  BY ProgramDoes
<1>2. ASSUME NEW o \in Ops PROVE AnswerOk(o)'
  <2>1. CASE o # r
    BY <1>1, <2>1 DEF AnswersInv, AnswerOk, Replied, First, Requests
  <2>2. CASE o = r
    <3> USE <2>2
    <3>1. CASE Refused(r) \/ ProxiedTooLate(r) \/ Declined(r) \/ Unanswered(r) \/ AuditFails(r)
      <4>1. answer'[o] = "error"
        BY <3>1 DEF Refused, ProxiedTooLate, Declined, Unanswered, AuditFails, Answered
      <4> QED
        BY <4>1 DEF AnswerOk, TaskStates
    <3>2. CASE Proxied(r) \/ NextRead(r)
      <4>1. step'[o] \in {"proxied", "sent"}
        BY <3>2 DEF Proxied, NextRead, Goto
      <4> QED
        BY <4>1 DEF AnswerOk, Replied
    <3>3. CASE Served(r)
      <4>1. Effect(r)
        BY <3>3 DEF Served
      <4>2. First(o) /\ what[o] \in Changes =>
              \/ answer'[o] = "accepted" /\ task'[o] = "accepted"
              \/ answer'[o] = "upid" /\ task'[o] = "running"
        BY <1>1, <4>1, EffectTyped
      <4>3. follow[o] = "poll" => answer'[o] = task[o] /\ task[o] \in TaskStates
        BY <1>1, <4>1, EffectTyped DEF Progress
      <4>4. follow[o] = "poll" => task'[o] = task[o]
        BY <1>1 DEF First
      <4> QED
        BY <1>1, <4>2, <4>3, <4>4 DEF AnswerOk, First, TaskStates
    <3>4. CASE Finished(r)
      <4>1. answer'[o] \in {"error", answer[o]} /\ step[o] = "served"
            /\ UNCHANGED <<task, follow, what>>
        BY <3>4 DEF Finished, Answered, taskVars, opVars
      <4> QED
        BY <4>1 DEF AnswersInv, AnswerOk, Replied, First, TaskStates
    <3> QED
      BY <3>1, <3>2, <3>3, <3>4 DEF Program
  <2> QED
    BY <2>1, <2>2
<1>3. DoneIsTrue'
  <2> SUFFICES ASSUME NEW o \in Ops, report[o] = "done", what[o] \in Changes
               PROVE  task'[o] = task[o]
    BY <1>1 DEF AnswersInv, DoneIsTrue
  <2>1. follow[o] = "ended" /\ step[o] = "idle"
    BY DEF Progress
  <2> QED
    BY <1>1, <2>1
<1> QED
  BY <1>2, <1>3 DEF AnswersInv

LEMMA PageAnswers ==
  ASSUME TypeInv, AnswersInv, NEW o \in Ops, Page(o) PROVE AnswersInv'
<1> USE DEF TypeInv, TypeOK, linkVars, panelVars
<1>1. AnswerOk(o) /\ PageStep(o)
  BY PageDoes DEF AnswersInv
<1>2. /\ UNCHANGED <<task, what>> /\ step'[o] \in {"idle", "sent"}
      /\ \A p \in Ops : p # o => /\ follow'[p] = follow[p] /\ report'[p] = report[p]
                                 /\ step'[p] = step[p] /\ answer'[p] = answer[p]
  BY <1>1 DEF PageStep, taskVars, Sleeps, Rereads, Ends, Forgets, Sends, Requests
<1>3. ASSUME NEW p \in Ops PROVE AnswerOk(p)'
  BY <1>2 DEF AnswersInv, AnswerOk, Replied, First
<1>4. DoneIsTrue'
  <2> SUFFICES ASSUME NEW p \in Ops, report'[p] = "done", what[p] \in Changes
               PROVE  \/ task[p] \in {"ok", "accepted"}
                      \/ what[p] = "power" /\ task[p] # "none"
                      \/ what[p] = "iso" /\ task[p] = "unknown"
    BY <1>2 DEF DoneIsTrue
  <2>1. CASE report[p] = "done"
    BY <2>1 DEF AnswersInv, DoneIsTrue
  <2>2. CASE report[p] # "done"
    <3>1. p = o /\ Ends(o, "done")
      BY <1>1, <1>2, <2>2 DEF PageStep, Sleeps, Rereads, Ends, Forgets, Sends
    <3>2. CASE WentWell(o)
      <4>1. CASE follow[o] = "poll"
        BY <1>1, <3>1, <3>2, <4>1 DEF WentWell, Ends, AnswerOk, Replied, TaskStates, InPanel,
                                       Progress, Tasked
      <4>2. CASE follow[o] = "request" /\ what[o] \in Tasked
        BY <1>1, <3>1, <3>2, <4>2 DEF WentWell, AnswerOk, Replied, First
      <4>3. CASE follow[o] = "request" /\ what[o] = "power"
        BY <1>1, <3>1, <3>2, <4>3 DEF WentWell, AnswerOk, Replied, First, TaskStates
      <4> QED
        BY <3>1, <3>2, <4>1, <4>2, <4>3 DEF WentWell, Changes
    <3>3. CASE follow[o] = "refresh"
      BY <3>1, <3>3 DEF Progress
    <3> QED
      BY <3>1, <3>2, <3>3 DEF Ends
  <2> QED
    BY <2>1, <2>2
<1> QED
  BY <1>3, <1>4 DEF AnswersInv

LEMMA NextAnswers ==
  ASSUME TypeInv, AnswersInv, [Next]_vars PROVE AnswersInv'
<1> USE DEF TypeInv, TypeOK, linkVars, panelVars
<1>1. ASSUME NEW o \in Ops, Begin(o) PROVE AnswersInv'
  <2>1. /\ follow[o] = "new" /\ step'[o] = "sent" /\ UNCHANGED <<task, answer, report>>
        /\ \A p \in Ops : p # o => /\ follow'[p] = follow[p] /\ step'[p] = step[p]
                                   /\ what'[p] = what[p]
    BY <1>1 DEF Begin, Goto, taskVars, Requests
  <2>2. report[o] = "none"
    BY <2>1 DEF Progress
  <2>3. \A p \in Ops : AnswerOk(p)'
    BY <2>1 DEF AnswersInv, AnswerOk, Replied, First
  <2>4. DoneIsTrue'
    BY <2>1, <2>2 DEF AnswersInv, DoneIsTrue
  <2> QED
    BY <2>3, <2>4 DEF AnswersInv
<1>2. CASE \E o \in Ops : Page(o)
  BY <1>2, PageAnswers
<1>3. ASSUME NEW o \in Ops, TaskEnds(o) PROVE AnswersInv'
  <2>1. /\ task[o] = "running" /\ task'[o] \in TaskStates
        /\ \A p \in Ops : p # o => task'[p] = task[p]
        /\ UNCHANGED <<step, answer, follow, what, report>>
    BY <1>3 DEF TaskEnds, serverVars, opVars
  <2>2. \A p \in Ops : AnswerOk(p)'
    BY <2>1 DEF AnswersInv, AnswerOk, Replied, First, TaskStates
  <2>3. DoneIsTrue'
    BY <2>1 DEF AnswersInv, DoneIsTrue, TaskStates
  <2> QED
    BY <2>2, <2>3 DEF AnswersInv
<1>4. CASE \E r \in Requests : Program(r)
  BY <1>4, ProgramAnswers
<1>5. CASE SessionLost \/ Reconnect \/ CloseModal \/ UNCHANGED vars
  <2>1. UNCHANGED <<step, answer, task, follow, what, report>>
    BY <1>5 DEF SessionLost, Reconnect, CloseModal, vars, serverVars, taskVars, opVars
  <2> QED
    BY <2>1 DEF AnswersInv, AnswerOk, DoneIsTrue, Replied, First
<1>6. CASE CancelTask \/ CancelTaken
  <2>1. UNCHANGED <<task, follow, what, report>>
        /\ \A o \in Ops : step'[o] = step[o] /\ answer'[o] = answer[o]
    BY <1>6, ConstantFacts DEF CancelTask, CancelTaken, Goto, taskVars, opVars, Requests
  <2> QED
    BY <2>1 DEF AnswersInv, AnswerOk, DoneIsTrue, Replied, First
<1>7. CASE AbortRequest
  <2>1. UNCHANGED <<step, answer, task, what>>
    BY <1>7, AbortDoes
  <2>2. CASE UNCHANGED <<follow, report>>
    BY <2>1, <2>2 DEF AnswersInv, AnswerOk, DoneIsTrue, Replied, First
  <2>3. ASSUME NEW o \in Ops, follow[o] = "request",
               follow'[o] = "ended", report'[o] = "cancelled",
               \A q \in Ops : q # o => follow'[q] = follow[q] /\ report'[q] = report[q]
        PROVE  AnswersInv'
    BY <2>1, <2>3 DEF AnswersInv, AnswerOk, DoneIsTrue, Replied, First
  <2> QED
    BY <1>7, <2>2, <2>3, AbortDoes
<1> QED
  BY <1>1, <1>2, <1>3, <1>4, <1>5, <1>6, <1>7 DEF Next, Rest

LEMMA AlwaysAnswers == Spec => [](TypeInv /\ AnswersInv)
<1>1. Init => TypeInv /\ AnswersInv
  <2>1. Init => AnswersInv
    BY DEF Init, AnswersInv, AnswerOk, DoneIsTrue, Replied, Requests
  <2> QED
    BY <2>1, InitTyped
<1>2. TypeInv /\ AnswersInv /\ [Next]_vars => (TypeInv /\ AnswersInv)'
  BY NextTyped, NextAnswers DEF AnswersInv
<1> QED
  BY <1>1, <1>2, PTL DEF Spec

\* The variables keep their types, in every state of every behaviour.
THEOREM TypeCorrect == Spec => []TypeOK
<1>1. TypeInv => TypeOK
  BY DEF TypeInv
<1> QED
  BY <1>1, AlwaysAnswers, PTL

\* An operation that the user is told is done is done (waitForProvisionTask,
\* waitForTask and the answers to the first request), whatever was lost.
THEOREM DoneIsSo == Spec => []DoneIsTrue
<1>1. AnswersInv => DoneIsTrue
  BY DEF AnswersInv
<1> QED
  BY <1>1, AlwaysAnswers, PTL

-----------------------------------------------------------------------------
(* Listeners end with their requests.                                      *)

LEMMA ProgramListens ==
  ASSUME TypeInv, ListenersInv, NEW r \in Requests, Program(r) PROVE ListenersInv'
<1> USE DEF TypeInv, TypeOK, linkVars, panelVars
<1>1. step'[r] \in {"proxied", "served"} <=> listener'[r] # "none"
  <2>1. step[r] \in {"proxied", "served"} <=> listener[r] # "none"
    BY DEF ListenersInv
  <2>2. CASE Refused(r) \/ ProxiedTooLate(r) \/ Served(r) \/ Declined(r) \/ Unanswered(r)
    BY <2>1, <2>2 DEF Refused, ProxiedTooLate, Served, Declined, Unanswered, Goto
  <2>3. CASE Proxied(r)
    BY <2>3 DEF Proxied, Goto
  <2>4. CASE Finished(r) \/ AuditFails(r) \/ NextRead(r)
    BY <2>4 DEF Finished, AuditFails, NextRead, Answered, Closed, Goto
  <2> QED
    BY <2>2, <2>3, <2>4 DEF Program
<1>2. \A q \in Requests : q # r => step'[q] = step[q] /\ listener'[q] = listener[q]
  BY ProgramDoes
<1>3. leaked' # {} => faults' > 0 /\ session' = "up"
  <2>1. CASE ProxiedTooLate(r)
    BY <2>1 DEF ProxiedTooLate, Fault
  <2>2. CASE ~ProxiedTooLate(r)
    <3>1. leaked' = leaked /\ session' = session /\ faults' \in {faults, faults + 1}
      BY <2>2 DEF Program, Refused, Proxied, Served, Declined, Unanswered, Finished, AuditFails,
                  NextRead, Answered, Fault
    <3> QED
      BY <3>1 DEF ListenersInv
  <2> QED
    BY <2>1, <2>2
<1> QED
  BY <1>1, <1>2, <1>3 DEF ListenersInv

LEMMA NextListens ==
  ASSUME TypeInv, AnswersInv, ListenersInv, [Next]_vars PROVE ListenersInv'
<1> USE DEF TypeInv, TypeOK, linkVars, panelVars
<1>1. CASE \E o \in Ops : Begin(o)
  BY <1>1 DEF Begin, Goto, ListenersInv
<1>2. ASSUME NEW o \in Ops, Page(o) PROVE ListenersInv'
  <2>1. PageStep(o)
    BY <1>2, PageDoes DEF AnswersInv
  <2>2. step[o] \in {"idle", "answered"} /\ step'[o] \in {"idle", "sent"} /\ listener' = listener
    BY <2>1 DEF PageStep, Sleeps, Rereads, WentWell, Ends, Forgets, Sends
  <2> QED
    BY <2>1, <2>2 DEF PageStep, ListenersInv
<1>3. CASE \E r \in Requests : Program(r)
  BY <1>3, ProgramListens
<1>4. CASE SessionLost
  BY <1>4 DEF SessionLost, ListenersInv
<1>5. CASE CancelTask \/ CancelTaken
  BY <1>5 DEF CancelTask, CancelTaken, Goto, ListenersInv
<1>6. CASE (\E o \in Ops : TaskEnds(o)) \/ Reconnect \/ CloseModal \/ AbortRequest \/ UNCHANGED vars
  <2>1. UNCHANGED <<step, listener, leaked, faults>> /\ session' \in {session, "up"}
    BY <1>6 DEF TaskEnds, Reconnect, CloseModal, AbortRequest, vars, serverVars
  <2> QED
    BY <2>1 DEF ListenersInv
<1> QED
  BY <1>1, <1>2, <1>3, <1>4, <1>5, <1>6 DEF Next, Rest

LEMMA AlwaysListens == Spec => []ListenersInv
<1>1. Init => ListenersInv
  BY DEF Init, ListenersInv
<1>2. (TypeInv /\ AnswersInv) /\ ListenersInv /\ [Next]_vars => ListenersInv'
  BY NextListens
<1> QED
  BY <1>1, <1>2, AlwaysAnswers, PTL DEF Spec

\* No SOCKS listener that a request was given outlives it: the finally of
\* ProxmoxService._request takes it back on every path.  One that opens when its request
\* has given up (open_socks, proxmox_service.py:63) is left until the session ends.
THEOREM ListenersEnd == Spec => []ListenersAreClosed
<1>1. ListenersInv => ListenersAreClosed
  BY DEF ListenersInv, ListenersAreClosed
<1> QED
  BY <1>1, AlwaysListens, PTL

-----------------------------------------------------------------------------
(* The audit log.                                                          *)

LEMMA ProgramAudits ==
  ASSUME TypeInv, AnswersInv, AuditInv, NEW r \in Requests, Program(r) PROVE AuditInv'
<1> USE DEF TypeInv, TypeOK, linkVars, panelVars
<1> DEFINE Accepted(o) == step[o] = "answered" /\ First(o) /\ what[o] \in Changes /\ answer[o] # "error"
<1>1. /\ UNCHANGED <<follow, what, report>>
      /\ \A q \in Requests : q # r => step'[q] = step[q] /\ answer'[q] = answer[q]
      /\ \A o \in Ops : task[o] # "none" => task'[o] # "none"
  BY ProgramDoes
<1>2. audited' = audited
      \/ /\ audited' = audited \cup {r} /\ Finished(r) /\ Logs(r)
  BY DEF Program, Refused, Proxied, ProxiedTooLate, Served, Declined, Unanswered, Finished,
         AuditFails, NextRead
<1>3. Finished(r) /\ Logs(r) => r \in Ops /\ task'[r] # "none"
  <2>1. SUFFICES ASSUME Finished(r), Logs(r) PROVE r \in Ops /\ task'[r] # "none"
    OBVIOUS
  <2>2. step[r] = "served" /\ Asks(r) \in Changes /\ answer[r] # "error"
    BY <2>1 DEF Finished, Logs
  <2>3. r \in Ops /\ First(r) /\ what[r] \in Changes
    BY <2>2, AsksWhat
  <2>4. task[r] # "none"
    BY <2>2, <2>3 DEF AnswersInv, AnswerOk, Replied, TaskStates
  <2> QED
    BY <1>1, <2>3, <2>4
<1>4. ASSUME NEW o \in Ops, step'[o] = "answered", First(o), what[o] \in Changes, answer'[o] # "error"
      PROVE  o \in audited'
  <2>1. CASE o # r
    BY <1>1, <1>2, <1>4, <2>1 DEF AuditInv, Requests
  <2>2. CASE o = r
    <3>1. Finished(r)
      <4>1. ~Refused(r) /\ ~ProxiedTooLate(r) /\ ~AuditFails(r)
        BY <1>4, <2>2 DEF Refused, ProxiedTooLate, AuditFails, Answered
      <4>2. ~(Proxied(r) \/ Served(r) \/ Declined(r) \/ Unanswered(r) \/ NextRead(r))
        BY <1>4, <2>2 DEF Proxied, Served, Declined, Unanswered, NextRead, Goto
      <4> QED
        BY <4>1, <4>2 DEF Program
    <3>2. Answered(r, IF Raises THEN "error" ELSE answer[r])
      BY <3>1 DEF Finished
    <3>3. answer'[r] = IF Raises THEN "error" ELSE answer[r]
      BY <3>2 DEF Answered
    <3>4. ~Raises /\ answer[r] # "error"
      BY <1>4, <2>2, <3>3
    <3>5. Asks(r) \in Changes
      BY <1>4, <2>2, AsksWhat
    <3> QED
      BY <2>2, <3>1, <3>4, <3>5 DEF Finished, Logs
  <2> QED
    BY <2>1, <2>2
<1>5. \A o \in Ops : follow[o] \in {"sleep", "poll", "refresh"} => o \in audited'
  BY <1>2 DEF AuditInv
<1>6. AuditAgrees'
  BY <1>1, <1>2, <1>3 DEF AuditInv, AuditAgrees
<1> QED
  BY <1>1, <1>4, <1>5, <1>6 DEF AuditInv, First

LEMMA PageAudits ==
  ASSUME TypeInv, AnswersInv, AuditInv, NEW o \in Ops, Page(o) PROVE AuditInv'
<1> USE DEF TypeInv, TypeOK, linkVars, panelVars
<1>1. PageStep(o)
  BY PageDoes DEF AnswersInv
<1>2. /\ UNCHANGED <<task, what, audited>> /\ step'[o] \in {"idle", "sent"}
      /\ \A p \in Ops : p # o => /\ follow'[p] = follow[p] /\ report'[p] = report[p]
                                 /\ step'[p] = step[p] /\ answer'[p] = answer[p]
  BY <1>1 DEF PageStep, taskVars, Sleeps, Rereads, Ends, Forgets, Sends, Requests
<1>3. follow'[o] \in {"sleep", "poll", "refresh"} => o \in audited
  <2>1. CASE follow[o] \in {"sleep", "poll", "refresh"}
    BY <2>1 DEF AuditInv
  <2>2. CASE follow[o] \notin {"sleep", "poll", "refresh"}
    BY <1>1, <2>2 DEF AuditInv, PageStep, Sleeps, Rereads, WentWell, Ends, Forgets, Sends, First, Changes, Tasked
  <2> QED
    BY <2>1, <2>2
<1>4. report'[o] = "done" /\ what[o] \in Changes => o \in audited
  <2> SUFFICES ASSUME report'[o] = "done", what[o] \in Changes PROVE o \in audited
    OBVIOUS
  <2>1. CASE report[o] = "done"
    BY <2>1 DEF AuditInv, AuditAgrees
  <2>2. CASE report[o] # "done"
    <3>1. Ends(o, "done")
      BY <1>1, <2>2 DEF PageStep, Sleeps, Rereads, Ends, Forgets, Sends
    <3> QED
      BY <3>1 DEF AuditInv, Ends, WentWell, First
  <2> QED
    BY <2>1, <2>2
<1>5. AuditAgrees'
  BY <1>2, <1>4 DEF AuditInv, AuditAgrees
<1> QED
  BY <1>2, <1>3, <1>5 DEF AuditInv, First

LEMMA NextAudits ==
  ASSUME TypeInv, AnswersInv, AuditInv, [Next]_vars PROVE AuditInv'
<1> USE DEF TypeInv, TypeOK, linkVars, panelVars
<1>1. ASSUME NEW o \in Ops, Begin(o) PROVE AuditInv'
  <2>1. /\ follow[o] = "new" /\ follow'[o] = "request" /\ step'[o] = "sent"
        /\ UNCHANGED <<task, answer, report, audited>>
        /\ \A p \in Ops : p # o => /\ follow'[p] = follow[p] /\ step'[p] = step[p]
                                   /\ what'[p] = what[p]
    BY <1>1 DEF Begin, Goto, taskVars, Requests
  <2>2. report[o] = "none"
    BY <2>1 DEF Progress
  <2>3. AuditAgrees'
    BY <2>1, <2>2 DEF AuditInv, AuditAgrees
  <2> QED
    BY <2>1, <2>3 DEF AuditInv, First
<1>2. CASE \E o \in Ops : Page(o)
  BY <1>2, PageAudits
<1>3. ASSUME NEW o \in Ops, TaskEnds(o) PROVE AuditInv'
  <2>1. /\ task'[o] # "none"
        /\ \A p \in Ops : p # o => task'[p] = task[p]
        /\ UNCHANGED <<step, answer, audited, follow, what, report>>
    BY <1>3 DEF TaskEnds, TaskStates, serverVars, opVars
  <2> QED
    BY <2>1 DEF AuditInv, AuditAgrees, First
<1>4. CASE \E r \in Requests : Program(r)
  BY <1>4, ProgramAudits
<1>5. CASE SessionLost \/ Reconnect \/ CloseModal \/ CancelTask \/ CancelTaken \/ UNCHANGED vars
  <2>1. UNCHANGED <<task, audited, follow, what, report>>
        /\ \A o \in Ops : step'[o] = step[o] /\ answer'[o] = answer[o]
    BY <1>5, ConstantFacts DEF SessionLost, Reconnect, CloseModal, CancelTask, CancelTaken, Goto,
                               vars, serverVars, taskVars, opVars, Requests
  <2> QED
    BY <2>1 DEF AuditInv, AuditAgrees, First
<1>6. CASE AbortRequest
  <2>1. UNCHANGED <<step, answer, task, what, audited>>
    BY <1>6, AbortDoes
  <2>2. CASE UNCHANGED <<follow, report>>
    BY <2>1, <2>2 DEF AuditInv, AuditAgrees, First
  <2>3. ASSUME NEW o \in Ops, follow[o] = "request",
               follow'[o] = "ended", report'[o] = "cancelled",
               \A q \in Ops : q # o => follow'[q] = follow[q] /\ report'[q] = report[q]
        PROVE  AuditInv'
    BY <2>1, <2>3 DEF AuditInv, AuditAgrees, First
  <2> QED
    BY <1>6, <2>2, <2>3, AbortDoes
<1> QED
  BY <1>1, <1>2, <1>3, <1>4, <1>5, <1>6 DEF Next, Rest

LEMMA AlwaysAudits == Spec => []AuditInv
<1>1. Init => AuditInv
  BY DEF Init, AuditInv, AuditAgrees, Requests
<1>2. (TypeInv /\ AnswersInv) /\ AuditInv /\ [Next]_vars => AuditInv'
  BY NextAudits
<1> QED
  BY <1>1, <1>2, AlwaysAnswers, PTL DEF Spec

\* The audit log tells of an operation only if it was carried out, and of each that
\* the user was told is done (the audit calls of the facade's proxmox methods).
THEOREM AuditIsTrue == Spec => []AuditAgrees
<1>1. AuditInv => AuditAgrees
  BY DEF AuditInv
<1> QED
  BY <1>1, AlwaysAudits, PTL

-----------------------------------------------------------------------------
(* Errors, where nothing was lost.                                         *)

\* Faults are only counted, and the session is only lost to one.
LEMMA FaultsCount ==
  ASSUME TypeInv, Fault PROVE faults' # 0
BY ConstantFacts DEF TypeInv, TypeOK, Fault

\* What the program does with an error, where there was no fault: it is the refusal
\* of a first request, or comes of a node that does not know the task.
LEMMA ErrorAnswered ==
  ASSUME TypeInv, ListenersInv, ErrorsInv, NEW o \in Ops, Program(o), faults' = 0,
         faults = 0, Replied(o)', answer'[o] = "error"
  PROVE  /\ First(o) /\ what[o] \in Changes => task'[o] = "none"
         /\ follow[o] = "poll" => elsewhere[o]
         /\ follow[o] # "refresh"
<1> USE DEF TypeInv, TypeOK, linkVars, panelVars
<1>1. o \in Requests /\ o # Canceller /\ session = "up" /\ listener[o] # "dead" /\ ErrorOk(o)
  BY ConstantFacts DEF Requests, ErrorsInv, NothingLost
<1>2. /\ follow[o] = "poll" => Asks(o) = "status"
      /\ follow[o] = "refresh" => Asks(o) = "options"
  BY <1>1, AsksWhat
<1>3. CASE Refused(o)
  <2>1. step[o] = "sent" /\ task' = task
    BY <1>3 DEF Refused, taskVars
  <2>2. First(o) /\ what[o] \in Changes => task'[o] = "none"
    BY <2>1 DEF Progress
  <2>3. Asks(o) \notin rights \/ (Asks(o) \in Kinds /\ ~Following(o))
    BY <1>1, <1>3 DEF Refused
  <2>4. follow[o] # "poll"
    <3> SUFFICES ASSUME follow[o] = "poll" PROVE FALSE
      OBVIOUS
    <3>1. Asks(o) = "status" /\ "status" \in rights /\ "status" \notin Kinds
      BY <1>2 DEF ErrorsInv, RightsOk, Kinds, Changes, Tasked, Reads
    <3> QED
      BY <2>3, <3>1
  <2>5. follow[o] # "refresh"
    <3> SUFFICES ASSUME follow[o] = "refresh" PROVE FALSE
      OBVIOUS
    <3>1. what[o] = "iso" /\ task[o] # "none"
      BY DEF Progress
    <3>2. Asks(o) = "options" /\ "options" \in rights
      BY <1>2, <3>1 DEF ErrorsInv, RightsOk
    <3>3. Following(o)
      BY <1>1 DEF Following
    <3> QED
      BY <2>3, <3>2, <3>3
  <2> QED
    BY <2>2, <2>4, <2>5
<1>4. CASE Declined(o)
  <2>1. step[o] = "proxied" /\ task' = task
    BY <1>4 DEF Declined, taskVars
  <2>2. First(o) /\ what[o] \in Changes => task'[o] = "none"
    BY <2>1 DEF Progress
  <2>3. listener[o] = "open"
    BY <1>1, <2>1 DEF ListenersInv
  <2>4. ~Following(o)
    BY <1>4, <2>3, FaultsCount DEF Declined
  <2> QED
    BY <1>1, <2>2, <2>4 DEF Following
<1>5. CASE ProxiedTooLate(o) \/ Unanswered(o) \/ AuditFails(o)
  BY <1>5, FaultsCount DEF ProxiedTooLate, Unanswered, AuditFails
<1>6. CASE Proxied(o) \/ NextRead(o)
  <2>1. step'[o] \in {"proxied", "sent"}
    BY <1>1, <1>6 DEF Proxied, NextRead, Goto
  <2> QED
    BY <2>1 DEF Replied
<1>7. CASE Served(o)
  BY <1>1, <1>7, EffectTyped DEF Served
<1>8. CASE Finished(o)
  <2>1. step[o] = "served" /\ task' = task /\ answer'[o] = answer[o]
    BY <1>1, <1>8 DEF Finished, Answered, Raises, taskVars
  <2> QED
    BY <1>1, <2>1 DEF ErrorOk, Replied
<1> QED
  BY <1>3, <1>4, <1>5, <1>6, <1>7, <1>8 DEF Program

LEMMA ProgramErrs ==
  ASSUME TypeInv, AnswersInv, ListenersInv, ErrorsInv, NEW r \in Requests, Program(r)
  PROVE  ErrorsInv'
<1> USE DEF TypeInv, TypeOK, linkVars, panelVars
<1>1. /\ step[r] # "idle"
      /\ UNCHANGED <<session, rights, follow, what, elsewhere, report, tripped>>
      /\ \A o \in Ops : polls'[o] = polls[o] \/ (o = r /\ Asks(r) = "options")
      /\ \A q \in Requests : q # r => /\ step'[q] = step[q] /\ answer'[q] = answer[q]
                                      /\ listener'[q] = listener[q]
      /\ \A o \in Ops :
           task'[o] = task[o] \/ /\ o = r /\ First(o) /\ what[o] \in Changes
                                 /\ step[o] = "proxied" /\ task'[o] # "none"
  BY ProgramDoes
<1>2. faults' = 0 => faults = 0
  BY FaultsCount
     DEF Program, Refused, Proxied, ProxiedTooLate, Served, Declined, Unanswered, Finished,
         AuditFails, NextRead
<1>3. RightsOk'
  <2>1. ASSUME NEW o \in Ops, step'[o] = "proxied", First(o) PROVE what[o] \in rights
    <3>1. CASE step[o] = "proxied"
      BY <2>1, <3>1 DEF ErrorsInv, RightsOk
    <3>2. CASE step[o] # "proxied"
      <4>1. o = r
        BY <1>1, <2>1, <3>2 DEF Requests
      <4>2. Proxied(r)
        BY <2>1, <3>2, <4>1 DEF Program, Refused, ProxiedTooLate, Served, Declined, Unanswered, Finished,
                                AuditFails, NextRead, Answered, Goto
      <4>3. Asks(r) = what[r]
        BY <2>1, <4>1, AsksWhat
      <4> QED
        BY <4>1, <4>2, <4>3 DEF Proxied
    <3> QED
      BY <3>1, <3>2
  <2>2. \A o \in Ops : task'[o] # "none" => what[o] \in rights
    BY <1>1 DEF ErrorsInv, RightsOk
  <2> QED
    BY <1>1, <2>1, <2>2 DEF ErrorsInv, RightsOk, First
<1>4. ErrorsAreReal'
  <2> SUFFICES ASSUME NEW o \in Ops, report[o] = "error", what[o] \in Changes
               PROVE  task'[o] = task[o] /\ polls'[o] = polls[o]
    BY <1>1, <1>2 DEF ErrorsInv, ErrorsAreReal, InPanel
  <2>1. follow[o] = "ended" /\ step[o] = "idle"
    BY DEF Progress
  <2> QED
    BY <1>1, <2>1
<1>5. ASSUME faults' = 0 PROVE NothingLost'
  <2>1. listener[r] # "dead" => listener'[r] # "dead"
    BY DEF Program, Refused, Proxied, ProxiedTooLate, Served, Declined, Unanswered, Finished,
           AuditFails, NextRead, Answered, Closed
  <2> QED
    BY <1>1, <1>2, <1>5, <2>1 DEF ErrorsInv, NothingLost
<1>6. ASSUME faults' = 0, NEW o \in Ops PROVE ErrorOk(o)'
  <2>1. CASE o # r
    BY <1>1, <1>2, <1>6, <2>1 DEF ErrorsInv, ErrorOk, Replied, First, Requests
  <2>2. CASE o = r
    BY <1>1, <1>2, <1>6, <2>2, ErrorAnswered DEF ErrorOk, First
  <2> QED
    BY <2>1, <2>2
<1> QED
  BY <1>3, <1>4, <1>5, <1>6 DEF ErrorsInv

LEMMA PageErrs ==
  ASSUME TypeInv, AnswersInv, ErrorsInv, NEW o \in Ops, Page(o) PROVE ErrorsInv'
<1> USE DEF TypeInv, TypeOK, linkVars, panelVars
<1>1. AnswerOk(o) /\ PageStep(o)
  BY PageDoes DEF AnswersInv
<1>2. /\ UNCHANGED <<session, rights, listener, faults, task, what>>
      /\ step'[o] \in {"idle", "sent"} /\ tripped \subseteq tripped'
      /\ \A p \in Ops : p # o => /\ follow'[p] = follow[p] /\ report'[p] = report[p]
                                 /\ polls'[p] = polls[p] /\ elsewhere'[p] = elsewhere[p]
                                 /\ step'[p] = step[p] /\ answer'[p] = answer[p]
  BY <1>1 DEF PageStep, taskVars, Sleeps, Rereads, Ends, Forgets, Sends, Requests
<1>3. RightsOk'
  BY <1>2 DEF ErrorsInv, RightsOk, First
<1>4. faults = 0 => NothingLost' /\ \A p \in Ops : ErrorOk(p)'
  BY <1>2 DEF ErrorsInv, NothingLost, ErrorOk, Replied, First
<1>5. ASSUME faults = 0, report'[o] = "error", what[o] \in Changes
      PROVE  \/ task[o] \in {"none", "failed", "stopped", "warned"}
             \/ task[o] = "unknown" /\ InPanel(o)
             \/ elsewhere'[o] \/ polls'[o] = MaxPolls \/ o \in tripped'
  <2>1. Ends(o, "error") /\ elsewhere'[o] = elsewhere[o]
    <3>1. CASE report[o] = "error"
      <4>1. follow[o] = "ended" /\ step[o] = "idle"
        BY <3>1 DEF Progress
      <4> QED
        BY <1>1, <4>1 DEF PageStep, Sleeps, Rereads, WentWell, Ends, Forgets, Sends
    <3>2. CASE report[o] # "error"
      BY <1>1, <1>5, <3>2 DEF PageStep, Sleeps, Rereads, Ends, Forgets, Sends
    <3> QED
      BY <3>1, <3>2
  <2>2. CASE Erred(o)
    <3>1. step[o] = "answered" /\ follow[o] \in {"request", "poll", "refresh"}
      BY <2>1, <2>2 DEF Ends, Erred, Progress
    <3>2. CASE answer[o] = "error"
      BY <1>5, <2>1, <3>1, <3>2 DEF ErrorsInv, ErrorOk, Replied, First
    <3>3. CASE answer[o] # "error"
      BY <1>1, <2>2, <3>1, <3>3 DEF Erred, AnswerOk, Replied, TaskStates
    <3> QED
      BY <3>2, <3>3
  <2>3. CASE ~Erred(o)
    BY <2>1, <2>3 DEF Ends
  <2> QED
    BY <2>2, <2>3
<1>6. ErrorsAreReal'
  BY <1>2, <1>5 DEF ErrorsInv, ErrorsAreReal, InPanel
<1> QED
  BY <1>2, <1>3, <1>4, <1>6 DEF ErrorsInv

LEMMA NextErrs ==
  ASSUME TypeInv, AnswersInv, ListenersInv, ErrorsInv, [Next]_vars PROVE ErrorsInv'
<1> USE DEF TypeInv, TypeOK, linkVars, panelVars
<1>1. ASSUME NEW o \in Ops, Begin(o) PROVE ErrorsInv'
  <2>1. /\ follow[o] = "new" /\ step'[o] = "sent" /\ report'[o] = "none" /\ task[o] = "none"
        /\ UNCHANGED <<session, rights, listener, faults, task, answer, report, elsewhere, polls,
                       tripped>>
        /\ \A p \in Ops : p # o => /\ follow'[p] = follow[p] /\ step'[p] = step[p]
                                   /\ what'[p] = what[p]
    BY <1>1 DEF Begin, Goto, taskVars, Requests, Progress
  <2>2. RightsOk' /\ ErrorsAreReal'
    BY <2>1 DEF ErrorsInv, RightsOk, ErrorsAreReal, First, InPanel
  <2>3. faults = 0 => NothingLost' /\ \A p \in Ops : ErrorOk(p)'
    BY <2>1 DEF ErrorsInv, NothingLost, ErrorOk, Replied, First
  <2> QED
    BY <2>1, <2>2, <2>3 DEF ErrorsInv
<1>2. CASE \E o \in Ops : Page(o)
  BY <1>2, PageErrs
<1>3. ASSUME NEW o \in Ops, TaskEnds(o) PROVE ErrorsInv'
  <2>1. /\ task[o] = "running" /\ task'[o] # "none"
        /\ \A p \in Ops : p # o => task'[p] = task[p]
        /\ UNCHANGED <<session, rights, step, listener, faults, answer, follow, what, elsewhere, report,
                       polls, tripped>>
    BY <1>3 DEF TaskEnds, TaskStates, serverVars, opVars
  <2>2. RightsOk' /\ ErrorsAreReal'
    BY <2>1 DEF ErrorsInv, RightsOk, ErrorsAreReal, First, InPanel
  <2>3. faults = 0 => NothingLost' /\ \A p \in Ops : ErrorOk(p)'
    BY <2>1 DEF ErrorsInv, NothingLost, ErrorOk, Replied, First
  <2> QED
    BY <2>1, <2>2, <2>3 DEF ErrorsInv
<1>4. CASE \E r \in Requests : Program(r)
  BY <1>4, ProgramErrs
<1>5. CASE SessionLost
  <2>1. faults' # 0
    BY <1>5, FaultsCount DEF SessionLost
  <2>2. UNCHANGED <<rights, step, task, follow, what>>
    BY <1>5 DEF SessionLost, taskVars, opVars
  <2> QED
    BY <2>1, <2>2 DEF ErrorsInv, RightsOk, ErrorsAreReal, First
<1>6. CASE Reconnect \/ CloseModal \/ CancelTask \/ CancelTaken \/ UNCHANGED vars
  <2>1. /\ UNCHANGED <<rights, listener, faults, task, follow, what, elsewhere, report, polls,
                       tripped>>
        /\ session' = "up" \/ session' = session
        /\ \A o \in Ops : step'[o] = step[o] /\ answer'[o] = answer[o]
    BY <1>6, ConstantFacts DEF Reconnect, CloseModal, CancelTask, CancelTaken, Goto,
                               vars, serverVars, taskVars, opVars, Requests
  <2> QED
    BY <2>1 DEF ErrorsInv, RightsOk, ErrorsAreReal, NothingLost, ErrorOk, Replied, First,
                  InPanel
<1>7. CASE AbortRequest
  <2>1. UNCHANGED <<session, rights, step, listener, answer, faults, task, what, elsewhere, tripped>>
    BY <1>7, AbortDoes
  <2>2. CASE UNCHANGED <<follow, report, polls>>
    BY <2>1, <2>2 DEF ErrorsInv, RightsOk, ErrorsAreReal, NothingLost, ErrorOk, Replied, First,
                  InPanel
  <2>3. ASSUME NEW o \in Ops, follow[o] = "request",
               follow'[o] = "ended", report'[o] = "cancelled",
               \A q \in Ops : q # o => /\ follow'[q] = follow[q] /\ report'[q] = report[q]
                                         /\ polls'[q] = polls[q]
        PROVE  ErrorsInv'
    BY <2>1, <2>3 DEF ErrorsInv, RightsOk, ErrorsAreReal, NothingLost, ErrorOk, Replied, First,
                  InPanel
  <2> QED
    BY <1>7, <2>2, <2>3, AbortDoes
<1> QED
  BY <1>1, <1>2, <1>3, <1>4, <1>5, <1>6, <1>7 DEF Next, Rest

LEMMA AlwaysErrs == Spec => []ErrorsInv
<1>1. Init => ErrorsInv
  <2> SUFFICES ASSUME Init PROVE ErrorsInv
    OBVIOUS
  <2>1. PICK p \in Profile : rights = Rights(p)
    BY DEF Init
  <2>2. "status" \in rights /\ ("iso" \in rights => "options" \in rights)
    BY <2>1 DEF Rights, permissions_for, Kinds, Changes, Tasked, Reads
  <2> QED
    BY <2>2 DEF Init, ErrorsInv, RightsOk, ErrorsAreReal, NothingLost, ErrorOk, Replied, Requests
<1>2. (TypeInv /\ AnswersInv) /\ ListenersInv /\ ErrorsInv /\ [Next]_vars => ErrorsInv'
  BY NextErrs
<1> QED
  BY <1>1, <1>2, AlwaysAnswers, AlwaysListens, PTL DEF Spec

\* Where no session, answer or audit row was lost, an error that the user is told of
\* is one, but for the three that the page makes itself: of a node that does not run
\* the task, of enough polls, and of a form that is gone (proxmox_wizard.js:562, 537).
THEOREM ErrorsTrue == Spec => []ErrorsAreReal
<1>1. ErrorsInv => ErrorsAreReal
  BY DEF ErrorsInv
<1> QED
  BY <1>1, AlwaysErrs, PTL

-----------------------------------------------------------------------------
(* The panel.                                                              *)

\* Whatever the invariant reads, but for the tasks that are stopped.
LEMMA PanelStays ==
  ASSUME PanelInv, asked' \subseteq asked \cup clicked \/ mixed,
         UNCHANGED <<follow, what, report, pageVars>>
  PROVE  PanelInv'
BY DEF PanelInv, PanelOk, Followed, InPanel, pageVars, panelVars

LEMMA ProgramPanel ==
  ASSUME TypeInv, PanelInv, NEW r \in Requests, Program(r) PROVE PanelInv'
<1>1. step[r] # "idle" /\ UNCHANGED <<follow, what, report, pageVars>>
  BY ProgramDoes
<1>2. CASE Served(r)
  <2>1. asked' = asked \/ (r = Canceller /\ asked' = asked \cup {target})
    BY <1>1, <1>2, EffectTyped DEF Served
  <2>2. r = Canceller => target \in clicked \/ mixed
    BY <1>1, ConstantFacts DEF TypeInv, PageRefs, PanelInv
  <2> QED
    BY <1>1, <2>1, <2>2, PanelStays
<1>3. CASE ~Served(r)
  <2>1. asked' = asked
    BY <1>3 DEF Program, Refused, Proxied, ProxiedTooLate, Declined, Unanswered, Finished, AuditFails, NextRead,
                Answered, taskVars
  <2> QED
    BY <1>1, <2>1, PanelStays
<1> QED
  BY <1>2, <1>3

LEMMA BeginPanel ==
  ASSUME TypeInv, PanelInv, NEW o \in Ops, Begin(o) PROVE PanelInv'
<1> USE ConstantFacts DEF TypeInv, TypeOK, linkVars, panelVars
<1>1. PICK k \in Kinds :
        /\ what' = [what EXCEPT ![o] = k]
        /\ IF k = "provision"
           THEN BeginOperation(o) /\ mixed' = (mixed \/ \E p \in Ops : Followed(p))
           ELSE UNCHANGED <<panelVars, activeRequestController, activeTask, mixed>>
  BY DEF Begin
<1>2. /\ follow[o] = "new" /\ follow' = [follow EXCEPT ![o] = "request"]
      /\ UNCHANGED <<asked, report, target, clicked>>
  BY DEF Begin, taskVars
<1>3. \A p \in Ops : p # o => what'[p] = what[p] /\ follow'[p] = follow[p]
  BY <1>1, <1>2
<1>4. what'[o] = k /\ follow'[o] = "request"
  BY <1>1, <1>2
<1>5. CASE k = "provision"
  <2> SUFFICES ASSUME ~mixed' PROVE PanelInv'
    BY DEF PanelInv
  <2>1. ~mixed /\ \A p \in Ops : ~Followed(p)
    BY <1>1, <1>5
  <2>2. \A p \in Ops : Followed(p)' => p = o
    BY <1>3, <2>1 DEF Followed, InPanel
  <2>3. panel' = o /\ shown' = "busy" /\ activeTask' = None
    BY <1>1, <1>5 DEF BeginOperation, NewPanel
  <2>4. PanelOk'
    BY <1>4, <1>5, <2>2, <2>3 DEF PanelOk, InPanel
  <2> QED
    BY <1>2, <2>1, <2>2, <2>4 DEF PanelInv
<1>6. CASE k # "provision"
  <2> SUFFICES ASSUME ~mixed PROVE PanelInv'
    BY <1>1, <1>6 DEF PanelInv
  <2>1. ~Followed(o)'
    BY <1>4, <1>6 DEF Followed, InPanel
  <2>2. \A p \in Ops : Followed(p)' => Followed(p)
    BY <1>3, <2>1 DEF Followed, InPanel
  <2>3. ASSUME panel # None PROVE PanelOk'
    <3>1. PanelOk /\ panel \in Ops /\ panel # o
      BY <1>2, <2>3 DEF PanelInv, PanelOk
    <3>2. UNCHANGED <<panel, shown, activeTask>>
      BY <1>1, <1>6
    <3> QED
      BY <1>2, <1>3, <2>2, <3>1, <3>2 DEF PanelOk, InPanel
  <2> QED
    BY <1>1, <1>2, <1>6, <2>2, <2>3 DEF PanelInv
<1> QED
  BY <1>5, <1>6

LEMMA PagePanel ==
  ASSUME TypeInv, AnswersInv, PanelInv, NEW o \in Ops, Page(o) PROVE PanelInv'
<1> USE ConstantFacts DEF TypeInv, TypeOK, linkVars, panelVars
<1>1. PageStep(o)
  BY PageDoes DEF AnswersInv
<1>2. /\ UNCHANGED <<what, panel, target, clicked, mixed, asked>>
      /\ \A p \in Ops : p # o => follow'[p] = follow[p] /\ report'[p] = report[p]
  BY <1>1 DEF PageStep, taskVars
<1> SUFFICES ASSUME ~mixed PROVE PanelInv'
  BY <1>2 DEF PanelInv
<1>3. follow[o] # "new" /\ follow'[o] # "new" /\ (follow'[o] = "ended" \/ follow[o] # "ended")
  BY <1>1 DEF PageStep, Sleeps, Rereads, WentWell, Ends, Forgets, Sends
<1>4. \A p \in Ops : Followed(p)' => Followed(p)
  BY <1>2, <1>3 DEF Followed, InPanel
<1>5. ASSUME panel # None PROVE PanelOk'
  <2>1. PanelOk /\ panel \in Ops
    BY <1>5 DEF PanelInv
  <2>2. activeTask' # None => activeTask' = panel
    BY <1>1, <2>1 DEF PageStep, PanelOk, Followed
  <2>3. \/ shown' = IF follow'[panel] = "ended" THEN report'[panel] ELSE "busy"
        \/ shown' \in Cancelling /\ clicked # {}
    <3>1. CASE panel = o
      <4>1. ASSUME NEW kind \in Outcomes, Ends(o, kind)
            PROVE  follow'[o] = "ended" /\ shown' = report'[o]
        BY <1>5, <2>1, <3>1, <4>1 DEF Ends, PanelOk
      <4>2. CASE Sleeps(o) \/ Rereads(o) \/ Sends(o)
        BY <2>1, <3>1, <4>2 DEF Sleeps, Rereads, WentWell, Sends, PanelOk
      <4>3. CASE Forgets(o)
        BY <2>1, <3>1, <4>3 DEF Forgets, PanelOk
      <4> QED
        BY <1>1, <3>1, <4>1, <4>2, <4>3 DEF PageStep
    <3>2. CASE panel # o
      <4>1. ~Followed(o)
        BY <2>1, <3>2 DEF PanelOk
      <4>2. shown' = shown
        BY <1>1, <4>1 DEF PageStep, Sleeps, Rereads, Ends, Forgets, Sends, Followed
      <4> QED
        BY <1>2, <2>1, <3>2, <4>2 DEF PanelOk
    <3> QED
      BY <3>1, <3>2
  <2> QED
    BY <1>2, <1>3, <1>4, <2>1, <2>2, <2>3 DEF PanelOk, InPanel
<1> QED
  BY <1>2, <1>4, <1>5 DEF PanelInv

LEMMA NextPanel ==
  ASSUME TypeInv, AnswersInv, PanelInv, [Next]_vars PROVE PanelInv'
<1> USE ConstantFacts DEF TypeInv, TypeOK, linkVars, panelVars
<1>1. CASE \E o \in Ops : Begin(o)
  BY <1>1, BeginPanel
<1>2. CASE \E o \in Ops : Page(o)
  BY <1>2, PagePanel
<1>3. CASE \E r \in Requests : Program(r)
  BY <1>3, ProgramPanel
<1>4. CASE (\E o \in Ops : TaskEnds(o)) \/ SessionLost \/ Reconnect \/ UNCHANGED vars
  <2>1. UNCHANGED <<asked, follow, what, report, pageVars>>
    BY <1>4 DEF TaskEnds, SessionLost, Reconnect, vars, taskVars, opVars
  <2> QED
    BY <2>1, PanelStays
<1>5. CASE CloseModal
  <2>1. panel' = None /\ UNCHANGED <<follow, what, report, asked, target, clicked, mixed>>
    BY <1>5 DEF CloseModal, taskVars, opVars
  <2> QED
    BY <2>1 DEF PanelInv, Followed, InPanel
<1>6. CASE CancelTask
  <2>1. /\ target' = activeTask /\ activeTask # None /\ panel # None
        /\ clicked' = clicked \cup {panel} /\ shown' \in Cancelling
        /\ UNCHANGED <<follow, what, report, asked, panel, activeTask, mixed>>
    BY <1>6 DEF CancelTask, CanClick, UpdateOperation, Cancelling, taskVars, opVars
  <2> QED
    BY <2>1 DEF PanelInv, PanelOk, Followed, InPanel
<1>7. CASE AbortRequest
  <2>1. /\ panel # None /\ clicked' = clicked \cup {panel}
        /\ UNCHANGED <<asked, what, panel, activeTask, target, mixed>>
    BY <1>7, AbortDoes
  <2>2. CASE UNCHANGED <<follow, report, shown>>
    BY <2>1, <2>2 DEF PanelInv, PanelOk, Followed, InPanel
  <2>3. ASSUME NEW o \in Ops, follow[o] = "request", InPanel(o),
               follow'[o] = "ended", report'[o] = "cancelled", shown' = "cancelled",
               \A q \in Ops : q # o => follow'[q] = follow[q] /\ report'[q] = report[q]
        PROVE  PanelInv'
    <3> SUFFICES ASSUME ~mixed PROVE PanelInv'
      BY <2>1 DEF PanelInv
    <3>1. PanelOk /\ panel \in Ops
      BY <2>1 DEF PanelInv
    <3>2. Followed(o) /\ o = panel
      BY <2>3, <3>1 DEF Followed, PanelOk
    <3>3. \A p \in Ops : ~Followed(p)'
      BY <2>1, <2>3, <3>1, <3>2 DEF Followed, InPanel, PanelOk
    <3>4. PanelOk'
      BY <2>1, <2>3, <3>1, <3>2, <3>3 DEF PanelOk, InPanel
    <3> QED
      BY <2>1, <3>3, <3>4 DEF PanelInv
  <2> QED
    BY <1>7, <2>2, <2>3, AbortDoes
<1>8. CASE CancelTaken
  <2>1. target' = None /\ (panel # None => shown' \in Cancelling)
        /\ UNCHANGED <<follow, what, report, asked, panel, activeTask, clicked, mixed>>
    BY <1>8 DEF CancelTaken, UpdateOperation, Cancelling, taskVars, opVars
  <2>2. ~mixed => clicked # {}
    BY <1>8 DEF CancelTaken, PageRefs, PanelInv
  <2> QED
    BY <2>1, <2>2 DEF PanelInv, PanelOk, Followed, InPanel
<1> QED
  BY <1>1, <1>2, <1>3, <1>4, <1>5, <1>6, <1>7, <1>8 DEF Next, Rest

LEMMA AlwaysPanel == Spec => []PanelInv
<1>1. Init => PanelInv
  BY DEF Init, PanelInv, Followed
<1>2. (TypeInv /\ AnswersInv) /\ PanelInv /\ [Next]_vars => PanelInv'
  BY NextPanel
<1> QED
  BY <1>1, <1>2, AlwaysAnswers, PTL DEF Spec

\* The panel of the wizard tells the outcome of the operation that it shows,
\* or, once a cancel was clicked, the words of the cancel, which are written over it
\* (beginOperation, updateOperation, finishOperation), unless two were followed at once.
THEOREM PanelTells == Spec => []PanelIsHonest
<1>1. PanelInv => PanelIsHonest
  BY DEF PanelInv, PanelOk, PanelIsHonest
<1> QED
  BY <1>1, AlwaysPanel, PTL

\* Proxmox is told to stop only what the user cancelled on its own panel
\* (cancelActiveOperation), under the same condition.
THEOREM CancelsItsOwn == Spec => []CancelHitsItsOwn
<1>1. PanelInv => CancelHitsItsOwn
  BY DEF PanelInv, CancelHitsItsOwn
<1> QED
  BY <1>1, AlwaysPanel, PTL
=============================================================================
