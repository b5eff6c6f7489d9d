---------------------------- MODULE ProxmoxTask ----------------------------
(***************************************************************************)
(* What the page asks of Proxmox: an operation of the user, the requests   *)
(* that the program sends for it (proxmox_service.py, the proxmox calls of *)
(* facade.py), the task it starts there and what the page makes of it      *)
(* (proxmox_wizard.js, app.js).                                            *)
(*                                                                         *)
(* Each request goes through a SOCKS listener of its own on the session of *)
(* the profile, and is served by a thread of the HTTP server.  An operation *)
(* is a coroutine of the page: it waits for one request at a time, follows *)
(* its task by polling, and goes on when the user closes the dialog.  The  *)
(* panel, its cancel button, activeTask and activeRequestController are    *)
(* shared by all operations of the wizard.                                 *)
(***************************************************************************)
EXTENDS Naturals

CONSTANTS
  Ops,        \* the operations the user starts
  Canceller,  \* the request by which the user cancels one
  None,       \* no operation
  MaxPolls,   \* bound on the polls of a task (900, or 300 for a download)
  MaxFaults   \* bound on lost sessions, lost answers and failed audit writes

ASSUME ConstantsAssumption ==
  /\ Canceller \notin Ops /\ None \notin Ops \cup {Canceller}
  /\ MaxPolls \in Nat \ {0} /\ MaxFaults \in Nat

VARIABLES
  session,     \* the SSH session of the profile
  rights,      \* what the role of the profile permits
  step,        \* where the request of each operation, or a cancel, is
  listener,    \* its SOCKS listener
  leaked,      \* the requests whose listener opened after they had given up
  answer,      \* what it will tell the page
  task,        \* what the operation has made Proxmox do
  asked,       \* the tasks that Proxmox was told to stop
  audited,     \* the operations in the audit log
  faults,      \* how many faults there were
  what,        \* what each operation is
  elsewhere,   \* its task runs at another node than the one that is asked
  follow,      \* where the coroutine of each operation is
  polls,       \* how many times it has asked
  report,      \* what it has told the user
  tripped,     \* history: the downloads that ended because the form was gone
  panel,       \* the operation whose panel the wizard shows
  shown,       \* what the panel says
  button,      \* its cancel button
  hidden,      \* the button is not to be seen
  activeTask, activeRequestController,
  target,      \* the task that the cancel request names
  from,        \* the panel on which it was clicked
  clicked,     \* history: the operations cancelled on their own panel
  mixed        \* history: one was started while another was still followed

linkVars   == <<session, rights, leaked>>
serverVars == <<linkVars, step, listener, answer, audited, faults>>
taskVars   == <<task, asked>>
opVars     == <<what, elsewhere, follow, polls, report, tripped>>
panelVars  == <<panel, shown, button, hidden>>
pageVars   == <<panelVars, activeTask, activeRequestController,
                target, from, clicked, mixed>>
vars == <<serverVars, taskVars, opVars, pageVars>>

\* A provision is a creation or a clone, followed in the panel; iso downloads one.
\* options stands for what the wizard asks of a node, the metadata of a URL too.
Tasked     == {"provision", "iso"}         \* followed by polls
Changes    == Tasked \cup {"power"}
Reads      == {"list", "options"}
Kinds      == Changes \cup Reads
Requests   == Ops \cup {Canceller}
TaskStates == {"running", "ok", "warned", "failed", "stopped", "unknown"}
Answers    == {"error", "accepted", "upid", "data"} \cup TaskStates
Outcomes   == {"done", "error", "cancelled"}
Cancelling == {"cancelling", "requested", "refused"}   \* words of a cancel

TypeOK ==
  /\ session \in {"up", "gone"} /\ rights \subseteq Kinds \cup {"status", "cancel"}
  /\ step \in [Requests -> {"idle", "sent", "proxied", "served", "answered"}]
  /\ listener \in [Requests -> {"none", "open", "dead"}] /\ leaked \subseteq Requests
  /\ answer \in [Requests -> Answers]
  /\ task \in [Ops -> {"none", "accepted"} \cup TaskStates]
  /\ asked \subseteq Ops /\ audited \subseteq Ops /\ faults \in 0..MaxFaults
  /\ what \in [Ops -> Kinds \cup {"none"}] /\ elsewhere \in [Ops -> BOOLEAN]
  /\ follow \in [Ops -> {"new", "request", "sleep", "poll", "refresh", "ended"}]
  /\ polls \in [Ops -> 0..MaxPolls] /\ report \in [Ops -> Outcomes \cup {"none"}]
  /\ panel \in Ops \cup {None} /\ shown \in Outcomes \cup Cancelling \cup {"busy"}
  /\ button \in {"ready", "busy"} /\ hidden \in BOOLEAN /\ tripped \subseteq Ops
  /\ activeTask \in Ops \cup {None} /\ activeRequestController \in Ops \cup {None}
  /\ target \in Ops \cup {None} /\ from \in Ops \cup {None}
  /\ clicked \subseteq Ops /\ mixed \in BOOLEAN

-----------------------------------------------------------------------------
(* permissions.py: what a profile may ask for.                             *)

Profile == [role : {"admin", "advisor", "student"}, can_proxmox_power : BOOLEAN,
            assigned : BOOLEAN]

\* proxmox_read is everybody's; the wizard and its downloads are for the admin.
permissions_for(p) ==
  {"list", "status", "cancel"}
    \cup (IF p.role = "admin" THEN Kinds ELSE {})
    \cup (IF p.can_proxmox_power THEN {"power"} ELSE {})

assert_vm_allowed(p) == p.role = "admin" \/ p.assigned

Rights(p) == permissions_for(p) \ (IF assert_vm_allowed(p) THEN {} ELSE {"power"})

Init ==
  /\ session = "up" /\ rights \in {Rights(p) : p \in Profile}
  /\ step = [r \in Requests |-> "idle"]
  /\ listener = [r \in Requests |-> "none"] /\ leaked = {}
  /\ answer = [r \in Requests |-> "error"]
  /\ task = [o \in Ops |-> "none"] /\ asked = {} /\ audited = {} /\ faults = 0
  /\ what = [o \in Ops |-> "none"] /\ elsewhere = [o \in Ops |-> FALSE]
  /\ follow = [o \in Ops |-> "new"] /\ polls = [o \in Ops |-> 0]
  /\ report = [o \in Ops |-> "none"] /\ tripped = {}
  /\ panel = None /\ shown = "busy" /\ button = "ready" /\ hidden = FALSE
  /\ activeTask = None /\ activeRequestController = None
  /\ target = None /\ from = None /\ clicked = {} /\ mixed = FALSE

Fault == faults < MaxFaults /\ faults' = faults + 1

-----------------------------------------------------------------------------
(* The program: one request, from the call of the page to its answer.      *)

\* What request r is for: an aborted operation asks for nothing more.
Asks(r) ==
  IF r = Canceller THEN "cancel"
  ELSE CASE follow[r] = "poll" -> "status"
         [] follow[r] = "refresh" -> "options"
         [] OTHER -> what[r]

\* A request by which the page follows what it has started, as Proxmox expects it.
Following(r) ==
  r # Canceller /\ (follow[r] = "refresh" \/ (follow[r] = "poll" /\ ~elsewhere[r]))

Goto(r, next) == step' = [step EXCEPT ![r] = next]

\* The checks of the role and of the parameters, before anything is sent, and
\* open_socks without a session.
Refused(r) ==
  /\ step[r] = "sent"
  /\ \/ Asks(r) \notin rights \/ session = "gone"
     \/ Asks(r) \in Kinds /\ ~Following(r)
  /\ Goto(r, "answered") /\ answer' = [answer EXCEPT ![r] = "error"]
  /\ UNCHANGED <<linkVars, listener, audited, faults, taskVars, opVars, pageVars>>

Proxied(r) ==
  /\ step[r] = "sent" /\ Asks(r) \in rights /\ session = "up"
  /\ Goto(r, "proxied") /\ listener' = [listener EXCEPT ![r] = "open"]
  /\ UNCHANGED <<linkVars, answer, audited, faults, taskVars, opVars, pageVars>>

\* open_socks is over after 10 s, before the try of _request: the coroutine goes on,
\* and the listener that it may open is nobody's.
ProxiedTooLate(r) ==
  /\ step[r] = "sent" /\ Asks(r) \in rights /\ session = "up"
  /\ Fault
  /\ Goto(r, "answered") /\ answer' = [answer EXCEPT ![r] = "error"]
  /\ leaked' \in {leaked, leaked \cup {r}}
  /\ UNCHANGED <<session, rights, listener, audited, taskVars, opVars, pageVars>>

\* What Proxmox does for a request that reaches it, and what it answers: a POST
\* starts a task, and the answer to it has a UPID or none.
Change(o) ==
  /\ \E s \in {"accepted", "running"} :
       /\ task' = [task EXCEPT ![o] = s]
       /\ answer' = [answer EXCEPT ![o] = IF s = "running" THEN "upid" ELSE s]
  /\ UNCHANGED asked

Read(r) == answer' = [answer EXCEPT ![r] = "data"] /\ UNCHANGED taskVars

create_or_clone_vm(r) == Asks(r) = "provision" /\ Change(r)
download_iso(r)       == Asks(r) = "iso" /\ Change(r)
power_action(r)       == Asks(r) = "power" /\ Change(r)
list_vms(r)           == Asks(r) = "list" /\ Read(r)
node_options(r)       == Asks(r) = "options" /\ Read(r)

\* A task is known to the node that runs it; a DELETE only tells it to stop.
task_status(r) ==
  /\ Asks(r) = "status" /\ ~elsewhere[r]
  /\ answer' = [answer EXCEPT ![r] = task[r]]
  /\ UNCHANGED taskVars

cancel_task(r) ==
  /\ Asks(r) = "cancel" /\ ~elsewhere[target]
  /\ asked' = asked \cup {target}
  /\ answer' = [answer EXCEPT ![r] = "accepted"]
  /\ UNCHANGED task

Effect(r) ==
  \/ create_or_clone_vm(r) \/ download_iso(r) \/ power_action(r)
  \/ list_vms(r) \/ node_options(r) \/ task_status(r) \/ cancel_task(r)

Served(r) ==
  /\ step[r] = "proxied" /\ listener[r] = "open"
  /\ Effect(r)
  /\ Goto(r, "served")
  /\ UNCHANGED <<linkVars, listener, audited, faults, opVars, pageVars>>

\* HTTP 400 and above, no connection, or no credentials to ask with at all.  That
\* a node does not tell of its own task, or of itself, is a fault.
Declined(r) ==
  /\ step[r] = "proxied"
  /\ IF Following(r) /\ listener[r] = "open"
     THEN Fault ELSE UNCHANGED faults
  /\ Goto(r, "served") /\ answer' = [answer EXCEPT ![r] = "error"]
  /\ UNCHANGED <<linkVars, listener, audited, taskVars, opVars, pageVars>>

\* The request is carried out, and its answer does not arrive in 20 s.
Unanswered(r) ==
  /\ step[r] = "proxied" /\ listener[r] = "open" /\ Asks(r) \in Changes
  /\ Fault
  /\ task' = [task EXCEPT ![r] = "running"] /\ answer' = [answer EXCEPT ![r] = "error"]
  /\ Goto(r, "served")
  /\ UNCHANGED <<linkVars, listener, audited, asked, opVars, pageVars>>

\* The finally of _request: close_forward raises where the session is gone, and
\* only there (ssh_service.py:529-546).
RaisesAlways == TRUE   \* a bug: a listener that is slow to close is an error
Raises == session = "gone"

LeftOpen(r) == UNCHANGED listener   \* a bug: no finally
Closed(r) == listener' = [listener EXCEPT ![r] = "none"]

Answered(r, result) ==
  /\ Goto(r, "answered") /\ Closed(r)
  /\ answer' = [answer EXCEPT ![r] = result]
  /\ UNCHANGED <<linkVars, taskVars, opVars, pageVars>>

Logs(r) == Asks(r) \in Changes /\ answer[r] # "error"

\* Then the audit row of a change, or of a cancel; it raises if it cannot be
\* written.  The HTTP answer tells of the error that came last.
FinishedAnyhow(r) ==   \* a bug: a failure to close hides that nothing is logged
  /\ step[r] = "served"
  /\ Answered(r, answer[r])
  /\ audited' = IF Logs(r) /\ ~Raises THEN audited \cup {r} ELSE audited
  /\ UNCHANGED faults

Finished(r) ==
  /\ step[r] = "served"
  /\ Answered(r, IF Raises THEN "error" ELSE answer[r])
  /\ audited' = IF Logs(r) /\ ~Raises THEN audited \cup {r} ELSE audited
  /\ UNCHANGED faults

AuditFails(r) ==
  /\ step[r] = "served" /\ ~Raises
  /\ Logs(r) \/ (r = Canceller /\ answer[r] # "error")
  /\ Fault
  /\ Answered(r, "error")
  /\ UNCHANGED audited

\* installer_options and node_install_options: one request after the other, each
\* through its own listener; the contents of a storage that fails are left out.
NextRead(r) ==
  /\ step[r] = "served" /\ Asks(r) = "options" /\ ~Raises /\ polls[r] < MaxPolls
  /\ Goto(r, "sent") /\ Closed(r)
  /\ polls' = [polls EXCEPT ![r] = @ + 1]
  /\ UNCHANGED <<linkVars, answer, audited, faults, taskVars, what, elsewhere,
                 follow, report, tripped, pageVars>>

Program(r) ==
  \/ Refused(r) \/ Proxied(r) \/ ProxiedTooLate(r) \/ Served(r) \/ Declined(r) \/ Unanswered(r)
  \/ Finished(r) \/ AuditFails(r)
  \/ r \in Ops /\ NextRead(r)

\* The session is lost or closed, with every listener; the user connects again.
SessionLost ==
  /\ session = "up" /\ Fault
  /\ session' = "gone" /\ leaked' = {}
  /\ listener' = [r \in Requests |-> IF listener[r] = "open" THEN "dead" ELSE listener[r]]
  /\ UNCHANGED <<rights, step, answer, audited, taskVars, opVars, pageVars>>

Reconnect ==
  /\ session = "gone" /\ session' = "up"
  /\ UNCHANGED <<rights, leaked, step, listener, answer, audited, faults, taskVars, opVars,
                 pageVars>>

\* A task ends by itself, or stopped once it was told to: exitstatus is OK, tells of
\* warnings, of an error or of an interruption, or is not there.
TaskEnds(o) ==
  /\ task[o] = "running"
  /\ \E s \in TaskStates \ {"running"} :
       /\ s = "stopped" => o \in asked
       /\ task' = [task EXCEPT ![o] = s]
  /\ UNCHANGED <<serverVars, asked, opVars, pageVars>>

-----------------------------------------------------------------------------
(* The page.                                                               *)

InPanel(o)  == what[o] = "provision"
Followed(o) == InPanel(o) /\ follow[o] \notin {"new", "ended"}

\* executeProvision with beginOperation, downloadIso, a click on a power button
\* or a read: the request leaves.  A wizard that shows a panel starts nothing.
NewPanel(o) ==
  /\ panel' = o /\ shown' = "busy" /\ button' = "ready" /\ hidden' = FALSE
  /\ activeRequestController' = o

BeginKeepsTask(o) == NewPanel(o) /\ UNCHANGED activeTask   \* a bug: it is left as it was

BeginOperation(o) == NewPanel(o) /\ activeTask' = None

Begin(o) ==
  /\ follow[o] = "new" /\ step[o] = "idle"
  /\ \E k \in Kinds :
       /\ k \in Tasked => panel = None
       /\ what' = [what EXCEPT ![o] = k]
       /\ IF k = "provision"
          THEN BeginOperation(o) /\ mixed' = (mixed \/ \E p \in Ops : Followed(p))
          ELSE UNCHANGED <<panelVars, activeRequestController, activeTask, mixed>>
  /\ follow' = [follow EXCEPT ![o] = "request"]
  /\ Goto(o, "sent")
  /\ UNCHANGED <<linkVars, listener, answer, audited, faults, taskVars, elsewhere,
                 polls, report, tripped, target, from, clicked>>

CloseModal ==
  /\ panel # None
  /\ panel' = None /\ shown' = "busy" /\ button' = "ready" /\ hidden' = FALSE
  /\ UNCHANGED <<serverVars, taskVars, opVars, activeTask, activeRequestController,
                 target, from, clicked, mixed>>

\* Both write on the panel that is there, whichever it is.
UpdateOperation(words) == shown' = IF panel = None THEN shown ELSE words
FinishOperation(kind)  == UpdateOperation(kind) /\ hidden' = (panel # None)
KeepPanel == UNCHANGED <<shown, hidden>>

End(o, kind) ==
  /\ follow' = [follow EXCEPT ![o] = "ended"]
  /\ report' = [report EXCEPT ![o] = kind]
  /\ polls' = [polls EXCEPT ![o] = 0]

\* After a download the options of the node are read again, and then it is done.
Settled(o, kind) ==
  IF what[o] = "iso" /\ kind = "done"
  THEN /\ follow' = [follow EXCEPT ![o] = "refresh"]
       /\ polls' = [polls EXCEPT ![o] = 0] /\ UNCHANGED report
  ELSE End(o, kind)

\* The coroutine of o takes the answer to its request.
Takes(o) ==
  /\ step[o] = "answered" /\ Goto(o, "idle")
  /\ answer' = [answer EXCEPT ![o] = "error"]
  /\ UNCHANGED <<linkVars, listener, audited, faults, taskVars, what, panel, button,
                 target, from, clicked, mixed>>

\* The first answer: an error, done as far as the page follows it, or a UPID.  A clone
\* runs at its source and is followed at its target; a download is followed at the
\* node that the form shows by now.
ResponseTaken(o) ==
  /\ follow[o] = "request" /\ Takes(o)
  /\ LET over == IF answer[o] = "error" THEN "error" ELSE "done" IN
     IF answer[o] = "upid" /\ what[o] \in Tasked
     THEN /\ follow' = [follow EXCEPT ![o] = "sleep"] /\ UNCHANGED <<polls, report>>
          /\ \E e \in BOOLEAN : elsewhere' = [elsewhere EXCEPT ![o] = e]
          /\ IF InPanel(o) THEN UpdateOperation("busy") /\ hidden' = FALSE ELSE KeepPanel
     ELSE /\ Settled(o, over) /\ UNCHANGED elsewhere
          /\ IF InPanel(o) THEN FinishOperation(over) ELSE KeepPanel
  /\ IF InPanel(o)
     THEN /\ activeRequestController' = None
          /\ activeTask' = IF answer[o] = "upid" THEN o ELSE activeTask
     ELSE UNCHANGED <<activeRequestController, activeTask>>
  /\ UNCHANGED tripped

\* The answer to a request whose coroutine was aborted.
Unheard(o) ==
  /\ follow[o] = "ended" /\ Takes(o)
  /\ UNCHANGED <<elsewhere, follow, polls, report, tripped, shown, hidden, activeTask,
                 activeRequestController>>

PollOnceMore(o) ==   \* a bug: off by one
  /\ follow[o] = "sleep"
  /\ polls' = [polls EXCEPT ![o] = @ + 1]
  /\ follow' = [follow EXCEPT ![o] = "poll"]
  /\ Goto(o, "sent")
  /\ UNCHANGED <<linkVars, listener, answer, audited, faults, taskVars, what,
                 elsewhere, report, tripped, pageVars>>

\* A second later: another poll, unless there were enough.
Poll(o) ==
  /\ follow[o] = "sleep" /\ polls[o] < MaxPolls
  /\ polls' = [polls EXCEPT ![o] = @ + 1]
  /\ follow' = [follow EXCEPT ![o] = "poll"]
  /\ Goto(o, "sent")
  /\ UNCHANGED <<linkVars, listener, answer, audited, faults, taskVars, what,
                 elsewhere, report, tripped, pageVars>>

\* There were enough: an error, and the button can be seen; the task goes on.
GiveUp(o) ==
  /\ follow[o] = "sleep" /\ polls[o] = MaxPolls
  /\ follow' = [follow EXCEPT ![o] = "ended"]
  /\ report' = [report EXCEPT ![o] = "error"]
  /\ IF InPanel(o) THEN UpdateOperation("error") /\ hidden' = FALSE ELSE KeepPanel
  /\ UNCHANGED <<serverVars, taskVars, what, elsewhere, polls, tripped, panel, button,
                 activeTask, activeRequestController, target, from, clicked, mixed>>

OutcomeAny(o) ==   \* a bug: a task that is over is taken for one that went well
  IF answer[o] = "error" THEN "error" ELSE "done"

\* waitForProvisionTask, waitForTask: only OK is success, or no exitstatus for a
\* download; a task that was stopped is cancelled in the panel only.
Outcome(o) ==
  CASE answer[o] = "ok" -> "done"
    [] answer[o] = "unknown" /\ ~InPanel(o) -> "done"
    [] answer[o] = "stopped" /\ InPanel(o) -> "cancelled"
    [] OTHER -> "error"

PollTaken(o) ==
  /\ follow[o] = "poll" /\ Takes(o)
  /\ IF answer[o] = "running"
     THEN /\ follow' = [follow EXCEPT ![o] = "sleep"] /\ UNCHANGED <<polls, report>>
          /\ IF InPanel(o) THEN UpdateOperation("busy") /\ UNCHANGED hidden ELSE KeepPanel
     ELSE /\ Settled(o, Outcome(o))
          /\ IF InPanel(o) THEN FinishOperation(Outcome(o)) ELSE KeepPanel
  /\ IF InPanel(o) /\ answer[o] = "error"
     THEN activeRequestController' = None
     ELSE UNCHANGED activeRequestController
  /\ UNCHANGED <<elsewhere, tripped, activeTask>>

Refresh(o) ==
  /\ follow[o] = "refresh" /\ step[o] = "idle"
  /\ Goto(o, "sent")
  /\ UNCHANGED <<linkVars, listener, answer, audited, faults, taskVars, opVars,
                 pageVars>>

RefreshTaken(o) ==
  /\ follow[o] = "refresh" /\ Takes(o)
  /\ End(o, IF answer[o] = "error" THEN "error" ELSE "done")
  /\ KeepPanel /\ UNCHANGED <<elsewhere, tripped, activeTask, activeRequestController>>

\* Between its answers a download reads the form of the wizard: where that is closed
\* by then, it ends with an error of the page.
FormGone(o) ==
  /\ what[o] = "iso" /\ panel = None /\ answer[o] # "error"
  /\ follow[o] \in {"request", "refresh"} \/ (follow[o] = "poll" /\ Outcome(o) = "done")
  /\ Takes(o)
  /\ End(o, "error") /\ tripped' = tripped \cup {o}
  /\ KeepPanel /\ UNCHANGED <<elsewhere, activeTask, activeRequestController>>

NotAborted(o) == UNCHANGED <<follow, report, polls>>  \* a bug: fetch has no signal
Aborted(o) == End(o, "cancelled")

\* cancelActiveOperation: a DELETE of the active task, or else the request is
\* aborted, or else nothing happens.
CanClick == panel # None /\ ~hidden /\ button = "ready"

CancelTask ==
  /\ CanClick /\ activeTask # None /\ step[Canceller] = "idle"
  /\ Goto(Canceller, "sent")
  /\ target' = activeTask /\ from' = panel
  /\ button' = "busy" /\ UpdateOperation("cancelling")
  /\ clicked' = clicked \cup {panel}
  /\ UNCHANGED <<linkVars, listener, answer, audited, faults, taskVars, opVars,
                 panel, hidden, activeTask, activeRequestController, mixed>>

AbortRequest ==
  /\ CanClick /\ activeTask = None
  /\ button' = "busy"
  /\ clicked' = clicked \cup {panel}
  /\ IF activeRequestController # None
     THEN /\ Aborted(activeRequestController) /\ activeRequestController' = None
          /\ FinishOperation("cancelled")
     ELSE KeepPanel /\ UNCHANGED <<follow, report, polls, activeRequestController>>
  /\ UNCHANGED <<serverVars, taskVars, what, elsewhere, tripped, panel, activeTask, target,
                 from, mixed>>

\* The panel that is there is told of it, even over an outcome; the button of the
\* one that was clicked stays as it is when the cancel was accepted.
CancelTaken ==
  /\ step[Canceller] = "answered" /\ Goto(Canceller, "idle")
  /\ answer' = [answer EXCEPT ![Canceller] = "error"]
  /\ button' = IF answer[Canceller] = "error" /\ panel = from THEN "ready" ELSE button
  /\ UpdateOperation(IF answer[Canceller] = "error" THEN "refused" ELSE "requested")
  /\ target' = None /\ from' = None
  /\ UNCHANGED <<linkVars, listener, audited, faults, taskVars, opVars,
                 panel, hidden, activeTask, activeRequestController, clicked, mixed>>

Page(o) ==
  \/ ResponseTaken(o) \/ Unheard(o) \/ Poll(o) \/ GiveUp(o) \/ PollTaken(o)
  \/ Refresh(o) \/ RefreshTaken(o) \/ FormGone(o)

\* Nobody waits for an answer: the only states in which all may stop.  As every
\* step is made a bounded number of times, a run without a deadlock shows that
\* each operation comes to an end.
Rest ==
  /\ \A o \in Ops : follow[o] \in {"new", "ended"}
  /\ \A r \in Requests : step[r] = "idle"
  /\ UNCHANGED vars

Next ==
  \/ \E o \in Ops : Begin(o) \/ Page(o) \/ TaskEnds(o)
  \/ \E r \in Requests : Program(r)
  \/ SessionLost \/ Reconnect
  \/ CloseModal \/ CancelTask \/ AbortRequest \/ CancelTaken \/ Rest

Spec == Init /\ [][Next]_vars

-----------------------------------------------------------------------------
(* Properties.                                                             *)

\* The user is told that an operation is done only when it is: the task has ended
\* well, or Proxmox has accepted what the page does not follow further.  Of a
\* download without an exitstatus nobody knows (proxmox_wizard.js:558).
DoneIsTrue ==
  \A o \in Ops : (report[o] = "done" /\ what[o] \in Changes) =>
    \/ task[o] \in {"ok", "accepted"}
    \/ what[o] = "power" /\ task[o] # "none"
    \/ what[o] = "iso" /\ task[o] = "unknown"

\* Where nothing was lost, an error that the user is told of is one: Proxmox has not
\* done the operation, or did not do it well.  Three errors are the page's own: it
\* asks a node that does not run the task (proxmox_service.py:692), it has polled
\* long enough, or it reads a form that is closed.
ErrorsAreReal ==
  \A o \in Ops : (faults = 0 /\ report[o] = "error" /\ what[o] \in Changes) =>
    \/ task[o] \in {"none", "failed", "stopped", "warned"}
    \/ task[o] = "unknown" /\ InPanel(o)
    \/ elsewhere[o] \/ polls[o] = MaxPolls \/ o \in tripped

\* The panel tells the outcome of its own operation and none before it ends, if no
\* other was still followed when one was started; the words of a cancel, which come
\* when its answer does, may stand in its place.
PanelIsHonest ==
  ~mixed /\ panel # None =>
    \/ shown = IF follow[panel] = "ended" THEN report[panel] ELSE "busy"
    \/ shown \in Cancelling /\ clicked # {}

\* A task is stopped only if the user asked for it on the panel of its operation.
CancelHitsItsOwn == ~mixed => asked \subseteq clicked

\* The audit log has an operation only if it was carried out, and every one that
\* the user is told was accepted.
AuditAgrees ==
  \A o \in Ops :
    /\ o \in audited => task[o] # "none"
    /\ (report[o] = "done" /\ what[o] \in Changes) => o \in audited

\* No SOCKS listener that a request was given outlives it, however it ends.  Others
\* are open only after an open_socks that was too late, and end with the session.
ListenersAreClosed ==
  /\ \A r \in Requests : listener[r] # "none" => step[r] \in {"proxied", "served"}
  /\ leaked # {} => faults > 0 /\ session = "up"
=============================================================================
