----------------------------- MODULE Workspace -----------------------------
(***************************************************************************)
(* The workspace of one profile: workspace_open, workspace_close,          *)
(* workspace_status and ssh_disconnect of workspace_multiuser.py, and the  *)
(* shell scripts that they run at the VM as the SSH user.                  *)
(*                                                                         *)
(* A call runs on a thread of the HTTP server and waits for its script for *)
(* a bounded time; the script, once sent, runs to its end at the VM        *)
(* whether or not somebody still waits for it.  Scripts share two files of *)
(* the user, pid and port; the port that a script draws stands for the     *)
(* instance it starts, whose access token is as unique.  kill only asks a  *)
(* process to stop: it may take its time, or never come to an end.         *)
(***************************************************************************)
EXTENDS Naturals, FiniteSets

CONSTANTS
  Calls,       \* the threads that may serve calls of the profile
  Shells,      \* the scripts that may run at the VM at the same time
  None,        \* no call, no instance, no listener
  MaxCalls,    \* bound on the calls made
  MaxSessions, \* bound on the attempts to connect and the restarts
  MaxExits     \* bound on the instances that exit by themselves

\* Each call starts one instance at most, and makes one forward.  Ports and
\* forward ids are drawn at random: they are numbered as they are drawn.
Instances == 1 .. MaxCalls
Listeners == 1 .. MaxCalls

ASSUME ConstantsAssumption ==
  /\ None \notin Calls \cup Nat
  /\ MaxCalls \in Nat /\ MaxSessions \in Nat /\ MaxExits \in Nat

VARIABLES
  session,     \* the SSH session of the profile
  sessions,    \* how many times it was asked for, or the program restarted
  stored,      \* _workspace_forwards[profile]
  listener,    \* the local socket of each forward
  late,        \* the open_forward coroutines whose caller has given up
  pc,          \* where each call is
  kind,        \* what each call was made for
  got,         \* the instance that an open has started or found again
  fwd,         \* the forward that an open has made
  begun,       \* how many calls were made
  unheard,     \* history: the forwards whose id no caller was told
  overlapped,  \* history: two calls of the profile were in flight at once
  raced,       \* history: a script was sent while another one made its changes
  step,        \* where each script is
  caller,      \* the call that waits for the script
  own,         \* the instance that the script starts
  out,         \* what the script has printed, once done
  instance,    \* the life of each instance
  pidFile,     \* $STATE/pid
  portFile     \* $STATE/port

sessionVars == <<session, sessions>>
callVars    == <<pc, kind, got, fwd, begun, overlapped>>
lateVars    == <<late, unheard>>
shellVars   == <<step, caller, own, out, raced>>
vmVars      == <<instance, pidFile, portFile>>
vars == <<sessionVars, stored, listener, callVars, lateVars, shellVars, vmVars>>

Kinds      == {"open", "close", "disconnect", "status"}
Points     == {"idle", "probe", "sendStop", "stop", "sendStart", "start",
               "forward", "store", "disconnect"}
StopSteps  == {"stopKill", "stopRemove"}
StartSteps == {"startKill", "startPort", "startLaunch", "startPid", "startWait"}
Changing   == StopSteps \cup StartSteps
Output     == [ok : BOOLEAN, running : BOOLEAN, port : Instances \cup {None}]
Failed     == [ok |-> FALSE, running |-> FALSE, port |-> None]
Forward    == [inst : Instances, fwd : Listeners]
NoForward  == [inst |-> None, fwd |-> None]
Life       == {"free", "drawn", "starting", "serving", "stopping", "exited", "killed"}

TypeOK ==
  /\ session \in {"none", "up", "lost"} /\ sessions \in 0..MaxSessions
  /\ stored \in Forward \cup {NoForward}
  /\ listener \in [Listeners -> {"free", "open", "closed"}]
  /\ late \in Nat /\ unheard \subseteq Listeners
  /\ pc \in [Calls -> Points] /\ kind \in [Calls -> Kinds]
  /\ got \in [Calls -> Instances \cup {None}]
  /\ fwd \in [Calls -> Listeners \cup {None}]
  /\ begun \in 0..MaxCalls /\ overlapped \in BOOLEAN /\ raced \in BOOLEAN
  /\ step \in [Shells -> {"idle", "probe", "done"} \cup Changing]
  /\ caller \in [Shells -> Calls \cup {None}]
  /\ own \in [Shells -> Instances \cup {None}]
  /\ out \in [Shells -> Output]
  /\ instance \in [Instances -> Life]
  /\ pidFile \in Instances \cup {None} /\ portFile \in Instances \cup {None}

Init ==
  /\ session = "none" /\ sessions = 0
  /\ stored = NoForward
  /\ listener = [l \in Listeners |-> "free"] /\ late = 0 /\ unheard = {}
  /\ pc = [c \in Calls |-> "idle"] /\ kind = [c \in Calls |-> "status"]
  /\ got = [c \in Calls |-> None] /\ fwd = [c \in Calls |-> None]
  /\ begun = 0 /\ overlapped = FALSE /\ raced = FALSE
  /\ step = [s \in Shells |-> "idle"] /\ caller = [s \in Shells |-> None]
  /\ own = [s \in Shells |-> None] /\ out = [s \in Shells |-> Failed]
  /\ instance = [i \in Instances |-> "free"]
  /\ pidFile = None /\ portFile = None

\* kill -0: there is a process; it runs on unless it was told to stop.
Alive(i) == i # None /\ instance[i] \in {"starting", "serving", "stopping"}
Runs(i)  == i # None /\ instance[i] \in {"starting", "serving"}
Running  == {i \in Instances : Runs(i)}
\* The process answers; one that was told to stop may do so for a while.
Answers(i) == instance[i] \in {"serving", "stopping"}

-----------------------------------------------------------------------------
(* The scripts at the VM.                                                  *)

\* A script ends: its output waits for the caller, if there still is one.
EndScript(s, output) ==
  LET heard == caller[s] # None IN
  /\ step' = [step EXCEPT ![s] = IF heard THEN "done" ELSE "idle"]
  /\ out' = [out EXCEPT ![s] = IF heard THEN output ELSE Failed]
  /\ own' = [own EXCEPT ![s] = None]
  /\ UNCHANGED caller

Goto(s, next) == step' = [step EXCEPT ![s] = next] /\ UNCHANGED <<caller, out>>

NotTold(i) == instance   \* a bug: the process that was found is left running

\* kill -0 "$PID" && kill "$PID": nothing happens where the process is gone.
Told(i) == IF Alive(i) THEN [instance EXCEPT ![i] = "stopping"] ELSE instance

RemoveFiles == pidFile' = None /\ portFile' = None
KeepFiles   == UNCHANGED <<pidFile, portFile>>

\* Running: both files are there, the process exists and the port answers in
\* time.  An installation that is not complete makes the answer not ok.
Probe(s) ==
  /\ step[s] = "probe"
  /\ \E installed, answers \in BOOLEAN :
       EndScript(s, [ok      |-> installed,
                     running |-> /\ answers /\ portFile # None
                                 /\ Alive(pidFile) /\ Answers(portFile),
                     port    |-> portFile])
  /\ UNCHANGED vmVars

StopKill(s) ==
  /\ step[s] = "stopKill"
  /\ instance' = Told(pidFile)
  /\ Goto(s, "stopRemove")
  /\ KeepFiles /\ UNCHANGED own

\* After the wait, of 2 s at most, whether or not the process has ended.
StopRemove(s) ==
  /\ step[s] = "stopRemove"
  /\ RemoveFiles
  /\ EndScript(s, [Failed EXCEPT !.ok = TRUE])
  /\ UNCHANGED instance

\* The process of the pid file is told to stop, whoever has started it, and the
\* script goes on 0.2 s later.
StartKillNothing(s) ==
  /\ step[s] = "startKill"
  /\ instance' = NotTold(pidFile)
  /\ Goto(s, "startPort")
  /\ KeepFiles /\ UNCHANGED own

StartKill(s) ==
  /\ step[s] = "startKill"
  /\ instance' = Told(pidFile)
  /\ Goto(s, "startPort")
  /\ KeepFiles /\ UNCHANGED own

\* A free port is drawn and written to its file.
StartPort(s) ==
  /\ step[s] = "startPort"
  /\ \E i \in Instances :
       /\ instance[i] = "free" /\ \A j \in 1 .. i - 1 : instance[j] # "free"
       /\ instance' = [instance EXCEPT ![i] = "drawn"]
       /\ own' = [own EXCEPT ![s] = i]
       /\ portFile' = i
  /\ Goto(s, "startLaunch")
  /\ UNCHANGED pidFile

StartLaunch(s) ==
  /\ step[s] = "startLaunch"
  /\ instance' = [instance EXCEPT ![own[s]] = "starting"]
  /\ Goto(s, "startPid")
  /\ KeepFiles /\ UNCHANGED own

StartPid(s) ==
  /\ step[s] = "startPid"
  /\ pidFile' = own[s]
  /\ Goto(s, "startWait")
  /\ UNCHANGED <<instance, portFile, own>>

\* exit 20 to 24: no Python, no installation, no port, no directory.
StartRefused(s) ==
  /\ step[s] \in {"startKill", "startPort", "startLaunch"}
  /\ EndScript(s, Failed)
  /\ UNCHANGED vmVars

StartReady(s) ==
  /\ step[s] = "startWait"
  /\ Answers(own[s])
  /\ EndScript(s, [ok |-> TRUE, running |-> TRUE, port |-> own[s]])
  /\ UNCHANGED vmVars

\* The process is gone, or fifteen rounds have passed without an answer.
StartTooLateLeft(s) ==   \* a bug: the files go and the process stays
  /\ step[s] = "startWait"
  /\ RemoveFiles /\ UNCHANGED instance
  /\ EndScript(s, Failed)

StartTooLate(s) ==
  /\ step[s] = "startWait"
  /\ instance' = Told(own[s])
  /\ RemoveFiles
  /\ EndScript(s, Failed)

\* Nobody reads what the script prints: its first echo may be its end.
StartCut(s) ==
  /\ step[s] = "startWait" /\ caller[s] = None
  /\ EndScript(s, Failed)
  /\ UNCHANGED vmVars

Script(s) ==
  /\ \/ Probe(s) \/ StopKill(s) \/ StopRemove(s) \/ StartKill(s) \/ StartPort(s)
     \/ StartLaunch(s) \/ StartPid(s) \/ StartRefused(s) \/ StartReady(s)
     \/ StartTooLate(s) \/ StartCut(s)
  /\ UNCHANGED <<sessionVars, stored, listener, callVars, lateVars, raced>>

InstanceKeepsRest ==
  UNCHANGED <<sessionVars, stored, listener, callVars, lateVars, shellVars, pidFile, portFile>>

InstanceServes(i) ==
  /\ instance[i] = "starting"
  /\ instance' = [instance EXCEPT ![i] = "serving"]
  /\ InstanceKeepsRest

InstanceExits(i) ==
  /\ Runs(i)
  /\ Cardinality({j \in Instances : instance[j] = "exited"}) < MaxExits
  /\ instance' = [instance EXCEPT ![i] = "exited"]
  /\ InstanceKeepsRest

\* A process that was told to stop comes to its end.
InstanceStops(i) ==
  /\ instance[i] = "stopping"
  /\ instance' = [instance EXCEPT ![i] = "killed"]
  /\ InstanceKeepsRest

-----------------------------------------------------------------------------
(* The calls.  A call that the session cannot serve at once changes nothing *)
(* and is left out, a close or a disconnect excepted.                       *)

\* run_command: a script is sent; Delivered, once its output has come back.
Exec(c, first) ==
  /\ \E s \in Shells :
       /\ step[s] = "idle"
       /\ step' = [step EXCEPT ![s] = first]
       /\ caller' = [caller EXCEPT ![s] = c]
  /\ raced' = (raced \/ (first \in Changing /\ \E s \in Shells : step[s] \in Changing))
  /\ UNCHANGED <<own, out>>

Delivered(c, s) == caller[s] = c /\ step[s] = "done"

Taken(c, s) ==
  /\ Delivered(c, s)
  /\ step' = [step EXCEPT ![s] = "idle"]
  /\ caller' = [caller EXCEPT ![s] = None]
  /\ out' = [out EXCEPT ![s] = Failed]
  /\ UNCHANGED <<own, raced>>

NoScript == UNCHANGED shellVars

Goes(c, point) == pc' = [pc EXCEPT ![c] = point]
Holds(c, i, l) == got' = [got EXCEPT ![c] = i] /\ fwd' = [fwd EXCEPT ![c] = l]
HoldsNothing(c) == Holds(c, None, None)
KeepsHold == UNCHANGED <<got, fwd>>

Closed(l) == [listener EXCEPT ![l] = "closed"]
\* The connection closes, and with it every forward and every channel: what a
\* script prints from now on is not heard.
EveryForwardClosed ==
  [l \in Listeners |-> IF listener[l] = "open" THEN "closed" ELSE listener[l]]

DropConnection ==
  /\ listener' = EveryForwardClosed
  /\ caller' = [s \in Shells |-> IF step[s] = "done" THEN caller[s] ELSE None]

\* What is stored of the profile is popped, and its forward closed.
PopKeepsOpen ==    \* a bug: it is popped and not closed
  stored' = NoForward /\ UNCHANGED listener

PopNothing ==      \* a bug: neither
  UNCHANGED <<stored, listener>>

PopForward ==
  /\ stored' = NoForward
  /\ listener' = IF stored = NoForward THEN listener ELSE Closed(stored.fwd)

KeepForward == UNCHANGED <<stored, listener>>

Begin(c) ==
  /\ pc[c] = "idle" /\ begun < MaxCalls
  /\ begun' = begun + 1
  /\ overlapped' = (overlapped \/ \E b \in Calls : pc[b] # "idle")
  /\ \E k \in Kinds :
       /\ kind' = [kind EXCEPT ![c] = k]
       /\ \/ /\ k \in {"open", "status"} /\ session = "up"
             /\ Exec(c, "probe") /\ Goes(c, "probe") /\ KeepForward
          \/ /\ k = "close" \/ (k = "disconnect" /\ session = "up")
             /\ PopForward /\ Goes(c, "sendStop") /\ NoScript
          \/ /\ k = "disconnect" /\ session # "up"
             /\ Goes(c, "disconnect") /\ KeepForward /\ NoScript
  /\ KeepsHold /\ UNCHANGED <<sessionVars, lateVars, vmVars>>

CallKeepsRest == UNCHANGED <<sessionVars, kind, begun, overlapped, vmVars>>
CallStep == CallKeepsRest /\ UNCHANGED lateVars

\* workspace_open goes on after the probe: its instance serves again if it runs
\* and is the one whose forward and token are stored.
Reuses(o) == stored # NoForward /\ o.running /\ stored.inst = o.port

Probed(c) ==
  /\ pc[c] = "probe"
  /\ \E s \in Shells :
       /\ Taken(c, s)
       /\ IF kind[c] = "status" \/ ~out[s].ok
          THEN Goes(c, "idle") /\ KeepForward /\ KeepsHold
          ELSE /\ PopForward
               /\ IF Reuses(out[s])
                  THEN Goes(c, "forward") /\ Holds(c, stored.inst, None)
                  ELSE /\ Goes(c, IF out[s].running THEN "sendStop" ELSE "sendStart")
                       /\ KeepsHold
  /\ CallStep

AfterStop(c) ==
  CASE kind[c] = "open" -> "sendStart"
    [] kind[c] = "disconnect" -> "disconnect"
    [] OTHER -> "idle"

\* _stop_instance: nothing where the session is gone, and no error.
SendStop(c) ==
  /\ pc[c] = "sendStop"
  /\ \/ session = "up" /\ Exec(c, "stopKill") /\ Goes(c, "stop")
     \/ session # "up" /\ NoScript /\ Goes(c, AfterStop(c))
  /\ KeepsHold /\ KeepForward /\ CallStep

Stopped(c) ==
  /\ pc[c] = "stop"
  /\ \E s \in Shells : Taken(c, s)
  /\ Goes(c, AfterStop(c))
  /\ KeepsHold /\ KeepForward /\ CallStep

SendStart(c) ==
  /\ pc[c] = "sendStart"
  /\ \/ session = "up" /\ Exec(c, "startKill") /\ Goes(c, "start")
     \/ session # "up" /\ NoScript /\ Goes(c, "idle")
  /\ KeepsHold /\ KeepForward /\ CallStep

Started(c) ==
  /\ pc[c] = "start"
  /\ \E s \in Shells :
       /\ Taken(c, s)
       /\ IF out[s].ok THEN Goes(c, "forward") /\ Holds(c, out[s].port, None)
                       ELSE Goes(c, "idle") /\ KeepsHold
  /\ KeepForward /\ CallStep

NextListener(l) == listener[l] = "free" /\ \A j \in 1 .. l - 1 : listener[j] # "free"

\* open_forward: a socket, or an error that ends the call; the instance stays.
\* After 10 s it is an error as well, and the coroutine goes on.
OpenForward(c) ==
  /\ pc[c] = "forward"
  /\ \/ /\ session = "up"
        /\ \E l \in Listeners :
             /\ NextListener(l)
             /\ listener' = [listener EXCEPT ![l] = "open"]
             /\ Holds(c, got[c], l)
        /\ Goes(c, "store") /\ UNCHANGED late
     \/ /\ Goes(c, "idle") /\ HoldsNothing(c) /\ UNCHANGED listener
        /\ late' \in {late, late + 1}
  /\ NoScript /\ CallKeepsRest /\ UNCHANGED <<stored, unheard>>

\* The record of the forward; the audit row that follows changes nothing here.
StoreNoId(c) ==   \* a bug: the id of the forward is not recorded
  /\ pc[c] = "store"
  /\ stored' = [inst |-> got[c], fwd |-> None]
  /\ Goes(c, "idle") /\ HoldsNothing(c)
  /\ NoScript /\ CallStep /\ UNCHANGED listener

Store(c) ==
  /\ pc[c] = "store"
  /\ stored' = [inst |-> got[c], fwd |-> fwd[c]]
  /\ Goes(c, "idle") /\ HoldsNothing(c)
  /\ NoScript /\ CallStep /\ UNCHANGED listener

\* The time for the script is over, or its channel was closed: the call fails;
\* only a call that has sent a stop goes on as if it had been done.
GiveUp(c) ==
  /\ pc[c] \in {"probe", "stop", "start"}
  /\ \A s \in Shells : ~Delivered(c, s)
  /\ caller' = [s \in Shells |-> IF caller[s] = c THEN None ELSE caller[s]]
  /\ Goes(c, IF pc[c] = "stop" THEN AfterStop(c) ELSE "idle")
  /\ KeepsHold /\ KeepForward /\ CallStep /\ UNCHANGED <<step, own, out, raced>>

\* A coroutine whose caller has given up opens its socket, and returns its id to
\* nobody; or it fails.
LateForward ==
  /\ late > 0 /\ late' = late - 1
  /\ \/ /\ session = "up"
        /\ \E l \in Listeners :
             /\ NextListener(l)
             /\ listener' = [listener EXCEPT ![l] = "open"]
             /\ unheard' = unheard \cup {l}
     \/ UNCHANGED <<listener, unheard>>
  /\ UNCHANGED <<sessionVars, stored, callVars, shellVars, vmVars>>

\* ssh.disconnect, after the workspace_close.
EndSession(c) ==
  /\ pc[c] = "disconnect"
  /\ session' = "none" /\ DropConnection
  /\ Goes(c, "idle")
  /\ KeepsHold
  /\ UNCHANGED <<sessions, stored, kind, begun, overlapped, lateVars, step, own, out, raced,
                 vmVars>>

Call(c) ==
  \/ Probed(c) \/ SendStop(c) \/ Stopped(c) \/ SendStart(c) \/ Started(c)
  \/ OpenForward(c) \/ Store(c) \/ GiveUp(c) \/ EndSession(c)

-----------------------------------------------------------------------------
(* Around the calls.                                                       *)

ConnectionLost ==
  /\ session = "up"
  /\ session' = "lost" /\ DropConnection
  /\ UNCHANGED <<sessions, stored, callVars, lateVars, step, own, out, raced, vmVars>>

\* ssh_connect: the old session is dropped without a workspace_close.
Connect ==
  /\ sessions < MaxSessions
  /\ sessions' = sessions + 1
  /\ session' \in {"up", "none"} /\ DropConnection
  /\ UNCHANGED <<stored, callVars, lateVars, step, own, out, raced, vmVars>>

\* The application is killed and started again; the VM goes on.
Restart ==
  /\ sessions < MaxSessions
  /\ sessions' = sessions + 1
  /\ session' = "none" /\ stored' = NoForward /\ listener' = EveryForwardClosed
  /\ pc' = [c \in Calls |-> "idle"]
  /\ got' = [c \in Calls |-> None] /\ fwd' = [c \in Calls |-> None]
  /\ late' = 0
  /\ caller' = [s \in Shells |-> None]
  /\ step' = [s \in Shells |-> IF step[s] = "done" THEN "idle" ELSE step[s]]
  /\ out' = [s \in Shells |-> Failed]
  /\ UNCHANGED <<kind, begun, overlapped, unheard, own, raced, vmVars>>

\* No call is in flight and no script runs: the only states in which all may stop.
Rest ==
  /\ \A c \in Calls : pc[c] = "idle"
  /\ \A s \in Shells : step[s] = "idle"
  /\ UNCHANGED vars

Next ==
  \/ \E c \in Calls : Begin(c) \/ Call(c)
  \/ \E s \in Shells : Script(s)
  \/ \E i \in Instances : InstanceServes(i) \/ InstanceExits(i) \/ InstanceStops(i)
  \/ LateForward \/ ConnectionLost \/ Connect \/ Restart \/ Rest

Spec == Init /\ [][Next]_vars

-----------------------------------------------------------------------------
(* Properties.  ~raced is the assumption that a script ends before the next *)
(* one is sent: the code gives a start 16 s, its loop may take twice that.  *)

\* The user never has two instances that nothing has told to stop: an open stops
\* the one it does not use again, whatever was lost, cut off or restarted before.
OneInstance == ~raced => Cardinality(Running) <= 1

\* An instance that runs on can be stopped: its process is in the pid file, or is
\* about to be written there by the script that has started it.  (One that was told
\* to stop may live on while no file names it.)
InstanceIsKnown ==
  ~raced =>
    \A i \in Running :
      pidFile = i \/ \E s \in Shells : step[s] = "startPid" /\ own[s] = i

\* The page is given an address that works: what is stored of the profile leads to
\* an instance that no script has told to stop, whatever became of the connection.
StoredForwardServes ==
  ~overlapped /\ ~raced /\ stored # NoForward =>
    instance[stored.inst] \notin {"stopping", "killed"}

\* No local port stays open that nobody will close, one that was opened after its
\* caller had given up excepted: an open listener is stored, or in the hands of the
\* call that has just made it.
ListenersAreAccounted ==
  ~overlapped =>
    \A l \in Listeners : listener[l] = "open" /\ l \notin unheard =>
      stored.fwd = l \/ \E c \in Calls : pc[c] = "store" /\ fwd[c] = l

\* A close or disconnect whose stop script answered leaves no instance that was
\* not told to stop, whoever had started it.
ClosedMeansStopped ==
  [][\A c \in Calls :
       Stopped(c) /\ kind[c] # "open" /\ ~overlapped /\ ~raced => Running' = {}]_vars

\* CHANGELOG.md and the message of workspace_close say that a close ends the
\* instance: once it has answered, there is none.
CloseAnswers(c) == kind[c] = "close" /\ pc[c] # "idle" /\ Call(c) /\ pc'[c] = "idle"

ClosedMeansEnded ==
  [][\A c \in Calls :
       CloseAnswers(c) /\ ~overlapped /\ ~raced => \A i \in Instances : ~Alive(i)']_vars
=============================================================================
