--------------------------- MODULE WorkspaceProofs ---------------------------
(***************************************************************************)
(* What Workspace keeps for any number of calls, scripts, sessions and     *)
(* exits: types; one instance at a time, and one that can be stopped; the  *)
(* forward that is stored and the sockets that are open.  ~raced and       *)
(* ~overlapped are the hypotheses of the properties themselves: the        *)
(* history variables of the model record the crossings that they exclude.  *)
(***************************************************************************)
EXTENDS Workspace, FiniteSetTheorems, TLAPS

(* Scripts and calls.  A script that is heard belongs to a call that waits *)
(* for that kind of script; no call waits for two.                         *)

AwaitedAt(point, at) ==
  \/ point = "probe" /\ at \in {"probe", "done"}
  \/ point = "stop"  /\ at \in StopSteps \cup {"done"}
  \/ point = "start" /\ at \in StartSteps \cup {"done"}

Launching == {"startLaunch", "startPid", "startWait"}

ScriptOk(s) ==
  /\ step[s] = "idle" => caller[s] = None
  /\ step[s] = "done" => caller[s] # None
  /\ own[s] # None <=> step[s] \in Launching
  /\ caller[s] # None => AwaitedAt(pc[caller[s]], step[s])
  /\ step[s] = "done" /\ pc[caller[s]] = "start" /\ out[s].ok => out[s].port \in Instances

OneScript == \A s, t \in Shells : caller[s] # None /\ caller[s] = caller[t] => s = t

HoldOk(c) ==
  /\ pc[c] \in {"forward", "store"} => got[c] \in Instances
  /\ pc[c] = "store" => fwd[c] \in Listeners

TypeInv ==
  /\ TypeOK /\ OneScript
  /\ \A s \in Shells : ScriptOk(s)
  /\ \A c \in Calls : HoldOk(c)

(* The VM, while no script is sent during another's changes.               *)

NoneRuns == \A i \in Instances : ~Runs(i)

OneChange == \A s, t \in Shells : step[s] \in Changing /\ step[t] \in Changing => s = t

Known ==
  \A i \in Instances : Runs(i) =>
    pidFile = i \/ \E s \in Shells : step[s] = "startPid" /\ own[s] = i

\* Nothing has told the instance to stop.
Lives(i) == instance[i] \notin {"stopping", "killed"}

Cleared(s) ==
  /\ step[s] \in {"stopRemove", "startPort", "startLaunch"} => NoneRuns
  /\ step[s] = "startPid" => \A i \in Instances : Runs(i) => i = own[s]
  /\ step[s] = "startWait" => pidFile = own[s]
  /\ step[s] \in Launching => Lives(own[s])

VmInv == ~raced => OneChange /\ Known /\ \A s \in Shells : Cleared(s)

(* The calls, while they do not overlap.                                   *)

Alone == \A b, c \in Calls : pc[b] # "idle" /\ pc[c] # "idle" => b = c

Popped ==
  \A c \in Calls :
    pc[c] \in {"sendStop", "stop", "sendStart", "start", "forward", "store"} =>
      stored = NoForward

Accounted ==
  \A l \in Listeners : listener[l] = "open" /\ l \notin unheard =>
    stored.fwd = l \/ \E c \in Calls : pc[c] = "store" /\ fwd[c] = l

CallInv == ~overlapped => Alone /\ Popped /\ Accounted

(* Both.                                                                   *)

Quiet == \A s \in Shells : step[s] \notin Changing

AnswerHolds(s) ==
  /\ step[s] = "done" /\ pc[caller[s]] = "start" =>
       Quiet /\ (out[s].ok => Lives(out[s].port))
  /\ step[s] = "done" /\ pc[caller[s]] = "stop" => Quiet /\ NoneRuns

QuietInv ==
  ~overlapped /\ ~raced =>
    /\ stored # NoForward => Quiet /\ Lives(stored.inst)
    /\ \A c \in Calls : pc[c] \in {"forward", "store"} => Quiet /\ Lives(got[c])
    /\ \A s \in Shells : AnswerHolds(s)

-----------------------------------------------------------------------------
(* Types.                                                                  *)

LEMMA ConstantFacts ==
  /\ None \notin Calls /\ None \notin Instances /\ None \notin Listeners
  /\ MaxCalls \in Nat /\ MaxSessions \in Nat /\ MaxExits \in Nat
BY ConstantsAssumption DEF Instances, Listeners

LEMMA InitTyped == Init => TypeInv
<1> SUFFICES ASSUME Init PROVE TypeInv
  OBVIOUS
<1>1. TypeOK
  <2>1. Failed \in Output
    BY DEF Failed, Output
  <2>2. out \in [Shells -> Output]
    BY <2>1 DEF Init
  <2>3. sessions \in 0..MaxSessions /\ begun \in 0..MaxCalls
    BY ConstantFacts DEF Init
  <2>4. /\ stored \in Forward \cup {NoForward} /\ pc \in [Calls -> Points]
        /\ kind \in [Calls -> Kinds]
    BY DEF Init, Points, Kinds
  <2>5. step \in [Shells -> {"idle", "probe", "done"} \cup Changing]
    BY DEF Init
  <2> QED
    BY <2>2, <2>3, <2>4, <2>5 DEF Init, TypeOK, Life
<1>2. OneScript /\ (\A s \in Shells : ScriptOk(s)) /\ \A c \in Calls : HoldOk(c)
  BY DEF Init, OneScript, ScriptOk, HoldOk, Launching
<1> QED
  BY <1>1, <1>2 DEF TypeInv

\* A script that ends, with an answer that its kind of script gives.
LEMMA EndScriptTyped ==
  ASSUME TypeInv, NEW s \in Shells, NEW output \in Output, EndScript(s, output),
         step[s] \in {"probe"} \cup Changing, UNCHANGED pc,
         step[s] \in StartSteps /\ output.ok => output.port \in Instances
  PROVE  /\ step' \in [Shells -> {"idle", "probe", "done"} \cup Changing]
         /\ caller' \in [Shells -> Calls \cup {None}]
         /\ own' \in [Shells -> Instances \cup {None}]
         /\ out' \in [Shells -> Output]
         /\ OneScript' /\ \A t \in Shells : ScriptOk(t)'
<1> USE DEF TypeInv, TypeOK
<1>1. Failed \in Output
  BY DEF Failed, Output
<1>2. /\ step' \in [Shells -> {"idle", "probe", "done"} \cup Changing]
      /\ caller' = caller /\ own' \in [Shells -> Instances \cup {None}]
      /\ out' \in [Shells -> Output]
  BY <1>1 DEF EndScript
<1>3. OneScript'
  BY <1>2 DEF OneScript
<1>4. ASSUME NEW t \in Shells PROVE ScriptOk(t)'
  <2>1. CASE t # s
    BY <1>2, <2>1 DEF EndScript, ScriptOk
  <2>2. CASE t = s
    <3>1. own'[s] = None /\ step'[s] = (IF caller[s] # None THEN "done" ELSE "idle")
          /\ (caller[s] # None => out'[s] = output)
      BY <1>2 DEF EndScript
    <3>2. caller[s] # None /\ pc[caller[s]] = "start" => step[s] \in StartSteps
      BY DEF ScriptOk, AwaitedAt, Changing, StartSteps, StopSteps
    <3> QED
      BY <1>2, <2>2, <3>1, <3>2 DEF ScriptOk, AwaitedAt, Launching, Changing, StartSteps, StopSteps
  <2> QED
    BY <2>1, <2>2
<1> QED
  BY <1>2, <1>3, <1>4

\* What every action leaves of the scripts, whatever the calls do.
ScriptsTyped ==
  /\ step \in [Shells -> {"idle", "probe", "done"} \cup Changing]
  /\ caller \in [Shells -> Calls \cup {None}]
  /\ own \in [Shells -> Instances \cup {None}]
  /\ out \in [Shells -> Output]
  /\ OneScript /\ \A s \in Shells : ScriptOk(s)

\* A script that goes from one of its changes to the next.
LEMMA GotoTyped ==
  ASSUME TypeInv, NEW s \in Shells, NEW next \in Changing, Goto(s, next), UNCHANGED pc,
         step[s] \in Changing, step[s] \in StartSteps <=> next \in StartSteps,
         own' \in [Shells -> Instances \cup {None}],
         own'[s] # None <=> next \in Launching,
         \A t \in Shells : t # s => own'[t] = own[t]
  PROVE  ScriptsTyped'
<1> USE DEF TypeInv, TypeOK, ScriptsTyped
<1>1. step' \in [Shells -> {"idle", "probe", "done"} \cup Changing]
      /\ caller' = caller /\ out' = out
  BY DEF Goto
<1>2. OneScript'
  BY <1>1 DEF OneScript
<1>3. ASSUME NEW t \in Shells PROVE ScriptOk(t)'
  <2>1. CASE t # s
    BY <1>1, <2>1 DEF Goto, ScriptOk, Launching
  <2>2. CASE t = s
    BY <1>1, <2>2 DEF Goto, ScriptOk, AwaitedAt, Launching, Changing, StartSteps, StopSteps
  <2> QED
    BY <2>1, <2>2
<1> QED
  BY <1>1, <1>2, <1>3

\* A call that waits for no script has none.
LEMMA NoScriptOfIts ==
  ASSUME TypeInv, NEW c \in Calls, pc[c] \notin {"probe", "stop", "start"}
  PROVE  \A s \in Shells : caller[s] # c
BY ConstantFacts DEF TypeInv, ScriptOk, AwaitedAt

\* Such a call may go anywhere without a script,
LEMMA GoesTyped ==
  ASSUME TypeInv, NEW c \in Calls, pc[c] \notin {"probe", "stop", "start"},
         NEW point, Goes(c, point), UNCHANGED shellVars
  PROVE  ScriptsTyped'
<1>1. \A s \in Shells : caller[s] # None => pc'[caller[s]] = pc[caller[s]]
  BY NoScriptOfIts DEF Goes, TypeInv, TypeOK
<1>2. ASSUME NEW s \in Shells PROVE ScriptOk(s)'
  BY <1>1 DEF TypeInv, ScriptOk, shellVars, AwaitedAt
<1> QED
  BY <1>2 DEF TypeInv, TypeOK, ScriptsTyped, shellVars, OneScript

\* or wait for one that it sends.
LEMMA ExecTyped ==
  ASSUME TypeInv, NEW c \in Calls, pc[c] \notin {"probe", "stop", "start"},
         NEW first, NEW point, Exec(c, first), Goes(c, point),
         \/ first = "probe" /\ point = "probe"
         \/ first = "stopKill" /\ point = "stop"
         \/ first = "startKill" /\ point = "start"
  PROVE  ScriptsTyped' /\ raced' \in BOOLEAN
<1> USE DEF TypeInv, TypeOK, ScriptsTyped
<1>1. PICK s \in Shells : /\ step[s] = "idle"
                          /\ step' = [step EXCEPT ![s] = first]
                          /\ caller' = [caller EXCEPT ![s] = c]
  BY DEF Exec
<1>2. UNCHANGED <<own, out>> /\ raced' \in BOOLEAN
  BY DEF Exec
<1>3. step' \in [Shells -> {"idle", "probe", "done"} \cup Changing]
      /\ caller' \in [Shells -> Calls \cup {None}]
  BY <1>1 DEF Changing, StartSteps, StopSteps
<1>4. OneScript'
  BY <1>1, NoScriptOfIts DEF OneScript
<1>5. ASSUME NEW t \in Shells PROVE ScriptOk(t)'
  <2>1. CASE t # s
    <3>1. step'[t] = step[t] /\ caller'[t] = caller[t]
          /\ (caller[t] # None => pc'[caller[t]] = pc[caller[t]])
      BY <1>1, <2>1, NoScriptOfIts DEF Goes
    <3> QED
      BY <1>2, <3>1 DEF ScriptOk, AwaitedAt
  <2>2. CASE t = s
    <3>1. step'[s] = first /\ caller'[s] = c /\ pc'[c] = point /\ own'[s] = None
      BY <1>1, <1>2 DEF Goes, ScriptOk, Launching
    <3> QED
      BY <2>2, <3>1, ConstantFacts DEF ScriptOk, AwaitedAt, Launching, StartSteps, StopSteps
  <2> QED
    BY <2>1, <2>2
<1> QED
  BY <1>2, <1>3, <1>4, <1>5

\* A call that takes the answer it has waited for goes on without a script.
LEMMA TakenTyped ==
  ASSUME TypeInv, NEW c \in Calls, NEW s \in Shells, Taken(c, s), NEW point, Goes(c, point)
  PROVE  ScriptsTyped' /\ raced' \in BOOLEAN
<1> USE DEF TypeInv, TypeOK, ScriptsTyped
<1>1. Failed \in Output
  BY DEF Failed, Output
<1>2. /\ step' \in [Shells -> {"idle", "probe", "done"} \cup Changing]
      /\ caller' \in [Shells -> Calls \cup {None}] /\ out' \in [Shells -> Output]
      /\ own' = own /\ raced' = raced
  BY <1>1 DEF Taken
<1>3. OneScript'
  BY DEF Taken, OneScript
<1>4. ASSUME NEW t \in Shells PROVE ScriptOk(t)'
  <2>1. CASE t # s
    <3>1. caller[t] # c
      BY <2>1, ConstantFacts DEF Taken, Delivered, OneScript
    <3> QED
      BY <2>1, <3>1 DEF Taken, Goes, ScriptOk, AwaitedAt
  <2>2. CASE t = s
    BY <2>2 DEF Taken, Delivered, ScriptOk, Launching
  <2> QED
    BY <2>1, <2>2
<1> QED
  BY <1>2, <1>3, <1>4

\* Every step of a script keeps the types.
LEMMA ScriptTyped ==
  ASSUME TypeInv, NEW s \in Shells, Script(s) PROVE TypeInv'
<1> USE DEF TypeInv, TypeOK
<1>1. UNCHANGED <<sessionVars, stored, listener, callVars, lateVars, raced>>
  BY DEF Script
<1>2. ASSUME ScriptsTyped',
             instance' \in [Instances -> Life],
             pidFile' \in Instances \cup {None}, portFile' \in Instances \cup {None}
      PROVE  TypeInv'
  <2>1. ASSUME NEW c \in Calls PROVE HoldOk(c)'
    BY <1>1 DEF HoldOk, callVars
  <2> QED
    BY <1>1, <1>2, <2>1 DEF ScriptsTyped, sessionVars, lateVars, callVars
<1>3. ASSUME NEW i PROVE Told(i) \in [Instances -> Life]
  BY DEF Told, Life
<1>4. Failed \in Output /\ [Failed EXCEPT !.ok = TRUE] \in Output /\ ~Failed.ok
  BY DEF Failed, Output
<1>5. CASE Probe(s)
  <2>1. PICK installed \in BOOLEAN, answers \in BOOLEAN :
          EndScript(s, [ok      |-> installed,
                        running |-> /\ answers /\ portFile # None
                                    /\ Alive(pidFile) /\ Answers(portFile),
                        port    |-> portFile])
    BY <1>5 DEF Probe
  <2> DEFINE output == [ok      |-> installed,
                        running |-> /\ answers /\ portFile # None
                                    /\ Alive(pidFile) /\ Answers(portFile),
                        port    |-> portFile]
  <2>2. output \in Output
    BY DEF Output
  <2>3. EndScript(s, output)
    BY <2>1
  <2>4. ScriptsTyped'
    <3> HIDE DEF output
    <3>1. step[s] = "probe" /\ step[s] \notin StartSteps /\ pc' = pc
      BY <1>1, <1>5 DEF Probe, StartSteps, callVars
    <3> QED
      BY <2>2, <2>3, <3>1, EndScriptTyped DEF ScriptsTyped
  <2> QED
    BY <1>2, <1>5, <2>4 DEF Probe, vmVars
<1>6. CASE StopKill(s)
  <2>1. ScriptsTyped'
    BY <1>1, <1>6, GotoTyped DEF StopKill, ScriptOk, Changing, StartSteps, StopSteps, Launching,
       callVars
  <2> QED
    BY <1>2, <1>3, <1>6, <2>1 DEF StopKill, KeepFiles
<1>7. CASE StopRemove(s)
  <2>1. ScriptsTyped'
    BY <1>1, <1>4, <1>7, EndScriptTyped
       DEF StopRemove, ScriptsTyped, Changing, StartSteps, StopSteps, callVars
  <2> QED
    BY <1>2, <1>7, <2>1 DEF StopRemove, RemoveFiles
<1>8. CASE StartKill(s)
  <2>1. ScriptsTyped'
    BY <1>1, <1>8, GotoTyped DEF StartKill, ScriptOk, Changing, StartSteps, StopSteps, Launching,
       callVars
  <2> QED
    BY <1>2, <1>3, <1>8, <2>1 DEF StartKill, KeepFiles
<1>9. CASE StartPort(s)
  <2>1. PICK i \in Instances : /\ instance' = [instance EXCEPT ![i] = "drawn"]
                               /\ own' = [own EXCEPT ![s] = i] /\ portFile' = i
    BY <1>9 DEF StartPort
  <2>2. ScriptsTyped'
    BY <1>1, <1>9, <2>1, ConstantFacts, GotoTyped
       DEF StartPort, Changing, StartSteps, StopSteps, Launching, callVars
  <2> QED
    BY <1>2, <1>9, <2>1, <2>2 DEF StartPort, Life
<1>10. CASE StartLaunch(s)
  <2>1. ScriptsTyped'
    BY <1>1, <1>10, GotoTyped
       DEF StartLaunch, ScriptOk, Changing, StartSteps, StopSteps, Launching, callVars
  <2> QED
    BY <1>2, <1>10, <2>1 DEF StartLaunch, KeepFiles, Life
<1>11. CASE StartPid(s)
  <2>1. ScriptsTyped'
    BY <1>1, <1>11, GotoTyped
       DEF StartPid, ScriptOk, Changing, StartSteps, StopSteps, Launching, callVars
  <2> QED
    BY <1>2, <1>11, <2>1 DEF StartPid
<1>12. CASE StartRefused(s) \/ StartCut(s)
  <2>1. ScriptsTyped'
    BY <1>1, <1>4, <1>12, EndScriptTyped
       DEF StartRefused, StartCut, ScriptsTyped, Changing, StartSteps, StopSteps, callVars
  <2> QED
    BY <1>2, <1>12, <2>1 DEF StartRefused, StartCut, vmVars
<1>13. CASE StartReady(s)
  <2>1. own[s] \in Instances
    BY <1>13 DEF StartReady, ScriptOk, Launching
  <2> DEFINE output == [ok |-> TRUE, running |-> TRUE, port |-> own[s]]
  <2>2. output \in Output /\ output.port = own[s]
    BY <2>1 DEF Output
  <2>3. ScriptsTyped'
    <3> HIDE DEF output
    <3>1. EndScript(s, output)
      BY <1>13 DEF StartReady, output
    <3> QED
      BY <1>1, <1>13, <2>1, <2>2, <3>1, EndScriptTyped
         DEF StartReady, ScriptsTyped, Changing, StartSteps, StopSteps, callVars
  <2> QED
    BY <1>2, <1>13, <2>3 DEF StartReady, vmVars
<1>14. CASE StartTooLate(s)
  <2>1. ScriptsTyped'
    BY <1>1, <1>4, <1>14, EndScriptTyped
       DEF StartTooLate, ScriptsTyped, Changing, StartSteps, StopSteps, callVars
  <2> QED
    BY <1>2, <1>3, <1>14, <2>1 DEF StartTooLate, RemoveFiles
<1> QED
  BY <1>5, <1>6, <1>7, <1>8, <1>9, <1>10, <1>11, <1>12, <1>13, <1>14 DEF Script

LEMMA PopTyped ==
  ASSUME TypeInv, PopForward
  PROVE  /\ stored' \in Forward \cup {NoForward}
         /\ listener' \in [Listeners -> {"free", "open", "closed"}]
BY DEF TypeInv, TypeOK, PopForward, Closed

LEMMA AfterStopTyped ==
  ASSUME NEW c \in Calls PROVE AfterStop(c) \in {"sendStart", "disconnect", "idle"}
BY DEF AfterStop

\* A call that goes where nothing need be held keeps the types of pc and its hold.
LEMMA GoesHolds ==
  ASSUME TypeInv, NEW c \in Calls, NEW point \in Points \ {"forward", "store"},
         Goes(c, point), KeepsHold \/ HoldsNothing(c)
  PROVE  /\ pc' \in [Calls -> Points]
         /\ got' \in [Calls -> Instances \cup {None}]
         /\ fwd' \in [Calls -> Listeners \cup {None}]
         /\ \A b \in Calls : HoldOk(b)'
BY DEF TypeInv, TypeOK, HoldOk, Goes, KeepsHold, HoldsNothing, Holds

\* Every step of a call keeps the types.
LEMMA BeginTyped ==
  ASSUME TypeInv, NEW c \in Calls, Begin(c) PROVE TypeInv'
<1> USE DEF TypeInv, TypeOK
<1>1. PICK k \in Kinds :
        /\ kind' = [kind EXCEPT ![c] = k]
        /\ \/ /\ k \in {"open", "status"} /\ session = "up"
              /\ Exec(c, "probe") /\ Goes(c, "probe") /\ KeepForward
           \/ /\ k = "close" \/ (k = "disconnect" /\ session = "up")
              /\ PopForward /\ Goes(c, "sendStop") /\ NoScript
           \/ /\ k = "disconnect" /\ session # "up"
              /\ Goes(c, "disconnect") /\ KeepForward /\ NoScript
  BY DEF Begin
<1>2. /\ pc[c] = "idle" /\ begun' \in 0..MaxCalls /\ overlapped' \in BOOLEAN
      /\ kind' \in [Calls -> Kinds] /\ KeepsHold /\ UNCHANGED <<sessionVars, lateVars, vmVars>>
  BY <1>1, ConstantFacts DEF Begin
<1>3. ASSUME ScriptsTyped', raced' \in BOOLEAN,
             stored' \in Forward \cup {NoForward},
             listener' \in [Listeners -> {"free", "open", "closed"}],
             NEW point \in Points \ {"forward", "store"}, Goes(c, point)
      PROVE  TypeInv'
  BY <1>2, <1>3, GoesHolds DEF ScriptsTyped, sessionVars, lateVars, vmVars
<1>4. CASE Exec(c, "probe") /\ Goes(c, "probe") /\ KeepForward
  BY <1>2, <1>3, <1>4, ExecTyped DEF KeepForward, Points
<1>5. CASE PopForward /\ Goes(c, "sendStop") /\ NoScript
  BY <1>2, <1>3, <1>5, GoesTyped, PopTyped DEF NoScript, shellVars, Points
<1>6. CASE Goes(c, "disconnect") /\ KeepForward /\ NoScript
  BY <1>2, <1>3, <1>6, GoesTyped DEF NoScript, shellVars, KeepForward, Points
<1> QED
  BY <1>1, <1>4, <1>5, <1>6

LEMMA CallTyped ==
  ASSUME TypeInv, NEW c \in Calls, Call(c) PROVE TypeInv'
<1> USE DEF TypeInv, TypeOK
<1>1. ASSUME CallStep, ScriptsTyped', raced' \in BOOLEAN,
             stored' \in Forward \cup {NoForward},
             listener' \in [Listeners -> {"free", "open", "closed"}],
             NEW point \in Points \ {"forward", "store"}, Goes(c, point),
             KeepsHold \/ HoldsNothing(c)
      PROVE  TypeInv'
  BY <1>1, GoesHolds DEF ScriptsTyped, CallStep, CallKeepsRest, sessionVars, lateVars, vmVars
<1>2. ASSUME CallStep, ScriptsTyped', raced' \in BOOLEAN,
             stored' \in Forward \cup {NoForward},
             listener' \in [Listeners -> {"free", "open", "closed"}],
             Goes(c, "forward"), NEW i \in Instances, Holds(c, i, None)
      PROVE  TypeInv'
  <2>1. pc' \in [Calls -> Points]
    BY <1>2 DEF Goes, Points
  <2>2. ASSUME NEW b \in Calls PROVE HoldOk(b)'
    BY <1>2 DEF HoldOk, Goes, Holds
  <2> QED
    BY <1>2, <2>1, <2>2
       DEF ScriptsTyped, CallStep, CallKeepsRest, Holds, sessionVars, lateVars, vmVars
<1>3. CASE Probed(c)
  <2>1. PICK s \in Shells :
          /\ Taken(c, s)
          /\ \/ Goes(c, "idle") /\ KeepForward /\ KeepsHold
             \/ PopForward /\ Reuses(out[s]) /\ Goes(c, "forward")
                /\ Holds(c, stored.inst, None)
             \/ PopForward /\ Goes(c, "sendStop") /\ KeepsHold
             \/ PopForward /\ Goes(c, "sendStart") /\ KeepsHold
    BY <1>3 DEF Probed
  <2>2. CallStep
    BY <1>3 DEF Probed
  <2>3. CASE Goes(c, "idle") /\ KeepForward /\ KeepsHold
    BY <1>1, <2>1, <2>2, <2>3, TakenTyped DEF KeepForward, Points
  <2>4. CASE PopForward /\ Reuses(out[s]) /\ Goes(c, "forward") /\ Holds(c, stored.inst, None)
    <3>1. stored.inst \in Instances
      BY <2>4 DEF Reuses, Forward
    <3> QED
      BY <1>2, <2>1, <2>2, <2>4, <3>1, TakenTyped, PopTyped
  <2>5. CASE PopForward /\ Goes(c, "sendStop") /\ KeepsHold
    BY <1>1, <2>1, <2>2, <2>5, TakenTyped, PopTyped DEF Points
  <2>6. CASE PopForward /\ Goes(c, "sendStart") /\ KeepsHold
    BY <1>1, <2>1, <2>2, <2>6, TakenTyped, PopTyped DEF Points
  <2> QED
    BY <2>1, <2>3, <2>4, <2>5, <2>6
<1>4. CASE SendStop(c)
  <2>1. CASE Exec(c, "stopKill") /\ Goes(c, "stop")
    BY <1>1, <1>4, <2>1, ExecTyped DEF SendStop, KeepForward, Points
  <2>2. CASE NoScript /\ Goes(c, AfterStop(c))
    <3> DEFINE point == AfterStop(c)
    <3>1. point \in Points \ {"forward", "store"}
      BY AfterStopTyped DEF Points
    <3>2. ScriptsTyped' /\ raced' \in BOOLEAN
      BY <1>4, <2>2, GoesTyped DEF SendStop, NoScript, shellVars
    <3> HIDE DEF point
    <3>3. Goes(c, point)
      BY <2>2 DEF point
    <3> QED
      BY <1>1, <1>4, <3>1, <3>2, <3>3 DEF SendStop, KeepForward
  <2> QED
    BY <1>4, <2>1, <2>2 DEF SendStop
<1>5. CASE Stopped(c)
  <2> DEFINE point == AfterStop(c)
  <2>1. point \in Points \ {"forward", "store"}
    BY AfterStopTyped DEF Points
  <2>2. Goes(c, point)
    BY <1>5 DEF Stopped
  <2> HIDE DEF point
  <2> QED
    BY <1>1, <1>5, <2>1, <2>2, TakenTyped DEF Stopped, KeepForward
<1>6. CASE SendStart(c)
  <2>1. CASE Exec(c, "startKill") /\ Goes(c, "start")
    BY <1>1, <1>6, <2>1, ExecTyped DEF SendStart, KeepForward, Points
  <2>2. CASE NoScript /\ Goes(c, "idle")
    BY <1>1, <1>6, <2>2, GoesTyped DEF SendStart, KeepForward, NoScript, shellVars, Points
  <2> QED
    BY <1>6, <2>1, <2>2 DEF SendStart
<1>7. CASE Started(c)
  <2>1. PICK s \in Shells :
          /\ Taken(c, s)
          /\ IF out[s].ok THEN Goes(c, "forward") /\ Holds(c, out[s].port, None)
                          ELSE Goes(c, "idle") /\ KeepsHold
    BY <1>7 DEF Started
  <2>2. CASE out[s].ok
    <3>1. out[s].port \in Instances
      BY <1>7, <2>1, <2>2 DEF Started, Taken, Delivered, ScriptOk
    <3> QED
      BY <1>2, <1>7, <2>1, <2>2, <3>1, TakenTyped DEF Started, KeepForward
  <2>3. CASE ~out[s].ok
    BY <1>1, <1>7, <2>1, <2>3, TakenTyped DEF Started, KeepForward, Points
  <2> QED
    BY <2>2, <2>3
<1>8. CASE OpenForward(c)
  <2>0. CallKeepsRest /\ UNCHANGED <<stored, unheard, shellVars>> /\ late' \in Nat
    BY <1>8 DEF OpenForward, NoScript
  <2>1. CASE Goes(c, "idle") /\ HoldsNothing(c) /\ UNCHANGED listener
    <3>1. ScriptsTyped'
      BY <1>8, <2>0, <2>1, GoesTyped DEF OpenForward
    <3>2. /\ pc' \in [Calls -> Points] /\ got' \in [Calls -> Instances \cup {None}]
          /\ fwd' \in [Calls -> Listeners \cup {None}] /\ \A b \in Calls : HoldOk(b)'
      BY <2>1, GoesHolds DEF Points
    <3> QED
      BY <2>0, <2>1, <3>1, <3>2
         DEF CallKeepsRest, ScriptsTyped, shellVars, sessionVars, vmVars
  <2>2. CASE Goes(c, "store") /\ \E l \in Listeners :
               listener' = [listener EXCEPT ![l] = "open"] /\ Holds(c, got[c], l)
    <3>1. ScriptsTyped'
      BY <1>8, <2>0, <2>2, GoesTyped DEF OpenForward
    <3>2. PICK l \in Listeners :
            listener' = [listener EXCEPT ![l] = "open"] /\ Holds(c, got[c], l)
      BY <2>2
    <3>3. got[c] \in Instances
      BY <1>8 DEF OpenForward, HoldOk
    <3>4. ASSUME NEW b \in Calls PROVE HoldOk(b)'
      BY <2>2, <3>2, <3>3 DEF HoldOk, Goes, Holds
    <3>5. pc' \in [Calls -> Points] /\ got' \in [Calls -> Instances \cup {None}]
          /\ fwd' \in [Calls -> Listeners \cup {None}]
          /\ listener' \in [Listeners -> {"free", "open", "closed"}]
      BY <2>2, <3>2, <3>3 DEF Goes, Holds, Points
    <3> QED
      BY <2>0, <3>1, <3>4, <3>5
         DEF CallKeepsRest, ScriptsTyped, shellVars, sessionVars, vmVars
  <2> QED
    BY <1>8, <2>1, <2>2 DEF OpenForward
<1>9. CASE Store(c)
  <2>1. stored' \in Forward
    BY <1>9 DEF Store, HoldOk, Forward
  <2> QED
    BY <1>1, <1>9, <2>1, GoesTyped DEF Store, NoScript, shellVars, Points
<1>10. CASE GiveUp(c)
  <2>1. PICK point \in {"sendStart", "disconnect", "idle"} : Goes(c, point)
    BY <1>10, AfterStopTyped DEF GiveUp
  <2>2. point \in Points \ {"forward", "store"}
    BY DEF Points
  <2>3. ASSUME NEW s \in Shells PROVE ScriptOk(s)'
    <3>1. step'[s] = step[s] /\ own'[s] = own[s] /\ out'[s] = out[s]
          /\ (step[s] = "done" => caller[s] # c)
      BY <1>10 DEF GiveUp, Delivered
    <3>2. CASE caller[s] = c
      BY <1>10, <3>1, <3>2 DEF GiveUp, ScriptOk
    <3>3. CASE caller[s] # c
      BY <1>10, <2>1, <3>1, <3>3, ConstantFacts DEF GiveUp, ScriptOk, AwaitedAt, Goes
    <3> QED
      BY <3>2, <3>3
  <2>4. OneScript' /\ caller' \in [Shells -> Calls \cup {None}]
    BY <1>10 DEF GiveUp, OneScript
  <2> QED
    BY <1>1, <1>10, <2>1, <2>2, <2>3, <2>4 DEF GiveUp, ScriptsTyped, KeepForward
<1>11. CASE EndSession(c)
  <2>1. ASSUME NEW s \in Shells PROVE ScriptOk(s)'
    BY <1>11, NoScriptOfIts DEF EndSession, DropConnection, ScriptOk, AwaitedAt, Goes
  <2>2. OneScript' /\ caller' \in [Shells -> Calls \cup {None}]
        /\ listener' \in [Listeners -> {"free", "open", "closed"}]
    BY <1>11 DEF EndSession, DropConnection, EveryForwardClosed, OneScript
  <2>3. pc' \in [Calls -> Points] /\ \A b \in Calls : HoldOk(b)'
    BY <1>11, GoesHolds DEF EndSession, Points
  <2> QED
    BY <1>11, <2>1, <2>2, <2>3 DEF EndSession, KeepsHold, lateVars, vmVars
<1> QED
  BY <1>3, <1>4, <1>5, <1>6, <1>7, <1>8, <1>9, <1>10, <1>11 DEF Call

LEMMA NextTyped == TypeInv /\ [Next]_vars => TypeInv'
<1> SUFFICES ASSUME TypeInv, [Next]_vars PROVE TypeInv'
  OBVIOUS
<1> USE DEF TypeInv, TypeOK
<1>1. ASSUME NEW c \in Calls, Begin(c) \/ Call(c) PROVE TypeInv'
  BY <1>1, BeginTyped, CallTyped
<1>2. ASSUME NEW s \in Shells, Script(s) PROVE TypeInv'
  BY <1>2, ScriptTyped
<1>3. ASSUME NEW i \in Instances, InstanceServes(i) \/ InstanceExits(i) \/ InstanceStops(i)
      PROVE  TypeInv'
  <2>1. instance' \in [Instances -> Life]
    BY <1>3 DEF InstanceServes, InstanceExits, InstanceStops, Life
  <2>2. InstanceKeepsRest
    BY <1>3 DEF InstanceServes, InstanceExits, InstanceStops, InstanceKeepsRest
  <2>3. ASSUME NEW s \in Shells PROVE ScriptOk(s)'
    BY <2>2 DEF InstanceKeepsRest, ScriptOk, AwaitedAt, callVars, shellVars
  <2>4. OneScript' /\ \A c \in Calls : HoldOk(c)'
    BY <2>2 DEF InstanceKeepsRest, OneScript, HoldOk, callVars, shellVars
  <2> QED
    BY <2>1, <2>2, <2>3, <2>4
       DEF InstanceKeepsRest, sessionVars, lateVars, callVars, shellVars
<1>4. CASE ConnectionLost \/ Connect
  <2>1. DropConnection /\ UNCHANGED <<stored, callVars, lateVars, step, own, out, raced, vmVars>>
        /\ session' \in {"none", "up", "lost"} /\ sessions' \in 0..MaxSessions
    BY <1>4, ConstantFacts DEF ConnectionLost, Connect
  <2>2. ASSUME NEW s \in Shells PROVE ScriptOk(s)'
    BY <2>1 DEF DropConnection, ScriptOk, AwaitedAt, callVars
  <2>3. OneScript' /\ caller' \in [Shells -> Calls \cup {None}]
        /\ listener' \in [Listeners -> {"free", "open", "closed"}]
        /\ \A c \in Calls : HoldOk(c)'
    BY <2>1 DEF DropConnection, EveryForwardClosed, OneScript, HoldOk, callVars
  <2> QED
    BY <2>1, <2>2, <2>3 DEF callVars, lateVars, vmVars
<1>5. CASE Restart
  <2>1. Failed \in Output
    BY DEF Failed, Output
  <2>2. /\ step' \in [Shells -> {"idle", "probe", "done"} \cup Changing]
        /\ caller' \in [Shells -> Calls \cup {None}] /\ out' \in [Shells -> Output]
        /\ pc' \in [Calls -> Points] /\ got' \in [Calls -> Instances \cup {None}]
        /\ fwd' \in [Calls -> Listeners \cup {None}]
        /\ listener' \in [Listeners -> {"free", "open", "closed"}]
        /\ sessions' \in 0..MaxSessions
    BY <1>5, <2>1, ConstantFacts DEF Restart, EveryForwardClosed, Points
  <2>3. ASSUME NEW s \in Shells PROVE ScriptOk(s)'
    BY <1>5 DEF Restart, ScriptOk, Launching
  <2>4. OneScript' /\ \A c \in Calls : HoldOk(c)'
    BY <1>5 DEF Restart, OneScript, HoldOk
  <2> QED
    BY <1>5, <2>2, <2>3, <2>4 DEF Restart, vmVars
<1>6. CASE LateForward
  <2>1. late' \in Nat /\ unheard' \subseteq Listeners
        /\ listener' \in [Listeners -> {"free", "open", "closed"}]
    BY <1>6 DEF LateForward
  <2>2. UNCHANGED <<sessionVars, stored, callVars, shellVars, vmVars>>
    BY <1>6 DEF LateForward
  <2>3. ASSUME NEW s \in Shells PROVE ScriptOk(s)'
    BY <2>2 DEF ScriptOk, AwaitedAt, callVars, shellVars
  <2>4. OneScript' /\ \A c \in Calls : HoldOk(c)'
    BY <2>2 DEF OneScript, HoldOk, callVars, shellVars
  <2> QED
    BY <2>1, <2>2, <2>3, <2>4 DEF sessionVars, callVars, shellVars, vmVars
<1>7. CASE UNCHANGED vars
  <2>1. ASSUME NEW s \in Shells PROVE ScriptOk(s)'
    BY <1>7 DEF vars, ScriptOk, AwaitedAt, callVars, shellVars
  <2>2. OneScript' /\ \A c \in Calls : HoldOk(c)'
    BY <1>7 DEF vars, OneScript, HoldOk, callVars, shellVars
  <2> QED
    BY <1>7, <2>1, <2>2 DEF vars, sessionVars, lateVars, callVars, shellVars, vmVars
<1> QED
  BY <1>1, <1>2, <1>3, <1>4, <1>5, <1>6, <1>7 DEF Next, Rest

LEMMA AlwaysTyped == Spec => []TypeInv
BY InitTyped, NextTyped, PTL DEF Spec

\* Every variable of the workspace keeps its type.
THEOREM TypeCorrect == Spec => []TypeOK
BY AlwaysTyped, PTL DEF TypeInv

-----------------------------------------------------------------------------
(* One instance.  A script of its own changes the VM, until one is sent    *)
(* during another's changes: it launches when nothing is alive, and the    *)
(* files name what it has launched before it, or another, ends.            *)

LEMMA InitVm == Init => VmInv
BY DEF Init, VmInv, OneChange, Known, Cleared, Runs, Launching, Changing, StopSteps, StartSteps

\* A step that changes nothing of the VM that matters, and brings no change nearer:
\* a script that makes none may come and go, and one may end that is not at startPid.
LEMMA OthersKeepVm ==
  ASSUME TypeInv, VmInv, pidFile' = pidFile, raced => raced',
         \A i \in Instances : (Runs(i)' => Runs(i)) /\ (Lives(i) => Lives(i)'),
         \A s \in Shells :
           /\ step'[s] \in Changing => step'[s] = step[s] /\ own'[s] = own[s]
           /\ step[s] = "startPid" => step'[s] = "startPid" /\ own'[s] = own[s]
  PROVE  VmInv'
<1> SUFFICES ASSUME ~raced' PROVE (OneChange /\ Known /\ \A s \in Shells : Cleared(s))'
  BY DEF VmInv
<1>1. OneChange /\ Known /\ \A s \in Shells : Cleared(s)
  BY DEF VmInv
<1>2. OneChange'
  BY <1>1 DEF OneChange
<1>3. Known'
  BY <1>1 DEF Known
<1>4. ASSUME NEW s \in Shells PROVE Cleared(s)'
  <2>1. own[s] \in Instances \cup {None} /\ (step[s] \in Launching => own[s] # None)
    BY DEF TypeInv, TypeOK, ScriptOk
  <2>2. step'[s] \in Launching => Lives(own[s])'
    BY <1>1, <2>1 DEF Cleared, Lives, Launching, Changing, StartSteps
  <2> QED
    BY <1>1, <2>2 DEF Cleared, NoneRuns, Changing, StopSteps, StartSteps
<1> QED
  BY <1>2, <1>3, <1>4

\* What a script has to itself while it is at its changes.
LEMMA Exclusive ==
  ASSUME TypeInv, VmInv, ~raced, NEW s \in Shells, step[s] \in Changing
  PROVE  /\ \A t \in Shells : t # s => step[t] \notin Changing
         /\ step[s] # "startPid" => \A i \in Instances : Runs(i) => pidFile = i
BY DEF VmInv, OneChange, Known, Changing, StopSteps, StartSteps

\* A script goes on with its changes, with the others at none.
LEMMA StepKeepsVm ==
  ASSUME TypeInv, VmInv, NEW s \in Shells, step[s] \in Changing, UNCHANGED raced,
         \A t \in Shells : t # s => step'[t] = step[t] /\ own'[t] = own[t],
         ~raced => Known' /\ Cleared(s)'
  PROVE  VmInv'
<1> SUFFICES ASSUME ~raced PROVE (OneChange /\ Known /\ \A t \in Shells : Cleared(t))'
  BY DEF VmInv
<1>1. \A t \in Shells : t # s => step'[t] \notin Changing
  BY Exclusive
<1>2. OneChange'
  BY <1>1 DEF OneChange
<1>3. ASSUME NEW t \in Shells PROVE Cleared(t)'
  BY <1>1 DEF Cleared, Launching, Changing, StopSteps, StartSteps
<1> QED
  BY <1>2, <1>3

\* To kill what the pid file names leaves nothing alive that it did not name.
LEMMA ToldStops ==
  ASSUME TypeInv, NEW i, instance' = Told(i)
  PROVE  \A j \in Instances : Runs(j)' => Runs(j) /\ j # i
BY DEF TypeInv, TypeOK, Told, Alive, Runs

LEMMA ScriptVm ==
  ASSUME TypeInv, VmInv, NEW s \in Shells, Script(s) PROVE VmInv'
<1> USE DEF TypeInv, TypeOK
<1>0. raced' = raced
  BY DEF Script
<1>1. CASE Probe(s) \/ StartRefused(s) \/ StartReady(s) \/ StartCut(s)
  BY <1>0, <1>1, OthersKeepVm
     DEF Probe, StartRefused, StartReady, StartCut, EndScript, vmVars, Runs, Lives, Changing,
         StopSteps, StartSteps
<1>2. CASE StopKill(s) \/ StartKill(s)
  <2>1. /\ step[s] \in {"stopKill", "startKill"} /\ step'[s] \in {"stopRemove", "startPort"}
        /\ \A t \in Shells : t # s => step'[t] = step[t] /\ own'[t] = own[t]
        /\ instance' = Told(pidFile)
    BY <1>2 DEF StopKill, StartKill, Goto
  <2>2. ~raced => NoneRuns'
    BY <2>1, Exclusive, ToldStops DEF NoneRuns, Changing, StopSteps, StartSteps
  <2>3. ~raced => Known' /\ Cleared(s)'
    BY <2>1, <2>2 DEF Known, Cleared, NoneRuns, Launching
  <2> QED
    BY <1>0, <2>1, <2>3, StepKeepsVm DEF Changing, StopSteps, StartSteps
<1>3. CASE StopRemove(s)
  <2>1. /\ step[s] = "stopRemove" /\ step'[s] \in {"idle", "done"} /\ instance' = instance
        /\ \A t \in Shells : t # s => step'[t] = step[t] /\ own'[t] = own[t]
    BY <1>3 DEF StopRemove, EndScript
  <2>2. ~raced => NoneRuns'
    BY <2>1 DEF VmInv, Cleared, NoneRuns, Runs
  <2>3. ~raced => Known' /\ Cleared(s)'
    BY <2>1, <2>2 DEF Known, Cleared, NoneRuns, Launching
  <2> QED
    BY <1>0, <2>1, <2>3, StepKeepsVm DEF Changing, StopSteps, StartSteps
<1>4. CASE StartPort(s)
  <2>1. /\ step[s] = "startPort" /\ step'[s] = "startLaunch"
        /\ \A t \in Shells : t # s => step'[t] = step[t] /\ own'[t] = own[t]
        /\ \A i \in Instances : Runs(i)' => Runs(i)
        /\ Lives(own[s])'
    BY <1>4 DEF StartPort, Goto, Runs, Lives
  <2>2. ~raced => NoneRuns'
    BY <2>1 DEF VmInv, Cleared, NoneRuns
  <2>3. ~raced => Known' /\ Cleared(s)'
    BY <2>1, <2>2 DEF Known, Cleared, NoneRuns, Launching
  <2> QED
    BY <1>0, <2>1, <2>3, StepKeepsVm DEF Changing, StopSteps, StartSteps
<1>5. CASE StartLaunch(s)
  <2>1. /\ step[s] = "startLaunch" /\ step'[s] = "startPid" /\ own' = own
        /\ \A t \in Shells : t # s => step'[t] = step[t]
        /\ \A i \in Instances : Runs(i)' => Runs(i) \/ i = own[s]
        /\ own[s] \in Instances /\ Lives(own[s])'
    BY <1>5 DEF StartLaunch, Goto, Runs, Lives, ScriptOk, Launching
  <2>2. ~raced => \A i \in Instances : Runs(i)' => i = own[s]
    BY <2>1 DEF VmInv, Cleared, NoneRuns
  <2>3. ~raced => Known' /\ Cleared(s)'
    BY <2>1, <2>2 DEF Known, Cleared, Launching
  <2> QED
    BY <1>0, <2>1, <2>3, StepKeepsVm DEF Changing, StopSteps, StartSteps
<1>6. CASE StartPid(s)
  <2>1. /\ step[s] = "startPid" /\ step'[s] = "startWait" /\ own' = own /\ pidFile' = own[s]
        /\ \A t \in Shells : t # s => step'[t] = step[t]
        /\ \A i \in Instances : Runs(i)' => Runs(i)
        /\ instance' = instance
    BY <1>6 DEF StartPid, Goto, Runs
  <2>2. ~raced => Known' /\ Cleared(s)'
    BY <2>1 DEF VmInv, Known, Cleared, Launching, Lives
  <2> QED
    BY <1>0, <2>1, <2>2, StepKeepsVm DEF Changing, StopSteps, StartSteps
<1>7. CASE StartTooLate(s)
  <2>1. /\ step[s] = "startWait" /\ step'[s] \in {"idle", "done"} /\ instance' = Told(own[s])
        /\ \A t \in Shells : t # s => step'[t] = step[t] /\ own'[t] = own[t]
    BY <1>7 DEF StartTooLate, EndScript
  <2>2. ~raced => NoneRuns'
    <3>1. ~raced => pidFile = own[s]
      BY <2>1 DEF VmInv, Cleared
    <3> QED
      BY <2>1, <3>1, Exclusive, ToldStops DEF NoneRuns, Changing, StopSteps, StartSteps
  <2>3. ~raced => Known' /\ Cleared(s)'
    BY <2>1, <2>2 DEF Known, Cleared, NoneRuns, Launching
  <2> QED
    BY <1>0, <2>1, <2>3, StepKeepsVm DEF Changing, StopSteps, StartSteps
<1> QED
  BY <1>1, <1>2, <1>3, <1>4, <1>5, <1>6, <1>7 DEF Script

\* What a call sends makes its first change when no other is made, or is recorded.
LEMMA ExecVm ==
  ASSUME TypeInv, VmInv, NEW c \in Calls, Exec(c, "probe") \/ Exec(c, "stopKill")
         \/ Exec(c, "startKill"), UNCHANGED vmVars
  PROVE  VmInv'
<1> USE DEF TypeInv, TypeOK
<1>1. PICK first \in {"probe", "stopKill", "startKill"} : Exec(c, first)
  OBVIOUS
<1>2. PICK s \in Shells : step[s] = "idle" /\ step' = [step EXCEPT ![s] = first]
  BY <1>1 DEF Exec
<1>3. own' = own
      /\ raced' = (raced \/ (first \in Changing /\ \E t \in Shells : step[t] \in Changing))
  BY <1>1 DEF Exec
<1>4. SUFFICES ASSUME ~raced' PROVE (OneChange /\ Known /\ \A t \in Shells : Cleared(t))'
  BY DEF VmInv
<1>5. ~raced /\ (first \in Changing => \A t \in Shells : step[t] \notin Changing)
  BY <1>3, <1>4
<1>6. OneChange /\ Known /\ \A t \in Shells : Cleared(t)
  BY <1>5 DEF VmInv
<1>7. OneChange'
  BY <1>2, <1>5, <1>6 DEF OneChange, Changing, StopSteps, StartSteps
<1>8. Known'
  BY <1>2, <1>3, <1>6 DEF Known, Runs, vmVars
<1>9. ASSUME NEW t \in Shells PROVE Cleared(t)'
  BY <1>2, <1>3, <1>6, <1>9 DEF Cleared, NoneRuns, Runs, Lives, Launching, vmVars
<1> QED
  BY <1>7, <1>8, <1>9

LEMMA TakenVm ==
  ASSUME TypeInv, VmInv, NEW c \in Calls, NEW s \in Shells, Taken(c, s), UNCHANGED vmVars
  PROVE  VmInv'
BY OthersKeepVm
   DEF Taken, Delivered, TypeInv, TypeOK, Runs, Lives, vmVars, Changing, StopSteps, StartSteps

LEMMA SameVm ==
  ASSUME TypeInv, VmInv, UNCHANGED <<step, own, raced, vmVars>>
  PROVE  VmInv'
BY OthersKeepVm DEF Runs, Lives, vmVars

LEMMA NextVm == TypeInv /\ VmInv /\ [Next]_vars => VmInv'
<1> SUFFICES ASSUME TypeInv, VmInv, [Next]_vars PROVE VmInv'
  OBVIOUS
<1>1. ASSUME NEW c \in Calls, Begin(c) PROVE VmInv'
  BY <1>1, ExecVm, SameVm DEF Begin, NoScript, shellVars
<1>2. ASSUME NEW c \in Calls, Probed(c) \/ Stopped(c) \/ Started(c) PROVE VmInv'
  BY <1>2, TakenVm DEF Probed, Stopped, Started, CallStep, CallKeepsRest
<1>3. ASSUME NEW c \in Calls, SendStop(c) \/ SendStart(c) PROVE VmInv'
  BY <1>3, ExecVm, SameVm DEF SendStop, SendStart, CallStep, CallKeepsRest, NoScript, shellVars
<1>4. ASSUME NEW c \in Calls, OpenForward(c) \/ Store(c) \/ GiveUp(c) \/ EndSession(c)
      PROVE VmInv'
  BY <1>4, SameVm
     DEF OpenForward, Store, GiveUp, EndSession, CallStep, CallKeepsRest, NoScript, shellVars
<1>5. ASSUME NEW s \in Shells, Script(s) PROVE VmInv'
  BY <1>5, ScriptVm
<1>6. ASSUME NEW i \in Instances, InstanceServes(i) \/ InstanceExits(i) \/ InstanceStops(i)
      PROVE  VmInv'
  <2>1. UNCHANGED <<pidFile, raced, step, own>>
    BY <1>6 DEF InstanceServes, InstanceExits, InstanceStops, InstanceKeepsRest, shellVars
  <2>2. \A j \in Instances : (Runs(j)' => Runs(j)) /\ (Lives(j) => Lives(j)')
    BY <1>6 DEF InstanceServes, InstanceExits, InstanceStops, TypeInv, TypeOK, Runs, Lives
  <2> QED
    BY <2>1, <2>2, OthersKeepVm
<1>7. CASE ConnectionLost \/ Connect
  BY <1>7, SameVm DEF ConnectionLost, Connect
<1>8. CASE Restart
  BY <1>8, OthersKeepVm
     DEF Restart, TypeInv, TypeOK, Runs, Lives, vmVars, Changing, StopSteps, StartSteps
<1>9. CASE LateForward \/ UNCHANGED vars
  BY <1>9, SameVm DEF LateForward, vars, shellVars
<1> QED
  BY <1>1, <1>2, <1>3, <1>4, <1>5, <1>6, <1>7, <1>8, <1>9 DEF Next, Call, Rest

LEMMA AlwaysVm == Spec => [](TypeInv /\ VmInv)
<1>1. Init => TypeInv /\ VmInv
  BY InitTyped, InitVm
<1>2. TypeInv /\ VmInv /\ [Next]_vars => (TypeInv /\ VmInv)'
  BY NextTyped, NextVm
<1> QED
  BY <1>1, <1>2, PTL DEF Spec

\* An instance that nothing has told to stop can be stopped: the pid file names it,
\* or the script that has launched it is about to write it there.
THEOREM InstancesAreKnown == Spec => []InstanceIsKnown
<1>1. VmInv => InstanceIsKnown
  BY DEF VmInv, Known, InstanceIsKnown, Running
<1> QED
  BY <1>1, AlwaysVm, PTL

\* The user never has two instances that nothing has told to stop, whatever was
\* lost, cut off or restarted, unless a script was sent during another's changes.
THEOREM InstancesAreFew == Spec => []OneInstance
<1>1. VmInv => OneInstance
  <2> SUFFICES ASSUME VmInv, ~raced PROVE Cardinality(Running) <= 1
    BY DEF OneInstance
  <2>1. \A i, j \in Running : i = j
    BY DEF VmInv, Known, Cleared, Running
  <2>2. CASE Running = {}
    BY <2>2, FS_EmptySet
  <2>3. ASSUME NEW i \in Running PROVE Cardinality(Running) <= 1
    <3>1. Running = {i}
      BY <2>1, <2>3
    <3>2. Cardinality({i}) = 1
      BY FS_Singleton
    <3> QED
      BY <3>1, <3>2
  <2> QED
    BY <2>2, <2>3
<1> QED
  BY <1>1, AlwaysVm, PTL

-----------------------------------------------------------------------------
(* The forward.  One call is in flight, until two overlap; it pops what is *)
(* stored before it makes another forward, and stores that one.            *)

NoneOpen == \A l \in Listeners : listener[l] = "open" => l \in unheard

LEMMA InitCalls == Init => CallInv
BY DEF Init, CallInv, Alone, Popped, Accounted

\* Nothing is in flight or stored, or only what was, and no socket is new.
LEMMA OthersKeepCalls ==
  ASSUME CallInv, UNCHANGED <<overlapped, stored, pc, fwd>>, unheard \subseteq unheard',
         \A l \in Listeners : listener'[l] = "open" => listener[l] = "open" \/ l \in unheard'
  PROVE  CallInv'
BY DEF CallInv, Alone, Popped, Accounted

\* The call in flight goes on; what it may find, and what it has to leave.
LEMMA CallGoesOn ==
  ASSUME TypeInv, CallInv, NEW c \in Calls, pc[c] # "idle", NEW point, Goes(c, point),
         UNCHANGED overlapped,
         (~overlapped /\ \A b \in Calls : b # c => pc[b] = "idle" /\ pc'[b] = "idle") =>
            /\ point \in {"sendStop", "stop", "sendStart", "start", "forward", "store"} =>
                 stored' = NoForward
            /\ Accounted'
  PROVE  CallInv'
<1> SUFFICES ASSUME ~overlapped PROVE (Alone /\ Popped /\ Accounted)'
  BY DEF CallInv
<1>1. \A b \in Calls : b # c => pc[b] = "idle" /\ pc'[b] = "idle"
  BY DEF CallInv, Alone, Goes, TypeInv, TypeOK
<1>2. pc'[c] = point
  BY DEF Goes, TypeInv, TypeOK
<1> QED
  BY <1>1, <1>2 DEF Alone, Popped

\* What a pop leaves, where no other call has a socket in its hands.
LEMMA PopClosesAll ==
  ASSUME TypeInv, Accounted, \A b \in Calls : pc[b] # "store", PopForward, UNCHANGED unheard
  PROVE  NoneOpen' /\ stored' = NoForward
BY ConstantFacts
   DEF TypeInv, TypeOK, Accounted, PopForward, Closed, NoneOpen, NoForward, Forward

LEMMA NothingOpen ==
  ASSUME NoneOpen' PROVE Accounted'
BY DEF NoneOpen, Accounted

LEMMA CallKeepsCalls ==
  ASSUME TypeInv, CallInv, NEW c \in Calls, Call(c) PROVE CallInv'
<1> DEFINE Others == \A b \in Calls : b # c => pc[b] = "idle" /\ pc'[b] = "idle"
<1>0. unheard' = unheard
  BY DEF Call, Probed, SendStop, Stopped, SendStart, Started, OpenForward, Store, GiveUp,
     EndSession, CallStep, lateVars
<1>1. ASSUME KeepForward, ~overlapped, Others, pc[c] # "store" PROVE Accounted'
  BY <1>0, <1>1 DEF KeepForward, CallInv, Accounted
<1>2. CASE Probed(c)
  <2>1. /\ pc[c] = "probe" /\ overlapped' = overlapped
        /\ \E point \in {"idle", "forward", "sendStop", "sendStart"} :
             Goes(c, point) /\ ((point = "idle" /\ KeepForward) \/ PopForward)
    BY <1>2 DEF Probed, CallStep, CallKeepsRest
  <2>2. PICK point \in {"idle", "forward", "sendStop", "sendStart"} :
             Goes(c, point) /\ ((point = "idle" /\ KeepForward) \/ PopForward)
    BY <2>1
  <2>3. ASSUME ~overlapped, Others, PopForward PROVE stored' = NoForward /\ Accounted'
    BY <1>0, <2>1, <2>3, PopClosesAll, NothingOpen DEF CallInv
  <2> QED
    BY <1>1, <2>1, <2>2, <2>3, CallGoesOn
<1>3. CASE SendStop(c) \/ Stopped(c) \/ SendStart(c) \/ Started(c)
  <2>1. /\ pc[c] \in {"sendStop", "stop", "sendStart", "start"} /\ overlapped' = overlapped
        /\ KeepForward
        /\ \E point : Goes(c, point)
    BY <1>3 DEF SendStop, Stopped, SendStart, Started, CallStep, CallKeepsRest
  <2>2. ~overlapped => stored' = NoForward
    BY <2>1 DEF CallInv, Popped, KeepForward
  <2> QED
    BY <1>1, <2>1, <2>2, CallGoesOn
<1>4. CASE OpenForward(c)
  <2>1. pc[c] = "forward" /\ overlapped' = overlapped /\ stored' = stored
    BY <1>4 DEF OpenForward, CallKeepsRest
  <2>2. ~overlapped => stored = NoForward
    BY <2>1 DEF CallInv, Popped
  <2>3. ASSUME ~overlapped, Others PROVE NoneOpen
    BY <2>1, <2>2, <2>3, ConstantFacts DEF CallInv, Accounted, NoneOpen, NoForward
  <2>4. CASE Goes(c, "idle") /\ UNCHANGED listener
    BY <1>0, <2>1, <2>2, <2>3, <2>4, NothingOpen, CallGoesOn DEF NoneOpen
  <2>5. CASE Goes(c, "store") /\ \E l \in Listeners :
               listener' = [listener EXCEPT ![l] = "open"] /\ Holds(c, got[c], l)
    <3>1. PICK l \in Listeners :
            listener' = [listener EXCEPT ![l] = "open"] /\ Holds(c, got[c], l)
      BY <2>5
    <3>2. pc'[c] = "store" /\ fwd'[c] = l
      BY <2>5, <3>1 DEF Goes, Holds, TypeInv, TypeOK
    <3>3. ASSUME ~overlapped, Others PROVE Accounted'
      BY <1>0, <2>3, <3>1, <3>2, <3>3 DEF Accounted, NoneOpen, TypeInv, TypeOK
    <3> QED
      BY <2>1, <2>2, <2>5, <3>3, CallGoesOn
  <2> QED
    BY <1>4, <2>4, <2>5 DEF OpenForward
<1>5. CASE Store(c)
  <2>1. pc[c] = "store" /\ overlapped' = overlapped /\ Goes(c, "idle")
        /\ stored'.fwd = fwd[c] /\ listener' = listener
    BY <1>5 DEF Store, CallStep, CallKeepsRest
  <2>2. ~overlapped => stored = NoForward
    BY <2>1 DEF CallInv, Popped
  <2>3. ASSUME ~overlapped, Others PROVE Accounted'
    BY <1>0, <2>1, <2>2, <2>3, ConstantFacts DEF CallInv, Accounted, NoForward
  <2> QED
    BY <2>1, <2>3, CallGoesOn
<1>6. CASE GiveUp(c)
  <2>1. PICK point \in {"sendStart", "disconnect", "idle"} :
          Goes(c, point) /\ (pc[c] # "stop" => point = "idle")
    BY <1>6, AfterStopTyped DEF GiveUp
  <2>2. pc[c] \in {"probe", "stop", "start"} /\ overlapped' = overlapped /\ KeepForward
    BY <1>6 DEF GiveUp, CallStep, CallKeepsRest
  <2>3. ~overlapped /\ pc[c] = "stop" => stored' = NoForward
    BY <2>2 DEF CallInv, Popped, KeepForward
  <2> QED
    BY <1>1, <2>1, <2>2, <2>3, CallGoesOn
<1>7. CASE EndSession(c)
  <2>1. pc[c] = "disconnect" /\ overlapped' = overlapped /\ Goes(c, "idle") /\ NoneOpen'
    BY <1>7 DEF EndSession, DropConnection, EveryForwardClosed, NoneOpen
  <2> QED
    BY <2>1, NothingOpen, CallGoesOn
<1> QED
  BY <1>2, <1>3, <1>4, <1>5, <1>6, <1>7 DEF Call

LEMMA NextCalls == TypeInv /\ CallInv /\ [Next]_vars => CallInv'
<1> SUFFICES ASSUME TypeInv, CallInv, [Next]_vars PROVE CallInv'
  OBVIOUS
<1>1. ASSUME NEW c \in Calls, Begin(c) PROVE CallInv'
  <2>1. SUFFICES ASSUME ~overlapped' PROVE (Alone /\ Popped /\ Accounted)'
    BY DEF CallInv
  <2>2. ~overlapped /\ \A b \in Calls : pc[b] = "idle"
    BY <1>1, <2>1 DEF Begin
  <2>3. PICK point \in {"probe", "sendStop", "disconnect"} :
          Goes(c, point) /\ (PopForward \/ (KeepForward /\ point # "sendStop"))
    BY <1>1 DEF Begin
  <2>4. pc'[c] = point /\ \A b \in Calls : b # c => pc'[b] = "idle"
    BY <2>2, <2>3 DEF Goes, TypeInv, TypeOK
  <2>5. Accounted /\ unheard' = unheard
    BY <1>1, <2>2 DEF CallInv, Begin, lateVars
  <2>6. CASE PopForward
    BY <2>2, <2>4, <2>5, <2>6, PopClosesAll, NothingOpen DEF Alone, Popped
  <2>7. CASE KeepForward /\ point # "sendStop"
    <3>1. Accounted'
      BY <2>2, <2>5, <2>7 DEF KeepForward, Accounted
    <3> QED
      BY <2>4, <2>7, <3>1 DEF Alone, Popped
  <2> QED
    BY <2>3, <2>6, <2>7
<1>2. ASSUME NEW c \in Calls, Call(c) PROVE CallInv'
  BY <1>2, CallKeepsCalls
<1>3. ASSUME NEW s \in Shells, Script(s) PROVE CallInv'
  BY <1>3, OthersKeepCalls DEF Script, callVars, lateVars
<1>4. ASSUME NEW i \in Instances, InstanceServes(i) \/ InstanceExits(i) \/ InstanceStops(i)
      PROVE  CallInv'
  BY <1>4, OthersKeepCalls
     DEF InstanceServes, InstanceExits, InstanceStops, InstanceKeepsRest, callVars, lateVars
<1>5. CASE ConnectionLost \/ Connect
  BY <1>5, OthersKeepCalls
     DEF ConnectionLost, Connect, DropConnection, EveryForwardClosed, callVars, lateVars
<1>6. CASE Restart
  BY <1>6 DEF Restart, EveryForwardClosed, CallInv, Alone, Popped, Accounted
<1>7. CASE UNCHANGED vars
  BY <1>7, OthersKeepCalls DEF vars, callVars, lateVars
<1>8. CASE LateForward
  <2>1. \A l \in Listeners : listener'[l] = "open" => listener[l] = "open" \/ l \in unheard'
    BY <1>8 DEF LateForward, TypeInv, TypeOK
  <2> QED
    BY <1>8, <2>1, OthersKeepCalls DEF LateForward, callVars
<1> QED
  BY <1>1, <1>2, <1>3, <1>4, <1>5, <1>6, <1>7, <1>8 DEF Next, Rest

LEMMA AlwaysCalls == Spec => [](TypeInv /\ CallInv)
<1>1. Init => TypeInv /\ CallInv
  BY InitTyped, InitCalls
<1>2. TypeInv /\ CallInv /\ [Next]_vars => (TypeInv /\ CallInv)'
  BY NextTyped, NextCalls
<1> QED
  BY <1>1, <1>2, PTL DEF Spec

\* No local port stays open that nobody will close, those excepted that were opened
\* after their caller had given up: an open listener is stored, or in the hands of
\* the call that has just made it, unless two calls overlapped.
THEOREM ListenersAccounted == Spec => []ListenersAreAccounted
<1>1. CallInv => ListenersAreAccounted
  BY DEF CallInv, Accounted, ListenersAreAccounted
<1> QED
  BY <1>1, AlwaysCalls, PTL

-----------------------------------------------------------------------------
(* Both.  While an instance is stored, or on its way there, no script makes *)
(* changes; so none can kill it.                                           *)

LEMMA InitQuiet == Init => QuietInv
BY DEF Init, QuietInv, AnswerHolds

\* A step that starts no change, kills nothing, and brings no instance, and no
\* answer to a start or a stop, nearer to being stored.
LEMMA OthersKeepQuiet ==
  ASSUME TypeInv, QuietInv, stored' \in {stored, NoForward},
         overlapped => overlapped', raced => raced', Quiet => Quiet', NoneRuns => NoneRuns',
         \A i \in Instances : Lives(i) => Lives(i)',
         \A c \in Calls : pc'[c] \in {"forward", "store"} =>
           pc[c] \in {"forward", "store"} /\ got'[c] = got[c],
         \A s \in Shells : step'[s] = "done" /\ pc'[caller'[s]] \in {"start", "stop"} =>
           /\ step[s] = "done" /\ caller'[s] = caller[s] /\ out'[s] = out[s]
           /\ pc'[caller[s]] = pc[caller[s]]
  PROVE  QuietInv'
<1> SUFFICES ASSUME ~overlapped', ~raced'
             PROVE  /\ (stored # NoForward => Quiet /\ Lives(stored.inst))'
                    /\ (\A c \in Calls : pc[c] \in {"forward", "store"} =>
                          Quiet /\ Lives(got[c]))'
                    /\ (\A s \in Shells : AnswerHolds(s))'
  BY DEF QuietInv
<1>1. /\ stored # NoForward => Quiet /\ Lives(stored.inst)
      /\ \A c \in Calls : pc[c] \in {"forward", "store"} => Quiet /\ Lives(got[c])
      /\ \A s \in Shells : AnswerHolds(s)
  BY DEF QuietInv
<1>2. (stored # NoForward => Quiet /\ Lives(stored.inst))'
  BY <1>1 DEF Lives, Forward, TypeInv, TypeOK
<1>3. ASSUME NEW c \in Calls, pc'[c] \in {"forward", "store"} PROVE Quiet' /\ Lives(got[c])'
  BY <1>1, <1>3 DEF Lives, HoldOk, TypeInv
<1>4. ASSUME NEW s \in Shells PROVE AnswerHolds(s)'
  BY <1>1, <1>4 DEF AnswerHolds, Lives, ScriptOk, TypeInv
<1> QED
  BY <1>2, <1>3, <1>4

\* Nothing is said where nothing is stored, and no call has what it needs.
LEMMA NothingStored ==
  ASSUME stored = NoForward, \A c \in Calls : pc[c] \notin {"forward", "store"},
         \A s \in Shells : step[s] = "done" => pc[caller[s]] \notin {"start", "stop"}
  PROVE  QuietInv
BY DEF QuietInv, AnswerHolds

\* While a script makes changes, nothing is stored or on its way there.
LEMMA ChangesAreAlone ==
  ASSUME QuietInv, ~overlapped, ~raced, NEW s \in Shells, step[s] \in Changing
  PROVE  /\ stored = NoForward
         /\ \A c \in Calls : pc[c] \notin {"forward", "store"}
         /\ \A t \in Shells : step[t] = "done" => pc[caller[t]] \notin {"start", "stop"}
BY DEF QuietInv, Quiet, AnswerHolds

LEMMA ScriptQuiet ==
  ASSUME TypeInv, VmInv, QuietInv, NEW s \in Shells, Script(s) PROVE QuietInv'
<1> USE DEF TypeInv, TypeOK
<1>1. UNCHANGED <<stored, pc, got, overlapped, raced>>
  BY DEF Script, callVars
<1>2. CASE overlapped \/ raced
  BY <1>1, <1>2 DEF QuietInv
<1>3. CASE ~overlapped /\ ~raced /\ Probe(s)
  <2>1. /\ step[s] = "probe" /\ step'[s] \in {"idle", "done"} /\ UNCHANGED <<caller, instance>>
        /\ \A t \in Shells : t # s => step'[t] = step[t] /\ out'[t] = out[t]
    BY <1>3 DEF Probe, EndScript, vmVars
  <2>2. step'[s] = "done" => pc[caller[s]] = "probe"
    BY <1>3, <2>1, ConstantFacts DEF Probe, EndScript, ScriptOk, AwaitedAt, StopSteps, StartSteps
  <2>3. Quiet => Quiet'
    BY <2>1 DEF Quiet, Changing, StopSteps, StartSteps
  <2> QED
    BY <1>1, <2>1, <2>2, <2>3, OthersKeepQuiet DEF NoneRuns, Runs, Lives
<1>4. CASE /\ ~overlapped /\ ~raced
           /\ \/ StopKill(s) \/ StartKill(s) \/ StartPort(s) \/ StartLaunch(s) \/ StartPid(s)
  <2>1. /\ step[s] \in Changing /\ step'[s] # "done" /\ caller' = caller
        /\ \A t \in Shells : t # s => step'[t] = step[t]
    BY <1>4 DEF StopKill, StartKill, StartPort, StartLaunch, StartPid, Goto, Changing,
       StopSteps, StartSteps
  <2> QED
    BY <1>1, <1>4, <2>1, ChangesAreAlone, NothingStored
       DEF QuietInv, AnswerHolds
<1>5. CASE /\ ~overlapped /\ ~raced
           /\ \/ StopRemove(s) \/ StartRefused(s) \/ StartReady(s) \/ StartTooLate(s)
              \/ StartCut(s)
  <2>1. /\ step[s] \in Changing /\ step'[s] \in {"idle", "done"} /\ caller' = caller
        /\ step'[s] = "done" => caller[s] # None
        /\ \A t \in Shells : t # s => step'[t] = step[t] /\ out'[t] = out[t]
    BY <1>5 DEF StopRemove, StartRefused, StartReady, StartTooLate, StartCut, EndScript,
       Changing, StopSteps, StartSteps
  <2>2. Quiet'
    BY <1>5, <2>1, Exclusive DEF Quiet, Changing, StopSteps, StartSteps
  <2>3. /\ stored' = NoForward /\ \A c \in Calls : pc'[c] \notin {"forward", "store"}
        /\ \A t \in Shells : t # s /\ step'[t] = "done" =>
             pc'[caller'[t]] \notin {"start", "stop"}
    BY <1>1, <1>5, <2>1, ChangesAreAlone
  <2>4. ASSUME step'[s] = "done", pc[caller[s]] = "stop" PROVE NoneRuns'
    <3>1. StopRemove(s)
      BY <1>5, <2>1, <2>4 DEF StopRemove, StartRefused, StartReady, StartTooLate, StartCut,
         EndScript, ScriptOk, AwaitedAt, StopSteps, StartSteps
    <3> QED
      BY <1>5, <3>1 DEF StopRemove, VmInv, Cleared, NoneRuns, Runs
  <2>5. ASSUME step'[s] = "done", pc[caller[s]] = "start", out'[s].ok
        PROVE  Lives(out[s].port)'
    <3>1. step[s] \in StartSteps /\ caller[s] # None
      BY <2>1, <2>5 DEF ScriptOk, AwaitedAt, Changing, StopSteps, StartSteps
    <3>2. StartReady(s)
      BY <1>5, <2>5, <3>1 DEF StopRemove, StartRefused, StartReady, StartTooLate, StartCut,
         EndScript, StopSteps, StartSteps, Failed
    <3>3. out'[s].port = own[s] /\ instance' = instance /\ step[s] = "startWait"
      BY <2>5, <3>1, <3>2 DEF StartReady, EndScript, vmVars
    <3> QED
      BY <1>5, <3>3 DEF VmInv, Cleared, Lives, Launching
  <2>6. AnswerHolds(s)'
    BY <1>1, <2>1, <2>2, <2>4, <2>5 DEF AnswerHolds
  <2>7. \A t \in Shells : AnswerHolds(t)'
    BY <2>3, <2>6 DEF AnswerHolds
  <2> QED
    BY <2>3, <2>7 DEF QuietInv, NoForward
<1> QED
  BY <1>2, <1>3, <1>4, <1>5 DEF Script

\* To take an answer starts nothing, and brings no other one nearer.
LEMMA TakenQuiet ==
  ASSUME TypeInv, NEW c \in Calls, NEW s \in Shells, Taken(c, s), NEW point, Goes(c, point),
         UNCHANGED vmVars
  PROVE  /\ Quiet => Quiet'
         /\ NoneRuns => NoneRuns'
         /\ \A i \in Instances : Lives(i) => Lives(i)'
         /\ raced' = raced
         /\ \A t \in Shells : step'[t] = "done" =>
              /\ step[t] = "done" /\ caller'[t] = caller[t] /\ out'[t] = out[t]
              /\ pc'[caller[t]] = pc[caller[t]]
<1> USE DEF TypeInv, TypeOK
<1>1. /\ step[s] = "done" /\ step'[s] = "idle" /\ caller[s] = c
      /\ \A t \in Shells : t # s =>
           step'[t] = step[t] /\ caller'[t] = caller[t] /\ out'[t] = out[t]
      /\ raced' = raced
  BY DEF Taken, Delivered
<1>2. Quiet => Quiet'
  BY <1>1 DEF Quiet, Changing, StopSteps, StartSteps
<1>3. \A t \in Shells : t # s => caller[t] # c
  BY <1>1, ConstantFacts DEF OneScript
<1>4. \A t \in Shells : t # s => pc'[caller[t]] = pc[caller[t]]
  BY <1>3 DEF Goes
<1> QED
  BY <1>1, <1>2, <1>4 DEF NoneRuns, Runs, Lives, vmVars

\* A script that makes changes is only sent once what was stored is popped.
LEMMA SendQuiet ==
  ASSUME TypeInv, CallInv, NEW c \in Calls, pc[c] \in {"sendStop", "sendStart"},
         NEW first \in {"stopKill", "startKill"}, Exec(c, first),
         NEW point \in {"stop", "start"}, Goes(c, point), UNCHANGED <<stored, overlapped>>
  PROVE  QuietInv'
<1> USE DEF TypeInv, TypeOK
<1>1. SUFFICES ASSUME ~overlapped PROVE QuietInv'
  BY DEF QuietInv
<1>2. stored' = NoForward /\ \A b \in Calls : b # c => pc'[b] = "idle"
  BY <1>1 DEF CallInv, Popped, Alone, Goes
<1>3. pc'[c] = point
  BY DEF Goes
<1>4. PICK s \in Shells : /\ step' = [step EXCEPT ![s] = first]
                          /\ caller' = [caller EXCEPT ![s] = c]
  BY DEF Exec
<1>5. ASSUME NEW t \in Shells, step'[t] = "done" PROVE pc'[caller'[t]] = "idle"
  BY <1>2, <1>4, <1>5, NoScriptOfIts DEF ScriptOk
<1> QED
  BY <1>2, <1>3, <1>5, NothingStored DEF QuietInv, AnswerHolds, NoForward

LEMMA CallQuiet ==
  ASSUME TypeInv, CallInv, QuietInv, NEW c \in Calls, Call(c) PROVE QuietInv'
<1> USE DEF TypeInv, TypeOK
<1>1. CASE Probed(c)
  <2>1. PICK s \in Shells :
          /\ Taken(c, s)
          /\ \/ \E point \in {"idle", "sendStop", "sendStart"} :
                  Goes(c, point) /\ (KeepForward \/ PopForward) /\ KeepsHold
             \/ /\ PopForward /\ Reuses(out[s]) /\ Goes(c, "forward")
                /\ Holds(c, stored.inst, None)
    BY <1>1 DEF Probed
  <2>2. overlapped' = overlapped /\ UNCHANGED vmVars /\ stored' \in {stored, NoForward}
    BY <1>1, <2>1 DEF Probed, CallStep, CallKeepsRest, KeepForward, PopForward
  <2>3. ASSUME NEW point \in {"idle", "sendStop", "sendStart"}, Goes(c, point), KeepsHold
        PROVE  QuietInv'
    <3>1. \A b \in Calls : pc'[b] \in {"forward", "store"} =>
            pc[b] \in {"forward", "store"} /\ got'[b] = got[b]
      BY <2>3 DEF Goes, KeepsHold
    <3> QED
      BY <2>1, <2>2, <2>3, <3>1, TakenQuiet, OthersKeepQuiet
  <2>4. CASE /\ PopForward /\ Reuses(out[s]) /\ Goes(c, "forward")
             /\ Holds(c, stored.inst, None)
    <3>1. SUFFICES ASSUME ~overlapped, ~raced PROVE QuietInv'
      BY <2>1, <2>2, TakenQuiet, <2>4 DEF QuietInv
    <3>2. Quiet' /\ Lives(stored.inst)
      BY <2>1, <2>2, <2>4, <3>1, TakenQuiet DEF QuietInv, Reuses
    <3>3. stored' = NoForward
      BY <2>4 DEF PopForward
    <3>4. pc'[c] = "forward" /\ got'[c] = stored.inst
          /\ \A b \in Calls : b # c => pc'[b] = "idle"
      BY <1>1, <2>4, <3>1 DEF Probed, Goes, Holds, CallInv, Alone
    <3>5. ASSUME NEW t \in Shells PROVE AnswerHolds(t)'
      <4>1. step'[t] = "done" => step[t] = "done" /\ caller'[t] = caller[t] /\ caller[t] # None
        BY <2>1, <2>2, <2>4, TakenQuiet DEF ScriptOk
      <4>2. step'[t] = "done" => pc'[caller'[t]] \in {"idle", "forward"}
        BY <3>4, <4>1
      <4> QED
        BY <4>2 DEF AnswerHolds
    <3>6. ASSUME NEW b \in Calls, pc'[b] \in {"forward", "store"}
          PROVE  Quiet' /\ Lives(got[b])'
      BY <2>2, <3>2, <3>4, <3>6 DEF Lives, vmVars
    <3> QED
      BY <3>3, <3>5, <3>6 DEF QuietInv, NoForward
  <2> QED
    BY <2>1, <2>3, <2>4
<1>2. CASE SendStop(c) \/ SendStart(c)
  <2>1. UNCHANGED <<stored, overlapped, got, vmVars>> /\ pc[c] \in {"sendStop", "sendStart"}
    BY <1>2 DEF SendStop, SendStart, CallStep, CallKeepsRest, KeepsHold, KeepForward
  <2>2. CASE \/ Exec(c, "stopKill") /\ Goes(c, "stop")
             \/ Exec(c, "startKill") /\ Goes(c, "start")
    BY <2>1, <2>2, SendQuiet
  <2>3. ASSUME NoScript, NEW point \in {"sendStart", "disconnect", "idle"}, Goes(c, point)
        PROVE  QuietInv'
    <3>1. \A b \in Calls : pc'[b] \in {"forward", "store"} => pc[b] \in {"forward", "store"}
      BY <2>3 DEF Goes
    <3>2. \A s \in Shells : caller[s] \in Calls => pc'[caller[s]] = pc[caller[s]]
      BY <2>1, <2>3, NoScriptOfIts DEF Goes
    <3>3. \A s \in Shells : step[s] = "done" => caller[s] \in Calls
      BY DEF ScriptOk
    <3> QED
      BY <2>1, <2>3, <3>1, <3>2, <3>3, OthersKeepQuiet
         DEF NoScript, shellVars, Quiet, NoneRuns, Runs, Lives, vmVars
  <2> QED
    BY <1>2, <2>2, <2>3, AfterStopTyped DEF SendStop, SendStart
<1>3. CASE Stopped(c)
  <2>1. PICK s \in Shells : Taken(c, s)
    BY <1>3 DEF Stopped
  <2>2. PICK point \in {"sendStart", "disconnect", "idle"} : Goes(c, point)
    BY <1>3, AfterStopTyped DEF Stopped
  <2>3. UNCHANGED <<stored, overlapped, got, vmVars>>
    BY <1>3 DEF Stopped, CallStep, CallKeepsRest, KeepsHold, KeepForward
  <2>4. \A b \in Calls : pc'[b] \in {"forward", "store"} => pc[b] \in {"forward", "store"}
    BY <2>2 DEF Goes
  <2> QED
    BY <2>1, <2>2, <2>3, <2>4, TakenQuiet, OthersKeepQuiet
<1>4. CASE Started(c)
  <2>1. PICK s \in Shells :
          /\ Taken(c, s)
          /\ IF out[s].ok THEN Goes(c, "forward") /\ Holds(c, out[s].port, None)
                          ELSE Goes(c, "idle") /\ KeepsHold
    BY <1>4 DEF Started
  <2>2. UNCHANGED <<stored, overlapped, vmVars>> /\ pc[c] = "start"
    BY <1>4 DEF Started, CallStep, CallKeepsRest, KeepForward
  <2>3. CASE ~out[s].ok
    <3>1. \A b \in Calls : pc'[b] \in {"forward", "store"} =>
            pc[b] \in {"forward", "store"} /\ got'[b] = got[b]
      BY <2>1, <2>3 DEF Goes, KeepsHold
    <3> QED
      BY <2>1, <2>2, <2>3, <3>1, TakenQuiet, OthersKeepQuiet
  <2>4. CASE out[s].ok
    <3>1. SUFFICES ASSUME ~overlapped, ~raced PROVE QuietInv'
      BY <2>1, <2>2, <2>4, TakenQuiet DEF QuietInv
    <3>2. Quiet /\ Lives(out[s].port)
      BY <2>1, <2>2, <2>4, <3>1 DEF Taken, Delivered, QuietInv, AnswerHolds
    <3>3. Quiet'
      BY <2>1, <2>2, <2>4, <3>2, TakenQuiet
    <3> QED
      <4>1. pc'[c] = "forward" /\ got'[c] = out[s].port /\ instance' = instance
            /\ \A b \in Calls : b # c => pc'[b] = "idle"
        BY <2>1, <2>2, <2>4, <3>1 DEF Goes, Holds, CallInv, Alone, vmVars
      <4>2. stored' = NoForward
        BY <2>2, <3>1 DEF CallInv, Popped
      <4>3. ASSUME NEW t \in Shells PROVE AnswerHolds(t)'
        <5>1. step'[t] = "done" =>
                step[t] = "done" /\ caller'[t] = caller[t] /\ caller[t] # None
          BY <2>1, <2>2, <2>4, TakenQuiet DEF ScriptOk
        <5> QED
          BY <4>1, <5>1 DEF AnswerHolds
      <4>4. ASSUME NEW b \in Calls, pc'[b] \in {"forward", "store"}
            PROVE  Quiet' /\ Lives(got[b])'
        BY <3>2, <3>3, <4>1, <4>4 DEF Lives
      <4> QED
        BY <4>2, <4>3, <4>4 DEF QuietInv, NoForward
  <2> QED
    BY <2>3, <2>4
<1>5. CASE OpenForward(c)
  <2>1. UNCHANGED <<shellVars, stored, overlapped, vmVars>> /\ pc[c] = "forward"
    BY <1>5 DEF OpenForward, CallStep, CallKeepsRest, NoScript
  <2>2. /\ \A b \in Calls : pc'[b] \in {"forward", "store"} =>
             pc[b] \in {"forward", "store"} /\ got'[b] = got[b]
        /\ \A b \in Calls : b # c => pc'[b] = pc[b]
    BY <1>5 DEF OpenForward, Goes, Holds, HoldsNothing
  <2>3. \A s \in Shells : step[s] = "done" => caller[s] \in Calls /\ caller[s] # c
    BY <2>1, NoScriptOfIts DEF ScriptOk
  <2> QED
    BY <2>1, <2>2, <2>3, OthersKeepQuiet
       DEF shellVars, Quiet, NoneRuns, Runs, Lives, vmVars
<1>6. CASE Store(c)
  <2>1. UNCHANGED <<shellVars, overlapped, vmVars>> /\ pc[c] = "store" /\ stored'.inst = got[c]
        /\ \A b \in Calls : b # c => pc'[b] = pc[b] /\ got'[b] = got[b]
    BY <1>6 DEF Store, CallStep, CallKeepsRest, NoScript, Goes, HoldsNothing, Holds
  <2>2. pc'[c] = "idle"
    BY <1>6 DEF Store, Goes
  <2>3. SUFFICES ASSUME ~overlapped, ~raced PROVE QuietInv'
    BY <2>1 DEF QuietInv, shellVars
  <2>4. Quiet' /\ Lives(stored.inst)' /\ \A b \in Calls : b # c => pc'[b] = "idle"
    BY <2>1, <2>3 DEF QuietInv, CallInv, Alone, Quiet, Lives, shellVars, vmVars
  <2>5. \A s \in Shells : step'[s] = "done" => pc'[caller'[s]] = "idle"
    BY <2>1, <2>2, <2>4 DEF ScriptOk, shellVars
  <2> QED
    BY <2>2, <2>4, <2>5 DEF QuietInv, AnswerHolds
<1>7. CASE GiveUp(c)
  <2>1. PICK point \in {"sendStart", "disconnect", "idle"} : Goes(c, point)
    BY <1>7, AfterStopTyped DEF GiveUp
  <2>2. UNCHANGED <<stored, overlapped, raced, got, step, out, vmVars>>
    BY <1>7 DEF GiveUp, CallStep, CallKeepsRest, KeepsHold, KeepForward
  <2>3. \A s \in Shells : step[s] = "done" =>
          /\ caller[s] # c /\ caller'[s] = caller[s] /\ pc'[caller[s]] = pc[caller[s]]
    BY <1>7, <2>1 DEF GiveUp, Delivered, ScriptOk, Goes
  <2>4. \A b \in Calls : pc'[b] \in {"forward", "store"} => pc[b] \in {"forward", "store"}
    BY <2>1 DEF Goes
  <2> QED
    BY <2>2, <2>3, <2>4, OthersKeepQuiet DEF Quiet, NoneRuns, Runs, Lives, vmVars
<1>8. CASE EndSession(c)
  <2>1. UNCHANGED <<stored, overlapped, raced, got, step, out, vmVars>> /\ DropConnection
        /\ pc[c] = "disconnect" /\ Goes(c, "idle")
    BY <1>8 DEF EndSession, KeepsHold
  <2>2. \A s \in Shells : step[s] = "done" =>
          caller'[s] = caller[s] /\ pc'[caller[s]] = pc[caller[s]]
    BY <2>1, NoScriptOfIts DEF DropConnection, ScriptOk, Goes
  <2>3. \A b \in Calls : pc'[b] \in {"forward", "store"} => pc[b] \in {"forward", "store"}
    BY <2>1 DEF Goes
  <2> QED
    BY <2>1, <2>2, <2>3, OthersKeepQuiet DEF Quiet, NoneRuns, Runs, Lives, vmVars
<1> QED
  BY <1>1, <1>2, <1>3, <1>4, <1>5, <1>6, <1>7, <1>8 DEF Call

LEMMA NextQuiet == TypeInv /\ VmInv /\ CallInv /\ QuietInv /\ [Next]_vars => QuietInv'
<1> SUFFICES ASSUME TypeInv, VmInv, CallInv, QuietInv, [Next]_vars PROVE QuietInv'
  OBVIOUS
<1> USE DEF TypeInv, TypeOK
<1>1. ASSUME NEW c \in Calls, Begin(c) PROVE QuietInv'
  <2>1. pc[c] = "idle" /\ UNCHANGED <<got, vmVars>> /\ (overlapped => overlapped')
        /\ stored' \in {stored, NoForward}
    BY <1>1 DEF Begin, KeepsHold, KeepForward, PopForward
  <2>2. PICK point \in {"probe", "sendStop", "disconnect"} : Goes(c, point)
    BY <1>1 DEF Begin
  <2>3. \A b \in Calls : pc'[b] \in {"forward", "store"} => pc[b] \in {"forward", "store"}
    BY <2>2 DEF Goes
  <2>4. \A s \in Shells : step[s] = "done" => pc'[caller[s]] = pc[caller[s]]
    BY <2>1, <2>2, NoScriptOfIts DEF ScriptOk, Goes
  <2>5. CASE Exec(c, "probe")
    <3>1. PICK s \in Shells : /\ step[s] = "idle" /\ step' = [step EXCEPT ![s] = "probe"]
                              /\ caller' = [caller EXCEPT ![s] = c]
      BY <2>5 DEF Exec
    <3>2. out' = out /\ (raced => raced')
      BY <2>5 DEF Exec
    <3>3. Quiet => Quiet'
      BY <3>1 DEF Quiet, Changing, StopSteps, StartSteps
    <3>4. \A t \in Shells : step'[t] = "done" => step[t] = "done" /\ caller'[t] = caller[t]
      BY <3>1
    <3> QED
      BY <2>1, <2>3, <2>4, <3>2, <3>3, <3>4, OthersKeepQuiet
         DEF NoneRuns, Runs, Lives, vmVars
  <2>6. CASE NoScript
    BY <2>1, <2>3, <2>4, <2>6, OthersKeepQuiet
       DEF NoScript, shellVars, Quiet, NoneRuns, Runs, Lives, vmVars
  <2> QED
    BY <1>1, <2>5, <2>6 DEF Begin
<1>2. ASSUME NEW c \in Calls, Call(c) PROVE QuietInv'
  BY <1>2, CallQuiet
<1>3. ASSUME NEW s \in Shells, Script(s) PROVE QuietInv'
  BY <1>3, ScriptQuiet
<1>4. ASSUME NEW i \in Instances, InstanceServes(i) \/ InstanceExits(i) \/ InstanceStops(i)
      PROVE  QuietInv'
  <2>1. UNCHANGED <<stored, callVars, shellVars>>
    BY <1>4 DEF InstanceServes, InstanceExits, InstanceStops, InstanceKeepsRest
  <2>2. (\A j \in Instances : Lives(j) => Lives(j)') /\ (NoneRuns => NoneRuns')
    BY <1>4
       DEF InstanceServes, InstanceExits, InstanceStops, InstanceKeepsRest, Lives, NoneRuns, Runs
  <2> QED
    BY <2>1, <2>2, OthersKeepQuiet DEF callVars, shellVars, Quiet
<1>5. CASE ConnectionLost \/ Connect
  BY <1>5, OthersKeepQuiet
     DEF ConnectionLost, Connect, DropConnection, callVars, vmVars, Quiet, NoneRuns, Runs, Lives
<1>6. CASE Restart
  <2>1. \A s \in Shells : step'[s] # "done"
    BY <1>6 DEF Restart
  <2> QED
    BY <1>6, <2>1 DEF Restart, QuietInv, AnswerHolds, NoForward
<1>7. CASE LateForward \/ UNCHANGED vars
  BY <1>7, OthersKeepQuiet
     DEF LateForward, vars, callVars, shellVars, vmVars, Quiet, NoneRuns, Runs, Lives
<1> QED
  BY <1>1, <1>2, <1>3, <1>4, <1>5, <1>6, <1>7 DEF Next, Rest

LEMMA AlwaysQuiet == Spec => [](TypeInv /\ VmInv /\ CallInv /\ QuietInv)
<1>1. Init => QuietInv
  BY InitQuiet
<1>2. TypeInv /\ VmInv /\ CallInv /\ QuietInv /\ [Next]_vars => QuietInv'
  BY NextQuiet
<1> QED
  BY <1>1, <1>2, AlwaysVm, AlwaysCalls, PTL DEF Spec

\* What is stored of the profile leads to an instance that no script has told to
\* stop, unless calls overlapped or a script was sent during another's changes.
THEOREM ForwardServes == Spec => []StoredForwardServes
<1>1. QuietInv => StoredForwardServes
  BY DEF QuietInv, Lives, StoredForwardServes
<1> QED
  BY <1>1, AlwaysQuiet, PTL

\* A close or disconnect whose stop script answered leaves no instance behind that
\* was not told to stop, unless calls overlapped or scripts raced.
THEOREM ClosesStop == Spec => ClosedMeansStopped
<1> DEFINE Stops == \A c \in Calls : Stopped(c) /\ kind[c] # "open" /\ ~overlapped /\ ~raced =>
                      Running' = {}
<1>1. TypeInv /\ QuietInv => Stops
  <2> SUFFICES ASSUME TypeInv, QuietInv, NEW c \in Calls, Stopped(c), ~overlapped, ~raced
               PROVE  Running' = {}
    OBVIOUS
  <2>1. NoneRuns /\ instance' = instance
    BY DEF Stopped, Taken, Delivered, CallStep, CallKeepsRest, vmVars, QuietInv, AnswerHolds
  <2> QED
    BY <2>1 DEF Running, NoneRuns, Runs
<1>2. TypeInv /\ QuietInv => [Stops]_vars
  BY <1>1
<1>3. Spec => [][Stops]_vars
  BY <1>2, AlwaysQuiet, PTL
<1> QED
  BY <1>3 DEF ClosedMeansStopped
=============================================================================
