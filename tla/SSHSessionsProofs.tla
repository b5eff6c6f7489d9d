------------------------- MODULE SSHSessionsProofs -------------------------
(* Theorems about SSHSessions, for any number of profiles, connections,     *)
(* terminals, listeners and coroutines.                                     *)
EXTENDS SSHSessions, TLAPS

USE DEF sshVars, libVars, taskVars, vars

-----------------------------------------------------------------------------
(* Types.                                                                  *)

\* What the steps that close a session's listeners and connection write.
LEMMA CloseRestTypes ==
  ASSUME TypeOK, NEW t \in Tasks, NEW p \in Profiles \cup {None},
         NEW s \in Conns \cup {None}, NEW rest \in SUBSET Listeners,
         CloseRest(t, p, s, rest)
  PROVE  /\ listener' \in [Listeners -> ListenerStatus]
         /\ forwards' \in [Conns -> SUBSET Listeners]
         /\ conn' \in [Conns -> ConnStatus]
         /\ pc' \in [Tasks -> Await]
         /\ profile' \in [Tasks -> Profiles \cup {None}]
         /\ sess' \in [Tasks -> Conns \cup {None}]
         /\ at' \in [Tasks -> Listeners \cup {None}]
         /\ todo' \in [Tasks -> SUBSET Listeners]
<1> USE DEF TypeOK, Suspend, ConnStatus, ListenerStatus, Await
<1>1. CASE CloseOneListener(t, p, s, rest)
  <2> PICK l \in rest :
        /\ listener' = [listener EXCEPT ![l] = "closed"]
        /\ at' = [at EXCEPT ![t] = l]
        /\ todo' = [todo EXCEPT ![t] = rest \ {l}]
        /\ Suspend(t, "listener", p, s)
        /\ UNCHANGED <<conn, forwards>>
    BY <1>1 DEF CloseOneListener
  <2> QED OBVIOUS
<1>2. CASE CloseConn(t, p, s, rest)
  <2>1. conn' \in [Conns -> ConnStatus]
    BY <1>2 DEF CloseConn, CloseRequested
  <2> QED BY <1>2, <2>1 DEF CloseConn
<1> QED BY <1>1, <1>2 DEF CloseRest

\* What a coroutine that returns, raises or suspends writes.
LEMMA FinishTypes ==
  ASSUME TypeOK, NEW t \in Tasks, Finish(t)
  PROVE  /\ pc' \in [Tasks -> Await]
         /\ profile' \in [Tasks -> Profiles \cup {None}]
         /\ sess' \in [Tasks -> Conns \cup {None}]
         /\ at' \in [Tasks -> Listeners \cup {None}]
         /\ todo' \in [Tasks -> SUBSET Listeners]
         /\ reconnect' \in [Tasks -> BOOLEAN]
BY DEF TypeOK, Finish, Suspend, Await

\* Type correctness of a _disconnect that has just popped its session.
LEMMA BeginDisconnectTypes ==
  ASSUME TypeOK, NEW t \in Tasks, NEW p \in Profiles, BeginDisconnect(t, p),
         reconnect' \in [Tasks -> BOOLEAN]
  PROVE  TypeOK'
<1>1. states[p] \in Conns /\ forwards[states[p]] \in SUBSET Listeners
  BY DEF BeginDisconnect, TypeOK
<1>2. CloseRest(t, p, states[p], forwards[states[p]])
  BY DEF BeginDisconnect
<1>3. /\ states' \in [Profiles -> Conns \cup {None}]
      /\ terminals' \in [Conns -> SUBSET Terminals]
  BY <1>1 DEF BeginDisconnect, TypeOK, Popped
<1>4. process' \in [Terminals -> ProcessStatus]
  BY DEF BeginDisconnect, TypeOK, ProcessStatus
<1>5. UNCHANGED <<owner, via, busy>>
  BY DEF BeginDisconnect
<1> QED BY <1>1, <1>2, <1>3, <1>4, <1>5, CloseRestTypes DEF TypeOK

\* One step preserves the types.
LEMMA TypeStep == TypeOK /\ [Next]_vars => TypeOK'
<1> SUFFICES ASSUME TypeOK, [Next]_vars PROVE TypeOK'
  OBVIOUS
<1>a. ASSUME NEW t \in Tasks, NEW p \in Profiles \cup {None}, Dial(t, p) PROVE TypeOK'
  BY <1>a DEF Dial, Suspend, TypeOK, Await
<1>1. ASSUME NEW t \in Tasks, NEW p \in Profiles, Connect(t, p) PROVE TypeOK'
  <2>1. CASE BeginDisconnect(t, p) /\ reconnect' = [reconnect EXCEPT ![t] = TRUE]
    <3>1. reconnect' \in [Tasks -> BOOLEAN]
      BY <2>1 DEF TypeOK
    <3>2. QED BY <2>1, <3>1, BeginDisconnectTypes
  <2>2. CASE Dial(t, p)
    BY <1>a, <2>2
  <2>3. QED BY <1>1, <2>1, <2>2 DEF Connect
<1>2. ASSUME NEW t \in Tasks, NEW p \in Profiles, Disconnect(t, p) PROVE TypeOK'
  <2>1. BeginDisconnect(t, p) /\ reconnect' \in [Tasks -> BOOLEAN]
    BY <1>2 DEF Disconnect, TypeOK
  <2>2. QED BY <2>1, BeginDisconnectTypes
<1>3. ASSUME NEW t \in Tasks, NEW p \in Profiles, OpenTerminal(t, p) \/ OpenForward(t, p)
      PROVE TypeOK'
  BY <1>3 DEF OpenTerminal, OpenForward, Begin, Live, Suspend, TypeOK, Await
<1>4. ASSUME NEW t \in Tasks, NEW p \in Profiles, NEW l \in Listeners, CloseForward(t, p, l)
      PROVE TypeOK'
  <2>1. forwards' \in [Conns -> SUBSET Listeners]
    BY <1>4 DEF CloseForward, TypeOK
  <2>2. listener' \in [Listeners -> ListenerStatus]
    BY <1>4 DEF CloseForward, TypeOK, ListenerStatus
  <2>3. QED BY <1>4, <2>1, <2>2 DEF CloseForward, Live, Suspend, TypeOK, Await
<1>5. ASSUME NEW t \in Tasks, ListenerClosed(t) PROVE TypeOK'
  <2>1. /\ profile[t] \in Profiles \cup {None}
        /\ sess[t] \in Conns \cup {None}
        /\ todo[t] \in SUBSET Listeners
    BY DEF TypeOK
  <2>2. CloseRest(t, profile[t], sess[t], todo[t])
    BY <1>5 DEF ListenerClosed
  <2>3. UNCHANGED <<states, owner, terminals, process, via, busy, reconnect>>
    BY <1>5 DEF ListenerClosed
  <2>4. QED BY <2>1, <2>2, <2>3, CloseRestTypes DEF TypeOK
<1>6. ASSUME NEW t \in Tasks, ConnClosed(t) PROVE TypeOK'
  <2>1. CASE Dial(t, profile[t])
    BY <1>a, <2>1 DEF TypeOK
  <2>2. CASE Finish(t) /\ UNCHANGED <<sshVars, libVars>>
    BY <2>2, FinishTypes DEF TypeOK
  <2>3. QED BY <1>6, <2>1, <2>2 DEF ConnClosed
<1>7. ASSUME NEW t \in Tasks, DialOk(t) PROVE TypeOK'
  <2>1. Finish(t)
    BY <1>7 DEF DialOk
  <2>2. UNCHANGED <<terminals, forwards, libVars>>
    BY <1>7 DEF DialOk
  <2>3. /\ conn' \in [Conns -> ConnStatus]
        /\ owner' \in [Conns -> Profiles \cup {None}]
        /\ states' \in [Profiles -> Conns \cup {None}]
    BY <1>7 DEF DialOk, TypeOK, ConnStatus
  <2>4. QED BY <2>1, <2>2, <2>3, FinishTypes DEF TypeOK
<1>8. ASSUME NEW t \in Tasks, DialFailed(t) \/ OpenFailed(t) \/ ForwardClosed(t)
      PROVE TypeOK'
  BY <1>8, FinishTypes DEF DialFailed, OpenFailed, ForwardClosed, TypeOK
<1>9. ASSUME NEW t \in Tasks, TerminalOpened(t) PROVE TypeOK'
  <2>1. Finish(t)
    BY <1>9 DEF TerminalOpened
  <2>2. /\ process' \in [Terminals -> ProcessStatus]
        /\ via' \in [Terminals \cup Listeners -> Conns \cup {None}]
    BY <1>9 DEF TerminalOpened, TypeOK, ProcessStatus
  <2>3. terminals' \in [Conns -> SUBSET Terminals]
    <3>1. PICK x \in Terminals : terminals' = Register(terminals, sess[t], x)
      BY <1>9 DEF TerminalOpened
    <3>2. QED BY <3>1 DEF Register, TypeOK
  <2>4. UNCHANGED <<states, conn, owner, forwards, listener, busy>>
    BY <1>9 DEF TerminalOpened
  <2>5. QED BY <2>1, <2>2, <2>3, <2>4, FinishTypes DEF TypeOK
<1>10. ASSUME NEW t \in Tasks, ForwardOpened(t) PROVE TypeOK'
  <2>1. Finish(t)
    BY <1>10 DEF ForwardOpened
  <2>2. /\ listener' \in [Listeners -> ListenerStatus]
        /\ via' \in [Terminals \cup Listeners -> Conns \cup {None}]
    BY <1>10 DEF ForwardOpened, TypeOK, ListenerStatus
  <2>3. forwards' \in [Conns -> SUBSET Listeners]
    <3>1. PICK l \in Listeners : forwards' = Register(forwards, sess[t], l)
      BY <1>10 DEF ForwardOpened
    <3>2. QED BY <3>1 DEF Register, TypeOK
  <2>4. UNCHANGED <<states, conn, owner, terminals, process, busy>>
    BY <1>10 DEF ForwardOpened
  <2>5. QED BY <2>1, <2>2, <2>3, <2>4, FinishTypes DEF TypeOK
<1>11. ASSUME NEW p \in Profiles, NEW x \in Terminals, CloseTerminal(p, x) PROVE TypeOK'
  BY <1>11 DEF CloseTerminal, Live, TypeOK, ProcessStatus
<1>12. ASSUME NEW s \in Conns, ConnectionLost(s) \/ ConnectionEnds(s) PROVE TypeOK'
  BY <1>12 DEF ConnectionLost, ConnectionEnds, Cleanup, TypeOK, ConnStatus,
       ProcessStatus, ListenerStatus
<1>13. ASSUME NEW x \in Terminals, ProcessExits(x) PROVE TypeOK'
  BY <1>13 DEF ProcessExits, TypeOK, ProcessStatus
<1>14. ASSUME NEW l \in Listeners, ClientArrives(l) \/ ClientLeaves(l) PROVE TypeOK'
  BY <1>14 DEF ClientArrives, ClientLeaves, TypeOK
<1>15. CASE UNCHANGED vars
  BY <1>15 DEF TypeOK
<1>16. QED
  BY <1>1, <1>2, <1>3, <1>4, <1>5, <1>6, <1>7, <1>8, <1>9, <1>10, <1>11, <1>12,
     <1>13, <1>14, <1>15 DEF Next, Resume, Call, Environment

\* Type correctness: every table of SSHSessionManager holds what it declares.
THEOREM TypeCorrect == Spec => []TypeOK
<1>1. Init => TypeOK
  BY DEF Init, TypeOK, ConnStatus, ProcessStatus, ListenerStatus, Await
<1>2. QED BY <1>1, TypeStep, PTL DEF Spec

-----------------------------------------------------------------------------
(* Who owns what.                                                          *)

\* One step preserves the ownership of sessions and coroutines.
LEMMA OwnershipStep == TypeOK /\ Ownership /\ [Next]_vars => Ownership'
<1> SUFFICES ASSUME TypeOK, Ownership, [Next]_vars PROVE Ownership'
  OBVIOUS
<1> USE ConstantsAssumption DEF TypeOK, Ownership, Await, Teardown, ConnStatus
<1>a. ASSUME NEW t \in Tasks, NEW p \in Profiles, BeginDisconnect(t, p),
             \A u \in Tasks : u # t => reconnect'[u] = reconnect[u]
      PROVE  Ownership'
  <2>1. CASE CloseOneListener(t, p, states[p], forwards[states[p]])
    BY <1>a, <2>1 DEF BeginDisconnect, CloseOneListener, Suspend, Popped
  <2>2. CASE CloseConn(t, p, states[p], forwards[states[p]])
    BY <1>a, <2>2 DEF BeginDisconnect, CloseConn, CloseRequested, Suspend, Popped
  <2>3. QED BY <1>a, <2>1, <2>2 DEF BeginDisconnect, CloseRest
<1>b. ASSUME NEW t \in Tasks, NEW p \in Profiles, Dial(t, p) PROVE Ownership'
  BY <1>b DEF Dial, Suspend
<1>c. ASSUME NEW t \in Tasks, Finish(t), UNCHANGED <<states, conn, owner>>
      PROVE  Ownership'
  BY <1>c DEF Finish, Suspend
<1>1. ASSUME NEW t \in Tasks, NEW p \in Profiles, Connect(t, p) PROVE Ownership'
  BY <1>1, <1>a, <1>b DEF Connect
<1>2. ASSUME NEW t \in Tasks, NEW p \in Profiles, Disconnect(t, p) PROVE Ownership'
  BY <1>2, <1>a DEF Disconnect
<1>3. ASSUME NEW t \in Tasks, NEW p \in Profiles, OpenTerminal(t, p) \/ OpenForward(t, p)
      PROVE  Ownership'
  BY <1>3 DEF OpenTerminal, OpenForward, Begin, Live, Suspend
<1>4. ASSUME NEW t \in Tasks, NEW p \in Profiles, NEW l \in Listeners, CloseForward(t, p, l)
      PROVE  Ownership'
  BY <1>4 DEF CloseForward, Live, Suspend
<1>5. ASSUME NEW t \in Tasks, ListenerClosed(t) PROVE Ownership'
  <2>1. CASE CloseOneListener(t, profile[t], sess[t], todo[t])
    BY <1>5, <2>1 DEF ListenerClosed, CloseOneListener, Suspend
  <2>2. CASE CloseConn(t, profile[t], sess[t], todo[t])
    BY <1>5, <2>2 DEF ListenerClosed, CloseConn, CloseRequested, Suspend
  <2>3. QED BY <1>5, <2>1, <2>2 DEF ListenerClosed, CloseRest
<1>6. ASSUME NEW t \in Tasks, ConnClosed(t) PROVE Ownership'
  BY <1>6, <1>b, <1>c DEF ConnClosed
<1>7. ASSUME NEW t \in Tasks, DialOk(t) PROVE Ownership'
  <2>1. PICK c \in Conns :
          /\ pc[t] = "dial"
          /\ conn[c] = "new"
          /\ conn' = [conn EXCEPT ![c] = "open"]
          /\ owner' = [owner EXCEPT ![c] = profile[t]]
          /\ states' = [states EXCEPT ![profile[t]] = c]
          /\ Finish(t)
    BY <1>7 DEF DialOk, Fresh
  <2>2. QED BY <2>1 DEF Finish, Suspend
<1>8. ASSUME NEW t \in Tasks,
             \/ DialFailed(t) \/ OpenFailed(t) \/ ForwardClosed(t)
             \/ TerminalOpened(t) \/ ForwardOpened(t)
      PROVE  Ownership'
  BY <1>8, <1>c DEF DialFailed, OpenFailed, ForwardClosed, TerminalOpened, ForwardOpened
<1>9. ASSUME NEW p \in Profiles, NEW x \in Terminals, CloseTerminal(p, x) PROVE Ownership'
  BY <1>9 DEF CloseTerminal
<1>10. ASSUME NEW s \in Conns, ConnectionLost(s) \/ ConnectionEnds(s) PROVE Ownership'
  BY <1>10 DEF ConnectionLost, ConnectionEnds, Cleanup
<1>11. ASSUME NEW x \in Terminals, ProcessExits(x) PROVE Ownership'
  BY <1>11 DEF ProcessExits
<1>12. ASSUME NEW l \in Listeners, ClientArrives(l) \/ ClientLeaves(l) PROVE Ownership'
  BY <1>12 DEF ClientArrives, ClientLeaves
<1>13. CASE UNCHANGED vars
  BY <1>13
<1>14. QED
  BY <1>1, <1>2, <1>3, <1>4, <1>5, <1>6, <1>7, <1>8, <1>9, <1>10, <1>11, <1>12, <1>13
     DEF Next, Resume, Call, Environment

\* One step preserves the exclusion of teardowns.
LEMMA TeardownStep ==
  TypeOK /\ Ownership /\ TeardownIsExclusive /\ [Next]_vars => TeardownIsExclusive'
<1> SUFFICES ASSUME TypeOK, Ownership, TeardownIsExclusive, [Next]_vars PROVE TeardownIsExclusive'
  OBVIOUS
<1> USE ConstantsAssumption DEF TypeOK, Ownership, TeardownIsExclusive, Closing, Teardown
<1>a. ASSUME NEW t \in Tasks, NEW p \in Profiles, BeginDisconnect(t, p) PROVE TeardownIsExclusive'
  <2>1. CASE CloseOneListener(t, p, states[p], forwards[states[p]])
    BY <1>a, <2>1 DEF BeginDisconnect, CloseOneListener, Suspend, Popped
  <2>2. CASE CloseConn(t, p, states[p], forwards[states[p]])
    BY <1>a, <2>2 DEF BeginDisconnect, CloseConn, CloseRequested, Suspend, Popped
  <2>3. QED BY <1>a, <2>1, <2>2 DEF BeginDisconnect, CloseRest
<1>1. ASSUME NEW t \in Tasks, NEW p \in Profiles, Connect(t, p) PROVE TeardownIsExclusive'
  <2>1. CASE Dial(t, p)
    BY <1>1, <2>1 DEF Dial, Suspend, Connect
  <2>2. QED BY <1>1, <1>a, <2>1 DEF Connect
<1>2. ASSUME NEW t \in Tasks, NEW p \in Profiles, Disconnect(t, p) PROVE TeardownIsExclusive'
  BY <1>2, <1>a DEF Disconnect
<1>3. ASSUME NEW t \in Tasks, NEW p \in Profiles, OpenTerminal(t, p) \/ OpenForward(t, p)
      PROVE  TeardownIsExclusive'
  BY <1>3 DEF OpenTerminal, OpenForward, Begin, Live, Suspend
<1>4. ASSUME NEW t \in Tasks, NEW p \in Profiles, NEW l \in Listeners, CloseForward(t, p, l)
      PROVE  TeardownIsExclusive'
  BY <1>4 DEF CloseForward, Live, Suspend
<1>5. ASSUME NEW t \in Tasks, ListenerClosed(t) PROVE TeardownIsExclusive'
  <2>1. CASE CloseOneListener(t, profile[t], sess[t], todo[t])
    BY <1>5, <2>1 DEF ListenerClosed, CloseOneListener, Suspend
  <2>2. CASE CloseConn(t, profile[t], sess[t], todo[t])
    BY <1>5, <2>2 DEF ListenerClosed, CloseConn, CloseRequested, Suspend
  <2>3. QED BY <1>5, <2>1, <2>2 DEF ListenerClosed, CloseRest
<1>6. ASSUME NEW t \in Tasks, ConnClosed(t) PROVE TeardownIsExclusive'
  <2>1. CASE Dial(t, profile[t])
    BY <1>6, <2>1 DEF ConnClosed, WaitClosed, Dial, Suspend
  <2>2. CASE Finish(t) /\ UNCHANGED <<sshVars, libVars>>
    BY <1>6, <2>2 DEF ConnClosed, WaitClosed, Finish, Suspend
  <2>3. QED BY <1>6, <2>1, <2>2 DEF ConnClosed
<1>7. ASSUME NEW t \in Tasks, DialOk(t) PROVE TeardownIsExclusive'
  BY <1>7 DEF DialOk, Fresh, Finish, Suspend
<1>8. ASSUME NEW t \in Tasks, DialFailed(t) \/ OpenFailed(t) \/ ForwardClosed(t)
      PROVE  TeardownIsExclusive'
  BY <1>8 DEF DialFailed, OpenFailed, ForwardClosed, Finish, Suspend
<1>9. ASSUME NEW t \in Tasks, TerminalOpened(t) PROVE TeardownIsExclusive'
  BY <1>9 DEF TerminalOpened, Register, Finish, Suspend
<1>10. ASSUME NEW t \in Tasks, ForwardOpened(t) PROVE TeardownIsExclusive'
  BY <1>10 DEF ForwardOpened, Register, Finish, Suspend
<1>11. ASSUME NEW p \in Profiles, NEW x \in Terminals, CloseTerminal(p, x) PROVE TeardownIsExclusive'
  BY <1>11 DEF CloseTerminal, Live
<1>12. ASSUME NEW s \in Conns, ConnectionLost(s) \/ ConnectionEnds(s) PROVE TeardownIsExclusive'
  BY <1>12 DEF ConnectionLost, ConnectionEnds, Cleanup
<1>13. ASSUME NEW x \in Terminals, ProcessExits(x) PROVE TeardownIsExclusive'
  BY <1>13 DEF ProcessExits
<1>14. ASSUME NEW l \in Listeners, ClientArrives(l) \/ ClientLeaves(l) PROVE TeardownIsExclusive'
  BY <1>14 DEF ClientArrives, ClientLeaves
<1>15. CASE UNCHANGED vars
  BY <1>15
<1>16. QED
  BY <1>1, <1>2, <1>3, <1>4, <1>5, <1>6, <1>7, <1>8, <1>9, <1>10, <1>11, <1>12, <1>13,
     <1>14, <1>15 DEF Next, Resume, Call, Environment

\* One step leaves every closing connection awaited.
LEMMA AwaitedStep ==
  TypeOK /\ Ownership /\ ClosingIsAwaited /\ [Next]_vars => ClosingIsAwaited'
<1> SUFFICES ASSUME TypeOK, Ownership, ClosingIsAwaited, [Next]_vars PROVE ClosingIsAwaited'
  OBVIOUS
<1> USE ConstantsAssumption DEF TypeOK, Ownership, ClosingIsAwaited, Closing, Teardown
<1>a. ASSUME NEW t \in Tasks, NEW p \in Profiles, pc[t] = "idle",
             BeginDisconnect(t, p)
      PROVE  ClosingIsAwaited'
  <2>1. CASE CloseOneListener(t, p, states[p], forwards[states[p]])
    BY <1>a, <2>1 DEF BeginDisconnect, CloseOneListener, Suspend, Popped
  <2>2. CASE CloseConn(t, p, states[p], forwards[states[p]])
    BY <1>a, <2>2 DEF BeginDisconnect, CloseConn, CloseRequested, Suspend, Popped
  <2>3. QED BY <1>a, <2>1, <2>2 DEF BeginDisconnect, CloseRest
<1>1. ASSUME NEW t \in Tasks, NEW p \in Profiles, Connect(t, p) PROVE ClosingIsAwaited'
  <2>1. CASE Dial(t, p)
    BY <1>1, <2>1 DEF Dial, Suspend, Connect
  <2>2. QED BY <1>1, <1>a, <2>1 DEF Connect
<1>2. ASSUME NEW t \in Tasks, NEW p \in Profiles, Disconnect(t, p) PROVE ClosingIsAwaited'
  BY <1>2, <1>a DEF Disconnect
<1>3. ASSUME NEW t \in Tasks, NEW p \in Profiles, OpenTerminal(t, p) \/ OpenForward(t, p)
      PROVE  ClosingIsAwaited'
  BY <1>3 DEF OpenTerminal, OpenForward, Begin, Live, Suspend
<1>4. ASSUME NEW t \in Tasks, NEW p \in Profiles, NEW l \in Listeners, CloseForward(t, p, l)
      PROVE  ClosingIsAwaited'
  BY <1>4 DEF CloseForward, Live, Suspend
<1>5. ASSUME NEW t \in Tasks, ListenerClosed(t) PROVE ClosingIsAwaited'
  <2>1. /\ pc' = [pc EXCEPT ![t] = "listener"] \/ pc' = [pc EXCEPT ![t] = "connclose"]
        /\ profile' = [profile EXCEPT ![t] = profile[t]]
        /\ sess' = [sess EXCEPT ![t] = sess[t]]
    BY <1>5 DEF ListenerClosed, CloseRest, CloseOneListener, CloseConn, Suspend
  <2>2. \A u \in Tasks : sess'[u] = sess[u] /\ (pc'[u] \in Teardown <=> pc[u] \in Teardown)
    BY <1>5, <2>1 DEF ListenerClosed
  <2>3. \A c \in Conns : Closing(c)' = Closing(c)
    BY <2>2
  <2>4. t \in Closing(sess[t]) /\ sess[t] \in Conns
    BY <1>5 DEF ListenerClosed
  <2>5. \A c \in Conns : conn'[c] = "closing" => conn[c] = "closing" \/ c = sess[t]
    BY <1>5, <2>4 DEF ListenerClosed, CloseRest, CloseOneListener, CloseConn
  <2> HIDE DEF Closing
  <2>6. QED BY <2>3, <2>4, <2>5
<1>6. ASSUME NEW t \in Tasks, ConnClosed(t) PROVE ClosingIsAwaited'
  <2>1. CASE Dial(t, profile[t])
    BY <1>6, <2>1 DEF ConnClosed, WaitClosed, Dial, Suspend
  <2>2. CASE Finish(t) /\ UNCHANGED <<sshVars, libVars>>
    BY <1>6, <2>2 DEF ConnClosed, WaitClosed, Finish, Suspend
  <2>3. QED BY <1>6, <2>1, <2>2 DEF ConnClosed
<1>7. ASSUME NEW t \in Tasks, DialOk(t) PROVE ClosingIsAwaited'
  BY <1>7 DEF DialOk, Fresh, Finish, Suspend
<1>8. ASSUME NEW t \in Tasks, DialFailed(t) \/ OpenFailed(t) \/ ForwardClosed(t)
      PROVE  ClosingIsAwaited'
  BY <1>8 DEF DialFailed, OpenFailed, ForwardClosed, Finish, Suspend
<1>9. ASSUME NEW t \in Tasks, TerminalOpened(t) PROVE ClosingIsAwaited'
  BY <1>9 DEF TerminalOpened, Register, Finish, Suspend
<1>10. ASSUME NEW t \in Tasks, ForwardOpened(t) PROVE ClosingIsAwaited'
  BY <1>10 DEF ForwardOpened, Register, Finish, Suspend
<1>11. ASSUME NEW p \in Profiles, NEW x \in Terminals, CloseTerminal(p, x) PROVE ClosingIsAwaited'
  BY <1>11 DEF CloseTerminal, Live
<1>12. ASSUME NEW s \in Conns, ConnectionLost(s) \/ ConnectionEnds(s) PROVE ClosingIsAwaited'
  BY <1>12 DEF ConnectionLost, ConnectionEnds, Cleanup
<1>13. ASSUME NEW x \in Terminals, ProcessExits(x) PROVE ClosingIsAwaited'
  BY <1>13 DEF ProcessExits
<1>14. ASSUME NEW l \in Listeners, ClientArrives(l) \/ ClientLeaves(l) PROVE ClosingIsAwaited'
  BY <1>14 DEF ClientArrives, ClientLeaves
<1>15. CASE UNCHANGED vars
  BY <1>15
<1>16. QED
  BY <1>1, <1>2, <1>3, <1>4, <1>5, <1>6, <1>7, <1>8, <1>9, <1>10, <1>11, <1>12, <1>13,
     <1>14, <1>15 DEF Next, Resume, Call, Environment

\* One step keeps what was made on a connection tied to its fate.
LEMMA HandlesStep ==
  TypeOK /\ Ownership /\ HandlesFollowTheirConnection /\ [Next]_vars => HandlesFollowTheirConnection'
<1> SUFFICES ASSUME TypeOK, Ownership, HandlesFollowTheirConnection, [Next]_vars PROVE HandlesFollowTheirConnection'
  OBVIOUS
<1> USE ConstantsAssumption DEF TypeOK, Ownership, HandlesFollowTheirConnection
<1>a. ASSUME NEW t \in Tasks, NEW p \in Profiles, BeginDisconnect(t, p) PROVE HandlesFollowTheirConnection'
  <2>1. CASE CloseOneListener(t, p, states[p], forwards[states[p]])
    BY <1>a, <2>1 DEF BeginDisconnect, CloseOneListener, Suspend, Popped
  <2>2. CASE CloseConn(t, p, states[p], forwards[states[p]])
    BY <1>a, <2>2 DEF BeginDisconnect, CloseConn, CloseRequested, Suspend, Popped
  <2>3. QED BY <1>a, <2>1, <2>2 DEF BeginDisconnect, CloseRest
<1>1. ASSUME NEW t \in Tasks, NEW p \in Profiles, Connect(t, p) PROVE HandlesFollowTheirConnection'
  <2>1. CASE Dial(t, p)
    BY <1>1, <2>1 DEF Dial, Suspend, Connect
  <2>2. QED BY <1>1, <1>a, <2>1 DEF Connect
<1>2. ASSUME NEW t \in Tasks, NEW p \in Profiles, Disconnect(t, p) PROVE HandlesFollowTheirConnection'
  BY <1>2, <1>a DEF Disconnect
<1>3. ASSUME NEW t \in Tasks, NEW p \in Profiles, OpenTerminal(t, p) \/ OpenForward(t, p)
      PROVE  HandlesFollowTheirConnection'
  BY <1>3 DEF OpenTerminal, OpenForward, Begin, Live, Suspend
<1>4. ASSUME NEW t \in Tasks, NEW p \in Profiles, NEW l \in Listeners, CloseForward(t, p, l)
      PROVE  HandlesFollowTheirConnection'
  BY <1>4 DEF CloseForward, Live, Suspend
<1>5. ASSUME NEW t \in Tasks, ListenerClosed(t) PROVE HandlesFollowTheirConnection'
  <2>1. CASE CloseOneListener(t, profile[t], sess[t], todo[t])
    BY <1>5, <2>1 DEF ListenerClosed, CloseOneListener, Suspend
  <2>2. CASE CloseConn(t, profile[t], sess[t], todo[t])
    BY <1>5, <2>2 DEF ListenerClosed, CloseConn, CloseRequested, Suspend
  <2>3. QED BY <1>5, <2>1, <2>2 DEF ListenerClosed, CloseRest
<1>6. ASSUME NEW t \in Tasks, ConnClosed(t) PROVE HandlesFollowTheirConnection'
  <2>1. CASE Dial(t, profile[t])
    BY <1>6, <2>1 DEF ConnClosed, WaitClosed, Dial, Suspend
  <2>2. CASE Finish(t) /\ UNCHANGED <<sshVars, libVars>>
    BY <1>6, <2>2 DEF ConnClosed, WaitClosed, Finish, Suspend
  <2>3. QED BY <1>6, <2>1, <2>2 DEF ConnClosed
<1>7. ASSUME NEW t \in Tasks, DialOk(t) PROVE HandlesFollowTheirConnection'
  BY <1>7 DEF DialOk, Fresh, Finish, Suspend
<1>8. ASSUME NEW t \in Tasks, DialFailed(t) \/ OpenFailed(t) \/ ForwardClosed(t)
      PROVE  HandlesFollowTheirConnection'
  BY <1>8 DEF DialFailed, OpenFailed, ForwardClosed, Finish, Suspend
<1>9. ASSUME NEW t \in Tasks, TerminalOpened(t) PROVE HandlesFollowTheirConnection'
  BY <1>9 DEF TerminalOpened, Register, Finish, Suspend
<1>10. ASSUME NEW t \in Tasks, ForwardOpened(t) PROVE HandlesFollowTheirConnection'
  BY <1>10 DEF ForwardOpened, Register, Finish, Suspend
<1>11. ASSUME NEW p \in Profiles, NEW x \in Terminals, CloseTerminal(p, x) PROVE HandlesFollowTheirConnection'
  BY <1>11 DEF CloseTerminal, Live
<1>12. ASSUME NEW s \in Conns, ConnectionLost(s) \/ ConnectionEnds(s)
       PROVE  HandlesFollowTheirConnection'
  <2>1. Cleanup(s)
    BY <1>12 DEF ConnectionLost, ConnectionEnds
  <2>2. /\ conn' = [conn EXCEPT ![s] = "closed"]
        /\ UNCHANGED <<states, owner, terminals, forwards, via, taskVars>>
    BY <2>1 DEF Cleanup
  <2>3. \A x \in Terminals :
          process'[x] = IF via[x] = s /\ process[x] # "free" THEN "ended" ELSE process[x]
    BY <2>1 DEF Cleanup
  <2>4. \A l \in Listeners :
          listener'[l] = IF via[l] = s /\ listener[l] = "open" THEN "closed" ELSE listener[l]
    BY <2>1 DEF Cleanup
  <2>5. conn[s] # "new"
    BY <1>12 DEF ConnectionLost, ConnectionEnds
  <2>6. \A x \in Terminals : process'[x] # "free" =>
          /\ via[x] \in Conns
          /\ conn'[via[x]] # "new"
          /\ conn'[via[x]] = "closed" => process'[x] = "ended"
    BY <2>2, <2>3, <2>5
  <2>7. \A l \in Listeners : listener'[l] # "free" =>
          /\ via[l] \in Conns
          /\ conn'[via[l]] # "new"
          /\ conn'[via[l]] = "closed" /\ ~LateListener => listener'[l] = "closed"
    BY <2>2, <2>4, <2>5 DEF ListenerStatus
  <2>8. \A l \in Listeners : listener[l] # "free" => listener'[l] # "free"
    BY <2>4
  <2>9. QED BY <2>2, <2>6, <2>7, <2>8
<1>13. ASSUME NEW x \in Terminals, ProcessExits(x) PROVE HandlesFollowTheirConnection'
  BY <1>13 DEF ProcessExits
<1>14. ASSUME NEW l \in Listeners, ClientArrives(l) \/ ClientLeaves(l) PROVE HandlesFollowTheirConnection'
  BY <1>14 DEF ClientArrives, ClientLeaves
<1>15. CASE UNCHANGED vars
  BY <1>15
<1>16. QED
  BY <1>1, <1>2, <1>3, <1>4, <1>5, <1>6, <1>7, <1>8, <1>9, <1>10, <1>11, <1>12, <1>13,
     <1>14, <1>15 DEF Next, Resume, Call, Environment

\* One step loses no open listener of an open connection.
LEMMA ListenersStep ==
  TypeOK /\ Ownership /\ HandlesFollowTheirConnection /\ OpenListenersAreReachable /\ [Next]_vars => OpenListenersAreReachable'
<1> SUFFICES ASSUME TypeOK, Ownership, HandlesFollowTheirConnection, OpenListenersAreReachable, [Next]_vars PROVE OpenListenersAreReachable'
  OBVIOUS
<1> USE ConstantsAssumption DEF TypeOK, Ownership, HandlesFollowTheirConnection,
       OpenListenersAreReachable, Closing, Teardown
<1>a. ASSUME NEW t \in Tasks, NEW p \in Profiles, pc[t] = "idle",
             BeginDisconnect(t, p)
      PROVE  OpenListenersAreReachable'
  <2>1. CASE CloseOneListener(t, p, states[p], forwards[states[p]])
    BY <1>a, <2>1 DEF BeginDisconnect, CloseOneListener, Suspend, Popped
  <2>2. CASE CloseConn(t, p, states[p], forwards[states[p]])
    BY <1>a, <2>2 DEF BeginDisconnect, CloseConn, CloseRequested, Suspend, Popped
  <2>3. QED BY <1>a, <2>1, <2>2 DEF BeginDisconnect, CloseRest
<1>1. ASSUME NEW t \in Tasks, NEW p \in Profiles, Connect(t, p) PROVE OpenListenersAreReachable'
  <2>1. CASE Dial(t, p)
    BY <1>1, <2>1 DEF Dial, Suspend, Connect
  <2>2. QED BY <1>1, <1>a, <2>1 DEF Connect
<1>2. ASSUME NEW t \in Tasks, NEW p \in Profiles, Disconnect(t, p) PROVE OpenListenersAreReachable'
  BY <1>2, <1>a DEF Disconnect
<1>3. ASSUME NEW t \in Tasks, NEW p \in Profiles, OpenTerminal(t, p) \/ OpenForward(t, p)
      PROVE  OpenListenersAreReachable'
  BY <1>3 DEF OpenTerminal, OpenForward, Begin, Live, Suspend
<1>4. ASSUME NEW t \in Tasks, NEW p \in Profiles, NEW l \in Listeners, CloseForward(t, p, l)
      PROVE  OpenListenersAreReachable'
  BY <1>4 DEF CloseForward, Live, Suspend
<1>5. ASSUME NEW t \in Tasks, ListenerClosed(t) PROVE OpenListenersAreReachable'
  <2>1. /\ pc' = [pc EXCEPT ![t] = "listener"] \/ pc' = [pc EXCEPT ![t] = "connclose"]
        /\ profile' = [profile EXCEPT ![t] = profile[t]]
        /\ sess' = [sess EXCEPT ![t] = sess[t]]
    BY <1>5 DEF ListenerClosed, CloseRest, CloseOneListener, CloseConn, Suspend
  <2>2. \A u \in Tasks : sess'[u] = sess[u] /\ (pc'[u] \in Teardown <=> pc[u] \in Teardown)
    BY <1>5, <2>1 DEF ListenerClosed
  <2>3. \A c \in Conns : Closing(c)' = Closing(c)
    BY <2>2
  <2>4. t \in Closing(sess[t]) /\ sess[t] \in Conns
    BY <1>5 DEF ListenerClosed
  <2>5. ASSUME NEW l \in Listeners, listener'[l] = "open", conn'[via'[l]] = "open"
        PROVE  /\ listener[l] = "open" /\ conn[via[l]] = "open"
               /\ via'[l] = via[l] /\ via[l] \in Conns
               /\ forwards'[via[l]] = forwards[via[l]]
    <3>1. CASE CloseOneListener(t, profile[t], sess[t], todo[t])
      BY <1>5, <2>4, <2>5, <3>1 DEF ListenerClosed, CloseOneListener
    <3>2. CASE CloseConn(t, profile[t], sess[t], todo[t])
      BY <1>5, <2>4, <2>5, <3>2 DEF ListenerClosed, CloseConn, CloseRequested
    <3>3. QED BY <1>5, <3>1, <3>2 DEF ListenerClosed, CloseRest
  <2> HIDE DEF Closing
  <2>6. QED BY <2>3, <2>4, <2>5
<1>6. ASSUME NEW t \in Tasks, ConnClosed(t) PROVE OpenListenersAreReachable'
  <2>1. CASE Dial(t, profile[t])
    BY <1>6, <2>1 DEF ConnClosed, WaitClosed, Dial, Suspend
  <2>2. CASE Finish(t) /\ UNCHANGED <<sshVars, libVars>>
    BY <1>6, <2>2 DEF ConnClosed, WaitClosed, Finish, Suspend
  <2>3. QED BY <1>6, <2>1, <2>2 DEF ConnClosed
<1>7. ASSUME NEW t \in Tasks, DialOk(t) PROVE OpenListenersAreReachable'
  BY <1>7 DEF DialOk, Fresh, Finish, Suspend
<1>8. ASSUME NEW t \in Tasks, DialFailed(t) \/ OpenFailed(t) \/ ForwardClosed(t)
      PROVE  OpenListenersAreReachable'
  BY <1>8 DEF DialFailed, OpenFailed, ForwardClosed, Finish, Suspend
<1>9. ASSUME NEW t \in Tasks, TerminalOpened(t) PROVE OpenListenersAreReachable'
  BY <1>9 DEF TerminalOpened, Register, Finish, Suspend
<1>10. ASSUME NEW t \in Tasks, ForwardOpened(t) PROVE OpenListenersAreReachable'
  <2>1. PICK l \in Listeners :
          /\ pc[t] = "forward"
          /\ listener' = [listener EXCEPT ![l] = "open"]
          /\ via' = [via EXCEPT ![l] = sess[t]]
          /\ forwards' = [forwards EXCEPT ![sess[t]] = @ \cup {l}]
          /\ Finish(t)
          /\ UNCHANGED <<states, conn, owner, terminals, process, busy>>
    BY <1>10 DEF ForwardOpened, Register
  <2>2. \A c \in Conns : Closing(c)' = Closing(c)
    BY <2>1 DEF Finish, Suspend
  <2>3. \A c \in Conns : forwards[c] \subseteq forwards'[c]
    BY <2>1
  <2>4. l \in forwards'[via'[l]]
    BY <2>1
  <2>5. ASSUME NEW k \in Listeners, k # l, listener'[k] = "open", conn'[via'[k]] = "open"
        PROVE  (k \in forwards[via[k]] \/ Closing(via[k]) # {})'
    <3>1. listener[k] = "open" /\ via'[k] = via[k] /\ via[k] \in Conns /\ conn[via[k]] = "open"
      BY <2>1, <2>5
    <3>2. k \in forwards[via[k]] \/ Closing(via[k]) # {}
      BY <3>1
    <3>3. QED BY <2>2, <2>3, <3>1, <3>2
  <2>6. QED BY <2>4, <2>5
<1>11. ASSUME NEW p \in Profiles, NEW x \in Terminals, CloseTerminal(p, x) PROVE OpenListenersAreReachable'
  BY <1>11 DEF CloseTerminal, Live
<1>12. ASSUME NEW s \in Conns, ConnectionLost(s) \/ ConnectionEnds(s)
       PROVE  OpenListenersAreReachable'
  <2>1. Cleanup(s)
    BY <1>12 DEF ConnectionLost, ConnectionEnds
  <2>2. /\ conn' = [conn EXCEPT ![s] = "closed"]
        /\ UNCHANGED <<states, owner, terminals, forwards, via, taskVars>>
    BY <2>1 DEF Cleanup
  <2>3. \A x \in Terminals :
          process'[x] = IF via[x] = s /\ process[x] # "free" THEN "ended" ELSE process[x]
    BY <2>1 DEF Cleanup
  <2>4. \A l \in Listeners :
          listener'[l] = IF via[l] = s /\ listener[l] = "open" THEN "closed" ELSE listener[l]
    BY <2>1 DEF Cleanup
  <2>5. ASSUME NEW l \in Listeners, listener'[l] = "open", conn'[via'[l]] = "open"
        PROVE  (l \in forwards[via[l]] \/ Closing(via[l]) # {})'
    <3>1. listener[l] = "open" /\ conn[via[l]] = "open" /\ via[l] \in Conns
      BY <2>2, <2>4, <2>5
    <3>2. l \in forwards[via[l]] \/ Closing(via[l]) # {}
      BY <3>1
    <3>3. \A c \in Conns : Closing(c)' = Closing(c)
      BY <2>2
    <3>4. QED BY <2>2, <3>1, <3>2, <3>3
  <2>6. QED BY <2>5
<1>13. ASSUME NEW x \in Terminals, ProcessExits(x) PROVE OpenListenersAreReachable'
  BY <1>13 DEF ProcessExits
<1>14. ASSUME NEW l \in Listeners, ClientArrives(l) \/ ClientLeaves(l) PROVE OpenListenersAreReachable'
  BY <1>14 DEF ClientArrives, ClientLeaves
<1>15. CASE UNCHANGED vars
  BY <1>15
<1>16. QED
  BY <1>1, <1>2, <1>3, <1>4, <1>5, <1>6, <1>7, <1>8, <1>9, <1>10, <1>11, <1>12, <1>13,
     <1>14, <1>15 DEF Next, Resume, Call, Environment

\* One step loses no running shell.
LEMMA ShellsStep ==
  TypeOK /\ Ownership /\ HandlesFollowTheirConnection /\ RunningShellsAreReachable /\ [Next]_vars => RunningShellsAreReachable'
<1> SUFFICES ASSUME TypeOK, Ownership, HandlesFollowTheirConnection, RunningShellsAreReachable, [Next]_vars PROVE RunningShellsAreReachable'
  OBVIOUS
<1> USE ConstantsAssumption DEF TypeOK, Ownership, HandlesFollowTheirConnection,
       RunningShellsAreReachable
<1>a. ASSUME NEW t \in Tasks, NEW p \in Profiles, BeginDisconnect(t, p) PROVE RunningShellsAreReachable'
  <2>1. CASE CloseOneListener(t, p, states[p], forwards[states[p]])
    BY <1>a, <2>1 DEF BeginDisconnect, CloseOneListener, Suspend, Popped
  <2>2. CASE CloseConn(t, p, states[p], forwards[states[p]])
    BY <1>a, <2>2 DEF BeginDisconnect, CloseConn, CloseRequested, Suspend, Popped
  <2>3. QED BY <1>a, <2>1, <2>2 DEF BeginDisconnect, CloseRest
<1>1. ASSUME NEW t \in Tasks, NEW p \in Profiles, Connect(t, p) PROVE RunningShellsAreReachable'
  <2>1. CASE Dial(t, p)
    BY <1>1, <2>1 DEF Dial, Suspend, Connect
  <2>2. QED BY <1>1, <1>a, <2>1 DEF Connect
<1>2. ASSUME NEW t \in Tasks, NEW p \in Profiles, Disconnect(t, p) PROVE RunningShellsAreReachable'
  BY <1>2, <1>a DEF Disconnect
<1>3. ASSUME NEW t \in Tasks, NEW p \in Profiles, OpenTerminal(t, p) \/ OpenForward(t, p)
      PROVE  RunningShellsAreReachable'
  BY <1>3 DEF OpenTerminal, OpenForward, Begin, Live, Suspend
<1>4. ASSUME NEW t \in Tasks, NEW p \in Profiles, NEW l \in Listeners, CloseForward(t, p, l)
      PROVE  RunningShellsAreReachable'
  BY <1>4 DEF CloseForward, Live, Suspend
<1>5. ASSUME NEW t \in Tasks, ListenerClosed(t) PROVE RunningShellsAreReachable'
  <2>1. CASE CloseOneListener(t, profile[t], sess[t], todo[t])
    BY <1>5, <2>1 DEF ListenerClosed, CloseOneListener, Suspend
  <2>2. CASE CloseConn(t, profile[t], sess[t], todo[t])
    BY <1>5, <2>2 DEF ListenerClosed, CloseConn, CloseRequested, Suspend
  <2>3. QED BY <1>5, <2>1, <2>2 DEF ListenerClosed, CloseRest
<1>6. ASSUME NEW t \in Tasks, ConnClosed(t) PROVE RunningShellsAreReachable'
  <2>1. CASE Dial(t, profile[t])
    BY <1>6, <2>1 DEF ConnClosed, WaitClosed, Dial, Suspend
  <2>2. CASE Finish(t) /\ UNCHANGED <<sshVars, libVars>>
    BY <1>6, <2>2 DEF ConnClosed, WaitClosed, Finish, Suspend
  <2>3. QED BY <1>6, <2>1, <2>2 DEF ConnClosed
<1>7. ASSUME NEW t \in Tasks, DialOk(t) PROVE RunningShellsAreReachable'
  BY <1>7 DEF DialOk, Fresh, Finish, Suspend
<1>8. ASSUME NEW t \in Tasks, DialFailed(t) \/ OpenFailed(t) \/ ForwardClosed(t)
      PROVE  RunningShellsAreReachable'
  BY <1>8 DEF DialFailed, OpenFailed, ForwardClosed, Finish, Suspend
<1>9. ASSUME NEW t \in Tasks, TerminalOpened(t) PROVE RunningShellsAreReachable'
  BY <1>9 DEF TerminalOpened, Register, Finish, Suspend
<1>10. ASSUME NEW t \in Tasks, ForwardOpened(t) PROVE RunningShellsAreReachable'
  BY <1>10 DEF ForwardOpened, Register, Finish, Suspend
<1>11. ASSUME NEW p \in Profiles, NEW x \in Terminals, CloseTerminal(p, x) PROVE RunningShellsAreReachable'
  BY <1>11 DEF CloseTerminal, Live
<1>12. ASSUME NEW s \in Conns, ConnectionLost(s) \/ ConnectionEnds(s) PROVE RunningShellsAreReachable'
  BY <1>12 DEF ConnectionLost, ConnectionEnds, Cleanup
<1>13. ASSUME NEW x \in Terminals, ProcessExits(x) PROVE RunningShellsAreReachable'
  BY <1>13 DEF ProcessExits
<1>14. ASSUME NEW l \in Listeners, ClientArrives(l) \/ ClientLeaves(l) PROVE RunningShellsAreReachable'
  BY <1>14 DEF ClientArrives, ClientLeaves
<1>15. CASE UNCHANGED vars
  BY <1>15
<1>16. QED
  BY <1>1, <1>2, <1>3, <1>4, <1>5, <1>6, <1>7, <1>8, <1>9, <1>10, <1>11, <1>12, <1>13,
     <1>14, <1>15 DEF Next, Resume, Call, Environment

\* One step keeps a _connect alone when callers do not overlap them.
LEMMA AloneStep ==
  TypeOK /\ Ownership /\ ExclusiveConnect /\ ConnectIsAlone /\ [Next]_vars => ConnectIsAlone'
<1> SUFFICES ASSUME TypeOK, Ownership, ExclusiveConnect, ConnectIsAlone, [Next]_vars PROVE ConnectIsAlone'
  OBVIOUS
<1> USE ConstantsAssumption DEF TypeOK, Ownership, ConnectIsAlone, Connecting, Connects, Teardown
<1>a. ASSUME NEW t \in Tasks, NEW p \in Profiles, BeginDisconnect(t, p), pc[t] = "idle",
             \/ UNCHANGED reconnect
             \/ reconnect' = [reconnect EXCEPT ![t] = TRUE] /\ Connecting(p) = {}
      PROVE  ConnectIsAlone'
  <2>1. /\ pc' = [pc EXCEPT ![t] = "listener"] \/ pc' = [pc EXCEPT ![t] = "connclose"]
        /\ profile' = [profile EXCEPT ![t] = p]
        /\ states' = [states EXCEPT ![p] = None]
    BY <1>a DEF BeginDisconnect, CloseRest, CloseOneListener, CloseConn, Suspend, Popped
  <2>2. ~Connects(t)
    BY <1>a
  <2>3. QED BY <1>a, <2>1, <2>2
<1>1. ASSUME NEW t \in Tasks, NEW p \in Profiles, Connect(t, p) PROVE ConnectIsAlone'
  <2>1. pc[t] = "idle" /\ Connecting(p) = {}
    BY <1>1 DEF Connect
  <2>2. CASE BeginDisconnect(t, p) /\ reconnect' = [reconnect EXCEPT ![t] = TRUE]
    BY <1>a, <2>1, <2>2
  <2>3. CASE states[p] = None /\ Dial(t, p)
    BY <2>1, <2>3 DEF Dial, Suspend
  <2>4. QED BY <1>1, <2>2, <2>3 DEF Connect, DisconnectFirst
<1>2. ASSUME NEW t \in Tasks, NEW p \in Profiles, Disconnect(t, p) PROVE ConnectIsAlone'
  BY <1>2, <1>a DEF Disconnect
<1>3. ASSUME NEW t \in Tasks, NEW p \in Profiles, OpenTerminal(t, p) \/ OpenForward(t, p)
      PROVE  ConnectIsAlone'
  BY <1>3 DEF OpenTerminal, OpenForward, Begin, Live, Suspend
<1>4. ASSUME NEW t \in Tasks, NEW p \in Profiles, NEW l \in Listeners, CloseForward(t, p, l)
      PROVE  ConnectIsAlone'
  BY <1>4 DEF CloseForward, Live, Suspend
<1>5. ASSUME NEW t \in Tasks, ListenerClosed(t) PROVE ConnectIsAlone'
  <2>1. CASE CloseOneListener(t, profile[t], sess[t], todo[t])
    BY <1>5, <2>1 DEF ListenerClosed, CloseOneListener, Suspend
  <2>2. CASE CloseConn(t, profile[t], sess[t], todo[t])
    BY <1>5, <2>2 DEF ListenerClosed, CloseConn, CloseRequested, Suspend
  <2>3. QED BY <1>5, <2>1, <2>2 DEF ListenerClosed, CloseRest
<1>6. ASSUME NEW t \in Tasks, ConnClosed(t) PROVE ConnectIsAlone'
  <2>1. CASE reconnect[t] /\ Dial(t, profile[t])
    BY <1>6, <2>1 DEF ConnClosed, Dial, Suspend
  <2>2. CASE Finish(t) /\ UNCHANGED <<sshVars, libVars>>
    BY <1>6, <2>2 DEF ConnClosed, Finish, Suspend
  <2>3. QED BY <1>6, <2>1, <2>2 DEF ConnClosed
<1>7. ASSUME NEW t \in Tasks, DialOk(t) PROVE ConnectIsAlone'
  BY <1>7 DEF DialOk, Fresh, Finish, Suspend
<1>8. ASSUME NEW t \in Tasks, DialFailed(t) \/ OpenFailed(t) \/ ForwardClosed(t)
      PROVE  ConnectIsAlone'
  BY <1>8 DEF DialFailed, OpenFailed, ForwardClosed, Finish, Suspend
<1>9. ASSUME NEW t \in Tasks, TerminalOpened(t) PROVE ConnectIsAlone'
  BY <1>9 DEF TerminalOpened, Register, Finish, Suspend
<1>10. ASSUME NEW t \in Tasks, ForwardOpened(t) PROVE ConnectIsAlone'
  BY <1>10 DEF ForwardOpened, Register, Finish, Suspend
<1>11. ASSUME NEW p \in Profiles, NEW x \in Terminals, CloseTerminal(p, x) PROVE ConnectIsAlone'
  BY <1>11 DEF CloseTerminal, Live
<1>12. ASSUME NEW s \in Conns, ConnectionLost(s) \/ ConnectionEnds(s) PROVE ConnectIsAlone'
  BY <1>12 DEF ConnectionLost, ConnectionEnds, Cleanup
<1>13. ASSUME NEW x \in Terminals, ProcessExits(x) PROVE ConnectIsAlone'
  BY <1>13 DEF ProcessExits
<1>14. ASSUME NEW l \in Listeners, ClientArrives(l) \/ ClientLeaves(l) PROVE ConnectIsAlone'
  BY <1>14 DEF ClientArrives, ClientLeaves
<1>15. CASE UNCHANGED vars
  BY <1>15
<1>16. QED
  BY <1>1, <1>2, <1>3, <1>4, <1>5, <1>6, <1>7, <1>8, <1>9, <1>10, <1>11, <1>12, <1>13,
     <1>14, <1>15 DEF Next, Resume, Call, Environment

\* One step orphans no connection while every _connect is alone.
LEMMA OrphanStep ==
  TypeOK /\ Ownership /\ ConnectIsAlone /\ NoOrphanConnection /\ [Next]_vars => NoOrphanConnection'
<1> SUFFICES ASSUME TypeOK, Ownership, ConnectIsAlone, NoOrphanConnection, [Next]_vars PROVE NoOrphanConnection'
  OBVIOUS
<1> USE ConstantsAssumption DEF TypeOK, Ownership, ConnectIsAlone, Connects,
       NoOrphanConnection, Closing, Teardown
<1>a. ASSUME NEW t \in Tasks, NEW p \in Profiles, pc[t] = "idle",
             BeginDisconnect(t, p)
      PROVE  NoOrphanConnection'
  <2>1. CASE CloseOneListener(t, p, states[p], forwards[states[p]])
    BY <1>a, <2>1 DEF BeginDisconnect, CloseOneListener, Suspend, Popped
  <2>2. CASE CloseConn(t, p, states[p], forwards[states[p]])
    BY <1>a, <2>2 DEF BeginDisconnect, CloseConn, CloseRequested, Suspend, Popped
  <2>3. QED BY <1>a, <2>1, <2>2 DEF BeginDisconnect, CloseRest
<1>1. ASSUME NEW t \in Tasks, NEW p \in Profiles, Connect(t, p) PROVE NoOrphanConnection'
  <2>1. CASE Dial(t, p)
    BY <1>1, <2>1 DEF Dial, Suspend, Connect
  <2>2. QED BY <1>1, <1>a, <2>1 DEF Connect
<1>2. ASSUME NEW t \in Tasks, NEW p \in Profiles, Disconnect(t, p) PROVE NoOrphanConnection'
  BY <1>2, <1>a DEF Disconnect
<1>3. ASSUME NEW t \in Tasks, NEW p \in Profiles, OpenTerminal(t, p) \/ OpenForward(t, p)
      PROVE  NoOrphanConnection'
  BY <1>3 DEF OpenTerminal, OpenForward, Begin, Live, Suspend
<1>4. ASSUME NEW t \in Tasks, NEW p \in Profiles, NEW l \in Listeners, CloseForward(t, p, l)
      PROVE  NoOrphanConnection'
  BY <1>4 DEF CloseForward, Live, Suspend
<1>5. ASSUME NEW t \in Tasks, ListenerClosed(t) PROVE NoOrphanConnection'
  <2>1. /\ pc' = [pc EXCEPT ![t] = "listener"] \/ pc' = [pc EXCEPT ![t] = "connclose"]
        /\ profile' = [profile EXCEPT ![t] = profile[t]]
        /\ sess' = [sess EXCEPT ![t] = sess[t]]
    BY <1>5 DEF ListenerClosed, CloseRest, CloseOneListener, CloseConn, Suspend
  <2>2. \A u \in Tasks : sess'[u] = sess[u] /\ (pc'[u] \in Teardown <=> pc[u] \in Teardown)
    BY <1>5, <2>1 DEF ListenerClosed
  <2>3. \A c \in Conns : Closing(c)' = Closing(c)
    BY <2>2
  <2>4. t \in Closing(sess[t]) /\ sess[t] \in Conns
    BY <1>5 DEF ListenerClosed
  <2>5. \A c \in Conns : conn'[c] = "open" => conn[c] = "open"
    BY <1>5, <2>4 DEF ListenerClosed, CloseRest, CloseOneListener, CloseConn, CloseRequested
  <2>6. UNCHANGED <<states, owner>>
    BY <1>5 DEF ListenerClosed
  <2> HIDE DEF Closing
  <2>7. QED BY <2>3, <2>4, <2>5, <2>6
<1>6. ASSUME NEW t \in Tasks, ConnClosed(t) PROVE NoOrphanConnection'
  <2>1. CASE Dial(t, profile[t])
    BY <1>6, <2>1 DEF ConnClosed, WaitClosed, Dial, Suspend
  <2>2. CASE Finish(t) /\ UNCHANGED <<sshVars, libVars>>
    BY <1>6, <2>2 DEF ConnClosed, WaitClosed, Finish, Suspend
  <2>3. QED BY <1>6, <2>1, <2>2 DEF ConnClosed
<1>7. ASSUME NEW t \in Tasks, DialOk(t) PROVE NoOrphanConnection'
  BY <1>7 DEF DialOk, Fresh, Finish, Suspend
<1>8. ASSUME NEW t \in Tasks, DialFailed(t) \/ OpenFailed(t) \/ ForwardClosed(t)
      PROVE  NoOrphanConnection'
  BY <1>8 DEF DialFailed, OpenFailed, ForwardClosed, Finish, Suspend
<1>9. ASSUME NEW t \in Tasks, TerminalOpened(t) PROVE NoOrphanConnection'
  BY <1>9 DEF TerminalOpened, Register, Finish, Suspend
<1>10. ASSUME NEW t \in Tasks, ForwardOpened(t) PROVE NoOrphanConnection'
  BY <1>10 DEF ForwardOpened, Register, Finish, Suspend
<1>11. ASSUME NEW p \in Profiles, NEW x \in Terminals, CloseTerminal(p, x) PROVE NoOrphanConnection'
  BY <1>11 DEF CloseTerminal, Live
<1>12. ASSUME NEW s \in Conns, ConnectionLost(s) \/ ConnectionEnds(s) PROVE NoOrphanConnection'
  BY <1>12 DEF ConnectionLost, ConnectionEnds, Cleanup
<1>13. ASSUME NEW x \in Terminals, ProcessExits(x) PROVE NoOrphanConnection'
  BY <1>13 DEF ProcessExits
<1>14. ASSUME NEW l \in Listeners, ClientArrives(l) \/ ClientLeaves(l) PROVE NoOrphanConnection'
  BY <1>14 DEF ClientArrives, ClientLeaves
<1>15. CASE UNCHANGED vars
  BY <1>15
<1>16. QED
  BY <1>1, <1>2, <1>3, <1>4, <1>5, <1>6, <1>7, <1>8, <1>9, <1>10, <1>11, <1>12, <1>13,
     <1>14, <1>15 DEF Next, Resume, Call, Environment

-----------------------------------------------------------------------------
(* The theorems.                                                           *)

\* The invariant that holds whatever calls overlap.
OverlapInv ==
  /\ TypeOK
  /\ Ownership
  /\ TeardownIsExclusive
  /\ ClosingIsAwaited
  /\ HandlesFollowTheirConnection
  /\ OpenListenersAreReachable
  /\ RunningShellsAreReachable

\* What holds of every interleaving of calls, timeouts of callers included.
THEOREM OverlapSafety == Spec => []OverlapInv
<1>1. Init => OverlapInv
  BY ConstantsAssumption DEF Init, OverlapInv, TypeOK, Ownership, TeardownIsExclusive,
     ClosingIsAwaited, HandlesFollowTheirConnection, OpenListenersAreReachable,
     RunningShellsAreReachable, Closing, Teardown, ConnStatus, ProcessStatus,
     ListenerStatus, Await
<1>2. OverlapInv /\ [Next]_vars => OverlapInv'
  BY TypeStep, OwnershipStep, TeardownStep, AwaitedStep, HandlesStep, ListenersStep,
     ShellsStep DEF OverlapInv
<1>3. QED BY <1>1, <1>2, PTL DEF Spec

\* Two coroutines never tear one session down, and nobody is handed a session
\* that is being torn down: _disconnect pops before its first await.
THEOREM TeardownExclusion == Spec => []TeardownIsExclusive
<1>1. OverlapInv => TeardownIsExclusive
  BY DEF OverlapInv
<1>2. QED BY <1>1, OverlapSafety, PTL

\* As long as the connection lives, every open listener is in the table of its
\* session or the session is being torn down.
THEOREM ListenersReachable == Spec => []OpenListenersAreReachable
<1>1. OverlapInv => OpenListenersAreReachable
  BY DEF OverlapInv
<1>2. QED BY <1>1, OverlapSafety, PTL

\* Every shell that nobody asked to stop is in the table of its session.
THEOREM ShellsReachable == Spec => []RunningShellsAreReachable
<1>1. OverlapInv => RunningShellsAreReachable
  BY DEF OverlapInv
<1>2. QED BY <1>1, OverlapSafety, PTL

\* A session that left _states never comes back to it.
THEOREM NoReturn == Spec => SessionsNeverReturn
<1> DEFINE Stays == \A c \in Conns :
             conn[c] # "new" /\ (\A p \in Profiles : states[p] # c)
               => \A p \in Profiles : states'[p] # c
<1>1. TypeOK /\ [Next]_vars => [Stays]_vars
  <2> SUFFICES ASSUME TypeOK, Next, NEW c \in Conns, conn[c] # "new",
                      \A p \in Profiles : states[p] # c, NEW q \in Profiles
               PROVE  states'[q] # c
    OBVIOUS
  <2> USE ConstantsAssumption DEF TypeOK
  <2>1. ASSUME NEW t \in Tasks, NEW p \in Profiles, BeginDisconnect(t, p)
        PROVE  states'[q] # c
    BY <2>1 DEF BeginDisconnect, Popped
  <2>2. ASSUME NEW t \in Tasks, DialOk(t) PROVE states'[q] # c
    BY <2>2 DEF DialOk, Fresh
  <2>3. CASE UNCHANGED states
    BY <2>3
  <2>4. QED
    BY <2>1, <2>2, <2>3 DEF Next, Resume, Call, Environment, Connect, Disconnect, Dial,
       OpenTerminal, OpenForward, Begin, CloseForward, CloseTerminal, ListenerClosed,
       ConnClosed, DialFailed, OpenFailed, ForwardClosed, TerminalOpened, ForwardOpened,
       ConnectionLost, ConnectionEnds, Cleanup, ProcessExits, ClientArrives, ClientLeaves
<1>2. QED BY <1>1, TypeCorrect, PTL DEF Spec, SessionsNeverReturn

\* If callers never overlap two _connect of one profile, a _connect is alone and
\* no connection is orphaned.
THEOREM NoOrphans ==
  ASSUME ExclusiveConnect PROVE Spec => [](ConnectIsAlone /\ NoOrphanConnection)
<1> DEFINE Inv == OverlapInv /\ ConnectIsAlone /\ NoOrphanConnection
<1>1. Init => ConnectIsAlone /\ NoOrphanConnection
  BY DEF Init, ConnectIsAlone, Connects, NoOrphanConnection
<1>2. OverlapInv /\ ConnectIsAlone /\ NoOrphanConnection /\ [Next]_vars
        => ConnectIsAlone' /\ NoOrphanConnection'
  BY AloneStep, OrphanStep DEF OverlapInv
<1>3. QED BY <1>1, <1>2, OverlapSafety, PTL DEF Spec

\* docs/ARCHITECTURE.md:83 holds of a client that never overlaps two _connect of
\* one profile, when no forward is opened on a connection already closed.
THEOREM DisconnectCloses ==
  ASSUME ExclusiveConnect, ~LateListener PROVE Spec => []DisconnectedMeansClosed
<1>1. OverlapInv /\ NoOrphanConnection => DisconnectedMeansClosed
  <2> SUFFICES ASSUME OverlapInv, NoOrphanConnection, NEW p \in Profiles, states[p] = None,
                      InFlight(p) = {}, NEW c \in Conns, owner[c] = p
               PROVE  /\ conn[c] = "closed"
                      /\ \A l \in Listeners : via[l] = c => listener[l] # "open"
                      /\ \A x \in Terminals : via[x] = c =>
                           process[x] \notin {"running", "signalled"}
    BY DEF DisconnectedMeansClosed
  <2> USE DEF OverlapInv
  <2>1. Closing(c) = {}
    BY DEF Ownership, Closing, InFlight, Teardown
  <2>2. conn[c] = "closed"
    BY <2>1, ConstantsAssumption
       DEF NoOrphanConnection, Ownership, ClosingIsAwaited, TypeOK, ConnStatus
  <2>3. QED BY <2>2 DEF HandlesFollowTheirConnection, ListenerStatus
<1>2. QED BY <1>1, OverlapSafety, NoOrphans, PTL
=============================================================================
