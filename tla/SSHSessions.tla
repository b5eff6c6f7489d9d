---------------------------- MODULE SSHSessions ----------------------------
(***************************************************************************)
(* The SSHSessionManager of pibic_lab_core/infrastructure/ssh_service.py.  *)
(*                                                                         *)
(* One thread runs an asyncio loop; every public method submits a          *)
(* coroutine to it, so coroutines interleave at their awaits and nowhere   *)
(* else.  A task of this module is one such coroutine and an action is the *)
(* code it runs between two awaits.  AsyncLoopRunner.run bounds the time a *)
(* caller waits for its coroutine, not the coroutine: a caller that gave   *)
(* up leaves its task running and may submit another.  Tasks are therefore *)
(* not tied to callers, and any number of them (up to the size of Tasks)   *)
(* may be in flight for one profile.                                       *)
(***************************************************************************)
CONSTANTS
  Profiles,         \* the profile ids that callers use
  Conns,            \* the connections (and their SSHState) that may be made
  Terminals,        \* the terminal ids that may be drawn
  Listeners,        \* the forward ids that may be drawn
  Tasks,            \* the coroutines that may be in flight
  None,             \* no connection, no listener, no profile
  ExclusiveConnect, \* assumption: one _connect in flight per profile at most
  LateListener      \* AsyncSSH may hand out a listener of a closed connection

ASSUME ConstantsAssumption ==
  /\ None \notin Profiles \cup Conns \cup Terminals \cup Listeners
  /\ Terminals \cap Listeners = {}
  /\ ExclusiveConnect \in BOOLEAN
  /\ LateListener \in BOOLEAN

VARIABLES
  states,     \* SSHSessionManager._states: the registered session of a profile
  conn,       \* the life of each asyncssh connection
  owner,      \* SSHState.profile_id
  terminals,  \* SSHState.terminals
  forwards,   \* SSHState.forwards
  process,    \* the remote process of each terminal
  listener,   \* the local socket of each forward
  via,        \* the connection that a terminal or a listener was made on
  busy,       \* the listeners that a local client is connected to
  pc,         \* the await at which each task is suspended
  profile,    \* the argument profile_id of each task
  sess,       \* the SSHState that each task holds across its await
  at,         \* the listener whose closing a task waits for
  todo,       \* the listeners a _disconnect has still to close
  reconnect   \* whether a _disconnect runs inside _connect

sshVars  == <<states, conn, owner, terminals, forwards>>
libVars  == <<process, listener, via, busy>>
taskVars == <<pc, profile, sess, at, todo, reconnect>>
vars     == <<sshVars, libVars, taskVars>>

ConnStatus     == {"new", "open", "closing", "closed"}
ProcessStatus  == {"free", "running", "signalled", "ended"}
ListenerStatus == {"free", "open", "closed"}

\* The awaits: idle is no coroutine at all; listener and connclose are those of
\* _disconnect, dial that of _connect, process and forward those of the open_*
\* coroutines, drain that of _close_forward.
Await    == {"idle", "listener", "connclose", "dial", "process", "forward", "drain"}
Teardown == {"listener", "connclose"}

TypeOK ==
  /\ states \in [Profiles -> Conns \cup {None}]
  /\ conn \in [Conns -> ConnStatus]
  /\ owner \in [Conns -> Profiles \cup {None}]
  /\ terminals \in [Conns -> SUBSET Terminals]
  /\ forwards \in [Conns -> SUBSET Listeners]
  /\ process \in [Terminals -> ProcessStatus]
  /\ listener \in [Listeners -> ListenerStatus]
  /\ via \in [Terminals \cup Listeners -> Conns \cup {None}]
  /\ busy \subseteq Listeners
  /\ pc \in [Tasks -> Await]
  /\ profile \in [Tasks -> Profiles \cup {None}]
  /\ sess \in [Tasks -> Conns \cup {None}]
  /\ at \in [Tasks -> Listeners \cup {None}]
  /\ todo \in [Tasks -> SUBSET Listeners]
  /\ reconnect \in [Tasks -> BOOLEAN]

Init ==
  /\ states = [p \in Profiles |-> None]
  /\ conn = [c \in Conns |-> "new"]
  /\ owner = [c \in Conns |-> None]
  /\ terminals = [c \in Conns |-> {}]
  /\ forwards = [c \in Conns |-> {}]
  /\ process = [x \in Terminals |-> "free"]
  /\ listener = [l \in Listeners |-> "free"]
  /\ via = [h \in Terminals \cup Listeners |-> None]
  /\ busy = {}
  /\ pc = [t \in Tasks |-> "idle"]
  /\ profile = [t \in Tasks |-> None]
  /\ sess = [t \in Tasks |-> None]
  /\ at = [t \in Tasks |-> None]
  /\ todo = [t \in Tasks |-> {}]
  /\ reconnect = [t \in Tasks |-> FALSE]

-----------------------------------------------------------------------------
(* Suspending and finishing a coroutine.                                   *)

Suspend(t, await, p, s) ==
  /\ pc' = [pc EXCEPT ![t] = await]
  /\ profile' = [profile EXCEPT ![t] = p]
  /\ sess' = [sess EXCEPT ![t] = s]

Finish(t) ==
  /\ Suspend(t, "idle", None, None)
  /\ at' = [at EXCEPT ![t] = None]
  /\ todo' = [todo EXCEPT ![t] = {}]
  /\ reconnect' = [reconnect EXCEPT ![t] = FALSE]

\* An id is drawn and its object put into a table of the session.
RegisterNothing(table, s, id) == table               \* a bug: the entry is forgotten
RegisterOnly(table, s, id) == [table EXCEPT ![s] = {id}]  \* a bug: a single slot
Register(table, s, id) == [table EXCEPT ![s] = @ \cup {id}]

\* _require_state: the session is registered and its connection is not closed.
Live(p) == states[p] # None /\ conn[states[p]] # "closed"

\* The _connect coroutines of profile p that are in flight.
Connects(t) == pc[t] = "dial" \/ reconnect[t]
Connecting(p) == {t \in Tasks : Connects(t) /\ profile[t] = p}

-----------------------------------------------------------------------------
(* _disconnect.  It closes every terminal without suspending, then one     *)
(* listener after the other, awaiting each, then the connection.           *)

\* _states.pop(profile_id)
PoppedKey(p) == [q \in Profiles \ {p} |-> states[q]]  \* a bug: the key is missed later
NotPopped(p) == states                               \* a bug: get() in place of pop()
Popped(p) == [states EXCEPT ![p] = None]

\* conn.close()
NotClosed(status) == status                          \* a bug: close() is forgotten
CloseRequested(status) == IF status = "open" THEN "closing" ELSE status

\* conn.wait_closed() has something to return.
NoWait(s) == TRUE                                    \* a bug: it is not awaited
WaitClosed(s) == conn[s] = "closed"

\* listener.close() on one of the rest, then await listener.wait_closed().
CloseOneListener(t, p, s, rest) ==
  \E l \in rest :
    /\ listener' = [listener EXCEPT ![l] = "closed"]
    /\ at' = [at EXCEPT ![t] = l]
    /\ todo' = [todo EXCEPT ![t] = rest \ {l}]
    /\ Suspend(t, "listener", p, s)
    /\ UNCHANGED <<conn, forwards>>

\* No listener is left: forwards.clear(), conn.close(), await wait_closed().
CloseConn(t, p, s, rest) ==
  /\ rest = {}
  /\ forwards' = [forwards EXCEPT ![s] = {}]
  /\ conn' = [conn EXCEPT ![s] = CloseRequested(@)]
  /\ at' = [at EXCEPT ![t] = None]
  /\ todo' = [todo EXCEPT ![t] = {}]
  /\ Suspend(t, "connclose", p, s)
  /\ UNCHANGED listener

CloseRest(t, p, s, rest) ==
  CloseOneListener(t, p, s, rest) \/ CloseConn(t, p, s, rest)

\* Pop the session, close its terminals, start on its forwards.
BeginDisconnect(t, p) ==
  LET s == states[p]
  IN  /\ s # None
      /\ states' = Popped(p)
      /\ process' = [x \in Terminals |->
                       IF x \in terminals[s] /\ process[x] = "running"
                         THEN "signalled" ELSE process[x]]
      /\ terminals' = [terminals EXCEPT ![s] = {}]
      /\ CloseRest(t, p, s, forwards[s])
      /\ UNCHANGED <<owner, via, busy>>

\* With no session registered _disconnect returns at once and changes nothing.
Disconnect(t, p) ==
  /\ pc[t] = "idle"
  /\ BeginDisconnect(t, p)
  /\ UNCHANGED reconnect

\* wait_closed() of a listener returns once no client is connected to it.
ListenerClosed(t) ==
  /\ pc[t] = "listener"
  /\ at[t] \notin busy
  /\ CloseRest(t, profile[t], sess[t], todo[t])
  /\ UNCHANGED <<states, owner, terminals, process, via, busy, reconnect>>

-----------------------------------------------------------------------------
(* _connect.                                                               *)

Dial(t, p) ==
  /\ Suspend(t, "dial", p, None)
  /\ at' = [at EXCEPT ![t] = None]
  /\ todo' = [todo EXCEPT ![t] = {}]
  /\ reconnect' = [reconnect EXCEPT ![t] = FALSE]
  /\ UNCHANGED <<sshVars, libVars>>

\* The connection that asyncssh.connect returns was not there before.
Pooled(c) == conn[c] # "open"                        \* a bug: a closed one is reused
Fresh(c) == conn[c] = "new"

NeverDisconnectFirst(p) == FALSE                     \* a bug: the old session stays
DisconnectFirst(p) == states[p] # None

\* A registered session, live or dead, is disconnected first.
Connect(t, p) ==
  /\ pc[t] = "idle"
  /\ ExclusiveConnect => Connecting(p) = {}
  /\ \/ /\ DisconnectFirst(p)
        /\ BeginDisconnect(t, p)
        /\ reconnect' = [reconnect EXCEPT ![t] = TRUE]
     \/ /\ ~DisconnectFirst(p)
        /\ Dial(t, p)

\* conn.wait_closed() returns.  Inside _connect the credentials are read only
\* now, and a missing password or key file raises here, the old session gone.
ConnClosed(t) ==
  /\ pc[t] = "connclose"
  /\ WaitClosed(sess[t])
  /\ \/ /\ reconnect[t]
        /\ Dial(t, profile[t])
     \/ /\ Finish(t)
        /\ UNCHANGED <<sshVars, libVars>>

\* asyncssh.connect returns; _states[profile_id] is assigned without a new check.
DialOk(t) ==
  \E c \in Conns :
    /\ pc[t] = "dial"
    /\ Fresh(c)
    /\ conn' = [conn EXCEPT ![c] = "open"]
    /\ owner' = [owner EXCEPT ![c] = profile[t]]
    /\ states' = [states EXCEPT ![profile[t]] = c]
    /\ Finish(t)
    /\ UNCHANGED <<terminals, forwards, libVars>>

\* Refused, unknown host key, wrong password, connect_timeout.
DialFailed(t) ==
  /\ pc[t] = "dial"
  /\ Finish(t)
  /\ UNCHANGED <<sshVars, libVars>>

-----------------------------------------------------------------------------
(* _open_terminal and _close_terminal.                                     *)

Begin(t, p, await) ==
  /\ pc[t] = "idle"
  /\ Live(p)
  /\ Suspend(t, await, p, states[p])
  /\ UNCHANGED <<at, todo, reconnect, sshVars, libVars>>

OpenTerminal(t, p) == Begin(t, p, "process")

\* create_process returns.  The SSHState is the one found before the await,
\* whatever became of it; a connection closed meanwhile has ended the process.
TerminalOpened(t) ==
  \E x \in Terminals :
    LET s == sess[t]
    IN  /\ pc[t] = "process"
        /\ process[x] = "free"
        /\ process' = [process EXCEPT
                         ![x] = IF conn[s] = "closed" THEN "ended" ELSE "running"]
        /\ via' = [via EXCEPT ![x] = s]
        /\ terminals' = Register(terminals, s, x)
        /\ Finish(t)
        /\ UNCHANGED <<states, conn, owner, forwards, listener, busy>>

\* create_process or the forwarding call raises.
OpenFailed(t) ==
  /\ pc[t] \in {"process", "forward"}
  /\ Finish(t)
  /\ UNCHANGED <<sshVars, libVars>>

\* _close_terminal has no await that suspends: it needs no task.
CloseTerminal(p, x) ==
  /\ Live(p)
  /\ x \in terminals[states[p]]
  /\ terminals' = [terminals EXCEPT ![states[p]] = @ \ {x}]
  /\ process' = [process EXCEPT ![x] = IF @ = "running" THEN "signalled" ELSE @]
  /\ UNCHANGED <<states, conn, owner, forwards, listener, via, busy, taskVars>>

-----------------------------------------------------------------------------
(* _open_forward and _open_socks, which differ in the call they await, and *)
(* _close_forward.                                                         *)

OpenForward(t, p) == Begin(t, p, "forward")

ForwardOpened(t) ==
  \E l \in Listeners :
    LET s == sess[t]
    IN  /\ pc[t] = "forward"
        /\ listener[l] = "free"
        /\ conn[s] = "closed" => LateListener
        /\ listener' = [listener EXCEPT ![l] = "open"]
        /\ via' = [via EXCEPT ![l] = s]
        /\ forwards' = Register(forwards, s, l)
        /\ Finish(t)
        /\ UNCHANGED <<states, conn, owner, terminals, process, busy>>

CloseForward(t, p, l) ==
  /\ pc[t] = "idle"
  /\ Live(p)
  /\ l \in forwards[states[p]]
  /\ forwards' = [forwards EXCEPT ![states[p]] = @ \ {l}]
  /\ listener' = [listener EXCEPT ![l] = "closed"]
  /\ Suspend(t, "drain", p, states[p])
  /\ at' = [at EXCEPT ![t] = l]
  /\ UNCHANGED <<states, conn, owner, terminals, process, via, busy, todo, reconnect>>

\* wait_for(listener.wait_closed(), 1.5): closed, or not closed in time.
ForwardClosed(t) ==
  /\ pc[t] = "drain"
  /\ Finish(t)
  /\ UNCHANGED <<sshVars, libVars>>

-----------------------------------------------------------------------------
(* AsyncSSH, the gateway and the local clients of the forwards.            *)

\* The connection is gone: so are its channels, its listeners and their tunnels.
Cleanup(s) ==
  /\ conn' = [conn EXCEPT ![s] = "closed"]
  /\ process' = [x \in Terminals |->
                   IF via[x] = s /\ process[x] # "free" THEN "ended" ELSE process[x]]
  /\ listener' = [l \in Listeners |->
                    IF via[l] = s /\ listener[l] = "open" THEN "closed" ELSE listener[l]]
  /\ busy' = {l \in busy : via[l] # s}
  /\ UNCHANGED <<states, owner, terminals, forwards, via, taskVars>>

\* The gateway or the network drops it, or three keepalives go unanswered.
ConnectionLost(s) == conn[s] = "open" /\ Cleanup(s)

\* The close() of _disconnect takes effect.
ConnectionEnds(s) == conn[s] = "closing" /\ Cleanup(s)

ProcessExits(x) ==
  /\ process[x] \in {"running", "signalled"}
  /\ process' = [process EXCEPT ![x] = "ended"]
  /\ UNCHANGED <<sshVars, listener, via, busy, taskVars>>

ClientArrives(l) ==
  /\ listener[l] = "open"
  /\ conn[via[l]] = "open"
  /\ busy' = busy \cup {l}
  /\ UNCHANGED <<sshVars, process, listener, via, taskVars>>

ClientLeaves(l) ==
  /\ l \in busy
  /\ busy' = busy \ {l}
  /\ UNCHANGED <<sshVars, process, listener, via, taskVars>>

-----------------------------------------------------------------------------
Resume(t) ==
  \/ ListenerClosed(t)
  \/ ConnClosed(t)
  \/ DialOk(t)
  \/ DialFailed(t)
  \/ TerminalOpened(t)
  \/ ForwardOpened(t)
  \/ OpenFailed(t)
  \/ ForwardClosed(t)

Call(t, p) ==
  \/ Connect(t, p)
  \/ Disconnect(t, p)
  \/ OpenTerminal(t, p)
  \/ OpenForward(t, p)
  \/ \E l \in Listeners : CloseForward(t, p, l)

Environment ==
  \/ \E s \in Conns : ConnectionLost(s) \/ ConnectionEnds(s)
  \/ \E x \in Terminals : ProcessExits(x)
  \/ \E l \in Listeners : ClientArrives(l) \/ ClientLeaves(l)

Next ==
  \/ \E t \in Tasks : Resume(t)
  \/ \E t \in Tasks, p \in Profiles : Call(t, p)
  \/ \E p \in Profiles, x \in Terminals : CloseTerminal(p, x)
  \/ Environment

Spec == Init /\ [][Next]_vars

\* The loop runs whatever can run, asyncssh.connect is bounded by its
\* connect_timeout, and a connection told to close does close.
LoopFairness ==
  /\ \A t \in Tasks : WF_vars(ListenerClosed(t) \/ ConnClosed(t))
  /\ \A t \in Tasks : WF_vars(DialOk(t) \/ DialFailed(t))
  /\ \A s \in Conns : WF_vars(ConnectionEnds(s))

LoopSpec == Spec /\ LoopFairness

\* Moreover, every client of a forward disconnects from it in the end.
ClientsLeaveSpec == LoopSpec /\ \A l \in Listeners : WF_vars(ClientLeaves(l))

-----------------------------------------------------------------------------
(* Properties.                                                             *)

\* The tasks that are tearing session s down.
Closing(s) == {t \in Tasks : sess[t] = s /\ pc[t] \in Teardown}

\* A connection that is open can still be closed by somebody: it is registered
\* for its profile, or one _disconnect holds it.  _connect registers without a
\* second look at _states (ssh_service.py:197-199), so this rests on there
\* being one _connect in flight per profile.
NoOrphanConnection ==
  \A c \in Conns : conn[c] = "open" =>
    \/ owner[c] \in Profiles /\ states[owner[c]] = c
    \/ Closing(c) # {}

\* Two coroutines never tear the same session down, and one that is being torn
\* down is no longer handed out by _require_state: the pop (line 213) comes
\* before the first await.
TeardownIsExclusive ==
  \A c \in Conns : \A t \in Closing(c) :
    /\ Closing(c) = {t}
    /\ \A p \in Profiles : states[p] # c

\* A local socket open on a live connection can still be closed: its id is in
\* the table of its session, or a _disconnect is closing that session.  A forward
\* opened while _disconnect walks its snapshot of the table (line 219) is wiped
\* by forwards.clear() and only the close() of the connection reaches it.
OpenListenersAreReachable ==
  \A l \in Listeners : listener[l] = "open" /\ conn[via[l]] = "open" =>
    l \in forwards[via[l]] \/ Closing(via[l]) # {}

\* A shell that nobody asked to stop is in the table of its session, so that
\* terminal/close and _disconnect can find it.
RunningShellsAreReachable ==
  \A x \in Terminals : process[x] = "running" => x \in terminals[via[x]]

InFlight(p) == {t \in Tasks : profile[t] = p}

\* "Ao desconectar, terminais e listeners de forwarding são fechados"
\* (docs/ARCHITECTURE.md:83): when a profile has no session and no call in
\* flight, no connection, no listener and no process of it is left open.
DisconnectedMeansClosed ==
  \A p \in Profiles : states[p] = None /\ InFlight(p) = {} =>
    \A c \in Conns : owner[c] = p =>
      /\ conn[c] = "closed"
      /\ \A l \in Listeners : via[l] = c => listener[l] # "open"
      /\ \A x \in Terminals : via[x] = c => process[x] \notin {"running", "signalled"}

\* A session that left the registry never comes back to it: every session the
\* callers see is one that a _connect after the pop has made.
SessionsNeverReturn ==
  [][\A c \in Conns :
       conn[c] # "new" /\ (\A p \in Profiles : states[p] # c)
         => \A p \in Profiles : states'[p] # c]_vars

\* A _disconnect that popped a session ends with the connection closed.
TeardownCompletes ==
  \A c \in Conns : Closing(c) # {} ~> conn[c] = "closed" /\ Closing(c) = {}

-----------------------------------------------------------------------------
(* What the proofs of these properties rest on.                            *)

\* Who a session and a coroutine belong to, and what a coroutine still holds.
Ownership ==
  /\ \A p \in Profiles : states[p] # None =>
       owner[states[p]] = p /\ conn[states[p]] # "new"
  /\ \A c \in Conns : owner[c] # None => conn[c] # "new"
  /\ \A t \in Tasks : pc[t] # "idle" => profile[t] \in Profiles
  /\ \A t \in Tasks : pc[t] \notin {"idle", "dial"} =>
       /\ sess[t] \in Conns
       /\ conn[sess[t]] # "new"
       /\ owner[sess[t]] = profile[t]
  /\ \A t \in Tasks : reconnect[t] => pc[t] \in Teardown

\* A connection told to close is awaited until it has closed.
ClosingIsAwaited == \A c \in Conns : conn[c] = "closing" => Closing(c) # {}

\* While a _connect is in flight it is alone and its profile has no session.
ConnectIsAlone ==
  \A t \in Tasks : Connects(t) =>
    /\ states[profile[t]] = None
    /\ \A u \in Tasks : Connects(u) /\ profile[u] = profile[t] => u = t

\* What was made on a connection that is closed is closed too.
HandlesFollowTheirConnection ==
  /\ \A x \in Terminals : process[x] # "free" =>
       /\ via[x] \in Conns
       /\ conn[via[x]] # "new"
       /\ conn[via[x]] = "closed" => process[x] = "ended"
  /\ \A l \in Listeners : listener[l] # "free" =>
       /\ via[l] \in Conns
       /\ conn[via[l]] # "new"
       /\ conn[via[l]] = "closed" /\ ~LateListener => listener[l] = "closed"
  /\ \A c \in Conns : \A l \in forwards[c] : listener[l] # "free"
  /\ \A t \in Tasks : \A l \in todo[t] : listener[l] # "free"
=============================================================================
