------------------------------ MODULE Terminal ------------------------------
(***************************************************************************)
(* A terminal of one profile, from the shell's output to the screen: the   *)
(* readers and the polls of ssh_service.py, and the page that polls        *)
(* (app.js).                                                               *)
(*                                                                         *)
(* Every request of the page is an HTTP call that the server handles on a  *)
(* thread of its own; the thread submits one coroutine to the loop and     *)
(* waits for it.  None of the coroutines here suspends between reading and *)
(* writing a TerminalState, so each is one step.  Requests in flight may   *)
(* be handled, and answered, in any order; a thread that gives up answers  *)
(* with an error while its coroutine is still to run.                      *)
(*                                                                         *)
(* Output is counted in pieces: piece n is the n-th that a reader took     *)
(* from the shell.  Keys are counted likewise.                             *)
(***************************************************************************)
EXTENDS Naturals, Sequences, Functions

CONSTANTS
  Shells,     \* the session ids that may be drawn
  Calls,      \* the requests that may be in flight
  None,       \* no session id
  MaxBuffer,  \* MAX_TERMINAL_BUFFER, in pieces
  MaxPieces,  \* bound: the pieces read from one shell
  MaxKeys,    \* bound: the keys typed into one shell
  MaxFaults   \* bound: sessions lost, calls given up and answers lost

ASSUME ConstantsAssumption ==
  /\ None \notin Shells
  /\ MaxBuffer \in Nat \ {0}
  /\ MaxPieces \in Nat
  /\ MaxKeys \in Nat
  /\ MaxFaults \in Nat

VARIABLES
  live,       \* the profile has a session whose connection is not closed
  table,      \* SSHState.terminals of that session
  process,    \* the shell of each TerminalState, as its readers see it
  closed,     \* TerminalState.closed
  buffer,     \* TerminalState.buffer
  received,   \* the keys written to each shell's stdin
  sessionId,  \* state.terminal.sessionId
  polling,    \* state.terminal.pollTimer is set
  display,    \* state.terminal has a renderer: xterm, or the visible fallback
  kind,       \* what each request in flight asks for
  target,     \* its session_id; of an open, the one in its answer
  stage,      \* whether it is still to be handled, answered or failed
  data,       \* the keys it carries, or the output in its answer
  ended,      \* the closed flag in its answer
  reopen,     \* a close after which the page opens a new terminal
  base,       \* history: what was on its terminal's screen when a poll was sent
  stray,      \* the coroutines whose thread gave up, still to run
  read,       \* how many pieces were read from each shell
  trimmed,    \* the pieces that were cut from a full buffer
  shown,      \* the pieces of each shell put on the screen, in that order
  before,     \* what was on the screen when the poll for each piece shown was sent
  typed,      \* how many keys were typed into each shell
  unheard,    \* the shells whose open was never answered to the page
  displaced,  \* the shells whose id the page dropped at an answer about another
  faults      \* how many faults there have been

serverVars  == <<live, table, process, closed, buffer, received>>
pageVars    == <<sessionId, polling, display>>
callVars    == <<kind, target, stage, data, ended, reopen, base>>
historyVars == <<read, trimmed, shown, before, typed, unheard, displaced>>
vars == <<serverVars, pageVars, callVars, stray, historyVars, faults>>

Kinds  == {"open", "poll", "input", "close"}
Stages == {"sent", "answered", "failed"}
Stray  == [no : 1 .. MaxFaults, kind : Kinds, id : Shells \cup {None}, data : Seq(Nat)]

ServerTypeOK ==
  /\ live \in BOOLEAN
  /\ table \subseteq Shells
  /\ process \in [Shells -> {"free", "running", "ended"}]
  /\ closed \subseteq Shells
  /\ buffer \in [Shells -> Seq(Nat)]
  /\ received \in [Shells -> Seq(Nat)]
  /\ stray \subseteq Stray

PageTypeOK ==
  /\ sessionId \in Shells \cup {None}
  /\ polling \in BOOLEAN
  /\ display \in BOOLEAN

CallTypeOK ==
  /\ kind \in [Calls -> Kinds \cup {"free"}]
  /\ target \in [Calls -> Shells \cup {None}]
  /\ stage \in [Calls -> Stages]
  /\ data \in [Calls -> Seq(Nat)]
  /\ ended \in [Calls -> BOOLEAN]
  /\ reopen \in [Calls -> BOOLEAN]
  /\ base \in [Calls -> SUBSET Nat]
  /\ \A c \in Calls :
       \/ kind[c] \in {"poll", "input", "close"}
       \/ kind[c] = "open" /\ stage[c] = "answered"
       => target[c] \in Shells

HistoryTypeOK ==
  /\ read \in [Shells -> 0 .. MaxPieces]
  /\ trimmed \in [Shells -> SUBSET Nat]
  /\ shown \in [Shells -> Seq(Nat)]
  /\ before \in [Shells -> [0 .. MaxPieces -> SUBSET Nat]]
  /\ typed \in [Shells -> 0 .. MaxKeys]
  /\ unheard \subseteq Shells
  /\ displaced \subseteq Shells
  /\ faults \in 0 .. MaxFaults

TypeOK == ServerTypeOK /\ PageTypeOK /\ CallTypeOK /\ HistoryTypeOK

Init ==
  /\ live = TRUE
  /\ table = {}
  /\ process = [x \in Shells |-> "free"]
  /\ closed = {}
  /\ buffer = [x \in Shells |-> <<>>]
  /\ received = [x \in Shells |-> <<>>]
  /\ sessionId = None
  /\ polling = FALSE
  /\ display = FALSE
  /\ kind = [c \in Calls |-> "free"]
  /\ target = [c \in Calls |-> None]
  /\ stage = [c \in Calls |-> "sent"]
  /\ data = [c \in Calls |-> <<>>]
  /\ ended = [c \in Calls |-> FALSE]
  /\ reopen = [c \in Calls |-> FALSE]
  /\ base = [c \in Calls |-> {}]
  /\ stray = {}
  /\ read = [x \in Shells |-> 0]
  /\ trimmed = [x \in Shells |-> {}]
  /\ shown = [x \in Shells |-> <<>>]
  /\ before = [x \in Shells |-> [n \in 0 .. MaxPieces |-> {}]]
  /\ typed = [x \in Shells |-> 0]
  /\ unheard = {}
  /\ displaced = {}
  /\ faults = 0

-----------------------------------------------------------------------------
(* The requests of the page.                                               *)

\* Slot c becomes request k, or free again.
Put(c, k, x, d, again) ==
  /\ kind' = [kind EXCEPT ![c] = k]
  /\ target' = [target EXCEPT ![c] = x]
  /\ stage' = [stage EXCEPT ![c] = "sent"]
  /\ data' = [data EXCEPT ![c] = d]
  /\ ended' = [ended EXCEPT ![c] = FALSE]
  /\ reopen' = [reopen EXCEPT ![c] = again]
  /\ base' = [base EXCEPT ![c] = IF k = "poll" THEN Range(shown[x]) ELSE {}]

Free(c) == Put(c, "free", None, <<>>, FALSE)

\* openTerminal without a session; with one it only shows the view.
OpenTerminal(c) ==
  /\ kind[c] = "free"
  /\ sessionId = None
  /\ display' = TRUE
  /\ Put(c, "open", None, <<>>, FALSE)
  /\ UNCHANGED <<serverVars, sessionId, polling, stray, historyVars, faults>>

\* a bug: the server is not told
CloseUntold(c, again) ==
  /\ sessionId # None
  /\ polling' = FALSE
  /\ sessionId' = None
  /\ display' = FALSE
  /\ UNCHANGED <<serverVars, callVars, stray, historyVars, faults>>

\* closeTerminal up to its await; "again" is the button for a new session.
CloseTerminal(c, again) ==
  /\ kind[c] = "free"
  /\ sessionId # None
  /\ polling' = FALSE
  /\ Put(c, "close", sessionId, <<>>, again)
  /\ UNCHANGED <<serverVars, sessionId, display, stray, historyVars, faults>>

\* closeTerminal without a session has nothing to await.
CloseNothing ==
  /\ sessionId = None
  /\ polling' = FALSE
  /\ display' = FALSE
  /\ UNCHANGED <<serverVars, sessionId, callVars, stray, historyVars, faults>>

\* setInterval calls pollTerminal, answered or not.
Tick(c) ==
  /\ kind[c] = "free"
  /\ polling
  /\ sessionId # None
  /\ Put(c, "poll", sessionId, <<>>, FALSE)
  /\ UNCHANGED <<serverVars, pageVars, stray, historyVars, faults>>

\* xterm.onData, or Enter in the fallback: sendTerminalText.
Type(c) ==
  /\ kind[c] = "free"
  /\ display
  /\ sessionId # None
  /\ typed[sessionId] < MaxKeys
  /\ typed' = [typed EXCEPT ![sessionId] = @ + 1]
  /\ Put(c, "input", sessionId, <<typed[sessionId] + 1>>, FALSE)
  /\ UNCHANGED <<serverVars, pageVars, stray, read, trimmed, shown, before,
                 unheard, displaced, faults>>

-----------------------------------------------------------------------------
(* The coroutines.                                                         *)

\* _open_terminal: a new process, in the table of the session.
Open(x) ==
  /\ live
  /\ process[x] = "free"
  /\ process' = [process EXCEPT ![x] = "running"]
  /\ table' = table \cup {x}
  /\ UNCHANGED <<live, closed, buffer, received>>

\* _terminal_poll takes the whole buffer.
Kept(x) == buffer                                       \* a bug: it is copied and kept
Deleted(x) == [y \in Shells \ {x} |-> buffer[y]]         \* a bug: it is gone for the reader
Emptied(x) == IF x \in table THEN [buffer EXCEPT ![x] = <<>>] ELSE buffer

Poll(x) ==
  /\ live
  /\ buffer' = Emptied(x)
  /\ UNCHANGED <<live, table, process, closed, received>>

OutputFirst(x) ==   \* a bug: a long answer is cut short, and the whole buffer cleared
  IF x \in table /\ buffer[x] # <<>> THEN <<Head(buffer[x])>> ELSE <<>>

Output(x) == IF x \in table THEN buffer[x] ELSE <<>>
IsClosed(x) == x \notin table \/ x \in closed

\* a bug: it is written again when drain() returns
InputTwice(x, keys) ==
  /\ live
  /\ ~IsClosed(x)
  /\ process[x] = "running"
  /\ received' = [received EXCEPT ![x] = @ \o keys \o keys]
  /\ UNCHANGED <<live, table, process, closed, buffer>>

\* _terminal_input writes to stdin.
Input(x, keys) ==
  /\ live
  /\ ~IsClosed(x)
  /\ process[x] = "running"
  /\ received' = [received EXCEPT ![x] = @ \o keys]
  /\ UNCHANGED <<live, table, process, closed, buffer>>

\* _close_terminal_state: popped, told to stop, its readers cancelled.
Close(x) ==
  /\ live
  /\ IF x \in table
       THEN /\ table' = table \ {x}
            /\ process' = [process EXCEPT ![x] = "ended"]
            /\ closed' = closed \cup {x}
       ELSE UNCHANGED <<table, process, closed>>
  /\ UNCHANGED <<live, buffer, received>>

\* The coroutine of request c runs: no order binds it to that of another request.
Handled(c, k) == kind[c] = k /\ stage[c] = "sent"

Answer(c, x, d, e) ==
  /\ stage' = [stage EXCEPT ![c] = "answered"]
  /\ target' = [target EXCEPT ![c] = x]
  /\ data' = [data EXCEPT ![c] = d]
  /\ ended' = [ended EXCEPT ![c] = e]
  /\ UNCHANGED <<kind, reopen, base, pageVars, stray, historyVars, faults>>

HandleOpen(c) ==
  \E x \in Shells : Handled(c, "open") /\ Open(x) /\ Answer(c, x, <<>>, FALSE)

HandlePoll(c) ==
  LET x == target[c]
  IN  Handled(c, "poll") /\ Poll(x) /\ Answer(c, x, Output(x), IsClosed(x))

HandleInput(c) ==
  LET x == target[c]
  IN  Handled(c, "input") /\ Input(x, data[c]) /\ Answer(c, x, data[c], FALSE)

HandleClose(c) ==
  LET x == target[c]
  IN  Handled(c, "close") /\ Close(x) /\ Answer(c, x, <<>>, FALSE)

\* _require_state raises; create_process is refused; the terminal is closed.
Refuse(c) ==
  /\ \E k \in Kinds : Handled(c, k)
  /\ \/ ~live
     \/ kind[c] = "open"
     \/ kind[c] = "input" /\ (IsClosed(target[c]) \/ process[target[c]] # "running")
  /\ stage' = [stage EXCEPT ![c] = "failed"]
  /\ UNCHANGED <<serverVars, pageVars, kind, target, data, ended, reopen, base,
                 stray, historyVars, faults>>

\* future.result(timeout) raises in the thread; the coroutine runs later.
GiveUp(c) ==
  /\ \E k \in Kinds : Handled(c, k)
  /\ faults < MaxFaults
  /\ faults' = faults + 1
  /\ stage' = [stage EXCEPT ![c] = "failed"]
  /\ stray' = stray \cup
       {[no |-> faults + 1, kind |-> kind[c], id |-> target[c], data |-> data[c]]}
  /\ UNCHANGED <<serverVars, pageVars, kind, target, data, ended, reopen, base,
                 historyVars>>

\* A coroutine that nobody waits for runs, or raises.
StrayRuns ==
  \E s \in stray :
    /\ stray' = stray \ {s}
    /\ \/ \E x \in Shells :
            s.kind = "open" /\ Open(x) /\ unheard' = unheard \cup {x}
       \/ s.kind = "poll" /\ Poll(s.id) /\ UNCHANGED unheard
       \/ s.kind = "input" /\ Input(s.id, s.data) /\ UNCHANGED unheard
       \/ s.kind = "close" /\ Close(s.id) /\ UNCHANGED unheard
       \/ (s.kind \in {"open", "input"} \/ ~live) /\ UNCHANGED <<serverVars, unheard>>
    /\ UNCHANGED <<pageVars, callVars, read, trimmed, shown, before, typed,
                    displaced, faults>>

\* fetch fails, the answer is not JSON, or the audit log raises after the work.
AnswerLost(c) ==
  /\ kind[c] # "free"
  /\ stage[c] = "answered"
  /\ faults < MaxFaults
  /\ faults' = faults + 1
  /\ stage' = [stage EXCEPT ![c] = "failed"]
  /\ data' = [data EXCEPT ![c] = <<>>]
  /\ ended' = [ended EXCEPT ![c] = FALSE]
  /\ unheard' = IF kind[c] = "open" THEN unheard \cup {target[c]} ELSE unheard
  /\ UNCHANGED <<serverVars, pageVars, kind, target, reopen, base,
                 stray, read, trimmed, shown, before, typed, displaced>>

-----------------------------------------------------------------------------
(* The readers, the shells and the session.                                *)

\* del terminal.buffer[:overflow]
CutBack(s) == IF Len(s) > MaxBuffer THEN SubSeq(s, 1, MaxBuffer) ELSE s  \* a bug: the newest is cut
CutFront(s) == IF Len(s) > MaxBuffer THEN SubSeq(s, Len(s) - MaxBuffer + 1, Len(s)) ELSE s

\* _reader takes a piece and cuts the buffer.
Read(x) ==
  LET full == Append(buffer[x], read[x] + 1)
  IN  /\ process[x] = "running"
      /\ read[x] < MaxPieces
      /\ read' = [read EXCEPT ![x] = @ + 1]
      /\ buffer' = [buffer EXCEPT ![x] = CutFront(full)]
      /\ trimmed' = [trimmed EXCEPT ![x] = @ \cup (Range(full) \ Range(CutFront(full)))]
      /\ UNCHANGED <<live, table, process, closed, received, pageVars, callVars, stray,
                     shown, before, typed, unheard, displaced, faults>>

\* The shell exits.  AsyncSSH closes a channel after it has handed out its output.
ProcessExits(x) ==
  /\ process[x] = "running"
  /\ process' = [process EXCEPT ![x] = "ended"]
  /\ UNCHANGED <<live, table, closed, buffer, received, pageVars, callVars, stray,
                 historyVars, faults>>

\* _watch_process: wait_closed() returns.
WatchProcess(x) ==
  /\ process[x] = "ended"
  /\ x \notin closed
  /\ closed' = closed \cup {x}
  /\ UNCHANGED <<live, table, process, buffer, received, pageVars, callVars, stray,
                 historyVars, faults>>

\* The connection is lost, or another window disconnects the profile.
SessionLost ==
  /\ live
  /\ faults < MaxFaults
  /\ faults' = faults + 1
  /\ live' = FALSE
  /\ process' = [x \in Shells |-> IF process[x] = "running" THEN "ended" ELSE process[x]]
  /\ UNCHANGED <<table, closed, buffer, received, pageVars, callVars, stray, historyVars>>

\* A new session starts with no terminals; the page keeps the id it had.
Reconnect ==
  /\ ~live
  /\ live' = TRUE
  /\ table' = {}
  /\ UNCHANGED <<process, closed, buffer, received, pageVars, callVars, stray,
                 historyVars, faults>>

-----------------------------------------------------------------------------
(* The answers reach the page.                                             *)

Arrived(c, k) == kind[c] = k /\ stage[c] # "sent"

\* The page drops the id it has at an answer about shell x, whichever id that is.
Dropped(x) == displaced \cup ({sessionId} \ {None, x})

\* startTerminalPolling replaces the timer there was.
StartPolling == polling' = TRUE

OpenDone(c) ==
  /\ Arrived(c, "open")
  /\ IF stage[c] = "answered"
       THEN /\ sessionId' = target[c]
            /\ StartPolling
            /\ displaced' = Dropped(target[c])
       ELSE UNCHANGED <<sessionId, polling, displaced>>
  /\ Free(c)
  /\ UNCHANGED <<serverVars, display, stray, read, trimmed, shown, before, typed,
                 unheard, faults>>

\* Output is written to the renderer there is now; without one, to a hidden element.
WrittenBefore(c) == data[c] \o shown[target[c]]  \* a bug: the output is put in front
Written(c) == shown[target[c]] \o data[c]

Shows(c) ==
  /\ shown' = [shown EXCEPT ![target[c]] = Written(c)]
  /\ before' = [before EXCEPT ![target[c]] =
       [n \in 0 .. MaxPieces |-> IF n \in Range(data[c]) THEN base[c] ELSE @[n]]]

\* The closed flag of any terminal's answer ends the terminal there is.
PollAnswered(c) ==
  /\ Arrived(c, "poll")
  /\ stage[c] = "answered"
  /\ IF display THEN Shows(c) ELSE UNCHANGED <<shown, before>>
  /\ IF ended[c]
       THEN /\ sessionId' = None
            /\ polling' = FALSE
            /\ displaced' = Dropped(target[c])
       ELSE UNCHANGED <<sessionId, polling, displaced>>
  /\ Free(c)
  /\ UNCHANGED <<serverVars, display, stray, read, trimmed, typed, unheard, faults>>

\* a bug: the timer goes on
PollsOn(c) ==
  /\ Arrived(c, "poll")
  /\ stage[c] = "failed"
  /\ Free(c)
  /\ UNCHANGED <<serverVars, pageVars, stray, historyVars, faults>>

\* The timer is stopped, and nothing but an open starts it again.
PollFailed(c) ==
  /\ Arrived(c, "poll")
  /\ stage[c] = "failed"
  /\ polling' = FALSE
  /\ Free(c)
  /\ UNCHANGED <<serverVars, sessionId, display, stray, historyVars, faults>>

InputDone(c) ==
  /\ Arrived(c, "input")
  /\ Free(c)
  /\ UNCHANGED <<serverVars, pageVars, stray, historyVars, faults>>

\* closeTerminal goes on whether or not the close has failed.
CloseDone(c) ==
  /\ Arrived(c, "close")
  /\ sessionId' = None
  /\ display' = reopen[c]
  /\ displaced' = Dropped(target[c])
  /\ IF reopen[c] THEN Put(c, "open", None, <<>>, FALSE) ELSE Free(c)
  /\ UNCHANGED <<serverVars, polling, stray, read, trimmed, shown, before, typed,
                 unheard, faults>>

-----------------------------------------------------------------------------
Click ==
  \/ \E c \in Calls : OpenTerminal(c) \/ Type(c)
  \/ \E c \in Calls, again \in BOOLEAN : CloseTerminal(c, again)
  \/ CloseNothing

Handle(c) == HandleOpen(c) \/ HandlePoll(c) \/ HandleInput(c) \/ HandleClose(c) \/ Refuse(c)

Done(c) == OpenDone(c) \/ PollAnswered(c) \/ PollFailed(c) \/ InputDone(c) \/ CloseDone(c)

Fault == (\E c \in Calls : GiveUp(c) \/ AnswerLost(c)) \/ StrayRuns \/ SessionLost \/ Reconnect

Next ==
  \/ Click
  \/ \E c \in Calls : Tick(c) \/ Handle(c) \/ Done(c)
  \/ \E x \in Shells : Read(x) \/ ProcessExits(x) \/ WatchProcess(x)
  \/ Fault

Spec == Init /\ [][Next]_vars

\* The timer ticks, what was submitted to the loop is run, its answer arrives.
PageFairness ==
  /\ WF_vars(\E c \in Calls : Tick(c))
  /\ \A c \in Calls : WF_vars(Handle(c)) /\ WF_vars(Done(c))
  /\ WF_vars(StrayRuns)

FairSpec == Spec /\ PageFairness

-----------------------------------------------------------------------------
(* Properties.                                                             *)

\* Request c is on its way to the page with output of shell x.
Carries(c, x) == kind[c] = "poll" /\ stage[c] = "answered" /\ target[c] = x

InFlight(x) == UNION {Range(data[c]) : c \in {b \in Calls : Carries(b, x)}}

Disjoint(S, T) == S \cap T = {}

\* A piece of output is put on the screen once at most, however polls overlap,
\* fail or are given up: it is in the buffer, in one answer or on the screen, and
\* never in two of these.  _terminal_poll (lines 467-468) copies and clears the
\* buffer without an await between.
ShownOnce ==
  \A x \in Shells :
    /\ IsInjective(shown[x])
    /\ Disjoint(Range(shown[x]), Range(buffer[x]))
    /\ \A c \in Calls : Carries(c, x) =>
         /\ IsInjective(data[c])
         /\ Disjoint(Range(data[c]), Range(shown[x]))
         /\ Disjoint(Range(data[c]), Range(buffer[x]))
         /\ \A b \in Calls \ {c} : Carries(b, x) => Disjoint(Range(data[c]), Range(data[b]))

\* "buffers têm limites de tamanho" (docs/ARCHITECTURE.md:45): a buffer is
\* bounded, and what it holds is the newest output without a gap, so that a poll
\* after a long silence shows the end of what happened.
BufferHoldsTheLatest ==
  \A x \in Shells :
    /\ Len(buffer[x]) <= MaxBuffer
    /\ \A i \in 1 .. Len(buffer[x]) : buffer[x][i] = read[x] - Len(buffer[x]) + i

\* What was on the screen when a poll was sent stands above, and is older than,
\* what that poll brings: setInterval (app.js:701) sends a poll before the last one
\* was answered, and only such polls, on their way together, come out of order.
ScreenInOrder ==
  \A x \in Shells : \A i, j \in DOMAIN shown[x] :
    shown[x][i] \in before[x][shown[x][j]] => i < j /\ shown[x][i] < shown[x][j]

\* A key is typed into the shell once at most, and nothing is typed that the user
\* did not type, whatever becomes of its request: it is on its way, in a coroutine
\* that nobody waits for, or received, and never in two of these.  The order of
\* keys is not kept: sendTerminalText (app.js:672) awaits nothing before it sends.
KeysArriveOnce ==
  \A x \in Shells :
    /\ IsInjective(received[x])
    /\ \A n \in Range(received[x]) :
         /\ n <= typed[x]
         /\ \A c \in Calls : Handled(c, "input") /\ target[c] = x => data[c] # <<n>>
         /\ \A s \in stray : s.kind = "input" /\ s.id = x => s.data # <<n>>

\* All that was read of shell x is shown, on its way, buffered or was cut.
Accounted(x) ==
  1 .. read[x] \subseteq Range(shown[x]) \cup InFlight(x) \cup Range(buffer[x]) \cup trimmed[x]

\* The timer is stopped, or a failed poll is about to stop it.
Stops == ~polling \/ \E c \in Calls : kind[c] = "poll" /\ stage[c] = "failed"

\* A terminal does not go on over a gap: output of the terminal on the screen that
\* is lost on its way (an answer lost, a poll given up) stops the timer
\* (app.js:724-727), so that nothing later is shown as if it followed.  A terminal
\* without a renderer, as a close that overlaps an open leaves it, shows nothing.
LossStopsPolling ==
  \A x \in Shells : sessionId = x /\ display => Accounted(x) \/ Stops

\* A shell that runs is the one the page shows, or one that a request on its way
\* opens or closes.  The exceptions are the two ways in which the code loses one:
\* its open was not answered, or the page dropped its id at an answer about
\* another terminal (app.js:613, 722 and 751).
EveryShellIsHeld ==
  \A x \in table : process[x] = "running" =>
    \/ sessionId = x
    \/ \E c \in Calls : kind[c] \in {"open", "close"} /\ target[c] = x
    \/ \E s \in stray : s.kind = "close" /\ s.id = x
    \/ x \in unheard \cup displaced

\* Output of a terminal that is polled is shown in the end, unless it is cut, the
\* terminal is closed, or a poll fails and stops the timer.
OutputIsShown ==
  \A x \in Shells, n \in 1 .. MaxPieces :
    sessionId = x /\ display /\ polling /\ n \in Range(buffer[x]) ~>
      n \in Range(shown[x]) \cup trimmed[x] \/ sessionId # x \/ ~polling

\* What is still to be shown, where the abstract channel keeps it.
Waiting(x) == Range(buffer[x]) \cup InFlight(x)

Channel == INSTANCE OutputChannel WITH
  MaxBatch <- MaxBuffer, waiting <- [x \in Shells |-> Waiting(x)], screen <- shown

\* The terminal implements OutputChannel: whatever becomes of polls, answers and
\* sessions, a piece waits from the moment it is read until it is put on the screen,
\* once and in a batch in order, or is lost for good.
ChannelSpec == Channel!Spec
-----------------------------------------------------------------------------
(* What the proofs of these properties rest on.                            *)

\* Output on its way, or on the screen, was read.
NothingInvented ==
  \A x \in Shells :
    /\ \A n \in Range(shown[x]) : n <= read[x]
    /\ \A c \in Calls : Carries(c, x) => \A n \in Range(data[c]) : n <= read[x]

\* An open whose answer, with session id x, is on its way to the page.
Opening(c, x) == kind[c] = "open" /\ stage[c] = "answered" /\ target[c] = x

\* Nothing names a shell before it is opened, and only its open until the answer
\* has arrived: until then no poll can take its output.
FreshShells ==
  \A x \in Shells : process[x] = "free" =>
    /\ read[x] = 0
    /\ sessionId # x
    /\ \A c \in Calls : target[c] # x
    /\ \A s \in stray : s.id # x

OpeningAlone ==
  \A c \in Calls, x \in Shells : Opening(c, x) =>
    /\ sessionId # x
    /\ \A b \in Calls \ {c} : target[b] # x
    /\ \A s \in stray : s.id # x

OpeningAccounted == \A c \in Calls, x \in Shells : Opening(c, x) => Accounted(x)

\* A poll that is still to run for nobody has stopped the timer.
StrayPollsStop ==
  \A s \in stray, x \in Shells : s.kind = "poll" /\ s.id = x /\ sessionId = x => Stops
=============================================================================
