--------------------------- MODULE TerminalProofs ---------------------------
(***************************************************************************)
(* Theorems about Terminal, for any number of shells and requests, any     *)
(* buffer and any number of faults.                                        *)
(***************************************************************************)
EXTENDS Terminal, TLAPS

USE DEF vars, serverVars, pageVars, callVars, historyVars

-----------------------------------------------------------------------------
(* Sequences.                                                              *)

\* The elements of a concatenation.
LEMMA ConcatRange ==
  ASSUME NEW s \in Seq(Nat), NEW t \in Seq(Nat)
  PROVE  Range(s \o t) = Range(s) \cup Range(t)
<1>1. /\ DOMAIN s = 1 .. Len(s) /\ DOMAIN t = 1 .. Len(t)
      /\ DOMAIN (s \o t) = 1 .. Len(s) + Len(t)
      /\ Len(s) \in Nat /\ Len(t) \in Nat
  OBVIOUS
<1>2. \A i \in 1 .. Len(s) + Len(t) :
        (s \o t)[i] = IF i <= Len(s) THEN s[i] ELSE t[i - Len(s)]
  OBVIOUS
<1>3. ASSUME NEW n \in Range(s \o t) PROVE n \in Range(s) \cup Range(t)
  BY <1>1, <1>2 DEF Range
<1>4. ASSUME NEW n \in Range(s) PROVE n \in Range(s \o t)
  BY <1>1, <1>2 DEF Range
<1>5. ASSUME NEW n \in Range(t) PROVE n \in Range(s \o t)
  <2>1. PICK i \in 1 .. Len(t) : t[i] = n
    BY <1>1 DEF Range
  <2>2. Len(s) + i \in 1 .. Len(s) + Len(t) /\ (s \o t)[Len(s) + i] = n
    BY <1>1, <1>2, <2>1
  <2>3. QED BY <1>1, <2>2 DEF Range
<1>6. QED BY <1>3, <1>4, <1>5

\* The concatenation of two sequences without a common element.
LEMMA ConcatInjective ==
  ASSUME NEW s \in Seq(Nat), NEW t \in Seq(Nat), IsInjective(s), IsInjective(t),
         Disjoint(Range(s), Range(t))
  PROVE  IsInjective(s \o t)
<1>1. /\ DOMAIN s = 1 .. Len(s) /\ DOMAIN t = 1 .. Len(t)
      /\ DOMAIN (s \o t) = 1 .. Len(s) + Len(t)
      /\ Len(s) \in Nat /\ Len(t) \in Nat
  OBVIOUS
<1>2. \A i \in 1 .. Len(s) + Len(t) :
        (s \o t)[i] = IF i <= Len(s) THEN s[i] ELSE t[i - Len(s)]
  OBVIOUS
<1>3. \A i \in 1 .. Len(s), j \in 1 .. Len(t) : s[i] # t[j]
  BY <1>1 DEF Disjoint, Range
<1>4. SUFFICES ASSUME NEW i \in 1 .. Len(s) + Len(t), NEW j \in 1 .. Len(s) + Len(t),
                      (s \o t)[i] = (s \o t)[j]
               PROVE  i = j
  BY <1>1 DEF IsInjective
<1>5. CASE i <= Len(s) /\ j <= Len(s)
  <2>1. i \in 1 .. Len(s) /\ j \in 1 .. Len(s) /\ s[i] = s[j]
    BY <1>1, <1>2, <1>4, <1>5
  <2>2. QED BY <1>1, <2>1 DEF IsInjective
<1>6. CASE i > Len(s) /\ j > Len(s)
  <2>1. i - Len(s) \in 1 .. Len(t) /\ j - Len(s) \in 1 .. Len(t)
    BY <1>1, <1>6
  <2>2. t[i - Len(s)] = t[j - Len(s)]
    BY <1>1, <1>2, <1>4, <1>6
  <2>3. i - Len(s) = j - Len(s)
    BY <1>1, <2>1, <2>2 DEF IsInjective
  <2>4. QED BY <1>1, <2>3
<1>7. CASE i <= Len(s) /\ j > Len(s)
  BY <1>1, <1>2, <1>3, <1>4, <1>7
<1>8. CASE i > Len(s) /\ j <= Len(s)
  BY <1>1, <1>2, <1>3, <1>4, <1>8
<1>9. QED BY <1>1, <1>5, <1>6, <1>7, <1>8

\* The end of a sequence.
LEMMA EndOfSequence ==
  ASSUME NEW s \in Seq(Nat), NEW m \in 1 .. Len(s)
  PROVE  /\ SubSeq(s, m, Len(s)) \in Seq(Nat)
         /\ Len(SubSeq(s, m, Len(s))) = Len(s) - m + 1
         /\ \A i \in 1 .. Len(s) - m + 1 : SubSeq(s, m, Len(s))[i] = s[m + i - 1]
OBVIOUS

\* The empty sequence.
LEMMA EmptySequence == Range(<<>>) = {} /\ IsInjective(<<>>)
BY DEF Range, IsInjective

-----------------------------------------------------------------------------
(* Types.                                                                  *)

\* Sending a request, or freeing its slot.
LEMMA PutTypes ==
  ASSUME TypeOK, NEW c \in Calls, NEW k \in Kinds \cup {"free"}, NEW x \in Shells \cup {None},
         NEW d \in Seq(Nat), NEW again \in BOOLEAN, Put(c, k, x, d, again),
         k \in {"poll", "input", "close"} => x \in Shells
  PROVE  CallTypeOK'
<1>1. k = "poll" => Range(shown[x]) \subseteq Nat
  BY DEF TypeOK, HistoryTypeOK, Range
<1>2. base' \in [Calls -> SUBSET Nat]
  BY <1>1 DEF Put, TypeOK, CallTypeOK
<1>3. QED
  BY <1>2 DEF Put, TypeOK, CallTypeOK, Stages

LEMMA FreeTypes ==
  ASSUME TypeOK, NEW c \in Calls, Free(c)
  PROVE  CallTypeOK'
<1>1. <<>> \in Seq(Nat)
  OBVIOUS
<1>2. QED BY <1>1, PutTypes DEF Free

\* Answering a request.
LEMMA AnswerTypes ==
  ASSUME TypeOK, NEW c \in Calls, NEW x \in Shells \cup {None}, NEW d \in Seq(Nat),
         NEW e \in BOOLEAN, Answer(c, x, d, e), kind[c] # "free" => x \in Shells
  PROVE  CallTypeOK' /\ PageTypeOK' /\ HistoryTypeOK' /\ stray' = stray
BY DEF Answer, TypeOK, CallTypeOK, PageTypeOK, HistoryTypeOK, Stages

\* The tables of the server after each coroutine.
LEMMA CoroutineTypes ==
  ASSUME TypeOK, NEW x \in Shells \cup {None}, NEW d \in Seq(Nat),
         stray' \subseteq stray,
         (x \in Shells /\ Open(x)) \/ Poll(x) \/ Input(x, d) \/ Close(x) \/ UNCHANGED serverVars
  PROVE  ServerTypeOK'
<1>1. <<>> \in Seq(Nat)
  OBVIOUS
<1>2. CASE x \in Shells /\ Open(x)
  BY <1>2 DEF Open, TypeOK, ServerTypeOK
<1>3. CASE Poll(x)
  BY <1>1, <1>3 DEF Poll, Emptied, TypeOK, ServerTypeOK
<1>4. CASE Input(x, d)
  <2>1. x \in Shells
    BY <1>4 DEF Input, IsClosed, TypeOK, ServerTypeOK
  <2>2. received[x] \o d \in Seq(Nat)
    BY <2>1 DEF TypeOK, ServerTypeOK
  <2>3. QED BY <1>4, <2>1, <2>2 DEF Input, TypeOK, ServerTypeOK
<1>5. CASE Close(x)
  BY <1>5 DEF Close, TypeOK, ServerTypeOK
<1>6. CASE UNCHANGED serverVars
  BY <1>6 DEF TypeOK, ServerTypeOK
<1>7. QED BY <1>2, <1>3, <1>4, <1>5, <1>6

\* What the page sends.
LEMMA ClickTypes == TypeOK /\ (Click \/ \E c \in Calls : Tick(c)) => TypeOK'
<1> SUFFICES ASSUME TypeOK, Click \/ \E c \in Calls : Tick(c) PROVE TypeOK'
  OBVIOUS
<1> USE DEF Kinds
<1>0. <<>> \in Seq(Nat)
  OBVIOUS
<1>1. ASSUME NEW c \in Calls, OpenTerminal(c) PROVE TypeOK'
  <2>1. CallTypeOK'
    BY <1>0, <1>1, PutTypes DEF OpenTerminal
  <2>2. QED BY <1>1, <2>1 DEF OpenTerminal, TypeOK, ServerTypeOK, PageTypeOK, HistoryTypeOK
<1>2. ASSUME NEW c \in Calls, NEW again \in BOOLEAN, CloseTerminal(c, again) PROVE TypeOK'
  <2>1. CallTypeOK'
    BY <1>0, <1>2, PutTypes DEF CloseTerminal, TypeOK, PageTypeOK
  <2>2. QED BY <1>2, <2>1 DEF CloseTerminal, TypeOK, ServerTypeOK, PageTypeOK, HistoryTypeOK
<1>3. CASE CloseNothing
  BY <1>3 DEF CloseNothing, TypeOK, ServerTypeOK, PageTypeOK, CallTypeOK, HistoryTypeOK
<1>4. ASSUME NEW c \in Calls, Tick(c) PROVE TypeOK'
  <2>1. CallTypeOK'
    BY <1>0, <1>4, PutTypes DEF Tick, TypeOK, PageTypeOK
  <2>2. QED BY <1>4, <2>1 DEF Tick, TypeOK, ServerTypeOK, PageTypeOK, HistoryTypeOK
<1>5. ASSUME NEW c \in Calls, Type(c) PROVE TypeOK'
  <2>1. sessionId \in Shells /\ typed[sessionId] \in 0 .. MaxKeys /\ MaxKeys \in Nat
    BY <1>5, ConstantsAssumption DEF Type, TypeOK, PageTypeOK, HistoryTypeOK
  <2>2. <<typed[sessionId] + 1>> \in Seq(Nat)
    BY <2>1
  <2>3. CallTypeOK'
    BY <1>5, <2>1, <2>2, PutTypes DEF Type
  <2>4. HistoryTypeOK'
    BY <1>5, <2>1 DEF Type, TypeOK, HistoryTypeOK
  <2>5. QED BY <1>5, <2>3, <2>4 DEF Type, TypeOK, ServerTypeOK, PageTypeOK
<1>6. QED BY <1>1, <1>2, <1>3, <1>4, <1>5 DEF Click

\* What the loop runs.
LEMMA HandleTypes == TypeOK /\ (\E c \in Calls : Handle(c)) => TypeOK'
<1> SUFFICES ASSUME TypeOK, NEW c \in Calls, Handle(c) PROVE TypeOK'
  OBVIOUS
<1>0. <<>> \in Seq(Nat)
  OBVIOUS
<1>1. ASSUME HandleOpen(c) PROVE TypeOK'
  <2>1. PICK x \in Shells : Open(x) /\ Answer(c, x, <<>>, FALSE)
    BY <1>1 DEF HandleOpen
  <2>2. CallTypeOK' /\ PageTypeOK' /\ HistoryTypeOK' /\ stray' = stray
    BY <1>0, <2>1, AnswerTypes
  <2>3. QED BY <1>0, <2>1, <2>2, CoroutineTypes DEF TypeOK
<1>2. ASSUME HandlePoll(c) PROVE TypeOK'
  <2> DEFINE x == target[c]
  <2>1. x \in Shells
    BY <1>2 DEF HandlePoll, Handled, TypeOK, CallTypeOK
  <2>2. Output(x) \in Seq(Nat) /\ IsClosed(x) \in BOOLEAN
    BY <1>0 DEF Output, IsClosed, TypeOK, ServerTypeOK
  <2>3. Poll(x) /\ Answer(c, x, Output(x), IsClosed(x))
    BY <1>2 DEF HandlePoll
  <2>4. CallTypeOK' /\ PageTypeOK' /\ HistoryTypeOK' /\ stray' = stray
    BY <2>1, <2>2, <2>3, AnswerTypes
  <2>5. QED BY <1>0, <2>1, <2>3, <2>4, CoroutineTypes DEF TypeOK
<1>3. ASSUME HandleInput(c) PROVE TypeOK'
  <2> DEFINE x == target[c]
  <2>1. x \in Shells /\ data[c] \in Seq(Nat)
    BY <1>3 DEF HandleInput, Handled, TypeOK, CallTypeOK
  <2>3. Input(x, data[c]) /\ Answer(c, x, data[c], FALSE)
    BY <1>3 DEF HandleInput
  <2>4. CallTypeOK' /\ PageTypeOK' /\ HistoryTypeOK' /\ stray' = stray
    BY <2>1, <2>3, AnswerTypes
  <2>5. QED BY <2>1, <2>3, <2>4, CoroutineTypes DEF TypeOK
<1>4. ASSUME HandleClose(c) PROVE TypeOK'
  <2> DEFINE x == target[c]
  <2>1. x \in Shells
    BY <1>4 DEF HandleClose, Handled, TypeOK, CallTypeOK
  <2>3. Close(x) /\ Answer(c, x, <<>>, FALSE)
    BY <1>4 DEF HandleClose
  <2>4. CallTypeOK' /\ PageTypeOK' /\ HistoryTypeOK' /\ stray' = stray
    BY <1>0, <2>1, <2>3, AnswerTypes
  <2>5. QED BY <1>0, <2>1, <2>3, <2>4, CoroutineTypes DEF TypeOK
<1>5. ASSUME Refuse(c) PROVE TypeOK'
  BY <1>5 DEF Refuse, TypeOK, ServerTypeOK, PageTypeOK, CallTypeOK, HistoryTypeOK, Stages
<1>6. QED BY <1>1, <1>2, <1>3, <1>4, <1>5 DEF Handle

\* What goes wrong.
LEMMA FaultTypes == TypeOK /\ Fault => TypeOK'
<1> SUFFICES ASSUME TypeOK, Fault PROVE TypeOK'
  OBVIOUS
<1> USE ConstantsAssumption
<1>0. <<>> \in Seq(Nat) /\ faults \in 0 .. MaxFaults
  BY DEF TypeOK, HistoryTypeOK
<1>1. ASSUME NEW c \in Calls, GiveUp(c) PROVE TypeOK'
  <2>1. [no |-> faults + 1, kind |-> kind[c], id |-> target[c], data |-> data[c]] \in Stray
    <3>1. kind[c] \in Kinds
      BY <1>1 DEF GiveUp, Handled
    <3>2. faults + 1 \in 1 .. MaxFaults
      BY <1>0, <1>1 DEF GiveUp
    <3>3. QED BY <3>1, <3>2 DEF Stray, TypeOK, CallTypeOK
  <2>2. ServerTypeOK'
    BY <1>1, <2>1 DEF GiveUp, TypeOK, ServerTypeOK
  <2>3. CallTypeOK'
    BY <1>1 DEF GiveUp, TypeOK, CallTypeOK, Stages
  <2>4. PageTypeOK' /\ HistoryTypeOK'
    BY <1>0, <1>1 DEF GiveUp, TypeOK, PageTypeOK, HistoryTypeOK
  <2>5. QED BY <2>2, <2>3, <2>4 DEF TypeOK
<1>2. ASSUME NEW c \in Calls, AnswerLost(c) PROVE TypeOK'
  <2>1. ServerTypeOK' /\ PageTypeOK'
    BY <1>2 DEF AnswerLost, TypeOK, ServerTypeOK, PageTypeOK
  <2>2. CallTypeOK'
    BY <1>0, <1>2 DEF AnswerLost, TypeOK, CallTypeOK, Stages
  <2>3. HistoryTypeOK'
    <3>1. unheard' \subseteq Shells
      BY <1>2 DEF AnswerLost, TypeOK, CallTypeOK, HistoryTypeOK
    <3>2. QED BY <1>0, <1>2, <3>1 DEF AnswerLost, TypeOK, HistoryTypeOK
  <2>4. QED BY <2>1, <2>2, <2>3 DEF TypeOK
<1>3. CASE StrayRuns
  <2>1. PICK s \in stray :
          /\ stray' = stray \ {s}
          /\ \/ \E x \in Shells : Open(x) /\ unheard' = unheard \cup {x}
             \/ Poll(s.id) /\ UNCHANGED unheard
             \/ Input(s.id, s.data) /\ UNCHANGED unheard
             \/ Close(s.id) /\ UNCHANGED unheard
             \/ UNCHANGED <<serverVars, unheard>>
          /\ UNCHANGED <<pageVars, callVars, read, trimmed, shown, before, typed,
                         displaced, faults>>
    BY <1>3 DEF StrayRuns
  <2>2. s.id \in Shells \cup {None} /\ s.data \in Seq(Nat)
    BY <2>1 DEF TypeOK, ServerTypeOK, Stray
  <2>3. ServerTypeOK'
    <3>1. stray' \subseteq stray
      BY <2>1
    <3>2. ASSUME NEW x \in Shells, Open(x) PROVE ServerTypeOK'
      BY <1>0, <3>1, <3>2, CoroutineTypes
    <3>3. CASE Poll(s.id) \/ Input(s.id, s.data) \/ Close(s.id) \/ UNCHANGED serverVars
      BY <2>2, <3>1, <3>3, CoroutineTypes
    <3>4. QED BY <2>1, <3>2, <3>3
  <2>4. unheard' \subseteq Shells
    BY <2>1 DEF TypeOK, HistoryTypeOK
  <2>5. QED BY <2>1, <2>3, <2>4 DEF TypeOK, PageTypeOK, CallTypeOK, HistoryTypeOK
<1>4. CASE SessionLost
  <2>1. process' \in [Shells -> {"free", "running", "ended"}]
    BY <1>4 DEF SessionLost, TypeOK, ServerTypeOK
  <2>2. faults' \in 0 .. MaxFaults
    BY <1>0, <1>4 DEF SessionLost
  <2>3. QED BY <1>4, <2>1, <2>2
            DEF SessionLost, TypeOK, ServerTypeOK, PageTypeOK, CallTypeOK, HistoryTypeOK
<1>5. CASE Reconnect
  BY <1>5 DEF Reconnect, TypeOK, ServerTypeOK, PageTypeOK, CallTypeOK, HistoryTypeOK
<1>6. QED BY <1>1, <1>2, <1>3, <1>4, <1>5 DEF Fault

\* What reaches the page.
LEMMA DoneTypes == TypeOK /\ (\E c \in Calls : Done(c)) => TypeOK'
<1> SUFFICES ASSUME TypeOK, NEW c \in Calls, Done(c) PROVE TypeOK'
  OBVIOUS
<1>0. <<>> \in Seq(Nat)
  OBVIOUS
<1>1. CASE OpenDone(c)
  <2>1. CallTypeOK'
    BY <1>1, FreeTypes DEF OpenDone
  <2>2. PageTypeOK'
    BY <1>1 DEF OpenDone, StartPolling, TypeOK, PageTypeOK, CallTypeOK
  <2>3. displaced' \subseteq Shells
    BY <1>1 DEF OpenDone, Dropped, TypeOK, PageTypeOK, HistoryTypeOK
  <2>4. QED BY <1>1, <2>1, <2>2, <2>3 DEF OpenDone, TypeOK, ServerTypeOK, HistoryTypeOK
<1>2. CASE PollAnswered(c)
  <2>1. CallTypeOK'
    BY <1>2, FreeTypes DEF PollAnswered
  <2>2. PageTypeOK'
    BY <1>2 DEF PollAnswered, TypeOK, PageTypeOK
  <2>3. target[c] \in Shells => Written(c) \in Seq(Nat)
    BY DEF Written, TypeOK, CallTypeOK, HistoryTypeOK
  <2>4. shown' \in [Shells -> Seq(Nat)]
    BY <1>2, <2>3 DEF PollAnswered, Shows, TypeOK, HistoryTypeOK
  <2>5. base[c] \in SUBSET Nat
    BY DEF TypeOK, CallTypeOK
  <2>6. before' \in [Shells -> [0 .. MaxPieces -> SUBSET Nat]]
    <3> DEFINE new == [n \in 0 .. MaxPieces |->
                        IF n \in Range(data[c]) THEN base[c] ELSE before[target[c]][n]]
    <3>1. target[c] \in Shells
      BY <1>2 DEF PollAnswered, Arrived, TypeOK, CallTypeOK
    <3>2. new \in [0 .. MaxPieces -> SUBSET Nat]
      BY <2>5, <3>1 DEF TypeOK, HistoryTypeOK
    <3>3. before' = before \/ before' = [before EXCEPT ![target[c]] = new]
      BY <1>2 DEF PollAnswered, Shows
    <3> HIDE DEF new
    <3>4. QED BY <3>1, <3>2, <3>3 DEF TypeOK, HistoryTypeOK
  <2>7. displaced' \subseteq Shells
    BY <1>2 DEF PollAnswered, Dropped, TypeOK, PageTypeOK, HistoryTypeOK
  <2>8. QED
    BY <1>2, <2>1, <2>2, <2>4, <2>6, <2>7
       DEF PollAnswered, TypeOK, ServerTypeOK, HistoryTypeOK
<1>3. CASE PollFailed(c)
  <2>1. CallTypeOK'
    BY <1>3, FreeTypes DEF PollFailed
  <2>2. QED BY <1>3, <2>1 DEF PollFailed, TypeOK, ServerTypeOK, PageTypeOK, HistoryTypeOK
<1>4. CASE InputDone(c)
  <2>1. CallTypeOK'
    BY <1>4, FreeTypes DEF InputDone
  <2>2. QED BY <1>4, <2>1 DEF InputDone, TypeOK, ServerTypeOK, PageTypeOK, HistoryTypeOK
<1>5. CASE CloseDone(c)
  <2>1. CallTypeOK'
    BY <1>0, <1>5, FreeTypes, PutTypes DEF CloseDone, Kinds
  <2>2. PageTypeOK'
    BY <1>5 DEF CloseDone, TypeOK, PageTypeOK, CallTypeOK
  <2>3. displaced' \subseteq Shells
    BY <1>5 DEF CloseDone, Dropped, TypeOK, PageTypeOK, HistoryTypeOK
  <2>4. QED BY <1>5, <2>1, <2>2, <2>3 DEF CloseDone, TypeOK, ServerTypeOK, HistoryTypeOK
<1>6. QED BY <1>1, <1>2, <1>3, <1>4, <1>5 DEF Done

\* The readers and the shells.
LEMMA ShellTypes ==
  TypeOK /\ (\E x \in Shells : Read(x) \/ ProcessExits(x) \/ WatchProcess(x)) => TypeOK'
<1> SUFFICES ASSUME TypeOK, NEW x \in Shells, Read(x) \/ ProcessExits(x) \/ WatchProcess(x)
             PROVE  TypeOK'
  OBVIOUS
<1>1. CASE Read(x)
  <2> DEFINE full == Append(buffer[x], read[x] + 1)
  <2>1. buffer[x] \in Seq(Nat) /\ read[x] \in Nat
    BY ConstantsAssumption DEF TypeOK, ServerTypeOK, HistoryTypeOK
  <2>2. full \in Seq(Nat) /\ Len(full) \in Nat
    BY <2>1
  <2> HIDE DEF full
  <2>3. CutFront(full) \in Seq(Nat)
    <3>1. Len(full) > MaxBuffer => Len(full) - MaxBuffer + 1 \in 1 .. Len(full)
      BY <2>2, ConstantsAssumption
    <3>2. QED BY <2>2, <3>1, EndOfSequence DEF CutFront
  <2>4. Range(full) \subseteq Nat
    BY <2>2 DEF Range
  <2>5. ServerTypeOK'
    BY <1>1, <2>3 DEF Read, full, TypeOK, ServerTypeOK
  <2>6. HistoryTypeOK'
    <3>1. read' \in [Shells -> 0 .. MaxPieces]
      BY <1>1, ConstantsAssumption DEF Read, TypeOK, HistoryTypeOK
    <3>2. trimmed' \in [Shells -> SUBSET Nat]
      BY <1>1, <2>4 DEF Read, full, TypeOK, HistoryTypeOK
    <3>3. QED BY <1>1, <3>1, <3>2 DEF Read, TypeOK, HistoryTypeOK
  <2>7. QED BY <1>1, <2>5, <2>6 DEF Read, TypeOK, PageTypeOK, CallTypeOK
<1>2. CASE ProcessExits(x)
  BY <1>2 DEF ProcessExits, TypeOK, ServerTypeOK, PageTypeOK, CallTypeOK, HistoryTypeOK
<1>3. CASE WatchProcess(x)
  BY <1>3 DEF WatchProcess, TypeOK, ServerTypeOK, PageTypeOK, CallTypeOK, HistoryTypeOK
<1>4. QED BY <1>1, <1>2, <1>3

LEMMA TypeInit == Init => TypeOK
<1>1. <<>> \in Seq(Nat)
  OBVIOUS
<1>2. SUFFICES ASSUME Init PROVE TypeOK
  OBVIOUS
<1>3. ServerTypeOK
  BY <1>1, <1>2 DEF Init, ServerTypeOK
<1>4. PageTypeOK
  BY <1>2 DEF Init, PageTypeOK
<1>5. CallTypeOK
  BY <1>1, <1>2 DEF Init, CallTypeOK, Stages
<1>6. HistoryTypeOK
  BY <1>1, <1>2, ConstantsAssumption DEF Init, HistoryTypeOK
<1>7. QED BY <1>3, <1>4, <1>5, <1>6 DEF TypeOK

LEMMA TypeStep == TypeOK /\ [Next]_vars => TypeOK'
<1> SUFFICES ASSUME TypeOK, [Next]_vars PROVE TypeOK'
  OBVIOUS
<1>1. CASE UNCHANGED vars
  BY <1>1 DEF TypeOK, ServerTypeOK, PageTypeOK, CallTypeOK, HistoryTypeOK
<1>2. QED BY <1>1, ClickTypes, HandleTypes, FaultTypes, DoneTypes, ShellTypes DEF Next

\* Every variable keeps its type: in particular a request that polls, types or
\* closes always names a shell that was opened.
THEOREM TypeCorrect == Spec => []TypeOK
BY TypeInit, TypeStep, PTL DEF Spec

-----------------------------------------------------------------------------
(* Output is shown once.                                                   *)

\* Where a piece of output can be, and what a buffer holds.
OnceInv == BufferHoldsTheLatest /\ ShownOnce /\ NothingInvented

\* The pieces in a buffer.
LEMMA BufferRange ==
  ASSUME TypeOK, BufferHoldsTheLatest, NEW x \in Shells
  PROVE  /\ IsInjective(buffer[x])
         /\ \A n \in Range(buffer[x]) : n \in Nat /\ n <= read[x]
<1>1. buffer[x] \in Seq(Nat) /\ read[x] \in Nat
  BY ConstantsAssumption DEF TypeOK, ServerTypeOK, HistoryTypeOK
<1>2. Len(buffer[x]) \in Nat /\ DOMAIN buffer[x] = 1 .. Len(buffer[x])
  BY <1>1
<1>3. \A i \in 1 .. Len(buffer[x]) : buffer[x][i] = read[x] - Len(buffer[x]) + i
  BY DEF BufferHoldsTheLatest
<1>4. IsInjective(buffer[x])
  BY <1>1, <1>2, <1>3 DEF IsInjective
<1>5. \A n \in Range(buffer[x]) : n \in Nat /\ n <= read[x]
  BY <1>1, <1>2, <1>3 DEF Range
<1>6. QED BY <1>4, <1>5

\* A step that shows and reads nothing, and only drops output, keeps OnceInv.
LEMMA OnlyDrops ==
  ASSUME TypeOK, OnceInv,
         shown' = shown, read' = read,
         \A x \in Shells : buffer'[x] \in {buffer[x], <<>>},
         \A x \in Shells, c \in Calls : Carries(c, x)' => Carries(c, x) /\ data'[c] = data[c]
  PROVE  OnceInv'
<1>1. BufferHoldsTheLatest'
  <2>1. Len(<<>>) = 0 /\ \A x \in Shells : Len(buffer[x]) \in Nat
    BY DEF TypeOK, ServerTypeOK
  <2>2. SUFFICES ASSUME NEW x \in Shells
                 PROVE  /\ Len(buffer'[x]) <= MaxBuffer
                        /\ \A i \in 1 .. Len(buffer'[x]) :
                             buffer'[x][i] = read[x] - Len(buffer'[x]) + i
    BY DEF BufferHoldsTheLatest
  <2>3. CASE buffer'[x] = buffer[x]
    BY <2>3 DEF OnceInv, BufferHoldsTheLatest
  <2>4. CASE buffer'[x] = <<>>
    BY <2>1, <2>4, ConstantsAssumption
  <2>5. QED BY <2>3, <2>4
<1>2. ShownOnce'
  <2>1. \A x \in Shells : Range(buffer'[x]) \subseteq Range(buffer[x])
    BY EmptySequence
  <2>2. QED BY <2>1 DEF OnceInv, ShownOnce, Disjoint
<1>3. NothingInvented'
  BY DEF OnceInv, NothingInvented
<1>4. QED BY <1>1, <1>2, <1>3 DEF OnceInv

\* A poll moves the buffer into its answer.
LEMMA PollMoves ==
  ASSUME TypeOK, OnceInv, TypeOK', NEW c \in Calls, HandlePoll(c)
  PROVE  OnceInv'
<1> DEFINE y == target[c]
<1>1. /\ y \in Shells
      /\ kind[c] = "poll" /\ stage[c] = "sent"
  BY DEF HandlePoll, Handled, TypeOK, CallTypeOK
<1>2. /\ buffer' = Emptied(y)
      /\ data' = [data EXCEPT ![c] = Output(y)]
      /\ stage' = [stage EXCEPT ![c] = "answered"]
      /\ target' = [target EXCEPT ![c] = y]
      /\ kind' = kind /\ shown' = shown /\ read' = read
  BY DEF HandlePoll, Poll, Answer
<1>3. /\ data'[c] = Output(y)
      /\ \A b \in Calls \ {c} : data'[b] = data[b]
      /\ \A b \in Calls \ {c} : stage'[b] = stage[b] /\ target'[b] = target[b]
      /\ target'[c] = y
  BY <1>2 DEF TypeOK, CallTypeOK
<1>4. /\ \A x \in Shells, b \in Calls \ {c} : Carries(b, x)' <=> Carries(b, x)
      /\ \A x \in Shells : Carries(c, x)' => x = y
  BY <1>2, <1>3 DEF Carries
<1>5. /\ \A x \in Shells \ {y} : buffer'[x] = buffer[x]
      /\ Range(buffer'[y]) \cap Range(Output(y)) = {}
      /\ Range(Output(y)) \subseteq Range(buffer[y])
      /\ Range(buffer'[y]) \subseteq Range(buffer[y])
      /\ buffer'[y] \in {buffer[y], <<>>}
      /\ Output(y) \in {buffer[y], <<>>}
  BY <1>1, <1>2, EmptySequence DEF Emptied, Output, TypeOK, ServerTypeOK
<1>6. BufferHoldsTheLatest'
  <2>1. Len(<<>>) = 0
    OBVIOUS
  <2>2. SUFFICES ASSUME NEW x \in Shells
                 PROVE  /\ Len(buffer'[x]) <= MaxBuffer
                        /\ \A i \in 1 .. Len(buffer'[x]) :
                             buffer'[x][i] = read[x] - Len(buffer'[x]) + i
    BY <1>2 DEF BufferHoldsTheLatest
  <2>3. CASE buffer'[x] = buffer[x]
    BY <2>3 DEF OnceInv, BufferHoldsTheLatest
  <2>4. CASE buffer'[x] = <<>>
    BY <2>1, <2>4, ConstantsAssumption
  <2>5. QED BY <1>1, <1>5, <2>3, <2>4
<1>7. ShownOnce'
  <2>1. IsInjective(Output(y))
    BY <1>1, <1>5, EmptySequence, BufferRange DEF OnceInv
  <2>2. SUFFICES ASSUME NEW x \in Shells
                 PROVE  /\ IsInjective(shown[x])
                        /\ Disjoint(Range(shown[x]), Range(buffer'[x]))
                        /\ \A a \in Calls : Carries(a, x)' =>
                             /\ IsInjective(data'[a])
                             /\ Disjoint(Range(data'[a]), Range(shown[x]))
                             /\ Disjoint(Range(data'[a]), Range(buffer'[x]))
                             /\ \A b \in Calls \ {a} : Carries(b, x)' =>
                                  Disjoint(Range(data'[a]), Range(data'[b]))
    BY <1>2 DEF ShownOnce
  <2>3. Range(buffer'[x]) \subseteq Range(buffer[x])
    BY <1>1, <1>5
  <2>4. IsInjective(shown[x]) /\ Disjoint(Range(shown[x]), Range(buffer'[x]))
    BY <2>3 DEF OnceInv, ShownOnce, Disjoint
  <2>5. ASSUME NEW a \in Calls, Carries(a, x)'
        PROVE  /\ IsInjective(data'[a])
               /\ Disjoint(Range(data'[a]), Range(shown[x]))
               /\ Disjoint(Range(data'[a]), Range(buffer'[x]))
    <3>1. CASE a = c
      BY <1>3, <1>4, <1>5, <2>1, <2>5, <3>1 DEF OnceInv, ShownOnce, Disjoint
    <3>2. CASE a # c
      <4>1. Carries(a, x) /\ data'[a] = data[a]
        BY <1>3, <1>4, <2>5, <3>2
      <4>2. QED BY <2>3, <4>1 DEF OnceInv, ShownOnce, Disjoint
    <3>3. QED BY <3>1, <3>2
  <2>6. ASSUME NEW a \in Calls, NEW b \in Calls \ {a}, Carries(a, x)', Carries(b, x)'
        PROVE  Disjoint(Range(data'[a]), Range(data'[b]))
    <3>1. CASE a # c /\ b # c
      BY <1>3, <1>4, <2>6, <3>1 DEF OnceInv, ShownOnce
    <3>2. CASE a = c
      <4>1. Carries(b, y) /\ data'[b] = data[b] /\ x = y
        BY <1>3, <1>4, <2>6, <3>2
      <4>2. QED BY <1>3, <1>5, <3>2, <4>1 DEF OnceInv, ShownOnce, Disjoint
    <3>3. CASE b = c
      <4>1. Carries(a, y) /\ data'[a] = data[a] /\ x = y
        BY <1>3, <1>4, <2>6, <3>3
      <4>2. QED BY <1>3, <1>5, <3>3, <4>1 DEF OnceInv, ShownOnce, Disjoint
    <3>4. QED BY <3>1, <3>2, <3>3
  <2>7. QED BY <2>4, <2>5, <2>6
<1>8. NothingInvented'
  <2>1. \A n \in Range(Output(y)) : n <= read[y]
    BY <1>1, <1>5, BufferRange DEF OnceInv
  <2>2. QED BY <1>2, <1>3, <1>4, <2>1 DEF OnceInv, NothingInvented
<1>9. QED BY <1>6, <1>7, <1>8 DEF OnceInv

\* What is left of a full buffer is its newest end.
LEMMA CutKeepsTheEnd ==
  ASSUME NEW r \in Nat, NEW s \in Seq(Nat), Len(s) <= MaxBuffer,
         \A i \in 1 .. Len(s) : s[i] = r - Len(s) + i,
         NEW t, t = CutFront(Append(s, r + 1))
  PROVE  /\ Len(t) <= MaxBuffer
         /\ \A i \in 1 .. Len(t) : t[i] = r + 1 - Len(t) + i
         /\ Range(t) \subseteq Range(s) \cup {r + 1}
<1> DEFINE full == Append(s, r + 1)
<1> USE ConstantsAssumption
<1>1. /\ full \in Seq(Nat) /\ Len(full) = Len(s) + 1 /\ Len(s) \in Nat
      /\ \A i \in 1 .. Len(full) : full[i] = IF i <= Len(s) THEN s[i] ELSE r + 1
      /\ DOMAIN s = 1 .. Len(s)
  OBVIOUS
<1>2. \A i \in 1 .. Len(full) : full[i] = r + 1 - Len(full) + i
  BY <1>1
<1>3. ASSUME NEW i \in 1 .. Len(full) PROVE full[i] \in Range(s) \cup {r + 1}
  <2>1. CASE i <= Len(s)
    <3>1. i \in DOMAIN s /\ full[i] = s[i]
      BY <1>1, <2>1
    <3>2. QED BY <3>1 DEF Range
  <2>2. CASE ~(i <= Len(s))
    BY <1>1, <2>2
  <2>3. QED BY <2>1, <2>2
<1> HIDE DEF full
<1>4. CASE Len(full) <= MaxBuffer
  <2>1. t = full
    BY <1>1, <1>4 DEF CutFront, full
  <2>2. DOMAIN full = 1 .. Len(full)
    BY <1>1
  <2>3. Range(t) \subseteq Range(s) \cup {r + 1}
    BY <1>3, <2>1, <2>2 DEF Range
  <2>4. QED BY <1>2, <1>4, <2>1, <2>3
<1>5. CASE Len(full) > MaxBuffer
  <2> DEFINE m == Len(full) - MaxBuffer + 1
  <2>1. /\ m \in 1 .. Len(full) /\ Len(full) - m + 1 = MaxBuffer
        /\ \A i \in 1 .. MaxBuffer : m + i - 1 \in 1 .. Len(full)
        /\ \A i \in 1 .. MaxBuffer : r + 1 - Len(full) + (m + i - 1) = r + 1 - MaxBuffer + i
    BY <1>1, <1>5
  <2>2. t = SubSeq(full, m, Len(full))
    BY <1>5 DEF CutFront, full
  <2> HIDE DEF m
  <2>3. /\ SubSeq(full, m, Len(full)) \in Seq(Nat)
        /\ Len(SubSeq(full, m, Len(full))) = Len(full) - m + 1
        /\ \A i \in 1 .. Len(full) - m + 1 : SubSeq(full, m, Len(full))[i] = full[m + i - 1]
    BY <1>1, <2>1, EndOfSequence
  <2>4. t \in Seq(Nat) /\ Len(t) = MaxBuffer
    BY <2>1, <2>2, <2>3
  <2>5. \A i \in 1 .. MaxBuffer : t[i] = full[m + i - 1]
    BY <2>1, <2>2, <2>3
  <2>6. \A i \in 1 .. MaxBuffer : t[i] = r + 1 - MaxBuffer + i
    BY <1>2, <2>1, <2>5
  <2>7. Range(t) \subseteq Range(s) \cup {r + 1}
    <3>1. DOMAIN t = 1 .. MaxBuffer
      BY <2>4
    <3>2. \A i \in 1 .. MaxBuffer : t[i] \in Range(s) \cup {r + 1}
      BY <1>3, <2>1, <2>5
    <3>3. ASSUME NEW n \in Range(t) PROVE n \in Range(s) \cup {r + 1}
      <4>1. PICK i \in DOMAIN t : n = t[i]
        BY DEF Range
      <4>2. QED BY <3>1, <3>2, <4>1
    <3>4. QED BY <3>3
  <2>8. Len(t) <= MaxBuffer
    BY <2>4, ConstantsAssumption
  <2>9. \A i \in 1 .. Len(t) : t[i] = r + 1 - Len(t) + i
    BY <2>4, <2>6
  <2>10. QED BY <2>7, <2>8, <2>9
<1>6. QED BY <1>1, <1>4, <1>5

\* A piece that is read is new.
LEMMA ReadAdds ==
  ASSUME TypeOK, OnceInv, NEW y \in Shells, Read(y)
  PROVE  OnceInv'
<1> DEFINE t == CutFront(Append(buffer[y], read[y] + 1))
<1>1. /\ buffer' = [buffer EXCEPT ![y] = t]
      /\ read' = [read EXCEPT ![y] = @ + 1]
      /\ shown' = shown /\ data' = data /\ kind' = kind /\ stage' = stage /\ target' = target
  BY DEF Read
<1>2. /\ buffer'[y] = t
      /\ \A x \in Shells \ {y} : buffer'[x] = buffer[x] /\ read'[x] = read[x]
      /\ read'[y] = read[y] + 1
  BY <1>1 DEF TypeOK, ServerTypeOK, HistoryTypeOK
<1>3. /\ \A x \in Shells : read[x] \in Nat
      /\ buffer[y] \in Seq(Nat)
  BY ConstantsAssumption DEF TypeOK, ServerTypeOK, HistoryTypeOK
<1> HIDE DEF t
<1>4. /\ Len(t) <= MaxBuffer
      /\ \A i \in 1 .. Len(t) : t[i] = read[y] + 1 - Len(t) + i
      /\ Range(t) \subseteq Range(buffer[y]) \cup {read[y] + 1}
  BY <1>3, CutKeepsTheEnd DEF OnceInv, BufferHoldsTheLatest, t
<1>5. \A x \in Shells, c \in Calls : Carries(c, x)' <=> Carries(c, x)
  BY <1>1 DEF Carries
<1>6. BufferHoldsTheLatest'
  <2>1. SUFFICES ASSUME NEW x \in Shells
                 PROVE  /\ Len(buffer'[x]) <= MaxBuffer
                        /\ \A i \in 1 .. Len(buffer'[x]) :
                             buffer'[x][i] = read'[x] - Len(buffer'[x]) + i
    BY DEF BufferHoldsTheLatest
  <2>2. CASE x = y
    <3>1. buffer'[x] = t /\ read'[x] = read[y] + 1
      BY <1>2, <2>2
    <3>2. QED BY <1>3, <1>4, <3>1
  <2>3. CASE x # y
    BY <1>2, <2>3 DEF OnceInv, BufferHoldsTheLatest
  <2>4. QED BY <2>2, <2>3
<1>7. ShownOnce'
  <2>1. \A x \in Shells : Range(buffer'[x]) \subseteq Range(buffer[x]) \cup {read[x] + 1}
    BY <1>2, <1>4
  <2>2. \A x \in Shells : \A n \in Range(shown[x]) : n # read[x] + 1
    <3>1. SUFFICES ASSUME NEW x \in Shells, NEW n \in Range(shown[x]), n = read[x] + 1
                   PROVE  FALSE
      OBVIOUS
    <3>2. n <= read[x]
      BY DEF OnceInv, NothingInvented
    <3>3. QED BY <1>3, <3>1, <3>2
  <2>3. \A x \in Shells, c \in Calls : Carries(c, x) => \A n \in Range(data[c]) : n # read[x] + 1
    <3>1. SUFFICES ASSUME NEW x \in Shells, NEW c \in Calls, Carries(c, x),
                          NEW n \in Range(data[c]), n = read[x] + 1
                   PROVE  FALSE
      OBVIOUS
    <3>2. n <= read[x]
      BY <3>1 DEF OnceInv, NothingInvented
    <3>3. QED BY <1>3, <3>1, <3>2
  <2>4. QED BY <1>1, <1>5, <2>1, <2>2, <2>3 DEF OnceInv, ShownOnce, Disjoint
<1>8. NothingInvented'
  <2>1. ASSUME NEW x \in Shells, NEW n \in Nat, n <= read[x] PROVE n <= read'[x]
    BY <1>2, <1>3, <2>1
  <2>2. /\ \A x \in Shells : Range(shown[x]) \subseteq Nat
        /\ \A c \in Calls : Range(data[c]) \subseteq Nat
    BY DEF TypeOK, CallTypeOK, HistoryTypeOK, Range
  <2>3. QED BY <1>1, <1>5, <2>1, <2>2 DEF OnceInv, NothingInvented
<1>9. QED BY <1>6, <1>7, <1>8 DEF OnceInv

\* The slot of a request that is freed, or sent anew, carries no output.
LEMMA PutCarries ==
  ASSUME TypeOK, NEW c \in Calls, NEW k, NEW z, NEW d, NEW again, Put(c, k, z, d, again)
  PROVE  /\ \A x \in Shells : ~Carries(c, x)'
         /\ \A x \in Shells, b \in Calls \ {c} :
              (Carries(b, x)' <=> Carries(b, x)) /\ data'[b] = data[b]
<1>1. /\ stage'[c] = "sent"
      /\ \A b \in Calls \ {c} :
           kind'[b] = kind[b] /\ stage'[b] = stage[b] /\ target'[b] = target[b] /\ data'[b] = data[b]
  BY DEF Put, TypeOK, CallTypeOK
<1>2. QED BY <1>1 DEF Carries

\* An answer that arrives is put behind what is on the screen.
LEMMA AnswerShows ==
  ASSUME TypeOK, OnceInv, NEW c \in Calls, PollAnswered(c)
  PROVE  OnceInv'
<1>1. PICK y \in Shells : y = target[c] /\ Carries(c, y)
  BY DEF PollAnswered, Arrived, Carries, TypeOK, CallTypeOK
<1>2. /\ shown' = IF display THEN [shown EXCEPT ![y] = shown[y] \o data[c]] ELSE shown
      /\ buffer' = buffer /\ read' = read
      /\ Free(c)
  BY <1>1 DEF PollAnswered, Shows, Written
<1>3. /\ \A x \in Shells : ~Carries(c, x)'
      /\ \A x \in Shells, b \in Calls \ {c} :
           (Carries(b, x)' <=> Carries(b, x)) /\ data'[b] = data[b]
  BY <1>2, PutCarries DEF Free
<1>4. CASE ~display
  <2>1. shown' = shown
    BY <1>2, <1>4
  <2>2. QED BY <1>2, <1>3, <2>1, OnlyDrops
<1>5. CASE display
  <2>1. /\ shown'[y] = shown[y] \o data[c]
        /\ \A x \in Shells \ {y} : shown'[x] = shown[x]
    BY <1>1, <1>2, <1>5 DEF TypeOK, HistoryTypeOK
  <2>2. shown[y] \in Seq(Nat) /\ data[c] \in Seq(Nat)
    BY <1>1 DEF TypeOK, CallTypeOK, HistoryTypeOK
  <2>3. Range(shown'[y]) = Range(shown[y]) \cup Range(data[c])
    BY <2>1, <2>2, ConcatRange
  <2>4. IsInjective(shown'[y])
    <3>1. IsInjective(shown[y]) /\ IsInjective(data[c])
          /\ Disjoint(Range(data[c]), Range(shown[y]))
      BY <1>1 DEF OnceInv, ShownOnce
    <3>2. Disjoint(Range(shown[y]), Range(data[c]))
      BY <3>1 DEF Disjoint
    <3>3. QED BY <2>1, <2>2, <3>1, <3>2, ConcatInjective
  <2>5. BufferHoldsTheLatest'
    BY <1>2 DEF OnceInv, BufferHoldsTheLatest
  <2>6. ShownOnce'
    <3>1. SUFFICES ASSUME NEW x \in Shells
                   PROVE  /\ IsInjective(shown'[x])
                          /\ Disjoint(Range(shown'[x]), Range(buffer[x]))
                          /\ \A a \in Calls : Carries(a, x)' =>
                               /\ IsInjective(data'[a])
                               /\ Disjoint(Range(data'[a]), Range(shown'[x]))
                               /\ Disjoint(Range(data'[a]), Range(buffer[x]))
                               /\ \A b \in Calls \ {a} : Carries(b, x)' =>
                                    Disjoint(Range(data'[a]), Range(data'[b]))
      BY <1>2 DEF ShownOnce
    <3>2. CASE x # y
      BY <1>3, <2>1, <3>2 DEF OnceInv, ShownOnce
    <3>3. CASE x = y
      <4>1. Disjoint(Range(shown'[y]), Range(buffer[y]))
        BY <1>1, <2>3 DEF OnceInv, ShownOnce, Disjoint
      <4>2. ASSUME NEW a \in Calls, Carries(a, y)'
            PROVE  /\ IsInjective(data'[a])
                   /\ Disjoint(Range(data'[a]), Range(shown'[y]))
                   /\ Disjoint(Range(data'[a]), Range(buffer[y]))
        <5>1. a # c /\ Carries(a, y) /\ data'[a] = data[a]
          BY <1>1, <1>3, <4>2
        <5>2. Disjoint(Range(data[a]), Range(data[c]))
          BY <1>1, <5>1 DEF OnceInv, ShownOnce
        <5>3. QED BY <1>1, <2>3, <5>1, <5>2 DEF OnceInv, ShownOnce, Disjoint
      <4>3. ASSUME NEW a \in Calls, NEW b \in Calls \ {a}, Carries(a, y)', Carries(b, y)'
            PROVE  Disjoint(Range(data'[a]), Range(data'[b]))
        <5>1. a # c /\ b # c /\ Carries(a, y) /\ Carries(b, y)
              /\ data'[a] = data[a] /\ data'[b] = data[b]
          BY <1>1, <1>3, <4>3
        <5>2. QED BY <1>1, <5>1 DEF OnceInv, ShownOnce
      <4>4. QED BY <2>4, <3>3, <4>1, <4>2, <4>3
    <3>4. QED BY <3>2, <3>3
  <2>7. NothingInvented'
    <3>1. \A n \in Range(shown'[y]) : n <= read[y]
      BY <1>1, <2>3 DEF OnceInv, NothingInvented
    <3>2. \A x \in Shells : \A n \in Range(shown'[x]) : n <= read[x]
      BY <1>1, <2>1, <3>1 DEF OnceInv, NothingInvented
    <3>3. QED BY <1>2, <1>3, <3>2 DEF OnceInv, NothingInvented
  <2>8. QED BY <2>5, <2>6, <2>7 DEF OnceInv
<1>6. QED BY <1>4, <1>5 DEF TypeOK, PageTypeOK

\* Sending a request, or freeing a slot, with the buffers untouched.
LEMMA PutDrops ==
  ASSUME TypeOK, OnceInv, NEW c \in Calls, NEW k, NEW z, NEW d, NEW again,
         Put(c, k, z, d, again), UNCHANGED <<serverVars, read, shown>>
  PROVE  OnceInv'
<1>1. \A x \in Shells, b \in Calls : Carries(b, x)' => Carries(b, x) /\ data'[b] = data[b]
  BY PutCarries
<1>2. QED BY <1>1, OnlyDrops

\* Requests untouched, and buffers that at most one poll has emptied.
LEMMA QuietDrops ==
  ASSUME TypeOK, OnceInv, UNCHANGED <<callVars, read, shown>>,
         \A x \in Shells : buffer'[x] \in {buffer[x], <<>>}
  PROVE  OnceInv'
<1>1. \A x \in Shells, b \in Calls : Carries(b, x)' => Carries(b, x) /\ data'[b] = data[b]
  BY DEF Carries
<1>2. QED BY <1>1, OnlyDrops

\* A request whose answer carries no output.
LEMMA StageDrops ==
  ASSUME TypeOK, OnceInv, NEW c \in Calls, UNCHANGED <<kind, buffer, read, shown>>,
         \A b \in Calls \ {c} : stage'[b] = stage[b] /\ target'[b] = target[b] /\ data'[b] = data[b],
         kind[c] # "poll" \/ stage'[c] = "failed"
  PROVE  OnceInv'
<1>1. \A x \in Shells, b \in Calls : Carries(b, x)' => Carries(b, x) /\ data'[b] = data[b]
  BY DEF Carries
<1>2. QED BY <1>1, OnlyDrops

LEMMA OnceStep == TypeOK /\ TypeOK' /\ OnceInv /\ [Next]_vars => OnceInv'
<1> SUFFICES ASSUME TypeOK, TypeOK', OnceInv, [Next]_vars PROVE OnceInv'
  OBVIOUS
<1>1. ASSUME NEW c \in Calls,
             \/ OpenTerminal(c) \/ Type(c) \/ Tick(c)
             \/ \E again \in BOOLEAN : CloseTerminal(c, again)
      PROVE  OnceInv'
  BY <1>1, PutDrops DEF OpenTerminal, Type, Tick, CloseTerminal
<1>2. CASE CloseNothing
  BY <1>2, QuietDrops DEF CloseNothing
<1>3. ASSUME NEW c \in Calls, Handle(c) PROVE OnceInv'
  <2>1. CASE HandlePoll(c)
    BY <2>1, PollMoves
  <2>2. ASSUME NEW x, NEW d, Answer(c, x, d, FALSE), kind[c] # "poll", buffer' = buffer
        PROVE  OnceInv'
    BY <2>2, StageDrops DEF Answer, TypeOK, CallTypeOK
  <2>3. CASE HandleOpen(c) \/ HandleInput(c) \/ HandleClose(c)
    BY <2>2, <2>3 DEF HandleOpen, HandleInput, HandleClose, Handled, Open, Input, Close
  <2>4. CASE Refuse(c)
    BY <2>4, StageDrops DEF Refuse, TypeOK, CallTypeOK
  <2>5. QED BY <1>3, <2>1, <2>3, <2>4 DEF Handle
<1>4. ASSUME NEW c \in Calls, Done(c) PROVE OnceInv'
  <2>1. CASE PollAnswered(c)
    BY <2>1, AnswerShows
  <2>2. CASE OpenDone(c) \/ PollFailed(c) \/ InputDone(c)
    BY <2>2, PutDrops DEF OpenDone, PollFailed, InputDone, Free
  <2>3. CASE CloseDone(c)
    BY <2>3, PutDrops DEF CloseDone, Free
  <2>4. QED BY <1>4, <2>1, <2>2, <2>3 DEF Done
<1>5. ASSUME NEW x \in Shells, Read(x) \/ ProcessExits(x) \/ WatchProcess(x) PROVE OnceInv'
  <2>1. CASE Read(x)
    BY <2>1, ReadAdds
  <2>2. CASE ProcessExits(x) \/ WatchProcess(x)
    BY <2>2, QuietDrops DEF ProcessExits, WatchProcess
  <2>3. QED BY <1>5, <2>1, <2>2
<1>6. CASE Fault
  <2>1. ASSUME NEW c \in Calls, GiveUp(c) PROVE OnceInv'
    BY <2>1, StageDrops DEF GiveUp, TypeOK, CallTypeOK
  <2>2. ASSUME NEW c \in Calls, AnswerLost(c) PROVE OnceInv'
    BY <2>2, StageDrops DEF AnswerLost, TypeOK, CallTypeOK
  <2>3. CASE StrayRuns
    <3>1. UNCHANGED <<callVars, read, shown>>
      BY <2>3 DEF StrayRuns
    <3>2. \A x \in Shells : buffer'[x] \in {buffer[x], <<>>}
      <4>1. ASSUME NEW y, Poll(y) PROVE \A x \in Shells : buffer'[x] \in {buffer[x], <<>>}
        BY <4>1 DEF Poll, Emptied, TypeOK, ServerTypeOK
      <4>2. buffer' = buffer \/ \E y : Poll(y)
        BY <2>3 DEF StrayRuns, Open, Input, Close
      <4>3. QED BY <4>1, <4>2
    <3>3. QED BY <3>1, <3>2, QuietDrops
  <2>4. CASE SessionLost \/ Reconnect
    BY <2>4, QuietDrops DEF SessionLost, Reconnect
  <2>5. QED BY <1>6, <2>1, <2>2, <2>3, <2>4 DEF Fault
<1>7. CASE UNCHANGED vars
  BY <1>7, QuietDrops
<1>8. QED BY <1>1, <1>2, <1>3, <1>4, <1>5, <1>6, <1>7 DEF Next, Click

LEMMA OnceInit == Init => OnceInv
<1> SUFFICES ASSUME Init PROVE OnceInv
  OBVIOUS
<1>1. /\ Len(<<>>) = 0
      /\ \A x \in Shells : buffer[x] = <<>> /\ shown[x] = <<>>
      /\ \A x \in Shells, c \in Calls : ~Carries(c, x)
  BY DEF Init, Carries
<1>2. BufferHoldsTheLatest
  BY <1>1, ConstantsAssumption DEF BufferHoldsTheLatest
<1>3. ShownOnce /\ NothingInvented
  BY <1>1, EmptySequence DEF ShownOnce, NothingInvented, Disjoint
<1>4. QED BY <1>2, <1>3 DEF OnceInv

\* Whatever overlaps, fails or is given up, no piece of output is shown twice.
THEOREM OutputShownOnce == Spec => []ShownOnce
<1>1. TypeOK /\ OnceInv /\ [Next]_vars => (TypeOK /\ OnceInv)'
  BY TypeStep, OnceStep
<1>2. OnceInv => ShownOnce
  BY DEF OnceInv
<1>3. QED BY TypeInit, OnceInit, <1>1, <1>2, PTL DEF Spec

\* A buffer is bounded and holds the newest output without a gap.
THEOREM BuffersHoldTheLatest == Spec => []BufferHoldsTheLatest
<1>1. TypeOK /\ OnceInv /\ [Next]_vars => (TypeOK /\ OnceInv)'
  BY TypeStep, OnceStep
<1>2. OnceInv => BufferHoldsTheLatest
  BY DEF OnceInv
<1>3. QED BY TypeInit, OnceInit, <1>1, <1>2, PTL DEF Spec

-----------------------------------------------------------------------------
(* Who names a shell.                                                      *)

NameInv == FreshShells /\ OpeningAlone

\* A step that opens no shell and completes no open names no new shell, or
\* names again the one that the page or a request has named before.
LEMMA NoNewNames ==
  ASSUME TypeOK, NameInv,
         \A x \in Shells : process'[x] = "free" => process[x] = "free" /\ read'[x] = read[x],
         sessionId' \in {sessionId, None},
         \A b \in Calls : target'[b] \in {target[b], None, sessionId},
         \A s \in stray' : s \in stray \/ \E b \in Calls : stage[b] = "sent" /\ s.id = target[b],
         \A b \in Calls, x \in Shells : Opening(b, x)' => Opening(b, x)
  PROVE  NameInv'
<1>1. None \notin Shells
  BY ConstantsAssumption
<1>2. FreshShells'
  <2>1. SUFFICES ASSUME NEW x \in Shells, process'[x] = "free"
                 PROVE  /\ read'[x] = 0
                        /\ sessionId' # x
                        /\ \A c \in Calls : target'[c] # x
                        /\ \A s \in stray' : s.id # x
    BY DEF FreshShells
  <2>2. /\ read[x] = 0 /\ read'[x] = read[x]
        /\ sessionId # x
        /\ \A c \in Calls : target[c] # x
        /\ \A s \in stray : s.id # x
    BY <2>1 DEF NameInv, FreshShells
  <2>3. QED BY <1>1, <2>2
<1>3. OpeningAlone'
  <2>1. SUFFICES ASSUME NEW c \in Calls, NEW x \in Shells, Opening(c, x)'
                 PROVE  /\ sessionId' # x
                        /\ \A b \in Calls \ {c} : target'[b] # x
                        /\ \A s \in stray' : s.id # x
    BY DEF OpeningAlone
  <2>2. /\ sessionId # x
        /\ \A b \in Calls \ {c} : target[b] # x
        /\ \A s \in stray : s.id # x
        /\ stage[c] = "answered"
    BY <2>1 DEF NameInv, OpeningAlone, Opening
  <2>3. \A b \in Calls : stage[b] = "sent" => target[b] # x
    BY <2>2
  <2>4. QED BY <1>1, <2>2, <2>3
<1>4. QED BY <1>2, <1>3 DEF NameInv

\* A request that is sent, or a slot that is freed.
LEMMA PutNames ==
  ASSUME TypeOK, NameInv, NEW c \in Calls, NEW k, NEW z \in {None, sessionId}, NEW d, NEW again,
         Put(c, k, z, d, again), UNCHANGED <<process, read, stray>>,
         sessionId' \in {sessionId, None}
  PROVE  NameInv'
<1>1. /\ stage'[c] = "sent" /\ target'[c] = z
      /\ \A b \in Calls \ {c} :
           kind'[b] = kind[b] /\ stage'[b] = stage[b] /\ target'[b] = target[b]
  BY DEF Put, TypeOK, CallTypeOK
<1>2. \A b \in Calls, x \in Shells : Opening(b, x)' => Opening(b, x)
  BY <1>1 DEF Opening
<1>3. QED BY <1>1, <1>2, NoNewNames

\* A request that is answered without a new name, or fails.
LEMMA StageNames ==
  ASSUME TypeOK, NameInv, NEW c \in Calls,
         \A x \in Shells : process'[x] = "free" => process[x] = "free",
         UNCHANGED <<kind, target, read, sessionId>>,
         \A b \in Calls \ {c} : stage'[b] = stage[b],
         kind[c] # "open" \/ stage'[c] = "failed",
         \A s \in stray' : s \in stray \/ \E b \in Calls : stage[b] = "sent" /\ s.id = target[b]
  PROVE  NameInv'
<1>1. \A b \in Calls, x \in Shells : Opening(b, x)' => Opening(b, x)
  BY DEF Opening
<1>2. QED BY <1>1, NoNewNames

\* Requests untouched.
LEMMA QuietNames ==
  ASSUME TypeOK, NameInv, UNCHANGED <<callVars, sessionId>>, stray' \subseteq stray,
         \A x \in Shells : process'[x] = "free" => process[x] = "free" /\ read'[x] = read[x]
  PROVE  NameInv'
<1>1. \A b \in Calls, x \in Shells : Opening(b, x)' => Opening(b, x)
  BY DEF Opening
<1>2. QED BY <1>1, NoNewNames

\* A shell is opened for a request, whose answer alone names it.
LEMMA OpenNames ==
  ASSUME TypeOK, NameInv, NEW c \in Calls, HandleOpen(c)
  PROVE  NameInv'
<1>1. PICK y \in Shells :
        /\ process[y] = "free" /\ process' = [process EXCEPT ![y] = "running"]
        /\ kind[c] = "open" /\ kind' = kind
        /\ stage' = [stage EXCEPT ![c] = "answered"]
        /\ target' = [target EXCEPT ![c] = y]
        /\ UNCHANGED <<sessionId, stray, read>>
  BY DEF HandleOpen, Handled, Open, Answer
<1>2. /\ process'[y] = "running"
      /\ \A x \in Shells \ {y} : process'[x] = process[x]
      /\ stage'[c] = "answered" /\ target'[c] = y
      /\ \A b \in Calls \ {c} : stage'[b] = stage[b] /\ target'[b] = target[b]
  BY <1>1 DEF TypeOK, ServerTypeOK, CallTypeOK
<1>3. /\ sessionId # y
      /\ \A b \in Calls : target[b] # y
      /\ \A s \in stray : s.id # y
  BY <1>1 DEF NameInv, FreshShells
<1>4. FreshShells'
  <2>1. SUFFICES ASSUME NEW x \in Shells, process'[x] = "free"
                 PROVE  /\ read'[x] = 0
                        /\ sessionId' # x
                        /\ \A b \in Calls : target'[b] # x
                        /\ \A s \in stray' : s.id # x
    BY DEF FreshShells
  <2>2. x # y /\ process[x] = "free"
    BY <1>2, <2>1
  <2>3. QED BY <1>1, <1>2, <2>2 DEF NameInv, FreshShells
<1>5. OpeningAlone'
  <2>1. SUFFICES ASSUME NEW b \in Calls, NEW x \in Shells, Opening(b, x)'
                 PROVE  /\ sessionId' # x
                        /\ \A a \in Calls \ {b} : target'[a] # x
                        /\ \A s \in stray' : s.id # x
    BY DEF OpeningAlone
  <2>2. CASE b = c
    <3>1. x = y
      BY <1>2, <2>1, <2>2 DEF Opening
    <3>2. QED BY <1>1, <1>2, <1>3, <2>2, <3>1
  <2>3. CASE b # c
    <3>1. Opening(b, x) /\ x # y
      BY <1>1, <1>2, <1>3, <2>1, <2>3 DEF Opening
    <3>2. QED BY <1>1, <1>2, <3>1 DEF NameInv, OpeningAlone
  <2>4. QED BY <2>2, <2>3
<1>6. QED BY <1>4, <1>5 DEF NameInv

\* The page takes the name out of the answer.
LEMMA OpenDoneNames ==
  ASSUME TypeOK, NameInv, NEW c \in Calls, OpenDone(c)
  PROVE  NameInv'
<1>1. Free(c) /\ UNCHANGED <<process, read, stray>>
  BY DEF OpenDone
<1>2. CASE sessionId' = sessionId
  BY <1>1, <1>2, PutNames DEF Free
<1>3. CASE sessionId' # sessionId
  <2>1. /\ sessionId' = target[c] /\ target[c] \in Shells /\ Opening(c, target[c])
    BY <1>3 DEF OpenDone, Arrived, Opening, TypeOK, CallTypeOK
  <2>2. PICK y \in Shells : y = target[c] /\ Opening(c, y) /\ sessionId' = y
    BY <2>1
  <2>3. /\ stage'[c] = "sent" /\ target'[c] = None
        /\ \A b \in Calls \ {c} :
             kind'[b] = kind[b] /\ stage'[b] = stage[b] /\ target'[b] = target[b]
    BY <1>1 DEF Free, Put, TypeOK, CallTypeOK
  <2>4. /\ \A b \in Calls \ {c} : target[b] # y
        /\ process[y] # "free"
    BY <2>2 DEF NameInv, OpeningAlone, FreshShells
  <2>5. FreshShells'
    BY <1>1, <2>2, <2>3, <2>4, ConstantsAssumption DEF NameInv, FreshShells
  <2>6. \A b \in Calls, x \in Shells : Opening(b, x)' => b # c /\ Opening(b, x) /\ x # y
    BY <2>2, <2>3, <2>4 DEF Opening
  <2>7. OpeningAlone'
    BY <1>1, <2>2, <2>3, <2>6, ConstantsAssumption DEF NameInv, OpeningAlone
  <2>8. QED BY <2>5, <2>7 DEF NameInv
<1>4. QED BY <1>2, <1>3

LEMMA NameStep ==
  ASSUME TypeOK, NameInv, [Next]_vars
  PROVE  NameInv'
<1>1. ASSUME NEW c \in Calls,
             \/ OpenTerminal(c) \/ Type(c) \/ Tick(c)
             \/ \E again \in BOOLEAN : CloseTerminal(c, again)
      PROVE  NameInv'
  BY <1>1, PutNames DEF OpenTerminal, Type, Tick, CloseTerminal
<1>2. CASE CloseNothing
  BY <1>2, QuietNames DEF CloseNothing
<1>3. ASSUME NEW c \in Calls, Handle(c) PROVE NameInv'
  <2>1. CASE HandleOpen(c)
    BY <2>1, OpenNames
  <2>2. ASSUME NEW d, NEW e, Answer(c, target[c], d, e), kind[c] # "open",
               \A x \in Shells : process'[x] = "free" => process[x] = "free"
        PROVE  NameInv'
    <3>1. /\ \A b \in Calls \ {c} : stage'[b] = stage[b]
          /\ UNCHANGED <<kind, target, read, sessionId, stray>>
      BY <2>2 DEF Answer, TypeOK, CallTypeOK
    <3>2. QED BY <2>2, <3>1, StageNames
  <2>3. CASE HandlePoll(c) \/ HandleInput(c)
    <3>1. kind[c] # "open" /\ process' = process
      BY <2>3 DEF HandlePoll, HandleInput, Handled, Poll, Input
    <3>2. QED BY <2>2, <2>3, <3>1 DEF HandlePoll, HandleInput
  <2>4. CASE HandleClose(c)
    <3>1. kind[c] # "open"
      BY <2>4 DEF HandleClose, Handled
    <3>2. \A x \in Shells : process'[x] = "free" => process[x] = "free"
      BY <2>4 DEF HandleClose, Close, TypeOK, ServerTypeOK
    <3>3. QED BY <2>2, <2>4, <3>1, <3>2 DEF HandleClose
  <2>5. CASE Refuse(c)
    BY <2>5, StageNames DEF Refuse, TypeOK, CallTypeOK
  <2>6. QED BY <1>3, <2>1, <2>3, <2>4, <2>5 DEF Handle
<1>4. ASSUME NEW c \in Calls, Done(c) PROVE NameInv'
  <2>1. CASE OpenDone(c)
    BY <2>1, OpenDoneNames
  <2>2. CASE PollAnswered(c) \/ PollFailed(c) \/ InputDone(c)
    BY <2>2, PutNames DEF PollAnswered, PollFailed, InputDone, Free
  <2>3. CASE CloseDone(c)
    BY <2>3, PutNames DEF CloseDone, Free
  <2>4. QED BY <1>4, <2>1, <2>2, <2>3 DEF Done
<1>5. ASSUME NEW y \in Shells, Read(y) \/ ProcessExits(y) \/ WatchProcess(y) PROVE NameInv'
  <2>1. /\ \A x \in Shells : process'[x] = "free" => process[x] = "free" /\ read'[x] = read[x]
        /\ UNCHANGED <<callVars, sessionId, stray>>
    BY <1>5 DEF Read, ProcessExits, WatchProcess, TypeOK, ServerTypeOK, HistoryTypeOK
  <2>2. QED BY <2>1, QuietNames
<1>6. CASE Fault
  <2>1. ASSUME NEW c \in Calls, GiveUp(c) PROVE NameInv'
    <3>1. \A s \in stray' : s \in stray \/ (stage[c] = "sent" /\ s.id = target[c])
      <4>1. stage[c] = "sent"
        BY <2>1 DEF GiveUp, Handled
      <4>2. \A s \in stray' : s \in stray \/ s.id = target[c]
        BY <2>1 DEF GiveUp
      <4>3. QED BY <4>1, <4>2
    <3>2. QED BY <2>1, <3>1, StageNames DEF GiveUp, TypeOK, CallTypeOK
  <2>2. ASSUME NEW c \in Calls, AnswerLost(c) PROVE NameInv'
    BY <2>2, StageNames DEF AnswerLost, TypeOK, CallTypeOK
  <2>3. CASE StrayRuns
    <3>1. UNCHANGED <<callVars, sessionId, read>> /\ stray' \subseteq stray
      BY <2>3 DEF StrayRuns
    <3>2. \A x \in Shells : process'[x] = "free" => process[x] = "free"
      <4>1. \/ \E y \in Shells : Open(y)
            \/ \E y : Close(y)
            \/ process' = process
        BY <2>3 DEF StrayRuns, Poll, Input
      <4>2. QED BY <4>1 DEF Open, Close, TypeOK, ServerTypeOK
    <3>3. QED BY <3>1, <3>2, QuietNames
  <2>4. CASE SessionLost \/ Reconnect
    <3>1. \A x \in Shells : process'[x] = "free" => process[x] = "free"
      BY <2>4 DEF SessionLost, Reconnect
    <3>2. QED BY <2>4, <3>1, QuietNames DEF SessionLost, Reconnect
  <2>5. QED BY <1>6, <2>1, <2>2, <2>3, <2>4 DEF Fault
<1>7. CASE UNCHANGED vars
  BY <1>7, QuietNames
<1>8. QED BY <1>1, <1>2, <1>3, <1>4, <1>5, <1>6, <1>7 DEF Next, Click

-----------------------------------------------------------------------------
(* What was read is accounted for.                                         *)

\* The page goes on with the terminal it has, and starts no timer.
PageKept == UNCHANGED <<sessionId, display>> /\ polling' \in {FALSE, polling}

AccountInv == OpeningAccounted /\ StrayPollsStop /\ LossStopsPolling

\* A step that gives no new terminal to the page, keeps the accounts of those it
\* has, and keeps the timer stopped.
LEMMA AccountsKept ==
  ASSUME AccountInv,
         \A x \in Shells, c \in Calls : Opening(c, x)' => Accounted(x)',
         \A x \in Shells : sessionId' = x =>
           /\ sessionId = x /\ display' = display
           /\ Stops => Stops'
           /\ Accounted(x) /\ display => Accounted(x)' \/ Stops',
         \A s \in stray', x \in Shells : s.kind = "poll" /\ s.id = x /\ sessionId' = x =>
           s \in stray \/ Stops'
  PROVE  AccountInv'
<1>1. OpeningAccounted'
  BY DEF OpeningAccounted
<1>2. StrayPollsStop'
  BY DEF AccountInv, StrayPollsStop
<1>3. LossStopsPolling'
  BY DEF AccountInv, LossStopsPolling
<1>4. QED BY <1>1, <1>2, <1>3 DEF AccountInv

\* The accounts of a shell whose output has not moved.
LEMMA AccountStays ==
  ASSUME NEW x \in Shells, Accounted(x), read'[x] = read[x], shown'[x] = shown[x],
         buffer'[x] = buffer[x], trimmed'[x] = trimmed[x],
         \A c \in Calls : Carries(c, x) => Carries(c, x)' /\ data'[c] = data[c]
  PROVE  Accounted(x)'
<1>1. InFlight(x) \subseteq InFlight(x)'
  BY DEF InFlight
<1>2. QED BY <1>1 DEF Accounted

\* A request is sent, or a slot without output or report is freed.
LEMMA PutAccounts ==
  ASSUME TypeOK, AccountInv, NEW c \in Calls, NEW k, NEW z, NEW d, NEW again,
         Put(c, k, z, d, again), kind[c] # "poll",
         UNCHANGED <<buffer, read, shown, trimmed, stray>>,
         sessionId' = None \/ PageKept
  PROVE  AccountInv'
<1>1. /\ stage'[c] = "sent"
      /\ \A b \in Calls \ {c} :
           kind'[b] = kind[b] /\ stage'[b] = stage[b] /\ target'[b] = target[b] /\ data'[b] = data[b]
  BY DEF Put, TypeOK, CallTypeOK
<1>2. \A x \in Shells : Accounted(x) => Accounted(x)'
  <2>1. \A x \in Shells, b \in Calls : Carries(b, x) => Carries(b, x)' /\ data'[b] = data[b]
    BY <1>1 DEF Carries
  <2>2. QED BY <2>1, AccountStays
<1>3. \A x \in Shells, b \in Calls : Opening(b, x)' => Opening(b, x)
  BY <1>1 DEF Opening
<1>4. \A x \in Shells, b \in Calls : Opening(b, x)' => Accounted(x)'
  BY <1>2, <1>3 DEF AccountInv, OpeningAccounted
<1>5. PageKept => (Stops => Stops')
  BY <1>1 DEF Stops, PageKept
<1>6. QED BY <1>2, <1>4, <1>5, AccountsKept, ConstantsAssumption DEF PageKept

\* A request is refused, or answered without output.
LEMMA StageAccounts ==
  ASSUME TypeOK, AccountInv, NEW c \in Calls, stage[c] = "sent",
         \A b \in Calls \ {c} : stage'[b] = stage[b] /\ target'[b] = target[b] /\ data'[b] = data[b],
         kind[c] # "open" \/ stage'[c] = "failed",
         UNCHANGED <<kind, buffer, read, shown, trimmed, pageVars>>,
         \A s \in stray' : s \in stray \/ (s.kind = "poll" => Stops')
  PROVE  AccountInv'
<1>1. \A x \in Shells : Accounted(x) => Accounted(x)'
  <2>1. \A x \in Shells, b \in Calls : Carries(b, x) => Carries(b, x)' /\ data'[b] = data[b]
    BY DEF Carries
  <2>2. QED BY <2>1, AccountStays
<1>2. \A x \in Shells, b \in Calls : Opening(b, x)' => Opening(b, x)
  BY DEF Opening
<1>3. \A x \in Shells, b \in Calls : Opening(b, x)' => Accounted(x)'
  BY <1>1, <1>2 DEF AccountInv, OpeningAccounted
<1>4. Stops => Stops'
  BY DEF Stops
<1>5. QED BY <1>1, <1>3, <1>4, AccountsKept

\* Requests and output are untouched.
LEMMA QuietAccounts ==
  ASSUME AccountInv, UNCHANGED <<callVars, buffer, read, shown, trimmed>>,
         stray' \subseteq stray,
         sessionId' = None \/ PageKept
  PROVE  AccountInv'
<1>1. \A x \in Shells : Accounted(x) => Accounted(x)'
  BY AccountStays DEF Carries
<1>2. \A x \in Shells, b \in Calls : Opening(b, x)' => Accounted(x)'
  BY <1>1 DEF AccountInv, OpeningAccounted, Opening
<1>3. PageKept => (Stops => Stops')
  BY DEF Stops, PageKept
<1>4. QED BY <1>1, <1>2, <1>3, AccountsKept, ConstantsAssumption DEF PageKept

\* A shell that has just been opened has written nothing.
LEMMA OpenAccounts ==
  ASSUME TypeOK, NameInv, AccountInv, NEW c \in Calls, HandleOpen(c)
  PROVE  AccountInv'
<1>1. PICK y \in Shells :
        /\ process[y] = "free"
        /\ kind[c] = "open" /\ stage[c] = "sent"
        /\ kind' = kind
        /\ stage' = [stage EXCEPT ![c] = "answered"]
        /\ target' = [target EXCEPT ![c] = y]
        /\ data' = [data EXCEPT ![c] = <<>>]
        /\ UNCHANGED <<buffer, read, shown, trimmed, pageVars, stray>>
  BY DEF HandleOpen, Handled, Open, Answer
<1>2. /\ \A b \in Calls \ {c} :
           stage'[b] = stage[b] /\ target'[b] = target[b] /\ data'[b] = data[b]
      /\ target'[c] = y
  BY <1>1 DEF TypeOK, CallTypeOK
<1>3. \A x \in Shells : Accounted(x) => Accounted(x)'
  <2>1. \A x \in Shells, b \in Calls : Carries(b, x) => Carries(b, x)' /\ data'[b] = data[b]
    BY <1>1, <1>2 DEF Carries
  <2>2. QED BY <1>1, <2>1, AccountStays
<1>4. Accounted(y)'
  <2>1. read'[y] = 0
    BY <1>1 DEF NameInv, FreshShells
  <2>2. QED BY <2>1 DEF Accounted
<1>5. \A x \in Shells, b \in Calls : Opening(b, x)' => Opening(b, x) \/ x = y
  BY <1>1, <1>2 DEF Opening
<1>6. \A x \in Shells, b \in Calls : Opening(b, x)' => Accounted(x)'
  BY <1>3, <1>4, <1>5 DEF AccountInv, OpeningAccounted
<1>7. Stops => Stops'
  BY <1>1, <1>2 DEF Stops
<1>8. QED BY <1>1, <1>3, <1>6, <1>7, AccountsKept

\* A poll moves output from the buffer to its answer.
LEMMA PollAccounts ==
  ASSUME TypeOK, AccountInv, NEW c \in Calls, HandlePoll(c)
  PROVE  AccountInv'
<1>1. PICK y \in Shells :
        /\ y = target[c]
        /\ kind[c] = "poll" /\ stage[c] = "sent"
        /\ buffer' = Emptied(y)
        /\ kind' = kind
        /\ stage' = [stage EXCEPT ![c] = "answered"]
        /\ target' = [target EXCEPT ![c] = y]
        /\ data' = [data EXCEPT ![c] = Output(y)]
        /\ UNCHANGED <<read, shown, trimmed, pageVars, stray>>
  BY DEF HandlePoll, Handled, Poll, Answer, TypeOK, CallTypeOK
<1>2. /\ \A b \in Calls \ {c} :
           stage'[b] = stage[b] /\ target'[b] = target[b] /\ data'[b] = data[b]
      /\ stage'[c] = "answered" /\ target'[c] = y /\ data'[c] = Output(y)
      /\ \A x \in Shells \ {y} : buffer'[x] = buffer[x]
      /\ Range(buffer[y]) \subseteq Range(buffer'[y]) \cup Range(Output(y))
  BY <1>1 DEF Emptied, Output, TypeOK, CallTypeOK, ServerTypeOK
<1>3. \A x \in Shells, b \in Calls : Carries(b, x) => Carries(b, x)' /\ data'[b] = data[b]
  BY <1>1, <1>2 DEF Carries
<1>4. ASSUME NEW x \in Shells, Accounted(x) PROVE Accounted(x)'
  <2>1. CASE x # y
    BY <1>1, <1>2, <1>3, <1>4, <2>1, AccountStays
  <2>2. CASE x = y
    <3>1. Carries(c, x)'
      BY <1>1, <1>2, <2>2 DEF Carries
    <3>2. Range(Output(y)) \subseteq InFlight(x)'
      BY <1>2, <3>1 DEF InFlight
    <3>3. InFlight(x) \subseteq InFlight(x)'
      BY <1>3 DEF InFlight
    <3>4. QED BY <1>1, <1>2, <1>4, <2>2, <3>2, <3>3 DEF Accounted
  <2>3. QED BY <2>1, <2>2
<1>5. \A x \in Shells, b \in Calls : Opening(b, x)' => Opening(b, x)
  BY <1>1, <1>2 DEF Opening
<1>6. \A x \in Shells, b \in Calls : Opening(b, x)' => Accounted(x)'
  BY <1>4, <1>5 DEF AccountInv, OpeningAccounted
<1>7. Stops => Stops'
  BY <1>1, <1>2 DEF Stops
<1>8. QED BY <1>1, <1>4, <1>6, <1>7, AccountsKept

\* A piece that is read is in the buffer, or cut from it.
LEMMA ReadAccounts ==
  ASSUME TypeOK, AccountInv, NEW y \in Shells, Read(y)
  PROVE  AccountInv'
<1> DEFINE full == Append(buffer[y], read[y] + 1)
<1>1. /\ read' = [read EXCEPT ![y] = @ + 1]
      /\ buffer' = [buffer EXCEPT ![y] = CutFront(full)]
      /\ trimmed' = [trimmed EXCEPT ![y] = @ \cup (Range(full) \ Range(CutFront(full)))]
      /\ UNCHANGED <<callVars, pageVars, shown, stray>>
  BY DEF Read
<1>2. buffer[y] \in Seq(Nat) /\ read[y] \in Nat
  BY ConstantsAssumption DEF TypeOK, ServerTypeOK, HistoryTypeOK
<1>3. Range(buffer[y]) \cup {read[y] + 1} \subseteq Range(full)
  <2>1. /\ DOMAIN buffer[y] = 1 .. Len(buffer[y]) /\ DOMAIN full = 1 .. Len(buffer[y]) + 1
        /\ Len(buffer[y]) \in Nat
        /\ \A i \in 1 .. Len(buffer[y]) : full[i] = buffer[y][i]
        /\ full[Len(buffer[y]) + 1] = read[y] + 1
    BY <1>2
  <2>2. ASSUME NEW i \in 1 .. Len(buffer[y]) PROVE buffer[y][i] \in Range(full)
    <3>1. i \in DOMAIN full /\ full[i] = buffer[y][i]
      BY <2>1
    <3>2. QED BY <3>1 DEF Range
  <2>3. Range(buffer[y]) \subseteq Range(full)
    BY <2>1, <2>2 DEF Range
  <2>4. read[y] + 1 \in Range(full)
    BY <2>1 DEF Range
  <2>5. QED BY <2>3, <2>4
<1> HIDE DEF full
<1>4. /\ read'[y] = read[y] + 1
      /\ Range(full) \cup trimmed[y] \subseteq Range(buffer'[y]) \cup trimmed'[y]
      /\ \A x \in Shells \ {y} :
           buffer'[x] = buffer[x] /\ read'[x] = read[x] /\ trimmed'[x] = trimmed[x]
  BY <1>1 DEF TypeOK, ServerTypeOK, HistoryTypeOK
<1>5. \A x \in Shells, b \in Calls : Carries(b, x) => Carries(b, x)' /\ data'[b] = data[b]
  BY <1>1 DEF Carries
<1>6. ASSUME NEW x \in Shells, Accounted(x) PROVE Accounted(x)'
  <2>1. CASE x # y
    BY <1>1, <1>4, <1>5, <1>6, <2>1, AccountStays
  <2>2. CASE x = y
    <3>1. InFlight(y) \subseteq InFlight(y)'
      BY <1>5 DEF InFlight
    <3>2. 1 .. read'[y] = (1 .. read[y]) \cup {read[y] + 1}
      BY <1>2, <1>4
    <3>3. QED BY <1>1, <1>3, <1>4, <1>6, <2>2, <3>1, <3>2 DEF Accounted
  <2>3. QED BY <2>1, <2>2
<1>7. \A x \in Shells, b \in Calls : Opening(b, x)' => Accounted(x)'
  BY <1>1, <1>6 DEF AccountInv, OpeningAccounted, Opening
<1>8. Stops => Stops'
  BY <1>1 DEF Stops
<1>9. QED BY <1>1, <1>6, <1>7, <1>8, AccountsKept

\* The page starts on a terminal whose output is all accounted for.
LEMMA OpenDoneAccounts ==
  ASSUME TypeOK, NameInv, AccountInv, NEW c \in Calls, OpenDone(c)
  PROVE  AccountInv'
<1>1. /\ Free(c) /\ kind[c] = "open"
      /\ UNCHANGED <<buffer, read, shown, trimmed, stray>>
  BY DEF OpenDone, Arrived
<1>2. CASE stage[c] # "answered"
  <2>1. PageKept
    BY <1>2 DEF OpenDone, PageKept
  <2>2. QED BY <1>1, <2>1, PutAccounts DEF PageKept, Free
<1>3. CASE stage[c] = "answered"
  <2>1. PICK y \in Shells : y = target[c] /\ Opening(c, y) /\ sessionId' = y
    BY <1>1, <1>3 DEF OpenDone, Opening, TypeOK, CallTypeOK
  <2>2. \A b \in Calls \ {c} :
          kind'[b] = kind[b] /\ stage'[b] = stage[b] /\ target'[b] = target[b] /\ data'[b] = data[b]
    BY <1>1 DEF Free, Put, TypeOK, CallTypeOK
  <2>3. /\ stage'[c] = "sent"
    BY <1>1 DEF Free, Put, TypeOK, CallTypeOK
  <2>4. \A x \in Shells : Accounted(x) => Accounted(x)'
    <3>1. \A x \in Shells, b \in Calls : Carries(b, x) => Carries(b, x)' /\ data'[b] = data[b]
      BY <1>1, <2>2 DEF Carries
    <3>2. QED BY <1>1, <3>1, AccountStays
  <2>5. OpeningAccounted'
    BY <2>2, <2>3, <2>4 DEF AccountInv, OpeningAccounted, Opening
  <2>6. LossStopsPolling'
    BY <2>1, <2>4 DEF AccountInv, OpeningAccounted, LossStopsPolling
  <2>7. StrayPollsStop'
    BY <1>1, <2>1 DEF NameInv, OpeningAlone, StrayPollsStop
  <2>8. QED BY <2>5, <2>6, <2>7 DEF AccountInv
<1>4. QED BY <1>2, <1>3

\* The answer of a poll is put on the screen of the terminal that is open.
LEMMA ShownAccounts ==
  ASSUME TypeOK, NameInv, AccountInv, NEW c \in Calls, PollAnswered(c)
  PROVE  AccountInv'
<1>1. PICK y \in Shells :
        /\ y = target[c]
        /\ kind[c] = "poll" /\ stage[c] = "answered"
        /\ shown' = IF display THEN [shown EXCEPT ![y] = shown[y] \o data[c]] ELSE shown
        /\ sessionId' = None \/ PageKept
        /\ Free(c)
        /\ UNCHANGED <<buffer, read, trimmed, stray>>
  <2>1. target[c] \in Shells /\ kind[c] = "poll" /\ stage[c] = "answered"
    BY DEF PollAnswered, Arrived, TypeOK, CallTypeOK
  <2>2. shown' = IF display THEN [shown EXCEPT ![target[c]] = shown[target[c]] \o data[c]]
                 ELSE shown
    BY DEF PollAnswered, Shows, Written
  <2>3. sessionId' = None \/ PageKept
    BY DEF PollAnswered, PageKept
  <2>4. QED BY <2>1, <2>2, <2>3 DEF PollAnswered
<1>2. /\ kind'[c] = "free"
      /\ \A b \in Calls \ {c} :
           kind'[b] = kind[b] /\ stage'[b] = stage[b] /\ target'[b] = target[b] /\ data'[b] = data[b]
  BY <1>1 DEF Free, Put, TypeOK, CallTypeOK
<1>3. shown[y] \in Seq(Nat) /\ data[c] \in Seq(Nat)
  BY DEF TypeOK, CallTypeOK, HistoryTypeOK
<1>4. \A x \in Shells : InFlight(x) \subseteq InFlight(x)' \cup (IF x = y THEN Range(data[c]) ELSE {})
  BY <1>1, <1>2 DEF InFlight, Carries
<1>5. ASSUME NEW x \in Shells, Accounted(x), display PROVE Accounted(x)'
  <2>1. CASE x # y
    BY <1>1, <1>4, <1>5, <2>1 DEF Accounted, TypeOK, HistoryTypeOK
  <2>2. CASE x = y
    <3>1. shown'[y] = shown[y] \o data[c]
      BY <1>1, <1>5 DEF TypeOK, HistoryTypeOK
    <3>2. Range(shown'[y]) = Range(shown[y]) \cup Range(data[c])
      BY <1>3, <3>1, ConcatRange
    <3>3. QED BY <1>1, <1>4, <1>5, <2>2, <3>2 DEF Accounted
  <2>3. QED BY <2>1, <2>2
<1>6. ASSUME NEW x \in Shells, NEW b \in Calls, Opening(b, x)' PROVE Accounted(x)'
  <2>1. Opening(b, x) /\ b # c
    BY <1>2, <1>6 DEF Opening
  <2>2. Accounted(x) /\ x # y
    BY <1>1, <2>1 DEF NameInv, OpeningAlone, AccountInv, OpeningAccounted
  <2>3. QED
    BY <1>1, <1>4, <2>2 DEF Accounted, TypeOK, HistoryTypeOK
<1>7. PageKept => (Stops => Stops')
  BY <1>1, <1>2 DEF Stops, PageKept
<1>8. QED
  BY <1>1, <1>5, <1>6, <1>7, AccountsKept, ConstantsAssumption DEF PageKept

\* A poll that has failed stops the timer.
LEMMA FailedAccounts ==
  ASSUME TypeOK, AccountInv, NEW c \in Calls, PollFailed(c)
  PROVE  AccountInv'
<1>1. /\ kind[c] = "poll" /\ stage[c] = "failed"
      /\ Free(c)
      /\ UNCHANGED <<buffer, read, shown, trimmed, stray, sessionId, display>>
      /\ Stops'
  BY DEF PollFailed, Arrived, Stops
<1>2. /\ kind'[c] = "free"
      /\ \A b \in Calls \ {c} :
           kind'[b] = kind[b] /\ stage'[b] = stage[b] /\ target'[b] = target[b] /\ data'[b] = data[b]
  BY <1>1 DEF Free, Put, TypeOK, CallTypeOK
<1>3. \A x \in Shells, b \in Calls : Carries(b, x) => Carries(b, x)' /\ data'[b] = data[b]
  BY <1>1, <1>2 DEF Carries
<1>4. \A x \in Shells : Accounted(x) => Accounted(x)'
  BY <1>1, <1>3, AccountStays
<1>5. \A x \in Shells, b \in Calls : Opening(b, x)' => Opening(b, x)
  BY <1>2 DEF Opening
<1>6. \A x \in Shells, b \in Calls : Opening(b, x)' => Accounted(x)'
  BY <1>4, <1>5 DEF AccountInv, OpeningAccounted
<1>7. QED BY <1>1, <1>6, AccountsKept

\* An answer that is lost was the answer of a poll, which then stops the timer, or it
\* held no output.
LEMMA LostAccounts ==
  ASSUME TypeOK, NameInv, AccountInv, NEW c \in Calls, AnswerLost(c)
  PROVE  AccountInv'
<1>1. /\ kind[c] # "free" /\ stage[c] = "answered"
      /\ stage' = [stage EXCEPT ![c] = "failed"]
      /\ data' = [data EXCEPT ![c] = <<>>]
      /\ UNCHANGED <<kind, target, buffer, read, shown, trimmed, stray, pageVars>>
  BY DEF AnswerLost
<1>2. /\ stage'[c] = "failed"
      /\ \A b \in Calls \ {c} : stage'[b] = stage[b] /\ data'[b] = data[b]
  BY <1>1 DEF TypeOK, CallTypeOK
<1>3. \A x \in Shells, b \in Calls :
        Carries(b, x) /\ b # c => Carries(b, x)' /\ data'[b] = data[b]
  BY <1>1, <1>2 DEF Carries
<1>4. \A x \in Shells : ~Carries(c, x) /\ Accounted(x) => Accounted(x)'
  BY <1>1, <1>3, AccountStays
<1>5. \A x \in Shells, b \in Calls : Opening(b, x)' => Opening(b, x) /\ b # c
  BY <1>1, <1>2 DEF Opening
<1>6. ASSUME NEW x \in Shells, NEW b \in Calls, Opening(b, x)' PROVE Accounted(x)'
  <2>1. Opening(b, x) /\ b # c
    BY <1>5, <1>6
  <2>2. Accounted(x) /\ target[c] # x
    BY <2>1 DEF NameInv, OpeningAlone, AccountInv, OpeningAccounted
  <2>3. QED BY <1>4, <2>2 DEF Carries
<1>7. \A x \in Shells : Carries(c, x) => Stops'
  BY <1>1, <1>2 DEF Carries, Stops
<1>8. Stops => Stops'
  BY <1>1, <1>2 DEF Stops
<1>9. QED BY <1>1, <1>4, <1>6, <1>7, <1>8, AccountsKept

\* A coroutine that nobody waits for takes output only of a terminal that is
\* not polled any more.
LEMMA StrayAccounts ==
  ASSUME TypeOK, NameInv, AccountInv, StrayRuns
  PROVE  AccountInv'
<1>1. PICK s \in stray :
        /\ stray' = stray \ {s}
        /\ buffer' = buffer \/ (s.kind = "poll" /\ buffer' = Emptied(s.id))
        /\ UNCHANGED <<callVars, read, shown, trimmed, pageVars>>
  BY DEF StrayRuns, Open, Poll, Input, Close
<1>2. \A x \in Shells : x # s.id => buffer'[x] = buffer[x]
  BY <1>1 DEF Emptied, TypeOK, ServerTypeOK
<1>3. \A x \in Shells : x # s.id \/ buffer' = buffer => (Accounted(x) => Accounted(x)')
  BY <1>1, <1>2, AccountStays DEF Carries
<1>4. Stops' <=> Stops
  BY <1>1 DEF Stops
<1>5. ASSUME NEW x \in Shells, NEW b \in Calls, Opening(b, x)' PROVE Accounted(x)'
  <2>1. Opening(b, x)
    BY <1>1, <1>5 DEF Opening
  <2>2. Accounted(x) /\ s.id # x
    BY <2>1 DEF NameInv, OpeningAlone, AccountInv, OpeningAccounted
  <2>3. QED BY <1>3, <2>2
<1>6. ASSUME NEW x \in Shells, sessionId' = x, Accounted(x) PROVE Accounted(x)' \/ Stops'
  <2>1. CASE x # s.id \/ buffer' = buffer
    BY <1>3, <1>6, <2>1
  <2>2. CASE s.kind = "poll" /\ x = s.id
    BY <1>1, <1>4, <1>6, <2>2 DEF AccountInv, StrayPollsStop
  <2>3. QED BY <1>1, <2>1, <2>2
<1>7. QED BY <1>1, <1>4, <1>5, <1>6, AccountsKept

LEMMA AccountStep ==
  ASSUME TypeOK, NameInv, AccountInv, [Next]_vars
  PROVE  AccountInv'
<1>1. ASSUME NEW c \in Calls,
             \/ OpenTerminal(c) \/ Type(c) \/ Tick(c)
             \/ \E again \in BOOLEAN : CloseTerminal(c, again)
      PROVE  AccountInv'
  <2>1. kind[c] = "free" /\ (sessionId' = None \/ PageKept)
    <3>1. CASE OpenTerminal(c)
      BY <3>1 DEF OpenTerminal
    <3>2. CASE Type(c) \/ Tick(c)
      BY <3>2 DEF PageKept, Type, Tick
    <3>3. ASSUME NEW again \in BOOLEAN, CloseTerminal(c, again)
          PROVE  kind[c] = "free" /\ PageKept
      BY <3>3 DEF PageKept, CloseTerminal
    <3>4. QED BY <1>1, <3>1, <3>2, <3>3
  <2>2. QED BY <1>1, <2>1, PutAccounts DEF OpenTerminal, Type, Tick, CloseTerminal
<1>2. CASE CloseNothing
  BY <1>2, QuietAccounts DEF PageKept, CloseNothing
<1>3. ASSUME NEW c \in Calls, Handle(c) PROVE AccountInv'
  <2>1. CASE HandleOpen(c)
    BY <2>1, OpenAccounts
  <2>2. CASE HandlePoll(c)
    BY <2>2, PollAccounts
  <2>3. CASE HandleInput(c) \/ HandleClose(c)
    <3>1. /\ kind[c] # "open" /\ stage[c] = "sent"
          /\ UNCHANGED <<kind, buffer, read, shown, trimmed, pageVars, stray>>
          /\ \A b \in Calls \ {c} :
               stage'[b] = stage[b] /\ target'[b] = target[b] /\ data'[b] = data[b]
      BY <2>3 DEF HandleInput, HandleClose, Handled, Input, Close, Answer, TypeOK, CallTypeOK
    <3>2. QED BY <3>1, StageAccounts
  <2>4. CASE Refuse(c)
    BY <2>4, StageAccounts DEF Refuse, Handled, TypeOK, CallTypeOK
  <2>5. QED BY <1>3, <2>1, <2>2, <2>3, <2>4 DEF Handle
<1>4. ASSUME NEW c \in Calls, Done(c) PROVE AccountInv'
  <2>1. CASE OpenDone(c)
    BY <2>1, OpenDoneAccounts
  <2>2. CASE PollAnswered(c)
    BY <2>2, ShownAccounts
  <2>3. CASE PollFailed(c)
    BY <2>3, FailedAccounts
  <2>4. CASE InputDone(c) \/ CloseDone(c)
    <3>1. kind[c] # "poll" /\ (sessionId' = None \/ PageKept)
      <4>1. CASE InputDone(c)
        BY <4>1 DEF PageKept, InputDone, Arrived
      <4>2. CASE CloseDone(c)
        BY <4>2 DEF CloseDone, Arrived
      <4>3. QED BY <2>4, <4>1, <4>2
    <3>2. CASE InputDone(c)
      BY <3>1, <3>2, PutAccounts DEF InputDone, Free
    <3>3. CASE CloseDone(c)
      BY <3>1, <3>3, PutAccounts DEF CloseDone, Free
    <3>4. QED BY <2>4, <3>2, <3>3
  <2>5. QED BY <1>4, <2>1, <2>2, <2>3, <2>4 DEF Done
<1>5. ASSUME NEW x \in Shells, Read(x) \/ ProcessExits(x) \/ WatchProcess(x) PROVE AccountInv'
  BY <1>5, ReadAccounts, QuietAccounts DEF PageKept, ProcessExits, WatchProcess
<1>6. CASE Fault
  <2>1. ASSUME NEW c \in Calls, GiveUp(c) PROVE AccountInv'
    <3>1. /\ stage[c] = "sent" /\ stage'[c] = "failed"
          /\ \A b \in Calls \ {c} :
               stage'[b] = stage[b] /\ target'[b] = target[b] /\ data'[b] = data[b]
          /\ UNCHANGED <<kind, buffer, read, shown, trimmed, pageVars>>
      BY <2>1 DEF GiveUp, Handled, TypeOK, CallTypeOK
    <3>2. \A s \in stray' : s \in stray \/ s.kind = kind[c]
      BY <2>1 DEF GiveUp
    <3>3. kind[c] = "poll" => Stops'
      BY <3>1 DEF Stops
    <3>4. QED BY <3>1, <3>2, <3>3, StageAccounts
  <2>2. ASSUME NEW c \in Calls, AnswerLost(c) PROVE AccountInv'
    BY <2>2, LostAccounts
  <2>3. CASE StrayRuns
    BY <2>3, StrayAccounts
  <2>4. CASE SessionLost \/ Reconnect
    BY <2>4, QuietAccounts DEF PageKept, SessionLost, Reconnect
  <2>5. QED BY <1>6, <2>1, <2>2, <2>3, <2>4 DEF Fault
<1>7. CASE UNCHANGED vars
  BY <1>7, QuietAccounts DEF PageKept
<1>8. QED BY <1>1, <1>2, <1>3, <1>4, <1>5, <1>6, <1>7 DEF Next, Click

LEMMA LossInit == Init => NameInv /\ AccountInv
<1>1. SUFFICES ASSUME Init PROVE NameInv /\ AccountInv
  OBVIOUS
<1>2. NameInv
  BY <1>1, ConstantsAssumption DEF Init, NameInv, FreshShells, OpeningAlone, Opening
<1>3. AccountInv
  BY <1>1, ConstantsAssumption
     DEF Init, AccountInv, OpeningAccounted, StrayPollsStop, LossStopsPolling, Opening
<1>4. QED BY <1>2, <1>3

\* A terminal that is polled shows, or is about to show, all that was read of it:
\* output lost on the way stops the timer.
THEOREM LossStopsTheTimer == Spec => []LossStopsPolling
<1>1. TypeOK /\ NameInv /\ [Next]_vars => NameInv'
  BY NameStep
<1>2. TypeOK /\ NameInv /\ AccountInv /\ [Next]_vars => AccountInv'
  BY AccountStep
<1>3. AccountInv => LossStopsPolling
  BY DEF AccountInv
<1>4. QED
  BY <1>1, <1>2, <1>3, LossInit, TypeCorrect, PTL DEF Spec
=============================================================================
