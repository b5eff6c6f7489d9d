------------------------- MODULE TerminalOrderProofs -------------------------
(***************************************************************************)
(* What Terminal keeps however requests overtake one another: the order of *)
(* the output on the screen as far as polls were sent after one another,   *)
(* that keys reach a shell once, and which shells can still be closed.     *)
(* For any number of shells, requests in flight and faults.                *)
(***************************************************************************)
EXTENDS TerminalProofs

USE DEF vars, serverVars, pageVars, callVars, historyVars

Below(S, T) == \A m \in S, n \in T : m < n

Increasing(s) == \A i, j \in 1 .. Len(s) : i < j => s[i] < s[j]

(* Output: what was on the screen when a poll was sent is there, and older *)
(* than what its answer carries.                                           *)

ScreenInv ==
  \A x \in Shells :
    /\ \A n \in Range(shown[x]) : before[x][n] \subseteq Range(shown[x])
    /\ \A c \in Calls :
         /\ kind[c] = "poll" /\ target[c] = x => base[c] \subseteq Range(shown[x])
         /\ Carries(c, x) => Below(base[c], Range(data[c]))

-----------------------------------------------------------------------------
(* The order on the screen.                                                *)

LEMMA EmptyOrder == Increasing(<<>>) /\ Range(<<>>) = {}
BY EmptySequence DEF Increasing

\* A buffer is in order, and ends with what was read last.
LEMMA BufferInOrder ==
  ASSUME TypeOK, OnceInv, NEW x \in Shells
  PROVE  Increasing(buffer[x]) /\ \A n \in Range(buffer[x]) : n \in Nat /\ n <= read[x]
<1>1. buffer[x] \in Seq(Nat) /\ read[x] \in Nat
  BY DEF TypeOK, ServerTypeOK, HistoryTypeOK
<1>2. \A i \in 1 .. Len(buffer[x]) : buffer[x][i] = read[x] - Len(buffer[x]) + i
  BY DEF OnceInv, BufferHoldsTheLatest
<1>3. Increasing(buffer[x])
  BY <1>1, <1>2 DEF Increasing
<1>4. QED
  BY <1>3, BufferRange DEF OnceInv

\* What is on the screen is older than what is in the buffer.
LEMMA ScreenBelowBuffer ==
  ASSUME TypeOK, OnceInv, NEW x \in Shells
  PROVE  Below(Range(shown[x]), Range(buffer[x]))
<1>1. /\ buffer[x] \in Seq(Nat) /\ read[x] \in Nat /\ Range(shown[x]) \subseteq Nat
      /\ Len(buffer[x]) \in Nat /\ DOMAIN buffer[x] = 1 .. Len(buffer[x])
  BY DEF TypeOK, ServerTypeOK, HistoryTypeOK, Range
<1>2. /\ \A i \in 1 .. Len(buffer[x]) : buffer[x][i] = read[x] - Len(buffer[x]) + i
      /\ \A m \in Range(shown[x]) : m <= read[x] /\ m \notin Range(buffer[x])
  BY DEF OnceInv, BufferHoldsTheLatest, NothingInvented, ShownOnce, Disjoint
<1>3. SUFFICES ASSUME NEW m \in Range(shown[x]), NEW i \in 1 .. Len(buffer[x])
               PROVE  m < buffer[x][i]
  BY <1>1 DEF Below, Range
<1>4. CASE m <= read[x] - Len(buffer[x])
  BY <1>1, <1>2, <1>4
<1>5. CASE ~(m <= read[x] - Len(buffer[x]))
  <2> DEFINE j == m - read[x] + Len(buffer[x])
  <2>1. j \in 1 .. Len(buffer[x])
    BY <1>1, <1>2, <1>5
  <2>2. buffer[x][j] = m
    BY <1>1, <1>2, <2>1
  <2>3. QED
    BY <1>1, <1>2, <2>1, <2>2 DEF Range
<1>6. QED
  BY <1>4, <1>5

\* Nothing is shown, no poll is sent, and no answer carries more.
LEMMA ScreenKept ==
  ASSUME ScreenInv, UNCHANGED <<shown, before>>,
         \A c \in Calls : kind'[c] = "poll" =>
           kind[c] = "poll" /\ target'[c] = target[c] /\ base'[c] = base[c],
         \A x \in Shells, c \in Calls : Carries(c, x)' => Carries(c, x) /\ data'[c] = data[c]
  PROVE  ScreenInv'
<1>1. \A x \in Shells, c \in Calls : Carries(c, x) => kind[c] = "poll"
  BY DEF Carries
<1>2. \A x \in Shells, c \in Calls : Carries(c, x)' => kind'[c] = "poll"
  BY DEF Carries
<1>3. QED
  BY <1>1, <1>2 DEF ScreenInv

\* Sending a request, or freeing a slot.
LEMMA PutScreen ==
  ASSUME TypeOK, ScreenInv, NEW c \in Calls, NEW k, NEW z, NEW d, NEW again,
         Put(c, k, z, d, again), UNCHANGED <<shown, before>>
  PROVE  ScreenInv'
<1>1. /\ kind'[c] = k /\ target'[c] = z /\ (k = "poll" => base'[c] = Range(shown[z]))
      /\ \A b \in Calls \ {c} :
           kind'[b] = kind[b] /\ target'[b] = target[b] /\ base'[b] = base[b]
  BY DEF Put, TypeOK, CallTypeOK
<1>2. /\ \A x \in Shells : ~Carries(c, x)'
      /\ \A x \in Shells, b \in Calls \ {c} :
           (Carries(b, x)' <=> Carries(b, x)) /\ data'[b] = data[b]
  BY PutCarries
<1>3. ASSUME NEW x \in Shells, NEW b \in Calls
      PROVE  /\ kind'[b] = "poll" /\ target'[b] = x => base'[b] \subseteq Range(shown[x])
             /\ Carries(b, x)' => Below(base'[b], Range(data'[b]))
  <2>1. CASE b = c
    BY <1>1, <1>2, <2>1
  <2>2. CASE b # c
    BY <1>1, <1>2, <2>2 DEF ScreenInv
  <2>3. QED
    BY <2>1, <2>2
<1>4. QED
  BY <1>3 DEF ScreenInv

\* A request whose answer carries no output.
LEMMA StageScreen ==
  ASSUME ScreenInv, NEW c \in Calls, UNCHANGED <<kind, base, shown, before>>,
         \A b \in Calls \ {c} : stage'[b] = stage[b] /\ target'[b] = target[b] /\ data'[b] = data[b],
         kind[c] # "poll" \/ (stage'[c] = "failed" /\ target'[c] = target[c])
  PROVE  ScreenInv'
<1>1. \A x \in Shells, b \in Calls : Carries(b, x)' => Carries(b, x) /\ data'[b] = data[b]
  BY DEF Carries
<1>2. QED
  BY <1>1, ScreenKept

\* A poll takes the buffer, which is newer than the screen.
LEMMA PollScreen ==
  ASSUME TypeOK, OnceInv, ScreenInv, NEW c \in Calls, HandlePoll(c)
  PROVE  ScreenInv'
<1> PICK y \in Shells : y = target[c]
  BY DEF HandlePoll, Handled, TypeOK, CallTypeOK
<1>1. /\ kind[c] = "poll" /\ data'[c] = Output(y)
      /\ UNCHANGED <<kind, base, shown, before, target>>
      /\ \A b \in Calls \ {c} : stage'[b] = stage[b] /\ data'[b] = data[b]
  BY DEF HandlePoll, Handled, Poll, Answer, TypeOK, CallTypeOK
<1>2. Below(base[c], Range(data'[c]))
  <2>1. Range(data'[c]) \subseteq Range(buffer[y])
    BY <1>1, EmptyOrder DEF Output
  <2>2. base[c] \subseteq Range(shown[y])
    BY <1>1 DEF ScreenInv
  <2>3. QED
    BY <2>1, <2>2, ScreenBelowBuffer DEF Below
<1>3. ASSUME NEW x \in Shells, NEW b \in Calls, Carries(b, x)'
      PROVE  Below(base[b], Range(data'[b]))
  <2>1. CASE b = c
    BY <1>2, <2>1
  <2>2. CASE b # c
    BY <1>1, <1>3, <2>2 DEF Carries, ScreenInv
  <2>3. QED
    BY <2>1, <2>2
<1>4. QED
  BY <1>1, <1>3 DEF ScreenInv

\* An answer is put below all that was there when its poll was sent.
LEMMA AnswerScreen ==
  ASSUME TypeOK, OnceInv, ScreenInv, ScreenInOrder, NEW c \in Calls, PollAnswered(c)
  PROVE  ScreenInv' /\ ScreenInOrder'
<1> PICK y \in Shells : y = target[c]
  BY DEF PollAnswered, Arrived, TypeOK, CallTypeOK
<1>1. /\ Carries(c, y) /\ Put(c, "free", None, <<>>, FALSE)
  BY DEF PollAnswered, Arrived, Carries, Free
<1>2. CASE ~display
  <2>1. UNCHANGED <<shown, before>>
    BY <1>2 DEF PollAnswered
  <2>2. QED
    BY <1>1, <2>1, PutScreen DEF ScreenInOrder
<1>3. CASE display
  <2> DEFINE s == shown[y]
             t == data[c]
             new == [n \in 0 .. MaxPieces |-> IF n \in Range(t) THEN base[c] ELSE before[y][n]]
  <2>1. /\ s \in Seq(Nat) /\ t \in Seq(Nat) /\ base[c] \in SUBSET Nat
        /\ before[y] \in [0 .. MaxPieces -> SUBSET Nat]
    BY DEF TypeOK, CallTypeOK, HistoryTypeOK
  <2>2. /\ shown'[y] = s \o t /\ before'[y] = new
        /\ \A x \in Shells \ {y} : shown'[x] = shown[x] /\ before'[x] = before[x]
    <3>1. shown' = [shown EXCEPT ![y] = s \o t]
      BY <1>3 DEF PollAnswered, Shows, Written
    <3>2. before' = [before EXCEPT ![y] = new]
      BY <1>3 DEF PollAnswered, Shows
    <3> HIDE DEF new, s, t
    <3>3. QED
      BY <3>1, <3>2 DEF TypeOK, HistoryTypeOK
  <2>3. /\ Range(shown'[y]) = Range(s) \cup Range(t)
        /\ Disjoint(Range(s), Range(t))
        /\ base[c] \subseteq Range(s) /\ Below(base[c], Range(t))
    <3>1. Range(shown'[y]) = Range(s) \cup Range(t)
      <4> HIDE DEF s, t
      <4>1. QED
        BY <2>1, <2>2, ConcatRange
    <3>2. Disjoint(Range(s), Range(t))
      BY <1>1 DEF OnceInv, ShownOnce, Disjoint
    <3>3. base[c] \subseteq Range(s) /\ Below(base[c], Range(t))
      BY <1>1 DEF ScreenInv, Carries
    <3>4. QED
      BY <3>1, <3>2, <3>3
  <2>4. \A n \in Range(s) \cup Range(t) : n \in 0 .. MaxPieces
    <3>1. \A n \in Range(s) \cup Range(t) : n \in Nat
      BY <2>1 DEF Range
    <3>2. \A n \in Range(s) \cup Range(t) : n <= read[y]
      BY <1>1 DEF OnceInv, NothingInvented
    <3>3. read[y] \in 0 .. MaxPieces /\ MaxPieces \in Nat
      BY ConstantsAssumption DEF TypeOK, HistoryTypeOK
    <3>4. QED
      BY <3>1, <3>2, <3>3
  <2>5. /\ \A n \in Range(t) : before'[y][n] = base[c]
        /\ \A n \in Range(s) : before'[y][n] = before[y][n] /\ n \notin Range(t)
    BY <2>2, <2>3, <2>4 DEF Disjoint
  <2> HIDE DEF new
  <2>6. ScreenInv'
    <3>1. /\ kind'[c] = "free"
          /\ \A b \in Calls \ {c} :
               kind'[b] = kind[b] /\ target'[b] = target[b] /\ base'[b] = base[b]
      BY <1>1 DEF Put, TypeOK, CallTypeOK
    <3>2. /\ \A x \in Shells : ~Carries(c, x)'
          /\ \A x \in Shells, b \in Calls \ {c} :
               (Carries(b, x)' <=> Carries(b, x)) /\ data'[b] = data[b]
      BY <1>1, PutCarries
    <3>3. \A x \in Shells : Range(shown[x]) \subseteq Range(shown'[x])
      BY <2>2, <2>3
    <3>4. ASSUME NEW x \in Shells, NEW n \in Range(shown'[x])
          PROVE  before'[x][n] \subseteq Range(shown'[x])
      <4>1. CASE x # y
        BY <2>2, <3>4, <4>1 DEF ScreenInv
      <4>2. CASE x = y /\ n \in Range(t)
        BY <2>3, <2>5, <4>2
      <4>3. CASE x = y /\ n \in Range(s)
        BY <2>3, <2>5, <4>3 DEF ScreenInv
      <4>4. QED
        BY <2>3, <3>4, <4>1, <4>2, <4>3
    <3>5. ASSUME NEW x \in Shells, NEW b \in Calls
          PROVE  /\ kind'[b] = "poll" /\ target'[b] = x => base'[b] \subseteq Range(shown'[x])
                 /\ Carries(b, x)' => Below(base'[b], Range(data'[b]))
      <4>1. CASE b = c
        BY <3>1, <3>2, <4>1
      <4>2. CASE b # c
        BY <3>1, <3>2, <3>3, <4>2 DEF ScreenInv
      <4>3. QED
        BY <4>1, <4>2
    <3>6. QED
      BY <3>4, <3>5 DEF ScreenInv
  <2>7. ASSUME NEW i \in DOMAIN shown'[y], NEW j \in DOMAIN shown'[y],
               shown'[y][i] \in before'[y][shown'[y][j]]
        PROVE  i < j /\ shown'[y][i] < shown'[y][j]
    <3> HIDE DEF s, t
    <3>1. /\ DOMAIN s = 1 .. Len(s) /\ DOMAIN t = 1 .. Len(t)
          /\ Len(s) \in Nat /\ Len(t) \in Nat
          /\ DOMAIN (s \o t) = 1 .. Len(s) + Len(t)
          /\ \A l \in 1 .. Len(s) + Len(t) :
               (s \o t)[l] = IF l <= Len(s) THEN s[l] ELSE t[l - Len(s)]
      BY <2>1
    <3>2. /\ i \in 1 .. Len(s) + Len(t) /\ j \in 1 .. Len(s) + Len(t)
          /\ shown'[y][i] = (s \o t)[i] /\ shown'[y][j] = (s \o t)[j]
      BY <2>2, <2>7, <3>1
    <3>3. \A l \in 1 .. Len(s) : s[l] \in Range(s)
      BY <3>1 DEF Range
    <3>4. \A l \in 1 .. Len(t) : t[l] \in Range(t)
      BY <3>1 DEF Range
    <3>5. /\ i <= Len(s) => shown'[y][i] = s[i] /\ i \in 1 .. Len(s) /\ shown'[y][i] \in Range(s)
          /\ ~(i <= Len(s)) => shown'[y][i] \in Range(t)
          /\ j <= Len(s) => shown'[y][j] = s[j] /\ j \in 1 .. Len(s) /\ shown'[y][j] \in Range(s)
          /\ ~(j <= Len(s)) => shown'[y][j] \in Range(t)
      <4>1. ASSUME NEW l \in 1 .. Len(s) + Len(t)
            PROVE  /\ l <= Len(s) => (s \o t)[l] = s[l] /\ l \in 1 .. Len(s) /\ (s \o t)[l] \in Range(s)
                   /\ ~(l <= Len(s)) => (s \o t)[l] \in Range(t)
        <5>1. l <= Len(s) => l \in 1 .. Len(s)
          BY <3>1
        <5>2. ~(l <= Len(s)) => l - Len(s) \in 1 .. Len(t)
          BY <3>1
        <5>3. QED
          BY <3>1, <3>3, <3>4, <5>1, <5>2
      <4>2. QED
        BY <3>2, <4>1
    <3>6. CASE j <= Len(s)
      <4>1. shown'[y][i] \in before[y][s[j]] /\ s[j] \in Range(s)
        BY <2>5, <2>7, <3>5, <3>6
      <4>2. shown'[y][i] \in Range(s)
        BY <4>1 DEF ScreenInv, s
      <4>3. i <= Len(s)
        BY <2>5, <3>5, <4>2
      <4>4. i \in DOMAIN s /\ j \in DOMAIN s /\ s[i] \in before[y][s[j]]
        BY <3>1, <3>5, <3>6, <4>1, <4>3
      <4>5. i < j /\ s[i] < s[j]
        BY <4>4 DEF ScreenInOrder, s
      <4>6. QED
        BY <3>5, <3>6, <4>3, <4>5
    <3>7. CASE ~(j <= Len(s))
      <4>1. shown'[y][i] \in base[c]
        BY <2>5, <2>7, <3>5, <3>7
      <4>2. i <= Len(s)
        BY <2>3, <2>5, <3>5, <4>1
      <4>3. i < j
        BY <3>1, <3>2, <3>7, <4>2
      <4>4. shown'[y][i] < shown'[y][j]
        BY <2>3, <3>5, <3>7, <4>1 DEF Below
      <4>5. QED
        BY <4>3, <4>4
    <3>8. QED
      BY <3>6, <3>7
  <2>8. ScreenInOrder'
    <3>1. SUFFICES ASSUME NEW x \in Shells, NEW i \in DOMAIN shown'[x], NEW j \in DOMAIN shown'[x],
                          shown'[x][i] \in before'[x][shown'[x][j]]
                   PROVE  i < j /\ shown'[x][i] < shown'[x][j]
      BY DEF ScreenInOrder
    <3>2. CASE x = y
      BY <2>7, <3>1, <3>2
    <3>3. CASE x # y
      BY <2>2, <3>1, <3>3 DEF ScreenInOrder
    <3>4. QED
      BY <3>2, <3>3
  <2>9. QED
    BY <2>6, <2>8
<1>4. QED
  BY <1>2, <1>3

LEMMA ScreenStep ==
  ASSUME TypeOK, OnceInv, ScreenInv, ScreenInOrder, [Next]_vars
  PROVE  ScreenInv' /\ ScreenInOrder'
<1>0. UNCHANGED <<shown, before>> => ScreenInOrder'
  BY DEF ScreenInOrder
<1>1. ASSUME NEW c \in Calls,
             \/ OpenTerminal(c) \/ Type(c) \/ Tick(c)
             \/ \E again \in BOOLEAN : CloseTerminal(c, again)
      PROVE  ScreenInv' /\ ScreenInOrder'
  BY <1>0, <1>1, PutScreen DEF OpenTerminal, Type, Tick, CloseTerminal
<1>2. ASSUME NEW c \in Calls, Handle(c) PROVE ScreenInv' /\ ScreenInOrder'
  <2>1. CASE HandlePoll(c)
    BY <1>0, <2>1, PollScreen DEF HandlePoll, Answer
  <2>2. CASE HandleOpen(c) \/ HandleInput(c) \/ HandleClose(c)
    <3>1. kind[c] # "poll" /\ UNCHANGED <<kind, base, shown, before>>
          /\ \A b \in Calls \ {c} : stage'[b] = stage[b] /\ target'[b] = target[b] /\ data'[b] = data[b]
      BY <2>2 DEF HandleOpen, HandleInput, HandleClose, Handled, Answer, TypeOK, CallTypeOK
    <3>2. QED
      BY <1>0, <3>1, StageScreen
  <2>3. CASE Refuse(c)
    BY <1>0, <2>3, StageScreen DEF Refuse, TypeOK, CallTypeOK
  <2>4. QED
    BY <1>2, <2>1, <2>2, <2>3 DEF Handle
<1>3. ASSUME NEW c \in Calls, Done(c) PROVE ScreenInv' /\ ScreenInOrder'
  <2>1. CASE PollAnswered(c)
    BY <2>1, AnswerScreen
  <2>2. CASE OpenDone(c) \/ PollFailed(c) \/ InputDone(c)
    BY <1>0, <2>2, PutScreen DEF OpenDone, PollFailed, InputDone, Free
  <2>3. CASE CloseDone(c)
    BY <1>0, <2>3, PutScreen DEF CloseDone, Free
  <2>4. QED
    BY <1>3, <2>1, <2>2, <2>3 DEF Done
<1>4. ASSUME NEW c \in Calls, GiveUp(c) \/ AnswerLost(c) PROVE ScreenInv' /\ ScreenInOrder'
  BY <1>0, <1>4, StageScreen DEF GiveUp, AnswerLost, TypeOK, CallTypeOK
<1>5. CASE \/ CloseNothing \/ StrayRuns \/ SessionLost \/ Reconnect \/ UNCHANGED vars
           \/ \E x \in Shells : Read(x) \/ ProcessExits(x) \/ WatchProcess(x)
  <2>1. UNCHANGED <<callVars, shown, before>>
    BY <1>5 DEF CloseNothing, StrayRuns, SessionLost, Reconnect, Read, ProcessExits, WatchProcess
  <2>2. QED
    BY <1>0, <2>1, ScreenKept DEF Carries
<1>6. QED
  BY <1>1, <1>2, <1>3, <1>4, <1>5 DEF Next, Click, Fault

\* Output is put on the screen below, and is newer than, all that was there when
\* its poll was sent.
THEOREM ScreenKeepsOrder == Spec => []ScreenInOrder
<1>1. Init => ScreenInv /\ ScreenInOrder
  BY EmptyOrder DEF Init, ScreenInv, ScreenInOrder, Carries
<1>2. TypeOK /\ OnceInv /\ [Next]_vars => OnceInv'
  BY TypeStep, OnceStep
<1>3. TypeOK /\ OnceInv /\ ScreenInv /\ ScreenInOrder /\ [Next]_vars
        => ScreenInv' /\ ScreenInOrder'
  BY ScreenStep
<1>4. QED
  BY <1>1, <1>2, <1>3, OnceInit, TypeCorrect, PTL DEF Spec

-----------------------------------------------------------------------------
(* The keys: each is received, left to run for nobody, or in a request     *)
(* that is still to be handled, and never in two of these.                 *)

Pending(c, x) == kind[c] = "input" /\ stage[c] = "sent" /\ target[c] = x
Left(s, x)    == s.kind = "input" /\ s.id = x

Due(d, got, last) == \E n \in Nat : d = <<n>> /\ n <= last /\ n \notin Range(got)

KeysOk(x) ==
  /\ IsInjective(received[x])
  /\ \A n \in Range(received[x]) : n <= typed[x]
  /\ \A s \in stray : Left(s, x) =>
       /\ Due(s.data, received[x], typed[x])
       /\ \A t \in stray \ {s} : Left(t, x) => s.data # t.data
  /\ \A c \in Calls : Pending(c, x) =>
       /\ Due(data[c], received[x], typed[x])
       /\ \A b \in Calls \ {c} : Pending(b, x) => data[c] # data[b]
       /\ \A s \in stray : Left(s, x) => data[c] # s.data

KeysInv == \A x \in Shells : KeysOk(x)

\* A step that types nothing and gives the shells nothing, and leaves no request behind.
LEMMA KeysKept ==
  ASSUME KeysInv, UNCHANGED <<received, typed>>, stray' \subseteq stray,
         \A x \in Shells, c \in Calls : Pending(c, x)' => Pending(c, x) /\ data'[c] = data[c]
  PROVE  KeysInv'
BY DEF KeysInv, KeysOk

\* What is sent or freed in a slot.
LEMMA PutPending ==
  ASSUME TypeOK, NEW c \in Calls, NEW k, NEW z, NEW d, NEW again, Put(c, k, z, d, again)
  PROVE  /\ \A x \in Shells : Pending(c, x)' => k = "input" /\ z = x /\ data'[c] = d
         /\ \A x \in Shells, b \in Calls \ {c} :
              (Pending(b, x)' <=> Pending(b, x)) /\ data'[b] = data[b]
BY DEF Put, Pending, TypeOK, CallTypeOK

LEMMA PutKeys ==
  ASSUME TypeOK, KeysInv, NEW c \in Calls, NEW k, k # "input", NEW z, NEW d, NEW again,
         Put(c, k, z, d, again), UNCHANGED <<received, typed, stray>>
  PROVE  KeysInv'
<1>1. /\ \A x \in Shells : ~Pending(c, x)'
      /\ \A x \in Shells, b \in Calls \ {c} : (Pending(b, x)' <=> Pending(b, x)) /\ data'[b] = data[b]
  BY PutPending
<1>2. QED
  BY <1>1, KeysKept

\* A request that is answered or refused, or whose answer is lost.
LEMMA StageKeys ==
  ASSUME KeysInv, NEW c \in Calls, UNCHANGED <<kind, received, typed, stray>>,
         \A b \in Calls \ {c} : stage'[b] = stage[b] /\ target'[b] = target[b] /\ data'[b] = data[b],
         stage'[c] # "sent"
  PROVE  KeysInv'
<1>1. \A x \in Shells, b \in Calls : Pending(b, x)' => Pending(b, x) /\ data'[b] = data[b]
  BY DEF Pending
<1>2. QED
  BY <1>1, KeysKept

\* A key that is typed is none of those that were typed.
LEMMA TypeKeys ==
  ASSUME TypeOK, KeysInv, NEW c \in Calls, Type(c)
  PROVE  KeysInv'
<1> PICK y \in Shells : y = sessionId
  BY DEF Type, TypeOK, PageTypeOK
<1> PICK n : n = typed[y] + 1
  OBVIOUS
<1>1. /\ typed[y] \in Nat /\ n \in Nat /\ UNCHANGED <<received, stray>>
      /\ typed'[y] = n /\ \A x \in Shells \ {y} : typed'[x] = typed[x]
  <2>1. typed[y] \in 0 .. MaxKeys /\ MaxKeys \in Nat
    BY ConstantsAssumption DEF TypeOK, HistoryTypeOK
  <2>2. typed' = [typed EXCEPT ![y] = n] /\ UNCHANGED <<received, stray>>
    BY DEF Type
  <2>3. QED
    BY <2>1, <2>2 DEF TypeOK, HistoryTypeOK
<1>2. Put(c, "input", y, <<n>>, FALSE)
  BY DEF Type
<1>3. /\ \A x \in Shells : Pending(c, x)' => x = y /\ data'[c] = <<n>>
      /\ \A x \in Shells, b \in Calls \ {c} : (Pending(b, x)' <=> Pending(b, x)) /\ data'[b] = data[b]
  BY <1>2, PutPending
<1>4. \A m : m \in Nat /\ m <= typed[y] => m <= n /\ m # n
  BY <1>1
<1>5. \A x \in Shells : Range(received[x]) \subseteq Nat
  BY DEF TypeOK, ServerTypeOK, Range
<1>6. ASSUME NEW x \in Shells, NEW d, Due(d, received[x], typed[x])
      PROVE  Due(d, received'[x], typed'[x]) /\ (x = y => d # <<n>>)
  <2>1. PICK m \in Nat : d = <<m>> /\ m <= typed[x] /\ m \notin Range(received[x])
    BY <1>6 DEF Due
  <2>2. CASE x = y
    <3>1. m <= n /\ m # n
      BY <1>4, <2>1, <2>2
    <3>2. <<m>> # <<n>>
      BY <3>1
    <3>3. QED
      BY <1>1, <2>1, <2>2, <3>1, <3>2 DEF Due
  <2>3. CASE x # y
    BY <1>1, <2>1, <2>3 DEF Due
  <2>4. QED
    BY <2>2, <2>3
<1>7. ASSUME NEW x \in Shells PROVE KeysOk(x)'
  <2>1. KeysOk(x)
    BY DEF KeysInv
  <2>2. /\ IsInjective(received'[x])
        /\ \A m \in Range(received'[x]) : m <= typed'[x]
    BY <1>1, <1>4, <1>5, <2>1 DEF KeysOk
  <2>3. \A s \in stray' : Left(s, x) =>
          /\ Due(s.data, received'[x], typed'[x])
          /\ \A t \in stray' \ {s} : Left(t, x) => s.data # t.data
    BY <1>1, <1>6, <2>1 DEF KeysOk
  <2>4. ASSUME NEW b \in Calls, Pending(b, x)'
        PROVE  /\ Due(data'[b], received'[x], typed'[x])
               /\ \A a \in Calls \ {b} : Pending(a, x)' => data'[b] # data'[a]
               /\ \A s \in stray' : Left(s, x) => data'[b] # s.data
    <3>1. CASE b = c
      <4>1. x = y /\ data'[b] = <<n>>
        BY <1>3, <2>4, <3>1
      <4>2. Due(<<n>>, received'[x], typed'[x])
        BY <1>1, <1>4, <1>5, <2>1, <4>1 DEF Due, KeysOk
      <4>3. QED
        BY <1>1, <1>3, <1>6, <2>1, <3>1, <4>1, <4>2 DEF KeysOk
    <3>2. CASE b # c
      <4>1. Pending(b, x) /\ data'[b] = data[b]
        BY <1>3, <2>4, <3>2
      <4>2. Pending(c, x)' => data'[b] # data'[c]
        BY <1>3, <1>6, <2>1, <4>1 DEF KeysOk
      <4>3. QED
        BY <1>1, <1>3, <1>6, <2>1, <4>1, <4>2 DEF KeysOk
    <3>3. QED
      BY <3>1, <3>2
  <2>5. QED
    BY <2>2, <2>3, <2>4 DEF KeysOk
<1>8. QED
  BY <1>7 DEF KeysInv

\* A key that reaches a shell was due, and is due no more.
LEMMA KeysArrive ==
  ASSUME TypeOK, KeysInv, NEW y \in Shells, NEW keys, Due(keys, received[y], typed[y]),
         Input(y, keys), UNCHANGED typed, stray' \subseteq stray,
         \A x \in Shells, c \in Calls : Pending(c, x)' => Pending(c, x) /\ data'[c] = data[c],
         \A c \in Calls : Pending(c, y)' => data'[c] # keys,
         \A s \in stray' : Left(s, y) => s.data # keys
  PROVE  KeysInv'
<1>1. PICK n \in Nat : keys = <<n>> /\ n <= typed[y] /\ n \notin Range(received[y])
  BY DEF Due
<1>2. /\ received'[y] = received[y] \o keys /\ received[y] \in Seq(Nat) /\ keys \in Seq(Nat)
      /\ \A x \in Shells \ {y} : received'[x] = received[x]
  BY <1>1 DEF Input, TypeOK, ServerTypeOK
<1>3. Range(keys) = {n} /\ IsInjective(keys)
  BY <1>1 DEF Range, IsInjective
<1>4. Range(received'[y]) = Range(received[y]) \cup {n} /\ IsInjective(received'[y])
  <2>1. IsInjective(received[y])
    BY DEF KeysInv, KeysOk
  <2>2. QED
    BY <1>1, <1>2, <1>3, <2>1, ConcatRange, ConcatInjective DEF Disjoint
<1>5. ASSUME NEW d, Due(d, received[y], typed[y]), d # keys
      PROVE  Due(d, received'[y], typed[y])
  BY <1>1, <1>4, <1>5 DEF Due
<1>6. ASSUME NEW x \in Shells PROVE KeysOk(x)'
  <2>1. CASE x # y
    BY <1>2, <2>1 DEF KeysInv, KeysOk
  <2>2. CASE x = y
    <3>1. KeysOk(y)
      BY DEF KeysInv
    <3>2. \A m \in Range(received'[y]) : m <= typed[y]
      BY <1>1, <1>4, <3>1 DEF KeysOk
    <3>3. \A c \in Calls : Pending(c, y)' => Due(data'[c], received'[y], typed[y])
      BY <1>5, <3>1 DEF KeysOk
    <3>4. \A s \in stray' : Left(s, y) => Due(s.data, received'[y], typed[y])
      BY <1>5, <3>1 DEF KeysOk
    <3>5. QED
      BY <1>4, <2>2, <3>1, <3>2, <3>3, <3>4 DEF KeysOk
  <2>3. QED
    BY <2>1, <2>2
<1>7. QED
  BY <1>6 DEF KeysInv

LEMMA InputKeys ==
  ASSUME TypeOK, KeysInv, NEW c \in Calls, HandleInput(c)
  PROVE  KeysInv'
<1> PICK y \in Shells : y = target[c]
  BY DEF HandleInput, Handled, TypeOK, CallTypeOK
<1>1. Input(y, data[c]) /\ Answer(c, y, data[c], FALSE) /\ Pending(c, y)
  BY DEF HandleInput, Handled, Pending
<1>2. /\ UNCHANGED <<typed, stray>> /\ stage'[c] = "answered"
      /\ \A b \in Calls : b # c => stage'[b] = stage[b] /\ target'[b] = target[b]
                                   /\ data'[b] = data[b] /\ kind'[b] = kind[b]
  BY <1>1 DEF Answer, TypeOK, CallTypeOK
<1>3. \A x \in Shells, b \in Calls : Pending(b, x)' => b # c /\ Pending(b, x) /\ data'[b] = data[b]
  BY <1>2 DEF Pending
<1>4. /\ Due(data[c], received[y], typed[y])
      /\ \A b \in Calls : Pending(b, y)' => data'[b] # data[c]
      /\ \A s \in stray' : Left(s, y) => s.data # data[c]
  BY <1>1, <1>2, <1>3 DEF KeysInv, KeysOk
<1>5. QED
  BY <1>1, <1>2, <1>3, <1>4, KeysArrive

\* A request that is given up is left to be run.
LEMMA GiveUpKeys ==
  ASSUME TypeOK, KeysInv, NEW c \in Calls, GiveUp(c)
  PROVE  KeysInv'
<1> DEFINE s == [no |-> faults + 1, kind |-> kind[c], id |-> target[c], data |-> data[c]]
<1>1. /\ stage[c] = "sent" /\ stray' = stray \cup {s}
      /\ UNCHANGED <<received, typed, kind, target, data>>
      /\ stage' = [stage EXCEPT ![c] = "failed"]
  BY DEF GiveUp, Handled
<1>2. \A x \in Shells : Left(s, x) => Pending(c, x) /\ s.data = data[c]
  BY <1>1 DEF Left, Pending
<1>3. \A x \in Shells, b \in Calls : Pending(b, x)' => b # c /\ Pending(b, x)
  BY <1>1 DEF Pending, TypeOK, CallTypeOK
<1> HIDE DEF s
<1>4. ASSUME NEW x \in Shells PROVE KeysOk(x)'
  <2>1. KeysOk(x)
    BY DEF KeysInv
  <2>2. \A t \in stray' : Left(t, x) =>
          /\ Due(t.data, received[x], typed[x])
          /\ \A u \in stray' \ {t} : Left(u, x) => t.data # u.data
    BY <1>1, <1>2, <2>1 DEF KeysOk
  <2>3. \A b \in Calls : Pending(b, x)' =>
          /\ Due(data[b], received[x], typed[x])
          /\ \A a \in Calls \ {b} : Pending(a, x)' => data[b] # data[a]
          /\ \A t \in stray' : Left(t, x) => data[b] # t.data
    BY <1>1, <1>2, <1>3, <2>1 DEF KeysOk
  <2>4. QED
    BY <1>1, <2>1, <2>2, <2>3 DEF KeysOk
<1>5. QED
  BY <1>4 DEF KeysInv

LEMMA StrayKeys ==
  ASSUME TypeOK, KeysInv, StrayRuns
  PROVE  KeysInv'
<1>1. PICK s \in stray :
        /\ stray' = stray \ {s}
        /\ \/ \E x \in Shells : Open(x)
           \/ Poll(s.id) \/ Close(s.id) \/ UNCHANGED serverVars
           \/ s.kind = "input" /\ Input(s.id, s.data)
  BY DEF StrayRuns
<1>2. UNCHANGED <<callVars, typed>>
  BY DEF StrayRuns
<1>3. \A x \in Shells, b \in Calls : Pending(b, x)' <=> Pending(b, x)
  BY <1>2 DEF Pending
<1>4. CASE received' = received
  BY <1>1, <1>2, <1>3, <1>4, KeysKept
<1>5. CASE s.kind = "input" /\ Input(s.id, s.data)
  <2>1. s.id \in Shells \cup {None}
    BY DEF TypeOK, ServerTypeOK, Stray
  <2>2. CASE s.id \notin Shells
    <3>1. received' = received
      BY <1>5, <2>2 DEF Input, TypeOK, ServerTypeOK
    <3>2. QED
      BY <1>4, <3>1
  <2>3. CASE s.id \in Shells
    <3>1. Left(s, s.id)
      BY <1>5 DEF Left
    <3>2. /\ Due(s.data, received[s.id], typed[s.id])
          /\ \A c \in Calls : Pending(c, s.id) => data[c] # s.data
          /\ \A t \in stray \ {s} : Left(t, s.id) => t.data # s.data
      BY <1>1, <2>3, <3>1 DEF KeysInv, KeysOk
    <3>3. QED
      BY <1>1, <1>2, <1>3, <1>5, <2>3, <3>2, KeysArrive
  <2>4. QED
    BY <2>2, <2>3
<1>6. QED
  BY <1>1, <1>4, <1>5 DEF Open, Poll, Close

LEMMA KeysStep ==
  ASSUME TypeOK, KeysInv, [Next]_vars
  PROVE  KeysInv'
<1>1. ASSUME NEW c \in Calls,
             OpenTerminal(c) \/ Tick(c) \/ \E again \in BOOLEAN : CloseTerminal(c, again)
      PROVE  KeysInv'
  BY <1>1, PutKeys DEF OpenTerminal, Tick, CloseTerminal
<1>2. ASSUME NEW c \in Calls, Type(c) PROVE KeysInv'
  BY <1>2, TypeKeys
<1>3. ASSUME NEW c \in Calls, Handle(c) PROVE KeysInv'
  <2>1. CASE HandleInput(c)
    BY <2>1, InputKeys
  <2>2. CASE HandleOpen(c) \/ HandlePoll(c) \/ HandleClose(c) \/ Refuse(c)
    <3>1. stage'[c] # "sent" /\ UNCHANGED <<kind, received, typed, stray>>
          /\ \A b \in Calls \ {c} : stage'[b] = stage[b] /\ target'[b] = target[b] /\ data'[b] = data[b]
      BY <2>2 DEF HandleOpen, HandlePoll, HandleClose, Refuse, Open, Poll, Close, Answer,
                  TypeOK, CallTypeOK
    <3>2. QED
      BY <3>1, StageKeys
  <2>3. QED
    BY <1>3, <2>1, <2>2 DEF Handle
<1>4. ASSUME NEW c \in Calls, Done(c) PROVE KeysInv'
  <2>1. CASE OpenDone(c) \/ PollAnswered(c) \/ PollFailed(c) \/ InputDone(c)
    BY <2>1, PutKeys DEF OpenDone, PollAnswered, PollFailed, InputDone, Free
  <2>2. CASE CloseDone(c)
    BY <2>2, PutKeys DEF CloseDone, Free
  <2>3. QED
    BY <1>4, <2>1, <2>2 DEF Done
<1>5. ASSUME NEW c \in Calls, GiveUp(c) PROVE KeysInv'
  BY <1>5, GiveUpKeys
<1>6. ASSUME NEW c \in Calls, AnswerLost(c) PROVE KeysInv'
  BY <1>6, StageKeys DEF AnswerLost, TypeOK, CallTypeOK
<1>7. CASE StrayRuns
  BY <1>7, StrayKeys
<1>8. CASE \/ CloseNothing \/ SessionLost \/ Reconnect \/ UNCHANGED vars
           \/ \E x \in Shells : Read(x) \/ ProcessExits(x) \/ WatchProcess(x)
  <2>1. UNCHANGED <<callVars, received, typed, stray>>
    BY <1>8 DEF CloseNothing, SessionLost, Reconnect, Read, ProcessExits, WatchProcess
  <2>2. \A x \in Shells, b \in Calls : Pending(b, x)' <=> Pending(b, x)
    BY <2>1 DEF Pending
  <2>3. QED
    BY <2>1, <2>2, KeysKept
<1>9. QED
  BY <1>1, <1>2, <1>3, <1>4, <1>5, <1>6, <1>7, <1>8 DEF Next, Click, Fault

\* A key is typed into its shell once at most, whatever becomes of its request.
THEOREM KeysAreTypedOnce == Spec => []KeysArriveOnce
<1>1. Init => KeysInv
  BY EmptySequence DEF Init, KeysInv, KeysOk, Pending
<1>2. TypeOK /\ KeysInv /\ [Next]_vars => KeysInv'
  BY KeysStep
<1>3. KeysInv => KeysArriveOnce
  <2>1. ASSUME NEW d, NEW got, NEW last, Due(d, got, last), NEW n \in Range(got)
        PROVE  d # <<n>>
    BY <2>1 DEF Due
  <2>2. QED
    BY <2>1 DEF KeysInv, KeysOk, KeysArriveOnce, Handled, Pending, Left
<1>4. QED
  BY <1>1, <1>2, <1>3, TypeCorrect, PTL DEF Spec

-----------------------------------------------------------------------------
(* Every shell is held.                                                    *)

Dead(x) == x \notin table \/ process[x] # "running"

ServerOk ==
  /\ ~live => \A x \in Shells : process[x] # "running"
  /\ \A x \in closed : process[x] = "ended"

OpenOk(c) ==
  kind[c] = "open" =>
    /\ stage[c] = "sent" => target[c] = None
    /\ stage[c] = "failed" => target[c] \in unheard \cup {None}

CloseOk(c) ==
  kind[c] = "close" /\ stage[c] # "sent" =>
    Dead(target[c]) \/ \E s \in stray : s.kind = "close" /\ s.id = target[c]

PollOk(c) ==
  kind[c] = "poll" /\ stage[c] = "answered" /\ ended[c] => Dead(target[c])

HeldInv == ServerOk /\ (\A c \in Calls : OpenOk(c) /\ CloseOk(c) /\ PollOk(c)) /\ EveryShellIsHeld

Held(x) ==
  \/ sessionId = x
  \/ \E c \in Calls : kind[c] \in {"open", "close"} /\ target[c] = x
  \/ \E s \in stray : s.kind = "close" /\ s.id = x
  \/ x \in unheard \cup displaced

\* Steps in which only request c moves on, dead shells stay dead, and no shell starts
\* but the one that is opened for c.
OnlyMoves(c) ==
  /\ UNCHANGED <<kind, sessionId, displaced>>
  /\ \A b \in Calls \ {c} : stage'[b] = stage[b] /\ target'[b] = target[b] /\ ended'[b] = ended[b]
  /\ target'[c] = target[c] \/ (kind[c] = "open" /\ stage[c] = "sent")
  /\ stray \subseteq stray' /\ unheard \subseteq unheard'

DeadStay == \A x \in Shells : process[x] # "free" /\ Dead(x) => Dead(x)'

StartsFor(c) ==
  \A x \in table' : process'[x] = "running" =>
    \/ kind[c] = "open" /\ target'[c] = x
    \/ x \in table /\ process[x] = "running"

\* What a request names has been opened.
LEMMA NamedIsOpened ==
  ASSUME TypeOK, NameInv, NEW c \in Calls, kind[c] \in {"poll", "close"}
  PROVE  target[c] \in Shells /\ process[target[c]] # "free"
BY DEF TypeOK, CallTypeOK, NameInv, FreshShells

\* Steps of the server: requests untouched.
LEMMA ServerHeld ==
  ASSUME TypeOK, NameInv, HeldInv, UNCHANGED <<callVars, sessionId, displaced>>, ServerOk',
         unheard \subseteq unheard',
         DeadStay,
         \A s \in stray : s.kind = "close" => s \in stray' \/ Dead(s.id)',
         \A x \in table' : process'[x] = "running" =>
           x \in unheard' \/ (x \in table /\ process[x] = "running")
  PROVE  HeldInv'
<1>1. ASSUME NEW c \in Calls PROVE OpenOk(c)'
  BY DEF HeldInv, OpenOk
<1>2. ASSUME NEW c \in Calls, kind[c] = "close" PROVE CloseOk(c)'
  <2>1. PICK x \in Shells : x = target[c] /\ process[x] # "free"
    BY <1>2, NamedIsOpened
  <2>2. CloseOk(c)
    BY DEF HeldInv
  <2>3. stage[c] # "sent" => Dead(x)' \/ \E s \in stray' : s.kind = "close" /\ s.id = x
    BY <1>2, <2>1, <2>2 DEF CloseOk, DeadStay
  <2>4. QED
    BY <1>2, <2>1, <2>2, <2>3 DEF CloseOk, Dead
<1>3. ASSUME NEW c \in Calls, kind[c] = "poll" PROVE PollOk(c)'
  <2>1. PICK x \in Shells : x = target[c] /\ process[x] # "free"
    BY <1>3, NamedIsOpened
  <2>2. PollOk(c)
    BY DEF HeldInv
  <2>3. stage[c] = "answered" /\ ended[c] => Dead(x)'
    BY <1>3, <2>1, <2>2 DEF PollOk, DeadStay
  <2>4. QED
    BY <1>3, <2>1, <2>2, <2>3 DEF PollOk, Dead
<1>4. ASSUME NEW x \in table', process'[x] = "running" PROVE Held(x)'
  <2>1. CASE x \in unheard'
    BY <2>1 DEF Held
  <2>2. CASE x \in table /\ process[x] = "running"
    <3>1. Held(x)
      BY <2>2 DEF HeldInv, EveryShellIsHeld, Held
    <3>2. ~Dead(x)'
      BY <1>4 DEF Dead
    <3>3. QED
      BY <3>1, <3>2 DEF Held
  <2>3. QED
    BY <1>4, <2>1, <2>2
<1>5. \A c \in Calls : CloseOk(c)' /\ PollOk(c)'
  <2>1. \A c \in Calls : (kind[c] # "close" => CloseOk(c)') /\ (kind[c] # "poll" => PollOk(c)')
    BY DEF CloseOk, PollOk
  <2>2. QED
    BY <1>2, <1>3, <2>1
<1>6. QED
  BY <1>1, <1>4, <1>5 DEF HeldInv, EveryShellIsHeld, Held

\* A request that is handled, or fails.
LEMMA StageHeld ==
  ASSUME TypeOK, NameInv, HeldInv, NEW c \in Calls, OnlyMoves(c), DeadStay, StartsFor(c),
         ServerOk', OpenOk(c)', CloseOk(c)', PollOk(c)'
  PROVE  HeldInv'
<1>1. ASSUME NEW b \in Calls \ {c} PROVE OpenOk(b)'
  BY DEF HeldInv, OpenOk, OnlyMoves
<1>2. ASSUME NEW b \in Calls \ {c}, kind[b] = "close" PROVE CloseOk(b)'
  <2>1. PICK x \in Shells : x = target[b] /\ process[x] # "free"
    BY <1>2, NamedIsOpened
  <2>2. CloseOk(b)
    BY DEF HeldInv
  <2>3. stage[b] # "sent" => Dead(x)' \/ \E s \in stray' : s.kind = "close" /\ s.id = x
    BY <1>2, <2>1, <2>2 DEF CloseOk, OnlyMoves, DeadStay
  <2>4. QED
    BY <1>2, <2>1, <2>2, <2>3 DEF CloseOk, Dead, OnlyMoves
<1>3. ASSUME NEW b \in Calls \ {c}, kind[b] = "poll" PROVE PollOk(b)'
  <2>1. PICK x \in Shells : x = target[b] /\ process[x] # "free"
    BY <1>3, NamedIsOpened
  <2>2. PollOk(b)
    BY DEF HeldInv
  <2>3. stage[b] = "answered" /\ ended[b] => Dead(x)'
    BY <1>3, <2>1, <2>2 DEF PollOk, OnlyMoves, DeadStay
  <2>4. QED
    BY <1>3, <2>1, <2>2, <2>3 DEF PollOk, Dead, OnlyMoves
<1>4. ASSUME NEW x \in table', process'[x] = "running" PROVE Held(x)'
  <2>1. CASE kind[c] = "open" /\ target'[c] = x
    BY <2>1 DEF Held, OnlyMoves
  <2>2. CASE x \in table /\ process[x] = "running"
    <3>1. Held(x) /\ x \in Shells
      BY <2>2 DEF HeldInv, EveryShellIsHeld, Held, TypeOK, ServerTypeOK
    <3>2. target[c] = x => target'[c] = x
      BY <3>1, ConstantsAssumption DEF HeldInv, OpenOk, OnlyMoves
    <3>3. ASSUME NEW b \in Calls, kind[b] \in {"open", "close"}, target[b] = x PROVE Held(x)'
      BY <3>2, <3>3 DEF Held, OnlyMoves
    <3>4. QED
      BY <3>1, <3>3 DEF Held, OnlyMoves
  <2>3. QED
    BY <1>4, <2>1, <2>2 DEF StartsFor
<1>5. \A b \in Calls : CloseOk(b)' /\ PollOk(b)'
  <2>1. \A b \in Calls : (kind[b] # "close" => CloseOk(b)') /\ (kind[b] # "poll" => PollOk(b)')
    BY DEF CloseOk, PollOk, OnlyMoves
  <2>2. QED
    BY <1>2, <1>3, <2>1
<1>6. QED
  BY <1>1, <1>4, <1>5 DEF HeldInv, EveryShellIsHeld, Held

\* A request that is sent, or a slot that is freed: what the page drops is held otherwise.
LEMMA PutHeld ==
  ASSUME TypeOK, HeldInv, NEW c \in Calls, NEW k, NEW z, NEW d, NEW again, Put(c, k, z, d, again),
         UNCHANGED <<live, table, process, closed, stray, unheard>>, displaced \subseteq displaced',
         k = "open" => z = None,
         \A x \in table : process[x] = "running" =>
           /\ kind[c] \in {"open", "close"} => target[c] # x \/ Held(x)'
           /\ sessionId = x => Held(x)'
  PROVE  HeldInv'
<1>1. /\ kind'[c] = k /\ target'[c] = z /\ stage'[c] = "sent"
      /\ \A b \in Calls \ {c} : kind'[b] = kind[b] /\ target'[b] = target[b] /\ stage'[b] = stage[b]
                                /\ ended'[b] = ended[b]
  BY DEF Put, TypeOK, CallTypeOK
<1>2. ServerOk'
  BY DEF HeldInv, ServerOk
<1>3. ASSUME NEW b \in Calls PROVE OpenOk(b)' /\ CloseOk(b)' /\ PollOk(b)'
  <2>1. CASE b = c
    BY <1>1, <2>1 DEF OpenOk, CloseOk, PollOk
  <2>2. CASE b # c
    <3>1. OpenOk(b) /\ CloseOk(b) /\ PollOk(b)
      BY DEF HeldInv
    <3>2. QED
      BY <1>1, <2>2, <3>1 DEF OpenOk, CloseOk, PollOk, Dead
  <2>3. QED
    BY <2>1, <2>2
<1>4. ASSUME NEW x \in table, process[x] = "running" PROVE Held(x)'
  <2>1. Held(x)
    BY <1>4 DEF HeldInv, EveryShellIsHeld, Held
  <2>2. ASSUME NEW b \in Calls \ {c}, kind[b] \in {"open", "close"}, target[b] = x PROVE Held(x)'
    BY <1>1, <2>2 DEF Held
  <2>3. (\E s \in stray : s.kind = "close" /\ s.id = x) \/ x \in unheard \cup displaced => Held(x)'
    BY DEF Held
  <2>4. QED
    BY <1>4, <2>1, <2>2, <2>3 DEF Held
<1>5. QED
  BY <1>2, <1>3, <1>4 DEF HeldInv, EveryShellIsHeld, Held

\* A shell that the coroutines of one step leave dead, if it was and had been opened.
LEMMA ServerKeeps ==
  ASSUME TypeOK, HeldInv,
         \/ \E x \in Shells : Open(x)
         \/ \E x : Poll(x) \/ Close(x) \/ \E keys : Input(x, keys)
  PROVE  ServerOk' /\ DeadStay
<1>1. ServerOk /\ process \in [Shells -> {"free", "running", "ended"}] /\ table \subseteq Shells
  BY DEF HeldInv, TypeOK, ServerTypeOK
<1>2. CASE \E x \in Shells : Open(x)
  BY <1>1, <1>2 DEF Open, ServerOk, DeadStay, Dead
<1>3. CASE \E x : Poll(x) \/ \E keys : Input(x, keys)
  <2>1. UNCHANGED <<live, table, process, closed>>
    BY <1>3 DEF Poll, Input
  <2>2. QED
    BY <1>1, <2>1 DEF ServerOk, DeadStay, Dead
<1>4. CASE \E x : Close(x)
  <2>1. PICK y : Close(y)
    BY <1>4
  <2>2. CASE y \notin table
    <3>1. UNCHANGED <<live, table, process, closed>>
      BY <2>1, <2>2 DEF Close
    <3>2. QED
      BY <1>1, <3>1 DEF ServerOk, DeadStay, Dead
  <2>3. CASE y \in table
    <3>1. /\ live' = live /\ table' = table \ {y} /\ closed' = closed \cup {y}
          /\ process' = [process EXCEPT ![y] = "ended"]
      BY <2>1, <2>3 DEF Close
    <3>2. QED
      BY <1>1, <2>3, <3>1 DEF ServerOk, DeadStay, Dead
  <2>4. QED
    BY <2>2, <2>3
<1>5. QED
  BY <1>2, <1>3, <1>4

LEMMA HandleHeld ==
  ASSUME TypeOK, NameInv, HeldInv, NEW c \in Calls, Handle(c)
  PROVE  HeldInv'
<1>1. \A x \in Shells : x \in closed => process[x] = "ended"
  BY DEF HeldInv, ServerOk
<1>2. /\ OpenOk(c) /\ CloseOk(c) /\ PollOk(c)
      /\ kind[c] \in {"poll", "close"} => target[c] \in Shells
  BY DEF HeldInv, TypeOK, CallTypeOK
<1>3. CASE HandleOpen(c)
  <2>1. PICK y \in Shells : Handled(c, "open") /\ Open(y) /\ Answer(c, y, <<>>, FALSE)
    BY <1>3 DEF HandleOpen
  <2>2. ServerOk' /\ DeadStay
    BY <2>1, ServerKeeps
  <2>3. /\ kind[c] = "open" /\ stage[c] = "sent" /\ target'[c] = y /\ stage'[c] = "answered"
        /\ OnlyMoves(c) /\ UNCHANGED <<kind, sessionId, stray, unheard>>
    BY <2>1 DEF Handled, Answer, OnlyMoves, TypeOK, CallTypeOK
  <2>4. StartsFor(c)
    <3>1. table' = table \cup {y} /\ process' = [process EXCEPT ![y] = "running"]
      BY <2>1 DEF Open
    <3>2. process \in [Shells -> {"free", "running", "ended"}] /\ table \subseteq Shells
      BY DEF TypeOK, ServerTypeOK
    <3>3. kind[c] = "open" /\ target'[c] = y
      BY <2>3
    <3>4. \A x \in table' : x # y => x \in table /\ process'[x] = process[x]
      BY <3>1, <3>2
    <3>5. QED
      BY <3>3, <3>4 DEF StartsFor
  <2>5. OpenOk(c)' /\ CloseOk(c)' /\ PollOk(c)'
    BY <1>2, <2>3 DEF OpenOk, CloseOk, PollOk
  <2>6. QED
    BY <2>2, <2>3, <2>4, <2>5, StageHeld
<1>4. CASE HandlePoll(c)
  <2>1. PICK y \in Shells : y = target[c]
    BY <1>2, <1>4 DEF HandlePoll, Handled
  <2>2. Handled(c, "poll") /\ Poll(y) /\ Answer(c, y, Output(y), IsClosed(y))
    BY <1>4, <2>1 DEF HandlePoll
  <2>3. ServerOk' /\ DeadStay
    BY <2>2, ServerKeeps
  <2>4. /\ kind[c] = "poll" /\ target'[c] = y /\ ended'[c] = IsClosed(y)
        /\ OnlyMoves(c) /\ UNCHANGED <<kind, sessionId, stray, unheard, table, process>>
    BY <2>1, <2>2 DEF Handled, Poll, Answer, OnlyMoves, TypeOK, CallTypeOK
  <2>5. IsClosed(y) => Dead(y)
    BY <1>1 DEF IsClosed, Dead
  <2>6. OpenOk(c)' /\ CloseOk(c)' /\ PollOk(c)'
    BY <1>2, <2>1, <2>4, <2>5 DEF OpenOk, CloseOk, PollOk, Dead
  <2>7. StartsFor(c)
    BY <2>4 DEF StartsFor
  <2>8. OnlyMoves(c)
    BY <2>4
  <2>9. QED
    BY <2>3, <2>6, <2>7, <2>8, StageHeld
<1>5. CASE HandleInput(c)
  <2>1. Handled(c, "input") /\ Input(target[c], data[c]) /\ Answer(c, target[c], data[c], FALSE)
    BY <1>5 DEF HandleInput
  <2>2. ServerOk' /\ DeadStay
    BY <2>1, ServerKeeps
  <2>3. /\ kind[c] = "input" /\ target'[c] = target[c]
        /\ OnlyMoves(c) /\ UNCHANGED <<kind, sessionId, stray, unheard, table, process>>
    BY <2>1 DEF Handled, Input, Answer, OnlyMoves, TypeOK, CallTypeOK
  <2>4. OpenOk(c)' /\ CloseOk(c)' /\ PollOk(c)'
    BY <2>3 DEF OpenOk, CloseOk, PollOk
  <2>5. StartsFor(c)
    BY <2>3 DEF StartsFor
  <2>6. OnlyMoves(c)
    BY <2>3
  <2>7. QED
    BY <2>2, <2>4, <2>5, <2>6, StageHeld
<1>6. CASE HandleClose(c)
  <2>1. PICK y \in Shells : y = target[c]
    BY <1>2, <1>6 DEF HandleClose, Handled
  <2>2. Handled(c, "close") /\ Close(y) /\ Answer(c, y, <<>>, FALSE)
    BY <1>6, <2>1 DEF HandleClose
  <2>3. ServerOk' /\ DeadStay
    BY <2>2, ServerKeeps
  <2>4. /\ kind[c] = "close" /\ target'[c] = y
        /\ OnlyMoves(c) /\ UNCHANGED <<kind, sessionId, stray, unheard>>
    BY <2>1, <2>2 DEF Handled, Answer, OnlyMoves, TypeOK, CallTypeOK
  <2>5. y \notin table' /\ StartsFor(c)
    <3>1. process \in [Shells -> {"free", "running", "ended"}] /\ table \subseteq Shells
      BY DEF TypeOK, ServerTypeOK
    <3>2. CASE y \in table
      BY <2>2, <3>1, <3>2 DEF Close, StartsFor
    <3>3. CASE y \notin table
      BY <2>2, <3>1, <3>3 DEF Close, StartsFor
    <3>4. QED
      BY <3>2, <3>3
  <2>6. OpenOk(c)' /\ CloseOk(c)' /\ PollOk(c)'
    BY <1>2, <2>1, <2>4, <2>5 DEF OpenOk, CloseOk, PollOk, Dead
  <2>7. OnlyMoves(c) /\ StartsFor(c)
    BY <2>4, <2>5
  <2>8. QED
    BY <2>3, <2>6, <2>7, StageHeld
<1>7. CASE Refuse(c)
  <2>1. /\ stage'[c] = "failed" /\ stage[c] = "sent" /\ kind[c] \in Kinds
        /\ ~live \/ kind[c] \in {"open", "input"}
        /\ \A b \in Calls \ {c} : stage'[b] = stage[b]
        /\ UNCHANGED <<serverVars, kind, target, ended, sessionId, displaced, stray, unheard>>
    BY <1>7 DEF Refuse, Handled, TypeOK, CallTypeOK
  <2>2. ServerOk' /\ DeadStay
    BY <2>1 DEF HeldInv, ServerOk, DeadStay, Dead
  <2>3. kind[c] = "close" => Dead(target[c])'
    BY <1>2, <2>1 DEF HeldInv, ServerOk, Dead
  <2>4. OpenOk(c)' /\ CloseOk(c)' /\ PollOk(c)'
    <3>1. OpenOk(c)'
      BY <1>2, <2>1 DEF OpenOk
    <3>2. CloseOk(c)' /\ PollOk(c)'
      BY <1>2, <2>1, <2>3 DEF CloseOk, PollOk
    <3>3. QED
      BY <3>1, <3>2
  <2>5. OnlyMoves(c) /\ StartsFor(c)
    BY <2>1 DEF OnlyMoves, StartsFor
  <2>6. QED
    BY <2>2, <2>4, <2>5, StageHeld
<1>8. QED
  BY <1>3, <1>4, <1>5, <1>6, <1>7 DEF Handle

LEMMA FailHeld ==
  ASSUME TypeOK, NameInv, HeldInv, NEW c \in Calls, GiveUp(c) \/ AnswerLost(c)
  PROVE  HeldInv'
<1>1. /\ stage'[c] = "failed" /\ UNCHANGED <<serverVars, kind, target, sessionId, displaced>>
      /\ \A b \in Calls \ {c} : stage'[b] = stage[b] /\ ended'[b] = ended[b]
      /\ stray \subseteq stray' /\ unheard \subseteq unheard'
  BY DEF GiveUp, AnswerLost, TypeOK, CallTypeOK
<1>2. ServerOk' /\ DeadStay
  BY <1>1 DEF HeldInv, ServerOk, DeadStay, Dead
<1>3. OpenOk(c) /\ CloseOk(c) /\ PollOk(c)
  BY DEF HeldInv
<1>4. OpenOk(c)'
  <2>1. kind[c] = "open" => target[c] \in unheard' \cup {None}
    <3>1. CASE GiveUp(c)
      BY <1>3, <3>1 DEF GiveUp, Handled, OpenOk
    <3>2. CASE AnswerLost(c)
      BY <3>2 DEF AnswerLost
    <3>3. QED
      BY <3>1, <3>2
  <2>2. QED
    BY <1>1, <1>3, <2>1 DEF OpenOk
<1>5. CloseOk(c)'
  <2>1. kind[c] = "close" => stage[c] # "sent" \/ \E s \in stray' : s.kind = "close" /\ s.id = target[c]
    BY DEF GiveUp, AnswerLost
  <2>2. QED
    BY <1>1, <1>3, <2>1 DEF CloseOk, Dead
<1>6. PollOk(c)'
  BY <1>1, <1>3 DEF PollOk
<1>7. OnlyMoves(c) /\ StartsFor(c)
  <2>1. target' = target /\ UNCHANGED <<kind, sessionId, displaced>> /\ UNCHANGED <<table, process>>
    BY <1>1
  <2>2. OnlyMoves(c)
    BY <1>1, <2>1 DEF OnlyMoves
  <2>3. StartsFor(c)
    BY <2>1 DEF StartsFor
  <2>4. QED
    BY <2>2, <2>3
<1>8. QED
  BY <1>2, <1>4, <1>5, <1>6, <1>7, StageHeld

\* An open that failed has opened nothing, or a shell that the page never heard of; the
\* answer of another pushes out the terminal there was.
LEMMA OpenDoneHeld ==
  ASSUME TypeOK, HeldInv, NEW c \in Calls, OpenDone(c)
  PROVE  HeldInv'
<1>1. /\ kind[c] = "open" /\ stage[c] \in {"answered", "failed"}
      /\ Put(c, "free", None, <<>>, FALSE)
      /\ UNCHANGED <<live, table, process, closed, stray, unheard>>
      /\ IF stage[c] = "answered" THEN sessionId' = target[c] /\ displaced' = Dropped(target[c])
                                  ELSE sessionId' = sessionId /\ displaced' = displaced
  BY DEF OpenDone, Arrived, Free, TypeOK, CallTypeOK, Stages
<1>2. ASSUME NEW x \in table PROVE target[c] = x \/ sessionId = x => Held(x)'
  <2>1. x # None
    BY ConstantsAssumption DEF TypeOK, ServerTypeOK
  <2>2. CASE stage[c] = "answered"
    BY <1>1, <2>1, <2>2 DEF Dropped, Held
  <2>3. CASE stage[c] = "failed"
    <3>1. target[c] \in unheard \cup {None}
      BY <1>1, <2>3 DEF HeldInv, OpenOk
    <3>2. QED
      BY <1>1, <2>1, <2>3, <3>1 DEF Held
  <2>4. QED
    BY <1>1, <2>2, <2>3
<1>3. displaced \subseteq displaced'
  BY <1>1 DEF Dropped
<1>4. QED
  BY <1>1, <1>2, <1>3, PutHeld

\* What a close leaves behind: a shell that is dead, or that a coroutine is about to
\* close, or one that took the place of the one that is closed.
LEMMA CloseDoneHeld ==
  ASSUME TypeOK, HeldInv, NEW c \in Calls, CloseDone(c)
  PROVE  HeldInv'
<1>1. /\ kind[c] = "close" /\ stage[c] # "sent" /\ displaced' = Dropped(target[c])
      /\ UNCHANGED <<live, table, process, closed, stray, unheard>>
  BY DEF CloseDone, Arrived
<1>2. PICK k \in {"open", "free"} : Put(c, k, None, <<>>, FALSE)
  BY DEF CloseDone, Free
<1>3. CloseOk(c)
  BY DEF HeldInv
<1>4. ASSUME NEW x \in table, process[x] = "running", target[c] = x PROVE Held(x)'
  <2>1. \E s \in stray : s.kind = "close" /\ s.id = x
    BY <1>1, <1>3, <1>4 DEF CloseOk, Dead
  <2>2. QED
    BY <1>1, <2>1 DEF Held
<1>5. ASSUME NEW x \in table, process[x] = "running", sessionId = x PROVE Held(x)'
  <2>1. x # None
    BY ConstantsAssumption DEF TypeOK, ServerTypeOK
  <2>2. QED
    BY <1>1, <1>4, <1>5, <2>1 DEF Dropped, Held
<1>6. displaced \subseteq displaced'
  BY <1>1 DEF Dropped
<1>7. QED
  BY <1>1, <1>2, <1>4, <1>5, <1>6, PutHeld

LEMMA ClickHeld ==
  ASSUME TypeOK, HeldInv, NEW c \in Calls,
         \/ OpenTerminal(c) \/ Type(c) \/ Tick(c)
         \/ \E again \in BOOLEAN : CloseTerminal(c, again)
  PROVE  HeldInv'
<1>1. /\ kind[c] = "free" /\ sessionId' = sessionId /\ displaced' = displaced
      /\ UNCHANGED <<live, table, process, closed, stray, unheard>>
  BY DEF OpenTerminal, Type, Tick, CloseTerminal
<1>2. \A x \in table : sessionId = x => Held(x)'
  BY <1>1 DEF Held
<1>3. \E z, d, again : \E k \in {"input", "poll", "close", "open"} :
        Put(c, k, z, d, again) /\ (k = "open" => z = None)
  BY DEF OpenTerminal, Type, Tick, CloseTerminal
<1>4. QED
  BY <1>1, <1>2, <1>3, PutHeld

\* A terminal whose poll tells its end is dead; another that is there is pushed out.
LEMMA PollDoneHeld ==
  ASSUME TypeOK, HeldInv, NEW c \in Calls, PollAnswered(c) \/ PollFailed(c) \/ InputDone(c)
  PROVE  HeldInv'
<1>1. /\ kind[c] \in {"poll", "input"} /\ Put(c, "free", None, <<>>, FALSE)
      /\ UNCHANGED <<live, table, process, closed, stray, unheard>>
  BY DEF PollAnswered, PollFailed, InputDone, Arrived, Free
<1>2. \/ sessionId' = sessionId /\ displaced' = displaced
      \/ kind[c] = "poll" /\ stage[c] = "answered" /\ ended[c] /\ displaced' = Dropped(target[c])
  BY DEF PollAnswered, PollFailed, InputDone, Arrived
<1>3. ASSUME NEW x \in table, process[x] = "running", sessionId = x PROVE Held(x)'
  <2>1. CASE sessionId' = sessionId
    BY <1>3, <2>1 DEF Held
  <2>2. CASE kind[c] = "poll" /\ stage[c] = "answered" /\ ended[c] /\ displaced' = Dropped(target[c])
    <3>1. Dead(target[c])
      BY <2>2 DEF HeldInv, PollOk
    <3>2. x # target[c] /\ x # None
      BY <1>3, <3>1, ConstantsAssumption DEF Dead, TypeOK, ServerTypeOK
    <3>3. QED
      BY <1>3, <2>2, <3>2 DEF Dropped, Held
  <2>3. QED
    BY <1>2, <2>1, <2>2
<1>4. displaced \subseteq displaced'
  BY <1>2 DEF Dropped
<1>5. QED
  BY <1>1, <1>3, <1>4, PutHeld

\* A coroutine that nobody waits for: the shell it opens was never heard of.
LEMMA StrayHeld ==
  ASSUME TypeOK, NameInv, HeldInv, StrayRuns
  PROVE  HeldInv'
<1>1. PICK s \in stray :
        /\ stray' = stray \ {s}
        /\ \/ \E x \in Shells : s.kind = "open" /\ Open(x) /\ unheard' = unheard \cup {x}
           \/ s.kind = "poll" /\ Poll(s.id) /\ UNCHANGED unheard
           \/ s.kind = "input" /\ Input(s.id, s.data) /\ UNCHANGED unheard
           \/ s.kind = "close" /\ Close(s.id) /\ UNCHANGED unheard
           \/ (s.kind \in {"open", "input"} \/ ~live) /\ UNCHANGED <<serverVars, unheard>>
  BY DEF StrayRuns
<1>2. UNCHANGED <<callVars, sessionId, displaced>> /\ unheard \subseteq unheard'
  BY <1>1 DEF StrayRuns
<1>3. process \in [Shells -> {"free", "running", "ended"}] /\ table \subseteq Shells
  BY DEF TypeOK, ServerTypeOK
<1>4. CASE \E x \in Shells : s.kind = "open" /\ Open(x) /\ unheard' = unheard \cup {x}
  <2>1. PICK y \in Shells : s.kind = "open" /\ Open(y) /\ unheard' = unheard \cup {y}
    BY <1>4
  <2>2. \A x \in table' : x # y => x \in table /\ process'[x] = process[x]
    BY <1>3, <2>1 DEF Open
  <2>3. ServerOk' /\ DeadStay
    BY <2>1, ServerKeeps
  <2>4. \A t \in stray : t.kind = "close" => t \in stray'
    BY <1>1, <2>1
  <2>5. QED
    BY <1>2, <2>1, <2>2, <2>3, <2>4, ServerHeld
<1>5. CASE (s.kind = "poll" /\ Poll(s.id)) \/ (s.kind = "input" /\ Input(s.id, s.data))
  <2>1. ServerOk' /\ DeadStay
    BY <1>5, ServerKeeps
  <2>2. UNCHANGED <<table, process>>
    BY <1>5 DEF Poll, Input
  <2>3. \A t \in stray : t.kind = "close" => t \in stray'
    BY <1>1, <1>5
  <2>4. QED
    BY <1>2, <2>1, <2>2, <2>3, ServerHeld
<1>6. CASE s.kind = "close" /\ Close(s.id)
  <2>1. ServerOk' /\ DeadStay
    BY <1>6, ServerKeeps
  <2>2. /\ s.id \notin table'
        /\ \A x \in table' : x \in table /\ process'[x] = process[x]
    <3>1. CASE s.id \in table
      BY <1>3, <1>6, <3>1 DEF Close
    <3>2. CASE s.id \notin table
      BY <1>6, <3>2 DEF Close
    <3>3. QED
      BY <3>1, <3>2
  <2>3. \A t \in stray : t.kind = "close" => t \in stray' \/ Dead(t.id)'
    BY <1>1, <2>2 DEF Dead
  <2>4. QED
    BY <1>2, <2>1, <2>2, <2>3, ServerHeld
<1>7. CASE (s.kind \in {"open", "input"} \/ ~live) /\ UNCHANGED <<serverVars, unheard>>
  <2>1. ServerOk' /\ DeadStay
    <3>1. UNCHANGED <<live, table, process, closed>>
      BY <1>7
    <3>2. QED
      BY <3>1 DEF HeldInv, ServerOk, DeadStay, Dead
  <2>2. ~live => \A x \in Shells \cup {None} : Dead(x)'
    <3>1. None \notin table
      BY <1>3, ConstantsAssumption
    <3>2. ~live => \A x \in Shells : process[x] # "running"
      BY DEF HeldInv, ServerOk
    <3>3. UNCHANGED <<table, process>>
      BY <1>7
    <3>4. QED
      BY <3>1, <3>2, <3>3 DEF Dead
  <2>3. \A t \in stray : t.id \in Shells \cup {None}
    BY DEF TypeOK, ServerTypeOK, Stray
  <2>4. \A t \in stray : t.kind = "close" => t \in stray' \/ Dead(t.id)'
    BY <1>1, <1>7, <2>2, <2>3
  <2>5. QED
    BY <1>2, <1>7, <2>1, <2>4, ServerHeld
<1>8. QED
  BY <1>1, <1>4, <1>5, <1>6, <1>7

LEMMA HeldStep ==
  ASSUME TypeOK, NameInv, HeldInv, [Next]_vars
  PROVE  HeldInv'
<1>1. ASSUME NEW c \in Calls,
             \/ OpenTerminal(c) \/ Type(c) \/ Tick(c)
             \/ \E again \in BOOLEAN : CloseTerminal(c, again)
      PROVE  HeldInv'
  BY <1>1, ClickHeld
<1>2. ASSUME NEW c \in Calls, Handle(c) PROVE HeldInv'
  BY <1>2, HandleHeld
<1>3. ASSUME NEW c \in Calls, Done(c) PROVE HeldInv'
  BY <1>3, OpenDoneHeld, PollDoneHeld, CloseDoneHeld DEF Done
<1>4. ASSUME NEW c \in Calls, GiveUp(c) \/ AnswerLost(c) PROVE HeldInv'
  BY <1>4, FailHeld
<1>5. CASE StrayRuns
  BY <1>5, StrayHeld
<1>6. ASSUME UNCHANGED <<callVars, sessionId, displaced, stray, unheard>>, ServerOk', DeadStay,
             \A x \in table' : process'[x] = "running" => x \in table /\ process[x] = "running"
      PROVE  HeldInv'
  BY <1>6, ServerHeld
<1>7. CASE \/ CloseNothing \/ UNCHANGED vars
           \/ \E x \in Shells : Read(x)
  <2>1. UNCHANGED <<callVars, displaced, stray, unheard, live, table, process, closed>>
    BY <1>7 DEF CloseNothing, Read
  <2>2. sessionId' = sessionId
    BY <1>7 DEF CloseNothing, Read
  <2>3. ServerOk' /\ DeadStay
    BY <2>1 DEF HeldInv, ServerOk, DeadStay, Dead
  <2>4. QED
    BY <1>6, <2>1, <2>2, <2>3
<1>8. ASSUME NEW y \in Shells, ProcessExits(y) \/ WatchProcess(y) PROVE HeldInv'
  <2>1. process \in [Shells -> {"free", "running", "ended"}] /\ table \subseteq Shells
    BY DEF TypeOK, ServerTypeOK
  <2>2. /\ UNCHANGED <<callVars, sessionId, displaced, stray, unheard, live, table>>
        /\ \A x \in Shells : process'[x] = process[x] \/ process'[x] = "ended"
        /\ closed' = closed \/ (closed' = closed \cup {y} /\ process'[y] = "ended")
    BY <1>8, <2>1 DEF ProcessExits, WatchProcess
  <2>3. closed \subseteq Shells
    BY DEF TypeOK, ServerTypeOK
  <2>4. ServerOk'
    BY <2>2, <2>3 DEF HeldInv, ServerOk
  <2>5. DeadStay
    BY <2>2 DEF DeadStay, Dead
  <2>6. \A x \in table' : process'[x] = "running" => x \in table /\ process[x] = "running"
    BY <2>1, <2>2
  <2>7. QED
    BY <1>6, <2>2, <2>4, <2>5, <2>6
<1>9. CASE SessionLost \/ Reconnect
  <2>1. process \in [Shells -> {"free", "running", "ended"}] /\ table \subseteq Shells
        /\ closed \subseteq Shells
    BY DEF TypeOK, ServerTypeOK
  <2>2. /\ UNCHANGED <<callVars, sessionId, displaced, stray, unheard, closed>> /\ table' \subseteq table
        /\ \A x \in Shells : process'[x] = process[x] \/ process'[x] = "ended"
        /\ ~live' => \A x \in Shells : process'[x] # "running"
    BY <1>9, <2>1 DEF SessionLost, Reconnect
  <2>3. ServerOk'
    BY <2>1, <2>2 DEF HeldInv, ServerOk
  <2>4. DeadStay
    BY <2>2 DEF DeadStay, Dead
  <2>5. \A x \in table' : process'[x] = "running" => x \in table /\ process[x] = "running"
    BY <2>1, <2>2
  <2>6. QED
    BY <1>6, <2>2, <2>3, <2>4, <2>5
<1>10. QED
  BY <1>1, <1>2, <1>3, <1>4, <1>5, <1>7, <1>8, <1>9 DEF Next, Click, Fault

\* Every shell that runs can still be closed, but for those whose open was not
\* answered and those whose id the page dropped at an answer about another.
THEOREM ShellsAreHeld == Spec => []EveryShellIsHeld
<1>1. Init => HeldInv
  BY DEF Init, HeldInv, ServerOk, OpenOk, CloseOk, PollOk, EveryShellIsHeld
<1>2. TypeOK /\ NameInv /\ [Next]_vars => NameInv'
  BY NameStep
<1>3. TypeOK /\ NameInv /\ HeldInv /\ [Next]_vars => HeldInv'
  BY HeldStep
<1>4. HeldInv => EveryShellIsHeld
  BY DEF HeldInv
<1>5. QED
  BY <1>1, <1>2, <1>3, <1>4, LossInit, TypeCorrect, PTL DEF Spec
=============================================================================
