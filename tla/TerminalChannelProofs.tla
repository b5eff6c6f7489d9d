------------------------ MODULE TerminalChannelProofs ------------------------
(***************************************************************************)
(* Terminal implements OutputChannel: what its readers, polls, answers and *)
(* faults do to the output of the shells is to read, show and lose it.     *)
(* For any number of shells, requests and faults.                          *)
(***************************************************************************)
EXTENDS TerminalOrderProofs

USE DEF vars, serverVars, pageVars, callVars, historyVars

\* An answer is a batch.
BatchInv ==
  \A c \in Calls, x \in Shells : Carries(c, x) =>
    Increasing(data[c]) /\ Len(data[c]) <= MaxBuffer

-----------------------------------------------------------------------------
(* What is on its way.                                                     *)

LEMMA OnItsWay ==
  ASSUME NEW x \in Shells
  PROVE  \A n : n \in Waiting(x) <=>
           n \in Range(buffer[x]) \/ \E c \in Calls : Carries(c, x) /\ n \in Range(data[c])
BY DEF Waiting, InFlight

LEMMA OnItsWayNext ==
  ASSUME NEW x \in Shells
  PROVE  \A n : n \in Waiting(x)' <=>
           n \in Range(buffer'[x]) \/ \E c \in Calls : Carries(c, x)' /\ n \in Range(data'[c])
BY DEF Waiting, InFlight

\* Answers that carry the same, and the same buffers.
LEMMA NothingMoves ==
  ASSUME UNCHANGED <<read, shown, buffer>>,
         \A x \in Shells, c \in Calls : Carries(c, x)' <=> Carries(c, x),
         \A x \in Shells, c \in Calls : Carries(c, x) => data'[c] = data[c]
  PROVE  UNCHANGED Channel!vars
<1>1. ASSUME NEW x \in Shells PROVE Waiting(x)' = Waiting(x)
  <2>1. \A n : n \in Waiting(x)' <=> n \in Waiting(x)
    BY OnItsWay, OnItsWayNext
  <2>2. QED
    BY <2>1
<1>2. [x \in Shells |-> Waiting(x)]' = [x \in Shells |-> Waiting(x)]
  BY <1>1
<1>3. QED
  BY <1>2 DEF Channel!vars

\* Output of one shell that is dropped.
LEMMA Loses ==
  ASSUME NEW y \in Shells, UNCHANGED <<read, shown>>, Waiting(y)' \subseteq Waiting(y),
         \A x \in Shells \ {y} : Waiting(x)' = Waiting(x)
  PROVE  Channel!Lose(y)
<1>1. [x \in Shells |-> Waiting(x)]' = [[x \in Shells |-> Waiting(x)] EXCEPT ![y] = Waiting(y)']
  OBVIOUS
<1>2. Waiting(y)' \in SUBSET ([x \in Shells |-> Waiting(x)][y])
  OBVIOUS
<1>3. QED
  BY <1>1, <1>2 DEF Channel!Lose

\* A slot that carries nothing is sent or freed.
LEMMA PutMovesNothing ==
  ASSUME TypeOK, NEW c \in Calls, NEW k, NEW z, NEW d, NEW again, Put(c, k, z, d, again),
         kind[c] # "poll" \/ stage[c] # "answered", UNCHANGED <<read, shown, buffer>>
  PROVE  UNCHANGED Channel!vars
<1>1. \A x \in Shells : ~Carries(c, x)
  BY DEF Carries
<1>2. /\ \A x \in Shells : ~Carries(c, x)'
      /\ \A x \in Shells, b \in Calls \ {c} : (Carries(b, x)' <=> Carries(b, x)) /\ data'[b] = data[b]
  BY PutCarries
<1>3. QED
  BY <1>1, <1>2, NothingMoves

\* A request that carries nothing, before and after it is handled.
LEMMA StageMovesNothing ==
  ASSUME NEW c \in Calls, UNCHANGED <<kind, read, shown, buffer>>,
         \A b \in Calls \ {c} : stage'[b] = stage[b] /\ target'[b] = target[b] /\ data'[b] = data[b],
         kind[c] # "poll" \/ (stage[c] = "sent" /\ stage'[c] = "failed")
  PROVE  UNCHANGED Channel!vars
<1>1. /\ \A x \in Shells, b \in Calls : Carries(b, x)' <=> Carries(b, x)
      /\ \A x \in Shells, b \in Calls : Carries(b, x) => data'[b] = data[b]
  BY DEF Carries
<1>2. QED
  BY <1>1, NothingMoves

-----------------------------------------------------------------------------
(* The polls.                                                              *)

\* A poll that is handled takes the buffer into its answer: nothing is read, shown or lost.
LEMMA PollTakes ==
  ASSUME TypeOK, NEW c \in Calls, HandlePoll(c)
  PROVE  UNCHANGED Channel!vars
<1> PICK y \in Shells : y = target[c]
  BY DEF HandlePoll, Handled, TypeOK, CallTypeOK
<1>1. /\ kind[c] = "poll" /\ stage[c] = "sent"
      /\ data'[c] = Output(y) /\ buffer' = Emptied(y)
      /\ UNCHANGED <<kind, read, shown>> /\ target'[c] = y /\ stage'[c] = "answered"
      /\ \A b \in Calls \ {c} : stage'[b] = stage[b] /\ target'[b] = target[b] /\ data'[b] = data[b]
  BY DEF HandlePoll, Handled, Poll, Answer, TypeOK, CallTypeOK
<1>2. \A x \in Shells, b \in Calls \ {c} : Carries(b, x)' <=> Carries(b, x)
  BY <1>1 DEF Carries
<1>3. \A x \in Shells : ~Carries(c, x) /\ (Carries(c, x)' <=> x = y)
  BY <1>1 DEF Carries
<1>4. \A x \in Shells \ {y} : buffer'[x] = buffer[x]
  BY <1>1 DEF Emptied, TypeOK, ServerTypeOK
<1>5. \A n : n \in Range(buffer[y]) <=> n \in Range(buffer'[y]) \/ n \in Range(data'[c])
  <2>1. \/ buffer'[y] = buffer[y] /\ data'[c] = <<>>
        \/ buffer'[y] = <<>> /\ data'[c] = buffer[y]
    BY <1>1 DEF Emptied, Output, TypeOK, ServerTypeOK
  <2>2. QED
    BY <2>1, EmptySequence
<1>6. ASSUME NEW x \in Shells PROVE Waiting(x)' = Waiting(x)
  <2>1. ASSUME NEW n PROVE n \in Waiting(x)' <=> n \in Waiting(x)
    <3>1. n \in Waiting(x) <=>
            n \in Range(buffer[x]) \/ \E b \in Calls \ {c} : Carries(b, x) /\ n \in Range(data[b])
      BY <1>3, OnItsWay
    <3>2. n \in Waiting(x)' <=>
            \/ n \in Range(buffer'[x])
            \/ x = y /\ n \in Range(data'[c])
            \/ \E b \in Calls \ {c} : Carries(b, x) /\ n \in Range(data[b])
      BY <1>1, <1>2, <1>3, OnItsWayNext
    <3>3. QED
      BY <1>4, <1>5, <3>1, <3>2
  <2>2. QED
    BY <2>1
<1>7. [x \in Shells |-> Waiting(x)]' = [x \in Shells |-> Waiting(x)]
  BY <1>6
<1>8. QED
  BY <1>1, <1>7 DEF Channel!vars

\* The output in an answer is lost, wherever the answer goes.
LEMMA AnswerLoses ==
  ASSUME NEW c \in Calls, NEW y \in Shells, UNCHANGED <<read, shown, buffer>>, Carries(c, y),
         \A x \in Shells : ~Carries(c, x)',
         \A x \in Shells, b \in Calls \ {c} : (Carries(b, x)' <=> Carries(b, x)) /\ data'[b] = data[b]
  PROVE  Channel!Lose(y)
<1>1. \A x \in Shells : Carries(c, x) => x = y
  BY DEF Carries
<1>2. Waiting(y)' \subseteq Waiting(y)
  BY OnItsWay, OnItsWayNext
<1>3. ASSUME NEW x \in Shells \ {y} PROVE Waiting(x)' = Waiting(x)
  <2>1. \A n : n \in Waiting(x)' <=> n \in Waiting(x)
    BY <1>1, OnItsWay, OnItsWayNext
  <2>2. QED
    BY <2>1
<1>4. QED
  BY <1>2, <1>3, Loses

\* A poll that runs for nobody empties the buffer, and its output is lost.
LEMMA StrayPollLoses ==
  ASSUME TypeOK, NEW y, Poll(y), UNCHANGED <<callVars, read, shown>>
  PROVE  UNCHANGED Channel!vars \/ \E x \in Shells : Channel!Lose(x)
<1>1. \A x \in Shells, c \in Calls : (Carries(c, x)' <=> Carries(c, x)) /\ data'[c] = data[c]
  BY DEF Carries
<1>2. CASE y \notin table
  <2>1. buffer' = buffer
    BY <1>2 DEF Poll, Emptied
  <2>2. QED
    BY <1>1, <2>1, NothingMoves
<1>3. CASE y \in table
  <2>1. y \in Shells /\ buffer'[y] = <<>> /\ \A x \in Shells \ {y} : buffer'[x] = buffer[x]
    BY <1>3 DEF Poll, Emptied, TypeOK, ServerTypeOK
  <2>2. Waiting(y)' \subseteq Waiting(y)
    BY <1>1, <2>1, OnItsWay, OnItsWayNext, EmptySequence
  <2>3. ASSUME NEW x \in Shells \ {y} PROVE Waiting(x)' = Waiting(x)
    <3>1. \A n : n \in Waiting(x)' <=> n \in Waiting(x)
      BY <1>1, <2>1, OnItsWay, OnItsWayNext
    <3>2. QED
      BY <3>1
  <2>4. Channel!Lose(y)
    BY <2>1, <2>2, <2>3, Loses
  <2>5. QED
    BY <2>1, <2>4
<1>4. QED
  BY <1>2, <1>3

-----------------------------------------------------------------------------
(* The readers.                                                            *)

LEMMA CutKeepsTheLast ==
  ASSUME NEW r \in Nat, NEW s \in Seq(Nat), Len(s) <= MaxBuffer,
         \A i \in 1 .. Len(s) : s[i] = r - Len(s) + i,
         NEW t, t = CutFront(Append(s, r + 1))
  PROVE  r + 1 \in Range(t)
<1> DEFINE full == Append(s, r + 1)
<1>1. full \in Seq(Nat) /\ Len(full) = Len(s) + 1 /\ Len(s) \in Nat /\ MaxBuffer \in Nat \ {0}
  BY ConstantsAssumption
<1>2. /\ t \in Seq(Nat) /\ Len(t) >= 1
      /\ \A i \in 1 .. Len(t) : t[i] = r + 1 - Len(t) + i
  <2>1. \A i \in 1 .. Len(t) : t[i] = r + 1 - Len(t) + i
    BY CutKeepsTheEnd
  <2>2. CASE Len(full) > MaxBuffer
    <3>1. Len(full) - MaxBuffer + 1 \in 1 .. Len(full)
      BY <1>1, <2>2
    <3>2. t = SubSeq(full, Len(full) - MaxBuffer + 1, Len(full))
      BY <2>2 DEF CutFront
    <3>3. t \in Seq(Nat) /\ Len(t) = Len(full) - (Len(full) - MaxBuffer + 1) + 1
      BY <1>1, <3>1, <3>2, EndOfSequence
    <3>4. QED
      BY <1>1, <2>1, <3>3
  <2>3. CASE ~(Len(full) > MaxBuffer)
    BY <1>1, <2>1, <2>3 DEF CutFront
  <2>4. QED
    BY <2>2, <2>3
<1>3. Len(t) \in DOMAIN t /\ t[Len(t)] = r + 1
  BY <1>2
<1>4. QED
  BY <1>3 DEF Range

\* A reader adds a piece, for which the oldest of a full buffer may be cut.
LEMMA ReadProduces ==
  ASSUME TypeOK, OnceInv, NEW y \in Shells, Read(y)
  PROVE  Channel!Produce(y)
<1> DEFINE r == read[y]
           kept == Waiting(y)' \ {r + 1}
<1>1. /\ r \in Nat /\ buffer[y] \in Seq(Nat)
      /\ buffer' = [buffer EXCEPT ![y] = CutFront(Append(buffer[y], r + 1))]
      /\ read' = [read EXCEPT ![y] = @ + 1]
      /\ UNCHANGED <<callVars, shown>>
  BY DEF Read, TypeOK, ServerTypeOK, HistoryTypeOK
<1>2. \A x \in Shells, c \in Calls : (Carries(c, x)' <=> Carries(c, x)) /\ data'[c] = data[c]
  BY <1>1 DEF Carries
<1>3. /\ r + 1 \in Range(buffer'[y])
      /\ Range(buffer'[y]) \subseteq Range(buffer[y]) \cup {r + 1}
  <2>1. buffer'[y] = CutFront(Append(buffer[y], r + 1))
    BY <1>1 DEF TypeOK, ServerTypeOK
  <2>2. /\ Len(buffer[y]) <= MaxBuffer
        /\ \A i \in 1 .. Len(buffer[y]) : buffer[y][i] = r - Len(buffer[y]) + i
    BY DEF OnceInv, BufferHoldsTheLatest
  <2>3. QED
    BY <1>1, <2>1, <2>2, CutKeepsTheEnd, CutKeepsTheLast
<1>4. kept \in SUBSET Waiting(y) /\ Waiting(y)' = kept \cup {r + 1}
  <2>1. \A n \in kept : n \in Waiting(y)
    BY <1>2, <1>3, OnItsWay, OnItsWayNext
  <2>2. r + 1 \in Waiting(y)'
    BY <1>3, OnItsWayNext
  <2>3. QED
    BY <2>1, <2>2
<1>5. ASSUME NEW x \in Shells \ {y} PROVE Waiting(x)' = Waiting(x)
  <2>1. buffer'[x] = buffer[x]
    BY <1>1 DEF TypeOK, ServerTypeOK
  <2>2. \A n : n \in Waiting(x)' <=> n \in Waiting(x)
    BY <1>2, <2>1, OnItsWay, OnItsWayNext
  <2>3. QED
    BY <2>2
<1> HIDE DEF kept
<1>6. /\ kept \in SUBSET ([x \in Shells |-> Waiting(x)][y])
      /\ [x \in Shells |-> Waiting(x)]'
           = [[x \in Shells |-> Waiting(x)] EXCEPT ![y] = kept \cup {r + 1}]
  BY <1>4, <1>5
<1>7. QED
  BY <1>1, <1>6 DEF Channel!Produce

-----------------------------------------------------------------------------
(* The answers.                                                            *)

\* An answer that arrives is shown, or lost where there is no renderer.
LEMMA AnswerArrives ==
  ASSUME TypeOK, OnceInv, BatchInv,
         NEW c \in Calls, PollAnswered(c)
  PROVE  \E x \in Shells : Channel!Show(x) \/ Channel!Lose(x)
<1> PICK y \in Shells : y = target[c]
  BY DEF PollAnswered, Arrived, TypeOK, CallTypeOK
<1>1. /\ Carries(c, y) /\ UNCHANGED <<buffer, read>>
      /\ shown' = IF display THEN [shown EXCEPT ![y] = @ \o data[c]] ELSE shown
      /\ Free(c)
  BY DEF PollAnswered, Arrived, Carries, Shows, Written
<1>2. /\ \A x \in Shells : ~Carries(c, x)'
      /\ \A x \in Shells, b \in Calls \ {c} : (Carries(b, x)' <=> Carries(b, x)) /\ data'[b] = data[b]
  BY <1>1, PutCarries DEF Free
<1>3. CASE ~display
  BY <1>1, <1>2, <1>3, AnswerLoses
<1>4. CASE display
  <2> DEFINE batch == data[c]
             n == Len(data[c])
  <2>1. batch \in Seq(Nat) /\ n \in 0 .. MaxBuffer /\ Increasing(batch)
    BY <1>1, ConstantsAssumption DEF TypeOK, CallTypeOK, BatchInv
  <2>2. batch \in [1 .. n -> Waiting(y)]
    <3>1. \A i \in 1 .. n : batch[i] \in Range(batch)
      BY <2>1 DEF Range
    <3>2. \A m \in Range(batch) : m \in Waiting(y)
      BY <1>1, OnItsWay
    <3>3. QED
      BY <2>1, <3>1, <3>2
  <2>4. Waiting(y)' = Waiting(y) \ Range(batch)
    <3>1. /\ \A m \in Range(batch) : m \notin Range(buffer[y])
          /\ \A b \in Calls \ {c} : Carries(b, y) => \A m \in Range(batch) : m \notin Range(data[b])
      BY <1>1 DEF OnceInv, ShownOnce, Disjoint
    <3>2. \A m : m \in Waiting(y)' <=> m \in Waiting(y) /\ m \notin Range(batch)
      BY <1>1, <1>2, <3>1, OnItsWay, OnItsWayNext
    <3>3. QED
      BY <3>2
  <2>5. ASSUME NEW x \in Shells \ {y} PROVE Waiting(x)' = Waiting(x)
    <3>1. ~Carries(c, x)
      BY <1>1 DEF Carries
    <3>2. \A m : m \in Waiting(x)' <=> m \in Waiting(x)
      BY <1>1, <1>2, <3>1, OnItsWay, OnItsWayNext
    <3>3. QED
      BY <3>2
  <2>6. /\ batch \in [1 .. n -> [x \in Shells |-> Waiting(x)][y]]
        /\ [x \in Shells |-> Waiting(x)]'
             = [[x \in Shells |-> Waiting(x)] EXCEPT ![y] = @ \ Range(batch)]
    BY <2>2, <2>4, <2>5
  <2>7. shown' = [shown EXCEPT ![y] = @ \o batch] /\ read' = read
    BY <1>1, <1>4
  <2>8. Channel!Ascending(batch)
    BY <2>1 DEF Increasing, Channel!Ascending
  <2> HIDE DEF batch, n
  <2>9. Channel!Show(y)
    <3>1. n \in 0 .. MaxBuffer
      BY <2>1
    <3>2. \E m \in 0 .. MaxBuffer : \E b \in [1 .. m -> [x \in Shells |-> Waiting(x)][y]] :
            /\ Channel!Ascending(b)
            /\ shown' = [shown EXCEPT ![y] = @ \o b]
            /\ [x \in Shells |-> Waiting(x)]'
                 = [[x \in Shells |-> Waiting(x)] EXCEPT ![y] = @ \ Range(b)]
            /\ UNCHANGED read
      BY <2>6, <2>7, <2>8, <3>1
    <3>3. QED
      BY <3>2 DEF Channel!Show, Channel!Range, Range
  <2>10. QED
    BY <2>9
<1>5. QED
  BY <1>3, <1>4

-----------------------------------------------------------------------------
(* Answers are batches.                                                    *)

LEMMA BatchKept ==
  ASSUME BatchInv,
         \A x \in Shells, c \in Calls : Carries(c, x)' => Carries(c, x) /\ data'[c] = data[c]
  PROVE  BatchInv'
BY DEF BatchInv

LEMMA PutBatch ==
  ASSUME TypeOK, BatchInv, NEW c \in Calls, NEW k, NEW z, NEW d, NEW again, Put(c, k, z, d, again)
  PROVE  BatchInv'
<1>1. \A x \in Shells, b \in Calls : Carries(b, x)' => Carries(b, x) /\ data'[b] = data[b]
  BY PutCarries
<1>2. QED
  BY <1>1, BatchKept

LEMMA StageBatch ==
  ASSUME BatchInv, NEW c \in Calls, UNCHANGED kind,
         \A b \in Calls \ {c} : stage'[b] = stage[b] /\ target'[b] = target[b] /\ data'[b] = data[b],
         kind[c] # "poll" \/ stage'[c] = "failed"
  PROVE  BatchInv'
<1>1. \A x \in Shells, b \in Calls : Carries(b, x)' => Carries(b, x) /\ data'[b] = data[b]
  BY DEF Carries
<1>2. QED
  BY <1>1, BatchKept

\* A poll takes a buffer, which is in order and bounded.
LEMMA PollBatch ==
  ASSUME TypeOK, OnceInv, BatchInv, NEW c \in Calls, HandlePoll(c)
  PROVE  BatchInv'
<1> PICK y \in Shells : y = target[c]
  BY DEF HandlePoll, Handled, TypeOK, CallTypeOK
<1>1. /\ data'[c] = Output(y) /\ UNCHANGED kind
      /\ \A b \in Calls \ {c} : stage'[b] = stage[b] /\ target'[b] = target[b] /\ data'[b] = data[b]
  BY DEF HandlePoll, Handled, Poll, Answer, TypeOK, CallTypeOK
<1>2. \A x \in Shells, b \in Calls \ {c} : Carries(b, x)' <=> Carries(b, x)
  BY <1>1 DEF Carries
<1>3. Increasing(data'[c]) /\ Len(data'[c]) <= MaxBuffer
  <2>1. Increasing(buffer[y]) /\ Len(buffer[y]) <= MaxBuffer
    BY BufferInOrder DEF OnceInv, BufferHoldsTheLatest
  <2>2. Increasing(<<>>) /\ Len(<<>>) <= MaxBuffer
    BY EmptyOrder, ConstantsAssumption
  <2>3. QED
    BY <1>1, <2>1, <2>2 DEF Output
<1>4. QED
  BY <1>1, <1>2, <1>3 DEF BatchInv

LEMMA BatchStep ==
  ASSUME TypeOK, OnceInv, BatchInv, [Next]_vars
  PROVE  BatchInv'
<1>1. ASSUME NEW c \in Calls,
             \/ OpenTerminal(c) \/ Type(c) \/ Tick(c)
             \/ \E again \in BOOLEAN : CloseTerminal(c, again)
      PROVE  BatchInv'
  BY <1>1, PutBatch DEF OpenTerminal, Type, Tick, CloseTerminal
<1>2. ASSUME NEW c \in Calls, Handle(c) PROVE BatchInv'
  <2>1. CASE HandlePoll(c)
    BY <2>1, PollBatch
  <2>2. CASE HandleOpen(c) \/ HandleInput(c) \/ HandleClose(c)
    <3>1. kind[c] # "poll" /\ UNCHANGED kind
          /\ \A b \in Calls \ {c} : stage'[b] = stage[b] /\ target'[b] = target[b] /\ data'[b] = data[b]
      BY <2>2 DEF HandleOpen, HandleInput, HandleClose, Handled, Answer, TypeOK, CallTypeOK
    <3>2. QED
      BY <3>1, StageBatch
  <2>3. CASE Refuse(c)
    BY <2>3, StageBatch DEF Refuse, TypeOK, CallTypeOK
  <2>4. QED
    BY <1>2, <2>1, <2>2, <2>3 DEF Handle
<1>3. ASSUME NEW c \in Calls, Done(c) PROVE BatchInv'
  <2>1. CASE OpenDone(c) \/ PollAnswered(c) \/ PollFailed(c) \/ InputDone(c)
    BY <2>1, PutBatch DEF OpenDone, PollAnswered, PollFailed, InputDone, Free
  <2>2. CASE CloseDone(c)
    BY <2>2, PutBatch DEF CloseDone, Free
  <2>3. QED
    BY <1>3, <2>1, <2>2 DEF Done
<1>4. ASSUME NEW c \in Calls, GiveUp(c) \/ AnswerLost(c) PROVE BatchInv'
  BY <1>4, StageBatch DEF GiveUp, AnswerLost, TypeOK, CallTypeOK
<1>5. CASE \/ CloseNothing \/ StrayRuns \/ SessionLost \/ Reconnect \/ UNCHANGED vars
           \/ \E x \in Shells : Read(x) \/ ProcessExits(x) \/ WatchProcess(x)
  <2>1. UNCHANGED callVars
    BY <1>5 DEF CloseNothing, StrayRuns, SessionLost, Reconnect, Read, ProcessExits, WatchProcess
  <2>2. QED
    BY <2>1, BatchKept DEF Carries
<1>6. QED
  BY <1>1, <1>2, <1>3, <1>4, <1>5 DEF Next, Click, Fault

-----------------------------------------------------------------------------
(* Every step is a step of the channel, or none.                           *)

LEMMA ChannelStep ==
  ASSUME TypeOK, OnceInv, BatchInv, [Next]_vars
  PROVE  [Channel!Next]_(Channel!vars)
<1> DEFINE Maps == UNCHANGED Channel!vars
                   \/ \E x \in Shells : Channel!Produce(x) \/ Channel!Show(x) \/ Channel!Lose(x)
<1> SUFFICES Maps
  BY DEF Channel!Next
<1>1. ASSUME NEW c \in Calls,
             \/ OpenTerminal(c) \/ Type(c) \/ Tick(c)
             \/ \E again \in BOOLEAN : CloseTerminal(c, again)
      PROVE  Maps
  BY <1>1, PutMovesNothing DEF OpenTerminal, Type, Tick, CloseTerminal
<1>2. ASSUME NEW c \in Calls, Handle(c) PROVE Maps
  <2>1. CASE HandlePoll(c)
    BY <2>1, PollTakes
  <2>2. CASE HandleOpen(c) \/ HandleInput(c) \/ HandleClose(c)
    <3>1. kind[c] # "poll" /\ UNCHANGED <<kind, read, shown, buffer>>
          /\ \A b \in Calls \ {c} : stage'[b] = stage[b] /\ target'[b] = target[b] /\ data'[b] = data[b]
      BY <2>2 DEF HandleOpen, HandleInput, HandleClose, Handled, Open, Input, Close, Answer,
                  TypeOK, CallTypeOK
    <3>2. QED
      BY <3>1, StageMovesNothing
  <2>3. CASE Refuse(c)
    BY <2>3, StageMovesNothing DEF Refuse, Handled, TypeOK, CallTypeOK
  <2>4. QED
    BY <1>2, <2>1, <2>2, <2>3 DEF Handle
<1>3. ASSUME NEW c \in Calls, Done(c) PROVE Maps
  <2>1. CASE PollAnswered(c)
    BY <2>1, AnswerArrives
  <2>2. CASE OpenDone(c) \/ PollFailed(c) \/ InputDone(c)
    BY <2>2, PutMovesNothing DEF OpenDone, PollFailed, InputDone, Arrived, Free
  <2>3. CASE CloseDone(c)
    BY <2>3, PutMovesNothing DEF CloseDone, Arrived, Free
  <2>4. QED
    BY <1>3, <2>1, <2>2, <2>3 DEF Done
<1>4. ASSUME NEW x \in Shells, Read(x) PROVE Maps
  BY <1>4, ReadProduces
<1>5. ASSUME NEW c \in Calls, GiveUp(c) PROVE Maps
  BY <1>5, StageMovesNothing DEF GiveUp, Handled, TypeOK, CallTypeOK
<1>6. ASSUME NEW c \in Calls, AnswerLost(c) PROVE Maps
  <2>1. /\ kind[c] # "free" /\ stage[c] = "answered" /\ stage'[c] = "failed"
        /\ UNCHANGED <<kind, read, shown, buffer>>
        /\ \A b \in Calls \ {c} : stage'[b] = stage[b] /\ target'[b] = target[b] /\ data'[b] = data[b]
    BY <1>6 DEF AnswerLost, TypeOK, CallTypeOK
  <2>2. CASE kind[c] # "poll"
    BY <2>1, <2>2, StageMovesNothing
  <2>3. CASE kind[c] = "poll"
    <3>1. PICK y \in Shells : y = target[c]
      BY <2>3 DEF TypeOK, CallTypeOK
    <3>2. Carries(c, y) /\ \A x \in Shells : ~Carries(c, x)'
      BY <2>1, <2>3, <3>1 DEF Carries
    <3>3. \A x \in Shells, b \in Calls \ {c} : (Carries(b, x)' <=> Carries(b, x)) /\ data'[b] = data[b]
      BY <2>1 DEF Carries
    <3>4. Channel!Lose(y)
      BY <2>1, <3>2, <3>3, AnswerLoses
    <3>5. QED
      BY <3>4
  <2>4. QED
    BY <2>2, <2>3
<1>7. CASE StrayRuns
  <2>1. (buffer' = buffer \/ \E y : Poll(y)) /\ UNCHANGED <<callVars, read, shown>>
    BY <1>7 DEF StrayRuns, Open, Input, Close
  <2>2. ASSUME buffer' = buffer PROVE Maps
    BY <2>1, <2>2, NothingMoves DEF Carries
  <2>3. QED
    BY <2>1, <2>2, StrayPollLoses
<1>8. CASE \/ CloseNothing \/ SessionLost \/ Reconnect \/ UNCHANGED vars
           \/ \E x \in Shells : ProcessExits(x) \/ WatchProcess(x)
  <2>1. UNCHANGED <<callVars, buffer, read, shown>>
    BY <1>8 DEF CloseNothing, SessionLost, Reconnect, ProcessExits, WatchProcess
  <2>2. QED
    BY <2>1, NothingMoves DEF Carries
<1> HIDE DEF Maps
<1>9. QED
  BY <1>1, <1>2, <1>3, <1>4, <1>5, <1>6, <1>7, <1>8 DEF Next, Click, Fault

LEMMA ChannelInit == Init => BatchInv /\ Channel!Init
<1> SUFFICES ASSUME Init PROVE BatchInv /\ Channel!Init
  OBVIOUS
<1>1. \A c \in Calls, x \in Shells : ~Carries(c, x)
  BY DEF Init, Carries
<1>2. \A x \in Shells : Waiting(x) = {}
  BY <1>1, OnItsWay, EmptySequence DEF Init
<1>3. QED
  BY <1>1, <1>2 DEF Init, BatchInv, Channel!Init

\* A terminal is a channel: whatever becomes of polls, answers and sessions, its
\* output is read, shown in batches that are in order, or lost, and what is lost
\* or shown is not shown again.
THEOREM OutputIsAChannel == Spec => ChannelSpec
<1>1. TypeOK /\ OnceInv /\ [Next]_vars => OnceInv'
  BY TypeStep, OnceStep
<1>2. TypeOK /\ OnceInv /\ BatchInv /\ [Next]_vars => BatchInv'
  BY BatchStep
<1>3. TypeOK /\ OnceInv /\ BatchInv /\ [Next]_vars => [Channel!Next]_(Channel!vars)
  BY ChannelStep
<1>4. QED
  BY <1>1, <1>2, <1>3, ChannelInit, OnceInit, TypeCorrect, PTL
  DEF Spec, ChannelSpec, Channel!Spec
=============================================================================
