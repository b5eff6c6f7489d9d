--------------------------- MODULE OutputChannel ---------------------------
(***************************************************************************)
(* What a terminal promises of the output of its shells, whatever becomes  *)
(* of polls, answers and sessions on the way to the screen.  A piece waits *)
(* from the moment it is read until it is put on the screen or lost; what  *)
(* is lost stays lost, and what is on the screen stays as it is.  Pieces   *)
(* come to the screen in batches, each in order.                           *)
(***************************************************************************)
EXTENDS Naturals, Sequences, Functions

CONSTANTS
  Shells,
  MaxBatch   \* the most pieces that are put on the screen at once

VARIABLES
  read,      \* how many pieces were read from each shell
  waiting,   \* the pieces that are still to be shown
  screen     \* the pieces on the screen, in that order

vars == <<read, waiting, screen>>

Ascending(s) == \A i, j \in 1 .. Len(s) : i < j => s[i] < s[j]

Init ==
  /\ read = [x \in Shells |-> 0]
  /\ waiting = [x \in Shells |-> {}]
  /\ screen = [x \in Shells |-> <<>>]

\* A piece is read; older ones may give way to it.
Produce(x) ==
  \E kept \in SUBSET waiting[x] :
    /\ read' = [read EXCEPT ![x] = @ + 1]
    /\ waiting' = [waiting EXCEPT ![x] = kept \cup {read[x] + 1}]
    /\ UNCHANGED screen

Show(x) ==
  \E n \in 0 .. MaxBatch : \E batch \in [1 .. n -> waiting[x]] :
    /\ Ascending(batch)
    /\ screen' = [screen EXCEPT ![x] = @ \o batch]
    /\ waiting' = [waiting EXCEPT ![x] = @ \ Range(batch)]
    /\ UNCHANGED read

Lose(x) ==
  \E kept \in SUBSET waiting[x] :
    /\ waiting' = [waiting EXCEPT ![x] = kept]
    /\ UNCHANGED <<read, screen>>

Next == \E x \in Shells : Produce(x) \/ Show(x) \/ Lose(x)

Spec == Init /\ [][Next]_vars
=============================================================================
