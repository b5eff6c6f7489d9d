-------------------------- MODULE ConnectionProofs --------------------------
(***************************************************************************)
(* What Connection keeps for any number of calls, hosts, keys and edits:   *)
(* types, the two properties about credentials, which need no assumption,  *)
(* and the two about what is stored, which exclude the crossings that      *)
(* their history variables record.                                         *)
(***************************************************************************)
EXTENDS Connection, TLAPS

\* A call that is under way is about a host.
Located == \A c \in Calls : pc[c] # "idle" => host[c] \in Hosts

TypeInv == TypeOK /\ Located

LEMMA NoneIsNoKey == None \notin Keys /\ None \notin Hosts /\ MaxCalls \in Nat
                       /\ MaxChanges \in Nat /\ MaxEdits \in Nat
BY ConstantsAssumption

LEMMA InitTyped == Init => TypeInv
<1> SUFFICES ASSUME Init PROVE TypeInv
  OBVIOUS
<1>1. Empty \in File /\ NoOptions \in Options /\ 0 \in 0..MaxEdits /\ 0 \in 0..MaxChanges
      /\ 0 \in 0..MaxCalls
  BY NoneIsNoKey DEF Empty, File, NoOptions, Options
<1>2. pc \in [Calls -> Points] /\ lines \in [Calls -> File] /\ options \in [Calls -> Options]
  BY <1>1 DEF Init, Points
<1> QED
  BY <1>1, <1>2 DEF Init, TypeInv, TypeOK, Located

\* What a call that returns leaves behind.
LEMMA ReturnTyped ==
  ASSUME TypeInv, NEW c \in Calls, Return(c)
  PROVE  /\ pc' \in [Calls -> Points] /\ host' \in [Calls -> Hosts \cup {None}]
         /\ key' \in [Calls -> Keys \cup {None}] /\ profile' \in [Calls -> 0..MaxEdits]
         /\ lines' \in [Calls -> File] /\ options' \in [Calls -> Options]
         /\ Located'
<1>1. Empty \in File /\ NoOptions \in Options /\ 0 \in 0..MaxEdits
  BY NoneIsNoKey DEF Empty, File, NoOptions, Options
<1> QED
  BY <1>1 DEF TypeInv, TypeOK, Located, Return, Goto, Points

\* Every action keeps the types, and every call its host.
LEMMA NextTyped == TypeInv /\ [Next]_vars => TypeInv'
<1> SUFFICES ASSUME TypeInv, [Next]_vars PROVE TypeInv'
  OBVIOUS
<1> USE NoneIsNoKey
<1>1. ASSUME NEW c \in Calls, BeginLook(c) PROVE TypeInv'
  BY <1>1 DEF BeginLook, Starts, Goto, TypeInv, TypeOK, Located, storeVars, histVars, Points
<1>2. ASSUME NEW c \in Calls, BeginTrust(c) PROVE TypeInv'
  <2>1. offer \in HostKeyInfo /\ offer.host \in Hosts /\ offer.key \in Keys
    BY <1>2 DEF BeginTrust, TypeInv, TypeOK, HostKeyInfo
  <2> QED
    BY <1>2, <2>1 DEF BeginTrust, Starts, Goto, TypeInv, TypeOK, Located, storeVars, Points,
       Trusting, TrustInFlight
<1>3. ASSUME NEW c \in Calls, BeginConnect(c) PROVE TypeInv'
  BY <1>3 DEF BeginConnect, Starts, Goto, TypeInv, TypeOK, Located, storeVars, histVars,
     Points, Connecting
<1>4. ASSUME NEW c \in Calls, ProbeFails(c) PROVE TypeInv'
  BY <1>4, ReturnTyped DEF ProbeFails, TypeInv, TypeOK, worldVars, storeVars, histVars
<1>5. ASSUME NEW c \in Calls, Look(c) PROVE TypeInv'
  <2>1. host[c] \in Hosts
    BY <1>5 DEF Look, TypeInv, Located
  <2>2. offer' \in HostKeyInfo \cup {None}
    BY <1>5, <2>1 DEF Look, TypeInv, TypeOK, HostKeyInfo, Shown
  <2> QED
    BY <1>5, <2>2, ReturnTyped DEF Look, TypeInv, TypeOK, worldVars, storeVars, TrustInFlight
<1>6. ASSUME NEW c \in Calls, ReadLines(c) PROVE TypeInv'
  <2>1. Kept(c) \in File
    BY DEF Kept, TypeInv, TypeOK, File
  <2> QED
    BY <1>6, <2>1 DEF ReadLines, Goto, TypeInv, TypeOK, Located, worldVars, storeVars,
       histVars, Points, Trusting
<1>7. ASSUME NEW c \in Calls, Truncate(c) PROVE TypeInv'
  BY <1>7 DEF Truncate, Goto, TypeInv, TypeOK, Located, worldVars, histVars, Points, Trusting,
     File, Empty
<1>8. ASSUME NEW c \in Calls, WriteLines(c) PROVE TypeInv'
  BY <1>8, ReturnTyped DEF WriteLines, TypeInv, TypeOK, worldVars, histVars
<1>9. ASSUME NEW c \in Calls, Revalidate(c) PROVE TypeInv'
  <2>1. host[c] \in Hosts
    BY <1>9 DEF Revalidate, TypeInv, Located
  <2>2. CASE Trusted(host[c])
    BY <1>9, <2>1, <2>2 DEF Revalidate, Goto, TypeInv, TypeOK, Located, worldVars, storeVars,
       histVars, Points, Connecting
  <2>3. CASE ~Trusted(host[c])
    BY <1>9, <2>3, ReturnTyped DEF Revalidate, TypeInv, TypeOK, worldVars, storeVars, histVars
  <2> QED
    BY <2>2, <2>3
<1>10. ASSUME NEW c \in Calls, Secrets(c) PROVE TypeInv'
  <2>1. SecretAfter(c) \subseteq BOOLEAN
    BY DEF SecretAfter, TypeInv, TypeOK
  <2>2. HasPassword(c) \in BOOLEAN
    BY DEF HasPassword, TypeInv, TypeOK, Options
  <2>3. options' \in [Calls -> Options]
    BY <1>10, <2>2 DEF Secrets, TypeInv, TypeOK, Options
  <2> QED
    BY <1>10, <2>1, <2>3 DEF Secrets, Goto, TypeInv, TypeOK, Located, worldVars, histVars,
       Points, Connecting
<1>11. ASSUME NEW c \in Calls, KeyringFails(c) PROVE TypeInv'
  <2>1. SecretAfter(c) \subseteq BOOLEAN
    BY DEF SecretAfter, TypeInv, TypeOK
  <2> QED
    BY <1>11, <2>1, ReturnTyped DEF KeyringFails, TypeInv, TypeOK, worldVars, histVars
<1>12. ASSUME NEW c \in Calls, SaveRow(c) PROVE TypeInv'
  BY <1>12 DEF SaveRow, Goto, TypeInv, TypeOK, Located, worldVars, histVars, Points, Connecting
<1>13. ASSUME NEW c \in Calls, LoadKnownHosts(c) PROVE TypeInv'
  <2>1. known_hosts[host[c]] \in Keys \cup {None}
    BY <1>13 DEF LoadKnownHosts, TypeInv, TypeOK, Located, File
  <2> QED
    BY <1>13, <2>1 DEF LoadKnownHosts, Goto, TypeInv, TypeOK, Located, worldVars, storeVars,
       histVars, Points, Connecting
<1>14. ASSUME NEW c \in Calls, Authenticate(c) PROVE TypeInv'
  BY <1>14, ReturnTyped DEF Authenticate, TypeInv, TypeOK, worldVars, storeVars, histVars
<1>15. ASSUME NEW c \in Calls, ConnectFails(c) PROVE TypeInv'
  BY <1>15, ReturnTyped DEF ConnectFails, TypeInv, TypeOK, worldVars, storeVars, histVars
<1>16. CASE Edit
  BY <1>16 DEF Edit, TypeInv, TypeOK, Located, worldVars, callVars
<1>17. CASE Kill
  BY <1>17 DEF Kill, TypeInv, TypeOK, Located, worldVars, storeVars, Points, File, Empty,
     Options, NoOptions, TrustInFlight
<1>18. CASE KeyChanges
  BY <1>18 DEF KeyChanges, TypeInv, TypeOK, Located, storeVars, callVars, histVars
<1>19. CASE UNCHANGED vars
  BY <1>19 DEF vars, worldVars, storeVars, callVars, histVars, TypeInv, TypeOK, Located
<1> QED
  BY <1>1, <1>2, <1>3, <1>4, <1>5, <1>6, <1>7, <1>8, <1>9, <1>10, <1>11, <1>12, <1>13, <1>14,
     <1>15, <1>16, <1>17, <1>18, <1>19 DEF Next, Begin, Call, Rest

LEMMA AlwaysTyped == Spec => []TypeInv
BY InitTyped, NextTyped, PTL DEF Spec

\* Every variable of the connection flow keeps its type.
THEOREM TypeCorrect == Spec => []TypeOK
BY AlwaysTyped, PTL DEF TypeInv

-----------------------------------------------------------------------------
(* Credentials.  A line of the file, a line that a trust is about to write *)
(* and a key that a connect expects were all confirmed for their host.     *)

IsConfirmed(h, k) == [host |-> h, key |-> k] \in confirmed

FileIsConfirmed ==
  \A h \in Hosts : known_hosts[h] # None => IsConfirmed(h, known_hosts[h])

LinesAreConfirmed ==
  \A c \in Calls :
    /\ pc[c] = "read" => IsConfirmed(host[c], key[c])
    /\ pc[c] \in {"truncate", "write"} =>
         \A h \in Hosts : lines[c][h] # None => IsConfirmed(h, lines[c][h])

ExpectedIsConfirmed ==
  \A c \in Calls :
    /\ pc[c] \in {"secrets", "saveRow"} => IsConfirmed(host[c], key[c])
    /\ pc[c] = "connect" => key[c] = None \/ IsConfirmed(host[c], key[c])

ConfirmedInv == FileIsConfirmed /\ LinesAreConfirmed /\ ExpectedIsConfirmed

LEMMA InitConfirmed == Init => ConfirmedInv
BY DEF Init, ConfirmedInv, FileIsConfirmed, LinesAreConfirmed, ExpectedIsConfirmed, Empty

\* A call that returns, with the file and the confirmed keys as they were.
LEMMA ReturnConfirmed ==
  ASSUME TypeInv, ConfirmedInv, NEW c \in Calls, Return(c), UNCHANGED <<known_hosts, confirmed>>
  PROVE  ConfirmedInv'
<1>1. pc'[c] = "idle" /\ \A b \in Calls : b # c =>
        /\ pc'[b] = pc[b] /\ host'[b] = host[b] /\ key'[b] = key[b] /\ lines'[b] = lines[b]
  BY DEF Return, Goto, TypeInv, TypeOK
<1> QED
  BY <1>1 DEF ConfirmedInv, FileIsConfirmed, LinesAreConfirmed, ExpectedIsConfirmed, IsConfirmed

\* Whatever an action does, what the file, the lines and the calls name is confirmed.
LEMMA NextConfirmed == TypeInv /\ ConfirmedInv /\ [Next]_vars => ConfirmedInv'
<1> SUFFICES ASSUME TypeInv, ConfirmedInv, [Next]_vars PROVE ConfirmedInv'
  OBVIOUS
<1> USE DEF ConfirmedInv, FileIsConfirmed, LinesAreConfirmed, ExpectedIsConfirmed, IsConfirmed
<1>1. ASSUME NEW c \in Calls, BeginLook(c) PROVE ConfirmedInv'
  BY <1>1 DEF BeginLook, Starts, Goto, TypeInv, TypeOK, storeVars, histVars
<1>2. ASSUME NEW c \in Calls, BeginTrust(c) PROVE ConfirmedInv'
  <2>1. offer = [host |-> offer.host, key |-> offer.key]
    BY <1>2 DEF BeginTrust, TypeInv, TypeOK, HostKeyInfo
  <2> QED
    BY <1>2, <2>1 DEF BeginTrust, Starts, Goto, TypeInv, TypeOK, storeVars
<1>3. ASSUME NEW c \in Calls, BeginConnect(c) PROVE ConfirmedInv'
  BY <1>3 DEF BeginConnect, Starts, Goto, TypeInv, TypeOK, storeVars, histVars
<1>4. ASSUME NEW c \in Calls, ProbeFails(c) \/ Authenticate(c) \/ ConnectFails(c)
      PROVE ConfirmedInv'
  BY <1>4, ReturnConfirmed DEF ProbeFails, Authenticate, ConnectFails, storeVars, histVars
<1>5. ASSUME NEW c \in Calls, Look(c) PROVE ConfirmedInv'
  BY <1>5, ReturnConfirmed DEF Look, storeVars
<1>6. ASSUME NEW c \in Calls, ReadLines(c) PROVE ConfirmedInv'
  <2>1. host[c] \in Hosts /\ IsConfirmed(host[c], key[c])
    BY <1>6 DEF ReadLines, TypeInv, Located
  <2>2. \A h \in Hosts : Kept(c)[h] # None => IsConfirmed(h, Kept(c)[h])
    BY <2>1 DEF Kept, TypeInv, TypeOK, File
  <2>3. /\ pc'[c] = "truncate" /\ lines'[c] = Kept(c)
        /\ \A b \in Calls : b # c => pc'[b] = pc[b] /\ lines'[b] = lines[b]
    BY <1>6 DEF ReadLines, Goto, TypeInv, TypeOK
  <2> QED
    BY <1>6, <2>2, <2>3 DEF ReadLines, storeVars, histVars
<1>7. ASSUME NEW c \in Calls, Truncate(c) PROVE ConfirmedInv'
  BY <1>7 DEF Truncate, Goto, TypeInv, TypeOK, histVars, Empty
<1>8. ASSUME NEW c \in Calls, WriteLines(c) PROVE ConfirmedInv'
  <2>1. pc'[c] = "idle" /\ \A b \in Calls : b # c =>
          /\ pc'[b] = pc[b] /\ host'[b] = host[b] /\ key'[b] = key[b] /\ lines'[b] = lines[b]
    BY <1>8 DEF WriteLines, Return, Goto, TypeInv, TypeOK
  <2> QED
    BY <1>8, <2>1 DEF WriteLines, histVars
<1>9. ASSUME NEW c \in Calls, Revalidate(c) PROVE ConfirmedInv'
  <2>1. CASE Trusted(host[c])
    <3>1. host[c] \in Hosts /\ serverKey[host[c]] \in Keys /\ None \notin Keys
      BY <1>9, NoneIsNoKey DEF Revalidate, TypeInv, TypeOK, Located
    <3>2. IsConfirmed(host[c], serverKey[host[c]])
      BY <2>1, <3>1 DEF Trusted
    <3> QED
      BY <1>9, <2>1, <3>2 DEF Revalidate, Goto, TypeInv, TypeOK, storeVars, histVars
  <2>2. CASE ~Trusted(host[c])
    BY <1>9, <2>2, ReturnConfirmed DEF Revalidate, storeVars, histVars
  <2> QED
    BY <2>1, <2>2
<1>10. ASSUME NEW c \in Calls, Secrets(c) \/ SaveRow(c) PROVE ConfirmedInv'
  BY <1>10 DEF Secrets, SaveRow, Goto, TypeInv, TypeOK, histVars
<1>11. ASSUME NEW c \in Calls, KeyringFails(c) PROVE ConfirmedInv'
  BY <1>11, ReturnConfirmed DEF KeyringFails, histVars
<1>12. ASSUME NEW c \in Calls, LoadKnownHosts(c) PROVE ConfirmedInv'
  <2>1. host[c] \in Hosts
    BY <1>12 DEF LoadKnownHosts, TypeInv, Located
  <2> QED
    BY <1>12, <2>1 DEF LoadKnownHosts, Goto, TypeInv, TypeOK, storeVars, histVars
<1>13. CASE Edit
  BY <1>13 DEF Edit, callVars
<1>14. CASE Kill
  BY <1>14 DEF Kill, storeVars
<1>15. CASE KeyChanges
  BY <1>15 DEF KeyChanges, storeVars, callVars, histVars
<1>16. CASE UNCHANGED vars
  BY <1>16 DEF vars, storeVars, callVars, histVars
<1> QED
  BY <1>1, <1>2, <1>3, <1>4, <1>5, <1>6, <1>7, <1>8, <1>9, <1>10, <1>11, <1>12, <1>13, <1>14,
     <1>15, <1>16 DEF Next, Begin, Call, Rest

LEMMA AlwaysConfirmed == Spec => [](TypeInv /\ ConfirmedInv)
<1>1. Init => TypeInv /\ ConfirmedInv
  BY InitTyped, InitConfirmed
<1>2. TypeInv /\ ConfirmedInv /\ [Next]_vars => (TypeInv /\ ConfirmedInv)'
  BY NextTyped, NextConfirmed
<1> QED
  BY <1>1, <1>2, PTL DEF Spec

\* Neither the keyring nor the row is touched by a connect before a key that was
\* confirmed for that host has been seen.
THEOREM SecretsWait == Spec => []SecretsWaitForTheKey
<1>1. TypeInv /\ ConfirmedInv => SecretsWaitForTheKey
  BY DEF ConfirmedInv, ExpectedIsConfirmed, IsConfirmed, SecretsWaitForTheKey
<1> QED
  BY <1>1, AlwaysConfirmed, PTL

\* Whatever happens to the file and the server, and however calls overlap,
\* credentials only go to a server whose key was confirmed for that host.
THEOREM CredentialsAreSafe == Spec => CredentialsOnlyToConfirmedKeys
<1> DEFINE Safe == \A c \in Calls : Authenticate(c) =>
                     [host |-> host[c], key |-> serverKey[host[c]]] \in confirmed
<1>1. TypeInv /\ ConfirmedInv => Safe
  <2> SUFFICES ASSUME TypeInv, ConfirmedInv, NEW c \in Calls, Authenticate(c)
               PROVE  IsConfirmed(host[c], serverKey[host[c]])
    BY DEF IsConfirmed
  <2>1. pc[c] = "connect" /\ serverKey[host[c]] = key[c]
    BY DEF Authenticate, Accepts
  <2>2. key[c] # None
    BY <2>1, NoneIsNoKey DEF TypeInv, TypeOK, Located
  <2> QED
    BY <2>1, <2>2 DEF ConfirmedInv, ExpectedIsConfirmed
<1>2. TypeInv /\ ConfirmedInv => [Safe]_vars
  BY <1>1
<1>3. Spec => [][Safe]_vars
  BY <1>2, AlwaysConfirmed, PTL
<1> QED
  BY <1>3 DEF CredentialsOnlyToConfirmedKeys

-----------------------------------------------------------------------------
(* The row.  Until an edit crosses a connect, the row is the last edit and *)
(* so is what every connect that will write it has read.                   *)

Saving == {"probe", "secrets", "saveRow"}

EditsInv ==
  ~crossed => row = edits /\ \A c \in Calls : pc[c] \in Saving => profile[c] = edits

\* A call that gets no nearer to writing the row, and changes none of what it reads.
LEMMA OthersKeepEdits ==
  ASSUME EditsInv, UNCHANGED <<row, edits, crossed>>,
         \A c \in Calls : pc'[c] \in Saving => pc[c] \in Saving /\ profile'[c] = profile[c]
  PROVE  EditsInv'
BY DEF EditsInv

LEMMA InitEdits == Init => EditsInv
BY DEF Init, EditsInv, Saving

\* An edit during a connect is recorded; every other step leaves the row the last one.
LEMMA NextEdits == TypeInv /\ EditsInv /\ [Next]_vars => EditsInv'
<1> SUFFICES ASSUME TypeInv, EditsInv, [Next]_vars PROVE EditsInv'
  OBVIOUS
<1> USE DEF Saving
<1>1. ASSUME NEW c \in Calls, BeginConnect(c) PROVE EditsInv'
  BY <1>1 DEF BeginConnect, Starts, Goto, EditsInv, TypeInv, TypeOK, storeVars, histVars
<1>2. ASSUME NEW c \in Calls, SaveRow(c) PROVE EditsInv'
  BY <1>2 DEF SaveRow, Goto, EditsInv, TypeInv, TypeOK, histVars
<1>3. CASE Edit
  BY <1>3 DEF Edit, EditsInv, TypeInv, TypeOK, callVars
<1>4. ASSUME NEW c \in Calls, BeginLook(c) \/ BeginTrust(c) PROVE EditsInv'
  BY <1>4, OthersKeepEdits
     DEF BeginLook, BeginTrust, Starts, Goto, TypeInv, TypeOK, storeVars, histVars
<1>5. ASSUME NEW c \in Calls, Return(c), UNCHANGED <<row, edits, crossed>> PROVE EditsInv'
  BY <1>5, OthersKeepEdits DEF Return, Goto, TypeInv, TypeOK
<1>6. ASSUME NEW c \in Calls,
             ProbeFails(c) \/ Look(c) \/ WriteLines(c) \/ KeyringFails(c) \/ Authenticate(c)
             \/ ConnectFails(c)
      PROVE EditsInv'
  BY <1>5, <1>6 DEF ProbeFails, Look, WriteLines, KeyringFails, Authenticate, ConnectFails,
     storeVars, histVars
<1>7. ASSUME NEW c \in Calls, ReadLines(c) \/ Truncate(c) \/ LoadKnownHosts(c)
      PROVE EditsInv'
  BY <1>7, OthersKeepEdits
     DEF ReadLines, Truncate, LoadKnownHosts, Goto, TypeInv, TypeOK, storeVars, histVars
<1>8. ASSUME NEW c \in Calls, Revalidate(c) PROVE EditsInv'
  <2>1. CASE Trusted(host[c])
    BY <1>8, <2>1, OthersKeepEdits DEF Revalidate, Goto, TypeInv, TypeOK, storeVars, histVars
  <2>2. CASE ~Trusted(host[c])
    BY <1>5, <1>8, <2>2 DEF Revalidate, storeVars, histVars
  <2> QED
    BY <2>1, <2>2
<1>9. ASSUME NEW c \in Calls, Secrets(c) PROVE EditsInv'
  BY <1>9, OthersKeepEdits DEF Secrets, Goto, TypeInv, TypeOK, histVars
<1>10. CASE Kill
  BY <1>10, OthersKeepEdits DEF Kill, storeVars
<1>11. CASE KeyChanges \/ UNCHANGED vars
  BY <1>11, OthersKeepEdits DEF KeyChanges, vars, storeVars, callVars, histVars
<1> QED
  BY <1>1, <1>2, <1>3, <1>4, <1>6, <1>7, <1>8, <1>9, <1>10, <1>11 DEF Next, Begin, Call, Rest

\* What the user has edited of the profile is only ever undone by a connect that
\* was between reading the row and writing it when the edit was saved.
THEOREM EditsAreKept == Spec => []EditsSurvive
<1>1. Init => TypeInv /\ EditsInv
  BY InitTyped, InitEdits
<1>2. TypeInv /\ EditsInv /\ [Next]_vars => (TypeInv /\ EditsInv)'
  BY NextTyped, NextEdits
<1>3. EditsInv => EditsSurvive
  BY DEF EditsInv, EditsSurvive
<1> QED
  BY <1>1, <1>2, <1>3, PTL DEF Spec

-----------------------------------------------------------------------------
(* The file.  While no trust was torn, one is in flight at a time, nothing *)
(* is offered meanwhile, and what it read or is about to write is all that *)
(* was confirmed; between two of them the file is.                         *)

Stored(file) == {i \in HostKeyInfo : file[i.host] = i.key}

OneTrust == \A a, b \in Calls : pc[a] \in Trusting /\ pc[b] \in Trusting => a = b

FileIsWhole ==
  /\ confirmed = Stored(known_hosts)
  /\ offer # None => known_hosts[offer.host] = None

TrustIsWhole(c) ==
  /\ pc[c] = "read" => confirmed = Stored(Kept(c))
  /\ pc[c] \in {"truncate", "write"} => confirmed = Stored(lines[c])

KeptInv ==
  ~torn =>
    /\ OneTrust
    /\ TrustInFlight => offer = None
    /\ ~TrustInFlight => FileIsWhole
    /\ \A c \in Calls : TrustIsWhole(c)

LEMMA InitKept == Init => KeptInv
<1> SUFFICES ASSUME Init PROVE KeptInv
  OBVIOUS
<1>1. Stored(known_hosts) = {}
  BY NoneIsNoKey DEF Init, Stored, HostKeyInfo, Empty
<1> QED
  BY <1>1 DEF Init, KeptInv, OneTrust, TrustInFlight, FileIsWhole, TrustIsWhole, Trusting

\* A step that leaves the trusts, the file and the confirmed keys alone.
LEMMA OthersKeepTrusts ==
  ASSUME KeptInv, UNCHANGED <<known_hosts, confirmed, torn>>, offer' \in {offer, None},
         \A c \in Calls :
           /\ pc'[c] \in Trusting <=> pc[c] \in Trusting
           /\ pc[c] \in Trusting => /\ pc'[c] = pc[c] /\ host'[c] = host[c]
                                    /\ key'[c] = key[c] /\ lines'[c] = lines[c]
  PROVE  KeptInv'
<1>1. TrustInFlight' <=> TrustInFlight
  BY DEF TrustInFlight
<1>2. ASSUME NEW c \in Calls, TrustIsWhole(c) PROVE TrustIsWhole(c)'
  BY <1>2 DEF TrustIsWhole, Kept, Trusting
<1>3. FileIsWhole => FileIsWhole'
  BY DEF FileIsWhole
<1>4. OneTrust => OneTrust'
  BY DEF OneTrust
<1> QED
  BY <1>1, <1>2, <1>3, <1>4 DEF KeptInv

\* A call that returns and was not a trust.
LEMMA ReturnKept ==
  ASSUME TypeInv, KeptInv, NEW c \in Calls, pc[c] \notin Trusting, Return(c),
         UNCHANGED <<known_hosts, confirmed, torn>>, offer' \in {offer, None}
  PROVE  KeptInv'
BY OthersKeepTrusts DEF Return, Goto, TypeInv, TypeOK, Trusting

\* Only an offer that was made of a host without a line, with no trust in flight,
\* is confirmed; the file is replaced by that one trust.
LEMMA NextKept == TypeInv /\ KeptInv /\ [Next]_vars => KeptInv'
<1> SUFFICES ASSUME TypeInv, KeptInv, [Next]_vars PROVE KeptInv'
  OBVIOUS
<1> USE NoneIsNoKey DEF Trusting
<1>1. ASSUME NEW c \in Calls, BeginLook(c) \/ BeginConnect(c) PROVE KeptInv'
  BY <1>1, OthersKeepTrusts
     DEF BeginLook, BeginConnect, Starts, Goto, TypeInv, TypeOK, storeVars, histVars
<1>2. ASSUME NEW c \in Calls, BeginTrust(c), ~torn' PROVE KeptInv'
  <2>1. ~torn /\ ~TrustInFlight /\ FileIsWhole
    BY <1>2 DEF BeginTrust, KeptInv
  <2>2. offer \in HostKeyInfo /\ offer = [host |-> offer.host, key |-> offer.key]
        /\ offer.host \in Hosts /\ offer.key \in Keys /\ known_hosts[offer.host] = None
    BY <1>2, <2>1 DEF BeginTrust, FileIsWhole, TypeInv, TypeOK, HostKeyInfo
  <2>3. \A b \in Calls : pc[b] \notin Trusting
    BY <2>1 DEF TrustInFlight
  <2>4. /\ pc'[c] = "read" /\ host'[c] = offer.host /\ key'[c] = offer.key
        /\ \A b \in Calls : b # c => pc'[b] = pc[b]
    BY <1>2 DEF BeginTrust, Goto, TypeInv, TypeOK
  <2>5. confirmed' = Stored([known_hosts EXCEPT ![offer.host] = offer.key])
    BY <1>2, <2>1, <2>2 DEF BeginTrust, FileIsWhole, Stored, HostKeyInfo, TypeInv, TypeOK, File
  <2>6. confirmed' = Stored(Kept(c)')
    BY <1>2, <2>4, <2>5 DEF BeginTrust, Kept, storeVars
  <2>7. OneTrust' /\ TrustInFlight' /\ offer' = None
    BY <1>2, <2>3, <2>4 DEF BeginTrust, OneTrust, TrustInFlight
  <2>8. ASSUME NEW b \in Calls PROVE TrustIsWhole(b)'
    BY <2>3, <2>4, <2>6, <2>8 DEF TrustIsWhole, Stored
  <2> QED
    BY <2>7, <2>8 DEF KeptInv
<1>3. ASSUME NEW c \in Calls, Look(c), ~torn' PROVE KeptInv'
  <2>1. ~torn /\ ~TrustInFlight /\ FileIsWhole /\ torn' = torn
    BY <1>3 DEF Look, KeptInv, TypeInv, TypeOK
  <2>2. \A b \in Calls : pc'[b] \notin Trusting
    BY <1>3, <2>1 DEF Look, Return, Goto, TrustInFlight, TypeInv, TypeOK
  <2>3. known_hosts' = known_hosts /\ confirmed' = confirmed
    BY <1>3 DEF Look, storeVars
  <2>4. offer' # None => known_hosts[offer'.host] = None
    <3>1. SUFFICES ASSUME offer' # None PROVE known_hosts[offer'.host] = None
      OBVIOUS
    <3>2. ~Trusted(host[c]) /\ ~Changed(host[c]) /\ offer'.host = host[c]
      BY <1>3, <3>1 DEF Look
    <3> QED
      BY <3>2 DEF Trusted, Changed
  <2>5. FileIsWhole'
    BY <2>1, <2>3, <2>4 DEF FileIsWhole, Stored
  <2> QED
    BY <2>2, <2>5 DEF KeptInv, OneTrust, TrustInFlight, TrustIsWhole
<1>4. ASSUME NEW c \in Calls, ProbeFails(c) \/ KeyringFails(c) \/ Authenticate(c)
             \/ ConnectFails(c)
      PROVE KeptInv'
  BY <1>4, ReturnKept
     DEF ProbeFails, KeyringFails, Authenticate, ConnectFails, storeVars, histVars
<1>5. ASSUME NEW c \in Calls, ReadLines(c), ~torn' PROVE KeptInv'
  <2>1. ~torn /\ UNCHANGED <<known_hosts, confirmed, offer, torn>> /\ TrustInFlight
    BY <1>5 DEF ReadLines, storeVars, histVars, TrustInFlight
  <2>2. OneTrust /\ offer = None /\ confirmed = Stored(Kept(c))
    BY <1>5, <2>1 DEF ReadLines, KeptInv, TrustIsWhole
  <2>3. /\ pc'[c] = "truncate" /\ lines'[c] = Kept(c)
        /\ \A b \in Calls : b # c => pc'[b] = pc[b] /\ pc[b] \notin Trusting
    BY <1>5, <2>2 DEF ReadLines, Goto, OneTrust, TypeInv, TypeOK
  <2>4. OneTrust' /\ TrustInFlight'
    BY <2>3 DEF OneTrust, TrustInFlight
  <2>5. ASSUME NEW b \in Calls PROVE TrustIsWhole(b)'
    BY <2>1, <2>2, <2>3, <2>5 DEF TrustIsWhole
  <2> QED
    BY <2>1, <2>2, <2>4, <2>5 DEF KeptInv
<1>6. ASSUME NEW c \in Calls, Truncate(c), ~torn' PROVE KeptInv'
  <2>1. ~torn /\ UNCHANGED <<confirmed, offer, torn, lines>> /\ TrustInFlight
    BY <1>6 DEF Truncate, histVars, TrustInFlight
  <2>2. OneTrust /\ offer = None /\ confirmed = Stored(lines[c])
    BY <1>6, <2>1 DEF Truncate, KeptInv, TrustIsWhole
  <2>3. pc'[c] = "write" /\ \A b \in Calls : b # c => pc'[b] = pc[b] /\ pc[b] \notin Trusting
    BY <1>6, <2>2 DEF Truncate, Goto, OneTrust, TypeInv, TypeOK
  <2>4. OneTrust' /\ TrustInFlight'
    BY <2>3 DEF OneTrust, TrustInFlight
  <2>5. ASSUME NEW b \in Calls PROVE TrustIsWhole(b)'
    BY <2>1, <2>2, <2>3, <2>5 DEF TrustIsWhole
  <2> QED
    BY <2>1, <2>2, <2>4, <2>5 DEF KeptInv
<1>7. ASSUME NEW c \in Calls, WriteLines(c), ~torn' PROVE KeptInv'
  <2>1. ~torn /\ known_hosts' = lines[c] /\ UNCHANGED <<confirmed, offer>> /\ TrustInFlight
    BY <1>7 DEF WriteLines, histVars, TrustInFlight
  <2>2. OneTrust /\ offer = None /\ confirmed = Stored(lines[c])
    BY <1>7, <2>1 DEF WriteLines, KeptInv, TrustIsWhole
  <2>3. \A b \in Calls : pc'[b] \notin Trusting
    BY <1>7, <2>2 DEF WriteLines, Return, Goto, OneTrust, TypeInv, TypeOK
  <2> QED
    BY <2>1, <2>2, <2>3 DEF KeptInv, OneTrust, TrustInFlight, TrustIsWhole, FileIsWhole, Stored
<1>8. ASSUME NEW c \in Calls, Revalidate(c) PROVE KeptInv'
  <2>1. CASE Trusted(host[c])
    BY <1>8, <2>1, OthersKeepTrusts DEF Revalidate, Goto, TypeInv, TypeOK, storeVars, histVars
  <2>2. CASE ~Trusted(host[c])
    BY <1>8, <2>2, ReturnKept DEF Revalidate, storeVars, histVars
  <2> QED
    BY <2>1, <2>2
<1>9. ASSUME NEW c \in Calls, Secrets(c) \/ SaveRow(c) \/ LoadKnownHosts(c) PROVE KeptInv'
  BY <1>9, OthersKeepTrusts
     DEF Secrets, SaveRow, LoadKnownHosts, Goto, TypeInv, TypeOK, storeVars, histVars
<1>10. CASE Kill
  <2>1. CASE TrustInFlight
    BY <1>10, <2>1 DEF Kill, KeptInv
  <2>2. CASE ~TrustInFlight
    BY <1>10, <2>2, OthersKeepTrusts DEF Kill, storeVars, TrustInFlight, TypeInv, TypeOK
  <2> QED
    BY <2>1, <2>2
<1>11. CASE Edit \/ KeyChanges \/ UNCHANGED vars
  BY <1>11, OthersKeepTrusts DEF Edit, KeyChanges, vars, storeVars, callVars, histVars
<1>12. torn' => KeptInv'
  BY DEF KeptInv
<1> QED
  BY <1>1, <1>2, <1>3, <1>4, <1>5, <1>6, <1>7, <1>8, <1>9, <1>10, <1>11, <1>12
     DEF Next, Begin, Call, Rest

\* Unless a trust was cut off, or overlapped a look or another trust, the file
\* has the key that was confirmed of each host, and none was replaced.
THEOREM ConfirmedAreKept == Spec => []ConfirmedKeysAreKept
<1>1. Init => TypeInv /\ KeptInv
  BY InitTyped, InitKept
<1>2. TypeInv /\ KeptInv /\ [Next]_vars => (TypeInv /\ KeptInv)'
  BY NextTyped, NextKept
<1>3. KeptInv => ConfirmedKeysAreKept
  BY DEF KeptInv, FileIsWhole, Stored, ConfirmedKeysAreKept
<1> QED
  BY <1>1, <1>2, <1>3, PTL DEF Spec
=============================================================================
