----------------------------- MODULE Connection -----------------------------
(***************************************************************************)
(* How a connection of a profile comes about: ssh_probe, ssh_trust,        *)
(* ssh_connect and save_profile of facade.py, with the host keys           *)
(* (hostkeys.py, ssh_service.py), the keyring (credential_store.py) and the *)
(* row of the profile (sqlite_store.py) that they read and write.          *)
(*                                                                         *)
(* Each call runs on a thread of the HTTP server; nothing orders the calls *)
(* of the page, and no lock is held between two steps of a call.  What the *)
(* session then serves is in SSHSessions.                                  *)
(***************************************************************************)
EXTENDS Naturals, FiniteSets

CONSTANTS
  Calls,      \* the threads that may serve calls
  Hosts,      \* the hosts of the environments
  Keys,       \* the host keys a server may have
  None,       \* no key, no host, no offer
  MaxCalls,   \* bound on the calls
  MaxChanges, \* bound on the changes of a server's key
  MaxEdits    \* bound on the edits of the profile

ASSUME ConstantsAssumption ==
  None \notin Keys \cup Hosts /\ {MaxCalls, MaxChanges, MaxEdits} \subseteq Nat

VARIABLES
  serverKey,    \* the key of each server
  changes,      \* how many times one was replaced
  known_hosts,  \* the file: the key of each host, if it has a line
  secret,       \* a password of the profile is in the keyring
  row,          \* the row of the profile: the edit that its fields come from
  edits,        \* how many edits were saved
  begun,        \* how many calls were made
  offer,        \* the key that the page shows, with a button to trust it
  pc,           \* where each call is
  host,         \* the host that it is about
  key,          \* the key it has seen, was sent, or expects
  profile,      \* what ssh_connect has read of the row
  lines,        \* what ssh_trust has read of the file
  options,      \* what the user has chosen for a connect
  confirmed,    \* history: the keys that the user has confirmed
  torn,         \* history: a trust was cut off, or overlapped a look or another
  crossed       \* history: an edit was saved during a connect

worldVars == <<serverKey, changes, begun>>
storeVars == <<known_hosts, secret, row, edits>>
callVars  == <<pc, host, key, profile, lines, options>>
histVars  == <<confirmed, torn, crossed>>
vars == <<worldVars, storeVars, offer, callVars, histVars>>

Trusting    == {"read", "truncate", "write"}
Connecting  == {"probe", "secrets", "saveRow", "verify", "connect"}
Points      == {"idle", "look"} \cup Trusting \cup Connecting
HostKeyInfo == [host : Hosts, key : Keys]
Options     == [auth : {"password", "other"}, given : BOOLEAN, save : BOOLEAN]
File        == [Hosts -> Keys \cup {None}]
Empty       == [h \in Hosts |-> None]
NoOptions   == [auth |-> "other", given |-> FALSE, save |-> FALSE]

TypeOK ==
  /\ serverKey \in [Hosts -> Keys] /\ changes \in 0..MaxChanges /\ begun \in 0..MaxCalls
  /\ known_hosts \in File /\ secret \in BOOLEAN
  /\ row \in 0..MaxEdits /\ edits \in 0..MaxEdits
  /\ offer \in HostKeyInfo \cup {None}
  /\ pc \in [Calls -> Points] /\ host \in [Calls -> Hosts \cup {None}]
  /\ key \in [Calls -> Keys \cup {None}] /\ profile \in [Calls -> 0..MaxEdits]
  /\ lines \in [Calls -> File] /\ options \in [Calls -> Options]
  /\ confirmed \subseteq HostKeyInfo
  /\ torn \in BOOLEAN /\ crossed \in BOOLEAN

Init ==
  /\ serverKey \in [Hosts -> Keys] /\ changes = 0 /\ begun = 0
  /\ known_hosts = Empty /\ secret = FALSE /\ row = 0 /\ edits = 0
  /\ offer = None
  /\ pc = [c \in Calls |-> "idle"] /\ host = [c \in Calls |-> None]
  /\ key = [c \in Calls |-> None] /\ profile = [c \in Calls |-> 0]
  /\ lines = [c \in Calls |-> Empty] /\ options = [c \in Calls |-> NoOptions]
  /\ confirmed = {} /\ torn = FALSE /\ crossed = FALSE

Goto(c, next) == pc' = [pc EXCEPT ![c] = next]

\* A call returns or raises: what it has read is gone.
Return(c) ==
  /\ Goto(c, "idle")
  /\ host' = [host EXCEPT ![c] = None] /\ key' = [key EXCEPT ![c] = None]
  /\ profile' = [profile EXCEPT ![c] = 0]
  /\ lines' = [lines EXCEPT ![c] = Empty]
  /\ options' = [options EXCEPT ![c] = NoOptions]

\* A trust is in flight: the file is about to be replaced, or is empty for now.
TrustInFlight == \E c \in Calls : pc[c] \in Trusting

-----------------------------------------------------------------------------
(* The page looks at a host key, and the user trusts it.                   *)

Starts(c) == pc[c] = "idle" /\ begun < MaxCalls /\ begun' = begun + 1

BeginLook(c) ==
  /\ Starts(c)
  /\ \E h \in Hosts : host' = [host EXCEPT ![c] = h]
  /\ Goto(c, "look")
  /\ UNCHANGED <<serverKey, changes, storeVars, offer, key, profile, lines, options, histVars>>

TrustedUnlessOther(h) == known_hosts[h] \in {None, serverKey[h]}  \* a bug: no line will do

\* probe_host_key compares the key of the server with the line of the file.
Trusted(h) == known_hosts[h] = serverKey[h]
Changed(h) == known_hosts[h] # None /\ known_hosts[h] # serverKey[h]

ProbeFails(c) ==
  /\ pc[c] \in {"look", "probe"}
  /\ Return(c)
  /\ UNCHANGED <<worldVars, storeVars, offer, histVars>>

ShownStored(h) == known_hosts[h]   \* a bug: the line of the file is shown
Shown(h) == serverKey[h]

\* A key that is new is offered; of one that has changed the page only tells.
Look(c) ==
  /\ pc[c] = "look"
  /\ offer' = IF Trusted(host[c]) \/ Changed(host[c]) THEN None
              ELSE [host |-> host[c], key |-> Shown(host[c])]
  /\ torn' = (torn \/ TrustInFlight)
  /\ Return(c)
  /\ UNCHANGED <<worldVars, storeVars, confirmed, crossed>>

\* ssh_trust takes the key that the page sends back, and does not probe again.
BeginTrust(c) ==
  /\ Starts(c) /\ offer # None
  /\ host' = [host EXCEPT ![c] = offer.host] /\ key' = [key EXCEPT ![c] = offer.key]
  /\ confirmed' = confirmed \cup {offer} /\ offer' = None
  /\ torn' = (torn \/ TrustInFlight)
  /\ Goto(c, "read")
  /\ UNCHANGED <<serverKey, changes, storeVars, profile, lines, options, crossed>>

KeptNone(c) == [Empty EXCEPT ![host[c]] = key[c]]   \* a bug: the other lines are lost

\* replace_host_key: read, and then write_text, which empties the file first.
Kept(c) == [known_hosts EXCEPT ![host[c]] = key[c]]

ReadLines(c) ==
  /\ pc[c] = "read"
  /\ lines' = [lines EXCEPT ![c] = Kept(c)]
  /\ Goto(c, "truncate")
  /\ UNCHANGED <<worldVars, storeVars, offer, host, key, profile, options, histVars>>

Truncate(c) ==
  /\ pc[c] = "truncate"
  /\ known_hosts' = Empty
  /\ Goto(c, "write")
  /\ UNCHANGED <<worldVars, secret, row, edits, offer, host, key, profile, lines, options,
                 histVars>>

WriteLines(c) ==
  /\ pc[c] = "write"
  /\ known_hosts' = lines[c]
  /\ Return(c)
  /\ UNCHANGED <<worldVars, secret, row, edits, offer, histVars>>

-----------------------------------------------------------------------------
(* ssh_connect.                                                            *)

BeginConnect(c) ==
  /\ Starts(c)
  /\ \E h \in Hosts : host' = [host EXCEPT ![c] = h]
  /\ \E o \in Options :
       /\ o.auth = "other" => o = NoOptions
       /\ options' = [options EXCEPT ![c] = o]
  /\ profile' = [profile EXCEPT ![c] = row]
  /\ Goto(c, "probe")
  /\ UNCHANGED <<serverKey, changes, storeVars, offer, key, lines, histVars>>

\* The key is looked at once more before any credential: it must be confirmed.
Revalidate(c) ==
  /\ pc[c] = "probe"
  /\ IF Trusted(host[c])
     THEN /\ Goto(c, "secrets") /\ key' = [key EXCEPT ![c] = serverKey[host[c]]]
          /\ UNCHANGED <<host, profile, lines, options>>
     ELSE Return(c)
  /\ UNCHANGED <<worldVars, storeVars, offer, histVars>>

\* The password is stored or deleted, where one is used; that it is not deleted
\* goes unnoticed, and one that is not there is not stored.
HasPassword(c) == options[c].given \/ secret

SecretAfter(c) ==
  LET o == options[c] IN
  IF o.auth # "password" \/ (o.save /\ ~HasPassword(c)) THEN {secret}
  ELSE IF o.save THEN {TRUE} ELSE {FALSE, secret}

Secrets(c) ==
  /\ pc[c] = "secrets"
  /\ secret' \in SecretAfter(c)
  /\ options' = [options EXCEPT ![c].given = HasPassword(c)]
  /\ Goto(c, "saveRow")
  /\ UNCHANGED <<worldVars, known_hosts, row, edits, offer, host, key, profile, lines,
                 histVars>>

\* The keyring does not store the password, or the passphrase of a key after it.
KeyringFails(c) ==
  /\ pc[c] = "secrets"
  /\ secret' \in SecretAfter(c) \cup {secret}
  /\ Return(c)
  /\ UNCHANGED <<worldVars, known_hosts, row, edits, offer, histVars>>

\* The whole row is written, with the user name that was given.
SaveRow(c) ==
  /\ pc[c] = "saveRow"
  /\ row' = profile[c]
  /\ Goto(c, "verify")
  /\ UNCHANGED <<worldVars, known_hosts, secret, edits, offer, host, key, profile, lines,
                 options, histVars>>

\* asyncssh reads known_hosts once more, for the key that it will accept.
LoadKnownHosts(c) ==
  /\ pc[c] = "verify"
  /\ key' = [key EXCEPT ![c] = known_hosts[host[c]]]
  /\ Goto(c, "connect")
  /\ UNCHANGED <<worldVars, storeVars, offer, host, profile, lines, options, histVars>>

AcceptsAny(c) == TRUE   \* a bug: known_hosts=None

\* Credentials go to a server that has shown that key, and to no other.
Accepts(c) == serverKey[host[c]] = key[c]

Authenticate(c) ==
  /\ pc[c] = "connect" /\ Accepts(c)
  /\ options[c].auth = "password" => options[c].given
  /\ Return(c)
  /\ UNCHANGED <<worldVars, storeVars, offer, histVars>>

\* No server in time, another key, no password, a database that cannot be written.
ConnectFails(c) ==
  /\ pc[c] \in {"saveRow", "verify", "connect"}
  /\ Return(c)
  /\ UNCHANGED <<worldVars, storeVars, offer, histVars>>

-----------------------------------------------------------------------------
(* Around it.                                                              *)

\* save_profile: the page sends the whole row, as the user has left it.
Edit ==
  /\ edits < MaxEdits
  /\ edits' = edits + 1 /\ row' = edits + 1
  /\ crossed' = (crossed \/ \E c \in Calls : pc[c] \in {"probe", "secrets", "saveRow"})
  /\ UNCHANGED <<worldVars, known_hosts, secret, offer, callVars, confirmed, torn>>

\* The program is killed, wherever its threads are, and started again.
Kill ==
  /\ \E c \in Calls : pc[c] # "idle"
  /\ torn' = (torn \/ TrustInFlight)
  /\ offer' = None
  /\ pc' = [c \in Calls |-> "idle"] /\ host' = [c \in Calls |-> None]
  /\ key' = [c \in Calls |-> None] /\ profile' = [c \in Calls |-> 0]
  /\ lines' = [c \in Calls |-> Empty] /\ options' = [c \in Calls |-> NoOptions]
  /\ UNCHANGED <<worldVars, storeVars, confirmed, crossed>>

\* A server is installed anew, or another one answers in its place.
KeyChanges ==
  /\ changes < MaxChanges /\ changes' = changes + 1
  /\ \E h \in Hosts, k \in Keys : serverKey' = [serverKey EXCEPT ![h] = k]
  /\ UNCHANGED <<begun, storeVars, offer, callVars, histVars>>

\* No call is in flight: as every step is made a bounded number of times, a run
\* without a deadlock shows that each call comes back.
Rest == (\A c \in Calls : pc[c] = "idle") /\ UNCHANGED vars

Begin(c) == BeginLook(c) \/ BeginTrust(c) \/ BeginConnect(c)

Call(c) ==
  \/ ProbeFails(c) \/ Look(c)
  \/ ReadLines(c) \/ Truncate(c) \/ WriteLines(c)
  \/ Revalidate(c) \/ Secrets(c) \/ KeyringFails(c) \/ SaveRow(c)
  \/ LoadKnownHosts(c) \/ Authenticate(c) \/ ConnectFails(c)

Next ==
  \/ \E c \in Calls : Begin(c) \/ Call(c)
  \/ Edit \/ Kill \/ KeyChanges \/ Rest

Spec == Init /\ [][Next]_vars

-----------------------------------------------------------------------------
(* Properties.                                                             *)

\* A password or a signature is only ever given to a server whose key the user
\* has confirmed for that host, whatever happens to the file and to the server
\* between the check of the key and the connection.
CredentialsOnlyToConfirmedKeys ==
  [][\A c \in Calls : Authenticate(c) =>
       [host |-> host[c], key |-> serverKey[host[c]]] \in confirmed]_vars

\* Neither the keyring nor the row is touched by a connect before a key that was
\* confirmed has been seen: "imediatamente antes de enviar qualquer credencial".
SecretsWaitForTheKey ==
  \A c \in Calls : pc[c] \in {"secrets", "saveRow"} =>
    [host |-> host[c], key |-> key[c]] \in confirmed

\* The file has the key that was confirmed of each host, and no confirmed key is
\* replaced by another, unless a trust was cut off, or overlapped a look or another.
ConfirmedKeysAreKept ==
  ~torn /\ ~TrustInFlight =>
    confirmed = {i \in HostKeyInfo : known_hosts[i.host] = i.key}

\* What the user has edited of the profile is not undone by a connect, unless it
\* was saved while one was between reading the row and writing it.
EditsSurvive == ~crossed => row = edits
=============================================================================
