-------------------------- MODULE DecryptMessages ---------------------------
(***************************************************************************)
(* The hook useDecryptMessages: the encrypted messages of a list are       *)
(* decrypted one after the other by an asynchronous run, which starts anew *)
(* whenever the list changes.  A run writes what it found when it ends; a  *)
(* run that is cancelled stops at the message it is waiting for.           *)
(*                                                                         *)
(* Messages are numbered in the order they appear in the list.             *)
(***************************************************************************)
EXTENDS Integers, FiniteSets

CONSTANTS MaxLines,   \* bound: the encrypted messages of the list
          Secrets,    \* the messages whose key the client may not have at first
          MaxSwitches \* bound: how often the list or the flag changes otherwise

ASSUME DecryptParameters == MaxLines \in Nat \ {0} /\ MaxSwitches \in Nat /\ Secrets \subseteq 1..MaxLines

VARIABLES
  lines,       \* how many encrypted messages the list has
  secret,      \* the messages whose key is nowhere to be found yet
  enabled,     \* e2eeEnabled of ChatRoom
  tried,       \* attemptedKeysRef
  plain,       \* decryptedTexts
  run,         \* the current run: what it waits for, has to do and has found
  stale,       \* what cancelled runs still wait for
  dropped,     \* ghost: what cancelled runs had found
  switches

decryptVars == <<lines, secret, enabled, tried, plain, run, stale, dropped, switches>>

\* No message: the run is over, or none was started.
None == 0
Over == [at |-> None, todo |-> {}, found |-> {}]
FirstOf(s) == IF s = {} THEN None ELSE CHOOSE m \in s : \A x \in s : m <= x

DecryptInit ==
  /\ lines \in 0..1 /\ secret \in SUBSET Secrets /\ enabled = FALSE
  /\ tried = {} /\ plain = {} /\ run = Over /\ stale = {} /\ dropped = {} /\ switches = 0

\* The run takes the next message and waits for its decryption, or writes what
\* it has found.
Advance(r, t) ==
  LET m == FirstOf(r.todo) IN
  IF m # None
    THEN /\ run' = [r EXCEPT !.at = m, !.todo = @ \ {m}]
         /\ tried' = t \cup {m} /\ UNCHANGED plain
    ELSE /\ run' = Over /\ plain' = plain \cup r.found /\ tried' = t

\* The effect: the old run is cancelled, a new one starts with the messages that
\* no run has tried.
Renew(n, on) ==
  /\ stale' = IF run.at = None THEN stale ELSE stale \cup {run.at}
  /\ dropped' = dropped \cup run.found
  /\ IF on THEN Advance([Over EXCEPT !.todo = (1..n) \ tried], tried)
           ELSE run' = Over /\ UNCHANGED <<tried, plain>>

\* A message arrives.
MessageListed ==
  /\ lines < MaxLines /\ lines' = lines + 1
  /\ Renew(lines + 1, enabled)
  /\ UNCHANGED <<secret, enabled, switches>>

\* The list is a new one with the same messages, for one was edited or deleted.
ListRenewed ==
  /\ switches < MaxSwitches /\ switches' = switches + 1
  /\ Renew(lines, enabled)
  /\ UNCHANGED <<lines, secret, enabled>>

\* The metadata of the room has come, or encryption has been enabled here.
Enabling ==
  /\ ~enabled /\ enabled' = TRUE
  /\ Renew(lines, TRUE)
  /\ UNCHANGED <<lines, secret, switches>>

\* A rotation of another client has been heard of, the keys have been fetched.
KeyComes(m) ==
  /\ m \in secret /\ secret' = secret \ {m}
  /\ UNCHANGED <<lines, enabled, tried, plain, run, stale, dropped, switches>>

\* decrypt: the text, the notice that it cannot be decrypted, or no key.  One
\* without a key may be tried again, and so may one that threw.
Decrypted ==
  /\ run.at # None
  /\ \/ run.at \notin secret /\ Advance([run EXCEPT !.found = @ \cup {run.at}], tried)
     \/ run.at \in secret /\ Advance(run, tried \ {run.at})
  /\ UNCHANGED <<lines, secret, enabled, stale, dropped, switches>>

\* A bug: a cancelled run leaves the message it waited for as tried.
CancelledKeeps(m) ==
  /\ m \in stale /\ stale' = stale \ {m}
  /\ UNCHANGED <<lines, secret, enabled, tried, plain, run, dropped, switches>>

\* The run is over when the decryption it waited for is; that message may be
\* tried again.
Cancelled(m) ==
  /\ m \in stale /\ stale' = stale \ {m}
  /\ tried' = tried \ {m}
  /\ UNCHANGED <<lines, secret, enabled, plain, run, dropped, switches>>

DecryptNext ==
  \/ MessageListed \/ ListRenewed \/ Enabling \/ Decrypted
  \/ \E m \in secret : KeyComes(m)
  \/ \E m \in stale : Cancelled(m)

DecryptSpec == DecryptInit /\ [][DecryptNext]_decryptVars
-----------------------------------------------------------------------------
DecryptTypeOK ==
  /\ lines \in 0..MaxLines /\ secret \subseteq Secrets /\ enabled \in BOOLEAN
  /\ tried \subseteq 1..lines /\ plain \subseteq tried
  /\ run \in [at : 0..lines, todo : SUBSET (1..lines), found : SUBSET (1..lines)]
  /\ stale \subseteq tried /\ dropped \subseteq 1..lines /\ switches \in 0..MaxSwitches

DecryptAtRest == run = Over /\ stale = {}

\* A message that was tried and will not be tried again is shown decrypted, but
\* for those whose text was found by a run that was then cancelled.
TriedAreDecrypted == DecryptAtRest => tried \subseteq plain \cup dropped

=============================================================================
