-------------------------- MODULE WebClient_proofs --------------------------
(***************************************************************************)
(* Proofs about the parts of the browser and of their services that keep   *)
(* their own state: texts that are decrypted, the statuses of members,     *)
(* read positions, translations, views of a whiteboard, direct messages,   *)
(* the session of a tab, the message field, for any number of messages,    *)
(* members, tabs, editors, clients, rooms, words, files and faults.        *)
(***************************************************************************)
EXTENDS DecryptMessages, PresenceView, ReadReceipts, Translations, Whiteboard, DirectMessages, ClientSession,
        MessageField, PresenceService, FiniteSetTheorems, TLAPS

\* A set of numbers that has a member, and none above another number, has a least.
LEMMA LeastOf ==
  ASSUME NEW lo \in Int, NEW hi \in Int, NEW S \in SUBSET (lo..hi), S # {}
  PROVE  \E m \in S : \A x \in S : m <= x
<1> DEFINE D(i) == {j \in S : j < i}
           c == Cardinality(S)
           f == [i \in S |-> Cardinality(D(i)) + 1]
<1>1. IsFiniteSet(S)
  BY FS_Interval, FS_Subset
<1>2. c \in Nat \ {0}
  BY <1>1, FS_CardinalityType, FS_EmptySet
<1>3. \A i \in S : IsFiniteSet(D(i)) /\ Cardinality(D(i)) \in Nat
  <2> TAKE i \in S
  <2>1. D(i) \in SUBSET S
    OBVIOUS
  <2>2. IsFiniteSet(D(i))
    BY <1>1, <2>1, FS_Subset
  <2> QED BY <2>2, FS_CardinalityType
<1>4. ASSUME NEW i \in S
      PROVE  Cardinality(D(i)) + 1 <= c
  <2>1. i \notin D(i)
    OBVIOUS
  <2>2. D(i) \cup {i} \in SUBSET S
    OBVIOUS
  <2>3. Cardinality(D(i) \cup {i}) = Cardinality(D(i)) + 1
    BY <1>3, <2>1, FS_AddElement
  <2>4. Cardinality(D(i) \cup {i}) <= c
    BY <1>1, <2>2, FS_Subset
  <2> QED BY <2>3, <2>4
<1>5. ASSUME NEW i \in S, NEW j \in S, i < j
      PROVE  Cardinality(D(i)) + 1 <= Cardinality(D(j))
  <2>1. i \notin D(i)
    OBVIOUS
  <2>2. D(i) \cup {i} \in SUBSET D(j)
    <3>1. \A h \in S : h < i => h < j
      BY <1>5
    <3> QED BY <1>5, <3>1
  <2>3. Cardinality(D(i) \cup {i}) = Cardinality(D(i)) + 1
    BY <1>3, <2>1, FS_AddElement
  <2>4. Cardinality(D(i) \cup {i}) <= Cardinality(D(j))
    BY <1>3, <2>2, FS_Subset
  <2> QED BY <2>3, <2>4
<1> HIDE DEF D, c
<1>6. f \in [S -> 1..c] /\ \A i, j \in S : i < j => f[i] < f[j]
  BY <1>2, <1>3, <1>4, <1>5
<1> HIDE DEF f
<1>7. \A i, j \in S : f[i] = f[j] => i = j
  <2> TAKE i, j \in S
  <2>1. i \in Int /\ j \in Int /\ f[i] \in Int /\ f[j] \in Int
    BY <1>2, <1>6
  <2> QED BY <1>6, <2>1
<1>8. f \in Injection(S, 1..c)
  BY <1>6, <1>7 DEF Injection, IsInjective
<1>9. IsFiniteSet(1..c) /\ Cardinality(1..c) = c
  BY <1>2, FS_Interval
<1>10. f \in Surjection(S, 1..c)
  BY <1>1, <1>8, <1>9, FS_Injection DEF c
<1>11. 1 \in 1..c
  BY <1>2
<1>12. PICK m \in S : f[m] = 1
  BY <1>10, <1>11 DEF Surjection
<1>13. ASSUME NEW x \in S PROVE m <= x
  <2>1. m \in Int /\ x \in Int /\ f[x] \in 1..c
    BY <1>6
  <2>2. ~(x < m)
    BY <1>2, <1>6, <1>12, <2>1
  <2> QED BY <2>1, <2>2
<1> QED BY <1>13


\* So it has a greatest.
LEMMA GreatestOf ==
  ASSUME NEW lo \in Int, NEW hi \in Int, NEW S \in SUBSET (lo..hi), S # {}
  PROVE  \E m \in S : \A x \in S : x <= m
<1> DEFINE T == {j \in (-hi)..(-lo) : -j \in S}
<1>1. \A i \in S : i \in Int /\ -i \in T /\ -(-i) = i
  OBVIOUS
<1>2. T \in SUBSET ((-hi)..(-lo)) /\ T # {}
  <2>1. PICK i \in S : TRUE
    OBVIOUS
  <2>2. -i \in T
    BY <1>1
  <2>3. T \subseteq (-hi)..(-lo)
    OBVIOUS
  <2> HIDE DEF T
  <2> QED BY <2>2, <2>3
<1>3. \A j \in T : -j \in S /\ j \in Int
  OBVIOUS
<1> HIDE DEF T
<1>4. PICK m \in T : \A x \in T : m <= x
  <2>1. -hi \in Int /\ -lo \in Int
    OBVIOUS
  <2> QED BY <1>2, <2>1, LeastOf
<1>5. -m \in S /\ m \in Int
  BY <1>3
<1>6. \A x \in S : x <= -m
  <2> TAKE x \in S
  <2>1. x \in Int /\ m <= -x
    BY <1>1, <1>4
  <2> QED BY <1>5, <2>1
<1> QED BY <1>5, <1>6

(***************************************************************************)
(* DecryptMessages.                                                        *)
(***************************************************************************)
\* A run is a record of three fields, and holds nothing when it is over.
RunShape ==
  /\ \E a, t, f : run = [at |-> a, todo |-> t, found |-> f]
  /\ run.at = None => run.found = {}

\* Where a message that was tried is: shown, found by a run that was cancelled,
\* found by the current run, or waited for.
Covered(m) == m \in plain \cup dropped \cup run.found \cup {run.at} \cup stale

DInv == RunShape /\ None \notin tried /\ \A m \in tried : Covered(m)

-----------------------------------------------------------------------------
\* Whatever set t is taken for the tried ones: if they are covered without the
\* message the run waits for, they are covered when it has gone on.
LEMMA AdvanceKeeps ==
  ASSUME NEW a, NEW d, NEW f, NEW t, None \notin t,
         Advance([at |-> a, todo |-> d, found |-> f], t),
         \A m \in t : m \in plain \cup dropped' \cup f \cup stale'
  PROVE  /\ RunShape'
         /\ None \notin tried'
         /\ \A m \in tried' : Covered(m)'
<1> DEFINE r == [at |-> a, todo |-> d, found |-> f]
           m == FirstOf(r.todo)
<1>1. CASE m # None
  <2>1. run' = [at |-> m, todo |-> d \ {m}, found |-> f] /\ tried' = t \cup {m} /\ plain' = plain
    BY <1>1 DEF Advance
  <2> HIDE DEF m
  <2>2. run'.at = m /\ run'.found = f
    BY <2>1
  <2> QED BY <1>1, <2>1, <2>2 DEF RunShape, Covered
<1>2. CASE m = None
  <2>1. run' = Over /\ plain' = plain \cup f /\ tried' = t
    BY <1>2 DEF Advance
  <2>2. run'.at = None /\ run'.found = {}
    BY <2>1 DEF Over
  <2>3. RunShape'
    BY <2>1, <2>2 DEF RunShape, Over
  <2> QED BY <2>1, <2>2, <2>3 DEF Covered
<1> QED BY <1>1, <1>2

\* The effect may run at any moment.
LEMMA RenewKeeps ==
  ASSUME DInv, NEW n, NEW on \in BOOLEAN, Renew(n, on)
  PROVE  DInv'
<1>1. \A m \in tried : m \in plain \cup dropped' \cup stale'
  <2>1. dropped' = dropped \cup run.found
    BY DEF Renew
  <2>2. CASE run.at = None
    BY <2>1, <2>2 DEF DInv, Covered, Renew
  <2>3. CASE run.at # None
    BY <2>1, <2>3 DEF DInv, Covered, Renew
  <2> QED BY <2>2, <2>3
<1>2. CASE on
  <2>1. Advance([at |-> None, todo |-> (1..n) \ tried, found |-> {}], tried)
    BY <1>2 DEF Renew, Over
  <2> QED BY <1>1, <2>1, AdvanceKeeps DEF DInv
<1>3. CASE ~on
  <2>1. run' = Over /\ tried' = tried /\ plain' = plain
    BY <1>3 DEF Renew
  <2>2. run'.at = None /\ run'.found = {}
    BY <2>1 DEF Over
  <2>3. RunShape'
    BY <2>1, <2>2 DEF RunShape, Over
  <2> QED BY <1>1, <2>1, <2>2, <2>3 DEF DInv, Covered
<1> QED BY <1>2, <1>3

\* A decryption ends: its message was found, or may be tried again.
LEMMA DecryptedKeeps ==
  ASSUME DInv, Decrypted
  PROVE  DInv'
<1>1. PICK a, t, f : run = [at |-> a, todo |-> t, found |-> f]
  BY DEF DInv, RunShape
<1>2. run.at = a /\ run.found = f
  BY <1>1
<1>3. stale' = stale /\ dropped' = dropped
  BY DEF Decrypted
<1>4. CASE run.at \notin secret
  <2>1. Advance([at |-> a, todo |-> t, found |-> f \cup {a}], tried)
    BY <1>1, <1>2, <1>4 DEF Decrypted
  <2>2. \A m \in tried : m \in plain \cup dropped' \cup (f \cup {a}) \cup stale'
    BY <1>2, <1>3 DEF DInv, Covered
  <2> QED BY <2>1, <2>2, AdvanceKeeps DEF DInv
<1>5. CASE run.at \in secret
  <2>1. Advance([at |-> a, todo |-> t, found |-> f], tried \ {a})
    BY <1>1, <1>2, <1>5 DEF Decrypted
  <2>2. \A m \in tried \ {a} : m \in plain \cup dropped' \cup f \cup stale'
    BY <1>2, <1>3 DEF DInv, Covered
  <2>3. None \notin tried \ {a}
    BY DEF DInv
  <2> QED BY <2>1, <2>2, <2>3, AdvanceKeeps DEF DInv
<1> QED BY <1>4, <1>5

\* The flag is one, whatever the effect is called with.
EnabledIsFlag == enabled \in BOOLEAN

\* Every step keeps the messages that were tried covered.
LEMMA DInvStep ==
  ASSUME EnabledIsFlag, DInv, [DecryptNext]_decryptVars
  PROVE  EnabledIsFlag' /\ DInv'
<1>1. CASE MessageListed
  BY <1>1, RenewKeeps DEF MessageListed, EnabledIsFlag
<1>2. CASE ListRenewed
  BY <1>2, RenewKeeps DEF ListRenewed, EnabledIsFlag
<1>3. CASE Enabling
  BY <1>3, RenewKeeps DEF Enabling, EnabledIsFlag
<1>4. CASE Decrypted
  BY <1>4, DecryptedKeeps DEF Decrypted, EnabledIsFlag
<1>5. ASSUME NEW m \in secret, KeyComes(m)
      PROVE  EnabledIsFlag' /\ DInv'
  BY <1>5 DEF KeyComes, EnabledIsFlag, DInv, RunShape, Covered
<1>6. ASSUME NEW m \in stale, Cancelled(m)
      PROVE  EnabledIsFlag' /\ DInv'
  BY <1>6 DEF Cancelled, EnabledIsFlag, DInv, RunShape, Covered
<1>7. CASE UNCHANGED decryptVars
  BY <1>7 DEF decryptVars, EnabledIsFlag, DInv, RunShape, Covered
<1> QED BY <1>1, <1>2, <1>3, <1>4, <1>5, <1>6, <1>7 DEF DecryptNext

\* useDecryptMessages at rest: every message it will not try again is shown
\* decrypted, or was found by a run that was cancelled before it wrote anything.
THEOREM TriedShown == DecryptSpec => []TriedAreDecrypted
<1>1. ASSUME DecryptInit PROVE EnabledIsFlag /\ DInv
  <2>1. run = [at |-> None, todo |-> {}, found |-> {}] /\ tried = {} /\ enabled = FALSE
    BY <1>1 DEF DecryptInit, Over
  <2>2. RunShape
    BY <2>1 DEF RunShape
  <2> QED BY <2>1, <2>2 DEF EnabledIsFlag, DInv
<1>2. EnabledIsFlag /\ DInv /\ [DecryptNext]_decryptVars => (EnabledIsFlag /\ DInv)'
  BY DInvStep
<1>3. EnabledIsFlag /\ DInv => TriedAreDecrypted
  <2> SUFFICES ASSUME DInv, DecryptAtRest, NEW m \in tried
               PROVE  m \in plain \cup dropped
    BY DEF TriedAreDecrypted
  <2>1. run.at = None /\ run.found = {} /\ stale = {}
    BY DEF DecryptAtRest, Over
  <2> QED BY <2>1 DEF DInv, Covered
<1> QED BY <1>1, <1>2, <1>3, PTL DEF DecryptSpec

-----------------------------------------------------------------------------
\* A message is in one place: tried by the run, found by it, waited for by one that
\* was cancelled, shown, or not tried at all.
DecryptPlaces ==
  /\ plain \subseteq tried /\ stale \subseteq tried /\ run.found \subseteq tried
  /\ run.todo \cap tried = {} /\ stale \cap (plain \cup run.found) = {} /\ run.found \cap plain = {}
  /\ run.at # None => run.at \in tried /\ run.at \notin plain \cup stale \cup run.found
RunTypes(n) == [at : 0..n, todo : SUBSET (1..n), found : SUBSET (1..n)]
DecryptTypes ==
  /\ lines \in 0..MaxLines /\ secret \subseteq Secrets /\ enabled \in BOOLEAN
  /\ tried \subseteq 1..lines /\ run \in RunTypes(lines) /\ dropped \subseteq 1..lines /\ switches \in 0..MaxSwitches
  /\ DecryptPlaces

\* The first of the messages to try is one of them.
LEMMA FirstIs ==
  ASSUME NEW n \in Nat, NEW s \in SUBSET (1..n)
  PROVE  IF s = {} THEN FirstOf(s) = None ELSE FirstOf(s) \in s /\ FirstOf(s) # None
<1>1. CASE s = {}
  BY <1>1 DEF FirstOf
<1>2. CASE s # {}
  <2>1. PICK m \in s : \A x \in s : m <= x
    <3>1. 1 \in Int /\ n \in Int
      OBVIOUS
    <3> QED BY <1>2, <3>1, LeastOf
  <2>2. FirstOf(s) = CHOOSE k \in s : \A x \in s : k <= x
    BY <1>2 DEF FirstOf
  <2>3. FirstOf(s) \in s
    BY <2>1, <2>2
  <2> QED BY <1>2, <2>3 DEF None
<1> QED BY <1>1, <1>2

\* The run goes on with t tried, a that it waited for being done with.
LEMMA AdvanceTypes ==
  ASSUME NEW n \in Nat, NEW r \in RunTypes(n), NEW t \in SUBSET (1..n), Advance(r, t),
         plain \subseteq t, stale' \subseteq t, r.found \subseteq t, r.todo \cap t = {},
         stale' \cap (plain \cup r.found) = {}, r.found \cap plain = {}
  PROVE  DecryptPlaces' /\ run' \in RunTypes(n) /\ tried' \subseteq 1..n
<1> DEFINE m == FirstOf(r.todo)
<1>1. r.todo \in SUBSET (1..n) /\ r.found \in SUBSET (1..n) /\ r = [at |-> r.at, todo |-> r.todo, found |-> r.found]
  BY DEF RunTypes
<1>2. CASE m # None
  <2>1. m \in r.todo
    BY <1>1, <1>2, FirstIs
  <2>2. run' = [at |-> m, todo |-> r.todo \ {m}, found |-> r.found] /\ tried' = t \cup {m} /\ plain' = plain
    BY <1>1, <1>2 DEF Advance
  <2> HIDE DEF m
  <2>3. run'.at = m /\ run'.todo = r.todo \ {m} /\ run'.found = r.found
    BY <2>2
  <2>4. run' \in RunTypes(n) /\ tried' \subseteq 1..n
    BY <1>1, <2>1, <2>2 DEF RunTypes
  <2> QED BY <2>1, <2>2, <2>3, <2>4 DEF DecryptPlaces
<1>3. CASE m = None
  <2>1. run' = [at |-> None, todo |-> {}, found |-> {}] /\ tried' = t /\ plain' = plain \cup r.found
    BY <1>3 DEF Advance, Over
  <2>2. run'.at = None /\ run'.todo = {} /\ run'.found = {}
    BY <2>1
  <2>3. run' \in RunTypes(n)
    BY <2>1 DEF RunTypes, None
  <2> QED BY <2>1, <2>2, <2>3 DEF DecryptPlaces
<1> QED BY <1>2, <1>3

\* A run that begins anew, the one before it being cancelled.
LEMMA RenewTypes ==
  ASSUME DecryptTypes, NEW n \in Nat, lines <= n, NEW on \in BOOLEAN, Renew(n, on)
  PROVE  DecryptPlaces' /\ run' \in RunTypes(n) /\ tried' \subseteq 1..n /\ dropped' \subseteq 1..n
<1>1. /\ tried \subseteq 1..n /\ run \in RunTypes(lines) /\ dropped \subseteq 1..n /\ lines \in Nat /\ DecryptPlaces
  BY DecryptParameters DEF DecryptTypes
<1>2. run.at \in 0..lines /\ run.found \subseteq 1..lines
  BY <1>1 DEF RunTypes
<1>3. dropped' \subseteq 1..n /\ stale' = (IF run.at = None THEN stale ELSE stale \cup {run.at})
  BY <1>1, <1>2 DEF Renew
<1>4. stale' \subseteq tried /\ stale' \cap plain = {} /\ plain \subseteq tried
  BY <1>1, <1>3 DEF DecryptPlaces
<1>5. CASE on
  <2> DEFINE r == [at |-> None, todo |-> (1..n) \ tried, found |-> {}]
  <2>1. Advance(r, tried)
    BY <1>5 DEF Renew, Over
  <2>2. r \in RunTypes(n) /\ r.found = {} /\ r.todo \cap tried = {}
    BY DEF RunTypes, None
  <2> HIDE DEF r
  <2> QED BY <1>1, <1>3, <1>4, <2>1, <2>2, AdvanceTypes
<1>6. CASE ~on
  <2>1. run' = [at |-> None, todo |-> {}, found |-> {}] /\ tried' = tried /\ plain' = plain
    BY <1>6 DEF Renew, Over
  <2>2. run'.at = None /\ run'.todo = {} /\ run'.found = {}
    BY <2>1
  <2>3. run' \in RunTypes(n)
    BY <2>1 DEF RunTypes, None
  <2> QED BY <1>1, <1>3, <1>4, <2>1, <2>2, <2>3 DEF DecryptPlaces
<1> QED BY <1>5, <1>6

\* Every step keeps the types.
LEMMA DecryptTypesKept ==
  ASSUME DecryptTypes, [DecryptNext]_decryptVars
  PROVE  DecryptTypes'
<1>1. /\ lines \in Nat /\ lines \in 0..MaxLines /\ secret \subseteq Secrets /\ enabled \in BOOLEAN /\ MaxLines \in Nat
      /\ tried \subseteq 1..lines /\ run \in RunTypes(lines) /\ dropped \subseteq 1..lines /\ switches \in 0..MaxSwitches
      /\ DecryptPlaces /\ MaxSwitches \in Nat
  BY DecryptParameters DEF DecryptTypes
<1>2. CASE MessageListed
  <2>1. lines' = lines + 1 /\ lines' \in 0..MaxLines /\ Renew(lines + 1, enabled) /\ UNCHANGED <<secret, enabled, switches>>
    BY <1>1, <1>2 DEF MessageListed
  <2>2. lines + 1 \in Nat /\ lines <= lines + 1
    BY <1>1
  <2>3. DecryptPlaces' /\ run' \in RunTypes(lines + 1) /\ tried' \subseteq 1..(lines + 1) /\ dropped' \subseteq 1..(lines + 1)
    BY <1>1, <2>1, <2>2, RenewTypes
  <2> QED BY <1>1, <2>1, <2>3 DEF DecryptTypes
<1>3. CASE ListRenewed
  <2>1. switches' \in 0..MaxSwitches /\ Renew(lines, enabled) /\ UNCHANGED <<lines, secret, enabled>>
    BY <1>1, <1>3 DEF ListRenewed
  <2>2. lines <= lines
    BY <1>1
  <2>3. DecryptPlaces' /\ run' \in RunTypes(lines) /\ tried' \subseteq 1..lines /\ dropped' \subseteq 1..lines
    BY <1>1, <2>1, <2>2, RenewTypes
  <2> QED BY <1>1, <2>1, <2>3 DEF DecryptTypes
<1>4. CASE Enabling
  <2>1. enabled' = TRUE /\ Renew(lines, TRUE) /\ UNCHANGED <<lines, secret, switches>>
    BY <1>4 DEF Enabling
  <2>2. lines <= lines
    BY <1>1
  <2>3. DecryptPlaces' /\ run' \in RunTypes(lines) /\ tried' \subseteq 1..lines /\ dropped' \subseteq 1..lines
    BY <1>1, <2>1, <2>2, RenewTypes
  <2> QED BY <1>1, <2>1, <2>3 DEF DecryptTypes
<1>5. ASSUME NEW m \in secret, KeyComes(m) PROVE DecryptTypes'
  <2>1. secret' = secret \ {m} /\ UNCHANGED <<lines, enabled, tried, plain, run, stale, dropped, switches>>
    BY <1>5 DEF KeyComes
  <2> QED BY <1>1, <2>1 DEF DecryptTypes, DecryptPlaces
<1>6. CASE Decrypted
  <2>1. run.at # None /\ UNCHANGED <<lines, secret, enabled, stale, dropped, switches>>
    BY <1>6 DEF Decrypted
  <2>2. run.at \in 1..lines /\ run = [at |-> run.at, todo |-> run.todo, found |-> run.found] /\ run.found \subseteq 1..lines
    BY <1>1, <2>1 DEF RunTypes, None
  <2>3. /\ run.at \in tried /\ run.at \notin plain \cup stale \cup run.found
        /\ plain \subseteq tried /\ stale \subseteq tried /\ run.found \subseteq tried
        /\ run.todo \cap tried = {} /\ stale \cap (plain \cup run.found) = {} /\ run.found \cap plain = {}
    BY <1>1, <2>1 DEF DecryptPlaces
  <2>4. CASE run.at \notin secret
    <3> DEFINE r == [run EXCEPT !.found = run.found \cup {run.at}]
    <3>1. Advance(r, tried)
      BY <1>6, <2>4 DEF Decrypted
    <3>2. r \in RunTypes(lines) /\ r.found = run.found \cup {run.at} /\ r.todo = run.todo
      BY <1>1, <2>2 DEF RunTypes
    <3> HIDE DEF r
    <3>3. DecryptPlaces' /\ run' \in RunTypes(lines) /\ tried' \subseteq 1..lines
      BY <1>1, <2>1, <2>3, <3>1, <3>2, AdvanceTypes
    <3> QED BY <1>1, <2>1, <3>3 DEF DecryptTypes
  <2>5. CASE run.at \in secret
    <3>1. Advance(run, tried \ {run.at})
      BY <1>6, <2>5 DEF Decrypted
    <3>2. DecryptPlaces' /\ run' \in RunTypes(lines) /\ tried' \subseteq 1..lines
      <4> DEFINE t == tried \ {run.at}
      <4>1. t \in SUBSET (1..lines) /\ plain \subseteq t /\ stale' \subseteq t /\ run.found \subseteq t /\ run.todo \cap t = {}
        BY <1>1, <2>1, <2>3
      <4>2. stale' \cap (plain \cup run.found) = {} /\ run.found \cap plain = {}
        BY <2>1, <2>3
      <4> HIDE DEF t
      <4> QED BY <1>1, <3>1, <4>1, <4>2, AdvanceTypes DEF t
    <3> QED BY <1>1, <2>1, <3>2 DEF DecryptTypes
  <2> QED BY <2>4, <2>5
<1>7. ASSUME NEW m \in stale, Cancelled(m) PROVE DecryptTypes'
  <2>1. stale' = stale \ {m} /\ tried' = tried \ {m} /\ UNCHANGED <<lines, secret, enabled, plain, run, dropped, switches>>
    BY <1>7 DEF Cancelled
  <2>2. DecryptPlaces'
    BY <1>1, <2>1 DEF DecryptPlaces
  <2> QED BY <1>1, <2>1, <2>2 DEF DecryptTypes
<1>8. CASE UNCHANGED decryptVars
  BY <1>1, <1>8 DEF decryptVars, DecryptTypes, DecryptPlaces
<1> QED BY <1>2, <1>3, <1>4, <1>5, <1>6, <1>7, <1>8 DEF DecryptNext

\* They hold at first.
LEMMA DecryptTypesInit ==
  ASSUME DecryptInit
  PROVE  DecryptTypes
<1>1. /\ lines \in 0..1 /\ secret \in SUBSET Secrets /\ enabled = FALSE
      /\ tried = {} /\ plain = {} /\ run = [at |-> None, todo |-> {}, found |-> {}] /\ stale = {} /\ dropped = {} /\ switches = 0
  BY DEF DecryptInit, Over
<1>2. run \in RunTypes(lines) /\ run.at = None /\ run.todo = {} /\ run.found = {}
  BY <1>1 DEF RunTypes, None
<1>3. lines \in 0..MaxLines /\ switches \in 0..MaxSwitches
  BY <1>1, DecryptParameters
<1>4. DecryptPlaces
  BY <1>1, <1>2 DEF DecryptPlaces
<1> QED BY <1>1, <1>2, <1>3, <1>4 DEF DecryptTypes

\* They are those of the variables.
LEMMA DecryptTypesAre ==
  ASSUME DecryptTypes
  PROVE  DecryptTypeOK
BY DEF DecryptTypes, DecryptPlaces, RunTypes, DecryptTypeOK

\* Every variable of the decrypted texts (useDecryptMessages.ts) has its type, and a
\* message is in one place at a time.
THEOREM DecryptTypeCorrect == DecryptSpec => []DecryptTypeOK
BY DecryptTypesInit, DecryptTypesKept, DecryptTypesAre, PTL DEF DecryptSpec

-----------------------------------------------------------------------------
(***************************************************************************)
(* PresenceView.                                                           *)
(***************************************************************************)
Diff == [user : People, status : Status]

\* The types the argument needs; the number of a question is of no use to it.
PTypes ==
  /\ status \in [People -> Status] /\ shown \in [People -> Status]
  /\ diffs \in Seq(Diff) /\ changes \in Nat
  /\ \A d \in unsent : d.user \in People /\ d.status \in Status /\ d.no \in Nat /\ d.no < changes
  /\ \A q \in questions :
       \E n, r, l, s : q = [n |-> n, read |-> r, list |-> l, stale |-> s] /\ l \in [People -> Status]

\* Nothing is announced to a client that does not listen.
Silent == ~(inRoom /\ linked) => diffs = <<>>

\* The users of whom a change is to be announced, and of whom one is on its way.
Owed == {d.user : d \in unsent}
Underway == {diffs[i].user : i \in 1..Len(diffs)}

\* The newest change of a user who is not doubted is the status he has: the one
\* that is still to be announced, or else the last one that was.
NewestRight ==
  \A d \in unsent :
    d.user \notin doubted /\ (\A e \in unsent : e.user = d.user => e.no <= d.no)
    => d.status = status[d.user]
LastRight ==
  \A i \in 1..Len(diffs) :
    /\ diffs[i].user \notin doubted /\ diffs[i].user \notin Owed
    /\ \A j \in 1..Len(diffs) : j > i => diffs[j].user # diffs[i].user
    => diffs[i].status = status[diffs[i].user]

\* An answer that was written is right about all but those who changed since and
\* those of whom its instance had not heard.
AnswersRight == \A q \in questions : q.read => \A u \in People \ q.stale : q.list[u] = status[u]

\* What is shown is right, but for the changes that are on their way.
ShownRight ==
  inRoom /\ linked /\ ~cold /\ questions = {} =>
    \A u \in People \ (blurred \cup doubted) : u \notin Owed /\ u \notin Underway => shown[u] = status[u]

PInv == PTypes /\ Silent /\ NewestRight /\ LastRight /\ AnswersRight /\ ShownRight

-----------------------------------------------------------------------------
\* A question that has just been asked.
LEMMA NewQuestion ==
  ASSUME PTypes, AnswersRight, Asking, status' = status, shown' = shown, diffs' = diffs,
         unsent' = unsent, changes' = changes
  PROVE  PTypes' /\ AnswersRight' /\ questions' # {}
<1> DEFINE k == CHOOSE k \in 0..Cardinality(questions) : \A q \in questions : q.n # k
<1>1. Question = [n |-> k, read |-> FALSE, list |-> AllOffline, stale |-> {}]
  BY DEF Question
<1>2. AllOffline \in [People -> Status]
  BY DEF AllOffline, Status
<1>3. questions' = questions \cup {Question}
  BY DEF Asking
<1> HIDE DEF k
<1>4. Question.read = FALSE
  BY <1>1
<1>5. PTypes'
  BY <1>1, <1>2, <1>3 DEF PTypes
<1>6. AnswersRight'
  BY <1>3, <1>4 DEF AnswersRight
<1> QED BY <1>3, <1>5, <1>6

\* Somebody's status changes: the newest change of his is the one to announce,
\* and the answers that are on their way no longer count for him.
LEMMA ChangeKeeps ==
  ASSUME PInv, NEW u \in People, NEW s \in Status, Change(u, s)
  PROVE  PInv'
<1> DEFINE d == [user |-> u, status |-> s, no |-> changes]
<1>1. /\ status' = [status EXCEPT ![u] = s] /\ shown' = shown /\ blurred' = blurred /\ doubted' = doubted
      /\ inRoom' = inRoom /\ linked' = linked /\ cold' = cold /\ diffs' = diffs /\ changes' = changes + 1
      /\ unsent' = unsent \cup {d}
      /\ questions' = {IF q.read THEN [q EXCEPT !.stale = @ \cup {u}] ELSE q : q \in questions}
  BY DEF Change
<1>2. d.user = u /\ d.status = s /\ d.no = changes
  OBVIOUS
<1> HIDE DEF d
<1>3. status \in [People -> Status] /\ changes \in Nat /\ status'[u] = s /\ status' \in [People -> Status]
  BY <1>1 DEF PInv, PTypes
<1>4. \A v \in People : v # u => status'[v] = status[v]
  BY <1>1, <1>3
<1>5. \A e \in unsent : e.user \in People /\ e.status \in Status /\ e.no \in Nat /\ e.no < changes
  BY DEF PInv, PTypes
<1>6. \A q \in questions' :
        /\ \E n, r, l, t : q = [n |-> n, read |-> r, list |-> l, stale |-> t] /\ l \in [People -> Status]
        /\ q.read => \A v \in People \ q.stale : q.list[v] = status'[v]
  <2> TAKE q \in questions'
  <2>1. PICK p \in questions : q = IF p.read THEN [p EXCEPT !.stale = @ \cup {u}] ELSE p
    BY <1>1
  <2>2. PICK n, r, l, t : p = [n |-> n, read |-> r, list |-> l, stale |-> t] /\ l \in [People -> Status]
    BY DEF PInv, PTypes
  <2>3. p.read = r /\ p.list = l /\ p.stale = t
    BY <2>2
  <2>4. CASE r
    <3>1. p \in [n : {n}, read : {r}, list : {l}, stale : {t}]
      BY <2>2
    <3>2. [p EXCEPT !.stale = @ \cup {u}] \in [n : {n}, read : {r}, list : {l}, stale : {t \cup {u}}]
      BY <2>3, <3>1
    <3>3. q \in [n : {n}, read : {r}, list : {l}, stale : {t \cup {u}}]
      BY <2>1, <2>3, <2>4, <3>2
    <3>4. q = [n |-> n, read |-> r, list |-> l, stale |-> t \cup {u}] /\ q.list = l /\ q.stale = t \cup {u}
      BY <3>3
    <3>5. \A v \in People \ t : l[v] = status[v]
      BY <2>3, <2>4 DEF PInv, AnswersRight
    <3> QED BY <1>4, <2>2, <3>4, <3>5
  <2>5. CASE ~r
    <3>1. q = p
      BY <2>1, <2>3, <2>5
    <3> QED BY <2>2, <2>3, <2>5, <3>1
  <2> QED BY <2>4, <2>5
<1>7. u \in Owed' /\ \A v : v \in Owed => v \in Owed'
  BY <1>1, <1>2 DEF Owed
<1>8. PTypes' /\ AnswersRight'
  <2>1. \A e \in unsent' : e.user \in People /\ e.status \in Status /\ e.no \in Nat /\ e.no < changes'
    BY <1>1, <1>2, <1>3, <1>5
  <2> QED BY <1>1, <1>3, <1>6, <2>1 DEF PInv, PTypes, AnswersRight
<1>9. NewestRight'
  <2> SUFFICES ASSUME NEW c \in unsent', c.user \notin doubted, \A e \in unsent' : e.user = c.user => e.no <= c.no
               PROVE  c.status = status'[c.user]
    BY <1>1 DEF NewestRight
  <2>1. CASE c = d
    BY <1>2, <1>3, <2>1
  <2>2. CASE c # d
    <3>1. c \in unsent /\ d \in unsent'
      BY <1>1, <2>2
    <3>2. c.user # u
      BY <1>2, <1>3, <1>5, <3>1
    <3>3. c.status = status[c.user]
      BY <1>1, <3>1 DEF PInv, NewestRight
    <3> QED BY <1>4, <1>5, <3>1, <3>2, <3>3
  <2> QED BY <2>1, <2>2
<1>10. \A i \in 1..Len(diffs) : diffs[i].user \in People
  <2>1. diffs \in Seq(Diff)
    BY DEF PInv, PTypes
  <2>2. \A i \in 1..Len(diffs) : diffs[i] \in Diff
    BY <2>1
  <2> QED BY <2>2 DEF Diff
<1>11. LastRight'
  <2> SUFFICES ASSUME NEW i \in 1..Len(diffs), diffs[i].user \notin doubted, diffs[i].user \notin Owed',
                      \A j \in 1..Len(diffs) : j > i => diffs[j].user # diffs[i].user
               PROVE  diffs[i].status = status'[diffs[i].user]
    BY <1>1 DEF LastRight
  <2>1. diffs[i].user # u /\ diffs[i].user \notin Owed
    BY <1>7
  <2> QED BY <1>4, <1>10, <2>1 DEF PInv, LastRight
<1>12. ShownRight'
  <2> SUFFICES ASSUME inRoom', linked', ~cold', questions' = {}, NEW v \in People, v \notin blurred \cup doubted,
                      v \notin Owed', v \notin Underway'
               PROVE  shown'[v] = status'[v]
    BY <1>1 DEF ShownRight
  <2>1. questions = {} /\ v # u /\ v \notin Owed /\ v \notin Underway
    BY <1>1, <1>7 DEF Underway
  <2> QED BY <1>1, <1>4, <2>1 DEF PInv, ShownRight
<1> QED BY <1>1, <1>8, <1>9, <1>11, <1>12 DEF PInv, Silent

\* A change is announced, and no older one of that user is left; or he is doubted.
LEMMA PublishingKeeps ==
  ASSUME PInv, NEW d \in unsent, DiffPublished(d) \/ DiffNeverPublished(d)
  PROVE  PInv'
<1> DEFINE u == d.user
<1> DEFINE f == [user |-> d.user, status |-> d.status]
<1>1. /\ status' = status /\ shown' = shown /\ blurred' = blurred /\ questions' = questions
      /\ inRoom' = inRoom /\ linked' = linked /\ cold' = cold /\ changes' = changes /\ unsent' = unsent \ {d}
      /\ doubted \subseteq doubted' /\ doubted' \subseteq doubted \cup {u}
      /\ u \notin doubted' => DiffPublished(d) /\ \A e \in unsent : ~(e.user = u /\ e.no < d.no)
      /\ diffs' = diffs \/ (inRoom /\ linked /\ diffs' = Append(diffs, f))
      /\ u \notin doubted' /\ inRoom /\ linked => diffs' = Append(diffs, f)
  BY DEF DiffPublished, DiffNeverPublished
<1>2. /\ status \in [People -> Status] /\ diffs \in Seq(Diff)
      /\ \A e \in unsent : e.user \in People /\ e.status \in Status /\ e.no \in Nat /\ e.no < changes
  BY DEF PInv, PTypes
<1>3. f \in Diff /\ f.user = u /\ f.status = d.status
  BY <1>2 DEF Diff
<1> HIDE DEF f
<1>4. PTypes' /\ Silent' /\ AnswersRight'
  <2>1. Append(diffs, f) \in Seq(Diff)
    BY <1>2, <1>3
  <2>2. diffs' \in Seq(Diff)
    BY <1>1, <1>2, <2>1
  <2> QED BY <1>1, <2>2 DEF PInv, PTypes, Silent, AnswersRight
<1>5. \A v : v # u => (v \in Owed <=> v \in Owed')
  BY <1>1 DEF Owed
<1>6. NewestRight'
  <2> SUFFICES ASSUME NEW c \in unsent', c.user \notin doubted', \A e \in unsent' : e.user = c.user => e.no <= c.no
               PROVE  c.status = status[c.user]
    BY <1>1 DEF NewestRight
  <2>1. c \in unsent /\ c.user \notin doubted
    BY <1>1
  <2>2. \A e \in unsent : e.user = c.user => e.no <= c.no
    <3> SUFFICES ASSUME NEW e \in unsent, e.user = c.user
                 PROVE  e.no <= c.no
      OBVIOUS
    <3>1. CASE e = d
      <4>1. ~(c.no < d.no)
        BY <1>1, <2>1, <3>1
      <4> QED BY <1>2, <2>1, <3>1, <4>1
    <3>2. CASE e # d
      BY <1>1, <3>2
    <3> QED BY <3>1, <3>2
  <2> QED BY <2>1, <2>2 DEF PInv, NewestRight
\* When nothing of the user is left to announce, this was the newest one.
<1>7. u \notin doubted' /\ u \notin Owed' => d.status = status[u]
  <2> SUFFICES ASSUME u \notin doubted', u \notin Owed'
               PROVE  d.status = status[u]
    OBVIOUS
  <2>1. \A e \in unsent : e.user = u => e = d
    BY <1>1 DEF Owed
  <2>2. \A e \in unsent : e.user = d.user => e.no <= d.no
    BY <1>2, <2>1
  <2> QED BY <1>1, <2>2 DEF PInv, NewestRight
<1>8. \A i \in 1..Len(diffs) : diffs[i].user \in People
  <2>1. \A i \in 1..Len(diffs) : diffs[i] \in Diff
    BY <1>2
  <2> QED BY <2>1 DEF Diff
<1>9. CASE inRoom /\ linked /\ diffs' = Append(diffs, f)
  <2>1. /\ Len(diffs') = Len(diffs) + 1 /\ diffs'[Len(diffs) + 1] = f /\ Len(diffs) \in Nat
        /\ \A i \in 1..Len(diffs) : diffs'[i] = diffs[i]
    BY <1>2, <1>3, <1>9
  <2>2. LastRight'
    <3> SUFFICES ASSUME NEW i \in 1..Len(diffs'), diffs'[i].user \notin doubted', diffs'[i].user \notin Owed',
                        \A j \in 1..Len(diffs') : j > i => diffs'[j].user # diffs'[i].user
                 PROVE  diffs'[i].status = status[diffs'[i].user]
      BY <1>1 DEF LastRight
    <3>1. CASE i = Len(diffs) + 1
      BY <1>3, <1>7, <2>1, <3>1
    <3>2. CASE i \in 1..Len(diffs)
      <4>1. diffs[i].user # u /\ diffs[i].user \notin doubted /\ diffs[i].user \notin Owed
        BY <1>1, <1>3, <1>5, <2>1, <3>2
      <4>2. \A j \in 1..Len(diffs) : j > i => diffs[j].user # diffs[i].user
        BY <2>1, <3>2
      <4> QED BY <2>1, <3>2, <4>1, <4>2 DEF PInv, LastRight
    <3> QED BY <2>1, <3>1, <3>2
  <2>3. u \in Underway' /\ \A v : v \in Underway => v \in Underway'
    BY <1>3, <2>1 DEF Underway
  <2>4. ShownRight'
    <3> SUFFICES ASSUME inRoom, linked, ~cold, questions = {}, NEW v \in People, v \notin blurred \cup doubted',
                        v \notin Owed', v \notin Underway'
                 PROVE  shown[v] = status[v]
      BY <1>1 DEF ShownRight
    <3> QED BY <1>1, <1>5, <2>3 DEF PInv, ShownRight
  <2> QED BY <1>4, <1>6, <2>2, <2>4 DEF PInv
<1>10. CASE diffs' = diffs
  <2>1. u \notin doubted' => ~(inRoom /\ linked)
    <3> SUFFICES ASSUME u \notin doubted', inRoom, linked PROVE FALSE
      OBVIOUS
    <3>1. Len(Append(diffs, f)) = Len(diffs) + 1 /\ Len(diffs) \in Nat
      BY <1>2, <1>3
    <3> QED BY <1>1, <1>10, <3>1
  <2>2. LastRight'
    <3> SUFFICES ASSUME NEW i \in 1..Len(diffs), diffs[i].user \notin doubted', diffs[i].user \notin Owed',
                        \A j \in 1..Len(diffs) : j > i => diffs[j].user # diffs[i].user
                 PROVE  diffs[i].status = status[diffs[i].user]
      BY <1>1, <1>10 DEF LastRight
    <3>1. diffs[i].user # u
      <4>1. diffs # <<>>
        BY <1>2
      <4> QED BY <2>1, <4>1 DEF PInv, Silent
    <3> QED BY <1>1, <1>5, <3>1 DEF PInv, LastRight
  <2>3. ShownRight'
    <3> SUFFICES ASSUME inRoom, linked, ~cold, questions = {}, NEW v \in People, v \notin blurred \cup doubted',
                        v \notin Owed', v \notin Underway'
                 PROVE  shown[v] = status[v]
      BY <1>1 DEF ShownRight
    <3>1. v # u /\ v \notin Underway
      BY <1>10, <2>1 DEF Underway
    <3> QED BY <1>1, <1>5, <3>1 DEF PInv, ShownRight
  <2> QED BY <1>4, <1>6, <2>2, <2>3 DEF PInv
<1> QED BY <1>1, <1>9, <1>10

\* A change is heard of: it is the last of that user, or another one follows.
LEMMA DiffKeeps ==
  ASSUME PInv, DiffArrives
  PROVE  PInv'
<1> DEFINE u == diffs[1].user
<1>1. /\ diffs # <<>> /\ diffs' = Tail(diffs) /\ linked' = linked /\ inRoom' = inRoom /\ status' = status
      /\ shown' = [shown EXCEPT ![u] = diffs[1].status] /\ blurred' = blurred \ {u} /\ doubted' = doubted
      /\ questions' = questions /\ cold' = cold /\ unsent' = unsent /\ changes' = changes
  BY DEF DiffArrives, service
<1>2. diffs \in Seq(Diff) /\ shown \in [People -> Status] /\ status \in [People -> Status]
  BY DEF PInv, PTypes
<1>3. /\ 1 \in 1..Len(diffs) /\ Len(diffs') = Len(diffs) - 1 /\ diffs' \in Seq(Diff)
      /\ \A i \in 1..Len(diffs') : i + 1 \in 1..Len(diffs) /\ diffs'[i] = diffs[i + 1]
  BY <1>1, <1>2
<1>4. diffs[1] \in Diff
  BY <1>2, <1>3
<1>5. u \in People /\ diffs[1].status \in Status
  BY <1>4 DEF Diff
<1>6. PTypes'
  BY <1>1, <1>2, <1>3, <1>5 DEF PInv, PTypes
<1>7. LastRight'
  <2> SUFFICES ASSUME NEW i \in 1..Len(diffs'), diffs'[i].user \notin doubted', diffs'[i].user \notin Owed',
                      \A j \in 1..Len(diffs') : j > i => diffs'[j].user # diffs'[i].user
               PROVE  diffs'[i].status = status'[diffs'[i].user]
    BY DEF LastRight
  <2>1. i + 1 \in 1..Len(diffs) /\ diffs'[i] = diffs[i + 1]
    BY <1>3
  <2>2. \A j \in 1..Len(diffs) : j > i + 1 => diffs[j].user # diffs[i + 1].user
    <3> SUFFICES ASSUME NEW j \in 1..Len(diffs), j > i + 1
                 PROVE  diffs[j].user # diffs[i + 1].user
      OBVIOUS
    <3>1. j - 1 \in 1..Len(diffs') /\ j - 1 > i /\ (j - 1) + 1 = j
      BY <1>2, <1>3
    <3>2. diffs'[j - 1] = diffs[j]
      BY <1>3, <3>1
    <3> QED BY <2>1, <3>1, <3>2
  <2>3. diffs[i + 1].user \notin Owed
    BY <1>1, <2>1 DEF Owed
  <2> QED BY <1>1, <2>1, <2>2, <2>3 DEF PInv, LastRight
<1>8. \A v : v \in Underway /\ v # u => v \in Underway'
  <2> SUFFICES ASSUME NEW v, NEW i \in 1..Len(diffs), diffs[i].user = v, v # u
               PROVE  \E k \in 1..Len(diffs') : diffs'[k].user = v
    BY DEF Underway
  <2>1. i - 1 \in 1..Len(diffs') /\ (i - 1) + 1 = i
    BY <1>2, <1>3
  <2>2. diffs'[i - 1] = diffs[i]
    BY <1>3, <2>1
  <2> QED BY <2>1, <2>2
<1>9. ShownRight'
  <2> SUFFICES ASSUME inRoom', linked', ~cold', questions' = {}, NEW v \in People, v \notin blurred' \cup doubted',
                      v \notin Owed', v \notin Underway'
               PROVE  shown'[v] = status'[v]
    BY DEF ShownRight
  <2>1. CASE v = u
    <3>1. \A j \in 1..Len(diffs) : j > 1 => diffs[j].user # diffs[1].user
      <4> SUFFICES ASSUME NEW j \in 1..Len(diffs), j > 1
                   PROVE  diffs[j].user # u
        OBVIOUS
      <4>1. j - 1 \in 1..Len(diffs') /\ (j - 1) + 1 = j
        BY <1>2, <1>3
      <4>2. diffs'[j - 1] = diffs[j]
        BY <1>3, <4>1
      <4> QED BY <2>1, <4>1, <4>2 DEF Underway
    <3>2. diffs[1].status = status[u]
      <4>1. u \notin doubted /\ u \notin Owed
        BY <1>1, <2>1 DEF Owed
      <4> QED BY <1>3, <3>1, <4>1 DEF PInv, LastRight
    <3> QED BY <1>1, <1>2, <1>5, <2>1, <3>2
  <2>2. CASE v # u
    <3>1. v \notin blurred \cup doubted /\ v \notin Underway /\ v \notin Owed
      BY <1>1, <1>8, <2>2 DEF Owed
    <3> QED BY <1>1, <1>2, <2>2, <3>1 DEF PInv, ShownRight
  <2> QED BY <2>1, <2>2
<1>10. Silent' /\ AnswersRight' /\ NewestRight'
  BY <1>1 DEF PInv, Silent, AnswersRight, NewestRight
<1> QED BY <1>6, <1>7, <1>9, <1>10 DEF PInv

\* An answer is written, or comes, or does not.
LEMMA AnswerKeeps ==
  ASSUME PInv, NEW q \in questions,
         (\E list \in [People -> Status] : ListPeople(q, list)) \/ ListComes(q) \/ NoListComes(q)
  PROVE  PInv'
<1>1. PICK n, r, l, s : q = [n |-> n, read |-> r, list |-> l, stale |-> s] /\ l \in [People -> Status]
  BY DEF PInv, PTypes
<1>2. q.read = r /\ q.list = l /\ q.stale = s
  BY <1>1
<1>3. ASSUME NEW list \in [People -> Status], ListPeople(q, list) PROVE PInv'
  <2> DEFINE a == [q EXCEPT !.read = TRUE, !.list = list, !.stale = lagging]
  <2>1. a = [n |-> n, read |-> TRUE, list |-> list, stale |-> lagging]
    <3>1. q \in [n : {n}, read : {r}, list : {l}, stale : {s}]
      BY <1>1
    <3>2. a \in [n : {n}, read : {TRUE}, list : {list}, stale : {lagging}]
      BY <3>1
    <3> HIDE DEF a
    <3> QED BY <3>2
  <2>2. a.read /\ a.list = list /\ a.stale = lagging
    BY <2>1
  <2>3. /\ questions' = (questions \ {q}) \cup {a} /\ status' = status /\ diffs' = diffs /\ inRoom' = inRoom
        /\ linked' = linked /\ shown' = shown /\ unsent' = unsent /\ changes' = changes /\ doubted' = doubted
        /\ \A u \in People \ lagging : list[u] = status[u]
    BY ONLY <1>3, Zenon DEF ListPeople, service
  <2> HIDE DEF a
  <2>4. PTypes'
    BY <2>1, <2>3 DEF PInv, PTypes
  <2>5. AnswersRight'
    BY <2>2, <2>3 DEF PInv, AnswersRight
  <2>6. a \in questions'
    BY <2>3
  <2>7. Silent' /\ NewestRight' /\ LastRight' /\ ShownRight'
    BY <2>3, <2>6 DEF PInv, Silent, NewestRight, LastRight, ShownRight, Owed, Underway
  <2> QED BY <2>4, <2>5, <2>7 DEF PInv
<1>4. CASE ListComes(q)
  <2>1. /\ questions' = questions \ {q} /\ status' = status /\ diffs' = diffs /\ inRoom' = inRoom
        /\ linked' = linked /\ shown' = l /\ blurred' = s /\ r /\ unsent' = unsent /\ changes' = changes
        /\ doubted' = {u \in doubted : Expected(u)}
    BY <1>2, <1>4 DEF ListComes, service
  <2>2. \A u \in People \ s : l[u] = status[u]
    BY <1>2, <2>1 DEF PInv, AnswersRight
  <2>3. PTypes'
    BY <1>1, <2>1 DEF PInv, PTypes
  <2>4. \A u : Expected(u) <=> u \in Owed \/ u \in Underway
    BY DEF Expected, Owed, Underway
  <2>5. NewestRight'
    <3> SUFFICES ASSUME NEW d \in unsent, d.user \notin doubted', \A e \in unsent : e.user = d.user => e.no <= d.no
                 PROVE  d.status = status[d.user]
      BY <2>1 DEF NewestRight
    <3>1. Expected(d.user)
      BY <2>4 DEF Owed
    <3> QED BY <2>1, <3>1 DEF PInv, NewestRight
  <2>6. LastRight'
    <3> SUFFICES ASSUME NEW i \in 1..Len(diffs), diffs[i].user \notin doubted', diffs[i].user \notin Owed,
                        \A j \in 1..Len(diffs) : j > i => diffs[j].user # diffs[i].user
                 PROVE  diffs[i].status = status[diffs[i].user]
      BY <2>1 DEF LastRight, Owed
    <3>1. Expected(diffs[i].user)
      BY <2>4 DEF Underway
    <3> QED BY <2>1, <3>1 DEF PInv, LastRight
  <2>7. Silent' /\ AnswersRight' /\ ShownRight'
    BY <2>1, <2>2 DEF PInv, Silent, AnswersRight, ShownRight
  <2> QED BY <2>3, <2>5, <2>6, <2>7 DEF PInv
<1>5. CASE NoListComes(q)
  <2>1. /\ questions' = questions \ {q} /\ status' = status /\ diffs' = diffs /\ inRoom' = inRoom
        /\ linked' = linked /\ shown' = shown /\ cold' /\ unsent' = unsent /\ changes' = changes /\ doubted' = doubted
    BY <1>5 DEF NoListComes, service
  <2> QED BY <2>1 DEF PInv, PTypes, Silent, NewestRight, LastRight, AnswersRight, ShownRight, Owed
<1> QED BY <1>3, <1>4, <1>5

\* The room is joined; the connection is lost and comes back.
LEMMA LinkKeeps ==
  ASSUME PInv, JoinRoom \/ Rejoin \/ LinkLost
  PROVE  PInv'
<1>1. CASE JoinRoom
  <2>1. diffs' = diffs /\ diffs = <<>> /\ status' = status /\ unsent' = unsent /\ changes' = changes /\ doubted' = doubted /\ shown' = shown
    BY <1>1 DEF JoinRoom, PInv, Silent, service
  <2>2. PTypes' /\ AnswersRight' /\ questions' # {}
    BY <1>1, <2>1, NewQuestion DEF JoinRoom, PInv
  <2> QED BY <2>1, <2>2 DEF PInv, Silent, NewestRight, LastRight, ShownRight, Owed
<1>2. CASE Rejoin
  <2>1. diffs' = diffs /\ diffs = <<>> /\ status' = status /\ unsent' = unsent /\ changes' = changes /\ doubted' = doubted /\ shown' = shown /\ inRoom' = inRoom
    BY <1>2 DEF Rejoin, PInv, Silent, service
  <2>2. CASE inRoom
    <3>1. PTypes' /\ AnswersRight' /\ questions' # {}
      BY <1>2, <2>1, <2>2, NewQuestion DEF Rejoin, PInv
    <3> QED BY <2>1, <3>1 DEF PInv, Silent, NewestRight, LastRight, ShownRight, Owed
  <2>3. CASE ~inRoom
    <3>1. questions' = questions
      BY <1>2, <2>3 DEF Rejoin
    <3> QED BY <2>1, <2>3, <3>1 DEF PInv, PTypes, Silent, NewestRight, LastRight, AnswersRight, ShownRight, Owed
  <2> QED BY <2>2, <2>3
<1>3. CASE LinkLost
  <2>1. /\ diffs' = <<>> /\ status' = status /\ unsent' = unsent /\ changes' = changes /\ doubted' = doubted /\ shown' = shown /\ ~linked'
        /\ questions' = {q \in questions : ~q.read}
    BY <1>3 DEF LinkLost, service
  <2> QED BY <2>1 DEF PInv, PTypes, Silent, NewestRight, LastRight, AnswersRight, ShownRight, Owed
<1> QED BY <1>1, <1>2, <1>3

\* Every step keeps the invariant.
LEMMA PInvStep ==
  ASSUME PInv, [PresenceNext]_presenceVars
  PROVE  PInv'
<1>1. ASSUME NEW u \in People, NEW s \in Status, Change(u, s) PROVE PInv'
  BY <1>1, ChangeKeeps
<1>2. CASE JoinRoom \/ Rejoin \/ LinkLost
  BY <1>2, LinkKeeps
<1>3. CASE DiffArrives
  BY <1>3, DiffKeeps
<1>4. ASSUME NEW q \in questions,
             (\E list \in [People -> Status] : ListPeople(q, list)) \/ ListComes(q) \/ NoListComes(q)
      PROVE  PInv'
  BY <1>4, AnswerKeeps
<1>5. ASSUME NEW d \in unsent, DiffPublished(d) \/ DiffNeverPublished(d) PROVE PInv'
  BY <1>5, PublishingKeeps
<1>6. ASSUME NEW u \in People, HeardEverywhere(u) PROVE PInv'
  BY <1>6 DEF HeardEverywhere, PInv, PTypes, Silent, NewestRight, LastRight, AnswersRight, ShownRight, Owed, Underway
<1>7. CASE UNCHANGED presenceVars
  BY <1>7 DEF presenceVars, service, PInv, PTypes, Silent, NewestRight, LastRight, AnswersRight, ShownRight, Owed, Underway
<1> QED BY <1>1, <1>2, <1>3, <1>4, <1>5, <1>6, <1>7 DEF PresenceNext

\* PresenceManager at rest shows what presence-service knows, whatever was lost
\* while the connection was down, but for users whose change was overtaken by an
\* older answer or had not reached the instance that answered, users whose
\* announcements crossed or were never made, and when a question failed.
THEOREM ShownIsKnown == PresenceSpec => []StatusesSettle
<1>1. PresenceInit => PInv
  BY DEF PresenceInit, PInv, PTypes, Silent, NewestRight, LastRight, AnswersRight, ShownRight, AllOffline, Status
<1>2. PInv /\ [PresenceNext]_presenceVars => PInv'
  BY PInvStep
<1>3. PInv => StatusesSettle
  BY DEF PInv, ShownRight, StatusesSettle, PresenceAtRest, Owed, Underway
<1> QED BY <1>1, <1>2, <1>3, PTL DEF PresenceSpec

-----------------------------------------------------------------------------
(***************************************************************************)
(* ReadReceipts.                                                           *)
(***************************************************************************)

\* A transaction under way writes what the bucket says, or the key is dirty
\* again, or about to be; without one the table has it, or the key waits.
FlushInv ==
  /\ dirty \/ flushing # Absent => position # Absent
  /\ update.at = "put" => update.last = 0
  /\ update.at = "mark" => position # Absent
  /\ PositionsPersisted

\* What the bucket says is in the table or on its way there, for any tabs and
\* messages, through every interleaving of the service's steps: a report that is
\* compared, put and marked, keys that are drained, read and written, each of them
\* failing, with or without effect, and a crash between any two; but for what a
\* put without an answer, a failed transaction or a crash left unmarked.
THEOREM ReportedIsKept == ReadSpec => []PositionsPersisted
<1> USE DEF Absent, KeysDrained
<1>1. ReadInit => FlushInv
  BY DEF ReadInit, FlushInv, NoUpdate, PositionsPersisted
<1>2. FlushInv /\ [ReadNext]_readVars => FlushInv'
  <2> SUFFICES ASSUME FlushInv, [ReadNext]_readVars
               PROVE  FlushInv'
    OBVIOUS
  <2> USE DEF FlushInv, PositionsPersisted
  <2>1. CASE UpdateComes \/ UpdateUnread
    <3>1. \/ update' = NoUpdate
          \/ update' = [at |-> "put", last |-> 0]
      BY <2>1 DEF UpdateComes, UpdateUnread, Decoded
    <3>2. UNCHANGED <<position, kept, dirty, flushing, forgotten>> /\ update = NoUpdate
      BY <2>1 DEF UpdateComes, UpdateUnread
    <3> QED BY <3>1, <3>2 DEF NoUpdate
  <2>2. CASE UpdatePut
    <3>1. /\ position' = 0 /\ update'.at = "mark"
          /\ UNCHANGED <<kept, dirty, flushing, forgotten>>
      BY <2>2 DEF UpdatePut
    <3> QED BY <3>1
  <2>3. CASE UpdateMarks
    BY <2>3 DEF UpdateMarks, NoUpdate
  <2>4. CASE UpdateFails
    BY <2>4 DEF UpdateFails, NoUpdate
  <2>5. CASE FlushDrains \/ FlushWaits
    BY <2>5 DEF FlushDrains, FlushWaits
  <2>6. CASE FlushReads
    BY <2>6 DEF FlushReads
  <2>7. CASE FlushEnds
    BY <2>7 DEF FlushEnds
  <2>8. CASE FlushFails
    BY <2>8 DEF FlushFails
  <2>9. CASE RestartService
    BY <2>9 DEF RestartService, NoUpdate
  <2>10. ASSUME UNCHANGED <<position, kept, update, dirty, flushing, forgotten>>
         PROVE  FlushInv'
    BY <2>10
  <2>11. CASE Speak \/ UNCHANGED readVars
    BY <2>10, <2>11 DEF Speak, readVars, serviceVars
  <2>12. ASSUME NEW t \in ReadTabs,
                \/ TextComes(t) \/ VisitRoom(t) \/ LeaveRoom(t) \/ HistoryShown(t) \/ TimerFires(t)
                \/ ReadLinkDrops(t) \/ ReadLinkReturns(t) \/ OpenEye(t)
         PROVE  FlushInv'
    <3>1. TextComes(t) => UNCHANGED <<position, kept, update, dirty, flushing, forgotten>>
      BY DEF TextComes, serviceVars
    <3>2. VisitRoom(t) => UNCHANGED <<position, kept, update, dirty, flushing, forgotten>>
      BY DEF VisitRoom, serviceVars
    <3>3. LeaveRoom(t) => UNCHANGED <<position, kept, update, dirty, flushing, forgotten>>
      BY DEF LeaveRoom, serviceVars
    <3>4. HistoryShown(t) => UNCHANGED <<position, kept, update, dirty, flushing, forgotten>>
      BY Zenon DEF HistoryShown, serviceVars
    <3>5. TimerFires(t) => UNCHANGED <<position, kept, update, dirty, flushing, forgotten>>
      BY DEF TimerFires
    <3>6. ReadLinkDrops(t) => UNCHANGED <<position, kept, update, dirty, flushing, forgotten>>
      BY DEF ReadLinkDrops, serviceVars
    <3>7. ReadLinkReturns(t) => UNCHANGED <<position, kept, update, dirty, flushing, forgotten>>
      BY DEF ReadLinkReturns, serviceVars
    <3>8. OpenEye(t) => UNCHANGED <<position, kept, update, dirty, flushing, forgotten>>
      BY Zenon DEF OpenEye, serviceVars
    <3> QED BY <2>10, <2>12, <3>1, <3>2, <3>3, <3>4, <3>5, <3>6, <3>7, <3>8
  <2>13. ASSUME NEW q \in asks, StateComes(q)
         PROVE  FlushInv'
    BY <2>10, <2>13 DEF StateComes, serviceVars
  <2> QED BY <2>1, <2>2, <2>3, <2>4, <2>5, <2>6, <2>7, <2>8, <2>9, <2>11, <2>12, <2>13 DEF ReadNext
<1>3. FlushInv => PositionsPersisted
  BY DEF FlushInv
<1> QED BY <1>1, <1>2, <1>3, PTL DEF ReadSpec

-----------------------------------------------------------------------------
\* The types, with what a screen shows kept below MaxTs.
ReadTypes ==
  /\ spoken \in 0..MaxTs /\ screens \in [ReadTabs -> Screen] /\ reports \subseteq Ts
  /\ asks \subseteq [tab : ReadTabs, for : 0..MaxTs]
  /\ position \in Positions /\ kept \in Positions /\ flushing \in Positions \cup {KeysDrained}
  /\ update \in Update \cup {NoUpdate} /\ dirty \in BOOLEAN /\ forgotten \in BOOLEAN
  /\ readsLeft \in [ReadKinds -> Nat]

\* Spending from a budget leaves one.
LEMMA SpendReadTypes ==
  ASSUME readsLeft \in [ReadKinds -> Nat], NEW kind \in ReadKinds, SpendRead(kind)
  PROVE  readsLeft' \in [ReadKinds -> Nat]
<1>1. readsLeft[kind] \in Nat /\ readsLeft[kind] > 0 /\ readsLeft' = [readsLeft EXCEPT ![kind] = @ - 1]
  BY DEF SpendRead
<1>2. readsLeft[kind] - 1 \in Nat
  BY <1>1
<1> QED BY <1>1, <1>2

\* The last text that is new is a timestamp.
LEMMA LatestIs ==
  ASSUME NEW s \in Screen
  PROVE  Latest(s) \in 0..MaxTs
<1> DEFINE new == {i \in DOMAIN s.live : s.live[i] > s.early}
           i == CHOOSE i \in new : \A j \in new : j <= i
<1>1. s.live \in Seq(Ts) /\ s.early \in 0..MaxTs
  BY DEF Screen
<1>2. CASE new = {}
  BY <1>1, <1>2 DEF Latest
<1>3. CASE new # {}
  <2>1. new \in SUBSET (1..Len(s.live)) /\ Len(s.live) \in Int /\ 1 \in Int
    BY <1>1
  <2> HIDE DEF new
  <2>2. \E m \in new : \A j \in new : j <= m
    BY <1>3, <2>1, GreatestOf
  <2>3. i \in new
    BY <2>2
  <2> HIDE DEF i
  <2>4. s.live[i] \in Ts
    BY <1>1, <2>1, <2>3
  <2>5. Latest(s) = s.live[i]
    BY <1>3 DEF Latest, new, i
  <2> QED BY <2>4, <2>5 DEF Ts
<1> QED BY <1>2, <1>3

\* A screen that marks what it shows is one.
LEMMA MarkedIs ==
  ASSUME NEW s \in Screen
  PROVE  MarkRead(s) \in Screen
<1>1. Latest(s) \in 0..MaxTs
  BY LatestIs
<1>2. [s EXCEPT !.timer = Latest(s)] \in Screen
  BY <1>1 DEF Screen
<1> QED BY <1>2 DEF MarkRead

\* So is one whose history is asked for again.
LEMMA RefetchedIs ==
  ASSUME NEW s \in Screen
  PROVE  Refetched(s) \in Screen
<1>1. Absent \in Positions /\ 0 \in 0..MaxTs
  BY ReadParameters DEF Positions
<1> QED BY <1>1 DEF Refetched, Screen

\* A step about one tab.
LEMMA OneScreen ==
  ASSUME ReadTypes, NEW t \in ReadTabs, NEW s \in Screen, screens' = [screens EXCEPT ![t] = s]
  PROVE  screens' \in [ReadTabs -> Screen]
BY DEF ReadTypes

\* Every step keeps the types.
LEMMA ReadTypesKept ==
  ASSUME ReadTypes, [ReadNext]_readVars
  PROVE  ReadTypes'
<1>1. /\ spoken \in 0..MaxTs /\ screens \in [ReadTabs -> Screen] /\ reports \subseteq Ts
      /\ asks \subseteq [tab : ReadTabs, for : 0..MaxTs]
      /\ position \in Positions /\ kept \in Positions /\ flushing \in Positions \cup {KeysDrained}
  /\ update \in Update \cup {NoUpdate} /\ dirty \in BOOLEAN /\ forgotten \in BOOLEAN
      /\ readsLeft \in [ReadKinds -> Nat] /\ MaxTs \in Nat \ {0}
  BY ReadParameters DEF ReadTypes
<1>2. \A kind \in ReadKinds : SpendRead(kind) => readsLeft' \in [ReadKinds -> Nat]
  BY <1>1, SpendReadTypes
<1>3. /\ "say" \in ReadKinds /\ "visit" \in ReadKinds /\ "leave" \in ReadKinds /\ "eye" \in ReadKinds
      /\ "drop" \in ReadKinds /\ "restart" \in ReadKinds /\ "failure" \in ReadKinds
  BY DEF ReadKinds
<1>4. \A t \in ReadTabs : screens[t] \in Screen
  BY <1>1
<1>5. Absent \in Positions /\ 0 \in Positions /\ 0 \in 0..MaxTs /\ ForLine \in 0..MaxTs
  BY <1>1 DEF Positions, ForLine
<1>6. CASE Speak
  <2>1. /\ spoken < MaxTs /\ spoken' = spoken + 1 /\ SpendRead("say") /\ UNCHANGED <<reports, position, kept, update, dirty, flushing, forgotten, asks>>
        /\ screens' = [t \in ReadTabs |-> IF screens[t].up THEN [screens[t] EXCEPT !.coming = @ \cup {spoken + 1}] ELSE screens[t]]
    BY <1>6 DEF Speak, serviceVars
  <2>2. spoken + 1 \in Ts /\ spoken' \in 0..MaxTs
    BY <1>1, <2>1 DEF Ts
  <2>3. \A t \in ReadTabs : [screens[t] EXCEPT !.coming = @ \cup {spoken + 1}] \in Screen
    BY <1>4, <2>2 DEF Screen
  <2>4. screens' \in [ReadTabs -> Screen]
    BY <1>4, <2>1, <2>3
  <2>5. readsLeft' \in [ReadKinds -> Nat]
    BY <1>2, <1>3, <2>1
  <2> QED BY <1>1, <2>1, <2>2, <2>4, <2>5 DEF ReadTypes
<1>7. ASSUME NEW t \in ReadTabs, NEW s \in Screen, screens' = [screens EXCEPT ![t] = s], spoken' = spoken,
             asks' \subseteq [tab : ReadTabs, for : 0..MaxTs], readsLeft' \in [ReadKinds -> Nat], reports' \subseteq Ts,
             UNCHANGED <<position, kept, update, dirty, flushing, forgotten>>
      PROVE  ReadTypes'
  BY <1>1, <1>7, OneScreen DEF ReadTypes
<1>8. ASSUME NEW t \in ReadTabs, TextComes(t) PROVE ReadTypes'
  <2> DEFINE WithText(k) == [screens[t] EXCEPT !.coming = @ \ {k}, !.live = Append(@, k)]
  <2>1. PICK k \in screens[t].coming : screens' = [screens EXCEPT ![t] = MarkRead(WithText(k))]
    BY <1>8, Zenon DEF TextComes
  <2> DEFINE s == WithText(k)
  <2>2. s \in Screen
    <3>1. screens[t] \in Screen /\ screens[t].coming \in SUBSET Ts /\ screens[t].live \in Seq(Ts)
      BY <1>4 DEF Screen
    <3>2. Append(screens[t].live, k) \in Seq(Ts) /\ screens[t].coming \ {k} \in SUBSET Ts
      BY <3>1
    <3> QED BY <3>1, <3>2 DEF Screen
  <2>3. screens' = [screens EXCEPT ![t] = MarkRead(s)]
    BY <2>1
  <2> HIDE DEF s, WithText
  <2>4. MarkRead(s) \in Screen
    BY <2>2, MarkedIs
  <2>5. UNCHANGED <<spoken, reports, position, kept, update, dirty, flushing, forgotten, asks, readsLeft>>
    BY <1>8 DEF TextComes, serviceVars
  <2> QED BY <1>1, <1>7, <2>3, <2>4, <2>5
<1>9. ASSUME NEW t \in ReadTabs, VisitRoom(t) PROVE ReadTypes'
  <2> DEFINE s == [Refetched(screens[t]) EXCEPT !.open = TRUE]
  <2>1. /\ screens' = [screens EXCEPT ![t] = MarkRead(s)] /\ asks' = asks \cup {[tab |-> t, for |-> ForLine]} /\ SpendRead("visit")
        /\ UNCHANGED <<spoken, reports, position, kept, update, dirty, flushing, forgotten>>
    BY <1>1, <1>9 DEF VisitRoom, serviceVars
  <2>2. Refetched(screens[t]) \in Screen
    BY <1>4, RefetchedIs
  <2>3. s \in Screen
    BY <2>2 DEF Screen
  <2> HIDE DEF s
  <2>4. MarkRead(s) \in Screen
    BY <2>3, MarkedIs
  <2>5. asks' \subseteq [tab : ReadTabs, for : 0..MaxTs]
    BY <1>1, <1>5, <2>1
  <2>6. readsLeft' \in [ReadKinds -> Nat]
    BY <1>2, <1>3, <2>1
  <2> QED BY <1>1, <1>7, <2>1, <2>4, <2>5, <2>6
<1>10. ASSUME NEW t \in ReadTabs, LeaveRoom(t) PROVE ReadTypes'
  <2> DEFINE s == [screens[t] EXCEPT !.open = FALSE, !.history = FALSE, !.early = 0, !.line = Absent, !.eye = 0, !.read = FALSE]
  <2>1. /\ screens' = [screens EXCEPT ![t] = s] /\ asks' = {q \in asks : q.tab # t} /\ SpendRead("leave")
        /\ UNCHANGED <<spoken, reports, position, kept, update, dirty, flushing, forgotten>>
    BY <1>1, <1>10 DEF LeaveRoom, serviceVars
  <2>2. s \in Screen
    BY <1>4, <1>5 DEF Screen
  <2> HIDE DEF s
  <2>3. asks' \subseteq [tab : ReadTabs, for : 0..MaxTs]
    BY <1>1, <2>1
  <2>4. readsLeft' \in [ReadKinds -> Nat]
    BY <1>2, <1>3, <2>1
  <2> QED BY <1>1, <1>7, <2>1, <2>2, <2>3, <2>4
<1>11. ASSUME NEW t \in ReadTabs, HistoryShown(t) PROVE ReadTypes'
  <2>1. PICK n \in 0..spoken : screens' = [screens EXCEPT ![t] = MarkRead([@ EXCEPT !.history = FALSE, !.early = n])]
    BY <1>11, Zenon DEF HistoryShown
  <2> DEFINE s == [screens[t] EXCEPT !.history = FALSE, !.early = n]
  <2>2. n \in 0..MaxTs
    BY <1>1
  <2>3. s \in Screen
    BY <1>4, <2>2 DEF Screen
  <2>4. screens' = [screens EXCEPT ![t] = MarkRead(s)]
    BY <1>1, <2>1
  <2> HIDE DEF s
  <2>5. MarkRead(s) \in Screen
    BY <2>3, MarkedIs
  <2>6. UNCHANGED <<spoken, reports, position, kept, update, dirty, flushing, forgotten, asks, readsLeft>>
    BY <1>11 DEF HistoryShown, serviceVars
  <2> QED BY <1>1, <1>7, <2>4, <2>5, <2>6
<1>12. ASSUME NEW t \in ReadTabs, TimerFires(t) PROVE ReadTypes'
  <2> DEFINE s == [screens[t] EXCEPT !.timer = 0]
  <2>1. /\ screens' = [screens EXCEPT ![t] = s] /\ screens[t].timer # 0
        /\ reports' = reports \cup {screens[t].timer} \/ reports' = reports
        /\ UNCHANGED <<spoken, asks, position, kept, update, dirty, flushing, forgotten, readsLeft>>
    BY <1>1, <1>12 DEF TimerFires
  <2>2. s \in Screen /\ screens[t].timer \in 0..MaxTs
    BY <1>4, <1>5 DEF Screen
  <2> HIDE DEF s
  <2>3. screens[t].timer \in Ts
    BY <2>1, <2>2 DEF Ts
  <2>4. reports' \subseteq Ts
    BY <1>1, <2>1, <2>3
  <2> QED BY <1>1, <1>7, <2>1, <2>2, <2>4
<1>13. ASSUME NEW t \in ReadTabs, ReadLinkDrops(t) PROVE ReadTypes'
  <2> DEFINE s == [screens[t] EXCEPT !.up = FALSE, !.coming = {}, !.history = FALSE]
  <2>1. /\ screens' = [screens EXCEPT ![t] = s] /\ SpendRead("drop")
        /\ UNCHANGED <<spoken, reports, position, kept, update, dirty, flushing, forgotten, asks>>
    BY <1>1, <1>13 DEF ReadLinkDrops, serviceVars
  <2>2. s \in Screen
    BY <1>4 DEF Screen
  <2> HIDE DEF s
  <2>3. readsLeft' \in [ReadKinds -> Nat]
    BY <1>2, <1>3, <2>1
  <2> QED BY <1>1, <1>7, <2>1, <2>2, <2>3
<1>14. ASSUME NEW t \in ReadTabs, ReadLinkReturns(t) PROVE ReadTypes'
  <2> DEFINE r == IF screens[t].open THEN Refetched(screens[t]) ELSE screens[t]
             s == [r EXCEPT !.up = TRUE]
  <2>1. /\ screens' = [screens EXCEPT ![t] = MarkRead(s)]
        /\ asks' = IF screens[t].open THEN asks \cup {[tab |-> t, for |-> ForLine]} ELSE asks
        /\ UNCHANGED <<spoken, reports, position, kept, update, dirty, flushing, forgotten, readsLeft>>
    BY <1>1, <1>14 DEF ReadLinkReturns, serviceVars
  <2>2. r \in Screen
    BY <1>4, RefetchedIs
  <2> HIDE DEF r
  <2>3. s \in Screen
    BY <2>2 DEF Screen
  <2> HIDE DEF s
  <2>4. MarkRead(s) \in Screen
    BY <2>3, MarkedIs
  <2>5. asks' \subseteq [tab : ReadTabs, for : 0..MaxTs]
    BY <1>1, <1>5, <2>1
  <2> QED BY <1>1, <1>7, <2>1, <2>4, <2>5
<1>15. ASSUME NEW t \in ReadTabs, OpenEye(t) PROVE ReadTypes'
  <2>1. PICK k \in Ts : /\ screens' = [screens EXCEPT ![t] = [@ EXCEPT !.eye = k, !.read = FALSE]]
                        /\ asks' = asks \cup {[tab |-> t, for |-> k]}
    BY <1>15, Zenon DEF OpenEye
  <2> DEFINE s == [screens[t] EXCEPT !.eye = k, !.read = FALSE]
  <2>2. k \in 0..MaxTs
    BY <1>1 DEF Ts
  <2>3. s \in Screen
    BY <1>4, <2>2 DEF Screen
  <2>4. screens' = [screens EXCEPT ![t] = s]
    BY <1>1, <2>1
  <2> HIDE DEF s
  <2>5. asks' \subseteq [tab : ReadTabs, for : 0..MaxTs]
    BY <1>1, <2>1, <2>2
  <2>6. SpendRead("eye") /\ UNCHANGED <<spoken, reports, position, kept, update, dirty, flushing, forgotten>>
    BY <1>15 DEF OpenEye, serviceVars
  <2>7. readsLeft' \in [ReadKinds -> Nat]
    BY <1>2, <1>3, <2>6
  <2> QED BY <1>1, <1>7, <2>3, <2>4, <2>5, <2>6, <2>7
<1>16. ASSUME NEW q \in asks, StateComes(q) PROVE ReadTypes'
  <2>1. q \in [tab : ReadTabs, for : 0..MaxTs]
    BY <1>1
  <2>2. q.tab \in ReadTabs
    BY <2>1
  <2>3. PICK pos \in IF position = Absent \/ ~screens[q.tab].up THEN {Absent} ELSE {position} :
          screens' = [screens EXCEPT ![q.tab] =
            IF q.for = ForLine THEN [@ EXCEPT !.line = IF pos = Absent THEN 0 ELSE pos]
            ELSE [@ EXCEPT !.read = pos # Absent /\ pos >= q.for]]
    BY <1>16 DEF StateComes
  <2> DEFINE s == IF q.for = ForLine THEN [screens[q.tab] EXCEPT !.line = IF pos = Absent THEN 0 ELSE pos]
                  ELSE [screens[q.tab] EXCEPT !.read = pos # Absent /\ pos >= q.for]
  <2>4. pos \in Positions
    BY <1>1, <1>5
  <2>5. s \in Screen
    <3>1. [screens[q.tab] EXCEPT !.line = IF pos = Absent THEN 0 ELSE pos] \in Screen
      BY <1>4, <1>5, <2>2, <2>4 DEF Screen
    <3> DEFINE b == pos # Absent /\ pos >= q.for
    <3>2. b \in BOOLEAN
      OBVIOUS
    <3>3. [screens[q.tab] EXCEPT !.read = b] \in Screen
      <4> HIDE DEF b
      <4> QED BY <1>4, <2>2, <3>2 DEF Screen
    <3> QED BY <3>1, <3>3
  <2>6. screens' = [screens EXCEPT ![q.tab] = s]
    BY <1>1, <2>2, <2>3
  <2> HIDE DEF s
  <2>7. asks' \subseteq asks /\ UNCHANGED <<spoken, reports, position, kept, update, dirty, flushing, forgotten, readsLeft>>
    BY <1>16 DEF StateComes, serviceVars
  <2>8. asks' \subseteq [tab : ReadTabs, for : 0..MaxTs]
    BY <1>1, <2>7
  <2> QED BY <1>1, <1>7, <2>2, <2>5, <2>6, <2>7, <2>8
<1>17. ASSUME position' \in Positions, kept' \in Positions, update' \in Update \cup {NoUpdate}, dirty' \in BOOLEAN,
              forgotten' \in BOOLEAN, flushing' \in Positions \cup {KeysDrained}, reports' \subseteq Ts,
              readsLeft' \in [ReadKinds -> Nat], UNCHANGED <<spoken, screens, asks>>
       PROVE  ReadTypes'
  BY <1>1, <1>17 DEF ReadTypes
<1>18. CASE UpdateComes \/ UpdateUnread
  <2>1. /\ reports' \subseteq reports /\ update' \in {NoUpdate, [at |-> "put", last |-> 0]}
        /\ UNCHANGED <<spoken, screens, asks, position, kept, dirty, flushing, forgotten>>
    BY <1>18 DEF UpdateComes, UpdateUnread, Decoded
  <2>2. readsLeft' \in [ReadKinds -> Nat]
    BY <1>1, <1>2, <1>3, <1>18 DEF UpdateComes, UpdateUnread
  <2>3. [at |-> "put", last |-> 0] \in Update
    BY <1>5 DEF Update
  <2> QED BY <1>1, <1>17, <2>1, <2>2, <2>3
<1>19. CASE UpdatePut \/ UpdateFails
  <2>1. /\ position' \in {position, update.last} /\ update' \in {[update EXCEPT !.at = "mark"], NoUpdate} /\ update.at = "put"
        /\ forgotten' \in {forgotten, TRUE} /\ UNCHANGED <<spoken, screens, asks, reports, kept, dirty, flushing>>
    BY <1>19 DEF UpdatePut, UpdateFails
  <2>2. update \in Update
    BY <1>1, <2>1 DEF NoUpdate
  <2>3. update.last \in Positions /\ [update EXCEPT !.at = "mark"] \in Update
    BY <2>2 DEF Update
  <2>4. readsLeft' \in [ReadKinds -> Nat]
    BY <1>1, <1>2, <1>3, <1>19 DEF UpdatePut, UpdateFails
  <2> QED BY <1>1, <1>17, <2>1, <2>3, <2>4
<1>20. CASE UpdateMarks
  <2>1. /\ dirty' = TRUE /\ update' = NoUpdate
        /\ UNCHANGED <<spoken, screens, asks, reports, position, kept, flushing, forgotten, readsLeft>>
    BY <1>20 DEF UpdateMarks
  <2> QED BY <1>1, <1>17, <2>1
<1>21. CASE FlushDrains \/ FlushWaits \/ FlushReads \/ FlushEnds \/ FlushFails
  <2>1. /\ flushing' \in {KeysDrained, Absent, position} /\ dirty' \in BOOLEAN /\ forgotten' \in {forgotten, TRUE}
        /\ kept' \in {kept} \cup ({flushing} \ {KeysDrained})
        /\ UNCHANGED <<spoken, screens, asks, reports, position, update>>
    BY <1>1, <1>21 DEF FlushDrains, FlushWaits, FlushReads, FlushEnds, FlushFails
  <2>2. readsLeft' \in [ReadKinds -> Nat]
    BY <1>1, <1>2, <1>3, <1>21 DEF FlushDrains, FlushWaits, FlushReads, FlushEnds, FlushFails
  <2>3. kept' \in Positions /\ flushing' \in Positions \cup {KeysDrained}
    BY <1>1, <1>5, <2>1
  <2> QED BY <1>1, <1>17, <2>1, <2>2, <2>3
<1>22. CASE RestartService
  <2>1. /\ flushing' = Absent /\ dirty' = FALSE /\ update' = NoUpdate /\ forgotten' \in BOOLEAN /\ SpendRead("restart")
        /\ position' \in {position, kept} /\ UNCHANGED <<spoken, screens, asks, reports, kept>>
    BY <1>22 DEF RestartService
  <2>2. readsLeft' \in [ReadKinds -> Nat] /\ position' \in Positions
    BY <1>1, <1>2, <1>3, <2>1
  <2> QED BY <1>1, <1>5, <1>17, <2>1, <2>2
<1>23. CASE UNCHANGED readVars
  BY <1>1, <1>23 DEF readVars, ReadTypes
<1> QED BY <1>6, <1>8, <1>9, <1>10, <1>11, <1>12, <1>13, <1>14, <1>15, <1>16, <1>17, <1>18, <1>19, <1>20, <1>21,
           <1>22, <1>23 DEF ReadNext

\* They hold at first.
LEMMA ReadTypesInit ==
  ASSUME ReadInit
  PROVE  ReadTypes
<1>1. Absent \in Positions /\ 0 \in Positions /\ 1 \in Positions /\ 0 \in 0..MaxTs
  BY ReadParameters DEF Positions
<1>2. [up |-> TRUE, open |-> FALSE, live |-> <<>>, coming |-> {}, history |-> FALSE, early |-> 0, timer |-> 0,
       line |-> Absent, eye |-> 0, read |-> FALSE] \in Screen
  <2>1. <<>> \in Seq(Ts)
    OBVIOUS
  <2> QED BY <1>1, <2>1 DEF Screen
<1>3. /\ spoken = 0 /\ reports = {} /\ asks = {} /\ dirty = FALSE /\ flushing = Absent /\ update = NoUpdate /\ forgotten = FALSE
      /\ readsLeft \in ReadBudgets /\ position \in {Absent, 0, 1} /\ kept \in {Absent, 0, 1}
  BY DEF ReadInit
<1>4. screens = [t \in ReadTabs |-> [up |-> TRUE, open |-> FALSE, live |-> <<>>, coming |-> {}, history |-> FALSE, early |-> 0,
                                     timer |-> 0, line |-> Absent, eye |-> 0, read |-> FALSE]]
  BY DEF ReadInit
<1>5. screens \in [ReadTabs -> Screen]
  BY <1>2, <1>4
<1>6. readsLeft \in [ReadKinds -> Nat]
  BY <1>3, CountedReads
<1> QED BY <1>1, <1>3, <1>5, <1>6 DEF ReadTypes

\* They are those of the variables.
LEMMA ReadTypesAre ==
  ASSUME ReadTypes
  PROVE  ReadTypeOK
<1>1. {position, kept} \subseteq Positions /\ {dirty, forgotten} \subseteq BOOLEAN
  BY Zenon DEF ReadTypes
<1> QED BY <1>1 DEF ReadTypes, ReadTypeOK

\* Every variable of the read positions has its type: the tabs of ReadReceiptManager.ts
\* and the service of read-receipt/main.go.
THEOREM ReadTypeCorrect == ReadSpec => []ReadTypeOK
BY ReadTypesInit, ReadTypesKept, ReadTypesAre, PTL DEF ReadSpec

-----------------------------------------------------------------------------
(***************************************************************************)
(* Translations.                                                           *)
(***************************************************************************)

\* The chunks 1 to n of the answer to request no.
ChunksTo(no, n) == [i \in 1..n |-> <<no, i>>]

\* The chunks of the answer no about k, from one behind n to m.
ChunksFrom(no, k, n, m) == {[no |-> no, key |-> k, next |-> i] : i \in (n + 1)..m}

\* A message in a tab that no other answer and no loss has touched: m chunks of the
\* answer to the last request are published, the text has the first of them, the
\* rest is on its way, and the answer, if it is not at its end, goes on behind m.
OneAnswerOf(t, k) ==
  /\ texts[t][k] = ChunksTo(latest[k], Len(texts[t][k]))
  /\ \E m \in Nat :
       /\ Len(texts[t][k]) <= m
       /\ {c \in flowing[t] : c.key = k} = ChunksFrom(latest[k], k, Len(texts[t][k]), m)
       /\ \A a \in answers : a.key = k => a.no = latest[k] /\ a.next = m + 1
  /\ \A a, b \in answers : a.key = k /\ b.key = k => a = b

TextInv ==
  /\ TranslationsTypeOK
  /\ \A t \in TranslationTabs, k \in Keys : k \notin mixed[t] \cup gapped[t] => OneAnswerOf(t, k)
  /\ \A t \in TranslationTabs : \A k \in spinning[t] : texts[t][k] = <<>>

\* What a tab shows of a message goes on to be one answer while its text, what is
\* flowing to it of the message, and the answers about the message stay.
LEMMA AnswerStays ==
  ASSUME NEW t \in TranslationTabs, NEW k \in Keys, OneAnswerOf(t, k),
         texts'[t][k] = texts[t][k], latest'[k] = latest[k],
         {c \in flowing'[t] : c.key = k} = {c \in flowing[t] : c.key = k},
         \A a \in answers' : a.key = k => a \in answers
  PROVE  OneAnswerOf(t, k)'
BY DEF OneAnswerOf

\* A message is asked for: its text is empty, and its answer begins.
LEMMA TranslateKeeps ==
  ASSUME TextInv, NEW t \in TranslationTabs, NEW k \in Keys, Translate(t, k)
  PROVE  TextInv'
<1> DEFINE no == translationsLeft["asks"]
           a == [no |-> no, key |-> k, next |-> 1]
           met == {s \in TranslationTabs : Mentions(k, answers \cup flowing[s]) \/ (s # t /\ texts[s][k] # <<>>)}
<1>1. no \in Nat \ {0} /\ translationsLeft' \in [TranslationKinds -> Nat]
  BY DEF TextInv, TranslationsTypeOK, Translate, AskedFor, SpendTranslation, TranslationKinds
<1>2. a \in Streamed /\ a.key = k /\ a.no = no /\ a.next = 1
  BY <1>1, AnswersHaveChunks DEF Streamed
<1>3. /\ answers' = answers \cup {a} /\ latest' = [latest EXCEPT ![k] = no] /\ flowing' = flowing
      /\ texts' = [texts EXCEPT ![t] = [@ EXCEPT ![k] = <<>>]]
      /\ spinning' = [spinning EXCEPT ![t] = @ \cup {k}]
      /\ mixed' = [s \in TranslationTabs |-> IF s \in met THEN mixed[s] \cup {k} ELSE mixed[s] \ {k}]
      /\ gapped' = [s \in TranslationTabs |-> IF s \in met THEN gapped[s] ELSE gapped[s] \ {k}]
      /\ UNCHANGED <<available, healthy, wired>>
  BY DEF Translate, AskedFor
<1> HIDE DEF a, no
<1>4. texts \in [TranslationTabs -> [Keys -> Seq(Nat \X (1..Chunks))]]
  BY DEF TextInv, TranslationsTypeOK
<1>5. <<>> \in Seq(Nat \X (1..Chunks))
  OBVIOUS
<1>6. texts' \in [TranslationTabs -> [Keys -> Seq(Nat \X (1..Chunks))]]
  <2> DEFINE line == [texts[t] EXCEPT ![k] = <<>>]
  <2>1. line \in [Keys -> Seq(Nat \X (1..Chunks))]
    BY <1>4, <1>5
  <2>2. texts' = [texts EXCEPT ![t] = line]
    BY <1>3
  <2> QED BY <1>4, <2>1, <2>2
<1>7. /\ \A s \in TranslationTabs, j \in Keys : s # t \/ j # k => texts'[s][j] = texts[s][j]
      /\ texts'[t][k] = <<>>
  BY <1>3, <1>4
<1>8. latest' \in [Keys -> Nat] /\ latest'[k] = no /\ \A j \in Keys : j # k => latest'[j] = latest[j]
  BY <1>1, <1>3 DEF TextInv, TranslationsTypeOK
<1>9. spinning' \in [TranslationTabs -> SUBSET Keys] /\ spinning'[t] = spinning[t] \cup {k}
      /\ \A s \in TranslationTabs : s # t => spinning'[s] = spinning[s]
  BY <1>3 DEF TextInv, TranslationsTypeOK
<1>10. mixed' \in [TranslationTabs -> SUBSET Keys] /\ gapped' \in [TranslationTabs -> SUBSET Keys]
  <2> HIDE DEF met
  <2>1. mixed \in [TranslationTabs -> SUBSET Keys] /\ gapped \in [TranslationTabs -> SUBSET Keys]
    BY DEF TextInv, TranslationsTypeOK
  <2> QED BY <1>3, <2>1
<1>11. TranslationsTypeOK'
  BY <1>1, <1>2, <1>3, <1>6, <1>8, <1>9, <1>10 DEF TextInv, TranslationsTypeOK
<1>12. ASSUME NEW s \in TranslationTabs, NEW j \in Keys, j \notin mixed'[s] \cup gapped'[s]
       PROVE  OneAnswerOf(s, j)'
  <2>1. CASE j = k
    <3>1. s \notin met
      BY <1>3, <1>12, <2>1
    <3>2. ~Mentions(k, answers \cup flowing[s]) /\ texts'[s][k] = <<>>
      BY <1>7, <3>1
    <3>3. \A b \in answers' : b.key = k => b = a
      BY <1>3, <3>2 DEF Mentions
    <3>4. Len(texts'[s][k]) = 0 /\ texts'[s][k] = ChunksTo(no, 0)
      BY <3>2 DEF ChunksTo
    <3>5. {c \in flowing'[s] : c.key = k} = ChunksFrom(no, k, 0, 0)
      BY <1>3, <3>2 DEF Mentions, ChunksFrom
    <3> QED BY <1>2, <1>8, <2>1, <3>3, <3>4, <3>5 DEF OneAnswerOf
  <2>2. CASE j # k
    <3>1. OneAnswerOf(s, j)
      <4>1. j \notin mixed[s] \cup gapped[s]
        BY <1>3, <1>12, <2>2
      <4> QED BY <4>1 DEF TextInv
    <3>2. \A b \in answers' : b.key = j => b \in answers
      BY <1>2, <1>3, <2>2
    <3> QED BY <1>3, <1>7, <1>8, <2>2, <3>1, <3>2, AnswerStays
  <2> QED BY <2>1, <2>2
<1>13. \A s \in TranslationTabs : \A j \in spinning'[s] : texts'[s][j] = <<>>
  <2> SUFFICES ASSUME NEW s \in TranslationTabs, NEW j \in spinning'[s]
               PROVE  texts'[s][j] = <<>>
    OBVIOUS
  <2>1. j \in Keys
    BY <1>9
  <2>2. CASE s = t /\ j = k
    BY <1>7, <2>2
  <2>3. CASE s # t \/ j # k
    <3>1. j \in spinning[s]
      BY <1>9, <2>3
    <3> QED BY <1>7, <2>1, <2>3, <3>1 DEF TextInv
  <2> QED BY <2>2, <2>3
<1> QED BY <1>11, <1>12, <1>13 DEF TextInv

\* A chunk comes to a tab.
LEMMA ChunkKeeps ==
  ASSUME TextInv, NEW t \in TranslationTabs, NEW c \in flowing[t], ChunkComes(t, c)
  PROVE  TextInv'
<1> DEFINE k == c.key
           chunk == <<c.no, c.next>>
           old == texts[t][k]
           n == Len(old)
<1>1. c \in Streamed /\ k \in Keys /\ c.no \in Nat /\ c.next \in 1..Chunks /\ Chunks \in Nat
  BY AnswersHaveChunks DEF TextInv, TranslationsTypeOK, Streamed
<1>2. /\ flowing' = [flowing EXCEPT ![t] = @ \ {c}]
      /\ texts' = [texts EXCEPT ![t] = [texts[t] EXCEPT ![k] = Append(old, chunk)]]
      /\ spinning' = [spinning EXCEPT ![t] = @ \ {k}]
      /\ UNCHANGED <<answers, available, healthy, wired, latest, mixed, gapped, translationsLeft>>
      /\ \A d \in flowing[t] : d.no = c.no => c.next <= d.next
  BY DEF ChunkComes
<1>3. texts \in [TranslationTabs -> [Keys -> Seq(Nat \X (1..Chunks))]] /\ chunk \in Nat \X (1..Chunks)
  BY <1>1 DEF TextInv, TranslationsTypeOK
<1>4. old \in Seq(Nat \X (1..Chunks)) /\ n \in Nat
  BY <1>1, <1>3
<1> HIDE DEF chunk, old, n
<1>5. Append(old, chunk) \in Seq(Nat \X (1..Chunks)) /\ Len(Append(old, chunk)) = n + 1
  BY <1>3, <1>4 DEF n
<1>6. texts' \in [TranslationTabs -> [Keys -> Seq(Nat \X (1..Chunks))]]
  <2> DEFINE line == [texts[t] EXCEPT ![k] = Append(old, chunk)]
  <2>1. line \in [Keys -> Seq(Nat \X (1..Chunks))]
    BY <1>3, <1>5
  <2>2. texts' = [texts EXCEPT ![t] = line]
    BY <1>2
  <2> QED BY <1>3, <2>1, <2>2
<1>7. /\ \A s \in TranslationTabs, j \in Keys : s # t \/ j # k => texts'[s][j] = texts[s][j]
      /\ texts'[t][k] = Append(old, chunk)
  BY <1>1, <1>2, <1>3
<1>8. flowing' \in [TranslationTabs -> SUBSET Streamed] /\ flowing'[t] = flowing[t] \ {c}
      /\ \A s \in TranslationTabs : s # t => flowing'[s] = flowing[s]
  BY <1>2 DEF TextInv, TranslationsTypeOK
<1>9. spinning' \in [TranslationTabs -> SUBSET Keys] /\ spinning'[t] = spinning[t] \ {k}
      /\ \A s \in TranslationTabs : s # t => spinning'[s] = spinning[s]
  BY <1>2 DEF TextInv, TranslationsTypeOK
<1>10. TranslationsTypeOK'
  BY <1>2, <1>6, <1>8, <1>9 DEF TextInv, TranslationsTypeOK
<1>11. ASSUME NEW s \in TranslationTabs, NEW j \in Keys, j \notin mixed'[s] \cup gapped'[s]
       PROVE  OneAnswerOf(s, j)'
  <2>1. OneAnswerOf(s, j)
    BY <1>2, <1>11 DEF TextInv
  <2>2. CASE s # t \/ j # k
    <3>1. {d \in flowing'[s] : d.key = j} = {d \in flowing[s] : d.key = j}
      BY <1>8, <2>2
    <3> QED BY <1>2, <1>7, <2>1, <2>2, <3>1, AnswerStays
  <2>3. CASE s = t /\ j = k
    <3>1. OneAnswerOf(t, k)
      BY <2>1, <2>3
    <3>2. PICK m \in Nat : /\ n <= m
                           /\ {d \in flowing[t] : d.key = k} = ChunksFrom(latest[k], k, n, m)
                           /\ \A a \in answers : a.key = k => a.no = latest[k] /\ a.next = m + 1
      BY <3>1 DEF OneAnswerOf, n, old
    <3>3. c \in ChunksFrom(latest[k], k, n, m)
      BY <3>2
    <3>4. PICK i \in (n + 1)..m : c = [no |-> latest[k], key |-> k, next |-> i]
      BY <3>3 DEF ChunksFrom
    <3>5. n + 1 <= m /\ n + 1 \in (n + 1)..m
      BY <1>4, <3>4
    <3> DEFINE first == [no |-> latest[k], key |-> k, next |-> n + 1]
    <3>6. first \in flowing[t] /\ first.no = c.no /\ first.next = n + 1
      BY <3>2, <3>4, <3>5 DEF ChunksFrom
    <3>7. c.next = n + 1 /\ c.no = latest[k] /\ c = first
      <4>1. c.next <= n + 1
        BY <1>2, <3>6
      <4>2. c.next = i /\ i >= n + 1
        BY <1>4, <3>4
      <4>3. i = n + 1
        BY <1>4, <4>1, <4>2
      <4> QED BY <3>4, <4>2, <4>3
    <3>8. Append(old, chunk) = ChunksTo(latest[k], n + 1)
      <4>0. old = ChunksTo(latest[k], n)
        BY <3>1 DEF OneAnswerOf, n, old
      <4>1. \A x \in 1..(n + 1) : Append(old, chunk)[x] = IF x <= n THEN old[x] ELSE chunk
        BY <1>3, <1>4 DEF n
      <4>2. \A x \in 1..(n + 1) : Append(old, chunk)[x] = <<latest[k], x>>
        <5> SUFFICES ASSUME NEW x \in 1..(n + 1)
                     PROVE  Append(old, chunk)[x] = <<latest[k], x>>
          OBVIOUS
        <5>1. CASE x <= n
          <6>1. x \in 1..n
            BY <1>4, <5>1
          <6>2. ChunksTo(latest[k], n)[x] = <<latest[k], x>>
            BY <6>1 DEF ChunksTo
          <6> QED BY <4>0, <4>1, <5>1, <6>2
        <5>2. CASE ~(x <= n)
          <6>1. x = n + 1
            BY <1>4, <5>2
          <6> QED BY <3>7, <4>1, <5>2, <6>1 DEF chunk
        <5> QED BY <5>1, <5>2
      <4>3. Append(old, chunk) = [x \in 1..(n + 1) |-> Append(old, chunk)[x]]
        <5> DEFINE new == Append(old, chunk)
        <5>1. new \in Seq(Nat \X (1..Chunks)) /\ Len(new) = n + 1
          BY <1>5
        <5> HIDE DEF new
        <5>2. new = [x \in 1..Len(new) |-> new[x]]
          BY <5>1
        <5> QED BY <5>1, <5>2 DEF new
      <4> QED BY <4>2, <4>3 DEF ChunksTo
    <3>9. {d \in flowing'[t] : d.key = k} = ChunksFrom(latest[k], k, n + 1, m)
      <4>1. {d \in flowing'[t] : d.key = k} = ChunksFrom(latest[k], k, n, m) \ {first}
        BY <1>8, <3>2, <3>7
      <4>2. (n + 1)..m = {n + 1} \cup ((n + 1) + 1)..m /\ n + 1 \notin ((n + 1) + 1)..m
        BY <1>4, <3>5
      <4>3. \A x \in ((n + 1) + 1)..m : [no |-> latest[k], key |-> k, next |-> x] # first
        BY <4>2
      <4> QED BY <4>1, <4>2, <4>3 DEF ChunksFrom
    <3> HIDE DEF first
    <3>10. texts'[t][k] = ChunksTo(latest'[k], n + 1) /\ Len(texts'[t][k]) = n + 1 /\ latest'[k] = latest[k]
      BY <1>2, <1>5, <1>7, <3>8
    <3>11. \A a, b \in answers' : a.key = k /\ b.key = k => a = b
      BY <1>2, <3>1 DEF OneAnswerOf
    <3>12. \A a \in answers' : a.key = k => a.no = latest'[k] /\ a.next = m + 1
      BY <1>2, <3>2
    <3>13. OneAnswerOf(t, k)'
      BY <3>2, <3>5, <3>9, <3>10, <3>11, <3>12 DEF OneAnswerOf
    <3> QED BY <2>3, <3>13
  <2> QED BY <2>2, <2>3
<1>12. \A s \in TranslationTabs : \A j \in spinning'[s] : texts'[s][j] = <<>>
  <2> SUFFICES ASSUME NEW s \in TranslationTabs, NEW j \in spinning'[s]
               PROVE  texts'[s][j] = <<>>
    OBVIOUS
  <2>1. j \in Keys /\ j \in spinning[s] /\ (s # t \/ j # k)
    BY <1>9
  <2> QED BY <1>7, <2>1 DEF TextInv
<1> QED BY <1>10, <1>11, <1>12 DEF TextInv

\* A chunk is published, to the tabs that are connected.
LEMMA PublishKeeps ==
  ASSUME TextInv, NEW a \in answers, ChunkPublished(a)
  PROVE  TextInv'
<1> DEFINE next == [a EXCEPT !.next = @ + 1]
           k == a.key
<1>1. a \in Streamed /\ k \in Keys /\ a.no \in Nat /\ a.next \in 1..Chunks /\ Chunks \in Nat
      /\ a = [no |-> a.no, key |-> k, next |-> a.next]
  BY AnswersHaveChunks DEF TextInv, TranslationsTypeOK, Streamed
<1>2. a.next < Chunks =>
        next \in Streamed /\ next.key = k /\ next.no = a.no /\ next.next = a.next + 1
  BY <1>1 DEF Streamed
<1>3. /\ flowing' = [t \in TranslationTabs |-> IF t \in wired THEN flowing[t] \cup {a} ELSE flowing[t]]
      /\ gapped' = [t \in TranslationTabs |-> IF t \in wired THEN gapped[t] ELSE gapped[t] \cup {k}]
      /\ answers' = (answers \ {a}) \cup IF a.next < Chunks THEN {next} ELSE {}
      /\ healthy' = (healthy \/ a.next = Chunks)
      /\ UNCHANGED <<texts, spinning, available, wired, latest, mixed, translationsLeft>>
  BY DEF ChunkPublished
<1> HIDE DEF next
<1>4. answers' \subseteq Streamed /\ healthy' \in BOOLEAN
  BY <1>2, <1>3 DEF TextInv, TranslationsTypeOK
<1>5. flowing' \in [TranslationTabs -> SUBSET Streamed] /\ gapped' \in [TranslationTabs -> SUBSET Keys]
  <2>1. flowing \in [TranslationTabs -> SUBSET Streamed] /\ gapped \in [TranslationTabs -> SUBSET Keys]
    BY DEF TextInv, TranslationsTypeOK
  <2> QED BY <1>1, <1>3, <2>1
<1>6. TranslationsTypeOK'
  BY <1>3, <1>4, <1>5 DEF TextInv, TranslationsTypeOK
<1>7. ASSUME NEW s \in TranslationTabs, NEW j \in Keys, j \notin mixed'[s] \cup gapped'[s]
      PROVE  OneAnswerOf(s, j)'
  <2>1. OneAnswerOf(s, j)
    <3>1. j \notin mixed[s] \cup gapped[s]
      BY <1>3, <1>7
    <3> QED BY <3>1 DEF TextInv
  <2>2. CASE j # k
    <3>1. {d \in flowing'[s] : d.key = j} = {d \in flowing[s] : d.key = j}
      BY <1>3, <2>2
    <3>2. \A b \in answers' : b.key = j => b \in answers
      BY <1>2, <1>3, <2>2
    <3> QED BY <1>3, <2>1, <2>2, <3>1, <3>2, AnswerStays
  <2>3. CASE j = k
    <3> DEFINE n == Len(texts[s][k])
    <3>1. s \in wired /\ flowing'[s] = flowing[s] \cup {a} /\ OneAnswerOf(s, k)
      BY <1>3, <1>7, <2>1, <2>3
    <3>2. PICK m \in Nat : /\ n <= m
                           /\ {d \in flowing[s] : d.key = k} = ChunksFrom(latest[k], k, n, m)
                           /\ \A b \in answers : b.key = k => b.no = latest[k] /\ b.next = m + 1
      BY <3>1 DEF OneAnswerOf
    <3>3. a = [no |-> latest[k], key |-> k, next |-> m + 1]
      BY <1>1, <3>2
    <3>4. n \in Nat
      BY <1>1 DEF TextInv, TranslationsTypeOK
    <3>5. ChunksFrom(latest[k], k, n, m + 1) = ChunksFrom(latest[k], k, n, m) \cup {a}
      <4>1. (n + 1)..(m + 1) = (n + 1)..m \cup {m + 1}
        BY <3>2, <3>4
      <4> QED BY <3>3, <4>1 DEF ChunksFrom
    <3>6. {d \in flowing'[s] : d.key = k} = ChunksFrom(latest[k], k, n, m + 1)
      BY <3>1, <3>2, <3>5
    <3>7. \A b \in answers' : b.key = k => b = next /\ a.next < Chunks
      BY <1>3, <3>1 DEF OneAnswerOf
    <3>8. \A b \in answers' : b.key = k => b.no = latest[k] /\ b.next = (m + 1) + 1
      BY <1>2, <3>3, <3>7
    <3> HIDE DEF n, k
    <3>9. /\ texts'[s][k] = ChunksTo(latest'[k], n) /\ Len(texts'[s][k]) = n /\ latest'[k] = latest[k]
      BY <1>3, <3>1 DEF OneAnswerOf, n
    <3>10. n <= m + 1 /\ m + 1 \in Nat
      BY <3>2, <3>4
    <3>11. OneAnswerOf(s, k)'
      BY <3>6, <3>7, <3>8, <3>9, <3>10 DEF OneAnswerOf
    <3> QED BY <2>3, <3>11
  <2> QED BY <2>2, <2>3
<1> QED BY <1>3, <1>6, <1>7 DEF TextInv

\* A tab loses what is on its way to it.
LEMMA LossKeeps ==
  ASSUME TextInv, NEW t \in TranslationTabs, NEW begun,
         flowing' = [flowing EXCEPT ![t] = {}], flowing[t] \subseteq begun,
         gapped' = [gapped EXCEPT ![t] = @ \cup {k \in Keys : Mentions(k, begun)}],
         \/ texts' = texts
         \/ /\ texts' = [texts EXCEPT ![t] = [k \in Keys |-> <<>>]]
            /\ \A a \in answers : a.next > 1 => a \in begun,
         available' \cup wired' \subseteq TranslationTabs,
         translationsLeft' \in [TranslationKinds -> Nat],
         UNCHANGED <<answers, spinning, healthy, latest, mixed>>
  PROVE  TextInv'
<1>1. /\ texts \in [TranslationTabs -> [Keys -> Seq(Nat \X (1..Chunks))]]
      /\ flowing \in [TranslationTabs -> SUBSET Streamed] /\ gapped \in [TranslationTabs -> SUBSET Keys]
      /\ answers \subseteq Streamed
  BY DEF TextInv, TranslationsTypeOK
<1>2. <<>> \in Seq(Nat \X (1..Chunks))
  OBVIOUS
<1>3. [k \in Keys |-> <<>>] \in [Keys -> Seq(Nat \X (1..Chunks))]
  BY <1>2
<1>4. texts' \in [TranslationTabs -> [Keys -> Seq(Nat \X (1..Chunks))]]
  BY <1>1, <1>3
<1>5. flowing' \in [TranslationTabs -> SUBSET Streamed] /\ gapped' \in [TranslationTabs -> SUBSET Keys]
  BY <1>1
<1>6. TranslationsTypeOK'
  BY <1>4, <1>5 DEF TextInv, TranslationsTypeOK
<1>7. \A s \in TranslationTabs : s # t => texts'[s] = texts[s] /\ flowing'[s] = flowing[s] /\ gapped'[s] = gapped[s]
  BY <1>1
<1>8. ASSUME NEW s \in TranslationTabs, NEW j \in Keys, j \notin mixed'[s] \cup gapped'[s]
      PROVE  OneAnswerOf(s, j)'
  <2>1. OneAnswerOf(s, j)
    <3>1. j \notin mixed[s] \cup gapped[s]
      BY <1>1, <1>8
    <3> QED BY <3>1 DEF TextInv
  <2>2. CASE s # t
    BY <1>7, <2>1, <2>2, AnswerStays
  <2>3. CASE s = t
    <3>1. ~Mentions(j, begun)
      BY <1>1, <1>8, <2>3
    <3>2. {d \in flowing[t] : d.key = j} = {} /\ {d \in flowing'[t] : d.key = j} = {}
      BY <1>1, <3>1 DEF Mentions
    <3>3. CASE texts' = texts
      BY <2>1, <2>3, <3>2, <3>3, AnswerStays
    <3>4. CASE /\ texts' = [texts EXCEPT ![t] = [k \in Keys |-> <<>>]]
               /\ \A a \in answers : a.next > 1 => a \in begun
      <4>1. texts'[t][j] = <<>> /\ Len(texts'[t][j]) = 0
        BY <1>1, <3>4
      <4>2. texts'[t][j] = ChunksTo(latest'[j], 0)
        BY <4>1 DEF ChunksTo
      <4>3. \A a \in answers : a.key = j => a.no = latest[j] /\ a.next = 1
        <5> SUFFICES ASSUME NEW a \in answers, a.key = j
                     PROVE  a.no = latest[j] /\ a.next = 1
          OBVIOUS
        <5>1. a.no = latest[j]
          BY <2>1 DEF OneAnswerOf
        <5>2. ~(a.next > 1) /\ a.next \in 1..Chunks
          BY <1>1, <3>1, <3>4 DEF Mentions, Streamed
        <5> QED BY <5>1, <5>2, AnswersHaveChunks
      <4>4. {d \in flowing'[t] : d.key = j} = ChunksFrom(latest'[j], j, 0, 0)
        BY <3>2 DEF ChunksFrom
      <4>5. \A a, b \in answers : a.key = j /\ b.key = j => a = b
        BY <2>1 DEF OneAnswerOf
      <4> QED BY <2>3, <4>1, <4>2, <4>3, <4>4, <4>5 DEF OneAnswerOf
    <3> QED BY <3>3, <3>4
  <2> QED BY <2>2, <2>3
<1>9. \A s \in TranslationTabs : \A j \in spinning'[s] : texts'[s][j] = <<>>
  <2> SUFFICES ASSUME NEW s \in TranslationTabs, NEW j \in spinning[s]
               PROVE  texts'[s][j] = <<>>
    OBVIOUS
  <2>1. j \in Keys /\ texts[s][j] = <<>>
    BY DEF TextInv, TranslationsTypeOK
  <2> QED BY <1>1, <1>7, <2>1
<1> QED BY <1>6, <1>8, <1>9 DEF TextInv

\* TextInv holds at every step of the translations.
LEMMA TextStays == TranslationsSpec => []TextInv
<1>1. TranslationsInit => TextInv
  <2> SUFFICES ASSUME TranslationsInit
               PROVE  TextInv
    OBVIOUS
  <2>1. <<>> \in Seq(Nat \X (1..Chunks))
    OBVIOUS
  <2>2. /\ texts = [t \in TranslationTabs |-> [k \in Keys |-> <<>>]] /\ answers = {}
        /\ flowing = [t \in TranslationTabs |-> {}] /\ spinning = [t \in TranslationTabs |-> {}]
    BY DEF TranslationsInit
  <2>3. [k \in Keys |-> <<>>] \in [Keys -> Seq(Nat \X (1..Chunks))]
    BY <2>1
  <2>4. TranslationsTypeOK
    BY <2>2, <2>3, CountedTranslations DEF TranslationsInit, TranslationsTypeOK
  <2>5. ASSUME NEW t \in TranslationTabs, NEW k \in Keys
        PROVE  OneAnswerOf(t, k)
    <3>1. texts[t][k] = <<>> /\ Len(texts[t][k]) = 0 /\ texts[t][k] = ChunksTo(latest[k], 0)
      BY <2>2 DEF ChunksTo
    <3>2. {c \in flowing[t] : c.key = k} = ChunksFrom(latest[k], k, 0, 0)
      BY <2>2 DEF ChunksFrom
    <3> QED BY <2>2, <3>1, <3>2 DEF OneAnswerOf
  <2> QED BY <2>2, <2>4, <2>5 DEF TextInv
<1>2. TextInv /\ [TranslationsNext]_translationVars => TextInv'
  <2> SUFFICES ASSUME TextInv, [TranslationsNext]_translationVars
               PROVE  TextInv'
    OBVIOUS
  <2>1. ASSUME answers' \subseteq answers, spinning' \in [TranslationTabs -> SUBSET Keys],
               \A t \in TranslationTabs : spinning'[t] \subseteq spinning[t],
               UNCHANGED <<flowing, texts, latest, mixed, gapped>>,
               available' \cup wired' \subseteq TranslationTabs, healthy' \in BOOLEAN,
               translationsLeft' \in [TranslationKinds -> Nat]
        PROVE  TextInv'
    <3>1. TranslationsTypeOK'
      BY <2>1 DEF TextInv, TranslationsTypeOK
    <3>2. ASSUME NEW t \in TranslationTabs, NEW k \in Keys, k \notin mixed'[t] \cup gapped'[t]
          PROVE  OneAnswerOf(t, k)'
      <4>1. OneAnswerOf(t, k)
        BY <2>1, <3>2 DEF TextInv
      <4> QED BY <2>1, <4>1, AnswerStays
    <3> QED BY <2>1, <3>1, <3>2 DEF TextInv
  <2>2. ASSUME NEW kind \in TranslationKinds, SpendTranslation(kind)
        PROVE  translationsLeft' \in [TranslationKinds -> Nat]
    BY <2>2 DEF TextInv, TranslationsTypeOK, SpendTranslation
  <2>3. /\ translationsLeft \in [TranslationKinds -> Nat] /\ available \cup wired \subseteq TranslationTabs
        /\ healthy \in BOOLEAN /\ spinning \in [TranslationTabs -> SUBSET Keys]
    BY DEF TextInv, TranslationsTypeOK
  <2>4. ASSUME NEW a \in answers, AnswerFails(a)
        PROVE  TextInv'
    BY <2>1, <2>2, <2>3, <2>4 DEF AnswerFails, TranslationKinds
  <2>5. ASSUME NEW ok \in BOOLEAN, ProbeModel(ok)
        PROVE  TextInv'
    BY <2>1, <2>2, <2>3, <2>5 DEF ProbeModel, TranslationKinds
  <2>6. ASSUME NEW t \in TranslationTabs, GiveUpWaiting(t) \/ OtherRoom(t)
        PROVE  TextInv'
    <3>1. spinning' = [spinning EXCEPT ![t] = {}] /\ available' \subseteq available
          /\ UNCHANGED <<answers, flowing, texts, healthy, wired, latest, mixed, gapped>>
      BY <2>6 DEF GiveUpWaiting, OtherRoom
    <3>2. translationsLeft' \in [TranslationKinds -> Nat]
      BY <2>2, <2>6 DEF GiveUpWaiting, OtherRoom, TranslationKinds
    <3> QED BY <2>1, <2>3, <3>1, <3>2
  <2>7. ASSUME NEW t \in TranslationTabs, CheckAvailability(t) \/ WireMended(t)
        PROVE  TextInv'
    BY <2>1, <2>3, <2>7 DEF CheckAvailability, WireMended
  <2>8. ASSUME NEW t \in TranslationTabs, WireCut(t)
        PROVE  TextInv'
    <3>1. translationsLeft' \in [TranslationKinds -> Nat]
      BY <2>2, <2>8 DEF WireCut, TranslationKinds
    <3> QED BY <2>3, <2>8, <3>1, LossKeeps DEF WireCut
  <2>9. ASSUME NEW t \in TranslationTabs, TokenRefreshed(t)
        PROVE  TextInv'
    <3> DEFINE begun == {a \in answers : a.next > 1} \cup flowing[t]
    <3>1. translationsLeft' \in [TranslationKinds -> Nat]
      BY <2>2, <2>9 DEF TokenRefreshed, TranslationKinds
    <3>2. /\ flowing' = [flowing EXCEPT ![t] = {}] /\ texts' = [texts EXCEPT ![t] = [k \in Keys |-> <<>>]]
          /\ available' = available \ {t} /\ wired' = wired \ {t}
          /\ gapped' = [gapped EXCEPT ![t] = @ \cup {k \in Keys : Mentions(k, begun)}]
          /\ UNCHANGED <<answers, spinning, healthy, latest, mixed>>
      BY <2>9 DEF TokenRefreshed
    <3>3. flowing[t] \subseteq begun /\ \A a \in answers : a.next > 1 => a \in begun
      OBVIOUS
    <3> HIDE DEF begun
    <3> QED BY <2>3, <3>1, <3>2, <3>3, LossKeeps
  <2>10. CASE UNCHANGED translationVars
    BY <2>1, <2>3, <2>10 DEF translationVars
  <2> QED BY <2>4, <2>5, <2>6, <2>7, <2>8, <2>9, <2>10, TranslateKeeps, ChunkKeeps, PublishKeeps DEF TranslationsNext
<1> QED BY <1>1, <1>2, PTL DEF TranslationsSpec

\* The text a tab shows below a message is the beginning of the answer to the last
\* request for it, for any tabs, messages, chunks, failures, lost connections and
\* new tokens, but for a tab that had a text or an answer of its own when the
\* message was asked for, or that lost a chunk.
THEOREM TextsHold == TranslationsSpec => []TextOfOneAnswer
<1>1. TextInv => TextOfOneAnswer
  BY DEF TextInv, TextOfOneAnswer, OneAnswerOf, ChunksTo
<1> QED BY <1>1, TextStays, PTL

\* Every variable of the translations (TranslationService.ts, useTranslation.ts) has
\* its type.
THEOREM TranslationsTypeCorrect == TranslationsSpec => []TranslationsTypeOK
<1>1. TextInv => TranslationsTypeOK
  BY DEF TextInv
<1> QED BY <1>1, TextStays, PTL
-----------------------------------------------------------------------------
(***************************************************************************)
(* Whiteboard.                                                             *)
(***************************************************************************)

\* An element of version 0 is none.
Sound == {x \in Element : x.ver = 0 => x = NoElement}
Els == [Elements -> Sound]

BTypes ==
  /\ board \in Els /\ exists \in BOOLEAN
  /\ deltas \subseteq [from : Editors, els : Els, read : BOOLEAN, stored : Els]
  /\ syncs \in [Editors -> SUBSET Els]
  /\ view \in [Editors -> {"list", "asking", "opening", "open"}]
  /\ loaded \in [Editors -> Els] /\ scene \in [Editors -> Els]
  /\ known \in [Editors -> [Elements -> Nat]] /\ muted \in [Editors -> BOOLEAN]
  /\ pending \in [Editors -> Els] /\ blemished \subseteq Elements
  /\ boardLeft \in [BoardKinds -> Nat]
  /\ \A u \in Editors : view[u] # "open" => scene[u] = Nothing /\ pending[u] = Nothing /\ ~muted[u]

\* Elements of version 0, and those of the merges, are sound.
LEMMA ElsAre ==
  /\ NoElement \in Sound /\ Nothing \in Els
  /\ \A x \in Sound : x.ver \in Nat /\ x \in Element
  /\ \A a, b \in Els : Merged(a, b) \in Els
  /\ \A a \in Els : Live(a) \in Els
BY DEF NoElement, Sound, Element, Nothing, Els, Merged, Live

\* Spending from a budget leaves one.
LEMMA SpendTypes ==
  ASSUME boardLeft \in [BoardKinds -> Nat], NEW kind \in BoardKinds, SpendOn(kind)
  PROVE  boardLeft' \in [BoardKinds -> Nat]
<1>1. boardLeft[kind] \in Nat \ {0} /\ boardLeft' = [boardLeft EXCEPT ![kind] = boardLeft[kind] - 1]
  BY DEF SpendOn
<1> QED BY <1>1

\* What a view notices keeps its type.
LEMMA HandleTypes ==
  ASSUME BTypes, NEW u \in Editors, NEW els \in Els, HandleChange(u, els)
  PROVE  known' \in [Editors -> [Elements -> Nat]] /\ pending' \in [Editors -> Els]
         /\ \A v \in Editors : v # u => known'[v] = known[v] /\ pending'[v] = pending[v]
<1>1. CASE muted[u]
  BY <1>1 DEF HandleChange, BTypes
<1>2. CASE ~muted[u]
  <2> DEFINE changed == Unreported(u, els)
             k == [e \in Elements |-> IF e \in changed THEN els[e].ver ELSE known[u][e]]
             p == [e \in Elements |-> IF e \in changed THEN els[e] ELSE pending[u][e]]
  <2>1. known' = [known EXCEPT ![u] = k] /\ pending' = [pending EXCEPT ![u] = p]
    BY <1>2 DEF HandleChange
  <2>2. k \in [Elements -> Nat] /\ p \in Els
    BY ElsAre DEF BTypes, Els
  <2> HIDE DEF k, p
  <2> QED BY <2>1, <2>2 DEF BTypes
<1> QED BY <1>1, <1>2

\* The changes that may be broadcast.
LEMMA ChangedTypes ==
  ASSUME BTypes, NEW d \in deltas
  PROVE  Changed(d) \in Els /\ d.els \in Els /\ d.stored \in Els /\ d.from \in Editors
         /\ Merged(d.stored, d.els) \in Els
<1>1. d.els \in Els /\ d.stored \in Els /\ d.from \in Editors
  BY DEF BTypes
<1>2. Changed(d) \in Els
  BY <1>1, ElsAre DEF Changed, Els
<1> QED BY <1>1, <1>2, ElsAre

\* The types are kept.
LEMMA BTypesStay ==
  ASSUME BTypes, BoardNext
  PROVE  BTypes'
<1> USE DEF BTypes
<1>0. \A kind \in {"edits", "opens", "closes", "deletions", "faults"} :
        SpendOn(kind) => boardLeft' \in [BoardKinds -> Nat]
  BY SpendTypes DEF BoardKinds
<1>1. ASSUME NEW u \in Editors, OpenBoard(u) \/ Load(u) \/ Unmute(u) \/ DeleteBoard(u)
      PROVE  BTypes'
  <2>1. CASE OpenBoard(u)
    BY <1>0, <2>1 DEF OpenBoard
  <2>2. CASE Load(u)
    BY <2>2, ElsAre DEF Load
  <2>3. CASE Unmute(u)
    BY <2>3 DEF Unmute
  <2>4. CASE DeleteBoard(u)
    BY <1>0, <2>4, ElsAre DEF DeleteBoard
  <2> QED BY <1>1, <2>1, <2>2, <2>3, <2>4
<1>2. ASSUME NEW u \in Editors, Show(u)
      PROVE  BTypes'
  <2>1. [e \in Elements |-> loaded[u][e].ver] \in [Elements -> Nat] /\ loaded[u] \in Els /\ Nothing \in Els
    BY ElsAre DEF Els
  <2> QED BY <1>2, <2>1 DEF Show
<1>3. ASSUME NEW u \in Editors, OnChange(u)
      PROVE  BTypes'
  <2>1. known' \in [Editors -> [Elements -> Nat]] /\ pending' \in [Editors -> Els]
        /\ \A v \in Editors : v # u => pending'[v] = pending[v]
    BY <1>3, HandleTypes DEF OnChange
  <2> QED BY <1>3, <2>1 DEF OnChange
<1>4. ASSUME NEW u \in Editors, Send(u)
      PROVE  /\ deltas' \subseteq [from : Editors, els : Els, read : BOOLEAN, stored : Els]
             /\ pending' = [pending EXCEPT ![u] = Nothing]
  <2>1. CASE pending[u] = Nothing
    BY <1>4, <2>1 DEF Send
  <2>2. CASE pending[u] # Nothing
    <3> DEFINE d == [from |-> u, els |-> pending[u], read |-> FALSE, stored |-> Nothing]
    <3>1. pending[u] \in Els /\ Nothing \in Els
      BY ElsAre
    <3>2. d \in [from : Editors, els : Els, read : BOOLEAN, stored : Els]
      BY <3>1
    <3>3. deltas' = deltas \cup {d} /\ pending' = [pending EXCEPT ![u] = Nothing]
      BY <1>4, <2>2 DEF Send
    <3> HIDE DEF d
    <3> QED BY <3>2, <3>3
  <2> QED BY <2>1, <2>2
<1>5. ASSUME NEW u \in Editors, Flush(u)
      PROVE  BTypes'
  BY <1>4, <1>5, ElsAre DEF Flush
<1>6. ASSUME NEW u \in Editors, CloseBoard(u)
      PROVE  BTypes'
  <2>1. [e \in Elements |-> 0] \in [Elements -> Nat] /\ Nothing \in Els
    BY ElsAre
  <2> QED BY <1>0, <1>4, <1>6, <2>1 DEF CloseBoard
<1>7. ASSUME NEW u \in Editors, NEW e \in Elements, NEW gone \in BOOLEAN, Edit(u, e, gone)
      PROVE  BTypes'
  <2> DEFINE new == [ver |-> scene[u][e].ver + 1, by |-> u, gone |-> gone]
             after == [scene[u] EXCEPT ![e] = new]
  <2>1. new \in Sound
    BY ElsAre DEF Sound, Element, Els
  <2>2. after \in Els
    BY <2>1 DEF Els
  <2>3. scene' = [scene EXCEPT ![u] = after] /\ HandleChange(u, after) /\ view[u] = "open" /\ SpendOn("edits")
        /\ UNCHANGED <<board, exists, deltas, syncs, view, loaded, muted, blemished>>
    BY <1>7 DEF Edit
  <2> HIDE DEF after
  <2>4. known' \in [Editors -> [Elements -> Nat]] /\ pending' \in [Editors -> Els]
        /\ \A v \in Editors : v # u => pending'[v] = pending[v]
    BY <2>2, <2>3, HandleTypes
  <2> QED BY <1>0, <2>2, <2>3, <2>4
<1>8. ASSUME NEW u \in Editors, NEW els \in syncs[u], Sync(u, els) \/ SyncLost(u, els)
      PROVE  BTypes'
  <2>1. els \in Els /\ syncs' \in [Editors -> SUBSET Els]
    BY <1>8 DEF Sync, SyncLost
  <2>2. In(els) \subseteq Elements
    BY DEF In
  <2>3. CASE SyncLost(u, els)
    BY <1>0, <2>1, <2>2, <2>3 DEF SyncLost
  <2>4. CASE Sync(u, els) /\ view[u] = "open"
    <3> DEFINE s == Merged(Live(scene[u]), els)
               k == [e \in Elements |-> IF els[e].ver > known[u][e] THEN els[e].ver ELSE known[u][e]]
    <3>0. scene[u] \in Els /\ known[u] \in [Elements -> Nat]
      OBVIOUS
    <3>1. s \in Els
      BY <2>1, <3>0, ElsAre
    <3>5. k \in [Elements -> Nat]
      BY <2>1, <3>0, ElsAre DEF Els
    <3>2. /\ scene' = [scene EXCEPT ![u] = s] /\ known' = [known EXCEPT ![u] = k]
          /\ muted' = [muted EXCEPT ![u] = TRUE]
          /\ blemished' = blemished \cup Tied(scene[u], els) \cup Revived(u, els) \cup Unsaid(u)
          /\ UNCHANGED <<board, exists, deltas, view, loaded, pending, boardLeft>>
      BY <2>4 DEF Sync
    <3> HIDE DEF s, k
    <3>3. blemished' \subseteq Elements
      BY <3>2 DEF Tied, Revived, Unsaid, Unreported, In
    <3> QED BY <2>1, <2>4, <3>1, <3>2, <3>3, <3>5
  <2>5. CASE Sync(u, els) /\ view[u] # "open"
    BY <2>1, <2>2, <2>5 DEF Sync, Missed
  <2> QED BY <1>8, <2>3, <2>4, <2>5
<1>9. ASSUME NEW d \in deltas, DeltaRead(d) \/ DeltaWrite(d) \/ DeltaFails(d)
      PROVE  BTypes'
  <2>1. /\ d \in [from : Editors, els : Els, read : BOOLEAN, stored : Els] /\ Changed(d) \in Els
        /\ Merged(d.stored, d.els) \in Els
    BY ChangedTypes
  <2>2. CASE DeltaRead(d)
    <3> DEFINE c == [[d EXCEPT !.read = TRUE] EXCEPT !.stored = board]
    <3>1. c \in [from : Editors, els : Els, read : BOOLEAN, stored : Els]
      BY <2>1
    <3>2. c = [d EXCEPT !.read = TRUE, !.stored = board]
      OBVIOUS
    <3> HIDE DEF c
    <3>3. deltas' \subseteq deltas \cup {c}
      BY <2>2, <3>2 DEF DeltaRead
    <3>4. blemished' \subseteq Elements
      BY <2>2 DEF DeltaRead, Tied, In
    <3>5. UNCHANGED <<board, exists, syncs, view, loaded, scene, known, muted, pending, boardLeft>>
      BY <2>2 DEF DeltaRead
    <3> QED BY <3>1, <3>3, <3>4, <3>5
  <2>3. CASE DeltaWrite(d)
    <3>1. blemished' \subseteq Elements
      BY <2>3 DEF DeltaWrite, Missed, In
    <3> QED BY <2>1, <2>3, <3>1 DEF DeltaWrite
  <2>4. CASE DeltaFails(d)
    BY <1>0, <2>4 DEF DeltaFails, In
  <2> QED BY <1>9, <2>2, <2>3, <2>4
<1> QED BY <1>1, <1>2, <1>3, <1>5, <1>6, <1>7, <1>8, <1>9 DEF BoardNext, Editing

\* At the start nothing is drawn.
LEMMA BTypesStart ==
  ASSUME BoardInit
  PROVE  BTypes
<1>1. [e \in Elements |-> 0] \in [Elements -> Nat]
  OBVIOUS
<1> QED BY <1>1, ElsAre, CountedBoards DEF BoardInit, BTypes

\* The types hold at every step of the board.
LEMMA BoardTypes == BoardSpec => []BTypes
<1>1. BTypes /\ UNCHANGED boardVars => BTypes'
  BY DEF BTypes, boardVars
<1> QED BY BTypesStart, BTypesStay, <1>1, PTL DEF BoardSpec

\* BoardTypeOK for any editors: what the views and the service keep of a board
\* has its type, and a view that is not open has drawn nothing.
THEOREM BoardTypeCorrect == BoardSpec => []BoardTypeOK
<1>1. Els \subseteq [Elements -> Element]
  BY DEF Els, Sound
<1>2. BTypes => BoardTypeOK
  <2> SUFFICES ASSUME BTypes
               PROVE  BoardTypeOK
    OBVIOUS
  <2>1. deltas \subseteq Delta
    BY <1>1 DEF BTypes, Delta
  <2> QED BY <1>1, <2>1 DEF BTypes, BoardTypeOK
<1> QED BY <1>2, BoardTypes, PTL

-----------------------------------------------------------------------------
(* What the actions do to one element.                                      *)

\* What a view notices of one element, and what it leaves.
LEMMA Handles ==
  ASSUME BTypes, NEW u \in Editors, NEW els \in Els, HandleChange(u, els), NEW e \in Elements
  PROVE  \/ /\ ~muted[u] /\ els[e].ver > known[u][e]
            /\ known'[u][e] = els[e].ver /\ pending'[u][e] = els[e]
         \/ /\ muted[u] \/ ~(els[e].ver > known[u][e])
            /\ known'[u][e] = known[u][e] /\ pending'[u][e] = pending[u][e]
<1>1. CASE muted[u]
  BY <1>1 DEF HandleChange
<1>2. CASE ~muted[u]
  <2> DEFINE changed == Unreported(u, els)
             k == [f \in Elements |-> IF f \in changed THEN els[f].ver ELSE known[u][f]]
             p == [f \in Elements |-> IF f \in changed THEN els[f] ELSE pending[u][f]]
  <2>1. known' = [known EXCEPT ![u] = k] /\ pending' = [pending EXCEPT ![u] = p]
    BY <1>2 DEF HandleChange
  <2>2. e \in changed <=> els[e].ver > known[u][e]
    BY DEF Unreported
  <2>3. /\ k[e] = IF e \in changed THEN els[e].ver ELSE known[u][e]
        /\ p[e] = IF e \in changed THEN els[e] ELSE pending[u][e]
    OBVIOUS
  <2> HIDE DEF k, p, changed
  <2>4. known'[u] = k /\ pending'[u] = p
    BY <2>1 DEF BTypes
  <2> QED BY <1>2, <2>2, <2>3, <2>4
<1> QED BY <1>1, <1>2

\* A broadcast that comes to an open view, element by element.
LEMMA Syncs ==
  ASSUME BTypes, NEW u \in Editors, NEW els \in syncs[u], Sync(u, els), view[u] = "open", NEW e \in Elements
  PROVE  LET live == IF scene[u][e].gone THEN NoElement ELSE scene[u][e] IN
         /\ scene'[u][e] = IF els[e].ver > live.ver THEN els[e] ELSE live
         /\ known'[u][e] = IF els[e].ver > known[u][e] THEN els[e].ver ELSE known[u][e]
<1> DEFINE s == Merged(Live(scene[u]), els)
           k == [f \in Elements |-> IF els[f].ver > known[u][f] THEN els[f].ver ELSE known[u][f]]
           live == IF scene[u][e].gone THEN NoElement ELSE scene[u][e]
<1>1. scene' = [scene EXCEPT ![u] = s] /\ known' = [known EXCEPT ![u] = k]
  BY DEF Sync
<1>2. Live(scene[u])[e] = live
  BY DEF Live
<1>3. s[e] = IF els[e].ver > live.ver THEN els[e] ELSE live
  BY <1>2 DEF Merged
<1>4. k[e] = IF els[e].ver > known[u][e] THEN els[e].ver ELSE known[u][e]
  OBVIOUS
<1> HIDE DEF s, k
<1>5. scene'[u] = s /\ known'[u] = k
  BY <1>1 DEF BTypes
<1> QED BY <1>3, <1>4, <1>5

\* What is pending becomes a delta, or there is nothing pending.
LEMMA BoardSends ==
  ASSUME BTypes, NEW u \in Editors, Send(u)
  PROVE  /\ deltas \subseteq deltas'
         /\ \A d \in deltas' : d \in deltas \/ (~d.read /\ d.from = u /\ d.els = pending[u])
         /\ pending'[u] = Nothing /\ \A v \in Editors : v # u => pending'[v] = pending[v]
         /\ pending[u] = Nothing \/ \E d \in deltas' : d.from = u /\ d.els = pending[u]
<1>1. CASE pending[u] = Nothing
  BY <1>1 DEF Send, BTypes
<1>2. CASE pending[u] # Nothing
  <2> DEFINE d == [from |-> u, els |-> pending[u], read |-> FALSE, stored |-> Nothing]
  <2>1. deltas' = deltas \cup {d} /\ pending' = [pending EXCEPT ![u] = Nothing]
    BY <1>2 DEF Send
  <2>2. d.from = u /\ d.els = pending[u] /\ ~d.read
    OBVIOUS
  <2> HIDE DEF d
  <2> QED BY <2>1, <2>2 DEF BTypes
<1> QED BY <1>1, <1>2

\* An edit of one element, in the editor's view.
LEMMA Edits ==
  ASSUME BTypes, NEW u \in Editors, NEW f \in Elements, NEW gone \in BOOLEAN, Edit(u, f, gone)
  PROVE  LET new == [ver |-> scene[u][f].ver + 1, by |-> u, gone |-> gone]
             after == [scene[u] EXCEPT ![f] = new]
         IN  /\ after \in Els /\ HandleChange(u, after) /\ view[u] = "open" /\ new \in Sound
             /\ \A e \in Elements : scene'[u][e] = IF e = f THEN new ELSE scene[u][e]
             /\ \A e \in Elements : after[e] = IF e = f THEN new ELSE scene[u][e]
             /\ \A v \in Editors : v # u => scene'[v] = scene[v]
             /\ UNCHANGED <<board, exists, deltas, syncs, view, loaded, muted, blemished>>
<1> DEFINE new == [ver |-> scene[u][f].ver + 1, by |-> u, gone |-> gone]
           after == [scene[u] EXCEPT ![f] = new]
<1>1. new \in Sound
  BY ElsAre DEF BTypes, Sound, Element, Els
<1>2. after \in Els /\ \A e \in Elements : after[e] = IF e = f THEN new ELSE scene[u][e]
  BY <1>1 DEF BTypes, Els
<1>3. scene' = [scene EXCEPT ![u] = after] /\ HandleChange(u, after) /\ view[u] = "open"
      /\ UNCHANGED <<board, exists, deltas, syncs, view, loaded, muted, blemished>>
  BY DEF Edit
<1> HIDE DEF new, after
<1>4. scene'[u] = after /\ \A v \in Editors : v # u => scene'[v] = scene[v]
  BY <1>3 DEF BTypes
<1> QED BY <1>1, <1>2, <1>3, <1>4 DEF new, after
-----------------------------------------------------------------------------
(* Versions, and whose changes are sent.                                    *)

\* A view's elements only change with an edit, a broadcast, or a view that
\* comes or goes.
LEMMA SceneSteps ==
  ASSUME BTypes, BoardNext, NEW u \in Editors, view[u] = "open", view'[u] = "open", NEW e \in Elements
  PROVE  scene'[u][e].ver >= scene[u][e].ver \/ scene[u][e].gone
<1>0. scene[u][e] \in Sound /\ scene[u][e].ver \in Nat
  BY ElsAre DEF BTypes, Els
<1>1. CASE UNCHANGED scene
  BY <1>0, <1>1
<1>2. ASSUME NEW v \in Editors, Show(v) \/ CloseBoard(v)
      PROVE  scene'[u][e] = scene[u][e]
  BY <1>2 DEF BTypes, Show, CloseBoard
<1>3. ASSUME NEW v \in Editors, NEW f \in Elements, NEW gone \in BOOLEAN, Edit(v, f, gone)
      PROVE  scene'[u][e].ver >= scene[u][e].ver
  <2> DEFINE new == [ver |-> scene[v][f].ver + 1, by |-> v, gone |-> gone]
             after == [scene[v] EXCEPT ![f] = new]
  <2>1. scene'[v] = after /\ \A w \in Editors : w # v => scene'[w] = scene[w]
    BY <1>3 DEF Edit, BTypes
  <2>3. after[e] = IF e = f THEN new ELSE scene[v][e]
    BY DEF BTypes, Els
  <2>2. new.ver = scene[v][f].ver + 1
    OBVIOUS
  <2> HIDE DEF new, after
  <2> QED BY <1>0, <2>1, <2>2, <2>3
<1>4. ASSUME NEW v \in Editors, NEW els \in syncs[v], Sync(v, els)
      PROVE  scene'[u][e].ver >= scene[u][e].ver \/ scene[u][e].gone
  <2>1. CASE view[v] = "open" /\ u = v
    <3>1. els[e].ver \in Nat /\ NoElement.ver = 0
      BY ElsAre DEF BTypes, Els, NoElement
    <3> QED BY <1>0, <1>4, <2>1, <3>1, Syncs
  <2>2. CASE u # v \/ view[v] # "open"
    BY <1>0, <1>4, <2>2 DEF Sync, BTypes
  <2> QED BY <2>1, <2>2
<1>5. \/ UNCHANGED scene
      \/ \E v \in Editors : Show(v) \/ CloseBoard(v)
      \/ \E v \in Editors, f \in Elements, gone \in BOOLEAN : Edit(v, f, gone)
      \/ \E v \in Editors : \E els \in syncs[v] : Sync(v, els)
  BY DEF BoardNext, Editing, OpenBoard, Load, OnChange, Unmute, Flush, DeleteBoard, SyncLost, DeltaRead,
         DeltaWrite, DeltaFails
<1> QED BY <1>0, <1>1, <1>2, <1>3, <1>4, <1>5

\* VersionsGrow for any editors: on the screen an element never goes back to an
\* older version, in whatever order broadcasts come, unless it was deleted there.
THEOREM Growing == BoardSpec => VersionsGrow
<1>1. BTypes /\ [BoardNext]_boardVars =>
        \/ \A u \in Editors : view[u] = "open" /\ view'[u] = "open" =>
             \A e \in Elements : scene'[u][e].ver >= scene[u][e].ver \/ scene[u][e].gone
        \/ UNCHANGED boardVars
  BY SceneSteps
<1> QED BY <1>1, BoardTypes, PTL DEF BoardSpec, VersionsGrow

\* An element that a view shows and has not reported is its user's own.
OwnNews == \A u \in Editors, e \in Elements : scene[u][e].ver > known[u][e] => scene[u][e].by = u
Own == \A u \in Editors, e \in Elements : pending[u][e].ver > 0 => pending[u][e].by = u
Origins == \A d \in deltas, e \in Elements : d.els[e].ver > 0 => d.els[e].by = d.from
EchoInv == OwnNews /\ Own /\ Origins

\* What a view notices is its user's own.
LEMMA HandledOwn ==
  ASSUME BTypes, EchoInv, NEW u \in Editors, NEW els \in Els, HandleChange(u, els), NEW e \in Elements,
         els[e].ver > known[u][e] => els[e].by = u
  PROVE  /\ els[e].ver > known'[u][e] => els[e].by = u
         /\ pending'[u][e].ver > 0 => pending'[u][e].by = u
<1>1. els[e].ver \in Nat /\ known[u][e] \in Nat
  BY ElsAre DEF BTypes, Els
<1> QED BY <1>1, Handles DEF EchoInv, Own

\* What is sent is the sender's own.
LEMMA SentOwn ==
  ASSUME BTypes, EchoInv, NEW u \in Editors, Send(u)
  PROVE  Origins' /\ Own'
<1>1. Nothing \in Els /\ \A e \in Elements : Nothing[e].ver = 0
  BY DEF Nothing, NoElement, Els, Sound, Element
<1>2. Origins'
  BY BoardSends DEF EchoInv, Origins, Own
<1>3. Own'
  BY <1>1, BoardSends DEF EchoInv, Own
<1> QED BY <1>2, <1>3

\* At the start nothing is drawn.
LEMMA EchoStart ==
  ASSUME BoardInit
  PROVE  EchoInv
BY DEF BoardInit, EchoInv, OwnNews, Own, Origins, Nothing, NoElement

\* Every step of the board keeps EchoInv.
LEMMA EchoStays ==
  ASSUME BTypes, EchoInv, BoardNext
  PROVE  EchoInv'
<1>0. \A u \in Editors, e \in Elements :
        scene[u][e].ver \in Nat /\ known[u][e] \in Nat /\ loaded[u][e].ver \in Nat
  BY ElsAre DEF BTypes, Els
<1>1. CASE UNCHANGED <<scene, known, pending, deltas>>
  BY <1>1 DEF EchoInv, OwnNews, Own, Origins
<1>2. ASSUME NEW u \in Editors, Show(u)
      PROVE  EchoInv'
  <2>1. /\ \A v \in Editors : v # u => scene'[v] = scene[v] /\ known'[v] = known[v]
        /\ \A e \in Elements : scene'[u][e] = loaded[u][e] /\ known'[u][e] = loaded[u][e].ver
        /\ UNCHANGED <<pending, deltas>>
    BY <1>2 DEF Show, BTypes
  <2>2. OwnNews'
    BY <1>0, <2>1 DEF EchoInv, OwnNews
  <2> QED BY <2>1, <2>2 DEF EchoInv, Own, Origins
<1>3. ASSUME NEW u \in Editors, NEW els \in Els, HandleChange(u, els), UNCHANGED deltas, scene'[u] = els,
             \A e \in Elements : els[e].ver > known[u][e] => els[e].by = u,
             \A v \in Editors : v # u => scene'[v] = scene[v]
      PROVE  EchoInv'
  <2>1. \A e \in Elements : /\ els[e].ver > known'[u][e] => els[e].by = u
                            /\ pending'[u][e].ver > 0 => pending'[u][e].by = u
    BY <1>3, HandledOwn
  <2>2. \A v \in Editors : v # u => known'[v] = known[v] /\ pending'[v] = pending[v]
    BY <1>3, HandleTypes
  <2>3. OwnNews' /\ Own'
    BY <1>3, <2>1, <2>2 DEF EchoInv, OwnNews, Own
  <2> QED BY <1>3, <2>3 DEF EchoInv, Origins
<1>4. ASSUME NEW u \in Editors, OnChange(u)
      PROVE  EchoInv'
  <2>1. scene[u] \in Els /\ HandleChange(u, scene[u]) /\ UNCHANGED <<scene, deltas>>
    BY <1>4 DEF OnChange, BTypes
  <2> QED BY <1>3, <2>1 DEF EchoInv, OwnNews
<1>5. ASSUME NEW u \in Editors, NEW f \in Elements, NEW gone \in BOOLEAN, Edit(u, f, gone)
      PROVE  EchoInv'
  <2> DEFINE new == [ver |-> scene[u][f].ver + 1, by |-> u, gone |-> gone]
             after == [scene[u] EXCEPT ![f] = new]
  <2>1. /\ after \in Els /\ HandleChange(u, after) /\ UNCHANGED deltas
        /\ \A e \in Elements : after[e] = IF e = f THEN new ELSE scene[u][e]
        /\ \A v \in Editors : v # u => scene'[v] = scene[v]
    BY <1>5, Edits
  <2>2. scene'[u] = after
    BY <1>5 DEF Edit, BTypes
  <2>3. new.by = u
    OBVIOUS
  <2> HIDE DEF new, after
  <2>4. \A e \in Elements : after[e].ver > known[u][e] => after[e].by = u
    BY <2>1, <2>3 DEF EchoInv, OwnNews
  <2> QED BY <1>3, <2>1, <2>2, <2>4
<1>6. ASSUME NEW u \in Editors, Flush(u)
      PROVE  EchoInv'
  <2>1. Send(u) /\ UNCHANGED <<scene, known>>
    BY <1>6 DEF Flush
  <2> QED BY <2>1, SentOwn DEF EchoInv, OwnNews
<1>7. ASSUME NEW u \in Editors, CloseBoard(u)
      PROVE  EchoInv'
  <2>1. /\ Send(u) /\ \A v \in Editors : v # u => scene'[v] = scene[v] /\ known'[v] = known[v]
        /\ \A e \in Elements : scene'[u][e] = NoElement /\ known'[u][e] = 0
    BY <1>7 DEF CloseBoard, BTypes, Nothing
  <2>2. OwnNews'
    BY <2>1 DEF EchoInv, OwnNews, NoElement
  <2> QED BY <2>1, <2>2, SentOwn DEF EchoInv
<1>8. ASSUME NEW u \in Editors, NEW els \in syncs[u], Sync(u, els)
      PROVE  EchoInv'
  <2>1. CASE view[u] = "open"
    <3>1. UNCHANGED <<pending, deltas>> /\ \A v \in Editors : v # u => scene'[v] = scene[v] /\ known'[v] = known[v]
      BY <1>8, <2>1 DEF Sync, BTypes
    <3>2. ASSUME NEW e \in Elements, scene'[u][e].ver > known'[u][e]
          PROVE  scene'[u][e].by = u
      <4>1. els[e].ver \in Nat /\ NoElement.ver = 0
        BY ElsAre DEF BTypes, Els, NoElement
      <4> QED BY <1>0, <1>8, <2>1, <3>2, <4>1, Syncs DEF EchoInv, OwnNews
    <3> QED BY <3>1, <3>2 DEF EchoInv, OwnNews, Own, Origins
  <2>2. CASE view[u] # "open"
    BY <1>1, <1>8, <2>2 DEF Sync
  <2> QED BY <2>1, <2>2
<1>9. ASSUME NEW d \in deltas, DeltaRead(d) \/ DeltaWrite(d) \/ DeltaFails(d)
      PROVE  EchoInv'
  <2>1. \A c \in deltas' : c \in deltas \/ (c.els = d.els /\ c.from = d.from)
    <3>1. CASE DeltaRead(d)
      <4> DEFINE c == [[d EXCEPT !.read = TRUE] EXCEPT !.stored = board]
      <4>1. c = [d EXCEPT !.read = TRUE, !.stored = board]
        OBVIOUS
      <4>2. c.els = d.els /\ c.from = d.from
        BY DEF BTypes
      <4> HIDE DEF c
      <4>3. deltas' \subseteq deltas \cup {c}
        BY <3>1, <4>1 DEF DeltaRead
      <4> QED BY <4>2, <4>3
    <3>2. CASE DeltaWrite(d) \/ DeltaFails(d)
      BY <3>2 DEF DeltaWrite, DeltaFails
    <3> QED BY <1>9, <3>1, <3>2
  <2>2. UNCHANGED <<scene, known, pending>>
    BY <1>9 DEF DeltaRead, DeltaWrite, DeltaFails
  <2> QED BY <2>1, <2>2 DEF EchoInv, OwnNews, Own, Origins
<1>10. \/ UNCHANGED <<scene, known, pending, deltas>>
       \/ \E u \in Editors : Show(u) \/ OnChange(u) \/ Flush(u) \/ CloseBoard(u)
       \/ \E u \in Editors, f \in Elements, gone \in BOOLEAN : Edit(u, f, gone)
       \/ \E u \in Editors : \E els \in syncs[u] : Sync(u, els)
       \/ \E d \in deltas : DeltaRead(d) \/ DeltaWrite(d) \/ DeltaFails(d)
  BY DEF BoardNext, Editing, OpenBoard, Load, Unmute, DeleteBoard, SyncLost
<1> QED BY <1>1, <1>2, <1>4, <1>5, <1>6, <1>7, <1>8, <1>9, <1>10
-----------------------------------------------------------------------------
(* Views that agree.                                                        *)

\* What the board had of an element, and what is said of it.
Had(e, x) == x.ver <= board[e].ver /\ (x.ver = board[e].ver => x = board[e])
OnItsWay(u, e) == \E els \in syncs[u] : els[e] = board[e]
SaidBy(u, e, x) == \E d \in deltas : d.from = u /\ d.els[e] = x

\* What a handler read is not newer than the board, and ties with it are equal.
HasRead(e) ==
  \A d \in deltas : d.read => /\ d.stored[e].ver <= board[e].ver
                              /\ d.els[e].ver = d.stored[e].ver => d.els[e] = d.stored[e]
\* Broadcasts say what the board had.
IsTold(e) == \A u \in Editors : \A els \in syncs[u] : Had(e, els[e])
\* An opening view has loaded the board, or what it has missed is coming.
Opens(u, e) ==
  view[u] = "opening" => Had(e, loaded[u][e]) /\ (loaded[u][e].ver >= board[e].ver \/ OnItsWay(u, e))
\* An open view knows of the board's version, or it is coming.
Follows(u, e) == view[u] = "open" => known[u][e] >= board[e].ver \/ OnItsWay(u, e)
\* The element of the version known is shown, or a newer one, and the board had
\* it or will be told of it.
Stands(u, e, x) ==
  /\ x.ver = known[u][e]
  /\ scene[u][e] = x \/ (x.gone /\ scene[u][e] = NoElement) \/ scene[u][e].ver > x.ver
ShowsIt(u, e) ==
  view[u] = "open" => \E x \in Sound : Stands(u, e, x) /\ (Had(e, x) \/ x = pending[u][e] \/ SaidBy(u, e, x))
Agrees(e) == HasRead(e) /\ IsTold(e) /\ \A u \in Editors : Opens(u, e) /\ Follows(u, e) /\ ShowsIt(u, e)
AgreeInv == \A e \in Elements : exists /\ e \notin blemished => Agrees(e)

\* Numbers and elements, one by one.
LEMMA OneByOne ==
  ASSUME BTypes, NEW e \in Elements
  PROVE  /\ board[e] \in Sound /\ board[e].ver \in Nat /\ NoElement \in Sound /\ NoElement.ver = 0
         /\ \A u \in Editors : /\ known[u][e] \in Nat /\ scene[u][e] \in Sound /\ loaded[u][e] \in Sound
                               /\ pending[u][e] \in Sound
         /\ \A u \in Editors : \A els \in syncs[u] : els[e] \in Sound
         /\ \A d \in deltas : d.els[e] \in Sound /\ d.stored[e] \in Sound
         /\ \A x \in Sound : x.ver \in Nat /\ (x.ver = 0 => x = NoElement)
<1>1. \A d \in deltas : d.els \in Els /\ d.stored \in Els
  BY DEF BTypes
<1>2. NoElement.ver = 0 /\ \A x \in Sound : x.ver = 0 => x = NoElement
  BY DEF NoElement, Sound
<1> QED BY <1>1, <1>2, ElsAre DEF BTypes, Els

\* The board had no element.
LEMMA HadNone ==
  ASSUME BTypes, NEW e \in Elements
  PROVE  Had(e, NoElement)
BY OneByOne DEF Had

\* What a step leaves of a user's view, and of the board, still stands.
LEMMA Unmoved ==
  ASSUME NEW e \in Elements, NEW v \in Editors, Opens(v, e), Follows(v, e), ShowsIt(v, e),
         board'[e] = board[e], syncs'[v] = syncs[v], view'[v] = view[v],
         view[v] = "opening" => loaded'[v] = loaded[v],
         scene'[v][e] = scene[v][e], known'[v][e] = known[v][e], pending'[v][e] = pending[v][e],
         \A x \in Sound : SaidBy(v, e, x) => Had(e, x) \/ SaidBy(v, e, x)'
  PROVE  Opens(v, e)' /\ Follows(v, e)' /\ ShowsIt(v, e)'
<1>1. OnItsWay(v, e)' <=> OnItsWay(v, e)
  BY DEF OnItsWay
<1>2. \A x \in Sound : Had(e, x)' <=> Had(e, x)
  BY DEF Had
<1>3. Opens(v, e)'
  BY <1>1 DEF Opens, Had
<1>4. Follows(v, e)'
  BY <1>1 DEF Follows
<1>5. ShowsIt(v, e)'
  <2> SUFFICES ASSUME view[v] = "open"
               PROVE  \E x \in Sound : Stands(v, e, x)' /\ (Had(e, x)' \/ x = pending'[v][e] \/ SaidBy(v, e, x)')
    BY DEF ShowsIt
  <2>1. PICK x \in Sound : Stands(v, e, x) /\ (Had(e, x) \/ x = pending[v][e] \/ SaidBy(v, e, x))
    BY DEF ShowsIt
  <2>2. Stands(v, e, x)'
    BY <2>1 DEF Stands
  <2> QED BY <1>2, <2>1, <2>2
<1> QED BY <1>3, <1>4, <1>5

\* A view that is neither opening nor open has nothing to agree with.
LEMMA Elsewhere ==
  ASSUME NEW e \in Elements, NEW v \in Editors, view'[v] \notin {"opening", "open"}
  PROVE  Opens(v, e)' /\ Follows(v, e)' /\ ShowsIt(v, e)'
BY DEF Opens, Follows, ShowsIt

\* The service's part, when it does nothing but take new requests.
LEMMA Unserved ==
  ASSUME NEW e \in Elements, HasRead(e), IsTold(e), board' = board,
         \A d \in deltas' : d \in deltas \/ ~d.read,
         \A u \in Editors : syncs'[u] \subseteq syncs[u]
  PROVE  HasRead(e)' /\ IsTold(e)'
<1>1. HasRead(e)'
  BY DEF HasRead
<1>2. IsTold(e)'
  BY DEF IsTold, Had
<1> QED BY <1>1, <1>2

\* The views of the others, when a user's request is all that is new.
LEMMA OthersStay ==
  ASSUME BTypes, NEW e \in Elements, Agrees(e), NEW u \in Editors, UNCHANGED board,
         deltas \subseteq deltas',
         \A v \in Editors : v # u => /\ syncs'[v] = syncs[v] /\ view'[v] = view[v] /\ loaded'[v] = loaded[v]
                                     /\ scene'[v] = scene[v] /\ known'[v] = known[v] /\ pending'[v] = pending[v]
  PROVE  \A v \in Editors : v # u => Opens(v, e)' /\ Follows(v, e)' /\ ShowsIt(v, e)'
<1> SUFFICES ASSUME NEW v \in Editors, v # u
             PROVE  Opens(v, e)' /\ Follows(v, e)' /\ ShowsIt(v, e)'
  OBVIOUS
<1>1. \A x \in Sound : SaidBy(v, e, x) => SaidBy(v, e, x)'
  BY DEF SaidBy
<1>2. Opens(v, e) /\ Follows(v, e) /\ ShowsIt(v, e)
  BY DEF Agrees
<1> QED BY <1>1, <1>2, Unmoved

\* A view that opens, loads, is shown or closed, a mute that ends, and what is sent.
LEMMA ViewsAgree ==
  ASSUME BTypes, NEW e \in Elements, Agrees(e), exists, NEW u \in Editors,
         OpenBoard(u) \/ Load(u) \/ Show(u) \/ Unmute(u) \/ Flush(u) \/ CloseBoard(u)
  PROVE  Agrees(e)'
<1>1. /\ UNCHANGED <<board, syncs>> /\ deltas \subseteq deltas' /\ \A d \in deltas' : d \in deltas \/ ~d.read
      /\ \A v \in Editors : v # u => /\ view'[v] = view[v] /\ loaded'[v] = loaded[v]
                                     /\ scene'[v] = scene[v] /\ known'[v] = known[v] /\ pending'[v] = pending[v]
  <2>1. CASE OpenBoard(u) \/ Load(u) \/ Show(u) \/ Unmute(u)
    BY <2>1 DEF OpenBoard, Load, Show, Unmute, BTypes
  <2>2. CASE Flush(u)
    <3>1. Send(u)
      BY <2>2 DEF Flush
    <3> QED BY <2>2, <3>1, BoardSends DEF Flush
  <2>3. CASE CloseBoard(u)
    <3>1. Send(u)
      BY <2>3 DEF CloseBoard
    <3> QED BY <2>3, <3>1, BoardSends DEF CloseBoard, BTypes
  <2> QED BY <2>1, <2>2, <2>3
<1>2. HasRead(e)' /\ IsTold(e)'
  BY <1>1, Unserved DEF Agrees
<1>3. \A v \in Editors : v # u => Opens(v, e)' /\ Follows(v, e)' /\ ShowsIt(v, e)'
  BY <1>1, OthersStay
<1>4. Opens(u, e)' /\ Follows(u, e)' /\ ShowsIt(u, e)'
  <2>0. Opens(u, e) /\ Follows(u, e) /\ ShowsIt(u, e)
    BY DEF Agrees
  <2>1. CASE OpenBoard(u) \/ CloseBoard(u)
    <3>1. view'[u] \in {"asking", "list"}
      BY <2>1 DEF OpenBoard, CloseBoard, BTypes
    <3> QED BY <3>1, Elsewhere
  <2>2. CASE Load(u)
    <3>1. loaded'[u] = board /\ view'[u] = "opening" /\ board' = board
      BY <2>2 DEF Load, BTypes
    <3> QED BY <3>1, OneByOne DEF Opens, Follows, ShowsIt, Had
  <2>3. CASE Show(u)
    <3>1. /\ view[u] = "opening" /\ view'[u] = "open" /\ UNCHANGED <<board, syncs>>
          /\ scene'[u][e] = loaded[u][e] /\ known'[u][e] = loaded[u][e].ver
      BY <2>3 DEF Show, BTypes
    <3>2. Had(e, loaded[u][e]) /\ (loaded[u][e].ver >= board[e].ver \/ OnItsWay(u, e)) /\ loaded[u][e] \in Sound
      BY <2>0, <3>1, OneByOne DEF Opens
    <3>3. Follows(u, e)'
      BY <3>1, <3>2 DEF Follows, OnItsWay
    <3>4. ShowsIt(u, e)'
      <4> DEFINE x == loaded[u][e]
      <4>1. x \in Sound /\ x.ver = known'[u][e] /\ scene'[u][e] = x
            /\ x.ver <= board'[e].ver /\ (x.ver = board'[e].ver => x = board'[e])
        BY <3>1, <3>2 DEF Had
      <4> HIDE DEF x
      <4>2. \E y \in Sound : /\ y.ver = known'[u][e] /\ scene'[u][e] = y
                             /\ y.ver <= board'[e].ver /\ (y.ver = board'[e].ver => y = board'[e])
        BY <4>1
      <4> QED BY <4>2 DEF ShowsIt, Stands, Had
    <3> QED BY <3>1, <3>3, <3>4 DEF Opens
  <2>4. CASE Unmute(u)
    <3>1. UNCHANGED <<board, deltas, syncs, view, loaded, scene, known, pending>>
      BY <2>4 DEF Unmute
    <3> QED BY <2>0, <3>1, Unmoved DEF SaidBy
  <2>5. CASE Flush(u)
    <3>1. /\ view[u] = "open" /\ Send(u) /\ view'[u] = "open"
          /\ UNCHANGED <<board, syncs, scene, known>>
      BY <2>5 DEF Flush
    <3>2. Follows(u, e)'
      BY <2>0, <3>1 DEF Follows, OnItsWay
    <3>3. PICK x \in Sound : Stands(u, e, x) /\ (Had(e, x) \/ x = pending[u][e] \/ SaidBy(u, e, x))
      BY <2>0, <3>1 DEF ShowsIt
    <3>4. Stands(u, e, x)'
      BY <3>1, <3>3 DEF Stands
    <3>5. Had(e, x)' \/ x = pending'[u][e] \/ SaidBy(u, e, x)'
      BY <3>1, <3>3, BoardSends DEF Had, SaidBy
    <3>6. ShowsIt(u, e)'
      BY <3>4, <3>5 DEF ShowsIt
    <3> QED BY <3>1, <3>2, <3>6 DEF Opens
  <2> QED BY <2>1, <2>2, <2>3, <2>4, <2>5
<1> QED BY <1>2, <1>3, <1>4 DEF Agrees
\* What is drawn, and noticed.
LEMMA NoticesAgree ==
  ASSUME BTypes, NEW e \in Elements, Agrees(e), NEW u \in Editors, NEW els \in Els, HandleChange(u, els),
         view[u] = "open", UNCHANGED <<board, deltas, syncs, view, loaded>>, scene'[u][e] = els[e],
         \A v \in Editors : v # u => scene'[v] = scene[v],
         els[e] = scene[u][e] \/ els[e].ver > known[u][e]
  PROVE  Agrees(e)'
<1>1. HasRead(e)' /\ IsTold(e)'
  BY Unserved DEF Agrees
<1>2. \A v \in Editors : v # u => known'[v] = known[v] /\ pending'[v] = pending[v]
  BY HandleTypes
<1>3. \A v \in Editors : v # u => Opens(v, e)' /\ Follows(v, e)' /\ ShowsIt(v, e)'
  BY <1>2, OthersStay
<1>4. Follows(u, e) /\ ShowsIt(u, e)
  BY DEF Agrees
<1>5. known[u][e] \in Nat /\ board[e].ver \in Nat /\ els[e] \in Sound /\ els[e].ver \in Nat
  BY OneByOne DEF Els
<1>6. /\ known'[u][e] >= known[u][e]
      /\ \/ known'[u][e] = els[e].ver /\ pending'[u][e] = els[e]
         \/ known'[u][e] = known[u][e] /\ pending'[u][e] = pending[u][e]
  BY <1>5, Handles
<1>7. Follows(u, e)'
  BY <1>4, <1>5, <1>6, HandleTypes DEF Follows, OnItsWay, BTypes
<1>8. ShowsIt(u, e)'
  <2>1. CASE known'[u][e] = els[e].ver /\ pending'[u][e] = els[e]
    BY <1>5, <2>1 DEF ShowsIt, Stands
  <2>2. CASE known'[u][e] = known[u][e] /\ pending'[u][e] = pending[u][e]
    <3>1. PICK x \in Sound : Stands(u, e, x) /\ (Had(e, x) \/ x = pending[u][e] \/ SaidBy(u, e, x))
      BY <1>4 DEF ShowsIt
    <3>2. Stands(u, e, x)'
      BY <2>2, <3>1 DEF Stands
    <3>3. Had(e, x)' \/ x = pending'[u][e] \/ SaidBy(u, e, x)'
      BY <2>2, <3>1 DEF Had, SaidBy
    <3> QED BY <3>2, <3>3 DEF ShowsIt
  <2> QED BY <1>6, <2>1, <2>2
<1>9. Opens(u, e)'
  BY DEF Opens
<1> QED BY <1>1, <1>3, <1>7, <1>8, <1>9 DEF Agrees

\* An edit, and a change that is noticed late.
LEMMA EditsAgree ==
  ASSUME BTypes, NEW e \in Elements, Agrees(e), NEW u \in Editors,
         OnChange(u) \/ \E f \in Elements, gone \in BOOLEAN : Edit(u, f, gone)
  PROVE  Agrees(e)'
<1>1. CASE OnChange(u)
  <2>1. scene[u] \in Els
    BY DEF BTypes
  <2> QED BY <1>1, <2>1, NoticesAgree DEF OnChange
<1>2. ASSUME NEW f \in Elements, NEW gone \in BOOLEAN, Edit(u, f, gone)
      PROVE  Agrees(e)'
  <2> DEFINE new == [ver |-> scene[u][f].ver + 1, by |-> u, gone |-> gone]
             after == [scene[u] EXCEPT ![f] = new]
  <2>1. /\ after \in Els /\ HandleChange(u, after) /\ view[u] = "open"
        /\ scene'[u][e] = (IF e = f THEN new ELSE scene[u][e])
        /\ after[e] = (IF e = f THEN new ELSE scene[u][e])
        /\ \A v \in Editors : v # u => scene'[v] = scene[v]
        /\ UNCHANGED <<board, exists, deltas, syncs, view, loaded, muted, blemished>>
    BY <1>2, Edits
  <2>2. new.ver = scene[u][f].ver + 1
    OBVIOUS
  <2>3. scene[u][f].ver = 0 => known[u][f] = 0
    BY <1>2 DEF Edit
  <2> HIDE DEF new, after
  <2>4. e = f => after[e].ver > known[u][e]
    <3> SUFFICES ASSUME e = f
                 PROVE  new.ver > known[u][e]
      BY <2>1
    <3>1. PICK x \in Sound : Stands(u, e, x)
      BY <2>1 DEF Agrees, ShowsIt
    <3>2. known[u][e] \in Nat /\ scene[u][e].ver \in Nat /\ NoElement.ver = 0
      BY OneByOne
    <3> QED BY <2>2, <2>3, <3>1, <3>2 DEF Stands
  <2> QED BY <2>1, <2>4, NoticesAgree
<1> QED BY <1>1, <1>2

\* A broadcast that comes, or is lost, or finds nobody listening.
LEMMA SyncsAgree ==
  ASSUME BTypes, NEW e \in Elements, Agrees(e), NEW u \in Editors, NEW els \in syncs[u],
         Sync(u, els) \/ SyncLost(u, els), e \notin blemished'
  PROVE  Agrees(e)'
<1>1. /\ UNCHANGED <<board, deltas, view, loaded, pending>> /\ syncs' = [syncs EXCEPT ![u] = syncs[u] \ {els}]
      /\ \A v \in Editors : v # u => scene'[v] = scene[v] /\ known'[v] = known[v]
  BY DEF Sync, SyncLost, BTypes
<1>2. /\ \A v \in Editors : v # u => syncs'[v] = syncs[v]
      /\ syncs'[u] = syncs[u] \ {els}
  BY <1>1 DEF BTypes
<1>3. HasRead(e)' /\ IsTold(e)'
  BY <1>1, <1>2, Unserved DEF Agrees
<1>4. \A v \in Editors : v # u => Opens(v, e)' /\ Follows(v, e)' /\ ShowsIt(v, e)'
  BY <1>1, <1>2, OthersStay
<1>5. Opens(u, e) /\ Follows(u, e) /\ ShowsIt(u, e) /\ Had(e, els[e])
  BY DEF Agrees, IsTold
<1>6. /\ board[e].ver \in Nat /\ els[e] \in Sound /\ els[e].ver \in Nat /\ NoElement.ver = 0
      /\ known[u][e] \in Nat /\ loaded[u][e] \in Sound /\ loaded[u][e].ver \in Nat /\ scene[u][e] \in Sound
      /\ scene[u][e].ver \in Nat /\ NoElement \in Sound
      /\ els[e].ver = 0 => els[e] = NoElement
      /\ board[e].ver = 0 => board[e] = NoElement
  BY OneByOne
<1>7. OnItsWay(u, e) => els[e] = board[e] \/ OnItsWay(u, e)'
  BY <1>1, <1>2 DEF OnItsWay
<1>8. e \in In(els) <=> els[e].ver > 0
  BY DEF In
<1>9. CASE view[u] \notin {"opening", "open"}
  <2>1. Opens(u, e)' /\ Follows(u, e)' /\ ShowsIt(u, e)'
    BY <1>1, <1>9, Elsewhere
  <2> QED BY <1>3, <1>4, <2>1 DEF Agrees
<1>10. CASE view[u] = "opening"
  <2>1. els[e].ver = 0 \/ els[e] = loaded[u][e]
    BY <1>6, <1>8, <1>10 DEF Sync, SyncLost, Missed
  <2>2. Had(e, loaded[u][e]) /\ (loaded[u][e].ver >= board[e].ver \/ OnItsWay(u, e))
    BY <1>5, <1>10 DEF Opens
  <2>3. loaded[u][e].ver >= board[e].ver \/ OnItsWay(u, e)'
    BY <1>6, <1>7, <2>1, <2>2
  <2>4. Opens(u, e)'
    BY <1>1, <2>2, <2>3 DEF Opens, Had
  <2>5. Follows(u, e)' /\ ShowsIt(u, e)'
    BY <1>1, <1>10 DEF Follows, ShowsIt
  <2> QED BY <1>3, <1>4, <2>4, <2>5 DEF Agrees
<1>11. CASE view[u] = "open"
  <2>0. PICK x \in Sound : Stands(u, e, x) /\ (Had(e, x) \/ x = pending[u][e] \/ SaidBy(u, e, x))
    BY <1>5, <1>11 DEF ShowsIt
  <2>1. CASE SyncLost(u, els)
    <3>1. UNCHANGED <<scene, known>> /\ els[e].ver = 0
      BY <1>6, <1>8, <2>1 DEF SyncLost
    <3>2. Follows(u, e)'
      BY <1>1, <1>5, <1>6, <1>7, <1>11, <3>1 DEF Follows
    <3>3. Stands(u, e, x)' /\ (Had(e, x)' \/ x = pending'[u][e] \/ SaidBy(u, e, x)')
      BY <1>1, <2>0, <3>1 DEF Stands, Had, SaidBy
    <3>4. Opens(u, e)' /\ ShowsIt(u, e)'
      BY <1>1, <1>11, <3>3 DEF Opens, ShowsIt
    <3> QED BY <1>3, <1>4, <3>2, <3>4 DEF Agrees
  <2>2. CASE Sync(u, els)
    <3> DEFINE live == IF scene[u][e].gone THEN NoElement ELSE scene[u][e]
    <3>1. /\ scene'[u][e] = IF els[e].ver > live.ver THEN els[e] ELSE live
          /\ known'[u][e] = IF els[e].ver > known[u][e] THEN els[e].ver ELSE known[u][e]
      BY <1>11, <2>2, Syncs
    <3>2. e \notin Tied(scene[u], els) /\ e \notin Revived(u, els) /\ e \notin Unsaid(u)
      BY <1>11, <2>2 DEF Sync
    <3>3. ~(els[e].ver > 0 /\ els[e].ver = scene[u][e].ver /\ els[e] # scene[u][e])
      BY <1>8, <3>2 DEF Tied
    <3>4. ~(els[e].ver > 0 /\ els[e].ver < known[u][e] /\ live = NoElement)
      <4>1. Live(scene[u])[e] = live
        BY DEF Live
      <4> QED BY <1>8, <3>2, <4>1 DEF Revived
    <3>5. ~(scene[u][e].ver > known[u][e] /\ scene[u][e].gone)
      BY <3>2 DEF Unsaid, Unreported
    <3>6. x.ver = known[u][e]
          /\ (scene[u][e] = x \/ (x.gone /\ scene[u][e] = NoElement) \/ scene[u][e].ver > x.ver)
      BY <2>0 DEF Stands
    <3>7. NoElement.gone = FALSE
      BY DEF NoElement
    <3>8. known'[u][e] >= board[e].ver \/ OnItsWay(u, e)'
      BY <1>5, <1>6, <1>7, <1>11, <3>1 DEF Follows
    <3>9. Follows(u, e)'
      BY <1>1, <3>8 DEF Follows
    <3>10. Had(e, els[e])' /\ \A y \in Sound : Had(e, y) => Had(e, y)'
      BY <1>1, <1>5 DEF Had
    <3>11. \/ Stands(u, e, els[e])'
           \/ Stands(u, e, x)'
      <4> DEFINE s == scene[u][e]
                 k == known[u][e]
                 l == els[e]
      <4>1. /\ s.ver \in Nat /\ k \in Nat /\ l.ver \in Nat
            /\ live = (IF s.gone THEN NoElement ELSE s)
            /\ l.ver = 0 => l = NoElement
            /\ ~(l.ver > 0 /\ l.ver = s.ver /\ l # s)
            /\ ~(l.ver > 0 /\ l.ver < k /\ live = NoElement)
            /\ ~(s.ver > k /\ s.gone)
            /\ x.ver = k
            /\ s = x \/ (x.gone /\ s = NoElement) \/ s.ver > x.ver
            /\ scene'[u][e] = IF l.ver > live.ver THEN l ELSE live
            /\ known'[u][e] = IF l.ver > k THEN l.ver ELSE k
        BY <1>6, <3>1, <3>3, <3>4, <3>5, <3>6
      <4> HIDE DEF s, k, l, live
      <4>2. \/ /\ l.ver = known'[u][e]
               /\ scene'[u][e] = l \/ scene'[u][e].ver > l.ver
            \/ /\ x.ver = known'[u][e]
               /\ scene'[u][e] = x \/ (x.gone /\ scene'[u][e] = NoElement) \/ scene'[u][e].ver > x.ver
        BY <1>6, <3>7, <4>1
      <4> QED BY <4>2 DEF Stands, l
    <3>12. Had(e, x)' \/ x = pending'[u][e] \/ SaidBy(u, e, x)'
      BY <1>1, <2>0, <3>10 DEF SaidBy
    <3>13. ShowsIt(u, e)'
      BY <1>6, <3>10, <3>11, <3>12 DEF ShowsIt
    <3>14. Opens(u, e)'
      BY <1>1, <1>11 DEF Opens
    <3> QED BY <1>3, <1>4, <3>9, <3>13, <3>14 DEF Agrees
  <2> QED BY <2>1, <2>2
<1> QED BY <1>9, <1>10, <1>11
\* A handler reads the board, or a request fails.
LEMMA ReadsAgree ==
  ASSUME BTypes, NEW e \in Elements, Agrees(e), exists, NEW d \in deltas,
         DeltaRead(d) \/ DeltaFails(d), e \notin blemished'
  PROVE  Agrees(e)'
<1> DEFINE c == [[d EXCEPT !.read = TRUE] EXCEPT !.stored = board]
<1>1. c.els = d.els /\ c.from = d.from /\ c.read /\ c.stored = board
  BY DEF BTypes
<1>2. c = [d EXCEPT !.read = TRUE, !.stored = board]
  OBVIOUS
<1> HIDE DEF c
<1>3. /\ d.els[e] \in Sound /\ d.els[e].ver \in Nat /\ board[e].ver \in Nat /\ board[e] \in Sound
      /\ d.els[e].ver = 0 => d.els[e] = NoElement
      /\ board[e].ver = 0 => board[e] = NoElement
  BY OneByOne
<1>4. e \in In(d.els) <=> d.els[e].ver > 0
  BY DEF In
<1>5. UNCHANGED <<board, syncs, view, loaded, scene, known, pending>>
  BY DEF DeltaRead, DeltaFails
<1>6. \/ deltas' = deltas \ {d} /\ Had(e, d.els[e])
      \/ deltas' = (deltas \ {d}) \cup {c} /\ (d.els[e].ver = board[e].ver => d.els[e] = board[e])
  <2>1. CASE DeltaFails(d)
    <3>1. d.els[e] = NoElement /\ deltas' = deltas \ {d}
      BY <1>3, <1>4, <2>1 DEF DeltaFails
    <3> QED BY <3>1, HadNone
  <2>2. CASE DeltaRead(d)
    <3>1. e \notin Tied(board, d.els)
      BY <2>2 DEF DeltaRead
    <3>2. d.els[e].ver = board[e].ver => d.els[e] = board[e]
      BY <1>3, <1>4, <3>1 DEF Tied
    <3>3. CASE Merged(board, d.els) # board
      BY <1>2, <2>2, <3>2, <3>3 DEF DeltaRead
    <3>4. CASE Merged(board, d.els) = board
      <4>1. d.els[e].ver <= board[e].ver
        <5>1. board[e] = IF d.els[e].ver > board[e].ver THEN d.els[e] ELSE board[e]
          BY <3>4 DEF Merged
        <5> QED BY <1>3, <5>1
      <4> QED BY <2>2, <3>2, <3>4, <4>1 DEF DeltaRead, Had
    <3> QED BY <3>3, <3>4
  <2> QED BY <2>1, <2>2
<1>7. HasRead(e)'
  BY <1>1, <1>3, <1>5, <1>6 DEF Agrees, HasRead
<1>8. IsTold(e)'
  BY <1>5 DEF Agrees, IsTold, Had
<1>9. ASSUME NEW v \in Editors
      PROVE  Opens(v, e)' /\ Follows(v, e)' /\ ShowsIt(v, e)'
  <2>1. \A x \in Sound : SaidBy(v, e, x) => Had(e, x) \/ SaidBy(v, e, x)'
    BY <1>1, <1>6 DEF SaidBy
  <2>2. Opens(v, e) /\ Follows(v, e) /\ ShowsIt(v, e)
    BY DEF Agrees
  <2> QED BY <1>5, <2>1, <2>2, Unmoved
<1> QED BY <1>7, <1>8, <1>9 DEF Agrees

\* What a write does to one element whose changes are not lost: the board keeps
\* its own, which is not older than the change, or takes the change.
LEMMA ServerWrites ==
  ASSUME BTypes, NEW e \in Elements, Agrees(e), exists, NEW d \in deltas, DeltaWrite(d), e \notin blemished'
  PROVE  \/ board'[e] = board[e] /\ Had(e, d.els[e]) /\ (Changed(d)[e] = d.els[e] \/ Changed(d)[e] = NoElement)
         \/ /\ board'[e] = d.els[e] /\ d.els[e].ver > board[e].ver /\ Changed(d)[e] = d.els[e]
            /\ view[d.from] = "opening" => d.els[e] = loaded[d.from][e]
            /\ view[d.from] = "open" => known[d.from][e] >= d.els[e].ver
<1> DEFINE w == d.els[e]
           s == d.stored[e]
           b == board[e]
<1>1. /\ w.ver \in Nat /\ s.ver \in Nat /\ b.ver \in Nat /\ s.ver <= b.ver /\ (w.ver = s.ver => w = s)
      /\ w.ver = 0 => w = NoElement
  BY OneByOne DEF DeltaWrite, Agrees, HasRead
<1>2. d.from \in Editors /\ known[d.from][e] \in Nat
  BY OneByOne DEF BTypes
<1>3. /\ board' = Merged(d.stored, d.els)
      /\ e \notin {f \in Elements : Merged(d.stored, d.els)[f] # Merged(board, d.els)[f]}
      /\ e \notin Missed(d.from, Changed(d))
  BY DEF DeltaWrite
<1>4. Merged(d.stored, d.els)[e] = (IF w.ver > s.ver THEN w ELSE s)
      /\ Merged(board, d.els)[e] = (IF w.ver > b.ver THEN w ELSE b)
      /\ Changed(d)[e] = (IF w.ver > s.ver THEN w ELSE NoElement)
  BY DEF Merged, Changed
<1>5. board'[e] = (IF w.ver > s.ver THEN w ELSE s) /\ board'[e] = (IF w.ver > b.ver THEN w ELSE b)
  BY <1>3, <1>4
<1>6. CASE w.ver > b.ver
  <2>1. w.ver > s.ver /\ board'[e] = w /\ Changed(d)[e] = w /\ w.ver > 0
    BY <1>1, <1>4, <1>5, <1>6
  <2>2. e \in In(Changed(d))
    BY <2>1 DEF In
  <2>3. /\ view[d.from] = "opening" => w = loaded[d.from][e]
        /\ view[d.from] = "open" => ~(w.ver > known[d.from][e])
    BY <1>3, <2>1, <2>2 DEF Missed
  <2> QED BY <1>1, <1>2, <1>6, <2>1, <2>3
<1>7. CASE ~(w.ver > b.ver)
  <2>1. board'[e] = b /\ b = (IF w.ver > s.ver THEN w ELSE s)
    BY <1>5, <1>7
  <2>2. Had(e, w)
    <3> HIDE DEF w, s, b
    <3>1. w.ver <= b.ver /\ (w.ver = b.ver => w = b)
      BY <1>1, <1>7, <2>1
    <3> QED BY <3>1 DEF Had, b
  <2> QED BY <1>4, <2>1, <2>2
<1> QED BY <1>6, <1>7

\* A handler writes the board and tells the others.
LEMMA WritesAgree ==
  ASSUME BTypes, NEW e \in Elements, Agrees(e), exists, NEW d \in deltas, DeltaWrite(d), e \notin blemished'
  PROVE  Agrees(e)'
<1>1. /\ UNCHANGED <<view, loaded, scene, known, pending>> /\ deltas' = deltas \ {d}
      /\ \A v \in Editors : syncs'[v] = IF v = d.from THEN syncs[v] ELSE syncs[v] \cup {Changed(d)}
  BY DEF DeltaWrite
<1>2. /\ board[e].ver \in Nat /\ d.els[e] \in Sound /\ d.els[e].ver \in Nat /\ NoElement.ver = 0
      /\ board[e] \in Sound /\ \A x \in Sound : x.ver \in Nat
  BY OneByOne
<1>3. CASE board'[e] = board[e] /\ Had(e, d.els[e]) /\ (Changed(d)[e] = d.els[e] \/ Changed(d)[e] = NoElement)
  <2>1. \A x \in Sound : Had(e, x)' <=> Had(e, x)
    BY <1>3 DEF Had
  <2>2. HasRead(e)'
    BY <1>1, <1>3 DEF Agrees, HasRead
  <2>3. IsTold(e)'
    <3>1. Had(e, Changed(d)[e])
      BY <1>3, HadNone
    <3> QED BY <1>1, <1>3, <3>1, ZenonT(60) DEF Agrees, IsTold, Had
  <2>4. ASSUME NEW v \in Editors
        PROVE  Opens(v, e)' /\ Follows(v, e)' /\ ShowsIt(v, e)'
    <3>1. Opens(v, e) /\ Follows(v, e) /\ ShowsIt(v, e)
      BY DEF Agrees
    <3>2. OnItsWay(v, e) => OnItsWay(v, e)'
      BY <1>1, <1>3 DEF OnItsWay
    <3>3. Opens(v, e)' /\ Follows(v, e)'
      BY <1>1, <1>3, <3>1, <3>2 DEF Opens, Follows, Had
    <3>4. ShowsIt(v, e)'
      <4> SUFFICES ASSUME view[v] = "open"
                   PROVE  ShowsIt(v, e)'
        BY <1>1 DEF ShowsIt
      <4>1. PICK x \in Sound : Stands(v, e, x) /\ (Had(e, x) \/ x = pending[v][e] \/ SaidBy(v, e, x))
        BY <3>1 DEF ShowsIt
      <4>2. Stands(v, e, x)'
        BY <1>1, <4>1 DEF Stands
      <4>3. Had(e, x)' \/ x = pending'[v][e] \/ SaidBy(v, e, x)'
        BY <1>1, <1>3, <2>1, <4>1 DEF SaidBy
      <4> QED BY <4>2, <4>3 DEF ShowsIt
    <3> QED BY <3>3, <3>4
  <2> QED BY <2>2, <2>3, <2>4 DEF Agrees
<1>4. CASE /\ board'[e] = d.els[e] /\ d.els[e].ver > board[e].ver /\ Changed(d)[e] = d.els[e]
           /\ view[d.from] = "opening" => d.els[e] = loaded[d.from][e]
           /\ view[d.from] = "open" => known[d.from][e] >= d.els[e].ver
  <2>1. \A x \in Sound : Had(e, x) => Had(e, x)'
    BY <1>2, <1>4 DEF Had
  <2>2. HasRead(e)'
    <3> SUFFICES ASSUME NEW c \in deltas', c.read
                 PROVE  /\ c.stored[e].ver <= board'[e].ver
                        /\ c.els[e].ver = c.stored[e].ver => c.els[e] = c.stored[e]
      BY DEF HasRead
    <3>1. /\ c.stored[e].ver <= board[e].ver /\ c.stored[e].ver \in Nat
          /\ c.els[e].ver = c.stored[e].ver => c.els[e] = c.stored[e]
      BY <1>1, OneByOne DEF Agrees, HasRead
    <3> QED BY <1>2, <1>4, <3>1
  <2>3. IsTold(e)'
    <3> SUFFICES ASSUME NEW v \in Editors, NEW els \in syncs'[v]
                 PROVE  Had(e, els[e])'
      BY DEF IsTold, Had
    <3>1. CASE els \in syncs[v]
      BY <2>1, <3>1, OneByOne DEF Agrees, IsTold
    <3>2. CASE els = Changed(d)
      BY <1>2, <1>4, <3>2 DEF Had
    <3> QED BY <1>1, <3>1, <3>2
  <2>4. ASSUME NEW v \in Editors
        PROVE  Opens(v, e)' /\ Follows(v, e)' /\ ShowsIt(v, e)'
    <3>1. Opens(v, e) /\ Follows(v, e) /\ ShowsIt(v, e)
      BY DEF Agrees
    <3>2. v # d.from => OnItsWay(v, e)'
      BY <1>1, <1>4 DEF OnItsWay
    <3>3. loaded[v][e] \in Sound
      BY OneByOne
    <3>4. Opens(v, e)'
      <4> SUFFICES ASSUME view[v] = "opening"
                   PROVE  Opens(v, e)'
        BY <1>1 DEF Opens
      <4>1. Had(e, loaded[v][e])'
        BY <1>1, <2>1, <3>1, <3>3 DEF Opens, Had
      <4>2. loaded'[v][e].ver >= board'[e].ver \/ OnItsWay(v, e)'
        BY <1>1, <1>2, <1>4, <3>2
      <4> QED BY <4>1, <4>2 DEF Opens, Had
    <3>5. Follows(v, e)'
      BY <1>1, <1>4, <3>2 DEF Follows
    <3>6. ShowsIt(v, e)'
      <4> SUFFICES ASSUME view[v] = "open"
                   PROVE  ShowsIt(v, e)'
        BY <1>1 DEF ShowsIt
      <4>1. PICK x \in Sound : Stands(v, e, x) /\ (Had(e, x) \/ x = pending[v][e] \/ SaidBy(v, e, x))
        BY <3>1 DEF ShowsIt
      <4>2. Stands(v, e, x)'
        BY <1>1, <4>1 DEF Stands
      <4>3. Had(e, d.els[e])'
        BY <1>2, <1>4 DEF Had
      <4>4. Had(e, x)' \/ x = pending'[v][e] \/ SaidBy(v, e, x)'
        BY <1>1, <2>1, <4>1, <4>3 DEF SaidBy
      <4> QED BY <4>2, <4>4 DEF ShowsIt
    <3> QED BY <3>4, <3>5, <3>6
  <2> QED BY <2>2, <2>3, <2>4 DEF Agrees
<1> QED BY <1>3, <1>4, ServerWrites

\* At the start no view is open.
LEMMA AgreeStart ==
  ASSUME BoardInit
  PROVE  AgreeInv
BY DEF BoardInit, AgreeInv, Agrees, HasRead, IsTold, Opens, Follows, ShowsIt

\* Every step of the board keeps AgreeInv.
LEMMA AgreeStays ==
  ASSUME BTypes, AgreeInv, BoardNext
  PROVE  AgreeInv'
<1> SUFFICES ASSUME NEW e \in Elements, exists', e \notin blemished'
             PROVE  Agrees(e)'
  BY DEF AgreeInv
<1>1. ASSUME NEW u \in Editors, OpenBoard(u) \/ Load(u) \/ Show(u) \/ Unmute(u) \/ Flush(u) \/ CloseBoard(u)
      PROVE  Agrees(e)'
  <2>1. UNCHANGED <<exists, blemished>>
    BY <1>1 DEF OpenBoard, Load, Show, Unmute, Flush, CloseBoard
  <2> QED BY <1>1, <2>1, ViewsAgree DEF AgreeInv
<1>2. ASSUME NEW u \in Editors, OnChange(u) \/ \E f \in Elements, gone \in BOOLEAN : Edit(u, f, gone)
      PROVE  Agrees(e)'
  <2>1. UNCHANGED <<exists, blemished>>
    BY <1>2 DEF OnChange, Edit
  <2> QED BY <1>2, <2>1, EditsAgree DEF AgreeInv
<1>3. ASSUME NEW u \in Editors, NEW els \in syncs[u], Sync(u, els) \/ SyncLost(u, els)
      PROVE  Agrees(e)'
  <2>1. exists' = exists /\ blemished \subseteq blemished'
    BY <1>3 DEF Sync, SyncLost
  <2> QED BY <1>3, <2>1, SyncsAgree DEF AgreeInv
<1>4. ASSUME NEW u \in Editors, DeleteBoard(u)
      PROVE  Agrees(e)'
  BY <1>4 DEF DeleteBoard
<1>5. ASSUME NEW d \in deltas, DeltaRead(d) \/ DeltaWrite(d) \/ DeltaFails(d)
      PROVE  Agrees(e)'
  <2>1. exists' = exists /\ blemished \subseteq blemished'
    BY <1>5 DEF DeltaRead, DeltaWrite, DeltaFails
  <2> QED BY <1>5, <2>1, ReadsAgree, WritesAgree DEF AgreeInv
<1> QED BY <1>1, <1>2, <1>3, <1>4, <1>5 DEF BoardNext, Editing

\* BoardsAgree for any editors: when nothing is under way any more all views show
\* what the database has, element by element, and no view ever sends what is not
\* its user's own change.
THEOREM Agreement == BoardSpec => []BoardsAgree
<1>1. BTypes /\ EchoInv /\ UNCHANGED boardVars => EchoInv'
  BY DEF boardVars, EchoInv, OwnNews, Own, Origins
<1>2. AgreeInv /\ UNCHANGED boardVars => AgreeInv'
  BY DEF boardVars, AgreeInv, Agrees, HasRead, IsTold, Opens, Follows, ShowsIt, Stands, Had, OnItsWay, SaidBy
<1>3. EchoInv => NoEcho
  BY DEF EchoInv, Own, Origins, NoEcho, In
<1>4. BTypes /\ AgreeInv => ScenesAgree
  <2> SUFFICES ASSUME BTypes, AgreeInv, BoardAtRest, NEW u \in Editors, NEW e \in Elements \ blemished,
                      view[u] = "open"
               PROVE  Alike(board[e], scene[u][e])
    BY DEF ScenesAgree
  <2>1. deltas = {} /\ exists /\ syncs[u] = {} /\ Unreported(u, scene[u]) = {} /\ pending[u] = Nothing
    BY DEF BoardAtRest, Reported
  <2>2. known[u][e] >= board[e].ver
    BY <2>1 DEF AgreeInv, Agrees, Follows, OnItsWay
  <2>3. PICK x \in Sound : Stands(u, e, x) /\ (Had(e, x) \/ x = pending[u][e] \/ SaidBy(u, e, x))
    BY <2>1 DEF AgreeInv, Agrees, ShowsIt
  <2>4. Had(e, x)
    <3>1. pending[u][e] = NoElement
      BY <2>1 DEF Nothing
    <3> QED BY <2>1, <2>3, <3>1, HadNone DEF SaidBy
  <2>5. ~(scene[u][e].ver > known[u][e])
    BY <2>1 DEF Unreported
  <2>6. known[u][e] \in Nat /\ board[e].ver \in Nat
    BY OneByOne
  <2>7. x = board[e]
    BY <2>2, <2>3, <2>4, <2>6 DEF Stands, Had
  <2> QED BY <2>3, <2>5, <2>7 DEF Stands, Alike
<1>5. BTypes /\ EchoInv /\ AgreeInv => BoardsAgree
  BY <1>3, <1>4 DEF BoardsAgree
<1>6. BoardSpec => [](EchoInv /\ AgreeInv)
  BY BoardTypes, EchoStart, EchoStays, AgreeStart, AgreeStays, <1>1, <1>2, PTL DEF BoardSpec
<1> QED BY BoardTypes, <1>5, <1>6, PTL

(***************************************************************************)
(* DirectMessages.                                                         *)
(***************************************************************************)
\* What the proof needs of the types.
DmTypes ==
  /\ dmTabs \in [DmTabs -> DmTab] /\ dmsStored \subseteq Dms /\ present \subseteq Dms /\ persisted \subseteq said
  /\ said \subseteq Dms /\ taken \subseteq Dms /\ leaving \subseteq Dms /\ lapsed \in BOOLEAN
  /\ notices \subseteq [tab : DmTabs, dm : Dms] /\ dmAnswers \subseteq [tab : DmTabs, found : SUBSET Dms]
  /\ unseen \in [DmTabs -> SUBSET Dms]

\* A tab has joined nothing that it does not list, and when it is connected all that it
\* lists; of what it has joined the user is a member, but for what was taken from him.
Members(t) ==
  /\ dmTabs[t].entered \subseteq dmTabs[t].dms
  /\ dmTabs[t].up => dmTabs[t].open /\ dmTabs[t].dms \subseteq dmTabs[t].entered
  /\ dmTabs[t].entered \subseteq present \cup taken
\* Every room in which something was said is listed, on its way to the tab, or one of
\* which the tab could not learn.
Learns(t) == dmTabs[t].open => said \subseteq dmTabs[t].dms \cup Unheard(t)
DmRight == \A t \in DmTabs : Members(t) /\ Learns(t)

\* A step about one tab after which every room the user had is one he has, or one that
\* was taken from him, is about that tab only.
LEMMA OneDmTab ==
  ASSUME DmTypes, DmRight, NEW t \in DmTabs, present \cup taken \subseteq present' \cup taken', said' = said,
         NEW k \in DmTab, dmTabs' = [dmTabs EXCEPT ![t] = k],
         k.entered \subseteq k.dms, k.up => k.open /\ k.dms \subseteq k.entered, k.entered \subseteq present' \cup taken',
         k.open => said \subseteq k.dms \cup Unheard(t)',
         \A o \in DmTabs \ {t} : Unheard(o)' = Unheard(o)
  PROVE  DmRight'
<1>1. dmTabs'[t] = k /\ \A o \in DmTabs \ {t} : dmTabs'[o] = dmTabs[o]
  BY DEF DmTypes
<1>2. ASSUME NEW o \in DmTabs \ {t}
      PROVE  Members(o)' /\ Learns(o)'
  <2>1. Members(o) /\ Learns(o) /\ Unheard(o)' = Unheard(o)
    BY DEF DmRight
  <2> QED BY <1>1, <2>1 DEF Members, Learns
<1>3. Members(t)' /\ Learns(t)'
  BY <1>1 DEF Members, Learns
<1> QED BY <1>2, <1>3 DEF DmRight
\* So is one after which it lists ds.
LEMMA OneListing ==
  ASSUME DmTypes, DmRight, NEW t \in DmTabs, NEW next \in DmTab, NEW ds \in SUBSET Dms, Listing(t, next, ds),
         next.entered \subseteq ds, next.entered \subseteq present \cup taken,
         present \cup taken \subseteq present' \cup taken', next.up => next.open /\ ds \ next.entered \subseteq present', said' = said,
         next.open => said \subseteq ds \cup Unheard(t)',
         \A o \in DmTabs \ {t} : Unheard(o)' = Unheard(o)
  PROVE  DmRight' /\ dmTabs' \in [DmTabs -> DmTab] /\ dmsStored' \subseteq Dms
<1> DEFINE k == [next EXCEPT !.dms = ds, !.entered = IF next.up THEN @ \cup ds ELSE @]
<1>1. dmTabs' = [dmTabs EXCEPT ![t] = k] /\ dmsStored' = ds
  BY DEF Listing
<1>2. k.dms = ds /\ k.up = next.up /\ k.open = next.open /\ k.entered = (IF next.up THEN next.entered \cup ds ELSE next.entered)
  BY DEF DmTab
<1>3. k \in DmTab
  BY DEF DmTab
<1> HIDE DEF k
<1>4. k.entered \subseteq k.dms /\ (k.up => k.open /\ k.dms \subseteq k.entered) /\ k.entered \subseteq present' \cup taken'
  BY <1>2
<1>5. k.open => said \subseteq k.dms \cup Unheard(t)'
  BY <1>2
<1>6. dmTabs' \in [DmTabs -> DmTab]
  BY <1>1, <1>3 DEF DmTypes
<1> QED BY <1>1, <1>3, <1>4, <1>5, <1>6, OneDmTab

\* What a tab has not heard changes with what is on its way to it.
LEMMA UnheardOf ==
  ASSUME NEW t, NEW d
  PROVE  d \in Unheard(t) <=> \/ d \in unseen[t]
                              \/ \E n \in notices : n.tab = t /\ n.dm = d
                              \/ \E a \in dmAnswers : a.tab = t /\ d \in a.found
BY DEF Unheard

\* Every step of the tabs and of the other user keeps it.
LEMMA DmRightKept ==
  ASSUME DmTypes, DmRight, DmNext
  PROVE  DmTypes' /\ DmRight'
<1>0. ASSUME NEW t \in DmTabs
      PROVE  dmTabs[t] \in DmTab /\ Members(t) /\ Learns(t) /\ unseen[t] \subseteq Dms
  BY DEF DmTypes, DmRight
<1>00. ASSUME NEW rooms \in SUBSET Dms, JoinDms(rooms)
       PROVE  /\ present' \subseteq Dms /\ taken' \subseteq Dms /\ rooms \subseteq present' /\ present \subseteq present'
              /\ present \cup taken \subseteq present' \cup taken'
  BY <1>00 DEF JoinDms, DmTypes
<1>1. ASSUME NEW t \in DmTabs, OpenDmTab(t) PROVE DmTypes' /\ DmRight'
  <2> DEFINE next == [ClosedTab EXCEPT !.open = TRUE]
  <2>1. next \in DmTab /\ next.entered = {} /\ ~next.up
    BY DEF DmTab, ClosedTab
  <2>2. Listing(t, next, dmsStored) /\ UNCHANGED <<present, said, persisted, notices, dmAnswers, lapsed, leaving, taken>>
        /\ unseen' = [unseen EXCEPT ![t] = said \ dmsStored] /\ dmsStored \in SUBSET Dms
    BY <1>1 DEF OpenDmTab, DmTypes, presenceOfUser
  <2>3. \A o \in DmTabs \ {t} : Unheard(o)' = Unheard(o)
    BY <2>2 DEF Unheard, DmTypes
  <2>4. said \subseteq dmsStored \cup Unheard(t)'
    BY <2>2 DEF Unheard, DmTypes
  <2>5. unseen' \in [DmTabs -> SUBSET Dms]
    BY <2>2 DEF DmTypes
  <2> HIDE DEF next
  <2>6. DmRight' /\ dmTabs' \in [DmTabs -> DmTab] /\ dmsStored' \subseteq Dms
    BY <2>1, <2>2, <2>3, <2>4, OneListing
  <2> QED BY <2>2, <2>5, <2>6 DEF DmTypes
<1>2. ASSUME NEW t \in DmTabs, DmTabConnects(t) PROVE DmTypes' /\ DmRight'
  <2> DEFINE next == [dmTabs[t] EXCEPT !.up = TRUE, !.asking = TRUE]
  <2>1. next \in DmTab /\ next.entered = dmTabs[t].entered /\ next.dms = dmTabs[t].dms /\ next.up /\ next.open = dmTabs[t].open
        /\ next.open /\ next.viewed \subseteq Dms
    BY <1>0, <1>2 DEF DmTab, DmTabConnects, Connects
  <2>2. /\ Listing(t, next, next.dms) /\ JoinDms(NewDms(next, next.dms) \cup next.viewed)
        /\ UNCHANGED <<said, persisted, notices, dmAnswers, unseen, lapsed, leaving>>
    BY <1>2 DEF DmTabConnects, Connects, presenceOfUser
  <2>3. \A o \in DmTabs : Unheard(o)' = Unheard(o)
    BY <2>2 DEF Unheard
  <2>4. dmTabs[t].dms \in SUBSET Dms /\ Members(t) /\ Learns(t)
    BY <1>0 DEF DmTab
  <2> HIDE DEF next
  <2>5. NewDms(next, next.dms) = next.dms \ next.entered /\ next.dms \subseteq Dms
    BY <2>1, <2>4 DEF NewDms
  <2>55. /\ present' \subseteq Dms /\ taken' \subseteq Dms /\ next.dms \ next.entered \subseteq present'
         /\ present \cup taken \subseteq present' \cup taken'
    <3> DEFINE rooms == NewDms(next, next.dms) \cup next.viewed
    <3>1. rooms \in SUBSET Dms /\ JoinDms(rooms) /\ next.dms \ next.entered \subseteq rooms
      BY <2>1, <2>2, <2>5
    <3> HIDE DEF rooms
    <3> QED BY <1>00, <3>1
  <2>6. next.open => said \subseteq next.dms \cup Unheard(t)'
    BY <2>1, <2>3, <2>4 DEF Learns
  <2>7. DmRight' /\ dmTabs' \in [DmTabs -> DmTab] /\ dmsStored' \subseteq Dms
    BY <2>1, <2>2, <2>3, <2>4, <2>55, <2>6, OneListing DEF Members
  <2> QED BY <2>2, <2>55, <2>7 DEF DmTypes
<1>3. ASSUME NEW t \in DmTabs, DmsRead(t) PROVE DmTypes' /\ DmRight'
  <2> DEFINE k == [dmTabs[t] EXCEPT !.asking = FALSE]
  <2>1. k \in DmTab /\ k.entered = dmTabs[t].entered /\ k.dms = dmTabs[t].dms /\ k.up = dmTabs[t].up /\ k.open = dmTabs[t].open
    BY <1>0 DEF DmTab
  <2>2. dmTabs' = [dmTabs EXCEPT ![t] = k] /\ UNCHANGED <<dmsStored, present, said, persisted, notices, lapsed, leaving, taken>>
    BY <1>3 DEF DmsRead, presenceOfUser
  <2> HIDE DEF k
  <2>3. PICK f \in SUBSET Dms :
          /\ dmAnswers' = dmAnswers \cup {[tab |-> t, found |-> f]}
          /\ unseen' = [unseen EXCEPT ![t] = unseen[t] \ f]
    <3>1. PICK ok \in BOOLEAN :
            /\ dmAnswers' = dmAnswers \cup {[tab |-> t, found |-> IF ok THEN persisted ELSE {}]}
            /\ unseen' = IF ok THEN [unseen EXCEPT ![t] = @ \ persisted] ELSE unseen
      BY <1>3 DEF DmsRead
    <3>2. persisted \in SUBSET Dms /\ {} \in SUBSET Dms /\ unseen = [unseen EXCEPT ![t] = unseen[t] \ {}]
      BY DEF DmTypes
    <3> QED BY <3>1, <3>2
  <2>4. \A o \in DmTabs \ {t} : Unheard(o)' = Unheard(o)
    <3> SUFFICES ASSUME NEW o \in DmTabs \ {t}
                 PROVE  Unheard(o)' = Unheard(o)
      OBVIOUS
    <3>1. {b \in dmAnswers' : b.tab = o} = {b \in dmAnswers : b.tab = o}
      BY <2>3
    <3> QED BY <2>2, <2>3, <3>1 DEF Unheard, DmTypes
  <2>5. Unheard(t) \subseteq Unheard(t)'
    <3> SUFFICES ASSUME NEW d \in Unheard(t)
                 PROVE  d \in Unheard(t)'
      OBVIOUS
    <3>1. CASE d \in unseen[t] /\ d \notin f
      <4>1. d \in unseen'[t]
        BY <2>3, <3>1 DEF DmTypes
      <4> QED BY <4>1 DEF Unheard
    <3>2. CASE d \in f
      BY <2>3, <3>2 DEF Unheard
    <3>3. CASE \E n \in notices : n.tab = t /\ n.dm = d
      BY <2>2, <3>3 DEF Unheard
    <3>4. CASE \E a \in dmAnswers : a.tab = t /\ d \in a.found
      BY <2>3, <3>4 DEF Unheard
    <3> QED BY <3>1, <3>2, <3>3, <3>4, UnheardOf
  <2>6. DmRight'
    BY <1>0, <2>1, <2>2, <2>4, <2>5, OneDmTab DEF Members, Learns
  <2>7. dmAnswers' \subseteq [tab : DmTabs, found : SUBSET Dms] /\ unseen' \in [DmTabs -> SUBSET Dms]
        /\ dmTabs' \in [DmTabs -> DmTab]
    BY <2>1, <2>2, <2>3 DEF DmTypes
  <2> QED BY <2>2, <2>6, <2>7 DEF DmTypes
<1>4. ASSUME NEW a \in dmAnswers, DmsListed(a) PROVE DmTypes' /\ DmRight'
  <2> DEFINE t == a.tab
             ds == dmTabs[t].dms \cup a.found
  <2>1. t \in DmTabs /\ a.found \subseteq Dms
    BY DEF DmTypes
  <2>2. dmTabs[t] \in DmTab /\ Members(t) /\ Learns(t) /\ ds \in SUBSET Dms
    BY <1>0, <2>1 DEF DmTab
  <2>3. /\ Listing(t, dmTabs[t], ds) /\ JoinDms(NewDms(dmTabs[t], ds)) /\ dmAnswers' = dmAnswers \ {a}
        /\ UNCHANGED <<said, persisted, notices, unseen, lapsed, leaving>>
    BY <1>4 DEF DmsListed, presenceOfUser
  <2>4. \A o \in DmTabs \ {t} : Unheard(o)' = Unheard(o)
    <3> SUFFICES ASSUME NEW o \in DmTabs \ {t}
                 PROVE  Unheard(o)' = Unheard(o)
      OBVIOUS
    <3>1. {b \in dmAnswers' : b.tab = o} = {b \in dmAnswers : b.tab = o}
      BY <2>3
    <3> QED BY <2>3, <3>1 DEF Unheard
  <2>5. Unheard(t) \subseteq a.found \cup Unheard(t)'
    BY <2>3 DEF Unheard
  <2>6. dmTabs[t].open => said \subseteq ds \cup Unheard(t)'
    BY <2>2, <2>5 DEF Learns
  <2>7. /\ NewDms(dmTabs[t], ds) \in SUBSET Dms /\ dmTabs[t].entered \subseteq ds
        /\ dmTabs[t].up => ds \ dmTabs[t].entered \subseteq NewDms(dmTabs[t], ds)
    BY <2>2 DEF NewDms, Members
  <2> HIDE DEF t, ds
  <2>75. /\ present' \subseteq Dms /\ taken' \subseteq Dms /\ NewDms(dmTabs[t], ds) \subseteq present'
         /\ present \cup taken \subseteq present' \cup taken'
    BY <1>00, <2>3, <2>7
  <2>8. DmRight' /\ dmTabs' \in [DmTabs -> DmTab] /\ dmsStored' \subseteq Dms
    BY <2>1, <2>2, <2>3, <2>4, <2>6, <2>7, <2>75, OneListing DEF Members
  <2> QED BY <2>3, <2>8, <2>75 DEF DmTypes
<1>5. ASSUME NEW t \in DmTabs, StartDm(t) PROVE DmTypes' /\ DmRight'
  <2>1. PICK d \in Dms :
          /\ Listing(t, [dmTabs[t] EXCEPT !.viewed = @ \cup {d}], dmTabs[t].dms \cup {d})
          /\ JoinDms({d})
    BY <1>5 DEF StartDm
  <2> DEFINE next == [dmTabs[t] EXCEPT !.viewed = @ \cup {d}]
             ds == dmTabs[t].dms \cup {d}
  <2>2. next \in DmTab /\ next.entered = dmTabs[t].entered /\ next.up = dmTabs[t].up /\ next.open = dmTabs[t].open /\ ds \in SUBSET Dms
    BY <1>0 DEF DmTab
  <2>3. UNCHANGED <<said, persisted, notices, dmAnswers, unseen, lapsed, leaving>> /\ dmTabs[t].up
    BY <1>5 DEF StartDm, presenceOfUser
  <2>35. /\ present' \subseteq Dms /\ taken' \subseteq Dms /\ d \in present'
         /\ present \cup taken \subseteq present' \cup taken'
    BY <1>00, <2>1
  <2>4. \A o \in DmTabs : Unheard(o)' = Unheard(o)
    BY <2>3 DEF Unheard
  <2>5. next.entered \subseteq ds /\ ds \ next.entered \subseteq present' /\ next.entered \subseteq present \cup taken /\ next.open
    BY <1>0, <2>2, <2>3, <2>35 DEF Members
  <2>6. dmTabs[t].open => said \subseteq ds \cup Unheard(t)'
    BY <1>0, <2>4 DEF Learns
  <2> HIDE DEF next, ds
  <2>7. DmRight' /\ dmTabs' \in [DmTabs -> DmTab] /\ dmsStored' \subseteq Dms
    BY <2>1, <2>2, <2>3, <2>35, <2>4, <2>5, <2>6, OneListing DEF next, ds
  <2> QED BY <2>3, <2>7, <2>35 DEF DmTypes
<1>6. ASSUME NEW t \in DmTabs, SelectDm(t) PROVE DmTypes' /\ DmRight'
  <2>1. PICK d \in Dms : dmTabs' = [dmTabs EXCEPT ![t].viewed = @ \cup {d}] /\ JoinDms({d})
    BY <1>0, <1>6 DEF SelectDm, DmTab
  <2> DEFINE k == [dmTabs[t] EXCEPT !.viewed = @ \cup {d}]
  <2>2. k \in DmTab /\ k.entered = dmTabs[t].entered /\ k.dms = dmTabs[t].dms /\ k.up = dmTabs[t].up /\ k.open = dmTabs[t].open
    BY <1>0 DEF DmTab
  <2>3. dmTabs' = [dmTabs EXCEPT ![t] = k] /\ UNCHANGED <<dmsStored, said, persisted, notices, dmAnswers, unseen, lapsed, leaving>>
    BY <1>6, <2>1 DEF SelectDm, presenceOfUser
  <2>35. /\ present' \subseteq Dms /\ taken' \subseteq Dms /\ present \cup taken \subseteq present' \cup taken'
    BY <1>00, <2>1
  <2> HIDE DEF k
  <2>4. \A o \in DmTabs : Unheard(o)' = Unheard(o)
    BY <2>3 DEF Unheard
  <2>5. DmRight'
    BY <1>0, <2>2, <2>3, <2>35, <2>4, OneDmTab DEF Members, Learns
  <2>6. dmTabs' \in [DmTabs -> DmTab]
    BY <2>2, <2>3 DEF DmTypes
  <2> QED BY <2>3, <2>35, <2>5, <2>6 DEF DmTypes
<1>7. ASSUME UNCHANGED <<dmTabs, dmsStored, said, notices, dmAnswers, unseen>>, persisted' \subseteq said,
             present' \subseteq Dms, taken' \subseteq Dms, leaving' \subseteq Dms, lapsed' \in BOOLEAN,
             present \cup taken \subseteq present' \cup taken'
      PROVE  DmTypes' /\ DmRight'
  <2>1. DmRight'
    BY <1>7 DEF DmRight, Members, Learns, Unheard
  <2> QED BY <1>7, <2>1 DEF DmTypes
<1>71. ASSUME PeerStarts PROVE DmTypes' /\ DmRight'
  <2>1. PICK d \in Dms : JoinDms({d})
    BY <1>71 DEF PeerStarts
  <2>2. UNCHANGED <<dmTabs, dmsStored, said, persisted, notices, dmAnswers, unseen, lapsed, leaving>>
    BY <1>71 DEF PeerStarts, presenceOfUser
  <2> QED BY <1>00, <1>7, <2>1, <2>2 DEF DmTypes
<1>72. ASSUME DmPersisted PROVE DmTypes' /\ DmRight'
  BY <1>7, <1>72 DEF DmPersisted, presenceOfUser, DmTypes
<1>73. ASSUME SweepUser PROVE DmTypes' /\ DmRight'
  BY <1>7, <1>73 DEF SweepUser, DmTypes
<1>74. ASSUME NEW d \in leaving, UserTakenOut(d) PROVE DmTypes' /\ DmRight'
  BY <1>7, <1>74 DEF UserTakenOut, TakeDms, DmTypes
<1>8. ASSUME NEW d \in Dms, UNCHANGED <<dmTabs, dmsStored, present, persisted, dmAnswers, lapsed, leaving, taken>>, said' = said \cup {d},
             notices \subseteq notices', notices' \subseteq [tab : DmTabs, dm : Dms], unseen' \in [DmTabs -> SUBSET Dms],
             \A t \in DmTabs : unseen[t] \subseteq unseen'[t] /\ (d \in dmTabs[t].dms \cup Unheard(t)')
      PROVE  DmTypes' /\ DmRight'
  <2>1. ASSUME NEW t \in DmTabs
        PROVE  Members(t)' /\ Learns(t)'
    <3>1. Unheard(t) \subseteq Unheard(t)'
      BY <1>8 DEF Unheard
    <3> QED BY <1>0, <1>8, <3>1 DEF Members, Learns
  <2> QED BY <1>8, <2>1 DEF DmTypes, DmRight
<1>9. ASSUME PeerWrites PROVE DmTypes' /\ DmRight'
  <2> DEFINE ToldTabs(d) == {t \in DmTabs : dmTabs[t].up /\ d \in present}
  <2>1. PICK d \in Dms :
          /\ said' = said \cup {d} /\ notices' = notices \cup {[tab |-> t, dm |-> d] : t \in ToldTabs(d)}
          /\ unseen' = [t \in DmTabs |-> IF t \in ToldTabs(d) THEN unseen[t] ELSE unseen[t] \cup ({d} \ dmTabs[t].dms)]
    BY <1>9 DEF PeerWrites
  <2> DEFINE told == ToldTabs(d)
  <2>2. told \subseteq DmTabs
    OBVIOUS
  <2> HIDE DEF told
  <2>3. notices' \subseteq [tab : DmTabs, dm : Dms] /\ notices \subseteq notices'
    BY <2>1, <2>2 DEF DmTypes, told
  <2>4. unseen' \in [DmTabs -> SUBSET Dms]
    BY <1>0, <2>1 DEF told
  <2>5. ASSUME NEW t \in DmTabs
        PROVE  unseen[t] \subseteq unseen'[t] /\ d \in dmTabs[t].dms \cup Unheard(t)'
    <3>1. CASE t \in told
      <4> DEFINE n == [tab |-> t, dm |-> d]
      <4>1. n \in notices' /\ n.tab = t /\ n.dm = d
        BY <2>1, <3>1 DEF told
      <4>2. d \in Unheard(t)'
        BY <4>1 DEF Unheard
      <4> QED BY <2>1, <3>1, <4>2 DEF told
    <3>2. CASE t \notin told
      <4>1. unseen'[t] = unseen[t] \cup ({d} \ dmTabs[t].dms)
        BY <2>1, <3>2 DEF told
      <4> QED BY <4>1 DEF Unheard
    <3> QED BY <3>1, <3>2
  <2>6. UNCHANGED <<dmTabs, dmsStored, present, persisted, dmAnswers, lapsed, leaving, taken>>
    BY <1>9 DEF PeerWrites, presenceOfUser
  <2> QED BY <1>8, <2>1, <2>3, <2>4, <2>5, <2>6
<1>10. ASSUME NEW t \in DmTabs, UserWrites(t) PROVE DmTypes' /\ DmRight'
  <2>1. PICK d \in dmTabs[t].viewed :
          /\ said' = said \cup {d} /\ unseen' = [o \in DmTabs |-> unseen[o] \cup ({d} \ dmTabs[o].dms)]
    BY <1>10 DEF UserWrites
  <2>2. d \in Dms
    BY <1>0 DEF DmTab
  <2>3. unseen' \in [DmTabs -> SUBSET Dms]
    BY <1>0, <2>1, <2>2
  <2>4. \A o \in DmTabs : unseen[o] \subseteq unseen'[o] /\ d \in dmTabs[o].dms \cup Unheard(o)'
    BY <2>1 DEF Unheard
  <2>5. UNCHANGED <<dmTabs, dmsStored, present, persisted, notices, dmAnswers, lapsed, leaving, taken>> /\ notices \subseteq [tab : DmTabs, dm : Dms]
    BY <1>10 DEF UserWrites, DmTypes, presenceOfUser
  <2> QED BY <1>8, <2>1, <2>2, <2>3, <2>4, <2>5
<1>11. ASSUME NEW n \in notices, NoticeComes(n) PROVE DmTypes' /\ DmRight'
  <2> DEFINE t == n.tab
             ds == dmTabs[t].dms \cup {n.dm}
  <2>1. t \in DmTabs /\ n.dm \in Dms
    BY DEF DmTypes
  <2>2. dmTabs[t] \in DmTab /\ Members(t) /\ Learns(t) /\ ds \in SUBSET Dms
    BY <1>0, <2>1 DEF DmTab
  <2>3. /\ Listing(t, dmTabs[t], ds) /\ JoinDms(NewDms(dmTabs[t], ds)) /\ notices' = notices \ {n}
        /\ UNCHANGED <<said, persisted, dmAnswers, unseen, lapsed, leaving>>
    BY <1>11 DEF NoticeComes, presenceOfUser
  <2>4. \A o \in DmTabs \ {t} : Unheard(o)' = Unheard(o)
    <3> SUFFICES ASSUME NEW o \in DmTabs \ {t}
                 PROVE  Unheard(o)' = Unheard(o)
      OBVIOUS
    <3>1. {m \in notices' : m.tab = o} = {m \in notices : m.tab = o}
      BY <2>3
    <3> QED BY <2>3, <3>1 DEF Unheard
  <2>5. Unheard(t) \subseteq {n.dm} \cup Unheard(t)'
    BY <2>3 DEF Unheard
  <2>6. dmTabs[t].open => said \subseteq ds \cup Unheard(t)'
    BY <2>2, <2>5 DEF Learns
  <2>7. /\ NewDms(dmTabs[t], ds) \in SUBSET Dms /\ dmTabs[t].entered \subseteq ds
        /\ dmTabs[t].up => ds \ dmTabs[t].entered \subseteq NewDms(dmTabs[t], ds)
    BY <2>2 DEF NewDms, Members
  <2> HIDE DEF t, ds
  <2>75. /\ present' \subseteq Dms /\ taken' \subseteq Dms /\ NewDms(dmTabs[t], ds) \subseteq present'
         /\ present \cup taken \subseteq present' \cup taken'
    BY <1>00, <2>3, <2>7
  <2>8. DmRight' /\ dmTabs' \in [DmTabs -> DmTab] /\ dmsStored' \subseteq Dms
    BY <2>1, <2>2, <2>3, <2>4, <2>6, <2>7, <2>75, OneListing DEF Members
  <2> QED BY <2>3, <2>8, <2>75 DEF DmTypes
<1>12. ASSUME NEW n \in notices, NoticeFails(n) PROVE DmTypes' /\ DmRight'
  <2> DEFINE t == n.tab
  <2>1. t \in DmTabs /\ n.dm \in Dms
    BY DEF DmTypes
  <2>2. /\ notices' = notices \ {n} /\ unseen' = [unseen EXCEPT ![t] = unseen[t] \cup ({n.dm} \ dmTabs[t].dms)]
        /\ UNCHANGED <<dmTabs, dmsStored, present, said, persisted, dmAnswers, lapsed, leaving, taken>>
    BY <1>12 DEF NoticeFails, presenceOfUser
  <2>3. unseen' \in [DmTabs -> SUBSET Dms]
    BY <1>0, <2>1, <2>2 DEF DmTypes
  <2>4. ASSUME NEW o \in DmTabs, NEW d \in Unheard(o)
        PROVE  d \in dmTabs[o].dms \cup Unheard(o)'
    <3>1. unseen[o] \subseteq unseen'[o] /\ (o = t => n.dm \in dmTabs[o].dms \cup unseen'[o])
      BY <2>1, <2>2 DEF DmTypes
    <3>2. d \in unseen[o] \/ (\E m \in notices : m.tab = o /\ m.dm = d) \/ \E a \in dmAnswers : a.tab = o /\ d \in a.found
      BY UnheardOf
    <3>3. unseen'[o] \subseteq Unheard(o)'
      BY DEF Unheard
    <3>4. \A m \in notices \ {n} : m.tab = o => m.dm \in Unheard(o)'
      BY <2>2 DEF Unheard
    <3>5. \A a \in dmAnswers : a.tab = o => a.found \subseteq Unheard(o)'
      BY <2>2 DEF Unheard
    <3> QED BY <3>1, <3>2, <3>3, <3>4, <3>5
  <2>5. DmRight'
    BY <1>0, <2>2, <2>4 DEF DmRight, Members, Learns
  <2> QED BY <2>2, <2>3, <2>5 DEF DmTypes
<1>13. ASSUME NEW t \in DmTabs, NEW gone, gone \subseteq Dms, CutOff(t, gone)
       PROVE  /\ Unheard(t)' = gone /\ \A o \in DmTabs \ {t} : Unheard(o)' = Unheard(o)
              /\ notices' \subseteq notices /\ dmAnswers' \subseteq dmAnswers /\ unseen' \in [DmTabs -> SUBSET Dms]
  <2>1. /\ notices' = {n \in notices : n.tab # t} /\ dmAnswers' = {a \in dmAnswers : a.tab # t}
        /\ unseen' = [unseen EXCEPT ![t] = gone]
    BY <1>13 DEF CutOff
  <2>2. unseen'[t] = gone /\ unseen' \in [DmTabs -> SUBSET Dms] /\ \A o \in DmTabs \ {t} : unseen'[o] = unseen[o]
    BY <1>13, <2>1 DEF DmTypes
  <2>3. Unheard(t)' = gone
    BY <2>1, <2>2 DEF Unheard
  <2>4. ASSUME NEW o \in DmTabs \ {t}
        PROVE  Unheard(o)' = Unheard(o)
    <3>1. {m \in notices' : m.tab = o} = {m \in notices : m.tab = o} /\ {b \in dmAnswers' : b.tab = o} = {b \in dmAnswers : b.tab = o}
      BY <2>1
    <3> QED BY <2>2, <3>1 DEF Unheard
  <2> QED BY <2>1, <2>2, <2>3, <2>4
<1>14. ASSUME NEW t \in DmTabs, DmLinkDrops(t) PROVE DmTypes' /\ DmRight'
  <2>0. PICK viewed \in {dmTabs[t].viewed, {}} :
          dmTabs' = [dmTabs EXCEPT ![t] = [@ EXCEPT !.up = FALSE, !.asking = FALSE, !.viewed = viewed]]
    BY <1>14 DEF DmLinkDrops
  <2> DEFINE k == [dmTabs[t] EXCEPT !.up = FALSE, !.asking = FALSE, !.viewed = viewed]
             gone == Unheard(t) \ dmTabs[t].dms
  <2>1. k \in DmTab /\ k.entered = dmTabs[t].entered /\ k.dms = dmTabs[t].dms /\ ~k.up /\ k.open = dmTabs[t].open
    BY <1>0, <2>0 DEF DmTab
  <2>2. gone \subseteq Dms
    BY <1>0 DEF Unheard, DmTypes
  <2>3. /\ dmTabs' = [dmTabs EXCEPT ![t] = k] /\ CutOff(t, gone)
        /\ UNCHANGED <<dmsStored, present, said, persisted, leaving, taken>> /\ lapsed' \in BOOLEAN
    BY <1>14, <2>0 DEF DmLinkDrops
  <2>4. k.open => said \subseteq k.dms \cup gone
    BY <1>0, <2>1 DEF Learns
  <2> HIDE DEF k, gone
  <2>5. /\ Unheard(t)' = gone /\ \A o \in DmTabs \ {t} : Unheard(o)' = Unheard(o)
        /\ notices' \subseteq notices /\ dmAnswers' \subseteq dmAnswers /\ unseen' \in [DmTabs -> SUBSET Dms]
    BY <1>13, <2>2, <2>3
  <2>6. DmRight'
    BY <1>0, <2>1, <2>3, <2>4, <2>5, OneDmTab DEF Members
  <2>7. dmTabs' \in [DmTabs -> DmTab]
    BY <2>1, <2>3 DEF DmTypes
  <2> QED BY <2>3, <2>5, <2>6, <2>7 DEF DmTypes
<1>15. ASSUME NEW t \in DmTabs, CloseDmTab(t) PROVE DmTypes' /\ DmRight'
  <2>1. ClosedTab \in DmTab /\ ClosedTab.entered = {} /\ ClosedTab.dms = {} /\ ~ClosedTab.open /\ ~ClosedTab.up
    BY DEF ClosedTab, DmTab
  <2>2. /\ dmTabs' = [dmTabs EXCEPT ![t] = ClosedTab] /\ CutOff(t, {})
        /\ TakeDms(IF dmTabs[t].up THEN dmTabs[t].viewed ELSE {}) /\ lapsed' = (lapsed \/ dmTabs[t].up)
        /\ UNCHANGED <<dmsStored, said, persisted, leaving>>
    BY <1>15 DEF CloseDmTab
  <2>3. /\ Unheard(t)' = {} /\ \A o \in DmTabs \ {t} : Unheard(o)' = Unheard(o)
        /\ notices' \subseteq notices /\ dmAnswers' \subseteq dmAnswers /\ unseen' \in [DmTabs -> SUBSET Dms]
    BY <1>13, <2>2
  <2>4. dmTabs'[t] = ClosedTab /\ dmTabs' \in [DmTabs -> DmTab] /\ \A o \in DmTabs \ {t} : dmTabs'[o] = dmTabs[o]
    BY <2>1, <2>2 DEF DmTypes
  <2>5. ASSUME NEW o \in DmTabs, o # t
        PROVE  Members(o)' /\ Learns(o)'
    <3>1. Members(o) /\ Learns(o)
      BY <1>0
    <3>2. present \cup taken \subseteq present' \cup taken'
      BY <2>2 DEF TakeDms
    <3>3. dmTabs[o].entered \subseteq present' \cup taken'
      BY <3>1, <3>2 DEF Members
    <3> QED BY <2>2, <2>3, <2>4, <2>5, <3>1, <3>3 DEF Members, Learns
  <2>6. Members(t)' /\ Learns(t)'
    BY <2>1, <2>4 DEF Members, Learns
  <2>7. taken' \subseteq Dms /\ present' \subseteq Dms /\ lapsed' \in BOOLEAN
    <3>1. lapsed \in BOOLEAN /\ dmTabs[t].up \in BOOLEAN /\ taken \subseteq Dms /\ present \subseteq Dms
      BY <1>0 DEF DmTypes, DmTab
    <3>2. lapsed' \in BOOLEAN
      BY <2>2, <3>1
    <3> QED BY <2>2, <3>1, <3>2 DEF TakeDms
  <2> QED BY <2>2, <2>3, <2>4, <2>5, <2>6, <2>7 DEF DmTypes, DmRight
<1> QED BY <1>1, <1>2, <1>3, <1>4, <1>5, <1>6, <1>71, <1>72, <1>73, <1>74, <1>9, <1>10, <1>11, <1>12, <1>14, <1>15 DEF DmNext

\* DmRight holds with the types at every step of the direct messages.
LEMMA DmsStay == DmSpec => [](DmTypes /\ DmRight)
<1>1. DmInit => DmTypes /\ DmRight
  <2> SUFFICES ASSUME DmInit
               PROVE  DmTypes /\ DmRight
    OBVIOUS
  <2>1. ClosedTab \in DmTab /\ ClosedTab.entered = {} /\ ClosedTab.dms = {} /\ ~ClosedTab.open /\ ~ClosedTab.up
    BY DEF ClosedTab, DmTab
  <2>2. \A t \in DmTabs : dmTabs[t] = ClosedTab
    BY DEF DmInit
  <2>3. DmTypes
    BY <2>1 DEF DmInit, DmTypes
  <2> QED BY <2>1, <2>2, <2>3 DEF DmRight, Members, Learns
<1>2. DmTypes /\ DmRight /\ [DmNext]_dmVars => DmTypes' /\ DmRight'
  <2> SUFFICES ASSUME DmTypes, DmRight, UNCHANGED dmVars
               PROVE  DmTypes' /\ DmRight'
    BY DmRightKept
  <2>1. DmTypes'
    BY DEF DmTypes, dmVars
  <2> QED BY <2>1 DEF DmRight, Members, Learns, Unheard, dmVars
<1> QED BY <1>1, <1>2, PTL DEF DmSpec

\* For any tabs, rooms and faults: a connected tab that waits for nothing lists every
\* direct message in the database, and the user is a member of what it lists, but for
\* the rooms it could not learn of and those that a sweep or another tab has taken from
\* him and that nobody has joined since.
THEOREM DmsAreRight == DmSpec => []DmsReachTheUser
<1>1. DmTypes /\ DmRight => DmsReachTheUser
  <2> SUFFICES ASSUME DmTypes, DmRight
               PROVE  DmsAreListed /\ DmsAreJoined
    BY DEF DmsReachTheUser
  <2>1. DmsAreJoined
    BY DEF DmsAreJoined, DmRight, Members
  <2>2. ASSUME NEW t \in DmTabs, Quiet(t), ~\E n \in notices : n.tab = t
        PROVE  persisted \subseteq dmTabs[t].dms \cup unseen[t]
    <3>1. dmTabs[t].open /\ Learns(t)
      BY <2>2 DEF DmRight, Members, Quiet
    <3>2. Unheard(t) = unseen[t]
      BY <2>2 DEF Unheard, Quiet
    <3> QED BY <3>1, <3>2 DEF Learns, DmTypes
  <2> QED BY <2>1, <2>2 DEF DmsAreListed
<1> QED BY <1>1, DmsStay, PTL

-----------------------------------------------------------------------------
\* Every step leaves a budget.
LEMMA DmsLeftKept ==
  ASSUME dmsLeft \in [DmKinds -> Nat], [DmNext]_dmVars
  PROVE  dmsLeft' \in [DmKinds -> Nat]
<1>1. ASSUME NEW kind \in DmKinds, SpendDm(kind) PROVE dmsLeft' \in [DmKinds -> Nat]
  <2>1. dmsLeft[kind] \in Nat /\ dmsLeft[kind] > 0 /\ dmsLeft' = [dmsLeft EXCEPT ![kind] = @ - 1]
    BY <1>1 DEF SpendDm
  <2>2. dmsLeft[kind] - 1 \in Nat
    BY <2>1
  <2> QED BY <2>1, <2>2
<1>2. /\ "start" \in DmKinds /\ "peer" \in DmKinds /\ "say" \in DmKinds /\ "select" \in DmKinds
      /\ "close" \in DmKinds /\ "drop" \in DmKinds /\ "failure" \in DmKinds
  BY DEF DmKinds
<1>3. CASE PeerStarts \/ PeerWrites \/ DmPersisted \/ SweepUser \/ \E d \in leaving : UserTakenOut(d)
  <2>1. SpendDm("peer") \/ SpendDm("say") \/ dmsLeft' = dmsLeft
    BY <1>3 DEF PeerStarts, PeerWrites, DmPersisted, SweepUser, UserTakenOut
  <2> QED BY <1>1, <1>2, <2>1
<1>4. ASSUME NEW t \in DmTabs,
             \/ OpenDmTab(t) \/ DmTabConnects(t) \/ DmsRead(t) \/ StartDm(t) \/ SelectDm(t) \/ UserWrites(t)
             \/ DmLinkDrops(t) \/ CloseDmTab(t)
      PROVE  dmsLeft' \in [DmKinds -> Nat]
  <2>1. CASE OpenDmTab(t) \/ DmTabConnects(t)
    BY <2>1 DEF OpenDmTab, DmTabConnects, Connects
  <2>2. CASE DmsRead(t)
    <3>1. SpendDm("failure") \/ dmsLeft' = dmsLeft
      BY <2>2 DEF DmsRead
    <3> QED BY <1>1, <1>2, <3>1
  <2>3. CASE StartDm(t) \/ SelectDm(t) \/ UserWrites(t) \/ DmLinkDrops(t) \/ CloseDmTab(t)
    <3>1. SpendDm("start") \/ SpendDm("select") \/ SpendDm("say") \/ SpendDm("drop") \/ SpendDm("close")
      BY <2>3 DEF StartDm, SelectDm, UserWrites, DmLinkDrops, CloseDmTab
    <3> QED BY <1>1, <1>2, <3>1
  <2> QED BY <1>4, <2>1, <2>2, <2>3
<1>5. ASSUME NEW a \in dmAnswers, DmsListed(a) PROVE dmsLeft' \in [DmKinds -> Nat]
  BY <1>5 DEF DmsListed
<1>6. ASSUME NEW n \in notices, NoticeComes(n) \/ NoticeFails(n) PROVE dmsLeft' \in [DmKinds -> Nat]
  <2>1. SpendDm("failure") \/ dmsLeft' = dmsLeft
    BY <1>6 DEF NoticeComes, NoticeFails
  <2> QED BY <1>1, <1>2, <2>1
<1>7. CASE UNCHANGED dmVars
  BY <1>7 DEF dmVars
<1> QED BY <1>3, <1>4, <1>5, <1>6, <1>7 DEF DmNext

\* The types of the variables.
LEMMA DmTypesAre ==
  ASSUME DmTypes, dmsLeft \in [DmKinds -> Nat]
  PROVE  DmTypeOK
BY DEF DmTypes, DmTypeOK

\* Every variable of the direct messages has its type: the tabs of RoomManager.ts,
\* and what the services know of them.
THEOREM DmTypeCorrect == DmSpec => []DmTypeOK
<1> DEFINE Left == dmsLeft \in [DmKinds -> Nat]
<1>1. DmInit => Left
  BY CountedDms DEF DmInit
<1>2. Left /\ [DmNext]_dmVars => Left'
  BY DmsLeftKept
<1>3. DmTypes /\ Left => DmTypeOK
  BY DmTypesAre
<1> HIDE DEF Left
<1> QED BY <1>1, <1>2, <1>3, DmsStay, PTL DEF DmSpec

(***************************************************************************)
(* ClientSession.                                                          *)
(***************************************************************************)
\* What the proof needs of the types.
SessionTypes ==
  /\ clients \in [ClientIds -> Client] /\ now \in ClientIds
  /\ want \in AppState /\ seen \in AppState /\ pend \subseteq Privates /\ entered \subseteq Privates
  /\ checks \subseteq [of : ClientIds, room : Privates]

\* The clients before the one in use are those that were disposed of, and one of them
\* that still connects was replaced meanwhile.
Alive == \A c \in ClientIds : /\ clients[c].dead <=> c < now
                              /\ clients[c].dead /\ clients[c].connecting => c \in zombies
Fleet == Alive /\ SubscribedToJoined /\ ReplacedAreSilent

\* The App wants the client in use, and when it has committed it was told of its
\* connection; ChatRoom waits for answers on no other.
Linked ==
  /\ want.client = now /\ seen.client <= now
  /\ seen.client = now => want.connected = Up(now)
  /\ \A k \in checks : k.of = now

\* The default rooms have been joined, and the private ones that are not queued; who
\* was seen connected has begun to join, and has queued what he knew of.
JoinedOrNot == clients[now].joined \cup wasted
Begun ==
  /\ want.initial => Defaults \subseteq JoinedOrNot
  /\ entered \subseteq JoinedOrNot
  /\ seen.connected => want.initial
  /\ timer => seen.connected
  /\ ~relisted /\ seen.connected /\ seen.initial => seen.priv \subseteq entered \cup pend

SessionInv == SessionTypes /\ Fleet /\ Linked /\ Begun

\* A step of one client keeps the fleet.
LEMMA OneClient ==
  ASSUME SessionTypes, Fleet, NEW c \in ClientIds, NEW k \in Client, clients' = [clients EXCEPT ![c] = k],
         now' = now, zombies' = zombies,
         k.dead = clients[c].dead, k.connecting => clients[c].connecting \/ c = now,
         k.conn = "up" => k.subs = k.joined /\ k.deliver /\ k.heart,
         clients[c].dead => /\ k.joined = {} /\ k.subs = {}
                            /\ c \notin zombies => k.conn \in {"none", "closing"} /\ ~k.heart
  PROVE  Fleet' /\ clients' \in [ClientIds -> Client]
<1>1. clients'[c] = k /\ clients' \in [ClientIds -> Client] /\ \A d \in ClientIds \ {c} : clients'[d] = clients[d]
  BY DEF SessionTypes
<1>2. ASSUME NEW d \in ClientIds
      PROVE  /\ (clients'[d].dead <=> d < now) /\ (clients'[d].dead /\ clients'[d].connecting => d \in zombies)
             /\ Up(d)' => clients'[d].subs = clients'[d].joined /\ clients'[d].deliver /\ clients'[d].heart
             /\ clients'[d].dead => /\ clients'[d].joined = {} /\ clients'[d].subs = {}
                                    /\ d \notin zombies => clients'[d].conn \in {"none", "closing"} /\ ~clients'[d].heart
  <2>1. CASE d = c
    <3>1. (k.dead <=> c < now) /\ (k.dead /\ k.connecting => c \in zombies)
      BY DEF Fleet, Alive, SessionTypes, ClientIds
    <3> QED BY <1>1, <2>1, <3>1 DEF Up
  <2>2. CASE d # c
    BY <1>1, <2>2 DEF Fleet, Alive, SubscribedToJoined, ReplacedAreSilent, Up
  <2> QED BY <2>1, <2>2
<1> QED BY <1>1, <1>2 DEF Fleet, Alive, SubscribedToJoined, ReplacedAreSilent

\* Joining rooms changes of the client in use only what it has joined.
LEMMA Joins ==
  ASSUME SessionTypes, Fleet, NEW rooms \in SUBSET Rooms, NEW on \in BOOLEAN, Join(now, rooms, on), now' = now, zombies' = zombies
  PROVE  /\ Fleet' /\ clients' \in [ClientIds -> Client]
         /\ Up(now)' = Up(now) /\ JoinedOrNot \subseteq JoinedOrNot'
         /\ Up(now) \/ on => rooms \subseteq JoinedOrNot'
<1> DEFINE k == [clients[now] EXCEPT !.joined = @ \cup rooms, !.subs = @ \cup rooms]
<1>1. clients[now] \in Client /\ now \in ClientIds
  BY DEF SessionTypes
<1>2. k \in Client /\ k.conn = clients[now].conn /\ k.connecting = clients[now].connecting /\ k.dead = clients[now].dead
      /\ k.deliver = clients[now].deliver /\ k.heart = clients[now].heart
      /\ k.joined = clients[now].joined \cup rooms /\ k.subs = clients[now].subs \cup rooms
  BY <1>1 DEF Client
<1>3. ~clients[now].dead
  BY <1>1 DEF Fleet, Alive, ClientIds
<1>4. CASE Up(now)
  <2>1. clients' = [clients EXCEPT ![now] = k] /\ wasted' = wasted \ rooms
    BY <1>4 DEF Join
  <2>2. k.conn = "up" => k.subs = k.joined /\ k.deliver /\ k.heart
    BY <1>1, <1>2, <1>4 DEF Fleet, SubscribedToJoined
  <2> HIDE DEF k
  <2>3. Fleet' /\ clients' \in [ClientIds -> Client]
    BY <1>1, <1>2, <1>3, <2>1, <2>2, OneClient
  <2>4. clients'[now] = k
    BY <1>1, <2>1 DEF SessionTypes
  <2> QED BY <1>2, <2>1, <2>3, <2>4 DEF Up, JoinedOrNot
<1>5. CASE ~Up(now)
  <2>1. clients' = clients /\ wasted' = IF on THEN wasted \cup (rooms \ clients[now].joined) ELSE wasted
    BY <1>5 DEF Join
  <2>2. Fleet'
    BY <2>1 DEF Fleet, Alive, SubscribedToJoined, ReplacedAreSilent, Up
  <2> QED BY <1>5, <2>1, <2>2 DEF Up, JoinedOrNot, SessionTypes
<1> QED BY <1>4, <1>5
\* So does a step of one client's connection all the rest, when the App is told.
LEMMA OneWire ==
  ASSUME SessionInv, NEW c \in ClientIds, NEW k \in Client, clients' = [clients EXCEPT ![c] = k],
         UNCHANGED <<now, zombies, seen, relisted, pend, entered, timer, wasted>>, checks' \subseteq checks,
         k.joined = clients[c].joined, k.dead = clients[c].dead, k.connecting => clients[c].connecting \/ c = now,
         k.conn = "up" => k.subs = k.joined /\ k.deliver /\ k.heart,
         clients[c].dead => /\ k.subs = {}
                            /\ c \notin zombies => k.conn \in {"none", "closing"} /\ ~k.heart,
         Tell(c, k.conn = "up") \/ (want' = want /\ (k.conn = "up" <=> Up(c)))
  PROVE  SessionInv'
<1>0. SessionTypes /\ Fleet /\ Linked /\ Begun
  BY DEF SessionInv
<1>1. clients[c].dead => k.joined = {}
  BY <1>0 DEF Fleet, ReplacedAreSilent
<1>2. Fleet' /\ clients' \in [ClientIds -> Client]
  BY <1>0, <1>1, OneClient
<1>3. clients'[c] = k /\ \A d \in ClientIds \ {c} : clients'[d] = clients[d]
  BY <1>0 DEF SessionTypes
<1>4. clients'[now].joined = clients[now].joined
  BY <1>0, <1>3 DEF SessionTypes
<1>5. want' \in AppState /\ want'.client = want.client /\ want'.initial = want.initial /\ want'.priv = want.priv
  BY <1>0 DEF Tell, SessionTypes, AppState
<1>6. seen.client = now => want'.connected = (clients'[now].conn = "up")
  <2> SUFFICES ASSUME seen.client = now
               PROVE  want'.connected = (clients'[now].conn = "up")
    OBVIOUS
  <2>1. now \in ClientIds /\ ~clients[now].dead
    BY <1>0 DEF SessionTypes, Fleet, Alive, ClientIds
  <2>2. CASE c = now
    <3>1. Heard(c)
      BY <2>1, <2>2 DEF Heard
    <3>2. CASE Tell(c, k.conn = "up")
      <4>1. want' = [want EXCEPT !.connected = (k.conn = "up")]
        BY <3>1, <3>2 DEF Tell
      <4> QED BY <1>0, <1>3, <2>2, <4>1 DEF SessionTypes, AppState
    <3>3. CASE want' = want /\ (k.conn = "up" <=> Up(c))
      BY <1>0, <1>3, <2>2, <3>3 DEF Linked, Up
    <3> QED BY <3>2, <3>3
  <2>3. CASE c # now
    <3>1. ~Heard(c)
      BY <2>3 DEF Heard
    <3>2. want' = want
      BY <3>1 DEF Tell
    <3> QED BY <1>0, <1>3, <2>1, <2>3, <3>2 DEF Linked, Up
  <2> QED BY <2>2, <2>3
<1>7. SessionTypes'
  BY <1>0, <1>2, <1>5 DEF SessionTypes
<1>8. Linked'
  BY <1>0, <1>5, <1>6 DEF Linked, Up
<1>9. JoinedOrNot' = JoinedOrNot
  BY <1>4 DEF JoinedOrNot
<1>10. Begun'
  BY <1>0, <1>5, <1>9 DEF Begun
<1> QED BY <1>2, <1>7, <1>8, <1>10 DEF SessionInv

\* Every step of the network keeps the invariant.
LEMMA NetworkKeeps ==
  ASSUME SessionInv, NEW c \in ClientIds, Network(c) \/ (c = now /\ RetryTick)
  PROVE  SessionInv'
<1> USE DEF appVars
<1>0. /\ clients[c] \in Client
      /\ Up(c) => clients[c].subs = clients[c].joined /\ clients[c].deliver /\ clients[c].heart
      /\ clients[c].dead => /\ clients[c].joined = {} /\ clients[c].subs = {}
                            /\ clients[c].connecting => c \in zombies
                            /\ c \notin zombies => clients[c].conn \in {"none", "closing"} /\ ~clients[c].heart
  BY DEF SessionInv, SessionTypes, Fleet, Alive, SubscribedToJoined, ReplacedAreSilent
<1>1. CASE ConnectDone(c) \/ Reconnect(c)
  <2> DEFINE k == Wired(clients[c])
  <2>1. /\ k \in Client /\ k.joined = clients[c].joined /\ k.dead = clients[c].dead /\ ~k.connecting
        /\ k.conn = "up" /\ k.subs = k.joined /\ k.deliver /\ k.heart
    BY <1>0 DEF Client, Wired, Conn
  <2>2. clients[c].dead => k.subs = {} /\ c \in zombies
    BY <1>0, <1>1, <2>1 DEF ConnectDone, Reconnect
  <2>3. clients' = [clients EXCEPT ![c] = k] /\ UNCHANGED <<now, zombies, seen, relisted, pend, entered, timer, wasted, checks>>
        /\ Tell(c, TRUE)
    BY <1>1 DEF ConnectDone, Reconnect
  <2>4. (k.conn = "up") = TRUE
    BY <2>1
  <2>5. Tell(c, k.conn = "up")
    BY <2>3, <2>4
  <2> HIDE DEF k
  <2> QED BY <2>1, <2>2, <2>3, <2>5, OneWire
<1>2. CASE ConnectFails(c)
  <2> DEFINE k == [clients[c] EXCEPT !.connecting = FALSE]
  <2>1. /\ k \in Client /\ k.joined = clients[c].joined /\ k.dead = clients[c].dead /\ ~k.connecting /\ k.conn = clients[c].conn
        /\ k.subs = clients[c].subs /\ k.deliver = clients[c].deliver /\ k.heart = clients[c].heart
    BY <1>0 DEF Client
  <2>2. clients' = [clients EXCEPT ![c] = k] /\ UNCHANGED <<now, zombies, want, seen, relisted, pend, entered, timer, wasted, checks>>
    BY <1>2 DEF ConnectFails
  <2> HIDE DEF k
  <2> QED BY <1>0, <2>1, <2>2, OneWire DEF Up
<1>3. CASE c = now /\ RetryTick
  <2> DEFINE k == [clients[c] EXCEPT !.connecting = TRUE]
  <2>1. /\ k \in Client /\ k.joined = clients[c].joined /\ k.dead = clients[c].dead /\ k.conn = clients[c].conn
        /\ k.subs = clients[c].subs /\ k.deliver = clients[c].deliver /\ k.heart = clients[c].heart
    BY <1>0 DEF Client
  <2>2. clients' = [clients EXCEPT ![c] = k] /\ UNCHANGED <<now, zombies, want, seen, relisted, pend, entered, timer, wasted, checks>>
    BY <1>3 DEF RetryTick
  <2> HIDE DEF k
  <2> QED BY <1>0, <1>3, <2>1, <2>2, OneWire DEF Up
<1>4. CASE LinkDrops(c)
  <2> DEFINE k == [clients[c] EXCEPT !.conn = "lost", !.heart = FALSE]
  <2>1. /\ k \in Client /\ k.joined = clients[c].joined /\ k.dead = clients[c].dead /\ k.connecting = clients[c].connecting
        /\ k.conn = "lost" /\ k.subs = clients[c].subs
    BY <1>0 DEF Client, Conn
  <2>2. clients' = [clients EXCEPT ![c] = k] /\ UNCHANGED <<now, zombies, seen, relisted, pend, entered, timer, wasted, checks>>
        /\ Tell(c, FALSE) /\ clients[c].conn = "up"
    BY <1>4 DEF LinkDrops, Up
  <2>3. (k.conn = "up") = FALSE
    BY <2>1
  <2>4. Tell(c, k.conn = "up")
    BY <2>2, <2>3
  <2> HIDE DEF k
  <2> QED BY <1>0, <2>1, <2>2, <2>4, OneWire
<1>5. CASE ConnClosed(c)
  <2> DEFINE k == [clients[c] EXCEPT !.conn = "none", !.subs = {}, !.deliver = FALSE, !.heart = FALSE]
  <2>1. /\ k \in Client /\ k.joined = clients[c].joined /\ k.dead = clients[c].dead /\ k.connecting = clients[c].connecting
        /\ k.conn = "none" /\ k.subs = {} /\ ~k.heart
    BY <1>0 DEF Client, Conn
  <2>2. clients' = [clients EXCEPT ![c] = k] /\ UNCHANGED <<now, zombies, seen, relisted, pend, entered, timer, wasted>>
        /\ Tell(c, FALSE) /\ checks' \subseteq checks
    BY <1>5 DEF ConnClosed, Unchecked
  <2>3. (k.conn = "up") = FALSE
    BY <2>1
  <2>4. Tell(c, k.conn = "up")
    BY <2>2, <2>3
  <2> HIDE DEF k
  <2> QED BY <1>0, <2>1, <2>2, <2>4, OneWire
<1>6. CASE Drained(c)
  <2> DEFINE k == [clients[c] EXCEPT !.conn = "none"]
  <2>1. /\ k \in Client /\ k.joined = clients[c].joined /\ k.dead = clients[c].dead /\ k.connecting = clients[c].connecting
        /\ k.conn = "none" /\ k.subs = clients[c].subs /\ k.heart = clients[c].heart
    BY <1>0 DEF Client, Conn
  <2>2. clients' = [clients EXCEPT ![c] = k] /\ UNCHANGED <<now, zombies, want, seen, relisted, pend, entered, timer, wasted, checks>>
        /\ clients[c].conn = "closing"
    BY <1>6 DEF Drained
  <2> HIDE DEF k
  <2> QED BY <1>0, <2>1, <2>2, OneWire DEF Up
<1> QED BY <1>1, <1>2, <1>3, <1>4, <1>5, <1>6 DEF Network
\* The client in use is new when the token is, and what the other had joined is wasted.
LEMMA TokenKeeps ==
  ASSUME SessionInv, NewToken
  PROVE  SessionInv'
<1> DEFINE old == Disposed(clients[now])
           new == [NewClient EXCEPT !.connecting = TRUE]
<1>0. SessionTypes /\ Fleet /\ Linked /\ Begun
  BY DEF SessionInv
<1>1. now \in ClientIds /\ now + 1 \in ClientIds /\ now + 1 # now /\ clients[now] \in Client
  BY <1>0, SessionParameters DEF SessionTypes, ClientIds, NewToken
<1>2. /\ old \in Client /\ old.dead /\ old.joined = {} /\ old.subs = {} /\ ~old.deliver /\ ~old.heart
      /\ old.connecting = clients[now].connecting /\ old.conn \in {"none", "closing"}
  BY <1>1 DEF Client, Disposed, Conn
<1>3. /\ new \in Client /\ ~new.dead /\ new.joined = {} /\ new.conn = "none"
  BY DEF NewClient, Client, Conn
<1>4. /\ clients' = [clients EXCEPT ![now] = old, ![now + 1] = new] /\ now' = now + 1
      /\ want' = [want EXCEPT !.client = now + 1] /\ wasted' = wasted \cup clients[now].joined \cup pend
      /\ checks' = {k \in checks : k.of # now}
      /\ UNCHANGED <<seen, relisted, pend, entered, timer>>
      /\ zombies' = IF clients[now].connecting THEN zombies \cup {now} ELSE zombies
  BY DEF NewToken, Unchecked
<1> HIDE DEF old, new
<1>5. /\ clients' \in [ClientIds -> Client] /\ clients'[now] = old /\ clients'[now + 1] = new
      /\ \A d \in ClientIds \ {now, now + 1} : clients'[d] = clients[d]
  BY <1>0, <1>1, <1>2, <1>3, <1>4 DEF SessionTypes
<1>6. ASSUME NEW d \in ClientIds
      PROVE  /\ (clients'[d].dead <=> d < now + 1) /\ (clients'[d].dead /\ clients'[d].connecting => d \in zombies')
             /\ clients'[d].conn = "up" => clients'[d].subs = clients'[d].joined /\ clients'[d].deliver /\ clients'[d].heart
             /\ clients'[d].dead => /\ clients'[d].joined = {} /\ clients'[d].subs = {}
                                    /\ d \notin zombies' => clients'[d].conn \in {"none", "closing"} /\ ~clients'[d].heart
  <2>1. CASE d = now
    <3>1. now < now + 1 /\ (old.connecting => now \in zombies')
      BY <1>1, <1>2, <1>4 DEF ClientIds
    <3> QED BY <1>2, <1>5, <2>1, <3>1
  <2>2. CASE d = now + 1
    BY <1>1, <1>3, <1>5, <2>2 DEF ClientIds
  <2>3. CASE d \notin {now, now + 1}
    <3>1. clients'[d] = clients[d] /\ (d < now + 1 <=> d < now) /\ zombies \subseteq zombies'
      BY <1>1, <1>4, <1>5, <2>3 DEF ClientIds
    <3>2. /\ (clients[d].dead <=> d < now) /\ (clients[d].dead /\ clients[d].connecting => d \in zombies)
          /\ clients[d].conn = "up" => clients[d].subs = clients[d].joined /\ clients[d].deliver /\ clients[d].heart
          /\ clients[d].dead => /\ clients[d].joined = {} /\ clients[d].subs = {}
                                /\ d \notin zombies => clients[d].conn \in {"none", "closing"} /\ ~clients[d].heart
      BY <1>0 DEF Fleet, Alive, SubscribedToJoined, ReplacedAreSilent, Up
    <3> QED BY <3>1, <3>2
  <2> QED BY <2>1, <2>2, <2>3
<1>7. Fleet'
  BY <1>4, <1>6 DEF Fleet, Alive, SubscribedToJoined, ReplacedAreSilent, Up
<1>8. SessionTypes'
  BY <1>0, <1>1, <1>4, <1>5 DEF SessionTypes, AppState
<1>9. Linked'
  <2>1. want'.client = now' /\ seen'.client < now'
    BY <1>0, <1>1, <1>4 DEF Linked, SessionTypes, AppState, ClientIds
  <2>2. \A k \in checks' : k.of = now'
    BY <1>0, <1>4 DEF Linked
  <2>3. seen'.client <= now' /\ seen'.client # now'
    BY <1>0, <1>1, <1>4, <2>1 DEF SessionTypes, AppState, ClientIds
  <2> QED BY <2>1, <2>2, <2>3 DEF Linked
<1>10. JoinedOrNot \subseteq JoinedOrNot'
  BY <1>4 DEF JoinedOrNot
<1>11. want'.initial = want.initial
  BY <1>0, <1>4 DEF SessionTypes, AppState
<1>12. Begun'
  BY <1>0, <1>4, <1>10, <1>11 DEF Begun
<1> QED BY <1>7, <1>8, <1>9, <1>12 DEF SessionInv

\* A commit joins the default rooms, once, and queues the others; it is told of the
\* connection of a new client.
LEMMA RenderKeeps ==
  ASSUME SessionInv, Render
  PROVE  SessionInv'
<1> DEFINE on == want.connected
           turned == now # seen.client \/ on # seen.connected
           first == turned /\ Begins
           begun == on /\ want.initial
           queue == IF begun THEN want.priv \ (entered \cup pend) ELSE {}
           told == IF now # seen.client THEN Up(now) ELSE want.connected
           rooms == (IF turned THEN Entering(now, active) ELSE {}) \cup (IF first THEN Defaults ELSE {})
<1>0. SessionTypes /\ Fleet /\ Linked /\ Begun /\ want.client = now
  BY DEF SessionInv, Linked
<1>1. /\ seen' = want /\ ~relisted'
      /\ want' = [want EXCEPT !.connected = told, !.initial = @ \/ first]
      /\ Join(now, rooms, on) /\ pend' = pend \cup queue
      /\ timer' = (queue # {} \/ (timer /\ on))
      /\ checks' = checks \cup (IF turned THEN Checking(now, active) ELSE {})
      /\ UNCHANGED <<now, zombies, entered>>
  BY <1>0 DEF Render, Commit
<1>2. /\ Defaults \subseteq rooms \/ ~first
      /\ rooms \in SUBSET Rooms /\ on \in BOOLEAN /\ first \in BOOLEAN /\ queue \subseteq Privates
  BY <1>0 DEF Rooms, Entering, SessionTypes, AppState
<1>3. told = Up(now)
  BY <1>0 DEF Linked
<1>4. first => on
  BY DEF Begins
<1>5. on => want.initial \/ first
  BY <1>0 DEF Begins, Begun
<1>6. ~(on /\ want.initial) \/ want.priv \subseteq entered \cup (pend \cup queue)
  OBVIOUS
<1>7. queue # {} => on
  OBVIOUS
<1>8. \A k \in checks' : k.of = now /\ k \in [of : ClientIds, room : Privates]
  BY <1>0, <1>1 DEF Checking, Linked, SessionTypes
<1> HIDE DEF on, turned, first, begun, queue, told, rooms
<1>9. Fleet' /\ clients' \in [ClientIds -> Client] /\ Up(now)' = Up(now) /\ JoinedOrNot \subseteq JoinedOrNot'
      /\ (Up(now) \/ on => rooms \subseteq JoinedOrNot')
  BY <1>0, <1>1, <1>2, Joins
<1>10. /\ want' \in AppState /\ want'.client = now /\ want'.connected = told /\ want'.initial = (want.initial \/ first)
  <2>1. told \in BOOLEAN /\ (want.initial \/ first) \in BOOLEAN
    BY <1>0, <1>2, <1>3 DEF Up
  <2> QED BY <1>0, <1>1, <2>1 DEF SessionTypes, AppState
<1>11. SessionTypes'
  BY <1>0, <1>1, <1>2, <1>8, <1>9, <1>10 DEF SessionTypes
<1>12. Linked'
  <2>1. now <= now /\ now' = now
    BY <1>0, <1>1 DEF SessionTypes, ClientIds
  <2>2. want'.connected = Up(now)'
    BY <1>3, <1>9, <1>10
  <2> QED BY <1>0, <1>1, <1>8, <1>10, <2>1, <2>2 DEF Linked, Up
<1>13. Begun'
  <2>1. want'.initial => Defaults \subseteq JoinedOrNot'
    BY <1>0, <1>2, <1>4, <1>9, <1>10 DEF Begun
  <2>2. entered' \subseteq JoinedOrNot'
    BY <1>0, <1>1, <1>9 DEF Begun
  <2>3. seen'.connected => want'.initial
    BY <1>1, <1>5, <1>10 DEF on
  <2>4. timer' => seen'.connected
    BY <1>1, <1>7 DEF on
  <2>5. seen'.connected /\ seen'.initial => seen'.priv \subseteq entered' \cup pend'
    BY <1>1, <1>6 DEF on
  <2> QED BY <2>1, <2>2, <2>3, <2>4, <2>5 DEF Begun
<1> QED BY <1>9, <1>11, <1>12, <1>13 DEF SessionInv
\* What the App does between two commits.
LEMMA OneClick ==
  ASSUME SessionInv, NEW rooms \in SUBSET Rooms, NEW on \in BOOLEAN,
         Join(now, rooms, on) \/ UNCHANGED <<clients, wasted>>, UNCHANGED <<now, zombies, seen>>,
         want' \in AppState, want'.client = want.client, want'.connected = want.connected, want'.initial = want.initial,
         pend' \subseteq Privates, entered' \subseteq Privates, checks' \subseteq [of : ClientIds, room : Privates],
         \A k \in checks' : k.of = now, timer' => timer,
         entered' \subseteq entered \/ (entered' \subseteq entered \cup rooms /\ (Up(now) \/ on) /\ Join(now, rooms, on)),
         relisted' \/ (relisted' = relisted /\ entered \cup pend \subseteq entered' \cup pend')
  PROVE  SessionInv'
<1>0. SessionTypes /\ Fleet /\ Linked /\ Begun
  BY DEF SessionInv
<1>1. Fleet' /\ clients' \in [ClientIds -> Client] /\ Up(now)' = Up(now) /\ JoinedOrNot \subseteq JoinedOrNot'
  <2>1. CASE Join(now, rooms, on)
    BY <1>0, <2>1, Joins
  <2>2. CASE UNCHANGED <<clients, wasted>>
    BY <1>0, <2>2 DEF SessionTypes, Fleet, Alive, SubscribedToJoined, ReplacedAreSilent, Up, JoinedOrNot
  <2> QED BY <2>1, <2>2
<1>2. entered' \subseteq JoinedOrNot'
  <2>1. CASE entered' \subseteq entered
    BY <1>0, <1>1, <2>1 DEF Begun
  <2>2. CASE entered' \subseteq entered \cup rooms /\ (Up(now) \/ on) /\ Join(now, rooms, on)
    <3>1. Up(now) \/ on => rooms \subseteq JoinedOrNot'
      BY <1>0, <2>2, Joins
    <3> QED BY <1>0, <1>1, <2>2, <3>1 DEF Begun
  <2> QED BY <2>1, <2>2
<1>3. SessionTypes'
  BY <1>0, <1>1 DEF SessionTypes
<1>4. Linked'
  BY <1>0, <1>1 DEF Linked, Up
<1>5. Begun'
  <2>1. want'.initial => Defaults \subseteq JoinedOrNot'
    BY <1>0, <1>1 DEF Begun
  <2>2. (seen'.connected => want'.initial) /\ (timer' => seen'.connected)
    BY <1>0 DEF Begun
  <2>3. ~relisted' /\ seen'.connected /\ seen'.initial => seen'.priv \subseteq entered' \cup pend'
    BY <1>0 DEF Begun
  <2> QED BY <1>2, <2>1, <2>2, <2>3 DEF Begun
<1> QED BY <1>1, <1>3, <1>4, <1>5 DEF SessionInv

\* A batch joins what is queued, and the answer to room.info its room.
LEMMA BatchKeeps ==
  ASSUME SessionInv, RunBatch \/ \E k \in checks : CheckEnds(k)
  PROVE  SessionInv'
<1>0. SessionTypes /\ Linked /\ Begun
  BY DEF SessionInv
<1>1. CASE RunBatch
  <2>1. seen.client = now /\ seen.connected /\ pend \in SUBSET Rooms
    BY <1>0, <1>1 DEF RunBatch, Committed, Begun, SessionTypes, Rooms
  <2>2. /\ Join(now, pend, TRUE) /\ ~timer' /\ entered' = entered \cup pend /\ pend' = {}
        /\ UNCHANGED <<now, zombies, want, seen, relisted, checks>>
    <3>1. seen.connected = TRUE
      BY <1>0, <2>1 DEF SessionTypes, AppState
    <3> QED BY <1>1, <2>1, <3>1 DEF RunBatch
  <2>3. want' \in AppState /\ checks' \subseteq [of : ClientIds, room : Privates] /\ pend' \subseteq Privates /\ entered' \subseteq Privates
        /\ \A k \in checks' : k.of = now
    BY <1>0, <2>2 DEF SessionTypes, Linked
  <2> QED BY <2>1, <2>2, <2>3, OneClick
<1>2. ASSUME NEW k \in checks, CheckEnds(k)
      PROVE  SessionInv'
  <2>1. k.of = now /\ {k.room} \in SUBSET Rooms
    BY <1>0 DEF Linked, SessionTypes, Rooms
  <2>2. /\ Join(now, {k.room}, TRUE) /\ checks' \subseteq checks
        /\ UNCHANGED <<now, zombies, want, seen, relisted, pend, entered, timer>>
    <3>1. (k.of = now) = TRUE
      BY <2>1
    <3> QED BY <1>2, <2>1, <3>1 DEF CheckEnds
  <2>3. want' \in AppState /\ checks' \subseteq [of : ClientIds, room : Privates] /\ pend' \subseteq Privates /\ entered' \subseteq Privates
        /\ \A q \in checks' : q.of = now
    BY <1>0, <2>2 DEF SessionTypes, Linked
  <2> QED BY <2>1, <2>2, <2>3, OneClick
<1> QED BY <1>1, <1>2

\* A click looks at a room, and may change the list of rooms.
LEMMA ClickKeeps ==
  ASSUME SessionInv, (\E r \in Rooms : Select(r)) \/ (\E r \in Privates : Create(r) \/ Removed(r))
  PROVE  SessionInv'
<1>0. SessionTypes /\ Linked /\ Begun
  BY DEF SessionInv
<1>1. ASSUME NEW r \in Rooms, Committed
      PROVE  /\ seen.client = now /\ Entering(now, r) \in SUBSET Rooms
             /\ \A k \in Checking(now, r) : k \in [of : ClientIds, room : Privates] /\ k.of = now
  BY <1>0, <1>1 DEF Committed, Entering, Checking, Rooms, SessionTypes
<1>2. ASSUME NEW r \in Rooms, Select(r)
      PROVE  SessionInv'
  <2>1. /\ Join(now, Entering(now, r), TRUE) /\ checks' = checks \cup Checking(now, r)
        /\ UNCHANGED <<now, zombies, want, seen, relisted, pend, entered, timer>>
    BY <1>1, <1>2 DEF Select, Look
  <2>2. Entering(now, r) \in SUBSET Rooms /\ \A k \in Checking(now, r) : k \in [of : ClientIds, room : Privates] /\ k.of = now
    BY <1>1, <1>2 DEF Select
  <2>3. want' \in AppState /\ checks' \subseteq [of : ClientIds, room : Privates] /\ pend' \subseteq Privates /\ entered' \subseteq Privates
        /\ \A k \in checks' : k.of = now
    BY <1>0, <2>1, <2>2 DEF SessionTypes, Linked
  <2> QED BY <2>1, <2>2, <2>3, OneClick
<1>3. ASSUME NEW r \in Privates, Create(r)
      PROVE  SessionInv'
  <2>0. r \in Rooms
    BY DEF Rooms
  <2>1. /\ Join(now, Entering(now, r), TRUE) /\ checks' = checks \cup Checking(now, r)
        /\ want' = [want EXCEPT !.priv = want.priv \cup {r}] /\ relisted'
        /\ UNCHANGED <<now, zombies, seen, pend, entered, timer>>
    BY <1>1, <1>3, <2>0 DEF Create, Look, Relist
  <2>2. Entering(now, r) \in SUBSET Rooms /\ \A k \in Checking(now, r) : k \in [of : ClientIds, room : Privates] /\ k.of = now
    BY <1>1, <1>3, <2>0 DEF Create
  <2>3. /\ want' \in AppState /\ want'.client = want.client /\ want'.connected = want.connected /\ want'.initial = want.initial
    BY <1>0, <2>1 DEF SessionTypes, AppState
  <2>4. checks' \subseteq [of : ClientIds, room : Privates] /\ pend' \subseteq Privates /\ entered' \subseteq Privates
        /\ \A k \in checks' : k.of = now
    BY <1>0, <2>1, <2>2 DEF SessionTypes, Linked
  <2> QED BY <2>1, <2>2, <2>3, <2>4, OneClick
<1>4. ASSUME NEW r \in Privates, Removed(r)
      PROVE  SessionInv'
  <2>0. Home \in Rooms
    BY SessionParameters DEF Rooms
  <2>1. /\ Join(now, Entering(now, Home), TRUE) \/ UNCHANGED <<clients, wasted>>
        /\ checks' \subseteq checks /\ pend' \subseteq pend /\ entered' \subseteq entered
        /\ want' = [want EXCEPT !.priv = want.priv \ {r}] /\ relisted'
        /\ UNCHANGED <<now, zombies, seen, timer>>
    BY <1>1, <1>4, <2>0 DEF Removed, Relist
  <2>2. Entering(now, Home) \in SUBSET Rooms
    BY <1>1, <1>4, <2>0 DEF Removed
  <2>3. /\ want' \in AppState /\ want'.client = want.client /\ want'.connected = want.connected /\ want'.initial = want.initial
    BY <1>0, <2>1 DEF SessionTypes, AppState
  <2>4. checks' \subseteq [of : ClientIds, room : Privates] /\ pend' \subseteq Privates /\ entered' \subseteq Privates
        /\ \A k \in checks' : k.of = now
    BY <1>0, <2>1 DEF SessionTypes, Linked
  <2> QED BY <2>1, <2>2, <2>3, <2>4, OneClick
<1> QED BY <1>2, <1>3, <1>4
\* Lists hold private rooms, as the server does.
Lists == member \subseteq Privates /\ lists \subseteq [of : ClientIds, read : BOOLEAN, rooms : SUBSET Privates]
LEMMA ListsKept ==
  ASSUME SessionTypes, Lists, SessionNext
  PROVE  Lists'
<1>1. CASE (\E c \in ClientIds : Network(c)) \/ RetryTick \/ NewToken \/ RunBatch
  BY <1>1 DEF Network, ConnectDone, ConnectFails, LinkDrops, Reconnect, ConnClosed, Drained, RetryTick, NewToken, RunBatch,
              Unchecked, appVars, Lists
<1>2. CASE (\E r \in Rooms : Select(r)) \/ (\E r \in Privates : Create(r) \/ Removed(r)) \/ \E k \in checks : CheckEnds(k)
  <2>1. CASE \E r \in Rooms : Select(r)
    BY <2>1 DEF Select, Lists
  <2>2. CASE \E r \in Privates : Create(r)
    BY <2>2 DEF Create, Lists
  <2>3. CASE \E r \in Privates : Removed(r)
    BY <2>3 DEF Removed, Lists
  <2>4. CASE \E k \in checks : CheckEnds(k)
    BY <2>4 DEF CheckEnds, Lists
  <2> QED BY <1>2, <2>1, <2>2, <2>3, <2>4
<1>3. CASE Render
  <2>1. member' = member /\ lists' \subseteq lists \cup {[of |-> want.client, read |-> FALSE, rooms |-> {}]}
    BY <1>3 DEF Render, Commit
  <2>2. want.client \in ClientIds
    BY DEF SessionTypes, AppState
  <2>3. [of |-> want.client, read |-> FALSE, rooms |-> {}] \in [of : ClientIds, read : BOOLEAN, rooms : SUBSET Privates]
    BY <2>2
  <2> QED BY <2>1, <2>3 DEF Lists
<1>4. ASSUME NEW l \in lists, ListRead(l) \/ ListArrives(l) \/ ListFails(l)
      PROVE  Lists'
  <2>1. member' = member /\ lists' \subseteq lists \cup {[l EXCEPT !.read = TRUE, !.rooms = member]}
    BY <1>4 DEF ListRead, ListArrives, ListFails
  <2>2. [l EXCEPT !.read = TRUE, !.rooms = member] \in [of : ClientIds, read : BOOLEAN, rooms : SUBSET Privates]
    BY DEF Lists
  <2> QED BY <2>1, <2>2 DEF Lists
<1> QED BY <1>1, <1>2, <1>3, <1>4 DEF SessionNext

\* An answer, or a failure, replaces the App's list.
LEMMA ListKeeps ==
  ASSUME SessionInv, Lists, NEW l \in lists, ListRead(l) \/ ListArrives(l) \/ ListFails(l)
  PROVE  SessionInv'
<1>0. SessionTypes /\ Linked
  BY DEF SessionInv
<1>1. PICK rooms \in SUBSET Privates :
        /\ (want' = want /\ relisted' = relisted) \/ (want' = [want EXCEPT !.priv = rooms] /\ relisted')
        /\ UNCHANGED <<clients, wasted, now, zombies, seen, pend, entered, timer, checks>>
  <2>1. CASE ListRead(l)
    BY <2>1 DEF ListRead
  <2>2. CASE ListArrives(l)
    BY <2>2 DEF ListArrives, Relist, Lists
  <2>3. CASE ListFails(l)
    <3>1. /\ want' = [want EXCEPT !.priv = {}] /\ relisted'
          /\ UNCHANGED <<clients, wasted, now, zombies, seen, pend, entered, timer, checks>>
      BY <2>3 DEF ListFails, Relist
    <3>2. {} \in SUBSET Privates
      OBVIOUS
    <3> QED BY <3>1, <3>2
  <2> QED BY <2>1, <2>2, <2>3
<1>2. want' \in AppState /\ want'.client = want.client /\ want'.connected = want.connected /\ want'.initial = want.initial
  BY <1>0, <1>1 DEF SessionTypes, AppState
<1>3. /\ pend' \subseteq Privates /\ entered' \subseteq Privates /\ checks' \subseteq [of : ClientIds, room : Privates]
      /\ \A k \in checks' : k.of = now
  BY <1>0, <1>1 DEF SessionTypes, Linked
<1>4. {} \in SUBSET Rooms /\ TRUE \in BOOLEAN
  OBVIOUS
<1> QED BY <1>1, <1>2, <1>3, <1>4, OneClick

LEMMA SessionInvKept ==
  SessionInv /\ Lists /\ [SessionNext]_sessionVars => SessionInv' /\ Lists'
<1> SUFFICES ASSUME SessionInv, Lists, [SessionNext]_sessionVars
             PROVE  SessionInv' /\ Lists'
  OBVIOUS
<1>1. CASE SessionNext
  <2>1. Lists'
    BY <1>1, ListsKept DEF SessionInv
  <2>2. CASE (\E c \in ClientIds : Network(c)) \/ RetryTick
    <3>1. now \in ClientIds
      BY DEF SessionInv, SessionTypes
    <3> QED BY <2>1, <2>2, <3>1, NetworkKeeps
  <2>3. CASE NewToken \/ Render
    BY <2>1, <2>3, TokenKeeps, RenderKeeps
  <2>4. CASE RunBatch \/ \E k \in checks : CheckEnds(k)
    BY <2>1, <2>4, BatchKeeps
  <2>5. CASE (\E r \in Rooms : Select(r)) \/ (\E r \in Privates : Create(r) \/ Removed(r))
    BY <2>1, <2>5, ClickKeeps
  <2>6. CASE \E l \in lists : ListRead(l) \/ ListArrives(l) \/ ListFails(l)
    BY <2>1, <2>6, ListKeeps
  <2> QED BY <1>1, <2>2, <2>3, <2>4, <2>5, <2>6 DEF SessionNext
<1>2. CASE UNCHANGED sessionVars
  BY <1>2 DEF sessionVars, SessionInv, SessionTypes, Fleet, Alive, SubscribedToJoined, ReplacedAreSilent, Up, Linked, Begun,
              JoinedOrNot, Lists
<1> QED BY <1>1, <1>2

\* A tab starts with one client that connects, and has joined nothing.
LEMMA SessionStarts ==
  SessionInit => SessionInv /\ Lists
<1> SUFFICES ASSUME SessionInit
             PROVE  SessionInv /\ Lists
  OBVIOUS
<1> DEFINE k(c) == [NewClient EXCEPT !.connecting = (c = 1)]
<1>0. 1 \in ClientIds /\ now = 1
  BY SessionParameters DEF SessionInit, ClientIds
<1>1. \A c \in ClientIds : /\ k(c) \in Client /\ ~k(c).dead /\ k(c).conn = "none"
  BY DEF NewClient, Client, Conn
<1>2. clients = [c \in ClientIds |-> k(c)]
  BY DEF SessionInit
<1> HIDE DEF k
<1>3. clients \in [ClientIds -> Client] /\ \A c \in ClientIds : ~clients[c].dead /\ clients[c].conn = "none"
  BY <1>1, <1>2
<1>4. Fleet
  BY <1>0, <1>3 DEF Fleet, Alive, SubscribedToJoined, ReplacedAreSilent, Up, ClientIds
<1>5. PICK cached \in SUBSET Privates : seen = [client |-> 1, connected |-> FALSE, initial |-> FALSE, priv |-> cached]
  BY DEF SessionInit
<1>6. seen \in AppState /\ seen.client = 1 /\ ~seen.connected /\ ~seen.initial /\ want = seen
  BY <1>0, <1>5 DEF AppState, SessionInit
<1>7. seen.connected = FALSE
  BY <1>5
<1>8. SessionTypes /\ Lists
  BY <1>0, <1>3, <1>6 DEF SessionTypes, SessionInit, Lists
<1>9. Linked
  <2>1. Up(now) = FALSE
    BY <1>0, <1>3 DEF Up
  <2>2. checks = {} /\ 1 <= 1
    BY DEF SessionInit
  <2> QED BY <1>0, <1>6, <1>7, <2>1, <2>2 DEF Linked
<1>10. Begun
  BY <1>6 DEF Begun, SessionInit
<1> QED BY <1>4, <1>8, <1>9, <1>10 DEF SessionInv

\* The session of a tab settles: what the client has joined it is subscribed to, and
\* at rest it has joined the rooms the App knows, but for the joins that were wasted; a
\* replaced client is silent, unless it was replaced while it connected; and what the
\* App has committed of the connection is so (ConnectionManager.ts, ChatClient.ts,
\* NatsChatProvider.tsx, App.tsx).
THEOREM SettlesDown == SessionSpec => []SessionSettles
<1>1. SessionInv => SessionSettles
  <2> SUFFICES ASSUME SessionInv
               PROVE  SessionSettles
    OBVIOUS
  <2>1. SessionTypes /\ Fleet /\ Linked /\ Begun
    BY DEF SessionInv
  <2>2. AppKnowsLink
    BY <2>1 DEF Linked, AppKnowsLink
  <2>3. KnownRoomsJoined
    <3> SUFFICES ASSUME SessionAtRest
                 PROVE  Defaults \cup seen.priv \subseteq JoinedOrNot \cup pend
      BY DEF KnownRoomsJoined, JoinedOrNot
    <3>1. want = seen /\ ~relisted /\ Up(now) /\ seen.client = now
      BY <2>1 DEF SessionAtRest, Linked
    <3>2. seen.connected /\ seen.initial
      BY <2>1, <3>1 DEF Linked, Begun
    <3> QED BY <2>1, <3>1, <3>2 DEF Begun
  <2> QED BY <2>1, <2>2, <2>3 DEF SessionSettles, Fleet
<1> QED BY <1>1, SessionStarts, SessionInvKept, PTL DEF SessionSpec

-----------------------------------------------------------------------------
\* The rest of the types.
SessionRest ==
  /\ zombies \subseteq ClientIds /\ waiting \in BOOLEAN /\ timer \in BOOLEAN /\ relisted \in BOOLEAN
  /\ active \in Rooms /\ wasted \subseteq Rooms /\ sessionLeft \in [SessionKinds -> Nat]

\* Every step keeps them.
LEMMA SessionRestKept ==
  ASSUME SessionTypes, Lists, SessionRest, [SessionNext]_sessionVars
  PROVE  SessionRest'
<1>0. /\ zombies \subseteq ClientIds /\ waiting \in BOOLEAN /\ timer \in BOOLEAN /\ relisted \in BOOLEAN
      /\ active \in Rooms /\ wasted \subseteq Rooms /\ sessionLeft \in [SessionKinds -> Nat] /\ Home \in Rooms
  BY SessionParameters DEF SessionRest, Rooms
<1>1. ASSUME NEW kind \in SessionKinds, Spend(kind) PROVE sessionLeft' \in [SessionKinds -> Nat]
  <2>1. sessionLeft[kind] \in Nat /\ sessionLeft[kind] > 0 /\ sessionLeft' = [sessionLeft EXCEPT ![kind] = @ - 1]
    BY <1>0, <1>1 DEF Spend
  <2>2. sessionLeft[kind] - 1 \in Nat
    BY <2>1
  <2> QED BY <1>0, <2>1, <2>2
<1>2. /\ "token" \in SessionKinds /\ "drop" \in SessionKinds /\ "close" \in SessionKinds /\ "failure" \in SessionKinds
      /\ "select" \in SessionKinds /\ "create" \in SessionKinds /\ "removal" \in SessionKinds
  BY DEF SessionKinds
<1>3. /\ \A c \in ClientIds : clients[c].joined \subseteq Rooms
      /\ now \in ClientIds /\ pend \subseteq Privates /\ Privates \subseteq Rooms /\ Defaults \subseteq Rooms
      /\ \A k \in checks : k.room \in Rooms /\ k.of \in ClientIds
  BY DEF SessionTypes, Client, Rooms
<1>4. ASSUME NEW c, NEW rooms, NEW on, rooms \subseteq Rooms, Join(c, rooms, on) PROVE wasted' \subseteq Rooms
  <2>1. wasted' = wasted \ rooms \/ wasted' = wasted \/ wasted' = wasted \cup (rooms \ clients[c].joined)
    BY <1>4 DEF Join
  <2> QED BY <1>0, <1>4, <2>1
<1>5. \A c, r : Entering(c, r) \subseteq Rooms
  BY DEF Entering, Rooms
<1>6. ASSUME NEW c \in ClientIds, Network(c) PROVE SessionRest'
  <2>1. zombies' = zombies /\ UNCHANGED <<relisted, active, timer, wasted>>
    BY <1>6 DEF Network, ConnectDone, ConnectFails, LinkDrops, Reconnect, ConnClosed, Drained, appVars
  <2>2. waiting' = waiting \/ waiting' = (waiting /\ c # now)
    BY <1>6 DEF Network, ConnectDone, ConnectFails, LinkDrops, Reconnect, ConnClosed, Drained, Settled
  <2>3. sessionLeft' = sessionLeft \/ Spend("failure") \/ Spend("drop") \/ Spend("close")
    BY <1>6 DEF Network, ConnectDone, ConnectFails, LinkDrops, Reconnect, ConnClosed, Drained
  <2>4. sessionLeft' \in [SessionKinds -> Nat]
    BY <1>0, <1>1, <1>2, <2>3
  <2>5. waiting' \in BOOLEAN
    BY <1>0, <2>2
  <2> QED BY <1>0, <2>1, <2>4, <2>5 DEF SessionRest
<1>7. CASE RetryTick
  BY <1>0, <1>7 DEF RetryTick, appVars, SessionRest
<1>8. CASE NewToken
  <2>1. /\ Spend("token") /\ waiting' = TRUE /\ zombies' \subseteq zombies \cup {now} /\ wasted' = wasted \cup clients[now].joined \cup pend
        /\ UNCHANGED <<relisted, active, timer>>
    BY <1>8 DEF NewToken
  <2>2. sessionLeft' \in [SessionKinds -> Nat]
    BY <1>1, <1>2, <2>1
  <2>3. wasted' \subseteq Rooms /\ zombies' \subseteq ClientIds
    BY <1>0, <1>3, <2>1
  <2> QED BY <1>0, <2>1, <2>2, <2>3 DEF SessionRest
<1>9. CASE Render
  <2>1. PICK rooms \in SUBSET Rooms : \E on : Join(want.client, rooms, on)
    <3>1. \E first \in BOOLEAN, differs \in BOOLEAN :
            Join(want.client, (IF differs THEN Entering(want.client, active) ELSE {}) \cup (IF first THEN Defaults ELSE {}), want.connected)
      BY <1>9 DEF Render, Commit
    <3> QED BY <1>3, <1>5, <3>1
  <2>2. wasted' \subseteq Rooms
    BY <1>4, <2>1
  <2>3. timer' \in BOOLEAN /\ relisted' = FALSE /\ UNCHANGED <<waiting, zombies, active, sessionLeft>>
    BY <1>9 DEF Render, Commit
  <2> QED BY <1>0, <2>2, <2>3 DEF SessionRest
<1>10. CASE RunBatch
  <2>1. timer' = FALSE /\ Join(seen.client, pend, seen.connected) /\ UNCHANGED <<waiting, zombies, relisted, active, sessionLeft>>
    BY <1>10 DEF RunBatch
  <2>2. wasted' \subseteq Rooms
    BY <1>3, <1>4, <2>1
  <2> QED BY <1>0, <2>1, <2>2 DEF SessionRest
<1>11. ASSUME NEW r \in Rooms, Select(r) PROVE SessionRest'
  <2>1. /\ Spend("select") /\ active' = r /\ Join(seen.client, Entering(seen.client, r), TRUE)
        /\ UNCHANGED <<waiting, zombies, relisted, timer>>
    BY <1>11 DEF Select, Look
  <2>2. wasted' \subseteq Rooms /\ sessionLeft' \in [SessionKinds -> Nat]
    BY <1>1, <1>2, <1>4, <1>5, <2>1
  <2> QED BY <1>0, <2>1, <2>2 DEF SessionRest
<1>12. ASSUME NEW r \in Privates, Create(r) PROVE SessionRest'
  <2>1. /\ Spend("create") /\ active' = r /\ Join(seen.client, Entering(seen.client, r), TRUE) /\ relisted' = TRUE
        /\ UNCHANGED <<waiting, zombies, timer>>
    BY <1>12 DEF Create, Look, Relist
  <2>2. wasted' \subseteq Rooms /\ sessionLeft' \in [SessionKinds -> Nat]
    BY <1>1, <1>2, <1>4, <1>5, <2>1
  <2> QED BY <1>0, <1>3, <2>1, <2>2 DEF SessionRest
<1>13. ASSUME NEW r \in Privates, Removed(r) PROVE SessionRest'
  <2>1. /\ Spend("removal") /\ relisted' = TRUE /\ UNCHANGED <<waiting, zombies, timer>>
        /\ \/ active' = Home /\ Join(seen.client, Entering(seen.client, Home), TRUE)
           \/ UNCHANGED <<clients, active, wasted>>
    BY <1>13 DEF Removed, Relist
  <2>2. sessionLeft' \in [SessionKinds -> Nat]
    BY <1>1, <1>2, <2>1
  <2>3. wasted' \subseteq Rooms /\ active' \in Rooms
    BY <1>0, <1>4, <1>5, <2>1
  <2> QED BY <1>0, <2>1, <2>2, <2>3 DEF SessionRest
<1>14. ASSUME NEW k \in checks, CheckEnds(k) PROVE SessionRest'
  <2>1. Join(k.of, {k.room}, k.of = now) /\ UNCHANGED <<waiting, zombies, relisted, active, timer, sessionLeft>>
    BY <1>14 DEF CheckEnds
  <2>2. {k.room} \subseteq Rooms
    BY <1>3
  <2>3. wasted' \subseteq Rooms
    BY <1>4, <2>1, <2>2
  <2> QED BY <1>0, <2>1, <2>3 DEF SessionRest
<1>15. ASSUME NEW l \in lists, ListRead(l) \/ ListArrives(l) \/ ListFails(l) PROVE SessionRest'
  <2>1. UNCHANGED <<waiting, zombies, active, timer, wasted>> /\ (relisted' = relisted \/ relisted' = TRUE)
    BY <1>15 DEF ListRead, ListArrives, ListFails, Relist
  <2>2. sessionLeft' = sessionLeft \/ Spend("failure")
    BY <1>15 DEF ListRead, ListArrives, ListFails
  <2>3. sessionLeft' \in [SessionKinds -> Nat] /\ relisted' \in BOOLEAN
    BY <1>0, <1>1, <1>2, <2>1, <2>2
  <2> QED BY <1>0, <2>1, <2>3 DEF SessionRest
<1>16. CASE UNCHANGED sessionVars
  BY <1>0, <1>16 DEF sessionVars, SessionRest
<1> QED BY <1>6, <1>7, <1>8, <1>9, <1>10, <1>11, <1>12, <1>13, <1>14, <1>15, <1>16 DEF SessionNext

\* They hold at first.
LEMMA SessionRestInit ==
  ASSUME SessionInit
  PROVE  SessionRest
<1>1. sessionLeft \in [SessionKinds -> Nat] /\ Home \in Rooms
  BY CountedSessions, SessionParameters DEF SessionInit, Rooms
<1>2. waiting = TRUE /\ zombies = {} /\ relisted = FALSE /\ active = Home /\ timer = FALSE /\ wasted = {}
  BY DEF SessionInit
<1> QED BY <1>1, <1>2 DEF SessionRest

\* With SessionTypes and Lists they are those of the variables.
LEMMA SessionTypesAre ==
  ASSUME SessionTypes, Lists, SessionRest
  PROVE  SessionTypeOK
<1>1. {waiting, timer, relisted} \subseteq BOOLEAN
  BY Zenon DEF SessionRest
<1> QED BY <1>1 DEF SessionTypes, Lists, SessionRest, SessionTypeOK

\* Every variable of a session (ChatClient.ts, ConnectionManager.ts, RoomManager.ts) has
\* its type.
THEOREM SessionTypeCorrect == SessionSpec => []SessionTypeOK
<1>1. SessionInit => SessionInv /\ Lists /\ SessionRest
  BY SessionStarts, SessionRestInit
<1>2. SessionInv /\ Lists /\ SessionRest /\ [SessionNext]_sessionVars => (SessionInv /\ Lists /\ SessionRest)'
  BY SessionInvKept, SessionRestKept DEF SessionInv
<1>3. SessionInv /\ Lists /\ SessionRest => SessionTypeOK
  BY SessionTypesAre DEF SessionInv
<1> QED BY <1>1, <1>2, <1>3, PTL DEF SessionSpec

(***************************************************************************)
(* MessageField: UserSearch, StickerMarket, Attachments.                   *)
(***************************************************************************)
\* A word that is typed is asked for, or waits for the timer, or its users are shown,
\* or the search was overtaken; and the place in the list is the first one until the
\* user moves.
SearchTypes ==
  /\ found \in Answer /\ name \in 0..MaxTyped /\ names \in 0..MaxTyped /\ sought \subseteq 0..MaxTyped
  /\ online \in BOOLEAN
Awaited == (opened /\ name # NoName /\ ~armed /\ name \notin sought) => overtaken \/ (~searching /\ found.of = name)
AtFirst == (box = "mention" /\ ~moved) => highlighted = 0
SearchInv == SearchTypes /\ Awaited /\ AtFirst

LEMMA SearchInvKept ==
  ASSUME SearchInv, [SearchNext]_searchVars
  PROVE  SearchInv'
<1>1. NoUsers \in Answer
  BY SearchBounds DEF NoUsers, Answer, NoName
<1>2. ASSUME NEW n \in 0..MaxTyped, SearchFor(n), sought' = sought, online' = online, opened' = TRUE, box' = box
      PROVE  Awaited' /\ AtFirst' /\ found' \in Answer /\ name' = n
  <2>1. CASE online = TRUE
    BY <1>2, <2>1 DEF SearchInv, SearchTypes, Awaited, AtFirst, SearchFor
  <2>2. CASE online = FALSE
    BY <1>1, <1>2, <2>2 DEF SearchInv, SearchTypes, Awaited, AtFirst, SearchFor
  <2> QED BY <2>1, <2>2 DEF SearchInv, SearchTypes
<1>3. CASE TypeName
  <2>1. names + 1 \in 0..MaxTyped /\ names' = names + 1
    BY <1>3, SearchBounds DEF TypeName, SearchInv, SearchTypes
  <2>2. Awaited' /\ AtFirst' /\ found' \in Answer /\ name' = names + 1
    BY <1>2, <1>3, <2>1 DEF TypeName
  <2> QED BY <1>3, <2>1, <2>2 DEF TypeName, SearchInv, SearchTypes
<1>4. ASSUME name' = NoName, sought' = sought, found' \in {found, NoUsers}, UNCHANGED <<names, online, box, highlighted, moved>>
      PROVE  SearchInv'
  BY <1>1, <1>4, SearchBounds DEF SearchInv, SearchTypes, Awaited, AtFirst, NoName
<1>5. CASE EraseName
  BY <1>4, <1>5 DEF EraseName, Cleared
<1>6. CASE AskUsers
  BY <1>6 DEF AskUsers, SearchInv, SearchTypes, Awaited, AtFirst
<1>7. CASE Pick
  BY <1>4, <1>7 DEF Pick, Cleared
<1>8. CASE CloseSearch
  <2>1. CASE box = "direct"
    BY <1>4, <1>8, <2>1 DEF CloseSearch, Cleared
  <2>2. CASE box # "direct"
    BY <1>8, <2>2 DEF CloseSearch, SearchInv, SearchTypes, Awaited, AtFirst
  <2> QED BY <2>1, <2>2
<1>9. CASE OpenSearch
  <2>1. opened' = TRUE /\ UNCHANGED <<box, sought, online, names>>
    BY <1>9 DEF OpenSearch
  <2>2. CASE name # NoName
    <3>1. SearchFor(name)
      BY <1>9, <2>2 DEF OpenSearch
    <3>2. Awaited' /\ AtFirst' /\ found' \in Answer /\ name' = name
      BY <1>2, <2>1, <3>1 DEF SearchInv, SearchTypes
    <3> QED BY <2>1, <3>2 DEF SearchInv, SearchTypes
  <2>3. CASE name = NoName
    BY <1>4, <1>9, <2>1, <2>3 DEF OpenSearch, Cleared
  <2> QED BY <2>2, <2>3
<1>10. CASE Unplug
  BY <1>10 DEF Unplug, SearchInv, SearchTypes, Awaited, AtFirst
<1>11. CASE Replug
  BY <1>11 DEF Replug, SearchInv, SearchTypes, Awaited, AtFirst
<1>12. ASSUME NEW n \in sought, NEW k \in 0..MaxFound, UsersFound(n, k) PROVE SearchInv'
  <2>1. UNCHANGED <<box, opened, name, armed, highlighted, moved, online, names>> /\ found' = [of |-> n, users |-> k]
        /\ sought' = sought \ {n} /\ searching' = FALSE
        /\ overtaken' = IF name \in sought THEN n # name ELSE overtaken \/ n # name
    BY <1>12 DEF UsersFound
  <2>2. SearchTypes' /\ AtFirst'
    BY <2>1 DEF SearchInv, SearchTypes, AtFirst, Answer
  <2>3. Awaited'
    BY <2>1 DEF SearchInv, Awaited
  <2> QED BY <2>2, <2>3 DEF SearchInv
<1>13. ASSUME NEW i \in 0..(MaxFound - 1), Move(i) PROVE SearchInv'
  BY <1>13 DEF Move, SearchInv, SearchTypes, Awaited, AtFirst
<1>14. CASE UNCHANGED searchVars
  BY <1>14 DEF searchVars, SearchInv, SearchTypes, Awaited, AtFirst
<1> QED BY <1>3, <1>5, <1>6, <1>7, <1>8, <1>9, <1>10, <1>11, <1>12, <1>13, <1>14 DEF SearchNext

\* The packs are being fetched, are there, or will not be; and the stickers that are
\* shown or fetched are those of the pack that is chosen.
MarketInv ==
  /\ loading => marketFetches # {} \/ stranded
  /\ fetched => "packs" \in marketFetches \/ packs = Packs \/ fruitless
  /\ stickers # NoPack => stickers = pack
  /\ marketFetches \subseteq Packs \cup {"packs"} /\ marketFetches \cap Packs \subseteq {pack}
  /\ {loading, stranded, fetched, fruitless} \subseteq BOOLEAN

LEMMA MarketInvKept ==
  ASSUME MarketInv, [MarketNext]_marketVars
  PROVE  MarketInv'
<1> USE NoPackIsNone DEF MarketInv
<1>1. CASE ShowMarket
  BY <1>1 DEF ShowMarket
<1>2. CASE HideMarket \/ ChooseSticker
  <2>1. /\ marketFetches' = marketFetches \ marketFetches /\ stranded' = (stranded \/ (marketFetches \cap marketFetches # {}))
        /\ fruitless' = (fruitless \/ "packs" \in marketFetches \cap marketFetches)
        /\ pack' = NoPack /\ stickers' = NoPack /\ UNCHANGED <<packs, loading, fetched>>
    BY <1>2 DEF HideMarket, ChooseSticker, Hide, Abandon
  <2>2. loading' => marketFetches' # {} \/ stranded'
    BY <2>1
  <2>3. fetched' => "packs" \in marketFetches' \/ packs' = Packs \/ fruitless'
    BY <2>1
  <2>4. marketFetches' = {} /\ {stranded', fruitless'} \subseteq BOOLEAN
    BY <2>1
  <2> QED BY <2>1, <2>2, <2>3, <2>4
<1>3. CASE BackToPacks
  BY <1>3 DEF BackToPacks, Abandon
<1>4. ASSUME NEW p \in Packs, ChoosePack(p) PROVE MarketInv'
  BY <1>4 DEF ChoosePack
<1>5. ASSUME NEW f \in Packs \cup {"packs"}, NEW ok \in BOOLEAN, FetchEnds(f, ok) PROVE MarketInv'
  BY <1>5 DEF FetchEnds
<1>6. ASSUME NEW f \in ignored, FetchIgnored(f) PROVE MarketInv'
  BY <1>6 DEF FetchIgnored
<1>7. CASE UNCHANGED marketVars
  BY <1>7 DEF marketVars
<1> QED BY <1>1, <1>2, <1>3, <1>4, <1>5, <1>6, <1>7 DEF MarketNext
\* Every file the service has stored is at one place and at one only, and one that is
\* still to be stored is with one choice.
FilesInv ==
  /\ uploads \subseteq Upload /\ uploaded \subseteq Files /\ pendingFiles \subseteq uploaded /\ forsaken \subseteq uploaded
  /\ pendingFiles \cap forsaken = {}
  /\ \A u \in uploads : u.todo # {} /\ u.todo \cap uploaded = {} /\ u.done \subseteq uploaded \ (pendingFiles \cup forsaken)
  /\ \A u, v \in uploads : u # v => u.todo \cap v.todo = {} /\ u.done \cap v.done = {}
  /\ \A m \in sent : m.files \subseteq uploaded \ (pendingFiles \cup forsaken)
  /\ \A m \in sent, u \in uploads : m.files \cap u.done = {}
  /\ \A m, n \in sent : m # n => m.files \cap n.files = {}
  /\ \A f \in uploaded \ (pendingFiles \cup forsaken) : (\E u \in uploads : f \in u.done) \/ (\E m \in sent : f \in m.files)

LEMMA FilesInvKept ==
  ASSUME FilesInv, [AttachNext]_attachVars
  PROVE  FilesInv'
<1>1. ASSUME NEW files \in SUBSET Files, NEW onField \in BOOLEAN, ChooseFiles(files, onField) PROVE FilesInv'
  <2> DEFINE c == [todo |-> files, done |-> {}, step |-> "place", here |-> TRUE]
  <2>1. UNCHANGED <<uploaded, pendingFiles, sent, forsaken>> /\ files # {} /\ files \cap Known = {}
    BY <1>1 DEF ChooseFiles
  <2>2. uploads' = uploads \/ uploads' = uploads \cup {c}
    BY <1>1 DEF ChooseFiles
  <2>3. c \in Upload /\ c.todo = files /\ c.done = {}
    BY DEF Upload
  <2>4. files \cap uploaded = {} /\ \A u \in uploads : files \cap u.todo = {}
    BY <2>1 DEF Known
  <2> HIDE DEF c
  <2>5. CASE uploads' = uploads
    BY <2>1, <2>5 DEF FilesInv
  <2>6. CASE uploads' = uploads \cup {c}
    BY <2>1, <2>3, <2>4, <2>6 DEF FilesInv
  <2> QED BY <2>2, <2>5, <2>6
<1>2. ASSUME NEW u \in uploads, NEW next \in {"bytes", "confirm"}, UploadStep(u, next) PROVE FilesInv'
  <2> DEFINE c == [u EXCEPT !.step = next]
  <2>1. UNCHANGED <<uploaded, pendingFiles, sent, forsaken>> /\ uploads' = (uploads \ {u}) \cup {c}
    BY <1>2 DEF UploadStep
  <2>2. c \in Upload /\ c.todo = u.todo /\ c.done = u.done
    BY DEF FilesInv, Upload
  <2> HIDE DEF c
  <2> QED BY <2>1, <2>2 DEF FilesInv
<1>3. ASSUME NEW u \in uploads, NEW f \in Files, FileStored(u, f) PROVE FilesInv'
  <2> DEFINE rest == u.todo \ {f}
             c == [u EXCEPT !.todo = rest, !.done = @ \cup {f}, !.step = "place"]
  <2>1. f \in u.todo /\ uploaded' = uploaded \cup {f} /\ UNCHANGED sent
    BY <1>3 DEF FileStored
  <2>2. f \notin uploaded /\ \A v \in uploads : v # u => f \notin v.todo
    BY <2>1 DEF FilesInv
  <2>3. CASE rest # {}
    <3>1. uploads' = (uploads \ {u}) \cup {c} /\ UNCHANGED <<pendingFiles, forsaken>>
      BY <1>3, <2>3 DEF FileStored
    <3>2. u \in Upload
      BY DEF FilesInv
    <3>3. u.done \cup {f} \in SUBSET Files /\ rest \in SUBSET Files
      BY <3>2 DEF Upload
    <3> DEFINE more == u.done \cup {f}
    <3>4. c = [u EXCEPT !.todo = rest, !.done = more, !.step = "place"]
      OBVIOUS
    <3>5. more = u.done \cup {f} /\ more \in SUBSET Files
      BY <3>3
    <3> HIDE DEF rest, more
    <3>6. [u EXCEPT !.todo = rest, !.done = more, !.step = "place"] \in Upload
      BY <3>2, <3>3, <3>5 DEF Upload
    <3>7. c.todo = rest /\ c.done = more /\ c \in Upload
      BY <3>2, <3>4, <3>6 DEF Upload
    <3>8. rest = u.todo \ {f}
      BY DEF rest
    <3> HIDE DEF c
    <3> QED BY <2>1, <2>2, <2>3, <3>1, <3>5, <3>7, <3>8 DEF FilesInv
  <2>4. CASE rest = {}
    <3>1. uploads' = uploads \ {u}
          /\ \/ pendingFiles' = pendingFiles \cup u.done \cup {f} /\ UNCHANGED forsaken
             \/ forsaken' = forsaken \cup u.done \cup {f} /\ UNCHANGED pendingFiles
      BY <1>3, <2>4 DEF FileStored
    <3> QED BY <2>1, <2>2, <3>1 DEF FilesInv
  <2> QED BY <2>3, <2>4
<1>4. ASSUME NEW u \in uploads, NEW b \in BOOLEAN, UploadFails(u, b) PROVE FilesInv'
  <2>1. UNCHANGED <<pendingFiles, sent>> /\ uploads' = uploads \ {u} /\ forsaken' = forsaken \cup u.done \cup (uploaded' \ uploaded)
    BY <1>4 DEF UploadFails
  <2>2. PICK g \in u.todo : uploaded' = uploaded \cup {g} \/ uploaded' = uploaded
    <3> DEFINE first == CHOOSE f \in u.todo : TRUE
    <3>1. first \in u.todo
      BY DEF FilesInv
    <3>2. uploaded' = uploaded \cup {first} \/ uploaded' = uploaded
      BY <1>4 DEF UploadFails
    <3> HIDE DEF first
    <3> QED BY <3>1, <3>2
  <2>3. g \in Files /\ g \notin uploaded /\ \A v \in uploads : v # u => g \notin v.todo
    BY <2>2 DEF FilesInv, Upload
  <2> QED BY <2>1, <2>2, <2>3 DEF FilesInv
<1>5. ASSUME NEW f \in pendingFiles, TakeAway(f) PROVE FilesInv'
  BY <1>5 DEF TakeAway, FilesInv
<1>6. ASSUME NEW b \in BOOLEAN, Submit(b) PROVE FilesInv'
  <2> DEFINE c == [no |-> Cardinality(sent), files |-> pendingFiles]
  <2>1. UNCHANGED <<uploads, uploaded>> /\ pendingFiles' = {}
        /\ \/ sent' = sent \cup {c} /\ UNCHANGED forsaken
           \/ sent' = sent /\ forsaken' = forsaken \cup pendingFiles
    BY <1>6 DEF Submit
  <2>2. c.files = pendingFiles
    OBVIOUS
  <2> HIDE DEF c
  <2> QED BY <2>1, <2>2 DEF FilesInv
<1>7. CASE LeaveField
  <2>1. UNCHANGED <<uploaded, sent>> /\ pendingFiles' = {} /\ forsaken' = forsaken \cup pendingFiles
        /\ uploads' = {[u EXCEPT !.here = FALSE] : u \in uploads}
    BY <1>7 DEF LeaveField
  <2>2. ASSUME NEW u \in uploads PROVE \E c \in uploads' : c \in Upload /\ c.todo = u.todo /\ c.done = u.done
    <3> DEFINE c == [u EXCEPT !.here = FALSE]
    <3>1. u \in Upload
      BY DEF FilesInv
    <3>2. c \in Upload /\ c.todo = u.todo /\ c.done = u.done
      BY <3>1 DEF Upload
    <3>3. c \in uploads'
      BY <2>1
    <3> HIDE DEF c
    <3> QED BY <3>2, <3>3
  <2>3. ASSUME NEW c \in uploads'
        PROVE  \E u \in uploads : c = [u EXCEPT !.here = FALSE] /\ c \in Upload /\ c.todo = u.todo /\ c.done = u.done
    <3>1. PICK u \in uploads : c = [u EXCEPT !.here = FALSE]
      BY <2>1
    <3>2. u \in Upload
      BY DEF FilesInv
    <3>3. c \in Upload /\ c.todo = u.todo /\ c.done = u.done
      BY <3>1, <3>2 DEF Upload
    <3> QED BY <3>1, <3>3
  <2>4. ASSUME NEW c \in uploads', NEW d \in uploads', c # d PROVE c.todo \cap d.todo = {} /\ c.done \cap d.done = {}
    <3>1. PICK u \in uploads : c = [u EXCEPT !.here = FALSE] /\ c.todo = u.todo /\ c.done = u.done
      BY <2>3
    <3>2. PICK v \in uploads : d = [v EXCEPT !.here = FALSE] /\ d.todo = v.todo /\ d.done = v.done
      BY <2>3
    <3>3. u # v
      BY <2>4, <3>1, <3>2
    <3>4. u.todo \cap v.todo = {} /\ u.done \cap v.done = {}
      BY <3>3 DEF FilesInv
    <3> QED BY <3>1, <3>2, <3>4
  <2>5. uploads' \subseteq Upload
    BY <2>3
  <2>6. \A c \in uploads' : c.todo # {} /\ c.todo \cap uploaded' = {} /\ c.done \subseteq uploaded' \ (pendingFiles' \cup forsaken')
    <3> SUFFICES ASSUME NEW c \in uploads' PROVE c.todo # {} /\ c.todo \cap uploaded' = {} /\ c.done \subseteq uploaded' \ (pendingFiles' \cup forsaken')
      OBVIOUS
    <3>1. PICK u \in uploads : c.todo = u.todo /\ c.done = u.done
      BY <2>3
    <3> QED BY <2>1, <3>1 DEF FilesInv
  <2>7. \A m \in sent', c \in uploads' : m.files \cap c.done = {}
    <3> SUFFICES ASSUME NEW m \in sent, NEW c \in uploads' PROVE m.files \cap c.done = {}
      BY <2>1
    <3>1. PICK u \in uploads : c.done = u.done
      BY <2>3
    <3> QED BY <3>1 DEF FilesInv
  <2>8. \A f \in uploaded' \ (pendingFiles' \cup forsaken') : (\E c \in uploads' : f \in c.done) \/ (\E m \in sent' : f \in m.files)
    <3> SUFFICES ASSUME NEW f \in uploaded' \ (pendingFiles' \cup forsaken')
                 PROVE  (\E c \in uploads' : f \in c.done) \/ (\E m \in sent' : f \in m.files)
      OBVIOUS
    <3>1. f \in uploaded \ (pendingFiles \cup forsaken)
      BY <2>1
    <3>2. CASE \E m \in sent : f \in m.files
      BY <2>1, <3>2
    <3>3. CASE \E u \in uploads : f \in u.done
      <4>1. PICK u \in uploads : f \in u.done
        BY <3>3
      <4> QED BY <2>2, <4>1
    <3> QED BY <3>1, <3>2, <3>3 DEF FilesInv
  <2>9. pendingFiles' \subseteq uploaded' /\ forsaken' \subseteq uploaded' /\ pendingFiles' \cap forsaken' = {}
        /\ uploaded' \subseteq Files /\ uploaded' \ (pendingFiles' \cup forsaken') = uploaded \ (pendingFiles \cup forsaken)
    BY <2>1 DEF FilesInv
  <2>10. \A m \in sent' : m.files \subseteq uploaded' \ (pendingFiles' \cup forsaken')
    BY <2>1, <2>9 DEF FilesInv
  <2>11. \A m, n \in sent' : m # n => m.files \cap n.files = {}
    BY <2>1 DEF FilesInv
  <2> QED BY <2>4, <2>5, <2>6, <2>7, <2>8, <2>9, <2>10, <2>11 DEF FilesInv
<1>8. CASE WriteDraft \/ ReturnToField \/ LinkFalls \/ LinkRises
  BY <1>8 DEF WriteDraft, ReturnToField, LinkFalls, LinkRises, FilesInv
<1>9. CASE UNCHANGED attachVars
  BY <1>9 DEF attachVars, FilesInv
<1> QED BY <1>1, <1>2, <1>3, <1>4, <1>5, <1>6, <1>7, <1>8, <1>9 DEF AttachNext

\* Files at four places that share none are as many as all together.
LEMMA FourPlaces ==
  ASSUME NEW A, NEW B, NEW C, NEW D, IsFiniteSet(A), IsFiniteSet(B), IsFiniteSet(C), IsFiniteSet(D),
         A \cap B = {}, (A \cup B) \cap C = {}, (A \cup B \cup C) \cap D = {}
  PROVE  Cardinality(A \cup B \cup C \cup D) = Cardinality(A) + Cardinality(B) + Cardinality(C) + Cardinality(D)
<1>1. \A S, T : IsFiniteSet(S) /\ IsFiniteSet(T) /\ S \cap T = {} =>
                  IsFiniteSet(S \cup T) /\ Cardinality(S \cup T) = Cardinality(S) + Cardinality(T)
  <2> SUFFICES ASSUME NEW S, NEW T, IsFiniteSet(S), IsFiniteSet(T), S \cap T = {}
               PROVE  IsFiniteSet(S \cup T) /\ Cardinality(S \cup T) = Cardinality(S) + Cardinality(T)
    OBVIOUS
  <2>1. IsFiniteSet(S \cup T) /\ Cardinality(S \cup T) = Cardinality(S) + Cardinality(T) - Cardinality(S \cap T)
    BY FS_Union
  <2>2. Cardinality(S \cap T) = 0
    BY FS_EmptySet
  <2>3. Cardinality(S) \in Nat /\ Cardinality(T) \in Nat
    BY FS_CardinalityType
  <2> QED BY <2>1, <2>2, <2>3
<1>2. IsFiniteSet(A \cup B) /\ Cardinality(A \cup B) = Cardinality(A) + Cardinality(B)
  BY <1>1
<1>3. IsFiniteSet(A \cup B \cup C) /\ Cardinality(A \cup B \cup C) = Cardinality(A \cup B) + Cardinality(C)
  BY <1>1, <1>2
<1>4. Cardinality(A \cup B \cup C \cup D) = Cardinality(A \cup B \cup C) + Cardinality(D)
  BY <1>1, <1>3
<1> QED BY <1>2, <1>3, <1>4

LEMMA FilesCounted == FilesInv => FilesAccountedFor
<1> SUFFICES ASSUME FilesInv PROVE FilesAccountedFor
  OBVIOUS
<1> DEFINE DoneFiles == UNION {u.done : u \in uploads}
           Gone == UNION {m.files : m \in sent}
<1>1. uploaded = pendingFiles \cup forsaken \cup DoneFiles \cup Gone
  BY DEF FilesInv
<1>2. uploaded = UNION ({u.done : u \in uploads} \cup {pendingFiles, forsaken} \cup {m.files : m \in sent})
  BY <1>1
<1>3. pendingFiles \cap forsaken = {} /\ (pendingFiles \cup forsaken) \cap DoneFiles = {}
      /\ (pendingFiles \cup forsaken \cup DoneFiles) \cap Gone = {}
  BY DEF FilesInv
<1>4. IsFiniteSet(pendingFiles) /\ IsFiniteSet(forsaken) /\ IsFiniteSet(DoneFiles) /\ IsFiniteSet(Gone)
  <2>1. pendingFiles \subseteq Files /\ forsaken \subseteq Files /\ DoneFiles \subseteq Files /\ Gone \subseteq Files
    BY <1>1 DEF FilesInv
  <2> HIDE DEF DoneFiles, Gone
  <2> QED BY <2>1, FilesAreFinite, FS_Subset
<1>5. Cardinality(uploaded) = Cardinality(pendingFiles) + Cardinality(forsaken) + Cardinality(DoneFiles) + Cardinality(Gone)
  <2> HIDE DEF DoneFiles, Gone
  <2> QED BY <1>1, <1>3, <1>4, FourPlaces
<1>6. \A m, n \in sent : m # n => m.files \cap n.files = {}
  BY DEF FilesInv
<1> QED BY <1>2, <1>5, <1>6 DEF FilesAccountedFor

\* Each part of the message field comes to rest as it should: a search shows what was
\* searched for, the sticker market stops loading, and every file that was stored is
\* sent or waits, but for what the properties name.
THEOREM FieldRests == SearchSpec /\ MarketSpec /\ AttachSpec => []FieldSettles
<1>1. SearchInit => SearchInv
  BY SearchBounds DEF SearchInit, SearchInv, SearchTypes, Awaited, AtFirst, NoUsers, Answer, NoName
<1>2. SearchInv /\ [SearchNext]_searchVars => SearchInv'
  BY SearchInvKept
<1>3. SearchInv => SearchSettles
  BY SearchBounds DEF SearchInv, SearchTypes, Awaited, AtFirst, SearchSettles, Answer
<1>4. MarketInit => MarketInv
  BY DEF MarketInit, MarketInv
<1>5. MarketInv /\ [MarketNext]_marketVars => MarketInv'
  BY MarketInvKept
<1>6. MarketInv => MarketSettles
  BY DEF MarketInv, MarketSettles
<1>7. AttachInit => FilesInv
  BY DEF AttachInit, FilesInv
<1>8. FilesInv /\ [AttachNext]_attachVars => FilesInv'
  BY FilesInvKept
<1>9. SearchSettles /\ MarketSettles /\ FilesAccountedFor => FieldSettles
  BY DEF FieldSettles
<1> QED BY <1>1, <1>2, <1>3, <1>4, <1>5, <1>6, <1>7, <1>8, <1>9, FilesCounted, PTL DEF SearchSpec, MarketSpec, AttachSpec

-----------------------------------------------------------------------------
\* A timer is set for a word only, so that every word asked for was typed.
SearchWhole ==
  /\ box \in Boxes /\ name \in 0..MaxTyped /\ found \in Answer /\ sought \subseteq 1..MaxTyped
  /\ opened \in BOOLEAN /\ armed \in BOOLEAN /\ searching \in BOOLEAN /\ moved \in BOOLEAN /\ overtaken \in BOOLEAN
  /\ online \in BOOLEAN /\ (armed => name # NoName)
  /\ highlighted \in 0..(MaxFound - 1) /\ names \in 0..MaxTyped /\ searchLeft \in [SearchKinds -> Nat]

\* Spending from a budget leaves one.
LEMMA SpendSearchTypes ==
  ASSUME searchLeft \in [SearchKinds -> Nat], NEW kind \in SearchKinds, SpendSearch(kind)
  PROVE  searchLeft' \in [SearchKinds -> Nat]
<1>1. searchLeft[kind] \in Nat /\ searchLeft[kind] > 0 /\ searchLeft' = [searchLeft EXCEPT ![kind] = @ - 1]
  BY DEF SpendSearch
<1>2. searchLeft[kind] - 1 \in Nat
  BY <1>1
<1> QED BY <1>1, <1>2

\* Every step of a search keeps its types.
LEMMA SearchWholeKept ==
  ASSUME SearchWhole, [SearchNext]_searchVars
  PROVE  SearchWhole'
<1> USE DEF SearchWhole
<1>1. \A kind \in SearchKinds : SpendSearch(kind) => searchLeft' \in [SearchKinds -> Nat]
  BY SpendSearchTypes
<1>2. "opens" \in SearchKinds /\ "moves" \in SearchKinds /\ "drops" \in SearchKinds
  BY DEF SearchKinds
<1>3. NoUsers \in Answer /\ NoName \in 0..MaxTyped /\ 0 \in 0..(MaxFound - 1) /\ NoName = 0
  BY SearchBounds DEF NoUsers, Answer, NoName
<1>4. \A n : SearchFor(n) =>
        /\ armed' \in BOOLEAN /\ searching' \in BOOLEAN /\ moved' \in BOOLEAN /\ overtaken' \in BOOLEAN
        /\ found' \in Answer /\ highlighted' \in 0..(MaxFound - 1) /\ name' = n
  BY <1>3 DEF SearchFor
<1>5. Cleared => /\ name' \in 0..MaxTyped /\ found' \in Answer /\ ~armed' /\ armed' \in BOOLEAN /\ overtaken' \in BOOLEAN /\ moved' = moved
  BY <1>3 DEF Cleared
<1>6. CASE TypeName
  <2>1. SearchFor(names + 1) /\ names' = names + 1 /\ names < MaxTyped /\ UNCHANGED <<box, opened, sought, online, searchLeft>>
    BY <1>6 DEF TypeName
  <2>2. names + 1 \in 0..MaxTyped /\ names + 1 # NoName
    BY <1>3, <2>1, SearchBounds
  <2> QED BY <1>4, <2>1, <2>2
<1>7. CASE EraseName
  <2>1. UNCHANGED <<box, opened, sought, highlighted, online, names, searchLeft>>
    BY <1>7 DEF EraseName
  <2>2. CASE online \/ box = "mention"
    <3>1. Cleared /\ searching' = FALSE
      BY <1>7, <2>2 DEF EraseName
    <3> QED BY <1>5, <2>1, <3>1
  <2>3. CASE ~(online \/ box = "mention")
    <3>1. name' = NoName /\ armed' = FALSE /\ overtaken' = FALSE /\ UNCHANGED <<found, searching, moved>>
      BY <1>7, <2>3 DEF EraseName
    <3> QED BY <1>3, <2>1, <3>1
  <2> QED BY <2>2, <2>3
<1>8. CASE AskUsers
  <2>1. /\ armed /\ armed' = FALSE /\ sought' = sought \cup {name}
        /\ UNCHANGED <<box, opened, name, found, searching, highlighted, moved, overtaken, online, names, searchLeft>>
    BY <1>8 DEF AskUsers
  <2>2. name \in 1..MaxTyped
    BY <1>3, <2>1
  <2> QED BY <2>1, <2>2
<1>9. CASE Pick
  <2>1. /\ Cleared /\ opened' = (box = "mention") /\ searching' \in {FALSE, searching}
        /\ UNCHANGED <<box, sought, highlighted, online, names, searchLeft>>
    BY <1>9 DEF Pick
  <2> QED BY <1>5, <2>1
<1>10. CASE CloseSearch
  <2>1. opened' = FALSE /\ UNCHANGED <<box, sought, searching, highlighted, online, names, searchLeft>>
    BY <1>10 DEF CloseSearch
  <2>2. Cleared \/ (armed' = FALSE /\ UNCHANGED <<name, found, moved, overtaken>>)
    BY <1>10 DEF CloseSearch
  <2> QED BY <1>5, <2>1, <2>2
<1>11. CASE OpenSearch
  <2>1. SpendSearch("opens") /\ opened' = TRUE /\ UNCHANGED <<box, sought, online, names>>
    BY <1>11 DEF OpenSearch
  <2>2. searchLeft' \in [SearchKinds -> Nat]
    BY <1>1, <1>2, <2>1
  <2>3. CASE name # NoName
    <3>1. SearchFor(name)
      BY <1>11, <2>3 DEF OpenSearch
    <3> QED BY <1>4, <2>1, <2>2, <2>3, <3>1
  <2>4. CASE name = NoName
    <3>1. \/ Cleared /\ searching' = FALSE /\ UNCHANGED highlighted
          \/ UNCHANGED <<name, found, armed, searching, highlighted, moved, overtaken>>
      BY <1>11, <2>4 DEF OpenSearch
    <3>2. CASE Cleared /\ searching' = FALSE /\ UNCHANGED highlighted
      BY <1>5, <2>1, <2>2, <3>2
    <3>3. CASE UNCHANGED <<name, found, armed, searching, highlighted, moved, overtaken>>
      BY <2>1, <2>2, <3>3
    <3> QED BY <3>1, <3>2, <3>3
  <2> QED BY <2>3, <2>4
<1>12. CASE Unplug
  <2>1. /\ SpendSearch("drops") /\ online' = FALSE /\ armed' = (armed /\ box # "invite")
        /\ overtaken' = (overtaken \/ (armed /\ box = "invite"))
        /\ UNCHANGED <<box, opened, name, found, sought, searching, highlighted, moved, names>>
    BY <1>12 DEF Unplug
  <2>2. searchLeft' \in [SearchKinds -> Nat]
    BY <1>1, <1>2, <2>1
  <2> QED BY <2>1, <2>2
<1>13. CASE Replug
  <2>1. /\ online' = TRUE /\ UNCHANGED <<box, opened, name, found, sought, searching, highlighted, moved, names, searchLeft>>
        /\ (name # NoName /\ armed' = TRUE /\ overtaken' = FALSE) \/ UNCHANGED <<armed, overtaken>>
    BY <1>13 DEF Replug
  <2>2. CASE name # NoName /\ armed' = TRUE /\ overtaken' = FALSE
    BY <2>1, <2>2
  <2>3. CASE UNCHANGED <<armed, overtaken>>
    BY <2>1, <2>3
  <2> QED BY <2>1, <2>2, <2>3
<1>14. ASSUME NEW n \in sought, NEW k \in 0..MaxFound, UsersFound(n, k) PROVE SearchWhole'
  <2>1. /\ sought' = sought \ {n} /\ found' = [of |-> n, users |-> k] /\ searching' = FALSE
        /\ overtaken' = IF name \in sought THEN n # name ELSE overtaken \/ n # name
        /\ UNCHANGED <<box, opened, name, armed, highlighted, moved, online, names, searchLeft>>
    BY <1>14 DEF UsersFound
  <2>2. n \in 0..MaxTyped
    OBVIOUS
  <2>3. found' \in Answer
    BY <2>1, <2>2 DEF Answer
  <2> QED BY <2>1, <2>3
<1>15. ASSUME NEW i \in 0..(MaxFound - 1), Move(i) PROVE SearchWhole'
  <2>1. /\ SpendSearch("moves") /\ highlighted' = i /\ moved' = TRUE
        /\ UNCHANGED <<box, opened, name, found, armed, sought, searching, overtaken, online, names>>
    BY <1>15 DEF Move
  <2>2. searchLeft' \in [SearchKinds -> Nat]
    BY <1>1, <1>2, <2>1
  <2> QED BY <2>1, <2>2
<1>16. CASE UNCHANGED searchVars
  BY <1>16 DEF searchVars
<1> QED BY <1>6, <1>7, <1>8, <1>9, <1>10, <1>11, <1>12, <1>13, <1>14, <1>15, <1>16 DEF SearchNext

\* They hold at first.
LEMMA SearchWholeInit ==
  ASSUME SearchInit
  PROVE  SearchWhole
<1>1. /\ box \in Boxes /\ opened = (box = "mention") /\ name = 0 /\ found = [of |-> 0, users |-> 0]
      /\ armed = FALSE /\ sought = {} /\ searching = FALSE /\ highlighted = 0
      /\ moved = FALSE /\ overtaken = FALSE /\ online = TRUE /\ names = 0 /\ searchLeft \in SearchBudgets
  BY DEF SearchInit, NoName, NoUsers
<1>2. found \in Answer /\ 0 \in 0..MaxTyped /\ 0 \in 0..(MaxFound - 1)
  BY <1>1, SearchBounds DEF Answer
<1>3. searchLeft \in [SearchKinds -> Nat]
  BY <1>1, CountedSearches
<1> QED BY <1>1, <1>2, <1>3 DEF SearchWhole

\* They are those of the variables.
LEMMA SearchWholeTypes ==
  ASSUME SearchWhole
  PROVE  SearchTypeOK
<1>1. {opened, armed, searching, moved, overtaken, online} \subseteq BOOLEAN
  BY Zenon DEF SearchWhole
<1> QED BY <1>1 DEF SearchWhole, SearchTypeOK

-----------------------------------------------------------------------------
\* The types of the sticker market, one by one.
MarketTypes ==
  /\ market \in BOOLEAN /\ loading \in BOOLEAN /\ fetched \in BOOLEAN /\ stranded \in BOOLEAN /\ fruitless \in BOOLEAN
  /\ packs \subseteq Packs /\ pack \in Packs \cup {NoPack} /\ stickers \in Packs \cup {NoPack} /\ chosen \subseteq Packs
  /\ marketFetches \subseteq Packs \cup {"packs"} /\ ignored \subseteq Packs \cup {"packs"}
  /\ marketLeft \in [MarketKinds -> Nat]

\* Spending from a budget leaves one.
LEMMA SpendMarketTypes ==
  ASSUME marketLeft \in [MarketKinds -> Nat], NEW kind \in MarketKinds, SpendMarket(kind)
  PROVE  marketLeft' \in [MarketKinds -> Nat]
<1>1. marketLeft[kind] \in Nat /\ marketLeft[kind] > 0 /\ marketLeft' = [marketLeft EXCEPT ![kind] = @ - 1]
  BY DEF SpendMarket
<1>2. marketLeft[kind] - 1 \in Nat
  BY <1>1
<1> QED BY <1>1, <1>2

\* Every step of the market keeps its types.
LEMMA MarketTypesKept ==
  ASSUME MarketTypes, [MarketNext]_marketVars
  PROVE  MarketTypes'
<1> USE DEF MarketTypes
<1>1. \A kind \in MarketKinds : SpendMarket(kind) => marketLeft' \in [MarketKinds -> Nat]
  BY SpendMarketTypes
<1>2. "shows" \in MarketKinds /\ "choices" \in MarketKinds /\ "failures" \in MarketKinds
  BY DEF MarketKinds
<1>3. \A which : Abandon(which) =>
        /\ marketFetches' \subseteq Packs \cup {"packs"} /\ ignored' \subseteq Packs \cup {"packs"}
        /\ stranded' \in BOOLEAN /\ fruitless' \in BOOLEAN
  BY DEF Abandon
<1>4. CASE ShowMarket
  <2>1. /\ SpendMarket("shows") /\ market' = TRUE /\ UNCHANGED <<packs, pack, stickers, ignored, fruitless, chosen>>
        /\ \/ UNCHANGED <<loading, fetched, marketFetches, stranded>>
           \/ fetched' = TRUE /\ loading' = TRUE /\ marketFetches' = {"packs"} /\ stranded' = FALSE
    BY <1>4 DEF ShowMarket
  <2>2. marketLeft' \in [MarketKinds -> Nat]
    BY <1>1, <1>2, <2>1
  <2> QED BY <2>1, <2>2
<1>5. CASE HideMarket \/ ChooseSticker
  <2>1. /\ market' = FALSE /\ Abandon(marketFetches) /\ pack' = NoPack /\ stickers' = NoPack
        /\ UNCHANGED <<packs, loading, fetched, marketLeft>>
    BY <1>5 DEF HideMarket, ChooseSticker, Hide
  <2>2. chosen' = chosen \/ (stickers # NoPack /\ chosen' = chosen \cup {stickers})
    BY <1>5 DEF HideMarket, ChooseSticker
  <2>3. chosen' \subseteq Packs
    BY <2>2
  <2> QED BY <1>3, <2>1, <2>3
<1>6. CASE BackToPacks
  <2>1. /\ pack' = NoPack /\ stickers' = NoPack /\ Abandon(marketFetches \cap Packs)
        /\ UNCHANGED <<market, packs, loading, fetched, chosen, marketLeft>>
    BY <1>6 DEF BackToPacks
  <2> QED BY <1>3, <2>1
<1>7. ASSUME NEW p \in Packs, ChoosePack(p) PROVE MarketTypes'
  <2>1. /\ SpendMarket("choices") /\ pack' = p /\ loading' = TRUE /\ marketFetches' = marketFetches \cup {p} /\ stranded' = FALSE
        /\ UNCHANGED <<market, packs, stickers, fetched, ignored, fruitless, chosen>>
    BY <1>7 DEF ChoosePack
  <2>2. marketLeft' \in [MarketKinds -> Nat]
    BY <1>1, <1>2, <2>1
  <2> QED BY <2>1, <2>2
<1>8. ASSUME NEW f \in Packs \cup {"packs"}, NEW ok \in BOOLEAN, FetchEnds(f, ok) PROVE MarketTypes'
  <2>1. /\ marketFetches' = marketFetches \ {f} /\ loading' = FALSE /\ packs' \in {packs, Packs}
        /\ fruitless' = (fruitless \/ (f = "packs" /\ ~ok)) /\ stickers' = IF f \in Packs /\ ok THEN f ELSE stickers
        /\ UNCHANGED <<market, pack, fetched, ignored, stranded, chosen>>
        /\ marketLeft' = marketLeft \/ SpendMarket("failures")
    BY <1>8 DEF FetchEnds
  <2>2. marketLeft' \in [MarketKinds -> Nat]
    BY <1>1, <1>2, <2>1
  <2> QED BY <2>1, <2>2
<1>9. ASSUME NEW f \in ignored, FetchIgnored(f) PROVE MarketTypes'
  BY <1>9 DEF FetchIgnored
<1>10. CASE UNCHANGED marketVars
  BY <1>10 DEF marketVars
<1> QED BY <1>4, <1>5, <1>6, <1>7, <1>8, <1>9, <1>10 DEF MarketNext

\* They hold at first.
LEMMA MarketTypesInit ==
  ASSUME MarketInit
  PROVE  MarketTypes
<1>1. marketLeft \in [MarketKinds -> Nat]
  BY CountedMarkets DEF MarketInit
<1> QED BY <1>1 DEF MarketInit, MarketTypes

\* They are those of the variables.
LEMMA MarketTypesAre ==
  ASSUME MarketTypes
  PROVE  MarketTypeOK
<1>1. {market, loading, fetched, stranded, fruitless} \subseteq BOOLEAN
  BY Zenon DEF MarketTypes
<1>2. {pack, stickers} \subseteq Packs \cup {NoPack}
  BY Zenon DEF MarketTypes
<1> QED BY <1>1, <1>2 DEF MarketTypes, MarketTypeOK

-----------------------------------------------------------------------------
\* What FilesInv does not say of the types.
PostWith == [no : Nat, files : SUBSET Files]
AttachTypes ==
  /\ uploading \in BOOLEAN /\ draft \in BOOLEAN /\ written \in BOOLEAN /\ plugged \in BOOLEAN
  /\ sent \subseteq PostWith /\ IsFiniteSet(sent) /\ attachLeft \in [AttachmentKinds -> Nat]

\* Spending from a budget leaves one.
LEMMA SpendAttachTypes ==
  ASSUME attachLeft \in [AttachmentKinds -> Nat], NEW kind \in AttachmentKinds, SpendAttach(kind)
  PROVE  attachLeft' \in [AttachmentKinds -> Nat]
<1>1. attachLeft[kind] \in Nat /\ attachLeft[kind] > 0 /\ attachLeft' = [attachLeft EXCEPT ![kind] = @ - 1]
  BY DEF SpendAttach
<1>2. attachLeft[kind] - 1 \in Nat
  BY <1>1
<1> QED BY <1>1, <1>2

\* Every step keeps the types, while the files are where FilesInv says.
LEMMA AttachTypesKept ==
  ASSUME FilesInv, AttachTypes, [AttachNext]_attachVars
  PROVE  AttachTypes'
<1>1. /\ uploading \in BOOLEAN /\ draft \in BOOLEAN /\ written \in BOOLEAN /\ plugged \in BOOLEAN
      /\ sent \subseteq PostWith /\ IsFiniteSet(sent) /\ attachLeft \in [AttachmentKinds -> Nat]
  BY DEF AttachTypes
<1>2. \A kind \in AttachmentKinds : SpendAttach(kind) => attachLeft' \in [AttachmentKinds -> Nat]
  BY <1>1, SpendAttachTypes
<1>3. /\ "choices" \in AttachmentKinds /\ "words" \in AttachmentKinds /\ "leaves" \in AttachmentKinds
      /\ "drops" \in AttachmentKinds /\ "failures" \in AttachmentKinds
  BY DEF AttachmentKinds
<1>4. ASSUME NEW files \in SUBSET Files, NEW onField \in BOOLEAN, ChooseFiles(files, onField) PROVE AttachTypes'
  <2>1. SpendAttach("choices") /\ uploading' \in {TRUE, uploading} /\ UNCHANGED <<sent, draft, written, plugged>>
    BY <1>4 DEF ChooseFiles
  <2>2. attachLeft' \in [AttachmentKinds -> Nat]
    BY <1>2, <1>3, <2>1
  <2> QED BY <1>1, <2>1, <2>2 DEF AttachTypes
<1>5. ASSUME NEW u \in uploads, NEW next \in {"bytes", "confirm"}, UploadStep(u, next) PROVE AttachTypes'
  BY <1>1, <1>5 DEF UploadStep, AttachTypes
<1>6. ASSUME NEW u \in uploads, NEW f \in Files, FileStored(u, f) PROVE AttachTypes'
  <2>1. uploading' \in {FALSE, uploading} /\ UNCHANGED <<sent, draft, written, plugged, attachLeft>>
    BY <1>6 DEF FileStored
  <2> QED BY <1>1, <2>1 DEF AttachTypes
<1>7. ASSUME NEW u \in uploads, NEW b \in BOOLEAN, UploadFails(u, b) PROVE AttachTypes'
  <2>1. /\ SpendAttach("failures") \/ attachLeft' = attachLeft
        /\ uploading' = (uploading /\ ~u.here) /\ UNCHANGED <<sent, draft, written, plugged>>
    BY <1>7 DEF UploadFails
  <2>2. attachLeft' \in [AttachmentKinds -> Nat]
    BY <1>1, <1>2, <1>3, <2>1
  <2> QED BY <1>1, <2>1, <2>2 DEF AttachTypes
<1>8. ASSUME NEW f \in pendingFiles, TakeAway(f) PROVE AttachTypes'
  BY <1>1, <1>8 DEF TakeAway, AttachTypes
<1>9. ASSUME NEW b \in BOOLEAN, Submit(b) PROVE AttachTypes'
  <2> DEFINE c == [no |-> Cardinality(sent), files |-> pendingFiles]
  <2>1. /\ SpendAttach("failures") \/ attachLeft' = attachLeft
        /\ sent' = sent \cup {c} \/ sent' = sent
        /\ draft' = FALSE /\ UNCHANGED <<uploading, written, plugged>>
    BY <1>9 DEF Submit
  <2>2. attachLeft' \in [AttachmentKinds -> Nat]
    BY <1>1, <1>2, <1>3, <2>1
  <2>3. c \in PostWith
    <3>1. Cardinality(sent) \in Nat /\ pendingFiles \in SUBSET Files
      BY <1>1, FS_CardinalityType DEF FilesInv
    <3> QED BY <3>1 DEF PostWith
  <2> HIDE DEF c
  <2>4. IsFiniteSet(sent')
    BY <1>1, <2>1, FS_AddElement
  <2> QED BY <1>1, <2>1, <2>2, <2>3, <2>4 DEF AttachTypes
<1>10. CASE WriteDraft \/ LeaveField \/ LinkFalls
  <2>1. SpendAttach("words") \/ SpendAttach("leaves") \/ SpendAttach("drops")
    BY <1>10 DEF WriteDraft, LeaveField, LinkFalls
  <2>2. /\ draft' \in {draft, TRUE, FALSE} /\ written' \in {written, FALSE} /\ uploading' \in {uploading, FALSE}
        /\ plugged' \in {plugged, FALSE} /\ sent' = sent
    BY <1>10 DEF WriteDraft, LeaveField, LinkFalls
  <2>3. attachLeft' \in [AttachmentKinds -> Nat]
    BY <1>2, <1>3, <2>1
  <2> QED BY <1>1, <2>2, <2>3 DEF AttachTypes
<1>11. CASE ReturnToField \/ LinkRises
  BY <1>1, <1>11 DEF ReturnToField, LinkRises, AttachTypes
<1>12. CASE UNCHANGED attachVars
  BY <1>1, <1>12 DEF attachVars, AttachTypes
<1> QED BY <1>4, <1>5, <1>6, <1>7, <1>8, <1>9, <1>10, <1>11, <1>12 DEF AttachNext

\* They hold at first.
LEMMA AttachTypesInit ==
  ASSUME AttachInit
  PROVE  AttachTypes
<1>1. attachLeft \in [AttachmentKinds -> Nat]
  BY CountedAttachments DEF AttachInit
<1>2. IsFiniteSet({})
  BY FS_EmptySet
<1> QED BY <1>1, <1>2 DEF AttachInit, AttachTypes

\* With FilesInv they are those of the variables.
LEMMA AttachTypesAre ==
  ASSUME FilesInv, AttachTypes
  PROVE  AttachTypeOK
<1>1. {uploading, draft, written, plugged} \subseteq BOOLEAN
  BY Zenon DEF AttachTypes
<1> QED BY <1>1 DEF AttachTypes, FilesInv, AttachTypeOK, PostWith

\* Every variable of the message field has its type: what is searched for
\* (MessageInput.tsx, RoomSelector.tsx), the sticker market and the files attached.
THEOREM FieldTypeCorrect ==
  SearchSpec /\ MarketSpec /\ AttachSpec => []SearchTypeOK /\ []MarketTypeOK /\ []AttachTypeOK
<1>1. SearchSpec => []SearchTypeOK
  BY SearchWholeInit, SearchWholeKept, SearchWholeTypes, PTL DEF SearchSpec
<1>2. MarketSpec => []MarketTypeOK
  BY MarketTypesInit, MarketTypesKept, MarketTypesAre, PTL DEF MarketSpec
<1>3. AttachSpec => []AttachTypeOK
  <2>1. AttachInit => FilesInv
    BY DEF AttachInit, FilesInv
  <2> QED BY <2>1, FilesInvKept, AttachTypesInit, AttachTypesKept, AttachTypesAre, PTL DEF AttachSpec
<1> QED BY <1>1, <1>2, <1>3

(***************************************************************************)
(* PresenceService.                                                        *)
(* handleUserOffline cleans up once for each time a user is marked         *)
(* offline: the revisions of the entry tell the callbacks apart.  And when *)
(* all has been dealt with, trackers, indexes, rooms and status are right. *)
(***************************************************************************)
Steps == {"put", "add", "write", "remove", "get", "cas", "sweep"}
Jobs == [of : Instances, by : Callbacks, at : Steps,
         tab : Browsers \cup {"none", "online", "away", "offline"}, first : BOOLEAN, rev : Nat]

\* A callback that has not read the status knows no revision, and one that has
\* knows none that is still to come.
Reads == \A job \in doing : job.at = "get" => job.rev = 0
EntriesKnown == \A job \in doing : job.at \in {"cas", "sweep"} => job.rev <= entry.rev

StatusInv == /\ doing \subseteq Jobs
        /\ entry.rev \in Nat
        /\ Reads
        /\ EntriesKnown
        /\ SweptByOne

\* The record of a callback that begins is one, and knows no revision.
LEMMA NewJob ==
  ASSUME NEW i \in Instances, NEW s \in Callbacks, NEW at \in Steps,
         NEW tab \in Browsers \cup {"none", "online", "away", "offline"}
  PROVE  /\ Job(i, s, at, tab) \in Jobs
         /\ Job(i, s, at, tab).rev = 0
         /\ Job(i, s, at, tab).at = at
BY DEF Job, Jobs

\* The invariant survives a step by which at most one callback is new or at another
\* point, provided that one who then sweeps has a revision nobody else sweeps for.
LEMMA OneMore ==
  ASSUME StatusInv, NEW new \in Jobs,
         doing' \subseteq doing \cup {new},
         entry.rev' \in Nat, entry.rev <= entry.rev',
         new.at = "get" => new.rev = 0,
         new.at \in {"cas", "sweep"} => new.rev <= entry.rev',
         new.at = "sweep" => (new.rev = 0 \/ \A o \in doing : o.at = "sweep" => o.rev < new.rev)
  PROVE  StatusInv'
<1>1. doing' \subseteq Jobs
  BY DEF StatusInv
<1>2. Reads'
  BY DEF StatusInv, Reads
<1>3. EntriesKnown'
  <2> SUFFICES ASSUME NEW job \in doing', job.at \in {"cas", "sweep"} PROVE job.rev <= entry.rev'
    BY DEF EntriesKnown
  <2>1. CASE job = new
    BY <2>1
  <2>2. CASE job \in doing
    <3>1. job.rev <= entry.rev /\ job.rev \in Nat /\ entry.rev \in Nat
      BY <2>2 DEF StatusInv, EntriesKnown, Jobs
    <3> QED BY <3>1
  <2> QED BY <2>1, <2>2
<1>4. SweptByOne'
  <2> SUFFICES ASSUME NEW job \in doing', NEW other \in doing',
                      job.at = "sweep", other.at = "sweep", job # other, job.rev > 0
               PROVE  job.rev # other.rev
    BY DEF SweptByOne
  <2>0. job.rev \in Nat /\ other.rev \in Nat
    BY <1>1 DEF Jobs
  <2>1. CASE job = new
    <3>1. other \in doing /\ new.rev # 0
      BY <2>1, <2>0
    <3> QED BY <3>1, <2>1, <2>0
  <2>2. CASE other = new
    <3>1. job \in doing
      BY <2>2
    <3>2. CASE new.rev = 0
      BY <3>2, <2>2, <2>0
    <3>3. CASE new.rev # 0
      BY <3>1, <3>3, <2>2, <2>0
    <3> QED BY <3>2, <3>3
  <2>3. CASE job # new /\ other # new
    BY <2>3 DEF StatusInv, SweptByOne
  <2> QED BY <2>1, <2>2, <2>3
<1> QED BY <1>1, <1>2, <1>3, <1>4 DEF StatusInv

\* It survives a step that begins and goes on with nothing.
LEMMA NoneMore ==
  ASSUME StatusInv, doing' \subseteq doing, entry.rev' \in Nat, entry.rev <= entry.rev'
  PROVE  StatusInv'
<1>1. doing' \subseteq Jobs /\ Reads'
  BY DEF StatusInv, Reads
<1>2. EntriesKnown'
  <2> SUFFICES ASSUME NEW job \in doing', job.at \in {"cas", "sweep"} PROVE job.rev <= entry.rev'
    BY DEF EntriesKnown
  <2>1. job.rev <= entry.rev /\ job.rev \in Nat /\ entry.rev \in Nat
    BY DEF StatusInv, EntriesKnown, Jobs
  <2> QED BY <2>1
<1>3. SweptByOne'
  BY DEF StatusInv, SweptByOne
<1> QED BY <1>1, <1>2, <1>3 DEF StatusInv

\* Every step keeps it.  A step that leaves the callbacks and the entry alone does,
\* one that begins or goes on with a callback is a case of OneMore, and the winner of
\* the compare-and-set sweeps for a revision that is higher than all before.
LEMMA SInvKept ==
  ASSUME StatusInv, [ConnectionNext]_connectionVars
  PROVE  StatusInv'
<1> USE DEF conServer, conRoom, conHeld, conGhosts
<1>0. ASSUME UNCHANGED <<doing, entry>> PROVE StatusInv'
  BY <1>0 DEF StatusInv, Reads, EntriesKnown, SweptByOne
<1>1. ASSUME NEW job \in doing, NEW new, doing' = (doing \ {job}) \cup {new} \/ doing' = doing \ {job} PROVE doing' \subseteq doing \cup {new}
  BY <1>1
<1>2. entry.rev \in Nat
  BY DEF StatusInv
<1>3. ASSUME NEW c \in Browsers,
             OpenBrowser(c) \/ BrowserReturns(c) \/ NextBeat(c) \/ CloseBrowser(c)
             \/ BrowserDies(c) \/ BrowserIsCut(c) \/ ConnectionExpires(c)
             \/ \E s \in {"away", "offline"} : ChooseStatus(c, s)
      PROVE  StatusInv'
  <2> doing' = doing /\ entry' = entry
    BY <1>3 DEF OpenBrowser, BrowserReturns, Appear, NextBeat, CloseBrowser, BrowserDies, BrowserIsCut,
                ConnectionExpires, ChooseStatus, SpendConn, Told
  <2> QED BY <1>0
<1>4. ASSUME NEW m \in signals, MessageLost(m) PROVE StatusInv'
  BY <1>4, <1>0 DEF MessageLost
<1>5. ASSUME RoomServes("join") \/ RoomServes("leave") PROVE StatusInv'
  BY <1>5, <1>0 DEF RoomServes
<1>6. ASSUME NEW i \in Instances, NEW c \in Browsers, BeatTaken(i, c) PROVE StatusInv'
  <2> DEFINE new == [Job(i, "beat", "put", c) EXCEPT !.first = (tracked[i] = {})]
  <2>1. new \in Jobs /\ new.at = "put"
    BY DEF Job, Jobs, Callbacks, Steps
  <2>2. doing' = doing \cup {new} /\ entry' = entry
    BY <1>6 DEF BeatTaken, StartsJob
  <2> HIDE DEF new
  <2> QED BY <2>1, <2>2, <1>2, OneMore
<1>7. ASSUME NEW i \in Instances, NEW c \in Browsers, ByeTaken(i, c) PROVE StatusInv'
  <2> DEFINE new == Job(i, "bye", "remove", c)
  <2>1. new \in Jobs /\ new.at = "remove"
    BY NewJob DEF Callbacks, Steps
  <2>2. doing' = doing \cup {new} /\ entry' = entry
    BY <1>7 DEF ByeTaken, StartsJob
  <2> HIDE DEF new
  <2> QED BY <2>1, <2>2, <1>2, OneMore
<1>8. ASSUME NEW i \in Instances, NEW s \in {"away", "offline"}, SetTaken(i, s) PROVE StatusInv'
  <2> DEFINE new == Job(i, "set", "write", s)
  <2>1. new \in Jobs /\ new.at = "write"
    BY NewJob DEF Callbacks, Steps
  <2>2. (doing' = doing \/ doing' = doing \cup {new}) /\ entry' = entry
    BY <1>8 DEF SetTaken, StartsJob
  <2> HIDE DEF new
  <2> QED BY <2>1, <2>2, <1>2, OneMore
<1>9. ASSUME NEW i \in Instances, WatcherTakes(i) \/ OldWatcherTakes(i) PROVE StatusInv'
  <2>1. PICK s \in {"watch", "old"} :
          (doing' = doing \/ doing' = doing \cup {Job(i, s, "get", "none")}) /\ entry' = entry
    BY <1>9 DEF WatcherTakes, OldWatcherTakes, StartsJob
  <2> DEFINE new == Job(i, s, "get", "none")
  <2>2. new \in Jobs /\ new.at = "get" /\ new.rev = 0
    BY NewJob DEF Callbacks, Steps
  <2>3. doing' \subseteq doing \cup {new}
    BY <2>1
  <2> HIDE DEF new
  <2> QED BY <2>1, <2>2, <2>3, <1>2, OneMore
<1>10. ASSUME NEW i \in Instances, RoomNewsTaken(i) PROVE StatusInv'
  <2> DEFINE new == Job(i, "room", "write", "online")
  <2>1. new \in Jobs /\ new.at = "write"
    BY NewJob DEF Callbacks, Steps
  <2>2. (doing' = doing \/ doing' = doing \cup {new}) /\ entry' = entry
    BY <1>10 DEF RoomNewsTaken, StartsJob
  <2> HIDE DEF new
  <2> QED BY <2>1, <2>2, <1>2, OneMore
<1>11. ASSUME NEW i \in Instances,
              LinkGoes(i) \/ LinkComesUnready(i) \/ OldWatcherEnds(i) \/ WatcherReads(i) \/ WatcherOpens(i)
              \/ WatcherFails(i) \/ Hydrates(i) \/ HydrationFails(i) \/ SwapsIn(i)
       PROVE  StatusInv'
  <2> doing' = doing /\ entry' = entry
    BY <1>11 DEF LinkGoes, LinkComesUnready, OldWatcherEnds, WatcherReads, WatcherOpens, WatcherFails, Hydrates,
                 HydrationFails, SwapsIn, SpendConn
  <2> QED BY <1>0
<1>12. ASSUME NEW i \in Instances, LinkComes(i) PROVE StatusInv'
  <2> DEFINE As(job) == IF job.of = i /\ job.by = "watch" THEN [job EXCEPT !.by = "old"] ELSE job
  <2>1. doing' = {As(job) : job \in doing} /\ entry' = entry
    BY <1>12 DEF LinkComes
  <2>2. \A job \in doing : As(job) \in Jobs /\ As(job).at = job.at /\ As(job).rev = job.rev
    BY DEF StatusInv, Jobs, Callbacks
  <2> HIDE DEF As
  <2>3. doing' \subseteq Jobs /\ entry'.rev \in Nat
    BY <2>1, <2>2, <1>2
  <2>4. Reads' /\ EntriesKnown'
    BY <2>1, <2>2 DEF StatusInv, Reads, EntriesKnown
  <2>5. SweptByOne'
    BY <2>1, <2>2 DEF StatusInv, SweptByOne
  <2> QED BY <2>3, <2>4, <2>5 DEF StatusInv
<1>13. ASSUME NEW job \in doing, BeatStored(job) PROVE StatusInv'
  <2> DEFINE new == [job EXCEPT !.at = "add"]
  <2>1. new \in Jobs /\ new.at = "add"
    BY DEF StatusInv, Jobs, Steps
  <2>2. doing' = (doing \ {job}) \cup {new} /\ entry' = entry
    BY <1>13 DEF BeatStored, Turns
  <2> HIDE DEF new
  <2> QED BY <2>1, <2>2, <1>1, <1>2, OneMore
<1>14. ASSUME NEW job \in doing, BeatTracked(job) PROVE StatusInv'
  <2> DEFINE new == Job(job.of, "beat", "write", "online")
  <2>1. new \in Jobs /\ new.at = "write"
    BY NewJob DEF Callbacks, Steps, StatusInv, Jobs
  <2>2. (doing' = (doing \ {job}) \cup {new} \/ doing' = doing \ {job}) /\ entry' = entry
    BY <1>14 DEF BeatTracked, Turns, EndsJob
  <2> HIDE DEF new
  <2> QED BY <2>1, <2>2, <1>1, <1>2, OneMore
<1>15. ASSUME NEW job \in doing, ByeUntracks(job) PROVE StatusInv'
  <2> DEFINE new == Job(job.of, "bye", "get", "none")
  <2>1. new \in Jobs /\ new.at = "get" /\ new.rev = 0
    BY NewJob DEF Callbacks, Steps, StatusInv, Jobs
  <2>2. (doing' = (doing \ {job}) \cup {new} \/ doing' = doing \ {job}) /\ entry' = entry
    BY <1>15 DEF ByeUntracks, Turns, EndsJob
  <2> HIDE DEF new
  <2> QED BY <2>1, <2>2, <1>1, <1>2, OneMore
<1>16. ASSUME NEW job \in doing, StatusPut(job) PROVE StatusInv'
  <2>1. doing' = doing \ {job} /\ entry'.rev \in Nat /\ entry.rev <= entry'.rev
    BY <1>16, <1>2 DEF StatusPut, EndsJob
  <2> QED BY <2>1, NoneMore
<1>17. ASSUME NEW job \in doing, OfflineReads(job) PROVE StatusInv'
  <2> DEFINE swept == [job EXCEPT !.at = "sweep"]
             read == [job EXCEPT !.at = "cas", !.rev = entry.rev]
  <2>0. job \in Jobs /\ job.rev = 0
    BY <1>17 DEF StatusInv, Reads, OfflineReads, At
  <2>1. swept \in Jobs /\ swept.at = "sweep" /\ swept.rev = 0
    BY <2>0 DEF Jobs, Steps
  <2>2. read \in Jobs /\ read.at = "cas" /\ read.rev = entry.rev
    BY <2>0, <1>2 DEF Jobs, Steps
  <2>3. \/ doing' = (doing \ {job}) \cup {swept}
        \/ doing' = (doing \ {job}) \cup {read}
        \/ doing' = doing \ {job}
    BY <1>17 DEF OfflineReads, Turns, EndsJob
  <2>4. entry' = entry
    BY <1>17 DEF OfflineReads
  <2> HIDE DEF swept, read
  <2>5. CASE doing' = (doing \ {job}) \cup {swept}
    BY <2>1, <2>4, <2>5, <1>2, OneMore
  <2>6. CASE doing' = (doing \ {job}) \cup {read}
    BY <2>2, <2>4, <2>6, <1>2, OneMore
  <2>7. CASE doing' = doing \ {job}
    BY <2>4, <2>7, <1>2, NoneMore
  <2> QED BY <2>3, <2>5, <2>6, <2>7
<1>18. ASSUME NEW job \in doing, OfflineMarks(job) PROVE StatusInv'
  <2> DEFINE new == [job EXCEPT !.at = "sweep", !.rev = job.rev + 1]
  <2>0. job \in Jobs /\ job.rev \in Nat
    BY DEF StatusInv, Jobs
  <2>1. new \in Jobs /\ new.at = "sweep" /\ new.rev = job.rev + 1
    <3> DEFINE r == job.rev + 1
    <3>1. r \in Nat
      BY <2>0
    <3> HIDE DEF r
    <3>2. [job EXCEPT !.at = "sweep", !.rev = r] \in Jobs
      BY <2>0, <3>1 DEF Jobs, Steps
    <3>3. [job EXCEPT !.at = "sweep", !.rev = r].at = "sweep" /\ [job EXCEPT !.at = "sweep", !.rev = r].rev = r
      BY <2>0 DEF Jobs
    <3> QED BY <3>2, <3>3 DEF r
  <2>2. entry'.rev \in Nat /\ entry.rev <= entry'.rev
    BY <1>18, <1>2 DEF OfflineMarks, MarkedOffline
  <2>3. \/ doing' = doing \ {job}
        \/ doing' = (doing \ {job}) \cup {new} /\ entry.rev = job.rev /\ entry'.rev = entry.rev + 1
    BY <1>18 DEF OfflineMarks, MarkedOffline, Turns, EndsJob
  <2>4. \A o \in doing : o.at = "sweep" => o.rev \in Nat /\ o.rev <= entry.rev
    BY DEF StatusInv, EntriesKnown, Jobs
  <2> HIDE DEF new
  <2>5. CASE doing' = doing \ {job}
    BY <2>2, <2>5, NoneMore
  <2>6. CASE doing' = (doing \ {job}) \cup {new} /\ entry.rev = job.rev /\ entry'.rev = entry.rev + 1
    <3>1. \A o \in doing : o.at = "sweep" => o.rev < new.rev
      BY <2>6, <2>4, <2>1, <1>2
    <3> QED BY <3>1, <2>1, <2>2, <2>6, OneMore
  <2> QED BY <2>3, <2>5, <2>6
<1>19. ASSUME NEW job \in doing, Sweep(job) PROVE StatusInv'
  <2>1. doing' = doing \ {job} /\ entry' = entry
    BY <1>19 DEF Sweep, EndsJob
  <2> QED BY <2>1, <1>2, NoneMore
<1>20. CASE UNCHANGED connectionVars
  BY <1>20, <1>0 DEF connectionVars
<1>21. ASSUME ConnectionNext PROVE StatusInv'
  <2>1. ASSUME NEW c \in Browsers,
               \/ OpenBrowser(c) \/ BrowserReturns(c) \/ NextBeat(c) \/ CloseBrowser(c)
               \/ BrowserDies(c) \/ BrowserIsCut(c) \/ ConnectionExpires(c)
               \/ \E s \in {"away", "offline"} : ChooseStatus(c, s)
        PROVE  StatusInv'
    BY <2>1, <1>3
  <2>2. ASSUME NEW i \in Instances,
               \/ \E c \in Browsers : BeatTaken(i, c) \/ ByeTaken(i, c)
               \/ \E s \in {"away", "offline"} : SetTaken(i, s)
        PROVE  StatusInv'
    BY <2>2, <1>6, <1>7, <1>8
  <2>3. ASSUME NEW i \in Instances, WatcherTakes(i) \/ OldWatcherTakes(i) PROVE StatusInv'
    BY <2>3, <1>9
  <2>4. ASSUME NEW i \in Instances,
               \/ RoomNewsTaken(i) \/ LinkGoes(i) \/ LinkComes(i) \/ LinkComesUnready(i) \/ OldWatcherEnds(i)
               \/ WatcherReads(i) \/ WatcherOpens(i) \/ WatcherFails(i)
               \/ Hydrates(i) \/ HydrationFails(i) \/ SwapsIn(i)
        PROVE  StatusInv'
    BY <2>4, <1>10, <1>11, <1>12
  <2>5. ASSUME NEW job \in doing,
               \/ BeatStored(job) \/ BeatTracked(job) \/ ByeUntracks(job) \/ StatusPut(job)
               \/ OfflineReads(job) \/ OfflineMarks(job) \/ Sweep(job)
        PROVE  StatusInv'
    BY <2>5, <1>13, <1>14, <1>15, <1>16, <1>17, <1>18, <1>19
  <2> QED BY <1>21, <1>4, <1>5, <2>1, <2>2, <2>3, <2>4, <2>5 DEF ConnectionNext
<1> QED BY <1>20, <1>21

\* However many instances see the last connection of a user go, one takes him out of
\* his rooms for each time he is marked offline.
THEOREM OneSweeper == ConnectionSpec => []SweptByOne
<1>1. ConnectionInit => StatusInv
  BY DEF ConnectionInit, StatusInv, Reads, EntriesKnown, SweptByOne, conServer
<1>2. StatusInv /\ [ConnectionNext]_connectionVars => StatusInv'
  BY SInvKept
<1>3. StatusInv => SweptByOne
  BY DEF StatusInv
<1> QED BY <1>1, <1>2, <1>3, PTL DEF ConnectionSpec

-----------------------------------------------------------------------------
(* Types.                                                                   *)

Notes == {"put", "gone"} \X Browsers
Signals == ({"beat", "bye"} \X Browsers) \cup ({"set"} \X {"away", "offline"})

\* What a callback does at a step is about a tab, or about a status.
Fitting == \A job \in doing : /\ job.at \in {"put", "add", "remove"} => job.tab \in Browsers
                              /\ job.at = "write" => job.tab \in {"online", "away", "offline"}

\* What the tabs, room-service and the buckets keep, and what the instances do.
Sides ==
  /\ browser \in [Browsers -> {"new", "open", "cut", "gone"}]
  /\ within \in BOOLEAN /\ sound \in BOOLEAN /\ wishes \in [join : Nat, leave : Nat]
  /\ signals \subseteq Signals
  /\ conns \subseteq Browsers /\ marks \subseteq Browsers \ conns
  /\ entry \in [status : {"none", "online", "away", "offline"}, rev : Nat]
Held ==
  /\ reach \in [Instances -> BOOLEAN] /\ index \in [Instances -> BOOLEAN]
  /\ watching \in [Instances -> {"reading", "opening", "live", "off"}]
  /\ watched \in [Instances -> Seq(Notes)] /\ older \in [Instances -> Seq(Notes)]
  /\ roomNews \in [Instances -> Seq({"join", "leave"})]
  /\ tracked \in [Instances -> SUBSET Browsers]
  /\ snapshot \in [Instances -> {Unread, "asked", "lost", "in", "out"}]
Named == causes \subseteq {"ghost", "unseen", "marked", "evicted", "blind", "hidden", "crossed", "swapped", "late", "missed"}
CTypes == Sides /\ Held /\ Named /\ Fitting /\ doing \subseteq Jobs

\* What the watchers are told are notes.
LEMMA ToldTypes ==
  ASSUME CTypes, NEW op \in {"put", "gone"}, NEW c \in Browsers, Told(op, c)
  PROVE  watched' \in [Instances -> Seq(Notes)]
<1>1. <<op, c>> \in Notes
  BY DEF Notes
<1>2. \A i \in Instances : watched[i] \in Seq(Notes) /\ Append(watched[i], <<op, c>>) \in Seq(Notes)
  BY <1>1 DEF CTypes, Held
<1> QED BY <1>2 DEF Told

\* The callbacks that are there after a step fit, when the new ones do.
LEMMA FitOneMore ==
  ASSUME CTypes, NEW new \in Jobs, doing' \subseteq doing \cup {new},
         new.at \in {"put", "add", "remove"} => new.tab \in Browsers,
         new.at = "write" => new.tab \in {"online", "away", "offline"}
  PROVE  Fitting' /\ doing' \subseteq Jobs
BY DEF CTypes, Fitting

\* The callbacks fit at every step.
LEMMA Fits ==
  ASSUME CTypes, ConnectionNext, entry.rev \in Nat
  PROVE  Fitting' /\ doing' \subseteq Jobs
<1> USE DEF conServer, conRoom, conHeld, conGhosts
<1>1. CASE doing' \subseteq doing
  BY <1>1 DEF CTypes, Fitting
<1>2. ASSUME NEW i \in Instances, NEW c \in Browsers, BeatTaken(i, c)
      PROVE  Fitting' /\ doing' \subseteq Jobs
  <2> DEFINE new == [Job(i, "beat", "put", c) EXCEPT !.first = (tracked[i] = {})]
  <2>1. new \in Jobs /\ new.at = "put" /\ new.tab = c
    BY DEF Job, Jobs, Callbacks, Steps
  <2>2. doing' = doing \cup {new}
    BY <1>2 DEF BeatTaken, StartsJob
  <2> HIDE DEF new
  <2> QED BY <2>1, <2>2, FitOneMore
<1>3. ASSUME NEW i \in Instances, NEW s \in Callbacks, NEW at \in Steps,
             NEW tab \in Browsers \cup {"none", "online", "away", "offline"},
             at \in {"put", "add", "remove"} => tab \in Browsers,
             at = "write" => tab \in {"online", "away", "offline"},
             doing' \subseteq doing \cup {Job(i, s, at, tab)}
      PROVE  Fitting' /\ doing' \subseteq Jobs
  <2> DEFINE new == Job(i, s, at, tab)
  <2>1. new \in Jobs /\ new.at = at /\ new.tab = tab
    BY DEF Job, Jobs
  <2> HIDE DEF new
  <2> QED BY <1>3, <2>1, FitOneMore DEF new
<1>4. ASSUME NEW job \in doing, NEW new \in Jobs, doing' \subseteq doing \cup {new},
             new.tab = job.tab, new.at \in {"sweep", "cas"} \/ (job.at = "put" /\ new.at = "add")
      PROVE  Fitting' /\ doing' \subseteq Jobs
  BY <1>4, FitOneMore DEF CTypes, Fitting
<1>5. ASSUME NEW i \in Instances, LinkComes(i)
      PROVE  Fitting' /\ doing' \subseteq Jobs
  <2> DEFINE As(job) == IF job.of = i /\ job.by = "watch" THEN [job EXCEPT !.by = "old"] ELSE job
  <2>1. doing' = {As(job) : job \in doing}
    BY <1>5 DEF LinkComes
  <2>2. \A job \in doing : As(job) \in Jobs /\ As(job).at = job.at /\ As(job).tab = job.tab
    BY DEF CTypes, Jobs, Callbacks
  <2> HIDE DEF As
  <2> QED BY <2>1, <2>2 DEF CTypes, Fitting
<1>6. ASSUME NEW job \in doing, BeatStored(job) \/ BeatTracked(job) \/ ByeUntracks(job) \/ StatusPut(job)
                                \/ OfflineReads(job) \/ OfflineMarks(job) \/ Sweep(job)
      PROVE  Fitting' /\ doing' \subseteq Jobs
  <2>0. job \in Jobs /\ job.of \in Instances /\ job.rev \in Nat
    BY DEF CTypes, Jobs
  <2>1. CASE BeatStored(job)
    <3>1. [job EXCEPT !.at = "add"] \in Jobs /\ [job EXCEPT !.at = "add"].at = "add"
          /\ [job EXCEPT !.at = "add"].tab = job.tab
      BY <2>0 DEF Jobs, Steps
    <3>2. job.at = "put" /\ doing' \subseteq doing \cup {[job EXCEPT !.at = "add"]}
      BY <2>1 DEF BeatStored, At, Turns
    <3> QED BY <3>1, <3>2, <1>4
  <2>2. CASE BeatTracked(job)
    <3>1. doing' \subseteq doing \cup {Job(job.of, "beat", "write", "online")}
      BY <2>2 DEF BeatTracked, Turns, EndsJob
    <3> QED BY <3>1, <2>0, <1>3 DEF Callbacks, Steps
  <2>3. CASE ByeUntracks(job)
    <3>1. doing' \subseteq doing \cup {Job(job.of, "bye", "get", "none")}
      BY <2>3 DEF ByeUntracks, Turns, EndsJob
    <3> QED BY <3>1, <2>0, <1>3 DEF Callbacks, Steps
  <2>4. CASE StatusPut(job) \/ Sweep(job)
    BY <1>1, <2>4 DEF StatusPut, Sweep, EndsJob
  <2>5. CASE OfflineReads(job)
    <3> DEFINE r == entry.rev
               swept == [job EXCEPT !.at = "sweep"]
               read == [job EXCEPT !.at = "cas", !.rev = r]
    <3>1. swept \in Jobs /\ swept.at = "sweep" /\ swept.tab = job.tab
      BY <2>0 DEF Jobs, Steps
    <3>2. r \in Nat
      OBVIOUS
    <3>3. read \in Jobs /\ read.at = "cas" /\ read.tab = job.tab
      <4> HIDE DEF r
      <4> QED BY <2>0, <3>2 DEF Jobs, Steps
    <3>4. doing' \subseteq doing \cup {swept} \/ doing' \subseteq doing \cup {read}
      BY <2>5 DEF OfflineReads, Turns, EndsJob
    <3> HIDE DEF swept, read
    <3> QED BY <3>1, <3>3, <3>4, <1>4
  <2>6. CASE OfflineMarks(job)
    <3> DEFINE r == job.rev + 1
               new == [job EXCEPT !.at = "sweep", !.rev = r]
    <3>1. r \in Nat
      BY <2>0
    <3>2. new \in Jobs /\ new.at = "sweep" /\ new.tab = job.tab
      <4> HIDE DEF r
      <4> QED BY <2>0, <3>1 DEF Jobs, Steps
    <3>3. doing' \subseteq doing \cup {new}
      BY <2>6 DEF OfflineMarks, Turns, EndsJob
    <3> HIDE DEF new
    <3> QED BY <3>2, <3>3, <1>4
  <2> QED BY <1>6, <2>1, <2>2, <2>3, <2>4, <2>5, <2>6
<1>7. ASSUME NEW i \in Instances,
             \/ \E c \in Browsers : BeatTaken(i, c) \/ ByeTaken(i, c)
             \/ \E s \in {"away", "offline"} : SetTaken(i, s)
             \/ WatcherTakes(i) \/ OldWatcherTakes(i) \/ RoomNewsTaken(i)
      PROVE  Fitting' /\ doing' \subseteq Jobs
  <2>1. ASSUME NEW c \in Browsers, ByeTaken(i, c)
        PROVE  Fitting' /\ doing' \subseteq Jobs
    <3>1. doing' \subseteq doing \cup {Job(i, "bye", "remove", c)}
      BY <2>1 DEF ByeTaken, StartsJob
    <3> QED BY <3>1, <1>3 DEF Callbacks, Steps
  <2>2. ASSUME NEW s \in {"away", "offline"}, SetTaken(i, s)
        PROVE  Fitting' /\ doing' \subseteq Jobs
    <3>1. doing' \subseteq doing \cup {Job(i, "set", "write", s)}
      BY <2>2 DEF SetTaken, StartsJob
    <3> QED BY <3>1, <1>3 DEF Callbacks, Steps
  <2>3. CASE WatcherTakes(i) \/ OldWatcherTakes(i)
    <3>1. PICK s \in {"watch", "old"} : doing' \subseteq doing \cup {Job(i, s, "get", "none")}
      BY <2>3 DEF WatcherTakes, OldWatcherTakes, StartsJob
    <3> QED BY <3>1, <1>3 DEF Callbacks, Steps
  <2>4. CASE RoomNewsTaken(i)
    <3>1. doing' \subseteq doing \cup {Job(i, "room", "write", "online")}
      BY <2>4 DEF RoomNewsTaken, StartsJob
    <3> QED BY <3>1, <1>3 DEF Callbacks, Steps
  <2> QED BY <1>2, <1>7, <2>1, <2>2, <2>3, <2>4
<1>8. \/ doing' \subseteq doing
      \/ \E i \in Instances :
           \/ LinkComes(i) \/ WatcherTakes(i) \/ OldWatcherTakes(i) \/ RoomNewsTaken(i)
           \/ \E c \in Browsers : BeatTaken(i, c) \/ ByeTaken(i, c)
           \/ \E s \in {"away", "offline"} : SetTaken(i, s)
      \/ \E job \in doing : BeatStored(job) \/ BeatTracked(job) \/ ByeUntracks(job) \/ StatusPut(job)
                            \/ OfflineReads(job) \/ OfflineMarks(job) \/ Sweep(job)
  BY DEF ConnectionNext, OpenBrowser, BrowserReturns, Appear, NextBeat, CloseBrowser, BrowserDies, BrowserIsCut,
         ConnectionExpires, ChooseStatus, MessageLost, RoomServes, LinkGoes, LinkComesUnready, OldWatcherEnds,
         WatcherReads, WatcherOpens, WatcherFails, Hydrates, HydrationFails, SwapsIn
<1> QED BY <1>1, <1>5, <1>6, <1>7, <1>8
\* The tabs, room-service and the buckets keep their types.
LEMMA SidesKept ==
  ASSUME CTypes, ConnectionNext
  PROVE  Sides'
<1> USE DEF conServer, conRoom, conHeld, conGhosts, Sides, CTypes
<1>0. \A kind \in ConnKinds : SpendConn(kind) => sound' \in BOOLEAN
  BY DEF SpendConn
<1>1. ASSUME NEW c \in Browsers,
             OpenBrowser(c) \/ BrowserReturns(c) \/ NextBeat(c) \/ CloseBrowser(c)
             \/ BrowserDies(c) \/ BrowserIsCut(c) \/ ConnectionExpires(c)
             \/ \E s \in {"away", "offline"} : ChooseStatus(c, s)
      PROVE  Sides'
  <2>1. <<"beat", c>> \in Signals /\ <<"bye", c>> \in Signals /\ \A s \in {"away", "offline"} : <<"set", s>> \in Signals
    BY DEF Signals
  <2>2. [wishes EXCEPT !.join = wishes.join + 1] \in [join : Nat, leave : Nat]
        /\ [wishes EXCEPT !.leave = wishes.leave + 1] \in [join : Nat, leave : Nat]
    OBVIOUS
  <2>3. CASE OpenBrowser(c) \/ BrowserReturns(c)
    BY <2>1, <2>2, <2>3 DEF OpenBrowser, BrowserReturns, Appear
  <2>4. CASE NextBeat(c) \/ CloseBrowser(c)
    BY <1>0, <2>1, <2>2, <2>4 DEF NextBeat, CloseBrowser, ConnKinds
  <2>5. CASE BrowserDies(c) \/ BrowserIsCut(c)
    BY <1>0, <2>5 DEF BrowserDies, BrowserIsCut, ConnKinds
  <2>6. CASE ConnectionExpires(c)
    BY <2>6 DEF ConnectionExpires
  <2>7. CASE \E s \in {"away", "offline"} : ChooseStatus(c, s)
    BY <1>0, <2>1, <2>7 DEF ChooseStatus, ConnKinds
  <2> QED BY <1>1, <2>3, <2>4, <2>5, <2>6, <2>7
<1>2. ASSUME NEW m \in signals, MessageLost(m) PROVE Sides'
  BY <1>0, <1>2 DEF MessageLost, ConnKinds
<1>3. ASSUME NEW wish \in {"join", "leave"}, RoomServes(wish) PROVE Sides'
  <2>1. wishes' = [wishes EXCEPT ![wish] = wishes[wish] - 1] /\ wishes[wish] > 0
    BY <1>3 DEF RoomServes
  <2>2. wishes' \in [join : Nat, leave : Nat]
    BY <2>1
  <2> QED BY <1>3, <2>2 DEF RoomServes
<1>4. ASSUME NEW i \in Instances, NEW c \in Browsers, BeatTaken(i, c) \/ ByeTaken(i, c) PROVE Sides'
  <2>1. CASE BeatTaken(i, c)
    BY <2>1 DEF BeatTaken
  <2>2. CASE ByeTaken(i, c)
    BY <1>0, <2>2 DEF ByeTaken, ConnKinds
  <2> QED BY <1>4, <2>1, <2>2
<1>5. ASSUME NEW i \in Instances,
             \/ \E s \in {"away", "offline"} : SetTaken(i, s)
             \/ WatcherTakes(i) \/ OldWatcherTakes(i) \/ RoomNewsTaken(i) \/ LinkComes(i) \/ OldWatcherEnds(i)
             \/ WatcherReads(i) \/ WatcherOpens(i) \/ Hydrates(i) \/ SwapsIn(i)
      PROVE  Sides'
  <2>1. UNCHANGED <<browser, within, wishes, conns, marks, entry, sound>> /\ signals' \subseteq signals
    BY <1>5 DEF SetTaken, WatcherTakes, OldWatcherTakes, RoomNewsTaken, LinkComes, OldWatcherEnds, WatcherReads,
                WatcherOpens, Hydrates, SwapsIn
  <2> QED BY <2>1
<1>6. ASSUME NEW i \in Instances, LinkGoes(i) \/ LinkComesUnready(i) \/ WatcherFails(i) \/ HydrationFails(i)
      PROVE  Sides'
  <2>1. UNCHANGED <<browser, within, wishes, conns, marks, entry, signals>> /\ sound' \in BOOLEAN
    BY <1>0, <1>6 DEF LinkGoes, LinkComesUnready, WatcherFails, HydrationFails, ConnKinds
  <2> QED BY <2>1
<1>7. ASSUME NEW job \in doing, Fails(job) \/ Served(job) PROVE sound' \in BOOLEAN
  BY <1>0, <1>7 DEF Fails, Served, ConnKinds
<1>8. ASSUME NEW job \in doing, BeatStored(job) \/ BeatTracked(job) \/ ByeUntracks(job) PROVE Sides'
  <2>1. CASE BeatStored(job)
    <3>1. job.tab \in Browsers
      BY <2>1 DEF BeatStored, At, Fitting
    <3>2. sound' \in BOOLEAN
      BY <1>7, <2>1 DEF BeatStored
    <3>3. UNCHANGED <<browser, within, wishes, signals, entry>>
      BY <2>1 DEF BeatStored
    <3>4. conns' \subseteq Browsers /\ marks' \subseteq Browsers \ conns'
      BY <2>1, <3>1 DEF BeatStored
    <3> QED BY <3>2, <3>3, <3>4
  <2>2. CASE BeatTracked(job) \/ ByeUntracks(job)
    <3>1. UNCHANGED <<browser, within, wishes, signals, conns, marks, entry, sound>>
      BY <2>2 DEF BeatTracked, ByeUntracks
    <3> QED BY <3>1
  <2> QED BY <1>8, <2>1, <2>2
<1>9. ASSUME NEW job \in doing, StatusPut(job) PROVE Sides'
  <2>1. job.tab \in {"online", "away", "offline"}
    BY <1>9 DEF StatusPut, At, Fitting
  <2>2. sound' \in BOOLEAN
    BY <1>7, <1>9 DEF StatusPut
  <2>3. [status |-> job.tab, rev |-> entry.rev + 1] \in [status : {"none", "online", "away", "offline"}, rev : Nat]
    BY <2>1
  <2> QED BY <1>9, <2>2, <2>3 DEF StatusPut
<1>10. ASSUME NEW job \in doing, OfflineReads(job) PROVE Sides'
  <2>1. sound' \in BOOLEAN
    BY <1>7, <1>10 DEF OfflineReads
  <2> QED BY <1>10, <2>1 DEF OfflineReads
<1>11. ASSUME NEW job \in doing, OfflineMarks(job) PROVE Sides'
  <2>1. sound' \in BOOLEAN
    BY <1>7, <1>11 DEF OfflineMarks
  <2>2. entry' = entry \/ entry' = [status |-> "offline", rev |-> entry.rev + 1]
    BY <1>11 DEF OfflineMarks, MarkedOffline
  <2>3. UNCHANGED <<browser, within, wishes, signals, conns, marks>>
    BY <1>11 DEF OfflineMarks
  <2> QED BY <2>1, <2>2, <2>3
<1>12. ASSUME NEW job \in doing, Sweep(job) PROVE Sides'
  <2>1. [wishes EXCEPT !.leave = wishes.leave + 1] \in [join : Nat, leave : Nat]
    OBVIOUS
  <2> QED BY <1>12, <2>1 DEF Sweep
<1> QED BY <1>1, <1>2, <1>3, <1>4, <1>5, <1>6, <1>8, <1>9, <1>10, <1>11, <1>12 DEF ConnectionNext

\* The causes are those that have a name.
LEMMA NamedKept ==
  ASSUME CTypes, ConnectionNext
  PROVE  Named'
<1> USE DEF conServer, conRoom, conHeld, conGhosts, Named, CTypes
<1>1. CASE UNCHANGED causes
  BY <1>1
<1>2. ASSUME NEW c \in Browsers, ConnectionExpires(c) PROVE Named'
  BY <1>2 DEF ConnectionExpires
<1>3. ASSUME NEW i \in Instances, OldWatcherTakes(i) \/ RoomNewsTaken(i) \/ LinkComesUnready(i) PROVE Named'
  BY <1>3 DEF OldWatcherTakes, RoomNewsTaken, LinkComesUnready
<1>4. ASSUME NEW job \in doing, BeatStored(job) \/ BeatTracked(job) \/ ByeUntracks(job) \/ StatusPut(job) PROVE Named'
  BY <1>4 DEF BeatStored, BeatTracked, ByeUntracks, StatusPut
<1>5. ASSUME NEW job \in doing, OfflineMarks(job) PROVE Named'
  BY <1>5 DEF OfflineMarks, MarkedOffline
<1>6. ASSUME NEW job \in doing, Sweep(job) PROVE Named'
  BY <1>6 DEF Sweep
<1>7. \/ UNCHANGED causes
      \/ \E c \in Browsers : ConnectionExpires(c)
      \/ \E i \in Instances : OldWatcherTakes(i) \/ RoomNewsTaken(i) \/ LinkComesUnready(i)
      \/ \E job \in doing : \/ BeatStored(job) \/ BeatTracked(job) \/ ByeUntracks(job) \/ StatusPut(job)
                            \/ OfflineMarks(job) \/ Sweep(job)
  BY ZenonT(40) DEF ConnectionNext, OpenBrowser, BrowserReturns, Appear, NextBeat, CloseBrowser, BrowserDies, BrowserIsCut,
         ChooseStatus, MessageLost, RoomServes, BeatTaken, ByeTaken, SetTaken, WatcherTakes, LinkGoes, LinkComes,
         OldWatcherEnds, WatcherReads, WatcherOpens, WatcherFails, Hydrates, HydrationFails, SwapsIn, OfflineReads
<1> QED BY <1>1, <1>2, <1>3, <1>4, <1>5, <1>6, <1>7
\* The instances keep their types.
LEMMA HeldKept ==
  ASSUME CTypes, ConnectionNext
  PROVE  Held'
<1> USE DEF conServer, conRoom, conHeld, conGhosts, Held, CTypes
<1>0. \A i \in Instances : watched[i] \in Seq(Notes) /\ older[i] \in Seq(Notes) /\ roomNews[i] \in Seq({"join", "leave"})
                           /\ tracked[i] \subseteq Browsers
  OBVIOUS
<1>1. CASE UNCHANGED <<reach, index, watching, watched, older, roomNews, tracked, snapshot>>
  BY <1>1
<1>2. ASSUME NEW c \in Browsers, ConnectionExpires(c) PROVE Held'
  BY <1>2, ToldTypes DEF ConnectionExpires
<1>3. ASSUME NEW wish \in {"join", "leave"}, RoomServes(wish) PROVE Held'
  <2> DEFINE news == IF wish = "join" /\ within THEN <<>> ELSE <<wish>>
  <2>1. news \in Seq({"join", "leave"})
    <3>1. <<>> \in Seq({"join", "leave"}) /\ <<wish>> \in Seq({"join", "leave"})
      OBVIOUS
    <3> QED BY <3>1
  <2>2. \A i \in Instances : roomNews[i] \o news \in Seq({"join", "leave"})
    BY <1>0, <2>1
  <2>3. roomNews' = [i \in Instances |-> IF reach[i] THEN roomNews[i] \o news ELSE roomNews[i]]
    BY <1>3 DEF RoomServes
  <2> HIDE DEF news
  <2>4. roomNews' \in [Instances -> Seq({"join", "leave"})]
    BY <1>0, <2>2, <2>3
  <2> QED BY <1>3, <2>4 DEF RoomServes
<1>4. ASSUME NEW i \in Instances, NEW c \in Browsers, ByeTaken(i, c) PROVE Held'
  <2>1. watched' \in [Instances -> Seq(Notes)]
    BY <1>4, ToldTypes DEF ByeTaken
  <2> QED BY <1>4, <2>1 DEF ByeTaken
<1>5. ASSUME NEW i \in Instances, WatcherTakes(i) PROVE Held'
  <2>1. watched[i] # <<>> /\ Head(watched[i]) \in Notes /\ Tail(watched[i]) \in Seq(Notes)
    BY <1>0, <1>5 DEF WatcherTakes
  <2>2. Head(watched[i])[2] \in Browsers
    BY <2>1 DEF Notes
  <2>3. PICK t \in SUBSET Browsers : tracked' = [tracked EXCEPT ![i] = t]
    <3>1. CASE Head(watched[i])[1] = "put"
      BY <1>0, <1>5, <2>2, <3>1 DEF WatcherTakes
    <3>2. CASE Head(watched[i])[1] # "put"
      BY <1>0, <1>5, <2>2, <3>2 DEF WatcherTakes
    <3> QED BY <3>1, <3>2
  <2>4. tracked' \in [Instances -> SUBSET Browsers]
    BY <2>3
  <2> QED BY <1>5, <2>1, <2>4 DEF WatcherTakes
<1>6. ASSUME NEW i \in Instances, OldWatcherTakes(i) PROVE Held'
  <2>1. older[i] # <<>> /\ Head(older[i]) \in Notes /\ Tail(older[i]) \in Seq(Notes)
    BY <1>0, <1>6 DEF OldWatcherTakes
  <2>2. Head(older[i])[2] \in Browsers
    BY <2>1 DEF Notes
  <2>3. PICK t \in SUBSET Browsers : tracked' = [tracked EXCEPT ![i] = t]
    <3>1. CASE Head(older[i])[1] = "put"
      BY <1>0, <1>6, <2>2, <3>1 DEF OldWatcherTakes
    <3>2. CASE Head(older[i])[1] # "put"
      BY <1>0, <1>6, <2>2, <3>2 DEF OldWatcherTakes
    <3> QED BY <3>1, <3>2
  <2>4. tracked' \in [Instances -> SUBSET Browsers]
    BY <2>3
  <2> QED BY <1>6, <2>1, <2>4 DEF OldWatcherTakes
<1>7. ASSUME NEW i \in Instances, RoomNewsTaken(i) PROVE Held'
  <2>1. roomNews[i] # <<>> /\ Tail(roomNews[i]) \in Seq({"join", "leave"})
    BY <1>0, <1>7 DEF RoomNewsTaken
  <2> QED BY <1>7, <2>1 DEF RoomNewsTaken
<1>8. ASSUME NEW i \in Instances, LinkGoes(i) \/ LinkComes(i) \/ LinkComesUnready(i) \/ OldWatcherEnds(i)
                                  \/ WatcherReads(i) \/ WatcherFails(i)
                                  \/ Hydrates(i) \/ HydrationFails(i) \/ SwapsIn(i)
      PROVE  Held'
  <2>1. <<>> \in Seq(Notes) /\ <<>> \in Seq({"join", "leave"}) /\ conns \subseteq Browsers
    BY DEF Sides
  <2>2. CASE LinkGoes(i)
    BY <2>1, <2>2 DEF LinkGoes
  <2>3. CASE LinkComes(i)
    BY <1>0, <2>1, <2>3 DEF LinkComes
  <2>4. CASE OldWatcherEnds(i)
    BY <2>1, <2>4 DEF OldWatcherEnds
  <2>5. CASE WatcherReads(i)
    BY <1>0, <2>1, <2>5 DEF WatcherReads
  <2>6. CASE WatcherFails(i)
    BY <2>6 DEF WatcherFails
  <2>7. CASE Hydrates(i)
    BY <2>7 DEF Hydrates
  <2>8. CASE HydrationFails(i)
    BY <2>8 DEF HydrationFails
  <2>9. CASE SwapsIn(i)
    BY <2>9 DEF SwapsIn
  <2>10. CASE LinkComesUnready(i)
    BY <2>10 DEF LinkComesUnready
  <2> QED BY <1>8, <2>2, <2>3, <2>4, <2>5, <2>6, <2>7, <2>8, <2>9, <2>10
<1>9. ASSUME NEW i \in Instances, WatcherOpens(i) PROVE Held'
  <2> DEFINE keys == conns \cup marks
  <2>1. PICK all \in [1..Cardinality(keys) -> keys] :
          watched' = [watched EXCEPT ![i] = [n \in DOMAIN all |-> <<IF all[n] \in conns THEN "put" ELSE "gone", all[n]>>]]
    BY <1>9 DEF WatcherOpens
  <2> DEFINE s == [n \in DOMAIN all |-> <<IF all[n] \in conns THEN "put" ELSE "gone", all[n]>>]
  <2>2. keys \subseteq Browsers
    BY DEF Sides
  <2>3. s \in Seq(Notes)
    <3>1. Cardinality(keys) \in Nat
      BY <2>2, Deployed, FS_Subset, FS_CardinalityType
    <3>2. \A n \in 1..Cardinality(keys) : <<IF all[n] \in conns THEN "put" ELSE "gone", all[n]>> \in Notes
      BY <2>2 DEF Notes
    <3>3. s \in [1..Cardinality(keys) -> Notes]
      BY <3>2
    <3>4. PICK k \in Nat : k = Cardinality(keys)
      BY <3>1
    <3>5. s \in [1..k -> Notes]
      BY <3>3, <3>4
    <3> HIDE DEF s, keys
    <3> QED BY <3>5
  <2> HIDE DEF s
  <2> QED BY <1>9, <2>1, <2>3 DEF s, WatcherOpens
<1>10. ASSUME NEW job \in doing, BeatStored(job) PROVE Held'
  <2>1. job.tab \in Browsers
    BY <1>10 DEF BeatStored, At, Fitting
  <2>2. watched' \in [Instances -> Seq(Notes)]
    BY <1>10, <2>1, ToldTypes DEF BeatStored
  <2> QED BY <1>10, <2>2 DEF BeatStored
<1>11. ASSUME NEW job \in doing, BeatTracked(job) \/ ByeUntracks(job) PROVE Held'
  <2>1. job.tab \in Browsers
    BY <1>11 DEF BeatTracked, ByeUntracks, At, Fitting
  <2>2. PICK t \in SUBSET Browsers : tracked' = [tracked EXCEPT ![job.of] = t]
    <3>0. job.of \in Instances
      BY DEF Jobs
    <3>1. CASE BeatTracked(job)
      BY <1>0, <2>1, <3>0, <3>1 DEF BeatTracked
    <3>2. CASE ByeUntracks(job)
      BY <1>0, <3>0, <3>2 DEF ByeUntracks
    <3> QED BY <1>11, <3>1, <3>2
  <2>3. tracked' \in [Instances -> SUBSET Browsers]
    BY <2>2
  <2> QED BY <1>11, <2>3 DEF BeatTracked, ByeUntracks
<1>12. ASSUME NEW job \in doing, Sweep(job) PROVE Held'
  BY <1>12 DEF Sweep
<1>13. \/ UNCHANGED <<reach, index, watching, watched, older, roomNews, tracked, snapshot>>
       \/ \E c \in Browsers : ConnectionExpires(c)
       \/ \E wish \in {"join", "leave"} : RoomServes(wish)
       \/ \E i \in Instances :
            \/ \E c \in Browsers : ByeTaken(i, c)
            \/ WatcherTakes(i) \/ OldWatcherTakes(i) \/ RoomNewsTaken(i)
            \/ LinkGoes(i) \/ LinkComes(i) \/ LinkComesUnready(i) \/ OldWatcherEnds(i) \/ WatcherReads(i) \/ WatcherFails(i)
            \/ Hydrates(i) \/ HydrationFails(i) \/ SwapsIn(i) \/ WatcherOpens(i)
       \/ \E job \in doing : BeatStored(job) \/ BeatTracked(job) \/ ByeUntracks(job) \/ Sweep(job)
  BY ZenonT(40) DEF ConnectionNext, OpenBrowser, BrowserReturns, Appear, NextBeat, CloseBrowser, BrowserDies, BrowserIsCut,
         ChooseStatus, MessageLost, BeatTaken, SetTaken, StatusPut, OfflineReads, OfflineMarks
<1> QED BY <1>2, <1>1, <1>3, <1>4, <1>5, <1>6, <1>7, <1>8, <1>9, <1>10, <1>11, <1>12, <1>13
\* At the start the trackers know the tabs that are there.
LEMMA CTypesStart ==
  ASSUME ConnectionInit
  PROVE  CTypes
<1> USE DEF conServer
<1>1. browser \in [Browsers -> {"new", "open", "cut", "gone"}]
  BY DEF ConnectionInit
<1>2. conns \subseteq Browsers
  BY DEF ConnectionInit
<1>3. Sides
  BY <1>1, <1>2 DEF ConnectionInit, Sides
<1>4. Held
  <2>1. <<>> \in Seq(Notes) /\ <<>> \in Seq({"join", "leave"}) /\ within \in BOOLEAN
    BY <1>3 DEF Sides
  <2> QED BY <1>2, <2>1 DEF ConnectionInit, Held, Unread
<1> QED BY <1>3, <1>4 DEF ConnectionInit, CTypes, Named, Fitting

\* The types, and what the compare-and-set rests on, hold at every step.
LEMMA ConnectionTypes == ConnectionSpec => [](CTypes /\ StatusInv)
<1>1. ConnectionInit => StatusInv
  BY DEF ConnectionInit, StatusInv, Reads, EntriesKnown, SweptByOne, conServer
<1>2. CTypes /\ StatusInv /\ [ConnectionNext]_connectionVars => CTypes' /\ StatusInv'
  <2> SUFFICES ASSUME CTypes, StatusInv, [ConnectionNext]_connectionVars
               PROVE  CTypes' /\ StatusInv'
    OBVIOUS
  <2>1. StatusInv'
    BY SInvKept
  <2>2. CASE ConnectionNext
    <3>1. entry.rev \in Nat
      BY DEF StatusInv
    <3> QED BY <2>1, <2>2, <3>1, Fits, SidesKept, HeldKept, NamedKept DEF CTypes
  <2>3. CASE UNCHANGED connectionVars
    <3>1. CTypes'
      BY <2>3 DEF connectionVars, conServer, conRoom, conHeld, conGhosts, CTypes, Sides, Held, Named, Fitting
    <3> QED BY <2>1, <3>1
  <2> QED BY <2>2, <2>3
<1> QED BY CTypesStart, <1>1, <1>2, PTL DEF ConnectionSpec

\* Every variable keeps its type, for any instances, tabs and faults.
THEOREM ConnectionTypeCorrect == ConnectionSpec => []ConnectionTypeOK
<1>1. CTypes => ConnectionTypeOK
  BY DEF CTypes, Sides, Held, Named, ConnectionTypeOK, Notes, Signals, Jobs, Steps
<1> QED BY <1>1, ConnectionTypes, PTL

-----------------------------------------------------------------------------
(* Trackers.                                                                *)

\* Notes about a tab; and those that are wrong are followed by one that is right.
Has(s, c) == \E n \in 1..Len(s) : s[n][2] = c
Says(s, c, op) ==
  \A n \in 1..Len(s) : s[n][2] = c /\ s[n][1] # op => \E m \in 1..Len(s) : m > n /\ s[m] = <<op, c>>

\* A note that is added is the last about its tab.
LEMMA Added ==
  ASSUME NEW s \in Seq(Notes), NEW op \in {"put", "gone"}, NEW c \in Browsers
  PROVE  LET t == Append(s, <<op, c>>) IN
         /\ Has(t, c) /\ Says(t, c, op)
         /\ \A d \in Browsers \ {c} : Has(t, d) <=> Has(s, d)
         /\ \A d \in Browsers \ {c}, r \in {"put", "gone"} : Says(s, d, r) => Says(t, d, r)
<1> DEFINE t == Append(s, <<op, c>>)
<1>1. PICK k \in Nat : k = Len(s)
  OBVIOUS
<1>2. Len(t) = k + 1 /\ t[k + 1] = <<op, c>> /\ \A n \in 1..k : t[n] = s[n]
  BY <1>1
<1> HIDE DEF t
<1>3. Has(t, c) /\ Says(t, c, op)
  BY <1>1, <1>2 DEF Has, Says
<1>4. \A d \in Browsers \ {c} : Has(t, d) <=> Has(s, d)
  BY <1>1, <1>2 DEF Has
<1>5. ASSUME NEW d \in Browsers \ {c}, NEW r \in {"put", "gone"}, Says(s, d, r)
      PROVE  Says(t, d, r)
  <2> SUFFICES ASSUME NEW n \in 1..k + 1, t[n][2] = d, t[n][1] # r
               PROVE  \E m \in 1..k + 1 : m > n /\ t[m] = <<r, d>>
    BY <1>2 DEF Says
  <2>1. n \in 1..k /\ s[n][2] = d /\ s[n][1] # r
    BY <1>2
  <2>2. PICK m \in 1..k : m > n /\ s[m] = <<r, d>>
    BY <1>1, <1>5, <2>1 DEF Says
  <2> QED BY <1>2, <2>2
<1> QED BY <1>3, <1>4, <1>5 DEF t

\* A note that is taken, when it is the last about its tab, is right.
LEMMA Taken ==
  ASSUME NEW s \in Seq(Notes), s # <<>>, NEW d \in Browsers, NEW r \in {"put", "gone"}, Says(s, d, r)
  PROVE  /\ Says(Tail(s), d, r)
         /\ Has(s, d) /\ ~Has(Tail(s), d) => Head(s) = <<r, d>>
         /\ ~Has(s, d) => ~Has(Tail(s), d) /\ Head(s)[2] # d
         /\ Head(s) \in Notes
<1> DEFINE t == Tail(s)
<1>1. PICK k \in Nat : Len(s) = k + 1
  OBVIOUS
<1>2. Len(t) = k /\ (\A n \in 1..k : t[n] = s[n + 1]) /\ Head(s) = s[1] /\ s[1] \in Notes
  BY <1>1
<1> HIDE DEF t
<1>3. Says(t, d, r)
  <2> SUFFICES ASSUME NEW n \in 1..k, t[n][2] = d, t[n][1] # r
               PROVE  \E m \in 1..k : m > n /\ t[m] = <<r, d>>
    BY <1>2 DEF Says
  <2> HIDE DEF t
  <2>3. n + 1 \in 1..Len(s) /\ s[n + 1] = t[n]
    BY <1>1, <1>2
  <2>1. PICK m \in 1..k + 1 : m > n + 1 /\ s[m] = <<r, d>>
    BY <1>1, <2>3 DEF Says
  <2>2. m - 1 \in 1..k /\ m - 1 > n /\ t[m - 1] = <<r, d>>
    BY <1>2, <2>1
  <2> QED BY <2>2
<1>4. ASSUME Has(s, d), ~Has(t, d)
      PROVE  Head(s) = <<r, d>>
  <2>1. \A n \in 2..k + 1 : s[n][2] # d
    <3> SUFFICES ASSUME NEW n \in 2..k + 1
                 PROVE  s[n][2] # d
      OBVIOUS
    <3>1. n - 1 \in 1..k /\ t[n - 1] = s[n]
      BY <1>2
    <3> QED BY <1>2, <1>4, <3>1 DEF Has
  <2>2. s[1][2] = d
    BY <1>1, <1>4, <2>1 DEF Has
  <2>3. s[1][1] = r
    <3> SUFFICES ASSUME s[1][1] # r
                 PROVE  FALSE
      OBVIOUS
    <3>2. 1 \in 1..Len(s)
      BY <1>1
    <3>1. PICK m \in 1..k + 1 : m > 1 /\ s[m] = <<r, d>>
      BY <1>1, <2>2, <3>2 DEF Says
    <3> QED BY <2>1, <3>1
  <2> QED BY <1>2, <2>2, <2>3 DEF Notes
<1>5. ~Has(s, d) => ~Has(t, d) /\ Head(s)[2] # d
  <2> SUFFICES ASSUME ~Has(s, d)
               PROVE  ~Has(t, d) /\ Head(s)[2] # d
    OBVIOUS
  <2>1. \A n \in 1..k + 1 : s[n][2] # d
    BY <1>1 DEF Has
  <2>2. \A n \in 1..k : n + 1 \in 1..k + 1
    OBVIOUS
  <2> QED BY <1>2, <2>1, <2>2 DEF Has
<1> QED BY <1>2, <1>3, <1>4, <1>5 DEF t
\* What the bucket says of a tab.  A watcher that is live has been told so last, or
\* its tracker says so already; while one begins, the tracker has no tab of which the
\* bucket will not tell it.
Right(c) == IF c \in conns THEN "put" ELSE "gone"
FollowsConns(i, c) ==
  watching[i] = "live" =>
    /\ Says(watched[i], c, Right(c))
    /\ ~Has(watched[i], c) => (c \in tracked[i] <=> c \in conns)
Covers(i, c) == watching[i] \in {"reading", "opening"} /\ c \in tracked[i] => c \in conns \cup marks
Tracks == "ghost" \notin causes => \A i \in Instances, c \in Browsers : FollowsConns(i, c) /\ Covers(i, c)

\* A step that has nothing to do with trackers and the bucket keeps it.
LEMMA TracksStay ==
  ASSUME Tracks, UNCHANGED <<conns, marks, tracked, watching, watched>>, causes \subseteq causes'
  PROVE  Tracks'
BY DEF Tracks, FollowsConns, Covers, Right

\* So does one that has to do with one instance.
LEMMA OneTracker ==
  ASSUME Tracks, NEW i \in Instances, UNCHANGED <<conns, marks>>, causes \subseteq causes',
         \A j \in Instances \ {i} : tracked'[j] = tracked[j] /\ watching'[j] = watching[j] /\ watched'[j] = watched[j],
         "ghost" \notin causes' => \A c \in Browsers : FollowsConns(i, c)' /\ Covers(i, c)'
  PROVE  Tracks'
<1> SUFFICES ASSUME "ghost" \notin causes', NEW j \in Instances, NEW c \in Browsers
             PROVE  FollowsConns(j, c)' /\ Covers(j, c)'
  BY DEF Tracks
<1>1. CASE j = i
  BY <1>1
<1>2. CASE j # i
  <2>1. FollowsConns(j, c) /\ Covers(j, c)
    BY DEF Tracks
  <2> QED BY <1>2, <2>1 DEF FollowsConns, Covers, Right
<1> QED BY <1>1, <1>2

\* A tracker is told what is so, or hears nothing: the watcher's notes stay.
LEMMA TrackerCorrected ==
  ASSUME CTypes, Tracks, NEW i \in Instances, NEW c \in Browsers, NEW t \in SUBSET Browsers,
         t = tracked[i] \cup {c} \/ t = tracked[i] \ {c},
         tracked' = [tracked EXCEPT ![i] = t],
         "ghost" \notin causes' => (c \in conns <=> c \in t),
         UNCHANGED <<conns, marks, watching, watched>>, causes \subseteq causes'
  PROVE  Tracks'
<1>1. tracked' = [tracked EXCEPT ![i] = t] /\ tracked \in [Instances -> SUBSET Browsers]
  BY DEF CTypes, Held
<1>2. tracked'[i] = t /\ \A j \in Instances \ {i} : tracked'[j] = tracked[j]
  BY <1>1
<1>3. ASSUME "ghost" \notin causes', NEW d \in Browsers
      PROVE  FollowsConns(i, d)' /\ Covers(i, d)'
  <2>1. FollowsConns(i, d) /\ Covers(i, d)
    BY <1>3 DEF Tracks
  <2>2. d \in t => d \in tracked[i] \/ d \in conns
    BY <1>3
  <2>3. (d \in tracked[i] <=> d \in conns) => (d \in t <=> d \in conns)
    BY <1>3
  <2> QED BY <1>2, <2>1, <2>2, <2>3 DEF FollowsConns, Covers, Right
<1> QED BY <1>2, <1>3, OneTracker

\* The bucket changes, and the watchers that are live are told.
LEMMA TrackersTold ==
  ASSUME CTypes, Tracks, NEW c \in Browsers, NEW op \in {"put", "gone"}, Told(op, c),
         conns' = IF op = "put" THEN conns \cup {c} ELSE conns \ {c},
         marks \subseteq marks' \cup {c},
         \A i \in Instances :
           "ghost" \notin causes' /\ watching[i] \in {"reading", "opening"} /\ c \in tracked[i] => c \in conns' \cup marks',
         UNCHANGED <<tracked, watching>>, causes \subseteq causes'
  PROVE  Tracks'
<1> SUFFICES ASSUME "ghost" \notin causes', NEW i \in Instances, NEW d \in Browsers
             PROVE  FollowsConns(i, d)' /\ Covers(i, d)'
  BY DEF Tracks
<1>1. FollowsConns(i, d) /\ Covers(i, d)
  BY DEF Tracks
<1>2. watched[i] \in Seq(Notes) /\ (watching[i] = "live" => watched'[i] = Append(watched[i], <<op, c>>))
  BY DEF Told, CTypes, Held
<1>3. Covers(i, d)'
  BY <1>1 DEF Covers
<1>4. CASE d = c
  <2>1. watching[i] = "live" => Has(watched'[i], d) /\ Says(watched'[i], d, op)
    <3>1. ASSUME watching[i] = "live"
          PROVE  Has(Append(watched[i], <<op, c>>), c) /\ Says(Append(watched[i], <<op, c>>), c, op)
      BY <1>2, Added, SMTT(30)
    <3> QED BY <1>2, <1>4, <3>1
  <2>2. Right(d)' = op
    BY <1>4 DEF Right
  <2>3. FollowsConns(i, d)'
    BY <2>1, <2>2 DEF FollowsConns, Right
  <2> QED BY <1>3, <2>3
<1>5. CASE d # c
  <2>1. Right(d)' = Right(d) /\ Right(d) \in {"put", "gone"} /\ (d \in conns' <=> d \in conns)
    BY <1>5 DEF Right
  <2>2. watching[i] = "live" => /\ Has(watched'[i], d) <=> Has(watched[i], d)
                                /\ Says(watched[i], d, Right(d)) => Says(watched'[i], d, Right(d))
    <3>1. d \in Browsers \ {c}
      BY <1>5
    <3>2. ASSUME watching[i] = "live"
          PROVE  /\ Has(Append(watched[i], <<op, c>>), d) <=> Has(watched[i], d)
                 /\ Says(watched[i], d, Right(d)) => Says(Append(watched[i], <<op, c>>), d, Right(d))
      <4>1. /\ \A e \in Browsers \ {c} : Has(Append(watched[i], <<op, c>>), e) <=> Has(watched[i], e)
            /\ \A e \in Browsers \ {c}, r \in {"put", "gone"} :
                 Says(watched[i], e, r) => Says(Append(watched[i], <<op, c>>), e, r)
        BY <1>2, Added
      <4> QED BY <2>1, <3>1, <4>1, Zenon
    <3> QED BY <1>2, <3>2
  <2>3. FollowsConns(i, d)'
    BY <1>1, <2>1, <2>2 DEF FollowsConns
  <2> QED BY <1>3, <2>3
<1> QED BY <1>4, <1>5
\* The second watcher begins with what the bucket says of every tab that it has ever had.
LEMMA TabsOpened ==
  ASSUME CTypes, NEW i \in Instances, WatcherOpens(i)
  PROVE  /\ \A n \in 1..Len(watched'[i]) : watched'[i][n][1] = Right(watched'[i][n][2])
         /\ \A c \in conns \cup marks : Has(watched'[i], c)
<1> DEFINE keys == conns \cup marks
<1>1. PICK all \in [1..Cardinality(keys) -> keys] :
        /\ \A c \in keys : \E n \in DOMAIN all : all[n] = c
        /\ watched' = [watched EXCEPT ![i] = [n \in DOMAIN all |-> <<IF all[n] \in conns THEN "put" ELSE "gone", all[n]>>]]
  BY DEF WatcherOpens
<1> DEFINE s == [n \in DOMAIN all |-> <<IF all[n] \in conns THEN "put" ELSE "gone", all[n]>>]
<1>2. watched'[i] = s
  BY <1>1 DEF CTypes, Held
<1>3. PICK k \in Nat : k = Cardinality(keys)
  BY Deployed, FS_Subset, FS_CardinalityType DEF CTypes, Sides
<1>4. Len(s) = k /\ DOMAIN all = 1..k
  BY <1>1, <1>3
<1>5. \A n \in 1..k : s[n] = <<Right(all[n]), all[n]>>
  BY <1>4 DEF Right
<1>6. ASSUME NEW n \in 1..k
      PROVE  s[n][1] = Right(s[n][2]) /\ s[n][2] = all[n]
  <2>1. s[n] = <<Right(all[n]), all[n]>>
    BY <1>5
  <2> HIDE DEF s
  <2> QED BY <2>1
<1>7. ASSUME NEW c \in keys
      PROVE  Has(s, c)
  <2>1. PICK n \in 1..k : all[n] = c
    BY <1>1, <1>4
  <2>2. s[n][2] = c
    BY <1>6, <2>1
  <2> HIDE DEF s
  <2> QED BY <1>4, <2>2 DEF Has
<1> HIDE DEF s
<1> QED BY <1>2, <1>4, <1>6, <1>7

\* Every step keeps the trackers right.
LEMMA TracksKept ==
  ASSUME CTypes, Tracks, ConnectionNext
  PROVE  Tracks'
<1> USE DEF conServer, conRoom, conHeld, conGhosts
<1>0. \A i \in Instances : watched[i] \in Seq(Notes) /\ older[i] \in Seq(Notes) /\ tracked[i] \subseteq Browsers
  BY DEF CTypes, Held
<1>1. ASSUME UNCHANGED <<conns, marks, tracked, watching, watched>>, causes \subseteq causes'
      PROVE  Tracks'
  BY <1>1, TracksStay
<1>2. ASSUME NEW c \in Browsers, ConnectionExpires(c) PROVE Tracks'
  <2>1. \A i \in Instances :
          "ghost" \notin causes' /\ watching[i] \in {"reading", "opening"} /\ c \in tracked[i] => c \in conns' \cup marks'
    BY <1>2 DEF ConnectionExpires
  <2> QED BY <1>2, <2>1, TrackersTold DEF ConnectionExpires
<1>3. ASSUME NEW i \in Instances, NEW c \in Browsers, ByeTaken(i, c) PROVE Tracks'
  <2>1. CASE UNCHANGED <<conns, marks, watched>>
    BY <1>1, <1>3, <2>1 DEF ByeTaken
  <2>2. CASE conns' = conns \ {c} /\ marks' = marks \cup {c} /\ Told("gone", c)
    BY <1>3, <2>2, TrackersTold DEF ByeTaken
  <2> QED BY <1>3, <2>1, <2>2 DEF ByeTaken
<1>4. ASSUME NEW i \in Instances, WatcherTakes(i) PROVE Tracks'
  <2> DEFINE s == watched[i]
             c == Head(s)[2]
  <2>1. s \in Seq(Notes) /\ s # <<>> /\ watching[i] = "live"
    BY <1>0, <1>4 DEF WatcherTakes
  <2>2. /\ watched'[i] = Tail(s)
        /\ \A j \in Instances \ {i} : tracked'[j] = tracked[j] /\ watching'[j] = watching[j] /\ watched'[j] = watched[j]
    BY <1>4 DEF WatcherTakes, CTypes, Held
  <2>3. tracked'[i] = IF Head(s)[1] = "put" THEN tracked[i] \cup {c} ELSE tracked[i] \ {c}
    BY <1>4 DEF WatcherTakes, CTypes, Held
  <2>4. UNCHANGED <<conns, marks, watching, causes>>
    BY <1>4 DEF WatcherTakes
  <2>5. ASSUME "ghost" \notin causes, NEW d \in Browsers
        PROVE  FollowsConns(i, d)' /\ Covers(i, d)'
    <3>1. Says(s, d, Right(d)) /\ (~Has(s, d) => (d \in tracked[i] <=> d \in conns))
      BY <2>1, <2>5 DEF Tracks, FollowsConns
    <3>2. Right(d)' = Right(d) /\ Right(d) \in {"put", "gone"} /\ (d \in conns <=> Right(d) = "put")
      BY <2>4 DEF Right
    <3> HIDE DEF s
    <3>3. /\ Says(Tail(s), d, Right(d))
          /\ Has(s, d) /\ ~Has(Tail(s), d) => Head(s) = <<Right(d), d>>
          /\ ~Has(s, d) => ~Has(Tail(s), d) /\ Head(s)[2] # d
      BY <2>1, <3>1, <3>2, Taken
    <3>4. Head(s) = <<Right(d), d>> => (d \in tracked'[i] <=> d \in conns)
      BY <2>3, <3>2
    <3>5. Head(s)[2] # d => (d \in tracked'[i] <=> d \in tracked[i])
      BY <2>3
    <3>6. ~Has(Tail(s), d) => (d \in tracked'[i] <=> d \in conns)
      BY <3>1, <3>3, <3>4, <3>5
    <3> QED BY <2>1, <2>2, <2>4, <3>2, <3>3, <3>6 DEF FollowsConns, Covers
  <2> HIDE DEF s, c
  <2> QED BY <2>2, <2>4, <2>5, OneTracker
<1>5. ASSUME NEW i \in Instances, OldWatcherTakes(i) PROVE Tracks'
  <2> DEFINE c == Head(older[i])[2]
  <2>1. Head(older[i]) \in Notes
    BY <1>0, <1>5 DEF OldWatcherTakes
  <2>2. c \in Browsers
    BY <2>1 DEF Notes
  <2> DEFINE t == IF Head(older[i])[1] = "put" THEN tracked[i] \cup {c} ELSE tracked[i] \ {c}
  <2>3. t \in SUBSET Browsers /\ (t = tracked[i] \cup {c} \/ t = tracked[i] \ {c})
    BY <1>0, <2>2
  <2>4. tracked' = [tracked EXCEPT ![i] = t]
    BY <1>5 DEF OldWatcherTakes
  <2>5. "ghost" \notin causes' => (c \in conns <=> c \in t)
    BY <1>5 DEF OldWatcherTakes
  <2>6. UNCHANGED <<conns, marks, watching, watched>> /\ causes \subseteq causes'
    BY <1>5 DEF OldWatcherTakes
  <2> HIDE DEF t, c
  <2> QED BY <2>2, <2>3, <2>4, <2>5, <2>6, TrackerCorrected
<1>6. ASSUME NEW i \in Instances, LinkComes(i) \/ WatcherFails(i) \/ WatcherReads(i) \/ WatcherOpens(i) PROVE Tracks'
  <2>1. /\ \A j \in Instances \ {i} : tracked'[j] = tracked[j] /\ watching'[j] = watching[j] /\ watched'[j] = watched[j]
        /\ UNCHANGED <<conns, marks, causes>>
    BY <1>6 DEF CTypes, Held, LinkComes, WatcherFails, WatcherReads, WatcherOpens, SpendConn
  <2>2. ASSUME "ghost" \notin causes, NEW c \in Browsers
        PROVE  FollowsConns(i, c)' /\ Covers(i, c)'
    <3>0. watching[i] = "opening" => Covers(i, c)
      BY <2>2 DEF Tracks
    <3>1. CASE LinkComes(i)
      <4>1. tracked'[i] = {} /\ watching'[i] = "reading"
        BY <3>1 DEF LinkComes, CTypes, Held
      <4> QED BY <4>1 DEF FollowsConns, Covers
    <3>2. CASE WatcherFails(i)
      <4>1. watching'[i] = "off"
        BY <3>2 DEF WatcherFails, CTypes, Held
      <4> QED BY <4>1 DEF FollowsConns, Covers
    <3>3. CASE WatcherReads(i)
      <4>1. watching'[i] = "opening" /\ tracked'[i] = tracked[i] \cup conns /\ watching[i] = "reading"
        BY <3>3 DEF WatcherReads, CTypes, Held
      <4>2. Covers(i, c)
        BY <2>2 DEF Tracks
      <4> QED BY <2>1, <4>1, <4>2 DEF FollowsConns, Covers
    <3>4. CASE WatcherOpens(i)
      <4>1. watching'[i] = "live" /\ watching[i] = "opening" /\ tracked'[i] = tracked[i]
        BY <3>4 DEF WatcherOpens, CTypes, Held
      <4>2. /\ \A n \in 1..Len(watched'[i]) : watched'[i][n][1] = Right(watched'[i][n][2])
            /\ \A d \in conns \cup marks : Has(watched'[i], d)
        BY <3>4, TabsOpened
      <4>3. Right(c)' = Right(c)
        BY <2>1 DEF Right
      <4>4. Says(watched'[i], c, Right(c))
        BY <4>2 DEF Says
      <4>5. ~Has(watched'[i], c) => c \notin conns \cup marks
        BY <4>2
      <4> QED BY <2>1, <3>0, <4>1, <4>3, <4>4, <4>5 DEF FollowsConns, Covers
    <3> QED BY <1>6, <3>1, <3>2, <3>3, <3>4
  <2> QED BY <2>1, <2>2, OneTracker
<1>10. ASSUME NEW i \in Instances, LinkComesUnready(i) PROVE Tracks'
  <2>1. /\ \A j \in Instances \ {i} : tracked'[j] = tracked[j] /\ watching'[j] = watching[j] /\ watched'[j] = watched[j]
        /\ UNCHANGED <<conns, marks, tracked, watched>> /\ causes \subseteq causes'
        /\ watching'[i] = watching[i] \/ watching'[i] = "off"
    BY <1>10 DEF CTypes, Held, LinkComesUnready
  <2>2. ASSUME "ghost" \notin causes', NEW c \in Browsers
        PROVE  FollowsConns(i, c)' /\ Covers(i, c)'
    <3>1. FollowsConns(i, c) /\ Covers(i, c)
      BY <2>1, <2>2 DEF Tracks
    <3> QED BY <2>1, <3>1 DEF FollowsConns, Covers, Right
  <2> QED BY <2>1, <2>2, OneTracker
<1>7. ASSUME NEW job \in doing, BeatStored(job) PROVE Tracks'
  <2>1. job.tab \in Browsers
    BY <1>7 DEF BeatStored, At, CTypes, Fitting
  <2>2. CASE causes' = causes \cup {"ghost"}
    BY <2>2 DEF Tracks
  <2>3. CASE conns' = conns \cup {job.tab} /\ marks' = marks \ {job.tab} /\ Told("put", job.tab)
             /\ causes \subseteq causes'
    BY <1>7, <2>1, <2>3, TrackersTold DEF BeatStored
  <2> QED BY <1>7, <2>2, <2>3 DEF BeatStored
<1>8. ASSUME NEW job \in doing, BeatTracked(job) \/ ByeUntracks(job) PROVE Tracks'
  <2>1. job.tab \in Browsers /\ job.of \in Instances
    BY <1>8 DEF BeatTracked, ByeUntracks, At, CTypes, Fitting, Jobs
  <2>2. UNCHANGED <<conns, marks, watching, watched>> /\ causes \subseteq causes'
    BY <1>8 DEF BeatTracked, ByeUntracks
  <2>3. tracked[job.of] \cup {job.tab} \in SUBSET Browsers /\ tracked[job.of] \ {job.tab} \in SUBSET Browsers
    BY <1>0, <2>1
  <2>4. CASE BeatTracked(job)
    <3>1. tracked' = [tracked EXCEPT ![job.of] = tracked[job.of] \cup {job.tab}]
          /\ ("ghost" \notin causes' => job.tab \in conns)
      BY <2>4 DEF BeatTracked
    <3> QED BY <2>1, <2>2, <2>3, <3>1, TrackerCorrected, ZenonT(40)
  <2>5. CASE ByeUntracks(job)
    <3>1. tracked' = [tracked EXCEPT ![job.of] = tracked[job.of] \ {job.tab}]
          /\ ("ghost" \notin causes' => job.tab \notin conns)
      BY <2>5 DEF ByeUntracks
    <3> QED BY <2>1, <2>2, <2>3, <3>1, TrackerCorrected, ZenonT(40)
  <2> QED BY <1>8, <2>4, <2>5
<1>9. \/ UNCHANGED <<conns, marks, tracked, watching, watched>> /\ causes \subseteq causes'
      \/ \E c \in Browsers : ConnectionExpires(c)
      \/ \E i \in Instances :
           \/ \E c \in Browsers : ByeTaken(i, c)
           \/ WatcherTakes(i) \/ OldWatcherTakes(i)
           \/ LinkComes(i) \/ LinkComesUnready(i) \/ WatcherFails(i) \/ WatcherReads(i) \/ WatcherOpens(i)
      \/ \E job \in doing : BeatStored(job) \/ BeatTracked(job) \/ ByeUntracks(job)
  BY ZenonT(40) DEF ConnectionNext, OpenBrowser, BrowserReturns, Appear, NextBeat, CloseBrowser, BrowserDies, BrowserIsCut,
         ChooseStatus, MessageLost, BeatTaken, SetTaken, StatusPut, OfflineReads, OfflineMarks, MarkedOffline, RoomServes,
         Sweep, RoomNewsTaken, LinkGoes, OldWatcherEnds, Hydrates, HydrationFails, SwapsIn
<1> QED BY <1>1, <1>2, <1>3, <1>4, <1>5, <1>6, <1>7, <1>8, <1>9, <1>10
-----------------------------------------------------------------------------
(* Rooms.                                                                   *)

\* The last delta that an instance has not taken is how things are; when it has taken
\* all, its index is right, or a sweep has emptied it and said so to room-service; and
\* so is a snapshot that it has read.
Knows(i) ==
  /\ snapshot[i] = Unread => index[i] = within \/ (within /\ wishes.leave > 0)
  /\ snapshot[i] \in {"in", "out"} => (snapshot[i] = "in") = within
Hears(i) ==
  /\ ~reach[i] => roomNews[i] = <<>>
  /\ reach[i] /\ roomNews[i] # <<>> => (roomNews[i][Len(roomNews[i])] = "join") = within
  /\ reach[i] /\ roomNews[i] = <<>> /\ causes \cap {"swapped", "missed"} = {} => Knows(i)
Indexes == \A i \in Instances : Hears(i)

\* Every step of one instance that leaves the room alone is about that instance.
LEMMA OneIndex ==
  ASSUME Indexes, NEW i \in Instances, within' = within, wishes'.leave >= wishes.leave,
         wishes.leave \in Nat, wishes'.leave \in Nat, causes \subseteq causes',
         \A j \in Instances \ {i} : /\ reach'[j] = reach[j] /\ roomNews'[j] = roomNews[j]
                                    /\ index'[j] = index[j] /\ snapshot'[j] = snapshot[j],
         Hears(i)'
  PROVE  Indexes'
<1> SUFFICES ASSUME NEW j \in Instances, j # i
             PROVE  Hears(j)'
  BY DEF Indexes
<1>1. Hears(j)
  BY DEF Indexes
<1>2. Knows(j) => Knows(j)'
  BY DEF Knows
<1> QED BY <1>1, <1>2 DEF Hears

\* What is true of the deltas is true when room-service has sent another.
LEMMA RoomsAnnounced ==
  ASSUME CTypes, Indexes, NEW wish \in {"join", "leave"}, RoomServes(wish)
  PROVE  Indexes'
<1> USE DEF conServer, conHeld, conGhosts
<1> SUFFICES ASSUME NEW i \in Instances
             PROVE  Hears(i)'
  BY DEF Indexes
<1>1. Hears(i) /\ roomNews[i] \in Seq({"join", "leave"})
  BY DEF Indexes, CTypes, Held
<1>2. UNCHANGED <<reach, index, snapshot, causes>> /\ within' = (wish = "join")
  BY DEF RoomServes
<1>3. CASE ~reach[i]
  <2>1. roomNews'[i] = roomNews[i]
    BY <1>3 DEF RoomServes
  <2> QED BY <1>1, <1>2, <1>3, <2>1 DEF Hears
<1>4. CASE reach[i] /\ wish = "join" /\ within
  <2>1. roomNews'[i] = roomNews[i] \o <<>>
    BY <1>4 DEF RoomServes
  <2>5. roomNews[i] \o <<>> = roomNews[i]
    BY <1>1
  <2>6. within \in BOOLEAN
    BY DEF CTypes, Sides
  <2>2. roomNews'[i] = roomNews[i] /\ within' = within
    BY <1>2, <1>4, <2>1, <2>5, <2>6
  <2>3. wishes'.leave = wishes.leave
    BY <1>4 DEF RoomServes, CTypes, Sides
  <2>4. Knows(i)' = Knows(i)
    BY <1>2, <2>2, <2>3 DEF Knows
  <2> QED BY <1>1, <1>2, <2>2, <2>4 DEF Hears
<1>5. CASE reach[i] /\ ~(wish = "join" /\ within)
  <2>1. roomNews'[i] = roomNews[i] \o <<wish>>
    BY <1>5 DEF RoomServes
  <2>2. roomNews'[i] # <<>> /\ roomNews'[i][Len(roomNews'[i])] = wish
    BY <1>1, <2>1
  <2> QED BY <1>2, <1>5, <2>2 DEF Hears
<1> QED BY <1>3, <1>4, <1>5

\* The delta that is taken is the last, or the last is still to be taken.
LEMMA LastTaken ==
  ASSUME NEW D, NEW s \in Seq(D), s # <<>>
  PROVE  /\ Tail(s) = <<>> => Head(s) = s[Len(s)]
         /\ Tail(s) # <<>> => Tail(s)[Len(Tail(s))] = s[Len(s)]
<1>1. PICK k \in Nat : Len(s) = k + 1
  OBVIOUS
<1>2. Len(Tail(s)) = k /\ Tail(s) \in Seq(D)
  BY <1>1
<1>3. Tail(s) = <<>> => k = 0
  BY <1>2
<1>4. Tail(s) # <<>> => k > 0
  BY <1>2
<1> QED BY <1>1, <1>2, <1>3, <1>4

\* And when an instance has taken one.
LEMMA Applied ==
  ASSUME CTypes, Indexes, NEW i \in Instances, RoomNewsTaken(i)
  PROVE  Indexes'
<1>0. Hears(i) /\ roomNews[i] \in Seq({"join", "leave"}) /\ roomNews[i] # <<>> /\ reach[i]
  BY DEF Indexes, CTypes, Held, RoomNewsTaken, Free
<1>1. /\ UNCHANGED <<within, wishes, reach, snapshot>> /\ causes \subseteq causes'
      /\ roomNews'[i] = Tail(roomNews[i]) /\ index'[i] = (Head(roomNews[i]) = "join")
      /\ \A j \in Instances \ {i} : roomNews'[j] = roomNews[j] /\ index'[j] = index[j]
  BY DEF RoomNewsTaken, CTypes, Held
<1>2. snapshot[i] \in {"in", "out"} => "swapped" \in causes'
  BY DEF RoomNewsTaken
<1>3. CASE Tail(roomNews[i]) = <<>>
  <2>1. Head(roomNews[i]) = roomNews[i][Len(roomNews[i])]
    BY <1>0, <1>3, LastTaken
  <2>2. index'[i] = within
    BY <1>0, <1>1, <2>1 DEF Hears
  <2>3. causes' \cap {"swapped", "missed"} = {} => Knows(i)'
    BY <1>1, <1>2, <2>2 DEF Knows
  <2>4. Hears(i)'
    BY <1>0, <1>1, <1>3, <2>3 DEF Hears
  <2> QED BY <1>1, <2>4, OneIndex DEF CTypes, Sides
<1>4. CASE Tail(roomNews[i]) # <<>>
  <2>1. Tail(roomNews[i])[Len(Tail(roomNews[i]))] = roomNews[i][Len(roomNews[i])]
    BY <1>0, <1>4, LastTaken
  <2>2. Hears(i)'
    BY <1>0, <1>1, <1>4, <2>1 DEF Hears
  <2> QED BY <1>1, <2>2, OneIndex DEF CTypes, Sides
<1> QED BY <1>3, <1>4

\* Every step keeps the indexes right.
LEMMA IndexesKept ==
  ASSUME CTypes, Indexes, ConnectionNext
  PROVE  Indexes'
<1> USE DEF conServer, conRoom, conHeld, conGhosts
<1>1. ASSUME UNCHANGED <<within, reach, roomNews, index, snapshot>>, causes \subseteq causes',
             wishes' = wishes \/ wishes' = [wishes EXCEPT !.join = @ + 1] \/ wishes' = [wishes EXCEPT !.leave = @ + 1]
      PROVE  Indexes'
  <2>1. wishes'.leave >= wishes.leave /\ wishes.leave \in Nat /\ wishes'.leave \in Nat
    BY <1>1 DEF CTypes, Sides
  <2> SUFFICES ASSUME NEW i \in Instances
               PROVE  Hears(i)'
    BY DEF Indexes
  <2>2. Knows(i) => Knows(i)'
    BY <1>1, <2>1 DEF Knows
  <2> QED BY <1>1, <2>2 DEF Hears, Indexes
<1>2. ASSUME NEW job \in doing, Sweep(job) PROVE Indexes'
  <2> DEFINE i == job.of
  <2>1. i \in Instances
    BY DEF CTypes, Jobs
  <2>2. /\ UNCHANGED <<within, reach, roomNews, snapshot>> /\ causes \subseteq causes'
        /\ index'[i] = FALSE /\ \A j \in Instances \ {i} : index'[j] = index[j]
    BY <1>2, <2>1 DEF Sweep, CTypes, Held
  <2>3. /\ wishes'.leave >= wishes.leave /\ wishes.leave \in Nat /\ wishes'.leave \in Nat
        /\ index[i] => wishes'.leave > 0
    BY <1>2 DEF Sweep, CTypes, Sides
  <2>4. within \in BOOLEAN /\ index[i] \in BOOLEAN
    BY <2>1 DEF CTypes, Held, Sides
  <2>5. Knows(i) => Knows(i)'
    <3>1. snapshot[i] = Unread /\ Knows(i) /\ within => index[i] = TRUE \/ wishes.leave > 0
      BY <2>4 DEF Knows
    <3>2. snapshot[i] = Unread /\ Knows(i) /\ within => wishes'.leave > 0
      BY <2>3, <3>1
    <3> HIDE DEF i
    <3>3. snapshot'[i] = snapshot[i] /\ within' = within
      BY <2>2
    <3>4. CASE within = TRUE
      BY <2>2, <3>2, <3>3, <3>4 DEF Knows, Unread
    <3>5. CASE within = FALSE
      BY <2>2, <3>3, <3>5 DEF Knows, Unread
    <3> QED BY <2>4, <3>4, <3>5
  <2>6. Hears(i)'
    BY <2>1, <2>2, <2>5 DEF Hears, Indexes
  <2> HIDE DEF i
  <2> QED BY <2>1, <2>2, <2>3, <2>6, OneIndex
<1>3. ASSUME NEW i \in Instances, LinkGoes(i) \/ LinkComes(i) \/ Hydrates(i) \/ HydrationFails(i) \/ SwapsIn(i)
      PROVE  Indexes'
  <2>1. UNCHANGED <<within, wishes, causes>> /\ wishes.leave \in Nat /\ within \in BOOLEAN
    BY <1>3 DEF LinkGoes, LinkComes, Hydrates, HydrationFails, SwapsIn, SpendConn, CTypes, Sides
  <2>2. \A j \in Instances \ {i} : /\ reach'[j] = reach[j] /\ roomNews'[j] = roomNews[j]
                                   /\ index'[j] = index[j] /\ snapshot'[j] = snapshot[j]
    BY <1>3 DEF LinkGoes, LinkComes, Hydrates, HydrationFails, SwapsIn, CTypes, Held
  <2>3. Hears(i)
    BY DEF Indexes
  <2>4. Hears(i)'
    <3>1. CASE LinkGoes(i)
      <4>1. ~reach'[i] /\ roomNews'[i] = <<>>
        BY <3>1 DEF LinkGoes, CTypes, Held
      <4> QED BY <4>1 DEF Hears
    <3>2. CASE LinkComes(i)
      <4>1. reach'[i] /\ roomNews'[i] = <<>> /\ snapshot'[i] = "asked"
        BY <2>3, <3>2 DEF Hears, LinkComes, CTypes, Held
      <4> QED BY <4>1 DEF Hears, Knows, Unread
    <3>3. CASE Hydrates(i)
      <4>1. /\ snapshot'[i] = (IF within THEN "in" ELSE "out") /\ UNCHANGED <<reach, roomNews, index>>
        BY <3>3 DEF Hydrates, CTypes, Held
      <4>2. Knows(i)'
        BY <2>1, <4>1 DEF Knows, Unread
      <4> QED BY <2>1, <2>3, <4>1, <4>2 DEF Hears
    <3>4. CASE HydrationFails(i)
      <4>1. snapshot'[i] = "lost" /\ UNCHANGED <<reach, roomNews, index>>
        BY <3>4 DEF HydrationFails, CTypes, Held
      <4>2. Knows(i)'
        BY <4>1 DEF Knows, Unread
      <4> QED BY <2>1, <2>3, <4>1, <4>2 DEF Hears
    <3>5. CASE SwapsIn(i)
      <4>1. /\ snapshot[i] \in {"in", "out"} /\ snapshot'[i] = Unread
            /\ index'[i] = (snapshot[i] = "in") /\ UNCHANGED <<reach, roomNews>>
        BY <3>5 DEF SwapsIn, CTypes, Held
      <4>2. Knows(i) => Knows(i)'
        BY <2>1, <4>1 DEF Knows, Unread
      <4> QED BY <2>1, <2>3, <4>1, <4>2 DEF Hears
    <3> QED BY <1>3, <3>1, <3>2, <3>3, <3>4, <3>5
  <2> QED BY <2>1, <2>2, <2>4, OneIndex
<1>8. ASSUME NEW i \in Instances, LinkComesUnready(i) PROVE Indexes'
  <2>1. /\ UNCHANGED <<within, wishes, roomNews, index, snapshot>> /\ causes' = causes \cup {"missed"}
        /\ wishes.leave \in Nat /\ ~reach[i]
        /\ \A j \in Instances \ {i} : reach'[j] = reach[j]
    BY <1>8 DEF LinkComesUnready, CTypes, Sides, Held
  <2>2. Hears(i)'
    BY <2>1 DEF Hears, Indexes
  <2> QED BY <2>1, <2>2, OneIndex
<1>4. ASSUME NEW c \in Browsers,
             OpenBrowser(c) \/ BrowserReturns(c) \/ NextBeat(c) \/ CloseBrowser(c) \/ BrowserDies(c)
             \/ BrowserIsCut(c) \/ ConnectionExpires(c) \/ \E s \in {"away", "offline"} : ChooseStatus(c, s)
      PROVE  Indexes'
  <2>1. CASE OpenBrowser(c) \/ BrowserReturns(c)
    BY <1>1, <2>1 DEF OpenBrowser, BrowserReturns, Appear
  <2>2. CASE CloseBrowser(c)
    BY <1>1, <2>2 DEF CloseBrowser
  <2>3. CASE NextBeat(c) \/ BrowserDies(c) \/ BrowserIsCut(c) \/ \E s \in {"away", "offline"} : ChooseStatus(c, s)
    BY <1>1, <2>3 DEF NextBeat, BrowserDies, BrowserIsCut, ChooseStatus
  <2>4. CASE ConnectionExpires(c)
    BY <1>1, <2>4 DEF ConnectionExpires
  <2> QED BY <1>4, <2>1, <2>2, <2>3, <2>4
<1>5. ASSUME NEW i \in Instances,
             \/ \E c \in Browsers : BeatTaken(i, c) \/ ByeTaken(i, c)
             \/ \E s \in {"away", "offline"} : SetTaken(i, s)
             \/ WatcherTakes(i) \/ OldWatcherTakes(i) \/ OldWatcherEnds(i)
             \/ WatcherReads(i) \/ WatcherOpens(i) \/ WatcherFails(i)
      PROVE  Indexes'
  <2>1. UNCHANGED <<within, reach, roomNews, index, snapshot, wishes>> /\ causes \subseteq causes'
    BY <1>5 DEF BeatTaken, ByeTaken, SetTaken, WatcherTakes, OldWatcherTakes, OldWatcherEnds, WatcherReads,
                WatcherOpens, WatcherFails
  <2> QED BY <1>1, <2>1
<1>6. ASSUME NEW job \in doing,
             BeatStored(job) \/ BeatTracked(job) \/ ByeUntracks(job) \/ StatusPut(job) \/ OfflineReads(job) \/ OfflineMarks(job)
      PROVE  Indexes'
  <2>1. UNCHANGED <<within, reach, roomNews, index, snapshot, wishes>> /\ causes \subseteq causes'
    BY <1>6 DEF BeatStored, BeatTracked, ByeUntracks, StatusPut, OfflineReads, OfflineMarks, MarkedOffline
  <2> QED BY <1>1, <2>1
<1>7. ASSUME NEW m \in signals, MessageLost(m) PROVE Indexes'
  BY <1>1, <1>7 DEF MessageLost
<1> QED BY <1>2, <1>3, <1>4, <1>5, <1>6, <1>7, <1>8, RoomsAnnounced, Applied DEF ConnectionNext
-----------------------------------------------------------------------------
(* Rooms and status.                                                        *)

\* While nothing was lost and no request failed, every instance has its connection,
\* its watcher and its rooms.
WholeView(i) == reach[i] /\ watching[i] = "live" /\ older[i] = <<>> /\ snapshot[i] = Unread
Sounds == sound => \A i \in Instances : WholeView(i)

\* Until then no request fails ...
LEMMA NoneFails ==
  ASSUME CTypes, Sounds, sound', NEW job \in doing
  PROVE  ~Fails(job)
<1> SUFFICES ASSUME Fails(job)
             PROVE  FALSE
  OBVIOUS
<1>1. ~SpendConn("failure")
  BY DEF SpendConn
<1>2. ~reach[job.of] /\ sound' = sound
  BY <1>1 DEF Fails
<1>3. job.of \in Instances
  BY DEF CTypes, Jobs
<1> QED BY <1>2, <1>3 DEF Sounds, WholeView

\* ... no instance has anything to recover from ...
Recovers(i) ==
  \/ LinkGoes(i) \/ LinkComes(i) \/ LinkComesUnready(i) \/ OldWatcherTakes(i) \/ OldWatcherEnds(i) \/ WatcherReads(i)
  \/ WatcherOpens(i) \/ WatcherFails(i) \/ Hydrates(i) \/ HydrationFails(i) \/ SwapsIn(i)
LEMMA NoneRecovers ==
  ASSUME sound', NEW i \in Instances, WholeView(i)
  PROVE  ~Recovers(i)
BY DEF Recovers, WholeView, LinkGoes, LinkComes, LinkComesUnready, OldWatcherTakes, OldWatcherEnds, WatcherReads, WatcherOpens, WatcherFails,
       Hydrates, HydrationFails, SwapsIn, SpendConn, Unread

\* ... and nothing happens to a link or to a watcher.
LEMMA Untroubled ==
  ASSUME CTypes, Sounds, ConnectionNext, sound'
  PROVE  sound /\ UNCHANGED <<reach, watching, older, snapshot>> /\ causes \subseteq causes'
<1> USE DEF conServer, conRoom, conHeld, conGhosts
<1>1. sound
  <2>1. sound' = sound \/ \E kind \in ConnKinds : SpendConn(kind)
    BY ZenonT(40) DEF ConnectionNext, OpenBrowser, BrowserReturns, Appear, NextBeat, CloseBrowser, BrowserDies, BrowserIsCut, ChooseStatus,
           ConnectionExpires, MessageLost, RoomServes, BeatTaken, ByeTaken, SetTaken, StatusPut, BeatStored, BeatTracked, ByeUntracks,
           OfflineReads, OfflineMarks, Sweep, WatcherTakes, OldWatcherTakes, OldWatcherEnds, WatcherReads, WatcherOpens,
           WatcherFails, RoomNewsTaken, LinkGoes, LinkComes, LinkComesUnready, Hydrates, HydrationFails, SwapsIn, Served, Fails, ConnKinds
  <2> QED BY <2>1 DEF SpendConn
<1>2. \A i \in Instances : WholeView(i)
  BY <1>1 DEF Sounds
<1>3. \A i \in Instances : ~Recovers(i)
  BY <1>2, NoneRecovers
<1>4. ASSUME NEW c \in Browsers,
             OpenBrowser(c) \/ BrowserReturns(c) \/ NextBeat(c) \/ CloseBrowser(c) \/ BrowserDies(c)
             \/ BrowserIsCut(c) \/ ConnectionExpires(c) \/ \E s \in {"away", "offline"} : ChooseStatus(c, s)
      PROVE  UNCHANGED <<reach, watching, older, snapshot>> /\ causes \subseteq causes'
  BY <1>4 DEF OpenBrowser, BrowserReturns, Appear, NextBeat, CloseBrowser, BrowserDies, BrowserIsCut, ChooseStatus, ConnectionExpires
<1>5. ASSUME NEW i \in Instances,
             \/ \E c \in Browsers : BeatTaken(i, c) \/ ByeTaken(i, c)
             \/ \E s \in {"away", "offline"} : SetTaken(i, s)
             \/ WatcherTakes(i) \/ RoomNewsTaken(i)
      PROVE  UNCHANGED <<reach, watching, older, snapshot>> /\ causes \subseteq causes'
  BY <1>5 DEF BeatTaken, ByeTaken, SetTaken, WatcherTakes, RoomNewsTaken
<1>6. ASSUME NEW job \in doing,
             \/ BeatStored(job) \/ BeatTracked(job) \/ ByeUntracks(job) \/ StatusPut(job)
             \/ OfflineReads(job) \/ OfflineMarks(job) \/ Sweep(job)
      PROVE  UNCHANGED <<reach, watching, older, snapshot>> /\ causes \subseteq causes'
  BY <1>6 DEF BeatStored, BeatTracked, ByeUntracks, StatusPut, OfflineReads, OfflineMarks, MarkedOffline, Sweep
<1>7. ASSUME (\E m \in signals : MessageLost(m)) \/ RoomServes("join") \/ RoomServes("leave")
      PROVE  UNCHANGED <<reach, watching, older, snapshot>> /\ causes \subseteq causes'
  BY <1>7 DEF MessageLost, RoomServes
<1> QED BY <1>1, <1>3, <1>4, <1>5, <1>6, <1>7 DEF ConnectionNext, Recovers

\* Every step keeps it.
LEMMA SoundsKept ==
  ASSUME CTypes, Sounds, ConnectionNext
  PROVE  Sounds'
BY Untroubled DEF Sounds, WholeView

\* Of a user who is connected somebody has said so, or is about to.
Restores(job) == (job.at \in {"put", "add"} /\ job.first) \/ (job.at = "write" /\ job.tab = "online")
Lives ==
  sound /\ conns # {} /\ causes \cap {"marked", "unseen", "hidden"} = {} =>
    entry.status \in {"online", "away"} \/ \E job \in doing : Restores(job)

\* Every step keeps it.
LEMMA LivesKept ==
  ASSUME CTypes, Sounds, Lives, ConnectionNext
  PROVE  Lives'
<1> USE DEF conServer, conRoom, conHeld, conGhosts
<1> DEFINE Shown == entry.status \in {"online", "away"} \/ \E job \in doing : Restores(job)
<1> SUFFICES ASSUME sound', conns' # {}, causes' \cap {"marked", "unseen", "hidden"} = {}
             PROVE  Shown'
  BY DEF Lives
<1>1. sound /\ causes \cap {"marked", "unseen", "hidden"} = {}
  BY Untroubled
<1>2. conns # {} => Shown
  BY <1>1 DEF Lives
<1>3. \A i \in Instances : WholeView(i)
  BY <1>1 DEF Sounds
<1>4. ASSUME Shown, entry' = entry, \A job \in doing : Restores(job) => job \in doing'
      PROVE  Shown'
  <2>1. CASE entry.status \in {"online", "away"}
    BY <1>4, <2>1
  <2>2. CASE \E job \in doing : Restores(job)
    BY <1>4, <2>2 DEF Restores
  <2> QED BY <1>4, <2>1, <2>2
<1>6. ASSUME NEW c \in Browsers,
             OpenBrowser(c) \/ BrowserReturns(c) \/ NextBeat(c) \/ CloseBrowser(c) \/ BrowserDies(c)
             \/ BrowserIsCut(c) \/ ConnectionExpires(c) \/ \E s \in {"away", "offline"} : ChooseStatus(c, s)
      PROVE  Shown'
  <2>1. doing' = doing /\ entry' = entry /\ conns' \subseteq conns
    BY <1>6 DEF OpenBrowser, BrowserReturns, Appear, NextBeat, CloseBrowser, BrowserDies, BrowserIsCut, ChooseStatus, ConnectionExpires
  <2> HIDE DEF Shown
  <2> QED BY <1>2, <1>4, <2>1
<1>7. ASSUME NEW i \in Instances,
             \/ \E c \in Browsers : BeatTaken(i, c) \/ ByeTaken(i, c)
             \/ \E s \in {"away", "offline"} : SetTaken(i, s)
             \/ WatcherTakes(i) \/ RoomNewsTaken(i)
      PROVE  Shown'
  <2>1. doing \subseteq doing' /\ entry' = entry /\ conns' \subseteq conns
    BY <1>7 DEF BeatTaken, ByeTaken, SetTaken, WatcherTakes, RoomNewsTaken, StartsJob
  <2> HIDE DEF Shown
  <2> QED BY <1>2, <1>4, <2>1
<1>8. ASSUME (\E m \in signals : MessageLost(m)) \/ RoomServes("join") \/ RoomServes("leave")
      PROVE  Shown'
  <2>1. doing' = doing /\ entry' = entry /\ conns' = conns
    BY <1>8 DEF MessageLost, RoomServes
  <2> HIDE DEF Shown
  <2> QED BY <1>2, <1>4, <2>1
<1>9. ASSUME NEW job \in doing, BeatStored(job) PROVE Shown'
  <2> DEFINE new == [job EXCEPT !.at = "add"]
  <2>1. ~Fails(job)
    BY NoneFails
  <2>2. doing' = (doing \ {job}) \cup {new} /\ entry' = entry /\ (conns = {} => job.first = TRUE)
    <3>1. job.first \in BOOLEAN
      BY DEF CTypes, Jobs
    <3> QED BY <1>9, <2>1, <3>1 DEF BeatStored, Turns
  <2>3. new.at = "add" /\ new.first = job.first /\ job.at = "put"
    BY <1>9 DEF BeatStored, At, CTypes, Jobs
  <2> HIDE DEF new
  <2>4. CASE job.first = TRUE
    BY <2>2, <2>3, <2>4 DEF Restores
  <2>5. CASE job.first # TRUE
    <3>1. ~Restores(job) /\ conns # {}
      BY <2>2, <2>3, <2>5 DEF Restores, CTypes, Jobs
    <3> HIDE DEF Shown
    <3> QED BY <1>2, <1>4, <2>2, <3>1
  <2> QED BY <2>4, <2>5
<1>10. ASSUME NEW job \in doing, BeatTracked(job) PROVE Shown'
  <2>1. entry' = entry /\ conns' = conns /\ job.at = "add"
    BY <1>10 DEF BeatTracked, At
  <2>2. CASE job.first
    <3> DEFINE new == Job(job.of, "beat", "write", "online")
    <3>1. new \in doing' /\ new.at = "write" /\ new.tab = "online"
      BY <1>10, <2>2 DEF BeatTracked, Turns, Job
    <3> HIDE DEF new
    <3> QED BY <3>1 DEF Restores
  <2>3. CASE ~job.first
    <3>1. doing' = doing \ {job} /\ ~Restores(job)
      BY <1>10, <2>1, <2>3 DEF BeatTracked, EndsJob, Restores
    <3> HIDE DEF Shown
    <3> QED BY <1>2, <1>4, <2>1, <3>1
  <2> QED BY <2>2, <2>3
<1>11. ASSUME NEW job \in doing, ByeUntracks(job) \/ OfflineReads(job) \/ Sweep(job) PROVE Shown'
  <2>1. entry' = entry /\ conns' = conns /\ doing \ {job} \subseteq doing' /\ job.at \in {"remove", "get", "sweep"}
    BY <1>11 DEF ByeUntracks, OfflineReads, Sweep, At, Turns, EndsJob
  <2>2. ~Restores(job)
    BY <2>1 DEF Restores
  <2> HIDE DEF Shown
  <2> QED BY <1>2, <1>4, <2>1, <2>2
<1>12. ASSUME NEW job \in doing, OfflineMarks(job) PROVE Shown'
  <2>1. ~Fails(job)
    BY NoneFails
  <2>2. conns' = conns /\ doing \ {job} \subseteq doing' /\ job.at = "cas"
    BY <1>12 DEF OfflineMarks, At, Turns, EndsJob
  <2>3. entry' = entry
    BY <1>12, <2>1, <2>2 DEF OfflineMarks, MarkedOffline
  <2>4. ~Restores(job)
    BY <2>2 DEF Restores
  <2> HIDE DEF Shown
  <2> QED BY <1>2, <1>4, <2>2, <2>3, <2>4
<1>13. ASSUME NEW job \in doing, StatusPut(job) PROVE Shown'
  <2>1. ~Fails(job)
    BY NoneFails
  <2>2. job.tab \in {"online", "away", "offline"}
    BY <1>13 DEF StatusPut, At, CTypes, Fitting
  <2>3. job.tab # "offline"
    BY <1>13 DEF StatusPut
  <2>4. entry'.status = job.tab
    BY <1>13, <2>1 DEF StatusPut
  <2> QED BY <2>2, <2>3, <2>4
<1>14. \A i \in Instances : ~Recovers(i)
  BY <1>3, NoneRecovers
<1> HIDE DEF Shown
<1> QED BY <1>6, <1>7, <1>8, <1>9, <1>10, <1>11, <1>12, <1>13, <1>14 DEF ConnectionNext, Recovers
\* What makes an instance look after a user whose connections are gone: it is at it, a
\* heartbeat is on its way, or a tracker has a connection, or will have, that it sees go.
Leads(job) == \/ job.at \in {"sweep", "put", "add", "write"}
              \/ job.at = "cas" /\ job.rev = entry.rev
              \/ job.at = "get" /\ entry.status # "offline"
Laden(i) == tracked[i] # {} \/ \E n \in 1..Len(watched[i]) : watched[i][n][1] = "put"
LeadsOnline ==
  \/ \E job \in doing : Leads(job)
  \/ \E c \in Browsers : <<"beat", c>> \in signals
  \/ entry.status # "offline" /\ \E i \in Instances : Laden(i)
Going == within /\ wishes.join = 0 /\ wishes.leave > 0
Excused == causes \cap {"ghost", "unseen", "blind", "hidden", "crossed", "marked", "late"} # {}
Gones == sound /\ conns = {} /\ ~Excused /\ (within \/ wishes.join > 0) => LeadsOnline \/ Going

\* Who was being looked after still is, unless the step was part of that.
LEMMA StillLeaves ==
  ASSUME LeadsOnline, entry' = entry,
         \A job \in doing : Leads(job) => job \in doing',
         \A c \in Browsers : <<"beat", c>> \in signals => <<"beat", c>> \in signals',
         \A i \in Instances : Laden(i) => Laden(i)'
  PROVE  LeadsOnline'
<1>1. CASE \E job \in doing : Leads(job)
  BY <1>1 DEF LeadsOnline, Leads
<1>2. CASE \E c \in Browsers : <<"beat", c>> \in signals
  BY <1>2 DEF LeadsOnline
<1>3. CASE entry.status # "offline" /\ \E i \in Instances : Laden(i)
  BY <1>3 DEF LeadsOnline
<1> QED BY <1>1, <1>2, <1>3 DEF LeadsOnline

\* A note more, and the trackers as they are.
LEMMA StillLaden ==
  ASSUME CTypes, NEW c \in Browsers, NEW op \in {"put", "gone"}, Told(op, c), tracked' = tracked,
         NEW i \in Instances, Laden(i)
  PROVE  Laden(i)'
<1>1. watched[i] \in Seq(Notes) /\ watched'[i] \in {watched[i], Append(watched[i], <<op, c>>)}
  BY DEF Told, CTypes, Held
<1>2. CASE tracked[i] # {}
  BY <1>2 DEF Laden
<1>3. CASE \E n \in 1..Len(watched[i]) : watched[i][n][1] = "put"
  <2>1. PICK n \in 1..Len(watched[i]) : watched[i][n][1] = "put"
    BY <1>3
  <2>2. n \in 1..Len(watched'[i]) /\ watched'[i][n] = watched[i][n]
    BY <1>1, <2>1
  <2> QED BY <2>1, <2>2 DEF Laden
<1> QED BY <1>2, <1>3 DEF Laden

\* The last connection goes.
LEMMA LastGoes ==
  ASSUME CTypes, Tracks, Sounds, Lives, sound, conns # {},
         causes \cap {"ghost", "marked", "unseen", "hidden"} = {},
         NEW c \in Browsers, Told("gone", c), tracked' = tracked, entry' = entry, doing \subseteq doing'
  PROVE  LeadsOnline'
<1>1. CASE \E job \in doing : Restores(job)
  BY <1>1 DEF Restores, LeadsOnline, Leads
<1>2. CASE entry.status \in {"online", "away"}
  <2>1. PICK i \in Instances : TRUE
    BY Deployed
  <2>2. PICK d \in conns : d \in Browsers
    BY DEF CTypes, Sides
  <2>3. watching[i] = "live"
    BY DEF Sounds, WholeView
  <2>4. Says(watched[i], d, "put") /\ (~Has(watched[i], d) => d \in tracked[i])
    BY <2>2, <2>3 DEF Tracks, FollowsConns, Right
  <2>5. Laden(i)
    <3>1. CASE ~Has(watched[i], d)
      BY <2>4, <3>1 DEF Laden
    <3>2. CASE Has(watched[i], d)
      <4>1. PICK n \in 1..Len(watched[i]) : watched[i][n][2] = d
        BY <3>2 DEF Has
      <4>2. CASE watched[i][n][1] = "put"
        BY <4>2 DEF Laden
      <4>3. CASE watched[i][n][1] # "put"
        <5>1. PICK m \in 1..Len(watched[i]) : watched[i][m] = <<"put", d>>
          BY <2>4, <4>1, <4>3 DEF Says
        <5>2. watched[i][m][1] = "put"
          BY <5>1
        <5> QED BY <5>2 DEF Laden
      <4> QED BY <4>2, <4>3
    <3> QED BY <3>1, <3>2
  <2>6. Laden(i)'
    BY <2>5, StillLaden
  <2> QED BY <1>2, <2>6 DEF LeadsOnline
<1> QED BY <1>1, <1>2 DEF Lives
\* A watcher that takes a note looks after the user, or has still to see him go.
LEMMA StillTakes ==
  ASSUME CTypes, LeadsOnline, NEW i \in Instances, WatcherTakes(i)
  PROVE  LeadsOnline'
<1> USE DEF conServer, conRoom, conHeld, conGhosts
<1> DEFINE s == watched[i]
           c == Head(s)[2]
<1>1. s \in Seq(Notes) /\ s # <<>> /\ UNCHANGED <<signals, entry>> /\ doing \subseteq doing'
  BY DEF CTypes, Held, WatcherTakes, StartsJob
<1>2. /\ watched'[i] = Tail(s) /\ tracked'[i] = (IF Head(s)[1] = "put" THEN tracked[i] \cup {c} ELSE tracked[i] \ {c})
      /\ \A j \in Instances \ {i} : tracked'[j] = tracked[j] /\ watched'[j] = watched[j]
  BY DEF CTypes, Held, WatcherTakes
<1>3. CASE Head(s)[1] # "put" /\ tracked[i] = {c} /\ entry.status # "offline"
  <2> DEFINE new == Job(i, "watch", "get", "none")
  <2>1. new \in doing' /\ new.at = "get"
    BY <1>3 DEF WatcherTakes, StartsJob, Job
  <2> HIDE DEF new
  <2> QED BY <1>1, <1>3, <2>1 DEF LeadsOnline, Leads
<1>4. ASSUME Head(s)[1] = "put" \/ tracked[i] # {c}, Laden(i)
      PROVE  Laden(i)'
  <2>1. CASE tracked'[i] # {}
    BY <2>1 DEF Laden
  <2>2. CASE tracked'[i] = {}
    <3>1. Head(s)[1] # "put" /\ tracked[i] = {}
      BY <1>2, <1>4, <2>2
    <3>2. PICK n \in 1..Len(s) : s[n][1] = "put"
      BY <1>4, <3>1 DEF Laden
    <3> HIDE DEF s
    <3>3. n - 1 \in 1..Len(Tail(s)) /\ Tail(s)[n - 1] = s[n]
      BY <1>1, <3>1, <3>2
    <3>4. n - 1 \in 1..Len(watched'[i]) /\ watched'[i][n - 1][1] = "put"
      BY <1>2, <3>2, <3>3
    <3> QED BY <3>4 DEF Laden
  <2> QED BY <2>1, <2>2
<1>5. CASE Head(s)[1] = "put" \/ tracked[i] # {c}
  <2>1. \A j \in Instances : Laden(j) => Laden(j)'
    BY <1>2, <1>4, <1>5 DEF Laden
  <2> HIDE DEF s, c
  <2> QED BY <1>1, <2>1, StillLeaves
<1>6. CASE entry.status = "offline"
  BY <1>1, <1>6 DEF LeadsOnline, Leads
<1> QED BY <1>3, <1>5, <1>6

\* An instance that looks after him is not put off by what another does.
LEMMA StillOffline ==
  ASSUME CTypes, sound', Sounds, LeadsOnline, NEW job \in doing, ByeUntracks(job) \/ OfflineReads(job) \/ OfflineMarks(job)
  PROVE  LeadsOnline'
<1> USE DEF conServer, conRoom, conHeld, conGhosts
<1>1. ~Fails(job)
  BY NoneFails
<1>2. UNCHANGED <<signals, watched>> /\ doing \ {job} \subseteq doing'
  BY DEF ByeUntracks, OfflineReads, OfflineMarks, Turns, EndsJob
<1>3. CASE ByeUntracks(job)
  <2> DEFINE i == job.of
  <2>1. i \in Instances /\ ~Leads(job) /\ entry' = entry
    BY <1>3 DEF ByeUntracks, At, Leads, CTypes, Jobs
  <2>2. tracked'[i] = tracked[i] \ {job.tab} /\ \A j \in Instances \ {i} : tracked'[j] = tracked[j]
    BY <1>3, <2>1 DEF ByeUntracks, CTypes, Held
  <2>3. CASE tracked[i] = {job.tab} /\ entry.status # "offline"
    <3> DEFINE new == Job(i, "bye", "get", "none")
    <3>1. new \in doing' /\ new.at = "get"
      BY <1>3, <2>3 DEF ByeUntracks, Turns, Job
    <3> HIDE DEF new
    <3> QED BY <2>1, <2>3, <3>1 DEF LeadsOnline, Leads
  <2>4. CASE tracked[i] # {job.tab}
    <3>1. \A j \in Instances : Laden(j) => Laden(j)'
      BY <1>2, <2>1, <2>2, <2>4 DEF Laden
    <3> QED BY <1>2, <2>1, <3>1, StillLeaves
  <2>5. CASE entry.status = "offline"
    BY <1>2, <2>1, <2>5 DEF LeadsOnline, Leads
  <2> QED BY <2>3, <2>4, <2>5
<1>4. CASE OfflineReads(job)
  <2>1. entry' = entry /\ tracked' = tracked /\ job.at = "get"
    BY <1>4 DEF OfflineReads, At
  <2>2. CASE entry.status = "offline"
    <3>1. ~Leads(job)
      BY <2>1, <2>2 DEF Leads
    <3> QED BY <1>2, <2>1, <3>1, StillLeaves DEF Laden
  <2>3. CASE entry.status = "none"
    <3> DEFINE new == [job EXCEPT !.at = "sweep"]
    <3>1. new \in doing' /\ new.at = "sweep"
      BY <1>1, <1>4, <2>3 DEF OfflineReads, Turns, CTypes, Jobs
    <3> HIDE DEF new
    <3> QED BY <3>1 DEF LeadsOnline, Leads
  <2>4. CASE entry.status # "none" /\ entry.status # "offline"
    <3> DEFINE new == [job EXCEPT !.at = "cas", !.rev = entry.rev]
    <3>1. new \in doing'
      BY <1>1, <1>4, <2>4 DEF OfflineReads, Turns
    <3>2. new.at = "cas" /\ new.rev = entry.rev
      BY DEF CTypes, Jobs
    <3> HIDE DEF new
    <3> QED BY <2>1, <3>1, <3>2 DEF LeadsOnline, Leads
  <2> QED BY <2>2, <2>3, <2>4
<1>5. CASE OfflineMarks(job)
  <2>1. tracked' = tracked /\ job.at = "cas"
    BY <1>5 DEF OfflineMarks, At
  <2>2. CASE entry.rev = job.rev
    <3> DEFINE new == [job EXCEPT !.at = "sweep", !.rev = @ + 1]
    <3>1. new \in doing'
      BY <1>1, <1>5, <2>2 DEF OfflineMarks, Turns
    <3>2. new.at = "sweep"
      BY DEF CTypes, Jobs
    <3> HIDE DEF new
    <3> QED BY <3>1, <3>2 DEF LeadsOnline, Leads
  <2>3. CASE entry.rev # job.rev
    <3>1. entry' = entry /\ ~Leads(job)
      BY <1>1, <1>5, <2>1, <2>3 DEF OfflineMarks, MarkedOffline, Leads
    <3> QED BY <1>2, <2>1, <3>1, StillLeaves DEF Laden
  <2> QED BY <2>2, <2>3
<1> QED BY <1>3, <1>4, <1>5

\* Every step keeps it that a user who is gone leaves.
LEMMA GonesKept ==
  ASSUME CTypes, Tracks, Sounds, Lives, Gones, ConnectionNext
  PROVE  Gones'
<1> USE DEF conServer, conRoom, conHeld, conGhosts
<1> DEFINE Goal == LeadsOnline' \/ Going'
<1> SUFFICES ASSUME sound', conns' = {}, ~Excused', within' \/ wishes'.join > 0
             PROVE  Goal
  BY DEF Gones
<1>0. wishes \in [join : Nat, leave : Nat] /\ within \in BOOLEAN
  BY DEF CTypes, Sides
<1>1. sound /\ causes \subseteq causes' /\ ~Excused /\ \A i \in Instances : WholeView(i)
  BY Untroubled DEF Excused, Sounds
<1>2. conns = {} /\ (within \/ wishes.join > 0) => LeadsOnline \/ Going
  BY <1>1 DEF Gones
<1>3. ASSUME conns = {}, within' = within, wishes'.join = wishes.join, wishes'.leave >= wishes.leave,
             wishes'.leave \in Nat, LeadsOnline => LeadsOnline'
      PROVE  Goal
  BY <1>0, <1>2, <1>3 DEF Going
<1>4. ASSUME UNCHANGED <<tracked, watched, entry>>, doing \subseteq doing',
             \A c \in Browsers : <<"beat", c>> \in signals => <<"beat", c>> \in signals'
      PROVE  LeadsOnline => LeadsOnline'
  BY <1>4, StillLeaves DEF Laden
<1>5. ASSUME NEW c \in Browsers,
             OpenBrowser(c) \/ BrowserReturns(c) \/ NextBeat(c) \/ CloseBrowser(c) \/ BrowserDies(c)
             \/ BrowserIsCut(c) \/ ConnectionExpires(c) \/ \E s \in {"away", "offline"} : ChooseStatus(c, s)
      PROVE  Goal
  <2>1. CASE OpenBrowser(c) \/ BrowserReturns(c)
    BY <2>1 DEF OpenBrowser, BrowserReturns, Appear, LeadsOnline
  <2>2. CASE NextBeat(c) \/ CloseBrowser(c) \/ BrowserDies(c) \/ BrowserIsCut(c) \/ \E s \in {"away", "offline"} : ChooseStatus(c, s)
    <3>1. UNCHANGED <<tracked, watched, entry, doing, conns, within>> /\ signals \subseteq signals'
      BY <2>2 DEF NextBeat, CloseBrowser, BrowserDies, BrowserIsCut, ChooseStatus
    <3>2. wishes' = wishes \/ wishes' = [wishes EXCEPT !.leave = @ + 1]
      BY <2>2 DEF NextBeat, CloseBrowser, BrowserDies, BrowserIsCut, ChooseStatus
    <3>3. wishes'.join = wishes.join /\ wishes'.leave >= wishes.leave /\ wishes'.leave \in Nat
      BY <1>0, <3>2
    <3> HIDE DEF Goal
    <3> QED BY <1>3, <1>4, <3>1, <3>3
  <2>3. CASE ConnectionExpires(c)
    <3>1. conns # {} /\ Told("gone", c) /\ UNCHANGED <<tracked, entry, doing>>
      BY <2>3 DEF ConnectionExpires
    <3> QED BY <1>1, <3>1, LastGoes DEF Excused
  <2> HIDE DEF Goal
  <2> QED BY <1>5, <2>1, <2>2, <2>3
<1>6. ASSUME NEW i \in Instances, NEW c \in Browsers, ByeTaken(i, c) PROVE Goal
  <2>1. /\ UNCHANGED <<within, wishes, entry, tracked>> /\ doing \subseteq doing'
        /\ \A d \in Browsers : <<"beat", d>> \in signals => <<"beat", d>> \in signals'
    BY <1>6 DEF ByeTaken, StartsJob
  <2>2. CASE conns # {}
    <3>1. Told("gone", c)
      BY <1>6, <2>2 DEF ByeTaken
    <3> QED BY <1>1, <2>1, <2>2, <3>1, LastGoes DEF Excused
  <2>3. CASE conns = {}
    <3>1. \A j \in Instances : Laden(j) => Laden(j)'
      <4>1. CASE Told("gone", c)
        BY <2>1, <4>1, StillLaden
      <4>2. CASE watched' = watched
        BY <2>1, <4>2 DEF Laden
      <4> QED BY <1>6, <4>1, <4>2 DEF ByeTaken
    <3>2. LeadsOnline => LeadsOnline'
      BY <2>1, <3>1, StillLeaves
    <3> HIDE DEF Goal
    <3> QED BY <1>0, <1>3, <2>1, <2>3, <3>2
  <2> QED BY <2>2, <2>3
<1>7. ASSUME NEW i \in Instances, NEW c \in Browsers, BeatTaken(i, c) PROVE Goal
  <2> DEFINE new == [Job(i, "beat", "put", c) EXCEPT !.first = (tracked[i] = {})]
  <2>1. new \in doing' /\ new.at = "put"
    BY <1>7 DEF BeatTaken, StartsJob, Job
  <2> HIDE DEF new
  <2> QED BY <2>1 DEF LeadsOnline, Leads
<1>8. ASSUME NEW i \in Instances, (\E s \in {"away", "offline"} : SetTaken(i, s)) \/ RoomNewsTaken(i) PROVE Goal
  <2>1. /\ UNCHANGED <<tracked, watched, entry, conns, within, wishes>> /\ doing \subseteq doing'
        /\ \A c \in Browsers : <<"beat", c>> \in signals => <<"beat", c>> \in signals'
    BY <1>8 DEF SetTaken, RoomNewsTaken, StartsJob
  <2> HIDE DEF Goal
  <2> QED BY <1>0, <1>3, <1>4, <2>1
<1>9. ASSUME NEW i \in Instances, WatcherTakes(i) PROVE Goal
  <2>1. UNCHANGED <<conns, within, wishes>>
    BY <1>9 DEF WatcherTakes
  <2>2. LeadsOnline => LeadsOnline'
    BY <1>9, StillTakes
  <2> HIDE DEF Goal
  <2> QED BY <1>0, <1>3, <2>1, <2>2
<1>10. ASSUME NEW job \in doing, BeatStored(job) \/ BeatTracked(job) \/ StatusPut(job) PROVE FALSE
  <2>1. ~Fails(job)
    BY NoneFails
  <2> QED BY <1>10, <2>1 DEF BeatStored, BeatTracked, StatusPut, Excused
<1>11. ASSUME NEW job \in doing, ByeUntracks(job) \/ OfflineReads(job) \/ OfflineMarks(job) PROVE Goal
  <2>1. UNCHANGED <<conns, within, wishes>>
    BY <1>11 DEF ByeUntracks, OfflineReads, OfflineMarks
  <2>2. LeadsOnline => LeadsOnline'
    BY <1>11, StillOffline
  <2> HIDE DEF Goal
  <2> QED BY <1>0, <1>3, <2>1, <2>2
<1>12. ASSUME NEW job \in doing, Sweep(job) PROVE Goal
  <2> DEFINE i == job.of
  <2>1. ~(wishes.join > 0 \/ (within /\ ~index[i]))
    BY <1>12 DEF Sweep, Excused
  <2>2. wishes.join = 0 /\ (within => index[i]) /\ within' = within
    BY <1>0, <1>12, <2>1 DEF Sweep
  <2>3. wishes'.join = wishes.join /\ (index[i] => wishes'.leave > 0)
    BY <1>0, <1>12 DEF Sweep
  <2>4. within'
    BY <1>0, <2>2, <2>3
  <2> QED BY <2>2, <2>3, <2>4 DEF Going
<1>13. ASSUME NEW wish \in {"join", "leave"}, RoomServes(wish) PROVE Goal
  <2>1. UNCHANGED <<tracked, watched, entry, doing, signals, conns>>
    BY <1>13 DEF RoomServes
  <2>2. within' = (wish = "join") /\ wishes[wish] > 0 /\ wishes' = [wishes EXCEPT ![wish] = @ - 1]
    BY <1>13 DEF RoomServes
  <2>3. wishes.join > 0
    BY <1>0, <2>2
  <2>4. LeadsOnline
    BY <1>0, <1>2, <2>1, <2>3 DEF Going
  <2> HIDE DEF Goal
  <2>5. LeadsOnline'
    BY <1>4, <2>1, <2>4
  <2> QED BY <2>5 DEF Goal
<1>14. ~\E m \in signals : MessageLost(m)
  BY DEF MessageLost, SpendConn
<1>15. \A i \in Instances : ~Recovers(i)
  BY <1>1, NoneRecovers
<1> HIDE DEF Goal
<1> QED BY <1>5, <1>6, <1>7, <1>8, <1>9, <1>10, <1>11, <1>12, <1>13, <1>14, <1>15 DEF ConnectionNext, Recovers
\* All of it is so at the start.
LEMMA AllStart ==
  ASSUME ConnectionInit
  PROVE  Tracks /\ Indexes /\ Sounds /\ Lives /\ Gones
<1>1. /\ \A i \in Instances : /\ watching[i] = "live" /\ watched[i] = <<>> /\ tracked[i] = conns /\ index[i] = within
                              /\ reach[i] = TRUE /\ roomNews[i] = <<>> /\ snapshot[i] = Unread /\ older[i] = <<>>
      /\ within = (conns # {}) /\ wishes.join = 0
      /\ entry = IF conns = {} THEN [status |-> "none", rev |-> 0] ELSE [status |-> "online", rev |-> 1]
  BY DEF ConnectionInit
<1>2. Tracks
  BY <1>1 DEF Tracks, FollowsConns, Covers, Says, Has
<1>3. Indexes
  BY <1>1 DEF Indexes, Hears, Knows, Unread
<1>4. Sounds
  BY <1>1 DEF Sounds, WholeView
<1>5. Lives
  BY <1>1 DEF Lives
<1>6. Gones
  <2>1. conns = {} => within = FALSE /\ wishes.join = 0
    BY <1>1
  <2> QED BY <1>1, <2>1 DEF Gones
<1> QED BY <1>2, <1>3, <1>4, <1>5, <1>6

\* At rest it makes trackers and indexes agree, and rooms and status right.
LEMMA RightAtRest ==
  ASSUME CTypes, Tracks, Indexes, Lives, Gones
  PROVE  PresenceIsRight
<1> SUFFICES ASSUME ConnectionsAtRest
             PROVE  InstancesAgree /\ GoneUsersAreOut /\ LiveUsersAreShown
  BY DEF PresenceIsRight
<1>1. /\ signals = {} /\ doing = {} /\ wishes.join = 0 /\ wishes.leave = 0
      /\ \A i \in Instances : /\ reach[i] /\ watching[i] = "live" /\ watched[i] = <<>> /\ roomNews[i] = <<>>
                              /\ snapshot[i] = Unread
  BY DEF ConnectionsAtRest
<1>2. conns \subseteq Browsers /\ \A i \in Instances : tracked[i] \subseteq Browsers
  BY DEF CTypes, Sides, Held
<1>3. ASSUME "ghost" \notin causes, NEW i \in Instances
      PROVE  tracked[i] = conns
  <2>1. ASSUME NEW c \in Browsers
        PROVE  c \in tracked[i] <=> c \in conns
    <3>1. ~Has(watched[i], c)
      BY <1>1 DEF Has
    <3> QED BY <1>1, <1>3, <3>1 DEF Tracks, FollowsConns
  <2> QED BY <1>2, <2>1
<1>4. ASSUME causes \cap {"swapped", "missed"} = {}, NEW i \in Instances
      PROVE  index[i] = within
  BY <1>1, <1>4 DEF Indexes, Hears, Knows
<1>5. GoneUsersAreOut
  <2> SUFFICES ASSUME sound, conns = {}, ~Excused, within
               PROVE  FALSE
    BY DEF GoneUsersAreOut, Excused
  <2>1. LeadsOnline
    BY <1>1 DEF Gones, Going
  <2>2. PICK i \in Instances : Laden(i)
    BY <1>1, <2>1 DEF LeadsOnline
  <2>3. tracked[i] # {}
    BY <1>1, <2>2 DEF Laden
  <2> QED BY <1>3, <2>3 DEF Excused
<1>6. LiveUsersAreShown
  BY <1>1 DEF Lives, LiveUsersAreShown
<1> QED BY <1>3, <1>4, <1>5, <1>6 DEF InstancesAgree

\* Whatever instances, tabs and faults there are: once nothing is on its way, trackers
\* and indexes agree with the buckets, a user whose connections are gone is in no room,
\* and one who is connected is not shown offline, but for the cases that causes names.
THEOREM Presence == ConnectionSpec => []PresenceIsRight
<1>1. ConnectionInit => Tracks /\ Indexes /\ Sounds /\ Lives /\ Gones
  BY AllStart
<1>2. CTypes /\ Tracks /\ Indexes /\ Sounds /\ Lives /\ Gones /\ [ConnectionNext]_connectionVars
        => (Tracks /\ Indexes /\ Sounds /\ Lives /\ Gones)'
  <2> SUFFICES ASSUME CTypes, Tracks, Indexes, Sounds, Lives, Gones, [ConnectionNext]_connectionVars
               PROVE  Tracks' /\ Indexes' /\ Sounds' /\ Lives' /\ Gones'
    OBVIOUS
  <2>1. CASE ConnectionNext
    BY <2>1, TracksKept, IndexesKept, SoundsKept, LivesKept, GonesKept
  <2>2. CASE UNCHANGED connectionVars
    <3> USE <2>2 DEF connectionVars, conServer, conRoom, conHeld, conGhosts
    <3>1. Tracks'
      BY DEF Tracks, FollowsConns, Covers, Right
    <3>2. Indexes'
      BY DEF Indexes, Hears, Knows
    <3>3. Sounds'
      BY DEF Sounds, WholeView
    <3>4. Lives'
      BY DEF Lives, Restores
    <3>5. Gones'
      BY DEF Gones, Excused, Going, LeadsOnline, Leads, Laden
    <3> QED BY <3>1, <3>2, <3>3, <3>4, <3>5
  <2> QED BY <2>1, <2>2
<1>3. CTypes /\ Tracks /\ Indexes /\ Lives /\ Gones => PresenceIsRight
  BY RightAtRest
<1> QED BY <1>1, <1>2, <1>3, ConnectionTypes, PTL DEF ConnectionSpec
=============================================================================
