------------------------ MODULE RotationRegistryProofs ------------------------
(***************************************************************************)
(* Theorems about RotationRegistry, for every set of keys, verifiers and   *)
(* chains and every bound on the length of a history.                      *)
(***************************************************************************)
EXTENDS RotationRegistry, NatLemmas

USE MaxSequenceAssumption DEF SequenceNumbers

-----------------------------------------------------------------------------
(* Records, digests and chains                                             *)

\* Digesting a record drops only its signature.
LEMMA PayloadKeepsFields ==
  /\ \A i \in Inceptions : Born(Payload(i)) = Born(i)
  /\ \A r \in KeyRotations :
       /\ Rotated(Payload(r)) = Rotated(r)
       /\ \A s : Succeeds(Payload(r), s) <=> Succeeds(r, s)
<1>1. ASSUME NEW i \in Inceptions PROVE Born(Payload(i)) = Born(i)
  BY DEF Inceptions, Payload, Born
<1>2. ASSUME NEW r \in KeyRotations
      PROVE  /\ Rotated(Payload(r)) = Rotated(r)
             /\ \A s : Succeeds(Payload(r), s) <=> Succeeds(r, s)
  BY DEF KeyRotations, Payload, Rotated, Succeeds
<1> QED BY <1>1, <1>2

\* A chain a verifier may be given.
Offered(c) == c \in Chains /\ Len(c.rotations) <= MaxSequence

\* The chains a verifier may be given, whoever made them.
Receivable ==
  {c \in Chains : Len(c.rotations) <= MaxSequence /\ Identity(c) \in Identities}

LEMMA ReceivableIsOffered ==
  \A c \in Receivable : Offered(c) /\ Identity(c) \in Identities
  BY DEF Receivable, Offered

\* A step of a registry that may be given any chain.
RegistryNext ==
  \E v \in Verifiers :
    \/ \E chain \in Receivable : Learn(v, chain)
    \/ \E version \in Versions : SaveSnapshot(v, version)
    \/ \E w \in Sources[v] : Restore(v, w)
    \/ Restart(v)

LEMMA NextIsRegistryNext == [Next]_vars => [RegistryNext]_vars
<1>1. Presented \subseteq Receivable
  BY PresentedAssumption DEF Receivable
<1> QED BY <1>1 DEF Next, RegistryNext

\* The types of a chain's records, of their digests and of the states they
\* leave.
LEMMA ChainTypes ==
  ASSUME NEW c, Offered(c)
  PROVE  /\ Len(c.rotations) \in Nat
         /\ 0 .. Len(c.rotations) \subseteq SequenceNumbers
         /\ Len(c.rotations) \in SequenceNumbers
         /\ c.inception \in Inceptions
         /\ \A k \in 1 .. Len(c.rotations) : c.rotations[k] \in KeyRotations
         /\ \A k \in 0 .. Len(c.rotations) :
              /\ Record(c, k) \in (IF k = 0 THEN Inceptions ELSE KeyRotations)
              /\ Record(c, k) \in Records
              /\ Fingerprint(c, k) \in
                   (IF k = 0 THEN InceptionDigests ELSE RotationDigests)
              /\ Fingerprint(c, k) \in Fingerprints
              /\ Standing(c, k) \in RotationStates
<1> DEFINE n == Len(c.rotations)
<1>1. c.inception \in Inceptions /\ c.rotations \in Seq(KeyRotations)
  BY DEF Offered, Chains
<1>2. n \in Nat /\ \A k \in 1 .. n : c.rotations[k] \in KeyRotations
  BY <1>1
<1>3. 0 .. n \subseteq SequenceNumbers /\ n \in SequenceNumbers
  BY <1>2 DEF Offered
<1>4. ASSUME NEW k \in 0 .. n
      PROVE  /\ Record(c, k) \in (IF k = 0 THEN Inceptions ELSE KeyRotations)
             /\ Fingerprint(c, k) \in
                  (IF k = 0 THEN InceptionDigests ELSE RotationDigests)
             /\ Standing(c, k) \in RotationStates
  <2>1. CASE k = 0
    <3>1. Record(c, k) \in Inceptions
      BY <1>1, <2>1 DEF Record
    <3>2. Fingerprint(c, k) \in InceptionDigests
      BY <1>1, <2>1 DEF Fingerprint, InceptionDigests
    <3>3. Born(c.inception) \in RotationStates
      BY <1>1 DEF Born, Inceptions, RotationStates
    <3> QED BY <2>1, <3>1, <3>2, <3>3 DEF Standing, StandingAfter, Record
  <2>2. CASE k # 0
    <3>1. c.rotations[k] \in KeyRotations
      BY <1>2, <2>2
    <3>2. Fingerprint(c, k) \in RotationDigests
      BY <2>2, <3>1 DEF Fingerprint, RotationDigests
    <3>3. Rotated(c.rotations[k]) \in RotationStates
      BY <3>1 DEF Rotated, KeyRotations, RotationStates
    <3> QED BY <2>2, <3>1, <3>2, <3>3 DEF Standing, StandingAfter, Record
  <2> QED BY <2>1, <2>2
<1> QED BY <1>1, <1>2, <1>3, <1>4 DEF Records, Fingerprints

\* In a chain that verifies, the record at position k has sequence k and names
\* the chain's identity: by the least position where it would not.
THEOREM ChainNamesOneIdentity ==
  ASSUME NEW c, Offered(c), Resolves(c)
  PROVE  \A k \in 0 .. Len(c.rotations) :
           /\ Standing(c, k).sequence = k
           /\ Standing(c, k).identity = Identity(c)
<1> DEFINE n == Len(c.rotations)
           Right(k) == /\ Standing(c, k).sequence = k
                       /\ Standing(c, k).identity = Identity(c)
           Wrong == {k \in 0 .. n : ~ Right(k)}
<1>0. n \in Nat
  BY ChainTypes
<1>1. Right(0)
  BY DEF Standing, StandingAfter, Record, Born, Identity
<1>2. ASSUME NEW k \in 1 .. n, Right(k - 1) PROVE Right(k)
  <2>1. Succeeds(c.rotations[k], Standing(c, k - 1))
    BY DEF Resolves
  <2>2. /\ c.rotations[k].sequence = k - 1 + 1
        /\ c.rotations[k].identity = Identity(c)
    BY <1>2, <2>1 DEF Succeeds
  <2>3. Standing(c, k) = Rotated(c.rotations[k])
    BY <1>0 DEF Standing, StandingAfter, Record
  <2> QED BY <1>0, <2>2, <2>3 DEF Rotated
<1>3. ASSUME Wrong # {} PROVE FALSE
  <2>1. PICK k \in Wrong : \A j \in Wrong : k <= j
    <3> Wrong \subseteq Nat
      BY <1>0
    <3> HIDE DEF Wrong
    <3> QED BY <1>3, LeastElement
  <2>2. k \in 1 .. n /\ k - 1 \in 0 .. n
    BY <1>0, <1>1
  <2>3. k - 1 \notin Wrong
    BY <2>1, <2>2, <1>0
  <2>4. Right(k - 1)
    BY <2>2, <2>3
  <2> QED BY <1>2, <2>1, <2>2, <2>4
<1> QED BY <1>3

\* The position learn records as conflicting is the first of the conflicts.
LEMMA FirstConflict ==
  ASSUME NEW S, S \subseteq Nat, S # {}
  PROVE  Min(S) \in S /\ \A k \in S : Min(S) <= k
  BY LeastElement DEF Min

-----------------------------------------------------------------------------
(* Type correctness                                                        *)

LEMMA EmptyTypes ==
  /\ NoStates \in StateTables
  /\ NothingSeen \in SeenTables
  /\ EmptySnapshot \in Snapshots
<1>1. NoStates \in StateTables
  BY DEF NoStates, StateTables
<1>2. NothingSeen \in SeenTables
  BY DEF NothingSeen, SeenTables
<1>3. SNAPSHOT_VERSION \in
        {n \in Versions \cup {SNAPSHOT_VERSION} : n >= SNAPSHOT_VERSION}
  BY DEF SNAPSHOT_VERSION
<1> QED BY <1>1, <1>2, <1>3 DEF EmptySnapshot, Snapshots

LEMMA InitTypeOK == Init => TypeOK
<1> SUFFICES ASSUME Init PROVE TypeOK
  OBVIOUS
<1>1. NoEvidence \in [Identities -> SUBSET Records]
  BY DEF NoEvidence
<1> QED BY <1>1, EmptyTypes DEF Init, TypeOK

\* What learn leaves in a table of fingerprints.
Remembered(c, table) ==
  [k \in SequenceNumbers |->
     IF k <= Len(c.rotations) THEN Fingerprint(c, k) ELSE table[k]]

LEMMA LearnAdoptTypeOK ==
  ASSUME TypeOK, NEW v \in Verifiers, NEW c \in Receivable, LearnAdopt(v, c)
  PROVE  TypeOK'
<1> DEFINE id == Identity(c)
           n == Len(c.rotations)
<1>1. /\ Offered(c) /\ id \in Identities
      /\ n \in Nat
      /\ resolve(c) \in RotationStates
  BY ReceivableIsOffered, ChainTypes DEF resolve
<1>2. states' \in [Verifiers -> StateTables]
  <2>1. states' = [states EXCEPT ![v][id] =
                     IF Advances(resolve(c), @) THEN resolve(c) ELSE @]
    BY DEF LearnAdopt
  <2> QED BY <1>1, <2>1 DEF TypeOK, StateTables
<1>3. seen' \in [Verifiers -> SeenTables]
  <2>1. seen' = [seen EXCEPT ![v][id] = Remembered(c, @)]
    BY DEF LearnAdopt, Remembered
  <2>2. seen[v] \in SeenTables
    BY DEF TypeOK
  <2>3. ASSUME NEW k \in SequenceNumbers
        PROVE  /\ Remembered(c, seen[v][id])[k] \in Fingerprints \cup {None}
               /\ Remembered(c, seen[v][id])[k] \in
                    (IF k = 0 THEN InceptionDigests ELSE RotationDigests)
                      \cup {None}
    <3>1. CASE k <= n
      <4>1. k \in 0 .. n
        BY <1>1, <3>1
      <4> QED BY <1>1, <3>1, <4>1, ChainTypes DEF Remembered
    <3>2. CASE ~ (k <= n)
      BY <1>1, <2>2, <3>2 DEF Remembered, SeenTables
    <3> QED BY <3>1, <3>2
  <2>4. [seen[v] EXCEPT ![id] = Remembered(c, seen[v][id])] \in SeenTables
    <3>1. Remembered(c, seen[v][id]) \in
            {table \in [SequenceNumbers -> Fingerprints \cup {None}] :
               \A k \in SequenceNumbers :
                 table[k] \in (IF k = 0 THEN InceptionDigests ELSE RotationDigests)
                               \cup {None}}
      <4>1. Remembered(c, seen[v][id]) \in
              [SequenceNumbers -> Fingerprints \cup {None}]
        BY <2>3 DEF Remembered
      <4> QED BY <2>3, <4>1
    <3> QED BY <1>1, <2>2, <3>1 DEF SeenTables
  <2> QED BY <2>1, <2>4 DEF TypeOK
<1> QED BY <1>2, <1>3 DEF LearnAdopt, TypeOK

LEMMA LearnConflictTypeOK ==
  ASSUME TypeOK, NEW v \in Verifiers, NEW c \in Receivable, LearnConflict(v, c)
  PROVE  TypeOK'
<1> DEFINE id == Identity(c)
           first == Min(Conflicts(v, c))
<1>1. Offered(c) /\ id \in Identities
  BY ReceivableIsOffered
<1>2. Conflicts(v, c) \subseteq 0 .. Len(c.rotations)
  BY DEF Conflicts
<1>3. first \in 0 .. Len(c.rotations)
  <2>1. Conflicts(v, c) # {} /\ Conflicts(v, c) \subseteq Nat
    BY <1>1, <1>2, ChainTypes DEF LearnConflict
  <2>2. first \in Conflicts(v, c)
    BY <2>1, FirstConflict
  <2> QED BY <1>2, <2>2
<1>4. Record(c, first) \in Records
  BY <1>1, <1>3, ChainTypes
<1>5. evidence' \in [Verifiers -> [Identities -> SUBSET Records]]
  BY <1>1, <1>4 DEF LearnConflict, TypeOK
<1>6. duplicity' \in [Verifiers -> SUBSET Identities]
  BY <1>1 DEF LearnConflict, TypeOK
<1> QED BY <1>5, <1>6 DEF LearnConflict, TypeOK

\* Every digest kept at k says which address its record put in force.
LEMMA LegacyType ==
  ASSUME NEW table \in SeenTables
  PROVE  Legacy(table) \in LegacyTables
<1>1. ASSUME NEW id \in Identities, NEW k \in SequenceNumbers,
             table[id][k] # None
      PROVE  StandingAfter(table[id][k].payload, k).current_address \in Addresses
  <2>1. CASE k = 0
    <3>1. table[id][k] \in InceptionDigests
      BY <1>1, <2>1 DEF SeenTables
    <3>2. PICK i \in Inceptions : table[id][k] = inception_identity(i)
      BY <3>1 DEF InceptionDigests
    <3>3. table[id][k].payload = Payload(i)
      BY <3>2 DEF inception_identity, signing_input
    <3>4. Born(Payload(i)).current_address \in Addresses
      BY PayloadKeepsFields DEF Born, Inceptions
    <3> QED BY <2>1, <3>3, <3>4 DEF StandingAfter
  <2>2. CASE k # 0
    <3>1. table[id][k] \in RotationDigests
      BY <1>1, <2>2 DEF SeenTables
    <3>2. PICK r \in KeyRotations : table[id][k] = rotation_identity(r)
      BY <3>1 DEF RotationDigests
    <3>3. table[id][k].payload = Payload(r)
      BY <3>2 DEF rotation_identity, signing_input
    <3>4. Rotated(Payload(r)).current_address \in Addresses
      BY PayloadKeepsFields DEF Rotated, KeyRotations
    <3> QED BY <2>2, <3>3, <3>4 DEF StandingAfter
  <2> QED BY <2>1, <2>2
<1> QED BY <1>1 DEF Legacy, LegacyTables

LEMMA SaveSnapshotTypeOK ==
  ASSUME TypeOK, NEW v \in Verifiers, NEW n \in Versions, SaveSnapshot(v, n)
  PROVE  TypeOK'
<1>1. states[v] \in StateTables /\ seen[v] \in SeenTables
        /\ duplicity[v] \in SUBSET Identities
  BY DEF TypeOK
<1>2. [version |-> n, states |-> states[v],
       seen |-> IF n < SNAPSHOT_VERSION THEN Legacy(seen[v]) ELSE seen[v],
       duplicity |-> duplicity[v]] \in Snapshots
  <2>1. CASE n < SNAPSHOT_VERSION
    BY <1>1, <2>1, LegacyType DEF Snapshots
  <2>2. CASE ~ (n < SNAPSHOT_VERSION)
    <3>1. n >= SNAPSHOT_VERSION
      BY <2>2, VersionsAssumption DEF SNAPSHOT_VERSION
    <3> QED BY <1>1, <2>2, <3>1 DEF Snapshots
  <2> QED BY <2>1, <2>2
<1>3. disk' \in [Verifiers -> Snapshots]
  BY <1>2 DEF SaveSnapshot, TypeOK
<1> QED BY <1>3 DEF SaveSnapshot, TypeOK

\* Restoring well-formed tables from a well-formed snapshot.
LEMMA RestoredTypes ==
  ASSUME NEW snapshot \in Snapshots, NEW known \in StateTables,
         NEW table \in SeenTables
  PROVE  /\ RestoredStates(known, snapshot) \in StateTables
         /\ RestoredSeen(table, snapshot) \in SeenTables
         /\ snapshot.duplicity \in SUBSET Identities
<1>1. snapshot.states \in StateTables /\ snapshot.duplicity \in SUBSET Identities
  BY DEF Snapshots
<1>2. RestoredStates(known, snapshot) \in StateTables
  BY <1>1 DEF RestoredStates, StateTables
<1>3. RestoredSeen(table, snapshot) \in SeenTables
  <2>1. CASE snapshot.version >= SNAPSHOT_VERSION
    <3>1. snapshot.seen \in SeenTables
      <4> DEFINE Old == {n \in Versions : n < SNAPSHOT_VERSION}
                 Recent == {n \in Versions \cup {SNAPSHOT_VERSION} :
                              n >= SNAPSHOT_VERSION}
      <4>1. snapshot.version \notin Old
        <5>1. \A n \in Old : ~ (n >= SNAPSHOT_VERSION)
          BY VersionsAssumption DEF SNAPSHOT_VERSION
        <5> HIDE DEF Old
        <5> QED BY <2>1, <5>1
      <4>2. \/ snapshot \in [version : Old, states : StateTables,
                             seen : LegacyTables, duplicity : SUBSET Identities]
            \/ snapshot \in [version : Recent, states : StateTables,
                             seen : SeenTables, duplicity : SUBSET Identities]
        BY DEF Snapshots
      <4> HIDE DEF Old, Recent
      <4> QED BY <4>1, <4>2
    <3>2. RestoredSeen(table, snapshot) =
            [id \in Identities |-> [k \in SequenceNumbers |->
               IF snapshot.seen[id][k] # None THEN snapshot.seen[id][k]
                                              ELSE table[id][k]]]
      BY <2>1 DEF RestoredSeen
    <3>3. \A id \in Identities, k \in SequenceNumbers :
            /\ RestoredSeen(table, snapshot)[id][k] \in Fingerprints \cup {None}
            /\ RestoredSeen(table, snapshot)[id][k] \in
                 (IF k = 0 THEN InceptionDigests ELSE RotationDigests)
                   \cup {None}
      BY <3>1, <3>2 DEF SeenTables
    <3> QED BY <3>2, <3>3 DEF SeenTables
  <2>2. CASE ~ (snapshot.version >= SNAPSHOT_VERSION)
    <3>1. RestoredSeen(table, snapshot) =
            [id \in Identities |-> [k \in SequenceNumbers |-> table[id][k]]]
      BY <2>2 DEF RestoredSeen
    <3> QED BY <3>1 DEF SeenTables
  <2> QED BY <2>1, <2>2
<1> QED BY <1>1, <1>2, <1>3

LEMMA RestoreTypeOK ==
  ASSUME TypeOK, NEW v \in Verifiers, NEW w \in Sources[v], Restore(v, w)
  PROVE  TypeOK'
<1>1. w \in Verifiers
  BY SourcesAssumption
<1>2. /\ disk[w] \in Snapshots
      /\ states[v] \in StateTables
      /\ seen[v] \in SeenTables
      /\ duplicity[v] \in SUBSET Identities
  BY <1>1 DEF TypeOK
<1>3. /\ RestoredStates(states[v], disk[w]) \in StateTables
      /\ RestoredSeen(seen[v], disk[w]) \in SeenTables
      /\ disk[w].duplicity \in SUBSET Identities
  BY <1>2, RestoredTypes
<1> QED BY <1>2, <1>3 DEF Restore, TypeOK

LEMMA RestartTypeOK ==
  ASSUME TypeOK, NEW v \in Verifiers, Restart(v)
  PROVE  TypeOK'
<1>1. disk[v] \in Snapshots
  BY DEF TypeOK
<1>2. /\ RestoredStates(NoStates, disk[v]) \in StateTables
      /\ RestoredSeen(NothingSeen, disk[v]) \in SeenTables
      /\ disk[v].duplicity \in SUBSET Identities
  BY <1>1, EmptyTypes, RestoredTypes
<1>3. NoEvidence \in [Identities -> SUBSET Records]
  BY DEF NoEvidence
<1> QED BY <1>2, <1>3 DEF Restart, TypeOK

LEMMA NextTypeOK == TypeOK /\ [RegistryNext]_vars => TypeOK'
<1> SUFFICES ASSUME TypeOK, [RegistryNext]_vars PROVE TypeOK'
  OBVIOUS
<1>1. ASSUME NEW v \in Verifiers, NEW c \in Receivable, Learn(v, c)
      PROVE  TypeOK'
  BY <1>1, LearnAdoptTypeOK, LearnConflictTypeOK DEF Learn
<1>2. ASSUME NEW v \in Verifiers, NEW n \in Versions, SaveSnapshot(v, n)
      PROVE  TypeOK'
  BY <1>2, SaveSnapshotTypeOK
<1>3. ASSUME NEW v \in Verifiers, NEW w \in Sources[v], Restore(v, w)
      PROVE  TypeOK'
  BY <1>3, RestoreTypeOK
<1>4. ASSUME NEW v \in Verifiers, Restart(v) PROVE TypeOK'
  BY <1>4, RestartTypeOK
<1>5. CASE UNCHANGED vars
  BY <1>5 DEF vars, TypeOK
<1> QED BY <1>1, <1>2, <1>3, <1>4, <1>5 DEF RegistryNext

\* The tables of every registry, and every snapshot a registry writes, stay
\* well formed through any sequence of learn, snapshot, restore and restart.
THEOREM TypeCorrect == Spec => []TypeOK
<1>1. Init => TypeOK
  BY InitTypeOK
<1>2. TypeOK /\ [Next]_vars => TypeOK'
  BY NextTypeOK, NextIsRegistryNext
<1> QED BY <1>1, <1>2, PTL DEF Spec

-----------------------------------------------------------------------------
(* What holds of every registry, whatever snapshots it loads               *)

\* A state that some presented chain of this identity verifies to.
WasVerified(id, state) ==
  state # None => \E c \in Verifiable : Identity(c) = id /\ resolve(c) = state

\* NotOlder(old, new): an identity that stood at old and now stands at new has
\* not moved back.
NotOlder(old, new) ==
  old # None => new # None /\ old.sequence <= new.sequence

\* A restart brings back what is on disk, so what is promised of the tables
\* must hold of the disk too.
VerifiedInv ==
  /\ TypeOK
  /\ \A v \in Verifiers, id \in Identities :
       /\ WasVerified(id, states[v][id])
       /\ WasVerified(id, disk[v].states[id])

\* Of what was persisted, the part that no snapshot of another registry and no
\* earlier format can put at risk: the states and the verdicts.
VerdictsDurable ==
  \A v \in Verifiers :
    /\ disk[v].duplicity \subseteq duplicity[v]
    /\ \A id \in Identities : NotOlder(disk[v].states[id], states[v][id])

LEMMA SnapshotStates ==
  ASSUME TypeOK, NEW v \in Verifiers
  PROVE  /\ disk[v].states \in StateTables
         /\ disk[v].duplicity \subseteq Identities
  BY DEF TypeOK, Snapshots

LEMMA StatesCount ==
  ASSUME NEW table \in StateTables, NEW id \in Identities, table[id] # None
  PROVE  table[id].sequence \in Nat
  BY DEF StateTables, RotationStates

\* What restore leaves is the state known before or the one in the file, and
\* is older than neither.
LEMMA RestoredIsNotOlder ==
  ASSUME NEW known \in StateTables, NEW snapshot, snapshot.states \in StateTables,
         NEW id \in Identities
  PROVE  LET left == RestoredStates(known, snapshot)[id] IN
         /\ left = known[id] \/ left = snapshot.states[id]
         /\ NotOlder(known[id], left)
         /\ NotOlder(snapshot.states[id], left)
<1>1. /\ known[id] # None => known[id].sequence \in Nat
      /\ snapshot.states[id] # None => snapshot.states[id].sequence \in Nat
  BY StatesCount
<1> QED BY <1>1 DEF RestoredStates, Advances, NotOlder

LEMMA EmptyIsOldest ==
  ASSUME NEW id \in Identities PROVE NoStates[id] = None
  BY DEF NoStates

\* What each step does to the states in memory and on disk.
LEMMA StepKeepsStates ==
  ASSUME TypeOK, [Next]_vars, NEW v \in Verifiers, NEW id \in Identities
  PROVE  /\ \/ disk'[v].states[id] = disk[v].states[id]
            \/ /\ disk'[v].states[id] = states[v][id]
               /\ states' = states
         /\ \/ states'[v][id] = states[v][id]
            \/ \E w \in Verifiers : states'[v][id] = disk[w].states[id]
            \/ \E c \in Verifiable : Identity(c) = id /\ states'[v][id] = resolve(c)
         /\ \/ NotOlder(states[v][id], states'[v][id])
            \/ Restart(v) /\ states'[v][id] = disk[v].states[id]
<1>1. states \in [Verifiers -> StateTables] /\ states[v] \in StateTables
  BY DEF TypeOK
<1>2. NotOlder(states[v][id], states[v][id])
  BY <1>1, StatesCount DEF NotOlder
<1>3. CASE UNCHANGED vars
  BY <1>2, <1>3 DEF vars
<1>4. ASSUME NEW w \in Verifiers, NEW c \in Presented, LearnAdopt(w, c)
      PROVE  /\ disk'[v] = disk[v]
             /\ NotOlder(states[v][id], states'[v][id])
             /\ \/ states'[v][id] = states[v][id]
                \/ Identity(c) = id /\ states'[v][id] = resolve(c)
             /\ c \in Verifiable
  <2>1. /\ Identity(c) \in Identities
        /\ resolve(c) \in RotationStates
        /\ resolve(c).sequence \in Nat /\ resolve(c) # None
    <3>1. Offered(c) /\ Identity(c) \in Identities
      BY PresentedAssumption DEF Offered
    <3>2. resolve(c) \in RotationStates
      BY <3>1, ChainTypes DEF resolve
    <3> QED BY <3>1, <3>2, NoneAssumption DEF RotationStates
  <2>2. states' = [states EXCEPT ![w][Identity(c)] =
                     IF Advances(resolve(c), @) THEN resolve(c) ELSE @]
    BY <1>4 DEF LearnAdopt
  <2>3. \/ states'[v][id] = states[v][id]
        \/ /\ id = Identity(c) /\ Advances(resolve(c), states[v][id])
           /\ states'[v][id] = resolve(c)
    BY <1>1, <2>1, <2>2 DEF StateTables
  <2>4. NotOlder(states[v][id], states'[v][id])
    BY <1>1, <1>2, <2>1, <2>3, StatesCount DEF Advances, NotOlder
  <2> QED BY <1>4, <2>3, <2>4 DEF LearnAdopt, Verifiable
<1>5. ASSUME NEW w \in Verifiers, NEW c \in Presented, LearnConflict(w, c)
      PROVE  states' = states /\ disk' = disk
  BY <1>5 DEF LearnConflict
<1>6. ASSUME NEW w \in Verifiers, NEW n \in Versions, SaveSnapshot(w, n)
      PROVE  /\ states' = states
             /\ \/ disk'[v].states[id] = disk[v].states[id]
                \/ disk'[v].states[id] = states[v][id]
  BY <1>6 DEF SaveSnapshot, TypeOK
<1>7. ASSUME NEW w \in Verifiers, NEW u \in Sources[w], Restore(w, u)
      PROVE  /\ disk' = disk
             /\ NotOlder(states[v][id], states'[v][id])
             /\ \/ states'[v][id] = states[v][id]
                \/ \E x \in Verifiers : states'[v][id] = disk[x].states[id]
  <2>1. u \in Verifiers
    BY SourcesAssumption
  <2>2. /\ disk' = disk
        /\ states' = [states EXCEPT ![w] = RestoredStates(@, disk[u])]
    BY <1>7 DEF Restore
  <2>3. disk[u].states \in StateTables
    BY <2>1, SnapshotStates
  <2>4. CASE w = v
    <3>1. states'[v][id] = RestoredStates(states[v], disk[u])[id]
      BY <1>1, <2>2, <2>4
    <3> QED BY <1>1, <2>1, <2>2, <2>3, <3>1, RestoredIsNotOlder
  <2>5. CASE w # v
    BY <1>1, <1>2, <2>2, <2>5
  <2> QED BY <2>4, <2>5
<1>8. ASSUME NEW w \in Verifiers, Restart(w)
      PROVE  /\ disk' = disk
             /\ \/ states'[v][id] = states[v][id]
                \/ w = v /\ states'[v][id] = disk[v].states[id]
  <2>1. /\ disk' = disk
        /\ states' = [states EXCEPT ![w] = RestoredStates(NoStates, disk[w])]
    BY <1>8 DEF Restart
  <2>2. CASE w = v
    <3>1. states'[v][id] = RestoredStates(NoStates, disk[v])[id]
      BY <1>1, <2>1, <2>2
    <3>2. states'[v][id] = disk[v].states[id]
      BY <3>1, EmptyIsOldest DEF RestoredStates, Advances
    <3> QED BY <2>1, <2>2, <3>2
  <2>3. CASE w # v
    BY <1>1, <2>1, <2>3
  <2> QED BY <2>2, <2>3
<1> QED BY <1>2, <1>3, <1>4, <1>5, <1>6, <1>7, <1>8 DEF Next, Learn

\* What each step does to the verdicts in memory and on disk.
LEMMA StepKeepsVerdicts ==
  ASSUME TypeOK, [Next]_vars, NEW v \in Verifiers
  PROVE  /\ \/ disk'[v].duplicity = disk[v].duplicity
            \/ disk'[v].duplicity = duplicity[v] /\ duplicity' = duplicity
         /\ \/ duplicity[v] \subseteq duplicity'[v]
            \/ Restart(v) /\ duplicity'[v] = disk[v].duplicity
<1>1. CASE UNCHANGED vars
  BY <1>1 DEF vars
<1>2. ASSUME NEW w \in Verifiers, NEW c \in Presented, Learn(w, c)
      PROVE  disk' = disk /\ duplicity[v] \subseteq duplicity'[v]
  BY <1>2 DEF Learn, LearnAdopt, LearnConflict, TypeOK
<1>3. ASSUME NEW w \in Verifiers, NEW n \in Versions, SaveSnapshot(w, n)
      PROVE  /\ duplicity' = duplicity
             /\ \/ disk'[v].duplicity = disk[v].duplicity
                \/ disk'[v].duplicity = duplicity[v]
  BY <1>3 DEF SaveSnapshot, TypeOK
<1>4. ASSUME NEW w \in Verifiers, NEW u \in Sources[w], Restore(w, u)
      PROVE  disk' = disk /\ duplicity[v] \subseteq duplicity'[v]
  BY <1>4 DEF Restore, TypeOK
<1>5. ASSUME NEW w \in Verifiers, Restart(w)
      PROVE  /\ disk' = disk
             /\ \/ duplicity[v] \subseteq duplicity'[v]
                \/ w = v /\ duplicity'[v] = disk[v].duplicity
  BY <1>5 DEF Restart, TypeOK
<1> QED BY <1>1, <1>2, <1>3, <1>4, <1>5 DEF Next

\* Whatever is learned, saved or restored, and from whichever snapshot of
\* whichever format, resolve() answers for an identity with the end of a chain
\* of that identity that was presented and verifies from its first record on.
THEOREM TrustIsVerified == Spec => []TrustedWasVerified
<1>1. Init => VerifiedInv
  BY InitTypeOK
     DEF Init, VerifiedInv, WasVerified, NoStates, EmptySnapshot
<1>2. ASSUME VerifiedInv, [Next]_vars PROVE VerifiedInv'
  <2>1. TypeOK'
    BY <1>2, NextTypeOK, NextIsRegistryNext DEF VerifiedInv
  <2>2. ASSUME NEW v \in Verifiers, NEW id \in Identities
        PROVE  /\ WasVerified(id, states'[v][id])
               /\ WasVerified(id, disk'[v].states[id])
    <3>1. /\ \/ disk'[v].states[id] = disk[v].states[id]
             \/ disk'[v].states[id] = states[v][id]
          /\ \/ states'[v][id] = states[v][id]
             \/ \E w \in Verifiers : states'[v][id] = disk[w].states[id]
             \/ \E c \in Verifiable :
                  Identity(c) = id /\ states'[v][id] = resolve(c)
      BY <1>2, StepKeepsStates DEF VerifiedInv
    <3> QED BY <1>2, <3>1 DEF VerifiedInv, WasVerified
  <2> QED BY <2>1, <2>2 DEF VerifiedInv, WasVerified
<1>3. VerifiedInv => TrustedWasVerified
  BY DEF VerifiedInv, WasVerified, TrustedWasVerified
<1> QED BY <1>1, <1>2, <1>3, PTL DEF Spec

\* "It refuses to move backwards" (RotationRegistry): no chain, however stale,
\* and no snapshot, however old or whosever, makes a registry answer with an
\* earlier key; only a restart goes back, to what was persisted.
THEOREM NeverMovesBackwards ==
  Spec => [][\A v \in Verifiers, id \in Identities :
               NotOlder(states[v][id], states'[v][id]) \/ Restart(v)]_vars
<1>1. TypeOK /\ [Next]_vars =>
        [\A v \in Verifiers, id \in Identities :
           NotOlder(states[v][id], states'[v][id]) \/ Restart(v)]_vars
  BY StepKeepsStates
<1> QED BY <1>1, TypeCorrect, PTL DEF Spec

\* "History is never unlearned" (restore), as far as it needs no assumption: a
\* verdict that was once saved stands after every restart, as does the progress
\* of every identity, even in a registry that loads other registries' snapshots
\* and those of an earlier format.
THEOREM VerdictsAreDurable == Spec => []VerdictsDurable
<1>1. Init => VerdictsDurable
  BY DEF Init, VerdictsDurable, NotOlder, NoStates, EmptySnapshot
<1>2. ASSUME TypeOK, VerdictsDurable, [Next]_vars PROVE VerdictsDurable'
  <2>1. ASSUME NEW v \in Verifiers
        PROVE  disk'[v].duplicity \subseteq duplicity'[v]
    BY <1>2, StepKeepsVerdicts DEF VerdictsDurable
  <2>2. ASSUME NEW v \in Verifiers, NEW id \in Identities
        PROVE  NotOlder(disk'[v].states[id], states'[v][id])
    <3> DEFINE old == disk[v].states[id]
               now == states[v][id]
               next == states'[v][id]
    <3>1. /\ old # None => old.sequence \in Nat
          /\ now # None => now.sequence \in Nat
          /\ next # None => next.sequence \in Nat
      <4>1. TypeOK'
        BY <1>2, NextTypeOK, NextIsRegistryNext
      <4>2. /\ disk[v].states \in StateTables
            /\ states[v] \in StateTables
            /\ states'[v] \in StateTables
        BY <1>2, <4>1, SnapshotStates DEF TypeOK
      <4> QED BY <4>2, StatesCount
    <3>2. NotOlder(old, now)
      BY <1>2 DEF VerdictsDurable
    <3>3. /\ \/ disk'[v].states[id] = old
             \/ disk'[v].states[id] = now /\ next = now
          /\ NotOlder(now, next) \/ next = old
      BY <1>2, StepKeepsStates
    <3> QED BY <3>1, <3>2, <3>3 DEF NotOlder
  <2> QED BY <2>1, <2>2 DEF VerdictsDurable, NotOlder
<1> QED BY <1>1, <1>2, TypeCorrect, PTL DEF Spec
=============================================================================
