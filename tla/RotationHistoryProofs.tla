------------------------- MODULE RotationHistoryProofs -------------------------
(***************************************************************************)
(* A registry that restores only its own snapshots, in the current format, *)
(* never loses, forks or mixes a key history: for every set of keys,       *)
(* verifiers and chains and every bound on the length of a history.        *)
(*                                                                         *)
(* HistoryBacksState is not inductive: Restart replaces the tables by those*)
(* on disk, so the disk must hold a history too (DurableHistory); Restore  *)
(* merges the disk into the tables, so the disk must hold a part of what   *)
(* is in memory (NothingDurableForgotten).                                 *)
(*                                                                         *)
(* Such a registry implements KeyHistory: each of its steps extends one    *)
(* history at its end, records a verdict, saves, goes back to what was     *)
(* saved, or changes nothing that KeyHistory speaks of.                    *)
(***************************************************************************)
EXTENDS RotationRegistryProofs, SequenceTheorems

USE MaxSequenceAssumption DEF SequenceNumbers

\* The tables of a snapshot tell one story per identity, as those in memory.
DurableHistory ==
  \A v \in Verifiers :
    /\ disk[v].version >= SNAPSHOT_VERSION
    /\ \A id \in Identities :
         HistoryOK(id, disk[v].states[id], disk[v].seen[id])

IInv == TypeOK /\ HistoryBacksState /\ DurableHistory /\ NothingDurableForgotten

-----------------------------------------------------------------------------
(* What a verified chain leaves in an empty registry is a history          *)

Table(c) ==
  [k \in SequenceNumbers |->
     IF k <= Len(c.rotations) THEN Fingerprint(c, k) ELSE None]

\* The payload of a chain's fingerprint at k leads where its record at k does.
LEMMA FingerprintPayload ==
  ASSUME NEW c, Offered(c), NEW k \in 0 .. Len(c.rotations)
  PROVE  /\ Fingerprint(c, k).payload = Payload(Record(c, k))
         /\ StandingAfter(Fingerprint(c, k).payload, k) = Standing(c, k)
<1>1. Fingerprint(c, k).payload = Payload(Record(c, k))
  BY DEF Fingerprint, Record, inception_identity, rotation_identity,
         signing_input
<1>2. Record(c, k) \in (IF k = 0 THEN Inceptions ELSE KeyRotations)
  BY ChainTypes
<1>3. StandingAfter(Payload(Record(c, k)), k) = StandingAfter(Record(c, k), k)
  BY <1>2, PayloadKeepsFields DEF StandingAfter
<1> QED BY <1>1, <1>3 DEF Standing

\* Pre-rotation. Two verified histories of one identity that agree on every
\* record before position k were both signed at k by the same key, and put the
\* same key in force there: whoever signs a second record with a key that
\* leaked contradicts the first, and cannot bring in a key of his own.
THEOREM ForkPutsSameKeyInForce ==
  ASSUME NEW c, Offered(c), Resolves(c), NEW d, Offered(d), Resolves(d),
         Identity(c) = Identity(d),
         NEW k \in 0 .. Len(c.rotations), k <= Len(d.rotations),
         \A j \in 0 .. k - 1 : Fingerprint(c, j) = Fingerprint(d, j)
  PROVE  /\ Record(c, k).signature = Record(d, k).signature
         /\ Standing(c, k).current_address = Standing(d, k).current_address
<1>1. Len(c.rotations) \in Nat /\ Len(d.rotations) \in Nat
  BY ChainTypes
<1>2. CASE k = 0
  BY <1>2 DEF Resolves, verify_inception, Record, Standing, StandingAfter, Born,
              Identity
<1>3. CASE k # 0
  <2>1. /\ k \in 1 .. Len(c.rotations) /\ k \in 1 .. Len(d.rotations)
        /\ k - 1 \in 0 .. Len(c.rotations) /\ k - 1 \in 0 .. Len(d.rotations)
        /\ k - 1 \in 0 .. k - 1
    BY <1>1, <1>3
  <2>2. Standing(c, k - 1) = Standing(d, k - 1)
    <3>1. Fingerprint(c, k - 1) = Fingerprint(d, k - 1)
      BY <2>1
    <3>2. /\ StandingAfter(Fingerprint(c, k - 1).payload, k - 1)
               = Standing(c, k - 1)
          /\ StandingAfter(Fingerprint(d, k - 1).payload, k - 1)
               = Standing(d, k - 1)
      BY <2>1, FingerprintPayload
    <3> QED BY <3>1, <3>2
  <2>3. /\ Record(c, k) = c.rotations[k]
        /\ Record(d, k) = d.rotations[k]
    BY <1>3 DEF Record
  <2>4. /\ Succeeds(c.rotations[k], Standing(c, k - 1))
        /\ Succeeds(d.rotations[k], Standing(d, k - 1))
        /\ verify_signature(c.rotations[k]) /\ verify_signature(d.rotations[k])
    BY <2>1 DEF Resolves
  <2>5. Record(c, k).signature = Record(d, k).signature
    BY <2>2, <2>3, <2>4 DEF Succeeds, verify_signature
  <2>6. c.rotations[k].next_address = d.rotations[k].next_address
    <3>1. commitment_for_address(c.rotations[k].next_address)
            = commitment_for_address(d.rotations[k].next_address)
      BY <2>2, <2>4 DEF Succeeds
    <3>2. \A a, b : commitment_for_address(a) = commitment_for_address(b)
                      => a = b
      BY DEF commitment_for_address
    <3> QED BY <3>1, <3>2
  <2>7. /\ Standing(c, k).current_address = c.rotations[k].next_address
        /\ Standing(d, k).current_address = d.rotations[k].next_address
    BY <1>3, <2>3 DEF Standing, StandingAfter, Rotated
  <2> QED BY <2>5, <2>6, <2>7
<1> QED BY <1>2, <1>3

LEMMA ChainHistory ==
  ASSUME NEW c, Offered(c), Resolves(c)
  PROVE  /\ HistoryOK(Identity(c), resolve(c), Table(c))
         /\ resolve(c) # None
         /\ resolve(c).sequence = Len(c.rotations)
<1> DEFINE n == Len(c.rotations)
<1>0. n \in Nat /\ n \in SequenceNumbers /\ 0 .. n \subseteq SequenceNumbers
  BY ChainTypes
<1>1. /\ resolve(c).sequence = n
      /\ resolve(c).identity = Identity(c)
      /\ resolve(c) # None
  BY <1>0, ChainNamesOneIdentity, ChainTypes, NoneAssumption DEF resolve
<1>2. \A k \in 0 .. n : Table(c)[k] = Fingerprint(c, k)
  BY <1>0 DEF Table
<1>3. ASSUME NEW k \in SequenceNumbers
      PROVE  Table(c)[k] # None <=> k <= n
  <2>1. CASE k <= n
    <3>1. k \in 0 .. n
      BY <1>0, <2>1
    <3> QED BY <1>2, <2>1, <3>1, ChainTypes, NoneAssumption
  <2>2. CASE ~ (k <= n)
    BY <2>2 DEF Table
  <2> QED BY <2>1, <2>2
<1>4. ASSUME NEW k \in SequenceNumbers, Table(c)[k] # None
      PROVE  /\ k > 0 => Succeeds(Table(c)[k].payload,
                            StandingAfter(Table(c)[k - 1].payload, k - 1))
             /\ k = n => StandingAfter(Table(c)[k].payload, k) = resolve(c)
  <2>1. k \in 0 .. n
    BY <1>0, <1>3, <1>4
  <2>2. ASSUME k > 0
        PROVE  Succeeds(Table(c)[k].payload,
                        StandingAfter(Table(c)[k - 1].payload, k - 1))
    <3>1. k \in 1 .. n /\ k - 1 \in 0 .. n
      BY <1>0, <2>1, <2>2
    <3>2. Succeeds(c.rotations[k], Standing(c, k - 1))
      BY <3>1 DEF Resolves
    <3>3. c.rotations[k] \in KeyRotations /\ Record(c, k) = c.rotations[k]
      BY <3>1, ChainTypes DEF Record
    <3>4. Succeeds(Payload(Record(c, k)), Standing(c, k - 1))
      BY <3>2, <3>3, PayloadKeepsFields
    <3>5. /\ Table(c)[k].payload = Payload(Record(c, k))
          /\ StandingAfter(Table(c)[k - 1].payload, k - 1) = Standing(c, k - 1)
      BY <1>2, <2>1, <3>1, FingerprintPayload
    <3> QED BY <3>4, <3>5
  <2>3. ASSUME k = n
        PROVE  StandingAfter(Table(c)[k].payload, k) = resolve(c)
    BY <1>2, <2>1, <2>3, FingerprintPayload DEF resolve
  <2> QED BY <2>2, <2>3
<1> QED BY <1>1, <1>3, <1>4 DEF HistoryOK

-----------------------------------------------------------------------------
(* learn                                                                   *)

\* A chain that contradicts nothing agrees with every fingerprint held.
LEMMA AgreesWithHeld ==
  ASSUME TypeOK, NEW v \in Verifiers, NEW c \in Receivable, Conflicts(v, c) = {},
         NEW k \in 0 .. Len(c.rotations), seen[v][Identity(c)][k] # None
  PROVE  seen[v][Identity(c)][k] = Fingerprint(c, k)
  BY DEF Conflicts

\* learn leaves one identity's state and table either as they were or as the
\* chain alone would, and nothing a table held is changed.
LEMMA LearnAdoptEffect ==
  ASSUME TypeOK, HistoryBacksState, NEW v \in Verifiers, NEW c \in Receivable,
         LearnAdopt(v, c)
  PROVE  LET id == Identity(c) IN
         /\ id \in Identities
         /\ states' = [states EXCEPT ![v][id] = states'[v][id]]
         /\ seen' = [seen EXCEPT ![v][id] = seen'[v][id]]
         /\ \/ /\ states'[v][id] = states[v][id]
               /\ seen'[v][id] = seen[v][id]
            \/ /\ states'[v][id] = resolve(c)
               /\ seen'[v][id] = Table(c)
               /\ states[v][id] = None
                    \/ states[v][id].sequence < resolve(c).sequence
         /\ \A k \in SequenceNumbers :
              seen[v][id][k] # None => seen'[v][id][k] = seen[v][id][k]
<1> DEFINE id == Identity(c)
           n == Len(c.rotations)
           st == states[v][id]
           tb == seen[v][id]
<1>1. /\ Offered(c) /\ id \in Identities
      /\ n \in Nat /\ n \in SequenceNumbers /\ 0 .. n \subseteq SequenceNumbers
  BY ReceivableIsOffered, ChainTypes
<1>2. Resolves(c) /\ Conflicts(v, c) = {}
  BY DEF LearnAdopt
<1>3. /\ resolve(c).sequence = n
      /\ resolve(c) # None
  BY <1>1, <1>2, ChainHistory
<1>4. \A k \in 0 .. n : tb[k] # None => tb[k] = Fingerprint(c, k)
  BY <1>2, AgreesWithHeld
<1>5. \A k \in SequenceNumbers :
        tb[k] # None <=> (st # None /\ k <= st.sequence)
  BY <1>1 DEF HistoryBacksState, HistoryOK
<1>6. /\ states' = [states EXCEPT ![v][id] =
                      IF Advances(resolve(c), st) THEN resolve(c) ELSE st]
      /\ seen' = [seen EXCEPT ![v][id] = Remembered(c, tb)]
  BY <1>1 DEF LearnAdopt, Remembered, TypeOK, StateTables
<1>7. /\ states'[v][id] = IF Advances(resolve(c), st) THEN resolve(c) ELSE st
      /\ seen'[v][id] = Remembered(c, tb)
  BY <1>1, <1>6 DEF TypeOK, StateTables, SeenTables
<1>8. /\ states' = [states EXCEPT ![v][id] = states'[v][id]]
      /\ seen' = [seen EXCEPT ![v][id] = seen'[v][id]]
  BY <1>6, <1>7
<1>9. tb \in [SequenceNumbers -> Fingerprints \cup {None}]
  BY <1>1 DEF TypeOK, SeenTables
<1>10. \A k \in SequenceNumbers : k <= n <=> k \in 0 .. n
  BY <1>1
<1>11. \A k \in SequenceNumbers : tb[k] # None => seen'[v][id][k] = tb[k]
  BY <1>4, <1>7, <1>10 DEF Remembered
<1>12. st # None => st \in RotationStates /\ st.sequence \in Nat
  BY <1>1 DEF TypeOK, StateTables, RotationStates
<1>13. CASE Advances(resolve(c), st)
  <2>1. ASSUME NEW k \in SequenceNumbers, ~ (k <= n) PROVE tb[k] = None
    BY <1>1, <1>3, <1>5, <1>12, <1>13, <2>1 DEF Advances
  <2>2. Remembered(c, tb) = Table(c)
    BY <2>1 DEF Remembered, Table
  <2>3. st = None \/ st.sequence < resolve(c).sequence
    BY <1>1, <1>3, <1>12, <1>13 DEF Advances
  <2> QED BY <1>1, <1>7, <1>8, <1>11, <1>13, <2>2, <2>3
<1>14. CASE ~ Advances(resolve(c), st)
  <2>1. st # None /\ n <= st.sequence
    BY <1>1, <1>3, <1>12, <1>14 DEF Advances
  <2>2. ASSUME NEW k \in SequenceNumbers, k <= n
        PROVE  Fingerprint(c, k) = tb[k]
    BY <1>1, <1>4, <1>5, <1>10, <1>12, <2>1, <2>2
  <2>3. Remembered(c, tb) = tb
    BY <1>9, <2>2 DEF Remembered
  <2> QED BY <1>1, <1>7, <1>8, <1>11, <1>14, <2>3
<1> QED BY <1>13, <1>14

LEMMA LearnAdoptIInv ==
  ASSUME IInv, NEW v \in Verifiers, NEW c \in Receivable, LearnAdopt(v, c)
  PROVE  IInv'
<1> DEFINE id == Identity(c)
<1> USE DEF IInv
<1>1. TypeOK'
  BY LearnAdoptTypeOK
<1>2. /\ id \in Identities
      /\ states' = [states EXCEPT ![v][id] = states'[v][id]]
      /\ seen' = [seen EXCEPT ![v][id] = seen'[v][id]]
      /\ \/ /\ states'[v][id] = states[v][id]
            /\ seen'[v][id] = seen[v][id]
         \/ /\ states'[v][id] = resolve(c)
            /\ seen'[v][id] = Table(c)
            /\ states[v][id] = None
                 \/ states[v][id].sequence < resolve(c).sequence
      /\ \A k \in SequenceNumbers :
           seen[v][id][k] # None => seen'[v][id][k] = seen[v][id][k]
  BY LearnAdoptEffect
<1>3. /\ HistoryOK(id, resolve(c), Table(c)) /\ resolve(c) # None
      /\ resolve(c).sequence \in Nat
  BY ReceivableIsOffered, ChainHistory, ChainTypes DEF LearnAdopt
<1>4. \A w \in Verifiers, i \in Identities : w # v \/ i # id =>
        states'[w][i] = states[w][i] /\ seen'[w][i] = seen[w][i]
  BY <1>2 DEF TypeOK, StateTables, SeenTables
<1>5. HistoryOK(id, states'[v][id], seen'[v][id])
  <2>1. HistoryOK(id, states[v][id], seen[v][id])
    BY <1>2 DEF HistoryBacksState
  <2> QED BY <1>2, <1>3, <2>1
<1>6. HistoryBacksState'
  <2> SUFFICES ASSUME NEW w \in Verifiers, NEW i \in Identities
               PROVE  HistoryOK(i, states'[w][i], seen'[w][i])
    BY DEF HistoryBacksState, HistoryOK
  <2>1. HistoryOK(i, states[w][i], seen[w][i])
    BY DEF HistoryBacksState
  <2>2. CASE w = v /\ i = id
    BY <1>5, <2>2
  <2>3. CASE w # v \/ i # id
    BY <1>4, <2>1, <2>3
  <2> QED BY <2>2, <2>3
<1>7. disk' = disk /\ duplicity' = duplicity
  BY DEF LearnAdopt
<1>8. DurableHistory'
  BY <1>7 DEF DurableHistory, HistoryOK
<1>9. NothingDurableForgotten'
  <2> SUFFICES ASSUME NEW w \in Verifiers, NEW i \in Identities
               PROVE  /\ disk[w].duplicity \subseteq duplicity[w]
                      /\ disk[w].states[i] # None =>
                           /\ states'[w][i] # None
                           /\ disk[w].states[i].sequence
                                <= states'[w][i].sequence
                      /\ \A k \in SequenceNumbers : disk[w].seen[i][k] # None =>
                           seen'[w][i][k] = disk[w].seen[i][k]
    BY <1>7 DEF NothingDurableForgotten
  <2>1. /\ disk[w].duplicity \subseteq duplicity[w]
        /\ disk[w].states[i] # None =>
             /\ states[w][i] # None
             /\ disk[w].states[i].sequence <= states[w][i].sequence
        /\ \A k \in SequenceNumbers :
             disk[w].seen[i][k] # None => seen[w][i][k] = disk[w].seen[i][k]
    BY DEF NothingDurableForgotten
  <2>2. CASE w = v /\ i = id
    <3>1. /\ disk[v].states[id] # None => disk[v].states[id].sequence \in Nat
          /\ states[v][id] # None => states[v][id].sequence \in Nat
      <4>1. disk[v].states \in StateTables /\ states[v] \in StateTables
        BY DEF TypeOK, Snapshots
      <4> QED BY <1>2, <4>1 DEF StateTables, RotationStates
    <3>2. disk[v].states[id] # None =>
            /\ states'[v][id] # None
            /\ disk[v].states[id].sequence <= states'[v][id].sequence
      BY <1>2, <1>3, <2>1, <2>2, <3>1
    <3>3. \A k \in SequenceNumbers :
            disk[v].seen[id][k] # None => seen'[v][id][k] = disk[v].seen[id][k]
      BY <1>2, <2>1, <2>2
    <3> QED BY <2>1, <2>2, <3>2, <3>3
  <2>3. CASE w # v \/ i # id
    BY <1>4, <2>1, <2>3
  <2> QED BY <2>2, <2>3
<1> QED BY <1>1, <1>6, <1>8, <1>9

LEMMA LearnConflictIInv ==
  ASSUME IInv, NEW v \in Verifiers, NEW c \in Receivable, LearnConflict(v, c)
  PROVE  IInv'
<1> USE DEF IInv
<1>1. TypeOK'
  BY LearnConflictTypeOK
<1>2. states' = states /\ seen' = seen /\ disk' = disk
  BY DEF LearnConflict
<1>3. \A w \in Verifiers : duplicity[w] \subseteq duplicity'[w]
  BY DEF LearnConflict, TypeOK
<1>4. HistoryBacksState'
  BY <1>2 DEF HistoryBacksState, HistoryOK
<1>5. DurableHistory'
  BY <1>2 DEF DurableHistory, HistoryOK
<1>6. NothingDurableForgotten'
  BY <1>2, <1>3 DEF NothingDurableForgotten
<1> QED BY <1>1, <1>4, <1>5, <1>6


-----------------------------------------------------------------------------
(* snapshot, restore and restart                                           *)

\* What a snapshot of this release's format holds is well formed.
LEMMA DurableTypes ==
  ASSUME TypeOK, DurableHistory, NEW v \in Verifiers
  PROVE  /\ disk[v].states \in StateTables
         /\ disk[v].seen \in SeenTables
         /\ disk[v].duplicity \in SUBSET Identities
         /\ disk[v].version >= SNAPSHOT_VERSION
<1> DEFINE Old == {n \in Versions : n < SNAPSHOT_VERSION}
           Recent == {n \in Versions \cup {SNAPSHOT_VERSION} :
                        n >= SNAPSHOT_VERSION}
<1>1. disk[v].version >= SNAPSHOT_VERSION
  BY DEF DurableHistory
<1>2. disk[v].version \notin Old
  <2>1. \A n \in Old : ~ (n >= SNAPSHOT_VERSION)
    BY VersionsAssumption DEF SNAPSHOT_VERSION
  <2> HIDE DEF Old
  <2> QED BY <1>1, <2>1
<1>3. disk[v] \in Snapshots
  BY DEF TypeOK
<1>4. \/ disk[v] \in [version : Old, states : StateTables,
                      seen : LegacyTables, duplicity : SUBSET Identities]
      \/ disk[v] \in [version : Recent, states : StateTables,
                      seen : SeenTables, duplicity : SUBSET Identities]
  BY <1>3 DEF Snapshots
<1> HIDE DEF Old, Recent
<1> QED BY <1>1, <1>2, <1>4

LEMMA SaveSnapshotIInv ==
  ASSUME CurrentFormatOnly, IInv,
         NEW v \in Verifiers, NEW n \in Versions, SaveSnapshot(v, n)
  PROVE  IInv'
<1> USE DEF IInv
<1>1. TypeOK'
  BY SaveSnapshotTypeOK
<1>2. n >= SNAPSHOT_VERSION /\ ~ (n < SNAPSHOT_VERSION)
  BY VersionsAssumption DEF CurrentFormatOnly, SNAPSHOT_VERSION
<1>3. /\ states' = states /\ seen' = seen /\ duplicity' = duplicity
      /\ disk' = [disk EXCEPT ![v] =
                    [version |-> n, states |-> states[v], seen |-> seen[v],
                     duplicity |-> duplicity[v]]]
  BY <1>2 DEF SaveSnapshot
<1>4. /\ disk'[v].version = n
      /\ disk'[v].states = states[v]
      /\ disk'[v].seen = seen[v]
      /\ disk'[v].duplicity = duplicity[v]
      /\ \A w \in Verifiers : w # v => disk'[w] = disk[w]
  BY <1>3 DEF TypeOK
<1>5. HistoryBacksState'
  BY <1>3 DEF HistoryBacksState, HistoryOK
<1>6. DurableHistory'
  <2> SUFFICES ASSUME NEW w \in Verifiers
               PROVE  /\ disk'[w].version >= SNAPSHOT_VERSION
                      /\ \A id \in Identities :
                           HistoryOK(id, disk'[w].states[id], disk'[w].seen[id])
    BY DEF DurableHistory, HistoryOK
  <2>1. CASE w = v
    BY <1>2, <1>4, <2>1 DEF HistoryBacksState
  <2>2. CASE w # v
    BY <1>4, <2>2 DEF DurableHistory
  <2> QED BY <2>1, <2>2
<1>7. NothingDurableForgotten'
  <2> SUFFICES ASSUME NEW w \in Verifiers, NEW id \in Identities
               PROVE  /\ disk'[w].duplicity \subseteq duplicity[w]
                      /\ disk'[w].states[id] # None =>
                           /\ states[w][id] # None
                           /\ disk'[w].states[id].sequence
                                <= states[w][id].sequence
                      /\ \A k \in SequenceNumbers : disk'[w].seen[id][k] # None =>
                           seen[w][id][k] = disk'[w].seen[id][k]
    BY <1>3 DEF NothingDurableForgotten
  <2>1. CASE w = v
    <3>1. states[v][id] # None =>
            states[v][id].sequence <= states[v][id].sequence
      BY DEF TypeOK, StateTables, RotationStates
    <3> QED BY <1>4, <2>1, <3>1
  <2>2. CASE w # v
    BY <1>4, <2>2 DEF NothingDurableForgotten
  <2> QED BY <2>1, <2>2
<1> QED BY <1>1, <1>5, <1>6, <1>7

\* Its own snapshot tells a registry nothing it does not know.
LEMMA RestoreIsNoOp ==
  ASSUME OwnSnapshotsOnly, IInv,
         NEW v \in Verifiers, NEW w \in Sources[v], Restore(v, w)
  PROVE  UNCHANGED vars
<1> USE DEF IInv
<1>1. w = v
  BY DEF OwnSnapshotsOnly
<1>2. /\ disk[v].states \in StateTables
      /\ states[v] \in StateTables
      /\ seen[v] \in SeenTables
  BY DurableTypes DEF TypeOK
<1>3. RestoredStates(states[v], disk[v]) = states[v]
  <2>1. ASSUME NEW id \in Identities, disk[v].states[id] # None
        PROVE  ~ Advances(disk[v].states[id], states[v][id])
    <3>1. /\ states[v][id] # None
          /\ disk[v].states[id].sequence <= states[v][id].sequence
      BY <2>1 DEF NothingDurableForgotten
    <3>2. /\ disk[v].states[id].sequence \in Nat
          /\ states[v][id].sequence \in Nat
      BY <1>2, <2>1, <3>1 DEF StateTables, RotationStates
    <3> QED BY <3>1, <3>2 DEF Advances
  <2> QED BY <1>2, <2>1 DEF RestoredStates, StateTables
<1>4. RestoredSeen(seen[v], disk[v]) = seen[v]
  <2>1. \A id \in Identities, k \in SequenceNumbers :
          disk[v].seen[id][k] # None => disk[v].seen[id][k] = seen[v][id][k]
    BY DEF NothingDurableForgotten
  <2>2. RestoredSeen(seen[v], disk[v]) =
          [id \in Identities |-> [k \in SequenceNumbers |-> seen[v][id][k]]]
    BY <2>1 DEF RestoredSeen
  <2> QED BY <1>2, <2>2 DEF SeenTables
<1>5. duplicity[v] \cup disk[v].duplicity = duplicity[v]
  BY DEF NothingDurableForgotten
<1> QED BY <1>1, <1>3, <1>4, <1>5 DEF Restore, TypeOK, vars

\* A restart brings back exactly what the snapshot holds.
LEMMA RestartEffect ==
  ASSUME TypeOK, DurableHistory, NEW v \in Verifiers, Restart(v)
  PROVE  /\ states' = [states EXCEPT ![v] = disk[v].states]
         /\ seen' = [seen EXCEPT ![v] = disk[v].seen]
         /\ duplicity' = [duplicity EXCEPT ![v] = disk[v].duplicity]
         /\ disk' = disk
<1>1. /\ disk[v].states \in StateTables
      /\ disk[v].seen \in SeenTables
      /\ disk[v].version >= SNAPSHOT_VERSION
  BY DurableTypes
<1>2. RestoredStates(NoStates, disk[v]) = disk[v].states
  BY <1>1 DEF RestoredStates, NoStates, Advances, StateTables
<1>3. RestoredSeen(NothingSeen, disk[v]) = disk[v].seen
  <2>1. RestoredSeen(NothingSeen, disk[v]) =
          [id \in Identities |-> [k \in SequenceNumbers |-> disk[v].seen[id][k]]]
    BY <1>1 DEF RestoredSeen, NothingSeen
  <2> QED BY <1>1, <2>1 DEF SeenTables
<1> QED BY <1>2, <1>3 DEF Restart

LEMMA RestartIInv ==
  ASSUME IInv, NEW v \in Verifiers, Restart(v)
  PROVE  IInv'
<1> USE DEF IInv
<1>1. TypeOK'
  BY RestartTypeOK
<1>2. /\ states'[v] = disk[v].states
      /\ seen'[v] = disk[v].seen
      /\ duplicity'[v] = disk[v].duplicity
      /\ disk' = disk
      /\ \A w \in Verifiers : w # v => /\ states'[w] = states[w]
                                      /\ seen'[w] = seen[w]
                                      /\ duplicity'[w] = duplicity[w]
  BY RestartEffect DEF TypeOK
<1>3. HistoryBacksState'
  <2> SUFFICES ASSUME NEW w \in Verifiers, NEW id \in Identities
               PROVE  HistoryOK(id, states'[w][id], seen'[w][id])
    BY DEF HistoryBacksState, HistoryOK
  <2>1. CASE w = v
    BY <1>2, <2>1 DEF DurableHistory
  <2>2. CASE w # v
    BY <1>2, <2>2 DEF HistoryBacksState
  <2> QED BY <2>1, <2>2
<1>4. DurableHistory'
  BY <1>2 DEF DurableHistory, HistoryOK
<1>5. NothingDurableForgotten'
  <2> SUFFICES ASSUME NEW w \in Verifiers, NEW id \in Identities
               PROVE  /\ disk[w].duplicity \subseteq duplicity'[w]
                      /\ disk[w].states[id] # None =>
                           /\ states'[w][id] # None
                           /\ disk[w].states[id].sequence
                                <= states'[w][id].sequence
                      /\ \A k \in SequenceNumbers : disk[w].seen[id][k] # None =>
                           seen'[w][id][k] = disk[w].seen[id][k]
    BY <1>2 DEF NothingDurableForgotten
  <2>1. CASE w = v
    <3>1. disk[v].states[id] # None =>
            disk[v].states[id].sequence <= disk[v].states[id].sequence
      <4>1. disk[v].states \in StateTables
        BY DurableTypes
      <4> QED BY <4>1 DEF StateTables, RotationStates
    <3> QED BY <1>2, <2>1, <3>1
  <2>2. CASE w # v
    BY <1>2, <2>2 DEF NothingDurableForgotten
  <2> QED BY <2>1, <2>2
<1> QED BY <1>1, <1>3, <1>4, <1>5

-----------------------------------------------------------------------------
(* The invariant                                                           *)

LEMMA InitIInv == Init => IInv
<1> SUFFICES ASSUME Init PROVE IInv
  OBVIOUS
<1>1. \A v \in Verifiers :
        /\ states[v] = NoStates /\ seen[v] = NothingSeen
        /\ duplicity[v] = {} /\ disk[v] = EmptySnapshot
  BY DEF Init
<1>2. \A id \in Identities : HistoryOK(id, NoStates[id], NothingSeen[id])
  BY DEF HistoryOK, NoStates, NothingSeen
<1>3. HistoryBacksState /\ DurableHistory
  BY <1>1, <1>2 DEF HistoryBacksState, DurableHistory, EmptySnapshot,
                    SNAPSHOT_VERSION
<1>4. NothingDurableForgotten
  BY <1>1 DEF NothingDurableForgotten, EmptySnapshot, NoStates, NothingSeen
<1> QED BY <1>3, <1>4, InitTypeOK DEF IInv

LEMMA NextIInv ==
  ASSUME OwnSnapshotsOnly, CurrentFormatOnly, IInv, [RegistryNext]_vars
  PROVE  IInv'
<1>1. ASSUME NEW v \in Verifiers, NEW c \in Receivable, Learn(v, c)
      PROVE  IInv'
  BY <1>1, LearnAdoptIInv, LearnConflictIInv DEF Learn
<1>2. ASSUME NEW v \in Verifiers, NEW n \in Versions, SaveSnapshot(v, n)
      PROVE  IInv'
  BY <1>2, SaveSnapshotIInv
<1>3. CASE UNCHANGED vars
  <2>1. TypeOK'
    BY <1>3 DEF IInv, vars, TypeOK
  <2> QED BY <1>3, <2>1 DEF IInv, vars, HistoryBacksState, HistoryOK,
                            DurableHistory, NothingDurableForgotten
<1>4. ASSUME NEW v \in Verifiers, NEW w \in Sources[v], Restore(v, w)
      PROVE  IInv'
  BY <1>3, <1>4, RestoreIsNoOp
<1>5. ASSUME NEW v \in Verifiers, Restart(v) PROVE IInv'
  BY <1>5, RestartIInv
<1> QED BY <1>1, <1>2, <1>3, <1>4, <1>5 DEF RegistryNext

LEMMA Invariance ==
  ASSUME OwnSnapshotsOnly, CurrentFormatOnly
  PROVE  Spec => []IInv
<1>1. Init => IInv
  BY InitIInv
<1>2. IInv /\ [Next]_vars => IInv'
  BY NextIInv, NextIsRegistryNext
<1> QED BY <1>1, <1>2, PTL DEF Spec

\* Whatever chains of one identity arrive, in whatever order, and whatever is
\* persisted and restored in between, the address resolve() returns is the end
\* of the one history against which later chains are compared.
THEOREM OneHistoryBehindEachState ==
  ASSUME OwnSnapshotsOnly, CurrentFormatOnly
  PROVE  Spec => []HistoryBacksState
<1>1. IInv => HistoryBacksState
  BY DEF IInv
<1> QED BY <1>1, Invariance, PTL

\* No order of learning, saving, restoring and restarting makes a registry
\* lose a state, a fingerprint or a verdict it once persisted.
THEOREM DurableIsNeverForgotten ==
  ASSUME OwnSnapshotsOnly, CurrentFormatOnly
  PROVE  Spec => []NothingDurableForgotten
<1>1. IInv => NothingDurableForgotten
  BY DEF IInv
<1> QED BY <1>1, Invariance, PTL

\* A fingerprint once compared with is compared with from then on, until the
\* process restarts.
LEMMA StepKeepsFingerprints ==
  ASSUME OwnSnapshotsOnly, IInv, [Next]_vars,
         NEW v \in Verifiers, NEW id \in Identities, NEW k \in SequenceNumbers,
         seen[v][id][k] # None
  PROVE  seen'[v][id][k] = seen[v][id][k] \/ Restart(v)
<1> USE DEF IInv
<1>1. [RegistryNext]_vars
  BY NextIsRegistryNext
<1>2. ASSUME NEW w \in Verifiers, NEW c \in Receivable, LearnAdopt(w, c)
      PROVE  seen'[v][id][k] = seen[v][id][k]
  <2>1. /\ Identity(c) \in Identities
        /\ seen' = [seen EXCEPT ![w][Identity(c)] = seen'[w][Identity(c)]]
        /\ \A j \in SequenceNumbers : seen[w][Identity(c)][j] # None =>
             seen'[w][Identity(c)][j] = seen[w][Identity(c)][j]
    BY <1>2, LearnAdoptEffect
  <2>2. CASE w = v /\ id = Identity(c)
    BY <2>1, <2>2
  <2>3. CASE w # v \/ id # Identity(c)
    BY <2>1, <2>3 DEF TypeOK, SeenTables
  <2> QED BY <2>2, <2>3
<1>3. ASSUME NEW w \in Verifiers, NEW c \in Receivable, LearnConflict(w, c)
      PROVE  seen' = seen
  BY <1>3 DEF LearnConflict
<1>4. ASSUME NEW w \in Verifiers, NEW n \in Versions, SaveSnapshot(w, n)
      PROVE  seen' = seen
  BY <1>4 DEF SaveSnapshot
<1>5. ASSUME NEW w \in Verifiers, NEW u \in Sources[w], Restore(w, u)
      PROVE  seen' = seen
  BY <1>5, RestoreIsNoOp DEF vars
<1>6. ASSUME NEW w \in Verifiers, Restart(w)
      PROVE  w = v \/ seen'[v][id][k] = seen[v][id][k]
  BY <1>6 DEF Restart, TypeOK
<1> QED BY <1>1, <1>2, <1>3, <1>4, <1>5, <1>6 DEF RegistryNext, Learn, vars

\* A chain that learn accepts, it holds to its end.
LEMMA LearnAdoptHolds ==
  ASSUME TypeOK, NEW v \in Verifiers, NEW c \in Receivable, LearnAdopt(v, c)
  PROVE  Holds(v, c)'
<1> DEFINE id == Identity(c)
           n == Len(c.rotations)
<1>1. /\ Offered(c) /\ id \in Identities
      /\ n \in Nat /\ 0 .. n \subseteq SequenceNumbers
      /\ resolve(c) # None /\ resolve(c).sequence = n
  BY ReceivableIsOffered, ChainTypes, ChainHistory DEF LearnAdopt
<1>2. seen'[v][id] = Remembered(c, seen[v][id])
  BY <1>1 DEF LearnAdopt, Remembered, TypeOK, SeenTables
<1>3. \A k \in 0 .. n : seen'[v][id][k] = Fingerprint(c, k)
  BY <1>1, <1>2 DEF Remembered
<1>4. states'[v][id] =
        IF Advances(resolve(c), states[v][id]) THEN resolve(c) ELSE states[v][id]
  BY <1>1 DEF LearnAdopt, TypeOK, StateTables
<1>5. states[v][id] # None => states[v][id].sequence \in Nat
  <2>1. states[v] \in StateTables
    BY DEF TypeOK
  <2> QED BY <1>1, <2>1, StatesCount
<1>6. states'[v][id] # None /\ states'[v][id].sequence >= n
  BY <1>1, <1>4, <1>5 DEF Advances
<1> QED BY <1>3, <1>6 DEF Holds

\* "It refuses to move backwards" (RotationRegistry): whatever arrives, is
\* refused, saved or restored after learn accepted a chain, the registry stands
\* at its end or beyond and compares with each of its records.
THEOREM LearnedChainsAreKept ==
  ASSUME OwnSnapshotsOnly, CurrentFormatOnly
  PROVE  Spec => LearnedIsKept
<1>1. ASSUME IInv, [Next]_vars, NEW v \in Verifiers, NEW c \in Verifiable,
             Holds(v, c) \/ LearnAdopt(v, c)
      PROVE  Holds(v, c)' \/ Restart(v)
  <2> DEFINE id == Identity(c)
             n == Len(c.rotations)
  <2>1. c \in Receivable
    BY PresentedAssumption DEF Verifiable, Receivable
  <2>2. /\ id \in Identities /\ n \in Nat /\ 0 .. n \subseteq SequenceNumbers
        /\ \A k \in 0 .. n : Fingerprint(c, k) # None
    BY <2>1, ReceivableIsOffered, ChainTypes, NoneAssumption
  <2>3. CASE LearnAdopt(v, c)
    BY <1>1, <2>1, <2>3, LearnAdoptHolds DEF IInv
  <2>4. CASE Holds(v, c) /\ ~ Restart(v)
    <3>1. \A k \in 0 .. n : seen'[v][id][k] = Fingerprint(c, k)
      BY <1>1, <2>2, <2>4, StepKeepsFingerprints DEF Holds
    <3>2. NotOlder(states[v][id], states'[v][id])
      BY <1>1, <2>2, <2>4, StepKeepsStates DEF IInv
    <3>3. TypeOK /\ TypeOK'
      BY <1>1, NextIInv, NextIsRegistryNext DEF IInv
    <3>4. /\ states[v][id] # None => states[v][id].sequence \in Nat
          /\ states'[v][id] # None => states'[v][id].sequence \in Nat
      <4>1. states[v] \in StateTables /\ states'[v] \in StateTables
        BY <3>3 DEF TypeOK
      <4> QED BY <2>2, <4>1, StatesCount
    <3>5. states'[v][id] # None /\ states'[v][id].sequence >= n
      BY <2>2, <2>4, <3>2, <3>4 DEF Holds, NotOlder
    <3> QED BY <3>1, <3>5 DEF Holds
  <2> QED BY <1>1, <2>3, <2>4
<1>2. IInv /\ [Next]_vars =>
        [\A v \in Verifiers, c \in Verifiable :
           Holds(v, c) \/ LearnAdopt(v, c) => Holds(v, c)' \/ Restart(v)]_vars
  BY <1>1
<1> QED BY <1>2, Invariance, PTL DEF Spec, LearnedIsKept

-----------------------------------------------------------------------------
(* One verified chain behind each identity, and what it takes to fork it   *)

\* A state and a table that one chain, presented and verified, left there.
Backs(c, id, state, table) ==
  Identity(c) = id /\ resolve(c) = state /\ Table(c) = table

Backed(id, state, table) ==
  \/ state = None /\ \A k \in SequenceNumbers : table[k] = None
  \/ \E c \in Verifiable : Backs(c, id, state, table)

\* Each table is that of one verified chain; a snapshot's too, for a restart
\* brings it back.
ChainBacked ==
  \A v \in Verifiers, id \in Identities :
    /\ Backed(id, states[v][id], seen[v][id])
    /\ Backed(id, disk[v].states[id], disk[v].seen[id])

LEMMA NextChainBacked ==
  ASSUME OwnSnapshotsOnly, CurrentFormatOnly, IInv, ChainBacked, [Next]_vars
  PROVE  ChainBacked'
<1> USE DEF IInv
<1>1. SUFFICES ASSUME NEW v \in Verifiers, NEW id \in Identities
               PROVE  /\ Backed(id, states'[v][id], seen'[v][id])
                      /\ Backed(id, disk'[v].states[id], disk'[v].seen[id])
  BY DEF ChainBacked, Backed, Backs
<1>2. /\ Backed(id, states[v][id], seen[v][id])
      /\ Backed(id, disk[v].states[id], disk[v].seen[id])
  BY DEF ChainBacked
<1>3. ASSUME NEW w \in Verifiers, NEW c \in Presented, LearnAdopt(w, c)
      PROVE  Backed(id, states'[v][id], seen'[v][id]) /\ disk' = disk
  <2>1. c \in Receivable /\ c \in Verifiable
    BY <1>3, PresentedAssumption DEF Receivable, Verifiable, LearnAdopt
  <2>2. /\ Identity(c) \in Identities
        /\ states' = [states EXCEPT ![w][Identity(c)] = states'[w][Identity(c)]]
        /\ seen' = [seen EXCEPT ![w][Identity(c)] = seen'[w][Identity(c)]]
        /\ \/ /\ states'[w][Identity(c)] = states[w][Identity(c)]
              /\ seen'[w][Identity(c)] = seen[w][Identity(c)]
           \/ /\ states'[w][Identity(c)] = resolve(c)
              /\ seen'[w][Identity(c)] = Table(c)
    BY <1>3, <2>1, LearnAdoptEffect
  <2>3. \A u \in Verifiers, i \in Identities : u # w \/ i # Identity(c) =>
          states'[u][i] = states[u][i] /\ seen'[u][i] = seen[u][i]
    BY <2>2 DEF TypeOK, StateTables, SeenTables
  <2>4. disk' = disk
    BY <1>3 DEF LearnAdopt
  <2>5. \/ states'[v][id] = states[v][id] /\ seen'[v][id] = seen[v][id]
        \/ Backs(c, id, states'[v][id], seen'[v][id])
    BY <2>2, <2>3 DEF Backs
  <2> QED BY <1>2, <2>1, <2>4, <2>5 DEF Backed
<1>4. ASSUME NEW w \in Verifiers, NEW c \in Presented, LearnConflict(w, c)
      PROVE  states' = states /\ seen' = seen /\ disk' = disk
  BY <1>4 DEF LearnConflict
<1>5. ASSUME NEW w \in Verifiers, NEW n \in Versions, SaveSnapshot(w, n)
      PROVE  /\ states' = states /\ seen' = seen
             /\ \/ disk'[v] = disk[v]
                \/ disk'[v].states = states[v] /\ disk'[v].seen = seen[v]
  <2>1. ~ (n < SNAPSHOT_VERSION)
    BY VersionsAssumption DEF CurrentFormatOnly, SNAPSHOT_VERSION
  <2> QED BY <1>5, <2>1 DEF SaveSnapshot, TypeOK
<1>6. ASSUME NEW w \in Verifiers, NEW u \in Sources[w], Restore(w, u)
      PROVE  states' = states /\ seen' = seen /\ disk' = disk
  BY <1>6, RestoreIsNoOp DEF vars
<1>7. ASSUME NEW w \in Verifiers, Restart(w)
      PROVE  /\ disk' = disk
             /\ \/ states'[v] = states[v] /\ seen'[v] = seen[v]
                \/ states'[v] = disk[v].states /\ seen'[v] = disk[v].seen
  BY <1>7, RestartEffect DEF TypeOK
<1>8. CASE UNCHANGED vars
  BY <1>2, <1>8 DEF vars
<1> QED BY <1>2, <1>3, <1>4, <1>5, <1>6, <1>7, <1>8 DEF Next, Learn

LEMMA ChainBackedInvariance ==
  ASSUME OwnSnapshotsOnly, CurrentFormatOnly
  PROVE  Spec => []ChainBacked
<1>1. Init => ChainBacked
  BY DEF Init, ChainBacked, Backed, NoStates, NothingSeen, EmptySnapshot
<1>2. IInv /\ ChainBacked /\ [Next]_vars => ChainBacked'
  BY NextChainBacked
<1> QED BY <1>1, <1>2, Invariance, PTL DEF Spec

\* Two verified chains of one identity that differ somewhere differ first at
\* some k, where one key signed two records that put the same key in force.
SignedTwice(c, d, k) ==
  /\ k \in 0 .. Len(c.rotations) /\ k \in 0 .. Len(d.rotations)
  /\ Payload(Record(c, k)) # Payload(Record(d, k))
  /\ Record(c, k).signature = Record(d, k).signature
  /\ Standing(c, k).current_address = Standing(d, k).current_address

LEMMA FirstDifference ==
  ASSUME NEW c, Offered(c), Resolves(c), NEW d, Offered(d), Resolves(d),
         Identity(c) = Identity(d),
         NEW j \in 0 .. Len(c.rotations), j \in 0 .. Len(d.rotations),
         Fingerprint(c, j) # Fingerprint(d, j)
  PROVE  \E k \in SequenceNumbers : SignedTwice(c, d, k)
<1> DEFINE Differ == {k \in 0 .. j : Fingerprint(c, k) # Fingerprint(d, k)}
<1>1. /\ Len(c.rotations) \in Nat /\ Len(d.rotations) \in Nat
      /\ 0 .. Len(c.rotations) \subseteq SequenceNumbers
  BY ChainTypes
<1>2. PICK k \in Differ : \A i \in Differ : k <= i
  <2>1. Differ \subseteq Nat /\ Differ # {}
    BY <1>1
  <2> HIDE DEF Differ
  <2> QED BY <2>1, LeastElement
<1>3. k \in 0 .. Len(c.rotations) /\ k \in 0 .. Len(d.rotations)
  BY <1>1, <1>2
<1>4. \A i \in 0 .. k - 1 : Fingerprint(c, i) = Fingerprint(d, i)
  <2> SUFFICES ASSUME NEW i \in 0 .. k - 1
               PROVE  Fingerprint(c, i) = Fingerprint(d, i)
    OBVIOUS
  <2>1. i \in 0 .. j /\ ~ (k <= i)
    BY <1>1, <1>2
  <2> QED BY <1>2, <2>1
<1>5. k <= Len(d.rotations)
  BY <1>1, <1>3
<1>6. /\ Record(c, k).signature = Record(d, k).signature
      /\ Standing(c, k).current_address = Standing(d, k).current_address
  BY <1>3, <1>4, <1>5, ForkPutsSameKeyInForce
<1>7. Payload(Record(c, k)) # Payload(Record(d, k))
  BY <1>2 DEF Fingerprint, Record, inception_identity, rotation_identity
<1> QED BY <1>1, <1>3, <1>6, <1>7 DEF SignedTwice

\* Two verifiers that hold different records of one identity at one place.
Disagree(v, w, id) ==
  \E k \in SequenceNumbers : /\ seen[v][id][k] # None
                             /\ seen[w][id][k] # None
                             /\ seen[v][id][k] # seen[w][id][k]

DisagreementIsDoubleSigning ==
  \A v, w \in Verifiers, id \in Identities : Disagree(v, w, id) =>
    \E c, d \in Verifiable :
      /\ Backs(c, id, states[v][id], seen[v][id])
      /\ Backs(d, id, states[w][id], seen[w][id])
      /\ \E k \in SequenceNumbers : SignedTwice(c, d, k)

\* What the protocol promises to the verifiers together, who never talk to one
\* another: if two of them ever hold different histories of an identity, a key
\* of that identity signed two different records at the first place where the
\* histories part, and there both still put the same key in force. Without a
\* leaked key all of them follow one history; with one, the fork brings in no
\* key but the one the owner had committed to.
THEOREM VerifiersPartOnlyByDoubleSigning ==
  ASSUME OwnSnapshotsOnly, CurrentFormatOnly
  PROVE  Spec => []DisagreementIsDoubleSigning
<1>1. ASSUME ChainBacked PROVE DisagreementIsDoubleSigning
  <2> SUFFICES ASSUME NEW v \in Verifiers, NEW w \in Verifiers,
                      NEW id \in Identities, Disagree(v, w, id)
               PROVE  \E c, d \in Verifiable :
                        /\ Backs(c, id, states[v][id], seen[v][id])
                        /\ Backs(d, id, states[w][id], seen[w][id])
                        /\ \E k \in SequenceNumbers : SignedTwice(c, d, k)
    BY DEF DisagreementIsDoubleSigning
  <2>1. PICK j \in SequenceNumbers : /\ seen[v][id][j] # None
                                     /\ seen[w][id][j] # None
                                     /\ seen[v][id][j] # seen[w][id][j]
    BY DEF Disagree
  <2>2. PICK c \in Verifiable : Backs(c, id, states[v][id], seen[v][id])
    BY <1>1, <2>1 DEF ChainBacked, Backed
  <2>3. PICK d \in Verifiable : Backs(d, id, states[w][id], seen[w][id])
    BY <1>1, <2>1 DEF ChainBacked, Backed
  <2>4. /\ Offered(c) /\ Resolves(c) /\ Offered(d) /\ Resolves(d)
        /\ Identity(c) = Identity(d)
    BY <2>2, <2>3, PresentedAssumption DEF Verifiable, Offered, Backs
  <2>5. Table(c)[j] # None /\ Table(d)[j] # None /\ Table(c)[j] # Table(d)[j]
    BY <2>1, <2>2, <2>3 DEF Backs
  <2>6. /\ j <= Len(c.rotations) /\ j <= Len(d.rotations)
        /\ Fingerprint(c, j) # Fingerprint(d, j)
    BY <2>5 DEF Table
  <2>7. j \in 0 .. Len(c.rotations) /\ j \in 0 .. Len(d.rotations)
    BY <2>4, <2>6, ChainTypes
  <2>8. \E k \in SequenceNumbers : SignedTwice(c, d, k)
    BY <2>4, <2>6, <2>7, FirstDifference
  <2> QED BY <2>2, <2>3, <2>8
<1> QED BY <1>1, ChainBackedInvariance, PTL

-----------------------------------------------------------------------------
(* Evidence                                                                *)

\* A rotation is not an inception: it has a field that none of them has.
LEMMA RotationsAreNotInceptions ==
  ASSUME NEW r \in KeyRotations
  PROVE  r \notin Inceptions
<1>1. "identity" \in DOMAIN r
  BY DEF KeyRotations
<1>2. \A i \in Inceptions : "identity" \notin DOMAIN i
  BY DEF Inceptions
<1> QED BY <1>1, <1>2

\* All records of one history name the identity its state names: by the last
\* position where one would not.
LEMMA HistoryNamesOneIdentity ==
  ASSUME NEW id, NEW state \in RotationStates, state # None, NEW table,
         HistoryOK(id, state, table), NEW k \in 0 .. state.sequence
  PROVE  StandingAfter(table[k].payload, k).identity = id
<1> DEFINE n == state.sequence
           Right(j) == StandingAfter(table[n - j].payload, n - j).identity = id
           Wrong == {j \in 0 .. n : ~ Right(j)}
<1>0. n \in Nat /\ n \in SequenceNumbers /\ 0 .. n \subseteq SequenceNumbers
  BY DEF RotationStates
<1>1. Right(0)
  <2>1. table[n] # None /\ state.identity = id
    BY <1>0 DEF HistoryOK
  <2>2. StandingAfter(table[n].payload, n) = state
    BY <1>0, <2>1 DEF HistoryOK
  <2>3. n - 0 = n
    BY <1>0
  <2> QED BY <2>1, <2>2, <2>3
<1>2. ASSUME NEW j \in 1 .. n, Right(j - 1) PROVE Right(j)
  <2> DEFINE i == n - (j - 1)
  <2>1. i \in 1 .. n /\ i \in SequenceNumbers /\ i > 0 /\ i - 1 = n - j
    BY <1>0
  <2>2. table[i] # None
    BY <1>0, <2>1 DEF HistoryOK
  <2>3. Succeeds(table[i].payload, StandingAfter(table[i - 1].payload, i - 1))
    BY <2>1, <2>2 DEF HistoryOK
  <2>4. table[i].payload.identity = id
    <3>1. StandingAfter(table[i].payload, i).identity = id
      BY <1>2
    <3>2. StandingAfter(table[i].payload, i) = Rotated(table[i].payload)
      BY <2>1 DEF StandingAfter
    <3> QED BY <3>1, <3>2 DEF Rotated
  <2>5. StandingAfter(table[i - 1].payload, i - 1).identity = id
    BY <2>3, <2>4 DEF Succeeds
  <2> QED BY <2>1, <2>5
<1>3. ASSUME Wrong # {} PROVE FALSE
  <2>1. PICK j \in Wrong : \A i \in Wrong : j <= i
    <3> Wrong \subseteq Nat
      BY <1>0
    <3> HIDE DEF Wrong
    <3> QED BY <1>3, LeastElement
  <2>2. j \in 1 .. n /\ j - 1 \in 0 .. n
    BY <1>0, <1>1
  <2>3. j - 1 \notin Wrong
    BY <2>1, <2>2, <1>0
  <2>4. Right(j - 1)
    BY <2>2, <2>3
  <2> QED BY <1>2, <2>1, <2>2, <2>4
<1>4. n - k \in 0 .. n /\ n - (n - k) = k
  BY <1>0
<1>5. Right(n - k)
  BY <1>3, <1>4
<1> QED BY <1>4, <1>5

\* What the invariants say of one piece of evidence.
Proves(e, id, table) ==
  LET k == SequenceOf(e) IN
  /\ StandingAfter(e, k).identity = id
  /\ IF k = 0 THEN verify_inception(e) ELSE verify_signature(e)
  /\ table[k] # None
  /\ table[k].payload # Payload(e)
  /\ e.signature = IF k = 0 THEN table[k].payload.address
                            ELSE table[k].payload.previous
  /\ k \in SequenceNumbers

EvidenceProves ==
  \A v \in Verifiers, id \in Identities : \A e \in evidence[v][id] :
    id \in duplicity[v] /\ Proves(e, id, seen[v][id])

\* A table that keeps what it held still contradicts the same evidence.
LEMMA ProvesIsStable ==
  ASSUME NEW e, NEW id, NEW table, NEW later, Proves(e, id, table),
         \A k \in SequenceNumbers : table[k] # None => later[k] = table[k]
  PROVE  Proves(e, id, later)
  BY DEF Proves

\* The record learn keeps when it meets a conflict.
LEMMA ConflictProves ==
  ASSUME TypeOK, HistoryBacksState,
         NEW v \in Verifiers, NEW c \in Receivable, LearnConflict(v, c)
  PROVE  Proves(Record(c, Min(Conflicts(v, c))), Identity(c), seen[v][Identity(c)])
<1> DEFINE id == Identity(c)
           k == Min(Conflicts(v, c))
           e == Record(c, k)
<1>1. /\ Offered(c) /\ id \in Identities /\ Resolves(c)
      /\ Len(c.rotations) \in Nat /\ 0 .. Len(c.rotations) \subseteq SequenceNumbers
  BY ReceivableIsOffered, ChainTypes DEF LearnConflict
<1>2. k \in Conflicts(v, c) /\ \A j \in Conflicts(v, c) : k <= j
  <2>1. Conflicts(v, c) # {} /\ Conflicts(v, c) \subseteq Nat
    BY <1>1 DEF LearnConflict, Conflicts
  <2> QED BY <2>1, FirstConflict
<1> HIDE DEF k
<1>3. /\ k \in 0 .. Len(c.rotations)
      /\ seen[v][id][k] # None
      /\ seen[v][id][k] # Fingerprint(c, k)
  BY <1>2 DEF Conflicts
<1>4. e \in (IF k = 0 THEN Inceptions ELSE KeyRotations)
  BY <1>1, <1>3, ChainTypes
<1>5. /\ Standing(c, k).sequence = k
      /\ Standing(c, k).identity = id
  BY <1>1, <1>3, ChainNamesOneIdentity
<1>6. SequenceOf(e) = k
  <2>1. CASE k = 0
    BY <1>4, <2>1 DEF SequenceOf
  <2>2. CASE k # 0
    <3>1. e \notin Inceptions
      BY <1>4, <2>2, RotationsAreNotInceptions
    <3>2. Standing(c, k).sequence = e.sequence
      BY <2>2 DEF Standing, StandingAfter, Rotated
    <3> QED BY <1>5, <3>1, <3>2 DEF SequenceOf
  <2> QED BY <2>1, <2>2
<1>7. IF k = 0 THEN verify_inception(e) ELSE verify_signature(e)
  <2>1. CASE k = 0
    BY <1>1, <2>1 DEF Resolves, Record
  <2>2. CASE k # 0
    <3>1. k \in 1 .. Len(c.rotations)
      BY <1>1, <1>3, <2>2
    <3> QED BY <1>1, <2>2, <3>1 DEF Resolves, Record
  <2> QED BY <2>1, <2>2
<1>8. seen[v][id][k].payload # Payload(e)
  <2>1. seen[v][id][k] \in (IF k = 0 THEN InceptionDigests ELSE RotationDigests)
    <3>1. seen[v] \in SeenTables
      BY DEF TypeOK
    <3> QED BY <1>1, <1>3, <3>1 DEF SeenTables
  <2>2. CASE k = 0
    <3>1. PICK i \in Inceptions : seen[v][id][k] = inception_identity(i)
      BY <2>1, <2>2 DEF InceptionDigests
    <3>2. Fingerprint(c, k) = inception_identity(e)
      BY <2>2 DEF Fingerprint, Record
    <3> QED BY <1>3, <3>1, <3>2 DEF inception_identity, signing_input
  <2>3. CASE k # 0
    <3>1. PICK r \in KeyRotations : seen[v][id][k] = rotation_identity(r)
      BY <2>1, <2>3 DEF RotationDigests
    <3>2. Fingerprint(c, k) = rotation_identity(e)
      BY <2>3 DEF Fingerprint, Record
    <3> QED BY <1>3, <3>1, <3>2 DEF rotation_identity, signing_input
  <2> QED BY <2>2, <2>3
<1>9. StandingAfter(e, k).identity = id
  BY <1>5 DEF Standing
<1>10. e.signature = IF k = 0 THEN seen[v][id][k].payload.address
                            ELSE seen[v][id][k].payload.previous
  <2> DEFINE state == states[v][id]
             table == seen[v][id]
  <2>1. HistoryOK(id, state, table)
    BY <1>1 DEF HistoryBacksState
  <2>2. k \in SequenceNumbers /\ k \in Nat
    BY <1>1, <1>3
  <2>3. state # None /\ k <= state.sequence
    BY <1>3, <2>1, <2>2 DEF HistoryOK
  <2>4. state \in RotationStates /\ state.sequence \in Nat
    BY <1>1, <2>3 DEF TypeOK, StateTables, RotationStates
  <2>5. CASE k = 0
    <3>1. e.signature = e.address
      BY <1>7, <2>5 DEF verify_inception
    <3>2. e.address = id
      BY <2>5 DEF Record, Identity
    <3>3. StandingAfter(table[k].payload, k).identity = id
      <4>1. k \in 0 .. state.sequence
        BY <2>2, <2>3, <2>4
      <4> HIDE DEF state, table, id
      <4> QED BY <2>1, <2>3, <2>4, <4>1, HistoryNamesOneIdentity
    <3>4. table[k].payload.address = id
      BY <2>5, <3>3 DEF StandingAfter, Born
    <3> QED BY <2>5, <3>1, <3>2, <3>4
  <2>6. CASE k # 0
    <3>1. k > 0 /\ k - 1 \in SequenceNumbers /\ k - 1 \in 0 .. Len(c.rotations)
            /\ k \in 1 .. Len(c.rotations) /\ k - 1 <= state.sequence
            /\ ~ (k <= k - 1)
      BY <1>1, <1>3, <2>2, <2>3, <2>4, <2>6
    <3>2. table[k - 1] # None
      BY <2>1, <2>3, <3>1 DEF HistoryOK
    <3>3. k - 1 \notin Conflicts(v, c)
      BY <1>2, <3>1
    <3>4. table[k - 1] = Fingerprint(c, k - 1)
      BY <3>1, <3>2, <3>3 DEF Conflicts
    <3>5. StandingAfter(table[k - 1].payload, k - 1) = Standing(c, k - 1)
      BY <1>1, <3>1, <3>4, FingerprintPayload
    <3>6. Succeeds(table[k].payload, Standing(c, k - 1))
      BY <1>3, <2>1, <2>2, <3>1, <3>5 DEF HistoryOK
    <3>7. e = c.rotations[k]
      BY <2>6 DEF Record
    <3>8. Succeeds(e, Standing(c, k - 1))
      BY <1>1, <3>1, <3>7 DEF Resolves
    <3>9. e.signature = e.previous
      BY <1>7, <2>6 DEF verify_signature
    <3> QED BY <2>6, <3>6, <3>8, <3>9 DEF Succeeds
  <2> QED BY <2>5, <2>6
<1> HIDE DEF e, id
<1>11. Proves(e, id, seen[v][id])
  BY <1>1, <1>3, <1>6, <1>7, <1>8, <1>9, <1>10 DEF Proves
<1> QED BY <1>11 DEF e, id, k

LEMMA NextEvidenceProves ==
  ASSUME OwnSnapshotsOnly, IInv, EvidenceProves, [RegistryNext]_vars
  PROVE  EvidenceProves'
<1> USE DEF IInv
<1>1. ASSUME NEW v \in Verifiers, NEW c \in Receivable, LearnAdopt(v, c)
      PROVE  EvidenceProves'
  <2>1. /\ evidence' = evidence /\ duplicity' = duplicity
        /\ Identity(c) \in Identities
        /\ seen' = [seen EXCEPT ![v][Identity(c)] = seen'[v][Identity(c)]]
        /\ \A k \in SequenceNumbers : seen[v][Identity(c)][k] # None =>
             seen'[v][Identity(c)][k] = seen[v][Identity(c)][k]
    BY <1>1, LearnAdoptEffect DEF LearnAdopt
  <2>2. \A w \in Verifiers, id \in Identities, k \in SequenceNumbers :
          seen[w][id][k] # None => seen'[w][id][k] = seen[w][id][k]
    <3>1. \A w \in Verifiers, id \in Identities : w # v \/ id # Identity(c) =>
            seen'[w][id] = seen[w][id]
      BY <2>1 DEF TypeOK, SeenTables
    <3> QED BY <2>1, <3>1
  <2> SUFFICES ASSUME NEW w \in Verifiers, NEW id \in Identities,
                      NEW e \in evidence[w][id]
               PROVE  id \in duplicity[w] /\ Proves(e, id, seen'[w][id])
    BY <2>1 DEF EvidenceProves, Proves
  <2> QED BY <2>2, ProvesIsStable DEF EvidenceProves
<1>2. ASSUME NEW v \in Verifiers, NEW c \in Receivable, LearnConflict(v, c)
      PROVE  EvidenceProves'
  <2> DEFINE new == Record(c, Min(Conflicts(v, c)))
  <2>1. /\ seen' = seen
        /\ duplicity' = [duplicity EXCEPT ![v] = @ \cup {Identity(c)}]
        /\ evidence' = [evidence EXCEPT ![v][Identity(c)] = @ \cup {new}]
        /\ Identity(c) \in Identities
    BY <1>2, ReceivableIsOffered DEF LearnConflict
  <2>2. Proves(new, Identity(c), seen[v][Identity(c)])
    BY <1>2, ConflictProves
  <2> HIDE DEF new
  <2>3. ASSUME NEW w \in Verifiers, NEW id \in Identities,
               NEW e \in evidence'[w][id]
        PROVE  id \in duplicity'[w] /\ Proves(e, id, seen[w][id])
    <3>1. /\ \/ e \in evidence[w][id]
             \/ w = v /\ id = Identity(c) /\ e = new
          /\ duplicity[w] \subseteq duplicity'[w]
          /\ Identity(c) \in duplicity'[v]
      BY <2>1 DEF TypeOK
    <3> QED BY <2>2, <3>1 DEF EvidenceProves
  <2> QED BY <2>1, <2>3 DEF EvidenceProves, Proves
<1>3. ASSUME NEW v \in Verifiers, NEW n \in Versions, SaveSnapshot(v, n)
      PROVE  EvidenceProves'
  BY <1>3 DEF SaveSnapshot, EvidenceProves, Proves
<1>4. CASE UNCHANGED vars
  BY <1>4 DEF vars, EvidenceProves, Proves
<1>5. ASSUME NEW v \in Verifiers, NEW w \in Sources[v], Restore(v, w)
      PROVE  EvidenceProves'
  BY <1>4, <1>5, RestoreIsNoOp
<1>6. ASSUME NEW v \in Verifiers, Restart(v) PROVE EvidenceProves'
  <2>1. /\ \A id \in Identities : evidence'[v][id] = {}
        /\ \A w \in Verifiers : w # v => /\ evidence'[w] = evidence[w]
                                        /\ seen'[w] = seen[w]
                                        /\ duplicity'[w] = duplicity[w]
    BY <1>6, RestartEffect DEF Restart, NoEvidence, TypeOK
  <2> SUFFICES ASSUME NEW w \in Verifiers, NEW id \in Identities,
                      NEW e \in evidence'[w][id]
               PROVE  id \in duplicity'[w] /\ Proves(e, id, seen'[w][id])
    BY DEF EvidenceProves, Proves
  <2>2. w # v
    BY <2>1
  <2> QED BY <2>1, <2>2 DEF EvidenceProves
<1> QED BY <1>1, <1>2, <1>3, <1>4, <1>5, <1>6 DEF RegistryNext, Learn

LEMMA EvidenceInvariance ==
  ASSUME OwnSnapshotsOnly, CurrentFormatOnly
  PROVE  Spec => []EvidenceProves
<1>1. Init => EvidenceProves
  BY DEF Init, NoEvidence, EvidenceProves
<1>2. IInv /\ EvidenceProves /\ [Next]_vars => EvidenceProves'
  BY NextEvidenceProves, NextIsRegistryNext
<1> QED BY <1>1, <1>2, Invariance, PTL DEF Spec

\* Whatever is learned or restored after a conflict, every record that
\* duplicity_evidence() hands out stays proof: rightly signed, about this
\* identity, and contradicting the record this registry holds in its place.
THEOREM EvidenceStaysProof ==
  ASSUME OwnSnapshotsOnly, CurrentFormatOnly
  PROVE  Spec => []EvidenceIsProof
<1>1. EvidenceProves => EvidenceIsProof
  BY DEF EvidenceProves, Proves, EvidenceIsProof
<1> QED BY <1>1, EvidenceInvariance, PTL

\* Whatever is presented, a registry accuses an identity only when one of its
\* keys signed twice: the evidence and the record it contradicts were signed by
\* one and the same key.
THEOREM AccusedKeySignedTwice ==
  ASSUME OwnSnapshotsOnly, CurrentFormatOnly
  PROVE  Spec => []EvidenceIsDoubleSigning
<1>1. EvidenceProves => EvidenceIsDoubleSigning
  BY DEF EvidenceProves, Proves, EvidenceIsDoubleSigning
<1> QED BY <1>1, EvidenceInvariance, PTL

-----------------------------------------------------------------------------
(* Refinement: the history behind a state, as KeyHistory sees it           *)

\* The history behind a state is as long as the state's sequence says.
LEMMA HistoryOfLength ==
  ASSUME NEW state, state \in RotationStates, state # None, NEW table
  PROVE  /\ HistoryOf(state, table) =
              [k \in 1 .. state.sequence + 1 |-> table[k - 1]]
         /\ Len(HistoryOf(state, table)) = state.sequence + 1
         /\ HistoryOf(state, table) # <<>>
<1> DEFINE h == [k \in 1 .. state.sequence + 1 |-> table[k - 1]]
<1>1. HistoryOf(state, table) = h
  BY DEF HistoryOf
<1>2. state.sequence \in Nat
  BY DEF RotationStates
<1>3. Len(h) = state.sequence + 1
  <2> DEFINE S == {table[k - 1] : k \in 1 .. state.sequence + 1}
  <2>1. h \in [1 .. state.sequence + 1 -> S]
    OBVIOUS
  <2>2. state.sequence + 1 \in Nat
    BY <1>2
  <2> HIDE DEF h, S
  <2>3. h \in Seq(S)
    BY <2>1, <2>2, SeqDef
  <2>4. DOMAIN h = 1 .. Len(h) /\ Len(h) \in Nat
    BY <2>3, LenProperties
  <2> QED BY <2>1, <2>2, <2>4
<1>4. h # <<>>
  BY <1>2, <1>3
<1> QED BY <1>1, <1>3, <1>4

\* A longer history that agrees with a shorter one continues it.
LEMMA Continues ==
  ASSUME NEW old, old = None \/ old \in RotationStates, NEW table,
         NEW new \in RotationStates, new # None, NEW later,
         old = None \/ old.sequence < new.sequence,
         old # None => \A k \in 0 .. old.sequence : later[k] = table[k]
  PROVE  Abstract!IsStrictPrefix(HistoryOf(old, table), HistoryOf(new, later))
<1> DEFINE h == HistoryOf(old, table)
           g == HistoryOf(new, later)
<1>1. /\ g = [k \in 1 .. new.sequence + 1 |-> later[k - 1]]
      /\ Len(g) = new.sequence + 1
      /\ g # <<>>
      /\ new.sequence \in Nat
  BY HistoryOfLength DEF RotationStates
<1>2. CASE old = None
  <2>1. h = <<>>
    BY <1>2 DEF HistoryOf
  <2>2. SubSeq(h, 1, 0) = SubSeq(g, 1, 0)
    BY SubSeqEmpty
  <2> HIDE DEF h, g
  <2>3. Len(h) = 0
    BY <2>1
  <2> QED BY <1>1, <2>1, <2>2, <2>3
       DEF Abstract!IsStrictPrefix, Abstract!IsPrefix, h, g
<1>3. CASE old # None
  <2>1. /\ h = [k \in 1 .. old.sequence + 1 |-> table[k - 1]]
        /\ Len(h) = old.sequence + 1
        /\ old.sequence \in Nat
        /\ old.sequence < new.sequence
    BY <1>3, HistoryOfLength DEF RotationStates
  <2>2. \A k \in 1 .. old.sequence + 1 : h[k] = g[k]
    BY <1>1, <1>3, <2>1
  <2> HIDE DEF h, g
  <2>3. SubSeq(h, 1, Len(h)) = SubSeq(g, 1, Len(h))
    <3> DEFINE S == {h[k] : k \in 1 .. old.sequence + 1}
               n == old.sequence + 1
    <3>1. n \in Int /\ 1 \in Int /\ n - 1 + 1 = n /\ 1 <= n
      BY <2>1
    <3>2. \A k \in 1 .. n : h[k] \in S /\ g[k] \in S
      BY <2>2
    <3> HIDE DEF S, n
    <3>3. /\ SubSeq(h, 1, n) \in Seq(S) /\ Len(SubSeq(h, 1, n)) = n
          /\ \A k \in 1 .. n : SubSeq(h, 1, n)[k] = h[1 + k - 1]
      BY <3>1, <3>2, SubSeqProperties
    <3>4. /\ SubSeq(g, 1, n) \in Seq(S) /\ Len(SubSeq(g, 1, n)) = n
          /\ \A k \in 1 .. n : SubSeq(g, 1, n)[k] = g[1 + k - 1]
      BY <3>1, <3>2, SubSeqProperties
    <3>5. \A k \in 1 .. n : SubSeq(h, 1, n)[k] = SubSeq(g, 1, n)[k]
      BY <2>2, <3>1, <3>3, <3>4 DEF n
    <3>6. SubSeq(h, 1, n) = SubSeq(g, 1, n)
      BY <3>3, <3>4, <3>5, SeqEqual
    <3> QED BY <2>1, <3>6 DEF n
  <2>4. Len(h) <= Len(g) /\ h # g
    BY <1>1, <2>1
  <2>5. Abstract!IsStrictPrefix(h, g)
    BY <2>3, <2>4 DEF Abstract!IsStrictPrefix, Abstract!IsPrefix
  <2> QED BY <2>5 DEF h, g
<1> QED BY <1>2, <1>3

-----------------------------------------------------------------------------
(* Steps                                                                   *)

\* What KeyHistory calls history and saved, of one verifier.
HistoryAt(v) == [id \in Identities |-> HistoryOf(states[v][id], seen[v][id])]

SavedAt(v) ==
  [history |-> [id \in Identities |->
     HistoryOf(disk[v].states[id], disk[v].seen[id])],
   compromised |-> disk[v].duplicity]

\* A step that changes no table, verdict or snapshot is a stutter.
LEMMA Stutters ==
  ASSUME UNCHANGED <<states, seen, duplicity, disk>>
  PROVE  UNCHANGED Abstract!vars
  BY DEF Abstract!vars, HistoryOf

LEMMA InitRefines == Init => Abstract!Init
<1> SUFFICES ASSUME Init PROVE Abstract!Init
  OBVIOUS
<1>1. \A v \in Verifiers :
        /\ states[v] = NoStates /\ seen[v] = NothingSeen
        /\ duplicity[v] = {} /\ disk[v] = EmptySnapshot
  BY DEF Init
<1>2. duplicity = [v \in Verifiers |-> {}]
  BY DEF Init
<1>3. \A v \in Verifiers : HistoryAt(v) = [id \in Identities |-> <<>>]
  <2>1. \A v \in Verifiers, id \in Identities : states[v][id] = None
    BY <1>1 DEF NoStates
  <2>2. \A v \in Verifiers, id \in Identities :
          HistoryOf(states[v][id], seen[v][id]) = <<>>
    BY <2>1 DEF HistoryOf
  <2> SUFFICES ASSUME NEW v \in Verifiers
               PROVE  HistoryAt(v) = [id \in Identities |-> <<>>]
    OBVIOUS
  <2>3. \A id \in Identities : HistoryAt(v)[id] = <<>>
    BY <2>2 DEF HistoryAt
  <2>4. HistoryAt(v) = [id \in Identities |-> HistoryAt(v)[id]]
    BY DEF HistoryAt
  <2> QED BY <2>3, <2>4
<1>4. \A v \in Verifiers :
        SavedAt(v) = [history |-> HistoryAt(v), compromised |-> duplicity[v]]
  <2>1. \A v \in Verifiers : /\ disk[v].states = states[v]
                             /\ disk[v].seen = seen[v]
                             /\ disk[v].duplicity = duplicity[v]
    BY <1>1 DEF EmptySnapshot
  <2> QED BY <2>1 DEF SavedAt, HistoryAt
<1> QED BY <1>2, <1>3, <1>4
     DEF Abstract!Init, Abstract!Current, HistoryAt, SavedAt

LEMMA LearnAdoptRefines ==
  ASSUME IInv, NEW v \in Verifiers, NEW c \in Receivable, LearnAdopt(v, c)
  PROVE  Abstract!Advance(v, Identity(c)) \/ UNCHANGED Abstract!vars
<1> DEFINE id == Identity(c)
<1> USE DEF IInv
<1>1. /\ id \in Identities
      /\ states' = [states EXCEPT ![v][id] = states'[v][id]]
      /\ seen' = [seen EXCEPT ![v][id] = seen'[v][id]]
      /\ \/ /\ states'[v][id] = states[v][id]
            /\ seen'[v][id] = seen[v][id]
         \/ /\ states'[v][id] = resolve(c)
            /\ states[v][id] = None
                 \/ states[v][id].sequence < resolve(c).sequence
      /\ \A k \in SequenceNumbers :
           seen[v][id][k] # None => seen'[v][id][k] = seen[v][id][k]
      /\ duplicity' = duplicity /\ disk' = disk
  BY LearnAdoptEffect DEF LearnAdopt
<1>2. resolve(c) \in RotationStates /\ resolve(c) # None
  BY ReceivableIsOffered, ChainTypes, NoneAssumption DEF resolve
<1>3. \A w \in Verifiers, i \in Identities : w # v \/ i # id =>
        states'[w][i] = states[w][i] /\ seen'[w][i] = seen[w][i]
  BY <1>1 DEF TypeOK, StateTables, SeenTables
<1>4. CASE states'[v][id] = states[v][id] /\ seen'[v][id] = seen[v][id]
  <2>1. states' = states
    <3>1. states' = [states EXCEPT ![v] = [states[v] EXCEPT ![id] = states[v][id]]]
      BY <1>1, <1>4
    <3>2. [states[v] EXCEPT ![id] = states[v][id]] = states[v]
      BY <1>1 DEF TypeOK, StateTables
    <3> QED BY <3>1, <3>2 DEF TypeOK
  <2>2. seen' = seen
    <3>1. seen' = [seen EXCEPT ![v] = [seen[v] EXCEPT ![id] = seen[v][id]]]
      BY <1>1, <1>4
    <3>2. [seen[v] EXCEPT ![id] = seen[v][id]] = seen[v]
      BY <1>1 DEF TypeOK, SeenTables
    <3> QED BY <3>1, <3>2 DEF TypeOK
  <2> QED BY <1>1, <2>1, <2>2, Stutters
<1>5. CASE /\ states'[v][id] = resolve(c)
           /\ states[v][id] = None
                \/ states[v][id].sequence < resolve(c).sequence
  <2> DEFINE old == states[v][id]
  <2>1. old = None \/ old \in RotationStates
    BY <1>1 DEF TypeOK, StateTables
  <2>2. old # None =>
          \A k \in 0 .. old.sequence : seen'[v][id][k] = seen[v][id][k]
    <3> SUFFICES ASSUME old # None, NEW k \in 0 .. old.sequence
                 PROVE  seen'[v][id][k] = seen[v][id][k]
      OBVIOUS
    <3>1. k \in SequenceNumbers /\ k <= old.sequence
      BY <2>1 DEF RotationStates
    <3>2. seen[v][id][k] # None
      BY <1>1, <3>1 DEF HistoryBacksState, HistoryOK
    <3> QED BY <1>1, <3>1, <3>2
  <2>3. Abstract!IsStrictPrefix(HistoryOf(old, seen[v][id]),
                                HistoryOf(states'[v][id], seen'[v][id]))
    BY <1>2, <1>5, <2>1, <2>2, Continues
  <2>4. \A w \in Verifiers, i \in Identities : w # v \/ i # id =>
          HistoryOf(states'[w][i], seen'[w][i]) = HistoryOf(states[w][i], seen[w][i])
    BY <1>3
  <2> QED BY <1>1, <2>3, <2>4
       DEF Abstract!Advance, Abstract!OthersKeep, HistoryOf
<1> QED BY <1>1, <1>4, <1>5

LEMMA LearnConflictRefines ==
  ASSUME IInv, NEW v \in Verifiers, NEW c \in Receivable, LearnConflict(v, c)
  PROVE  Abstract!Brand(v, Identity(c))
<1> DEFINE id == Identity(c)
<1> USE DEF IInv
<1>1. /\ id \in Identities
      /\ states' = states /\ seen' = seen /\ disk' = disk
      /\ duplicity' = [duplicity EXCEPT ![v] = @ \cup {id}]
  BY ReceivableIsOffered DEF LearnConflict
<1>2. PICK k \in 0 .. Len(c.rotations) : seen[v][id][k] # None
  BY DEF LearnConflict, Conflicts
<1>3. k \in SequenceNumbers
  BY <1>2, ReceivableIsOffered, ChainTypes
<1>4. states[v][id] # None /\ states[v][id] \in RotationStates
  BY <1>1, <1>2, <1>3
     DEF HistoryBacksState, HistoryOK, TypeOK, StateTables
<1>5. HistoryOf(states[v][id], seen[v][id]) # <<>>
  BY <1>4, HistoryOfLength
<1> QED BY <1>1, <1>5 DEF Abstract!Brand, HistoryOf

LEMMA SaveSnapshotRefines ==
  ASSUME CurrentFormatOnly, IInv,
         NEW v \in Verifiers, NEW n \in Versions, SaveSnapshot(v, n)
  PROVE  Abstract!Save(v)
<1> USE DEF IInv
<1>1. ~ (n < SNAPSHOT_VERSION)
  BY VersionsAssumption DEF CurrentFormatOnly, SNAPSHOT_VERSION
<1>2. /\ states' = states /\ seen' = seen /\ duplicity' = duplicity
      /\ disk' = [disk EXCEPT ![v] =
                    [version |-> n, states |-> states[v], seen |-> seen[v],
                     duplicity |-> duplicity[v]]]
  BY <1>1 DEF SaveSnapshot
<1>3. /\ disk'[v].states = states[v]
      /\ disk'[v].seen = seen[v]
      /\ disk'[v].duplicity = duplicity[v]
      /\ \A w \in Verifiers : w # v => disk'[w] = disk[w]
  BY <1>2 DEF TypeOK
<1>4. /\ [w \in Verifiers |-> HistoryAt(w)]' = [w \in Verifiers |-> HistoryAt(w)]
      /\ SavedAt(v)' = [history |-> HistoryAt(v), compromised |-> duplicity[v]]
      /\ \A w \in Verifiers : w # v => SavedAt(w)' = SavedAt(w)
  <2>1. [w \in Verifiers |-> HistoryAt(w)]' = [w \in Verifiers |-> HistoryAt(w)]
    BY <1>2 DEF HistoryAt, HistoryOf
  <2>2. SavedAt(v)' = [history |-> HistoryAt(v), compromised |-> duplicity[v]]
    BY <1>3 DEF HistoryAt, SavedAt, HistoryOf
  <2>3. \A w \in Verifiers : w # v => SavedAt(w)' = SavedAt(w)
    BY <1>3 DEF SavedAt, HistoryOf
  <2> QED BY <2>1, <2>2, <2>3
<1>5. [w \in Verifiers |-> SavedAt(w)]' =
        [[w \in Verifiers |-> SavedAt(w)] EXCEPT
           ![v] = [history |-> [w \in Verifiers |-> HistoryAt(w)][v],
                   compromised |-> duplicity[v]]]
  BY <1>4
<1> QED BY <1>2, <1>4, <1>5
     DEF Abstract!Save, Abstract!Current, HistoryAt, SavedAt

LEMMA RestartRefines ==
  ASSUME IInv, NEW v \in Verifiers, Restart(v)
  PROVE  Abstract!Restart(v)
<1> USE DEF IInv
<1>1. /\ states'[v] = disk[v].states
      /\ seen'[v] = disk[v].seen
      /\ duplicity' = [duplicity EXCEPT ![v] = disk[v].duplicity]
      /\ disk' = disk
      /\ \A w \in Verifiers : w # v =>
           states'[w] = states[w] /\ seen'[w] = seen[w]
  BY RestartEffect DEF TypeOK
<1>2. /\ HistoryAt(v)' = SavedAt(v).history
      /\ duplicity' = [duplicity EXCEPT ![v] = SavedAt(v).compromised]
      /\ \A w \in Verifiers : w # v => HistoryAt(w)' = HistoryAt(w)
      /\ [w \in Verifiers |-> SavedAt(w)]' = [w \in Verifiers |-> SavedAt(w)]
  BY <1>1 DEF HistoryAt, SavedAt, HistoryOf
<1>3. [w \in Verifiers |-> HistoryAt(w)]' =
        [[w \in Verifiers |-> HistoryAt(w)] EXCEPT
           ![v] = [w \in Verifiers |-> SavedAt(w)][v].history]
  BY <1>2
<1>4. duplicity' = [duplicity EXCEPT
                      ![v] = [w \in Verifiers |-> SavedAt(w)][v].compromised]
  BY <1>2
<1> QED BY <1>2, <1>3, <1>4 DEF Abstract!Restart, HistoryAt, SavedAt

LEMMA NextRefines ==
  ASSUME OwnSnapshotsOnly, CurrentFormatOnly, IInv, [RegistryNext]_vars
  PROVE  Abstract!Next \/ UNCHANGED Abstract!vars
<1>1. ASSUME NEW v \in Verifiers, NEW c \in Receivable, Learn(v, c)
      PROVE  Abstract!Next \/ UNCHANGED Abstract!vars
  <2>1. Identity(c) \in Identities
    BY ReceivableIsOffered
  <2> QED BY <1>1, <2>1, LearnAdoptRefines, LearnConflictRefines
       DEF Learn, Abstract!Next
<1>2. ASSUME NEW v \in Verifiers, NEW n \in Versions, SaveSnapshot(v, n)
      PROVE  Abstract!Next
  BY <1>2, SaveSnapshotRefines DEF Abstract!Next
<1>3. ASSUME NEW v \in Verifiers, NEW w \in Sources[v], Restore(v, w)
      PROVE  UNCHANGED Abstract!vars
  BY <1>3, RestoreIsNoOp, Stutters DEF vars
<1>4. ASSUME NEW v \in Verifiers, Restart(v)
      PROVE  Abstract!Next
  BY <1>4, RestartRefines DEF Abstract!Next
<1>5. CASE UNCHANGED vars
  BY <1>5, Stutters DEF vars
<1> QED BY <1>1, <1>2, <1>3, <1>4, <1>5 DEF RegistryNext

\* Through any sequence of learn, snapshot, restore and restart, a registry
\* does what KeyHistory allows: the history behind an identity is continued
\* but never rewritten, a verdict stands, and a restart falls back no further
\* than what was saved.
THEOREM RegistryImplementsKeyHistory ==
  ASSUME OwnSnapshotsOnly, CurrentFormatOnly
  PROVE  Spec => RefinesKeyHistory
<1>1. Init => Abstract!Init
  BY InitRefines
<1>2. IInv /\ [Next]_vars => [Abstract!Next]_(Abstract!vars)
  BY NextRefines, NextIsRegistryNext
<1> QED BY <1>1, <1>2, Invariance, PTL DEF Spec, RefinesKeyHistory, Abstract!Spec
=============================================================================
