-------------------------- MODULE RotationSystemProofs --------------------------
(***************************************************************************)
(* An owner who saves before it publishes, and the registries that follow  *)
(* it: for every set of keys and verifiers, whatever snapshots these load, *)
(* of whatever format, and every bound on the length of a history.         *)
(*                                                                         *)
(* Neither HonestNeverBranded nor SuccessionSurvives is inductive. What    *)
(* makes them so is that everything outside the owner is a view of one     *)
(* history, that of the saved handle: every published chain is a beginning *)
(* of it, and every state and fingerprint a registry or a snapshot holds is*)
(* the one this history has at its position. Of the chain in the owner's   *)
(* memory, which may be forgotten and made differently, only what was saved*)
(* is anywhere else.                                                       *)
(***************************************************************************)
EXTENDS RotationSystem, RotationHistoryProofs

USE MaxSequenceAssumption DEF SequenceNumbers

-----------------------------------------------------------------------------
(* The invariant                                                           *)

\* A handle whose keys are the ones its own chain calls for.
Sound(me) ==
  /\ me \in Handles
  /\ me.identity = Genesis.keys
  /\ me.chain \in Receivable
  /\ Identity(me.chain) = Genesis.keys
  /\ Resolves(me.chain)
  /\ resolve(me.chain).current_address = me.keys
  /\ resolve(me.chain).next_commitment = commitment_for_address(me.next_keys)

\* Chain d begins with the whole of chain c.
Begins(c, d) ==
  /\ c.inception = d.inception
  /\ Len(c.rotations) <= Len(d.rotations)
  /\ \A k \in 1 .. Len(c.rotations) : c.rotations[k] = d.rotations[k]

OwnerInv ==
  /\ Sound(handle)
  /\ Sound(vault)
  /\ Begins(vault.chain, handle.chain)
  /\ \A c \in published : c \in Receivable /\ Resolves(c) /\ Begins(c, vault.chain)

\* A known state is one the chain passes through.
StateOf(chain, state) ==
  state # None =>
    /\ state.sequence <= Len(chain.rotations)
    /\ state = Standing(chain, state.sequence)

\* A known fingerprint is that of the chain's record at its position.
TableOf(chain, table) ==
  \A k \in SequenceNumbers : table[k] # None =>
    /\ k <= Len(chain.rotations)
    /\ table[k] = Fingerprint(chain, k)

\* What the registries hold of the identity, in memory and on disk, is a view
\* of the chain. What format 1 kept of its records is not looked at.
MemoryFollows(chain, v) ==
  /\ StateOf(chain, states[v][Genesis.keys])
  /\ TableOf(chain, seen[v][Genesis.keys])
  /\ Genesis.keys \notin duplicity[v]

DiskFollows(chain, v) ==
  /\ StateOf(chain, disk[v].states[Genesis.keys])
  /\ disk[v].version >= SNAPSHOT_VERSION =>
       TableOf(chain, disk[v].seen[Genesis.keys])
  /\ Genesis.keys \notin disk[v].duplicity

Follows(chain) ==
  \A v \in Verifiers : MemoryFollows(chain, v) /\ DiskFollows(chain, v)

HonestInv == TypeOK /\ OwnerInv /\ Follows(vault.chain)

-----------------------------------------------------------------------------
(* One chain that begins with another                                      *)

LEMMA ChainParts ==
  ASSUME NEW c \in Receivable
  PROVE  /\ Offered(c)
         /\ Identity(c) \in Identities
         /\ c = [inception |-> c.inception, rotations |-> c.rotations]
         /\ c.rotations \in Seq(KeyRotations)
         /\ Len(c.rotations) \in Nat
         /\ Len(c.rotations) <= MaxSequence
  BY DEF Receivable, Offered, Chains

LEMMA BeginsItself ==
  ASSUME NEW c \in Receivable
  PROVE  Begins(c, c)
  BY ChainParts DEF Begins

LEMMA BeginsTransitively ==
  ASSUME NEW c \in Receivable, NEW d \in Receivable, NEW e \in Receivable,
         Begins(c, d), Begins(d, e)
  PROVE  Begins(c, e)
<1>1. /\ Len(c.rotations) \in Nat
      /\ Len(d.rotations) \in Nat
      /\ Len(e.rotations) \in Nat
  BY ChainParts
<1>2. ASSUME NEW k \in 1 .. Len(c.rotations)
      PROVE  c.rotations[k] = e.rotations[k]
  <2>1. k \in 1 .. Len(d.rotations)
    BY <1>1 DEF Begins
  <2> QED BY <2>1 DEF Begins
<1> QED BY <1>1, <1>2 DEF Begins

\* As far as the shorter one goes, the two say the same.
LEMMA BeginsAgrees ==
  ASSUME NEW c \in Receivable, NEW d \in Receivable, Begins(c, d),
         NEW k \in 0 .. Len(c.rotations)
  PROVE  /\ k <= Len(d.rotations)
         /\ k \in 0 .. Len(d.rotations)
         /\ Record(c, k) = Record(d, k)
         /\ Fingerprint(c, k) = Fingerprint(d, k)
         /\ Standing(c, k) = Standing(d, k)
<1>1. Len(c.rotations) \in Nat /\ Len(d.rotations) \in Nat
  BY ChainParts
<1>2. k <= Len(d.rotations) /\ k \in 0 .. Len(d.rotations)
  BY <1>1 DEF Begins
<1>3. c.inception = d.inception /\ (k # 0 => c.rotations[k] = d.rotations[k])
  BY <1>1 DEF Begins
<1> QED BY <1>2, <1>3 DEF Record, Fingerprint, Standing

\* What is a view of a chain is a view of every chain that begins with it.
LEMMA ViewsPassOn ==
  ASSUME NEW c \in Receivable, NEW d \in Receivable, Begins(c, d)
  PROVE  /\ \A state \in RotationStates \cup {None} :
              StateOf(c, state) => StateOf(d, state)
         /\ \A table : TableOf(c, table) => TableOf(d, table)
<1>1. Len(c.rotations) \in Nat
  BY ChainParts
<1>2. ASSUME NEW state \in RotationStates \cup {None}, StateOf(c, state),
             state # None
      PROVE  /\ state.sequence <= Len(d.rotations)
             /\ state = Standing(d, state.sequence)
  <2>1. state.sequence \in 0 .. Len(c.rotations)
    BY <1>1, <1>2 DEF StateOf, RotationStates
  <2> QED BY <1>2, <2>1, BeginsAgrees DEF StateOf
<1>3. ASSUME NEW table, TableOf(c, table),
             NEW k \in SequenceNumbers, table[k] # None
      PROVE  k <= Len(d.rotations) /\ table[k] = Fingerprint(d, k)
  <2>1. k \in 0 .. Len(c.rotations)
    BY <1>1, <1>3 DEF TableOf
  <2> QED BY <1>3, <2>1, BeginsAgrees DEF TableOf
<1>4. ASSUME NEW state \in RotationStates \cup {None}, StateOf(c, state)
      PROVE  StateOf(d, state)
  BY <1>2, <1>4 DEF StateOf
<1>5. ASSUME NEW table, TableOf(c, table) PROVE TableOf(d, table)
  BY <1>3, <1>5 DEF TableOf
<1> QED BY <1>4, <1>5

-----------------------------------------------------------------------------
(* The handles an owner holds                                              *)

LEMMA GenesisTypes ==
  /\ Genesis.keys \in Addresses
  /\ Genesis.next_keys \in Addresses
  /\ Genesis.keys \in Identities
  BY GenesisAssumption

LEMMA CreateSound ==
  ASSUME NEW now \in Times
  PROVE  Sound(create(Genesis.keys, Genesis.next_keys, now))
<1> DEFINE inc == SignedInception(Genesis.keys,
                                  commitment_for_address(Genesis.next_keys), now)
           c == [inception |-> inc, rotations |-> <<>>]
           me == create(Genesis.keys, Genesis.next_keys, now)
<1>1. inc \in Inceptions
  BY GenesisTypes DEF SignedInception, Inceptions, Commitments, Signatures
<1>2. /\ inc.address = Genesis.keys
      /\ inc.signature = Genesis.keys
      /\ inc.next_commitment = commitment_for_address(Genesis.next_keys)
  BY DEF SignedInception
<1> HIDE DEF inc
<1>3. /\ c.inception = inc /\ c.rotations = <<>> /\ Len(c.rotations) = 0
      /\ Identity(c) = Genesis.keys
  BY <1>2 DEF Identity
<1>4. c \in Chains
  BY <1>1 DEF Chains
<1>5. me = [identity |-> Genesis.keys, keys |-> Genesis.keys,
            next_keys |-> Genesis.next_keys, chain |-> c]
  BY DEF create, inc
<1> HIDE DEF c
<1>6. c \in Receivable
  BY <1>3, <1>4, GenesisTypes DEF Receivable
<1>7. Resolves(c)
  BY <1>2, <1>3 DEF Resolves, verify_inception
<1>8. /\ resolve(c).current_address = Genesis.keys
      /\ resolve(c).next_commitment = commitment_for_address(Genesis.next_keys)
  BY <1>2, <1>3 DEF resolve, Standing, StandingAfter, Record, Born
<1>9. me \in Handles
  BY <1>4, <1>5, GenesisTypes DEF Handles
<1> HIDE DEF me
<1> QED BY <1>3, <1>5, <1>6, <1>7, <1>8, <1>9 DEF Sound, me

\* The fields of a handle and what they have to do with its chain.
LEMMA SoundParts ==
  ASSUME NEW me, Sound(me)
  PROVE  /\ me.identity = Genesis.keys
         /\ me.keys \in Addresses
         /\ me.next_keys \in Addresses
         /\ me = [identity |-> me.identity, keys |-> me.keys,
                  next_keys |-> me.next_keys, chain |-> me.chain]
         /\ me.chain \in Receivable
         /\ Identity(me.chain) = Genesis.keys
         /\ Resolves(me.chain)
         /\ resolve(me.chain) = Standing(me.chain, Len(me.chain.rotations))
         /\ resolve(me.chain).identity = Genesis.keys
         /\ resolve(me.chain).sequence = Len(me.chain.rotations)
         /\ resolve(me.chain).current_address = me.keys
         /\ resolve(me.chain).next_commitment
              = commitment_for_address(me.next_keys)
<1>1. me \in Handles /\ me.chain \in Receivable /\ Resolves(me.chain)
  BY DEF Sound
<1>2. resolve(me.chain) = Standing(me.chain, Len(me.chain.rotations))
  BY DEF resolve
<1>3. Len(me.chain.rotations) \in 0 .. Len(me.chain.rotations)
  BY <1>1, ChainParts
<1>4. /\ resolve(me.chain).identity = Genesis.keys
      /\ resolve(me.chain).sequence = Len(me.chain.rotations)
  BY <1>1, <1>2, <1>3, ChainParts, ChainNamesOneIdentity DEF Sound
<1>5. /\ me.keys \in Addresses /\ me.next_keys \in Addresses
      /\ me = [identity |-> me.identity, keys |-> me.keys,
               next_keys |-> me.next_keys, chain |-> me.chain]
  BY <1>1 DEF Handles
<1> QED BY <1>1, <1>2, <1>4, <1>5 DEF Sound

\* The record rotate() signs, and what it continues.
LEMMA NextRotationSucceeds ==
  ASSUME NEW me, Sound(me), Len(me.chain.rotations) < MaxSequence,
         NEW following \in Addresses, NEW now \in Times
  PROVE  LET r == NextRotation(me, following, now) IN
         /\ r \in KeyRotations
         /\ Succeeds(r, resolve(me.chain))
         /\ verify_signature(r)
         /\ Rotated(r).current_address = me.next_keys
         /\ Rotated(r).next_commitment = commitment_for_address(following)
<1> DEFINE n == Len(me.chain.rotations)
           r == NextRotation(me, following, now)
<1>1. n \in Nat /\ n + 1 \in 1 .. MaxSequence
  BY SoundParts, ChainParts
<1>2. r = [identity |-> Genesis.keys, sequence |-> n + 1, previous |-> me.keys,
           next_address |-> me.next_keys,
           next_commitment |-> commitment_for_address(following),
           rotated_at |-> now, signature |-> me.keys]
  BY SoundParts DEF NextRotation, SignedRotation
<1>3. r \in KeyRotations
  BY <1>1, <1>2, SoundParts, GenesisTypes DEF KeyRotations, Commitments, Signatures
<1>4. Succeeds(r, resolve(me.chain))
  BY <1>2, SoundParts DEF Succeeds
<1>5. /\ verify_signature(r)
      /\ Rotated(r).current_address = me.next_keys
      /\ Rotated(r).next_commitment = commitment_for_address(following)
  BY <1>2 DEF verify_signature, Rotated
<1> QED BY <1>3, <1>4, <1>5

\* A chain that verifies, with a record that succeeds where it stands.
LEMMA ExtendResolves ==
  ASSUME NEW c \in Receivable, Resolves(c), Len(c.rotations) < MaxSequence,
         NEW r \in KeyRotations, Succeeds(r, resolve(c)), verify_signature(r)
  PROVE  /\ extend(c, r) \in Receivable
         /\ Identity(extend(c, r)) = Identity(c)
         /\ Resolves(extend(c, r))
         /\ Begins(c, extend(c, r))
         /\ resolve(extend(c, r)) = Rotated(r)
<1> DEFINE n == Len(c.rotations)
           d == extend(c, r)
<1>1. c \in Chains
  BY DEF Receivable
<1>2. /\ d.inception = c.inception
      /\ d.rotations = Append(c.rotations, r)
  BY <1>1 DEF extend, Chains
<1>3. c.inception \in Inceptions /\ c.rotations \in Seq(KeyRotations) /\ n \in Nat
  BY ChainParts DEF Receivable, Chains
<1>4. /\ d.rotations \in Seq(KeyRotations)
      /\ Len(d.rotations) = n + 1
      /\ \A k \in 1 .. n : d.rotations[k] = c.rotations[k]
      /\ d.rotations[n + 1] = r
  BY <1>2, <1>3, AppendProperties
<1>5. Identity(d) = Identity(c)
  BY <1>2 DEF Identity
<1>6. d \in Receivable
  <2>1. d \in Chains
    BY <1>1, <1>2, <1>4 DEF extend, Chains
  <2>2. Len(d.rotations) <= MaxSequence
    BY <1>3, <1>4
  <2> QED BY <1>5, <2>1, <2>2, ChainParts DEF Receivable
<1>7. Begins(c, d)
  BY <1>2, <1>3, <1>4 DEF Begins
<1> HIDE DEF d
<1>8. \A k \in 0 .. n : Standing(d, k) = Standing(c, k)
  BY <1>6, <1>7, BeginsAgrees
<1>9. Resolves(d)
  <2>1. verify_inception(d.inception)
    BY <1>2 DEF Resolves
  <2>2. ASSUME NEW k \in 1 .. Len(d.rotations)
        PROVE  /\ Succeeds(d.rotations[k], Standing(d, k - 1))
               /\ verify_signature(d.rotations[k])
    <3>1. CASE k \in 1 .. n
      <4>1. k - 1 \in 0 .. n
        BY <1>3, <3>1
      <4>2. /\ Succeeds(c.rotations[k], Standing(c, k - 1))
            /\ verify_signature(c.rotations[k])
        BY <3>1 DEF Resolves
      <4> QED BY <1>4, <1>8, <3>1, <4>1, <4>2
    <3>2. CASE k = n + 1
      <4>1. k - 1 = n /\ n \in 0 .. n
        BY <1>3, <3>2
      <4>2. Standing(d, k - 1) = resolve(c)
        BY <1>8, <4>1 DEF resolve
      <4> QED BY <1>4, <3>2, <4>2
    <3> QED BY <1>3, <1>4, <3>1, <3>2
  <2> QED BY <2>1, <2>2 DEF Resolves
<1>10. resolve(d) = Rotated(r)
  <2>1. n + 1 # 0
    BY <1>3
  <2> QED BY <1>4, <2>1 DEF resolve, Standing, StandingAfter, Record
<1> QED BY <1>5, <1>6, <1>7, <1>9, <1>10 DEF d

\* rotate() of a sound handle verifies, and leaves a sound handle that
\* continues the chain.
LEMMA RotateSound ==
  ASSUME NEW me, Sound(me), Len(me.chain.rotations) < MaxSequence,
         NEW following \in Addresses, NEW now \in Times
  PROVE  /\ Resolves(rotate(me, following, now).chain)
         /\ Sound(rotate(me, following, now))
         /\ Begins(me.chain, rotate(me, following, now).chain)
<1> DEFINE r == NextRotation(me, following, now)
           d == extend(me.chain, r)
           new == rotate(me, following, now)
<1>1. /\ r \in KeyRotations
      /\ Succeeds(r, resolve(me.chain))
      /\ verify_signature(r)
      /\ Rotated(r).current_address = me.next_keys
      /\ Rotated(r).next_commitment = commitment_for_address(following)
  BY NextRotationSucceeds
<1>2. new = [me EXCEPT !.keys = me.next_keys, !.next_keys = following,
                       !.chain = d]
  BY DEF rotate
<1> HIDE DEF r
<1>3. /\ d \in Receivable
      /\ Identity(d) = Genesis.keys
      /\ Resolves(d)
      /\ Begins(me.chain, d)
      /\ resolve(d) = Rotated(r)
  BY <1>1, SoundParts, ExtendResolves
<1> HIDE DEF d, new
<1>4. me \in Handles /\ d \in Chains
  BY <1>3, ChainParts DEF Sound, Receivable
<1>5. /\ new \in Handles
      /\ new.chain = d
      /\ new.identity = Genesis.keys
      /\ new.keys = me.next_keys
      /\ new.next_keys = following
  BY <1>2, <1>4, SoundParts DEF Handles
<1>6. Sound(new)
  BY <1>1, <1>3, <1>5 DEF Sound
<1> QED BY <1>3, <1>5, <1>6 DEF new

-----------------------------------------------------------------------------
(* The registries, given only chains that one chain begins with            *)

\* A beginning of what a registry has seen contradicts nothing.
LEMMA BeginningContradictsNothing ==
  ASSUME NEW d \in Receivable, Identity(d) = Genesis.keys,
         NEW v \in Verifiers, TableOf(d, seen[v][Genesis.keys]),
         NEW c \in Receivable, Begins(c, d)
  PROVE  Identity(c) = Genesis.keys /\ Conflicts(v, c) = {}
<1>1. Identity(c) = Genesis.keys
  BY DEF Begins, Identity
<1>2. ASSUME NEW k \in 0 .. Len(c.rotations)
      PROVE  seen[v][Genesis.keys][k] \in {None, Fingerprint(c, k)}
  <2>1. k \in SequenceNumbers
    BY ChainParts, ChainTypes
  <2> QED BY <2>1, BeginsAgrees DEF TableOf
<1> QED BY <1>1, <1>2 DEF Conflicts

LEMMA LearnFollows ==
  ASSUME TypeOK, NEW d \in Receivable, Identity(d) = Genesis.keys, Follows(d),
         NEW v \in Verifiers, NEW c \in Receivable, Begins(c, d), Learn(v, c)
  PROVE  Follows(d)'
<1> DEFINE id == Genesis.keys
           n == Len(c.rotations)
<1>1. Identity(c) = id /\ id \in Identities /\ Conflicts(v, c) = {}
  BY BeginningContradictsNothing, GenesisTypes DEF Follows, MemoryFollows
<1>2. LearnAdopt(v, c)
  BY <1>1 DEF Learn, LearnConflict
<1>3. /\ Resolves(c)
      /\ states' = [states EXCEPT ![v][id] =
                      IF Advances(resolve(c), @) THEN resolve(c) ELSE @]
      /\ seen' = [seen EXCEPT ![v][id] = Remembered(c, @)]
      /\ duplicity' = duplicity /\ disk' = disk
  BY <1>1, <1>2 DEF LearnAdopt, Remembered
<1>4. /\ states'[v][id] \in {states[v][id], resolve(c)}
      /\ seen'[v][id] = Remembered(c, seen[v][id])
      /\ \A w \in Verifiers : w # v =>
           states'[w] = states[w] /\ seen'[w] = seen[w]
  BY <1>1, <1>3 DEF TypeOK, StateTables, SeenTables
<1>5. n \in Nat /\ n \in 0 .. n
  BY ChainParts
<1>6. StateOf(d, resolve(c))
  <2>1. /\ resolve(c) = Standing(c, n)
        /\ resolve(c).sequence = n
    BY <1>3, <1>5, ChainParts, ChainNamesOneIdentity DEF resolve
  <2>2. n <= Len(d.rotations) /\ Standing(c, n) = Standing(d, n)
    BY <1>5, BeginsAgrees
  <2> QED BY <2>1, <2>2 DEF StateOf
<1>7. TableOf(d, Remembered(c, seen[v][id]))
  <2> SUFFICES ASSUME NEW k \in SequenceNumbers,
                      Remembered(c, seen[v][id])[k] # None
               PROVE  /\ k <= Len(d.rotations)
                      /\ Remembered(c, seen[v][id])[k] = Fingerprint(d, k)
    BY DEF TableOf
  <2>1. CASE k <= n
    <3>1. k \in 0 .. n
      BY <1>5, <2>1
    <3> QED BY <2>1, <3>1, BeginsAgrees DEF Remembered
  <2>2. CASE ~ (k <= n)
    BY <2>2 DEF Remembered, Follows, MemoryFollows, TableOf
  <2> QED BY <2>1, <2>2
<1>8. ASSUME NEW w \in Verifiers
      PROVE  /\ StateOf(d, states'[w][id])
             /\ TableOf(d, seen'[w][id])
             /\ id \notin duplicity'[w]
  <2>1. /\ StateOf(d, states[w][id])
        /\ TableOf(d, seen[w][id])
        /\ id \notin duplicity[w]
    BY DEF Follows, MemoryFollows
  <2> QED BY <1>3, <1>4, <1>6, <1>7, <2>1
<1>9. ASSUME NEW w \in Verifiers PROVE DiskFollows(d, w)'
  BY <1>3 DEF Follows, DiskFollows, StateOf, TableOf
<1> QED BY <1>8, <1>9 DEF Follows, MemoryFollows, StateOf, TableOf

LEMMA SaveSnapshotFollows ==
  ASSUME TypeOK, NEW d \in Receivable, Follows(d),
         NEW v \in Verifiers, NEW n \in Versions, SaveSnapshot(v, n)
  PROVE  Follows(d)'
<1> DEFINE id == Genesis.keys
<1>1. /\ states' = states /\ seen' = seen /\ duplicity' = duplicity
      /\ disk'[v].version = n
      /\ disk'[v].states = states[v]
      /\ ~ (n < SNAPSHOT_VERSION) => disk'[v].seen = seen[v]
      /\ disk'[v].duplicity = duplicity[v]
      /\ \A w \in Verifiers : w # v => disk'[w] = disk[w]
  BY DEF SaveSnapshot, TypeOK
<1>2. n >= SNAPSHOT_VERSION => ~ (n < SNAPSHOT_VERSION)
  BY VersionsAssumption DEF SNAPSHOT_VERSION
<1>3. ASSUME NEW w \in Verifiers PROVE MemoryFollows(d, w)'
  BY <1>1 DEF Follows, MemoryFollows, StateOf, TableOf
<1>4. ASSUME NEW w \in Verifiers
      PROVE  /\ StateOf(d, disk'[w].states[id])
             /\ disk'[w].version >= SNAPSHOT_VERSION =>
                  TableOf(d, disk'[w].seen[id])
             /\ id \notin disk'[w].duplicity
  <2>1. CASE w = v
    BY <1>1, <1>2, <2>1 DEF Follows, MemoryFollows
  <2>2. CASE w # v
    BY <1>1, <2>2 DEF Follows, DiskFollows
  <2> QED BY <2>1, <2>2
<1> QED BY <1>3, <1>4 DEF Follows, DiskFollows, StateOf, TableOf

\* What comes out of merging a view with a view is a view.
LEMMA RestoredFollows ==
  ASSUME NEW d, NEW known, NEW table, NEW snapshot,
         StateOf(d, known[Genesis.keys]), TableOf(d, table[Genesis.keys]),
         StateOf(d, snapshot.states[Genesis.keys]),
         snapshot.version >= SNAPSHOT_VERSION =>
           TableOf(d, snapshot.seen[Genesis.keys])
  PROVE  /\ StateOf(d, RestoredStates(known, snapshot)[Genesis.keys])
         /\ TableOf(d, RestoredSeen(table, snapshot)[Genesis.keys])
<1> DEFINE id == Genesis.keys
<1>1. RestoredStates(known, snapshot)[id] \in {known[id], snapshot.states[id]}
  BY GenesisTypes DEF RestoredStates
<1>2. ASSUME NEW k \in SequenceNumbers
      PROVE  \/ RestoredSeen(table, snapshot)[id][k] = table[id][k]
             \/ /\ snapshot.version >= SNAPSHOT_VERSION
                /\ RestoredSeen(table, snapshot)[id][k] = snapshot.seen[id][k]
  BY GenesisTypes DEF RestoredSeen
<1>3. StateOf(d, RestoredStates(known, snapshot)[id])
  BY <1>1
<1>4. TableOf(d, RestoredSeen(table, snapshot)[id])
  BY <1>2 DEF TableOf
<1> QED BY <1>3, <1>4

\* restore takes over a view from any snapshot, its own or another's.
LEMMA RestoreFollows ==
  ASSUME TypeOK, NEW d \in Receivable, Follows(d),
         NEW v \in Verifiers, NEW w \in Sources[v], Restore(v, w)
  PROVE  Follows(d)'
<1> DEFINE id == Genesis.keys
<1>1. w \in Verifiers
  BY SourcesAssumption
<1>2. /\ states'[v] = RestoredStates(states[v], disk[w])
      /\ seen'[v] = RestoredSeen(seen[v], disk[w])
      /\ duplicity'[v] = duplicity[v] \cup disk[w].duplicity
      /\ disk' = disk
      /\ \A u \in Verifiers : u # v => /\ states'[u] = states[u]
                                      /\ seen'[u] = seen[u]
                                      /\ duplicity'[u] = duplicity[u]
  BY DEF Restore, TypeOK
<1>3. MemoryFollows(d, v) /\ DiskFollows(d, w)
  BY <1>1 DEF Follows
<1>4. /\ StateOf(d, RestoredStates(states[v], disk[w])[id])
      /\ TableOf(d, RestoredSeen(seen[v], disk[w])[id])
  BY <1>3, RestoredFollows DEF MemoryFollows, DiskFollows
<1>5. ASSUME NEW u \in Verifiers
      PROVE  /\ StateOf(d, states'[u][id])
             /\ TableOf(d, seen'[u][id])
             /\ id \notin duplicity'[u]
  <2>1. CASE u = v
    BY <1>2, <1>3, <1>4, <2>1 DEF MemoryFollows, DiskFollows
  <2>2. CASE u # v
    BY <1>2, <2>2 DEF Follows, MemoryFollows
  <2> QED BY <2>1, <2>2
<1>6. ASSUME NEW u \in Verifiers PROVE DiskFollows(d, u)'
  BY <1>2 DEF Follows, DiskFollows, StateOf, TableOf
<1> QED BY <1>5, <1>6 DEF Follows, MemoryFollows, StateOf, TableOf

LEMMA RestartFollows ==
  ASSUME TypeOK, NEW d \in Receivable, Follows(d),
         NEW v \in Verifiers, Restart(v)
  PROVE  Follows(d)'
<1> DEFINE id == Genesis.keys
<1>1. /\ states'[v] = RestoredStates(NoStates, disk[v])
      /\ seen'[v] = RestoredSeen(NothingSeen, disk[v])
      /\ duplicity'[v] = disk[v].duplicity
      /\ disk' = disk
      /\ \A u \in Verifiers : u # v => /\ states'[u] = states[u]
                                      /\ seen'[u] = seen[u]
                                      /\ duplicity'[u] = duplicity[u]
  BY DEF Restart, TypeOK
<1>2. DiskFollows(d, v)
  BY DEF Follows
<1>3. StateOf(d, NoStates[id]) /\ TableOf(d, NothingSeen[id])
  BY GenesisTypes DEF NoStates, NothingSeen, StateOf, TableOf
<1>4. /\ StateOf(d, RestoredStates(NoStates, disk[v])[id])
      /\ TableOf(d, RestoredSeen(NothingSeen, disk[v])[id])
  BY <1>2, <1>3, RestoredFollows DEF DiskFollows
<1>5. ASSUME NEW u \in Verifiers
      PROVE  /\ StateOf(d, states'[u][id])
             /\ TableOf(d, seen'[u][id])
             /\ id \notin duplicity'[u]
  <2>1. CASE u = v
    BY <1>1, <1>2, <1>4, <2>1 DEF DiskFollows
  <2>2. CASE u # v
    BY <1>1, <2>2 DEF Follows, MemoryFollows
  <2> QED BY <2>1, <2>2
<1>6. ASSUME NEW u \in Verifiers PROVE DiskFollows(d, u)'
  BY <1>1 DEF Follows, DiskFollows, StateOf, TableOf
<1> QED BY <1>5, <1>6 DEF Follows, MemoryFollows, StateOf, TableOf

LEMMA FollowsPassesOn ==
  ASSUME TypeOK, NEW c \in Receivable, NEW d \in Receivable, Begins(c, d),
         Follows(c)
  PROVE  Follows(d)
<1> SUFFICES ASSUME NEW v \in Verifiers
             PROVE  MemoryFollows(d, v) /\ DiskFollows(d, v)
  BY DEF Follows
<1>1. MemoryFollows(c, v) /\ DiskFollows(c, v)
  BY DEF Follows
<1>2. /\ states[v][Genesis.keys] \in RotationStates \cup {None}
      /\ disk[v].states[Genesis.keys] \in RotationStates \cup {None}
  <2>1. states[v] \in StateTables /\ disk[v].states \in StateTables
    BY DEF TypeOK, Snapshots
  <2> QED BY <2>1, GenesisTypes DEF StateTables
<1> QED BY <1>1, <1>2, ViewsPassOn DEF MemoryFollows, DiskFollows

-----------------------------------------------------------------------------
(* The invariant holds                                                     *)

LEMMA InitHonestInv == SystemInit => HonestInv
<1> SUFFICES ASSUME SystemInit PROVE HonestInv
  OBVIOUS
<1>1. PICK now \in Times : handle = create(Genesis.keys, Genesis.next_keys, now)
  BY DEF SystemInit
<1>2. vault = handle /\ published = {} /\ Init
  BY DEF SystemInit
<1>3. Sound(handle)
  BY <1>1, CreateSound
<1>4. Begins(handle.chain, handle.chain)
  BY <1>3, SoundParts, BeginsItself
<1>5. OwnerInv
  BY <1>2, <1>3, <1>4 DEF OwnerInv
<1>6. TypeOK
  BY <1>2, InitTypeOK
<1>7. Follows(vault.chain)
  BY <1>2, GenesisTypes
     DEF Init, Follows, MemoryFollows, DiskFollows, StateOf, TableOf, NoStates,
         NothingSeen, EmptySnapshot
<1> QED BY <1>5, <1>6, <1>7 DEF HonestInv

LEMMA RegistriesKeep ==
  ASSUME TypeOK, UNCHANGED vars, NEW d, Follows(d)
  PROVE  TypeOK' /\ Follows(d)'
<1>1. TypeOK'
  BY DEF vars, TypeOK
<1>2. Follows(d)'
  BY DEF vars, Follows, MemoryFollows, DiskFollows, StateOf, TableOf
<1> QED BY <1>1, <1>2

LEMMA RotateKeeps ==
  ASSUME HonestInv, NEW following \in Addresses, NEW now \in Times,
         Rotate(following, now)
  PROVE  HonestInv'
<1> USE DEF HonestInv
<1>1. /\ handle' = rotate(handle, following, now)
      /\ Len(handle.chain.rotations) < MaxSequence
      /\ vault' = vault /\ published' = published /\ UNCHANGED vars
  BY DEF Rotate
<1>2. Sound(handle) /\ Sound(vault) /\ Begins(vault.chain, handle.chain)
  BY DEF OwnerInv
<1>3. Sound(handle') /\ Begins(handle.chain, handle'.chain)
  BY <1>1, <1>2, RotateSound
<1>4. Begins(vault.chain, handle'.chain)
  BY <1>2, <1>3, SoundParts, BeginsTransitively
<1>5. OwnerInv'
  BY <1>1, <1>2, <1>3, <1>4 DEF OwnerInv
<1>6. PICK d : d = vault.chain
  OBVIOUS
<1>7. TypeOK' /\ Follows(d)'
  BY <1>1, <1>6, RegistriesKeep
<1> QED BY <1>1, <1>5, <1>6, <1>7

LEMMA SaveKeeps ==
  ASSUME HonestInv, Save
  PROVE  HonestInv'
<1> USE DEF HonestInv
<1>1. /\ vault' = handle /\ handle' = handle
      /\ published' = published /\ UNCHANGED vars
  BY DEF Save
<1>2. /\ Sound(handle) /\ Sound(vault) /\ Begins(vault.chain, handle.chain)
      /\ handle.chain \in Receivable /\ vault.chain \in Receivable
  BY SoundParts DEF OwnerInv
<1>3. ASSUME NEW c \in published
      PROVE  c \in Receivable /\ Resolves(c) /\ Begins(c, handle.chain)
  <2>1. c \in Receivable /\ Resolves(c) /\ Begins(c, vault.chain)
    BY DEF OwnerInv
  <2> QED BY <1>2, <2>1, BeginsTransitively
<1>4. Begins(handle.chain, handle.chain)
  BY <1>2, BeginsItself
<1>5. OwnerInv'
  BY <1>1, <1>2, <1>3, <1>4 DEF OwnerInv
<1>6. PICK d : d = handle.chain
  OBVIOUS
<1>7. Follows(d)
  BY <1>2, <1>6, FollowsPassesOn
<1>8. TypeOK' /\ Follows(d)'
  BY <1>1, <1>7, RegistriesKeep
<1> QED BY <1>1, <1>5, <1>6, <1>8

LEMMA PublishKeeps ==
  ASSUME HonestInv, Publish
  PROVE  HonestInv'
<1> USE DEF HonestInv
<1>1. /\ vault = handle /\ vault' = vault /\ handle' = handle
      /\ published' = published \cup {handle.chain} /\ UNCHANGED vars
  BY DEF Publish
<1>2. /\ handle.chain \in Receivable /\ Resolves(handle.chain)
      /\ Begins(handle.chain, vault.chain)
  BY <1>1, SoundParts DEF OwnerInv
<1>3. OwnerInv'
  BY <1>1, <1>2 DEF OwnerInv
<1>4. PICK d : d = vault.chain
  OBVIOUS
<1>5. TypeOK' /\ Follows(d)'
  BY <1>1, <1>4, RegistriesKeep
<1> QED BY <1>1, <1>3, <1>4, <1>5

LEMMA LoseMemoryKeeps ==
  ASSUME HonestInv, LoseMemory
  PROVE  HonestInv'
<1> USE DEF HonestInv
<1>1. /\ handle' = vault /\ vault' = vault
      /\ published' = published /\ UNCHANGED vars
  BY DEF LoseMemory
<1>2. Sound(vault) /\ Begins(vault.chain, vault.chain)
  BY SoundParts, BeginsItself DEF OwnerInv
<1>3. OwnerInv'
  BY <1>1, <1>2 DEF OwnerInv
<1>4. PICK d : d = vault.chain
  OBVIOUS
<1>5. TypeOK' /\ Follows(d)'
  BY <1>1, <1>4, RegistriesKeep
<1> QED BY <1>1, <1>3, <1>4, <1>5

\* A step of a verifier, which leaves the owner alone.
VerifierStep(v) ==
  \/ \E c \in published : Learn(v, c)
  \/ \E version \in Versions : SaveSnapshot(v, version)
  \/ \E w \in Sources[v] : Restore(v, w)
  \/ Restart(v)

LEMMA VerifierStepKeeps ==
  ASSUME HonestInv, NEW v \in Verifiers, VerifierStep(v), UNCHANGED ownerVars
  PROVE  HonestInv' /\ RegistryNext
<1> USE DEF HonestInv
<1>1. handle' = handle /\ vault' = vault /\ published' = published
  BY DEF ownerVars
<1>2. OwnerInv'
  BY <1>1 DEF OwnerInv
<1>3. published \subseteq Receivable
  BY DEF OwnerInv
<1>4. RegistryNext
  BY <1>3 DEF VerifierStep, RegistryNext
<1>5. TypeOK'
  BY <1>4, NextTypeOK
<1>6. PICK d : d = vault.chain
  OBVIOUS
<1>7. d \in Receivable /\ Identity(d) = Genesis.keys /\ Follows(d)
  BY <1>6, SoundParts DEF OwnerInv
<1>8. ASSUME NEW c \in published, Learn(v, c) PROVE Follows(d)'
  <2>1. c \in Receivable /\ Begins(c, d)
    BY <1>6 DEF OwnerInv
  <2> QED BY <1>7, <1>8, <2>1, LearnFollows
<1>9. Follows(d)'
  BY <1>7, <1>8, SaveSnapshotFollows, RestoreFollows, RestartFollows
     DEF VerifierStep
<1> QED BY <1>1, <1>2, <1>4, <1>5, <1>6, <1>9

\* The owner's steps leave the registries alone, and the verifiers' steps are
\* those of registries that are given well-formed chains.
LEMMA SystemStep ==
  ASSUME HonestInv, [SystemNext]_systemVars
  PROVE  HonestInv' /\ [RegistryNext]_vars
<1>1. ASSUME NEW following \in Addresses, NEW now \in Times,
             Rotate(following, now)
      PROVE  HonestInv' /\ UNCHANGED vars
  BY <1>1, RotateKeeps DEF Rotate
<1>2. CASE Save
  BY <1>2, SaveKeeps DEF Save
<1>3. CASE Publish
  BY <1>3, PublishKeeps DEF Publish
<1>4. CASE LoseMemory
  BY <1>4, LoseMemoryKeeps DEF LoseMemory
<1>5. ASSUME NEW v \in Verifiers,
             \/ \E chain \in published : Deliver(v, chain)
             \/ VerifierPersists(v)
             \/ VerifierRestores(v)
             \/ VerifierRestarts(v)
      PROVE  HonestInv' /\ RegistryNext
  <2>1. VerifierStep(v) /\ UNCHANGED ownerVars
    BY <1>5 DEF VerifierStep, Deliver, VerifierPersists, VerifierRestores,
                VerifierRestarts
  <2> QED BY <2>1, VerifierStepKeeps
<1>6. CASE UNCHANGED systemVars
  <2>1. UNCHANGED vars /\ UNCHANGED ownerVars
    BY <1>6 DEF systemVars
  <2>2. OwnerInv'
    BY <2>1 DEF ownerVars, OwnerInv, HonestInv
  <2>3. PICK d : d = vault.chain
    OBVIOUS
  <2>4. TypeOK' /\ Follows(d)'
    BY <2>1, <2>3, RegistriesKeep DEF HonestInv
  <2> QED BY <2>1, <2>2, <2>3, <2>4 DEF HonestInv, ownerVars
<1> QED BY <1>1, <1>2, <1>3, <1>4, <1>5, <1>6 DEF SystemNext

LEMMA HonestInvariance == SystemSpec => []HonestInv
<1>1. SystemInit => HonestInv
  BY InitHonestInv
<1>2. HonestInv /\ [SystemNext]_systemVars => HonestInv'
  BY SystemStep
<1> QED BY <1>1, <1>2, PTL DEF SystemSpec

-----------------------------------------------------------------------------
(* What an honest owner can rely on                                        *)

\* An owner that saves before it publishes is never declared compromised, by
\* any number of verifiers that restore any of each other's snapshots, of any
\* format, in any order.
THEOREM OwnersAreNeverBranded == SystemSpec => []HonestNeverBranded
<1>1. HonestInv => HonestNeverBranded
  BY DEF HonestInv, OwnerInv, Sound, Follows, MemoryFollows, HonestNeverBranded
<1> QED BY <1>1, HonestInvariance, PTL

\* Whatever a verifier trusts, the saved handle can continue from there.
THEOREM SuccessionIsNeverLost == SystemSpec => []SuccessionSurvives
<1>1. HonestInv => SuccessionSurvives
  <2> SUFFICES ASSUME HonestInv, NEW v \in Verifiers,
                      states[v][vault.identity] # None
               PROVE  LET known == states[v][vault.identity]
                          rotations == vault.chain.rotations
                      IN /\ known.sequence <= Len(rotations)
                         /\ known = Standing(vault.chain, known.sequence)
                         /\ known.next_commitment = commitment_for_address(
                              IF known.sequence = Len(rotations)
                              THEN vault.next_keys
                              ELSE rotations[known.sequence + 1].next_address)
    BY DEF SuccessionSurvives
  <2> DEFINE c == vault.chain
             n == Len(c.rotations)
             known == states[v][vault.identity]
             k == known.sequence
  <2>1. Sound(vault) /\ vault.identity = Genesis.keys
    BY SoundParts DEF HonestInv, OwnerInv
  <2>2. /\ c \in Receivable /\ Resolves(c) /\ n \in Nat
        /\ Standing(c, n).next_commitment
             = commitment_for_address(vault.next_keys)
    BY <2>1, SoundParts, ChainParts
  <2>3. k <= n /\ known = Standing(c, k)
    BY <2>1 DEF HonestInv, Follows, MemoryFollows, StateOf
  <2>4. known \in RotationStates
    BY <2>1, GenesisTypes DEF HonestInv, TypeOK, StateTables
  <2>5. k \in Nat
    BY <2>4 DEF RotationStates
  <2>6. CASE k = n
    BY <2>2, <2>3, <2>6
  <2>7. CASE k # n
    <3>1. k + 1 \in 1 .. n /\ k + 1 - 1 = k
      BY <2>2, <2>3, <2>5, <2>7
    <3>2. Succeeds(c.rotations[k + 1], Standing(c, k))
      <4>1. \A j \in 1 .. n : Succeeds(c.rotations[j], Standing(c, j - 1))
        BY <2>2 DEF Resolves
      <4>2. PICK j \in 1 .. n : j = k + 1
        BY <3>1
      <4>3. j - 1 = k
        BY <2>5, <4>2
      <4> HIDE DEF k, c
      <4> QED BY <4>1, <4>2, <4>3
    <3>3. commitment_for_address(c.rotations[k + 1].next_address)
            = known.next_commitment
      BY <2>3, <3>2 DEF Succeeds
    <3> QED BY <2>3, <2>7, <3>3
  <2> QED BY <2>3, <2>6, <2>7
<1> QED BY <1>1, HonestInvariance, PTL

\* rotate() never raises, from memory or from the vault.
THEOREM RotationNeverFails == SystemSpec => []OwnerCanAlwaysRotate
<1>1. HonestInv => OwnerCanAlwaysRotate
  BY RotateSound DEF HonestInv, OwnerInv, OwnerCanAlwaysRotate
<1> QED BY <1>1, HonestInvariance, PTL

\* No verifier ever finds fault with a chain the owner has sent out.
PublishedIsWelcome ==
  \A v \in Verifiers, c \in published : Resolves(c) /\ Conflicts(v, c) = {}

LEMMA PublishedWelcome == HonestInv => PublishedIsWelcome
<1> SUFFICES ASSUME HonestInv, NEW v \in Verifiers, NEW c \in published
             PROVE  Resolves(c) /\ Conflicts(v, c) = {}
  BY DEF PublishedIsWelcome
<1>1. /\ c \in Receivable /\ Resolves(c) /\ Begins(c, vault.chain)
      /\ vault.chain \in Receivable /\ Identity(vault.chain) = Genesis.keys
  BY SoundParts DEF HonestInv, OwnerInv
<1>2. TableOf(vault.chain, seen[v][Genesis.keys])
  BY DEF HonestInv, Follows, MemoryFollows
<1> QED BY <1>1, <1>2, BeginningContradictsNothing

\* Every chain the owner has published, however old, verifies and contradicts
\* nothing that any verifier holds: learn accepts it whenever it arrives.
THEOREM PublishedIsNeverRefused == SystemSpec => []PublishedIsWelcome
  BY PublishedWelcome, HonestInvariance, PTL

\* What VerifiersFollow rests on besides fairness: whenever any published chain
\* reaches a verifier, however late and whatever snapshots it has restored, the
\* verifier then stands at the end of that chain or beyond it.
THEOREM DeliveryIsProgress ==
  SystemSpec => [][\A v \in Verifiers, c \in published :
                     Deliver(v, c) => Holds(v, c)']_systemVars
<1>1. ASSUME HonestInv, NEW v \in Verifiers, NEW c \in published, Deliver(v, c)
      PROVE  Holds(v, c)'
  <2>1. c \in Receivable /\ TypeOK
    BY <1>1 DEF HonestInv, OwnerInv
  <2>2. Conflicts(v, c) = {}
    BY <1>1, PublishedWelcome DEF PublishedIsWelcome
  <2>3. LearnAdopt(v, c)
    BY <1>1, <2>2 DEF Deliver, Learn, LearnConflict
  <2> QED BY <2>1, <2>3, LearnAdoptHolds
<1>2. HonestInv /\ [SystemNext]_systemVars =>
        [\A v \in Verifiers, c \in published :
           Deliver(v, c) => Holds(v, c)']_systemVars
  BY <1>1
<1> QED BY <1>2, HonestInvariance, PTL DEF SystemSpec

\* One history for all: no two verifiers ever hold different records of the
\* owner's identity at one place, and of two that trust the same number of
\* rotations both trust the same key.
VerifiersAgree ==
  \A v, w \in Verifiers :
    LET id == handle.identity IN
    /\ ~ Disagree(v, w, id)
    /\ states[v][id] # None /\ states[w][id] # None
         /\ states[v][id].sequence = states[w][id].sequence
         => states[v][id] = states[w][id]

\* Verifiers never talk to one another; they agree because the owner, whatever
\* it forgets and does again, lets only one history out.
THEOREM VerifiersNeverPart == SystemSpec => []VerifiersAgree
<1>1. HonestInv => VerifiersAgree
  <2> SUFFICES ASSUME HonestInv, NEW v \in Verifiers, NEW w \in Verifiers
               PROVE  LET id == handle.identity IN
                      /\ ~ Disagree(v, w, id)
                      /\ states[v][id] # None /\ states[w][id] # None
                           /\ states[v][id].sequence = states[w][id].sequence
                           => states[v][id] = states[w][id]
    BY DEF VerifiersAgree
  <2>1. handle.identity = Genesis.keys
    BY SoundParts DEF HonestInv, OwnerInv
  <2>2. \A u \in {v, w} : /\ TableOf(vault.chain, seen[u][Genesis.keys])
                          /\ StateOf(vault.chain, states[u][Genesis.keys])
    BY DEF HonestInv, Follows, MemoryFollows
  <2>3. ~ Disagree(v, w, Genesis.keys)
    BY <2>2 DEF Disagree, TableOf
  <2> QED BY <2>1, <2>2, <2>3 DEF StateOf
<1> QED BY <1>1, HonestInvariance, PTL

-----------------------------------------------------------------------------
(* The registries beside the owner are registries                          *)

LEMMA SystemIInv ==
  ASSUME OwnSnapshotsOnly, CurrentFormatOnly
  PROVE  SystemSpec => []IInv
<1>1. SystemInit => IInv
  BY InitIInv DEF SystemInit
<1>2. IInv /\ HonestInv /\ [SystemNext]_systemVars => IInv'
  BY SystemStep, NextIInv
<1> QED BY <1>1, <1>2, HonestInvariance, PTL DEF SystemSpec

\* Composed with an owner, each registry still implements KeyHistory, with the
\* chains it is given no longer fixed but made while it runs.
THEOREM SystemImplementsKeyHistory ==
  ASSUME OwnSnapshotsOnly, CurrentFormatOnly
  PROVE  SystemSpec => RefinesKeyHistory
<1>1. SystemInit => Abstract!Init
  BY InitRefines DEF SystemInit
<1>2. IInv /\ HonestInv /\ [SystemNext]_systemVars
        => [Abstract!Next]_(Abstract!vars)
  BY SystemStep, NextRefines
<1> QED BY <1>1, <1>2, HonestInvariance, SystemIInv, PTL
     DEF SystemSpec, RefinesKeyHistory, Abstract!Spec
=============================================================================
