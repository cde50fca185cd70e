--------------------------- MODULE RotationRegistry ---------------------------
(***************************************************************************)
(* RotationRegistry of src/fg_agent_id/rotation.py: each verifier's view   *)
(* of which key is in force for each identity, the chains it learns in     *)
(* whatever order they arrive, and the snapshots it persists and restores. *)
(*                                                                         *)
(* `learn' verifies its argument before it takes the lock, but a chain is  *)
(* frozen: that part reads nothing that can change, so it commutes with    *)
(* every other step and learn is one action, the body of its `with' block. *)
(* A chain that does not verify raises before the lock and changes nothing.*)
(*                                                                         *)
(* The dicts keyed by identity are total functions, None for an absent     *)
(* key. `_duplicity' is two variables: its keys, which a snapshot carries, *)
(* and its lists of evidence, which it does not.                           *)
(***************************************************************************)
EXTENDS Rotation, FiniteSetsExt

CONSTANTS
  Identities,  \* the addresses that identities are born with
  Verifiers,   \* processes that each hold one registry and one snapshot file
  Presented,   \* the chains the transport may hand to a verifier, valid or not
  Versions,    \* formats a snapshot on disk may be in (1: an earlier release)
  Sources      \* Sources[v]: whose snapshot files v may load into its registry

SNAPSHOT_VERSION == 2

ASSUME NoneAssumption ==
  None \notin RotationStates \cup Fingerprints \cup Addresses
ASSUME IdentitiesAssumption == Identities \subseteq Addresses
ASSUME PresentedAssumption ==
  \A c \in Presented : /\ c \in Chains
                       /\ Len(c.rotations) <= MaxSequence
                       /\ Identity(c) \in Identities
ASSUME VersionsAssumption == Versions \subseteq Nat
ASSUME SourcesAssumption == Sources \in [Verifiers -> SUBSET Verifiers]

VARIABLES
  states,      \* states[v][id]: the RotationState adopted, or None
  seen,        \* seen[v][id][k]: fingerprint of the record seen at k, or None
  duplicity,   \* duplicity[v]: the identities proved compromised
  evidence,    \* evidence[v][id]: the conflicting records kept as proof
  disk         \* disk[v]: the snapshot v persisted last

vars == <<states, seen, duplicity, evidence, disk>>

-----------------------------------------------------------------------------
(* An empty registry, and the type of what it holds                        *)

NoStates == [id \in Identities |-> None]
NothingSeen == [id \in Identities |-> [k \in SequenceNumbers |-> None]]
NoEvidence == [id \in Identities |-> {}]

StateTables == [Identities -> RotationStates \cup {None}]
\* A digest of an inception at 0, of rotations from 1 on.
SeenTables ==
  [Identities ->
     {table \in [SequenceNumbers -> Fingerprints \cup {None}] :
        \A k \in SequenceNumbers :
          table[k] \in (IF k = 0 THEN InceptionDigests ELSE RotationDigests)
                        \cup {None}}]

\* Format 1 holds addresses where format 2 holds fingerprints.
LegacyTables == [Identities -> [SequenceNumbers -> Addresses \cup {None}]]

Snapshots ==
  [version : {n \in Versions : n < SNAPSHOT_VERSION}, states : StateTables,
   seen : LegacyTables, duplicity : SUBSET Identities]
    \cup
  [version : {n \in Versions \cup {SNAPSHOT_VERSION} : n >= SNAPSHOT_VERSION},
   states : StateTables, seen : SeenTables, duplicity : SUBSET Identities]

\* A file that was never written restores like the snapshot of a new registry.
EmptySnapshot ==
  [version |-> SNAPSHOT_VERSION, states |-> NoStates, seen |-> NothingSeen,
   duplicity |-> {}]

\* Every table is well formed: states and fingerprints of records that could
\* exist, evidence of whole records, snapshots in a known format.
TypeOK ==
  /\ states \in [Verifiers -> StateTables]
  /\ seen \in [Verifiers -> SeenTables]
  /\ duplicity \in [Verifiers -> SUBSET Identities]
  /\ evidence \in [Verifiers -> [Identities -> SUBSET Records]]
  /\ disk \in [Verifiers -> Snapshots]

Init ==
  /\ states = [v \in Verifiers |-> NoStates]
  /\ seen = [v \in Verifiers |-> NothingSeen]
  /\ duplicity = [v \in Verifiers |-> {}]
  /\ evidence = [v \in Verifiers |-> NoEvidence]
  /\ disk = [v \in Verifiers |-> EmptySnapshot]

-----------------------------------------------------------------------------
(* learn                                                                   *)

\* Mutant: the test that a record was seen at all is missing.
Conflicts_UnseenToo(v, chain) ==
  {k \in 0 .. Len(chain.rotations) :
     seen[v][Identity(chain)][k] # Fingerprint(chain, k)}

\* Mutant: only rotations are compared, not the genesis record.
Conflicts_NotInception(v, chain) ==
  {k \in 1 .. Len(chain.rotations) :
     seen[v][Identity(chain)][k] \notin {None, Fingerprint(chain, k)}}

\* Where a chain contradicts what v has established.
Conflicts(v, chain) ==
  {k \in 0 .. Len(chain.rotations) :
     seen[v][Identity(chain)][k] \notin {None, Fingerprint(chain, k)}}

\* Mutant: whatever verifies is adopted, also an older view that arrives late.
Advances_Always(state, known) == TRUE

\* Mutant: a state once known is kept.
Advances_FirstOnly(state, known) == known = None

\* Both tests of "does this advance what we know": in learn and in restore.
Advances(state, known) == known = None \/ state.sequence > known.sequence

\* Mutant: the chain is taken as it comes.
LearnAdopt_Unverified(v, chain) ==
  LET id == Identity(chain) IN
  /\ Conflicts(v, chain) = {}
  /\ seen' = [seen EXCEPT ![v][id] =
                [k \in SequenceNumbers |->
                   IF k <= Len(chain.rotations) THEN Fingerprint(chain, k)
                                                ELSE @[k]]]
  /\ states' = [states EXCEPT ![v][id] =
                  IF Advances(resolve(chain), @) THEN resolve(chain) ELSE @]
  /\ UNCHANGED <<duplicity, evidence, disk>>

\* No conflict: every record is remembered, and the state adopted if longer.
LearnAdopt(v, chain) ==
  LET id == Identity(chain) IN
  /\ Resolves(chain)
  /\ Conflicts(v, chain) = {}
  /\ seen' = [seen EXCEPT ![v][id] =
                [k \in SequenceNumbers |->
                   IF k <= Len(chain.rotations) THEN Fingerprint(chain, k)
                                                ELSE @[k]]]
  /\ states' = [states EXCEPT ![v][id] =
                  IF Advances(resolve(chain), @) THEN resolve(chain) ELSE @]
  /\ UNCHANGED <<duplicity, evidence, disk>>

\* Mutant: the digest of the conflicting record is kept in its place.
LearnConflict_KeepsDigest(v, chain) ==
  LET id == Identity(chain) IN
  /\ Resolves(chain)
  /\ Conflicts(v, chain) # {}
  /\ duplicity' = [duplicity EXCEPT ![v] = @ \cup {id}]
  /\ evidence' = [evidence EXCEPT ![v][id] =
                    @ \cup {Fingerprint(chain, Min(Conflicts(v, chain)))}]
  /\ UNCHANGED <<states, seen, disk>>

\* Mutant: the last contradicting record is kept.
LearnConflict_KeepsLast(v, chain) ==
  LET id == Identity(chain) IN
  /\ Resolves(chain)
  /\ Conflicts(v, chain) # {}
  /\ duplicity' = [duplicity EXCEPT ![v] = @ \cup {id}]
  /\ evidence' = [evidence EXCEPT ![v][id] =
                    @ \cup {Record(chain, Max(Conflicts(v, chain)))}]
  /\ UNCHANGED <<states, seen, disk>>

\* A conflict: the first contradicting record is kept, learn raises, and no
\* part of the chain is applied.
LearnConflict(v, chain) ==
  LET id == Identity(chain) IN
  /\ Resolves(chain)
  /\ Conflicts(v, chain) # {}
  /\ duplicity' = [duplicity EXCEPT ![v] = @ \cup {id}]
  /\ evidence' = [evidence EXCEPT ![v][id] =
                    @ \cup {Record(chain, Min(Conflicts(v, chain)))}]
  /\ UNCHANGED <<states, seen, disk>>

Learn(v, chain) == LearnAdopt(v, chain) \/ LearnConflict(v, chain)

-----------------------------------------------------------------------------
(* resolve: what a caller is told                                          *)

RotationError == [raises |-> "RotationError"]

Answer(v, id) ==
  IF id \in duplicity[v] THEN RotationError
  ELSE IF states[v][id] = None THEN id
  ELSE states[v][id].current_address

-----------------------------------------------------------------------------
(* snapshot, restore and restart                                           *)

\* What format 1 stored for a record: the address it put in force.
Legacy(table) ==
  [id \in Identities |-> [k \in SequenceNumbers |->
     IF table[id][k] = None THEN None
     ELSE StandingAfter(table[id][k].payload, k).current_address]]

\* The application persists snapshot(); format 1 is what it finds after it
\* upgrades from an earlier release.
SaveSnapshot(v, version) ==
  /\ disk' = [disk EXCEPT ![v] =
       [version |-> version, states |-> states[v],
        seen |-> IF version < SNAPSHOT_VERSION THEN Legacy(seen[v]) ELSE seen[v],
        duplicity |-> duplicity[v]]]
  /\ UNCHANGED <<states, seen, duplicity, evidence>>

RestoredStates(known, snapshot) ==
  [id \in Identities |->
     IF snapshot.states[id] # None /\ Advances(snapshot.states[id], known[id])
     THEN snapshot.states[id] ELSE known[id]]

\* Mutant: what a file of any format holds is taken for a fingerprint.
RestoredSeen_AnyFormat(known, snapshot) ==
  [id \in Identities |-> [k \in SequenceNumbers |->
     IF snapshot.seen[id][k] # None THEN snapshot.seen[id][k]
                                    ELSE known[id][k]]]

\* Fingerprints in the file replace those in memory. What format 1 stored
\* there is dropped: it compares with nothing.
RestoredSeen(known, snapshot) ==
  [id \in Identities |-> [k \in SequenceNumbers |->
     IF snapshot.version >= SNAPSHOT_VERSION /\ snapshot.seen[id][k] # None
     THEN snapshot.seen[id][k] ELSE known[id][k]]]

\* restore() on a registry in use, from a file this verifier can read.
Restore(v, w) ==
  /\ states' = [states EXCEPT ![v] = RestoredStates(@, disk[w])]
  /\ seen' = [seen EXCEPT ![v] = RestoredSeen(@, disk[w])]
  /\ duplicity' = [duplicity EXCEPT ![v] = @ \cup disk[w].duplicity]
  /\ UNCHANGED <<evidence, disk>>

\* Mutant: restore skips the list of compromised identities.
Restart_ForgetsVerdict(v) ==
  /\ states' = [states EXCEPT ![v] = RestoredStates(NoStates, disk[v])]
  /\ seen' = [seen EXCEPT ![v] = RestoredSeen(NothingSeen, disk[v])]
  /\ duplicity' = [duplicity EXCEPT ![v] = {}]
  /\ evidence' = [evidence EXCEPT ![v] = NoEvidence]
  /\ UNCHANGED disk

\* The process ends at any point and a new registry is restored on boot.
Restart(v) ==
  /\ states' = [states EXCEPT ![v] = RestoredStates(NoStates, disk[v])]
  /\ seen' = [seen EXCEPT ![v] = RestoredSeen(NothingSeen, disk[v])]
  /\ duplicity' = [duplicity EXCEPT ![v] = disk[v].duplicity]
  /\ evidence' = [evidence EXCEPT ![v] = NoEvidence]
  /\ UNCHANGED disk

Next ==
  \E v \in Verifiers :
    \/ \E chain \in Presented : Learn(v, chain)
    \/ \E version \in Versions : SaveSnapshot(v, version)
    \/ \E w \in Sources[v] : Restore(v, w)
    \/ Restart(v)

Spec == Init /\ [][Next]_vars
-----------------------------------------------------------------------------
(* Properties                                                              *)

\* One identity's state and its table of fingerprints tell the same story:
\* the table holds exactly the records up to the state's sequence, each record
\* succeeds the one before it (it was signed for by the key then in force and
\* puts in force the key that was committed to), and the state is where the
\* last one stands.
HistoryOK(id, state, table) ==
  /\ state # None => state.identity = id
  /\ \A k \in SequenceNumbers :
       table[k] # None <=> (state # None /\ k <= state.sequence)
  /\ \A k \in SequenceNumbers : table[k] # None =>
       /\ k > 0 => Succeeds(table[k].payload,
                            StandingAfter(table[k - 1].payload, k - 1))
       /\ k = state.sequence => StandingAfter(table[k].payload, k) = state

\* `_states' and `_seen' are two dicts written in two places of learn and in
\* two places of restore: whatever the order in which chains of one identity
\* arrive, are refused or come back from disk, the address resolve() returns
\* is the end of the one history that later chains are compared with.
HistoryBacksState ==
  \A v \in Verifiers, id \in Identities :
    HistoryOK(id, states[v][id], seen[v][id])

\* The presented chains that verify.
Verifiable == {c \in Presented : Resolves(c)}

\* Whatever is learned, saved, restored from whichever snapshot of whichever
\* format, the state a verifier trusts is where some presented chain of that
\* very identity stands, and that chain verifies from its first record on.
TrustedWasVerified ==
  \A v \in Verifiers, id \in Identities : states[v][id] # None =>
    \E c \in Verifiable : Identity(c) = id /\ resolve(c) = states[v][id]

\* v stands at the end of c or beyond, and compares with each of its records.
Holds(v, c) ==
  LET id == Identity(c) IN
  /\ states[v][id] # None
  /\ states[v][id].sequence >= Len(c.rotations)
  /\ \A k \in 0 .. Len(c.rotations) : seen[v][id][k] = Fingerprint(c, k)

\* "It refuses to move backwards" (RotationRegistry, rotation.py): a chain that
\* learn accepts is held from then on, whatever arrives, contradicts it or is
\* restored, until the process restarts.
LearnedIsKept ==
  [][\A v \in Verifiers, c \in Verifiable :
       Holds(v, c) \/ LearnAdopt(v, c) => Holds(v, c)' \/ Restart(v)]_vars

\* The sequence a record claims; an inception's is 0.
SequenceOf(record) == IF record \in Inceptions THEN 0 ELSE record.sequence

\* What duplicity_evidence() returns is proof to a third party: each record
\* was signed by the key it names, names this identity, and contradicts the
\* record this registry accepted at the same sequence.
EvidenceIsProof ==
  \A v \in Verifiers, id \in Identities : \A e \in evidence[v][id] :
    LET k == SequenceOf(e) IN
    /\ id \in duplicity[v]
    /\ StandingAfter(e, k).identity = id
    /\ IF k = 0 THEN verify_inception(e) ELSE verify_signature(e)
    /\ seen[v][id][k] # None
    /\ seen[v][id][k].payload # Payload(e)

\* Conflicting records "proved the signing key leaked" (resolve, rotation.py):
\* each piece of evidence was signed by the very key that signed the record it
\* contradicts. No order of arrival and no restart makes a registry accuse an
\* identity unless one of its keys signed twice.
EvidenceIsDoubleSigning ==
  \A v \in Verifiers, id \in Identities : \A e \in evidence[v][id] :
    LET k == SequenceOf(e)
        accepted == seen[v][id][k].payload
    IN e.signature = IF k = 0 THEN accepted.address ELSE accepted.previous

\* When all of these but TrustedWasVerified are promised: no other
\* registry's snapshot is loaded, and none is of an earlier format.
OwnSnapshotsOnly == \A v \in Verifiers : Sources[v] \subseteq {v}
CurrentFormatOnly == \A n \in Versions : n >= SNAPSHOT_VERSION

\* What was once persisted is never unlearned: after any restart, and
\* whatever was learned since, no state is older than the one on disk, every
\* fingerprint on disk is still the one compared with, and every identity
\* recorded as compromised still is.
NothingDurableForgotten ==
  \A v \in Verifiers :
    /\ disk[v].duplicity \subseteq duplicity[v]
    /\ \A id \in Identities :
         /\ disk[v].states[id] # None =>
              /\ states[v][id] # None
              /\ disk[v].states[id].sequence <= states[v][id].sequence
         /\ \A k \in SequenceNumbers :
              disk[v].seen[id][k] # None => seen[v][id][k] = disk[v].seen[id][k]

\* The history behind a state: its fingerprints, oldest first.
HistoryOf(state, table) ==
  IF state = None THEN <<>> ELSE [k \in 1 .. state.sequence + 1 |-> table[k - 1]]

Abstract == INSTANCE KeyHistory WITH
  history <- [v \in Verifiers |-> [id \in Identities |->
                HistoryOf(states[v][id], seen[v][id])]],
  compromised <- duplicity,
  saved <- [v \in Verifiers |->
              [history |-> [id \in Identities |->
                 HistoryOf(disk[v].states[id], disk[v].seen[id])],
               compromised |-> disk[v].duplicity]]

\* The registry delivers what KeyHistory promises: a history that only grows at
\* its end, never switches to another one, and a verdict that is final.
RefinesKeyHistory == Abstract!Spec

-----------------------------------------------------------------------------
(* What the documentation says and the code does not do                    *)

\* "Additive -- history is never unlearned" (restore, rotation.py): loading a
\* snapshot changes no fingerprint this registry already compares with.
RestoreIsAdditive ==
  [][\A v \in Verifiers : (\E w \in Sources[v] : Restore(v, w)) =>
       \A id \in Identities, k \in SequenceNumbers :
         seen[v][id][k] # None => seen'[v][id][k] = seen[v][id][k]]_vars

\* "It MUST refuse to advance" (SPEC section 8): once two records at one
\* sequence proved the key leaked, learning moves the identity no further.
CompromisedNeverAdvances ==
  [][\A v \in Verifiers : (\E chain \in Presented : Learn(v, chain)) =>
       \A id \in duplicity[v] : states'[v][id] = states[v][id]]_vars
=============================================================================
