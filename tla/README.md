# Verification of fg-agent-id

TLA+ models, TLC runs and TLAPS proofs for the Python package in
`src/src/fg_agent_id` (the reference implementation of the agent identity
standard in `src/spec/SPEC.md`). Paths below are relative to the repository
root, which is `src/`.

## 1. What the system is

An agent's name is the address of its signing key. Everything else is signed
records: histories that move a name to a new key, grants that lend authority,
recalls of both, and proofs that a key is held right now. The library is a set
of in-process objects; threads, processes and machines meet in the records
that applications exchange and in the snapshots they persist.

| Component | State | Operations | Meets others through |
|---|---|---|---|
| Rotation records, chains (`rotation.py`) | none (frozen) | `create`, `verify`, `resolve`, `extend` | records on the wire |
| `RotationRegistry` (`rotation.py`) | `_states`, `_seen`, `_duplicity`, one lock | `learn`, `resolve`, `snapshot`, `restore` | chains in any order; snapshots on disk |
| `RotatingIdentity` (`rotation.py`) | frozen handle: `keys`, `next_keys`, `chain` | `create`, `rotate` | the application saves and publishes it |
| `RevocationFeed` (`feed.py`) | `_entries`, `_seq`, one lock | `append`, `entries_since` | deltas and cursors over a transport |
| `RevocationRegistry` (`delegation.py`) | `_digests`, `_revoked_keys`, `_synced_at`, no lock | `add`, `revoke_key`, `mark_synced`, `is_stale`, `snapshot`, `restore` | `apply_feed_delta`; snapshots |
| Delegation chains (`delegation.py`) | none (frozen) | `grant`, `verify`, `Revocation.revoke`, `KeyRevocation.create` | registries, feed |
| Owner, device (`owner.py`, `device.py`) | key pair | `grant`, `revoke`, `revoke_agent_key`, `verify_device` | delegation, registry |
| Challenge stores, proof (`challenge_store.py`, `proof.py`) | `_entries` and a lock, or Redis keys | `issue`, `consume`, `respond`, `verify` | several workers on one store |
| Key files (`keyfile.py`) | a file | `load_or_create_keys`, `save_keys` | processes that share a path |
| Spend scopes (`spend.py`) | none; the caller's ledger | `compose_spend_authority`, `SpendAuthority.verify` | chains; concurrent payments |
| Card, identity (`card.py`, `__init__.py`, `did.py`) | none (frozen) | `create`, `verify`, `seal_target`, `resolve` | proofs, delegation |
| Keys, signing, encodings | none | pure functions | all |
| TypeScript port (`js/`) | as above, without feed and stores | mirrors the Python | records on the wire |

What makes each of them hard, and what makes it correct:

- **Key rotation.** Chains arrive late, twice and out of order; two that
  contradict each other prove a leaked key and must be told from one that is
  merely longer; a registry restarts from a snapshot, perhaps of an older
  format. Correct: one append-only history per identity, a final verdict,
  evidence that convinces a third party, nothing persisted is forgotten, and
  an honest owner is never accused and can always continue.
- **Revocation feed.** The transport drops, repeats, reorders and damages
  entries, threads share a registry without a lock, and the application may
  stop between persisting a snapshot and a cursor. Correct: a cursor never
  passes what the registry holds, a registry never looks fresher than it is,
  every record arrives in the end.
- **Delegation.** Revocation, key revocation, expiry, leeway and criticality
  interact down a chain; clocks differ; grants are renewed; a verification
  reads the registry and the clock at several moments while both change.
  Correct: authority only narrows; nothing that was recalled or expired when a
  verification began is accepted; a key is recalled only by itself or by
  someone who lent it authority, and such a recall is never refused; a recall
  reaches what it is about and nothing else.
- **Challenge stores and proof of possession.** Workers race for one
  challenge, processes stop, replies are lost, wall clocks are adjusted, several
  services share a store, and whoever carries a challenge to its holder may
  change what it says. Correct: handed out at most once, within its time, and
  accepted only from the holder who answered this service.
- **Cards and spend.** What follows a proof: a message is sealed by a card that
  anybody may have handed over, a payment is made by scopes that several links
  and several scopes of one link cap. Correct: only the proved holder can open
  the message; no payment passes the cap of any link, and no total does, as far
  as a sum of Decimals, which is rounded to 28 digits, can tell.
- **Key files.** Processes share a path and stop between any two calls to the
  file system. Correct: the same key every time, and a private file. The code
  can promise this only while no two saves overlap.

`PROJECT.json` lists every hazard at the line where it bites, with the
properties that cover it.

## 2. Modules

| Module | Models | State and actions |
|---|---|---|
| `Rotation` | records and `RotationChain` | Pure. `Resolves`/`resolve` is the loop of `RotationChain.resolve`, `Fingerprint` the digests `learn` compares, `extend`, `SignedInception`, `SignedRotation` |
| `RotationRegistry` | `RotationRegistry`, one per verifier | `states` `_states`, `seen` `_seen`, `duplicity`/`evidence` the keys and the lists of `_duplicity`, `disk` the last snapshot. `LearnAdopt`, `LearnConflict`, `SaveSnapshot`, `Restore`, `Restart` |
| `KeyHistory` | what a registry promises | `history`, `compromised`, `saved`; `Advance`, `Brand`, `Save`, `Restart` |
| `RotationSystem` | `RotatingIdentity` and the registries that follow it | adds `handle`, `vault`, `generated`, `published`; `Rotate`, `Save`, `Publish`, `LoseMemory`, `Deliver` and the registries' own actions |
| `RevocationFeed` | `RevocationFeed`, the tests of `apply_feed_delta` | `log` is `_entries`; `AppendRecord`, `entries_since`, `Contiguous` |
| `RevocationSync` | `apply_feed_delta` over `RevocationRegistry`, by several threads | `revoked`, `synced_at`, `cursor`, `disk`, `worker` (each thread's call); `Request`, `AnswerIntact`, `AnswerMangled`, `GiveUp`, `ApplyRecord`, `RefuseRecord`, `MarkSynced`, `PersistSnapshot`, `PersistCursor`, `StopAndRestore` |
| `Delegation` | grants, chains, `Revocation`, `KeyRevocation` | Pure. `verify`, `LinkStands`, `ChainStands`, `EffectiveScopes` are `Delegation.verify` and `DelegationChain.verify`; `ProvesControl`, `KeyRevocationVerifies` are `KeyRevocation.verify` |
| `DelegationRegistry` | `RevocationRegistry` among principals that grant and recall | `digests`, `revoked_keys`, `disk` the last snapshot, `granted` every grant made, `clock`; `Tick`, `Grant`, `IssueDevice`, `AddRevocation`, `RevokeKey`, `SaveSnapshot`, `Restore`, `Restart`. `meant` is auxiliary: which grants and keys were recalled by whom |
| `DelegationVerifier` | `verify_device` and `DelegationChain.verify` step by step beside that registry | adds `synced_at` and `call`; `VerifyChain`, `VerifyDevice`, `ReadDigests`, `ReadKeys`, `CheckLink`, `Conclude`, `Return`, `MarkSynced`, `StopAndRestore` |
| `Identity` | who exists: key pairs, addresses, signatures | constants |
| `ProofOfPossession` | `Challenge`, `ChallengeResponse` | Pure. `issue`, `is_expired`, `create`, `Matches`, `verify` |
| `ChallengeStore` | `InMemoryChallengeStore` of each worker, or one `RedisChallengeStore` | `entries` is `_entries` or what Redis holds, `call` each worker's call, `now` and `ahead` the clocks. `Draft` and then `Put`, or `Set` with Redis, are `issue`; `Pop`, `Prune`, or `GetDel`, `HandOut`, `Withhold` are `consume`; `SetLost`, `ReplyLost`, `Stop`, `Vanish`, `Tick`, `AdjustClock` are the environment. `offered` and `handed` are auxiliary |
| `OnceStore` | what `ChallengeStoreBase` promises | `open`, `handed`; `Issue`, `Hand`, `Lapse` |
| `Card`, `Spend` | `AgentCard`, `resolve` of a DID; spend scopes and `SpendAuthority.verify` | Pure. `verify_card`, `seal_target`, `resolves`; `min_cap`, `intersect`, `compose_spend_authority`, `MayPay`; `Rounded` is what the addition of Decimals does |
| `Service` | services that prove agents, seal to them and settle payments | extends the five above; `session` what a worker knows of the agent it serves, `spent` the caller's books. `Receive`, `Obtain`, `GoWithout`, `Accept`, `Refuse`, `Seal`, `Authorise`, `Book`, `Fail` |
| `KeyFile` | `load_or_create_keys`, `load_keys`, `save_keys` by several processes | `file`, `private` its mode, `process`; `Find`, `Generate`, `Load`, `SaveAgain`, `Open`, `Write`, `Chmod`, `Stop`. The rest is auxiliary |
| `MC...` | instances for TLC | |
| `NatLemmas`, `RotationRegistryProofs`, `RotationHistoryProofs`, `RotationSystemProofs`, `DelegationProofs`, `RevocationSyncProofs`, `ServiceProofs`, `KeyFileProofs` | theorems and proofs | |

How the code is read:

- A **key pair is its address**, which certifies one signing key. A
  `signature` field holds the key that signed exactly this payload in this
  record's context, or `NoSignature`; a digest is a constructor, so injective.
  That is what Ed25519, SHA-256 and `signing_input`'s domain separation
  provide, and the only cryptographic assumption made.
- `learn` verifies a chain before it takes the lock. A chain is frozen, so this
  commutes with every other step, and `learn` is one action: the body of its
  `with` block. A chain that does not verify changes nothing and is not a step.
- `restore` runs under the lock as well. `Restore(v, w)` is `restore` on a
  registry in use, `Restart(v)` a new registry that restores on boot; evidence
  is not in the snapshot, so a restart clears it.
- `SaveSnapshot(v, 1)` is the file an upgraded application finds: format 1
  stored the address a record put in force where format 2 stores its digest.
- `apply_feed_delta` holds no lock: every record it applies is a step of its
  own, and so is the final `mark_synced` with the cursor it returns.
- Time in `RevocationSync` is the number of records appended so far, which is
  what the age of a registry is about: stale by n means n records may be
  missing.

- The registry of `DelegationRegistry` is offered every recall that any
  principal can build about the grants that exist, rightly signed or not, with
  every chain (or none) as proof. `add` and `revoke_key` verify a frozen record
  and then add one element to a set, so each is one action; one that raises
  changes nothing and is not a step.
- A snapshot of format 1 hashed the text of a signature, so its digests equal
  none of format 2. `LegacyDigest` makes of a digest one that no grant has.
- `verify_device` reads `registry.digests` and then `registry.revoked_keys`,
  each a copy, and calls `DelegationChain.verify` without an explicit `now`, so
  that each link reads the clock. Each of these is a step. Calls write
  nothing, so one call at a time stands for any number of threads; the
  auxiliary field `alive` records how the chain stood when it began. Without a
  registry a call checks less and never more; that variant is left out.
- The fields of `Delegation.extra` have no meaning to the library beyond being
  named as critical, so the model has only the names.

- `Delivered` is any selection of a delta's entries, in any order and with
  repetitions, or the delta with one record damaged.
- A worker of `ChallengeStore` is a thread in one call at a time. The methods of
  the in-memory store hold a lock and are one action each, except that `issue`
  reads the wall clock and then the monotonic clock before it takes the lock:
  `Draft` is the first, and `Put` picks any moment since for the second. An
  in-memory store has one thread here, so two threads that meet at its lock are
  left to the lock.
- Of the Redis store, every command is a step, and so is the reply to `GETDEL`:
  the value it removed is on its way until `HandOut`, `Withhold` or `ReplyLost`.
  `SET` and its reply are one step, or fail as one (`SetLost`): until the reply
  the worker alone has the id, so nothing else can happen to the entry but that
  it is dropped. If only the reply is lost, an entry stays whose id nobody was
  given; it is not recorded.
- `now` is real time, which `time.monotonic` and the Redis server measure; the
  wall clock of a worker is ahead of it by up to `MaxAhead` and may be adjusted
  at any moment. Redis may drop a key at any moment (`Vanish`), before its PX as
  well as long after, so the model relies on no promise of it but that a key
  that was removed stays removed.
- A `challenge_id` stands for the nonce too, as both are drawn together; two
  challenges never share one.
- In `Service` every worker may receive, at any moment and any number of times,
  every answer to any challenge that has been offered: by an agent in its own
  name, shown the challenge as it is, with another audience or with another
  purpose; by an impostor in any agent's name. Traffic is therefore a set of
  inputs and not a variable. `Seal` is the caller that resolves the proved
  address with any card there can be and seals to `seal_target`.
- `spend.py` leaves the books to the caller. `Authorise` is the caller that asks
  `SpendAuthority.verify` with what its books say, `Book` enters the payment, in
  a later step and exactly; in between the workers of any service may book
  others. Two payments that were verified against the same books may therefore
  pass a cap together, and `PaidWithinEveryCap` is about totals only when
  nothing was booked in between; that a caller has to see to.
- An amount is a number of the asset's smallest units. `Decimal` parses and
  compares it exactly (`parse_amount` admits 40 characters), but rounds a sum to
  28 digits, half to even. `Rounded` does so for any number of digits:
  `ExactBelow`, the least number with one digit more, is 10^28 in the code. The
  powers of ten are a constant because the prover knows no exponentiation.
- In `KeyFile` the bytes of a key fit one write, which happens or does not. What
  a write leaves is not the identity: plain bytes over a longer sealed file give
  `Torn`. A plain key whose first bytes are the magic of the other format is
  refused by every load (`MagicKeys`).

Abstracted throughout: base64, JSON and timestamp formats, parsing of records
from the wire (`model_validate`), logging, wording of errors.

## 3. Runs

| Run | Expect | Shows |
|---|---|---|
| `rotation_registry` | pass | 5 410 states. `TypeOK`, `HistoryBacksState`, `TrustedWasVerified`, `EvidenceIsProof`, `EvidenceIsDoubleSigning`, `NothingDurableForgotten`, `LearnedIsKept`, and that the registry implements `KeyHistory` (`RefinesKeyHistory`) |
| `rotation_system` | pass | 4 172 states, with fairness. `HonestNeverBranded`, `SuccessionSurvives`, `OwnerCanAlwaysRotate`, `VerifiersFollow` |
| `feed_sync` | pass | about 871 000 states, with fairness. `TypeOK`, `CursorCovers`, `FreshMeansComplete`, `EventuallyRevoked` |
| `delegation_registry` | pass | about 187 000 states. `TypeOK`, `KeyRecallsAreEntitled`, `OwnerCanAlwaysRecall`, `PersistedIsInForce`, `HonestGrantsStand` |
| `delegation_verifier` | pass | about 683 000 states. `VerifierTypeOK`, `AcceptedIsLent`, `AcceptedWasAlive` |
| `service` | pass | about 421 000 states. `TypeOK`, `AcceptedIsMeant`, `AcceptedInTime`, `SealedForProven`, `PaidWithinEveryCap`, and that both stores implement `OnceStore` (`RefinesOnceStore`) |
| `key_file` | pass | about 770 000 states. `TypeOK`, `SameKeyEveryTime`, `WholeAndPrivate` |
| `restore_live` | violation | `RestoreIsAdditive`: restore replaces fingerprints in use |
| `learn_after_conflict` | violation | `CompromisedNeverAdvances`: a compromised identity's state still advances |
| `whole_delta_lost` | violation | `CursorCovers` when a transport drops every entry of a delta |
| `future_cursor` | violation | `EventuallyRevoked` when the cursor file is ahead of the feed |
| `rounded_total` | violation | `NeverSpendsMore`: a sum that is rounded down to a total cap takes the account past it |

The five violations are disagreements between the code and its documentation,
quoted in `PROJECT.json` under `findings`. The last of them in the code's own
numbers: with a total cap of 10^30 and 10^30 spent, a payment of 1 is allowed,
and so is the next.

### Bounds

- `rotation_registry`: one verifier, two keys, two rotations. Two keys allow
  fourteen histories of one identity, so forks exist at the inception, at the
  first and at the second rotation, and between prefixes of different length;
  the second identity has one history, whose prefixes arrive in any order next
  to the first's. Chains that must not verify are offered too: every record of
  one rotation that any assignment of fields and signatures makes. Registries
  share nothing but the chains offered, so one verifier suffices where a
  verifier loads its own snapshots only; `restore_live` has two.
- `rotation_system`: five key pairs for two rotations, so that the owner can
  forget a rotation and draw again, twice; both snapshot formats; one verifier
  (again because verifiers only share what the owner published).
- `feed_sync`: two threads, three records, one restart. Three records are what a
  gap in the middle needs, and what lets one thread finish between the steps of
  another. `EventuallyRevoked` says that the consumer holds everything again and
  again; as the log is bounded, that is that every record comes to be revoked.
- `delegation_registry`: an owner whose clock is ahead of the verifier's by
  one, an operator and an agent; two grants, two recalls, three instants, both
  snapshot formats. Two grants are a chain of two links, or one grant and its
  renewal; three instants let each of them be issued in the verifier's future,
  be valid and expire; with two recalls a chain can lose a grant and a key. One
  of the requests is signed with a key that is not its issuer's, one insists
  on an extension, one is for a device.
- `delegation_verifier`: the same principals, calls of both kinds with every
  chain, agent and identity; the owner's one recall arrives at every moment of
  a call. What a second recall adds is in the other run; snapshots are covered
  there too, so a restart here finds the empty one and forgets everything,
  which is the worst case for a call in progress, had it survived.
- `service`: two workers of two services with different purposes, two
  challenges, both kinds of store, an agent and a stranger with keys. Two
  workers race for one challenge; two services are what a proof could be carried
  between; two challenges let one be answered with the other's answer, and are
  interchangeable (symmetry). TTL, leeway and the greatest clock difference are
  one instant each, so that each decides alone whether a challenge is still
  good, and four instants outlast all three together. One clock is adjusted:
  a difference is between two. Sums keep one digit where the code keeps 28. The
  agent holds a chain each of whose links caps another axis, the total within
  that digit; one capped twice by one link, the total beyond the digit; and one
  void for the asset. Payments of 7 and 8 reach each cap and pass it; no sum has
  more than two digits, so two powers of ten are enough.
- `rounded_total`: the same with one worker in one instant, as neither a race
  nor time is needed.
- `key_file`: three processes, so that a third meets what two left; a key for
  each and one whose bytes look like a sealed file; two passphrases. Processes
  and ordinary keys are interchangeable (symmetry; no liveness is checked). There
  is no bound in a guard.
- The bounds in the guards are `MaxSequence` (length of a history), `MaxLog`
  (records appended), `MaxRestarts`, `MaxTime` (instants), `MaxAhead`, `MaxGrants`,
  `MaxRecalls` and `MaxLinks` (length of a chain that is presented).

### Fairness

- `FairSystemSpec`: a transport that hands a verifier the newest published
  chain over and over. The library has no scheduler; this is the application's
  polling, and nothing else (not the owner, not restarts) is assumed to happen.
- `FairSpec` of `RevocationSync`: each thread goes on with its own call (weak
  fairness) and starts another when it is idle; a request that is made again
  and again is answered intact again and again (strong fairness on
  `AnswerIntact`, as a lost or mangled answer disables it). The producer is
  not assumed to append, and restarts are bounded.

## 4. Proofs

For all constants that satisfy the named assumptions, which TLC evaluates in
every run:

- `TypeCorrect` (`RotationRegistryProofs`): `Spec => []TypeOK`, for snapshots
  of any format and from any verifier. The work is in `ChainTypes` (positions
  of a chain and the digests at them), `LegacyType` (a digest determines what
  format 1 stored) and `RestoredTypes` (only files of the current format reach
  the table of fingerprints).
- `ChainNamesOneIdentity`: a chain that verifies numbers its records 0, 1,
  2, ... and names one identity. By the least position where it would not,
  since the induction theorems of the library take operators; `NatLemmas` has
  the least-element principle, from the well-foundedness of `<` on `Nat`.
- `TrustIsVerified`, `NeverMovesBackwards` and `VerdictsAreDurable`: what holds
  of every registry, whatever snapshots of whatever format it loads. A trusted
  state is the end of a presented chain that verifies; nothing but a restart
  goes back; saved verdicts and progress stand. `StepKeepsStates` and
  `StepKeepsVerdicts` say what any step does to memory and disk.
- `ForkPutsSameKeyInForce` (`RotationHistoryProofs`) is what pre-rotation is
  for: two verified histories of one identity that agree before a position
  were signed there by one key and put the same key in force. By
  `ChainBacked` (each table in memory or on disk is that of one verified
  chain) and the first difference of two chains, `VerifiersPartOnlyByDoubleSigning`
  follows: verifiers, who never talk to one another, hold different histories
  only if a key signed twice, and the fork brings in no key the owner had not
  committed to. `AccusedKeySignedTwice` says the same of evidence.
- `OneHistoryBehindEachState`, `DurableIsNeverForgotten`,
  `LearnedChainsAreKept`, `EvidenceStaysProof`, `AccusedKeySignedTwice` and
  `VerifiersPartOnlyByDoubleSigning`, under two assumptions that are the
  deployment's: `OwnSnapshotsOnly` and `CurrentFormatOnly`. Without the
  first, `restore_live` is a counterexample; without the second, a state
  survives whose fingerprints were dropped.

The lemmas about steps are about `RegistryNext`, in which any chain of the right
shape may be presented (`Receivable`), so that they also serve the system
below, whose chains are made while it runs.

The inductive invariant is `IInv`. `HistoryBacksState` alone is not inductive:
`Restart` replaces the tables by those on disk, so what is on disk must be a
history as well (`DurableHistory`); and `Restore` merges the disk into the
tables, which is harmless exactly because the disk holds a part of what is in
memory (`NothingDurableForgotten`); `RestoreIsNoOp` proves that a registry's own
snapshot tells it nothing. For `learn` the argument is `LearnAdoptEffect`: the
table is either what it was or exactly what the chain alone would leave
(`Table`), for which `ChainHistory` proves the invariant. Evidence adds
`EvidenceProves`: the accepted fingerprint it contradicts is never replaced, and
the key that signed it is the one that signed the evidence. Both were signed
for after the same beginning, so `ForkPutsSameKeyInForce`'s argument applies to
the table and the chain (`ConflictProves`).

`RegistryImplementsKeyHistory` (`RotationHistoryProofs`), under the same
two assumptions, is the refinement. A state and its table map to the sequence
of the table's digests up to the state's position. `LearnAdopt` either appends
to that sequence or stutters (`Continues`: two histories in one table, the
longer one adopted), `LearnConflict` is `Brand` or a stutter, `Restore` is a
stutter by `RestoreIsNoOp`, and `Restart` goes back to what was saved.

`RotationSystemProofs`, for any keys and verifiers, any snapshots of any format
(only the last theorem has the two assumptions) and histories of any length:

- `OwnersAreNeverBranded`, `SuccessionIsNeverLost`, `RotationNeverFails`,
  `PublishedIsNeverRefused`, `VerifiersNeverPart` and `DeliveryIsProgress` rest on
  `HonestInv`. Neither `HonestNeverBranded` nor `SuccessionSurvives` is inductive:
  an owner that forgets may sign twice for one sequence, and only the saved one
  has left its process. So the invariant is that everything outside the owner
  is a view of the saved handle's chain: published chains are beginnings of it
  (`Begins`), the handle in memory extends it, and every state and
  fingerprint in a registry or a snapshot of the current format is the one
  this chain has at that position (`Follows`). A handle is `Sound` when its keys
  are those its chain calls for; `RotateSound` shows that `rotate` keeps it so.
  `LearnFollows`, `RestoredFollows` and `RestartFollows` are the verifiers' steps,
  `FollowsPassesOn` is what `Save` needs: the view of a chain is a view of every
  longer one.
- `DeliveryIsProgress` is the step that the liveness of `VerifiersFollow` repeats.
- `SystemImplementsKeyHistory`: composed with an owner, each registry still
  implements `KeyHistory`, because every step of the system is one of
  `RegistryNext` or leaves the registries alone (`SystemStep`).

`DelegationProofs`, for every set of principals, grants and clocks, chains and
calls of any length:

- `RegistryTypeCorrect`, `PersistedStaysInForce`, `OnlyEntitledRecallKeys`,
  `HonestGrantsAlwaysStand` and `OwnersCanAlwaysRecall` rest on `RegistryInv`,
  which adds to the properties what makes them inductive: every digest and key
  that is held or persisted was recalled by somebody (`DigestsAreMeant`,
  `KeysAreMeant`), and no grant is dated later than its issuer's clock has
  reached (`DatedByNow`). `ChainIsPath` turns a chain whose links were really
  issued into a path along which authority was lent; by it a proof of control
  is a path, and grants are never unmade, so paths stay (`JoinedGrows`).
- `VerifierTypeCorrect`, `VerificationHonoursRecalls` and `AuthorityOnlyNarrows`
  rest on `VerifierInv`. `AcceptedWasAlive` looks back to the beginning of a
  call; the inductive form is `DoomAhead`: while a call runs on a chain that
  was not alive when it began, some link not yet passed is doomed, because it
  is expired (the clock only advances), or recalled by something the call has
  read or will read (the registry only grows under a call: `LearningGrows`). A
  call in which no link remains was therefore alive. `PassedAreSound` keeps
  that the links passed are genuine and follow each other, which with
  `ChainIsPath` gives `AcceptedIsLent`.

`RevocationSyncProofs`, for any number of threads, records, restarts and entries
in a delta:

- `TypeCorrect`, for every transport and every cursor file.
- `CursorNeverAhead`, under `StartsFromNothing` and `NoDeltaIsLostWhole`, whose
  absence `future_cursor` and `whole_delta_lost` are about. The property is not
  inductive: a call must keep a promise while it is under way (`CallCovers`).
  What it resumes from is covered when it asks; the entries it has yet to apply
  cover the rest, or one of them is damaged and the call will end in
  `RefuseRecord` (`ContiguousBrings` is the reason, for any delta the transport can
  make); and what it persists is on disk before its cursor is. The others' steps
  cannot break a promise because log and registry only grow (`OthersCover`).
- `FreshIsComplete`, if callers pass the time they asked: the registry is
  complete up to `synced_at` (`SyncedCovers`), because a call's beginning is not
  after the cursor it ends with.

`ServiceProofs`, for any workers, services, keys, chains, scopes, clocks and any
length of time:

- `TypeCorrect`; `StoresAreOnceStores`, the refinement of `OnceStore`, with
  `NothingTwice`; `AcceptedWithinTTL`; `AcceptedAnswersThisService`;
  `SealedToHolder`; `PaidWithinCaps`.
- They rest on `ServiceInv`. Its part about the stores, `StoreInv`, is that what
  is held is what was offered (`HeldAsOffered`), that a challenge is in one place
  only, be it a store or a worker (`OnePlace`), that it is either there or was
  handed out once (`HandedOnce`), that drafts are new (`DraftsNew`), and that both
  the entry and the challenge expire within the TTL of the moment `issue` returned,
  by clocks at most `MaxAhead` apart (`Deadlines`). Its part about a session,
  `Sound`, is that what was accepted verifies for a challenge of this service.
  For a payment under way it is that `verify` allowed it with what the books said
  then (`AuthoriseKeeps`).
- `PaidWithinCaps` is for chains, scopes and amounts of any size and for sums that
  keep any number of digits. It rests on `min_cap` being below every cap in a
  set of any size (`MinCap`), by the least-number principle of `NatLemmas`, and
  on `RoundedWithin`: a sum whose rounding is within a cap is within it exactly,
  if the cap has no more digits than sums keep, and otherwise exceeds it by
  no more than half of the last place kept (`SumsRound`). For that the last
  place is either one, or ten times a power of ten whose product with
  `ExactBelow` the sum reaches (`PlaceShape`, from `PowersOfTenAssumption` and
  `ExactBelowAssumption`).

`KeyFileProofs`, for any number of processes, keys and passphrases:
`TypeCorrect`, `OneKeyForEver` and `SavedIsWholeAndPrivate`. The two properties
are inductive together with `TypeOK` and `OneSaver`: without overlap at most one
process is saving at any moment.

Only model-checked: liveness (`VerifiersFollow`, `EventuallyRevoked`), which is
beyond the prover. Every other property that a passing run checks is a theorem.

## 5. Not modelled, and what could follow

- A recall of a grant by somebody other than its issuer is admitted, and revokes
  it: `Revocation.verify` (`delegation.py:257`) checks the signature of the issuer
  the record itself names, and nothing relates him to the grant whose digest it
  carries, although its docstring says that only the issuer's key may recall.
  The model has it (`AddRevocation` by any principal); `HonestGrantsStand` says
  what holds regardless.
- Two payments at once against the same books, see section 2: the library has no
  part in it.
- A handle and its next key that are stored apart: `Save` of `RotationSystem`
  stores both at once.
- Registries of rotations and revocations are not part of `Service`: whether a
  proved address is still the current key of an identity (SPEC section 8.1), or
  its chain recalled, is for the caller to ask, and nothing in the code composes
  the two.
- The operator a card names is a statement of the agent alone; no code checks it
  against the chain the card's holder presents.
- `AgentIdentity` and the rest of `OwnerIdentity` (`authorize_agent`,
  `create_agent`, `create_endpoint`) copy fields and make chains of one grant.
- A response that is delivered to a worker whose service it is not for uses up
  the challenge it names: `consume` is asked before the response is verified. The
  model has it (`Refuse`); no property forbids it, as nothing promises otherwise.
- The TypeScript port mirrors the Python modules, without stores and feed; its
  `RotationRegistry` deduplicates evidence differently. Each of its modules would
  be a variant of one here.
- Parsing of records, scopes and timestamps, and the limits it enforces.

Left out for good: cryptography, encodings, DIDs, network transports, the test
vectors and the examples. Where the models rely on them, section 2 says on what.
