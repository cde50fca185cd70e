------------------------------- MODULE Rotation -------------------------------
(***************************************************************************)
(* Key histories with pre-rotation commitments: the records and the        *)
(* verification of a chain in src/fg_agent_id/rotation.py.                 *)
(*                                                                         *)
(* An identity is named for ever by the address it was born with. Its      *)
(* history is an inception followed by rotations; each record commits to   *)
(* the digest of the key that takes over next.                             *)
(*                                                                         *)
(* A key pair is represented by its address, which certifies exactly one   *)
(* signing key. A `signature' field holds the address of the key that      *)
(* signed exactly this payload under this record's context, or NoSignature *)
(* when it is the signature of nobody over it (empty, tampered, or taken   *)
(* from another payload or context).                                       *)
(***************************************************************************)
EXTENDS Naturals, Sequences

CONSTANTS
  Addresses,     \* addresses of the key pairs that exist
  Times,         \* values of created_at and rotated_at
  MaxSequence,   \* bound: the longest history has this many rotations
  NoSignature,   \* a signature that verifies for no key
  None           \* Python's None: no such entry

ASSUME MaxSequenceAssumption == MaxSequence \in Nat
ASSUME NoSignatureAssumption == NoSignature \notin Addresses

CONTEXT_INCEPTION == "inception"
CONTEXT_KEY_ROTATION == "key-rotation"

SequenceNumbers == 0 .. MaxSequence

-----------------------------------------------------------------------------
(* Commitments and records                                                 *)

\* sha256 of the key an address decodes to: injective, and not an address.
commitment_for_address(address) == [sha256 |-> address]

Commitments == {commitment_for_address(a) : a \in Addresses}

Signatures == Addresses \cup {NoSignature}

Inceptions ==
  [address : Addresses, next_commitment : Commitments, created_at : Times,
   signature : Signatures]

\* __post_init__ refuses a sequence below 1.
KeyRotations ==
  [identity : Addresses, sequence : 1 .. MaxSequence, previous : Addresses,
   next_address : Addresses, next_commitment : Commitments, rotated_at : Times,
   signature : Signatures]

Records == Inceptions \cup KeyRotations

RotationStates ==
  [identity : Addresses, current_address : Addresses,
   next_commitment : Commitments, sequence : SequenceNumbers]

Chains == [inception : Inceptions, rotations : Seq(KeyRotations)]

\* The record of a chain with sequence k, once the chain has been verified.
Record(chain, k) == IF k = 0 THEN chain.inception ELSE chain.rotations[k]

\* Inception.create: signed by the key it names.
SignedInception(keys, next_commitment, now) ==
  [address |-> keys, next_commitment |-> next_commitment, created_at |-> now,
   signature |-> keys]

\* KeyRotation.create: signed by the key that hands over.
SignedRotation(keys, identity, sequence, next_address, next_commitment, now) ==
  [identity |-> identity, sequence |-> sequence, previous |-> keys,
   next_address |-> next_address, next_commitment |-> next_commitment,
   rotated_at |-> now, signature |-> keys]

-----------------------------------------------------------------------------
(* Digests: everything a record asserts, domain-separated, and not who     *)
(* signed it.                                                              *)

Payload(record) == [record EXCEPT !.signature = NoSignature]

signing_input(context, payload) == [context |-> context, payload |-> payload]

inception_identity(inception) ==
  signing_input(CONTEXT_INCEPTION, Payload(inception))

rotation_identity(rotation) ==
  signing_input(CONTEXT_KEY_ROTATION, Payload(rotation))

Fingerprint(chain, k) ==
  IF k = 0 THEN inception_identity(chain.inception)
           ELSE rotation_identity(chain.rotations[k])

InceptionDigests == {inception_identity(i) : i \in Inceptions}
RotationDigests == {rotation_identity(r) : r \in KeyRotations}

Fingerprints == InceptionDigests \cup RotationDigests

-----------------------------------------------------------------------------
(* Replaying a chain                                                       *)

Identity(chain) == chain.inception.address

\* The state before the first pass of the loop in RotationChain.resolve.
Born(inception) ==
  [identity |-> inception.address, current_address |-> inception.address,
   next_commitment |-> inception.next_commitment, sequence |-> 0]

\* The state the loop's last three assignments leave.
Rotated(rotation) ==
  [identity |-> rotation.identity, current_address |-> rotation.next_address,
   next_commitment |-> rotation.next_commitment,
   sequence |-> rotation.sequence]

\* The state once the record with sequence k has been replayed.
StandingAfter(record, k) == IF k = 0 THEN Born(record) ELSE Rotated(record)

\* Where the chain stands after its first k rotations.
Standing(chain, k) == StandingAfter(Record(chain, k), k)

verify_inception(inception) == inception.signature = inception.address

verify_signature(rotation) == rotation.signature = rotation.previous

\* What the payload of a rotation must say to succeed a standing state.
Succeeds(rotation, standing) ==
  /\ rotation.identity = standing.identity
  /\ rotation.sequence = standing.sequence + 1
  /\ rotation.previous = standing.current_address
  /\ commitment_for_address(rotation.next_address) = standing.next_commitment

\* RotationChain.resolve returns: no check of any pass of its loop raises.
Resolves(chain) ==
  /\ verify_inception(chain.inception)
  /\ \A k \in 1 .. Len(chain.rotations) :
       /\ Succeeds(chain.rotations[k], Standing(chain, k - 1))
       /\ verify_signature(chain.rotations[k])

\* What it then returns.
resolve(chain) == Standing(chain, Len(chain.rotations))

\* RotationChain.extend, which raises unless the result Resolves.
extend(chain, rotation) ==
  [chain EXCEPT !.rotations = Append(@, rotation)]
=============================================================================
