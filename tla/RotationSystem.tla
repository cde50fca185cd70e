---------------------------- MODULE RotationSystem ----------------------------
(***************************************************************************)
(* One owner that rotates its identity and the verifiers that follow it:   *)
(* RotatingIdentity and RotationRegistry of src/fg_agent_id/rotation.py.   *)
(*                                                                         *)
(* A RotatingIdentity is immutable: rotate() returns a new handle and      *)
(* leaves the old one as good as it was. Nothing in the library stops a    *)
(* caller from rotating one handle twice, which would sign two records for *)
(* one sequence. The owner modelled here keeps the one discipline that     *)
(* avoids it: a chain leaves the process only after the handle that can    *)
(* continue it has been saved. The owner may lose its memory, and every    *)
(* verifier may restart from a snapshot, at any point in between.          *)
(***************************************************************************)
EXTENDS RotationRegistry

CONSTANT Genesis   \* [keys, next_keys]: the key pairs the identity starts with

ASSUME GenesisAssumption ==
  /\ Genesis \in [keys : Addresses, next_keys : Addresses]
  /\ Genesis.keys # Genesis.next_keys
  /\ Genesis.keys \in Identities

VARIABLES
  handle,      \* the RotatingIdentity the owner's process holds
  vault,       \* the RotatingIdentity it saved last
  generated,   \* every key pair generate() has ever returned
  published    \* the chains the owner has sent out; the transport keeps all

ownerVars == <<handle, vault, generated, published>>
systemVars == <<vars, ownerVars>>

Handles ==
  [identity : Addresses, keys : Addresses, next_keys : Addresses,
   chain : Chains]

-----------------------------------------------------------------------------
(* RotatingIdentity                                                        *)

create(keys, next_keys, now) ==
  [identity |-> keys, keys |-> keys, next_keys |-> next_keys,
   chain |-> [inception |-> SignedInception(
                              keys, commitment_for_address(next_keys), now),
              rotations |-> <<>>]]

\* The record rotate() signs with the key in force.
NextRotation(me, following, now) ==
  SignedRotation(me.keys, me.identity, resolve(me.chain).sequence + 1,
                 me.next_keys, commitment_for_address(following), now)

\* Mutant: the key generated for the record is not the one kept.
rotate_KeepsNext(me, following, now) ==
  [me EXCEPT !.keys = me.next_keys,
             !.chain = extend(me.chain, NextRotation(me, following, now))]

rotate(me, following, now) ==
  [me EXCEPT !.keys = me.next_keys,
             !.next_keys = following,
             !.chain = extend(me.chain, NextRotation(me, following, now))]

-----------------------------------------------------------------------------
(* The owner                                                               *)

SystemInit ==
  /\ Init
  /\ \E now \in Times : handle = create(Genesis.keys, Genesis.next_keys, now)
  /\ vault = handle
  /\ generated = {Genesis.keys, Genesis.next_keys}
  /\ published = {}

\* generate() draws 32 random bytes: never a pair that was drawn before, also
\* when that one has been lost. extend() has verified the chain rotate returns.
Rotate(following, now) ==
  /\ Len(handle.chain.rotations) < MaxSequence
  /\ following \notin generated
  /\ Resolves(rotate(handle, following, now).chain)
  /\ handle' = rotate(handle, following, now)
  /\ generated' = generated \cup {following}
  /\ UNCHANGED <<vault, published, vars>>

Save ==
  /\ vault' = handle
  /\ UNCHANGED <<handle, generated, published, vars>>

Publish ==
  /\ vault = handle
  /\ published' = published \cup {handle.chain}
  /\ UNCHANGED <<handle, vault, generated, vars>>

\* The owner's process ends and comes back with what it had saved.
LoseMemory ==
  /\ handle' = vault
  /\ UNCHANGED <<vault, generated, published, vars>>

-----------------------------------------------------------------------------
(* The verifiers                                                           *)

\* A chain arrives, late, twice or out of order.
Deliver(v, chain) ==
  /\ chain \in published
  /\ Learn(v, chain)
  /\ UNCHANGED ownerVars

VerifierPersists(v) ==
  /\ \E version \in Versions : SaveSnapshot(v, version)
  /\ UNCHANGED ownerVars

VerifierRestores(v) ==
  /\ \E w \in Sources[v] : Restore(v, w)
  /\ UNCHANGED ownerVars

VerifierRestarts(v) ==
  /\ Restart(v)
  /\ UNCHANGED ownerVars

SystemNext ==
  \/ \E following \in Addresses, now \in Times : Rotate(following, now)
  \/ Save
  \/ Publish
  \/ LoseMemory
  \/ \E v \in Verifiers :
       \/ \E chain \in published : Deliver(v, chain)
       \/ VerifierPersists(v)
       \/ VerifierRestores(v)
       \/ VerifierRestarts(v)

\* The chain published last, which the transport hands out again and again.
Newest ==
  CHOOSE c \in published :
    \A d \in published : Len(d.rotations) <= Len(c.rotations)

DeliverNewest(v) ==
  /\ published # {}
  /\ Deliver(v, Newest)

SystemSpec == SystemInit /\ [][SystemNext]_systemVars

FairSystemSpec ==
  SystemSpec /\ \A v \in Verifiers : WF_systemVars(DeliverNewest(v))

-----------------------------------------------------------------------------
(* Properties                                                              *)

\* An owner who saves before it publishes is never declared compromised,
\* although it may sign two records for one sequence: the one it forgot never
\* left its process. Prefixes arrive in any order, verifiers restart in
\* between, and snapshots may be of the earlier format.
HonestNeverBranded ==
  \A v \in Verifiers : handle.identity \notin duplicity[v]

\* Whatever the owner forgets and whichever chain a verifier has reached, the
\* owner can continue from there: the state a verifier trusts is one that the
\* saved handle's own chain passes through, and the key it is committed to is
\* the next one on that chain or the one kept for the next rotation.
SuccessionSurvives ==
  \A v \in Verifiers :
    LET known == states[v][vault.identity]
        rotations == vault.chain.rotations
    IN known # None =>
         /\ known.sequence <= Len(rotations)
         /\ known = Standing(vault.chain, known.sequence)
         /\ known.next_commitment = commitment_for_address(
              IF known.sequence = Len(rotations)
              THEN vault.next_keys
              ELSE rotations[known.sequence + 1].next_address)

\* rotate() never raises, on the handle in use or on one that comes back from
\* the vault: the keys a handle holds are always those its chain calls for.
OwnerCanAlwaysRotate ==
  \A me \in {handle, vault}, following \in Addresses, now \in Times :
    Len(me.chain.rotations) < MaxSequence =>
      Resolves(rotate(me, following, now).chain)

\* Every verifier reaches every rotation that was published, however often it
\* falls back to an older snapshot on the way.
VerifiersFollow ==
  \A v \in Verifiers, n \in SequenceNumbers :
    (\E c \in published : Len(c.rotations) = n)
      ~> (states[v][handle.identity] # None
            /\ states[v][handle.identity].sequence >= n)
=============================================================================
