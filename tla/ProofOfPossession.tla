-------------------------- MODULE ProofOfPossession --------------------------
(***************************************************************************)
(* Challenges and the responses to them: src/fg_agent_id/proof.py.         *)
(*                                                                         *)
(* A challenge_id stands for the nonce as well: both are drawn together,   *)
(* and no two challenges share either. A `signature' holds the address of  *)
(* the key that signed exactly the response's other fields.                *)
(***************************************************************************)
EXTENDS Identity, Integers

CONSTANTS
  ChallengeIds,   \* challenge ids that are ever drawn
  Audiences,      \* identifiers of the services that verify
  Purposes        \* what a proof may be asked for

Challenges ==
  [challenge_id : ChallengeIds, audience : Audiences, purpose : Purposes,
   expires_at : Int]

\* Challenge.issue by a service whose clock shows `now'.
issue(id, audience, purpose, ttl_seconds, now) ==
  [challenge_id |-> id, audience |-> audience, purpose |-> purpose,
   expires_at |-> now + ttl_seconds]

\* Challenge.is_expired, at the very moment of expires_at as well.
is_expired(challenge, now, leeway) == now - leeway >= challenge.expires_at

Responses ==
  [challenge_id : ChallengeIds, address : Addresses, audience : Audiences,
   purpose : Purposes, signature : Addresses]

\* ChallengeResponse.create: the holder of `keys' answers a challenge in the
\* name of `address', which nothing makes its own.
create(keys, address, challenge) ==
  [challenge_id |-> challenge.challenge_id, address |-> address,
   audience |-> challenge.audience, purpose |-> challenge.purpose,
   signature |-> keys]

\* Mutant: a response is good for whichever audience it names.
Matches_AnyAudience(response, challenge, audience) ==
  /\ challenge.audience = audience
  /\ response.challenge_id = challenge.challenge_id
  /\ response.purpose = challenge.purpose

\* The response and the challenge are both about this verifier, and the
\* response is about the challenge.
Matches(response, challenge, audience) ==
  /\ response.audience = audience
  /\ challenge.audience = audience
  /\ response.challenge_id = challenge.challenge_id
  /\ response.purpose = challenge.purpose

\* ChallengeResponse.verify: it returns response.address.
verify(response, challenge, audience, now, leeway) ==
  /\ Matches(response, challenge, audience)
  /\ ~is_expired(challenge, now, leeway)
  /\ response.signature = response.address
=============================================================================
