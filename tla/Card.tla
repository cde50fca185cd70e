--------------------------------- MODULE Card ---------------------------------
(***************************************************************************)
(* Agent cards: src/fg_agent_id/card.py, the card of AgentIdentity, and    *)
(* the resolution of a DID by a card (did.py).                             *)
(*                                                                         *)
(* An agreement key and every prekey are represented by the address of     *)
(* their holder: what matters of an encryption key is who can open what is *)
(* sealed to it. Names, endpoints and the rest of a card carry no meaning  *)
(* to this library and are left out.                                       *)
(***************************************************************************)
EXTENDS Identity

CONSTANT Extensions   \* names of extension fields

AgentCards ==
  [address : Addresses, signing_key : Addresses, agreement_key : Addresses,
   agreement_prekey : Addresses \cup {None}, critical : SUBSET Extensions,
   signature : Addresses \cup {NoSignature}]

\* AgentCard.create, by a holder for its own address as AgentIdentity.card does.
card(keys, agreement_prekey, critical) ==
  [address |-> keys, signing_key |-> keys, agreement_key |-> keys,
   agreement_prekey |-> agreement_prekey, critical |-> critical,
   signature |-> keys]

\* Mutant: the key that signed need not be the one the address certifies.
verify_AnyKey(agent_card, understood) ==
  /\ agent_card.signature = agent_card.signing_key
  /\ agent_card.critical \subseteq understood

\* AgentCard.verify.
verify_card(agent_card, understood) ==
  /\ agent_card.signing_key = agent_card.address
  /\ agent_card.signature = agent_card.signing_key
  /\ agent_card.critical \subseteq understood

\* AgentCard.seal_target.
seal_target(agent_card) ==
  IF agent_card.agreement_prekey = None THEN agent_card.agreement_key
                                        ELSE agent_card.agreement_prekey

\* Whether did.resolve makes a document of this DID and card.
resolves(address, agent_card) ==
  /\ verify_card(agent_card, {})
  /\ agent_card.address = address
=============================================================================
