------------------------- MODULE MCDelegationVerifier -------------------------
(***************************************************************************)
(* The principals and grants of MCDelegationRegistry. The owner is the one *)
(* whose recalls arrive while a call is under way.                         *)
(***************************************************************************)
EXTENDS DelegationVerifier, MCDelegationRegistry

MCRecallers == {o}
MCMaxAges == {None, 0}
=============================================================================
