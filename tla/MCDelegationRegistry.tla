------------------------- MODULE MCDelegationRegistry -------------------------
(***************************************************************************)
(* An owner o, whose clock is ahead by one, an operator p and an agent a.  *)
(* The owner lends to the operator, which lends on to the agent, as to any *)
(* delegate or as to its device; one grant insists on an extension, one is *)
(* signed with a key that is not its issuer's.                             *)
(***************************************************************************)
EXTENDS DelegationRegistry

CONSTANTS o, p, a, pay, device, limit

MCAddresses == {o, p, a}
MCScopes == {pay, device}
MCExtensions == {limit}
MCClockAhead == [x \in MCAddresses |-> IF x = o THEN 1 ELSE 0]

Request(keys, issuer, subject, scopes, ttl, critical) ==
  [keys |-> keys, issuer |-> issuer, subject |-> subject, scopes |-> scopes,
   ttl |-> ttl, critical |-> critical]

MCOrdinaryGrants ==
  {Request(o, o, p, {pay, device}, 1, {}),
   Request(p, p, a, {pay}, 2, {limit}),
   Request(p, o, a, {pay}, 2, {})}

MCDeviceGrants == {Request(p, p, a, {}, 1, {})}
=============================================================================
