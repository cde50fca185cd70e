------------------------------ MODULE MCService ------------------------------
(***************************************************************************)
(* Two workers of two services, an agent that holds three chains, and a    *)
(* stranger with keys of his own.                                          *)
(***************************************************************************)
EXTENDS Service, TLC

CONSTANTS u, v, shop, bank, a, m, coin, point, login, order, limit, c1, c2

MCChallengeIds == {c1, c2}
MCSymmetry == Permutations(MCChallengeIds)
MCWorkers == {u, v}
MCAudiences == {shop, bank}
MCAudienceOf == (u :> shop) @@ (v :> bank)
MCPurposeOf == (u :> order) @@ (v :> login)
MCAudienceOfU == u :> shop
MCPurposeOfU == u :> order
MCPurposes == {login, order}
MCAddresses == {a, m}
MCAssets == {coin, point}
MCExtensions == {limit}

Scope(asset, tx_cap, total_cap) ==
  [asset |-> asset, tx_cap |-> tx_cap, total_cap |-> total_cap]

\* Sums keep one digit. Each axis capped by another link, the total within that
\* digit; twice by one link, the total beyond it; and a chain whose second link
\* is about something else.
CapsOfTwoLinks == <<{Scope(coin, None, 8)}, {Scope(coin, 7, None)}>>
CapsOfOneLink == <<{Scope(coin, 9, 10), Scope(coin, 8, None)}>>
VoidForAll == <<{Scope(coin, None, None)}, {Scope(point, None, None)}>>

MCPowersOfTen == {1, 10}
MCHeldBy == a :> {CapsOfTwoLinks, CapsOfOneLink, VoidForAll}
MCAmounts == {-1, 7, 8}
=============================================================================
