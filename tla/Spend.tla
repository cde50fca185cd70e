-------------------------------- MODULE Spend --------------------------------
(***************************************************************************)
(* Spend scopes and what a chain of grants may pay: src/fg_agent_id/       *)
(* spend.py. A scope is what parse_spend_scope makes of its text; a cap is *)
(* a number of the asset's smallest units, or None where there is none.    *)
(*                                                                         *)
(* Amounts are Decimals. Parsing and comparing them is exact; their sum is *)
(* rounded to the digits that the decimal module's default context keeps.  *)
(***************************************************************************)
EXTENDS Identity, Integers, FiniteSetsExt

CONSTANTS
  Assets,       \* what can be paid in
  PowersOfTen,  \* as many of them as sums have digits
  ExactBelow    \* the least number of more digits than a sum keeps: 10^28

ASSUME PowersOfTenAssumption ==
  /\ PowersOfTen \subseteq Nat \ {0} /\ 1 \in PowersOfTen
  /\ \A e \in PowersOfTen \ {1} : \E f \in PowersOfTen : e = 10 * f
ASSUME ExactBelowAssumption == ExactBelow \in PowersOfTen \ {1}

-----------------------------------------------------------------------------
(* Sums of Decimals                                                        *)

\* The place of the last digit that a sum n keeps.
LastPlace(n) == Max({e \in PowersOfTen : e = 1 \/ (e \div 10) * ExactBelow <= n})

\* ROUND_HALF_EVEN at that place.
Rounded(n) ==
  LET place == LastPlace(n)
      rest == n % place
      even == (n \div place) % 2 = 0
  IN IF 2 * rest < place \/ (2 * rest = place /\ even) THEN n - rest
     ELSE n - rest + place

-----------------------------------------------------------------------------
(* Scopes                                                                  *)

Caps == Nat \cup {None}

SpendScopes == [asset : Assets, tx_cap : Caps, total_cap : Caps]

\* Mutant: a link without a cap lifts those of the others.
min_cap_Unlimited(caps) == IF None \in caps THEN None ELSE Min(caps)

\* _min_cap over any number of caps.
min_cap(caps) == IF caps \subseteq {None} THEN None ELSE Min(caps \ {None})

\* SpendScope.intersect over any number of scopes about one asset.
intersect(scopes) ==
  [tx_cap |-> min_cap({s.tx_cap : s \in scopes}),
   total_cap |-> min_cap({s.total_cap : s \in scopes})]

\* The scopes of one grant that are about the asset.
About(scopes, asset) == {s \in scopes : s.asset = asset}

\* compose_spend_authority: the caps of every scope about the asset in any
\* link (within a grant, by spend_authority_for), or None when there is no link
\* or one of them has no such scope.
compose_spend_authority(links_scopes, asset) ==
  IF links_scopes = <<>> \/ \E i \in DOMAIN links_scopes :
                              About(links_scopes[i], asset) = {}
  THEN None
  ELSE intersect(UNION {About(links_scopes[i], asset) : i \in DOMAIN links_scopes})

Within(amount, cap) == cap # None => amount <= cap

\* Mutant: an amount may be negative.
MayPay_AnyAmount(links_scopes, asset, amount, spent_so_far) ==
  LET effective == compose_spend_authority(links_scopes, asset)
  IN /\ effective # None
     /\ Within(amount, effective.tx_cap)
     /\ Within(Rounded(spent_so_far + amount), effective.total_cap)

\* SpendAuthority.verify, which raises otherwise.
MayPay(links_scopes, asset, amount, spent_so_far) ==
  LET effective == compose_spend_authority(links_scopes, asset)
  IN /\ amount >= 0 /\ spent_so_far >= 0
     /\ effective # None
     /\ Within(amount, effective.tx_cap)
     /\ Within(Rounded(spent_so_far + amount), effective.total_cap)
=============================================================================
