-------------------------- MODULE MCRotationRegistry --------------------------
(***************************************************************************)
(* Small instances of RotationRegistry. Two keys: a's identity is signed   *)
(* into every history two keys allow (fourteen chains, so that forks exist *)
(* at the inception and at both rotations); b's into a single one. Chains  *)
(* that must not verify are offered too: every chain of one rotation that  *)
(* any assignment of its fields and signatures makes.                      *)
(***************************************************************************)
EXTENDS RotationRegistry

CONSTANTS a, b, t, v1, v2

MCAddresses == {a, b}
MCTimes == {t}
OneVerifier == {v1}
TwoVerifiers == {v1, v2}
CurrentFormat == {2}
BothFormats == {1, 2}

Prefixes(c) == {[c EXCEPT !.rotations = SubSeq(@, 1, n)] :
                  n \in 0 .. Len(c.rotations)}

Birth(id) == {[address |-> id, next_commitment |-> n, created_at |-> t,
               signature |-> id] : n \in Commitments}

Handover(id, k) ==
  {r \in KeyRotations : /\ r.identity = id
                        /\ r.sequence = k
                        /\ r.signature = r.previous}

\* Every valid chain of an identity, up to MaxSequence rotations (2 here).
Valid(id) ==
  {c \in {[inception |-> i, rotations |-> s] :
            i \in Birth(id),
            s \in {<<>>} \cup {<<r>> : r \in Handover(id, 1)}
                  \cup {<<r, q>> : r \in Handover(id, 1), q \in Handover(id, 2)}} :
     Resolves(c)}

\* One history of b: it hands over to a, and a hands back.
Single ==
  CHOOSE c \in Valid(b) :
    /\ Len(c.rotations) = 2
    /\ c.rotations[1].next_address = a
    /\ c.rotations[2].next_address = b

Malformed ==
  {c \in {[inception |-> i, rotations |-> <<r>>] :
            i \in {x \in Inceptions : x.address = a},
            r \in {x \in KeyRotations :
                     x.next_commitment = commitment_for_address(a)}} :
     ~Resolves(c)}

MCPresented == Valid(a) \cup Prefixes(Single) \cup Malformed

OwnSnapshots == [v \in Verifiers |-> {v}]
AnySnapshot == [v \in Verifiers |-> Verifiers]
=============================================================================
