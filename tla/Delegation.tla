------------------------------ MODULE Delegation ------------------------------
(***************************************************************************)
(* Grants, chains of grants and recalls: the records of                    *)
(* src/fg_agent_id/delegation.py and what verifying each of them means.    *)
(*                                                                         *)
(* A key pair is represented by its address. A `signature' field holds the *)
(* address of the key that signed exactly this payload under this record's *)
(* context, or NoSignature. Signatures stand for the bytes they decode to: *)
(* decode_signature refuses every other spelling of them.                  *)
(***************************************************************************)
EXTENDS Integers, Sequences

CONSTANTS
  Addresses,      \* addresses of the key pairs that exist
  Scopes,         \* scopes a grant may carry
  DEVICE_SCOPE,   \* the scope that marks a device grant
  Extensions,     \* names of extension fields
  NoSignature,    \* a signature that verifies for no key
  None            \* Python's None

ASSUME DeviceScopeAssumption == DEVICE_SCOPE \in Scopes
ASSUME NoSignatureAssumption == NoSignature \notin Addresses

Signatures == Addresses \cup {NoSignature}

\* `critical' lists the extension fields the issuer insists on; the fields
\* themselves have no meaning to this library.
Delegations ==
  [issuer : Addresses, subject : Addresses, scopes : SUBSET Scopes,
   issued_at : Int, expires_at : Int, critical : SUBSET Extensions,
   signature : Signatures]

Chains == Seq(Delegations)

ASSUME NoneAssumption == None \notin Addresses /\ None \notin Chains

\* Mutant: the digest leaves out when the grant was issued.
digest_NoTimes(delegation) ==
  [sha256 |-> [delegation EXCEPT !.issued_at = 0, !.expires_at = 0]]

\* Everything a grant says, and its signature.
digest(delegation) == [sha256 |-> delegation]

Digests == [sha256 : Delegations]

\* Delegation.grant by an issuer whose clock shows `now'.
grant(keys, issuer, subject, scopes, ttl_seconds, critical, now) ==
  [issuer |-> issuer, subject |-> subject, scopes |-> scopes,
   issued_at |-> now, expires_at |-> now + ttl_seconds, critical |-> critical,
   signature |-> keys]

-----------------------------------------------------------------------------
(* One grant                                                               *)

SignedByIssuer(delegation) == delegation.signature = delegation.issuer

Unexpired(delegation, now, leeway) == now - leeway < delegation.expires_at

\* Leeway widens the window at both ends.
InWindow(delegation, now, leeway) ==
  Unexpired(delegation, now, leeway) /\ delegation.issued_at <= now + leeway

\* Delegation.verify without its window: what remains when a chain is shown
\* as proof of past control.
Genuine(delegation, understood) ==
  SignedByIssuer(delegation) /\ delegation.critical \subseteq understood

\* Delegation.verify.
verify(delegation, now, leeway, understood) ==
  InWindow(delegation, now, leeway) /\ Genuine(delegation, understood)

-----------------------------------------------------------------------------
(* A chain of grants, root first                                           *)

root_issuer(links) == IF links = <<>> THEN None ELSE links[1].issuer

Terminal(links) == links[Len(links)].subject

\* A link other than the first is issued by the subject of the one before it.
Follows(links, i) == i > 1 => links[i].issuer = links[i - 1].subject

\* Neither the grant nor a key it names is among what is known to be recalled.
Spared(link, known) ==
  /\ digest(link) \notin known.digests
  /\ link.issuer \notin known.revoked_keys
  /\ link.subject \notin known.revoked_keys

NothingKnown == [digests |-> {}, revoked_keys |-> {}]

\* One pass of the loop of DelegationChain.verify.
LinkStands(links, i, now, leeway, understood, known) ==
  /\ verify(links[i], now, leeway, understood)
  /\ Spared(links[i], known)
  /\ Follows(links, i)

\* Mutant: a scope that any link carries.
EffectiveScopes_Union(links) ==
  {s \in Scopes : \E i \in DOMAIN links : s \in links[i].scopes}

\* What DelegationChain.verify returns: the scopes every link carries, and
\* none for an empty chain.
EffectiveScopes(links) ==
  {s \in Scopes : links # <<>> /\ \A i \in DOMAIN links : s \in links[i].scopes}

\* DelegationChain.verify at one instant. An empty chain verifies, to nothing.
ChainStands(links, agent, now, leeway, understood, known) ==
  links # <<>> =>
    /\ \A i \in DOMAIN links :
         LinkStands(links, i, now, leeway, understood, known)
    /\ Terminal(links) = agent

-----------------------------------------------------------------------------
(* Recalls                                                                 *)

Revocations ==
  [issuer : Addresses, delegation_digest : Digests, signature : Signatures]

\* Revocation.revoke with the keys of some principal.
revoke(keys, delegation) ==
  [issuer |-> delegation.issuer, delegation_digest |-> digest(delegation),
   signature |-> keys]

\* Revocation.verify.
RevocationVerifies(revocation) == revocation.signature = revocation.issuer

\* `chain' is None or a chain that shows the issuer's past control.
KeyRevocations ==
  [address : Addresses, issuer : Addresses, chain : Chains \cup {None},
   signature : Signatures]

\* KeyRevocation.create.
CreateKeyRevocation(keys, issuer, address, chain) ==
  [address |-> address, issuer |-> issuer, chain |-> chain, signature |-> keys]

CriticalOf(links) == UNION {links[i].critical : i \in DOMAIN links}

\* Mutant: the extension fields of the chain must be understood.
ProvesControl_Critical(links, issuer, address) ==
  /\ root_issuer(links) = issuer
  /\ \A i \in DOMAIN links : Genuine(links[i], {}) /\ Follows(links, i)
  /\ Terminal(links) = address

\* Mutant: any chain that ends at the address will do.
ProvesControl_AnyRoot(links, issuer, address) ==
  /\ links # <<>>
  /\ \A i \in DOMAIN links : SignedByIssuer(links[i]) /\ Follows(links, i)
  /\ Terminal(links) = address

\* What KeyRevocation.verify asks of the chain. Its window, the extension
\* fields it marks critical (all of them count as understood) and the recalls
\* that are known of it do not matter.
ProvesControl(links, issuer, address) ==
  /\ root_issuer(links) = issuer
  /\ \A i \in DOMAIN links :
       Genuine(links[i], CriticalOf(links)) /\ Follows(links, i)
  /\ Terminal(links) = address

\* KeyRevocation.verify: the key itself, or an owner with a proof.
KeyRevocationVerifies(revocation) ==
  /\ revocation.signature = revocation.issuer
  /\ \/ revocation.issuer = revocation.address
     \/ /\ revocation.chain # None
        /\ ProvesControl(revocation.chain, revocation.issuer,
                         revocation.address)
=============================================================================
