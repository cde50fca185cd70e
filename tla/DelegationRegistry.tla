-------------------------- MODULE DelegationRegistry --------------------------
(***************************************************************************)
(* The RevocationRegistry of src/fg_agent_id/delegation.py among           *)
(* principals that grant, re-grant and recall as time passes. Whatever     *)
(* record can be built from the grants that exist may reach the registry,  *)
(* in any order and from anyone; it restarts from snapshots.               *)
(***************************************************************************)
EXTENDS Delegation, FiniteSets

CONSTANTS
  OrdinaryGrants,  \* what principals may grant: keys, issuer, subject, ...
  DeviceGrants,    \* what they may grant with issue_device_delegation
  ClockAhead,      \* how far each principal's clock is ahead of the verifier's
  Recallers,       \* principals whose recalls reach the registry
  Leeway,          \* leeway_seconds of a call of DelegationChain.verify
  Understood,      \* its understood_extensions
  Versions,        \* snapshot formats in use
  MaxTime,         \* bound: the last instant
  MaxGrants,       \* bound: grants that are made
  MaxRecalls,      \* bound: recalls that are admitted
  MaxLinks         \* bound: links of a chain that is presented

GrantRequests ==
  [keys : Addresses, issuer : Addresses, subject : Addresses,
   scopes : SUBSET Scopes, ttl : Nat, critical : SUBSET Extensions]

ASSUME GrantsAssumption ==
  OrdinaryGrants \subseteq GrantRequests /\ DeviceGrants \subseteq GrantRequests
ASSUME ClockAssumption == ClockAhead \in [Addresses -> Nat]
ASSUME CallsAssumption ==
  Leeway \in Nat /\ Understood \subseteq Extensions /\ Recallers \subseteq Addresses
ASSUME BoundsAssumption ==
  {MaxTime, MaxGrants, MaxRecalls, MaxLinks} \subseteq Nat

VARIABLES
  clock,         \* the verifier's clock
  granted,       \* every grant that was ever made
  digests,       \* _digests
  revoked_keys,  \* _revoked_keys
  disk,          \* the last snapshot
  meant          \* auxiliary: who recalled which grant or key

registryVars == <<digests, revoked_keys>>
vars == <<clock, granted, registryVars, disk, meant>>

Known == [digests |-> digests, revoked_keys |-> revoked_keys]

SNAPSHOT_VERSION == 2

\* Format 1 hashed the text of a signature: a digest that no grant has. One
\* that was restored from such a file stays what it is.
LegacyDigests == [v1 : Digests]

LegacyDigest(d) == IF d \in LegacyDigests THEN d ELSE [v1 |-> d]

Init ==
  /\ clock = 0
  /\ granted = {}
  /\ digests = {} /\ revoked_keys = {}
  /\ disk = [version |-> SNAPSHOT_VERSION, digests |-> {}, revoked_keys |-> {}]
  /\ meant = {}

Tick ==
  /\ clock < MaxTime
  /\ clock' = clock + 1
  /\ UNCHANGED <<granted, registryVars, disk, meant>>

-----------------------------------------------------------------------------
(* Granting                                                                *)

Make(request, scopes) ==
  /\ Cardinality(granted) < MaxGrants
  /\ granted' = granted \cup
       {grant(request.keys, request.issuer, request.subject, scopes,
              request.ttl, request.critical,
              clock + ClockAhead[request.issuer])}
  /\ UNCHANGED <<clock, registryVars, disk, meant>>

Grant(request) == Make(request, request.scopes)

IssueDevice(request) == Make(request, request.scopes \cup {DEVICE_SCOPE})

\* The chains that can be put together from the grants that exist.
Presentable == UNION {[1 .. n -> granted] : n \in 0 .. MaxLinks}

-----------------------------------------------------------------------------
(* Recalls reach the registry                                              *)

\* What can be built about a grant, by Revocation.revoke or directly.
RevocationsAbout(delegation) ==
  {[issuer |-> p, delegation_digest |-> digest(delegation), signature |-> q] :
     p \in Recallers, q \in Addresses}

KeyRevocationsAbout(address) ==
  {CreateKeyRevocation(keys, issuer, address, chain) :
     keys \in Addresses, issuer \in Recallers, chain \in Presentable \cup {None}}

\* OwnerIdentity.revoke_agent_key, whose one guard is that the owner is the
\* root of the agent's chain.
revoke_agent_key(owner, address, links) ==
  CreateKeyRevocation(owner, owner, address, links)

Note(by, what, about) ==
  /\ meant' = meant \cup {[by |-> by, what |-> what, about |-> about]}
  /\ Cardinality(meant') <= MaxRecalls

\* Mutant: the record itself is kept instead of the digest it names.
AddRevocation_WholeRecord(delegation, revocation) ==
  /\ RevocationVerifies(revocation)
  /\ digests' = digests \cup {revocation}
  /\ Note(revocation.issuer, "grant", delegation)
  /\ UNCHANGED <<clock, granted, revoked_keys, disk>>

\* RevocationRegistry.add. A recall that does not verify raises and changes
\* nothing.
AddRevocation(delegation, revocation) ==
  /\ RevocationVerifies(revocation)
  /\ digests' = digests \cup {revocation.delegation_digest}
  /\ Note(revocation.issuer, "grant", delegation)
  /\ UNCHANGED <<clock, granted, revoked_keys, disk>>

\* RevocationRegistry.revoke_key.
RevokeKey(revocation) ==
  /\ KeyRevocationVerifies(revocation)
  /\ revoked_keys' = revoked_keys \cup {revocation.address}
  /\ Note(revocation.issuer, "key", revocation.address)
  /\ UNCHANGED <<clock, granted, digests, disk>>

-----------------------------------------------------------------------------
(* Snapshots                                                               *)

\* snapshot(), by this release or, for format 1, by the one before it.
SaveSnapshot(version) ==
  /\ disk' = [version |-> version, revoked_keys |-> revoked_keys,
              digests |-> IF version = SNAPSHOT_VERSION THEN digests
                          ELSE {LegacyDigest(d) : d \in digests}]
  /\ UNCHANGED <<clock, granted, registryVars, meant>>

\* Mutant: a snapshot of another format is not loaded.
Loaded_CurrentOnly(held, field) ==
  IF disk.version = SNAPSHOT_VERSION THEN held \cup disk[field] ELSE held

\* restore() on a set the registry holds: it only ever grows, and a file of
\* format 1 is loaded too, with a warning.
Loaded(held, field) == held \cup disk[field]

Restore ==
  /\ digests' = Loaded(digests, "digests")
  /\ revoked_keys' = Loaded(revoked_keys, "revoked_keys")
  /\ UNCHANGED <<clock, granted, disk, meant>>

\* The process stops; a new registry is restored from the snapshot.
Restart ==
  /\ digests' = Loaded({}, "digests")
  /\ revoked_keys' = Loaded({}, "revoked_keys")
  /\ UNCHANGED <<clock, granted, disk, meant>>

-----------------------------------------------------------------------------

Granting ==
  \/ \E request \in OrdinaryGrants : Grant(request)
  \/ \E request \in DeviceGrants : IssueDevice(request)

Recalling ==
  \/ \E delegation \in granted : \E r \in RevocationsAbout(delegation) :
       AddRevocation(delegation, r)
  \/ \E address \in Addresses : \E r \in KeyRevocationsAbout(address) :
       RevokeKey(r)

Persisting ==
  \/ \E version \in Versions : SaveSnapshot(version)
  \/ Restore

Next ==
  \/ Tick
  \/ Granting
  \/ Recalling
  \/ Persisting
  \/ Restart

Spec == Init /\ [][Next]_vars

-----------------------------------------------------------------------------
(* Properties                                                              *)

Recalls ==
  [by : Addresses, what : {"grant"}, about : Delegations]
    \cup [by : Addresses, what : {"key"}, about : Addresses]

KnownSets ==
  [digests : SUBSET (Digests \cup LegacyDigests), revoked_keys : SUBSET Addresses]

\* The registry and its file hold digests and addresses.
TypeOK ==
  /\ clock \in 0 .. MaxTime
  /\ granted \subseteq Delegations
  /\ Known \in KnownSets
  /\ disk.version \in Versions \cup {SNAPSHOT_VERSION}
  /\ [digests |-> disk.digests, revoked_keys |-> disk.revoked_keys] \in KnownSets
  /\ meant \subseteq Recalls

\* Who lends what to whom, in one step: the grants their issuers really made.
Lends(S) ==
  {<<d.issuer, d.subject>> :
     d \in {e \in granted : SignedByIssuer(e) /\ S \subseteq e.scopes}}

\* There is a path of at most MaxLinks steps.
Joined(steps, from, to) ==
  \E n \in 1 .. MaxLinks : \E path \in [0 .. n -> Addresses] :
    /\ path[0] = from /\ path[n] = to
    /\ \A i \in 1 .. n : <<path[i - 1], path[i]>> \in steps

\* "Honored when signed by either the revoked key itself [...] or by an
\* owner/operator that can prove [...] it delegated to that agent"
\* (KeyRevocation): every key the registry was told to revoke was recalled by
\* itself or by someone who lent it authority, directly or through others.
KeyRecallsAreEntitled ==
  \A m \in meant :
    m.what = "key" =>
      m.by = m.about \/ Joined(Lends({}), m.by, m.about)

\* "A recall that an expired delegation could block would be useless exactly
\* when it is most needed" (Delegation.verify): whoever really lent authority
\* down a chain can recall the key at its end at any time, after it expired,
\* whatever it marks critical and whatever else has been recalled.
OwnerCanAlwaysRecall ==
  \A links \in Presentable \ {<<>>} :
    (\A i \in DOMAIN links : SignedByIssuer(links[i]) /\ Follows(links, i)) =>
      KeyRevocationVerifies(
        revoke_agent_key(root_issuer(links), Terminal(links), links))

\* "A revocation is permanent, so restore only ever grows the sets" (restore):
\* what has been persisted is in force, through any order of learning, saving,
\* restoring and restarting, and key revocations survive a change of format.
PersistedIsInForce ==
  /\ disk.revoked_keys \subseteq revoked_keys
  /\ disk.version = SNAPSHOT_VERSION => disk.digests \subseteq digests

\* A recall reaches what it is about and nothing else: a chain of grants that
\* were really made, unexpired, none of them and none of their keys recalled
\* by anyone, verifies at once for a caller whose leeway covers the difference
\* of the clocks. A grant made anew after an earlier one was recalled counts.
HonestGrantsStand ==
  \A links \in Presentable \ {<<>>} :
    (/\ CriticalOf(links) \subseteq Understood
     /\ \A i \in DOMAIN links :
          /\ SignedByIssuer(links[i]) /\ Follows(links, i)
          /\ Unexpired(links[i], clock, Leeway)
          /\ ClockAhead[links[i].issuer] <= Leeway
          /\ \A m \in meant :
               /\ m.what = "grant" => m.about # links[i]
               /\ m.what = "key" =>
                    m.about \notin {links[i].issuer, links[i].subject})
    => ChainStands(links, Terminal(links), clock, Leeway, Understood, Known)
=============================================================================
