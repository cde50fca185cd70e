--------------------------- MODULE DelegationProofs ---------------------------
(***************************************************************************)
(* Theorems about DelegationRegistry and DelegationVerifier, for every set *)
(* of principals, scopes and grants and every bound.                       *)
(***************************************************************************)
EXTENDS DelegationVerifier, SequenceTheorems, TLAPS

USE BoundsAssumption

-----------------------------------------------------------------------------
(* Chains that can be presented                                            *)

\* A chain is a sequence of at most MaxLinks grants.
LEMMA ChainShape ==
  ASSUME NEW links \in Presentable
  PROVE  /\ links \in Seq(granted)
         /\ Len(links) \in 0 .. MaxLinks
         /\ DOMAIN links = 1 .. Len(links)
         /\ \A i \in 1 .. Len(links) : links[i] \in granted
         /\ links # <<>> => Len(links) \in 1 .. MaxLinks
<1>1. PICK n \in 0 .. MaxLinks : links \in [1 .. n -> granted]
  BY DEF Presentable
<1>2. links \in Seq(granted) /\ Len(links) = n
  BY <1>1, SeqDef
<1>3. links # <<>> => Len(links) # 0
  BY <1>2, EmptySeq
<1> QED BY <1>1, <1>2, <1>3

\* A chain whose links were really issued, each by the subject of the one
\* before it, and all carry some scopes, is a path along which they were lent.
LEMMA ChainIsPath ==
  ASSUME NEW links \in Presentable, links # <<>>, NEW S,
         granted \subseteq Delegations,
         \A i \in DOMAIN links :
           SignedByIssuer(links[i]) /\ Follows(links, i) /\ S \subseteq links[i].scopes
  PROVE  Joined(Lends(S), root_issuer(links), Terminal(links))
<1> DEFINE n == Len(links)
           path == [i \in 0 .. n |-> IF i = 0 THEN links[1].issuer ELSE links[i].subject]
<1>1. /\ n \in 1 .. MaxLinks /\ DOMAIN links = 1 .. n
      /\ \A i \in 1 .. n : links[i] \in granted /\ links[i] \in Delegations
  BY ChainShape
<1>2. path \in [0 .. n -> Addresses]
  <2>1. \A i \in 1 .. n : links[i].issuer \in Addresses /\ links[i].subject \in Addresses
    BY <1>1 DEF Delegations
  <2> QED BY <1>1, <2>1
<1>3. path[0] = root_issuer(links) /\ path[n] = Terminal(links)
  BY <1>1 DEF root_issuer, Terminal
<1>4. ASSUME NEW i \in 1 .. n PROVE <<path[i - 1], path[i]>> \in Lends(S)
  <2>1. path[i - 1] = links[i].issuer /\ path[i] = links[i].subject
    <3>1. CASE i = 1 BY <1>1, <3>1
    <3>2. CASE i # 1
      BY <1>1, <3>2 DEF Follows
    <3> QED BY <3>1, <3>2
  <2>2. links[i] \in granted /\ SignedByIssuer(links[i]) /\ S \subseteq links[i].scopes
    BY <1>1
  <2> QED BY <2>1, <2>2 DEF Lends
<1> QED BY <1>1, <1>2, <1>3, <1>4 DEF Joined

\* Lending only ever adds paths.
LEMMA JoinedGrows ==
  ASSUME NEW A, NEW B, A \subseteq B, NEW p, NEW q, Joined(A, p, q)
  PROVE  Joined(B, p, q)
BY DEF Joined

-----------------------------------------------------------------------------
(* The registry                                                            *)

\* Every digest that is held, or was persisted, is one that no grant has or
\* that of a grant somebody recalled.
DigestsAreMeant ==
  \A d \in digests \cup disk.digests :
    d \in LegacyDigests \/ \E m \in meant : m.what = "grant" /\ d = digest(m.about)

\* So it is with keys.
KeysAreMeant ==
  \A k \in revoked_keys \cup disk.revoked_keys :
    \E m \in meant : m.what = "key" /\ k = m.about

\* No grant is dated later than its issuer's clock has reached.
DatedByNow ==
  \A d \in granted : d.issued_at <= clock + ClockAhead[d.issuer]

RegistryInv ==
  /\ TypeOK
  /\ DigestsAreMeant
  /\ KeysAreMeant
  /\ DatedByNow
  /\ PersistedIsInForce
  /\ KeyRecallsAreEntitled

LEMMA InitRegistry == Init => RegistryInv
<1> SUFFICES ASSUME Init PROVE RegistryInv
  OBVIOUS
<1>1. TypeOK
  BY DEF Init, TypeOK, Known, KnownSets
<1> QED BY <1>1 DEF Init, RegistryInv, DigestsAreMeant, KeysAreMeant, DatedByNow,
          PersistedIsInForce, KeyRecallsAreEntitled

LEMMA TickKeeps ==
  ASSUME RegistryInv, Tick
  PROVE  RegistryInv'
<1> USE DEF RegistryInv, Tick, registryVars
<1>1. TypeOK'
  BY DEF TypeOK, Known
<1>2. DatedByNow'
  <2>1. ASSUME NEW d \in granted PROVE d.issued_at <= clock' + ClockAhead[d.issuer]
    <3>1. d.issued_at \in Int /\ ClockAhead[d.issuer] \in Nat /\ clock \in Nat
      BY ClockAssumption DEF TypeOK, Delegations
    <3>2. d.issued_at <= clock + ClockAhead[d.issuer]
      BY DEF DatedByNow
    <3> QED BY <3>1, <3>2
  <2> QED BY <2>1 DEF DatedByNow
<1>3. /\ DigestsAreMeant' /\ KeysAreMeant' /\ PersistedIsInForce'
      /\ KeyRecallsAreEntitled'
  BY DEF DigestsAreMeant, KeysAreMeant, PersistedIsInForce, KeyRecallsAreEntitled,
         Lends
<1> QED BY <1>1, <1>2, <1>3

\* A request is granted, with some scopes.
LEMMA MakeKeeps ==
  ASSUME RegistryInv, NEW request \in GrantRequests, NEW scopes \in SUBSET Scopes,
         Make(request, scopes)
  PROVE  RegistryInv'
<1> USE DEF RegistryInv, registryVars
<1> DEFINE now == clock + ClockAhead[request.issuer]
           new == grant(request.keys, request.issuer, request.subject, scopes,
                        request.ttl, request.critical, now)
<1>1. granted' = granted \cup {new} /\ UNCHANGED <<clock, registryVars, disk, meant>>
  BY DEF Make
<1>2. now \in Int /\ now + request.ttl \in Int
  BY ClockAssumption DEF GrantRequests, TypeOK
<1>3. new \in Delegations /\ new.issued_at = now /\ new.issuer = request.issuer
  BY <1>2 DEF grant, Delegations, GrantRequests, Signatures
<1> HIDE DEF new
<1>4. TypeOK'
  BY <1>1, <1>3 DEF TypeOK, Known
<1>5. DatedByNow'
  <2>1. new.issued_at <= clock + ClockAhead[new.issuer]
    BY <1>2, <1>3
  <2> QED BY <1>1, <2>1 DEF DatedByNow
<1>6. KeyRecallsAreEntitled'
  <2>1. Lends({}) \subseteq Lends({})'
    BY <1>1 DEF Lends
  <2> QED BY <1>1, <2>1, JoinedGrows DEF KeyRecallsAreEntitled
<1>7. DigestsAreMeant' /\ KeysAreMeant' /\ PersistedIsInForce'
  BY <1>1 DEF DigestsAreMeant, KeysAreMeant, PersistedIsInForce
<1> QED BY <1>4, <1>5, <1>6, <1>7

LEMMA AddRevocationKeeps ==
  ASSUME RegistryInv, NEW delegation \in granted,
         NEW r \in RevocationsAbout(delegation), AddRevocation(delegation, r)
  PROVE  RegistryInv'
<1> USE DEF RegistryInv
<1> DEFINE m == [by |-> r.issuer, what |-> "grant", about |-> delegation]
<1>1. /\ r.issuer \in Addresses
      /\ r.delegation_digest = digest(delegation)
  BY CallsAssumption DEF RevocationsAbout
<1>2. /\ digests' = digests \cup {digest(delegation)}
      /\ meant' = meant \cup {m}
      /\ UNCHANGED <<clock, granted, revoked_keys, disk>>
  BY <1>1 DEF AddRevocation, Note
<1>3. digest(delegation) \in Digests /\ m \in Recalls
  BY <1>1 DEF TypeOK, digest, Digests, Recalls
<1>4. TypeOK'
  BY <1>2, <1>3 DEF TypeOK, Known, KnownSets
<1>5. DigestsAreMeant'
  <2>1. m \in meant' /\ m.what = "grant" /\ m.about = delegation
    BY <1>2
  <2>2. \A d \in digests \cup disk.digests :
          d \in LegacyDigests \/ \E n \in meant' : n.what = "grant" /\ d = digest(n.about)
    BY <1>2 DEF DigestsAreMeant
  <2> HIDE DEF m
  <2> QED BY <1>2, <2>1, <2>2 DEF DigestsAreMeant
<1>6. KeysAreMeant' /\ PersistedIsInForce' /\ DatedByNow'
  BY <1>2 DEF KeysAreMeant, PersistedIsInForce, DatedByNow
<1>7. KeyRecallsAreEntitled'
  BY <1>2 DEF KeyRecallsAreEntitled, Lends
<1> QED BY <1>4, <1>5, <1>6, <1>7

LEMMA RevokeKeyKeeps ==
  ASSUME RegistryInv, NEW address \in Addresses,
         NEW r \in KeyRevocationsAbout(address), RevokeKey(r)
  PROVE  RegistryInv'
<1> USE DEF RegistryInv
<1> DEFINE m == [by |-> r.issuer, what |-> "key", about |-> address]
<1>1. /\ r.issuer \in Addresses /\ r.address = address
      /\ r.chain \in Presentable \cup {None}
  BY CallsAssumption DEF KeyRevocationsAbout, CreateKeyRevocation
<1>2. /\ revoked_keys' = revoked_keys \cup {address}
      /\ meant' = meant \cup {m}
      /\ UNCHANGED <<clock, granted, digests, disk>>
  BY <1>1 DEF RevokeKey, Note
<1>3. m \in Recalls
  BY <1>1 DEF Recalls
<1>4. TypeOK'
  BY <1>2, <1>3 DEF TypeOK, Known, KnownSets
<1>5. KeysAreMeant'
  <2>1. m \in meant' /\ m.what = "key" /\ m.about = address
    BY <1>2
  <2>2. \A k \in revoked_keys \cup disk.revoked_keys :
          \E n \in meant' : n.what = "key" /\ k = n.about
    BY <1>2 DEF KeysAreMeant
  <2> HIDE DEF m
  <2> QED BY <1>2, <2>1, <2>2 DEF KeysAreMeant
<1>6. DigestsAreMeant' /\ PersistedIsInForce' /\ DatedByNow'
  BY <1>2 DEF DigestsAreMeant, PersistedIsInForce, DatedByNow
<1>7. r.issuer = address \/ Joined(Lends({}), r.issuer, address)
  <2>1. CASE r.issuer = address
    BY <2>1
  <2>2. CASE r.issuer # address
    <3>1. r.chain # None /\ ProvesControl(r.chain, r.issuer, address)
      BY <1>1, <2>2 DEF RevokeKey, KeyRevocationVerifies
    <3>2. r.chain \in Presentable /\ root_issuer(r.chain) = r.issuer
          /\ Terminal(r.chain) = address
      BY <1>1, <3>1 DEF ProvesControl
    <3>3. \A i \in DOMAIN r.chain :
            /\ SignedByIssuer(r.chain[i]) /\ Follows(r.chain, i)
            /\ {} \subseteq r.chain[i].scopes
      BY <3>1 DEF ProvesControl, Genuine
    <3>4. r.chain # <<>>
      <4>1. SUFFICES ASSUME r.chain = <<>> PROVE FALSE
        OBVIOUS
      <4>2. r.issuer = None
        BY <3>2, <4>1 DEF root_issuer
      <4> QED BY <1>1, <4>2, NoneAssumption
    <3> QED BY <3>2, <3>3, <3>4, ChainIsPath DEF TypeOK
  <2> QED BY <2>1, <2>2
<1>8. KeyRecallsAreEntitled'
  <2>1. Lends({})' = Lends({})
    BY <1>2 DEF Lends
  <2>2. \A n \in meant : n.what = "key" =>
          n.by = n.about \/ Joined(Lends({}), n.by, n.about)
    BY DEF KeyRecallsAreEntitled
  <2>3. m.by = m.about \/ Joined(Lends({}), m.by, m.about)
    BY <1>7
  <2> HIDE DEF m
  <2> QED BY <1>2, <2>1, <2>2, <2>3 DEF KeyRecallsAreEntitled
<1> QED BY <1>4, <1>5, <1>6, <1>8

LEMMA SaveSnapshotKeeps ==
  ASSUME RegistryInv, NEW version \in Versions, SaveSnapshot(version)
  PROVE  RegistryInv'
<1> USE DEF RegistryInv
<1> DEFINE legacy == {LegacyDigest(d) : d \in digests}
<1>1. /\ disk'.version = version /\ disk'.revoked_keys = revoked_keys
      /\ disk'.digests = IF version = SNAPSHOT_VERSION THEN digests ELSE legacy
      /\ UNCHANGED <<clock, granted, digests, revoked_keys, meant>>
  BY DEF SaveSnapshot, registryVars
<1>2. legacy \subseteq LegacyDigests
  BY DEF TypeOK, Known, KnownSets, LegacyDigest, LegacyDigests
<1> HIDE DEF legacy
<1>3. TypeOK'
  BY <1>1, <1>2 DEF TypeOK, Known, KnownSets
<1>4. DigestsAreMeant' /\ KeysAreMeant' /\ PersistedIsInForce' /\ DatedByNow'
  BY <1>1, <1>2 DEF DigestsAreMeant, KeysAreMeant, PersistedIsInForce, DatedByNow
<1>5. KeyRecallsAreEntitled'
  BY <1>1 DEF KeyRecallsAreEntitled, Lends
<1> QED BY <1>3, <1>4, <1>5

\* A registry, in use or new, loads the snapshot on disk.
LEMMA LoadKeeps ==
  ASSUME RegistryInv, NEW held \in SUBSET digests, NEW keys \in SUBSET revoked_keys,
         digests' = held \cup disk.digests,
         revoked_keys' = keys \cup disk.revoked_keys,
         UNCHANGED <<clock, granted, disk, meant>>
  PROVE  RegistryInv'
<1> USE DEF RegistryInv
<1>1. TypeOK'
  BY DEF TypeOK, Known, KnownSets
<1>2. DigestsAreMeant' /\ KeysAreMeant' /\ PersistedIsInForce' /\ DatedByNow'
  BY DEF DigestsAreMeant, KeysAreMeant, PersistedIsInForce, DatedByNow
<1>3. KeyRecallsAreEntitled'
  BY DEF KeyRecallsAreEntitled, Lends
<1> QED BY <1>1, <1>2, <1>3

LEMMA RegistryStep == RegistryInv /\ [Next]_vars => RegistryInv'
<1> SUFFICES ASSUME RegistryInv, [Next]_vars PROVE RegistryInv'
  OBVIOUS
<1>1. CASE Tick
  BY <1>1, TickKeeps
<1>2. CASE Granting
  <2>1. ASSUME NEW request \in OrdinaryGrants, Grant(request) PROVE RegistryInv'
    <3>1. request \in GrantRequests /\ request.scopes \in SUBSET Scopes
      BY GrantsAssumption DEF GrantRequests
    <3> QED BY <2>1, <3>1, MakeKeeps DEF Grant
  <2>2. ASSUME NEW request \in DeviceGrants, IssueDevice(request) PROVE RegistryInv'
    <3>1. /\ request \in GrantRequests
          /\ request.scopes \cup {DEVICE_SCOPE} \in SUBSET Scopes
      BY GrantsAssumption, DeviceScopeAssumption DEF GrantRequests
    <3> QED BY <2>2, <3>1, MakeKeeps DEF IssueDevice
  <2> QED BY <1>2, <2>1, <2>2 DEF Granting
<1>3. CASE Recalling
  BY <1>3, AddRevocationKeeps, RevokeKeyKeeps DEF Recalling
<1>4. CASE Persisting
  <2>1. CASE Restore
    BY <2>1, LoadKeeps DEF Restore, Loaded
  <2> QED BY <1>4, <2>1, SaveSnapshotKeeps DEF Persisting
<1>5. CASE Restart
  <2> DEFINE none == {}
  <2>1. /\ digests' = none \cup disk.digests
        /\ revoked_keys' = none \cup disk.revoked_keys
        /\ UNCHANGED <<clock, granted, disk, meant>>
    BY <1>5 DEF Restart, Loaded
  <2>2. none \in SUBSET digests /\ none \in SUBSET revoked_keys
    OBVIOUS
  <2> HIDE DEF none
  <2> QED BY <2>1, <2>2, LoadKeeps
<1>6. CASE UNCHANGED vars
  BY <1>6 DEF vars, registryVars, RegistryInv, TypeOK, Known, DigestsAreMeant,
     KeysAreMeant, DatedByNow, PersistedIsInForce, KeyRecallsAreEntitled, Lends
<1> QED BY <1>1, <1>2, <1>3, <1>4, <1>5, <1>6 DEF Next

LEMMA RegistryInvariance == Spec => []RegistryInv
BY InitRegistry, RegistryStep, PTL DEF Spec

\* The registry and its file hold digests and addresses, and every grant,
\* recall and instant is well formed.
THEOREM RegistryTypeCorrect == Spec => []TypeOK
<1>1. RegistryInv => TypeOK
  BY DEF RegistryInv
<1> QED BY <1>1, RegistryInvariance, PTL

\* Nobody without authority over a key gets it revoked: KeyRevocation.verify
\* lets through the key itself and those who lent it authority.
THEOREM OnlyEntitledRecallKeys == Spec => []KeyRecallsAreEntitled
<1>1. RegistryInv => KeyRecallsAreEntitled
  BY DEF RegistryInv
<1> QED BY <1>1, RegistryInvariance, PTL

\* What a snapshot holds is in force, whatever was learned, saved, restored and
\* restarted since.
THEOREM PersistedStaysInForce == Spec => []PersistedIsInForce
<1>1. RegistryInv => PersistedIsInForce
  BY DEF RegistryInv
<1> QED BY <1>1, RegistryInvariance, PTL

\* An owner's recall can never be refused: KeyRevocation.verify asks nothing
\* that time, extensions or other recalls could take away.
THEOREM OwnersCanAlwaysRecall == Spec => []OwnerCanAlwaysRecall
<1>1. ASSUME TypeOK PROVE OwnerCanAlwaysRecall
  <2> SUFFICES ASSUME NEW links \in Presentable \ {<<>>},
                      \A i \in DOMAIN links :
                        SignedByIssuer(links[i]) /\ Follows(links, i)
               PROVE  KeyRevocationVerifies(
                        revoke_agent_key(root_issuer(links), Terminal(links), links))
    BY DEF OwnerCanAlwaysRecall
  <2> DEFINE r == revoke_agent_key(root_issuer(links), Terminal(links), links)
  <2>1. /\ r.signature = root_issuer(links) /\ r.issuer = root_issuer(links)
        /\ r.address = Terminal(links) /\ r.chain = links
    BY DEF revoke_agent_key, CreateKeyRevocation
  <2>2. ProvesControl(links, root_issuer(links), Terminal(links))
    <3>1. \A i \in DOMAIN links : links[i].critical \subseteq CriticalOf(links)
      BY DEF CriticalOf
    <3> QED BY <3>1 DEF ProvesControl, Genuine
  <2>3. links # None
    <3>1. links \in Seq(granted) /\ granted \subseteq Delegations
      BY <1>1, ChainShape DEF TypeOK
    <3>2. links \in Chains
      BY <3>1, SeqDef DEF Chains
    <3> QED BY <3>2, NoneAssumption
  <2> HIDE DEF r
  <2>4. KeyRevocationVerifies(r)
    BY <2>1, <2>2, <2>3 DEF KeyRevocationVerifies
  <2> QED BY <2>4 DEF r
<1> QED BY <1>1, RegistryTypeCorrect, PTL

\* Recalls hit nothing but what they are about, and leeway covers clocks that
\* are ahead.
THEOREM HonestGrantsAlwaysStand == Spec => []HonestGrantsStand
<1>1. ASSUME RegistryInv PROVE HonestGrantsStand
  <2> SUFFICES ASSUME NEW links \in Presentable \ {<<>>},
                      CriticalOf(links) \subseteq Understood,
                      NEW i \in DOMAIN links,
                      SignedByIssuer(links[i]), Follows(links, i),
                      Unexpired(links[i], clock, Leeway),
                      ClockAhead[links[i].issuer] <= Leeway,
                      \A m \in meant :
                        /\ m.what = "grant" => m.about # links[i]
                        /\ m.what = "key" =>
                             m.about \notin {links[i].issuer, links[i].subject}
               PROVE  LinkStands(links, i, clock, Leeway, Understood, Known)
    BY DEF HonestGrantsStand, ChainStands
  <2> DEFINE link == links[i]
  <2>1. link \in granted /\ link \in Delegations
    BY <1>1, ChainShape DEF RegistryInv, TypeOK
  <2>2. InWindow(link, clock, Leeway)
    <3>1. /\ link.issued_at \in Int /\ clock \in Int /\ Leeway \in Int
          /\ ClockAhead[link.issuer] \in Int
      BY <1>1, <2>1, ClockAssumption, CallsAssumption
      DEF RegistryInv, TypeOK, Delegations
    <3>2. link.issued_at <= clock + ClockAhead[link.issuer]
      BY <1>1, <2>1 DEF RegistryInv, DatedByNow
    <3>3. link.issued_at <= clock + Leeway
      BY <3>1, <3>2
    <3> QED BY <3>3 DEF InWindow
  <2>3. Genuine(link, Understood)
    BY DEF Genuine, CriticalOf
  <2>4. digest(link) \notin digests
    <3> SUFFICES ASSUME digest(link) \in digests PROVE FALSE
      OBVIOUS
    <3>1. digest(link) \notin LegacyDigests
      <4>1. DOMAIN digest(link) = {"sha256"}
        BY DEF digest
      <4>2. \A d \in LegacyDigests : DOMAIN d = {"v1"}
        BY DEF LegacyDigests
      <4> QED BY <4>1, <4>2
    <3>2. PICK m \in meant : m.what = "grant" /\ digest(link) = digest(m.about)
      BY <1>1, <3>1 DEF RegistryInv, DigestsAreMeant
    <3>3. link = m.about
      <4>1. digest(link).sha256 = link /\ digest(m.about).sha256 = m.about
        BY DEF digest
      <4> QED BY <3>2, <4>1
    <3> QED BY <3>2, <3>3
  <2>5. link.issuer \notin revoked_keys /\ link.subject \notin revoked_keys
    BY <1>1 DEF RegistryInv, KeysAreMeant
  <2> QED BY <2>2, <2>3, <2>4, <2>5 DEF LinkStands, verify, Spared, Known
<1> QED BY <1>1, RegistryInvariance, PTL

-----------------------------------------------------------------------------
(* A verification under way                                                *)

\* The sets a call has read, or has yet to read, of the registry.
Digested == IF call.pc = "begun" THEN digests ELSE call.known.digests
Keyed ==
  IF call.pc \in {"begun", "read"} THEN revoked_keys ELSE call.known.revoked_keys

\* The call will refuse its chain when it comes to this link.
Doomed(i) ==
  \/ ~ Spared(call.links[i], [digests |-> Digested, revoked_keys |-> Keyed])
  \/ ~ Unexpired(call.links[i], clock, LeewayOf(call.kind))

\* A chain that was recalled or expired when its call began has a link ahead
\* that the call will refuse.
DoomAhead ==
  call # Idle /\ ~call.alive =>
    /\ call.pc # "accepted"
    /\ \E i \in DOMAIN call.links : i >= call.next /\ Doomed(i)

\* The links a call has passed were issued by the holders of their keys, each
\* by the subject of the one before it.
PassedAreSound ==
  call # Idle =>
    /\ call.links \in Presentable
    /\ \A i \in DOMAIN call.links :
         i < call.next \/ call.pc = "accepted" =>
           SignedByIssuer(call.links[i]) /\ Follows(call.links, i)
    /\ call.pc = "accepted" =>
         /\ call.links # <<>> => Terminal(call.links) = call.agent
         /\ call.kind = "device" => DEVICE_SCOPE \in EffectiveScopes(call.links)

VerifierInv ==
  /\ RegistryInv
  /\ VerifierTypeOK
  /\ DoomAhead
  /\ PassedAreSound

\* A record that says it is not idle is a call.
LEMMA CallType ==
  ASSUME VerifierTypeOK
  PROVE  /\ call.pc # "idle" => call \in Calls /\ call # Idle
         /\ call = Idle <=> call.pc = "idle"
  BY DEF VerifierTypeOK, Idle, Calls

LEMMA InitVerifier == VerifierInit => VerifierInv
<1> SUFFICES ASSUME VerifierInit PROVE VerifierInv
  OBVIOUS
<1>1. RegistryInv
  BY InitRegistry DEF VerifierInit
<1>2. VerifierTypeOK /\ DoomAhead /\ PassedAreSound
  BY DEF VerifierInit, VerifierTypeOK, DoomAhead, PassedAreSound
<1> QED BY <1>1, <1>2 DEF VerifierInv

\* What the registry learns while no call takes a step dooms no chain less.
LEMMA LearningKeepsCalls ==
  ASSUME VerifierInv, RegistryInv', call' = call,
         synced_at' \in 0 .. MaxTime \cup {None},
         clock <= clock', granted \subseteq granted',
         digests \subseteq digests', revoked_keys \subseteq revoked_keys'
  PROVE  VerifierInv'
<1> USE DEF VerifierInv
<1>1. VerifierTypeOK'
  BY DEF VerifierTypeOK
<1>2. PassedAreSound'
  <2>1. ASSUME NEW links \in Presentable PROVE links \in Presentable'
    BY <2>1 DEF Presentable
  <2> QED BY <2>1 DEF PassedAreSound
<1>3. DoomAhead'
  <2> SUFFICES ASSUME call # Idle, ~call.alive
               PROVE  /\ call.pc # "accepted"
                      /\ \E i \in DOMAIN call.links : i >= call.next /\ Doomed(i)'
    BY DEF DoomAhead
  <2>1. call.pc # "accepted"
    BY DEF DoomAhead
  <2>2. PICK i \in DOMAIN call.links : i >= call.next /\ Doomed(i)
    BY DEF DoomAhead
  <2>3. Digested \subseteq Digested' /\ Keyed \subseteq Keyed'
    BY DEF Digested, Keyed
  <2>4. CASE ~ Spared(call.links[i], [digests |-> Digested, revoked_keys |-> Keyed])
    BY <2>1, <2>2, <2>3, <2>4 DEF Doomed, Spared
  <2>5. CASE ~ Unexpired(call.links[i], clock, LeewayOf(call.kind))
    <3>1. /\ call.links[i].expires_at \in Int /\ LeewayOf(call.kind) \in Nat
          /\ clock \in Int /\ clock' \in Int
      <4>1. call.links[i] \in granted /\ granted \subseteq Delegations
        BY ChainShape DEF PassedAreSound, RegistryInv, TypeOK
      <4> QED BY <4>1, CallsAssumption
          DEF Delegations, LeewayOf, RegistryInv, TypeOK
    <3>2. ~ Unexpired(call.links[i], clock', LeewayOf(call.kind))
      BY <2>5, <3>1 DEF Unexpired
    <3> QED BY <2>1, <2>2, <3>2 DEF Doomed
  <2> QED BY <2>2, <2>4, <2>5 DEF Doomed
<1> QED BY <1>1, <1>2, <1>3

\* What Learning does to what a call has yet to look at.
LEMMA LearningGrows ==
  ASSUME RegistryInv, Learning
  PROVE  /\ clock <= clock' /\ granted \subseteq granted'
         /\ digests \subseteq digests' /\ revoked_keys \subseteq revoked_keys'
<1>0. clock \in Nat
  BY DEF RegistryInv, TypeOK
<1>1. CASE Tick
  BY <1>0, <1>1 DEF Tick, registryVars
<1>2. CASE Granting
  <2>1. ASSUME NEW request, NEW scopes, Make(request, scopes)
        PROVE  granted \subseteq granted' /\ UNCHANGED <<clock, digests, revoked_keys>>
    BY <2>1 DEF Make, registryVars
  <2>2. ASSUME NEW request \in OrdinaryGrants, Grant(request)
        PROVE  granted \subseteq granted' /\ UNCHANGED <<clock, digests, revoked_keys>>
    BY <2>1, <2>2 DEF Grant
  <2>3. ASSUME NEW request \in DeviceGrants, IssueDevice(request)
        PROVE  granted \subseteq granted' /\ UNCHANGED <<clock, digests, revoked_keys>>
    BY <2>1, <2>3 DEF IssueDevice
  <2>4. granted \subseteq granted' /\ UNCHANGED <<clock, digests, revoked_keys>>
    BY <1>2, <2>2, <2>3 DEF Granting
  <2> QED BY <1>0, <2>4
<1>3. CASE Recalling
  BY <1>0, <1>3 DEF Recalling, AddRevocation, RevokeKey
<1>4. CASE Persisting
  <2>1. CASE Restore
    BY <1>0, <2>1 DEF Restore, Loaded
  <2>2. ASSUME NEW version \in Versions, SaveSnapshot(version)
        PROVE  UNCHANGED <<clock, granted, digests, revoked_keys>>
    BY <2>2 DEF SaveSnapshot, registryVars
  <2> QED BY <1>0, <1>4, <2>1, <2>2 DEF Persisting
<1> QED BY <1>1, <1>2, <1>3, <1>4 DEF Learning

\* A step of a call changes nothing else.
LEMMA CallStepKeepsRegistry ==
  ASSUME VerifierInv, NEW new, CallStep(new)
  PROVE  /\ RegistryInv' /\ call' = new
         /\ UNCHANGED <<clock, granted, digests, revoked_keys, synced_at>>
         /\ Presentable' = Presentable
<1>1. call' = new /\ UNCHANGED vars /\ UNCHANGED synced_at
  BY DEF CallStep
<1>2. RegistryInv'
  BY <1>1, RegistryStep DEF VerifierInv
<1> QED BY <1>1, <1>2 DEF vars, registryVars, Presentable

LEMMA IdleIsFine ==
  ASSUME VerifierInv, CallStep(Idle)
  PROVE  VerifierInv'
<1>1. VerifierTypeOK'
  BY CallStepKeepsRegistry DEF VerifierInv, VerifierTypeOK
<1> QED BY <1>1, CallStepKeepsRegistry DEF VerifierInv, DoomAhead, PassedAreSound

LEMMA BeginKeeps ==
  ASSUME VerifierInv, NEW kind \in {"chain", "device"}, NEW links \in Presentable,
         NEW agent \in Addresses, Begin(kind, links, agent)
  PROVE  VerifierInv'
<1> DEFINE new == [pc |-> "begun", kind |-> kind, links |-> links, agent |-> agent,
                   known |-> NothingKnown, next |-> 1,
                   alive |-> Alive(links, LeewayOf(kind))]
<1>1. /\ RegistryInv' /\ call' = new
      /\ UNCHANGED <<clock, granted, digests, revoked_keys, synced_at>>
      /\ Presentable' = Presentable
  BY CallStepKeepsRegistry DEF Begin
<1>2. /\ Len(links) \in Nat /\ DOMAIN links = 1 .. Len(links) /\ links \in Chains
      /\ granted \subseteq Delegations
  <2>1. granted \subseteq Delegations
    BY DEF VerifierInv, RegistryInv, TypeOK
  <2>2. links \in Seq(granted)
    BY ChainShape
  <2>3. links \in Chains
    BY <2>1, <2>2, SeqDef DEF Chains
  <2> QED BY <2>1, <2>3, ChainShape
<1>3. VerifierTypeOK'
  <2>1. Alive(links, LeewayOf(kind)) \in BOOLEAN
    BY DEF Alive
  <2>2. NothingKnown \in KnownSets
    BY DEF NothingKnown, KnownSets
  <2>3. new \in Calls
    BY <1>2, <2>1, <2>2 DEF Calls
  <2> QED BY <1>1, <1>2, <2>3 DEF VerifierInv, VerifierTypeOK, NothingKnown
<1>4. PassedAreSound'
  BY <1>1, <1>2 DEF PassedAreSound
<1>5. DoomAhead'
  <2> SUFFICES ASSUME ~ Alive(links, LeewayOf(kind))
               PROVE  \E i \in DOMAIN links : i >= 1 /\ Doomed(i)'
    BY <1>1 DEF DoomAhead
  <2>1. PICK i \in DOMAIN links :
          \/ ~ Spared(links[i], Known)
          \/ ~ Unexpired(links[i], clock, LeewayOf(kind))
    BY DEF Alive
  <2>2. Digested' = digests /\ Keyed' = revoked_keys
    BY <1>1 DEF Digested, Keyed
  <2>3. Doomed(i)'
    BY <1>1, <2>1, <2>2 DEF Doomed, Known
  <2> QED BY <1>2, <2>1, <2>3
<1> QED BY <1>1, <1>3, <1>4, <1>5 DEF VerifierInv

\* A call that reads one of the registry's sets.
LEMMA ReadKeeps ==
  ASSUME VerifierInv, ReadDigests \/ ReadKeys
  PROVE  VerifierInv'
<1>1. call \in Calls /\ call # Idle
  BY CallType DEF VerifierInv, ReadDigests, ReadKeys
<1>2. /\ RegistryInv'
      /\ UNCHANGED <<clock, granted, digests, revoked_keys, synced_at>>
      /\ Presentable' = Presentable
      /\ call.pc # "accepted"
  BY CallStepKeepsRegistry DEF ReadDigests, ReadKeys
<1>3. /\ call' \in Calls /\ call' # Idle
      /\ call'.links = call.links /\ call'.next = call.next
      /\ call'.kind = call.kind /\ call'.alive = call.alive
      /\ call'.pc # "accepted"
      /\ call'.known.digests \subseteq digests
      /\ call'.known.revoked_keys \subseteq revoked_keys
      /\ Digested' = Digested /\ Keyed' = Keyed
  <2>1. /\ Known \in KnownSets
        /\ call.known.digests \subseteq digests
        /\ call.known.revoked_keys \subseteq revoked_keys
    BY <1>1 DEF VerifierInv, VerifierTypeOK, RegistryInv, TypeOK
  <2>2. CASE ReadDigests
    <3>1. call' = [call EXCEPT !.pc = "read", !.known.digests = digests]
      BY <2>2 DEF ReadDigests, CallStep
    <3>2. /\ call'.pc = "read" /\ call'.known.digests = digests
          /\ call'.known.revoked_keys = call.known.revoked_keys
          /\ call' \in Calls
          /\ call'.links = call.links /\ call'.next = call.next
          /\ call'.kind = call.kind /\ call'.alive = call.alive
      BY <1>1, <2>1, <3>1 DEF Calls, KnownSets, Known
    <3>3. call' # Idle
      BY <3>2 DEF Idle
    <3> QED BY <1>2, <2>1, <2>2, <3>2, <3>3 DEF Digested, Keyed, ReadDigests
  <2>3. CASE ReadKeys
    <3>1. call' = [call EXCEPT !.pc = "checking", !.known.revoked_keys = revoked_keys]
      BY <2>3 DEF ReadKeys, CallStep
    <3>2. /\ call'.pc = "checking" /\ call'.known.revoked_keys = revoked_keys
          /\ call'.known.digests = call.known.digests
          /\ call' \in Calls
          /\ call'.links = call.links /\ call'.next = call.next
          /\ call'.kind = call.kind /\ call'.alive = call.alive
      BY <1>1, <2>1, <3>1 DEF Calls, KnownSets, Known
    <3>3. call' # Idle
      BY <3>2 DEF Idle
    <3> QED BY <1>2, <2>1, <2>3, <3>2, <3>3 DEF Digested, Keyed, ReadKeys
  <2> QED BY <2>2, <2>3
<1>4. VerifierTypeOK'
  BY <1>1, <1>2, <1>3 DEF VerifierInv, VerifierTypeOK
<1>5. PassedAreSound'
  BY <1>1, <1>2, <1>3 DEF VerifierInv, PassedAreSound
<1>6. DoomAhead'
  BY <1>1, <1>2, <1>3 DEF VerifierInv, DoomAhead, Doomed
<1> QED BY <1>2, <1>4, <1>5, <1>6 DEF VerifierInv

\* A call whose link stands goes on to the next.
LEMMA CheckLinkKeeps ==
  ASSUME VerifierInv, CheckLink
  PROVE  VerifierInv'
<1> DEFINE i == call.next
           stands == LinkStands(call.links, i, clock, LeewayOf(call.kind),
                                UnderstoodBy(call.kind), call.known)
<1>1. /\ call \in Calls /\ call # Idle /\ call.pc = "checking"
      /\ i \in Nat \ {0} /\ i <= Len(call.links)
  BY CallType DEF VerifierInv, CheckLink, Calls
<1>2. CASE ~stands
  BY <1>2, IdleIsFine DEF CheckLink
<1>3. CASE stands
  <2>1. CallStep([call EXCEPT !.next = @ + 1])
    BY <1>3 DEF CheckLink
  <2>2. /\ RegistryInv'
        /\ UNCHANGED <<clock, granted, digests, revoked_keys, synced_at>>
        /\ Presentable' = Presentable
        /\ call' = [call EXCEPT !.next = @ + 1]
    BY <2>1, CallStepKeepsRegistry
  <2>3. /\ call' \in Calls /\ call'.next = i + 1 /\ call'.pc = "checking"
        /\ call'.links = call.links /\ call'.kind = call.kind
        /\ call'.alive = call.alive /\ call'.known = call.known
    BY <1>1, <2>2 DEF Calls
  <2>4. call' # Idle
    BY <2>3 DEF Idle
  <2>5. Len(call.links) \in Nat /\ DOMAIN call.links = 1 .. Len(call.links)
    BY <1>1, ChainShape DEF VerifierInv, PassedAreSound
  <2>6. VerifierTypeOK'
    BY <1>1, <2>2, <2>3, <2>5 DEF VerifierInv, VerifierTypeOK
  <2>7. PassedAreSound'
    <3>1. SignedByIssuer(call.links[i]) /\ Follows(call.links, i)
      BY <1>3 DEF LinkStands, verify, Genuine
    <3>2. \A j \in 1 .. Len(call.links) : j < i + 1 => j < i \/ j = i
      BY <1>1, <2>5
    <3> HIDE DEF i
    <3> QED BY <1>1, <2>2, <2>3, <2>4, <2>5, <3>1, <3>2
        DEF VerifierInv, PassedAreSound, i
  <2>8. DoomAhead'
    <3>1. ~ Doomed(i)
      BY <1>1, <1>3 DEF LinkStands, verify, InWindow, Doomed, Spared, Digested, Keyed
    <3>2. Digested' = Digested /\ Keyed' = Keyed
      BY <1>1, <2>2, <2>3 DEF Digested, Keyed
    <3>3. \A j \in DOMAIN call.links : Doomed(j)' = Doomed(j)
      BY <2>2, <2>3, <3>2 DEF Doomed
    <3> SUFFICES ASSUME ~call.alive
                 PROVE  \E j \in DOMAIN call.links : j >= i + 1 /\ Doomed(j)'
      BY <2>3 DEF DoomAhead
    <3>4. PICK j \in DOMAIN call.links : j >= i /\ Doomed(j)
      BY <1>1 DEF VerifierInv, DoomAhead
    <3>5. j >= i + 1
      BY <1>1, <2>5, <3>1, <3>4
    <3> QED BY <3>3, <3>4, <3>5
  <2> QED BY <2>2, <2>6, <2>7, <2>8 DEF VerifierInv
<1> QED BY <1>2, <1>3

\* A call that has passed its last link.
LEMMA ConcludeKeeps ==
  ASSUME VerifierInv, Conclude
  PROVE  VerifierInv'
<1> DEFINE done == [call EXCEPT !.pc = "accepted", !.known = NothingKnown]
<1>1. /\ call \in Calls /\ call # Idle /\ call.pc = "checking"
      /\ call.next \in Nat /\ call.next > Len(call.links)
  BY CallType DEF VerifierInv, Conclude, Calls
<1>2. CASE CallStep(Idle)
  BY <1>2, IdleIsFine
<1>3. CASE /\ CallStep(done)
           /\ call.links # <<>> => Terminal(call.links) = call.agent
           /\ call.kind = "device" => DEVICE_SCOPE \in EffectiveScopes(call.links)
  <2>1. /\ RegistryInv'
        /\ UNCHANGED <<clock, granted, digests, revoked_keys, synced_at>>
        /\ Presentable' = Presentable
        /\ call' = done
    BY <1>3, CallStepKeepsRegistry
  <2>2. NothingKnown \in KnownSets
    BY DEF NothingKnown, KnownSets
  <2>3. /\ call' \in Calls /\ call'.next = call.next /\ call'.pc = "accepted"
        /\ call'.links = call.links /\ call'.kind = call.kind
        /\ call'.alive = call.alive /\ call'.known = NothingKnown
        /\ call'.agent = call.agent
    BY <1>1, <2>1, <2>2 DEF Calls
  <2>4. Len(call.links) \in Nat /\ DOMAIN call.links = 1 .. Len(call.links)
    BY <1>1, ChainShape DEF VerifierInv, PassedAreSound
  <2>5. VerifierTypeOK'
    BY <1>1, <2>1, <2>3 DEF VerifierInv, VerifierTypeOK, NothingKnown
  <2>6. PassedAreSound'
    <3>1. \A j \in DOMAIN call.links : j < call.next
      BY <1>1, <2>4
    <3> QED BY <1>1, <1>3, <2>1, <2>3, <3>1 DEF VerifierInv, PassedAreSound
  <2>7. DoomAhead'
    <3>1. call.alive
      BY <1>1, <2>4 DEF VerifierInv, DoomAhead
    <3> QED BY <2>3, <3>1 DEF DoomAhead
  <2> QED BY <2>1, <2>5, <2>6, <2>7 DEF VerifierInv
<1> QED BY <1>2, <1>3 DEF Conclude

LEMMA VerifierStep == VerifierInv /\ [VerifierNext]_verifierVars => VerifierInv'
<1> SUFFICES ASSUME VerifierInv, [VerifierNext]_verifierVars PROVE VerifierInv'
  OBVIOUS
<1> USE DEF VerifierInv
<1>1. CASE Learning /\ UNCHANGED <<synced_at, call>>
  <2>1. RegistryInv'
    BY <1>1, RegistryStep DEF Learning, Next
  <2> QED BY <1>1, <2>1, LearningGrows, LearningKeepsCalls DEF VerifierTypeOK
<1>2. CASE MarkSynced
  <2>1. UNCHANGED <<clock, granted, digests, revoked_keys, call>>
    BY <1>2 DEF MarkSynced, vars, registryVars
  <2>2. RegistryInv'
    BY <1>2, RegistryStep DEF MarkSynced
  <2>3. clock \in Nat /\ synced_at' \in 0 .. MaxTime \cup {None}
    BY <1>2 DEF MarkSynced, RegistryInv, TypeOK
  <2> QED BY <2>1, <2>2, <2>3, LearningKeepsCalls
<1>3. CASE StopAndRestore
  <2>1. RegistryInv'
    BY <1>3, RegistryStep DEF StopAndRestore, Next
  <2>2. call' = Idle /\ synced_at' = None
    BY <1>3 DEF StopAndRestore
  <2> QED BY <2>1, <2>2 DEF VerifierTypeOK, DoomAhead, PassedAreSound
<1>4. ASSUME NEW links \in Presentable, NEW agent \in Addresses,
             \/ VerifyChain(links, agent)
             \/ \E identity \in Addresses, max_age \in MaxAges :
                  VerifyDevice(links, identity, agent, max_age)
      PROVE  VerifierInv'
  BY <1>4, BeginKeeps DEF VerifyChain, VerifyDevice
<1>5. CASE ReadDigests \/ ReadKeys
  BY <1>5, ReadKeeps
<1>6. CASE CheckLink
  BY <1>6, CheckLinkKeeps
<1>7. CASE Conclude
  BY <1>7, ConcludeKeeps
<1>8. CASE Return
  BY <1>8, IdleIsFine DEF Return
<1>9. CASE UNCHANGED verifierVars
  <2>1. UNCHANGED vars /\ UNCHANGED synced_at /\ UNCHANGED call
    BY <1>9 DEF verifierVars
  <2>2. RegistryInv'
    BY <2>1, RegistryStep
  <2>3. clock \in Nat
    BY DEF RegistryInv, TypeOK
  <2> QED BY <2>1, <2>2, <2>3, LearningKeepsCalls DEF vars, registryVars, VerifierTypeOK
<1> QED BY <1>1, <1>2, <1>3, <1>4, <1>5, <1>6, <1>7, <1>8, <1>9 DEF VerifierNext

LEMMA VerifierInvariance == VerifierSpec => []VerifierInv
BY InitVerifier, VerifierStep, PTL DEF VerifierSpec

\* A call that is under way remembers only what still holds.
THEOREM VerifierTypeCorrect == VerifierSpec => []VerifierTypeOK
<1>1. VerifierInv => VerifierTypeOK
  BY DEF VerifierInv
<1> QED BY <1>1, VerifierInvariance, PTL

\* Reading the registry in two parts, and the clock link by link, loses no
\* recall and no expiry that came before the call.
THEOREM VerificationHonoursRecalls == VerifierSpec => []AcceptedWasAlive
<1>1. VerifierInv => AcceptedWasAlive
  BY CallType DEF VerifierInv, AcceptedWasAlive, DoomAhead
<1> QED BY <1>1, VerifierInvariance, PTL

\* No verification returns a scope that was not lent all the way.
THEOREM AuthorityOnlyNarrows == VerifierSpec => []AcceptedIsLent
<1>1. ASSUME VerifierInv PROVE AcceptedIsLent
  <2> SUFFICES ASSUME call.pc = "accepted"
               PROVE  /\ \A s \in Returned :
                           Joined(Lends({s}), root_issuer(call.links), call.agent)
                      /\ call.kind = "device" =>
                           Joined(Lends({DEVICE_SCOPE}), root_issuer(call.links),
                                  call.agent)
    BY DEF AcceptedIsLent
  <2>1. call # Idle /\ granted \subseteq Delegations
    BY <1>1, CallType DEF VerifierInv, RegistryInv, TypeOK
  <2>2. ASSUME NEW s \in EffectiveScopes(call.links)
        PROVE  Joined(Lends({s}), root_issuer(call.links), call.agent)
    <3>1. /\ call.links # <<>>
          /\ \A i \in DOMAIN call.links : {s} \subseteq call.links[i].scopes
      BY <2>2 DEF EffectiveScopes
    <3>2. /\ call.links \in Presentable
          /\ Terminal(call.links) = call.agent
          /\ \A i \in DOMAIN call.links :
               SignedByIssuer(call.links[i]) /\ Follows(call.links, i)
      BY <1>1, <2>1, <3>1 DEF VerifierInv, PassedAreSound
    <3>3. Joined(Lends({s}), root_issuer(call.links), Terminal(call.links))
      BY <2>1, <3>1, <3>2, ChainIsPath
    <3> QED BY <3>2, <3>3
  <2>3. call.kind = "device" => DEVICE_SCOPE \in EffectiveScopes(call.links)
    BY <1>1, <2>1 DEF VerifierInv, PassedAreSound
  <2> QED BY <2>2, <2>3 DEF Returned
<1> QED BY <1>1, VerifierInvariance, PTL
=============================================================================
