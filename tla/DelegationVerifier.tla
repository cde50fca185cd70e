-------------------------- MODULE DelegationVerifier --------------------------
(***************************************************************************)
(* A call of verify_device (src/fg_agent_id/device.py), or of              *)
(* DelegationChain.verify with a registry's two sets, that runs while      *)
(* other threads teach the registry and time passes. The registry has no   *)
(* lock: a call reads its digests, then its revoked keys, and looks at the *)
(* clock once for each link. Calls only read, so one of them stands for    *)
(* any number.                                                             *)
(***************************************************************************)
EXTENDS DelegationRegistry

CONSTANT MaxAges   \* max_registry_age_seconds of a call of verify_device

ASSUME MaxAgesAssumption == MaxAges \subseteq Nat \cup {None}

VARIABLES
  synced_at,   \* _synced_at
  call         \* the call in progress

verifierVars == <<vars, synced_at, call>>

Idle == [pc |-> "idle"]

VerifierInit == Init /\ synced_at = None /\ call = Idle

MarkSynced ==
  /\ synced_at' = clock
  /\ UNCHANGED <<vars, call>>

\* require_fresh, when the caller gives a bound.
Fresh(max_age) ==
  max_age # None => synced_at # None /\ clock - synced_at <= max_age

\* Mutant: a call outlives the registry it has read.
StopAndRestore_CallSurvives ==
  /\ Restart
  /\ synced_at' = None
  /\ UNCHANGED call

\* The process stops and its call with it; snapshots hold no synced_at.
StopAndRestore ==
  /\ Restart
  /\ synced_at' = None
  /\ call' = Idle

-----------------------------------------------------------------------------
(* The steps of a call                                                     *)

CallStep(new) == call' = new /\ UNCHANGED <<vars, synced_at>>

LeewayOf(kind) == IF kind = "device" THEN 0 ELSE Leeway
UnderstoodBy(kind) == IF kind = "device" THEN {} ELSE Understood

\* Whether a chain is unrecalled and unexpired, as the registry and the clock
\* have it.
Alive(links, leeway) ==
  \A i \in DOMAIN links :
    Spared(links[i], Known) /\ Unexpired(links[i], clock, leeway)

\* A call keeps what it has read of the registry and the link it is at.
\* `alive' is auxiliary: how the chain stood when the call began.
Begin(kind, links, agent) ==
  /\ call.pc = "idle"
  /\ CallStep([pc |-> "begun", kind |-> kind, links |-> links, agent |-> agent,
               known |-> NothingKnown, next |-> 1,
               alive |-> Alive(links, LeewayOf(kind))])

VerifyChain(links, agent) == Begin("chain", links, agent)

\* verify_device before it reads the registry. It raises on an empty chain,
\* one that does not root at the identity, and a registry that is too old.
VerifyDevice(links, identity, device, max_age) ==
  /\ links # <<>>
  /\ root_issuer(links) = identity
  /\ Fresh(max_age)
  /\ Begin("device", links, device)

ReadDigests ==
  /\ call.pc = "begun"
  /\ CallStep([call EXCEPT !.pc = "read", !.known.digests = digests])

\* Mutant: the revoked keys are not consulted.
ReadKeys_Ignored ==
  /\ call.pc = "read"
  /\ CallStep([call EXCEPT !.pc = "checking"])

ReadKeys ==
  /\ call.pc = "read"
  /\ CallStep([call EXCEPT !.pc = "checking", !.known.revoked_keys = revoked_keys])

\* One pass of the loop, with a clock of its own; it raises or goes on.
CheckLink ==
  /\ call.pc = "checking"
  /\ call.next <= Len(call.links)
  /\ CallStep(IF LinkStands(call.links, call.next, clock, LeewayOf(call.kind),
                            UnderstoodBy(call.kind), call.known)
              THEN [call EXCEPT !.next = @ + 1] ELSE Idle)

\* After the loop: the chain must end at the agent, and a device's chain must
\* carry the marker.
Conclude ==
  /\ call.pc = "checking"
  /\ call.next > Len(call.links)
  /\ CallStep(IF /\ call.links # <<>> => Terminal(call.links) = call.agent
                 /\ call.kind = "device" =>
                      DEVICE_SCOPE \in EffectiveScopes(call.links)
              THEN [call EXCEPT !.pc = "accepted", !.known = NothingKnown]
              ELSE Idle)

\* The scopes an accepted call returns.
Returned ==
  IF call.kind = "device" THEN EffectiveScopes(call.links) \ {DEVICE_SCOPE}
                          ELSE EffectiveScopes(call.links)

Return ==
  /\ call.pc = "accepted"
  /\ CallStep(Idle)

-----------------------------------------------------------------------------

Learning ==
  \/ Tick
  \/ Granting
  \/ Recalling
  \/ Persisting

VerifierNext ==
  \/ Learning /\ UNCHANGED <<synced_at, call>>
  \/ MarkSynced
  \/ StopAndRestore
  \/ \E links \in Presentable, agent \in Addresses :
       \/ VerifyChain(links, agent)
       \/ \E identity \in Addresses, max_age \in MaxAges :
            VerifyDevice(links, identity, agent, max_age)
  \/ ReadDigests
  \/ ReadKeys
  \/ CheckLink
  \/ Conclude
  \/ Return

VerifierSpec == VerifierInit /\ [][VerifierNext]_verifierVars

-----------------------------------------------------------------------------
(* Properties                                                              *)

Calls ==
  [pc : {"begun", "read", "checking", "accepted"}, kind : {"chain", "device"},
   links : Chains, agent : Addresses, known : KnownSets, next : Nat \ {0},
   alive : BOOLEAN]

\* A call is at one of its links or past the last, and all it remembers of the
\* registry is still so.
VerifierTypeOK ==
  /\ synced_at \in 0 .. MaxTime \cup {None}
  /\ call \in Calls \cup {Idle}
  /\ call # Idle =>
       /\ call.next <= Len(call.links) + 1
       /\ call.known.digests \subseteq digests
       /\ call.known.revoked_keys \subseteq revoked_keys

\* "A delegate can never hold more authority than its delegator granted" (SPEC
\* section 5): every scope a verification returns was handed down from the
\* root to the agent by grants that carry that scope and were made by the
\* holders of the keys they name. A device acts only where the marker was
\* handed down as well.
AcceptedIsLent ==
  call.pc = "accepted" =>
    /\ \A s \in Returned :
         Joined(Lends({s}), root_issuer(call.links), call.agent)
    /\ call.kind = "device" =>
         Joined(Lends({DEVICE_SCOPE}), root_issuer(call.links), call.agent)

\* "Consults ``registry`` for both delegation and identity-key revocation"
\* (verify_device): a verification accepts nothing that was
\* already recalled or expired when it began, although it reads the registry
\* and the clock at several moments while both change.
AcceptedWasAlive == call.pc = "accepted" => call.alive
=============================================================================
