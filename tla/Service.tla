------------------------------- MODULE Service -------------------------------
(***************************************************************************)
(* A service that lets agents in by proof of possession, as the README of  *)
(* the package and examples/python/02_proof_of_possession.py use it: its   *)
(* workers issue challenges, receive responses, consume the challenge and  *)
(* verify the response for their own audience. To an agent that is proved  *)
(* they then seal a message by the card it presents, or settle a payment   *)
(* by the spend scopes of its chain and enter it in books they share.      *)
(*                                                                         *)
(* The network keeps everything that is sent and delivers it any number of *)
(* times, to whichever worker of whichever service. Between a holder and a *)
(* service stands whoever likes: a holder may be shown a challenge as if   *)
(* it came from somebody else or were for something else. Whoever has seen *)
(* a challenge can answer it, in any name, with the keys he has.           *)
(***************************************************************************)
EXTENDS ChallengeStore, Card, Spend, Sequences

CONSTANTS
  Leeway,     \* leeway_seconds of verifications
  HeldBy,     \* the spend scopes of the links of each chain an agent holds
  Agents,     \* addresses whose holders answer in their own name
  Impostors,  \* keys with which others answer in the names of agents
  Amounts     \* what agents ask to pay

ASSUME LeewayAssumption == Leeway \in Nat
ASSUME HeldByAssumption ==
  HeldBy \in [Agents -> SUBSET Seq(SUBSET SpendScopes)]
ASSUME AgentsAssumption == Agents \subseteq Addresses
ASSUME ImpostorsAssumption == Impostors \subseteq Addresses
ASSUME AmountsAssumption == Amounts \subseteq Int

VARIABLES
  session,  \* what each worker knows of the agent it serves
  spent     \* the books: what each agent has paid in each asset

vars == <<storeVars, session, spent>>

Closed == [pc |-> "closed"]

Init ==
  /\ StoreInit
  /\ session = [w \in Workers |-> Closed]
  /\ spent = [agent \in Agents |-> [asset \in Assets |-> 0]]

-----------------------------------------------------------------------------
(* Proof of possession                                                     *)

\* What a challenge may look like to a holder.
Shown(challenge) ==
  {[challenge EXCEPT !.audience = audience] : audience \in Audiences}
    \cup {[challenge EXCEPT !.purpose = purpose] : purpose \in Purposes}

\* Every response to a challenge that was offered.
Answers(id) ==
  LET shown == Shown(offered[id].challenge)
  IN {create(agent, agent, c) : agent \in Agents, c \in shown}
       \cup {create(keys, agent, c) : keys \in Impostors, agent \in Agents, c \in shown}

Issuing(w) ==
  /\ session[w] = Closed
  /\ Draft(w) \/ Insert(w) \/ SetLost(w)
  /\ UNCHANGED <<session, spent>>

Receive(w, response) ==
  /\ session[w] = Closed
  /\ Consume(w, response.challenge_id)
  /\ session' = [session EXCEPT ![w] = [pc |-> "received", response |-> response]]
  /\ UNCHANGED spent

Obtain(w) ==
  /\ HandOut(w)
  /\ UNCHANGED <<session, spent>>

\* consume returned None, or the connection broke.
GoWithout(w) ==
  /\ Withhold(w) \/ ReplyLost(w)
  /\ session' = [session EXCEPT ![w] = Closed]
  /\ UNCHANGED spent

Accepts(w) ==
  verify(session[w].response, call[w].challenge, AudienceOf[w], Wall(w), Leeway)

Accept(w) ==
  /\ Release(w)
  /\ Accepts(w)
  /\ session' = [session EXCEPT ![w].pc = "proved"]
  /\ UNCHANGED spent

Refuse(w) ==
  /\ Release(w)
  /\ ~Accepts(w)
  /\ session' = [session EXCEPT ![w] = Closed]
  /\ UNCHANGED spent

-----------------------------------------------------------------------------
(* What a proof is good for                                                *)

Proven(w) == session[w].response.address

\* The holder of an address makes cards with agreement keys of his own; others
\* make what they like, short of his signature.
CardsSeen ==
  {c \in AgentCards :
     c.signature = c.address =>
       \E prekey \in {c.address, None} : c = card(c.address, prekey, c.critical)}

Seal(w, agent_card) ==
  /\ session[w].pc = "proved"
  /\ resolves(Proven(w), agent_card)
  /\ session' = [session EXCEPT ![w] = Closed]
  /\ UNCHANGED <<storeVars, spent>>

\* SpendAuthority.verify, asked with what the books say at this moment.
Authorise(w, links_scopes, asset, amount) ==
  LET agent == Proven(w)
      spent_so_far == spent[agent][asset]
  IN /\ session[w].pc = "proved"
     /\ links_scopes \in HeldBy[agent]
     /\ MayPay(links_scopes, asset, amount, spent_so_far)
     /\ session' = [session EXCEPT ![w] =
          [pc |-> "paying", agent |-> agent, links_scopes |-> links_scopes,
           asset |-> asset, amount |-> amount, spent_so_far |-> spent_so_far]]
  /\ UNCHANGED <<storeVars, spent>>

\* The service books the payment that it settled. It keeps its books exactly,
\* and nothing keeps other workers from them in the meantime.
Book(w) ==
  LET payment == session[w]
  IN /\ payment.pc = "paying"
     /\ spent' = [spent EXCEPT ![payment.agent][payment.asset] = @ + payment.amount]
     /\ session' = [session EXCEPT ![w] = Closed]
  /\ UNCHANGED storeVars

-----------------------------------------------------------------------------

\* The books are durable; a payment that was not entered in them is not made.
Fail(w) ==
  /\ Stop(w)
  /\ session' = [session EXCEPT ![w] = Closed]
  /\ UNCHANGED spent

Environment ==
  /\ Tick \/ Vanish \/ \E w \in Workers : AdjustClock(w) \/ Prune(w)
  /\ UNCHANGED <<session, spent>>

Proving(w) ==
  \/ \E id \in DOMAIN offered : \E response \in Answers(id) : Receive(w, response)
  \/ Obtain(w)
  \/ GoWithout(w)
  \/ Accept(w)
  \/ Refuse(w)

Serving(w) ==
  \/ \E agent_card \in CardsSeen : Seal(w, agent_card)
  \/ \E links_scopes \in UNION {HeldBy[agent] : agent \in Agents} :
       \E asset \in Assets, amount \in Amounts : Authorise(w, links_scopes, asset, amount)
  \/ Book(w)

Next ==
  \/ Environment
  \/ \E w \in Workers : Issuing(w) \/ Proving(w) \/ Serving(w) \/ Fail(w)

Spec == Init /\ [][Next]_vars

-----------------------------------------------------------------------------
(* Properties                                                              *)

Sessions ==
  [pc : {"received", "proved"}, response : {r \in Responses : r.address \in Agents}]
    \cup [pc : {"paying"}, agent : Agents, asset : Assets,
          links_scopes : UNION {HeldBy[agent] : agent \in Agents},
          amount : Nat, spent_so_far : Nat]
    \cup {Closed}

\* A worker has received a response exactly as long as it is consuming the
\* challenge, and everything is what it should be.
TypeOK ==
  /\ StoreTypeOK
  /\ session \in [Workers -> Sessions]
  /\ spent \in [Agents -> [Assets -> Nat]]
  /\ \A w \in Workers :
       session[w].pc = "received" <=> call[w].pc \in {"fetched", "holding"}

\* "A proof collected by one service can never be replayed to another"
\* (02_proof_of_possession.py): what a worker accepts as proof for an address is
\* what the holder of that address answers to a challenge of the worker's own
\* service, shown to him as it was issued, although challenges of several
\* services lie in one store and responses are delivered to all of them.
AcceptedIsMeant ==
  \A w \in Workers : session[w].pc = "proved" =>
    LET response == session[w].response
        challenge == offered[response.challenge_id].challenge
    IN /\ response.challenge_id \in DOMAIN offered
       /\ challenge.audience = AudienceOf[w]
       /\ response = create(response.address, response.address, challenge)

\* "Never hand back an expired challenge" (RedisChallengeStore.consume), and
\* expiry "so a short-TTL challenge isn't rejected purely because the two
\* clocks disagree" (Challenge.is_expired): in real time a challenge is handed
\* out less than its TTL after issue returned it, in memory whatever the wall
\* clocks do and with Redis within the difference they can have, and a proof
\* is accepted within that difference and the leeway.
AcceptedInTime ==
  [][\A w \in Workers :
       LET age == now - offered[session'[w].response.challenge_id].at
       IN /\ call[w].pc # "holding" /\ call'[w].pc = "holding" =>
               age < TTL + (IF shared THEN MaxAhead ELSE 0)
          /\ session[w].pc # "proved" /\ session'[w].pc = "proved" =>
               age < TTL + MaxAhead + Leeway]_vars

\* Only the holder of an address opens what is sealed to an agent that proved
\* that address, whichever card came with the proof (resolve, did.py).
SealedForProven ==
  [][\A w \in Workers : session[w].pc = "proved" =>
       \A c \in CardsSeen : Seal(w, c) => seal_target(c) = Proven(w)]_vars

\* A total that is within a cap as far as a rounded sum can tell: exactly, if the
\* cap has no more digits than a sum keeps, and otherwise to half of the last
\* place it keeps.
WithinPrecision(total, cap) ==
  cap # None =>
    IF cap < ExactBelow THEN total <= cap ELSE 2 * (total - cap) <= LastPlace(total)

\* Nothing else was booked on the same account since verify was asked.
BooksCurrent(payment) == spent[payment.agent][payment.asset] = payment.spent_so_far

\* "A delegate can therefore never spend more than ANY of its delegators
\* allowed" (spend.py), as far as Decimal sums go: when a payment is booked, it
\* exceeds no cap of any link of the chain it was made under, every link has a
\* scope for it, and all the agent has spent then exceeds no cap by more than the
\* rounding, unless another payment was booked since spent_so_far was read.
PaidWithinEveryCap ==
  [][\A w \in Workers : Book(w) =>
       LET payment == session[w]
       IN \A i \in DOMAIN payment.links_scopes :
            LET scopes == About(payment.links_scopes[i], payment.asset)
            IN /\ scopes # {}
               /\ \A s \in scopes :
                    /\ Within(payment.amount, s.tx_cap)
                    /\ BooksCurrent(payment) =>
                         WithinPrecision(spent'[payment.agent][payment.asset], s.total_cap)]_vars

\* The same sentence taken at its word: a payment that was verified against the
\* books as they are takes no account past a total cap.
NeverSpendsMore ==
  [][\A w \in Workers : Book(w) /\ BooksCurrent(session[w]) =>
       LET payment == session[w]
       IN \A i \in DOMAIN payment.links_scopes :
            \A s \in About(payment.links_scopes[i], payment.asset) :
              Within(spent'[payment.agent][payment.asset], s.total_cap)]_vars
=============================================================================
