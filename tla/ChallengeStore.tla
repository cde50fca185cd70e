---------------------------- MODULE ChallengeStore ----------------------------
(***************************************************************************)
(* The challenge stores of src/fg_agent_id/challenge_store.py, used by the *)
(* workers of services: an InMemoryChallengeStore in each worker, or one   *)
(* RedisChallengeStore that all of them share, whichever services they     *)
(* work for.                                                               *)
(*                                                                         *)
(* `now' is real time, which time.monotonic and the Redis server measure.  *)
(* The wall clock of a worker may be ahead of it, and be adjusted at any   *)
(* moment. A challenge expires by wall clocks: that of the worker that     *)
(* issues it and that of the worker that consumes it. An entry expires by  *)
(* real time.                                                              *)
(*                                                                         *)
(* A worker is a thread that is in one call at a time. In memory its       *)
(* methods hold a lock, so each is one action but for the clocks that      *)
(* issue reads first. With Redis, every command is a step, and so is the   *)
(* reply to a GETDEL; a SET and its reply are one step, or fail as one.    *)
(***************************************************************************)
EXTENDS ProofOfPossession, FiniteSets

CONSTANTS
  Workers,
  AudienceOf,   \* the service each worker works for
  PurposeOf,    \* what it asks proofs for
  Redis,        \* the store that is shared
  TTL,          \* ttl_seconds of every store
  Adjusted,     \* workers whose wall clock is adjusted
  MaxAhead,     \* bound: how far a wall clock is ahead
  MaxTime       \* bound: the last instant

ASSUME AudienceOfAssumption == AudienceOf \in [Workers -> Audiences]
ASSUME PurposeOfAssumption == PurposeOf \in [Workers -> Purposes]
ASSUME RedisAssumption == Redis \notin Workers
ASSUME TTLAssumption == TTL \in Nat
ASSUME AdjustedAssumption == Adjusted \subseteq Workers
ASSUME MaxAheadAssumption == MaxAhead \in Nat
ASSUME MaxTimeAssumption == MaxTime \in Nat

VARIABLES
  shared,    \* whether the deployment has one store or one for each worker
  now,       \* real time
  ahead,     \* how far the wall clock of each worker is ahead
  entries,   \* _entries of each worker, and what Redis holds
  call,      \* the call each worker is in
  offered,   \* auxiliary: the challenges issue returned, and when
  handed     \* auxiliary: how often consume returned each

storeVars == <<shared, now, ahead, entries, call, offered, handed>>
clockVars == <<shared, now, ahead>>

Stores == Workers \cup {Redis}

Idle == [pc |-> "idle"]

Wall(w) == now + ahead[w]

StoreInit ==
  /\ shared \in BOOLEAN
  /\ now = 0
  /\ ahead = [w \in Workers |-> 0]
  /\ entries = [s \in Stores |-> {}]
  /\ call = [w \in Workers |-> Idle]
  /\ offered = <<>>
  /\ handed = [id \in ChallengeIds |-> 0]

-----------------------------------------------------------------------------
(* Clocks                                                                  *)

Tick ==
  /\ now < MaxTime
  /\ now' = now + 1
  /\ UNCHANGED <<shared, ahead, entries, call, offered, handed>>

AdjustClock(w) ==
  /\ w \in Adjusted
  /\ \E d \in 0 .. MaxAhead : ahead' = [ahead EXCEPT ![w] = d]
  /\ UNCHANGED <<shared, now, entries, call, offered, handed>>

-----------------------------------------------------------------------------
(* issue                                                                   *)

Drafted == {w \in Workers : call[w].pc = "drafted"}

\* uuid4 repeats itself as little as the nonce does.
Fresh(id) ==
  id \notin DOMAIN offered /\ \A w \in Drafted : call[w].challenge.challenge_id # id

\* Challenge.issue, by the wall clock.
Draft(w) ==
  /\ call[w] = Idle
  /\ \E id \in ChallengeIds :
       /\ Fresh(id)
       /\ call' = [call EXCEPT ![w] =
            [pc |-> "drafted", at |-> now,
             challenge |-> issue(id, AudienceOf[w], PurposeOf[w], TTL, Wall(w))]]
  /\ UNCHANGED <<clockVars, entries, offered, handed>>

\* Mutant: an entry lives through its last instant.
Live_AtDeadline(w) == {e \in entries[w] : now <= e.deadline}

\* What _prune_locked leaves.
Live(w) == {e \in entries[w] : now < e.deadline}

Entry(challenge, deadline) == [challenge |-> challenge, deadline |-> deadline]

\* The entry is in, and issue returns the challenge.
Offer(w) ==
  LET challenge == call[w].challenge
  IN offered' = [id \in DOMAIN offered \cup {challenge.challenge_id} |->
                   IF id \in DOMAIN offered THEN offered[id]
                   ELSE [challenge |-> challenge, at |-> now]]
  /\ call' = [call EXCEPT ![w] = Idle]
  /\ UNCHANGED <<clockVars, handed>>

\* In memory: the monotonic clock is read after the wall clock and before the
\* lock is taken, at any moment since the draft.
Put(w) ==
  /\ call[w].pc = "drafted"
  /\ ~shared
  /\ \E read \in call[w].at .. now :
       entries' = [entries EXCEPT ![w] = Live(w) \cup {Entry(call[w].challenge, read + TTL)}]
  /\ Offer(w)

\* Redis counts PX from its SET. Until the reply nobody but the worker has the
\* id, so the reply is no step of its own.
Set(w) ==
  /\ call[w].pc = "drafted"
  /\ shared
  /\ entries' = [entries EXCEPT ![Redis] = @ \cup {Entry(call[w].challenge, now + TTL)}]
  /\ Offer(w)

Insert(w) == Put(w) \/ Set(w)

\* The connection breaks before the SET or before its reply, and issue raises. An
\* entry that is left has an id that nobody was given; it is not recorded.
SetLost(w) ==
  /\ call[w].pc = "drafted"
  /\ shared
  /\ call' = [call EXCEPT ![w] = Idle]
  /\ UNCHANGED <<clockVars, entries, offered, handed>>

-----------------------------------------------------------------------------
(* consume                                                                 *)

IdOf(e) == e.challenge.challenge_id

Holding(challenge) == [pc |-> "holding", challenge |-> challenge]

HandedOnceMore(id) == handed' = [handed EXCEPT ![id] = @ + 1]

\* In memory: prune, then pop.
Pop(w, id) ==
  /\ call[w] = Idle
  /\ ~shared
  /\ \E e \in Live(w) :
       /\ IdOf(e) = id
       /\ entries' = [entries EXCEPT ![w] = Live(w) \ {e}]
       /\ call' = [call EXCEPT ![w] = Holding(e.challenge)]
       /\ HandedOnceMore(id)
  /\ UNCHANGED <<clockVars, offered>>

\* In memory, when there is nothing to pop; and len().
Prune(w) ==
  /\ call[w] = Idle
  /\ ~shared
  /\ entries' = [entries EXCEPT ![w] = Live(w)]
  /\ UNCHANGED <<clockVars, call, offered, handed>>

\* Mutant: GET, and the key is left to expire.
GetDel_Get(w, id) ==
  /\ call[w] = Idle
  /\ shared
  /\ \E e \in entries[Redis] :
       /\ IdOf(e) = id
       /\ call' = [call EXCEPT ![w] = [pc |-> "fetched", challenge |-> e.challenge]]
  /\ UNCHANGED <<clockVars, entries, offered, handed>>

\* The server removes and returns the value, which is then on its way. Without
\* one the worker is told so, and nothing changes.
GetDel(w, id) ==
  /\ call[w] = Idle
  /\ shared
  /\ \E e \in entries[Redis] :
       /\ IdOf(e) = id
       /\ entries' = [entries EXCEPT ![Redis] = @ \ {e}]
       /\ call' = [call EXCEPT ![w] = [pc |-> "fetched", challenge |-> e.challenge]]
  /\ UNCHANGED <<clockVars, offered, handed>>

Consume(w, id) == Pop(w, id) \/ GetDel(w, id)

\* The value arrives, and is handed out unless it has expired by now.
HandOut(w) ==
  /\ call[w].pc = "fetched"
  /\ ~is_expired(call[w].challenge, Wall(w), 0)
  /\ call' = [call EXCEPT ![w] = Holding(@.challenge)]
  /\ HandedOnceMore(IdOf(call[w]))
  /\ UNCHANGED <<clockVars, entries, offered>>

Withhold(w) ==
  /\ call[w].pc = "fetched"
  /\ is_expired(call[w].challenge, Wall(w), 0)
  /\ call' = [call EXCEPT ![w] = Idle]
  /\ UNCHANGED <<clockVars, entries, offered, handed>>

\* The caller is done with the challenge.
Release(w) ==
  /\ call[w].pc = "holding"
  /\ call' = [call EXCEPT ![w] = Idle]
  /\ UNCHANGED <<clockVars, entries, offered, handed>>

-----------------------------------------------------------------------------
(* What fails                                                              *)

\* The connection breaks while the value is on its way, and getdel raises.
ReplyLost(w) ==
  /\ call[w].pc = "fetched"
  /\ call' = [call EXCEPT ![w] = Idle]
  /\ UNCHANGED <<clockVars, entries, offered, handed>>

\* The worker's process stops, with its call and its memory.
Stop(w) ==
  /\ call' = [call EXCEPT ![w] = Idle]
  /\ entries' = [entries EXCEPT ![w] = {}]
  /\ UNCHANGED <<clockVars, offered, handed>>

\* Redis drops a key: when its PX has passed, or later, or before that because
\* it runs out of memory or restarts.
Vanish ==
  /\ \E e \in entries[Redis] : entries' = [entries EXCEPT ![Redis] = @ \ {e}]
  /\ UNCHANGED <<clockVars, call, offered, handed>>

-----------------------------------------------------------------------------
(* Properties                                                              *)

StoreCalls ==
  [pc : {"drafted"}, at : 0 .. MaxTime, challenge : Challenges]
    \cup [pc : {"fetched", "holding"}, challenge : Challenges]
    \cup {Idle}

\* Every challenge that is held or was offered is a challenge, and only one of
\* the two kinds of store is in use.
StoreTypeOK ==
  /\ shared \in BOOLEAN
  /\ now \in 0 .. MaxTime
  /\ ahead \in [Workers -> 0 .. MaxAhead]
  /\ entries \in [Stores -> SUBSET [challenge : Challenges, deadline : Int]]
  /\ \A s \in Stores : entries[s] # {} => shared = (s = Redis)
  /\ call \in [Workers -> StoreCalls]
  /\ DOMAIN offered \subseteq ChallengeIds
  /\ offered \in [DOMAIN offered -> [challenge : Challenges, at : 0 .. MaxTime]]
  /\ handed \in [ChallengeIds -> Nat]

Fetched == {w \in Workers : call[w].pc = "fetched"}

\* What may still be handed out: what a store holds and what a worker has
\* fetched and not yet looked at.
Open ==
  {IdOf(e) : e \in UNION {entries[s] : s \in Stores}}
    \cup {IdOf(call[w]) : w \in Fetched}

Abstract == INSTANCE OnceStore WITH open <- Open

\* "A challenge returned once MUST never be returned again"
\* (ChallengeStoreBase.consume): both stores are once-only stores, although
\* workers race for a challenge, replies are lost, processes stop and Redis
\* forgets.
RefinesOnceStore == Abstract!Spec
=============================================================================
