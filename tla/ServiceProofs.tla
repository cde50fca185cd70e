---------------------------- MODULE ServiceProofs ----------------------------
(***************************************************************************)
(* Theorems about ChallengeStore and Service, for every number of workers, *)
(* services, agents and challenges, whatever the clocks do.                *)
(***************************************************************************)
EXTENDS Service, NatLemmas, TLAPS

USE AudienceOfAssumption, PurposeOfAssumption, RedisAssumption, TTLAssumption,
    AdjustedAssumption, MaxAheadAssumption, MaxTimeAssumption

-----------------------------------------------------------------------------
(* The stores                                                              *)

IsOffered(challenge) ==
  /\ challenge.challenge_id \in DOMAIN offered
  /\ offered[challenge.challenge_id].challenge = challenge

\* What lies in a store or in a consumer's hands is what issue returned.
HeldAsOffered ==
  /\ \A s \in Stores : \A e \in entries[s] : IsOffered(e.challenge)
  /\ \A w \in Workers :
       call[w].pc \in {"fetched", "holding"} => IsOffered(call[w].challenge)

\* A challenge lies in one place: a store, or the hands that fetched it, from
\* Redis.
OnePlace ==
  /\ Fetched # {} => shared
  /\ \A s, t \in Stores : \A e \in entries[s], f \in entries[t] :
       IdOf(e) = IdOf(f) => s = t /\ e = f
  /\ \A s \in Stores, w \in Fetched : \A e \in entries[s] : IdOf(e) # IdOf(call[w])
  /\ \A v, w \in Fetched : IdOf(call[v]) = IdOf(call[w]) => v = w

\* No draft has the id of a challenge that was offered or of another draft.
DraftsNew ==
  /\ \A w \in Drafted : IdOf(call[w]) \notin DOMAIN offered
  /\ \A v, w \in Drafted : IdOf(call[v]) = IdOf(call[w]) => v = w

\* Nothing is handed out twice, or lies anywhere once it is.
HandedOnce ==
  \A id \in ChallengeIds :
    /\ handed[id] \in {0, 1}
    /\ id \in Open \/ id \notin DOMAIN offered => handed[id] = 0

\* How late an entry and a challenge may still be good, in real time.
Deadlines ==
  /\ \A w \in Workers : \A e \in entries[w] : e.deadline <= offered[IdOf(e)].at + TTL
  /\ \A w \in Drafted :
       call[w].at <= now /\ call[w].challenge.expires_at <= call[w].at + MaxAhead + TTL
  /\ \A id \in DOMAIN offered :
       offered[id].challenge.expires_at <= offered[id].at + MaxAhead + TTL

StoreInv ==
  StoreTypeOK /\ HeldAsOffered /\ OnePlace /\ DraftsNew /\ HandedOnce /\ Deadlines

\* The call a worker is in, by its place.
LEMMA StoreCallShape ==
  ASSUME NEW c \in StoreCalls
  PROVE  /\ c.pc \in {"idle", "drafted", "fetched", "holding"}
         /\ c.pc = "idle" <=> c = Idle
         /\ c.pc = "drafted" => c.challenge \in Challenges /\ c.at \in 0 .. MaxTime
         /\ c.pc \in {"fetched", "holding"} => c.challenge \in Challenges
<1>1. CASE c \in [pc : {"drafted"}, at : 0 .. MaxTime, challenge : Challenges]
  BY <1>1 DEF Idle
<1>2. CASE c \in [pc : {"fetched", "holding"}, challenge : Challenges]
  BY <1>2 DEF Idle
<1>3. CASE c = Idle
  BY <1>3 DEF Idle
<1> QED BY <1>1, <1>2, <1>3 DEF StoreCalls

\* Ids and expiries of what is held.
LEMMA StoreShape ==
  ASSUME StoreTypeOK
  PROVE  /\ \A s \in Stores : \A e \in entries[s] :
              /\ e.challenge \in Challenges /\ IdOf(e) \in ChallengeIds
              /\ e.deadline \in Int
         /\ \A w \in Workers : call[w] \in StoreCalls
         /\ \A w \in Drafted \cup Fetched :
              call[w].challenge \in Challenges /\ IdOf(call[w]) \in ChallengeIds
         /\ \A w \in Drafted : call[w].at \in 0 .. MaxTime
         /\ \A id \in DOMAIN offered :
              /\ id \in ChallengeIds /\ offered[id].at \in 0 .. MaxTime
              /\ offered[id].challenge \in Challenges
              /\ offered[id].challenge.expires_at \in Int
<1>1. \A c \in Challenges : c.challenge_id \in ChallengeIds /\ c.expires_at \in Int
  BY DEF Challenges
<1>2. ASSUME NEW s \in Stores, NEW e \in entries[s]
      PROVE  e.challenge \in Challenges /\ IdOf(e) \in ChallengeIds /\ e.deadline \in Int
  <2>1. e \in [challenge : Challenges, deadline : Int]
    BY DEF StoreTypeOK
  <2> QED BY <1>1, <2>1 DEF IdOf
<1>3. \A w \in Workers : call[w] \in StoreCalls
  BY DEF StoreTypeOK
<1>4. ASSUME NEW w \in Drafted \cup Fetched
      PROVE  call[w].challenge \in Challenges /\ IdOf(call[w]) \in ChallengeIds
  BY <1>1, <1>3, StoreCallShape DEF Drafted, Fetched, IdOf
<1>5. ASSUME NEW w \in Drafted PROVE call[w].at \in 0 .. MaxTime
  BY <1>3, StoreCallShape DEF Drafted
<1>6. ASSUME NEW id \in DOMAIN offered
      PROVE  /\ id \in ChallengeIds /\ offered[id].at \in 0 .. MaxTime
             /\ offered[id].challenge \in Challenges
             /\ offered[id].challenge.expires_at \in Int
  <2>1. offered[id] \in [challenge : Challenges, at : 0 .. MaxTime]
    BY DEF StoreTypeOK
  <2> QED BY <1>1, <2>1 DEF StoreTypeOK
<1> QED BY <1>2, <1>3, <1>4, <1>5, <1>6

\* What is open was offered.
LEMMA OpenIsOffered ==
  ASSUME StoreTypeOK, HeldAsOffered
  PROVE  Open \subseteq DOMAIN offered /\ Open \subseteq ChallengeIds
BY StoreShape DEF Open, HeldAsOffered, IsOffered, IdOf, Fetched

LEMMA InitStore == StoreInit => StoreInv /\ Open = {}
<1> SUFFICES ASSUME StoreInit PROVE StoreInv /\ Open = {}
  OBVIOUS
<1> USE DEF StoreInit
<1>1. \A w \in Workers : call[w] = Idle /\ call[w].pc = "idle"
  BY DEF Idle
<1>2. Fetched = {} /\ Drafted = {}
  BY <1>1 DEF Fetched, Drafted
<1>3. Open = {}
  BY <1>2 DEF Open
<1>4. DOMAIN offered = {} /\ offered \in [DOMAIN offered -> [challenge : Challenges, at : 0 .. MaxTime]]
  OBVIOUS
<1>5. StoreTypeOK
  BY <1>4 DEF StoreTypeOK, StoreCalls
<1>6. HeldAsOffered /\ OnePlace /\ DraftsNew /\ HandedOnce /\ Deadlines
  BY <1>1, <1>2, <1>3, <1>4
  DEF HeldAsOffered, OnePlace, DraftsNew, HandedOnce, Deadlines, Stores
<1> QED BY <1>3, <1>5, <1>6 DEF StoreInv

\* Whatever only lets time pass and forgets: some entries, some calls.
LEMMA ForgettingKeeps ==
  ASSUME StoreInv,
         now' \in 0 .. MaxTime, now <= now', ahead' \in [Workers -> 0 .. MaxAhead],
         entries' \in [Stores -> SUBSET [challenge : Challenges, deadline : Int]],
         \A s \in Stores : entries'[s] \subseteq entries[s],
         call' \in [Workers -> StoreCalls],
         \A w \in Workers : call'[w] \in {call[w], Idle},
         UNCHANGED <<shared, offered, handed>>
  PROVE  StoreInv' /\ Open' \subseteq Open
<1> USE DEF StoreInv
<1>1. StoreTypeOK'
  BY DEF StoreTypeOK
<1>2. /\ Drafted' \subseteq Drafted /\ Fetched' \subseteq Fetched
      /\ \A w \in Drafted' \cup Fetched' : call'[w] = call[w]
      /\ \A w \in Workers : call'[w].pc \in {"fetched", "holding"} => call'[w] = call[w]
  BY DEF Drafted, Fetched, Idle
<1>3. HeldAsOffered'
  BY <1>2 DEF HeldAsOffered, IsOffered
<1>4. OnePlace'
  BY <1>2 DEF OnePlace, IdOf
<1>5. DraftsNew'
  BY <1>2 DEF DraftsNew, IdOf
<1>6. Open' \subseteq Open
  BY <1>2 DEF Open, IdOf
<1>7. HandedOnce'
  BY <1>6 DEF HandedOnce
<1>8. Deadlines'
  <2>1. \A w \in Drafted : call[w].at \in Int
    BY StoreShape
  <2>2. now \in Int /\ now' \in Int
    BY DEF StoreTypeOK
  <2>3. \A w \in Drafted' : call'[w].at <= now'
    BY <1>2, <2>1, <2>2 DEF Deadlines
  <2> QED BY <1>2, <2>3 DEF Deadlines, IdOf, Stores
<1> QED BY <1>1, <1>3, <1>4, <1>5, <1>6, <1>7, <1>8

\* Time passes, or Redis forgets.
LEMMA PassingKeeps ==
  ASSUME StoreInv, Tick \/ Vanish
  PROVE  StoreInv' /\ Open' \subseteq Open /\ UNCHANGED <<shared, call, offered, handed>>
<1> USE DEF StoreInv, clockVars
<1>1. /\ now \in 0 .. MaxTime /\ ahead \in [Workers -> 0 .. MaxAhead]
      /\ entries \in [Stores -> SUBSET [challenge : Challenges, deadline : Int]]
      /\ call \in [Workers -> StoreCalls] /\ Redis \in Stores
  BY DEF StoreTypeOK, Stores
<1>2. CASE Tick
  <2>1. now' \in 0 .. MaxTime /\ now <= now'
    BY <1>1, <1>2 DEF Tick
  <2> QED BY <1>1, <1>2, <2>1, ForgettingKeeps DEF Tick
<1>3. CASE Vanish
  <2>1. UNCHANGED <<shared, now, ahead, call, offered, handed>>
    BY <1>3 DEF Vanish
  <2>2. /\ entries' \in [Stores -> SUBSET [challenge : Challenges, deadline : Int]]
        /\ \A s \in Stores : entries'[s] \subseteq entries[s]
    BY <1>1, <1>3 DEF Vanish
  <2> QED BY <1>1, <2>1, <2>2, ForgettingKeeps
<1>4. UNCHANGED call
  BY DEF Tick, Vanish
<1> QED BY <1>2, <1>3, <1>4

\* A worker's clock is adjusted, or the worker gives up what it has.
Forgetting(w) ==
  \/ AdjustClock(w) \/ Prune(w) \/ SetLost(w)
  \/ Withhold(w) \/ ReplyLost(w) \/ Release(w) \/ Stop(w)

LEMMA ForgettingSteps ==
  ASSUME StoreInv, NEW w \in Workers, Forgetting(w)
  PROVE  /\ StoreInv' /\ Open' \subseteq Open /\ UNCHANGED <<shared, offered, handed>>
         /\ call'[w] \in {call[w], Idle}
         /\ \A v \in Workers : v # w => call'[v] = call[v]
<1> USE DEF StoreInv, clockVars
<1>1. /\ now \in 0 .. MaxTime /\ ahead \in [Workers -> 0 .. MaxAhead]
      /\ entries \in [Stores -> SUBSET [challenge : Challenges, deadline : Int]]
      /\ call \in [Workers -> StoreCalls] /\ Idle \in StoreCalls
      /\ w \in Stores /\ Redis \in Stores
  BY DEF StoreTypeOK, StoreCalls, Stores
<1>2. CASE AdjustClock(w)
  <2>1. ahead' \in [Workers -> 0 .. MaxAhead]
    BY <1>1, <1>2 DEF AdjustClock
  <2>2. UNCHANGED <<shared, now, entries, call, offered, handed>>
    BY <1>2 DEF AdjustClock
  <2> QED BY <1>1, <2>1, <2>2, ForgettingKeeps
<1>3. CASE Prune(w)
  <2>1. UNCHANGED <<shared, now, ahead, call, offered, handed>>
    BY <1>3 DEF Prune
  <2>2. Live(w) \subseteq entries[w]
    BY DEF Live
  <2>3. /\ entries' \in [Stores -> SUBSET [challenge : Challenges, deadline : Int]]
        /\ \A s \in Stores : entries'[s] \subseteq entries[s]
    BY <1>1, <1>3, <2>2 DEF Prune
  <2> QED BY <1>1, <2>1, <2>3, ForgettingKeeps
<1>4. CASE SetLost(w) \/ Withhold(w) \/ ReplyLost(w) \/ Release(w)
  <2>1. /\ UNCHANGED <<shared, now, ahead, entries, offered, handed>>
        /\ call' = [call EXCEPT ![w] = Idle]
    BY <1>4 DEF SetLost, Withhold, ReplyLost, Release
  <2>2. call' \in [Workers -> StoreCalls] /\ \A v \in Workers : call'[v] \in {call[v], Idle}
    BY <1>1, <2>1
  <2> QED BY <1>1, <2>1, <2>2, ForgettingKeeps
<1>5. CASE Stop(w)
  <2>1. /\ UNCHANGED <<shared, now, ahead, offered, handed>>
        /\ call' = [call EXCEPT ![w] = Idle]
        /\ entries' = [entries EXCEPT ![w] = {}]
    BY <1>5 DEF Stop
  <2>2. call' \in [Workers -> StoreCalls] /\ \A v \in Workers : call'[v] \in {call[v], Idle}
    BY <1>1, <2>1
  <2>3. /\ entries' \in [Stores -> SUBSET [challenge : Challenges, deadline : Int]]
        /\ \A s \in Stores : entries'[s] \subseteq entries[s]
    BY <1>1, <2>1
  <2> QED BY <1>1, <2>1, <2>2, <2>3, ForgettingKeeps
<1>6. /\ call'[w] \in {call[w], Idle}
      /\ \A v \in Workers : v # w => call'[v] = call[v]
  BY <1>1 DEF Forgetting, AdjustClock, Prune, SetLost, Withhold, ReplyLost, Release, Stop
<1> QED BY <1>2, <1>3, <1>4, <1>5, <1>6 DEF Forgetting

\* A draft is of a new id, and good by wall clocks that may be ahead.
LEMMA DraftKeeps ==
  ASSUME StoreInv, NEW w \in Workers, Draft(w)
  PROVE  /\ StoreInv' /\ Open' = Open /\ UNCHANGED <<shared, offered, handed>>
         /\ call[w] = Idle /\ call'[w].pc = "drafted"
         /\ \A v \in Workers : v # w => call'[v] = call[v]
<1> USE DEF StoreInv, clockVars
<1>1. PICK id \in ChallengeIds :
        /\ Fresh(id)
        /\ call' = [call EXCEPT ![w] =
             [pc |-> "drafted", at |-> now,
              challenge |-> issue(id, AudienceOf[w], PurposeOf[w], TTL, Wall(w))]]
  BY DEF Draft
<1> DEFINE new == issue(id, AudienceOf[w], PurposeOf[w], TTL, Wall(w))
           c == [pc |-> "drafted", at |-> now, challenge |-> new]
<1>2. /\ call[w] = Idle
      /\ UNCHANGED <<shared, now, ahead, entries, offered, handed>>
  BY DEF Draft
<1>3. /\ now \in 0 .. MaxTime /\ ahead[w] \in 0 .. MaxAhead
      /\ call \in [Workers -> StoreCalls]
  BY DEF StoreTypeOK
<1>4. /\ new \in Challenges /\ new.challenge_id = id
      /\ new.expires_at <= now + MaxAhead + TTL
  BY <1>3 DEF issue, Challenges, Wall
<1> HIDE DEF new
<1>5. c \in StoreCalls /\ c.pc = "drafted" /\ c.challenge = new /\ c.at = now
  BY <1>3, <1>4 DEF StoreCalls
<1>6. call' = [call EXCEPT ![w] = c]
  BY <1>1 DEF new
<1> HIDE DEF c
<1>7. /\ call' \in [Workers -> StoreCalls] /\ call'[w] = c
      /\ \A v \in Workers : v # w => call'[v] = call[v]
  BY <1>3, <1>5, <1>6
<1>8. Drafted' = Drafted \cup {w} /\ Fetched' = Fetched /\ w \notin Fetched
  BY <1>2, <1>5, <1>7 DEF Drafted, Fetched, Idle
<1>9. StoreTypeOK'
  BY <1>2, <1>7 DEF StoreTypeOK
<1>10. HeldAsOffered'
  BY <1>2, <1>5, <1>7 DEF HeldAsOffered, IsOffered
<1>11. OnePlace'
  <2>1. \A v \in Fetched : call'[v] = call[v]
    BY <1>7, <1>8 DEF Fetched
  <2> QED BY <1>2, <1>8, <2>1 DEF OnePlace, IdOf
<1>12. DraftsNew'
  <2>1. id \notin DOMAIN offered /\ \A v \in Drafted : IdOf(call[v]) # id
    BY <1>1 DEF Fresh, IdOf
  <2>2. IdOf(call'[w]) = id
    BY <1>4, <1>5, <1>7 DEF IdOf
  <2>3. w \notin Drafted
    BY <1>2 DEF Drafted, Idle
  <2>4. \A v \in Drafted : IdOf(call'[v]) = IdOf(call[v])
    BY <1>7, <2>3 DEF IdOf, Drafted
  <2> QED BY <1>2, <1>8, <2>1, <2>2, <2>4 DEF DraftsNew
<1>13. Open' = Open
  <2>1. \A v \in Fetched : call'[v] = call[v]
    BY <1>7, <1>8 DEF Fetched
  <2> QED BY <1>2, <1>8, <2>1 DEF Open, IdOf
<1>14. HandedOnce'
  BY <1>2, <1>13 DEF HandedOnce
<1>15. Deadlines'
  <2>1. \A v \in Drafted' :
          call'[v].at <= now /\ call'[v].challenge.expires_at <= call'[v].at + MaxAhead + TTL
    <3>1. call'[w].at <= now /\ call'[w].challenge.expires_at <= call'[w].at + MaxAhead + TTL
      BY <1>3, <1>4, <1>5, <1>7
    <3>2. \A v \in Drafted' : v # w => v \in Drafted /\ call'[v] = call[v]
      BY <1>7, <1>8 DEF Drafted
    <3> QED BY <3>1, <3>2 DEF Deadlines
  <2> QED BY <1>2, <2>1 DEF Deadlines, IdOf
<1> QED BY <1>2, <1>5, <1>7, <1>9, <1>10, <1>11, <1>12, <1>13, <1>14, <1>15

\* What was offered stays as it was.
OfferedGrows ==
  \A i \in DOMAIN offered : i \in DOMAIN offered' /\ offered'[i] = offered[i]

\* A drafted challenge is stored and offered, in memory or in Redis.
LEMMA InsertKeeps ==
  ASSUME StoreInv, NEW w \in Workers, Insert(w)
  PROVE  LET id == IdOf(call[w])
         IN /\ StoreInv'
            /\ id \in ChallengeIds /\ id \notin Open /\ handed[id] = 0
            /\ Open' \subseteq Open \cup {id} /\ id \in Open'
            /\ UNCHANGED <<shared, now, handed>>
            /\ OfferedGrows
            /\ call[w].pc = "drafted" /\ call'[w] = Idle
            /\ \A v \in Workers : v # w => call'[v] = call[v]
<1> USE DEF StoreInv, clockVars
<1> DEFINE challenge == call[w].challenge
           id == IdOf(call[w])
           s == IF shared THEN Redis ELSE w
<1>1. /\ call[w].pc = "drafted" /\ w \in Drafted /\ challenge \in Challenges
      /\ id = challenge.challenge_id /\ id \in ChallengeIds /\ call[w].at \in 0 .. MaxTime
      /\ UNCHANGED <<shared, now, ahead, handed>>
  BY StoreShape DEF Insert, Put, Set, Offer, Drafted, IdOf
<1>2. /\ now \in 0 .. MaxTime /\ call \in [Workers -> StoreCalls] /\ Idle \in StoreCalls
      /\ entries \in [Stores -> SUBSET [challenge : Challenges, deadline : Int]]
      /\ w \in Stores /\ Redis \in Stores /\ Redis # w
      /\ s \in Stores /\ (s = Redis) = shared
  BY DEF StoreTypeOK, StoreCalls, Stores
<1>3. PICK kept \in SUBSET entries[s], deadline \in Int :
        /\ entries' = [entries EXCEPT ![s] = kept \cup {Entry(challenge, deadline)}]
        /\ s # Redis => deadline <= now + TTL
  <2>1. CASE shared
    <3>1. entries' = [entries EXCEPT ![Redis] = entries[Redis] \cup {Entry(challenge, now + TTL)}]
      BY <2>1 DEF Insert, Put, Set, Offer
    <3> s = Redis /\ now + TTL \in Int
      BY <1>2, <2>1
    <3> HIDE DEF s
    <3> WITNESS entries[s] \in SUBSET entries[s], now + TTL \in Int
    <3> QED BY <3>1
  <2>2. CASE ~shared
    <3>1. PICK read \in call[w].at .. now :
            entries' = [entries EXCEPT ![w] = Live(w) \cup {Entry(challenge, read + TTL)}]
      BY <2>2 DEF Insert, Put, Set, Offer
    <3> read + TTL \in Int /\ read + TTL <= now + TTL
      BY <1>1, <1>2
    <3> Live(w) \subseteq entries[w] /\ s = w
      BY <2>2 DEF Live
    <3> HIDE DEF s
    <3> WITNESS Live(w) \in SUBSET entries[s], read + TTL \in Int
    <3> QED BY <3>1
  <2> QED BY <2>1, <2>2
<1> DEFINE new == Entry(challenge, deadline)
           offer == [challenge |-> challenge, at |-> now]
<1>4. /\ new \in [challenge : Challenges, deadline : Int]
      /\ new.challenge = challenge /\ new.deadline = deadline /\ IdOf(new) = id
  BY <1>1 DEF Entry, IdOf
<1> HIDE DEF new, s
<1>5. entries' = [entries EXCEPT ![s] = kept \cup {new}]
  BY <1>3 DEF new
<1>6. /\ id \notin DOMAIN offered
      /\ \A v \in Drafted : IdOf(call[v]) = id => v = w
  BY <1>1 DEF DraftsNew
<1>7. /\ DOMAIN offered' = DOMAIN offered \cup {id}
      /\ \A i \in DOMAIN offered : offered'[i] = offered[i]
      /\ offered'[id] = offer
      /\ offered' \in [DOMAIN offered' -> [challenge : Challenges, at : 0 .. MaxTime]]
  <2>1. offered' = [i \in DOMAIN offered \cup {id} |->
                      IF i \in DOMAIN offered THEN offered[i] ELSE offer]
    BY <1>1 DEF Insert, Put, Set, Offer
  <2>2. offer \in [challenge : Challenges, at : 0 .. MaxTime]
    BY <1>1, <1>2
  <2>3. \A i \in DOMAIN offered : offered[i] \in [challenge : Challenges, at : 0 .. MaxTime]
    BY DEF StoreTypeOK
  <2> HIDE DEF offer
  <2> QED BY <1>6, <2>1, <2>2, <2>3
<1>8. /\ call' = [call EXCEPT ![w] = Idle] /\ call' \in [Workers -> StoreCalls]
      /\ call'[w] = Idle /\ \A v \in Workers : v # w => call'[v] = call[v]
  <2>1. call' = [call EXCEPT ![w] = Idle]
    BY DEF Insert, Put, Set, Offer
  <2> QED BY <1>2, <2>1
<1>9. /\ Drafted' = Drafted \ {w} /\ Fetched' = Fetched /\ w \notin Fetched
      /\ \A v \in Drafted' \cup Fetched' : call'[v] = call[v]
      /\ \A v \in Workers : call'[v].pc \in {"fetched", "holding"} => call'[v] = call[v]
  BY <1>1, <1>8 DEF Drafted, Fetched, Idle
<1>10. /\ entries'[s] = kept \cup {new}
       /\ \A t \in Stores : t # s => entries'[t] = entries[t]
       /\ entries' \in [Stores -> SUBSET [challenge : Challenges, deadline : Int]]
       /\ \A t \in Stores : \A e \in entries'[t] : e \in entries[t] \/ (t = s /\ e = new)
  <2>1. kept \cup {new} \in SUBSET [challenge : Challenges, deadline : Int]
    BY <1>2, <1>4
  <2>2. entries'[s] = kept \cup {new} /\ \A t \in Stores : t # s => entries'[t] = entries[t]
    BY <1>2, <1>5
  <2>3. entries' \in [Stores -> SUBSET [challenge : Challenges, deadline : Int]]
    BY <1>2, <1>5, <2>1
  <2>4. ASSUME NEW t \in Stores, NEW e \in entries'[t]
        PROVE  e \in entries[t] \/ (t = s /\ e = new)
    <3>1. CASE t = s BY <2>2, <3>1
    <3>2. CASE t # s BY <2>2, <3>2
    <3> QED BY <3>1, <3>2
  <2> QED BY <2>2, <2>3, <2>4
<1>11. \A i \in Open : i # id
  BY <1>6, OpenIsOffered
<1>12. StoreTypeOK'
  <2>1. \A t \in Stores : entries'[t] # {} => shared = (t = Redis)
    BY <1>3, <1>2, <1>10 DEF StoreTypeOK
  <2> QED BY <1>1, <1>2, <1>7, <1>8, <1>10, <2>1 DEF StoreTypeOK
<1>13. HeldAsOffered'
  <2>1. \A c : IsOffered(c) => IsOffered(c)'
    BY <1>7 DEF IsOffered
  <2>2. challenge.challenge_id \in DOMAIN offered' /\ offered'[id].challenge = challenge
    BY <1>1, <1>7
  <2>3. \A t \in Stores : \A e \in entries'[t] : IsOffered(e.challenge)'
    BY <1>1, <1>4, <1>10, <2>1, <2>2 DEF HeldAsOffered, IsOffered
  <2> QED BY <1>9, <2>1, <2>3 DEF HeldAsOffered
<1>14. OnePlace'
  <2>1. \A t \in Stores : \A e \in entries[t] : IdOf(e) # id
    BY <1>11 DEF Open
  <2>2. \A v \in Fetched : IdOf(call[v]) # id /\ IdOf(call'[v]) = IdOf(call[v])
    BY <1>9, <1>11 DEF Open
  <2>3. ASSUME NEW t \in Stores, NEW u \in Stores, NEW e \in entries'[t],
               NEW f \in entries'[u], IdOf(e) = IdOf(f)
        PROVE  t = u /\ e = f
    BY <1>4, <1>10, <2>1, <2>3 DEF OnePlace
  <2>4. ASSUME NEW t \in Stores, NEW e \in entries'[t], NEW v \in Fetched
        PROVE  IdOf(e) # IdOf(call'[v])
    BY <1>4, <1>10, <2>1, <2>2 DEF OnePlace
  <2>5. \A u, v \in Fetched : IdOf(call'[u]) = IdOf(call'[v]) => u = v
    BY <2>2 DEF OnePlace
  <2>6. Fetched' # {} => shared'
    BY <1>1, <1>9 DEF OnePlace
  <2> QED BY <1>9, <2>3, <2>4, <2>5, <2>6 DEF OnePlace
<1>15. DraftsNew'
  <2>1. \A v \in Drafted' : IdOf(call'[v]) = IdOf(call[v]) /\ v \in Drafted /\ v # w
    BY <1>9
  <2> QED BY <1>6, <1>7, <2>1 DEF DraftsNew
<1>16. Open' \subseteq Open \cup {id} /\ id \in Open'
  <2>1. \A t \in Stores : \A e \in entries'[t] : IdOf(e) \in Open \cup {id}
    BY <1>4, <1>10 DEF Open
  <2>2. \A v \in Fetched' : IdOf(call'[v]) \in Open
    BY <1>9 DEF Open
  <2>3. \E e \in entries'[s] : IdOf(e) = id
    BY <1>4, <1>10
  <2> QED BY <1>2, <2>1, <2>2, <2>3 DEF Open
<1>17. handed[id] = 0
  BY <1>1, <1>6 DEF HandedOnce
<1>18. HandedOnce'
  BY <1>1, <1>7, <1>16, <1>17 DEF HandedOnce
<1>19. Deadlines'
  <2>1. ASSUME NEW v \in Workers, NEW e \in entries'[v]
        PROVE  e.deadline <= offered'[IdOf(e)].at + TTL
    <3>1. CASE e = new
      <4>1. v = s \/ new \in entries[v]
        BY <1>10, <3>1 DEF Stores
      <4>2. s # Redis
        BY <1>4, <1>11, <4>1 DEF Open, Stores
      <4> QED BY <1>3, <1>4, <1>7, <3>1, <4>2
    <3>2. CASE e # new
      <4>1. e \in entries[v]
        BY <1>10, <3>2 DEF Stores
      <4>2. IdOf(e) \in DOMAIN offered
        BY <4>1 DEF HeldAsOffered, IsOffered, IdOf, Stores
      <4> QED BY <1>7, <4>1, <4>2 DEF Deadlines
    <3> QED BY <3>1, <3>2
  <2>2. offered'[id].challenge.expires_at <= offered'[id].at + MaxAhead + TTL
    <3>1. challenge.expires_at <= call[w].at + MaxAhead + TTL /\ call[w].at <= now
      BY <1>1 DEF Deadlines
    <3>2. challenge.expires_at \in Int
      BY <1>1 DEF Challenges
    <3> QED BY <1>1, <1>2, <1>7, <3>1, <3>2
  <2>3. \A i \in DOMAIN offered' :
          offered'[i].challenge.expires_at <= offered'[i].at + MaxAhead + TTL
    BY <1>7, <2>2 DEF Deadlines
  <2>4. \A v \in Drafted' :
          call'[v].at <= now /\ call'[v].challenge.expires_at <= call'[v].at + MaxAhead + TTL
    BY <1>9 DEF Deadlines
  <2> QED BY <1>1, <2>1, <2>3, <2>4 DEF Deadlines
<1>20. OfferedGrows
  BY <1>7 DEF OfferedGrows
<1> QED BY <1>1, <1>8, <1>11, <1>12, <1>13, <1>14, <1>15, <1>16, <1>17, <1>18, <1>19,
           <1>20

\* An entry leaves its store for a worker that holds it, and it is handed out,
\* or that has fetched it and has yet to look at it.
LEMMA TakeKeeps ==
  ASSUME StoreInv, NEW w \in Workers, call[w] = Idle, NEW s \in Stores,
         NEW e \in entries[s], NEW kept \in SUBSET (entries[s] \ {e}),
         NEW pc \in {"fetched", "holding"}, pc = "fetched" => shared,
         entries' = [entries EXCEPT ![s] = kept],
         call' = [call EXCEPT ![w] = [pc |-> pc, challenge |-> e.challenge]],
         handed' = IF pc = "holding" THEN [handed EXCEPT ![IdOf(e)] = @ + 1] ELSE handed,
         UNCHANGED <<shared, now, ahead, offered>>
  PROVE  /\ StoreInv'
         /\ IdOf(e) \in Open /\ Open' \subseteq Open
         /\ pc = "holding" => IdOf(e) \notin Open'
<1> USE DEF StoreInv
<1> DEFINE c == [pc |-> pc, challenge |-> e.challenge]
           id == IdOf(e)
<1>1. /\ c \in StoreCalls /\ c.pc = pc /\ c.challenge = e.challenge /\ IdOf(c) = id
      /\ id \in ChallengeIds /\ IsOffered(e.challenge) /\ id \in DOMAIN offered
  BY StoreShape DEF StoreCalls, IdOf, HeldAsOffered, IsOffered
<1> HIDE DEF c
<1>2. /\ call' \in [Workers -> StoreCalls] /\ call'[w] = c
      /\ \A v \in Workers : v # w => call'[v] = call[v]
  <2>1. call' = [call EXCEPT ![w] = c]
    BY DEF c
  <2>2. call \in [Workers -> StoreCalls]
    BY DEF StoreTypeOK
  <2> QED BY <1>1, <2>1, <2>2
<1>3. /\ entries' \in [Stores -> SUBSET [challenge : Challenges, deadline : Int]]
      /\ entries'[s] = kept /\ \A t \in Stores : t # s => entries'[t] = entries[t]
      /\ \A t \in Stores : entries'[t] \subseteq entries[t]
  BY DEF StoreTypeOK
<1>4. /\ Drafted' = Drafted /\ w \notin Drafted /\ w \notin Fetched
      /\ Fetched' = IF pc = "fetched" THEN Fetched \cup {w} ELSE Fetched
      /\ \A v \in Drafted \cup Fetched : call'[v] = call[v]
  BY <1>1, <1>2 DEF Drafted, Fetched, Idle
<1>5. /\ id \in Open
      /\ \A t \in Stores : \A f \in entries'[t] : IdOf(f) # id
      /\ \A v \in Fetched : IdOf(call[v]) # id
  <2>1. \A t \in Stores : \A f \in entries'[t] : IdOf(f) # id
    BY <1>3 DEF OnePlace
  <2>2. \A v \in Fetched : IdOf(call[v]) # id
    BY DEF OnePlace
  <2> QED BY <2>1, <2>2 DEF Open
<1>6. StoreTypeOK'
  <2>1. handed' \in [ChallengeIds -> Nat]
    BY <1>1 DEF StoreTypeOK
  <2> QED BY <1>2, <1>3, <2>1 DEF StoreTypeOK
<1>7. HeldAsOffered'
  BY <1>1, <1>2, <1>3 DEF HeldAsOffered, IsOffered
<1>8. OnePlace'
  <2>1. \A t, u \in Stores : \A f \in entries'[t], g \in entries'[u] :
          IdOf(f) = IdOf(g) => t = u /\ f = g
    BY <1>3 DEF OnePlace
  <2>2. ASSUME NEW v \in Fetched'
        PROVE  \/ v = w /\ IdOf(call'[v]) = id
               \/ v \in Fetched /\ IdOf(call'[v]) = IdOf(call[v])
    BY <1>1, <1>2, <1>4, <2>2 DEF IdOf
  <2>3. \A t \in Stores, v \in Fetched' : \A f \in entries'[t] : IdOf(f) # IdOf(call'[v])
    BY <1>3, <1>5, <2>2 DEF OnePlace
  <2>4. \A u, v \in Fetched' : IdOf(call'[u]) = IdOf(call'[v]) => u = v
    BY <1>5, <2>2 DEF OnePlace
  <2>5. Fetched' # {} => shared'
    BY <1>4 DEF OnePlace
  <2> QED BY <2>1, <2>3, <2>4, <2>5 DEF OnePlace
<1>9. DraftsNew'
  BY <1>4 DEF DraftsNew, IdOf
<1>10. Open' \subseteq Open /\ (pc = "holding" => id \notin Open')
  <2>1. \A t \in Stores : \A f \in entries'[t] : IdOf(f) \in Open /\ IdOf(f) # id
    BY <1>3, <1>5 DEF Open
  <2>2. \A v \in Fetched : IdOf(call'[v]) \in Open /\ IdOf(call'[v]) # id
    BY <1>4, <1>5 DEF Open
  <2>3. IdOf(call'[w]) = id
    BY <1>1, <1>2 DEF IdOf
  <2>4. \A v \in Fetched' : IdOf(call'[v]) \in Open /\ (pc = "holding" => IdOf(call'[v]) # id)
    BY <1>4, <1>5, <2>2, <2>3
  <2> QED BY <2>1, <2>4 DEF Open
<1>11. HandedOnce'
  <2>1. ASSUME NEW i \in ChallengeIds
        PROVE  /\ handed'[i] \in {0, 1}
               /\ i \in Open' \/ i \notin DOMAIN offered => handed'[i] = 0
    <3>1. CASE pc = "holding" /\ i = id
      <4>1. handed[id] = 0 /\ handed'[id] = handed[id] + 1
        BY <1>1, <1>5, <3>1 DEF HandedOnce, StoreTypeOK
      <4> QED BY <1>1, <1>10, <3>1, <4>1
    <3>2. CASE ~(pc = "holding" /\ i = id)
      <4>1. handed'[i] = handed[i]
        BY <3>2 DEF StoreTypeOK
      <4> QED BY <1>10, <4>1 DEF HandedOnce
    <3> QED BY <3>1, <3>2
  <2> QED BY <2>1 DEF HandedOnce
<1>12. Deadlines'
  <2>1. \A v \in Workers : entries'[v] \subseteq entries[v]
    BY <1>3 DEF Stores
  <2> QED BY <1>4, <2>1 DEF Deadlines, IdOf
<1> QED BY <1>5, <1>6, <1>7, <1>8, <1>9, <1>10, <1>11, <1>12

\* consume in memory hands out an entry that is live.
LEMMA PopKeeps ==
  ASSUME StoreInv, NEW w \in Workers, NEW id \in ChallengeIds, Pop(w, id)
  PROVE  /\ StoreInv'
         /\ id \in Open /\ id \notin Open' /\ Open' \subseteq Open
         /\ handed' = [handed EXCEPT ![id] = @ + 1]
         /\ UNCHANGED <<shared, now, ahead, offered>>
         /\ ~shared /\ \E e \in Live(w) : IdOf(e) = id /\ call'[w].challenge = e.challenge
         /\ call'[w].pc = "holding"
         /\ \A v \in Workers : v # w => call'[v] = call[v]
<1>1. PICK e \in Live(w) :
        /\ IdOf(e) = id
        /\ entries' = [entries EXCEPT ![w] = Live(w) \ {e}]
        /\ call' = [call EXCEPT ![w] = Holding(e.challenge)]
        /\ HandedOnceMore(id)
  BY DEF Pop
<1>2. /\ e \in entries[w] /\ Live(w) \ {e} \in SUBSET (entries[w] \ {e}) /\ w \in Stores
      /\ call \in [Workers -> StoreCalls]
  BY DEF Live, Stores, StoreInv, StoreTypeOK
<1>3. /\ StoreInv' /\ id \in Open /\ id \notin Open' /\ Open' \subseteq Open
  BY <1>1, <1>2, TakeKeeps DEF Pop, clockVars, Holding, HandedOnceMore
<1>4. call'[w] = Holding(e.challenge) /\ \A v \in Workers : v # w => call'[v] = call[v]
  BY <1>1, <1>2
<1> QED BY <1>1, <1>3, <1>4 DEF Pop, clockVars, HandedOnceMore, Holding

\* GETDEL takes an entry out of Redis, and it is nowhere else.
LEMMA GetDelKeeps ==
  ASSUME StoreInv, NEW w \in Workers, NEW id \in ChallengeIds, GetDel(w, id)
  PROVE  /\ StoreInv' /\ Open' \subseteq Open
         /\ UNCHANGED <<shared, now, ahead, offered, handed>>
         /\ shared /\ call'[w].pc = "fetched" /\ IdOf(call'[w]) = id
         /\ \A v \in Workers : v # w => call'[v] = call[v]
<1>1. PICK e \in entries[Redis] :
        /\ IdOf(e) = id
        /\ entries' = [entries EXCEPT ![Redis] = @ \ {e}]
        /\ call' = [call EXCEPT ![w] = [pc |-> "fetched", challenge |-> e.challenge]]
  BY DEF GetDel
<1>2. /\ Redis \in Stores /\ entries[Redis] \ {e} \in SUBSET (entries[Redis] \ {e})
      /\ call \in [Workers -> StoreCalls]
  BY DEF Stores, StoreInv, StoreTypeOK
<1>3. StoreInv' /\ Open' \subseteq Open
  BY <1>1, <1>2, TakeKeeps DEF GetDel, clockVars
<1>4. /\ call'[w] = [pc |-> "fetched", challenge |-> e.challenge]
      /\ \A v \in Workers : v # w => call'[v] = call[v]
  BY <1>1, <1>2
<1> QED BY <1>1, <1>3, <1>4 DEF GetDel, clockVars, IdOf

\* What was fetched is handed out by the worker that fetched it.
LEMMA HandOutKeeps ==
  ASSUME StoreInv, NEW w \in Workers, HandOut(w)
  PROVE  LET id == IdOf(call[w])
         IN /\ StoreInv'
            /\ id \in ChallengeIds /\ id \in Open /\ id \notin Open' /\ Open' \subseteq Open
            /\ handed' = [handed EXCEPT ![id] = @ + 1]
            /\ UNCHANGED <<shared, now, ahead, offered>>
            /\ call'[w] = Holding(call[w].challenge)
            /\ \A v \in Workers : v # w => call'[v] = call[v]
<1> USE DEF StoreInv
<1> DEFINE c == Holding(call[w].challenge)
           id == IdOf(call[w])
<1>1. /\ call[w].pc = "fetched" /\ w \in Fetched /\ id \in ChallengeIds
      /\ call[w].challenge \in Challenges /\ IsOffered(call[w].challenge)
      /\ id \in DOMAIN offered
      /\ handed' = [handed EXCEPT ![id] = @ + 1]
      /\ UNCHANGED <<shared, now, ahead, entries, offered>>
  BY StoreShape
  DEF HandOut, Fetched, HandedOnceMore, clockVars, HeldAsOffered, IsOffered, IdOf
<1>2. c \in StoreCalls /\ c.pc = "holding" /\ c.challenge = call[w].challenge
  BY <1>1 DEF Holding, StoreCalls
<1>3. /\ call' \in [Workers -> StoreCalls] /\ call'[w] = c
      /\ \A v \in Workers : v # w => call'[v] = call[v]
  <2>1. call' = [call EXCEPT ![w] = c]
    BY DEF HandOut
  <2>2. call \in [Workers -> StoreCalls]
    BY DEF StoreTypeOK
  <2> HIDE DEF c
  <2> QED BY <1>2, <2>1, <2>2
<1> HIDE DEF c
<1>4. /\ Drafted' = Drafted /\ w \notin Drafted /\ Fetched' = Fetched \ {w}
      /\ \A v \in Drafted' \cup Fetched' : call'[v] = call[v]
  BY <1>1, <1>2, <1>3 DEF Drafted, Fetched
<1>5. /\ id \in Open
      /\ \A t \in Stores : \A f \in entries[t] : IdOf(f) # id
      /\ \A v \in Fetched' : IdOf(call'[v]) # id
  BY <1>1, <1>4 DEF OnePlace, Open
<1>6. Open' \subseteq Open /\ id \notin Open'
  <2>1. \A v \in Fetched' : IdOf(call'[v]) \in Open
    BY <1>4 DEF Open
  <2>2. \A t \in Stores : \A f \in entries[t] : IdOf(f) \in Open
    BY DEF Open
  <2> QED BY <1>1, <1>5, <2>1, <2>2 DEF Open
<1>7. StoreTypeOK'
  <2>1. handed' \in [ChallengeIds -> Nat]
    BY <1>1 DEF StoreTypeOK
  <2> QED BY <1>1, <1>3, <2>1 DEF StoreTypeOK
<1>8. HeldAsOffered'
  BY <1>1, <1>2, <1>3 DEF HeldAsOffered, IsOffered
<1>9. OnePlace'
  BY <1>1, <1>4 DEF OnePlace, IdOf
<1>10. DraftsNew'
  BY <1>1, <1>4 DEF DraftsNew, IdOf
<1>11. HandedOnce'
  <2>1. ASSUME NEW i \in ChallengeIds
        PROVE  /\ handed'[i] \in {0, 1}
               /\ i \in Open' \/ i \notin DOMAIN offered => handed'[i] = 0
    <3>1. CASE i = id
      <4>1. handed[id] = 0 /\ handed'[id] = handed[id] + 1
        BY <1>1, <1>5, <3>1 DEF HandedOnce, StoreTypeOK
      <4> QED BY <1>1, <1>6, <3>1, <4>1
    <3>2. CASE i # id
      <4>1. handed'[i] = handed[i]
        BY <1>1, <3>2 DEF StoreTypeOK
      <4> QED BY <1>6, <4>1 DEF HandedOnce
    <3> QED BY <3>1, <3>2
  <2> QED BY <1>1, <2>1 DEF HandedOnce
<1>12. Deadlines'
  BY <1>1, <1>4 DEF Deadlines, IdOf
<1> QED BY <1>1, <1>3, <1>5, <1>6, <1>7, <1>8, <1>9, <1>10, <1>11, <1>12 DEF c

-----------------------------------------------------------------------------
(* Once only                                                               *)

StoreNext ==
  \/ Tick
  \/ Vanish
  \/ \E w \in Workers :
       \/ Forgetting(w)
       \/ Draft(w)
       \/ Insert(w)
       \/ \E id \in ChallengeIds : Consume(w, id)
       \/ HandOut(w)

\* The stores' invariant is kept, and every step is one of a once-only store.
LEMMA StoreStep ==
  ASSUME StoreInv, [StoreNext]_storeVars
  PROVE  StoreInv' /\ [Abstract!Next]_<<Open, handed>> /\ OfferedGrows
<1>0. UNCHANGED offered => OfferedGrows
  BY DEF OfferedGrows
<1> USE DEF Abstract!Next, Abstract!Lapse, Abstract!Issue, Abstract!Hand
<1>1. ASSUME Open' \subseteq Open, UNCHANGED handed PROVE Abstract!Next
  BY <1>1
<1>2. CASE Tick \/ Vanish
  BY <1>0, <1>1, <1>2, PassingKeeps
<1>3. ASSUME NEW w \in Workers, Forgetting(w) PROVE StoreInv' /\ Abstract!Next /\ OfferedGrows
  BY <1>0, <1>1, <1>3, ForgettingSteps
<1>4. ASSUME NEW w \in Workers, Draft(w) PROVE StoreInv' /\ Abstract!Next /\ OfferedGrows
  BY <1>0, <1>1, <1>4, DraftKeeps
<1>5. ASSUME NEW w \in Workers, Insert(w) PROVE StoreInv' /\ Abstract!Next /\ OfferedGrows
  <2> DEFINE id == IdOf(call[w])
             kept == Open' \ {id}
  <2>1. /\ StoreInv' /\ id \in ChallengeIds /\ id \notin Open /\ handed[id] = 0
        /\ Open' = kept \cup {id} /\ kept \in SUBSET Open /\ UNCHANGED handed
        /\ OfferedGrows
    BY <1>5, InsertKeeps
  <2> HIDE DEF id, kept
  <2> QED BY <2>1
<1>6. ASSUME NEW w \in Workers, NEW id \in ChallengeIds, Pop(w, id)
      PROVE  StoreInv' /\ Abstract!Next /\ OfferedGrows
  BY <1>0, <1>6, PopKeeps
<1>7. ASSUME NEW w \in Workers, NEW id \in ChallengeIds, GetDel(w, id)
      PROVE  StoreInv' /\ Abstract!Next /\ OfferedGrows
  BY <1>0, <1>1, <1>7, GetDelKeeps
<1>8. ASSUME NEW w \in Workers, HandOut(w) PROVE StoreInv' /\ Abstract!Next /\ OfferedGrows
  BY <1>0, <1>8, HandOutKeeps
<1>9. CASE UNCHANGED storeVars
  <2>1. UNCHANGED <<Open, offered, handed>>
    BY <1>9 DEF storeVars, Open, Fetched
  <2>2. StoreInv'
    BY <1>9, <2>1 DEF storeVars, StoreInv, StoreTypeOK, HeldAsOffered, IsOffered, OnePlace,
                DraftsNew, HandedOnce, Deadlines, Fetched, Drafted
  <2> QED BY <1>0, <2>1, <2>2
<1> QED BY <1>2, <1>3, <1>4, <1>5, <1>6, <1>7, <1>8, <1>9 DEF StoreNext, Consume

\* A challenge comes into a consumer's hands while it is young.
LEMMA HandedInTime ==
  ASSUME StoreInv, [StoreNext]_storeVars, NEW w \in Workers,
         call[w].pc # "holding", call'[w].pc = "holding"
  PROVE  /\ IdOf(call'[w]) \in DOMAIN offered
         /\ now - offered[IdOf(call'[w])].at < TTL + (IF shared THEN MaxAhead ELSE 0)
<1> USE DEF StoreInv
<1> DEFINE InTime == /\ IdOf(call'[w]) \in DOMAIN offered
                     /\ now - offered[IdOf(call'[w])].at
                          < TTL + (IF shared THEN MaxAhead ELSE 0)
<1>1. now \in Nat /\ ahead \in [Workers -> 0 .. MaxAhead]
  BY DEF StoreTypeOK
<1>2. ASSUME NEW id \in ChallengeIds, Pop(w, id) PROVE InTime
  <2>1. PICK e \in Live(w) : call'[w].challenge = e.challenge /\ ~shared
    BY <1>2, PopKeeps
  <2>2. /\ e \in entries[w] /\ now < e.deadline /\ IdOf(call'[w]) = IdOf(e)
        /\ w \in Stores
    BY <2>1 DEF Live, IdOf, Stores
  <2>3. IdOf(e) \in DOMAIN offered /\ e.deadline <= offered[IdOf(e)].at + TTL
    BY <2>2 DEF HeldAsOffered, IsOffered, IdOf, Deadlines
  <2>4. e.deadline \in Int /\ offered[IdOf(e)].at \in Int
    BY <2>2, <2>3, StoreShape
  <2> QED BY <1>1, <2>1, <2>2, <2>3, <2>4
<1>3. CASE HandOut(w)
  <2> DEFINE challenge == call[w].challenge
             id == challenge.challenge_id
  <2>1. /\ call[w].pc = "fetched" /\ w \in Fetched
        /\ ~is_expired(challenge, Wall(w), 0)
        /\ IdOf(call'[w]) = id
    BY <1>3, HandOutKeeps DEF HandOut, Fetched, IdOf, Holding
  <2>2. id \in DOMAIN offered /\ offered[id].challenge = challenge
    BY <2>1 DEF HeldAsOffered, IsOffered
  <2>3. /\ challenge.expires_at <= offered[id].at + MaxAhead + TTL
        /\ offered[id].at \in Int /\ challenge.expires_at \in Int
    BY <2>2, StoreShape DEF Deadlines
  <2>4. ~(Wall(w) - 0 >= challenge.expires_at) /\ Wall(w) \in Int /\ now <= Wall(w)
    BY <1>1, <2>1 DEF is_expired, Wall
  <2>5. shared
    BY <2>1 DEF OnePlace
  <2> QED BY <1>1, <2>1, <2>2, <2>3, <2>4, <2>5
<1>4. ASSUME NEW v \in Workers, NEW id \in ChallengeIds, Consume(v, id) PROVE InTime
  <2>1. CASE Pop(v, id) /\ v = w
    BY <1>2, <2>1
  <2>2. ~(Pop(v, id) /\ v # w)
    BY PopKeeps
  <2>3. ~GetDel(v, id)
    BY GetDelKeeps
  <2> QED BY <1>4, <2>1, <2>2, <2>3 DEF Consume
<1>5. ASSUME NEW v \in Workers, HandOut(v) PROVE InTime
  <2>1. v = w
    BY <1>5, HandOutKeeps
  <2> QED BY <1>3, <1>5, <2>1
<1>6. ~(Tick \/ Vanish) /\ ~UNCHANGED storeVars
  BY PassingKeeps DEF storeVars
<1>7. ASSUME NEW v \in Workers
      PROVE  ~Forgetting(v) /\ ~Draft(v) /\ ~Insert(v)
  BY ForgettingSteps, DraftKeeps, InsertKeeps DEF Idle
<1> HIDE DEF InTime
<1> QED BY <1>4, <1>5, <1>6, <1>7 DEF StoreNext, InTime

-----------------------------------------------------------------------------
(* The service                                                             *)

\* A worker's session goes with its call, what it accepted was meant, and what it
\* is paying was authorised by the books as it read them.
Sound(w) ==
  /\ session[w] \in Sessions
  /\ session[w].pc = "received" <=> call[w].pc \in {"fetched", "holding"}
  /\ session[w].pc = "received" => session[w].response.challenge_id = IdOf(call[w])
  /\ session[w].pc = "proved" =>
       LET response == session[w].response
           challenge == offered[response.challenge_id].challenge
       IN /\ response.challenge_id \in DOMAIN offered
          /\ challenge.audience = AudienceOf[w]
          /\ response = create(response.address, response.address, challenge)
  /\ session[w].pc = "paying" =>
       /\ session[w].links_scopes \in HeldBy[session[w].agent]
       /\ MayPay(session[w].links_scopes, session[w].asset, session[w].amount,
                 session[w].spent_so_far)

ServiceInv ==
  /\ StoreInv
  /\ session \in [Workers -> Sessions]
  /\ spent \in [Agents -> [Assets -> Nat]]
  /\ \A w \in Workers : Sound(w)

\* A session, by its place.
LEMMA SessionShape ==
  ASSUME NEW s \in Sessions
  PROVE  /\ s.pc \in {"closed", "received", "proved", "paying"}
         /\ s.pc = "closed" <=> s = Closed
         /\ s.pc = "paying" =>
              /\ s.agent \in Agents /\ s.asset \in Assets
              /\ s.amount \in Nat /\ s.spent_so_far \in Nat
         /\ s.pc \in {"received", "proved"} =>
              /\ s.response \in Responses /\ s.response.address \in Agents
              /\ [s EXCEPT !.pc = "proved"] \in Sessions
              /\ [s EXCEPT !.pc = "proved"].pc = "proved"
              /\ [s EXCEPT !.pc = "proved"].response = s.response
         /\ Closed \in Sessions /\ Closed.pc = "closed"
<1>1. CASE s \in [pc : {"received", "proved"},
                 response : {r \in Responses : r.address \in Agents}]
  BY <1>1 DEF Sessions, Closed
<1>2. CASE s = Closed
  BY <1>2 DEF Sessions, Closed
<1>3. CASE s \in [pc : {"paying"}, agent : Agents, asset : Assets,
                 links_scopes : UNION {HeldBy[agent] : agent \in Agents},
                 amount : Nat, spent_so_far : Nat]
  BY <1>3 DEF Sessions, Closed
<1> QED BY <1>1, <1>2, <1>3 DEF Sessions

\* A response to an offered challenge is a response, in the name of an agent.
LEMMA AnswersShape ==
  ASSUME StoreTypeOK, NEW id \in DOMAIN offered, NEW response \in Answers(id)
  PROVE  /\ response \in Responses /\ response.address \in Agents
         /\ response.challenge_id \in ChallengeIds
<1> USE AgentsAssumption, ImpostorsAssumption
<1> DEFINE challenge == offered[id].challenge
<1>1. challenge \in Challenges
  BY StoreShape
<1> HIDE DEF challenge
<1>2. ASSUME NEW c \in Shown(challenge) PROVE c \in Challenges
  BY <1>1, <1>2 DEF Shown, Challenges
<1>3. ASSUME NEW keys \in Addresses, NEW agent \in Agents, NEW c \in Challenges
      PROVE  /\ create(keys, agent, c) \in Responses
             /\ create(keys, agent, c).address \in Agents
  BY <1>3 DEF create, Responses, Challenges
<1>4. response \in Responses /\ response.address \in Agents
  BY <1>2, <1>3 DEF Answers, challenge
<1> QED BY <1>4 DEF Responses

\* What a service does to its stores is what stores do.
LEMMA NextIsStoreNext ==
  ASSUME StoreTypeOK, Next
  PROVE  [StoreNext]_storeVars
<1>1. ASSUME Environment PROVE StoreNext
  BY <1>1 DEF Environment, StoreNext, Forgetting
<1>2. ASSUME NEW w \in Workers, Issuing(w) PROVE StoreNext
  BY <1>2 DEF Issuing, StoreNext, Forgetting
<1>3. ASSUME NEW w \in Workers, NEW id \in DOMAIN offered,
             NEW response \in Answers(id), Receive(w, response)
      PROVE  StoreNext
  BY <1>3, AnswersShape DEF Receive, StoreNext
<1>4. ASSUME NEW w \in Workers, Obtain(w) \/ GoWithout(w) \/ Accept(w) \/ Refuse(w) \/ Fail(w)
      PROVE  StoreNext
  BY <1>4 DEF Obtain, GoWithout, Accept, Refuse, Fail, StoreNext, Forgetting
<1>5. ASSUME NEW w \in Workers, Serving(w) PROVE UNCHANGED storeVars
  BY <1>5 DEF Serving, Seal, Authorise, Book
<1> QED BY <1>1, <1>2, <1>3, <1>4, <1>5 DEF Next, Proving

\* A worker whose session and call stay is as sound as it was.
LEMMA StaysSound ==
  ASSUME NEW w \in Workers, Sound(w), OfferedGrows, session'[w] = session[w],
         \/ call'[w] = call[w]
         \/ /\ {call[w].pc, call'[w].pc} \cap {"fetched", "holding"} = {}
  PROVE  Sound(w)'
BY DEF Sound, OfferedGrows, IdOf

\* One worker's session changes to one that is sound, and so does its call.
LEMMA WorkerKeeps ==
  ASSUME ServiceInv, StoreInv', OfferedGrows, NEW w \in Workers, NEW s \in Sessions,
         session' = [session EXCEPT ![w] = s],
         \A v \in Workers : v # w => call'[v] = call[v],
         Sound(w)',
         spent' \in [Agents -> [Assets -> Nat]]
  PROVE  ServiceInv'
<1>1. \A v \in Workers : v # w => session'[v] = session[v]
  BY DEF ServiceInv
<1>2. \A v \in Workers : v # w => Sound(v)'
  BY <1>1, StaysSound DEF ServiceInv
<1>3. session' \in [Workers -> Sessions]
  BY DEF ServiceInv
<1> QED BY <1>2, <1>3 DEF ServiceInv

\* A step that leaves sessions and the ledger alone, and takes no call to or
\* from a consumer's place.
LEMMA QuietKeeps ==
  ASSUME ServiceInv, StoreInv', OfferedGrows, UNCHANGED <<session, spent>>,
         \A w \in Workers :
           \/ call'[w] = call[w]
           \/ {call[w].pc, call'[w].pc} \cap {"fetched", "holding"} = {}
  PROVE  ServiceInv'
<1>1. \A w \in Workers : Sound(w)'
  BY StaysSound DEF ServiceInv
<1> QED BY <1>1 DEF ServiceInv

LEMMA EnvironmentKeeps ==
  ASSUME ServiceInv, StoreInv', OfferedGrows, Environment
  PROVE  ServiceInv'
<1>1. UNCHANGED call
  BY DEF Environment, Tick, Vanish, AdjustClock, Prune
<1> QED BY <1>1, QuietKeeps DEF Environment

LEMMA IssuingKeeps ==
  ASSUME ServiceInv, StoreInv', OfferedGrows, NEW w \in Workers, Issuing(w)
  PROVE  ServiceInv'
<1>1. /\ {call[w].pc, call'[w].pc} \cap {"fetched", "holding"} = {}
      /\ \A v \in Workers : v # w => call'[v] = call[v]
  <2>1. CASE Draft(w) \/ Insert(w)
    BY <2>1, DraftKeeps, InsertKeeps DEF Idle, ServiceInv
  <2>2. CASE SetLost(w)
    <3>1. call[w].pc = "drafted" /\ call' = [call EXCEPT ![w] = Idle]
      BY <2>2 DEF SetLost
    <3> QED BY <3>1 DEF Idle, ServiceInv, StoreInv, StoreTypeOK
  <2> QED BY <2>1, <2>2 DEF Issuing
<1> QED BY <1>1, QuietKeeps DEF Issuing

LEMMA ReceiveKeeps ==
  ASSUME ServiceInv, StoreInv', OfferedGrows, NEW w \in Workers,
         NEW i \in DOMAIN offered, NEW response \in Answers(i), Receive(w, response)
  PROVE  ServiceInv'
<1> USE DEF ServiceInv
<1> DEFINE s == [pc |-> "received", response |-> response]
           id == response.challenge_id
<1>1. /\ s \in Sessions /\ s.pc = "received" /\ s.response = response
      /\ id \in ChallengeIds
  BY AnswersShape DEF StoreInv, Sessions
<1>2. session' = [session EXCEPT ![w] = s] /\ UNCHANGED spent /\ Consume(w, id)
  BY DEF Receive
<1> HIDE DEF s
<1>3. /\ call'[w].pc \in {"fetched", "holding"} /\ IdOf(call'[w]) = id
      /\ \A v \in Workers : v # w => call'[v] = call[v]
  <2>1. CASE Pop(w, id)
    BY <1>1, <2>1, PopKeeps DEF IdOf
  <2>2. CASE GetDel(w, id)
    BY <1>1, <2>2, GetDelKeeps
  <2> QED BY <1>2, <2>1, <2>2 DEF Consume
<1>4. session'[w] = s
  BY <1>2
<1>5. Sound(w)'
  BY <1>1, <1>3, <1>4 DEF Sound
<1> QED BY <1>1, <1>2, <1>3, <1>5, WorkerKeeps

LEMMA ObtainKeeps ==
  ASSUME ServiceInv, StoreInv', OfferedGrows, NEW w \in Workers, Obtain(w)
  PROVE  ServiceInv'
<1> USE DEF ServiceInv
<1>1. /\ call[w].pc = "fetched" /\ call'[w].pc = "holding"
      /\ IdOf(call'[w]) = IdOf(call[w])
      /\ \A v \in Workers : v # w => call'[v] = call[v]
      /\ UNCHANGED <<session, spent>>
  <2>1. HandOut(w) /\ call[w].pc = "fetched" /\ UNCHANGED <<session, spent>>
    BY DEF Obtain, HandOut
  <2>2. call'[w] = Holding(call[w].challenge) /\ \A v \in Workers : v # w => call'[v] = call[v]
    BY <2>1, HandOutKeeps
  <2> QED BY <2>1, <2>2 DEF Holding, IdOf
<1>2. Sound(w)'
  BY <1>1 DEF Sound
<1>3. \A v \in Workers : v # w => Sound(v)'
  BY <1>1, StaysSound
<1> QED BY <1>1, <1>2, <1>3

\* The session ends, and no consumer's call is left.
LEMMA ClosingKeeps ==
  ASSUME ServiceInv, StoreInv', OfferedGrows, NEW w \in Workers,
         session' = [session EXCEPT ![w] = Closed],
         call'[w].pc \notin {"fetched", "holding"},
         \A v \in Workers : v # w => call'[v] = call[v],
         spent' \in [Agents -> [Assets -> Nat]]
  PROVE  ServiceInv'
<1>1. Closed \in Sessions /\ session'[w] = Closed /\ Closed.pc = "closed"
  BY DEF ServiceInv, Sessions, Closed
<1>2. Sound(w)'
  BY <1>1 DEF Sound
<1> QED BY <1>1, <1>2, WorkerKeeps

\* What verify accepts is the holder's own answer to this service's challenge.
LEMMA AcceptKeeps ==
  ASSUME ServiceInv, StoreInv', OfferedGrows, NEW w \in Workers, Accept(w)
  PROVE  ServiceInv' /\ session'[w].response = session[w].response
<1> USE DEF ServiceInv
<1> DEFINE response == session[w].response
           challenge == call[w].challenge
           s == [session[w] EXCEPT !.pc = "proved"]
<1>1. /\ call[w].pc = "holding" /\ session[w].pc = "received"
      /\ call' = [call EXCEPT ![w] = Idle]
      /\ session' = [session EXCEPT ![w] = s]
      /\ UNCHANGED <<offered, spent>>
  BY DEF Accept, Release, Sound
<1>2. /\ s \in Sessions /\ s.pc = "proved" /\ s.response = response
      /\ response \in Responses
  BY <1>1, SessionShape
<1>3. IsOffered(challenge) /\ challenge \in Challenges
  BY <1>1, StoreShape, StoreCallShape DEF StoreInv, HeldAsOffered
<1>4. /\ response.audience = challenge.audience /\ challenge.audience = AudienceOf[w]
      /\ response.challenge_id = challenge.challenge_id
      /\ response.purpose = challenge.purpose /\ response.signature = response.address
  BY DEF Accept, Accepts, verify, Matches
<1>5. response = create(response.address, response.address, challenge)
  BY <1>2, <1>4 DEF Responses, create
<1>6. /\ response.challenge_id \in DOMAIN offered
      /\ offered[response.challenge_id].challenge = challenge
  BY <1>3, <1>4 DEF IsOffered
<1> HIDE DEF s, response, challenge
<1>7. /\ call'[w] = Idle /\ session'[w] = s
      /\ \A v \in Workers : v # w => call'[v] = call[v]
  BY <1>1 DEF StoreInv, StoreTypeOK
<1>8. Sound(w)'
  <2>1. call'[w].pc \notin {"fetched", "holding"}
    BY <1>7 DEF Idle
  <2>2. session'[w].pc = "proved" /\ session'[w].response = response /\ session'[w] \in Sessions
    BY <1>2, <1>7
  <2> QED BY <1>1, <1>4, <1>5, <1>6, <2>1, <2>2 DEF Sound
<1>9. session'[w].response = session[w].response
  BY <1>2, <1>7 DEF response
<1> QED BY <1>1, <1>2, <1>7, <1>8, <1>9, WorkerKeeps

\* Refuse, GoWithout, Fail.
LEMMA EndingKeeps ==
  ASSUME ServiceInv, StoreInv', OfferedGrows, NEW w \in Workers,
         Refuse(w) \/ GoWithout(w) \/ Fail(w)
  PROVE  ServiceInv'
<1>1. /\ call' = [call EXCEPT ![w] = Idle]
      /\ session' = [session EXCEPT ![w] = Closed]
      /\ UNCHANGED spent
  BY DEF Refuse, GoWithout, Fail, Release, Withhold, ReplyLost, Stop
<1>2. call'[w].pc = "idle" /\ \A v \in Workers : v # w => call'[v] = call[v]
  BY <1>1 DEF ServiceInv, StoreInv, StoreTypeOK, Idle
<1> QED BY <1>1, <1>2, ClosingKeeps DEF ServiceInv

LEMMA SealKeeps ==
  ASSUME ServiceInv, StoreInv', OfferedGrows, NEW w \in Workers,
         NEW agent_card \in CardsSeen, Seal(w, agent_card)
  PROVE  ServiceInv'
<1>1. /\ session' = [session EXCEPT ![w] = Closed] /\ UNCHANGED <<call, spent>>
      /\ call[w].pc \notin {"fetched", "holding"}
  BY DEF Seal, storeVars, ServiceInv, Sound
<1> QED BY <1>1, ClosingKeeps DEF ServiceInv

\* A payment that is authorised is one of the agent that was proved.
LEMMA AuthoriseKeeps ==
  ASSUME ServiceInv, StoreInv', OfferedGrows, NEW w \in Workers,
         NEW links_scopes, NEW asset \in Assets, NEW amount \in Amounts,
         Authorise(w, links_scopes, asset, amount)
  PROVE  ServiceInv'
<1> DEFINE agent == Proven(w)
           spent_so_far == spent[agent][asset]
           s == [pc |-> "paying", agent |-> agent, links_scopes |-> links_scopes,
                 asset |-> asset, amount |-> amount, spent_so_far |-> spent_so_far]
<1>1. /\ session[w].pc = "proved" /\ links_scopes \in HeldBy[agent]
      /\ MayPay(links_scopes, asset, amount, spent_so_far)
      /\ session' = [session EXCEPT ![w] = s]
      /\ UNCHANGED <<call, spent>>
      /\ call[w].pc \notin {"fetched", "holding"}
  BY DEF Authorise, storeVars, ServiceInv, Sound
<1>2. agent \in Agents
  <2>1. session[w] \in Sessions
    BY DEF ServiceInv
  <2> QED BY <1>1, <2>1, SessionShape DEF Proven
<1>3. spent_so_far \in Nat /\ amount \in Nat
  <2>1. amount >= 0
    BY <1>1 DEF MayPay
  <2> QED BY <1>2, <2>1, AmountsAssumption DEF ServiceInv
<1>4. /\ s.pc = "paying" /\ s.agent = agent /\ s.links_scopes = links_scopes
      /\ s.asset = asset /\ s.amount = amount /\ s.spent_so_far = spent_so_far
  OBVIOUS
<1> HIDE DEF agent, spent_so_far
<1>5. s \in Sessions
  BY <1>1, <1>2, <1>3 DEF Sessions
<1> HIDE DEF s
<1>6. session'[w] = s
  BY <1>1 DEF ServiceInv
<1>7. Sound(w)'
  BY <1>1, <1>4, <1>5, <1>6 DEF Sound
<1>8. spent' \in [Agents -> [Assets -> Nat]]
  BY <1>1 DEF ServiceInv
<1> QED BY <1>1, <1>5, <1>7, <1>8, WorkerKeeps

\* The books only take in amounts that are not negative.
LEMMA BookKeeps ==
  ASSUME ServiceInv, StoreInv', OfferedGrows, NEW w \in Workers, Book(w)
  PROVE  /\ ServiceInv'
         /\ LET payment == session[w]
            IN spent'[payment.agent][payment.asset]
                 = spent[payment.agent][payment.asset] + payment.amount
<1> DEFINE agent == session[w].agent
           asset == session[w].asset
           amount == session[w].amount
<1>1. /\ session[w].pc = "paying" /\ UNCHANGED call
      /\ session' = [session EXCEPT ![w] = Closed]
      /\ spent' = [spent EXCEPT ![agent][asset] = @ + amount]
      /\ call[w].pc \notin {"fetched", "holding"}
  BY DEF Book, storeVars, ServiceInv, Sound
<1>2. agent \in Agents /\ asset \in Assets /\ amount \in Nat
  <2>1. session[w] \in Sessions
    BY DEF ServiceInv
  <2> QED BY <1>1, <2>1, SessionShape
<1>3. spent \in [Agents -> [Assets -> Nat]]
  BY DEF ServiceInv
<1> HIDE DEF agent, asset, amount
<1>4. spent' = [spent EXCEPT ![agent] = [spent[agent] EXCEPT ![asset] = spent[agent][asset] + amount]]
  BY <1>1
<1>5. spent[agent] \in [Assets -> Nat] /\ spent[agent][asset] + amount \in Nat
  BY <1>2, <1>3
<1>6. [spent[agent] EXCEPT ![asset] = spent[agent][asset] + amount] \in [Assets -> Nat]
  BY <1>5
<1>7. /\ spent' \in [Agents -> [Assets -> Nat]]
      /\ spent'[agent][asset] = spent[agent][asset] + amount
  BY <1>2, <1>3, <1>4, <1>5, <1>6
<1> QED BY <1>1, <1>7, ClosingKeeps DEF agent, asset, amount

-----------------------------------------------------------------------------
(* The theorems                                                            *)

LEMMA InitService == Init => ServiceInv
<1> SUFFICES ASSUME Init PROVE ServiceInv
  OBVIOUS
<1>1. StoreInv
  BY InitStore DEF Init
<1>2. \A w \in Workers : session[w] = Closed /\ call[w] = Idle
  BY DEF Init, StoreInit
<1>3. \A w \in Workers : Sound(w)
  BY <1>2 DEF Sound, Sessions, Closed, Idle
<1>4. session \in [Workers -> Sessions] /\ spent \in [Agents -> [Assets -> Nat]]
  BY DEF Init, Sessions
<1> QED BY <1>1, <1>3, <1>4 DEF ServiceInv

LEMMA NextService ==
  ASSUME ServiceInv, [Next]_vars
  PROVE  ServiceInv' /\ [StoreNext]_storeVars
<1>1. [StoreNext]_storeVars
  BY NextIsStoreNext DEF vars, ServiceInv, StoreInv
<1>2. StoreInv' /\ OfferedGrows
  BY <1>1, StoreStep DEF ServiceInv
<1>3. ASSUME NEW w \in Workers, Serving(w) PROVE ServiceInv'
  BY <1>2, <1>3, SealKeeps, AuthoriseKeeps, BookKeeps DEF Serving
<1>4. ASSUME NEW w \in Workers, Proving(w) PROVE ServiceInv'
  BY <1>2, <1>4, ReceiveKeeps, ObtainKeeps, EndingKeeps, AcceptKeeps DEF Proving
<1>5. CASE UNCHANGED vars
  BY <1>2, <1>5, QuietKeeps DEF vars, storeVars
<1> QED BY <1>1, <1>2, <1>3, <1>4, <1>5, EnvironmentKeeps, IssuingKeeps, EndingKeeps DEF Next

LEMMA ServiceInvariance == Spec => []ServiceInv
BY InitService, NextService, PTL DEF Spec

\* Sessions and calls are of the right kind, and the ledger never falls below
\* zero: handlers as Service has them.
THEOREM TypeCorrect == Spec => []TypeOK
<1>1. ServiceInv => TypeOK
  BY DEF ServiceInv, StoreInv, Sound, TypeOK
<1> QED BY <1>1, ServiceInvariance, PTL

\* "A proof collected by one service can never be replayed to another": what a
\* worker accepts, the address's own holder answered to its own service.
THEOREM AcceptedAnswersThisService == Spec => []AcceptedIsMeant
<1>1. ServiceInv => AcceptedIsMeant
  BY DEF ServiceInv, Sound, AcceptedIsMeant
<1> QED BY <1>1, ServiceInvariance, PTL

\* "A challenge returned once MUST never be returned again": both stores of
\* challenge_store.py implement a once-only store, under lost replies, stopped
\* workers, entries that vanish and clocks that jump.
THEOREM StoresAreOnceStores == Spec => RefinesOnceStore
<1>1. Init => Abstract!Init
  BY InitStore DEF Init, Abstract!Init, StoreInit
<1>2. ServiceInv /\ [Next]_vars => [Abstract!Next]_<<Open, handed>>
  BY NextService, StoreStep DEF ServiceInv
<1> QED BY <1>1, <1>2, ServiceInvariance, PTL DEF Spec, RefinesOnceStore, Abstract!Spec

\* So nothing is ever handed out twice.
THEOREM NothingTwice == Spec => [](\A id \in ChallengeIds : handed[id] <= 1)
<1>1. ServiceInv => \A id \in ChallengeIds : handed[id] <= 1
  BY DEF ServiceInv, StoreInv, HandedOnce
<1> QED BY <1>1, ServiceInvariance, PTL

\* A session gets to "proved" in Accept only.
LEMMA OnlyAcceptProves ==
  ASSUME ServiceInv, Next, NEW w \in Workers,
         session[w].pc # "proved", session'[w].pc = "proved"
  PROVE  Accept(w)
<1> USE DEF ServiceInv
<1>1. session'[w] # session[w] /\ session'[w] # Closed
  BY DEF Closed
<1>2. \A v \in Workers : ~Issuing(v) /\ ~Obtain(v) /\ ~GoWithout(v) /\ ~Refuse(v) /\ ~Fail(v)
  BY <1>1 DEF Issuing, Obtain, GoWithout, Refuse, Fail
<1>3. \A v \in Workers : ~Serving(v)
  BY <1>1 DEF Serving, Seal, Authorise, Book
<1>4. ASSUME NEW v \in Workers, NEW response PROVE ~Receive(v, response)
  <2>1. SUFFICES ASSUME Receive(v, response) PROVE FALSE
    OBVIOUS
  <2>2. session' = [session EXCEPT ![v] = [pc |-> "received", response |-> response]]
    BY <2>1 DEF Receive
  <2>3. v = w
    BY <1>1, <2>2
  <2> QED BY <2>2, <2>3
<1>5. ASSUME NEW v \in Workers, Accept(v) PROVE v = w
  BY <1>1, <1>5 DEF Accept
<1>6. ~Environment
  BY <1>1 DEF Environment
<1> QED BY <1>2, <1>3, <1>4, <1>5, <1>6 DEF Next, Proving

\* "Never hand back an expired challenge": in real time, within what the clocks
\* can differ by, and so for the proofs that are accepted.
THEOREM AcceptedWithinTTL == Spec => AcceptedInTime
<1>1. ASSUME ServiceInv, [Next]_vars, NEW w \in Workers,
             call[w].pc # "holding", call'[w].pc = "holding"
      PROVE  now - offered[session'[w].response.challenge_id].at
               < TTL + (IF shared THEN MaxAhead ELSE 0)
  <2>1. ServiceInv' /\ [StoreNext]_storeVars
    BY <1>1, NextService
  <2>2. session'[w].response.challenge_id = IdOf(call'[w])
    BY <1>1, <2>1 DEF ServiceInv, Sound
  <2> QED BY <1>1, <2>1, <2>2, HandedInTime DEF ServiceInv
<1>2. ASSUME ServiceInv, Next, NEW w \in Workers,
             session[w].pc # "proved", session'[w].pc = "proved"
      PROVE  now - offered[session'[w].response.challenge_id].at < TTL + MaxAhead + Leeway
  <2> DEFINE challenge == call[w].challenge
             id == challenge.challenge_id
  <2>1. Accept(w)
    BY <1>2, OnlyAcceptProves
  <2>2. StoreInv' /\ OfferedGrows
    BY <1>2, NextService, StoreStep DEF ServiceInv
  <2>3. session'[w].response = session[w].response
    BY <1>2, <2>1, <2>2, AcceptKeeps
  <2>4. /\ call[w].pc = "holding" /\ session[w].response.challenge_id = id
        /\ ~(Wall(w) - Leeway >= challenge.expires_at)
    BY <2>1 DEF Accept, Release, Accepts, verify, Matches, is_expired
  <2>5. id \in DOMAIN offered /\ offered[id].challenge = challenge
    BY <1>2, <2>4 DEF ServiceInv, StoreInv, HeldAsOffered, IsOffered
  <2>6. /\ challenge.expires_at <= offered[id].at + MaxAhead + TTL
        /\ offered[id].at \in Int /\ challenge.expires_at \in Int
    BY <1>2, <2>5, StoreShape DEF ServiceInv, StoreInv, Deadlines
  <2>7. now \in Nat /\ Wall(w) \in Int /\ now <= Wall(w)
    BY <1>2 DEF ServiceInv, StoreInv, StoreTypeOK, Wall
  <2> HIDE DEF challenge
  <2> QED BY <2>3, <2>4, <2>5, <2>6, <2>7, LeewayAssumption
<1>3. ServiceInv /\ [Next]_vars =>
        [\A w \in Workers :
           LET age == now - offered[session'[w].response.challenge_id].at
           IN /\ call[w].pc # "holding" /\ call'[w].pc = "holding" =>
                   age < TTL + (IF shared THEN MaxAhead ELSE 0)
              /\ session[w].pc # "proved" /\ session'[w].pc = "proved" =>
                   age < TTL + MaxAhead + Leeway]_vars
  BY <1>1, <1>2
<1> QED BY <1>3, ServiceInvariance, PTL DEF Spec, AcceptedInTime

\* A card that resolves a DID leads to the DID's own holder: AgentCard.verify
\* ties the card to the address, and the holder signs no other agreement key.
LEMMA ResolvesToHolder ==
  ASSUME NEW c \in CardsSeen, NEW address, resolves(address, c)
  PROVE  seal_target(c) = address
<1>1. /\ c.address = address /\ c.signature = c.address /\ c \in AgentCards
      /\ c.address \in Addresses
  BY DEF resolves, verify_card, CardsSeen, AgentCards
<1>2. PICK prekey \in {c.address, None} : c = card(c.address, prekey, c.critical)
  BY <1>1 DEF CardsSeen
<1>3. c.agreement_key = address /\ c.agreement_prekey = prekey
  <2>1. card(c.address, prekey, c.critical).agreement_key = c.address
    BY DEF card
  <2>2. card(c.address, prekey, c.critical).agreement_prekey = prekey
    BY DEF card
  <2> QED BY <1>1, <1>2, <2>1, <2>2
<1> QED BY <1>1, <1>2, <1>3 DEF seal_target

\* Only its holder opens what is sealed to an address that was proved.
THEOREM SealedToHolder == Spec => SealedForProven
<1>1. [Next]_vars =>
        [\A w \in Workers : session[w].pc = "proved" =>
           \A c \in CardsSeen : Seal(w, c) => seal_target(c) = Proven(w)]_vars
  BY ResolvesToHolder DEF Seal
<1> QED BY <1>1, PTL DEF Spec, SealedForProven

\* The composition of caps is within each of them.
LEMMA MinCap ==
  ASSUME NEW caps \in SUBSET Caps, NEW cap \in caps, NEW amount \in Int,
         Within(amount, min_cap(caps))
  PROVE  Within(amount, cap)
<1> SUFFICES ASSUME cap # None PROVE amount <= cap
  BY DEF Within
<1> DEFINE numbers == caps \ {None}
<1>1. numbers \subseteq Nat /\ cap \in numbers /\ None \notin Nat
  BY NoneAssumption DEF Caps
<1>2. \E x \in numbers : \A y \in numbers : x <= y
  BY <1>1, LeastElement
<1>3. Min(numbers) \in numbers /\ \A y \in numbers : Min(numbers) <= y
  BY <1>2 DEF Min
<1>4. min_cap(caps) = Min(numbers)
  BY <1>1 DEF min_cap
<1>5. amount <= Min(numbers)
  BY <1>1, <1>3, <1>4 DEF Within
<1>6. Min(numbers) \in Nat /\ Min(numbers) <= cap /\ cap \in Nat
  BY <1>1, <1>3
<1> HIDE DEF numbers
<1> QED BY <1>5, <1>6

\* The place sums are rounded at is a power of ten, and no further left than the
\* digits that are kept reach.
LEMMA PlaceShape ==
  ASSUME NEW n \in Nat
  PROVE  LET place == LastPlace(n)
         IN /\ place \in Nat \ {0}
            /\ \/ place = 1
               \/ \E f \in PowersOfTen : place = 10 * f /\ f * ExactBelow <= n
<1> USE PowersOfTenAssumption, ExactBelowAssumption
<1> DEFINE S == {e \in PowersOfTen : e = 1 \/ (e \div 10) * ExactBelow <= n}
           B == {k \in Nat : \E e \in S : k = 10 * n + 10 - e}
<1>1. ASSUME NEW e \in S, e # 1
      PROVE  \E f \in PowersOfTen : e = 10 * f /\ f * ExactBelow <= n /\ f <= n
  <2>1. PICK f \in PowersOfTen : e = 10 * f
    BY <1>1
  <2>2. f \in Nat /\ f >= 1 /\ ExactBelow \in Nat /\ ExactBelow >= 1
    OBVIOUS
  <2>3. e \div 10 = f
    BY <2>1, <2>2
  <2>4. f * ExactBelow <= n
    BY <1>1, <2>3
  <2>5. f <= f * ExactBelow /\ f * ExactBelow \in Nat
    BY <2>2
  <2> QED BY <2>1, <2>2, <2>4, <2>5
<1>2. \A e \in S : e \in Nat \ {0} /\ e <= 10 * n + 10
  <2>1. ASSUME NEW e \in S PROVE e \in Nat \ {0} /\ e <= 10 * n + 10
    <3>1. e \in Nat \ {0}
      OBVIOUS
    <3>2. CASE e = 1 BY <3>2
    <3>3. CASE e # 1
      <4>1. PICK f \in PowersOfTen : e = 10 * f /\ f <= n
        BY <1>1, <3>3
      <4> HIDE DEF S
      <4> QED BY <3>1, <4>1
    <3> QED BY <3>1, <3>2, <3>3
  <2> QED BY <2>1
<1>3. 1 \in S
  OBVIOUS
<1> HIDE DEF S
<1>4. B # {} /\ B \subseteq Nat
  <2>1. 10 * n + 10 - 1 \in B
    BY <1>3
  <2> QED BY <2>1
<1>5. PICK k \in B : \A j \in B : k <= j
  BY <1>4, LeastElement
<1>6. PICK e \in S : k = 10 * n + 10 - e
  BY <1>5
<1>7. ASSUME NEW d \in S PROVE d <= e
  <2>1. d \in Nat /\ e \in Nat /\ d <= 10 * n + 10 /\ 10 * n + 10 - d \in Nat
    BY <1>2
  <2>2. 10 * n + 10 - d \in B
    BY <2>1
  <2>3. k <= 10 * n + 10 - d
    BY <1>5, <2>2
  <2> QED BY <1>6, <2>1, <2>3
<1>8. LastPlace(n) \in S
  BY <1>6, <1>7 DEF LastPlace, Max, S
<1> QED BY <1>1, <1>2, <1>8

\* A sum is rounded by at most half of its last place; one below ExactBelow is
\* not rounded at all, and no other is rounded below it.
LEMMA SumsRound ==
  ASSUME NEW n \in Nat
  PROVE  /\ Rounded(n) \in Nat
         /\ 2 * (n - Rounded(n)) <= LastPlace(n)
         /\ n < ExactBelow => Rounded(n) = n
         /\ n >= ExactBelow => Rounded(n) >= ExactBelow
<1> DEFINE place == LastPlace(n)
           rest == n % place
           quotient == n \div place
<1>1. /\ place \in Nat \ {0}
      /\ \/ place = 1
         \/ \E f \in PowersOfTen : place = 10 * f /\ f * ExactBelow <= n
  BY PlaceShape
<1>2. ExactBelow \in Nat /\ ExactBelow >= 1 /\ PowersOfTen \subseteq Nat \ {0}
  BY PowersOfTenAssumption, ExactBelowAssumption
<1>3. /\ rest \in 0 .. (place - 1) /\ quotient \in Nat
      /\ n = place * quotient + rest
  <2> HIDE DEF place
  <2> QED BY <1>1
<1>4. \/ Rounded(n) = n - rest /\ 2 * rest <= place
      \/ Rounded(n) = n - rest + place
  <2>1. /\ Rounded(n) \in {n - rest, n - rest + place}
        /\ Rounded(n) = n - rest + place \/ 2 * rest < place \/ 2 * rest = place
    BY DEF Rounded
  <2>2. rest \in Int /\ place \in Int
    BY <1>1, <1>3
  <2> HIDE DEF rest, place
  <2> QED BY <2>1, <2>2
<1> HIDE DEF place
<1>5. n < ExactBelow => place = 1
  <2>1. SUFFICES ASSUME n < ExactBelow, NEW f \in PowersOfTen, f * ExactBelow <= n
                 PROVE FALSE
    BY <1>1
  <2>2. f \in Nat /\ f >= 1
    BY <1>2
  <2>3. ExactBelow <= f * ExactBelow /\ f * ExactBelow \in Nat
    BY <1>2, <2>2
  <2> QED BY <1>2, <2>1, <2>3
<1>6. place = 1 => rest = 0
  BY <1>3
<1>7. n >= ExactBelow => n - rest >= ExactBelow
  <2>1. CASE place = 1
    BY <1>6, <2>1
  <2>2. CASE place # 1
    <3>1. PICK f \in PowersOfTen : place = 10 * f /\ f * ExactBelow <= n
      BY <1>1, <2>2
    <3>2. PICK g \in PowersOfTen : ExactBelow = 10 * g
      BY PowersOfTenAssumption, ExactBelowAssumption
    <3>3. f \in Nat /\ f >= 1 /\ g \in Nat /\ g >= 1
      BY <1>2
    <3>4. f * ExactBelow = place * g
      BY <3>1, <3>2, <3>3
    <3>5. g <= quotient
      BY <1>1, <1>3, <3>1, <3>3, <3>4
    <3>6. place * g <= place * quotient
      BY <1>1, <1>3, <3>3, <3>5
    <3>7. ExactBelow <= f * ExactBelow
      BY <1>2, <3>3
    <3>8. /\ f * ExactBelow \in Nat /\ place * quotient \in Nat
          /\ n - rest = place * quotient
      BY <1>1, <1>2, <1>3, <3>3
    <3> HIDE DEF rest, quotient
    <3> QED BY <1>2, <3>4, <3>6, <3>7, <3>8
  <2> QED BY <2>1, <2>2
<1>8. rest \in Nat /\ place \in Nat /\ rest <= n /\ rest < place
  <2>1. place * quotient \in Nat
    BY <1>1, <1>3
  <2> QED BY <1>1, <1>3, <2>1
<1> HIDE DEF rest
<1>9. /\ Rounded(n) \in Nat /\ 2 * (n - Rounded(n)) <= place
      /\ n >= ExactBelow => Rounded(n) >= ExactBelow
  BY <1>2, <1>4, <1>7, <1>8
<1>10. n < ExactBelow => Rounded(n) = n
  <2>1. SUFFICES ASSUME place = 1, rest = 0 PROVE Rounded(n) = n
    BY <1>5, <1>6
  <2> QED BY <2>1 DEF Rounded, place, rest
<1> QED BY <1>9, <1>10 DEF place

\* What a rounded sum passes, the sum passes as far as the rounding goes.
LEMMA RoundedWithin ==
  ASSUME NEW total \in Nat, NEW cap \in Caps, Within(Rounded(total), cap)
  PROVE  WithinPrecision(total, cap)
<1> SUFFICES ASSUME cap # None
             PROVE  IF cap < ExactBelow THEN total <= cap
                    ELSE 2 * (total - cap) <= LastPlace(total)
  BY DEF WithinPrecision
<1>1. cap \in Nat /\ Rounded(total) <= cap
  BY DEF Caps, Within
<1>2. ExactBelow \in Nat /\ LastPlace(total) \in Nat
  BY PowersOfTenAssumption, ExactBelowAssumption, PlaceShape
<1>3. /\ Rounded(total) \in Nat /\ 2 * (total - Rounded(total)) <= LastPlace(total)
      /\ total < ExactBelow => Rounded(total) = total
      /\ total >= ExactBelow => Rounded(total) >= ExactBelow
  BY SumsRound
<1> QED BY <1>1, <1>2, <1>3

\* A payment that may be made is within every scope of every link.
LEMMA MayPayWithin ==
  ASSUME NEW links_scopes \in Seq(SUBSET SpendScopes), NEW asset, NEW amount \in Nat,
         NEW spent_so_far \in Nat, MayPay(links_scopes, asset, amount, spent_so_far),
         NEW i \in DOMAIN links_scopes
  PROVE  LET scopes == About(links_scopes[i], asset)
         IN /\ scopes # {}
            /\ \A s \in scopes : /\ Within(amount, s.tx_cap)
                                 /\ Within(Rounded(spent_so_far + amount), s.total_cap)
<1> DEFINE all == UNION {About(links_scopes[j], asset) : j \in DOMAIN links_scopes}
           scopes == About(links_scopes[i], asset)
<1>1. /\ compose_spend_authority(links_scopes, asset) = intersect(all)
      /\ scopes # {}
  BY DEF MayPay, compose_spend_authority
<1>2. /\ Within(amount, intersect(all).tx_cap)
      /\ Within(Rounded(spent_so_far + amount), intersect(all).total_cap)
  BY <1>1 DEF MayPay
<1>3. /\ intersect(all).tx_cap = min_cap({s.tx_cap : s \in all})
      /\ intersect(all).total_cap = min_cap({s.total_cap : s \in all})
  BY DEF intersect
<1>4. all \subseteq SpendScopes /\ scopes \subseteq all
  BY DEF About
<1> HIDE DEF all, scopes
<1>5. {s.tx_cap : s \in all} \subseteq Caps /\ {s.total_cap : s \in all} \subseteq Caps
  BY <1>4 DEF SpendScopes
<1>6. amount \in Int /\ Rounded(spent_so_far + amount) \in Int
  <2>1. spent_so_far + amount \in Nat
    OBVIOUS
  <2> QED BY <2>1, SumsRound
<1>7. ASSUME NEW s \in scopes
      PROVE  Within(amount, s.tx_cap) /\ Within(Rounded(spent_so_far + amount), s.total_cap)
  <2>1. s.tx_cap \in {t.tx_cap : t \in all} /\ s.total_cap \in {t.total_cap : t \in all}
    BY <1>4
  <2>2. Within(amount, s.tx_cap)
    BY <1>2, <1>3, <1>5, <1>6, <2>1, MinCap
  <2>3. Within(Rounded(spent_so_far + amount), s.total_cap)
    BY <1>2, <1>3, <1>5, <1>6, <2>1, MinCap
  <2> QED BY <2>2, <2>3
<1> QED BY <1>1, <1>7 DEF scopes

\* "A delegate can therefore never spend more than ANY of its delegators
\* allowed", whichever workers book its payments, under whichever chains: to the
\* unit for caps that Decimal sums hold exactly, to half of the last place kept
\* for larger ones, on books that did not change since they were read.
THEOREM PaidWithinCaps == Spec => PaidWithinEveryCap
<1>1. ASSUME ServiceInv, [Next]_vars, NEW w \in Workers, Book(w),
             NEW i \in DOMAIN session[w].links_scopes
      PROVE  LET payment == session[w]
                 scopes == About(payment.links_scopes[i], payment.asset)
             IN /\ scopes # {}
                /\ \A s \in scopes :
                     /\ Within(payment.amount, s.tx_cap)
                     /\ BooksCurrent(payment) =>
                          WithinPrecision(spent'[payment.agent][payment.asset], s.total_cap)
  <2> DEFINE payment == session[w]
             links_scopes == payment.links_scopes
             agent == payment.agent
             asset == payment.asset
             amount == payment.amount
             spent_so_far == payment.spent_so_far
  <2>1. StoreInv' /\ OfferedGrows
    BY <1>1, NextService, StoreStep DEF ServiceInv
  <2>2. spent'[agent][asset] = spent[agent][asset] + amount
    BY <1>1, <2>1, BookKeeps
  <2>3. /\ agent \in Agents /\ amount \in Nat /\ spent_so_far \in Nat
        /\ links_scopes \in HeldBy[agent]
        /\ MayPay(links_scopes, asset, amount, spent_so_far)
    BY <1>1, SessionShape DEF Book, ServiceInv, Sound
  <2>4. links_scopes \in Seq(SUBSET SpendScopes)
    BY <2>3, HeldByAssumption
  <2>5. BooksCurrent(payment) => spent'[agent][asset] = spent_so_far + amount
    BY <2>2 DEF BooksCurrent
  <2> HIDE DEF links_scopes, agent, asset, amount, spent_so_far
  <2>6. /\ About(links_scopes[i], asset) # {}
        /\ \A s \in About(links_scopes[i], asset) :
             /\ Within(amount, s.tx_cap)
             /\ Within(Rounded(spent_so_far + amount), s.total_cap)
    BY <1>1, <2>3, <2>4, MayPayWithin DEF links_scopes
  <2>7. \A s \in About(links_scopes[i], asset) : s.total_cap \in Caps
    BY <1>1, <2>4 DEF About, SpendScopes, links_scopes
  <2>8. \A s \in About(links_scopes[i], asset) :
          WithinPrecision(spent_so_far + amount, s.total_cap)
    BY <2>3, <2>6, <2>7, RoundedWithin
  <2> QED BY <2>5, <2>6, <2>8 DEF links_scopes, agent, asset, amount, spent_so_far
<1>2. ServiceInv /\ [Next]_vars =>
        [\A w \in Workers : Book(w) =>
           LET payment == session[w]
           IN \A i \in DOMAIN payment.links_scopes :
                LET scopes == About(payment.links_scopes[i], payment.asset)
                IN /\ scopes # {}
                   /\ \A s \in scopes :
                        /\ Within(payment.amount, s.tx_cap)
                        /\ BooksCurrent(payment) =>
                             WithinPrecision(spent'[payment.agent][payment.asset],
                                             s.total_cap)]_vars
  BY <1>1
<1> QED BY <1>2, ServiceInvariance, PTL DEF Spec, PaidWithinEveryCap
=============================================================================
