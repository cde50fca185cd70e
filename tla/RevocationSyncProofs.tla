------------------------- MODULE RevocationSyncProofs -------------------------
(***************************************************************************)
(* A consumer's cursor never passes what its registry holds, and the       *)
(* registry is as complete as it looks: for any number of threads, records,*)
(* restarts and entries in a delta.                                        *)
(*                                                                         *)
(* Neither property is inductive. A call carries a promise from step to    *)
(* step (CallCovers): what it resumes from is covered when it asks, what   *)
(* it has yet to apply covers the rest unless it will be refused, and what *)
(* it persists is on disk before its cursor is.                            *)
(***************************************************************************)
EXTENDS RevocationSync, SequenceTheorems, TLAPS

\* What the properties assume of the deployment. Without the first and the
\* second there are counterexamples to CursorCovers and EventuallyRevoked;
\* without the third a registry looks fresher than it is.
StartsFromNothing == StartCursors = {FEED_START_CURSOR}
NoDeltaIsLostWhole == ~LosesWholeDelta
CallersPassTheTime == PassesSyncedAt

USE VerifiedAssumption, MaxLogAssumption, StartCursorsAssumption,
    LosesWholeDeltaAssumption, PassesSyncedAtAssumption,
    MaxRestartsAssumption, NoneAssumption

-----------------------------------------------------------------------------
(* Types                                                                   *)

\* What a call in progress has, by where it is.
LEMMA CallShapes ==
  ASSUME TypeOK, NEW w \in Workers
  PROVE  /\ worker[w].pc = "requested" =>
              /\ worker[w].since \in Cursors \cup StartCursors
              /\ worker[w].began \in Cursors
         /\ worker[w].pc = "applying" =>
              /\ worker[w] = Applying(worker[w].began, worker[w].entries,
                                      worker[w].upto)
              /\ worker[w].began \in Cursors
              /\ worker[w].entries \in Seq(FeedEntries)
              /\ worker[w].upto \in Cursors
         /\ worker[w].pc \in {"applied", "saved"} =>
              /\ worker[w] = [pc |-> worker[w].pc, upto |-> worker[w].upto]
              /\ worker[w].upto \in Cursors
<1>1. worker[w] \in Calls \cup {Idle}
  BY DEF TypeOK
<1> QED BY <1>1 DEF Calls, Idle, Applying

LEMMA CallNumbers ==
  ASSUME TypeOK, NEW w \in Workers
  PROVE  /\ worker[w].pc = "requested" =>
              worker[w].since \in Nat /\ worker[w].began \in Nat
         /\ worker[w].pc = "applying" =>
              worker[w].began \in Nat /\ worker[w].upto \in Nat
         /\ worker[w].pc \in {"applied", "saved"} => worker[w].upto \in Nat
<1>1. Cursors \subseteq Nat /\ StartCursors \subseteq Nat
  BY DEF Cursors
<1> QED BY <1>1, CallShapes

\* What ApplyRecord and PersistSnapshot leave of a call.
LEMMA AppliedOnce ==
  ASSUME TypeOK, NEW w \in Workers, ApplyRecord(w)
  PROVE  worker' = [worker EXCEPT ![w] =
           Applying(worker[w].began, Tail(worker[w].entries), worker[w].upto)]
<1>1. PICK began, entries, upto : worker[w] = Applying(began, entries, upto)
  BY CallShapes DEF ApplyRecord
<1>2. /\ worker[w].began = began
      /\ worker[w].entries = entries
      /\ worker[w].upto = upto
  BY <1>1 DEF Applying
<1>3. worker' = [worker EXCEPT ![w] =
        [Applying(began, entries, upto) EXCEPT !.entries = Tail(entries)]]
  BY <1>1, <1>2 DEF ApplyRecord
<1>4. \A rest : [Applying(began, entries, upto) EXCEPT !.entries = rest] =
                  Applying(began, rest, upto)
  BY DEF Applying
<1> QED BY <1>2, <1>3, <1>4

LEMMA SavedOnce ==
  ASSUME TypeOK, NEW w \in Workers, PersistSnapshot(w)
  PROVE  worker' = [worker EXCEPT ![w] = [pc |-> "saved", upto |-> worker[w].upto]]
<1> DEFINE call == worker[w]
<1>1. call = [pc |-> "applied", upto |-> call.upto]
  BY CallShapes DEF PersistSnapshot
<1>2. worker' = [worker EXCEPT ![w] = [call EXCEPT !.pc = "saved"]]
  BY DEF PersistSnapshot
<1>3. [call EXCEPT !.pc = "saved"] = [pc |-> "saved", upto |-> call.upto]
  <2> HIDE DEF call
  <2> QED BY <1>1
<1> QED BY <1>2, <1>3

LEMMA NewCall ==
  ASSUME TypeOK, NEW w \in Workers, NEW new \in Calls \cup {Idle},
         worker' = [worker EXCEPT ![w] = new]
  PROVE  worker' \in [Workers -> Calls \cup {Idle}]
BY DEF TypeOK

LEMMA CallsAre ==
  /\ Idle \in Calls \cup {Idle}
  /\ \A since \in Cursors \cup StartCursors, began \in Cursors :
       Requested(since, began) \in Calls
  /\ \A began \in Cursors, entries \in Seq(FeedEntries), upto \in Cursors :
       Applying(began, entries, upto) \in Calls
  /\ \A upto \in Cursors, pc \in {"applied", "saved"} :
       [pc |-> pc, upto |-> upto] \in Calls
BY DEF Calls, Requested, Applying

\* The producer's answer is a delta, whatever cursor it is asked for.
LEMMA DeltaType ==
  ASSUME TypeOK, NEW since \in Nat
  PROVE  entries_since(since) \in Seq(FeedEntries)
<1>1. CASE since >= Len(log)
  BY <1>1 DEF entries_since
<1>2. CASE ~ (since >= Len(log))
  <2>1. Len(log) \in Nat /\ Len(log) - since \in Nat
    BY <1>2 DEF TypeOK
  <2>2. \A i \in 1 .. Len(log) - since : Entry(since + i) \in FeedEntries
    BY <1>2, <2>1 DEF TypeOK, Entry, FeedEntries
  <2> QED BY <1>2, <2>1, <2>2 DEF entries_since
<1> QED BY <1>1, <1>2

\* What the transport makes of it is one too.
LEMMA DeliveredType ==
  ASSUME NEW entries \in Seq(FeedEntries), NEW some \in Delivered(entries)
  PROVE  some \in Seq(FeedEntries)
<1>1. CASE some \in Rearranged(entries)
  <2>1. PICK n \in 0 .. Len(entries) + 1 : \E at \in [1 .. n -> DOMAIN entries] :
          some = [i \in DOMAIN at |-> entries[at[i]]]
    BY <1>1 DEF Rearranged
  <2>2. PICK at \in [1 .. n -> DOMAIN entries] :
          some = [i \in DOMAIN at |-> entries[at[i]]]
    BY <2>1
  <2>3. n \in Nat /\ some \in [1 .. n -> FeedEntries]
    BY <2>1, <2>2
  <2> QED BY <2>3
<1>2. CASE some \in Damaged(entries)
  <2>1. PICK i \in DOMAIN entries, r \in Records \ Verified :
          some = [entries EXCEPT ![i].record = r]
    BY <1>2 DEF Damaged
  <2>2. entries[i] \in FeedEntries
    BY <2>1
  <2>3. [entries[i] EXCEPT !.record = r] \in FeedEntries
    BY <2>2 DEF FeedEntries
  <2> QED BY <2>1, <2>3
<1> QED BY <1>1, <1>2 DEF Delivered

LEMMA AnswerTypes ==
  ASSUME TypeOK, NEW w \in Workers, NEW entries \in Seq(FeedEntries),
         Answer(w, entries)
  PROVE  TypeOK'
<1>1. Now \in Cursors /\ worker[w].began \in Cursors
  BY CallShapes DEF Answer, Now, Cursors, TypeOK
<1>2. worker' \in [Workers -> Calls \cup {Idle}]
  <2> DEFINE new == IF Contiguous(entries, Now, worker[w].since)
                    THEN Applying(worker[w].began, entries, Now) ELSE Idle
  <2>1. new \in Calls \cup {Idle}
    BY <1>1, CallsAre
  <2>2. worker' = [worker EXCEPT ![w] = new]
    BY DEF Answer
  <2> HIDE DEF new
  <2> QED BY <2>1, <2>2, NewCall
<1> QED BY <1>2 DEF Answer, TypeOK, registryVars

LEMMA NextTypes ==
  ASSUME TypeOK, [Next]_vars
  PROVE  TypeOK'
<1>1. CASE UNCHANGED vars
  BY <1>1 DEF vars, registryVars, TypeOK
<1>2. CASE ProducerAppends
  <2>1. PICK record \in Records : AppendRecord(record)
    BY <1>2 DEF ProducerAppends
  <2>2. log' \in Seq(Verified) /\ Len(log') <= MaxLog
    BY <2>1 DEF AppendRecord, TypeOK
  <2> QED BY <1>2, <2>2 DEF ProducerAppends, registryVars, TypeOK
<1>3. CASE StopAndRestore
  <2>1. worker' \in [Workers -> Calls \cup {Idle}]
    BY <1>3 DEF StopAndRestore
  <2>2. /\ revoked' \subseteq Verified
        /\ cursor' \in Cursors \cup StartCursors
        /\ restarts' \in 0 .. MaxRestarts
    BY <1>3 DEF StopAndRestore, TypeOK
  <2> QED BY <1>3, <2>1, <2>2 DEF StopAndRestore, TypeOK
<1>4. ASSUME NEW w \in Workers, Request(w) PROVE TypeOK'
  <2>1. Now \in Cursors /\ cursor \in Cursors \cup StartCursors
    BY DEF Now, Cursors, TypeOK
  <2>2. worker' \in [Workers -> Calls \cup {Idle}]
    BY <1>4, <2>1, CallsAre, NewCall DEF Request
  <2> QED BY <1>4, <2>2 DEF Request, registryVars, TypeOK
<1>5. ASSUME NEW w \in Workers, AnswerIntact(w) \/ AnswerMangled(w)
      PROVE  TypeOK'
  <2>1. worker[w].pc = "requested"
    BY <1>5 DEF AnswerIntact, AnswerMangled, Answer
  <2>2. worker[w].since \in Nat
    BY <2>1, CallNumbers
  <2>4. entries_since(worker[w].since) \in Seq(FeedEntries)
    BY <2>2, DeltaType
  <2>3. PICK entries \in Seq(FeedEntries) : Answer(w, entries)
    BY <1>5, <2>4, DeliveredType DEF AnswerIntact, AnswerMangled
  <2> QED BY <2>3, AnswerTypes
<1>6. ASSUME NEW w \in Workers, GiveUp(w) \/ RefuseRecord(w) PROVE TypeOK'
  <2>1. worker' \in [Workers -> Calls \cup {Idle}]
    BY <1>6, CallsAre, NewCall DEF GiveUp, RefuseRecord
  <2> QED BY <1>6, <2>1 DEF GiveUp, RefuseRecord, registryVars, TypeOK
<1>7. ASSUME NEW w \in Workers, ApplyRecord(w) PROVE TypeOK'
  <2>1. Tail(worker[w].entries) \in Seq(FeedEntries)
    BY <1>7, CallShapes, HeadTailProperties DEF ApplyRecord
  <2>2. worker' = [worker EXCEPT ![w] =
          Applying(worker[w].began, Tail(worker[w].entries), worker[w].upto)]
    BY <1>7, AppliedOnce
  <2>3. worker' \in [Workers -> Calls \cup {Idle}]
    BY <1>7, <2>1, <2>2, CallShapes, CallsAre, NewCall DEF ApplyRecord
  <2>4. revoked' \subseteq Verified
    BY <1>7 DEF ApplyRecord, TypeOK
  <2> QED BY <1>7, <2>3, <2>4 DEF ApplyRecord, TypeOK
<1>8. ASSUME NEW w \in Workers, MarkSynced(w) PROVE TypeOK'
  <2>1. worker[w].began \in Cursors /\ worker[w].upto \in Cursors
    BY <1>8, CallShapes DEF MarkSynced
  <2>2. worker' \in [Workers -> Calls \cup {Idle}]
    BY <1>8, <2>1, CallsAre, NewCall DEF MarkSynced
  <2>3. synced_at' \in Cursors \cup {None}
    BY <1>8, <2>1 DEF MarkSynced, SyncedAt, Now, Cursors, TypeOK
  <2>4. cursor' \in Cursors \cup StartCursors
    BY <1>8, <2>1 DEF MarkSynced
  <2> QED BY <1>8, <2>2, <2>3, <2>4 DEF MarkSynced, TypeOK
<1>9. ASSUME NEW w \in Workers, PersistSnapshot(w) PROVE TypeOK'
  <2>1. worker' = [worker EXCEPT ![w] = [pc |-> "saved", upto |-> worker[w].upto]]
    BY <1>9, SavedOnce
  <2>2. worker' \in [Workers -> Calls \cup {Idle}]
    BY <1>9, <2>1, CallShapes, CallsAre, NewCall DEF PersistSnapshot
  <2>3. disk' \in [revoked : SUBSET Verified, cursor : Cursors \cup StartCursors]
    BY <1>9 DEF PersistSnapshot, TypeOK
  <2> QED BY <1>9, <2>2, <2>3 DEF PersistSnapshot, registryVars, TypeOK
<1>10. ASSUME NEW w \in Workers, PersistCursor(w) PROVE TypeOK'
  <2>1. worker' \in [Workers -> Calls \cup {Idle}]
    BY <1>10, CallsAre, NewCall DEF PersistCursor
  <2>2. worker[w].upto \in Cursors
    BY <1>10, CallShapes DEF PersistCursor
  <2>3. disk' \in [revoked : SUBSET Verified, cursor : Cursors \cup StartCursors]
    BY <1>10, <2>2 DEF PersistCursor, TypeOK
  <2> QED BY <1>10, <2>1, <2>3 DEF PersistCursor, registryVars, TypeOK
<1> QED
  BY <1>1, <1>2, <1>3, <1>4, <1>5, <1>6, <1>7, <1>8, <1>9, <1>10
  DEF Next, Apply

LEMMA InitTypes == Init => TypeOK
  BY DEF Init, FeedInit, TypeOK, Cursors

\* Whatever the transport makes of a delta and wherever the application stops,
\* only verified records are in the log, in the registry and in its snapshot.
THEOREM TypeCorrect == Spec => []TypeOK
  BY InitTypes, NextTypes, PTL DEF Spec

-----------------------------------------------------------------------------
(* What a delta brings                                                     *)

\* An entry that apply_feed_delta will refuse.
Damage(entries) == \E j \in DOMAIN entries : entries[j].record \notin Verified

Brings(entries, i) == \E j \in DOMAIN entries : entries[j].record = log[i]

\* Every entry is the log's at its number, unless it was damaged.
FromLog(entries) ==
  \A j \in DOMAIN entries :
    \/ entries[j].record \notin Verified
    \/ /\ entries[j].seq \in 1 .. Len(log)
       /\ entries[j].record = log[entries[j].seq]

LEMMA DeltaFromLog ==
  ASSUME TypeOK, NEW since \in Nat
  PROVE  /\ FromLog(entries_since(since))
         /\ entries_since(since) = <<>> => Len(log) <= since
<1>1. Len(log) \in Nat
  BY DEF TypeOK
<1>2. CASE since >= Len(log)
  BY <1>1, <1>2 DEF entries_since, FromLog
<1>3. CASE ~ (since >= Len(log))
  <2>1. entries_since(since) = [i \in 1 .. Len(log) - since |-> Entry(since + i)]
    BY <1>3 DEF entries_since
  <2>2. 1 \in DOMAIN entries_since(since)
    BY <1>1, <1>3, <2>1
  <2>3. entries_since(since) # <<>>
    BY <2>2
  <2>4. ASSUME NEW j \in 1 .. Len(log) - since
        PROVE  /\ entries_since(since)[j] = [seq |-> since + j,
                                             record |-> log[since + j]]
               /\ since + j \in 1 .. Len(log)
    BY <1>1, <1>3, <2>1 DEF Entry
  <2>5. DOMAIN entries_since(since) = 1 .. Len(log) - since
    BY <2>1
  <2> QED BY <2>3, <2>4, <2>5 DEF FromLog
<1> QED BY <1>2, <1>3

LEMMA DeliveredFromLog ==
  ASSUME NEW entries \in Seq(FeedEntries), FromLog(entries),
         NEW some \in Delivered(entries)
  PROVE  /\ FromLog(some)
         /\ NoDeltaIsLostWhole /\ some = <<>> => entries = <<>>
<1>1. ASSUME some \in Rearranged(entries) PROVE FromLog(some)
  <2>1. PICK n \in 0 .. Len(entries) + 1 : \E at \in [1 .. n -> DOMAIN entries] :
          some = [i \in DOMAIN at |-> entries[at[i]]]
    BY <1>1 DEF Rearranged
  <2>2. PICK at \in [1 .. n -> DOMAIN entries] :
          some = [i \in DOMAIN at |-> entries[at[i]]]
    BY <2>1
  <2>3. \A i \in DOMAIN some : \E j \in DOMAIN entries : some[i] = entries[j]
    BY <2>2
  <2> QED BY <2>3 DEF FromLog
<1>2. ASSUME some \in Damaged(entries) PROVE FromLog(some)
  <2>1. PICK i \in DOMAIN entries, r \in Records \ Verified :
          some = [entries EXCEPT ![i].record = r]
    BY <1>2 DEF Damaged
  <2>2. /\ DOMAIN some = DOMAIN entries
        /\ \A j \in DOMAIN entries : j # i => some[j] = entries[j]
        /\ some[i] = [entries[i] EXCEPT !.record = r]
    BY <2>1
  <2>3. entries[i] \in FeedEntries
    OBVIOUS
  <2>4. some[i].record \notin Verified
    BY <2>1, <2>2, <2>3 DEF FeedEntries
  <2> QED BY <2>2, <2>4 DEF FromLog
<1>3. NoDeltaIsLostWhole /\ some = <<>> => entries = <<>>
  BY DEF Delivered, NoDeltaIsLostWhole
<1> QED BY <1>1, <1>2, <1>3 DEF Delivered

\* A delta that passes the tests and is not empty has every record between the
\* cursor it was asked for and the one that came with it.
LEMMA ContiguousBrings ==
  ASSUME TypeOK, NEW since \in Nat, NEW entries \in Seq(FeedEntries),
         FromLog(entries), Contiguous(entries, Len(log), since),
         entries # <<>>, ~Damage(entries),
         NEW i \in 1 .. Len(log), i > since
  PROVE  Brings(entries, i)
<1>1. Len(log) \in Nat /\ Len(entries) \in Nat /\ Len(entries) >= 1
  BY DEF TypeOK
<1>2. DOMAIN entries = 1 .. Len(entries)
  OBVIOUS
<1>3. entries[Len(entries)].seq = Len(log)
  BY DEF Contiguous, Last
<1>4. Len(log) = since + Len(entries)
  BY <1>1, <1>2, <1>3 DEF Contiguous
<1>5. i - since \in DOMAIN entries /\ since + (i - since) = i
  BY <1>1, <1>2, <1>4
<1>6. entries[i - since].seq = i
  BY <1>5 DEF Contiguous
<1> QED BY <1>5, <1>6 DEF FromLog, Damage, Brings

-----------------------------------------------------------------------------
(* The inductive invariant                                                 *)

\* What a call in progress promises.
CallCovers(w) ==
  /\ worker[w].pc = "requested" =>
       /\ worker[w].since <= Len(log) /\ worker[w].began <= Len(log)
       /\ Covers(revoked, worker[w].since)
  /\ worker[w].pc = "applying" =>
       /\ worker[w].began <= worker[w].upto /\ worker[w].upto <= Len(log)
       /\ \/ Damage(worker[w].entries)
          \/ \A i \in 1 .. worker[w].upto :
               log[i] \in revoked \/ Brings(worker[w].entries, i)
  /\ worker[w].pc = "applied" =>
       worker[w].upto <= Len(log) /\ Covers(revoked, worker[w].upto)
  /\ worker[w].pc = "saved" =>
       worker[w].upto <= Len(log) /\ Covers(disk.revoked, worker[w].upto)

\* No cursor is ahead of the feed, and what was persisted is still known.
Reached ==
  /\ cursor <= Len(log) /\ disk.cursor <= Len(log)
  /\ disk.revoked \subseteq revoked

SyncInv ==
  /\ TypeOK
  /\ CursorCovers
  /\ Reached
  /\ \A w \in Workers : CallCovers(w)

LogExtends ==
  /\ Len(log) \in Nat /\ Len(log') \in Nat /\ Len(log) <= Len(log')
  /\ \A i \in 1 .. Len(log) : log'[i] = log[i]

LEMMA LogOnlyGrows ==
  ASSUME TypeOK, [Next]_vars
  PROVE  LogExtends
<1>1. Len(log) \in Nat
  BY DEF TypeOK
<1>2. CASE ProducerAppends
  <2>1. PICK record \in Records : log' = Append(log, record)
    BY <1>2 DEF ProducerAppends, AppendRecord
  <2>2. log \in Seq(Records)
    BY DEF TypeOK
  <2> QED BY <2>1, <2>2, <1>1, AppendProperties DEF LogExtends
<1>3. CASE log' = log
  BY <1>1, <1>3 DEF LogExtends
<1> QED
  BY <1>2, <1>3 DEF Next, Apply, vars, StopAndRestore, Request, AnswerIntact,
     AnswerMangled, Answer, GiveUp, ApplyRecord, RefuseRecord, MarkSynced,
     PersistSnapshot, PersistCursor

\* What is covered stays so as the log and the registry grow.
LEMMA CoversStays ==
  ASSUME LogExtends, NEW known, NEW more, known \subseteq more,
         NEW position \in Nat, position <= Len(log), Covers(known, position)
  PROVE  \A i \in 1 .. Len(log') : i <= position => log'[i] \in more
BY DEF LogExtends, Covers

\* A call that is not the one that steps keeps its promise.
LEMMA OthersCover ==
  ASSUME TypeOK, LogExtends, revoked \subseteq revoked',
         disk.revoked \subseteq disk'.revoked,
         NEW w \in Workers, CallCovers(w), worker'[w] = worker[w]
  PROVE  CallCovers(w)'
<1>1. Len(log) \in Nat /\ Len(log') \in Nat /\ Len(log) <= Len(log')
  BY DEF LogExtends
<1>2. CASE worker[w].pc = "requested"
  <2>1. worker[w].since \in Nat /\ worker[w].began \in Nat
    BY <1>2, CallNumbers
  <2>2. \A i \in 1 .. Len(log') : i <= worker[w].since => log'[i] \in revoked'
    BY <1>2, <2>1, CoversStays DEF CallCovers
  <2> QED BY <1>1, <1>2, <2>1, <2>2 DEF CallCovers, Covers
<1>3. CASE worker[w].pc = "applying"
  <2>1. worker[w].upto \in Nat /\ worker[w].began \in Nat
    BY <1>3, CallNumbers
  <2>2. /\ worker[w].began <= worker[w].upto
        /\ worker[w].upto <= Len(log) /\ worker[w].upto <= Len(log')
    BY <1>1, <1>3, <2>1 DEF CallCovers
  <2>3. ASSUME ~Damage(worker[w].entries), NEW i \in 1 .. worker[w].upto
        PROVE  log'[i] \in revoked' \/ Brings(worker[w].entries, i)'
    <3>1. log'[i] = log[i]
      BY <1>1, <2>1, <2>2 DEF LogExtends
    <3>2. log[i] \in revoked \/ Brings(worker[w].entries, i)
      BY <1>3, <2>3 DEF CallCovers
    <3> QED BY <3>1, <3>2 DEF Brings
  <2> QED BY <1>3, <2>2, <2>3 DEF CallCovers, Damage
<1>4. CASE worker[w].pc = "applied"
  <2>1. worker[w].upto \in Nat
    BY <1>4, CallNumbers
  <2>2. \A i \in 1 .. Len(log') : i <= worker[w].upto => log'[i] \in revoked'
    BY <1>4, <2>1, CoversStays DEF CallCovers
  <2> QED BY <1>1, <1>4, <2>1, <2>2 DEF CallCovers, Covers
<1>5. CASE worker[w].pc = "saved"
  <2>1. worker[w].upto \in Nat
    BY <1>5, CallNumbers
  <2>2. \A i \in 1 .. Len(log') : i <= worker[w].upto => log'[i] \in disk'.revoked
    BY <1>5, <2>1, CoversStays DEF CallCovers
  <2> QED BY <1>1, <1>5, <2>1, <2>2 DEF CallCovers, Covers
<1>6. CASE worker[w].pc \notin {"requested", "applying", "applied", "saved"}
  BY <1>6 DEF CallCovers
<1> QED BY <1>2, <1>3, <1>4, <1>5, <1>6

-----------------------------------------------------------------------------
(* Each call keeps its own promise                                         *)

LEMMA RequestCovers ==
  ASSUME SyncInv, NEW w \in Workers, Request(w)
  PROVE  CallCovers(w)'
<1>1. worker'[w] = Requested(cursor, Len(log))
  BY DEF SyncInv, TypeOK, Request, Now
<1>2. revoked' = revoked /\ log' = log /\ Len(log) \in Nat
  BY DEF SyncInv, TypeOK, Request, registryVars
<1>3. cursor <= Len(log) /\ Covers(revoked, cursor)
  BY DEF SyncInv, Reached, CursorCovers
<1> QED BY <1>1, <1>2, <1>3 DEF CallCovers, Requested, Covers

LEMMA AnswerCovers ==
  ASSUME SyncInv, NoDeltaIsLostWhole, NEW w \in Workers,
         AnswerIntact(w) \/ AnswerMangled(w)
  PROVE  CallCovers(w)'
<1> DEFINE since == worker[w].since
           delta == entries_since(since)
<1>1. /\ worker[w].pc = "requested"
      /\ TypeOK
  BY DEF AnswerIntact, AnswerMangled, Answer, SyncInv
<1>2. /\ since \in Nat /\ worker[w].began \in Nat
      /\ worker[w].began <= Len(log)
      /\ Covers(revoked, since)
  BY <1>1, CallNumbers DEF SyncInv, CallCovers
<1>3. delta \in Seq(FeedEntries) /\ FromLog(delta)
  BY <1>1, <1>2, DeltaType, DeltaFromLog
<1>4. PICK entries \in Seq(FeedEntries) :
        /\ Answer(w, entries)
        /\ FromLog(entries)
        /\ entries = <<>> => delta = <<>>
  BY <1>3, DeliveredType, DeliveredFromLog DEF AnswerIntact, AnswerMangled
<1>5. /\ log' = log /\ revoked' = revoked /\ Len(log) \in Nat
      /\ worker'[w] = IF Contiguous(entries, Len(log), since)
                      THEN Applying(worker[w].began, entries, Len(log))
                      ELSE Idle
  BY <1>1, <1>4 DEF Answer, registryVars, Now, TypeOK
<1>6. CASE ~Contiguous(entries, Len(log), since)
  BY <1>5, <1>6 DEF CallCovers, Idle
<1>7. CASE Contiguous(entries, Len(log), since)
  <2>1. ASSUME ~Damage(entries), NEW i \in 1 .. Len(log)
        PROVE  log[i] \in revoked \/ Brings(entries, i)
    <3>1. CASE i <= since
      BY <1>2, <3>1 DEF Covers
    <3>2. CASE i > since
      <4>1. delta # <<>>
        BY <1>1, <1>2, <1>5, <3>2, DeltaFromLog
      <4>2. entries # <<>>
        BY <1>4, <4>1
      <4> QED
        BY <1>1, <1>2, <1>4, <1>7, <2>1, <3>2, <4>2, ContiguousBrings
    <3> QED BY <1>2, <1>5, <3>1, <3>2
  <2>2. /\ worker'[w].pc = "applying"
        /\ worker'[w].began = worker[w].began
        /\ worker'[w].entries = entries
        /\ worker'[w].upto = Len(log)
    BY <1>5, <1>7 DEF Applying
  <2>4. Damage(entries) \/ \A i \in 1 .. Len(log) :
          log[i] \in revoked \/ Brings(entries, i)
    BY <2>1
  <2> HIDE DEF delta
  <2> QED BY <1>2, <1>5, <2>2, <2>4 DEF CallCovers, Damage, Brings
<1> QED BY <1>6, <1>7

LEMMA ApplyRecordCovers ==
  ASSUME SyncInv, NEW w \in Workers, ApplyRecord(w)
  PROVE  CallCovers(w)'
<1> DEFINE entries == worker[w].entries
           rest == Tail(entries)
<1>1. /\ TypeOK /\ CallCovers(w) /\ worker[w].pc = "applying"
      /\ entries # <<>> /\ entries[1].record \in Verified
      /\ revoked' = revoked \cup {entries[1].record}
      /\ log' = log
  BY DEF SyncInv, ApplyRecord, NextRecord
<1>2. /\ entries \in Seq(FeedEntries)
      /\ worker[w].upto \in Nat /\ worker[w].began \in Nat
  BY <1>1, CallShapes, CallNumbers
<1>3. /\ worker'[w].pc = "applying"
      /\ worker'[w].began = worker[w].began
      /\ worker'[w].entries = rest
      /\ worker'[w].upto = worker[w].upto
  <2>1. worker'[w] = Applying(worker[w].began, rest, worker[w].upto)
    BY <1>1, AppliedOnce DEF TypeOK
  <2> QED BY <2>1 DEF Applying
<1>4. /\ Len(entries) \in Nat /\ Len(entries) >= 1
      /\ Len(rest) = Len(entries) - 1
      /\ DOMAIN entries = 1 .. Len(entries) /\ DOMAIN rest = 1 .. Len(rest)
      /\ \A j \in 1 .. Len(rest) : rest[j] = entries[j + 1]
  BY <1>1, <1>2
<1>5. \A j \in DOMAIN entries : j # 1 =>
        j - 1 \in DOMAIN rest /\ rest[j - 1] = entries[j]
  BY <1>4
<1>6. Damage(entries) => Damage(rest)
  BY <1>1, <1>5 DEF Damage
<1>7. ASSUME NEW i, log[i] \in revoked \/ Brings(entries, i)
      PROVE  log[i] \in revoked' \/ Brings(rest, i)
  BY <1>1, <1>5, <1>7 DEF Brings
<1>8. /\ worker[w].began <= worker[w].upto /\ worker[w].upto <= Len(log)
      /\ \/ Damage(rest)
         \/ \A i \in 1 .. worker[w].upto : log[i] \in revoked' \/ Brings(rest, i)
  BY <1>1, <1>6, <1>7 DEF CallCovers
<1> HIDE DEF entries, rest
<1> QED BY <1>1, <1>3, <1>8 DEF CallCovers, Damage, Brings

\* A delta that has been applied to its end covers all it was to cover.
LEMMA AppliedCovers ==
  ASSUME SyncInv, NEW w \in Workers, worker[w].pc = "applying",
         worker[w].entries = <<>>
  PROVE  /\ worker[w].upto \in Nat /\ worker[w].began \in Nat
         /\ worker[w].began <= worker[w].upto /\ worker[w].upto <= Len(log)
         /\ Covers(revoked, worker[w].upto)
<1>1. worker[w].upto \in Nat /\ worker[w].began \in Nat
  BY CallNumbers DEF SyncInv
<1>2. /\ worker[w].began <= worker[w].upto /\ worker[w].upto <= Len(log)
      /\ \A i \in 1 .. worker[w].upto : log[i] \in revoked
  BY DEF SyncInv, CallCovers, Damage, Brings
<1> QED BY <1>1, <1>2 DEF Covers, SyncInv, TypeOK

LEMMA MarkSyncedCovers ==
  ASSUME SyncInv, NEW w \in Workers, MarkSynced(w)
  PROVE  CallCovers(w)'
<1>1. worker'[w] = [pc |-> "applied", upto |-> worker[w].upto]
  BY DEF MarkSynced, SyncInv, TypeOK
<1>2. /\ worker[w].upto <= Len(log) /\ Covers(revoked, worker[w].upto)
      /\ log' = log /\ revoked' = revoked
  BY AppliedCovers DEF MarkSynced
<1> QED BY <1>1, <1>2 DEF CallCovers, Covers

LEMMA PersistSnapshotCovers ==
  ASSUME SyncInv, NEW w \in Workers, PersistSnapshot(w)
  PROVE  CallCovers(w)'
<1>1. worker'[w] = [pc |-> "saved", upto |-> worker[w].upto]
  BY SavedOnce DEF SyncInv, TypeOK
<1>2. disk'.revoked = revoked /\ log' = log
  BY DEF PersistSnapshot, SyncInv, TypeOK
<1>3. worker[w].upto <= Len(log) /\ Covers(revoked, worker[w].upto)
  BY DEF PersistSnapshot, SyncInv, CallCovers
<1> QED BY <1>1, <1>2, <1>3 DEF CallCovers, Covers

LEMMA IdleCovers ==
  ASSUME NEW w, worker'[w] = Idle
  PROVE  CallCovers(w)'
BY DEF CallCovers, Idle

-----------------------------------------------------------------------------
(* Every step keeps all promises                                           *)

\* Where the registry and its snapshot lose nothing, and of the calls only w's
\* changes, w's promise is all there is to show.
LEMMA OthersKeep ==
  ASSUME SyncInv, LogExtends, revoked \subseteq revoked',
         disk.revoked \subseteq disk'.revoked,
         NEW w \in Workers, CallCovers(w)',
         \A x \in Workers : x # w => worker'[x] = worker[x]
  PROVE  \A x \in Workers : CallCovers(x)'
BY OthersCover DEF SyncInv

LEMMA NextCalls ==
  ASSUME SyncInv, NoDeltaIsLostWhole, [Next]_vars
  PROVE  \A w \in Workers : CallCovers(w)'
<1>0. LogExtends /\ TypeOK
  BY LogOnlyGrows DEF SyncInv
<1>1. CASE UNCHANGED vars \/ ProducerAppends
  <2>1. UNCHANGED <<revoked, disk, worker>>
    BY <1>1 DEF vars, registryVars, ProducerAppends
  <2> QED BY <1>0, <2>1, OthersCover DEF SyncInv
<1>2. CASE StopAndRestore
  BY <1>2, IdleCovers DEF StopAndRestore
<1>3. ASSUME NEW w \in Workers,
             \/ Request(w) \/ AnswerIntact(w) \/ AnswerMangled(w) \/ GiveUp(w)
             \/ RefuseRecord(w) \/ MarkSynced(w)
      PROVE  \A x \in Workers : CallCovers(x)'
  <2>1. UNCHANGED <<revoked, disk>>
    BY <1>3 DEF Request, AnswerIntact, AnswerMangled, Answer, GiveUp,
       RefuseRecord, MarkSynced, registryVars
  <2>2. \A x \in Workers : x # w => worker'[x] = worker[x]
    BY <1>0, <1>3 DEF Request, AnswerIntact, AnswerMangled, Answer, GiveUp,
       RefuseRecord, MarkSynced, TypeOK
  <2>3. GiveUp(w) \/ RefuseRecord(w) => worker'[w] = Idle
    BY <1>0 DEF GiveUp, RefuseRecord, TypeOK
  <2>4. CallCovers(w)'
    BY <1>3, <2>3, RequestCovers, AnswerCovers, MarkSyncedCovers, IdleCovers
  <2> QED BY <1>0, <2>1, <2>2, <2>4, OthersKeep
<1>4. ASSUME NEW w \in Workers, ApplyRecord(w)
      PROVE  \A x \in Workers : CallCovers(x)'
  <2>1. /\ revoked \subseteq revoked' /\ disk' = disk
        /\ \A x \in Workers : x # w => worker'[x] = worker[x]
    BY <1>0, <1>4 DEF ApplyRecord, TypeOK
  <2> QED BY <1>0, <1>4, <2>1, ApplyRecordCovers, OthersKeep
<1>5. ASSUME NEW w \in Workers, PersistSnapshot(w)
      PROVE  \A x \in Workers : CallCovers(x)'
  <2>1. /\ revoked' = revoked /\ disk'.revoked = revoked
        /\ \A x \in Workers : x # w => worker'[x] = worker[x]
    BY <1>0, <1>5 DEF PersistSnapshot, TypeOK, registryVars
  <2> QED
    BY <1>0, <1>5, <2>1, PersistSnapshotCovers, OthersKeep DEF SyncInv, Reached
<1>6. ASSUME NEW w \in Workers, PersistCursor(w)
      PROVE  \A x \in Workers : CallCovers(x)'
  <2>1. /\ revoked' = revoked /\ disk'.revoked = disk.revoked
        /\ worker'[w] = Idle
        /\ \A x \in Workers : x # w => worker'[x] = worker[x]
    BY <1>0, <1>6 DEF PersistCursor, TypeOK, registryVars
  <2> QED BY <1>0, <2>1, IdleCovers, OthersKeep
<1> QED BY <1>1, <1>2, <1>3, <1>4, <1>5, <1>6 DEF Next, Apply

LEMMA NextCovers ==
  ASSUME SyncInv, StartsFromNothing, [Next]_vars
  PROVE  CursorCovers' /\ Reached'
<1>0. /\ LogExtends /\ TypeOK /\ CursorCovers /\ Reached
      /\ Len(log) \in Nat /\ Len(log') \in Nat /\ Len(log) <= Len(log')
      /\ cursor \in Nat /\ disk.cursor \in Nat
  BY LogOnlyGrows
  DEF SyncInv, LogExtends, TypeOK, Cursors, StartsFromNothing
<1>1. ASSUME NEW known, NEW position \in Nat, position <= Len(log),
             Covers(known, position)
      PROVE  \A i \in 1 .. Len(log') : i <= position => log'[i] \in known
  BY <1>0, <1>1, CoversStays
<1>2. ASSUME UNCHANGED <<cursor, disk>>, revoked \subseteq revoked'
      PROVE  CursorCovers' /\ Reached'
  <2>1. \A i \in 1 .. Len(log') : i <= cursor => log'[i] \in revoked
    BY <1>0, <1>1 DEF CursorCovers, Reached
  <2>2. \A i \in 1 .. Len(log') : i <= disk.cursor => log'[i] \in disk.revoked
    BY <1>0, <1>1 DEF CursorCovers, Reached
  <2> QED BY <1>0, <1>2, <2>1, <2>2 DEF CursorCovers, Reached, Covers
<1>3. CASE StopAndRestore
  BY <1>0, <1>3 DEF StopAndRestore, CursorCovers, Reached, Covers
<1>4. ASSUME NEW w \in Workers, MarkSynced(w) PROVE CursorCovers' /\ Reached'
  <2>1. worker[w].upto <= Len(log) /\ Covers(revoked, worker[w].upto)
    BY <1>4, AppliedCovers DEF MarkSynced
  <2> QED BY <1>0, <1>4, <2>1 DEF MarkSynced, CursorCovers, Reached, Covers
<1>5. ASSUME NEW w \in Workers, PersistSnapshot(w)
      PROVE  CursorCovers' /\ Reached'
  <2>1. /\ disk'.revoked = revoked /\ disk'.cursor = disk.cursor
        /\ UNCHANGED <<log, revoked, cursor>>
    BY <1>0, <1>5 DEF PersistSnapshot, TypeOK, registryVars
  <2> QED BY <1>0, <2>1 DEF CursorCovers, Reached, Covers
<1>6. ASSUME NEW w \in Workers, PersistCursor(w) PROVE CursorCovers' /\ Reached'
  <2>1. /\ disk'.revoked = disk.revoked /\ disk'.cursor = worker[w].upto
        /\ UNCHANGED <<log, revoked, cursor>>
    BY <1>0, <1>6 DEF PersistCursor, TypeOK, registryVars
  <2>2. worker[w].upto <= Len(log) /\ Covers(disk.revoked, worker[w].upto)
    BY <1>6 DEF PersistCursor, SyncInv, CallCovers
  <2> QED BY <1>0, <2>1, <2>2 DEF CursorCovers, Reached, Covers
<1>7. CASE UNCHANGED vars \/ ProducerAppends
  BY <1>2, <1>7 DEF vars, registryVars, ProducerAppends
<1>8. ASSUME NEW w \in Workers,
             \/ Request(w) \/ AnswerIntact(w) \/ AnswerMangled(w) \/ GiveUp(w)
             \/ RefuseRecord(w) \/ ApplyRecord(w)
      PROVE  CursorCovers' /\ Reached'
  BY <1>2, <1>8 DEF Request, AnswerIntact, AnswerMangled, Answer, GiveUp,
     RefuseRecord, ApplyRecord, registryVars
<1> QED BY <1>3, <1>4, <1>5, <1>6, <1>7, <1>8 DEF Next, Apply

LEMMA SyncInvariance ==
  ASSUME StartsFromNothing, NoDeltaIsLostWhole
  PROVE  Spec => []SyncInv
<1>1. Init => SyncInv
  BY InitTypes DEF Init, FeedInit, SyncInv, CursorCovers, Covers, Reached,
     CallCovers, Idle, StartsFromNothing, FEED_START_CURSOR
<1>2. SyncInv /\ [Next]_vars => SyncInv'
  BY NextTypes, NextCalls, NextCovers DEF SyncInv
<1> QED BY <1>1, <1>2, PTL DEF Spec

\* Whatever the transport does to a delta short of dropping all of it,
\* whichever of any number of threads finishes last, and wherever the
\* application stops, no cursor it holds or has persisted is ahead of the
\* registry beside it (apply_feed_delta).
THEOREM CursorNeverAhead ==
  ASSUME StartsFromNothing, NoDeltaIsLostWhole
  PROVE  Spec => []CursorCovers
<1>1. SyncInv => CursorCovers
  BY DEF SyncInv
<1> QED BY <1>1, SyncInvariance, PTL

-----------------------------------------------------------------------------
(* The age of a registry                                                   *)

\* The registry is complete up to the moment it was last marked.
SyncedCovers ==
  synced_at # None => synced_at <= Len(log) /\ Covers(revoked, synced_at)

LEMMA NextSynced ==
  ASSUME SyncInv, SyncedCovers, CallersPassTheTime, [Next]_vars
  PROVE  SyncedCovers'
<1>0. /\ LogExtends /\ TypeOK
      /\ Len(log) \in Nat /\ Len(log') \in Nat /\ Len(log) <= Len(log')
      /\ synced_at # None => synced_at \in Nat
  BY LogOnlyGrows DEF SyncInv, LogExtends, TypeOK, Cursors
<1>1. ASSUME synced_at' = synced_at, revoked \subseteq revoked'
      PROVE  SyncedCovers'
  <2>1. ASSUME synced_at # None
        PROVE  \A i \in 1 .. Len(log') : i <= synced_at => log'[i] \in revoked'
    BY <1>0, <1>1, <2>1, CoversStays DEF SyncedCovers
  <2> QED BY <1>0, <1>1, <2>1 DEF SyncedCovers, Covers
<1>2. CASE StopAndRestore
  BY <1>2 DEF StopAndRestore, SyncedCovers
<1>3. ASSUME NEW w \in Workers, MarkSynced(w) PROVE SyncedCovers'
  <2>1. worker[w].pc = "applying" /\ worker[w].entries = <<>>
    BY <1>3 DEF MarkSynced
  <2>2. /\ worker[w].began \in Nat /\ worker[w].upto \in Nat
        /\ worker[w].began <= worker[w].upto /\ worker[w].upto <= Len(log)
        /\ Covers(revoked, worker[w].upto)
    BY <2>1, AppliedCovers
  <2>3. synced_at' = worker[w].began /\ log' = log /\ revoked' = revoked
    BY <1>3, <2>2 DEF MarkSynced, SyncedAt, CallersPassTheTime
  <2>4. worker[w].began <= Len(log) /\ Covers(revoked, worker[w].began)
    BY <1>0, <2>2 DEF Covers
  <2> QED BY <2>3, <2>4 DEF SyncedCovers, Covers
<1>4. CASE UNCHANGED vars \/ ProducerAppends
  BY <1>1, <1>4 DEF vars, registryVars, ProducerAppends
<1>5. ASSUME NEW w \in Workers,
             \/ Request(w) \/ AnswerIntact(w) \/ AnswerMangled(w) \/ GiveUp(w)
             \/ RefuseRecord(w) \/ ApplyRecord(w) \/ PersistSnapshot(w)
             \/ PersistCursor(w)
      PROVE  SyncedCovers'
  BY <1>1, <1>5 DEF Request, AnswerIntact, AnswerMangled, Answer, GiveUp,
     RefuseRecord, ApplyRecord, PersistSnapshot, PersistCursor, registryVars
<1> QED BY <1>2, <1>3, <1>4, <1>5 DEF Next, Apply

\* A registry that is not stale for a bound holds every revocation appended
\* before that bound, provided callers pass the time they asked as synced_at
\* (is_stale, mark_synced).
THEOREM FreshIsComplete ==
  ASSUME StartsFromNothing, NoDeltaIsLostWhole, CallersPassTheTime
  PROVE  Spec => []FreshMeansComplete
<1>1. Init => SyncedCovers
  BY DEF Init, SyncedCovers
<1>2. SyncInv /\ SyncedCovers /\ [Next]_vars => SyncedCovers'
  BY NextSynced
<1>3. SyncInv /\ SyncedCovers => FreshMeansComplete
  <2> SUFFICES ASSUME SyncInv, SyncedCovers, NEW max_age \in Cursors,
                      ~is_stale(max_age), NEW i \in 1 .. Len(log),
                      i <= Now - max_age
               PROVE  log[i] \in revoked
    BY DEF FreshMeansComplete, Covers
  <2>1. /\ synced_at # None /\ synced_at \in Nat
        /\ Len(log) \in Nat /\ max_age \in Nat
        /\ Len(log) - synced_at <= max_age
    BY DEF is_stale, Now, SyncInv, TypeOK, Cursors
  <2>2. i <= synced_at
    BY <2>1 DEF Now
  <2> QED BY <2>1, <2>2 DEF SyncedCovers, Covers
<1> QED BY <1>1, <1>2, <1>3, SyncInvariance, PTL DEF Spec
=============================================================================
