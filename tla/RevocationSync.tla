---------------------------- MODULE RevocationSync ----------------------------
(***************************************************************************)
(* A consumer that follows a revocation feed: apply_feed_delta of          *)
(* src/fg_agent_id/feed.py on the RevocationRegistry of delegation.py,     *)
(* called by an application that keeps a cursor.                           *)
(*                                                                         *)
(* Each worker is a thread of the application. It reads the cursor, asks   *)
(* the producer for what is newer, and applies the answer record by record *)
(* to the registry the threads share, which has no lock. It then persists  *)
(* the registry's snapshot and, after it, the cursor. The transport may    *)
(* lose a request, drop, repeat or reorder entries, or damage a record;    *)
(* the application may stop at any step.                                   *)
(*                                                                         *)
(* Time is counted in records: an instant is the number of records that    *)
(* had been appended by then. That is what the age of a registry is about. *)
(***************************************************************************)
EXTENDS RevocationFeed

CONSTANTS
  Workers,          \* threads of the application that synchronise
  StartCursors,     \* what the cursor file may hold when the history begins
  LosesWholeDelta,  \* whether the transport may drop every entry of a delta
  PassesSyncedAt,   \* whether callers pass the time they asked as synced_at
  MaxRestarts,      \* bound: how often the application stops
  None              \* synced_at of a registry that has never synced

ASSUME StartCursorsAssumption == StartCursors \subseteq Nat
ASSUME LosesWholeDeltaAssumption == LosesWholeDelta \in BOOLEAN
ASSUME PassesSyncedAtAssumption == PassesSyncedAt \in BOOLEAN
ASSUME MaxRestartsAssumption == MaxRestarts \in Nat
ASSUME NoneAssumption == None \notin Nat

VARIABLES
  revoked,     \* _digests and _revoked_keys
  synced_at,   \* _synced_at
  cursor,      \* the cursor the application resumes from
  disk,        \* the snapshot and the cursor it has persisted
  worker,      \* each thread's call in progress
  restarts

registryVars == <<revoked, synced_at>>
vars == <<log, registryVars, cursor, disk, worker, restarts>>

Now == Len(log)

Idle == [pc |-> "idle"]

\* A call keeps what it still needs: where it resumes and when it began; then
\* the entries it has yet to apply and the cursor that came with them; then
\* that cursor, until it has been persisted.
Requested(since, began) == [pc |-> "requested", since |-> since, began |-> began]

Applying(began, entries, upto) ==
  [pc |-> "applying", began |-> began, entries |-> entries, upto |-> upto]

Calls ==
  [pc : {"requested"}, since : Cursors \cup StartCursors, began : Cursors]
    \cup [pc : {"applying"}, began : Cursors, entries : Seq(FeedEntries),
          upto : Cursors]
    \cup [pc : {"applied", "saved"}, upto : Cursors]

Init ==
  /\ FeedInit
  /\ revoked = {}
  /\ synced_at = None
  /\ cursor \in StartCursors
  /\ disk = [revoked |-> {}, cursor |-> cursor]
  /\ worker = [w \in Workers |-> Idle]
  /\ restarts = 0

ProducerAppends ==
  /\ \E record \in Records : AppendRecord(record)
  /\ UNCHANGED <<registryVars, cursor, disk, worker, restarts>>

-----------------------------------------------------------------------------
(* Asking and being answered                                               *)

Request(w) ==
  /\ worker[w].pc = "idle"
  /\ worker' = [worker EXCEPT ![w] = Requested(cursor, Now)]
  /\ UNCHANGED <<log, registryVars, cursor, disk, restarts>>

\* A delta with one record damaged: its signature no longer verifies.
Damaged(entries) ==
  {[entries EXCEPT ![i].record = r] :
     i \in DOMAIN entries, r \in Records \ Verified}

\* Any of its entries, in any order, some perhaps twice: up to one more than
\* it has.
Rearranged(entries) ==
  LET sizes == 0 .. Len(entries) + 1
  IN {[i \in DOMAIN at |-> entries[at[i]]] :
        at \in UNION {[1 .. n -> DOMAIN entries] : n \in sizes}}

\* What a transport can make of a delta.
Delivered(entries) ==
  LET some == Rearranged(entries) \cup Damaged(entries)
  IN IF LosesWholeDelta THEN some ELSE (some \ {<<>>}) \cup {entries}

\* The answer arrives and is validated whole, by tests of the delta alone,
\* before the registry is touched. A delta that fails them ends the call.
Answer(w, entries) ==
  /\ worker[w].pc = "requested"
  /\ worker' = [worker EXCEPT ![w] =
       IF Contiguous(entries, Now, @.since)
       THEN Applying(@.began, entries, Now) ELSE Idle]
  /\ UNCHANGED <<log, registryVars, cursor, disk, restarts>>

AnswerIntact(w) == Answer(w, entries_since(worker[w].since))

AnswerMangled(w) ==
  /\ worker[w].pc = "requested"
  /\ \E entries \in Delivered(entries_since(worker[w].since)) : Answer(w, entries)

GiveUp(w) ==
  /\ worker[w].pc = "requested"
  /\ worker' = [worker EXCEPT ![w] = Idle]
  /\ UNCHANGED <<log, registryVars, cursor, disk, restarts>>

-----------------------------------------------------------------------------
(* apply_feed_delta                                                        *)

NextRecord(w) == Head(worker[w].entries).record

\* Mutant: the record is admitted before it has been verified.
ApplyRecord_Unverified(w) ==
  /\ worker[w].pc = "applying"
  /\ worker[w].entries # <<>>
  /\ revoked' = revoked \cup {NextRecord(w)}
  /\ worker' = [worker EXCEPT ![w].entries = Tail(@)]
  /\ UNCHANGED <<log, synced_at, cursor, disk, restarts>>

\* One pass of the loop: add() or revoke_key() admits what it has verified.
ApplyRecord(w) ==
  /\ worker[w].pc = "applying"
  /\ worker[w].entries # <<>>
  /\ NextRecord(w) \in Verified
  /\ revoked' = revoked \cup {NextRecord(w)}
  /\ worker' = [worker EXCEPT ![w].entries = Tail(@)]
  /\ UNCHANGED <<log, synced_at, cursor, disk, restarts>>

\* It raises: the records before it stay admitted, the sync is not recorded.
RefuseRecord(w) ==
  /\ worker[w].pc = "applying"
  /\ worker[w].entries # <<>>
  /\ NextRecord(w) \notin Verified
  /\ worker' = [worker EXCEPT ![w] = Idle]
  /\ UNCHANGED <<log, registryVars, cursor, disk, restarts>>

\* Mutant: the caller's time is ignored.
SyncedAt_Now(when) == Now

\* What mark_synced(when) stores, `when' being None unless the caller gave one.
SyncedAt(when) == IF when = None THEN Now ELSE when

\* After the loop: the registry is marked, and the cursor that is returned
\* becomes the application's.
MarkSynced(w) ==
  /\ worker[w].pc = "applying"
  /\ worker[w].entries = <<>>
  /\ synced_at' = SyncedAt(IF PassesSyncedAt THEN worker[w].began ELSE None)
  /\ cursor' = worker[w].upto
  /\ worker' = [worker EXCEPT ![w] = [pc |-> "applied", upto |-> @.upto]]
  /\ UNCHANGED <<log, revoked, disk, restarts>>

\* is_stale(max_age), which require_fresh() raises on.
is_stale(max_age) == synced_at = None \/ Now - synced_at > max_age

-----------------------------------------------------------------------------
(* The application persists, stops and restores                            *)

PersistSnapshot(w) ==
  /\ worker[w].pc = "applied"
  /\ disk' = [disk EXCEPT !.revoked = revoked]
  /\ worker' = [worker EXCEPT ![w].pc = "saved"]
  /\ UNCHANGED <<log, registryVars, cursor, restarts>>

PersistCursor(w) ==
  /\ worker[w].pc = "saved"
  /\ disk' = [disk EXCEPT !.cursor = worker[w].upto]
  /\ worker' = [worker EXCEPT ![w] = Idle]
  /\ UNCHANGED <<log, registryVars, cursor, restarts>>

\* A new registry is restored from the snapshot, which holds no synced_at.
StopAndRestore ==
  /\ restarts < MaxRestarts
  /\ revoked' = disk.revoked
  /\ synced_at' = None
  /\ cursor' = disk.cursor
  /\ worker' = [w \in Workers |-> Idle]
  /\ restarts' = restarts + 1
  /\ UNCHANGED <<log, disk>>

Apply(w) ==
  \/ ApplyRecord(w)
  \/ RefuseRecord(w)
  \/ MarkSynced(w)

Next ==
  \/ ProducerAppends
  \/ StopAndRestore
  \/ \E w \in Workers :
       \/ Request(w)
       \/ AnswerIntact(w)
       \/ AnswerMangled(w)
       \/ GiveUp(w)
       \/ Apply(w)
       \/ PersistSnapshot(w)
       \/ PersistCursor(w)

Spec == Init /\ [][Next]_vars

\* The threads keep running; a request that is made again and again is
\* answered intact again and again.
FairSpec ==
  /\ Spec
  /\ \A w \in Workers :
       /\ WF_vars(Request(w))
       /\ SF_vars(AnswerIntact(w))
       /\ WF_vars(Apply(w))
       /\ WF_vars(PersistSnapshot(w))
       /\ WF_vars(PersistCursor(w))
-----------------------------------------------------------------------------
(* Properties                                                              *)

\* The log holds verified records only, the cursor is a feed position or what
\* the file held at first, and a thread is idle or in one call.
TypeOK ==
  /\ log \in Seq(Verified) /\ Len(log) <= MaxLog
  /\ revoked \subseteq Verified
  /\ synced_at \in Cursors \cup {None}
  /\ cursor \in Cursors \cup StartCursors
  /\ disk \in [revoked : SUBSET Verified, cursor : Cursors \cup StartCursors]
  /\ worker \in [Workers -> Calls \cup {Idle}]
  /\ restarts \in 0 .. MaxRestarts

Covers(known, position) ==
  \A i \in 1 .. Len(log) : i <= position => log[i] \in known

\* "A transport that drops entries from the middle or tail can no longer leave
\* the consumer silently missing revocations" (apply_feed_delta, feed.py): no
\* cursor the application holds or has persisted is ahead of the registry it
\* stands beside, whatever the transport did to the delta, whichever thread
\* finished last, and wherever the application stopped.
CursorCovers ==
  /\ Covers(revoked, cursor)
  /\ Covers(disk.revoked, disk.cursor)

\* "Implementations MUST be able to tell how old their answer is" (SPEC 5.2):
\* a registry that is not stale for a bound holds every revocation appended
\* before that bound. A delta applied in part, a restart, and a thread that
\* finishes after a later one never make it look fresher than it is.
FreshMeansComplete ==
  \A max_age \in Cursors :
    ~is_stale(max_age) => Covers(revoked, Now - max_age)

\* "A consumer with corrupted state converges instead of silently skipping
\* records forever" (entries_since, feed.py): again and again the consumer has
\* revoked everything appended so far. The log is bounded, so this says of each
\* record that it comes to be revoked, and stays so once restarts are over.
EventuallyRevoked == []<>Covers(revoked, Now)
=============================================================================
