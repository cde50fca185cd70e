---------------------------- MODULE RevocationFeed ----------------------------
(***************************************************************************)
(* The producer of src/fg_agent_id/feed.py, an append-only log of verified *)
(* revocation records addressed by a cursor, and the test a consumer puts  *)
(* every delta to before it touches its registry.                          *)
(*                                                                         *)
(* A record is a model value that stands for the grant or the key it       *)
(* revokes; the two sets of a registry are one set of such values. The     *)
(* position of a record in the log is its sequence number, so `_seq' is    *)
(* the length of the log.                                                  *)
(***************************************************************************)
EXTENDS Naturals, SequencesExt

CONSTANTS
  Records,    \* revocation records on the wire
  Verified,   \* those whose verify() returns
  MaxLog      \* bound: records the producer appends

ASSUME VerifiedAssumption == Verified \subseteq Records
ASSUME MaxLogAssumption == MaxLog \in Nat

VARIABLE log   \* _entries

FEED_START_CURSOR == 0

Cursors == 0 .. MaxLog

FeedEntries == [seq : 1 .. MaxLog, record : Records]

FeedInit == log = <<>>

\* append(): verify outside the lock, then take the next number under it. A
\* record already in the log is given another number.
AppendRecord(record) ==
  /\ record \in Verified
  /\ Len(log) < MaxLog
  /\ log' = Append(log, record)

Entry(i) == [seq |-> i, record |-> log[i]]

\* Mutant: the newest entry is held back.
entries_since_HeldBack(cursor) ==
  [i \in 1 .. Len(log) - cursor - 1 |-> Entry(cursor + i)]

\* entries_since(cursor), its second result being the producer's cursor. A
\* cursor from the future gets nothing.
entries_since(cursor) ==
  IF cursor >= Len(log) THEN <<>>
  ELSE [i \in 1 .. Len(log) - cursor |-> Entry(cursor + i)]

\* Mutant: only the ends of the delta are looked at.
Contiguous_EndsOnly(entries, cursor, since) ==
  entries # <<>> =>
    /\ entries[1].seq = since + 1
    /\ Last(entries).seq = cursor

\* apply_feed_delta's three tests; any of them raises ValueError.
Contiguous(entries, cursor, since) ==
  /\ \A i \in DOMAIN entries : entries[i].seq = since + i
  /\ entries # <<>> => Last(entries).seq = cursor
=============================================================================
