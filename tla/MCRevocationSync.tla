--------------------------- MODULE MCRevocationSync ---------------------------
(* Small instances of RevocationSync: two records that verify, one that     *)
(* does not.                                                                *)
EXTENDS RevocationSync

CONSTANTS grant, key, forged, w1, w2

MCRecords == {grant, key, forged}
MCVerified == {grant, key}
OneWorker == {w1}
TwoWorkers == {w1, w2}
FromTheStart == {FEED_START_CURSOR}
CorruptedToo == {FEED_START_CURSOR, MaxLog + 1}
=============================================================================
