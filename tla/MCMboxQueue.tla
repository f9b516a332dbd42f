----------------------------- MODULE MCMboxQueue -----------------------------
(* Small instances of MboxQueue for TLC. *)
EXTENDS MboxQueueClaims, TLC

CONSTANTS r1, r2, w1, w2

OneReader  == {r1}
TwoReaders == {r1, r2}
OneWriter  == {w1}
TwoWriters == {w1, w2}

TwoChannels == {0, 1}
AllAndOne   == {{0, 1}, {1}}
AnyTimeout  == {"none", "finite", "infinite"}
NoWaiting   == {"none"}
Blocking    == {"finite", "infinite"}

Perms == Permutations(Readers) \cup Permutations(Writers)
=============================================================================
