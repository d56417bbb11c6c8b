---------------------------- MODULE MCSleepers ----------------------------
(* Sleepers for TLC: model values for the threads and short naps.          *)
EXTENDS Sleepers, TLC
CONSTANTS s1, s2, s3, s4
Threads == {s1, s2, s3, s4}
ShortNaps == {1, 2, 4}
Symmetric == Permutations(Threads)
===========================================================================
