---------------------------- MODULE MCFileLocks ----------------------------
(* Two writers, one of which may hold the lock while the other waits for it
   or writes without one, and a reader; two strings, and files of two lines,
   one that is right and one that may be wrong. *)
EXTENDS FileLocks

CONSTANTS w1, w2
MCWriters == {w1, w2}
============================================================================
