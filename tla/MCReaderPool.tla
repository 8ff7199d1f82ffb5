---------------------------- MODULE MCReaderPool ----------------------------
(* Two readers and a buffer of two slots, which two or three names and the
   two NULLs fill and empty again. *)
EXTENDS ReaderPool
CONSTANTS t1, t2
MCThreads == {t1, t2}
============================================================================
