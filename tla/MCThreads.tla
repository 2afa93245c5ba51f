----------------------------- MODULE MCThreads -----------------------------
(* Small instances of Threads: see the .cfg files. *)
EXTENDS Threads
=============================================================================
