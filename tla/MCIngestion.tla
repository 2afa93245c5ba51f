---------------------------- MODULE MCIngestion ----------------------------
(* The pages of a Channel's Threads are alike; so are the model's choices. *)
EXTENDS Ingestion, TLC

Symmetry == Permutations(Threads)

\* At most two disturbances in a behaviour, of any kinds.
Disturbed == edits + commands + touches + faults + crashes <= 2
=============================================================================
