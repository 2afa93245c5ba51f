--------------------------- MODULE MCProjectAgent ---------------------------
EXTENDS ProjectAgent, FiniteSets

(* Every batch of routine notices, one per thread.                           *)
MCCalls == {posts \in SUBSET [subject : Subjects, since : Messages, trigger : {FALSE}] :
              posts # {} /\ \A p, q \in posts : p.subject = q.subject => p = q}
=============================================================================
