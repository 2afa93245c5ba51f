---------------------------- MODULE MCScheduler ----------------------------
(* Three of the jobs main.py registers: the two that share the ingest lock   *)
(* (one on a timer, one on request only) and the Project Agent's, on both.   *)
(* A run picks the jobs it needs; the timers are one tick long.              *)
EXTENDS Scheduler

CONSTANTS ingest, backfill, project, ingestKey, projectKey

MCLockKey == [j \in Jobs |-> IF j = project THEN projectKey ELSE ingestKey]
MCInterval == [j \in Jobs |-> IF j = backfill THEN 0 ELSE 1]
MCNameRank == [j \in Jobs |-> CASE j = backfill -> 1 [] j = ingest -> 2 [] j = project -> 3]
MCRegRank == [j \in Jobs |-> CASE j = ingest -> 1 [] j = backfill -> 2 [] j = project -> 3]
=============================================================================
