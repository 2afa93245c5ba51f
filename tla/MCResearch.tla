----------------------------- MODULE MCResearch -----------------------------
EXTENDS ResearchAgent, TLC

CONSTANTS u1, u2, p1, common

\* Members have put the first paper on both pages; the second is new.
MCByHand == {u1} \X {p1, common}
=============================================================================
