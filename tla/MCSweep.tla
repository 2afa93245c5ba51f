------------------------------- MODULE MCSweep -------------------------------
EXTENDS Sweep, TLC

CONSTANTS a, b
=============================================================================
