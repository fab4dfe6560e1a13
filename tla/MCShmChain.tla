----------------------------- MODULE MCShmChain -----------------------------
EXTENDS ShmChain

CONSTANTS p, q

\* One producer sends two frames, the other one.
MCCount == [a \in Producers |-> IF a = p THEN 2 ELSE 1]
=============================================================================
