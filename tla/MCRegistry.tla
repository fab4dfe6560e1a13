----------------------------- MODULE MCRegistry -----------------------------
EXTENDS Registry

\* Grants: one that reads and can pass reading on.
MCRequests == {{"read", "grant"}}
=============================================================================
