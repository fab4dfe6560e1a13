-------------------------- MODULE MCVineyardStore --------------------------
\* Instances of VineyardStore for TLC.  Stages are interchangeable, and so
\* are places and contents; object ids are not (FreshId takes them in order).
EXTENDS VineyardStore, TLC

SameStages == Permutations(Stages) \cup Permutations(Addrs) \cup Permutations(Data)
=============================================================================
