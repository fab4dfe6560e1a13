--------------------------- MODULE MCMappingCache ---------------------------
\* Two threads share a client; its cache of one entry is evicted all the time.
EXTENDS MappingCache, TLC

\* No definition of MappingCache chooses a thread.
SameThreads == Permutations(Threads)
=============================================================================
