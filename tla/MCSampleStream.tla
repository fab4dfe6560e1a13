--------------------------- MODULE MCSampleStream ---------------------------
EXTENDS SampleStream
=============================================================================
