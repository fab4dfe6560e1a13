-------------------------- MODULE MCServerLifecycle --------------------------
EXTENDS ServerLifecycle
=============================================================================
