-------------------------- MODULE MCManagedRestore --------------------------
EXTENDS ManagedRestore
=============================================================================
