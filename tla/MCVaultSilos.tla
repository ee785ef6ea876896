---------------------------- MODULE MCVaultSilos ----------------------------
EXTENDS VaultSilos
=============================================================================
