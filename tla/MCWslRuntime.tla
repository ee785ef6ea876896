---------------------------- MODULE MCWslRuntime ----------------------------
EXTENDS WslRuntime
=============================================================================
