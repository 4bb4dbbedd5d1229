------------------------------ MODULE MCSetup ------------------------------
EXTENDS NativeSetup
=============================================================================
