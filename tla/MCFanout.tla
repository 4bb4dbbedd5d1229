------------------------------ MODULE MCFanout ------------------------------
EXTENDS Fanout
=============================================================================
