------------------------------ MODULE MCServer ------------------------------
EXTENDS ServerInv
=============================================================================
