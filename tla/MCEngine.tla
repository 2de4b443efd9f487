------------------------------ MODULE MCEngine ------------------------------
EXTENDS Ledger
=============================================================================
