----------------------------- MODULE MCBilling ------------------------------
EXTENDS Billing

CONSTANTS p1, c1, c2
=============================================================================
