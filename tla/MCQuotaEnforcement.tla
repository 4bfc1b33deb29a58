------------------------- MODULE MCQuotaEnforcement -------------------------
(* Instances of QuotaEnforcement: the containers are model values.         *)
EXTENDS QuotaEnforcement

CONSTANTS a, b
=============================================================================
