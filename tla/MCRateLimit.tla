---------------------------- MODULE MCRateLimit ----------------------------
(* Model-checking instance of RateLimit: two windows and the age at which  *)
(* an entry is forgotten fit the clock.                                    *)
EXTENDS RateLimit

Addresses == {"a1", "a2"}

=============================================================================
