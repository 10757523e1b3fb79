------------------------------- MODULE MCBoot -------------------------------
(* Model-checking instance of Boot.                                        *)
EXTENDS Boot

=============================================================================
