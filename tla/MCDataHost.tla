----------------------------- MODULE MCDataHost -----------------------------
(* Instances of DataHost for TLC. *)
EXTENDS DataHost

=============================================================================
