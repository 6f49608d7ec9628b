------------------------------ MODULE MCSending ------------------------------
(* Small instances of Sending for TLC. *)
EXTENDS Sending

CONSTANTS s1, s2
=============================================================================
