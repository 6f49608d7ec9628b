------------------------------ MODULE MCCompose ------------------------------
(* An instance of Compose for TLC in which the writer does not wait. *)
EXTENDS Compose
=============================================================================
