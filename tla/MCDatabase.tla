----------------------------- MODULE MCDatabase -----------------------------
(* Database on an instance small enough for TLC; the values are in the cfg. *)
EXTENDS Database
=============================================================================
