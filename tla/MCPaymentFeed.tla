--------------------------- MODULE MCPaymentFeed ---------------------------
(* PaymentFeed on an instance small enough for TLC. *)
EXTENDS PaymentFeed
============================================================================
