--------------------------- MODULE MCInvoiceFeed ---------------------------
(* InvoiceFeed on an instance small enough for TLC. *)
EXTENDS InvoiceFeed
============================================================================
