---------------------------- MODULE MCInvoiceChain ----------------------------
(* Two orders and two requests at a time.  A request that issues an invoice   *)
(* has read that it was not issued, so an order gets at most one document per *)
(* worker: four hashes are enough for every behaviour.                        *)
EXTENDS InvoiceChain, TLC

MCHashes == 1 .. Cardinality(Orders) * Cardinality(Workers)
================================================================================
