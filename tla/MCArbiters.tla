----------------------------- MODULE MCArbiters -----------------------------
(* Arbiters with a few clients: one owns the resource or is granted it and *)
(* the others wait, in every order.                                        *)
EXTENDS Arbiters

(* immediateRequest() comes from where nothing interrupts it or its        *)
(* undoing of the configuration; request() and release() from everywhere.  *)
Immediates == [managed |-> {"isr"}, direct |-> {"main", "isr"},
               simple |-> {"main"}]
=============================================================================
