---------------------------- MODULE MCInvoicing ----------------------------
(* Instance of Invoicing: two invoices the PAC accepts behind one it does  *)
(* not, batches of two, two runs of the worker.                            *)
EXTENDS Invoicing

MCInvoices == 1..3
MCRefused == {1}
=============================================================================
