------------------------------ MODULE MCRadioTx ----------------------------
(***************************************************************************)
(* RadioTx with a few messages and a queue they can overfill.              *)
(***************************************************************************)
EXTENDS RadioTx

=============================================================================
