------------------------------ MODULE MCLoraOta ----------------------------
(***************************************************************************)
(* LoraOta with an image that fills the partition, a shorter one, and one  *)
(* that does not fit.                                                      *)
(***************************************************************************)
EXTENDS LoraOta

MCImage == {"short", "full", "big"}
MCLength == [i \in MCImage |-> CASE i = "short" -> PartLen - 1
                                 [] i = "full"  -> PartLen
                                 [] i = "big"   -> PartLen + 1]

=============================================================================
