------------------------- MODULE MCSourceValidation -------------------------
(* Sequence numbers modulo 8 for SourceValidation.                         *)
EXTENDS SourceValidation
=============================================================================
