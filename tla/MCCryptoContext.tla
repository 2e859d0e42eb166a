-------------------------- MODULE MCCryptoContext ---------------------------
EXTENDS CryptoContext

(* A start just before a roll-over, and one with a cycle ahead.            *)
MCFirstSeqs == {0, SeqModulus - 2}
=============================================================================
