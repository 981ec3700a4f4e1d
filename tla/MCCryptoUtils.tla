--------------------------- MODULE MCCryptoUtils ---------------------------
(* A pool of three blocks; the lengths the passes ask for.                   *)
EXTENDS CryptoUtils

WordLengths == {4, 8, 16}
=============================================================================
