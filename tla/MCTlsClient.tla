----------------------------- MODULE MCTlsClient -----------------------------
(* Model-checking instance of TlsClient: wolfSSL moves records of one or   *)
(* two units, as many of them as the bounds on both streams allow.         *)
EXTENDS TlsClient

MCRecords == {1, 2}
=============================================================================
