----------------------------- MODULE MCTcpSocket -----------------------------
(* Model-checking instances of TcpSocket: small buffers with the           *)
(* proportions of the real ones.                                           *)
EXTENDS TcpSocket
=============================================================================
