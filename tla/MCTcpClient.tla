----------------------------- MODULE MCTcpClient -----------------------------
(* Model-checking instance of TcpClient: a hello shorter than the receive  *)
(* buffer, a window larger than it, and an answer that fits or overflows   *)
(* what one recv asks for, as with the sizes of the repository.            *)
EXTENDS TcpClient

MCReadLens == {BuffSize}
MCWriteLens == {HelloLen}
=============================================================================
