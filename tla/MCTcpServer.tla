----------------------------- MODULE MCTcpServer -----------------------------
(* Small instances of TcpServer for TLC.                                   *)
EXTENDS TcpServer, TLC

CONSTANTS c1, c2, w1, w2

TwoConns   == {c1, c2}
OneConn    == {c1}
TwoWorkers == {w1, w2}
OneWorker  == {w1}

Symmetry == Permutations(Conns) \cup Permutations(Workers)
=============================================================================
