---------------------------- MODULE MCTcpServer ----------------------------
(* TcpServer with a few connections on zero, one or two io loops.          *)
EXTENDS TcpServer, TLC

Symmetry == Permutations(Conns)
=============================================================================
