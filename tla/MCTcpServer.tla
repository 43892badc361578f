---------------------------- MODULE MCTcpServer ----------------------------
(* Instances of TcpServer for TLC.                                         *)
EXTENDS TcpServer, TLC

Symmetry == Permutations(Conns) \cup Permutations(Fds) \cup Permutations(Threads)
=============================================================================
