--------------------------------- MODULE MCTcp ---------------------------------
(* Instances of TcpClient for TLC. *)
EXTENDS TcpProperties

CONSTANTS i1, i2
================================================================================
