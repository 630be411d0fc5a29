---------------------------- MODULE MCStreamTail ----------------------------
(***************************************************************************)
(* StreamTail on the instances of MCRedisAsync.                            *)
(***************************************************************************)
EXTENDS StreamTail, MCRedisAsync

=============================================================================
