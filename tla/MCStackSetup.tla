---------------------------- MODULE MCStackSetup ----------------------------
(***************************************************************************)
(* Path lengths in words of 8 bytes: up to two more than the copies keep.  *)
(***************************************************************************)
EXTENDS StackSetup

MCPaths == 1..10
MCTLSBlocks == {0, 1000}
=============================================================================
