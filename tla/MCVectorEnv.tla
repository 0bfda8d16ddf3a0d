---------------------------- MODULE MCVectorEnv ----------------------------
(* Two environments and two seeds. *)
EXTENDS VectorEnv

TwoByTwo == {0, 1} \X {0, 1}
=============================================================================
