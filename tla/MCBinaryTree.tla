---------------------------- MODULE MCBinaryTree ----------------------------
(* Bounds for BinaryTree.tla: the configuration gives numbers only. *)
EXTENDS BinaryTree

=============================================================================
