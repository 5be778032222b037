-------------------------- MODULE MCPiccoloExecutor --------------------------
(* PiccoloExecutor with a main thread and coroutines for TLC.              *)
EXTENDS PiccoloExecutor, TLC

Symmetry == Permutations(Threads)

=============================================================================
