--------------------------- MODULE MCGetLogsStream ---------------------------
(***************************************************************************)
(* GetLogsStream on a tree of one chain and the forks off its blocks.      *)
(***************************************************************************)
EXTENDS GetLogsStream, MCBlockTree, TLC
=============================================================================
