---------------------------- MODULE MCBlockTree ----------------------------
(***************************************************************************)
(* A small complete block tree for TLC.  A block is the sequence of fork   *)
(* choices that leads to it from genesis, so its number is its length and  *)
(* its parent is the sequence without its last choice.                     *)
(***************************************************************************)
EXTENDS Integers, Sequences

CONSTANTS
    Fork,           \* the children a block may have
    MaxHeight,      \* bound: the number of the highest block
    Nil             \* the value of NoBlock

MCBlock == UNION {[1..n -> Fork] : n \in 0..MaxHeight}

CONSTANT Main       \* a member of Fork
(* The blocks of one main chain and of the single forks off its blocks *)
MCForkedBlock == {b \in MCBlock : \A i \in 1..(Len(b) - 1) : b[i] # Main => b[i + 1] = b[i]}

MCNumber(b) == Len(b)
MCParent(b) == IF b = <<>> THEN Nil ELSE SubSeq(b, 1, Len(b) - 1)
MCPath(b) == [i \in 1..(Len(b) + 1) |-> SubSeq(b, 1, i - 1)]
=============================================================================
