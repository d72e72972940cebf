------------------------------ MODULE BlockTree ------------------------------
(***************************************************************************)
(* The blocks an EVM network may produce, as the listener sees them        *)
(* (ethrpc.BlockInfoJSONRPC): each has a number and a parent, and is       *)
(* identified by its hash, so a block IS its hash here.  The blocks form a *)
(* tree; a node's canonical chain is the path from the root to its head.   *)
(***************************************************************************)
EXTENDS Integers, Sequences

CONSTANTS
    Block,          \* every block that may ever be produced
    NoBlock,        \* a nil *BlockInfoJSONRPC
    Number(_),      \* the number of a block
    Parent(_),      \* its parentHash: a block, or NoBlock for the genesis block
    Path(_)         \* the blocks from the genesis block to a block, itself included

BlockOrNil == Block \cup {NoBlock}

(* A child's number follows its parent's; a path starts with block 0 and follows the parents. *)
ASSUME BlockTreeAssumption ==
    /\ NoBlock \notin Block
    /\ \A b \in Block :
        /\ Number(b) \in Nat
        /\ Parent(b) \in BlockOrNil
        /\ Parent(b) \in Block => Number(b) = Number(Parent(b)) + 1
        /\ Path(b) \in Seq(Block)
        /\ Len(Path(b)) = Number(b) + 1 /\ Path(b)[Number(b) + 1] = b
        /\ \A i \in DOMAIN Path(b) : Number(Path(b)[i]) = i - 1
        /\ \A i \in DOMAIN Path(b) : i > 1 => Parent(Path(b)[i]) = Path(b)[i - 1]

(* The block numbered n of the chain that ends in h, or nil. *)
BlockAt(h, n) == IF n + 1 \in DOMAIN Path(h) THEN Path(h)[n + 1] ELSE NoBlock

(* A run of consecutive blocks, each the parent of the next. *)
Linked(s) == \A i \in 2..Len(s) : Parent(s[i]) = s[i - 1]

(* Mutant: the hashes are not compared. *)
NumberFollows(a, b) == Number(a) + 1 = Number(b)

(* BlockInfoJSONRPC.IsParentOf, and the same test in handleNewBlock *)
IsParentOf(a, b) == Parent(b) = a /\ Number(a) + 1 = Number(b)

(* The members of a sequence: the blocks of a list. *)
BlocksOf(s) == {s[i] : i \in DOMAIN s}
=============================================================================
