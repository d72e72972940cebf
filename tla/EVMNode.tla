------------------------------- MODULE EVMNode -------------------------------
(***************************************************************************)
(* The JSON/RPC node (or load-balanced set of nodes) the connector talks   *)
(* to.  It is not code under src/: it is modelled from the calls the code  *)
(* makes.  Its canonical chain grows a block at a time, and may be         *)
(* replaced by any other chain between two calls (a re-org, a node that is *)
(* behind, a development chain restarted from a shorter state).  A block   *)
(* filter queues the hashes that became canonical since it was last read.  *)
(***************************************************************************)
EXTENDS BlockTree, FiniteSets

CONSTANT MaxReorgs      \* bound: how often the chain is replaced rather than extended

ASSUME MaxReorgsAssumption == MaxReorgs \in Nat

VARIABLES
    head,               \* the head of the canonical chain
    reorgs,             \* replacements so far
    nodeFilter,         \* the node holds our block filter
    filterQueue         \* hashes eth_getFilterChanges will return next

nodeVars == <<head, reorgs, nodeFilter, filterQueue>>

NodeTypeOK ==
    /\ head \in Block
    /\ reorgs \in 0..MaxReorgs
    /\ nodeFilter \in BOOLEAN
    /\ filterQueue \in Seq(Block)

NodeInit ==
    /\ head \in Block
    /\ reorgs = 0
    /\ nodeFilter = FALSE
    /\ filterQueue = <<>>

(* The blocks of the chain of new that the chain of old does not have, oldest first. *)
NewlyCanonical(old, new) ==
    LET shared == {i \in DOMAIN Path(new) : i \in DOMAIN Path(old) /\ Path(old)[i] = Path(new)[i]}
    IN  SubSeq(Path(new), Cardinality(shared) + 1, Len(Path(new)))

Announce(new) ==
    filterQueue' = IF nodeFilter THEN filterQueue \o NewlyCanonical(head, new) ELSE filterQueue

(* A block is mined on the head. *)
Extend ==
    \E b \in Block :
        /\ Parent(b) = head
        /\ head' = b
        /\ Announce(b)
        /\ UNCHANGED <<reorgs, nodeFilter>>

(* The canonical chain is replaced. *)
Reorg ==
    /\ reorgs < MaxReorgs
    /\ reorgs' = reorgs + 1
    /\ \E b \in Block \ {head} :
        /\ head' = b
        /\ Announce(b)
    /\ UNCHANGED nodeFilter

(* The node drops the filter: restarted, or idle for too long. *)
LoseFilter ==
    /\ nodeFilter
    /\ nodeFilter' = FALSE
    /\ filterQueue' = <<>>
    /\ UNCHANGED <<head, reorgs>>

NodeNext == Extend \/ Reorg \/ LoseFilter

(* eth_getBlockByNumber: the block of the current canonical chain, or null. *)
GetBlockByNumber(n) == BlockAt(head, n)
=============================================================================
