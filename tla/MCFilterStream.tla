--------------------------- MODULE MCFilterStream ---------------------------
(***************************************************************************)
(* FilterStream on a main chain and one fork.                             *)
(***************************************************************************)
EXTENDS FilterStream, MCBlockTree

(* The fork replaces block 1 and what follows it, and stays shorter. *)
MCOneFork == {b \in MCBlock : /\ \A i, j \in DOMAIN b : b[i] = b[j]
                              /\ b # <<>> /\ b[1] # Main => Len(b) < MaxHeight - 1}

(* A re-org may replace the event's block by one that carries it again. *)
MCEventBlocks == {b \in MCOneFork : Number(b) = 1}
=============================================================================
