--------------------------- MODULE EventDetection ---------------------------
(***************************************************************************)
(* What an event stream promises of one listener, whatever its polling     *)
(* mode: its scan position, which is what a checkpoint records and where a *)
(* restart begins, only moves over blocks that no re-org replaces any more *)
(* and whose events have been pushed to FFTM.  An event may be pushed any  *)
(* number of times, and those of blocks that are replaced later as well.   *)
(***************************************************************************)
EXTENDS BlockTree

CONSTANT EventBlocks    \* the blocks that carry an event of the listener

VARIABLES
    settled,        \* the newest block no re-org replaces any more
    start,          \* the first block the listener asked for, or -1 before it is added
    position,       \* its scan position
    detected        \* the blocks whose event was pushed

detectionVars == <<settled, start, position, detected>>

(* The settled events that a scan position of n leaves behind *)
Behind(n) == {b \in BlocksOf(Path(settled)) \cap EventBlocks : Number(b) \in start..(n - 1)}

Init ==
    /\ settled \in Block
    /\ start \in Nat \cup {-1}
    /\ position = start
    /\ detected = {}

(* More blocks settle. *)
Settle ==
    /\ settled' \in Block
    /\ settled \in BlocksOf(Path(settled'))
    /\ UNCHANGED <<start, position, detected>>

(* The listener is added. *)
Begin ==
    /\ start = -1
    /\ start' \in Nat
    /\ position' = start'
    /\ UNCHANGED <<settled, detected>>

(* Events are pushed. *)
Detect ==
    /\ detected' \subseteq Block
    /\ detected \subseteq detected'
    /\ UNCHANGED <<settled, start, position>>

(* The scan position moves on, once the events behind it are pushed. *)
Advance ==
    /\ start # -1
    /\ position' \in Nat /\ position' > position
    /\ position' <= Number(settled) + 1
    /\ detected' \subseteq Block
    /\ detected \subseteq detected'
    /\ Behind(position') \subseteq detected'
    /\ UNCHANGED <<settled, start>>

Next == Settle \/ Begin \/ Detect \/ Advance

Spec == Init /\ [][Next]_detectionVars
=============================================================================
