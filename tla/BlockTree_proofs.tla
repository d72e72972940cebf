--------------------------- MODULE BlockTree_proofs ---------------------------
(***************************************************************************)
(* Lemmas about the paths of a block tree, and about runs of its blocks.   *)
(***************************************************************************)
EXTENDS BlockTree, SequenceTheorems, FiniteSetTheorems, WellFoundedInduction, TLAPS

-----------------------------------------------------------------------------
(* Naturals. *)

LEMMA LeastNatural ==
    ASSUME NEW S \in SUBSET Nat, S # {}
    PROVE  \E n \in S : \A m \in S : n <= m
<1>1. PICK n \in S : \A m \in S : <<m, n>> \notin OpToRel(<, Nat)
  BY NatLessThanWellFounded, WFMin
<1>2. \A m \in S : ~(m < n)
  BY <1>1, Zenon DEF OpToRel
<1> QED
  BY <1>2

LEMMA GreatestNatural ==
    ASSUME NEW S \in SUBSET Nat, S # {}, NEW bound \in Nat, \A m \in S : m <= bound
    PROVE  \E n \in S : \A m \in S : n >= m
<1> DEFINE above == {n \in Nat : \A m \in S : m <= n}
<1>1. PICK top \in above : \A n \in above : top <= n
  BY LeastNatural
<1>2. top \in S
  <2> SUFFICES ASSUME top \notin S PROVE FALSE
    OBVIOUS
  <2>1. \A m \in S : m < top
    BY <1>1
  <2>2. top \in Nat /\ top > 0
    <3>1. PICK m \in S : m < top
      BY <2>1
    <3> QED
      BY <1>1, <3>1
  <2>3. top - 1 \in above
    BY <2>1, <2>2
  <2> QED
    BY <1>1, <2>2, <2>3
<1> QED
  BY <1>1, <1>2

-----------------------------------------------------------------------------
(* Paths. *)

(* The blocks of a path, by their place on it. *)
LEMMA PathOfBlock ==
    ASSUME NEW b \in Block
    PROVE  /\ Number(b) \in Nat
           /\ Path(b) \in Seq(Block)
           /\ Len(Path(b)) = Number(b) + 1 /\ DOMAIN Path(b) = 1..(Number(b) + 1)
           /\ \A i \in 1..(Number(b) + 1) : Path(b)[i] \in Block /\ Number(Path(b)[i]) = i - 1
           /\ Path(b)[Number(b) + 1] = b
           /\ BlocksOf(Path(b)) \subseteq Block
           /\ b \in BlocksOf(Path(b))
<1>1. /\ Number(b) \in Nat /\ Path(b) \in Seq(Block) /\ Len(Path(b)) = Number(b) + 1
      /\ Path(b)[Number(b) + 1] = b
      /\ \A i \in DOMAIN Path(b) : Number(Path(b)[i]) = i - 1
  BY BlockTreeAssumption
<1>2. DOMAIN Path(b) = 1..(Number(b) + 1)
  BY <1>1, LenProperties
<1>3. \A i \in 1..(Number(b) + 1) : Path(b)[i] \in Block
  BY <1>1, ElementOfSeq
<1>4. Number(b) + 1 \in 1..(Number(b) + 1)
  BY <1>1
<1> QED
  BY <1>1, <1>2, <1>3, <1>4 DEF BlocksOf

(* A block is on a path at the place of its number, or not at all. *)
LEMMA OnPath ==
    ASSUME NEW b \in Block, NEW c \in Block
    PROVE  c \in BlocksOf(Path(b)) <=> Number(c) <= Number(b) /\ Path(b)[Number(c) + 1] = c
<1>1. /\ Number(b) \in Nat /\ Number(c) \in Nat /\ DOMAIN Path(b) = 1..(Number(b) + 1)
      /\ \A i \in 1..(Number(b) + 1) : Number(Path(b)[i]) = i - 1
  BY PathOfBlock
<1>2. ASSUME c \in BlocksOf(Path(b)) PROVE Number(c) <= Number(b) /\ Path(b)[Number(c) + 1] = c
  <2>1. PICK i \in 1..(Number(b) + 1) : c = Path(b)[i]
    BY <1>1, <1>2 DEF BlocksOf
  <2>2. Number(c) = i - 1
    BY <1>1, <2>1
  <2>3. i = Number(c) + 1
    BY <1>1, <2>2
  <2> QED
    BY <1>1, <2>1, <2>3
<1>3. ASSUME Number(c) <= Number(b), Path(b)[Number(c) + 1] = c PROVE c \in BlocksOf(Path(b))
  <2>1. Number(c) + 1 \in 1..(Number(b) + 1)
    BY <1>1, <1>3
  <2> QED
    BY <1>1, <1>3, <2>1 DEF BlocksOf
<1> QED
  BY <1>2, <1>3

(* A path has one block of each number. *)
LEMMA OneBlockANumber ==
    ASSUME NEW b \in Block, NEW c \in BlocksOf(Path(b)), NEW d \in BlocksOf(Path(b)), Number(c) = Number(d)
    PROVE  c = d
<1>1. c \in Block /\ d \in Block
  BY PathOfBlock
<1>2. Path(b)[Number(c) + 1] = c /\ Path(b)[Number(d) + 1] = d
  BY <1>1, OnPath
<1> QED
  BY <1>2

(* The path to a block of a path is its beginning: going down from that block, both follow the *)
(* parents.                                                                                    *)
LEMMA PathBegins ==
    ASSUME NEW b \in Block, NEW i \in DOMAIN Path(b), NEW j \in 1..i
    PROVE  Path(Path(b)[i])[j] = Path(b)[j]
<1> DEFINE c == Path(b)[i]
           apart == {k \in 1..i : Path(c)[k] # Path(b)[k]}
<1>1. i \in 1..(Number(b) + 1) /\ DOMAIN Path(b) = 1..(Number(b) + 1) /\ Number(b) \in Nat
  BY PathOfBlock
<1>2. /\ c \in Block /\ Number(c) = i - 1
      /\ DOMAIN Path(c) = 1..i /\ Path(c)[i] = c
  <2>1. c \in Block /\ Number(c) = i - 1
    BY <1>1, PathOfBlock
  <2>2. DOMAIN Path(c) = 1..(Number(c) + 1) /\ Path(c)[Number(c) + 1] = c
    BY <2>1, PathOfBlock
  <2>3. Number(c) + 1 = i
    BY <1>1, <2>1
  <2> QED
    BY <2>1, <2>2, <2>3
<1>3. SUFFICES ASSUME apart # {} PROVE FALSE
  OBVIOUS
<1>4. PICK k \in apart : \A m \in apart : k >= m
  <2>1. apart \in SUBSET Nat /\ (\A m \in apart : m <= i) /\ i \in Nat
    BY <1>1
  <2> QED
    BY <1>3, <2>1, GreatestNatural
<1>5. k \in 1..i /\ k # i
  BY <1>2, <1>4
<1>6. k + 1 \in 1..i /\ k + 1 > k /\ k + 1 > 1 /\ (k + 1) - 1 = k
  BY <1>1, <1>5
<1>7. Path(c)[k + 1] = Path(b)[k + 1]
  BY <1>4, <1>5, <1>6
<1>8. Parent(Path(c)[k + 1]) = Path(c)[k] /\ Parent(Path(b)[k + 1]) = Path(b)[k]
  <2>1. k + 1 \in DOMAIN Path(c) /\ k + 1 \in DOMAIN Path(b)
    BY <1>1, <1>2, <1>6
  <2>2. Parent(Path(c)[k + 1]) = Path(c)[(k + 1) - 1] /\ Parent(Path(b)[k + 1]) = Path(b)[(k + 1) - 1]
    BY <1>2, <1>6, <2>1, BlockTreeAssumption
  <2> QED
    BY <1>6, <2>2
<1> QED
  BY <1>4, <1>7, <1>8

(* The path to a block of a path is its beginning: up to that block they hold the same blocks. *)
LEMMA SharedPath ==
    ASSUME NEW b \in Block, NEW c \in BlocksOf(Path(b)), NEW d \in Block, Number(d) <= Number(c)
    PROVE  d \in BlocksOf(Path(c)) <=> d \in BlocksOf(Path(b))
<1>1. c \in Block
  BY PathOfBlock
<1>2. /\ Number(c) <= Number(b) /\ Path(b)[Number(c) + 1] = c
      /\ Number(b) \in Nat /\ Number(c) \in Nat /\ Number(d) \in Nat
      /\ DOMAIN Path(b) = 1..(Number(b) + 1)
  BY <1>1, OnPath, PathOfBlock
<1>3. Number(c) + 1 \in DOMAIN Path(b) /\ Number(d) + 1 \in 1..(Number(c) + 1)
  BY <1>2
<1>4. Path(c)[Number(d) + 1] = Path(b)[Number(d) + 1]
  BY <1>2, <1>3, PathBegins
<1> QED
  BY <1>1, <1>2, <1>4, OnPath

(* Of two blocks of a path the lower one is on the path to the other. *)
LEMMA LowerOnPath ==
    ASSUME NEW b \in Block, NEW c \in BlocksOf(Path(b)), NEW d \in BlocksOf(Path(b)), Number(d) <= Number(c)
    PROVE  d \in BlocksOf(Path(c))
  BY SharedPath, PathOfBlock

(* To be on a path is transitive. *)
LEMMA OnPathTransitive ==
    ASSUME NEW b \in Block, NEW c \in BlocksOf(Path(b)), NEW d \in BlocksOf(Path(c))
    PROVE  d \in BlocksOf(Path(b))
<1>1. c \in Block /\ d \in Block
  BY PathOfBlock
<1>2. Number(d) <= Number(c)
  BY <1>1, OnPath
<1> QED
  BY <1>1, <1>2, SharedPath

(* The parent of a block is on the path to it. *)
LEMMA ParentOnPath ==
    ASSUME NEW b \in Block, NEW c \in Block, Parent(c) = b
    PROVE  b \in BlocksOf(Path(c)) /\ Number(c) = Number(b) + 1
<1> DEFINE top == Number(c) + 1
<1>1. /\ top \in Nat /\ DOMAIN Path(c) = 1..top /\ Path(c)[top] = c /\ Number(b) \in Nat
      /\ \A i \in DOMAIN Path(c) : i > 1 => Parent(Path(c)[i]) = Path(c)[i - 1]
  BY PathOfBlock, BlockTreeAssumption
<1>2. top = Number(b) + 2
  BY <1>1, BlockTreeAssumption
<1>3. top \in 1..top /\ top > 1 /\ top - 1 \in 1..top
  <2> HIDE DEF top
  <2> QED
    BY <1>1, <1>2
<1>4. b = Path(c)[top - 1]
  BY <1>1, <1>3
<1>5. b \in BlocksOf(Path(c))
  <2> HIDE DEF top
  <2> QED
    BY <1>1, <1>3, <1>4 DEF BlocksOf
<1>6. Number(c) \in Nat
  BY PathOfBlock
<1> QED
  BY <1>1, <1>2, <1>5, <1>6

(* What a node answers is a block of the number asked for, or nil. *)
LEMMA BlockAtType ==
    ASSUME NEW h \in Block, NEW n \in Nat
    PROVE  /\ BlockAt(h, n) \in BlockOrNil
           /\ BlockAt(h, n) # NoBlock => BlockAt(h, n) \in Block /\ Number(BlockAt(h, n)) = n
<1>1. CASE n + 1 \in DOMAIN Path(h)
  <2>1. Path(h)[n + 1] \in Block
    BY <1>1, BlockTreeAssumption, ElementOfSeq, LenProperties
  <2>2. Number(Path(h)[n + 1]) = n
    BY <1>1, BlockTreeAssumption
  <2> QED
    BY <1>1, <2>1, <2>2 DEF BlockAt, BlockOrNil
<1>2. CASE n + 1 \notin DOMAIN Path(h)
  BY <1>2 DEF BlockAt, BlockOrNil
<1> QED
  BY <1>1, <1>2

-----------------------------------------------------------------------------
(* Runs of blocks. *)

Contiguous(s) == \A i \in DOMAIN s : Number(s[i]) = Number(s[1]) + i - 1

(* A well-formed list of blocks. *)
Run(s) == s \in Seq(Block) /\ Linked(s) /\ Contiguous(s)

(* The blocks of a linked list are numbered consecutively: the first that is not follows one that is. *)
LEMMA LinkedIsRun ==
    ASSUME NEW s \in Seq(Block), Linked(s)
    PROVE  Run(s)
<1> DEFINE off == {i \in DOMAIN s : Number(s[i]) # Number(s[1]) + i - 1}
<1>1. /\ Len(s) \in Nat /\ DOMAIN s = 1..Len(s)
      /\ \A i \in 1..Len(s) : s[i] \in Block /\ Number(s[i]) \in Nat
  BY LenProperties, ElementOfSeq, BlockTreeAssumption
<1>2. SUFFICES ASSUME off # {} PROVE FALSE
  BY DEF Run, Contiguous
<1>3. PICK i \in off : \A m \in off : i <= m
  <2>1. off \in SUBSET Nat
    BY <1>1
  <2> QED
    BY <1>2, <2>1, LeastNatural
<1>4. i \in 2..Len(s)
  <2>1. 1 \notin off
    BY <1>1
  <2> QED
    BY <1>1, <1>3, <2>1
<1>5. Number(s[i - 1]) = Number(s[1]) + (i - 1) - 1
  BY <1>1, <1>3, <1>4
<1>6. Number(s[i]) = Number(s[i - 1]) + 1
  <2>1. s[i] \in Block /\ s[i - 1] \in Block /\ Parent(s[i]) = s[i - 1]
    BY <1>1, <1>4 DEF Linked
  <2> QED
    BY <2>1, BlockTreeAssumption
<1>7. Number(s[1]) \in Nat
  BY <1>1, <1>4
<1> QED
  BY <1>1, <1>3, <1>4, <1>5, <1>6, <1>7

LEMMA RunProperties ==
    ASSUME NEW s, Run(s)
    PROVE  /\ s \in Seq(Block) /\ Len(s) \in Nat /\ DOMAIN s = 1..Len(s)
           /\ \A i \in 1..Len(s) : s[i] \in Block /\ Number(s[i]) \in Nat
           /\ \A i \in 1..Len(s) : Number(s[i]) = Number(s[1]) + i - 1
           /\ \A i \in 2..Len(s) : Parent(s[i]) = s[i - 1]
           /\ s # <<>> => Len(s) > 0
           /\ BlocksOf(s) = {s[i] : i \in 1..Len(s)}
  BY LenProperties, ElementOfSeq, EmptySeq, BlockTreeAssumption DEF Run, Contiguous, Linked, BlocksOf

(* A segment of a run is a run, made of blocks of the run. *)
LEMMA SegmentOfRun ==
    ASSUME NEW s, Run(s), NEW m \in 1..(Len(s) + 1), NEW n \in (m - 1)..Len(s)
    PROVE  /\ Run(SubSeq(s, m, n))
           /\ Len(SubSeq(s, m, n)) = n - m + 1
           /\ \A i \in 1..(n - m + 1) : SubSeq(s, m, n)[i] = s[m + i - 1]
           /\ BlocksOf(SubSeq(s, m, n)) \subseteq BlocksOf(s)
<1> DEFINE t == SubSeq(s, m, n)
<1>1. /\ s \in Seq(Block) /\ Len(s) \in Nat /\ DOMAIN s = 1..Len(s)
      /\ \A i \in 1..Len(s) : s[i] \in Block
  BY LenProperties, ElementOfSeq DEF Run
<1>2. /\ t \in Seq(Block)
      /\ Len(t) = n - m + 1
      /\ \A i \in 1..(n - m + 1) : t[i] = s[m + i - 1]
  <2>1. \A i \in m..n : s[i] \in Block
    BY <1>1
  <2> QED
    BY <1>1, <2>1, SubSeqProperties
<1>3. DOMAIN t = 1..(n - m + 1)
  BY <1>2, LenProperties
<1>4. Linked(t)
  <2> SUFFICES ASSUME NEW i \in 2..Len(t) PROVE Parent(t[i]) = t[i - 1]
    BY DEF Linked
  <2>1. t[i] = s[m + i - 1] /\ t[i - 1] = s[m + i - 2]
    BY <1>1, <1>2
  <2>2. m + i - 1 \in 2..Len(s)
    BY <1>1, <1>2
  <2>3. Parent(s[m + i - 1]) = s[(m + i - 1) - 1]
    BY <2>2 DEF Run, Linked
  <2> QED
    BY <1>1, <2>1, <2>3
<1>5. Contiguous(t)
  <2> SUFFICES ASSUME NEW i \in 1..(n - m + 1) PROVE Number(t[i]) = Number(t[1]) + i - 1
    BY <1>3 DEF Contiguous
  <2>1. t[i] = s[m + i - 1] /\ t[1] = s[m]
    BY <1>1, <1>2
  <2>2. Number(s[m + i - 1]) = Number(s[1]) + (m + i - 1) - 1 /\ Number(s[m]) = Number(s[1]) + m - 1
    BY <1>1 DEF Run, Contiguous
  <2>3. Number(s[1]) \in Nat
    BY <1>1, BlockTreeAssumption
  <2> QED
    BY <1>1, <2>1, <2>2, <2>3
<1>6. BlocksOf(t) \subseteq BlocksOf(s)
  BY <1>1, <1>2, <1>3 DEF BlocksOf
<1> QED
  BY <1>2, <1>4, <1>5, <1>6 DEF Run

(* A prefix of a run, which handleNewBlock and trimToLastValidBlock keep. *)
LEMMA PrefixOfRun ==
    ASSUME NEW s, Run(s), NEW k \in 1..Len(s)
    PROVE  /\ Run(SubSeq(s, 1, k))
           /\ Len(SubSeq(s, 1, k)) = k
           /\ SubSeq(s, 1, k)[k] = s[k]
           /\ BlocksOf(SubSeq(s, 1, k)) \subseteq BlocksOf(s)
<1>1. Len(s) \in Nat
  BY LenProperties DEF Run
<1>2. 1 \in 1..(Len(s) + 1) /\ k \in (1 - 1)..Len(s)
  BY <1>1
<1>3. /\ Run(SubSeq(s, 1, k))
      /\ Len(SubSeq(s, 1, k)) = k - 1 + 1
      /\ \A i \in 1..(k - 1 + 1) : SubSeq(s, 1, k)[i] = s[1 + i - 1]
      /\ BlocksOf(SubSeq(s, 1, k)) \subseteq BlocksOf(s)
  BY <1>2, SegmentOfRun
<1>4. k \in 1..(k - 1 + 1) /\ k - 1 + 1 = k /\ 1 + k - 1 = k
  BY <1>1
<1>5. SubSeq(s, 1, k)[k] = s[1 + k - 1]
  BY <1>3, <1>4
<1> QED
  BY <1>3, <1>4, <1>5

(* A block whose parent is the last block of a run extends it. *)
LEMMA RunExtended ==
    ASSUME NEW s, Run(s), NEW b \in Block, s = <<>> \/ Parent(b) = s[Len(s)]
    PROVE  /\ Run(Append(s, b))
           /\ Len(Append(s, b)) = Len(s) + 1
           /\ BlocksOf(Append(s, b)) = BlocksOf(s) \cup {b}
<1> DEFINE t == Append(s, b)
<1>1. /\ s \in Seq(Block) /\ Len(s) \in Nat /\ DOMAIN s = 1..Len(s)
      /\ \A i \in 1..Len(s) : s[i] \in Block
  BY LenProperties, ElementOfSeq DEF Run
<1>2. /\ t \in Seq(Block) /\ Len(t) = Len(s) + 1 /\ DOMAIN t = 1..(Len(s) + 1)
      /\ \A i \in 1..Len(s) : t[i] = s[i]
      /\ t[Len(s) + 1] = b
  BY <1>1, AppendProperties, LenProperties
<1>3. s # <<>> => Len(s) > 0
  BY <1>1, EmptySeq
<1>4. Linked(t)
  BY <1>1, <1>2, <1>3 DEF Run, Linked
<1>5. s # <<>> => Number(b) = Number(s[1]) + Len(s)
  <2> HAVE s # <<>>
  <2>1. s[Len(s)] \in Block /\ s[1] \in Block
    BY <1>1, <1>3
  <2>2. Number(b) = Number(s[Len(s)]) + 1
    BY <2>1, BlockTreeAssumption
  <2>3. Number(s[Len(s)]) = Number(s[1]) + Len(s) - 1
    BY <1>1, <1>3 DEF Run, Contiguous
  <2>4. Number(s[1]) \in Nat
    BY <2>1, BlockTreeAssumption
  <2> QED
    BY <1>1, <2>2, <2>3, <2>4
<1>6. Contiguous(t)
  <2> SUFFICES ASSUME NEW i \in 1..(Len(s) + 1) PROVE Number(t[i]) = Number(t[1]) + i - 1
    BY <1>2 DEF Contiguous
  <2>1. Number(b) \in Nat /\ Number(t[1]) \in Nat
    BY <1>1, <1>2, BlockTreeAssumption, ElementOfSeq
  <2>2. CASE i \in 1..Len(s)
    BY <1>1, <1>2, <2>2 DEF Run, Contiguous
  <2>3. CASE i = Len(s) + 1 /\ s # <<>>
    BY <1>1, <1>2, <1>3, <1>5, <2>1, <2>3
  <2>4. CASE i = Len(s) + 1 /\ s = <<>>
    BY <1>1, <1>2, <2>1, <2>4, EmptySeq
  <2> QED
    BY <1>1, <2>2, <2>3, <2>4
<1>7. BlocksOf(t) = BlocksOf(s) \cup {b}
  BY <1>1, <1>2 DEF BlocksOf
<1> QED
  BY <1>2, <1>4, <1>6, <1>7 DEF Run

LEMMA EmptyRun == Run(<<>>) /\ BlocksOf(<<>>) = {}
<1>1. <<>> \in Seq(Block) /\ DOMAIN (<<>>) = {} /\ Len(<<>>) = 0
  BY EmptySeq, LenProperties
<1> QED
  BY <1>1 DEF Run, Linked, Contiguous, BlocksOf

LEMMA SingletonRun ==
    ASSUME NEW b \in Block
    PROVE  Run(<<b>>) /\ BlocksOf(<<b>>) = {b} /\ Len(<<b>>) = 1
<1>1. <<b>> \in Seq(Block) /\ Len(<<b>>) = 1 /\ DOMAIN <<b>> = {1} /\ <<b>>[1] = b
  BY LenProperties
<1>2. Number(b) \in Nat
  BY BlockTreeAssumption
<1> QED
  BY <1>1, <1>2 DEF Run, Linked, Contiguous, BlocksOf

LEMMA PathIsRun == ASSUME NEW b \in Block PROVE Run(Path(b))
<1>1. /\ Path(b) \in Seq(Block) /\ Number(b) \in Nat
      /\ Len(Path(b)) = Number(b) + 1 /\ DOMAIN Path(b) = 1..(Number(b) + 1)
  BY PathOfBlock
<1>2. Linked(Path(b))
  <2> SUFFICES ASSUME NEW i \in 2..Len(Path(b)) PROVE Parent(Path(b)[i]) = Path(b)[i - 1]
    BY DEF Linked
  <2>1. i \in DOMAIN Path(b) /\ i > 1
    BY <1>1
  <2> QED
    BY <2>1, BlockTreeAssumption
<1> QED
  BY <1>1, <1>2, LinkedIsRun

(* A run follows the parents down, as a path does: each block of it is on the path to those above. *)
LEMMA RunOnPath ==
    ASSUME NEW s, Run(s), NEW j \in 1..Len(s), NEW i \in 1..j
    PROVE  s[i] \in BlocksOf(Path(s[j])) /\ s[i] = Path(s[j])[Number(s[i]) + 1]
<1> DEFINE off == {k \in 1..j : s[k] \notin BlocksOf(Path(s[j]))}
<1>1. /\ Len(s) \in Nat
      /\ \A k \in 1..Len(s) : s[k] \in Block /\ Number(s[k]) \in Nat /\ Number(s[k]) = Number(s[1]) + k - 1
      /\ \A k \in 2..Len(s) : Parent(s[k]) = s[k - 1]
  BY RunProperties
<1>2. s[j] \in Block /\ Number(s[1]) \in Nat
  BY <1>1
<1>3. off = {}
  <2> SUFFICES ASSUME off # {} PROVE FALSE
    OBVIOUS
  <2>1. PICK k \in off : \A m \in off : k >= m
    <3>1. off \in SUBSET Nat /\ (\A m \in off : m <= j) /\ j \in Nat
      BY <1>1
    <3> QED
      BY <3>1, GreatestNatural
  <2>2. k \in 1..j /\ k # j
    BY <1>1, <1>2, <2>1, PathOfBlock
  <2>3. k + 1 \in 1..j /\ k + 1 \in 2..Len(s) /\ (k + 1) - 1 = k /\ k + 1 > k
    BY <1>1, <2>2
  <2>4. s[k + 1] \in BlocksOf(Path(s[j]))
    BY <2>1, <2>3
  <2> DEFINE n == Number(s[k + 1])
  <2>5. n = Number(s[1]) + k /\ s[k + 1] \in Block /\ Parent(s[k + 1]) = s[k]
    <3>1. s[k + 1] \in Block /\ n = Number(s[1]) + (k + 1) - 1 /\ Parent(s[k + 1]) = s[(k + 1) - 1]
      BY <1>1, <2>3
    <3> QED
      BY <1>1, <1>2, <2>2, <2>3, <3>1
  <2>6. Path(s[j])[n + 1] = s[k + 1] /\ n + 1 \in DOMAIN Path(s[j]) /\ n \in DOMAIN Path(s[j]) /\ n + 1 > 1
    <3>1. /\ n <= Number(s[j]) /\ Path(s[j])[n + 1] = s[k + 1]
          /\ DOMAIN Path(s[j]) = 1..(Number(s[j]) + 1) /\ Number(s[j]) \in Nat
      BY <1>2, <2>4, <2>5, OnPath, PathOfBlock
    <3>2. n \in Nat /\ n >= 1
      BY <1>2, <2>2, <2>5
    <3> HIDE DEF n
    <3> QED
      BY <3>1, <3>2
  <2>7. Path(s[j])[(n + 1) - 1] = s[k]
    BY <1>2, <2>5, <2>6, BlockTreeAssumption
  <2>8. (n + 1) - 1 = n
    BY <1>2, <2>2, <2>5
  <2> QED
    BY <2>1, <2>6, <2>7, <2>8 DEF BlocksOf
<1>4. i \in 1..Len(s)
  BY <1>1
<1> QED
  BY <1>1, <1>2, <1>3, <1>4, OnPath

LEMMA RunConcatenated ==
    ASSUME NEW s, Run(s), s # <<>>, NEW t, Run(t), t # <<>>, Parent(t[1]) = s[Len(s)]
    PROVE  Run(s \o t)
<1>1. /\ s \in Seq(Block) /\ Len(s) \in Nat /\ Len(s) > 0 /\ \A i \in 2..Len(s) : Parent(s[i]) = s[i - 1]
      /\ t \in Seq(Block) /\ Len(t) \in Nat /\ Len(t) > 0 /\ \A i \in 2..Len(t) : Parent(t[i]) = t[i - 1]
  BY RunProperties
<1>2. /\ s \o t \in Seq(Block) /\ Len(s \o t) = Len(s) + Len(t)
      /\ \A i \in 1..(Len(s) + Len(t)) : (s \o t)[i] = IF i <= Len(s) THEN s[i] ELSE t[i - Len(s)]
  BY <1>1, ConcatProperties
<1>3. ASSUME NEW i \in 2..Len(s \o t) PROVE Parent((s \o t)[i]) = (s \o t)[i - 1]
  <2>1. i \in 1..(Len(s) + Len(t)) /\ i - 1 \in 1..(Len(s) + Len(t))
    BY <1>1, <1>2
  <2>2. CASE i <= Len(s)
    BY <1>1, <1>2, <2>1, <2>2
  <2>3. CASE i = Len(s) + 1
    BY <1>1, <1>2, <2>1, <2>3
  <2>4. CASE i > Len(s) + 1
    <3>1. i - Len(s) \in 2..Len(t) /\ (i - Len(s)) - 1 = (i - 1) - Len(s) /\ ~(i <= Len(s)) /\ ~(i - 1 <= Len(s))
      BY <1>1, <1>2, <2>4
    <3>2. Parent(t[i - Len(s)]) = t[(i - Len(s)) - 1]
      BY <1>1, <3>1
    <3> QED
      BY <1>2, <2>1, <3>1, <3>2
  <2> QED
    BY <1>1, <1>2, <2>2, <2>3, <2>4
<1> QED
  BY <1>2, <1>3, LinkedIsRun DEF Linked

-----------------------------------------------------------------------------
(* Runs that are cut, continued and spliced. *)

(* A set of indices that is closed downwards is an initial segment. *)
LEMMA InitialSegment ==
    ASSUME NEW n \in Nat, NEW S, S \subseteq 1..n, \A j \in S : \A i \in 1..j : i \in S
    PROVE  Cardinality(S) \in 0..n /\ S = 1..Cardinality(S)
<1>1. CASE S = {}
  <2>1. Cardinality(S) = 0
    BY <1>1, FS_EmptySet
  <2> QED
    BY <1>1, <2>1
<1>2. CASE S # {}
  <2>1. PICK k \in S : \A m \in S : k >= m
    <3>1. S \in SUBSET Nat /\ \A m \in S : m <= n
      OBVIOUS
    <3> QED
      BY <1>2, <3>1, GreatestNatural
  <2>2. S = 1..k /\ k \in 1..n
    <3>1. \A m \in S : m \in 1..k
      BY <2>1
    <3>2. \A i \in 1..k : i \in S
      BY <2>1
    <3> QED
      BY <2>1, <3>1, <3>2
  <2>3. Cardinality(1..k) = k
    BY <2>2, FS_Interval
  <2> QED
    BY <2>2, <2>3
<1> QED
  BY <1>1, <1>2

(* The blocks of a run below a number come first. *)
LEMMA NumberedBelowFirst ==
    ASSUME NEW s, Run(s), NEW n \in Int
    PROVE  LET k == Cardinality({i \in DOMAIN s : Number(s[i]) < n})
           IN  k \in 0..Len(s) /\ \A i \in 1..Len(s) : i <= k <=> Number(s[i]) < n
<1> DEFINE at == {i \in DOMAIN s : Number(s[i]) < n}
<1>1. /\ Len(s) \in Nat /\ DOMAIN s = 1..Len(s)
      /\ \A i \in 1..Len(s) : Number(s[i]) \in Nat /\ Number(s[i]) = Number(s[1]) + i - 1
  BY RunProperties
<1>2. at \subseteq 1..Len(s) /\ \A j \in at : \A i \in 1..j : i \in at
  <2>1. ASSUME NEW j \in at, NEW i \in 1..j PROVE i \in at
    <3>1. j \in 1..Len(s) /\ i \in 1..Len(s) /\ 1 \in 1..Len(s)
      BY <1>1
    <3>2. Number(s[1]) \in Nat /\ Number(s[i]) = Number(s[1]) + i - 1 /\ Number(s[j]) = Number(s[1]) + j - 1
      BY <1>1, <3>1
    <3>3. Number(s[i]) <= Number(s[j])
      BY <3>1, <3>2
    <3>4. Number(s[j]) < n /\ Number(s[i]) \in Nat /\ Number(s[j]) \in Nat
      BY <1>1, <3>1
    <3>5. Number(s[i]) < n
      BY <3>3, <3>4
    <3> QED
      BY <1>1, <3>1, <3>5
  <2> QED
    BY <1>1, <2>1
<1>3. Cardinality(at) \in 0..Len(s) /\ at = 1..Cardinality(at)
  <2> HIDE DEF at
  <2> QED
    BY <1>1, <1>2, InitialSegment
<1>4. \A i \in 1..Len(s) : i \in 1..Cardinality(at) <=> Number(s[i]) < n
  <2>1. \A i \in 1..Len(s) : i \in at <=> Number(s[i]) < n
    BY <1>1
  <2> HIDE DEF at
  <2> QED
    BY <1>3, <2>1
<1> HIDE DEF at
<1>5. \A i \in 1..Len(s) : i <= Cardinality(at) <=> i \in 1..Cardinality(at)
  BY <1>1, <1>3
<1>6. Cardinality(at) \in 0..Len(s) /\ \A i \in 1..Len(s) : i <= Cardinality(at) <=> Number(s[i]) < n
  BY <1>3, <1>4, <1>5
<1> QED
  BY <1>6 DEF at

(* Two blocks of a run with one number are one block. *)
LEMMA OnePerNumber ==
    ASSUME NEW s, Run(s), NEW b \in BlocksOf(s), NEW c \in BlocksOf(s), Number(b) = Number(c)
    PROVE  b = c
<1>1. /\ BlocksOf(s) = {s[i] : i \in 1..Len(s)} /\ Len(s) \in Nat
      /\ \A i \in 1..Len(s) : Number(s[i]) \in Nat /\ Number(s[i]) = Number(s[1]) + i - 1
  BY RunProperties
<1>2. PICK i \in 1..Len(s) : b = s[i]
  BY <1>1
<1>3. PICK j \in 1..Len(s) : c = s[j]
  BY <1>1
<1>4. Number(s[1]) \in Nat /\ Number(s[i]) = Number(s[1]) + i - 1 /\ Number(s[j]) = Number(s[1]) + j - 1
  <2>1. 1 \in 1..Len(s)
    BY <1>1
  <2> QED
    BY <1>1, <2>1
<1>5. i = j
  BY <1>2, <1>3, <1>4
<1> QED
  BY <1>2, <1>3, <1>5

(* The first k elements of a sequence, and another one *)
Continued(s, k, e) == Append(SubSeq(s, 1, k), e)

(* The last n elements of a sequence, or all of them *)
Shortened(s, n) == IF Len(s) > n THEN SubSeq(s, Len(s) - n + 1, Len(s)) ELSE s

(* A run that is cut, continued and, when it is too long, shortened at its front. *)
LEMMA ExtendedRun ==
    ASSUME NEW c, Run(c), c # <<>>, NEW k \in 1..Len(c), NEW b \in Block, IsParentOf(c[k], b),
           NEW W \in Nat \ {0}
    PROVE  LET new == Shortened(Continued(c, k, b), W)
           IN  /\ Run(new) /\ new # <<>> /\ BlocksOf(new) \subseteq BlocksOf(c) \cup {b} /\ b \in BlocksOf(new)
               /\ new[Len(new)] = b
               /\ new[1] = c[1] \/ (Number(new[1]) = Number(b) + 1 - W /\ new[1] \in BlocksOf(Path(b)))
               /\ \A i \in 1..k : c[i] \in BlocksOf(new) \/ Number(c[i]) < Number(new[1])
<1> DEFINE t == Append(SubSeq(c, 1, k), b)
           new == Shortened(Continued(c, k, b), W)
<1>1. Run(SubSeq(c, 1, k)) /\ Len(SubSeq(c, 1, k)) = k /\ SubSeq(c, 1, k)[k] = c[k]
      /\ BlocksOf(SubSeq(c, 1, k)) \subseteq BlocksOf(c)
  BY PrefixOfRun
<1>2. Run(t) /\ Len(t) = k + 1 /\ BlocksOf(t) = BlocksOf(SubSeq(c, 1, k)) \cup {b}
  BY <1>1, RunExtended DEF IsParentOf
<1>3. /\ c \in Seq(Block) /\ Len(c) \in Nat /\ \A i \in 1..Len(c) : c[i] \in Block
      /\ \A i \in 1..k : SubSeq(c, 1, k)[i] = c[i]
  <2>1. c \in Seq(Block) /\ Len(c) \in Nat /\ \A i \in 1..Len(c) : c[i] \in Block
    BY RunProperties
  <2>2. \A i \in 1..(k - 1 + 1) : SubSeq(c, 1, k)[i] = c[1 + i - 1]
    <3>1. 1 \in 1..(Len(c) + 1) /\ k \in (1 - 1)..Len(c)
      BY <2>1
    <3> QED
      BY <3>1, SegmentOfRun
  <2>3. \A i \in 1..k : i \in 1..(k - 1 + 1) /\ 1 + i - 1 = i
    BY <2>1
  <2> QED
    BY <2>1, <2>2, <2>3
<1>4. (\A i \in 1..k : t[i] = c[i]) /\ t[k + 1] = b
  <2>1. SubSeq(c, 1, k) \in Seq(Block)
    BY <1>1 DEF Run
  <2> QED
    BY <1>1, <1>3, <2>1, AppendProperties
<1>5. W \in Nat \ {0}
  OBVIOUS
<1>6. k \in Nat /\ k >= 1
  BY <1>3
<1>7. /\ \A i \in 1..(k + 1) : t[i] \in Block /\ Number(t[i]) \in Nat /\ Number(t[i]) = Number(t[1]) + i - 1
      /\ BlocksOf(t) = {t[i] : i \in 1..(k + 1)}
  BY <1>2, RunProperties
<1>8. Number(b) = Number(t[1]) + k /\ Number(t[1]) \in Nat
  <2>1. 1 \in 1..(k + 1) /\ k + 1 \in 1..(k + 1)
    BY <1>6
  <2>2. Number(t[1]) \in Nat /\ Number(t[k + 1]) = Number(t[1]) + (k + 1) - 1
    BY <1>7, <2>1
  <2> QED
    BY <1>4, <1>6, <2>2
<1>9. CASE k + 1 > W
  <2> DEFINE m == k + 1 - W + 1
  <2>1. new = SubSeq(t, m, k + 1)
    <3>1. new = SubSeq(t, Len(t) - W + 1, Len(t))
      <4>1. Len(t) > W
        BY <1>2, <1>9
      <4>2. new = Shortened(t, W)
        BY DEF Continued
      <4> HIDE DEF t, new
      <4> QED
        BY <4>1, <4>2 DEF Shortened
    <3>2. Len(t) = k + 1
      BY <1>2
    <3>3. Len(t) - W + 1 = m
      BY <1>5, <1>6, <3>2
    <3> HIDE DEF new, t, m
    <3> QED
      BY <3>1, <3>2, <3>3
  <2>2. m \in 1..(Len(t) + 1) /\ Len(t) \in (m - 1)..Len(t) /\ m \in 2..(k + 1) /\ m - 1 = k + 1 - W
    BY <1>2, <1>5, <1>6, <1>9
  <2> HIDE DEF m
  <2>3. /\ Run(new) /\ Len(new) = (k + 1) - m + 1
        /\ \A i \in 1..((k + 1) - m + 1) : new[i] = t[m + i - 1]
        /\ BlocksOf(new) \subseteq BlocksOf(t)
    <3>1. Len(t) = k + 1 /\ Run(t)
      BY <1>2
    <3>2. m \in 1..(Len(t) + 1) /\ k + 1 \in (m - 1)..Len(t)
      BY <2>2, <3>1
    <3> HIDE DEF t, new
    <3> QED
      BY <2>1, <3>1, <3>2, SegmentOfRun
  <2>4. Len(new) = k + 2 - m /\ \A i \in m..(k + 1) : i - m + 1 \in 1..Len(new) /\ new[i - m + 1] = t[i]
    <3>1. Len(new) = k + 2 - m
      BY <1>6, <2>2, <2>3
    <3>2. ASSUME NEW i \in m..(k + 1) PROVE i - m + 1 \in 1..Len(new) /\ new[i - m + 1] = t[i]
      <4>1. i - m + 1 \in 1..((k + 1) - m + 1) /\ m + (i - m + 1) - 1 = i
        BY <1>6, <2>2
      <4> QED
        BY <2>3, <4>1
    <3> QED
      BY <3>1, <3>2
  <2>5. new # <<>> /\ new[1] = t[m] /\ BlocksOf(new) = {new[i] : i \in 1..Len(new)}
    <3>1. m \in m..(k + 1) /\ m - m + 1 = 1
      BY <1>6, <2>2
    <3>2. Len(new) > 0 /\ new[1] = t[m]
      BY <2>4, <3>1, <1>6, <2>2
    <3>3. Len(<<>>) = 0
      BY EmptySeq
    <3> HIDE DEF new
    <3> QED
      BY <2>3, <3>2, <3>3, RunProperties
  <2>6. b \in BlocksOf(new)
    <3>1. k + 1 \in m..(k + 1)
      BY <1>6, <2>2
    <3> QED
      BY <1>4, <2>4, <2>5, <3>1
  <2>7. Number(new[1]) = Number(b) + 1 - W
    <3>1. m \in 1..(k + 1)
      BY <1>6, <2>2
    <3>2. Number(t[m]) = Number(t[1]) + m - 1
      BY <1>7, <3>1
    <3> HIDE DEF new, t
    <3>3. Number(new[1]) = Number(t[m])
      BY <2>5
    <3>4. m - 1 = k + 1 - W /\ m \in Nat
      BY <2>2
    <3>5. Number(t[1]) + m - 1 = Number(t[1]) + k + 1 - W
      BY <1>5, <1>6, <1>8, <3>4
    <3>6. Number(t[1]) + k + 1 - W = Number(b) + 1 - W
      BY <1>8
    <3> QED
      BY <3>2, <3>3, <3>5, <3>6
  <2>8. new[1] \in BlocksOf(Path(b))
    <3>1. k + 1 \in 1..Len(t) /\ m \in 1..(k + 1)
      BY <1>2, <1>6, <2>2
    <3>2. t[m] \in BlocksOf(Path(t[k + 1]))
      <4> HIDE DEF t
      <4> QED
        BY <1>2, <3>1, RunOnPath
    <3> QED
      BY <1>4, <2>5, <3>2
  <2>9. ASSUME NEW i \in 1..k PROVE c[i] \in BlocksOf(new) \/ Number(c[i]) < Number(new[1])
    <3>1. i \in 1..(k + 1) /\ m \in 1..(k + 1) /\ t[i] = c[i]
      BY <1>4, <1>6, <2>2
    <3>2. CASE i >= m
      <4>1. i \in m..(k + 1)
        BY <2>2, <3>1, <3>2
      <4> QED
        BY <2>4, <2>5, <3>1, <4>1
    <3>3. CASE i < m
      <4>1. Number(t[i]) = Number(t[1]) + i - 1 /\ Number(t[m]) = Number(t[1]) + m - 1
        BY <1>7, <3>1
      <4>2. Number(t[i]) < Number(t[m])
        BY <1>8, <2>2, <3>1, <3>3, <4>1
      <4> QED
        BY <2>5, <3>1, <4>2
    <3> QED
      BY <2>2, <3>1, <3>2, <3>3
  <2>10. BlocksOf(new) \subseteq BlocksOf(c) \cup {b}
    BY <1>1, <1>2, <2>3
  <2>11. new[Len(new)] = b
    <3>1. k + 1 \in m..(k + 1) /\ (k + 1) - m + 1 = Len(new)
      BY <1>6, <2>2, <2>4
    <3> HIDE DEF new
    <3> QED
      BY <1>4, <2>4, <3>1
  <2> HIDE DEF new
  <2>12. QED
    BY <2>3, <2>5, <2>6, <2>7, <2>8, <2>9, <2>10, <2>11 DEF new
<1>10. CASE ~(k + 1 > W)
  <2>1. new = t
    BY <1>2, <1>10 DEF Shortened, Continued
  <2>2. t # <<>>
    <3>1. Len(<<>>) = 0
      BY EmptySeq
    <3> QED
      BY <1>2, <1>6, <3>1
  <2>3. t[1] = c[1] /\ \A i \in 1..k : c[i] \in BlocksOf(t)
    BY <1>4, <1>6, <1>7
  <2>4. BlocksOf(t) \subseteq BlocksOf(c) \cup {b} /\ b \in BlocksOf(t)
    BY <1>1, <1>2
  <2>5. t[Len(t)] = b
    BY <1>2, <1>4
  <2> HIDE DEF t
  <2> QED
    BY <1>2, <2>1, <2>2, <2>3, <2>4, <2>5 DEF t
<1> QED
  BY <1>9, <1>10

(* A run whose first blocks are of a path, and that is continued by that path: it is all of the path. *)
LEMMA SplicedRun ==
    ASSUME NEW c, Run(c), c # <<>>, NEW h \in Block, Number(c[1]) <= Number(h)
    PROVE  LET v == Cardinality({i \in DOMAIN c : c[i] \in BlocksOf(Path(h))})
               new == SubSeq(c, 1, v) \o SubSeq(Path(h), Number(c[1]) + v + 1, Number(h) + 1)
           IN  /\ Run(new) /\ new # <<>> /\ BlocksOf(new) \subseteq BlocksOf(Path(h))
               /\ Number(new[1]) = Number(c[1]) /\ new[Len(new)] = h
               /\ c[1] \in BlocksOf(Path(h)) => v > 0
<1> DEFINE n == Number(c[1])
           valid == {i \in DOMAIN c : c[i] \in BlocksOf(Path(h))}
           v == Cardinality(valid)
           new == SubSeq(c, 1, v) \o SubSeq(Path(h), n + v + 1, Number(h) + 1)
           p == Path(h)
<1>1. /\ c \in Seq(Block) /\ Len(c) \in Nat /\ Len(c) > 0 /\ DOMAIN c = 1..Len(c)
      /\ \A i \in 1..Len(c) : c[i] \in Block /\ Number(c[i]) \in Nat /\ Number(c[i]) = Number(c[1]) + i - 1
  BY RunProperties
<1>2. /\ p \in Seq(Block) /\ Number(h) \in Nat /\ Len(p) = Number(h) + 1 /\ Run(p)
      /\ \A i \in 1..(Number(h) + 1) : p[i] \in Block /\ Number(p[i]) = i - 1
      /\ n \in Nat /\ n <= Number(h)
  BY <1>1, PathOfBlock, PathIsRun
<1>3. v \in 0..Len(c) /\ valid = 1..v
  <2>1. valid \subseteq 1..Len(c)
    BY <1>1
  <2>2. ASSUME NEW j \in valid, NEW i \in 1..j PROVE i \in valid
    <3>1. j \in 1..Len(c) /\ i \in 1..Len(c) /\ c[j] \in BlocksOf(Path(h))
      BY <1>1
    <3>2. c[i] \in BlocksOf(Path(c[j]))
      BY <3>1, RunOnPath
    <3>3. c[i] \in BlocksOf(Path(h))
      BY <3>1, <3>2, OnPathTransitive
    <3> QED
      BY <1>1, <3>1, <3>3
  <2>3. v = Cardinality(valid)
    OBVIOUS
  <2> HIDE DEF valid, v
  <2> QED
    BY <1>1, <2>1, <2>2, <2>3, InitialSegment
<1>4. \A i \in 1..v : i \in 1..Len(c) /\ c[i] \in BlocksOf(p)
  <2>1. \A i \in valid : i \in 1..Len(c) /\ c[i] \in BlocksOf(p)
    BY <1>1
  <2> HIDE DEF valid, v
  <2> QED
    BY <1>3, <2>1
<1>5. \A i \in 1..v : c[i] = p[n + i] /\ n + i \in 1..(Number(h) + 1)
  <2> SUFFICES ASSUME NEW i \in 1..v PROVE c[i] = p[n + i] /\ n + i \in 1..(Number(h) + 1)
    OBVIOUS
  <2>1. c[i] \in Block /\ c[i] \in BlocksOf(p) /\ Number(c[i]) = n + i - 1 /\ i \in Nat /\ i >= 1
    BY <1>1, <1>3, <1>4
  <2>2. Number(c[i]) <= Number(h) /\ p[Number(c[i]) + 1] = c[i]
    BY <2>1, OnPath
  <2>3. Number(c[i]) + 1 = n + i
    BY <1>2, <2>1
  <2> QED
    BY <1>2, <2>1, <2>2, <2>3
<1>6. n + v <= Number(h) + 1 /\ v \in Nat
  <2>1. CASE v = 0
    BY <1>2, <2>1
  <2>2. CASE v > 0
    <3>1. v \in 1..v
      BY <1>3, <2>2
    <3> QED
      BY <1>2, <1>3, <1>5, <3>1
  <2> QED
    BY <1>1, <1>3, <2>1, <2>2
<1> DEFINE kept == SubSeq(c, 1, v)
           added == SubSeq(p, n + v + 1, Number(h) + 1)
           t == SubSeq(p, n + 1, Number(h) + 1)
<1>7. new = kept \o added
  OBVIOUS
<1>8. kept \in Seq(Block) /\ Len(kept) = v /\ \A i \in 1..v : kept[i] = c[i]
  <2>1. 1 \in Nat /\ v \in Nat /\ \A i \in 1..v : c[i] \in Block
    BY <1>1, <1>3
  <2>2. kept \in Seq(Block) /\ Len(kept) = v - 1 + 1 /\ \A i \in 1..(v - 1 + 1) : kept[i] = c[1 + i - 1]
    <3> HIDE DEF v
    <3> QED
      BY <1>1, <1>3, <2>1, SubSeqProperties
  <2>3. v - 1 + 1 = v /\ \A i \in 1..v : 1 + i - 1 = i
    BY <1>6
  <2> HIDE DEF kept, v
  <2> QED
    BY <2>2, <2>3
<1>9. added \in Seq(Block) /\ Len(added) = Number(h) + 1 - (n + v)
      /\ \A i \in 1..(Number(h) + 1 - (n + v)) : added[i] = p[n + v + i]
  <2> DEFINE m == n + v + 1
             l == Number(h) + 1
  <2>1. m \in 1..(Len(p) + 1) /\ l \in (m - 1)..Len(p)
    <3> HIDE DEF v, n
    <3> QED
      BY <1>2, <1>6
  <2>2. /\ Run(SubSeq(p, m, l)) /\ Len(SubSeq(p, m, l)) = l - m + 1
        /\ \A i \in 1..(l - m + 1) : SubSeq(p, m, l)[i] = p[m + i - 1]
    <3> HIDE DEF m, l
    <3> QED
      BY <1>2, <2>1, SegmentOfRun
  <2>3. l - m + 1 = Number(h) + 1 - (n + v) /\ \A i \in 1..(l - m + 1) : m + i - 1 = n + v + i
    <3> HIDE DEF v, n
    <3> QED
      BY <1>2, <1>6
  <2>4. added \in Seq(Block)
    BY <2>2 DEF Run
  <2> QED
    BY <2>2, <2>3, <2>4
<1>10. /\ Run(t) /\ Len(t) = Number(h) + 1 - n
       /\ \A i \in 1..(Number(h) + 1 - n) : t[i] = p[n + i]
       /\ BlocksOf(t) \subseteq BlocksOf(p)
  <2> DEFINE m == n + 1
             l == Number(h) + 1
  <2>1. m \in 1..(Len(p) + 1) /\ l \in (m - 1)..Len(p)
    <3> HIDE DEF n
    <3> QED
      BY <1>2
  <2>2. /\ Run(SubSeq(p, m, l)) /\ Len(SubSeq(p, m, l)) = l - m + 1
        /\ \A i \in 1..(l - m + 1) : SubSeq(p, m, l)[i] = p[m + i - 1]
        /\ BlocksOf(SubSeq(p, m, l)) \subseteq BlocksOf(p)
    <3> HIDE DEF m, l
    <3> QED
      BY <1>2, <2>1, SegmentOfRun
  <2>3. l - m + 1 = Number(h) + 1 - n /\ \A i \in 1..(l - m + 1) : m + i - 1 = n + i
    <3> HIDE DEF n
    <3> QED
      BY <1>2
  <2> QED
    BY <2>2, <2>3
<1>11. new = t
  <2> HIDE DEF v, n, p, kept, added, t, new
  <2>1. /\ new \in Seq(Block) /\ Len(new) = v + (Number(h) + 1 - (n + v))
        /\ \A i \in 1..(v + (Number(h) + 1 - (n + v))) : new[i] = IF i <= v THEN kept[i] ELSE added[i - v]
    <3>1. kept \in Seq(Block) /\ added \in Seq(Block) /\ Len(kept) = v /\ Len(added) = Number(h) + 1 - (n + v)
      BY <1>8, <1>9
    <3>2. /\ kept \o added \in Seq(Block) /\ Len(kept \o added) = Len(kept) + Len(added)
          /\ \A i \in 1..(Len(kept) + Len(added)) :
                (kept \o added)[i] = IF i <= Len(kept) THEN kept[i] ELSE added[i - Len(kept)]
      BY <3>1, ConcatProperties
    <3> QED
      BY <1>7, <3>1, <3>2
  <2>2. v + (Number(h) + 1 - (n + v)) = Number(h) + 1 - n
    BY <1>2, <1>6
  <2>3. ASSUME NEW i \in 1..(Number(h) + 1 - n) PROVE new[i] = t[i]
    <3>1. CASE i <= v
      <4>1. i \in 1..v
        BY <1>6, <3>1
      <4> QED
        BY <1>5, <1>8, <1>10, <2>1, <2>2, <3>1, <4>1
    <3>2. CASE ~(i <= v)
      <4>1. i - v \in 1..(Number(h) + 1 - (n + v)) /\ n + v + (i - v) = n + i
        BY <1>2, <1>6, <3>2
      <4> QED
        BY <1>9, <1>10, <2>1, <2>2, <3>2, <4>1
    <3> QED
      BY <3>1, <3>2
  <2>4. t \in Seq(Block)
    BY <1>10 DEF Run
  <2> QED
    BY <1>10, <2>1, <2>2, <2>3, <2>4, SeqEqual
<1>12. t # <<>> /\ Number(t[1]) = n
  <2>1. 1 \in 1..(Number(h) + 1 - n) /\ n + 1 \in 1..(Number(h) + 1)
    <3> HIDE DEF n
    <3> QED
      BY <1>2
  <2>2. t[1] = p[n + 1] /\ Number(p[n + 1]) = n + 1 - 1
    BY <1>2, <1>10, <2>1
  <2>3. Len(t) > 0 /\ Len(<<>>) = 0
    <3> HIDE DEF n, t
    <3> QED
      BY <1>2, <1>10, EmptySeq
  <2> HIDE DEF n, t
  <2> QED
    BY <1>2, <2>2, <2>3
<1>13. ASSUME c[1] \in BlocksOf(p) PROVE v > 0
  <2>1. 1 \in valid
    BY <1>1, <1>13
  <2> HIDE DEF valid, v
  <2> QED
    BY <1>3, <2>1
<1>14. t[Len(t)] = h
  <2>1. Len(t) \in 1..(Number(h) + 1 - n) /\ n + Len(t) = Number(h) + 1
    <3> HIDE DEF n, t
    <3> QED
      BY <1>2, <1>10
  <2>2. p[Number(h) + 1] = h
    BY PathOfBlock
  <2> HIDE DEF n, t
  <2> QED
    BY <1>10, <2>1, <2>2
<1> HIDE DEF t, new
<1> QED
  BY <1>10, <1>11, <1>12, <1>13, <1>14 DEF new, valid
=============================================================================
