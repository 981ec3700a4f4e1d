-------------------------- MODULE SplitBasicBlocks --------------------------
(***************************************************************************)
(* The pass SplitBasicBlock (Transforms/Obfuscation/SplitBasicBlocks.cpp):  *)
(* every block is cut at randomly chosen points.                            *)
(***************************************************************************)
EXTENDS Cfg, FiniteSetsExt

CONSTANT SplitNum   \* -splitNum, the number of cuts per block

VARIABLES f,        \* the function being rewritten
          todo,     \* the blocks of origBB not reached yet
          splitN    \* the cuts of a block; carried from block to block

SplitInit(fn) ==
    /\ todo = fn.layout
    /\ splitN = SplitNum

(* A block of one instruction or with phi nodes is left alone (lines         *)
(* 102-104, 141-148).                                                       *)
Splits(b) == Size(f, b) >= 2 /\ ~\E i \in DOMAIN f.code[b] : IsPhi(f.code[b][i])

(* Lines 107-109. *)
Cuts(b) == IF splitN > Size(f, b) THEN Size(f, b) - 1 ELSE splitN

(* Lines 111-115: one point before every instruction but the first. *)
SplitPoints(b) == 1 .. Size(f, b) - 1

(* When a block has as many instructions as cuts, one point is read from     *)
(* behind the end of the vector.  It is sorted in, unless the vector has one *)
(* element and is not sorted (line 118); then it changes nothing.  With any  *)
(* value that lies outside the block the iterator runs out of it.           *)
StrayPoints(b) == IF Size(f, b) = 2 THEN {1} ELSE 0 .. Size(f, b) - 1

(* The points of the cuts, in order: those the shuffle put first.            *)
ChosenPoints(b) ==
    IF Cuts(b) < Size(f, b)
       THEN {InOrder(points) : points \in kSubset(Cuts(b), SplitPoints(b))}
       ELSE {InsertAt(InOrder(SplitPoints(b)), p + 1, p) : p \in StrayPoints(b)}

(* One iteration of the loop of lines 127-135: the last piece is cut again. *)
CutAt(cut, p) ==
    IF Size(cut.f, cut.block) < 2
       THEN [cut EXCEPT !.last = p]
       ELSE [f |-> SplitBlock(cut.f, cut.block, p - cut.last),
             block |-> Fresh(cut.f), last |-> p]

CutAll(b, points) ==
    FoldLeft(CutAt, [f |-> f, block |-> b, last |-> 0], points).f

(* One block. *)
SplitNext ==
    /\ todo # << >>
    /\ todo' = Tail(todo)
    /\ LET b == Head(todo)
       IN  IF Splits(b)
              THEN /\ splitN' = Cuts(b)
                   /\ \E points \in ChosenPoints(b) : f' = CutAll(b, points)
              ELSE UNCHANGED <<f, splitN>>

=============================================================================
