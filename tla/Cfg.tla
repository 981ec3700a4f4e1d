-------------------------------- MODULE Cfg --------------------------------
(***************************************************************************)
(* LLVM functions as the obfuscation passes see and change them.  A block is *)
(* a number; a function is a record of                                      *)
(*   layout  the blocks in order, the entry first                           *)
(*   code    for a block, its instructions without the terminator           *)
(*   term    for a block, its terminator                                    *)
(*   from    for a block, what its phi nodes take from each predecessor:    *)
(*           the predecessor it stands for in the original function         *)
(*   cases   for a value of the switch variable, the block (Flattening)     *)
(*   default the default destination of that switch, 0 when there is none   *)
(* An instruction is [kind, at]: a phi node, another instruction or a junk   *)
(* copy, and its place in the original function.  A terminator is           *)
(*   to      the successors                                                 *)
(*   cond    what chooses among them: "none", "data", "invoke", "true"      *)
(*           (FCMP_TRUE), "opaque", "cases" (a switch of the program), or    *)
(*           "switch" (that of Flattening); "unreachable" ends the block     *)
(*   sets    the values of the switch variable, one per choice, when the    *)
(*           terminator was replaced by a store and a jump                  *)
(*   orig    the original block it terminated, 0 when a pass added it       *)
(***************************************************************************)
EXTENDS Integers, SequencesExt

Jump(b) == [to |-> <<b>>, cond |-> "none", sets |-> << >>, orig |-> 0]

Blocks(fn) == ToSet(fn.layout)

Entry(fn) == Head(fn.layout)

(* A number that no block has. *)
Fresh(fn) == Max(Blocks(fn)) + 1

(* BasicBlock::size, which counts the terminator. *)
Size(fn, b) == Len(fn.code[b]) + 1

IsPhi(ins) == ins.kind = "phi"

(* Nothing but phi nodes before an unreachable instruction. *)
IsUnreachable(fn, b) ==
    fn.term[b].cond = "unreachable" /\ \A i \in DOMAIN fn.code[b] : IsPhi(fn.code[b][i])

(* The members of a set of numbers, in order. *)
InOrder(S) ==
    CHOOSE s \in [1 .. Cardinality(S) -> S] : \A i, j \in DOMAIN s : i < j => s[i] < s[j]

Preds(fn, b) == {p \in Blocks(fn) : b \in ToSet(fn.term[p].to)}

(* What a map has for every block, and x for b. *)
Extended(map, b, x) == [n \in DOMAIN map \cup {b} |-> IF n = b THEN x ELSE map[n]]

(* The block with its code and terminator, at a place of the layout. *)
AddBlock(fn, place, b, code, term, from) ==
    [fn EXCEPT !.layout = InsertAt(@, place, b),
               !.code = Extended(@, b, code),
               !.term = Extended(@, b, term),
               !.from = Extended(@, b, from)]

PlaceOf(fn, b) == CHOOSE i \in DOMAIN fn.layout : fn.layout[i] = b

(* What phi nodes take from p is taken from n instead. *)
Renamed(from, p, n) ==
    IF p \in DOMAIN from
       THEN [x \in (DOMAIN from \ {p}) \cup {n} |-> IF x = n THEN from[p] ELSE from[x]]
       ELSE from

(* BasicBlock::splitBasicBlock: the instructions after the first k and the   *)
(* terminator move to a new block behind b, and the phi nodes of the        *)
(* successors take from the new block what they took from b.                *)
SplitBlock(fn, b, k) ==
    LET n == Fresh(fn)
        cut == [fn EXCEPT !.code[b] = SubSeq(@, 1, k),
                          !.term[b] = Jump(n),
                          !.from = [x \in DOMAIN @ |->
                                      IF x \in ToSet(fn.term[b].to)
                                         THEN Renamed(@[x], b, n) ELSE @[x]]]
    IN  AddBlock(cut, PlaceOf(fn, b) + 1, n, SubSeq(fn.code[b], k + 1, Len(fn.code[b])),
                 fn.term[b], fn.from[b])
=============================================================================
