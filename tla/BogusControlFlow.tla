-------------------------- MODULE BogusControlFlow --------------------------
(***************************************************************************)
(* The pass BogusControlFlow (Transforms/Obfuscation/BogusControlFlow.cpp): *)
(* chosen blocks are wrapped in branches that are always taken, towards a   *)
(* junk copy of the block that never runs.                                  *)
(***************************************************************************)
EXTENDS Cfg, MachineWords

CONSTANTS ObfProbRate,   \* -boguscf-prob
          ObfTimes,      \* -boguscf-loop
          Draws,         \* the values of get_range(100) considered
          Width          \* the bits of an i32

VARIABLES f,       \* the function being rewritten
          todo,    \* basicBlocks, the blocks of this round not reached yet
          times    \* NumObfTimes

(* The pass begins with the blocks the function has (lines 180-184). *)
BogusStart ==
    /\ todo' = f.layout
    /\ times' = ObfTimes
    /\ UNCHANGED f

(* Mutant: x * x instead of x * (x - 1). *)
OpaqueSquare(x, y) == ((x * x) % Pow2[Width]) % 2 = 0 \/ Signed(Width, y) < 10

(* The predicate that doF puts in place of FCMP_TRUE, over wrapping words    *)
(* (lines 557-575).                                                         *)
Opaque(x, y) == 
    \/ ((x * ((x - 1) % Pow2[Width])) % Pow2[Width]) % 2 = 0
    \/ Signed(Width, y) < 10

(* createAlteredBasicBlock: a copy behind the function, every instruction    *)
(* of which is junk; its terminator is replaced at once (lines 255, 280).    *)
AddAlteredBlock(fn, b) ==
    AddBlock(fn, Len(fn.layout) + 1, Fresh(fn),
             [i \in DOMAIN fn.code[b] |-> [fn.code[b][i] EXCEPT !.kind = "junk"]],
             Jump(b), fn.from[b])

(* Mutant of PhisOf: the phi nodes move to the second part with everything  *)
(* else.                                                                    *)
PhisOfNone(fn, b) == 0

(* getFirstNonPHIOrDbgOrLifetime: the number of leading phi nodes. *)
PhisOf(fn, b) == Cardinality({i \in DOMAIN fn.code[b] : IsPhi(fn.code[b][i])})

Always(t, e) == [to |-> <<t, e>>, cond |-> "true", sets |-> << >>, orig |-> 0]

(* addBogusFlow: the phi nodes stay in b, the other instructions become      *)
(* originalBB, its terminator alone originalBBpart2.                        *)
AddBogusFlow(fn, b) ==
    LET original == Fresh(fn)
        split == SplitBlock(fn, b, PhisOf(fn, b))
        altered == Fresh(split)
        copied == AddAlteredBlock(split, original)
        part2 == Fresh(copied)
        isolated == SplitBlock(copied, original, Len(copied.code[original]))
    IN  [isolated EXCEPT !.term[b] = Always(original, altered),
                         !.term[original] = Always(part2, altered)]

(* One block of the round (lines 187-212). *)
BogusBlock ==
    /\ times > 0
    /\ todo # << >>
    /\ todo' = Tail(todo)
    /\ \E draw \in Draws :
          f' = IF draw <= ObfProbRate THEN AddBogusFlow(f, Head(todo)) ELSE f
    /\ UNCHANGED times

(* The next round takes the blocks of the last one as well. *)
NextRound ==
    /\ times > 0
    /\ todo = << >>
    /\ times' = times - 1
    /\ todo' = IF times > 1 THEN f.layout ELSE << >>
    /\ UNCHANGED f

(* doF: every FCMP_TRUE becomes the opaque predicate. *)
DoF(fn) ==
    [fn EXCEPT !.term = [b \in DOMAIN @ |->
                           IF @[b].cond = "true" THEN [@[b] EXCEPT !.cond = "opaque"]
                                                 ELSE @[b]]]

BogusNext == BogusBlock \/ NextRound
=============================================================================
