----------------------------- MODULE Flattening -----------------------------
(***************************************************************************)
(* The pass Flattening (Transforms/Obfuscation/Flattening.cpp): the blocks   *)
(* become the cases of a switch in a loop, and a jump becomes a store to    *)
(* the switch variable.  LowerSwitch has run: no block ends in a switch.    *)
(***************************************************************************)
EXTENDS Cfg

CONSTANT Scramble   \* scramble32 under the key of this function

(* Lines 77-95: a function with an invoke is left alone, and one of a        *)
(* single block.                                                            *)
Flattens(fn) ==
    /\ \A b \in Blocks(fn) : fn.term[b].cond # "invoke"
    /\ Len(fn.layout) > 1

(* Mutant: an entry that ends in a choice is not split. *)
WithFirstUnsplit(fn) == fn

(* Lines 100-120: an entry that ends in a choice is split before its last     *)
(* instruction, so that the choice has a block of its own, "first".         *)
WithFirst(fn) ==
    IF Len(fn.term[Entry(fn)].to) > 1
       THEN SplitBlock(fn, Entry(fn), Max({0, Len(fn.code[Entry(fn)]) - 1}))
       ELSE fn

(* scramble32(n, scrambling_key) *)
Case(n) == Scramble[n]

(* findCaseDest: the case of a block, or else the last one (lines 192-201). *)
CaseOf(origBB, b) ==
    IF b \in ToSet(origBB)
       THEN Case((CHOOSE i \in DOMAIN origBB : origBB[i] = b) - 1)
       ELSE Case(Len(origBB) - 1)

(* Lines 175-246: a terminator of one or two successors becomes a store, of  *)
(* a select when there are two, and a jump to loopEnd; others stay.         *)
UpdateSwitchVar(t, origBB, loopEnd) ==
    IF Len(t.to) \in {1, 2}
       THEN [t EXCEPT !.to = <<loopEnd>>,
                      !.sets = [i \in DOMAIN t.to |-> CaseOf(origBB, t.to[i])]]
       ELSE t

(* flatten: what it returns for a function it does flatten. *)
Flattened(fn) ==
    LET first == WithFirst(fn)
        insert == Entry(first)
        origBB == Tail(first.layout)
        loopEntry == Fresh(first)
        loopEnd == loopEntry + 1
        swDefault == loopEntry + 2
        new == {loopEntry, loopEnd, swDefault}
        dispatch == [to |-> <<swDefault>> \o origBB, cond |-> "switch",
                     sets |-> << >>, orig |-> 0]
    IN  [layout |-> <<insert, loopEntry, swDefault>> \o origBB \o <<loopEnd>>,
         code |-> [b \in DOMAIN first.code \cup new |->
                     IF b \in new THEN << >> ELSE first.code[b]],
         term |-> [b \in DOMAIN first.term \cup new |->
                     CASE b = insert -> [first.term[b] EXCEPT !.to = <<loopEntry>>,
                                                              !.sets = <<Case(0)>>]
                       [] b = loopEntry -> dispatch
                       [] b = loopEnd -> Jump(loopEntry)
                       [] b = swDefault -> Jump(loopEnd)
                       [] OTHER -> UpdateSwitchVar(first.term[b], origBB, loopEnd)],
         from |-> [b \in DOMAIN first.from \cup new |->
                     IF b \in new THEN << >> ELSE first.from[b]],
         cases |-> [c \in {CaseOf(origBB, b) : b \in ToSet(origBB)} |->
                      CHOOSE b \in ToSet(origBB) : CaseOf(origBB, b) = c],
         default |-> swDefault]

Flatten(fn) == IF Flattens(fn) THEN Flattened(fn) ELSE fn
=============================================================================
