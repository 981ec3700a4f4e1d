--------------------------- MODULE MCObfuscation ----------------------------
(* Small functions.  A block is its number of phi nodes, its number of other  *)
(* instructions and its successors.                                         *)
EXTENDS Obfuscation

Function(phis, ops, to, cond) ==
    LET n == Len(to)
        code(b) == [i \in 1 .. phis[b] + ops[b] |->
                      [kind |-> IF i <= phis[b] THEN "phi" ELSE "op", at |-> <<b, i>>]]
    IN  [layout |-> [b \in 1 .. n |-> b],
         code |-> [b \in 1 .. n |-> code(b)],
         term |-> [b \in 1 .. n |->
                     [to |-> to[b], sets |-> << >>, orig |-> b,
                      cond |-> IF Len(to[b]) > 1 THEN cond ELSE "none"]],
         from |-> [b \in 1 .. n |-> [p \in {q \in 1 .. n : b \in ToSet(to[q])} |-> p]],
         cases |-> << >>,
         default |-> 0]

(* for: a long entry, a header with a phi node, a body, a return. *)
Loop == Function(<<0, 1, 0, 0>>, <<3, 0, 0, 0>>, << <<2>>, <<3, 4>>, <<2>>, <<>> >>, "data")

(* if: the entry, with as many instructions as cuts, ends in the choice; its *)
(* arms meet in a phi node.                                                 *)
Diamond == Function(<<0, 0, 0, 1>>, <<2, 1, 0, 0>>, << <<3, 2>>, <<4>>, <<4>>, <<>> >>, "data")

(* do-while on one block. *)
SelfLoop == Function(<<0, 1, 0>>, <<0, 0, 0>>, << <<2>>, <<3, 2>>, <<>> >>, "data")

(* An indirect branch of three ways. *)
Indirect == Function(<<0, 1, 0, 1>>, <<0, 0, 1, 0>>, << <<2>>, <<2, 3, 4>>, <<4>>, <<>> >>, "data")

(* A call that may unwind. *)
Invoke == Function(<<0, 0, 0, 0>>, <<1, 1, 0, 0>>, << <<2>>, <<3, 4>>, <<>>, <<>> >>, "invoke")

Single == Function(<<0>>, <<2>>, << <<>> >>, "none")

(* Its second branch is on a comparison of its own that is always true. *)
OwnTrue == Function(<<0, 0, 0, 0>>, <<0, 1, 1, 0>>, << <<2>>, <<4, 3>>, <<4>>, <<>> >>, "true")

-----------------------------------------------------------------------------
(* The choice at the end of b becomes a switch whose cases have the values,  *)
(* in that order.                                                           *)
WithSwitch(fn, b, vals) ==
    [fn EXCEPT !.term[b] = [to |-> @.to, sets |-> << >>, orig |-> b, cond |-> "cases",
                            vals |-> vals]]

WithUnreachable(fn, b) == [fn EXCEPT !.term[b].cond = "unreachable"]

Cases(dest) == SetToSortSeq({v \in DOMAIN dest : dest[v] # 0}, <)
Dests(dest) == [i \in DOMAIN Cases(dest) |-> dest[Cases(dest)[i]]]

(* The entry ends in a switch, of which each value goes to one of two arms,   *)
(* to the phi node they meet in, or to the default.                         *)
EntrySwitch(dest, default) ==
    WithUnreachable(
        WithSwitch(Function(<<0, 0, 0, 1, 0>>, <<1, 0, 0, 0, 0>>,
                            << <<default>> \o Dests(dest), <<4>>, <<4>>, <<>>, <<>> >>, "data"),
                   1, Cases(dest)), 5)

(* A loop whose header, a phi node, ends in the switch. *)
LoopSwitch(dest, default) ==
    WithUnreachable(
        WithSwitch(Function(<<0, 0, 1, 0, 0, 0>>, <<0, 0, 0, 1, 0, 0>>,
                            << <<2>>, <<3>>, <<default>> \o Dests(dest), <<3>>, <<>>, <<>> >>, "data"),
                   3, Cases(dest)), 6)

(* A switch in front of an invoke. *)
InvokeSwitch ==
    WithSwitch(Function(<<0, 0, 1, 0>>, <<1, 1, 0, 0>>,
                        << <<3, 3, 3, 2>>, <<3, 4>>, <<>>, <<>> >>, "invoke"), 1, <<0, 1, -1>>)

Values == -2 .. 1

(* The default is on both sides of the case; the default cannot be reached.   *)
OneCase == EntrySwitch([v \in Values |-> IF v = -1 THEN 2 ELSE 0], 3)
TwoCases == LoopSwitch([v \in Values |-> CASE v = -2 -> 3 [] v = -1 -> 4 [] v = 0 -> 3 [] v = 1 -> 5], 6)

(* With one destination the switch is a jump: to the block behind it, see Goto. *)
EntrySwitches ==
    LET arms(dest, default) == ({dest[v] : v \in Values} \cup {default}) \ {0, 5}
        fits(dest, default) == arms(dest, default) = {2} \/ Cardinality(arms(dest, default)) > 1
    IN  {EntrySwitch(c[1], c[2]) :
            c \in {d \in [Values -> {0, 2, 3, 4}] \X {2, 3, 4, 5} : fits(d[1], d[2])}}

LoopSwitches ==
    {LoopSwitch(dest @@ (1 :> 5), default) : dest \in [-2 .. 0 -> {0, 3, 4}], default \in {3, 6}}

-----------------------------------------------------------------------------
Passes == {"split", "bogus", "flatten"}

Compiled(functions, choices) == [function : functions, passes : choices]

MCCompilations ==
    Compiled({Loop, Diamond, SelfLoop, Indirect, Invoke, Single, OwnTrue, InvokeSwitch, OneCase, TwoCases},
             SUBSET Passes)
        \cup Compiled(EntrySwitches \cup LoopSwitches, {{"flatten"}})

(* The entry jumps over the block behind it. *)
Goto == Function(<<0, 0, 0>>, <<1, 1, 1>>, << <<3>>, <<>>, <<2>> >>, "none")

(* The header of a loop, behind the entry, is the default of a switch. *)
Continue ==
    WithSwitch(Function(<<0, 1, 0>>, <<0, 0, 0>>, << <<2>>, <<2, 3>>, <<>> >>, "data"), 2, <<0>>)

GotoCompilations == Compiled({Goto, Continue}, {{"flatten"}})

MCScramble == [i \in 0 .. 60 |-> (i * 7 + 5) % 61]
=============================================================================
