--------------------------- MODULE MCSubstitution ---------------------------
(* Blocks of one or two operators. *)
EXTENDS Substitution

X == <<"arg", 1>>
Y == <<"arg", 2>>

Ins(n, op, v, w, flags) ==
    [id |-> n, op |-> op, a |-> v, b |-> w, nsw |-> "nsw" \in flags, nuw |-> "nuw" \in flags]

One(op, flags, loops) ==
    [code |-> << Ins(1, op, X, Y, flags) >>, root |-> 1, loops |-> loops]

(* (x op1 y) op2 v; with v the first value, it is used twice. *)
Two(op1, op2, v) ==
    [code |-> << Ins(1, op1, X, Y, {}), Ins(2, op2, <<"ins", 1>>, v, {}) >>,
     root |-> 2, loops |-> 1]

MCPrograms ==
    {Two(op1, op2, v) : op1, op2 \in Ops, v \in {X, <<"ins", 1>>}}
    \cup {One("add", {}, 2), One("sub", {}, 2)}

(* Operators that do not wrap in the source language. *)
FlaggedPrograms ==
    {One(op, {flag}, 1) : op \in {"add", "sub"}, flag \in {"nsw", "nuw"}}
=============================================================================
