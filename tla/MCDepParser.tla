---------------------------- MODULE MCDepParser ----------------------------
(* Files of up to three nodes.                                              *)
EXTENDS DepParser

N(n) == [kind |-> "N", nodes |-> n]
V(node, name, arity) == [kind |-> "V", node |-> node, name |-> name, arity |-> arity]
E(from, to, port) == [kind |-> "E", from |-> from, to |-> to, port |-> port]

(* The file of nodes 0 .. Len(ops) - 1 with one name; an operand is a node of *)
(* lower number or missing (-1).                                            *)
File(name, ops) ==
    LET edges(i) == FlattenSeq([p \in DOMAIN ops[i] |->
                        IF ops[i][p] < 0 THEN << >> ELSE <<E(ops[i][p], i - 1, p - 1)>>])
    IN  <<N(Len(ops) - 1)>>
        \o [i \in DOMAIN ops |-> V(i - 1, name, Len(ops[i]))]
        \o FlattenSeq([i \in DOMAIN ops |-> edges(i)])

Operands(n) == {<< >>} \cup {<<x>> : x \in -1 .. n - 1}
                       \cup {<<x, y>> : x, y \in -1 .. n - 1}

A == <<"a", 0>>

GoodFiles == {File(A, ops) : ops \in Operands(0) \X Operands(1) \X Operands(2)}

(* A port that does not exist, a node beyond the declared number, no lines,  *)
(* and a node and an edge of a file that does not give the number of nodes.  *)
BadFiles == {<<N(1), V(0, A, 0), V(1, A, 1), E(0, 1, 1)>>, <<N(0), V(1, A, 0)>>, << >>,
             <<V(0, A, 0)>>, <<E(0, 0, 0)>>}

(* Two leaves, b of node 0 and a of node 1, and a term above one of them or   *)
(* both: its port is written twice; a node is declared again, before and     *)
(* after an edge leaves it.                                                 *)
B == <<"b", 0>>
Leaves == <<N(2), V(0, B, 0), V(1, A, 0), V(2, A, 1), E(0, 2, 0)>>

OddFiles == {Leaves \o <<E(1, 2, 0)>>, Leaves \o <<E(0, 2, 0)>>,
             Leaves \o <<V(0, A, 0)>>, Leaves \o <<V(2, B, 1), E(1, 2, 0)>>}

(* A cycle, a cycle below a root, a term that is its own operand. *)
Loop == <<N(2), V(0, A, 1), V(1, A, 1), E(0, 1, 0), E(1, 0, 0)>>

CyclicFiles == {Loop, Loop \o <<V(2, A, 1), E(0, 2, 0)>>, Loop \o <<V(2, B, 0)>>,
                <<N(0), V(0, A, 1), E(0, 0, 0)>>}

MCFiles == GoodFiles \cup BadFiles \cup OddFiles \cup CyclicFiles

(* The edge starts at a node that was not declared; no number of nodes. *)
UndeclaredFiles == {<<N(1), V(0, A, 1), E(1, 0, 0)>>, <<V(0, A, 0)>>}
=============================================================================
