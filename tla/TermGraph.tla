----------------------------- MODULE TermGraph -----------------------------
(***************************************************************************)
(* Hash-consed term graphs: the data the inference engine works on          *)
(* (src/tautomata-inf/src/Term.h, Term.cpp).                                *)
(*                                                                          *)
(* A graph is a record: id[t] is the symbol of a term (an id of the name    *)
(* table), ops[t] the sequence of its operands, depth[t] its height.  The   *)
(* use set of a term is the inverse of ops, because the only writers of     *)
(* Term::uses are the constructor, addOp and substOp.                       *)
(***************************************************************************)
EXTENDS Naturals, Sequences

(* The terms u that have t as an operand: Term::uses as the constructor of  *)
(* u fills it.                                                              *)
Uses(Terms, g, t) == {u \in Terms : \E i \in DOMAIN g.ops[u] : g.ops[u][i] = t}

(* Term::isFinal: nothing uses the term. *)
IsFinal(Terms, g, t) == Uses(Terms, g, t) = {}

(* What CSE and the Term constructor leave: two terms with the same symbol  *)
(* and the same operands are one term, a symbol has one arity, a leaf has   *)
(* depth 0 and any other term is one deeper than its deepest operand.       *)
IsTermGraph(Terms, g) ==
    /\ g.id \in [Terms -> Nat]
    /\ g.ops \in [Terms -> Seq(Terms)]
    /\ g.depth \in [Terms -> Nat]
    /\ \A t, u \in Terms :
          g.id[t] = g.id[u] =>
             /\ Len(g.ops[t]) = Len(g.ops[u])
             /\ g.ops[t] = g.ops[u] => t = u
    /\ \A t \in Terms :
          /\ \A i \in DOMAIN g.ops[t] : g.depth[g.ops[t][i]] < g.depth[t]
          /\ g.depth[t] > 0 =>
                \E i \in DOMAIN g.ops[t] : g.depth[g.ops[t][i]] = g.depth[t] - 1

(* TermSorter: by symbol, then depth; the third key is the 32-bit node hash, *)
(* whose order is arbitrary, so terms equal in the first two come in any    *)
(* order.                                                                   *)
SortsBefore(g, t, u) ==
    \/ g.id[t] < g.id[u]
    \/ g.id[t] = g.id[u] /\ g.depth[t] < g.depth[u]

(* Term::klevEqual: the two terms agree down to k levels.                   *)
KLevEqual(Terms, g) ==
    LET eq[k \in Nat] ==
          [p \in Terms \X Terms |->
              /\ g.id[p[1]] = g.id[p[2]]
              /\ Len(g.ops[p[1]]) = Len(g.ops[p[2]])
              /\ k > 0 => \A i \in DOMAIN g.ops[p[1]] :
                              eq[k - 1][<<g.ops[p[1]][i], g.ops[p[2]][i]>>]]
    IN  eq

(* Term::recomputeKLevHash as a structural hash: a leaf hashes to its own   *)
(* symbol, any other term to its symbol and the current hashes of its       *)
(* operands, in order.                                                      *)
RecomputeKLevHash(g, khash, t) ==
    IF g.depth[t] = 0
       THEN <<g.id[t], <<>>>>
       ELSE <<g.id[t], [i \in DOMAIN g.ops[t] |-> khash[g.ops[t][i]]]>>

(* In the automaton an operand or a use may be a term or a state (Term::state). *)
TermNode(t) == <<"term", t>>
StateNode(t) == <<"state", t>>
IsState(node) == node[1] = "state"
=============================================================================
