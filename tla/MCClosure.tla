----------------------------- MODULE MCClosure -----------------------------
(* Closure on small graphs: a chain g(f(..f(x))), on which one merge can     *)
(* fold all of its f, and a graph with two leaves, unary and binary      *)
(* symbols, on which merges meet in the operands of one term.               *)
EXTENDS Closure

MCTerms == 1 .. 6
MCNoNode == 0

DepthOf(ops) ==
    LET d[t \in MCTerms] ==
          IF ops[t] = << >> THEN 0
          ELSE 1 + Max({d[ops[t][i]] : i \in DOMAIN ops[t]})
    IN  d

Graph(id, ops) == [id |-> id, ops |-> ops, depth |-> DepthOf(ops)]

Chain == Graph(<<1, 2, 2, 2, 2, 3>>,
               << <<>>, <<1>>, <<2>>, <<3>>, <<4>>, <<5>> >>)

(* x, f(x), f(f(x)), h(f(x), ff(x)), h(ff(x), f(x)), h(h(..), f(x)) *)
Binary == Graph(<<1, 2, 2, 3, 3, 3>>,
                << <<>>, <<1>>, <<2>>, <<2, 3>>, <<3, 2>>, <<4, 2>> >>)

(* x, y, f(x), f(y), g(f(x)), g(f(y)) *)
Twins == Graph(<<1, 2, 3, 3, 4, 4>>,
               << <<>>, <<>>, <<1>>, <<2>>, <<3>>, <<4>> >>)

MCGraphs == {Chain, Binary, Twins}

(* Every partition of the terms, as the function that maps a term to the    *)
(* least member of its class.                                               *)
Below == {<<1, b, c, d, e, f>> : b \in 1 .. 2, c \in 1 .. 3, d \in 1 .. 4,
                                 e \in 1 .. 5, f \in 1 .. 6}

MCLabellings == {c \in Below : \A t \in MCTerms : c[c[t]] = c[t]}
=============================================================================
