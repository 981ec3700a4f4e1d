---------------------------- MODULE MCInference ----------------------------
(* Training on a graph that is not layered.  Operands have lower numbers.    *)
EXTENDS Inference

MCTerms == 1 .. 8
MCNoNode == 0

DepthOf(ops) ==
    LET d[t \in MCTerms] ==
          IF ops[t] = << >> THEN 0
          ELSE 1 + Max({d[ops[t][i]] : i \in DOMAIN ops[t]})
    IN  d

Graph(id, ops) == [id |-> id, ops |-> ops, depth |-> DepthOf(ops)]

(* f^6(x) with h on f^3(x): h is a second root, from which f^3(x) is reached  *)
(* before f^5(x) is.                                                        *)
Shortcut == Graph(<<1, 2, 2, 2, 2, 2, 2, 3>>,
                  << <<>>, <<1>>, <<2>>, <<3>>, <<4>>, <<5>>, <<6>>, <<4>> >>)

MCGraphs == {Shortcut}
=============================================================================
