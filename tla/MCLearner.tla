---------------------------- MODULE MCLearner ------------------------------
(* The learner on small graphs over one signature: x, y are leaves, a, b and  *)
(* c unary, p binary.                                                         *)
EXTENDS Learner

MCTerms == 1 .. 7
MCNoNode == 0

DepthOf(o) ==
    LET d[t \in MCTerms] ==
          IF o[t] = << >> THEN 0 ELSE 1 + Max({d[o[t][i]] : i \in DOMAIN o[t]})
    IN  d

Graph(id, o) == [id |-> id, ops |-> o, depth |-> DepthOf(o)]

x == 1
y == 2
a == 3
b == 4
c == 5
p == 6

(* b(a(y)) and p(t, t) for t = b(a(x)): a root and an operand in one class,    *)
(* which is met again after it was spliced.                                  *)
Towers == Graph(<<x, y, a, a, b, b, p>>,
                << <<>>, <<>>, <<1>>, <<2>>, <<3>>, <<4>>, <<5, 5>> >>)

(* The roots a(a(a(a(a(x))))) and p(a(x), a(a(x))) share their operands. *)
Chain == Graph(<<x, a, a, a, a, a, p>>,
               << <<>>, <<1>>, <<2>>, <<3>>, <<4>>, <<5>>, <<2, 3>> >>)

(* The roots b(p(x, y)) and c(b(p(y, x))). *)
Pairs == Graph(<<x, y, p, p, b, b, c>>,
               << <<>>, <<>>, <<1, 2>>, <<2, 1>>, <<3>>, <<4>>, <<6>> >>)

(* Terms that are not in the training set, but over its symbols. *)
UnseenTowers == Graph(<<x, y, a, a, b, p, p>>,
                      << <<>>, <<>>, <<1>>, <<3>>, <<4>>, <<5, 5>>, <<5, 3>> >>)
UnseenPairs == Graph(<<x, y, p, p, b, c, a>>,
                     << <<>>, <<>>, <<2, 1>>, <<1, 1>>, <<3>>, <<5>>, <<4>> >>)
UnseenChain == Graph(<<x, a, a, a, a, p, p>>,
                     << <<>>, <<1>>, <<2>>, <<3>>, <<4>>, <<3, 4>>, <<5, 2>> >>)

MCGraphs == {Towers, Chain, Pairs}
MCTests == {UnseenTowers, UnseenPairs, UnseenChain}
=============================================================================
