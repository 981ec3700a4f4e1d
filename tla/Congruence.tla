---------------------------- MODULE Congruence -----------------------------
(***************************************************************************)
(* What the congruence closure promises, without its data structures: an    *)
(* equivalence `rel` on the terms that starts as the identity and is joined *)
(* only at pairs the client requested or pairs whose operands are already   *)
(* equal, and that holds every requested pair when it is done.              *)
(***************************************************************************)
EXTENDS TermGraph

CONSTANTS Terms,    \* the terms
          Graphs    \* the term graphs considered, see TermGraph!IsTermGraph

VARIABLES g,          \* the graph of this run; never changes
          phase,      \* "building", "closing", "done"
          rel,        \* the equivalence, as a set of pairs
          requests    \* the pairs the client asked to merge

vars == <<g, phase, rel, requests>>

Related(t, u) == <<t, u>> \in rel

(* Two terms one merge of which is forced: same symbol, equal operands. *)
Congruent(t, u) ==
    /\ g.id[t] = g.id[u]
    /\ \A i \in DOMAIN g.ops[t] : Related(g.ops[t][i], g.ops[u][i])

(* The equivalence that also puts t and u into one class. *)
Join(t, u) ==
    {p \in Terms \X Terms :
        \/ p \in rel
        \/ Related(p[1], t) /\ Related(u, p[2])
        \/ Related(p[1], u) /\ Related(t, p[2])}

Init ==
    /\ g \in Graphs
    /\ phase = "building"
    /\ rel = {<<t, t>> : t \in Terms}
    /\ requests = {}

Request(t, u) ==
    /\ phase = "building"
    /\ requests' = requests \cup {<<t, u>>}
    /\ UNCHANGED <<g, phase, rel>>

StartClosing ==
    /\ phase = "building"
    /\ phase' = "closing"
    /\ UNCHANGED <<g, rel, requests>>

JoinPair(t, u) ==
    /\ phase = "closing"
    /\ <<t, u>> \in requests \/ Congruent(t, u)
    /\ rel' = Join(t, u)
    /\ UNCHANGED <<g, phase, requests>>

Finish ==
    /\ phase = "closing"
    /\ requests \subseteq rel
    /\ phase' = "done"
    /\ UNCHANGED <<g, rel, requests>>

Next ==
    \/ \E t, u \in Terms : Request(t, u) \/ JoinPair(t, u)
    \/ StartClosing
    \/ Finish

Spec == Init /\ [][Next]_vars
=============================================================================
