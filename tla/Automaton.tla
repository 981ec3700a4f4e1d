----------------------------- MODULE Automaton -----------------------------
(***************************************************************************)
(* Closure::rebuildAutomaton (src/tautomata-inf/src/CClosure.cpp) and        *)
(* BuildAutomaton, the post-order visitor that splices a state for each      *)
(* class of terms into the term graph while it walks it.                     *)
(*                                                                          *)
(* The state of a class is a term over its members that replaces them in     *)
(* everything that used them; a member is used by its state only.  It is     *)
(* named after the representative of the class.                              *)
(***************************************************************************)
EXTENDS TermGraph, FiniteSets, SequencesExt

CONSTANT Terms   \* the terms of the training set

VARIABLES g,        \* the term graph before the splicing; never changes
          cls,      \* the representative of each term; never changes
          ops,      \* Term::operands of each term, now
          usedBy,     \* Term::uses of each term and state, now
          states,   \* the representatives a state was created for
          rootsLeft,     \* the roots rebuildAutomaton has not visited yet
          stack,    \* the calls of visit under way: <<term, next operand>>
          visited   \* the terms marked visited

graph == <<ops, usedBy, states>>
vars == <<g, cls, graph, rootsLeft, stack, visited>>

Nodes == {TermNode(t) : t \in Terms} \cup {StateNode(t) : t \in Terms}
Class(r) == {t \in Terms : cls[t] = r}

(* What the closure leaves: see ForestInv and ClassesMonochrome of Closure. *)
Given ==
    /\ IsTermGraph(Terms, g)
    /\ cls \in [Terms -> Terms]
    /\ \A t \in Terms : cls[cls[t]] = cls[t] /\ g.id[cls[t]] = g.id[t]

(* Parser::getRoots takes the roots from the table, in no particular order. *)
Init ==
    /\ Given
    /\ ops = [t \in Terms |-> [i \in DOMAIN g.ops[t] |-> TermNode(g.ops[t][i])]]
    /\ usedBy = [n \in Nodes |-> IF IsState(n) THEN {}
                               ELSE {TermNode(u) : u \in Uses(Terms, g, n[2])}]
    /\ states = {}
    /\ rootsLeft = {t \in Terms : IsFinal(Terms, g, t)}
    /\ stack = << >>
    /\ visited = {}

VisitRoot(r) ==
    /\ stack = << >>
    /\ r \in rootsLeft
    /\ rootsLeft' = rootsLeft \ {r}
    /\ stack' = << <<r, 1>> >>
    /\ visited' = visited \cup {r}
    /\ UNCHANGED <<g, cls, graph>>

top == Last(stack)

(* Mutants of VisitOperand: a state is not marked when it is created, so the *)
(* walk goes on below it; a visited operand is not stepped over.             *)
VisitOperandUnmarked ==
    /\ stack # << >>
    /\ top[2] <= Len(ops[top[1]])
    /\ LET x == ops[top[1]][top[2]]
           fresh == IF IsState(x) THEN Class(x[2]) \ visited ELSE {x[2]} \ visited
           next == Append(Front(stack), <<top[1], top[2] + 1>>)
       IN  /\ stack' = next \o [i \in 1 .. Cardinality(fresh) |-> <<SetToSeq(fresh)[i], 1>>]
           /\ visited' = visited \cup fresh
    /\ UNCHANGED <<g, cls, graph, rootsLeft>>

VisitOperandAgain ==
    /\ stack # << >>
    /\ top[2] <= Len(ops[top[1]])
    /\ LET x == ops[top[1]][top[2]]
       IN  IF IsState(x) \/ x[2] \in visited
              THEN UNCHANGED <<stack, visited>>
              ELSE stack' = Append(stack, <<x[2], 1>>) /\ visited' = visited \cup {x[2]}
    /\ UNCHANGED <<g, cls, graph, rootsLeft>>

(* One iteration of Visitor::visitPost: it reads the operand as it is now.   *)
(* A state is marked when it is created (BuildAutomaton.cpp:42).            *)
VisitOperand ==
    /\ stack # << >>
    /\ top[2] <= Len(ops[top[1]])
    /\ LET x == ops[top[1]][top[2]]
           next == Append(Front(stack), <<top[1], top[2] + 1>>)
       IN  IF IsState(x) \/ x[2] \in visited
              THEN stack' = next /\ UNCHANGED visited
              ELSE stack' = Append(next, <<x[2], 1>>) /\ visited' = visited \cup {x[2]}
    /\ UNCHANGED <<g, cls, graph, rootsLeft>>

-----------------------------------------------------------------------------
Members(r) == {TermNode(t) : t \in Class(r)}

(* Term::substOp(m, state) on every use of every m of `nodes`: the operands   *)
(* and, where there is one, the entry in the uses of the state.              *)
Replaced(nodes, u, i) == ops[u][i] \in nodes /\ TermNode(u) \in usedBy[ops[u][i]]

SubstOps(r, nodes) ==
    [u \in Terms |-> [i \in DOMAIN ops[u] |->
        IF Replaced(nodes, u, i) THEN StateNode(r) ELSE ops[u][i]]]

SubstUsers(nodes) ==
    {TermNode(u) : u \in {w \in Terms : \E i \in DOMAIN ops[w] : Replaced(nodes, w, i)}}

(* Mutants of Splice: the uses of the representative alone are redirected;   *)
(* the members keep their uses (line 57); the representative stands for its   *)
(* class itself, without a state.                                           *)
SpliceRepresentative(r) ==
    /\ ops' = SubstOps(r, {TermNode(r)})
    /\ usedBy' = [n \in Nodes |-> IF n \in Members(r) THEN {StateNode(r)}
                                  ELSE IF n = StateNode(r) THEN SubstUsers({TermNode(r)})
                                  ELSE usedBy[n]]
    /\ states' = states \cup {r}

SpliceKeepingUses(r) ==
    /\ ops' = SubstOps(r, Members(r))
    /\ usedBy' = [n \in Nodes |-> IF n \in Members(r) THEN usedBy[n] \cup {StateNode(r)}
                                  ELSE IF n = StateNode(r) THEN SubstUsers(Members(r))
                                  ELSE usedBy[n]]
    /\ states' = states \cup {r}

SpliceWithoutState(r) ==
    /\ ops' = [u \in Terms |-> [i \in DOMAIN ops[u] |->
                 IF Replaced(Members(r), u, i) THEN TermNode(r) ELSE ops[u][i]]]
    /\ usedBy' = [n \in Nodes |-> IF n = TermNode(r) THEN SubstUsers(Members(r))
                                  ELSE IF n \in Members(r) THEN {} ELSE usedBy[n]]
    /\ states' = states \cup {r}

(* Lines 26-59 of visitNode: the uses of the members take the state as their *)
(* operand, and the only use of a member is then the state.                  *)
Splice(r) ==
    /\ ops' = SubstOps(r, Members(r))
    /\ usedBy' = [n \in Nodes |-> IF n \in Members(r) THEN {StateNode(r)}
                                  ELSE IF n = StateNode(r) THEN SubstUsers(Members(r))
                                  ELSE usedBy[n]]
    /\ states' = states \cup {r}

(* visitNode, and the return from visit. *)
VisitNode ==
    /\ stack # << >>
    /\ top[2] > Len(ops[top[1]])
    /\ stack' = Front(stack)
    /\ LET t == top[1]
       IN  IF cls[t] = t /\ Cardinality(Class(t)) > 1
              THEN Splice(t)
              ELSE UNCHANGED graph
    /\ UNCHANGED <<g, cls, rootsLeft, visited>>

Rebuilt == rootsLeft = {} /\ stack = << >>

Next ==
    \/ \E r \in Terms : VisitRoot(r)
    \/ VisitOperand
    \/ VisitNode

Spec == Init /\ [][Next]_vars /\ WF_vars(Next)

-----------------------------------------------------------------------------
TypeOK ==
    /\ ops \in [Terms -> Seq(Nodes)]
    /\ usedBy \in [Nodes -> SUBSET Nodes]
    /\ states \subseteq Terms
    /\ rootsLeft \subseteq Terms
    /\ stack \in Seq(Terms \X (Nat \ {0}))
    /\ visited \subseteq Terms

(* Operands are those of the training set, with exactly the members of the   *)
(* spliced classes replaced by their states (Term.cpp:75-88,                 *)
(* BuildAutomaton.cpp:46-58).                                               *)
OperandsAreQuotient ==
    \A u \in Terms :
        /\ DOMAIN ops[u] = DOMAIN g.ops[u]
        /\ \A i \in DOMAIN ops[u] :
              ops[u][i] = LET x == g.ops[u][i]
                          IN  IF cls[x] \in states THEN StateNode(cls[x]) ELSE TermNode(x)

(* Uses mirror operands after every splice, which is what the acceptor       *)
(* climbs (Acceptor.cpp:71-87): a node is used by the terms that have it as  *)
(* an operand, and a member of a spliced class by its state alone.           *)
UsesMirrorOperands ==
    \A n \in Nodes :
        usedBy[n] = IF ~IsState(n) /\ cls[n[2]] \in states
                     THEN {StateNode(cls[n[2]])}
                     ELSE {TermNode(u) : u \in {w \in Terms :
                             \E i \in DOMAIN ops[w] : ops[w][i] = n}}

(* Once a class has a state, the state alone uses its members               *)
(* (BuildAutomaton.cpp:57-59), no operand is one of them, and the state has   *)
(* a use exactly when one of them had (the assertion of line 61).            *)
StateProperlySpliced ==
    \A r \in states :
        /\ \A n \in Members(r) : usedBy[n] = {StateNode(r)}
        /\ \A u \in Terms : \A i \in DOMAIN ops[u] : ops[u][i] \notin Members(r)
        /\ usedBy[StateNode(r)] # {} <=> \E m \in Class(r) : ~IsFinal(Terms, g, m)

(* The assertion of POVisitor::visit (TermVisitor.cpp:39) for the roots that *)
(* rebuildAutomaton collected before it changed the graph: none of them is    *)
(* reached through a state.                                                 *)
RootsVisitedOnce == rootsLeft \cap visited = {}

(* Every class of more than one term has a state (BuildAutomaton.cpp:15-16). *)
ClassesHaveStates ==
    Rebuilt => \A t \in Terms : Cardinality(Class(cls[t])) > 1 => cls[t] \in states
=============================================================================
