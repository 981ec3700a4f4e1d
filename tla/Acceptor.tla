----------------------------- MODULE Acceptor ------------------------------
(***************************************************************************)
(* Acceptor and its helpers Equal and Collect                               *)
(* (src/tautomata-inf/src/Acceptor.cpp): test terms are matched bottom-up    *)
(* against the spliced term graph.                                          *)
(*                                                                          *)
(* visit only reads the automaton and memoises in `match` what it found for  *)
(* a test term, so the matches of a term are a function of the term; the     *)
(* state that remains is what is counted.  The 32-bit hashes that select     *)
(* candidates for an exact match are left out: only a term without states    *)
(* below it can match exactly, and its hash is still that of its structure   *)
(* (ExactMatchIsUnspliced of module Learner).                               *)
(***************************************************************************)
EXTENDS TermGraph, FiniteSets

CONSTANT Terms     \* the terms of the training set, and of a test set

VARIABLES g, ops, usedBy,   \* the automaton: see module Automaton; only read
          test,       \* the test graph
          pending,    \* the test terms main has not looked at yet
          hits        \* the roots counted in finalStatesReached

vars == <<g, ops, usedBy, test, pending, hits>>

(* Mutant: the operands are not compared. *)
EqualBySymbol == [p \in Terms \X Terms |-> test.id[p[1]] = g.id[p[2]]]

(* Equal::operator(): the same symbols all the way down, through no state.   *)
Equal ==
    LET eq[p \in Terms \X Terms] ==
          LET t == p[1]
              u == p[2]
          IN  /\ test.id[t] = g.id[u]
              /\ \A i \in DOMAIN test.ops[t] :
                    /\ ~IsState(ops[u][i])
                    /\ eq[<<test.ops[t][i], ops[u][i][2]>>]
    IN  eq

(* Mutants of Collect: it does not climb through states (line 75); it takes  *)
(* any operand position (line 83).                                          *)
CollectTermsOnly(m, id, i) ==
    {u \in Terms : /\ TermNode(u) \in usedBy[TermNode(m)]
                   /\ g.id[u] = id
                   /\ ops[u][i] = TermNode(m)}

CollectAnywhere(m, id, i) ==
    {u \in Terms : /\ g.id[u] = id
                   /\ \E n \in {TermNode(m)} \cup usedBy[TermNode(m)] :
                         TermNode(u) \in usedBy[n]}

(* Collect::visit: the terms with symbol id that have the term m, or a state *)
(* that m belongs to, as operand i.  (A state is used by terms only, so the  *)
(* recursion of visit is one level deep.)                                   *)
Collect(m, id, i) ==
    LET users(n) == {u \in Terms : /\ TermNode(u) \in usedBy[n]
                                   /\ g.id[u] = id
                                   /\ ops[u][i] = n}
    IN  users(TermNode(m)) \cup UNION {users(s) : s \in {n \in usedBy[TermNode(m)] : IsState(n)}}

(* Mutant: there is no exact match to start from. *)
MatchFromOperands ==
    LET match[t \in Terms] ==
          IF test.ops[t] = << >> THEN {}
          ELSE {u \in Terms : \A i \in DOMAIN test.ops[t] :
                  \E x \in match[test.ops[t][i]] : u \in Collect(x, test.id[t], i)}
    IN  match

(* match[t] after Acceptor::visit(t): the exact match if there is one, else  *)
(* the training terms with the symbol of t whose every operand a match of    *)
(* the operand of t leads to.  An operand without a match leaves t without.  *)
Match ==
    LET match[t \in Terms] ==
          LET exact == {u \in Terms : Equal[<<t, u>>]}
          IN  IF exact # {} THEN exact
              ELSE IF test.ops[t] = << >> THEN {}
              ELSE {u \in Terms : \A i \in DOMAIN test.ops[t] :
                      \E x \in match[test.ops[t][i]] :
                         u \in Collect(x, test.id[t], i)}
    IN  match

(* main's loop over the final test terms, in the order of a hash table. *)
Visit(t) ==
    /\ t \in pending
    /\ pending' = pending \ {t}
    /\ hits' = IF Match[t] # {} THEN hits \cup {t} ELSE hits
    /\ UNCHANGED <<g, ops, usedBy, test>>

(* testTerms is given; the automaton is complete when the acceptor is made. *)
Start(te) ==
    /\ test' = te
    /\ pending' = {t \in Terms : IsFinal(Terms, te, t)}
    /\ hits' = {}
    /\ UNCHANGED <<g, ops, usedBy>>
=============================================================================
