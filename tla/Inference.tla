----------------------------- MODULE Inference -----------------------------
(***************************************************************************)
(* The training half of sdginfer (SDGInference.cpp:174-251): check every    *)
(* term in, hash the k-level subtrees by `cutoff` breadth-first passes      *)
(* (KRootHash.h), merge each term into an earlier one with the same k-root, *)
(* and close the result under congruence (module Closure).                  *)
(***************************************************************************)
EXTENDS TermGraph, FiniteSets, SequencesExt

CONSTANTS Terms, NoNode, Graphs, MaxRequests, Labellings,   \* see Closure
          Cutoffs    \* the values of --k considered

ASSUME TermsAssumption == IsFiniteSet(Terms) /\ NoNode \notin Terms
ASSUME GraphsAssumption == \A gr \in Graphs : IsTermGraph(Terms, gr)
ASSUME MaxRequestsAssumption == MaxRequests \in Nat
ASSUME CutoffsAssumption == Cutoffs \subseteq Nat

VARIABLES g, pc, checked, parent, eclass, wlist, table, uselist, uses, target,
          merged, requested,   \* the variables of Closure
          cutoff,   \* vm["k"]; never changes
          stage,    \* "checkin", "hash", "match", "close"
          khash,    \* Term::klevel_hash; << >> is the cleared hash 0
          roots,    \* main's roots, in the order of the hash table trainTerms
          pass,     \* number of hash passes begun
          level,    \* BFSVisitor::visit's tv from the iterator on
          succ,     \* BFSVisitor::visit's succ
          seen,     \* the terms marked visited
          todo,     \* the terms of allterms the matching has not reached
          kroots    \* the terms in krootMap

C == INSTANCE Closure

closure == <<g, pc, checked, parent, eclass, wlist, table, uselist, uses, target,
             merged, requested>>
visitor == <<pass, level, succ, seen>>
vars == <<closure, cutoff, stage, khash, roots, visitor, todo, kroots>>

Init ==
    /\ C!Init
    /\ cutoff \in Cutoffs
    /\ stage = "checkin"
    /\ khash = [t \in Terms |-> << >>]
    /\ roots = << >>
    /\ pass = 0
    /\ level = << >>
    /\ succ = << >>
    /\ seen = {}
    /\ todo = {}
    /\ kroots = {}

(* Lines 183-192: clear the hash, check the term in, collect the final ones. *)
Checkin(t) ==
    /\ stage = "checkin"
    /\ C!Checkin(t)
    /\ khash' = [khash EXCEPT ![t] = << >>]
    /\ roots' = IF IsFinal(Terms, g, t) THEN Append(roots, t) ELSE roots
    /\ UNCHANGED <<cutoff, stage, visitor, todo, kroots>>

StartHashing ==
    /\ stage = "checkin"
    /\ checked = Terms
    /\ stage' = "hash"
    /\ UNCHANGED <<closure, cutoff, khash, roots, visitor, todo, kroots>>

-----------------------------------------------------------------------------
(* KRootHash().visit(roots): the destructor of the visitor clears the marks  *)
(* of the pass before (TermVisitor.cpp:29-36).                              *)
BeginPass ==
    /\ stage = "hash"
    /\ level = << >> /\ succ = << >>
    /\ pass < cutoff
    /\ pass' = pass + 1
    /\ level' = roots
    /\ seen' = {}
    /\ UNCHANGED <<closure, cutoff, stage, khash, roots, succ, todo, kroots>>

(* One iteration of BFSVisitor::visit: the term is rehashed in place before  *)
(* its operands, with whatever hashes they have at that moment.             *)
VisitTerm ==
    /\ stage = "hash"
    /\ level # << >>
    /\ level' = Tail(level)
    /\ LET t == Head(level)
           push(queue, x) == IF x \in seen \cup {t} THEN queue ELSE Append(queue, x)
       IN  IF t \in seen
              THEN UNCHANGED <<khash, succ, seen>>
              ELSE /\ khash' = [khash EXCEPT ![t] = RecomputeKLevHash(g, khash, t)]
                   /\ succ' = FoldLeft(push, succ, g.ops[t])
                   /\ seen' = seen \cup {t}
    /\ UNCHANGED <<closure, cutoff, stage, roots, pass, todo, kroots>>

NextLevel ==
    /\ stage = "hash"
    /\ level = << >> /\ succ # << >>
    /\ level' = succ
    /\ succ' = << >>
    /\ UNCHANGED <<closure, cutoff, stage, khash, roots, pass, seen, todo, kroots>>

StartMatching ==
    /\ stage = "hash"
    /\ level = << >> /\ succ = << >>
    /\ pass = cutoff
    /\ stage' = "match"
    /\ todo' = Terms
    /\ UNCHANGED <<closure, cutoff, khash, roots, visitor, kroots>>

-----------------------------------------------------------------------------
SameKRoot(t, u) == KLevEqual(Terms, g)[cutoff][<<t, u>>]

(* Mutants of Candidates: klevEqual is not asked; it compares one level less. *)
CandidatesByHash(t) == {x \in kroots : khash[x] = khash[t] /\ g.id[x] = g.id[t]}

CandidatesOneLess(t) ==
    {x \in kroots : khash[x] = khash[t]
                    /\ KLevEqual(Terms, g)[IF cutoff = 0 THEN 0 ELSE cutoff - 1][<<t, x>>]}

(* The terms of krootMap with the hash and the k-root of t. *)
Candidates(t) == {x \in kroots : khash[x] = khash[t] /\ SameKRoot(t, x)}

(* Mutant: a term without a match is not entered in krootMap. *)
MatchUnstored(t) ==
    /\ stage = "match"
    /\ t \in todo
    /\ \A v \in todo : ~SortsBefore(g, v, t)
    /\ todo' = todo \ {t}
    /\ UNCHANGED <<closure, kroots, cutoff, stage, khash, roots, visitor>>

(* Lines 227-248: merge t into the first match of its bucket, whose order is *)
(* arbitrary, or enter it as a k-root of its own.                           *)
Match(t) ==
    /\ stage = "match"
    /\ t \in todo
    /\ \A v \in todo : ~SortsBefore(g, v, t)
    /\ todo' = todo \ {t}
    /\ \/ /\ \E x \in Candidates(t) : C!Merge(t, x)
          /\ UNCHANGED kroots
       \/ /\ Candidates(t) = {}
          /\ kroots' = kroots \cup {t}
          /\ UNCHANGED closure
    /\ UNCHANGED <<cutoff, stage, khash, roots, visitor>>

(* Line 251. *)
CallPropagate ==
    /\ stage = "match"
    /\ todo = {}
    /\ C!CallPropagate
    /\ stage' = "close"
    /\ UNCHANGED <<cutoff, khash, roots, visitor, todo, kroots>>

Propagate ==
    /\ C!Propagate
    /\ UNCHANGED <<cutoff, stage, khash, roots, visitor, todo, kroots>>

(* Training is over; rebuildAutomaton reads the classes. *)
Terminated == pc = "done" /\ UNCHANGED vars

Step ==
    \/ \E t \in Terms : Checkin(t)
    \/ StartHashing
    \/ BeginPass
    \/ VisitTerm
    \/ NextLevel
    \/ StartMatching
    \/ \E t \in Terms : Match(t)
    \/ CallPropagate
    \/ Propagate

Next == Step \/ Terminated

(* main is sequential: some step is always taken. *)
Spec == Init /\ [][Next]_vars /\ WF_vars(Step)

-----------------------------------------------------------------------------
(* Only terms with the same k-root are ever identified, although the closure *)
(* merges without asking klevEqual (SDGInference.cpp:236, CClosure.cpp:183). *)
OnlyKRootsMerged == \A t, u \in Terms : C!SameClass(t, u) => SameKRoot(t, u)

(* A term merged by the matching is deeper than k: the assertion of          *)
(* SDGInference.cpp:237.                                                     *)
MergedAreDeep == \A p \in requested : g.depth[p[1]] > cutoff

(* All paths from a root to a term have one length. *)
Layered ==
    LET lev[t \in Terms] == IF IsFinal(Terms, g, t) THEN 0
                            ELSE lev[CHOOSE u \in Uses(Terms, g, t) : TRUE] + 1
    IN  \A t \in Terms : \A u \in Uses(Terms, g, t) : lev[t] = lev[u] + 1

(* On a layered graph the learner computes exactly the k-root equivalence:   *)
(* the result does not depend on any hash table order (SDGInference.cpp:     *)
(* 211-251).                                                                *)
ExactIfLayered ==
    pc = "done" /\ Layered =>
        \A t, u \in Terms : C!SameClass(t, u) <=> SameKRoot(t, u)

(* propagate() leaves a congruence (SDGInference.cpp:250).                   *)
CongruenceWhenDone == C!ClosedWhenDone
=============================================================================
