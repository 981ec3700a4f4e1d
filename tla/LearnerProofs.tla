--------------------------- MODULE LearnerProofs ----------------------------
(***************************************************************************)
(* Theorems about the learner for every set of terms, every set of term      *)
(* graphs, every cutoff and every number of requests.  First the training    *)
(* alone (Spec, of Inference), where the union-find part comes from          *)
(* ClosureProofs; then the splicing alone (A!Spec, of Automaton); then the   *)
(* whole of main (LSpec): what is said of its parts holds when main runs     *)
(* them in turn, and what the acceptor finds is what the classes say it      *)
(* should.                                                                  *)
(***************************************************************************)
EXTENDS Learner, DataProofs

CP == INSTANCE ClosureProofs

(* The assumptions of Closure hold of the constants it is given here. *)
LEMMA ClosureTerms == CP!TermsAssumption
BY TermsAssumption DEF CP!IsFiniteSet, IsFiniteSet

LEMMA ClosureGraphs == CP!GraphsAssumption
BY GraphsAssumption DEF IsTermGraph, CP!IsTermGraph

LEMMA ClosureRequests == CP!MaxRequestsAssumption
BY MaxRequestsAssumption

(* The definitions of Closure are the same through both instances. *)
LEMMA SameClosure ==
    /\ C!Init <=> CP!Init
    /\ \A t : C!Checkin(t) <=> CP!Checkin(t)
    /\ \A t, u : C!Merge(t, u) <=> CP!Merge(t, u)
    /\ C!CallPropagate <=> CP!CallPropagate
    /\ C!Propagate <=> CP!Propagate
    /\ C!vars = CP!vars
    /\ \A t, u : C!SameClass(t, u) <=> CP!SameClass(t, u)
<1>1. C!Init <=> CP!Init
    BY DEF C!Init, CP!Init
<1>2. \A t : C!Rep(t) = CP!Rep(t)
    BY DEF C!Rep, CP!Rep, C!GetRepresentative, CP!GetRepresentative
<1>3. \A t, u : C!SameClass(t, u) <=> CP!SameClass(t, u)
    BY <1>2 DEF C!SameClass, CP!SameClass
<1>4. \A t : C!Hash(t) = CP!Hash(t)
    BY <1>2 DEF C!Hash, CP!Hash
<1>5. \A t : C!Checkin(t) <=> CP!Checkin(t)
    BY <1>4 DEF C!Checkin, CP!Checkin, C!Uses, CP!Uses
<1>6. C!nodes = CP!nodes /\ C!lookup = CP!lookup /\ C!loop = CP!loop
    BY DEF C!nodes, CP!nodes, C!lookup, CP!lookup, C!loop, CP!loop
<1>7. \A t, u : C!Merge(t, u) <=> CP!Merge(t, u)
    BY DEF C!Merge, CP!Merge, C!nodes, CP!nodes, C!lookup, CP!lookup
<1>8. C!CallPropagate <=> CP!CallPropagate
    BY DEF C!CallPropagate, CP!CallPropagate, C!nodes, CP!nodes, C!lookup, CP!lookup, C!loop, CP!loop
<1>9. C!AtLoopHead <=> CP!AtLoopHead
    BY DEF C!AtLoopHead, CP!AtLoopHead
<1>10. C!Return <=> CP!Return
    BY DEF C!Return, CP!Return, C!nodes, CP!nodes, C!lookup, CP!lookup, C!loop, CP!loop
<1>11. C!DropPair <=> CP!DropPair
    BY <1>3, <1>9 DEF C!DropPair, CP!DropPair, C!nodes, CP!nodes, C!lookup, CP!lookup,
       C!Last, CP!Last, C!Front, CP!Front
<1>12. \A t, u : C!Congruent(t, u) <=> CP!Congruent(t, u)
    BY <1>3 DEF C!Congruent, CP!Congruent
<1>13. \A t : C!Matches(t) = CP!Matches(t)
    BY <1>4, <1>12 DEF C!Matches, CP!Matches
<1>14. \A S : C!SetToSeqs(S) = CP!SetToSeqs(S)
    BY DEF C!SetToSeqs, CP!SetToSeqs, C!Cardinality, CP!Cardinality
<1>15. \A t : C!Relink(t) <=> CP!Relink(t)
    BY <1>4, <1>13, <1>14 DEF C!Relink, CP!Relink, C!nodes, CP!nodes, C!SortsBefore, CP!SortsBefore
<1>16. \A t, u : C!UniteSmaller(t, u) <=> CP!UniteSmaller(t, u)
    <2>1. \A a, b : C!UniteClasses(a, b) <=> CP!UniteClasses(a, b)
        BY DEF C!UniteClasses, CP!UniteClasses
    <2>2. \A S : C!Cardinality(S) = CP!Cardinality(S)
        BY DEF C!Cardinality, CP!Cardinality
    <2>3. QED  BY <1>2, <2>1, <2>2 DEF C!UniteSmaller, CP!UniteSmaller
<1>17. \A t, u : C!DownPairs(t, u) = CP!DownPairs(t, u)
    BY <1>3 DEF C!DownPairs, CP!DownPairs, C!Last, CP!Last
<1>18. C!Unite <=> CP!Unite
    BY <1>3, <1>4, <1>9, <1>16, <1>17 DEF C!Unite, CP!Unite, C!Last, CP!Last, C!Front, CP!Front
<1>19. C!Propagate <=> CP!Propagate
    BY <1>10, <1>11, <1>15, <1>18 DEF C!Propagate, CP!Propagate
<1>20. C!vars = CP!vars
    BY DEF C!vars, CP!vars
<1>21. QED  BY <1>1, <1>3, <1>5, <1>7, <1>8, <1>19, <1>20

-----------------------------------------------------------------------------
(* The inductive invariant.  What the closure merges depends on the pairs    *)
(* that were requested, so the k-roots are followed through both.            *)
ClassesAreKRoots ==
    \A t, u \in Terms : CP!SameClass(t, u) => <<t, u>> \in KRoot(Terms, g, cutoff)

RequestsAreKRoots ==
    \A p \in requested : p \in KRoot(Terms, g, cutoff) /\ p[1] # p[2]

IInv == /\ CP!IInv
        /\ cutoff \in Nat
        /\ kroots \subseteq Terms
        /\ ClassesAreKRoots
        /\ RequestsAreKRoots

LEMMA TermGraph ==
    ASSUME IInv
    PROVE  IsTermGraph(Terms, g) /\ IsEquivalence(Terms, KRoot(Terms, g, cutoff))
<1>1. g \in Graphs
    BY DEF IInv, CP!IInv, CP!TypeOK
<1>2. IsTermGraph(Terms, g)
    BY <1>1, GraphsAssumption
<1>3. QED  BY <1>2, KRootEquivalence DEF IInv

(* Congruent terms agree one level deeper than their operands do, and the     *)
(* operands agree at least as far as the level below.                        *)
LEMMA CongruentAreKRoots ==
    ASSUME IInv, NEW t \in Terms, NEW u \in Terms, CP!Congruent(t, u)
    PROVE  <<t, u>> \in KRoot(Terms, g, cutoff)
<1> DEFINE K(k) == KRoot(Terms, g, k)
<1>1. IsTermGraph(Terms, g) /\ cutoff \in Nat
    BY TermGraph DEF IInv
<1>2. g.id[t] = g.id[u]
    BY DEF CP!Congruent
<1>3. CASE cutoff = 0
    <2>1. <<t, u>> \in K(0)
        BY <1>1, <1>2, KRootLevels
    <2>2. QED  BY <1>3, <2>1
<1>4. CASE cutoff # 0
    <2>1. cutoff - 1 \in Nat /\ (cutoff - 1) + 1 = cutoff
        BY <1>1, <1>4
    <2>2. K(cutoff) \subseteq K(cutoff - 1)
        BY <1>1, <2>1, KRootShrinks
    <2>3. ASSUME NEW i \in DOMAIN g.ops[t]
          PROVE  <<g.ops[t][i], g.ops[u][i]>> \in K(cutoff)
        <3>1. DOMAIN g.ops[t] = DOMAIN g.ops[u]
            <4>1. Len(g.ops[t]) = Len(g.ops[u])
                BY <1>1, <1>2 DEF IsTermGraph
            <4>2. QED  BY <1>1, <4>1, OperandsAre
        <3>2. g.ops[t][i] \in Terms /\ g.ops[u][i] \in Terms
            BY <1>1, <3>1, OperandsAre
        <3>3. CP!SameClass(g.ops[t][i], g.ops[u][i])
            BY DEF CP!Congruent
        <3>4. QED  BY <3>2, <3>3 DEF IInv, ClassesAreKRoots
    <2>4. \A i \in DOMAIN g.ops[t] : <<g.ops[t][i], g.ops[u][i]>> \in K(cutoff - 1)
        BY <2>2, <2>3
    <2>5. <<t, u>> \in K((cutoff - 1) + 1)
        BY <1>1, <1>2, <2>1, <2>4, KRootLevels
    <2>6. QED  BY <2>1, <2>5
<1>5. QED  BY <1>3, <1>4

(* So every pair on the work list is one of k-roots. *)
LEMMA WaitingAreKRoots ==
    ASSUME IInv, NEW p \in CP!ToSet(wlist)
    PROVE  p \in KRoot(Terms, g, cutoff)
<1>1. p[1] \in Terms /\ p[2] \in Terms /\ p = <<p[1], p[2]>>
    BY ClosureTerms, ClosureGraphs, ClosureRequests, CP!WaitingPairs DEF IInv
<1>2. CASE p \in requested
    BY <1>2 DEF IInv, RequestsAreKRoots
<1>3. CASE CP!Congruent(p[1], p[2])
    BY <1>1, <1>3, CongruentAreKRoots
<1>4. CASE CP!SameClass(p[1], p[2])
    BY <1>1, <1>4 DEF IInv, ClassesAreKRoots
<1>5. QED  BY <1>2, <1>3, <1>4 DEF IInv, CP!IInv, CP!Justified

-----------------------------------------------------------------------------
LEMMA InitIInv == Init => IInv
<1> SUFFICES ASSUME Init PROVE IInv
    OBVIOUS
<1>1. CP!Init
    BY SameClosure DEF Init
<1>2. CP!IInv
    BY <1>1, ClosureTerms, ClosureGraphs, ClosureRequests, CP!InitIInv
<1>3. cutoff \in Nat
    BY CutoffsAssumption DEF Init
<1>4. \A t \in Terms : CP!Rep(t) = t
    <2>1. CP!TypeOK /\ CP!ForestInv
        BY <1>2 DEF CP!IInv
    <2>2. \A t \in Terms : CP!Rep(t) = CP!RootOf(parent, t)
        BY <2>1, ClosureTerms, ClosureGraphs, ClosureRequests, CP!RepProperties
    <2>3. \A t \in Terms : parent[t] = NoNode
        BY <1>1 DEF CP!Init
    <2>4. QED  BY <2>2, <2>3 DEF CP!RootOf
<1>5. ClassesAreKRoots
    <2>1. IsTermGraph(Terms, g)
        BY <1>1, GraphsAssumption DEF CP!Init
    <2>2. \A t \in Terms : <<t, t>> \in KRoot(Terms, g, cutoff)
        BY <1>3, <2>1, KRootEquivalence DEF IsEquivalence
    <2>3. QED  BY <1>4, <2>2 DEF ClassesAreKRoots, CP!SameClass
<1>6. RequestsAreKRoots
    BY <1>1 DEF CP!Init, RequestsAreKRoots
<1>7. QED  BY <1>2, <1>3, <1>5, <1>6 DEF IInv, Init

(* A step that leaves the classes and the requests alone. *)
LEMMA QuietStep ==
    ASSUME IInv, CP!IInv', UNCHANGED <<g, parent, cutoff, requested>>, kroots' \subseteq Terms
    PROVE  IInv'
<1>1. \A t, u : CP!SameClass(t, u)' <=> CP!SameClass(t, u)
    BY DEF CP!SameClass, CP!Rep
<1>2. ClassesAreKRoots'
    BY <1>1 DEF IInv, ClassesAreKRoots
<1>3. RequestsAreKRoots'
    BY DEF IInv, RequestsAreKRoots
<1>4. QED  BY <1>2, <1>3 DEF IInv

LEMMA CheckinIInv == ASSUME IInv, NEW t \in Terms, Checkin(t) PROVE IInv'
<1>1. CP!Checkin(t) /\ cutoff' = cutoff /\ kroots' = kroots
    BY SameClosure DEF Checkin
<1>2. CP!IInv'
    BY <1>1, ClosureTerms, ClosureGraphs, ClosureRequests, CP!CheckinIInv DEF IInv
<1>3. QED  BY <1>1, <1>2, QuietStep DEF CP!Checkin, IInv

LEMMA ClosureKeptIInv ==
    ASSUME IInv, UNCHANGED closure, UNCHANGED cutoff, kroots' \subseteq Terms
    PROVE  IInv'
<1>1. UNCHANGED CP!vars
    BY DEF closure, CP!vars
<1>2. CP!IInv'
    BY <1>1, ClosureTerms, ClosureGraphs, ClosureRequests, CP!StutterIInv DEF IInv
<1>3. QED  BY <1>2, QuietStep DEF closure

(* The matching requests only pairs for which klevEqual said yes. *)
LEMMA MatchIInv == ASSUME IInv, NEW t \in Terms, Match(t) PROVE IInv'
<1>1. cutoff' = cutoff
    BY DEF Match
<1>2. CASE Candidates(t) = {} /\ kroots' = kroots \cup {t} /\ UNCHANGED closure
    <2>1. kroots' \subseteq Terms
        BY <1>2 DEF IInv
    <2>2. QED  BY <1>1, <1>2, <2>1, ClosureKeptIInv
<1>3. CASE (\E x \in Candidates(t) : C!Merge(t, x)) /\ UNCHANGED kroots
    <2>1. PICK x \in Candidates(t) : CP!Merge(t, x)
        BY <1>3, SameClosure
    <2>2. /\ t # x /\ g' = g /\ parent' = parent
          /\ requested' = requested \cup {<<t, x>>}
        BY <2>1 DEF CP!Merge, CP!nodes
    <2>3. x \in Terms
        BY <2>1 DEF Candidates, IInv
    <2>4. <<t, x>> \in KRoot(Terms, g, cutoff)
        BY <2>3 DEF Candidates, SameKRoot, KRoot
    <2>5. CP!IInv'
        BY <2>1, <2>3, ClosureTerms, ClosureGraphs, ClosureRequests, CP!MergeIInv DEF IInv
    <2>6. ClassesAreKRoots'
        <3>1. \A v, w : CP!SameClass(v, w)' <=> CP!SameClass(v, w)
            BY <2>2 DEF CP!SameClass, CP!Rep
        <3>2. QED  BY <1>1, <2>2, <3>1 DEF IInv, ClassesAreKRoots
    <2>7. RequestsAreKRoots'
        <3>1. \A p \in requested' : p \in requested \/ p = <<t, x>>
            BY <2>2
        <3>2. <<t, x>>[1] # <<t, x>>[2]
            BY <2>2
        <3>3. QED  BY <1>1, <2>2, <2>4, <3>1, <3>2 DEF IInv, RequestsAreKRoots
    <2>8. QED  BY <1>1, <1>3, <2>5, <2>6, <2>7 DEF IInv
<1>4. QED  BY <1>2, <1>3 DEF Match

(* Joining two classes of k-roots gives one. *)
LEMMA UniteIInv == ASSUME IInv, CP!Unite, UNCHANGED <<cutoff, kroots>> PROVE IInv'
<1> DEFINE K == KRoot(Terms, g, cutoff)
<1>1. PICK tt, ut \in Terms :
         /\ CP!Last(wlist) = <<tt, ut>>
         /\ \A x, y \in Terms : CP!SameClass(x, y)' <=> CP!Joined(tt, ut, x, y)
    BY ClosureTerms, ClosureGraphs, ClosureRequests, CP!UniteFacts DEF IInv
<1>2. <<tt, ut>> \in CP!ToSet(wlist)
    <2>1. CP!AtLoopHead
        BY DEF CP!Unite
    <2>2. CP!Last(wlist) \in CP!ToSet(wlist)
        BY <2>1, ClosureTerms, ClosureGraphs, ClosureRequests, CP!TopPair DEF IInv
    <2>3. QED  BY <1>1, <2>2
<1>3. <<tt, ut>> \in K
    BY <1>2, WaitingAreKRoots
<1>4. \A x, y \in Terms : CP!SameClass(x, y) => <<x, y>> \in K
    BY DEF IInv, ClassesAreKRoots
<1>5. IsEquivalence(Terms, K)
    BY TermGraph
<1> HIDE DEF K
<1>6. ASSUME NEW x \in Terms, NEW y \in Terms, CP!Joined(tt, ut, x, y)
      PROVE  <<x, y>> \in K
    <2>1. CASE CP!SameClass(x, y)
        BY <1>4, <2>1
    <2>2. CASE CP!SameClass(x, tt) /\ CP!SameClass(ut, y)
        <3>1. <<x, tt>> \in K /\ <<ut, y>> \in K
            BY <1>4, <2>2
        <3>2. <<x, ut>> \in K
            BY <1>3, <1>5, <3>1 DEF IsEquivalence
        <3>3. QED  BY <1>5, <3>1, <3>2 DEF IsEquivalence
    <2>3. CASE CP!SameClass(x, ut) /\ CP!SameClass(tt, y)
        <3>1. <<x, ut>> \in K /\ <<tt, y>> \in K /\ <<ut, tt>> \in K
            BY <1>3, <1>4, <1>5, <2>3 DEF IsEquivalence
        <3>2. <<x, tt>> \in K
            BY <1>5, <3>1 DEF IsEquivalence
        <3>3. QED  BY <1>5, <3>1, <3>2 DEF IsEquivalence
    <2>4. QED  BY <1>6, <2>1, <2>2, <2>3 DEF CP!Joined
<1>7. UNCHANGED <<g, requested>>
    BY DEF CP!Unite
<1>8. CP!IInv'
    BY ClosureTerms, ClosureGraphs, ClosureRequests, CP!UniteIInv DEF IInv
<1>9. ClassesAreKRoots'
    BY <1>1, <1>6, <1>7 DEF ClassesAreKRoots, K
<1>10. RequestsAreKRoots'
    BY <1>7 DEF IInv, RequestsAreKRoots
<1>11. QED  BY <1>8, <1>9, <1>10 DEF IInv

LEMMA CallPropagateIInv == ASSUME IInv, CallPropagate PROVE IInv'
<1>1. CP!CallPropagate /\ UNCHANGED <<cutoff, kroots>>
    BY SameClosure DEF CallPropagate
<1>2. CP!IInv'
    BY <1>1, ClosureTerms, ClosureGraphs, ClosureRequests, CP!CallPropagateIInv DEF IInv
<1>3. UNCHANGED <<g, parent, requested>>
    BY <1>1 DEF CP!CallPropagate, CP!nodes
<1>4. QED  BY <1>1, <1>2, <1>3, QuietStep DEF IInv

LEMMA PropagateIInv == ASSUME IInv, Propagate PROVE IInv'
<1>1. CP!Propagate /\ UNCHANGED <<cutoff, kroots>>
    BY SameClosure DEF Propagate
<1>2. CASE CP!Unite
    BY <1>1, <1>2, UniteIInv
<1>3. CASE CP!DropPair
    <2>1. CP!IInv'
        BY <1>3, ClosureTerms, ClosureGraphs, ClosureRequests, CP!DropPairIInv DEF IInv
    <2>2. UNCHANGED <<g, parent, requested>>
        BY <1>3 DEF CP!DropPair, CP!nodes
    <2>3. QED  BY <1>1, <2>1, <2>2, QuietStep DEF IInv
<1>4. CASE \E use \in Terms : CP!Relink(use)
    <2>1. PICK use \in Terms : CP!Relink(use)
        BY <1>4
    <2>2. CP!IInv'
        BY <2>1, ClosureTerms, ClosureGraphs, ClosureRequests, CP!RelinkIInv DEF IInv
    <2>3. UNCHANGED <<g, parent, requested>>
        BY <2>1 DEF CP!Relink, CP!nodes
    <2>4. QED  BY <1>1, <2>2, <2>3, QuietStep DEF IInv
<1>5. CASE CP!Return
    <2>1. CP!IInv'
        BY <1>5, ClosureTerms, ClosureGraphs, ClosureRequests, CP!ReturnIInv DEF IInv
    <2>2. UNCHANGED <<g, parent, requested>>
        BY <1>5 DEF CP!Return, CP!nodes
    <2>3. QED  BY <1>1, <2>1, <2>2, QuietStep DEF IInv
<1>6. QED  BY <1>1, <1>2, <1>3, <1>4, <1>5 DEF CP!Propagate

LEMMA NextIInv == IInv /\ [Next]_vars => IInv'
<1> SUFFICES ASSUME IInv, [Next]_vars PROVE IInv'
    OBVIOUS
<1>1. ASSUME NEW t \in Terms, Checkin(t) PROVE IInv'
    BY <1>1, CheckinIInv
<1>2. ASSUME NEW t \in Terms, Match(t) PROVE IInv'
    BY <1>2, MatchIInv
<1>3. CASE CallPropagate
    BY <1>3, CallPropagateIInv
<1>4. CASE Propagate
    BY <1>4, PropagateIInv
<1>5. CASE UNCHANGED <<closure, cutoff, kroots>>
    BY <1>5, ClosureKeptIInv DEF IInv
<1>6. QED
    BY <1>1, <1>2, <1>3, <1>4, <1>5
       DEF Next, Step, StartHashing, BeginPass, VisitTerm, NextLevel, StartMatching,
           Terminated, vars

(* The inductive invariant holds throughout the training. *)
THEOREM Invariance == Spec => []IInv
BY InitIInv, NextIInv, PTL DEF Spec

(* The closure never identifies terms klevEqual tells apart, although it     *)
(* merges congruent terms without asking (SDGInference.cpp:236,              *)
(* CClosure.cpp:167-184).                                                   *)
LEMMA MergedAreKRoots == IInv => OnlyKRootsMerged
BY SameClosure DEF IInv, ClassesAreKRoots, OnlyKRootsMerged, SameKRoot, KRoot

(* ... in every state of training. *)
THEOREM OnlyKRootsAreMerged == Spec => []OnlyKRootsMerged
BY Invariance, MergedAreKRoots, PTL

(* The assertion of SDGInference.cpp:237 never fails: two terms of the table *)
(* that are no deeper than the cutoff and agree down to it are one.          *)
LEMMA RequestsAreDeep == IInv => MergedAreDeep
<1> SUFFICES ASSUME IInv, NEW p \in requested PROVE g.depth[p[1]] > cutoff
    BY DEF MergedAreDeep
<1>1. IsTermGraph(Terms, g) /\ cutoff \in Nat
    BY TermGraph DEF IInv
<1>2. p \in KRoot(Terms, g, cutoff) /\ p[1] # p[2]
    BY DEF IInv, RequestsAreKRoots
<1>3. p[1] \in Terms /\ p[2] \in Terms /\ p = <<p[1], p[2]>>
    BY <1>2 DEF KRoot
<1>4. ~ (g.depth[p[1]] <= cutoff)
    BY <1>1, <1>2, <1>3, ShallowKRootsAreEqual
<1>5. g.depth[p[1]] \in Nat
    BY <1>1, <1>3, OperandsAre
<1>6. QED  BY <1>1, <1>4, <1>5

(* ... in every state of training. *)
THEOREM OnlyDeepTermsMerged == Spec => []MergedAreDeep
BY Invariance, RequestsAreDeep, PTL
-----------------------------------------------------------------------------
(* Layered graphs.  The invariant is about any numbering lay of the terms by *)
(* layers.  A hash pass that works on layer `at` has rehashed the layers     *)
(* above it, and of the next layer it has only met the operands of terms it  *)
(* has rehashed, which are not rehashed yet: every term is hashed from the   *)
(* hashes `old` that the pass began with.                                   *)
Searching(lay, old, at) ==
    /\ \A t \in ToSet(level) : lay[t] = at
    /\ \A t \in ToSet(succ) : lay[t] = at + 1
    /\ \A t \in seen : lay[t] <= at
    /\ \A t \in Terms : lay[t] < at => t \in seen
    /\ \A t \in Terms : lay[t] = at => t \in seen \/ t \in ToSet(level)
    /\ \A t \in seen : lay[t] = at => \A i \in DOMAIN g.ops[t] : g.ops[t][i] \in ToSet(succ)
    /\ \A t \in Terms : khash[t] = IF t \in seen THEN RecomputeKLevHash(g, old, t) ELSE old[t]

HashTypes ==
    /\ stage \in {"checkin", "hash", "match", "close"}
    /\ pass \in Nat
    /\ DOMAIN khash = Terms
    /\ roots \in Seq(Terms) /\ level \in Seq(Terms) /\ succ \in Seq(Terms)
    /\ seen \subseteq Terms
    /\ todo \subseteq Terms

Unhashed == pass = 0 /\ level = << >> /\ succ = << >> /\ \A t \in Terms : khash[t] = << >>

(* Until the matching starts. *)
Unmatched == stage \in {"checkin", "hash"} => kroots = {} /\ requested = {}

CheckinInv ==
    stage = "checkin" => Unhashed /\ ToSet(roots) = {t \in checked : IsFinal(Terms, g, t)}

PassInv(lay) ==
    stage = "hash" =>
        /\ ToSet(roots) = {t \in Terms : IsFinal(Terms, g, t)}
        /\ \/ Unhashed
           \/ \E k, at \in Nat : \E old :
                 pass = k + 1 /\ HashesAgree(Terms, g, old, k) /\ Searching(lay, old, at)

(* The terms of krootMap have different k-roots, and every term that was      *)
(* matched is one of them or was merged with one.                            *)
MatchInv ==
    stage \in {"match", "close"} =>
        /\ \A t, u \in kroots : <<t, u>> \in KRoot(Terms, g, cutoff) => t = u
        /\ \A t \in Terms : t \in todo \/ t \in kroots \/ \E u \in kroots : <<t, u>> \in requested

OrderInv ==
    /\ stage = "match" => HashesAgree(Terms, g, khash, cutoff)
    /\ stage = "close" => todo = {}
    /\ pc # "build" => stage = "close"
    /\ pc = "done" => wlist = << >>

HashInv(lay) ==
    HashTypes /\ Unmatched /\ CheckinInv /\ PassInv(lay) /\ MatchInv /\ OrderInv

(* A pass ends when it has rehashed every term. *)
LEMMA PassEnds ==
    ASSUME IInv, NEW lay, IsLayering(Terms, g, lay), HashInv(lay),
           stage = "hash", level = << >>, succ = << >>
    PROVE  HashesAgree(Terms, g, khash, pass)
<1>0. IsTermGraph(Terms, g)
    BY TermGraph
<1>1. CASE Unhashed
    BY <1>1 DEF Unhashed, HashesAgree, KRoot
<1>2. CASE \E k, at \in Nat : \E old :
              pass = k + 1 /\ HashesAgree(Terms, g, old, k) /\ Searching(lay, old, at)
    <2>0. PICK k \in Nat, at \in Nat : \E old :
             pass = k + 1 /\ HashesAgree(Terms, g, old, k) /\ Searching(lay, old, at)
        BY <1>2
    <2>1. PICK old : pass = k + 1 /\ HashesAgree(Terms, g, old, k) /\ Searching(lay, old, at)
        BY <2>0
    <2>2. ToSet(level) = {} /\ ToSet(succ) = {}
        BY DEF ToSet
    <2> DEFINE D == {lay[t] : t \in {u \in Terms : lay[u] > at}}
    <2>3. D = {}
        <3> SUFFICES ASSUME D # {} PROVE FALSE
            OBVIOUS
        <3>1. D \in SUBSET Nat
            BY DEF IsLayering
        <3>2. PICK n \in D : \A m \in D : n <= m
            BY <3>1, LeastNatural
        <3>3. PICK t \in Terms : lay[t] = n /\ lay[t] > at /\ lay[t] \in Nat
            BY <3>2 DEF IsLayering
        <3>4. PICK u \in Terms : lay[t] = lay[u] + 1 /\ \E i \in DOMAIN g.ops[u] : g.ops[u][i] = t
            <4>1. lay[t] # 0
                BY <3>3
            <4>2. QED  BY <1>0, <3>3, <4>1, LayersOfOperands
        <3>5. lay[u] \in Nat
            BY DEF IsLayering
        <3>6. CASE lay[u] > at
            <4>1. lay[u] \in D
                BY <3>6
            <4> HIDE DEF D
            <4>2. n <= lay[u]
                BY <3>2, <4>1
            <4>3. QED  BY <3>3, <3>4, <3>5, <4>2
        <3>7. CASE lay[u] = at
            <4>1. u \in seen
                BY <2>1, <2>2, <3>7 DEF Searching
            <4>2. t \in ToSet(succ)
                BY <2>1, <3>4, <3>7, <4>1 DEF Searching
            <4>3. QED  BY <2>2, <4>2
        <3>8. QED  BY <3>3, <3>4, <3>5, <3>6, <3>7
    <2>4. \A t \in Terms : t \in seen
        <3>1. \A t \in Terms : lay[t] \in Nat /\ ~ (lay[t] > at)
            BY <2>3 DEF IsLayering
        <3>2. \A t \in Terms : lay[t] < at \/ lay[t] = at
            BY <3>1
        <3>3. QED  BY <2>1, <2>2, <3>2 DEF Searching
    <2>5. \A t \in Terms : khash[t] = RecomputeKLevHash(g, old, t)
        BY <2>1, <2>4 DEF Searching
    <2>6. QED  BY <1>0, <2>1, <2>5, RehashAgrees
<1>3. QED  BY <1>1, <1>2 DEF HashInv, PassInv

LEMMA InitHashInv == ASSUME Init, NEW lay PROVE HashInv(lay)
<1>1. C!Init
    BY DEF Init
<1>2. HashTypes /\ Unmatched /\ CheckinInv
    <2>1. << >> \in Seq(Terms) /\ ToSet(<< >>) = {}
        BY EmptySeq DEF ToSet
    <2>2. HashTypes
        BY <2>1 DEF Init, HashTypes
    <2>3. QED  BY <1>1, <2>1, <2>2 DEF Init, C!Init, Unmatched, CheckinInv, Unhashed
<1>3. QED  BY <1>1, <1>2 DEF Init, C!Init, HashInv, PassInv, MatchInv, OrderInv

LEMMA CheckinHashInv ==
    ASSUME IInv, NEW lay, HashInv(lay), NEW t \in Terms, Checkin(t)
    PROVE  HashInv(lay)'
<1>1. /\ stage = "checkin" /\ pc = "build" /\ checked' = checked \cup {t}
      /\ UNCHANGED <<g, pc, wlist, requested, stage, pass, level, succ, seen, todo, kroots, cutoff>>
      /\ khash' = [khash EXCEPT ![t] = << >>]
      /\ roots' = IF IsFinal(Terms, g, t) THEN Append(roots, t) ELSE roots
    BY DEF Checkin, C!Checkin, C!nodes, visitor
<1>2. roots \in Seq(Terms)
    BY DEF HashInv, HashTypes
<1>3. roots' \in Seq(Terms) /\ ToSet(roots') = ToSet(roots) \cup {x \in {t} : IsFinal(Terms, g, x)}
    <2>1. ToSet(Append(roots, t)) = ToSet(roots) \cup {t}
        BY <1>2, SetOfAppend
    <2>2. QED  BY <1>1, <1>2, <2>1
<1>4. HashTypes'
    BY <1>1, <1>3 DEF HashInv, HashTypes
<1>5. Unhashed'
    BY <1>1 DEF HashInv, HashTypes, CheckinInv, Unhashed
<1>6. CheckinInv'
    BY <1>1, <1>3, <1>5 DEF HashInv, CheckinInv
<1>7. QED  BY <1>1, <1>4, <1>6 DEF HashInv, Unmatched, PassInv, MatchInv, OrderInv

LEMMA StartHashingHashInv ==
    ASSUME IInv, NEW lay, HashInv(lay), StartHashing
    PROVE  HashInv(lay)'
<1>1. /\ stage = "checkin" /\ stage' = "hash" /\ checked = Terms
      /\ UNCHANGED <<g, pc, wlist, requested, khash, roots, pass, level, succ, seen, todo, kroots, cutoff>>
    BY DEF StartHashing, closure, visitor
<1>2. HashTypes' /\ Unmatched' /\ CheckinInv' /\ MatchInv'
    BY <1>1 DEF HashInv, HashTypes, Unmatched, CheckinInv, MatchInv
<1>3. Unhashed'
    BY <1>1 DEF HashInv, CheckinInv, Unhashed
<1>4. PassInv(lay)'
    BY <1>1, <1>3 DEF HashInv, CheckinInv, PassInv
<1>5. QED  BY <1>1, <1>2, <1>4 DEF HashInv, OrderInv

(* What the steps of the hashing leave alone. *)
LEMMA HashingStep ==
    ASSUME NEW lay, HashInv(lay), stage = "hash", HashTypes', PassInv(lay)',
           UNCHANGED <<closure, cutoff, stage, todo, kroots>>
    PROVE  HashInv(lay)'
BY DEF closure, HashInv, Unmatched, CheckinInv, MatchInv, OrderInv

LEMMA BeginPassHashInv ==
    ASSUME IInv, NEW lay, IsLayering(Terms, g, lay), HashInv(lay), BeginPass
    PROVE  HashInv(lay)'
<1>1. /\ stage = "hash" /\ level = << >> /\ succ = << >> /\ pass' = pass + 1
      /\ level' = roots /\ seen' = {}
      /\ UNCHANGED <<closure, cutoff, stage, khash, roots, succ, todo, kroots>>
    BY DEF BeginPass
<1>2. HashTypes'
    BY <1>1 DEF HashInv, HashTypes
<1>3. HashesAgree(Terms, g, khash, pass)
    BY <1>1, PassEnds
<1>4. ToSet(roots) = {t \in Terms : IsFinal(Terms, g, t)} /\ ToSet(succ) = {}
    BY <1>1 DEF HashInv, PassInv, ToSet
<1>5. Searching(lay, khash, 0)'
    BY <1>1, <1>4 DEF Searching, IsLayering, closure
<1>6. PassInv(lay)'
    <2>1. g' = g /\ ToSet(roots)' = ToSet(roots) /\ pass \in Nat
        BY <1>1 DEF closure, HashInv, HashTypes
    <2>2. QED  BY <1>1, <1>3, <1>4, <1>5, <2>1 DEF PassInv
<1>7. QED  BY <1>1, <1>2, <1>6, HashingStep

LEMMA NextLevelHashInv ==
    ASSUME IInv, NEW lay, IsLayering(Terms, g, lay), HashInv(lay), NextLevel
    PROVE  HashInv(lay)'
<1>1. /\ stage = "hash" /\ level = << >> /\ succ # << >> /\ level' = succ /\ succ' = << >>
      /\ UNCHANGED <<closure, cutoff, stage, khash, roots, pass, seen, todo, kroots>>
    BY DEF NextLevel
<1>2. HashTypes'
    BY <1>1, EmptySeq DEF HashInv, HashTypes
<1>3a. PICK k \in Nat, at \in Nat : \E old :
         pass = k + 1 /\ HashesAgree(Terms, g, old, k) /\ Searching(lay, old, at)
    BY <1>1 DEF HashInv, PassInv, Unhashed
<1>3. PICK old : pass = k + 1 /\ HashesAgree(Terms, g, old, k) /\ Searching(lay, old, at)
    BY <1>3a
<1>4. Searching(lay, old, at + 1)'
    <2>1. ToSet(level) = {} /\ ToSet(succ') = {} /\ ToSet(level') = ToSet(succ) /\ g' = g
        BY <1>1 DEF ToSet, closure
    <2>2. \A t \in Terms : lay[t] \in Nat
        BY DEF IsLayering
    <2>3. \A t \in Terms : lay[t] < at + 1 => t \in seen
        <3>1. \A t \in Terms : lay[t] < at + 1 => lay[t] < at \/ lay[t] = at
            BY <2>2
        <3>2. QED  BY <1>3, <2>1, <3>1 DEF Searching
    <2>4. \A t \in Terms : lay[t] = at + 1 => t \in ToSet(succ)
        <3> SUFFICES ASSUME NEW t \in Terms, lay[t] = at + 1 PROVE t \in ToSet(succ)
            OBVIOUS
        <3>1. IsTermGraph(Terms, g) /\ lay[t] # 0
            BY TermGraph
        <3>2. PICK u \in Terms : lay[t] = lay[u] + 1 /\ \E i \in DOMAIN g.ops[u] : g.ops[u][i] = t
            BY <3>1, LayersOfOperands
        <3>3. lay[u] = at
            BY <2>2, <3>2
        <3>4. u \in seen
            BY <1>3, <2>1, <3>3 DEF Searching
        <3>5. QED  BY <1>3, <3>2, <3>3, <3>4 DEF Searching
    <2>5. \A t \in seen : t \in Terms /\ lay[t] <= at /\ lay[t] <= at + 1 /\ lay[t] # at + 1
        <3>1. \A t \in seen : t \in Terms /\ lay[t] <= at
            BY <1>3 DEF Searching, HashInv, HashTypes
        <3>2. QED  BY <2>2, <3>1
    <2>6. \A t \in Terms :
             khash[t] = IF t \in seen THEN RecomputeKLevHash(g, old, t) ELSE old[t]
        BY <1>3 DEF Searching
    <2>7. \A t \in ToSet(succ) : lay[t] = at + 1
        BY <1>3 DEF Searching
    <2>8. QED  BY <1>1, <2>1, <2>3, <2>4, <2>5, <2>6, <2>7 DEF Searching
<1>5. PassInv(lay)'
    <2>1. /\ g' = g /\ pass' = k + 1 /\ stage' = "hash" /\ at + 1 \in Nat
          /\ ToSet(roots)' = {t \in Terms : IsFinal(Terms, g, t)}
        BY <1>1, <1>3 DEF closure, HashInv, PassInv
    <2>2. QED  BY <1>3, <1>4, <2>1 DEF PassInv
<1>6. QED  BY <1>1, <1>2, <1>5, HashingStep
LEMMA VisitTermHashInv ==
    ASSUME IInv, NEW lay, IsLayering(Terms, g, lay), HashInv(lay), VisitTerm
    PROVE  HashInv(lay)'
<1> DEFINE t == Head(level)
<1>1. /\ stage = "hash" /\ level # << >> /\ level' = Tail(level)
      /\ UNCHANGED <<closure, cutoff, stage, roots, pass, todo, kroots>>
    BY DEF VisitTerm
<1>2. /\ t \in seen => UNCHANGED <<khash, succ, seen>>
      /\ t \notin seen => /\ khash' = [khash EXCEPT ![t] = RecomputeKLevHash(g, khash, t)]
                          /\ succ' = Pushed(succ, g.ops[t], seen \cup {t})
                          /\ seen' = seen \cup {t}
    BY DEF VisitTerm, Pushed
<1>3. /\ level \in Seq(Terms) /\ succ \in Seq(Terms) /\ seen \subseteq Terms /\ pass \in Nat
      /\ DOMAIN khash = Terms
    BY DEF HashInv, HashTypes
<1>4. /\ t \in Terms /\ level' \in Seq(Terms) /\ ToSet(level) = {t} \cup ToSet(level')
      /\ ToSet(level)' = ToSet(level') /\ ToSet(succ)' = ToSet(succ')
    BY <1>1, <1>3, SetOfTail
<1> HIDE DEF t
<1>5. IsTermGraph(Terms, g) /\ g' = g
    BY <1>1, TermGraph DEF closure
<1>6. g.ops[t] \in Seq(Terms) /\ ToSet(g.ops[t]) = {g.ops[t][i] : i \in DOMAIN g.ops[t]}
    BY <1>4, <1>5, OperandsAre DEF ToSet
<1>7. t \notin seen => /\ succ' \in Seq(Terms)
                       /\ ToSet(succ') = ToSet(succ) \cup (ToSet(g.ops[t]) \ (seen \cup {t}))
    <2>1. \A marked : /\ Pushed(succ, g.ops[t], marked) \in Seq(Terms)
                      /\ ToSet(Pushed(succ, g.ops[t], marked))
                            = ToSet(succ) \cup (ToSet(g.ops[t]) \ marked)
        BY <1>3, <1>6, PushedAre
    <2>2. QED  BY <1>2, <2>1
<1>8. HashTypes'
    <2>1. succ' \in Seq(Terms) /\ seen' \subseteq Terms /\ DOMAIN khash' = Terms
        BY <1>2, <1>3, <1>4, <1>7
    <2>2. QED  BY <1>1, <1>4, <2>1 DEF HashInv, HashTypes
<1>9a. PICK k \in Nat, at \in Nat : \E old :
         pass = k + 1 /\ HashesAgree(Terms, g, old, k) /\ Searching(lay, old, at)
    BY <1>1 DEF HashInv, PassInv, Unhashed
<1>9. PICK old : pass = k + 1 /\ HashesAgree(Terms, g, old, k) /\ Searching(lay, old, at)
    BY <1>9a
<1>10. lay[t] = at
    BY <1>4, <1>9 DEF Searching
<1>11. Searching(lay, old, at)'
    <2>1. CASE t \in seen
        <3>1. UNCHANGED <<g, khash, succ, seen>> /\ ToSet(level) = {t} \cup ToSet(level)'
            BY <1>2, <1>4, <1>5, <2>1
        <3>2. QED  BY <1>4, <1>9, <2>1, <3>1 DEF Searching
    <2>2. CASE t \notin seen
        <3>1. seen' = seen \cup {t} /\ \A x \in Terms : lay[x] \in Nat
            BY <1>2, <2>2 DEF IsLayering
        <3>2. \A i \in DOMAIN g.ops[t] : /\ g.ops[t][i] \in Terms
                                         /\ lay[g.ops[t][i]] = at + 1
                                         /\ g.ops[t][i] \notin seen \cup {t}
            <4>1. \A i \in DOMAIN g.ops[t] : /\ g.ops[t][i] \in Terms
                                             /\ lay[g.ops[t][i]] = at + 1
                BY <1>4, <1>5, <1>10, LayersOfOperands, OperandsAre
            <4>2. \A x \in seen \cup {t} : lay[x] # at + 1
                <5>1. \A x \in seen \cup {t} : x \in Terms /\ lay[x] <= at
                    BY <1>3, <1>4, <1>9, <1>10 DEF Searching
                <5>2. QED  BY <3>1, <5>1
            <4>3. QED  BY <4>1, <4>2
        <3>3. ToSet(succ') = ToSet(succ) \cup {g.ops[t][i] : i \in DOMAIN g.ops[t]}
            BY <1>6, <1>7, <2>2, <3>2
        <3>4. RecomputeKLevHash(g, khash, t) = RecomputeKLevHash(g, old, t)
            <4>1. \A i \in DOMAIN g.ops[t] : khash[g.ops[t][i]] = old[g.ops[t][i]]
                BY <1>9, <3>2 DEF Searching
            <4>2. QED  BY <4>1 DEF RecomputeKLevHash
        <3>5. \A x \in Terms :
                 khash'[x] = IF x \in seen' THEN RecomputeKLevHash(g, old, x) ELSE old[x]
            <4>1. \A x \in Terms :
                     khash'[x] = IF x = t THEN RecomputeKLevHash(g, old, t) ELSE khash[x]
                BY <1>2, <1>3, <2>2, <3>4
            <4>2. \A x \in Terms :
                     khash[x] = IF x \in seen THEN RecomputeKLevHash(g, old, x) ELSE old[x]
                BY <1>9 DEF Searching
            <4>3. QED  BY <3>1, <4>1, <4>2
        <3>6. \A x \in ToSet(level') : lay[x] = at
            BY <1>4, <1>9 DEF Searching
        <3>7. \A x \in ToSet(succ') : lay[x] = at + 1
            BY <1>9, <3>2, <3>3 DEF Searching
        <3>8. \A x \in seen' : lay[x] <= at
            BY <1>9, <1>10, <3>1 DEF Searching
        <3>9. /\ \A x \in Terms : lay[x] < at => x \in seen'
              /\ \A x \in Terms : lay[x] = at => x \in seen' \/ x \in ToSet(level')
            BY <1>4, <1>9, <3>1 DEF Searching
        <3>10. \A x \in seen' : lay[x] = at => \A i \in DOMAIN g.ops[x] : g.ops[x][i] \in ToSet(succ')
            BY <1>9, <3>1, <3>3 DEF Searching
        <3>11. QED  BY <1>4, <1>5, <3>5, <3>6, <3>7, <3>8, <3>9, <3>10 DEF Searching
    <2>3. QED  BY <2>1, <2>2
<1>12. PassInv(lay)'
    <2>1. /\ pass' = k + 1 /\ stage' = "hash"
          /\ ToSet(roots)' = {x \in Terms : IsFinal(Terms, g, x)}
        BY <1>1, <1>9 DEF HashInv, PassInv
    <2>2. QED  BY <1>5, <1>9, <1>11, <2>1 DEF PassInv
<1>13. QED  BY <1>1, <1>8, <1>12, HashingStep

LEMMA StartMatchingHashInv ==
    ASSUME IInv, NEW lay, IsLayering(Terms, g, lay), HashInv(lay), StartMatching
    PROVE  HashInv(lay)'
<1>1. /\ stage = "hash" /\ level = << >> /\ succ = << >> /\ pass = cutoff /\ stage' = "match"
      /\ todo' = Terms
      /\ UNCHANGED <<g, pc, wlist, requested, cutoff, khash, roots, pass, level, succ, seen, kroots>>
    BY DEF StartMatching, closure, visitor
<1>2. HashTypes'
    BY <1>1 DEF HashInv, HashTypes
<1>3. HashesAgree(Terms, g, khash, cutoff)
    BY <1>1, PassEnds
<1>4. MatchInv'
    BY <1>1 DEF HashInv, Unmatched, MatchInv
<1>5. QED
    BY <1>1, <1>2, <1>3, <1>4 DEF HashInv, Unmatched, CheckinInv, PassInv, OrderInv

(* Two terms with one k-root have one hash: the bucket of a term that finds   *)
(* no match holds none of its k-root.                                       *)
LEMMA MatchHashInv ==
    ASSUME IInv, NEW lay, HashInv(lay), NEW t \in Terms, Match(t)
    PROVE  HashInv(lay)'
<1>1. /\ stage = "match" /\ t \in todo /\ todo' = todo \ {t}
      /\ UNCHANGED <<cutoff, stage, khash, roots, pass, level, succ, seen>>
    BY DEF Match, visitor
<1>2. HashTypes'
    BY <1>1 DEF HashInv, HashTypes
<1>3. MatchInv /\ HashesAgree(Terms, g, khash, cutoff) /\ kroots \subseteq Terms
    BY <1>1 DEF HashInv, OrderInv, IInv
<1> DEFINE K == KRoot(Terms, g, cutoff)
<1>4. CASE Candidates(t) = {} /\ kroots' = kroots \cup {t} /\ UNCHANGED closure
    <2>1. UNCHANGED <<g, pc, wlist, requested>>
        BY <1>4 DEF closure
    <2>2. \A x \in kroots : <<t, x>> \notin K
        BY <1>3, <1>4 DEF Candidates, SameKRoot, KRoot, HashesAgree
    <2>3. \A x \in kroots : <<x, t>> \notin K
        <3>1. IsEquivalence(Terms, K)
            BY TermGraph
        <3> HIDE DEF K
        <3>2. QED  BY <1>3, <2>2, <3>1 DEF IsEquivalence
    <2>4. \A x, u \in kroots' : <<x, u>> \in K => x = u
        BY <1>1, <1>3, <1>4, <2>2, <2>3 DEF MatchInv
    <2>5. \A x \in Terms : x \in todo' \/ x \in kroots' \/ \E u \in kroots' : <<x, u>> \in requested
        BY <1>1, <1>3, <1>4 DEF MatchInv
    <2>6. MatchInv'
        BY <1>1, <2>1, <2>4, <2>5 DEF MatchInv
    <2>7. QED
        BY <1>1, <1>2, <1>3, <2>1, <2>6 DEF HashInv, Unmatched, CheckinInv, PassInv, OrderInv
<1>5. CASE (\E x \in Candidates(t) : C!Merge(t, x)) /\ UNCHANGED kroots
    <2>1. PICK x \in Candidates(t) : C!Merge(t, x)
        BY <1>5
    <2>2. /\ UNCHANGED <<g, pc>> /\ pc = "build" /\ requested' = requested \cup {<<t, x>>}
          /\ x \in kroots
        BY <2>1 DEF C!Merge, Candidates
    <2>3. \A y \in Terms : y \in todo' \/ y \in kroots' \/ \E u \in kroots' : <<y, u>> \in requested'
        BY <1>1, <1>3, <1>5, <2>2 DEF MatchInv
    <2>4. MatchInv'
        BY <1>1, <1>3, <1>5, <2>2, <2>3 DEF MatchInv
    <2>5. QED
        BY <1>1, <1>2, <1>3, <2>2, <2>4 DEF HashInv, Unmatched, CheckinInv, PassInv, OrderInv
<1>6. QED  BY <1>4, <1>5 DEF Match

LEMMA CallPropagateHashInv ==
    ASSUME NEW lay, HashInv(lay), CallPropagate
    PROVE  HashInv(lay)'
<1>1. /\ stage = "match" /\ todo = {} /\ stage' = "close" /\ pc' = "propagate"
      /\ UNCHANGED <<g, requested, cutoff, khash, roots, pass, level, succ, seen, todo, kroots>>
    BY DEF CallPropagate, C!CallPropagate, C!nodes, visitor
<1>2. HashTypes' /\ MatchInv'
    BY <1>1 DEF HashInv, HashTypes, MatchInv
<1>3. QED  BY <1>1, <1>2 DEF HashInv, Unmatched, CheckinInv, PassInv, OrderInv

LEMMA PropagateHashInv ==
    ASSUME NEW lay, HashInv(lay), Propagate
    PROVE  HashInv(lay)'
<1>1. UNCHANGED <<cutoff, stage, khash, roots, pass, level, succ, seen, todo, kroots>>
    BY DEF Propagate, visitor
<1>2. /\ pc = "propagate" /\ UNCHANGED <<g, requested>>
      /\ pc' = "propagate" \/ (pc' = "done" /\ wlist' = << >>)
    BY DEF Propagate, C!Propagate, C!DropPair, C!Unite, C!Relink, C!Return, C!AtLoopHead, C!loop
<1>3. stage = "close"
    BY <1>2 DEF HashInv, OrderInv
<1>4. HashTypes' /\ MatchInv'
    BY <1>1, <1>2 DEF HashInv, HashTypes, MatchInv
<1>5. QED  BY <1>1, <1>2, <1>3, <1>4 DEF HashInv, Unmatched, CheckinInv, PassInv, OrderInv

LEMMA StutterHashInv == ASSUME NEW lay, HashInv(lay), UNCHANGED vars PROVE HashInv(lay)'
<1>1. UNCHANGED <<g, pc, checked, wlist, requested, cutoff, stage, khash, roots, pass, level, succ,
                  seen, todo, kroots>>
    BY DEF vars, closure, visitor
<1>2. HashTypes' /\ Unmatched' /\ CheckinInv' /\ MatchInv' /\ OrderInv'
    BY <1>1 DEF HashInv, HashTypes, Unmatched, CheckinInv, Unhashed, MatchInv, OrderInv
<1>3. PassInv(lay)'
    BY <1>1 DEF HashInv, PassInv, Unhashed, Searching
<1>4. QED  BY <1>2, <1>3 DEF HashInv
(* The invariant of the training of a layered graph. *)
LayeredInv == \A lay : IsLayering(Terms, g, lay) => HashInv(lay)

LEMMA InitLayeredInv == Init => LayeredInv
BY InitHashInv DEF LayeredInv

LEMMA GraphKept == [Next]_vars => g' = g
<1> SUFFICES ASSUME [Next]_vars PROVE g' = g
    OBVIOUS
<1>1. ASSUME NEW t \in Terms, Checkin(t) PROVE g' = g
    BY <1>1 DEF Checkin, C!Checkin
<1>2. ASSUME NEW t \in Terms, Match(t) PROVE g' = g
    BY <1>2 DEF Match, C!Merge, closure
<1>3. CASE CallPropagate
    BY <1>3 DEF CallPropagate, C!CallPropagate
<1>4. CASE Propagate
    BY <1>4 DEF Propagate, C!Propagate, C!DropPair, C!Unite, C!Relink, C!Return
<1>5. CASE UNCHANGED closure
    BY <1>5 DEF closure
<1>6. QED
    BY <1>1, <1>2, <1>3, <1>4, <1>5
       DEF Next, Step, StartHashing, BeginPass, VisitTerm, NextLevel, StartMatching,
           Terminated, vars

LEMMA NextLayeredInv == IInv /\ LayeredInv /\ [Next]_vars => LayeredInv'
<1> SUFFICES ASSUME IInv, LayeredInv, [Next]_vars, NEW lay, IsLayering(Terms, g', lay)
             PROVE  HashInv(lay)'
    BY DEF LayeredInv
<1>1. IsLayering(Terms, g, lay) /\ HashInv(lay)
    BY GraphKept DEF LayeredInv
<1>2. ASSUME NEW t \in Terms, Checkin(t) PROVE HashInv(lay)'
    BY <1>1, <1>2, CheckinHashInv
<1>3. CASE StartHashing
    BY <1>1, <1>3, StartHashingHashInv
<1>4. CASE BeginPass
    BY <1>1, <1>4, BeginPassHashInv
<1>5. CASE VisitTerm
    BY <1>1, <1>5, VisitTermHashInv
<1>6. CASE NextLevel
    BY <1>1, <1>6, NextLevelHashInv
<1>7. CASE StartMatching
    BY <1>1, <1>7, StartMatchingHashInv
<1>8. ASSUME NEW t \in Terms, Match(t) PROVE HashInv(lay)'
    BY <1>1, <1>8, MatchHashInv
<1>9. CASE CallPropagate
    BY <1>1, <1>9, CallPropagateHashInv
<1>10. CASE Propagate
    BY <1>1, <1>10, PropagateHashInv
<1>11. CASE UNCHANGED vars
    BY <1>1, <1>11, StutterHashInv
<1>12. QED
    BY <1>2, <1>3, <1>4, <1>5, <1>6, <1>7, <1>8, <1>9, <1>10, <1>11 DEF Next, Step, Terminated

(* ... in every state of training. *)
THEOREM LayeredInvariance == Spec => []LayeredInv
<1>1. Init => IInv /\ LayeredInv
    BY InitIInv, InitLayeredInv
<1>2. IInv /\ LayeredInv /\ [Next]_vars => IInv' /\ LayeredInv'
    BY NextIInv, NextLayeredInv
<1>3. QED  BY <1>1, <1>2, PTL DEF Spec

(* Layered says that some numbering is a layering. *)
LEMMA LayeringExists ==
    ASSUME IInv, Layered
    PROVE  \E lay : IsLayering(Terms, g, lay)
<1>1. IsTermGraph(Terms, g) /\ IsFiniteSet(Terms)
    BY TermGraph, TermsAssumption
<1> DEFINE IsLev(lev) == lev = [t \in Terms |-> LevelBody(Terms, g, lev, t)]
           lev == CHOOSE f : IsLev(f)
<1>2. PICK f \in [Terms -> Nat] : \A t \in Terms : f[t] = LevelBody(Terms, g, f, t)
    BY <1>1, LevelsDefined
<1>3. IsLev(f)
    BY <1>2
<1>4. IsLev(lev)
    <2> HIDE DEF IsLev
    <2>1. QED  BY <1>3
<1>5. \A t \in Terms : \A u \in Uses(Terms, g, t) : lev[t] = lev[u] + 1
    BY DEF Layered, LevelBody
<1> HIDE DEF lev
<1>6. DOMAIN lev = Terms /\ \A t \in Terms : lev[t] = LevelBody(Terms, g, lev, t)
    BY <1>4
<1>7. PICK height \in [Terms -> Nat] :
         \A t \in Terms : \A u \in Uses(Terms, g, t) : u \in Terms /\ height[u] < height[t]
    BY <1>1, UsesFirst
<1>8. lev \in [Terms -> Nat]
    <2> DEFINE L == {t \in Terms : lev[t] \in Nat}
    <2>1. ASSUME NEW t \in Terms, \A r \in Terms : height[r] < height[t] => r \in L
          PROVE  t \in L
        <3>1. \A u \in Uses(Terms, g, t) : lev[u] \in Nat
            BY <1>7, <2>1
        <3>2. CASE IsFinal(Terms, g, t)
            <4>1. LevelBody(Terms, g, lev, t) = 0
                BY <3>2 DEF LevelBody
            <4>2. QED  BY <1>6, <4>1
        <3>3. CASE ~ IsFinal(Terms, g, t)
            <4>1. PICK u \in Uses(Terms, g, t) : TRUE
                BY <3>3 DEF IsFinal
            <4>2. QED  BY <1>5, <3>1, <4>1
        <3>4. QED  BY <3>2, <3>3
    <2>2. Terms \subseteq L
        <3> HIDE DEF L
        <3>1. QED  BY <2>1, DepthInduction
    <2>3. lev = [t \in Terms |-> lev[t]]
        BY <1>4
    <2>4. QED  BY <2>2, <2>3
<1>9. \A t \in Terms : lev[t] = 0 <=> IsFinal(Terms, g, t)
    <2>1. \A t \in Terms : IsFinal(Terms, g, t) => lev[t] = 0
        BY <1>6 DEF LevelBody
    <2>2. ASSUME NEW t \in Terms, ~ IsFinal(Terms, g, t) PROVE lev[t] # 0
        <3>1. PICK u \in Uses(Terms, g, t) : TRUE
            BY <2>2 DEF IsFinal
        <3>2. lev[u] \in Nat /\ lev[t] = lev[u] + 1
            BY <1>5, <1>7, <1>8, <3>1
        <3>3. QED  BY <3>2
    <2>3. QED  BY <2>1, <2>2
<1>10. IsLayering(Terms, g, lev)
    BY <1>5, <1>8, <1>9 DEF IsLayering
<1>11. QED  BY <1>10
(* On a layered graph the learner computes exactly the k-root equivalence:    *)
(* every term is a k-root of krootMap or was merged with one, and the closure *)
(* made every requested pair equal (SDGInference.cpp:211-251).               *)
LEMMA LayeredIsExact == IInv /\ LayeredInv => ExactIfLayered
<1> SUFFICES ASSUME IInv, LayeredInv, pc = "done", Layered,
                    NEW t \in Terms, NEW u \in Terms
             PROVE  C!SameClass(t, u) <=> SameKRoot(t, u)
    BY DEF ExactIfLayered
<1> DEFINE K == KRoot(Terms, g, cutoff)
<1>1. PICK lay : IsLayering(Terms, g, lay)
    BY LayeringExists
<1>2. HashInv(lay)
    BY <1>1 DEF LayeredInv
<1>3. wlist = << >> /\ todo = {} /\ MatchInv /\ stage = "close" /\ kroots \subseteq Terms
    BY <1>2 DEF HashInv, OrderInv, IInv
<1>4. \A p \in requested : CP!SameClass(p[1], p[2]) /\ p \in K
    BY <1>3 DEF IInv, CP!IInv, CP!RequestsKept, CP!ToSet, RequestsAreKRoots
<1>5. IsEquivalence(Terms, K)
    BY TermGraph
<1> HIDE DEF K
<1>6. ASSUME NEW x \in Terms
      PROVE  \E y \in kroots : CP!SameClass(x, y) /\ <<x, y>> \in K
    <2>1. CASE x \in kroots
        BY <1>5, <2>1 DEF IsEquivalence, CP!SameClass
    <2>2. CASE \E y \in kroots : <<x, y>> \in requested
        <3>1. PICK y \in kroots : <<x, y>> \in requested
            BY <2>2
        <3>2. CP!SameClass(<<x, y>>[1], <<x, y>>[2]) /\ <<x, y>> \in K
            BY <1>4, <3>1
        <3>3. QED  BY <3>2
    <2>3. QED  BY <1>3, <2>1, <2>2 DEF MatchInv
<1>7. ASSUME <<t, u>> \in K PROVE CP!SameClass(t, u)
    <2>1. PICK x \in kroots : CP!SameClass(t, x) /\ <<t, x>> \in K
        BY <1>6
    <2>2. PICK y \in kroots : CP!SameClass(u, y) /\ <<u, y>> \in K
        BY <1>6
    <2>3. <<x, t>> \in K /\ <<t, y>> \in K /\ x \in Terms /\ y \in Terms
        BY <1>3, <1>5, <1>7, <2>1, <2>2 DEF IsEquivalence
    <2>4. <<x, y>> \in K
        BY <1>5, <2>3 DEF IsEquivalence
    <2>5. x = y
        BY <1>3, <2>4 DEF MatchInv, K
    <2>6. QED  BY <2>1, <2>2, <2>5 DEF CP!SameClass
<1>8. <<t, u>> \in K <=> SameKRoot(t, u)
    BY DEF K, KRoot, SameKRoot
<1>9. QED  BY <1>7, <1>8, SameClosure DEF IInv, ClassesAreKRoots, K

(* ... whatever the order of the hash tables (SDGInference.cpp:211-251). *)
THEOREM ExactOnLayeredGraphs == Spec => []ExactIfLayered
BY Invariance, LayeredInvariance, LayeredIsExact, PTL

-----------------------------------------------------------------------------
(* The splicing alone (Spec, of Automaton), for any classes that have one     *)
(* symbol each.                                                             *)

(* The terms visit was called on and has not returned from are marked, occur *)
(* once, and have no state yet: no class is spliced twice.                   *)
StackInv ==
    /\ \A k \in DOMAIN stack : stack[k][1] \in visited /\ stack[k][1] \notin states
    /\ \A j, k \in DOMAIN stack : stack[j][1] = stack[k][1] => j = k

(* A state is named by a marked representative; the roots left are roots of  *)
(* the training set and not marked.                                         *)
MarksInv ==
    /\ states \subseteq visited
    /\ \A r \in states : cls[r] = r
    /\ \A r \in rootsLeft : A!IsFinal(Terms, g, r)
    /\ A!RootsVisitedOnce

(* The inductive invariant. *)
SpliceInv ==
    /\ A!Given
    /\ A!TypeOK
    /\ A!OperandsAreQuotient
    /\ A!UsesMirrorOperands
    /\ StackInv
    /\ MarksInv

-----------------------------------------------------------------------------
(* A node is a term or a state, and never both (Term::isState). *)
LEMMA NodeKinds ==
    /\ \A t \in Terms : A!TermNode(t) \in A!Nodes /\ A!StateNode(t) \in A!Nodes
    /\ \A t, u : A!TermNode(t) # A!StateNode(u)
    /\ \A t, u : A!TermNode(t) = A!TermNode(u) <=> t = u
    /\ \A t, u : A!StateNode(t) = A!StateNode(u) <=> t = u
    /\ \A t : ~A!IsState(A!TermNode(t)) /\ A!IsState(A!StateNode(t))
    /\ \A t : A!TermNode(t)[2] = t /\ A!StateNode(t)[2] = t
    /\ \A n \in A!Nodes : n[2] \in Terms /\ n = IF A!IsState(n) THEN A!StateNode(n[2])
                                                            ELSE A!TermNode(n[2])
BY DEF A!Nodes, A!TermNode, A!StateNode, A!IsState

(* Operands of the training set are terms (Term::operands). *)
LEMMA GivenTypes ==
    ASSUME A!Given
    PROVE  /\ \A u \in Terms : g.ops[u] \in Seq(Terms)
           /\ \A u \in Terms : \A i \in DOMAIN g.ops[u] : g.ops[u][i] \in Terms
           /\ \A t \in Terms : cls[t] \in Terms /\ cls[cls[t]] = cls[t]
<1>1. g.ops \in [Terms -> Seq(Terms)]
    BY DEF A!Given, A!IsTermGraph
<1>2. QED BY <1>1, ElementOfSeq DEF A!Given

(* What the community module's Front leaves of a sequence. *)
LEMMA FrontProperties ==
    ASSUME NEW S, NEW s \in Seq(S), s # << >>
    PROVE  /\ Len(s) \in Nat \ {0}
           /\ A!Front(s) \in Seq(S) /\ Len(A!Front(s)) = Len(s) - 1
           /\ \A k \in 1 .. Len(s) - 1 : A!Front(s)[k] = s[k]
<1>1. Len(s) \in Nat /\ Len(s) >= 1 /\ DOMAIN s = 1 .. Len(s)
      /\ \A i \in 1 .. Len(s) - 1 : s[i] \in S
    BY EmptySeq, LenProperties, ElementOfSeq
<1>2. A!Front(s) \in Seq(S) /\ Len(A!Front(s)) = Len(s) - 1
      /\ \A i \in 1 .. Len(s) - 1 : A!Front(s)[i] = s[i]
    BY <1>1, SubSeqProperties DEF A!Front
<1>3. QED BY <1>1, <1>2

(* The top of the stack and what is left when it is popped. *)
LEMMA StackTop ==
    ASSUME A!TypeOK, stack # << >>
    PROVE  /\ Len(stack) \in DOMAIN stack
           /\ DOMAIN stack = 1 .. Len(stack)
           /\ Len(stack) \in Nat \ {0}
           /\ A!top = stack[Len(stack)]
           /\ A!top[1] \in Terms /\ A!top[2] \in Nat \ {0}
           /\ A!top = <<A!top[1], A!top[2]>>
           /\ A!Front(stack) \in Seq(Terms \X (Nat \ {0}))
           /\ Len(A!Front(stack)) = Len(stack) - 1
           /\ DOMAIN A!Front(stack) = 1 .. Len(stack) - 1
           /\ \A k \in 1 .. Len(stack) - 1 : A!Front(stack)[k] = stack[k]
<1>1. stack \in Seq(Terms \X (Nat \ {0})) /\ Len(stack) \in Nat \ {0}
    BY EmptySeq, LenProperties DEF A!TypeOK
<1>2. A!top \in Terms \X (Nat \ {0}) /\ A!top = stack[Len(stack)]
    BY <1>1, ElementOfSeq DEF A!top, A!Last
<1>3. A!Front(stack) \in Seq(Terms \X (Nat \ {0})) /\ Len(A!Front(stack)) = Len(stack) - 1
      /\ \A k \in 1 .. Len(stack) - 1 : A!Front(stack)[k] = stack[k]
    BY <1>1, EmptySeq, FrontProperties
<1>4. QED BY <1>1, <1>2, <1>3, LenProperties

(* The invariant at the start of rebuildAutomaton. *)
LEMMA SpliceStarts == A!Init => SpliceInv
<1> SUFFICES ASSUME A!Init PROVE SpliceInv OBVIOUS
<1>1. A!Given BY DEF A!Init
<1>2. /\ ops = [t \in Terms |-> [i \in DOMAIN g.ops[t] |-> A!TermNode(g.ops[t][i])]]
      /\ states = {} /\ stack = << >> /\ visited = {}
      /\ rootsLeft = {t \in Terms : A!IsFinal(Terms, g, t)}
      /\ usedBy = [n \in A!Nodes |-> IF A!IsState(n) THEN {}
                                   ELSE {A!TermNode(u) : u \in A!Uses(Terms, g, n[2])}]
    BY DEF A!Init
<1>3. ops \in [Terms -> Seq(A!Nodes)]
    <2>1. \A t \in Terms : [i \in DOMAIN g.ops[t] |-> A!TermNode(g.ops[t][i])] \in Seq(A!Nodes)
        <3> TAKE t \in Terms
        <3>1. g.ops[t] \in Seq(Terms) /\ DOMAIN g.ops[t] = 1 .. Len(g.ops[t])
              /\ Len(g.ops[t]) \in Nat
            BY <1>1, GivenTypes, LenProperties
        <3>2. QED BY <3>1, <1>1, GivenTypes, NodeKinds, IsASeq
    <2>2. QED BY <1>2, <2>1
<1>4. usedBy \in [A!Nodes -> SUBSET A!Nodes]
    <2>1. \A n \in A!Nodes : usedBy[n] \subseteq A!Nodes
        BY <1>2, NodeKinds DEF A!Uses
    <2>2. QED BY <1>2, <2>1
<1>5. A!TypeOK
    BY <1>2, <1>3, <1>4, EmptySeq DEF A!TypeOK
<1>6. A!OperandsAreQuotient
    BY <1>1, <1>2 DEF A!OperandsAreQuotient
<1>7. A!UsesMirrorOperands
    <2> SUFFICES ASSUME NEW n \in A!Nodes
                 PROVE  usedBy[n] = {A!TermNode(u) : u \in {w \in Terms :
                                       \E i \in DOMAIN ops[w] : ops[w][i] = n}}
        BY <1>2 DEF A!UsesMirrorOperands
    <2>1. CASE A!IsState(n)
        BY <2>1, <1>2, NodeKinds
    <2>2. CASE ~A!IsState(n)
        <3>0. A!Uses(Terms, g, n[2]) = {u \in Terms : \E i \in DOMAIN g.ops[u] : g.ops[u][i] = n[2]}
            BY DEF A!Uses
        <3>1. \A w \in Terms : (\E i \in DOMAIN ops[w] : ops[w][i] = n)
                                 <=> (\E i \in DOMAIN g.ops[w] : g.ops[w][i] = n[2])
            <4> TAKE w \in Terms
            <4>1. ops[w] = [i \in DOMAIN g.ops[w] |-> A!TermNode(g.ops[w][i])]
                BY <1>2
            <4>2. \A t : A!TermNode(t) = n <=> t = n[2]
                BY <2>2, NodeKinds
            <4>3. QED BY <4>1, <4>2
        <3>2. {w \in Terms : \E i \in DOMAIN ops[w] : ops[w][i] = n} = A!Uses(Terms, g, n[2])
            BY <3>0, <3>1
        <3>3. QED BY <2>2, <1>2, <3>2
    <2>3. QED BY <2>1, <2>2
<1>8. StackInv
    BY <1>2 DEF StackInv
<1>9. MarksInv
    BY <1>2 DEF MarksInv, A!RootsVisitedOnce
<1>10. QED BY <1>1, <1>5, <1>6, <1>7, <1>8, <1>9 DEF SpliceInv

-----------------------------------------------------------------------------
(* A step that leaves the graph alone keeps what is said of it. *)
LEMMA SplicedKept ==
    ASSUME SpliceInv, UNCHANGED <<g, cls, A!graph>>
    PROVE  A!Given' /\ A!OperandsAreQuotient' /\ A!UsesMirrorOperands'
<1>1. g' = g /\ cls' = cls /\ ops' = ops /\ usedBy' = usedBy /\ states' = states
    BY DEF A!graph
<1>2. A!Given'
    BY <1>1 DEF SpliceInv, A!Given
<1>3. A!OperandsAreQuotient'
    BY <1>1 DEF SpliceInv, A!OperandsAreQuotient
<1>4. A!UsesMirrorOperands'
    BY <1>1 DEF SpliceInv, A!UsesMirrorOperands, A!Nodes
<1>5. QED BY <1>2, <1>3, <1>4

LEMMA VisitRootSplices ==
    ASSUME SpliceInv, NEW r \in Terms, A!VisitRoot(r)
    PROVE  SpliceInv'
<1>1. /\ stack = << >> /\ r \in rootsLeft /\ rootsLeft' = rootsLeft \ {r}
      /\ stack' = << <<r, 1>> >> /\ visited' = visited \cup {r}
      /\ g' = g /\ cls' = cls /\ ops' = ops /\ usedBy' = usedBy /\ states' = states
    BY DEF A!VisitRoot, A!graph
<1>2. A!Given' /\ A!OperandsAreQuotient' /\ A!UsesMirrorOperands'
    BY <1>1, SplicedKept DEF A!graph
<1>3. A!TypeOK'
    <2>1. stack' \in Seq(Terms \X (Nat \ {0}))
        BY <1>1
    <2>2. QED BY <1>1, <2>1 DEF SpliceInv, A!TypeOK, A!Nodes
<1>4. r \notin states
    BY <1>1 DEF SpliceInv, MarksInv, A!RootsVisitedOnce
<1>5. StackInv'
    BY <1>1, <1>4 DEF StackInv
<1>6. MarksInv'
    BY <1>1 DEF SpliceInv, MarksInv, A!RootsVisitedOnce
<1>7. QED BY <1>2, <1>3, <1>5, <1>6 DEF SpliceInv

(* The walk goes from a term to an operand, which is no root. *)
LEMMA VisitOperandSplices ==
    ASSUME SpliceInv, A!VisitOperand
    PROVE  SpliceInv'
<1> DEFINE t == A!top[1]
           x == ops[A!top[1]][A!top[2]]
           next == Append(A!Front(stack), <<A!top[1], A!top[2] + 1>>)
<1>0. A!TypeOK /\ A!Given /\ A!OperandsAreQuotient
    BY DEF SpliceInv
<1>1. /\ stack # << >> /\ A!top[2] <= Len(ops[t]) /\ rootsLeft' = rootsLeft
      /\ g' = g /\ cls' = cls /\ ops' = ops /\ usedBy' = usedBy /\ states' = states
      /\ \/ (A!IsState(x) \/ x[2] \in visited) /\ stack' = next /\ visited' = visited
         \/ /\ ~A!IsState(x) /\ x[2] \notin visited
            /\ stack' = Append(next, <<x[2], 1>>) /\ visited' = visited \cup {x[2]}
    BY DEF A!VisitOperand, A!graph
<1>2. A!Given' /\ A!OperandsAreQuotient' /\ A!UsesMirrorOperands'
    BY <1>1, SplicedKept DEF A!graph
<1>3. /\ t \in Terms /\ A!top[2] \in Nat \ {0} /\ A!top[2] \in DOMAIN ops[t] /\ x \in A!Nodes
      /\ ops[t] \in Seq(A!Nodes)
    <2>1. t \in Terms /\ A!top[2] \in Nat \ {0}
        BY <1>0, <1>1, StackTop
    <2>2. ops[t] \in Seq(A!Nodes)
        BY <2>1, <1>0 DEF A!TypeOK
    <2>3. QED BY <2>1, <2>2, <1>1, LenProperties, ElementOfSeq
<1>4. /\ next \in Seq(Terms \X (Nat \ {0})) /\ Len(next) = Len(stack)
      /\ DOMAIN next = DOMAIN stack
      /\ \A k \in DOMAIN stack : next[k][1] = stack[k][1]
    <2>1. A!Front(stack) \in Seq(Terms \X (Nat \ {0})) /\ Len(A!Front(stack)) = Len(stack) - 1
          /\ Len(stack) \in Nat \ {0} /\ DOMAIN stack = 1 .. Len(stack)
          /\ A!top = stack[Len(stack)]
          /\ \A k \in 1 .. Len(stack) - 1 : A!Front(stack)[k] = stack[k]
        BY <1>0, <1>1, StackTop
    <2>2. <<A!top[1], A!top[2] + 1>> \in Terms \X (Nat \ {0})
        BY <1>3
    <2>3. /\ next \in Seq(Terms \X (Nat \ {0})) /\ Len(next) = Len(stack)
          /\ \A k \in 1 .. Len(stack) - 1 : next[k] = stack[k]
          /\ next[Len(stack)] = <<A!top[1], A!top[2] + 1>>
        BY <2>1, <2>2, AppendProperties
    <2>4. DOMAIN next = 1 .. Len(stack)
        BY <2>3, LenProperties
    <2>5. ASSUME NEW k \in DOMAIN stack PROVE next[k][1] = stack[k][1]
        <3>1. k \in 1 .. Len(stack) - 1 \/ k = Len(stack)
            BY <2>1
        <3>2. next[Len(stack)][1] = stack[Len(stack)][1]
            BY <2>1, <2>3
        <3>3. QED BY <3>1, <3>2, <2>3
    <2>6. QED BY <2>1, <2>3, <2>4, <2>5
<1>5. CASE stack' = next /\ visited' = visited
    <2>1. A!TypeOK'
        BY <1>5, <1>1, <1>4, <1>0 DEF A!TypeOK, A!Nodes
    <2>2. StackInv'
        <3>1. DOMAIN stack' = DOMAIN stack
              /\ \A k \in DOMAIN stack : stack'[k][1] = stack[k][1]
            BY <1>5, <1>4
        <3>2. /\ \A k \in DOMAIN stack : stack[k][1] \in visited /\ stack[k][1] \notin states
              /\ \A j, k \in DOMAIN stack : stack[j][1] = stack[k][1] => j = k
            BY DEF SpliceInv, StackInv
        <3>3. \A k \in DOMAIN stack' : stack'[k][1] \in visited' /\ stack'[k][1] \notin states'
            BY <3>1, <3>2, <1>5, <1>1
        <3>4. \A j, k \in DOMAIN stack' : stack'[j][1] = stack'[k][1] => j = k
            BY <3>1, <3>2
        <3>5. QED BY <3>3, <3>4 DEF StackInv
    <2>3. MarksInv'
        BY <1>5, <1>1 DEF SpliceInv, MarksInv, A!RootsVisitedOnce
    <2>4. QED BY <1>2, <2>1, <2>2, <2>3 DEF SpliceInv
<1>6. CASE /\ ~A!IsState(x) /\ x[2] \notin visited
           /\ stack' = Append(next, <<x[2], 1>>) /\ visited' = visited \cup {x[2]}
    <2>1. x[2] \in Terms /\ x = A!TermNode(x[2])
        BY <1>3, <1>6, NodeKinds
    <2>2. x[2] = g.ops[t][A!top[2]] /\ A!top[2] \in DOMAIN g.ops[t]
        <3> DEFINE y == g.ops[t][A!top[2]]
        <3>1. A!top[2] \in DOMAIN g.ops[t]
              /\ (x = A!StateNode(cls[y]) \/ x = A!TermNode(y))
            BY <1>0, <1>3 DEF A!OperandsAreQuotient
        <3>2. x = A!TermNode(y)
            BY <3>1, <1>6, NodeKinds
        <3>3. QED BY <3>1, <3>2, NodeKinds
    <2>3. ~A!IsFinal(Terms, g, x[2])
        BY <2>2, <1>3 DEF A!IsFinal, A!Uses
    <2>4. /\ stack' \in Seq(Terms \X (Nat \ {0}))
          /\ DOMAIN stack' = 1 .. Len(stack) + 1
          /\ \A k \in DOMAIN stack : stack'[k] = next[k]
          /\ stack'[Len(stack) + 1] = <<x[2], 1>>
          /\ DOMAIN stack = 1 .. Len(stack) /\ Len(stack) \in Nat \ {0}
        <3>1. DOMAIN stack = 1 .. Len(stack) /\ Len(stack) \in Nat \ {0}
            BY <1>0, <1>1, StackTop
        <3>2. <<x[2], 1>> \in Terms \X (Nat \ {0})
            BY <2>1
        <3>3. /\ stack' \in Seq(Terms \X (Nat \ {0})) /\ Len(stack') = Len(stack) + 1
              /\ \A k \in 1 .. Len(stack) : stack'[k] = next[k]
              /\ stack'[Len(stack) + 1] = <<x[2], 1>>
            BY <1>6, <1>4, <3>2, AppendProperties
        <3>4. QED BY <3>1, <3>3, LenProperties
    <2>5. x[2] \notin states
        BY <1>6 DEF SpliceInv, MarksInv
    <2>6. A!TypeOK'
        BY <1>6, <1>1, <2>1, <2>4, <1>0 DEF A!TypeOK, A!Nodes
    <2>7. StackInv'
        <3>1. \A k \in DOMAIN stack : stack'[k][1] = stack[k][1] /\ stack[k][1] \in visited
                                      /\ stack[k][1] \notin states
            BY <1>4, <2>4 DEF SpliceInv, StackInv
        <3>2. \A k \in DOMAIN stack' : k \in DOMAIN stack \/ k = Len(stack) + 1
            BY <2>4
        <3>3. stack'[Len(stack) + 1][1] = x[2]
            BY <2>4
        <3>4. \A k \in DOMAIN stack' : stack'[k][1] \in visited' /\ stack'[k][1] \notin states'
            BY <3>1, <3>2, <3>3, <1>6, <1>1, <2>5
        <3>5. \A j, k \in DOMAIN stack : stack[j][1] = stack[k][1] => j = k
            BY DEF SpliceInv, StackInv
        <3>6. \A j, k \in DOMAIN stack' : stack'[j][1] = stack'[k][1] => j = k
            <4>1. x[2] \notin visited
                BY <1>6
            <4>2. \A k \in DOMAIN stack : stack'[k][1] # x[2]
                BY <3>1, <4>1
            <4>3. QED BY <3>1, <3>2, <3>3, <3>5, <4>2
        <3>7. QED BY <3>4, <3>6 DEF StackInv
    <2>8. MarksInv'
        BY <1>6, <1>1, <2>3 DEF SpliceInv, MarksInv, A!RootsVisitedOnce, A!IsFinal
    <2>9. QED BY <1>2, <2>6, <2>7, <2>8 DEF SpliceInv
<1>7. QED BY <1>1, <1>5, <1>6

-----------------------------------------------------------------------------
(* Splicing replaces exactly the operands in the class: no use is missed,    *)
(* because the uses of its members mirror the operands until then.           *)
LEMMA SpliceOperands ==
    ASSUME SpliceInv, NEW r \in Terms, r \notin states, cls[r] = r, A!Splice(r),
           g' = g, cls' = cls
    PROVE  /\ A!OperandsAreQuotient'
           /\ \A u \in Terms : \A i \in DOMAIN ops[u] :
                 A!Replaced(A!Members(r), u, i) <=> ops[u][i] \in A!Members(r)
           /\ ops' \in [Terms -> Seq(A!Nodes)]
<1>0. A!Given /\ A!TypeOK /\ A!OperandsAreQuotient /\ A!UsesMirrorOperands
    BY DEF SpliceInv
<1>1. \A m \in A!Members(r) : /\ m \in A!Nodes /\ ~A!IsState(m) /\ cls[m[2]] \notin states
                            /\ usedBy[m] = {A!TermNode(u) : u \in {w \in Terms :
                                              \E i \in DOMAIN ops[w] : ops[w][i] = m}}
    <2> TAKE m \in A!Members(r)
    <2>1. PICK t \in Terms : cls[t] = r /\ m = A!TermNode(t)
        BY DEF A!Members, A!Class
    <2>2. m \in A!Nodes /\ ~A!IsState(m) /\ m[2] = t /\ cls[m[2]] \notin states
        BY <2>1, NodeKinds
    <2>3. usedBy[m] = IF ~A!IsState(m) /\ cls[m[2]] \in states
                         THEN {A!StateNode(cls[m[2]])}
                         ELSE {A!TermNode(u) : u \in {w \in Terms :
                                 \E i \in DOMAIN ops[w] : ops[w][i] = m}}
        BY <1>0, <2>2 DEF A!UsesMirrorOperands
    <2>4. QED BY <2>2, <2>3
<1>2. \A u \in Terms : \A i \in DOMAIN ops[u] :
         A!Replaced(A!Members(r), u, i) <=> ops[u][i] \in A!Members(r)
    BY <1>1 DEF A!Replaced
<1>3. \A u \in Terms : /\ DOMAIN ops'[u] = DOMAIN ops[u]
                       /\ \A i \in DOMAIN ops[u] :
                             ops'[u][i] = IF ops[u][i] \in A!Members(r)
                                             THEN A!StateNode(r) ELSE ops[u][i]
    BY <1>2 DEF A!Splice, A!SubstOps
<1>4. states' = states \cup {r}
    BY DEF A!Splice
<1>5. ASSUME NEW u \in Terms
      PROVE  /\ DOMAIN ops'[u] = DOMAIN g.ops[u]
             /\ \A i \in DOMAIN ops'[u] :
                   ops'[u][i] = IF cls[g.ops[u][i]] \in states'
                                   THEN A!StateNode(cls[g.ops[u][i]])
                                   ELSE A!TermNode(g.ops[u][i])
    <2>1. DOMAIN ops[u] = DOMAIN g.ops[u]
        BY <1>0 DEF A!OperandsAreQuotient
    <2>2. ASSUME NEW i \in DOMAIN g.ops[u]
          PROVE  ops'[u][i] = IF cls[g.ops[u][i]] \in states'
                                 THEN A!StateNode(cls[g.ops[u][i]])
                                 ELSE A!TermNode(g.ops[u][i])
        <3> DEFINE y == g.ops[u][i]
        <3>1. y \in Terms
            BY <1>0, GivenTypes
        <3>2. ops[u][i] = IF cls[y] \in states THEN A!StateNode(cls[y]) ELSE A!TermNode(y)
            BY <1>0, <2>1 DEF A!OperandsAreQuotient
        <3>3. ops'[u][i] = IF ops[u][i] \in A!Members(r) THEN A!StateNode(r) ELSE ops[u][i]
            BY <1>3, <2>1
        <3>4. A!TermNode(y) \in A!Members(r) <=> cls[y] = r
            BY <3>1, NodeKinds DEF A!Members, A!Class
        <3>5. A!StateNode(cls[y]) \notin A!Members(r)
            BY NodeKinds DEF A!Members
        <3>6. CASE cls[y] \in states
            BY <3>2, <3>3, <3>5, <3>6, <1>4
        <3>7. CASE cls[y] = r
            BY <3>2, <3>3, <3>4, <3>7, <1>4
        <3>8. CASE cls[y] \notin states /\ cls[y] # r
            BY <3>2, <3>3, <3>4, <3>8, <1>4
        <3>9. QED BY <3>6, <3>7, <3>8
    <2>3. QED BY <2>1, <2>2, <1>3
<1>6. A!OperandsAreQuotient'
    BY <1>5 DEF A!OperandsAreQuotient
<1>7. ops' \in [Terms -> Seq(A!Nodes)]
    <2>1. \A u \in Terms : A!SubstOps(r, A!Members(r))[u] \in Seq(A!Nodes)
        <3> TAKE u \in Terms
        <3>1. ops[u] \in Seq(A!Nodes)
            BY <1>0 DEF A!TypeOK
        <3>2. DOMAIN ops[u] = 1 .. Len(ops[u]) /\ Len(ops[u]) \in Nat
              /\ \A i \in DOMAIN ops[u] : ops[u][i] \in A!Nodes
            BY <3>1, LenProperties, ElementOfSeq
        <3>3. QED BY <3>2, NodeKinds, IsASeq DEF A!SubstOps
    <2>2. QED BY <2>1 DEF A!Splice, A!SubstOps
<1>8. QED BY <1>2, <1>6, <1>7

(* After a splice the uses mirror the operands again. *)
LEMMA SpliceUses ==
    ASSUME SpliceInv, NEW r \in Terms, r \notin states, cls[r] = r, A!Splice(r),
           g' = g, cls' = cls
    PROVE  A!UsesMirrorOperands' /\ usedBy' \in [A!Nodes -> SUBSET A!Nodes]
<1>0. A!Given /\ A!TypeOK /\ A!OperandsAreQuotient /\ A!UsesMirrorOperands
    BY DEF SpliceInv
<1> DEFINE Users(n) == {w \in Terms : \E i \in DOMAIN ops[w] : ops[w][i] = n}
           NewUsers(n) == {w \in Terms : \E i \in DOMAIN ops'[w] : ops'[w][i] = n}
           InClass == {w \in Terms : \E i \in DOMAIN ops[w] : ops[w][i] \in A!Members(r)}
<1>1. /\ states' = states \cup {r}
      /\ usedBy' = [n \in A!Nodes |-> IF n \in A!Members(r) THEN {A!StateNode(r)}
                                    ELSE IF n = A!StateNode(r) THEN A!SubstUsers(A!Members(r))
                                    ELSE usedBy[n]]
    BY DEF A!Splice
<1>2. \A u \in Terms : /\ DOMAIN ops'[u] = DOMAIN ops[u]
                       /\ \A i \in DOMAIN ops[u] :
                             ops'[u][i] = IF ops[u][i] \in A!Members(r)
                                             THEN A!StateNode(r) ELSE ops[u][i]
    BY SpliceOperands DEF A!Splice, A!SubstOps
<1>3. {w \in Terms : \E i \in DOMAIN ops[w] : A!Replaced(A!Members(r), w, i)} = InClass
    BY SpliceOperands
<1>4. A!SubstUsers(A!Members(r)) = {A!TermNode(u) : u \in InClass}
    BY <1>3 DEF A!SubstUsers
<1>5. \A n \in A!Nodes : n \in A!Members(r) <=> ~A!IsState(n) /\ cls[n[2]] = r
    BY NodeKinds DEF A!Members, A!Class
<1>6. NewUsers(A!StateNode(r)) = InClass
    <2>1. \A u \in Terms : \A i \in DOMAIN ops[u] : ops[u][i] # A!StateNode(r)
        <3> TAKE u \in Terms
        <3> TAKE i \in DOMAIN ops[u]
        <3> DEFINE y == g.ops[u][i]
        <3>1. ops[u][i] = IF cls[y] \in states THEN A!StateNode(cls[y]) ELSE A!TermNode(y)
            BY <1>0 DEF A!OperandsAreQuotient
        <3>2. QED BY <3>1, NodeKinds
    <2>2. QED BY <2>1, <1>2
<1>7. ASSUME NEW n \in A!Nodes, n \notin A!Members(r), n # A!StateNode(r)
      PROVE  NewUsers(n) = Users(n)
    BY <1>7, <1>2
<1> HIDE DEF Users, NewUsers, InClass
<1>8. ASSUME NEW n \in A!Nodes
      PROVE  usedBy'[n] = IF ~A!IsState(n) /\ cls[n[2]] \in states'
                             THEN {A!StateNode(cls[n[2]])}
                             ELSE {A!TermNode(u) : u \in NewUsers(n)}
    <2>1. CASE n \in A!Members(r)
        BY <2>1, <1>1, <1>5
    <2>2. CASE n = A!StateNode(r)
        <3>1. n \notin A!Members(r) /\ A!IsState(n)
            BY <2>2, <1>5, NodeKinds
        <3>2. QED BY <2>2, <3>1, <1>1, <1>4, <1>6
    <2>3. CASE n \notin A!Members(r) /\ n # A!StateNode(r)
        <3>1. usedBy'[n] = usedBy[n]
            BY <2>3, <1>1
        <3>2. usedBy[n] = IF ~A!IsState(n) /\ cls[n[2]] \in states
                             THEN {A!StateNode(cls[n[2]])}
                             ELSE {A!TermNode(u) : u \in Users(n)}
            BY <1>0 DEF A!UsesMirrorOperands, Users
        <3>3. NewUsers(n) = Users(n)
            BY <2>3, <1>7
        <3>4. ~A!IsState(n) => cls[n[2]] # r
            BY <2>3, <1>5
        <3>5. QED BY <3>1, <3>2, <3>3, <3>4, <1>1
    <2>4. QED BY <2>1, <2>2, <2>3
<1>9. A!UsesMirrorOperands'
    BY <1>8 DEF A!UsesMirrorOperands, NewUsers, A!Nodes
<1>10. usedBy' \in [A!Nodes -> SUBSET A!Nodes]
    <2>1. A!SubstUsers(A!Members(r)) \subseteq A!Nodes /\ A!StateNode(r) \in A!Nodes
        BY NodeKinds DEF A!SubstUsers
    <2>2. \A n \in A!Nodes : usedBy[n] \subseteq A!Nodes
        BY <1>0 DEF A!TypeOK
    <2>3. QED BY <1>1, <2>1, <2>2
<1>11. QED BY <1>9, <1>10

(* A term is popped; if it represents a class, the class has its state now.  *)
LEMMA VisitNodeSplices ==
    ASSUME SpliceInv, A!VisitNode
    PROVE  SpliceInv'
<1> DEFINE t == A!top[1]
<1>0. A!TypeOK /\ A!Given
    BY DEF SpliceInv
<1>1. /\ stack # << >> /\ stack' = A!Front(stack) /\ rootsLeft' = rootsLeft
      /\ visited' = visited /\ g' = g /\ cls' = cls
      /\ \/ cls[t] = t /\ A!Splice(t)
         \/ UNCHANGED A!graph
    BY DEF A!VisitNode
<1>2. /\ t \in Terms /\ t \in visited /\ t \notin states
      /\ stack' \in Seq(Terms \X (Nat \ {0}))
      /\ \A k \in DOMAIN stack' : k \in DOMAIN stack /\ stack'[k] = stack[k]
                                  /\ stack[k][1] # t
    <2>1. /\ Len(stack) \in DOMAIN stack /\ DOMAIN stack = 1 .. Len(stack)
          /\ Len(stack) \in Nat \ {0} /\ A!top = stack[Len(stack)] /\ t \in Terms
          /\ stack' \in Seq(Terms \X (Nat \ {0})) /\ DOMAIN stack' = 1 .. Len(stack) - 1
          /\ \A k \in 1 .. Len(stack) - 1 : stack'[k] = stack[k]
        BY <1>0, <1>1, StackTop
    <2>0. DOMAIN stack = 1 .. Len(stack) /\ Len(stack) \in Nat \ {0}
        BY <2>1
    <2>2. \A k \in 1 .. Len(stack) - 1 : k \in DOMAIN stack /\ k # Len(stack)
        <3>1. \A m \in Nat \ {0} : \A k \in 1 .. m - 1 : k \in 1 .. m /\ k # m
            OBVIOUS
        <3>2. \A k \in 1 .. Len(stack) - 1 : k \in 1 .. Len(stack) /\ k # Len(stack)
            BY <2>0, <3>1
        <3>3. QED BY <2>0, <3>2
    <2>3. t \in visited /\ t \notin states
        BY <2>1 DEF SpliceInv, StackInv
    <2>4. \A k \in 1 .. Len(stack) - 1 : stack[k][1] # t
        BY <2>1, <2>2 DEF SpliceInv, StackInv
    <2>5. QED BY <2>1, <2>2, <2>3, <2>4
<1>3. A!Given'
    BY <1>1 DEF SpliceInv, A!Given
<1>4. /\ A!OperandsAreQuotient' /\ A!UsesMirrorOperands'
      /\ ops' \in [Terms -> Seq(A!Nodes)] /\ usedBy' \in [A!Nodes -> SUBSET A!Nodes]
      /\ states' \subseteq states \cup {t}
      /\ \A r \in states' : cls[r] = r
    <2>1. CASE cls[t] = t /\ A!Splice(t)
        <3>1. A!OperandsAreQuotient' /\ A!UsesMirrorOperands'
              /\ ops' \in [Terms -> Seq(A!Nodes)] /\ usedBy' \in [A!Nodes -> SUBSET A!Nodes]
            BY <2>1, <1>1, <1>2, SpliceOperands, SpliceUses
        <3>2. states' = states \cup {t}
            BY <2>1 DEF A!Splice
        <3>3. QED BY <3>1, <3>2, <2>1 DEF SpliceInv, MarksInv
    <2>2. CASE UNCHANGED A!graph
        <3>1. A!OperandsAreQuotient' /\ A!UsesMirrorOperands'
            BY <2>2, <1>1, SplicedKept
        <3>2. ops' = ops /\ usedBy' = usedBy /\ states' = states
            BY <2>2 DEF A!graph
        <3>3. QED BY <3>1, <3>2, <1>0 DEF A!TypeOK, SpliceInv, MarksInv
    <2>3. QED BY <1>1, <2>1, <2>2
<1>5. A!TypeOK'
    BY <1>0, <1>1, <1>2, <1>4 DEF A!TypeOK, A!Nodes
<1>6. StackInv'
    BY <1>1, <1>2, <1>4 DEF SpliceInv, StackInv
<1>7. MarksInv'
    BY <1>1, <1>2, <1>4 DEF SpliceInv, MarksInv, A!RootsVisitedOnce
<1>8. QED BY <1>3, <1>4, <1>5, <1>6, <1>7 DEF SpliceInv

-----------------------------------------------------------------------------
LEMMA SpliceStep == SpliceInv /\ [A!Next]_(A!vars) => SpliceInv'
<1> SUFFICES ASSUME SpliceInv, [A!Next]_(A!vars) PROVE SpliceInv' OBVIOUS
<1>1. ASSUME NEW r \in Terms, A!VisitRoot(r) PROVE SpliceInv'
    BY <1>1, VisitRootSplices
<1>2. CASE A!VisitOperand
    BY <1>2, VisitOperandSplices
<1>3. CASE A!VisitNode
    BY <1>3, VisitNodeSplices
<1>4. CASE UNCHANGED A!vars
    <2>1. UNCHANGED <<g, cls, A!graph>> /\ rootsLeft' = rootsLeft /\ stack' = stack
          /\ visited' = visited
        BY <1>4 DEF A!vars
    <2>2. ops' = ops /\ usedBy' = usedBy /\ states' = states /\ g' = g /\ cls' = cls
        BY <2>1 DEF A!graph
    <2>3. A!Given' /\ A!OperandsAreQuotient' /\ A!UsesMirrorOperands'
        BY <2>1, SplicedKept
    <2>4. A!TypeOK'
        BY <2>1, <2>2 DEF SpliceInv, A!TypeOK, A!Nodes
    <2>5. StackInv' /\ MarksInv'
        BY <2>1, <2>2 DEF SpliceInv, StackInv, MarksInv, A!RootsVisitedOnce
    <2>6. QED BY <2>3, <2>4, <2>5 DEF SpliceInv
<1>5. QED BY <1>1, <1>2, <1>3, <1>4 DEF A!Next

(* The inductive invariant holds throughout the rebuilding. *)
THEOREM SpliceInvariance == A!Spec => []SpliceInv
BY SpliceStarts, SpliceStep, PTL DEF A!Spec

(* Every variable of the rebuilding keeps its type. *)
THEOREM SpliceTypes == A!Spec => []A!TypeOK
<1>1. SpliceInv => A!TypeOK BY DEF SpliceInv
<1>2. QED BY <1>1, SpliceInvariance, PTL

(* For any classes and any order of the walk the graph is the one read from  *)
(* the training set with the spliced classes replaced (BuildAutomaton.cpp).  *)
THEOREM GraphIsQuotient == A!Spec => []A!OperandsAreQuotient
<1>1. SpliceInv => A!OperandsAreQuotient BY DEF SpliceInv
<1>2. QED BY <1>1, SpliceInvariance, PTL

(* The uses the acceptor climbs are the inverse of the operands, although    *)
(* they are redirected one substitution at a time.                           *)
THEOREM UsesAreMirrored == A!Spec => []A!UsesMirrorOperands
<1>1. SpliceInv => A!UsesMirrorOperands BY DEF SpliceInv
<1>2. QED BY <1>1, SpliceInvariance, PTL

(* The assertion of POVisitor::visit never fails for a root. *)
THEOREM RootsAreVisitedOnce == A!Spec => []A!RootsVisitedOnce
<1>1. SpliceInv => A!RootsVisitedOnce BY DEF SpliceInv, MarksInv
<1>2. QED BY <1>1, SpliceInvariance, PTL

(* The members of a spliced class are used by its state and by nothing else, *)
(* no operand is one of them, and the assertion at the end of visitNode      *)
(* never fails (BuildAutomaton.cpp:57-62).                                   *)
THEOREM StatesAreProperlySpliced == A!Spec => []A!StateProperlySpliced
<1>1. SpliceInv => A!StateProperlySpliced
    <2> SUFFICES ASSUME SpliceInv, NEW r \in states
                 PROVE  /\ \A n \in A!Members(r) : usedBy[n] = {A!StateNode(r)}
                        /\ \A u \in Terms : \A i \in DOMAIN ops[u] : ops[u][i] \notin A!Members(r)
                        /\ usedBy[A!StateNode(r)] # {}
                              <=> \E m \in A!Class(r) : ~A!IsFinal(Terms, g, m)
        BY DEF A!StateProperlySpliced
    <2>0. A!Given /\ A!TypeOK /\ A!OperandsAreQuotient /\ A!UsesMirrorOperands /\ r \in Terms
        BY DEF SpliceInv, A!TypeOK
    <2> DEFINE Users == {w \in Terms : \E i \in DOMAIN ops[w] : ops[w][i] = A!StateNode(r)}
    <2>1. usedBy[A!StateNode(r)] = {A!TermNode(u) : u \in Users}
        <3> DEFINE n == A!StateNode(r)
        <3>1. n \in A!Nodes /\ A!IsState(n)
            BY <2>0, NodeKinds
        <3>2. usedBy[n] = IF ~A!IsState(n) /\ cls[n[2]] \in states
                             THEN {A!StateNode(cls[n[2]])}
                             ELSE {A!TermNode(u) : u \in {w \in Terms :
                                     \E i \in DOMAIN ops[w] : ops[w][i] = n}}
            BY <2>0, <3>1 DEF A!UsesMirrorOperands
        <3>3. QED BY <3>1, <3>2
    <2>2. \A w \in Terms : DOMAIN ops[w] = DOMAIN g.ops[w]
        BY <2>0 DEF A!OperandsAreQuotient
    <2>3. \A w \in Terms : \A i \in DOMAIN g.ops[w] :
             /\ g.ops[w][i] \in Terms
             /\ ops[w][i] = A!StateNode(r) <=> cls[g.ops[w][i]] = r
        <3> TAKE w \in Terms
        <3> TAKE i \in DOMAIN g.ops[w]
        <3> DEFINE y == g.ops[w][i]
        <3>1. ops[w][i] = IF cls[y] \in states THEN A!StateNode(cls[y]) ELSE A!TermNode(y)
            BY <2>0, <2>2 DEF A!OperandsAreQuotient
        <3>2. y \in Terms
            BY <2>0, GivenTypes
        <3>3. QED BY <3>1, <3>2, NodeKinds
    <2>4. Users # {} <=> \E m \in A!Class(r) : ~A!IsFinal(Terms, g, m)
        BY <2>2, <2>3 DEF A!Class, A!IsFinal, A!Uses
    <2>5. ASSUME NEW n \in A!Members(r) PROVE usedBy[n] = {A!StateNode(r)}
        <3>1. PICK m \in Terms : n = A!TermNode(m) /\ cls[m] = r
            BY <2>5 DEF A!Members, A!Class
        <3>2. n \in A!Nodes /\ ~A!IsState(n) /\ n[2] = m
            BY <3>1, NodeKinds
        <3>3. usedBy[n] = IF ~A!IsState(n) /\ cls[n[2]] \in states
                             THEN {A!StateNode(cls[n[2]])}
                             ELSE {A!TermNode(u) : u \in {w \in Terms :
                                     \E i \in DOMAIN ops[w] : ops[w][i] = n}}
            BY <2>0, <3>2 DEF A!UsesMirrorOperands
        <3>4. QED BY <3>1, <3>2, <3>3
    <2>6. ASSUME NEW u \in Terms, NEW i \in DOMAIN ops[u] PROVE ops[u][i] \notin A!Members(r)
        <3> DEFINE y == g.ops[u][i]
        <3>1. ops[u][i] = IF cls[y] \in states THEN A!StateNode(cls[y]) ELSE A!TermNode(y)
            BY <2>0, <2>6 DEF A!OperandsAreQuotient
        <3>2. y \in Terms
            BY <2>2, <2>3, <2>6
        <3>3. CASE cls[y] \in states
            <4>1. cls[y] \in Terms
                BY <2>0, <3>3 DEF A!TypeOK
            <4>2. \A m \in Terms : A!TermNode(m) # A!StateNode(cls[y])
                BY <4>1, NodeKinds
            <4>3. QED BY <3>1, <3>3, <4>2 DEF A!Members, A!Class
        <3>4. CASE cls[y] \notin states
            <4>1. \A m \in A!Class(r) : m \in Terms /\ m # y
                BY <3>4 DEF A!Class
            <4>2. \A m \in A!Class(r) : A!TermNode(m) # A!TermNode(y)
                BY <3>2, <4>1, NodeKinds
            <4>3. QED BY <3>1, <3>4, <4>2 DEF A!Members
        <3>5. QED BY <3>3, <3>4
    <2>7. QED BY <2>1, <2>4, <2>5, <2>6
<1>2. QED BY <1>1, SpliceInvariance, PTL

-----------------------------------------------------------------------------
(* The whole of main.                                                        *)
(* Nodes are the same pairs in every module. *)
LEMMA SameNodes ==
    /\ \A t : A!TermNode(t) = TermNode(t) /\ T!TermNode(t) = TermNode(t)
    /\ \A t : A!StateNode(t) = StateNode(t) /\ T!StateNode(t) = StateNode(t)
    /\ \A n : (A!IsState(n) <=> IsState(n)) /\ (T!IsState(n) <=> IsState(n))
    /\ \A t, u : TermNode(t) # StateNode(u)
    /\ \A t, u : TermNode(t) = TermNode(u) <=> t = u
    /\ \A t, u : StateNode(t) = StateNode(u) <=> t = u
    /\ \A t : ~IsState(TermNode(t)) /\ IsState(StateNode(t))
    /\ \A t : TermNode(t)[2] = t /\ StateNode(t)[2] = t
BY DEF TermNode, StateNode, IsState, A!TermNode, A!StateNode, A!IsState,
       T!TermNode, T!StateNode, T!IsState

-----------------------------------------------------------------------------
(* Training: main takes the steps of Inference and leaves its state alone    *)
(* from then on.                                                            *)
LEMMA TrainingSteps == [LNext]_lvars => [Next]_vars /\ UNCHANGED g
<1> SUFFICES ASSUME [LNext]_lvars PROVE [Next]_vars
    BY GraphKept
<1>1. CASE Train
    BY <1>1 DEF Train, Next
<1>2. CASE UNCHANGED training
    BY <1>2 DEF training, vars, closure
<1>3. QED
    BY <1>1, <1>2
       DEF LNext, LStep, StartRebuilding, VisitRoot, VisitOperand, VisitNode, StartTesting,
           VisitTest, Stop, lvars

(* Training goes on as in Inference, and what follows leaves its result alone. *)
THEOREM TrainingInvariance == LSpec => []IInv
<1>1. LInit => Init
    BY DEF LInit
<1>2. QED  BY <1>1, InitIInv, NextIInv, TrainingSteps, PTL DEF LSpec

(* The closure hands over what BuildAutomaton relies on. *)
LEMMA ClassesGiven == IInv => A!Given
<1> SUFFICES ASSUME IInv PROVE A!Given
    OBVIOUS
<1>1. CP!TypeOK /\ CP!ForestInv /\ CP!ClassesMonochrome
    BY DEF IInv, CP!IInv
<1>2. A!IsTermGraph(Terms, g)
    BY TermGraph DEF IsTermGraph, A!IsTermGraph
<1>3. \A t \in Terms : CP!Rep(t) \in Terms /\ CP!Rep(CP!Rep(t)) = CP!Rep(t)
    BY <1>1, ClosureTerms, ClosureGraphs, ClosureRequests, CP!RepProperties
<1>4. \A t \in Terms : cls[t] = CP!Rep(t)
    BY DEF cls, C!Rep, CP!Rep, C!GetRepresentative, CP!GetRepresentative
<1>5. \A t \in Terms : g.id[CP!Rep(t)] = g.id[t]
    BY <1>1, <1>3 DEF CP!ClassesMonochrome, CP!SameClass
<1>6. cls \in [Terms -> Terms]
    <2>1. cls = [t \in Terms |-> CP!Rep(t)]
        BY DEF cls, C!Rep, CP!Rep, C!GetRepresentative, CP!GetRepresentative
    <2>2. QED  BY <1>3, <2>1
<1>7. QED  BY <1>2, <1>3, <1>4, <1>5, <1>6 DEF A!Given

-----------------------------------------------------------------------------
(* Rebuilding: the graph is not touched before training is over, and from     *)
(* then on every step is one of Automaton.                                   *)
RebuildInv ==
    /\ phase \in {"train", "rebuild", "test"}
    /\ phase = "train" => A!Init
    /\ phase # "train" => SpliceInv
    /\ phase = "test" => A!Rebuilt

LEMMA InitRebuild == LInit => RebuildInv
BY DEF LInit, RebuildInv

LEMMA ClassesKept == UNCHANGED training => UNCHANGED cls
BY DEF training, vars, closure, cls, C!Rep

LEMMA RebuildStep ==
    A!Given' /\ RebuildInv /\ [LNext]_lvars => RebuildInv'
<1> SUFFICES ASSUME A!Given', RebuildInv, [LNext]_lvars PROVE RebuildInv'
    OBVIOUS
<1>1. CASE Train
    <2>1. g' = g /\ UNCHANGED <<ops, usedBy, states, rootsLeft, stack, visited, phase>>
        BY <1>1, TrainingSteps DEF Train, automaton
    <2>2. A!Init
        BY <1>1 DEF Train, RebuildInv
    <2>3. A!Init'
        BY <2>1, <2>2 DEF A!Init, A!Nodes
    <2>4. QED  BY <1>1, <2>1, <2>3 DEF Train, RebuildInv
<1>2. CASE UNCHANGED <<training, automaton>> /\ (phase = "test" \/ phase' # "test")
           /\ (phase' = phase \/ phase' = "rebuild")
    <2>1. UNCHANGED A!vars
        BY <1>2, ClassesKept DEF training, vars, closure, automaton, A!vars, A!graph
    <2>2. SpliceInv'
        BY <2>1, SpliceStarts, SpliceStep DEF RebuildInv
    <2>3. phase = "train" => A!Init'
        <3>1. UNCHANGED <<g, ops, usedBy, states, rootsLeft, stack, visited>>
            BY <1>2 DEF training, vars, closure, automaton
        <3>2. QED  BY <3>1 DEF RebuildInv, A!Init, A!Nodes
    <2>4. A!Rebuilt' <=> A!Rebuilt
        BY <1>2 DEF automaton, A!Rebuilt
    <2>5. QED  BY <1>2, <2>2, <2>3, <2>4 DEF RebuildInv
<1>3. CASE phase = "rebuild" /\ phase' = phase /\ A!Next
    <2>1. SpliceInv'
        BY <1>3, SpliceStep DEF RebuildInv
    <2>2. QED  BY <1>3, <2>1 DEF RebuildInv
<1>4. CASE StartTesting
    <2>1. UNCHANGED A!vars
        BY <1>4, ClassesKept DEF StartTesting, training, vars, closure, automaton, A!vars, A!graph
    <2>2. SpliceInv'
        BY <1>4, <2>1, SpliceStep DEF RebuildInv, StartTesting
    <2>3. A!Rebuilt'
        BY <1>4 DEF StartTesting, automaton, A!Rebuilt
    <2>4. QED  BY <1>4, <2>2, <2>3 DEF StartTesting, RebuildInv
<1>5. ASSUME NEW r \in Terms, VisitRoot(r) PROVE RebuildInv'
    BY <1>3, <1>5 DEF VisitRoot, A!Next
<1>6. CASE VisitOperand
    BY <1>3, <1>6 DEF VisitOperand, A!Next
<1>7. CASE VisitNode
    BY <1>3, <1>7 DEF VisitNode, A!Next
<1>8. ASSUME NEW t \in Terms, VisitTest(t) PROVE RebuildInv'
    BY <1>2, <1>8 DEF VisitTest
<1>9. CASE StartRebuilding
    BY <1>2, <1>9 DEF StartRebuilding
<1>10. CASE UNCHANGED lvars
    BY <1>2, <1>10 DEF lvars, RebuildInv
<1>11. QED
    BY <1>1, <1>4, <1>5, <1>6, <1>7, <1>8, <1>9, <1>10 DEF LNext, LStep, Stop

(* The walk starts from what the closure left, and goes on as in Automaton. *)
THEOREM RebuildInvariance == LSpec => [](RebuildInv /\ SpliceInv)
<1>1. RebuildInv => SpliceInv
    BY SpliceStarts DEF RebuildInv
<1>2. QED
    BY <1>1, TrainingInvariance, ClassesGiven, InitRebuild, RebuildStep, PTL DEF LSpec

(* Until main ends only k-roots are identified (SDGInference.cpp:236). *)
THEOREM LearnerMergesKRoots == LSpec => []OnlyKRootsMerged
BY TrainingInvariance, MergedAreKRoots, PTL

(* The assertion of SDGInference.cpp:237, for the whole of main. *)
THEOREM LearnerMergesDeepTerms == LSpec => []MergedAreDeep
BY TrainingInvariance, RequestsAreDeep, PTL

(* On a layered graph the classes the automaton is built from are exactly the  *)
(* k-root classes, whatever the order of any hash table (SDGInference.cpp:   *)
(* 211-253).                                                                *)
THEOREM LearnerIsExact == LSpec => []ExactIfLayered
<1>1. LInit => Init
    BY DEF LInit
<1>2. LSpec => []LayeredInv
    BY <1>1, InitLayeredInv, NextLayeredInv, TrainingInvariance, TrainingSteps, PTL DEF LSpec
<1>3. QED  BY <1>2, TrainingInvariance, LayeredIsExact, PTL

(* For the classes training really computes the graph is the one read from   *)
(* the training set with the spliced classes replaced.                      *)
THEOREM LearnerGraphIsQuotient == LSpec => []OperandsAreQuotient
<1>1. SpliceInv => OperandsAreQuotient
    BY DEF SpliceInv, OperandsAreQuotient
<1>2. QED  BY <1>1, RebuildInvariance, PTL

(* The uses the acceptor climbs are the inverse of the operands.             *)
THEOREM LearnerUsesAreMirrored == LSpec => []UsesMirrorOperands
<1>1. SpliceInv => UsesMirrorOperands
    BY DEF SpliceInv, UsesMirrorOperands
<1>2. QED  BY <1>1, RebuildInvariance, PTL

(* No root is reached from another one, through states or not. *)
THEOREM LearnerRootsVisitedOnce == LSpec => []RootsVisitedOnce
<1>1. SpliceInv => RootsVisitedOnce
    BY DEF SpliceInv, MarksInv, RootsVisitedOnce
<1>2. QED  BY <1>1, RebuildInvariance, PTL

-----------------------------------------------------------------------------
(* What the acceptor works on: a graph over the signature of the training    *)
(* set, and the spliced training set.                                       *)
Accepting ==
    /\ IsTermGraph(Terms, g)
    /\ IsTermGraph(Terms, test)
    /\ SameSignature(test)
    /\ SpliceInv

(* What stands for a term where it is an operand. *)
NodeOf(x) == IF cls[x] \in states THEN StateNode(cls[x]) ELSE TermNode(x)

LEMMA NodesDiffer ==
    ASSUME Accepting, NEW x \in Terms, NEW y \in Terms
    PROVE  /\ NodeOf(x) = NodeOf(y) => cls[x] = cls[y]
           /\ cls[x] = cls[y] /\ cls[x] \in states => NodeOf(x) = NodeOf(y)
           /\ IsState(NodeOf(x)) <=> cls[x] \in states
           /\ ~IsState(NodeOf(x)) => NodeOf(x) = TermNode(x) /\ NodeOf(x)[2] = x
BY SameNodes DEF NodeOf

LEMMA SplicedOperands ==
    ASSUME Accepting, NEW u \in Terms
    PROVE  /\ DOMAIN ops[u] = DOMAIN g.ops[u]
           /\ \A i \in DOMAIN g.ops[u] : /\ g.ops[u][i] \in Terms
                                         /\ ops[u][i] = NodeOf(g.ops[u][i])
<1>1. A!OperandsAreQuotient
    BY DEF Accepting, SpliceInv
<1>2. DOMAIN ops[u] = DOMAIN g.ops[u]
    BY <1>1 DEF A!OperandsAreQuotient
<1>3. \A i \in DOMAIN g.ops[u] : ops[u][i] = NodeOf(g.ops[u][i])
    BY <1>1, <1>2, SameNodes DEF A!OperandsAreQuotient, NodeOf
<1>4. \A i \in DOMAIN g.ops[u] : g.ops[u][i] \in Terms
    BY OperandsAre DEF Accepting
<1>5. QED  BY <1>2, <1>3, <1>4

(* Collect finds the terms that have what stands for m as operand i: climbing *)
(* through a state leads to its users, and a spliced member has no other use. *)
LEMMA CollectFinds ==
    ASSUME Accepting, NEW m \in Terms, NEW id, NEW u \in Terms, NEW i \in DOMAIN g.ops[u]
    PROVE  u \in T!Collect(m, id, i) <=> g.id[u] = id /\ NodeOf(g.ops[u][i]) = NodeOf(m)
<1> DEFINE Has(n) == {w \in Terms : \E j \in DOMAIN ops[w] : ops[w][j] = n}
           Users(n) == {w \in Terms : TermNode(w) \in usedBy[n] /\ g.id[w] = id /\ ops[w][i] = n}
           x == g.ops[u][i]
<1>1. u \in Terms /\ i \in DOMAIN ops[u] /\ x \in Terms /\ ops[u][i] = NodeOf(x)
    BY SplicedOperands
<1>2. A!UsesMirrorOperands
    BY DEF Accepting, SpliceInv
<1>3. \A t \in Terms : TermNode(t) \in A!Nodes /\ StateNode(t) \in A!Nodes
    BY SameNodes DEF A!Nodes
<1>4. \A t \in Terms :
         /\ usedBy[TermNode(t)] = IF cls[t] \in states THEN {StateNode(cls[t])}
                                  ELSE {TermNode(w) : w \in Has(TermNode(t))}
         /\ usedBy[StateNode(t)] = {TermNode(w) : w \in Has(StateNode(t))}
    <2>1. \A n \in A!Nodes :
             usedBy[n] = IF ~IsState(n) /\ cls[n[2]] \in states
                            THEN {StateNode(cls[n[2]])}
                            ELSE {TermNode(w) : w \in Has(n)}
        BY <1>2 DEF A!UsesMirrorOperands, A!TermNode, A!StateNode, A!IsState,
                    TermNode, StateNode, IsState
    <2> HIDE DEF Has
    <2>2. ASSUME NEW t \in Terms
          PROVE usedBy[TermNode(t)] = IF cls[t] \in states THEN {StateNode(cls[t])}
                                      ELSE {TermNode(w) : w \in Has(TermNode(t))}
        <3>1. ~IsState(TermNode(t)) /\ TermNode(t)[2] = t
            BY SameNodes
        <3>2. QED  BY <1>3, <2>1, <3>1
    <2>3. ASSUME NEW t \in Terms
          PROVE usedBy[StateNode(t)] = {TermNode(w) : w \in Has(StateNode(t))}
        <3>1. IsState(StateNode(t))
            BY SameNodes
        <3>2. QED  BY <1>3, <2>1, <3>1
    <2>4. QED  BY <2>2, <2>3
<1>5. T!Collect(m, id, i)
         = Users(TermNode(m)) \cup UNION {Users(s) : s \in {n \in usedBy[TermNode(m)] : IsState(n)}}
    BY SameNodes DEF T!Collect
<1>6. \A n : n \in {TermNode(m), StateNode(cls[m])} =>
                (u \in {w \in Terms : TermNode(w) \in {TermNode(v) : v \in Has(n)}
                                      /\ g.id[w] = id /\ ops[w][i] = n}
                   <=> g.id[u] = id /\ ops[u][i] = n)
    BY <1>1
<1>7. CASE cls[m] \in states
    <2>1. NodeOf(m) = StateNode(cls[m]) /\ usedBy[TermNode(m)] = {StateNode(cls[m])}
        BY <1>4, <1>7 DEF NodeOf
    <2>2. \A w : TermNode(w) # StateNode(cls[m])
        BY SameNodes
    <2>3. Users(TermNode(m)) = {}
        BY <2>1, <2>2
    <2>4. {n \in usedBy[TermNode(m)] : IsState(n)} = {StateNode(cls[m])}
        BY <2>1, SameNodes
    <2>5. cls[m] \in Terms
        BY <1>7 DEF Accepting, SpliceInv, A!TypeOK
    <2>6. usedBy[StateNode(cls[m])] = {TermNode(w) : w \in Has(StateNode(cls[m]))}
        BY <1>4, <2>5
    <2>7. u \in Users(StateNode(cls[m])) <=> g.id[u] = id /\ ops[u][i] = StateNode(cls[m])
        BY <1>6, <2>6
    <2> HIDE DEF Users
    <2>8. T!Collect(m, id, i) = Users(StateNode(cls[m]))
        BY <1>5, <2>3, <2>4
    <2>9. QED  BY <1>1, <2>1, <2>7, <2>8
<1>8. CASE cls[m] \notin states
    <2>1. NodeOf(m) = TermNode(m)
          /\ usedBy[TermNode(m)] = {TermNode(w) : w \in Has(TermNode(m))}
        BY <1>4, <1>8 DEF NodeOf
    <2>2. {n \in usedBy[TermNode(m)] : IsState(n)} = {}
        BY <2>1, SameNodes
    <2>3. u \in Users(TermNode(m)) <=> g.id[u] = id /\ ops[u][i] = TermNode(m)
        BY <1>6, <2>1
    <2> HIDE DEF Users
    <2>4. T!Collect(m, id, i) = Users(TermNode(m))
        BY <1>5, <2>2
    <2>5. QED  BY <1>1, <2>1, <2>3, <2>4
<1>9. QED  BY <1>7, <1>8

LEMMA CollectKeepsSymbol ==
    ASSUME NEW m, NEW id, NEW i, NEW u \in T!Collect(m, id, i)
    PROVE  u \in Terms /\ g.id[u] = id
BY DEF T!Collect

-----------------------------------------------------------------------------
(* The recursive definitions of the acceptor follow the test graph down, so   *)
(* they have solutions and satisfy their equations.                          *)
EqualBody(eq, t, u) ==
    /\ test.id[t] = g.id[u]
    /\ \A i \in DOMAIN test.ops[t] :
          /\ ~IsState(ops[u][i])
          /\ eq[<<test.ops[t][i], ops[u][i][2]>>]

(* Terms with one symbol have the same operand positions. *)
LEMMA SamePositions ==
    ASSUME Accepting, NEW t \in Terms, NEW u \in Terms, test.id[t] = g.id[u]
    PROVE  /\ DOMAIN test.ops[t] = DOMAIN g.ops[u]
           /\ test.ops[t] \in Seq(Terms) /\ g.ops[u] \in Seq(Terms)
           /\ Len(test.ops[t]) = Len(g.ops[u])
<1>1. Len(test.ops[t]) = Len(g.ops[u])
    BY DEF Accepting, SameSignature
<1>2. /\ test.ops[t] \in Seq(Terms) /\ DOMAIN test.ops[t] = 1 .. Len(test.ops[t])
      /\ g.ops[u] \in Seq(Terms) /\ DOMAIN g.ops[u] = 1 .. Len(g.ops[u])
    BY OperandsAre DEF Accepting
<1>3. QED  BY <1>1, <1>2

LEMMA TestOperands ==
    ASSUME Accepting, NEW t \in Terms
    PROVE  /\ test.depth \in [Terms -> Nat]
           /\ \A i \in DOMAIN test.ops[t] : /\ test.ops[t][i] \in Terms
                                            /\ test.depth[test.ops[t][i]] < test.depth[t]
<1>1. IsTermGraph(Terms, test)
    BY DEF Accepting
<1>2. QED  BY <1>1, OperandsAre DEF IsTermGraph

LEMMA EqualDefined ==
    ASSUME Accepting
    PROVE  /\ T!Equal = [p \in Terms \X Terms |-> EqualBody(T!Equal, p[1], p[2])]
           /\ \A t, u \in Terms : T!Equal[<<t, u>>] <=> EqualBody(T!Equal, t, u)
<1> DEFINE Pairs == Terms \X Terms
           B == BOOLEAN
           value(f, p) == EqualBody(f, p[1], p[2])
           body == [p \in Pairs |-> [f \in [Pairs -> B] |-> value(f, p)]]
           depth == [p \in Pairs |-> test.depth[p[1]]]
           IsEq(eq) == eq = [p \in Terms \X Terms |-> value(eq, p)]
<1>1. \A f, p : value(f, p) \in B
    BY DEF EqualBody
<1>2. ASSUME NEW p \in Pairs, NEW f, NEW h,
             \A r \in Pairs : depth[r] < depth[p] => f[r] = h[r]
      PROVE  value(f, p) = value(h, p)
    <2>1. p[1] \in Terms /\ p[2] \in Terms
        OBVIOUS
    <2>2. CASE test.id[p[1]] = g.id[p[2]]
        <3>1. ASSUME NEW i \in DOMAIN test.ops[p[1]], ~IsState(ops[p[2]][i])
              PROVE  f[<<test.ops[p[1]][i], ops[p[2]][i][2]>>]
                        = h[<<test.ops[p[1]][i], ops[p[2]][i][2]>>]
            <4>1. i \in DOMAIN g.ops[p[2]]
                BY <2>1, <2>2, SamePositions
            <4>2. ops[p[2]][i] = NodeOf(g.ops[p[2]][i]) /\ g.ops[p[2]][i] \in Terms
                BY <2>1, <4>1, SplicedOperands
            <4>3. ops[p[2]][i][2] \in Terms
                BY <3>1, <4>2, NodesDiffer
            <4>4. test.ops[p[1]][i] \in Terms
                  /\ test.depth[test.ops[p[1]][i]] < test.depth[p[1]]
                BY <2>1, TestOperands
            <4>5. <<test.ops[p[1]][i], ops[p[2]][i][2]>> \in Pairs
                  /\ depth[<<test.ops[p[1]][i], ops[p[2]][i][2]>>] < depth[p]
                BY <4>3, <4>4
            <4>6. QED  BY <1>2, <4>5
        <3>2. EqualBody(f, p[1], p[2]) <=> EqualBody(h, p[1], p[2])
            BY <3>1 DEF EqualBody
        <3>3. QED  BY <3>2 DEF EqualBody
    <2>3. CASE test.id[p[1]] # g.id[p[2]]
        BY <2>3 DEF EqualBody
    <2>4. QED  BY <2>2, <2>3
<1>3. B # {}
    OBVIOUS
<1>4. depth \in [Pairs -> Nat]
    BY TestOperands
<1>5. \E eq \in [Pairs -> B] : \A p \in Pairs : eq[p] = value(eq, p)
    <2> HIDE DEF Pairs, B, value, depth
    <2>1. /\ body \in [Pairs -> [[Pairs -> B] -> B]]
          /\ \A p \in Pairs : \A f \in [Pairs -> B] : body[p][f] = value(f, p)
        BY <1>1
    <2> HIDE DEF body
    <2>2. IsRecursion(Pairs, B, depth, body)
        <3>1. ASSUME NEW p \in Pairs, NEW f \in [Pairs -> B], NEW h \in [Pairs -> B],
                     \A r \in Pairs : depth[r] < depth[p] => f[r] = h[r]
              PROVE  body[p][f] = body[p][h]
            <4>1. value(f, p) = value(h, p)
                BY <1>2, <3>1
            <4>2. QED  BY <2>1, <4>1
        <3>2. QED  BY <1>3, <1>4, <2>1, <3>1 DEF IsRecursion
    <2>3. HasSolution(Pairs, B, body)
        BY <2>2, DepthRecursion
    <2>4. QED  BY <2>1, <2>3 DEF HasSolution
<1>6. PICK eq : IsEq(eq)
    <2> HIDE DEF value
    <2>1. QED  BY <1>5
<1>7. T!Equal = CHOOSE e : IsEq(e)
    BY DEF T!Equal, EqualBody, T!IsState, IsState
<1>8. IsEq(T!Equal)
    BY <1>6, <1>7
<1> DEFINE Eq == T!Equal
<1> HIDE DEF Eq
<1>9. Eq = [p \in Terms \X Terms |-> EqualBody(Eq, p[1], p[2])]
    BY <1>8 DEF Eq
<1>10. SUFFICES ASSUME NEW t \in Terms, NEW u \in Terms
                PROVE  Eq[<<t, u>>] <=> EqualBody(Eq, t, u)
    BY <1>9 DEF Eq
<1>11. Eq[<<t, u>>] = EqualBody(Eq, t, u)
    <2>1. <<t, u>> \in Terms \X Terms
        OBVIOUS
    <2>2. QED  BY <1>9, <2>1
<1>12. QED  BY <1>11

(* A definition of sets of terms that looks at the operands of a test term    *)
(* only has a solution.                                                     *)
IsTestRecursion(body) ==
    /\ body \in [Terms -> [[Terms -> SUBSET Terms] -> SUBSET Terms]]
    /\ \A t \in Terms : \A f, h \in [Terms -> SUBSET Terms] :
          (\A i \in DOMAIN test.ops[t] : f[test.ops[t][i]] = h[test.ops[t][i]])
             => body[t][f] = body[t][h]

LEMMA TestRecursion ==
    ASSUME Accepting, NEW body, IsTestRecursion(body)
    PROVE  HasSolution(Terms, SUBSET Terms, body)
<1> DEFINE V == SUBSET Terms
<1>1. V # {} /\ test.depth \in [Terms -> Nat]
    <2>1. test.depth \in [Terms -> Nat]
        BY DEF Accepting, IsTermGraph
    <2>2. QED  BY <2>1
<1>2. ASSUME NEW t \in Terms, NEW f \in [Terms -> V], NEW h \in [Terms -> V],
             \A r \in Terms : test.depth[r] < test.depth[t] => f[r] = h[r]
      PROVE  body[t][f] = body[t][h]
    <2>1. \A i \in DOMAIN test.ops[t] : f[test.ops[t][i]] = h[test.ops[t][i]]
        BY <1>2, TestOperands
    <2>2. QED  BY <2>1 DEF IsTestRecursion
<1>3. body \in [Terms -> [[Terms -> V] -> V]]
    BY DEF IsTestRecursion
<1> HIDE DEF V
<1>4. IsRecursion(Terms, V, test.depth, body)
    BY <1>1, <1>2, <1>3 DEF IsRecursion
<1>5. QED  BY <1>4, DepthRecursion DEF V

Exact(t) == {u \in Terms : T!Equal[<<t, u>>]}

MatchBody(match, t) ==
    IF Exact(t) # {} THEN Exact(t)
    ELSE IF test.ops[t] = << >> THEN {}
    ELSE {u \in Terms : \A i \in DOMAIN test.ops[t] :
             \E x \in match[test.ops[t][i]] : u \in T!Collect(x, test.id[t], i)}

LEMMA MatchDefined ==
    ASSUME Accepting
    PROVE  /\ T!Match \in [Terms -> SUBSET Terms]
           /\ \A t \in Terms : T!Match[t] = MatchBody(T!Match, t)
<1> DEFINE V == SUBSET Terms
           body == [t \in Terms |-> [f \in [Terms -> V] |-> MatchBody(f, t)]]
           IsMatch(f) == f = [t \in Terms |-> MatchBody(f, t)]
<1>1. \A f, t : MatchBody(f, t) \in V
    BY DEF MatchBody, Exact
<1>2. ASSUME NEW t \in Terms, NEW f, NEW h,
             \A i \in DOMAIN test.ops[t] : f[test.ops[t][i]] = h[test.ops[t][i]]
      PROVE  MatchBody(f, t) = MatchBody(h, t)
    BY <1>2 DEF MatchBody
<1>3. \E f \in [Terms -> V] : \A t \in Terms : f[t] = MatchBody(f, t)
    <2> HIDE DEF V
    <2>1. /\ body \in [Terms -> [[Terms -> V] -> V]]
          /\ \A t \in Terms : \A f \in [Terms -> V] : body[t][f] = MatchBody(f, t)
        BY <1>1
    <2> HIDE DEF body
    <2>2. IsTestRecursion(body)
        <3>1. ASSUME NEW t \in Terms, NEW f \in [Terms -> V], NEW h \in [Terms -> V],
                     \A i \in DOMAIN test.ops[t] : f[test.ops[t][i]] = h[test.ops[t][i]]
              PROVE  body[t][f] = body[t][h]
            <4>1. MatchBody(f, t) = MatchBody(h, t)
                BY <1>2, <3>1
            <4>2. QED  BY <2>1, <3>1, <4>1
        <3>2. QED  BY <2>1, <3>1 DEF IsTestRecursion, V
    <2>3. QED  BY <2>1, <2>2, TestRecursion DEF HasSolution, V
<1>4. PICK m : IsMatch(m)
    BY <1>3
<1>5. T!Match = CHOOSE f : IsMatch(f)
    BY DEF T!Match, MatchBody, Exact
<1>6. IsMatch(T!Match)
    BY <1>4, <1>5
<1> DEFINE M == T!Match
<1> HIDE DEF M
<1>7. M = [t \in Terms |-> MatchBody(M, t)]
    BY <1>6 DEF M
<1>8. M \in [Terms -> V] /\ \A t \in Terms : M[t] = MatchBody(M, t)
    BY <1>1, <1>7
<1>9. QED  BY <1>8 DEF M

QuotientBody(m, t) ==
    {u \in Terms :
        /\ g.id[u] = test.id[t]
        /\ \A i \in DOMAIN test.ops[t] :
              \E v \in m[test.ops[t][i]] : cls[v] = cls[g.ops[u][i]]}

LEMMA QuotientDefined ==
    ASSUME Accepting
    PROVE  /\ QuotientMatch \in [Terms -> SUBSET Terms]
           /\ \A t \in Terms : QuotientMatch[t] = QuotientBody(QuotientMatch, t)
<1> DEFINE V == SUBSET Terms
           body == [t \in Terms |-> [f \in [Terms -> V] |-> QuotientBody(f, t)]]
           IsQuotient(f) == f = [t \in Terms |-> QuotientBody(f, t)]
<1>1. \A f, t : QuotientBody(f, t) \in V
    BY DEF QuotientBody
<1>2. ASSUME NEW t \in Terms, NEW f, NEW h,
             \A i \in DOMAIN test.ops[t] : f[test.ops[t][i]] = h[test.ops[t][i]]
      PROVE  QuotientBody(f, t) = QuotientBody(h, t)
    BY <1>2 DEF QuotientBody
<1>3. \E f \in [Terms -> V] : \A t \in Terms : f[t] = QuotientBody(f, t)
    <2> HIDE DEF V
    <2>1. /\ body \in [Terms -> [[Terms -> V] -> V]]
          /\ \A t \in Terms : \A f \in [Terms -> V] : body[t][f] = QuotientBody(f, t)
        BY <1>1
    <2> HIDE DEF body
    <2>2. IsTestRecursion(body)
        <3>1. ASSUME NEW t \in Terms, NEW f \in [Terms -> V], NEW h \in [Terms -> V],
                     \A i \in DOMAIN test.ops[t] : f[test.ops[t][i]] = h[test.ops[t][i]]
              PROVE  body[t][f] = body[t][h]
            <4>1. QuotientBody(f, t) = QuotientBody(h, t)
                BY <1>2, <3>1
            <4>2. QED  BY <2>1, <3>1, <4>1
        <3>2. QED  BY <2>1, <3>1 DEF IsTestRecursion, V
    <2>3. QED  BY <2>1, <2>2, TestRecursion DEF HasSolution, V
<1>4. PICK m : IsQuotient(m)
    BY <1>3
<1>5. QuotientMatch = CHOOSE f : IsQuotient(f)
    BY DEF QuotientMatch, QuotientBody
<1>6. IsQuotient(QuotientMatch)
    BY <1>4, <1>5
<1> DEFINE M == QuotientMatch
<1> HIDE DEF M
<1>7. M = [t \in Terms |-> QuotientBody(M, t)]
    BY <1>6 DEF M
<1>8. M \in [Terms -> V] /\ \A t \in Terms : M[t] = QuotientBody(M, t)
    BY <1>1, <1>7
<1>9. QED  BY <1>8 DEF M

-----------------------------------------------------------------------------
(* Exact matches.  Equal follows operands that are terms, one for one. *)
LEMMA EqualStep ==
    ASSUME Accepting, NEW t \in Terms, NEW u \in Terms
    PROVE  T!Equal[<<t, u>>]
              <=> /\ test.id[t] = g.id[u]
                  /\ \A i \in DOMAIN test.ops[t] :
                        /\ cls[g.ops[u][i]] \notin states
                        /\ T!Equal[<<test.ops[t][i], g.ops[u][i]>>]
<1> DEFINE Eq == T!Equal
<1>1. Eq[<<t, u>>] <=> EqualBody(Eq, t, u)
    BY EqualDefined
<1> HIDE DEF Eq
<1>2. CASE test.id[t] = g.id[u]
    <2>1. ASSUME NEW i \in DOMAIN test.ops[t]
          PROVE  /\ g.ops[u][i] \in Terms
                 /\ IsState(ops[u][i]) <=> cls[g.ops[u][i]] \in states
                 /\ ~IsState(ops[u][i]) => ops[u][i][2] = g.ops[u][i]
        <3>1. i \in DOMAIN g.ops[u]
            BY <1>2, SamePositions
        <3>2. g.ops[u][i] \in Terms /\ ops[u][i] = NodeOf(g.ops[u][i])
            BY <3>1, SplicedOperands
        <3>3. QED  BY <3>2, NodesDiffer
    <2>2. EqualBody(Eq, t, u)
             <=> \A i \in DOMAIN test.ops[t] :
                    /\ cls[g.ops[u][i]] \notin states
                    /\ Eq[<<test.ops[t][i], g.ops[u][i]>>]
        BY <1>2, <2>1 DEF EqualBody
    <2>3. QED  BY <1>1, <1>2, <2>2 DEF Eq
<1>3. CASE test.id[t] # g.id[u]
    BY <1>1, <1>3 DEF EqualBody, Eq
<1>4. QED  BY <1>2, <1>3

(* Training terms with one symbol and the same operands are one term. *)
LEMMA HashConsed ==
    ASSUME Accepting, NEW u \in Terms, NEW w \in Terms, g.id[u] = g.id[w],
           \A i \in DOMAIN g.ops[u] : g.ops[u][i] = g.ops[w][i]
    PROVE  u = w
<1>1. IsTermGraph(Terms, g)
    BY DEF Accepting
<1>2. Len(g.ops[u]) = Len(g.ops[w])
    BY <1>1 DEF IsTermGraph
<1>3. /\ g.ops[u] \in Seq(Terms) /\ DOMAIN g.ops[u] = 1 .. Len(g.ops[u])
      /\ g.ops[w] \in Seq(Terms) /\ DOMAIN g.ops[w] = 1 .. Len(g.ops[w])
    BY <1>1, OperandsAre
<1>4. g.ops[u] = g.ops[w]
    BY <1>2, <1>3, SeqEqual
<1>5. QED  BY <1>1, <1>4 DEF IsTermGraph

(* Induction on a test term: what holds of its operands holds of it.          *)
LEMMA TestInduction ==
    ASSUME Accepting, NEW P,
           \A t \in Terms : (\A i \in DOMAIN test.ops[t] : test.ops[t][i] \in P) => t \in P
    PROVE  Terms \subseteq P
<1>1. ASSUME NEW t \in Terms, \A r \in Terms : test.depth[r] < test.depth[t] => r \in P
      PROVE  t \in P
    BY <1>1, TestOperands
<1>2. test.depth \in [Terms -> Nat]
    BY DEF Accepting, IsTermGraph
<1>3. QED  BY <1>1, <1>2, DepthInduction

LEMMA ExactIsUnique ==
    ASSUME Accepting
    PROVE  \A t, u, w \in Terms : T!Equal[<<t, u>>] /\ T!Equal[<<t, w>>] => u = w
<1> DEFINE P == {t \in Terms : \A u, w \in Terms :
                    T!Equal[<<t, u>>] /\ T!Equal[<<t, w>>] => u = w}
<1>1. ASSUME NEW t \in Terms, \A i \in DOMAIN test.ops[t] : test.ops[t][i] \in P
      PROVE  t \in P
    <2> SUFFICES ASSUME NEW u \in Terms, NEW w \in Terms,
                        T!Equal[<<t, u>>], T!Equal[<<t, w>>]
                 PROVE  u = w
        OBVIOUS
    <2>1. /\ test.id[t] = g.id[u] /\ test.id[t] = g.id[w]
          /\ \A i \in DOMAIN test.ops[t] : /\ T!Equal[<<test.ops[t][i], g.ops[u][i]>>]
                                           /\ T!Equal[<<test.ops[t][i], g.ops[w][i]>>]
        BY EqualStep
    <2>2. DOMAIN test.ops[t] = DOMAIN g.ops[u] /\ DOMAIN test.ops[t] = DOMAIN g.ops[w]
        BY <2>1, SamePositions
    <2>3. \A i \in DOMAIN g.ops[u] : g.ops[u][i] \in Terms /\ g.ops[w][i] \in Terms
        BY <2>2, SplicedOperands
    <2>4. \A i \in DOMAIN g.ops[u] : g.ops[u][i] = g.ops[w][i]
        BY <1>1, <2>1, <2>2, <2>3
    <2>5. QED  BY <2>1, <2>4, HashConsed
<1>2. Terms \subseteq P
    <2> HIDE DEF P
    <2>1. QED  BY <1>1, TestInduction
<1>3. QED  BY <1>2

(* An exact match is a match over the classes. *)
LEMMA ExactIsQuotient ==
    ASSUME Accepting
    PROVE  \A t, u \in Terms : T!Equal[<<t, u>>] => u \in QuotientMatch[t]
<1> DEFINE M == QuotientMatch
           P == {t \in Terms : \A u \in Terms : T!Equal[<<t, u>>] => u \in M[t]}
<1>0. \A t \in Terms : M[t] = QuotientBody(M, t)
    BY QuotientDefined
<1> HIDE DEF M
<1>1. ASSUME NEW t \in Terms, \A i \in DOMAIN test.ops[t] : test.ops[t][i] \in P
      PROVE  t \in P
    <2> SUFFICES ASSUME NEW u \in Terms, T!Equal[<<t, u>>]
                 PROVE  u \in M[t]
        OBVIOUS
    <2>1. /\ test.id[t] = g.id[u]
          /\ \A i \in DOMAIN test.ops[t] : T!Equal[<<test.ops[t][i], g.ops[u][i]>>]
        BY EqualStep
    <2>2. \A i \in DOMAIN test.ops[t] : g.ops[u][i] \in Terms
        BY <2>1, SamePositions, SplicedOperands
    <2>3. \A i \in DOMAIN test.ops[t] : g.ops[u][i] \in M[test.ops[t][i]]
        BY <1>1, <2>1, <2>2
    <2>4. QED  BY <1>0, <2>1, <2>3 DEF QuotientBody
<1>2. Terms \subseteq P
    <2> HIDE DEF P
    <2>1. QED  BY <1>1, TestInduction
<1>3. QED  BY <1>2 DEF M

-----------------------------------------------------------------------------
(* The acceptor against the classes. *)
LEMMA MatchSound ==
    ASSUME Accepting
    PROVE  \A t \in Terms : T!Match[t] \subseteq QuotientMatch[t]
<1> DEFINE Q == QuotientMatch
           M == T!Match
           P == {t \in Terms : M[t] \subseteq Q[t]}
<1>0. /\ \A t \in Terms : Q[t] = QuotientBody(Q, t)
      /\ \A t \in Terms : M[t] = MatchBody(M, t)
      /\ M \in [Terms -> SUBSET Terms]
      /\ \A t, u \in Terms : T!Equal[<<t, u>>] => u \in Q[t]
    BY QuotientDefined, MatchDefined, ExactIsQuotient
<1> HIDE DEF Q, M
<1>1. ASSUME NEW t \in Terms, \A i \in DOMAIN test.ops[t] : test.ops[t][i] \in P
      PROVE  t \in P
    <2> SUFFICES ASSUME NEW u \in M[t]
                 PROVE  u \in Q[t]
        OBVIOUS
    <2>1. u \in MatchBody(M, t) /\ u \in Terms
        BY <1>0
    <2>2. CASE Exact(t) # {}
        BY <1>0, <2>1, <2>2 DEF MatchBody, Exact
    <2>3. CASE Exact(t) = {}
        <3>1. /\ test.ops[t] # << >>
              /\ \A i \in DOMAIN test.ops[t] :
                    \E x \in M[test.ops[t][i]] : u \in T!Collect(x, test.id[t], i)
            BY <2>1, <2>3 DEF MatchBody
        <3>2. 1 \in DOMAIN test.ops[t]
            <4>1. test.ops[t] \in Seq(Terms)
                BY DEF Accepting, IsTermGraph
            <4>2. QED  BY <3>1, <4>1
        <3>3. g.id[u] = test.id[t]
            BY <3>1, <3>2, CollectKeepsSymbol
        <3>4. ASSUME NEW i \in DOMAIN test.ops[t]
              PROVE  \E v \in Q[test.ops[t][i]] : cls[v] = cls[g.ops[u][i]]
            <4>1. PICK x \in M[test.ops[t][i]] : u \in T!Collect(x, test.id[t], i)
                BY <3>1
            <4>2. test.ops[t][i] \in Terms /\ x \in Terms /\ x \in Q[test.ops[t][i]]
                BY <1>0, <1>1, <4>1
            <4>3. i \in DOMAIN g.ops[u] /\ g.ops[u][i] \in Terms
                BY <2>1, <3>3, SamePositions, SplicedOperands
            <4>4. NodeOf(g.ops[u][i]) = NodeOf(x)
                BY <2>1, <4>1, <4>2, <4>3, CollectFinds
            <4>5. cls[x] = cls[g.ops[u][i]]
                BY <4>2, <4>3, <4>4, NodesDiffer
            <4>6. QED  BY <4>2, <4>5
        <3>5. QED  BY <1>0, <2>1, <3>3, <3>4 DEF QuotientBody
    <2>4. QED  BY <2>2, <2>3
<1>2. Terms \subseteq P
    <2> HIDE DEF P
    <2>1. QED  BY <1>1, TestInduction
<1>3. QED  BY <1>2 DEF Q, M

(* Two terms of one class have a state, if every class has. *)
LEMMA SharedClass ==
    ASSUME A!Rebuilt, A!ClassesHaveStates, NEW x \in Terms, NEW y \in Terms,
           cls[x] = cls[y], x # y, cls[x] \in Terms, cls[cls[x]] = cls[x]
    PROVE  cls[x] \in states
<1> DEFINE S == A!Class(cls[x])
<1>1. x \in S /\ y \in S /\ S \subseteq Terms
    BY DEF A!Class
<1>2. IsFiniteSet(S)
    BY <1>1, TermsAssumption, FS_Subset
<1>3. \A R : A!Cardinality(R) = Cardinality(R)
    BY DEF A!Cardinality, Cardinality, A!IsFiniteSet, IsFiniteSet
<1> HIDE DEF S
<1>4. Cardinality({x, y}) = 2
    <2>1. {x, y} = {x} \cup {y} /\ y \notin {x}
        OBVIOUS
    <2>2. IsFiniteSet({x}) /\ Cardinality({x}) = 1
        BY FS_Singleton
    <2>3. \A R : IsFiniteSet(R) /\ y \notin R => Cardinality(R \cup {y}) = Cardinality(R) + 1
        BY FS_AddElement
    <2>4. Cardinality({x} \cup {y}) = 1 + 1
        BY <2>1, <2>2, <2>3
    <2>5. QED  BY <2>1, <2>4
<1>5. Cardinality(S) > 1
    <2>1. {x, y} \in SUBSET S
        BY <1>1
    <2>2. Cardinality({x, y}) <= Cardinality(S) /\ Cardinality(S) \in Nat
        BY <1>2, <2>1, FS_Subset, FS_CardinalityType
    <2>3. QED  BY <1>4, <2>2
<1>6. QED  BY <1>3, <1>5 DEF A!ClassesHaveStates, S

LEMMA ClassTypes ==
    ASSUME Accepting, NEW t \in Terms
    PROVE  cls[t] \in Terms /\ cls[cls[t]] = cls[t]
BY DEF Accepting, SpliceInv, A!Given

(* Then an exact match is the only match over the classes, ... *)
LEMMA ExactIsAll ==
    ASSUME Accepting, A!Rebuilt, A!ClassesHaveStates
    PROVE  \A t, u, w \in Terms : T!Equal[<<t, w>>] /\ u \in QuotientMatch[t] => u = w
<1> DEFINE Q == QuotientMatch
           P == {t \in Terms : \A u, w \in Terms : T!Equal[<<t, w>>] /\ u \in Q[t] => u = w}
<1>0. /\ \A t \in Terms : Q[t] = QuotientBody(Q, t)
      /\ Q \in [Terms -> SUBSET Terms]
    BY QuotientDefined
<1> HIDE DEF Q
<1>1. ASSUME NEW t \in Terms, \A i \in DOMAIN test.ops[t] : test.ops[t][i] \in P
      PROVE  t \in P
    <2> SUFFICES ASSUME NEW u \in Terms, NEW w \in Terms, T!Equal[<<t, w>>], u \in Q[t]
                 PROVE  u = w
        OBVIOUS
    <2>1. /\ test.id[t] = g.id[w]
          /\ \A i \in DOMAIN test.ops[t] : /\ cls[g.ops[w][i]] \notin states
                                           /\ T!Equal[<<test.ops[t][i], g.ops[w][i]>>]
        BY EqualStep
    <2>2. /\ g.id[u] = test.id[t]
          /\ \A i \in DOMAIN test.ops[t] :
                \E v \in Q[test.ops[t][i]] : cls[v] = cls[g.ops[u][i]]
        BY <1>0 DEF QuotientBody
    <2>3. DOMAIN test.ops[t] = DOMAIN g.ops[u] /\ DOMAIN test.ops[t] = DOMAIN g.ops[w]
        BY <2>1, <2>2, SamePositions
    <2>4. ASSUME NEW i \in DOMAIN g.ops[u] PROVE g.ops[u][i] = g.ops[w][i]
        <3>1. g.ops[u][i] \in Terms /\ g.ops[w][i] \in Terms /\ test.ops[t][i] \in P
            BY <1>1, <2>3, SplicedOperands
        <3>2. PICK v \in Q[test.ops[t][i]] : cls[v] = cls[g.ops[u][i]]
            BY <2>2, <2>3
        <3>3. v \in Terms
            BY <1>0, <3>1
        <3>4. v = g.ops[w][i]
            BY <2>1, <2>3, <3>1, <3>2, <3>3
        <3>5. cls[g.ops[w][i]] = cls[g.ops[u][i]] /\ cls[g.ops[w][i]] \notin states
            BY <2>1, <2>3, <3>2, <3>4
        <3>6. QED  BY <3>1, <3>5, ClassTypes, SharedClass
    <2>5. QED  BY <2>1, <2>2, <2>4, HashConsed
<1>2. Terms \subseteq P
    <2> HIDE DEF P
    <2>1. QED  BY <1>1, TestInduction
<1>3. QED  BY <1>2 DEF Q

(* ... and Collect finds every other one. *)
LEMMA MatchComplete ==
    ASSUME Accepting, A!Rebuilt, A!ClassesHaveStates
    PROVE  \A t \in Terms : QuotientMatch[t] \subseteq T!Match[t]
<1> DEFINE Q == QuotientMatch
           M == T!Match
           P == {t \in Terms : Q[t] \subseteq M[t]}
<1>0. /\ \A t \in Terms : Q[t] = QuotientBody(Q, t)
      /\ Q \in [Terms -> SUBSET Terms]
      /\ \A t \in Terms : M[t] = MatchBody(M, t)
      /\ M \in [Terms -> SUBSET Terms]
      /\ \A t, u, w \in Terms : T!Equal[<<t, w>>] /\ u \in Q[t] => u = w
    BY QuotientDefined, MatchDefined, ExactIsAll
<1> HIDE DEF Q, M
<1>1. ASSUME NEW t \in Terms, \A i \in DOMAIN test.ops[t] : test.ops[t][i] \in P
      PROVE  t \in P
    <2> SUFFICES ASSUME NEW u \in Q[t]
                 PROVE  u \in M[t]
        OBVIOUS
    <2>1. /\ u \in Terms /\ g.id[u] = test.id[t]
          /\ \A i \in DOMAIN test.ops[t] :
                \E v \in Q[test.ops[t][i]] : cls[v] = cls[g.ops[u][i]]
        BY <1>0 DEF QuotientBody
    <2>2. CASE Exact(t) # {}
        <3>1. PICK w \in Terms : T!Equal[<<t, w>>]
            BY <2>2 DEF Exact
        <3>2. u = w
            BY <1>0, <2>1, <3>1
        <3>3. QED  BY <1>0, <2>2, <3>1, <3>2 DEF MatchBody, Exact
    <2>3. CASE Exact(t) = {}
        <3>1. test.ops[t] # << >>
            <4>1. ASSUME test.ops[t] = << >> PROVE FALSE
                <5>1. DOMAIN test.ops[t] = {}
                    BY <4>1
                <5>2. T!Equal[<<t, u>>]
                    BY <2>1, <5>1, EqualStep
                <5>3. QED  BY <2>1, <2>3, <5>2 DEF Exact
            <4>2. QED  BY <4>1
        <3>2. ASSUME NEW i \in DOMAIN test.ops[t]
              PROVE  \E x \in M[test.ops[t][i]] : u \in T!Collect(x, test.id[t], i)
            <4>1. PICK v \in Q[test.ops[t][i]] : cls[v] = cls[g.ops[u][i]]
                BY <2>1
            <4>2. test.ops[t][i] \in Terms /\ v \in Terms /\ v \in M[test.ops[t][i]]
                BY <1>0, <1>1, <4>1
            <4>3. i \in DOMAIN g.ops[u] /\ g.ops[u][i] \in Terms
                BY <2>1, SamePositions, SplicedOperands
            <4>4. NodeOf(g.ops[u][i]) = NodeOf(v)
                <5>1. CASE v = g.ops[u][i]
                    BY <5>1
                <5>2. CASE v # g.ops[u][i]
                    <6>1. cls[v] \in states
                        BY <4>1, <4>2, <4>3, <5>2, ClassTypes, SharedClass
                    <6>2. QED  BY <4>1, <4>2, <4>3, <6>1, NodesDiffer
                <5>3. QED  BY <5>1, <5>2
            <4>5. u \in T!Collect(v, test.id[t], i)
                BY <2>1, <4>2, <4>3, <4>4, CollectFinds
            <4>6. QED  BY <4>2, <4>5
        <3>3. M[t] = {w \in Terms : \A i \in DOMAIN test.ops[t] :
                         \E x \in M[test.ops[t][i]] :
                            w \in T!Collect(x, test.id[t], i)}
            BY <1>0, <2>3, <3>1 DEF MatchBody
        <3>4. QED  BY <2>1, <3>2, <3>3
    <2>4. QED  BY <2>2, <2>3
<1>2. Terms \subseteq P
    <2> HIDE DEF P
    <2>1. QED  BY <1>1, TestInduction
<1>3. QED  BY <1>2 DEF Q, M

(* A training term is found as itself: when it has an exact match that is the *)
(* term, and otherwise its own operands lead to it, through states or not.   *)
LEMMA TrainingTermsMatch ==
    ASSUME Accepting, test = g
    PROVE  \A t \in Terms : t \in T!Match[t]
<1> DEFINE M == T!Match
           P == {t \in Terms : t \in M[t]}
           E == {t \in Terms : \A u \in Terms : T!Equal[<<t, u>>] => t = u}
<1>0. /\ \A t \in Terms : M[t] = MatchBody(M, t)
      /\ M \in [Terms -> SUBSET Terms]
    BY MatchDefined
<1> HIDE DEF M
<1>1. ASSUME NEW t \in Terms, \A i \in DOMAIN test.ops[t] : test.ops[t][i] \in E
      PROVE  t \in E
    <2> SUFFICES ASSUME NEW u \in Terms, T!Equal[<<t, u>>]
                 PROVE  t = u
        OBVIOUS
    <2>1. /\ g.id[t] = g.id[u]
          /\ \A i \in DOMAIN g.ops[t] : T!Equal[<<g.ops[t][i], g.ops[u][i]>>]
        BY EqualStep
    <2>2. \A i \in DOMAIN g.ops[t] : g.ops[t][i] \in E /\ g.ops[u][i] \in Terms
        BY <1>1, <2>1, SamePositions, SplicedOperands
    <2>3. \A i \in DOMAIN g.ops[t] : g.ops[t][i] = g.ops[u][i]
        BY <2>1, <2>2
    <2>4. QED  BY <2>1, <2>3, HashConsed
<1>2. Terms \subseteq E
    <2> HIDE DEF E
    <2>1. QED  BY <1>1, TestInduction
<1>3. ASSUME NEW t \in Terms, \A i \in DOMAIN test.ops[t] : test.ops[t][i] \in P
      PROVE  t \in P
    <2>1. CASE Exact(t) # {}
        <3>1. PICK w \in Terms : T!Equal[<<t, w>>]
            BY <2>1 DEF Exact
        <3>2. t = w
            BY <1>2, <3>1
        <3>3. QED  BY <1>0, <2>1, <3>1, <3>2 DEF MatchBody, Exact
    <2>2. CASE Exact(t) = {}
        <3>1. test.ops[t] # << >>
            <4>1. ASSUME test.ops[t] = << >> PROVE FALSE
                <5>1. DOMAIN test.ops[t] = {}
                    BY <4>1
                <5>2. T!Equal[<<t, t>>]
                    BY <5>1, EqualStep
                <5>3. QED  BY <2>2, <5>2 DEF Exact
            <4>2. QED  BY <4>1
        <3>2. ASSUME NEW i \in DOMAIN test.ops[t]
              PROVE  \E x \in M[test.ops[t][i]] : t \in T!Collect(x, test.id[t], i)
            <4>1. /\ i \in DOMAIN g.ops[t] /\ g.ops[t][i] \in Terms
                  /\ g.ops[t][i] \in M[g.ops[t][i]]
                BY <1>3
            <4>2. g.id[t] = g.id[t] /\ NodeOf(g.ops[t][i]) = NodeOf(g.ops[t][i])
                OBVIOUS
            <4>3. t \in T!Collect(g.ops[t][i], g.id[t], i)
                BY <4>1, <4>2, CollectFinds
            <4>4. QED  BY <4>1, <4>3
        <3>3. QED  BY <1>0, <2>2, <3>1, <3>2 DEF MatchBody
    <2>3. QED  BY <2>1, <2>2
<1>4. Terms \subseteq P
    <2> HIDE DEF P
    <2>1. QED  BY <1>3, TestInduction
<1>5. QED  BY <1>4 DEF M

-----------------------------------------------------------------------------
(* Testing: the graph that is tested shares the signatures, and what is       *)
(* counted are the matched roots that main has looked at.                    *)
Finals == {t \in Terms : IsFinal(Terms, test, t)}

TestInv ==
    phase = "test" =>
        /\ IsTermGraph(Terms, test)
        /\ SameSignature(test)
        /\ pending \subseteq Finals
        /\ hits = {t \in Finals \ pending : T!Match[t] # {}}

LEMMA InitTest == LInit => TestInv
BY DEF LInit, TestInv

LEMMA MatchKept == UNCHANGED <<g, ops, usedBy, test>> => T!Match' = T!Match
BY DEF T!Match, T!Equal, T!Collect

LEMMA TestStep == IInv /\ TestInv /\ [LNext]_lvars => TestInv'
<1> SUFFICES ASSUME IInv, TestInv, [LNext]_lvars, phase' = "test" PROVE TestInv'
    BY DEF TestInv
<1>1. CASE StartTesting
    <2>1. PICK te \in Tests \cup {g} : SameSignature(te) /\ T!Start(te)
        BY <1>1 DEF StartTesting
    <2>2. IsTermGraph(Terms, te)
        BY TermGraph, TestsAssumption
    <2>3. test' = te /\ g' = g /\ hits' = {}
          /\ pending' = {t \in Terms : IsFinal(Terms, te, t)}
        BY <2>1, TrainingSteps DEF T!Start, T!IsFinal, T!Uses, IsFinal, Uses
    <2>4. SameSignature(test)'
        BY <2>1, <2>3 DEF SameSignature
    <2>5. pending' = Finals'
        BY <2>3 DEF Finals
    <2>6. QED  BY <2>2, <2>3, <2>4, <2>5 DEF TestInv
<1>2. ASSUME NEW t \in Terms, VisitTest(t) PROVE TestInv'
    <2>1. /\ phase = "test" /\ UNCHANGED <<g, ops, usedBy, test>>
          /\ t \in pending /\ pending' = pending \ {t}
          /\ hits' = IF T!Match[t] # {} THEN hits \cup {t} ELSE hits
        BY <1>2, TrainingSteps DEF VisitTest, automaton, T!Visit
    <2>2. T!Match' = T!Match
        BY <2>1, MatchKept
    <2>3. Finals' = Finals
        BY <2>1 DEF Finals
    <2> DEFINE M == T!Match
    <2> HIDE DEF M
    <2>4. /\ pending \subseteq Finals
          /\ hits = {x \in Finals \ pending : M[x] # {}}
        BY <2>1 DEF TestInv, M
    <2>5. hits' = {x \in Finals \ pending' : M[x] # {}}
        BY <2>1, <2>4 DEF M
    <2>6. pending' \subseteq Finals
        BY <2>1, <2>4
    <2>7. IsTermGraph(Terms, test)' /\ SameSignature(test)'
        BY <2>1 DEF TestInv, SameSignature
    <2>8. QED  BY <2>2, <2>3, <2>5, <2>6, <2>7 DEF TestInv, M
<1>3. CASE UNCHANGED lvars
    <2>1. UNCHANGED <<g, ops, usedBy, test, pending, hits, phase>>
        BY <1>3 DEF lvars, training, vars, closure, automaton, acceptor
    <2>2. T!Match' = T!Match
        BY <2>1, MatchKept
    <2>3. Finals' = Finals
        BY <2>1 DEF Finals
    <2>4. QED  BY <2>1, <2>2, <2>3 DEF TestInv, SameSignature
<1>4. QED
    BY <1>1, <1>2, <1>3
       DEF LNext, LStep, Train, StartRebuilding, VisitRoot, VisitOperand, VisitNode, Stop,
           TestInv

(* Training, the walk and the tests that follow keep all their invariants. *)
THEOREM LearnerInvariance == LSpec => [](RebuildInv /\ SpliceInv /\ IInv /\ TestInv)
<1>1. RebuildInv => SpliceInv
    BY SpliceStarts DEF RebuildInv
<1>2. QED
    BY <1>1, TrainingInvariance, ClassesGiven, InitRebuild, RebuildStep, InitTest, TestStep,
       PTL DEF LSpec

LEMMA WhenFinished ==
    ASSUME RebuildInv, SpliceInv, IInv, TestInv, Finished
    PROVE  Accepting /\ A!Rebuilt
BY TermGraph DEF RebuildInv, TestInv, Finished, Accepting

(* The acceptor accepts nothing that the classes do not, whatever states the  *)
(* walk left out (Acceptor.cpp:94-200).                                      *)
THEOREM AcceptorIsSound == LSpec => []MatchIsSound
<1>1. RebuildInv /\ SpliceInv /\ IInv /\ TestInv => MatchIsSound
    BY WhenFinished, MatchSound DEF MatchIsSound
<1>2. QED  BY <1>1, LearnerInvariance, PTL

(* It accepts all that the classes do when every class has a state.           *)
THEOREM AcceptorIsComplete == LSpec => []MatchIsComplete
<1>1. RebuildInv /\ SpliceInv /\ IInv /\ TestInv => MatchIsComplete
    BY WhenFinished, MatchSound, MatchComplete DEF MatchIsComplete
<1>2. QED  BY <1>1, LearnerInvariance, PTL

(* A test term never has two exact matches: the assertion of                  *)
(* Acceptor.cpp:117.                                                        *)
THEOREM ExactMatchesAreUnique == LSpec => []ExactMatchIsUnique
<1>1. ASSUME Accepting, NEW t \in Terms PROVE Cardinality(Exact(t)) <= 1
    <2>1. \A u, w \in Exact(t) : u = w
        BY <1>1, ExactIsUnique DEF Exact
    <2>2. CASE Exact(t) = {}
        BY <2>2, FS_EmptySet
    <2>3. CASE Exact(t) # {}
        <3>1. PICK u : Exact(t) = {u}
            BY <2>1, <2>3
        <3>2. Cardinality({u}) = 1
            BY FS_Singleton
        <3>3. QED  BY <3>1, <3>2
    <2>4. QED  BY <2>2, <2>3
<1>2. RebuildInv /\ SpliceInv /\ IInv /\ TestInv => ExactMatchIsUnique
    BY <1>1, WhenFinished DEF ExactMatchIsUnique, Exact
<1>3. QED  BY <1>2, LearnerInvariance, PTL

UnsplicedBody(same, t, u) ==
    /\ test.id[t] = g.id[u]
    /\ \A i \in DOMAIN test.ops[t] :
          /\ cls[g.ops[u][i]] \notin states
          /\ same[<<test.ops[t][i], g.ops[u][i]>>]

LEMMA EqualIsUnspliced ==
    ASSUME Accepting
    PROVE  \A t, u \in Terms : T!Equal[<<t, u>>] <=> Unspliced[<<t, u>>]
<1> DEFINE Eq == T!Equal
           IsSame(same) == same = [p \in Terms \X Terms |-> UnsplicedBody(same, p[1], p[2])]
<1>1. ASSUME NEW t \in Terms, NEW u \in Terms
      PROVE  Eq[<<t, u>>] <=> UnsplicedBody(Eq, t, u)
    BY EqualStep DEF UnsplicedBody
<1> HIDE DEF Eq
<1>2. IsSame(Eq)
    <2>1. Eq = [p \in Terms \X Terms |-> EqualBody(Eq, p[1], p[2])]
        BY EqualDefined DEF Eq
    <2>2. \A p \in Terms \X Terms : Eq[p] \in BOOLEAN
        BY <2>1 DEF EqualBody
    <2>3. \A p \in Terms \X Terms : Eq[p] = UnsplicedBody(Eq, p[1], p[2])
        <3> SUFFICES ASSUME NEW t \in Terms, NEW u \in Terms
                     PROVE  Eq[<<t, u>>] = UnsplicedBody(Eq, t, u)
            OBVIOUS
        <3>1. Eq[<<t, u>>] \in BOOLEAN /\ UnsplicedBody(Eq, t, u) \in BOOLEAN
            BY <2>2 DEF UnsplicedBody
        <3>2. QED  BY <1>1, <3>1
    <2>4. Eq = [p \in Terms \X Terms |-> Eq[p]]
        BY <2>1
    <2>5. QED  BY <2>3, <2>4
<1>3. Unspliced = CHOOSE same : IsSame(same)
    BY DEF Unspliced, UnsplicedBody
<1> DEFINE U == Unspliced
<1>4. IsSame(U)
    BY <1>2, <1>3
<1> HIDE DEF U
<1> DEFINE Agree == {t \in Terms : \A u \in Terms : Eq[<<t, u>>] <=> U[<<t, u>>]}
<1>5. ASSUME NEW t \in Terms, \A x \in Terms : test.depth[x] < test.depth[t] => x \in Agree
      PROVE  t \in Agree
    <2> SUFFICES ASSUME NEW u \in Terms PROVE Eq[<<t, u>>] <=> U[<<t, u>>]
        OBVIOUS
    <2>1. Eq[<<t, u>>] = UnsplicedBody(Eq, t, u) /\ U[<<t, u>>] = UnsplicedBody(U, t, u)
        BY <1>2, <1>4
    <2>2. CASE test.id[t] = g.id[u]
        <3>1. ASSUME NEW i \in DOMAIN test.ops[t]
              PROVE  Eq[<<test.ops[t][i], g.ops[u][i]>>] <=> U[<<test.ops[t][i], g.ops[u][i]>>]
            <4>1. test.ops[t][i] \in Agree
                BY <1>5, TestOperands
            <4>2. i \in DOMAIN g.ops[u]
                BY <2>2, SamePositions
            <4>3. g.ops[u][i] \in Terms
                BY <4>2, SplicedOperands
            <4>4. QED  BY <4>1, <4>3
        <3>2. UnsplicedBody(Eq, t, u) <=> UnsplicedBody(U, t, u)
            BY <3>1 DEF UnsplicedBody
        <3>3. QED  BY <2>1, <3>2
    <2>3. CASE test.id[t] # g.id[u]
        BY <2>1, <2>3 DEF UnsplicedBody
    <2>4. QED  BY <2>2, <2>3
<1>6. Terms \subseteq Agree
    <2>1. test.depth \in [Terms -> Nat]
        BY DEF Accepting, IsTermGraph
    <2> HIDE DEF Agree
    <2>2. QED  BY <1>5, <2>1, DepthInduction
<1>7. QED  BY <1>6 DEF Eq, U

(* Hashes that the splicing made stale hide no exact match: what matches is  *)
(* what was made with the structure of the test term and has no state below  *)
(* it (Acceptor.cpp:97, SDGInference.cpp:255-259).                           *)
THEOREM ExactMatchesAreUnspliced == LSpec => []ExactMatchIsUnspliced
<1>1. RebuildInv /\ SpliceInv /\ IInv /\ TestInv => ExactMatchIsUnspliced
    BY WhenFinished, EqualIsUnspliced DEF ExactMatchIsUnspliced
<1>2. QED  BY <1>1, LearnerInvariance, PTL

(* The learner never rejects what it was trained on, and counts every root    *)
(* of it, although some classes have no state (SDGInference.cpp:266-275).    *)
THEOREM TrainingIsAccepted == LSpec => []TrainingSetAccepted
<1>1. RebuildInv /\ SpliceInv /\ IInv /\ TestInv => TrainingSetAccepted
    <2> SUFFICES ASSUME RebuildInv, SpliceInv, IInv, TestInv, Finished, test = g
                 PROVE  /\ \A t \in Terms : t \in T!Match[t]
                        /\ hits = {t \in Terms : IsFinal(Terms, g, t)}
        BY DEF TrainingSetAccepted
    <2>1. \A t \in Terms : t \in T!Match[t]
        BY WhenFinished, TrainingTermsMatch
    <2> DEFINE M == T!Match
    <2>2. hits = {t \in Finals \ pending : M[t] # {}} /\ pending = {}
        BY DEF Finished, TestInv
    <2>3. \A t \in Terms : M[t] # {}
        BY <2>1
    <2> HIDE DEF M
    <2>4. hits = Finals
        BY <2>2, <2>3 DEF Finals
    <2>5. QED  BY <2>1, <2>4 DEF Finals
<1>2. QED  BY <1>1, LearnerInvariance, PTL
=============================================================================
