--------------------------- MODULE ClosureProofs ---------------------------
(***************************************************************************)
(* Theorems about Closure for every set of terms, every set of term graphs, *)
(* every number of requests and every set of labellings.                    *)
(***************************************************************************)
EXTENDS Closure, FiniteSetTheorems, SequenceTheorems, TLAPS

-----------------------------------------------------------------------------
(* Union-find nodes. *)

FlatForest(par) == \A t \in Terms : par[t] # NoNode => par[par[t]] = NoNode

RootOf(par, t) == IF par[t] = NoNode THEN t ELSE par[t]

(* On a flat forest the recursion of ENode::getRepresentative stops at the   *)
(* parent (ENode.h:37-45).                                                  *)
LEMMA RepFlat ==
    ASSUME NEW par \in [Terms -> Terms \cup {NoNode}], FlatForest(par)
    PROVE  \A t \in Terms : GetRepresentative(par)[t] = RootOf(par, t)
<1> DEFINE F == [t \in Terms |-> RootOf(par, t)]
           IsRep(f) == f = [t \in Terms |-> IF par[t] = NoNode THEN t ELSE f[par[t]]]
<1>1. IsRep(F)
    BY TermsAssumption DEF FlatForest, RootOf
<1>2. GetRepresentative(par) = CHOOSE f : IsRep(f)
    BY DEF GetRepresentative
<1>3. IsRep(GetRepresentative(par))
    BY <1>1, <1>2
<1> HIDE DEF F
<1>4. QED
    <2> DEFINE G == GetRepresentative(par)
    <2> HIDE DEF G
    <2>1. G = [t \in Terms |-> IF par[t] = NoNode THEN t ELSE G[par[t]]]
        BY <1>3 DEF G
    <2>2. \A t \in Terms : G[t] = IF par[t] = NoNode THEN t ELSE G[par[t]]
        BY <2>1
    <2>3. \A t \in Terms : G[t] = RootOf(par, t)
        BY <2>2, TermsAssumption DEF FlatForest, RootOf
    <2> QED BY <2>3 DEF G

(* Representatives are roots, and a root lists the terms it represents.      *)
LEMMA RepProperties ==
    ASSUME TypeOK, ForestInv
    PROVE  \A t \in Terms :
              /\ Rep(t) = RootOf(parent, t)
              /\ Rep(t) \in Terms
              /\ parent[Rep(t)] = NoNode
              /\ Rep(Rep(t)) = Rep(t)
              /\ \A u \in Terms : u \in eclass[Rep(t)] <=> Rep(u) = Rep(t)
<1>1. parent \in [Terms -> Terms \cup {NoNode}] /\ FlatForest(parent)
    BY DEF TypeOK, ForestInv, FlatForest
<1>2. \A t \in Terms : Rep(t) = RootOf(parent, t)
    BY <1>1, RepFlat DEF Rep
<1>3. \A t \in Terms : RootOf(parent, t) \in Terms /\ parent[RootOf(parent, t)] = NoNode
    BY <1>1 DEF RootOf, FlatForest
<1>4. \A t \in Terms : Rep(t) \in Terms /\ parent[Rep(t)] = NoNode /\ Rep(Rep(t)) = Rep(t)
    BY <1>2, <1>3 DEF RootOf
<1>5. \A t, u \in Terms : u \in eclass[Rep(t)] <=> Rep(u) = Rep(t)
    <2> TAKE t, u \in Terms
    <2>1. eclass[Rep(t)] = {Rep(t)} \cup {v \in Terms : parent[v] = Rep(t)}
        BY <1>4 DEF ForestInv
    <2>2. CASE parent[u] = NoNode
        BY <2>1, <2>2, <1>2, <1>4, TermsAssumption DEF RootOf
    <2>3. CASE parent[u] # NoNode
        BY <2>1, <2>3, <1>2, <1>4, TermsAssumption DEF RootOf
    <2>4. QED BY <2>2, <2>3
<1>6. QED BY <1>2, <1>4, <1>5

(* ENode::operator+= on two representatives keeps the forest flat and        *)
(* redirects exactly the terms of the second class (ENode.h:56-89).          *)
LEMMA UniteRoots ==
    ASSUME TypeOK, ForestInv, NEW a \in Terms, NEW b \in Terms,
           parent[a] = NoNode, parent[b] = NoNode, a # b,
           UniteClasses(a, b)
    PROVE  /\ parent' \in [Terms -> Terms \cup {NoNode}]
           /\ eclass' \in [Terms -> SUBSET Terms]
           /\ ForestInv'
           /\ \A t \in Terms : Rep(t)' \in Terms /\ Rep(Rep(t))' = Rep(t)'
           /\ \A t \in Terms : Rep(t)' = IF Rep(t) = b THEN a ELSE Rep(t)
           /\ \A t \in Terms : parent'[t] = NoNode <=> parent[t] = NoNode /\ t # b
<1>1. parent' \in [Terms -> Terms \cup {NoNode}]
    BY DEF TypeOK, UniteClasses
<1>2. eclass' \in [Terms -> SUBSET Terms]
    BY DEF TypeOK, UniteClasses
<1>3. \A t \in Terms : Rep(t) = RootOf(parent, t) /\ Rep(t) \in Terms
    BY RepProperties
<1>4. \A t \in Terms : t \in eclass[b] <=> t = b \/ parent[t] = b
    <2>1. eclass[b] = {b} \cup {u \in Terms : parent[u] = b}
        BY DEF ForestInv
    <2>2. QED BY <2>1
<1>5. \A t \in Terms : t \in eclass[a] <=> t = a \/ parent[t] = a
    <2>1. eclass[a] = {a} \cup {u \in Terms : parent[u] = a}
        BY DEF ForestInv
    <2>2. QED BY <2>1
<1>6. \A t \in Terms : parent'[t] = IF t = b \/ parent[t] = b THEN a ELSE parent[t]
    BY <1>4 DEF UniteClasses
<1>7. parent'[a] = NoNode
    BY <1>6, TermsAssumption
<1>8. FlatForest(parent')
    <2> SUFFICES ASSUME NEW t \in Terms, parent'[t] # NoNode
                 PROVE  parent'[parent'[t]] = NoNode
        BY DEF FlatForest
    <2>1. CASE t = b \/ parent[t] = b
        BY <2>1, <1>6, <1>7
    <2>2. CASE ~(t = b \/ parent[t] = b)
        <3>1. parent'[t] = parent[t] /\ parent[t] \in Terms /\ parent[t] # b
            BY <2>2, <1>6 DEF TypeOK
        <3>2. parent[parent[t]] = NoNode
            BY <3>1 DEF ForestInv
        <3>3. QED BY <3>1, <3>2, <1>6, TermsAssumption
    <2>3. QED BY <2>1, <2>2
<1>9. \A t \in Terms : Rep(t)' = RootOf(parent', t)
    BY <1>1, <1>8, RepFlat DEF Rep
<1>10. \A t \in Terms : Rep(t)' = IF Rep(t) = b THEN a ELSE Rep(t)
    BY <1>3, <1>6, <1>9, TermsAssumption DEF RootOf
<1>11. \A t \in Terms : parent'[t] = NoNode <=> parent[t] = NoNode /\ t # b
    BY <1>6, TermsAssumption
<1>12. \A t \in Terms :
          eclass'[t] = IF parent'[t] = NoNode
                          THEN {t} \cup {u \in Terms : parent'[u] = t}
                          ELSE {}
    <2> TAKE t \in Terms
    <2>1. CASE t = b
        <3>1. parent'[b] = a /\ eclass'[b] = {}
            BY <1>6 DEF UniteClasses, TypeOK
        <3>2. QED BY <2>1, <3>1, TermsAssumption
    <2>2. CASE t = a
        <3>1. eclass'[a] = eclass[a] \cup eclass[b]
            BY DEF UniteClasses, TypeOK
        <3>2. \A u \in Terms : parent'[u] = a <=> parent[u] = a \/ u \in eclass[b]
            BY <1>4, <1>6
        <3>3. \A u \in Terms : u \in eclass'[a] <=> u = a \/ parent'[u] = a
            BY <3>1, <3>2, <1>5
        <3>4. eclass'[a] = {a} \cup {u \in Terms : parent'[u] = a}
            <4>1. eclass'[a] \subseteq Terms
                BY <1>2
            <4>2. QED BY <3>3, <4>1
        <3>5. QED BY <2>2, <3>4, <1>7
    <2>3. CASE t # a /\ t # b
        <3>1. eclass'[t] = eclass[t]
            BY <2>3 DEF UniteClasses, TypeOK
        <3>2. eclass[t] = IF parent[t] = NoNode
                             THEN {t} \cup {u \in Terms : parent[u] = t} ELSE {}
            BY DEF ForestInv
        <3>3. CASE parent[t] = NoNode
            <4>1. \A u \in Terms : parent'[u] = t <=> parent[u] = t
                BY <1>6, <2>3, TermsAssumption
            <4>2. QED BY <3>1, <3>2, <3>3, <4>1, <1>11, <2>3
        <3>4. CASE parent[t] # NoNode
            BY <3>1, <3>2, <3>4, <1>11
        <3>5. QED BY <3>3, <3>4
    <2>4. QED BY <2>1, <2>2, <2>3
<1>13. ForestInv'
    BY <1>8, <1>12 DEF ForestInv, FlatForest
<1>14. \A t \in Terms : Rep(t)' \in Terms /\ Rep(Rep(t))' = Rep(t)'
    BY <1>1, <1>8, <1>9 DEF RootOf, FlatForest
<1>15. QED BY <1>1, <1>2, <1>10, <1>11, <1>13, <1>14

(* The step of Unite on the nodes: it joins the classes of tt and ut and     *)
(* nothing else, whichever of the two is the larger (CClosure.cpp:75-79).    *)
Joined(tt, ut, x, y) ==
    \/ SameClass(x, y)
    \/ SameClass(x, tt) /\ SameClass(ut, y)
    \/ SameClass(x, ut) /\ SameClass(tt, y)

LEMMA UniteJoins ==
    ASSUME TypeOK, ForestInv, NEW tt \in Terms, NEW ut \in Terms,
           ~SameClass(tt, ut), UniteSmaller(tt, ut)
    PROVE  /\ parent' \in [Terms -> Terms \cup {NoNode}]
           /\ eclass' \in [Terms -> SUBSET Terms]
           /\ ForestInv'
           /\ \A t \in Terms : Rep(t)' \in Terms /\ Rep(Rep(t))' = Rep(t)'
           /\ \A x, y \in Terms : SameClass(x, y)' <=> Joined(tt, ut, x, y)
           /\ \E b \in Terms :
                 /\ parent[b] = NoNode
                 /\ \A t \in Terms : parent'[t] = NoNode <=> parent[t] = NoNode /\ t # b
<1>1. /\ Rep(tt) \in Terms /\ Rep(ut) \in Terms /\ Rep(tt) # Rep(ut)
      /\ parent[Rep(tt)] = NoNode /\ parent[Rep(ut)] = NoNode
    BY RepProperties DEF SameClass
<1>2. CASE UniteClasses(Rep(tt), Rep(ut))
    <2>1. /\ parent' \in [Terms -> Terms \cup {NoNode}]
          /\ eclass' \in [Terms -> SUBSET Terms]
          /\ ForestInv'
          /\ \A t \in Terms : Rep(t)' \in Terms /\ Rep(Rep(t))' = Rep(t)'
          /\ \A t \in Terms : Rep(t)' = IF Rep(t) = Rep(ut) THEN Rep(tt) ELSE Rep(t)
          /\ \A t \in Terms : parent'[t] = NoNode <=> parent[t] = NoNode /\ t # Rep(ut)
        BY <1>1, <1>2, UniteRoots
    <2>2. \A x, y \in Terms : SameClass(x, y)' <=> Joined(tt, ut, x, y)
        BY <2>1, <1>1 DEF SameClass, Joined
    <2>3. QED BY <2>1, <2>2, <1>1
<1>3. CASE UniteClasses(Rep(ut), Rep(tt))
    <2>1. /\ parent' \in [Terms -> Terms \cup {NoNode}]
          /\ eclass' \in [Terms -> SUBSET Terms]
          /\ ForestInv'
          /\ \A t \in Terms : Rep(t)' \in Terms /\ Rep(Rep(t))' = Rep(t)'
          /\ \A t \in Terms : Rep(t)' = IF Rep(t) = Rep(tt) THEN Rep(ut) ELSE Rep(t)
          /\ \A t \in Terms : parent'[t] = NoNode <=> parent[t] = NoNode /\ t # Rep(tt)
        BY <1>1, <1>3, UniteRoots
    <2>2. \A x, y \in Terms : SameClass(x, y)' <=> Joined(tt, ut, x, y)
        BY <2>1, <1>1 DEF SameClass, Joined
    <2>3. QED BY <2>1, <2>2, <1>1
<1>4. QED BY <1>2, <1>3 DEF UniteSmaller

-----------------------------------------------------------------------------
(* Work lists, as the sets of their pairs. *)

LEMMA PopSet ==
    ASSUME NEW S, NEW s \in Seq(S), s # << >>
    PROVE  /\ Front(s) \in Seq(S)
           /\ Last(s) \in S
           /\ ToSet(s) = ToSet(Front(s)) \cup {Last(s)}
<1>1. Len(s) \in Nat /\ Len(s) >= 1 /\ DOMAIN s = 1 .. Len(s)
    BY EmptySeq, LenProperties
<1>2. Front(s) \in Seq(S) /\ Len(Front(s)) = Len(s) - 1
      /\ \A i \in 1 .. Len(s) - 1 : Front(s)[i] = s[i]
    BY <1>1, SubSeqProperties DEF Front
<1>3. DOMAIN Front(s) = 1 .. Len(s) - 1
    BY <1>2, LenProperties
<1>4. Last(s) \in S
    BY <1>1, ElementOfSeq DEF Last
<1>5. ToSet(s) = ToSet(Front(s)) \cup {Last(s)}
    <2>1. \A i \in DOMAIN s : i \in 1 .. Len(s) - 1 \/ i = Len(s)
        BY <1>1
    <2>2. Len(s) \in DOMAIN s /\ \A i \in 1 .. Len(s) - 1 : i \in DOMAIN s
        BY <1>1
    <2>3. QED BY <2>1, <2>2, <1>2, <1>3 DEF ToSet, Last
<1>6. QED BY <1>2, <1>4, <1>5

LEMMA ConcatSet ==
    ASSUME NEW S, NEW s \in Seq(S), NEW t \in Seq(S)
    PROVE  s \o t \in Seq(S) /\ ToSet(s \o t) = ToSet(s) \cup ToSet(t)
<1>1. /\ s \o t \in Seq(S)
      /\ Len(s \o t) = Len(s) + Len(t)
      /\ \A i \in 1 .. Len(s) + Len(t) :
            (s \o t)[i] = IF i <= Len(s) THEN s[i] ELSE t[i - Len(s)]
    BY ConcatProperties
<1>2. Len(s) \in Nat /\ Len(t) \in Nat
    BY LenProperties
<1>3. DOMAIN s = 1 .. Len(s) /\ DOMAIN t = 1 .. Len(t)
      /\ DOMAIN (s \o t) = 1 .. Len(s) + Len(t)
    BY <1>1, LenProperties
<1>4. ToSet(s \o t) \subseteq ToSet(s) \cup ToSet(t)
    <2>1. SUFFICES ASSUME NEW i \in 1 .. Len(s) + Len(t)
                   PROVE  (s \o t)[i] \in ToSet(s) \cup ToSet(t)
        BY <1>3 DEF ToSet
    <2>2. CASE i <= Len(s)
        BY <2>2, <1>1, <1>2, <1>3 DEF ToSet
    <2>3. CASE ~(i <= Len(s))
        <3>1. i - Len(s) \in 1 .. Len(t)
            BY <2>3, <1>2
        <3>2. QED BY <3>1, <2>3, <1>1, <1>3 DEF ToSet
    <2>4. QED BY <2>2, <2>3
<1>5. ToSet(s) \subseteq ToSet(s \o t)
    <2>1. \A i \in 1 .. Len(s) : i \in 1 .. Len(s) + Len(t) /\ (s \o t)[i] = s[i]
        BY <1>1, <1>2
    <2>2. QED BY <2>1, <1>3 DEF ToSet
<1>6. ToSet(t) \subseteq ToSet(s \o t)
    <2>1. \A i \in 1 .. Len(t) : /\ Len(s) + i \in 1 .. Len(s) + Len(t)
                                 /\ ~(Len(s) + i <= Len(s))
                                 /\ (Len(s) + i) - Len(s) = i
        BY <1>2
    <2>2. \A i \in 1 .. Len(t) : Len(s) + i \in 1 .. Len(s) + Len(t)
                                 /\ (s \o t)[Len(s) + i] = t[i]
        BY <2>1, <1>1
    <2>3. QED BY <2>2, <1>3 DEF ToSet
<1>7. QED BY <1>1, <1>4, <1>5, <1>6

(* The matches of a use in any order. *)
LEMMA MatchesOrdered ==
    ASSUME NEW use \in Terms, NEW order \in SetToSeqs(Matches(use))
    PROVE  LET pushed == [i \in DOMAIN order |-> <<use, order[i]>>]
           IN  /\ pushed \in Seq(Terms \X Terms)
               /\ \A p \in ToSet(pushed) : \E x \in Matches(use) : p = <<use, x>>
<1> DEFINE n == Cardinality(Matches(use))
           pushed == [i \in DOMAIN order |-> <<use, order[i]>>]
<1>1. Matches(use) \subseteq Terms
    BY DEF Matches
<1>2. n \in Nat
    BY <1>1, TermsAssumption, FS_Subset, FS_CardinalityType
<1>3. order \in [1 .. n -> Matches(use)]
    BY DEF SetToSeqs
<1>4. pushed \in [1 .. n -> Terms \X Terms]
    BY <1>1, <1>3
<1>5. pushed \in Seq(Terms \X Terms)
    BY <1>2, <1>4, IsASeq
<1>6. \A p \in ToSet(pushed) : \E x \in Matches(use) : p = <<use, x>>
    BY <1>3 DEF ToSet
<1>7. QED BY <1>5, <1>6

LEMMA GraphFacts ==
    ASSUME TypeOK
    PROVE  /\ \A t \in Terms : g.ops[t] \in Seq(Terms)
           /\ \A t, u \in Terms : g.id[t] = g.id[u] => DOMAIN g.ops[t] = DOMAIN g.ops[u]
<1>1. IsTermGraph(Terms, g)
    BY GraphsAssumption DEF TypeOK
<1>2. \A t \in Terms : g.ops[t] \in Seq(Terms)
    BY <1>1 DEF IsTermGraph
<1>3. \A t, u \in Terms : g.id[t] = g.id[u] => Len(g.ops[t]) = Len(g.ops[u])
    BY <1>1 DEF IsTermGraph
<1>4. QED BY <1>2, <1>3, LenProperties

(* The rule of lines 112-132 only ever pushes a pair that is equal already.  *)
LEMMA DownPairsAreEqual ==
    ASSUME TypeOK, NEW tt \in Terms, NEW ut \in Terms
    PROVE  /\ DownPairs(tt, ut) \in Seq(Terms \X Terms)
           /\ \A p \in ToSet(DownPairs(tt, ut)) : SameClass(p[1], p[2])
<1> DEFINE tops == g.ops[tt]
           uops == g.ops[ut]
<1>1. CASE /\ g.id[tt] = g.id[ut]
           /\ uops # <<>>
           /\ \A i \in DOMAIN uops : SameClass(uops[i], tops[1])
    <2>1. uops \in Seq(Terms) /\ tops \in Seq(Terms) /\ DOMAIN tops = DOMAIN uops
        BY <1>1, GraphFacts
    <2>2. Last(uops) \in Terms /\ Len(uops) \in DOMAIN uops /\ 1 \in DOMAIN uops
        BY <1>1, <2>1, EmptySeq, LenProperties, ElementOfSeq DEF Last
    <2>3. tops[1] \in Terms
        BY <2>1, <2>2, LenProperties, ElementOfSeq
    <2>4. SameClass(Last(uops), tops[1])
        BY <1>1, <2>2 DEF Last
    <2>5. DownPairs(tt, ut) = << <<Last(uops), tops[1]>> >>
        BY <1>1 DEF DownPairs
    <2>6. ToSet(<< <<Last(uops), tops[1]>> >>) = {<<Last(uops), tops[1]>>}
        BY DEF ToSet
    <2>7. QED BY <2>2, <2>3, <2>4, <2>5, <2>6
<1>2. CASE ~(/\ g.id[tt] = g.id[ut]
             /\ uops # <<>>
             /\ \A i \in DOMAIN uops : SameClass(uops[i], tops[1]))
    <2>1. DownPairs(tt, ut) = << >>
        BY <1>2 DEF DownPairs
    <2>2. ToSet(<< >>) = {}
        BY DEF ToSet
    <2>3. QED BY <2>1, <2>2
<1>3. QED BY <1>1, <1>2

-----------------------------------------------------------------------------
(* The inductive invariant.  The classes alone are not inductive: what they  *)
(* become is decided by the pairs waiting on the work list, so each property *)
(* of classes needs its counterpart for waiting pairs.                       *)

(* A waiting pair was requested, or is congruent, or is one class already.   *)
Justified ==
    \A p \in ToSet(wlist) :
        p \in requested \/ Congruent(p[1], p[2]) \/ SameClass(p[1], p[2])

(* A request is served or still waits. *)
RequestsKept == \A p \in requested : p \in ToSet(wlist) \/ SameClass(p[1], p[2])

RequestsMonochrome == \A p \in requested : g.id[p[1]] = g.id[p[2]]

IInv == /\ TypeOK
        /\ ForestInv
        /\ ClassesMonochrome
        /\ Sound
        /\ Justified
        /\ RequestsKept
        /\ RequestsMonochrome

LEMMA InitIInv == Init => IInv
<1> SUFFICES ASSUME Init PROVE IInv
    OBVIOUS
<1>1. TypeOK
    BY EmptySeq DEF Init, TypeOK
<1>2. ForestInv
    <2>1. \A t \in Terms : parent[t] = NoNode /\ eclass[t] = {t}
        BY DEF Init
    <2>2. \A t \in Terms : {u \in Terms : parent[u] = t} = {}
        BY <2>1, TermsAssumption
    <2>3. QED BY <2>1, <2>2 DEF ForestInv
<1>3. \A t \in Terms : Rep(t) = t
    BY <1>1, <1>2, RepProperties DEF Init, RootOf
<1>4. ClassesMonochrome
    BY <1>3 DEF ClassesMonochrome, SameClass
<1>5. Sound
    BY <1>3 DEF Sound
<1>6. ToSet(wlist) = {}
    BY DEF Init, ToSet
<1>7. Justified /\ RequestsKept /\ RequestsMonochrome
    BY <1>6 DEF Init, Justified, RequestsKept, RequestsMonochrome
<1>8. QED BY <1>1, <1>2, <1>4, <1>5, <1>7 DEF IInv

(* A waiting pair has one symbol, and one label under every labelling that   *)
(* identifies the requests.                                                 *)
LEMMA WaitingPairs ==
    ASSUME IInv, NEW p \in ToSet(wlist)
    PROVE  /\ p[1] \in Terms /\ p[2] \in Terms /\ p = <<p[1], p[2]>>
           /\ g.id[p[1]] = g.id[p[2]]
           /\ \A c \in Runs[g] : Identifies(c, requested) => c[p[1]] = c[p[2]]
<1>1. p \in Terms \X Terms
    BY ElementOfSeq, LenProperties DEF IInv, TypeOK, ToSet
<1>2. g.id[p[1]] = g.id[p[2]]
    BY <1>1 DEF IInv, Justified, RequestsMonochrome, ClassesMonochrome, Congruent
<1>3. ASSUME NEW c \in Runs[g], Identifies(c, requested)
      PROVE  c[p[1]] = c[p[2]]
    <2>1. g \in Graphs /\ Deterministic(g, c)
        BY DEF IInv, TypeOK, Runs
    <2>2. \A x, y \in Terms : SameClass(x, y) => c[x] = c[y]
        BY <1>3 DEF IInv, Sound, SameClass
    <2>3. CASE p \in requested
        BY <2>3, <1>3 DEF Identifies
    <2>4. CASE SameClass(p[1], p[2])
        BY <2>4, <2>2, <1>1
    <2>5. CASE Congruent(p[1], p[2])
        <3>1. \A i \in DOMAIN g.ops[p[1]] :
                 g.ops[p[1]][i] \in Terms /\ g.ops[p[2]][i] \in Terms
            BY <1>1, <1>2, GraphFacts, LenProperties, ElementOfSeq DEF IInv
        <3>2. \A i \in DOMAIN g.ops[p[1]] : c[g.ops[p[1]][i]] = c[g.ops[p[2]][i]]
            BY <2>5, <2>2, <3>1 DEF Congruent
        <3>3. QED BY <2>1, <1>1, <1>2, <3>2 DEF Deterministic
    <2>6. QED BY <2>3, <2>4, <2>5 DEF IInv, Justified
<1>4. QED BY <1>1, <1>2, <1>3

-----------------------------------------------------------------------------
(* Steps that leave the nodes alone: the invariant survives if whatever      *)
(* leaves the work list is equal and whatever enters it is justified.        *)
LEMMA QuietStep ==
    ASSUME IInv, TypeOK', UNCHANGED <<g, parent, eclass>>,
           requested \subseteq requested',
           \A p \in requested' \ requested :
              p \in ToSet(wlist)' /\ g.id[p[1]] = g.id[p[2]],
           \A p \in ToSet(wlist) : p \in ToSet(wlist)' \/ SameClass(p[1], p[2]),
           \A p \in ToSet(wlist)' : \/ p \in ToSet(wlist)
                                    \/ p \in requested'
                                    \/ Congruent(p[1], p[2])
    PROVE  IInv'
<1>1. \A x, y : SameClass(x, y)' <=> SameClass(x, y)
    BY DEF SameClass, Rep
<1>2. \A x : Rep(x)' = Rep(x)
    BY DEF Rep
<1>3. \A x, y : Congruent(x, y)' <=> Congruent(x, y)
    BY <1>1 DEF Congruent
<1>4. ForestInv'
    BY DEF IInv, ForestInv
<1>5. ClassesMonochrome'
    BY <1>1 DEF IInv, ClassesMonochrome
<1>6. Sound'
    <2>1. \A c : Identifies(c, requested') => Identifies(c, requested)
        BY DEF Identifies
    <2>2. QED BY <2>1, <1>2 DEF IInv, Sound
<1>7. Justified'
    BY <1>1, <1>3 DEF IInv, Justified
<1>8. RequestsKept'
    BY <1>1 DEF IInv, RequestsKept
<1>9. RequestsMonochrome'
    BY DEF IInv, RequestsMonochrome
<1>10. QED BY <1>4, <1>5, <1>6, <1>7, <1>8, <1>9 DEF IInv

LEMMA CheckinIInv == ASSUME IInv, NEW t \in Terms, Checkin(t) PROVE IInv'
<1>1. TypeOK'
    BY DEF IInv, TypeOK, Checkin, Uses
<1>2. QED BY <1>1, QuietStep DEF Checkin

LEMMA MergeIInv == ASSUME IInv, NEW t \in Terms, NEW u \in Terms, Merge(t, u) PROVE IInv'
<1>1. wlist \in Seq(Terms \X Terms) /\ <<t, u>> \in Terms \X Terms
    BY DEF IInv, TypeOK
<1>2. << <<t, u>> >> \in Seq(Terms \X Terms) /\ ToSet(<< <<t, u>> >>) = {<<t, u>>}
    BY DEF ToSet
<1>3. wlist' = wlist \o << <<t, u>> >>
    BY <1>1, AppendIsConcat DEF Merge
<1>4. wlist' \in Seq(Terms \X Terms) /\ ToSet(wlist)' = ToSet(wlist) \cup {<<t, u>>}
    <2> DEFINE pair == << <<t, u>> >>
               Pairs == Terms \X Terms
    <2>1. wlist \in Seq(Pairs) /\ pair \in Seq(Pairs)
        BY <1>1, <1>2
    <2>2. wlist' = wlist \o pair /\ ToSet(pair) = {<<t, u>>}
        BY <1>2, <1>3
    <2> HIDE DEF pair, Pairs
    <2>3. wlist \o pair \in Seq(Pairs) /\ ToSet(wlist \o pair) = ToSet(wlist) \cup ToSet(pair)
        BY <2>1, ConcatSet
    <2>4. ToSet(wlist)' = ToSet(wlist \o pair)
        BY <2>2
    <2>5. QED BY <2>2, <2>3, <2>4 DEF Pairs
<1>5. TypeOK'
    BY <1>4 DEF IInv, TypeOK, Merge, nodes, lookup
<1>6. requested' = requested \cup {<<t, u>>} /\ g.id[t] = g.id[u]
      /\ UNCHANGED <<g, parent, eclass>>
    BY DEF Merge, nodes
<1>7. /\ requested \subseteq requested'
      /\ \A p \in requested' : p \in requested \/ p = <<t, u>>
      /\ \A p \in ToSet(wlist)' : p \in ToSet(wlist) \/ p = <<t, u>>
      /\ <<t, u>> \in requested' /\ <<t, u>> \in ToSet(wlist)'
    BY <1>4, <1>6
<1>8. QED BY <1>4, <1>5, <1>6, <1>7, QuietStep

LEMMA CallPropagateIInv == ASSUME IInv, CallPropagate PROVE IInv'
<1>1. TypeOK'
    BY DEF IInv, TypeOK, CallPropagate, nodes, lookup, loop
<1>2. QED BY <1>1, QuietStep DEF CallPropagate, nodes, loop

(* The pair at the top of the work list, in every step at the loop head. *)
LEMMA TopPair ==
    ASSUME IInv, AtLoopHead
    PROVE  /\ Last(wlist)[1] \in Terms /\ Last(wlist)[2] \in Terms
           /\ Front(wlist) \in Seq(Terms \X Terms)
           /\ ToSet(wlist) = ToSet(Front(wlist)) \cup {Last(wlist)}
BY PopSet DEF IInv, TypeOK, AtLoopHead

LEMMA DropPairIInv == ASSUME IInv, DropPair PROVE IInv'
<1>1. TypeOK'
    BY TopPair DEF IInv, TypeOK, DropPair, nodes, lookup
<1>2. ToSet(wlist) = ToSet(wlist)' \cup {Last(wlist)}
    BY TopPair DEF DropPair
<1>3. SameClass(Last(wlist)[1], Last(wlist)[2])
    BY DEF DropPair, SameClass
<1>4. UNCHANGED <<g, parent, eclass, requested>>
    BY DEF DropPair, nodes
<1>5. QED BY <1>1, <1>2, <1>3, <1>4, QuietStep

LEMMA RelinkIInv == ASSUME IInv, NEW use \in Terms, Relink(use) PROVE IInv'
<1>1. PICK order \in SetToSeqs(Matches(use)) :
         wlist' = wlist \o [i \in DOMAIN order |-> <<use, order[i]>>]
    BY DEF Relink
<1> DEFINE pushed == [i \in DOMAIN order |-> <<use, order[i]>>]
<1>2. pushed \in Seq(Terms \X Terms)
      /\ \A p \in ToSet(pushed) : \E x \in Matches(use) : p = <<use, x>>
    BY MatchesOrdered
<1>3. wlist' \in Seq(Terms \X Terms) /\ ToSet(wlist)' = ToSet(wlist) \cup ToSet(pushed)
    <2>1. wlist \in Seq(Terms \X Terms)
        BY DEF IInv, TypeOK
    <2> HIDE DEF pushed
    <2>2. wlist' = wlist \o pushed
        BY <1>1 DEF pushed
    <2>3. QED BY <2>1, <2>2, <1>2, ConcatSet
<1>4. ASSUME NEW p \in ToSet(pushed) PROVE Congruent(p[1], p[2])
    <2>1. PICK x \in Matches(use) : p = <<use, x>>
        BY <1>2
    <2>2. p[1] = use /\ p[2] = x /\ Congruent(use, x)
        BY <2>1 DEF Matches
    <2>3. QED BY <2>2
<1>5. TypeOK'
    <2>1. uselist' \in [Terms -> SUBSET Terms] /\ uses' \subseteq Terms
        BY DEF IInv, TypeOK, Relink
    <2>2. \A e \in table' : e[2] \in Terms
        BY DEF IInv, TypeOK, Relink
    <2>3. QED BY <2>1, <2>2, <1>3 DEF IInv, TypeOK, Relink, nodes
<1>6. UNCHANGED <<g, parent, eclass, requested>>
    BY DEF Relink, nodes
<1>7. QED BY <1>3, <1>4, <1>5, <1>6, QuietStep

LEMMA ReturnIInv == ASSUME IInv, Return PROVE IInv'
<1>1. TypeOK'
    BY DEF IInv, TypeOK, Return, nodes, lookup, loop
<1>2. QED BY <1>1, QuietStep DEF Return, nodes, loop

LEMMA StutterIInv == ASSUME IInv, UNCHANGED vars PROVE IInv'
<1>1. TypeOK'
    BY DEF IInv, TypeOK, vars
<1>2. QED BY <1>1, QuietStep DEF vars

LEMMA UniteIInv == ASSUME IInv, Unite PROVE IInv'
<1> DEFINE tt == Last(wlist)[1]
           ut == Last(wlist)[2]
<1>1. AtLoopHead /\ tt \in Terms /\ ut \in Terms
    BY TopPair DEF Unite
<1>2. ~SameClass(tt, ut) /\ UniteSmaller(tt, ut)
    BY DEF Unite
<1>3. UNCHANGED <<g, pc, checked, requested>> /\ merged' = merged + 1
    BY DEF Unite
<1>4. wlist' = Front(wlist) \o DownPairs(tt, ut)
      /\ uses' = uselist[tt] /\ target' = ut
      /\ uselist' = [uselist EXCEPT ![tt] = {}]
      /\ table' \subseteq table
    BY DEF Unite
<1>5. /\ parent' \in [Terms -> Terms \cup {NoNode}]
      /\ eclass' \in [Terms -> SUBSET Terms]
      /\ ForestInv'
      /\ \A t \in Terms : Rep(t)' \in Terms /\ Rep(Rep(t))' = Rep(t)'
      /\ \A x, y \in Terms : SameClass(x, y)' <=> Joined(tt, ut, x, y)
    BY <1>1, <1>2, UniteJoins DEF IInv
<1>6. /\ wlist' \in Seq(Terms \X Terms)
      /\ ToSet(wlist)' = ToSet(Front(wlist)) \cup ToSet(DownPairs(tt, ut))
    <2>1. Front(wlist) \in Seq(Terms \X Terms)
        BY <1>1, TopPair
    <2>2. DownPairs(tt, ut) \in Seq(Terms \X Terms)
        BY <1>1, DownPairsAreEqual DEF IInv
    <2>3. QED BY <2>1, <2>2, <1>4, ConcatSet
<1>7. TypeOK'
    <2>1. uselist' \in [Terms -> SUBSET Terms] /\ uses' \subseteq Terms /\ merged' \in Nat
        BY <1>1, <1>3, <1>4 DEF IInv, TypeOK
    <2>2. \A e \in table' : e[2] \in Terms
        BY <1>4 DEF IInv, TypeOK
    <2>3. QED BY <2>1, <2>2, <1>1, <1>3, <1>4, <1>5, <1>6 DEF IInv, TypeOK
<1>8. Last(wlist) \in ToSet(wlist) /\ Last(wlist) = <<tt, ut>>
    BY <1>1, TopPair, WaitingPairs
<1>9. g.id[tt] = g.id[ut] /\ \A c \in Runs[g] : Identifies(c, requested) => c[tt] = c[ut]
    BY <1>8, WaitingPairs
<1>10. \A x, y \in Terms : SameClass(x, y) => SameClass(x, y)'
    BY <1>5 DEF Joined
<1>11. ClassesMonochrome'
    BY <1>1, <1>3, <1>5, <1>9 DEF IInv, ClassesMonochrome, Joined
<1>12. Sound'
    <2>1. SUFFICES ASSUME NEW c \in Runs[g], Identifies(c, requested), NEW t \in Terms
                   PROVE  c[t] = c[Rep(t)']
        BY <1>3 DEF Sound
    <2>2. \A x, y \in Terms : SameClass(x, y) => c[x] = c[y]
        BY <2>1 DEF IInv, Sound, SameClass
    <2>3. Rep(t)' \in Terms /\ SameClass(t, Rep(t))'
        BY <1>5 DEF SameClass
    <2>4. Joined(tt, ut, t, Rep(t)')
        BY <2>3, <1>5
    <2>5. QED BY <2>1, <2>2, <2>3, <2>4, <1>1, <1>9 DEF Joined
<1>13. \A x, y \in Terms : Congruent(x, y) => Congruent(x, y)'
    <2>1. SUFFICES ASSUME NEW x \in Terms, NEW y \in Terms, Congruent(x, y)
                   PROVE  Congruent(x, y)'
        OBVIOUS
    <2>2. \A i \in DOMAIN g.ops[x] : g.ops[x][i] \in Terms /\ g.ops[y][i] \in Terms
        BY <2>1, GraphFacts, LenProperties, ElementOfSeq DEF IInv, Congruent
    <2>3. QED BY <2>1, <2>2, <1>3, <1>10 DEF Congruent
<1>14. \A p \in ToSet(wlist) : p[1] \in Terms /\ p[2] \in Terms
    BY WaitingPairs
<1>15. Justified'
    <2>1. SUFFICES ASSUME NEW p \in ToSet(wlist)'
                   PROVE  p \in requested \/ Congruent(p[1], p[2])' \/ SameClass(p[1], p[2])'
        BY <1>3 DEF Justified
    <2>2. CASE p \in ToSet(Front(wlist))
        <3>1. p \in ToSet(wlist)
            BY <2>2, <1>1, TopPair
        <3>2. QED BY <3>1, <1>10, <1>13, <1>14 DEF IInv, Justified
    <2>3. CASE p \in ToSet(DownPairs(tt, ut))
        <3>1. SameClass(p[1], p[2])
            BY <2>3, <1>1, DownPairsAreEqual DEF IInv
        <3>2. p[1] \in Terms /\ p[2] \in Terms
            <4>1. DownPairs(tt, ut) \in Seq(Terms \X Terms)
                BY <1>1, DownPairsAreEqual DEF IInv
            <4>2. p \in Terms \X Terms
                BY <4>1, <2>3, LenProperties, ElementOfSeq DEF ToSet
            <4>3. QED BY <4>2
        <3>3. QED BY <3>1, <3>2, <1>10
    <2>4. QED BY <2>2, <2>3, <1>6
<1>16. RequestsKept'
    <2>1. SUFFICES ASSUME NEW p \in requested
                   PROVE  p \in ToSet(wlist)' \/ SameClass(p[1], p[2])'
        BY <1>3 DEF RequestsKept
    <2>2. p[1] \in Terms /\ p[2] \in Terms
        BY DEF IInv, TypeOK
    <2>3. CASE p = Last(wlist)
        BY <2>3, <2>2, <1>5 DEF Joined, SameClass
    <2>4. CASE p # Last(wlist)
        BY <2>4, <2>2, <1>1, <1>6, <1>10, TopPair DEF IInv, RequestsKept
    <2>5. QED BY <2>3, <2>4
<1>17. RequestsMonochrome'
    BY <1>3 DEF IInv, RequestsMonochrome
<1>18. QED BY <1>5, <1>7, <1>11, <1>12, <1>15, <1>16, <1>17 DEF IInv

LEMMA NextIInv == IInv /\ [Next]_vars => IInv'
<1> SUFFICES ASSUME IInv, [Next]_vars PROVE IInv'
    OBVIOUS
<1>1. ASSUME NEW t \in Terms, Checkin(t) PROVE IInv'
    BY <1>1, CheckinIInv
<1>2. ASSUME NEW t \in Terms, NEW u \in Terms, Merge(t, u) PROVE IInv'
    BY <1>2, MergeIInv
<1>3. CASE CallPropagate
    BY <1>3, CallPropagateIInv
<1>4. CASE DropPair
    BY <1>4, DropPairIInv
<1>5. CASE Unite
    BY <1>5, UniteIInv
<1>6. ASSUME NEW use \in Terms, Relink(use) PROVE IInv'
    BY <1>6, RelinkIInv
<1>7. CASE Return
    BY <1>7, ReturnIInv
<1>8. CASE UNCHANGED vars
    BY <1>8, StutterIInv
<1>9. QED
    BY <1>1, <1>2, <1>3, <1>4, <1>5, <1>6, <1>7, <1>8 DEF Next, Propagate, Terminated

(* The invariant holds in every reachable state. *)
THEOREM Invariance == Spec => []IInv
BY InitIInv, NextIInv, PTL DEF Spec

(* Every variable keeps its type (CClosure.h:22-30).                         *)
THEOREM TypeCorrect == Spec => []TypeOK
BY Invariance, PTL DEF IInv

(* The union-find nodes stay a flat forest whose roots list their classes:   *)
(* ENode::check cannot fail (ENode.h:104-119).                               *)
THEOREM ForestCorrect == Spec => []ForestInv
BY Invariance, PTL DEF IInv

(* All terms of a class have one symbol: the assertion of CClosure.cpp:164   *)
(* on the number of operands cannot fail.                                    *)
THEOREM ClassesAreMonochrome == Spec => []ClassesMonochrome
BY Invariance, PTL DEF IInv

(* Nothing is merged that some deterministic automaton identifying the       *)
(* requested pairs keeps apart (CClosure.cpp:46-194).                        *)
THEOREM Soundness == Spec => []Sound
BY Invariance, PTL DEF IInv

-----------------------------------------------------------------------------
(* Unite as the rest of the module sees it. *)
LEMMA UniteFacts ==
    ASSUME IInv, Unite
    PROVE  \E tt, ut \in Terms :
              /\ Last(wlist) = <<tt, ut>>
              /\ ~SameClass(tt, ut)
              /\ \A x, y \in Terms : SameClass(x, y)' <=> Joined(tt, ut, x, y)
              /\ uses' = uselist[tt]
              /\ uselist' = [uselist EXCEPT ![tt] = {}]
              /\ table' = table \ {<<Hash(use), use>> : use \in uselist[tt]}
              /\ target' = ut
              /\ \E b \in Terms :
                    /\ parent[b] = NoNode
                    /\ \A t \in Terms : parent'[t] = NoNode <=> parent[t] = NoNode /\ t # b
<1> DEFINE tt == Last(wlist)[1]
           ut == Last(wlist)[2]
<1>1. AtLoopHead /\ tt \in Terms /\ ut \in Terms
    BY TopPair DEF Unite
<1>2. Last(wlist) = <<tt, ut>>
    BY <1>1, TopPair, WaitingPairs
<1>3. ~SameClass(tt, ut) /\ UniteSmaller(tt, ut)
    BY DEF Unite
<1>4. /\ \A x, y \in Terms : SameClass(x, y)' <=> Joined(tt, ut, x, y)
      /\ \E b \in Terms :
            /\ parent[b] = NoNode
            /\ \A t \in Terms : parent'[t] = NoNode <=> parent[t] = NoNode /\ t # b
    BY <1>1, <1>3, UniteJoins DEF IInv
<1>5. /\ uses' = uselist[tt]
      /\ uselist' = [uselist EXCEPT ![tt] = {}]
      /\ table' = table \ {<<Hash(use), use>> : use \in uselist[tt]}
      /\ target' = ut
    BY DEF Unite
<1>6. QED BY <1>1, <1>2, <1>3, <1>4, <1>5

(* Every step but Unite leaves the nodes alone. *)
LEMMA NodesUnchanged ==
    ASSUME [Next]_vars, ~Unite
    PROVE  UNCHANGED <<g, parent, eclass>>
BY DEF Next, Checkin, Merge, CallPropagate, Propagate, DropPair, Relink, Return,
       Terminated, vars, nodes

(* Equalities are never undone (ENode.h:69-77).                              *)
THEOREM EqualitiesAreKept == Spec => EqualitiesKept
<1>1. IInv /\ [Next]_vars => [\A t \in Terms : \A r \in {Rep(t)} : SameClass(t, r)']_vars
    <2> SUFFICES ASSUME IInv, [Next]_vars, NEW t \in Terms, NEW r \in {Rep(t)}
                 PROVE  SameClass(t, r)'
        OBVIOUS
    <2>1. Rep(t) \in Terms /\ SameClass(t, Rep(t))
        BY RepProperties DEF IInv, SameClass
    <2>2. r \in Terms /\ SameClass(t, r)
        BY <2>1
    <2>3. CASE Unite
        BY <2>2, <2>3, UniteFacts DEF Joined
    <2>4. CASE ~Unite
        BY <2>2, <2>4, NodesUnchanged DEF SameClass, Rep
    <2>5. QED BY <2>3, <2>4
<1>2. QED BY <1>1, Invariance, PTL DEF Spec, EqualitiesKept

(* "Merged eq classes" is exact (CClosure.cpp:81, 215, 235).                 *)
THEOREM MergesAreCounted == Spec => []CountMerged
<1> DEFINE roots == {t \in Terms : parent[t] = NoNode}
<1>1. Init => CountMerged
    <2> SUFFICES ASSUME Init PROVE CountMerged
        OBVIOUS
    <2>1. roots = Terms /\ merged = 0
        BY DEF Init
    <2>2. Cardinality(Terms) \in Nat
        BY TermsAssumption, FS_CardinalityType
    <2>3. QED BY <2>1, <2>2 DEF CountMerged
<1>2. IInv /\ CountMerged /\ [Next]_vars => CountMerged'
    <2> SUFFICES ASSUME IInv, CountMerged, [Next]_vars PROVE CountMerged'
        OBVIOUS
    <2>1. IsFiniteSet(roots)
        BY TermsAssumption, FS_Subset
    <2>2. CASE Unite
        <3>1. PICK b \in Terms :
                 /\ parent[b] = NoNode
                 /\ \A t \in Terms : parent'[t] = NoNode <=> parent[t] = NoNode /\ t # b
            BY <2>2, UniteFacts
        <3>2. roots' = roots \ {b} /\ b \in roots
            BY <3>1
        <3>3. Cardinality(roots \ {b}) = Cardinality(roots) - 1 /\ Cardinality(roots) \in Nat
            BY <2>1, <3>2, FS_RemoveElement, FS_CardinalityType
        <3>4. merged' = merged + 1 /\ merged \in Nat
            BY <2>2 DEF Unite, IInv, TypeOK
        <3>5. merged + Cardinality(roots) = Cardinality(Terms)
            BY DEF CountMerged
        <3> HIDE DEF roots
        <3>6. merged' + Cardinality(roots') = Cardinality(Terms)
            BY <3>2, <3>3, <3>4, <3>5
        <3>7. QED BY <3>6 DEF CountMerged, roots
    <2>3. CASE ~Unite
        <3>1. merged' = merged
            BY <2>3 DEF Next, Checkin, Merge, CallPropagate, Propagate, DropPair, Relink,
                        Return, Terminated, vars
        <3>2. QED BY <2>3, <3>1, NodesUnchanged DEF CountMerged
    <2>4. QED BY <2>2, <2>3
<1>3. QED BY <1>1, <1>2, Invariance, PTL DEF Spec

-----------------------------------------------------------------------------
(* Use lists and the lookup table.  Both facts need to know how far the      *)
(* client has come.                                                          *)
Progress ==
    /\ pc = "build" => uses = {}
    /\ pc # "build" => checked = Terms
    /\ \A t \in Terms \ checked : uselist[t] = {}
    /\ uses # {} => target \in Terms

LookupInv == Progress /\ UseListsCover /\ TableFresh

(* The key of a term never changes, because the representative of an         *)
(* operand has the symbol of the operand.                                    *)
LEMMA HashIsConstant ==
    ASSUME IInv, IInv', UNCHANGED g, NEW t \in Terms
    PROVE  Hash(t)' = Hash(t)
<1> DEFINE H == <<g.id[t], [i \in DOMAIN g.ops[t] |-> g.id[g.ops[t][i]]]>>
<1>1. \A i \in DOMAIN g.ops[t] : g.ops[t][i] \in Terms
    BY GraphFacts, LenProperties, ElementOfSeq DEF IInv
<1>2. \A x \in Terms : g.id[Rep(x)] = g.id[x]
    BY RepProperties DEF IInv, ClassesMonochrome, SameClass
<1>3. \A x \in Terms : Rep(x)' \in Terms /\ Rep(Rep(x))' = Rep(x)'
    <2>1. parent' \in [Terms -> Terms \cup {NoNode}] /\ FlatForest(parent')
        BY DEF IInv, TypeOK, ForestInv, FlatForest
    <2>2. \A x \in Terms : Rep(x)' = RootOf(parent', x)
        BY <2>1, RepFlat DEF Rep
    <2>3. QED BY <2>1, <2>2 DEF RootOf, FlatForest
<1>4. \A x \in Terms : g.id[Rep(x)'] = g.id[x]
    BY <1>3 DEF IInv, ClassesMonochrome, SameClass
<1>5. Hash(t) = H
    BY <1>1, <1>2 DEF Hash
<1>6. Hash(t)' = H
    BY <1>1, <1>4 DEF Hash
<1>7. QED BY <1>5, <1>6

LEMMA QuietClasses ==
    ASSUME [Next]_vars, ~Unite
    PROVE  \A x, y : SameClass(x, y)' <=> SameClass(x, y)
BY NodesUnchanged DEF SameClass, Rep

LEMMA GraphFixed == [Next]_vars => UNCHANGED g
BY DEF Next, Checkin, Merge, CallPropagate, Propagate, DropPair, Unite, Relink, Return,
       Terminated, vars

LEMMA InitLookupInv == Init => LookupInv
<1> SUFFICES ASSUME Init PROVE LookupInv
    OBVIOUS
<1>1. Progress
    BY DEF Init, Progress
<1>2. UseListsCover /\ TableFresh
    BY DEF Init, UseListsCover, TableFresh
<1>3. QED BY <1>1, <1>2 DEF LookupInv

LEMMA ProgressStep == IInv /\ Progress /\ [Next]_vars => Progress'
<1> SUFFICES ASSUME IInv, Progress, [Next]_vars PROVE Progress'
    OBVIOUS
<1>1. ASSUME NEW t \in Terms, Checkin(t) PROVE Progress'
    BY <1>1 DEF Checkin, Progress, IInv, TypeOK
<1>2. ASSUME NEW t \in Terms, NEW u \in Terms, Merge(t, u) PROVE Progress'
    BY <1>2 DEF Merge, Progress, lookup
<1>3. CASE CallPropagate
    BY <1>3 DEF CallPropagate, Progress, lookup, loop
<1>4. CASE DropPair
    BY <1>4 DEF DropPair, Progress, lookup, AtLoopHead
<1>5. CASE Unite
    <2>1. pc = "propagate" /\ pc' = pc /\ checked' = checked /\ target' = Last(wlist)[2]
        BY <1>5 DEF Unite, AtLoopHead
    <2>2. target' \in Terms
        BY <1>5, <2>1, TopPair DEF Unite
    <2>3. QED BY <2>1, <2>2 DEF Progress
<1>6. ASSUME NEW use \in Terms, Relink(use) PROVE Progress'
    BY <1>6 DEF Relink, Progress
<1>7. CASE Return
    BY <1>7 DEF Return, Progress, lookup, loop
<1>8. CASE UNCHANGED vars
    BY <1>8 DEF vars, Progress
<1>9. QED
    BY <1>1, <1>2, <1>3, <1>4, <1>5, <1>6, <1>7, <1>8 DEF Next, Propagate, Terminated

LEMMA UseListsStep == IInv /\ Progress /\ UseListsCover /\ [Next]_vars => UseListsCover'
<1> SUFFICES ASSUME IInv, Progress, UseListsCover, [Next]_vars,
                    NEW t \in checked', NEW v \in Uses(Terms, g, t)
             PROVE  \/ \E w \in Terms : SameClass(w, t)' /\ v \in uselist'[w]
                    \/ v \in uses' /\ SameClass(target, t)'
    BY GraphFixed DEF UseListsCover, Uses
<1>1. uselist \in [Terms -> SUBSET Terms] /\ checked \subseteq Terms
    BY DEF IInv, TypeOK
<1>2. ASSUME NEW s \in Terms, Checkin(s)
      PROVE  \E w \in Terms : SameClass(w, t)' /\ v \in uselist'[w]
    <2>1. \A x, y : SameClass(x, y)' <=> SameClass(x, y)
        BY <1>2 DEF Checkin, SameClass, Rep
    <2>2. CASE t = s
        BY <2>1, <2>2, <1>1, <1>2 DEF Checkin, SameClass
    <2>3. CASE t # s
        <3>1. t \in checked /\ uses = {}
            BY <2>3, <1>2 DEF Checkin, Progress
        <3>2. PICK w \in Terms : SameClass(w, t) /\ v \in uselist[w]
            BY <3>1 DEF UseListsCover
        <3>3. w # s
            BY <3>2, <1>2 DEF Checkin, Progress
        <3>4. QED BY <2>1, <3>2, <3>3, <1>1, <1>2 DEF Checkin
    <2>4. QED BY <2>2, <2>3
<1>3. CASE Unite
    <2>1. PICK tt, ut \in Terms :
             /\ \A x, y \in Terms : SameClass(x, y)' <=> Joined(tt, ut, x, y)
             /\ uses' = uselist[tt]
             /\ uselist' = [uselist EXCEPT ![tt] = {}]
             /\ target' = ut
        BY <1>3, UniteFacts
    <2>2. uses = {} /\ t \in checked
        BY <1>3 DEF Unite, AtLoopHead
    <2>3. PICK w \in Terms : SameClass(w, t) /\ v \in uselist[w]
        BY <2>2 DEF UseListsCover
    <2>4. t \in Terms
        BY <2>2, <1>1
    <2>5. CASE w = tt
        <3>1. v \in uses' /\ SameClass(tt, t)
            BY <2>1, <2>3, <2>5
        <3>2. Joined(tt, ut, ut, t)
            BY <3>1 DEF Joined, SameClass
        <3>3. SameClass(target, t)'
            <4>1. \A x \in Terms : Joined(tt, ut, x, t) => SameClass(x, t)'
                BY <2>1, <2>4
            <4>2. SameClass(ut, t)'
                BY <3>2, <4>1
            <4>3. QED BY <4>2, <2>1 DEF SameClass, Rep
        <3>4. QED BY <3>1, <3>3
    <2>6. CASE w # tt
        <3>1. v \in uselist'[w]
            BY <2>1, <2>3, <2>6, <1>1
        <3>2. SameClass(w, t)'
            BY <2>1, <2>3, <2>4 DEF Joined
        <3>3. QED BY <3>1, <3>2
    <2>7. QED BY <2>5, <2>6
<1>4. ASSUME NEW use \in Terms, Relink(use)
      PROVE  \/ \E w \in Terms : SameClass(w, t)' /\ v \in uselist'[w]
             \/ v \in uses' /\ SameClass(target, t)'
    <2>1. \A x, y : SameClass(x, y)' <=> SameClass(x, y)
        BY <1>4 DEF Relink, nodes, SameClass, Rep
    <2>2. target \in Terms /\ target' = target /\ t \in checked
        BY <1>4 DEF Relink, Progress
    <2>3. \A w \in Terms : uselist[w] \subseteq uselist'[w]
        BY <1>1, <1>4 DEF Relink
    <2>4. use \in uselist'[target] /\ uses' = uses \ {use}
        BY <1>1, <1>4, <2>2 DEF Relink
    <2>5. CASE \E w \in Terms : SameClass(w, t) /\ v \in uselist[w]
        BY <2>1, <2>3, <2>5
    <2>6. CASE v \in uses /\ SameClass(target, t)
        <3>1. SameClass(target, t)'
            BY <2>1, <2>2, <2>6 DEF SameClass, Rep
        <3>2. CASE v = use
            BY <2>2, <2>4, <3>1, <3>2 DEF SameClass, Rep
        <3>3. CASE v # use
            BY <2>4, <2>6, <3>1, <3>3
        <3>4. QED BY <3>2, <3>3
    <2>7. QED BY <2>2, <2>5, <2>6 DEF UseListsCover
<1>5. CASE UNCHANGED <<checked, parent, uselist, uses, target>>
    BY <1>5 DEF UseListsCover, SameClass, Rep
<1>6. QED
    BY <1>2, <1>3, <1>4, <1>5
       DEF Next, Merge, CallPropagate, Propagate, DropPair, Return, Terminated, vars,
           nodes, lookup, loop

LEMMA TableStep == IInv /\ IInv' /\ Progress /\ TableFresh /\ [Next]_vars => TableFresh'
<1> SUFFICES ASSUME IInv, IInv', Progress, TableFresh, [Next]_vars, NEW t \in Terms
             PROVE  {e \in table' : e[2] = t} =
                       IF t \in checked' \ uses' THEN {<<Hash(t), t>>} ELSE {}
    BY GraphFixed, HashIsConstant DEF TableFresh
<1>1. {e \in table : e[2] = t} = IF t \in checked \ uses THEN {<<Hash(t), t>>} ELSE {}
    BY DEF TableFresh
<1>2. ASSUME NEW s \in Terms, Checkin(s)
      PROVE  {e \in table' : e[2] = t} =
                       IF t \in checked' \ uses' THEN {<<Hash(t), t>>} ELSE {}
    <2>1. /\ table' = table \cup {<<Hash(s), s>>} /\ checked' = checked \cup {s}
          /\ uses' = {} /\ uses = {} /\ s \notin checked
        BY <1>2 DEF Checkin, Progress
    <2>2. CASE t = s
        BY <1>1, <2>1, <2>2
    <2>3. CASE t # s
        BY <1>1, <2>1, <2>3
    <2>4. QED BY <2>2, <2>3
<1>3. CASE Unite
    <2>1. PICK tt \in Terms :
             /\ uses' = uselist[tt]
             /\ table' = table \ {<<Hash(use), use>> : use \in uselist[tt]}
        BY <1>3, UniteFacts
    <2>2. uses = {} /\ checked = Terms /\ checked' = Terms
        BY <1>3 DEF Unite, AtLoopHead, Progress
    <2>3. {e \in table : e[2] = t} = {<<Hash(t), t>>}
        BY <1>1, <2>2
    <2>4. CASE t \in uses'
        BY <2>1, <2>2, <2>3, <2>4
    <2>5. CASE t \notin uses'
        BY <2>1, <2>2, <2>3, <2>5
    <2>6. QED BY <2>4, <2>5
<1>4. ASSUME NEW use \in Terms, Relink(use)
      PROVE  {e \in table' : e[2] = t} =
                       IF t \in checked' \ uses' THEN {<<Hash(t), t>>} ELSE {}
    <2>1. /\ table' = table \cup {<<Hash(use), use>>} /\ checked' = checked
          /\ uses' = uses \ {use} /\ use \in uses /\ checked = Terms
        BY <1>4 DEF Relink, Progress
    <2>2. CASE t = use
        BY <1>1, <2>1, <2>2
    <2>3. CASE t # use
        BY <1>1, <2>1, <2>3
    <2>4. QED BY <2>2, <2>3
<1>5. CASE UNCHANGED <<checked, table, uses>>
    BY <1>1, <1>5
<1>6. QED
    BY <1>2, <1>3, <1>4, <1>5
       DEF Next, Merge, CallPropagate, Propagate, DropPair, Return, Terminated, vars,
           nodes, lookup, loop

LEMMA LookupInvariance == Spec => []LookupInv
<1>1. IInv /\ IInv' /\ LookupInv /\ [Next]_vars => LookupInv'
    BY ProgressStep, UseListsStep, TableStep DEF LookupInv
<1>2. QED BY <1>1, InitLookupInv, Invariance, PTL DEF Spec

(* No use of a term is ever lost by moving use lists (CClosure.cpp:88-154).  *)
THEOREM UsesAreKept == Spec => []UseListsCover
BY LookupInvariance, PTL DEF LookupInv

(* The lookup table holds exactly the terms not waiting to be relinked, each *)
(* once and under its current key (CClosure.cpp:95-106, 153, 187).           *)
THEOREM TableIsFresh == Spec => []TableFresh
BY LookupInvariance, PTL DEF LookupInv

-----------------------------------------------------------------------------
(* The closure implements the abstract closure. *)
Partition == {p \in Terms \X Terms : SameClass(p[1], p[2])}

LEMMA QuietPartition ==
    ASSUME [Next]_vars, ~Unite
    PROVE  UNCHANGED <<g, Partition>>
BY QuietClasses, GraphFixed DEF Partition

LEMMA InitRefines == Init => Abs!Init
<1> SUFFICES ASSUME Init PROVE Abs!Init
    OBVIOUS
<1>1. \A t \in Terms : Rep(t) = t
    BY InitIInv, RepProperties DEF IInv, Init, RootOf
<1>2. \A t, u \in Terms : SameClass(t, u) <=> t = u
    BY <1>1 DEF SameClass
<1>3. Partition = {<<t, t>> : t \in Terms}
    BY <1>2 DEF Partition
<1>4. QED BY <1>3 DEF Init, Abs!Init, AbsPhase, Partition

LEMMA StepRefines == IInv /\ [Next]_vars => [Abs!Next]_(Abs!vars)
<1> SUFFICES ASSUME IInv, [Next]_vars PROVE [Abs!Next]_(Abs!vars)
    OBVIOUS
<1>1. CASE Unite
    <2>1. PICK tt, ut \in Terms :
             /\ Last(wlist) = <<tt, ut>>
             /\ ~SameClass(tt, ut)
             /\ \A x, y \in Terms : SameClass(x, y)' <=> Joined(tt, ut, x, y)
        BY <1>1, UniteFacts
    <2>2. <<tt, ut>> \in requested \/ Congruent(tt, ut)
        <3>1. <<tt, ut>> \in ToSet(wlist)
            BY <1>1, <2>1, TopPair DEF Unite
        <3>2. QED BY <2>1, <3>1 DEF IInv, Justified
    <2>3. \A x, y \in Terms : Abs!Related(x, y) <=> SameClass(x, y)
        BY DEF Abs!Related
    <2>4. Congruent(tt, ut) => Abs!Congruent(tt, ut)
        <3>1. SUFFICES ASSUME Congruent(tt, ut) PROVE Abs!Congruent(tt, ut)
            OBVIOUS
        <3>2. \A i \in DOMAIN g.ops[tt] : g.ops[tt][i] \in Terms /\ g.ops[ut][i] \in Terms
            BY <3>1, GraphFacts, LenProperties, ElementOfSeq DEF IInv, Congruent
        <3>3. QED BY <3>1, <3>2, <2>3 DEF Congruent, Abs!Congruent
    <2>5. Partition' = Abs!Join(tt, ut)
        <3>1. \A x, y \in Terms : <<x, y>> \in Abs!Join(tt, ut) <=> Joined(tt, ut, x, y)
            BY <2>3 DEF Abs!Join, Joined
        <3>2. \A x, y \in Terms : <<x, y>> \in Partition' <=> Joined(tt, ut, x, y)
            BY <2>1 DEF Partition
        <3>3. Partition' \subseteq Terms \X Terms /\ Abs!Join(tt, ut) \subseteq Terms \X Terms
            BY DEF Partition, Abs!Join
        <3>4. QED BY <3>1, <3>2, <3>3
    <2>6. pc = "propagate" /\ UNCHANGED <<g, pc, requested>>
        BY <1>1 DEF Unite, AtLoopHead
    <2>7. Abs!JoinPair(tt, ut)
        BY <2>2, <2>4, <2>5, <2>6 DEF Abs!JoinPair, AbsPhase, Partition
    <2>8. QED BY <2>7 DEF Abs!Next
<1>2. ASSUME NEW t \in Terms, NEW u \in Terms, Merge(t, u)
      PROVE  Abs!Next
    <2>1. UNCHANGED <<g, Partition>>
        <3>1. ~Unite
            BY <1>2 DEF Merge, Unite, AtLoopHead
        <3>2. QED BY <3>1, QuietPartition
    <2>2. Abs!Request(t, u)
        BY <1>2, <2>1 DEF Merge, Abs!Request, AbsPhase, Partition
    <2>3. QED BY <2>2 DEF Abs!Next
<1>3. CASE CallPropagate
    <2>1. UNCHANGED <<g, Partition>>
        <3>1. ~Unite
            BY <1>3 DEF CallPropagate, Unite, AtLoopHead
        <3>2. QED BY <3>1, QuietPartition
    <2>2. Abs!StartClosing
        BY <1>3, <2>1 DEF CallPropagate, Abs!StartClosing, AbsPhase, Partition
    <2>3. QED BY <2>2 DEF Abs!Next
<1>4. CASE Return
    <2>1. UNCHANGED <<g, Partition>>
        <3>1. ~Unite
            BY <1>4 DEF Return, Unite, AtLoopHead
        <3>2. QED BY <3>1, QuietPartition
    <2>2. requested \subseteq Partition
        <3>1. ToSet(wlist) = {}
            BY <1>4 DEF Return, ToSet
        <3>2. \A p \in requested : SameClass(p[1], p[2])
            BY <3>1 DEF IInv, RequestsKept
        <3>3. QED BY <3>2 DEF IInv, TypeOK, Partition
    <2>3. Abs!Finish
        BY <1>4, <2>1, <2>2 DEF Return, Abs!Finish, AbsPhase, Partition
    <2>4. QED BY <2>3 DEF Abs!Next
<1>5. CASE ~Unite /\ UNCHANGED <<pc, requested>>
    <2>1. UNCHANGED <<g, Partition>>
        BY <1>5, QuietPartition
    <2>2. QED BY <1>5, <2>1 DEF Abs!vars, AbsPhase, Partition
<1>6. ASSUME NEW t \in Terms, Checkin(t) PROVE UNCHANGED <<pc, requested>>
    BY <1>6 DEF Checkin
<1>7. CASE DropPair
    BY <1>5, <1>7, <1>1 DEF DropPair
<1>8. ASSUME NEW use \in Terms, Relink(use) PROVE UNCHANGED <<pc, requested>>
    BY <1>8 DEF Relink
<1>9. CASE UNCHANGED vars
    BY <1>5, <1>9, <1>1 DEF vars
<1>10. QED
    BY <1>1, <1>2, <1>3, <1>4, <1>5, <1>6, <1>7, <1>8, <1>9 DEF Next, Propagate, Terminated

(* The closure joins only requested or congruent pairs, one pair a step, and *)
(* returns only when every request is served (CClosure.cpp:42-194).          *)
THEOREM Refinement == Spec => ImplementsCongruence
<1>1. Spec => Abs!Init /\ [][Abs!Next]_(Abs!vars)
    BY InitRefines, StepRefines, Invariance, PTL DEF Spec
<1>2. QED BY <1>1, PTL DEF ImplementsCongruence, Abs!Spec
=============================================================================
