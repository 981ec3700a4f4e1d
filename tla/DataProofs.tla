---------------------------- MODULE DataProofs ------------------------------
(***************************************************************************)
(* Lemmas about the data of the models: numbers, recursion and folds, the    *)
(* words of a machine, and what Term::klevEqual is on hash-consed term       *)
(* graphs.                                                                  *)
(*                                                                          *)
(* The set of the elements an induction has reached stands for its           *)
(* hypothesis, and a function from candidate results to results for the      *)
(* body of a recursive definition, so that the lemmas are about sets only.   *)
(***************************************************************************)
EXTENDS TermGraph, MachineWords, SequencesExt, SequenceTheorems, FiniteSetTheorems,
        WellFoundedInduction, TLAPS

(* Every non-empty set of numbers has a least one. *)
LEMMA LeastNatural ==
    ASSUME NEW T \in SUBSET Nat, T # {}
    PROVE  \E n \in T : \A m \in T : n <= m
<1> DEFINE R == OpToRel(<, Nat)
<1>1. IsWellFoundedOn(R, Nat)
    BY NatLessThanWellFounded
<1>2. \A m, n \in Nat : m < n => <<m, n>> \in R
    BY DEF OpToRel
<1> HIDE DEF R
<1>3. PICK n \in T : \A m \in T : ~ (<<m, n>> \in R)
    BY <1>1, WFMin
<1>4. \A m \in T : ~ (m < n)
    BY <1>2, <1>3
<1>5. QED  BY <1>4

LEMMA NatSetInduction ==
    ASSUME NEW T, 0 \in T, \A n \in Nat : n \in T => n + 1 \in T
    PROVE  Nat \subseteq T
<1> SUFFICES ASSUME Nat \ T # {} PROVE FALSE
    OBVIOUS
<1>1. PICK n \in Nat \ T : \A m \in Nat \ T : n <= m
    BY LeastNatural
<1>2. n # 0 /\ n - 1 \in Nat /\ n - 1 < n
    BY <1>1
<1>3. n - 1 \in T
    BY <1>1, <1>2
<1>4. (n - 1) + 1 \in T
    BY <1>2, <1>3
<1>5. QED  BY <1>1, <1>4

(* Finitely many numbers have a bound. *)
LEMMA FiniteBound ==
    ASSUME NEW n \in Nat, NEW f \in [1 .. n -> Nat]
    PROVE  \E m \in Nat : \A i \in 1 .. n : f[i] <= m
<1> DEFINE Bound(k, m) == \A i \in 1 .. n : i <= k => f[i] <= m
           T == {k \in Nat : \E m \in Nat : Bound(k, m)}
<1>1. 0 \in T
    OBVIOUS
<1>2. ASSUME NEW k \in Nat, k \in T PROVE k + 1 \in T
    <2>1. PICK m \in Nat : Bound(k, m)
        BY <1>2
    <2>2. CASE k + 1 \in 1 .. n
        <3>1. m + f[k + 1] \in Nat
            BY <2>2
        <3>2. Bound(k + 1, m + f[k + 1])
            BY <2>1, <2>2
        <3> HIDE DEF Bound
        <3>3. QED  BY <3>1, <3>2
    <2>3. CASE k + 1 \notin 1 .. n
        <3>1. Bound(k + 1, m)
            BY <2>1, <2>3
        <3> HIDE DEF Bound
        <3>2. QED  BY <3>1
    <2>4. QED  BY <2>2, <2>3
<1>3. Nat \subseteq T
    <2> HIDE DEF T
    <2>1. QED  BY <1>1, <1>2, NatSetInduction
<1>4. PICK m \in Nat : Bound(n, m)
    BY <1>3
<1>5. QED  BY <1>4

LEMMA FiniteDepths ==
    ASSUME NEW S, IsFiniteSet(S), NEW depth \in [S -> Nat]
    PROVE  \E m \in Nat : \A s \in S : depth[s] <= m
<1>1. PICK seq \in Seq(S) : \A s \in S : \E i \in 1 .. Len(seq) : seq[i] = s
    BY DEF IsFiniteSet
<1>2. Len(seq) \in Nat /\ \A i \in 1 .. Len(seq) : seq[i] \in S
    OBVIOUS
<1> DEFINE f == [i \in 1 .. Len(seq) |-> depth[seq[i]]]
<1>3. f \in [1 .. Len(seq) -> Nat]
    BY <1>2
<1>4. PICK m \in Nat : \A i \in 1 .. Len(seq) : f[i] <= m
    <2> HIDE DEF f
    <2>1. QED  BY <1>2, <1>3, FiniteBound
<1>5. QED  BY <1>1, <1>4

(* Induction along a depth: T holds what is below, so it holds everything.   *)
LEMMA DepthInduction ==
    ASSUME NEW S, NEW depth \in [S -> Nat], NEW T,
           \A s \in S : (\A r \in S : depth[r] < depth[s] => r \in T) => s \in T
    PROVE  S \subseteq T
<1> SUFFICES ASSUME S \ T # {} PROVE FALSE
    OBVIOUS
<1> DEFINE D == {depth[s] : s \in S \ T}
<1>1. D \in SUBSET Nat /\ D # {}
    OBVIOUS
<1>2. PICK n \in D : \A m \in D : n <= m
    BY <1>1, LeastNatural
<1>3. PICK s \in S \ T : depth[s] = n
    BY <1>2
<1>4. ASSUME NEW r \in S, depth[r] < depth[s] PROVE r \in T
    <2>1. depth[r] \in Nat /\ n \in Nat /\ ~ (n <= depth[r])
        BY <1>1, <1>3, <1>4
    <2>2. depth[r] \notin D
        BY <1>2, <2>1
    <2>3. QED  BY <2>2
<1>5. QED  BY <1>3, <1>4

(* A recursive definition along a depth: a body for each element, that looks  *)
(* only at the results of what is less deep.                                *)
IsRecursion(S, V, depth, body) ==
    /\ V # {}
    /\ depth \in [S -> Nat]
    /\ body \in [S -> [[S -> V] -> V]]
    /\ \A s \in S : \A f, h \in [S -> V] :
          (\A r \in S : depth[r] < depth[s] => f[r] = h[r]) => body[s][f] = body[s][h]

HasSolution(S, V, body) == \E f \in [S -> V] : \A s \in S : f[s] = body[s][f]

(* There is a function that satisfies such a definition. *)
LEMMA DepthRecursion ==
    ASSUME NEW S, NEW V, NEW depth, NEW body, IsRecursion(S, V, depth, body)
    PROVE  HasSolution(S, V, body)
<1> USE DEF IsRecursion
<1> DEFINE Upto(n, f) == \A s \in S : depth[s] < n => f[s] = body[s][f]
           T == {n \in Nat : \E f \in [S -> V] : Upto(n, f)}
<1>1. 0 \in T
    <2>1. PICK v \in V : TRUE
        OBVIOUS
    <2>2. [s \in S |-> v] \in [S -> V] /\ Upto(0, [s \in S |-> v])
        OBVIOUS
    <2>3. QED  BY <2>2
<1>2. ASSUME NEW n \in Nat, n \in T PROVE n + 1 \in T
    <2>1. PICK f \in [S -> V] : Upto(n, f)
        BY <1>2
    <2> DEFINE h == [s \in S |-> body[s][f]]
    <2>2. h \in [S -> V] /\ \A s \in S : h[s] = body[s][f]
        OBVIOUS
    <2> HIDE DEF h
    <2>3. ASSUME NEW s \in S, depth[s] < n + 1 PROVE h[s] = body[s][h]
        <3>1. \A r \in S : depth[r] < depth[s] => f[r] = h[r]
            BY <2>1, <2>2, <2>3
        <3>2. body[s][f] = body[s][h]
            BY <2>2, <3>1
        <3>3. QED  BY <2>2, <3>2
    <2>4. QED  BY <2>2, <2>3
<1>3. Nat \subseteq T
    <2> HIDE DEF T
    <2>1. QED  BY <1>1, <1>2, NatSetInduction
<1>4. \A n \in Nat : \E f \in [S -> V] : Upto(n, f)
    BY <1>3
<1> DEFINE approx(n) == CHOOSE f \in [S -> V] : Upto(n, f)
           F == [s \in S |-> approx(depth[s] + 1)[s]]
<1>5. \A n \in Nat : approx(n) \in [S -> V] /\ Upto(n, approx(n))
    BY <1>4
<1> HIDE DEF approx
(* Approximations agree where both are right. *)
<1>6. ASSUME NEW m \in Nat, NEW n \in Nat
      PROVE  \A s \in S : depth[s] < m /\ depth[s] < n => approx(m)[s] = approx(n)[s]
    <2> DEFINE U == {s \in S : depth[s] < m /\ depth[s] < n => approx(m)[s] = approx(n)[s]}
    <2>1. ASSUME NEW s \in S, \A r \in S : depth[r] < depth[s] => r \in U
          PROVE  s \in U
        <3>1. SUFFICES ASSUME depth[s] < m, depth[s] < n
                       PROVE  approx(m)[s] = approx(n)[s]
            OBVIOUS
        <3>2. \A r \in S : depth[r] < depth[s] => approx(m)[r] = approx(n)[r]
            BY <2>1, <3>1
        <3>3. body[s][approx(m)] = body[s][approx(n)]
            BY <1>5, <3>2
        <3>4. QED  BY <1>5, <3>1, <3>3
    <2>2. S \subseteq U
        <3> HIDE DEF U
        <3>1. QED  BY <2>1, DepthInduction
    <2>3. QED  BY <2>2
<1>7. F \in [S -> V]
    BY <1>5
<1>8. ASSUME NEW s \in S PROVE F[s] = body[s][F]
    <2> DEFINE a == approx(depth[s] + 1)
    <2>0. depth[s] \in Nat /\ depth[s] + 1 \in Nat /\ depth[s] < depth[s] + 1
        OBVIOUS
    <2>1. a \in [S -> V] /\ a[s] = body[s][a] /\ F[s] = a[s]
        BY <1>5, <2>0
    <2>2. ASSUME NEW r \in S, depth[r] < depth[s] PROVE a[r] = F[r]
        BY <1>6, <2>2
    <2> HIDE DEF a, F
    <2>3. body[s][a] = body[s][F]
        BY <1>7, <2>1, <2>2
    <2>4. QED  BY <2>1, <2>3
<1>9. QED  BY <1>7, <1>8 DEF HasSolution
-----------------------------------------------------------------------------
LEMMA MaxIsGreatest ==
    ASSUME NEW n \in Nat, NEW s \in SUBSET (0 .. n), s # {}
    PROVE  Max(s) \in s /\ \A x \in s : x <= Max(s)
<1> DEFINE D == {n - x : x \in s}
<1>1. D \in SUBSET Nat /\ D # {}
    <2>1. \A x \in s : n - x \in Nat
        OBVIOUS
    <2>2. QED  BY <2>1
<1>2. PICK d \in D : \A e \in D : d <= e
    BY <1>1, LeastNatural
<1>3. PICK m \in s : d = n - m
    BY <1>2
<1>4. ASSUME NEW x \in s PROVE m >= x
    <2>1. d <= n - x
        BY <1>2
    <2>2. QED  BY <1>3, <2>1
<1>5. \E x \in s : \A y \in s : x >= y
    BY <1>3, <1>4
<1>6. Max(s) \in s /\ \A y \in s : Max(s) >= y
    BY <1>5 DEF Max
<1>7. QED  BY <1>6

(* A fold over n elements is a recursion over the subsets of their indices,   *)
(* the greatest index first.                                                *)
IsFold(n, V, b, step, f) ==
    \A s \in SUBSET (1 .. n) :
        f[s] = IF s = {} THEN b ELSE step[Max(s)][f[s \ {Max(s)}]]

LEMMA FoldSolution ==
    ASSUME NEW n \in Nat, NEW V, NEW b \in V, NEW step \in [1 .. n -> [V -> V]]
    PROVE  \E f \in [SUBSET (1 .. n) -> V] : IsFold(n, V, b, step, f)
<1> DEFINE S == SUBSET (1 .. n)
           size == [s \in S |-> Cardinality(s)]
           Rest(s) == s \ {Max(s)}
           body == [s \in S |-> [f \in [S -> V] |->
                        IF s = {} THEN b ELSE step[Max(s)][f[Rest(s)]]]]
<1>1. ASSUME NEW s \in S, s # {} PROVE Max(s) \in s /\ Max(s) \in 1 .. n
    <2>1. s \in SUBSET (0 .. n)
        OBVIOUS
    <2>2. QED  BY <1>1, <2>1, MaxIsGreatest
<1>2. ASSUME NEW s \in S PROVE IsFiniteSet(s) /\ Cardinality(s) \in Nat
    <2>1. IsFiniteSet(1 .. n)
        BY FS_Interval
    <2>2. IsFiniteSet(s)
        BY <2>1, FS_Subset
    <2>3. QED  BY <2>2, FS_CardinalityType
<1>3. ASSUME NEW s \in S, s # {} PROVE Rest(s) \in S /\ size[Rest(s)] < size[s]
    <2>1. IsFiniteSet(s) /\ Max(s) \in s /\ Rest(s) \in S
        BY <1>1, <1>2, <1>3
    <2>2. Cardinality(Rest(s)) = Cardinality(s) - 1
        BY <2>1, FS_RemoveElement
    <2>3. QED  BY <1>2, <2>1, <2>2
<1>4. IsRecursion(S, V, size, body)
    <2>1. size \in [S -> Nat]
        BY <1>2
    <2>2. ASSUME NEW s \in S, NEW f \in [S -> V]
          PROVE  (IF s = {} THEN b ELSE step[Max(s)][f[Rest(s)]]) \in V
        <3>1. CASE s # {}
            <4>1. Max(s) \in 1 .. n /\ f[Rest(s)] \in V
                BY <1>1, <1>3, <3>1
            <4>2. QED  BY <3>1, <4>1
        <3>2. QED  BY <3>1
    <2>3. ASSUME NEW s \in S, NEW f \in [S -> V], NEW h \in [S -> V],
                 \A r \in S : size[r] < size[s] => f[r] = h[r]
          PROVE  body[s][f] = body[s][h]
        <3>1. s # {} => f[Rest(s)] = h[Rest(s)]
            BY <1>3, <2>3
        <3>2. QED  BY <3>1
    <2> HIDE DEF S, Rest
    <2>4. body \in [S -> [[S -> V] -> V]]
        BY <2>2
    <2>5. V # {}
        OBVIOUS
    <2> HIDE DEF body, size
    <2>6. QED  BY <2>1, <2>3, <2>4, <2>5 DEF IsRecursion
<1>5. PICK f \in [S -> V] : \A s \in S : f[s] = body[s][f]
    <2> HIDE DEF S, size, body
    <2>1. QED  BY <1>4, DepthRecursion DEF HasSolution
<1>6. \A s \in S : f[s] = IF s = {} THEN b ELSE step[Max(s)][f[Rest(s)]]
    BY <1>5
<1>7. QED  BY <1>6 DEF IsFold

LEMMA MaxOfInterval ==
    ASSUME NEW i \in Nat, i # 0
    PROVE  /\ 1 .. i # {} /\ Max(1 .. i) = i
           /\ (1 .. i) \ {i} = 1 .. i - 1
<1>1. 1 .. i \in SUBSET (0 .. i) /\ 1 .. i # {} /\ i \in 1 .. i
    OBVIOUS
<1>2. Max(1 .. i) \in 1 .. i /\ \A x \in 1 .. i : x <= Max(1 .. i)
    BY <1>1, MaxIsGreatest
<1>3. Max(1 .. i) = i
    BY <1>1, <1>2
<1>4. QED  BY <1>1, <1>3

(* ... and what counts of it are its values at the first i indices.          *)
FollowsSteps(n, V, b, step, f) ==
    /\ f[{}] = b
    /\ \A s \in SUBSET (1 .. n) :
          s # {} /\ f[s \ {Max(s)}] \in V => f[s] = step[Max(s)][f[s \ {Max(s)}]]

HasPrefixes(n, V, b, step, f) ==
    \E g \in [0 .. n -> V] : /\ g[0] = b
                             /\ g[n] = f[1 .. n]
                             /\ \A i \in 1 .. n : g[i] = step[i][g[i - 1]]

LEMMA FoldPrefixes ==
    ASSUME NEW n \in Nat, NEW V, NEW b \in V, NEW step \in [1 .. n -> [V -> V]],
           NEW f, FollowsSteps(n, V, b, step, f)
    PROVE  HasPrefixes(n, V, b, step, f)
<1>1. f[1 .. 0] = b
    <2>1. 1 .. 0 = {}
        OBVIOUS
    <2>2. QED  BY <2>1 DEF FollowsSteps
<1>2. ASSUME NEW i \in 1 .. n, f[1 .. i - 1] \in V PROVE f[1 .. i] = step[i][f[1 .. i - 1]]
    <2>1. i \in Nat /\ i # 0 /\ 1 .. i \in SUBSET (1 .. n)
        OBVIOUS
    <2>2. 1 .. i # {} /\ Max(1 .. i) = i /\ (1 .. i) \ {i} = 1 .. i - 1
        BY <2>1, MaxOfInterval
    <2>3. QED  BY <1>2, <2>1, <2>2 DEF FollowsSteps
<1> DEFINE T == {i \in Nat : i <= n => f[1 .. i] \in V}
<1>3. Nat \subseteq T
    <2>1. 0 \in T
        BY <1>1
    <2>2. ASSUME NEW i \in Nat, i \in T PROVE i + 1 \in T
        <3>1. SUFFICES ASSUME i + 1 <= n PROVE f[1 .. i + 1] \in V
            OBVIOUS
        <3>2. i + 1 \in 1 .. n /\ (i + 1) - 1 = i /\ f[1 .. i] \in V
            BY <2>2, <3>1
        <3>3. f[1 .. i + 1] = step[i + 1][f[1 .. i]]
            BY <1>2, <3>2
        <3>4. QED  BY <3>2, <3>3
    <2> HIDE DEF T
    <2>3. QED  BY <2>1, <2>2, NatSetInduction
<1> DEFINE g == [i \in 0 .. n |-> f[1 .. i]]
<1>4. g \in [0 .. n -> V]
    BY <1>3
<1>5. g[0] = b /\ g[n] = f[1 .. n]
    BY <1>1
<1>6. ASSUME NEW i \in 1 .. n PROVE g[i] = step[i][g[i - 1]]
    <2>1. i \in 0 .. n /\ i - 1 \in 0 .. n
        OBVIOUS
    <2>2. f[1 .. i - 1] \in V
        BY <1>4, <2>1
    <2>3. QED  BY <1>2, <2>1, <2>2
<1> HIDE DEF g
<1>7. QED  BY <1>4, <1>5, <1>6 DEF HasPrefixes

(* Appending to a queue the members of s that are not marked.                *)
Pushed(q, s, marked) ==
    FoldLeft(LAMBDA queue, x : IF x \in marked THEN queue ELSE Append(queue, x), q, s)

LEMMA SetOfAppend ==
    ASSUME NEW S, NEW q \in Seq(S), NEW x \in S
    PROVE  ToSet(Append(q, x)) = ToSet(q) \cup {x}
<1>1. Len(q) \in Nat /\ DOMAIN q = 1 .. Len(q)
    OBVIOUS
<1>2. DOMAIN Append(q, x) = DOMAIN q \cup {Len(q) + 1}
    <2>1. DOMAIN Append(q, x) = 1 .. Len(q) + 1
        OBVIOUS
    <2>2. QED  BY <1>1, <2>1
<1>3. /\ Append(q, x)[Len(q) + 1] = x
      /\ \A i \in DOMAIN q : Append(q, x)[i] = q[i]
    OBVIOUS
<1>4. QED  BY <1>2, <1>3 DEF ToSet

LEMMA SetOfTail ==
    ASSUME NEW S, NEW q \in Seq(S), q # << >>
    PROVE  Head(q) \in S /\ Tail(q) \in Seq(S) /\ ToSet(q) = {Head(q)} \cup ToSet(Tail(q))
<1>1. Head(q) \in S /\ Tail(q) \in Seq(S) /\ Head(q) = q[1]
    OBVIOUS
<1>2. Len(q) \in Nat \ {0} /\ DOMAIN q = 1 .. Len(q) /\ DOMAIN Tail(q) = 1 .. Len(q) - 1
    BY EmptySeq
<1>3. \A i \in 1 .. Len(q) - 1 : Tail(q)[i] = q[i + 1]
    OBVIOUS
<1>4. ASSUME NEW i \in DOMAIN q PROVE q[i] \in {Head(q)} \cup ToSet(Tail(q))
    <2>1. i = 1 \/ (i - 1 \in 1 .. Len(q) - 1 /\ (i - 1) + 1 = i)
        BY <1>2
    <2>2. QED  BY <1>1, <1>2, <1>3, <2>1 DEF ToSet
<1>5. ASSUME NEW i \in DOMAIN Tail(q) PROVE Tail(q)[i] \in ToSet(q)
    <2>1. i + 1 \in DOMAIN q
        BY <1>2
    <2>2. QED  BY <1>2, <1>3, <2>1 DEF ToSet
<1>6. Head(q) \in ToSet(q)
    BY <1>1, <1>2 DEF ToSet
<1>7. QED  BY <1>1, <1>4, <1>5, <1>6 DEF ToSet

LEMMA PushedAre ==
    ASSUME NEW S, NEW q \in Seq(S), NEW s \in Seq(S), NEW marked
    PROVE  /\ Pushed(q, s, marked) \in Seq(S)
           /\ ToSet(Pushed(q, s, marked)) = ToSet(q) \cup (ToSet(s) \ marked)
<1> DEFINE n == Len(s)
           V == Seq(S)
           Step(v, x) == IF x \in marked THEN v ELSE Append(v, x)
           Body(f) == [r \in SUBSET (1 .. n) |->
                         IF r = {} THEN q ELSE Step(f[r \ {Max(r)}], s[Max(r)])]
           iter == CHOOSE f : f = Body(f)
           step == [i \in 1 .. n |-> [v \in V |-> Step(v, s[i])]]
<1>1. n \in Nat /\ DOMAIN s = 1 .. n /\ \A i \in 1 .. n : s[i] \in S
    OBVIOUS
<1>2. Pushed(q, s, marked) = iter[1 .. n]
    BY <1>1 DEF Pushed, FoldLeft, MapThenFoldSet
<1>3. \A i \in 1 .. n : \A v \in V : Step(v, s[i]) \in V
    BY <1>1
<1> HIDE DEF Step, n, V
<1>4. step \in [1 .. n -> [V -> V]] /\ q \in V
    BY <1>3 DEF V
<1>5. PICK f \in [SUBSET (1 .. n) -> V] : IsFold(n, V, q, step, f)
    <2> HIDE DEF step
    <2>1. QED  BY <1>1, <1>4, FoldSolution
<1>6. \A r \in SUBSET (1 .. n) : r # {} => Max(r) \in 1 .. n
    <2>1. \A r \in SUBSET (1 .. n) : r \in SUBSET (0 .. n)
        BY <1>1
    <2>2. QED  BY <1>1, <2>1, MaxIsGreatest
<1>7. f = Body(f)
    <2>1. ASSUME NEW r \in SUBSET (1 .. n)
          PROVE  f[r] = IF r = {} THEN q ELSE Step(f[r \ {Max(r)}], s[Max(r)])
        <3>1. f[r] = IF r = {} THEN q ELSE step[Max(r)][f[r \ {Max(r)}]]
            BY <1>5 DEF IsFold
        <3>2. r # {} => /\ f[r \ {Max(r)}] \in V /\ Max(r) \in 1 .. n
            BY <1>6
        <3>3. QED  BY <3>1, <3>2
    <2>2. QED  BY <2>1
<1>8. iter = Body(iter)
    <2> HIDE DEF Body
    <2>1. QED  BY <1>7
<1>9. \A r \in SUBSET (1 .. n) :
         iter[r] = IF r = {} THEN q ELSE Step(iter[r \ {Max(r)}], s[Max(r)])
    <2> HIDE DEF iter
    <2>1. QED  BY <1>8
<1> HIDE DEF iter
<1>10. PICK g \in [0 .. n -> V] : /\ g[0] = q
                                  /\ g[n] = iter[1 .. n]
                                  /\ \A i \in 1 .. n : g[i] = step[i][g[i - 1]]
    <2>1. iter[{}] = q
        BY <1>9
    <2>2. ASSUME NEW r \in SUBSET (1 .. n), r # {}, iter[r \ {Max(r)}] \in V
          PROVE  iter[r] = step[Max(r)][iter[r \ {Max(r)}]]
        BY <1>6, <1>9, <2>2
    <2> HIDE DEF step
    <2>3. FollowsSteps(n, V, q, step, iter)
        BY <2>1, <2>2 DEF FollowsSteps
    <2>4. HasPrefixes(n, V, q, step, iter)
        BY <1>1, <1>4, <2>3, FoldPrefixes
    <2>5. QED  BY <2>4 DEF HasPrefixes
<1>11. \A i \in 1 .. n : g[i] = Step(g[i - 1], s[i])
    <2>1. SUFFICES ASSUME NEW i \in 1 .. n PROVE g[i] = Step(g[i - 1], s[i])
        OBVIOUS
    <2>2. i - 1 \in 0 .. n
        BY <1>1
    <2>3. QED  BY <1>10, <2>2
<1> DEFINE New(i) == {s[j] : j \in 1 .. i} \ marked
           T == {i \in Nat : i <= n => ToSet(g[i]) = ToSet(q) \cup New(i)}
<1>12. 0 \in T
    BY <1>10
<1>13. ASSUME NEW i \in Nat, i \in T PROVE i + 1 \in T
    <2>1. SUFFICES ASSUME i + 1 <= n PROVE ToSet(g[i + 1]) = ToSet(q) \cup New(i + 1)
        OBVIOUS
    <2>2. /\ i \in 0 .. n /\ i + 1 \in 1 .. n /\ (i + 1) - 1 = i /\ g[i] \in V
          /\ ToSet(g[i]) = ToSet(q) \cup New(i)
        BY <1>1, <1>10, <1>13, <2>1
    <2>3. g[i + 1] = Step(g[i], s[i + 1])
        BY <1>11, <2>2
    <2>4. {s[j] : j \in 1 .. i + 1} = {s[j] : j \in 1 .. i} \cup {s[i + 1]}
        <3>1. 1 .. i + 1 = (1 .. i) \cup {i + 1}
            OBVIOUS
        <3>2. QED  BY <3>1
    <2>5. CASE s[i + 1] \in marked
        BY <2>2, <2>3, <2>4, <2>5 DEF Step
    <2>6. CASE s[i + 1] \notin marked
        <3>1. PICK v \in Seq(S), x \in S : v = g[i] /\ x = s[i + 1]
            BY <1>1, <2>2 DEF V
        <3>2. g[i + 1] = Append(v, x)
            BY <2>3, <2>6, <3>1 DEF Step
        <3>3. ToSet(Append(v, x)) = ToSet(v) \cup {x}
            BY SetOfAppend
        <3>4. QED  BY <2>2, <2>4, <2>6, <3>1, <3>2, <3>3
    <2>7. QED  BY <2>5, <2>6
<1>14. Nat \subseteq T
    <2> HIDE DEF T
    <2>1. QED  BY <1>12, <1>13, NatSetInduction
<1>15. ToSet(g[n]) = ToSet(q) \cup New(n) /\ g[n] \in V
    BY <1>1, <1>10, <1>14
<1>16. ToSet(s) = {s[j] : j \in 1 .. n}
    BY <1>1 DEF ToSet
<1>17. QED  BY <1>2, <1>10, <1>15, <1>16 DEF V

-----------------------------------------------------------------------------
(* What IsTermGraph says of operands: they are terms, and less deep.         *)
LEMMA OperandsAre ==
    ASSUME NEW Terms, NEW g, IsTermGraph(Terms, g), NEW t \in Terms
    PROVE  /\ g.ops[t] \in Seq(Terms) /\ g.depth[t] \in Nat
           /\ DOMAIN g.ops[t] = 1 .. Len(g.ops[t]) /\ Len(g.ops[t]) \in Nat
           /\ \A i \in DOMAIN g.ops[t] : /\ g.ops[t][i] \in Terms
                                         /\ g.depth[g.ops[t][i]] \in Nat
                                         /\ g.depth[g.ops[t][i]] < g.depth[t]
<1>1. g.ops[t] \in Seq(Terms) /\ g.depth \in [Terms -> Nat]
    BY DEF IsTermGraph
<1>2. DOMAIN g.ops[t] = 1 .. Len(g.ops[t]) /\ Len(g.ops[t]) \in Nat
      /\ \A i \in DOMAIN g.ops[t] : g.ops[t][i] \in Terms
    BY <1>1
<1>3. QED  BY <1>1, <1>2 DEF IsTermGraph

(* Term::klevEqual is defined at every level: it calls itself one level less *)
(* (Term.cpp:134-151).                                                      *)
KLevBody(Terms, g, eq, k, t, u) ==
    /\ g.id[t] = g.id[u]
    /\ Len(g.ops[t]) = Len(g.ops[u])
    /\ k > 0 => \A i \in DOMAIN g.ops[t] : eq[k - 1][<<g.ops[t][i], g.ops[u][i]>>]

LEMMA KLevDefined ==
    ASSUME NEW Terms, NEW g
    PROVE  \A k \in Nat : \A t, u \in Terms :
              KLevEqual(Terms, g)[k][<<t, u>>]
                 <=> KLevBody(Terms, g, KLevEqual(Terms, g), k, t, u)
<1> DEFINE V == [Terms \X Terms -> BOOLEAN]
           Levels == Nat
           level(f, k) == [p \in Terms \X Terms |-> KLevBody(Terms, g, f, k, p[1], p[2])]
           body == [k \in Levels |-> [f \in [Levels -> V] |-> level(f, k)]]
           depth == [k \in Levels |-> k]
           IsEq(eq) == eq = [k \in Nat |-> level(eq, k)]
<1>1. V # {}
    <2>1. [p \in Terms \X Terms |-> TRUE] \in V
        OBVIOUS
    <2>2. QED  BY <2>1
<1>2. \A f, k : level(f, k) \in V
    BY DEF KLevBody
<1>3. ASSUME NEW k \in Nat, NEW f, NEW h, k > 0 => f[k - 1] = h[k - 1]
      PROVE  level(f, k) = level(h, k)
    <2>1. \A t, u : KLevBody(Terms, g, f, k, t, u) <=> KLevBody(Terms, g, h, k, t, u)
        BY <1>3 DEF KLevBody
    <2>2. \A t, u : KLevBody(Terms, g, f, k, t, u) = KLevBody(Terms, g, h, k, t, u)
        BY <2>1 DEF KLevBody
    <2>3. QED  BY <2>2, Zenon
<1>4. PICK eq \in [Nat -> V] : \A k \in Nat : eq[k] = level(eq, k)
    <2>1. ASSUME NEW k \in Levels, NEW f \in [Levels -> V], NEW h \in [Levels -> V],
                 \A r \in Levels : depth[r] < depth[k] => f[r] = h[r]
          PROVE  level(f, k) = level(h, k)
        <3>1. k > 0 => k - 1 \in Levels /\ depth[k - 1] < depth[k]
            OBVIOUS
        <3>2. k > 0 => f[k - 1] = h[k - 1]
            BY <2>1, <3>1
        <3> HIDE DEF level
        <3>3. QED  BY <1>3, <3>2
    <2>2. depth \in [Levels -> Nat]
        OBVIOUS
    <2> HIDE DEF V, level, depth
    <2>3. /\ body \in [Levels -> [[Levels -> V] -> V]]
          /\ \A k \in Levels : \A f \in [Levels -> V] : body[k][f] = level(f, k)
        BY <1>2
    <2> HIDE DEF body, Levels
    <2>4. IsRecursion(Levels, V, depth, body)
        <3>1. \A k \in Levels : \A f, h \in [Levels -> V] :
                 (\A r \in Levels : depth[r] < depth[k] => f[r] = h[r]) => body[k][f] = body[k][h]
            BY <2>1, <2>3
        <3>2. QED  BY <1>1, <2>2, <2>3, <3>1 DEF IsRecursion
    <2>5. HasSolution(Levels, V, body)
        BY <2>4, DepthRecursion
    <2>6. QED  BY <2>3, <2>5 DEF Levels, HasSolution
<1>5. IsEq(eq)
    <2> HIDE DEF level
    <2>1. QED  BY <1>4
<1>6. KLevEqual(Terms, g) = CHOOSE e : IsEq(e)
    BY DEF KLevEqual, KLevBody
<1>7. IsEq(KLevEqual(Terms, g))
    BY <1>5, <1>6
<1> DEFINE Eq == KLevEqual(Terms, g)
<1> HIDE DEF Eq
<1>8. \A k \in Nat : Eq[k] = [p \in Terms \X Terms |-> KLevBody(Terms, g, Eq, k, p[1], p[2])]
    BY <1>7 DEF Eq
<1>9. SUFFICES ASSUME NEW k \in Nat, NEW t \in Terms, NEW u \in Terms
               PROVE  Eq[k][<<t, u>>] <=> KLevBody(Terms, g, Eq, k, t, u)
    BY DEF Eq
<1>10. Eq[k] = [p \in Terms \X Terms |-> KLevBody(Terms, g, Eq, k, p[1], p[2])]
    BY <1>8
<1>11. Eq[k][<<t, u>>] = KLevBody(Terms, g, Eq, k, t, u)
    <2>1. <<t, u>> \in Terms \X Terms
        OBVIOUS
    <2>2. QED  BY <1>10, <2>1
<1>12. QED  BY <1>11
(* The k-root relation of one level, and how it depends on the level below.  *)
KRoot(Terms, g, k) == {p \in Terms \X Terms : KLevEqual(Terms, g)[k][p]}

LEMMA KRootLevels ==
    ASSUME NEW Terms, NEW g, IsTermGraph(Terms, g)
    PROVE  \A k \in Nat : \A t, u \in Terms :
              /\ <<t, u>> \in KRoot(Terms, g, 0)
                    <=> g.id[t] = g.id[u]
              /\ <<t, u>> \in KRoot(Terms, g, k + 1)
                    <=> /\ g.id[t] = g.id[u]
                        /\ \A i \in DOMAIN g.ops[t] :
                              <<g.ops[t][i], g.ops[u][i]>> \in KRoot(Terms, g, k)
<1> SUFFICES ASSUME NEW k \in Nat, NEW t \in Terms, NEW u \in Terms
             PROVE  /\ <<t, u>> \in KRoot(Terms, g, 0) <=> g.id[t] = g.id[u]
                    /\ <<t, u>> \in KRoot(Terms, g, k + 1)
                          <=> /\ g.id[t] = g.id[u]
                              /\ \A i \in DOMAIN g.ops[t] :
                                    <<g.ops[t][i], g.ops[u][i]>> \in KRoot(Terms, g, k)
    OBVIOUS
<1> DEFINE Eq == KLevEqual(Terms, g)
<1>1. \A x, y \in Terms : \A j \in Nat :
         <<x, y>> \in KRoot(Terms, g, j) <=> KLevBody(Terms, g, Eq, j, x, y)
    BY KLevDefined DEF KRoot
<1>2. g.id[t] = g.id[u] => Len(g.ops[t]) = Len(g.ops[u]) /\ DOMAIN g.ops[t] = DOMAIN g.ops[u]
    <2>1. g.id[t] = g.id[u] => Len(g.ops[t]) = Len(g.ops[u])
        BY DEF IsTermGraph
    <2>2. QED  BY <2>1, OperandsAre
<1> HIDE DEF Eq
<1>3. <<t, u>> \in KRoot(Terms, g, 0) <=> g.id[t] = g.id[u]
    BY <1>1, <1>2 DEF KLevBody
<1>4. <<t, u>> \in KRoot(Terms, g, k + 1)
         <=> /\ g.id[t] = g.id[u]
             /\ \A i \in DOMAIN g.ops[t] : Eq[k][<<g.ops[t][i], g.ops[u][i]>>]
    <2>1. k + 1 \in Nat /\ k + 1 > 0 /\ (k + 1) - 1 = k
        OBVIOUS
    <2>2. <<t, u>> \in KRoot(Terms, g, k + 1) <=> KLevBody(Terms, g, Eq, k + 1, t, u)
        BY <1>1, <2>1
    <2>3. QED  BY <1>2, <2>1, <2>2 DEF KLevBody
<1>5. g.id[t] = g.id[u] =>
         \A i \in DOMAIN g.ops[t] : g.ops[t][i] \in Terms /\ g.ops[u][i] \in Terms
    BY <1>2, OperandsAre
<1>6. \A x, y \in Terms : <<x, y>> \in KRoot(Terms, g, k) <=> Eq[k][<<x, y>>]
    BY DEF KRoot, Eq
<1>7. QED  BY <1>3, <1>4, <1>5, <1>6

(* Terms that agree down to a level agree down to the one above it. *)
LEMMA KRootShrinks ==
    ASSUME NEW Terms, NEW g, IsTermGraph(Terms, g)
    PROVE  \A k \in Nat : KRoot(Terms, g, k + 1) \subseteq KRoot(Terms, g, k)
<1> DEFINE R(k) == KRoot(Terms, g, k)
           T == {k \in Nat : R(k + 1) \subseteq R(k)}
<1>1. \A k \in Nat : R(k) \subseteq Terms \X Terms
    BY DEF KRoot
<1>2. \A k \in Nat : \A t, u \in Terms :
         /\ <<t, u>> \in R(0) <=> g.id[t] = g.id[u]
         /\ <<t, u>> \in R(k + 1) <=> /\ g.id[t] = g.id[u]
                                      /\ \A i \in DOMAIN g.ops[t] :
                                            <<g.ops[t][i], g.ops[u][i]>> \in R(k)
    BY KRootLevels
<1> HIDE DEF R
<1>3. 0 \in T
    <2>1. \A t, u \in Terms : <<t, u>> \in R(0 + 1) => <<t, u>> \in R(0)
        BY <1>2
    <2>2. R(0 + 1) \subseteq Terms \X Terms
        BY <1>1
    <2>3. QED  BY <2>1, <2>2
<1>4. ASSUME NEW k \in Nat, k \in T PROVE k + 1 \in T
    <2>1. R(k + 1) \subseteq R(k)
        BY <1>4
    <2>2. k + 1 \in Nat
        OBVIOUS
    <2>3. \A t, u \in Terms : <<t, u>> \in R((k + 1) + 1) => <<t, u>> \in R(k + 1)
        BY <1>2, <2>1, <2>2
    <2>4. R((k + 1) + 1) \subseteq Terms \X Terms
        BY <1>1, <2>2
    <2>5. QED  BY <2>2, <2>3, <2>4
<1>5. Nat \subseteq T
    <2> HIDE DEF T
    <2>1. QED  BY <1>3, <1>4, NatSetInduction
<1>6. QED  BY <1>5 DEF R

(* Agreeing down to a level is an equivalence. *)
IsEquivalence(S, R) ==
    /\ \A t \in S : <<t, t>> \in R
    /\ \A t, u \in S : <<t, u>> \in R => <<u, t>> \in R
    /\ \A t, u, v \in S : <<t, u>> \in R /\ <<u, v>> \in R => <<t, v>> \in R

LEMMA KRootEquivalence ==
    ASSUME NEW Terms, NEW g, IsTermGraph(Terms, g)
    PROVE  \A k \in Nat : IsEquivalence(Terms, KRoot(Terms, g, k))
<1> DEFINE R(k) == KRoot(Terms, g, k)
           T == {k \in Nat : IsEquivalence(Terms, R(k))}
<1>1. \A k \in Nat : \A t, u \in Terms :
         /\ <<t, u>> \in R(0) <=> g.id[t] = g.id[u]
         /\ <<t, u>> \in R(k + 1) <=> /\ g.id[t] = g.id[u]
                                      /\ \A i \in DOMAIN g.ops[t] :
                                            <<g.ops[t][i], g.ops[u][i]>> \in R(k)
    BY KRootLevels
<1>2. \A t, u \in Terms : g.id[t] = g.id[u] => DOMAIN g.ops[t] = DOMAIN g.ops[u]
    <2>1. \A t, u \in Terms : g.id[t] = g.id[u] => Len(g.ops[t]) = Len(g.ops[u])
        BY DEF IsTermGraph
    <2>2. QED  BY <2>1, OperandsAre
<1>3. \A t \in Terms : \A i \in DOMAIN g.ops[t] : g.ops[t][i] \in Terms
    BY OperandsAre
<1> HIDE DEF R
<1>4. 0 \in T
    BY <1>1 DEF IsEquivalence
<1>5. ASSUME NEW k \in Nat, k \in T PROVE k + 1 \in T
    <2>1. IsEquivalence(Terms, R(k))
        BY <1>5
    <2>2. \A t \in Terms : <<t, t>> \in R(k + 1)
        BY <1>1, <1>3, <2>1 DEF IsEquivalence
    <2>3. ASSUME NEW t \in Terms, NEW u \in Terms, <<t, u>> \in R(k + 1)
          PROVE  <<u, t>> \in R(k + 1)
        <3>1. g.id[t] = g.id[u] /\ DOMAIN g.ops[t] = DOMAIN g.ops[u]
            BY <1>1, <1>2, <2>3
        <3>2. ASSUME NEW i \in DOMAIN g.ops[u]
              PROVE  <<g.ops[u][i], g.ops[t][i]>> \in R(k)
            <4>1. /\ g.ops[t][i] \in Terms /\ g.ops[u][i] \in Terms
                  /\ <<g.ops[t][i], g.ops[u][i]>> \in R(k)
                BY <1>1, <1>3, <2>3, <3>1
            <4>2. QED  BY <2>1, <4>1 DEF IsEquivalence
        <3>3. QED  BY <1>1, <3>1, <3>2
    <2>4. ASSUME NEW t \in Terms, NEW u \in Terms, NEW v \in Terms,
                 <<t, u>> \in R(k + 1), <<u, v>> \in R(k + 1)
          PROVE  <<t, v>> \in R(k + 1)
        <3>1. g.id[t] = g.id[u] /\ g.id[u] = g.id[v]
            BY <1>1, <2>4
        <3>2. DOMAIN g.ops[t] = DOMAIN g.ops[u] /\ DOMAIN g.ops[u] = DOMAIN g.ops[v]
            BY <1>2, <3>1
        <3>3. ASSUME NEW i \in DOMAIN g.ops[t]
              PROVE  <<g.ops[t][i], g.ops[v][i]>> \in R(k)
            <4>1. /\ g.ops[t][i] \in Terms /\ g.ops[u][i] \in Terms /\ g.ops[v][i] \in Terms
                  /\ <<g.ops[t][i], g.ops[u][i]>> \in R(k)
                  /\ <<g.ops[u][i], g.ops[v][i]>> \in R(k)
                BY <1>1, <1>3, <2>4, <3>2
            <4>2. QED  BY <2>1, <4>1 DEF IsEquivalence
        <3>4. QED  BY <1>1, <3>1, <3>3
    <2>5. QED  BY <2>2, <2>3, <2>4 DEF IsEquivalence
<1>6. Nat \subseteq T
    <2> HIDE DEF T
    <2>1. QED  BY <1>4, <1>5, NatSetInduction
<1>7. QED  BY <1>6 DEF R

(* Terms no deeper than the level they agree down to are one term, because   *)
(* the table holds every term once (CSE.cpp:31-46).                          *)
LEMMA ShallowKRootsAreEqual ==
    ASSUME NEW Terms, NEW g, IsTermGraph(Terms, g)
    PROVE  \A k \in Nat : \A t, u \in Terms :
              <<t, u>> \in KRoot(Terms, g, k) /\ g.depth[t] <= k => t = u
<1> DEFINE R(k) == KRoot(Terms, g, k)
           T == {k \in Nat : \A t, u \in Terms : <<t, u>> \in R(k) /\ g.depth[t] <= k => t = u}
<1>1. \A k \in Nat : \A t, u \in Terms :
         /\ <<t, u>> \in R(0) <=> g.id[t] = g.id[u]
         /\ <<t, u>> \in R(k + 1) <=> /\ g.id[t] = g.id[u]
                                      /\ \A i \in DOMAIN g.ops[t] :
                                            <<g.ops[t][i], g.ops[u][i]>> \in R(k)
    BY KRootLevels
<1>2. ASSUME NEW t \in Terms, NEW u \in Terms, g.id[t] = g.id[u],
             \A i \in DOMAIN g.ops[t] : g.ops[t][i] = g.ops[u][i]
      PROVE  t = u
    <2>1. Len(g.ops[t]) = Len(g.ops[u])
        BY <1>2 DEF IsTermGraph
    <2>2. g.ops[t] = g.ops[u]
        <3>1. g.ops[t] \in Seq(Terms) /\ g.ops[u] \in Seq(Terms)
              /\ DOMAIN g.ops[t] = 1 .. Len(g.ops[t]) /\ DOMAIN g.ops[u] = 1 .. Len(g.ops[u])
            BY OperandsAre
        <3>2. QED  BY <1>2, <2>1, <3>1, SeqEqual
    <2>3. QED  BY <1>2, <2>2 DEF IsTermGraph
<1> HIDE DEF R
<1>3. 0 \in T
    <2> SUFFICES ASSUME NEW t \in Terms, NEW u \in Terms, <<t, u>> \in R(0), g.depth[t] <= 0
                 PROVE  t = u
        OBVIOUS
    <2>1. DOMAIN g.ops[t] = {}
        BY OperandsAre
    <2>2. g.id[t] = g.id[u]
        BY <1>1
    <2>3. QED  BY <1>2, <2>1, <2>2
<1>4. ASSUME NEW k \in Nat, k \in T PROVE k + 1 \in T
    <2> SUFFICES ASSUME NEW t \in Terms, NEW u \in Terms, <<t, u>> \in R(k + 1),
                        g.depth[t] <= k + 1
                 PROVE  t = u
        OBVIOUS
    <2>1. /\ g.id[t] = g.id[u]
          /\ \A i \in DOMAIN g.ops[t] : <<g.ops[t][i], g.ops[u][i]>> \in R(k)
        BY <1>1
    <2>2. DOMAIN g.ops[t] = DOMAIN g.ops[u]
        <3>1. Len(g.ops[t]) = Len(g.ops[u])
            BY <2>1 DEF IsTermGraph
        <3>2. QED  BY <3>1, OperandsAre
    <2>3. ASSUME NEW i \in DOMAIN g.ops[t]
          PROVE  g.ops[t][i] \in Terms /\ g.ops[u][i] \in Terms /\ g.depth[g.ops[t][i]] <= k
        <3>1. g.ops[t][i] \in Terms /\ g.ops[u][i] \in Terms
            BY <2>2, OperandsAre
        <3>2. /\ g.depth[g.ops[t][i]] \in Nat /\ g.depth[t] \in Nat
              /\ g.depth[g.ops[t][i]] < g.depth[t]
            BY OperandsAre
        <3>3. QED  BY <3>1, <3>2
    <2>4. \A x, y \in Terms : <<x, y>> \in R(k) /\ g.depth[x] <= k => x = y
        BY <1>4
    <2>5. \A i \in DOMAIN g.ops[t] : g.ops[t][i] = g.ops[u][i]
        BY <2>1, <2>3, <2>4
    <2>6. QED  BY <1>2, <2>1, <2>5
<1>5. Nat \subseteq T
    <2> HIDE DEF T
    <2>1. QED  BY <1>3, <1>4, NatSetInduction
<1>6. QED  BY <1>5 DEF R
-----------------------------------------------------------------------------
(* A use is deeper than its operands, and the depths of finitely many terms   *)
(* are bounded: one can also go by induction from the uses to the operands.   *)
LEMMA UsesFirst ==
    ASSUME NEW Terms, IsFiniteSet(Terms), NEW g, IsTermGraph(Terms, g)
    PROVE  \E height \in [Terms -> Nat] :
              \A t \in Terms : \A u \in Uses(Terms, g, t) : u \in Terms /\ height[u] < height[t]
<1>1. g.depth \in [Terms -> Nat]
    BY DEF IsTermGraph
<1>2. PICK m \in Nat : \A t \in Terms : g.depth[t] <= m
    BY <1>1, FiniteDepths
<1> DEFINE height == [t \in Terms |-> m - g.depth[t]]
<1>3. height \in [Terms -> Nat]
    <2>1. \A t \in Terms : g.depth[t] \in Nat /\ g.depth[t] <= m
        BY <1>1, <1>2
    <2>2. QED  BY <2>1
<1>4. ASSUME NEW t \in Terms, NEW u \in Uses(Terms, g, t)
      PROVE  u \in Terms /\ height[u] < height[t]
    <2>1. u \in Terms /\ \E i \in DOMAIN g.ops[u] : g.ops[u][i] = t
        BY DEF Uses
    <2>2. g.depth[t] < g.depth[u] /\ g.depth[t] \in Nat /\ g.depth[u] \in Nat
        BY <2>1, OperandsAre
    <2>3. QED  BY <2>1, <2>2
<1>5. QED  BY <1>3, <1>4

(* The length of a path from a root is defined for every term. *)
LevelBody(Terms, g, lev, t) ==
    IF IsFinal(Terms, g, t) THEN 0 ELSE lev[CHOOSE u \in Uses(Terms, g, t) : TRUE] + 1

LEMMA LevelsDefined ==
    ASSUME NEW Terms, IsFiniteSet(Terms), NEW g, IsTermGraph(Terms, g)
    PROVE  \E lev \in [Terms -> Nat] : \A t \in Terms : lev[t] = LevelBody(Terms, g, lev, t)
<1> DEFINE Use(t) == CHOOSE u \in Uses(Terms, g, t) : TRUE
           body == [t \in Terms |-> [lev \in [Terms -> Nat] |-> LevelBody(Terms, g, lev, t)]]
<1>1. PICK height \in [Terms -> Nat] :
         \A t \in Terms : \A u \in Uses(Terms, g, t) : u \in Terms /\ height[u] < height[t]
    BY UsesFirst
<1>2. ASSUME NEW t \in Terms, ~ IsFinal(Terms, g, t)
      PROVE  Use(t) \in Terms /\ height[Use(t)] < height[t]
    <2>1. Use(t) \in Uses(Terms, g, t)
        BY <1>2 DEF IsFinal
    <2>2. QED  BY <1>1, <2>1
<1>3. ASSUME NEW t \in Terms, NEW lev \in [Terms -> Nat]
      PROVE  LevelBody(Terms, g, lev, t) \in Nat
    <2>1. ~ IsFinal(Terms, g, t) => lev[Use(t)] \in Nat
        BY <1>2
    <2>2. QED  BY <2>1 DEF LevelBody
<1>4. ASSUME NEW t \in Terms, NEW lev \in [Terms -> Nat], NEW other \in [Terms -> Nat],
             \A r \in Terms : height[r] < height[t] => lev[r] = other[r]
      PROVE  body[t][lev] = body[t][other]
    <2>1. ~ IsFinal(Terms, g, t) => lev[Use(t)] = other[Use(t)]
        BY <1>2, <1>4
    <2>2. LevelBody(Terms, g, lev, t) = LevelBody(Terms, g, other, t)
        BY <2>1 DEF LevelBody
    <2>3. QED  BY <2>2
<1>5. body \in [Terms -> [[Terms -> Nat] -> Nat]]
    BY <1>3
<1>6. HasSolution(Terms, Nat, body)
    <2> HIDE DEF body
    <2>1. IsRecursion(Terms, Nat, height, body)
        BY <1>4, <1>5 DEF IsRecursion
    <2>2. QED  BY <2>1, DepthRecursion
<1>7. QED  BY <1>6 DEF HasSolution

(* A numbering of the terms that grows by one from every use to its operands. *)
IsLayering(Terms, g, lay) ==
    /\ lay \in [Terms -> Nat]
    /\ \A t \in Terms : lay[t] = 0 <=> IsFinal(Terms, g, t)
    /\ \A t \in Terms : \A u \in Uses(Terms, g, t) : lay[t] = lay[u] + 1

LEMMA LayersOfOperands ==
    ASSUME NEW Terms, NEW g, IsTermGraph(Terms, g), NEW lay, IsLayering(Terms, g, lay)
    PROVE  /\ \A t \in Terms : \A i \in DOMAIN g.ops[t] : lay[g.ops[t][i]] = lay[t] + 1
           /\ \A t \in Terms : lay[t] # 0 =>
                 \E u \in Terms : lay[t] = lay[u] + 1 /\ \E i \in DOMAIN g.ops[u] : g.ops[u][i] = t
<1>1. ASSUME NEW t \in Terms, NEW i \in DOMAIN g.ops[t]
      PROVE  lay[g.ops[t][i]] = lay[t] + 1
    <2>1. g.ops[t][i] \in Terms
        BY OperandsAre
    <2>2. t \in Uses(Terms, g, g.ops[t][i])
        BY DEF Uses
    <2>3. QED  BY <2>1, <2>2 DEF IsLayering
<1>2. ASSUME NEW t \in Terms, lay[t] # 0
      PROVE  \E u \in Terms : lay[t] = lay[u] + 1 /\ \E i \in DOMAIN g.ops[u] : g.ops[u][i] = t
    <2>1. PICK u \in Uses(Terms, g, t) : TRUE
        BY <1>2 DEF IsLayering, IsFinal
    <2>2. QED  BY <2>1 DEF IsLayering, Uses
<1>3. QED  BY <1>1, <1>2

(* Hashing once more from hashes that agree on what klevEqual identifies at a *)
(* level agrees on what it identifies one level below.                       *)
HashesAgree(Terms, g, h, k) == \A t, u \in Terms : <<t, u>> \in KRoot(Terms, g, k) => h[t] = h[u]

LEMMA RehashAgrees ==
    ASSUME NEW Terms, NEW g, IsTermGraph(Terms, g), NEW k \in Nat,
           NEW old, HashesAgree(Terms, g, old, k),
           NEW h, \A t \in Terms : h[t] = RecomputeKLevHash(g, old, t)
    PROVE  HashesAgree(Terms, g, h, k + 1)
<1> SUFFICES ASSUME NEW t \in Terms, NEW u \in Terms, <<t, u>> \in KRoot(Terms, g, k + 1)
             PROVE  h[t] = h[u]
    BY DEF HashesAgree
<1>1. /\ g.id[t] = g.id[u]
      /\ \A i \in DOMAIN g.ops[t] : <<g.ops[t][i], g.ops[u][i]>> \in KRoot(Terms, g, k)
    BY KRootLevels
<1>2. DOMAIN g.ops[t] = DOMAIN g.ops[u]
    <2>1. Len(g.ops[t]) = Len(g.ops[u])
        BY <1>1 DEF IsTermGraph
    <2>2. QED  BY <2>1, OperandsAre
<1>3. \A i \in DOMAIN g.ops[t] : old[g.ops[t][i]] = old[g.ops[u][i]]
    <2>1. \A i \in DOMAIN g.ops[t] : g.ops[t][i] \in Terms /\ g.ops[u][i] \in Terms
        BY <1>2, OperandsAre
    <2>2. QED  BY <1>1, <2>1 DEF HashesAgree
<1>4. ASSUME NEW x \in Terms PROVE g.depth[x] = 0 <=> DOMAIN g.ops[x] = {}
    <2>1. /\ g.depth[x] \in Nat
          /\ \A i \in DOMAIN g.ops[x] : g.depth[g.ops[x][i]] \in Nat
                                        /\ g.depth[g.ops[x][i]] < g.depth[x]
        BY OperandsAre
    <2>2. g.depth[x] > 0 => DOMAIN g.ops[x] # {}
        BY DEF IsTermGraph
    <2>3. QED  BY <2>1, <2>2
<1>5. [i \in DOMAIN g.ops[t] |-> old[g.ops[t][i]]] = [i \in DOMAIN g.ops[u] |-> old[g.ops[u][i]]]
    BY <1>2, <1>3
<1>6. g.depth[t] = 0 <=> g.depth[u] = 0
    BY <1>2, <1>4
<1>7. RecomputeKLevHash(g, old, t) = RecomputeKLevHash(g, old, u)
    BY <1>1, <1>5, <1>6 DEF RecomputeKLevHash
<1>8. QED  BY <1>7

-----------------------------------------------------------------------------
(* Powers of two, remainders, and the words of a machine.                    *)
LEMMA Powers ==
  /\ Pow2 \in [Nat -> Nat \ {0}]
  /\ Pow2[0] = 1
  /\ \A n \in Nat : Pow2[n + 1] = 2 * Pow2[n]
  <1> DEFINE V == Nat \ {0}
             Val(f, n) == IF n = 0 THEN 1 ELSE 2 * f[n - 1]
             body == [n \in Nat |-> [f \in [Nat -> V] |-> Val(f, n)]]
             depth == [n \in Nat |-> n]
             IsPow(f) == f = [n \in Nat |-> IF n = 0 THEN 1 ELSE 2 * f[n - 1]]
  <1>1. ASSUME NEW n \in Nat, NEW f \in [Nat -> V]
        PROVE  Val(f, n) \in V
    <2>1. n # 0 => n - 1 \in Nat /\ f[n - 1] \in V
      OBVIOUS
    <2> QED  BY <2>1
  <1>2. ASSUME NEW n \in Nat, NEW f \in [Nat -> V], NEW h \in [Nat -> V],
               \A r \in Nat : depth[r] < depth[n] => f[r] = h[r]
        PROVE  body[n][f] = body[n][h]
    <2>1. n # 0 => n - 1 \in Nat /\ f[n - 1] = h[n - 1]
      BY <1>2
    <2> QED  BY <2>1
  <1>3. PICK f \in [Nat -> V] : \A n \in Nat : f[n] = IF n = 0 THEN 1 ELSE 2 * f[n - 1]
    <2>1. depth \in [Nat -> Nat] /\ V # {}
      OBVIOUS
    <2> HIDE DEF V, Val, depth
    <2>2. /\ body \in [Nat -> [[Nat -> V] -> V]]
          /\ \A n \in Nat : \A f \in [Nat -> V] : body[n][f] = Val(f, n)
      BY <1>1
    <2> HIDE DEF body
    <2>3. IsRecursion(Nat, V, depth, body)
      BY <2>1, <2>2, <1>2 DEF IsRecursion
    <2>4. HasSolution(Nat, V, body)
      BY <2>3, DepthRecursion
    <2>5. PICK f \in [Nat -> V] : \A n \in Nat : f[n] = Val(f, n)
      BY <2>2, <2>4 DEF HasSolution
    <2> QED  BY <2>5 DEF Val
  <1>4. IsPow(f)
    BY <1>3
  <1>5. IsPow(Pow2)
    <2>1. Pow2 = CHOOSE h : IsPow(h)
      BY DEF Pow2
    <2> HIDE DEF IsPow
    <2> QED  BY <1>4, <2>1
  <1>6. \A n \in Nat : Pow2[n] = IF n = 0 THEN 1 ELSE 2 * Pow2[n - 1]
    BY <1>5
  <1>7. \A n \in Nat : Pow2[n + 1] = 2 * Pow2[n]
    BY <1>6
  <1> DEFINE T == {n \in Nat : Pow2[n] \in V}
  <1>8. Nat \subseteq T
    <2>1. 0 \in T
      BY <1>6
    <2>2. \A n \in Nat : n \in T => n + 1 \in T
      BY <1>7
    <2> HIDE DEF T
    <2> QED  BY <2>1, <2>2, NatSetInduction
  <1>9. Pow2 = [n \in Nat |-> Pow2[n]]
    BY <1>5
  <1> QED  BY <1>6, <1>7, <1>8, <1>9

LEMMA PowersGrow ==
    ASSUME NEW n \in Nat
    PROVE  n < Pow2[n]
  <1> DEFINE T == {k \in Nat : k < Pow2[k]}
  <1>1. 0 \in T
    BY Powers
  <1>2. ASSUME NEW k \in Nat, k \in T PROVE k + 1 \in T
    <2>1. Pow2[k] \in Nat /\ Pow2[k + 1] = 2 * Pow2[k] /\ k < Pow2[k]
      BY <1>2, Powers
    <2> QED  BY <2>1
  <1> HIDE DEF T
  <1>3. Nat \subseteq T
    BY <1>1, <1>2, NatSetInduction
  <1> QED  BY <1>3 DEF T

(* A greater power is a multiple of a smaller one. *)
LEMMA PowersDivide ==
    ASSUME NEW k \in Nat, NEW n \in Nat
    PROVE  k <= n => \E q \in Nat \ {0} : Pow2[n] = q * Pow2[k]
  <1> DEFINE T == {d \in Nat : \E q \in Nat \ {0} : Pow2[k + d] = q * Pow2[k]}
  <1>1. 0 \in T
    <2>1. Pow2[k + 0] = 1 * Pow2[k]
      BY Powers
    <2> QED  BY <2>1
  <1>2. ASSUME NEW d \in Nat, d \in T PROVE d + 1 \in T
    <2>1. PICK q \in Nat \ {0} : Pow2[k + d] = q * Pow2[k]
      BY <1>2
    <2>2. k + d \in Nat /\ k + (d + 1) = (k + d) + 1 /\ Pow2[k] \in Nat
      BY Powers
    <2>3. Pow2[k + (d + 1)] = 2 * (q * Pow2[k])
      BY <2>1, <2>2, Powers
    <2>4. 2 * (q * Pow2[k]) = (2 * q) * Pow2[k] /\ 2 * q \in Nat \ {0}
      BY <2>2
    <2> QED  BY <2>3, <2>4
  <1> HIDE DEF T
  <1>3. Nat \subseteq T
    BY <1>1, <1>2, NatSetInduction
  <1>4. ASSUME k <= n PROVE \E q \in Nat \ {0} : Pow2[n] = q * Pow2[k]
    <2>1. n - k \in Nat /\ k + (n - k) = n
      BY <1>4
    <2> QED  BY <2>1, <1>3 DEF T
  <1> QED  BY <1>4

(* The numbers below q * n that leave one remainder on division by n. *)
LEMMA Remainder ==
    ASSUME NEW n \in Nat \ {0}, NEW d \in Nat, NEW r \in 0 .. n - 1
    PROVE  (d * n + r) % n = r
  OBVIOUS

LEMMA Division ==
    ASSUME NEW n \in Nat \ {0}, NEW w \in Nat
    PROVE  \E d \in Nat, r \in 0 .. n - 1 : w = d * n + r
  <1> DEFINE T == {v \in Nat : \E d \in Nat, r \in 0 .. n - 1 : v = d * n + r}
  <1>1. 0 \in T
    <2>1. 0 = 0 * n + 0 /\ 0 \in 0 .. n - 1
      OBVIOUS
    <2> QED  BY <2>1
  <1>2. ASSUME NEW v \in Nat, v \in T PROVE v + 1 \in T
    <2>1. PICK d \in Nat, r \in 0 .. n - 1 : v = d * n + r
      BY <1>2
    <2>2. CASE r + 1 \in 0 .. n - 1
      <3>1. v + 1 = d * n + (r + 1)
        BY <2>1
      <3> QED  BY <2>2, <3>1
    <2>3. CASE r + 1 = n
      <3>1. PICK e \in Nat, z \in 0 .. n - 1 : e = d + 1 /\ z = 0
        OBVIOUS
      <3>2. v + 1 = e * n + z
        BY <2>1, <2>3, <3>1
      <3> QED  BY <3>2
    <2> QED  BY <2>2, <2>3
  <1> HIDE DEF T
  <1>3. Nat \subseteq T
    BY <1>1, <1>2, NatSetInduction
  <1> QED  BY <1>3 DEF T

LEMMA Multiples ==
    ASSUME NEW n \in Nat \ {0}, NEW a \in Nat, NEW b \in Nat, a < b
    PROVE  a * n \in Nat /\ a * n + n <= b * n
  <1>1. PICK d \in Nat : b = a + 1 + d
    <2>1. b - a - 1 \in Nat /\ b = a + 1 + (b - a - 1)
      OBVIOUS
    <2> QED  BY <2>1
  <1>2. b * n = a * n + n + d * n /\ d * n \in Nat /\ a * n \in Nat
    BY <1>1
  <1> QED  BY <1>2

LEMMA Quotient ==
    ASSUME NEW n \in Nat \ {0}, NEW d \in Nat, NEW r \in 0 .. n - 1
    PROVE  (d * n + r) \div n = d
OBVIOUS

(* Numbers that differ by a multiple of n leave one remainder. *)
LEMMA SameRemainder ==
    ASSUME NEW n \in Nat \ {0}, NEW a \in Int, NEW b \in Int, NEW k \in Int, a = b + k * n
    PROVE  a % n = b % n
<1>1. PICK u \in 0 .. n - 1, v \in 0 .. n - 1 : u = a % n /\ v = b % n
    <2>1. a % n \in 0 .. n - 1 /\ b % n \in 0 .. n - 1
        OBVIOUS
    <2>2. QED  BY <2>1
<1>2. PICK i \in Int, j \in Int : u = a + i * n /\ v = b + j * n
    <2>1. /\ a % n = a + (-(a \div n)) * n /\ -(a \div n) \in Int
          /\ b % n = b + (-(b \div n)) * n /\ -(b \div n) \in Int
        OBVIOUS
    <2>2. QED  BY <1>1, <2>1
<1>3. PICK m \in Int : m = k + i - j
    OBVIOUS
<1>4. u - v = m * n
    <2>1. m * n = k * n + i * n - j * n /\ k * n \in Int /\ i * n \in Int /\ j * n \in Int
        BY <1>3
    <2>2. QED  BY <1>2, <2>1
<1>5. m * n < n /\ -n < m * n
    BY <1>4
<1>6. m = 0
    <2>1. CASE m >= 1
        <3>1. PICK d \in Nat : m = 1 + d
            <4>1. m - 1 \in Nat /\ m = 1 + (m - 1)
                BY <2>1
            <4>2. QED  BY <4>1
        <3>2. m * n = n + d * n /\ d * n \in Nat
            BY <3>1
        <3>3. QED  BY <1>5, <3>2
    <2>2. CASE m <= -1
        <3>1. PICK d \in Nat : m = -1 - d
            <4>1. -1 - m \in Nat /\ m = -1 - (-1 - m)
                BY <2>2
            <4>2. QED  BY <4>1
        <3>2. m * n = -n - d * n /\ d * n \in Nat
            BY <3>1
        <3>3. QED  BY <1>5, <3>2
    <2>3. QED  BY <2>1, <2>2
<1>7. m * n = 0
    BY <1>6
<1>8. QED  BY <1>1, <1>4, <1>7

(* A power of two is an even multiple of every smaller one. *)
LEMMA EvenMultiple ==
    ASSUME NEW i \in Nat, NEW n \in Nat, i < n
    PROVE  \E q \in Nat : Pow2[n] = (2 * q + 2) * Pow2[i]
<1>1. PICK q \in Nat \ {0} : Pow2[n] = q * Pow2[i + 1]
    <2>1. i + 1 \in Nat /\ i + 1 <= n
        OBVIOUS
    <2>2. QED  BY <2>1, PowersDivide
<1>2. PICK d \in Nat : q = d + 1
    <2>1. q - 1 \in Nat /\ q = (q - 1) + 1
        OBVIOUS
    <2>2. QED  BY <2>1
<1>3. Pow2[i] \in Nat /\ Pow2[i + 1] = 2 * Pow2[i]
    BY Powers
<1>4. (d + 1) * (2 * Pow2[i]) = (2 * d + 2) * Pow2[i]
    BY <1>3
<1>5. QED  BY <1>1, <1>2, <1>3, <1>4

(* The bit behind a word does not change the others. *)
LEMMA BitsBelow ==
    ASSUME NEW n \in Nat, NEW w \in Nat, NEW i \in 0 .. n - 1
    PROVE  ((w + Pow2[n]) \div Pow2[i]) % 2 = (w \div Pow2[i]) % 2
<1>1. Pow2[i] \in Nat \ {0} /\ Pow2[n] \in Nat
    BY Powers
<1>2. PICK q \in Nat : Pow2[n] = (2 * q + 2) * Pow2[i]
    <2>1. i \in Nat /\ i < n
        OBVIOUS
    <2>2. QED  BY <2>1, EvenMultiple
<1>3. PICK d \in Nat, r \in 0 .. Pow2[i] - 1 : w = d * Pow2[i] + r
    BY <1>1, Division
<1>4. PICK e \in Nat, k \in Int : e = d + k * 2 /\ k = q + 1
    <2>1. d + (q + 1) * 2 \in Nat /\ q + 1 \in Int
        OBVIOUS
    <2>2. QED  BY <2>1
<1>5. w + Pow2[n] = e * Pow2[i] + r
    <2>1. PICK m \in Nat : m = Pow2[i]
        BY <1>1
    <2>2. e * m = d * m + (2 * q + 2) * m
        <3>1. e = d + (2 * q + 2)
            BY <1>4
        <3>2. QED  BY <3>1
    <2>3. d * m \in Nat /\ (2 * q + 2) * m \in Nat
        OBVIOUS
    <2>4. QED  BY <1>2, <1>3, <2>1, <2>2, <2>3
<1>6. (w + Pow2[n]) \div Pow2[i] = e /\ w \div Pow2[i] = d
    BY <1>1, <1>3, <1>5, Quotient
<1>7. e % 2 = d % 2
    BY <1>4, SameRemainder
<1>8. QED  BY <1>6, <1>7

LEMMA HasBits ==
    ASSUME NEW n \in Nat, NEW bits \in SUBSET (0 .. n - 1)
    PROVE  \E w \in 0 .. Pow2[n] - 1 : BitsOf(n, w) = bits
<1> DEFINE T == {k \in Nat : \A s \in SUBSET (0 .. k - 1) :
                                \E w \in 0 .. Pow2[k] - 1 : BitsOf(k, w) = s}
<1>1. 0 \in T
    <2>1. ASSUME NEW s \in SUBSET (0 .. 0 - 1)
          PROVE  \E w \in 0 .. Pow2[0] - 1 : BitsOf(0, w) = s
        <3>1. s = {} /\ BitsOf(0, 0) = {} /\ 0 \in 0 .. Pow2[0] - 1
            BY Powers DEF BitsOf
        <3>2. QED  BY <3>1
    <2>2. QED  BY <2>1
<1>2. ASSUME NEW k \in Nat, k \in T PROVE k + 1 \in T
    <2>1. ASSUME NEW s \in SUBSET (0 .. (k + 1) - 1)
          PROVE  \E w \in 0 .. Pow2[k + 1] - 1 : BitsOf(k + 1, w) = s
        <3>1. s \ {k} \in SUBSET (0 .. k - 1)
            OBVIOUS
        <3>2. PICK w \in 0 .. Pow2[k] - 1 : BitsOf(k, w) = s \ {k}
            BY <1>2, <3>1
        <3>3. Pow2[k] \in Nat \ {0} /\ Pow2[k + 1] = 2 * Pow2[k]
            BY Powers
        <3>4. w \div Pow2[k] = 0 /\ (w + Pow2[k]) \div Pow2[k] = 1
            <4>1. PICK m \in Nat \ {0} : m = Pow2[k]
                BY <3>3
            <4>2. w \in 0 .. m - 1
                BY <4>1
            <4>3. (0 * m + w) \div m = 0 /\ (1 * m + w) \div m = 1
                BY <4>2, Quotient
            <4>4. 0 * m + w = w /\ 1 * m + w = w + m
                OBVIOUS
            <4>5. QED  BY <4>1, <4>3, <4>4
        <3>5. \A i \in 0 .. (k + 1) - 1 : i \in 0 .. k - 1 \/ i = k
            OBVIOUS
        <3>6. \A i \in 0 .. k - 1 : i \in s <=> (w \div Pow2[i]) % 2 = 1
            BY <3>2 DEF BitsOf
        <3>7. CASE k \notin s
            <4>1. \A i \in 0 .. (k + 1) - 1 : i \in s <=> (w \div Pow2[i]) % 2 = 1
                <5>1. (w \div Pow2[k]) % 2 = 0
                    BY <3>4
                <5>2. QED  BY <3>5, <3>6, <3>7, <5>1
            <4>2. w \in 0 .. Pow2[k + 1] - 1
                BY <3>3
            <4>3. QED  BY <4>1, <4>2 DEF BitsOf
        <3>8. CASE k \in s
            <4>1. \A i \in 0 .. k - 1 : ((w + Pow2[k]) \div Pow2[i]) % 2 = (w \div Pow2[i]) % 2
                BY BitsBelow
            <4>2. \A i \in 0 .. (k + 1) - 1 : i \in s <=> ((w + Pow2[k]) \div Pow2[i]) % 2 = 1
                <5>1. ((w + Pow2[k]) \div Pow2[k]) % 2 = 1
                    BY <3>4
                <5>2. QED  BY <3>5, <3>6, <3>8, <4>1, <5>1
            <4>3. w + Pow2[k] \in 0 .. Pow2[k + 1] - 1
                BY <3>3
            <4>4. QED  BY <4>2, <4>3 DEF BitsOf
        <3>9. QED  BY <3>7, <3>8
    <2>2. QED  BY <2>1
<1> HIDE DEF T
<1>3. Nat \subseteq T
    BY <1>1, <1>2, NatSetInduction
<1>4. QED  BY <1>3 DEF T

LEMMA WithBitsHas ==
    ASSUME NEW n \in Nat, NEW bits \in SUBSET (0 .. n - 1)
    PROVE  /\ WithBits(n, bits) \in 0 .. Pow2[n] - 1
           /\ BitsOf(n, WithBits(n, bits)) = bits
BY HasBits DEF WithBits

LEMMA AllBits ==
    ASSUME NEW n \in Nat
    PROVE  /\ Pow2[n] - 1 \in 0 .. Pow2[n] - 1
           /\ BitsOf(n, Pow2[n] - 1) = 0 .. n - 1
<1>1. Pow2[n] \in Nat \ {0}
    BY Powers
<1>2. ASSUME NEW i \in 0 .. n - 1 PROVE ((Pow2[n] - 1) \div Pow2[i]) % 2 = 1
    <2>1. PICK m \in Nat \ {0} : m = Pow2[i]
        BY Powers
    <2>2. PICK q \in Nat : Pow2[n] = (2 * q + 2) * m
        <3>1. i \in Nat /\ i < n
            OBVIOUS
        <3>2. QED  BY <2>1, <3>1, EvenMultiple
    <2>3. PICK d \in Nat : d = 2 * q + 1
        OBVIOUS
    <2>4. Pow2[n] - 1 = d * m + (m - 1)
        <3>1. (2 * q + 2) * m = d * m + m /\ d * m \in Nat
            BY <2>3
        <3>2. QED  BY <2>2, <3>1
    <2>5. (Pow2[n] - 1) \div m = d
        <3>1. m - 1 \in 0 .. m - 1
            OBVIOUS
        <3>2. QED  BY <2>4, <3>1, Quotient
    <2>6. d % 2 = 1
        BY <2>3
    <2>7. QED  BY <2>1, <2>5, <2>6
<1>3. QED  BY <1>1, <1>2 DEF BitsOf
=============================================================================
