------------------------- MODULE ObfuscationProofs --------------------------
(***************************************************************************)
(* What the passes keep from one step to the next, for every function that  *)
(* LLVM's verifier accepts and every draw of the passes, and four facts of   *)
(* the model that follow: phi nodes match the predecessors of their block,   *)
(* the altered copies of BogusControlFlow are never executed, a lowered      *)
(* switch goes where it went, and what is run, flattened or not, is a path   *)
(* of the original function.                                                *)
(*                                                                         *)
(* The invariant is Guarded: some set J of blocks holds all altered copies,  *)
(* and no terminator outside J leads into J, but for the second way of the   *)
(* condition that is always true.  A pass is a fold over blocks or cut       *)
(* points; every fold has a lemma that one round keeps Guarded, by way of a  *)
(* predicate that says what the round changes (IsSplit, Grown, IsLowered,    *)
(* IsFlat).  HasParts says the same way which part of the original each      *)
(* block outside J is, and IsAlong and IsAlongFlat where a run is in them.    *)
(***************************************************************************)
EXTENDS Obfuscation, DataProofs

-----------------------------------------------------------------------------
(* The remainder of an even number by an even number is even.                *)
LEMMA EvenRemainder ==
    ASSUME NEW h \in Nat \ {0}, NEW m \in Nat
    PROVE  ((2 * m) % (2 * h)) % 2 = 0
<1> DEFINE n == 2 * h
<1>1. n \in Nat \ {0} /\ 2 * m \in Nat
    OBVIOUS
<1>2. PICK d \in Nat, r \in 0 .. n - 1 : 2 * m = d * n + r
    <2> HIDE DEF n
    <2>1. QED  BY <1>1, Division
<1>3. (2 * m) % n = r
    <2> HIDE DEF n
    <2>1. QED  BY <1>1, <1>2, Remainder
<1>4. d * n = 2 * (d * h)
    OBVIOUS
<1>5. d * h \in Nat
    OBVIOUS
<1>6. r = 2 * (m - d * h)
    BY <1>2, <1>4
<1>7. r % 2 = 0
    BY <1>5, <1>6
<1>8. QED  BY <1>3, <1>7

LEMMA SamePowers == B!Pow2 = Pow2
BY DEF B!Pow2, Pow2

(* The predicate that doF puts in the branches holds whatever the globals   *)
(* are, whatever the width of an int (BogusControlFlow.cpp:557-575).        *)
THEOREM OpaqueIsTrue ==
    \A x, y \in 0 .. B!Pow2[Width] - 1 : B!Opaque(x, y)
<1> SUFFICES ASSUME NEW x \in 0 .. Pow2[Width] - 1, NEW y \in 0 .. Pow2[Width] - 1
             PROVE  B!Opaque(x, y)
    BY SamePowers
<1> DEFINE n == Pow2[Width]
           a == (x - 1) % n
<1>1. PICK h \in Nat \ {0} : n = 2 * h
    <2>1. Width - 1 \in Nat /\ (Width - 1) + 1 = Width
        BY WidthAssumption
    <2>2. QED  BY <2>1, Powers
<1>2. n \in Nat \ {0} /\ x \in 0 .. n - 1
    BY <1>1
<1>3. \E m \in Nat : x * a = 2 * m
    <2> HIDE DEF n
    <2>1. CASE x = 0
        <3>1. n - 1 \in 0 .. n - 1
            BY <1>2
        <3>2. a = (n - 1) % n
            <4>1. PICK k \in Int, z \in Int, c \in Int : k = -1 /\ z = x - 1 /\ c = n - 1
                BY <1>2, <2>1
            <4>2. z = c + k * n
                BY <1>2, <2>1, <4>1
            <4>3. z % n = c % n
                BY <1>2, <4>2, SameRemainder
            <4>4. QED  BY <4>1, <4>3
        <3>3. (0 * n + (n - 1)) % n = n - 1
            BY <1>2, <3>1, Remainder
        <3>4. a \in Nat
            BY <1>2, <2>1, <3>2, <3>3
        <3>5. x * a = 2 * 0
            BY <2>1, <3>4
        <3>6. QED  BY <3>5
    <2>2. CASE x # 0
        <3>1. x - 1 \in 0 .. n - 1
            BY <1>2, <2>2
        <3>2. a = x - 1
            <4>1. (0 * n + (x - 1)) % n = x - 1
                BY <1>2, <3>1, Remainder
            <4>2. QED  BY <3>1, <4>1, <1>2
        <3> HIDE DEF a
        <3>3. PICK u \in Nat, r \in 0 .. 1 : x = u * 2 + r
            <4>1. PICK two \in Nat \ {0} : two = 2
                OBVIOUS
            <4>2. x \in Nat
                BY <1>2
            <4>3. \E u \in Nat, r \in 0 .. two - 1 : x = u * two + r
                BY <4>2, Division
            <4>4. QED  BY <4>1, <4>3
        <3>4. CASE r = 0
            <4>1. x * a = 2 * (u * a) /\ u * a \in Nat
                BY <3>1, <3>2, <3>3, <3>4, <1>2
            <4>2. QED  BY <4>1
        <3>5. CASE r = 1
            <4>1. a = 2 * u /\ x \in Nat
                BY <3>2, <3>3, <3>5, <1>2
            <4>2. x * a = 2 * (x * u) /\ x * u \in Nat
                BY <4>1
            <4>3. QED  BY <4>2
        <3>6. QED  BY <3>3, <3>4, <3>5
    <2>3. QED  BY <2>1, <2>2
<1>4. ((x * a) % n) % 2 = 0
    <2> HIDE DEF a, n
    <2>1. QED  BY <1>1, <1>3, EvenRemainder
<1>5. QED  BY <1>4, SamePowers DEF B!Opaque

(* ... so that a block that was altered is never gone to. *)
LEMMA OneOpaqueWay == OpaqueWays = {1}
<1>1. 0 \in 0 .. B!Pow2[Width] - 1
    BY WidthAssumption, SamePowers, Powers
<1>2. QED  BY <1>1, OpaqueIsTrue DEF OpaqueWays

-----------------------------------------------------------------------------
(* Sequences. *)
LEMMA Inserted ==
    ASSUME NEW T, NEW s \in Seq(T), NEW i \in 1 .. Len(s) + 1, NEW e \in T
    PROVE  LET r == InsertAt(s, i, e)
           IN  /\ r \in Seq(T) /\ Len(r) = Len(s) + 1
               /\ \A j \in 1 .. i - 1 : r[j] = s[j]
               /\ r[i] = e
               /\ \A j \in i + 1 .. Len(s) + 1 : r[j] = s[j - 1]
               /\ ToSet(r) = ToSet(s) \cup {e}
<1> DEFINE a == SubSeq(s, 1, i - 1)
           c == SubSeq(s, i, Len(s))
           r == InsertAt(s, i, e)
<1>1. Len(s) \in Nat /\ i \in Nat \ {0} /\ i <= Len(s) + 1
    BY LenProperties
<1>2. /\ a \in Seq(T) /\ Len(a) = i - 1
      /\ \A j \in 1 .. i - 1 : a[j] = s[j]
    BY <1>1, SubSeqProperties
<1>3. /\ c \in Seq(T) /\ Len(c) = Len(s) - i + 1
      /\ \A j \in 1 .. Len(s) - i + 1 : c[j] = s[i + j - 1]
    BY <1>1, SubSeqProperties
<1>4. /\ (a \o <<e>>) \in Seq(T) /\ Len(a \o <<e>>) = i
      /\ \A j \in 1 .. i - 1 : (a \o <<e>>)[j] = s[j]
      /\ (a \o <<e>>)[i] = e
    <2> HIDE DEF a
    <2>1. QED  BY <1>1, <1>2
<1>5. /\ r \in Seq(T) /\ Len(r) = Len(s) + 1
      /\ \A j \in 1 .. i : r[j] = (a \o <<e>>)[j]
      /\ \A j \in i + 1 .. Len(s) + 1 : r[j] = c[j - i]
    <2> DEFINE ae == a \o <<e>>
    <2>1. r = ae \o c
        BY DEF InsertAt
    <2>2. ae \in Seq(T) /\ Len(ae) = i /\ c \in Seq(T) /\ Len(c) = Len(s) - i + 1
        BY <1>3, <1>4
    <2> HIDE DEF ae, c, r
    <2>3. /\ r \in Seq(T) /\ Len(r) = i + (Len(s) - i + 1)
          /\ \A j \in 1 .. i : r[j] = ae[j]
          /\ \A j \in i + 1 .. i + (Len(s) - i + 1) : r[j] = c[j - i]
        BY <1>1, <2>1, <2>2, ConcatProperties
    <2>4. i + (Len(s) - i + 1) = Len(s) + 1
        BY <1>1
    <2>5. QED  BY <2>3, <2>4 DEF ae
<1> HIDE DEF a, c, r
<1>6. /\ \A j \in 1 .. i - 1 : r[j] = s[j]
      /\ r[i] = e
    <2>1. PICK ae : /\ \A j \in 1 .. i - 1 : ae[j] = s[j]
                    /\ ae[i] = e
                    /\ \A j \in 1 .. i : r[j] = ae[j]
        BY <1>4, <1>5
    <2>2. i \in 1 .. i /\ \A j \in 1 .. i - 1 : j \in 1 .. i
        BY <1>1
    <2>3. QED  BY <2>1, <2>2
<1>7. \A j \in i + 1 .. Len(s) + 1 : r[j] = s[j - 1]
    <2> TAKE j \in i + 1 .. Len(s) + 1
    <2>1. j - i \in 1 .. Len(s) - i + 1 /\ i + (j - i) - 1 = j - 1
        BY <1>1
    <2>2. QED  BY <1>3, <1>5, <2>1
<1>8. ToSet(r) = ToSet(s) \cup {e}
    <2>1. DOMAIN r = 1 .. Len(s) + 1 /\ DOMAIN s = 1 .. Len(s)
        BY <1>5, LenProperties
    <2>2. \A x \in ToSet(r) : x \in ToSet(s) \cup {e}
        <3> SUFFICES ASSUME NEW j \in 1 .. Len(s) + 1 PROVE r[j] \in ToSet(s) \cup {e}
            BY <2>1 DEF ToSet
        <3>1. \/ j \in 1 .. i - 1 /\ j \in 1 .. Len(s)
              \/ j = i
              \/ j \in i + 1 .. Len(s) + 1 /\ j - 1 \in 1 .. Len(s)
            BY <1>1
        <3>2. QED  BY <1>6, <1>7, <2>1, <3>1 DEF ToSet
    <2>3. \A x \in ToSet(s) : x \in ToSet(r)
        <3> SUFFICES ASSUME NEW j \in 1 .. Len(s) PROVE s[j] \in ToSet(r)
            BY <2>1 DEF ToSet
        <3>1. \/ j \in 1 .. i - 1 /\ j \in 1 .. Len(s) + 1
              \/ j + 1 \in i + 1 .. Len(s) + 1 /\ j + 1 \in 1 .. Len(s) + 1 /\ (j + 1) - 1 = j
            BY <1>1
        <3>2. QED  BY <1>6, <1>7, <2>1, <3>1 DEF ToSet
    <2>4. e \in ToSet(r)
        BY <1>1, <1>6, <2>1 DEF ToSet
    <2>5. QED  BY <2>2, <2>3, <2>4
<1>9. QED  BY <1>5, <1>6, <1>7, <1>8 DEF r

IsInserted(T, s, i, e, r) ==
    /\ r \in Seq(T) /\ Len(r) = Len(s) + 1
    /\ \A j \in 1 .. i - 1 : r[j] = s[j]
    /\ r[i] = e
    /\ \A j \in i + 1 .. Len(s) + 1 : r[j] = s[j - 1]
    /\ ToSet(r) = ToSet(s) \cup {e}

LEMMA InsertedIs ==
    ASSUME NEW T, NEW s \in Seq(T), NEW i \in 1 .. Len(s) + 1, NEW e \in T
    PROVE  IsInserted(T, s, i, e, InsertAt(s, i, e))
BY Inserted DEF IsInserted

(* A finite set of numbers has a greatest member, and it is Max. *)
LEMMA Greatest ==
    ASSUME NEW A \in SUBSET Int, IsFiniteSet(A), A # {}
    PROVE  Max(A) \in A /\ \A x \in A : x <= Max(A)
<1> DEFINE HasMax(C) == \E m \in C : \A x \in C : x <= m
           T == {n \in Nat : \A C \in SUBSET Int : IsFiniteSet(C) /\ Cardinality(C) = n + 1
                                                        => HasMax(C)}
<1>1. 0 \in T
    <2> SUFFICES ASSUME NEW C \in SUBSET Int, IsFiniteSet(C), Cardinality(C) = 0 + 1
                 PROVE  HasMax(C)
        OBVIOUS
    <2>0. Cardinality(C) = 1
        OBVIOUS
    <2>1. PICK x : C = {x}
        BY <2>0, FS_Singleton
    <2>2. x \in C /\ x <= x
        BY <2>1
    <2>3. QED  BY <2>1, <2>2
<1>2. ASSUME NEW n \in Nat, n \in T PROVE n + 1 \in T
    <2> SUFFICES ASSUME NEW C \in SUBSET Int, IsFiniteSet(C), Cardinality(C) = n + 1 + 1
                 PROVE  HasMax(C)
        OBVIOUS
    <2>1. C # {}
        BY FS_EmptySet
    <2>2. PICK y \in C : TRUE
        BY <2>1
    <2>3. /\ IsFiniteSet(C \ {y}) /\ Cardinality(C \ {y}) = n + 1
          /\ C \ {y} \in SUBSET Int
        BY FS_RemoveElement
    <2>4. PICK m \in C \ {y} : \A x \in C \ {y} : x <= m
        BY <1>2, <2>3
    <2>5. CASE y <= m
        BY <2>4, <2>5
    <2>6. CASE m <= y
        <3>1. \A x \in C : x <= y
            BY <2>4, <2>6
        <3>2. QED  BY <3>1
    <2>7. QED  BY <2>4, <2>5, <2>6
<1>3. Nat \subseteq T
    <2> HIDE DEF T
    <2>1. QED  BY <1>1, <1>2, NatSetInduction
<1>4. Cardinality(A) \in Nat /\ Cardinality(A) # 0
    BY FS_CardinalityType, FS_EmptySet
<1>5. Cardinality(A) - 1 \in Nat /\ Cardinality(A) = (Cardinality(A) - 1) + 1
    BY <1>4
<1>6. HasMax(A)
    BY <1>3, <1>5
<1>7. \E m \in A : \A y \in A : m >= y
    BY <1>6
<1>8. Max(A) \in A /\ \A y \in A : Max(A) >= y
    BY <1>7 DEF Max
<1>9. QED  BY <1>8

(* ... and a least one. *)
LEMMA Least ==
    ASSUME NEW A \in SUBSET Int, IsFiniteSet(A), A # {}
    PROVE  Min(A) \in A /\ \A x \in A : Min(A) <= x
<1> DEFINE neg == [x \in A |-> 0 - x]
           C == {neg[x] : x \in A}
<1>1. C \in SUBSET Int /\ C # {} /\ \A x \in A : 0 - x \in C
    <2>1. \A x \in A : neg[x] = 0 - x /\ 0 - x \in Int
        OBVIOUS
    <2> HIDE DEF neg
    <2>2. QED  BY <2>1
<1>2. IsFiniteSet(C)
    <2>1. neg \in Surjection(A, C)
        BY DEF Surjection
    <2> HIDE DEF neg, C
    <2>2. QED  BY <2>1, FS_Surjection
<1>3. Max(C) \in C /\ \A y \in C : y <= Max(C)
    <2> HIDE DEF C
    <2>1. QED  BY <1>1, <1>2, Greatest
<1>4. PICK m \in A : Max(C) = 0 - m
    BY <1>3
<1>5. \A x \in A : m <= x
    <2> TAKE x \in A
    <2>1. 0 - x <= 0 - m
        BY <1>1, <1>3, <1>4
    <2>2. x \in Int /\ m \in Int
        OBVIOUS
    <2>3. QED  BY <2>1, <2>2
<1>6. \E m_1 \in A : \A y \in A : m_1 <= y
    BY <1>5
<1>7. QED  BY <1>6 DEF Min

IsOrder(A, s) == \A i, j \in 1 .. Cardinality(A) : i < j => s[i] < s[j]

(* InOrder puts every member of a set in its place. *)
LEMMA Ordered ==
    ASSUME NEW A \in SUBSET Int, IsFiniteSet(A)
    PROVE  LET s == InOrder(A)
           IN  /\ s \in Seq(A) /\ Len(s) = Cardinality(A) /\ ToSet(s) = A
               /\ \A i, j \in 1 .. Cardinality(A) : i < j => s[i] < s[j]
<1> DEFINE T == {n \in Nat : \A C \in SUBSET Int : IsFiniteSet(C) /\ Cardinality(C) = n
                                => \E s \in [1 .. n -> C] : IsOrder(C, s)}
<1>1. 0 \in T
    <2> SUFFICES ASSUME NEW C \in SUBSET Int, IsFiniteSet(C), Cardinality(C) = 0
                 PROVE  \E s \in [1 .. 0 -> C] : IsOrder(C, s)
        OBVIOUS
    <2>1. [i \in 1 .. 0 |-> 0] \in [1 .. 0 -> C] /\ IsOrder(C, [i \in 1 .. 0 |-> 0])
        BY DEF IsOrder
    <2>2. QED  BY <2>1
<1>2. ASSUME NEW n \in Nat, n \in T PROVE n + 1 \in T
    <2> SUFFICES ASSUME NEW C \in SUBSET Int, IsFiniteSet(C), Cardinality(C) = n + 1
                 PROVE  \E s \in [1 .. n + 1 -> C] : IsOrder(C, s)
        OBVIOUS
    <2>1. C # {}
        BY FS_EmptySet
    <2>2. Max(C) \in C /\ \A x \in C : x <= Max(C)
        BY <2>1, Greatest
    <2> DEFINE m == Max(C)
               D == C \ {m}
    <2>3. /\ IsFiniteSet(D) /\ Cardinality(D) = n
          /\ D \in SUBSET Int
        <3>1. IsFiniteSet(D) /\ Cardinality(D) = Cardinality(C) - 1
            BY <2>2, FS_RemoveElement
        <3>2. (n + 1) - 1 = n
            OBVIOUS
        <3>3. QED  BY <3>1, <3>2
    <2>4. PICK s \in [1 .. n -> D] : IsOrder(D, s)
        <3> HIDE DEF D
        <3>1. QED  BY <1>2, <2>3
    <2> DEFINE r == [i \in 1 .. n + 1 |-> IF i = n + 1 THEN m ELSE s[i]]
    <2>5. r \in [1 .. n + 1 -> C]
        BY <2>2, <2>4
    <2>6. IsOrder(C, r)
        <3> SUFFICES ASSUME NEW i \in 1 .. n + 1, NEW j \in 1 .. n + 1, i < j PROVE r[i] < r[j]
            BY DEF IsOrder
        <3>1. i \in 1 .. n /\ r[i] = s[i] /\ s[i] \in D
            BY <2>4
        <3>2. CASE j = n + 1
            <4>1. r[j] = m /\ s[i] <= m /\ s[i] # m
                BY <2>2, <3>1, <3>2
            <4>2. m \in Int /\ s[i] \in Int
                BY <2>2, <3>1
            <4> HIDE DEF m
            <4>3. s[i] < m
                BY <4>1, <4>2
            <4> HIDE DEF r
            <4>4. QED  BY <3>1, <4>1, <4>3
        <3>3. CASE j # n + 1
            <4>1. j \in 1 .. n /\ r[j] = s[j]
                BY <3>3
            <4>2. s[i] < s[j]
                BY <2>3, <2>4, <3>1, <4>1 DEF IsOrder
            <4>3. QED  BY <3>1, <4>1, <4>2
        <3>4. QED  BY <3>2, <3>3
    <2> HIDE DEF r
    <2>7. QED  BY <2>5, <2>6
<1>3. Nat \subseteq T
    <2> HIDE DEF T
    <2>1. QED  BY <1>1, <1>2, NatSetInduction
<1>4. Cardinality(A) \in Nat
    BY FS_CardinalityType
<1> DEFINE n == Cardinality(A)
           s == InOrder(A)
<1>5. \E r \in [1 .. n -> A] : \A i, j \in DOMAIN r : i < j => r[i] < r[j]
    <2>1. PICK r \in [1 .. n -> A] : IsOrder(A, r)
        BY <1>3, <1>4
    <2>2. QED  BY <2>1 DEF IsOrder
<1>6. s \in [1 .. n -> A] /\ \A i, j \in DOMAIN s : i < j => s[i] < s[j]
    BY <1>5 DEF InOrder
<1>7. s \in Seq(A) /\ Len(s) = n /\ DOMAIN s = 1 .. n
    BY <1>4, <1>6
<1>8. ToSet(s) = A
    <2> HIDE DEF s, n
    <2>1. \A i, j \in 1 .. n : s[i] = s[j] => i = j
        <3> SUFFICES ASSUME NEW i \in 1 .. n, NEW j \in 1 .. n, i # j PROVE s[i] # s[j]
            OBVIOUS
        <3>1. i < j \/ j < i
            BY <1>4 DEF n
        <3>2. s[i] < s[j] \/ s[j] < s[i]
            BY <1>7, <1>6, <3>1
        <3>3. s[i] \in Int /\ s[j] \in Int
            BY <1>6
        <3>4. QED  BY <3>2, <3>3
    <2>2. s \in Injection(1 .. n, A)
        BY <1>6, <2>1 DEF Injection, IsInjective
    <2>3. Cardinality(1 .. n) = n /\ IsFiniteSet(1 .. n)
        BY <1>4, FS_Interval DEF n
    <2>4. s \in Surjection(1 .. n, A)
        BY <2>2, <2>3, FS_Injection DEF n
    <2>5. \A x \in A : \E i \in 1 .. n : s[i] = x
        BY <2>4 DEF Surjection
    <2>6. QED  BY <1>6, <1>7, <2>5 DEF ToSet
<1> HIDE DEF s, n
<1>9. QED  BY <1>6, <1>7, <1>8 DEF s, n

-----------------------------------------------------------------------------
(* What the passes keep.  The blocks of fn in junk are altered copies; of the *)
(* others none has an instruction of theirs, and none goes to one except     *)
(* behind a branch that is always taken, on the condition c.                *)
Instructions == [kind : {"phi", "op", "junk"}, at : Nat \X Nat]

HasFields(fn) ==
    fn = [layout |-> fn.layout, code |-> fn.code, term |-> fn.term, from |-> fn.from,
          cases |-> << >>, default |-> 0]

IsShape(fn) ==
    /\ HasFields(fn)
    /\ fn.layout \in Seq(Nat \ {0}) /\ fn.layout # << >>
    /\ Blocks(fn) \subseteq DOMAIN fn.code
    /\ Blocks(fn) \subseteq DOMAIN fn.term
    /\ Blocks(fn) \subseteq DOMAIN fn.from
    /\ \A x \in DOMAIN fn.code \cup DOMAIN fn.term \cup DOMAIN fn.from :
          x \in Nat /\ \E b \in Blocks(fn) : x <= b
    /\ \A b \in Blocks(fn) : fn.code[b] \in Seq(Instructions)

-----------------------------------------------------------------------------
(* A fresh number is greater than those of all blocks. *)
LEMMA FreshIsNew ==
    ASSUME NEW fn, IsShape(fn)
    PROVE  /\ Fresh(fn) \in Nat \ {0} /\ Fresh(fn) \notin Blocks(fn)
           /\ \A b \in Blocks(fn) : b < Fresh(fn)
           /\ Fresh(fn) \notin DOMAIN fn.code /\ Fresh(fn) \notin DOMAIN fn.term
           /\ Fresh(fn) \notin DOMAIN fn.from
<1>1. fn.layout \in Seq(Nat \ {0}) /\ fn.layout # << >>
    BY DEF IsShape
<1>2. Len(fn.layout) \in Nat \ {0} /\ DOMAIN fn.layout = 1 .. Len(fn.layout)
    <2>1. Len(fn.layout) \in Nat /\ DOMAIN fn.layout = 1 .. Len(fn.layout)
        BY <1>1, LenProperties
    <2>2. Len(fn.layout) # 0
        BY <1>1, EmptySeq
    <2>3. QED  BY <2>1, <2>2
<1>3. Blocks(fn) \in SUBSET Nat /\ Blocks(fn) # {}
    <2>1. \A i \in 1 .. Len(fn.layout) : fn.layout[i] \in Nat
        BY <1>1, ElementOfSeq
    <2>2. 1 \in 1 .. Len(fn.layout)
        BY <1>2
    <2>3. QED  BY <1>2, <2>1, <2>2 DEF Blocks, ToSet
<1>4. IsFiniteSet(Blocks(fn))
    <2>1. IsFiniteSet(1 .. Len(fn.layout))
        BY <1>2, FS_Interval
    <2>2. fn.layout \in Surjection(1 .. Len(fn.layout), Blocks(fn))
        BY <1>1, <1>2 DEF Surjection, Blocks, ToSet
    <2>3. QED  BY <2>1, <2>2, FS_Surjection
<1>5. Max(Blocks(fn)) \in Blocks(fn) /\ \A x \in Blocks(fn) : x <= Max(Blocks(fn))
    BY <1>3, <1>4, Greatest
<1>6. Fresh(fn) \in Nat \ {0} /\ \A b \in Blocks(fn) : b < Fresh(fn)
    BY <1>3, <1>5 DEF Fresh
<1>7. ASSUME NEW x \in DOMAIN fn.code \cup DOMAIN fn.term \cup DOMAIN fn.from
      PROVE  x # Fresh(fn)
    <2>1. PICK b \in Blocks(fn) : x \in Nat /\ x <= b
        BY DEF IsShape
    <2>2. QED  BY <1>3, <1>6, <2>1
<1>8. QED  BY <1>3, <1>6, <1>7

(* The place of a block in the layout.                                      *)
LEMMA PlaceIs ==
    ASSUME NEW T, NEW fn, fn.layout \in Seq(T), NEW b \in Blocks(fn)
    PROVE  PlaceOf(fn, b) \in 1 .. Len(fn.layout) /\ fn.layout[PlaceOf(fn, b)] = b
<1>1. \E i \in DOMAIN fn.layout : fn.layout[i] = b
    BY DEF Blocks, ToSet
<1>2. DOMAIN fn.layout = 1 .. Len(fn.layout)
    BY LenProperties
<1>3. QED  BY <1>1, <1>2 DEF PlaceOf

(* A block that is added at a place behind the entry. *)
LEMMA AddBlockIs ==
    ASSUME NEW fn, IsShape(fn), NEW place \in 2 .. Len(fn.layout) + 1,
           NEW n \in Nat \ {0}, n \notin DOMAIN fn.code, n \notin DOMAIN fn.term,
           n \notin DOMAIN fn.from,
           NEW code \in Seq(Instructions), NEW term, NEW from
    PROVE  LET h == AddBlock(fn, place, n, code, term, from)
           IN  /\ IsShape(h)
               /\ Blocks(h) = Blocks(fn) \cup {n} /\ n \notin Blocks(fn)
               /\ h.layout = InsertAt(fn.layout, place, n)
               /\ h.code[n] = code /\ h.term[n] = term /\ h.from[n] = from
               /\ \A x \in Blocks(fn) : /\ h.code[x] = fn.code[x]
                                        /\ h.term[x] = fn.term[x]
                                        /\ h.from[x] = fn.from[x]
<1> DEFINE h == AddBlock(fn, place, n, code, term, from)
<1>1. h = [layout |-> InsertAt(fn.layout, place, n), code |-> Extended(fn.code, n, code),
           term |-> Extended(fn.term, n, term), from |-> Extended(fn.from, n, from),
           cases |-> << >>, default |-> 0]
    <2>1. PICK a, c, t, r : fn = [layout |-> a, code |-> c, term |-> t, from |-> r,
                                  cases |-> << >>, default |-> 0]
        BY DEF IsShape, HasFields
    <2>2. fn.layout = a /\ fn.code = c /\ fn.term = t /\ fn.from = r
        BY <2>1
    <2>3. h = [[[[[layout |-> a, code |-> c, term |-> t, from |-> r, cases |-> << >>, default |-> 0]
                  EXCEPT !.layout = InsertAt(a, place, n)] EXCEPT !.code = Extended(c, n, code)]
                EXCEPT !.term = Extended(t, n, term)] EXCEPT !.from = Extended(r, n, from)]
        BY <2>1, <2>2 DEF AddBlock
    <2> HIDE DEF h
    <2>4. QED  BY <2>2, <2>3
<1>2. /\ h.layout = InsertAt(fn.layout, place, n) /\ h.code = Extended(fn.code, n, code)
      /\ h.term = Extended(fn.term, n, term) /\ h.from = Extended(fn.from, n, from)
    BY <1>1
<1>3. HasFields(h)
    BY <1>1, <1>2 DEF HasFields
<1> HIDE DEF h
<1>4. fn.layout \in Seq(Nat \ {0}) /\ Len(fn.layout) \in Nat /\ fn.layout # << >>
    BY LenProperties DEF IsShape
<1>5. /\ h.layout \in Seq(Nat \ {0}) /\ Len(h.layout) = Len(fn.layout) + 1
      /\ Blocks(h) = Blocks(fn) \cup {n}
    <2>1. place \in 1 .. Len(fn.layout) + 1
        BY <1>4
    <2>2. /\ InsertAt(fn.layout, place, n) \in Seq(Nat \ {0})
          /\ Len(InsertAt(fn.layout, place, n)) = Len(fn.layout) + 1
          /\ ToSet(InsertAt(fn.layout, place, n)) = ToSet(fn.layout) \cup {n}
        <3>1. PICK T, l : T = Nat \ {0} /\ l = fn.layout
            OBVIOUS
        <3>2. l \in Seq(T) /\ place \in 1 .. Len(l) + 1 /\ n \in T
            BY <1>4, <2>1, <3>1
        <3>3. /\ InsertAt(l, place, n) \in Seq(T) /\ Len(InsertAt(l, place, n)) = Len(l) + 1
              /\ ToSet(InsertAt(l, place, n)) = ToSet(l) \cup {n}
            BY <3>2, Inserted
        <3>4. QED  BY <3>1, <3>3
    <2>3. QED  BY <1>2, <2>2 DEF Blocks
<1>6. h.layout # << >>
    BY <1>4, <1>5
<1>7. n \notin Blocks(fn)
    BY DEF IsShape
<1>8. /\ DOMAIN h.code = DOMAIN fn.code \cup {n} /\ DOMAIN h.term = DOMAIN fn.term \cup {n}
      /\ DOMAIN h.from = DOMAIN fn.from \cup {n}
      /\ h.code[n] = code /\ h.term[n] = term /\ h.from[n] = from
    BY <1>2 DEF Extended
<1>9. \A x \in Blocks(fn) : h.code[x] = fn.code[x] /\ h.term[x] = fn.term[x] /\ h.from[x] = fn.from[x]
    <2> TAKE x \in Blocks(fn)
    <2>1. x # n /\ x \in DOMAIN fn.code /\ x \in DOMAIN fn.term /\ x \in DOMAIN fn.from
        BY <1>7 DEF IsShape
    <2>2. QED  BY <1>2, <2>1 DEF Extended
<1>10. IsShape(h)
    <2>1. ASSUME NEW x \in DOMAIN h.code \cup DOMAIN h.term \cup DOMAIN h.from
          PROVE  x \in Nat /\ \E b \in Blocks(h) : x <= b
        <3>1. CASE x = n
            <4>1. n \in Blocks(h) /\ n <= n /\ n \in Nat
                BY <1>5
            <4>2. QED  BY <3>1, <4>1
        <3>2. CASE x # n
            BY <1>5, <1>8, <3>2 DEF IsShape
        <3>3. QED  BY <3>1, <3>2
    <2>2. \A b \in Blocks(h) : h.code[b] \in Seq(Instructions)
        BY <1>5, <1>8, <1>9 DEF IsShape
    <2>3. /\ Blocks(h) \subseteq DOMAIN h.code /\ Blocks(h) \subseteq DOMAIN h.term
          /\ Blocks(h) \subseteq DOMAIN h.from
        BY <1>5, <1>8 DEF IsShape
    <2>4. QED  BY <1>3, <1>5, <1>6, <2>1, <2>2, <2>3 DEF IsShape
<1>11. QED  BY <1>2, <1>5, <1>7, <1>8, <1>9, <1>10 DEF h

(* The two parts of a sequence. *)
LEMMA Parts ==
    ASSUME NEW T, NEW s \in Seq(T), NEW k \in 0 .. Len(s)
    PROVE  LET rest == SubSeq(s, k + 1, Len(s))
           IN  /\ SubSeq(s, 1, k) \in Seq(T) /\ Len(SubSeq(s, 1, k)) = k
               /\ \A i \in 1 .. k : SubSeq(s, 1, k)[i] = s[i]
               /\ rest \in Seq(T) /\ Len(rest) = Len(s) - k
               /\ \A i \in 1 .. Len(s) - k : rest[i] = s[k + i]
<1>1. Len(s) \in Nat /\ \A i \in 1 .. Len(s) : s[i] \in T
    BY LenProperties, ElementOfSeq
<1>2. /\ SubSeq(s, 1, k) \in Seq(T) /\ Len(SubSeq(s, 1, k)) = k
      /\ \A i \in 1 .. k : SubSeq(s, 1, k)[i] = s[i]
    <2>1. \A i \in 1 .. k : s[i] \in T
        BY <1>1
    <2>2. QED  BY <1>1, <2>1, SubSeqProperties
<1> DEFINE m == k + 1
           l == Len(s)
<1>3. m \in Int /\ l \in Int /\ \A i \in m .. l : s[i] \in T
    BY <1>1
<1>4. /\ SubSeq(s, m, l) \in Seq(T)
      /\ Len(SubSeq(s, m, l)) = IF m <= l THEN l - m + 1 ELSE 0
      /\ \A i \in 1 .. l - m + 1 : SubSeq(s, m, l)[i] = s[m + i - 1]
    <2> HIDE DEF m, l
    <2>1. QED  BY <1>3, SubSeqProperties
<1>5. l - m + 1 = l - k /\ (m <= l \/ l - k = 0) /\ \A i \in 1 .. l - k : m + i - 1 = k + i
    BY <1>1
<1>6. /\ Len(SubSeq(s, m, l)) = l - k
      /\ \A i \in 1 .. l - k : SubSeq(s, m, l)[i] = s[k + i]
    <2> HIDE DEF m, l
    <2>1. QED  BY <1>4, <1>5
<1>7. QED  BY <1>2, <1>4, <1>6

Changed(fn, x, y, z) == [[[fn EXCEPT !.code = x] EXCEPT !.term = y] EXCEPT !.from = z]

(* EXCEPT on a function, field by field.                                    *)
LEMMA FieldsChange ==
    ASSUME NEW fn, HasFields(fn), NEW x, NEW y, NEW z
    PROVE  Changed(fn, x, y, z)
             = [layout |-> fn.layout, code |-> x, term |-> y, from |-> z, cases |-> << >>,
                default |-> 0]
<1>1. PICK a, c, t, r : fn = [layout |-> a, code |-> c, term |-> t, from |-> r,
                              cases |-> << >>, default |-> 0]
    BY DEF HasFields
<1>2. fn.layout = a
    BY <1>1
<1> DEFINE h == [[[fn EXCEPT !.code = x] EXCEPT !.term = y] EXCEPT !.from = z]
<1>3. h = [[[[layout |-> a, code |-> c, term |-> t, from |-> r, cases |-> << >>, default |-> 0]
             EXCEPT !.code = x] EXCEPT !.term = y] EXCEPT !.from = z]
    BY <1>1
<1> HIDE DEF h
<1>4. h = [layout |-> a, code |-> x, term |-> y, from |-> z, cases |-> << >>, default |-> 0]
    BY <1>3
<1>5. QED  BY <1>2, <1>4 DEF h, Changed

(* A block that is cut. *)
IsSplit(fn, b, k, n, h) ==
    /\ IsShape(h) /\ n \in Nat \ {0} /\ n \notin Blocks(fn)
    /\ Blocks(h) = Blocks(fn) \cup {n}
    /\ h.layout = InsertAt(fn.layout, PlaceOf(fn, b) + 1, n)
    /\ Len(h.code[b]) = k /\ Len(h.code[n]) = Len(fn.code[b]) - k
    /\ \A i \in 1 .. k : h.code[b][i] = fn.code[b][i]
    /\ \A i \in 1 .. Len(h.code[n]) : h.code[n][i] = fn.code[b][k + i]
    /\ h.term[b] = Jump(n) /\ h.term[n] = fn.term[b]
    /\ h.from[n] = fn.from[b]
    /\ \A x \in Blocks(fn) :
          /\ x # b => h.code[x] = fn.code[x] /\ h.term[x] = fn.term[x]
          /\ h.from[x] = IF x \in ToSet(fn.term[b].to) THEN Renamed(fn.from[x], b, n)
                                                       ELSE fn.from[x]

(* What splitBasicBlock changes, and that the function keeps its shape.     *)
LEMMA SplitBlockIs ==
    ASSUME NEW fn, IsShape(fn), NEW b \in Blocks(fn), NEW k \in 0 .. Len(fn.code[b])
    PROVE  IsSplit(fn, b, k, Fresh(fn), SplitBlock(fn, b, k))
<1> DEFINE n == Fresh(fn)
           all == fn.code[b]
           rest == SubSeq(all, k + 1, Len(all))
           from == [x \in DOMAIN fn.from |->
                      IF x \in ToSet(fn.term[b].to) THEN Renamed(fn.from[x], b, n)
                                                    ELSE fn.from[x]]
           code == [fn.code EXCEPT ![b] = SubSeq(all, 1, k)]
           term == [fn.term EXCEPT ![b] = Jump(n)]
           cut == [layout |-> fn.layout, code |-> code, term |-> term, from |-> from,
                   cases |-> << >>, default |-> 0]
           h == AddBlock(cut, PlaceOf(fn, b) + 1, n, rest, fn.term[b], fn.from[b])
<1>1. /\ n \in Nat \ {0} /\ n \notin Blocks(fn) /\ n \notin DOMAIN fn.code
      /\ n \notin DOMAIN fn.term /\ n \notin DOMAIN fn.from
    BY FreshIsNew
<1>2. /\ Blocks(fn) \subseteq DOMAIN fn.code /\ Blocks(fn) \subseteq DOMAIN fn.term
      /\ Blocks(fn) \subseteq DOMAIN fn.from
      /\ fn.layout \in Seq(Nat \ {0}) /\ Len(fn.layout) \in Nat
      /\ all \in Seq(Instructions) /\ Len(all) \in Nat
    BY LenProperties DEF IsShape
<1>3. /\ SubSeq(all, 1, k) \in Seq(Instructions) /\ Len(SubSeq(all, 1, k)) = k
      /\ \A i \in 1 .. k : SubSeq(all, 1, k)[i] = all[i]
      /\ rest \in Seq(Instructions) /\ Len(rest) = Len(all) - k
      /\ \A i \in 1 .. Len(all) - k : rest[i] = all[k + i]
    <2>1. PICK s : s = all
        OBVIOUS
    <2>2. s \in Seq(Instructions) /\ k \in 0 .. Len(s)
        BY <1>2, <2>1
    <2> HIDE DEF all
    <2>3. QED  BY <2>1, <2>2, Parts
<1>4. \A i \in 1 .. Len(rest) : rest[i] = all[k + i]
    BY <1>3
<1>5. SplitBlock(fn, b, k) = h
    <2>1. HasFields(fn)
        BY DEF IsShape
    <2>2. [[[fn EXCEPT !.code = code] EXCEPT !.term = term] EXCEPT !.from = from] = cut
        <3> HIDE DEF code, term, from
        <3>1. PICK x, y, z : x = code /\ y = term /\ z = from
            OBVIOUS
        <3>2. Changed(fn, x, y, z)
                = [layout |-> fn.layout, code |-> x, term |-> y, from |-> z, cases |-> << >>,
                   default |-> 0]
            BY <2>1, FieldsChange
        <3>3. QED  BY <3>1, <3>2 DEF Changed
    <2>6. [fn EXCEPT !.code[b] = SubSeq(@, 1, k),
                     !.term[b] = Jump(n),
                     !.from = [x \in DOMAIN @ |->
                                 IF x \in ToSet(fn.term[b].to)
                                    THEN Renamed(@[x], b, n) ELSE @[x]]]
            = [[[fn EXCEPT !.code = code] EXCEPT !.term = term] EXCEPT !.from = from]
        OBVIOUS
    <2> HIDE DEF cut
    <2>7. QED  BY <2>2, <2>6 DEF SplitBlock
<1>6. /\ cut.layout = fn.layout /\ cut.code = code /\ cut.term = term /\ cut.from = from
      /\ DOMAIN code = DOMAIN fn.code /\ DOMAIN term = DOMAIN fn.term
      /\ DOMAIN from = DOMAIN fn.from
    OBVIOUS
<1>7. /\ code[b] = SubSeq(all, 1, k) /\ term[b] = Jump(n)
      /\ \A x \in Blocks(fn) : /\ x # b => code[x] = fn.code[x] /\ term[x] = fn.term[x]
                               /\ from[x] = IF x \in ToSet(fn.term[b].to)
                                               THEN Renamed(fn.from[x], b, n) ELSE fn.from[x]
    BY <1>2
<1>8. IsShape(cut)
    <2>1. HasFields(cut)
        BY <1>6 DEF HasFields
    <2>2. Blocks(cut) = Blocks(fn)
        BY <1>6 DEF Blocks
    <2> HIDE DEF code, term, from, cut
    <2>3. \A x \in Blocks(fn) : code[x] \in Seq(Instructions)
        BY <1>3, <1>7 DEF IsShape
    <2>4. QED  BY <1>6, <2>1, <2>2, <2>3 DEF IsShape
<1>9. PlaceOf(fn, b) + 1 \in 2 .. Len(fn.layout) + 1
    <2>1. PlaceOf(fn, b) \in 1 .. Len(fn.layout)
        BY <1>2, PlaceIs
    <2>2. QED  BY <1>2, <2>1
<1> HIDE DEF n, code, term, from, cut, rest, all
<1>10. Blocks(cut) = Blocks(fn)
    BY <1>6 DEF Blocks
<1>11. /\ IsShape(h) /\ Blocks(h) = Blocks(fn) \cup {n}
       /\ h.layout = InsertAt(fn.layout, PlaceOf(fn, b) + 1, n)
       /\ h.code[n] = rest /\ h.term[n] = fn.term[b] /\ h.from[n] = fn.from[b]
       /\ \A x \in Blocks(fn) : h.code[x] = code[x] /\ h.term[x] = term[x] /\ h.from[x] = from[x]
    <2>1. PICK place, t, r : place = PlaceOf(fn, b) + 1 /\ t = fn.term[b] /\ r = fn.from[b]
        OBVIOUS
    <2>2. place \in 2 .. Len(cut.layout) + 1
        BY <1>6, <1>9, <2>1
    <2>3. /\ n \notin DOMAIN cut.code /\ n \notin DOMAIN cut.term /\ n \notin DOMAIN cut.from
        BY <1>1, <1>6
    <2>4. h = AddBlock(cut, place, n, rest, t, r)
        BY <2>1
    <2> HIDE DEF h
    <2>5. /\ IsShape(h) /\ Blocks(h) = Blocks(cut) \cup {n}
          /\ h.layout = InsertAt(cut.layout, place, n)
          /\ h.code[n] = rest /\ h.term[n] = t /\ h.from[n] = r
          /\ \A x \in Blocks(cut) :
                h.code[x] = cut.code[x] /\ h.term[x] = cut.term[x] /\ h.from[x] = cut.from[x]
        BY <1>1, <1>3, <1>8, <2>2, <2>3, <2>4, AddBlockIs
    <2>6. QED  BY <1>6, <1>10, <2>1, <2>5
<1> HIDE DEF h
<1>12. /\ h.code[b] = SubSeq(all, 1, k)
       /\ \A x \in Blocks(fn) :
             /\ x # b => h.code[x] = fn.code[x] /\ h.term[x] = fn.term[x]
             /\ h.from[x] = IF x \in ToSet(fn.term[b].to) THEN Renamed(fn.from[x], b, n)
                                                          ELSE fn.from[x]
       /\ h.term[b] = Jump(n)
    BY <1>7, <1>11
<1>13. IsSplit(fn, b, k, n, h)
    BY <1>1, <1>3, <1>4, <1>11, <1>12 DEF IsSplit, all
<1>14. QED  BY <1>5, <1>13 DEF n

-----------------------------------------------------------------------------
(* The terminator of a block that may run: what it goes to may run too, by    *)
(* the ways it has in the function p the passes were given.                  *)
IsTerm(t) == {"to", "cond", "sets", "orig"} \subseteq DOMAIN t

GoesOn(fn, J, c, t) ==
    \/ t.to \in Seq(Blocks(fn) \ J)
    \/ t.cond = c /\ t.to # << >> /\ t.to[1] \notin J

IsExit(p, fn, J, c, t) ==
    /\ IsTerm(t) /\ t.sets = << >> /\ t.cond # "switch"
    /\ t.to \in Seq(Blocks(fn) \ {Entry(fn)})
    /\ GoesOn(fn, J, c, t)
    /\ t.orig # 0 => t.orig \in Blocks(p) /\ (t.to = p.term[t.orig].to \/ Len(t.to) = 1)
    /\ t.cond \in {"below", "within"} => Len(t.to) = 2
    /\ t.cond = "cases" =>
          "vals" \in DOMAIN t /\ t.vals \in Seq(Int) /\ Len(t.to) = Len(t.vals) + 1

IsJunkExit(t) == IsTerm(t) /\ t.cond \in {"none", "true", "opaque"}

JunkIsLast(s, J) == \A i, j \in DOMAIN s : i < j /\ s[i] \in J => s[j] \in J

HasOther(fn, J) == J # {} => \E x \in Blocks(fn) \ J : x # Entry(fn)

NoJunk(code) == \A i \in DOMAIN code : code[i].kind # "junk"

Guarded(p, fn, J, c) ==
    /\ IsShape(fn)
    /\ Entry(fn) = Entry(p) /\ J \subseteq Blocks(fn) \ {Entry(fn)}
    /\ JunkIsLast(fn.layout, J)
    /\ HasOther(fn, J)
    /\ \A b \in Blocks(fn) \ J : NoJunk(fn.code[b]) /\ IsExit(p, fn, J, c, fn.term[b])
    /\ \A b \in J : IsJunkExit(fn.term[b])

(* A block added behind leaves the altered ones last.                       *)
LEMMA InsertBehind ==
    ASSUME NEW T, NEW s \in Seq(T), NEW i \in 1 .. Len(s) + 1, NEW e \in T, NEW J,
           JunkIsLast(s, J),
           \/ e \notin J /\ \A q \in 1 .. i - 1 : s[q] \notin J
           \/ e \in J /\ \A q \in i .. Len(s) : s[q] \in J
    PROVE  JunkIsLast(InsertAt(s, i, e), J)
<1> DEFINE r == InsertAt(s, i, e)
<1>1. /\ r \in Seq(T) /\ Len(r) = Len(s) + 1
      /\ \A j \in 1 .. i - 1 : r[j] = s[j]
      /\ r[i] = e
      /\ \A j \in i + 1 .. Len(s) + 1 : r[j] = s[j - 1]
    BY Inserted
<1>2. Len(s) \in Nat /\ DOMAIN s = 1 .. Len(s) /\ DOMAIN r = 1 .. Len(s) + 1
    <2> HIDE DEF r
    <2>1. QED  BY <1>1, LenProperties
<1> HIDE DEF r
<1> SUFFICES ASSUME NEW a \in 1 .. Len(s) + 1, NEW b \in 1 .. Len(s) + 1, a < b, r[a] \in J
             PROVE  r[b] \in J
    BY <1>2 DEF JunkIsLast, r
<1>3. \A x, y \in 1 .. Len(s) : x < y /\ s[x] \in J => s[y] \in J
    BY <1>2 DEF JunkIsLast
<1>4. \/ a \in 1 .. i - 1 /\ a \in 1 .. Len(s) /\ r[a] = s[a]
      \/ a = i /\ r[a] = e
      \/ a \in i + 1 .. Len(s) + 1 /\ a - 1 \in 1 .. Len(s) /\ r[a] = s[a - 1]
    BY <1>1, <1>2
<1>5. \/ b \in 1 .. i - 1 /\ b \in 1 .. Len(s) /\ r[b] = s[b]
      \/ b = i /\ r[b] = e
      \/ b \in i + 1 .. Len(s) + 1 /\ b - 1 \in 1 .. Len(s) /\ b - 1 \in i .. Len(s) /\ r[b] = s[b - 1]
    BY <1>1, <1>2
<1>6. CASE e \notin J /\ \A q \in 1 .. i - 1 : s[q] \notin J
    <2>1. a \in i + 1 .. Len(s) + 1 /\ a - 1 \in 1 .. Len(s) /\ s[a - 1] \in J
        BY <1>4, <1>6
    <2>2. b \in i + 1 .. Len(s) + 1 /\ b - 1 \in 1 .. Len(s) /\ r[b] = s[b - 1] /\ a - 1 < b - 1
        BY <1>2, <1>5, <2>1
    <2>3. QED  BY <1>3, <2>1, <2>2
<1>7. CASE e \in J /\ \A q \in i .. Len(s) : s[q] \in J
    <2>1. CASE b \in 1 .. i - 1
        <3>1. a \in 1 .. Len(s) /\ b \in 1 .. Len(s) /\ r[a] = s[a] /\ r[b] = s[b]
            BY <1>2, <1>4, <1>5, <2>1
        <3>2. QED  BY <1>3, <3>1
    <2>2. CASE b \notin 1 .. i - 1
        BY <1>5, <1>7, <2>2
    <2>3. QED  BY <2>1, <2>2
<1>8. QED  BY <1>6, <1>7

(* What may run is before what may not. *)
LEMMA NoJunkBefore ==
    ASSUME NEW fn, IsShape(fn), NEW J, JunkIsLast(fn.layout, J),
           NEW b \in Blocks(fn), b \notin J
    PROVE  \A q \in 1 .. PlaceOf(fn, b) : fn.layout[q] \notin J
<1>1. fn.layout \in Seq(Nat \ {0}) /\ Len(fn.layout) \in Nat /\ DOMAIN fn.layout = 1 .. Len(fn.layout)
    BY LenProperties DEF IsShape
<1>2. PlaceOf(fn, b) \in 1 .. Len(fn.layout) /\ fn.layout[PlaceOf(fn, b)] = b
    BY <1>1, PlaceIs
<1>3. QED  BY <1>1, <1>2 DEF JunkIsLast

LEMMA JunkBehind ==
    ASSUME NEW fn, IsShape(fn), NEW J, JunkIsLast(fn.layout, J), NEW b \in Blocks(fn) \cap J
    PROVE  \A q \in PlaceOf(fn, b) .. Len(fn.layout) : fn.layout[q] \in J
<1>1. fn.layout \in Seq(Nat \ {0}) /\ Len(fn.layout) \in Nat /\ DOMAIN fn.layout = 1 .. Len(fn.layout)
    BY LenProperties DEF IsShape
<1>2. PlaceOf(fn, b) \in 1 .. Len(fn.layout) /\ fn.layout[PlaceOf(fn, b)] = b
    BY <1>1, PlaceIs
<1>3. QED  BY <1>1, <1>2 DEF JunkIsLast

LEMMA JumpIs ==
    ASSUME NEW n
    PROVE  /\ IsTerm(Jump(n)) /\ Jump(n).to = <<n>> /\ Jump(n).cond = "none"
           /\ Jump(n).sets = << >> /\ Jump(n).orig = 0
BY DEF Jump, IsTerm

LEMMA SeqGrows ==
    ASSUME NEW A, NEW C, A \subseteq C, NEW s \in Seq(A)
    PROVE  s \in Seq(C)
OBVIOUS

LEMMA FirstIsIn ==
    ASSUME NEW A, NEW s \in Seq(A), s # << >>
    PROVE  s[1] \in A
OBVIOUS

(* A terminator stays what it is while blocks are added. *)
LEMMA ExitStays ==
    ASSUME NEW p, NEW fn, NEW J, NEW c, NEW t, IsExit(p, fn, J, c, t),
           NEW h, Blocks(fn) \subseteq Blocks(h), Entry(h) = Entry(fn),
           NEW K, K \cap Blocks(fn) \subseteq J
    PROVE  IsExit(p, h, K, c, t)
<1>1. t.to \in Seq(Blocks(h) \ {Entry(h)})
    <2>1. Blocks(fn) \ {Entry(fn)} \subseteq Blocks(h) \ {Entry(h)}
        OBVIOUS
    <2>2. t.to \in Seq(Blocks(fn) \ {Entry(fn)})
        BY DEF IsExit
    <2>3. QED  BY <2>1, <2>2, SeqGrows
<1>2. GoesOn(h, K, c, t)
    <2>1. CASE t.to \in Seq(Blocks(fn) \ J)
        <3>1. Blocks(fn) \ J \subseteq Blocks(h) \ K
            OBVIOUS
        <3>2. t.to \in Seq(Blocks(h) \ K)
            BY <2>1, <3>1, SeqGrows
        <3>3. QED  BY <3>2 DEF GoesOn
    <2>2. CASE t.cond = c /\ t.to # << >> /\ t.to[1] \notin J
        <3>1. t.to[1] \in Blocks(fn) \ {Entry(fn)}
            <4>1. t.to \in Seq(Blocks(fn) \ {Entry(fn)})
                BY DEF IsExit
            <4>2. QED  BY <2>2, <4>1, FirstIsIn
        <3>2. QED  BY <2>2, <3>1 DEF GoesOn
    <2>3. QED  BY <2>1, <2>2 DEF IsExit, GoesOn
<1>3. QED  BY <1>1, <1>2 DEF IsExit

LEMMA EntryIs ==
    ASSUME NEW fn, IsShape(fn)
    PROVE  /\ Entry(fn) = fn.layout[1] /\ Entry(fn) \in Blocks(fn)
           /\ Len(fn.layout) \in Nat \ {0} /\ DOMAIN fn.layout = 1 .. Len(fn.layout)
<1>1. fn.layout \in Seq(Nat \ {0}) /\ fn.layout # << >>
    BY DEF IsShape
<1>2. Len(fn.layout) \in Nat /\ Len(fn.layout) # 0 /\ DOMAIN fn.layout = 1 .. Len(fn.layout)
    BY <1>1, LenProperties, EmptySeq
<1>3. Head(fn.layout) = fn.layout[1]
    BY <1>1
<1>4. QED  BY <1>2, <1>3 DEF Entry, Blocks, ToSet

LEMMA LongLayout ==
    ASSUME NEW fn, IsShape(fn), NEW y \in Blocks(fn), y # Entry(fn)
    PROVE  Len(fn.layout) > 1
<1>1. /\ Entry(fn) = fn.layout[1] /\ DOMAIN fn.layout = 1 .. Len(fn.layout)
      /\ Len(fn.layout) \in Nat \ {0}
    BY EntryIs
<1>2. PICK i \in 1 .. Len(fn.layout) : fn.layout[i] = y
    BY <1>1 DEF Blocks, ToSet
<1>3. i # 1
    BY <1>1, <1>2
<1>4. QED  BY <1>1, <1>3

(* A block is added, not in front. *)
Behind(fn, i, n, J, K) ==
    \/ K = J /\ \A q \in 1 .. i - 1 : fn.layout[q] \notin J
    \/ K = J \cup {n} /\ \A q \in i .. Len(fn.layout) : fn.layout[q] \in J

LEMMA LayoutGrows ==
    ASSUME NEW fn, IsShape(fn), NEW J, J \subseteq Blocks(fn) \ {Entry(fn)},
           JunkIsLast(fn.layout, J), HasOther(fn, J),
           NEW i \in 2 .. Len(fn.layout) + 1, NEW n \in Nat \ {0}, n \notin Blocks(fn),
           NEW h, IsShape(h), h.layout = InsertAt(fn.layout, i, n),
           NEW K, Behind(fn, i, n, J, K)
    PROVE  /\ Entry(h) = Entry(fn) /\ Blocks(h) = Blocks(fn) \cup {n}
           /\ K \subseteq Blocks(h) \ {Entry(h)} /\ K \cap Blocks(fn) \subseteq J
           /\ JunkIsLast(h.layout, K)
           /\ J # {} => HasOther(h, K)
<1> DEFINE l == fn.layout
           T == Nat \ {0}
<1>1. /\ l \in Seq(T) /\ Len(l) \in Nat \ {0} /\ i \in 1 .. Len(l) + 1 /\ 1 \in 1 .. i - 1
      /\ Entry(fn) = l[1] /\ Entry(fn) \in Blocks(fn) /\ Entry(h) = h.layout[1]
      /\ Blocks(fn) = ToSet(l) /\ DOMAIN l = 1 .. Len(l)
    <2>1. l \in Seq(T)
        BY DEF IsShape
    <2>2. QED  BY <2>1, EntryIs DEF Blocks
<1> HIDE DEF l, T
<1>2. n \in T
    BY DEF T
<1>3. /\ InsertAt(l, i, n)[1] = l[1] /\ ToSet(InsertAt(l, i, n)) = ToSet(l) \cup {n}
    BY <1>1, <1>2, Inserted
<1>4. Entry(h) = Entry(fn) /\ Blocks(h) = Blocks(fn) \cup {n}
    BY <1>1, <1>3 DEF l, Blocks
<1>5. JunkIsLast(l, K)
    <2>1. \A q \in DOMAIN l : l[q] \in K => l[q] \in J
        BY <1>1 DEF ToSet, Behind
    <2>2. J \subseteq K
        BY DEF Behind
    <2>3. QED  BY <2>1, <2>2 DEF JunkIsLast, l
<1>6. \/ n \notin K /\ \A q \in 1 .. i - 1 : l[q] \notin K
      \/ n \in K /\ \A q \in i .. Len(l) : l[q] \in K
    <2>1. CASE K = J /\ \A q \in 1 .. i - 1 : fn.layout[q] \notin J
        BY <2>1 DEF l
    <2>2. CASE K = J \cup {n} /\ \A q \in i .. Len(fn.layout) : fn.layout[q] \in J
        BY <2>2 DEF l
    <2>3. QED  BY <2>1, <2>2 DEF Behind
<1>7. JunkIsLast(InsertAt(l, i, n), K)
    BY <1>1, <1>2, <1>5, <1>6, InsertBehind
<1>8. K \subseteq Blocks(h) \ {Entry(h)} /\ K \cap Blocks(fn) \subseteq J
    BY <1>1, <1>4 DEF Behind
<1>9. J # {} => HasOther(h, K)
    BY <1>4, <1>8 DEF HasOther
<1>10. QED  BY <1>4, <1>7, <1>8, <1>9 DEF l

(* Splitting a block keeps the altered ones unreachable.                    *)
LEMMA SplitGuards ==
    ASSUME NEW p, NEW fn, NEW J, NEW c, Guarded(p, fn, J, c), NEW b \in Blocks(fn),
           NEW k \in 0 .. Len(fn.code[b])
    PROVE  Guarded(p, SplitBlock(fn, b, k), IF b \in J THEN J \cup {Fresh(fn)} ELSE J, c)
<1> DEFINE n == Fresh(fn)
           h == SplitBlock(fn, b, k)
           K == IF b \in J THEN J \cup {n} ELSE J
           all == fn.code[b]
           i == PlaceOf(fn, b) + 1
<1>1. IsShape(fn) /\ JunkIsLast(fn.layout, J) /\ HasOther(fn, J) /\ J \subseteq Blocks(fn) \ {Entry(fn)}
    BY DEF Guarded
<1>2. /\ IsShape(h) /\ n \in Nat \ {0} /\ n \notin Blocks(fn)
      /\ h.layout = InsertAt(fn.layout, i, n)
      /\ Len(h.code[b]) = k /\ Len(h.code[n]) = Len(all) - k
      /\ \A q \in 1 .. k : h.code[b][q] = all[q]
      /\ \A q \in 1 .. Len(h.code[n]) : h.code[n][q] = all[k + q]
      /\ h.term[b] = Jump(n) /\ h.term[n] = fn.term[b]
      /\ \A x \in Blocks(fn) : x # b => h.code[x] = fn.code[x] /\ h.term[x] = fn.term[x]
    BY <1>1, SplitBlockIs DEF IsSplit
<1> HIDE DEF n, h
<1>3. i \in 2 .. Len(fn.layout) + 1 /\ i - 1 = PlaceOf(fn, b)
    <2>1. fn.layout \in Seq(Nat \ {0}) /\ Len(fn.layout) \in Nat
        BY <1>1, LenProperties DEF IsShape
    <2>2. PlaceOf(fn, b) \in 1 .. Len(fn.layout)
        BY <2>1, PlaceIs
    <2>3. QED  BY <2>1, <2>2
<1>4. Behind(fn, i, n, J, K)
    <2>1. CASE b \in J
        <3>1. \A q \in PlaceOf(fn, b) .. Len(fn.layout) : fn.layout[q] \in J
            BY <1>1, <2>1, JunkBehind
        <3>2. QED  BY <1>3, <2>1, <3>1 DEF Behind
    <2>2. CASE b \notin J
        BY <1>1, <1>3, <2>2, NoJunkBefore DEF Behind
    <2>3. QED  BY <2>1, <2>2
<1>5. n \in K <=> b \in J
    BY <1>1, <1>2
<1> HIDE DEF i, K
<1>6. /\ Entry(h) = Entry(fn) /\ Blocks(h) = Blocks(fn) \cup {n}
      /\ K \subseteq Blocks(h) \ {Entry(h)} /\ K \cap Blocks(fn) \subseteq J
      /\ JunkIsLast(h.layout, K)
      /\ J # {} => HasOther(h, K)
    BY <1>1, <1>2, <1>3, <1>4, LayoutGrows
<1>7. HasOther(h, K)
    <2>1. CASE b \in J
        BY <1>6, <2>1
    <2>2. CASE b \notin J
        BY <1>6, <2>2 DEF K, HasOther
    <2>3. QED  BY <2>1, <2>2
<1>8. J \subseteq K
    BY DEF K
<1>9. ASSUME NEW x \in Blocks(h) \ K PROVE NoJunk(h.code[x])
    <2>1. CASE x \in Blocks(fn) /\ x # b
        BY <1>2, <1>8, <2>1 DEF Guarded
    <2>2. CASE x = b \/ x = n
        <3>1. NoJunk(all) /\ Len(all) \in Nat /\ DOMAIN all = 1 .. Len(all)
            <4>1. b \notin J
                BY <1>5, <1>8, <2>2
            <4>2. all \in Seq(Instructions)
                BY <1>1 DEF IsShape
            <4>3. QED  BY <4>1, <4>2, LenProperties DEF Guarded
        <3>2. h.code[x] \in Seq(Instructions)
            BY <1>2 DEF IsShape
        <3>3. DOMAIN h.code[x] = 1 .. Len(h.code[x])
            BY <3>2, LenProperties
        <3> HIDE DEF all
        <3>4. \A q \in DOMAIN h.code[x] : \E r \in DOMAIN all : h.code[x][q] = all[r]
            <4> SUFFICES ASSUME NEW q \in DOMAIN h.code[x] 
                         PROVE  \E r \in DOMAIN all : h.code[x][q] = all[r]
                OBVIOUS
            <4>1. CASE x = b
                <5>1. q \in 1 .. k /\ q \in 1 .. Len(all)
                    BY <1>2, <3>1, <3>3, <4>1 DEF all
                <5>2. QED  BY <1>2, <3>1, <4>1, <5>1
            <4>2. CASE x = n
                <5>1. k \in Nat /\ q \in 1 .. Len(h.code[n]) /\ k + q \in 1 .. Len(all)
                    BY <1>2, <3>1, <3>3, <4>2 DEF all
                <5>2. QED  BY <1>2, <3>1, <4>2, <5>1
            <4>3. QED  BY <2>2, <4>1, <4>2
        <3>5. QED  BY <3>1, <3>4 DEF NoJunk
    <2>3. QED  BY <1>6, <2>1, <2>2
<1>10. ASSUME NEW t, IsExit(p, fn, J, c, t) PROVE IsExit(p, h, K, c, t)
    BY <1>6, <1>10, ExitStays
<1>11. b \notin J => IsExit(p, h, K, c, Jump(n))
    <2>1. SUFFICES ASSUME b \notin J PROVE IsExit(p, h, K, c, Jump(n))
        OBVIOUS
    <2>2. n \in Blocks(h) \ {Entry(h)} /\ n \in Blocks(h) \ K
        BY <1>1, <1>2, <1>5, <1>6, <2>1, EntryIs
    <2>3. <<n>> \in Seq(Blocks(h) \ {Entry(h)}) /\ <<n>> \in Seq(Blocks(h) \ K)
        BY <2>2
    <2>4. QED  BY <2>3, JumpIs DEF IsExit, GoesOn
<1>12. ASSUME NEW x \in Blocks(h) \ K PROVE IsExit(p, h, K, c, h.term[x])
    <2>1. CASE x \in Blocks(fn) /\ x # b
        <3>1. IsExit(p, fn, J, c, fn.term[x])
            BY <1>8, <2>1 DEF Guarded
        <3>2. QED  BY <1>2, <1>10, <2>1, <3>1
    <2>2. CASE x = b
        BY <1>2, <1>8, <1>11, <2>2
    <2>3. CASE x = n
        <3>1. b \notin J
            BY <1>5, <2>3
        <3>2. IsExit(p, fn, J, c, fn.term[b])
            BY <3>1 DEF Guarded
        <3>3. QED  BY <1>2, <1>10, <2>3, <3>2
    <2>4. QED  BY <1>6, <2>1, <2>2, <2>3
<1>13. ASSUME NEW x \in K PROVE IsJunkExit(h.term[x])
    <2>1. CASE x \in Blocks(fn) /\ x # b
        BY <1>2, <1>6, <2>1 DEF Guarded
    <2>2. CASE x = b
        BY <1>2, <2>2, JumpIs DEF IsJunkExit
    <2>3. CASE x = n
        BY <1>2, <1>5, <2>3 DEF Guarded
    <2>4. QED  BY <1>6, <2>1, <2>2, <2>3
<1>14. Entry(h) = Entry(p)
    BY <1>6 DEF Guarded
<1>15. Guarded(p, h, K, c)
    BY <1>2, <1>6, <1>7, <1>9, <1>12, <1>13, <1>14 DEF Guarded
<1>16. QED  BY <1>15 DEF h, K, n

-----------------------------------------------------------------------------
(* Phi nodes come first, and have an entry for every predecessor.            *)
PhisFirst(code) == \A i, j \in DOMAIN code : i < j /\ IsPhi(code[j]) => IsPhi(code[i])

HasPhi(code) == \E i \in DOMAIN code : IsPhi(code[i])

PhisKept(fn) ==
    \A b \in Blocks(fn) : /\ PhisFirst(fn.code[b])
                          /\ HasPhi(fn.code[b]) => DOMAIN fn.from[b] = Preds(fn, b)

(* Splitting a block renames what the phi nodes of its successors take.     *)
LEMMA SplitPhis ==
    ASSUME NEW fn, IsShape(fn), PhisKept(fn), NEW b \in Blocks(fn), NEW k \in 0 .. Len(fn.code[b]),
           \A i \in k + 1 .. Len(fn.code[b]) : ~IsPhi(fn.code[b][i]),
           NEW n, NEW h, IsSplit(fn, b, k, n, h)
    PROVE  PhisKept(h) /\ ~HasPhi(h.code[n])
<1> DEFINE all == fn.code[b]
<1>1. /\ all \in Seq(Instructions) /\ Len(all) \in Nat /\ DOMAIN all = 1 .. Len(all)
    <2>1. all \in Seq(Instructions)
        BY DEF IsShape
    <2>2. QED  BY <2>1, LenProperties
<1>2. /\ DOMAIN h.code[b] = 1 .. k /\ DOMAIN h.code[n] = 1 .. Len(all) - k
    <2>1. h.code[b] \in Seq(Instructions) /\ h.code[n] \in Seq(Instructions)
        BY DEF IsSplit, IsShape
    <2>2. Len(h.code[b]) = k /\ Len(h.code[n]) = Len(all) - k
        BY DEF IsSplit
    <2>3. QED  BY <2>1, <2>2, LenProperties
<1> HIDE DEF all
<1>3. ~HasPhi(h.code[n])
    <2>1. SUFFICES ASSUME NEW i \in 1 .. Len(all) - k PROVE ~IsPhi(h.code[n][i])
        BY <1>2 DEF HasPhi
    <2>2. h.code[n][i] = all[k + i] /\ k + i \in k + 1 .. Len(all)
        BY <1>1 DEF IsSplit, all
    <2>3. QED  BY <2>2 DEF all
<1>4. ASSUME NEW x \in Blocks(fn), HasPhi(h.code[x]) PROVE HasPhi(fn.code[x])
    <2>1. CASE x = b
        <3>1. PICK i \in 1 .. k : IsPhi(h.code[b][i])
            BY <1>2, <1>4, <2>1 DEF HasPhi
        <3>2. i \in DOMAIN all /\ h.code[b][i] = all[i]
            BY <1>1 DEF IsSplit, all
        <3>3. QED  BY <2>1, <3>1, <3>2 DEF HasPhi, all
    <2>2. CASE x # b
        BY <1>4, <2>2 DEF IsSplit
    <2>3. QED  BY <2>1, <2>2
<1>5. ASSUME NEW x \in Blocks(h) PROVE PhisFirst(h.code[x])
    <2>1. CASE x \in Blocks(fn) /\ x # b
        BY <2>1 DEF IsSplit, PhisKept
    <2>2. CASE x = b
        <3>1. SUFFICES ASSUME NEW i \in 1 .. k, NEW j \in 1 .. k, i < j, IsPhi(h.code[b][j])
                       PROVE  IsPhi(h.code[b][i])
            BY <1>2, <2>2 DEF PhisFirst
        <3>2. i \in DOMAIN all /\ j \in DOMAIN all /\ h.code[b][i] = all[i] /\ h.code[b][j] = all[j]
            BY <1>1 DEF IsSplit, all
        <3>3. PhisFirst(all)
            BY DEF PhisKept, all
        <3>4. QED  BY <3>1, <3>2, <3>3 DEF PhisFirst
    <2>3. CASE x = n
        BY <1>3, <2>3 DEF PhisFirst, HasPhi
    <2>4. QED  BY <2>1, <2>2, <2>3 DEF IsSplit
<1>6. ASSUME NEW x \in Blocks(h), HasPhi(h.code[x]) PROVE DOMAIN h.from[x] = Preds(h, x)
    <2>1. x \in Blocks(fn) /\ x # n
        BY <1>3, <1>6 DEF IsSplit
    <2>2. DOMAIN fn.from[x] = Preds(fn, x)
        BY <1>4, <1>6, <2>1 DEF PhisKept
    <2>3. x \notin ToSet(Jump(n).to)
        <3>1. Jump(n).to = <<n>>
            BY JumpIs
        <3>2. ToSet(<<n>>) = {n}
            BY DEF ToSet
        <3>3. QED  BY <2>1, <3>1, <3>2
    <2>4. n \notin Blocks(fn)
        BY DEF IsSplit
    <2>5. \A y \in Blocks(fn) \ {b} : y \in Preds(h, x) <=> y \in Preds(fn, x)
        BY DEF Preds, IsSplit
    <2>6. b \notin Preds(h, x) /\ (n \in Preds(h, x) <=> x \in ToSet(fn.term[b].to))
        BY <2>3 DEF Preds, IsSplit
    <2>7. Preds(h, x) \subseteq Blocks(fn) \cup {n} /\ Preds(fn, x) \subseteq Blocks(fn)
        BY DEF Preds, IsSplit
    <2>8. b \in Preds(fn, x) <=> x \in ToSet(fn.term[b].to)
        BY DEF Preds
    <2>9. CASE x \in ToSet(fn.term[b].to)
        <3>1. h.from[x] = Renamed(fn.from[x], b, n)
            BY <2>1, <2>9 DEF IsSplit
        <3>2. DOMAIN h.from[x] = (Preds(fn, x) \ {b}) \cup {n}
            BY <2>2, <2>8, <2>9, <3>1 DEF Renamed
        <3>3. QED  BY <2>4, <2>5, <2>6, <2>7, <2>9, <3>2
    <2>10. CASE x \notin ToSet(fn.term[b].to)
        <3>1. h.from[x] = fn.from[x]
            BY <2>1, <2>10 DEF IsSplit
        <3>2. QED  BY <2>2, <2>5, <2>6, <2>7, <2>8, <2>10, <3>1
    <2>11. QED  BY <2>9, <2>10
<1>7. QED  BY <1>3, <1>5, <1>6 DEF PhisKept

(* No function has both a switch and a call that may unwind.                 *)
Once(fn) == \A b, x \in Blocks(fn) : fn.term[b].cond = "cases" => fn.term[x].cond # "invoke"

LEMMA SplitOnce ==
    ASSUME NEW fn, Once(fn), NEW b \in Blocks(fn), NEW k, NEW n, NEW h, IsSplit(fn, b, k, n, h)
    PROVE  Once(h)
<1>1. \A x \in Blocks(h) : \/ h.term[x].cond = "none"
                           \/ \E y \in Blocks(fn) : h.term[x] = fn.term[y]
    BY JumpIs DEF IsSplit
<1>2. QED  BY <1>1 DEF Once

(* The phi nodes of a block are as many as the place of the last.            *)
LEMMA PhisBefore ==
    ASSUME NEW T, NEW code \in Seq(T)
    PROVE  LET k == Cardinality({i \in DOMAIN code : IsPhi(code[i])})
           IN  /\ k \in 0 .. Len(code)
               /\ PhisFirst(code) => \A i \in k + 1 .. Len(code) : ~IsPhi(code[i])
<1> DEFINE phis == {i \in DOMAIN code : IsPhi(code[i])}
           k == Cardinality(phis)
<1>1. Len(code) \in Nat /\ DOMAIN code = 1 .. Len(code)
    BY LenProperties
<1>2. IsFiniteSet(1 .. Len(code)) /\ Cardinality(1 .. Len(code)) = Len(code)
    BY <1>1, FS_Interval
<1>3. phis \subseteq 1 .. Len(code)
    BY <1>1
<1>4. IsFiniteSet(phis) /\ k \in Nat /\ k <= Len(code)
    <2> HIDE DEF phis
    <2>1. IsFiniteSet(phis) /\ k <= Len(code)
        BY <1>2, <1>3, FS_Subset
    <2>2. QED  BY <2>1, FS_CardinalityType
<1>5. ASSUME PhisFirst(code), NEW i \in k + 1 .. Len(code), IsPhi(code[i]) PROVE FALSE
    <2>1. i \in 1 .. Len(code)
        BY <1>4
    <2>2. \A j \in 1 .. i : j \in phis
        BY <1>1, <1>5, <2>1 DEF PhisFirst
    <2>3. 1 .. i \subseteq phis
        BY <2>2
    <2>4. Cardinality(1 .. i) = i
        BY <1>1, <2>1, FS_Interval
    <2>5. i <= k
        <3> HIDE DEF phis
        <3>1. QED  BY <1>4, <2>3, <2>4, FS_Subset
    <2>6. QED  BY <1>4, <2>5
<1>6. QED  BY <1>1, <1>4, <1>5

-----------------------------------------------------------------------------
(* The original function in what the passes leave of it.  Each block that may *)
(* run is a part of an original block of[b], the one behind its first skip[b] *)
(* instructions; it ends as the original does, or goes on with the next part. *)
Reached(p) == {Entry(p)} \cup {b \in Blocks(p) : ~IsUnreachable(p, b)}

Branch(c, y, a) == [to |-> <<y, a>>, cond |-> c, sets |-> << >>, orig |-> 0]

EndsAs(p, fn, o, b) ==
    /\ \/ fn.term[b] = p.term[o]
       \/ p.term[o].cond = "true" /\ fn.term[b] = [p.term[o] EXCEPT !.cond = "opaque"]
    /\ \A x \in ToSet(p.term[o].to) \cap Reached(p) :
          b \in DOMAIN fn.from[x] /\ fn.from[x][b] = o

GoesOnWith(fn, c, y, b) ==
    fn.term[b] = Jump(y) \/ \E a : fn.term[b] = Branch(c, y, a)

IsPart(p, fn, of, skip, c, b) ==
    /\ of[b] \in Blocks(p) /\ skip[b] \in Nat
    /\ skip[b] + Len(fn.code[b]) <= Len(p.code[of[b]])
    /\ \A i \in 1 .. Len(fn.code[b]) : fn.code[b][i] = p.code[of[b]][skip[b] + i]
    /\ HasPhi(fn.code[b]) => of[b] = b
    /\ \/ EndsAs(p, fn, of[b], b) /\ skip[b] + Len(fn.code[b]) = Len(p.code[of[b]])
       \/ \E y \in DOMAIN of \ {Entry(p)} :
             /\ GoesOnWith(fn, c, y, b) /\ ~HasPhi(fn.code[y])
             /\ of[y] = of[b] /\ skip[y] = skip[b] + Len(fn.code[b])

IsParted(p, fn, of, skip, c) ==
    /\ IsInjective(fn.layout)
    /\ \A x \in Blocks(fn) : \A q \in DOMAIN fn.from[x] : q \in Nat /\ \E b \in Blocks(fn) : q <= b
    /\ DOMAIN of \subseteq Blocks(fn)
    /\ \A b \in Reached(p) : b \in DOMAIN of /\ of[b] = b /\ skip[b] = 0
    /\ \A b \in DOMAIN of : IsPart(p, fn, of, skip, c, b)

(* What Flattening relies on: LowerSwitch has nothing to do, and the entry     *)
(* ends in a choice or jumps to the block behind it.                         *)
HasNoSwitch(fn) == \A b \in Blocks(fn) : fn.term[b].cond # "cases"

FallsThrough(fn) ==
    Len(fn.layout) > 1 => LET to == fn.term[Entry(fn)].to
                          IN  Len(to) > 1 \/ to = <<fn.layout[2]>>

Suits(p, fn) ==
    /\ HasNoSwitch(p) => HasNoSwitch(fn)
    /\ FallsThrough(p) => FallsThrough(fn)

HasParts(p, fn, c) == Suits(p, fn) /\ \E of, skip : IsParted(p, fn, of, skip, c)

(* What is used of the original function.                                   *)
IsSource(p) ==
    /\ IsShape(p)
    /\ \A o \in Blocks(p) :
          /\ IsTerm(p.term[o]) /\ p.term[o].orig = o /\ p.term[o].sets = << >>
          /\ p.term[o].cond \in {"none", "data", "invoke", "true", "cases", "unreachable"}
          /\ p.term[o].cond = "true" => Len(p.term[o].to) = 2
          /\ p.term[o].to \in Seq(Blocks(p) \ {Entry(p)})
          /\ \A i \in DOMAIN p.code[o] : p.code[o][i].at = <<o, i>>

(* A new block is in the layout once.                                       *)
LEMMA InsertedOnce ==
    ASSUME NEW T, NEW s \in Seq(T), IsInjective(s), NEW i \in 1 .. Len(s) + 1,
           NEW e \in T, e \notin ToSet(s)
    PROVE  IsInjective(InsertAt(s, i, e))
<1> DEFINE r == InsertAt(s, i, e)
           old(j) == IF j < i THEN j ELSE j - 1
<1>1. Len(s) \in Nat /\ DOMAIN s = 1 .. Len(s)
    BY LenProperties
<1>2. /\ r \in Seq(T) /\ Len(r) = Len(s) + 1 /\ r[i] = e
      /\ \A j \in 1 .. i - 1 : r[j] = s[j]
      /\ \A j \in i + 1 .. Len(s) + 1 : r[j] = s[j - 1]
    BY Inserted
<1> HIDE DEF r
<1>3. DOMAIN r = 1 .. Len(s) + 1
    BY <1>1, <1>2, LenProperties
<1>4. ASSUME NEW j \in 1 .. Len(s) + 1, j # i
      PROVE  old(j) \in 1 .. Len(s) /\ r[j] = s[old(j)] /\ r[j] # e
    <2>1. old(j) \in 1 .. Len(s) /\ r[j] = s[old(j)]
        BY <1>1, <1>2, <1>4
    <2>2. s[old(j)] \in ToSet(s)
        BY <1>1, <2>1 DEF ToSet
    <2>3. QED  BY <2>1, <2>2
<1>5. ASSUME NEW j \in 1 .. Len(s) + 1, NEW k \in 1 .. Len(s) + 1, r[j] = r[k]
      PROVE  j = k
    <2>1. CASE j = i \/ k = i
        BY <1>2, <1>4, <1>5, <2>1
    <2>2. CASE j # i /\ k # i
        <3>1. old(j) = old(k)
            <4>1. PICK m \in 1 .. Len(s), l \in 1 .. Len(s) : m = old(j) /\ l = old(k)
                BY <1>4, <2>2
            <4>2. s[m] = s[l]
                BY <1>4, <1>5, <2>2, <4>1
            <4>3. QED  BY <1>1, <4>1, <4>2 DEF IsInjective
        <3>2. QED  BY <1>1, <2>2, <3>1
    <2>3. QED  BY <2>1, <2>2
<1>6. IsInjective(r)
    BY <1>3, <1>5 DEF IsInjective
<1>7. QED  BY <1>6 DEF r

(* Splitting a block adds a jump, and puts the new block behind the entry    *)
(* only when it is the entry that is split.                                  *)
LEMMA SplitSuits ==
    ASSUME NEW p, NEW fn, IsShape(fn), IsInjective(fn.layout), Suits(p, fn), NEW b \in Blocks(fn),
           NEW k, NEW n, NEW h, IsSplit(fn, b, k, n, h)
    PROVE  Suits(p, h)
<1>1. /\ IsShape(h) /\ n \in Nat \ {0} /\ Blocks(h) = Blocks(fn) \cup {n}
      /\ h.layout = InsertAt(fn.layout, PlaceOf(fn, b) + 1, n)
      /\ h.term[b] = Jump(n) /\ h.term[n] = fn.term[b]
      /\ \A x \in Blocks(fn) : x # b => h.term[x] = fn.term[x]
    BY DEF IsSplit
<1>2. ASSUME HasNoSwitch(fn) PROVE HasNoSwitch(h)
    BY <1>1, <1>2, JumpIs DEF HasNoSwitch
<1>3. PICK T, s : T = Nat \ {0} /\ s = fn.layout /\ s \in Seq(T) /\ n \in T
    BY <1>1 DEF IsShape
<1> DEFINE l == Len(s)
           i == PlaceOf(fn, b)
<1>4. l \in Nat \ {0} /\ DOMAIN s = 1 .. l /\ Entry(fn) = s[1] /\ i \in 1 .. l /\ s[i] = b
    BY <1>3, EntryIs, PlaceIs
<1> HIDE DEF i
<1>5. /\ \A j \in 1 .. i : h.layout[j] = s[j]
      /\ h.layout[i + 1] = n
    <2>1. PICK m, r : m = i + 1 /\ m \in 1 .. l + 1 /\ m - 1 = i /\ r = InsertAt(s, m, n)
        BY <1>4
    <2>2. (\A j \in 1 .. m - 1 : r[j] = s[j]) /\ r[m] = n
        <3>1. s \in Seq(T) /\ m \in 1 .. Len(s) + 1 /\ n \in T
            BY <1>3, <2>1
        <3>2. IsInserted(T, s, m, n, InsertAt(s, m, n))
            BY <3>1, InsertedIs
        <3>3. QED  BY <2>1, <3>2 DEF IsInserted
    <2>3. h.layout = r
        BY <1>1, <1>3, <2>1 DEF i
    <2>4. QED  BY <2>1, <2>2, <2>3
<1>6. Entry(h) = Entry(fn)
    <2>1. Entry(h) = h.layout[1]
        BY <1>1, EntryIs
    <2>2. QED  BY <1>4, <1>5, <2>1
<1>7. ASSUME FallsThrough(fn) PROVE FallsThrough(h)
    <2>1. CASE b = Entry(fn)
        <3>1. i = 1
            BY <1>3, <1>4, <2>1 DEF IsInjective
        <3>2. h.layout[2] = n
            BY <1>5, <3>1
        <3>3. QED  BY <1>1, <1>6, <2>1, <3>2, JumpIs DEF FallsThrough
    <2>2. CASE b # Entry(fn)
        <3>1. i # 1
            BY <1>4, <2>2
        <3>2. h.layout[2] = s[2] /\ l > 1
            BY <1>4, <1>5, <3>1
        <3>3. h.term[Entry(fn)] = fn.term[Entry(fn)]
            BY <1>1, <2>2, EntryIs
        <3>4. QED  BY <1>3, <1>6, <1>7, <3>2, <3>3 DEF FallsThrough
    <2>3. QED  BY <2>1, <2>2
<1>8. QED  BY <1>2, <1>7 DEF Suits

(* Splitting a block makes two parts of it.                                 *)
LEMMA SplitParts ==
    ASSUME NEW p, IsSource(p), NEW fn, IsShape(fn), NEW c, HasParts(p, fn, c),
           NEW b \in Blocks(fn), NEW k \in 0 .. Len(fn.code[b]),
           NEW n, NEW h, IsSplit(fn, b, k, n, h), ~HasPhi(h.code[n])
    PROVE  HasParts(p, h, c)
<1>1. PICK of, skip : IsParted(p, fn, of, skip, c)
    BY DEF HasParts
<1> DEFINE D == DOMAIN of \cup (IF b \in DOMAIN of THEN {n} ELSE {})
           of2 == [x \in D |-> IF x = n THEN of[b] ELSE of[x]]
           skip2 == [x \in D |-> IF x = n THEN skip[b] + k ELSE skip[x]]
<1>2. /\ n \in Nat \ {0} /\ n \notin Blocks(fn) /\ Blocks(h) = Blocks(fn) \cup {n}
      /\ h.term[b] = Jump(n) /\ h.term[n] = fn.term[b] /\ h.from[n] = fn.from[b]
      /\ \A x \in Blocks(fn) :
          /\ x # b => h.code[x] = fn.code[x] /\ h.term[x] = fn.term[x]
          /\ h.from[x] = IF x \in ToSet(fn.term[b].to) THEN Renamed(fn.from[x], b, n)
                                                       ELSE fn.from[x]
    BY DEF IsSplit
<1>3. Len(fn.code[b]) \in Nat /\ k \in Nat
    <2>1. fn.code[b] \in Seq(Instructions)
        BY DEF IsShape
    <2>2. QED  BY <2>1, LenProperties
<1>4. /\ Len(h.code[b]) = k /\ Len(h.code[n]) = Len(fn.code[b]) - k
      /\ \A i \in 1 .. k : h.code[b][i] = fn.code[b][i]
      /\ \A i \in 1 .. Len(h.code[n]) : h.code[n][i] = fn.code[b][k + i]
    BY DEF IsSplit
<1>5. DOMAIN of \subseteq Blocks(fn) /\ b \notin {n} /\ DOMAIN of2 = D /\ D \subseteq Blocks(h)
    BY <1>1, <1>2 DEF IsParted
<1>6. \A x \in DOMAIN of : x \in D /\ of2[x] = of[x] /\ skip2[x] = skip[x]
    BY <1>2, <1>5
<1>7. b \in DOMAIN of => n \in D /\ of2[n] = of[b] /\ skip2[n] = skip[b] + k
    OBVIOUS
<1> HIDE DEF of2, skip2
<1>8. IsInjective(h.layout)
    <2>1. PICK T, s, i : T = Nat \ {0} /\ s = fn.layout /\ s \in Seq(T) /\ i = PlaceOf(fn, b) + 1
        BY DEF IsShape
    <2>2. i \in 1 .. Len(s) + 1
        <3>1. PlaceOf(fn, b) \in 1 .. Len(fn.layout)
            BY <2>1, PlaceIs
        <3>2. Len(s) \in Nat
            BY <2>1, LenProperties
        <3>3. QED  BY <2>1, <3>1, <3>2
    <2>3. IsInjective(s) /\ n \in T /\ n \notin ToSet(s)
        BY <1>1, <1>2, <2>1 DEF IsParted, Blocks
    <2>4. IsInjective(InsertAt(s, i, n))
        BY <2>1, <2>2, <2>3, InsertedOnce
    <2>5. QED  BY <2>1, <2>4 DEF IsSplit
<1>9. ASSUME NEW x \in Blocks(h), NEW q \in DOMAIN h.from[x]
      PROVE  q \in Nat /\ \E y \in Blocks(h) : q <= y
    <2>1. \A z \in Blocks(fn) : \A r \in DOMAIN fn.from[z] : r \in Nat /\ \E y \in Blocks(fn) : r <= y
        BY <1>1 DEF IsParted
    <2>2. q = n \/ \E z \in Blocks(fn) : q \in DOMAIN fn.from[z]
        <3>1. CASE x = n
            BY <1>2, <3>1
        <3>2. CASE x # n
            <4>1. x \in Blocks(fn)
                BY <1>2, <3>2
            <4>2. h.from[x] = Renamed(fn.from[x], b, n) \/ h.from[x] = fn.from[x]
                BY <1>2, <4>1
            <4>3. DOMAIN h.from[x] \subseteq DOMAIN fn.from[x] \cup {n}
                BY <4>2 DEF Renamed
            <4>4. QED  BY <4>1, <4>3
        <3>3. QED  BY <3>1, <3>2
    <2>3. n <= n
        BY <1>2
    <2>4. QED  BY <1>2, <2>1, <2>2, <2>3
<1>10. ASSUME NEW x \in Reached(p) PROVE x \in DOMAIN of2 /\ of2[x] = x /\ skip2[x] = 0
    BY <1>1, <1>5, <1>6 DEF IsParted
<1>11. Reached(p) \subseteq Blocks(fn)
    BY <1>1, <1>5 DEF IsParted
<1>12. \A y \in Blocks(fn) : HasPhi(h.code[y]) => HasPhi(fn.code[y])
    <2>1. HasPhi(h.code[b]) => HasPhi(fn.code[b])
        <3>1. h.code[b] \in Seq(Instructions) /\ fn.code[b] \in Seq(Instructions)
            BY <1>2 DEF IsSplit, IsShape
        <3>2. DOMAIN h.code[b] = 1 .. k /\ DOMAIN fn.code[b] = 1 .. Len(fn.code[b])
            BY <1>4, <3>1, LenProperties
        <3>3. QED  BY <1>3, <1>4, <3>2 DEF HasPhi
    <2>2. QED  BY <1>2, <2>1
(* an end stays an end *)
<1>13. ASSUME NEW x \in DOMAIN of, x # b, EndsAs(p, fn, of[x], x) PROVE EndsAs(p, h, of2[x], x)
    <2>1. h.term[x] = fn.term[x] /\ of2[x] = of[x] /\ x # n
        BY <1>2, <1>5, <1>6, <1>13
    <2>2. ASSUME NEW y \in ToSet(p.term[of[x]].to) \cap Reached(p)
          PROVE  x \in DOMAIN h.from[y] /\ h.from[y][x] = of[x]
        <3>1. y \in Blocks(fn) /\ x \in DOMAIN fn.from[y] /\ fn.from[y][x] = of[x]
            BY <1>11, <1>13 DEF EndsAs
        <3>2. h.from[y] = Renamed(fn.from[y], b, n) \/ h.from[y] = fn.from[y]
            BY <1>2, <3>1
        <3>3. QED  BY <1>13, <2>1, <3>1, <3>2 DEF Renamed
    <2>3. QED  BY <1>13, <2>1, <2>2 DEF EndsAs
<1>14. ASSUME b \in DOMAIN of, EndsAs(p, fn, of[b], b) PROVE EndsAs(p, h, of2[n], n)
    <2>1. ASSUME NEW y \in ToSet(p.term[of[b]].to) \cap Reached(p)
          PROVE  n \in DOMAIN h.from[y] /\ h.from[y][n] = of[b]
        <3>1. y \in Blocks(fn) /\ b \in DOMAIN fn.from[y] /\ fn.from[y][b] = of[b]
            BY <1>11, <1>14 DEF EndsAs
        <3>2. y \in ToSet(fn.term[b].to)
            <4>1. fn.term[b].to = p.term[of[b]].to
                <5>1. IsTerm(p.term[of[b]])
                    BY <1>1, <1>14 DEF IsParted, IsPart, IsSource
                <5>2. QED  BY <1>14, <5>1 DEF EndsAs, IsTerm
            <4>2. QED  BY <4>1
        <3>3. h.from[y] = Renamed(fn.from[y], b, n)
            BY <1>2, <3>1, <3>2
        <3>4. QED  BY <3>1, <3>3 DEF Renamed
    <2>2. QED  BY <1>2, <1>7, <1>14, <2>1 DEF EndsAs
<1>15. ASSUME NEW x \in DOMAIN of, x # b PROVE IsPart(p, h, of2, skip2, c, x)
    <2>1. /\ h.term[x] = fn.term[x] /\ h.code[x] = fn.code[x]
          /\ of2[x] = of[x] /\ skip2[x] = skip[x]
        BY <1>2, <1>5, <1>6, <1>15
    <2>2. IsPart(p, fn, of, skip, c, x)
        BY <1>1 DEF IsParted
    <2>3. CASE EndsAs(p, fn, of[x], x) /\ skip[x] + Len(fn.code[x]) = Len(p.code[of[x]])
        BY <1>13, <1>15, <2>1, <2>2, <2>3 DEF IsPart
    <2>4. CASE \E y \in DOMAIN of \ {Entry(p)} :
                     /\ GoesOnWith(fn, c, y, x) /\ ~HasPhi(fn.code[y])
                     /\ of[y] = of[x] /\ skip[y] = skip[x] + Len(fn.code[x])
        <3>1. PICK y \in DOMAIN of \ {Entry(p)} :
                     /\ GoesOnWith(fn, c, y, x) /\ ~HasPhi(fn.code[y])
                     /\ of[y] = of[x] /\ skip[y] = skip[x] + Len(fn.code[x])
            BY <2>4
        <3>2. y \in DOMAIN of2 /\ GoesOnWith(h, c, y, x) /\ of2[y] = of2[x]
              /\ skip2[y] = skip2[x] + Len(h.code[x])
            BY <1>5, <1>6, <2>1, <3>1 DEF GoesOnWith
        <3>3. ~HasPhi(h.code[y])
            BY <1>5, <1>12, <3>1
        <3>4. QED  BY <2>1, <2>2, <3>2, <3>3 DEF IsPart
    <2>5. QED  BY <2>2, <2>3, <2>4 DEF IsPart
<1>16. ASSUME b \in DOMAIN of PROVE IsPart(p, h, of2, skip2, c, b) /\ IsPart(p, h, of2, skip2, c, n)
    <2>1. IsPart(p, fn, of, skip, c, b)
        BY <1>1, <1>16 DEF IsParted
    <2>2. /\ of[b] \in Blocks(p) /\ skip[b] \in Nat /\ skip[b] + k \in Nat
          /\ skip[b] + Len(fn.code[b]) <= Len(p.code[of[b]])
          /\ \A i \in 1 .. Len(fn.code[b]) : fn.code[b][i] = p.code[of[b]][skip[b] + i]
        BY <1>3, <2>1 DEF IsPart
    <2>3. of2[b] = of[b] /\ skip2[b] = skip[b] /\ of2[n] = of[b] /\ skip2[n] = skip[b] + k
        BY <1>6, <1>7, <1>16
    <2>4. IsPart(p, h, of2, skip2, c, b)
        <3>1. \A i \in 1 .. Len(h.code[b]) : h.code[b][i] = p.code[of2[b]][skip2[b] + i]
            <4>1. \A i \in 1 .. k : i \in 1 .. Len(fn.code[b])
                BY <1>3
            <4>2. \A i \in 1 .. k : h.code[b][i] = p.code[of[b]][skip[b] + i]
                BY <1>4, <2>2, <4>1
            <4>3. QED  BY <1>4, <2>3, <4>2
        <3>2. HasPhi(h.code[b]) => of2[b] = b
            BY <1>12, <2>1, <2>3 DEF IsPart
        <3>3. /\ n \in DOMAIN of2 \ {Entry(p)} /\ GoesOnWith(h, c, n, b)
              /\ skip2[n] = skip2[b] + Len(h.code[b])
            BY <1>2, <1>4, <1>5, <1>7, <1>11, <1>16, <2>3 DEF GoesOnWith, Reached
        <3>4. ~HasPhi(h.code[n])
            OBVIOUS
        <3>5. skip[b] + Len(h.code[b]) <= Len(p.code[of[b]])
            <4>1. p.code[of[b]] \in Seq(Instructions)
                BY <2>2 DEF IsSource, IsShape
            <4>2. Len(p.code[of[b]]) \in Nat
                BY <4>1, LenProperties
            <4>3. QED  BY <1>3, <1>4, <2>2, <4>2
        <3>6. QED  BY <2>2, <2>3, <3>1, <3>2, <3>3, <3>4, <3>5 DEF IsPart
    <2>5. IsPart(p, h, of2, skip2, c, n)
        <3>1. \A i \in 1 .. Len(h.code[n]) : h.code[n][i] = p.code[of2[n]][skip2[n] + i]
            <4>1. ASSUME NEW i \in 1 .. Len(h.code[n])
                  PROVE  h.code[n][i] = p.code[of2[n]][skip2[n] + i]
                <5>1. k + i \in 1 .. Len(fn.code[b]) /\ skip[b] + (k + i) = (skip[b] + k) + i
                    BY <1>3, <1>4, <2>2
                <5>2. h.code[n][i] = p.code[of[b]][skip[b] + (k + i)]
                    BY <1>4, <2>2, <5>1
                <5>3. QED  BY <2>3, <5>1, <5>2
            <4>2. QED  BY <4>1
        <3>2. (skip[b] + k) + Len(h.code[n]) = skip[b] + Len(fn.code[b])
            BY <1>3, <1>4, <2>2
        <3>3. CASE EndsAs(p, fn, of[b], b) /\ skip[b] + Len(fn.code[b]) = Len(p.code[of[b]])
            BY <1>14, <1>16, <2>2, <2>3, <3>1, <3>2, <3>3 DEF IsPart
        <3>4. CASE \E y \in DOMAIN of \ {Entry(p)} :
                      /\ GoesOnWith(fn, c, y, b) /\ ~HasPhi(fn.code[y])
                      /\ of[y] = of[b] /\ skip[y] = skip[b] + Len(fn.code[b])
            <4>1. PICK y \in DOMAIN of \ {Entry(p)} :
                      /\ GoesOnWith(fn, c, y, b) /\ ~HasPhi(fn.code[y])
                      /\ of[y] = of[b] /\ skip[y] = skip[b] + Len(fn.code[b])
                BY <3>4
            <4>2. /\ y \in DOMAIN of2 /\ GoesOnWith(h, c, y, n) /\ of2[y] = of2[n]
                  /\ skip2[y] = skip2[n] + Len(h.code[n])
                BY <1>2, <1>5, <1>6, <2>3, <3>2, <4>1 DEF GoesOnWith
            <4>3. ~HasPhi(h.code[y])
                BY <1>5, <1>12, <4>1
            <4>4. QED  BY <2>2, <2>3, <3>1, <3>2, <4>2, <4>3 DEF IsPart
        <3>5. QED  BY <2>1, <3>3, <3>4 DEF IsPart
    <2>6. QED  BY <2>4, <2>5
<1>17. \A x \in DOMAIN of2 : IsPart(p, h, of2, skip2, c, x)
    BY <1>5, <1>15, <1>16
<1>18. IsParted(p, h, of2, skip2, c)
    BY <1>5, <1>8, <1>9, <1>10, <1>17 DEF IsParted
<1>19. Suits(p, h)
    BY <1>1, SplitSuits DEF HasParts, IsParted
<1>20. QED  BY <1>18, <1>19 DEF HasParts

-----------------------------------------------------------------------------
(* The operators of Cfg are the same in every pass.                          *)
LEMMA SameInBogus ==
    /\ \A x : B!Jump(x) = Jump(x)
    /\ \A fn : B!Fresh(fn) = Fresh(fn) /\ B!Blocks(fn) = Blocks(fn)
    /\ \A fn, b, k : B!SplitBlock(fn, b, k) = SplitBlock(fn, b, k)
    /\ \A fn, i, b, code, term, from :
          B!AddBlock(fn, i, b, code, term, from) = AddBlock(fn, i, b, code, term, from)
<1>1. \A x : B!Jump(x) = Jump(x)
    BY DEF B!Jump, Jump
<1>2. \A fn : B!Blocks(fn) = Blocks(fn)
    BY DEF B!Blocks, Blocks, B!ToSet, ToSet
<1>3. \A A : B!Max(A) = Max(A)
    BY DEF B!Max, Max
<1>4. \A fn : B!Fresh(fn) = Fresh(fn)
    BY <1>2, <1>3 DEF B!Fresh, Fresh
<1>5. \A fn, i, b, code, term, from :
          B!AddBlock(fn, i, b, code, term, from) = AddBlock(fn, i, b, code, term, from)
    BY DEF B!AddBlock, AddBlock, B!InsertAt, InsertAt, B!Extended, Extended
<1>6. \A fn, b, k : B!SplitBlock(fn, b, k) = SplitBlock(fn, b, k)
    <2> TAKE fn, b, k
    <2>1. PICK n : n = Fresh(fn) /\ n = B!Fresh(fn)
        BY <1>4
    <2>2. \A s : B!ToSet(s) = ToSet(s)
        BY DEF B!ToSet, ToSet
    <2>3. \A from : B!Renamed(from, b, n) = Renamed(from, b, n)
        BY DEF B!Renamed, Renamed
    <2> DEFINE cut == [fn EXCEPT !.code[b] = SubSeq(@, 1, k), !.term[b] = Jump(n)]
               mine == [x \in DOMAIN cut.from |->
                          IF x \in ToSet(fn.term[b].to) THEN Renamed(cut.from[x], b, n)
                                                        ELSE cut.from[x]]
               theirs == [x \in DOMAIN cut.from |->
                            IF x \in B!ToSet(fn.term[b].to) THEN B!Renamed(cut.from[x], b, n)
                                                            ELSE cut.from[x]]
    <2>4. mine = theirs
        <3> HIDE DEF cut
        <3>1. QED  BY <2>2, <2>3
    <2>5. B!Jump(n) = Jump(n)
        BY <1>1
    <2>6. B!PlaceOf(fn, b) = PlaceOf(fn, b)
        BY DEF B!PlaceOf, PlaceOf
    <2> DEFINE rest == SubSeq(fn.code[b], k + 1, Len(fn.code[b]))
    <2>7. SplitBlock(fn, b, k) = AddBlock([cut EXCEPT !.from = mine], PlaceOf(fn, b) + 1, n,
                                          rest, fn.term[b], fn.from[b])
        BY <2>1 DEF SplitBlock
    <2>8. B!SplitBlock(fn, b, k) = B!AddBlock([cut EXCEPT !.from = theirs], PlaceOf(fn, b) + 1, n,
                                              rest, fn.term[b], fn.from[b])
        BY <2>1, <2>5, <2>6 DEF B!SplitBlock
    <2> HIDE DEF cut, mine, theirs, rest
    <2>9. QED  BY <1>5, <2>4, <2>7, <2>8
<1>7. QED  BY <1>1, <1>2, <1>4, <1>5, <1>6

-----------------------------------------------------------------------------
(* A branch that is always taken takes the place of a jump.                  *)
LEMMA TermChange ==
    ASSUME NEW fn, IsShape(fn), NEW b \in Blocks(fn), NEW t
    PROVE  LET h == [fn EXCEPT !.term[b] = t]
           IN  /\ IsShape(h) /\ h.layout = fn.layout /\ h.code = fn.code /\ h.from = fn.from
               /\ h.term[b] = t /\ \A x \in Blocks(fn) \ {b} : h.term[x] = fn.term[x]
               /\ Blocks(h) = Blocks(fn) /\ Entry(h) = Entry(fn)
<1>1. PICK a, c, u, r : fn = [layout |-> a, code |-> c, term |-> u, from |-> r,
                              cases |-> << >>, default |-> 0]
    BY DEF IsShape, HasFields
<1>2. fn.layout = a /\ fn.code = c /\ fn.term = u /\ fn.from = r
    BY <1>1
<1> DEFINE h == [fn EXCEPT !.term[b] = t]
<1>3. h = [[layout |-> a, code |-> c, term |-> u, from |-> r, cases |-> << >>, default |-> 0]
            EXCEPT !.term = [u EXCEPT ![b] = t]]
    BY <1>1, <1>2
<1> HIDE DEF h
<1>4. h = [layout |-> a, code |-> c, term |-> [u EXCEPT ![b] = t], from |-> r,
           cases |-> << >>, default |-> 0]
    BY <1>3
<1>5. h.layout = a /\ h.code = c /\ h.term = [u EXCEPT ![b] = t] /\ h.from = r
    BY <1>4
<1>6. HasFields(h)
    BY <1>4, <1>5 DEF HasFields
<1>7. /\ h.layout = fn.layout /\ h.code = fn.code /\ h.from = fn.from
      /\ h.term = [fn.term EXCEPT ![b] = t]
    BY <1>2, <1>5
<1>8. Blocks(h) = Blocks(fn) /\ Entry(h) = Entry(fn)
    BY <1>7 DEF Blocks, Entry
<1>9. Blocks(fn) \subseteq DOMAIN fn.term
    BY DEF IsShape
<1>10. /\ DOMAIN h.term = DOMAIN fn.term
       /\ h.term[b] = t /\ \A x \in Blocks(fn) \ {b} : h.term[x] = fn.term[x]
    BY <1>7, <1>9
<1>11. IsShape(h)
    BY <1>6, <1>7, <1>8, <1>10 DEF IsShape
<1>12. QED  BY <1>7, <1>8, <1>10, <1>11 DEF h

(* A block that is no part of the original is added.                        *)
LEMMA AddedParts ==
    ASSUME NEW p, NEW fn, IsShape(fn), NEW c, HasParts(p, fn, c),
           NEW i \in 3 .. Len(fn.layout) + 1, NEW n \in Nat \ {0}, n \notin Blocks(fn), NEW h,
           IsShape(h), Blocks(h) = Blocks(fn) \cup {n}, h.layout = InsertAt(fn.layout, i, n),
           h.term[n].cond # "cases",
           \A q \in DOMAIN h.from[n] : \E x \in Blocks(fn) : q \in DOMAIN fn.from[x],
           \A x \in Blocks(fn) :
              h.code[x] = fn.code[x] /\ h.term[x] = fn.term[x] /\ h.from[x] = fn.from[x]
    PROVE  HasParts(p, h, c)
<1>1. PICK of, skip : IsParted(p, fn, of, skip, c)
    BY DEF HasParts
<1>2. IsInjective(h.layout)
    <2>1. PICK T, s : T = Nat \ {0} /\ s = fn.layout /\ s \in Seq(T)
        BY DEF IsShape
    <2>2. Len(s) \in Nat
        BY <2>1, LenProperties
    <2>3. i \in 1 .. Len(s) + 1 /\ n \in T /\ IsInjective(s) /\ n \notin ToSet(s)
        BY <1>1, <2>1, <2>2 DEF IsParted, Blocks
    <2>4. IsInjective(InsertAt(s, i, n))
        BY <2>1, <2>3, InsertedOnce
    <2>5. QED  BY <2>1, <2>4
<1>3. ASSUME NEW x \in Blocks(h), NEW q \in DOMAIN h.from[x]
      PROVE  q \in Nat /\ \E y \in Blocks(h) : q <= y
    <2>1. \A z \in Blocks(fn) : \A r \in DOMAIN fn.from[z] : r \in Nat /\ \E y \in Blocks(fn) : r <= y
        BY <1>1 DEF IsParted
    <2>2. \E z \in Blocks(fn) : q \in DOMAIN fn.from[z]
        OBVIOUS
    <2>3. QED  BY <2>1, <2>2
<1>4. DOMAIN of \subseteq Blocks(fn)
    BY <1>1 DEF IsParted
<1>5. ASSUME NEW x \in DOMAIN of PROVE IsPart(p, h, of, skip, c, x)
    <2>1. IsPart(p, fn, of, skip, c, x) /\ h.code[x] = fn.code[x] /\ h.term[x] = fn.term[x]
        BY <1>1, <1>4 DEF IsParted
    <2>2. /\ \A y : GoesOnWith(fn, c, y, x) => GoesOnWith(h, c, y, x)
          /\ \A y \in DOMAIN of : h.code[y] = fn.code[y]
        BY <1>4, <2>1 DEF GoesOnWith
    <2>3. EndsAs(p, fn, of[x], x) => EndsAs(p, h, of[x], x)
        <3>1. Reached(p) \subseteq Blocks(fn)
            BY <1>1, <1>4 DEF IsParted
        <3>2. QED  BY <2>1, <3>1 DEF EndsAs
    <2>4. QED  BY <2>1, <2>2, <2>3 DEF IsPart
<1>6. IsParted(p, h, of, skip, c)
    BY <1>1, <1>2, <1>3, <1>4, <1>5 DEF IsParted
<1>7. Suits(p, h)
    <2>1. HasNoSwitch(fn) => HasNoSwitch(h)
        BY DEF HasNoSwitch
    <2>2. PICK T, s : T = Nat \ {0} /\ s = fn.layout /\ s \in Seq(T)
        BY DEF IsShape
    <2>3. Len(s) \in Nat /\ Len(s) > 1 /\ i \in 1 .. Len(s) + 1
        <3>1. Len(s) \in Nat
            BY <2>2, LenProperties
        <3>2. QED  BY <2>2, <3>1
    <2>4. \A j \in 1 .. i - 1 : h.layout[j] = s[j]
        <3>1. PICK r : r = InsertAt(s, i, n)
            OBVIOUS
        <3>2. \A j \in 1 .. i - 1 : r[j] = s[j]
            <4>1. s \in Seq(T) /\ i \in 1 .. Len(s) + 1 /\ n \in T
                BY <2>2, <2>3
            <4>2. IsInserted(T, s, i, n, InsertAt(s, i, n))
                BY <4>1, InsertedIs
            <4>3. QED  BY <3>1, <4>2 DEF IsInserted
        <3>3. QED  BY <2>2, <3>1, <3>2
    <2>5. h.layout[1] = s[1] /\ h.layout[2] = s[2]
        BY <2>4
    <2>6. Entry(h) = Entry(fn) /\ Entry(fn) \in Blocks(fn)
        BY <2>2, <2>5, EntryIs
    <2>7. FallsThrough(fn) => FallsThrough(h)
        BY <2>2, <2>3, <2>5, <2>6 DEF FallsThrough
    <2>8. QED  BY <2>1, <2>7 DEF Suits, HasParts
<1>8. QED  BY <1>6, <1>7 DEF HasParts

(* A jump to the next part becomes a branch that is always taken.             *)
LEMMA BranchParts ==
    ASSUME NEW p, IsSource(p), NEW fn, IsShape(fn), HasParts(p, fn, "true"), NEW b \in Blocks(fn),
           NEW y, fn.term[b] = Jump(y), NEW a
    PROVE  HasParts(p, [fn EXCEPT !.term[b] = B!Always(y, a)], "true")
<1> DEFINE t == B!Always(y, a)
           h == [fn EXCEPT !.term[b] = t]
<1>1. PICK of, skip : IsParted(p, fn, of, skip, "true")
    BY DEF HasParts
<1>2. /\ h.layout = fn.layout /\ h.code = fn.code /\ h.from = fn.from
      /\ h.term[b] = t /\ \A x \in Blocks(fn) \ {b} : h.term[x] = fn.term[x]
      /\ Blocks(h) = Blocks(fn) /\ Entry(h) = Entry(fn)
    BY TermChange
<1>3. t = Branch("true", y, a)
    BY DEF B!Always, Branch
<1> HIDE DEF h, t
<1>4. ASSUME NEW x \in DOMAIN of PROVE IsPart(p, h, of, skip, "true", x)
    <2>1. IsPart(p, fn, of, skip, "true", x) /\ x \in Blocks(fn)
        BY <1>1 DEF IsParted
    <2>2. ASSUME EndsAs(p, fn, of[x], x) PROVE EndsAs(p, h, of[x], x)
        <3>1. x # b
            <4>1. SUFFICES ASSUME x = b PROVE FALSE
                OBVIOUS
            <4>2. IsTerm(p.term[of[x]]) /\ p.term[of[x]].orig = of[x] /\ of[x] # 0
                <5>1. of[x] \in Blocks(p) /\ IsShape(p)
                    BY <2>1 DEF IsPart, IsSource
                <5>2. PICK T : T = Nat \ {0} /\ p.layout \in Seq(T)
                    BY <5>1 DEF IsShape
                <5>3. \A q \in DOMAIN p.layout : p.layout[q] \in T
                    BY <5>2, LenProperties, ElementOfSeq
                <5>4. of[x] # 0
                    BY <5>1, <5>2, <5>3 DEF Blocks, ToSet
                <5>5. QED  BY <5>1, <5>4 DEF IsSource
            <4>3. fn.term[b].orig = of[x]
                BY <2>2, <4>1, <4>2 DEF EndsAs, IsTerm
            <4>4. fn.term[b].orig = 0
                BY JumpIs
            <4>5. QED  BY <4>2, <4>3, <4>4
        <3>2. QED  BY <1>2, <2>1, <2>2, <3>1 DEF EndsAs
    <2>3. ASSUME NEW z, GoesOnWith(fn, "true", z, x) PROVE GoesOnWith(h, "true", z, x)
        <3>1. CASE x = b
            <4>1. fn.term[b].to[1] = y /\ Jump(z).to[1] = z /\ \A e : Branch("true", z, e).to[1] = z
                BY JumpIs DEF Branch
            <4>2. z = y
                BY <2>3, <3>1, <4>1 DEF GoesOnWith
            <4>3. QED  BY <1>2, <1>3, <3>1, <4>2 DEF GoesOnWith
        <3>2. CASE x # b
            BY <1>2, <2>1, <2>3, <3>2 DEF GoesOnWith
        <3>3. QED  BY <3>1, <3>2
    <2>4. h.code = fn.code
        BY <1>2
    <2>5. QED  BY <2>1, <2>2, <2>3, <2>4 DEF IsPart
<1>5. IsParted(p, h, of, skip, "true")
    BY <1>1, <1>2, <1>4 DEF IsParted
<1>6. Suits(p, h)
    <2>1. t.cond = "true" /\ t.to = <<y, a>>
        BY <1>3 DEF Branch
    <2>2. Len(t.to) > 1
        BY <2>1
    <2>3. HasNoSwitch(fn) => HasNoSwitch(h)
        BY <1>2, <2>1 DEF HasNoSwitch
    <2>4. FallsThrough(fn) => FallsThrough(h)
        BY <1>2, <2>2, EntryIs DEF FallsThrough
    <2>5. QED  BY <2>3, <2>4 DEF Suits, HasParts
<1>7. QED  BY <1>5, <1>6 DEF HasParts, h, t

(* A jump becomes a branch that also leads to an altered block.             *)
LEMMA BranchKeeps ==
    ASSUME NEW p, NEW fn, NEW J, Guarded(p, fn, J, "true"), NEW b \in Blocks(fn), NEW y,
           fn.term[b] = Jump(y), NEW a \in Blocks(fn) \ {Entry(fn)}
    PROVE  LET h == [fn EXCEPT !.term[b] = B!Always(y, a)]
           IN  /\ Guarded(p, h, J, "true")
               /\ PhisKept(fn) /\ ~HasPhi(fn.code[y]) /\ ~HasPhi(fn.code[a]) => PhisKept(h)
               /\ Once(fn) => Once(h)
               /\ IsSource(p) /\ HasParts(p, fn, "true") => HasParts(p, h, "true")
<1> DEFINE t == B!Always(y, a)
           h == [fn EXCEPT !.term[b] = t]
<1>1. IsShape(fn)
    BY DEF Guarded
<1>2. /\ IsShape(h) /\ h.layout = fn.layout /\ h.code = fn.code /\ h.from = fn.from
      /\ h.term[b] = t /\ \A x \in Blocks(fn) \ {b} : h.term[x] = fn.term[x]
      /\ Blocks(h) = Blocks(fn) /\ Entry(h) = Entry(fn)
    BY <1>1, TermChange
<1>3. t.to = <<y, a>> /\ t.cond = "true" /\ t.sets = << >> /\ t.orig = 0 /\ IsTerm(t)
    BY DEF B!Always, IsTerm
<1> HIDE DEF h, t
<1>4. ASSUME b \notin J PROVE IsExit(p, h, J, "true", t)
    <2>1. IsExit(p, fn, J, "true", Jump(y))
        BY <1>4 DEF Guarded
    <2>2. /\ Jump(y).to = <<y>> /\ Jump(y).cond = "none"
        BY JumpIs
    <2>3. <<y>> \in Seq(Blocks(fn) \ {Entry(fn)}) /\ <<y>> \in Seq(Blocks(fn) \ J)
        BY <2>1, <2>2 DEF IsExit, GoesOn
    <2>4. y \in Blocks(fn) \ {Entry(fn)} /\ y \notin J
        BY <2>3
    <2>5. <<y, a>> \in Seq(Blocks(fn) \ {Entry(fn)}) /\ <<y, a>> # << >> /\ <<y, a>>[1] = y
        BY <2>4
    <2>6. QED  BY <1>2, <1>3, <2>4, <2>5 DEF IsExit, GoesOn
<1>5. ASSUME NEW u, IsExit(p, fn, J, "true", u) PROVE IsExit(p, h, J, "true", u)
    BY <1>2, <1>5, ExitStays
<1>6. \A x \in Blocks(h) \ J : NoJunk(h.code[x]) /\ IsExit(p, h, J, "true", h.term[x])
    BY <1>2, <1>4, <1>5 DEF Guarded
<1>7. \A x \in J : IsJunkExit(h.term[x])
    BY <1>2, <1>3 DEF Guarded, IsJunkExit
<1>8. Guarded(p, h, J, "true")
    BY <1>2, <1>6, <1>7 DEF Guarded, HasOther
<1>9. ASSUME PhisKept(fn), ~HasPhi(fn.code[y]), ~HasPhi(fn.code[a])
      PROVE  PhisKept(h)
    <2>1. ASSUME NEW x \in Blocks(fn), HasPhi(fn.code[x]) PROVE Preds(h, x) = Preds(fn, x)
        <3>1. x # y /\ x # a
            BY <1>9, <2>1
        <3>2. ToSet(<<y, a>>) = {y, a} /\ ToSet(<<y>>) = {y}
            BY DEF ToSet
        <3>3. x \notin ToSet(t.to) /\ x \notin ToSet(fn.term[b].to)
            BY <1>3, <3>1, <3>2, JumpIs
        <3>4. QED  BY <1>2, <3>3 DEF Preds
    <2>2. QED  BY <1>2, <1>9, <2>1 DEF PhisKept
<1>10. Once(fn) => Once(h)
    BY <1>2, <1>3 DEF Once
<1>11. IsSource(p) /\ HasParts(p, fn, "true") => HasParts(p, h, "true")
    BY <1>1, BranchParts DEF h, t
<1>12. QED  BY <1>8, <1>9, <1>10, <1>11 DEF h, t

-----------------------------------------------------------------------------
(* An altered copy is added.                                                *)
LEMMA AlteredKeeps ==
    ASSUME NEW p, NEW fn, NEW J, NEW c, Guarded(p, fn, J, c), NEW o \in Blocks(fn) \ {Entry(fn)}
    PROVE  LET n == Fresh(fn)
               h == B!AddAlteredBlock(fn, o)
           IN  /\ Guarded(p, h, J \cup {n}, c)
               /\ PhisKept(fn) /\ ~HasPhi(fn.code[o]) => PhisKept(h)
               /\ Once(fn) => Once(h)
               /\ HasParts(p, fn, c) => HasParts(p, h, c)
               /\ n \notin Blocks(fn) /\ Blocks(h) = Blocks(fn) \cup {n} /\ ~HasPhi(h.code[n])
               /\ \A x \in Blocks(fn) : h.code[x] = fn.code[x] /\ h.term[x] = fn.term[x]
<1> DEFINE n == Fresh(fn)
           code == [i \in DOMAIN fn.code[o] |-> [fn.code[o][i] EXCEPT !.kind = "junk"]]
           i == Len(fn.layout) + 1
           h == AddBlock(fn, i, n, code, Jump(o), fn.from[o])
           K == J \cup {n}
<1>1. B!AddAlteredBlock(fn, o) = h
    BY SameInBogus DEF B!AddAlteredBlock
<1>2. IsShape(fn) /\ JunkIsLast(fn.layout, J) /\ HasOther(fn, J) /\ J \subseteq Blocks(fn) \ {Entry(fn)}
    BY DEF Guarded
<1>3. /\ n \in Nat \ {0} /\ n \notin Blocks(fn) /\ n \notin DOMAIN fn.code
      /\ n \notin DOMAIN fn.term /\ n \notin DOMAIN fn.from
    BY <1>2, FreshIsNew
<1>4. code \in Seq(Instructions) /\ \A q \in DOMAIN code : code[q].kind = "junk"
    <2>1. PICK s : s = fn.code[o] /\ s \in Seq(Instructions)
        BY <1>2 DEF IsShape
    <2>2. \A q \in DOMAIN s : s[q] \in Instructions
        BY <2>1, LenProperties, ElementOfSeq
    <2>3. \A e \in Instructions : /\ [e EXCEPT !.kind = "junk"] \in Instructions
                                  /\ [e EXCEPT !.kind = "junk"].kind = "junk"
        BY DEF Instructions
    <2>4. Len(s) \in Nat /\ DOMAIN s = 1 .. Len(s)
        BY <2>1, LenProperties
    <2>5. code = [q \in 1 .. Len(s) |-> [s[q] EXCEPT !.kind = "junk"]]
        BY <2>1, <2>4
    <2> HIDE DEF code
    <2>6. code \in [1 .. Len(s) -> Instructions] /\ \A q \in 1 .. Len(s) : code[q].kind = "junk"
        BY <2>2, <2>3, <2>4, <2>5
    <2>7. QED  BY <2>4, <2>6
<1>5. i \in 2 .. Len(fn.layout) + 1
    BY <1>2, EntryIs
<1> HIDE DEF n, code
<1>6. /\ IsShape(h) /\ Blocks(h) = Blocks(fn) \cup {n}
      /\ h.layout = InsertAt(fn.layout, i, n)
      /\ h.code[n] = code /\ h.term[n] = Jump(o) /\ h.from[n] = fn.from[o]
      /\ \A x \in Blocks(fn) :
            h.code[x] = fn.code[x] /\ h.term[x] = fn.term[x] /\ h.from[x] = fn.from[x]
    <2>1. PICK t, r : t = Jump(o) /\ r = fn.from[o]
        OBVIOUS
    <2>2. QED  BY <1>2, <1>3, <1>4, <1>5, <2>1, AddBlockIs
<1> HIDE DEF h
<1>7. Behind(fn, i, n, J, K)
    <2>1. \A q \in i .. Len(fn.layout) : fn.layout[q] \in J
        BY <1>2, EntryIs
    <2>2. QED  BY <2>1 DEF Behind
<1> HIDE DEF i, K
<1>8. /\ Entry(h) = Entry(fn) /\ K \subseteq Blocks(h) \ {Entry(h)} /\ K \cap Blocks(fn) \subseteq J
      /\ JunkIsLast(h.layout, K)
      /\ J # {} => HasOther(h, K)
    BY <1>2, <1>3, <1>5, <1>6, <1>7, LayoutGrows
<1>9. HasOther(h, K)
    <2>1. CASE J = {}
        BY <1>3, <1>6, <1>8, <2>1 DEF K, HasOther
    <2>2. QED  BY <1>8, <2>1
<1>10. ASSUME NEW t, IsExit(p, fn, J, c, t) PROVE IsExit(p, h, K, c, t)
    BY <1>6, <1>8, <1>10, ExitStays
<1>11. \A x \in Blocks(h) \ K : NoJunk(h.code[x]) /\ IsExit(p, h, K, c, h.term[x])
    BY <1>6, <1>10 DEF Guarded, K
<1>12. \A x \in K : IsJunkExit(h.term[x])
    BY <1>2, <1>6, JumpIs DEF Guarded, K, IsJunkExit
<1>13. Guarded(p, h, K, c)
    BY <1>6, <1>8, <1>9, <1>11, <1>12 DEF Guarded
<1>14. ~HasPhi(h.code[n]) /\ PhisFirst(h.code[n])
    BY <1>4, <1>6 DEF HasPhi, PhisFirst, IsPhi
<1>15. ASSUME PhisKept(fn), ~HasPhi(fn.code[o]) PROVE PhisKept(h)
    <2>1. ASSUME NEW x \in Blocks(fn), HasPhi(fn.code[x]) PROVE Preds(h, x) = Preds(fn, x)
        <3>1. x # o
            BY <1>15, <2>1
        <3>2. ToSet(<<o>>) = {o}
            BY DEF ToSet
        <3>3. x \notin ToSet(h.term[n].to)
            BY <1>6, <3>1, <3>2, JumpIs
        <3>4. QED  BY <1>6, <3>3 DEF Preds
    <2>2. QED  BY <1>6, <1>14, <1>15, <2>1 DEF PhisKept
<1>16. Once(fn) => Once(h)
    BY <1>6, JumpIs DEF Once
<1>17. ASSUME HasParts(p, fn, c) PROVE HasParts(p, h, c)
    <2>1. \A q \in DOMAIN h.from[n] : \E x \in Blocks(fn) : q \in DOMAIN fn.from[x]
        BY <1>6
    <2>2. PICK m \in Nat \ {0} : m = n
        BY <1>3
    <2>3. i \in 3 .. Len(fn.layout) + 1
        <3>1. Len(fn.layout) > 1 /\ Len(fn.layout) \in Nat
            BY <1>2, EntryIs, LongLayout
        <3>2. QED  BY <3>1 DEF i
    <2>4. h.term[n].cond # "cases"
        BY <1>6, JumpIs
    <2>5. QED  BY <1>2, <1>3, <1>6, <1>17, <2>1, <2>2, <2>3, <2>4, AddedParts
<1>18. QED  BY <1>1, <1>3, <1>6, <1>13, <1>14, <1>15, <1>16, <1>17 DEF n, K

(* One block that is wrapped in branches.                                    *)
LEMMA BogusKeeps ==
    ASSUME NEW p, NEW fn, NEW J, Guarded(p, fn, J, "true"), NEW b \in Blocks(fn)
    PROVE  LET h == B!AddBogusFlow(fn, b)
           IN  /\ \E K : Guarded(p, h, K, "true")
               /\ Blocks(fn) \subseteq Blocks(h)
               /\ PhisKept(fn) => PhisKept(h)
               /\ Once(fn) => Once(h)
               /\ IsSource(p) /\ PhisKept(fn) /\ HasParts(p, fn, "true") => HasParts(p, h, "true")
<1> DEFINE k == Cardinality({i \in DOMAIN fn.code[b] : IsPhi(fn.code[b][i])})
           original == Fresh(fn)
           split == SplitBlock(fn, b, k)
           J1 == IF b \in J THEN J \cup {original} ELSE J
           altered == Fresh(split)
           copied == B!AddAlteredBlock(split, original)
           J2 == J1 \cup {altered}
           part2 == Fresh(copied)
           l == Len(copied.code[original])
           isolated == SplitBlock(copied, original, l)
           J3 == IF original \in J2 THEN J2 \cup {part2} ELSE J2
           first == [isolated EXCEPT !.term[b] = B!Always(original, altered)]
           h == [first EXCEPT !.term[original] = B!Always(part2, altered)]
<1>1. B!AddBogusFlow(fn, b) = h
    <2>1. B!PhisOf(fn, b) = k
        BY DEF B!PhisOf, B!IsPhi, IsPhi, B!Cardinality, Cardinality
    <2>2. B!AddBogusFlow(fn, b) = [isolated EXCEPT !.term[b] = B!Always(original, altered),
                                                   !.term[original] = B!Always(part2, altered)]
        BY <2>1, SameInBogus DEF B!AddBogusFlow
    <2> HIDE DEF isolated, original, altered, part2
    <2>3. QED  BY <2>2
<1>2. IsShape(fn) /\ Entry(fn) = Entry(p) /\ Entry(fn) \in Blocks(fn)
    BY EntryIs DEF Guarded
<1>3. /\ k \in 0 .. Len(fn.code[b])
      /\ PhisFirst(fn.code[b]) => \A i \in k + 1 .. Len(fn.code[b]) : ~IsPhi(fn.code[b][i])
    <2>1. PICK code : code = fn.code[b] /\ code \in Seq(Instructions)
        BY <1>2 DEF IsShape
    <2>2. QED  BY <2>1, PhisBefore
<1> HIDE DEF k
<1>4. IsSplit(fn, b, k, original, split) /\ Guarded(p, split, J1, "true")
    BY <1>2, <1>3, SplitBlockIs, SplitGuards
<1>5. PhisKept(fn) => PhisKept(split) /\ ~HasPhi(split.code[original])
    <2>1. ASSUME PhisKept(fn) PROVE \A i \in k + 1 .. Len(fn.code[b]) : ~IsPhi(fn.code[b][i])
        BY <1>3, <2>1 DEF PhisKept
    <2> HIDE DEF original, split
    <2>2. QED  BY <1>2, <1>3, <1>4, <2>1, SplitPhis
<1>6. /\ Once(fn) => Once(split)
      /\ IsSource(p) /\ PhisKept(fn) /\ HasParts(p, fn, "true") => HasParts(p, split, "true")
    <2> HIDE DEF original, split
    <2>1. QED  BY <1>2, <1>3, <1>4, <1>5, SplitOnce, SplitParts
<1> HIDE DEF split, J1
<1>7. /\ Blocks(split) = Blocks(fn) \cup {original} /\ original \notin Blocks(fn)
      /\ split.term[b] = Jump(original) /\ Entry(split) = Entry(p)
      /\ original \in Blocks(split) \ {Entry(split)}
    BY <1>2, <1>4 DEF IsSplit, Guarded
<1> HIDE DEF original
<1>8. /\ Guarded(p, copied, J2, "true")
      /\ PhisKept(split) /\ ~HasPhi(split.code[original]) => PhisKept(copied)
      /\ Once(split) => Once(copied)
      /\ HasParts(p, split, "true") => HasParts(p, copied, "true")
      /\ altered \notin Blocks(split) /\ Blocks(copied) = Blocks(split) \cup {altered}
      /\ ~HasPhi(copied.code[altered])
      /\ \A x \in Blocks(split) : copied.code[x] = split.code[x] /\ copied.term[x] = split.term[x]
    BY <1>4, <1>7, AlteredKeeps
<1> HIDE DEF altered, copied, J2
<1>9. /\ IsShape(copied) /\ original \in Blocks(copied) /\ l \in 0 .. Len(copied.code[original])
      /\ copied.code[original] \in Seq(Instructions) /\ Entry(copied) = Entry(p)
    <2>1. IsShape(copied) /\ original \in Blocks(copied) /\ Entry(copied) = Entry(p)
        BY <1>7, <1>8 DEF Guarded
    <2>2. copied.code[original] \in Seq(Instructions)
        BY <2>1 DEF IsShape
    <2>3. Len(copied.code[original]) \in Nat
        BY <2>2, LenProperties
    <2>4. QED  BY <2>1, <2>2, <2>3
<1>10. IsSplit(copied, original, l, part2, isolated) /\ Guarded(p, isolated, J3, "true")
    <2> HIDE DEF l
    <2>1. QED  BY <1>8, <1>9, SplitBlockIs, SplitGuards
<1>11. PhisKept(copied) => PhisKept(isolated) /\ ~HasPhi(isolated.code[part2])
    <2>1. \A i \in l + 1 .. Len(copied.code[original]) : ~IsPhi(copied.code[original][i])
        BY <1>9
    <2> HIDE DEF l, part2, isolated
    <2>2. QED  BY <1>9, <1>10, <2>1, SplitPhis
<1>12. /\ Once(copied) => Once(isolated)
       /\ IsSource(p) /\ PhisKept(copied) /\ HasParts(p, copied, "true") => HasParts(p, isolated, "true")
    <2> HIDE DEF l, part2, isolated
    <2>1. QED  BY <1>9, <1>10, <1>11, SplitOnce, SplitParts
<1>13. isolated.code[original] \in Seq(Instructions) /\ Len(isolated.code[original]) = l
    <2> HIDE DEF l, part2, isolated
    <2>1. QED  BY <1>9, <1>10 DEF IsSplit, IsShape
<1>14. ~HasPhi(split.code[original]) => ~HasPhi(isolated.code[original])
    <2>1. DOMAIN isolated.code[original] = 1 .. l /\ DOMAIN copied.code[original] = 1 .. l
        <3> HIDE DEF isolated
        <3>1. QED  BY <1>9, <1>13, LenProperties
    <2>2. \A i \in 1 .. l : isolated.code[original][i] = copied.code[original][i]
        BY <1>10 DEF IsSplit
    <2> HIDE DEF l, isolated
    <2>3. QED  BY <1>7, <1>8, <2>1, <2>2 DEF HasPhi
<1> HIDE DEF l, part2, isolated, J3
<1>15. /\ Blocks(isolated) = Blocks(copied) \cup {part2} /\ part2 \notin Blocks(copied)
       /\ isolated.term[original] = Jump(part2) /\ isolated.term[b] = Jump(original)
       /\ isolated.code[altered] = copied.code[altered]
       /\ Entry(isolated) = Entry(p)
    BY <1>7, <1>8, <1>10 DEF IsSplit, Guarded
<1>16. /\ b \in Blocks(isolated) /\ original \in Blocks(isolated)
       /\ altered \in Blocks(isolated) \ {Entry(isolated)} /\ b # original
    <2>1. altered # Entry(p)
        BY <1>2, <1>7, <1>8
    <2>2. QED  BY <1>7, <1>8, <1>15, <2>1
<1>17. /\ Guarded(p, first, J3, "true")
       /\ PhisKept(isolated) /\ ~HasPhi(isolated.code[original]) /\ ~HasPhi(isolated.code[altered])
             => PhisKept(first)
       /\ Once(isolated) => Once(first)
       /\ IsSource(p) /\ HasParts(p, isolated, "true") => HasParts(p, first, "true")
    BY <1>10, <1>15, <1>16, BranchKeeps
<1>18. /\ Blocks(first) = Blocks(isolated) /\ Entry(first) = Entry(isolated)
       /\ first.code = isolated.code /\ first.term[original] = Jump(part2)
    <2>1. IsShape(isolated)
        BY <1>10 DEF Guarded
    <2>2. PICK t : t = B!Always(original, altered)
        OBVIOUS
    <2>3. QED  BY <1>15, <1>16, <2>1, <2>2, TermChange
<1> HIDE DEF first
<1>19. /\ Guarded(p, h, J3, "true")
       /\ PhisKept(first) /\ ~HasPhi(first.code[part2]) /\ ~HasPhi(first.code[altered])
             => PhisKept(h)
       /\ Once(first) => Once(h)
       /\ IsSource(p) /\ HasParts(p, first, "true") => HasParts(p, h, "true")
    BY <1>16, <1>17, <1>18, BranchKeeps
<1>20. Blocks(h) = Blocks(first)
    <2>1. IsShape(first) /\ original \in Blocks(first)
        BY <1>16, <1>17, <1>18 DEF Guarded
    <2>2. PICK t : t = B!Always(part2, altered)
        OBVIOUS
    <2>3. QED  BY <2>1, <2>2, TermChange
<1> HIDE DEF h
<1>21. PhisKept(fn) => PhisKept(h)
    BY <1>5, <1>8, <1>11, <1>14, <1>15, <1>17, <1>18, <1>19
<1>22. Once(fn) => Once(h)
    BY <1>6, <1>8, <1>12, <1>17, <1>19
<1>23. Blocks(fn) \subseteq Blocks(h)
    BY <1>7, <1>8, <1>15, <1>18, <1>20
<1>24. IsSource(p) /\ PhisKept(fn) /\ HasParts(p, fn, "true") => HasParts(p, h, "true")
    BY <1>5, <1>6, <1>8, <1>12, <1>17, <1>19
<1>25. QED  BY <1>1, <1>19, <1>21, <1>22, <1>23, <1>24


-----------------------------------------------------------------------------
(* The operators of Cfg are the same in SplitBasicBlocks.                   *)
LEMMA SameInSplit ==
    /\ \A x : S!Jump(x) = Jump(x)
    /\ \A fn : S!Fresh(fn) = Fresh(fn) /\ S!Blocks(fn) = Blocks(fn)
    /\ \A fn, b, k : S!SplitBlock(fn, b, k) = SplitBlock(fn, b, k)
    /\ \A fn, i, b, code, term, from :
          S!AddBlock(fn, i, b, code, term, from) = AddBlock(fn, i, b, code, term, from)
    /\ \A fn, b : S!Size(fn, b) = Len(fn.code[b]) + 1
    /\ \A A : S!Max(A) = Max(A) /\ S!InOrder(A) = InOrder(A) /\ S!Cardinality(A) = Cardinality(A)
    /\ \A s, i, e : S!InsertAt(s, i, e) = InsertAt(s, i, e)
<1>1. \A x : S!Jump(x) = Jump(x)
    BY DEF S!Jump, Jump
<1>2. \A fn : S!Blocks(fn) = Blocks(fn)
    BY DEF S!Blocks, Blocks, S!ToSet, ToSet
<1>3. \A A : S!Max(A) = Max(A)
    BY DEF S!Max, Max
<1>4. \A fn : S!Fresh(fn) = Fresh(fn)
    BY <1>2, <1>3 DEF S!Fresh, Fresh
<1>5. \A fn, i, b, code, term, from :
          S!AddBlock(fn, i, b, code, term, from) = AddBlock(fn, i, b, code, term, from)
    BY DEF S!AddBlock, AddBlock, S!InsertAt, InsertAt, S!Extended, Extended
<1>6. \A fn, b, k : S!SplitBlock(fn, b, k) = SplitBlock(fn, b, k)
    <2> TAKE fn, b, k
    <2>1. PICK n : n = Fresh(fn) /\ n = S!Fresh(fn)
        BY <1>4
    <2>2. \A s : S!ToSet(s) = ToSet(s)
        BY DEF S!ToSet, ToSet
    <2>3. \A from : S!Renamed(from, b, n) = Renamed(from, b, n)
        BY DEF S!Renamed, Renamed
    <2> DEFINE cut == [fn EXCEPT !.code[b] = SubSeq(@, 1, k), !.term[b] = Jump(n)]
               mine == [x \in DOMAIN cut.from |->
                          IF x \in ToSet(fn.term[b].to) THEN Renamed(cut.from[x], b, n)
                                                        ELSE cut.from[x]]
               theirs == [x \in DOMAIN cut.from |->
                            IF x \in S!ToSet(fn.term[b].to) THEN S!Renamed(cut.from[x], b, n)
                                                            ELSE cut.from[x]]
    <2>4. mine = theirs
        <3> HIDE DEF cut
        <3>1. QED  BY <2>2, <2>3
    <2>5. S!Jump(n) = Jump(n)
        BY <1>1
    <2>6. S!PlaceOf(fn, b) = PlaceOf(fn, b)
        BY DEF S!PlaceOf, PlaceOf
    <2> DEFINE rest == SubSeq(fn.code[b], k + 1, Len(fn.code[b]))
    <2>7. SplitBlock(fn, b, k) = AddBlock([cut EXCEPT !.from = mine], PlaceOf(fn, b) + 1, n,
                                          rest, fn.term[b], fn.from[b])
        BY <2>1 DEF SplitBlock
    <2>8. S!SplitBlock(fn, b, k) = S!AddBlock([cut EXCEPT !.from = theirs], PlaceOf(fn, b) + 1, n,
                                              rest, fn.term[b], fn.from[b])
        BY <2>1, <2>5, <2>6 DEF S!SplitBlock
    <2> HIDE DEF cut, mine, theirs, rest
    <2>9. QED  BY <1>5, <2>4, <2>7, <2>8
<1>7. \A fn, b : S!Size(fn, b) = Len(fn.code[b]) + 1
    BY DEF S!Size
<1>8. \A A : S!Cardinality(A) = Cardinality(A)
    BY DEF S!Cardinality, Cardinality
<1>9. \A A : S!InOrder(A) = InOrder(A)
    BY <1>8 DEF S!InOrder, InOrder
<1>10. \A s, i, e : S!InsertAt(s, i, e) = InsertAt(s, i, e)
    BY DEF S!InsertAt, InsertAt
<1>11. QED  BY <1>1, <1>2, <1>3, <1>4, <1>5, <1>6, <1>7, <1>8, <1>9, <1>10

(* The cuts are points of the block, in order.                               *)
InRange(n, points) ==
    /\ points \in Seq(0 .. n)
    /\ \A i, j \in 1 .. Len(points) : i < j => points[i] <= points[j]

(* The numbers from one to another, in order.                               *)
LEMMA IntervalInOrder ==
    ASSUME NEW n \in Nat
    PROVE  LET s == InOrder(1 .. n)
           IN  s \in Seq(1 .. n) /\ Len(s) = n /\ \A i \in 1 .. n : s[i] = i
<1> DEFINE s == InOrder(1 .. n)
<1>1. IsFiniteSet(1 .. n) /\ Cardinality(1 .. n) = n
    BY FS_Interval
<1>2. 1 .. n \in SUBSET Int
    OBVIOUS
<1>3. s \in Seq(1 .. n) /\ Len(s) = n /\ \A i, j \in 1 .. n : i < j => s[i] < s[j]
    BY <1>1, <1>2, Ordered
<1> HIDE DEF s
<1>4. \A i \in 1 .. n : s[i] \in 1 .. n
    BY <1>3, ElementOfSeq
<1> DEFINE T == {i \in Nat : i + 1 <= n => i + 1 <= s[i + 1]}
           D == {i \in Nat : i < n => s[n - i] <= n - i}
<1>5. Nat \subseteq T
    <2>1. 0 \in T
        BY <1>4
    <2>2. ASSUME NEW i \in Nat, i \in T PROVE i + 1 \in T
        <3> SUFFICES ASSUME i + 1 + 1 <= n PROVE i + 1 + 1 <= s[i + 1 + 1]
            OBVIOUS
        <3>1. i + 1 <= s[i + 1] /\ i + 1 \in 1 .. n /\ i + 1 + 1 \in 1 .. n
            BY <2>2
        <3>2. s[i + 1] < s[i + 1 + 1] /\ s[i + 1] \in Int /\ s[i + 1 + 1] \in Int
            BY <1>3, <1>4, <3>1
        <3>3. QED  BY <3>1, <3>2
    <2> HIDE DEF T
    <2>3. QED  BY <2>1, <2>2, NatSetInduction
<1>6. Nat \subseteq D
    <2>1. 0 \in D
        BY <1>4
    <2>2. ASSUME NEW i \in Nat, i \in D PROVE i + 1 \in D
        <3> SUFFICES ASSUME i + 1 < n PROVE s[n - (i + 1)] <= n - (i + 1)
            OBVIOUS
        <3>1. s[n - i] <= n - i /\ n - i \in 1 .. n /\ n - (i + 1) \in 1 .. n /\ n - (i + 1) < n - i
            BY <2>2
        <3>2. s[n - (i + 1)] < s[n - i] /\ s[n - i] \in Int /\ s[n - (i + 1)] \in Int
            BY <1>3, <1>4, <3>1
        <3>3. QED  BY <3>1, <3>2
    <2> HIDE DEF D
    <2>3. QED  BY <2>1, <2>2, NatSetInduction
<1>7. ASSUME NEW i \in 1 .. n PROVE s[i] = i
    <2>1. i - 1 \in Nat /\ n - i \in Nat /\ (i - 1) + 1 = i /\ n - (n - i) = i /\ n - i < n
        OBVIOUS
    <2>2. i - 1 \in T /\ n - i \in D
        BY <1>5, <1>6, <2>1
    <2>3. i <= s[i] /\ s[i] <= i
        BY <2>1, <2>2
    <2>4. QED  BY <1>4, <2>3
<1>8. QED  BY <1>3, <1>7 DEF s

(* The points where a block is cut lie within it.                           *)
LEMMA ChosenAreInRange ==
    ASSUME NEW b, NEW n \in Nat, Len(f.code[b]) = n, NEW points \in S!ChosenPoints(b)
    PROVE  InRange(n, points)
<1>1. S!Size(f, b) = n + 1 /\ S!SplitPoints(b) = 1 .. n
    <2>1. S!Size(f, b) = n + 1
        BY SameInSplit
    <2>2. (n + 1) - 1 = n
        OBVIOUS
    <2>3. QED  BY <2>1, <2>2 DEF S!SplitPoints
<1>2. CASE S!Cuts(b) < S!Size(f, b)
    <2>1. PICK A : A \in SUBSET (1 .. n) /\ points = S!InOrder(A)
        BY <1>1, <1>2 DEF S!ChosenPoints, S!kSubset
    <2>2. IsFiniteSet(A) /\ A \in SUBSET Int
        <3>1. IsFiniteSet(1 .. n)
            BY FS_Interval
        <3>2. IsFiniteSet(A)
            BY <2>1, <3>1, FS_Subset
        <3>3. QED  BY <2>1, <3>2
    <2>3. points = InOrder(A)
        BY <2>1, SameInSplit
    <2>4. /\ points \in Seq(A) /\ Len(points) = Cardinality(A)
          /\ \A i, j \in 1 .. Cardinality(A) : i < j => points[i] < points[j]
        BY <2>2, <2>3, Ordered
    <2>5. points \in Seq(0 .. n)
        <3>1. A \subseteq 0 .. n
            BY <2>1
        <3>2. QED  BY <2>4, <3>1, SeqGrows
    <2>6. \A i \in 1 .. Len(points) : points[i] \in Int
        BY <2>5, ElementOfSeq
    <2>7. QED  BY <2>4, <2>5, <2>6 DEF InRange
<1>3. CASE ~(S!Cuts(b) < S!Size(f, b))
    <2>1. PICK q \in S!StrayPoints(b) : points = S!InsertAt(S!InOrder(1 .. n), q + 1, q)
        BY <1>1, <1>3 DEF S!ChosenPoints
    <2>2. q \in 0 .. n
        BY <1>1, <2>1 DEF S!StrayPoints
    <2> DEFINE s == InOrder(1 .. n)
    <2>3. points = InsertAt(s, q + 1, q)
        BY <2>1, SameInSplit
    <2>4. s \in Seq(1 .. n) /\ Len(s) = n /\ \A i \in 1 .. n : s[i] = i
        BY IntervalInOrder
    <2> HIDE DEF s
    <2>5. s \in Seq(0 .. n) /\ q + 1 \in 1 .. Len(s) + 1
        <3>1. 1 .. n \subseteq 0 .. n
            OBVIOUS
        <3>2. QED  BY <2>2, <2>4, <3>1, SeqGrows
    <2>6. /\ points \in Seq(0 .. n) /\ Len(points) = n + 1
          /\ \A j \in 1 .. (q + 1) - 1 : points[j] = s[j]
          /\ points[q + 1] = q
          /\ \A j \in (q + 1) + 1 .. n + 1 : points[j] = s[j - 1]
        <3>1. PICK i, T : i = q + 1 /\ T = 0 .. n
            OBVIOUS
        <3>2. /\ points \in Seq(T) /\ Len(points) = Len(s) + 1
              /\ \A j \in 1 .. i - 1 : points[j] = s[j]
              /\ points[i] = q
              /\ \A j \in i + 1 .. Len(s) + 1 : points[j] = s[j - 1]
            <4>1. s \in Seq(T) /\ i \in 1 .. Len(s) + 1 /\ q \in T /\ points = InsertAt(s, i, q)
                BY <2>2, <2>3, <2>5, <3>1
            <4>2. IsInserted(T, s, i, q, InsertAt(s, i, q))
                BY <4>1, InsertedIs
            <4>3. QED  BY <4>1, <4>2 DEF IsInserted
        <3>3. QED  BY <2>4, <3>1, <3>2
    <2>7. \A j \in 1 .. n + 1 : points[j] = IF j <= q THEN j ELSE j - 1
        <3> TAKE j \in 1 .. n + 1
        <3>1. CASE j <= q
            <4>1. j \in 1 .. (q + 1) - 1 /\ j \in 1 .. n
                BY <2>2, <3>1
            <4>2. QED  BY <2>4, <2>6, <3>1, <4>1
        <3>2. CASE j = q + 1
            BY <2>2, <2>6, <3>2
        <3>3. CASE j > q + 1
            <4>1. j \in (q + 1) + 1 .. n + 1 /\ j - 1 \in 1 .. n /\ ~(j <= q)
                BY <2>2, <3>3
            <4>2. QED  BY <2>4, <2>6, <4>1
        <3>4. QED  BY <2>2, <3>1, <3>2, <3>3
    <2>8. \A i, j \in 1 .. n + 1 : i < j => points[i] <= points[j]
        <3> SUFFICES ASSUME NEW i \in 1 .. n + 1, NEW j \in 1 .. n + 1, i < j
                     PROVE  points[i] <= points[j]
            OBVIOUS
        <3>1. /\ points[i] = IF i <= q THEN i ELSE i - 1
              /\ points[j] = IF j <= q THEN j ELSE j - 1
            BY <2>7
        <3>2. QED  BY <2>2, <3>1
    <2>9. QED  BY <2>6, <2>8 DEF InRange
<1>4. QED  BY <1>2, <1>3

-----------------------------------------------------------------------------
(* A fold over a sequence is a recursion on the places, the last one first.   *)
LEMMA LastPlace ==
    ASSUME NEW n \in Nat, NEW s \in SUBSET (1 .. n + 1), s # {}
    PROVE  /\ s \subseteq 1 .. n => Max(s) \in 1 .. n /\ s \ {Max(s)} \in SUBSET (1 .. n)
           /\ ~(s \subseteq 1 .. n) => Max(s) = n + 1 /\ s \ {Max(s)} \in SUBSET (1 .. n)
<1>1. PICK m \in Nat : m = n + 1
    OBVIOUS
<1>2. Max(s) \in s /\ \A x \in s : x <= Max(s)
    <2>1. s \in SUBSET (0 .. m)
        BY <1>1
    <2>2. QED  BY <2>1, MaxIsGreatest
<1>3. CASE s \subseteq 1 .. n
    BY <1>2, <1>3
<1>4. CASE ~(s \subseteq 1 .. n)
    <2>1. PICK x \in s : x \notin 1 .. n
        BY <1>4
    <2>2. x \in 1 .. m
        BY <1>1
    <2>3. x = m
        BY <1>1, <2>1, <2>2
    <2>4. Max(s) \in 1 .. m /\ m <= Max(s)
        BY <1>1, <1>2, <2>1, <2>3
    <2>5. Max(s) = m
        BY <2>4
    <2>6. \A y \in s \ {m} : y \in 1 .. n
        <3> TAKE y \in s \ {m}
        <3>1. y \in 1 .. n + 1
            OBVIOUS
        <3>2. QED  BY <1>1, <3>1
    <2>7. QED  BY <1>1, <1>4, <2>5, <2>6
<1>5. QED  BY <1>3, <1>4

IsCutFold(base, points, n, h) ==
    h = [s \in SUBSET (1 .. n) |->
           IF s = {} THEN base ELSE S!CutAt(h[s \ {Max(s)}], points[Max(s)])]

LEMMA CutFoldExists ==
    ASSUME NEW base, NEW points, NEW n \in Nat
    PROVE  \E h : IsCutFold(base, points, n, h)
<1> DEFINE T == {m \in Nat : \E h : IsCutFold(base, points, m, h)}
<1>1. 0 \in T
    <2> DEFINE h == [s \in SUBSET (1 .. 0) |-> base]
    <2>1. \A s \in SUBSET (1 .. 0) : s = {}
        OBVIOUS
    <2>2. IsCutFold(base, points, 0, h)
        BY <2>1 DEF IsCutFold
    <2>3. QED  BY <2>2
<1>2. ASSUME NEW m \in Nat, m \in T PROVE m + 1 \in T
    <2>1. PICK h : IsCutFold(base, points, m, h)
        BY <1>2
    <2>2. \A s \in SUBSET (1 .. m) :
             h[s] = IF s = {} THEN base ELSE S!CutAt(h[s \ {Max(s)}], points[Max(s)])
        BY <2>1 DEF IsCutFold
    <2> DEFINE k == [s \in SUBSET (1 .. m + 1) |->
                       IF s \subseteq 1 .. m THEN h[s]
                       ELSE S!CutAt(h[s \ {Max(s)}], points[Max(s)])]
    <2>3. \A s \in SUBSET (1 .. m + 1) :
             k[s] = IF s = {} THEN base ELSE S!CutAt(k[s \ {Max(s)}], points[Max(s)])
        <3> TAKE s \in SUBSET (1 .. m + 1)
        <3>1. CASE s = {}
            <4>1. s \subseteq 1 .. m
                BY <3>1
            <4>2. QED  BY <2>2, <3>1, <4>1
        <3>2. CASE s # {}
            <4>1. s \ {Max(s)} \in SUBSET (1 .. m)
                BY <3>2, LastPlace
            <4>2. k[s \ {Max(s)}] = h[s \ {Max(s)}]
                BY <4>1
            <4>3. k[s] = S!CutAt(h[s \ {Max(s)}], points[Max(s)])
                BY <2>2, <3>2
            <4> HIDE DEF k
            <4>4. QED  BY <3>2, <4>2, <4>3
        <3>3. QED  BY <3>1, <3>2
    <2>4. DOMAIN k = SUBSET (1 .. m + 1) /\ k = [s \in DOMAIN k |-> k[s]]
        OBVIOUS
    <2> HIDE DEF k
    <2>5. IsCutFold(base, points, m + 1, k)
        BY <2>3, <2>4 DEF IsCutFold
    <2>6. QED  BY <2>5
<1>3. Nat \subseteq T
    <2> HIDE DEF T
    <2>1. QED  BY <1>1, <1>2, NatSetInduction
<1>4. QED  BY <1>3

AreCuts(base, points, cut) ==
    /\ cut[0] = base
    /\ \A i \in 1 .. Len(points) : cut[i] = S!CutAt(cut[i - 1], points[i])

LEMMA CutAllIs ==
    ASSUME NEW b, NEW T, NEW points \in Seq(T)
    PROVE  \E cut : /\ AreCuts([f |-> f, block |-> b, last |-> 0], points, cut)
                    /\ S!CutAll(b, points) = cut[Len(points)].f
<1> DEFINE n == Len(points)
           base == [f |-> f, block |-> b, last |-> 0]
           F1(h) == [s \in SUBSET (1 .. n) |->
                       IF s = {} THEN base ELSE S!CutAt(h[s \ {Max(s)}], points[Max(s)])]
           fold == CHOOSE h : h = F1(h)
<1>1. n \in Nat /\ DOMAIN points = 1 .. n
    BY LenProperties
<1>2. S!CutAll(b, points) = fold[1 .. n].f
    <2>1. \A A : S!Max(A) = Max(A)
        BY DEF S!Max, Max
    <2>2. QED  BY <1>1, <2>1 DEF S!CutAll, S!FoldLeft, S!MapThenFoldSet
<1>3. fold = F1(fold)
    <2>1. PICK h : IsCutFold(base, points, n, h)
        BY <1>1, CutFoldExists
    <2>2. h = F1(h)
        BY <2>1 DEF IsCutFold
    <2>3. QED  BY <2>2
<1> HIDE DEF fold, base
<1>4. \A s \in SUBSET (1 .. n) :
         fold[s] = IF s = {} THEN base ELSE S!CutAt(fold[s \ {Max(s)}], points[Max(s)])
    BY <1>3
<1> DEFINE cut == [i \in 0 .. n |-> fold[1 .. i]]
<1>5. cut[0] = base
    <2>1. 1 .. 0 = {} /\ {} \in SUBSET (1 .. n) /\ 0 \in 0 .. n
        BY <1>1
    <2>2. fold[1 .. 0] = base
        <3>1. fold[{}] = base
            BY <1>4, <2>1
        <3>2. QED  BY <2>1, <3>1
    <2>3. cut[0] = fold[1 .. 0]
        BY <2>1
    <2>4. QED  BY <2>2, <2>3
<1>6. ASSUME NEW i \in 1 .. n PROVE cut[i] = S!CutAt(cut[i - 1], points[i])
    <2>1. i \in Nat /\ i # 0 /\ 1 .. i \in SUBSET (1 .. n) /\ i \in 0 .. n /\ i - 1 \in 0 .. n
        BY <1>1
    <2>2. 1 .. i # {} /\ Max(1 .. i) = i /\ (1 .. i) \ {i} = 1 .. i - 1
        BY <2>1, MaxOfInterval
    <2>3. cut[i] = fold[1 .. i] /\ cut[i - 1] = fold[1 .. i - 1]
        BY <2>1
    <2> HIDE DEF cut
    <2>4. QED  BY <1>4, <2>1, <2>2, <2>3
<1>7. cut[n] = fold[1 .. n]
    BY <1>1
<1> HIDE DEF cut
<1>8. AreCuts(base, points, cut)
    BY <1>5, <1>6 DEF AreCuts
<1>9. QED  BY <1>2, <1>7, <1>8 DEF base

(* A block is cut, and then its last piece again.                            *)
Keeps(fn, h) ==
    /\ Blocks(fn) \subseteq Blocks(h)
    /\ PhisKept(fn) => PhisKept(h)
    /\ Once(fn) => Once(h)

KeepsParts(fn, h, c) ==
    IsSource(g) /\ PhisKept(fn) /\ HasParts(g, fn, c) => HasParts(g, h, c)

IsPiece(p, n, last, cut) ==
    /\ Guarded(p, cut.f, {}, "true") /\ Keeps(f, cut.f) /\ \A c : KeepsParts(f, cut.f, c)
    /\ cut.block \in Blocks(cut.f) /\ ~HasPhi(cut.f.code[cut.block])
    /\ cut = [f |-> cut.f, block |-> cut.block, last |-> last]
    /\ Len(cut.f.code[cut.block]) = n - last

(* One cut of a block.                                                      *)
LEMMA CutAtKeeps ==
    ASSUME NEW p, NEW n \in Nat, NEW last \in 0 .. n, NEW at_1 \in 0 .. n, last <= at_1,
           NEW cut, IsPiece(p, n, last, cut)
    PROVE  IsPiece(p, n, at_1, S!CutAt(cut, at_1))
<1>0. PICK h, b : h = cut.f /\ b = cut.block /\ cut = [f |-> h, block |-> b, last |-> last]
    BY DEF IsPiece
<1>1. /\ Guarded(p, h, {}, "true") /\ Keeps(f, h) /\ b \in Blocks(h) /\ ~HasPhi(h.code[b])
      /\ Len(h.code[b]) = n - last /\ S!Size(h, b) = n - last + 1
    BY <1>0, SameInSplit DEF IsPiece
<1>2. CASE S!Size(h, b) < 2
    <2>1. last = n /\ at_1 = n
        BY <1>1, <1>2
    <2>2. S!CutAt(cut, at_1) = cut
        BY <1>0, <1>2, <2>1 DEF S!CutAt
    <2>3. QED  BY <2>1, <2>2
<1>3. CASE ~(S!Size(h, b) < 2)
    <2> DEFINE k == at_1 - last
               m == Fresh(h)
               r == SplitBlock(h, b, k)
    <2>1. S!CutAt(cut, at_1) = [f |-> r, block |-> m, last |-> at_1]
        BY <1>0, <1>3, SameInSplit DEF S!CutAt
    <2>2. IsShape(h) /\ k \in 0 .. Len(h.code[b])
        BY <1>1 DEF Guarded
    <2> HIDE DEF k
    <2>3. IsSplit(h, b, k, m, r) /\ Guarded(p, r, {}, "true")
        BY <1>1, <2>2, SplitBlockIs, SplitGuards
    <2>4. \A i \in k + 1 .. Len(h.code[b]) : ~IsPhi(h.code[b][i])
        <3>1. h.code[b] \in Seq(Instructions)
            BY <1>1, <2>2 DEF IsShape
        <3>2. DOMAIN h.code[b] = 1 .. Len(h.code[b]) /\ Len(h.code[b]) \in Nat
            BY <3>1, LenProperties
        <3>3. \A i \in k + 1 .. Len(h.code[b]) : i \in DOMAIN h.code[b]
            BY <2>2, <3>2
        <3>4. QED  BY <1>1, <3>3 DEF HasPhi
    <2> HIDE DEF m, r
    <2>5. /\ PhisKept(h) => PhisKept(r) /\ ~HasPhi(r.code[m])
          /\ Once(h) => Once(r)
        BY <1>1, <2>2, <2>3, <2>4, SplitPhis, SplitOnce
    <2>6. ~HasPhi(r.code[m])
        <3>1. /\ Len(r.code[m]) = Len(h.code[b]) - k
              /\ \A i \in 1 .. Len(r.code[m]) : r.code[m][i] = h.code[b][k + i]
              /\ r.code[m] \in Seq(Instructions)
            BY <2>3 DEF IsSplit, IsShape
        <3>2. DOMAIN r.code[m] = 1 .. Len(r.code[m]) /\ Len(r.code[m]) \in Nat
            BY <3>1, LenProperties
        <3>3. Len(h.code[b]) \in Nat
            BY <1>1
        <3>4. \A i \in 1 .. Len(r.code[m]) : k + i \in k + 1 .. Len(h.code[b])
            BY <2>2, <3>1, <3>2, <3>3
        <3>5. QED  BY <2>4, <3>1, <3>2, <3>4 DEF HasPhi
    <2>7. m \in Blocks(r) /\ Blocks(h) \subseteq Blocks(r) /\ Len(r.code[m]) = (n - last) - k
        BY <1>1, <2>3 DEF IsSplit
    <2>8. (n - last) - k = n - at_1
        BY DEF k
    <2>9. Keeps(f, r)
        BY <1>1, <2>5, <2>7 DEF Keeps
    <2>10. ASSUME NEW c PROVE KeepsParts(f, r, c)
        <3> SUFFICES ASSUME IsSource(g), PhisKept(f), HasParts(g, f, c) PROVE HasParts(g, r, c)
            BY DEF KeepsParts
        <3>1. HasParts(g, h, c)
            BY <1>0 DEF IsPiece, KeepsParts
        <3>2. QED  BY <1>1, <2>2, <2>3, <2>6, <3>1, SplitParts
    <2>11. QED  BY <2>1, <2>3, <2>6, <2>7, <2>8, <2>9, <2>10 DEF IsPiece
<1>4. QED  BY <1>2, <1>3

(* All cuts of a block.                                                     *)
LEMMA CutAllKeeps ==
    ASSUME NEW p, Guarded(p, f, {}, "true"), NEW b \in Blocks(f), ~HasPhi(f.code[b]),
           NEW n \in Nat, Len(f.code[b]) = n, NEW points, InRange(n, points)
    PROVE  /\ Guarded(p, S!CutAll(b, points), {}, "true")
           /\ Keeps(f, S!CutAll(b, points))
           /\ \A c : KeepsParts(f, S!CutAll(b, points), c)
<1> DEFINE l == Len(points)
           base == [f |-> f, block |-> b, last |-> 0]
<1>1. points \in Seq(0 .. n) /\ \A i, j \in 1 .. l : i < j => points[i] <= points[j]
    BY DEF InRange
<1>2. l \in Nat /\ \A i \in 1 .. l : points[i] \in 0 .. n
    BY <1>1, LenProperties, ElementOfSeq
<1>3. PICK cut : AreCuts(base, points, cut) /\ S!CutAll(b, points) = cut[l].f
    BY <1>1, CutAllIs
<1> HIDE DEF l
<1> DEFINE Last_1(i) == IF i = 0 THEN 0 ELSE points[i]
           T == {i \in Nat : i <= l => IsPiece(p, n, Last_1(i), cut[i])}
<1>4. 0 \in T
    <2>1. cut[0] = base /\ Last_1(0) = 0
        BY <1>3 DEF AreCuts
    <2>2. Keeps(f, f) /\ (\A c : KeepsParts(f, f, c)) /\ n - 0 = n
        BY DEF Keeps, KeepsParts
    <2>3. IsPiece(p, n, 0, base)
        BY <2>2 DEF IsPiece
    <2> HIDE DEF base, Last_1
    <2>4. IsPiece(p, n, Last_1(0), cut[0])
        BY <2>1, <2>3
    <2>5. QED  BY <2>4
<1> HIDE DEF base
<1>5. ASSUME NEW i \in Nat, i \in T PROVE i + 1 \in T
    <2> SUFFICES ASSUME i + 1 <= l PROVE IsPiece(p, n, Last_1(i + 1), cut[i + 1])
        <3> HIDE DEF Last_1
        <3>1. QED  OBVIOUS
    <2>1. IsPiece(p, n, Last_1(i), cut[i]) /\ i + 1 \in 1 .. l /\ (i + 1) - 1 = i /\ i + 1 # 0
        <3> HIDE DEF Last_1
        <3>1. QED  BY <1>2, <1>5
    <2>2. cut[i + 1] = S!CutAt(cut[i], points[i + 1])
        BY <1>3, <2>1 DEF AreCuts, l
    <2>3. PICK last \in 0 .. n, now \in 0 .. n :
              last = Last_1(i) /\ now = Last_1(i + 1) /\ last <= now /\ now = points[i + 1]
        <3>1. Last_1(i) \in 0 .. n
            <4>1. CASE i = 0
                BY <4>1
            <4>2. CASE i # 0
                <5>1. i \in 1 .. l
                    BY <1>2, <2>1, <4>2
                <5>2. QED  BY <1>2, <4>2, <5>1
            <4>3. QED  BY <4>1, <4>2
        <3>2. Last_1(i + 1) = points[i + 1] /\ points[i + 1] \in 0 .. n
            BY <1>2, <2>1
        <3>3. Last_1(i) <= points[i + 1]
            <4>1. CASE i = 0
                BY <3>2, <4>1
            <4>2. CASE i # 0
                <5>1. i \in 1 .. l /\ i < i + 1
                    BY <1>2, <2>1, <4>2
                <5>2. points[i] <= points[i + 1]
                    BY <1>1, <2>1, <5>1 DEF l
                <5>3. QED  BY <4>2, <5>2
            <4>3. QED  BY <4>1, <4>2
        <3> HIDE DEF Last_1
        <3>4. QED  BY <3>1, <3>2, <3>3
    <2> HIDE DEF Last_1
    <2>4. IsPiece(p, n, now, S!CutAt(cut[i], now))
        <3>1. PICK c : c = cut[i]
            OBVIOUS
        <3>2. IsPiece(p, n, last, c)
            BY <2>1, <2>3, <3>1
        <3>3. QED  BY <2>3, <3>1, <3>2, CutAtKeeps
    <2>5. QED  BY <2>2, <2>3, <2>4
<1> HIDE DEF Last_1
<1>6. Nat \subseteq T
    <2> HIDE DEF T
    <2>1. QED  BY <1>4, <1>5, NatSetInduction
<1>7. IsPiece(p, n, Last_1(l), cut[l])
    BY <1>2, <1>6
<1>8. QED  BY <1>3, <1>7 DEF IsPiece

-----------------------------------------------------------------------------
(* The operators of Cfg are the same in LowerSwitch.                        *)
LEMMA SameInLower ==
    /\ \A x : L!Jump(x) = Jump(x)
    /\ \A fn : L!Fresh(fn) = Fresh(fn) /\ L!Blocks(fn) = Blocks(fn)
    /\ \A fn, b : L!PlaceOf(fn, b) = PlaceOf(fn, b) /\ L!Preds(fn, b) = Preds(fn, b)
    /\ \A fn, i, b, code, term, from :
          L!AddBlock(fn, i, b, code, term, from) = AddBlock(fn, i, b, code, term, from)
    /\ \A A : L!Max(A) = Max(A) /\ L!Min(A) = Min(A) /\ L!InOrder(A) = InOrder(A)
    /\ \A A : L!Cardinality(A) = Cardinality(A)
    /\ \A s : L!ToSet(s) = ToSet(s)
    /\ \A s, i : L!RemoveAt(s, i) = RemoveAt(s, i)
<1>1. \A x : L!Jump(x) = Jump(x)
    BY DEF L!Jump, Jump
<1>2. \A s : L!ToSet(s) = ToSet(s)
    BY DEF L!ToSet, ToSet
<1>3. \A fn : L!Blocks(fn) = Blocks(fn)
    BY <1>2 DEF L!Blocks, Blocks
<1>4. \A A : L!Max(A) = Max(A) /\ L!Min(A) = Min(A)
    BY DEF L!Max, Max, L!Min, Min
<1>5. \A fn : L!Fresh(fn) = Fresh(fn)
    BY <1>3, <1>4 DEF L!Fresh, Fresh
<1>6. \A fn, i, b, code, term, from :
          L!AddBlock(fn, i, b, code, term, from) = AddBlock(fn, i, b, code, term, from)
    BY DEF L!AddBlock, AddBlock, L!InsertAt, InsertAt, L!Extended, Extended
<1>7. \A fn, b : L!PlaceOf(fn, b) = PlaceOf(fn, b) /\ L!Preds(fn, b) = Preds(fn, b)
    <2>1. \A fn, b : L!PlaceOf(fn, b) = PlaceOf(fn, b)
        BY DEF L!PlaceOf, PlaceOf
    <2>2. \A fn, b : L!Preds(fn, b) = Preds(fn, b)
        <3> TAKE fn, b
        <3>1. PICK A : A = Blocks(fn) /\ A = L!Blocks(fn)
            BY <1>3
        <3>2. {q \in A : b \in ToSet(fn.term[q].to)} = {q \in A : b \in L!ToSet(fn.term[q].to)}
            BY <1>2
        <3>3. QED  BY <3>1, <3>2 DEF L!Preds, Preds
    <2>3. QED  BY <2>1, <2>2
<1>8. \A A : L!Cardinality(A) = Cardinality(A)
    BY DEF L!Cardinality, Cardinality
<1>9. \A A : L!InOrder(A) = InOrder(A)
    BY <1>8 DEF L!InOrder, InOrder
<1>10. \A s, i : L!RemoveAt(s, i) = RemoveAt(s, i)
    BY DEF L!RemoveAt, RemoveAt
<1>11. QED  BY <1>1, <1>2, <1>3, <1>4, <1>5, <1>6, <1>7, <1>8, <1>9, <1>10

(* A function to which empty blocks were added, that go on to blocks of X.    *)
IsNewTerm(X, t) ==
    /\ IsTerm(t) /\ t.sets = << >> /\ t.orig = 0 /\ t.to \in Seq(X)
    /\ t.cond \in {"none", "below", "within"}
    /\ t.cond \in {"below", "within"} => Len(t.to) = 2

Grown(fn, J, N, X, h) ==
    /\ HasFields(h) /\ h.layout \in Seq(Nat \ {0}) /\ h.layout # << >>
    /\ h.layout[1] = Entry(fn) /\ JunkIsLast(h.layout, J)
    /\ Blocks(h) = Blocks(fn) \cup N
    /\ DOMAIN h.code = DOMAIN fn.code \cup N
    /\ DOMAIN h.term = DOMAIN fn.term \cup N
    /\ DOMAIN h.from = DOMAIN fn.from \cup N
    /\ \A x \in DOMAIN fn.term : h.term[x] = fn.term[x]
    /\ \A x \in Blocks(fn) : h.code[x] = fn.code[x]
    /\ \A x \in N : h.code[x] = << >> /\ IsNewTerm(X, h.term[x])

IsNumber(fn, n) ==
    /\ n \in Nat \ {0}
    /\ n \notin DOMAIN fn.code /\ n \notin DOMAIN fn.term /\ n \notin DOMAIN fn.from

(* One block of the tree is added.                                          *)
LEMMA GrownBy ==
    ASSUME NEW fn, IsShape(fn), NEW J, J \subseteq Blocks(fn), NEW N, NEW X, NEW h,
           Grown(fn, J, N, X, h), NEW n, IsNumber(fn, n), NEW t, IsNewTerm(X, t),
           NEW place \in 2 .. Len(h.layout) + 1, \A q \in 1 .. place - 1 : h.layout[q] \notin J
    PROVE  Grown(fn, J, N \cup {n}, X, AddBlock(h, place, n, << >>, t, << >>))
<1> DEFINE r == AddBlock(h, place, n, << >>, t, << >>)
<1>1. r = [layout |-> InsertAt(h.layout, place, n), code |-> Extended(h.code, n, << >>),
           term |-> Extended(h.term, n, t), from |-> Extended(h.from, n, << >>),
           cases |-> << >>, default |-> 0]
    <2>1. PICK a, c, u, o : h = [layout |-> a, code |-> c, term |-> u, from |-> o,
                                  cases |-> << >>, default |-> 0]
        BY DEF Grown, HasFields
    <2>2. h.layout = a /\ h.code = c /\ h.term = u /\ h.from = o
        BY <2>1
    <2>3. r = [[[[[layout |-> a, code |-> c, term |-> u, from |-> o, cases |-> << >>, default |-> 0]
                  EXCEPT !.layout = InsertAt(a, place, n)] EXCEPT !.code = Extended(c, n, << >>)]
                EXCEPT !.term = Extended(u, n, t)] EXCEPT !.from = Extended(o, n, << >>)]
        BY <2>1, <2>2 DEF AddBlock
    <2> HIDE DEF r
    <2>4. QED  BY <2>2, <2>3
<1>2. /\ r.layout = InsertAt(h.layout, place, n) /\ r.code = Extended(h.code, n, << >>)
      /\ r.term = Extended(h.term, n, t) /\ r.from = Extended(h.from, n, << >>)
    BY <1>1
<1>3. HasFields(r)
    BY <1>1, <1>2 DEF HasFields
<1> HIDE DEF r
<1>4. PICK T, l : T = Nat \ {0} /\ l = h.layout /\ l \in Seq(T) /\ l # << >> /\ n \in T
    BY DEF Grown, IsNumber
<1>5. Len(l) \in Nat /\ place \in 1 .. Len(l) + 1 /\ 1 \in 1 .. place - 1
    BY <1>4, LenProperties
<1>6. /\ r.layout \in Seq(T) /\ Len(r.layout) = Len(l) + 1 /\ r.layout[1] = l[1]
      /\ ToSet(r.layout) = ToSet(l) \cup {n}
    <2>1. IsInserted(T, l, place, n, InsertAt(l, place, n))
        BY <1>4, <1>5, InsertedIs
    <2>2. r.layout = InsertAt(l, place, n)
        BY <1>2, <1>4
    <2>3. QED  BY <1>5, <2>1, <2>2 DEF IsInserted
<1>7. r.layout # << >>
    BY <1>4, <1>5, <1>6, EmptySeq
<1>8. n \notin J /\ n \notin DOMAIN fn.term /\ n \notin Blocks(fn)
    BY DEF IsShape, IsNumber
<1>9. JunkIsLast(r.layout, J)
    <2>1. JunkIsLast(l, J) /\ \A q \in 1 .. place - 1 : l[q] \notin J
        BY <1>4 DEF Grown
    <2>2. JunkIsLast(InsertAt(l, place, n), J)
        BY <1>4, <1>5, <1>8, <2>1, InsertBehind
    <2>3. QED  BY <1>2, <1>4, <2>2
<1>10. /\ DOMAIN r.code = DOMAIN h.code \cup {n} /\ DOMAIN r.term = DOMAIN h.term \cup {n}
       /\ DOMAIN r.from = DOMAIN h.from \cup {n}
       /\ r.code[n] = << >> /\ r.term[n] = t
       /\ \A x \in DOMAIN h.code \ {n} : r.code[x] = h.code[x]
       /\ \A x \in DOMAIN h.term \ {n} : r.term[x] = h.term[x]
    BY <1>2 DEF Extended
<1>11. /\ DOMAIN r.code = DOMAIN fn.code \cup (N \cup {n})
       /\ DOMAIN r.term = DOMAIN fn.term \cup (N \cup {n})
       /\ DOMAIN r.from = DOMAIN fn.from \cup (N \cup {n})
       /\ Blocks(r) = Blocks(fn) \cup (N \cup {n})
    BY <1>4, <1>6, <1>10 DEF Grown, Blocks
<1>12. \A x \in DOMAIN fn.term : r.term[x] = fn.term[x]
    BY <1>8, <1>10 DEF Grown
<1>13. \A x \in Blocks(fn) : r.code[x] = fn.code[x]
    <2>1. \A x \in Blocks(fn) : x # n /\ x \in DOMAIN h.code
        BY <1>8 DEF Grown, IsShape
    <2>2. QED  BY <1>10, <2>1 DEF Grown
<1>14. \A x \in N \cup {n} : r.code[x] = << >> /\ IsNewTerm(X, r.term[x])
    BY <1>10 DEF Grown
<1>15. Grown(fn, J, N \cup {n}, X, r)
    BY <1>3, <1>4, <1>6, <1>7, <1>9, <1>11, <1>12, <1>13, <1>14 DEF Grown
<1>16. QED  BY <1>15 DEF r

IsRemoved(T, s, i, r) ==
    /\ r \in Seq(T) /\ Len(r) = Len(s) - 1
    /\ \A j \in 1 .. i - 1 : r[j] = s[j]
    /\ \A j \in i .. Len(s) - 1 : r[j] = s[j + 1]
    /\ ToSet(r) \subseteq ToSet(s) /\ ToSet(s) \ {s[i]} \subseteq ToSet(r)

(* What removing a block from the layout changes.                           *)
LEMMA RemovedIs ==
    ASSUME NEW T, NEW s \in Seq(T), NEW i \in 1 .. Len(s)
    PROVE  IsRemoved(T, s, i, RemoveAt(s, i))
<1> DEFINE a == SubSeq(s, 1, i - 1)
           c == SubSeq(s, i + 1, Len(s))
           r == RemoveAt(s, i)
<1>1. Len(s) \in Nat /\ i \in Nat \ {0} /\ i <= Len(s)
    BY LenProperties
<1>2. /\ a \in Seq(T) /\ Len(a) = i - 1
      /\ \A j \in 1 .. i - 1 : a[j] = s[j]
    <2>1. i - 1 \in 0 .. Len(s)
        BY <1>1
    <2>2. PICK k \in 0 .. Len(s) : k = i - 1
        BY <2>1
    <2>3. /\ SubSeq(s, 1, k) \in Seq(T) /\ Len(SubSeq(s, 1, k)) = k
          /\ \A j \in 1 .. k : SubSeq(s, 1, k)[j] = s[j]
        BY Parts
    <2>4. QED  BY <2>2, <2>3
<1>3. /\ c \in Seq(T) /\ Len(c) = Len(s) - i
      /\ \A j \in 1 .. Len(s) - i : c[j] = s[i + j]
    <2>1. i \in 0 .. Len(s)
        BY <1>1
    <2>2. QED  BY <2>1, Parts
<1>4. r = a \o c
    BY DEF RemoveAt
<1> HIDE DEF a, c, r
<1>5. /\ r \in Seq(T) /\ Len(r) = (i - 1) + (Len(s) - i)
      /\ \A j \in 1 .. i - 1 : r[j] = a[j]
      /\ \A j \in (i - 1) + 1 .. (i - 1) + (Len(s) - i) : r[j] = c[j - (i - 1)]
    <2>1. PICK u, v : u = i - 1 /\ v = Len(s) - i
        OBVIOUS
    <2>2. u \in Nat /\ v \in Nat /\ Len(a) = u /\ Len(c) = v
        BY <1>1, <1>2, <1>3, <2>1
    <2>3. /\ r \in Seq(T) /\ Len(r) = u + v
          /\ \A j \in 1 .. u + v : r[j] = IF j <= u THEN a[j] ELSE c[j - u]
        BY <1>2, <1>3, <1>4, <2>2, ConcatProperties
    <2>4. /\ \A j \in 1 .. u : r[j] = a[j]
          /\ \A j \in u + 1 .. u + v : r[j] = c[j - u]
        BY <2>2, <2>3
    <2>5. QED  BY <2>1, <2>3, <2>4
<1>6. Len(r) = Len(s) - 1 /\ \A j \in 1 .. i - 1 : r[j] = s[j]
    BY <1>1, <1>2, <1>5
<1>7. \A j \in i .. Len(s) - 1 : r[j] = s[j + 1]
    <2> TAKE j \in i .. Len(s) - 1
    <2>1. /\ j \in (i - 1) + 1 .. (i - 1) + (Len(s) - i)
          /\ j - (i - 1) \in 1 .. Len(s) - i /\ i + (j - (i - 1)) = j + 1
        BY <1>1
    <2>2. QED  BY <1>3, <1>5, <2>1
<1>8. DOMAIN r = 1 .. Len(s) - 1 /\ DOMAIN s = 1 .. Len(s)
    BY <1>5, <1>6, LenProperties
<1>9. ASSUME NEW j \in 1 .. Len(s) - 1 PROVE r[j] \in ToSet(s)
    <2>1. \/ j \in 1 .. i - 1 /\ j \in 1 .. Len(s)
          \/ j \in i .. Len(s) - 1 /\ j + 1 \in 1 .. Len(s)
        BY <1>1
    <2>2. QED  BY <1>6, <1>7, <1>8, <2>1 DEF ToSet
<1>10. ASSUME NEW j \in 1 .. Len(s), s[j] # s[i] PROVE s[j] \in ToSet(r)
    <2>1. j # i
        BY <1>10
    <2>2. \/ j \in 1 .. i - 1 /\ j \in 1 .. Len(s) - 1
          \/ j - 1 \in i .. Len(s) - 1 /\ j - 1 \in 1 .. Len(s) - 1 /\ (j - 1) + 1 = j
        BY <1>1, <2>1
    <2>3. QED  BY <1>6, <1>7, <1>8, <2>2 DEF ToSet
<1>11. ToSet(r) \subseteq ToSet(s) /\ ToSet(s) \ {s[i]} \subseteq ToSet(r)
    BY <1>8, <1>9, <1>10 DEF ToSet
<1>12. QED  BY <1>5, <1>6, <1>7, <1>11 DEF IsRemoved, r

(* The clusters of a switch are made of its values and its destinations.      *)
Cluster(X) == [low : Int, high : Int, to : X]

IsSwitch(X, t) ==
    t.vals \in Seq(Int) /\ t.to \in Seq(X) /\ Len(t.to) = Len(t.vals) + 1

(* The destination of a case, whether the next case has it too, and the cases *)
(* clusters start and may end with.                                         *)
HomeOf(t, v) == t.to[1 + CHOOSE i \in DOMAIN t.vals : t.vals[i] = v]

Joined(t, v) == {v, v + 1} \subseteq ToSet(t.vals) /\ HomeOf(t, v) = HomeOf(t, v + 1)

Starts(t, without) == {v \in ToSet(t.vals) : ~Joined(t, v - 1) /\ HomeOf(t, v) \notin without}

EndsFrom(t, low) == {v \in ToSet(t.vals) : v >= low /\ ~Joined(t, v)}

IsClustered(t, without, s, cs) ==
    /\ s \in Seq(Starts(t, without)) /\ ToSet(s) = Starts(t, without) /\ Len(cs) = Len(s)
    /\ \A i, j \in 1 .. Len(s) : i < j => s[i] < s[j]
    /\ \A i \in 1 .. Len(s) : /\ cs[i].low = s[i] /\ cs[i].to = HomeOf(t, s[i])
                              /\ cs[i].high = Min(EndsFrom(t, s[i]))

(* The clusters of a switch lead to its destinations.                       *)
LEMMA ClustersAre ==
    ASSUME NEW X, NEW t, IsSwitch(X, t), NEW without
    PROVE  LET cs == L!Clusterify(t, without)
           IN  /\ cs \in Seq(Cluster(X))
               /\ without = {} /\ t.vals # << >> => cs # << >>
               /\ \E s : IsClustered(t, without, s, cs)
               /\ IsFiniteSet(ToSet(t.vals)) /\ ToSet(t.vals) \subseteq Int
<1> DEFINE dest(v) == t.to[1 + CHOOSE i \in DOMAIN t.vals : t.vals[i] = v]
           cases == ToSet(t.vals)
           joined(v) == {v, v + 1} \subseteq cases /\ dest(v) = dest(v + 1)
           starts == {v \in cases : ~joined(v - 1) /\ dest(v) \notin without}
           lows == InOrder(starts)
           ends(low) == {v \in cases : v >= low /\ ~joined(v)}
           cs == [i \in DOMAIN lows |-> [low |-> lows[i], high |-> Min(ends(lows[i])),
                                         to |-> dest(lows[i])]]
<1>1. L!Clusterify(t, without) = cs
    BY SameInLower DEF L!Clusterify
<1>2. /\ t.vals \in Seq(Int) /\ Len(t.vals) \in Nat /\ DOMAIN t.vals = 1 .. Len(t.vals)
      /\ \A i \in 1 .. Len(t.vals) : t.vals[i] \in Int
    BY LenProperties, ElementOfSeq DEF IsSwitch
<1>3. cases \in SUBSET Int /\ IsFiniteSet(cases)
    <2>1. cases = {t.vals[i] : i \in 1 .. Len(t.vals)}
        BY <1>2 DEF ToSet
    <2>2. IsFiniteSet(1 .. Len(t.vals))
        <3>1. PICK n \in Nat : n = Len(t.vals)
            BY <1>2
        <3>2. IsFiniteSet(1 .. n)
            BY FS_Interval
        <3>3. QED  BY <3>1, <3>2
    <2>3. [i \in 1 .. Len(t.vals) |-> t.vals[i]] \in Surjection(1 .. Len(t.vals), cases)
        BY <2>1 DEF Surjection
    <2>4. PICK m : m \in Surjection(1 .. Len(t.vals), cases)
        BY <2>3
    <2>5. QED  BY <1>2, <2>1, <2>2, <2>4, FS_Surjection
<1>4. ASSUME NEW v \in cases PROVE dest(v) \in X
    <2>1. \E i \in DOMAIN t.vals : t.vals[i] = v
        BY DEF ToSet
    <2>2. PICK i \in DOMAIN t.vals : i = CHOOSE j \in DOMAIN t.vals : t.vals[j] = v
        BY <2>1
    <2>3. 1 + i \in 1 .. Len(t.to) /\ t.to \in Seq(X) /\ dest(v) = t.to[1 + i]
        BY <1>2, <2>2 DEF IsSwitch
    <2>4. QED  BY <2>3, ElementOfSeq
<1>5. ASSUME NEW low \in cases PROVE Min(ends(low)) \in Int
    <2>1. Max(cases) \in cases /\ \A x \in cases : x <= Max(cases)
        BY <1>3, Greatest
    <2>2. PICK m \in cases : m = Max(cases) /\ \A x \in cases : x <= m
        BY <2>1
    <2>3. m + 1 \notin cases /\ m >= low
        BY <1>3, <2>2
    <2>4. m \in ends(low)
        BY <2>3
    <2>5. ends(low) \subseteq cases
        OBVIOUS
    <2>6. IsFiniteSet(ends(low))
        BY <1>3, <2>5, FS_Subset
    <2>7. PICK A : A = ends(low)
        OBVIOUS
    <2>8. A \in SUBSET Int /\ A # {} /\ IsFiniteSet(A)
        BY <1>3, <2>4, <2>5, <2>6, <2>7
    <2>9. Min(A) \in A
        BY <2>8, Least
    <2>10. QED  BY <2>7, <2>8, <2>9
<1>6. starts \in SUBSET Int /\ IsFiniteSet(starts) /\ starts \subseteq cases
    BY <1>3, FS_Subset
<1>7. /\ lows \in Seq(starts) /\ Len(lows) = Cardinality(starts)
      /\ DOMAIN lows = 1 .. Len(lows) /\ Len(lows) \in Nat
      /\ \A i \in 1 .. Len(lows) : lows[i] \in cases
    <2>1. PICK A : A = starts
        OBVIOUS
    <2>2. InOrder(A) \in Seq(A) /\ Len(InOrder(A)) = Cardinality(A)
        BY <1>6, <2>1, Ordered
    <2>3. PICK s : s = InOrder(A)
        OBVIOUS
    <2>4. DOMAIN s = 1 .. Len(s) /\ Len(s) \in Nat /\ \A i \in 1 .. Len(s) : s[i] \in A
        BY <2>2, <2>3, LenProperties, ElementOfSeq
    <2>5. lows = s /\ A \subseteq cases
        BY <1>6, <2>1, <2>3
    <2> HIDE DEF lows, cases, starts
    <2>6. QED  BY <2>1, <2>2, <2>3, <2>4, <2>5
<1>8. \A i \in 1 .. Len(lows) : cs[i] \in Cluster(X)
    <2> SUFFICES ASSUME NEW i \in 1 .. Len(lows) PROVE cs[i] \in Cluster(X)
        OBVIOUS
    <2>1. PICK v \in cases : v = lows[i]
        BY <1>7
    <2>2. cs[i] = [low |-> v, high |-> Min(ends(v)), to |-> dest(v)]
        <3> HIDE DEF lows, ends, dest, cases
        <3>1. QED  BY <1>7, <2>1
    <2>3. v \in Int /\ Min(ends(v)) \in Int /\ dest(v) \in X
        BY <1>3, <1>4, <1>5
    <2> HIDE DEF cs, ends, dest
    <2>4. QED  BY <2>2, <2>3 DEF Cluster
<1>9. cs \in Seq(Cluster(X)) /\ Len(cs) = Len(lows)
    <2>1. DOMAIN cs = 1 .. Len(lows) /\ cs = [i \in 1 .. Len(lows) |-> cs[i]]
        BY <1>7
    <2>2. Len(lows) \in Nat
        BY <1>7
    <2> HIDE DEF cs, lows
    <2>3. cs \in [1 .. Len(lows) -> Cluster(X)]
        BY <1>8, <2>1
    <2>4. QED  BY <2>2, <2>3
<1>10. ASSUME without = {}, t.vals # << >> PROVE cs # << >>
    <2>1. cases # {}
        <3>1. Len(t.vals) # 0
            BY <1>2, <1>10, EmptySeq
        <3>2. 1 \in DOMAIN t.vals
            BY <1>2, <3>1
        <3>3. QED  BY <3>2 DEF ToSet
    <2>2. Min(cases) \in cases /\ \A x \in cases : Min(cases) <= x
        BY <1>3, <2>1, Least
    <2>3. PICK m \in cases : \A x \in cases : m <= x
        BY <2>2
    <2>4. m - 1 \notin cases
        BY <1>3, <2>3
    <2>5. m \in starts
        BY <1>10, <2>4
    <2>6. Cardinality(starts) # 0
        BY <1>6, <2>5, FS_EmptySet
    <2> HIDE DEF cs, lows, starts
    <2>7. QED  BY <1>7, <1>9, <2>6, EmptySeq
<1>11. \A v : dest(v) = HomeOf(t, v)
    BY DEF HomeOf
<1>12. \A v : ends(v) = EndsFrom(t, v)
    BY DEF HomeOf, Joined, EndsFrom
<1>13. starts = Starts(t, without)
    BY DEF HomeOf, Joined, Starts
<1>14. IsClustered(t, without, lows, cs)
    <2>1. PICK A : A = starts /\ A \in SUBSET Int /\ IsFiniteSet(A)
        BY <1>6
    <2>2. PICK s : s = InOrder(A)
        OBVIOUS
    <2>3. /\ s \in Seq(A) /\ Len(s) = Cardinality(A) /\ ToSet(s) = A
          /\ \A i, j \in 1 .. Cardinality(A) : i < j => s[i] < s[j]
        BY <2>1, <2>2, Ordered
    <2>4. s = lows
        BY <2>1, <2>2
    <2>5. \A i \in 1 .. Len(lows) : /\ cs[i].low = lows[i] /\ cs[i].high = Min(ends(lows[i]))
                                    /\ cs[i].to = dest(lows[i])
        BY <1>7
    <2> HIDE DEF cs, lows, starts, ends, dest
    <2>6. QED  BY <1>9, <1>11, <1>12, <1>13, <2>1, <2>3, <2>4, <2>5 DEF IsClustered
<1> HIDE DEF cs, lows
<1>15. QED  BY <1>1, <1>3, <1>9, <1>10, <1>14

(* The most popular destination is one of them.                             *)
LEMMA PopularIs ==
    ASSUME NEW X, NEW cs \in Seq(Cluster(X)), cs # << >>
    PROVE  L!PopSucc(cs) \in X
<1> DEFINE n == Len(cs)
           places(i) == {k \in 1 .. i : cs[k].to = cs[i].to}
           range(j) == cs[j].low .. cs[j].high
           values(i) == UNION {range(j) : j \in places(i)}
           pop(i) == Cardinality(values(i))
           pops == {pop(i) : i \in DOMAIN cs}
           first == {i \in DOMAIN cs : pop(i) = Max(pops)}
<1>1. n \in Nat \ {0} /\ DOMAIN cs = 1 .. n /\ \A i \in 1 .. n : cs[i] \in Cluster(X)
    BY LenProperties, EmptySeq, ElementOfSeq
<1>2. ASSUME NEW i \in 1 .. n PROVE pop(i) \in Nat
    <2>1. \A j \in places(i) : IsFiniteSet(range(j))
        <3> TAKE j \in places(i)
        <3>1. j \in 1 .. n
            BY <1>1
        <3>2. PICK a \in Int, b \in Int : a = cs[j].low /\ b = cs[j].high
            BY <1>1, <3>1 DEF Cluster
        <3>3. IsFiniteSet(a .. b)
            BY FS_Interval
        <3>4. QED  BY <3>2, <3>3
    <2>2. IsFiniteSet(places(i))
        <3>1. IsFiniteSet(1 .. i)
            BY FS_Interval
        <3>2. places(i) \subseteq 1 .. i
            OBVIOUS
        <3>3. QED  BY <3>1, <3>2, FS_Subset
    <2> DEFINE ranges == {range(j) : j \in places(i)}
    <2>3. IsFiniteSet(ranges)
        <3>1. [j \in places(i) |-> range(j)] \in Surjection(places(i), ranges)
            BY DEF Surjection
        <3>2. PICK m, A, C : m \in Surjection(A, C) /\ A = places(i) /\ C = ranges
            BY <3>1
        <3>3. IsFiniteSet(C)
            BY <2>2, <3>2, FS_Surjection
        <3>4. QED  BY <3>2, <3>3
    <2>4. \A r \in ranges : IsFiniteSet(r)
        BY <2>1
    <2> HIDE DEF ranges
    <2>5. IsFiniteSet(UNION ranges)
        BY <2>3, <2>4, FS_UNION
    <2>6. Cardinality(UNION ranges) \in Nat
        BY <2>5, FS_CardinalityType
    <2>7. QED  BY <2>6 DEF ranges
<1> HIDE DEF pop
<1>3. pops \in SUBSET Int /\ pops # {} /\ IsFiniteSet(pops)
    <2>1. pops = {pop(i) : i \in 1 .. n}
        BY <1>1
    <2>2. [i \in 1 .. n |-> pop(i)] \in Surjection(1 .. n, pops)
        BY <2>1 DEF Surjection
    <2>3. IsFiniteSet(1 .. n)
        BY <1>1, FS_Interval
    <2>4. PICK m, A, C : m \in Surjection(A, C) /\ A = 1 .. n /\ C = pops
        BY <2>2
    <2>5. IsFiniteSet(C)
        BY <2>3, <2>4, FS_Surjection
    <2>6. 1 \in 1 .. n
        BY <1>1
    <2>7. QED  BY <1>2, <2>1, <2>4, <2>5, <2>6
<1>4. Max(pops) \in pops
    <2> HIDE DEF pops
    <2>1. QED  BY <1>3, Greatest
<1>5. first # {} /\ first \subseteq 1 .. n
    BY <1>1, <1>4
<1>6. first \in SUBSET Int /\ IsFiniteSet(first)
    <2>1. IsFiniteSet(1 .. n)
        BY <1>1, FS_Interval
    <2>2. IsFiniteSet(first)
        BY <1>5, <2>1, FS_Subset
    <2>3. QED  BY <1>5, <2>2
<1>7. Min(first) \in 1 .. n
    <2> HIDE DEF first
    <2>1. QED  BY <1>5, <1>6, Least
<1>8. L!PopSucc(cs) = cs[Min(first)].to
    BY SameInLower DEF L!PopSucc, pop
<1> HIDE DEF first
<1>9. QED  BY <1>1, <1>7, <1>8 DEF Cluster

-----------------------------------------------------------------------------
(* The recursion of switchConvert.                                          *)
Mid(c) == c[1] + (c[2] - c[1] + 1) \div 2

NumberOf(sw, c) == sw.newDefault + Len(sw.clusters) + Mid(c)

LeftCall(sw, c) ==
    LET pivot == sw.clusters[Mid(c)].low
        below == sw.clusters[Mid(c) - 1].high
    IN  <<c[1], Mid(c) - 1, c[3],
          {IF (below + 1 .. pivot - 1) \cap sw.reachable = {} THEN below ELSE pivot - 1},
          NumberOf(sw, c)>>

RightCall(sw, c) == <<Mid(c), c[2], {sw.clusters[Mid(c)].low}, c[4], NumberOf(sw, c)>>

Tree(sw, c, left, right) ==
    [root |-> NumberOf(sw, c),
     blocks |-> left.blocks \o right.blocks
                   \o <<L!Node(NumberOf(sw, c), sw.clusters[Mid(c)].low, left, right)>>,
     moved |-> left.moved \o right.moved]

LEMMA ConvertedIs ==
    ASSUME NEW sw, NEW h, NEW c
    PROVE  L!Converted(sw, h, c)
              = IF c[1] = c[2]
                   THEN IF c[3] = {sw.clusters[c[1]].low} /\ c[4] = {sw.clusters[c[1]].high}
                           THEN L!Known(sw.clusters[c[1]], c[5]) ELSE L!Leaf(sw, c[1])
                   ELSE Tree(sw, c, h[LeftCall(sw, c)], h[RightCall(sw, c)])
BY DEF L!Converted, Tree, LeftCall, RightCall, NumberOf, Mid

IsSplitting(X, sw) ==
    sw.clusters \in Seq(Cluster(X)) /\ sw.clusters # << >> /\ sw.newDefault \in Nat

LEMMA CallsShrink ==
    ASSUME NEW X, NEW sw, IsSplitting(X, sw), NEW c \in L!Calls(Len(sw.clusters)), c[1] # c[2]
    PROVE  LET l == LeftCall(sw, c)
               r == RightCall(sw, c)
           IN  /\ l \in L!Calls(Len(sw.clusters)) /\ r \in L!Calls(Len(sw.clusters))
               /\ l[2] - l[1] < c[2] - c[1] /\ r[2] - r[1] < c[2] - c[1]
<1> DEFINE n == Len(sw.clusters)
           l == LeftCall(sw, c)
           r == RightCall(sw, c)
<1>1. n \in Nat /\ \A i \in 1 .. n : sw.clusters[i].low \in Int /\ sw.clusters[i].high \in Int
    <2>1. n \in Nat /\ \A i \in 1 .. n : sw.clusters[i] \in Cluster(X)
        BY LenProperties, ElementOfSeq DEF IsSplitting
    <2>2. QED  BY <2>1 DEF Cluster
<1>2. PICK i \in 1 .. n, j \in 1 .. n, lo \in SUBSET Int, hi \in SUBSET Int, pred \in Nat :
          c = <<i, j, lo, hi, pred>> /\ i < j
    <2>1. c[1] \in 1 .. n /\ c[2] \in 1 .. n /\ c[3] \in SUBSET Int /\ c[4] \in SUBSET Int /\ c[5] \in Nat
          /\ c = <<c[1], c[2], c[3], c[4], c[5]>> /\ c[1] <= c[2]
        BY DEF L!Calls
    <2>2. c[1] < c[2]
        BY <1>1, <2>1
    <2>3. QED  BY <2>1, <2>2
<1>3. PICK mid \in 1 .. n : mid = Mid(c) /\ i < mid /\ mid <= j /\ mid - 1 \in 1 .. n
    <2>1. Mid(c) = i + (j - i + 1) \div 2
        BY <1>2 DEF Mid
    <2>2. i \in Nat /\ j \in Nat /\ i < j /\ 1 <= i /\ j <= n
        BY <1>1, <1>2
    <2>3. PICK w \in Nat : w = (j - i + 1) \div 2 /\ 1 <= w /\ w <= j - i
        BY <2>2
    <2>4. i + w \in 1 .. n /\ i < i + w /\ i + w <= j /\ (i + w) - 1 \in 1 .. n
        BY <1>1, <2>2, <2>3
    <2>5. QED  BY <2>1, <2>3, <2>4
<1>4. PICK pivot \in Int, below \in Int, no \in Nat :
          /\ pivot = sw.clusters[mid].low /\ below = sw.clusters[mid - 1].high
          /\ no = NumberOf(sw, c)
    <2>1. NumberOf(sw, c) \in Nat
        BY <1>1, <1>3 DEF NumberOf, IsSplitting
    <2>2. QED  BY <1>1, <1>3, <2>1
<1>5. PICK upper \in SUBSET Int : l = <<i, mid - 1, lo, upper, no>>
    <2>1. PICK v \in Int : v = IF (below + 1 .. pivot - 1) \cap sw.reachable = {} THEN below ELSE pivot - 1
        BY <1>4
    <2>2. l = <<i, mid - 1, lo, {v}, no>>
        BY <1>2, <1>3, <1>4, <2>1 DEF LeftCall
    <2>3. {v} \in SUBSET Int
        OBVIOUS
    <2>4. QED  BY <2>2, <2>3
<1>6. r = <<mid, j, {pivot}, hi, no>> /\ {pivot} \in SUBSET Int
    BY <1>2, <1>3, <1>4 DEF RightCall
<1>7. i <= mid - 1 /\ (mid - 1) - i < j - i /\ j - mid < j - i
    BY <1>1, <1>3
<1> HIDE DEF l, r
<1>8. l \in L!Calls(n) /\ r \in L!Calls(n)
    BY <1>3, <1>5, <1>6, <1>7 DEF L!Calls
<1>9. /\ l[1] = i /\ l[2] = mid - 1 /\ r[1] = mid /\ r[2] = j /\ c[1] = i /\ c[2] = j
    BY <1>2, <1>5, <1>6
<1>10. QED  BY <1>7, <1>8, <1>9 DEF l, r

Converts(sw, m, h) ==
    /\ h = [c \in L!Calls(Len(sw.clusters)) |-> h[c]]
    /\ \A c \in L!Calls(Len(sw.clusters)) : c[2] - c[1] <= m => h[c] = L!Converted(sw, h, c)

(* The recursion of switchConvert is a function: a call makes smaller ones. *)
LEMMA ConversionExists ==
    ASSUME NEW X, NEW sw, IsSplitting(X, sw)
    PROVE  \E h : h = [c \in L!Calls(Len(sw.clusters)) |-> L!Converted(sw, h, c)]
<1> DEFINE n == Len(sw.clusters)
           C == L!Calls(n)
           T == {m \in Nat : \E h : Converts(sw, m, h)}
<1>1. n \in Nat
    BY LenProperties DEF IsSplitting
<1>2. \A c \in C : c[1] \in 1 .. n /\ c[2] \in 1 .. n /\ c[1] <= c[2]
    BY DEF L!Calls
<1> HIDE DEF n
<1>3. 0 \in T
    <2> DEFINE h == [c \in C |-> L!Converted(sw, << >>, c)]
    <2>1. h = [c \in C |-> h[c]] /\ \A c \in C : h[c] = L!Converted(sw, << >>, c)
        OBVIOUS
    <2> HIDE DEF h
    <2>2. ASSUME NEW c \in C, c[2] - c[1] <= 0 PROVE h[c] = L!Converted(sw, h, c)
        <3>1. c[1] = c[2]
            BY <1>1, <1>2, <2>2
        <3>2. QED  BY <2>1, <3>1, ConvertedIs
    <2>3. Converts(sw, 0, h)
        BY <2>1, <2>2 DEF Converts, n
    <2>4. QED  BY <2>3
<1>4. ASSUME NEW m \in Nat, m \in T PROVE m + 1 \in T
    <2>1. PICK h : Converts(sw, m, h)
        BY <1>4
    <2>2. \A c \in C : c[2] - c[1] <= m => h[c] = L!Converted(sw, h, c)
        BY <2>1 DEF Converts, n
    <2> DEFINE k == [c \in C |-> IF c[2] - c[1] <= m THEN h[c] ELSE L!Converted(sw, h, c)]
    <2>3. k = [c \in C |-> k[c]] /\ \A c \in C : k[c] = L!Converted(sw, h, c) \/ c[2] - c[1] <= m
        OBVIOUS
    <2>4. \A c \in C : c[2] - c[1] <= m => k[c] = h[c]
        OBVIOUS
    <2> HIDE DEF k
    <2>5. ASSUME NEW c \in C, c[2] - c[1] <= m + 1 PROVE k[c] = L!Converted(sw, k, c)
        <3>1. k[c] = L!Converted(sw, h, c)
            BY <2>2, <2>3, <2>4
        <3>2. CASE c[1] = c[2]
            BY <3>1, <3>2, ConvertedIs
        <3>3. CASE c[1] # c[2]
            <4> DEFINE l == LeftCall(sw, c)
                       r == RightCall(sw, c)
            <4>1. /\ l \in C /\ r \in C
                  /\ l[2] - l[1] < c[2] - c[1] /\ r[2] - r[1] < c[2] - c[1]
                BY <3>3, CallsShrink DEF n
            <4> HIDE DEF l, r
            <4>2. l[2] - l[1] <= m /\ r[2] - r[1] <= m
                BY <1>1, <1>2, <2>5, <4>1
            <4>3. k[l] = h[l] /\ k[r] = h[r]
                BY <2>4, <4>1, <4>2
            <4>4. L!Converted(sw, k, c) = L!Converted(sw, h, c)
                BY <3>3, <4>3, ConvertedIs DEF l, r
            <4>5. QED  BY <3>1, <4>4
        <3>4. QED  BY <3>2, <3>3
    <2>6. Converts(sw, m + 1, k)
        BY <2>3, <2>5 DEF Converts, n
    <2>7. QED  BY <2>6
<1>5. Nat \subseteq T
    <2> HIDE DEF T
    <2>1. QED  BY <1>3, <1>4, NatSetInduction
<1>6. PICK h : Converts(sw, n, h)
    BY <1>1, <1>5
<1>7. \A c \in C : h[c] = L!Converted(sw, h, c)
    <2>1. \A c \in C : c[2] - c[1] <= n
        BY <1>1, <1>2
    <2>2. QED  BY <1>6, <2>1 DEF Converts, n
<1>8. h = [c \in C |-> h[c]]
    BY <1>6 DEF Converts, n
<1>9. h = [c \in C |-> L!Converted(sw, h, c)]
    BY <1>7, <1>8
<1>10. QED  BY <1>9 DEF n

LEMMA SetOfConcat ==
    ASSUME NEW T, NEW a \in Seq(T), NEW c \in Seq(T)
    PROVE  a \o c \in Seq(T) /\ ToSet(a \o c) = ToSet(a) \cup ToSet(c)
<1> DEFINE r == a \o c
<1>1. Len(a) \in Nat /\ DOMAIN a = 1 .. Len(a) /\ Len(c) \in Nat /\ DOMAIN c = 1 .. Len(c)
    BY LenProperties
<1>2. /\ r \in Seq(T) /\ Len(r) = Len(a) + Len(c)
      /\ \A i \in 1 .. Len(a) + Len(c) : r[i] = IF i <= Len(a) THEN a[i] ELSE c[i - Len(a)]
    BY ConcatProperties
<1> HIDE DEF r
<1>3. DOMAIN r = 1 .. Len(a) + Len(c)
    BY <1>2, LenProperties
<1>4. ASSUME NEW i \in 1 .. Len(a) + Len(c) PROVE r[i] \in ToSet(a) \cup ToSet(c)
    <2>1. \/ i \in 1 .. Len(a)
          \/ ~(i <= Len(a)) /\ i - Len(a) \in 1 .. Len(c)
        BY <1>1
    <2>2. CASE i \in 1 .. Len(a)
        <3>1. r[i] = a[i]
            BY <1>1, <1>2, <2>2
        <3>2. QED  BY <1>1, <2>2, <3>1 DEF ToSet
    <2>3. CASE ~(i <= Len(a)) /\ i - Len(a) \in 1 .. Len(c)
        <3>1. r[i] = c[i - Len(a)]
            BY <1>2, <2>3
        <3>2. QED  BY <1>1, <2>3, <3>1 DEF ToSet
    <2>4. QED  BY <2>1, <2>2, <2>3
<1>5. ASSUME NEW i \in 1 .. Len(a) PROVE a[i] \in ToSet(r)
    <2>1. i \in 1 .. Len(a) + Len(c) /\ i <= Len(a)
        BY <1>1
    <2>2. QED  BY <1>2, <1>3, <2>1 DEF ToSet
<1>6. ASSUME NEW i \in 1 .. Len(c) PROVE c[i] \in ToSet(r)
    <2>1. /\ i + Len(a) \in 1 .. Len(a) + Len(c) /\ ~(i + Len(a) <= Len(a))
          /\ (i + Len(a)) - Len(a) = i
        BY <1>1
    <2>2. QED  BY <1>2, <1>3, <2>1 DEF ToSet
<1>7. ToSet(r) = ToSet(a) \cup ToSet(c)
    BY <1>1, <1>3, <1>4, <1>5, <1>6 DEF ToSet
<1>8. QED  BY <1>2, <1>7 DEF r

(* The blocks of a tree go to each other, to the new default d, or to X.      *)
NumbersOf(tr) == {e.block : e \in ToSet(tr.blocks)}

IsTree(X, d, tr) ==
    /\ tr.blocks \in Seq(ToSet(tr.blocks))
    /\ tr.root \in X \cup NumbersOf(tr)
    /\ \A e \in ToSet(tr.blocks) :
          /\ e.block \in Nat /\ e.block > d
          /\ IsNewTerm(X \cup {d} \cup NumbersOf(tr), e.term)

LEMMA TermGrows ==
    ASSUME NEW X, NEW Y, X \subseteq Y, NEW t, IsNewTerm(X, t)
    PROVE  IsNewTerm(Y, t)
<1>1. t.to \in Seq(X)
    BY DEF IsNewTerm
<1>2. t.to \in Seq(Y)
    BY <1>1, SeqGrows
<1>3. QED  BY <1>2 DEF IsNewTerm

LEMMA KnownIsTree ==
    ASSUME NEW X, NEW d, NEW c \in Cluster(X), NEW pred
    PROVE  IsTree(X, d, L!Known(c, pred))
<1> DEFINE tr == L!Known(c, pred)
<1>1. tr.root = c.to /\ tr.blocks = << >>
    BY DEF L!Known
<1> HIDE DEF tr
<1>2. ToSet(tr.blocks) = {}
    BY <1>1 DEF ToSet
<1>3. c.to \in X
    BY DEF Cluster
<1>4. QED  BY <1>1, <1>2, <1>3 DEF IsTree, tr

LEMMA LeafIsTree ==
    ASSUME NEW X, NEW sw, IsSplitting(X, sw), NEW i \in 1 .. Len(sw.clusters)
    PROVE  IsTree(X, sw.newDefault, L!Leaf(sw, i))
<1> DEFINE tr == L!Leaf(sw, i)
           d == sw.newDefault
           n == d + i
           c == sw.clusters[i]
           t == [to |-> <<c.to, d>>, cond |-> "within", sets |-> << >>, orig |-> 0,
                 low |-> c.low, high |-> c.high]
<1>1. tr.root = n /\ tr.blocks = << [block |-> n, term |-> t] >>
    BY DEF L!Leaf
<1>2. c.to \in X /\ d \in Nat /\ i \in Nat \ {0}
    <2>1. c \in Cluster(X)
        BY ElementOfSeq DEF IsSplitting
    <2>2. QED  BY <2>1, LenProperties DEF Cluster, IsSplitting
<1>3. IsNewTerm(X \cup {d}, t)
    <2>1. /\ t.to = <<c.to, d>> /\ t.cond = "within" /\ t.sets = << >> /\ t.orig = 0 /\ IsTerm(t)
          /\ Len(<<c.to, d>>) = 2
        BY DEF IsTerm
    <2>2. <<c.to, d>> \in Seq(X \cup {d})
        BY <1>2
    <2> HIDE DEF t, c, d
    <2>3. QED  BY <2>1, <2>2 DEF IsNewTerm
<1> DEFINE e == [block |-> n, term |-> t]
<1>4. e.block = n /\ e.term = t
    OBVIOUS
<1> HIDE DEF tr, e, t, d, c
<1>5. tr.blocks = <<e>> /\ ToSet(tr.blocks) = {e}
    BY <1>1 DEF ToSet, e
<1>6. NumbersOf(tr) = {n}
    BY <1>4, <1>5 DEF NumbersOf
<1>7. n \in Nat /\ n > d
    BY <1>2
<1>8. IsNewTerm(X \cup {d} \cup NumbersOf(tr), t)
    BY <1>3, TermGrows
<1>9. QED  BY <1>1, <1>4, <1>5, <1>6, <1>7, <1>8 DEF IsTree, tr, d

LEMMA TreeIsTree ==
    ASSUME NEW X, NEW sw, IsSplitting(X, sw), NEW c, NumberOf(sw, c) \in Nat,
           NumberOf(sw, c) > sw.newDefault,
           NEW left, IsTree(X, sw.newDefault, left), NEW right, IsTree(X, sw.newDefault, right)
    PROVE  IsTree(X, sw.newDefault, Tree(sw, c, left, right))
<1> DEFINE d == sw.newDefault
           n == NumberOf(sw, c)
           pivot == sw.clusters[Mid(c)].low
           e == L!Node(n, pivot, left, right)
           tr == Tree(sw, c, left, right)
           T == ToSet(left.blocks) \cup ToSet(right.blocks) \cup {e}
           Y == X \cup {d} \cup NumbersOf(tr)
<1>1. /\ e.block = n /\ e.term.to = <<left.root, right.root>> /\ e.term.cond = "below"
      /\ e.term.sets = << >> /\ e.term.orig = 0 /\ IsTerm(e.term)
    BY DEF L!Node, IsTerm
<1>2. tr.root = n /\ tr.blocks = left.blocks \o right.blocks \o <<e>>
    BY DEF Tree
<1> HIDE DEF tr, e, n
<1>3. tr.blocks \in Seq(T) /\ ToSet(tr.blocks) = T
    <2>1. left.blocks \in Seq(ToSet(left.blocks)) /\ right.blocks \in Seq(ToSet(right.blocks))
        BY DEF IsTree
    <2>2. ToSet(left.blocks) \subseteq T /\ ToSet(right.blocks) \subseteq T /\ {e} \subseteq T
        OBVIOUS
    <2>3. left.blocks \in Seq(T) /\ right.blocks \in Seq(T)
        BY <2>1, <2>2, SeqGrows
    <2>4. <<e>> \in Seq(T) /\ ToSet(<<e>>) = {e}
        BY DEF ToSet
    <2> HIDE DEF T
    <2>5. PICK lr : /\ lr = left.blocks \o right.blocks /\ lr \in Seq(T)
                    /\ ToSet(lr) = ToSet(left.blocks) \cup ToSet(right.blocks)
        BY <2>3, SetOfConcat
    <2>6. lr \o <<e>> \in Seq(T) /\ ToSet(lr \o <<e>>) = ToSet(lr) \cup ToSet(<<e>>)
        <3>1. PICK s \in Seq(T) : s = <<e>>
            BY <2>4
        <3>2. lr \in Seq(T)
            BY <2>5
        <3>3. lr \o s \in Seq(T) /\ ToSet(lr \o s) = ToSet(lr) \cup ToSet(s)
            BY <3>2, SetOfConcat
        <3>4. QED  BY <3>1, <3>3
    <2>7. QED  BY <1>2, <2>4, <2>5, <2>6 DEF T
<1>4. NumbersOf(tr) = NumbersOf(left) \cup NumbersOf(right) \cup {n}
    BY <1>1, <1>3 DEF NumbersOf
<1>5. /\ X \cup {d} \cup NumbersOf(left) \subseteq Y /\ X \cup {d} \cup NumbersOf(right) \subseteq Y
      /\ left.root \in Y /\ right.root \in Y
    BY <1>4 DEF IsTree
<1> HIDE DEF Y
<1>6. IsNewTerm(Y, e.term)
    <2>1. <<left.root, right.root>> \in Seq(Y) /\ Len(<<left.root, right.root>>) = 2
        BY <1>5
    <2>2. QED  BY <1>1, <2>1 DEF IsNewTerm
<1>7. ASSUME NEW x \in T PROVE x.block \in Nat /\ x.block > d /\ IsNewTerm(Y, x.term)
    <2>1. CASE x \in ToSet(left.blocks)
        <3>1. /\ x.block \in Nat /\ x.block > d
              /\ IsNewTerm(X \cup {d} \cup NumbersOf(left), x.term)
            BY <2>1 DEF IsTree
        <3>2. QED  BY <1>5, <3>1, TermGrows
    <2>2. CASE x \in ToSet(right.blocks)
        <3>1. /\ x.block \in Nat /\ x.block > d
              /\ IsNewTerm(X \cup {d} \cup NumbersOf(right), x.term)
            BY <2>2 DEF IsTree
        <3>2. QED  BY <1>5, <3>1, TermGrows
    <2>3. CASE x = e
        BY <1>1, <1>6, <2>3 DEF n
    <2>4. QED  BY <2>1, <2>2, <2>3
<1>8. QED  BY <1>2, <1>3, <1>4, <1>7 DEF IsTree, Y, tr

(* switchConvert is a solution of its own equation.                          *)
IsConversion(sw, h) ==
    \A c \in L!Calls(Len(sw.clusters)) : h[c] = L!Converted(sw, h, c)

LEMMA ConversionIs ==
    ASSUME NEW X, NEW sw, IsSplitting(X, sw)
    PROVE  \E h : /\ IsConversion(sw, h)
                  /\ \A lo, hi, pred : L!SwitchConvert(sw, lo, hi, pred)
                                          = h[<<1, Len(sw.clusters), lo, hi, pred>>]
<1> DEFINE F1(h) == [c \in L!Calls(Len(sw.clusters)) |-> L!Converted(sw, h, c)]
           convert == CHOOSE h : h = F1(h)
<1>1. convert = F1(convert)
    <2>1. \E h : h = F1(h)
        BY ConversionExists
    <2>2. QED  BY <2>1
<1>2. \A lo, hi, pred : L!SwitchConvert(sw, lo, hi, pred)
                           = convert[<<1, Len(sw.clusters), lo, hi, pred>>]
    BY DEF L!SwitchConvert
<1> HIDE DEF convert
<1>3. IsConversion(sw, convert)
    BY <1>1 DEF IsConversion
<1>4. QED  BY <1>2, <1>3

LEMMA FirstCall ==
    ASSUME NEW X, NEW sw, IsSplitting(X, sw), NEW lo \in SUBSET Int, NEW hi \in SUBSET Int,
           NEW pred \in Nat
    PROVE  <<1, Len(sw.clusters), lo, hi, pred>> \in L!Calls(Len(sw.clusters))
<1>1. PICK n : n = Len(sw.clusters) /\ n \in Nat \ {0}
    BY LenProperties, EmptySeq DEF IsSplitting
<1>2. PICK i \in 1 .. n, j \in 1 .. n : i = 1 /\ j = n /\ i <= j
    BY <1>1
<1>3. <<i, j, lo, hi, pred>> \in L!Calls(n)
    BY <1>2 DEF L!Calls
<1>4. QED  BY <1>1, <1>2, <1>3

(* Induction over the size of a range of clusters: what holds of one cluster, *)
(* and of a range when it holds of both halves, holds of every range.         *)
LEMMA RangeInduction ==
    ASSUME NEW X, NEW sw, IsSplitting(X, sw), NEW Z,
           \A c \in L!Calls(Len(sw.clusters)) :
              c[1] = c[2] \/ (LeftCall(sw, c) \in Z /\ RightCall(sw, c) \in Z) => c \in Z
    PROVE  L!Calls(Len(sw.clusters)) \subseteq Z
<1> DEFINE n == Len(sw.clusters)
           C == L!Calls(n)
           T == {m \in Nat : \A c \in C : c[2] - c[1] <= m => c \in Z}
<1>1. n \in Nat
    BY LenProperties DEF IsSplitting
<1>2. \A c \in C : c[1] \in 1 .. n /\ c[2] \in 1 .. n /\ c[1] <= c[2]
    BY DEF L!Calls
<1>3. \A c \in C : c[1] = c[2] \/ (LeftCall(sw, c) \in Z /\ RightCall(sw, c) \in Z) => c \in Z
    OBVIOUS
<1>4. ASSUME NEW c \in C, c[1] # c[2]
      PROVE  /\ LeftCall(sw, c) \in C /\ RightCall(sw, c) \in C
             /\ LeftCall(sw, c)[2] - LeftCall(sw, c)[1] < c[2] - c[1]
             /\ RightCall(sw, c)[2] - RightCall(sw, c)[1] < c[2] - c[1]
    BY <1>4, CallsShrink
<1> HIDE DEF n, C
<1>5. 0 \in T
    <2>1. \A c \in C : c[2] - c[1] <= 0 => c[1] = c[2]
        BY <1>1, <1>2
    <2>2. QED  BY <1>3, <2>1
<1>6. ASSUME NEW m \in Nat, m \in T PROVE m + 1 \in T
    <2> SUFFICES ASSUME NEW c \in C, c[2] - c[1] <= m + 1, c[1] # c[2] PROVE c \in Z
        BY <1>3
    <2>1. PICK l \in C, r \in C : /\ l = LeftCall(sw, c) /\ r = RightCall(sw, c)
                                  /\ l[2] - l[1] < c[2] - c[1] /\ r[2] - r[1] < c[2] - c[1]
        BY <1>4
    <2>2. l[2] - l[1] <= m /\ r[2] - r[1] <= m
        BY <1>1, <1>2, <2>1
    <2>3. l \in Z /\ r \in Z
        BY <1>6, <2>2
    <2>4. QED  BY <1>3, <2>1, <2>3
<1> HIDE DEF T
<1>7. n \in T
    BY <1>1, <1>5, <1>6, NatSetInduction
<1>8. \A c \in C : c[2] - c[1] <= n
    BY <1>1, <1>2
<1>9. QED  BY <1>7, <1>8 DEF T, C, n

(* The blocks that are built for a switch form a tree that leads to its     *)
(* destinations, whatever the clusters are.                                 *)
LEMMA TreesAre ==
    ASSUME NEW X, NEW sw, IsSplitting(X, sw), NEW h, IsConversion(sw, h)
    PROVE  \A c \in L!Calls(Len(sw.clusters)) : IsTree(X, sw.newDefault, h[c])
<1> DEFINE n == Len(sw.clusters)
           C == L!Calls(n)
           d == sw.newDefault
           Z == {c \in C : IsTree(X, d, h[c])}
<1>1. n \in Nat \ {0} /\ \A i \in 1 .. n : sw.clusters[i] \in Cluster(X)
    BY LenProperties, EmptySeq, ElementOfSeq DEF IsSplitting
<1>2. ASSUME NEW c \in C PROVE c[1] \in 1 .. n /\ c[2] \in 1 .. n /\ c[1] <= c[2]
    BY DEF L!Calls
<1>3. ASSUME NEW c \in C, c[1] = c[2] PROVE c \in Z
    <2>1. c[1] \in 1 .. n
        BY <1>2
    <2>2. h[c] = IF c[3] = {sw.clusters[c[1]].low} /\ c[4] = {sw.clusters[c[1]].high}
                    THEN L!Known(sw.clusters[c[1]], c[5]) ELSE L!Leaf(sw, c[1])
        BY <1>3, ConvertedIs DEF IsConversion
    <2>3. PICK i, q : i \in 1 .. n /\ i = c[1] /\ q = c[5]
        BY <2>1
    <2>4. IsTree(X, d, L!Known(sw.clusters[i], q)) /\ IsTree(X, d, L!Leaf(sw, i))
        BY <1>1, <2>3, KnownIsTree, LeafIsTree
    <2>5. QED  BY <2>2, <2>3, <2>4
<1>4. ASSUME NEW c \in C, c[1] # c[2], LeftCall(sw, c) \in Z, RightCall(sw, c) \in Z
      PROVE  c \in Z
    <2>1. NumberOf(sw, c) \in Nat /\ NumberOf(sw, c) > d
        <3>1. c[1] \in Nat /\ c[2] \in Nat /\ c[1] # 0 /\ c[1] <= c[2] /\ d \in Nat
            BY <1>1, <1>2 DEF IsSplitting
        <3>2. PICK w \in Nat : w = (c[2] - c[1] + 1) \div 2
            BY <3>1
        <3>3. NumberOf(sw, c) = d + n + (c[1] + w)
            BY <3>2 DEF NumberOf, Mid
        <3>4. PICK e \in Nat, k \in Nat \ {0}, a \in Nat : e = d /\ k = n /\ a = c[1] + w
            BY <1>1, <3>1
        <3>5. NumberOf(sw, c) = e + k + a
            BY <3>3, <3>4
        <3>6. e + k + a \in Nat /\ e + k + a > e
            OBVIOUS
        <3>7. QED  BY <3>4, <3>5, <3>6
    <2>2. PICK left, right : left = h[LeftCall(sw, c)] /\ right = h[RightCall(sw, c)]
        OBVIOUS
    <2>3. h[c] = Tree(sw, c, left, right)
        BY <1>4, <2>2, ConvertedIs DEF IsConversion
    <2>4. QED  BY <1>4, <2>1, <2>2, <2>3, TreeIsTree
<1>5. C \subseteq Z
    <2> HIDE DEF Z
    <2>1. QED  BY <1>3, <1>4, RangeInduction
<1>6. QED  BY <1>5

LEMMA ConvertsToTree ==
    ASSUME NEW X, NEW sw, IsSplitting(X, sw), NEW lo \in SUBSET Int, NEW hi \in SUBSET Int,
           NEW pred \in Nat
    PROVE  IsTree(X, sw.newDefault, L!SwitchConvert(sw, lo, hi, pred))
<1>1. PICK h : IsConversion(sw, h) /\ L!SwitchConvert(sw, lo, hi, pred)
                                          = h[<<1, Len(sw.clusters), lo, hi, pred>>]
    BY ConversionIs
<1>2. QED  BY <1>1, FirstCall, TreesAre

-----------------------------------------------------------------------------
(* The test of a leaf finds the words of its range, whatever comparison it   *)
(* makes (lines 305-329): the signed one suffices at the smallest word, and   *)
(* the unsigned ones have negative words come last.                         *)
LEMMA LowerPowers ==
    /\ L!Word \in Nat \ {0} /\ \E half \in Nat \ {0} :
          L!Word = half + half /\ L!Smallest = -half /\ L!Values = -half .. half - 1
<1>1. L!Pow2 = Pow2
    BY DEF L!Pow2, Pow2
<1>2. Bits - 1 \in Nat /\ (Bits - 1) + 1 = Bits
    BY WidthAssumption
<1>3. Pow2[Bits - 1] \in Nat \ {0} /\ Pow2[Bits] = 2 * Pow2[Bits - 1]
    BY <1>2, Powers
<1>4. QED  BY <1>1, <1>3 DEF L!Word, L!Smallest, L!Values

LEMMA WithinIs ==
    ASSUME NEW v \in L!Values, NEW low \in L!Values, NEW high \in L!Values, low <= high
    PROVE  L!Within(v, low, high) <=> low <= v /\ v <= high
<1>1. PICK half \in Nat \ {0}, w \in Nat \ {0} :
          w = L!Word /\ w = half + half /\ L!Smallest = -half /\ L!Values = -half .. half - 1
    BY LowerPowers
<1>2. /\ v \in Int /\ low \in Int /\ high \in Int
      /\ -half <= v /\ v < half /\ -half <= low /\ high < half
    BY <1>1
<1>3. ASSUME NEW x \in Int, -w <= x, x < w
      PROVE  L!Unsigned(x) = IF 0 <= x THEN x ELSE x + w
    <2>1. PICK k \in Int, r \in Int : /\ r = IF 0 <= x THEN x ELSE x + w
                                      /\ k = IF 0 <= x THEN 0 ELSE -1
        OBVIOUS
    <2>2. r \in 0 .. w - 1 /\ x = r + k * w
        BY <1>3, <2>1
    <2>3. x % w = r % w
        BY <2>2, SameRemainder
    <2>4. (0 * w + r) % w = r
        BY <2>2, Remainder
    <2>5. r % w = r
        BY <2>2, <2>4
    <2>6. QED  BY <1>1, <2>1, <2>3, <2>5 DEF L!Unsigned
<1>4. CASE low = high
    BY <1>2, <1>4 DEF L!Within
<1>5. CASE low # high /\ low = -half
    BY <1>1, <1>2, <1>5 DEF L!Within
<1>6. CASE low # high /\ low # -half /\ low = 0
    <2>1. L!Within(v, low, high) <=> L!Unsigned(v) <= L!Unsigned(high)
        BY <1>1, <1>6 DEF L!Within
    <2>2. -w <= v /\ v < w /\ -w <= high /\ high < w /\ 0 <= high
        BY <1>1, <1>2, <1>6
    <2>3. L!Unsigned(v) = (IF 0 <= v THEN v ELSE v + w) /\ L!Unsigned(high) = high
        BY <1>2, <1>3, <2>2
    <2>4. QED  BY <1>1, <1>2, <1>6, <2>1, <2>3
<1>7. CASE low # high /\ low # -half /\ low # 0
    <2>1. L!Within(v, low, high) <=> L!Unsigned(v - low) <= L!Unsigned(high - low)
        BY <1>1, <1>7 DEF L!Within
    <2>2. PICK a \in Int, c \in Int : a = v - low /\ c = high - low
        BY <1>2
    <2>3. -w <= a /\ a < w /\ -w <= c /\ c < w /\ 0 <= c
        BY <1>1, <1>2, <2>2
    <2>4. L!Unsigned(a) = (IF 0 <= a THEN a ELSE a + w) /\ L!Unsigned(c) = c
        BY <1>3, <2>3
    <2>5. QED  BY <1>1, <1>2, <2>1, <2>2, <2>4
<1>8. QED  BY <1>4, <1>5, <1>6, <1>7

(* Where a terminator of the tree, or a jump, leads the value.                *)
NextOn(u, v) ==
    u.to[IF \/ u.cond = "below" /\ ~(v < u.low)
            \/ u.cond = "within" /\ ~L!Within(v, u.low, u.high) THEN 2 ELSE 1]

(* It is where a run goes.                                                  *)
LEMMA NextIsRun ==
    ASSUME Term.cond \in {"none", "below", "within"}, Term.orig = 0, Term.sets = << >>,
           NEW A, Term.to \in Seq(A), Len(Term.to) = IF Term.cond = "none" THEN 1 ELSE 2
    PROVE  \E way : Ways = {way} /\ Target(way) = NextOn(Term, value)
<1>1. PICK t, v : t = Term /\ v = value
    OBVIOUS
<1>2. DOMAIN t.to = 1 .. Len(t.to) /\ t.to # << >> /\ Len(t.sets) <= 1
    <2>1. DOMAIN t.to = 1 .. Len(t.to) /\ Len(t.to) \in {1, 2}
        BY <1>1, LenProperties
    <2>2. Len(<< >>) = 0
        OBVIOUS
    <2>3. QED  BY <1>1, <2>1, <2>2
<1>3. ASSUME NEW way, way \in {1, 2}, Len(t.to) = 2 \/ way = 1
      PROVE  Target(way) = t.to[way]
    BY <1>1, <1>2, <1>3 DEF Target, Exit
<1>4. CASE t.cond = "none"
    <2>1. Ways = {1}
        BY <1>1, <1>2, <1>4 DEF Ways
    <2>2. QED  BY <1>1, <1>3, <1>4, <2>1 DEF NextOn
<1>5. CASE t.cond = "below"
    <2>1. PICK w : w = (IF v < t.low THEN 1 ELSE 2) /\ w \in {1, 2}
        OBVIOUS
    <2>2. Ways = {w}
        BY <1>1, <1>5, <2>1 DEF Ways
    <2>3. NextOn(t, v) = t.to[w]
        BY <1>5, <2>1 DEF NextOn
    <2>4. QED  BY <1>1, <1>3, <1>5, <2>1, <2>2, <2>3
<1>6. CASE t.cond = "within"
    <2>1. PICK w : w = (IF L!Within(v, t.low, t.high) THEN 1 ELSE 2) /\ w \in {1, 2}
        OBVIOUS
    <2>2. Ways = {w}
        BY <1>1, <1>6, <2>1 DEF Ways
    <2>3. NextOn(t, v) = t.to[w]
        BY <1>6, <2>1 DEF NextOn
    <2>4. QED  BY <1>1, <1>3, <1>6, <2>1, <2>2, <2>3
<1>7. QED  BY <1>1, <1>4, <1>5, <1>6

(* The tests of the tree lead the value to y: y is in every set that has the  *)
(* root and, with a block of the tree, the one its test leads to.            *)
Sends(tree, v, y) ==
    \A Z : /\ tree.root \in Z
           /\ \A n \in ToSet(tree.blocks) : n.block \in Z => NextOn(n.term, v) \in Z
           => y \in Z

(* The clusters are disjoint ranges of words, in order.                     *)
AreRanges(cs) ==
    /\ \A i \in 1 .. Len(cs) : cs[i].low \in L!Values /\ cs[i].high \in L!Values
                               /\ cs[i].low <= cs[i].high
    /\ \A i, j \in 1 .. Len(cs) : i < j => cs[i].high < cs[j].low

HasValue(c, v) == c.low <= v /\ v <= c.high

(* Where a value belongs by the clusters from i to j.                       *)
IsHome(sw, i, j, v, y) ==
    \/ \E k \in i .. j : HasValue(sw.clusters[k], v) /\ y = sw.clusters[k].to
    \/ y = sw.newDefault /\ \A k \in i .. j : ~HasValue(sw.clusters[k], v)

(* What the bounds say of the value.                                        *)
Bounds(lo, hi, v) == (\A x \in lo : x <= v) /\ (\A x \in hi : v <= x)

LEMMA KnownSends ==
    ASSUME NEW sw, NEW i \in Int, NEW v, NEW y, IsHome(sw, i, i, v, y), NEW pred,
           Bounds({sw.clusters[i].low}, {sw.clusters[i].high}, v)
    PROVE  Sends(L!Known(sw.clusters[i], pred), v, y)
<1>1. HasValue(sw.clusters[i], v)
    BY DEF Bounds, HasValue
<1>2. \A k \in i .. i : k = i
    OBVIOUS
<1>3. i \in i .. i
    OBVIOUS
<1>4. y = sw.clusters[i].to
    BY <1>1, <1>2, <1>3 DEF IsHome
<1>5. QED  BY <1>4 DEF Sends, L!Known

LEMMA LeafSends ==
    ASSUME NEW sw, NEW i \in 1 .. Len(sw.clusters), Len(sw.clusters) \in Nat,
           AreRanges(sw.clusters), NEW v \in L!Values, NEW y, IsHome(sw, i, i, v, y)
    PROVE  Sends(L!Leaf(sw, i), v, y)
<1> DEFINE c == sw.clusters[i]
           tr == L!Leaf(sw, i)
           n == sw.newDefault + i
<1>1. L!Within(v, c.low, c.high) <=> HasValue(c, v)
    BY WithinIs DEF AreRanges, HasValue
<1>2. (\A k \in i .. i : k = i) /\ i \in i .. i
    OBVIOUS
<1>3. y = IF HasValue(c, v) THEN c.to ELSE sw.newDefault
    BY <1>2 DEF IsHome
<1>4. PICK e : /\ tr.root = n /\ tr.blocks = <<e>> /\ e.block = n
               /\ e.term.to = <<c.to, sw.newDefault>> /\ e.term.cond = "within"
               /\ e.term.low = c.low /\ e.term.high = c.high
    BY DEF L!Leaf
<1>5. NextOn(e.term, v) = y
    BY <1>1, <1>3, <1>4 DEF NextOn
<1>6. ToSet(tr.blocks) = {e}
    BY <1>4 DEF ToSet
<1> HIDE DEF tr
<1>7. QED  BY <1>4, <1>5, <1>6 DEF Sends, tr

LEMMA TreeSends ==
    ASSUME NEW sw, NEW c, NEW left, NEW right, NEW v \in Int, NEW y,
           NEW A, left.blocks \in Seq(A), right.blocks \in Seq(A),
           sw.clusters[Mid(c)].low \in Int,
           v < sw.clusters[Mid(c)].low => Sends(left, v, y),
           ~(v < sw.clusters[Mid(c)].low) => Sends(right, v, y)
    PROVE  Sends(Tree(sw, c, left, right), v, y)
<1> DEFINE tr == Tree(sw, c, left, right)
           n == NumberOf(sw, c)
           pivot == sw.clusters[Mid(c)].low
           e == L!Node(n, pivot, left, right)
           T == A \cup {e}
<1>1. /\ tr.root = n /\ tr.blocks = left.blocks \o right.blocks \o <<e>>
      /\ e.block = n /\ e.term.to = <<left.root, right.root>> /\ e.term.cond = "below"
      /\ e.term.low = pivot
    BY DEF Tree, L!Node
<1>2. NextOn(e.term, v) = IF v < pivot THEN left.root ELSE right.root
    BY <1>1 DEF NextOn
<1> HIDE DEF tr, e, n
<1>3. ToSet(tr.blocks) = ToSet(left.blocks) \cup ToSet(right.blocks) \cup {e}
    <2>1. A \subseteq T
        OBVIOUS
    <2>2. left.blocks \in Seq(T) /\ right.blocks \in Seq(T)
        BY <2>1, SeqGrows
    <2>3. <<e>> \in Seq(T) /\ ToSet(<<e>>) = {e}
        BY DEF ToSet
    <2> HIDE DEF T
    <2>4. PICK lr : /\ lr = left.blocks \o right.blocks /\ lr \in Seq(T)
                    /\ ToSet(lr) = ToSet(left.blocks) \cup ToSet(right.blocks)
        BY <2>2, SetOfConcat
    <2>5. PICK s \in Seq(T) : s = <<e>> /\ ToSet(s) = {e}
        BY <2>3
    <2>6. lr \in Seq(T)
        BY <2>4
    <2>7. lr \o s \in Seq(T) /\ ToSet(lr \o s) = ToSet(lr) \cup ToSet(s)
        BY <2>5, <2>6, SetOfConcat
    <2>8. QED  BY <1>1, <2>4, <2>5, <2>7
<1>4. SUFFICES ASSUME NEW Z, tr.root \in Z,
                      \A m \in ToSet(tr.blocks) : m.block \in Z => NextOn(m.term, v) \in Z
               PROVE  y \in Z
    BY DEF Sends, tr
<1>5. NextOn(e.term, v) \in Z
    BY <1>1, <1>3, <1>4
<1>6. CASE v < pivot
    BY <1>2, <1>3, <1>4, <1>5, <1>6 DEF Sends
<1>7. CASE ~(v < pivot)
    BY <1>2, <1>3, <1>4, <1>5, <1>7 DEF Sends
<1>8. QED  BY <1>6, <1>7

(* Every call sends the values it is for home.                                *)
SendsHome(sw, h, c) ==
    \A v \in sw.reachable : Bounds(c[3], c[4], v) =>
        \A y : IsHome(sw, c[1], c[2], v, y) => Sends(h[c], v, y)

LEMMA HalvesSend ==
    ASSUME NEW X, NEW sw, IsSplitting(X, sw), AreRanges(sw.clusters),
           sw.reachable \subseteq L!Values, NEW h, IsConversion(sw, h),
           NEW c \in L!Calls(Len(sw.clusters)), c[1] # c[2],
           SendsHome(sw, h, LeftCall(sw, c)), SendsHome(sw, h, RightCall(sw, c))
    PROVE  SendsHome(sw, h, c)
<1> DEFINE n == Len(sw.clusters)
           l == LeftCall(sw, c)
           r == RightCall(sw, c)
           cs == sw.clusters
<1>1. SUFFICES ASSUME NEW v \in sw.reachable, Bounds(c[3], c[4], v),
                      NEW y, IsHome(sw, c[1], c[2], v, y)
               PROVE  Sends(h[c], v, y)
    BY DEF SendsHome
<1>2. v \in Int
    <2>1. L!Values \subseteq Int
        BY LowerPowers
    <2>2. QED  BY <2>1
<1>3. PICK i \in 1 .. n, j \in 1 .. n, mid \in 1 .. n :
          /\ n \in Nat /\ i = c[1] /\ j = c[2] /\ mid = Mid(c)
          /\ i < mid /\ mid <= j /\ mid - 1 \in 1 .. n
    <2>1. n \in Nat /\ c[1] \in 1 .. n /\ c[2] \in 1 .. n /\ c[1] < c[2]
        <3>1. n \in Nat /\ c[1] \in 1 .. n /\ c[2] \in 1 .. n /\ c[1] <= c[2]
            BY LenProperties DEF IsSplitting, L!Calls
        <3>2. QED  BY <3>1
    <2>2. PICK a \in 1 .. n, b \in 1 .. n : a = c[1] /\ b = c[2] /\ a < b
        BY <2>1
    <2>3. PICK w \in Nat : w = (b - a + 1) \div 2 /\ 1 <= w /\ w <= b - a
        BY <2>1, <2>2
    <2>4. a + w \in 1 .. n /\ a < a + w /\ a + w <= b /\ (a + w) - 1 \in 1 .. n
        <3>1. PICK m \in Nat : m = n
            BY <2>1
        <3>2. a \in Nat /\ 1 <= a /\ b \in Nat /\ b <= m
            BY <3>1
        <3>3. a + w \in 1 .. m /\ a < a + w /\ a + w <= b /\ (a + w) - 1 \in 1 .. m
            BY <2>3, <3>2
        <3>4. QED  BY <3>1, <3>3
    <2>5. Mid(c) = a + w
        BY <2>2, <2>3 DEF Mid
    <2>6. QED  BY <2>1, <2>2, <2>4, <2>5
<1>4. PICK pivot \in Int, below \in Int : pivot = cs[mid].low /\ below = cs[mid - 1].high
    <2>1. cs[mid].low \in L!Values /\ cs[mid - 1].high \in L!Values
        BY <1>3 DEF AreRanges
    <2>2. L!Values \subseteq Int
        BY LowerPowers
    <2>3. QED  BY <2>1, <2>2
<1>5. \A k \in 1 .. n : cs[k].low \in Int /\ cs[k].high \in Int /\ cs[k].low <= cs[k].high
    <2>1. L!Values \subseteq Int
        BY LowerPowers
    <2>2. QED  BY <2>1 DEF AreRanges
<1>6. ASSUME NEW k \in mid .. j, v < pivot PROVE ~HasValue(cs[k], v)
    <2>1. k \in 1 .. n /\ (k = mid \/ mid < k)
        BY <1>3
    <2>2. pivot <= cs[k].low
        <3>1. k = mid => pivot <= cs[k].low
            BY <1>4
        <3>2. mid < k => cs[mid].high < cs[k].low
            BY <1>3, <2>1 DEF AreRanges
        <3>3. QED  BY <1>3, <1>4, <1>5, <2>1, <3>1, <3>2
    <2>3. QED  BY <1>2, <1>4, <1>5, <1>6, <2>1, <2>2 DEF HasValue
<1>7. ASSUME NEW k \in i .. mid - 1, ~(v < pivot) PROVE ~HasValue(cs[k], v)
    <2>1. k \in 1 .. n /\ k < mid
        BY <1>3
    <2>2. cs[k].high < pivot
        BY <1>3, <1>4, <2>1 DEF AreRanges
    <2>3. QED  BY <1>2, <1>4, <1>5, <1>7, <2>1, <2>2 DEF HasValue
<1>8. ASSUME v < pivot PROVE Sends(h[l], v, y)
    <2>1. PICK u \in Int : u = IF (below + 1 .. pivot - 1) \cap sw.reachable = {}
                                  THEN below ELSE pivot - 1
        BY <1>4
    <2>2. l[1] = i /\ l[2] = mid - 1 /\ l[3] = c[3] /\ l[4] = {u}
        BY <1>3, <1>4, <2>1 DEF LeftCall
    <2>3. v <= u
        <3>1. CASE (below + 1 .. pivot - 1) \cap sw.reachable = {}
            <4>1. v \notin below + 1 .. pivot - 1
                BY <3>1
            <4>2. QED  BY <1>2, <1>4, <1>8, <2>1, <3>1, <4>1
        <3>2. CASE (below + 1 .. pivot - 1) \cap sw.reachable # {}
            BY <1>2, <1>4, <1>8, <2>1, <3>2
        <3>3. QED  BY <3>1, <3>2
    <2>4. Bounds(l[3], l[4], v)
        BY <1>1, <2>2, <2>3 DEF Bounds
    <2>5. i .. mid - 1 \subseteq i .. j /\ \A k \in i .. j : k \in i .. mid - 1 \/ k \in mid .. j
        BY <1>3
    <2>6. IsHome(sw, l[1], l[2], v, y)
        BY <1>1, <1>3, <1>6, <1>8, <2>2, <2>5 DEF IsHome
    <2>7. QED  BY <2>4, <2>6 DEF SendsHome
<1>9. ASSUME ~(v < pivot) PROVE Sends(h[r], v, y)
    <2>1. r[1] = mid /\ r[2] = j /\ r[3] = {pivot} /\ r[4] = c[4]
        BY <1>3, <1>4 DEF RightCall
    <2>2. Bounds(r[3], r[4], v)
        BY <1>1, <1>2, <1>4, <1>9, <2>1 DEF Bounds
    <2>3. mid .. j \subseteq i .. j /\ \A k \in i .. j : k \in i .. mid - 1 \/ k \in mid .. j
        BY <1>3
    <2>4. IsHome(sw, r[1], r[2], v, y)
        BY <1>1, <1>3, <1>7, <1>9, <2>1, <2>3 DEF IsHome
    <2>5. QED  BY <2>2, <2>4 DEF SendsHome
<1>10. PICK left, right : left = h[l] /\ right = h[r]
    OBVIOUS
<1>11. h[c] = Tree(sw, c, left, right)
    BY <1>10, ConvertedIs DEF IsConversion
<1>12. IsTree(X, sw.newDefault, left) /\ IsTree(X, sw.newDefault, right)
    <2>1. l \in L!Calls(n) /\ r \in L!Calls(n)
        BY CallsShrink
    <2>2. QED  BY <1>10, <2>1, TreesAre
<1>13. PICK A : left.blocks \in Seq(A) /\ right.blocks \in Seq(A)
    <2>1. PICK A, B1, B2 : /\ B1 = ToSet(left.blocks) /\ B2 = ToSet(right.blocks)
                           /\ A = B1 \cup B2
        OBVIOUS
    <2>2. left.blocks \in Seq(B1) /\ right.blocks \in Seq(B2)
        BY <1>12, <2>1 DEF IsTree
    <2>3. B1 \subseteq A /\ B2 \subseteq A
        BY <2>1
    <2>4. left.blocks \in Seq(A) /\ right.blocks \in Seq(A)
        BY <2>2, <2>3, SeqGrows
    <2>5. QED  BY <2>4
<1> HIDE DEF l, r
<1>14. QED  BY <1>2, <1>3, <1>4, <1>8, <1>9, <1>10, <1>11, <1>13, TreeSends

LEMMA ConversionSends ==
    ASSUME NEW X, NEW sw, IsSplitting(X, sw), AreRanges(sw.clusters),
           sw.reachable \subseteq L!Values, NEW lo \in SUBSET Int, NEW hi \in SUBSET Int,
           NEW pred \in Nat, NEW v \in sw.reachable, Bounds(lo, hi, v),
           NEW y, IsHome(sw, 1, Len(sw.clusters), v, y)
    PROVE  Sends(L!SwitchConvert(sw, lo, hi, pred), v, y)
<1> DEFINE n == Len(sw.clusters)
           C == L!Calls(n)
<1>1. PICK h : IsConversion(sw, h)
               /\ L!SwitchConvert(sw, lo, hi, pred) = h[<<1, n, lo, hi, pred>>]
    BY ConversionIs
<1>2. n \in Nat
    BY LenProperties DEF IsSplitting
<1> DEFINE Z == {c \in C : SendsHome(sw, h, c)}
<1>3. ASSUME NEW c \in C, c[1] = c[2] PROVE c \in Z
    <2>1. PICK i, q : i \in 1 .. n /\ i = c[1] /\ i = c[2] /\ q = c[5]
        BY <1>3 DEF L!Calls
    <2>2. h[c] = IF c[3] = {sw.clusters[i].low} /\ c[4] = {sw.clusters[i].high}
                    THEN L!Known(sw.clusters[i], q) ELSE L!Leaf(sw, i)
        BY <1>1, <1>3, <2>1, ConvertedIs DEF IsConversion
    <2>3. ASSUME NEW w \in sw.reachable, Bounds(c[3], c[4], w), NEW z, IsHome(sw, i, i, w, z)
          PROVE  Sends(h[c], w, z)
        <3>1. w \in L!Values /\ i \in Int
            BY <1>2, <2>1
        <3>2. CASE c[3] = {sw.clusters[i].low} /\ c[4] = {sw.clusters[i].high}
            <4>1. Sends(L!Known(sw.clusters[i], q), w, z)
                BY <2>3, <3>1, <3>2, KnownSends
            <4>2. QED  BY <2>2, <3>2, <4>1
        <3>3. CASE ~(c[3] = {sw.clusters[i].low} /\ c[4] = {sw.clusters[i].high})
            <4>1. Sends(L!Leaf(sw, i), w, z)
                BY <1>2, <2>1, <2>3, <3>1, LeafSends
            <4>2. QED  BY <2>2, <3>3, <4>1
        <3>4. QED  BY <3>2, <3>3
    <2>4. QED  BY <2>1, <2>3 DEF SendsHome
<1>4. ASSUME NEW c \in C, c[1] # c[2], LeftCall(sw, c) \in Z, RightCall(sw, c) \in Z
      PROVE  c \in Z
    BY <1>1, <1>4, HalvesSend
<1>5. C \subseteq Z
    <2> HIDE DEF Z
    <2>1. QED  BY <1>3, <1>4, RangeInduction
<1>6. PICK c : c = <<1, n, lo, hi, pred>> /\ c \in C
    BY FirstCall
<1>7. SendsHome(sw, h, c)
    BY <1>5, <1>6
<1>8. c[1] = 1 /\ c[2] = n /\ c[3] = lo /\ c[4] = hi
    BY <1>6
<1>9. QED  BY <1>1, <1>6, <1>7, <1>8 DEF SendsHome

(* No two blocks of a tree have a number in common: those of the leaves and   *)
(* the tests of a range follow its clusters.                                *)
NumbersFrom(sw, i, j) ==
    {sw.newDefault + k : k \in i .. j}
        \cup {sw.newDefault + Len(sw.clusters) + k : k \in i + 1 .. j}

IsNumbered(tr, A) ==
    /\ NumbersOf(tr) \subseteq A
    /\ \A x, y \in ToSet(tr.blocks) : x.block = y.block => x = y

LEMMA TreeIsNumbered ==
    ASSUME NEW X, NEW sw, NEW c, NEW d,
           NEW left, IsTree(X, d, left), NEW right, IsTree(X, d, right),
           NEW A, NEW B1, NEW C, IsNumbered(left, A), IsNumbered(right, B1),
           A \cup B1 \cup {NumberOf(sw, c)} \subseteq C,
           A \cap B1 = {}, NumberOf(sw, c) \notin A \cup B1
    PROVE  IsNumbered(Tree(sw, c, left, right), C)
<1> DEFINE tr == Tree(sw, c, left, right)
           n == NumberOf(sw, c)
           e == L!Node(n, sw.clusters[Mid(c)].low, left, right)
           T == ToSet(left.blocks) \cup ToSet(right.blocks) \cup {e}
<1>1. tr.blocks = left.blocks \o right.blocks \o <<e>> /\ e.block = n
    BY DEF Tree, L!Node
<1> HIDE DEF tr, e, n
<1>2. ToSet(tr.blocks) = T
    <2>1. left.blocks \in Seq(ToSet(left.blocks)) /\ right.blocks \in Seq(ToSet(right.blocks))
        BY DEF IsTree
    <2>2. ToSet(left.blocks) \subseteq T /\ ToSet(right.blocks) \subseteq T /\ {e} \subseteq T
        OBVIOUS
    <2>3. left.blocks \in Seq(T) /\ right.blocks \in Seq(T)
        BY <2>1, <2>2, SeqGrows
    <2>4. <<e>> \in Seq(T) /\ ToSet(<<e>>) = {e}
        BY DEF ToSet
    <2> HIDE DEF T
    <2>5. PICK lr : /\ lr = left.blocks \o right.blocks /\ lr \in Seq(T)
                    /\ ToSet(lr) = ToSet(left.blocks) \cup ToSet(right.blocks)
        BY <2>3, SetOfConcat
    <2>6. PICK s \in Seq(T) : s = <<e>> /\ ToSet(s) = {e}
        BY <2>4
    <2>7. lr \in Seq(T)
        BY <2>5
    <2>8. lr \o s \in Seq(T) /\ ToSet(lr \o s) = ToSet(lr) \cup ToSet(s)
        BY <2>6, <2>7, SetOfConcat
    <2>9. QED  BY <1>1, <2>5, <2>6, <2>8 DEF T
<1>3. /\ \A x \in ToSet(left.blocks) : x.block \in A
      /\ \A x \in ToSet(right.blocks) : x.block \in B1
    BY DEF IsNumbered, NumbersOf
<1>4. n \notin A \cup B1 /\ n \in C
    BY DEF n
<1>5. \A x \in T : x.block \in C
    BY <1>1, <1>3, <1>4
<1>6. ASSUME NEW x \in T, NEW y \in T, x.block = y.block PROVE x = y
    BY <1>1, <1>3, <1>4, <1>6 DEF IsNumbered
<1>7. QED  BY <1>2, <1>5, <1>6 DEF IsNumbered, NumbersOf, tr

LEMMA ConversionIsNumbered ==
    ASSUME NEW X, NEW sw, IsSplitting(X, sw), NEW lo \in SUBSET Int, NEW hi \in SUBSET Int,
           NEW pred \in Nat
    PROVE  \E A : IsNumbered(L!SwitchConvert(sw, lo, hi, pred), A)
<1> DEFINE n == Len(sw.clusters)
           C == L!Calls(n)
<1>1. PICK h : IsConversion(sw, h)
               /\ L!SwitchConvert(sw, lo, hi, pred) = h[<<1, n, lo, hi, pred>>]
    BY ConversionIs
<1>2. PICK d \in Nat, m \in Nat : d = sw.newDefault /\ m = n
    BY LenProperties DEF IsSplitting
<1> DEFINE Z == {c \in C : IsNumbered(h[c], NumbersFrom(sw, c[1], c[2]))}
<1>3. ASSUME NEW c \in C, c[1] = c[2] PROVE c \in Z
    <2>1. PICK i, q : i \in 1 .. n /\ i = c[1] /\ i = c[2] /\ q = c[5]
        BY <1>3 DEF L!Calls
    <2>2. \/ h[c] = L!Known(sw.clusters[i], q)
          \/ h[c] = L!Leaf(sw, i)
        BY <1>1, <1>3, <2>1, ConvertedIs DEF IsConversion
    <2>3. CASE h[c] = L!Known(sw.clusters[i], q)
        <3>1. ToSet(h[c].blocks) = {}
            BY <2>3 DEF L!Known, ToSet
        <3>2. QED  BY <2>1, <3>1 DEF IsNumbered, NumbersOf
    <2>4. CASE h[c] = L!Leaf(sw, i)
        <3>1. PICK e : h[c].blocks = <<e>> /\ e.block = sw.newDefault + i
            BY <2>4 DEF L!Leaf
        <3>2. ToSet(h[c].blocks) = {e}
            BY <3>1 DEF ToSet
        <3>3. i \in i .. i
            BY <1>2, <2>1
        <3>4. e.block \in NumbersFrom(sw, i, i)
            BY <3>1, <3>3 DEF NumbersFrom
        <3>5. QED  BY <2>1, <3>2, <3>4 DEF IsNumbered, NumbersOf
    <2>5. QED  BY <2>2, <2>3, <2>4
<1>4. ASSUME NEW c \in C, c[1] # c[2], LeftCall(sw, c) \in Z, RightCall(sw, c) \in Z
      PROVE  c \in Z
    <2>1. PICK left, right : left = h[LeftCall(sw, c)] /\ right = h[RightCall(sw, c)]
        OBVIOUS
    <2>2. h[c] = Tree(sw, c, left, right)
        BY <1>1, <1>4, <2>1, ConvertedIs DEF IsConversion
    <2>3. IsTree(X, d, left) /\ IsTree(X, d, right)
        BY <1>1, <1>2, <1>4, <2>1, TreesAre
    <2>4. PICK i \in 1 .. m, j \in 1 .. m : i = c[1] /\ j = c[2] /\ i < j
        <3>1. c[1] \in 1 .. m /\ c[2] \in 1 .. m /\ c[1] <= c[2]
            BY <1>2 DEF L!Calls
        <3>2. QED  BY <1>4, <3>1
    <2>5. PICK mid \in Nat : mid = Mid(c) /\ i < mid /\ mid <= j
        <3>1. PICK w \in Nat : w = (j - i + 1) \div 2 /\ 1 <= w /\ w <= j - i
            BY <2>4
        <3>2. Mid(c) = i + w
            BY <2>4, <3>1 DEF Mid
        <3>3. i + w \in Nat /\ i < i + w /\ i + w <= j
            BY <2>4, <3>1
        <3>4. QED  BY <3>2, <3>3
    <2>6. PICK A, B1, D : /\ A = NumbersFrom(sw, i, mid - 1) /\ B1 = NumbersFrom(sw, mid, j)
                          /\ D = NumbersFrom(sw, i, j)
        OBVIOUS
    <2>7. IsNumbered(left, A) /\ IsNumbered(right, B1)
        BY <1>4, <2>1, <2>4, <2>5, <2>6 DEF LeftCall, RightCall
    <2>8. NumberOf(sw, c) = d + m + mid
        BY <1>2, <2>5 DEF NumberOf
    <2>9. /\ A = {d + k : k \in i .. mid - 1} \cup {d + m + k : k \in i + 1 .. mid - 1}
          /\ B1 = {d + k : k \in mid .. j} \cup {d + m + k : k \in mid + 1 .. j}
          /\ D = {d + k : k \in i .. j} \cup {d + m + k : k \in i + 1 .. j}
        BY <1>2, <2>6 DEF NumbersFrom
    <2>10. A \cup B1 \cup {d + m + mid} \subseteq D
        BY <2>4, <2>5, <2>9
    <2>11. A \cap B1 = {}
        BY <2>4, <2>5, <2>9
    <2>12. d + m + mid \notin A \cup B1
        BY <2>4, <2>5, <2>9
    <2>13. IsNumbered(h[c], D)
        BY <2>2, <2>3, <2>7, <2>8, <2>10, <2>11, <2>12, TreeIsNumbered
    <2>14. QED  BY <2>4, <2>6, <2>13
<1>5. C \subseteq Z
    <2> HIDE DEF Z
    <2>1. QED  BY <1>3, <1>4, RangeInduction
<1>6. <<1, n, lo, hi, pred>> \in C
    BY FirstCall
<1>7. QED  BY <1>1, <1>5, <1>6

(* The cases that are joined go home together.                                *)
LEMMA JoinedGoTogether ==
    ASSUME NEW t, ToSet(t.vals) \subseteq Int, NEW low \in ToSet(t.vals), NEW high \in Int,
           \A w \in low .. high - 1 : Joined(t, w)
    PROVE  \A v \in low .. high : v \in ToSet(t.vals) /\ HomeOf(t, v) = HomeOf(t, low)
<1> DEFINE T == {m \in Nat : low + m <= high =>
                    low + m \in ToSet(t.vals) /\ HomeOf(t, low + m) = HomeOf(t, low)}
<1>1. low \in Int
    OBVIOUS
<1>2. 0 \in T
    <2>1. low + 0 = low
        BY <1>1
    <2>2. QED  BY <2>1
<1>3. ASSUME NEW m \in Nat, m \in T PROVE m + 1 \in T
    <2>1. PICK w \in Int : w = low + m /\ w + 1 = low + (m + 1)
        BY <1>1
    <2>2. CASE w + 1 <= high
        <3>1. w <= high /\ w \in low .. high - 1
            BY <1>1, <2>1, <2>2
        <3>2. Joined(t, w) /\ HomeOf(t, w) = HomeOf(t, low)
            BY <1>3, <2>1, <3>1
        <3>3. w + 1 \in ToSet(t.vals) /\ HomeOf(t, w + 1) = HomeOf(t, low)
            BY <3>2 DEF Joined
        <3>4. QED  BY <2>1, <3>3
    <2>3. CASE ~(w + 1 <= high)
        BY <2>1, <2>3
    <2>4. QED  BY <2>2, <2>3
<1>4. Nat \subseteq T
    <2> HIDE DEF T
    <2>1. QED  BY <1>2, <1>3, NatSetInduction
<1>5. ASSUME NEW v \in low .. high PROVE v \in ToSet(t.vals) /\ HomeOf(t, v) = HomeOf(t, low)
    <2>1. PICK m \in Nat : m = v - low /\ low + m = v /\ v <= high
        BY <1>1
    <2>2. m \in T
        BY <1>4
    <2>3. QED  BY <2>1, <2>2
<1>6. QED  BY <1>5

(* A cluster ends with the first case that the next is not joined to.         *)
LEMMA EndIsFirst ==
    ASSUME NEW t, ToSet(t.vals) \subseteq Int, IsFiniteSet(ToSet(t.vals)),
           NEW low \in ToSet(t.vals), NEW high, high = Min(EndsFrom(t, low))
    PROVE  /\ high \in ToSet(t.vals) /\ low <= high /\ ~Joined(t, high)
           /\ \A w \in low .. high - 1 : Joined(t, w)
           /\ \A v \in low .. high : v \in ToSet(t.vals) /\ HomeOf(t, v) = HomeOf(t, low)
<1>1. PICK A : A = EndsFrom(t, low)
    OBVIOUS
<1>2. A \in SUBSET Int /\ IsFiniteSet(A)
    <2>1. A \subseteq ToSet(t.vals)
        BY <1>1 DEF EndsFrom
    <2>2. QED  BY <2>1, FS_Subset
<1>3. A # {}
    <2>1. PICK m \in ToSet(t.vals) : \A x \in ToSet(t.vals) : x <= m
        <3>1. PICK D : D = ToSet(t.vals) /\ D \in SUBSET Int /\ D # {} /\ IsFiniteSet(D)
            OBVIOUS
        <3>2. Max(D) \in D /\ \A x \in D : x <= Max(D)
            BY <3>1, Greatest
        <3>3. QED  BY <3>1, <3>2
    <2>2. m + 1 \notin ToSet(t.vals) /\ m >= low
        BY <2>1
    <2>3. m \in A
        BY <1>1, <2>2 DEF EndsFrom, Joined
    <2>4. QED  BY <2>3
<1>4. high \in A /\ \A x \in A : high <= x
    BY <1>1, <1>2, <1>3, Least
<1>5. high \in ToSet(t.vals) /\ low <= high /\ ~Joined(t, high) /\ high \in Int /\ low \in Int
    BY <1>1, <1>4 DEF EndsFrom
<1> DEFINE T == {m \in Nat : low + m < high =>
                    low + m \in ToSet(t.vals) /\ Joined(t, low + m)}
<1>6. ASSUME NEW w \in ToSet(t.vals), low <= w, w < high PROVE Joined(t, w)
    <2>1. w \notin A
        BY <1>4, <1>5, <1>6
    <2>2. QED  BY <1>1, <1>6, <2>1 DEF EndsFrom
<1>7. 0 \in T
    <2>1. low + 0 = low
        BY <1>5
    <2>2. QED  BY <1>5, <1>6, <2>1
<1>8. ASSUME NEW m \in Nat, m \in T PROVE m + 1 \in T
    <2>1. PICK w \in Int : w = low + m /\ w + 1 = low + (m + 1) /\ low <= w + 1
        BY <1>5
    <2>2. CASE w + 1 < high
        <3>1. w < high
            BY <1>5, <2>1, <2>2
        <3>2. Joined(t, w)
            BY <1>8, <2>1, <3>1
        <3>3. w + 1 \in ToSet(t.vals)
            BY <3>2 DEF Joined
        <3>4. Joined(t, w + 1)
            BY <1>6, <2>1, <2>2, <3>3
        <3>5. QED  BY <2>1, <3>3, <3>4
    <2>3. CASE ~(w + 1 < high)
        BY <2>1, <2>3
    <2>4. QED  BY <2>2, <2>3
<1>9. Nat \subseteq T
    <2> HIDE DEF T
    <2>1. QED  BY <1>7, <1>8, NatSetInduction
<1>10. \A w \in low .. high - 1 : Joined(t, w)
    <2> TAKE w \in low .. high - 1
    <2>1. PICK m \in Nat : m = w - low /\ low + m = w /\ w < high
        BY <1>5
    <2>2. m \in T
        BY <1>9
    <2>3. QED  BY <2>1, <2>2
<1> HIDE DEF T
<1>11. QED  BY <1>5, <1>10, JoinedGoTogether

(* A cluster starts with the last case that is not joined to the one before.  *)
LEMMA StartIsLast ==
    ASSUME NEW t, ToSet(t.vals) \subseteq Int, IsFiniteSet(ToSet(t.vals)),
           NEW v \in ToSet(t.vals)
    PROVE  \E low \in ToSet(t.vals) : /\ low <= v /\ ~Joined(t, low - 1)
                                      /\ \A w \in low .. v - 1 : Joined(t, w)
<1> DEFINE Joins(low) == \A w \in low .. v - 1 : Joined(t, w)
           A == {x \in ToSet(t.vals) : x <= v /\ Joins(x)}
<1>1. v \in Int /\ v \in A
    OBVIOUS
<1>2. A \in SUBSET Int /\ A # {} /\ IsFiniteSet(A) /\ A \subseteq ToSet(t.vals)
    <2>1. A \subseteq ToSet(t.vals)
        OBVIOUS
    <2> HIDE DEF A
    <2>2. IsFiniteSet(A)
        BY <2>1, FS_Subset
    <2>3. QED  BY <1>1, <2>1, <2>2
<1>3. PICK low \in A : low = Min(A) /\ \A x \in A : low <= x
    <2> HIDE DEF A
    <2>1. QED  BY <1>2, Least
<1>4. low \in Int /\ low <= v /\ Joins(low)
    BY <1>3
<1>5. ~Joined(t, low - 1)
    <2> SUFFICES ASSUME Joined(t, low - 1) PROVE FALSE
        OBVIOUS
    <2>1. low - 1 \in ToSet(t.vals)
        BY DEF Joined
    <2>2. \A w \in low - 1 .. v - 1 : w = low - 1 \/ w \in low .. v - 1
        BY <1>1, <1>4
    <2>3. Joins(low - 1)
        BY <1>4, <2>2
    <2>4. low - 1 \in A
        BY <1>1, <1>4, <2>1, <2>3
    <2> HIDE DEF A, Joins
    <2>5. low <= low - 1
        BY <1>3, <2>4
    <2>6. QED  BY <1>4, <2>5
<1>6. QED  BY <1>2, <1>3, <1>4, <1>5

(* The clusters are ranges in order, of the values of cases with one           *)
(* destination, and leave out no case but those of the destinations in        *)
(* without.                                                                *)
LEMMA ClustersCover ==
    ASSUME NEW X, NEW t, IsSwitch(X, t), ToSet(t.vals) \subseteq L!Values, NEW without
    PROVE  LET cs == L!Clusterify(t, without)
           IN  /\ AreRanges(cs)
               /\ \A i \in 1 .. Len(cs), v \in Int : HasValue(cs[i], v) =>
                     v \in ToSet(t.vals) /\ HomeOf(t, v) = cs[i].to /\ cs[i].to \notin without
               /\ \A v \in ToSet(t.vals) : HomeOf(t, v) \notin without =>
                     \E i \in 1 .. Len(cs) : HasValue(cs[i], v)
<1> DEFINE cs == L!Clusterify(t, without)
           A == Starts(t, without)
<1>1. PICK s : IsClustered(t, without, s, cs)
    BY ClustersAre
<1>2. IsFiniteSet(ToSet(t.vals)) /\ ToSet(t.vals) \subseteq Int
    BY ClustersAre
<1> HIDE DEF cs
<1>3. /\ s \in Seq(A) /\ ToSet(s) = A /\ Len(s) \in Nat /\ DOMAIN s = 1 .. Len(s)
      /\ \A i \in 1 .. Len(s) : s[i] \in A
    BY <1>1, LenProperties, ElementOfSeq DEF IsClustered
<1>4. \A x \in A : x \in ToSet(t.vals) /\ x \in Int /\ ~Joined(t, x - 1) /\ HomeOf(t, x) \notin without
    BY <1>2 DEF Starts
<1> HIDE DEF A
<1>5. ASSUME NEW i \in 1 .. Len(s)
      PROVE  /\ cs[i].low = s[i] /\ cs[i].to = HomeOf(t, s[i])
             /\ cs[i].high \in ToSet(t.vals) /\ s[i] <= cs[i].high /\ ~Joined(t, cs[i].high)
             /\ \A w \in s[i] .. cs[i].high - 1 : Joined(t, w)
             /\ \A v \in s[i] .. cs[i].high : v \in ToSet(t.vals) /\ HomeOf(t, v) = HomeOf(t, s[i])
    <2>1. /\ cs[i].low = s[i] /\ cs[i].to = HomeOf(t, s[i])
          /\ cs[i].high = Min(EndsFrom(t, s[i])) /\ s[i] \in ToSet(t.vals)
        BY <1>1, <1>3, <1>4 DEF IsClustered
    <2>2. QED  BY <1>2, <2>1, EndIsFirst
<1>6. Len(cs) = Len(s)
    BY <1>1 DEF IsClustered
<1>7. AreRanges(cs)
    <2>1. ASSUME NEW i \in 1 .. Len(s)
          PROVE  cs[i].low \in L!Values /\ cs[i].high \in L!Values /\ cs[i].low <= cs[i].high
        BY <1>3, <1>4, <1>5
    <2>2. ASSUME NEW i \in 1 .. Len(s), NEW j \in 1 .. Len(s), i < j
          PROVE  cs[i].high < cs[j].low
        <3>1. PICK a \in Int, high \in Int, b \in Int :
                  /\ a = s[i] /\ high = cs[i].high /\ b = s[j] /\ b = cs[j].low /\ a < b
            BY <1>1, <1>2, <1>3, <1>4, <1>5, <2>2 DEF IsClustered
        <3>2. ~Joined(t, b - 1)
            BY <1>3, <1>4, <3>1
        <3>3. b - 1 \notin a .. high - 1
            BY <1>5, <3>1, <3>2
        <3>4. high < b
            BY <3>1, <3>3
        <3>5. QED  BY <3>1, <3>4
    <2>3. QED  BY <1>6, <2>1, <2>2 DEF AreRanges
<1>8. ASSUME NEW i \in 1 .. Len(s), NEW v \in Int, HasValue(cs[i], v)
      PROVE  v \in ToSet(t.vals) /\ HomeOf(t, v) = cs[i].to /\ cs[i].to \notin without
    <2>1. s[i] \in Int /\ cs[i].high \in Int /\ s[i] <= v /\ v <= cs[i].high
        BY <1>2, <1>3, <1>4, <1>5, <1>8 DEF HasValue
    <2>2. v \in s[i] .. cs[i].high
        BY <2>1
    <2>3. QED  BY <1>3, <1>4, <1>5, <2>2
<1>9. ASSUME NEW v \in ToSet(t.vals), HomeOf(t, v) \notin without
      PROVE  \E i \in 1 .. Len(s) : HasValue(cs[i], v)
    <2>1. PICK low \in ToSet(t.vals) : /\ low <= v /\ ~Joined(t, low - 1)
                                      /\ \A w \in low .. v - 1 : Joined(t, w)
        BY <1>2, StartIsLast
    <2>2. v \in Int /\ low \in Int /\ v \in low .. v
        BY <1>2, <2>1
    <2>3. HomeOf(t, v) = HomeOf(t, low)
        BY <1>2, <2>1, <2>2, JoinedGoTogether
    <2>4. low \in A
        BY <1>9, <2>1, <2>3 DEF A, Starts
    <2>5. PICK i \in 1 .. Len(s) : s[i] = low
        BY <1>3, <2>4 DEF ToSet
    <2>6. PICK high \in Int : high = cs[i].high /\ ~Joined(t, high) /\ low <= high
        BY <1>2, <1>5, <2>5
    <2>7. high \notin low .. v - 1
        BY <2>1, <2>6
    <2>8. v <= high
        BY <2>2, <2>6, <2>7
    <2>9. QED  BY <1>5, <2>1, <2>5, <2>6, <2>8 DEF HasValue
<1>10. QED  BY <1>6, <1>7, <1>8, <1>9 DEF cs

(* Where a value of the switch belongs.                                     *)
LEMMA SwitchHome ==
    ASSUME NEW X, NEW t, IsSwitch(X, t), ToSet(t.vals) \subseteq L!Values, IsInjective(t.vals),
           NEW way \in DOMAIN t.to, NEW v \in L!ValuesOf(t, way)
    PROVE  /\ v \in L!Values /\ (way = 1 => v \notin ToSet(t.vals))
           /\ way # 1 => v \in ToSet(t.vals) /\ HomeOf(t, v) = t.to[way]
<1>1. PICK l \in Nat : /\ l = Len(t.vals) /\ DOMAIN t.vals = 1 .. l /\ DOMAIN t.to = 1 .. l + 1
    BY LenProperties DEF IsSwitch
<1>2. CASE way = 1
    <2>1. L!ValuesOf(t, way) = L!Values \ ToSet(t.vals)
        BY <1>2, SameInLower DEF L!ValuesOf
    <2>2. QED  BY <1>2, <2>1
<1>3. CASE way # 1
    <2>1. PICK i \in 1 .. l : i = way - 1 /\ 1 + i = way
        BY <1>1, <1>3
    <2>2. v = t.vals[i]
        BY <1>3, <2>1 DEF L!ValuesOf
    <2>3. v \in ToSet(t.vals)
        BY <1>1, <2>2 DEF ToSet
    <2>4. \A j \in DOMAIN t.vals : t.vals[j] = v <=> j = i
        BY <1>1, <2>2 DEF IsInjective
    <2>5. (CHOOSE j \in DOMAIN t.vals : t.vals[j] = v) = i
        BY <1>1, <2>4
    <2>6. HomeOf(t, v) = t.to[1 + i]
        BY <2>5 DEF HomeOf
    <2>7. QED  BY <1>3, <2>1, <2>3, <2>6
<1>4. QED  BY <1>2, <1>3

(* ... and where the clusters take it: to its destination y, or nowhere when   *)
(* that is the one the default goes to.  Clusters are left out for the        *)
(* default when no other value can reach it.                                *)
TakeHome(cs, v, y, default) ==
    \/ \E i \in 1 .. Len(cs) : HasValue(cs[i], v) /\ cs[i].to = y
    \/ y = default /\ \A i \in 1 .. Len(cs) : ~HasValue(cs[i], v)

LeavesOut(t, without, default, way) ==
    \/ without = {} /\ default = t.to[1]
    \/ without = {default} /\ way # 1

LEMMA ClustersTakeHome ==
    ASSUME NEW X, NEW t, IsSwitch(X, t), ToSet(t.vals) \subseteq L!Values, IsInjective(t.vals),
           NEW way \in DOMAIN t.to, NEW v \in L!ValuesOf(t, way),
           NEW without, NEW default, NEW cs, cs = L!Clusterify(t, without),
           LeavesOut(t, without, default, way)
    PROVE  TakeHome(cs, v, t.to[way], default)
<1>1. /\ v \in L!Values /\ (way = 1 => v \notin ToSet(t.vals))
      /\ way # 1 => v \in ToSet(t.vals) /\ HomeOf(t, v) = t.to[way]
    BY SwitchHome
<1>2. v \in Int
    <2>1. L!Values \subseteq Int
        BY LowerPowers
    <2>2. QED  BY <1>1, <2>1
<1>3. /\ \A i \in 1 .. Len(cs) : HasValue(cs[i], v) =>
             v \in ToSet(t.vals) /\ HomeOf(t, v) = cs[i].to /\ cs[i].to \notin without
      /\ v \in ToSet(t.vals) /\ HomeOf(t, v) \notin without =>
             \E i \in 1 .. Len(cs) : HasValue(cs[i], v)
    BY <1>2, ClustersCover
<1>4. CASE way = 1
    BY <1>1, <1>3, <1>4 DEF TakeHome, LeavesOut
<1>5. CASE way # 1 /\ HomeOf(t, v) \notin without
    BY <1>1, <1>3, <1>5 DEF TakeHome, LeavesOut
<1>6. CASE way # 1 /\ HomeOf(t, v) \in without
    BY <1>1, <1>3, <1>6 DEF TakeHome, LeavesOut
<1>7. QED  BY <1>4, <1>5, <1>6

(* When every value is that of a case, the outermost clusters bound it.        *)
LEMMA OuterBounds ==
    ASSUME NEW X, NEW t, IsSwitch(X, t), ToSet(t.vals) \subseteq L!Values,
           NEW v \in ToSet(t.vals), NEW all, all = L!Clusterify(t, {})
    PROVE  Bounds({L!Head(all).low}, {L!Last(all).high}, v)
<1>1. all \in Seq(Cluster(X))
    BY ClustersAre
<1>2. AreRanges(all) /\ \E i \in 1 .. Len(all) : HasValue(all[i], v)
    <2>1. HomeOf(t, v) \notin {}
        OBVIOUS
    <2>2. QED  BY <2>1, ClustersCover
<1>3. PICK l \in Nat : l = Len(all)
    BY <1>1, LenProperties
<1>4. PICK i \in 1 .. l : all[i].low <= v /\ v <= all[i].high
    BY <1>2, <1>3 DEF HasValue
<1>5. L!Values \subseteq Int
    BY LowerPowers
<1>6. v \in Int /\ \A k \in 1 .. l : /\ all[k].low \in Int /\ all[k].high \in Int
                                       /\ all[k].low <= all[k].high
    BY <1>2, <1>3, <1>5 DEF AreRanges
<1>7. all[1].low <= v
    <2>1. i = 1 \/ (1 < i /\ 1 \in 1 .. l)
        BY <1>4
    <2>2. 1 \in 1 .. l /\ 1 < i => all[1].high < all[i].low
        BY <1>2, <1>3 DEF AreRanges
    <2>3. QED  BY <1>4, <1>6, <2>1, <2>2
<1>8. v <= all[l].high
    <2>1. i = l \/ (i < l /\ l \in 1 .. l)
        BY <1>4
    <2>2. l \in 1 .. l /\ i < l => all[i].high < all[l].low
        BY <1>2, <1>3 DEF AreRanges
    <2>3. QED  BY <1>4, <1>6, <2>1, <2>2
<1>9. all # << >>
    BY <1>3, <1>4
<1>10. L!Head(all) = all[1] /\ L!Last(all) = all[l]
    BY <1>1, <1>3, <1>9 DEF L!Last
<1>11. QED  BY <1>7, <1>8, <1>10 DEF Bounds

-----------------------------------------------------------------------------
(* The blocks of the tree are added.                                         *)
LEMMA NumberAbove ==
    ASSUME NEW fn, IsShape(fn), NEW n \in Nat, n >= Fresh(fn)
    PROVE  IsNumber(fn, n)
<1>1. Fresh(fn) \in Nat \ {0} /\ \A b \in Blocks(fn) : b < Fresh(fn)
    BY FreshIsNew
<1>2. Blocks(fn) \subseteq Nat
    <2>1. PICK T : T = Nat \ {0} /\ fn.layout \in Seq(T)
        BY DEF IsShape
    <2>2. \A i \in DOMAIN fn.layout : fn.layout[i] \in T
        BY <2>1, LenProperties, ElementOfSeq
    <2>3. QED  BY <2>1, <2>2 DEF Blocks, ToSet
<1>3. ASSUME NEW x \in DOMAIN fn.code \cup DOMAIN fn.term \cup DOMAIN fn.from
      PROVE  x # n
    <2>1. PICK b \in Blocks(fn) : x \in Nat /\ x <= b
        BY DEF IsShape
    <2>2. b < n /\ b \in Nat
        BY <1>1, <1>2
    <2>3. QED  BY <2>1, <2>2
<1>4. n # 0
    BY <1>1
<1>5. QED  BY <1>3, <1>4 DEF IsNumber

LEMMA NodeGrows ==
    ASSUME NEW fn, IsShape(fn), NEW J, J \subseteq Blocks(fn), NEW N, NEW X, NEW h,
           Grown(fn, J, N, X, h), NEW b \in Blocks(fn) \ J, NEW node,
           IsNumber(fn, node.block), IsNewTerm(X, node.term)
    PROVE  Grown(fn, J, N \cup {node.block}, X, L!AddNode(h, b, node))
<1> DEFINE place == PlaceOf(h, b)
<1>1. PICK T : T = Nat \ {0} /\ h.layout \in Seq(T)
    BY DEF Grown
<1>2. Len(h.layout) \in Nat /\ DOMAIN h.layout = 1 .. Len(h.layout)
    BY <1>1, LenProperties
<1>3. b \in Blocks(h)
    BY DEF Grown
<1>4. place \in 1 .. Len(h.layout) /\ h.layout[place] = b
    BY <1>1, <1>3, PlaceIs
<1> HIDE DEF place
<1>5. ASSUME NEW q \in 1 .. place PROVE h.layout[q] \notin J
    <2>1. JunkIsLast(h.layout, J)
        BY DEF Grown
    <2>2. q \in DOMAIN h.layout /\ place \in DOMAIN h.layout /\ (q < place \/ q = place)
        BY <1>2, <1>4
    <2>3. QED  BY <1>4, <2>1, <2>2 DEF JunkIsLast
<1>6. PICK i : i = place + 1 /\ i \in 2 .. Len(h.layout) + 1 /\ \A q \in 1 .. i - 1 : h.layout[q] \notin J
    BY <1>2, <1>4, <1>5
<1>7. PICK n, t : n = node.block /\ t = node.term
    OBVIOUS
<1>8. L!AddNode(h, b, node) = AddBlock(h, i, n, << >>, t, << >>)
    BY <1>6, <1>7, SameInLower DEF L!AddNode, place
<1>9. Grown(fn, J, N \cup {n}, X, AddBlock(h, i, n, << >>, t, << >>))
    BY <1>6, <1>7, GrownBy
<1>10. QED  BY <1>7, <1>8, <1>9

IsPlantFold(base, b, nodes, n, h) ==
    h = [s \in SUBSET (1 .. n) |->
           IF s = {} THEN base ELSE L!AddNode(h[s \ {Max(s)}], b, nodes[Max(s)])]

LEMMA PlantFoldExists ==
    ASSUME NEW base, NEW b, NEW nodes, NEW n \in Nat
    PROVE  \E h : IsPlantFold(base, b, nodes, n, h)
<1> DEFINE T == {m \in Nat : \E h : IsPlantFold(base, b, nodes, m, h)}
<1>1. 0 \in T
    <2> DEFINE h == [s \in SUBSET (1 .. 0) |-> base]
    <2>1. \A s \in SUBSET (1 .. 0) : s = {}
        OBVIOUS
    <2>2. IsPlantFold(base, b, nodes, 0, h)
        BY <2>1 DEF IsPlantFold
    <2>3. QED  BY <2>2
<1>2. ASSUME NEW m \in Nat, m \in T PROVE m + 1 \in T
    <2>1. PICK h : IsPlantFold(base, b, nodes, m, h)
        BY <1>2
    <2>2. \A s \in SUBSET (1 .. m) :
             h[s] = IF s = {} THEN base ELSE L!AddNode(h[s \ {Max(s)}], b, nodes[Max(s)])
        BY <2>1 DEF IsPlantFold
    <2> DEFINE k == [s \in SUBSET (1 .. m + 1) |->
                       IF s \subseteq 1 .. m THEN h[s]
                       ELSE L!AddNode(h[s \ {Max(s)}], b, nodes[Max(s)])]
    <2>3. \A s \in SUBSET (1 .. m + 1) :
             k[s] = IF s = {} THEN base ELSE L!AddNode(k[s \ {Max(s)}], b, nodes[Max(s)])
        <3> TAKE s \in SUBSET (1 .. m + 1)
        <3>1. CASE s = {}
            <4>1. s \subseteq 1 .. m
                BY <3>1
            <4>2. QED  BY <2>2, <3>1, <4>1
        <3>2. CASE s # {}
            <4>1. s \ {Max(s)} \in SUBSET (1 .. m)
                BY <3>2, LastPlace
            <4>2. k[s \ {Max(s)}] = h[s \ {Max(s)}]
                BY <4>1
            <4>3. k[s] = L!AddNode(h[s \ {Max(s)}], b, nodes[Max(s)])
                BY <2>2, <3>2
            <4> HIDE DEF k
            <4>4. QED  BY <3>2, <4>2, <4>3
        <3>3. QED  BY <3>1, <3>2
    <2>4. DOMAIN k = SUBSET (1 .. m + 1) /\ k = [s \in DOMAIN k |-> k[s]]
        OBVIOUS
    <2> HIDE DEF k
    <2>5. IsPlantFold(base, b, nodes, m + 1, k)
        BY <2>3, <2>4 DEF IsPlantFold
    <2>6. QED  BY <2>5
<1>3. Nat \subseteq T
    <2> HIDE DEF T
    <2>1. QED  BY <1>1, <1>2, NatSetInduction
<1>4. QED  BY <1>3

ArePlants(base, b, nodes, grown) ==
    /\ grown[0] = base
    /\ \A i \in 1 .. Len(nodes) : grown[i] = L!AddNode(grown[i - 1], b, nodes[i])

Planted(base, b, nodes) == L!FoldLeft(LAMBDA h, n : L!AddNode(h, b, n), base, nodes)

LEMMA PlantedIs ==
    ASSUME NEW base, NEW b, NEW T, NEW nodes \in Seq(T)
    PROVE  \E grown : /\ ArePlants(base, b, nodes, grown)
                      /\ Planted(base, b, nodes) = grown[Len(nodes)]
<1> DEFINE n == Len(nodes)
           F1(h) == [s \in SUBSET (1 .. n) |->
                       IF s = {} THEN base ELSE L!AddNode(h[s \ {Max(s)}], b, nodes[Max(s)])]
           fold == CHOOSE h : h = F1(h)
<1>1. n \in Nat /\ DOMAIN nodes = 1 .. n
    BY LenProperties
<1>2. Planted(base, b, nodes) = fold[1 .. n]
    <2>1. \A A : L!Max(A) = Max(A)
        BY DEF L!Max, Max
    <2>2. QED  BY <1>1, <2>1 DEF Planted, L!FoldLeft, L!MapThenFoldSet
<1>3. fold = F1(fold)
    <2>1. PICK h : IsPlantFold(base, b, nodes, n, h)
        BY <1>1, PlantFoldExists
    <2>2. h = F1(h)
        BY <2>1 DEF IsPlantFold
    <2>3. QED  BY <2>2
<1> HIDE DEF fold
<1>4. \A s \in SUBSET (1 .. n) :
         fold[s] = IF s = {} THEN base ELSE L!AddNode(fold[s \ {Max(s)}], b, nodes[Max(s)])
    BY <1>3
<1> DEFINE grown == [i \in 0 .. n |-> fold[1 .. i]]
<1>5. grown[0] = base
    <2>1. 1 .. 0 = {} /\ {} \in SUBSET (1 .. n) /\ 0 \in 0 .. n
        BY <1>1
    <2>2. fold[1 .. 0] = base
        <3>1. fold[{}] = base
            BY <1>4, <2>1
        <3>2. QED  BY <2>1, <3>1
    <2>3. grown[0] = fold[1 .. 0]
        BY <2>1
    <2>4. QED  BY <2>2, <2>3
<1>6. ASSUME NEW i \in 1 .. n PROVE grown[i] = L!AddNode(grown[i - 1], b, nodes[i])
    <2>1. i \in Nat /\ i # 0 /\ 1 .. i \in SUBSET (1 .. n) /\ i \in 0 .. n /\ i - 1 \in 0 .. n
        BY <1>1
    <2>2. 1 .. i # {} /\ Max(1 .. i) = i /\ (1 .. i) \ {i} = 1 .. i - 1
        BY <2>1, MaxOfInterval
    <2>3. grown[i] = fold[1 .. i] /\ grown[i - 1] = fold[1 .. i - 1]
        BY <2>1
    <2> HIDE DEF grown
    <2>4. QED  BY <1>4, <2>1, <2>2, <2>3
<1>7. grown[n] = fold[1 .. n]
    BY <1>1
<1> HIDE DEF grown
<1>8. ArePlants(base, b, nodes, grown)
    BY <1>5, <1>6 DEF ArePlants
<1>9. QED  BY <1>2, <1>7, <1>8

(* Adding a block adds its terminator, and keeps the others.                  *)
LEMMA AddTerms ==
    ASSUME NEW fn, HasFields(fn), NEW i, NEW n, NEW code, NEW e, NEW from
    PROVE  LET h == AddBlock(fn, i, n, code, e, from)
           IN  HasFields(h) /\ h.term = Extended(fn.term, n, e)
<1> DEFINE h == AddBlock(fn, i, n, code, e, from)
<1>1. PICK a, c, t, r : fn = [layout |-> a, code |-> c, term |-> t, from |-> r,
                              cases |-> << >>, default |-> 0]
    BY DEF HasFields
<1>2. fn.layout = a /\ fn.code = c /\ fn.term = t /\ fn.from = r
    BY <1>1
<1>3. h = [[[[[layout |-> a, code |-> c, term |-> t, from |-> r, cases |-> << >>, default |-> 0]
              EXCEPT !.layout = InsertAt(a, i, n)] EXCEPT !.code = Extended(c, n, code)]
            EXCEPT !.term = Extended(t, n, e)] EXCEPT !.from = Extended(r, n, from)]
    BY <1>1, <1>2 DEF AddBlock
<1> HIDE DEF h
<1>4. h = [layout |-> InsertAt(a, i, n), code |-> Extended(c, n, code),
           term |-> Extended(t, n, e), from |-> Extended(r, n, from),
           cases |-> << >>, default |-> 0]
    BY <1>3
<1>5. /\ h.layout = InsertAt(a, i, n) /\ h.code = Extended(c, n, code)
      /\ h.term = Extended(t, n, e) /\ h.from = Extended(r, n, from)
    BY <1>4
<1>6. HasFields(h)
    BY <1>4, <1>5 DEF HasFields
<1>7. QED  BY <1>2, <1>5, <1>6 DEF h

LEMMA NodeTerms ==
    ASSUME NEW fn, HasFields(fn), NEW b, NEW node
    PROVE  LET h == L!AddNode(fn, b, node)
           IN  HasFields(h) /\ h.term = Extended(fn.term, node.block, node.term)
<1>1. PICK i, n, e : i = PlaceOf(fn, b) + 1 /\ n = node.block /\ e = node.term
    OBVIOUS
<1>2. L!AddNode(fn, b, node) = AddBlock(fn, i, n, << >>, e, << >>)
    BY <1>1, SameInLower DEF L!AddNode
<1>3. QED  BY <1>1, <1>2, AddTerms

(* So that each block of a tree ends with the terminator built for it, when   *)
(* no two of them have a number in common.                                  *)
IsAlone(nodes, e) == \A x \in ToSet(nodes) : x.block = e.block => x = e

LEMMA PlantedTerms ==
    ASSUME NEW base, HasFields(base), NEW b, NEW A, NEW nodes \in Seq(A)
    PROVE  LET r == Planted(base, b, nodes)
           IN  /\ HasFields(r)
               /\ DOMAIN r.term = DOMAIN base.term \cup {e.block : e \in ToSet(nodes)}
               /\ \A x \in DOMAIN base.term :
                     x \notin {e.block : e \in ToSet(nodes)} => r.term[x] = base.term[x]
               /\ \A e \in ToSet(nodes) : IsAlone(nodes, e) => r.term[e.block] = e.term
<1> DEFINE l == Len(nodes)
           D == DOMAIN base.term
<1>1. l \in Nat /\ DOMAIN nodes = 1 .. l
    BY LenProperties
<1>2. PICK grown : ArePlants(base, b, nodes, grown) /\ Planted(base, b, nodes) = grown[l]
    BY PlantedIs
<1> HIDE DEF l
<1> DEFINE Upto(i) == {nodes[q].block : q \in 1 .. i}
           Fields(i) == HasFields(grown[i]) /\ DOMAIN grown[i].term = D \cup Upto(i)
           Keeps1(i) == \A x \in D : x \notin Upto(i) => grown[i].term[x] = base.term[x]
           Alone(i, q) == \A r \in 1 .. i : nodes[r].block = nodes[q].block => nodes[r] = nodes[q]
           Ends(i) == \A q \in 1 .. i :
                         Alone(i, q) => grown[i].term[nodes[q].block] = nodes[q].term
           T == {i \in Nat : i <= l => Fields(i) /\ Keeps1(i) /\ Ends(i)}
<1>3. 0 \in T
    <2>1. grown[0] = base
        BY <1>2 DEF ArePlants
    <2>2. 1 .. 0 = {} /\ Upto(0) = {}
        OBVIOUS
    <2>3. QED  BY <2>1, <2>2
<1>4. ASSUME NEW i \in Nat, i \in T PROVE i + 1 \in T
    <2> SUFFICES ASSUME i + 1 <= l PROVE Fields(i + 1) /\ Keeps1(i + 1) /\ Ends(i + 1)
        <3> HIDE DEF Fields, Keeps1, Ends
        <3>1. QED  OBVIOUS
    <2>1. Fields(i) /\ Keeps1(i) /\ Ends(i) /\ i + 1 \in 1 .. l /\ (i + 1) - 1 = i
        <3> HIDE DEF Fields, Keeps1, Ends
        <3>1. QED  BY <1>1, <1>4
    <2>2. \A q : q \in 1 .. i + 1 <=> (q \in 1 .. i \/ q = i + 1)
        OBVIOUS
    <2>3. PICK fn, h, n, e : /\ fn = grown[i] /\ h = grown[i + 1]
                             /\ n = nodes[i + 1].block /\ e = nodes[i + 1].term
        OBVIOUS
    <2>4. h = L!AddNode(fn, b, nodes[i + 1])
        BY <1>2, <2>1, <2>3 DEF ArePlants, l
    <2>5. HasFields(h) /\ h.term = Extended(fn.term, n, e)
        BY <2>1, <2>3, <2>4, NodeTerms
    <2>6. Upto(i + 1) = Upto(i) \cup {n}
        BY <2>2, <2>3
    <2>7. DOMAIN h.term = D \cup Upto(i + 1)
        BY <2>1, <2>3, <2>5, <2>6 DEF Extended
    <2>8. \A x \in DOMAIN fn.term : h.term[x] = IF x = n THEN e ELSE fn.term[x]
        BY <2>5 DEF Extended
    <2>9. h.term[n] = e
        BY <2>5 DEF Extended
    <2>10. Keeps1(i + 1)
        BY <2>1, <2>3, <2>6, <2>8
    <2>11. ASSUME NEW q \in 1 .. i + 1, Alone(i + 1, q)
           PROVE  h.term[nodes[q].block] = nodes[q].term
        <3>1. CASE nodes[q].block = n
            <4>1. nodes[i + 1] = nodes[q]
                BY <2>2, <2>3, <2>11, <3>1
            <4>2. QED  BY <2>3, <2>9, <4>1
        <3>2. CASE nodes[q].block # n
            <4>1. q \in 1 .. i /\ Alone(i, q)
                BY <2>2, <2>3, <2>11, <3>2
            <4>2. nodes[q].block \in DOMAIN fn.term
                BY <2>1, <2>3, <4>1
            <4>3. fn.term[nodes[q].block] = nodes[q].term
                <5> HIDE DEF Alone
                <5>1. QED  BY <2>1, <2>3, <4>1
            <4>4. QED  BY <2>8, <3>2, <4>2, <4>3
        <3>3. QED  BY <3>1, <3>2
    <2>12. QED  BY <2>3, <2>5, <2>7, <2>10, <2>11
<1> HIDE DEF Fields, Keeps1, Ends
<1>5. l \in T
    <2> HIDE DEF T
    <2>1. QED  BY <1>1, <1>3, <1>4, NatSetInduction
<1>6. Fields(l) /\ Keeps1(l) /\ Ends(l)
    BY <1>1, <1>5
<1>7. Upto(l) = {e.block : e \in ToSet(nodes)}
    BY <1>1 DEF ToSet
<1>8. ASSUME NEW e \in ToSet(nodes), IsAlone(nodes, e)
      PROVE  grown[l].term[e.block] = e.term
    <2>1. PICK q \in 1 .. l : nodes[q] = e
        BY <1>1 DEF ToSet
    <2>2. Alone(l, q)
        BY <1>1, <1>8, <2>1 DEF IsAlone, ToSet
    <2> HIDE DEF Alone
    <2>3. QED  BY <1>6, <2>1, <2>2 DEF Ends
<1> HIDE DEF Upto, D
<1>9. QED  BY <1>2, <1>6, <1>7, <1>8 DEF Fields, Keeps1, D

(* All blocks of the tree are added.                                        *)
LEMMA TreeGrows ==
    ASSUME NEW fn, IsShape(fn), NEW J, J \subseteq Blocks(fn), NEW b \in Blocks(fn) \ J, NEW X,
           NEW d \in Nat, \A n \in Nat : n > d => IsNumber(fn, n), NEW tr, IsTree(X, d, tr), NEW N, NEW Y,
           X \cup {d} \cup NumbersOf(tr) \subseteq Y, NEW h, Grown(fn, J, N, Y, h)
    PROVE  Grown(fn, J, N \cup NumbersOf(tr), Y, Planted(h, b, tr.blocks))
<1> DEFINE l == Len(tr.blocks)
           S_1 == ToSet(tr.blocks)
<1>1. PICK nodes : nodes = tr.blocks /\ nodes \in Seq(S_1) /\ Len(nodes) = l
    BY DEF IsTree
<1>2. l \in Nat /\ DOMAIN nodes = 1 .. l /\ \A i \in 1 .. l : nodes[i] \in S_1
    BY <1>1, LenProperties, ElementOfSeq
<1>3. PICK grown : ArePlants(h, b, nodes, grown) /\ Planted(h, b, nodes) = grown[l]
    BY <1>1, PlantedIs
<1> HIDE DEF l, S_1
<1>5. ASSUME NEW i \in 1 .. l
      PROVE  IsNumber(fn, nodes[i].block) /\ IsNewTerm(Y, nodes[i].term)
    <2>1. /\ nodes[i].block \in Nat /\ nodes[i].block > d
          /\ IsNewTerm(X \cup {d} \cup NumbersOf(tr), nodes[i].term)
        BY <1>2 DEF IsTree, S_1
    <2>2. PICK n \in Nat : n = nodes[i].block /\ n > d
        BY <2>1
    <2>3. IsNumber(fn, n)
        BY <2>2
    <2>4. QED  BY <2>1, <2>2, <2>3, TermGrows
<1> DEFINE Upto(i) == {nodes[q].block : q \in 1 .. i}
           T == {i \in Nat : i <= l => Grown(fn, J, N \cup Upto(i), Y, grown[i])}
<1>6. 0 \in T
    <2>1. N \cup Upto(0) = N
        OBVIOUS
    <2>2. grown[0] = h
        BY <1>3 DEF ArePlants
    <2> HIDE DEF Upto
    <2>3. QED  BY <2>1, <2>2
<1>7. ASSUME NEW i \in Nat, i \in T PROVE i + 1 \in T
    <2> SUFFICES ASSUME i + 1 <= l PROVE Grown(fn, J, N \cup Upto(i + 1), Y, grown[i + 1])
        <3> HIDE DEF Upto
        <3>1. QED  OBVIOUS
    <2>1. N \cup Upto(i + 1) = (N \cup Upto(i)) \cup {nodes[i + 1].block}
        <3>1. \A q : q \in 1 .. i + 1 <=> (q \in 1 .. i \/ q = i + 1)
            OBVIOUS
        <3>2. QED  BY <3>1
    <2> HIDE DEF Upto
    <2>2. Grown(fn, J, N \cup Upto(i), Y, grown[i]) /\ i + 1 \in 1 .. l /\ (i + 1) - 1 = i
        BY <1>2, <1>7
    <2>3. grown[i + 1] = L!AddNode(grown[i], b, nodes[i + 1])
        BY <1>1, <1>3, <2>2 DEF ArePlants
    <2>4. PICK node, M, k : node = nodes[i + 1] /\ M = N \cup Upto(i) /\ k = grown[i]
        OBVIOUS
    <2>5. Grown(fn, J, M \cup {node.block}, Y, L!AddNode(k, b, node))
        BY <1>5, <2>2, <2>4, NodeGrows
    <2>6. QED  BY <2>1, <2>3, <2>4, <2>5
<1> HIDE DEF Upto
<1>8. Nat \subseteq T
    <2> HIDE DEF T
    <2>1. QED  BY <1>6, <1>7, NatSetInduction
<1>9. Grown(fn, J, N \cup Upto(l), Y, grown[l])
    BY <1>2, <1>8
<1>10. Upto(l) = NumbersOf(tr)
    BY <1>1, <1>2 DEF Upto, NumbersOf, ToSet
<1>11. QED  BY <1>1, <1>3, <1>9, <1>10

LEMMA SeqWithin ==
    ASSUME NEW A, NEW C, NEW s \in Seq(A), ToSet(s) \subseteq C
    PROVE  s \in Seq(C)
<1>1. Len(s) \in Nat /\ DOMAIN s = 1 .. Len(s)
    BY LenProperties
<1>2. \A i \in 1 .. Len(s) : s[i] \in C
    BY <1>1 DEF ToSet
<1>3. s = [i \in 1 .. Len(s) |-> s[i]]
    BY <1>1
<1>4. s \in [1 .. Len(s) -> C]
    BY <1>2, <1>3
<1>5. QED  BY <1>1, <1>4

(* The switch is lowered in a function that has grown by its tree.            *)
IsLowered(p, fn, J, b, h, root, r) ==
    /\ Guarded(p, r, J, "opaque")
    /\ r.layout = h.layout /\ r.code = h.code
    /\ r.term[b] = L!Lowered(fn.term[b], root)
    /\ \A x \in DOMAIN h.term \ {b} : r.term[x] = h.term[x]
    /\ DOMAIN r.term = DOMAIN h.term

(* The block of the switch goes to the root of the tree.                    *)
LEMMA LoweredGuards ==
    ASSUME NEW p, NEW fn, NEW J, Guarded(p, fn, J, "opaque"), NEW b \in Blocks(fn) \ J,
           NEW N, NEW X, NEW h, Grown(fn, J, N, X, h), N \cap J = {}, Entry(fn) \notin N,
           X \subseteq (Blocks(fn) \cup N) \ (J \cup {Entry(fn)}),
           NEW root \in X, NEW z, DOMAIN z = DOMAIN h.from
    PROVE  IsLowered(p, fn, J, b, h, root,
                     [[h EXCEPT !.term[b] = L!Lowered(fn.term[b], root)] EXCEPT !.from = z])
<1> DEFINE t == L!Lowered(fn.term[b], root)
           r == [[h EXCEPT !.term[b] = t] EXCEPT !.from = z]
<1>1. PICK a, c, u, o : h = [layout |-> a, code |-> c, term |-> u, from |-> o,
                              cases |-> << >>, default |-> 0]
    BY DEF Grown, HasFields
<1>2. h.layout = a /\ h.code = c /\ h.term = u /\ h.from = o
    BY <1>1
<1>3. r = [layout |-> a, code |-> c, term |-> [u EXCEPT ![b] = t], from |-> z,
           cases |-> << >>, default |-> 0]
    <2>1. r = [[layout |-> a, code |-> c, term |-> [u EXCEPT ![b] = t], from |-> o,
                cases |-> << >>, default |-> 0] EXCEPT !.from = z]
        <3>1. [h EXCEPT !.term[b] = t]
                 = [[layout |-> a, code |-> c, term |-> u, from |-> o,
                     cases |-> << >>, default |-> 0] EXCEPT !.term = [u EXCEPT ![b] = t]]
            BY <1>1, <1>2
        <3> HIDE DEF t
        <3>2. [h EXCEPT !.term[b] = t]
                 = [layout |-> a, code |-> c, term |-> [u EXCEPT ![b] = t], from |-> o,
                    cases |-> << >>, default |-> 0]
            BY <3>1
        <3>3. QED  BY <3>2
    <2> HIDE DEF r, t
    <2>2. QED  BY <2>1
<1> HIDE DEF r
<1>4. /\ r.layout = h.layout /\ r.code = h.code /\ r.term = [h.term EXCEPT ![b] = t] /\ r.from = z
      /\ HasFields(r)
    BY <1>2, <1>3 DEF HasFields
<1>5. IsShape(fn) /\ Entry(fn) = Entry(p) /\ J \subseteq Blocks(fn) \ {Entry(fn)} /\ HasOther(fn, J)
    BY DEF Guarded
<1>6. b \in DOMAIN h.term
    BY <1>5 DEF Grown, IsShape
<1>7. /\ DOMAIN r.term = DOMAIN h.term /\ r.term[b] = t
      /\ \A x \in DOMAIN h.term \ {b} : r.term[x] = h.term[x]
    BY <1>4, <1>6
<1>8. Blocks(r) = Blocks(fn) \cup N
    BY <1>4 DEF Grown, Blocks
<1>9. IsShape(r)
    <2>1. /\ HasFields(r) /\ r.layout \in Seq(Nat \ {0}) /\ r.layout # << >>
          /\ Blocks(r) \subseteq DOMAIN r.code /\ Blocks(r) \subseteq DOMAIN r.term
          /\ Blocks(r) \subseteq DOMAIN r.from
        BY <1>4, <1>5, <1>7, <1>8 DEF Grown, IsShape
    <2>2. Blocks(r) \subseteq Nat
        <3>1. PICK T : T = Nat \ {0} /\ r.layout \in Seq(T)
            BY <2>1
        <3>2. \A i \in DOMAIN r.layout : r.layout[i] \in T
            BY <3>1, LenProperties, ElementOfSeq
        <3>3. QED  BY <3>1, <3>2 DEF Blocks, ToSet
    <2>3. ASSUME NEW x \in DOMAIN r.code \cup DOMAIN r.term \cup DOMAIN r.from
          PROVE  x \in Nat /\ \E y \in Blocks(r) : x <= y
        <3>1. x \in DOMAIN fn.code \cup DOMAIN fn.term \cup DOMAIN fn.from \cup N
            BY <1>4, <1>7 DEF Grown
        <3>2. CASE x \in N
            BY <1>8, <2>2, <3>2
        <3>3. CASE x \notin N
            <4>1. x \in Nat /\ \E y \in Blocks(fn) : x <= y
                BY <1>5, <3>1, <3>3 DEF IsShape
            <4>2. QED  BY <1>8, <4>1
        <3>4. QED  BY <3>2, <3>3
    <2>4. \A x \in Blocks(r) : r.code[x] \in Seq(Instructions)
        <3>1. << >> \in Seq(Instructions)
            OBVIOUS
        <3>2. \A x \in N : r.code[x] = << >>
            BY <1>4 DEF Grown
        <3>3. \A x \in Blocks(fn) : r.code[x] = fn.code[x]
            BY <1>4 DEF Grown
        <3>4. \A x \in Blocks(fn) : fn.code[x] \in Seq(Instructions)
            BY <1>5 DEF IsShape
        <3>5. QED  BY <1>8, <3>1, <3>2, <3>3, <3>4
    <2>5. QED  BY <2>1, <2>3, <2>4 DEF IsShape
<1>10. Entry(r) = Entry(fn)
    <2>1. Entry(r) = r.layout[1]
        BY <1>9, EntryIs
    <2>2. QED  BY <1>4, <2>1 DEF Grown
<1>11. HasOther(r, J)
    BY <1>5, <1>8, <1>10 DEF HasOther
<1>12. X \subseteq Blocks(r) \ {Entry(r)} /\ X \subseteq Blocks(r) \ J
    BY <1>8, <1>10
<1>13. IsExit(p, r, J, "opaque", t)
    <2>1. PICK u_1 : u_1 = fn.term[b] /\ IsExit(p, fn, J, "opaque", u_1)
        BY DEF Guarded
    <2>2. /\ DOMAIN t = DOMAIN u_1
          /\ IsTerm(u_1) => t.to = <<root>> /\ t.cond = "lowered" /\ t.sets = u_1.sets /\ t.orig = u_1.orig
        BY <2>1 DEF L!Lowered, IsTerm
    <2> HIDE DEF t
    <2>3. IsTerm(u_1) /\ IsTerm(t)
        BY <2>1, <2>2 DEF IsExit, IsTerm
    <2>4. <<root>> \in Seq(Blocks(r) \ {Entry(r)}) /\ <<root>> \in Seq(Blocks(r) \ J) /\ Len(<<root>>) = 1
        BY <1>12
    <2>5. QED  BY <2>1, <2>2, <2>3, <2>4 DEF IsExit, GoesOn
<1>14. ASSUME NEW x \in N PROVE IsExit(p, r, J, "opaque", h.term[x])
    <2>1. PICK v : v = h.term[x] /\ IsNewTerm(X, v)
        BY DEF Grown
    <2>2. v.to \in Seq(X)
        BY <2>1 DEF IsNewTerm
    <2>3. v.to \in Seq(Blocks(r) \ {Entry(r)}) /\ v.to \in Seq(Blocks(r) \ J)
        BY <1>12, <2>2, SeqGrows
    <2>4. QED  BY <2>1, <2>3 DEF IsExit, GoesOn, IsNewTerm
<1>15. ASSUME NEW x \in Blocks(fn) \ J PROVE IsExit(p, r, J, "opaque", fn.term[x])
    <2>1. IsExit(p, fn, J, "opaque", fn.term[x])
        BY DEF Guarded
    <2>2. Blocks(fn) \subseteq Blocks(r) /\ J \cap Blocks(fn) \subseteq J
        BY <1>8
    <2>3. QED  BY <1>10, <2>1, <2>2, ExitStays
<1>16. ASSUME NEW x \in Blocks(r) \ J
       PROVE  NoJunk(r.code[x]) /\ IsExit(p, r, J, "opaque", r.term[x])
    <2>1. NoJunk(r.code[x])
        <3>1. CASE x \in Blocks(fn)
            BY <1>4, <3>1 DEF Grown, Guarded
        <3>2. CASE x \in N
            BY <1>4, <3>2 DEF Grown, NoJunk
        <3>3. QED  BY <1>8, <3>1, <3>2
    <2>2. IsExit(p, r, J, "opaque", r.term[x])
        <3>1. CASE x = b
            BY <1>7, <1>13, <3>1
        <3>2. CASE x # b /\ x \in N
            <4>1. x \in DOMAIN h.term
                BY <3>2 DEF Grown
            <4>2. QED  BY <1>7, <1>14, <3>2, <4>1
        <3>3. CASE x # b /\ x \in Blocks(fn)
            <4>1. x \in DOMAIN h.term /\ h.term[x] = fn.term[x]
                BY <1>5, <3>3 DEF Grown, IsShape
            <4>2. QED  BY <1>7, <1>15, <3>3, <4>1
        <3>4. QED  BY <1>8, <3>1, <3>2, <3>3
    <2>3. QED  BY <2>1, <2>2
<1>17. ASSUME NEW x \in J PROVE IsJunkExit(r.term[x])
    <2>1. x # b /\ x \in DOMAIN h.term /\ h.term[x] = fn.term[x]
        BY <1>5 DEF Grown, IsShape
    <2>2. QED  BY <1>7, <2>1 DEF Guarded
<1>18. JunkIsLast(r.layout, J) /\ J \subseteq Blocks(r) \ {Entry(r)}
    BY <1>4, <1>5, <1>8, <1>10 DEF Grown
<1>19. Guarded(p, r, J, "opaque")
    BY <1>5, <1>9, <1>10, <1>11, <1>16, <1>17, <1>18 DEF Guarded
<1>20. IsLowered(p, fn, J, b, h, root, r)
    BY <1>4, <1>7, <1>19 DEF IsLowered, t
<1>21. QED  BY <1>20 DEF r, t

(* A block that nothing goes to is taken out of the layout.                   *)
LEMMA RemoveKeeps ==
    ASSUME NEW p, NEW h, NEW J, NEW c, Guarded(p, h, J, c),
           NEW x \in Blocks(h) \ J, x # Entry(h), Preds(h, x) = {},
           NEW y \in Blocks(h) \ J, y # Entry(h), x < y
    PROVE  LET r == [h EXCEPT !.layout = RemoveAt(@, PlaceOf(h, x))]
           IN  /\ Guarded(p, r, J, c)
               /\ Blocks(h) \ {x} \subseteq Blocks(r) /\ Blocks(r) \subseteq Blocks(h)
               /\ r.term = h.term /\ r.code = h.code
<1> DEFINE i == PlaceOf(h, x)
           r == [h EXCEPT !.layout = RemoveAt(@, i)]
<1>1. PICK a, e, u, o : h = [layout |-> a, code |-> e, term |-> u, from |-> o,
                              cases |-> << >>, default |-> 0]
    BY DEF Guarded, IsShape, HasFields
<1>2. h.layout = a /\ h.code = e /\ h.term = u /\ h.from = o
    BY <1>1
<1>3. r = [layout |-> RemoveAt(a, i), code |-> e, term |-> u, from |-> o,
           cases |-> << >>, default |-> 0]
    <2>1. r = [[layout |-> a, code |-> e, term |-> u, from |-> o, cases |-> << >>, default |-> 0]
               EXCEPT !.layout = RemoveAt(a, i)]
        BY <1>1, <1>2
    <2> HIDE DEF r, i
    <2>2. QED  BY <2>1
<1> HIDE DEF r
<1>4. /\ r.layout = RemoveAt(h.layout, i) /\ r.code = h.code /\ r.term = h.term
      /\ r.from = h.from /\ HasFields(r)
    BY <1>2, <1>3 DEF HasFields
<1>5. PICK T, l : T = Nat \ {0} /\ l = h.layout /\ l \in Seq(T) /\ l # << >>
    BY DEF Guarded, IsShape
<1>6. /\ IsShape(h) /\ Entry(h) = l[1] /\ Len(l) \in Nat \ {0} /\ DOMAIN l = 1 .. Len(l)
    BY <1>5, EntryIs DEF Guarded
<1>7. i \in 1 .. Len(l) /\ l[i] = x /\ i # 1
    BY <1>5, <1>6, PlaceIs
<1> HIDE DEF i
<1>8. IsRemoved(T, l, i, RemoveAt(l, i))
    BY <1>5, <1>7, RemovedIs
<1>9. /\ r.layout \in Seq(T) /\ Len(r.layout) = Len(l) - 1
      /\ \A j \in 1 .. i - 1 : r.layout[j] = l[j]
      /\ \A j \in i .. Len(l) - 1 : r.layout[j] = l[j + 1]
      /\ ToSet(r.layout) \subseteq ToSet(l) /\ ToSet(l) \ {l[i]} \subseteq ToSet(r.layout)
    BY <1>4, <1>5, <1>8 DEF IsRemoved
<1>10. Blocks(h) \ {x} \subseteq Blocks(r) /\ Blocks(r) \subseteq Blocks(h)
    BY <1>5, <1>7, <1>9 DEF Blocks
<1>11. DOMAIN r.layout = 1 .. Len(l) - 1 /\ r.layout[1] = l[1]
    <2>1. DOMAIN r.layout = 1 .. Len(r.layout)
        BY <1>9, LenProperties
    <2>2. 1 \in 1 .. i - 1
        BY <1>6, <1>7
    <2>3. QED  BY <1>9, <2>1, <2>2
<1>12. Blocks(h) \subseteq Nat
    <2>1. \A j \in DOMAIN l : l[j] \in T
        BY <1>5, LenProperties, ElementOfSeq
    <2>2. QED  BY <1>5, <2>1 DEF Blocks, ToSet
<1>13. y \in Blocks(r)
    BY <1>10, <1>12
<1>14. IsShape(r)
    <2>1. r.layout # << >>
        <3>0. PICK m : m = Len(r.layout) /\ m = Len(l) - 1
            BY <1>9
        <3>1. m \in Nat \ {0}
            BY <1>6, <1>7, <3>0
        <3>2. Len(<< >>) = 0
            OBVIOUS
        <3>3. QED  BY <3>0, <3>1, <3>2
    <2>2. ASSUME NEW z \in DOMAIN r.code \cup DOMAIN r.term \cup DOMAIN r.from
          PROVE  z \in Nat /\ \E b \in Blocks(r) : z <= b
        <3>1. PICK b \in Blocks(h) : z \in Nat /\ z <= b
            BY <1>4, <1>6 DEF IsShape
        <3>2. CASE b = x
            <4>1. z <= y
                BY <1>12, <3>1, <3>2
            <4>2. QED  BY <1>13, <3>1, <4>1
        <3>3. CASE b # x
            BY <1>10, <3>1, <3>3
        <3>4. QED  BY <3>2, <3>3
    <2>3. /\ Blocks(r) \subseteq DOMAIN r.code /\ Blocks(r) \subseteq DOMAIN r.term
          /\ Blocks(r) \subseteq DOMAIN r.from
          /\ \A b \in Blocks(r) : r.code[b] \in Seq(Instructions)
        BY <1>4, <1>6, <1>10 DEF IsShape
    <2>4. QED  BY <1>4, <1>5, <1>9, <2>1, <2>2, <2>3 DEF IsShape
<1>15. Entry(r) = Entry(h) /\ Entry(h) = Entry(p)
    BY <1>6, <1>11, <1>14, EntryIs DEF Guarded
<1>16. JunkIsLast(r.layout, J)
    <2> SUFFICES ASSUME NEW j \in 1 .. Len(l) - 1, NEW k \in 1 .. Len(l) - 1, j < k,
                        r.layout[j] \in J
                 PROVE  r.layout[k] \in J
        BY <1>11 DEF JunkIsLast
    <2>1. \A m, n \in 1 .. Len(l) : m < n /\ l[m] \in J => l[n] \in J
        BY <1>5, <1>6 DEF Guarded, JunkIsLast
    <2>2. \/ j \in 1 .. i - 1 /\ j \in 1 .. Len(l)
          \/ j \in i .. Len(l) - 1 /\ j + 1 \in 1 .. Len(l)
        BY <1>6, <1>7
    <2>3. \/ k \in 1 .. i - 1 /\ k \in 1 .. Len(l)
          \/ k \in i .. Len(l) - 1 /\ k + 1 \in 1 .. Len(l)
        BY <1>6, <1>7
    <2>4. PICK m \in 1 .. Len(l), n \in 1 .. Len(l) : l[m] = r.layout[j] /\ l[n] = r.layout[k] /\ m < n
        <3>1. CASE j \in 1 .. i - 1 /\ j \in 1 .. Len(l) /\ k \in 1 .. i - 1 /\ k \in 1 .. Len(l)
            BY <1>9, <3>1
        <3>2. CASE j \in 1 .. i - 1 /\ j \in 1 .. Len(l) /\ k \in i .. Len(l) - 1 /\ k + 1 \in 1 .. Len(l)
            <4>1. j < k + 1 /\ r.layout[j] = l[j] /\ r.layout[k] = l[k + 1]
                BY <1>9, <3>2
            <4>2. QED  BY <3>2, <4>1
        <3>3. CASE j \in i .. Len(l) - 1 /\ j + 1 \in 1 .. Len(l) /\ k \in i .. Len(l) - 1 /\ k + 1 \in 1 .. Len(l)
            <4>1. j + 1 < k + 1 /\ r.layout[j] = l[j + 1] /\ r.layout[k] = l[k + 1]
                BY <1>9, <3>3
            <4>2. QED  BY <3>3, <4>1
        <3>4. ~(j \in i .. Len(l) - 1 /\ k \in 1 .. i - 1)
            BY <1>6, <1>7
        <3>5. QED  BY <2>2, <2>3, <3>1, <3>2, <3>3, <3>4
    <2>5. QED  BY <2>1, <2>4
<1>17. J \subseteq Blocks(r) \ {Entry(r)} /\ HasOther(r, J)
    BY <1>10, <1>13, <1>15 DEF Guarded, HasOther
<1>18. ASSUME NEW b \in Blocks(r) \ J
       PROVE  NoJunk(r.code[b]) /\ IsExit(p, r, J, c, r.term[b])
    <2>1. b \in Blocks(h) \ J /\ NoJunk(h.code[b])
        BY <1>10 DEF Guarded
    <2>2. PICK t : t = h.term[b] /\ IsExit(p, h, J, c, t)
        BY <2>1 DEF Guarded
    <2>3. x \notin ToSet(t.to)
        BY <2>1, <2>2 DEF Preds
    <2>4. t.to \in Seq(Blocks(h) \ {Entry(h)})
        BY <2>2 DEF IsExit
    <2>5. \A q \in DOMAIN t.to : t.to[q] \in Blocks(h) \ {Entry(h)}
        BY <2>4, LenProperties, ElementOfSeq
    <2>6. ToSet(t.to) \subseteq Blocks(r) \ {Entry(r)}
        BY <1>10, <1>15, <2>3, <2>5 DEF ToSet
    <2>7. t.to \in Seq(Blocks(r) \ {Entry(r)})
        BY <2>4, <2>6, SeqWithin
    <2>8. GoesOn(r, J, c, t)
        <3>1. CASE t.to \in Seq(Blocks(h) \ J)
            <4>1. \A q \in DOMAIN t.to : t.to[q] \in Blocks(h) \ J
                BY <3>1, LenProperties, ElementOfSeq
            <4>2. ToSet(t.to) \subseteq Blocks(r) \ J
                BY <1>10, <2>3, <4>1 DEF ToSet
            <4>3. t.to \in Seq(Blocks(r) \ J)
                BY <2>4, <4>2, SeqWithin
            <4>4. QED  BY <4>3 DEF GoesOn
        <3>2. CASE t.cond = c /\ t.to # << >> /\ t.to[1] \notin J
            BY <3>2 DEF GoesOn
        <3>3. QED  BY <2>2, <3>1, <3>2 DEF IsExit, GoesOn
    <2>9. IsExit(p, r, J, c, t)
        BY <2>2, <2>7, <2>8 DEF IsExit
    <2>10. QED  BY <1>4, <2>1, <2>2, <2>9
<1>19. \A b \in J : IsJunkExit(r.term[b])
    BY <1>4 DEF Guarded
<1>20. Guarded(p, r, J, c)
    BY <1>14, <1>15, <1>16, <1>17, <1>18, <1>19 DEF Guarded
<1>21. QED  BY <1>4, <1>10, <1>20 DEF r, i

(* One switch is lowered.                                                     *)
IsProcessed(p, fn, J, b, h) ==
    /\ Guarded(p, h, J, "opaque")
    /\ DOMAIN fn.term \subseteq DOMAIN h.term
    /\ \A x \in DOMAIN fn.term \ {b} : h.term[x] = fn.term[x]
    /\ h.term[b].cond = "lowered"
    /\ \A x \in Blocks(fn) : x \in Blocks(h) \/ fn.term[x].cond = "unreachable"
    /\ \A x \in Blocks(h) \ Blocks(fn) : h.term[x].cond \in {"none", "below", "within"}
    /\ Len(h.layout) > 1

(* The destinations of a switch: none is an altered block or the entry.       *)
Others(fn, J) == Blocks(fn) \ (J \cup {Entry(fn)})

(* What is known of the terminator of a switch that may run.                *)
LEMMA SwitchIs ==
    ASSUME NEW p, NEW fn, NEW J, Guarded(p, fn, J, "opaque"), NEW b \in Blocks(fn),
           fn.term[b].cond = "cases"
    PROVE  /\ b \notin J /\ IsTerm(fn.term[b])
           /\ IsSwitch(Others(fn, J), fn.term[b]) /\ fn.term[b].to[1] \in Others(fn, J)
<1>1. b \notin J
    BY DEF Guarded, IsJunkExit
<1>2. PICK t : t = fn.term[b] /\ t.cond = "cases" /\ IsExit(p, fn, J, "opaque", t)
    BY <1>1 DEF Guarded
<1>3. t.to \in Seq(Blocks(fn) \ J) /\ t.to \in Seq(Blocks(fn) \ {Entry(fn)})
    BY <1>2 DEF IsExit, GoesOn
<1>4. \A q \in DOMAIN t.to : t.to[q] \in Blocks(fn) \ J /\ t.to[q] \in Blocks(fn) \ {Entry(fn)}
    BY <1>3, LenProperties, ElementOfSeq
<1>5. ToSet(t.to) \subseteq Others(fn, J)
    BY <1>4 DEF ToSet, Others
<1>6. t.to \in Seq(Others(fn, J))
    BY <1>3, <1>5, SeqWithin
<1>7. IsSwitch(Others(fn, J), t)
    BY <1>2, <1>6 DEF IsExit, IsSwitch
<1>8. Len(t.to) \in Nat \ {0}
    <2>1. Len(t.vals) \in Nat /\ Len(t.to) = Len(t.vals) + 1
        BY <1>7, LenProperties DEF IsSwitch
    <2>2. QED  BY <2>1
<1>9. t.to[1] \in Others(fn, J)
    BY <1>6, <1>8, ElementOfSeq
<1>10. QED  BY <1>1, <1>2, <1>7, <1>9 DEF IsExit

(* Without a cluster that is left the switch becomes a jump.                  *)
LEMMA JumpLowered ==
    ASSUME NEW p, NEW fn, NEW J, Guarded(p, fn, J, "opaque"), NEW b \in Blocks(fn),
           fn.term[b].cond = "cases", NEW x \in Others(fn, J)
    PROVE  IsProcessed(p, fn, J, b, [fn EXCEPT !.term[b] = L!Lowered(fn.term[b], x)])
<1> DEFINE t == L!Lowered(fn.term[b], x)
           h == [fn EXCEPT !.term[b] = t]
<1>1. IsShape(fn) /\ b \notin J
    BY SwitchIs DEF Guarded
<1>2. /\ IsShape(h) /\ h.layout = fn.layout /\ h.code = fn.code /\ h.from = fn.from
      /\ h.term[b] = t /\ \A y \in Blocks(fn) \ {b} : h.term[y] = fn.term[y]
      /\ Blocks(h) = Blocks(fn) /\ Entry(h) = Entry(fn)
    BY <1>1, TermChange
<1>3. DOMAIN h.term = DOMAIN fn.term /\ \A y \in DOMAIN fn.term \ {b} : h.term[y] = fn.term[y]
    <2>1. h.term = [fn.term EXCEPT ![b] = t]
        <3>1. PICK a, c, u, r : fn = [layout |-> a, code |-> c, term |-> u, from |-> r,
                                      cases |-> << >>, default |-> 0]
            BY <1>1 DEF IsShape, HasFields
        <3>2. h = [fn EXCEPT !.term = [fn.term EXCEPT ![b] = t]]
            OBVIOUS
        <3> HIDE DEF t, h
        <3>3. QED  BY <3>1, <3>2
    <2>2. QED  BY <2>1
<1>4. IsTerm(fn.term[b]) /\ IsExit(p, fn, J, "opaque", fn.term[b])
    BY <1>1 DEF Guarded, IsExit
<1>5. /\ t.to = <<x>> /\ t.cond = "lowered" /\ t.sets = fn.term[b].sets
      /\ t.orig = fn.term[b].orig /\ IsTerm(t)
    BY <1>4 DEF L!Lowered, IsTerm
<1> HIDE DEF t, h
<1>6. IsExit(p, h, J, "opaque", t)
    <2>1. x \in Blocks(h) \ {Entry(h)} /\ x \in Blocks(h) \ J
        BY <1>2 DEF Others
    <2>2. <<x>> \in Seq(Blocks(h) \ {Entry(h)}) /\ <<x>> \in Seq(Blocks(h) \ J) /\ Len(<<x>>) = 1
        BY <2>1
    <2>3. QED  BY <1>4, <1>5, <2>2 DEF IsExit, GoesOn
<1>7. ASSUME NEW y \in Blocks(h) \ J PROVE NoJunk(h.code[y]) /\ IsExit(p, h, J, "opaque", h.term[y])
    <2>1. CASE y = b
        BY <1>2, <1>6, <2>1 DEF Guarded
    <2>2. CASE y # b
        <3>1. h.term[y] = fn.term[y] /\ NoJunk(h.code[y]) /\ IsExit(p, fn, J, "opaque", fn.term[y])
            BY <1>2, <2>2 DEF Guarded
        <3>2. QED  BY <1>2, <3>1, ExitStays
    <2>3. QED  BY <2>1, <2>2
<1>8. ASSUME NEW y \in J PROVE IsJunkExit(h.term[y])
    <2>1. y \in Blocks(fn) \ {b} /\ IsJunkExit(fn.term[y])
        BY <1>1 DEF Guarded
    <2>2. QED  BY <1>2, <2>1
<1>9. HasOther(h, J) /\ JunkIsLast(h.layout, J) /\ J \subseteq Blocks(h) \ {Entry(h)} /\ Entry(h) = Entry(p)
    BY <1>2 DEF Guarded, HasOther
<1>10. Guarded(p, h, J, "opaque")
    BY <1>2, <1>7, <1>8, <1>9 DEF Guarded
<1>11. Len(h.layout) > 1
    <2>1. x \in Blocks(h) /\ x # Entry(h)
        BY <1>2 DEF Others
    <2>2. QED  BY <1>2, <2>1, LongLayout
<1>12. IsProcessed(p, fn, J, b, h)
    BY <1>2, <1>3, <1>5, <1>10, <1>11 DEF IsProcessed
<1>13. QED  BY <1>12 DEF h, t

IsAdded(fn, place, n, code, term, from, h) ==
    /\ IsShape(h)
    /\ Blocks(h) = Blocks(fn) \cup {n} /\ n \notin Blocks(fn)
    /\ h.code[n] = code /\ h.term[n] = term /\ h.from[n] = from

LEMMA AddedIs ==
    ASSUME NEW fn, IsShape(fn), NEW place \in 2 .. Len(fn.layout) + 1,
           NEW n \in Nat \ {0}, n \notin DOMAIN fn.code, n \notin DOMAIN fn.term,
           n \notin DOMAIN fn.from,
           NEW code \in Seq(Instructions), NEW term, NEW from
    PROVE  IsAdded(fn, place, n, code, term, from, AddBlock(fn, place, n, code, term, from))
BY AddBlockIs DEF IsAdded

(* The block that goes to the default, and the blocks of the tree.            *)
WithTree(fn, b, default, d, tr) ==
    Planted(AddBlock(fn, PlaceOf(fn, default), d, << >>, Jump(default), << >>), b, tr.blocks)

IsPlanted(fn, J, default, d, N, h) ==
    /\ Grown(fn, J, N, Others(fn, J) \cup N, h) /\ h.term[d] = Jump(default)
    /\ N \cap J = {} /\ N \cap Blocks(fn) = {}

LEMMA TreeIsPlanted ==
    ASSUME NEW p, NEW fn, NEW J, Guarded(p, fn, J, "opaque"), NEW b \in Blocks(fn) \ J,
           NEW default \in Others(fn, J), NEW d, d = Fresh(fn),
           NEW tr, IsTree(Others(fn, J), d, tr), NEW N, N = {d} \cup NumbersOf(tr)
    PROVE  IsPlanted(fn, J, default, d, N, WithTree(fn, b, default, d, tr))
<1> DEFINE X == Others(fn, J)
           Y == X \cup N
           i == PlaceOf(fn, default)
           fn1 == AddBlock(fn, i, d, << >>, Jump(default), << >>)
           h == Planted(fn1, b, tr.blocks)
<1>1. IsShape(fn) /\ JunkIsLast(fn.layout, J) /\ J \subseteq Blocks(fn)
    BY DEF Guarded
<1>2. /\ d \in Nat \ {0} /\ d \notin Blocks(fn) /\ d \notin DOMAIN fn.code
      /\ d \notin DOMAIN fn.term /\ d \notin DOMAIN fn.from
    BY <1>1, FreshIsNew
<1>3. ASSUME NEW n \in Nat, n > d PROVE IsNumber(fn, n)
    <2>1. PICK m : m = Fresh(fn) /\ m \in Nat /\ m = d
        BY <1>2
    <2>2. n >= m
        BY <1>3, <2>1
    <2>3. n >= Fresh(fn)
        BY <2>1, <2>2
    <2>4. QED  BY <1>1, <2>3, NumberAbove
<1>4. default \in Blocks(fn) /\ default \notin J /\ default # Entry(fn)
    BY DEF Others
<1>5. /\ fn.layout \in Seq(Nat \ {0}) /\ Len(fn.layout) \in Nat /\ fn.layout # << >>
      /\ Entry(fn) = fn.layout[1] /\ DOMAIN fn.layout = 1 .. Len(fn.layout)
    BY <1>1, EntryIs DEF IsShape
<1>6. i \in 2 .. Len(fn.layout) + 1 /\ \A q \in 1 .. i - 1 : fn.layout[q] \notin J
    <2>1. i \in 1 .. Len(fn.layout) /\ fn.layout[i] = default
        BY <1>4, <1>5, PlaceIs
    <2>2. i # 1
        BY <1>4, <1>5, <2>1
    <2>3. \A q \in 1 .. i : fn.layout[q] \notin J
        BY <1>1, <1>4, NoJunkBefore
    <2> HIDE DEF i
    <2>4. QED  BY <1>5, <2>1, <2>2, <2>3
<1> HIDE DEF i, X
<1>7. Grown(fn, J, {}, Y, fn)
    BY <1>1, <1>5 DEF Grown, IsShape
<1>8. IsNumber(fn, d) /\ IsNewTerm(Y, Jump(default)) /\ IsNewTerm({default}, Jump(default))
    <2>1. default \in Y
        BY DEF X
    <2>2. <<default>> \in Seq(Y) /\ <<default>> \in Seq({default})
        BY <2>1
    <2> HIDE DEF Y
    <2>3. QED  BY <1>2, <2>2, JumpIs DEF IsNumber, IsNewTerm
<1> HIDE DEF Y
<1>9. Grown(fn, J, {d}, Y, fn1)
    <2>1. Grown(fn, J, {} \cup {d}, Y, fn1)
        BY <1>1, <1>6, <1>7, <1>8, GrownBy
    <2>2. {} \cup {d} = {d}
        OBVIOUS
    <2> HIDE DEF fn1
    <2>3. QED  BY <2>1, <2>2
<1>10. Grown(fn, J, {d} \cup NumbersOf(tr), Y, h)
    <2>1. X \cup {d} \cup NumbersOf(tr) \subseteq Y /\ d \in Nat
        BY <1>2 DEF Y
    <2> HIDE DEF fn1
    <2>2. QED  BY <1>1, <1>3, <1>9, <2>1, TreeGrows DEF X
<1>11. h.term[d] = Jump(default)
    <2>1. /\ IsShape(fn1) /\ fn1.term[d] = Jump(default) /\ Blocks(fn1) = Blocks(fn) \cup {d}
        <3>1. << >> \in Seq(Instructions)
            OBVIOUS
        <3>2. PICK e, u, q : e = Jump(default) /\ u = << >> /\ q = << >> /\ q \in Seq(Instructions)
            BY <3>1
        <3>3. fn1 = AddBlock(fn, i, d, q, e, u)
            BY <3>2
        <3> HIDE DEF fn1
        <3>4. IsShape(fn1) /\ fn1.term[d] = e /\ Blocks(fn1) = Blocks(fn) \cup {d}
            <4>1. PICK m : m = fn1
                OBVIOUS
            <4>2. IsAdded(fn, i, d, q, e, u, AddBlock(fn, i, d, q, e, u))
                BY <1>1, <1>2, <1>6, <3>2, AddedIs
            <4>3. QED  BY <3>3, <4>2 DEF IsAdded
        <3>5. QED  BY <3>2, <3>4
    <2>2. Grown(fn1, {}, {}, Y, fn1)
        <3>1. Entry(fn1) = fn1.layout[1]
            BY <2>1, EntryIs
        <3> HIDE DEF fn1
        <3>2. QED  BY <2>1, <3>1 DEF Grown, IsShape, JunkIsLast
    <2>3. \A n \in Nat : n > d => IsNumber(fn1, n)
        <3>1. /\ DOMAIN fn1.code = DOMAIN fn.code \cup {d} /\ DOMAIN fn1.term = DOMAIN fn.term \cup {d}
              /\ DOMAIN fn1.from = DOMAIN fn.from \cup {d}
            BY <1>9 DEF Grown
        <3> HIDE DEF fn1
        <3>2. QED  BY <1>2, <1>3, <3>1 DEF IsNumber
    <2>4. X \cup {d} \cup NumbersOf(tr) \subseteq Y /\ d \in Nat
        BY <1>2 DEF Y
    <2>5. d \in DOMAIN fn1.term
        BY <2>1 DEF IsShape
    <2> HIDE DEF fn1
    <2>6. Grown(fn1, {}, {} \cup NumbersOf(tr), Y, h)
        BY <2>1, <2>2, <2>3, <2>4, TreeGrows DEF X
    <2>7. h.term[d] = fn1.term[d]
        BY <2>5, <2>6 DEF Grown
    <2>8. QED  BY <2>1, <2>7
<1>12. N \cap Blocks(fn) = {}
    <2>1. \A n \in NumbersOf(tr) : n \in Nat /\ n > d
        BY DEF IsTree, NumbersOf
    <2>2. \A n \in NumbersOf(tr) : IsNumber(fn, n)
        BY <1>3, <2>1
    <2>3. \A n \in NumbersOf(tr) : n \notin Blocks(fn)
        BY <1>1, <2>2 DEF IsNumber, IsShape
    <2>4. QED  BY <1>2, <2>3
<1>13. Grown(fn, J, N, Others(fn, J) \cup N, h)
    BY <1>10 DEF Y, X
<1> HIDE DEF fn1
<1>14. IsPlanted(fn, J, default, d, N, h)
    <2>1. J \subseteq Blocks(fn)
        BY <1>1
    <2> HIDE DEF h
    <2>2. QED  BY <1>11, <1>12, <1>13, <2>1 DEF IsPlanted
<1>15. QED  BY <1>14 DEF WithTree, h, fn1, i

(* One switch is lowered.                                                   *)
LEMMA ProcessKeeps ==
    ASSUME NEW p, NEW fn, NEW J, Guarded(p, fn, J, "opaque"), NEW b \in Blocks(fn),
           fn.term[b].cond = "cases"
    PROVE  IsProcessed(p, fn, J, b, L!ProcessSwitch(fn, b))
<1> DEFINE X == Others(fn, J)
           t == fn.term[b]
           all == L!Clusterify(t, {})
           exact == t.vals # << >> /\ L!IsUnreachable(fn, t.to[1])
           default == IF exact THEN L!PopSucc(all) ELSE t.to[1]
           cs == IF exact THEN L!Clusterify(t, {default}) ELSE all
           newDefault == L!Fresh(fn)
           sw == [clusters |-> cs, newDefault |-> newDefault,
                  reachable |-> IF exact THEN L!ToSet(t.vals) ELSE L!Values]
           lo == IF exact THEN {L!Head(all).low} ELSE {}
           hi == IF exact THEN {L!Last(all).high} ELSE {}
           tree == L!SwitchConvert(sw, lo, hi, b)
           moved == Append(tree.moved, [of |-> default, by |-> newDefault, merged |-> 0])
           withDefault == L!AddBlock(fn, L!PlaceOf(fn, default), newDefault, << >>,
                                     L!Jump(default), << >>)
           withTree == L!FoldLeft(LAMBDA h, n : L!AddNode(h, b, n), withDefault, tree.blocks)
           z == [x \in DOMAIN withTree.from |->
                   IF x \in DOMAIN fn.from THEN L!FixPhis(fn.from, b, t, moved, x)
                                           ELSE withTree.from[x]]
           grown == [[withTree EXCEPT !.term[b] = L!Lowered(t, tree.root)] EXCEPT !.from = z]
           h == [grown EXCEPT !.layout = L!RemoveAt(@, L!PlaceOf(grown, t.to[1]))]
<1>1. L!ProcessSwitch(fn, b) =
         IF cs = << >> THEN [fn EXCEPT !.term[b] = L!Lowered(t, default)]
         ELSE IF L!Preds(grown, t.to[1]) = {} THEN h ELSE grown
    BY DEF L!ProcessSwitch
<1>2. /\ IsShape(fn) /\ b \notin J /\ IsTerm(t) /\ IsSwitch(X, t) /\ t.to[1] \in X
      /\ J \subseteq Blocks(fn) \ {Entry(fn)} /\ Entry(fn) \in Blocks(fn)
    BY SwitchIs, EntryIs DEF Guarded
<1>3. all \in Seq(Cluster(X)) /\ (t.vals # << >> => all # << >>)
    BY <1>2, ClustersAre
<1>4. exact => fn.term[t.to[1]].cond = "unreachable"
    BY DEF L!IsUnreachable
<1>5. lo \in SUBSET Int /\ hi \in SUBSET Int
    <2>1. CASE ~exact
        BY <2>1
    <2>2. CASE exact
        <3>1. all # << >> /\ all \in Seq(Cluster(X))
            BY <1>3, <2>2
        <3> HIDE DEF all
        <3>2. Len(all) \in Nat \ {0}
            BY <3>1
        <3>3. all[1] \in Cluster(X) /\ all[Len(all)] \in Cluster(X)
            BY <3>1, <3>2, ElementOfSeq
        <3>4. L!Head(all) = all[1] /\ L!Last(all) = all[Len(all)]
            BY <3>1 DEF L!Last
        <3>5. all[1].low \in Int /\ all[Len(all)].high \in Int
            BY <3>3 DEF Cluster
        <3>6. QED  BY <3>4, <3>5
    <2>3. QED  BY <2>1, <2>2
<1> HIDE DEF lo, hi
<1>6. default \in X
    <2>1. CASE ~exact
        BY <1>2, <2>1
    <2>2. CASE exact
        BY <1>3, <2>2, PopularIs
    <2>3. QED  BY <2>1, <2>2
<1>7. ~exact => default = t.to[1]
    OBVIOUS
<1> HIDE DEF default
<1>8. cs \in Seq(Cluster(X))
    <2>1. CASE ~exact
        BY <1>3, <2>1
    <2>2. CASE exact
        BY <1>2, <2>2, ClustersAre
    <2>3. QED  BY <2>1, <2>2
<1> HIDE DEF exact, cs, all
<1>9. CASE cs = << >>
    <2>1. IsProcessed(p, fn, J, b, [fn EXCEPT !.term[b] = L!Lowered(fn.term[b], default)])
        BY <1>6, JumpLowered DEF X
    <2>2. QED  BY <1>1, <1>9, <2>1
<1>10. CASE cs # << >>
    <2> DEFINE N == {newDefault} \cup NumbersOf(tree)
    <2>1. newDefault = Fresh(fn)
        BY SameInLower
    <2>2. newDefault \in Nat \ {0} /\ \A y \in Blocks(fn) : y < newDefault
        BY <1>2, <2>1, FreshIsNew
    <2> HIDE DEF newDefault
    <2>3. IsSplitting(X, sw) /\ sw.newDefault = newDefault
        BY <1>8, <1>10, <2>2 DEF IsSplitting
    <2>4. b \in Nat
        <3>1. PICK T : T = Nat \ {0} /\ fn.layout \in Seq(T)
            BY <1>2 DEF IsShape
        <3>2. \A q \in DOMAIN fn.layout : fn.layout[q] \in T
            BY <3>1, LenProperties, ElementOfSeq
        <3>3. QED  BY <3>1, <3>2 DEF Blocks, ToSet
    <2> HIDE DEF sw
    <2>5. IsTree(X, newDefault, tree)
        BY <1>5, <2>3, <2>4, ConvertsToTree
    <2>6. withTree = WithTree(fn, b, default, newDefault, tree)
        BY SameInLower DEF WithTree, Planted
    <2> HIDE DEF tree
    <2>7. /\ Grown(fn, J, N, X \cup N, withTree) /\ withTree.term[newDefault] = Jump(default)
          /\ N \cap J = {} /\ N \cap Blocks(fn) = {}
        <3> HIDE DEF withTree
        <3>1. PICK M : M = N /\ M = {newDefault} \cup NumbersOf(tree)
            OBVIOUS
        <3>2. IsPlanted(fn, J, default, newDefault, M, WithTree(fn, b, default, newDefault, tree))
            <4> HIDE DEF N
            <4>1. QED  BY <1>2, <1>6, <2>1, <2>5, <3>1, TreeIsPlanted DEF X
        <3> HIDE DEF N
        <3>3. QED  BY <2>6, <3>1, <3>2 DEF IsPlanted, X
    <2> HIDE DEF withTree
    <2>8. DOMAIN z = DOMAIN withTree.from
        OBVIOUS
    <2>9. tree.root \in X \cup N
        BY <2>5 DEF IsTree
    <2>10. X \cup N \subseteq (Blocks(fn) \cup N) \ (J \cup {Entry(fn)}) /\ Entry(fn) \notin N
        BY <1>2, <2>7 DEF Others
    <2> HIDE DEF z, N, moved
    <2>11. /\ Guarded(p, grown, J, "opaque")
           /\ grown.layout = withTree.layout /\ grown.code = withTree.code
           /\ grown.term[b] = L!Lowered(t, tree.root)
           /\ \A x \in DOMAIN withTree.term \ {b} : grown.term[x] = withTree.term[x]
           /\ DOMAIN grown.term = DOMAIN withTree.term
        <3>1. IsLowered(p, fn, J, b, withTree, tree.root, grown)
            <4>1. PICK m, Y : m = tree.root /\ Y = X \cup N
                OBVIOUS
            <4> HIDE DEF X
            <4>2. IsLowered(p, fn, J, b, withTree, m,
                            [[withTree EXCEPT !.term[b] = L!Lowered(fn.term[b], m)] EXCEPT !.from = z])
                BY <1>2, <2>7, <2>8, <2>9, <2>10, <4>1, LoweredGuards
            <4>3. QED  BY <4>1, <4>2
        <3> HIDE DEF grown
        <3>2. QED  BY <3>1 DEF IsLowered
    <2> HIDE DEF grown
    <2>12. Blocks(grown) = Blocks(fn) \cup N
        BY <2>7, <2>11 DEF Grown, Blocks
    <2>13. DOMAIN fn.term \subseteq DOMAIN grown.term
        BY <2>7, <2>11 DEF Grown
    <2>14. \A x \in DOMAIN fn.term \ {b} : grown.term[x] = fn.term[x]
        BY <2>7, <2>11 DEF Grown
    <2>15. grown.term[b].cond = "lowered"
        BY <1>2, <2>11 DEF L!Lowered, IsTerm
    <2>16. \A x \in N : grown.term[x].cond \in {"none", "below", "within"}
        <3>1. \A x \in N : x # b /\ x \in DOMAIN withTree.term
            BY <2>7 DEF Grown
        <3>2. QED  BY <2>7, <2>11, <3>1 DEF Grown, IsNewTerm
    <2>17. newDefault \in N /\ newDefault \in Blocks(grown) \ J /\ newDefault # Entry(grown)
        <3>1. newDefault \in N
            BY DEF N
        <3>2. Entry(grown) = Entry(fn)
            BY <2>11 DEF Guarded
        <3>3. QED  BY <2>7, <2>10, <2>12, <3>1, <3>2
    <2>18. CASE L!Preds(grown, t.to[1]) = {}
        <3>1. PICK x : x = t.to[1] /\ x \in Blocks(fn) \ (J \cup {Entry(fn)})
            BY <1>2 DEF Others
        <3>2. /\ x \in Blocks(grown) \ J /\ x # Entry(grown) /\ Preds(grown, x) = {}
              /\ x < newDefault
            BY <2>2, <2>11, <2>12, <2>18, <3>1, SameInLower DEF Guarded
        <3>3. exact
            <4>1. SUFFICES ASSUME ~exact PROVE FALSE
                OBVIOUS
            <4>2. default = x
                BY <1>7, <3>1, <4>1
            <4>3. grown.term[newDefault] = Jump(x)
                <5>1. newDefault # b /\ newDefault \in DOMAIN withTree.term
                    BY <2>7, <2>17 DEF Grown
                <5>2. QED  BY <2>7, <2>11, <4>2, <5>1
            <4>4. x \in ToSet(grown.term[newDefault].to)
                <5>1. grown.term[newDefault].to = <<x>>
                    BY <4>3, JumpIs
                <5>2. x \in ToSet(<<x>>)
                    BY DEF ToSet
                <5>3. QED  BY <5>1, <5>2
            <4>5. newDefault \in Preds(grown, x)
                BY <2>17, <4>4 DEF Preds
            <4>6. QED  BY <3>2, <4>5
        <3>4. h = [grown EXCEPT !.layout = RemoveAt(@, PlaceOf(grown, x))]
            BY <3>1, SameInLower
        <3> HIDE DEF h
        <3>5. /\ Guarded(p, h, J, "opaque")
              /\ Blocks(grown) \ {x} \subseteq Blocks(h) /\ Blocks(h) \subseteq Blocks(grown)
              /\ h.term = grown.term /\ h.code = grown.code
            BY <2>11, <2>17, <3>2, <3>4, RemoveKeeps
        <3>6. fn.term[x].cond = "unreachable"
            BY <1>4, <3>1, <3>3
        <3>7. \A y \in Blocks(fn) : y \in Blocks(h) \/ fn.term[y].cond = "unreachable"
            BY <2>12, <3>5, <3>6
        <3>8. Len(h.layout) > 1
            <4>1. newDefault \in Blocks(h) /\ newDefault # Entry(h) /\ IsShape(h)
                <5>1. newDefault # x
                    BY <2>7, <2>17, <3>1
                <5>2. QED  BY <2>11, <2>17, <3>5, <5>1 DEF Guarded
            <4>2. QED  BY <4>1, LongLayout
        <3>9. \A y \in Blocks(h) \ Blocks(fn) : h.term[y].cond \in {"none", "below", "within"}
            BY <2>12, <2>16, <3>5
        <3>10. IsProcessed(p, fn, J, b, h)
            BY <2>13, <2>14, <2>15, <3>5, <3>7, <3>8, <3>9 DEF IsProcessed
        <3>11. QED  BY <1>1, <1>10, <2>18, <3>10
    <2>19. CASE L!Preds(grown, t.to[1]) # {}
        <3>1. Len(grown.layout) > 1
            <4>1. IsShape(grown)
                BY <2>11 DEF Guarded
            <4>2. QED  BY <2>17, <4>1, LongLayout
        <3>2. IsProcessed(p, fn, J, b, grown)
            BY <2>11, <2>12, <2>13, <2>14, <2>15, <2>16, <3>1 DEF IsProcessed
        <3>3. QED  BY <1>1, <1>10, <2>19, <3>2
    <2>20. QED  BY <2>18, <2>19
<1>11. QED  BY <1>9, <1>10

(* The terminators of the function in which a switch has been lowered.         *)
LEMMA TermsOfLowered ==
    ASSUME NEW fn, HasFields(fn), NEW b \in DOMAIN fn.term, NEW u, NEW from, NEW layout
    PROVE  LET h == [[fn EXCEPT !.term[b] = u] EXCEPT !.from = from]
           IN  /\ h.term = [fn.term EXCEPT ![b] = u]
               /\ [h EXCEPT !.layout = layout].term = h.term
<1> DEFINE h == [[fn EXCEPT !.term[b] = u] EXCEPT !.from = from]
<1>1. PICK a, c, t, r : fn = [layout |-> a, code |-> c, term |-> t, from |-> r,
                              cases |-> << >>, default |-> 0]
    BY DEF HasFields
<1>2. fn.term = t
    BY <1>1
<1>3. PICK w : w = [t EXCEPT ![b] = u]
    OBVIOUS
<1>4. h = [[[layout |-> a, code |-> c, term |-> t, from |-> r, cases |-> << >>, default |-> 0]
            EXCEPT !.term = w] EXCEPT !.from = from]
    BY <1>1, <1>2, <1>3
<1> HIDE DEF h
<1>5. h = [layout |-> a, code |-> c, term |-> w, from |-> from, cases |-> << >>, default |-> 0]
    BY <1>4
<1>6. h.term = w /\ [h EXCEPT !.layout = layout].term = w
    BY <1>5
<1>7. QED  BY <1>2, <1>3, <1>6 DEF h

(* The blocks of W lead the value from x to y: y is in every set that has x   *)
(* and, with a block of W, the one its terminator leads to.                  *)
Leads(term, W, v, x, y) ==
    \A Z : x \in Z /\ (\A z \in W : z \in Z => NextOn(term[z], v) \in Z) => y \in Z

TermsWithTree(fn, b, default, d, tr, u) ==
    [WithTree(fn, b, default, d, tr).term EXCEPT ![b] = u]

(* The tree of a lowered switch is in the function, and the block that goes to *)
(* the default.                                                              *)
LEMMA TreeLeads ==
    ASSUME NEW p, NEW fn, NEW J, Guarded(p, fn, J, "opaque"), NEW b \in Blocks(fn),
           NEW default, NEW d, d = Fresh(fn), NEW Y, NEW tr, IsTree(Y, d, tr),
           NEW A, IsNumbered(tr, A), NEW v, NEW y, NEW x, Sends(tr, v, y),
           y = x \/ (y = d /\ x = default), NEW u, NEW term,
           term = TermsWithTree(fn, b, default, d, tr, u)
    PROVE  Leads(term, DOMAIN term \ DOMAIN fn.term, v, tr.root, x)
<1> DEFINE i == PlaceOf(fn, default)
           fn1 == AddBlock(fn, i, d, << >>, Jump(default), << >>)
           h == WithTree(fn, b, default, d, tr)
           N == {e.block : e \in ToSet(tr.blocks)}
<1>1. IsShape(fn) /\ HasFields(fn)
    BY DEF Guarded, IsShape
<1>2. /\ d \in Nat \ {0} /\ d \notin DOMAIN fn.term /\ b \in DOMAIN fn.term
    BY <1>1, FreshIsNew DEF IsShape
<1>3. HasFields(fn1) /\ fn1.term = Extended(fn.term, d, Jump(default))
    BY <1>1, AddTerms
<1> HIDE DEF fn1
<1>4. DOMAIN fn1.term = DOMAIN fn.term \cup {d} /\ fn1.term[d] = Jump(default)
    BY <1>3 DEF Extended
<1>5. h = Planted(fn1, b, tr.blocks)
    BY DEF WithTree, fn1
<1> HIDE DEF h
<1>6. /\ DOMAIN h.term = DOMAIN fn1.term \cup N
      /\ \A z \in DOMAIN fn1.term : z \notin N => h.term[z] = fn1.term[z]
      /\ \A e \in ToSet(tr.blocks) : IsAlone(tr.blocks, e) => h.term[e.block] = e.term
    <2>1. PICK nodes, T : nodes = tr.blocks /\ nodes \in Seq(T)
        BY DEF IsTree
    <2>2. QED  BY <1>3, <1>5, <2>1, PlantedTerms
<1>7. ASSUME NEW e \in ToSet(tr.blocks)
      PROVE  /\ e.block \in DOMAIN h.term /\ e.block \notin DOMAIN fn.term /\ e.block # d
             /\ h.term[e.block] = e.term
    <2>1. PICK n \in Nat : n = e.block /\ n > d
        BY DEF IsTree
    <2>2. PICK m \in Nat : m = Fresh(fn) /\ m = d
        BY <1>2
    <2>3. n >= m
        BY <2>1, <2>2
    <2>4. IsNumber(fn, n)
        BY <1>1, <2>2, <2>3, NumberAbove
    <2>5. IsAlone(tr.blocks, e)
        BY DEF IsAlone, IsNumbered
    <2>6. n # d
        BY <2>1, <2>2
    <2>7. QED  BY <1>6, <2>1, <2>4, <2>5, <2>6 DEF IsNumber
<1>8. d \notin N
    BY <1>7
<1>9. h.term[d] = Jump(default) /\ d \in DOMAIN h.term
    BY <1>4, <1>6, <1>8
<1>10. /\ DOMAIN term = DOMAIN h.term /\ d # b /\ term[d] = Jump(default)
       /\ \A e \in ToSet(tr.blocks) : term[e.block] = e.term
    <2>1. d # b /\ \A e \in ToSet(tr.blocks) : e.block # b
        BY <1>2, <1>7
    <2>2. \A z \in DOMAIN h.term : z # b => term[z] = h.term[z]
        BY DEF TermsWithTree, h
    <2>3. DOMAIN term = DOMAIN h.term
        BY DEF TermsWithTree, h
    <2>4. QED  BY <1>7, <1>9, <2>1, <2>2, <2>3
<1> HIDE DEF N
<1>11. SUFFICES ASSUME NEW Z, tr.root \in Z,
                       \A z \in DOMAIN term \ DOMAIN fn.term : z \in Z => NextOn(term[z], v) \in Z
                PROVE  x \in Z
    BY DEF Leads
<1>12. \A e \in ToSet(tr.blocks) : e.block \in Z => NextOn(e.term, v) \in Z
    BY <1>7, <1>10, <1>11
<1>13. y \in Z
    BY <1>11, <1>12 DEF Sends
<1>14. CASE y = d /\ x = default
    <2>1. NextOn(term[d], v) \in Z
        BY <1>2, <1>9, <1>10, <1>11, <1>13, <1>14
    <2>2. Jump(default).to = <<default>> /\ Jump(default).cond = "none"
        BY DEF Jump
    <2>3. NextOn(Jump(default), v) = default
        BY <2>2 DEF NextOn
    <2>4. QED  BY <1>10, <1>14, <2>1, <2>3
<1>15. QED  BY <1>13, <1>14

(* The value takes a way of the switch that b ends in.                       *)
Takes(fn, b, way, v) ==
    LET t == fn.term[b]
    IN  /\ t.cond = "cases" /\ t.vals \in Seq(L!Values) /\ IsInjective(t.vals)
        /\ way \in DOMAIN t.to /\ v \in L!ValuesOf(t, way)
        /\ way = 1 => ~IsUnreachable(fn, t.to[1])

(* A switch that is lowered goes where it went (LowerSwitch.cpp:195-353,       *)
(* 400-524): for every value that takes a way of the switch, the tests of the *)
(* blocks that take its place lead to the block of that way, whatever the      *)
(* cases are, how they are joined to ranges, which comparisons the bounds make *)
(* unnecessary, and which destination became the default when that of the     *)
(* switch cannot be reached.                                                *)
THEOREM SwitchGoesHome ==
    ASSUME NEW p, NEW fn, NEW J, Guarded(p, fn, J, "opaque"), NEW b \in Blocks(fn),
           NEW way, NEW v, Takes(fn, b, way, v), NEW term, term = L!ProcessSwitch(fn, b).term
    PROVE  /\ term[b].to # << >>
           /\ Leads(term, DOMAIN term \ DOMAIN fn.term, v, term[b].to[1], fn.term[b].to[way])
<1> DEFINE X == Others(fn, J)
           t == fn.term[b]
           h == L!ProcessSwitch(fn, b)
           all == L!Clusterify(t, {})
           exact == t.vals # << >> /\ L!IsUnreachable(fn, t.to[1])
           default == IF exact THEN L!PopSucc(all) ELSE t.to[1]
           without == IF exact THEN {default} ELSE {}
           cs == IF exact THEN L!Clusterify(t, {default}) ELSE all
           d == L!Fresh(fn)
           sw == [clusters |-> cs, newDefault |-> d,
                  reachable |-> IF exact THEN L!ToSet(t.vals) ELSE L!Values]
           lo == IF exact THEN {L!Head(all).low} ELSE {}
           hi == IF exact THEN {L!Last(all).high} ELSE {}
           tree == L!SwitchConvert(sw, lo, hi, b)
           moved == Append(tree.moved, [of |-> default, by |-> d, merged |-> 0])
           withDefault == L!AddBlock(fn, L!PlaceOf(fn, default), d, << >>, L!Jump(default), << >>)
           withTree == L!FoldLeft(LAMBDA k, n : L!AddNode(k, b, n), withDefault, tree.blocks)
           z == [x \in DOMAIN withTree.from |->
                   IF x \in DOMAIN fn.from THEN L!FixPhis(fn.from, b, t, moved, x)
                                           ELSE withTree.from[x]]
           grown == [[withTree EXCEPT !.term[b] = L!Lowered(t, tree.root)] EXCEPT !.from = z]
           cut == [grown EXCEPT !.layout = L!RemoveAt(@, L!PlaceOf(grown, t.to[1]))]
<1>0. /\ t.cond = "cases" /\ t.vals \in Seq(L!Values) /\ IsInjective(t.vals)
      /\ way \in DOMAIN t.to /\ v \in L!ValuesOf(t, way)
      /\ way = 1 => ~IsUnreachable(fn, t.to[1])
    BY DEF Takes
<1>1. h = IF cs = << >> THEN [fn EXCEPT !.term[b] = L!Lowered(t, default)]
          ELSE IF L!Preds(grown, t.to[1]) = {} THEN cut ELSE grown
    BY DEF L!ProcessSwitch
<1>2. /\ IsShape(fn) /\ HasFields(fn) /\ IsTerm(t) /\ IsSwitch(X, t) /\ t.to[1] \in X
      /\ b \in DOMAIN fn.term /\ b \in Nat
    <2>1. IsShape(fn) /\ HasFields(fn) /\ IsTerm(t) /\ IsSwitch(X, t) /\ t.to[1] \in X
        BY <1>0, SwitchIs DEF Guarded, IsShape
    <2>2. PICK T : T = Nat \ {0} /\ fn.layout \in Seq(T)
        BY <2>1 DEF IsShape
    <2>3. \A q \in DOMAIN fn.layout : fn.layout[q] \in T
        BY <2>2, LenProperties, ElementOfSeq
    <2>4. QED  BY <2>1, <2>2, <2>3 DEF Blocks, ToSet, IsShape
<1>3. ToSet(t.vals) \subseteq L!Values
    <2>1. \A q \in DOMAIN t.vals : t.vals[q] \in L!Values
        BY <1>0, LenProperties, ElementOfSeq
    <2>2. QED  BY <2>1 DEF ToSet
<1>4. all \in Seq(Cluster(X))
    BY <1>2, ClustersAre
<1>5. exact => way # 1
    BY <1>0 DEF L!IsUnreachable, IsUnreachable, L!IsPhi, IsPhi
<1>6. lo \in SUBSET Int /\ hi \in SUBSET Int
    <2>1. CASE exact
        <3>1. all # << >>
            BY <1>2, <2>1, ClustersAre
        <3> HIDE DEF all
        <3>2. PICK l \in Nat \ {0} : l = Len(all)
            BY <1>4, <3>1, LenProperties, EmptySeq
        <3>3. all[1] \in Cluster(X) /\ all[l] \in Cluster(X)
            BY <1>4, <3>2, ElementOfSeq
        <3>4. L!Head(all) = all[1] /\ L!Last(all) = all[l]
            BY <1>4, <3>1, <3>2 DEF L!Last
        <3>5. QED  BY <2>1, <3>3, <3>4 DEF Cluster
    <2>2. QED  BY <2>1
<1>7. ~exact => default = t.to[1]
    OBVIOUS
<1>8. cs = L!Clusterify(t, without)
    OBVIOUS
<1>9. cs \in Seq(Cluster(X)) /\ AreRanges(cs)
    <2> HIDE DEF without, cs
    <2>1. QED  BY <1>2, <1>3, <1>8, ClustersAre, ClustersCover
<1>10. v \in L!Values /\ (exact => v \in ToSet(t.vals))
    BY <1>0, <1>2, <1>3, <1>5, SwitchHome
<1>11. Bounds(lo, hi, v)
    <2>1. CASE exact
        <3>1. Bounds({L!Head(all).low}, {L!Last(all).high}, v)
            BY <1>2, <1>3, <1>10, <2>1, OuterBounds
        <3>2. QED  BY <2>1, <3>1
    <2>2. CASE ~exact
        BY <2>2 DEF Bounds
    <2>3. QED  BY <2>1, <2>2
<1>12. without = IF exact THEN {default} ELSE {}
    OBVIOUS
<1>13. d = Fresh(fn) /\ d \in Nat
    BY <1>2, SameInLower, FreshIsNew
<1>14. /\ sw.clusters = cs /\ sw.newDefault = d /\ v \in sw.reachable
       /\ sw.reachable \subseteq L!Values
    BY <1>3, <1>10, SameInLower
<1> HIDE DEF lo, hi, default, without, cs, exact, d, all
<1>15. TakeHome(cs, v, t.to[way], default)
    <2>1. LeavesOut(t, without, default, way)
        BY <1>5, <1>7, <1>12 DEF LeavesOut
    <2>2. PICK e, a, c, u, Y : e = default /\ a = without /\ c = cs /\ u = t /\ Y = X
        OBVIOUS
    <2>3. /\ IsSwitch(Y, u) /\ ToSet(u.vals) \subseteq L!Values /\ IsInjective(u.vals)
          /\ way \in DOMAIN u.to /\ v \in L!ValuesOf(u, way) /\ c = L!Clusterify(u, a)
          /\ LeavesOut(u, a, e, way)
        BY <1>0, <1>2, <1>3, <1>8, <2>1, <2>2
    <2>4. TakeHome(c, v, u.to[way], e)
        BY <2>3, ClustersTakeHome
    <2>5. QED  BY <2>2, <2>4
<1>16. ASSUME NEW u, NEW root, u = L!Lowered(t, root) PROVE u.to = <<root>>
    BY <1>2, <1>16 DEF L!Lowered, IsTerm
<1>17. CASE cs = << >>
    <2>1. t.to[way] = default
        <3>1. 1 .. Len(cs) = {}
            BY <1>17
        <3>2. QED  BY <1>15, <3>1 DEF TakeHome
    <2>2. PICK u : u = L!Lowered(t, default) /\ u.to = <<default>>
        BY <1>16
    <2>3. h = [fn EXCEPT !.term[b] = u]
        BY <1>1, <1>17, <2>2
    <2>4. h.term[b] = u
        <3>1. PICK a, c, e, r : fn = [layout |-> a, code |-> c, term |-> e, from |-> r,
                                      cases |-> << >>, default |-> 0]
            BY <1>2 DEF HasFields
        <3>2. fn.term = e
            BY <3>1
        <3>3. h.term = [e EXCEPT ![b] = u]
            BY <2>3, <3>1, <3>2
        <3>4. QED  BY <1>2, <3>2, <3>3
    <2>5. h.term[b].to # << >> /\ h.term[b].to[1] = t.to[way]
        <3>1. PICK m : m = default
            OBVIOUS
        <3>2. <<m>> # << >> /\ <<m>>[1] = m
            OBVIOUS
        <3>3. QED  BY <2>1, <2>2, <2>4, <3>1, <3>2
    <2>6. QED  BY <2>5 DEF Leads
<1>18. CASE cs # << >>
    <2>1. IsSplitting(X, sw)
        BY <1>9, <1>13, <1>14, <1>18 DEF IsSplitting
    <2> HIDE DEF sw
    <2>2. IsTree(X, d, tree)
        BY <1>2, <1>6, <1>14, <2>1, ConvertsToTree
    <2>3. PICK A : IsNumbered(tree, A)
        BY <1>2, <1>6, <2>1, ConversionIsNumbered
    <2>4. PICK y : /\ IsHome(sw, 1, Len(sw.clusters), v, y)
                   /\ y = t.to[way] \/ (y = d /\ t.to[way] = default)
        BY <1>14, <1>15 DEF IsHome, TakeHome
    <2>5. Sends(tree, v, y)
        BY <1>2, <1>6, <1>9, <1>11, <1>14, <2>1, <2>4, ConversionSends
    <2>6. withTree = WithTree(fn, b, default, d, tree)
        BY SameInLower DEF WithTree, Planted
    <2>7. HasFields(withTree) /\ b \in DOMAIN withTree.term
        <3> DEFINE fn1 == AddBlock(fn, PlaceOf(fn, default), d, << >>, Jump(default), << >>)
        <3>1. HasFields(fn1) /\ fn1.term = Extended(fn.term, d, Jump(default))
            BY <1>2, AddTerms
        <3>2. withTree = Planted(fn1, b, tree.blocks)
            BY <2>6 DEF WithTree
        <3> HIDE DEF fn1, tree, withTree
        <3>3. b \in DOMAIN fn1.term
            BY <1>2, <3>1 DEF Extended
        <3>4. PICK nodes, T : nodes = tree.blocks /\ nodes \in Seq(T)
            BY <2>2 DEF IsTree
        <3>5. QED  BY <3>1, <3>2, <3>3, <3>4, PlantedTerms
    <2> HIDE DEF tree, withTree, z
    <2>8. PICK u : u = L!Lowered(t, tree.root) /\ u.to = <<tree.root>>
        BY <1>16
    <2>9. h.term = [withTree.term EXCEPT ![b] = u]
        <3>1. grown = [[withTree EXCEPT !.term[b] = u] EXCEPT !.from = z]
            BY <2>8
        <3>2. PICK layout : layout = L!RemoveAt(grown.layout, L!PlaceOf(grown, t.to[1]))
            OBVIOUS
        <3>3. cut = [grown EXCEPT !.layout = layout]
            BY <3>2
        <3> HIDE DEF cut, grown
        <3>4. grown.term = [withTree.term EXCEPT ![b] = u] /\ cut.term = grown.term
            BY <2>7, <3>1, <3>3, TermsOfLowered
        <3>5. h = cut \/ h = grown
            BY <1>1, <1>18
        <3>6. QED  BY <3>4, <3>5
    <2>10. h.term[b] = u
        BY <2>7, <2>9
    <2>11. Leads(term, DOMAIN term \ DOMAIN fn.term, v, tree.root, t.to[way])
        <3>1. PICK e, k, tr, x, Y :
                  e = default /\ k = d /\ tr = tree /\ x = t.to[way] /\ Y = X
            OBVIOUS
        <3>2. term = TermsWithTree(fn, b, e, k, tr, u)
            BY <2>6, <2>9, <3>1 DEF TermsWithTree
        <3>3. /\ k = Fresh(fn) /\ IsTree(Y, k, tr) /\ IsNumbered(tr, A) /\ Sends(tr, v, y)
              /\ y = x \/ (y = k /\ x = e)
            BY <1>13, <2>2, <2>3, <2>4, <2>5, <3>1
        <3>4. Leads(term, DOMAIN term \ DOMAIN fn.term, v, tr.root, x)
            BY <3>2, <3>3, TreeLeads
        <3>5. QED  BY <3>1, <3>4
    <2>12. h.term[b].to # << >> /\ h.term[b].to[1] = tree.root
        <3>1. PICK m : m = tree.root
            OBVIOUS
        <3>2. <<m>> # << >> /\ <<m>>[1] = m
            OBVIOUS
        <3>3. QED  BY <2>8, <2>10, <3>1, <3>2
    <2>13. QED  BY <2>11, <2>12
<1>19. QED  BY <1>17, <1>18

(* The blocks are lowered one after the other.                                 *)
IsLowerFold(base, nodes, n, h) ==
    h = [s \in SUBSET (1 .. n) |->
           IF s = {} THEN base ELSE L!LowerBlock(h[s \ {Max(s)}], nodes[Max(s)])]

LEMMA LowerFoldExists ==
    ASSUME NEW base, NEW nodes, NEW n \in Nat
    PROVE  \E h : IsLowerFold(base, nodes, n, h)
<1> DEFINE T == {m \in Nat : \E h : IsLowerFold(base, nodes, m, h)}
<1>1. 0 \in T
    <2> DEFINE h == [s \in SUBSET (1 .. 0) |-> base]
    <2>1. \A s \in SUBSET (1 .. 0) : s = {}
        OBVIOUS
    <2>2. IsLowerFold(base, nodes, 0, h)
        BY <2>1 DEF IsLowerFold
    <2>3. QED  BY <2>2
<1>2. ASSUME NEW m \in Nat, m \in T PROVE m + 1 \in T
    <2>1. PICK h : IsLowerFold(base, nodes, m, h)
        BY <1>2
    <2>2. \A s \in SUBSET (1 .. m) :
             h[s] = IF s = {} THEN base ELSE L!LowerBlock(h[s \ {Max(s)}], nodes[Max(s)])
        BY <2>1 DEF IsLowerFold
    <2> DEFINE k == [s \in SUBSET (1 .. m + 1) |->
                       IF s \subseteq 1 .. m THEN h[s]
                       ELSE L!LowerBlock(h[s \ {Max(s)}], nodes[Max(s)])]
    <2>3. \A s \in SUBSET (1 .. m + 1) :
             k[s] = IF s = {} THEN base ELSE L!LowerBlock(k[s \ {Max(s)}], nodes[Max(s)])
        <3> TAKE s \in SUBSET (1 .. m + 1)
        <3>1. CASE s = {}
            <4>1. s \subseteq 1 .. m
                BY <3>1
            <4>2. QED  BY <2>2, <3>1, <4>1
        <3>2. CASE s # {}
            <4>1. s \ {Max(s)} \in SUBSET (1 .. m)
                BY <3>2, LastPlace
            <4>2. k[s \ {Max(s)}] = h[s \ {Max(s)}]
                BY <4>1
            <4>3. k[s] = L!LowerBlock(h[s \ {Max(s)}], nodes[Max(s)])
                BY <2>2, <3>2
            <4> HIDE DEF k
            <4>4. QED  BY <3>2, <4>2, <4>3
        <3>3. QED  BY <3>1, <3>2
    <2>4. DOMAIN k = SUBSET (1 .. m + 1) /\ k = [s \in DOMAIN k |-> k[s]]
        OBVIOUS
    <2> HIDE DEF k
    <2>5. IsLowerFold(base, nodes, m + 1, k)
        BY <2>3, <2>4 DEF IsLowerFold
    <2>6. QED  BY <2>5
<1>3. Nat \subseteq T
    <2> HIDE DEF T
    <2>1. QED  BY <1>1, <1>2, NatSetInduction
<1>4. QED  BY <1>3

AreLowered(base, nodes, low) ==
    /\ low[0] = base
    /\ \A i \in 1 .. Len(nodes) : low[i] = L!LowerBlock(low[i - 1], nodes[i])

(* The fold over the blocks that runOnFunction is.                          *)
LEMMA LoweredIs ==
    ASSUME NEW base, NEW T, NEW nodes \in Seq(T)
    PROVE  \E low : /\ AreLowered(base, nodes, low)
                      /\ L!FoldLeft(L!LowerBlock, base, nodes) = low[Len(nodes)]
<1> DEFINE n == Len(nodes)
           F1(h) == [s \in SUBSET (1 .. n) |->
                       IF s = {} THEN base ELSE L!LowerBlock(h[s \ {Max(s)}], nodes[Max(s)])]
           fold == CHOOSE h : h = F1(h)
<1>1. n \in Nat /\ DOMAIN nodes = 1 .. n
    BY LenProperties
<1>2. L!FoldLeft(L!LowerBlock, base, nodes) = fold[1 .. n]
    <2>1. \A A : L!Max(A) = Max(A)
        BY DEF L!Max, Max
    <2>2. QED  BY <1>1, <2>1 DEF L!FoldLeft, L!MapThenFoldSet
<1>3. fold = F1(fold)
    <2>1. PICK h : IsLowerFold(base, nodes, n, h)
        BY <1>1, LowerFoldExists
    <2>2. h = F1(h)
        BY <2>1 DEF IsLowerFold
    <2>3. QED  BY <2>2
<1> HIDE DEF fold
<1>4. \A s \in SUBSET (1 .. n) :
         fold[s] = IF s = {} THEN base ELSE L!LowerBlock(fold[s \ {Max(s)}], nodes[Max(s)])
    BY <1>3
<1> DEFINE low == [i \in 0 .. n |-> fold[1 .. i]]
<1>5. low[0] = base
    <2>1. 1 .. 0 = {} /\ {} \in SUBSET (1 .. n) /\ 0 \in 0 .. n
        BY <1>1
    <2>2. fold[1 .. 0] = base
        <3>1. fold[{}] = base
            BY <1>4, <2>1
        <3>2. QED  BY <2>1, <3>1
    <2>3. low[0] = fold[1 .. 0]
        BY <2>1
    <2>4. QED  BY <2>2, <2>3
<1>6. ASSUME NEW i \in 1 .. n PROVE low[i] = L!LowerBlock(low[i - 1], nodes[i])
    <2>1. i \in Nat /\ i # 0 /\ 1 .. i \in SUBSET (1 .. n) /\ i \in 0 .. n /\ i - 1 \in 0 .. n
        BY <1>1
    <2>2. 1 .. i # {} /\ Max(1 .. i) = i /\ (1 .. i) \ {i} = 1 .. i - 1
        BY <2>1, MaxOfInterval
    <2>3. low[i] = fold[1 .. i] /\ low[i - 1] = fold[1 .. i - 1]
        BY <2>1
    <2> HIDE DEF low
    <2>4. QED  BY <1>4, <2>1, <2>2, <2>3
<1>7. low[n] = fold[1 .. n]
    BY <1>1
<1> HIDE DEF low
<1>8. AreLowered(base, nodes, low)
    BY <1>5, <1>6 DEF AreLowered
<1>9. QED  BY <1>2, <1>7, <1>8

IsLowering(p, fn, J, h) ==
    /\ Guarded(p, h, J, "opaque")
    /\ Blocks(fn) \subseteq DOMAIN h.term
    /\ \A x \in Blocks(fn) : x \in Blocks(h) \/ h.term[x].cond = "unreachable"
    /\ \A x \in Blocks(h) :
          h.term[x].cond = "invoke" => \E y \in Blocks(fn) : fn.term[y].cond = "invoke"
    /\ \/ h = fn
       \/ Len(h.layout) > 1 /\ \E x \in Blocks(fn) : fn.term[x].cond = "cases"

(* One round of the fold.                                                   *)
LEMMA BlockLowers ==
    ASSUME NEW p, NEW fn, NEW J, NEW h, IsLowering(p, fn, J, h), NEW b \in Blocks(fn),
           \A x \in Blocks(fn) : h.term[x].cond = "cases" => fn.term[x].cond = "cases",
           NEW r, r = L!LowerBlock(h, b)
    PROVE  /\ IsLowering(p, fn, J, r)
           /\ \A x \in Blocks(fn) : r.term[x].cond = "cases" => fn.term[x].cond = "cases"
<1>1. CASE h.term[b].cond # "cases"
    BY <1>1 DEF L!LowerBlock
<1>2. CASE h.term[b].cond = "cases"
    <2>1. r = L!ProcessSwitch(h, b)
        BY <1>2 DEF L!LowerBlock
    <2>2. b \in Blocks(h)
        BY <1>2 DEF IsLowering
    <2>3. IsProcessed(p, h, J, b, r)
        BY <1>2, <2>1, <2>2, ProcessKeeps DEF IsLowering
    <2>4. \A x \in DOMAIN h.term \ {b} : r.term[x] = h.term[x]
        BY <2>3 DEF IsProcessed
    <2>5. r.term[b].cond = "lowered"
        BY <2>3 DEF IsProcessed
    <2>6. Blocks(fn) \subseteq DOMAIN r.term
        BY <2>3 DEF IsProcessed, IsLowering
    <2>7. ASSUME NEW x \in Blocks(fn) PROVE x \in Blocks(r) \/ r.term[x].cond = "unreachable"
        <3>1. x = b => x \in Blocks(r)
            <4>1. h.term[b].cond # "unreachable"
                BY <1>2
            <4>2. QED  BY <2>2, <2>3, <4>1 DEF IsProcessed
        <3>2. x \in Blocks(h) => x \in Blocks(r) \/ h.term[x].cond = "unreachable"
            BY <2>3 DEF IsProcessed
        <3>3. x # b => r.term[x] = h.term[x]
            BY <2>4 DEF IsLowering
        <3>4. QED  BY <3>1, <3>2, <3>3 DEF IsLowering
    <2>8. ASSUME NEW x \in Blocks(r), r.term[x].cond = "invoke"
          PROVE  \E y \in Blocks(fn) : fn.term[y].cond = "invoke"
        <3>1. x \in Blocks(h)
            BY <2>3, <2>8 DEF IsProcessed
        <3>2. x # b /\ x \in DOMAIN h.term
            BY <2>5, <2>8, <3>1 DEF IsLowering, Guarded, IsShape
        <3>3. h.term[x].cond = "invoke"
            BY <2>4, <2>8, <3>2
        <3>4. QED  BY <3>1, <3>3 DEF IsLowering
    <2>9. \A x \in Blocks(fn) : r.term[x].cond = "cases" => fn.term[x].cond = "cases"
        BY <2>4, <2>5 DEF IsLowering
    <2>10. Len(r.layout) > 1 /\ Guarded(p, r, J, "opaque")
        BY <2>3 DEF IsProcessed
    <2>11. \E x \in Blocks(fn) : fn.term[x].cond = "cases"
        BY <1>2
    <2>12. IsLowering(p, fn, J, r)
        BY <2>6, <2>7, <2>8, <2>10, <2>11 DEF IsLowering
    <2>13. QED  BY <2>9, <2>12
<1>3. QED  BY <1>1, <1>2

(* The pass LowerSwitch as a whole.                                         *)
LEMMA LowerSwitchKeeps ==
    ASSUME NEW p, NEW fn, NEW J, Guarded(p, fn, J, "opaque")
    PROVE  IsLowering(p, fn, J, L!LowerSwitch(fn))
<1>1. PICK T, nodes : T = Nat \ {0} /\ nodes = fn.layout /\ nodes \in Seq(T)
    BY DEF Guarded, IsShape
<1> DEFINE n == Len(nodes)
<1>2. n \in Nat /\ DOMAIN nodes = 1 .. n /\ \A i \in 1 .. n : nodes[i] \in Blocks(fn)
    BY <1>1, LenProperties DEF Blocks, ToSet
<1>3. PICK low : AreLowered(fn, nodes, low) /\ L!FoldLeft(L!LowerBlock, fn, nodes) = low[n]
    BY <1>1, LoweredIs
<1>4. L!LowerSwitch(fn) = low[n]
    BY <1>1, <1>3 DEF L!LowerSwitch
<1> HIDE DEF n
<1> DEFINE Good(h) == /\ IsLowering(p, fn, J, h)
                      /\ \A x \in Blocks(fn) : h.term[x].cond = "cases" => fn.term[x].cond = "cases"
           T_1 == {i \in Nat : i <= n => Good(low[i])}
<1>5. 0 \in T_1
    <2>1. low[0] = fn
        BY <1>3 DEF AreLowered
    <2>2. IsLowering(p, fn, J, fn)
        BY DEF IsLowering, Guarded, IsShape
    <2>3. Good(fn)
        BY <2>2
    <2> HIDE DEF Good
    <2>4. QED  BY <2>1, <2>3
<1>6. ASSUME NEW i \in Nat, i \in T_1 PROVE i + 1 \in T_1
    <2> SUFFICES ASSUME i + 1 <= n PROVE Good(low[i + 1])
        <3> HIDE DEF Good
        <3>1. QED  OBVIOUS
    <2>1. Good(low[i]) /\ i + 1 \in 1 .. n /\ (i + 1) - 1 = i
        <3> HIDE DEF Good
        <3>1. QED  BY <1>2, <1>6
    <2>2. PICK h, b, r : h = low[i] /\ b = nodes[i + 1] /\ r = low[i + 1]
        OBVIOUS
    <2>3. r = L!LowerBlock(h, b) /\ b \in Blocks(fn)
        BY <1>2, <1>3, <2>1, <2>2 DEF AreLowered, n
    <2>4. Good(r)
        <3>1. Good(h)
            BY <2>1, <2>2
        <3>2. QED  BY <2>3, <3>1, BlockLowers
    <2> HIDE DEF Good
    <2>5. QED  BY <2>2, <2>4
<1>7. Nat \subseteq T_1
    <2> HIDE DEF T_1
    <2>1. QED  BY <1>5, <1>6, NatSetInduction
<1>8. Good(low[n])
    <2> HIDE DEF Good
    <2>1. QED  BY <1>2, <1>7
<1>9. QED  BY <1>4, <1>8

-----------------------------------------------------------------------------
(* doF gives the branches that are always taken another condition.            *)
LEMMA DoFKeeps ==
    ASSUME NEW p, NEW fn, NEW J, Guarded(p, fn, J, "true")
    PROVE  /\ Guarded(p, B!DoF(fn), J, "opaque")
           /\ PhisKept(fn) => PhisKept(B!DoF(fn))
           /\ Once(fn) => Once(B!DoF(fn))
<1> DEFINE opaque(t) == IF t.cond = "true" THEN [t EXCEPT !.cond = "opaque"] ELSE t
           z == [b \in DOMAIN fn.term |-> opaque(fn.term[b])]
           h == B!DoF(fn)
<1>1. PICK a, c, u, o : fn = [layout |-> a, code |-> c, term |-> u, from |-> o,
                              cases |-> << >>, default |-> 0]
    BY DEF Guarded, IsShape, HasFields
<1>2. fn.layout = a /\ fn.code = c /\ fn.term = u /\ fn.from = o
    BY <1>1
<1>3. h = [layout |-> a, code |-> c, term |-> z, from |-> o, cases |-> << >>, default |-> 0]
    <2>1. h = [fn EXCEPT !.term = z]
        BY DEF B!DoF
    <2> HIDE DEF h, z
    <2>2. QED  BY <1>1, <2>1
<1> HIDE DEF h
<1>4. /\ h.layout = fn.layout /\ h.code = fn.code /\ h.from = fn.from /\ h.term = z
      /\ HasFields(h)
    BY <1>2, <1>3 DEF HasFields
<1>5. Blocks(h) = Blocks(fn) /\ Entry(h) = Entry(fn)
    BY <1>4 DEF Blocks, Entry
<1>6. IsShape(fn)
    BY DEF Guarded
<1>7. IsShape(h)
    BY <1>4, <1>5, <1>6 DEF IsShape
<1>8. ASSUME NEW t, IsTerm(t)
      PROVE  /\ IsTerm(opaque(t)) /\ opaque(t).to = t.to /\ opaque(t).sets = t.sets
             /\ opaque(t).orig = t.orig
             /\ opaque(t).cond = IF t.cond = "true" THEN "opaque" ELSE t.cond
             /\ t.cond # "true" => opaque(t) = t
    BY <1>8 DEF IsTerm
<1>9. ASSUME NEW b \in Blocks(fn) PROVE IsTerm(fn.term[b]) /\ h.term[b] = opaque(fn.term[b])
    <2>1. b \in DOMAIN fn.term
        BY <1>6 DEF IsShape
    <2>2. IsTerm(fn.term[b])
        BY DEF Guarded, IsExit, IsJunkExit
    <2> HIDE DEF opaque
    <2>3. QED  BY <1>4, <2>1, <2>2
<1> HIDE DEF opaque, z
<1>10. ASSUME NEW b \in Blocks(fn) \ J PROVE IsExit(p, h, J, "opaque", h.term[b])
    <2>1. PICK t, s : t = fn.term[b] /\ s = opaque(t) /\ IsExit(p, fn, J, "true", t)
        BY DEF Guarded
    <2>2. /\ IsTerm(s) /\ s.to = t.to /\ s.sets = t.sets /\ s.orig = t.orig
          /\ s.cond = IF t.cond = "true" THEN "opaque" ELSE t.cond
          /\ t.cond # "true" => s = t
        BY <1>8, <2>1 DEF IsExit
    <2>3. GoesOn(h, J, "opaque", s)
        BY <1>5, <2>1, <2>2 DEF IsExit, GoesOn
    <2>4. IsExit(p, h, J, "opaque", s)
        BY <1>5, <2>1, <2>2, <2>3 DEF IsExit
    <2>5. QED  BY <1>9, <2>1, <2>4
<1>11. ASSUME NEW b \in J PROVE IsJunkExit(h.term[b])
    <2>1. b \in Blocks(fn) /\ IsJunkExit(fn.term[b])
        BY DEF Guarded
    <2>2. QED  BY <1>8, <1>9, <2>1 DEF IsJunkExit
<1>12. HasOther(h, J) /\ JunkIsLast(h.layout, J)
    BY <1>4, <1>5 DEF Guarded, HasOther
<1>13. Guarded(p, h, J, "opaque")
    BY <1>4, <1>5, <1>7, <1>10, <1>11, <1>12 DEF Guarded
<1>14. \A b \in Blocks(fn) : h.term[b].to = fn.term[b].to
    BY <1>8, <1>9
<1>15. \A b : Preds(h, b) = Preds(fn, b)
    BY <1>5, <1>14 DEF Preds
<1>16. PhisKept(fn) => PhisKept(h)
    BY <1>4, <1>5, <1>15 DEF PhisKept
<1>17. Once(fn) => Once(h)
    <2>1. \A b \in Blocks(fn) : h.term[b].cond \in {"cases", "invoke"} => h.term[b].cond = fn.term[b].cond
        BY <1>8, <1>9
    <2>2. QED  BY <1>5, <2>1 DEF Once
<1>18. QED  BY <1>13, <1>16, <1>17 DEF h

(* Without an altered block the branches need no condition.                   *)
LEMMA NoneAltered ==
    ASSUME NEW p, NEW fn, NEW c, Guarded(p, fn, {}, c), NEW d
    PROVE  Guarded(p, fn, {}, d)
<1>1. ASSUME NEW b \in Blocks(fn) PROVE IsExit(p, fn, {}, d, fn.term[b])
    <2>1. IsExit(p, fn, {}, c, fn.term[b])
        BY DEF Guarded
    <2>2. fn.term[b].to \in Seq(Blocks(fn) \ {})
        <3>1. fn.term[b].to \in Seq(Blocks(fn) \ {Entry(fn)})
            BY <2>1 DEF IsExit
        <3>2. Blocks(fn) \ {Entry(fn)} \subseteq Blocks(fn) \ {}
            OBVIOUS
        <3>3. QED  BY <3>1, <3>2, SeqGrows
    <2>3. QED  BY <2>1, <2>2 DEF IsExit, GoesOn
<1>2. QED  BY <1>1 DEF Guarded

(* What LLVM's verifier accepts is where the passes start.                    *)
LEMMA WellFormedGuards ==
    ASSUME NEW fn, WellFormed(fn)
    PROVE  Guarded(fn, fn, {}, "true") /\ PhisKept(fn)
<1>1. HasFields(fn)
    BY DEF WellFormed, HasFields
<1>2. /\ fn.layout \in Seq(Nat \ {0}) /\ fn.layout # << >>
      /\ DOMAIN fn.code = Blocks(fn) /\ DOMAIN fn.term = Blocks(fn) /\ DOMAIN fn.from = Blocks(fn)
    BY DEF WellFormed
<1>3. Blocks(fn) \subseteq Nat \ {0}
    <2>1. PICK T : T = Nat \ {0} /\ fn.layout \in Seq(T)
        BY <1>2
    <2>2. \A q \in DOMAIN fn.layout : fn.layout[q] \in T
        BY <2>1, LenProperties, ElementOfSeq
    <2>3. QED  BY <2>1, <2>2 DEF Blocks, ToSet
<1>4. ASSUME NEW b \in Blocks(fn)
      PROVE  /\ fn.code[b] \in Seq([kind : {"phi", "op"}, at : {b} \X Nat])
             /\ PhisFirst(fn.code[b])
             /\ {"to", "cond", "sets", "orig"} \subseteq DOMAIN fn.term[b]
             /\ fn.term[b].to \in Seq(Blocks(fn) \ {Entry(fn)}) /\ fn.term[b].sets = << >>
             /\ fn.term[b].orig = b
             /\ fn.term[b].cond \in {"none", "data", "invoke", "true", "cases", "unreachable"}
             /\ fn.term[b].cond = "cases" =>
                    /\ "vals" \in DOMAIN fn.term[b] /\ fn.term[b].vals \in Seq(L!Values)
                    /\ Len(fn.term[b].to) = Len(fn.term[b].vals) + 1
             /\ DOMAIN fn.from[b] = Preds(fn, b)
    BY DEF WellFormed, PhisFirst
<1>5. ASSUME NEW b \in Blocks(fn) PROVE fn.code[b] \in Seq(Instructions) /\ NoJunk(fn.code[b])
    <2> DEFINE I == [kind : {"phi", "op"}, at : {b} \X Nat]
    <2>1. I \subseteq Instructions /\ \A i \in I : i.kind # "junk"
        BY <1>3 DEF Instructions
    <2>2. fn.code[b] \in Seq(I)
        BY <1>4
    <2> HIDE DEF I
    <2>3. \A i \in DOMAIN fn.code[b] : fn.code[b][i] \in I
        BY <2>2, LenProperties, ElementOfSeq
    <2>4. fn.code[b] \in Seq(Instructions)
        BY <2>1, <2>2, SeqGrows
    <2>5. QED  BY <2>1, <2>3, <2>4 DEF NoJunk
<1>6. IsShape(fn)
    BY <1>1, <1>2, <1>3, <1>5 DEF IsShape
<1>7. ASSUME NEW b \in Blocks(fn) PROVE IsExit(fn, fn, {}, "true", fn.term[b])
    <2>1. PICK t : t = fn.term[b]
        OBVIOUS
    <2>2. t.to \in Seq(Blocks(fn) \ {})
        <3>1. t.to \in Seq(Blocks(fn) \ {Entry(fn)})
            BY <1>4, <2>1
        <3>2. Blocks(fn) \ {Entry(fn)} \subseteq Blocks(fn) \ {}
            OBVIOUS
        <3>3. QED  BY <3>1, <3>2, SeqGrows
    <2>3. t.cond = "cases" => t.vals \in Seq(Int)
        <3>1. L!Values \subseteq Int
            BY DEF L!Values
        <3>2. QED  BY <1>4, <2>1, <3>1, SeqGrows
    <2>4. QED  BY <1>4, <2>1, <2>2, <2>3 DEF IsExit, IsTerm, GoesOn
<1>8. Guarded(fn, fn, {}, "true")
    BY <1>5, <1>6, <1>7 DEF Guarded, HasOther, JunkIsLast
<1>9. QED  BY <1>4, <1>8 DEF PhisKept

-----------------------------------------------------------------------------
(* What the passes keep from one step to the next.                            *)
Guards ==
    /\ \E k \in Compilations : g = k.function /\ passes = k.passes
    /\ pass \in {"split", "bogus", "flatten", "run"}
    /\ pass # "run" => at = <<Entry(g), 1>>
    /\ pass \in {"split", "bogus"} => todo \in Seq(Blocks(f))
    /\ pass = "split" => Guarded(g, f, {}, "true")
    /\ pass = "bogus" =>
          \E J : Guarded(g, f, J, "true") /\ ("bogus" \notin passes => J = {})
    /\ pass = "flatten" => \E J : Guarded(g, f, J, "opaque")

LEMMA LayoutIsOfBlocks ==
    ASSUME NEW fn, IsShape(fn)
    PROVE  fn.layout \in Seq(Blocks(fn))
<1>1. PICK T : T = Nat \ {0} /\ fn.layout \in Seq(T) /\ ToSet(fn.layout) \subseteq Blocks(fn)
    BY DEF IsShape, Blocks
<1>2. QED  BY <1>1, SeqWithin

(* What a compilation starts with.                                          *)
LEMMA InitGuards ==
    ASSUME Init
    PROVE  Guards /\ PhisKept(f)
<1>1. PICK k \in Compilations : g = k.function /\ passes = k.passes
    BY DEF Init
<1>2. Guarded(g, g, {}, "true") /\ PhisKept(g)
    BY <1>1, CompilationsAssumption, WellFormedGuards
<1>3. todo = g.layout
    BY DEF Init, S!SplitInit
<1>4. g.layout \in Seq(Blocks(g))
    BY <1>2, LayoutIsOfBlocks DEF Guarded
<1>5. QED  BY <1>1, <1>2, <1>3, <1>4 DEF Init, Guards

(* A step of SplitBasicBlocks.                                              *)
LEMMA SplitStep ==
    ASSUME Guarded(g, f, {}, "true"), todo \in Seq(Blocks(f)), S!SplitNext
    PROVE  /\ Guarded(g, f', {}, "true") /\ Keeps(f, f') /\ todo' \in Seq(Blocks(f'))
           /\ \A c : KeepsParts(f, f', c)
<1> DEFINE b == Head(todo)
<1>1. todo # << >> /\ todo' = Tail(todo)
    BY DEF S!SplitNext
<1>2. b \in Blocks(f) /\ Tail(todo) \in Seq(Blocks(f))
    <2>1. PICK A : A = Blocks(f) /\ todo \in Seq(A)
        OBVIOUS
    <2>2. Head(todo) \in A /\ Tail(todo) \in Seq(A)
        BY <1>1, <2>1, HeadTailProperties
    <2>3. QED  BY <2>1, <2>2
<1>3. /\ S!Splits(b) => \E points \in S!ChosenPoints(b) : f' = S!CutAll(b, points)
      /\ ~S!Splits(b) => f' = f
    BY DEF S!SplitNext
<1> HIDE DEF b
<1>4. Guarded(g, f', {}, "true") /\ Keeps(f, f') /\ \A c : KeepsParts(f, f', c)
    <2>1. CASE S!Splits(b)
        <3>1. PICK points \in S!ChosenPoints(b) : f' = S!CutAll(b, points)
            BY <1>3, <2>1
        <3>2. ~HasPhi(f.code[b])
            BY <2>1 DEF S!Splits, S!IsPhi, HasPhi, IsPhi
        <3>3. PICK n \in Nat : n = Len(f.code[b])
            <4>1. f.code[b] \in Seq(Instructions)
                BY <1>2 DEF Guarded, IsShape
            <4>2. Len(f.code[b]) \in Nat
                BY <4>1, LenProperties
            <4>3. QED  BY <4>2
        <3>4. InRange(n, points)
            BY <3>1, <3>3, ChosenAreInRange
        <3>5. QED  BY <1>2, <3>1, <3>2, <3>3, <3>4, CutAllKeeps
    <2>2. CASE ~S!Splits(b)
        BY <1>3, <2>2 DEF Keeps, KeepsParts
    <2>3. QED  BY <2>1, <2>2
<1>5. todo' \in Seq(Blocks(f'))
    <2>1. Blocks(f) \subseteq Blocks(f')
        BY <1>4 DEF Keeps
    <2>2. QED  BY <1>1, <1>2, <2>1, SeqGrows
<1>6. QED  BY <1>4, <1>5

(* A step of BogusControlFlow.                                              *)
LEMMA BogusStep ==
    ASSUME NEW J, Guarded(g, f, J, "true"), todo \in Seq(Blocks(f)), B!BogusNext
    PROVE  /\ \E K : Guarded(g, f', K, "true")
           /\ Keeps(f, f') /\ todo' \in Seq(Blocks(f')) /\ KeepsParts(f, f', "true")
<1>1. CASE B!BogusBlock
    <2>1. todo # << >> /\ todo' = Tail(todo)
        BY <1>1 DEF B!BogusBlock
    <2>2. Head(todo) \in Blocks(f) /\ Tail(todo) \in Seq(Blocks(f))
        <3>1. PICK A : A = Blocks(f) /\ todo \in Seq(A)
            OBVIOUS
        <3>2. Head(todo) \in A /\ Tail(todo) \in Seq(A)
            BY <2>1, <3>1, HeadTailProperties
        <3>3. QED  BY <3>1, <3>2
    <2>3. f' = f \/ f' = B!AddBogusFlow(f, Head(todo))
        BY <1>1 DEF B!BogusBlock
    <2>4. CASE f' = f
        BY <2>1, <2>2, <2>4 DEF Keeps, KeepsParts
    <2>5. CASE f' = B!AddBogusFlow(f, Head(todo))
        <3>1. PICK b : b = Head(todo) /\ b \in Blocks(f)
            BY <2>2
        <3>2. /\ \E K : Guarded(g, f', K, "true")
              /\ Keeps(f, f') /\ KeepsParts(f, f', "true")
            BY <2>5, <3>1, BogusKeeps DEF Keeps, KeepsParts
        <3>3. Blocks(f) \subseteq Blocks(f')
            BY <3>2 DEF Keeps
        <3>4. todo' \in Seq(Blocks(f'))
            BY <2>1, <2>2, <3>3, SeqGrows
        <3>5. QED  BY <3>2, <3>4
    <2>6. QED  BY <2>3, <2>4, <2>5
<1>2. CASE B!NextRound
    <2>1. f' = f /\ (todo' = f.layout \/ todo' = << >>)
        BY <1>2 DEF B!NextRound
    <2>2. f.layout \in Seq(Blocks(f)) /\ << >> \in Seq(Blocks(f))
        BY LayoutIsOfBlocks DEF Guarded
    <2>3. QED  BY <2>1, <2>2 DEF Keeps, KeepsParts
<1>3. QED  BY <1>1, <1>2 DEF B!BogusNext

(* The invariant of the compilation is inductive.                           *)
LEMMA StepGuards ==
    ASSUME Guards, [Next]_vars
    PROVE  Guards'
<1>1. CASE Split
    <2>1. pass = "split" /\ S!SplitNext /\ UNCHANGED <<g, passes, pass, times, machine>>
        BY <1>1 DEF Split
    <2>2. Guarded(g, f', {}, "true") /\ todo' \in Seq(Blocks(f'))
        BY <2>1, SplitStep DEF Guards
    <2>3. QED  BY <2>1, <2>2 DEF Guards, machine
<1>2. CASE StartBogus
    <2>1. /\ pass = "split" /\ pass' = "bogus" /\ f' = f /\ todo' = f.layout
          /\ UNCHANGED <<g, passes, splitN, machine>>
        BY <1>2 DEF StartBogus, B!BogusStart
    <2>2. f.layout \in Seq(Blocks(f))
        BY <2>1, LayoutIsOfBlocks DEF Guards, Guarded
    <2>3. Guarded(g, f, {}, "true")
        BY <2>1 DEF Guards
    <2>4. QED  BY <2>1, <2>2, <2>3 DEF Guards, machine
<1>3. CASE Bogus
    <2>1. /\ pass = "bogus" /\ pass \in passes /\ B!BogusNext
          /\ UNCHANGED <<g, passes, pass, splitN, machine>>
        BY <1>3 DEF Bogus
    <2>2. PICK J : Guarded(g, f, J, "true")
        BY <2>1 DEF Guards
    <2>3. (\E K : Guarded(g, f', K, "true")) /\ todo' \in Seq(Blocks(f'))
        BY <2>1, <2>2, BogusStep DEF Guards
    <2>4. QED  BY <2>1, <2>3 DEF Guards, machine
<1>4. CASE FinishBogus
    <2>1. /\ pass = "bogus" /\ pass' = "flatten"
          /\ f' = B!DoF(f) \/ ("bogus" \notin passes /\ f' = f)
          /\ UNCHANGED <<g, passes, todo, splitN, times, machine>>
        BY <1>4 DEF FinishBogus
    <2>2. PICK J : Guarded(g, f, J, "true") /\ ("bogus" \notin passes => J = {})
        BY <2>1 DEF Guards
    <2>3. \E K : Guarded(g, f', K, "opaque")
        <3>1. CASE f' = B!DoF(f)
            BY <2>2, <3>1, DoFKeeps
        <3>2. CASE "bogus" \notin passes /\ f' = f
            BY <2>2, <3>2, NoneAltered
        <3>3. QED  BY <2>1, <3>1, <3>2
    <2>4. QED  BY <2>1, <2>3 DEF Guards, machine
<1>5. CASE Flatten
    <2>1. pass' = "run" /\ UNCHANGED <<g, passes>>
        BY <1>5 DEF Flatten
    <2>2. QED  BY <2>1 DEF Guards
<1>6. CASE Run
    <2>1. pass = "run" /\ UNCHANGED <<g, passes, pass>>
        BY <1>6 DEF Run, Execute, Leave, Running
    <2>2. QED  BY <2>1 DEF Guards
<1>7. CASE UNCHANGED vars
    BY <1>7 DEF Guards, vars, machine, rewriting
<1>8. QED  BY <1>1, <1>2, <1>3, <1>4, <1>5, <1>6, <1>7 DEF Next, Compile, Returned

-----------------------------------------------------------------------------
(* The function that Flattening leaves behind.                                *)
IsFlat(first, e, o, fl) ==
    /\ fl.default = e + 2
    /\ \A x \in Blocks(first) : fl.code[x] = first.code[x] /\ fl.from[x] = first.from[x]
    /\ \A x \in {e, e + 1, e + 2} : fl.code[x] = << >>
    /\ fl.term[Entry(first)] = [[first.term[Entry(first)] EXCEPT !.to = <<e>>]
                                  EXCEPT !.sets = <<F!Case(0)>>]
    /\ fl.term[e] = [to |-> <<e + 2>> \o o, cond |-> "switch", sets |-> << >>, orig |-> 0]
    /\ fl.term[e + 1] = Jump(e) /\ fl.term[e + 2] = Jump(e + 1)
    /\ \A x \in Blocks(first) \ {Entry(first)} :
          fl.term[x] = F!UpdateSwitchVar(first.term[x], o, e + 1)
    /\ fl.cases = [c \in {F!CaseOf(o, b) : b \in ToSet(o)} |->
                     CHOOSE b \in ToSet(o) : F!CaseOf(o, b) = c]
    /\ Len(fl.layout) = Len(o) + 4

(* The operators of Cfg are the same in Flattening.                         *)
LEMMA SameInFlat ==
    /\ \A x : F!Jump(x) = Jump(x)
    /\ \A fn : F!Fresh(fn) = Fresh(fn) /\ F!Blocks(fn) = Blocks(fn) /\ F!Entry(fn) = Entry(fn)
    /\ \A s : F!ToSet(s) = ToSet(s)
    /\ \A fn, b, k : F!SplitBlock(fn, b, k) = SplitBlock(fn, b, k)
    /\ \A A : F!Max(A) = Max(A)
<1>1. \A x : F!Jump(x) = Jump(x)
    BY DEF F!Jump, Jump
<1>2. \A s : F!ToSet(s) = ToSet(s)
    BY DEF F!ToSet, ToSet
<1>3. \A fn : F!Blocks(fn) = Blocks(fn)
    BY <1>2 DEF F!Blocks, Blocks
<1>4. (\A A : F!Max(A) = Max(A)) /\ \A fn : F!Fresh(fn) = Fresh(fn)
    <2>1. \A A : F!Max(A) = Max(A)
        BY DEF F!Max, Max
    <2>2. QED  BY <1>3, <2>1 DEF F!Fresh, Fresh
<1>5. \A fn, i, b, code, term, from :
          F!AddBlock(fn, i, b, code, term, from) = AddBlock(fn, i, b, code, term, from)
    BY DEF F!AddBlock, AddBlock, F!InsertAt, InsertAt, F!Extended, Extended
<1>6. \A fn : F!Entry(fn) = Entry(fn)
    BY DEF F!Entry, Entry
<1>7. \A fn, b, k : F!SplitBlock(fn, b, k) = SplitBlock(fn, b, k)
    <2> TAKE fn, b, k
    <2>1. PICK n : n = Fresh(fn) /\ n = F!Fresh(fn)
        BY <1>4
    <2>2. \A s : F!ToSet(s) = ToSet(s)
        BY DEF F!ToSet, ToSet
    <2>3. \A from : F!Renamed(from, b, n) = Renamed(from, b, n)
        BY DEF F!Renamed, Renamed
    <2> DEFINE cut == [fn EXCEPT !.code[b] = SubSeq(@, 1, k), !.term[b] = Jump(n)]
               mine == [x \in DOMAIN cut.from |->
                          IF x \in ToSet(fn.term[b].to) THEN Renamed(cut.from[x], b, n)
                                                        ELSE cut.from[x]]
               theirs == [x \in DOMAIN cut.from |->
                            IF x \in F!ToSet(fn.term[b].to) THEN F!Renamed(cut.from[x], b, n)
                                                            ELSE cut.from[x]]
    <2>4. mine = theirs
        <3> HIDE DEF cut
        <3>1. QED  BY <2>2, <2>3
    <2>5. F!Jump(n) = Jump(n)
        BY <1>1
    <2>6. F!PlaceOf(fn, b) = PlaceOf(fn, b)
        BY DEF F!PlaceOf, PlaceOf
    <2> DEFINE rest == SubSeq(fn.code[b], k + 1, Len(fn.code[b]))
    <2>7. SplitBlock(fn, b, k) = AddBlock([cut EXCEPT !.from = mine], PlaceOf(fn, b) + 1, n,
                                          rest, fn.term[b], fn.from[b])
        BY <2>1 DEF SplitBlock
    <2>8. F!SplitBlock(fn, b, k) = F!AddBlock([cut EXCEPT !.from = theirs], PlaceOf(fn, b) + 1, n,
                                              rest, fn.term[b], fn.from[b])
        BY <2>1, <2>5, <2>6 DEF F!SplitBlock
    <2> HIDE DEF cut, mine, theirs, rest
    <2>9. QED  BY <1>5, <2>4, <2>7, <2>8
<1>8. QED  BY <1>1, <1>2, <1>3, <1>4, <1>5, <1>6, <1>7

(* What Flattening leaves, in the words of IsFlat.                          *)
LEMMA FlattenedIs ==
    ASSUME NEW h, NEW first, first = F!WithFirst(h), IsShape(first),
           NEW e, e = Fresh(first), NEW o, o = Tail(first.layout)
    PROVE  IsFlat(first, e, o, F!Flattened(h))
<1> DEFINE fst == F!WithFirst(h)
           insert == F!Entry(fst)
           origBB == Tail(fst.layout)
           loopEntry == F!Fresh(fst)
           loopEnd == loopEntry + 1
           swDefault == loopEntry + 2
           new == {loopEntry, loopEnd, swDefault}
           dispatch == [to |-> <<swDefault>> \o origBB, cond |-> "switch",
                        sets |-> << >>, orig |-> 0]
           layout == <<insert, loopEntry, swDefault>> \o origBB \o <<loopEnd>>
           code == [b \in DOMAIN fst.code \cup new |-> IF b \in new THEN << >> ELSE fst.code[b]]
           term == [b \in DOMAIN fst.term \cup new |->
                      CASE b = insert -> [fst.term[b] EXCEPT !.to = <<loopEntry>>,
                                                             !.sets = <<F!Case(0)>>]
                        [] b = loopEntry -> dispatch
                        [] b = loopEnd -> F!Jump(loopEntry)
                        [] b = swDefault -> F!Jump(loopEnd)
                        [] OTHER -> F!UpdateSwitchVar(fst.term[b], origBB, loopEnd)]
           from == [b \in DOMAIN fst.from \cup new |-> IF b \in new THEN << >> ELSE fst.from[b]]
           cases == [c \in {F!CaseOf(origBB, b) : b \in F!ToSet(origBB)} |->
                       CHOOSE b \in F!ToSet(origBB) : F!CaseOf(origBB, b) = c]
           fl == F!Flattened(h)
<1>1. fl = [layout |-> layout, code |-> code, term |-> term, from |-> from,
            cases |-> cases, default |-> swDefault]
    BY DEF F!Flattened
<1> HIDE DEF layout, code, term, from, cases, fl
<1>2. /\ fl.layout = layout /\ fl.code = code /\ fl.term = term /\ fl.from = from
      /\ fl.cases = cases /\ fl.default = swDefault
    BY <1>1
<1>3. fst = first /\ loopEntry = e /\ origBB = o /\ insert = Entry(first)
    BY SameInFlat
<1>4. /\ e \in Nat \ {0} /\ Blocks(first) \subseteq Nat /\ \A b \in Blocks(first) : b < e
      /\ Entry(first) \in Blocks(first)
    <2>1. e \in Nat \ {0} /\ \A b \in Blocks(first) : b < e
        BY FreshIsNew
    <2>2. PICK T : T = Nat \ {0} /\ first.layout \in Seq(T)
        BY DEF IsShape
    <2>3. \A q \in DOMAIN first.layout : first.layout[q] \in T
        BY <2>2, LenProperties, ElementOfSeq
    <2>4. Blocks(first) \subseteq Nat
        BY <2>2, <2>3 DEF Blocks, ToSet
    <2>5. QED  BY <2>1, <2>4, EntryIs
<1>5. \A b \in Blocks(first) : b # e /\ b # e + 1 /\ b # e + 2
    BY <1>4
<1>6. /\ Blocks(first) \subseteq DOMAIN first.code /\ Blocks(first) \subseteq DOMAIN first.term
      /\ Blocks(first) \subseteq DOMAIN first.from
    BY DEF IsShape
<1>7. /\ \A x \in Blocks(first) : fl.code[x] = first.code[x]
      /\ \A x \in {e, e + 1, e + 2} : fl.code[x] = << >>
    <2>1. code = [b \in DOMAIN first.code \cup {e, e + 1, e + 2} |->
                    IF b \in {e, e + 1, e + 2} THEN << >> ELSE first.code[b]]
        BY <1>3 DEF code
    <2>2. QED  BY <1>2, <1>5, <1>6, <2>1
<1>0. \A x \in Blocks(first) : fl.from[x] = first.from[x]
    <2>1. from = [b \in DOMAIN first.from \cup {e, e + 1, e + 2} |->
                    IF b \in {e, e + 1, e + 2} THEN << >> ELSE first.from[b]]
        BY <1>3 DEF from
    <2>2. QED  BY <1>2, <1>5, <1>6, <2>1
<1>8. term = [b \in DOMAIN first.term \cup {e, e + 1, e + 2} |->
                CASE b = Entry(first) -> [first.term[b] EXCEPT !.to = <<e>>, !.sets = <<F!Case(0)>>]
                  [] b = e -> dispatch
                  [] b = e + 1 -> F!Jump(e)
                  [] b = e + 2 -> F!Jump(e + 1)
                  [] OTHER -> F!UpdateSwitchVar(first.term[b], o, e + 1)]
    BY <1>3 DEF term
<1>9. dispatch = [to |-> <<e + 2>> \o o, cond |-> "switch", sets |-> << >>, orig |-> 0]
    BY <1>3
<1> HIDE DEF dispatch, fst, insert, loopEntry, loopEnd, swDefault, origBB, new
<1>10. fl.term[Entry(first)] = [[first.term[Entry(first)] EXCEPT !.to = <<e>>]
                                  EXCEPT !.sets = <<F!Case(0)>>]
    <2>1. PICK en : en = Entry(first) /\ en \in DOMAIN first.term
        BY <1>4, <1>6
    <2>0. en # e /\ en # e + 1 /\ en # e + 2
        BY <1>4, <1>5, <2>1
    <2>2. term[en] = [[first.term[en] EXCEPT !.to = <<e>>] EXCEPT !.sets = <<F!Case(0)>>]
        BY <1>8, <2>0, <2>1
    <2>3. QED  BY <1>2, <2>1, <2>2
<1>11. fl.term[e] = dispatch
    <2>1. e # Entry(first) /\ e # e + 1 /\ e # e + 2
        BY <1>4, <1>5
    <2>2. term[e] = dispatch
        BY <1>8, <2>1
    <2>3. QED  BY <1>2, <2>2
<1>12. fl.term[e + 1] = Jump(e) /\ fl.term[e + 2] = Jump(e + 1)
    <2>1. e # e + 1 /\ e # e + 2 /\ e + 1 # e + 2
        BY <1>4
    <2>2. Entry(first) # e + 1 /\ Entry(first) # e + 2
        BY <1>4, <1>5
    <2>3. F!Jump(e) = Jump(e) /\ F!Jump(e + 1) = Jump(e + 1)
        BY SameInFlat
    <2>4. term[e + 1] = F!Jump(e)
        BY <1>8, <2>1, <2>2
    <2>5. term[e + 2] = F!Jump(e + 1)
        BY <1>8, <2>1, <2>2
    <2>6. QED  BY <1>2, <2>3, <2>4, <2>5
<1>13. ASSUME NEW x \in Blocks(first) \ {Entry(first)}
       PROVE  fl.term[x] = F!UpdateSwitchVar(first.term[x], o, e + 1)
    BY <1>2, <1>5, <1>6, <1>8
<1>14. fl.cases = [c \in {F!CaseOf(o, b) : b \in ToSet(o)} |->
                     CHOOSE b \in ToSet(o) : F!CaseOf(o, b) = c]
    BY <1>2, <1>3, SameInFlat DEF cases
<1>15. Len(fl.layout) = Len(o) + 4
    <2>1. layout = (<<Entry(first), e, e + 2>> \o o) \o <<e + 1>>
        BY <1>3 DEF layout, loopEnd, swDefault
    <2>2. PICK T : T = Nat /\ o \in Seq(T) /\ Entry(first) \in T /\ e \in T /\ e + 1 \in T /\ e + 2 \in T
        <3>1. PICK U : U = Nat \ {0} /\ first.layout \in Seq(U) /\ first.layout # << >>
            BY DEF IsShape
        <3>2. o \in Seq(U)
            BY <3>1, HeadTailProperties
        <3>3. U \subseteq Nat
            BY <3>1
        <3>4. o \in Seq(Nat)
            BY <3>2, <3>3, SeqGrows
        <3>5. Entry(first) \in Nat /\ e \in Nat /\ e + 1 \in Nat /\ e + 2 \in Nat
            BY <1>4
        <3>6. QED  BY <3>4, <3>5
    <2>3. <<Entry(first), e, e + 2>> \in Seq(T) /\ <<e + 1>> \in Seq(T)
        BY <2>2
    <2>4. Len(<<Entry(first), e, e + 2>>) = 3 /\ Len(<<e + 1>>) = 1 /\ Len(o) \in Nat
        BY <2>2, LenProperties
    <2>5. PICK a, c : a = <<Entry(first), e, e + 2>> /\ c = <<e + 1>>
        OBVIOUS
    <2>6. a \o o \in Seq(T) /\ Len(a \o o) = 3 + Len(o)
        BY <2>2, <2>3, <2>4, <2>5, ConcatProperties
    <2>7. PICK d : d = a \o o
        OBVIOUS
    <2>8. Len(d \o c) = (3 + Len(o)) + 1
        BY <2>2, <2>3, <2>4, <2>5, <2>6, <2>7, ConcatProperties
    <2>9. layout = d \o c
        BY <2>1, <2>5, <2>7
    <2>10. QED  BY <1>2, <2>4, <2>8, <2>9
<1>16. fl.default = e + 2
    BY <1>2, <1>3 DEF swDefault
<1>17. IsFlat(first, e, o, fl)
    BY <1>0, <1>7, <1>9, <1>10, <1>11, <1>12, <1>13, <1>14, <1>15, <1>16 DEF IsFlat
<1>18. QED  BY <1>17 DEF fl

(* Where the entry is split, before its last instruction.                     *)
LEMMA LastIsIn ==
    ASSUME NEW n \in Nat
    PROVE  Max({0, n - 1}) \in 0 .. n
<1> DEFINE k == Max({0, n - 1})
<1>1. {0, n - 1} \in SUBSET Int /\ {0, n - 1} # {}
    OBVIOUS
<1>2. IsFiniteSet({0, n - 1})
    <2>1. IsFiniteSet({} \cup {0})
        BY FS_EmptySet, FS_AddElement
    <2>2. PICK A, m : A = {} \cup {0} /\ m = n - 1 /\ IsFiniteSet(A)
        BY <2>1
    <2>3. IsFiniteSet(A \cup {m})
        BY <2>2, FS_AddElement
    <2>4. A \cup {m} = {0, n - 1}
        BY <2>2
    <2>5. QED  BY <2>3, <2>4
<1>3. PICK A, m : A = {0, m} /\ m = n - 1 /\ A \in SUBSET Int /\ A # {} /\ IsFiniteSet(A)
    BY <1>1, <1>2
<1>4. Max(A) \in A /\ \A x \in A : x <= Max(A)
    BY <1>3, Greatest
<1>5. k = Max(A)
    BY <1>3
<1> HIDE DEF k
<1>6. (k = 0 \/ k = n - 1) /\ 0 <= k
    BY <1>3, <1>4, <1>5
<1>7. k \in 0 .. n
    BY <1>6
<1>8. QED  BY <1>7 DEF k

(* The function with a first block of its own that Flattening goes on with.    *)
LEMMA WithFirstGuards ==
    ASSUME NEW p, NEW h, NEW J, Guarded(p, h, J, "opaque"), Len(h.layout) > 1
    PROVE  Guarded(p, F!WithFirst(h), J, "opaque") /\ Len(F!WithFirst(h).layout) > 1
<1> DEFINE b == Entry(h)
           n == Len(h.code[b])
           k == Max({0, n - 1})
<1>1. IsShape(h) /\ b \in Blocks(h) /\ b \notin J
    BY EntryIs DEF Guarded
<1>2. n \in Nat
    <2>1. h.code[b] \in Seq(Instructions)
        BY <1>1 DEF IsShape
    <2>2. QED  BY <2>1, LenProperties
<1>3. k \in 0 .. n
    BY <1>2, LastIsIn
<1> HIDE DEF k, n
<1>4. F!WithFirst(h) = h \/ F!WithFirst(h) = SplitBlock(h, b, k)
    BY SameInFlat DEF F!WithFirst, k, n
<1>5. CASE F!WithFirst(h) = h
    BY <1>5
<1>6. CASE F!WithFirst(h) = SplitBlock(h, b, k)
    <2>1. PICK r : r = SplitBlock(h, b, k)
        OBVIOUS
    <2>2. Guarded(p, r, J, "opaque")
        BY <1>1, <1>3, <2>1, SplitGuards DEF n
    <2>3. IsSplit(h, b, k, Fresh(h), r)
        BY <1>1, <1>3, <2>1, SplitBlockIs DEF n
    <2>4. Fresh(h) \in Blocks(r) /\ Fresh(h) # Entry(r) /\ IsShape(r)
        <3>1. Fresh(h) \notin Blocks(h)
            BY <1>1, FreshIsNew
        <3>2. Entry(r) = Entry(h)
            BY <2>2 DEF Guarded
        <3>3. Fresh(h) \in Blocks(r)
            BY <2>3 DEF IsSplit
        <3>4. QED  BY <1>1, <2>2, <3>1, <3>2, <3>3 DEF Guarded
    <2>5. Len(r.layout) > 1
        BY <2>4, LongLayout
    <2>6. QED  BY <1>6, <2>1, <2>2, <2>5
<1>7. QED  BY <1>4, <1>5, <1>6

-----------------------------------------------------------------------------
(* Phi nodes match the predecessors after every step of a pass, if no         *)
(* function to be flattened has both a switch, which LowerSwitch rewrites,    *)
(* and a call that may unwind, for which Flattening then leaves it alone.     *)
NoneHasBoth == \A k \in Compilations : "flatten" \in k.passes => Once(k.function)

Phis ==
    /\ pass # "run" => PhisKept(f) /\ ("flatten" \in passes => Once(f))
    /\ PhisMatchPreds

(* What the passes keep of the phi nodes is the property of the runs.       *)
LEMMA KeptMatch ==
    ASSUME PhisKept(f)
    PROVE  PhisMatchPreds
BY DEF PhisKept, PhisMatchPreds, HasPhi

(* A flattened function has no phi nodes to match, and one that is not was  *)
(* not changed by LowerSwitch either.                                       *)
LEMMA FlattenMatches ==
    ASSUME NEW J, Guarded(g, f, J, "opaque"), PhisKept(f), Once(f),
           f' = F!Flatten(L!LowerSwitch(f))
    PROVE  PhisMatchPreds'
<1> DEFINE h == L!LowerSwitch(f)
<1>1. IsLowering(g, f, J, h)
    BY LowerSwitchKeeps
<1> HIDE DEF h
<1>2. CASE F!Flattens(h)
    <2>1. f' = F!Flattened(h)
        BY <1>2 DEF F!Flatten, h
    <2>2. f'.default # 0
        <3>1. PICK first, e, o : /\ first = F!WithFirst(h) /\ e = Fresh(first)
                                 /\ o = Tail(first.layout)
            OBVIOUS
        <3>2. Len(h.layout) > 1
            BY <1>2 DEF F!Flattens
        <3>3. IsShape(first)
            <4>1. Guarded(g, h, J, "opaque")
                BY <1>1 DEF IsLowering
            <4>2. Guarded(g, first, J, "opaque")
                BY <3>1, <3>2, <4>1, WithFirstGuards
            <4>3. QED  BY <4>2 DEF Guarded
        <3>4. e \in Nat /\ IsFlat(first, e, o, F!Flattened(h))
            BY <3>1, <3>3, FlattenedIs, FreshIsNew
        <3>5. F!Flattened(h).default = e + 2
            BY <3>4 DEF IsFlat
        <3>6. QED  BY <2>1, <3>4, <3>5
    <2>3. QED  BY <2>2 DEF PhisMatchPreds, Flat
<1>3. CASE ~F!Flattens(h)
    <2>1. f' = h
        BY <1>3 DEF F!Flatten, h
    <2>2. h = f
        <3>1. SUFFICES ASSUME h # f PROVE FALSE
            OBVIOUS
        <3>2. Len(h.layout) > 1 /\ \E x \in Blocks(f) : f.term[x].cond = "cases"
            BY <1>1, <3>1 DEF IsLowering
        <3>3. \E b \in F!Blocks(h) : h.term[b].cond = "invoke"
            BY <1>3, <3>2 DEF F!Flattens
        <3>4. F!Blocks(h) = Blocks(h)
            BY DEF F!Blocks, Blocks, F!ToSet, ToSet
        <3>5. \E y \in Blocks(f) : f.term[y].cond = "invoke"
            BY <1>1, <3>3, <3>4 DEF IsLowering
        <3>6. QED  BY <3>2, <3>5 DEF Once
    <2>3. PhisMatchPreds
        BY KeptMatch
    <2>4. f' = f
        BY <2>1, <2>2
    <2>5. QED  BY <2>3, <2>4 DEF PhisMatchPreds, Flat
<1>4. QED  BY <1>2, <1>3

LEMMA InitPhis ==
    ASSUME NoneHasBoth, Init
    PROVE  Phis
<1>1. Guards /\ PhisKept(f)
    BY InitGuards
<1>2. "flatten" \in passes => Once(f)
    <2>1. PICK k \in Compilations : g = k.function /\ passes = k.passes
        BY DEF Init
    <2>2. f = g
        BY DEF Init
    <2>3. QED  BY <2>1, <2>2 DEF NoneHasBoth
<1>3. PhisMatchPreds
    BY <1>1, KeptMatch
<1>4. QED  BY <1>1, <1>2, <1>3 DEF Phis

(* A step before the last pass keeps what is known of the phi nodes.          *)
LEMMA KeptOn ==
    ASSUME Phis, pass # "run", passes' = passes,
           PhisKept(f) => PhisKept(f'), Once(f) => Once(f')
    PROVE  Phis'
<1>1. PhisKept(f') /\ ("flatten" \in passes' => Once(f'))
    BY DEF Phis
<1>2. PhisMatchPreds'
    BY <1>1 DEF PhisKept, PhisMatchPreds, HasPhi, Flat
<1>3. QED  BY <1>1, <1>2 DEF Phis

(* The phi nodes match after every step.                                    *)
LEMMA StepPhis ==
    ASSUME Guards, Phis, [Next]_vars
    PROVE  Phis'
<1>1. CASE Split
    <2>1. pass = "split" /\ S!SplitNext /\ UNCHANGED <<g, passes, pass>>
        BY <1>1 DEF Split
    <2>2. Keeps(f, f')
        BY <2>1, SplitStep DEF Guards
    <2>3. QED  BY <2>1, <2>2, KeptOn DEF Keeps
<1>2. CASE StartBogus
    <2>1. pass = "split" /\ f' = f /\ passes' = passes
        BY <1>2 DEF StartBogus, B!BogusStart
    <2>2. QED  BY <2>1, KeptOn
<1>3. CASE Bogus
    <2>1. pass = "bogus" /\ B!BogusNext /\ passes' = passes
        BY <1>3 DEF Bogus
    <2>2. PICK J : Guarded(g, f, J, "true")
        BY <2>1 DEF Guards
    <2>3. Keeps(f, f')
        BY <2>1, <2>2, BogusStep DEF Guards
    <2>4. QED  BY <2>1, <2>3, KeptOn DEF Keeps
<1>4. CASE FinishBogus
    <2>1. /\ pass = "bogus" /\ passes' = passes
          /\ f' = B!DoF(f) \/ f' = f
        BY <1>4 DEF FinishBogus
    <2>2. PICK J : Guarded(g, f, J, "true")
        BY <2>1 DEF Guards
    <2>3. (PhisKept(f) => PhisKept(f')) /\ (Once(f) => Once(f'))
        BY <2>1, <2>2, DoFKeeps
    <2>4. QED  BY <2>1, <2>3, KeptOn
<1>5. CASE Flatten
    <2>1. /\ pass = "flatten" /\ pass' = "run" /\ passes' = passes
          /\ f' = IF pass \in passes THEN F!Flatten(L!LowerSwitch(f)) ELSE f
        BY <1>5 DEF Flatten
    <2>2. PICK J : Guarded(g, f, J, "opaque")
        BY <2>1 DEF Guards
    <2>3. PhisKept(f) /\ ("flatten" \in passes => Once(f))
        BY <2>1 DEF Phis
    <2>4. PhisMatchPreds'
        <3>1. CASE pass \in passes
            <4>1. f' = F!Flatten(L!LowerSwitch(f)) /\ Once(f)
                BY <2>1, <2>3, <3>1
            <4>2. QED  BY <2>2, <2>3, <4>1, FlattenMatches
        <3>2. CASE pass \notin passes
            <4>1. f' = f
                BY <2>1, <3>2
            <4>2. QED  BY <4>1 DEF Phis, PhisMatchPreds, Flat
        <3>3. QED  BY <3>1, <3>2
    <2>5. QED  BY <2>1, <2>4 DEF Phis
<1>6. CASE Run
    <2>1. pass' = pass /\ passes' = passes /\ f' = f
        BY <1>6 DEF Run, Execute, Leave, rewriting
    <2>2. QED  BY <2>1 DEF Phis, PhisMatchPreds, Flat
<1>7. CASE UNCHANGED vars
    <2>1. pass' = pass /\ passes' = passes /\ f' = f
        BY <1>7 DEF vars, rewriting
    <2>2. QED  BY <2>1 DEF Phis, PhisMatchPreds, Flat
<1>8. QED  BY <1>1, <1>2, <1>3, <1>4, <1>5, <1>6, <1>7 DEF Next, Compile, Returned

(* PHI nodes never lack an entry for a predecessor of their block, nor have   *)
(* one for another block (BogusControlFlow.cpp:233-238): splitting renames   *)
(* the entries of the successors, the bogus flow gives the altered block      *)
(* none, and what the lowering of a switch leaves is flattened at once.       *)
THEOREM PhisAlwaysMatch ==
    ASSUME NoneHasBoth
    PROVE  Spec => []PhisMatchPreds
<1>1. Init => Guards /\ Phis
    BY InitGuards, InitPhis
<1>2. Guards /\ Phis /\ [Next]_vars => (Guards /\ Phis)'
    BY StepGuards, StepPhis
<1>3. Guards /\ Phis => PhisMatchPreds
    BY DEF Phis
<1>4. QED  BY <1>1, <1>2, <1>3, PTL DEF Spec

-----------------------------------------------------------------------------
(* The run.  A function has fewer blocks than scramble32 has words.           *)
FewBlocks == pass = "run" => 0 .. Len(f.layout) \subseteq DOMAIN Scramble

(* The run of a function that was not flattened is in a block that may run,   *)
(* and that of a flattened one in such a block or on the way to one.          *)
IsPlain(J) ==
    /\ Guarded(g, f, J, "opaque")
    /\ Block \in {0} \cup (Blocks(f) \ J)

IsFlatOf(first, J, e, o) ==
    /\ Guarded(g, first, J, "opaque") /\ Len(first.layout) > 1
    /\ e = Fresh(first) /\ o = Tail(first.layout)
    /\ IsFlat(first, e, o, f)

IsDispatched(first, J, e, o) ==
    /\ IsFlatOf(first, J, e, o)
    /\ Block \in {0} \cup (Blocks(first) \ J) \cup {e, e + 1, e + 2}
    /\ Block \in {e, e + 1, e + 2} /\ switchVar \in DOMAIN f.cases
          => f.cases[switchVar] \in Blocks(first) \ J

RunsInside ==
    pass = "run" =>
        /\ at = <<at[1], at[2]>> /\ at[2] \in Nat \ {0}
        /\ \/ \E J : IsPlain(J)
           \/ \E J, first, e, o : IsDispatched(first, J, e, o)

(* A way of a terminator leads to a block that may run.                       *)
LEMMA WayGoesOn ==
    ASSUME NEW fn, NEW J, NEW t, IsExit(g, fn, J, "opaque", t), t.to # << >>,
           \A b \in Blocks(g) : Len(g.code[b]) \in Nat,
           NEW way,
           t.cond = "opaque" => way = 1,
           t.cond \in {"below", "within"} => way \in {1, 2},
           t.cond \notin {"opaque", "below", "within"} =>
               IF t.orig = 0 THEN way \in DOMAIN t.to
               ELSE way \in P!WaysOn(g, t.orig, Len(g.code[t.orig]) + 1)
    PROVE  \/ Len(t.to) = 1 /\ t.to[1] \in Blocks(fn) \ J
           \/ Len(t.to) # 1 /\ way \in DOMAIN t.to /\ t.to[way] \in Blocks(fn) \ J
<1>1. PICK A, to : A = Blocks(fn) \ {Entry(fn)} /\ to = t.to /\ to \in Seq(A) /\ to # << >>
    BY DEF IsExit
<1>2. Len(to) \in Nat \ {0} /\ DOMAIN to = 1 .. Len(to) /\ \A i \in DOMAIN to : to[i] \in A
    <2>1. Len(to) \in Nat /\ DOMAIN to = 1 .. Len(to)
        BY <1>1, LenProperties
    <2>2. Len(to) # 0
        BY <1>1, EmptySeq
    <2>3. \A i \in DOMAIN to : to[i] \in A
        BY <1>1, <2>1, ElementOfSeq
    <2>4. QED  BY <2>1, <2>2, <2>3
<1>3. (\A i \in DOMAIN to : to[i] \in Blocks(fn) \ J) \/ (t.cond = "opaque" /\ to[1] \notin J)
    <2>1. CASE to \in Seq(Blocks(fn) \ J)
        <3>1. PICK C : C = Blocks(fn) \ J /\ to \in Seq(C)
            BY <2>1
        <3>2. \A i \in DOMAIN to : to[i] \in C
            BY <3>1, LenProperties, ElementOfSeq
        <3>3. QED  BY <3>1, <3>2
    <2>2. CASE t.cond = "opaque" /\ to[1] \notin J
        BY <2>2
    <2>3. QED  BY <1>1, <2>1, <2>2 DEF IsExit, GoesOn
<1>4. 1 \in DOMAIN to /\ to[1] \in Blocks(fn) \ J
    BY <1>1, <1>2, <1>3
<1>5. CASE Len(to) = 1
    BY <1>1, <1>4, <1>5
<1>6. CASE Len(to) # 1
    <2>1. way \in DOMAIN to
        <3>1. CASE t.cond = "opaque"
            BY <1>4, <3>1
        <3>2. CASE t.cond \in {"below", "within"}
            <4>1. Len(to) = 2
                BY <1>1, <3>2 DEF IsExit
            <4>2. QED  BY <1>2, <3>2, <4>1
        <3>3. CASE t.cond \notin {"opaque", "below", "within"} /\ t.orig = 0
            BY <1>1, <3>3
        <3>4. CASE t.cond \notin {"opaque", "below", "within"} /\ t.orig # 0
            <4>1. t.orig \in Blocks(g) /\ to = g.term[t.orig].to
                BY <1>1, <1>6, <3>4 DEF IsExit
            <4>2. ~(Len(g.code[t.orig]) + 1 <= Len(g.code[t.orig]))
                BY <4>1
            <4>3. way \in DOMAIN g.term[t.orig].to
                BY <1>1, <3>4, <4>1, <4>2 DEF P!WaysOn
            <4>4. QED  BY <4>1, <4>3
        <3>5. QED  BY <3>1, <3>2, <3>3, <3>4
    <2>2. to[way] \in Blocks(fn) \ J
        BY <1>3, <1>4, <2>1
    <2>3. QED  BY <1>1, <1>6, <2>1, <2>2
<1>7. QED  BY <1>5, <1>6

LEMMA LengthsOfCode ==
    ASSUME Guards
    PROVE  \A b \in Blocks(g) : Len(g.code[b]) \in Nat
<1>1. PICK k \in Compilations : g = k.function
    BY DEF Guards
<1>2. IsShape(g)
    BY <1>1, CompilationsAssumption, WellFormedGuards DEF Guarded
<1>3. \A b \in Blocks(g) : g.code[b] \in Seq(Instructions)
    BY <1>2 DEF IsShape
<1>4. QED  BY <1>3, LenProperties

(* Where a block of a function that is not flattened goes to.               *)
LEMMA PlainLeaves ==
    ASSUME Guards, NEW J, IsPlain(J), Block # 0, NEW way \in Ways
    PROVE  Target(way) \in {0} \cup (Blocks(f) \ J)
<1>1. PICK t : t = Term /\ IsExit(g, f, J, "opaque", t)
    BY DEF IsPlain, Guarded, Term
<1>2. t.sets = << >> /\ t.cond # "switch"
    BY <1>1 DEF IsExit
<1>3. CASE t.to = << >>
    BY <1>1, <1>2, <1>3 DEF Target
<1>4. CASE t.to # << >>
    <2>1. /\ t.cond = "opaque" => way = 1
          /\ t.cond \in {"below", "within"} => way \in {1, 2}
          /\ t.cond \notin {"opaque", "below", "within"} =>
                IF t.orig = 0 THEN way \in DOMAIN t.to
                ELSE way \in P!WaysOn(g, t.orig, Len(g.code[t.orig]) + 1)
        <3>1. way \in CASE t.cond = "opaque" -> OpaqueWays
                        [] t.cond = "switch" -> {0}
                        [] t.cond = "below" -> {IF value < t.low THEN 1 ELSE 2}
                        [] t.cond = "within" -> {IF L!Within(value, t.low, t.high) THEN 1 ELSE 2}
                        [] OTHER -> IF t.orig = 0 THEN DOMAIN t.to
                                    ELSE P!WaysOn(g, t.orig, Len(g.code[t.orig]) + 1)
            BY <1>1 DEF Ways
        <3>2. QED  BY <1>2, <3>1, OneOpaqueWay
    <2>2. \/ Len(t.to) = 1 /\ t.to[1] \in Blocks(f) \ J
          \/ Len(t.to) # 1 /\ way \in DOMAIN t.to /\ t.to[way] \in Blocks(f) \ J
        BY <1>1, <1>4, <2>1, LengthsOfCode, WayGoesOn
    <2>3. Target(way) = IF Len(t.to) = 1 THEN t.to[1] ELSE t.to[way]
        <3>1. Len(t.sets) = 0
            BY <1>2
        <3>2. Exit(way) = IF Len(t.to) = 1 THEN 1 ELSE way
            BY <1>1, <3>1 DEF Exit
        <3>3. Target(way) = t.to[Exit(way)]
            BY <1>1, <1>2, <1>4 DEF Target
        <3>4. QED  BY <3>2, <3>3
    <2>4. QED  BY <2>2, <2>3
<1>5. QED  BY <1>3, <1>4

(* The case of a block leads to the block, and the first case to a block that *)
(* may run.                                                                  *)
LEMMA CasesLead ==
    ASSUME NEW J, NEW first, NEW e, NEW o, IsFlatOf(first, J, e, o),
           0 .. Len(f.layout) \subseteq DOMAIN Scramble
    PROVE  /\ \A x \in ToSet(o) :
                 F!CaseOf(o, x) \in DOMAIN f.cases => f.cases[F!CaseOf(o, x)] = x
           /\ F!Case(0) \in DOMAIN f.cases => f.cases[F!Case(0)] \in Blocks(first) \ J
           /\ \A x \in Blocks(first) \ {Entry(first)} : x \in ToSet(o)
<1>1. /\ IsShape(first) /\ Len(first.layout) > 1 /\ o = Tail(first.layout)
      /\ Len(f.layout) = Len(o) + 4
      /\ f.cases = [c \in {F!CaseOf(o, b) : b \in ToSet(o)} |->
                      CHOOSE b \in ToSet(o) : F!CaseOf(o, b) = c]
    BY DEF IsFlatOf, IsFlat, Guarded
<1>2. PICK T, s : T = Nat \ {0} /\ s = first.layout /\ s \in Seq(T) /\ s # << >>
    BY <1>1 DEF IsShape
<1>3. /\ o \in Seq(T) /\ Len(o) = Len(s) - 1 /\ Head(s) = s[1]
      /\ \A i \in 1 .. Len(o) : o[i] = s[i + 1]
    BY <1>1, <1>2, HeadTailProperties
<1>4. /\ Len(s) \in Nat /\ Len(s) > 1 /\ DOMAIN s = 1 .. Len(s)
      /\ Len(o) \in Nat \ {0} /\ DOMAIN o = 1 .. Len(o)
    <2>1. Len(s) \in Nat /\ DOMAIN s = 1 .. Len(s) /\ Len(o) \in Nat /\ DOMAIN o = 1 .. Len(o)
        BY <1>2, <1>3, LenProperties
    <2>2. QED  BY <1>1, <1>2, <1>3, <2>1
<1> DEFINE place(x) == CHOOSE i \in DOMAIN o : o[i] = x
<1>5. ASSUME NEW x \in ToSet(o)
      PROVE  place(x) \in 1 .. Len(o) /\ o[place(x)] = x /\ F!CaseOf(o, x) = Scramble[place(x) - 1]
    <2>1. \E i \in DOMAIN o : o[i] = x
        BY DEF ToSet
    <2>2. place(x) \in DOMAIN o /\ o[place(x)] = x
        BY <2>1
    <2>3. F!CaseOf(o, x) = Scramble[place(x) - 1]
        BY SameInFlat DEF F!CaseOf, F!Case
    <2>4. QED  BY <1>4, <2>2, <2>3
<1> HIDE DEF place
<1>6. ASSUME NEW i \in 1 .. Len(o), NEW j \in 1 .. Len(o), Scramble[i - 1] = Scramble[j - 1]
      PROVE  i = j
    <2>1. i - 1 \in 0 .. Len(f.layout) /\ j - 1 \in 0 .. Len(f.layout)
        BY <1>1, <1>4
    <2>2. i - 1 \in DOMAIN Scramble /\ j - 1 \in DOMAIN Scramble
        BY <2>1
    <2>3. i - 1 = j - 1
        BY <1>6, <2>2, ScrambleAssumption
    <2>4. QED  BY <2>3
<1>7. ASSUME NEW x \in ToSet(o), NEW y \in ToSet(o), F!CaseOf(o, x) = F!CaseOf(o, y)
      PROVE  x = y
    <2>1. place(x) = place(y)
        BY <1>5, <1>6, <1>7
    <2>2. QED  BY <1>5, <2>1
<1>8. ASSUME NEW x \in ToSet(o), F!CaseOf(o, x) \in DOMAIN f.cases
      PROVE  f.cases[F!CaseOf(o, x)] = x
    <2>1. PICK c : c = F!CaseOf(o, x)
        OBVIOUS
    <2>2. f.cases[c] = CHOOSE b \in ToSet(o) : F!CaseOf(o, b) = c
        BY <1>1, <2>1
    <2>3. f.cases[c] \in ToSet(o) /\ F!CaseOf(o, f.cases[c]) = c
        BY <2>1, <2>2
    <2>4. QED  BY <1>7, <2>1, <2>3
<1>9. ASSUME F!Case(0) \in DOMAIN f.cases
      PROVE  f.cases[F!Case(0)] \in Blocks(first) \ J
    <2>1. PICK x \in ToSet(o) : F!CaseOf(o, x) = F!Case(0)
        BY <1>1, <1>9
    <2>2. Scramble[place(x) - 1] = Scramble[1 - 1]
        BY <1>5, <2>1 DEF F!Case
    <2>3. place(x) = 1
        BY <1>4, <1>5, <1>6, <2>2
    <2>4. x = s[2]
        BY <1>3, <1>4, <1>5, <2>3
    <2>5. f.cases[F!Case(0)] = s[2]
        BY <1>8, <1>9, <2>1, <2>4
    <2>6. s[2] \in Blocks(first)
        <3>1. 2 \in DOMAIN first.layout /\ s[2] = first.layout[2]
            BY <1>2, <1>4
        <3>2. QED  BY <3>1 DEF Blocks, ToSet
    <2>7. s[2] \notin J
        <3>1. SUFFICES ASSUME s[2] \in J PROVE FALSE
            OBVIOUS
        <3>2. \A j \in 2 .. Len(s) : s[j] \in J
            <4>1. \A j \in 1 .. Len(s) : 2 < j => s[j] \in J
                BY <1>2, <1>4, <3>1 DEF IsFlatOf, Guarded, JunkIsLast
            <4>2. QED  BY <1>4, <3>1, <4>1
        <3>3. PICK y \in Blocks(first) \ J : y # Entry(first)
            BY <3>1 DEF IsFlatOf, Guarded, HasOther
        <3>4. PICK j \in 1 .. Len(s) : s[j] = y
            BY <1>2, <1>4, <3>3 DEF Blocks, ToSet
        <3>5. j # 1
            BY <1>2, <1>3, <3>3, <3>4 DEF Entry
        <3>6. QED  BY <3>2, <3>3, <3>4, <3>5
    <2>8. QED  BY <2>5, <2>6, <2>7
<1>10. ASSUME NEW x \in Blocks(first) \ {Entry(first)}
       PROVE  x \in ToSet(o)
    <2>1. PICK j \in 1 .. Len(s) : s[j] = x
        BY <1>2, <1>4 DEF Blocks, ToSet
    <2>2. j # 1
        BY <1>2, <1>3, <2>1 DEF Entry
    <2>3. j - 1 \in 1 .. Len(o) /\ o[j - 1] = x
        BY <1>3, <1>4, <2>1, <2>2
    <2>4. QED  BY <1>4, <2>3 DEF ToSet
<1>11. QED  BY <1>8, <1>9, <1>10

(* Where a block of the flattened function goes to, and what it sets.          *)
Sets(way) == IF Term.sets # << >> THEN Term.sets[Exit(way)] ELSE switchVar

LEMMA FlatEntryLeaves ==
    ASSUME NEW J, NEW first, NEW e, NEW o, IsFlatOf(first, J, e, o), Block = Entry(first), NEW way
    PROVE  Target(way) = e /\ Sets(way) = F!Case(0)
<1>1. PICK t : t = first.term[Entry(first)] /\ IsExit(g, first, J, "opaque", t)
    <2>1. Entry(first) \in Blocks(first) \ J
        BY EntryIs DEF IsFlatOf, Guarded
    <2>2. QED  BY <2>1 DEF IsFlatOf, Guarded
<1>2. PICK u : u = Term /\ u = [[t EXCEPT !.to = <<e>>] EXCEPT !.sets = <<F!Case(0)>>]
    BY <1>1 DEF Term, IsFlatOf, IsFlat
<1>3. u.to = <<e>> /\ u.sets = <<F!Case(0)>> /\ u.cond = t.cond
    BY <1>1, <1>2 DEF IsExit, IsTerm
<1>4. t.cond # "switch"
    BY <1>1 DEF IsExit
<1>5. Len(u.to) = 1 /\ Len(u.sets) = 1 /\ u.to[1] = e /\ u.sets[1] = F!Case(0)
    BY <1>3
<1>6. u.to # << >> /\ u.sets # << >>
    BY <1>3
<1>7. Target(way) = e
    BY <1>2, <1>3, <1>4, <1>5, <1>6 DEF Target
<1>8. Exit(way) = 1
    BY <1>2, <1>5 DEF Exit
<1>9. QED  BY <1>2, <1>5, <1>6, <1>7, <1>8 DEF Sets

(* A block of the original function stores the case of a block that may     *)
(* run and goes to the end of the loop.                                     *)
LEMMA FlatBlockLeaves ==
    ASSUME Guards, NEW J, NEW first, NEW e, NEW o, IsFlatOf(first, J, e, o),
           0 .. Len(f.layout) \subseteq DOMAIN Scramble,
           Block \in (Blocks(first) \ J) \ {Entry(first)}, NEW way \in Ways
    PROVE  \/ Target(way) \in {0} \cup (Blocks(first) \ J)
           \/ /\ Target(way) = e + 1
              /\ Sets(way) \in DOMAIN f.cases => f.cases[Sets(way)] \in Blocks(first) \ J
<1>1. PICK t : t = first.term[Block] /\ IsExit(g, first, J, "opaque", t)
    BY DEF IsFlatOf, Guarded
<1>2. PICK u : u = Term /\ u = F!UpdateSwitchVar(t, o, e + 1)
    BY <1>1 DEF Term, IsFlatOf, IsFlat
<1>3. t.sets = << >> /\ t.cond # "switch" /\ IsTerm(t)
    BY <1>1 DEF IsExit
<1>4. PICK A, to : A = Blocks(first) \ {Entry(first)} /\ to = t.to /\ to \in Seq(A)
    BY <1>1 DEF IsExit
<1>5. Len(to) \in Nat /\ DOMAIN to = 1 .. Len(to) /\ \A i \in DOMAIN to : to[i] \in A
    <2>1. Len(to) \in Nat /\ DOMAIN to = 1 .. Len(to)
        BY <1>4, LenProperties
    <2>2. QED  BY <1>4, <2>1, ElementOfSeq
<1>6. /\ u.cond = t.cond /\ u.orig = t.orig
      /\ t.cond = "below" => u.cond = "below"
    <2>1. CASE Len(t.to) \in {1, 2}
        <3>1. PICK sets : sets = [i \in DOMAIN t.to |-> F!CaseOf(o, t.to[i])]
            OBVIOUS
        <3>2. u = [t EXCEPT !.to = <<e + 1>>, !.sets = sets]
            BY <1>2, <2>1, <3>1 DEF F!UpdateSwitchVar
        <3>3. QED  BY <3>2
    <2>2. CASE Len(t.to) \notin {1, 2}
        BY <1>2, <2>2 DEF F!UpdateSwitchVar
    <2>3. QED  BY <2>1, <2>2
<1>7. way \in CASE t.cond = "opaque" -> OpaqueWays
                [] t.cond = "switch" -> {0}
                [] t.cond = "below" -> {IF value < u.low THEN 1 ELSE 2}
                [] t.cond = "within" -> {IF L!Within(value, u.low, u.high) THEN 1 ELSE 2}
                [] OTHER -> IF t.orig = 0 THEN DOMAIN u.to
                            ELSE P!WaysOn(g, t.orig, Len(g.code[t.orig]) + 1)
    BY <1>2, <1>6 DEF Ways
<1>8. CASE Len(t.to) \in {1, 2}
    <2>1. PICK sets : sets = [i \in DOMAIN t.to |-> F!CaseOf(o, t.to[i])]
        OBVIOUS
    <2>2. u = [t EXCEPT !.to = <<e + 1>>, !.sets = sets]
        BY <1>2, <1>8, <2>1 DEF F!UpdateSwitchVar
    <2>3. u.to = <<e + 1>> /\ u.sets = sets
        BY <1>3, <2>2 DEF IsTerm
    <2>4. DOMAIN sets = 1 .. Len(to) /\ sets # << >> /\ Len(sets) = Len(to) /\ t.to # << >>
        <3>1. DOMAIN sets = 1 .. Len(to) /\ Len(to) \in {1, 2}
            BY <1>4, <1>5, <1>8, <2>1
        <3>2. 1 \in DOMAIN sets
            BY <3>1
        <3>3. Len(sets) = Len(to)
            BY <1>4, <1>5, <2>1, <3>1
        <3>4. t.to # << >>
            BY <1>8
        <3>5. QED  BY <3>1, <3>2, <3>3, <3>4
    <2>5. Target(way) = e + 1
        <3>1. u.to # << >> /\ u.to[1] = e + 1
            BY <2>3
        <3>2. QED  BY <1>2, <1>3, <1>6, <2>3, <2>4, <3>1 DEF Target
    <2>6. /\ t.cond = "opaque" => way = 1
          /\ t.cond \in {"below", "within"} => way \in {1, 2}
          /\ t.cond \notin {"opaque", "below", "within"} =>
                IF t.orig = 0 THEN way \in DOMAIN t.to
                ELSE way \in P!WaysOn(g, t.orig, Len(g.code[t.orig]) + 1)
        <3>1. DOMAIN u.to = {1}
            <4>1. PICK d : d = e + 1 /\ u.to = <<d>>
                BY <2>3
            <4>2. DOMAIN <<d>> = 1 .. 1
                OBVIOUS
            <4>3. QED  BY <4>1, <4>2
        <3>2. 1 \in DOMAIN t.to
            <4>1. Len(to) \in {1, 2}
                BY <1>4, <1>8
            <4>2. 1 \in DOMAIN to
                BY <1>5, <4>1
            <4>3. QED  BY <1>4, <4>2
        <3>3. QED  BY <1>3, <1>7, <3>1, <3>2, OneOpaqueWay
    <2>7. \/ Len(to) = 1 /\ to[1] \in Blocks(first) \ J
          \/ Len(to) # 1 /\ way \in DOMAIN to /\ to[way] \in Blocks(first) \ J
        BY <1>1, <1>4, <2>4, <2>6, LengthsOfCode, WayGoesOn
    <2>8. Exit(way) \in DOMAIN to /\ to[Exit(way)] \in Blocks(first) \ J
        <3>1. Len(u.to) = 1
            BY <2>3
        <3>2. Exit(way) = IF Len(to) <= 1 THEN 1 ELSE way
            BY <1>2, <2>3, <2>4, <3>1 DEF Exit
        <3>3. CASE Len(to) = 1
            BY <1>5, <2>7, <3>2, <3>3
        <3>4. CASE Len(to) # 1
            BY <1>4, <1>5, <1>8, <2>7, <3>2, <3>4
        <3>5. QED  BY <3>3, <3>4
    <2>9. PICK x : x = to[Exit(way)] /\ x \in Blocks(first) \ J /\ x \in A
        BY <1>5, <2>8
    <2>10. Sets(way) = F!CaseOf(o, x)
        <3>1. sets[Exit(way)] = F!CaseOf(o, x)
            BY <1>4, <2>1, <2>8, <2>9
        <3>2. QED  BY <1>2, <2>3, <2>4, <3>1 DEF Sets
    <2>11. x \in ToSet(o)
        BY <1>4, <2>9, CasesLead
    <2>12. Sets(way) \in DOMAIN f.cases => f.cases[Sets(way)] \in Blocks(first) \ J
        BY <2>9, <2>10, <2>11, CasesLead
    <2>13. QED  BY <2>5, <2>12
<1>9. CASE Len(t.to) \notin {1, 2}
    <2>1. u = t
        BY <1>2, <1>9 DEF F!UpdateSwitchVar
    <2>2. CASE t.to = << >>
        BY <1>2, <1>3, <2>1, <2>2 DEF Target
    <2>3. CASE t.to # << >>
        <3>1. /\ t.cond = "opaque" => way = 1
              /\ t.cond \in {"below", "within"} => way \in {1, 2}
              /\ t.cond \notin {"opaque", "below", "within"} =>
                    IF t.orig = 0 THEN way \in DOMAIN t.to
                    ELSE way \in P!WaysOn(g, t.orig, Len(g.code[t.orig]) + 1)
            BY <1>3, <1>7, <2>1, OneOpaqueWay
        <3>2. way \in DOMAIN t.to /\ t.to[way] \in Blocks(first) \ J
            BY <1>1, <1>9, <2>3, <3>1, LengthsOfCode, WayGoesOn
        <3>3. Target(way) = t.to[way]
            <4>1. Exit(way) = way
                BY <1>2, <1>9, <2>1 DEF Exit
            <4>2. QED  BY <1>2, <1>3, <2>1, <2>3, <4>1 DEF Target
        <3>4. QED  BY <3>2, <3>3
    <2>4. QED  BY <2>2, <2>3
<1>10. QED  BY <1>8, <1>9

(* The loop goes from its end, and from the default, back to the switch.       *)
LEMMA LoopLeaves ==
    ASSUME NEW J, NEW first, NEW e, NEW o, IsFlatOf(first, J, e, o), NEW way
    PROVE  /\ Block = e => Target(way) = IF switchVar \in DOMAIN f.cases THEN f.cases[switchVar]
                                         ELSE e + 2
           /\ Block = e + 1 => Target(way) = e
           /\ Block = e + 2 => Target(way) = e + 1
           /\ Block \in {e, e + 1, e + 2} => Sets(way) = switchVar
<1>1. /\ f.term[e].cond = "switch" /\ f.term[e].sets = << >>
      /\ f.term[e + 1] = Jump(e) /\ f.term[e + 2] = Jump(e + 1) /\ f.default = e + 2
    BY DEF IsFlatOf, IsFlat
<1>2. CASE Block = e
    <2>1. PICK u : u = Term /\ u = [to |-> <<e + 2>> \o o, cond |-> "switch", sets |-> << >>, orig |-> 0]
        BY <1>2 DEF Term, IsFlatOf, IsFlat
    <2>2. u.cond = "switch" /\ u.to = <<e + 2>> \o o /\ u.sets = << >>
        BY <2>1
    <2>3. u.to # << >>
        <3>1. IsShape(first) /\ o = Tail(first.layout)
            BY DEF IsFlatOf, Guarded
        <3>2. PICK T : T = Nat \ {0} /\ first.layout \in Seq(T) /\ first.layout # << >>
            BY <3>1 DEF IsShape
        <3>3. o \in Seq(T) /\ e + 2 \in T
            <4>1. o \in Seq(T)
                BY <3>1, <3>2, HeadTailProperties
            <4>2. e \in Nat
                BY FreshIsNew DEF IsFlatOf, Guarded
            <4>3. QED  BY <3>2, <4>1, <4>2
        <3>4. PICK c : c = <<e + 2>> /\ c \in Seq(T) /\ Len(c) = 1
            <4>1. PICK d \in T : d = e + 2
                BY <3>3
            <4>2. <<d>> \in Seq(T) /\ Len(<<d>>) = 1
                OBVIOUS
            <4>3. QED  BY <4>1, <4>2
        <3>5. Len(c \o o) = 1 + Len(o) /\ Len(o) \in Nat
            BY <3>3, <3>4, ConcatProperties, LenProperties
        <3>6. c \o o # << >>
            BY <3>5
        <3>7. QED  BY <2>2, <3>4, <3>6
    <2>4. Target(way) = IF switchVar \in DOMAIN f.cases THEN f.cases[switchVar] ELSE e + 2
        BY <1>1, <2>1, <2>2, <2>3 DEF Target
    <2>5. Sets(way) = switchVar
        BY <2>1, <2>2 DEF Sets
    <2>6. e + 1 # e /\ e + 2 # e
        BY FreshIsNew DEF IsFlatOf, Guarded
    <2>7. QED  BY <1>2, <2>4, <2>5, <2>6
<1>3. ASSUME NEW d, Term = Jump(d)
      PROVE  Target(way) = d /\ Sets(way) = switchVar
    <2>1. PICK u : u = Term /\ u.to = <<d>> /\ u.sets = << >> /\ u.cond = "none"
        BY <1>3 DEF Jump
    <2>2. Len(u.to) = 1 /\ Len(u.sets) = 0 /\ u.to # << >> /\ u.to[1] = d
        BY <2>1
    <2>3. Exit(way) = 1
        BY <2>1, <2>2 DEF Exit
    <2>4. QED  BY <2>1, <2>2, <2>3 DEF Target, Sets
<1>4. CASE Block = e + 1
    <2>1. Term = Jump(e)
        BY <1>1, <1>4 DEF Term
    <2>2. e + 1 # e /\ e + 1 # e + 2
        BY FreshIsNew DEF IsFlatOf, Guarded
    <2>3. QED  BY <1>3, <1>4, <2>1, <2>2
<1>5. CASE Block = e + 2
    <2>1. Term = Jump(e + 1)
        BY <1>1, <1>5 DEF Term
    <2>2. e + 2 # e /\ e + 1 # e + 2
        BY FreshIsNew DEF IsFlatOf, Guarded
    <2>3. QED  BY <1>3, <1>5, <2>1, <2>2
<1>6. QED  BY <1>2, <1>4, <1>5

(* So that the dispatcher only leads to blocks that may run.                *)
LEMMA FlatLeaves ==
    ASSUME Guards, NEW J, NEW first, NEW e, NEW o, IsDispatched(first, J, e, o),
           0 .. Len(f.layout) \subseteq DOMAIN Scramble, Block # 0, NEW way \in Ways
    PROVE  /\ Target(way) \in {0} \cup (Blocks(first) \ J) \cup {e, e + 1, e + 2}
           /\ Target(way) \in {e, e + 1, e + 2} /\ Sets(way) \in DOMAIN f.cases
                 => f.cases[Sets(way)] \in Blocks(first) \ J
<1>1. IsFlatOf(first, J, e, o)
    BY DEF IsDispatched
<1>2. Block \in (Blocks(first) \ J) \cup {e, e + 1, e + 2}
    BY DEF IsDispatched
<1>3. /\ e \in Nat \ {0} /\ \A x \in Blocks(first) : x # e /\ x # e + 1 /\ x # e + 2
    <2>1. IsShape(first) /\ e = Fresh(first)
        BY <1>1 DEF IsFlatOf, Guarded
    <2>2. e \in Nat \ {0} /\ \A x \in Blocks(first) : x < e
        BY <2>1, FreshIsNew
    <2>3. PICK T : T = Nat \ {0} /\ first.layout \in Seq(T)
        BY <2>1 DEF IsShape
    <2>4. \A q \in DOMAIN first.layout : first.layout[q] \in T
        BY <2>3, LenProperties, ElementOfSeq
    <2>5. Blocks(first) \subseteq Nat
        BY <2>3, <2>4 DEF Blocks, ToSet
    <2>6. \A x \in Blocks(first) : x # e /\ x # e + 1 /\ x # e + 2
        BY <2>2, <2>5
    <2>7. QED  BY <2>2, <2>6
<1>4. CASE Block = Entry(first)
    BY <1>1, <1>4, FlatEntryLeaves, CasesLead
<1>5. CASE Block \in (Blocks(first) \ J) \ {Entry(first)}
    <2>1. \/ Target(way) \in {0} \cup (Blocks(first) \ J)
          \/ /\ Target(way) = e + 1
             /\ Sets(way) \in DOMAIN f.cases => f.cases[Sets(way)] \in Blocks(first) \ J
        BY <1>1, <1>5, FlatBlockLeaves
    <2>2. \A x \in {0} \cup (Blocks(first) \ J) : x \notin {e, e + 1, e + 2}
        <3>1. 0 # e /\ 0 # e + 1 /\ 0 # e + 2
            BY <1>3
        <3>2. QED  BY <1>3, <3>1
    <2>3. QED  BY <2>1, <2>2
<1>6. CASE Block \in {e, e + 1, e + 2}
    <2>1. switchVar \in DOMAIN f.cases => f.cases[switchVar] \in Blocks(first) \ J
        BY <1>6 DEF IsDispatched
    <2>2. Sets(way) = switchVar
        BY <1>1, <1>6, LoopLeaves
    <2>3. Target(way) \in (Blocks(first) \ J) \cup {e, e + 1, e + 2}
        <3>1. CASE Block = e
            BY <1>1, <2>1, <3>1, LoopLeaves
        <3>2. CASE Block = e + 1
            BY <1>1, <3>2, LoopLeaves
        <3>3. CASE Block = e + 2
            BY <1>1, <3>3, LoopLeaves
        <3>4. QED  BY <1>6, <3>1, <3>2, <3>3
    <2>4. QED  BY <2>1, <2>2, <2>3
<1>7. QED  BY <1>2, <1>4, <1>5, <1>6

(* The run starts at the entry, which no altered block is.                    *)
LEMMA StartsInside ==
    ASSUME Guards, Flatten
    PROVE  RunsInside'
<1>1. /\ pass = "flatten" /\ UNCHANGED <<g, at>>
      /\ f' = IF pass \in passes THEN F!Flatten(L!LowerSwitch(f)) ELSE f
    BY DEF Flatten, machine
<1>2. PICK J, en : Guarded(g, f, J, "opaque") /\ en = Entry(g) /\ at = <<en, 1>>
    BY <1>1 DEF Guards
<1>3. at' = <<en, 1>> /\ at[1] = en /\ at[2] = 1
    BY <1>1, <1>2
<1>4. ASSUME NEW h, Guarded(g, h, J, "opaque") PROVE en \in Blocks(h) \ J
    BY <1>2, <1>4, EntryIs DEF Guarded
<1>5. ASSUME NEW h, Guarded(g, h, J, "opaque"), f' = h PROVE IsPlain(J)'
    <2>1. Block' = en
        BY <1>1, <1>3 DEF Block
    <2>2. QED  BY <1>1, <1>4, <1>5, <2>1 DEF IsPlain
<1>6. (\E K : IsPlain(K)') \/ (\E K, first, e, o : IsDispatched(first, K, e, o)')
    <2>1. CASE pass \notin passes
        BY <1>1, <1>2, <1>5, <2>1
    <2>2. CASE pass \in passes
        <3>1. PICK h : h = L!LowerSwitch(f) /\ Guarded(g, h, J, "opaque")
            BY <1>2, LowerSwitchKeeps DEF IsLowering
        <3>2. CASE ~F!Flattens(h)
            <4>1. f' = h
                BY <1>1, <2>2, <3>1, <3>2 DEF F!Flatten
            <4>2. QED  BY <1>5, <3>1, <4>1
        <3>3. CASE F!Flattens(h)
            <4>1. f' = F!Flattened(h) /\ Len(h.layout) > 1
                BY <1>1, <2>2, <3>1, <3>3 DEF F!Flatten, F!Flattens
            <4>2. PICK first, e, o : first = F!WithFirst(h) /\ e = Fresh(first) /\ o = Tail(first.layout)
                OBVIOUS
            <4>3. Guarded(g, first, J, "opaque") /\ Len(first.layout) > 1
                BY <3>1, <4>1, <4>2, WithFirstGuards
            <4>4. IsShape(first)
                BY <4>3 DEF Guarded
            <4>5. IsFlat(first, e, o, f')
                BY <4>1, <4>2, <4>4, FlattenedIs
            <4>6. Block' = en /\ en \in Blocks(first) \ J
                BY <1>1, <1>3, <1>4, <4>3 DEF Block
            <4>7. en \notin {e, e + 1, e + 2}
                <5>1. e \in Nat /\ en < e
                    BY <4>2, <4>4, <4>6, FreshIsNew
                <5>2. en \in Nat
                    BY <4>4, <4>6 DEF IsShape
                <5>3. QED  BY <5>1, <5>2
            <4>8. IsDispatched(first, J, e, o)'
                BY <1>1, <4>2, <4>3, <4>5, <4>6, <4>7 DEF IsDispatched, IsFlatOf
            <4>9. QED  BY <4>8
        <3>4. QED  BY <3>2, <3>3
    <2>3. QED  BY <2>1, <2>2
<1>7. at' = <<at'[1], at'[2]>> /\ at'[2] \in Nat \ {0}
    BY <1>3
<1>8. QED  BY <1>6, <1>7 DEF RunsInside

(* A step of the run stays in blocks that may run.                          *)
LEMMA StaysInside ==
    ASSUME Guards, RunsInside, FewBlocks, pass = "run", Run
    PROVE  RunsInside'
<1>1. UNCHANGED <<g, pass, f>> /\ Block # 0
    BY DEF Run, Execute, Leave, Running, rewriting
<1>2. at = <<at[1], at[2]>> /\ at[2] \in Nat \ {0}
    BY DEF RunsInside
<1>3. CASE Execute
    <2>1. at' = <<Block, at[2] + 1>> /\ switchVar' = switchVar
        BY <1>3 DEF Execute
    <2>2. at'[1] = Block /\ at'[2] = at[2] + 1 /\ Block' = Block
        BY <2>1 DEF Block
    <2>3. at' = <<at'[1], at'[2]>> /\ at'[2] \in Nat \ {0}
        BY <1>2, <2>1, <2>2
    <2>4. ASSUME NEW J, IsPlain(J) PROVE IsPlain(J)'
        BY <1>1, <2>2, <2>4 DEF IsPlain
    <2>5. ASSUME NEW J, NEW first, NEW e, NEW o, IsDispatched(first, J, e, o)
          PROVE  IsDispatched(first, J, e, o)'
        BY <1>1, <2>1, <2>2, <2>5 DEF IsDispatched, IsFlatOf
    <2>6. QED  BY <1>1, <2>3, <2>4, <2>5 DEF RunsInside
<1>4. CASE Leave
    <2>1. PICK way \in Ways : at' = <<Target(way), 1>> /\ switchVar' = Sets(way)
        BY <1>4 DEF Leave, Sets
    <2>2. at'[1] = Target(way) /\ at'[2] = 1 /\ Block' = Target(way)
        BY <2>1 DEF Block
    <2>3. at' = <<at'[1], at'[2]>> /\ at'[2] \in Nat \ {0}
        BY <2>1, <2>2
    <2>4. ASSUME NEW J, IsPlain(J) PROVE IsPlain(J)'
        <3>1. Target(way) \in {0} \cup (Blocks(f) \ J)
            BY <1>1, <2>4, PlainLeaves
        <3>2. QED  BY <1>1, <2>2, <2>4, <3>1 DEF IsPlain
    <2>5. ASSUME NEW J, NEW first, NEW e, NEW o, IsDispatched(first, J, e, o)
          PROVE  IsDispatched(first, J, e, o)'
        <3>1. /\ Target(way) \in {0} \cup (Blocks(first) \ J) \cup {e, e + 1, e + 2}
              /\ Target(way) \in {e, e + 1, e + 2} /\ Sets(way) \in DOMAIN f.cases
                    => f.cases[Sets(way)] \in Blocks(first) \ J
            BY <1>1, <2>5, FlatLeaves DEF FewBlocks
        <3>2. QED  BY <1>1, <2>1, <2>2, <2>5, <3>1 DEF IsDispatched, IsFlatOf
    <2>6. QED  BY <1>1, <2>3, <2>4, <2>5 DEF RunsInside
<1>5. QED  BY <1>3, <1>4 DEF Run

(* The invariant of the run is inductive.                                   *)
LEMMA StepRunsInside ==
    ASSUME Guards, RunsInside, FewBlocks, [Next]_vars
    PROVE  RunsInside'
<1>1. CASE pass' # "run"
    BY <1>1 DEF RunsInside
<1>2. CASE Flatten
    BY <1>2, StartsInside
<1>3. CASE Run
    <2>1. pass = "run"
        BY <1>3 DEF Run, Execute, Leave, Running
    <2>2. QED  BY <1>3, <2>1, StaysInside
<1>4. CASE UNCHANGED vars
    <2>1. UNCHANGED <<g, pass, f, at, switchVar>>
        BY <1>4 DEF vars, machine, rewriting
    <2>2. QED  BY <2>1 DEF RunsInside, IsPlain, IsDispatched, IsFlatOf, Block
<1>5. CASE Split \/ StartBogus \/ Bogus \/ FinishBogus
    <2>1. pass' # "run"
        BY <1>5 DEF Split, StartBogus, Bogus, FinishBogus
    <2>2. QED  BY <1>1, <2>1
<1>6. QED  BY <1>2, <1>3, <1>4, <1>5 DEF Next, Compile, Returned

(* A block that may run has no instruction of an altered copy.              *)
LEMMA InsideHasNoJunk ==
    ASSUME RunsInside
    PROVE  AlteredNeverRuns
<1> SUFFICES ASSUME Running, ~AtTerminator
             PROVE  Here.kind # "junk"
    BY DEF AlteredNeverRuns
<1>1. pass = "run" /\ Block # 0 /\ at[2] \in Nat \ {0} /\ ~(at[2] > Len(f.code[Block]))
    BY DEF Running, AtTerminator, RunsInside
<1>2. ASSUME NEW code, code = f.code[Block], code \in Seq(Instructions), NoJunk(code)
      PROVE  Here.kind # "junk"
    <2>1. Len(code) \in Nat /\ DOMAIN code = 1 .. Len(code)
        BY <1>2, LenProperties
    <2>2. at[2] \in DOMAIN code
        BY <1>1, <1>2, <2>1
    <2>3. QED  BY <1>2, <2>2 DEF NoJunk, Here
<1>3. CASE \E J : IsPlain(J)
    <2>1. PICK J : IsPlain(J)
        BY <1>3
    <2>2. f.code[Block] \in Seq(Instructions) /\ NoJunk(f.code[Block])
        BY <1>1, <2>1 DEF IsPlain, Guarded, IsShape
    <2>3. QED  BY <1>2, <2>2
<1>4. CASE \E J, first, e, o : IsDispatched(first, J, e, o)
    <2>1. PICK J, first, e, o : IsDispatched(first, J, e, o)
        BY <1>4
    <2>2. Block \in (Blocks(first) \ J) \cup {e, e + 1, e + 2}
        BY <1>1, <2>1 DEF IsDispatched
    <2>3. CASE Block \in Blocks(first) \ J
        <3>1. f.code[Block] = first.code[Block]
            BY <2>1, <2>3 DEF IsDispatched, IsFlatOf, IsFlat
        <3>2. first.code[Block] \in Seq(Instructions) /\ NoJunk(first.code[Block])
            BY <2>1, <2>3 DEF IsDispatched, IsFlatOf, Guarded, IsShape
        <3>3. QED  BY <1>2, <3>1, <3>2
    <2>4. CASE Block \in {e, e + 1, e + 2}
        <3>1. f.code[Block] = << >>
            BY <2>1, <2>4 DEF IsDispatched, IsFlatOf, IsFlat
        <3>2. Len(f.code[Block]) = 0
            BY <3>1
        <3>3. QED  BY <1>1, <3>2
    <2>5. QED  BY <2>2, <2>3, <2>4
<1>5. QED  BY <1>1, <1>3, <1>4 DEF RunsInside

(* No instruction of an altered copy is ever executed: the predicate in front *)
(* of it holds whatever the globals are, and none of the passes that follow,  *)
(* nor the dispatcher of the flattened function, has another way to it        *)
(* (BogusControlFlow.cpp:40, 263-266).                                        *)
THEOREM AlteredCodeNeverRuns ==
    Spec /\ []FewBlocks => []AlteredNeverRuns
<1>1. Init => Guards /\ RunsInside
    <2>1. Init => pass = "split"
        BY DEF Init
    <2>2. QED  BY <2>1, InitGuards DEF RunsInside
<1>2. FewBlocks /\ Guards /\ RunsInside /\ [Next]_vars => (Guards /\ RunsInside)'
    BY StepGuards, StepRunsInside
<1>3. Guards /\ RunsInside => AlteredNeverRuns
    BY InsideHasNoJunk
<1>4. QED  BY <1>1, <1>2, <1>3, PTL DEF Spec

-----------------------------------------------------------------------------
(* What the run of a function that was not flattened shows of the original.   *)
LEMMA NoBlockIsZero ==
    ASSUME NEW fn, IsShape(fn)
    PROVE  Blocks(fn) \subseteq Nat \ {0} /\ Entry(fn) \in Blocks(fn)
<1>1. PICK T : T = Nat \ {0} /\ fn.layout \in Seq(T)
    BY DEF IsShape
<1>2. \A q \in DOMAIN fn.layout : fn.layout[q] \in T
    BY <1>1, LenProperties, ElementOfSeq
<1>3. QED  BY <1>1, <1>2, EntryIs DEF Blocks, ToSet

(* Every block of the original is one part of it.                           *)
LEMMA SourceHasParts ==
    ASSUME NEW fn, WellFormed(fn)
    PROVE  IsSource(fn) /\ \A c : HasParts(fn, fn, c)
<1>1. IsShape(fn)
    BY WellFormedGuards DEF Guarded
<1>2. Blocks(fn) \subseteq Nat \ {0} /\ Entry(fn) \in Blocks(fn)
    BY <1>1, NoBlockIsZero
<1>3. ASSUME NEW o \in Blocks(fn)
      PROVE  /\ IsTerm(fn.term[o]) /\ fn.term[o].orig = o /\ fn.term[o].sets = << >>
             /\ fn.term[o].cond \in {"none", "data", "invoke", "true", "cases", "unreachable"}
             /\ fn.term[o].cond = "true" => Len(fn.term[o].to) = 2
             /\ fn.term[o].to \in Seq(Blocks(fn) \ {Entry(fn)})
             /\ \A i \in DOMAIN fn.code[o] : fn.code[o][i].at = <<o, i>>
             /\ fn.from[o] = [q \in Preds(fn, o) |-> q]
    BY DEF WellFormed, IsTerm
<1>4. IsSource(fn)
    BY <1>1, <1>3 DEF IsSource
<1> DEFINE of == [b \in Blocks(fn) |-> b]
           skip == [b \in Blocks(fn) |-> 0]
<1>5. /\ DOMAIN of = Blocks(fn) /\ \A b \in Blocks(fn) : of[b] = b /\ skip[b] = 0
    OBVIOUS
<1> HIDE DEF of, skip
<1>6. \A b \in Blocks(fn) : Preds(fn, b) \subseteq Blocks(fn)
    BY DEF Preds
<1>7. ASSUME NEW b \in Blocks(fn) PROVE EndsAs(fn, fn, of[b], b)
    <2>1. ASSUME NEW x \in ToSet(fn.term[b].to) \cap Reached(fn)
          PROVE  b \in DOMAIN fn.from[x] /\ fn.from[x][b] = b
        <3>1. x \in Blocks(fn)
            BY <1>2 DEF Reached
        <3>2. b \in Preds(fn, x)
            BY DEF Preds
        <3>3. QED  BY <1>3, <3>1, <3>2
    <2>2. QED  BY <1>5, <2>1 DEF EndsAs
<1>8. ASSUME NEW c, NEW b \in Blocks(fn) PROVE IsPart(fn, fn, of, skip, c, b)
    <2>1. fn.code[b] \in Seq(Instructions)
        BY <1>1 DEF IsShape
    <2>2. Len(fn.code[b]) \in Nat
        BY <2>1, LenProperties
    <2>3. \A i \in 1 .. Len(fn.code[b]) : 0 + i = i
        BY <2>2
    <2>4. QED  BY <1>5, <1>7, <2>2, <2>3 DEF IsPart
<1>9. ASSUME NEW x \in Blocks(fn), NEW q \in DOMAIN fn.from[x]
      PROVE  q \in Nat /\ \E b \in Blocks(fn) : q <= b
    <2>1. q \in Blocks(fn)
        BY <1>3, <1>6
    <2>2. q \in Nat /\ q <= q
        BY <1>2, <2>1
    <2>3. QED  BY <2>1, <2>2
<1>10. IsInjective(fn.layout)
    BY DEF WellFormed
<1>11. \A b \in Reached(fn) : b \in Blocks(fn)
    BY <1>2 DEF Reached
<1>12. ASSUME NEW c PROVE HasParts(fn, fn, c)
    <2>1. IsParted(fn, fn, of, skip, c)
        BY <1>5, <1>8, <1>9, <1>10, <1>11 DEF IsParted
    <2>2. QED  BY <2>1 DEF HasParts, Suits
<1>13. QED  BY <1>4, <1>12

(* The branches that are always taken get their condition.                   *)
LEMMA DoFParts ==
    ASSUME NEW p, IsSource(p), NEW fn, NEW J, Guarded(p, fn, J, "true"), HasParts(p, fn, "true")
    PROVE  HasParts(p, B!DoF(fn), "opaque")
<1> DEFINE opaque(t) == IF t.cond = "true" THEN [t EXCEPT !.cond = "opaque"] ELSE t
           z == [b \in DOMAIN fn.term |-> opaque(fn.term[b])]
           h == B!DoF(fn)
<1>1. PICK of, skip : IsParted(p, fn, of, skip, "true")
    BY DEF HasParts
<1>2. PICK a, c, u, o : fn = [layout |-> a, code |-> c, term |-> u, from |-> o,
                              cases |-> << >>, default |-> 0]
    BY DEF Guarded, IsShape, HasFields
<1>3. fn.layout = a /\ fn.code = c /\ fn.term = u /\ fn.from = o
    BY <1>2
<1>4. h = [layout |-> a, code |-> c, term |-> z, from |-> o, cases |-> << >>, default |-> 0]
    <2>1. h = [fn EXCEPT !.term = z]
        BY DEF B!DoF
    <2> HIDE DEF h, z
    <2>2. QED  BY <1>2, <2>1
<1> HIDE DEF h
<1>5. h.layout = fn.layout /\ h.code = fn.code /\ h.from = fn.from /\ h.term = z
    BY <1>3, <1>4
<1>6. \A b \in Blocks(fn) : h.term[b] = opaque(fn.term[b])
    BY <1>5 DEF Guarded, IsShape
<1>7. Blocks(h) = Blocks(fn)
    BY <1>5 DEF Blocks
<1> HIDE DEF z
<1>8. ASSUME NEW b \in DOMAIN of, EndsAs(p, fn, of[b], b) PROVE EndsAs(p, h, of[b], b)
    <2>1. PICK t, s : t = fn.term[b] /\ s = p.term[of[b]] /\ b \in Blocks(fn) /\ of[b] \in Blocks(p)
        BY <1>1 DEF IsParted, IsPart
    <2>2. t = s \/ (s.cond = "true" /\ t = [s EXCEPT !.cond = "opaque"])
        BY <1>8, <2>1 DEF EndsAs
    <2>3. IsTerm(s)
        BY <2>1 DEF IsSource
    <2>4. opaque(t) = s \/ (s.cond = "true" /\ opaque(t) = [s EXCEPT !.cond = "opaque"])
        <3>1. CASE t = s
            BY <3>1
        <3>2. CASE s.cond = "true" /\ t = [s EXCEPT !.cond = "opaque"]
            <4>1. t.cond = "opaque"
                BY <2>3, <3>2 DEF IsTerm
            <4>2. QED  BY <3>2, <4>1
        <3>3. QED  BY <2>2, <3>1, <3>2
    <2>5. h.term[b] = opaque(t)
        BY <1>6, <2>1
    <2> HIDE DEF opaque
    <2>6. QED  BY <1>5, <1>8, <2>1, <2>4, <2>5 DEF EndsAs
<1>9. ASSUME NEW b \in DOMAIN of, NEW y, GoesOnWith(fn, "true", y, b)
      PROVE  GoesOnWith(h, "opaque", y, b)
    <2>1. PICK t : t = fn.term[b] /\ b \in Blocks(fn)
        BY <1>1 DEF IsParted
    <2>2. h.term[b] = opaque(t)
        BY <1>6, <2>1
    <2>3. CASE t = Jump(y)
        <3>1. t.cond = "none"
            BY <2>3, JumpIs
        <3>2. QED  BY <2>2, <2>3, <3>1 DEF GoesOnWith
    <2>4. CASE \E e : t = Branch("true", y, e)
        <3>1. PICK e : t = Branch("true", y, e)
            BY <2>4
        <3>2. opaque(t) = Branch("opaque", y, e)
            BY <3>1 DEF Branch
        <3>3. QED  BY <2>2, <3>2 DEF GoesOnWith
    <2>5. QED  BY <1>9, <2>1, <2>3, <2>4 DEF GoesOnWith
<1> HIDE DEF opaque
<1>10. ASSUME NEW b \in DOMAIN of PROVE IsPart(p, h, of, skip, "opaque", b)
    <2>1. IsPart(p, fn, of, skip, "true", b)
        BY <1>1 DEF IsParted
    <2>2. QED  BY <1>5, <1>8, <1>9, <2>1 DEF IsPart
<1>11. IsParted(p, h, of, skip, "opaque")
    BY <1>1, <1>5, <1>7, <1>10 DEF IsParted
<1>12. Suits(p, h)
    <2>1. ASSUME NEW b \in Blocks(fn)
          PROVE  h.term[b].to = fn.term[b].to /\ (h.term[b].cond = "cases" => fn.term[b].cond = "cases")
        <3>1. PICK t : t = fn.term[b] /\ IsTerm(t)
            BY DEF Guarded, IsExit, IsJunkExit
        <3>2. opaque(t).to = t.to /\ (opaque(t).cond = "cases" => t.cond = "cases")
            BY <3>1 DEF opaque, IsTerm
        <3>3. QED  BY <1>6, <3>1, <3>2
    <2>2. HasNoSwitch(fn) => HasNoSwitch(h)
        BY <1>7, <2>1 DEF HasNoSwitch
    <2>3. Entry(h) = Entry(fn) /\ Entry(fn) \in Blocks(fn)
        BY <1>5, EntryIs DEF Entry, Guarded
    <2>4. FallsThrough(fn) => FallsThrough(h)
        BY <1>5, <2>1, <2>3 DEF FallsThrough
    <2>5. QED  BY <2>2, <2>4 DEF Suits, HasParts
<1>13. QED  BY <1>11, <1>12 DEF HasParts, h

(* The run is at the instruction of a part of fn that the program is at, and  *)
(* phi nodes take the value of the block the path came from.                *)
IsAt(fn, of, skip) ==
    /\ Block \in DOMAIN of /\ at[2] \in 1 .. Len(fn.code[Block]) + 1
    /\ P!Onward(g, done) = {<<of[Block], skip[Block] + at[2], Came>>}
    /\ HasPhi(fn.code[Block]) => PhiTakes(Block) = Came

IsAlong(fn, of, skip) ==
    /\ f = fn /\ IsShape(fn) /\ fn.default = 0 /\ IsParted(g, fn, of, skip, "opaque")
    /\ IF Block = 0 THEN P!Onward(g, done) = {} ELSE IsAt(fn, of, skip)

(* In a flattened function it may also be on its way through the dispatcher   *)
(* to the block x.                                                          *)
IsSentTo(fn, e, o, of, skip, x) ==
    /\ Block \in {e, e + 1} /\ at[2] = 1
    /\ x \in DOMAIN of /\ x # Entry(fn) /\ switchVar = F!CaseOf(o, x)
    /\ P!Onward(g, done) = {<<of[x], skip[x] + 1, Came>>}
    /\ HasPhi(fn.code[x]) => slot[x] = Came

IsAlongFlat(J, fn, e, o, of, skip) ==
    /\ IsFlatOf(fn, J, e, o) /\ IsParted(g, fn, of, skip, "opaque")
    /\ fn.term[Entry(fn)].to = <<o[1]>> /\ DOMAIN slot = Blocks(g)
    /\ IF Block = 0 THEN P!Onward(g, done) = {}
       ELSE IsAt(fn, of, skip) \/ \E x : IsSentTo(fn, e, o, of, skip, x)

(* What flattening needs of the function: scramble32 has a word for each block, *)
(* LowerSwitch nothing to do, and case 0 is where the entry goes.             *)
CanBeFlattened == "flatten" \in passes => FewBlocks /\ HasNoSwitch(g) /\ FallsThrough(g)

KeepsAlong ==
    /\ \E k \in Compilations : g = k.function
    /\ pass # "run" => /\ at = <<Entry(g), 1>> /\ prev = 0 /\ done = P!Start
                       /\ DOMAIN slot = Blocks(g)
    /\ pass = "split" => \A c : HasParts(g, f, c)
    /\ pass = "bogus" => /\ HasParts(g, f, "true")
                         /\ "bogus" \notin passes => HasParts(g, f, "opaque")
    /\ pass = "flatten" => HasParts(g, f, "opaque")
    /\ pass = "run" => \/ \E fn, of, skip : IsAlong(fn, of, skip)
                       \/ /\ "flatten" \in passes
                          /\ \E J, fn, e, o, of, skip : IsAlongFlat(J, fn, e, o, of, skip)

(* What is known of the original function.                                  *)
LEMMA SourceIs ==
    ASSUME NEW k \in Compilations
    PROVE  LET fn == k.function
           IN  /\ IsSource(fn) /\ IsShape(fn) /\ IsDefined(fn) /\ ~HasPhi(fn.code[Entry(fn)])
               /\ \A c : HasParts(fn, fn, c)
               /\ Blocks(fn) \subseteq Nat \ {0} /\ Entry(fn) \in Blocks(fn)
<1> DEFINE fn == k.function
<1>1. WellFormed(fn) /\ IsDefined(fn)
    BY CompilationsAssumption
<1> HIDE DEF fn
<1>2. IsSource(fn) /\ \A c : HasParts(fn, fn, c)
    BY <1>1, SourceHasParts
<1>3. IsShape(fn)
    BY <1>2 DEF IsSource
<1>4. ~HasPhi(fn.code[Entry(fn)])
    BY <1>1 DEF WellFormed, HasPhi
<1>5. Blocks(fn) \subseteq Nat \ {0} /\ Entry(fn) \in Blocks(fn)
    BY <1>3, NoBlockIsZero
<1>6. QED  BY <1>1, <1>2, <1>3, <1>4, <1>5 DEF fn

LEMMA SameInProgram ==
    /\ \A fn : P!Blocks(fn) = Blocks(fn) /\ P!Entry(fn) = Entry(fn)
    /\ \A fn, b : P!IsUnreachable(fn, b) = IsUnreachable(fn, b)
<1>1. \A s : P!ToSet(s) = ToSet(s)
    BY DEF P!ToSet, ToSet
<1>2. QED  BY <1>1 DEF P!Blocks, Blocks, P!Entry, Entry, P!IsUnreachable, IsUnreachable, P!IsPhi, IsPhi

(* The predecessor is that of the one place the program goes on to.          *)
LEMMA CameIs ==
    ASSUME NEW o, NEW j, NEW c, P!Onward(g, done) = {<<o, j, c>>}
    PROVE  Came = c
<1>1. (CHOOSE p \in {<<o, j, c>>} : TRUE) = <<o, j, c>>
    OBVIOUS
<1>2. {<<o, j, c>>} # {}
    OBVIOUS
<1>3. Came = <<o, j, c>>[3]
    BY <1>1, <1>2 DEF Came
<1>4. QED  BY <1>3

LEMMA CameIsThen ==
    ASSUME NEW o, NEW j, NEW c, P!Onward(g', done') = {<<o, j, c>>}
    PROVE  Came' = c
<1>1. (CHOOSE p \in {<<o, j, c>>} : TRUE) = <<o, j, c>>
    OBVIOUS
<1>2. {<<o, j, c>>} # {}
    OBVIOUS
<1>3. Came' = <<o, j, c>>[3]
    BY <1>1, <1>2 DEF Came
<1>4. QED  BY <1>3

LEMMA FollowIs ==
    ASSUME NEW o, NEW j, NEW c, P!Onward(g, done) = {<<o, j, c>>}, NEW w \in P!WaysOn(g, o, j)
    PROVE  P!Event(o, j, w, c) \in P!Follow(g, done)
<1> DEFINE Then(q) == {P!Event(q[1], q[2], d, q[3]) : d \in P!WaysOn(g, q[1], q[2])}
<1>1. P!Event(o, j, w, c) \in Then(<<o, j, c>>)
    OBVIOUS
<1>2. P!Follow(g, done) = UNION {Then(q) : q \in P!Onward(g, done)}
    BY DEF P!Follow
<1> HIDE DEF Then
<1>3. QED  BY <1>1, <1>2

LEMMA Sums ==
    /\ \A s, m, l \in Nat : s + m = l => s + (m + 1) = l + 1
    /\ \A s, m \in Nat : s + (m + 1) = (s + m) + 1
    /\ \A m \in Nat : \A i \in 1 .. m + 1 : i > m => i = m + 1
    /\ \A m \in Nat : ~(m + 1 <= m) /\ 1 \in 1 .. m + 1
OBVIOUS

LEMMA EmptyHasNone ==
    ASSUME NEW s, Len(s) = 2
    PROVE  s # << >>
<1>1. Len(<< >>) = 0
    OBVIOUS
<1>2. QED  BY <1>1

(* A step of the run that executes an instruction.                            *)
LEMMA ExecuteFollows ==
    ASSUME Execute, NEW k \in Compilations, g = k.function, NEW fn, NEW of, NEW skip,
           IsShape(fn), IsParted(g, fn, of, skip, "opaque"), f.code[Block] = fn.code[Block],
           IsAt(fn, of, skip)
    PROVE  P!Step /\ IsAt(fn, of, skip)' /\ Block' = Block
<1> DEFINE o == of[Block]
           j == skip[Block] + at[2]
           n == Len(fn.code[Block])
<1>1. /\ Block # 0 /\ at[2] <= n
      /\ done' = P!Event(Here.at[1], Here.at[2], 0,
                         IF IsPhi(Here) THEN PhiTakes(Here.at[1]) ELSE Came)
      /\ at' = <<Block, at[2] + 1>> /\ UNCHANGED <<g, f, prev, slot>>
    <2>1. Running /\ ~AtTerminator
        BY DEF Execute
    <2>2. PICK q \in 1 .. n + 1 : q = at[2]
        BY DEF IsAt
    <2>3. n \in Nat
        <3>1. fn.code[Block] \in Seq(Instructions)
            BY DEF IsAt, IsParted, IsShape
        <3>2. QED  BY <3>1, LenProperties
    <2>4. QED  BY <2>1, <2>2, <2>3 DEF Execute, Running, AtTerminator, rewriting
<1>2. /\ Block \in DOMAIN of /\ Block \in Blocks(fn) /\ IsPart(g, fn, of, skip, "opaque", Block)
      /\ P!Onward(g, done) = {<<o, j, Came>>}
      /\ HasPhi(fn.code[Block]) => PhiTakes(Block) = Came
    BY DEF IsAt, IsParted
<1>3. /\ o \in Blocks(g) /\ skip[Block] \in Nat /\ skip[Block] + n <= Len(g.code[o])
      /\ \A i \in 1 .. n : fn.code[Block][i] = g.code[o][skip[Block] + i]
      /\ HasPhi(fn.code[Block]) => o = Block
    BY <1>2 DEF IsPart
<1>4. fn.code[Block] \in Seq(Instructions) /\ n \in Nat /\ DOMAIN fn.code[Block] = 1 .. n
    <2>1. fn.code[Block] \in Seq(Instructions)
        BY <1>2 DEF IsShape
    <2>2. QED  BY <2>1, LenProperties
<1>5. at[2] \in 1 .. n
    BY <1>1, <1>4 DEF IsAt
<1>6. g.code[o] \in Seq(Instructions) /\ Len(g.code[o]) \in Nat /\ DOMAIN g.code[o] = 1 .. Len(g.code[o])
    <2>1. g.code[o] \in Seq(Instructions)
        BY <1>3, SourceIs DEF IsShape
    <2>2. QED  BY <2>1, LenProperties
<1>7. j \in 1 .. Len(g.code[o]) /\ at'[2] \in 1 .. n + 1 /\ skip[Block] + (at[2] + 1) = j + 1
    <2>1. PICK i \in Nat, s \in Nat, m \in Nat, l \in Nat :
              i = at[2] /\ s = skip[Block] /\ m = n /\ l = Len(g.code[o])
        BY <1>3, <1>4, <1>5, <1>6
    <2>2. i \in 1 .. m /\ s + m <= l
        BY <1>3, <1>5, <2>1
    <2>3. s + i \in 1 .. l /\ i + 1 \in 1 .. m + 1 /\ s + (i + 1) = (s + i) + 1
        BY <2>2
    <2>4. QED  BY <1>1, <2>1, <2>3
<1>8. Here = g.code[o][j] /\ Here.at = <<o, j>> /\ (IsPhi(Here) => HasPhi(fn.code[Block]))
    <2>1. Here = g.code[o][j]
        BY <1>3, <1>5 DEF Here
    <2>2. IsPhi(Here) => HasPhi(fn.code[Block])
        BY <1>4, <1>5 DEF Here, HasPhi
    <2>3. \A i \in DOMAIN g.code[o] : g.code[o][i].at = <<o, i>>
        BY <1>3, SourceIs DEF IsSource
    <2>4. QED  BY <1>6, <1>7, <2>1, <2>2, <2>3
<1> HIDE DEF o, j, n
<1>9. done' = P!Event(o, j, 0, Came)
    <2>1. Here.at[1] = o /\ Here.at[2] = j
        BY <1>8
    <2>2. IsPhi(Here) => PhiTakes(o) = Came
        BY <1>2, <1>3, <1>8
    <2>3. QED  BY <1>1, <2>1, <2>2
<1>10. P!Step
    <2>1. 0 \in P!WaysOn(g, o, j)
        BY <1>7 DEF P!WaysOn
    <2>2. done' \in P!Follow(g, done)
        BY <1>2, <1>9, <2>1, FollowIs
    <2>3. QED  BY <1>1, <2>2 DEF P!Step
<1>11. o # 0
    BY <1>3, SourceIs
<1>12. P!Onward(g', done') = {<<o, j + 1, Came>>}
    <2>1. PICK e, c : e = done' /\ c = Came /\ e.block = o /\ e.index = j /\ e.pred = c
        BY <1>9 DEF P!Event
    <2>2. P!Onward(g, e) = {<<o, j + 1, c>>}
        BY <1>7, <1>11, <2>1 DEF P!Onward
    <2>3. QED  BY <1>1, <2>1, <2>2
<1>13. Came' = Came
    BY <1>12, CameIsThen
<1>14. /\ Block' = Block /\ at'[2] \in 1 .. n + 1 /\ skip[Block] + at'[2] = j + 1
    BY <1>1, <1>7 DEF Block
<1>15. PhiTakes(Block)' = PhiTakes(Block)
    BY <1>1, <1>14 DEF PhiTakes, Flat
<1>16. IsAt(fn, of, skip)'
    BY <1>2, <1>12, <1>13, <1>14, <1>15 DEF IsAt, o, n
<1>17. QED  BY <1>10, <1>14, <1>16

(* The run is at the end of an original block.                                *)
AtEnd(fn, of, skip) ==
    /\ IsShape(fn) /\ IsParted(g, fn, of, skip, "opaque") /\ IsAt(fn, of, skip)
    /\ at[2] > Len(fn.code[Block])
    /\ EndsAs(g, fn, of[Block], Block)
    /\ skip[Block] + Len(fn.code[Block]) = Len(g.code[of[Block]])

LEMMA CodeHasLength ==
    ASSUME NEW fn, IsShape(fn), NEW b \in Blocks(fn)
    PROVE  Len(fn.code[b]) \in Nat
<1>1. fn.code[b] \in Seq(Instructions)
    BY DEF IsShape
<1>2. QED  BY <1>1, LenProperties

(* Its terminator is the original one, and has its ways.                     *)
LEMMA EndIs ==
    ASSUME NEW k \in Compilations, g = k.function, NEW fn, NEW of, NEW skip, AtEnd(fn, of, skip)
    PROVE  LET o == of[Block]
               t == g.term[o]
               u == fn.term[Block]
               l == Len(g.code[o]) + 1
           IN  /\ o \in Blocks(g) /\ o # 0 /\ P!Onward(g, done) = {<<o, l, Came>>}
               /\ t.to \in Seq(Blocks(g) \ {Entry(g)})
               /\ IsTerm(u) /\ u.to = t.to /\ u.orig = o /\ u.sets = << >> /\ u.cond # "switch"
               /\ P!WaysOn(g, o, l) =
                     IF t.to = << >> THEN {0}
                     ELSE {way \in DOMAIN t.to :
                             (t.cond = "true" => way = 1) /\ ~IsUnreachable(g, t.to[way])}
               /\ Term.cond = u.cond /\ Term.orig = u.orig => Ways \subseteq P!WaysOn(g, o, l)
<1> DEFINE o == of[Block]
           t == g.term[o]
           u == fn.term[Block]
           l == Len(g.code[o]) + 1
<1>1. /\ IsShape(fn) /\ Block \in DOMAIN of /\ Block \in Blocks(fn)
      /\ IsPart(g, fn, of, skip, "opaque", Block)
      /\ at[2] \in 1 .. Len(fn.code[Block]) + 1 /\ at[2] > Len(fn.code[Block])
      /\ P!Onward(g, done) = {<<o, skip[Block] + at[2], Came>>}
      /\ EndsAs(g, fn, o, Block) /\ skip[Block] + Len(fn.code[Block]) = Len(g.code[o])
    BY DEF AtEnd, IsAt, IsParted
<1>2. o \in Blocks(g) /\ skip[Block] \in Nat
    BY <1>1 DEF IsPart
<1>3. /\ IsTerm(t) /\ t.orig = o /\ t.sets = << >>
      /\ t.cond \in {"none", "data", "invoke", "true", "cases", "unreachable"}
      /\ t.cond = "true" => Len(t.to) = 2
      /\ t.to \in Seq(Blocks(g) \ {Entry(g)}) /\ o # 0
    BY <1>2, SourceIs DEF IsSource
<1>4. skip[Block] + at[2] = l /\ Len(g.code[o]) \in Nat
    <2>1. Len(g.code[o]) \in Nat /\ Len(fn.code[Block]) \in Nat
        BY <1>1, <1>2, CodeHasLength, SourceIs
    <2>2. at[2] = Len(fn.code[Block]) + 1
        BY <1>1, <2>1
    <2>3. skip[Block] + (Len(fn.code[Block]) + 1) = Len(g.code[o]) + 1
        BY <1>1, <1>2, <2>1, Sums
    <2>4. QED  BY <2>1, <2>2, <2>3
<1>5. /\ IsTerm(u) /\ u.to = t.to /\ u.orig = o /\ u.sets = << >>
      /\ \/ u.cond = t.cond
         \/ t.cond = "true" /\ u.cond = "opaque"
    BY <1>1, <1>3 DEF EndsAs, IsTerm
<1>6. P!WaysOn(g, o, l) =
          IF t.to = << >> THEN {0}
          ELSE {way \in DOMAIN t.to : (t.cond = "true" => way = 1) /\ ~IsUnreachable(g, t.to[way])}
    <2>1. ~(l <= Len(g.code[o]))
        BY <1>4, Sums
    <2>2. \A way : P!IsUnreachable(g, t.to[way]) = IsUnreachable(g, t.to[way])
        BY SameInProgram
    <2>3. P!WaysOn(g, o, l) =
              IF t.to = << >> THEN {0}
              ELSE {way \in DOMAIN t.to : (t.cond = "true" => way = 1) /\ ~P!IsUnreachable(g, t.to[way])}
        BY <2>1 DEF P!WaysOn
    <2>4. QED  BY <2>2, <2>3
<1>7. P!WaysOn(g, o, l) # {}
    <2>1. IsDefined(g)
        BY SourceIs
    <2>2. QED  BY <1>2, <2>1 DEF IsDefined
<1> HIDE DEF l, t, u, o
<1>8. ASSUME Term.cond = u.cond, Term.orig = u.orig PROVE Ways \subseteq P!WaysOn(g, o, l)
    <2>1. CASE u.cond = "opaque"
        <3>1. Ways = {1} /\ t.cond = "true"
            BY <1>3, <1>5, <1>8, <2>1, OneOpaqueWay DEF Ways
        <3>2. Len(t.to) = 2
            BY <1>3, <3>1
        <3>3. t.to # << >>
            BY <3>2, EmptyHasNone
        <3>4. \A way \in P!WaysOn(g, o, l) : way = 1
            BY <1>6, <3>1, <3>3
        <3>5. QED  BY <1>7, <3>1, <3>4
    <2>2. CASE u.cond # "opaque"
        <3>1. Term.cond \in {"none", "data", "invoke", "true", "cases", "unreachable"}
            BY <1>3, <1>5, <1>8, <2>2
        <3>2. Ways = P!WaysOn(g, Term.orig, Len(g.code[Term.orig]) + 1)
            BY <1>3, <1>5, <1>8, <3>1 DEF Ways
        <3>3. QED  BY <1>5, <1>8, <3>2 DEF l
    <2>3. QED  BY <2>1, <2>2
<1>9. u.cond # "switch"
    BY <1>3, <1>5
<1>10. QED  BY <1>1, <1>2, <1>3, <1>4, <1>5, <1>6, <1>8, <1>9 DEF l, t, u, o

(* A way of the terminator is a step of the program, and leads to the first   *)
(* part of a block, which has the phi entry for this one.                    *)
LEMMA EndFollows ==
    ASSUME NEW k \in Compilations, g = k.function, NEW fn, NEW of, NEW skip, AtEnd(fn, of, skip),
           NEW way \in P!WaysOn(g, of[Block], Len(g.code[of[Block]]) + 1), g' = g,
           done' = P!Event(of[Block], Len(g.code[of[Block]]) + 1, way, Came)
    PROVE  LET to == g.term[of[Block]].to
               x == to[way]
           IN  /\ P!Step
               /\ to = << >> => P!Onward(g', done') = {}
               /\ to # << >> =>
                     /\ way \in DOMAIN to /\ x \in DOMAIN of /\ x \in Blocks(g) /\ x # Entry(g)
                     /\ of[x] = x /\ Block \in DOMAIN fn.from[x] /\ fn.from[x][Block] = Came'
                     /\ P!Onward(g', done') = {<<of[x], skip[x] + 1, Came'>>}
<1> DEFINE o == of[Block]
           t == g.term[o]
           l == Len(g.code[o]) + 1
<1>1. /\ o \in Blocks(g) /\ o # 0 /\ P!Onward(g, done) = {<<o, l, Came>>}
      /\ t.to \in Seq(Blocks(g) \ {Entry(g)})
      /\ P!WaysOn(g, o, l) =
            IF t.to = << >> THEN {0}
            ELSE {w \in DOMAIN t.to : (t.cond = "true" => w = 1) /\ ~IsUnreachable(g, t.to[w])}
    BY EndIs
<1>2. IsParted(g, fn, of, skip, "opaque") /\ EndsAs(g, fn, o, Block)
    BY DEF AtEnd
<1>3. ~(l <= Len(g.code[o]))
    <2>1. Len(g.code[o]) \in Nat
        BY <1>1, CodeHasLength, SourceIs
    <2>2. QED  BY <2>1, Sums
<1> HIDE DEF o, l, t
<1>4. P!Step
    <2>1. done' \in P!Follow(g, done)
        BY <1>1, FollowIs DEF o, l
    <2>2. QED  BY <2>1 DEF P!Step
<1>5. PICK d : d = done' /\ d.block = o /\ d.index = l /\ d.choice = way
    BY DEF P!Event, o, l
<1>6. ASSUME t.to = << >> PROVE P!Onward(g', done') = {}
    <2>1. way = 0
        BY <1>1, <1>6 DEF o, l
    <2>2. P!Onward(g, d) = {}
        BY <1>1, <1>3, <1>5, <2>1 DEF P!Onward
    <2>3. QED  BY <1>5, <2>2
<1> DEFINE x == t.to[way]
<1>7. ASSUME t.to # << >>
      PROVE  /\ way \in DOMAIN t.to /\ x \in DOMAIN of /\ x \in Blocks(g) /\ x # Entry(g)
             /\ of[x] = x /\ Block \in DOMAIN fn.from[x] /\ fn.from[x][Block] = Came'
             /\ P!Onward(g', done') = {<<of[x], skip[x] + 1, Came'>>}
    <2>1. way \in DOMAIN t.to /\ ~IsUnreachable(g, x)
        BY <1>1, <1>7 DEF o, l
    <2>2. way # 0 /\ x \in Blocks(g) \ {Entry(g)}
        <3>1. PICK A : A = Blocks(g) \ {Entry(g)} /\ t.to \in Seq(A)
            BY <1>1
        <3>2. DOMAIN t.to = 1 .. Len(t.to) /\ x \in A
            BY <2>1, <3>1, LenProperties, ElementOfSeq
        <3>3. QED  BY <2>1, <3>1, <3>2
    <2>3. x \in ToSet(t.to) \cap Reached(g)
        BY <2>1, <2>2 DEF ToSet, Reached
    <2>4. x \in DOMAIN of /\ of[x] = x /\ skip[x] = 0
        BY <1>2, <2>3 DEF IsParted
    <2>5. Block \in DOMAIN fn.from[x] /\ fn.from[x][Block] = o
        BY <1>2, <2>3 DEF EndsAs, o, t
    <2>6. P!Onward(g, d) = {<<x, 1, o>>}
        <3>1. g.term[o].to[way] = x
            BY DEF t
        <3>2. QED  BY <1>1, <1>3, <1>5, <2>2, <3>1 DEF P!Onward
    <2>7. P!Onward(g', done') = {<<x, 1, o>>}
        BY <1>5, <2>6
    <2>8. Came' = o
        BY <2>7, CameIsThen
    <2> HIDE DEF x
    <2>9. skip[x] + 1 = 1
        BY <2>4
    <2>10. QED  BY <2>1, <2>2, <2>4, <2>5, <2>7, <2>8, <2>9
<1>8. QED  BY <1>4, <1>6, <1>7 DEF o, t

(* The run comes to a part from its beginning.                                *)
LEMMA Arrives ==
    ASSUME NEW fn, IsShape(fn), NEW of, NEW skip, IsParted(g, fn, of, skip, "opaque"),
           NEW x \in DOMAIN of, at' = <<x, 1>>,
           P!Onward(g', done') = {<<of[x], skip[x] + 1, Came'>>},
           HasPhi(fn.code[x]) => PhiTakes(x)' = Came'
    PROVE  IsAt(fn, of, skip)' /\ Block' = x /\ Block' # 0
<1>1. x \in Blocks(fn)
    BY DEF IsParted
<1>2. 1 \in 1 .. Len(fn.code[x]) + 1
    BY <1>1, CodeHasLength, Sums
<1>3. Block' = x /\ at'[2] = 1
    BY DEF Block
<1>4. x # 0
    BY <1>1, NoBlockIsZero
<1>5. PhiTakes(Block)' = PhiTakes(x)'
    BY <1>3
<1>6. IsAt(fn, of, skip)'
    BY <1>2, <1>3, <1>5 DEF IsAt
<1>7. QED  BY <1>3, <1>4, <1>6

(* A part of a block that goes on with the next one.                          *)
GoesToPart(fn, of, skip, y) ==
    /\ y \in DOMAIN of \ {Entry(g)} /\ GoesOnWith(fn, "opaque", y, Block) /\ ~HasPhi(fn.code[y])
    /\ of[y] = of[Block] /\ skip[y] = skip[Block] + Len(fn.code[Block])

LEMMA PartIs ==
    ASSUME NEW fn, IsShape(fn), NEW of, NEW skip, IsParted(g, fn, of, skip, "opaque"),
           IsAt(fn, of, skip), at[2] > Len(fn.code[Block]), NEW y, GoesToPart(fn, of, skip, y)
    PROVE  LET u == fn.term[Block]
           IN  /\ IsTerm(u) /\ u.orig = 0 /\ u.sets = << >> /\ u.to # << >> /\ u.to[1] = y
               /\ 1 \in DOMAIN u.to /\ \E A : u.to \in Seq(A)
               /\ \/ u.cond = "none" /\ Len(u.to) = 1 /\ DOMAIN u.to = {1}
                  \/ u.cond = "opaque"
               /\ P!Onward(g, done) = {<<of[y], skip[y] + 1, Came>>}
<1>1. /\ Block \in DOMAIN of /\ Block \in Blocks(fn) /\ skip[Block] \in Nat
      /\ at[2] \in 1 .. Len(fn.code[Block]) + 1
      /\ P!Onward(g, done) = {<<of[Block], skip[Block] + at[2], Came>>}
    BY DEF IsAt, IsParted, IsPart
<1>2. Len(fn.code[Block]) \in Nat
    BY <1>1, CodeHasLength
<1>3. PICK u : u = fn.term[Block]
    OBVIOUS
<1>4. /\ IsTerm(u) /\ u.orig = 0 /\ u.sets = << >> /\ u.to # << >> /\ u.to[1] = y
      /\ 1 \in DOMAIN u.to /\ \E A : u.to \in Seq(A)
      /\ \/ u.cond = "none" /\ Len(u.to) = 1 /\ DOMAIN u.to = {1}
         \/ u.cond = "opaque"
    <2>1. CASE u = Jump(y)
        <3>1. /\ IsTerm(u) /\ u.to = <<y>> /\ u.cond = "none" /\ u.sets = << >> /\ u.orig = 0
            BY <2>1, JumpIs
        <3>2. <<y>> \in Seq({y})
            OBVIOUS
        <3>3. Len(<<y>>) = 1 /\ DOMAIN <<y>> = {1} /\ <<y>> # << >> /\ <<y>>[1] = y
            OBVIOUS
        <3>4. QED  BY <3>1, <3>2, <3>3
    <2>2. CASE \E a : u = Branch("opaque", y, a)
        <3>1. PICK a : u = Branch("opaque", y, a)
            BY <2>2
        <3>2. IsTerm(u) /\ u.to = <<y, a>> /\ u.cond = "opaque" /\ u.sets = << >> /\ u.orig = 0
            BY <3>1 DEF Branch, IsTerm
        <3>3. <<y, a>> \in Seq({y, a})
            OBVIOUS
        <3>4. 1 \in DOMAIN <<y, a>> /\ <<y, a>> # << >> /\ <<y, a>>[1] = y
            OBVIOUS
        <3>5. QED  BY <3>2, <3>3, <3>4
    <2>3. QED  BY <1>3, <2>1, <2>2 DEF GoesToPart, GoesOnWith
<1>5. skip[Block] + at[2] = skip[y] + 1
    <2>1. at[2] = Len(fn.code[Block]) + 1
        BY <1>1, <1>2
    <2>2. skip[Block] + (Len(fn.code[Block]) + 1) = skip[y] + 1
        BY <1>1, <1>2, Sums DEF GoesToPart
    <2>3. QED  BY <2>1, <2>2
<1>6. P!Onward(g, done) = {<<of[y], skip[y] + 1, Came>>}
    BY <1>1, <1>5 DEF GoesToPart
<1>7. QED  BY <1>3, <1>4, <1>6

-----------------------------------------------------------------------------
(* A function that was not flattened: where the terminators lead is where     *)
(* control goes.                                                            *)
LEMMA EndLeaves ==
    ASSUME Leave, NEW k \in Compilations, g = k.function, NEW fn, NEW of, NEW skip,
           IsAlong(fn, of, skip), AtEnd(fn, of, skip)
    PROVE  P!Step /\ IsAlong(fn, of, skip)'
<1> DEFINE o == of[Block]
           t == g.term[o]
           u == fn.term[Block]
<1>1. prev' = Block /\ UNCHANGED <<g, f>>
    BY DEF Leave, rewriting
<1>2. /\ f = fn /\ IsShape(fn) /\ fn.default = 0 /\ IsParted(g, fn, of, skip, "opaque")
      /\ Term = u
    BY DEF IsAlong, Term
<1>3. /\ o # 0 /\ t.to \in Seq(Blocks(g) \ {Entry(g)})
      /\ u.to = t.to /\ u.orig = o /\ u.sets = << >> /\ u.cond # "switch"
      /\ Ways \subseteq P!WaysOn(g, o, Len(g.code[o]) + 1)
    BY <1>2, EndIs
<1>4. PICK way \in P!WaysOn(g, o, Len(g.code[o]) + 1) :
           at' = <<Target(way), 1>> /\ done' = P!Event(o, Len(g.code[o]) + 1, way, Came)
    BY <1>2, <1>3 DEF Leave
<1> HIDE DEF u
<1>5. /\ P!Step
      /\ t.to = << >> => P!Onward(g', done') = {}
      /\ t.to # << >> =>
            /\ way \in DOMAIN t.to /\ t.to[way] \in DOMAIN of /\ t.to[way] \in Blocks(g)
            /\ Block \in DOMAIN fn.from[t.to[way]] /\ fn.from[t.to[way]][Block] = Came'
            /\ P!Onward(g', done') = {<<of[t.to[way]], skip[t.to[way]] + 1, Came'>>}
    BY <1>1, <1>4, EndFollows
<1> HIDE DEF o, t
<1>6. CASE t.to = << >>
    <2>1. Target(way) = 0
        BY <1>2, <1>3, <1>6 DEF Target
    <2>2. Block' = 0 /\ P!Onward(g', done') = {}
        BY <1>4, <1>5, <1>6, <2>1 DEF Block
    <2>3. QED  BY <1>1, <1>2, <1>5, <2>2 DEF IsAlong
<1>7. CASE t.to # << >>
    <2>1. PICK x : x = t.to[way]
        OBVIOUS
    <2>2. /\ way \in DOMAIN t.to /\ x \in DOMAIN of
          /\ Block \in DOMAIN fn.from[x] /\ fn.from[x][Block] = Came'
          /\ P!Onward(g', done') = {<<of[x], skip[x] + 1, Came'>>}
        BY <1>5, <1>7, <2>1
    <2>3. Target(way) = x
        <3>1. way \in 1 .. Len(t.to)
            <4>1. PICK A : t.to \in Seq(A)
                BY <1>3
            <4>2. DOMAIN t.to = 1 .. Len(t.to)
                BY <4>1, LenProperties
            <4>3. QED  BY <2>2, <4>2
        <3>2. Exit(way) = way
            <4>1. PICK m : m = Len(t.to) /\ Len(Term.to) = m
                BY <1>2, <1>3
            <4>2. m = 1 => way = 1
                BY <3>1, <4>1
            <4>3. QED  BY <4>1, <4>2 DEF Exit
        <3>3. QED  BY <1>2, <1>3, <1>7, <2>1, <3>2 DEF Target
    <2>4. PhiTakes(x)' = Came'
        <3>1. ~Flat' /\ f' = fn
            BY <1>1, <1>2 DEF Flat
        <3>2. QED  BY <1>1, <2>2, <3>1 DEF PhiTakes
    <2>5. IsAt(fn, of, skip)' /\ Block' # 0
        BY <1>2, <1>4, <2>2, <2>3, <2>4, Arrives
    <2>6. QED  BY <1>1, <1>2, <1>5, <2>5 DEF IsAlong
<1>8. QED  BY <1>6, <1>7

LEMMA PartLeaves ==
    ASSUME Leave, NEW fn, NEW of, NEW skip, IsAlong(fn, of, skip), Block # 0, NEW y,
           GoesToPart(fn, of, skip, y)
    PROVE  UNCHANGED <<g, done>> /\ IsAlong(fn, of, skip)'
<1>1. at[2] > Len(f.code[Block]) /\ UNCHANGED <<g, f>>
    BY DEF Leave, AtTerminator, rewriting
<1>2. /\ f = fn /\ IsShape(fn) /\ fn.default = 0 /\ IsParted(g, fn, of, skip, "opaque")
      /\ IsAt(fn, of, skip) /\ Term = fn.term[Block]
    BY DEF IsAlong, Term
<1>3. /\ Term.orig = 0 /\ Term.sets = << >> /\ Term.to # << >> /\ Term.to[1] = y
      /\ (Term.cond = "none" /\ DOMAIN Term.to = {1}) \/ Term.cond = "opaque"
      /\ P!Onward(g, done) = {<<of[y], skip[y] + 1, Came>>}
    BY <1>1, <1>2, PartIs
<1>4. Ways = {1}
    BY <1>3, OneOpaqueWay DEF Ways
<1>5. Target(1) = y
    BY <1>3 DEF Target, Exit
<1>6. done' = done /\ at' = <<y, 1>>
    BY <1>3, <1>4, <1>5 DEF Leave
<1>7. P!Onward(g', done') = {<<of[y], skip[y] + 1, Came>>}
    BY <1>1, <1>3, <1>6
<1>8. Came' = Came
    BY <1>7, CameIsThen
<1>9. IsAt(fn, of, skip)' /\ Block' # 0
    BY <1>2, <1>6, <1>7, <1>8, Arrives DEF GoesToPart
<1>10. QED  BY <1>1, <1>2, <1>6, <1>9 DEF IsAlong

-----------------------------------------------------------------------------
(* A flattened function: a store of the case of a block, and a way through    *)
(* the loop, stand for the jump to the block.                               *)
LEMMA FlatBounds ==
    ASSUME NEW J, NEW fn, NEW e, NEW o, IsFlatOf(fn, J, e, o)
    PROVE  /\ IsShape(fn) /\ Entry(fn) = Entry(g) /\ Entry(fn) \in Blocks(fn)
           /\ Blocks(fn) \subseteq Nat \ {0} /\ e \in Nat \ {0} /\ \A x \in Blocks(fn) : x < e
           /\ e # 0 /\ e + 1 # 0 /\ e \notin Blocks(fn) /\ e + 1 \notin Blocks(fn) /\ Flat
<1>1. IsShape(fn) /\ Entry(fn) = Entry(g) /\ e = Fresh(fn) /\ f.default = e + 2
    BY DEF IsFlatOf, IsFlat, Guarded
<1>2. Blocks(fn) \subseteq Nat \ {0} /\ Entry(fn) \in Blocks(fn)
    BY <1>1, NoBlockIsZero
<1>3. e \in Nat \ {0} /\ \A x \in Blocks(fn) : x < e
    BY <1>1, FreshIsNew
<1>4. e # 0 /\ e + 1 # 0 /\ e + 2 # 0
    BY <1>3
<1>5. e \notin Blocks(fn) /\ e + 1 \notin Blocks(fn)
    BY <1>2, <1>3
<1>6. QED  BY <1>1, <1>2, <1>3, <1>4, <1>5 DEF Flat

LEMMA FirstCase ==
    ASSUME NEW J, NEW fn, NEW e, NEW o, IsFlatOf(fn, J, e, o), IsInjective(fn.layout)
    PROVE  F!CaseOf(o, o[1]) = F!Case(0)
<1>1. PICK T, s : T = Nat \ {0} /\ s = fn.layout /\ s \in Seq(T) /\ s # << >>
                  /\ o = Tail(s) /\ Len(s) > 1
    BY DEF IsFlatOf, Guarded, IsShape
<1>2. /\ o \in Seq(T) /\ Len(o) = Len(s) - 1 /\ \A i \in 1 .. Len(o) : o[i] = s[i + 1]
    BY <1>1, HeadTailProperties
<1>3. /\ Len(s) \in Nat /\ DOMAIN s = 1 .. Len(s) /\ Len(o) \in Nat /\ DOMAIN o = 1 .. Len(o)
    BY <1>1, <1>2, LenProperties
<1>4. 1 \in DOMAIN o
    BY <1>1, <1>2, <1>3
<1>5. ASSUME NEW i \in DOMAIN o, o[i] = o[1] PROVE i = 1
    <2>1. s[i + 1] = s[1 + 1] /\ i + 1 \in DOMAIN s /\ 1 + 1 \in DOMAIN s
        BY <1>2, <1>3, <1>4, <1>5
    <2>2. i + 1 = 1 + 1
        BY <1>1, <2>1 DEF IsInjective
    <2>3. QED  BY <1>3, <2>2
<1>6. (CHOOSE i \in DOMAIN o : o[i] = o[1]) = 1
    BY <1>4, <1>5
<1>7. o[1] \in ToSet(o)
    BY <1>4 DEF ToSet
<1>8. F!CaseOf(o, o[1]) = F!Case(1 - 1)
    BY <1>6, <1>7, SameInFlat DEF F!CaseOf
<1>9. QED  BY <1>8

(* A way of the terminator leads where it did, or stores the case of it.      *)
LEMMA FlatWay ==
    ASSUME NEW J, NEW fn, NEW e, NEW o, IsFlatOf(fn, J, e, o), IsInjective(fn.layout),
           fn.term[Entry(fn)].to = <<o[1]>>, Block \in Blocks(fn),
           NEW t, t = fn.term[Block], IsTerm(t), t.sets = << >>, t.cond # "switch",
           NEW A, t.to \in Seq(A)
    PROVE  /\ Term.cond = t.cond /\ Term.orig = t.orig
           /\ Len(t.to) = 1 => DOMAIN Term.to = {1}
           /\ t.to = << >> => \A way : Target(way) = 0
           /\ \A way \in DOMAIN t.to :
                 \/ Target(way) = t.to[way]
                 \/ Target(way) \in {e, e + 1} /\ Sets(way) = F!CaseOf(o, t.to[way])
<1>1. PICK u : u = Term
    OBVIOUS
<1>2. PICK to : to = t.to /\ Len(to) \in Nat /\ DOMAIN to = 1 .. Len(to)
    BY LenProperties
<1>3. ASSUME NEW d PROVE DOMAIN <<d>> = {1} /\ Len(<<d>>) = 1 /\ <<d>> # << >> /\ <<d>>[1] = d
    OBVIOUS
<1>4. CASE Block = Entry(fn)
    <2>1. t.to = <<o[1]>>
        BY <1>4
    <2>2. u = [[t EXCEPT !.to = <<e>>] EXCEPT !.sets = <<F!Case(0)>>]
        BY <1>1, <1>4 DEF Term, IsFlatOf, IsFlat
    <2>3. u.cond = t.cond /\ u.orig = t.orig /\ u.to = <<e>>
        BY <2>2 DEF IsTerm
    <2>4. ASSUME NEW way \in DOMAIN t.to
          PROVE  Target(way) = e /\ Sets(way) = F!CaseOf(o, t.to[way])
        <3>1. way = 1 /\ t.to[way] = o[1]
            BY <1>3, <2>1
        <3>2. QED  BY <1>4, <3>1, FlatEntryLeaves, FirstCase
    <2>5. t.to # << >>
        BY <1>3, <2>1
    <2>6. QED  BY <1>1, <1>3, <2>3, <2>4, <2>5
<1>5. CASE Block # Entry(fn) /\ Len(t.to) \in {1, 2}
    <2>1. PICK sets : sets = [i \in DOMAIN t.to |-> F!CaseOf(o, t.to[i])]
        OBVIOUS
    <2>2. u = F!UpdateSwitchVar(t, o, e + 1)
        BY <1>1, <1>5 DEF Term, IsFlatOf, IsFlat
    <2>3. u = [t EXCEPT !.to = <<e + 1>>, !.sets = sets]
        BY <1>5, <2>1, <2>2 DEF F!UpdateSwitchVar
    <2>4. u.cond = t.cond /\ u.orig = t.orig /\ u.to = <<e + 1>> /\ u.sets = sets
        BY <2>3 DEF IsTerm
    <2>5. DOMAIN sets = 1 .. Len(to) /\ Len(sets) = Len(to) /\ sets # << >> /\ t.to # << >>
        <3>1. DOMAIN sets = 1 .. Len(to) /\ Len(to) \in {1, 2}
            BY <1>2, <1>5, <2>1
        <3>2. PICK m \in {1, 2} : m = Len(to)
            BY <3>1
        <3>0. 1 \in 1 .. m /\ m # 0
            OBVIOUS
        <3>3. Len(sets) = Len(to) /\ sets # << >>
            BY <1>2, <2>1, <3>0, <3>1, <3>2
        <3>4. t.to # << >>
            BY <1>2, <3>0, <3>2
        <3>5. QED  BY <3>1, <3>2, <3>3, <3>4
    <2>6. ASSUME NEW way \in DOMAIN t.to
          PROVE  Target(way) = e + 1 /\ Sets(way) = F!CaseOf(o, t.to[way])
        <3>1. u.to # << >> /\ u.to[1] = e + 1 /\ Len(u.to) = 1
            BY <1>3, <2>4
        <3>2. Target(way) = e + 1
            BY <1>1, <2>4, <2>5, <3>1 DEF Target
        <3>3. Exit(way) = way
            BY <1>1, <1>2, <2>4, <2>5, <3>1 DEF Exit
        <3>4. Sets(way) = sets[way]
            BY <1>1, <2>4, <2>5, <3>3 DEF Sets
        <3>5. QED  BY <2>1, <3>2, <3>4
    <2>7. QED  BY <1>1, <1>3, <2>4, <2>5, <2>6
<1>6. CASE Block # Entry(fn) /\ Len(t.to) \notin {1, 2}
    <2>1. u = F!UpdateSwitchVar(t, o, e + 1)
        BY <1>1, <1>6 DEF Term, IsFlatOf, IsFlat
    <2>2. u = t
        BY <1>6, <2>1 DEF F!UpdateSwitchVar
    <2>3. t.to = << >> => \A way : Target(way) = 0
        BY <1>1, <2>2 DEF Target
    <2>4. ASSUME NEW way \in DOMAIN t.to PROVE Target(way) = t.to[way]
        <3>1. Len(to) # 1 /\ Len(to) # 0
            BY <1>2, <1>6
        <3>2. t.to # << >>
            BY <1>2, <3>1
        <3>3. Exit(way) = way
            BY <1>1, <1>2, <2>2, <3>1 DEF Exit
        <3>4. QED  BY <1>1, <2>2, <3>2, <3>3 DEF Target
    <2>5. QED  BY <1>1, <1>6, <2>2, <2>3, <2>4
<1>7. QED  BY <1>4, <1>5, <1>6

(* What a step of the run keeps of a flattened function.                     *)
LEMMA FlatStays ==
    ASSUME NEW J, NEW fn, NEW e, NEW o, NEW of, NEW skip, IsAlongFlat(J, fn, e, o, of, skip),
           UNCHANGED <<g, f>>, DOMAIN slot' = DOMAIN slot,
           IF Block' = 0 THEN P!Onward(g', done') = {}
           ELSE IsAt(fn, of, skip)' \/ \E x : IsSentTo(fn, e, o, of, skip, x)'
    PROVE  IsAlongFlat(J, fn, e, o, of, skip)'
<1>1. IsFlatOf(fn, J, e, o)'
    BY DEF IsAlongFlat, IsFlatOf
<1>2. QED  BY <1>1 DEF IsAlongFlat

(* A block stores what the phi nodes of the next one take from it.            *)
LEMMA StoreIs ==
    ASSUME NEW J, NEW fn, NEW e, NEW o, NEW of, NEW skip, IsAlongFlat(J, fn, e, o, of, skip),
           slot' = StoresOf(Block)
    PROVE  /\ DOMAIN slot' = DOMAIN slot
           /\ \A x \in Blocks(g) \cap Blocks(fn) :
                 slot'[x] = IF Block \in DOMAIN fn.from[x] THEN fn.from[x][Block] ELSE slot[x]
<1>1. IsFlatOf(fn, J, e, o) /\ DOMAIN slot = Blocks(g)
    BY DEF IsAlongFlat
<1>2. Flat
    BY <1>1, FlatBounds
<1>3. \A x \in Blocks(fn) : f.from[x] = fn.from[x]
    BY <1>1 DEF IsFlatOf, IsFlat
<1>4. QED  BY <1>1, <1>2, <1>3 DEF StoresOf

(* The run goes on to the part x, at once or through the loop.                *)
LEMMA FlatGoes ==
    ASSUME NEW J, NEW fn, NEW e, NEW o, NEW of, NEW skip, IsAlongFlat(J, fn, e, o, of, skip),
           UNCHANGED <<g, f>>, DOMAIN slot' = DOMAIN slot,
           NEW x \in DOMAIN of, x # Entry(fn),
           \/ at' = <<x, 1>>
           \/ \E y \in {e, e + 1} : at' = <<y, 1>> /\ switchVar' = F!CaseOf(o, x),
           P!Onward(g', done') = {<<of[x], skip[x] + 1, Came'>>},
           HasPhi(fn.code[x]) => slot'[x] = Came'
    PROVE  IsAlongFlat(J, fn, e, o, of, skip)'
<1>1. /\ IsFlatOf(fn, J, e, o) /\ IsShape(fn) /\ IsParted(g, fn, of, skip, "opaque")
      /\ Flat /\ e # 0 /\ e + 1 # 0
    BY FlatBounds DEF IsAlongFlat
<1>2. CASE at' = <<x, 1>>
    <2>1. PhiTakes(x)' = slot'[x]
        <3>1. Flat'
            BY <1>1 DEF Flat
        <3>2. QED  BY <3>1 DEF PhiTakes
    <2>2. IsAt(fn, of, skip)' /\ Block' # 0
        BY <1>1, <1>2, <2>1, Arrives
    <2>3. QED  BY <2>2, FlatStays
<1>3. CASE \E y \in {e, e + 1} : at' = <<y, 1>> /\ switchVar' = F!CaseOf(o, x)
    <2>1. Block' \in {e, e + 1} /\ at'[2] = 1 /\ switchVar' = F!CaseOf(o, x)
        BY <1>3 DEF Block
    <2>2. IsSentTo(fn, e, o, of, skip, x)'
        BY <2>1 DEF IsSentTo
    <2>3. Block' # 0
        BY <1>1, <2>1
    <2>4. QED  BY <2>2, <2>3, FlatStays
<1>4. QED  BY <1>2, <1>3

LEMMA FlatEndLeaves ==
    ASSUME Leave, NEW k \in Compilations, g = k.function, NEW J, NEW fn, NEW e, NEW o,
           NEW of, NEW skip, IsAlongFlat(J, fn, e, o, of, skip), AtEnd(fn, of, skip)
    PROVE  P!Step /\ IsAlongFlat(J, fn, e, o, of, skip)'
<1> DEFINE b == of[Block]
           t == g.term[b]
           u == fn.term[Block]
<1>1. UNCHANGED <<g, f>> /\ slot' = StoresOf(Block)
    BY DEF Leave, rewriting
<1>2. /\ IsFlatOf(fn, J, e, o) /\ IsParted(g, fn, of, skip, "opaque") /\ IsInjective(fn.layout)
      /\ fn.term[Entry(fn)].to = <<o[1]>> /\ Block \in Blocks(fn)
    BY DEF IsAlongFlat, AtEnd, IsAt, IsParted
<1>3. /\ b \in Blocks(g) /\ b # 0 /\ t.to \in Seq(Blocks(g) \ {Entry(g)})
      /\ IsTerm(u) /\ u.to = t.to /\ u.orig = b /\ u.sets = << >> /\ u.cond # "switch"
      /\ Term.cond = u.cond /\ Term.orig = u.orig
            => Ways \subseteq P!WaysOn(g, b, Len(g.code[b]) + 1)
    BY EndIs
<1>4. PICK w : w = u
    OBVIOUS
<1> HIDE DEF u, t, b
<1>5. PICK A : w.to \in Seq(A)
    BY <1>3, <1>4
<1>6. /\ Term.cond = w.cond /\ Term.orig = w.orig
      /\ w.to = << >> => \A way : Target(way) = 0
      /\ \A way \in DOMAIN w.to :
            \/ Target(way) = w.to[way]
            \/ Target(way) \in {e, e + 1} /\ Sets(way) = F!CaseOf(o, w.to[way])
    BY <1>2, <1>3, <1>4, <1>5, FlatWay DEF u
<1>7. PICK way \in P!WaysOn(g, b, Len(g.code[b]) + 1) :
           /\ at' = <<Target(way), 1>> /\ switchVar' = Sets(way)
           /\ done' = P!Event(b, Len(g.code[b]) + 1, way, Came)
    <2>1. Term.orig = b /\ Ways \subseteq P!WaysOn(g, b, Len(g.code[b]) + 1)
        BY <1>3, <1>4, <1>6
    <2>2. QED  BY <1>3, <2>1 DEF Leave, Sets
<1>8. /\ P!Step
      /\ t.to = << >> => P!Onward(g', done') = {}
      /\ t.to # << >> =>
            /\ way \in DOMAIN t.to /\ t.to[way] \in DOMAIN of /\ t.to[way] \in Blocks(g)
            /\ t.to[way] # Entry(g)
            /\ Block \in DOMAIN fn.from[t.to[way]] /\ fn.from[t.to[way]][Block] = Came'
            /\ P!Onward(g', done') = {<<of[t.to[way]], skip[t.to[way]] + 1, Came'>>}
    BY <1>1, <1>7, EndFollows DEF b, t
<1>9. /\ DOMAIN slot' = DOMAIN slot
      /\ \A x \in Blocks(g) \cap Blocks(fn) :
            slot'[x] = IF Block \in DOMAIN fn.from[x] THEN fn.from[x][Block] ELSE slot[x]
    BY <1>1, StoreIs
<1>10. CASE t.to = << >>
    <2>1. Block' = 0
        BY <1>3, <1>4, <1>6, <1>7, <1>10 DEF Block
    <2>2. IsAlongFlat(J, fn, e, o, of, skip)'
        BY <1>1, <1>8, <1>9, <1>10, <2>1, FlatStays
    <2>3. QED  BY <1>8, <2>2
<1>11. CASE t.to # << >>
    <2>1. PICK x : x = t.to[way]
        OBVIOUS
    <2>2. /\ way \in DOMAIN t.to /\ x \in DOMAIN of /\ x \in Blocks(g) /\ x # Entry(g)
          /\ Block \in DOMAIN fn.from[x] /\ fn.from[x][Block] = Came'
          /\ P!Onward(g', done') = {<<of[x], skip[x] + 1, Came'>>}
        BY <1>8, <1>11, <2>1
    <2>3. x \in Blocks(fn) /\ x # Entry(fn)
        BY <1>2, <2>2, FlatBounds DEF IsParted
    <2>4. slot'[x] = Came'
        BY <1>9, <2>2, <2>3
    <2>5. \/ at' = <<x, 1>>
          \/ \E y \in {e, e + 1} : at' = <<y, 1>> /\ switchVar' = F!CaseOf(o, x)
        BY <1>3, <1>4, <1>6, <1>7, <2>1, <2>2
    <2>6. IsAlongFlat(J, fn, e, o, of, skip)'
        BY <1>1, <1>9, <2>2, <2>3, <2>4, <2>5, FlatGoes
    <2>7. QED  BY <1>8, <2>6
<1>12. QED  BY <1>10, <1>11

LEMMA FlatPartLeaves ==
    ASSUME Leave, NEW J, NEW fn, NEW e, NEW o, NEW of, NEW skip,
           IsAlongFlat(J, fn, e, o, of, skip), IsAt(fn, of, skip), NEW y,
           GoesToPart(fn, of, skip, y)
    PROVE  UNCHANGED <<g, done>> /\ IsAlongFlat(J, fn, e, o, of, skip)'
<1>1. UNCHANGED <<g, f>> /\ slot' = StoresOf(Block) /\ at[2] > Len(f.code[Block])
    BY DEF Leave, AtTerminator, rewriting
<1>2. /\ IsFlatOf(fn, J, e, o) /\ IsParted(g, fn, of, skip, "opaque") /\ IsInjective(fn.layout)
      /\ fn.term[Entry(fn)].to = <<o[1]>> /\ Block \in Blocks(fn) /\ IsShape(fn)
      /\ Entry(fn) = Entry(g)
    BY FlatBounds DEF IsAlongFlat, IsAt, IsParted
<1>3. f.code[Block] = fn.code[Block]
    BY <1>2 DEF IsFlatOf, IsFlat
<1>4. PICK u : u = fn.term[Block]
    OBVIOUS
<1>5. /\ IsTerm(u) /\ u.orig = 0 /\ u.sets = << >> /\ u.to # << >> /\ u.to[1] = y
      /\ 1 \in DOMAIN u.to /\ \E A : u.to \in Seq(A)
      /\ \/ u.cond = "none" /\ Len(u.to) = 1 /\ DOMAIN u.to = {1}
         \/ u.cond = "opaque"
      /\ P!Onward(g, done) = {<<of[y], skip[y] + 1, Came>>}
    BY <1>1, <1>2, <1>3, <1>4, PartIs
<1>6. /\ Term.cond = u.cond /\ Term.orig = 0
      /\ Len(u.to) = 1 => DOMAIN Term.to = {1}
      /\ \/ Target(1) = y
         \/ Target(1) \in {e, e + 1} /\ Sets(1) = F!CaseOf(o, y)
    <2>1. u.cond # "switch"
        BY <1>5
    <2>2. PICK A : u.to \in Seq(A)
        BY <1>5
    <2>3. QED  BY <1>2, <1>4, <1>5, <2>1, <2>2, FlatWay
<1>7. Ways = {1}
    BY <1>5, <1>6, OneOpaqueWay DEF Ways
<1>8. done' = done /\ at' = <<Target(1), 1>> /\ switchVar' = Sets(1)
    BY <1>6, <1>7 DEF Leave, Sets
<1>9. P!Onward(g', done') = {<<of[y], skip[y] + 1, Came>>}
    BY <1>1, <1>5, <1>8
<1>10. Came' = Came
    BY <1>9, CameIsThen
<1>11. DOMAIN slot' = DOMAIN slot
    BY <1>1, StoreIs
<1>12. y \in DOMAIN of /\ y # Entry(fn) /\ ~HasPhi(fn.code[y])
    BY <1>2 DEF GoesToPart
<1>13. \/ at' = <<y, 1>>
       \/ \E z \in {e, e + 1} : at' = <<z, 1>> /\ switchVar' = F!CaseOf(o, y)
    BY <1>6, <1>8
<1>14. IsAlongFlat(J, fn, e, o, of, skip)'
    BY <1>1, <1>9, <1>10, <1>11, <1>12, <1>13, FlatGoes
<1>15. QED  BY <1>1, <1>8, <1>14

(* The loop executes nothing of the original and goes to the block sent for.  *)
LEMMA SentLeaves ==
    ASSUME Leave, FewBlocks, pass = "run", NEW J, NEW fn, NEW e, NEW o, NEW of, NEW skip,
           IsAlongFlat(J, fn, e, o, of, skip), NEW x, IsSentTo(fn, e, o, of, skip, x)
    PROVE  UNCHANGED <<g, done>> /\ IsAlongFlat(J, fn, e, o, of, skip)'
<1>1. UNCHANGED <<g, f>> /\ slot' = StoresOf(Block)
    BY DEF Leave, rewriting
<1>2. /\ IsFlatOf(fn, J, e, o) /\ IsParted(g, fn, of, skip, "opaque")
      /\ e # 0 /\ e + 1 # 0 /\ e \in Nat /\ \A b \in Blocks(fn) : b \in Nat /\ b < e
    BY FlatBounds DEF IsAlongFlat
<1>3. /\ Block \in {e, e + 1} /\ x \in DOMAIN of /\ x # Entry(fn) /\ x \in Blocks(fn)
      /\ switchVar = F!CaseOf(o, x)
      /\ P!Onward(g, done) = {<<of[x], skip[x] + 1, Came>>}
      /\ HasPhi(fn.code[x]) => slot[x] = Came
    BY <1>2 DEF IsSentTo, IsParted
<1>4. PICK u : u = Term /\ u.orig = 0 /\ (u.cond = "switch" \/ (u.cond = "none" /\ u.to = <<e>>))
    <2>1. CASE Block = e
        <3>1. Term = [to |-> <<e + 2>> \o o, cond |-> "switch", sets |-> << >>, orig |-> 0]
            BY <1>2, <2>1 DEF Term, IsFlatOf, IsFlat
        <3>2. QED  BY <3>1
    <2>2. CASE Block = e + 1
        <3>1. Term = Jump(e)
            BY <1>2, <2>2 DEF Term, IsFlatOf, IsFlat
        <3>2. QED  BY <3>1, JumpIs
    <2>3. QED  BY <1>3, <2>1, <2>2
<1>5. PICK way : at' = <<Target(way), 1>> /\ switchVar' = Sets(way) /\ done' = done
    BY <1>4 DEF Leave, Sets
<1>6. Sets(way) = switchVar /\ Target(way) \in {e, x}
    <2>1. x \in ToSet(o) /\ (F!CaseOf(o, x) \in DOMAIN f.cases => f.cases[F!CaseOf(o, x)] = x)
        BY <1>2, <1>3, CasesLead DEF FewBlocks
    <2>2. f.cases = [c \in {F!CaseOf(o, b) : b \in ToSet(o)} |->
                        CHOOSE b \in ToSet(o) : F!CaseOf(o, b) = c]
        BY <1>2 DEF IsFlatOf, IsFlat
    <2>3. F!CaseOf(o, x) \in DOMAIN f.cases
        BY <2>1, <2>2
    <2>4. QED  BY <1>2, <1>3, <2>1, <2>3, LoopLeaves
<1>7. P!Onward(g', done') = {<<of[x], skip[x] + 1, Came>>}
    BY <1>1, <1>3, <1>5
<1>8. Came' = Came
    BY <1>7, CameIsThen
<1>9. HasPhi(fn.code[x]) => slot'[x] = Came
    <2>1. SUFFICES ASSUME HasPhi(fn.code[x]) PROVE slot'[x] = slot[x]
        BY <1>3
    <2>2. x \in Blocks(g)
        BY <1>2, <1>3, <2>1 DEF IsParted, IsPart
    <2>3. Block \notin DOMAIN fn.from[x]
        <3>1. \A q \in DOMAIN fn.from[x] : q \in Nat /\ q < e
            <4>1. \A q \in DOMAIN fn.from[x] : q \in Nat /\ \E b \in Blocks(fn) : q <= b
                BY <1>2, <1>3 DEF IsParted
            <4>2. QED  BY <1>2, <4>1
        <3>2. ~(e < e) /\ ~(e + 1 < e)
            BY <1>2
        <3>3. QED  BY <1>3, <3>1, <3>2
    <2>4. QED  BY <1>1, <1>3, <2>2, <2>3, StoreIs
<1>10. DOMAIN slot' = DOMAIN slot
    BY <1>1, StoreIs
<1>11. \/ at' = <<x, 1>>
       \/ \E y \in {e, e + 1} : at' = <<y, 1>> /\ switchVar' = F!CaseOf(o, x)
    BY <1>3, <1>5, <1>6
<1>12. IsAlongFlat(J, fn, e, o, of, skip)'
    BY <1>1, <1>3, <1>7, <1>8, <1>9, <1>10, <1>11, FlatGoes
<1>13. QED  BY <1>1, <1>5, <1>12

-----------------------------------------------------------------------------
(* The entry is one part of itself, without phi nodes.                       *)
LEMMA EntryHasNoPhi ==
    ASSUME NEW p, IsShape(p), ~HasPhi(p.code[Entry(p)]), NEW fn, IsShape(fn), NEW of, NEW skip,
           NEW c, IsParted(p, fn, of, skip, c)
    PROVE  /\ Entry(p) \in DOMAIN of /\ of[Entry(p)] = Entry(p) /\ skip[Entry(p)] = 0
           /\ Entry(p) \in Blocks(fn) /\ ~HasPhi(fn.code[Entry(p)])
<1>1. /\ Entry(p) \in DOMAIN of /\ of[Entry(p)] = Entry(p) /\ skip[Entry(p)] = 0
      /\ Entry(p) \in Blocks(fn) /\ IsPart(p, fn, of, skip, c, Entry(p))
    BY DEF IsParted, Reached
<1>2. Entry(p) \in Blocks(p)
    BY EntryIs
<1>3. PICK s, u : /\ s = fn.code[Entry(p)] /\ u = p.code[Entry(p)]
                  /\ s \in Seq(Instructions) /\ u \in Seq(Instructions)
    BY <1>1, <1>2 DEF IsShape
<1>4. /\ DOMAIN s = 1 .. Len(s) /\ Len(s) \in Nat /\ DOMAIN u = 1 .. Len(u) /\ Len(u) \in Nat
    BY <1>3, LenProperties
<1>5. 0 + Len(s) <= Len(u) /\ \A i \in 1 .. Len(s) : s[i] = u[0 + i]
    BY <1>1, <1>3 DEF IsPart
<1>6. \A i \in DOMAIN s : i \in DOMAIN u /\ s[i] = u[i]
    BY <1>4, <1>5
<1>7. QED  BY <1>1, <1>3, <1>6 DEF HasPhi

(* The run of what the passes leave starts at the entry.                     *)
LEMMA StartsAt ==
    ASSUME NEW k \in Compilations, g = k.function, NEW fn, IsShape(fn), NEW of, NEW skip,
           IsParted(g, fn, of, skip, "opaque"),
           at' = <<Entry(g), 1>>, done' = P!Start, g' = g
    PROVE  IsAt(fn, of, skip)' /\ Block' # 0
<1>1. /\ Entry(g) \in DOMAIN of /\ of[Entry(g)] = Entry(g) /\ skip[Entry(g)] = 0
      /\ ~HasPhi(fn.code[Entry(g)])
    BY SourceIs, EntryHasNoPhi
<1>2. P!Onward(g', done') = {<<Entry(g), 1, 0>>}
    <2>1. done'.block = 0
        BY DEF P!Start, P!Event
    <2>2. QED  BY <2>1, SameInProgram DEF P!Onward
<1>3. Came' = 0
    BY <1>2, CameIsThen
<1>4. skip[Entry(g)] + 1 = 1
    BY <1>1
<1>5. QED  BY <1>1, <1>2, <1>3, <1>4, Arrives

(* The entry that Flattening goes on with ends in a jump to the block behind.  *)
LEMMA WithFirstParts ==
    ASSUME NEW p, IsSource(p), ~HasPhi(p.code[Entry(p)]), NEW h, NEW J, Guarded(p, h, J, "opaque"),
           HasParts(p, h, "opaque"), Len(h.layout) > 1, FallsThrough(h)
    PROVE  LET first == F!WithFirst(h)
           IN  /\ HasParts(p, first, "opaque")
               /\ first.term[Entry(first)].to = <<Tail(first.layout)[1]>>
<1> DEFINE b == Entry(h)
           n == Len(h.code[b])
           k == Max({0, n - 1})
<1>1. IsShape(h) /\ b \in Blocks(h) /\ b = Entry(p) /\ IsShape(p)
    BY EntryIs DEF Guarded, IsSource
<1>2. PICK of, skip : IsParted(p, h, of, skip, "opaque")
    BY DEF HasParts
<1>3. n \in Nat
    BY <1>1, CodeHasLength
<1>4. k \in 0 .. n
    BY <1>3, LastIsIn
<1>5. ~HasPhi(h.code[b])
    BY <1>1, <1>2, EntryHasNoPhi
<1> HIDE DEF k, n, b
<1>6. ASSUME NEW fn, IsShape(fn), Len(fn.layout) > 1 PROVE Tail(fn.layout)[1] = fn.layout[2]
    <2>1. PICK T, s : T = Nat \ {0} /\ s = fn.layout /\ s \in Seq(T) /\ s # << >> /\ Len(s) > 1
        BY <1>6 DEF IsShape
    <2>2. Len(Tail(s)) = Len(s) - 1 /\ Len(s) \in Nat
          /\ \A i \in 1 .. Len(Tail(s)) : Tail(s)[i] = s[i + 1]
        BY <2>1, HeadTailProperties, LenProperties
    <2>3. 1 \in 1 .. Len(Tail(s)) /\ 1 + 1 = 2
        BY <2>1, <2>2
    <2>4. QED  BY <2>1, <2>2, <2>3
<1>7. CASE ~(Len(h.term[b].to) > 1)
    <2>1. F!WithFirst(h) = h
        BY <1>7, SameInFlat DEF F!WithFirst, b
    <2>2. h.term[b].to = <<h.layout[2]>>
        BY <1>7 DEF FallsThrough, b
    <2>3. QED  BY <1>1, <1>6, <2>1, <2>2 DEF b
<1>8. CASE Len(h.term[b].to) > 1
    <2>1. PICK r : r = SplitBlock(h, b, k)
        OBVIOUS
    <2>2. F!WithFirst(h) = r
        BY <1>8, <2>1, SameInFlat DEF F!WithFirst, b, n, k
    <2>3. PICK m : m = Fresh(h) /\ IsSplit(h, b, k, m, r)
        BY <1>1, <1>4, <2>1, SplitBlockIs DEF n
    <2>4. ~HasPhi(r.code[m])
        <3>1. /\ IsShape(r) /\ m \in Blocks(r) /\ Len(r.code[m]) = n - k
              /\ \A i \in 1 .. Len(r.code[m]) : r.code[m][i] = h.code[b][k + i]
            BY <2>3 DEF IsSplit, n
        <3>2. PICK s, u : /\ s = r.code[m] /\ u = h.code[b]
                          /\ s \in Seq(Instructions) /\ u \in Seq(Instructions)
            BY <1>1, <3>1 DEF IsShape
        <3>3. DOMAIN s = 1 .. Len(s) /\ DOMAIN u = 1 .. n
            BY <3>2, LenProperties DEF n
        <3>4. \A i \in 1 .. Len(s) : k + i \in 1 .. n
            BY <1>3, <1>4, <3>1, <3>2
        <3>5. \A i \in DOMAIN s : k + i \in DOMAIN u /\ s[i] = u[k + i]
            BY <3>1, <3>2, <3>3, <3>4
        <3>6. QED  BY <1>5, <3>2, <3>5 DEF HasPhi
    <2>5. HasParts(p, r, "opaque")
        BY <1>1, <1>4, <2>3, <2>4, SplitParts DEF n
    <2>6. FallsThrough(r)
        <3>1. IsInjective(h.layout)
            BY <1>2 DEF IsParted
        <3>2. Suits(h, r)
            BY <1>1, <2>3, <3>1, SplitSuits DEF Suits
        <3>3. QED  BY <3>2 DEF Suits
    <2>7. Guarded(p, r, J, "opaque") /\ Len(r.layout) > 1
        BY <2>2, WithFirstGuards
    <2>8. IsShape(r) /\ Entry(r) = b
        BY <1>1, <2>7 DEF Guarded
    <2>9. r.term[b].to = <<m>> /\ Len(r.term[b].to) = 1
        <3>1. r.term[b].to = <<m>>
            BY <2>3, JumpIs DEF IsSplit
        <3>2. Len(<<m>>) = 1
            OBVIOUS
        <3>3. QED  BY <3>1, <3>2
    <2>10. r.term[b].to = <<r.layout[2]>>
        BY <2>6, <2>7, <2>8, <2>9 DEF FallsThrough
    <2>11. QED  BY <1>6, <2>2, <2>5, <2>7, <2>8, <2>10
<1>9. QED  BY <1>7, <1>8

(* What is flattened, and what is not.                                       *)
LEMMA StartsAlong ==
    ASSUME Guards, KeepsAlong, CanBeFlattened, Flatten
    PROVE  KeepsAlong'
<1>1. /\ pass = "flatten" /\ pass' = "run" /\ UNCHANGED <<g, passes, at, done, slot>>
      /\ f' = IF pass \in passes THEN F!Flatten(L!LowerSwitch(f)) ELSE f
    BY DEF Flatten, machine
<1>2. PICK k \in Compilations : g = k.function
    BY DEF KeepsAlong
<1>3. IsSource(g) /\ ~HasPhi(g.code[Entry(g)])
    BY <1>2, SourceIs
<1>4. PICK J : Guarded(g, f, J, "opaque")
    BY <1>1 DEF Guards
<1>5. /\ at' = <<Entry(g), 1>> /\ done' = P!Start /\ g' = g /\ DOMAIN slot' = Blocks(g)
      /\ HasParts(g, f, "opaque")
    BY <1>1 DEF KeepsAlong
<1>6. ASSUME f' = f PROVE \E fn, of, skip : IsAlong(fn, of, skip)'
    <2>1. PICK fn, of, skip : fn = f /\ IsParted(g, fn, of, skip, "opaque")
        BY <1>5 DEF HasParts
    <2>2. IsShape(fn) /\ fn.default = 0
        <3>1. IsShape(f)
            BY <1>4 DEF Guarded
        <3>2. PICK a, c, u, r : f = [layout |-> a, code |-> c, term |-> u, from |-> r,
                                     cases |-> << >>, default |-> 0]
            BY <3>1 DEF IsShape, HasFields
        <3>3. f.default = 0
            BY <3>2
        <3>4. QED  BY <2>1, <3>1, <3>3
    <2>3. IsAt(fn, of, skip)' /\ Block' # 0
        BY <1>2, <1>5, <2>1, <2>2, StartsAt
    <2>4. IsAlong(fn, of, skip)'
        BY <1>5, <1>6, <2>1, <2>2, <2>3 DEF IsAlong
    <2>5. QED  BY <2>4
<1>7. \/ \E fn, of, skip : IsAlong(fn, of, skip)'
      \/ /\ "flatten" \in passes
         /\ \E K, fn, e, o, of, skip : IsAlongFlat(K, fn, e, o, of, skip)'
    <2>1. CASE pass \notin passes
        BY <1>1, <1>6, <2>1
    <2>2. CASE pass \in passes
        <3>1. HasNoSwitch(f) /\ FallsThrough(f)
            BY <1>1, <1>5, <2>2 DEF CanBeFlattened, HasParts, Suits
        <3>2. L!LowerSwitch(f) = f
            <4>1. IsLowering(g, f, J, L!LowerSwitch(f))
                BY <1>4, LowerSwitchKeeps
            <4>2. PICK h : h = L!LowerSwitch(f) /\ IsLowering(g, f, J, h)
                BY <4>1
            <4>3. ~(\E x \in Blocks(f) : f.term[x].cond = "cases")
                BY <3>1 DEF HasNoSwitch
            <4>4. h = f
                BY <4>2, <4>3 DEF IsLowering
            <4>5. QED  BY <4>2, <4>4
        <3>3. CASE ~F!Flattens(f)
            <4>1. f' = f
                BY <1>1, <2>2, <3>2, <3>3 DEF F!Flatten
            <4>2. QED  BY <1>6, <4>1
        <3>4. CASE F!Flattens(f)
            <4>1. f' = F!Flattened(f) /\ Len(f.layout) > 1
                BY <1>1, <2>2, <3>2, <3>4 DEF F!Flatten, F!Flattens
            <4>2. PICK fn, e, o : fn = F!WithFirst(f) /\ e = Fresh(fn) /\ o = Tail(fn.layout)
                OBVIOUS
            <4>3. Guarded(g, fn, J, "opaque") /\ Len(fn.layout) > 1
                BY <1>4, <4>1, <4>2, WithFirstGuards
            <4>4. IsShape(fn)
                BY <4>3 DEF Guarded
            <4>5. IsFlat(fn, e, o, f')
                BY <4>1, <4>2, <4>4, FlattenedIs
            <4>6. HasParts(g, fn, "opaque") /\ fn.term[Entry(fn)].to = <<o[1]>>
                BY <1>3, <1>4, <1>5, <3>1, <4>1, <4>2, WithFirstParts
            <4>7. PICK of, skip : IsParted(g, fn, of, skip, "opaque")
                BY <4>6 DEF HasParts
            <4>8. IsAt(fn, of, skip)' /\ Block' # 0
                BY <1>2, <1>5, <4>4, <4>7, StartsAt
            <4>9. IsFlatOf(fn, J, e, o)'
                BY <1>5, <4>2, <4>3, <4>5 DEF IsFlatOf
            <4>10. IsAlongFlat(J, fn, e, o, of, skip)'
                BY <1>5, <4>6, <4>7, <4>8, <4>9 DEF IsAlongFlat
            <4>11. QED  BY <1>1, <2>2, <4>10
        <3>5. QED  BY <3>3, <3>4
    <2>3. QED  BY <2>1, <2>2
<1>8. QED  BY <1>1, <1>2, <1>5, <1>7 DEF KeepsAlong

(* A step of the run of what is left: it goes along the original function.    *)
LEMMA PlainFollows ==
    ASSUME Run, pass = "run", NEW k \in Compilations, g = k.function, NEW fn, NEW of, NEW skip,
           IsAlong(fn, of, skip)
    PROVE  IsAlong(fn, of, skip)' /\ [P!Step]_<<g, done>>
<1>1. Block # 0 /\ f' = f /\ UNCHANGED g
    BY DEF Run, Execute, Leave, Running, rewriting
<1>2. /\ f = fn /\ IsShape(fn) /\ fn.default = 0 /\ IsParted(g, fn, of, skip, "opaque")
      /\ IsAt(fn, of, skip)
    BY <1>1 DEF IsAlong
<1>3. CASE Execute
    <2>1. P!Step /\ IsAt(fn, of, skip)' /\ Block' = Block
        BY <1>2, <1>3, ExecuteFollows
    <2>2. QED  BY <1>1, <1>2, <2>1 DEF IsAlong
<1>4. CASE Leave
    <2>1. IsPart(g, fn, of, skip, "opaque", Block) /\ at[2] > Len(fn.code[Block])
        BY <1>2, <1>4 DEF IsAt, IsParted, Leave, AtTerminator
    <2>2. CASE /\ EndsAs(g, fn, of[Block], Block)
               /\ skip[Block] + Len(fn.code[Block]) = Len(g.code[of[Block]])
        <3>1. AtEnd(fn, of, skip)
            BY <1>2, <2>1, <2>2 DEF AtEnd
        <3>2. QED  BY <1>4, <3>1, EndLeaves
    <2>3. CASE \E y \in DOMAIN of \ {Entry(g)} :
                   /\ GoesOnWith(fn, "opaque", y, Block) /\ ~HasPhi(fn.code[y])
                   /\ of[y] = of[Block] /\ skip[y] = skip[Block] + Len(fn.code[Block])
        <3>1. PICK y : GoesToPart(fn, of, skip, y)
            BY <2>3 DEF GoesToPart
        <3>2. QED  BY <1>1, <1>4, <3>1, PartLeaves
    <2>4. QED  BY <2>1, <2>2, <2>3 DEF IsPart
<1>5. QED  BY <1>3, <1>4 DEF Run

LEMMA FlatFollows ==
    ASSUME Run, pass = "run", FewBlocks, NEW k \in Compilations, g = k.function,
           NEW J, NEW fn, NEW e, NEW o, NEW of, NEW skip, IsAlongFlat(J, fn, e, o, of, skip)
    PROVE  IsAlongFlat(J, fn, e, o, of, skip)' /\ [P!Step]_<<g, done>>
<1>1. Block # 0 /\ UNCHANGED <<g, f>>
    BY DEF Run, Execute, Leave, Running, rewriting
<1>2. IsFlatOf(fn, J, e, o) /\ IsShape(fn) /\ IsParted(g, fn, of, skip, "opaque")
    BY FlatBounds DEF IsAlongFlat
<1>3. CASE \E x : IsSentTo(fn, e, o, of, skip, x)
    <2>1. PICK x : IsSentTo(fn, e, o, of, skip, x)
        BY <1>3
    <2>2. AtTerminator
        <3>1. f.code[Block] = << >> /\ at[2] = 1
            BY <1>2, <2>1 DEF IsSentTo, IsFlatOf, IsFlat
        <3>2. 1 > Len(<< >>)
            OBVIOUS
        <3>3. QED  BY <3>1, <3>2 DEF AtTerminator
    <2>3. Leave
        BY <2>2 DEF Run, Execute
    <2>4. QED  BY <2>1, <2>3, SentLeaves
<1>4. CASE IsAt(fn, of, skip)
    <2>1. IsPart(g, fn, of, skip, "opaque", Block) /\ f.code[Block] = fn.code[Block]
        BY <1>2, <1>4 DEF IsAt, IsParted, IsFlatOf, IsFlat
    <2>2. CASE Execute
        <3>1. P!Step /\ IsAt(fn, of, skip)' /\ Block' = Block /\ slot' = slot
            BY <1>2, <1>4, <2>1, <2>2, ExecuteFollows DEF Execute
        <3>2. IsAlongFlat(J, fn, e, o, of, skip)'
            BY <1>1, <3>1, FlatStays
        <3>3. QED  BY <3>1, <3>2
    <2>3. CASE Leave
        <3>1. at[2] > Len(fn.code[Block])
            BY <2>1, <2>3 DEF Leave, AtTerminator
        <3>2. CASE /\ EndsAs(g, fn, of[Block], Block)
                   /\ skip[Block] + Len(fn.code[Block]) = Len(g.code[of[Block]])
            <4>1. AtEnd(fn, of, skip)
                BY <1>2, <1>4, <3>1, <3>2 DEF AtEnd
            <4>2. QED  BY <2>3, <4>1, FlatEndLeaves
        <3>3. CASE \E y \in DOMAIN of \ {Entry(g)} :
                       /\ GoesOnWith(fn, "opaque", y, Block) /\ ~HasPhi(fn.code[y])
                       /\ of[y] = of[Block] /\ skip[y] = skip[Block] + Len(fn.code[Block])
            <4>1. PICK y : GoesToPart(fn, of, skip, y)
                BY <3>3 DEF GoesToPart
            <4>2. QED  BY <1>4, <2>3, <4>1, FlatPartLeaves
        <3>4. QED  BY <2>1, <3>2, <3>3 DEF IsPart
    <2>4. QED  BY <2>2, <2>3 DEF Run
<1>5. QED  BY <1>1, <1>3, <1>4 DEF IsAlongFlat

(* What the passes and the run keep, and the step of the program.            *)
LEMMA InitAlong ==
    ASSUME Init
    PROVE  KeepsAlong /\ P!Init
<1>1. PICK k \in Compilations : g = k.function
    BY DEF Init
<1>2. \A c : HasParts(g, g, c)
    BY <1>1, SourceIs
<1>3. DOMAIN slot = Blocks(g)
    BY DEF Init
<1>4. QED  BY <1>1, <1>2, <1>3 DEF Init, KeepsAlong, P!Init

LEMMA StepAlong ==
    ASSUME Guards, Phis, KeepsAlong, CanBeFlattened, [Next]_vars
    PROVE  KeepsAlong' /\ [P!Step]_<<g, done>>
<1>0. PICK k \in Compilations : g = k.function
    BY DEF KeepsAlong
<1>1. IsSource(g)
    BY <1>0, SourceIs
<1>2. CASE Split
    <2>1. pass = "split" /\ S!SplitNext /\ UNCHANGED <<g, passes, pass, times, machine>>
        BY <1>2 DEF Split
    <2>2. \A c : KeepsParts(f, f', c)
        BY <2>1, SplitStep DEF Guards
    <2>3. \A c : HasParts(g, f', c)
        BY <1>1, <2>1, <2>2 DEF KeepsAlong, KeepsParts, Phis
    <2>4. QED  BY <2>1, <2>3 DEF KeepsAlong, machine
<1>3. CASE StartBogus
    <2>1. /\ pass = "split" /\ pass' = "bogus" /\ f' = f /\ UNCHANGED <<g, passes, machine>>
        BY <1>3 DEF StartBogus, B!BogusStart
    <2>2. QED  BY <2>1 DEF KeepsAlong, machine
<1>4. CASE Bogus
    <2>1. /\ pass = "bogus" /\ pass \in passes /\ B!BogusNext
          /\ UNCHANGED <<g, passes, pass, splitN, machine>>
        BY <1>4 DEF Bogus
    <2>2. PICK J : Guarded(g, f, J, "true")
        BY <2>1 DEF Guards
    <2>3. KeepsParts(f, f', "true")
        BY <2>1, <2>2, BogusStep DEF Guards
    <2>4. HasParts(g, f', "true")
        BY <1>1, <2>1, <2>3 DEF KeepsAlong, KeepsParts, Phis
    <2>5. QED  BY <2>1, <2>4 DEF KeepsAlong, machine
<1>5. CASE FinishBogus
    <2>1. /\ pass = "bogus" /\ pass' = "flatten"
          /\ f' = B!DoF(f) \/ ("bogus" \notin passes /\ f' = f)
          /\ UNCHANGED <<g, passes, machine>>
        BY <1>5 DEF FinishBogus
    <2>2. PICK J : Guarded(g, f, J, "true")
        BY <2>1 DEF Guards
    <2>3. HasParts(g, f', "opaque")
        BY <1>1, <2>1, <2>2, DoFParts DEF KeepsAlong
    <2>4. QED  BY <2>1, <2>3 DEF KeepsAlong, machine
<1>6. CASE Flatten
    <2>1. UNCHANGED <<g, done>>
        BY <1>6 DEF Flatten, machine
    <2>2. QED  BY <1>6, <2>1, StartsAlong
<1>7. CASE Run
    <2>1. pass = "run" /\ UNCHANGED <<g, passes, pass>>
        BY <1>7 DEF Run, Execute, Leave, Running
    <2>2. CASE \E fn, of, skip : IsAlong(fn, of, skip)
        <3>1. PICK fn, of, skip : IsAlong(fn, of, skip)
            BY <2>2
        <3>2. IsAlong(fn, of, skip)' /\ [P!Step]_<<g, done>>
            BY <1>0, <1>7, <2>1, <3>1, PlainFollows
        <3>3. QED  BY <1>0, <2>1, <3>2 DEF KeepsAlong
    <2>3. CASE /\ "flatten" \in passes
               /\ \E J, fn, e, o, of, skip : IsAlongFlat(J, fn, e, o, of, skip)
        <3>1. PICK J, fn, e, o, of, skip : IsAlongFlat(J, fn, e, o, of, skip)
            BY <2>3
        <3>2. FewBlocks
            BY <2>3 DEF CanBeFlattened
        <3>3. IsAlongFlat(J, fn, e, o, of, skip)' /\ [P!Step]_<<g, done>>
            BY <1>0, <1>7, <2>1, <3>1, <3>2, FlatFollows
        <3>4. QED  BY <1>0, <2>1, <2>3, <3>3 DEF KeepsAlong
    <2>4. QED  BY <2>1, <2>2, <2>3 DEF KeepsAlong
<1>8. CASE UNCHANGED vars
    <2>1. UNCHANGED <<g, passes, pass, f, at, prev, switchVar, slot, done>>
        BY <1>8 DEF vars, machine, rewriting
    <2>2. Block' = Block /\ Came' = Came /\ \A x : PhiTakes(x)' = PhiTakes(x)
        BY <2>1 DEF Block, Came, PhiTakes, Flat
    <2>3. ASSUME NEW fn, NEW of, NEW skip, IsAt(fn, of, skip) PROVE IsAt(fn, of, skip)'
        BY <2>1, <2>2, <2>3 DEF IsAt
    <2>4. ASSUME NEW fn, NEW of, NEW skip, IsAlong(fn, of, skip) PROVE IsAlong(fn, of, skip)'
        BY <2>1, <2>2, <2>3, <2>4 DEF IsAlong
    <2>5. ASSUME NEW J, NEW fn, NEW e, NEW o, NEW of, NEW skip,
                 IsAlongFlat(J, fn, e, o, of, skip)
          PROVE  IsAlongFlat(J, fn, e, o, of, skip)'
        <3>1. ASSUME NEW x, IsSentTo(fn, e, o, of, skip, x)
              PROVE  IsSentTo(fn, e, o, of, skip, x)'
            BY <2>1, <2>2, <3>1 DEF IsSentTo
        <3>2. IF Block' = 0 THEN P!Onward(g', done') = {}
              ELSE IsAt(fn, of, skip)' \/ \E x : IsSentTo(fn, e, o, of, skip, x)'
            BY <2>1, <2>2, <2>3, <2>5, <3>1 DEF IsAlongFlat
        <3>3. QED  BY <2>1, <2>5, <3>2, FlatStays
    <2>6. KeepsAlong'
        BY <2>1, <2>4, <2>5 DEF KeepsAlong
    <2>7. QED  BY <2>1, <2>6
<1>9. /\ Split \/ StartBogus \/ Bogus \/ FinishBogus \/ Flatten => UNCHANGED <<g, done>>
    BY DEF Split, StartBogus, Bogus, FinishBogus, Flatten, machine
<1>10. QED  BY <1>2, <1>3, <1>4, <1>5, <1>6, <1>7, <1>8, <1>9
               DEF Next, Compile, Returned, vars, machine

(* The passes change nothing of what a function does: whatever blocks are cut *)
(* where, whatever blocks are wrapped how many times, and where jumps became  *)
(* stores and a way through the dispatcher, the instructions are executed in  *)
(* the order of a path of the original, and each phi node takes the value of *)
(* the block the path came from (SplitBasicBlocks.cpp:107-135,               *)
(* BogusControlFlow.cpp:233-333, Flattening.cpp:122-246).                     *)
THEOREM ObfuscatedIsTheProgram ==
    Spec /\ []CanBeFlattened => P!Init /\ [][P!Step]_<<g, done>>
<1>1. Init /\ CanBeFlattened => Guards /\ Phis /\ KeepsAlong /\ P!Init
    <2> SUFFICES ASSUME Init, CanBeFlattened
                 PROVE  Guards /\ Phis /\ KeepsAlong /\ P!Init
        OBVIOUS
    <2>1. Guards /\ PhisKept(f)
        BY InitGuards
    <2>2. PhisMatchPreds
        BY <2>1, KeptMatch
    <2>3. "flatten" \in passes => Once(f)
        BY DEF CanBeFlattened, HasNoSwitch, Once, Init
    <2>4. QED  BY <2>1, <2>2, <2>3, InitAlong DEF Phis
<1>2. CanBeFlattened /\ Guards /\ Phis /\ KeepsAlong /\ [Next]_vars
        => (Guards /\ Phis /\ KeepsAlong)'
    BY StepGuards, StepPhis, StepAlong
<1>3. CanBeFlattened /\ Guards /\ Phis /\ KeepsAlong /\ [Next]_vars => [P!Step]_<<g, done>>
    BY StepAlong
<1>4. QED  BY <1>1, <1>2, <1>3, PTL DEF Spec
=============================================================================
