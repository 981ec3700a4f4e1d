-------------------------- MODULE DepParserProofs ---------------------------
(***************************************************************************)
(* Proofs about the reader of dependency graphs.  The name table: a symbol    *)
(* has one arity and one name.  The visit: a recursion over the terms that   *)
(* are left to mark, which puts operands first unless there is a cycle.  The *)
(* term table: a hash-consed term graph in every state of CSE.              *)
(***************************************************************************)
EXTENDS DepParser, DataProofs

-----------------------------------------------------------------------------
(* The name with k more underscores is taken by a symbol of another arity.   *)
Bases == {l.name[1] : l \in Lines("V")}
Names == Bases \X Nat

Longer(name, k) == <<name[1], name[2] + k>>
Clashes(name, arity, k) ==
    HasName(Longer(name, k)) /\ signatures[IndexOf(Longer(name, k))] # arity

(* registerNode ends: the table is finite, so with enough underscores a name  *)
(* is new.  It takes the first that does not clash (DependencyParser.cpp:    *)
(* 57-84).                                                                  *)
LEMMA NameForEnds ==
    ASSUME names \in Seq(Names), NEW name \in Names, NEW arity
    PROVE  \A k \in Nat : \E j \in Nat : j >= k /\ ~Clashes(name, arity, j)
<1>1. DOMAIN names = 1 .. Len(names) /\ Len(names) \in Nat
      /\ \A i \in DOMAIN names : names[i][2] \in Nat
    BY DEF Names
<1>2. [i \in DOMAIN names |-> names[i][2]] \in [1 .. Len(names) -> Nat]
    BY <1>1
<1>3. PICK b \in Nat : \A i \in DOMAIN names : names[i][2] <= b
    <2> DEFINE f == [i \in DOMAIN names |-> names[i][2]]
    <2>1. \A i \in 1 .. Len(names) : f[i] = names[i][2]
        BY <1>1
    <2> HIDE DEF f
    <2>2. PICK b \in Nat : \A i \in 1 .. Len(names) : f[i] <= b
        BY <1>1, <1>2, FiniteBound DEF f
    <2>3. QED  BY <1>1, <2>1, <2>2
<1>4. PICK m \in Nat : m = b + 1
    OBVIOUS
<1>5. \A i \in DOMAIN names : names[i][2] < m
    BY <1>1, <1>3, <1>4
<1>6. ASSUME NEW k \in Nat PROVE ~Clashes(name, arity, k + m)
    <2>1. name[2] \in Nat /\ Longer(name, k + m)[2] = name[2] + (k + m)
        BY DEF Names, Longer
    <2>2. \A i \in DOMAIN names : names[i] # Longer(name, k + m)
        BY <1>1, <1>5, <2>1
    <2>3. QED  BY <2>2 DEF Clashes, HasName
<1>7. \A k \in Nat : k + m \in Nat /\ k + m >= k
    OBVIOUS
<1>8. QED  BY <1>6, <1>7

LEMMA NameForIsFirst ==
    ASSUME names \in Seq(Names), NEW name \in Names, NEW arity
    PROVE  \E k \in Nat : /\ NameFor(name, arity) = Longer(name, k)
                          /\ ~Clashes(name, arity, k)
                          /\ \A j \in Nat : j < k => Clashes(name, arity, j)
<1> DEFINE C(k) == Clashes(name, arity, k)
           L(k) == Longer(name, k)
           S(k) == {j \in Nat : j >= k /\ ~C(j)}
           least(k) == CHOOSE n \in S(k) : \A j \in S(k) : n <= j
           Body(f) == [k \in Nat |-> IF C(k) THEN f[k + 1] ELSE L(k)]
           F == [k \in Nat |-> L(least(k))]
           add == CHOOSE f : f = Body(f)
<1>1. NameFor(name, arity) = add[0]
    BY DEF NameFor, Clashes, Longer
<1>2. ASSUME NEW k \in Nat PROVE S(k) \in SUBSET Nat /\ S(k) # {}
    BY NameForEnds
<1> HIDE DEF C, L
<1>3. ASSUME NEW k \in Nat
      PROVE  least(k) \in Nat /\ least(k) >= k /\ ~C(least(k))
             /\ \A j \in Nat : j >= k /\ ~C(j) => least(k) <= j
    <2>1. \E n \in S(k) : \A j \in S(k) : n <= j
        <3> HIDE DEF S
        <3>1. QED  BY <1>2, LeastNatural
    <2>2. least(k) \in S(k) /\ \A j \in S(k) : least(k) <= j
        BY <2>1
    <2>3. QED  BY <2>2
<1> HIDE DEF least
<1>4. \A k \in Nat : C(k) => least(k) = least(k + 1)
    <2>1. SUFFICES ASSUME NEW k \in Nat, C(k) PROVE least(k) = least(k + 1)
        OBVIOUS
    <2>2. k + 1 \in Nat
        OBVIOUS
    <2>3. least(k) # k
        BY <1>3, <2>1
    <2>4. least(k) >= k + 1 /\ least(k + 1) >= k
        BY <1>3, <2>2, <2>3
    <2>5. least(k) <= least(k + 1) /\ least(k + 1) <= least(k)
        BY <1>3, <2>2, <2>4
    <2>6. QED  BY <1>3, <2>2, <2>5
<1>5. \A k \in Nat : ~C(k) => least(k) = k
    BY <1>3
<1>6. F = Body(F)
    <2>1. \A k \in Nat : k + 1 \in Nat /\ F[k] = L(least(k))
        OBVIOUS
    <2> HIDE DEF F
    <2>2. \A k \in Nat : F[k] = IF C(k) THEN F[k + 1] ELSE L(k)
        BY <1>4, <1>5, <2>1
    <2>3. F = [k \in Nat |-> F[k]]
        BY DEF F
    <2>4. QED  BY <2>2, <2>3
<1>7. add = Body(add)
    <2> HIDE DEF Body, F
    <2>1. QED  BY <1>6
<1>8. \A k \in Nat : add[k] = IF C(k) THEN add[k + 1] ELSE L(k)
    <2> HIDE DEF add
    <2>1. QED  BY <1>7
<1> HIDE DEF add
<1> DEFINE T == {n \in Nat : n <= least(0) => add[n] = add[0]}
<1>9. Nat \subseteq T
    <2>1. 0 \in T
        OBVIOUS
    <2>2. ASSUME NEW n \in Nat, n \in T PROVE n + 1 \in T
        <3>1. SUFFICES ASSUME n + 1 <= least(0) PROVE add[n + 1] = add[0]
            OBVIOUS
        <3>2. least(0) \in Nat /\ n < least(0)
            BY <1>3, <3>1
        <3>3. C(n)
            BY <1>3, <3>2
        <3>4. QED  BY <1>8, <2>2, <3>2, <3>3
    <2> HIDE DEF T
    <2>3. QED  BY <2>1, <2>2, NatSetInduction
<1>10. add[least(0)] = add[0] /\ add[least(0)] = L(least(0))
    BY <1>3, <1>8, <1>9
<1>11. \A j \in Nat : j < least(0) => C(j)
    BY <1>3
<1>12. QED  BY <1>1, <1>3, <1>10, <1>11 DEF C, L

-----------------------------------------------------------------------------
Taken(name, arity, k) ==
    \E i \in DOMAIN names : names[i] = Longer(name, k) /\ signatures[i] # arity

(* A registered node: its symbol has its arity, and the name of the symbol is *)
(* the first longer one that no other arity has taken.                      *)
Registered(d) ==
    /\ d[3] + 1 \in DOMAIN names
    /\ signatures[d[3] + 1] = d[2]
    /\ \E k \in Nat : /\ names[d[3] + 1] = Longer(d[1], k)
                      /\ \A j \in Nat : j < k => Taken(d[1], d[2], j)

NamesInv ==
    /\ input \in Seq(AllLines)
    /\ names \in Seq(Names)
    /\ signatures \in Seq(Nat)
    /\ Len(signatures) = Len(names)
    /\ \A i, j \in DOMAIN names : names[i] = names[j] => i = j
    /\ declared \subseteq Names \X Nat \X Nat
    /\ \A d \in declared : Registered(d)

LEMMA TheLine ==
    ASSUME input \in Seq(AllLines), input # << >>
    PROVE  /\ Tail(input) \in Seq(AllLines)
           /\ Head(input) \in AllLines
           /\ Head(input).kind = "V" =>
                 /\ Head(input).name \in Names
                 /\ Head(input).node \in Nat /\ Head(input).arity \in Nat
<1>1. Tail(input) \in Seq(AllLines) /\ Head(input) \in AllLines
    OBVIOUS
<1>2. ASSUME Head(input).kind = "V" PROVE Head(input) \in Lines("V")
    BY <1>1, <1>2 DEF Lines
<1>3. ASSUME NEW l \in Lines("V")
      PROVE  l.name \in Names /\ l.node \in Nat /\ l.arity \in Nat
    <2>1. /\ l.name = <<l.name[1], l.name[2]>> /\ l.name[2] \in Nat
          /\ l.node \in Nat /\ l.arity \in Nat
        BY FilesAssumption
    <2>2. l.name[1] \in Bases
        BY DEF Bases
    <2>3. QED  BY <2>1, <2>2 DEF Names
<1>4. QED  BY <1>1, <1>2, <1>3

(* A V line finds the symbol of its name and arity, or makes it.             *)
LEMMA EnterRegisters ==
    ASSUME NamesInv, NEW name \in Names, NEW arity \in Nat,
           Enter(NameFor(name, arity), arity),
           declared' = declared \cup {<<name, arity, IdFor(NameFor(name, arity))>>},
           input' \in Seq(AllLines)
    PROVE  NamesInv'
<1>0. PICK new, id : new = NameFor(name, arity) /\ id = IdFor(new)
    OBVIOUS
<1>1. PICK k \in Nat : /\ new = Longer(name, k)
                       /\ ~Clashes(name, arity, k)
                       /\ \A j \in Nat : j < k => Clashes(name, arity, j)
    BY <1>0, NameForIsFirst DEF NamesInv
<1>2. new \in Names /\ new = Longer(name, k)
    BY <1>1 DEF Names, Longer
<1>3. DOMAIN names = 1 .. Len(names) /\ DOMAIN signatures = 1 .. Len(names) /\ Len(names) \in Nat
    BY DEF NamesInv
<1>4. \A j \in Nat : j < k => Taken(name, arity, j)
    BY <1>1 DEF Clashes, Taken, HasName, IndexOf
<1>5. CASE HasName(new)
    <2>1. names' = names /\ signatures' = signatures
        BY <1>0, <1>5 DEF Enter
    <2>2. IndexOf(new) \in DOMAIN names /\ names[IndexOf(new)] = new
        BY <1>5 DEF HasName, IndexOf
    <2>3. id = IndexOf(new) - 1
        BY <1>0, <1>5 DEF IdFor
    <2>4. signatures[IndexOf(new)] = arity
        BY <1>1, <1>2, <1>5 DEF Clashes
    <2>5. id \in Nat /\ id + 1 = IndexOf(new)
        BY <1>3, <2>2, <2>3
    <2>6. Registered(<<name, arity, id>>)
        BY <1>2, <1>4, <2>2, <2>4, <2>5 DEF Registered
    <2>7. declared' = declared \cup {<<name, arity, id>>}
        BY <1>0
    <2>8. \A d : Registered(d) => Registered(d)'
        BY <2>1 DEF Registered, Taken
    <2>9. \A d \in declared' : Registered(d)'
        BY <2>6, <2>7, <2>8 DEF NamesInv
    <2>10. QED  BY <2>1, <2>5, <2>7, <2>9 DEF NamesInv
<1>6. CASE ~HasName(new)
    <2>1. names' = Append(names, new) /\ signatures' = Append(signatures, arity)
        BY <1>0, <1>6 DEF Enter
    <2>2. id = Len(names)
        BY <1>0, <1>6 DEF IdFor
    <2>3. /\ names' \in Seq(Names) /\ signatures' \in Seq(Nat)
          /\ Len(names') = Len(names) + 1 /\ Len(signatures') = Len(names) + 1
          /\ \A i \in DOMAIN names :
                i \in DOMAIN names' /\ names'[i] = names[i] /\ signatures'[i] = signatures[i]
          /\ DOMAIN names' = 1 .. Len(names) + 1
          /\ names'[Len(names) + 1] = new /\ signatures'[Len(names) + 1] = arity
        BY <1>2, <1>3, <2>1 DEF NamesInv
    <2>4. ASSUME NEW i \in DOMAIN names', NEW j \in DOMAIN names', names'[i] = names'[j]
          PROVE  i = j
        <3>1. i \in DOMAIN names \/ i = Len(names) + 1
            BY <1>3, <2>3
        <3>2. j \in DOMAIN names \/ j = Len(names) + 1
            BY <1>3, <2>3
        <3>3. \A x \in DOMAIN names : names[x] # new
            BY <1>6 DEF HasName
        <3>4. QED  BY <2>3, <2>4, <3>1, <3>2, <3>3 DEF NamesInv
    <2>5. \A nm, ar, j : Taken(nm, ar, j) => Taken(nm, ar, j)'
        BY <1>3, <2>3 DEF Taken
    <2>6. \A d : Registered(d) => Registered(d)'
        BY <1>3, <2>3, <2>5 DEF Registered
    <2>7. Registered(<<name, arity, id>>)'
        <3>1. <<name, arity, id>>[3] + 1 \in DOMAIN names'
            BY <1>3, <2>2, <2>3
        <3>2. \A j \in Nat : j < k => Taken(name, arity, j)'
            BY <1>4, <2>5
        <3>3. QED  BY <1>2, <2>2, <2>3, <3>1, <3>2 DEF Registered
    <2>8. id \in Nat
        BY <1>3, <2>2
    <2>9. declared' = declared \cup {<<name, arity, id>>}
        BY <1>0
    <2>10. \A d \in declared' : Registered(d)'
        BY <2>6, <2>7, <2>9 DEF NamesInv
    <2>11. QED  BY <2>3, <2>4, <2>8, <2>9, <2>10 DEF NamesInv
<1>7. QED  BY <1>5, <1>6

LEMMA NamesStep ==
    ASSUME NamesInv, [Next]_vars
    PROVE  NamesInv'
<1>1. ASSUME UNCHANGED table, input' \in Seq(AllLines) PROVE NamesInv'
    BY <1>1 DEF NamesInv, table, Registered, Taken
<1>2. CASE OpenFile
    <2>1. input' \in Seq(AllLines)
        BY <1>2, FilesAssumption DEF OpenFile, AllLines
    <2>2. QED  BY <1>1, <1>2, <2>1 DEF OpenFile
<1>3. CASE ReadN
    BY <1>1, <1>3, TheLine DEF NamesInv, ReadN, Reading
<1>4. CASE ReadV
    <2>1. input' \in Seq(AllLines) /\ Head(input).name \in Names /\ Head(input).arity \in Nat
        BY <1>4, TheLine DEF NamesInv, ReadV, Reading
    <2>2. CASE UNCHANGED table
        BY <1>1, <2>1, <2>2
    <2>3. CASE ~UNCHANGED table
        BY <1>4, <2>1, <2>3, EnterRegisters DEF ReadV, Exit
    <2>4. QED  BY <2>2, <2>3
<1>5. CASE ReadE
    BY <1>1, <1>5, TheLine DEF NamesInv, ReadE, Reading, Exit
<1>6. CASE EndOfFile \/ VisitNode \/ Cleanup \/ Terminated \/ UNCHANGED vars
    <2>1. UNCHANGED table /\ input' = input
        BY <1>6 DEF EndOfFile, VisitNode, Cleanup, Terminated, vars
    <2>2. QED  BY <1>1, <2>1 DEF NamesInv
<1>7. QED  BY <1>2, <1>3, <1>4, <1>5, <1>6 DEF Next

(* Names are registered under the symbols of their own arity, in every state. *)
THEOREM NamesInvariance == Spec => []NamesInv
<1>1. Init => NamesInv
    BY EmptySeq DEF Init, NamesInv
<1>2. NamesInv /\ [Next]_vars => NamesInv'
    BY NamesStep
<1>3. QED  BY <1>1, <1>2, PTL DEF Spec

(* What the renaming of registerNode guarantees whatever the names are: a     *)
(* name with the same arity gets one symbol in all files, and a symbol has   *)
(* one arity and stands for names that differ in underscores only.          *)
SymbolsAreShared ==
    \A d, e \in declared :
        /\ d[1] = e[1] /\ d[2] = e[2] => d[3] = e[3]
        /\ d[3] = e[3] => d[1][1] = e[1][1] /\ d[2] = e[2]

LEMMA SharedSymbols ==
    ASSUME NamesInv
    PROVE  SymbolsAreShared
<1> SUFFICES ASSUME NEW d \in declared, NEW e \in declared
             PROVE  /\ d[1] = e[1] /\ d[2] = e[2] => d[3] = e[3]
                    /\ d[3] = e[3] => d[1][1] = e[1][1] /\ d[2] = e[2]
    BY DEF SymbolsAreShared
<1>1. Registered(d) /\ Registered(e) /\ d[3] \in Nat /\ e[3] \in Nat
    BY DEF NamesInv
<1>2. PICK k \in Nat : /\ names[d[3] + 1] = Longer(d[1], k)
                       /\ \A j \in Nat : j < k => Taken(d[1], d[2], j)
    BY <1>1 DEF Registered
<1>3. PICK m \in Nat : /\ names[e[3] + 1] = Longer(e[1], m)
                       /\ \A j \in Nat : j < m => Taken(e[1], e[2], j)
    BY <1>1 DEF Registered
<1>4. /\ d[3] + 1 \in DOMAIN names /\ signatures[d[3] + 1] = d[2]
      /\ e[3] + 1 \in DOMAIN names /\ signatures[e[3] + 1] = e[2]
    BY <1>1 DEF Registered
<1>5. ASSUME d[1] = e[1], d[2] = e[2] PROVE d[3] = e[3]
    <2>1. ~Taken(d[1], d[2], k)
        BY <1>2, <1>4 DEF Taken, NamesInv
    <2>2. ~Taken(e[1], e[2], m)
        BY <1>3, <1>4 DEF Taken, NamesInv
    <2>3. k = m
        BY <1>2, <1>3, <1>5, <2>1, <2>2
    <2>4. d[3] + 1 = e[3] + 1
        BY <1>2, <1>3, <1>4, <1>5, <2>3 DEF NamesInv
    <2>5. QED  BY <1>1, <2>4
<1>6. ASSUME d[3] = e[3] PROVE d[1][1] = e[1][1] /\ d[2] = e[2]
    BY <1>2, <1>3, <1>4, <1>6 DEF Longer
<1>7. QED  BY <1>5, <1>6

(* ... so it does in every state (DependencyParser.cpp:57-84). *)
THEOREM SymbolsStayShared == Spec => []SymbolsAreShared
<1>1. NamesInv => SymbolsAreShared
    BY SharedSymbols
<1>2. QED  BY <1>1, NamesInvariance, PTL

(* No V line gives a name that ends with an underscore.  Without this "a_"    *)
(* with two operands and "a" with two, declared after "a" with one, are one  *)
(* symbol: the name the code makes up may be a name of the files.           *)
PlainNames == \A l \in Lines("V") : l.name[2] = 0

DeclaredFromLines == \A d \in declared : \E l \in Lines("V") : d[1] = l.name

(* Over such files a symbol stands for one name and arity ("names are supposed *)
(* to be unique identifiers", DependencyParser.cpp:60-63).                   *)
THEOREM PlainNamesAreUnique ==
    ASSUME PlainNames
    PROVE  Spec => []NamesAreUnique
<1>1. Init => DeclaredFromLines
    BY DEF Init, DeclaredFromLines
<1>2. NamesInv /\ DeclaredFromLines /\ [Next]_vars => DeclaredFromLines'
    <2> SUFFICES ASSUME NamesInv, DeclaredFromLines, [Next]_vars
                 PROVE  DeclaredFromLines'
        OBVIOUS
    <2>1. CASE declared' = declared
        BY <2>1 DEF DeclaredFromLines
    <2>2. CASE declared' # declared
        <3>1. ReadV
            BY <2>2 DEF Next, vars, table, OpenFile, ReadN, ReadE, Exit, EndOfFile,
                        VisitNode, Cleanup, Terminated
        <3>2. Head(input) \in Lines("V")
            BY <3>1, TheLine DEF NamesInv, ReadV, Reading, Lines
        <3>3. \E id : declared' = declared \cup {<<Head(input).name, Head(input).arity, id>>}
            BY <2>2, <3>1 DEF ReadV, Exit, table
        <3>4. QED  BY <3>2, <3>3 DEF DeclaredFromLines
    <2>3. QED  BY <2>1, <2>2
<1>3. NamesInv /\ DeclaredFromLines => NamesAreUnique
    <2> SUFFICES ASSUME NamesInv, DeclaredFromLines, NEW d \in declared, NEW e \in declared
                 PROVE  d[3] = e[3] <=> d[1] = e[1] /\ d[2] = e[2]
        BY DEF NamesAreUnique
    <2>1. d[1][2] = 0 /\ e[1][2] = 0
        BY PlainNames DEF DeclaredFromLines, PlainNames
    <2>2. d[1] \in Names /\ e[1] \in Names
        BY DEF NamesInv
    <2>3. d[1][1] = e[1][1] => d[1] = e[1]
        BY <2>1, <2>2 DEF Names
    <2>4. QED  BY <2>3, SharedSymbols DEF SymbolsAreShared
<1>4. QED  BY <1>1, <1>2, <1>3, NamesInvariance, PTL DEF Spec

-----------------------------------------------------------------------------
(* The order of the visit.  A visit from a place, a term and the terms marked  *)
(* before, marks the term and starts others from places with fewer terms left *)
(* to mark, so it ends, cycle or not (TermVisitor.h:18-44).                  *)
Orders == Seq(DOMAIN heap)
HeapOk ==
    /\ Len(heap) \in Nat
    /\ DOMAIN heap = 1 .. Len(heap)
    /\ \A t \in DOMAIN heap : heap[t].ops \in Seq(0 .. Len(heap))

Unmarked(p) == Cardinality((DOMAIN heap) \ (p[2] \cup {p[1]}))

Marked(p, seq) == p[2] \cup {p[1]} \cup ToSet(seq)
VisitNext(visit, p, seq, x) ==
    IF x \in Marked(p, seq) \cup {Null} THEN seq ELSE seq \o visit[<<x, Marked(p, seq)>>]
VisitOps(visit, p) ==
    FoldLeft(LAMBDA seq, x : VisitNext(visit, p, seq, x), << >>, heap[p[1]].ops)

LEMMA UnmarkedDecreases ==
    ASSUME HeapOk, NEW p \in Places, NEW seq \in Orders,
           NEW x \in DOMAIN heap, x \notin Marked(p, seq)
    PROVE  /\ <<x, Marked(p, seq)>> \in Places
           /\ Unmarked(<<x, Marked(p, seq)>>) < Unmarked(p)
<1> DEFINE D == DOMAIN heap
           A == D \ (p[2] \cup {p[1]})
           B == D \ (Marked(p, seq) \cup {x})
<1>1. p[1] \in D /\ p[2] \in SUBSET D
    BY DEF Places
<1>2. ToSet(seq) \subseteq D
    BY DEF Orders, ToSet
<1>3. <<x, Marked(p, seq)>> \in Places
    BY <1>1, <1>2 DEF Places, Marked
<1>4. IsFiniteSet(D)
    BY FS_Interval DEF HeapOk
<1>5. A \in SUBSET D /\ B \in SUBSET A /\ x \in A /\ x \notin B
    BY DEF Marked
<1>6. IsFiniteSet(A)
    BY <1>4, <1>5, FS_Subset
<1>7. Cardinality(B) <= Cardinality(A) /\ Cardinality(B) # Cardinality(A)
      /\ IsFiniteSet(B)
    BY <1>5, <1>6, FS_Subset
<1>8. Cardinality(A) \in Nat /\ Cardinality(B) \in Nat
    BY <1>6, <1>7, FS_CardinalityType
<1>9. Unmarked(p) = Cardinality(A) /\ Unmarked(<<x, Marked(p, seq)>>) = Cardinality(B)
    BY DEF Unmarked
<1>10. QED  BY <1>3, <1>7, <1>8, <1>9

IsVisited(visit, p, g) ==
    /\ g \in [0 .. Len(heap[p[1]].ops) -> Orders]
    /\ g[0] = << >>
    /\ \A i \in 1 .. Len(heap[p[1]].ops) :
          g[i] = VisitNext(visit, p, g[i - 1], heap[p[1]].ops[i])
    /\ VisitOps(visit, p) = g[Len(heap[p[1]].ops)]

LEMMA OperandsFold ==
    ASSUME HeapOk, NEW visit, NEW p \in Places,
           \A r \in Places : Unmarked(r) < Unmarked(p) => visit[r] \in Orders
    PROVE  \E g : IsVisited(visit, p, g)
<1> DEFINE seq == heap[p[1]].ops
           n == Len(seq)
           Step(v, x) == VisitNext(visit, p, v, x)
           Body(f) == [s \in SUBSET (1 .. n) |->
                         IF s = {} THEN << >> ELSE Step(f[s \ {Max(s)}], seq[Max(s)])]
           iter == CHOOSE f : f = Body(f)
<1>1. p[1] \in DOMAIN heap /\ n \in Nat /\ DOMAIN seq = 1 .. n
      /\ \A i \in 1 .. n : seq[i] \in 0 .. Len(heap)
    BY DEF HeapOk, Places
<1>2. ASSUME NEW i \in 1 .. n, NEW v \in Orders PROVE Step(v, seq[i]) \in Orders
    <2>1. CASE seq[i] \in Marked(p, v) \cup {Null}
        BY <2>1 DEF VisitNext
    <2>2. CASE seq[i] \notin Marked(p, v) \cup {Null}
        <3>1. seq[i] \in DOMAIN heap
            BY <1>1, <2>2 DEF HeapOk, Null
        <3>2. visit[<<seq[i], Marked(p, v)>>] \in Orders
            BY <2>2, <3>1, UnmarkedDecreases
        <3>3. QED  BY <2>2, <3>2 DEF VisitNext, Orders
    <2>3. QED  BY <2>1, <2>2
<1>3. VisitOps(visit, p) = iter[1 .. n]
    BY <1>1 DEF VisitOps, FoldLeft, MapThenFoldSet
<1> HIDE DEF Step, seq, n
<1> DEFINE step == [i \in 1 .. n |-> [v \in Orders |-> Step(v, seq[i])]]
<1>4. PICK f \in [SUBSET (1 .. n) -> Orders] : IsFold(n, Orders, << >>, step, f)
    <2>1. step \in [1 .. n -> [Orders -> Orders]]
        BY <1>2
    <2>2. << >> \in Orders
        BY DEF Orders
    <2> HIDE DEF step
    <2>3. QED  BY <1>1, <2>1, <2>2, FoldSolution
<1>5. \A s \in SUBSET (1 .. n) : s # {} => Max(s) \in 1 .. n
    <2>1. \A s \in SUBSET (1 .. n) : s \in SUBSET (0 .. n)
        BY <1>1
    <2>2. QED  BY <1>1, <2>1, MaxIsGreatest
<1>6. f = Body(f)
    <2>1. ASSUME NEW s \in SUBSET (1 .. n)
          PROVE  f[s] = IF s = {} THEN << >> ELSE Step(f[s \ {Max(s)}], seq[Max(s)])
        <3>1. f[s] = IF s = {} THEN << >> ELSE step[Max(s)][f[s \ {Max(s)}]]
            BY <1>4 DEF IsFold
        <3>2. s # {} => /\ f[s \ {Max(s)}] \in Orders /\ Max(s) \in 1 .. n
            BY <1>5
        <3>3. QED  BY <3>1, <3>2
    <2>2. QED  BY <2>1
<1>7. iter = Body(iter)
    <2> HIDE DEF Body
    <2>1. QED  BY <1>6
<1>8. \A s \in SUBSET (1 .. n) :
         iter[s] = IF s = {} THEN << >> ELSE Step(iter[s \ {Max(s)}], seq[Max(s)])
    <2> HIDE DEF iter
    <2>1. QED  BY <1>7
<1> HIDE DEF iter
<1>9. PICK g \in [0 .. n -> Orders] : /\ g[0] = << >>
                                      /\ g[n] = iter[1 .. n]
                                      /\ \A i \in 1 .. n : g[i] = step[i][g[i - 1]]
    <2>1. step \in [1 .. n -> [Orders -> Orders]] /\ << >> \in Orders
        BY <1>2, EmptySeq DEF Orders
    <2>2. iter[{}] = << >>
        BY <1>8
    <2>3. ASSUME NEW s \in SUBSET (1 .. n), s # {}, iter[s \ {Max(s)}] \in Orders
          PROVE  iter[s] = step[Max(s)][iter[s \ {Max(s)}]]
        BY <1>5, <1>8, <2>3
    <2> HIDE DEF step
    <2>4. FollowsSteps(n, Orders, << >>, step, iter)
        BY <2>2, <2>3 DEF FollowsSteps
    <2>5. HasPrefixes(n, Orders, << >>, step, iter)
        BY <1>1, <2>1, <2>4, FoldPrefixes
    <2>6. QED  BY <2>5 DEF HasPrefixes
<1>10. \A i \in 1 .. n : g[i] = Step(g[i - 1], seq[i])
    <2>1. SUFFICES ASSUME NEW i \in 1 .. n PROVE g[i] = Step(g[i - 1], seq[i])
        OBVIOUS
    <2>2. i - 1 \in 0 .. n
        BY <1>1
    <2>3. QED  BY <1>9, <2>2
<1>11. QED  BY <1>3, <1>9, <1>10 DEF IsVisited, Step, seq, n

VisitBody(visit, p) == OperandsFirst(p[1], VisitOps(visit, p))

LEMMA VisitTypes ==
    ASSUME HeapOk, NEW visit, NEW p \in Places,
           \A r \in Places : Unmarked(r) < Unmarked(p) => visit[r] \in Orders
    PROVE  VisitBody(visit, p) \in Orders
<1>1. PICK g : IsVisited(visit, p, g)
    BY OperandsFold
<1>2. p[1] \in DOMAIN heap /\ Len(heap[p[1]].ops) \in Nat
    BY DEF HeapOk, Places
<1>3. VisitOps(visit, p) \in Orders
    BY <1>1, <1>2 DEF IsVisited
<1>4. QED  BY <1>2, <1>3 DEF VisitBody, OperandsFirst, Orders

LEMMA VisitCongruence ==
    ASSUME HeapOk, NEW visit, NEW other, NEW p \in Places,
           \A r \in Places : Unmarked(r) < Unmarked(p) =>
               visit[r] \in Orders /\ visit[r] = other[r]
    PROVE  VisitBody(visit, p) = VisitBody(other, p)
<1> DEFINE seq == heap[p[1]].ops
           n == Len(seq)
<1>1. PICK g : IsVisited(visit, p, g)
    BY OperandsFold
<1>2. PICK h : IsVisited(other, p, h)
    BY OperandsFold
<1>3. p[1] \in DOMAIN heap /\ n \in Nat /\ \A i \in 1 .. n : seq[i] \in 0 .. Len(heap)
    BY DEF HeapOk, Places
<1> DEFINE T == {i \in Nat : i <= n => g[i] = h[i]}
<1>4. 0 \in T
    BY <1>1, <1>2 DEF IsVisited
<1>5. ASSUME NEW i \in Nat, i \in T PROVE i + 1 \in T
    <2>1. SUFFICES ASSUME i + 1 <= n PROVE g[i + 1] = h[i + 1]
        OBVIOUS
    <2> DEFINE x == seq[i + 1]
               v == g[i]
    <2>2. i + 1 \in 1 .. n /\ (i + 1) - 1 = i /\ i \in 0 .. n
        BY <1>3, <2>1
    <2>3. v = h[i] /\ v \in Orders
        <3>1. i <= n
            BY <1>3, <2>2
        <3>2. g \in [0 .. n -> Orders]
            BY <1>1 DEF IsVisited
        <3> HIDE DEF n
        <3>3. QED  BY <1>5, <2>2, <3>1, <3>2
    <2>4. g[i + 1] = VisitNext(visit, p, v, x) /\ h[i + 1] = VisitNext(other, p, v, x)
        BY <1>1, <1>2, <2>2, <2>3 DEF IsVisited
    <2> HIDE DEF v
    <2>5. CASE x \in Marked(p, v) \cup {Null}
        BY <2>4, <2>5 DEF VisitNext
    <2>6. CASE x \notin Marked(p, v) \cup {Null}
        <3>1. x \in DOMAIN heap
            BY <1>3, <2>2, <2>6 DEF HeapOk, Null
        <3>2. visit[<<x, Marked(p, v)>>] = other[<<x, Marked(p, v)>>]
            BY <2>3, <2>6, <3>1, UnmarkedDecreases
        <3>3. QED  BY <2>4, <2>6, <3>2 DEF VisitNext
    <2>7. QED  BY <2>5, <2>6
<1>6. Nat \subseteq T
    <2> HIDE DEF T
    <2>1. QED  BY <1>4, <1>5, NatSetInduction
<1>7. g[n] = h[n]
    BY <1>3, <1>6
<1>8. QED  BY <1>1, <1>2, <1>7 DEF IsVisited, VisitBody

LEMMA UnmarkedIsNatural ==
    ASSUME HeapOk, NEW p \in Places
    PROVE  Unmarked(p) \in Nat
<1>1. IsFiniteSet(DOMAIN heap)
    BY FS_Interval DEF HeapOk
<1>2. IsFiniteSet((DOMAIN heap) \ (p[2] \cup {p[1]}))
    BY <1>1, FS_Subset
<1>3. QED  BY <1>2, FS_CardinalityType DEF Unmarked

(* POVisitor is defined at every place, also when the terms form a cycle.     *)
LEMMA VisitDefined ==
    ASSUME HeapOk
    PROVE  \A p \in Places : Visit[p] \in Orders /\ Visit[p] = VisitBody(Visit, p)
<1> DEFINE depth == [p \in Places |-> Unmarked(p)]
           body == [p \in Places |-> [f \in [Places -> Orders] |-> VisitBody(f, p)]]
           Fun(f) == [p \in Places |-> VisitBody(f, p)]
<1>1. depth \in [Places -> Nat]
    BY UnmarkedIsNatural
<1>2. IsRecursion(Places, Orders, depth, body)
    <2>1. \A p \in Places : \A f \in [Places -> Orders] : VisitBody(f, p) \in Orders
        BY VisitTypes
    <2>2. body \in [Places -> [[Places -> Orders] -> Orders]]
        BY <2>1
    <2>3. ASSUME NEW p \in Places, NEW f \in [Places -> Orders], NEW h \in [Places -> Orders],
                 \A r \in Places : depth[r] < depth[p] => f[r] = h[r]
          PROVE  body[p][f] = body[p][h]
        <3>1. VisitBody(f, p) = VisitBody(h, p)
            BY <2>3, VisitCongruence
        <3>2. QED  BY <3>1
    <2>4. Orders # {}
        BY EmptySeq DEF Orders
    <2> HIDE DEF depth, body
    <2>5. QED  BY <1>1, <2>2, <2>3, <2>4 DEF IsRecursion
<1>3. PICK f \in [Places -> Orders] : \A p \in Places : f[p] = body[p][f]
    <2> HIDE DEF depth, body
    <2>1. QED  BY <1>2, DepthRecursion DEF HasSolution
<1>4. \A p \in Places : f[p] = VisitBody(f, p)
    BY <1>3
<1>5. f = Fun(f)
    BY <1>4
<1>6. Visit = CHOOSE visit : visit = Fun(visit)
    BY DEF Visit, VisitBody, VisitOps, VisitNext, Marked
<1>7. Visit = Fun(Visit)
    <2> HIDE DEF Fun
    <2>1. QED  BY <1>5, <1>6
<1>8. \A p \in Places : Visit[p] = VisitBody(Visit, p)
    BY <1>7
<1> DEFINE T == {p \in Places : Visit[p] \in Orders}
<1>9. ASSUME NEW p \in Places, \A r \in Places : depth[r] < depth[p] => r \in T
      PROVE  p \in T
    <2>1. \A r \in Places : Unmarked(r) < Unmarked(p) => Visit[r] \in Orders
        BY <1>9
    <2>2. VisitBody(Visit, p) \in Orders
        BY <2>1, VisitTypes
    <2>3. QED  BY <1>8, <2>2
<1>10. Places \subseteq T
    <2> HIDE DEF T, depth
    <2>1. QED  BY <1>1, <1>9, DepthInduction
<1>11. QED  BY <1>8, <1>10

-----------------------------------------------------------------------------
RootNext(seq, t) ==
    IF IsRoot(t) /\ FullyDefined(t) THEN seq \o Visit[<<t, ToSet(seq)>>] ELSE seq

(* The visits of the roots, one after the other.                             *)
AreVisited(g) ==
    /\ g \in [0 .. Len(partialDefs) -> Orders]
    /\ g[0] = << >>
    /\ \A i \in 1 .. Len(partialDefs) : g[i] = RootNext(g[i - 1], partialDefs[i])
    /\ PostOrder = g[Len(partialDefs)]

LEMMA RootsFold ==
    ASSUME HeapOk, partialDefs \in Seq(0 .. Len(heap))
    PROVE  \E g : AreVisited(g)
<1> DEFINE n == Len(partialDefs)
           Body(f) == [s \in SUBSET (1 .. n) |->
                         IF s = {} THEN << >> ELSE RootNext(f[s \ {Max(s)}], partialDefs[Max(s)])]
           iter == CHOOSE f : f = Body(f)
           step == [i \in 1 .. n |-> [v \in Orders |-> RootNext(v, partialDefs[i])]]
<1>1. n \in Nat /\ DOMAIN partialDefs = 1 .. n
      /\ \A i \in 1 .. n : partialDefs[i] \in 0 .. Len(heap)
    OBVIOUS
<1>2. ASSUME NEW i \in 1 .. n, NEW v \in Orders PROVE RootNext(v, partialDefs[i]) \in Orders
    <2> DEFINE t == partialDefs[i]
    <2>1. CASE IsRoot(t)
        <3>1. t \in DOMAIN heap
            BY <1>1, <2>1 DEF IsRoot, HeapOk, Null
        <3>2. ToSet(v) \subseteq DOMAIN heap
            BY DEF Orders, ToSet
        <3>3. Visit[<<t, ToSet(v)>>] \in Orders
            BY <3>1, <3>2, VisitDefined DEF Places
        <3>4. v \o Visit[<<t, ToSet(v)>>] \in Orders
            BY <3>3 DEF Orders
        <3>5. QED  BY <3>4 DEF RootNext
    <2>2. CASE ~IsRoot(t)
        BY <2>2 DEF RootNext
    <2>3. QED  BY <2>1, <2>2
<1>3. PostOrder = iter[1 .. n]
    BY <1>1 DEF PostOrder, RootNext, FoldLeft, MapThenFoldSet
<1>4. step \in [1 .. n -> [Orders -> Orders]] /\ << >> \in Orders
    BY <1>2, EmptySeq DEF Orders
<1>5. PICK f \in [SUBSET (1 .. n) -> Orders] : IsFold(n, Orders, << >>, step, f)
    <2> HIDE DEF step, n
    <2>1. QED  BY <1>1, <1>4, FoldSolution
<1> HIDE DEF n
<1>6. \A s \in SUBSET (1 .. n) : s # {} => Max(s) \in 1 .. n
    <2>1. \A s \in SUBSET (1 .. n) : s \in SUBSET (0 .. n)
        BY <1>1
    <2>2. QED  BY <1>1, <2>1, MaxIsGreatest
<1>7. f = Body(f)
    <2>1. ASSUME NEW s \in SUBSET (1 .. n)
          PROVE  f[s] = IF s = {} THEN << >>
                                  ELSE RootNext(f[s \ {Max(s)}], partialDefs[Max(s)])
        <3>1. f[s] = IF s = {} THEN << >> ELSE step[Max(s)][f[s \ {Max(s)}]]
            BY <1>5 DEF IsFold
        <3>2. s # {} => /\ f[s \ {Max(s)}] \in Orders /\ Max(s) \in 1 .. n
            BY <1>6
        <3>3. QED  BY <3>1, <3>2
    <2>2. QED  BY <2>1
<1>8. iter = Body(iter)
    <2> HIDE DEF Body
    <2>1. QED  BY <1>7
<1>9. \A s \in SUBSET (1 .. n) :
         iter[s] = IF s = {} THEN << >>
                             ELSE RootNext(iter[s \ {Max(s)}], partialDefs[Max(s)])
    <2> HIDE DEF iter
    <2>1. QED  BY <1>8
<1> HIDE DEF iter
<1>10. PICK g \in [0 .. n -> Orders] : /\ g[0] = << >>
                                       /\ g[n] = iter[1 .. n]
                                       /\ \A i \in 1 .. n : g[i] = step[i][g[i - 1]]
    <2>1. iter[{}] = << >>
        BY <1>9
    <2>2. ASSUME NEW s \in SUBSET (1 .. n), s # {}, iter[s \ {Max(s)}] \in Orders
          PROVE  iter[s] = step[Max(s)][iter[s \ {Max(s)}]]
        BY <1>6, <1>9, <2>2
    <2> HIDE DEF step
    <2>3. FollowsSteps(n, Orders, << >>, step, iter)
        BY <2>1, <2>2 DEF FollowsSteps
    <2>4. HasPrefixes(n, Orders, << >>, step, iter)
        BY <1>1, <1>4, <2>3, FoldPrefixes
    <2>5. QED  BY <2>4 DEF HasPrefixes
<1>11. ASSUME NEW i \in 1 .. n PROVE g[i] = RootNext(g[i - 1], partialDefs[i])
    <2>1. i - 1 \in 0 .. n
        BY <1>1
    <2>2. QED  BY <1>10, <2>1
<1>12. QED  BY <1>3, <1>10, <1>11 DEF AreVisited, n

-----------------------------------------------------------------------------
LEMMA SetOfJoined ==
    ASSUME NEW S, NEW s \in Seq(S), NEW r \in Seq(S)
    PROVE  s \o r \in Seq(S) /\ ToSet(s \o r) = ToSet(s) \cup ToSet(r)
<1>1. /\ s \o r \in Seq(S) /\ Len(s) \in Nat /\ Len(r) \in Nat
      /\ Len(s \o r) = Len(s) + Len(r)
      /\ \A i \in 1 .. Len(s) + Len(r) :
            (s \o r)[i] = IF i <= Len(s) THEN s[i] ELSE r[i - Len(s)]
    OBVIOUS
<1>2. ASSUME NEW x \in ToSet(s \o r) PROVE x \in ToSet(s) \cup ToSet(r)
    <2>1. PICK i \in 1 .. Len(s) + Len(r) : x = (s \o r)[i]
        BY <1>1 DEF ToSet
    <2>2. CASE i <= Len(s)
        BY <1>1, <2>1, <2>2 DEF ToSet
    <2>3. CASE ~(i <= Len(s))
        <3>1. i - Len(s) \in DOMAIN r /\ x = r[i - Len(s)]
            BY <1>1, <2>1, <2>3
        <3>2. QED  BY <3>1 DEF ToSet
    <2>4. QED  BY <2>2, <2>3
<1>3. ASSUME NEW x \in ToSet(s) PROVE x \in ToSet(s \o r)
    <2>1. PICK i \in 1 .. Len(s) : x = s[i]
        BY <1>3 DEF ToSet
    <2>2. i \in DOMAIN (s \o r) /\ (s \o r)[i] = x
        BY <1>1, <2>1
    <2>3. QED  BY <2>2 DEF ToSet
<1>4. ASSUME NEW x \in ToSet(r) PROVE x \in ToSet(s \o r)
    <2>1. PICK i \in 1 .. Len(r) : x = r[i]
        BY <1>4 DEF ToSet
    <2>2. Len(s) + i \in DOMAIN (s \o r) /\ (s \o r)[Len(s) + i] = x
        BY <1>1, <2>1
    <2>3. QED  BY <2>2 DEF ToSet
<1>5. QED  BY <1>1, <1>2, <1>3, <1>4

LEMMA SetOfOne ==
    ASSUME NEW x
    PROVE  ToSet(<<x>>) = {x}
<1>1. DOMAIN <<x>> = {1} /\ <<x>>[1] = x
    OBVIOUS
<1>2. QED  BY <1>1 DEF ToSet

LEMMA SetOfOrder ==
    ASSUME HeapOk, NEW s \in Orders
    PROVE  ToSet(s) \subseteq DOMAIN heap
BY DEF Orders, ToSet

(* One visit, unfolded: g is what its operands add, one after the other.      *)
LEMMA VisitUnfolds ==
    ASSUME HeapOk, NEW p \in Places
    PROVE  \E g : /\ IsVisited(Visit, p, g)
                  /\ Visit[p] = g[Len(heap[p[1]].ops)] \o <<p[1]>>
                  /\ ToSet(Visit[p]) = ToSet(g[Len(heap[p[1]].ops)]) \cup {p[1]}
<1>1. PICK g : IsVisited(Visit, p, g)
    BY OperandsFold, VisitDefined
<1>2. p[1] \in DOMAIN heap /\ Len(heap[p[1]].ops) \in Nat
    BY DEF HeapOk, Places
<1>3. Visit[p] = g[Len(heap[p[1]].ops)] \o <<p[1]>>
    BY <1>1, VisitDefined DEF IsVisited, VisitBody, OperandsFirst
<1>4. PICK v \in Orders : v = g[Len(heap[p[1]].ops)]
    BY <1>1, <1>2 DEF IsVisited
<1>5. PICK last \in Orders : last = <<p[1]>> /\ ToSet(last) = {p[1]}
    <2>1. <<p[1]>> \in Seq(DOMAIN heap)
        BY <1>2
    <2>2. ToSet(<<p[1]>>) = {p[1]}
        BY SetOfOne
    <2>3. QED  BY <2>1, <2>2 DEF Orders
<1>6. ToSet(v \o last) = ToSet(v) \cup ToSet(last)
    BY SetOfJoined DEF Orders
<1>7. QED  BY <1>1, <1>3, <1>4, <1>5, <1>6

(* An operand is skipped, or a visit from a deeper place is added.           *)
Skips(p, v, w, x) == x \in Marked(p, v) \cup {Null} /\ w = v
Adds(p, v, w, x, q) ==
    /\ x \in DOMAIN heap
    /\ q = <<x, Marked(p, v)>>
    /\ q \in Places /\ Unmarked(q) < Unmarked(p)
    /\ Visit[q] \in Orders
    /\ w = v \o Visit[q]
    /\ ToSet(w) = ToSet(v) \cup ToSet(Visit[q])

LEMMA NextUnfolds ==
    ASSUME HeapOk, NEW p \in Places, NEW g, IsVisited(Visit, p, g),
           NEW i \in Nat, i < Len(heap[p[1]].ops)
    PROVE  /\ g[i] \in Orders /\ g[i + 1] \in Orders
           /\ i + 1 \in DOMAIN heap[p[1]].ops
           /\ \/ Skips(p, g[i], g[i + 1], heap[p[1]].ops[i + 1])
              \/ \E q \in Places : Adds(p, g[i], g[i + 1], heap[p[1]].ops[i + 1], q)
<1> DEFINE x == heap[p[1]].ops[i + 1]
           v == g[i]
           w == g[i + 1]
           q == <<x, Marked(p, v)>>
<1>1. /\ p[1] \in DOMAIN heap /\ Len(heap[p[1]].ops) \in Nat
      /\ i + 1 \in DOMAIN heap[p[1]].ops /\ x \in 0 .. Len(heap)
    BY DEF HeapOk, Places
<1>2. /\ i + 1 \in 1 .. Len(heap[p[1]].ops) /\ (i + 1) - 1 = i
      /\ i \in 0 .. Len(heap[p[1]].ops) /\ i + 1 \in 0 .. Len(heap[p[1]].ops)
    BY <1>1
<1>21. v \in Orders /\ w \in Orders /\ w = VisitNext(Visit, p, v, x)
    BY <1>2 DEF IsVisited
<1> HIDE DEF v, w, x
<1>3. CASE x \in Marked(p, v) \cup {Null}
    <2>1. Skips(p, v, w, x)
        BY <1>21, <1>3 DEF VisitNext, Skips
    <2>2. QED  BY <1>1, <1>21, <2>1 DEF v, w, x
<1>4. CASE x \notin Marked(p, v) \cup {Null}
    <2>1. x \in DOMAIN heap
        BY <1>1, <1>4 DEF HeapOk, Null, x
    <2>2. q \in Places /\ Unmarked(q) < Unmarked(p)
        BY <1>21, <1>4, <2>1, UnmarkedDecreases
    <2>3. Visit[q] \in Orders
        BY <2>2, VisitDefined
    <2>4. w = v \o Visit[q]
        BY <1>21, <1>4 DEF VisitNext
    <2>5. ToSet(w) = ToSet(v) \cup ToSet(Visit[q])
        BY <1>21, <2>3, <2>4, SetOfJoined DEF Orders
    <2>6. Adds(p, v, w, x, q)
        BY <2>1, <2>2, <2>3, <2>4, <2>5 DEF Adds
    <2>7. QED  BY <1>1, <1>21, <2>2, <2>6 DEF v, w, x
<1>5. QED  BY <1>3, <1>4

LEMMA PlaceInduction ==
    ASSUME HeapOk, NEW T,
           \A p \in Places : (\A q \in Places : Unmarked(q) < Unmarked(p) => q \in T) => p \in T
    PROVE  Places \subseteq T
<1> DEFINE depth == [p \in Places |-> Unmarked(p)]
<1>1. depth \in [Places -> Nat]
    BY UnmarkedIsNatural
<1>2. \A p \in Places : (\A q \in Places : depth[q] < depth[p] => q \in T) => p \in T
    OBVIOUS
<1> HIDE DEF depth
<1>3. QED  BY <1>1, <1>2, DepthInduction

(* A visit does not leave a set that has the operands of its members, ...     *)
HasOperands(X, Y) ==
    \A u \in X : \A i \in DOMAIN heap[u].ops : heap[u].ops[i] \in X \cup Y \cup {Null}

LEMMA VisitStays ==
    ASSUME HeapOk, NEW X, HasOperands(X, {})
    PROVE  \A p \in Places : p[1] \in X => ToSet(Visit[p]) \subseteq X
<1> DEFINE T == {p \in Places : p[1] \in X => ToSet(Visit[p]) \subseteq X}
<1>1. ASSUME NEW p \in Places, \A q \in Places : Unmarked(q) < Unmarked(p) => q \in T
      PROVE  p \in T
    <2>1. SUFFICES ASSUME p[1] \in X PROVE ToSet(Visit[p]) \subseteq X
        OBVIOUS
    <2> DEFINE n == Len(heap[p[1]].ops)
    <2>2. PICK g : /\ IsVisited(Visit, p, g)
                   /\ ToSet(Visit[p]) = ToSet(g[n]) \cup {p[1]}
        BY VisitUnfolds
    <2>3. n \in Nat /\ p[1] \in DOMAIN heap /\ DOMAIN heap[p[1]].ops = 1 .. n
        BY DEF HeapOk, Places
    <2> DEFINE U == {i \in Nat : i <= n => ToSet(g[i]) \subseteq X}
    <2>4. 0 \in U
        BY <2>2 DEF IsVisited, ToSet
    <2>5. ASSUME NEW i \in Nat, i \in U PROVE i + 1 \in U
        <3>1. SUFFICES ASSUME i + 1 <= n PROVE ToSet(g[i + 1]) \subseteq X
            OBVIOUS
        <3> DEFINE x == heap[p[1]].ops[i + 1]
        <3>2. i < n /\ ToSet(g[i]) \subseteq X
            BY <2>3, <2>5, <3>1
        <3>3. x \in X \cup {Null}
            BY <2>1, <2>2, <3>2, NextUnfolds DEF HasOperands
        <3>4. CASE Skips(p, g[i], g[i + 1], x)
            BY <3>2, <3>4 DEF Skips
        <3>5. ASSUME NEW q \in Places, Adds(p, g[i], g[i + 1], x, q)
              PROVE  ToSet(g[i + 1]) \subseteq X
            <4>1. /\ x \in DOMAIN heap /\ q[1] = x /\ Unmarked(q) < Unmarked(p)
                  /\ ToSet(g[i + 1]) = ToSet(g[i]) \cup ToSet(Visit[q])
                BY <3>5 DEF Adds
            <4>2. x \in X
                BY <3>3, <4>1 DEF HeapOk, Null
            <4>3. q \in T
                BY <1>1, <4>1
            <4>4. QED  BY <3>2, <4>1, <4>2, <4>3
        <3>6. QED  BY <2>2, <3>2, <3>4, <3>5, NextUnfolds
    <2>6. Nat \subseteq U
        <3> HIDE DEF U
        <3>1. QED  BY <2>4, <2>5, NatSetInduction
    <2>7. QED  BY <2>1, <2>2, <2>3, <2>6
<1>2. Places \subseteq T
    <2> HIDE DEF T
    <2>1. QED  BY <1>1, PlaceInduction
<1>3. QED  BY <1>2

(* ... and has the operands of what it visits, save what was marked before.   *)
LEMMA VisitCloses ==
    ASSUME HeapOk
    PROVE  \A p \in Places : /\ p[1] \in ToSet(Visit[p])
                             /\ HasOperands(ToSet(Visit[p]), p[2])
<1> DEFINE T == {p \in Places : HasOperands(ToSet(Visit[p]), p[2])}
<1>1. \A p \in Places : p[1] \in ToSet(Visit[p])
    BY VisitUnfolds
<1>2. ASSUME NEW p \in Places, \A q \in Places : Unmarked(q) < Unmarked(p) => q \in T
      PROVE  p \in T
    <2> DEFINE seq == heap[p[1]].ops
               n == Len(seq)
               Y == p[2] \cup {p[1]}
    <2>1. PICK g : /\ IsVisited(Visit, p, g)
                   /\ ToSet(Visit[p]) = ToSet(g[n]) \cup {p[1]}
        BY VisitUnfolds
    <2>2. n \in Nat /\ p[1] \in DOMAIN heap /\ DOMAIN seq = 1 .. n
        BY DEF HeapOk, Places
    <2> DEFINE Good(i) == /\ HasOperands(ToSet(g[i]), Y)
                          /\ \A k \in DOMAIN seq : k <= i => seq[k] \in ToSet(g[i]) \cup Y \cup {Null}
               U == {i \in Nat : i <= n => Good(i)}
    <2>3. 0 \in U
        <3>1. ToSet(g[0]) = {}
            BY <2>1 DEF IsVisited, ToSet
        <3>2. QED  BY <2>2, <3>1 DEF HasOperands
    <2>4. ASSUME NEW i \in Nat, i \in U PROVE i + 1 \in U
        <3>1. SUFFICES ASSUME i + 1 <= n PROVE Good(i + 1)
            OBVIOUS
        <3> DEFINE x == seq[i + 1]
        <3>2. i < n /\ Good(i)
            BY <2>2, <2>4, <3>1
        <3>3. \A k \in DOMAIN seq : k <= i + 1 => k <= i \/ k = i + 1
            BY <2>2
        <3>4. CASE Skips(p, g[i], g[i + 1], x)
            <4>1. g[i + 1] = g[i] /\ x \in ToSet(g[i]) \cup Y \cup {Null}
                BY <3>4 DEF Skips, Marked
            <4>2. QED  BY <3>2, <3>3, <4>1
        <3>5. ASSUME NEW q \in Places, Adds(p, g[i], g[i + 1], x, q)
              PROVE  Good(i + 1)
            <4>1. /\ q[1] = x /\ q[2] = Y \cup ToSet(g[i]) /\ Unmarked(q) < Unmarked(p)
                  /\ ToSet(g[i + 1]) = ToSet(g[i]) \cup ToSet(Visit[q])
                BY <3>5 DEF Adds, Marked
            <4>2. q \in T /\ q[1] \in ToSet(Visit[q])
                BY <1>1, <1>2, <4>1
            <4>3. HasOperands(ToSet(Visit[q]), Y \cup ToSet(g[i]))
                BY <4>1, <4>2
            <4>4. HasOperands(ToSet(g[i + 1]), Y)
                BY <3>2, <4>1, <4>3 DEF HasOperands
            <4>5. x \in ToSet(g[i + 1]) /\ ToSet(g[i]) \subseteq ToSet(g[i + 1])
                BY <4>1, <4>2
            <4>6. \A k \in DOMAIN seq : k <= i + 1 => seq[k] \in ToSet(g[i + 1]) \cup Y \cup {Null}
                BY <3>2, <3>3, <4>5
            <4>7. QED  BY <4>4, <4>6
        <3>6. QED  BY <2>1, <3>2, <3>4, <3>5, NextUnfolds
    <2>5. Nat \subseteq U
        <3> HIDE DEF U
        <3>1. QED  BY <2>3, <2>4, NatSetInduction
    <2>6. Good(n)
        <3>1. \A i \in Nat : i <= n => Good(i)
            <4> HIDE DEF Good
            <4>1. QED  BY <2>5
        <3> HIDE DEF n, Good
        <3>2. QED  BY <2>2, <3>1
    <2>7. HasOperands(ToSet(g[n]) \cup {p[1]}, p[2])
        BY <2>2, <2>6 DEF HasOperands
    <2>8. QED  BY <2>1, <2>7
<1>3. Places \subseteq T
    <2> HIDE DEF T
    <2>1. QED  BY <1>2, PlaceInduction
<1>4. QED  BY <1>1, <1>3

(* The terms below a term: the least set with it and with all operands.       *)
Below(t) == ToSet(Visit[<<t, {}>>])
OperandsOf(t) == ToSet(heap[t].ops) \ {Null}

LEMMA BelowIsLeast ==
    ASSUME HeapOk, NEW t \in DOMAIN heap
    PROVE  /\ t \in Below(t) /\ Below(t) \subseteq DOMAIN heap
           /\ HasOperands(Below(t), {})
           /\ \A X : t \in X /\ HasOperands(X, {}) => Below(t) \subseteq X
           /\ \A seen \in SUBSET DOMAIN heap : ToSet(Visit[<<t, seen>>]) \subseteq Below(t)
<1>1. \A seen \in SUBSET DOMAIN heap : <<t, seen>> \in Places
    BY DEF Places
<1>2. /\ t \in Below(t) /\ Below(t) \subseteq DOMAIN heap
      /\ HasOperands(Below(t), {})
    <2>1. PICK p \in Places : p = <<t, {}>>
        BY <1>1
    <2>2. p[1] = t /\ p[2] = {} /\ Below(t) = ToSet(Visit[p])
        BY <2>1 DEF Below
    <2>3. Visit[p] \in Orders
        BY VisitDefined
    <2>4. p[1] \in ToSet(Visit[p]) /\ HasOperands(ToSet(Visit[p]), p[2])
        BY VisitCloses
    <2>5. QED  BY <2>2, <2>3, <2>4, SetOfOrder
<1>3. \A X : t \in X /\ HasOperands(X, {}) => Below(t) \subseteq X
    BY <1>1, VisitStays DEF Below
<1>4. \A seen \in SUBSET DOMAIN heap : ToSet(Visit[<<t, seen>>]) \subseteq Below(t)
    BY <1>1, <1>2, VisitStays
<1>5. QED  BY <1>2, <1>3, <1>4

LEMMA OperandsAreTerms ==
    ASSUME HeapOk, NEW t \in DOMAIN heap
    PROVE  /\ OperandsOf(t) \subseteq DOMAIN heap
           /\ \A i \in DOMAIN heap[t].ops : heap[t].ops[i] \in OperandsOf(t) \cup {Null}
BY DEF HeapOk, OperandsOf, ToSet, Null

LEMMA BelowUnfolds ==
    ASSUME HeapOk, NEW t \in DOMAIN heap, NEW w \in Below(t), w # t
    PROVE  \E x \in OperandsOf(t) : w \in Below(x)
<1> DEFINE X == {t} \cup UNION {Below(x) : x \in OperandsOf(t)}
<1>1. \A x \in OperandsOf(t) : /\ x \in Below(x) /\ Below(x) \subseteq DOMAIN heap
                               /\ HasOperands(Below(x), {})
    BY BelowIsLeast, OperandsAreTerms
<1>2. ASSUME NEW u \in X, NEW i \in DOMAIN heap[u].ops
      PROVE  heap[u].ops[i] \in X \cup {Null}
    <2>1. CASE u = t
        BY <1>1, <1>2, <2>1, OperandsAreTerms
    <2>2. CASE u # t
        <3>1. PICK x \in OperandsOf(t) : u \in Below(x)
            BY <2>2
        <3>2. heap[u].ops[i] \in Below(x) \cup {Null}
            BY <1>1, <3>1 DEF HasOperands
        <3>3. QED  BY <3>2
    <2>3. QED  BY <2>1, <2>2
<1>3. HasOperands(X, {})
    BY <1>2 DEF HasOperands
<1>4. w \in X
    BY <1>3, BelowIsLeast
<1>5. QED  BY <1>4

(* Without a cycle a term is not an operand of what is below it.             *)
Acyclic == ~ \E S \in SUBSET DOMAIN heap : Cyclic(S)

LEMMA NoWayUp ==
    ASSUME HeapOk, Acyclic, NEW t \in DOMAIN heap, NEW w \in Below(t)
    PROVE  t \notin OperandsOf(w)
<1> SUFFICES ASSUME t \in OperandsOf(w) PROVE FALSE
    OBVIOUS
<1> DEFINE S == {u \in Below(t) : t \in Below(u)}
<1>1. /\ t \in Below(t) /\ Below(t) \subseteq DOMAIN heap /\ HasOperands(Below(t), {})
    BY BelowIsLeast
<1>2. \A u \in Below(t) : \A x \in OperandsOf(u) : x \in Below(t)
    BY <1>1 DEF HasOperands, OperandsOf, ToSet
<1>3. ASSUME NEW u \in S PROVE \E x \in OperandsOf(u) : x \in S
    <2>1. u \in DOMAIN heap /\ t \in Below(u) /\ u \in Below(t)
        BY <1>1, <1>3
    <2>2. CASE u # t
        <3>1. PICK x \in OperandsOf(u) : t \in Below(x)
            BY <2>1, <2>2, BelowUnfolds
        <3>2. QED  BY <1>2, <2>1, <3>1
    <2>3. CASE u = t /\ w = t
        BY <1>1, <2>3
    <2>4. CASE u = t /\ w # t
        <3>1. PICK x \in OperandsOf(t) : w \in Below(x)
            BY <2>4, BelowUnfolds
        <3>2. x \in DOMAIN heap
            BY <3>1, OperandsAreTerms
        <3>3. HasOperands(Below(x), {})
            BY <3>2, BelowIsLeast
        <3>4. t \in Below(x)
            BY <3>1, <3>3 DEF HasOperands, OperandsOf, ToSet
        <3>5. QED  BY <1>1, <1>2, <2>4, <3>1, <3>4
    <2>5. QED  BY <2>2, <2>3, <2>4
<1>4. S # {} /\ S \in SUBSET DOMAIN heap
    BY <1>1
<1>5. \A u \in S : ToSet(heap[u].ops) \cap S # {}
    BY <1>3 DEF OperandsOf
<1>6. Cyclic(S)
    <2> HIDE DEF S
    <2>1. QED  BY <1>4, <1>5 DEF Cyclic
<1>7. QED  BY <1>4, <1>6 DEF Acyclic

-----------------------------------------------------------------------------
(* The operands of a member come before it, unless they are in D.            *)
OperandsBefore(r, D) ==
    \A j \in DOMAIN r : \A x \in OperandsOf(r[j]) :
        x \in D \/ \E k \in DOMAIN r : k < j /\ r[k] = x

LEMMA JoinedBefore ==
    ASSUME NEW S, NEW s \in Seq(S), NEW r \in Seq(S), NEW D, NEW E,
           OperandsBefore(s, D), OperandsBefore(r, E), E \subseteq D \cup ToSet(s)
    PROVE  OperandsBefore(s \o r, D)
<1>1. /\ Len(s) \in Nat /\ Len(r) \in Nat
      /\ DOMAIN s = 1 .. Len(s) /\ DOMAIN r = 1 .. Len(r)
      /\ DOMAIN (s \o r) = 1 .. Len(s) + Len(r)
      /\ \A i \in DOMAIN s : i \in DOMAIN (s \o r) /\ (s \o r)[i] = s[i]
      /\ \A i \in DOMAIN r : Len(s) + i \in DOMAIN (s \o r) /\ (s \o r)[Len(s) + i] = r[i]
    OBVIOUS
<1> DEFINE q == s \o r
<1> HIDE DEF q
<1>2. ASSUME NEW j \in DOMAIN q, NEW x \in OperandsOf(q[j])
      PROVE  x \in D \/ \E k \in DOMAIN q : k < j /\ q[k] = x
    <2>1. CASE j \in DOMAIN s
        <3>1. q[j] = s[j]
            BY <1>1, <2>1 DEF q
        <3>2. x \in D \/ \E k \in DOMAIN s : k < j /\ s[k] = x
            BY <1>2, <2>1, <3>1 DEF OperandsBefore
        <3>3. QED  BY <1>1, <3>2 DEF q
    <2>2. CASE j \notin DOMAIN s
        <3>1. PICK i \in DOMAIN r : j = Len(s) + i
            <4>1. j \in 1 .. Len(s) + Len(r) /\ j \notin 1 .. Len(s)
                BY <1>1, <2>2 DEF q
            <4>2. j - Len(s) \in 1 .. Len(r) /\ j = Len(s) + (j - Len(s))
                BY <1>1, <4>1
            <4>3. QED  BY <1>1, <4>2
        <3>2. q[j] = r[i]
            BY <1>1, <3>1 DEF q
        <3>3. x \in E \/ \E k \in DOMAIN r : k < i /\ r[k] = x
            BY <1>2, <3>2 DEF OperandsBefore
        <3>4. CASE x \in ToSet(s)
            <4>1. PICK k \in DOMAIN s : s[k] = x
                BY <3>4 DEF ToSet
            <4>2. k \in DOMAIN q /\ q[k] = x /\ k < j
                BY <1>1, <3>1, <4>1 DEF q
            <4>3. QED  BY <4>2
        <3>5. ASSUME NEW k \in DOMAIN r, k < i, r[k] = x
              PROVE  \E m \in DOMAIN q : m < j /\ q[m] = x
            <4>1. Len(s) + k \in DOMAIN q /\ q[Len(s) + k] = x /\ Len(s) + k < j
                BY <1>1, <3>1, <3>5 DEF q
            <4>2. QED  BY <4>1
        <3>6. QED  BY <3>3, <3>4, <3>5
    <2>3. QED  BY <2>1, <2>2
<1>3. QED  BY <1>2 DEF OperandsBefore, q

(* Unless there is a cycle the operands are visited first.                   *)
LEMMA VisitOrdered ==
    ASSUME HeapOk, Acyclic
    PROVE  \A p \in Places : OperandsBefore(Visit[p], p[2])
<1> DEFINE T == {p \in Places : OperandsBefore(Visit[p], p[2])}
<1>1. ASSUME NEW p \in Places, \A q \in Places : Unmarked(q) < Unmarked(p) => q \in T
      PROVE  p \in T
    <2> DEFINE t == p[1]
               n == Len(heap[p[1]].ops)
               Y == p[2] \cup {t}
    <2>1. PICK g : /\ IsVisited(Visit, p, g)
                   /\ Visit[p] = g[n] \o <<t>>
                   /\ ToSet(Visit[p]) = ToSet(g[n]) \cup {t}
        BY VisitUnfolds
    <2>2. n \in Nat /\ t \in DOMAIN heap /\ p[2] \in SUBSET DOMAIN heap /\ p = <<t, p[2]>>
        BY DEF HeapOk, Places
    <2> DEFINE U == {i \in Nat : i <= n => OperandsBefore(g[i], Y)}
    <2>3. 0 \in U
        <3>1. g[0] = << >>
            BY <2>1 DEF IsVisited
        <3>2. OperandsBefore(<< >>, Y)
            BY DEF OperandsBefore
        <3>3. QED  BY <3>1, <3>2
    <2>4. ASSUME NEW i \in Nat, i \in U PROVE i + 1 \in U
        <3>1. SUFFICES ASSUME i + 1 <= n PROVE OperandsBefore(g[i + 1], Y)
            OBVIOUS
        <3> DEFINE x == heap[t].ops[i + 1]
        <3>2. i < n /\ OperandsBefore(g[i], Y)
            BY <2>2, <2>4, <3>1
        <3>3. g[i] \in Orders
            BY <2>1, <3>2, NextUnfolds
        <3>4. CASE Skips(p, g[i], g[i + 1], x)
            BY <3>2, <3>4 DEF Skips
        <3>5. ASSUME NEW q \in Places, Adds(p, g[i], g[i + 1], x, q)
              PROVE  OperandsBefore(g[i + 1], Y)
            <4>1. /\ q[2] = Y \cup ToSet(g[i]) /\ Unmarked(q) < Unmarked(p)
                  /\ g[i + 1] = g[i] \o Visit[q] /\ Visit[q] \in Orders
                BY <3>5 DEF Adds, Marked
            <4>2. OperandsBefore(Visit[q], q[2])
                BY <1>1, <4>1
            <4>3. q[2] \subseteq Y \cup ToSet(g[i])
                BY <4>1
            <4> HIDE DEF Y
            <4>4. OperandsBefore(g[i] \o Visit[q], Y)
                BY <3>2, <3>3, <4>1, <4>2, <4>3, JoinedBefore DEF Orders
            <4>5. QED  BY <4>1, <4>4
        <3>6. QED  BY <2>1, <3>2, <3>4, <3>5, NextUnfolds
    <2>5. Nat \subseteq U
        <3> HIDE DEF U
        <3>1. QED  BY <2>3, <2>4, NatSetInduction
    <2>6. PICK v \in Orders : v = g[n] /\ OperandsBefore(v, Y)
        <3>1. \A i \in Nat : i <= n => OperandsBefore(g[i], Y)
            BY <2>5
        <3>2. g[n] \in Orders
            BY <2>1, <2>2 DEF IsVisited
        <3> HIDE DEF n, Y
        <3>3. QED  BY <2>2, <3>1, <3>2
    <2>7. ToSet(Visit[p]) \subseteq Below(t)
        BY <2>2, BelowIsLeast
    <2>8. \A u \in ToSet(v) \cup {t} : t \notin OperandsOf(u)
        BY <2>1, <2>2, <2>6, <2>7, NoWayUp
    <2>9. OperandsBefore(v, p[2])
        <3>1. \A j \in DOMAIN v : v[j] \in ToSet(v)
            BY DEF ToSet
        <3>2. QED  BY <2>6, <2>8, <3>1 DEF OperandsBefore
    <2>10. OperandsBefore(<<t>>, p[2] \cup ToSet(v))
        <3>1. HasOperands(ToSet(Visit[p]), p[2])
            BY VisitCloses
        <3>2. OperandsOf(t) \subseteq ToSet(v) \cup {t} \cup p[2]
            <4>1. \A i \in DOMAIN heap[t].ops :
                     heap[t].ops[i] \in ToSet(v) \cup {t} \cup p[2] \cup {Null}
                BY <2>1, <2>6, <3>1 DEF HasOperands
            <4> HIDE DEF t
            <4>2. QED  BY <4>1 DEF OperandsOf, ToSet
        <3>3. OperandsOf(t) \subseteq p[2] \cup ToSet(v)
            BY <2>8, <3>2
        <3>4. \A j \in DOMAIN <<t>> : <<t>>[j] = t
            OBVIOUS
        <3>5. QED  BY <3>3, <3>4 DEF OperandsBefore
    <2>11. OperandsBefore(v \o <<t>>, p[2])
        <3>1. v \in Seq(DOMAIN heap) /\ <<t>> \in Seq(DOMAIN heap)
            BY <2>2 DEF Orders
        <3>2. PICK last \in Seq(DOMAIN heap) : last = <<t>>
            BY <3>1
        <3>3. OperandsBefore(last, p[2] \cup ToSet(v))
            BY <2>10, <3>2
        <3>4. OperandsBefore(v \o last, p[2])
            BY <2>9, <3>1, <3>3, JoinedBefore
        <3>5. QED  BY <3>2, <3>4
    <2>12. QED  BY <2>1, <2>6, <2>11
<1>2. Places \subseteq T
    <2> HIDE DEF T
    <2>1. QED  BY <1>1, PlaceInduction
<1>3. QED  BY <1>2

LEMMA PostOrderIs ==
    ASSUME HeapOk, partialDefs \in Seq(0 .. Len(heap))
    PROVE  /\ PostOrder \in Orders
           /\ \A u \in ToSet(PostOrder) : Null \notin ToSet(heap[u].ops)
           /\ Acyclic => OperandsBefore(PostOrder, {})
<1> DEFINE n == Len(partialDefs)
           Complete(v) == \A u \in ToSet(v) : Null \notin ToSet(heap[u].ops)
           Good(v) == v \in Orders /\ Complete(v) /\ (Acyclic => OperandsBefore(v, {}))
<1>1. PICK g : AreVisited(g)
    BY RootsFold
<1>2. n \in Nat /\ \A i \in 1 .. n : partialDefs[i] \in 0 .. Len(heap)
    OBVIOUS
<1>3. ASSUME NEW v \in Orders, Good(v), NEW t \in 0 .. Len(heap)
      PROVE  Good(RootNext(v, t))
    <2>1. CASE IsRoot(t) /\ FullyDefined(t)
        <3>1. t \in DOMAIN heap /\ ToSet(v) \in SUBSET DOMAIN heap
            BY <2>1, SetOfOrder DEF IsRoot, HeapOk, Null
        <3>2. PICK p \in Places : p = <<t, ToSet(v)>>
            BY <3>1 DEF Places
        <3>3. Visit[p] \in Orders /\ (Acyclic => OperandsBefore(Visit[p], ToSet(v)))
            BY <3>2, VisitDefined, VisitOrdered
        <3>4. ToSet(Visit[p]) \subseteq Below(t)
            BY <3>1, <3>2, BelowIsLeast
        <3>5. Complete(Visit[p])
            BY <2>1, <3>4 DEF FullyDefined, Below
        <3>6. RootNext(v, t) = v \o Visit[p]
            BY <2>1, <3>2 DEF RootNext
        <3>7. v \o Visit[p] \in Orders /\ ToSet(v \o Visit[p]) = ToSet(v) \cup ToSet(Visit[p])
            BY <3>3, SetOfJoined DEF Orders
        <3>8. Complete(v \o Visit[p])
            BY <1>3, <3>5, <3>7
        <3>9. ASSUME Acyclic PROVE OperandsBefore(v \o Visit[p], {})
            <4>1. v \in Seq(DOMAIN heap) /\ Visit[p] \in Seq(DOMAIN heap)
                BY <3>3 DEF Orders
            <4>2. OperandsBefore(v, {}) /\ OperandsBefore(Visit[p], ToSet(v))
                BY <1>3, <3>3, <3>9
            <4>3. QED  BY <4>1, <4>2, JoinedBefore
        <3>10. QED  BY <3>6, <3>7, <3>8, <3>9
    <2>2. CASE ~(IsRoot(t) /\ FullyDefined(t))
        BY <1>3, <2>2 DEF RootNext
    <2>3. QED  BY <2>1, <2>2
<1>4. Good(<< >>)
    BY EmptySeq DEF Orders, ToSet, OperandsBefore
<1> HIDE DEF Good
<1> DEFINE T == {i \in Nat : i <= n => Good(g[i])}
<1>5. 0 \in T
    BY <1>1, <1>4 DEF AreVisited
<1>6. ASSUME NEW i \in Nat, i \in T PROVE i + 1 \in T
    <2>1. SUFFICES ASSUME i + 1 <= n PROVE Good(g[i + 1])
        OBVIOUS
    <2>2. /\ i + 1 \in 1 .. n /\ (i + 1) - 1 = i /\ i \in 0 .. n
          /\ partialDefs[i + 1] \in 0 .. Len(heap) /\ Good(g[i])
        BY <1>2, <1>6, <2>1
    <2>3. g[i] \in Orders /\ g[i + 1] = RootNext(g[i], partialDefs[i + 1])
        BY <1>1, <2>2 DEF AreVisited
    <2>4. QED  BY <1>3, <2>2, <2>3
<1>7. Nat \subseteq T
    <2> HIDE DEF T
    <2>1. QED  BY <1>5, <1>6, NatSetInduction
<1>8. Good(g[n])
    BY <1>2, <1>7
<1>9. QED  BY <1>1, <1>8 DEF AreVisited, Good

-----------------------------------------------------------------------------
(* A file being read: the terms built so far have the arities of their        *)
(* symbols, and the symbol of a node is that of its term.                    *)
TermsOf(n) == [id : Nat, ops : Seq(0 .. n), uses : SUBSET (1 .. n)]

FileInv ==
    /\ heap \in Seq(TermsOf(Len(heap)))
    /\ \A t \in DOMAIN heap : /\ heap[t].id + 1 \in DOMAIN signatures
                              /\ Len(heap[t].ops) = signatures[heap[t].id + 1]
    /\ partialDefs \in Seq(0 .. Len(heap))
    /\ local \in [Nodes -> Nat]
    /\ \A n \in Nodes : TermOf(n) # Null => heap[TermOf(n)].id = local[n]

LEMMA FileIsHeap ==
    ASSUME FileInv
    PROVE  HeapOk /\ \A t \in DOMAIN heap : heap[t] \in TermsOf(Len(heap))
<1>1. Len(heap) \in Nat /\ DOMAIN heap = 1 .. Len(heap)
      /\ \A t \in DOMAIN heap : heap[t] \in TermsOf(Len(heap))
    BY DEF FileInv
<1>2. \A t \in DOMAIN heap : heap[t].ops \in Seq(0 .. Len(heap))
    BY <1>1 DEF TermsOf
<1>3. QED  BY <1>1, <1>2 DEF HeapOk

LEMMA TheNodes ==
    /\ Nodes \subseteq Nat
    /\ \A l \in Lines("V") : l.node \in Nodes
    /\ \A l \in Lines("E") : l.from \in Nodes /\ l.to \in Nodes /\ l.port \in Nat
<1>1. \A l \in Lines("V") : l.node \in Nodes /\ l.node \in Nat
    BY FilesAssumption DEF Nodes
<1>2. \A l \in Lines("E") : l.from \in Nodes /\ l.to \in Nodes
                            /\ l.from \in Nat /\ l.to \in Nat /\ l.port \in Nat
    BY FilesAssumption DEF Nodes
<1>3. Nodes \subseteq Nat
    BY <1>1, <1>2 DEF Nodes
<1>4. QED  BY <1>1, <1>2, <1>3

(* A symbol keeps its arity when others are entered.                         *)
LEMMA EnterKeeps ==
    ASSUME NamesInv, NEW name, NEW arity \in Nat, Enter(name, arity)
    PROVE  /\ \A i \in DOMAIN signatures : i \in DOMAIN signatures' /\ signatures'[i] = signatures[i]
           /\ ~HasName(name) =>
                 /\ IdFor(name) + 1 \in DOMAIN signatures'
                 /\ signatures'[IdFor(name) + 1] = arity
                 /\ IdFor(name) \in Nat
<1>1. signatures \in Seq(Nat) /\ Len(signatures) = Len(names)
    BY DEF NamesInv
<1>2. CASE HasName(name)
    BY <1>2 DEF Enter
<1>3. CASE ~HasName(name)
    <2>1. signatures' = Append(signatures, arity) /\ IdFor(name) = Len(signatures)
        BY <1>1, <1>3 DEF Enter, IdFor
    <2>2. QED  BY <1>1, <2>1
<1>4. QED  BY <1>2, <1>3

LEMMA IdHasArity ==
    ASSUME NamesInv, NEW name \in Names, NEW arity \in Nat,
           Enter(NameFor(name, arity), arity)
    PROVE  /\ IdFor(NameFor(name, arity)) \in Nat
           /\ IdFor(NameFor(name, arity)) + 1 \in DOMAIN signatures'
           /\ signatures'[IdFor(NameFor(name, arity)) + 1] = arity
<1>0. PICK new : new = NameFor(name, arity)
    OBVIOUS
<1>1. CASE ~HasName(new)
    BY <1>0, <1>1, EnterKeeps
<1>2. CASE HasName(new)
    <2>1. PICK k \in Nat : new = Longer(name, k) /\ ~Clashes(name, arity, k)
        BY <1>0, NameForIsFirst DEF NamesInv
    <2>2. IndexOf(new) \in DOMAIN names
        BY <1>2 DEF HasName, IndexOf
    <2>3. signatures[IndexOf(new)] = arity
        BY <1>2, <2>1 DEF Clashes
    <2>4. signatures' = signatures /\ IdFor(new) = IndexOf(new) - 1
        BY <1>0, <1>2 DEF Enter, IdFor
    <2>5. IndexOf(new) \in 1 .. Len(signatures) /\ DOMAIN signatures = 1 .. Len(signatures)
          /\ Len(signatures) \in Nat
        BY <2>2 DEF NamesInv
    <2>6. IdFor(new) \in Nat /\ IdFor(new) + 1 = IndexOf(new)
        BY <2>4, <2>5
    <2>7. QED  BY <1>0, <2>3, <2>4, <2>5, <2>6
<1>3. QED  BY <1>1, <1>2

LEMMA TermsOfGrow ==
    ASSUME NEW n \in Nat
    PROVE  TermsOf(n) \subseteq TermsOf(n + 1)
<1>1. 0 .. n \subseteq 0 .. n + 1 /\ SUBSET (1 .. n) \subseteq SUBSET (1 .. n + 1)
    OBVIOUS
<1>2. Seq(0 .. n) \subseteq Seq(0 .. n + 1)
    BY <1>1
<1>3. QED  BY <1>1, <1>2 DEF TermsOf

(* A V line that is accepted. *)
LEMMA DeclareKeepsFile ==
    ASSUME FileInv, NamesInv, NEW l \in Lines("V"), NEW id \in Nat,
           Enter(NameFor(l.name, l.arity), l.arity),
           id = IdFor(NameFor(l.name, l.arity)),
           local' = [local EXCEPT ![l.node] = id],
           heap' = Append(heap, [id |-> id, ops |-> [i \in 1 .. l.arity |-> Null],
                                 uses |-> {}]),
           \/ /\ l.node + 1 \in DOMAIN partialDefs
              /\ partialDefs' = [partialDefs EXCEPT ![l.node + 1] = Len(heap')]
           \/ l.node + 1 \notin DOMAIN partialDefs /\ partialDefs' = partialDefs
    PROVE  FileInv'
<1> DEFINE L == Len(heap)
           new == [id |-> id, ops |-> [i \in 1 .. l.arity |-> Null], uses |-> {}]
<1>1. /\ l.name \in Names /\ l.arity \in Nat /\ l.node \in Nat /\ l.node \in Nodes
    <2>1. /\ l.name = <<l.name[1], l.name[2]>> /\ l.name[2] \in Nat
          /\ l.node \in Nat /\ l.arity \in Nat
        BY FilesAssumption
    <2>2. QED  BY <2>1, TheNodes DEF Names, Bases
<1>2. L \in Nat /\ DOMAIN heap = 1 .. L /\ \A t \in DOMAIN heap : heap[t] \in TermsOf(L)
    BY FileIsHeap DEF HeapOk
<1>3. new \in TermsOf(L + 1) /\ Len(new.ops) = l.arity /\ new.id = id
    <2>1. [i \in 1 .. l.arity |-> Null] \in Seq(0 .. L + 1)
          /\ Len([i \in 1 .. l.arity |-> Null]) = l.arity
        BY <1>1, <1>2 DEF Null
    <2>2. QED  BY <1>2, <2>1 DEF TermsOf
<1> HIDE DEF new
<1>4. /\ heap' = Append(heap, new) /\ Len(heap') = L + 1 /\ DOMAIN heap' = 1 .. L + 1
      /\ heap' \in Seq(TermsOf(L + 1)) /\ heap'[L + 1] = new
      /\ \A t \in DOMAIN heap : t \in DOMAIN heap' /\ heap'[t] = heap[t]
    <2>1. heap' = Append(heap, new)
        BY DEF new
    <2>2. heap \in Seq(TermsOf(L + 1))
        BY <1>2, TermsOfGrow DEF FileInv
    <2> HIDE DEF L
    <2>3. QED  BY <1>2, <1>3, <2>1, <2>2 DEF L
<1>5. /\ \A i \in DOMAIN signatures : i \in DOMAIN signatures' /\ signatures'[i] = signatures[i]
      /\ id + 1 \in DOMAIN signatures' /\ signatures'[id + 1] = l.arity
    BY <1>1, EnterKeeps, IdHasArity
<1>6. \A t \in DOMAIN heap' : /\ heap'[t].id + 1 \in DOMAIN signatures'
                              /\ Len(heap'[t].ops) = signatures'[heap'[t].id + 1]
    <2>1. SUFFICES ASSUME NEW t \in DOMAIN heap'
                   PROVE  /\ heap'[t].id + 1 \in DOMAIN signatures'
                          /\ Len(heap'[t].ops) = signatures'[heap'[t].id + 1]
        OBVIOUS
    <2>2. CASE t \in DOMAIN heap
        BY <1>4, <1>5, <2>2 DEF FileInv
    <2>3. CASE t \notin DOMAIN heap
        <3>1. t = L + 1
            BY <1>2, <1>4, <2>3
        <3>2. QED  BY <1>3, <1>4, <1>5, <3>1
    <2>4. QED  BY <2>2, <2>3
<1>7. partialDefs \in Seq(0 .. L + 1) /\ DOMAIN partialDefs' = DOMAIN partialDefs
      /\ partialDefs' \in Seq(0 .. L + 1)
    <2>1. partialDefs \in Seq(0 .. L)
        BY DEF FileInv
    <2>2. 0 .. L \subseteq 0 .. L + 1 /\ L + 1 \in 0 .. L + 1
        BY <1>2
    <2>3. partialDefs \in Seq(0 .. L + 1)
        BY <2>1, <2>2
    <2>4. QED  BY <1>4, <2>2, <2>3
<1>8. local' \in [Nodes -> Nat]
    BY DEF FileInv
<1>9. ASSUME NEW n \in Nodes, TermOf(n)' # Null
      PROVE  heap'[TermOf(n)'].id = local'[n]
    <2>0. n \in Nat
        BY TheNodes
    <2>1. n + 1 \in DOMAIN partialDefs /\ TermOf(n)' = partialDefs'[n + 1]
        BY <1>7, <1>9 DEF TermOf
    <2>2. CASE n = l.node
        <3>1. TermOf(n)' = L + 1
            BY <1>4, <2>1, <2>2
        <3>2. local'[n] = id
            BY <2>2 DEF FileInv
        <3>3. QED  BY <1>3, <1>4, <3>1, <3>2
    <2>3. CASE n # l.node
        <3>1. partialDefs'[n + 1] = partialDefs[n + 1]
            BY <1>1, <2>0, <2>1, <2>3
        <3>2. TermOf(n) = TermOf(n)' /\ TermOf(n) \in DOMAIN heap
            <4>1. TermOf(n) = TermOf(n)'
                BY <2>1, <3>1 DEF TermOf
            <4>2. partialDefs[n + 1] \in 0 .. L
                BY <2>1 DEF FileInv
            <4>3. QED  BY <1>2, <1>9, <2>1, <3>1, <4>1, <4>2 DEF Null
        <3>3. heap[TermOf(n)].id = local[n]
            BY <1>9, <3>2 DEF FileInv
        <3>4. local'[n] = local[n]
            BY <2>3 DEF FileInv
        <3>5. QED  BY <1>4, <3>2, <3>3, <3>4
    <2>4. QED  BY <2>2, <2>3
<1>10. QED  BY <1>4, <1>6, <1>7, <1>8, <1>9 DEF FileInv

(* An E line that is accepted: the port exists in the term too. *)
LEMMA EdgeKeepsFile ==
    ASSUME FileInv, NamesInv, NEW l \in Lines("E"),
           CheckNodeInPort(l.to, l.port),
           TermOf(l.from) # Null, TermOf(l.to) # Null,
           RegisterEdge(TermOf(l.from), TermOf(l.to), l.port),
           UNCHANGED <<partialDefs, local, signatures>>
    PROVE  FileInv'
<1> DEFINE L == Len(heap)
           src == TermOf(l.from)
           dst == TermOf(l.to)
<1>1. L \in Nat /\ DOMAIN heap = 1 .. L /\ \A t \in DOMAIN heap : heap[t] \in TermsOf(L)
    BY FileIsHeap DEF HeapOk
<1>2. l.from \in Nodes /\ l.to \in Nodes /\ l.port \in Nat
    BY TheNodes
<1>3. src \in 1 .. L /\ dst \in 1 .. L
    <2>1. \A n \in Nodes : TermOf(n) # Null => TermOf(n) \in 1 .. L
        <3>1. partialDefs \in Seq(0 .. L)
            BY DEF FileInv
        <3>2. QED  BY <1>1, <3>1 DEF TermOf, Null
    <2>2. QED  BY <1>2, <2>1
<1>4. l.port + 1 \in DOMAIN heap[dst].ops
    <2>1. heap[dst].id = local[l.to]
        BY <1>2 DEF FileInv
    <2>2. /\ heap[dst].id + 1 \in DOMAIN signatures
          /\ Len(heap[dst].ops) = signatures[heap[dst].id + 1]
        BY <1>1, <1>3 DEF FileInv
    <2>3. l.port < Len(heap[dst].ops)
        BY <2>1, <2>2 DEF CheckNodeInPort
    <2>4. heap[dst].ops \in Seq(0 .. L)
        BY <1>1, <1>3 DEF TermsOf
    <2>5. QED  BY <1>2, <2>3, <2>4
<1> DEFINE edge == [heap EXCEPT ![dst].ops[l.port + 1] = src]
<1>5. /\ DOMAIN edge = 1 .. L
      /\ \A t \in 1 .. L : edge[t] \in TermsOf(L) /\ edge[t].id = heap[t].id
                           /\ Len(edge[t].ops) = Len(heap[t].ops)
    <2>1. DOMAIN edge = 1 .. L
        BY <1>1
    <2>2. ASSUME NEW t \in 1 .. L
          PROVE  edge[t] \in TermsOf(L) /\ edge[t].id = heap[t].id
                 /\ Len(edge[t].ops) = Len(heap[t].ops)
        <3>1. heap[t].ops \in Seq(0 .. L) /\ heap[t] \in TermsOf(L)
            BY <1>1 DEF TermsOf
        <3>2. CASE t # dst
            <4>1. edge[t] = heap[t]
                BY <1>1, <3>2
            <4>2. QED  BY <3>1, <4>1
        <3>3. CASE t = dst
            <4> DEFINE ops == [heap[t].ops EXCEPT ![l.port + 1] = src]
            <4>1. edge[t] = [heap[t] EXCEPT !.ops = ops]
                BY <1>1, <1>3, <3>3
            <4>2. ops \in Seq(0 .. L) /\ Len(ops) = Len(heap[t].ops)
                BY <1>3, <1>4, <3>1, <3>3
            <4> HIDE DEF ops, edge
            <4>3. QED  BY <3>1, <4>1, <4>2 DEF TermsOf
        <3>4. QED  BY <3>2, <3>3
    <2>3. QED  BY <2>1, <2>2
<1>6. heap' = [edge EXCEPT ![src].uses = @ \cup {dst}]
    BY DEF RegisterEdge
<1> HIDE DEF edge
<1>7. /\ DOMAIN heap' = 1 .. L
      /\ \A t \in 1 .. L : heap'[t] \in TermsOf(L) /\ heap'[t].id = edge[t].id
                           /\ heap'[t].ops = edge[t].ops
    <2>1. DOMAIN heap' = 1 .. L
        BY <1>5, <1>6
    <2>2. ASSUME NEW t \in 1 .. L
          PROVE  heap'[t] \in TermsOf(L) /\ heap'[t].id = edge[t].id
                 /\ heap'[t].ops = edge[t].ops
        <3>1. CASE t # src
            <4>1. heap'[t] = edge[t]
                BY <1>5, <1>6, <3>1
            <4>2. QED  BY <1>5, <4>1
        <3>2. CASE t = src
            <4>1. heap'[t] = [edge[t] EXCEPT !.uses = edge[t].uses \cup {dst}]
                BY <1>5, <1>6, <3>2
            <4>2. edge[t] \in TermsOf(L)
                BY <1>5
            <4>3. QED  BY <1>3, <4>1, <4>2 DEF TermsOf
        <3>3. QED  BY <3>1, <3>2
    <2>3. QED  BY <2>1, <2>2
<1>8. heap' \in Seq(TermsOf(L)) /\ Len(heap') = L
    <2>1. heap' = [t \in 1 .. L |-> heap'[t]]
        <3>1. \E f : heap' = [t \in DOMAIN f |-> heap'[t]]
            <4>1. heap' = [t \in DOMAIN edge |-> heap'[t]]
                BY <1>6
            <4>2. QED  BY <4>1
        <3>2. QED  BY <1>6, <1>7
    <2>2. [t \in 1 .. L |-> heap'[t]] \in Seq(TermsOf(L))
        BY <1>1, <1>7
    <2>3. Len([t \in 1 .. L |-> heap'[t]]) = L
        BY <1>1
    <2>4. QED  BY <2>1, <2>2, <2>3
<1>9. \A t \in DOMAIN heap' : /\ heap'[t].id + 1 \in DOMAIN signatures'
                              /\ Len(heap'[t].ops) = signatures'[heap'[t].id + 1]
    BY <1>1, <1>5, <1>7 DEF FileInv
<1>10. \A n \in Nodes : TermOf(n)' # Null => heap'[TermOf(n)'].id = local'[n]
    <2>1. SUFFICES ASSUME NEW n \in Nodes, TermOf(n)' # Null
                   PROVE  heap'[TermOf(n)'].id = local'[n]
        OBVIOUS
    <2>2. TermOf(n)' = TermOf(n) /\ local' = local
        BY DEF TermOf
    <2>3. heap[TermOf(n)].id = local[n]
        BY <2>1, <2>2 DEF FileInv
    <2>4. TermOf(n) \in 1 .. L
        <3>1. partialDefs \in Seq(0 .. L)
            BY DEF FileInv
        <3>2. n \in Nat
            BY TheNodes
        <3>3. QED  BY <1>1, <2>1, <2>2, <3>1, <3>2 DEF TermOf, Null
    <2>5. QED  BY <1>5, <1>7, <2>2, <2>3, <2>4
<1>11. QED  BY <1>8, <1>9, <1>10 DEF FileInv

LEMMA FileStep ==
    ASSUME FileInv, NamesInv, [Next]_vars
    PROVE  FileInv'
<1>1. ASSUME UNCHANGED <<heap, partialDefs, local, signatures>> PROVE FileInv'
    BY <1>1 DEF FileInv, TermOf
<1>2. ASSUME NEW m \in Nat, partialDefs' = [i \in 1 .. m |-> Null],
             UNCHANGED <<heap, local, signatures>>
      PROVE  FileInv'
    <2>1. Len(heap) \in Nat
        BY FileIsHeap DEF HeapOk
    <2>2. partialDefs' \in Seq(0 .. Len(heap))
        BY <1>2, <2>1 DEF Null
    <2>3. \A n \in Nodes : TermOf(n)' = Null
        BY <1>2 DEF TermOf
    <2>4. QED  BY <1>2, <2>2, <2>3 DEF FileInv
<1>3. CASE ReadN
    <2>1. Head(input) \in AllLines /\ Head(input).kind = "N"
        BY <1>3, TheLine DEF NamesInv, ReadN, Reading
    <2>2. Head(input).nodes + 1 \in Nat
        BY <2>1, FilesAssumption DEF Lines
    <2>3. QED  BY <1>2, <1>3, <2>2 DEF ReadN, table
<1>4. CASE ReadV
    <2> DEFINE l == Head(input)
               id == IdFor(NameFor(l.name, l.arity))
    <2>1. l \in Lines("V") /\ l.name \in Names /\ l.arity \in Nat
        BY <1>4, TheLine DEF NamesInv, ReadV, Reading, Lines
    <2>2. CASE UNCHANGED <<file, table>>
        BY <1>1, <2>2 DEF file, table
    <2>3. CASE ~UNCHANGED <<file, table>>
        <3>1. /\ Enter(NameFor(l.name, l.arity), l.arity)
              /\ local' = [local EXCEPT ![l.node] = id]
              /\ heap' = Append(heap, [id |-> id, ops |-> [i \in 1 .. l.arity |-> Null],
                                       uses |-> {}])
              /\ \/ /\ l.node + 1 \in DOMAIN partialDefs
                    /\ partialDefs' = [partialDefs EXCEPT ![l.node + 1] = Len(heap')]
                 \/ l.node + 1 \notin DOMAIN partialDefs /\ partialDefs' = partialDefs
            BY <1>4, <2>3 DEF ReadV, Exit
        <3>2. id \in Nat
            BY <2>1, <3>1, IdHasArity
        <3> HIDE DEF l
        <3>3. QED  BY <2>1, <3>1, <3>2, DeclareKeepsFile
    <2>4. QED  BY <2>2, <2>3
<1>5. CASE ReadE
    <2> DEFINE l == Head(input)
    <2>1. l \in Lines("E")
        BY <1>5, TheLine DEF NamesInv, ReadE, Reading, Lines
    <2>2. CASE UNCHANGED <<heap, partialDefs, local, signatures>>
        BY <1>1, <2>2
    <2>3. CASE ~UNCHANGED <<heap, partialDefs, local, signatures>>
        <3>1. /\ CheckNodeInPort(l.to, l.port)
              /\ TermOf(l.from) # Null /\ TermOf(l.to) # Null
              /\ RegisterEdge(TermOf(l.from), TermOf(l.to), l.port)
              /\ UNCHANGED <<partialDefs, local, signatures>>
            BY <1>5, <2>3 DEF ReadE, Exit, file, table
        <3> HIDE DEF l
        <3>2. QED  BY <2>1, <3>1, EdgeKeepsFile
    <2>4. QED  BY <2>2, <2>3
<1>6. CASE Cleanup
    <2>1. /\ local' = [n \in Nodes |-> 0] /\ partialDefs' = << >> /\ heap' = << >>
          /\ signatures' = signatures
        BY <1>6 DEF Cleanup, table
    <2>2. \A n \in Nodes : TermOf(n)' = Null
        BY <2>1 DEF TermOf
    <2>3. heap' \in Seq(TermsOf(Len(heap'))) /\ partialDefs' \in Seq(0 .. Len(heap'))
          /\ DOMAIN heap' = {} /\ local' \in [Nodes -> Nat]
        BY <2>1, EmptySeq
    <2>4. QED  BY <2>2, <2>3 DEF FileInv
<1>7. CASE OpenFile \/ EndOfFile \/ VisitNode \/ Terminated \/ UNCHANGED vars
    BY <1>1, <1>7 DEF OpenFile, EndOfFile, VisitNode, Terminated, vars, file, table
<1>8. QED  BY <1>3, <1>4, <1>5, <1>6, <1>7 DEF Next

-----------------------------------------------------------------------------
(* The term table: hash-consed, arities kept, depths right.                  *)
Entries(n) == [id : Nat, ops : Seq(1 .. n), depth : Nat]

DepthsAreRight(x) ==
    /\ \A i \in DOMAIN tm[x].ops : tm[tm[x].ops[i]].depth < tm[x].depth
    /\ tm[x].depth > 0 =>
          \E i \in DOMAIN tm[x].ops : tm[tm[x].ops[i]].depth = tm[x].depth - 1

TableInv ==
    /\ tm \in Seq(Entries(Len(tm)))
    /\ \A x \in DOMAIN tm : /\ tm[x].id + 1 \in DOMAIN signatures
                            /\ Len(tm[x].ops) = signatures[tm[x].id + 1]
    /\ \A x, y \in DOMAIN tm : tm[x].id = tm[y].id /\ tm[x].ops = tm[y].ops => x = y
    /\ \A x \in DOMAIN tm : DepthsAreRight(x)

LEMMA TheEntries ==
    ASSUME TableInv
    PROVE  /\ Len(tm) \in Nat /\ DOMAIN tm = 1 .. Len(tm)
           /\ \A x \in DOMAIN tm : /\ tm[x] \in Entries(Len(tm))
                                   /\ tm[x].id \in Nat /\ tm[x].depth \in Nat
                                   /\ tm[x].ops \in Seq(1 .. Len(tm))
<1>1. /\ Len(tm) \in Nat /\ DOMAIN tm = 1 .. Len(tm)
      /\ \A x \in DOMAIN tm : tm[x] \in Entries(Len(tm))
    BY DEF TableInv
<1>2. QED  BY <1>1 DEF Entries

LEMMA TableIsGraph ==
    ASSUME TableInv
    PROVE  TableIsTermGraph
<1> DEFINE D == DOMAIN tm
           graph == [id    |-> [x \in D |-> tm[x].id],
                     ops   |-> [x \in D |-> tm[x].ops],
                     depth |-> [x \in D |-> tm[x].depth]]
<1>1. \A x \in D : /\ graph.id[x] = tm[x].id /\ graph.ops[x] = tm[x].ops
                   /\ graph.depth[x] = tm[x].depth
    OBVIOUS
<1>2. /\ graph.id \in [D -> Nat] /\ graph.ops \in [D -> Seq(D)]
      /\ graph.depth \in [D -> Nat]
    BY TheEntries
<1> HIDE DEF graph
<1>3. ASSUME NEW t \in D, NEW u \in D, graph.id[t] = graph.id[u]
      PROVE  /\ Len(graph.ops[t]) = Len(graph.ops[u])
             /\ graph.ops[t] = graph.ops[u] => t = u
    <2>1. /\ Len(tm[t].ops) = signatures[tm[t].id + 1]
          /\ Len(tm[u].ops) = signatures[tm[u].id + 1]
          /\ tm[t].id = tm[u].id /\ tm[t].ops = tm[u].ops => t = u
        BY DEF TableInv
    <2>2. tm[t].id = tm[u].id
        BY <1>1, <1>3
    <2> HIDE DEF D
    <2>3. Len(tm[t].ops) = Len(tm[u].ops)
        BY <2>1, <2>2
    <2>4. QED  BY <1>1, <2>1, <2>2, <2>3
<1>4. ASSUME NEW t \in D
      PROVE  /\ \A i \in DOMAIN graph.ops[t] : graph.depth[graph.ops[t][i]] < graph.depth[t]
             /\ graph.depth[t] > 0 =>
                   \E i \in DOMAIN graph.ops[t] :
                      graph.depth[graph.ops[t][i]] = graph.depth[t] - 1
    <2>1. \A i \in DOMAIN tm[t].ops : tm[t].ops[i] \in D
        BY TheEntries
    <2>2. DepthsAreRight(t)
        BY DEF TableInv
    <2>3. QED  BY <1>1, <2>1, <2>2 DEF DepthsAreRight
<1>5. IsTermGraph(D, graph)
    <2> HIDE DEF D
    <2>1. QED  BY <1>2, <1>3, <1>4 DEF IsTermGraph
<1>6. QED  BY <1>5 DEF TableIsTermGraph, graph

LEMMA DepthOfOperands ==
    ASSUME TableInv, NEW ops \in Seq(1 .. Len(tm))
    PROVE  /\ DepthOf(ops) \in Nat
           /\ \A i \in DOMAIN ops : tm[ops[i]].depth < DepthOf(ops)
           /\ DepthOf(ops) > 0 => \E i \in DOMAIN ops : tm[ops[i]].depth = DepthOf(ops) - 1
<1>1. /\ DOMAIN tm = 1 .. Len(tm) /\ \A x \in DOMAIN tm : tm[x].depth \in Nat
    BY TheEntries
<1>2. CASE ops = << >>
    <2>1. DOMAIN ops = {} /\ DepthOf(ops) = 0
        BY <1>2 DEF DepthOf
    <2>2. QED  BY <2>1
<1>3. CASE ops # << >>
    <2> DEFINE S == {tm[ops[i]].depth : i \in DOMAIN ops}
               f == [i \in 1 .. Len(ops) |-> tm[ops[i]].depth]
    <2>1. /\ Len(ops) \in Nat /\ DOMAIN ops = 1 .. Len(ops)
          /\ \A i \in DOMAIN ops : ops[i] \in DOMAIN tm /\ tm[ops[i]].depth \in Nat
        BY <1>1
    <2>2. f \in [1 .. Len(ops) -> Nat] /\ \A i \in DOMAIN ops : f[i] = tm[ops[i]].depth
        BY <2>1
    <2> HIDE DEF f
    <2>3. PICK m \in Nat : \A i \in 1 .. Len(ops) : f[i] <= m
        BY <2>1, <2>2, FiniteBound
    <2>4. S # {} /\ S \in SUBSET (0 .. m)
        <3>1. \A i \in DOMAIN ops : tm[ops[i]].depth \in 0 .. m
            BY <2>1, <2>2, <2>3
        <3>2. 1 \in DOMAIN ops
            BY <1>3, <2>1
        <3>3. QED  BY <3>1, <3>2
    <2> HIDE DEF S
    <2>5. Max(S) \in S /\ \A x \in S : x <= Max(S)
        BY <2>4, MaxIsGreatest
    <2>6. DepthOf(ops) = Max(S) + 1
        BY <1>3 DEF DepthOf, S
    <2>7. Max(S) \in Nat /\ \A i \in DOMAIN ops : tm[ops[i]].depth \in S
        BY <2>4, <2>5 DEF S
    <2>8. PICK j \in DOMAIN ops : tm[ops[j]].depth = Max(S)
        BY <2>5 DEF S
    <2>9. DepthOf(ops) \in Nat /\ DepthOf(ops) - 1 = Max(S)
        BY <2>6, <2>7
    <2>10. \A i \in DOMAIN ops : tm[ops[i]].depth < DepthOf(ops)
        BY <2>1, <2>5, <2>6, <2>7
    <2>11. QED  BY <2>8, <2>9, <2>10
<1>4. QED  BY <1>2, <1>3

(* A term that is not found gets the next index. *)
LEMMA AppendKeepsTable ==
    ASSUME TableInv, NEW id \in Nat, NEW ops \in Seq(1 .. Len(tm)),
           id + 1 \in DOMAIN signatures, Len(ops) = signatures[id + 1],
           \A x \in DOMAIN tm : ~ (tm[x].id = id /\ tm[x].ops = ops),
           tm' = Append(tm, [id |-> id, ops |-> ops, depth |-> DepthOf(ops)]),
           UNCHANGED signatures
    PROVE  TableInv'
<1> DEFINE L == Len(tm)
           new == [id |-> id, ops |-> ops, depth |-> DepthOf(ops)]
<1>1. /\ L \in Nat /\ DOMAIN tm = 1 .. L
      /\ \A x \in DOMAIN tm : tm[x] \in Entries(L) /\ tm[x].ops \in Seq(1 .. L)
    BY TheEntries
<1>2. Entries(L) \subseteq Entries(L + 1)
    <2>1. Seq(1 .. L) \subseteq Seq(1 .. L + 1)
        <3>1. 1 .. L \subseteq 1 .. L + 1
            BY <1>1
        <3>2. QED  BY <3>1
    <2>2. QED  BY <2>1 DEF Entries
<1>3. new \in Entries(L + 1) /\ new.id = id /\ new.ops = ops /\ new.depth = DepthOf(ops)
    <2>1. new \in Entries(L)
        BY DepthOfOperands DEF Entries
    <2>2. QED  BY <1>2, <2>1
<1>4. tm' = Append(tm, new)
    OBVIOUS
<1> HIDE DEF new
<1>5. /\ Len(tm') = L + 1 /\ DOMAIN tm' = 1 .. L + 1
      /\ tm' \in Seq(Entries(L + 1)) /\ tm'[L + 1] = new
      /\ \A x \in DOMAIN tm : x \in DOMAIN tm' /\ tm'[x] = tm[x]
    <2>1. tm \in Seq(Entries(L + 1))
        BY <1>2 DEF TableInv
    <2> HIDE DEF L
    <2>2. QED  BY <1>1, <1>3, <1>4, <2>1 DEF L
<1>6. \A x \in DOMAIN tm' : x \in DOMAIN tm \/ x = L + 1
    BY <1>1, <1>5
<1>7. \A x \in DOMAIN tm' : /\ tm'[x].id + 1 \in DOMAIN signatures'
                            /\ Len(tm'[x].ops) = signatures'[tm'[x].id + 1]
    <2>1. \A x \in DOMAIN tm : /\ tm[x].id + 1 \in DOMAIN signatures
                              /\ Len(tm[x].ops) = signatures[tm[x].id + 1]
        BY DEF TableInv
    <2>2. \A x \in DOMAIN tm : tm'[x] = tm[x]
        BY <1>5
    <2>3. tm'[L + 1].id = id /\ tm'[L + 1].ops = ops
        BY <1>3, <1>5
    <2> HIDE DEF L
    <2>4. QED  BY <1>6, <2>1, <2>2, <2>3
<1>8. ASSUME NEW x \in DOMAIN tm', NEW y \in DOMAIN tm',
             tm'[x].id = tm'[y].id, tm'[x].ops = tm'[y].ops
      PROVE  x = y
    <2>1. \A v, w \in DOMAIN tm : tm[v].id = tm[w].id /\ tm[v].ops = tm[w].ops => v = w
        BY DEF TableInv
    <2>2. \A v \in DOMAIN tm : tm'[v] = tm[v] /\ ~(tm[v].id = id /\ tm[v].ops = ops)
        BY <1>5
    <2>3. tm'[L + 1].id = id /\ tm'[L + 1].ops = ops
        BY <1>3, <1>5
    <2> HIDE DEF L
    <2>4. CASE x \in DOMAIN tm /\ y \in DOMAIN tm
        <3>1. tm'[x] = tm[x] /\ tm'[y] = tm[y]
            BY <2>2, <2>4
        <3>2. QED  BY <1>8, <2>1, <2>4, <3>1
    <2>5. CASE x \in DOMAIN tm /\ y = L + 1
        <3>1. tm'[x] = tm[x] /\ ~(tm[x].id = id /\ tm[x].ops = ops)
            BY <2>2, <2>5
        <3>2. QED  BY <1>8, <2>3, <2>5, <3>1
    <2>6. CASE y \in DOMAIN tm /\ x = L + 1
        <3>1. tm'[y] = tm[y] /\ ~(tm[y].id = id /\ tm[y].ops = ops)
            BY <2>2, <2>6
        <3>2. QED  BY <1>8, <2>3, <2>6, <3>1
    <2>7. QED  BY <1>6, <2>4, <2>5, <2>6
<1>9. ASSUME NEW x \in DOMAIN tm' PROVE DepthsAreRight(x)'
    <2>1. CASE x \in DOMAIN tm
        <3>1. \A i \in DOMAIN tm[x].ops : tm[x].ops[i] \in DOMAIN tm
            BY <1>1, <2>1
        <3>2. DepthsAreRight(x)
            BY <2>1 DEF TableInv
        <3>3. QED  BY <1>5, <2>1, <3>1, <3>2 DEF DepthsAreRight
    <2>2. CASE x = L + 1
        <3>1. \A i \in DOMAIN ops : ops[i] \in DOMAIN tm
            BY <1>1
        <3>2. tm'[x].ops = ops /\ tm'[x].depth = DepthOf(ops)
            BY <1>3, <1>5, <2>2
        <3>3. \A i \in DOMAIN ops : tm'[ops[i]].depth = tm[ops[i]].depth
            BY <1>5, <3>1
        <3>4. /\ \A i \in DOMAIN ops : tm'[ops[i]].depth < DepthOf(ops)
              /\ DepthOf(ops) > 0 => \E i \in DOMAIN ops : tm'[ops[i]].depth = DepthOf(ops) - 1
            BY <3>3, DepthOfOperands
        <3>5. QED  BY <3>2, <3>4 DEF DepthsAreRight
    <2>3. QED  BY <1>6, <2>1, <2>2
<1>10. QED  BY <1>5, <1>7, <1>8, <1>9 DEF TableInv

-----------------------------------------------------------------------------
(* CSE at work: a translated term is in the table with its operands, and      *)
(* unless there is a cycle the operands of what is to be visited are         *)
(* translated or come first.                                                *)
Done == {t \in DOMAIN heap : translation[t] # Null}

IsTranslated(t) ==
    /\ Null \notin ToSet(heap[t].ops)
    /\ Null \notin ToSet(Translated(t))
    /\ tm[translation[t]].id = heap[t].id
    /\ tm[translation[t]].ops = Translated(t)

CseInv ==
    /\ pc = "cse" =>
          /\ cse \in Orders
          /\ translation \in [DOMAIN heap -> 0 .. Len(tm)]
          /\ \A u \in ToSet(cse) : Null \notin ToSet(heap[u].ops)
          /\ \A t \in Done : IsTranslated(t)
          /\ Acyclic => OperandsBefore(cse, Done)
    /\ pc = "invalidOrder" => ~Acyclic

LEMMA TheTranslation ==
    ASSUME FileInv, translation \in [DOMAIN heap -> 0 .. Len(tm)], Len(tm) \in Nat,
           NEW t \in DOMAIN heap, Null \notin ToSet(heap[t].ops)
    PROVE  /\ heap[t].ops \in Seq(1 .. Len(heap))
           /\ DOMAIN Translated(t) = DOMAIN heap[t].ops
           /\ Len(Translated(t)) = Len(heap[t].ops)
           /\ \A i \in DOMAIN heap[t].ops : /\ heap[t].ops[i] \in DOMAIN heap
                                            /\ Translated(t)[i] = translation[heap[t].ops[i]]
           /\ Null \notin ToSet(Translated(t)) => Translated(t) \in Seq(1 .. Len(tm))
<1> DEFINE seq == heap[t].ops
<1>1. /\ seq \in Seq(0 .. Len(heap)) /\ DOMAIN heap = 1 .. Len(heap) /\ Len(heap) \in Nat
    BY FileIsHeap DEF HeapOk
<1>2. \A i \in DOMAIN seq : seq[i] # 0
    BY DEF ToSet, Null
<1>3. seq \in Seq(1 .. Len(heap)) /\ Len(seq) \in Nat /\ DOMAIN seq = 1 .. Len(seq)
    <2> HIDE DEF seq
    <2>1. Len(seq) \in Nat /\ DOMAIN seq = 1 .. Len(seq)
          /\ \A i \in 1 .. Len(seq) : seq[i] \in 0 .. Len(heap)
        BY <1>1
    <2>2. \A i \in 1 .. Len(seq) : seq[i] \in 1 .. Len(heap)
        BY <1>1, <1>2, <2>1
    <2>3. seq \in Seq(1 .. Len(heap))
        BY <1>1, <2>1, <2>2
    <2>4. QED  BY <2>1, <2>3
<1>4. Translated(t) = [i \in 1 .. Len(seq) |-> translation[seq[i]]]
    BY <1>3 DEF Translated
<1> HIDE DEF seq
<1>5. Len(Translated(t)) = Len(seq) /\ DOMAIN Translated(t) = DOMAIN seq
    BY <1>3, <1>4
<1>6. \A i \in 1 .. Len(seq) : seq[i] \in DOMAIN heap /\ translation[seq[i]] \in 0 .. Len(tm)
    BY <1>1, <1>3
<1>7. ASSUME Null \notin ToSet(Translated(t)) PROVE Translated(t) \in Seq(1 .. Len(tm))
    <2>1. \A i \in 1 .. Len(seq) : translation[seq[i]] # 0
        BY <1>3, <1>4, <1>7 DEF ToSet, Null
    <2>2. \A i \in 1 .. Len(seq) : translation[seq[i]] \in 1 .. Len(tm)
        BY <1>6, <2>1
    <2>3. QED  BY <1>3, <1>4, <2>2
<1>8. QED  BY <1>3, <1>4, <1>5, <1>6, <1>7 DEF seq

(* CSE::visitNode found or made an entry. *)
LEMMA TranslationKeeps ==
    ASSUME FileInv, TableInv, CseInv, pc = "cse", cse # << >>,
           NEW t \in DOMAIN heap, t = Head(cse), cse' = Tail(cse), UNCHANGED <<heap, pc>>,
           Null \notin ToSet(Translated(t)),
           NEW y \in 1 .. Len(tm'), Len(tm') \in Nat, Len(tm) <= Len(tm'),
           \A x \in DOMAIN tm : tm'[x] = tm[x],
           translation' = [translation EXCEPT ![t] = y],
           translation[t] # Null => y = translation[t],
           tm'[y].id = heap[t].id, tm'[y].ops = Translated(t)
    PROVE  CseInv'
<1>1. /\ cse \in Orders /\ translation \in [DOMAIN heap -> 0 .. Len(tm)]
      /\ \A u \in ToSet(cse) : Null \notin ToSet(heap[u].ops)
      /\ \A u \in Done : IsTranslated(u)
      /\ Acyclic => OperandsBefore(cse, Done)
    BY DEF CseInv
<1>2. Len(tm) \in Nat /\ DOMAIN tm = 1 .. Len(tm)
    BY TheEntries
<1>3. /\ Len(cse) \in Nat /\ DOMAIN cse = 1 .. Len(cse) /\ 1 \in DOMAIN cse /\ cse[1] = t
      /\ cse' \in Orders /\ DOMAIN cse' = 1 .. Len(cse) - 1
      /\ \A j \in DOMAIN cse' : j + 1 \in DOMAIN cse /\ cse'[j] = cse[j + 1]
    BY <1>1 DEF Orders
<1>4. ToSet(cse') \subseteq ToSet(cse) /\ t \in ToSet(cse)
    BY <1>3 DEF ToSet
<1>5. translation' \in [DOMAIN heap -> 0 .. Len(tm')]
    BY <1>1, <1>2
<1>6. Done \subseteq Done' /\ Done' = Done \cup {t} /\ t \in Done'
    BY <1>1 DEF Done, Null
<1>7. ASSUME NEW u \in DOMAIN heap, Null \notin ToSet(heap[u].ops),
             Null \notin ToSet(Translated(u))
      PROVE  Translated(u)' = Translated(u)
    <2>1. \A i \in DOMAIN heap[u].ops : translation'[heap[u].ops[i]] = translation[heap[u].ops[i]]
        <3>1. SUFFICES ASSUME NEW i \in DOMAIN heap[u].ops
                       PROVE  translation'[heap[u].ops[i]] = translation[heap[u].ops[i]]
            OBVIOUS
        <3>2. heap[u].ops[i] \in DOMAIN heap /\ Translated(u)[i] = translation[heap[u].ops[i]]
              /\ i \in DOMAIN Translated(u)
            BY <1>1, <1>2, <1>7, TheTranslation
        <3>3. translation[heap[u].ops[i]] # Null
            BY <1>7, <3>2 DEF ToSet
        <3>4. QED  BY <1>1, <3>2, <3>3
    <2>2. QED  BY <2>1 DEF Translated
<1>8. ASSUME NEW u \in Done' PROVE IsTranslated(u)'
    <2>1. CASE u = t
        <3>1. Null \notin ToSet(heap[t].ops)
            BY <1>1, <1>4
        <3>2. Translated(t)' = Translated(t) /\ translation'[t] = y
            BY <1>1, <1>7, <3>1
        <3>3. QED  BY <2>1, <3>1, <3>2 DEF IsTranslated
    <2>2. CASE u # t
        <3>1. u \in Done /\ u \in DOMAIN heap /\ IsTranslated(u)
            BY <1>1, <1>6, <2>2 DEF Done
        <3>2. Translated(u)' = Translated(u) /\ translation'[u] = translation[u]
            BY <1>1, <1>7, <2>2, <3>1 DEF IsTranslated
        <3>3. translation[u] \in DOMAIN tm
            BY <1>1, <1>2, <3>1 DEF Done, Null
        <3>4. QED  BY <3>1, <3>2, <3>3 DEF IsTranslated
    <2>3. QED  BY <2>1, <2>2
<1>9. ASSUME Acyclic' PROVE OperandsBefore(cse, Done)'
    <2>1. OperandsBefore(cse, Done)
        BY <1>1, <1>9 DEF Acyclic, Cyclic
    <2>2. ASSUME NEW j \in DOMAIN cse', NEW x \in OperandsOf(cse'[j])
          PROVE  x \in Done' \/ \E k \in DOMAIN cse' : k < j /\ cse'[k] = x
        <3>1. j + 1 \in DOMAIN cse /\ x \in OperandsOf(cse[j + 1])
            BY <1>3, <2>2
        <3>2. x \in Done \/ \E k \in DOMAIN cse : k < j + 1 /\ cse[k] = x
            BY <2>1, <3>1 DEF OperandsBefore
        <3>3. ASSUME NEW k \in DOMAIN cse, k < j + 1, cse[k] = x, k # 1
              PROVE  \E i \in DOMAIN cse' : i < j /\ cse'[i] = x
            <4>1. k - 1 \in DOMAIN cse' /\ k - 1 < j /\ (k - 1) + 1 = k
                BY <1>3, <2>2, <3>3
            <4>2. cse'[k - 1] = x
                BY <1>3, <3>3, <4>1
            <4>3. QED  BY <4>1, <4>2
        <3>4. QED  BY <1>3, <1>6, <3>2, <3>3
    <2>3. QED  BY <2>2 DEF OperandsBefore, OperandsOf
<1>10. QED  BY <1>1, <1>3, <1>4, <1>5, <1>8, <1>9 DEF CseInv, Orders

(* An operand that is not translated is one of a cycle.                      *)
LEMMA UntranslatedIsCyclic ==
    ASSUME FileInv, TableInv, CseInv, pc = "cse", cse # << >>,
           Null \in ToSet(Translated(Head(cse)))
    PROVE  ~Acyclic
<1> SUFFICES ASSUME Acyclic PROVE FALSE
    OBVIOUS
<1>1. PICK t : t = Head(cse)
    OBVIOUS
<1>2. cse \in Orders /\ OperandsBefore(cse, Done)
    BY DEF CseInv
<1>3. 1 \in DOMAIN cse /\ cse[1] = t /\ t \in ToSet(cse) /\ t \in DOMAIN heap
    BY <1>1, <1>2 DEF Orders, ToSet
<1>4. Null \notin ToSet(heap[t].ops)
    BY <1>3 DEF CseInv
<1>5. Len(tm) \in Nat /\ translation \in [DOMAIN heap -> 0 .. Len(tm)]
    BY TheEntries DEF CseInv
<1>6. PICK i \in DOMAIN Translated(t) : Translated(t)[i] = Null
    BY <1>1 DEF ToSet
<1>7. i \in DOMAIN heap[t].ops /\ translation[heap[t].ops[i]] = Null
    BY <1>3, <1>4, <1>5, <1>6, TheTranslation
<1>8. heap[t].ops[i] \in OperandsOf(t)
    BY <1>4, <1>7 DEF OperandsOf, ToSet
<1>9. \A k \in DOMAIN cse : ~ k < 1
    BY <1>2 DEF Orders
<1>10. heap[t].ops[i] \in Done
    BY <1>2, <1>3, <1>8, <1>9 DEF OperandsBefore
<1>11. QED  BY <1>7, <1>10 DEF Done

LEMMA VisitNodeKeeps ==
    ASSUME FileInv, TableInv, CseInv, VisitNode
    PROVE  TableInv' /\ CseInv'
<1>1. PICK t : t = Head(cse)
    OBVIOUS
<1>2. /\ pc = "cse" /\ cse # << >> /\ cse' = Tail(cse)
      /\ UNCHANGED <<heap, signatures>>
    BY DEF VisitNode, file, table
<1>3. /\ cse \in Orders /\ translation \in [DOMAIN heap -> 0 .. Len(tm)]
      /\ \A u \in ToSet(cse) : Null \notin ToSet(heap[u].ops)
      /\ \A u \in Done : IsTranslated(u)
    BY <1>2 DEF CseInv
<1>4. t \in DOMAIN heap /\ Null \notin ToSet(heap[t].ops)
    <2>1. t \in ToSet(cse) /\ t \in DOMAIN heap
        BY <1>1, <1>2, <1>3 DEF Orders, ToSet
    <2>2. QED  BY <1>3, <2>1
<1>5. Len(tm) \in Nat /\ DOMAIN tm = 1 .. Len(tm)
    BY TheEntries
<1>6. CASE Null \in ToSet(Translated(t))
    <2>1. pc' = "invalidOrder" /\ UNCHANGED bank
        BY <1>1, <1>6 DEF VisitNode
    <2>2. ~Acyclic
        BY <1>1, <1>2, <1>6, UntranslatedIsCyclic
    <2>3. ~Acyclic'
        BY <1>2, <2>2 DEF Acyclic, Cyclic
    <2>4. TableInv'
        BY <1>2, <2>1 DEF TableInv, DepthsAreRight, bank
    <2>5. QED  BY <2>1, <2>3, <2>4 DEF CseInv
<1>7. ASSUME Null \notin ToSet(Translated(t)), t \in Done
      PROVE  translation[t] \in Found(t)
    <2>1. IsTranslated(t) /\ translation[t] \in DOMAIN tm
        BY <1>3, <1>4, <1>5, <1>7 DEF Done, Null
    <2>2. QED  BY <2>1 DEF IsTranslated, Found
<1>8. CASE /\ Null \notin ToSet(Translated(t))
           /\ \E x \in Found(t) : translation' = [translation EXCEPT ![t] = x]
           /\ UNCHANGED <<pc, tm>>
    <2>1. PICK x \in Found(t) : translation' = [translation EXCEPT ![t] = x]
        BY <1>8
    <2>2. x \in 1 .. Len(tm) /\ tm[x].id = heap[t].id /\ tm[x].ops = Translated(t)
        BY <1>5, <2>1 DEF Found
    <2>3. translation[t] # Null => x = translation[t]
        <3>1. SUFFICES ASSUME translation[t] # Null PROVE x = translation[t]
            OBVIOUS
        <3>2. translation[t] \in Found(t)
            BY <1>4, <1>7, <1>8, <3>1 DEF Done
        <3>3. QED  BY <2>1, <3>2 DEF Found, TableInv
    <2>4. CseInv'
        <3>1. /\ x \in 1 .. Len(tm') /\ Len(tm') \in Nat /\ Len(tm) <= Len(tm')
              /\ tm'[x].id = heap[t].id /\ tm'[x].ops = Translated(t)
              /\ \A y \in DOMAIN tm : tm'[y] = tm[y]
            BY <1>5, <1>8, <2>2
        <3>2. pc' = pc
            BY <1>8
        <3>3. QED  BY <1>1, <1>2, <1>4, <1>8, <2>1, <2>3, <3>1, <3>2, TranslationKeeps
    <2>5. TableInv'
        BY <1>2, <1>8 DEF TableInv, DepthsAreRight
    <2>6. QED  BY <2>4, <2>5
<1>9. CASE /\ Null \notin ToSet(Translated(t))
           /\ Found(t) = {}
           /\ tm' = Append(tm, [id |-> heap[t].id, ops |-> Translated(t),
                                depth |-> DepthOf(Translated(t))])
           /\ translation' = [translation EXCEPT ![t] = Len(tm')]
           /\ UNCHANGED pc
    <2>1. PICK id, ops : id = heap[t].id /\ ops = Translated(t)
        OBVIOUS
    <2>2. ops \in Seq(1 .. Len(tm)) /\ Len(ops) = Len(heap[t].ops)
        BY <1>3, <1>4, <1>5, <1>9, <2>1, TheTranslation
    <2>3. id \in Nat /\ id + 1 \in DOMAIN signatures /\ Len(ops) = signatures[id + 1]
        <3>1. heap[t] \in TermsOf(Len(heap))
            BY <1>4, FileIsHeap
        <3>2. heap[t].id \in Nat
            BY <3>1 DEF TermsOf
        <3>3. QED  BY <1>4, <2>1, <2>2, <3>2 DEF FileInv
    <2>4. \A x \in DOMAIN tm : ~ (tm[x].id = id /\ tm[x].ops = ops)
        BY <1>9, <2>1 DEF Found
    <2>5. PICK depth : depth = DepthOf(ops)
        OBVIOUS
    <2>6. tm' = Append(tm, [id |-> id, ops |-> ops, depth |-> DepthOf(ops)])
        BY <1>9, <2>1
    <2>7. TableInv'
        BY <1>2, <2>2, <2>3, <2>4, <2>6, AppendKeepsTable
    <2>8. PICK new : new = [id |-> id, ops |-> ops, depth |-> depth]
        OBVIOUS
    <2>9. tm' = Append(tm, new)
        BY <2>5, <2>6, <2>8
    <2>10. tm \in Seq(Entries(Len(tm))) /\ new.id = id /\ new.ops = ops
        BY <2>8 DEF TableInv
    <2>11. /\ Len(tm') = Len(tm) + 1 /\ tm'[Len(tm) + 1] = new
           /\ \A x \in DOMAIN tm : tm'[x] = tm[x]
        BY <2>9, <2>10
    <2>12. t \notin Done /\ translation[t] = Null
        BY <1>4, <1>7, <1>9 DEF Done
    <2>13. PICK y : y = Len(tm')
        OBVIOUS
    <2>14. /\ y \in 1 .. Len(tm') /\ Len(tm') \in Nat /\ Len(tm) <= Len(tm')
           /\ tm'[y].id = heap[t].id /\ tm'[y].ops = Translated(t)
        BY <1>5, <2>1, <2>10, <2>11, <2>13
    <2>15. translation' = [translation EXCEPT ![t] = y]
        BY <1>9, <2>13
    <2>16. CseInv'
        BY <1>1, <1>2, <1>4, <1>9, <2>11, <2>12, <2>14, <2>15, TranslationKeeps
    <2>17. QED  BY <2>7, <2>16
<1>10. QED  BY <1>1, <1>6, <1>8, <1>9 DEF VisitNode

(* The end of a file: nothing is translated yet. *)
LEMMA EndOfFileStarts ==
    ASSUME FileInv, TableInv, EndOfFile
    PROVE  CseInv'
<1>1. UNCHANGED <<heap, partialDefs, tm>> /\ pc' # "invalidOrder"
    BY DEF EndOfFile, file
<1>2. CASE pc' = "cse"
    <2>1. cse' = PostOrder /\ translation' = [t \in DOMAIN heap |-> Null]
        BY <1>2 DEF EndOfFile
    <2>2. HeapOk /\ partialDefs \in Seq(0 .. Len(heap))
        BY FileIsHeap DEF FileInv
    <2>3. /\ cse' \in Orders
          /\ \A u \in ToSet(cse') : Null \notin ToSet(heap[u].ops)
          /\ Acyclic => OperandsBefore(cse', {})
        BY <2>1, <2>2, PostOrderIs
    <2>4. Done' = {}
        BY <1>1, <2>1 DEF Done
    <2>5. translation' \in [DOMAIN heap -> 0 .. Len(tm)]
        BY <2>1, TheEntries DEF Null
    <2>6. Acyclic' => OperandsBefore(cse, Done)'
        BY <1>1, <2>3, <2>4 DEF Acyclic, Cyclic, OperandsBefore, OperandsOf
    <2>7. QED  BY <1>1, <2>3, <2>4, <2>5, <2>6 DEF CseInv, Orders
<1>3. CASE pc' # "cse"
    BY <1>1, <1>3 DEF CseInv
<1>4. QED  BY <1>2, <1>3

(* New symbols leave the arities of the others. *)
LEMMA EnterKeepsTable ==
    ASSUME TableInv, UNCHANGED tm,
           \A i \in DOMAIN signatures : i \in DOMAIN signatures' /\ signatures'[i] = signatures[i]
    PROVE  TableInv'
BY DEF TableInv, DepthsAreRight

LEMMA TableStep ==
    ASSUME NamesInv, FileInv, TableInv, CseInv, [Next]_vars
    PROVE  TableInv' /\ CseInv'
<1>1. ASSUME UNCHANGED <<tm, signatures>> PROVE TableInv'
    BY <1>1, EnterKeepsTable
<1>2. CASE OpenFile \/ ReadN \/ ReadE
    <2>1. UNCHANGED <<tm, signatures>> /\ pc' \notin {"cse", "invalidOrder"}
        BY <1>2 DEF OpenFile, ReadN, ReadE, Reading, Exit, bank, table
    <2>2. QED  BY <1>1, <2>1 DEF CseInv
<1>3. CASE ReadV
    <2>1. UNCHANGED tm /\ pc' \notin {"cse", "invalidOrder"}
        BY <1>3 DEF ReadV, Reading, Exit, bank
    <2>2. CASE UNCHANGED table
        BY <1>1, <2>1, <2>2 DEF CseInv, table
    <2>3. CASE ~UNCHANGED table
        <3>1. Enter(NameFor(Head(input).name, Head(input).arity), Head(input).arity)
            BY <1>3, <2>3 DEF ReadV, Exit
        <3>2. Head(input).arity \in Nat
            BY <1>3, TheLine DEF NamesInv, ReadV, Reading
        <3>3. \A i \in DOMAIN signatures : i \in DOMAIN signatures' /\ signatures'[i] = signatures[i]
            BY <3>1, <3>2, EnterKeeps
        <3>4. QED  BY <2>1, <3>3, EnterKeepsTable DEF CseInv
    <2>4. QED  BY <2>2, <2>3
<1>4. CASE EndOfFile
    <2>1. UNCHANGED <<tm, signatures>>
        BY <1>4 DEF EndOfFile, table
    <2>2. QED  BY <1>1, <1>4, <2>1, EndOfFileStarts
<1>5. CASE VisitNode
    BY <1>5, VisitNodeKeeps
<1>6. CASE Cleanup
    <2>1. UNCHANGED <<tm, signatures>> /\ pc' \notin {"cse", "invalidOrder"}
        BY <1>6 DEF Cleanup, table
    <2>2. QED  BY <1>1, <2>1 DEF CseInv
<1>7. CASE Terminated \/ UNCHANGED vars
    <2>1. UNCHANGED <<tm, signatures, translation, cse, heap, pc>>
        BY <1>7 DEF Terminated, vars, file, table, bank
    <2>2. Done' = Done /\ (Acyclic' <=> Acyclic)
        BY <2>1 DEF Done, Acyclic, Cyclic
    <2>3. \A t : IsTranslated(t)' <=> IsTranslated(t)
        BY <2>1 DEF IsTranslated, Translated
    <2>4. OperandsBefore(cse, Done)' <=> OperandsBefore(cse, Done)
        BY <2>1, <2>2 DEF OperandsBefore, OperandsOf
    <2>5. CseInv'
        BY <2>1, <2>2, <2>3, <2>4 DEF CseInv, Orders
    <2>6. QED  BY <1>1, <2>1, <2>5
<1>8. QED  BY <1>2, <1>3, <1>4, <1>5, <1>6, <1>7 DEF Next

ParserInv == NamesInv /\ FileInv /\ TableInv /\ CseInv

LEMMA ParserStarts ==
    ASSUME Init
    PROVE  ParserInv
<1>1. NamesInv
    BY EmptySeq DEF Init, NamesInv
<1>2. FileInv
    BY EmptySeq DEF Init, FileInv, TermOf
<1>3. TableInv
    BY EmptySeq DEF Init, TableInv
<1>4. CseInv
    BY DEF Init, CseInv
<1>5. QED  BY <1>1, <1>2, <1>3, <1>4 DEF ParserInv

(* The reader keeps its tables in order, over any files and any number of     *)
(* them.                                                                    *)
THEOREM ParserInvariance == Spec => []ParserInv
<1>1. Init => ParserInv
    BY ParserStarts
<1>2. ParserInv /\ [Next]_vars => ParserInv'
    BY NamesStep, FileStep, TableStep DEF ParserInv
<1>3. QED  BY <1>1, <1>2, PTL DEF Spec

(* The term table is a hash-consed term graph in every state of CSE           *)
(* (CSE.cpp:11-60): what Closure and Inference assume of their input.       *)
THEOREM TableStaysTermGraph == Spec => []TableIsTermGraph
<1>1. ParserInv => TableIsTermGraph
    BY TableIsGraph DEF ParserInv
<1>2. QED  BY <1>1, ParserInvariance, PTL

(* A cycle has no deepest translation.                                       *)
LEMMA CyclesAreNotTranslated ==
    ASSUME FileInv, TableInv, CseInv, pc = "cse",
           NEW S \in SUBSET DOMAIN heap, Cyclic(S), NEW t0 \in S, translation[t0] # Null
    PROVE  FALSE
<1>1. /\ translation \in [DOMAIN heap -> 0 .. Len(tm)]
      /\ \A t \in Done : IsTranslated(t)
    BY DEF CseInv
<1>2. /\ Len(tm) \in Nat /\ DOMAIN tm = 1 .. Len(tm)
      /\ \A x \in DOMAIN tm : tm[x].depth \in Nat /\ DepthsAreRight(x)
    BY TheEntries DEF TableInv
<1>3. \A t \in Done : t \in DOMAIN heap /\ translation[t] \in DOMAIN tm
    BY <1>1, <1>2 DEF Done, Null
<1>4. ASSUME NEW t \in S \cap Done
      PROVE  \E u \in S \cap Done : tm[translation[u]].depth < tm[translation[t]].depth
    <2>1. IsTranslated(t) /\ t \in DOMAIN heap /\ Null \notin ToSet(heap[t].ops)
        BY <1>1 DEF IsTranslated
    <2>2. PICK i \in DOMAIN heap[t].ops : heap[t].ops[i] \in S
        BY DEF Cyclic, ToSet
    <2>3. PICK u : u = heap[t].ops[i]
        OBVIOUS
    <2>4. /\ i \in DOMAIN Translated(t) /\ Translated(t)[i] = translation[u]
          /\ u \in DOMAIN heap
        BY <1>1, <1>2, <2>1, <2>2, <2>3, TheTranslation
    <2>5. translation[u] # Null
        BY <2>1, <2>4 DEF IsTranslated, ToSet
    <2>6. u \in S \cap Done
        BY <2>2, <2>3, <2>4, <2>5 DEF Done
    <2>7. tm[translation[t]].ops = Translated(t) /\ DepthsAreRight(translation[t])
        BY <1>2, <1>3, <2>1 DEF IsTranslated
    <2>8. tm[translation[u]].depth < tm[translation[t]].depth
        BY <2>4, <2>7 DEF DepthsAreRight
    <2>9. QED  BY <2>6, <2>8
<1> DEFINE D == {tm[translation[t]].depth : t \in S \cap Done}
<1>5. D \in SUBSET Nat /\ D # {}
    <2>1. t0 \in S \cap Done
        BY DEF Done
    <2>2. \A t \in S \cap Done : tm[translation[t]].depth \in Nat
        BY <1>2, <1>3
    <2>3. QED  BY <2>1, <2>2
<1>6. PICK d \in D : \A e \in D : d <= e
    BY <1>5, LeastNatural
<1>7. PICK t \in S \cap Done : d = tm[translation[t]].depth
    BY <1>6
<1>8. PICK u \in S \cap Done : tm[translation[u]].depth < d
    BY <1>4, <1>7
<1>9. d <= tm[translation[u]].depth /\ d \in Nat /\ tm[translation[u]].depth \in Nat
    BY <1>5, <1>6
<1>10. QED  BY <1>8, <1>9

(* The visit order suits CSE unless the edges form a cycle, and no cycle      *)
(* below a root gets into the table ("Invalid PO visit order.",             *)
(* CSE.cpp:28-29).                                                          *)
THEOREM OrderStaysValid == Spec => []OrderIsValid
<1>1. ParserInv => OrderIsValid
    <2> SUFFICES ASSUME ParserInv PROVE OrderIsValid
        OBVIOUS
    <2>1. pc = "invalidOrder" => \E S \in SUBSET DOMAIN heap : Cyclic(S)
        BY DEF ParserInv, CseInv, Acyclic
    <2>2. pc = "cse" => ~ \E S \in SUBSET DOMAIN heap : Cyclic(S) /\ \E t \in S : translation[t] # Null
        BY CyclesAreNotTranslated DEF ParserInv
    <2>3. QED  BY <2>1, <2>2 DEF OrderIsValid
<1>2. QED  BY <1>1, ParserInvariance, PTL

-----------------------------------------------------------------------------
(* Trees.  A graph whose operands are less deep has one tree for each term.   *)
IsDeep(graph, S, depth) ==
    /\ IsFiniteSet(S)
    /\ depth \in [S -> Nat]
    /\ \A t \in S : \A i \in DOMAIN graph[t].ops :
          graph[t].ops[i] \in S /\ depth[graph[t].ops[i]] < depth[t]

TreeBody(graph, tree, t) ==
    <<graph[t].id, [i \in DOMAIN graph[t].ops |-> tree[graph[t].ops[i]]]>>

LEMMA TreeDefined ==
    ASSUME NEW graph, NEW S, NEW depth, IsDeep(graph, S, depth)
    PROVE  \A t \in S : Tree(graph, S)[t] = TreeBody(graph, Tree(graph, S), t)
<1> DEFINE B(f, t) == TreeBody(graph, f, t)
           Fun(f) == [t \in S |-> B(f, t)]
           N == {n \in Nat : \E f : \A t \in S : depth[t] < n => f[t] = B(f, t)}
<1>1. 0 \in N
    BY DEF IsDeep
<1>2. ASSUME NEW n \in Nat, n \in N PROVE n + 1 \in N
    <2>1. PICK f : \A t \in S : depth[t] < n => f[t] = B(f, t)
        BY <1>2
    <2>2. PICK h : h = Fun(f)
        OBVIOUS
    <2>3. \A t \in S : h[t] = B(f, t)
        BY <2>2
    <2>4. ASSUME NEW t \in S, depth[t] < n + 1 PROVE h[t] = B(h, t)
        <3>1. ASSUME NEW i \in DOMAIN graph[t].ops
              PROVE  h[graph[t].ops[i]] = f[graph[t].ops[i]]
            <4>1. /\ graph[t].ops[i] \in S /\ depth[graph[t].ops[i]] < depth[t]
                  /\ depth[t] \in Nat /\ depth[graph[t].ops[i]] \in Nat
                BY DEF IsDeep
            <4>2. depth[graph[t].ops[i]] < n
                BY <2>4, <4>1
            <4>3. QED  BY <2>1, <2>3, <4>1, <4>2
        <3>2. B(h, t) = B(f, t)
            BY <3>1 DEF TreeBody
        <3>3. QED  BY <2>3, <3>2
    <2>5. \E k : \A t \in S : depth[t] < n + 1 => k[t] = B(k, t)
        BY <2>4
    <2>6. QED  BY <2>5
<1>3. Nat \subseteq N
    <2> HIDE DEF N
    <2>1. QED  BY <1>1, <1>2, NatSetInduction
<1>4. PICK m \in Nat : \A t \in S : depth[t] <= m
    BY FiniteDepths DEF IsDeep
<1>5. m + 1 \in N
    BY <1>3
<1>6. PICK f : \A t \in S : depth[t] < m + 1 => f[t] = B(f, t)
    BY <1>5
<1>7. \A t \in S : f[t] = B(f, t)
    <2>1. \A t \in S : depth[t] \in Nat /\ depth[t] < m + 1
        BY <1>4 DEF IsDeep
    <2>2. QED  BY <1>6, <2>1
<1>8. PICK h : h = Fun(f)
    OBVIOUS
<1>9. \A t \in S : h[t] = f[t]
    BY <1>7, <1>8
<1>10. \A t \in S : B(h, t) = B(f, t)
    <2>1. ASSUME NEW t \in S PROVE B(h, t) = B(f, t)
        <3>1. \A i \in DOMAIN graph[t].ops : h[graph[t].ops[i]] = f[graph[t].ops[i]]
            BY <1>9 DEF IsDeep
        <3>2. QED  BY <3>1 DEF TreeBody
    <2>2. QED  BY <2>1
<1>11. h = Fun(h)
    BY <1>8, <1>10
<1>12. Tree(graph, S) = CHOOSE tree : tree = Fun(tree)
    BY DEF Tree, TreeBody
<1>13. Tree(graph, S) = Fun(Tree(graph, S))
    <2> HIDE DEF Fun
    <2>1. QED  BY <1>11, <1>12
<1>14. QED  BY <1>13

(* A map that keeps symbols and operands keeps trees. *)
LEMMA TreesAgree ==
    ASSUME NEW g, NEW S, NEW depth, IsDeep(g, S, depth),
           NEW h, NEW U, NEW height, IsDeep(h, U, height),
           NEW f, \A t \in S : /\ f[t] \in U
                               /\ h[f[t]].id = g[t].id
                               /\ DOMAIN h[f[t]].ops = DOMAIN g[t].ops
                               /\ \A i \in DOMAIN g[t].ops : h[f[t]].ops[i] = f[g[t].ops[i]]
    PROVE  \A t \in S : Tree(h, U)[f[t]] = Tree(g, S)[t]
<1> DEFINE T == {t \in S : Tree(h, U)[f[t]] = Tree(g, S)[t]}
<1>1. ASSUME NEW t \in S, \A r \in S : depth[r] < depth[t] => r \in T PROVE t \in T
    <2>1. \A i \in DOMAIN g[t].ops :
             Tree(h, U)[h[f[t]].ops[i]] = Tree(g, S)[g[t].ops[i]]
        <3>1. \A i \in DOMAIN g[t].ops : g[t].ops[i] \in T
            BY <1>1 DEF IsDeep
        <3>2. QED  BY <3>1
    <2>2. TreeBody(h, Tree(h, U), f[t]) = TreeBody(g, Tree(g, S), t)
        BY <2>1 DEF TreeBody
    <2>3. Tree(g, S)[t] = TreeBody(g, Tree(g, S), t)
        BY TreeDefined
    <2>4. Tree(h, U)[f[t]] = TreeBody(h, Tree(h, U), f[t])
        BY TreeDefined
    <2>5. QED  BY <2>2, <2>3, <2>4
<1>2. S \subseteq T
    <2> HIDE DEF T
    <2>1. depth \in [S -> Nat]
        BY DEF IsDeep
    <2>2. QED  BY <1>1, <2>1, DepthInduction
<1>3. QED  BY <1>2

TableDepth == [x \in DOMAIN tm |-> tm[x].depth]

LEMMA TableIsDeep ==
    ASSUME TableInv
    PROVE  IsDeep(tm, DOMAIN tm, TableDepth)
<1>1. /\ Len(tm) \in Nat /\ DOMAIN tm = 1 .. Len(tm)
      /\ \A x \in DOMAIN tm : tm[x].depth \in Nat /\ tm[x].ops \in Seq(1 .. Len(tm))
    BY TheEntries
<1>2. IsFiniteSet(DOMAIN tm)
    BY <1>1, FS_Interval
<1>3. ASSUME NEW x \in DOMAIN tm, NEW i \in DOMAIN tm[x].ops
      PROVE  tm[x].ops[i] \in DOMAIN tm /\ tm[tm[x].ops[i]].depth < tm[x].depth
    <2>1. DepthsAreRight(x)
        BY DEF TableInv
    <2>2. QED  BY <1>1, <2>1 DEF DepthsAreRight
<1>4. QED  BY <1>1, <1>2, <1>3 DEF IsDeep, TableDepth

(* An entry that is added leaves the trees of the others. *)
LEMMA OldTreesStay ==
    ASSUME TableInv, TableInv', \A x \in DOMAIN tm : x \in DOMAIN tm' /\ tm'[x] = tm[x]
    PROVE  \A x \in DOMAIN tm : Tree(tm', DOMAIN tm')[x] = Tree(tm, DOMAIN tm)[x]
<1>1. PICK f : f = [x \in DOMAIN tm |-> x]
    OBVIOUS
<1>2. IsDeep(tm, DOMAIN tm, TableDepth)
    BY TableIsDeep
<1>3. PICK new : new = tm'
    OBVIOUS
<1>4. \E height : IsDeep(new, DOMAIN new, height)
    <2>1. IsDeep(tm, DOMAIN tm, TableDepth)'
        BY TableIsDeep, PTL
    <2>2. QED  BY <1>3, <2>1
<1>5. PICK height : IsDeep(new, DOMAIN new, height)
    BY <1>4
<1>6. \A x \in DOMAIN tm : /\ f[x] \in DOMAIN new
                           /\ new[f[x]].id = tm[x].id
                           /\ DOMAIN new[f[x]].ops = DOMAIN tm[x].ops
                           /\ \A i \in DOMAIN tm[x].ops : new[f[x]].ops[i] = f[tm[x].ops[i]]
    BY <1>1, <1>2, <1>3 DEF IsDeep
<1>7. \A x \in DOMAIN tm : Tree(new, DOMAIN new)[f[x]] = Tree(tm, DOMAIN tm)[x]
    BY <1>2, <1>5, <1>6, TreesAgree
<1>8. QED  BY <1>1, <1>3, <1>7

-----------------------------------------------------------------------------
(* What the visits of the roots reach, from the edges alone. *)
LEMMA BelowFromEdges ==
    ASSUME HeapOk, NEW t \in DOMAIN heap
    PROVE  TermsBelow(t) = Below(t)
<1>1. ASSUME NEW S \in SUBSET DOMAIN heap PROVE IsClosed(S) <=> HasOperands(S, {})
    <2>1. \A u \in S : ToSet(heap[u].ops) = {heap[u].ops[i] : i \in DOMAIN heap[u].ops}
        BY DEF ToSet
    <2>2. QED  BY <2>1 DEF IsClosed, HasOperands
<1>2. /\ t \in Below(t) /\ Below(t) \in SUBSET DOMAIN heap /\ HasOperands(Below(t), {})
      /\ \A X : t \in X /\ HasOperands(X, {}) => Below(t) \subseteq X
    BY BelowIsLeast
<1>3. TermsBelow(t) \subseteq Below(t)
    BY <1>1, <1>2 DEF TermsBelow
<1>4. ASSUME NEW u \in Below(t) PROVE u \in TermsBelow(t)
    <2>1. \A S \in SUBSET DOMAIN heap : t \in S /\ IsClosed(S) => u \in S
        BY <1>1, <1>2, <1>4
    <2>2. QED  BY <1>2, <1>4, <2>1 DEF TermsBelow
<1>5. QED  BY <1>3, <1>4

(* A visit adds what is below its term, whatever the visits before marked.    *)
LEMMA VisitAddsBelow ==
    ASSUME HeapOk, NEW v \in Orders, HasOperands(ToSet(v), {}), NEW t \in DOMAIN heap
    PROVE  LET w == v \o Visit[<<t, ToSet(v)>>]
           IN  /\ w \in Orders
               /\ ToSet(w) = ToSet(v) \cup Below(t)
               /\ HasOperands(ToSet(w), {})
<1>1. PICK p \in Places : p = <<t, ToSet(v)>>
    BY SetOfOrder DEF Places
<1>2. Visit[p] \in Orders /\ t \in ToSet(Visit[p]) /\ HasOperands(ToSet(Visit[p]), ToSet(v))
    BY <1>1, VisitDefined, VisitCloses
<1>3. PICK w : w = v \o Visit[p]
    OBVIOUS
<1>4. w \in Orders /\ ToSet(w) = ToSet(v) \cup ToSet(Visit[p])
    BY <1>2, <1>3, SetOfJoined DEF Orders
<1>5. HasOperands(ToSet(w), {})
    BY <1>2, <1>4 DEF HasOperands
<1>6. ToSet(Visit[p]) \subseteq Below(t) /\ Below(t) \subseteq ToSet(w)
    <2>1. ToSet(v) \in SUBSET DOMAIN heap
        BY SetOfOrder
    <2>2. QED  BY <1>1, <1>2, <1>4, <1>5, <2>1, BelowIsLeast
<1>7. QED  BY <1>1, <1>3, <1>4, <1>5, <1>6

VisitedRoots(i) ==
    UNION {Below(partialDefs[k]) : k \in {j \in 1 .. i : IsRoot(partialDefs[j])
                                                         /\ FullyDefined(partialDefs[j])}}

LEMMA PostOrderReaches ==
    ASSUME HeapOk, partialDefs \in Seq(0 .. Len(heap))
    PROVE  ToSet(PostOrder) = VisitedRoots(Len(partialDefs))
<1> DEFINE n == Len(partialDefs)
           Good(v, i) == /\ v \in Orders /\ HasOperands(ToSet(v), {})
                         /\ ToSet(v) = VisitedRoots(i)
<1>1. PICK g : AreVisited(g)
    BY RootsFold
<1>2. n \in Nat /\ \A i \in 1 .. n : partialDefs[i] \in 0 .. Len(heap)
    OBVIOUS
<1>3. ASSUME NEW i \in Nat, i < n, NEW v, Good(v, i)
      PROVE  Good(RootNext(v, partialDefs[i + 1]), i + 1)
    <2> DEFINE t == partialDefs[i + 1]
               C(j) == IsRoot(partialDefs[j]) /\ FullyDefined(partialDefs[j])
    <2>1. i + 1 \in 1 .. n /\ t \in 0 .. Len(heap) /\ 1 .. i + 1 = (1 .. i) \cup {i + 1}
        BY <1>2, <1>3
    <2>2. CASE C(i + 1)
        <3>1. t \in DOMAIN heap
            BY <2>1, <2>2 DEF IsRoot, HeapOk, Null
        <3>2. RootNext(v, t) = v \o Visit[<<t, ToSet(v)>>]
            BY <2>2 DEF RootNext
        <3>3. VisitedRoots(i + 1) = VisitedRoots(i) \cup Below(t)
            <4>1. {j \in 1 .. i + 1 : C(j)} = {j \in 1 .. i : C(j)} \cup {i + 1}
                BY <2>1, <2>2
            <4> HIDE DEF C
            <4>2. UNION {Below(partialDefs[k]) : k \in {j \in 1 .. i + 1 : C(j)}}
                    = (UNION {Below(partialDefs[k]) : k \in {j \in 1 .. i : C(j)}})
                          \cup Below(partialDefs[i + 1])
                BY <4>1
            <4>3. QED  BY <4>2 DEF VisitedRoots, C
        <3> HIDE DEF t, C
        <3>4. QED  BY <1>3, <3>1, <3>2, <3>3, VisitAddsBelow DEF t
    <2>3. CASE ~C(i + 1)
        <3>1. RootNext(v, t) = v
            BY <2>3 DEF RootNext
        <3>2. {j \in 1 .. i + 1 : C(j)} = {j \in 1 .. i : C(j)}
            BY <2>1, <2>3
        <3>3. VisitedRoots(i + 1) = VisitedRoots(i)
            BY <3>2 DEF VisitedRoots
        <3>4. QED  BY <1>3, <3>1, <3>3
    <2>4. QED  BY <2>2, <2>3
<1>4. Good(<< >>, 0)
    <2>1. 1 .. 0 = {} /\ ToSet(<< >>) = {}
        BY DEF ToSet
    <2>2. VisitedRoots(0) = {}
        BY <2>1 DEF VisitedRoots
    <2>3. QED  BY <2>1, <2>2, EmptySeq DEF Orders, HasOperands
<1> HIDE DEF Good
<1> DEFINE T == {i \in Nat : i <= n => Good(g[i], i)}
<1>5. 0 \in T
    BY <1>1, <1>4 DEF AreVisited
<1>6. ASSUME NEW i \in Nat, i \in T PROVE i + 1 \in T
    <2>1. SUFFICES ASSUME i + 1 <= n PROVE Good(g[i + 1], i + 1)
        OBVIOUS
    <2>2. i + 1 \in 1 .. n /\ (i + 1) - 1 = i /\ i < n /\ Good(g[i], i)
        BY <1>2, <1>6, <2>1
    <2>3. g[i + 1] = RootNext(g[i], partialDefs[i + 1])
        BY <1>1, <2>2 DEF AreVisited
    <2>4. QED  BY <1>3, <2>2, <2>3
<1>7. Nat \subseteq T
    <2> HIDE DEF T
    <2>1. QED  BY <1>5, <1>6, NatSetInduction
<1>8. Good(g[n], n)
    BY <1>2, <1>7
<1>9. QED  BY <1>1, <1>8 DEF AreVisited, Good

(* The use sets tell the terms an edge was read from. *)
UsesInv ==
    /\ sources \subseteq DOMAIN heap
    /\ \A t \in DOMAIN heap : heap[t].uses = {} <=> t \notin sources

(* So the visits reach the complete terms, no more and no less. *)
LEMMA PostOrderIsComplete ==
    ASSUME HeapOk, UsesInv, partialDefs \in Seq(0 .. Len(heap))
    PROVE  ToSet(PostOrder) = CompleteTerms
<1> DEFINE n == Len(partialDefs)
           R == {j \in 1 .. n : IsRoot(partialDefs[j]) /\ FullyDefined(partialDefs[j])}
<1>1. /\ n \in Nat /\ DOMAIN partialDefs = 1 .. n
      /\ \A i \in 1 .. n : partialDefs[i] \in 0 .. Len(heap)
    OBVIOUS
<1>2. ASSUME NEW t \in DOMAIN heap
      PROVE  /\ TermsBelow(t) = Below(t)
             /\ IsRoot(t) <=> t \notin {Null} \cup sources
             /\ FullyDefined(t) <=> \A u \in TermsBelow(t) : Null \notin ToSet(heap[u].ops)
    <2>1. TermsBelow(t) = Below(t)
        BY BelowFromEdges
    <2>2. t # Null
        BY DEF HeapOk, Null
    <2>3. QED  BY <2>1, <2>2 DEF IsRoot, UsesInv, FullyDefined, Below
<1>3. ToSet(partialDefs) \ {Null} \subseteq DOMAIN heap
    BY <1>1 DEF HeapOk, ToSet, Null
<1>4. CompleteRoots = {partialDefs[j] : j \in R}
    <2>1. ASSUME NEW t \in CompleteRoots PROVE \E j \in R : t = partialDefs[j]
        <3>1. t \in ToSet(partialDefs) \ ({Null} \cup sources) /\ t \in DOMAIN heap
            BY <1>3 DEF CompleteRoots
        <3>2. PICK j \in 1 .. n : t = partialDefs[j]
            BY <1>1, <3>1 DEF ToSet
        <3>3. IsRoot(t) /\ FullyDefined(t)
            BY <1>2, <3>1 DEF CompleteRoots
        <3>4. QED  BY <3>2, <3>3
    <2>2. ASSUME NEW j \in R PROVE partialDefs[j] \in CompleteRoots
        <3>1. PICK t : t = partialDefs[j]
            OBVIOUS
        <3>2. t \in ToSet(partialDefs) \ {Null} /\ IsRoot(t) /\ FullyDefined(t)
            BY <1>1, <3>1 DEF ToSet, IsRoot
        <3>3. t \in DOMAIN heap
            BY <1>3, <3>2
        <3>4. QED  BY <1>2, <3>1, <3>2, <3>3 DEF CompleteRoots
    <2> HIDE DEF R
    <2>3. QED  BY <2>1, <2>2
<1>5. \A t \in CompleteRoots : TermsBelow(t) = Below(t)
    BY <1>2, <1>3 DEF CompleteRoots
<1>6. VisitedRoots(n) = UNION {Below(partialDefs[k]) : k \in R}
    BY DEF VisitedRoots
<1> HIDE DEF R
<1>7. CompleteTerms = VisitedRoots(n)
    BY <1>4, <1>5, <1>6 DEF CompleteTerms
<1>8. QED  BY <1>7, PostOrderReaches

-----------------------------------------------------------------------------
LEMMA UsesStep ==
    ASSUME FileInv, NamesInv, UsesInv, [Next]_vars
    PROVE  UsesInv'
<1>0. Len(heap) \in Nat /\ DOMAIN heap = 1 .. Len(heap)
    BY FileIsHeap DEF HeapOk
<1>1. CASE UNCHANGED <<heap, sources>>
    BY <1>1 DEF UsesInv
<1>2. CASE ReadV /\ ~UNCHANGED <<heap, sources>>
    <2>1. PICK new : heap' = Append(heap, new) /\ new.uses = {} /\ sources' = sources
        BY <1>2 DEF ReadV, Exit, file
    <2>2. /\ DOMAIN heap' = DOMAIN heap \cup {Len(heap) + 1} /\ heap'[Len(heap) + 1] = new
          /\ \A t \in DOMAIN heap : heap'[t] = heap[t]
        <3>1. \E U : heap \in Seq(U)
            BY DEF FileInv
        <3>2. QED  BY <1>0, <2>1, <3>1
    <2>3. Len(heap) + 1 \notin sources
        BY <1>0 DEF UsesInv
    <2>4. QED  BY <2>1, <2>2, <2>3 DEF UsesInv
<1>3. CASE ReadE /\ ~UNCHANGED <<heap, sources>>
    <2> DEFINE l == Head(input)
    <2>1. PICK src, dst, port :
             /\ src = TermOf(l.from) /\ src # Null
             /\ heap' = [heap EXCEPT ![dst].ops[port + 1] = src, ![src].uses = @ \cup {dst}]
             /\ sources' = sources \cup {src}
        BY <1>3 DEF ReadE, Exit, file, RegisterEdge
    <2>2. src \in DOMAIN heap
        <3>1. partialDefs \in Seq(0 .. Len(heap))
            BY DEF FileInv
        <3>2. src \in 0 .. Len(heap)
            BY <1>0, <2>1, <3>1 DEF TermOf, Null
        <3>3. QED  BY <1>0, <2>1, <3>2 DEF Null
    <2>3. PICK edge : edge = [heap EXCEPT ![dst].ops[port + 1] = src]
        OBVIOUS
    <2>4. DOMAIN edge = DOMAIN heap /\ \A t \in DOMAIN heap : edge[t].uses = heap[t].uses
        <3>1. \A t \in DOMAIN heap : heap[t] \in TermsOf(Len(heap))
            BY FileIsHeap
        <3>2. ASSUME NEW t \in DOMAIN heap PROVE edge[t].uses = heap[t].uses
            <4>1. heap[t] \in [id : Nat, ops : Seq(0 .. Len(heap)), uses : SUBSET (1 .. Len(heap))]
                BY <3>1 DEF TermsOf
            <4>2. \/ edge[t] = heap[t]
                  \/ edge[t] = [heap[t] EXCEPT !.ops[port + 1] = src]
                BY <2>3
            <4>3. QED  BY <4>1, <4>2
        <3>3. QED  BY <2>3, <3>2
    <2>5. heap' = [edge EXCEPT ![src].uses = @ \cup {dst}]
        BY <2>1, <2>3
    <2>6. DOMAIN heap' = DOMAIN heap
        BY <2>4, <2>5
    <2>7. ASSUME NEW t \in DOMAIN heap, t # src PROVE heap'[t].uses = heap[t].uses
        <3>1. heap'[t] = edge[t]
            BY <2>4, <2>5, <2>7
        <3>2. QED  BY <2>4, <3>1
    <2>8. heap'[src].uses # {}
        <3>1. heap'[src] = [edge[src] EXCEPT !.uses = @ \cup {dst}]
            BY <2>2, <2>4, <2>5
        <3>2. heap[src] \in [id : Nat, ops : Seq(0 .. Len(heap)), uses : SUBSET (1 .. Len(heap))]
            BY <2>2, FileIsHeap DEF TermsOf
        <3>3. "uses" \in DOMAIN edge[src]
            <4>1. \/ edge[src] = heap[src]
                  \/ edge[src] = [heap[src] EXCEPT !.ops[port + 1] = src]
                BY <2>2, <2>3
            <4>2. QED  BY <3>2, <4>1
        <3>4. QED  BY <3>1, <3>3
    <2>9. QED  BY <2>1, <2>2, <2>6, <2>7, <2>8 DEF UsesInv
<1>4. CASE Cleanup
    BY <1>4 DEF Cleanup, UsesInv
<1>5. CASE OpenFile \/ ReadN \/ EndOfFile \/ VisitNode \/ Terminated \/ UNCHANGED vars
    BY <1>1, <1>5 DEF OpenFile, ReadN, EndOfFile, VisitNode, Terminated, vars, file
<1>6. QED  BY <1>1, <1>2, <1>3, <1>4, <1>5 DEF Next

(* CSE's progress.  Every entry behind the first m is the translation of a    *)
(* term of this file, and all complete terms are translated or to come.     *)
AddedInv ==
    /\ pc = "line" => before = Trees
    /\ pc = "cse" =>
          /\ CompleteTerms = Done \cup ToSet(cse)
          /\ \E m \in 0 .. Len(tm) :
                /\ before = {Tree(tm, DOMAIN tm)[x] : x \in 1 .. m}
                /\ \A x \in m + 1 .. Len(tm) : \E t \in Done : translation[t] = x

LEMMA VisitMakes ==
    ASSUME FileInv, TableInv, CseInv, VisitNode, pc' = "cse"
    PROVE  \E y \in DOMAIN tm' :
              LET t == Head(cse)
              IN  /\ t \in DOMAIN heap
                  /\ translation' = [translation EXCEPT ![t] = y]
                  /\ translation[t] # Null => translation[t] = y
                  /\ \/ tm' = tm
                     \/ \E new : tm' = Append(tm, new) /\ y = Len(tm')
<1>1. PICK t : t = Head(cse)
    OBVIOUS
<1>2. /\ pc = "cse" /\ cse \in Orders /\ cse # << >>
      /\ \A u \in ToSet(cse) : Null \notin ToSet(heap[u].ops)
      /\ translation \in [DOMAIN heap -> 0 .. Len(tm)]
      /\ \A u \in Done : IsTranslated(u)
    BY DEF VisitNode, CseInv
<1>3. t \in DOMAIN heap
    <2>1. t \in ToSet(cse)
        BY <1>1, <1>2 DEF Orders, ToSet
    <2>2. QED  BY <1>2, <2>1, SetOfOrder, FileIsHeap
<1>4. Len(tm) \in Nat /\ DOMAIN tm = 1 .. Len(tm)
    BY TheEntries
<1>5. ASSUME translation[t] # Null PROVE translation[t] \in Found(t)
    <2>1. IsTranslated(t) /\ translation[t] \in DOMAIN tm
        BY <1>2, <1>3, <1>4, <1>5 DEF Done, Null
    <2>2. QED  BY <2>1 DEF IsTranslated, Found
<1>6. CASE \E x \in Found(t) : translation' = [translation EXCEPT ![t] = x] /\ tm' = tm
    <2>1. PICK x \in Found(t) : translation' = [translation EXCEPT ![t] = x] /\ tm' = tm
        BY <1>6
    <2>2. translation[t] # Null => translation[t] = x
        BY <1>5, <2>1 DEF Found, TableInv
    <2>3. x \in DOMAIN tm'
        BY <2>1 DEF Found
    <2>4. QED  BY <1>1, <1>3, <2>1, <2>2, <2>3
<1>7. CASE Found(t) = {} /\ \E new : tm' = Append(tm, new)
                         /\ translation' = [translation EXCEPT ![t] = Len(tm')]
    <2>1. PICK new : tm' = Append(tm, new) /\ translation' = [translation EXCEPT ![t] = Len(tm')]
        BY <1>7
    <2>2. translation[t] = Null
        BY <1>5, <1>7
    <2>3. \E U : tm \in Seq(U)
        BY DEF TableInv
    <2>4. Len(tm') \in DOMAIN tm'
        BY <1>4, <2>1, <2>3
    <2>5. QED  BY <1>1, <1>3, <2>1, <2>2, <2>4
<1>8. QED  BY <1>1, <1>6, <1>7 DEF VisitNode

LEMMA VisitAdds ==
    ASSUME FileInv, TableInv, TableInv', CseInv, AddedInv, VisitNode
    PROVE  AddedInv'
<1>1. pc = "cse" /\ cse \in Orders /\ cse # << >> /\ cse' = Tail(cse)
      /\ UNCHANGED <<heap, partialDefs, sources, before>>
      /\ pc' \in {"cse", "invalidOrder"}
      /\ translation \in [DOMAIN heap -> 0 .. Len(tm)]
    BY DEF VisitNode, CseInv, file
<1>2. CASE pc' # "cse"
    BY <1>1, <1>2 DEF AddedInv
<1>3. CASE pc' = "cse"
    <2>1. PICK t, y : /\ t = Head(cse) /\ t \in DOMAIN heap /\ y \in DOMAIN tm'
                      /\ translation' = [translation EXCEPT ![t] = y]
                      /\ translation[t] # Null => translation[t] = y
                      /\ \/ tm' = tm
                         \/ \E new : tm' = Append(tm, new) /\ y = Len(tm')
        BY <1>3, VisitMakes
    <2>2. /\ Len(tm) \in Nat /\ DOMAIN tm = 1 .. Len(tm)
          /\ \E U : tm \in Seq(U)
        BY TheEntries DEF TableInv
    <2>3. /\ Len(tm') \in Nat /\ DOMAIN tm' = 1 .. Len(tm') /\ Len(tm) <= Len(tm')
          /\ \A x \in DOMAIN tm : x \in DOMAIN tm' /\ tm'[x] = tm[x]
          /\ \A x \in DOMAIN tm' \ DOMAIN tm : x = y
        BY <2>1, <2>2
    <2>4. y # Null /\ Done' = Done \cup {t}
        <3>1. y # Null
            <4>1. y \in 1 .. Len(tm') /\ Len(tm') \in Nat
                BY <2>1, <2>3
            <4>2. QED  BY <4>1 DEF Null
        <3>2. \A u \in DOMAIN heap : translation'[u] = IF u = t THEN y ELSE translation[u]
            BY <1>1, <2>1
        <3>3. heap' = heap /\ t \in DOMAIN heap
            BY <1>1, <2>1
        <3>4. \A u : u \in Done' <=> u \in Done \cup {t}
            BY <3>1, <3>2, <3>3 DEF Done
        <3>5. QED  BY <3>1, <3>4
    <2>5. ToSet(cse) = {t} \cup ToSet(cse')
        BY <1>1, <2>1, SetOfTail DEF Orders
    <2>6. CompleteTerms' = CompleteTerms
        BY <1>1 DEF CompleteTerms, CompleteRoots, TermsBelow, IsClosed
    <2>7. (CompleteTerms = Done \cup ToSet(cse))'
        BY <1>1, <2>4, <2>5, <2>6 DEF AddedInv
    <2>8. PICK m \in 0 .. Len(tm) :
             /\ before = {Tree(tm, DOMAIN tm)[x] : x \in 1 .. m}
             /\ \A x \in m + 1 .. Len(tm) : \E u \in Done : translation[u] = x
        BY <1>1 DEF AddedInv
    <2>9. \A x \in 1 .. m : Tree(tm', DOMAIN tm')[x] = Tree(tm, DOMAIN tm)[x]
        <3>1. \A x \in 1 .. m : x \in DOMAIN tm
            BY <2>2, <2>8
        <3>2. \A x \in DOMAIN tm : Tree(tm', DOMAIN tm')[x] = Tree(tm, DOMAIN tm)[x]
            BY <2>3, OldTreesStay
        <3>3. QED  BY <3>1, <3>2
    <2>10. before' = {Tree(tm', DOMAIN tm')[x] : x \in 1 .. m}
        BY <1>1, <2>8, <2>9
    <2>11. ASSUME NEW x \in m + 1 .. Len(tm') PROVE \E u \in Done' : translation'[u] = x
        <3>1. CASE x = y
            <4>1. translation'[t] = x
                BY <1>1, <2>1, <3>1
            <4>2. QED  BY <2>4, <4>1
        <3>2. CASE x # y
            <4>1. x \in DOMAIN tm /\ x \in m + 1 .. Len(tm)
                BY <2>2, <2>3, <2>8, <3>2
            <4>2. PICK u \in Done : translation[u] = x
                BY <2>8, <4>1
            <4>3. u # t
                BY <2>1, <3>2, <4>2 DEF Done
            <4>4. translation'[u] = x
                BY <1>1, <2>1, <4>2, <4>3 DEF Done
            <4>5. QED  BY <2>4, <4>2, <4>4
        <3>3. QED  BY <3>1, <3>2
    <2>12. m \in 0 .. Len(tm')
        BY <2>2, <2>3, <2>8
    <2>13. QED  BY <1>3, <2>7, <2>10, <2>11, <2>12 DEF AddedInv
<1>4. QED  BY <1>2, <1>3

LEMMA AddedStep ==
    ASSUME FileInv, NamesInv, TableInv, TableInv', CseInv, UsesInv, AddedInv, [Next]_vars
    PROVE  AddedInv'
<1>1. CASE OpenFile
    <2>1. before' = Trees /\ tm' = tm /\ pc' = "line"
        BY <1>1 DEF OpenFile, bank
    <2>2. QED  BY <2>1 DEF AddedInv, Trees
<1>2. CASE ReadN \/ ReadV \/ ReadE
    <2>1. pc = "line" /\ pc' # "cse" /\ UNCHANGED <<tm, before>>
        BY <1>2 DEF ReadN, ReadV, ReadE, Reading, Exit, bank
    <2>2. QED  BY <2>1 DEF AddedInv, Trees
<1>3. CASE EndOfFile
    <2>1. pc = "line" /\ pc' # "line" /\ UNCHANGED <<tm, before, heap, partialDefs, sources>>
        BY <1>3 DEF EndOfFile, file
    <2>2. CASE pc' = "cse"
        <3>1. cse' = PostOrder /\ translation' = [t \in DOMAIN heap |-> Null]
            BY <1>3, <2>2 DEF EndOfFile
        <3>2. Done' = {}
            BY <2>1, <3>1 DEF Done
        <3>3. CompleteTerms' = CompleteTerms
            BY <2>1 DEF CompleteTerms, CompleteRoots, TermsBelow, IsClosed
        <3>4. ToSet(cse') = CompleteTerms
            BY <3>1, PostOrderIsComplete, FileIsHeap DEF FileInv
        <3>5. Len(tm) \in Nat /\ DOMAIN tm = 1 .. Len(tm)
            BY TheEntries
        <3>6. before = {Tree(tm, DOMAIN tm)[x] : x \in 1 .. Len(tm)}
            BY <2>1, <3>5 DEF AddedInv, Trees
        <3>7. Len(tm) \in 0 .. Len(tm) /\ Len(tm) + 1 .. Len(tm) = {}
            BY <3>5
        <3>8. QED  BY <2>1, <2>2, <3>2, <3>3, <3>4, <3>6, <3>7 DEF AddedInv
    <2>3. QED  BY <2>1, <2>2 DEF AddedInv
<1>4. CASE VisitNode
    BY <1>4, VisitAdds
<1>5. CASE Cleanup
    BY <1>5 DEF Cleanup, AddedInv
<1>6. CASE Terminated \/ UNCHANGED vars
    <2>1. UNCHANGED <<pc, heap, partialDefs, sources, cse, translation, tm, before>>
        BY <1>6 DEF Terminated, vars, file, bank
    <2>2. CompleteTerms' = CompleteTerms
        BY <2>1 DEF CompleteTerms, CompleteRoots, TermsBelow, IsClosed
    <2>3. Trees' = Trees /\ Done' = Done
        BY <2>1 DEF Trees, Done
    <2>4. QED  BY <2>1, <2>2, <2>3 DEF AddedInv
<1>7. QED  BY <1>1, <1>2, <1>3, <1>4, <1>5, <1>6 DEF Next

(* A term that is translated has the tree of its entry. *)
LEMMA TranslationKeepsTrees ==
    ASSUME FileInv, TableInv, CseInv, pc = "cse"
    PROVE  \A t \in Done : /\ translation[t] \in DOMAIN tm
                           /\ Tree(tm, DOMAIN tm)[translation[t]] = Tree(heap, Done)[t]
<1>1. /\ translation \in [DOMAIN heap -> 0 .. Len(tm)]
      /\ \A t \in Done : IsTranslated(t)
    BY DEF CseInv
<1>2. /\ Len(tm) \in Nat /\ DOMAIN tm = 1 .. Len(tm)
      /\ \A x \in DOMAIN tm : tm[x].depth \in Nat /\ DepthsAreRight(x)
    BY TheEntries DEF TableInv
<1>3. \A t \in Done : t \in DOMAIN heap /\ translation[t] \in DOMAIN tm
    BY <1>1, <1>2 DEF Done, Null
<1>4. ASSUME NEW t \in Done, NEW i \in DOMAIN heap[t].ops
      PROVE  /\ heap[t].ops[i] \in Done
             /\ DOMAIN tm[translation[t]].ops = DOMAIN heap[t].ops
             /\ tm[translation[t]].ops[i] = translation[heap[t].ops[i]]
             /\ tm[translation[heap[t].ops[i]]].depth < tm[translation[t]].depth
    <2>1. IsTranslated(t) /\ Null \notin ToSet(heap[t].ops) /\ Null \notin ToSet(Translated(t))
        BY <1>1 DEF IsTranslated
    <2>2. /\ i \in DOMAIN Translated(t) /\ heap[t].ops[i] \in DOMAIN heap
          /\ DOMAIN Translated(t) = DOMAIN heap[t].ops
          /\ Translated(t)[i] = translation[heap[t].ops[i]]
        BY <1>1, <1>2, <1>3, <2>1, TheTranslation
    <2>3. translation[heap[t].ops[i]] # Null
        BY <2>1, <2>2 DEF ToSet
    <2>4. tm[translation[t]].ops = Translated(t) /\ DepthsAreRight(translation[t])
        BY <1>2, <1>3, <2>1 DEF IsTranslated
    <2>5. QED  BY <2>2, <2>3, <2>4 DEF Done, DepthsAreRight
<1>5. PICK depth : depth = [t \in Done |-> tm[translation[t]].depth]
    OBVIOUS
<1>6. IsDeep(heap, Done, depth)
    <2>1. IsFiniteSet(DOMAIN heap)
        BY FileIsHeap, FS_Interval DEF HeapOk
    <2>2. IsFiniteSet(Done)
        BY <2>1, FS_Subset DEF Done
    <2>3. QED  BY <1>2, <1>3, <1>4, <1>5, <2>2 DEF IsDeep
<1>7. IsDeep(tm, DOMAIN tm, TableDepth)
    BY TableIsDeep
<1>8. \A t \in Done : /\ translation[t] \in DOMAIN tm
                      /\ tm[translation[t]].id = heap[t].id
                      /\ DOMAIN tm[translation[t]].ops = DOMAIN heap[t].ops
                      /\ \A i \in DOMAIN heap[t].ops :
                            tm[translation[t]].ops[i] = translation[heap[t].ops[i]]
    <2>1. ASSUME NEW t \in Done
          PROVE  /\ tm[translation[t]].id = heap[t].id
                 /\ DOMAIN tm[translation[t]].ops = DOMAIN heap[t].ops
        <3>1. IsTranslated(t)
            BY <1>1
        <3>2. DOMAIN Translated(t) = DOMAIN heap[t].ops
            BY DEF Translated
        <3>3. QED  BY <3>1, <3>2 DEF IsTranslated
    <2>2. QED  BY <1>3, <1>4, <2>1
<1>9. QED  BY <1>3, <1>6, <1>7, <1>8, TreesAgree

LEMMA AddedAtTheEnd ==
    ASSUME FileInv, TableInv, CseInv, AddedInv
    PROVE  FileIsAdded
<1> SUFFICES ASSUME pc = "cse", cse = << >>
             PROVE  Trees = before \cup {Tree(heap, CompleteTerms)[t] : t \in CompleteTerms}
    BY DEF FileIsAdded
<1>1. CompleteTerms = Done
    <2>1. ToSet(cse) = {}
        BY DEF ToSet
    <2>2. QED  BY <2>1 DEF AddedInv
<1>2. Len(tm) \in Nat /\ DOMAIN tm = 1 .. Len(tm)
    BY TheEntries
<1>3. PICK m \in 0 .. Len(tm) :
         /\ before = {Tree(tm, DOMAIN tm)[x] : x \in 1 .. m}
         /\ \A x \in m + 1 .. Len(tm) : \E t \in Done : translation[t] = x
    BY DEF AddedInv
<1>4. \A t \in Done : /\ translation[t] \in DOMAIN tm
                      /\ Tree(tm, DOMAIN tm)[translation[t]] = Tree(heap, Done)[t]
    BY TranslationKeepsTrees
<1>5. ASSUME NEW x \in DOMAIN tm
      PROVE  Tree(tm, DOMAIN tm)[x] \in before \cup {Tree(heap, Done)[t] : t \in Done}
    <2>1. x \in 1 .. m \/ x \in m + 1 .. Len(tm)
        BY <1>2, <1>3
    <2>2. QED  BY <1>3, <1>4, <2>1
<1>6. \A x \in 1 .. m : x \in DOMAIN tm
    BY <1>2, <1>3
<1>7. Trees = before \cup {Tree(heap, Done)[t] : t \in Done}
    BY <1>3, <1>4, <1>5, <1>6 DEF Trees
<1>8. QED  BY <1>1, <1>7

(* At the end of each file the table holds the trees it held when the file    *)
(* was opened and those of the complete terms of the file, each once, over   *)
(* any files and any number of them, with cycles, missing operands and nodes *)
(* declared again (DependencyParser.cpp:252-281, CSE.cpp:9-61).              *)
THEOREM FilesAreAdded == Spec => []FileIsAdded
<1>1. Init => ParserInv /\ UsesInv /\ AddedInv
    <2>1. Init => UsesInv /\ AddedInv
        BY DEF Init, UsesInv, AddedInv
    <2>2. Init => ParserInv
        BY ParserStarts
    <2>3. QED  BY <2>1, <2>2
<1>2. ParserInv /\ UsesInv /\ AddedInv /\ [Next]_vars => (ParserInv /\ UsesInv /\ AddedInv)'
    BY NamesStep, FileStep, TableStep, UsesStep, AddedStep DEF ParserInv
<1>3. ParserInv /\ UsesInv /\ AddedInv => FileIsAdded
    BY AddedAtTheEnd DEF ParserInv
<1>4. QED  BY <1>1, <1>2, <1>3, PTL DEF Spec
=============================================================================
