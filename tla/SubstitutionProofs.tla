------------------------- MODULE SubstitutionProofs -------------------------
(***************************************************************************)
(* Theorems about Substitution for every block, every number of rounds and   *)
(* every word width.                                                        *)
(***************************************************************************)
EXTENDS Substitution, DataProofs

(* A block that the verifier of LLVM accepts. *)
WellFormed(block) ==
    /\ block \in Seq(Instruction(Len(block)))
    /\ \A i, j \in 1 .. Len(block) : block[i].id = block[j].id => i = j
    /\ \A i \in 1 .. Len(block) : \A o \in {block[i].a, block[i].b} :
          o[1] = "ins" => \E j \in 1 .. i - 1 : block[j].id = o[2]

(* The code stays such a block. *)
BlockInv ==
    /\ p \in Programs
    /\ WellFormed(code)
    /\ \E i \in 1 .. Len(code) : code[i].id = root
    /\ at \in 1 .. Len(code) + 1
    /\ times \in Nat

(* What a substitution of an operator on x and y may be: operators on x, y,   *)
(* constants and what it computed before.                                   *)
NewOperands(x, y, k) == {x, y} \cup ({"const"} \X Words) \cup ({"new"} \X (1 .. k - 1))

IsReplacement(new, x, y) ==
    /\ DOMAIN new = 1 .. Len(new)
    /\ Len(new) \in Nat \ {0}
    /\ \A k \in 1 .. Len(new) : /\ new[k].op \in Ops
                                /\ new[k].a \in NewOperands(x, y, k)
                                /\ new[k].b \in NewOperands(x, y, k)

LEMMA AllOnes == /\ Pow2[Width] \in Nat \ {0}
                 /\ 0 \in Words /\ Pow2[Width] - 1 \in Words
                 /\ BitsOf(Width, Pow2[Width] - 1) = 0 .. Width - 1
<1>1. Width \in Nat
    BY WidthAssumption
<1>2. Pow2[Width] \in Nat \ {0}
    BY <1>1, Powers
<1>3. BitsOf(Width, Pow2[Width] - 1) = 0 .. Width - 1
    BY <1>1, AllBits
<1>4. QED  BY <1>2, <1>3 DEF Words

LEMMA Replacements ==
    ASSUME NEW op, NEW x, NEW y, NEW r \in Words, NEW new \in Substitutions(op, x, y, Const(r))
    PROVE  IsReplacement(new, x, y)
<1> DEFINE z == Const(r)
           Fine(s) == IsReplacement(s, x, y)
<1>1. Const(0) \in {"const"} \X Words /\ Const(Pow2[Width] - 1) \in {"const"} \X Words
      /\ z \in {"const"} \X Words
    BY AllOnes DEF Const
<1>2. \A k \in 1 .. 20 : NewOperands(x, y, k) =
          {x, y} \cup ({"const"} \X Words) \cup {N(i) : i \in 1 .. k - 1}
    BY DEF NewOperands, N
<1> HIDE DEF z
<1>3. Fine(AddNeg(x, y))
    BY <1>1, <1>2 DEF AddNeg, IsReplacement, Neg, Not, I, Ops, N
<1>4. Fine(AddDoubleNeg(x, y))
    BY <1>1, <1>2 DEF AddDoubleNeg, IsReplacement, Neg, Not, I, Ops, N
<1>5. Fine(AddRand(x, y, z))
    BY <1>1, <1>2 DEF AddRand, IsReplacement, Neg, Not, I, Ops, N
<1>6. Fine(AddRand2(x, y, z))
    BY <1>1, <1>2 DEF AddRand2, IsReplacement, Neg, Not, I, Ops, N
<1>7. Fine(SubNeg(x, y))
    BY <1>1, <1>2 DEF SubNeg, IsReplacement, Neg, Not, I, Ops, N
<1>8. Fine(SubRand(x, y, z))
    BY <1>1, <1>2 DEF SubRand, IsReplacement, Neg, Not, I, Ops, N
<1>9. Fine(SubRand2(x, y, z))
    BY <1>1, <1>2 DEF SubRand2, IsReplacement, Neg, Not, I, Ops, N
<1>10. Fine(AndSubstitution(x, y))
    BY <1>1, <1>2 DEF AndSubstitution, IsReplacement, Neg, Not, I, Ops, N
<1>11. Fine(AndSubstitutionRand(x, y, z))
    BY <1>1, <1>2 DEF AndSubstitutionRand, IsReplacement, Neg, Not, I, Ops, N
<1>12. Fine(OrSubstitution(x, y))
    BY <1>1, <1>2 DEF OrSubstitution, IsReplacement, Neg, Not, I, Ops, N
<1>13. Fine(OrSubstitutionRand(x, y, z))
    BY <1>1, <1>2 DEF OrSubstitutionRand, IsReplacement, Neg, Not, I, Ops, N
<1>14. Fine(XorSubstitution(x, y))
    BY <1>1, <1>2 DEF XorSubstitution, IsReplacement, Neg, Not, I, Ops, N
<1>15. Fine(XorSubstitutionRand(x, y, z))
    BY <1>1, <1>2 DEF XorSubstitutionRand, IsReplacement, Neg, Not, I, Ops, N
<1>16. QED
    BY <1>3, <1>4, <1>5, <1>6, <1>7, <1>8, <1>9, <1>10, <1>11, <1>12, <1>13, <1>14, <1>15 DEF Substitutions, z

(* An addition or subtraction that must not wrap. *)
Flagged(ins) == ins.op \in {"add", "sub"} /\ (ins.nsw \/ ins.nuw)

(* Where an instruction of the block is after new ones went in at at. *)
Place(i, new) == IF i < at THEN i ELSE i + Len(new)

Replaced(new) ==
    Renamed(Inserted(Instructions(new, code[at])), code[at].id, Len(code) + Len(new))

(* An operand in the new block. *)
Current(o, new) == Named(o, code[at].id, Len(code) + Len(new))

PutBefore(s, t, k) == SubSeq(s, 1, k - 1) \o t \o SubSeq(s, k, Len(s))

IsPut(s, t, k, u) ==
    /\ Len(u) = Len(s) + Len(t)
    /\ \A i \in 1 .. Len(s) : u[IF i < k THEN i ELSE i + Len(t)] = s[i]
    /\ \A i \in 1 .. Len(t) : u[k - 1 + i] = t[i]

LEMMA InsertedElements ==
    ASSUME NEW S, NEW s \in Seq(S), NEW t \in Seq(S), NEW k \in 1 .. Len(s)
    PROVE  PutBefore(s, t, k) \in Seq(S) /\ IsPut(s, t, k, PutBefore(s, t, k))
<1> DEFINE v == SubSeq(s, 1, k - 1)
           w == SubSeq(s, k, Len(s))
<1>1. /\ v \in Seq(S) /\ Len(v) = k - 1 /\ \A i \in 1 .. k - 1 : v[i] = s[i]
      /\ w \in Seq(S) /\ Len(w) = Len(s) - k + 1
      /\ \A i \in 1 .. Len(s) - k + 1 : w[i] = s[k - 1 + i]
    OBVIOUS
<1> HIDE DEF v, w
<1>2. PICK m \in Nat, n \in Nat, l \in Nat :
         m = Len(s) /\ n = Len(t) /\ l = k - 1 /\ l < m /\ k = l + 1
    <2>1. Len(s) \in Nat /\ Len(t) \in Nat
        OBVIOUS
    <2>2. k - 1 \in Nat /\ k - 1 < Len(s) /\ k = (k - 1) + 1
        BY <2>1
    <2>3. QED  BY <2>1, <2>2
<1>3. /\ v \o t \in Seq(S) /\ Len(v \o t) = l + n
      /\ \A i \in 1 .. l + n : (v \o t)[i] = IF i <= l THEN v[i] ELSE t[i - l]
    <2>1. Len(v) = l /\ Len(t) = n
        BY <1>1, <1>2
    <2>2. /\ v \o t \in Seq(S) /\ Len(v \o t) = Len(v) + Len(t)
          /\ \A i \in 1 .. Len(v) + Len(t) :
                (v \o t)[i] = IF i <= Len(v) THEN v[i] ELSE t[i - Len(v)]
        BY <1>1, ConcatProperties
    <2>3. QED  BY <2>1, <2>2
<1> DEFINE vt == v \o t
<1> HIDE DEF vt
<1>3a. vt \in Seq(S) /\ Len(vt) = l + n
       /\ \A i \in 1 .. l + n : vt[i] = IF i <= l THEN v[i] ELSE t[i - l]
    BY <1>3 DEF vt
<1>4. /\ vt \o w \in Seq(S) /\ Len(vt \o w) = m + n
      /\ \A i \in 1 .. m + n : (vt \o w)[i] = IF i <= l + n THEN vt[i] ELSE w[i - (l + n)]
    <2>1. /\ vt \o w \in Seq(S) /\ Len(vt \o w) = Len(vt) + Len(w)
          /\ \A i \in 1 .. Len(vt) + Len(w) :
                (vt \o w)[i] = IF i <= Len(vt) THEN vt[i] ELSE w[i - Len(vt)]
        BY <1>1, <1>3a, ConcatProperties
    <2>2. Len(vt) = l + n /\ Len(w) = m - l
        BY <1>1, <1>2, <1>3a
    <2>3. Len(vt) + Len(w) = m + n
        BY <1>2, <2>2
    <2>4. QED  BY <2>1, <2>2, <2>3
<1> DEFINE u == vt \o w
<1> HIDE DEF u
<1>5. ASSUME NEW i \in 1 .. m, i < k PROVE u[i] = s[i]
    <2>1. i \in 1 .. l /\ i \in 1 .. l + n /\ i \in 1 .. m + n /\ i \in 1 .. k - 1
          /\ i <= l /\ i <= l + n
        BY <1>2, <1>5
    <2>2. u[i] = vt[i]
        BY <1>4, <2>1 DEF u
    <2>3. vt[i] = v[i]
        BY <1>3a, <2>1
    <2>4. v[i] = s[i]
        BY <1>1, <2>1
    <2>5. QED  BY <2>2, <2>3, <2>4
<1>6. ASSUME NEW i \in 1 .. m, ~ (i < k) PROVE u[i + n] = s[i]
    <2>1. PICK j \in 1 .. m + n : j = i + n /\ ~ (j <= l + n) /\ j - (l + n) = i - l
        <3>1. i + n \in 1 .. m + n /\ ~ (i + n <= l + n) /\ (i + n) - (l + n) = i - l
            BY <1>2, <1>6
        <3>2. QED  BY <3>1
    <2>2. u[j] = w[i - l]
        BY <1>4, <2>1 DEF u
    <2>3. i - l \in 1 .. m - k + 1 /\ k - 1 + (i - l) = i
        BY <1>2, <1>6
    <2>4. w[i - l] = s[i]
        <3>1. PICK g \in 1 .. m - k + 1 : g = i - l /\ k - 1 + g = i
            BY <2>3
        <3>2. QED  BY <1>1, <1>2, <3>1
    <2>5. QED  BY <2>1, <2>2, <2>4
<1>7. ASSUME NEW i \in 1 .. n PROVE u[k - 1 + i] = t[i]
    <2>1. k - 1 + i = l + i /\ l + i \in 1 .. l + n /\ l + i \in 1 .. m + n
          /\ l + i <= l + n /\ ~ (l + i <= l) /\ (l + i) - l = i
        BY <1>2
    <2>2. u[l + i] = vt[l + i]
        BY <1>4, <2>1 DEF u
    <2>3. vt[l + i] = t[i]
        BY <1>3a, <2>1
    <2>4. QED  BY <2>1, <2>2, <2>3
<1>8. u = PutBefore(s, t, k)
    BY DEF u, vt, v, w, PutBefore
<1>9. u \in Seq(S) /\ Len(u) = m + n
    BY <1>4 DEF u
<1>10. \A i \in 1 .. m : u[IF i < k THEN i ELSE i + n] = s[i]
    BY <1>5, <1>6
<1>11. IsPut(s, t, k, u)
    BY <1>2, <1>7, <1>9, <1>10 DEF IsPut
<1>12. QED  BY <1>8, <1>9, <1>11

LEMMA SplitPlaces ==
    ASSUME NEW m \in Nat, NEW n \in Nat, NEW k \in 1 .. m, NEW j \in 1 .. m + n
    PROVE  \/ j \in 1 .. m /\ j < k
           \/ j - k + 1 \in 1 .. n /\ j = k - 1 + (j - k + 1)
           \/ j - n \in 1 .. m /\ ~ (j - n < k) /\ j = (j - n) + n
OBVIOUS

LEMMA OperandsGrow ==
    ASSUME NEW m \in Nat, NEW n \in Nat, m <= n
    PROVE  Operands(m) \subseteq Operands(n) /\ Instruction(m) \subseteq Instruction(n)
<1>1. Operands(m) \subseteq Operands(n)
    BY DEF Operands
<1>2. 1 .. m \subseteq 1 .. n
    OBVIOUS
<1>3. QED  BY <1>1, <1>2 DEF Instruction

(* A new operand is one of the operator's, a constant, or a new instruction. *)
LEMMA PlacedOperands ==
    ASSUME NEW m \in Nat, NEW x \in Operands(m), NEW y \in Operands(m),
           NEW k \in Nat, NEW n \in Nat, k <= n, NEW o \in NewOperands(x, y, k)
    PROVE  /\ Placed(o, m) \in Operands(m + n)
           /\ \/ Placed(o, m) = o /\ o \in {x, y} /\ o[1] # "new"
              \/ Placed(o, m) = o /\ o[1] = "const" /\ o[2] \in Words
              \/ Placed(o, m) = <<"ins", m + o[2]>> /\ o[1] = "new" /\ o[2] \in 1 .. k - 1
<1>1. \A v \in Operands(m) : v[1] # "new" /\ v \in Operands(m + n)
    BY DEF Operands
<1>2. CASE o \in {x, y}
    BY <1>1, <1>2 DEF Placed
<1>3. CASE o \in {"const"} \X Words
    BY <1>3 DEF Placed, Operands
<1>4. CASE o \in {"new"} \X (1 .. k - 1)
    <2>1. o[1] = "new" /\ o[2] \in 1 .. k - 1 /\ m + o[2] \in 1 .. m + n
        BY <1>4
    <2>2. QED  BY <2>1 DEF Placed, Operands
<1>5. QED  BY <1>2, <1>3, <1>4 DEF NewOperands

LEMMA InstructionsAre ==
    ASSUME BlockInv, at \in 1 .. Len(code),
           NEW new, IsReplacement(new, code[at].a, code[at].b)
    PROVE  LET s == Instructions(new, code[at])
           IN  /\ s \in Seq(Instruction(Len(code) + Len(new)))
               /\ Len(s) = Len(new)
               /\ \A k \in 1 .. Len(new) :
                     /\ s[k].id = Len(code) + k
                     /\ s[k].op = new[k].op
                     /\ s[k].a = Placed(new[k].a, Len(code))
                     /\ s[k].b = Placed(new[k].b, Len(code))
                     /\ s[k].nsw \/ s[k].nuw => Flagged(code[at])
<1> DEFINE s == Instructions(new, code[at])
           n == Len(new)
           m == Len(code)
           flagged(k) == k = Len(new) /\ code[at].op \in {"add", "sub"}
<1>1. m \in Nat /\ n \in Nat \ {0} /\ DOMAIN new = 1 .. n /\ code[at] \in Instruction(m)
    BY DEF BlockInv, WellFormed, IsReplacement
<1>2. s = [k \in 1 .. n |->
              [id |-> m + k, op |-> new[k].op, a |-> Placed(new[k].a, m),
               b |-> Placed(new[k].b, m), nsw |-> flagged(k) /\ code[at].nsw,
               nuw |-> flagged(k) /\ code[at].nuw]]
    BY <1>1 DEF Instructions
<1> HIDE DEF s
<1>3. ASSUME NEW k \in 1 .. n PROVE s[k] \in Instruction(m + n)
    <2>1. code[at].a \in Operands(m) /\ code[at].b \in Operands(m)
          /\ code[at].nsw \in BOOLEAN /\ code[at].nuw \in BOOLEAN
        BY <1>1 DEF Instruction
    <2>2. new[k].op \in Ops /\ m + k \in 1 .. m + n
          /\ new[k].a \in NewOperands(code[at].a, code[at].b, k)
          /\ new[k].b \in NewOperands(code[at].a, code[at].b, k)
        BY <1>1 DEF IsReplacement
    <2>3. Placed(new[k].a, m) \in Operands(m + n) /\ Placed(new[k].b, m) \in Operands(m + n)
        <3>1. k \in Nat /\ k <= n
            BY <1>1
        <3> HIDE DEF m, n
        <3>2. QED  BY <1>1, <2>1, <2>2, <3>1, PlacedOperands
    <2> HIDE DEF m, n
    <2>4. QED  BY <1>2, <2>1, <2>2, <2>3 DEF Instruction
<1>4. s \in Seq(Instruction(m + n)) /\ Len(s) = n
    <2> HIDE DEF m, n
    <2>1. s \in [1 .. n -> Instruction(m + n)]
        BY <1>2, <1>3
    <2>2. QED  BY <1>1, <2>1
<1>5. \A k \in 1 .. n :
         /\ s[k].id = m + k /\ s[k].op = new[k].op
         /\ s[k].a = Placed(new[k].a, m) /\ s[k].b = Placed(new[k].b, m)
         /\ s[k].nsw \/ s[k].nuw => Flagged(code[at])
    <2> HIDE DEF m, n
    <2>1. QED  BY <1>2 DEF Flagged
<1>6. QED  BY <1>4, <1>5 DEF s

(* The new block: the instructions that were there, ... *)
Kept(new) ==
    \A i \in 1 .. Len(code) :
        LET c == Replaced(new)[Place(i, new)]
        IN  /\ c.id = code[i].id /\ c.op = code[i].op
            /\ c.a = Current(code[i].a, new) /\ c.b = Current(code[i].b, new)
            /\ c.nsw = code[i].nsw /\ c.nuw = code[i].nuw

(* ... and the new ones. *)
Added(new) ==
    \A k \in 1 .. Len(new) :
        LET c == Replaced(new)[at - 1 + k]
        IN  /\ c.id = Len(code) + k /\ c.op = new[k].op
            /\ c.a = Current(Placed(new[k].a, Len(code)), new)
            /\ c.b = Current(Placed(new[k].b, Len(code)), new)
            /\ c.nsw \/ c.nuw => Flagged(code[at])

AllPlaces(new) ==
    \A j \in 1 .. Len(code) + Len(new) :
        \/ \E i \in 1 .. Len(code) : j = Place(i, new)
        \/ \E k \in 1 .. Len(new) : j = at - 1 + k

LEMMA ReplacedAre ==
    ASSUME BlockInv, at \in 1 .. Len(code),
           NEW new, IsReplacement(new, code[at].a, code[at].b)
    PROVE  /\ Replaced(new) \in Seq(Instruction(Len(code) + Len(new)))
           /\ Len(Replaced(new)) = Len(code) + Len(new)
           /\ Kept(new) /\ Added(new) /\ AllPlaces(new)
<1> DEFINE s == Instructions(new, code[at])
           n == Len(new)
           m == Len(code)
           b == Inserted(s)
           S == Instruction(m + n)
           old == code[at].id
           last == m + n
<1>1. m \in Nat /\ n \in Nat \ {0} /\ code[at] \in Instruction(m) /\ old \in 1 .. m
    <2>1. m \in Nat /\ n \in Nat \ {0} /\ code[at] \in Instruction(m)
        BY DEF BlockInv, WellFormed, IsReplacement
    <2>2. \A c \in Instruction(m) : c.id \in 1 .. m
        BY DEF Instruction
    <2>3. QED  BY <2>1, <2>2
<1>2. s \in Seq(S) /\ Len(s) = n
    BY InstructionsAre
<1>3. code \in Seq(S)
    <2>1. code \in Seq(Instruction(m)) /\ Instruction(m) \subseteq S
        BY <1>1, OperandsGrow DEF BlockInv, WellFormed
    <2> HIDE DEF S, m
    <2>2. QED  BY <2>1
<1>4. /\ b \in Seq(S) /\ Len(b) = m + n
      /\ \A i \in 1 .. m : b[Place(i, new)] = code[i]
      /\ \A k \in 1 .. n : b[at - 1 + k] = s[k]
    <2> DEFINE u == PutBefore(code, s, at)
    <2>1. b = u
        BY DEF Inserted, PutBefore
    <2>2. u \in Seq(S) /\ IsPut(code, s, at, u)
        <3> HIDE DEF s, S
        <3>1. QED  BY <1>2, <1>3, InsertedElements
    <2> HIDE DEF b, u, s, S
    <2>3. QED  BY <1>2, <2>1, <2>2 DEF Place, IsPut
<1>5. Replaced(new) = Renamed(b, old, last)
    BY DEF Replaced
<1> HIDE DEF b
<1>6. Replaced(new) = [i \in 1 .. m + n |-> [b[i] EXCEPT !.a = Current(@, new), !.b = Current(@, new)]]
    <2>1. DOMAIN b = 1 .. m + n
        BY <1>1, <1>4
    <2>2. QED  BY <1>5, <2>1 DEF Renamed, Current
<1>7. \A o \in Operands(m + n) : Current(o, new) \in Operands(m + n)
    <2>1. last \in 1 .. m + n
        BY <1>1
    <2>2. QED  BY <2>1 DEF Current, Named, Operands
<1>8. ASSUME NEW i \in 1 .. m + n
      PROVE  /\ Replaced(new)[i] \in S
             /\ Replaced(new)[i].id = b[i].id /\ Replaced(new)[i].op = b[i].op
             /\ Replaced(new)[i].a = Current(b[i].a, new)
             /\ Replaced(new)[i].b = Current(b[i].b, new)
             /\ Replaced(new)[i].nsw = b[i].nsw /\ Replaced(new)[i].nuw = b[i].nuw
    <2>1. b[i] \in S
        BY <1>1, <1>4
    <2>2. PICK c \in S : c = b[i]
        BY <2>1
    <2>3. Replaced(new)[i] = [c EXCEPT !.a = Current(@, new), !.b = Current(@, new)]
        BY <1>6, <2>2
    <2>4. Current(c.a, new) \in Operands(m + n) /\ Current(c.b, new) \in Operands(m + n)
        BY <1>7 DEF Instruction
    <2> HIDE DEF m, n
    <2>5. QED  BY <2>2, <2>3, <2>4 DEF Instruction
<1>9. Replaced(new) \in Seq(S) /\ Len(Replaced(new)) = m + n
    <2>1. Replaced(new) \in [1 .. m + n -> S]
        BY <1>6, <1>8
    <2> HIDE DEF S
    <2>2. QED  BY <1>1, <2>1
<1>10. \A i \in 1 .. m : Place(i, new) \in 1 .. m + n
    BY <1>1 DEF Place
<1>11. \A k \in 1 .. n : at - 1 + k \in 1 .. m + n
    BY <1>1
<1>12. Kept(new)
    BY <1>4, <1>8, <1>10 DEF Kept
<1>13. Added(new)
    <2>1. \A k \in 1 .. n :
             /\ s[k].id = m + k
             /\ s[k].op = new[k].op
             /\ s[k].a = Placed(new[k].a, m)
             /\ s[k].b = Placed(new[k].b, m)
             /\ s[k].nsw \/ s[k].nuw => Flagged(code[at])
        BY InstructionsAre
    <2> HIDE DEF s
    <2>2. ASSUME NEW k \in 1 .. n
          PROVE  LET c == Replaced(new)[at - 1 + k]
                 IN  /\ c.id = m + k /\ c.op = new[k].op
                     /\ c.a = Current(Placed(new[k].a, m), new)
                     /\ c.b = Current(Placed(new[k].b, m), new)
                     /\ c.nsw \/ c.nuw => Flagged(code[at])
        <3>1. PICK j \in 1 .. m + n : j = at - 1 + k
            BY <1>11
        <3>2. b[j] = s[k]
            BY <1>4, <3>1
        <3> HIDE DEF m, n
        <3>3. QED  BY <1>8, <2>1, <3>1, <3>2
    <2>3. QED  BY <2>2 DEF Added
<1>14. AllPlaces(new)
    <2>1. ASSUME NEW j \in 1 .. m + n
          PROVE  \/ \E i \in 1 .. m : j = Place(i, new)
                 \/ \E k \in 1 .. n : j = at - 1 + k
        <3>1. \/ j \in 1 .. m /\ j < at
              \/ j - at + 1 \in 1 .. n /\ j = at - 1 + (j - at + 1)
              \/ j - n \in 1 .. m /\ ~ (j - n < at) /\ j = (j - n) + n
            <4> HIDE DEF m, n
            <4>1. m \in Nat /\ n \in Nat /\ at \in 1 .. m
                BY <1>1 DEF m
            <4>2. QED  BY <4>1, SplitPlaces
        <3> HIDE DEF m, n
        <3>2. CASE j \in 1 .. m /\ j < at
            BY <3>2 DEF Place
        <3>3. CASE j - at + 1 \in 1 .. n /\ j = at - 1 + (j - at + 1)
            BY <3>3
        <3>4. CASE j - n \in 1 .. m /\ ~ (j - n < at) /\ j = (j - n) + n
            <4>1. Place(j - n, new) = (j - n) + n
                BY <3>4 DEF Place, n
            <4>2. QED  BY <3>4, <4>1
        <3>5. QED  BY <3>1, <3>2, <3>3, <3>4
    <2>2. QED  BY <2>1 DEF AllPlaces
<1>15. QED  BY <1>9, <1>12, <1>13, <1>14

-----------------------------------------------------------------------------
(* What is used comes before its uses in the new block too.                  *)
LEMMA UsesOfOperator ==
    ASSUME BlockInv, at \in 1 .. Len(code)
    PROVE  /\ code[at].a # <<"ins", code[at].id>>
           /\ code[at].b # <<"ins", code[at].id>>
           /\ \A i \in 1 .. Len(code) :
                 <<"ins", code[at].id>> \in {code[i].a, code[i].b} => at < i
<1>1. ASSUME NEW i \in 1 .. Len(code), <<"ins", code[at].id>> \in {code[i].a, code[i].b}
      PROVE  at < i
    <2>1. PICK j \in 1 .. i - 1 : code[j].id = code[at].id
        <3>1. PICK o \in {code[i].a, code[i].b} : o[1] = "ins" /\ o[2] = code[at].id
            BY <1>1
        <3>2. QED  BY <3>1 DEF BlockInv, WellFormed
    <2>2. j \in 1 .. Len(code)
        OBVIOUS
    <2>3. j = at
        BY <2>1, <2>2 DEF BlockInv, WellFormed
    <2>4. QED  BY <2>3
<1>2. ~ (at < at)
    OBVIOUS
<1>3. QED  BY <1>1, <1>2

LEMMA ReplacedIsWellFormed ==
    ASSUME BlockInv, at \in 1 .. Len(code),
           NEW new, IsReplacement(new, code[at].a, code[at].b)
    PROVE  WellFormed(Replaced(new))
<1> DEFINE c == Replaced(new)
           old == code[at].id
<1>1. PICK m \in Nat, n \in Nat : m = Len(code) /\ n = Len(new) /\ n # 0
    <2>1. Len(code) \in Nat /\ Len(new) \in Nat \ {0}
        BY DEF BlockInv, WellFormed, IsReplacement
    <2>2. QED  BY <2>1
<1>2. /\ c \in Seq(Instruction(m + n)) /\ Len(c) = m + n
      /\ Kept(new) /\ Added(new) /\ AllPlaces(new)
    BY <1>1, ReplacedAre
<1>3. /\ \A i \in 1 .. m : code[i] \in Instruction(m) /\ code[i].id \in 1 .. m
      /\ \A i, j \in 1 .. m : code[i].id = code[j].id => i = j
    <2>1. \A i \in 1 .. m : code[i] \in Instruction(m)
        BY <1>1 DEF BlockInv, WellFormed
    <2>2. QED  BY <1>1, <2>1 DEF BlockInv, WellFormed, Instruction
<1> HIDE DEF c
<1>4. ASSUME NEW i \in 1 .. m
      PROVE  /\ Place(i, new) \in 1 .. m + n /\ c[Place(i, new)].id = code[i].id
             /\ c[Place(i, new)].a = Current(code[i].a, new)
             /\ c[Place(i, new)].b = Current(code[i].b, new)
    BY <1>1, <1>2 DEF Kept, Place, c
<1>5. ASSUME NEW k \in 1 .. n
      PROVE  /\ at - 1 + k \in 1 .. m + n /\ c[at - 1 + k].id = m + k
             /\ c[at - 1 + k].a = Current(Placed(new[k].a, m), new)
             /\ c[at - 1 + k].b = Current(Placed(new[k].b, m), new)
    <2>1. at - 1 + k \in 1 .. m + n
        BY <1>1
    <2>2. QED  BY <1>1, <1>2, <2>1 DEF Added, c
<1>6. \A j \in 1 .. m + n : \/ \E i \in 1 .. m : j = Place(i, new)
                            \/ \E k \in 1 .. n : j = at - 1 + k
    BY <1>1, <1>2 DEF AllPlaces
<1>7. ASSUME NEW i \in 1 .. m + n, NEW j \in 1 .. m + n, c[i].id = c[j].id
      PROVE  i = j
    <2>1. CASE \E g \in 1 .. m : i = Place(g, new)
        <3>1. PICK g \in 1 .. m : i = Place(g, new)
            BY <2>1
        <3>2. c[i].id = code[g].id /\ c[i].id \in 1 .. m
            BY <1>3, <1>4, <3>1
        <3>3. CASE \E h \in 1 .. m : j = Place(h, new)
            BY <1>3, <1>4, <1>7, <3>1, <3>2, <3>3
        <3>4. CASE \E k \in 1 .. n : j = at - 1 + k
            <4>1. PICK k \in 1 .. n : j = at - 1 + k
                BY <3>4
            <4>2. c[j].id = m + k
                BY <1>5, <4>1
            <4>3. m + k \notin 1 .. m
                OBVIOUS
            <4>4. QED  BY <1>7, <3>2, <4>2, <4>3
        <3>5. QED  BY <1>6, <3>3, <3>4
    <2>2. CASE \E k \in 1 .. n : i = at - 1 + k
        <3>1. PICK k \in 1 .. n : i = at - 1 + k
            BY <2>2
        <3>2. c[i].id = m + k
            BY <1>5, <3>1
        <3>3. CASE \E h \in 1 .. m : j = Place(h, new)
            <4>1. c[j].id \in 1 .. m
                <5>1. PICK h \in 1 .. m : j = Place(h, new)
                    BY <3>3
                <5>2. QED  BY <1>3, <1>4, <5>1
            <4>2. m + k \notin 1 .. m
                OBVIOUS
            <4>3. QED  BY <1>7, <3>2, <4>1, <4>2
        <3>4. CASE \E l \in 1 .. n : j = at - 1 + l
            <4>1. PICK l \in 1 .. n : j = at - 1 + l
                BY <3>4
            <4>2. c[j].id = m + l
                BY <1>5, <4>1
            <4>3. k = l
                <5>1. m + k = m + l
                    BY <1>7, <3>2, <4>2
                <5>2. QED  BY <5>1
            <4>4. QED  BY <3>1, <4>1, <4>3
        <3>5. QED  BY <1>6, <3>3, <3>4
    <2>3. QED  BY <1>6, <2>1, <2>2
<1>8. ASSUME NEW o, NEW i \in 1 .. m, o \in {code[i].a, code[i].b},
             Current(o, new)[1] = "ins"
      PROVE  \E j \in 1 .. Place(i, new) - 1 : c[j].id = Current(o, new)[2]
    <2>1. CASE o = <<"ins", old>>
        <3>1. at < i
            BY <1>1, <1>8, <2>1, UsesOfOperator
        <3>2. Current(o, new)[2] = m + n
            BY <1>1, <2>1 DEF Current, Named
        <3>3. n \in 1 .. n /\ at - 1 + n \in 1 .. Place(i, new) - 1
            BY <1>1, <3>1 DEF Place
        <3>4. QED  BY <1>5, <3>2, <3>3
    <2>2. CASE o # <<"ins", old>>
        <3>1. Current(o, new) = o
            BY <2>2 DEF Current, Named
        <3>2. PICK j \in 1 .. i - 1 : code[j].id = o[2]
            BY <1>1, <1>8, <3>1 DEF BlockInv, WellFormed
        <3>3. j \in 1 .. m /\ Place(j, new) \in 1 .. Place(i, new) - 1
            BY <1>1 DEF Place
        <3>4. QED  BY <1>4, <3>1, <3>2, <3>3
    <2>3. QED  BY <2>1, <2>2
<1>9. ASSUME NEW k \in 1 .. n, NEW o \in NewOperands(code[at].a, code[at].b, k),
             Current(Placed(o, m), new)[1] = "ins"
      PROVE  \E j \in 1 .. at - 1 + k - 1 : c[j].id = Current(Placed(o, m), new)[2]
    <2>1. \/ Placed(o, m) = o /\ o \in {code[at].a, code[at].b} /\ o[1] # "new"
          \/ Placed(o, m) = o /\ o[1] = "const" /\ o[2] \in Words
          \/ Placed(o, m) = <<"ins", m + o[2]>> /\ o[1] = "new" /\ o[2] \in 1 .. k - 1
        <3>1. code[at].a \in Operands(m) /\ code[at].b \in Operands(m) /\ k \in Nat /\ k <= n
            BY <1>1, <1>3 DEF Instruction
        <3>2. QED  BY <3>1, PlacedOperands
    <2>2. CASE Placed(o, m) = o /\ o \in {code[at].a, code[at].b}
        <3>1. Current(Placed(o, m), new) = o
            BY <2>2, UsesOfOperator DEF Current, Named
        <3>2. PICK j \in 1 .. at - 1 : code[j].id = o[2]
            BY <1>9, <2>2, <3>1 DEF BlockInv, WellFormed
        <3>3. j \in 1 .. m /\ Place(j, new) = j /\ j \in 1 .. at - 1 + k - 1
            BY <1>1 DEF Place
        <3>4. QED  BY <1>4, <3>1, <3>2, <3>3
    <2>3. CASE Placed(o, m) = o /\ o[1] = "const"
        BY <1>9, <2>3 DEF Current, Named
    <2>4. CASE Placed(o, m) = <<"ins", m + o[2]>> /\ o[2] \in 1 .. k - 1
        <3>1. old \in 1 .. m
            BY <1>1, <1>3
        <3>2. Current(Placed(o, m), new)[2] = m + o[2]
            <4>1. m + o[2] # old
                BY <2>4, <3>1
            <4> HIDE DEF old
            <4>2. QED  BY <2>4, <4>1 DEF Current, Named, old
        <3>3. o[2] \in 1 .. n /\ at - 1 + o[2] \in 1 .. at - 1 + k - 1
            BY <1>1, <2>4
        <3>4. QED  BY <1>5, <3>2, <3>3
    <2>5. QED  BY <2>1, <2>2, <2>3, <2>4
<1>10. ASSUME NEW i \in 1 .. m + n, NEW o \in {c[i].a, c[i].b}, o[1] = "ins"
       PROVE  \E j \in 1 .. i - 1 : c[j].id = o[2]
    <2>1. CASE \E g \in 1 .. m : i = Place(g, new)
        <3>1. PICK g \in 1 .. m : i = Place(g, new)
            BY <2>1
        <3>2. PICK q \in {code[g].a, code[g].b} : o = Current(q, new)
            BY <1>4, <1>10, <3>1
        <3>3. QED  BY <1>8, <1>10, <3>1, <3>2
    <2>2. CASE \E k \in 1 .. n : i = at - 1 + k
        <3>1. PICK k \in 1 .. n : i = at - 1 + k
            BY <2>2
        <3>2. PICK q \in NewOperands(code[at].a, code[at].b, k) : o = Current(Placed(q, m), new)
            BY <1>1, <1>5, <1>10, <3>1 DEF IsReplacement
        <3>3. QED  BY <1>9, <1>10, <3>1, <3>2
    <2>3. QED  BY <1>6, <2>1, <2>2
<1>11. QED  BY <1>2, <1>7, <1>10 DEF WellFormed, c

LEMMA StepKeepsBlockInv ==
    ASSUME BlockInv, [Next]_vars
    PROVE  BlockInv'
<1>1. CASE Substitute
    <2>1. at \in 1 .. Len(code)
        BY <1>1 DEF BlockInv, Substitute, InRound
    <2>2. PICK r \in Randoms :
             \E new \in Substitutions(code[at].op, code[at].a, code[at].b, Const(r)) :
                /\ code' = Replaced(new)
                /\ root' = IF root = code[at].id THEN Len(code) + Len(new) ELSE root
                /\ at' = at + Len(new) + 1
                /\ UNCHANGED <<p, times>>
        BY <1>1 DEF Substitute, Replaced
    <2>3. PICK new \in Substitutions(code[at].op, code[at].a, code[at].b, Const(r)) :
             /\ code' = Replaced(new)
             /\ root' = IF root = code[at].id THEN Len(code) + Len(new) ELSE root
             /\ at' = at + Len(new) + 1
             /\ UNCHANGED <<p, times>>
        BY <2>2
    <2>4. IsReplacement(new, code[at].a, code[at].b)
        BY Replacements, RandomsAssumption
    <2>5. /\ Len(code) \in Nat /\ Len(new) \in Nat \ {0}
          /\ Len(code') = Len(code) + Len(new)
          /\ Kept(new) /\ Added(new)
        <3>1. Len(code) \in Nat /\ Len(new) \in Nat \ {0}
            BY <2>4 DEF BlockInv, WellFormed, IsReplacement
        <3>2. /\ Len(Replaced(new)) = Len(code) + Len(new)
              /\ Kept(new) /\ Added(new)
            BY <2>1, <2>4, ReplacedAre
        <3>3. QED  BY <2>3, <3>1, <3>2
    <2>6. WellFormed(code')
        BY <2>1, <2>3, <2>4, ReplacedIsWellFormed
    <2>7. at' \in 1 .. Len(code') + 1
        BY <2>1, <2>3, <2>5
    <2>8. \E i \in 1 .. Len(code') : code'[i].id = root'
        <3>1. CASE root = code[at].id
            <4>1. root' = Len(code) + Len(new)
                BY <2>3, <3>1
            <4>2. Len(new) \in 1 .. Len(new) /\ at - 1 + Len(new) \in 1 .. Len(code')
                BY <2>1, <2>5
            <4>3. code'[at - 1 + Len(new)].id = Len(code) + Len(new)
                BY <2>3, <2>5, <4>2 DEF Added
            <4>4. QED  BY <4>1, <4>2, <4>3
        <3>2. CASE root # code[at].id
            <4>1. PICK i \in 1 .. Len(code) : code[i].id = root
                BY DEF BlockInv
            <4>2. Place(i, new) \in 1 .. Len(code')
                BY <2>5 DEF Place
            <4>3. code'[Place(i, new)].id = root'
                BY <2>3, <2>5, <3>2, <4>1 DEF Kept
            <4>4. QED  BY <4>2, <4>3
        <3>3. QED  BY <3>1, <3>2
    <2>9. p' \in Programs /\ times' \in Nat
        BY <2>3 DEF BlockInv
    <2>10. QED  BY <2>6, <2>7, <2>8, <2>9 DEF BlockInv, WellFormed
<1>2. CASE PassOver
    <2>1. Len(code) \in Nat
        BY DEF BlockInv, WellFormed
    <2>2. at' \in 1 .. Len(code') + 1
        BY <1>2, <2>1 DEF BlockInv, PassOver, InRound
    <2>3. QED  BY <1>2, <2>2 DEF BlockInv, WellFormed, PassOver
<1>3. CASE NextRound
    <2>1. Len(code) \in Nat
        BY DEF BlockInv, WellFormed
    <2>2. at' \in 1 .. Len(code') + 1 /\ times' \in Nat
        BY <1>3, <2>1 DEF BlockInv, NextRound
    <2>3. QED  BY <1>3, <2>2 DEF BlockInv, WellFormed, NextRound
<1>4. CASE UNCHANGED vars
    BY <1>4 DEF BlockInv, WellFormed, vars
<1>5. QED  BY <1>1, <1>2, <1>3, <1>4 DEF Next, Step, Done

LEMMA InitBlockInv ==
    ASSUME Init
    PROVE  BlockInv
<1>1. /\ p \in Programs /\ code = p.code /\ root = p.root /\ at = 1 /\ times = p.loops
    BY DEF Init
<1>2. /\ code \in Seq(Instruction(Len(code)))
      /\ \A i \in 1 .. Len(code) :
            /\ code[i].id = i
            /\ \A o \in {code[i].a, code[i].b} : o[1] = "ins" => o[2] < i
      /\ root \in 1 .. Len(code) /\ times \in Nat
    BY <1>1, ProgramsAssumption
<1>3. Len(code) \in Nat /\ \A i \in 1 .. Len(code) : code[i] \in Instruction(Len(code))
    BY <1>2
<1>4. ASSUME NEW i \in 1 .. Len(code), NEW o \in {code[i].a, code[i].b}, o[1] = "ins"
      PROVE  \E j \in 1 .. i - 1 : code[j].id = o[2]
    <2>1. o \in Operands(Len(code)) /\ o[2] < i
        BY <1>2, <1>3, <1>4 DEF Instruction
    <2>2. o[2] \in 1 .. Len(code)
        BY <1>4, <2>1 DEF Operands
    <2>3. o[2] \in 1 .. i - 1
        BY <1>3, <2>1, <2>2
    <2>4. QED  BY <1>2, <2>2, <2>3
<1>5. WellFormed(code)
    BY <1>2, <1>4 DEF WellFormed
<1>6. at \in 1 .. Len(code) + 1
    BY <1>1, <1>3
<1>7. QED  BY <1>1, <1>2, <1>5, <1>6 DEF BlockInv

(* Every operand of the block is computed before it is used, however often   *)
(* the pass inserts instructions and renames their uses (insertBefore and     *)
(* replaceAllUsesWith, Substitution.cpp), for every block.                   *)
THEOREM UsesStayDominated == Spec => []UsesAreDominated
<1>1. Init => BlockInv
    BY InitBlockInv
<1>2. BlockInv /\ [Next]_vars => BlockInv'
    BY StepKeepsBlockInv
<1>3. BlockInv => UsesAreDominated
    BY DEF BlockInv, WellFormed, UsesAreDominated
<1>4. QED  BY <1>1, <1>2, <1>3, PTL DEF Spec

-----------------------------------------------------------------------------
(* What the substitutions compute.  Numbers that differ by a multiple of      *)
(* 2^Width are the same word.                                               *)
Wraparounds == {k * Pow2[Width] : k \in Int}

LEMMA WraparoundsAre ==
    /\ \A c \in Wraparounds : c \in Int
    /\ \A c, d \in Wraparounds : c + d \in Wraparounds /\ c - d \in Wraparounds
<1>1. PICK m \in Nat \ {0} : m = Pow2[Width]
    BY AllOnes
<1>2. \A k, l \in Int : /\ k * m + l * m = (k + l) * m /\ k * m - l * m = (k - l) * m
                       /\ k + l \in Int /\ k - l \in Int /\ k * m \in Int
    OBVIOUS
<1>3. Wraparounds = {k * m : k \in Int}
    BY <1>1 DEF Wraparounds
<1>4. ASSUME NEW c \in Wraparounds, NEW d \in Wraparounds
      PROVE  c \in Int /\ c + d \in Wraparounds /\ c - d \in Wraparounds
    <2>1. PICK k \in Int, l \in Int : c = k * m /\ d = l * m
        BY <1>3
    <2>2. c \in Int /\ c + d = (k + l) * m /\ c - d = (k - l) * m
        BY <1>2, <2>1
    <2>3. k + l \in Int /\ k - l \in Int
        OBVIOUS
    <2>4. QED  BY <1>3, <2>2, <2>3
<1>5. QED  BY <1>4

LEMMA WordsWrap ==
    ASSUME NEW a \in Int
    PROVE  /\ a % Pow2[Width] \in Words
           /\ \E c \in Wraparounds : a % Pow2[Width] = a + c
           /\ \A v \in Words, c \in Wraparounds : v = a + c => v = a % Pow2[Width]
<1>1. PICK m \in Nat \ {0} : m = Pow2[Width]
    BY AllOnes
<1>2. a % m \in 0 .. m - 1 /\ a % m = a + (-(a \div m)) * m /\ -(a \div m) \in Int
    OBVIOUS
<1>3. ASSUME NEW v \in 0 .. m - 1, NEW k \in Int, v = a + k * m PROVE v = a % m
    <2>1. v \in Int /\ v = a + k * m
        BY <1>3
    <2>1a. v % m = a % m
        BY <2>1, SameRemainder
    <2>2. (0 * m + v) % m = v /\ 0 * m + v = v
        OBVIOUS
    <2>3. QED  BY <2>1a, <2>2
<1>4. QED  BY <1>1, <1>2, <1>3 DEF Wraparounds, Words

LEMMA Operators ==
    ASSUME NEW v \in Words, NEW w \in Words
    PROVE  /\ Calculated("add", v, w) = (v + w) % Pow2[Width]
           /\ Calculated("sub", v, w) = (v - w) % Pow2[Width]
           /\ Calculated("and", v, w) = WithBits(Width, BitsOf(Width, v) \cap BitsOf(Width, w))
           /\ Calculated("or", v, w) = WithBits(Width, BitsOf(Width, v) \cup BitsOf(Width, w))
           /\ Calculated("xor", v, w) =
                 WithBits(Width, (BitsOf(Width, v) \ BitsOf(Width, w))
                                 \cup (BitsOf(Width, w) \ BitsOf(Width, v)))
           /\ \A op \in Ops : Calculated(op, v, w) \in Words
           /\ BitsOf(Width, Calculated("and", v, w)) = BitsOf(Width, v) \cap BitsOf(Width, w)
           /\ BitsOf(Width, Calculated("or", v, w)) = BitsOf(Width, v) \cup BitsOf(Width, w)
           /\ BitsOf(Width, Calculated("xor", v, w)) =
                 (BitsOf(Width, v) \ BitsOf(Width, w)) \cup (BitsOf(Width, w) \ BitsOf(Width, v))
<1>1. /\ Calculated("add", v, w) = (v + w) % Pow2[Width]
      /\ Calculated("sub", v, w) = (v - w) % Pow2[Width]
      /\ Calculated("mul", v, w) = (v * w) % Pow2[Width]
      /\ Calculated("and", v, w) = WithBits(Width, BitsOf(Width, v) \cap BitsOf(Width, w))
      /\ Calculated("or", v, w) = WithBits(Width, BitsOf(Width, v) \cup BitsOf(Width, w))
      /\ Calculated("xor", v, w) =
            WithBits(Width, (BitsOf(Width, v) \ BitsOf(Width, w))
                            \cup (BitsOf(Width, w) \ BitsOf(Width, v)))
    BY DEF Calculated
<1>2. Width \in Nat /\ v \in Int /\ w \in Int /\ v * w \in Int
    BY AllOnes, WidthAssumption DEF Words
<1>3. (v + w) % Pow2[Width] \in Words /\ (v - w) % Pow2[Width] \in Words
      /\ (v * w) % Pow2[Width] \in Words
    <2>1. v + w \in Int /\ v - w \in Int
        BY <1>2
    <2>2. QED  BY <1>2, <2>1, WordsWrap
<1>4. \A bits \in SUBSET (0 .. Width - 1) :
         WithBits(Width, bits) \in Words /\ BitsOf(Width, WithBits(Width, bits)) = bits
    BY <1>2, WithBitsHas DEF Words
<1>5. BitsOf(Width, v) \in SUBSET (0 .. Width - 1) /\ BitsOf(Width, w) \in SUBSET (0 .. Width - 1)
    BY DEF BitsOf
<1>6. QED  BY <1>1, <1>3, <1>4, <1>5 DEF Ops

LEMMA Sums ==
    /\ \A v, w \in Words : \E c \in Wraparounds : Calculated("add", v, w) = v + w + c
    /\ \A v, w \in Words : \E c \in Wraparounds : Calculated("sub", v, w) = v - w + c
    /\ \A v, w, u \in Words : \A c \in Wraparounds :
          /\ u = v + w + c => u = Calculated("add", v, w)
          /\ u = v - w + c => u = Calculated("sub", v, w)
    /\ \A v, w \in Words : Calculated("add", v, w) \in Words /\ Calculated("sub", v, w) \in Words
    /\ \A v \in Words : v \in Int
<1>1. \A v \in Words : v \in Int
    BY AllOnes DEF Words
<1>2. ASSUME NEW v \in Words, NEW w \in Words
      PROVE  /\ \E c \in Wraparounds : Calculated("add", v, w) = v + w + c
             /\ \E c \in Wraparounds : Calculated("sub", v, w) = v - w + c
             /\ \A u \in Words : \A c \in Wraparounds :
                   /\ u = v + w + c => u = Calculated("add", v, w)
                   /\ u = v - w + c => u = Calculated("sub", v, w)
             /\ Calculated("add", v, w) \in Words /\ Calculated("sub", v, w) \in Words
    <2>1. PICK a \in Int, b \in Int : a = v + w /\ b = v - w
        BY <1>1
    <2>2. Calculated("add", v, w) = a % Pow2[Width] /\ Calculated("sub", v, w) = b % Pow2[Width]
        BY <2>1, Operators
    <2>3. /\ a % Pow2[Width] \in Words /\ b % Pow2[Width] \in Words
          /\ \E c \in Wraparounds : a % Pow2[Width] = a + c
          /\ \E c \in Wraparounds : b % Pow2[Width] = b + c
          /\ \A u \in Words, c \in Wraparounds : u = a + c => u = a % Pow2[Width]
          /\ \A u \in Words, c \in Wraparounds : u = b + c => u = b % Pow2[Width]
        BY WordsWrap
    <2>4. QED  BY <2>1, <2>2, <2>3
<1>3. QED  BY <1>1, <1>2

(* The identities behind the substitutions of additions and subtractions, ... *)
LEMMA SumIdentities ==
    ASSUME NEW X \in Words, NEW Y \in Words, NEW r \in Words
    PROVE  LET Add(v, w) == Calculated("add", v, w)
               Sub(v, w) == Calculated("sub", v, w)
           IN  /\ Sub(X, Sub(0, Y)) = Add(X, Y)
               /\ Sub(0, Add(Sub(0, X), Sub(0, Y))) = Add(X, Y)
               /\ Sub(Add(Add(X, r), Y), r) = Add(X, Y)
               /\ Add(Add(Sub(X, r), Y), r) = Add(X, Y)
               /\ Add(X, Sub(0, Y)) = Sub(X, Y)
               /\ Sub(Sub(Add(X, r), Y), r) = Sub(X, Y)
               /\ Add(Sub(Sub(X, r), Y), r) = Sub(X, Y)
<1> DEFINE Add(v, w) == Calculated("add", v, w)
           Sub(v, w) == Calculated("sub", v, w)
           W == Wraparounds
<1>1. /\ \A v, w \in Words : \E c \in W : Add(v, w) = v + w + c
      /\ \A v, w \in Words : \E c \in W : Sub(v, w) = v - w + c
      /\ \A v, w, u \in Words : \A c \in W :
            /\ u = v + w + c => u = Add(v, w)
            /\ u = v - w + c => u = Sub(v, w)
      /\ \A v, w \in Words : Add(v, w) \in Words /\ Sub(v, w) \in Words
      /\ \A v \in Words : v \in Int
      /\ 0 \in Words
    BY Sums, AllOnes
<1>2. /\ \A c \in W : c \in Int
      /\ \A c, d \in W : c + d \in W /\ c - d \in W
    BY WraparoundsAre
<1> HIDE DEF Add, Sub, W
<1>3. Sub(X, Sub(0, Y)) = Add(X, Y)
    <2>1. PICK c \in W : Sub(0, Y) = 0 - Y + c
        BY <1>1
    <2>2. PICK d \in W : Sub(X, Sub(0, Y)) = X - Sub(0, Y) + d
        BY <1>1
    <2>3. PICK e \in W : e = d - c
        BY <1>2
    <2>4. X \in Int /\ Y \in Int /\ c \in Int /\ d \in Int
        BY <1>1, <1>2
    <2>5. Sub(X, Sub(0, Y)) = X + Y + e
        BY <2>1, <2>2, <2>3, <2>4
    <2>6. Sub(X, Sub(0, Y)) \in Words
        BY <1>1
    <2>7. QED  BY <1>1, <2>5, <2>6
<1>4. Sub(0, Add(Sub(0, X), Sub(0, Y))) = Add(X, Y)
    <2>1a. PICK v \in Words, w \in Words : v = Sub(0, X) /\ w = Sub(0, Y)
        BY <1>1
    <2>1. PICK t \in Words : t = Add(v, w) /\ v = Sub(0, X) /\ w = Sub(0, Y)
        BY <1>1, <2>1a
    <2>2. PICK b \in W, c \in W : v = 0 - X + b /\ w = 0 - Y + c
        BY <1>1, <2>1
    <2>3. PICK d \in W, e \in W : t = v + w + d /\ Sub(0, t) = 0 - t + e
        BY <1>1, <2>1
    <2>4. PICK f \in W : f = ((e - d) - b) - c
        BY <1>2
    <2>5. X \in Int /\ Y \in Int /\ b \in Int /\ c \in Int /\ d \in Int /\ e \in Int
        BY <1>1, <1>2
    <2>6. Sub(0, t) = X + Y + f
        <3>1. v \in Int /\ w \in Int /\ t \in Int
            BY <1>1
        <3>2. v + w = b + c - (X + Y)
            BY <2>2, <2>5
        <3>3. Sub(0, t) = e - d - (v + w)
            BY <2>3, <2>5, <3>1
        <3>4. f = e - d - (b + c)
            BY <2>4, <2>5
        <3>5. QED  BY <2>5, <3>1, <3>2, <3>3, <3>4
    <2>7. Sub(0, t) \in Words
        BY <1>1
    <2>8. QED  BY <1>1, <2>1, <2>6, <2>7
<1>5. /\ Sub(Add(Add(X, r), Y), r) = Add(X, Y)
      /\ Sub(Sub(Add(X, r), Y), r) = Sub(X, Y)
    <2>1. PICK v \in Words, w \in Words, t \in Words :
             v = Add(X, r) /\ w = Add(v, Y) /\ t = Sub(v, Y)
        BY <1>1
    <2>2. PICK b \in W : v = X + r + b
        BY <1>1, <2>1
    <2>2a. PICK c \in W : w = v + Y + c
        BY <1>1, <2>1
    <2>2b. PICK d \in W : t = v - Y + d
        BY <1>1, <2>1
    <2>3. PICK e \in W, f \in W : Sub(w, r) = w - r + e /\ Sub(t, r) = t - r + f
        BY <1>1
    <2>4. PICK g \in W, h \in W : g = (b + c) + e /\ h = (b + d) + f
        BY <1>2
    <2>5. /\ X \in Int /\ Y \in Int /\ r \in Int
          /\ b \in Int /\ c \in Int /\ d \in Int /\ e \in Int /\ f \in Int
        BY <1>1, <1>2
    <2>6. Sub(w, r) = X + Y + g /\ Sub(t, r) = X - Y + h
        BY <2>2, <2>2a, <2>2b, <2>3, <2>4, <2>5
    <2>7. Sub(w, r) \in Words /\ Sub(t, r) \in Words
        BY <1>1
    <2>8. Sub(w, r) = Add(X, Y)
        BY <1>1, <2>6, <2>7
    <2>9. Sub(t, r) = Sub(X, Y)
        BY <1>1, <2>6, <2>7
    <2>10. QED  BY <2>1, <2>8, <2>9
<1>6. /\ Add(Add(Sub(X, r), Y), r) = Add(X, Y)
      /\ Add(Sub(Sub(X, r), Y), r) = Sub(X, Y)
    <2>1. PICK v \in Words, w \in Words, t \in Words :
             v = Sub(X, r) /\ w = Add(v, Y) /\ t = Sub(v, Y)
        BY <1>1
    <2>2. PICK b \in W : v = X - r + b
        BY <1>1, <2>1
    <2>2a. PICK c \in W : w = v + Y + c
        BY <1>1, <2>1
    <2>2b. PICK d \in W : t = v - Y + d
        BY <1>1, <2>1
    <2>3. PICK e \in W, f \in W : Add(w, r) = w + r + e /\ Add(t, r) = t + r + f
        BY <1>1
    <2>4. PICK g \in W, h \in W : g = (b + c) + e /\ h = (b + d) + f
        BY <1>2
    <2>5. /\ X \in Int /\ Y \in Int /\ r \in Int
          /\ b \in Int /\ c \in Int /\ d \in Int /\ e \in Int /\ f \in Int
        BY <1>1, <1>2
    <2>6. Add(w, r) = X + Y + g /\ Add(t, r) = X - Y + h
        BY <2>2, <2>2a, <2>2b, <2>3, <2>4, <2>5
    <2>7. Add(w, r) \in Words /\ Add(t, r) \in Words
        BY <1>1
    <2>8. Add(w, r) = Add(X, Y)
        BY <1>1, <2>6, <2>7
    <2>9. Add(t, r) = Sub(X, Y)
        BY <1>1, <2>6, <2>7
    <2>10. QED  BY <2>1, <2>8, <2>9
<1>7. Add(X, Sub(0, Y)) = Sub(X, Y)
    <2>1. PICK c \in W : Sub(0, Y) = 0 - Y + c
        BY <1>1
    <2>2. PICK d \in W : Add(X, Sub(0, Y)) = X + Sub(0, Y) + d
        BY <1>1
    <2>3. PICK e \in W : e = d + c
        BY <1>2
    <2>4. X \in Int /\ Y \in Int /\ c \in Int /\ d \in Int
        BY <1>1, <1>2
    <2>5. Add(X, Sub(0, Y)) = X - Y + e
        BY <2>1, <2>2, <2>3, <2>4
    <2>6. Add(X, Sub(0, Y)) \in Words
        BY <1>1
    <2>7. QED  BY <1>1, <2>5, <2>6
<1>8. QED  BY <1>3, <1>4, <1>5, <1>6, <1>7 DEF Add, Sub

(* ... and of the bitwise operators. *)
LEMMA BitIdentities ==
    ASSUME NEW X \in Words, NEW Y \in Words, NEW r \in Words
    PROVE  LET And(v, w) == Calculated("and", v, w)
               Or(v, w)  == Calculated("or", v, w)
               Xor(v, w) == Calculated("xor", v, w)
               Inv(v)    == Calculated("xor", v, Pow2[Width] - 1)
           IN  /\ And(Xor(X, Inv(Y)), X) = And(X, Y)
               /\ And(Inv(Or(Inv(X), Inv(Y))), Or(r, Inv(r))) = And(X, Y)
               /\ Or(And(X, Y), Xor(X, Y)) = Or(X, Y)
               /\ Or(Xor(Or(And(Inv(X), r), And(X, Inv(r))), Or(And(Inv(Y), r), And(Y, Inv(r)))),
                     And(Inv(Or(Inv(X), Inv(Y))), Or(r, Inv(r)))) = Or(X, Y)
               /\ Or(And(Y, Inv(X)), And(X, Inv(Y))) = Xor(X, Y)
               /\ Xor(Or(And(r, Inv(X)), And(X, Inv(r))), Or(And(Inv(Y), r), And(Y, Inv(r)))) = Xor(X, Y)
<1> DEFINE And(v, w) == Calculated("and", v, w)
           Or(v, w)  == Calculated("or", v, w)
           Xor(v, w) == Calculated("xor", v, w)
           Inv(v)    == Calculated("xor", v, Pow2[Width] - 1)
           B(v)      == BitsOf(Width, v)
           U         == 0 .. Width - 1
           Word(S)   == WithBits(Width, S)
           Meet(S, T) == S \cap T
           Join(S, T) == S \cup T
           Diff(S, T) == (S \ T) \cup (T \ S)
<1>1. /\ \A v, w \in Words : And(v, w) \in Words /\ Or(v, w) \in Words /\ Xor(v, w) \in Words
      /\ \A v, w \in Words : And(v, w) = Word(Meet(B(v), B(w))) /\ B(And(v, w)) = Meet(B(v), B(w))
      /\ \A v, w \in Words : Or(v, w) = Word(Join(B(v), B(w))) /\ B(Or(v, w)) = Join(B(v), B(w))
      /\ \A v, w \in Words : Xor(v, w) = Word(Diff(B(v), B(w))) /\ B(Xor(v, w)) = Diff(B(v), B(w))
    BY Operators DEF Ops
<1>2. \A v \in Words : B(v) \subseteq U
    BY DEF BitsOf
<1>3. \A v \in Words : Inv(v) \in Words /\ B(Inv(v)) = U \ B(v)
    <2>1. ASSUME NEW v \in Words PROVE Inv(v) \in Words /\ B(Inv(v)) = U \ B(v)
        <3>1. PICK o \in Words : o = Pow2[Width] - 1 /\ B(o) = U
            BY AllOnes
        <3>2. Inv(v) = Xor(v, o)
            BY <3>1
        <3>3. B(v) \subseteq U
            BY <1>2
        <3> HIDE DEF B, U, Inv, Xor
        <3>4. Diff(B(v), U) = U \ B(v)
            BY <3>3
        <3> HIDE DEF Diff
        <3>5. QED  BY <1>1, <3>1, <3>2, <3>4
    <2> HIDE DEF B, U, Inv
    <2>2. QED  BY <2>1
<1> HIDE DEF And, Or, Xor, Inv, B, U, Word, Meet, Join, Diff
<1>4. PICK nx \in Words, ny \in Words, nr \in Words : nx = Inv(X) /\ ny = Inv(Y) /\ nr = Inv(r)
    BY <1>3
<1>5. /\ B(nx) = U \ B(X) /\ B(ny) = U \ B(Y) /\ B(nr) = U \ B(r)
      /\ B(X) \subseteq U /\ B(Y) \subseteq U /\ B(r) \subseteq U
    BY <1>2, <1>3, <1>4
<1>6. And(Xor(X, ny), X) = And(X, Y)
    <2>1. PICK v \in Words : v = Xor(X, ny) /\ B(v) = Diff(B(X), B(ny))
        BY <1>1
    <2>2. Meet(B(v), B(X)) = Meet(B(X), B(Y))
        BY <1>5, <2>1 DEF Meet, Diff
    <2>3. QED  BY <1>1, <2>1, <2>2
<1>7. /\ And(Inv(Or(nx, ny)), Or(r, nr)) = And(X, Y)
      /\ And(Inv(Or(nx, ny)), Or(r, nr)) \in Words
      /\ B(And(Inv(Or(nx, ny)), Or(r, nr))) = Meet(B(X), B(Y))
    <2>1. PICK v \in Words : v = Or(nx, ny) /\ B(v) = Join(B(nx), B(ny))
        BY <1>1
    <2>2. PICK w \in Words : w = Inv(v) /\ B(w) = U \ B(v)
        BY <1>3
    <2>3. PICK t \in Words : t = Or(r, nr) /\ B(t) = Join(B(r), B(nr))
        BY <1>1
    <2>4. Meet(B(w), B(t)) = Meet(B(X), B(Y))
        BY <1>5, <2>1, <2>2, <2>3 DEF Meet, Join
    <2>5. And(w, t) = And(X, Y) /\ And(w, t) \in Words /\ B(And(w, t)) = Meet(B(X), B(Y))
        BY <1>1, <2>4
    <2>6. QED  BY <2>1, <2>2, <2>3, <2>5
<1>8. Or(And(X, Y), Xor(X, Y)) = Or(X, Y)
    <2>1. PICK v \in Words, w \in Words :
             /\ v = And(X, Y) /\ B(v) = Meet(B(X), B(Y))
             /\ w = Xor(X, Y) /\ B(w) = Diff(B(X), B(Y))
        BY <1>1
    <2>2. Join(B(v), B(w)) = Join(B(X), B(Y))
        BY <2>1 DEF Meet, Join, Diff
    <2>3. QED  BY <1>1, <2>1, <2>2
<1>9. Or(And(Y, nx), And(X, ny)) = Xor(X, Y)
    <2>1. PICK v \in Words, w \in Words :
             /\ v = And(Y, nx) /\ B(v) = Meet(B(Y), B(nx))
             /\ w = And(X, ny) /\ B(w) = Meet(B(X), B(ny))
        BY <1>1
    <2>2. Join(B(v), B(w)) = Diff(B(X), B(Y))
        BY <1>5, <2>1 DEF Meet, Join, Diff
    <2>3. QED  BY <1>1, <2>1, <2>2
<1>10. ASSUME NEW a \in Words, NEW b \in Words, NEW nb \in Words, NEW c \in Words,
              B(a) = (U \ B(b)) \cap B(r), B(nb) = B(b) \cap (U \ B(r)), c = Or(a, nb),
              B(b) \subseteq U
       PROVE  B(c) = Diff(B(b), B(r))
    <2>1. B(c) = Join(B(a), B(nb))
        BY <1>1, <1>10
    <2>2. QED  BY <1>5, <1>10, <2>1 DEF Join, Diff
<1>11. PICK c \in Words, d \in Words, k \in Words :
          /\ c = Or(And(nx, r), And(X, nr)) /\ k = Or(And(r, nx), And(X, nr))
          /\ d = Or(And(ny, r), And(Y, nr))
          /\ B(c) = Diff(B(X), B(r))
          /\ B(k) = Diff(B(X), B(r))
          /\ B(d) = Diff(B(Y), B(r))
    <2>1. PICK a \in Words, b \in Words, e \in Words, f \in Words, g \in Words :
             /\ a = And(nx, r) /\ b = And(X, nr) /\ e = And(ny, r) /\ f = And(Y, nr)
             /\ g = And(r, nx)
        BY <1>1
    <2>2. /\ B(a) = Meet(B(nx), B(r)) /\ B(b) = Meet(B(X), B(nr)) /\ B(g) = Meet(B(r), B(nx))
          /\ B(e) = Meet(B(ny), B(r)) /\ B(f) = Meet(B(Y), B(nr))
        BY <1>1, <2>1
    <2>3. /\ B(a) = (U \ B(X)) \cap B(r) /\ B(g) = (U \ B(X)) \cap B(r)
          /\ B(b) = B(X) \cap (U \ B(r))
          /\ B(e) = (U \ B(Y)) \cap B(r) /\ B(f) = B(Y) \cap (U \ B(r))
        BY <1>5, <2>2 DEF Meet
    <2>4. PICK c \in Words, d \in Words, k \in Words : c = Or(a, b) /\ d = Or(e, f) /\ k = Or(g, b)
        BY <1>1
    <2>5. /\ B(c) = Diff(B(X), B(r))
          /\ B(k) = Diff(B(X), B(r))
          /\ B(d) = Diff(B(Y), B(r))
        BY <1>5, <1>10, <2>3, <2>4
    <2>6. QED  BY <2>1, <2>4, <2>5
<1>12. /\ Xor(c, d) \in Words
       /\ B(Xor(c, d)) = Diff(B(X), B(Y))
       /\ Xor(k, d) = Xor(X, Y)
    <2>1. Diff(B(c), B(d)) = Diff(B(X), B(Y)) /\ Diff(B(k), B(d)) = Diff(B(X), B(Y))
        BY <1>11 DEF Diff
    <2>2. QED  BY <1>1, <2>1
<1>13. Or(Xor(c, d), And(Inv(Or(nx, ny)), Or(r, nr))) = Or(X, Y)
    <2>1. PICK v \in Words, w \in Words :
             /\ v = Xor(c, d) /\ B(v) = Diff(B(X), B(Y))
             /\ w = And(Inv(Or(nx, ny)), Or(r, nr)) /\ B(w) = Meet(B(X), B(Y))
        BY <1>7, <1>12
    <2>2. Join(B(v), B(w)) = Join(B(X), B(Y))
        BY <2>1 DEF Meet, Join, Diff
    <2>3. QED  BY <1>1, <2>1, <2>2
<1>14. QED
    BY <1>4, <1>6, <1>7, <1>8, <1>9, <1>11, <1>12, <1>13 DEF And, Or, Xor, Inv

(* The values u of the instructions of a new sequence, whose other operands   *)
(* have the values w and args.                                              *)
NewValue(u, w, args, o) == IF o[1] = "new" THEN u[o[2]] ELSE Operand(w, args, o)

Runs(u, new, w, args) ==
    \A k \in 1 .. Len(new) :
        u[k] = Calculated(new[k].op, NewValue(u, w, args, new[k].a),
                                     NewValue(u, w, args, new[k].b))

(* The operands of the replaced operator have the values X and Y. *)
Given(x, y, X, Y, w, args) ==
    /\ X \in Words /\ Operand(w, args, x) = X /\ x[1] # "new"
    /\ Y \in Words /\ Operand(w, args, y) = Y /\ y[1] # "new"

(* Every substitution computes what the operator it replaces computes. *)
LEMMA SubstitutionsCompute ==
    ASSUME NEW op, NEW x, NEW y, NEW r \in Words, NEW X, NEW Y, NEW w, NEW args, NEW u,
           NEW new \in Substitutions(op, x, y, Const(r)),
           Given(x, y, X, Y, w, args), Runs(u, new, w, args)
    PROVE  u[Len(new)] = Calculated(op, X, Y)
<1> DEFINE e(o) == NewValue(u, w, args, o)
           z == Const(r)
           F(o, v, t) == Calculated(o, v, t)
           ones == Pow2[Width] - 1
           Inv(v) == F("xor", v, ones)
<1>1. /\ e(x) = X /\ e(y) = Y /\ e(z) = r /\ e(Const(0)) = 0 /\ e(Const(ones)) = ones
      /\ \A k \in 1 .. 20 : e(N(k)) = u[k]
    BY DEF Given, NewValue, Operand, Const, N
<1>2. \A k \in 1 .. Len(new) : u[k] = F(new[k].op, e(new[k].a), e(new[k].b))
    BY DEF Runs
<1>3. X \in Words /\ Y \in Words
    BY DEF Given
<1>4. /\ F("sub", X, F("sub", 0, Y)) = F("add", X, Y)
      /\ F("sub", 0, F("add", F("sub", 0, X), F("sub", 0, Y))) = F("add", X, Y)
      /\ F("sub", F("add", F("add", X, r), Y), r) = F("add", X, Y)
      /\ F("add", F("add", F("sub", X, r), Y), r) = F("add", X, Y)
      /\ F("add", X, F("sub", 0, Y)) = F("sub", X, Y)
      /\ F("sub", F("sub", F("add", X, r), Y), r) = F("sub", X, Y)
      /\ F("add", F("sub", F("sub", X, r), Y), r) = F("sub", X, Y)
    BY <1>3, SumIdentities
<1>5. /\ F("and", F("xor", X, Inv(Y)), X) = F("and", X, Y)
      /\ F("and", Inv(F("or", Inv(X), Inv(Y))), F("or", r, Inv(r))) = F("and", X, Y)
      /\ F("or", F("and", X, Y), F("xor", X, Y)) = F("or", X, Y)
      /\ F("or", F("xor", F("or", F("and", Inv(X), r), F("and", X, Inv(r))),
                         F("or", F("and", Inv(Y), r), F("and", Y, Inv(r)))),
                F("and", Inv(F("or", Inv(X), Inv(Y))), F("or", r, Inv(r)))) = F("or", X, Y)
      /\ F("or", F("and", Y, Inv(X)), F("and", X, Inv(Y))) = F("xor", X, Y)
      /\ F("xor", F("or", F("and", r, Inv(X)), F("and", X, Inv(r))),
                 F("or", F("and", Inv(Y), r), F("and", Y, Inv(r)))) = F("xor", X, Y)
    BY <1>3, BitIdentities
<1>6. /\ op = "add" => new \in {AddNeg(x, y), AddDoubleNeg(x, y), AddRand(x, y, z), AddRand2(x, y, z)}
      /\ op = "sub" => new \in {SubNeg(x, y), SubRand(x, y, z), SubRand2(x, y, z)}
      /\ op = "and" => new \in {AndSubstitution(x, y), AndSubstitutionRand(x, y, z)}
      /\ op = "or"  => new \in {OrSubstitution(x, y), OrSubstitutionRand(x, y, z)}
      /\ op = "xor" => new \in {XorSubstitution(x, y), XorSubstitutionRand(x, y, z)}
      /\ op \in {"add", "sub", "and", "or", "xor"}
    BY DEF Substitutions
<1> HIDE DEF e, z, F, ones
<1>7. ASSUME new = AddNeg(x, y) PROVE u[Len(new)] = F("add", X, Y)
    <2>1. Len(new) = 2 /\ u[1] = F("sub", 0, Y) /\ u[2] = F("sub", X, u[1])
        BY <1>1, <1>2, <1>7 DEF AddNeg, Neg, I
    <2>2. QED  BY <1>4, <2>1
<1>8. ASSUME new = AddDoubleNeg(x, y) PROVE u[Len(new)] = F("add", X, Y)
    <2>1. /\ Len(new) = 4 /\ u[1] = F("sub", 0, X) /\ u[2] = F("sub", 0, Y)
          /\ u[3] = F("add", u[1], u[2]) /\ u[4] = F("sub", 0, u[3])
        BY <1>1, <1>2, <1>8 DEF AddDoubleNeg, Neg, I
    <2>2. QED  BY <1>4, <2>1
<1>9. ASSUME new = AddRand(x, y, z) PROVE u[Len(new)] = F("add", X, Y)
    <2>1. /\ Len(new) = 3 /\ u[1] = F("add", X, r) /\ u[2] = F("add", u[1], Y)
          /\ u[3] = F("sub", u[2], r)
        BY <1>1, <1>2, <1>9 DEF AddRand, I
    <2>2. QED  BY <1>4, <2>1
<1>10. ASSUME new = AddRand2(x, y, z) PROVE u[Len(new)] = F("add", X, Y)
    <2>1. /\ Len(new) = 3 /\ u[1] = F("sub", X, r) /\ u[2] = F("add", u[1], Y)
          /\ u[3] = F("add", u[2], r)
        BY <1>1, <1>2, <1>10 DEF AddRand2, I
    <2>2. QED  BY <1>4, <2>1
<1>11. ASSUME new = SubNeg(x, y) PROVE u[Len(new)] = F("sub", X, Y)
    <2>1. Len(new) = 2 /\ u[1] = F("sub", 0, Y) /\ u[2] = F("add", X, u[1])
        BY <1>1, <1>2, <1>11 DEF SubNeg, Neg, I
    <2>2. QED  BY <1>4, <2>1
<1>12. ASSUME new = SubRand(x, y, z) PROVE u[Len(new)] = F("sub", X, Y)
    <2>1. /\ Len(new) = 3 /\ u[1] = F("add", X, r) /\ u[2] = F("sub", u[1], Y)
          /\ u[3] = F("sub", u[2], r)
        BY <1>1, <1>2, <1>12 DEF SubRand, I
    <2>2. QED  BY <1>4, <2>1
<1>13. ASSUME new = SubRand2(x, y, z) PROVE u[Len(new)] = F("sub", X, Y)
    <2>1. /\ Len(new) = 3 /\ u[1] = F("sub", X, r) /\ u[2] = F("sub", u[1], Y)
          /\ u[3] = F("add", u[2], r)
        BY <1>1, <1>2, <1>13 DEF SubRand2, I
    <2>2. QED  BY <1>4, <2>1
<1>14. ASSUME new = AndSubstitution(x, y) PROVE u[Len(new)] = F("and", X, Y)
    <2>1. /\ Len(new) = 3 /\ u[1] = Inv(Y) /\ u[2] = F("xor", X, u[1])
          /\ u[3] = F("and", u[2], X)
        BY <1>1, <1>2, <1>14 DEF AndSubstitution, Not, I, ones
    <2>2. QED  BY <1>5, <2>1
<1>15. ASSUME new = AndSubstitutionRand(x, y, z) PROVE u[Len(new)] = F("and", X, Y)
    <2>1. /\ Len(new) = 7 /\ u[1] = Inv(X) /\ u[2] = Inv(Y) /\ u[3] = Inv(r)
          /\ u[4] = F("or", u[1], u[2]) /\ u[5] = F("or", r, u[3])
          /\ u[6] = Inv(u[4]) /\ u[7] = F("and", u[6], u[5])
        BY <1>1, <1>2, <1>15 DEF AndSubstitutionRand, Not, I, ones
    <2>2. QED  BY <1>5, <2>1
<1>16. ASSUME new = OrSubstitution(x, y) PROVE u[Len(new)] = F("or", X, Y)
    <2>1. /\ Len(new) = 3 /\ u[1] = F("and", X, Y) /\ u[2] = F("xor", X, Y)
          /\ u[3] = F("or", u[1], u[2])
        BY <1>1, <1>2, <1>16 DEF OrSubstitution, I
    <2>2. QED  BY <1>5, <2>1
<1>17. ASSUME new = OrSubstitutionRand(x, y, z) PROVE u[Len(new)] = F("or", X, Y)
    <2>1. /\ Len(new) = 15 /\ u[1] = Inv(X) /\ u[2] = Inv(Y) /\ u[3] = Inv(r)
          /\ u[4] = F("and", u[1], r) /\ u[5] = F("and", X, u[3])
          /\ u[6] = F("and", u[2], r) /\ u[7] = F("and", Y, u[3])
          /\ u[8] = F("or", u[4], u[5]) /\ u[9] = F("or", u[6], u[7])
          /\ u[10] = F("xor", u[8], u[9]) /\ u[11] = F("or", u[1], u[2])
          /\ u[12] = Inv(u[11]) /\ u[13] = F("or", r, u[3])
          /\ u[14] = F("and", u[12], u[13]) /\ u[15] = F("or", u[10], u[14])
        BY <1>1, <1>2, <1>17 DEF OrSubstitutionRand, Not, I, ones
    <2>2. QED  BY <1>5, <2>1
<1>18. ASSUME new = XorSubstitution(x, y) PROVE u[Len(new)] = F("xor", X, Y)
    <2>1. /\ Len(new) = 5 /\ u[1] = Inv(X) /\ u[2] = F("and", Y, u[1])
          /\ u[3] = Inv(Y) /\ u[4] = F("and", X, u[3])
          /\ u[5] = F("or", u[2], u[4])
        BY <1>1, <1>2, <1>18 DEF XorSubstitution, Not, I, ones
    <2>2. QED  BY <1>5, <2>1
<1>19. ASSUME new = XorSubstitutionRand(x, y, z) PROVE u[Len(new)] = F("xor", X, Y)
    <2>1. /\ Len(new) = 10 /\ u[1] = Inv(X) /\ u[2] = F("and", r, u[1])
          /\ u[3] = Inv(r) /\ u[4] = F("and", X, u[3]) /\ u[5] = Inv(Y)
          /\ u[6] = F("and", u[5], r) /\ u[7] = F("and", Y, u[3])
          /\ u[8] = F("or", u[2], u[4]) /\ u[9] = F("or", u[6], u[7])
          /\ u[10] = F("xor", u[8], u[9])
        BY <1>1, <1>2, <1>19 DEF XorSubstitutionRand, Not, I, ones
    <2>2. QED  BY <1>5, <2>1
<1>20. /\ op = "add" => u[Len(new)] = F("add", X, Y)
       /\ op = "sub" => u[Len(new)] = F("sub", X, Y)
       /\ op = "and" => u[Len(new)] = F("and", X, Y)
       /\ op = "or"  => u[Len(new)] = F("or", X, Y)
       /\ op = "xor" => u[Len(new)] = F("xor", X, Y)
    BY <1>6, <1>7, <1>8, <1>9, <1>10, <1>11, <1>12, <1>13, <1>14, <1>15, <1>16, <1>17, <1>18, <1>19
<1>21. QED  BY <1>6, <1>20 DEF F

-----------------------------------------------------------------------------
(* What a block computes.                                                   *)
Computes(v, block, args) ==
    \A i \in 1 .. Len(block) :
        LET c == block[i]
        IN  /\ v[c.id] \in Words
            /\ v[c.id] = Calculated(c.op, Operand(v, args, c.a), Operand(v, args, c.b))

NeverWraps(block) == \A i \in 1 .. Len(block) : ~ Flagged(block[i])

LEMMA ResultIs ==
    ASSUME NEW n \in Nat, NEW c \in Instruction(n), NEW v \in Words \cup {Poison},
           NEW w \in Words \cup {Poison}
    PROVE  /\ Result(c, v, w) \in Words \cup {Poison}
           /\ v \in Words /\ w \in Words /\ ~ Flagged(c) =>
                 Result(c, v, w) \in Words /\ Result(c, v, w) = Calculated(c.op, v, w)
<1>1. Poison \notin Words
    BY AllOnes DEF Words, Poison
<1>2. c.op \in Ops
    BY DEF Instruction
<1>3. v \in Words /\ w \in Words => Calculated(c.op, v, w) \in Words
    BY <1>2, Operators
<1>4. ~ Flagged(c) => ~ (c.op \in {"add", "sub"} /\ Wraps(c, v, w))
    BY DEF Flagged, Wraps
<1>5. QED  BY <1>1, <1>3, <1>4 DEF Result

LEMMA OperandIs ==
    ASSUME NEW n \in Nat, NEW v \in [1 .. n -> Words \cup {Poison}],
           NEW args \in [1 .. 2 -> Words], NEW o \in Operands(n)
    PROVE  /\ Operand(v, args, o) \in Words \cup {Poison}
           /\ (o[1] = "ins" => v[o[2]] \in Words) => Operand(v, args, o) \in Words
<1>1. CASE o \in {"arg"} \X (1 .. 2)
    BY <1>1 DEF Operand
<1>2. CASE o \in {"const"} \X Words
    BY <1>2 DEF Operand
<1>3. CASE o \in {"ins"} \X (1 .. n)
    BY <1>3 DEF Operand
<1>4. QED  BY <1>1, <1>2, <1>3 DEF Operands

LEMMA ValuesCompute ==
    ASSUME NEW block, WellFormed(block), NeverWraps(block), NEW args \in [1 .. 2 -> Words]
    PROVE  Computes(ValuesOf(block, args), block, args)
<1> DEFINE n == Len(block)
           V == [1 .. n -> Words \cup {Poison}]
           b == [id \in 1 .. n |-> Poison]
           Value(v, x) == Result(x, Operand(v, args, x.a), Operand(v, args, x.b))
           Put(v, x) == [v EXCEPT ![x.id] = Value(v, x)]
           Body(f) == [s \in SUBSET (1 .. n) |->
                         IF s = {} THEN b ELSE Put(f[s \ {Max(s)}], block[Max(s)])]
           iter == CHOOSE f : f = Body(f)
           step == [i \in 1 .. n |-> [v \in V |-> Put(v, block[i])]]
<1>1. n \in Nat /\ DOMAIN block = 1 .. n /\ \A i \in 1 .. n : block[i] \in Instruction(n)
    BY DEF WellFormed
<1>2. ValuesOf(block, args) = iter[1 .. n]
    BY <1>1 DEF ValuesOf, FoldLeft, MapThenFoldSet
<1>3. \A i \in 1 .. n : \A v \in V : Put(v, block[i]) \in V
    <2>1. ASSUME NEW i \in 1 .. n, NEW v \in V PROVE Value(v, block[i]) \in Words \cup {Poison}
        <3>1. block[i].a \in Operands(n) /\ block[i].b \in Operands(n)
            BY <1>1 DEF Instruction
        <3> HIDE DEF n
        <3>2. /\ Operand(v, args, block[i].a) \in Words \cup {Poison}
              /\ Operand(v, args, block[i].b) \in Words \cup {Poison}
            BY <1>1, <3>1, OperandIs
        <3>3. QED  BY <1>1, <3>2, ResultIs
    <2> HIDE DEF Value
    <2>2. QED  BY <2>1
<1>4. b \in V
    OBVIOUS
<1> HIDE DEF Value, Put, n, V, b
<1>5. step \in [1 .. n -> [V -> V]]
    BY <1>3
<1>6. PICK f \in [SUBSET (1 .. n) -> V] : IsFold(n, V, b, step, f)
    <2> HIDE DEF step
    <2>1. QED  BY <1>1, <1>4, <1>5, FoldSolution
<1>7. \A s \in SUBSET (1 .. n) : s # {} => Max(s) \in 1 .. n
    <2>1. \A s \in SUBSET (1 .. n) : s \in SUBSET (0 .. n)
        BY <1>1
    <2>2. QED  BY <1>1, <2>1, MaxIsGreatest
<1>8. f = Body(f)
    <2>1. ASSUME NEW s \in SUBSET (1 .. n)
          PROVE  f[s] = IF s = {} THEN b ELSE Put(f[s \ {Max(s)}], block[Max(s)])
        <3>1. f[s] = IF s = {} THEN b ELSE step[Max(s)][f[s \ {Max(s)}]]
            BY <1>6 DEF IsFold
        <3>2. s # {} => f[s \ {Max(s)}] \in V /\ Max(s) \in 1 .. n
            BY <1>7
        <3>3. QED  BY <3>1, <3>2
    <2>2. QED  BY <2>1
<1>9. iter = Body(iter)
    <2> HIDE DEF Body
    <2>1. QED  BY <1>8
<1>10. \A s \in SUBSET (1 .. n) :
         iter[s] = IF s = {} THEN b ELSE Put(iter[s \ {Max(s)}], block[Max(s)])
    <2> HIDE DEF iter
    <2>1. QED  BY <1>9
<1> HIDE DEF iter
<1>11. PICK g \in [0 .. n -> V] : /\ g[0] = b
                                  /\ g[n] = iter[1 .. n]
                                  /\ \A i \in 1 .. n : g[i] = step[i][g[i - 1]]
    <2>1. iter[{}] = b
        BY <1>10
    <2>2. ASSUME NEW s \in SUBSET (1 .. n), s # {}, iter[s \ {Max(s)}] \in V
          PROVE  iter[s] = step[Max(s)][iter[s \ {Max(s)}]]
        BY <1>7, <1>10, <2>2
    <2> HIDE DEF step
    <2>3. FollowsSteps(n, V, b, step, iter)
        BY <2>1, <2>2 DEF FollowsSteps
    <2>4. HasPrefixes(n, V, b, step, iter)
        BY <1>1, <1>4, <1>5, <2>3, FoldPrefixes
    <2>5. QED  BY <2>4 DEF HasPrefixes
<1>12. \A i \in 1 .. n : g[i] = Put(g[i - 1], block[i])
    <2>1. SUFFICES ASSUME NEW i \in 1 .. n PROVE g[i] = Put(g[i - 1], block[i])
        OBVIOUS
    <2>2. i - 1 \in 0 .. n
        BY <1>1
    <2>3. QED  BY <1>11, <2>2
<1> DEFINE Right(v, c) ==
               /\ v[c.id] \in Words
               /\ v[c.id] = Calculated(c.op, Operand(v, args, c.a), Operand(v, args, c.b))
           T == {i \in Nat : i <= n => \A j \in 1 .. i : Right(g[i], block[j])}
<1>13. 0 \in T
    OBVIOUS
<1>14. ASSUME NEW i \in Nat, i \in T PROVE i + 1 \in T
    <2>1. SUFFICES ASSUME i + 1 <= n PROVE \A j \in 1 .. i + 1 : Right(g[i + 1], block[j])
        OBVIOUS
    <2>2. /\ i \in 0 .. n /\ i + 1 \in 0 .. n /\ i + 1 \in 1 .. n /\ (i + 1) - 1 = i
          /\ \A j \in 1 .. i : Right(g[i], block[j])
        BY <1>1, <1>14, <2>1
    <2>3. PICK v \in V, w \in V, c \in Instruction(n) :
             /\ v = g[i] /\ w = g[i + 1] /\ c = block[i + 1] /\ w = Put(v, c)
        BY <1>1, <1>11, <1>12, <2>2
    <2>4. ASSUME NEW j \in 1 .. i + 1, NEW o \in {block[j].a, block[j].b}
          PROVE  /\ o \in Operands(n)
                 /\ o[1] = "ins" => v[o[2]] \in Words /\ w[o[2]] = v[o[2]]
        <3>1. j \in 1 .. n /\ o \in Operands(n)
            BY <1>1, <2>1 DEF Instruction
        <3>2. ASSUME o[1] = "ins" PROVE v[o[2]] \in Words /\ w[o[2]] = v[o[2]]
            <4>1. PICK k \in 1 .. j - 1 : block[k].id = o[2]
                BY <3>1, <3>2 DEF WellFormed, n
            <4>2. k \in 1 .. i /\ k \in 1 .. n /\ k # i + 1
                BY <1>1, <2>1, <4>1
            <4>3. block[k].id # c.id
                BY <2>2, <2>3, <4>2 DEF WellFormed, n
            <4>4. o[2] \in 1 .. n
                BY <3>1, <3>2 DEF Operands
            <4>5. w[o[2]] = v[o[2]]
                BY <2>3, <4>1, <4>3, <4>4 DEF Put, V
            <4>6. v[o[2]] \in Words
                BY <2>2, <2>3, <4>1, <4>2
            <4>7. QED  BY <4>5, <4>6
        <3>3. QED  BY <3>1, <3>2
    <2>5. ASSUME NEW j \in 1 .. i + 1, NEW o \in {block[j].a, block[j].b}
          PROVE  /\ Operand(v, args, o) \in Words
                 /\ Operand(w, args, o) = Operand(v, args, o)
        <3>1. Operand(v, args, o) \in Words
            BY <1>1, <2>4, OperandIs DEF V
        <3>2. Operand(w, args, o) = Operand(v, args, o)
            BY <2>4 DEF Operand, Operands
        <3>3. QED  BY <3>1, <3>2
    <2>6. Right(w, c)
        <3>1. i + 1 \in 1 .. i + 1
            OBVIOUS
        <3>2. /\ Operand(v, args, c.a) \in Words /\ Operand(v, args, c.b) \in Words
              /\ Operand(w, args, c.a) = Operand(v, args, c.a)
              /\ Operand(w, args, c.b) = Operand(v, args, c.b)
            BY <2>3, <2>5, <3>1
        <3>3. ~ Flagged(c)
            BY <2>2, <2>3 DEF NeverWraps, n
        <3>4. Value(v, c) \in Words
              /\ Value(v, c) = Calculated(c.op, Operand(v, args, c.a), Operand(v, args, c.b))
            BY <1>1, <3>2, <3>3, ResultIs DEF Value
        <3>5. c.id \in 1 .. n
            BY DEF Instruction
        <3>6. w[c.id] = Value(v, c)
            BY <2>3, <3>5 DEF Put, V
        <3>7. QED  BY <3>2, <3>4, <3>6
    <2>7. ASSUME NEW j \in 1 .. i PROVE Right(w, block[j])
        <3>1. Right(v, block[j]) /\ j \in 1 .. n /\ j \in 1 .. i + 1 /\ j # i + 1
            BY <1>1, <2>2, <2>3
        <3>2. block[j].id # c.id /\ block[j].id \in 1 .. n
            BY <1>1, <2>2, <2>3, <3>1 DEF WellFormed, n, Instruction
        <3>3. w[block[j].id] = v[block[j].id]
            BY <2>3, <3>2 DEF Put, V
        <3>4. /\ Operand(w, args, block[j].a) = Operand(v, args, block[j].a)
              /\ Operand(w, args, block[j].b) = Operand(v, args, block[j].b)
            BY <2>5, <3>1
        <3>5. QED  BY <3>1, <3>3, <3>4
    <2>8. \A j \in 1 .. i + 1 : j \in 1 .. i \/ j = i + 1
        OBVIOUS
    <2> HIDE DEF Right
    <2>9. QED  BY <2>3, <2>6, <2>7, <2>8
<1>15. Nat \subseteq T
    <2> HIDE DEF T
    <2>1. QED  BY <1>13, <1>14, NatSetInduction
<1>16. \A j \in 1 .. n : Right(g[n], block[j])
    BY <1>1, <1>15
<1>17. QED  BY <1>2, <1>11, <1>16 DEF Computes, n

LEMMA ReplacedNeverWraps ==
    ASSUME BlockInv, at \in 1 .. Len(code), NeverWraps(code),
           NEW new, IsReplacement(new, code[at].a, code[at].b)
    PROVE  NeverWraps(Replaced(new))
<1>1. /\ Len(Replaced(new)) = Len(code) + Len(new)
      /\ Kept(new) /\ Added(new) /\ AllPlaces(new)
    BY ReplacedAre
<1>2. ASSUME NEW i \in 1 .. Len(code) PROVE ~ Flagged(Replaced(new)[Place(i, new)])
    BY <1>1 DEF Kept, NeverWraps, Flagged
<1>3. ASSUME NEW k \in 1 .. Len(new) PROVE ~ Flagged(Replaced(new)[at - 1 + k])
    <2>1. ~ Flagged(code[at])
        BY DEF NeverWraps
    <2>2. LET c == Replaced(new)[at - 1 + k] IN ~ (c.nsw \/ c.nuw)
        BY <1>1, <2>1 DEF Added
    <2>3. QED  BY <2>2 DEF Flagged
<1>4. QED  BY <1>1, <1>2, <1>3 DEF AllPlaces, NeverWraps

(* The new instructions, run in the new block, are a run of the substitution. *)
LEMMA AddedRun ==
    ASSUME BlockInv, at \in 1 .. Len(code),
           NEW new, IsReplacement(new, code[at].a, code[at].b),
           NEW w, NEW args, Computes(w, Replaced(new), args)
    PROVE  Runs([k \in 1 .. Len(new) |-> w[Len(code) + k]], new, w, args)
<1>1. PICK m \in Nat, n \in Nat : m = Len(code) /\ n = Len(new)
    <2>1. Len(code) \in Nat /\ Len(new) \in Nat \ {0}
        BY DEF BlockInv, WellFormed, IsReplacement
    <2>2. QED  BY <2>1
<1>2. Len(Replaced(new)) = m + n /\ Added(new)
    BY <1>1, ReplacedAre
<1> DEFINE u == [k \in 1 .. n |-> w[m + k]]
           old == code[at].id
<1>3. /\ code[at].a \in Operands(m) /\ code[at].b \in Operands(m) /\ old \in 1 .. m
    <2>1. code[at] \in Instruction(m)
        BY <1>1 DEF BlockInv, WellFormed
    <2>2. QED  BY <2>1 DEF Instruction
<1>4. ASSUME NEW k \in 1 .. n, NEW o \in NewOperands(code[at].a, code[at].b, k)
      PROVE  Operand(w, args, Current(Placed(o, m), new)) = NewValue(u, w, args, o)
    <2>1. \/ Placed(o, m) = o /\ o \in {code[at].a, code[at].b} /\ o[1] # "new"
          \/ Placed(o, m) = o /\ o[1] = "const" /\ o[2] \in Words
          \/ Placed(o, m) = <<"ins", m + o[2]>> /\ o[1] = "new" /\ o[2] \in 1 .. k - 1
        <3>1. k \in Nat /\ k <= n
            OBVIOUS
        <3>2. QED  BY <1>3, <3>1, PlacedOperands
    <2>2. CASE Placed(o, m) = o /\ o \in {code[at].a, code[at].b} /\ o[1] # "new"
        <3>1. Current(Placed(o, m), new) = o
            BY <2>2, UsesOfOperator DEF Current, Named
        <3>2. QED  BY <2>2, <3>1 DEF NewValue
    <2>3. CASE Placed(o, m) = o /\ o[1] = "const"
        <3>1. Current(Placed(o, m), new) = o
            BY <2>3 DEF Current, Named
        <3>2. QED  BY <2>3, <3>1 DEF NewValue
    <2>4. CASE Placed(o, m) = <<"ins", m + o[2]>> /\ o[1] = "new" /\ o[2] \in 1 .. k - 1
        <3>1. m + o[2] # old /\ o[2] \in 1 .. n
            BY <1>3, <2>4
        <3> HIDE DEF old
        <3>2. Current(Placed(o, m), new) = <<"ins", m + o[2]>>
            BY <2>4, <3>1 DEF Current, Named, old
        <3>3. QED  BY <2>4, <3>1, <3>2 DEF NewValue, Operand
    <2>5. QED  BY <2>1, <2>2, <2>3, <2>4
<1>5. ASSUME NEW k \in 1 .. n
      PROVE  u[k] = Calculated(new[k].op, NewValue(u, w, args, new[k].a),
                                          NewValue(u, w, args, new[k].b))
    <2>1. /\ new[k].a \in NewOperands(code[at].a, code[at].b, k)
          /\ new[k].b \in NewOperands(code[at].a, code[at].b, k)
        BY <1>1 DEF IsReplacement
    <2>2. PICK j \in 1 .. m + n : j = at - 1 + k
        <3>1. at - 1 + k \in 1 .. m + n
            BY <1>1
        <3>2. QED  BY <3>1
    <2>3. LET c == Replaced(new)[j]
          IN  /\ c.id = m + k /\ c.op = new[k].op
              /\ c.a = Current(Placed(new[k].a, m), new)
              /\ c.b = Current(Placed(new[k].b, m), new)
        BY <1>1, <1>2, <2>2 DEF Added
    <2>4. w[m + k] = Calculated(new[k].op, Operand(w, args, Current(Placed(new[k].a, m), new)),
                                           Operand(w, args, Current(Placed(new[k].b, m), new)))
        BY <1>2, <2>3 DEF Computes
    <2> HIDE DEF u
    <2>5. QED  BY <1>4, <2>1, <2>4 DEF u
<1>6. QED  BY <1>1, <1>5 DEF Runs

(* One substitution changes the value of no instruction, and its last         *)
(* instruction has the value of the replaced one.                           *)
LEMMA SubstitutionKeepsValues ==
    ASSUME BlockInv, at \in 1 .. Len(code),
           NEW r \in Words,
           NEW new \in Substitutions(code[at].op, code[at].a, code[at].b, Const(r)),
           NEW v, NEW w, NEW args, args \in [1 .. 2 -> Words],
           Computes(v, code, args), Computes(w, Replaced(new), args)
    PROVE  /\ \A i \in 1 .. Len(code) : w[code[i].id] = v[code[i].id]
           /\ w[Len(code) + Len(new)] = v[code[at].id]
<1>1. IsReplacement(new, code[at].a, code[at].b)
    BY Replacements
<1>2. PICK m \in Nat, n \in Nat : m = Len(code) /\ n = Len(new) /\ n # 0
    <2>1. Len(code) \in Nat /\ Len(new) \in Nat \ {0}
        BY <1>1 DEF BlockInv, WellFormed, IsReplacement
    <2>2. QED  BY <2>1
<1>3. Len(Replaced(new)) = m + n /\ Kept(new)
    BY <1>1, <1>2, ReplacedAre
<1> DEFINE old == code[at].id
           Agree(i) == /\ \A j \in 1 .. i : w[code[j].id] = v[code[j].id]
                       /\ at <= i => w[m + n] = v[old]
           T == {i \in Nat : i <= m => Agree(i)}
<1>4. 0 \in T
    BY <1>2
<1>5. ASSUME NEW i \in Nat, i \in T PROVE i + 1 \in T
    <2>1. SUFFICES ASSUME i + 1 <= m PROVE Agree(i + 1)
        OBVIOUS
    <2>2. Agree(i) /\ i + 1 \in 1 .. m
        BY <1>5, <2>1
    <2>3. ASSUME NEW o \in {code[i + 1].a, code[i + 1].b}
          PROVE  Operand(w, args, Current(o, new)) = Operand(v, args, o)
        <3>1. CASE o = <<"ins", old>>
            <4>1. at < i + 1
                BY <1>2, <2>2, <3>1, UsesOfOperator
            <4>2. w[m + n] = v[old]
                BY <1>2, <2>2, <4>1
            <4>3. Current(o, new) = <<"ins", m + n>>
                BY <1>2, <3>1 DEF Current, Named
            <4>4. QED  BY <3>1, <4>2, <4>3 DEF Operand
        <3>2. CASE o # <<"ins", old>>
            <4>1. Current(o, new) = o
                BY <3>2 DEF Current, Named
            <4>2. ASSUME o[1] = "ins" PROVE w[o[2]] = v[o[2]]
                <5>1. PICK k \in 1 .. i + 1 - 1 : code[k].id = o[2]
                    BY <1>2, <2>2, <4>2 DEF BlockInv, WellFormed
                <5>2. QED  BY <2>2, <5>1
            <4>3. o \in Operands(m)
                <5>1. code[i + 1] \in Instruction(m)
                    BY <1>2, <2>2 DEF BlockInv, WellFormed
                <5>2. QED  BY <5>1 DEF Instruction
            <4>4. QED  BY <4>1, <4>2, <4>3 DEF Operand, Operands
        <3>3. QED  BY <3>1, <3>2
    <2>4. w[code[i + 1].id] = v[code[i + 1].id]
        <3>1. PICK j \in 1 .. m + n : j = Place(i + 1, new)
            <4>1. Place(i + 1, new) \in 1 .. m + n
                BY <1>2, <2>2 DEF Place
            <4>2. QED  BY <4>1
        <3>2. LET c == Replaced(new)[j]
              IN  /\ c.id = code[i + 1].id /\ c.op = code[i + 1].op
                  /\ c.a = Current(code[i + 1].a, new) /\ c.b = Current(code[i + 1].b, new)
            BY <1>2, <1>3, <2>2, <3>1 DEF Kept
        <3>3. w[code[i + 1].id] =
                 Calculated(code[i + 1].op, Operand(w, args, Current(code[i + 1].a, new)),
                                            Operand(w, args, Current(code[i + 1].b, new)))
            BY <1>3, <3>2 DEF Computes
        <3>4. v[code[i + 1].id] =
                 Calculated(code[i + 1].op, Operand(v, args, code[i + 1].a),
                                            Operand(v, args, code[i + 1].b))
            BY <1>2, <2>2 DEF Computes
        <3>5. QED  BY <2>3, <3>3, <3>4
    <2>5. ASSUME at = i + 1 PROVE w[m + n] = v[old]
        <3> DEFINE x == code[at].a
                   y == code[at].b
                   X == Operand(v, args, x)
                   Y == Operand(v, args, y)
                   u == [k \in 1 .. n |-> w[m + k]]
        <3>1. Operand(w, args, x) = X /\ Operand(w, args, y) = Y
            <4>1. Current(x, new) = x /\ Current(y, new) = y
                BY UsesOfOperator DEF Current, Named
            <4>2. QED  BY <2>3, <2>5, <4>1
        <3>2. X \in Words /\ Y \in Words /\ x[1] # "new" /\ y[1] # "new"
            <4>1. code[at] \in Instruction(m)
                BY <1>2 DEF BlockInv, WellFormed
            <4>2. ASSUME NEW o \in {x, y} PROVE Operand(v, args, o) \in Words /\ o[1] # "new"
                <5>1. o \in Operands(m)
                    BY <4>1 DEF Instruction
                <5>2. ASSUME o[1] = "ins" PROVE v[o[2]] \in Words
                    <6>1. PICK k \in 1 .. at - 1 : code[k].id = o[2]
                        BY <1>2, <5>2 DEF BlockInv, WellFormed
                    <6>2. k \in 1 .. Len(code)
                        BY <1>2
                    <6>3. QED  BY <6>1, <6>2 DEF Computes
                <5>3. QED  BY <5>1, <5>2 DEF Operand, Operands
            <4>3. QED  BY <4>2
        <3>3. Given(x, y, X, Y, w, args)
            BY <3>1, <3>2 DEF Given
        <3>4. Runs(u, new, w, args)
            BY <1>1, <1>2, AddedRun
        <3>5. v[old] = Calculated(code[at].op, X, Y)
            BY <1>2 DEF Computes
        <3>6. u[n] = w[m + n]
            BY <1>2
        <3> HIDE DEF u, X, Y, x, y
        <3>7. u[Len(new)] = Calculated(code[at].op, X, Y)
            <4>1. new \in Substitutions(code[at].op, x, y, Const(r))
                BY DEF x, y
            <4>2. QED  BY <3>3, <3>4, <4>1, SubstitutionsCompute
        <3>8. QED  BY <1>2, <3>5, <3>6, <3>7
    <2>6. \A j \in 1 .. i + 1 : j \in 1 .. i \/ j = i + 1
        OBVIOUS
    <2>7. at <= i + 1 => at <= i \/ at = i + 1
        BY <1>2
    <2> HIDE DEF old
    <2>8. QED  BY <2>2, <2>4, <2>5, <2>6, <2>7
<1>6. Nat \subseteq T
    <2> HIDE DEF T
    <2>1. QED  BY <1>4, <1>5, NatSetInduction
<1>7. Agree(m) /\ at <= m
    BY <1>2, <1>6
<1>8. QED  BY <1>2, <1>7

(* The program still has the value it had, whatever it was. *)
SameValue ==
    \A args \in [1 .. 2 -> Words] : ValueOf(code, root, args) = ValueOf(p.code, p.root, args)

ValueInv == NeverWraps(code) /\ SameValue

LEMMA StepKeepsValueInv ==
    ASSUME BlockInv, ValueInv, [Next]_vars
    PROVE  ValueInv'
<1>1. CASE Substitute
    <2>1. at \in 1 .. Len(code)
        BY <1>1 DEF BlockInv, Substitute, InRound
    <2>2. PICK r \in Randoms :
             \E new \in Substitutions(code[at].op, code[at].a, code[at].b, Const(r)) :
                /\ code' = Replaced(new)
                /\ root' = IF root = code[at].id THEN Len(code) + Len(new) ELSE root
                /\ p' = p
        BY <1>1 DEF Substitute, Replaced
    <2>3. PICK new \in Substitutions(code[at].op, code[at].a, code[at].b, Const(r)) :
             /\ code' = Replaced(new)
             /\ root' = IF root = code[at].id THEN Len(code) + Len(new) ELSE root
             /\ p' = p
        BY <2>2
    <2>4. r \in Words /\ IsReplacement(new, code[at].a, code[at].b)
        BY Replacements, RandomsAssumption
    <2>5. NeverWraps(code')
        BY <2>1, <2>3, <2>4, ReplacedNeverWraps DEF ValueInv
    <2>6. WellFormed(code')
        BY <2>1, <2>3, <2>4, ReplacedIsWellFormed
    <2>7. ASSUME NEW args \in [1 .. 2 -> Words]
          PROVE  ValueOf(code', root', args) = ValueOf(code, root, args)
        <3> DEFINE v == ValuesOf(code, args)
                   w == ValuesOf(code', args)
        <3>1. Computes(v, code, args)
            BY ValuesCompute DEF BlockInv, ValueInv
        <3>2. Computes(w, Replaced(new), args)
            BY <2>3, <2>5, <2>6, ValuesCompute
        <3> HIDE DEF v, w
        <3>3. /\ \A i \in 1 .. Len(code) : w[code[i].id] = v[code[i].id]
              /\ w[Len(code) + Len(new)] = v[code[at].id]
            BY <2>1, <2>4, <3>1, <3>2, SubstitutionKeepsValues
        <3>4. PICK i \in 1 .. Len(code) : code[i].id = root
            BY DEF BlockInv
        <3>5. w[root'] = v[root]
            BY <2>3, <3>3, <3>4
        <3>6. QED  BY <3>5 DEF v, w, ValueOf
    <2>8. QED  BY <2>3, <2>5, <2>7 DEF ValueInv, SameValue, NeverWraps
<1>2. CASE PassOver
    BY <1>2 DEF ValueInv, SameValue, NeverWraps, PassOver
<1>3. CASE NextRound
    BY <1>3 DEF ValueInv, SameValue, NeverWraps, NextRound
<1>4. CASE UNCHANGED vars
    BY <1>4 DEF ValueInv, SameValue, NeverWraps, vars
<1>5. QED  BY <1>1, <1>2, <1>3, <1>4 DEF Next, Done, Step

(* Whatever is substituted, drawn and substituted again in later rounds, the  *)
(* block computes what it computed (Substitution.cpp, the comments           *)
(* "Implementation of"), for every block, word width and choice of numbers,   *)
(* if no addition or subtraction is flagged as never wrapping.               *)
THEOREM ValuesAreKept ==
    ASSUME \A program \in Programs : NeverWraps(program.code)
    PROVE  Spec => []ValueKept
<1>1. Init => BlockInv
    BY InitBlockInv
<1>2. BlockInv /\ [Next]_vars => BlockInv'
    BY StepKeepsBlockInv
<1>3. Init => ValueInv
    BY DEF Init, ValueInv, SameValue
<1>4. BlockInv /\ ValueInv /\ [Next]_vars => ValueInv'
    BY StepKeepsValueInv
<1>5. ValueInv => ValueKept
    BY DEF ValueInv, SameValue, ValueKept
<1>6. QED  BY <1>1, <1>2, <1>3, <1>4, <1>5, PTL DEF Spec
=============================================================================
