---------------------------- MODULE Substitution ----------------------------
(***************************************************************************)
(* The pass Substitution (Transforms/Obfuscation/Substitution.cpp): integer  *)
(* operators are replaced by sequences that compute the same word.          *)
(*                                                                          *)
(* A block is a sequence of instructions [id, op, a, b, nsw, nuw]; an        *)
(* operand is <<"arg", n>>, <<"const", word>> or <<"ins", id>>.             *)
(***************************************************************************)
EXTENDS MachineWords, SequencesExt

CONSTANTS Programs,   \* the blocks considered, with the value of -sub-loop
          Width,      \* the bits of a word
          Randoms     \* the results of get_uint64_t considered

ASSUME WidthAssumption == Width \in Nat \ {0}

Words == 0 .. Pow2[Width] - 1

ASSUME RandomsAssumption == Randoms \subseteq Words

Ops == {"add", "sub", "mul", "and", "or", "xor"}

(* What an instruction of a block of n instructions may use. *)
Operands(n) == ({"arg"} \X (1 .. 2)) \cup ({"const"} \X Words) \cup ({"ins"} \X (1 .. n))

Instruction(n) == [id : 1 .. n, op : Ops, a : Operands(n), b : Operands(n),
                   nsw : BOOLEAN, nuw : BOOLEAN]

(* A block as the verifier of LLVM accepts it, with its instructions numbered *)
(* in their order; -sub-loop is positive (lines 74-78).                     *)
ASSUME ProgramsAssumption ==
    \A program \in Programs :
        LET block == program.code
            n == Len(block)
        IN  /\ block \in Seq(Instruction(n))
            /\ \A i \in 1 .. n :
                  /\ block[i].id = i
                  /\ \A o \in {block[i].a, block[i].b} : o[1] = "ins" => o[2] < i
            /\ program.root \in 1 .. n
            /\ program.loops \in Nat \ {0}

VARIABLES p,       \* the program before the pass; never changes
          code,    \* the instructions of the block
          root,    \* the instruction whose value the program uses
          at,      \* the iterator inst
          times    \* the rounds left

vars == <<p, code, root, at, times>>

-----------------------------------------------------------------------------
(* The values of instructions.  -1 is poison: the result of an addition or   *)
(* subtraction that wraps although its flag says it does not, and of        *)
(* whatever uses one.                                                       *)
Poison == -1

Wraps(ins, v, w) ==
    LET exact(m, n) == IF ins.op = "add" THEN m + n ELSE m - n
        s == exact(Signed(Width, v), Signed(Width, w))
    IN  \/ ins.nuw /\ exact(v, w) \notin Words
        \/ ins.nsw /\ ~(-Pow2[Width - 1] <= s /\ s < Pow2[Width - 1])

(* The operators, on words. *)
Calculated(op, v, w) ==
    LET vs == BitsOf(Width, v)
        ws == BitsOf(Width, w)
    IN  CASE op = "add" -> (v + w) % Pow2[Width]
          [] op = "sub" -> (v - w) % Pow2[Width]
          [] op = "mul" -> (v * w) % Pow2[Width]
          [] op = "and" -> WithBits(Width, vs \cap ws)
          [] op = "or"  -> WithBits(Width, vs \cup ws)
          [] op = "xor" -> WithBits(Width, (vs \ ws) \cup (ws \ vs))

Result(ins, v, w) ==
    IF Poison \in {v, w} \/ (ins.op \in {"add", "sub"} /\ Wraps(ins, v, w))
    THEN Poison
    ELSE Calculated(ins.op, v, w)

Operand(values, args, o) ==
    CASE o[1] = "arg"   -> args[o[2]]
      [] o[1] = "const" -> o[2]
      [] o[1] = "ins"   -> values[o[2]]

(* The values of the instructions when the block is run on the arguments. *)
ValuesOf(block, args) ==
    FoldLeft(LAMBDA values, ins :
                [values EXCEPT ![ins.id] = Result(ins, Operand(values, args, ins.a),
                                                  Operand(values, args, ins.b))],
             [id \in 1 .. Len(block) |-> Poison], block)

ValueOf(block, r, args) == ValuesOf(block, args)[r]

-----------------------------------------------------------------------------
(* A new instruction; N(k) is the k-th instruction of the same sequence,     *)
(* named relatively until it is inserted.                                   *)
I(op, a, b) == [op |-> op, a |-> a, b |-> b]
N(k) == <<"new", k>>
Const(w) == <<"const", w>>
Neg(v) == I("sub", Const(0), v)
Not(v) == I("xor", v, Const(Pow2[Width] - 1))

(* Mutant: the negated operand is added. *)
AddNegPlus(x, y) == << Neg(y), I("add", x, N(1)) >>

AddNeg(x, y) == << Neg(y), I("sub", x, N(1)) >>

AddDoubleNeg(x, y) == << Neg(x), Neg(y), I("add", N(1), N(2)), Neg(N(3)) >>

AddRand(x, y, r) == << I("add", x, r), I("add", N(1), y), I("sub", N(2), r) >>

AddRand2(x, y, r) == << I("sub", x, r), I("add", N(1), y), I("add", N(2), r) >>

SubNeg(x, y) == << Neg(y), I("add", x, N(1)) >>

SubRand(x, y, r) == << I("add", x, r), I("sub", N(1), y), I("sub", N(2), r) >>

SubRand2(x, y, r) == << I("sub", x, r), I("sub", N(1), y), I("add", N(2), r) >>

AndSubstitution(x, y) == << Not(y), I("xor", x, N(1)), I("and", N(2), x) >>

AndSubstitutionRand(x, y, r) ==
    << Not(x), Not(y), Not(r), I("or", N(1), N(2)), I("or", r, N(3)), Not(N(4)),
       I("and", N(6), N(5)) >>

OrSubstitution(x, y) == << I("and", x, y), I("xor", x, y), I("or", N(1), N(2)) >>

OrSubstitutionRand(x, y, r) ==
    << Not(x), Not(y), Not(r),
       I("and", N(1), r), I("and", x, N(3)), I("and", N(2), r), I("and", y, N(3)),
       I("or", N(4), N(5)), I("or", N(6), N(7)), I("xor", N(8), N(9)),
       I("or", N(1), N(2)), Not(N(11)), I("or", r, N(3)), I("and", N(12), N(13)),
       I("or", N(10), N(14)) >>

XorSubstitution(x, y) ==
    << Not(x), I("and", y, N(1)), Not(y), I("and", x, N(3)), I("or", N(2), N(4)) >>

XorSubstitutionRand(x, y, r) ==
    << Not(x), I("and", r, N(1)), Not(r), I("and", x, N(3)), Not(y),
       I("and", N(5), r), I("and", y, N(3)), I("or", N(2), N(4)), I("or", N(6), N(7)),
       I("xor", N(8), N(9)) >>

(* funcAdd, funcSub, funcAnd, funcOr, funcXor (lines 81-97). *)
Substitutions(op, x, y, r) ==
    CASE op = "add" -> {AddNeg(x, y), AddDoubleNeg(x, y), AddRand(x, y, r), AddRand2(x, y, r)}
      [] op = "sub" -> {SubNeg(x, y), SubRand(x, y, r), SubRand2(x, y, r)}
      [] op = "and" -> {AndSubstitution(x, y), AndSubstitutionRand(x, y, r)}
      [] op = "or"  -> {OrSubstitution(x, y), OrSubstitutionRand(x, y, r)}
      [] op = "xor" -> {XorSubstitution(x, y), XorSubstitutionRand(x, y, r)}
      [] OTHER -> {}

-----------------------------------------------------------------------------
(* Ids are 1 .. Len(code) in the order of their creation. *)
Placed(o, base) == IF o[1] = "new" THEN <<"ins", base + o[2]>> ELSE o

(* setHasNoSignedWrap, setHasNoUnsignedWrap: only the last instruction takes *)
(* the flags of the replaced one.                                           *)
Instructions(new, bo) ==
    LET base == Len(code)
        flagged(k) == k = Len(new) /\ bo.op \in {"add", "sub"}
    IN  [k \in DOMAIN new |->
            [id |-> base + k, op |-> new[k].op,
             a |-> Placed(new[k].a, base), b |-> Placed(new[k].b, base),
             nsw |-> flagged(k) /\ bo.nsw, nuw |-> flagged(k) /\ bo.nuw]]

(* replaceAllUsesWith *)
Named(o, old, new) == IF o = <<"ins", old>> THEN <<"ins", new>> ELSE o

Renamed(block, old, new) ==
    [i \in DOMAIN block |-> [block[i] EXCEPT !.a = Named(@, old, new),
                                            !.b = Named(@, old, new)]]

(* Mutant of Inserted: the new instructions go to the end of the block. *)
InsertedAtEnd(new) == code \o new

(* The new instructions go before the replaced one, which stays without use. *)
Inserted(new) == SubSeq(code, 1, at - 1) \o new \o SubSeq(code, at, Len(code))

Init ==
    /\ p \in Programs
    /\ code = p.code
    /\ root = p.root
    /\ at = 1
    /\ times = p.loops

InRound == times > 0 /\ at <= Len(code)

(* substitute, for one instruction (lines 143-205).  What was inserted is    *)
(* behind the iterator and not visited in this round.                       *)
Substitute ==
    /\ InRound
    /\ LET bo == code[at]
       IN  \E r \in Randoms : \E new \in Substitutions(bo.op, bo.a, bo.b, Const(r)) :
              LET block == Inserted(Instructions(new, bo))
                  last == Len(code) + Len(new)
              IN  /\ code' = Renamed(block, bo.id, last)
                  /\ root' = IF root = bo.id THEN last ELSE root
                  /\ at' = at + Len(new) + 1
    /\ UNCHANGED <<p, times>>

(* Mutant: the iterator stays where it is. *)
PassOverStuck ==
    /\ InRound
    /\ Substitutions(code[at].op, Const(0), Const(0), Const(0)) = {}
    /\ UNCHANGED vars

PassOver ==
    /\ InRound
    /\ Substitutions(code[at].op, Const(0), Const(0), Const(0)) = {}
    /\ at' = at + 1
    /\ UNCHANGED <<p, code, root, times>>

NextRound ==
    /\ times > 0
    /\ at > Len(code)
    /\ at' = 1
    /\ times' = times - 1
    /\ UNCHANGED <<p, code, root>>

Step == Substitute \/ PassOver \/ NextRound

Done == times = 0 /\ UNCHANGED vars

Next == Step \/ Done

(* The pass is one sequential loop. *)
Spec == Init /\ [][Next]_vars /\ WF_vars(Step)

-----------------------------------------------------------------------------
(* Whatever was chosen, drawn and substituted again in later rounds, the     *)
(* program has the value it had before, and is not poison if it was not      *)
(* (the comments "Implementation of" before each substitution).             *)
ValueKept ==
    \A args \in [1 .. 2 -> Words] :
        LET before == ValueOf(p.code, p.root, args)
        IN  before # Poison => ValueOf(code, root, args) = before

(* An operand is computed before it is used, after every insertion.          *)
UsesAreDominated ==
    \A i \in DOMAIN code : \A o \in {code[i].a, code[i].b} :
        o[1] = "ins" => \E j \in 1 .. i - 1 : code[j].id = o[2]

(* The pass ends although it grows the block it walks (line 145).            *)
PassEnds == <>(times = 0)
=============================================================================
