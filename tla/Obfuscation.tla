---------------------------- MODULE Obfuscation ----------------------------
(***************************************************************************)
(* The passes that change the control flow, in the order that               *)
(* PassManagerBuilder adds them (IPO/PassManagerBuilder.cpp), on one         *)
(* function, and a run of the function they leave behind.                   *)
(***************************************************************************)
EXTENDS Cfg, FiniteSetsExt

CONSTANTS Compilations,   \* functions, with the passes toObfuscate lets run
          SplitNum, ObfProbRate, ObfTimes, Draws, Width, Scramble, Bits   \* see the passes

(* What the constructors and runOnFunction check of the options; an i32.     *)
ASSUME SplitNumAssumption == SplitNum \in 2 .. 10
ASSUME RateAssumption == ObfProbRate \in 1 .. 100 /\ Draws \subseteq 0 .. 99
ASSUME TimesAssumption == ObfTimes \in Nat \ {0}
ASSUME WidthAssumption == Width \in Nat \ {0} /\ Bits \in Nat \ {0}

(* Four rounds of a bijection of the words, each the xor of four tables.     *)
ASSUME ScrambleAssumption ==
    \A i, j \in DOMAIN Scramble : Scramble[i] = Scramble[j] => i = j

VARIABLES g,          \* the function before the passes; never changes
          passes,     \* the passes toObfuscate lets run; never changes
          pass,       \* "split", "bogus", "flatten", "run"
          f, todo, splitN, times,    \* see the passes
          at,         \* the next instruction of the run, <<block, index>>
          prev,       \* the block the run came from
          switchVar,  \* Flattening's variable
          value,      \* the value the last lowered switch is on
          slot,       \* for a block, the stack slot of its demoted phi nodes
          done        \* the last original instruction executed (history)

S == INSTANCE SplitBasicBlocks
B == INSTANCE BogusControlFlow
L == INSTANCE LowerSwitch
F == INSTANCE Flattening
P == INSTANCE Program

-----------------------------------------------------------------------------
(* What LLVM's verifier accepts: no block jumps to the entry, phi nodes come  *)
(* first and have an entry for every predecessor, a switch has a case once.  *)
WellFormed(fn) ==
    /\ fn = [layout |-> fn.layout, code |-> fn.code, term |-> fn.term, from |-> fn.from,
             cases |-> << >>, default |-> 0]
    /\ fn.layout \in Seq(Nat \ {0}) /\ fn.layout # << >> /\ IsInjective(fn.layout)
    /\ DOMAIN fn.code = Blocks(fn) /\ DOMAIN fn.term = Blocks(fn) /\ DOMAIN fn.from = Blocks(fn)
    /\ \A i \in DOMAIN fn.code[Entry(fn)] : ~IsPhi(fn.code[Entry(fn)][i])
    /\ \A b \in Blocks(fn) :
          LET code == fn.code[b]
              t == fn.term[b]
          IN  /\ code \in Seq([kind : {"phi", "op"}, at : {b} \X Nat])
              /\ \A i \in DOMAIN code : code[i].at = <<b, i>>
              /\ \A i, j \in DOMAIN code : i < j /\ IsPhi(code[j]) => IsPhi(code[i])
              /\ {"to", "cond", "sets", "orig"} \subseteq DOMAIN t
              /\ t.to \in Seq(Blocks(fn) \ {Entry(fn)}) /\ t.sets = << >> /\ t.orig = b
              /\ t.cond \in {"none", "data", "invoke", "true", "cases", "unreachable"}
              /\ t.cond = "true" => Len(t.to) = 2
              /\ t.cond = "cases" =>
                    /\ "vals" \in DOMAIN t /\ t.vals \in Seq(L!Values)
                    /\ IsInjective(t.vals) /\ Len(t.to) = Len(t.vals) + 1
              /\ fn.from[b] = [p \in Preds(fn, b) |-> p]

(* A block that does not return has a way to go on that is defined. *)
IsDefined(fn) == \A b \in Blocks(fn) : P!WaysOn(fn, b, Len(fn.code[b]) + 1) # {}

ASSUME CompilationsAssumption ==
    \A c \in Compilations : WellFormed(c.function) /\ IsDefined(c.function)

-----------------------------------------------------------------------------
machine == <<at, prev, switchVar, value, slot, done>>
rewriting == <<f, todo, splitN, times>>
vars == <<g, passes, pass, rewriting, machine>>

Init ==
    /\ \E c \in Compilations : g = c.function /\ passes = c.passes
    /\ pass = "split"
    /\ f = g
    /\ S!SplitInit(g)
    /\ times = 0
    /\ at = <<Entry(g), 1>>
    /\ prev = 0
    /\ switchVar = 0
    /\ value = 0
    /\ slot = [b \in Blocks(g) |-> 0]
    /\ done = P!Start

Split ==
    /\ pass = "split" /\ pass \in passes
    /\ S!SplitNext
    /\ UNCHANGED <<g, passes, pass, times, machine>>

(* The next pass; it starts with the blocks the last one left. *)
StartBogus ==
    /\ pass = "split"
    /\ pass \in passes => todo = << >>
    /\ pass' = "bogus"
    /\ B!BogusStart
    /\ UNCHANGED <<g, passes, splitN, machine>>

Bogus ==
    /\ pass = "bogus" /\ pass \in passes
    /\ B!BogusNext
    /\ UNCHANGED <<g, passes, pass, splitN, machine>>

(* The conditions are made opaque when the pass is done with a function of   *)
(* the module, this one or another.                                         *)
FinishBogus ==
    /\ pass = "bogus"
    /\ pass \in passes => times = 0
    /\ pass' = "flatten"
    /\ \/ f' = B!DoF(f)
       \/ pass \notin passes /\ f' = f
    /\ UNCHANGED <<g, passes, todo, splitN, times, machine>>

Flatten ==
    /\ pass = "flatten"
    /\ pass' = "run"
    /\ f' = IF pass \in passes THEN F!Flatten(L!LowerSwitch(f)) ELSE f
    /\ UNCHANGED <<g, passes, todo, splitN, times, machine>>

-----------------------------------------------------------------------------
(* The run.  A flattened function has its phi nodes in stack slots.          *)
Flat == f.default # 0

Block == at[1]
Here == f.code[Block][at[2]]
Term == f.term[Block]
AtTerminator == at[2] > Len(f.code[Block])

Running == pass = "run" /\ Block # 0

(* The predecessor of the original block that is being executed. *)
Came == LET next == P!Onward(g, done)
        IN  IF next = {} THEN 0 ELSE (CHOOSE p \in next : TRUE)[3]

(* The predecessor a phi node takes its value for; 0 when it has none. *)
PhiTakes(b) ==
    IF Flat THEN slot[b]
    ELSE IF prev \in DOMAIN f.from[b] THEN f.from[b][prev] ELSE 0

Execute ==
    /\ Running /\ ~AtTerminator
    /\ done' = P!Event(Here.at[1], Here.at[2], 0,
                       IF IsPhi(Here) THEN PhiTakes(Here.at[1]) ELSE Came)
    /\ at' = <<Block, at[2] + 1>>
    /\ UNCHANGED <<g, passes, pass, rewriting, prev, switchVar, value, slot>>

(* DemotePHIToStack, which fixStack calls for every phi node: a predecessor   *)
(* stores what the phi nodes of other blocks take from it.                  *)
StoresOf(b) ==
    [x \in DOMAIN slot |-> IF Flat /\ b \in DOMAIN f.from[x] THEN f.from[x][b] ELSE slot[x]]

(* The globals x and y may hold any word. *)
OpaqueWays == {IF B!Opaque(x, y) THEN 1 ELSE 2 : x, y \in 0 .. B!Pow2[Width] - 1}

Ways ==
    CASE Term.cond = "opaque" -> OpaqueWays
      [] Term.cond = "switch" -> {0}
      [] Term.cond = "below" -> {IF value < Term.low THEN 1 ELSE 2}
      [] Term.cond = "within" -> {IF L!Within(value, Term.low, Term.high) THEN 1 ELSE 2}
      [] OTHER -> IF Term.orig = 0 THEN DOMAIN Term.to
                  ELSE P!WaysOn(g, Term.orig, Len(g.code[Term.orig]) + 1)

(* What became a jump goes the same way whatever the choice. *)
Exit(way) == IF Len(Term.to) = 1 /\ Len(Term.sets) <= 1 THEN 1 ELSE way

Target(way) ==
    CASE Term.cond = "switch" ->
            IF switchVar \in DOMAIN f.cases THEN f.cases[switchVar] ELSE f.default
      [] Term.to = << >> -> 0
      [] Term.sets # << >> -> Term.to[1]
      [] OTHER -> Term.to[Exit(way)]

Leave ==
    /\ Running /\ AtTerminator
    /\ \E way \in Ways :
          /\ at' = <<Target(way), 1>>
          /\ switchVar' = IF Term.sets # << >> THEN Term.sets[Exit(way)] ELSE switchVar
          /\ value' \in IF Term.cond = "lowered" THEN L!ValuesOf(Term, way) ELSE {value}
          /\ done' = IF Term.orig = 0 THEN done
                     ELSE P!Event(Term.orig, Len(g.code[Term.orig]) + 1, way, Came)
    /\ prev' = Block
    /\ slot' = StoresOf(Block)
    /\ UNCHANGED <<g, passes, pass, rewriting>>

Returned == pass = "run" /\ Block = 0 /\ UNCHANGED vars

Compile == Split \/ StartBogus \/ Bogus \/ FinishBogus \/ Flatten

Run == Execute \/ Leave

Next == Compile \/ Run \/ Returned

(* The compiler and the program are sequential: neither stops on its way.    *)
(* The second conjunct is the weak fairness of Compile, which is enabled     *)
(* until the pass is "run" (there is no deadlock, and nothing else is).      *)
Fairness ==
    /\ WF_vars(Run)
    /\ []<>(pass = "run") \/ []<><<Compile>>_vars

Spec == Init /\ [][Next]_vars /\ Fairness

-----------------------------------------------------------------------------
(* The function that is left executes the instructions of the original one,  *)
(* along its paths, with the phi nodes of the right predecessors, and keeps  *)
(* running until it returns.                                                *)
ImplementsProgram == P!Spec

(* The altered blocks never run (BogusControlFlow.cpp:40). *)
AlteredNeverRuns ==
    Running /\ ~AtTerminator => Here.kind # "junk"

(* After every step of a pass, phi nodes have an entry for every predecessor *)
(* of their block and no other (BogusControlFlow.cpp:233-238).              *)
PhisMatchPreds ==
    \A b \in Blocks(f) :
        ~Flat /\ (\E i \in DOMAIN f.code[b] : IsPhi(f.code[b][i]))
            => DOMAIN f.from[b] = Preds(f, b)

=============================================================================
