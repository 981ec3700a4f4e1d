------------------------------ MODULE Learner ------------------------------
(***************************************************************************)
(* The whole of main (src/tautomata-inf/src/SDGInference.cpp) after parsing: *)
(* training (module Inference, with the closure), splicing the states into   *)
(* the term graph (module Automaton), running the test terms against it      *)
(* (module Acceptor).                                                       *)
(***************************************************************************)
EXTENDS Inference

CONSTANT Tests   \* the test graphs considered

ASSUME TestsAssumption == \A te \in Tests : IsTermGraph(Terms, te)

VARIABLES ops, usedBy, states, rootsLeft, stack, visited,   \* see Automaton
          test, pending, hits,                        \* see Acceptor
          phase   \* "train", "rebuild", "test"

cls == [t \in Terms |-> C!Rep(t)]

A == INSTANCE Automaton
T == INSTANCE Acceptor

training == vars
automaton == <<ops, usedBy, states, rootsLeft, stack, visited>>
acceptor == <<test, pending, hits>>
lvars == <<training, automaton, acceptor, phase>>

LInit ==
    /\ Init
    /\ A!Init
    /\ test = g
    /\ pending = {}
    /\ hits = {}
    /\ phase = "train"

Train ==
    /\ phase = "train"
    /\ Step
    /\ UNCHANGED <<automaton, acceptor, phase>>

(* Lines 250-253: propagate has returned, rebuildAutomaton is called. *)
StartRebuilding ==
    /\ phase = "train"
    /\ pc = "done"
    /\ phase' = "rebuild"
    /\ UNCHANGED <<training, automaton, acceptor>>

VisitRoot(r) ==
    /\ phase = "rebuild"
    /\ UNCHANGED <<training, acceptor, phase>>
    /\ A!VisitRoot(r)

VisitOperand ==
    /\ phase = "rebuild"
    /\ UNCHANGED <<training, acceptor, phase>>
    /\ A!VisitOperand

VisitNode ==
    /\ phase = "rebuild"
    /\ UNCHANGED <<training, acceptor, phase>>
    /\ A!VisitNode

(* The signatures table is shared: a symbol has one arity in both sets. *)
SameSignature(te) ==
    \A t, u \in Terms : te.id[t] = g.id[u] => Len(te.ops[t]) = Len(g.ops[u])

StartTesting ==
    /\ phase = "rebuild"
    /\ A!Rebuilt
    /\ phase' = "test"
    /\ UNCHANGED <<training, automaton>>
    /\ \E te \in Tests \cup {g} : SameSignature(te) /\ T!Start(te)

VisitTest(t) ==
    /\ phase = "test"
    /\ UNCHANGED <<training, automaton, phase>>
    /\ T!Visit(t)

Finished == phase = "test" /\ pending = {}

Stop == Finished /\ UNCHANGED lvars

LStep ==
    \/ Train
    \/ StartRebuilding
    \/ \E r \in Terms : VisitRoot(r)
    \/ VisitOperand
    \/ VisitNode
    \/ StartTesting
    \/ \E t \in Terms : VisitTest(t)

LNext == LStep \/ Stop

(* main is sequential: some step is always taken. *)
LSpec == LInit /\ [][LNext]_lvars /\ WF_lvars(LStep)

-----------------------------------------------------------------------------
(* The invariants of the splicing on the classes training really computes;   *)
(* see module Automaton for each.                                           *)
OperandsAreQuotient == phase = "rebuild" => A!OperandsAreQuotient
UsesMirrorOperands == A!UsesMirrorOperands
RootsVisitedOnce == A!RootsVisitedOnce

(* Every class of more than one term has a state when the automaton is built *)
(* (BuildAutomaton.cpp:15-16).                                              *)
ClassesHaveStates == phase = "test" => A!ClassesHaveStates

(* What the automaton over the classes would match: a training term with the *)
(* symbol of t, each operand of which is in the class of a match of the      *)
(* operand of t.                                                            *)
QuotientMatch ==
    LET m[t \in Terms] ==
          {u \in Terms :
              /\ g.id[u] = test.id[t]
              /\ \A i \in DOMAIN test.ops[t] :
                    \E v \in m[test.ops[t][i]] : cls[v] = cls[g.ops[u][i]]}
    IN  m

(* The acceptor accepts nothing that the classes do not (Acceptor.cpp:      *)
(* 94-200), and all of it when every class has a state.                     *)
MatchIsSound ==
    Finished => \A t \in Terms : T!Match[t] \subseteq QuotientMatch[t]

MatchIsComplete ==
    Finished /\ A!ClassesHaveStates =>
        \A t \in Terms : T!Match[t] = QuotientMatch[t]

(* Every training term is accepted, as itself, whatever was merged, and      *)
(* although some classes have no state (SDGInference.cpp:266-275).          *)
TrainingSetAccepted ==
    Finished /\ test = g =>
        /\ \A t \in Terms : t \in T!Match[t]
        /\ hits = {t \in Terms : IsFinal(Terms, g, t)}

(* The assertion of Acceptor.cpp:117: a test term has one exact match at     *)
(* most.                                                                    *)
ExactMatchIsUnique ==
    Finished =>
        \A t \in Terms : Cardinality({u \in Terms : T!Equal[<<t, u>>]}) <= 1

(* Two terms that were made with one structure, and so under one hash        *)
(* (Term.cpp:41-67), where the training term has no state below it.          *)
Unspliced ==
    LET same[p \in Terms \X Terms] ==
          LET t == p[1]
              u == p[2]
          IN  /\ test.id[t] = g.id[u]
              /\ \A i \in DOMAIN test.ops[t] :
                    /\ cls[g.ops[u][i]] \notin states
                    /\ same[<<test.ops[t][i], g.ops[u][i]>>]
    IN  same

(* A term above a state keeps the hash it had before the splicing, and the   *)
(* exact match is looked for by hash (Acceptor.cpp:97).  Nothing is missed:  *)
(* Equal holds for no term above a state, and for every other one that has    *)
(* the structure of the test term as it was made, and so its hash            *)
(* (SDGInference.cpp:255-259).                                              *)
ExactMatchIsUnspliced ==
    Finished => \A t, u \in Terms : T!Equal[<<t, u>>] <=> Unspliced[<<t, u>>]

(* The program comes to its end (SDGInference.cpp:183-289). *)
RunEnds == <>Finished
=============================================================================
