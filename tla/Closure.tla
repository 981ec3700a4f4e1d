------------------------------ MODULE Closure ------------------------------
(***************************************************************************)
(* term::Closure (src/tautomata-inf/src/CClosure.cpp, CClosure.h) with the  *)
(* union-find nodes it is built from (ENode.h).                             *)
(*                                                                          *)
(* The client checks every term in, requests merges, then calls propagate() *)
(* once.  propagate() is one sequential loop; each iteration is a Drop step *)
(* or a Unite step followed by one Relink step per use of the first term of *)
(* the pair.  The multimap keyed by 32-bit hashes is modelled by the        *)
(* structure that is hashed: a collision only adds candidates, and the code *)
(* compares symbols and operands of every candidate it finds.               *)
(***************************************************************************)
EXTENDS TermGraph, FiniteSets, SequencesExt

CONSTANTS Terms,        \* the terms
          NoNode,       \* the null ENode*
          Graphs,       \* the term graphs considered
          MaxRequests,  \* bound on the merges the client requests
          Labellings    \* candidate run maps of tree automata, see Sound

ASSUME TermsAssumption == IsFiniteSet(Terms) /\ NoNode \notin Terms
ASSUME GraphsAssumption == \A gr \in Graphs : IsTermGraph(Terms, gr)
ASSUME MaxRequestsAssumption == MaxRequests \in Nat

VARIABLES g,         \* the term graph; never changes
          pc,        \* "build" (checkin, merge), "propagate", "done"
          checked,   \* the keys of t2e
          parent,    \* ENode::parent
          eclass,    \* ENode::eClass
          wlist,     \* the work list, a stack whose top is its last pair
          table,     \* lookupTable, pairs <<key, term>>
          uselist,   \* uselist; the empty set where the map has no entry
          uses,      \* propagate's local: the uses still to relink
          target,    \* propagate's local ut: the term whose use list grows
          merged,    \* numMergedClasses
          requested  \* the pairs passed to merge by the client (history)

nodes == <<parent, eclass>>
lookup == <<table, uselist>>
loop == <<wlist, uses, target>>
vars == <<g, pc, checked, parent, eclass, wlist, table, uselist, uses, target,
          merged, requested>>

-----------------------------------------------------------------------------
(* ENode::getRepresentative: follow the parents to the root. *)
GetRepresentative(par) ==
    LET rep[t \in Terms] == IF par[t] = NoNode THEN t ELSE rep[par[t]]
    IN  rep

Rep(t) == GetRepresentative(parent)[t]

(* ENode::operator== *)
SameClass(t, u) == Rep(t) = Rep(u)

(* Closure::hash(use): the symbol, and for each operand the symbol of the   *)
(* representative of its class.                                             *)
Hash(t) == <<g.id[t], [i \in DOMAIN g.ops[t] |-> g.id[Rep(g.ops[t][i])]]>>

(* Mutant: every candidate of the bucket with the symbol counts. *)
CongruentBySymbol(t, u) == g.id[t] = g.id[u]

(* Lines 161-179 of propagate: the candidate has the symbol of the use and  *)
(* operands in the same classes.                                            *)
Congruent(t, u) ==
    /\ g.id[t] = g.id[u]
    /\ \A i \in DOMAIN g.ops[t] : SameClass(g.ops[t][i], g.ops[u][i])

(* The pairs propagate finds for a use: the entries of its bucket, other    *)
(* than itself, that are congruent to it.                                   *)
Matches(use) == {x \in Terms : /\ <<Hash(use), x>> \in table
                               /\ x # use
                               /\ Congruent(use, x)}

(* Mutants of DownPairs: the null pair of lines 124-125 is pushed; the       *)
(* comparison of line 123 is dropped.                                       *)
DownPairsUnguarded(tt, ut) ==
    IF g.id[tt] = g.id[ut]
       THEN << IF \A i \in DOMAIN g.ops[ut] : SameClass(g.ops[ut][i], g.ops[tt][1])
                  THEN <<tt, ut>> ELSE <<NoNode, NoNode>> >>
       ELSE << >>

DownPairsUnchecked(tt, ut) ==
    IF g.id[tt] = g.id[ut] /\ g.ops[ut] # <<>>
       THEN << <<Last(g.ops[ut]), g.ops[tt][1]>> >>
       ELSE << >>

(* Lines 112-132 of propagate.  TI is never advanced, so every operand of   *)
(* ut is compared with the first operand of tt.                             *)
DownPairs(tt, ut) ==
    LET tops == g.ops[tt]
        uops == g.ops[ut]
    IN  IF /\ g.id[tt] = g.id[ut]
           /\ uops # <<>>
           /\ \A i \in DOMAIN uops : SameClass(uops[i], tops[1])
        THEN << <<Last(uops), tops[1]>> >>
        ELSE << >>

-----------------------------------------------------------------------------
Init ==
    /\ g \in Graphs
    /\ pc = "build"
    /\ checked = {}
    /\ parent = [t \in Terms |-> NoNode]
    /\ eclass = [t \in Terms |-> {t}]
    /\ wlist = << >>
    /\ table = {}
    /\ uselist = [t \in Terms |-> {}]
    /\ uses = {}
    /\ target = NoNode
    /\ merged = 0
    /\ requested = {}

(* Closure::checkin.  The ENode of t is a singleton class from the start of *)
(* the model, but nothing reads it before t is checked in.                  *)
Checkin(t) ==
    /\ pc = "build"
    /\ t \notin checked
    /\ checked' = checked \cup {t}
    /\ uselist' = [uselist EXCEPT ![t] = Uses(Terms, g, t)]
    /\ table' = table \cup {<<Hash(t), t>>}
    /\ UNCHANGED <<g, pc, parent, eclass, wlist, uses, target, merged, requested>>

(* Closure::merge, called by the client on two different terms with one     *)
(* symbol (SDGInference.cpp:236 compares them with klevEqual first).        *)
Merge(t, u) ==
    /\ pc = "build"
    /\ checked = Terms
    /\ t # u
    /\ g.id[t] = g.id[u]
    /\ Len(wlist) < MaxRequests
    /\ wlist' = Append(wlist, <<t, u>>)
    /\ requested' = requested \cup {<<t, u>>}
    /\ UNCHANGED <<g, pc, checked, nodes, lookup, uses, target, merged>>

(* The client calls propagate(). *)
CallPropagate ==
    /\ pc = "build"
    /\ checked = Terms
    /\ pc' = "propagate"
    /\ UNCHANGED <<g, checked, nodes, lookup, loop, merged, requested>>

-----------------------------------------------------------------------------
(* propagate(): the head of the loop is reached when no use is pending. *)
AtLoopHead == pc = "propagate" /\ uses = {} /\ wlist # << >>

(* Mutant: the pair is not popped. *)
DropPairUnpopped ==
    /\ AtLoopHead
    /\ SameClass(Last(wlist)[1], Last(wlist)[2])
    /\ UNCHANGED vars

(* The pair is one term twice, or its terms are already in one class. *)
DropPair ==
    /\ AtLoopHead
    /\ LET tt == Last(wlist)[1]
           ut == Last(wlist)[2]
       IN  tt = ut \/ SameClass(tt, ut)
    /\ wlist' = Front(wlist)
    /\ UNCHANGED <<g, pc, checked, nodes, lookup, uses, target, merged, requested>>

(* Mutants: only the representative is re-parented; the members take the    *)
(* parent their representative had before the merge.                        *)
UniteClassesLazily(a, b) ==
    /\ parent' = [parent EXCEPT ![b] = a]
    /\ eclass' = [eclass EXCEPT ![a] = @ \cup eclass[b], ![b] = {}]

UniteClassesStale(a, b) ==
    /\ parent' = [x \in Terms |-> IF x = b THEN a
                                  ELSE IF x \in eclass[b] THEN parent[b] ELSE parent[x]]
    /\ eclass' = [eclass EXCEPT ![a] = @ \cup eclass[b], ![b] = {}]

(* ENode::operator+=: the members of the class of b join the class of a. *)
UniteClasses(a, b) ==
    /\ parent' = [x \in Terms |-> IF x \in eclass[b] THEN a ELSE parent[x]]
    /\ eclass' = [eclass EXCEPT ![a] = @ \cup eclass[b], ![b] = {}]

(* The smaller class is merged into the larger one: the second argument of  *)
(* += is the class of the pair's second term when *u <= *t.                 *)
UniteSmaller(tt, ut) ==
    LET t == Rep(tt)
        u == Rep(ut)
    IN  IF Cardinality(eclass[u]) <= Cardinality(eclass[t])
        THEN UniteClasses(t, u)
        ELSE UniteClasses(u, t)

(* The rest of the iteration up to the sort of `uses`.  Only the ENodes are *)
(* swapped by size, never the pair: the use list that is emptied is the one *)
(* of the first term tt, and the one that grows is that of the second.      *)
Unite ==
    /\ AtLoopHead
    /\ LET tt == Last(wlist)[1]
           ut == Last(wlist)[2]
       IN  /\ tt # ut
           /\ ~SameClass(tt, ut)
           /\ UniteSmaller(tt, ut)
           /\ uses' = uselist[tt]
           /\ uselist' = [uselist EXCEPT ![tt] = {}]
           /\ table' = table \ {<<Hash(use), use>> : use \in uselist[tt]}
           /\ wlist' = Front(wlist) \o DownPairs(tt, ut)
           /\ target' = ut
    /\ merged' = merged + 1
    /\ UNCHANGED <<g, pc, checked, requested>>

(* Mutants: the use is not filed with the target (line 154); the use is not *)
(* entered again in the table (line 187).                                   *)
RelinkUnfiled(use) ==
    /\ pc = "propagate"
    /\ use \in uses
    /\ \E order \in SetToSeqs(Matches(use)) :
          wlist' = wlist \o [i \in DOMAIN order |-> <<use, order[i]>>]
    /\ table' = table \cup {<<Hash(use), use>>}
    /\ uses' = uses \ {use}
    /\ UNCHANGED <<g, pc, checked, nodes, uselist, target, merged, requested>>

RelinkUnhashed(use) ==
    /\ pc = "propagate"
    /\ use \in uses
    /\ \E order \in SetToSeqs(Matches(use)) :
          wlist' = wlist \o [i \in DOMAIN order |-> <<use, order[i]>>]
    /\ uselist' = [uselist EXCEPT ![target] = @ \cup {use}]
    /\ uses' = uses \ {use}
    /\ UNCHANGED <<g, pc, checked, nodes, table, target, merged, requested>>

(* One pass of the loop over the sorted uses: look the use up under its     *)
(* current hash, push a pair for each congruent term found (in the order of *)
(* the bucket, which is arbitrary), file it with the target and re-enter it *)
(* in the table.                                                            *)
Relink(use) ==
    /\ pc = "propagate"
    /\ use \in uses
    /\ \A v \in uses : ~SortsBefore(g, v, use)
    /\ \E order \in SetToSeqs(Matches(use)) :
          wlist' = wlist \o [i \in DOMAIN order |-> <<use, order[i]>>]
    /\ uselist' = [uselist EXCEPT ![target] = @ \cup {use}]
    /\ table' = table \cup {<<Hash(use), use>>}
    /\ uses' = uses \ {use}
    /\ UNCHANGED <<g, pc, checked, nodes, target, merged, requested>>

(* Mutant: returns after the first pair. *)
ReturnEarly ==
    /\ pc = "propagate"
    /\ uses = {}
    /\ merged > 0 \/ wlist = << >>
    /\ pc' = "done"
    /\ UNCHANGED <<g, checked, nodes, lookup, loop, merged, requested>>

(* The work list is empty: propagate() returns. *)
Return ==
    /\ pc = "propagate"
    /\ uses = {}
    /\ wlist = << >>
    /\ pc' = "done"
    /\ UNCHANGED <<g, checked, nodes, lookup, loop, merged, requested>>

Propagate ==
    \/ DropPair
    \/ Unite
    \/ \E use \in Terms : Relink(use)
    \/ Return

(* The closure is not used again: the automaton is read off its classes. *)
Terminated == pc = "done" /\ UNCHANGED vars

Next ==
    \/ \E t \in Terms : Checkin(t)
    \/ \E t, u \in Terms : Merge(t, u)
    \/ CallPropagate
    \/ Propagate
    \/ Terminated

(* propagate() is one sequential loop: nothing can keep it from its next step. *)
Spec == Init /\ [][Next]_vars /\ WF_vars(Propagate)

-----------------------------------------------------------------------------
(* Every variable has its type.  (State of Closure, CClosure.h:22-30.)      *)
TypeOK ==
    /\ g \in Graphs
    /\ pc \in {"build", "propagate", "done"}
    /\ checked \subseteq Terms
    /\ parent \in [Terms -> Terms \cup {NoNode}]
    /\ eclass \in [Terms -> SUBSET Terms]
    /\ wlist \in Seq(Terms \X Terms)
    /\ \A e \in table : e[2] \in Terms
    /\ uselist \in [Terms -> SUBSET Terms]
    /\ uses \subseteq Terms
    /\ target \in Terms \cup {NoNode}
    /\ merged \in Nat
    /\ requested \subseteq Terms \X Terms

(* The union-find nodes are a flat forest and the member lists are its      *)
(* classes: every parent is a root, a root lists exactly the terms it       *)
(* represents and any other node lists none.  ENode::check (ENode.h:104)    *)
(* asserts a part of it, operator+= (ENode.h:56) has to keep it.            *)
ForestInv ==
    /\ \A t \in Terms : parent[t] # NoNode => parent[parent[t]] = NoNode
    /\ \A t \in Terms :
          eclass[t] = IF parent[t] = NoNode
                         THEN {t} \cup {u \in Terms : parent[u] = t}
                         ELSE {}

(* The terms of a class all have one symbol, which is what keeps the keys   *)
(* of the lookup table valid when a representative changes.                 *)
(* (CClosure.cpp:151-153 recomputes a hash that the merge cannot change.)   *)
ClassesMonochrome == \A t, u \in Terms : SameClass(t, u) => g.id[t] = g.id[u]

(* No use is ever lost although use lists are moved by pair and not by      *)
(* class (CClosure.cpp:88,108,142): a use of a term is in the list of some  *)
(* term of its class, or waits to be filed with a target in that class.     *)
UseListsCover ==
    \A t \in checked : \A v \in Uses(Terms, g, t) :
        \/ \E w \in Terms : SameClass(w, t) /\ v \in uselist[w]
        \/ v \in uses /\ SameClass(target, t)

(* The lookup table holds every checked-in term once, under the key it      *)
(* would be searched for now, except the uses waiting to be relinked        *)
(* (CClosure.cpp:95-106,187): erasing by current key never leaves a stale   *)
(* entry behind and never drops a term.                                     *)
TableFresh ==
    \A t \in Terms : {e \in table : e[2] = t} =
        IF t \in checked \ uses THEN {<<Hash(t), t>>} ELSE {}

(* A labelling is the run of a deterministic bottom-up automaton when the    *)
(* state of a term depends only on its symbol and the states of its         *)
(* operands.                                                                *)
Deterministic(gr, c) ==
    \A t, u \in Terms :
        /\ gr.id[t] = gr.id[u]
        /\ \A i \in DOMAIN gr.ops[t] : c[gr.ops[t][i]] = c[gr.ops[u][i]]
        => c[t] = c[u]

(* The labellings that are such runs, graph by graph. *)
Runs == [gr \in Graphs |-> {c \in Labellings : Deterministic(gr, c)}]

Identifies(c, pairs) == \A p \in pairs : c[p[1]] = c[p[2]]

(* Nothing is merged without need: any deterministic bottom-up automaton    *)
(* that sends the two terms of every requested pair to one state sends      *)
(* every term to the state of its representative (CClosure.cpp:167-184 merges   *)
(* only congruent terms).                                                   *)
Sound ==
    \A c \in Runs[g] :
        Identifies(c, requested) => \A t \in Terms : c[t] = c[Rep(t)]

(* The statistic "Merged eq classes" is the number of classes that          *)
(* disappeared (CClosure.cpp:81, 215, 235).                                 *)
CountMerged == merged + Cardinality({t \in Terms : parent[t] = NoNode}) = Cardinality(Terms)

(* No step separates a term from its representative (ENode.h:69-77 moves whole   *)
(* classes).                                                                *)
EqualitiesKept ==
    [][\A t \in Terms : \A r \in {Rep(t)} : SameClass(t, r)']_vars

(* propagate() returns although it feeds its own work list                  *)
(* (CClosure.cpp:49, 130, 183).                                             *)
PropagateReturns == pc = "propagate" ~> pc = "done"

(* The partition the classes are, seen as an equivalence. *)
AbsPhase == IF pc = "build" THEN "building"
            ELSE IF pc = "propagate" THEN "closing" ELSE "done"

Abs == INSTANCE Congruence WITH
          phase <- AbsPhase,
          rel <- {p \in Terms \X Terms : SameClass(p[1], p[2])},
          requests <- requested

(* Closure implements the abstract closure: it joins only requested or      *)
(* congruent pairs, one at a time, and returns only when every requested    *)
(* pair is equal (CClosure.cpp:46-194).                                     *)
ImplementsCongruence == Abs!Spec

(* The partition is a congruence when propagate returns.  It need not be:   *)
(* see README, finding on use lists.                                        *)
ClosedWhenDone ==
    pc = "done" => \A t, u \in Terms : Congruent(t, u) => SameClass(t, u)
=============================================================================
