----------------------------- MODULE DepParser -----------------------------
(***************************************************************************)
(* Reading dependency graphs (src/tautomata-inf/src/DependencyParser.cpp)    *)
(* into the hash-consed term table the closure works on (CSE.cpp).          *)
(*                                                                          *)
(* One DepParser reads several .sdg files, one parse() each.  A file is a    *)
(* sequence of N, V and E lines; comments, blank lines and lexical errors    *)
(* are left out.  The name table, the signatures and the term table live on  *)
(* between files.  A name is a pair <<base, n>>: base with n underscores.    *)
(***************************************************************************)
EXTENDS TermGraph, FiniteSets, SequencesExt

CONSTANTS Files,    \* the files that may be read
          MaxFiles  \* bound on the files read

Null == 0

VARIABLES pc,             \* "file", "line", "cse", "exit", or what is undefined:
                          \* "outOfBounds", "undeclared", "invalidOrder"
          read,           \* number of files opened
          input,          \* the lines still to be read
          nodesDeclared,  \* the last N line; -1 before the first
          names,          \* names: the name with id i is names[i + 1]
          signatures,     \* the input arity of each id, likewise
          local,          \* local: ids of the nodes; 0 where the map has no entry
          partialDefs,    \* the terms of the nodes, from node 0 on; Null or an index in heap
          heap,           \* the terms built by registerNode in this file
          cse,            \* the terms CSE has still to visit, in its order
          translation,    \* CSE::translation; Null where the map has no entry
          tm,             \* the TermMap, in the order of insertion
          declared,       \* <<name, arity, id>> of the nodes registered (history)
          before,         \* the trees of tm when the file was opened (history)
          sources         \* the terms of this file an edge was read from (history)

table == <<names, signatures, declared>>
file == <<nodesDeclared, local, partialDefs, heap, sources>>
bank == <<translation, tm>>
vars == <<pc, read, input, file, table, cse, bank, before>>

-----------------------------------------------------------------------------
(* The ground terms rooted at some terms of a graph, which are not on a cycle *)
(* and have their operands among them.                                      *)
Tree(graph, terms) ==
    LET tree[t \in terms] ==
            <<graph[t].id, [i \in DOMAIN graph[t].ops |-> tree[graph[t].ops[i]]]>>
    IN  tree

Trees == {Tree(tm, DOMAIN tm)[x] : x \in DOMAIN tm}

AllLines == UNION {ToSet(f) : f \in Files}
Lines(kind) == {line \in AllLines : line.kind = kind}

(* The numbers on a line are not negative. *)
ASSUME FilesAssumption ==
    /\ \A f \in Files : f \in Seq(ToSet(f))
    /\ \A l \in Lines("N") : l.nodes \in Nat
    /\ \A l \in Lines("V") : /\ l.name = <<l.name[1], l.name[2]>> /\ l.name[2] \in Nat
                            /\ l.node \in Nat /\ l.arity \in Nat
    /\ \A l \in Lines("E") : l.from \in Nat /\ l.to \in Nat /\ l.port \in Nat

Nodes == {l.node : l \in Lines("V")} \cup UNION {{l.from, l.to} : l \in Lines("E")}

Init ==
    /\ pc = "file"
    /\ read = 0
    /\ input = << >>
    /\ nodesDeclared = -1
    /\ names = << >>
    /\ signatures = << >>
    /\ local = [n \in Nodes |-> 0]
    /\ partialDefs = << >>
    /\ heap = << >>
    /\ cse = << >>
    /\ translation = << >>
    /\ tm = << >>
    /\ declared = {}
    /\ before = {}
    /\ sources = {}

(* main opens the next file and calls parse(). *)
OpenFile ==
    /\ pc = "file"
    /\ read < MaxFiles
    /\ \E f \in Files : input' = f
    /\ read' = read + 1
    /\ before' = Trees
    /\ pc' = "line"
    /\ UNCHANGED <<file, table, cse, bank>>

(* The line being read. *)
Reading(kind) ==
    /\ pc = "line"
    /\ input # << >>
    /\ Head(input).kind = kind

(* PERROR: the program exits. *)
Exit == pc' = "exit" /\ UNCHANGED <<file, table>>

(* An N line: the terms of the file are dropped.                             *)
ReadN ==
    /\ Reading("N")
    /\ nodesDeclared' = Head(input).nodes
    /\ partialDefs' = [i \in 1 .. Head(input).nodes + 1 |-> Null]
    /\ input' = Tail(input)
    /\ UNCHANGED <<pc, read, local, heap, sources, table, cse, bank, before>>

-----------------------------------------------------------------------------
HasName(name) == \E i \in DOMAIN names : names[i] = name
IndexOf(name) == CHOOSE i \in DOMAIN names : names[i] = name

(* Mutant: the arity is not compared. *)
NameForAny(name, arity) == name

(* registerNode's recursion: underscores are added to the name until it is   *)
(* new or has the arity.                                                    *)
NameFor(name, arity) ==
    LET add[k \in Nat] ==
            LET longer == <<name[1], name[2] + k>>
            IN  IF HasName(longer) /\ signatures[IndexOf(longer)] # arity
                   THEN add[k + 1]
                   ELSE longer
    IN  add[0]

(* The id of a name; a new one gets the size of the table. *)
IdFor(name) == IF HasName(name) THEN IndexOf(name) - 1 ELSE Len(names)

(* The table entries of registerNode. *)
Enter(name, arity) ==
    IF HasName(name)
       THEN UNCHANGED <<names, signatures>>
       ELSE /\ names' = Append(names, name)
            /\ signatures' = Append(signatures, arity)

(* A V line. *)
ReadV ==
    /\ Reading("V")
    /\ LET l == Head(input)
           name == NameFor(l.name, l.arity)
           id == IdFor(name)
       IN  IF nodesDeclared < 0 \/ l.node > nodesDeclared
           THEN Exit
           ELSE /\ Enter(name, l.arity)
                /\ local' = [local EXCEPT ![l.node] = id]
                /\ heap' = Append(heap, [id |-> id, ops |-> [i \in 1 .. l.arity |-> Null],
                                         uses |-> {}])
                /\ declared' = declared \cup {<<l.name, l.arity, id>>}
                /\ IF l.node + 1 \in DOMAIN partialDefs
                      THEN /\ partialDefs' = [partialDefs EXCEPT ![l.node + 1] = Len(heap')]
                           /\ pc' = pc
                      ELSE UNCHANGED partialDefs /\ pc' = "outOfBounds"
                /\ UNCHANGED <<nodesDeclared, sources>>
    /\ input' = Tail(input)
    /\ UNCHANGED <<read, cse, bank, before>>

(* checkNodeId: the id a node has, 0 if it was not declared, is in the table. *)
CheckNodeId(node) == local[node] < Len(signatures)
CheckNodeInPort(node, port) == CheckNodeId(node) /\ port < signatures[local[node] + 1]

TermOf(node) == IF node + 1 \in DOMAIN partialDefs THEN partialDefs[node + 1] ELSE Null

(* Mutant: the use is not recorded. *)
RegisterEdgeUnused(src, dst, port) ==
    heap' = [heap EXCEPT ![dst].ops[port + 1] = src]

(* registerEdge on two terms. *)
RegisterEdge(src, dst, port) ==
    heap' = [heap EXCEPT ![dst].ops[port + 1] = src, ![src].uses = @ \cup {dst}]

(* An E line.  A node that was not declared has a null term, or none: the    *)
(* assertion of registerEdge fails, or nothing does and a null term is used. *)
ReadE ==
    /\ Reading("E")
    /\ LET l == Head(input)
       IN  IF ~(CheckNodeId(l.from) /\ CheckNodeInPort(l.to, l.port))
           THEN Exit
           ELSE /\ IF TermOf(l.from) # Null /\ TermOf(l.to) # Null
                      THEN /\ RegisterEdge(TermOf(l.from), TermOf(l.to), l.port)
                           /\ sources' = sources \cup {TermOf(l.from)}
                           /\ pc' = pc
                      ELSE UNCHANGED <<heap, sources>> /\ pc' = "undeclared"
                /\ UNCHANGED <<nodesDeclared, local, partialDefs, table>>
    /\ input' = Tail(input)
    /\ UNCHANGED <<read, cse, bank, before>>

-----------------------------------------------------------------------------
(* getRoots: the nodes without uses. *)
IsRoot(t) == t # Null /\ heap[t].uses = {}

(* Mutant: the term before its operands, as DFSVisitor does. *)
TermFirst(t, operands) == <<t>> \o operands

(* The order of a term and what was visited below it. *)
OperandsFirst(t, operands) == operands \o <<t>>

(* POVisitor on a term, when the terms of a set are marked already: the terms *)
(* in the order visitNode is called for them.                               *)
Places == (DOMAIN heap) \X (SUBSET DOMAIN heap)

Visit ==
    LET visit[p \in Places] ==
            LET t == p[1]
                operand(seq, x) ==
                    LET marked == p[2] \cup {t} \cup ToSet(seq)
                    IN  IF x \in marked \cup {Null} THEN seq ELSE seq \o visit[<<x, marked>>]
            IN  OperandsFirst(t, FoldLeft(operand, << >>, heap[t].ops))
    IN  visit

(* FullyDefined: no operand is missing below the term. *)
FullyDefined(t) == \A u \in ToSet(Visit[<<t, {}>>]) : Null \notin ToSet(heap[u].ops)

(* The calls of CSE::visitNode: one visitor for all complete roots, in the    *)
(* order of the node numbers.                                               *)
PostOrder ==
    LET root(seq, t) ==
            IF IsRoot(t) /\ FullyDefined(t) THEN seq \o Visit[<<t, ToSet(seq)>>] ELSE seq
    IN  FoldLeft(root, << >>, partialDefs)

(* The end of the file: parse() looks for the roots and starts CSE. *)
EndOfFile ==
    /\ pc = "line"
    /\ input = << >>
    /\ IF nodesDeclared = -1
          THEN pc' = "exit" /\ UNCHANGED <<cse, translation>>
          ELSE /\ cse' = PostOrder
               /\ translation' = [t \in DOMAIN heap |-> Null]
               /\ pc' = "cse"
    /\ UNCHANGED <<read, input, file, table, tm, before>>

(* The operands of a new term in CSE::visitNode. *)
Translated(t) == [i \in DOMAIN heap[t].ops |-> translation[heap[t].ops[i]]]

(* Mutant: the table is not searched. *)
FoundNone(t) == {}

(* The search of CSE::visitNode: equal hash, symbol, depth and operands. *)
Found(t) == {x \in DOMAIN tm : tm[x].id = heap[t].id /\ tm[x].ops = Translated(t)}

DepthOf(ops) ==
    IF ops = << >> THEN 0 ELSE Max({tm[ops[i]].depth : i \in DOMAIN ops}) + 1

(* CSE::visitNode.  An operand that was not visited fails the assertion, or   *)
(* its null translation is used.                                            *)
VisitNode ==
    /\ pc = "cse"
    /\ cse # << >>
    /\ LET t == Head(cse)
       IN  \/ /\ Null \in ToSet(Translated(t))
              /\ pc' = "invalidOrder"
              /\ UNCHANGED bank
           \/ /\ Null \notin ToSet(Translated(t))
              /\ \E x \in Found(t) : translation' = [translation EXCEPT ![t] = x]
              /\ UNCHANGED <<pc, tm>>
           \/ /\ Null \notin ToSet(Translated(t))
              /\ Found(t) = {}
              /\ tm' = Append(tm, [id |-> heap[t].id, ops |-> Translated(t),
                                   depth |-> DepthOf(Translated(t))])
              /\ translation' = [translation EXCEPT ![t] = Len(tm')]
              /\ UNCHANGED pc
    /\ cse' = Tail(cse)
    /\ UNCHANGED <<read, input, file, table, before>>

(* The end of parse(): everything of this file is dropped, except the number *)
(* of nodes.                                                                *)
Cleanup ==
    /\ pc = "cse"
    /\ cse = << >>
    /\ local' = [n \in Nodes |-> 0]
    /\ partialDefs' = << >>
    /\ heap' = << >>
    /\ sources' = {}
    /\ translation' = << >>
    /\ pc' = "file"
    /\ UNCHANGED <<read, input, nodesDeclared, table, cse, tm, before>>

(* The program ended, or all files were read. *)
Terminated ==
    /\ pc \in {"exit", "outOfBounds", "undeclared", "invalidOrder"} \/ (pc = "file" /\ read = MaxFiles)
    /\ UNCHANGED vars

Next ==
    \/ OpenFile
    \/ ReadN
    \/ ReadV
    \/ ReadE
    \/ EndOfFile
    \/ VisitNode
    \/ Cleanup
    \/ Terminated

Spec == Init /\ [][Next]_vars

-----------------------------------------------------------------------------
(* The term table is a hash-consed term graph at every moment: no term is in *)
(* it twice, symbols have one arity, depths are right.  This is what Closure *)
(* assumes of its input (CSE.cpp:11-60; "terms should have been merged       *)
(* during CSE", SDGInference.cpp:237-239).                                  *)
TableIsTermGraph ==
    IsTermGraph(DOMAIN tm, [id    |-> [x \in DOMAIN tm |-> tm[x].id],
                            ops   |-> [x \in DOMAIN tm |-> tm[x].ops],
                            depth |-> [x \in DOMAIN tm |-> tm[x].depth]])

(* The terms below a term, itself included: the least set that has it and the *)
(* operands of its members, from the edges alone.                           *)
IsClosed(S) == \A t \in S : ToSet(heap[t].ops) \ {Null} \subseteq S
TermsBelow(t) ==
    {u \in DOMAIN heap : \A S \in SUBSET DOMAIN heap : t \in S /\ IsClosed(S) => u \in S}

(* The terms of this file below a root that has no missing operand.  A root   *)
(* is the last term of its node and no edge leaves it, not even one whose    *)
(* port was written again.                                                  *)
CompleteRoots ==
    {t \in ToSet(partialDefs) \ ({Null} \cup sources) :
        \A u \in TermsBelow(t) : Null \notin ToSet(heap[u].ops)}
CompleteTerms == UNION {TermsBelow(t) : t \in CompleteRoots}

(* A file adds exactly the trees of its complete terms to the table, however *)
(* many of them are there already and whatever other files were read before: *)
(* a root that misses an operand leaves no part of it behind                *)
(* (DependencyParser.cpp:252-281, CSE.cpp:9-61).                            *)
FileIsAdded ==
    pc = "cse" /\ cse = << >> =>
        Trees = before \cup {Tree(heap, CompleteTerms)[t] : t \in CompleteTerms}

(* Each member of a set of terms has an operand in it. *)
Cyclic(S) == S # {} /\ \A t \in S : ToSet(heap[t].ops) \cap S # {}

(* CSE finds the operands of a term translated ("Invalid PO visit order.",   *)
(* CSE.cpp:28-29), shared, repeated and overwritten ones included, unless    *)
(* the edges of the file form a cycle; a cycle below a root never passes.    *)
OrderIsValid ==
    /\ pc = "invalidOrder" => \E S \in SUBSET DOMAIN heap : Cyclic(S)
    /\ pc = "cse" /\ cse = << >> =>
           ~ \E S \in SUBSET DOMAIN heap : Cyclic(S) /\ \E t \in S : translation[t] # Null

(* A symbol stands for one name with one number of operands, across all files *)
(* ("names are supposed to be unique identifiers", DependencyParser.cpp:     *)
(* 60-63).                                                                  *)
NamesAreUnique ==
    \A d, e \in declared : d[3] = e[3] <=> d[1] = e[1] /\ d[2] = e[2]

(* An edge from or to a node that was not declared is refused, and a node    *)
(* of a file that does not give their number (DependencyParser.cpp:148-151,  *)
(* 187-189, 214-216).                                                       *)
UndeclaredIsRefused == pc \notin {"undeclared", "outOfBounds"}
=============================================================================
