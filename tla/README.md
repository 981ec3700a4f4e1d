# TLA+ models of the tree automata learner and of the obfuscator

The repository holds two programs of one thesis:

* `src/tautomata-inf`: a learner. It reads system call dependency graphs of
  malware, folds them into one hash-consed term graph, infers a k-testable tree
  automaton from it by congruence closure, and tests other graphs against it.
* the obfuscation passes in `src/llvm-3.7.0/lib/Transforms/Obfuscation`, a port
  of Obfuscator-LLVM to LLVM 3.7 (the rest of `src/llvm-3.7.0` is LLVM itself).

Both are sequential C++ programs. Around the learner there are scripts; one of them
takes a batch of files to a remote service that refuses, loses and delays
requests. What is hard in the programs is not scheduling but
data that is changed while it is being used: use lists that move while terms are
merged, a hash table whose keys depend on the classes that the loop is merging,
hashes recomputed in place during a traversal, per-file state that outlives its
file, a byte pool that is refilled in the middle of a request. Arbitrary choices
that the code makes (the order of hash buckets and of `std::unordered_*`
containers, of pairs compared by address) are nondeterministic in the models.

## 1. Inventory

| component | state | operations | works with | hard behaviour | what makes it correct |
|---|---|---|---|---|---|
| Term graph (`Term.*`) | symbol, operands, uses, depth, k-level hash, visited mark | constructor, `addOp`, `substOp`, `klevEqual`, `recomputeKLevHash` | everything | use lists and operands must mirror each other while they are rewritten | a term is acyclic, uses mirror operands, depth is exact |
| Visitors (`TermVisitor.*`) | two vectors of the level, marks | post-order, breadth-first, `FullyDefined` | parser, CSE, k-root hashing | visit order against in-place updates | every reachable term is visited once |
| Parser (`DependencyParser.*`, `Parser.*`) | node table, symbol table, term table, roots | N, V, E lines; end of file; `cleanup` | CSE; called per file by `main` and the checker | per-file state that survives its file; ports written twice, nodes declared twice, cycles | wrong lines are refused; a file adds exactly its complete terms |
| CSE (`CSE.*`) | hash-consed term table | `visitNode` | parser | operands are replaced before the term is looked up | the table is a term graph without duplicates |
| k-root hashing (`KRootHash.h`, `SDGInference.cpp`) | k-level hashes, `krootMap` | k passes, matching, request of merges | closure | in-place rehash, order of passes | only equal k-roots are requested |
| Congruence closure (`CClosure.*`, `ENode.h`) | union-find nodes, lookup table, use lists, work list | `checkin`, `merge`, `propagate`, `rebuildAutomaton` | term graph, automaton | keys that depend on the state being changed; the loop feeds itself | least congruence: sound, closed, terminates |
| Automaton (`BuildAutomaton.*`) | states spliced into the term graph | `rebuildAutomaton` | closure, acceptor | rewrites uses while walking them | language of the automaton contains the training terms |
| Acceptor (`Acceptor.*`) | map from test terms to states | `visitNode` | automaton | looks terms up by hashes made stale by the splicing | accepts the training set |
| Checker, dot output | options | driver | parser | none | none of their own |
| Random generator (`CryptoUtils.*`) | key, counter, pool, index | `prng_seed`, `get_bytes`, `get_range`, refill | all passes | a request that straddles the end of the pool | the stream is served in order, without gap or repetition; draws are uniform |
| Block splitting (`SplitBasicBlocks.cpp`) | the function being rewritten, `splitN` | `split` | generator | the count carried from block to block; every cut moves a terminator under the phi nodes of other blocks | the order of instructions is kept |
| Bogus control flow (`BogusControlFlow.cpp`) | idem, the list of blocks, the rounds left | `bogus`, `addBogusFlow`, `doF` | generator | an opaque predicate over wrapping words; blocks added in one round are taken in the next | the altered block never runs |
| Switch lowering (`LowerSwitch.cpp`) | idem | `processSwitchInst`, `switchConvert`, `Clusterify` | run by flattening | ranges that wrap, bounds that make a test unnecessary, a default that cannot be reached, phi entries of edges that are merged | each value goes where the switch sent it |
| Flattening (`Flattening.cpp`, `Utils.cpp`) | idem | `flatten`, `fixStack` | generator, LowerSwitch | the choice of the first block, terminators of several kinds, phi nodes whose predecessors disappear | the flattened function has the paths of the original |
| Substitution (`Substitution.cpp`) | the block being rewritten, the iterator | thirteen substitutions | generator | wrapping words, flags, growth under the iterator | each is an identity over words |
| VirusTotal script (`scripts/virustotal`, `virustotal_report.py`) | the list and the place in it, counters; `.info` files | fetch, submit, submit again, store | a remote service | refused requests repeated for ever, lost answers, being stopped anywhere, second runs that know only the `.info` files | nothing stored is lost, no file is submitted twice in a run, every report is stored in the end but for skips and kills |
| Other scripts | none | one program per file; tables and figures | both | none | none of their own |

Interactions: `main` (`SDGInference.cpp:28-289`) calls the parser for each
training file, checks each term of its table into the closure, runs k hash
passes from the roots, asks `klevEqual` of the candidates of each bucket and
requests merges, calls `propagate()` and then `rebuildAutomaton()`. All of it is
by call on shared `Term` objects; there are no threads, messages or callbacks.
Only the VirusTotal script talks to something that runs beside it: the service.
The obfuscation passes share one global generator, reseeded by every
`PassManagerBuilder`, and rewrite the same function one after the other: splitting,
bogus control flow, flattening and, after LLVM's own passes, substitution. Each
of them sees what the one before left.

## 2. Modules

| module | models | kind |
|---|---|---|
| `TermGraph` | terms as records of functions: `id`, `ops`, `depth`; uses, `klevEqual`, `recomputeKLevHash`, the order of the sorter | operators |
| `Congruence` | what a congruence closure promises: joins pairs that are requested or congruent, one at a time, and returns when all requests are met | abstract specification |
| `Closure` | `Closure::checkin`, `merge`, `propagate` and `ENode` | detailed specification, implements `Congruence` |
| `ClosureProofs` | theorems of `Closure` | proofs |
| `Inference` | the training half of `main`: check-in, hash passes, matching, requests; instantiates `Closure` for the closure it calls | composition |
| `DepParser` | the parser, the definedness and post-order visitors and `CSE`, over several files | detailed specification |
| `CryptoUtils` | seeding, pool, `get_bytes`, `get_range` | detailed specification |
| `CryptoUtilsProofs` | theorems of `CryptoUtils` | proofs |
| `Automaton` | `rebuildAutomaton`, `BuildAutomaton`, `substOp` | detailed specification |
| `Acceptor` | `Acceptor`, `Equal`, `Collect` | detailed specification |
| `Learner` | the whole of `main` after parsing: extends `Inference`, instantiates `Automaton` and `Acceptor` | composition |
| `Cfg` | an LLVM function as the passes see it; `splitBasicBlock` | operators |
| `SplitBasicBlocks`, `BogusControlFlow`, `LowerSwitch`, `Flattening` | one pass each | detailed specifications; `LowerSwitch` is an operator on functions |
| `Program` | what a function promises: a path of the original blocks, one instruction after the other | abstract specification |
| `Obfuscation` | the passes one after the other on one function, then a run of what they leave; implements `Program` | composition |
| `Substitution` | the pass, on one block, with the values of its instructions | detailed specification |
| `VirusTotal` | the script `virustotal`, the service, and whoever starts and stops the script | detailed specification |
| `MachineWords` | words of n bits: powers of two, the bits of a word, two's complement | operators |
| `DataProofs` | lemmas about numbers, words, recursions, folds, and `klevEqual` on term graphs | proofs |
| `LearnerProofs` | theorems of `Inference`, of `Automaton` and of `Learner` | proofs |
| `DepParserProofs`, `ObfuscationProofs`, `SubstitutionProofs`, `VirusTotalProofs` | theorems of the module each is named after | proofs |
| `MC*` | constants for TLC: graphs, files, lengths, functions, blocks | instances |

### How state and actions correspond to the code

**`Closure`.** `wlist` is the vector of pairs used as a stack, `table` the
multimap, `uselist` the map of use lists, `parent` and `eclass` the `ENode`s.
`Checkin` and `Merge` are the two methods. One iteration of the loop of
`propagate()` is `DropPair` (lines 72-79) or `Unite` (lines 81-135) followed by
one `Relink` per use (lines 140-190); `uses` and `target` are its locals in
between. The 32-bit hash key is replaced by the structure that is hashed: a
collision only adds candidates to a bucket, and the code compares the symbol and
the operands of each candidate itself. `requested` and the constant
`Labellings` serve the properties only. `merge` is called as `main` calls it:
after all check-ins, on two different terms of one symbol.

**`Inference`.** One action per loop body of `main`: `Checkin` (183-192),
`BeginPass`/`VisitTerm`/`NextLevel` (the visitor, one term at a time, because a
rehash changes what the next one reads), `Match` (227-248), `CallPropagate`,
`Propagate`. A term's hash is the nested structure it was computed from; the
cleared hash is `<< >>`.

**`DepParser`.** A file is a sequence of lines, and the state is what the parser
keeps: `nodesDeclared`, `partialDefs`, the symbol table, the term table. One
action per kind of line and one for the end of the file, which visits the
complete roots in post-order through `CSE` and then cleans up. Lines are records:
lexical errors, messages and the statistics are left out. A name is a pair of a
stem and the number of underscores at its end, which is all that the renaming of
`registerNode` can tell apart. `Visit` walks operands with marks, as the visitors do, so a
cycle ends the walk and not the model; where the code goes on with what it does not have, `pc`
says so: `outOfBounds` (a node in an empty table), `undeclared` (an edge at a null term),
`invalidOrder` (a translation that is not there yet). `sources`, `declared` and `before` serve the
properties only.

**`CryptoUtils`.** A pool byte is the number of its position in the stream, so
that "in order, without gap" can be said; AES is the successor of a block counter.
The counter of the code is 128 bits wide and does not wrap in a compilation: it
is a natural number. `SeedString` is the constructor's call of `prng_seed(string)`
with the indices its loop writes.

**`Automaton`.** A node is a term or the state of a class, `ops` and `usedBy` are
`Term::operands` and `Term::uses` as they are now, `stack` the calls of the post-order
visitor. `VisitRoot` is the loop of `rebuildAutomaton`, `VisitOperand` one
iteration of `visitPost`, which reads the operand as the splicing has left it, and
`VisitNode` is `visitNode` with the return from the call: for the representative of a
class of several terms it replaces every member in everything that uses it.
`states` are the representatives whose state exists. Which roots come first and
which member represents a class is arbitrary.

**`Acceptor`.** `visit` reads the automaton and memoises, so a match is a function
of the test term; the state is what `main` counts.  The hashes that preselect
candidates of an exact match only skip terms that `Equal` would refuse: a term
with a state below it, whose hash is stale, cannot match exactly, and the hash of any other is
that of its structure (`ExactMatchIsUnspliced`).

**`Learner`.** `Train` is a step of `Inference`; `StartRebuilding` and `StartTesting` are
the calls in between; the test set is the training set itself or one of the
unseen graphs with the same signature.

**`Cfg` and the passes.** A function is a layout of numbered blocks, their
instructions, their terminators and, for the phi nodes of a block, which original
predecessor each incoming block stands for. An instruction is only its kind and its
place in the original function, because what the passes may get wrong is whether
and when it is executed. `SplitNext` is one block of `split()`, with any set of split points
of the right size for the shuffle; `BogusBlock` is one block of one round of `bogus()`,
with any draw; `DoF` and `Flattened` are one step each, because nothing happens in between.
The scrambled cases of the switch are an arbitrary injection, which `scramble32` under
one key is.

**`Obfuscation`.** `Split`, `StartBogus`, `Bogus`, `FinishBogus` and `Flatten` rewrite the function
in the order in which the pass manager adds the passes; `passes` are those that
`toObfuscate` lets run on it, any subset. Then `Execute` and `Leave` run it.
A terminator goes any way (the data is arbitrary), the opaque predicate goes the
ways it can go for any words in the globals, and the switch goes where its variable says.
`fixStack` is modelled by what it leaves of phi nodes: slots that predecessors store to.
`value` is the value the switch is on that was lowered last: the block that had the switch
draws one of the values that lead the way it chooses, and the comparisons of the tree test it.
`done` is the last original instruction executed, with the way a terminator chose and
the predecessor a phi node took its value for; through it the run implements `Program`.

**`LowerSwitch`.** A switch is a terminator of kind `cases` with the values of its cases; its first
way is the default. `ProcessSwitch` is `processSwitchInst`: `Clusterify` sorts and joins the cases,
`SwitchConvert` builds the tree from them, a recursive function of the range of clusters, with the bounds the code
passes down and the gaps that cannot be reached, and lists the phi entries that move; `AddBlock` puts the new blocks where the code puts
them, because flattening depends on the layout. The test of a leaf is the one comparison the code
emits, over words of `Bits` bits. In the other modules the phi entries of a block are a function of its
predecessors; the switch is the one terminator that may have several edges to a
block, and `FixPhis` counts the entries there.

**`Substitution`.** The state is a block, the iterator, and the instruction whose value
the rest of the program uses. `Substitute` is one call of a substitution, chosen and
drawn arbitrarily; what it inserts stays behind the iterator until the next round, and
the operator it replaces stays without a use, as in the code. A word has
`Width` bits; poison is a value of its own.

**`VirusTotal`.** `pc` is where the script stands, `pos` the file it has, `info` what it leaves on the disk;
`report` and `scans` are the service's. A report is `good` when `min` scanners recognise the file and
`poor` otherwise. `Start` is somebody running the script; `PassBy`, `SkipFile` and `TakeFile`
are the conditions at the head of the loop, `ReportFound`, `Submit` and `Refuse` the three
answers to the first request, which asks for the report and then, without one, submits the file; either
request may be refused, for a file that has a report too. So `Submit` and `Refuse`
do not look at `report`. `Resubmit` and `Refuse` are the answers to the second, `Open` and `Write` the two
steps that store a report, `Answer` the question of the interactive mode. `LoseAnswer` ends the run with
the request done or not, `Kill` ends it anywhere.

## 3. What the runs show

| run | module, configuration | what it shows |
|---|---|---|
| `closure` | `MCClosure.cfg` | on three graphs of six terms, for every order of check-ins, up to three requests, every order of buckets: forest, symbols per class, covered use lists, fresh table, soundness, nothing is undone, `propagate()` returns, and the whole implements `Congruence` |
| `learner` | `MCLearner.cfg` | from the first check-in to the last test term: only equal k-roots are identified, exactly those on layered graphs; the assertion on depth holds; operands are the quotient by the spliced classes and uses mirror them; no root is visited twice; the training set is accepted, matches are sound, and complete where every class has its state; an exact match is unique, and is found although hashes are stale above a state; the program ends |
| `congruence_when_done` | `MCInferenceClosed.cfg` | finding 1 |
| `classes_have_states` | `MCLearnerStates.cfg` | finding 2 |
| `parser` | `MCDepParser.cfg` | any two files of up to three nodes, with missing operands, ports written twice, nodes declared twice, cycles or without an N line, keep the table a hash-consed term graph, add their complete terms and nothing else, and keep symbols unique; operands are visited first unless they form a cycle |
| `undeclared_node` | `MCDepParserUndeclared.cfg` | finding 3 |
| `crypto` | `MCCryptoUtils.cfg` | with the lengths the passes use the stream is served in order across refills, every buffer is filled, draws below a bound are uniform |
| `obfuscation` | `MCObfuscation.cfg` | for ten functions, any subset of the passes and any random choice, and for every small switch under flattening, what runs after rewriting is the original function: its instructions in order, its choices, its phi nodes; no junk |
| `substitution` | `MCSubstitution.cfg` | every substitution, in pairs and over two rounds, keeps the value for all arguments; operands stay computed before their use; the pass ends |
| `substitution_flags` | `MCSubstitutionFlags.cfg` | finding 4 |
| `first_block` | `MCObfuscationGoto.cfg` | finding 5 |
| `virustotal` | `MCVirusTotal.cfg` | over any number of runs with refused requests, lost answers and kills: a stored report stays, an empty `.info` is the work of a kill, no file is submitted twice in a run, a run that ends has submitted all but the skipped files that had no `.info`; in the end all reports are stored but those of skipped files and of one file for each kill |

### Bounds, and why they are enough

* `MaxRequests`: requests in one training. Three on six terms already chain a
  merge into a second and third one whose use list has moved before, the case
  the design is fragile in. The chain graph folds completely from one request;
  `Twins` needs congruence through two levels; `Binary` has terms that use one
  operand twice and classes that meet in two operands.
* `Labellings`: all partitions of the six terms, so `Sound` ranges over every
  bottom-up deterministic run there is on them.
* `Cutoffs` 0, 1, 2 with seven terms of depth up to 5: each cutoff is smaller and
  larger than the depth of some term, so that both depth branches of `klevEqual`
  are taken. The graphs of `MCLearner` are chosen for the splicing: a class that is
  both a root and an operand used twice, a chain that folds into one class, two
  classes below different roots. `MaxRequests = 7` never binds there.
* the test graphs are the training graph itself and one per signature that has terms
  the training set has not. A graph of another signature cannot share the symbols
  of the training set, because both are read with one symbol table.
* `MaxFiles = 2`: state that survives a file is seen by the next one; a third adds
  no new kind of history. The files are all graphs of three nodes with one name, ports missing
  or not, and thirteen others, each with one thing wrong or unusual; every file follows every other.
* `Pool = 48`, `Block = 16`: three blocks instead of the 6400 of the code. Requests of
  4, 8 and 16 bytes end before, at and after the end of the pool. `MaxBlocks` stops
  the generator after four refills, so the run has states without successors
  and does not check deadlock. The same theorems hold for every pool size
  (section 5).
* `Width = 5` in `crypto`: draws of `get_range` are taken from words of 5 bits instead of
  32; the bounds tested are 0 to 5, 10 and 16.
* Functions: a loop with a phi node and a long entry, an `if` whose entry ends in the
  choice, a block that is its own successor, an indirect branch of three ways, an
  invoke, a single block, a comparison of the program's own that is always true, three functions with a
  switch. They have one to six blocks and grow to more than twice as many.
  The property needs one precondition: an entry with one successor falls through to
  the block behind it, as in the functions a compiler front end lays out, also when switches
  have been lowered (finding 5).
* Switches: `Bits = 2`, so there are negative, zero and positive values, the smallest and the largest,
  and a range can start at each. `EntrySwitches` are all ways to send the four values to three blocks, one of them
  with a phi node, or to the default, which is any of them or unreachable; `LoopSwitches` switch on
  every round of a loop. They are flattened and not otherwise rewritten.
* `SplitNum = 3`: blocks are smaller than, and larger than, the number of cuts, and the
  number carried on is lowered on the way. Two blocks have exactly as many instructions
  as cuts. `ObfTimes = 1`, the default: the blocks of a second
  round are no different in kind. `Draws` are the last one that selects a block and the
  first that does not.
* `Lst` has four files of which one is missing, `Skips` is {0, 1} and two faults may happen: a file that is
  skipped, one that is refused and one that is stored or half stored are in one list, and two faults may be two kills. Runs and refusals are
  not bounded.
* `Width = 5` in `obfuscation`: the smallest words for which `y < 10` can fail. In
  `substitution` it is 2, where every pair of arguments is tried in every state;
  the identities are the same bit by bit, and modulo any power of two.

### Fairness

`Closure` assumes weak fairness of `Propagate`, `Learner`, `Obfuscation` and `Substitution`
of their steps: all are loops of one thread, nothing else can run in between, and
some step stays enabled until the program is done. No fairness is assumed of the
client of the closure, which need not call anything. `Program` promises that the function
runs until it returns, which weak fairness of single steps gives for the rewritten one
too, because between two original instructions only finitely many others are executed.
The parser and the generator state safety only.

`Obfuscation` spells the fairness of the compiler out, `[]<>(pass = "run") \/ []<><<Compile>>_vars`: it is
weak fairness of `Compile`, which is enabled until the pass is `run`.

`VirusTotal` is about two parties that the script does not control. Weak fairness of `Start` says that the
script is run again, of `Script` that it goes on while it is not stopped; strong fairness of a submission, and of the
report on each file, that a request is taken when it is repeated for ever, which is what the script bets on (line 79, "Most likely quota
exceeded"), and strong fairness of `Scanned(f, "good")` that a file scanned again and again is recognised some day. Without any of
them a file may stay without a report for ever, and the script can do nothing about it.

## 4. Findings

1. `propagate()` relinks the use list of the first *term* of a pair
   (`CClosure.cpp:88`), not of its class. A list that was moved once is empty, and
   a second merge of the same term finds no congruences. When a k-root was missed by
   its hash, `main`'s own requests reach a result that is not a congruence.
   (`CongruenceWhenDone`; the refinement therefore promises soundness and that
   all requests are met, not closedness.)
2. `BuildAutomaton` replaces operands under the walk that uses them. A member that
   was not reached yet is then reached by no path, nor is what lies below it; when the
   representative of a class is only there, the class gets no state, depending on the
   order of a hash table. (`ClassesHaveStates`; `MatchIsComplete` has it as a condition.)
3. An edge at an undeclared node passes the check: `local[from]` creates the
   entry it looks for. And `nodesDeclared` survives a file, so the node of a second file without an N
   line passes and is written to an empty table. (`UndeclaredIsRefused`)
4. Substitution copies `nsw` and `nuw` to the last instruction of the replacement, which may
   wrap where the operator did not: the result is poison. (`ValueKept`, which holds
   for operators without flags)
5. Flattening erases the jump of the entry and starts with the block that comes second in
   the layout. LowerSwitch, which it runs first, can put a block there: the one for the default
   edge goes in front of the default. (`ImplementsProgram`, which holds when the entry falls through)

Observed while modelling, and not checked by a run:

* `KRootHash` rehashes in place in breadth-first order, so a term's hash may be
  made of operand hashes of this pass or of the one before, depending on its
  distance from a root. Terms with equal k-level subtrees can differ in their
  `klevel_hash`, against `Term.h:35`, are not found in one bucket and not merged.
  `ExactIfLayered` states the case where that cannot happen; finding 1 needs it.
* A seed string with the prefix `0x`, which `prng_seed` accepts (`CryptoUtils.cpp:554`, "We accept a prefix
  "0x""), is written from `s[1]` to `s[16]` of an array of 16: the first byte of the key stays
  uninitialised and the last one is written past its end. `KeyOf` has both sizes. That the key is the seed is not stated as a
  property: with the prefix it is false, and without it it says no more than `KeyOf`.
* An edge that writes a port again leaves the use of the term it replaces. That term is then neither an operand nor
  a root, and what is only below it is dropped silently (`FileIsAdded` states it this way). A cycle without a root
  above it is dropped too; below a root it fails the assertion of `CSE.cpp:28`.
* A name that ends with an underscore can be given the symbol of a renamed one: after `a` with one operand,
  `a_` with two and then `a` with two share a symbol. `NamesAreUnique` is checked, and proved, for files without
  such names; that one name and arity always have one symbol is proved for all files (`SymbolsStayShared`).
* `get_bytes` leaves the last byte of a buffer unwritten when the pool ends just
  before it. Only a caller of `get_uint8_t` or `get_char` can bring that about,
  and no pass is one. (`BufferFilled` holds for the passes' lengths.)
* Splitting reads past the end of its split points when a block has exactly as many
  instructions as `splitN`, which the default of 2 makes common. The model takes the value that is read
  there to be any that does not lead out of the block (`StrayPoints`): then the block is cut once more, which
  leaves an empty one.
* `LowerSwitch` with an unreachable default and a popular destination of several cases renames one
  phi entry of that destination and leaves those of the other cases, against the comment at
  `LowerSwitch.cpp:158`; so does the early return at 488. Flattening demotes the phi nodes at once, which
  makes it harmless, but not in a function with an invoke, where it returns first. `PhisMatchPreds` is therefore proved for
  functions that have no switch next to an invoke (`NoneHasBoth`); the run has one that has both, whose default is reachable.
  The block that `DeleteDeadBlock` removes (line 523) may be the one the loop of `runOnFunction` goes to next.
* `doF` makes a program's own always true comparison opaque, and erases the comparison, whatever else uses it.
  One branch on it is in the model (`OwnTrue`).
* `virustotal` skips one file more than `skip` says (line 57 against "skip first N files", line 11): by
  default it skips the first. The comments at lines 62-64 have the statuses 2 and 3 the other way round. Any
  answer but one upper-case letter counts as yes. A file that is listed twice may be
  submitted twice. A service whose reports get worse again would be asked for ever.
* `get_range(100) <= ObfProbRate` selects a block one time in a hundred more often than
  the rate, and a rate of 100 is the same as 99 (`BogusControlFlow.cpp:48` says "smaller").

## 5. What is proved

Every theorem is about all values of the constants: all term graphs, files, blocks, lists, word widths. The
proofs go the same way: an inductive invariant, an invariance theorem with one step per action, and each
property as a corollary. TLC was asked first whether the invariants hold on the runs' instances.

The assumptions on constants are the ones named in the modules, and TLC evaluates them in every run:
`Terms` is finite, the null node is no term, and the graphs, for training and for testing, are acyclic and
hash-consed (`TermsAssumption`, `GraphsAssumption`, `TestsAssumption`; `TableStaysTermGraph` is what makes the last one true
of what the parser delivers); bounds and cutoffs are numbers; the numbers on the lines of a file are not negative
(`FilesAssumption`); the list of the script names a file once (`ListAssumption`); the pool is a number of
whole blocks (`PoolAssumption`); a bound of `get_range` is a word (`WordAssumption`); a block is one LLVM's verifier
accepts and `-sub-loop` is positive (`ProgramsAssumption`); a function is one LLVM's verifier accepts, and each of its blocks
returns or has a way to go on that is defined (`CompilationsAssumption`); the options of the passes are in the ranges that their
constructors check (`SplitNumAssumption` and those after it), and the scrambling of cases is injective (`ScrambleAssumption`).
A theorem with a further hypothesis has it in its statement. There are six. Four stand for defects of the code that section 4
describes. `FewBlocks` says that a flattened function has no more blocks than the scrambling has words, of which there are
2^32 in the code and as many as `Scramble` gives in the model. `CanBeFlattened` is about functions to be flattened and nothing else: they have
few blocks, no switch (what this leaves to TLC is under "Only model-checked"), and an entry that chooses or falls through
(without it the statement is false: finding 5).

### Closure (`ClosureProofs`)

`ForestInv` carries the rest: it makes `GetRepresentative` one step long, so
that what `operator+=` does to representatives is a plain case distinction.
`ClassesMonochrome` is what makes the lookup table work at all: the key of a term
is made of the symbols of representatives, so no merge changes a key, and the
erase by recomputed key (line 95) finds the entry (`TableFresh`). Monochrome
classes need every pair in `wlist` to have one symbol, and soundness needs every
pair to be requested, congruent, or already forced; these strengthenings are
`Justified` and `RequestsKept`. `Refinement` maps each representative to the abstract
one and every step to a join or a stutter.

| theorem | states |
|---|---|
| `TypeCorrect`, `ForestCorrect`, `ClassesAreMonochrome`, `UsesAreKept`, `TableIsFresh` | the invariants of run `closure` |
| `MergesAreCounted` | the merge counter is the number of classes that disappeared |
| `Soundness` | every merge is forced by the requests, for any set of labellings |
| `EqualitiesAreKept` | action property: classes only grow |
| `Refinement` | `Closure` implements `Congruence` |

### Training (`LearnerProofs`, about `Spec` of `Inference`)

`Inference` uses `Closure` by instance, and its proof does the same with `ClosureProofs` (`CP`): every step of
training is a step of the closure or leaves it alone, so `CP!IInv` is kept, and what is added is that classes,
requests and waiting pairs relate k-roots only (`ClassesAreKRoots`, `RequestsAreKRoots`). That survives
congruence because being k-roots of each other is an equivalence that operands of
k-roots inherit with one level more or less. So `OnlyKRootsAreMerged` is independent of the hashes: a hash that is stale
or collides costs a comparison, never a wrong merge. `OnlyDeepTermsMerged` follows as the graph is hash-consed: k-roots
as shallow as the cutoff are the same term.

`ExactOnLayeredGraphs` is the other direction, and that one is about the hashes. When all paths from the roots to a
term have one length, a breadth-first pass rehashes a term before it reaches the operands, so that in each pass every hash is made
of the hashes of the pass before (`HashInv`), and equal k-roots are in one bucket when `Match` looks (`MatchInv`).
The visits need that a term is rehashed when its level is, once, and that what is left in the queue is
exactly the next level.

| theorem | states |
|---|---|
| `OnlyKRootsAreMerged` | whatever is identified agrees down to the cutoff |
| `OnlyDeepTermsMerged` | the assertion on the depth of merged terms |
| `ExactOnLayeredGraphs` | on layered graphs training ends with exactly the k-root classes, whatever the order of buckets and of the work list |

### Splicing (`LearnerProofs`, about `Spec` of `Automaton`)

`Given`, what the closure leaves, is part of `Init`.
`OperandsAreQuotient` and `UsesMirrorOperands` need each other: the splice of a class
redirects exactly the operands that its uses record, so that uses must mirror operands
before it for operands to be the quotient after it. The strengthening says that the calls
under way are of different, marked terms without a state (`StackInv`), so that no class is
spliced twice, and that a state is named by a marked representative and the
roots that are left are unmarked roots of the training set (`MarksInv`).
The theorems are `SpliceTypes`, `GraphIsQuotient`, `UsesAreMirrored`, `RootsAreVisitedOnce` and
`StatesAreProperlySpliced`: the state of a class is the only use of its members, no operand is a member any more, and the
assertion at the end of `visitNode` holds.

### The whole of `main` (`LearnerProofs`, about `LSpec` of `Learner`)

`ClassesGiven` joins the two halves: the classes a finished training leaves satisfy `Given`, because they are the classes of a forest
and have one symbol each. From there a step of `Learner` is a step of training (`TrainingInvariance`), or a step of `Automaton` on
classes that no longer change (`RebuildInvariance`), or counts matches (`LearnerInvariance`).
The acceptor is then a recursion over the test term on a graph that is known to be the quotient. Each of `Equal`,
`ValueOf` and the run of the quotient is shown to have a value for every test term (`EqualDefined`,
`MatchDefined`, `QuotientDefined`), and they are related by induction over the depth of the test term.

| theorem | states |
|---|---|
| `LearnerMergesKRoots`, `LearnerMergesDeepTerms`, `LearnerIsExact` | the results on training, until the program ends |
| `LearnerGraphIsQuotient`, `LearnerUsesAreMirrored`, `LearnerRootsVisitedOnce` | the results on splicing, on the classes that training computes |
| `AcceptorIsSound` | a match is a run of the quotient automaton |
| `AcceptorIsComplete` | where the classes met have their states (finding 2), the run there is gets found |
| `ExactMatchesAreUnique` | at most one term matches exactly, so the code may return the first it finds |
| `ExactMatchesAreUnspliced` | what matches exactly is what was made with the structure of the test term, and so with its hash, and has no state below it |
| `TrainingIsAccepted` | the training set is accepted |

### Parser (`DepParserProofs`)

Names: the table of signatures only grows, `registerNode` ends because the table is finite (`NameForEnds`), and
a name is given the first suffix that does not clash (`NamesInv`). Visit: `Visit` is a recursion on the number of unmarked
terms, shown to have a value on any heap, also one with cycles (`VisitDefined`); its order is closed under operands, without repetition, and
puts operands first unless they are on a cycle (`PostOrderIs`). Table: in every state of `CSE` the
translations made so far have the symbol, operands and depth of the terms they stand for, and the table
has no two equal entries and operands before uses (`TableInv`, `CseInv`); a term that is met before one of its operands
is on a cycle, and a cycle is never translated.

Files: `FileIsAdded` compares the trees of the heap with those of the table. The visits reach exactly the complete terms
(`PostOrderIsComplete`), because a term without uses is one that no edge left behind (`UsesInv`). During `CSE` the complete
terms are those translated and those still to come, and every new entry of the table is the translation of
a term done (`AddedInv`); a translated term and its entry have the same tree, by induction over the depth of the entry. The recursion
that defines a tree has a value there because what is done has no cycle.

| theorem | states |
|---|---|
| `SymbolsStayShared` | one name and arity have one symbol in all files, and a symbol one arity |
| `PlainNamesAreUnique` | a symbol has one name; hypothesis: no name ends with an underscore |
| `TableStaysTermGraph` | the table is acyclic and hash-consed, with exact depths: the assumption of the learner |
| `OrderStaysValid` | an operand is met untranslated only on a cycle |
| `FilesAreAdded` | a file adds its complete terms, each once, and nothing else |

### Random generator (`CryptoUtilsProofs`)

`PoolInv` says that the pool is a window on the stream whose
position is fixed by the number of blocks made, `Serving` that what has been copied is
the part of the stream before the index. With `WholeWords`
(pool and lengths multiples of 4) a request never ends one byte past the
pool, and the loop that stops one byte early never has exactly one left.
For `get_range`, the mask is one less than a power of two, so the values that a word is masked to are remainders by it: each is as
frequent as any other, rejection keeps that, and a bound needs more than half of the mask.

| theorem | states |
|---|---|
| `TypeCorrect`, `StreamIsInOrder` | the index stays in the pool; the bytes served are the stream, for every pool size and all lengths |
| `BuffersAreFilled` | every byte of a buffer is written; hypothesis `WholeWords` |
| `RangeIsUniform` | for every word width and bound, each value is drawn by equally many words, and at least half of the words are accepted |

### Control flow (`ObfuscationProofs`)

`Guards` carries the results on runs. It says that some set `J` of blocks, the altered copies, is closed off (`Guarded`): no junk is
outside `J`, and every terminator outside leads outside, but for the second way of a condition that is the constant `true`, or the
opaque predicate once `doF` has been there. More is needed for that to be inductive. A terminator outside is the original one or a jump
(`IsExit`), so that it has a way on when the original has; the copies come last in the layout (`JunkIsLast`), so that the
entry is never one of them and flattening puts them behind the others; there is a block other than the entry that
is no copy (`HasOther`), which flattening may start with; a copy ends in a jump or a branch, so that `LowerSwitch` finds no switch in it.

A pass is a fold: over cut points in `split()`, over clusters and blocks in `LowerSwitch`. A fold gets one lemma that it is the
sequence of its rounds (`CutAllIs`, `PlantedIs`, `LoweredIs`), and what a round does to the function is a predicate of its own,
which the invariants are shown to survive: `IsSplit` for a block cut in two, `Grown` for a block put behind another,
`IsLowered` for a switch that became a jump to its tree, `IsRemoved` for a default deleted, `IsFlat` for the dispatcher. The tree itself is a
recursive function of ranges of clusters; it has a value as ranges shrink (`ConversionExists`), and all that its blocks lead to
are destinations of the switch, its other blocks, and the new default (`ConvertsToTree`).

That the tree does what the switch did is `SwitchGoesHome`. `Clusterify` gives ranges in order that hold the cases of one destination each
and every case but those of the destination that takes the place of the default (`ClustersCover`); the comparison of a leaf, signed,
unsigned or after a subtraction that wraps, finds the words of its range, whatever the width (`WithinIs`). `Sends` says that the tests of
a tree lead a value to a block, as membership in every set that is closed under the tests: where a recursive
definition would have a fuel or a path. Induction over ranges (`RangeInduction`) has the bounds with which `switchConvert` is called
in its hypothesis: a value within them ends in the block its cluster goes to, or in the new default (`ConversionSends`), and a
leaf whose bounds are those of its cluster needs no test (`KnownSends`). No two blocks of the tree have a number in common (`ConversionIsNumbered`),
so the function that results has the terminators that were built (`PlantedTerms`, `TreeLeads`). `NextIsRun` says that where
the tests lead is where a run goes. The one value excluded is that of a way to an unreachable default, for which the original has no meaning.

Of a run `RunsInside` says that the block being executed is outside `J`, or one of the three of the dispatcher with the variable at a
case of a block outside. A flattened block stores the case of its successor, or, when it has two successors, of the one its condition
chooses; the cases are different because `scramble32` is injective and there are enough words (`CasesLead`).
When the variable has no case the default leads back to the dispatcher, so the run would stay inside there too.

Phi nodes: every pass keeps the entries and the predecessors of a block with phi nodes equal (`PhisKept`), with phi nodes first in
their block, as otherwise a cut could leave some behind (`SplitPhis`). `LowerSwitch` does not keep it (section 4), but the phi nodes of a flattened
function are gone, and one that is not flattened has an invoke, or a single block, and so had no switch to lower.

That the program is still the one that was compiled needs more than where it stays. `HasParts` says which part of the
original each block that may run is: `of[b]` is an original block and `skip[b]` the number of its instructions in front of the part. A part has the
instructions of `of[b]` from `skip[b]` on, in order, and ends as the original block does, the entries for it in phi nodes
behind it naming the original block, or goes on with the next part of the same block (`IsParted`, `IsPart`); blocks without instructions are allowed, as both
passes make them. One lemma per round of a fold shows that cutting (`SplitParts`), adding an altered copy (`AddedParts`) and putting the opaque
condition in (`BranchParts`) keep it, for new `of` and `skip`. Of a run `IsAlong` says that the machine is at the instruction that the
program is at: what `Program` may do next is `of[at] , skip + index`, and the entry of the phi nodes it stands in front of is the block
of the original that control came from (`IsAt`). A step that executes an instruction is a step of `Program`
(`ExecuteFollows`), one that goes to the next part a stutter, one that leaves the last part a way the original has
(`EndLeaves`, `PartLeaves`).

In a flattened function a block stores a case and jumps to the dispatcher, so the run may be at a block of the program or on
its way to one: `IsSentTo` says that the variable then is the case of that block and that `slot` already holds what the phi nodes take, as
`fixStack` has the stores in front of the edge. The way there is a stutter: a jump to the head of the loop and the switch of the dispatcher.
`FlatWay` says that the case stored is that of the successor the condition chose, `StoreIs` what `slot` holds, and `FlatGoes` that the run
arrives there and nowhere else.

| theorem | states |
|---|---|
| `OpaqueIsTrue` | `y < 10 \|\| x * (x - 1) % 2 == 0` holds for all words of every width |
| `AlteredCodeNeverRuns` | no instruction of an altered copy is executed, after any passes, draws and rounds; hypothesis: `FewBlocks` |
| `PhisAlwaysMatch` | phi nodes have an entry for every predecessor and no other after every step of a pass; hypothesis: `NoneHasBoth` |
| `SwitchGoesHome` | the tree that replaces a switch leads every value to the block the switch sent it to, for every width, every set of cases and every order of them |
| `ObfuscatedIsTheProgram` | the refinement of `Program`, initial states and steps: what was split, wrapped and flattened executes a path of the original function, with the values of phi nodes from the blocks the path came from; hypothesis: `CanBeFlattened` |

### Substitution (`SubstitutionProofs`)

`BlockInv` is that the block is well formed: different instructions have different numbers, and an operand is computed
before its use. `ReplacedIsWellFormed` moves the block behind the iterator and renames the uses of the operator.
The values of a block are then the one function that satisfies the equation of every instruction
(`ValuesCompute`), and a substitution keeps it on the old instructions, by induction over their places
(`SubstitutionKeepsValues`). What each of the thirteen substitutions computes is a lemma about words: those of additions and
subtractions by counting wraparounds (`SumIdentities`), the logical ones bit by bit (`BitIdentities`).

| theorem | states |
|---|---|
| `UsesStayDominated` | an operand is computed before it is used, after any number of rounds |
| `ValuesAreKept` | for every word width and block the value is kept; hypothesis: no `add` or `sub` has a flag (finding 4) |

### VirusTotal script (`VirusTotalProofs`)

Only files the script has left behind were submitted, apart from the one it asks about, so that a submission is
always one of a new file (`SubmittedInv`). The files left behind with no report and no submission are those it skipped,
and while it skips it counts them (`SkippedInv`); a kill leaves an open `.info` and no other does (`FlekInv`).

| theorem | states |
|---|---|
| `SubmissionsAreFiles` | the counter of submissions is the number of files submitted |
| `OpenIsFromKill` | an empty report is the work of a kill |
| `StoredForGood` | action property: a stored report is not lost |
| `RunsCoverFiles` | a run that ends has submitted all but the skipped files of those that have no `.info` then |

### Recursion and induction in the proofs

The provers cannot be given an induction hypothesis as an operator. `DataProofs` states induction about sets: the set of the numbers for which
something holds is all of `Nat` when it is closed under successor (`NatSetInduction`), likewise for terms by depth
(`DepthInduction`); a recursive function on terms exists when its body, as a function from candidate results to
results, looks at operands only (`DepthRecursion`); and a fold over a sequence has the value its prefixes lead to
(`FoldSolution`, `FoldPrefixes`). The instances of these lemmas are what the theorems on the acceptor, on
`Visit`, on `Pow2` and on the values of a block rest on.

### Only model-checked

* Liveness: `PropagateReturns`, `RunEnds`, `PassEnds`, `AllReported`, and the fairness part of `ImplementsProgram`, that the obfuscated program goes on. The provers
  have neither `ENABLED` nor well-founded temporal rules.
* `ImplementsProgram` for functions that are flattened and have a switch. `RunsInside` says that these, too, stay in blocks that may run, and
  `SwitchGoesHome` that the tree of each switch leads where the switch did; that the dispatcher, which then goes from block to block of the
  tree, takes it there with the right values of phi nodes is left to the runs.
* The findings, which are counterexamples.

## 6. Plan, and what is not modelled

What is left of the safety part of `ImplementsProgram` are flattened functions with a switch:

1. `IsParted` for a block whose switch was lowered, and the blocks of its tree: the original leaves from its leaves, which take over the phi entries
   that `fixPhis` moves.
2. `IsSentTo` on the way through a tree: the value is one of the way the program took, and the tests lead it to the block of that way
   (`SwitchGoesHome`).

Left out, with the reason:

* LLVM: `src/llvm-3.7.0` is a vendored copy of 2.19 million lines, of which the thesis
  adds the obfuscation passes and their registration. The models cover what these call of it
  (`splitBasicBlock`, `LowerSwitch`, `CreateNeg`, `CreateNot`) and the meaning of the instructions they
  emit. The rest has nothing to do with this program, and its size makes the share of the
  repository's lines that the models stand for small whatever else is modelled.
* Checker, dot output, statistics, option handling: no state that anything else reads. So too
  the numbers of matched terms and the distribution of depths the acceptor collects.
* Hash functions, AES, SHA-256, `scramble32`: pure bit-mixing; the models use the
  structure that is hashed, the position in the stream, an injection. `Rand` and `Counted` have no caller.
* `Term::addOp` and `BFSVisitor::visit(Term*)`: no caller.
* The registers that `fixStack` demotes, what junk instructions are: values are
  not modelled in `Obfuscation`, except the one a lowered switch is on.
* Landing pads, which `addBogusFlow` moves behind a branch (`BogusControlFlow.cpp:244`): the rule they break is LLVM's.
* The other experiment scripts, the build script and the thesis documents: one program per file, text and figures.
