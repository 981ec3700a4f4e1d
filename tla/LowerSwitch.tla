---------------------------- MODULE LowerSwitch ----------------------------
(***************************************************************************)
(* The pass LowerSwitch (Transforms/Utils/LowerSwitch.cpp), which Flattening *)
(* runs first: a switch becomes a binary tree of comparisons.  A switch is a *)
(* terminator of kind "cases": its successors are the default and one for    *)
(* each case, vals are the values of the cases.  A block of the tree ends in *)
(* "below" or "within", which test the value the switch is on.              *)
(***************************************************************************)
EXTENDS Cfg, MachineWords

CONSTANT Bits   \* the width of the value, not 0

Word == Pow2[Bits]
Smallest == -Pow2[Bits - 1]
Values == Smallest .. Pow2[Bits - 1] - 1

Unsigned(v) == v % Word

(* The values that take a way of a switch; the first way is the default. *)
ValuesOf(t, way) == IF way = 1 THEN Values \ ToSet(t.vals) ELSE {t.vals[way - 1]}

(* Mutant: every comparison is signed. *)
WithinSigned(v, low, high) == IF low = high THEN v = low ELSE v <= high

(* The test of a leaf: one value, or a range with a single comparison        *)
(* (lines 305-329).                                                         *)
Within(v, low, high) ==
    IF low = high THEN v = low
    ELSE IF low = Smallest THEN v <= high
    ELSE IF low = 0 THEN Unsigned(v) <= Unsigned(high)
    ELSE Unsigned(v - low) <= Unsigned(high - low)

-----------------------------------------------------------------------------
(* Clusterify: the cases in order, neighbours of one destination as one;      *)
(* those of the destinations in without are left out (lines 481-485).       *)
Clusterify(t, without) ==
    LET dest(v) == t.to[1 + CHOOSE i \in DOMAIN t.vals : t.vals[i] = v]
        cases == ToSet(t.vals)
        joined(v) == {v, v + 1} \subseteq cases /\ dest(v) = dest(v + 1)
        lows == InOrder({v \in cases : ~joined(v - 1) /\ dest(v) \notin without})
        high(low) == Min({v \in cases : v >= low /\ ~joined(v)})
    IN  [i \in DOMAIN lows |-> [low |-> lows[i], high |-> high(lows[i]), to |-> dest(lows[i])]]

(* The destination that first reaches the largest number of values           *)
(* (lines 461-465).                                                         *)
PopSucc(cs) ==
    LET pop(i) == Cardinality(UNION {cs[j].low .. cs[j].high :
                                        j \in {k \in 1 .. i : cs[k].to = cs[i].to}})
        most == Max({pop(i) : i \in DOMAIN cs})
    IN  cs[Min({i \in DOMAIN cs : pop(i) = most})].to

(* What is built for a range of clusters: the block to go to, the blocks in  *)
(* the order they are added, and the phi entries that move.  sw holds the    *)
(* clusters, the first number for a block, and the values the switch may be  *)
(* on.                                                                      *)
Node(n, pivot, left, right) ==
    [block |-> n,
     term |-> [to |-> <<left.root, right.root>>, cond |-> "below", sets |-> << >>, orig |-> 0,
               low |-> pivot]]

Known(c, pred) ==
    [root |-> c.to, blocks |-> << >>,
     moved |-> << [of |-> c.to, by |-> pred, merged |-> c.high - c.low] >>]

Leaf(sw, i) ==
    LET c == sw.clusters[i]
        leaf == sw.newDefault + i
    IN  [root |-> leaf,
         blocks |-> << [block |-> leaf,
                        term |-> [to |-> <<c.to, sw.newDefault>>, cond |-> "within",
                                  sets |-> << >>, orig |-> 0, low |-> c.low, high |-> c.high]] >>,
         moved |-> << [of |-> c.to, by |-> leaf, merged |-> c.high - c.low] >>]

(* The clusters from i to j, whose values are known to lie between the bounds *)
(* lo and hi (sets of at most one value), and which pred goes to.            *)
Converted(sw, convert, c) ==
    LET i == c[1]
        j == c[2]
        lo == c[3]
        hi == c[4]
        pred == c[5]
        one == sw.clusters[i]
        mid == i + (j - i + 1) \div 2
        pivot == sw.clusters[mid].low
        below == sw.clusters[mid - 1].high
        node == sw.newDefault + Len(sw.clusters) + mid
        newUpper == IF (below + 1 .. pivot - 1) \cap sw.reachable = {} THEN below
                                                                     ELSE pivot - 1
        left == convert[<<i, mid - 1, lo, {newUpper}, node>>]
        right == convert[<<mid, j, {pivot}, hi, node>>]
    IN  IF i = j
           THEN IF lo = {one.low} /\ hi = {one.high} THEN Known(one, pred) ELSE Leaf(sw, i)
           ELSE [root |-> node,
                 blocks |-> left.blocks \o right.blocks \o <<Node(node, pivot, left, right)>>,
                 moved |-> left.moved \o right.moved]

Calls(n) == {c \in (1 .. n) \X (1 .. n) \X (SUBSET Int) \X (SUBSET Int) \X Nat : c[1] <= c[2]}

SwitchConvert(sw, lower, upper, from) ==
    LET n == Len(sw.clusters)
        convert[c \in Calls(n)] == Converted(sw, convert, c)
    IN  convert[<<1, n, lower, upper, from>>]

-----------------------------------------------------------------------------
(* The terminator of the switch when it has been lowered. *)
Lowered(t, root) == [t EXCEPT !.to = <<root>>, !.cond = "lowered"]

(* fixPhis and its likes: of the phi entries for the block of the switch, of  *)
(* which there is one for each edge, one is renamed for each block that goes *)
(* there now, and those of merged cases are removed; what is left stays.     *)
FixPhis(from, b, t, moved, x) ==
    LET here == {m \in DOMAIN moved : moved[m].of = x}
        gone == SumFunction([m \in here |-> 1 + moved[m].merged])
        edges == Cardinality({i \in DOMAIN t.to : t.to[i] = x})
        kept == DOMAIN from[x] \ (IF gone >= edges THEN {b} ELSE {})
    IN  IF here = {} THEN from[x]
        ELSE [p \in kept \cup {moved[m].by : m \in here} |->
                IF p \in DOMAIN from[x] THEN from[x][p] ELSE from[x][b]]

(* A block of the tree goes behind the block of the switch. *)
AddNode(fn, b, node) ==
    AddBlock(fn, PlaceOf(fn, b) + 1, node.block, << >>, node.term, << >>)

(* processSwitchInst.  When the default is unreachable, the most popular      *)
(* destination takes its place.                                             *)
ProcessSwitch(fn, b) ==
    LET t == fn.term[b]
        all == Clusterify(t, {})
        exact == t.vals # << >> /\ IsUnreachable(fn, t.to[1])
        default == IF exact THEN PopSucc(all) ELSE t.to[1]
        cs == IF exact THEN Clusterify(t, {default}) ELSE all
        newDefault == Fresh(fn)
        sw == [clusters |-> cs, newDefault |-> newDefault,
               reachable |-> IF exact THEN ToSet(t.vals) ELSE Values]
        lo == IF exact THEN {Head(all).low} ELSE {}
        hi == IF exact THEN {Last(all).high} ELSE {}
        tree == SwitchConvert(sw, lo, hi, b)
        moved == Append(tree.moved, [of |-> default, by |-> newDefault, merged |-> 0])
        withDefault == AddBlock(fn, PlaceOf(fn, default), newDefault, << >>, Jump(default), << >>)
        withTree == FoldLeft(LAMBDA h, n : AddNode(h, b, n), withDefault, tree.blocks)
        done == [withTree EXCEPT !.term[b] = Lowered(t, tree.root),
                                 !.from = [x \in DOMAIN @ |->
                                             IF x \in DOMAIN fn.from
                                                THEN FixPhis(fn.from, b, t, moved, x) ELSE @[x]]]
    IN  IF cs = << >> THEN [fn EXCEPT !.term[b] = Lowered(t, default)]
        ELSE IF Preds(done, t.to[1]) = {} THEN [done EXCEPT !.layout = RemoveAt(@, PlaceOf(done, t.to[1]))]
        ELSE done

LowerBlock(fn, b) == IF fn.term[b].cond = "cases" THEN ProcessSwitch(fn, b) ELSE fn

(* runOnFunction *)
LowerSwitch(fn) == FoldLeft(LowerBlock, fn, fn.layout)
=============================================================================
