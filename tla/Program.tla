------------------------------ MODULE Program ------------------------------
(***************************************************************************)
(* What a function does, whatever a pass makes of it: it runs along a path   *)
(* of the original blocks, one instruction after the other, and each phi     *)
(* node takes the value of the predecessor the path came from.              *)
(***************************************************************************)
EXTENDS Cfg

VARIABLES g,      \* the original function; never changes
          done    \* the last instruction that was executed

(* An executed instruction: its place, the way a terminator chose (0 for the *)
(* other instructions and a return), the predecessor of its block.          *)
Event(b, i, choice, pred) == [block |-> b, index |-> i, choice |-> choice, pred |-> pred]

Start == Event(0, 0, 1, 0)

(* Where the path goes after an instruction: <<block, index, predecessor>>,  *)
(* or nowhere after a return.                                               *)
Onward(fn, e) ==
    IF e.block = 0 THEN {<<Entry(fn), 1, 0>>}
    ELSE IF e.index <= Len(fn.code[e.block]) THEN {<<e.block, e.index + 1, e.pred>>}
    ELSE IF e.choice = 0 THEN {}
    ELSE {<<fn.term[e.block].to[e.choice], 1, e.block>>}

(* The ways an instruction may go: a comparison that is always true has one,  *)
(* and what is unreachable is not reached.                                  *)
WaysOn(fn, b, i) ==
    LET t == fn.term[b]
    IN  IF i <= Len(fn.code[b]) \/ t.to = << >> THEN {0}
        ELSE {way \in DOMAIN t.to :
                (t.cond = "true" => way = 1) /\ ~IsUnreachable(fn, t.to[way])}

Follow(fn, e) ==
    UNION {{Event(p[1], p[2], c, p[3]) : c \in WaysOn(fn, p[1], p[2])} : p \in Onward(fn, e)}

Init == done = Start

Step ==
    /\ done' \in Follow(g, done)
    /\ UNCHANGED g

(* It runs until it returns. *)
Spec == Init /\ [][Step]_<<g, done>> /\ WF_<<g, done>>(Step)
=============================================================================
