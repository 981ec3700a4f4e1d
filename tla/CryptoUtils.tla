---------------------------- MODULE CryptoUtils ----------------------------
(***************************************************************************)
(* The pseudo-random generator the obfuscation passes share                 *)
(* (llvm-3.7.0/lib/Transforms/Obfuscation/CryptoUtils.cpp): a pool of        *)
(* keystream bytes, refilled by encrypting a counter, from which get_bytes   *)
(* serves requests of any length, and get_range draws below a bound.        *)
(*                                                                          *)
(* A keystream byte is modelled by its position in the stream, so that a     *)
(* byte served twice, skipped or never written can be told apart.           *)
(***************************************************************************)
EXTENDS MachineWords, FiniteSets

CONSTANTS Pool,       \* CryptoUtils_POOL_SIZE
          Block,      \* bytes per encrypted counter, 16
          Lengths,    \* lengths passed to get_bytes
          SeedSizes,  \* lengths of the strings passed to prng_seed
          Maxes,      \* bounds passed to get_range
          Width,      \* the bits of a word of get_uint32_t, 32
          MaxBlocks   \* bound on the blocks generated by a run of the model

ASSUME PoolAssumption ==
    /\ Pool \in Nat \ {0} /\ Block \in Nat \ {0}
    /\ Pool % Block = 0
ASSUME LengthsAssumption == Lengths \subseteq Nat \ {0} /\ Maxes \subseteq Nat

(* A bound is a word too: both are uint32_t. *)
ASSUME WordAssumption == Width \in Nat /\ \A m \in Maxes : m < Pow2[Width]

Words == 0 .. Pow2[Width] - 1

Unset == -1  \* a byte nothing was written to

VARIABLES seeded,  \* seeded
          key,     \* the byte pair of the seed string each key byte was read from
          ctr,     \* the counter; its 64 bits are never exhausted
          idx,     \* first unused byte of the pool
          pc,      \* "idle", "copy" (in get_bytes), "returned"
          len,     \* get_bytes's len
          sofar,   \* get_bytes's sofar
          buffer,  \* the caller's buffer
          served,  \* stream position after the last byte served (history)
          max,     \* get_range's max, 0 outside get_range
          result   \* the last result of get_range, Unset before

pool == <<ctr, idx>>
call == <<len, sofar, buffer>>
range == <<max, result>>
vars == <<seeded, key, pool, pc, call, served, range>>

-----------------------------------------------------------------------------
KeyBytes == 0 .. 15

(* prng_seed(string): pair p of the string, from the third character on when *)
(* it has a prefix, is written to s[i >> 1]; the first 16 bytes become key.  *)
(* With the prefix, s[0] is not written and s[16] is past the end of s.      *)
KeyOf(size) ==
    LET first == IF size = 34 THEN 1 ELSE 0
        written == first .. (size \div 2) - 1
    IN  [j \in KeyBytes |-> IF j \in written THEN j - first ELSE Unset]

(* pool[i]: the pool holds the last Pool bytes encrypted. *)
PoolByte(i) == ctr * Block - Pool + i

(* memcpy of n pool bytes to the buffer. *)
Copied(n) == [j \in DOMAIN buffer |->
                 IF j \in sofar .. sofar + n - 1 THEN PoolByte(idx + j - sofar)
                                                 ELSE buffer[j]]

(* populate_pool from a counter c: one increment for each block. *)
PopulateFrom(c) ==
    /\ ctr' = c + Pool \div Block
    /\ idx' = 0

Init ==
    /\ seeded = FALSE
    /\ key = [j \in KeyBytes |-> Unset]
    /\ ctr = 0
    /\ idx = 0
    /\ pc = "idle"
    /\ len = 0
    /\ sofar = 0
    /\ buffer = [j \in 0 .. len - 1 |-> Unset]
    /\ served = 0
    /\ max = 0
    /\ result = Unset

(* prng_seed(string), called when a pass manager is built with --aesSeed.    *)
(* Any other size is an error that ends the compilation.                    *)
SeedString(size) ==
    /\ pc = "idle"
    /\ size \in {32, 34}
    /\ seeded' = TRUE
    /\ key' = KeyOf(size)
    /\ PopulateFrom(0)
    /\ served' = 0
    /\ UNCHANGED <<pc, call, range>>

(* get_bytes up to its loop.  An unseeded generator is seeded from the       *)
(* system first; a failure to do so ends the compilation.                   *)
GetBytes(n) ==
    /\ pc' = "copy"
    /\ len' = n
    /\ sofar' = 0
    /\ buffer' = [j \in 0 .. n - 1 |-> Unset]
    /\ IF seeded THEN UNCHANGED <<seeded, key, pool>>
       ELSE /\ seeded' = TRUE
            /\ key' = [j \in KeyBytes |-> j]
            /\ PopulateFrom(0)
    /\ UNCHANGED served

Request(n) ==
    /\ pc = "idle"
    /\ GetBytes(n)
    /\ UNCHANGED range

(* Mutants: a request for the rest of the pool leaves it empty; the index is *)
(* not moved; the pool is refilled without copying what is left of it.      *)
CopyRestInclusive ==
    /\ pc = "copy"
    /\ idx + (len - sofar) <= Pool
    /\ buffer' = Copied(len - sofar)
    /\ served' = PoolByte(idx) + len - sofar
    /\ idx' = idx + len - sofar
    /\ sofar' = len
    /\ pc' = "returned"
    /\ UNCHANGED <<seeded, key, ctr, len, range>>

CopyRestUnmoved ==
    /\ pc = "copy"
    /\ idx + (len - sofar) < Pool
    /\ buffer' = Copied(len - sofar)
    /\ served' = PoolByte(idx) + len - sofar
    /\ sofar' = len
    /\ pc' = "returned"
    /\ UNCHANGED <<seeded, key, pool, len, range>>

CopyAvailableUnfilled ==
    /\ pc = "copy"
    /\ idx + (len - sofar) >= Pool
    /\ ctr < MaxBlocks
    /\ sofar' = sofar + Pool - idx
    /\ served' = PoolByte(Pool)
    /\ PopulateFrom(ctr)
    /\ pc' = IF sofar' < len - 1 THEN "copy" ELSE "returned"
    /\ UNCHANGED <<seeded, key, len, buffer, range>>

(* Lines 690-696: use up the pool and refill it. *)
CopyAvailable ==
    /\ pc = "copy"
    /\ idx + (len - sofar) >= Pool
    /\ ctr < MaxBlocks
    /\ buffer' = Copied(Pool - idx)
    /\ sofar' = sofar + Pool - idx
    /\ served' = PoolByte(Pool)
    /\ PopulateFrom(ctr)
    /\ pc' = IF sofar' < len - 1 THEN "copy" ELSE "returned"
    /\ UNCHANGED <<seeded, key, len, range>>

(* Lines 697-702: the pool has enough. *)
CopyRest ==
    /\ pc = "copy"
    /\ idx + (len - sofar) < Pool
    /\ buffer' = Copied(len - sofar)
    /\ served' = PoolByte(idx) + len - sofar
    /\ idx' = idx + len - sofar
    /\ sofar' = len
    /\ pc' = "returned"
    /\ UNCHANGED <<seeded, key, ctr, len, range>>

(* get_bytes returns to a caller outside get_range. *)
Return ==
    /\ pc = "returned"
    /\ max = 0
    /\ pc' = "idle"
    /\ UNCHANGED <<seeded, key, pool, call, served, range>>

-----------------------------------------------------------------------------
(* Mutant: a mask one binary digit short. *)
MaskShort(m) ==
    LET bits[b \in Nat] == IF m < 2 * b THEN b - 1 ELSE bits[2 * b]
    IN  bits[1]

(* get_range: the mask has as many ones as max has binary digits. *)
Mask(m) ==
    LET bits[b \in Nat] == IF m < b THEN b - 1 ELSE bits[2 * b]
    IN  bits[1]

GetRange(m) ==
    /\ pc = "idle"
    /\ IF m = 0 THEN /\ result' = 0
                     /\ UNCHANGED <<seeded, key, pool, pc, call, served, max>>
       ELSE /\ max' = m
            /\ UNCHANGED result
            /\ GetBytes(4)

(* The low digits of a random word. *)
Draw(word) == word % (Mask(max) + 1)

(* The draw is below max and is returned. *)
Accept ==
    /\ pc = "returned"
    /\ max # 0
    /\ \E word \in Words, r \in 0 .. max - 1 : r = Draw(word) /\ result' = r
    /\ max' = 0
    /\ pc' = "idle"
    /\ UNCHANGED <<seeded, key, pool, call, served>>

(* The draw is not below max: draw again. *)
Reject ==
    /\ pc = "returned"
    /\ max # 0
    /\ \E word \in Words : Draw(word) >= max
    /\ GetBytes(4)
    /\ UNCHANGED range

Next ==
    \/ \E size \in SeedSizes : SeedString(size)
    \/ \E n \in Lengths : Request(n)
    \/ CopyAvailable
    \/ CopyRest
    \/ Return
    \/ \E m \in Maxes : GetRange(m)
    \/ Accept
    \/ Reject

Spec == Init /\ [][Next]_vars

-----------------------------------------------------------------------------
(* Every variable has its type; the pool never runs empty between calls,     *)
(* because it is refilled as soon as its last byte is used                  *)
(* (CryptoUtils.cpp:690, 619).                                              *)
TypeOK ==
    /\ seeded \in BOOLEAN
    /\ key \in [KeyBytes -> Int]
    /\ ctr \in Nat
    /\ idx \in 0 .. Pool - 1
    /\ pc \in {"idle", "copy", "returned"}
    /\ len \in Nat
    /\ sofar \in 0 .. len
    /\ buffer \in [0 .. len - 1 -> Int]
    /\ served \in Int
    /\ max \in Nat
    /\ result \in Int

(* get_bytes writes every byte of the caller's buffer (CryptoUtils.cpp:      *)
(* 689-703; CryptoUtils.h:218-223 promises uniformly distributed values).   *)
BufferFilled == pc = "returned" => \A j \in 0 .. len - 1 : buffer[j] # Unset

(* A request is served by consecutive keystream bytes that follow those of   *)
(* the request before: none is handed out twice and none is skipped, across  *)
(* refills too (CryptoUtils.cpp:690-702).                                   *)
StreamInOrder ==
    /\ pc = "returned" => \A j \in 0 .. sofar - 1 : buffer[j] = served - sofar + j
    /\ seeded => served = PoolByte(idx)

(* A draw falls below max for at least half of the words, and each value     *)
(* below max for the same number of them: "two times in average"            *)
(* (CryptoUtils.cpp:771) and "uniformly distributed" (CryptoUtils.h:225).   *)
Draws(r) == Cardinality({word \in Words : Draw(word) = r})

RangeUniform ==
    pc = "returned" /\ max # 0 =>
        /\ \A r \in 0 .. max - 1 : Draws(r) = Draws(0) /\ Draws(r) > 0
        /\ 2 * Draws(0) * max >= Pow2[Width]
=============================================================================
