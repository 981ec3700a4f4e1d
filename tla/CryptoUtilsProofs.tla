------------------------- MODULE CryptoUtilsProofs -------------------------
(***************************************************************************)
(* What get_bytes hands out, for every pool size, block size, seed and       *)
(* sequence of requests.                                                    *)
(***************************************************************************)
EXTENDS CryptoUtils, DataProofs, FunctionTheorems

(* What holds while a request is served: the bytes copied so far are the     *)
(* consecutive stream bytes that end at the first one not handed out yet.   *)
Serving ==
    pc # "idle" =>
        /\ seeded
        /\ served - sofar \in Nat
        /\ \A j \in 0 .. sofar - 1 : buffer[j] = served - sofar + j

PoolInv ==
    /\ seeded => /\ ctr >= Pool \div Block
                 /\ served = PoolByte(idx)
    /\ ~seeded => served = 0
    /\ pc = "copy" => sofar < len

IInv == TypeOK /\ PoolInv /\ Serving

(* The pool is a whole number of blocks (CryptoUtils.cpp:608), and refilling  *)
(* it moves its first byte by as much as it holds.                          *)
LEMMA WholeBlocks ==
    Pool \div Block \in Nat /\ (0 + Pool \div Block) * Block - Pool = 0
  BY PoolAssumption

LEMMA Refill ==
    ASSUME NEW c \in Nat, c >= Pool \div Block
    PROVE  /\ c * Block - Pool \in Nat
           /\ (c + Pool \div Block) * Block - Pool = c * Block
  <1> DEFINE n == Pool \div Block
  <1>1. n \in Nat /\ n * Block = Pool
    BY PoolAssumption
  <1>2. c * Block >= n * Block
    <2>1. PICK d \in Nat : c = n + d
      <3>1. c - n \in Nat /\ c = n + (c - n)
        BY <1>1
      <3> QED  BY <3>1
    <2>2. c * Block = n * Block + d * Block /\ d * Block \in Nat
      BY <2>1, <1>1, PoolAssumption
    <2> QED  BY <2>2, <1>1, PoolAssumption
  <1>3. (c + n) * Block = c * Block + n * Block
    BY <1>1, PoolAssumption
  <1>4. c * Block \in Nat
    BY PoolAssumption
  <1> QED  BY <1>1, <1>2, <1>3, <1>4, PoolAssumption

-----------------------------------------------------------------------------
LEMMA Initially == Init => IInv
  <1> SUFFICES ASSUME Init PROVE IInv
    OBVIOUS
  <1>1. buffer \in [0 .. len - 1 -> Int]
    BY DEF Init, Unset
  <1>2. key \in [KeyBytes -> Int]
    BY DEF Init, Unset
  <1>3. TypeOK
    <2>1. /\ seeded = FALSE /\ ctr = 0 /\ idx = 0 /\ pc = "idle" /\ len = 0
          /\ sofar = 0 /\ served = 0 /\ max = 0 /\ result = -1
      BY DEF Init, Unset
    <2>2. idx \in 0 .. Pool - 1 /\ sofar \in 0 .. len
      BY <2>1, PoolAssumption
    <2>3. ctr \in Nat /\ len \in Nat /\ served \in Int /\ max \in Nat /\ result \in Int
      BY <2>1
    <2>4. seeded \in BOOLEAN /\ pc \in {"idle", "copy", "returned"}
      BY <2>1
    <2> QED  BY <1>1, <1>2, <2>2, <2>3, <2>4, Zenon DEF TypeOK
  <1>4. PoolInv /\ Serving
    BY DEF Init, PoolInv, Serving
  <1> QED  BY <1>3, <1>4 DEF IInv

(* A request starts: nothing is copied, and an unseeded generator gets a     *)
(* stream whose first byte is the next to serve.                            *)
LEMMA RequestStarts ==
    ASSUME IInv, NEW n \in Nat \ {0}, GetBytes(n), max' \in Nat, result' = result
    PROVE  IInv'
  <1> USE PoolAssumption DEF IInv
  <1>1. 0 + Pool \div Block \in Nat /\ ctr \in Nat /\ idx \in Nat /\ Block \in Nat
    BY WholeBlocks DEF TypeOK
  <1>2. buffer' \in [0 .. n - 1 -> Int]
    BY DEF GetBytes, Unset
  <1>3. CASE seeded
    <2>1. UNCHANGED <<seeded, key, ctr, idx, served>>
      BY <1>3 DEF GetBytes, pool
    <2>2. TypeOK'
      BY <2>1, <1>2 DEF TypeOK, GetBytes
    <2>3. PoolInv'
      BY <2>1 DEF TypeOK, PoolInv, GetBytes, PoolByte
    <2>4. served \in Nat
      <3>1. ctr * Block - Pool \in Nat
        BY <1>3, Refill DEF TypeOK, PoolInv
      <3> QED  BY <1>3, <3>1, <1>1 DEF TypeOK, PoolInv, PoolByte
    <2>5. Serving'
      BY <2>1, <2>4, <1>3 DEF Serving, GetBytes
    <2> QED  BY <2>2, <2>3, <2>5
  <1>4. CASE ~seeded
    <2>1. /\ seeded' = TRUE /\ ctr' = 0 + Pool \div Block /\ idx' = 0
          /\ key' \in [KeyBytes -> Int] /\ served' = served
      BY <1>4 DEF GetBytes, PopulateFrom, KeyBytes
    <2>2. served = 0
      BY <1>4 DEF PoolInv
    <2>3. TypeOK'
      BY <2>1, <1>1, <1>2 DEF TypeOK, GetBytes
    <2>4. PoolInv'
      <3>1. ctr' * Block - Pool = 0
        BY <2>1, WholeBlocks
      <3> QED  BY <2>1, <2>2, <3>1, <1>1 DEF PoolInv, GetBytes, PoolByte
    <2>5. Serving'
      BY <2>1, <2>2 DEF Serving, GetBytes
    <2> QED  BY <2>3, <2>4, <2>5
  <1> QED  BY <1>3, <1>4

(* Refilling moves the first byte of the pool by what the pool holds. *)
LEMMA Refilled ==
    ASSUME IInv, seeded, PopulateFrom(ctr)
    PROVE  /\ ctr' \in Nat /\ ctr' >= Pool \div Block
           /\ PoolByte(idx)' = PoolByte(Pool)
  <1>1. ctr \in Nat /\ ctr >= Pool \div Block
    BY DEF IInv, TypeOK, PoolInv
  <1>2. /\ Pool \div Block \in Nat
        /\ (ctr + Pool \div Block) * Block - Pool = ctr * Block
    BY <1>1, Refill, WholeBlocks
  <1>3. ctr * Block \in Int
    BY <1>1, PoolAssumption
  <1> QED  BY <1>1, <1>2, <1>3, PoolAssumption DEF PopulateFrom, PoolByte

(* A copy of n bytes extends what was copied by the next stream bytes. *)
LEMMA CopiedBytes ==
    ASSUME IInv, pc = "copy", NEW n \in Nat, sofar + n <= len
    PROVE  /\ Copied(n) \in [0 .. len - 1 -> Int]
           /\ \A j \in 0 .. sofar + n - 1 : Copied(n)[j] = served - sofar + j
  <1> USE DEF IInv
  <1>1. /\ seeded /\ served = PoolByte(idx) /\ sofar \in Nat /\ len \in Nat
        /\ idx \in Nat /\ DOMAIN buffer = 0 .. len - 1
    BY DEF TypeOK, PoolInv, Serving
  <1>2. ctr * Block \in Int
    BY PoolAssumption DEF TypeOK
  <1>3. \A j \in Int : PoolByte(idx + j - sofar) \in Int
                       /\ PoolByte(idx + j - sofar) = served - sofar + j
    BY <1>1, <1>2, PoolAssumption DEF PoolByte
  <1>4. \A j \in 0 .. len - 1 : buffer[j] \in Int
    BY DEF TypeOK
  <1>5. Copied(n) \in [0 .. len - 1 -> Int]
    <2>1. \A j \in 0 .. len - 1 : (IF j \in sofar .. sofar + n - 1
                                    THEN PoolByte(idx + j - sofar)
                                    ELSE buffer[j]) \in Int
      BY <1>3, <1>4
    <2> QED  BY <2>1, <1>1, Zenon DEF Copied
  <1>6. ASSUME NEW j \in 0 .. sofar + n - 1
        PROVE  Copied(n)[j] = served - sofar + j
    <2>1. j \in 0 .. len - 1
      BY <1>1
    <2>2. CASE j \in 0 .. sofar - 1
      <3>1. j \notin sofar .. sofar + n - 1 /\ buffer[j] = served - sofar + j
        BY <2>2, <1>1 DEF Serving
      <3> QED  BY <3>1, <2>1, <1>1 DEF Copied
    <2>3. CASE j \in sofar .. sofar + n - 1
      BY <2>1, <2>3, <1>1, <1>3 DEF Copied
    <2> QED  BY <2>2, <2>3, <1>1
  <1> QED  BY <1>5, <1>6

(* Using up the pool and refilling it. *)
LEMMA CopyAvailableKeeps ==
    ASSUME IInv, CopyAvailable
    PROVE  IInv'
  <1>1. /\ pc = "copy" /\ idx + (len - sofar) >= Pool /\ PopulateFrom(ctr)
        /\ buffer' = Copied(Pool - idx) /\ sofar' = sofar + Pool - idx
        /\ served' = PoolByte(Pool)
        /\ pc' = IF sofar' < len - 1 THEN "copy" ELSE "returned"
        /\ UNCHANGED <<seeded, key, len, max, result>>
    BY DEF CopyAvailable, range
  <1>2. /\ seeded /\ served = PoolByte(idx) /\ served - sofar \in Nat
        /\ sofar \in 0 .. len /\ len \in Nat /\ idx \in 0 .. Pool - 1
    BY <1>1 DEF IInv, TypeOK, PoolInv, Serving
  <1>3. Pool - idx \in Nat /\ sofar + (Pool - idx) <= len
    BY <1>1, <1>2, PoolAssumption
  <1>4. ctr' \in Nat /\ ctr' >= Pool \div Block /\ PoolByte(idx)' = PoolByte(Pool)
    BY <1>1, <1>2, Refilled
  <1>5. /\ Copied(Pool - idx) \in [0 .. len - 1 -> Int]
        /\ \A j \in 0 .. sofar + (Pool - idx) - 1 :
               Copied(Pool - idx)[j] = served - sofar + j
    BY <1>1, <1>3, CopiedBytes
  <1>6. served' \in Int /\ served' - sofar' = served - sofar
    <2>1. ctr * Block \in Int
      BY PoolAssumption DEF IInv, TypeOK
    <2> QED  BY <2>1, <1>1, <1>2, PoolAssumption DEF PoolByte
  <1>7. TypeOK'
    <2>1. idx' = 0
      BY <1>1 DEF PopulateFrom
    <2>2. buffer' \in [0 .. len' - 1 -> Int]
      BY <1>1, <1>5
    <2>3. sofar' \in 0 .. len'
      BY <1>1, <1>2, <1>3
    <2> QED  BY <2>1, <2>2, <2>3, <1>1, <1>4, <1>6, PoolAssumption DEF IInv, TypeOK
  <1>8. PoolInv'
    BY <1>1, <1>2, <1>3, <1>4 DEF PoolInv
  <1>9. Serving'
    <2>1. \A j \in 0 .. sofar' - 1 : buffer'[j] = served' - sofar' + j
      <3>1. sofar' - 1 = sofar + (Pool - idx) - 1 /\ served' - sofar' = served - sofar
        BY <1>1, <1>2, <1>6, PoolAssumption
      <3>2. \A j \in 0 .. sofar + (Pool - idx) - 1 : buffer'[j] = served - sofar + j
        BY <1>1, <1>5
      <3> QED  BY <3>1, <3>2
    <2> QED  BY <2>1, <1>1, <1>2, <1>6 DEF Serving
  <1> QED  BY <1>7, <1>8, <1>9 DEF IInv

(* Serving the rest of a request from the pool. *)
LEMMA CopyRestKeeps ==
    ASSUME IInv, CopyRest
    PROVE  IInv'
  <1>1. /\ pc = "copy" /\ idx + (len - sofar) < Pool
        /\ buffer' = Copied(len - sofar) /\ sofar' = len
        /\ served' = PoolByte(idx) + len - sofar /\ idx' = idx + len - sofar
        /\ pc' = "returned"
        /\ UNCHANGED <<seeded, key, ctr, len, max, result>>
    BY DEF CopyRest, range
  <1>2. /\ seeded /\ served = PoolByte(idx) /\ served - sofar \in Nat
        /\ sofar \in 0 .. len /\ len \in Nat /\ idx \in 0 .. Pool - 1
        /\ served \in Int /\ ctr \in Nat
    BY <1>1 DEF IInv, TypeOK, PoolInv, Serving
  <1>3. /\ len - sofar \in Nat /\ sofar + (len - sofar) = len
    BY <1>2
  <1>4. /\ Copied(len - sofar) \in [0 .. len - 1 -> Int]
        /\ \A j \in 0 .. sofar + (len - sofar) - 1 :
               Copied(len - sofar)[j] = served - sofar + j
    <2>1. sofar + (len - sofar) <= len
      BY <1>3, <1>2
    <2> QED  BY <1>1, <1>3, <2>1, CopiedBytes
  <1>5. served' \in Int /\ served' - sofar' = served - sofar
    BY <1>1, <1>2
  <1>6. TypeOK'
    <2>1. buffer' \in [0 .. len' - 1 -> Int]
      BY <1>1, <1>4
    <2>2. sofar' \in 0 .. len' /\ idx' \in 0 .. Pool - 1
      BY <1>1, <1>2, PoolAssumption
    <2> QED  BY <2>1, <2>2, <1>1, <1>5 DEF IInv, TypeOK
  <1>7. PoolInv'
    <2>1. ctr * Block \in Int
      BY <1>2, PoolAssumption
    <2>2. served' = PoolByte(idx)'
      BY <2>1, <1>1, <1>2, PoolAssumption DEF PoolByte
    <2> QED  BY <2>2, <1>1, <1>2 DEF IInv, PoolInv
  <1>8. Serving'
    <2>1. \A j \in 0 .. len - 1 : buffer'[j] = served' - sofar' + j
      <3>1. sofar + (len - sofar) - 1 = len - 1 /\ served' - sofar' = served - sofar
        BY <1>2, <1>5
      <3>2. \A j \in 0 .. len - 1 : buffer'[j] = served - sofar + j
        BY <1>1, <1>4, <3>1
      <3> QED  BY <3>1, <3>2
    <2> QED  BY <2>1, <1>1, <1>2, <1>5 DEF Serving
  <1> QED  BY <1>6, <1>7, <1>8 DEF IInv

LEMMA Inductive == IInv /\ [Next]_vars => IInv'
  <1> SUFFICES ASSUME IInv, [Next]_vars PROVE IInv'
    OBVIOUS
  <1> USE DEF IInv
  <1>1. ASSUME NEW size \in SeedSizes, SeedString(size) PROVE IInv'
    <2>1. /\ seeded' = TRUE /\ ctr' = 0 + Pool \div Block /\ idx' = 0 /\ served' = 0
          /\ pc = "idle" /\ UNCHANGED <<pc, len, sofar, buffer, max, result>>
      BY <1>1 DEF SeedString, PopulateFrom, call, range
    <2>2. key' \in [KeyBytes -> Int]
      BY <1>1 DEF SeedString, KeyOf, KeyBytes, Unset
    <2>3. Pool \div Block \in Nat /\ ctr' * Block - Pool = 0
      BY <2>1, WholeBlocks
    <2>4. TypeOK'
      BY <2>1, <2>2, <2>3, PoolAssumption DEF TypeOK
    <2>5. PoolInv' /\ Serving'
      BY <2>1, <2>3 DEF PoolInv, Serving, PoolByte
    <2> QED  BY <2>4, <2>5
  <1>2. ASSUME NEW n \in Lengths, Request(n) PROVE IInv'
    <2>1. n \in Nat \ {0} /\ GetBytes(n) /\ max' \in Nat /\ result' = result
      BY <1>2, LengthsAssumption DEF Request, range, TypeOK
    <2> QED  BY <2>1, RequestStarts
  <1>3. CASE CopyAvailable
    BY <1>3, CopyAvailableKeeps
  <1>4. CASE CopyRest
    BY <1>4, CopyRestKeeps
  <1>5. CASE Return
    BY <1>5 DEF Return, TypeOK, PoolInv, Serving, PoolByte, pool, call, range
  <1>6. ASSUME NEW m \in Maxes, GetRange(m) PROVE IInv'
    <2>1. CASE m = 0
      <3>1. result' = 0 /\ UNCHANGED <<seeded, key, ctr, idx, pc, len, sofar, buffer, served, max>>
        BY <1>6, <2>1 DEF GetRange, pool, call
      <3> QED  BY <3>1 DEF TypeOK, PoolInv, Serving, PoolByte
    <2>2. CASE m # 0
      <3>1. GetBytes(4) /\ max' \in Nat /\ result' = result
        BY <1>6, <2>2, LengthsAssumption DEF GetRange
      <3> QED  BY <3>1, RequestStarts
    <2> QED  BY <2>1, <2>2
  <1>7. CASE Accept
    <2>1. /\ max' = 0 /\ result' \in 0 .. max - 1 /\ pc' = "idle"
          /\ UNCHANGED <<seeded, key, ctr, idx, len, sofar, buffer, served>>
      BY <1>7 DEF Accept, pool, call, TypeOK
    <2> QED  BY <2>1 DEF TypeOK, PoolInv, Serving, PoolByte
  <1>8. CASE Reject
    <2>1. GetBytes(4) /\ max' \in Nat /\ result' = result
      BY <1>8 DEF Reject, range, TypeOK
    <2> QED  BY <2>1, RequestStarts
  <1>9. CASE UNCHANGED vars
    BY <1>9 DEF vars, pool, call, range, TypeOK, PoolInv, Serving, PoolByte
  <1> QED  BY <1>1, <1>2, <1>3, <1>4, <1>5, <1>6, <1>7, <1>8, <1>9 DEF Next

-----------------------------------------------------------------------------
(* The pool is a window on the stream, at every step of every request. *)
THEOREM Invariance == Spec => []IInv
  BY Initially, Inductive, PTL DEF Spec

(* Every variable keeps its type: in particular the index never runs past    *)
(* the pool, because get_bytes refills it as soon as it is used up          *)
(* (CryptoUtils.cpp:690-696).                                               *)
THEOREM TypeCorrect == Spec => []TypeOK
  <1>1. IInv => TypeOK
    BY DEF IInv
  <1> QED  BY Invariance, <1>1, PTL

(* Requests are served by the stream in order, without gaps or repetitions,  *)
(* for every pool size and all request lengths (CryptoUtils.cpp:689-703).   *)
THEOREM StreamIsInOrder == Spec => []StreamInOrder
  <1>1. IInv => StreamInOrder
    BY DEF IInv, PoolInv, Serving, StreamInOrder
  <1> QED  BY Invariance, <1>1, PTL

(* Requests made of whole words, in a pool of whole words.                   *)
WholeWords == Pool % 4 = 0 /\ \A n \in Lengths : n % 4 = 0

WordInv ==
    /\ idx % 4 = 0
    /\ pc # "idle" => len % 4 = 0 /\ sofar % 4 = 0
    /\ pc = "returned" => sofar = len

LEMMA WordsInductive ==
    ASSUME WholeWords, IInv, WordInv, [Next]_vars
    PROVE  WordInv'
  <1> USE DEF WordInv
  <1>1. /\ idx \in Nat /\ len \in Nat /\ sofar \in 0 .. len
        /\ Pool \in Nat /\ Pool % 4 = 0
    BY PoolAssumption DEF IInv, TypeOK, WholeWords
  <1>2. ASSUME NEW n \in Nat, n % 4 = 0, GetBytes(n) PROVE WordInv'
    BY <1>2 DEF GetBytes, PopulateFrom, pool
  <1>3. ASSUME NEW size \in SeedSizes, SeedString(size) PROVE WordInv'
    BY <1>3 DEF SeedString, PopulateFrom, call
  <1>4. ASSUME NEW n \in Lengths, Request(n) PROVE WordInv'
    BY <1>4, <1>2, LengthsAssumption DEF Request, WholeWords
  <1>5. CASE CopyAvailable
    <2>1. /\ pc = "copy" /\ idx + (len - sofar) >= Pool /\ idx' = 0 /\ len' = len
          /\ sofar' = sofar + Pool - idx
          /\ pc' = IF sofar' < len - 1 THEN "copy" ELSE "returned"
      BY <1>5 DEF CopyAvailable, PopulateFrom
    <2>2. len % 4 = 0 /\ sofar % 4 = 0 /\ idx % 4 = 0
      BY <2>1
    <2>3. sofar' % 4 = 0 /\ sofar' \in Int
      BY <2>1, <2>2, <1>1
    <2>4. sofar' <= len /\ (sofar' >= len - 1 => sofar' = len)
      BY <2>1, <2>2, <2>3, <1>1
    <2> QED  BY <2>1, <2>2, <2>3, <2>4, <1>1
  <1>6. CASE CopyRest
    BY <1>6, <1>1 DEF CopyRest
  <1>7. CASE Return
    BY <1>7 DEF Return, pool, call
  <1>8. ASSUME NEW m \in Maxes, GetRange(m) PROVE WordInv'
    <2>1. CASE m = 0
      BY <1>8, <2>1 DEF GetRange, pool, call
    <2>2. CASE m # 0
      BY <1>8, <2>2, <1>2 DEF GetRange
    <2> QED  BY <2>1, <2>2
  <1>9. CASE Accept
    BY <1>9 DEF Accept, pool, call
  <1>10. CASE Reject
    BY <1>10, <1>2 DEF Reject
  <1>11. CASE UNCHANGED vars
    BY <1>11 DEF vars, pool, call
  <1> QED  BY <1>3, <1>4, <1>5, <1>6, <1>7, <1>8, <1>9, <1>10, <1>11 DEF Next

(* When the pool and all requests are whole words, as they are in the passes *)
(* (4, 8 and 16 bytes), get_bytes fills every buffer: its loop, which stops  *)
(* one byte early (CryptoUtils.cpp:703), then has nothing left to copy.     *)
THEOREM BuffersAreFilled == WholeWords /\ Spec => []BufferFilled
  <1> SUFFICES ASSUME WholeWords PROVE Spec => []BufferFilled
    OBVIOUS
  <1>1. Init => WordInv
    BY DEF Init, WordInv
  <1>2. IInv /\ WordInv /\ [Next]_vars => WordInv'
    BY WordsInductive
  <1>3. IInv /\ WordInv => BufferFilled
    <2> SUFFICES ASSUME IInv, WordInv, pc = "returned", NEW j \in 0 .. len - 1
                 PROVE  buffer[j] # Unset
      BY DEF BufferFilled
    <2>1. buffer[j] = served - sofar + j /\ served - sofar \in Nat
      BY DEF IInv, Serving, WordInv
    <2>2. len \in Nat
      BY DEF IInv, TypeOK
    <2> QED  BY <2>1, <2>2 DEF Unset
  <1> QED  BY Invariance, <1>1, <1>2, <1>3, PTL DEF Spec

-----------------------------------------------------------------------------
(* The mask of m has the digits of m, all ones: the loop over masks[] stops   *)
(* at the first digit of m (CryptoUtils.cpp:761-767).                        *)
LEMMA MaskHasDigits ==
    ASSUME NEW m \in Nat \ {0}
    PROVE  \E k \in Nat : /\ Mask(m) + 1 = Pow2[k]
                          /\ m < Pow2[k]
                          /\ Pow2[k] <= 2 * m
                          /\ \A n \in Nat : m < Pow2[n] => k <= n
  <1> DEFINE S == Nat \ {0}
             Body(f, b) == IF m < b THEN b - 1 ELSE f[2 * b]
             body == [b \in S |-> [f \in [S -> Nat] |-> Body(f, b)]]
             depth == [b \in S |-> IF m < b THEN 0 ELSE m + 1 - b]
             IsBits(f) == f = [b \in Nat |-> Body(f, b)]
             bits == CHOOSE f : IsBits(f)
  <1>1. \A b \in S : 2 * b \in S /\ (~ (m < b) => depth[2 * b] < depth[b])
    <2> SUFFICES ASSUME NEW b \in S PROVE 2 * b \in S /\ (~ (m < b) => depth[2 * b] < depth[b])
      OBVIOUS
    <2>1. 2 * b \in S
      OBVIOUS
    <2>2. ASSUME ~ (m < b) PROVE depth[2 * b] < depth[b]
      <3>1. depth[b] = m + 1 - b /\ depth[2 * b] = IF m < 2 * b THEN 0 ELSE m + 1 - 2 * b
        BY <2>1, <2>2
      <3> HIDE DEF depth
      <3> QED  BY <2>2, <3>1
    <2> QED  BY <2>1, <2>2
  <1>2. PICK f \in [S -> Nat] : \A b \in S : f[b] = Body(f, b)
    <2>1. \A b \in S : \A h \in [S -> Nat] : Body(h, b) \in Nat
      BY <1>1
    <2>2. body \in [S -> [[S -> Nat] -> Nat]] /\ depth \in [S -> Nat]
      BY <2>1
    <2>3. \A b \in S : \A h \in [S -> Nat] : body[b][h] = Body(h, b)
      OBVIOUS
    <2>4. ASSUME NEW b \in S, NEW h \in [S -> Nat], NEW e \in [S -> Nat],
                 \A r \in S : depth[r] < depth[b] => h[r] = e[r]
          PROVE  body[b][h] = body[b][e]
      <3>1. ~ (m < b) => h[2 * b] = e[2 * b]
        BY <1>1, <2>4
      <3> HIDE DEF body, depth
      <3> QED  BY <2>3, <3>1
    <2> HIDE DEF body, depth, Body, S
    <2>5. IsRecursion(S, Nat, depth, body)
      BY <2>2, <2>4 DEF IsRecursion
    <2>6. HasSolution(S, Nat, body)
      BY <2>5, DepthRecursion
    <2> QED  BY <2>3, <2>6 DEF HasSolution
  <1>3. \E h : IsBits(h)
    <2> DEFINE h == [b \in Nat |-> IF b = 0 THEN 0 ELSE f[b]]
    <2>1. h[0] = 0 /\ \A b \in S : h[b] = f[b]
      OBVIOUS
    <2>2. \A b \in Nat : 2 * b \in Nat /\ (b # 0 => 2 * b \in S /\ b \in S)
      OBVIOUS
    <2>3. \A b \in Nat : h[b] = Body(h, b)
      <3> HIDE DEF h
      <3>1. \A b \in S : f[b] = IF m < b THEN b - 1 ELSE f[2 * b]
        BY <1>2
      <3>2. \A b \in S : h[b] = Body(h, b)
        BY <2>1, <2>2, <3>1
      <3>3. h[0] = Body(h, 0)
        BY <2>1
      <3> QED  BY <3>2, <3>3
    <2>4. h = [b \in Nat |-> h[b]]
      OBVIOUS
    <2>5. IsBits(h)
      <3> HIDE DEF h
      <3> QED  BY <2>3, <2>4
    <2> QED  BY <2>5
  <1>4. IsBits(bits)
    <2> HIDE DEF IsBits
    <2> QED  BY <1>3
  <1>5. Mask(m) = bits[1]
    BY DEF Mask
  <1> HIDE DEF bits
  <1>6. \A b \in Nat : bits[b] = IF m < b THEN b - 1 ELSE bits[2 * b]
    BY <1>4
  <1> DEFINE D == {n \in Nat : m < Pow2[n]}
  <1>7. m \in D
    BY PowersGrow
  <1>8. PICK k \in D : \A n \in D : k <= n
    <2>1. D \in SUBSET Nat /\ D # {}
      BY <1>7
    <2> HIDE DEF D
    <2> QED  BY <2>1, LeastNatural
  <1> DEFINE T == {j \in Nat : j <= k => bits[Pow2[j]] = bits[1]}
  <1>9. Nat \subseteq T
    <2>1. 0 \in T
      BY Powers
    <2>2. ASSUME NEW j \in Nat, j \in T PROVE j + 1 \in T
      <3> SUFFICES ASSUME j + 1 <= k PROVE bits[Pow2[j + 1]] = bits[1]
        OBVIOUS
      <3>1. k \in Nat /\ ~ (k <= j) /\ bits[Pow2[j]] = bits[1]
        BY <1>8, <2>2
      <3>2. ~ (m < Pow2[j])
        BY <1>8, <3>1
      <3>3. Pow2[j] \in Nat /\ Pow2[j + 1] = 2 * Pow2[j]
        BY Powers
      <3> QED  BY <1>6, <3>1, <3>2, <3>3
    <2> HIDE DEF T
    <2> QED  BY <2>1, <2>2, NatSetInduction
  <1>10. k \in Nat /\ m < Pow2[k] /\ Pow2[k] \in Nat
    BY <1>8, Powers
  <1>11. bits[1] = Pow2[k] - 1
    <2>1. k \in T
      BY <1>9, <1>10
    <2> QED  BY <1>6, <1>10, <2>1
  <1>12. Pow2[k] <= 2 * m
    <2>1. k # 0
      BY <1>10, Powers
    <2>2. k - 1 \in Nat /\ (k - 1) + 1 = k /\ ~ (k <= k - 1)
      BY <1>10, <2>1
    <2>3. ~ (m < Pow2[k - 1])
      BY <1>8, <2>2
    <2>4. Pow2[k - 1] \in Nat /\ Pow2[k] = 2 * Pow2[k - 1]
      BY <2>2, Powers
    <2> QED  BY <2>3, <2>4
  <1>13. \A n \in Nat : m < Pow2[n] => k <= n
    BY <1>8
  <1> QED  BY <1>5, <1>10, <1>11, <1>12, <1>13

LEMMA RemaindersAreEven ==
    ASSUME NEW n \in Nat \ {0}, NEW q \in Nat, NEW r \in 0 .. n - 1
    PROVE  Cardinality({w \in 0 .. q * n - 1 : w % n = r}) = q
  <1> DEFINE W == {w \in 0 .. q * n - 1 : w % n = r}
             f == [i \in 1 .. q |-> (i - 1) * n + r]
  <1>1. ASSUME NEW i \in 1 .. q PROVE (i - 1) * n + r \in W
    <2>1. i - 1 \in Nat /\ i - 1 < q
      OBVIOUS
    <2>2. (i - 1) * n \in Nat /\ (i - 1) * n + n <= q * n /\ q * n \in Nat
      BY <2>1, Multiples
    <2>3. ((i - 1) * n + r) % n = r
      BY <2>1, Remainder
    <2> QED  BY <2>2, <2>3
  <1>2. ASSUME NEW i \in 1 .. q, NEW j \in 1 .. q, (i - 1) * n + r = (j - 1) * n + r
        PROVE  i = j
    <2>1. /\ i - 1 \in Nat /\ j - 1 \in Nat
          /\ (i - 1) * n \in Nat /\ (j - 1) * n \in Nat
      OBVIOUS
    <2>2. (i - 1) * n = (j - 1) * n
      BY <1>2, <2>1
    <2>3. ~ (i - 1 < j - 1)
      <3>1. i - 1 < j - 1 => (i - 1) * n + n <= (j - 1) * n
        BY <2>1, Multiples
      <3> QED  BY <2>1, <2>2, <3>1
    <2>4. ~ (j - 1 < i - 1)
      <3>1. j - 1 < i - 1 => (j - 1) * n + n <= (i - 1) * n
        BY <2>1, Multiples
      <3> QED  BY <2>1, <2>2, <3>1
    <2> QED  BY <2>3, <2>4
  <1>3. ASSUME NEW w \in W PROVE \E i \in 1 .. q : (i - 1) * n + r = w
    <2>1. w \in Nat /\ w < q * n /\ w % n = r /\ q * n \in Nat
      OBVIOUS
    <2>2. PICK d \in Nat, e \in 0 .. n - 1 : w = d * n + e
      BY <2>1, Division
    <2>3. e = r
      BY <2>1, <2>2, Remainder
    <2>4. d * n \in Nat /\ d * n < q * n
      BY <2>1, <2>2
    <2>5. ~ (q < d) /\ q # d
      <3>1. q < d => q * n + n <= d * n
        BY Multiples
      <3> QED  BY <2>1, <2>4, <3>1
    <2>6. d + 1 \in 1 .. q /\ (d + 1) - 1 = d
      BY <2>5
    <2> QED  BY <2>2, <2>3, <2>6
  <1> HIDE DEF W
  <1>4. f \in Bijection(1 .. q, W)
    <2>1. f \in [1 .. q -> W] /\ \A i \in 1 .. q : f[i] = (i - 1) * n + r
      BY <1>1
    <2> HIDE DEF f
    <2>2. \A i, j \in 1 .. q : f[i] = f[j] => i = j
      BY <1>2, <2>1
    <2>3. \A w \in W : \E i \in 1 .. q : f[i] = w
      BY <1>3, <2>1
    <2> QED  BY <2>1, <2>2, <2>3, Fun_IsBij
  <1>5. ExistsBijection(1 .. q, W)
    BY <1>4, Fun_ExistsBij
  <1>6. Cardinality(W) = q
    BY <1>5, FS_CountingElements
  <1> QED  BY <1>6 DEF W

(* A draw is below max for the same number of words whatever it is, and for   *)
(* at least half of all words.                                              *)
DrawsAreEven(m) ==
    /\ \A r \in 0 .. m - 1 : Draws(r) = Draws(0) /\ Draws(r) > 0
    /\ 2 * Draws(0) * m >= Pow2[Width]

LEMMA DrawsEven ==
    ASSUME max \in Nat \ {0}, max < Pow2[Width]
    PROVE  DrawsAreEven(max)
  <1>1. PICK k \in Nat : /\ Mask(max) + 1 = Pow2[k] /\ max < Pow2[k] /\ Pow2[k] <= 2 * max
                         /\ \A n \in Nat : max < Pow2[n] => k <= n
    BY MaskHasDigits
  <1>2. Width \in Nat
    BY WordAssumption
  <1>3. k <= Width
    BY <1>1, <1>2
  <1>4. PICK q \in Nat \ {0} : Pow2[Width] = q * Pow2[k]
    BY <1>2, <1>3, PowersDivide
  <1>5. Pow2[k] \in Nat \ {0}
    BY Powers
  <1>6. ASSUME NEW r \in 0 .. max - 1 PROVE Draws(r) = q
    <2>1. r \in 0 .. Pow2[k] - 1
      BY <1>1, <1>5
    <2>2. Cardinality({w \in 0 .. q * Pow2[k] - 1 : w % Pow2[k] = r}) = q
      BY <1>5, <2>1, RemaindersAreEven
    <2> QED  BY <1>1, <1>4, <2>2 DEF Draws, Draw, Words
  <1>7. Draws(0) = q
    BY <1>6
  <1>8. 2 * q * max >= q * Pow2[k]
    <2>1. PICK d \in Nat : 2 * max = Pow2[k] + d
      <3>1. 2 * max - Pow2[k] \in Nat /\ 2 * max = Pow2[k] + (2 * max - Pow2[k])
        BY <1>1, <1>5
      <3> QED  BY <3>1
    <2>2. 2 * q * max = q * (2 * max) /\ q * (Pow2[k] + d) = q * Pow2[k] + q * d /\ q * d \in Nat
      BY <1>5
    <2> QED  BY <1>5, <2>1, <2>2
  <1> QED  BY <1>4, <1>6, <1>7, <1>8 DEF DrawsAreEven

LEMMA RangeInductive ==
    max \in Maxes \cup {0} /\ [Next]_vars => (max \in Maxes \cup {0})'
  BY DEF Next, SeedString, Request, CopyAvailable, CopyRest, Return, GetRange, Accept, Reject,
         range, vars

(* get_range draws every value below its bound with the same probability,     *)
(* and a draw is kept at least every second time on average, whatever the     *)
(* bound (CryptoUtils.cpp:753-777).                                         *)
THEOREM RangeIsUniform == Spec => []RangeUniform
  <1>1. Init => max \in Maxes \cup {0}
    BY DEF Init
  <1>2. max \in Maxes \cup {0} => RangeUniform
    <2> SUFFICES ASSUME max \in Maxes, max # 0 PROVE RangeUniform
      BY DEF RangeUniform
    <2>1. max \in Nat \ {0} /\ max < Pow2[Width]
      BY LengthsAssumption, WordAssumption
    <2>2. DrawsAreEven(max)
      BY <2>1, DrawsEven
    <2> QED  BY <2>2 DEF DrawsAreEven, RangeUniform
  <1> QED  BY <1>1, <1>2, RangeInductive, PTL DEF Spec
=============================================================================
