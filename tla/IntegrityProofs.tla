-------------------------- MODULE IntegrityProofs ---------------------------
(***************************************************************************)
(* Proofs about module Integrity, for every file, of whatever size, and    *)
(* every chunk size: the chunks partition the file, every chunk is under   *)
(* the root of the Merkle tree, the tree that is built level by level is   *)
(* the one defined from the top, its root determines its leaves, and so a  *)
(* download that is verified against it is the file.                       *)
(***************************************************************************)
EXTENDS Integrity, Induction, SequenceTheorems, TLAPS

-----------------------------------------------------------------------------
(* Arithmetic. *)

LEMMA DivFacts ==
  ASSUME NEW x \in Nat, NEW d \in Nat \ {0}
  PROVE  /\ x \div d \in Nat
         /\ (x \div d) * d <= x
         /\ x < (x \div d) * d + d
  OBVIOUS

LEMMA Distribute ==
  ASSUME NEW i \in Int, NEW d \in Int
  PROVE  (i + 1) * d = i * d + d /\ i * d \in Int
  OBVIOUS

LEMMA Monotone ==
  ASSUME NEW i \in Int, NEW j \in Int, NEW d \in Nat, i <= j
  PROVE  i * d <= j * d
  OBVIOUS

(* SplitFile's number of chunks (chunk.go:59): each chunk starts within    *)
(* the file, and they reach its end.                                       *)
LEMMA NumChunksFacts ==
  ASSUME NEW size \in Nat
  PROVE  /\ NumChunks(size) \in Nat
         /\ \A i \in Nat : i < NumChunks(size) => i * ChunkSize < size
         /\ size <= NumChunks(size) * ChunkSize
<1> DEFINE n == NumChunks(size)
<1>1. ChunkSize \in Nat \ {0} /\ size + ChunkSize - 1 \in Nat
  BY IntegrityAssumption
<1>2. /\ n \in Nat /\ n * ChunkSize <= size + ChunkSize - 1
      /\ size + ChunkSize - 1 < n * ChunkSize + ChunkSize
  BY <1>1, DivFacts DEF NumChunks
<1> HIDE DEF n
<1>3. n * ChunkSize \in Int
  BY <1>1, <1>2
<1>4. size <= n * ChunkSize
  BY <1>1, <1>2, <1>3
<1>5. ASSUME NEW i \in Nat, i < n PROVE i * ChunkSize < size
  <2>1. (i + 1) * ChunkSize <= n * ChunkSize
    BY <1>1, <1>2, <1>5, Monotone
  <2>2. (i + 1) * ChunkSize = i * ChunkSize + ChunkSize /\ i * ChunkSize \in Int
    BY <1>1, Distribute
  <2> QED
    BY <1>1, <1>2, <1>3, <2>1, <2>2
<1> QED
  BY <1>2, <1>4, <1>5 DEF n

-----------------------------------------------------------------------------
(* The invariant of the loop over the chunks: each is where its index puts *)
(* it, and starts within the file (chunk.go:64-69).                        *)
ChunkOK(cs, size, i) ==
  /\ (i - 1) * ChunkSize < size
  /\ cs[i].start = (i - 1) * ChunkSize
  /\ cs[i].end = ChunkEnd((i - 1) * ChunkSize, size)

SplitInv ==
  /\ Len(data) \in Nat
  /\ chunks \in Seq([start : Nat, end : Nat])
  /\ Len(chunks) <= NumChunks(Len(data))
  /\ pc # "split" => Len(chunks) = NumChunks(Len(data))
  /\ \A i \in 1 .. Len(chunks) : ChunkOK(chunks, Len(data), i)

LEMMA SplitInvInit == Init => SplitInv
<1> SUFFICES ASSUME Init PROVE SplitInv
  OBVIOUS
<1>1. Len(data) \in Nat
  BY DEF Init
<1> QED
  BY <1>1, NumChunksFacts DEF Init, SplitInv

(* One iteration of SplitFile's loop. *)
LEMMA SplitInvSplit ==
  ASSUME SplitInv, SplitNextChunk
  PROVE  SplitInv'
<1> DEFINE size == Len(data)
           n == Len(chunks)
           start == n * ChunkSize
           new == [start |-> start, end |-> ChunkEnd(start, size)]
<1>1. /\ size \in Nat /\ n \in Nat /\ n < NumChunks(size)
      /\ NumChunks(size) \in Nat /\ ChunkSize \in Nat \ {0}
  BY NumChunksFacts, IntegrityAssumption DEF SplitInv, SplitNextChunk
<1>2. start \in Nat /\ start < size
  <2>1. start < size
    BY <1>1, NumChunksFacts
  <2> QED
    BY <1>1, <2>1
<1>3. ChunkEnd(start, size) \in Nat
  BY <1>1, <1>2 DEF ChunkEnd
<1>4. chunks' = Append(chunks, new) /\ data' = data /\ pc' = pc
  BY DEF SplitNextChunk
<1>5. new \in [start : Nat, end : Nat]
  BY <1>2, <1>3
<1> HIDE DEF new
<1>6. /\ chunks' \in Seq([start : Nat, end : Nat])
      /\ Len(chunks') = n + 1
      /\ chunks'[n + 1] = new
      /\ \A i \in 1 .. n : chunks'[i] = chunks[i]
  BY <1>4, <1>5 DEF SplitInv
<1>7. ASSUME NEW i \in 1 .. n + 1 PROVE ChunkOK(chunks', size, i)
  <2>1. CASE i = n + 1
    BY <1>1, <1>2, <1>6, <2>1 DEF ChunkOK, new
  <2>2. CASE i \in 1 .. n
    BY <1>6, <2>2 DEF SplitInv, ChunkOK
  <2> QED
    BY <1>1, <2>1, <2>2
<1>8. pc = "split"
  BY DEF SplitNextChunk
<1> QED
  BY <1>1, <1>4, <1>6, <1>7, <1>8 DEF SplitInv

LEMMA SplitInvNext == SplitInv /\ [Next]_vars => SplitInv'
<1> SUFFICES ASSUME SplitInv, [Next]_vars PROVE SplitInv'
  OBVIOUS
<1>1. CASE SplitNextChunk
  BY <1>1, SplitInvSplit
<1>2. CASE EnterBuildMerkleTree
  BY <1>2 DEF EnterBuildMerkleTree, SplitInv
<1>3. CASE PairNodes
  BY <1>3 DEF PairNodes, SplitInv
<1>4. CASE StoreMetadata
  BY <1>4 DEF StoreMetadata, SplitInv
<1>5. ASSUME NEW d, NEW h, ReceiveChunk(d, h) PROVE SplitInv'
  BY <1>5 DEF ReceiveChunk, SplitInv
<1>6. CASE UNCHANGED vars
  BY <1>6 DEF vars, SplitInv
<1> QED
  BY <1>1, <1>2, <1>3, <1>4, <1>5, <1>6 DEF Next, Upload, Download

(* What the loop keeps true is a partition of the file. *)
LEMMA SplitInvImplies == SplitInv => ChunksPartitionData
<1> SUFFICES ASSUME SplitInv PROVE ChunksPartitionData
  OBVIOUS
<1> DEFINE size == Len(data)
           n == Len(chunks)
<1>1. size \in Nat /\ n \in Nat /\ ChunkSize \in Nat \ {0}
  BY IntegrityAssumption DEF SplitInv
<1>2. ASSUME NEW i \in 1 .. n
      PROVE  /\ (i - 1) * ChunkSize \in Nat /\ (i - 1) * ChunkSize < size
             /\ chunks[i].start = (i - 1) * ChunkSize
             /\ chunks[i].end = ChunkEnd((i - 1) * ChunkSize, size)
             /\ i * ChunkSize = (i - 1) * ChunkSize + ChunkSize
  <2>1. i - 1 \in Nat /\ (i - 1) + 1 = i
    BY <1>1
  <2>2. i * ChunkSize = (i - 1) * ChunkSize + ChunkSize
    BY <1>1, <2>1, Distribute
  <2> QED
    BY <1>1, <2>1, <2>2 DEF SplitInv, ChunkOK
<1>3. ASSUME NEW i \in 1 .. n
      PROVE  /\ chunks[i].end - chunks[i].start \in 1 .. ChunkSize
             /\ \/ chunks[i].end - chunks[i].start = ChunkSize
                \/ chunks[i].end = size
             /\ chunks[i].end <= size
  <2> DEFINE s == (i - 1) * ChunkSize
  <2>1. /\ s \in Nat /\ s < size /\ chunks[i].start = s
        /\ chunks[i].end = ChunkEnd(s, size)
    BY <1>2
  <2> HIDE DEF s
  <2> QED
    BY <1>1, <2>1 DEF ChunkEnd
<1>4. ASSUME NEW i \in 1 .. n
      PROVE  chunks[i].start = IF i = 1 THEN 0 ELSE chunks[i - 1].end
  <2>1. CASE i = 1
    BY <1>1, <1>2, <2>1
  <2>2. CASE i # 1
    <3>1. i - 1 \in 1 .. n
      BY <1>1, <2>2
    <3>2. /\ chunks[i - 1].end = ChunkEnd(((i - 1) - 1) * ChunkSize, size)
          /\ (i - 1) * ChunkSize = ((i - 1) - 1) * ChunkSize + ChunkSize
          /\ ((i - 1) - 1) * ChunkSize \in Nat
      BY <1>2, <3>1
    <3>3. (i - 1) * ChunkSize < size /\ chunks[i].start = (i - 1) * ChunkSize
      BY <1>2
    <3> QED
      BY <1>1, <2>2, <3>2, <3>3 DEF ChunkEnd
  <2> QED
    BY <2>1, <2>2
<1>5. ASSUME pc # "split"
      PROVE  size = IF n = 0 THEN 0 ELSE chunks[n].end
  <2>1. n = NumChunks(size) /\ size <= n * ChunkSize
    BY <1>1, <1>5, NumChunksFacts DEF SplitInv
  <2>2. CASE n = 0
    BY <1>1, <2>1, <2>2
  <2>3. CASE n # 0
    BY <1>1, <1>2, <2>1, <2>3 DEF ChunkEnd
  <2> QED
    BY <2>2, <2>3
<1> QED
  BY <1>3, <1>4, <1>5 DEF ChunksPartitionData

(* The chunks partition the file, for every file and every chunk size      *)
(* (chunk.go:58-69).                                                       *)
THEOREM ChunksAlwaysPartition == Spec => []ChunksPartitionData
  BY SplitInvInit, SplitInvNext, SplitInvImplies, PTL DEF Spec

-----------------------------------------------------------------------------
(* The nodes of a level cover the leaves 1 to n in order. *)
Covers(level, n) ==
  /\ Len(level) \in Nat
  /\ \A i \in 1 .. Len(level) : level[i].from \in Nat /\ level[i].to \in Nat
  /\ \A i \in 1 .. Len(level) :
       /\ level[i].from = IF i = 1 THEN 1 ELSE level[i - 1].to + 1
       /\ level[i].from <= level[i].to
  /\ n = IF Len(level) = 0 THEN 0 ELSE level[Len(level)].to

(* The first level does, whatever the hashes are (hash.go:39-42). *)
LEMMA LeavesCover ==
  ASSUME NEW hashes, Len(hashes) \in Nat
  PROVE  Covers(Leaves(hashes), Len(hashes))
<1>1. /\ Len(Leaves(hashes)) = Len(hashes)
      /\ \A i \in 1 .. Len(hashes) :
           Leaves(hashes)[i].from = i /\ Leaves(hashes)[i].to = i
  BY DEF Leaves
<1> QED
  BY <1>1 DEF Covers

LEMMA Halves ==
  ASSUME NEW m \in Nat, m > 1
  PROVE  /\ (m + 1) \div 2 \in Nat /\ (m + 1) \div 2 >= 1
         /\ m = 2 * ((m + 1) \div 2) \/ m = 2 * ((m + 1) \div 2) - 1
  OBVIOUS

(* And so does the next one, be their number even or odd (hash.go:47-60). *)
LEMMA NextLevelCovers ==
  ASSUME NEW level, NEW n, Covers(level, n), Len(level) > 1
  PROVE  Covers(NextLevel(level), n)
<1> DEFINE m == Len(level)
           half == (m + 1) \div 2
           next == NextLevel(level)
<1>1. m \in Nat /\ m > 1 /\ half \in Nat /\ half >= 1
      /\ (m = 2 * half \/ m = 2 * half - 1)
  <2>1. m \in Nat /\ m > 1
    BY DEF Covers
  <2> QED
    BY <2>1, Halves
<1>2. Len(next) = half /\ \A i \in 1 .. half : next[i] = Paired(level, i)
  BY <1>1 DEF NextLevel
<1>3. ASSUME NEW i \in 1 .. half
      PROVE  /\ 2 * i - 1 \in 1 .. m
             /\ next[i].from = level[2 * i - 1].from
             /\ 2 * i <= m => 2 * i \in 1 .. m /\ next[i].to = level[2 * i].to
             /\ ~ (2 * i <= m) => i = half /\ 2 * i - 1 = m
                                    /\ next[i].to = level[2 * i - 1].to
  <2>1. /\ 2 * i - 1 \in 1 .. m
        /\ 2 * i <= m => 2 * i \in 1 .. m
        /\ ~ (2 * i <= m) => i = half /\ 2 * i - 1 = m
    BY <1>1
  <2>2. next[i] = Paired(level, i)
    BY <1>2
  <2> QED
    BY <2>1, <2>2 DEF Paired
<1> HIDE DEF next, half
<1>4. ASSUME NEW i \in 1 .. half
      PROVE  /\ next[i].from \in Nat /\ next[i].to \in Nat
             /\ next[i].from <= next[i].to
  <2>1. CASE 2 * i <= m
    <3>1. /\ level[2 * i].from = level[2 * i - 1].to + 1
          /\ level[2 * i - 1].from <= level[2 * i - 1].to
          /\ level[2 * i].from <= level[2 * i].to
          /\ level[2 * i - 1].to \in Nat /\ level[2 * i - 1].from \in Nat
          /\ level[2 * i].to \in Nat /\ level[2 * i].from \in Nat
      <4>1. 2 * i - 1 \in 1 .. m /\ 2 * i \in 1 .. m /\ 2 * i # 1
        BY <1>1, <1>3, <2>1
      <4> QED
        BY <4>1 DEF Covers
    <3>2. next[i].from = level[2 * i - 1].from /\ next[i].to = level[2 * i].to
      BY <1>3, <2>1
    <3> QED
      BY <3>1, <3>2
  <2>2. CASE ~ (2 * i <= m)
    BY <1>3, <2>2 DEF Covers
  <2> QED
    BY <2>1, <2>2
<1>5. ASSUME NEW i \in 1 .. half
      PROVE  next[i].from = IF i = 1 THEN 1 ELSE next[i - 1].to + 1
  <2>1. CASE i = 1
    BY <1>1, <1>3, <2>1 DEF Covers
  <2>2. CASE i # 1
    <3>1. i - 1 \in 1 .. half /\ 2 * (i - 1) <= m /\ 2 * (i - 1) = (2 * i - 1) - 1
          /\ 2 * i - 1 # 1
      BY <1>1, <2>2
    <3>2. next[i - 1].to = level[(2 * i - 1) - 1].to
      BY <1>3, <3>1
    <3>3. level[2 * i - 1].from = level[(2 * i - 1) - 1].to + 1
      BY <1>3, <3>1 DEF Covers
    <3> QED
      BY <1>3, <2>2, <3>2, <3>3
  <2> QED
    BY <2>1, <2>2
<1>6. n = next[half].to
  <2>1. half \in 1 .. half
    BY <1>1
  <2>2. next[half].to = level[m].to
    <3>1. CASE 2 * half <= m
      <4>1. m = 2 * half
        BY <1>1, <3>1
      <4> QED
        BY <1>3, <2>1, <3>1, <4>1
    <3>2. CASE ~ (2 * half <= m)
      BY <1>3, <2>1, <3>2
    <3> QED
      BY <3>1, <3>2
  <2> QED
    BY <1>1, <2>2 DEF Covers
<1> QED
  BY <1>1, <1>2, <1>4, <1>5, <1>6 DEF Covers, next

TreeInv == SplitInv /\ (pc # "split" => Covers(nodes, Len(chunks)))

LEMMA TreeInvNext == TreeInv /\ [Next]_vars => TreeInv'
<1> SUFFICES ASSUME TreeInv, [Next]_vars PROVE TreeInv'
  OBVIOUS
<1>0. SplitInv'
  BY SplitInvNext DEF TreeInv
<1>1. CASE SplitNextChunk
  BY <1>0, <1>1 DEF SplitNextChunk, TreeInv
<1>2. CASE EnterBuildMerkleTree
  <2>1. Len(chunks) \in Nat /\ Len(ChunkHashes) = Len(chunks)
    BY DEF TreeInv, SplitInv, ChunkHashes
  <2>2. Covers(Leaves(ChunkHashes), Len(chunks))
    BY <2>1, LeavesCover
  <2> QED
    BY <1>0, <1>2, <2>2 DEF EnterBuildMerkleTree, TreeInv
<1>3. CASE PairNodes
  <2>1. Covers(NextLevel(nodes), Len(chunks))
    BY <1>3, NextLevelCovers DEF PairNodes, TreeInv
  <2> QED
    BY <1>0, <1>3, <2>1 DEF PairNodes, TreeInv
<1>4. CASE StoreMetadata
  BY <1>0, <1>4 DEF StoreMetadata, TreeInv
<1>5. ASSUME NEW d, NEW h, ReceiveChunk(d, h) PROVE TreeInv'
  BY <1>0, <1>5 DEF ReceiveChunk, TreeInv
<1>6. CASE UNCHANGED vars
  BY <1>0, <1>6 DEF vars, TreeInv
<1> QED
  BY <1>1, <1>2, <1>3, <1>4, <1>5, <1>6 DEF Next, Upload, Download

(* Every chunk is under the root, and in its place, for every number of    *)
(* chunks (hash.go:44-63).                                                 *)
THEOREM EveryLeafAlwaysCounts == Spec => []EveryLeafCounts
<1>1. Init => TreeInv
  BY SplitInvInit DEF Init, TreeInv
<1>2. TreeInv => EveryLeafCounts
  BY DEF TreeInv, Covers, EveryLeafCounts
<1> QED
  BY <1>1, <1>2, TreeInvNext, PTL DEF Spec

-----------------------------------------------------------------------------
(* Powers of two.  A recursive function is what its equation says, once it *)
(* is shown that some function satisfies the equation.                     *)

PowerUpTo(h, m) == h = [i \in 0 .. m |-> IF i = 0 THEN 1 ELSE 2 * h[i - 1]]

LEMMA PowersUpToExist == \A m \in Nat : \E h : PowerUpTo(h, m)
<1> DEFINE S == {m \in Nat : \E h : PowerUpTo(h, m)}
<1>1. 0 \in S
  <2>1. PowerUpTo([i \in 0 .. 0 |-> 1], 0)
    BY DEF PowerUpTo
  <2> QED
    BY <2>1
<1>2. ASSUME NEW m \in Nat, m \in S PROVE m + 1 \in S
  <2>1. PICK h : PowerUpTo(h, m)
    BY <1>2
  <2> DEFINE k == [i \in 0 .. m + 1 |-> IF i \in 0 .. m THEN h[i] ELSE 2 * h[m]]
  <2>2. PowerUpTo(k, m + 1)
    <3>1. \A i \in 0 .. m : h[i] = IF i = 0 THEN 1 ELSE 2 * h[i - 1]
      BY <2>1 DEF PowerUpTo
    <3> QED
      BY <3>1 DEF PowerUpTo
  <2> HIDE DEF k
  <2> QED
    BY <2>2
<1> HIDE DEF S
<1>3. \A m \in Nat : m \in S
  BY <1>1, <1>2, NumberInduction
<1> QED
  BY <1>3 DEF S

LEMMA PowersAgree ==
  ASSUME NEW m \in Nat, NEW h, PowerUpTo(h, m), NEW l \in Nat, NEW g, PowerUpTo(g, l)
  PROVE  \A i \in Nat : i <= m /\ i <= l => h[i] = g[i]
<1> DEFINE S == {i \in Nat : i <= m /\ i <= l => h[i] = g[i]}
<1>1. /\ \A i \in 0 .. m : h[i] = IF i = 0 THEN 1 ELSE 2 * h[i - 1]
      /\ \A i \in 0 .. l : g[i] = IF i = 0 THEN 1 ELSE 2 * g[i - 1]
  BY DEF PowerUpTo
<1>2. 0 \in S
  BY <1>1
<1>3. ASSUME NEW i \in Nat, i \in S PROVE i + 1 \in S
  <2> SUFFICES ASSUME i + 1 <= m, i + 1 <= l PROVE h[i + 1] = g[i + 1]
    OBVIOUS
  <2>1. i + 1 \in 0 .. m /\ i + 1 \in 0 .. l /\ i + 1 # 0 /\ (i + 1) - 1 = i
    OBVIOUS
  <2>2. h[i] = g[i]
    BY <1>3
  <2> QED
    BY <1>1, <2>1, <2>2
<1> HIDE DEF S
<1>4. \A i \in Nat : i \in S
  BY <1>2, <1>3, NumberInduction
<1> QED
  BY <1>4 DEF S

LEMMA PowerEquation ==
  Power = [n \in Nat |-> IF n = 0 THEN 1 ELSE 2 * Power[n - 1]]
<1> DEFINE c(n) == CHOOSE h : PowerUpTo(h, n)
           f == [n \in Nat |-> c(n)[n]]
<1>1. ASSUME NEW n \in Nat PROVE PowerUpTo(c(n), n)
  BY PowersUpToExist
<1> HIDE DEF c
<1>2. ASSUME NEW n \in Nat PROVE f[n] = IF n = 0 THEN 1 ELSE 2 * f[n - 1]
  <2>1. n \in 0 .. n /\ c(n)[n] = IF n = 0 THEN 1 ELSE 2 * c(n)[n - 1]
    BY <1>1 DEF PowerUpTo
  <2>2. CASE n # 0
    <3>1. n - 1 \in Nat /\ n - 1 <= n
      BY <2>2
    <3>2. c(n)[n - 1] = c(n - 1)[n - 1]
      BY <1>1, <3>1, PowersAgree
    <3> QED
      BY <2>1, <2>2, <3>1, <3>2
  <2> QED
    BY <2>1, <2>2
<1>3. f = [n \in Nat |-> IF n = 0 THEN 1 ELSE 2 * f[n - 1]]
  BY <1>2
<1> HIDE DEF f
<1> QED
  BY <1>3 DEF Power

LEMMA PowerFacts ==
  /\ Power[0] = 1
  /\ \A n \in Nat : /\ Power[n] \in Nat \ {0} /\ n < Power[n]
                    /\ Power[n + 1] = 2 * Power[n]
<1> DEFINE S == {n \in Nat : Power[n] \in Nat \ {0} /\ n < Power[n]}
<1>1. Power[0] = 1 /\ \A n \in Nat : Power[n + 1] = 2 * Power[n]
  <2>1. \A n \in Nat : Power[n] = IF n = 0 THEN 1 ELSE 2 * Power[n - 1]
    BY PowerEquation
  <2>2. ASSUME NEW n \in Nat PROVE n + 1 \in Nat /\ n + 1 # 0 /\ (n + 1) - 1 = n
    OBVIOUS
  <2> QED
    BY <2>1, <2>2
<1>2. 0 \in S
  BY <1>1
<1>3. ASSUME NEW n \in Nat, n \in S PROVE n + 1 \in S
  BY <1>1, <1>3
<1> HIDE DEF S
<1>4. \A n \in Nat : n \in S
  BY <1>2, <1>3, NumberInduction
<1> QED
  BY <1>1, <1>4 DEF S

LEMMA PowersApart ==
  ASSUME NEW a \in Nat, NEW b \in Nat, a < b
  PROVE  2 * Power[a] <= Power[b]
<1> DEFINE S == {n \in Nat : 2 * Power[a] <= Power[a + 1 + n]}
<1>1. 0 \in S
  BY PowerFacts
<1>2. ASSUME NEW n \in Nat, n \in S PROVE n + 1 \in S
  <2>1. /\ a + 1 + n \in Nat /\ a + 1 + (n + 1) = (a + 1 + n) + 1
    OBVIOUS
  <2>2. /\ Power[a + 1 + (n + 1)] = 2 * Power[a + 1 + n]
        /\ Power[a + 1 + n] \in Nat /\ Power[a] \in Nat
    BY <2>1, PowerFacts
  <2> QED
    BY <1>2, <2>2
<1> HIDE DEF S
<1>3. \A n \in Nat : n \in S
  BY <1>1, <1>2, NumberInduction
<1>4. b - a - 1 \in Nat /\ a + 1 + (b - a - 1) = b
  OBVIOUS
<1>5. 2 * Power[a] <= Power[a + 1 + (b - a - 1)]
  BY <1>3, <1>4 DEF S
<1> QED
  BY <1>4, <1>5

(* The left subtree of w leaves has as many as the power of two that is    *)
(* less than w and at least its half.                                      *)
LEMMA LeftLeavesIs ==
  ASSUME NEW a \in Nat, NEW w \in Nat, Power[a] < w, w <= 2 * Power[a]
  PROVE  LeftLeaves(w) = Power[a]
<1> DEFINE P == {Power[n] : n \in 0 .. w}
<1>1. Power[a] \in P
  BY PowerFacts
<1>2. ASSUME NEW p \in P, p < w, w <= 2 * p PROVE p = Power[a]
  <2>1. PICK b \in 0 .. w : p = Power[b]
    OBVIOUS
  <2>2. b \in Nat /\ Power[a] \in Nat /\ Power[b] \in Nat
    BY PowerFacts
  <2>3. CASE a < b
    <3>1. 2 * Power[a] <= Power[b]
      BY <2>2, <2>3, PowersApart
    <3> QED
      BY <1>2, <2>1, <2>2, <3>1
  <2>4. CASE b < a
    <3>1. 2 * Power[b] <= Power[a]
      BY <2>2, <2>4, PowersApart
    <3> QED
      BY <1>2, <2>1, <2>2, <3>1
  <2> QED
    BY <2>1, <2>2, <2>3, <2>4
<1>3. LeftLeaves(w) = CHOOSE p \in P : p < w /\ w <= 2 * p
  BY DEF LeftLeaves
<1> HIDE DEF P
<1> QED
  BY <1>1, <1>2, <1>3

LEMMA LeftLeavesInside ==
  ASSUME NEW w \in Nat, w >= 2
  PROVE  LeftLeaves(w) \in 1 .. w - 1
<1> DEFINE T == {b \in Nat : w <= Power[b]}
<1>1. w \in T
  BY PowerFacts
<1>2. PICK b \in T : \A y \in T : b <= y
  <2>1. T \in SUBSET Nat /\ T # {}
    BY <1>1
  <2> HIDE DEF T
  <2> QED
    BY <2>1, LeastNumber
<1>3. b # 0
  BY <1>2, PowerFacts
<1>4. b - 1 \in Nat /\ ~ (w <= Power[b - 1]) /\ (b - 1) + 1 = b
  BY <1>2, <1>3
<1>5. Power[b - 1] \in Nat \ {0} /\ Power[b] = 2 * Power[b - 1]
  BY <1>4, PowerFacts
<1>6. LeftLeaves(w) = Power[b - 1]
  BY <1>2, <1>4, <1>5, LeftLeavesIs
<1> QED
  BY <1>4, <1>5, <1>6

-----------------------------------------------------------------------------
(* The tree by its definition from the top. *)

Row(h, hashes, w) ==
  [i \in 1 .. Len(hashes) - w + 1 |->
     IF w = 1 THEN hashes[i]
     ELSE HashOfPair(h[LeftLeaves(w)][i],
                     h[w - LeftLeaves(w)][i + LeftLeaves(w)])]

IsTree(h, hashes, m) == h = [w \in 1 .. m |-> Row(h, hashes, w)]

TreeOf(hashes) == CHOOSE h : IsTree(h, hashes, Len(hashes))

LEMMA TreesExist == \A hashes : \A m \in Nat : \E h : IsTree(h, hashes, m)
<1> SUFFICES ASSUME NEW hashes PROVE \A m \in Nat : \E h : IsTree(h, hashes, m)
  OBVIOUS
<1> DEFINE S == {m \in Nat : \E h : IsTree(h, hashes, m)}
<1>1. 0 \in S
  <2>1. IsTree([w \in 1 .. 0 |-> 0], hashes, 0)
    BY DEF IsTree
  <2> QED
    BY <2>1
<1>2. ASSUME NEW m \in Nat, m \in S PROVE m + 1 \in S
  <2>1. PICK h : IsTree(h, hashes, m)
    BY <1>2
  <2> DEFINE k == [w \in 1 .. m + 1 |->
                     IF w \in 1 .. m THEN h[w] ELSE Row(h, hashes, m + 1)]
  <2>2. \A w \in 1 .. m : k[w] = h[w]
    OBVIOUS
  <2>3. ASSUME NEW w \in 1 .. m + 1 PROVE k[w] = Row(h, hashes, w)
    <3>1. CASE w \in 1 .. m
      BY <2>1, <3>1 DEF IsTree
    <3>2. CASE w = m + 1
      BY <3>2
    <3> QED
      BY <3>1, <3>2
  <2>4. ASSUME NEW w \in 1 .. m + 1 PROVE Row(h, hashes, w) = Row(k, hashes, w)
    <3> HIDE DEF k
    <3>1. CASE w = 1
      BY <3>1 DEF Row
    <3>2. CASE w # 1
      <4>1. LeftLeaves(w) \in 1 .. w - 1
        BY <3>2, LeftLeavesInside
      <4>2. LeftLeaves(w) \in 1 .. m /\ w - LeftLeaves(w) \in 1 .. m
        BY <4>1
      <4> QED
        BY <2>2, <4>2 DEF Row
    <3> QED
      BY <3>1, <3>2
  <2>5. IsTree(k, hashes, m + 1)
    <3>1. k = [w \in 1 .. m + 1 |-> k[w]]
      OBVIOUS
    <3> HIDE DEF k
    <3>2. \A w \in 1 .. m + 1 : k[w] = Row(k, hashes, w)
      BY <2>3, <2>4
    <3> QED
      BY <3>1, <3>2 DEF IsTree
  <2> HIDE DEF k
  <2> QED
    BY <2>5
<1> HIDE DEF S
<1>3. \A m \in Nat : m \in S
  BY <1>1, <1>2, NumberInduction
<1> QED
  BY <1>3 DEF S

LEMMA TreeFacts ==
  ASSUME NEW hashes, Len(hashes) \in Nat
  PROVE  /\ \A i \in 1 .. Len(hashes) : TreeOf(hashes)[1][i] = hashes[i]
         /\ \A w \in 2 .. Len(hashes) : \A i \in 1 .. Len(hashes) - w + 1 :
              TreeOf(hashes)[w][i]
                = HashOfPair(TreeOf(hashes)[LeftLeaves(w)][i],
                             TreeOf(hashes)[w - LeftLeaves(w)][i + LeftLeaves(w)])
         /\ ReferenceRoot(hashes) = IF Len(hashes) = 0 THEN NoHash
                                    ELSE TreeOf(hashes)[Len(hashes)][1]
<1> DEFINE t == TreeOf(hashes)
           n == Len(hashes)
<1>1. IsTree(t, hashes, n)
  BY TreesExist DEF TreeOf
<1>2. ReferenceRoot(hashes) = IF n = 0 THEN NoHash ELSE t[n][1]
  BY DEF ReferenceRoot, TreeOf, IsTree, Row
<1> HIDE DEF t
<1>3. \A w \in 1 .. n : t[w] = Row(t, hashes, w)
  BY <1>1 DEF IsTree
<1>4. ASSUME NEW i \in 1 .. n PROVE t[1][i] = hashes[i]
  <2>1. 1 \in 1 .. n /\ i \in 1 .. n - 1 + 1
    OBVIOUS
  <2> QED
    BY <1>3, <2>1 DEF Row
<1>5. ASSUME NEW w \in 2 .. n, NEW i \in 1 .. n - w + 1
      PROVE  t[w][i] = HashOfPair(t[LeftLeaves(w)][i],
                                  t[w - LeftLeaves(w)][i + LeftLeaves(w)])
  <2>1. w \in 1 .. n /\ w # 1
    OBVIOUS
  <2> QED
    BY <1>3, <2>1 DEF Row
<1> QED
  BY <1>2, <1>4, <1>5 DEF t

-----------------------------------------------------------------------------
(* The level that BuildMerkleTree has after a rounds: each node is the     *)
(* root of as many leaves as Power[a], the last one of those that are left *)
(* (hash.go:44-61).                                                        *)
Width(level, n, w, i) == IF i < Len(level) THEN w ELSE n - (i - 1) * w

LevelOK(level, hashes, a) ==
  /\ Len(level) \in Nat
  /\ (Len(level) - 1) * Power[a] < Len(hashes)
  /\ Len(hashes) <= Len(level) * Power[a]
  /\ \A i \in 1 .. Len(level) :
       level[i].hash = TreeOf(hashes)[Width(level, Len(hashes), Power[a], i)]
                                     [(i - 1) * Power[a] + 1]

LEMMA LeavesOK ==
  ASSUME NEW hashes, Len(hashes) \in Nat
  PROVE  LevelOK(Leaves(hashes), hashes, 0)
<1> DEFINE level == Leaves(hashes)
           n == Len(hashes)
<1>1. Len(level) = n /\ \A i \in 1 .. n : level[i].hash = hashes[i]
  BY DEF Leaves
<1>2. Power[0] = 1
  BY PowerFacts
<1> HIDE DEF level
<1>3. ASSUME NEW i \in 1 .. n
      PROVE  Width(level, n, 1, i) = 1 /\ (i - 1) * 1 + 1 = i
  BY <1>1 DEF Width
<1>4. \A i \in 1 .. n : level[i].hash = TreeOf(hashes)[1][i]
  BY <1>1, TreeFacts
<1>5. (n - 1) * 1 < n /\ n <= n * 1
  OBVIOUS
<1> QED
  BY <1>1, <1>2, <1>3, <1>4, <1>5 DEF LevelOK, level

(* Products of the position of a node and the width of its level. *)
LEMMA Products ==
  ASSUME NEW i \in Int, NEW w \in Nat
  PROVE  /\ (2 * i - 1 - 1) * w = (i - 1) * (2 * w)
         /\ (2 * i - 1) * w = (i - 1) * (2 * w) + w
         /\ (2 * i) * w = i * (2 * w)
         /\ i * (2 * w) = (i - 1) * (2 * w) + 2 * w
         /\ (i - 1) * (2 * w) \in Int /\ i * w \in Int
  OBVIOUS

LEMMA NextLevelOK ==
  ASSUME NEW hashes, Len(hashes) \in Nat, NEW level, NEW a \in Nat,
         LevelOK(level, hashes, a), Len(level) >= 1
  PROVE  LevelOK(NextLevel(level), hashes, a + 1)
<1> DEFINE n == Len(hashes)
           m == Len(level)
           w == Power[a]
           t == TreeOf(hashes)
           half == (m + 1) \div 2
           next == NextLevel(level)
<1>1. /\ n \in Nat /\ m \in Nat /\ m >= 1 /\ w \in Nat \ {0}
      /\ Power[a + 1] = 2 * w
  BY PowerFacts DEF LevelOK
<1>2. /\ half \in Nat /\ half >= 1
      /\ m = 2 * half \/ m = 2 * half - 1
  BY <1>1
<1>3. Len(next) = half /\ \A i \in 1 .. half : next[i] = Paired(level, i)
  BY <1>2 DEF NextLevel
<1> HIDE DEF half, next
<1>4. (m - 1) * w < n /\ n <= m * w
  BY DEF LevelOK
<1> HIDE DEF w
<1>5. /\ (half - 1) * (2 * w) < n
      /\ n <= half * (2 * w)
  <2> DEFINE x == (half - 1) * (2 * w)
  <2>1. /\ (2 * half - 1 - 1) * w = x /\ (2 * half - 1) * w = x + w
        /\ (2 * half) * w = half * (2 * w) /\ half * (2 * w) = x + 2 * w
        /\ x \in Int
    BY <1>1, <1>2, Products
  <2> HIDE DEF x
  <2>2. CASE m = 2 * half
    <3>1. x + w < n /\ n <= half * (2 * w)
      BY <1>4, <2>1, <2>2
    <3> QED
      BY <1>1, <2>1, <3>1 DEF x
  <2>3. CASE m = 2 * half - 1
    <3>1. x < n /\ n <= x + w
      BY <1>4, <2>1, <2>3
    <3> QED
      BY <1>1, <2>1, <3>1 DEF x
  <2> QED
    BY <1>2, <2>2, <2>3
<1>6. ASSUME NEW i \in 1 .. half
      PROVE  next[i].hash = t[Width(next, n, 2 * w, i)][(i - 1) * (2 * w) + 1]
  <2> DEFINE s == (i - 1) * (2 * w)
  <2>1. /\ (2 * i - 1 - 1) * w = s /\ (2 * i - 1) * w = s + w
        /\ s \in Nat /\ i \in Nat /\ i >= 1
    <3>1. (2 * i - 1 - 1) * w = s /\ (2 * i - 1) * w = s + w
      BY <1>1, Products
    <3>2. s \in Nat
      BY <1>1
    <3> QED
      BY <3>1, <3>2
  <2> HIDE DEF s
  <2>2. CASE 2 * i <= m
    <3> DEFINE x == Width(level, n, w, 2 * i)
    <3>1. 2 * i - 1 \in 1 .. m /\ 2 * i \in 1 .. m /\ 2 * i - 1 < m
      BY <1>1, <2>1, <2>2
    <3>2. level[2 * i - 1].hash = t[w][s + 1]
      <4>1. Width(level, n, w, 2 * i - 1) = w
        BY <3>1 DEF Width
      <4> QED
        BY <2>1, <3>1, <4>1 DEF LevelOK, w
    <3>3. level[2 * i].hash = t[x][s + w + 1]
      BY <2>1, <3>1 DEF LevelOK, w
    <3>4. /\ x \in Nat /\ x >= 1 /\ x <= w /\ s + w + x <= n
          /\ Width(next, n, 2 * w, i) = w + x
      <4>1. CASE 2 * i < m
        <5>1. x = w
          BY <4>1 DEF Width
        <5>2. i < half
          BY <1>2, <2>1, <4>1
        <5>3. Width(next, n, 2 * w, i) = 2 * w
          BY <1>3, <5>2 DEF Width
        <5>4. s + 2 * w <= n
          <6>1. i <= half - 1 /\ half - 1 \in Int
            BY <1>2, <2>1, <5>2
          <6>2. i * (2 * w) <= (half - 1) * (2 * w)
            BY <1>1, <2>1, <6>1, Monotone
          <6>3. i * (2 * w) = s + 2 * w
            BY <1>1, <2>1, Products DEF s
          <6>4. (half - 1) * (2 * w) \in Int
            BY <1>1, <1>2, Products
          <6> QED
            BY <1>1, <1>5, <2>1, <6>2, <6>3, <6>4
        <5> QED
          BY <1>1, <2>1, <5>1, <5>3, <5>4
      <4>2. CASE 2 * i = m
        <5>1. i = half
          BY <1>2, <2>1, <4>2
        <5>2. x = n - (s + w)
          BY <2>1, <4>2 DEF Width
        <5>3. Width(next, n, 2 * w, i) = n - s
          BY <1>3, <5>1 DEF Width, s
        <5>4. s + w < n /\ n <= s + w + w
          <6>1. (2 * i) * w = s + 2 * w
            BY <1>1, <2>1, Products DEF s
          <6> QED
            BY <1>1, <1>4, <2>1, <4>2, <6>1
        <5> QED
          BY <1>1, <2>1, <5>2, <5>3, <5>4
      <4> QED
        BY <1>1, <2>1, <2>2, <4>1, <4>2
    <3> HIDE DEF x
    <3>5. LeftLeaves(w + x) = w
      <4>1. w < w + x /\ w + x <= 2 * w /\ w + x \in Nat
        BY <1>1, <3>4
      <4> QED
        BY <4>1, LeftLeavesIs DEF w
    <3>6. t[w + x][s + 1] = HashOfPair(t[w][s + 1], t[x][s + 1 + w])
      <4>1. w + x \in 2 .. n /\ s + 1 \in 1 .. n - (w + x) + 1 /\ (w + x) - w = x
        BY <1>1, <2>1, <3>4
      <4>2. t[w + x][s + 1]
              = HashOfPair(t[LeftLeaves(w + x)][s + 1],
                           t[(w + x) - LeftLeaves(w + x)][s + 1 + LeftLeaves(w + x)])
        <5> DEFINE v == w + x
                   i1 == s + 1
        <5>1. v \in 2 .. Len(hashes) /\ i1 \in 1 .. Len(hashes) - v + 1
          BY <4>1
        <5> HIDE DEF v, i1
        <5>2. t[v][i1] = HashOfPair(t[LeftLeaves(v)][i1],
                                    t[v - LeftLeaves(v)][i1 + LeftLeaves(v)])
          BY <5>1, TreeFacts
        <5> QED
          BY <5>2 DEF v, i1
      <4> HIDE DEF t
      <4> QED
        BY <3>5, <4>1, <4>2
    <3>7. next[i].hash = HashOfPair(level[2 * i - 1].hash, level[2 * i].hash)
      BY <1>3, <2>2 DEF Paired
    <3>8. s + 1 + w = s + w + 1
      BY <1>1, <2>1
    <3> QED
      BY <3>2, <3>3, <3>4, <3>6, <3>7, <3>8 DEF s
  <2>3. CASE ~ (2 * i <= m)
    <3>1. i = half /\ 2 * i - 1 = m /\ 2 * i - 1 \in 1 .. m
      BY <1>1, <1>2, <2>1, <2>3
    <3>2. next[i].hash = level[2 * i - 1].hash
      BY <1>3, <2>3 DEF Paired
    <3>3. /\ Width(level, n, w, 2 * i - 1) = n - s
          /\ Width(next, n, 2 * w, i) = n - s
      <4>1. ~ (2 * i - 1 < m) /\ ~ (i < half)
        BY <1>1, <1>2, <3>1
      <4>2. Width(level, n, w, 2 * i - 1) = n - (2 * i - 1 - 1) * w
        BY <4>1 DEF Width
      <4>3. Width(next, n, 2 * w, i) = n - s
        BY <1>3, <4>1 DEF Width, s
      <4> QED
        BY <2>1, <4>2, <4>3
    <3>4. level[2 * i - 1].hash = t[n - s][s + 1]
      BY <2>1, <3>1, <3>3 DEF LevelOK, w
    <3> QED
      BY <3>2, <3>3, <3>4 DEF s
  <2> QED
    BY <2>2, <2>3
<1>7. /\ Len(next) \in Nat
      /\ (Len(next) - 1) * Power[a + 1] < n
      /\ n <= Len(next) * Power[a + 1]
  BY <1>1, <1>2, <1>3, <1>5
<1>8. \A i \in 1 .. Len(next) :
        next[i].hash = t[Width(next, n, Power[a + 1], i)][(i - 1) * Power[a + 1] + 1]
  BY <1>1, <1>3, <1>6
<1> QED
  BY <1>7, <1>8 DEF LevelOK, next

(* The single node of the last level is the root. *)
LEMMA LastLevel ==
  ASSUME NEW hashes, Len(hashes) \in Nat, NEW level, NEW a \in Nat,
         LevelOK(level, hashes, a), Len(level) <= 1
  PROVE  ReferenceRoot(hashes) = IF Len(level) = 0 THEN NoHash ELSE level[1].hash
<1> DEFINE n == Len(hashes)
           w == Power[a]
<1>1. /\ w \in Nat \ {0} /\ Len(level) \in 0 .. 1
      /\ (Len(level) - 1) * w < n /\ n <= Len(level) * w
  <2>1. Len(level) \in Nat /\ (Len(level) - 1) * w < n /\ n <= Len(level) * w
    BY DEF LevelOK
  <2>2. Len(level) \in 0 .. 1
    <3> DEFINE l == Len(level)
    <3>1. l \in Nat /\ l <= 1
      BY <2>1
    <3> HIDE DEF l
    <3>2. l \in 0 .. 1
      BY <3>1
    <3> QED
      BY <3>2 DEF l
  <2> QED
    BY <2>1, <2>2, PowerFacts
<1> HIDE DEF w
<1>2. CASE Len(level) = 0
  <2>1. n <= 0 * w /\ 0 * w = 0
    BY <1>1, <1>2
  <2> QED
    BY <1>2, <2>1, TreeFacts
<1>3. CASE Len(level) = 1
  <2>1. (1 - 1) * w < n /\ (1 - 1) * w = 0
    BY <1>1, <1>3
  <2>2. level[1].hash = TreeOf(hashes)[n][1]
    <3>1. Width(level, n, w, 1) = n /\ (1 - 1) * w + 1 = 1
      BY <1>3, <2>1 DEF Width
    <3>2. level[1].hash = TreeOf(hashes)[Width(level, n, w, 1)][(1 - 1) * w + 1]
      BY <1>3 DEF LevelOK, w
    <3> QED
      BY <3>1, <3>2
  <2> QED
    BY <1>3, <2>1, <2>2, TreeFacts
<1> QED
  BY <1>1, <1>2, <1>3

-----------------------------------------------------------------------------
(* RootHash, which builds the levels bottom up, gives the root of the      *)
(* definition from the top (hash.go:34-64).                                *)

IsLevels(h, hashes, m) ==
  h = [i \in 0 .. m |-> IF i = 0 THEN Leaves(hashes) ELSE NextLevel(h[i - 1])]

LEMMA LevelsExist == \A hashes : \A m \in Nat : \E h : IsLevels(h, hashes, m)
<1> SUFFICES ASSUME NEW hashes PROVE \A m \in Nat : \E h : IsLevels(h, hashes, m)
  OBVIOUS
<1> DEFINE S == {m \in Nat : \E h : IsLevels(h, hashes, m)}
<1>1. 0 \in S
  <2>1. IsLevels([i \in 0 .. 0 |-> Leaves(hashes)], hashes, 0)
    BY DEF IsLevels
  <2> QED
    BY <2>1
<1>2. ASSUME NEW m \in Nat, m \in S PROVE m + 1 \in S
  <2>1. PICK h : IsLevels(h, hashes, m)
    BY <1>2
  <2> DEFINE k == [i \in 0 .. m + 1 |-> IF i \in 0 .. m THEN h[i]
                                        ELSE NextLevel(h[m])]
  <2>2. IsLevels(k, hashes, m + 1)
    <3>1. \A i \in 0 .. m :
            h[i] = IF i = 0 THEN Leaves(hashes) ELSE NextLevel(h[i - 1])
      BY <2>1 DEF IsLevels
    <3> QED
      BY <3>1 DEF IsLevels
  <2> HIDE DEF k
  <2> QED
    BY <2>2
<1> HIDE DEF S
<1>3. \A m \in Nat : m \in S
  BY <1>1, <1>2, NumberInduction
<1> QED
  BY <1>3 DEF S

(* A level of at least one leaf has at least one node; and one only, when  *)
(* there are no more leaves than a node has room for.                      *)
LEMMA LevelLength ==
  ASSUME NEW hashes, Len(hashes) \in Nat \ {0}, NEW level, NEW a \in Nat,
         LevelOK(level, hashes, a)
  PROVE  Len(level) >= 1 /\ (Len(hashes) <= Power[a] => Len(level) = 1)
<1> DEFINE n == Len(hashes)
           m == Len(level)
           w == Power[a]
<1>1. /\ n \in Nat \ {0} /\ m \in Nat /\ w \in Nat \ {0}
      /\ (m - 1) * w < n /\ n <= m * w
  BY PowerFacts DEF LevelOK
<1> HIDE DEF n, m, w
<1>2. m # 0
  BY <1>1
<1>3. ASSUME n <= w, m > 1 PROVE FALSE
  <2>1. 1 * w <= (m - 1) * w
    <3>1. m - 1 \in Int /\ 1 <= m - 1
      BY <1>1, <1>3
    <3> QED
      BY <1>1, <3>1, Monotone
  <2>2. 1 * w = w /\ (m - 1) * w \in Int
    BY <1>1
  <2> QED
    BY <1>1, <1>3, <2>1, <2>2
<1>4. m >= 1 /\ (n <= w => m = 1)
  BY <1>1, <1>2, <1>3
<1> QED
  BY <1>4 DEF n, m, w

LEMMA RootHashIsReference ==
  ASSUME NEW hashes, Len(hashes) \in Nat, hashes = << >> <=> Len(hashes) = 0
  PROVE  RootHash(hashes) = ReferenceRoot(hashes)
<1> DEFINE n == Len(hashes)
           c == CHOOSE h : IsLevels(h, hashes, n)
<1>1. IsLevels(c, hashes, n)
  BY LevelsExist
<1>2. RootHash(hashes) = IF hashes = << >> THEN NoHash ELSE c[n][1].hash
  BY DEF RootHash, IsLevels
<1> HIDE DEF c
<1>3. CASE n = 0
  BY <1>2, <1>3, TreeFacts
<1>4. CASE n # 0
  <2> DEFINE S == {i \in Nat : i \in 0 .. n => LevelOK(c[i], hashes, i)}
  <2>1. \A i \in 0 .. n :
          c[i] = IF i = 0 THEN Leaves(hashes) ELSE NextLevel(c[i - 1])
    BY <1>1 DEF IsLevels
  <2>2. 0 \in S
    BY <2>1, LeavesOK
  <2>3. ASSUME NEW i \in Nat, i \in S PROVE i + 1 \in S
    <3> SUFFICES ASSUME i + 1 \in 0 .. n PROVE LevelOK(c[i + 1], hashes, i + 1)
      OBVIOUS
    <3>1. i \in 0 .. n /\ i + 1 # 0 /\ (i + 1) - 1 = i
      OBVIOUS
    <3>2. LevelOK(c[i], hashes, i)
      BY <2>3, <3>1
    <3>3. Len(c[i]) >= 1
      BY <1>4, <3>2, LevelLength
    <3>4. LevelOK(NextLevel(c[i]), hashes, i + 1)
      BY <3>2, <3>3, NextLevelOK
    <3> QED
      BY <2>1, <3>1, <3>4
  <2> HIDE DEF S
  <2>4. \A i \in Nat : i \in S
    BY <2>2, <2>3, NumberInduction
  <2>5. LevelOK(c[n], hashes, n)
    BY <2>4 DEF S
  <2>6. n <= Power[n]
    <3>1. n < Power[n] /\ Power[n] \in Nat /\ n \in Nat
      BY PowerFacts
    <3> HIDE DEF n
    <3> QED
      BY <3>1
  <2>7. Len(c[n]) = 1
    BY <1>4, <2>5, <2>6, LevelLength
  <2>8. ReferenceRoot(hashes) = c[n][1].hash
    <3>1. Len(c[n]) <= 1 /\ Len(c[n]) # 0
      BY <2>7
    <3> QED
      BY <2>5, <3>1, LastLevel
  <2> QED
    BY <1>2, <1>4, <2>8
<1> QED
  BY <1>3, <1>4

(* A tree of w leaves from the i-th on, of n, has a left and a right part. *)
LEMMA TwoParts ==
  ASSUME NEW n \in Nat, NEW w \in 2 .. n, NEW k \in 1 .. w - 1,
         NEW i \in 1 .. n - w + 1, NEW j \in i .. i + w - 1
  PROVE  /\ k \in 0 .. w - 1 /\ k \in 1 .. n /\ i \in 1 .. n - k + 1
         /\ w - k \in 0 .. w - 1 /\ w - k \in 1 .. n
         /\ i + k \in 1 .. n - (w - k) + 1
         /\ j \in i .. i + k - 1 \/ j \in i + k .. (i + k) + (w - k) - 1
<1>1. k \in 0 .. w - 1 /\ k \in 1 .. n
  OBVIOUS
<1>2. i \in 1 .. n - k + 1
  OBVIOUS
<1>3. w - k \in 0 .. w - 1 /\ w - k \in 1 .. n
  OBVIOUS
<1>4. i + k \in 1 .. n - (w - k) + 1
  OBVIOUS
<1>5. j \in i .. i + k - 1 \/ j \in i + k .. (i + k) + (w - k) - 1
  OBVIOUS
<1> QED
  BY <1>1, <1>2, <1>3, <1>4, <1>5

(* The root tells all leaves: two lists of as many hashes with the same    *)
(* root are the same.                                                      *)
LEMMA RootIsInjective ==
  ASSUME NEW A, NEW B, Len(A) \in Nat, Len(B) = Len(A),
         ReferenceRoot(A) = ReferenceRoot(B)
  PROVE  \A j \in 1 .. Len(A) : A[j] = B[j]
<1> DEFINE n == Len(A)
           t == TreeOf(A)
           u == TreeOf(B)
           S == {w \in Nat : w \in 1 .. n =>
                   \A i \in 1 .. n - w + 1 : t[w][i] = u[w][i] =>
                     \A j \in i .. i + w - 1 : A[j] = B[j]}
<1>1. ASSUME NEW w \in Nat, \A v \in 0 .. w - 1 : v \in S PROVE w \in S
  <2> SUFFICES ASSUME w \in 1 .. n, NEW i \in 1 .. n - w + 1, t[w][i] = u[w][i],
                      NEW j \in i .. i + w - 1
               PROVE  A[j] = B[j]
    OBVIOUS
  <2>1. CASE w = 1
    <3>1. j = i /\ i \in 1 .. n
      BY <2>1
    <3> QED
      BY <2>1, <3>1, TreeFacts
  <2>2. CASE w # 1
    <3> DEFINE k == LeftLeaves(w)
    <3>1. w \in 2 .. n /\ k \in 1 .. w - 1
      BY <2>2, LeftLeavesInside
    <3>2. /\ t[w][i] = HashOfPair(t[k][i], t[w - k][i + k])
          /\ u[w][i] = HashOfPair(u[k][i], u[w - k][i + k])
      BY <3>1, TreeFacts
    <3> HIDE DEF k, t, u
    <3>3. t[k][i] = u[k][i] /\ t[w - k][i + k] = u[w - k][i + k]
      <4>1. HashOfPair(t[k][i], t[w - k][i + k]) = HashOfPair(u[k][i], u[w - k][i + k])
        BY <3>2
      <4>2. \A a, b, c, d : HashOfPair(a, b) = HashOfPair(c, d) => a = c /\ b = d
        BY DEF HashOfPair
      <4> QED
        BY <4>1, <4>2
    <3>4. /\ k \in 0 .. w - 1 /\ k \in 1 .. n /\ i \in 1 .. n - k + 1
          /\ w - k \in 0 .. w - 1 /\ w - k \in 1 .. n
          /\ i + k \in 1 .. n - (w - k) + 1
          /\ j \in i .. i + k - 1 \/ j \in i + k .. (i + k) + (w - k) - 1
      <4> HIDE DEF n, S
      <4> QED
        BY <3>1, TwoParts DEF n
    <3>5. k \in S /\ w - k \in S
      BY <1>1, <3>4
    <3> QED
      BY <3>3, <3>4, <3>5
  <2> QED
    BY <2>1, <2>2
<1> HIDE DEF S
<1>2. \A w \in Nat : w \in S
  BY <1>1, StrongInduction
<1>3. CASE n = 0
  BY <1>3
<1>4. CASE n # 0
  <2>1. t[n][1] = u[n][1]
    BY <1>4, TreeFacts
  <2>2. n \in S /\ n \in 1 .. n /\ 1 \in 1 .. n - n + 1 /\ 1 + n - 1 = n
    BY <1>2, <1>4
  <2> QED
    BY <2>1, <2>2 DEF S
<1> QED
  BY <1>3, <1>4

-----------------------------------------------------------------------------
(* The invariant of the whole upload. *)
RootInv ==
  /\ TreeInv
  /\ data \in Seq(Bytes)
  /\ pc \in {"split", "tree", "stored"}
  /\ pc = "tree" => \E a \in Nat : LevelOK(nodes, ChunkHashes, a)
  /\ pc = "stored" => root = ReferenceRoot(ChunkHashes)

LEMMA RootInvInit == Init => RootInv
<1> SUFFICES ASSUME Init PROVE RootInv
  OBVIOUS
<1>1. TreeInv
  BY SplitInvInit DEF Init, TreeInv
<1>2. data \in Seq(Bytes)
  BY DEF Init
<1> QED
  BY <1>1, <1>2 DEF Init, RootInv

LEMMA RootInvNext == RootInv /\ [Next]_vars => RootInv'
<1> SUFFICES ASSUME RootInv, [Next]_vars PROVE RootInv'
  OBVIOUS
<1>0. TreeInv'
  BY TreeInvNext DEF RootInv
<1>1. Len(ChunkHashes) \in Nat
  BY DEF RootInv, TreeInv, SplitInv, ChunkHashes
<1>2. CASE SplitNextChunk
  BY <1>0, <1>2 DEF SplitNextChunk, RootInv
<1>3. CASE EnterBuildMerkleTree
  <2>1. LevelOK(Leaves(ChunkHashes), ChunkHashes, 0)
    BY <1>1, LeavesOK
  <2>2. ChunkHashes' = ChunkHashes
    BY <1>3 DEF EnterBuildMerkleTree, ChunkHashes, Chunk
  <2> QED
    BY <1>0, <1>3, <2>1, <2>2 DEF EnterBuildMerkleTree, RootInv
<1>4. CASE PairNodes
  <2>1. PICK a \in Nat : LevelOK(nodes, ChunkHashes, a)
    BY <1>4 DEF PairNodes, RootInv
  <2>2. Len(nodes) >= 1
    BY <1>4, <2>1 DEF PairNodes, LevelOK
  <2>3. LevelOK(NextLevel(nodes), ChunkHashes, a + 1) /\ a + 1 \in Nat
    BY <1>1, <2>1, <2>2, NextLevelOK
  <2>4. ChunkHashes' = ChunkHashes
    BY <1>4 DEF PairNodes, ChunkHashes, Chunk
  <2> QED
    BY <1>0, <1>4, <2>3, <2>4 DEF PairNodes, RootInv
<1>5. CASE StoreMetadata
  <2>1. PICK a \in Nat : LevelOK(nodes, ChunkHashes, a)
    BY <1>5 DEF StoreMetadata, RootInv
  <2>2. root' = ReferenceRoot(ChunkHashes)
    BY <1>1, <1>5, <2>1, LastLevel DEF StoreMetadata
  <2>3. ChunkHashes' = ChunkHashes
    BY <1>5 DEF StoreMetadata, ChunkHashes, Chunk
  <2> QED
    BY <1>0, <1>5, <2>2, <2>3 DEF StoreMetadata, RootInv
<1>6. CASE UNCHANGED <<data, pc, chunks, nodes, root>>
  <2>1. ChunkHashes' = ChunkHashes
    BY <1>6 DEF ChunkHashes, Chunk
  <2> QED
    BY <1>0, <1>6, <2>1 DEF RootInv
<1>7. ASSUME NEW d, NEW h, ReceiveChunk(d, h)
      PROVE  UNCHANGED <<data, pc, chunks, nodes, root>>
  BY <1>7 DEF ReceiveChunk
<1> QED
  BY <1>2, <1>3, <1>4, <1>5, <1>6, <1>7 DEF Next, Upload, Download, vars

LEMMA StoredRoot ==
  ASSUME RootInv, pc = "stored"
  PROVE  root = ReferenceRoot(ChunkHashes) /\ root = RootHash(ChunkHashes)
<1>1. Len(ChunkHashes) \in Nat /\ (ChunkHashes = << >> <=> Len(ChunkHashes) = 0)
  BY DEF RootInv, TreeInv, SplitInv, ChunkHashes
<1> QED
  BY <1>1, RootHashIsReference DEF RootInv

(* The root in the metadata is the one of the definition from the top, and *)
(* the one RootHash computes, for every file and chunk size, and so every  *)
(* number of chunks (hash.go:34-64, chunk.go:100).                         *)
THEOREM RootAlwaysMatchesReference == Spec => []RootMatchesReference
<1>1. RootInv => RootMatchesReference
  BY StoredRoot DEF RootMatchesReference
<1> QED
  BY <1>1, RootInvInit, RootInvNext, PTL DEF Spec

-----------------------------------------------------------------------------
(* AssembleFile. *)

NoData == << >>
Joined(a, b) == a \o b

IsAssembly(h, g, m) ==
  h = [i \in 0 .. m |-> IF i = 0 THEN NoData ELSE Joined(h[i - 1], g[i])]

LEMMA AssembliesExist == \A g : \A m \in Nat : \E h : IsAssembly(h, g, m)
<1> SUFFICES ASSUME NEW g PROVE \A m \in Nat : \E h : IsAssembly(h, g, m)
  OBVIOUS
<1> DEFINE S == {m \in Nat : \E h : IsAssembly(h, g, m)}
<1>1. 0 \in S
  <2>1. IsAssembly([i \in 0 .. 0 |-> NoData], g, 0)
    BY DEF IsAssembly
  <2> QED
    BY <2>1
<1>2. ASSUME NEW m \in Nat, m \in S PROVE m + 1 \in S
  <2>1. PICK h : IsAssembly(h, g, m)
    BY <1>2
  <2> DEFINE k == [i \in 0 .. m + 1 |-> IF i \in 0 .. m THEN h[i]
                                        ELSE Joined(h[m], g[m + 1])]
  <2>2. IsAssembly(k, g, m + 1)
    <3>1. \A i \in 0 .. m : h[i] = IF i = 0 THEN NoData ELSE Joined(h[i - 1], g[i])
      BY <2>1 DEF IsAssembly
    <3> QED
      BY <3>1 DEF IsAssembly
  <2> HIDE DEF k
  <2> QED
    BY <2>2
<1> HIDE DEF S
<1>3. \A m \in Nat : m \in S
  BY <1>1, <1>2, NumberInduction
<1> QED
  BY <1>3 DEF S

(* The chunks of the file, one after the other, are the file               *)
(* (chunk.go:173-189).                                                     *)
LEMMA ChunksMakeTheFile ==
  ASSUME RootInv, pc = "stored", \A i \in 1 .. Len(chunks) : got[i] = Chunk(i)
  PROVE  Assembled = data
<1> DEFINE n == Len(chunks)
           c == CHOOSE h : IsAssembly(h, got, n)
           end(m) == IF m = 0 THEN 0 ELSE chunks[m].end
<1>1. n \in Nat /\ data \in Seq(Bytes) /\ Len(data) \in Nat /\ ChunksPartitionData
  BY SplitInvImplies DEF RootInv, TreeInv, SplitInv
<1>2. IsAssembly(c, got, n)
  BY <1>1, AssembliesExist
<1>3. Assembled = c[n]
  BY DEF Assembled, IsAssembly, NoData, Joined
<1> HIDE DEF c
<1>4. \A i \in 0 .. n : c[i] = IF i = 0 THEN << >> ELSE c[i - 1] \o got[i]
  BY <1>2 DEF IsAssembly, NoData, Joined
<1>5. ASSUME NEW m \in 1 .. n
      PROVE  /\ got[m] = SubSeq(data, end(m - 1) + 1, end(m))
             /\ end(m - 1) \in Nat /\ end(m) \in Nat
             /\ end(m - 1) < end(m) /\ end(m) <= Len(data)
  <2>1. /\ chunks[m].start \in Nat /\ chunks[m].end \in Nat
        /\ chunks[m].start < chunks[m].end
        /\ chunks[m].end <= Len(data)
    <3>1. chunks[m].start \in Nat /\ chunks[m].end \in Nat
      <4>1. chunks \in Seq([start : Nat, end : Nat])
        BY DEF RootInv, TreeInv, SplitInv
      <4>2. chunks[m] \in [start : Nat, end : Nat]
        BY <4>1, ElementOfSeq
      <4> QED
        BY <4>2
    <3>2. /\ chunks[m].end - chunks[m].start \in 1 .. ChunkSize
          /\ chunks[m].end <= Len(data)
      BY <1>1 DEF ChunksPartitionData
    <3> QED
      BY <3>1, <3>2, IntegrityAssumption
  <2>2. chunks[m].start = end(m - 1)
    BY <1>1 DEF ChunksPartitionData
  <2>3. got[m] = SubSeq(data, chunks[m].start + 1, chunks[m].end) /\ m # 0
    BY DEF Chunk
  <2> QED
    BY <2>1, <2>2, <2>3
<1>6. Len(data) = end(n)
  BY <1>1 DEF ChunksPartitionData
<1> HIDE DEF end, n
<1> DEFINE S == {m \in Nat : m <= n => c[m] = SubSeq(data, 1, end(m))}
<1>7. 0 \in S
  <2>1. SubSeq(data, 1, 0) = << >>
    BY SubSeqEmpty
  <2> QED
    <3>1. 0 \in 0 .. n /\ end(0) = 0
      BY <1>1 DEF end
    <3>2. c[0] = << >>
      BY <1>4, <3>1
    <3> QED
      BY <2>1, <3>1, <3>2
<1>8. ASSUME NEW m \in Nat, m \in S PROVE m + 1 \in S
  <2> SUFFICES ASSUME m + 1 <= n PROVE c[m + 1] = SubSeq(data, 1, end(m + 1))
    OBVIOUS
  <2>1. m + 1 \in 1 .. n /\ m + 1 \in 0 .. n /\ m + 1 # 0 /\ (m + 1) - 1 = m /\ m <= n
    BY <1>1
  <2>2. c[m] = SubSeq(data, 1, end(m))
    BY <1>8, <2>1
  <2>3. c[m + 1] = c[m] \o got[m + 1]
    BY <1>4, <2>1
  <2>4. /\ got[m + 1] = SubSeq(data, end(m) + 1, end(m + 1))
        /\ end(m) \in Nat /\ end(m + 1) \in Nat
        /\ end(m) < end(m + 1) /\ end(m + 1) <= Len(data)
    BY <1>5, <2>1
  <2>5. SubSeq(data, 1, end(m)) \o SubSeq(data, end(m) + 1, end(m + 1))
          = SubSeq(data, 1, end(m + 1))
    <3> DEFINE x == end(m)
               y == end(m + 1)
    <3>1. 1 \in 1 .. Len(data) + 1 /\ x \in 1 - 1 .. Len(data) /\ y \in x .. Len(data)
      BY <1>1, <2>4
    <3> HIDE DEF x, y
    <3>2. SubSeq(data, 1, x) \o SubSeq(data, x + 1, y) = SubSeq(data, 1, y)
      BY <1>1, <3>1, ConcatAdjacentSubSeq
    <3> QED
      BY <3>2 DEF x, y
  <2> QED
    BY <2>2, <2>3, <2>4, <2>5
<1> HIDE DEF S
<1>9. \A m \in Nat : m \in S
  BY <1>7, <1>8, NumberInduction
<1>10. c[n] = SubSeq(data, 1, Len(data))
  BY <1>1, <1>6, <1>9 DEF S
<1>11. SubSeq(data, 1, Len(data)) = data
  BY <1>1, SubSeqFull
<1> QED
  BY <1>3, <1>10, <1>11 DEF n

(* VerifyFileIntegrity accepts what has arrived exactly if each chunk is   *)
(* the one that was asked for, and then AssembleFile gives the file as it  *)
(* was: for every file, chunk size and number of wrong chunks              *)
(* (hash.go:33, chunk.go:173-189).                                         *)
THEOREM IntegrityAlwaysMeansOriginal == Spec => []IntegrityMeansOriginal
<1>1. ASSUME RootInv PROVE IntegrityMeansOriginal
  <2> DEFINE n == Len(chunks)
             hashes == [i \in 1 .. n |-> HashOfChunk(got[i])]
             accepted == VerifyFileIntegrity(hashes, root)
  <2> SUFFICES ASSUME Complete
               PROVE  /\ accepted <=> \A i \in 1 .. n : got[i] = Chunk(i)
                      /\ accepted => Assembled = data
    BY DEF IntegrityMeansOriginal
  <2>1. pc = "stored" /\ n \in Nat
    BY <1>1 DEF Complete, RootInv, TreeInv, SplitInv
  <2>2. Len(hashes) = n /\ (hashes = << >> <=> Len(hashes) = 0)
    BY <2>1
  <2>3. Len(ChunkHashes) = n /\ \A i \in 1 .. n : ChunkHashes[i] = HashOfChunk(Chunk(i))
    BY <2>1 DEF ChunkHashes
  <2>4. root = ReferenceRoot(ChunkHashes)
    BY <1>1, <2>1, StoredRoot
  <2>5. ASSUME accepted PROVE \A i \in 1 .. n : got[i] = Chunk(i)
    <3>1. ReferenceRoot(hashes) = ReferenceRoot(ChunkHashes)
      <4> HIDE DEF hashes
      <4> QED
        BY <2>1, <2>2, <2>4, <2>5, RootHashIsReference DEF VerifyFileIntegrity
    <3>2. \A i \in 1 .. n : hashes[i] = ChunkHashes[i]
      <4> HIDE DEF hashes
      <4> QED
        BY <2>1, <2>2, <2>3, <3>1, RootIsInjective
    <3> QED
      BY <2>3, <3>2 DEF HashOfChunk
  <2>6. ASSUME \A i \in 1 .. n : got[i] = Chunk(i) PROVE accepted
    <3>1. hashes = ChunkHashes
      BY <2>6 DEF ChunkHashes
    <3> QED
      BY <1>1, <2>1, <3>1, StoredRoot DEF VerifyFileIntegrity
  <2> HIDE DEF accepted
  <2> QED
    BY <1>1, <2>1, <2>5, <2>6, ChunksMakeTheFile
<1> QED
  BY <1>1, RootInvInit, RootInvNext, PTL DEF Spec
=============================================================================
