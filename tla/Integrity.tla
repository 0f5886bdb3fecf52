----------------------------- MODULE Integrity ------------------------------
(***************************************************************************)
(* How a file is cut into chunks, hashed and put together again: SplitFile *)
(* and AssembleFile (internal/storage/chunk.go), BuildMerkleTree, RootHash *)
(* and VerifyFileIntegrity (hash.go).  One file, from its upload at one    *)
(* peer to its download by another; an iteration of a loop is a step.      *)
(*                                                                         *)
(* Module Storage is about the locks, the disk and the failures under      *)
(* which the same functions run; here the data is what matters.            *)
(***************************************************************************)
EXTENDS Integers, Sequences, FiniteSets

CONSTANTS
  Bytes,      \* the values of a byte
  ChunkSize,  \* DefaultChunkSize
  MaxSize,    \* bound: the size of the file
  Junk,       \* chunks that arrive instead of the ones asked for
  MaxWrong    \* bound: how many chunks are not the ones asked for

ASSUME IntegrityAssumption ==
  /\ ChunkSize \in Nat \ {0} /\ MaxSize \in Nat
  /\ Junk \subseteq Seq(Bytes) /\ MaxWrong \in Nat

VARIABLES
  data,    \* the file
  pc,      \* "split", "tree", or "stored" once the metadata is there
  chunks,  \* where the chunks made so far start and end in data
  nodes,   \* the nodes of the level of the Merkle tree that is being paired
  root,    \* FileMetadata.RootHash, NoHash until it is computed
  got      \* the chunks that the downloading peer has so far

vars == <<data, pc, chunks, nodes, root, got>>

-----------------------------------------------------------------------------
(* ComputeHash is injective: a hash is a tuple of what was hashed, either  *)
(* a chunk, or two hashes of 64 characters each.                           *)
HashOfChunk(d) == <<d>>
HashOfPair(left, right) == <<left, right>>

(* The root hash "" of a file without chunks. *)
NoHash == << >>

(* Mutant of NumChunks: one too many at multiples of the chunk size. *)
NumChunksPlusOne(size) == size \div ChunkSize + 1

NumChunks(size) == (size + ChunkSize - 1) \div ChunkSize

(* Mutant of ChunkEnd: the bytes that do not fill a chunk are left out. *)
ChunkEndCut(start, size) ==
  IF start + ChunkSize > size THEN start ELSE start + ChunkSize

ChunkEnd(start, size) ==
  IF start + ChunkSize > size THEN size ELSE start + ChunkSize

(* data[start:end], of the chunk that SplitFile gives the index i - 1. *)
Chunk(i) == SubSeq(data, chunks[i].start + 1, chunks[i].end)

ChunkHashes == [i \in 1 .. Len(chunks) |-> HashOfChunk(Chunk(i))]

(* The leaves of the tree.  History: from and to, the leaves under a node. *)
Leaves(hashes) ==
  [i \in 1 .. Len(hashes) |-> [hash |-> hashes[i], from |-> i, to |-> i]]

(* Mutant of Paired: the odd node is paired with itself. *)
PairedWithItself(level, i) ==
  LET left == level[2 * i - 1]
      right == IF 2 * i <= Len(level) THEN level[2 * i] ELSE left
  IN  [hash |-> HashOfPair(left.hash, right.hash),
       from |-> left.from, to |-> right.to]

(* The i-th node of the next level: two nodes combined, or "odd node out,  *)
(* promote it".                                                            *)
Paired(level, i) ==
  IF 2 * i <= Len(level)
    THEN [hash |-> HashOfPair(level[2 * i - 1].hash, level[2 * i].hash),
          from |-> level[2 * i - 1].from, to |-> level[2 * i].to]
    ELSE level[2 * i - 1]

(* Mutant of NextLevel: pairs only, the odd node is dropped. *)
PairsOnly(level) == [i \in 1 .. Len(level) \div 2 |-> Paired(level, i)]

NextLevel(level) == [i \in 1 .. (Len(level) + 1) \div 2 |-> Paired(level, i)]

(* RootHash: BuildMerkleTree as a function.  So many levels suffice. *)
RootHash(hashes) ==
  LET level[n \in 0 .. Len(hashes)] ==
        IF n = 0 THEN Leaves(hashes) ELSE NextLevel(level[n - 1])
  IN  IF hashes = << >> THEN NoHash ELSE level[Len(hashes)][1].hash

VerifyFileIntegrity(hashes, expectedRoot) == RootHash(hashes) = expectedRoot

VerifyChunk(d, expectedHash) == HashOfChunk(d) = expectedHash

-----------------------------------------------------------------------------
Init ==
  /\ data \in UNION {[1 .. n -> Bytes] : n \in 0 .. MaxSize}
  /\ pc = "split"
  /\ chunks = << >> /\ nodes = << >> /\ root = NoHash /\ got = << >>

(* SplitFile's loop. *)
SplitNextChunk ==
  /\ pc = "split"
  /\ Len(chunks) < NumChunks(Len(data))
  /\ LET start == Len(chunks) * ChunkSize
     IN  chunks' = Append(chunks, [start |-> start,
                                   end |-> ChunkEnd(start, Len(data))])
  /\ UNCHANGED <<data, pc, nodes, root, got>>

(* SplitFile calls RootHash, and that BuildMerkleTree, which makes nodes   *)
(* of the hashes.                                                          *)
EnterBuildMerkleTree ==
  /\ pc = "split"
  /\ Len(chunks) = NumChunks(Len(data))
  /\ pc' = "tree"
  /\ nodes' = Leaves(ChunkHashes)
  /\ UNCHANGED <<data, chunks, root, got>>

(* Mutant of PairNodes: the next level is made and not taken. *)
PairNodesForgets ==
  /\ pc = "tree"
  /\ Len(nodes) > 1
  /\ UNCHANGED vars

(* BuildMerkleTree's outer loop. *)
PairNodes ==
  /\ pc = "tree"
  /\ Len(nodes) > 1
  /\ nodes' = NextLevel(nodes)
  /\ UNCHANGED <<data, pc, chunks, root, got>>

(* RootHash returns, "" if there is no node; SplitFile stores the metadata. *)
StoreMetadata ==
  /\ pc = "tree"
  /\ Len(nodes) <= 1
  /\ pc' = "stored"
  /\ root' = IF Len(nodes) = 0 THEN NoHash ELSE nodes[1].hash
  /\ UNCHANGED <<data, chunks, nodes, got>>

(* What DownloadChunk may return for some chunk: the one asked for, another *)
(* chunk of the file, or junk.                                             *)
Arrivals == {Chunk(j) : j \in 1 .. Len(chunks)} \union Junk

(* The chunks that have arrived and are not the ones asked for. *)
Wrong == {i \in 1 .. Len(got) : got[i] # Chunk(i)}

(* ReceiveChunk verifies d against the hash that its caller expects; what  *)
(* does not match is rejected, and changes nothing.  The caller asks for   *)
(* one chunk after the other.                                              *)
ReceiveChunk(d, expectedHash) ==
  /\ pc = "stored"
  /\ Len(got) < Len(chunks)
  /\ VerifyChunk(d, expectedHash)
  /\ got' = Append(got, d)
  /\ UNCHANGED <<data, pc, chunks, nodes, root>>

Upload ==
  SplitNextChunk \/ EnterBuildMerkleTree \/ PairNodes \/ StoreMetadata

(* The hash is the one in the metadata, or the one that DownloadChunk      *)
(* computed of what it sends, which shows nothing.                         *)
Download ==
  \E d \in Arrivals :
    \/ Len(got) < Len(chunks) /\ ReceiveChunk(d, ChunkHashes[Len(got) + 1])
    \/ Cardinality(Wrong) < MaxWrong /\ ReceiveChunk(d, HashOfChunk(d))

Next == Upload \/ Download

Spec == Init /\ [][Next]_vars

(* The upload is a loop that nothing blocks; nobody need download. *)
FairSpec == Spec /\ WF_vars(Upload)

-----------------------------------------------------------------------------
(* All chunks have arrived. *)
Complete == pc = "stored" /\ Len(got) = Len(chunks)

(* AssembleFile: the first n chunks, one after the other. *)
Assembled ==
  LET upTo[n \in 0 .. Len(chunks)] ==
        IF n = 0 THEN << >> ELSE upTo[n - 1] \o got[n]
  IN  upTo[Len(chunks)]

(* The chunks made so far follow each other from byte 0 on without a gap,  *)
(* none is empty or longer than ChunkSize, only the last one of the file   *)
(* is shorter, and when the loop ends they reach the end of the file; for  *)
(* sizes at, below and above a multiple of ChunkSize (chunk.go:58-69).     *)
ChunksPartitionData ==
  /\ \A i \in 1 .. Len(chunks) :
       /\ chunks[i].start = IF i = 1 THEN 0 ELSE chunks[i - 1].end
       /\ chunks[i].end - chunks[i].start \in 1 .. ChunkSize
       /\ chunks[i].end - chunks[i].start = ChunkSize \/ chunks[i].end = Len(data)
       /\ chunks[i].end <= Len(data)
  /\ pc # "split" =>
       Len(data) = IF Len(chunks) = 0 THEN 0 ELSE chunks[Len(chunks)].end

(* On every level of the tree each leaf is under exactly one node, and the *)
(* nodes are in the order of their leaves, however often an odd node was   *)
(* promoted: at the end all chunks are under the root (hash.go:44-63).     *)
EveryLeafCounts ==
  pc # "split" =>
    /\ \A i \in 1 .. Len(nodes) :
         /\ nodes[i].from = IF i = 1 THEN 1 ELSE nodes[i - 1].to + 1
         /\ nodes[i].from <= nodes[i].to
    /\ Len(chunks) = IF Len(nodes) = 0 THEN 0 ELSE nodes[Len(nodes)].to

(* 2 to the power of n. *)
Power[n \in Nat] == IF n = 0 THEN 1 ELSE 2 * Power[n - 1]

(* How many of w leaves, two or more, are in the left subtree: the largest *)
(* power of two that leaves one for the right subtree.                     *)
LeftLeaves(w) ==
  CHOOSE p \in {Power[n] : n \in 0 .. w} : p < w /\ w <= 2 * p

(* The root by its definition from the top: tree[w][i] is the root of the  *)
(* w leaves from i on.                                                     *)
ReferenceRoot(hashes) ==
  LET n == Len(hashes)
      tree[w \in 1 .. n] ==
        [i \in 1 .. n - w + 1 |->
           IF w = 1 THEN hashes[i]
           ELSE LET k == LeftLeaves(w)
                IN  HashOfPair(tree[k][i], tree[w - k][i + k])]
  IN  IF n = 0 THEN NoHash ELSE tree[n][1]

(* The levels built bottom up give the tree of the definition from the top *)
(* (hash.go:34-64), and the metadata has its root (chunk.go:100), which no  *)
(* download changes.                                                       *)
RootMatchesReference ==
  pc = "stored" /\ got = << >> =>
    /\ root = ReferenceRoot(ChunkHashes)
    /\ root = RootHash(ChunkHashes)

(* "Allows verifying the whole file with a single root hash" (hash.go:33): *)
(* when all chunks have arrived, VerifyFileIntegrity of their hashes says  *)
(* yes exactly if each is the chunk that was asked for, and then           *)
(* AssembleFile puts the file together as it was (chunk.go:173-189).       *)
IntegrityMeansOriginal ==
  Complete =>
    LET accepted == VerifyFileIntegrity(
                      [i \in 1 .. Len(chunks) |-> HashOfChunk(got[i])], root)
    IN  /\ accepted <=> \A i \in 1 .. Len(chunks) : got[i] = Chunk(i)
        /\ accepted => Assembled = data

(* The upload comes to its end: the loop over the chunks, and the one over *)
(* the levels, which halves the number of nodes (hash.go:44).              *)
UploadEnds == <>(pc = "stored")
=============================================================================
