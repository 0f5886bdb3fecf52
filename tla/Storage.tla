------------------------------ MODULE Storage ------------------------------
(***************************************************************************)
(* The chunk storage of one peer process: StorageManager (internal/storage *)
(* /manager.go), its ChunkStore (chunk.go), its BloomFilter (bloom.go) and *)
(* the directory on disk, under concurrent calls, write errors, and a      *)
(* process that dies and is started again on the same directory.           *)
(*                                                                         *)
(* A step of a call is one critical section of ChunkStore.mu or of         *)
(* BloomFilter.mu, or one operation on a file.  SplitFile keeps            *)
(* ChunkStore.mu for all of its steps: it holds `lock`.                    *)
(*                                                                         *)
(* A chunk's bytes are "whole" (the ones its hash is of) or "torn" (any    *)
(* others: in the program, a file that was created or truncated and not    *)
(* yet written in full, or what another peer read from such a file).  The  *)
(* hash that the caller of ReceiveChunk passes is named by the bytes it is *)
(* the hash of.                                                            *)
(***************************************************************************)
EXTENDS Integers, FiniteSets

CONSTANTS
  Calls,         \* the goroutines that may have a call in progress
  UploadIDs,     \* the fileIDs that uuid.New may return here
  RemoteIDs,     \* the fileIDs of files that were uploaded at other peers
  Indexes,       \* the chunk indexes
  Requested,     \* the keys <<fileID, index>> that requests may name
  ExpectedHashes,\* the hashes that ReceiveChunk's callers may pass
  FileSizes,     \* the sizes, in chunks, of the files that are uploaded
  Bits,          \* the bits of the Bloom filter
  Positions,     \* Positions[k]: the bits that Add and MightContain compute
  MaxCrashes,    \* bound: how often the process dies by itself
  MaxWriteErrors \* bound: how often a disk operation fails

FileIDs == UploadIDs \union RemoteIDs

(* ChunkKey and chunkStoreKey are injective: a key is the pair it encodes. *)
Keys == FileIDs \X Indexes

(* optimalNumHashes is at least 1: every key has a bit.                    *)
ChunkData == {"whole", "torn"}

ASSUME StorageAssumption ==
  /\ UploadIDs \cap RemoteIDs = {}
  /\ Indexes \subseteq Nat
  /\ Requested \subseteq Keys
  /\ ExpectedHashes \subseteq ChunkData
  /\ \A n \in FileSizes : n \in Nat /\ 0 .. n - 1 \subseteq Indexes
  /\ Positions \in [Keys -> (SUBSET Bits) \ {{}}]
  /\ MaxCrashes \in Nat /\ MaxWriteErrors \in Nat

(* ReceiveChunk's callers know the hash of the chunk that they ask for.    *)
(* The code cannot tell: any data is accepted with a hash of its own.      *)
TrueHashes == ExpectedHashes \subseteq {"whole"}

VARIABLES
  status,     \* of the process: "up", "crashed" or "panicked"
  chunks,     \* ChunkStore.chunks: Keys -> ChunkData, or "none"
  files,      \* ChunkStore.files: the TotalChunks of a known file, or -1
  bitArray,   \* BloomFilter.bitArray: the set of bits that are 1
  lock,       \* the call that is in SplitFile's critical section, or {}
  disk,       \* the chunk files: Keys -> ChunkData, or "none"
  calls,      \* the call each goroutine has in progress
  issued,     \* the fileIDs that uuid.New has returned
  published,  \* those that a client knows: an UploadFile returned them
  acked,      \* history: the chunks acknowledged since the process started
  everAcked,  \* history: those acknowledged by it or before a restart
  contested,  \* history: the chunks whose file was whole when a write began
  crashes, writeErrors

memory == <<chunks, files, bitArray, lock>>
history == <<acked, everAcked, contested>>
bounds == <<crashes, writeErrors>>
vars == <<status, memory, disk, calls, issued, published, history, bounds>>

(* pc is the step the call takes next; total, the number of chunks of the  *)
(* file it splits or assembles; data, what it splits, has received, or     *)
(* collected so far; expected, the hash that came with what it received;   *)
(* before is history: what held of its chunk when the call began.          *)
Idle == [pc |-> "idle", op |-> "none", file |-> "none", index |-> 0,
         total |-> 0, data |-> "whole", expected |-> "whole", reply |-> "none",
         before |-> [acked |-> FALSE, served |-> FALSE]]

Key(c) == <<calls[c].file, calls[c].index>>

MightContain(k) == Positions[k] \subseteq bitArray

(* A DownloadChunk of k would return its bytes. *)
Served(k) ==
  \/ chunks[k] = "whole"
  \/ chunks[k] = "none" /\ disk[k] = "whole"

(* The chunks of an uploaded file. *)
ChunksOf(f, n) == {f} \X (0 .. n - 1)

NoChunks == [k \in Keys |-> "none"]
NoFiles == [f \in FileIDs |-> -1]
AllIdle == [c \in Calls |-> Idle]

(* NewStorageManager starts with nothing in memory. *)
Init ==
  /\ status = "up"
  /\ chunks = NoChunks /\ files = NoFiles /\ bitArray = {} /\ lock = {}
  /\ disk = NoChunks
  /\ calls = AllIdle
  /\ issued = {} /\ published = {}
  /\ acked = {} /\ everAcked = {} /\ contested = {}
  /\ crashes = 0 /\ writeErrors = 0

(* Every call in progress ends with the process, and its memory with it;   *)
(* NewStorageManager starts with nothing in memory, whatever the disk has. *)
Die ==
  /\ chunks' = NoChunks /\ files' = NoFiles /\ bitArray' = {} /\ lock' = {}
  /\ calls' = AllIdle
  /\ acked' = {}
  /\ UNCHANGED <<disk, issued, published, everAcked, contested, writeErrors>>

Become(c, call) == calls' = [calls EXCEPT ![c] = call]
GoTo(c, pc) == calls' = [calls EXCEPT ![c].pc = pc]
Reply(c, r) == calls' = [calls EXCEPT ![c].pc = "reply", ![c].reply = r]

At(c, pc) == status = "up" /\ calls[c].pc = pc

-----------------------------------------------------------------------------
(* UploadFile draws a fresh fileID and calls SplitFile. *)
StartUpload(c, f, n) ==
  /\ At(c, "idle")
  /\ f \notin issued
  /\ issued' = issued \union {f}
  /\ Become(c, [Idle EXCEPT !.op = "upload", !.pc = "split",
                            !.file = f, !.total = n])
  /\ UNCHANGED <<status, memory, disk, published, history, bounds>>

(* A client asks for a chunk, or a file, of a fileID it has learnt.  The   *)
(* data d of a receive is what another peer answered, e the hash that the  *)
(* caller expects.                                                         *)
StartRequest(c, op, k, d, e) ==
  /\ At(c, "idle")
  /\ k[1] \in RemoteIDs \union published
  /\ LET pc == CASE op = "receive"  -> "verify"
                 [] op = "hasChunk" -> "might"
                 [] op = "download" -> "lookup"
                 [] op = "assemble" -> "metadata"
         asks == op \in {"hasChunk", "download"}
     IN  Become(c, [Idle EXCEPT
           !.op = op, !.pc = pc, !.file = k[1], !.index = k[2],
           !.data = d, !.expected = e,
           !.before = [acked |-> asks /\ k \in acked,
                       served |-> asks /\ Served(k)]])
  /\ UNCHANGED <<status, memory, disk, issued, published, history, bounds>>

(* Mutant of EnterSplitFile: the metadata is stored before the chunks. *)
EnterSplitFileKnown(c) ==
  /\ At(c, "split")
  /\ lock = {}
  /\ lock' = {c}
  /\ files' = [files EXCEPT ![calls[c].file] = calls[c].total]
  /\ GoTo(c, "chunk")
  /\ UNCHANGED <<status, chunks, bitArray, disk, issued, published, history,
                 bounds>>

(* SplitFile locks ChunkStore.mu. *)
EnterSplitFile(c) ==
  /\ At(c, "split")
  /\ lock = {}
  /\ lock' = {c}
  /\ GoTo(c, "chunk")
  /\ UNCHANGED <<status, chunks, files, bitArray, disk, issued, published,
                 history, bounds>>

(* SplitFile's loop: the chunk goes into memory, then to persistChunk. *)
SplitNextChunk(c) ==
  /\ At(c, "chunk")
  /\ calls[c].index < calls[c].total
  /\ chunks' = [chunks EXCEPT ![Key(c)] = "whole"]
  /\ GoTo(c, "persist")
  /\ UNCHANGED <<status, files, bitArray, lock, disk, issued, published,
                 history, bounds>>

(* Mutant of SplitDone: the metadata counts one chunk too many, as len /    *)
(* ChunkSize + 1 does at a multiple of the chunk size.                     *)
SplitDoneOneMore(c) ==
  /\ At(c, "chunk")
  /\ calls[c].index = calls[c].total
  /\ files' = [files EXCEPT ![calls[c].file] = calls[c].total + 1]
  /\ lock' = {}
  /\ calls' = [calls EXCEPT ![c].pc = "add", ![c].index = 0]
  /\ UNCHANGED <<status, chunks, bitArray, disk, issued, published, history,
                 bounds>>

(* SplitFile stores the metadata, unlocks and returns; UploadFile goes on  *)
(* to add the chunks to the Bloom filter.                                  *)
SplitDone(c) ==
  /\ At(c, "chunk")
  /\ calls[c].index = calls[c].total
  /\ files' = [files EXCEPT ![calls[c].file] = calls[c].total]
  /\ lock' = {}
  /\ calls' = [calls EXCEPT ![c].pc = "add", ![c].index = 0]
  /\ UNCHANGED <<status, chunks, bitArray, disk, issued, published, history,
                 bounds>>

(* persistChunk: os.WriteFile creates or truncates the file ... *)
BeginWrite(c) ==
  /\ At(c, "persist")
  /\ disk' = [disk EXCEPT ![Key(c)] = "torn"]
  /\ contested' = IF disk[Key(c)] = "whole" THEN contested \union {Key(c)}
                                            ELSE contested
  /\ GoTo(c, "write")
  /\ UNCHANGED <<status, memory, issued, published, acked, everAcked, bounds>>

(* ... and then writes the data, at most 256KB, in one write: if another   *)
(* writer of the same chunk truncated the file in between, it holds all of *)
(* the data all the same.  SplitFile goes on to the next chunk, ReceiveChunk to the     *)
(* Bloom filter.                                                           *)
FinishWrite(c) ==
  /\ At(c, "write")
  /\ disk' = [disk EXCEPT ![Key(c)] = calls[c].data]
  /\ IF calls[c].op = "upload"
       THEN calls' = [calls EXCEPT ![c].pc = "chunk", ![c].index = @ + 1]
       ELSE GoTo(c, "add")
  /\ UNCHANGED <<status, memory, issued, published, history, bounds>>

(* Mutant of WriteFails: ReceiveChunk ignores persistChunk's error. *)
WriteFailsSilently(c) ==
  /\ At(c, "persist") \/ At(c, "write")
  /\ writeErrors < MaxWriteErrors
  /\ writeErrors' = writeErrors + 1
  /\ IF calls[c].op = "upload"
       THEN lock' = {} /\ Reply(c, "error")
       ELSE GoTo(c, "add") /\ UNCHANGED lock
  /\ UNCHANGED <<status, chunks, files, bitArray, disk, issued, published,
                 history, crashes>>

(* Mutant of WriteFails: SplitFile returns the error without unlocking. *)
WriteFailsLocked(c) ==
  /\ At(c, "persist") \/ At(c, "write")
  /\ writeErrors < MaxWriteErrors
  /\ writeErrors' = writeErrors + 1
  /\ Reply(c, "error")
  /\ UNCHANGED <<status, memory, disk, issued, published, history, crashes>>

(* MkdirAll, the open or the write fails: the call returns the error, and  *)
(* leaves the chunk in memory and the file as it is.                       *)
WriteFails(c) ==
  /\ At(c, "persist") \/ At(c, "write")
  /\ writeErrors < MaxWriteErrors
  /\ writeErrors' = writeErrors + 1
  /\ lock' = lock \ {c}
  /\ Reply(c, "error")
  /\ UNCHANGED <<status, chunks, files, bitArray, disk, issued, published,
                 history, crashes>>

(* Mutant of AddToBloom: UploadFile adds the first chunk only. *)
AddToBloomOnce(c) ==
  /\ At(c, "add")
  /\ calls[c].op = "upload" => calls[c].index < calls[c].total
  /\ bitArray' = bitArray \union Positions[Key(c)]
  /\ IF calls[c].op = "upload"
       THEN calls' = [calls EXCEPT ![c].index = calls[c].total]
       ELSE GoTo(c, "ack")
  /\ UNCHANGED <<status, chunks, files, lock, disk, issued, published,
                 history, bounds>>

(* Bloom.Add, in ReceiveChunk and in UploadFile's loop over the chunks. *)
AddToBloom(c) ==
  /\ At(c, "add")
  /\ calls[c].op = "upload" => calls[c].index < calls[c].total
  /\ bitArray' = bitArray \union Positions[Key(c)]
  /\ IF calls[c].op = "upload"
       THEN calls' = [calls EXCEPT ![c].index = @ + 1]
       ELSE GoTo(c, "ack")
  /\ UNCHANGED <<status, chunks, files, lock, disk, issued, published,
                 history, bounds>>

Acknowledge(S) ==
  /\ acked' = acked \union S
  /\ everAcked' = everAcked \union S
  /\ UNCHANGED contested

(* UploadFile logs metadata.RootHash[:16] and returns the metadata.  The   *)
(* RootHash of a file without chunks is "", the slice panics, and nothing  *)
(* recovers in the goroutine of a gRPC handler: the process dies.          *)
UploadReturns(c) ==
  /\ At(c, "add")
  /\ calls[c].op = "upload" /\ calls[c].index = calls[c].total
  /\ IF calls[c].total = 0
       THEN /\ status' = "panicked"
            /\ Die
       ELSE /\ published' = published \union {calls[c].file}
            /\ Acknowledge(ChunksOf(calls[c].file, calls[c].total))
            /\ Reply(c, "ok")
            /\ UNCHANGED <<status, memory, disk, issued, writeErrors>>
  /\ UNCHANGED crashes

(* Mutant of VerifyAndStore: the chunk goes to disk only. *)
StoreOnDiskOnly(c) ==
  /\ At(c, "verify")
  /\ IF calls[c].data # calls[c].expected
       THEN Reply(c, "error") ELSE GoTo(c, "persist")
  /\ UNCHANGED <<status, memory, disk, issued, published, history, bounds>>

(* StoreDownloadedChunk rejects data that does not match the hash its      *)
(* caller expects, else puts it into memory and unlocks.                   *)
VerifyAndStore(c) ==
  /\ At(c, "verify")
  /\ IF calls[c].data # calls[c].expected
       THEN /\ Reply(c, "error")
            /\ UNCHANGED chunks
       ELSE /\ lock = {}
            /\ chunks' = [chunks EXCEPT ![Key(c)] = calls[c].data]
            /\ GoTo(c, "persist")
  /\ UNCHANGED <<status, files, bitArray, lock, disk, issued, published,
                 history, bounds>>

(* ReceiveChunk returns nil. *)
ReceiveReturns(c) ==
  /\ At(c, "ack")
  /\ Acknowledge({Key(c)})
  /\ Reply(c, "ok")
  /\ UNCHANGED <<status, memory, disk, issued, published, bounds>>

(* HasChunk: the Bloom filter first ... *)
MightHaveChunk(c) ==
  /\ At(c, "might")
  /\ IF MightContain(Key(c)) THEN GoTo(c, "confirm") ELSE Reply(c, "no")
  /\ UNCHANGED <<status, memory, disk, issued, published, history, bounds>>

(* ... then, on a maybe, ChunkStore.chunks. *)
ConfirmHasChunk(c) ==
  /\ At(c, "confirm")
  /\ lock = {}
  /\ Reply(c, IF chunks[Key(c)] # "none" THEN "confirmed" ELSE "maybe")
  /\ UNCHANGED <<status, memory, disk, issued, published, history, bounds>>

(* AssembleFile looks up the number of chunks of the file. *)
FindMetadata(c) ==
  /\ At(c, "metadata")
  /\ lock = {}
  /\ LET n == files[calls[c].file]
     IN  CASE n = -1 -> Reply(c, "unknown")
           [] n = 0  -> Reply(c, "whole")
           [] n > 0  -> calls' = [calls EXCEPT ![c].pc = "lookup",
                                               ![c].index = 0, ![c].total = n]
  /\ UNCHANGED <<status, memory, disk, issued, published, history, bounds>>

(* GetChunk returned d: the answer of DownloadChunk, one more chunk of     *)
(* AssembleFile's result, or the end of AssembleFile's loop.               *)
Got(c, d) ==
  LET call == calls[c]
      all == IF d = "torn" THEN "torn" ELSE call.data
  IN  IF call.op = "download" \/ d = "none"
        THEN Reply(c, d)
        ELSE IF call.index + 1 = call.total
          THEN Reply(c, all)
          ELSE calls' = [calls EXCEPT ![c].pc = "lookup", ![c].data = all,
                                      ![c].index = @ + 1]

(* Mutant of LookUp: the file is read even when the chunk is in memory. *)
LookUpOnDisk(c) ==
  /\ At(c, "lookup")
  /\ lock = {}
  /\ GoTo(c, "read")
  /\ UNCHANGED <<status, memory, disk, issued, published, history, bounds>>

(* GetChunk: memory first, under the read lock ... *)
LookUp(c) ==
  /\ At(c, "lookup")
  /\ lock = {}
  /\ IF chunks[Key(c)] # "none" THEN Got(c, chunks[Key(c)]) ELSE GoTo(c, "read")
  /\ UNCHANGED <<status, memory, disk, issued, published, history, bounds>>

(* ... then the file, without a lock: whatever it holds at that moment. *)
ReadFromDisk(c) ==
  /\ At(c, "read")
  /\ Got(c, disk[Key(c)])
  /\ UNCHANGED <<status, memory, disk, issued, published, history, bounds>>

(* The caller has its answer. *)
Return(c) ==
  /\ At(c, "reply")
  /\ Become(c, Idle)
  /\ UNCHANGED <<status, memory, disk, issued, published, history, bounds>>

Crash ==
  /\ status = "up"
  /\ crashes < MaxCrashes
  /\ status' = "crashed"
  /\ crashes' = crashes + 1
  /\ Die

(* The peer is started again on the same directory. *)
Restart ==
  /\ status # "up"
  /\ status' = "up"
  /\ UNCHANGED <<memory, disk, calls, issued, published, history, bounds>>

(* A call that has begun takes its steps. *)
Step(c) ==
  \/ EnterSplitFile(c) \/ SplitNextChunk(c) \/ SplitDone(c)
  \/ BeginWrite(c) \/ FinishWrite(c) \/ WriteFails(c)
  \/ AddToBloom(c) \/ UploadReturns(c)
  \/ VerifyAndStore(c) \/ ReceiveReturns(c)
  \/ MightHaveChunk(c) \/ ConfirmHasChunk(c)
  \/ FindMetadata(c) \/ LookUp(c) \/ ReadFromDisk(c)
  \/ Return(c)

Start(c) ==
  \/ \E f \in UploadIDs, n \in FileSizes : StartUpload(c, f, n)
  \/ \E k \in Requested :
       \/ \E d \in ChunkData, e \in ExpectedHashes :
            StartRequest(c, "receive", k, d, e)
       \/ StartRequest(c, "hasChunk", k, "whole", "whole")
       \/ StartRequest(c, "download", k, "whole", "whole")
       \/ k[2] = 0 /\ StartRequest(c, "assemble", k, "whole", "whole")

Next ==
  \/ \E c \in Calls : Start(c) \/ Step(c)
  \/ Crash
  \/ Restart

Spec == Init /\ [][Next]_vars

(* The scheduler runs every goroutine, and a disk operation ends.  Clients *)
(* need not call, and the process need not crash.                          *)
FairSpec == Spec /\ \A c \in Calls : WF_vars(Step(c))

-----------------------------------------------------------------------------
Steps == {"idle", "split", "chunk", "persist", "write", "add", "verify", "ack",
          "might", "confirm", "metadata", "lookup", "read", "reply"}
Replies == ChunkData \union {"none", "ok", "error", "no", "maybe", "confirmed",
                             "unknown"}
CallStates ==
  [pc : Steps,
   op : {"none", "upload", "receive", "hasChunk", "download", "assemble"},
   file : FileIDs \union {"none"}, index : Nat, total : FileSizes \union {0},
   data : ChunkData, expected : ChunkData, reply : Replies,
   before : [acked : BOOLEAN, served : BOOLEAN]]

(* Types of memory, disk, calls and history. *)
TypeOK ==
  /\ status \in {"up", "crashed", "panicked"}
  /\ chunks \in [Keys -> ChunkData \union {"none"}]
  /\ files \in [FileIDs -> FileSizes \union {-1}]
  /\ bitArray \in SUBSET Bits
  /\ lock = {} \/ \E c \in Calls : lock = {c}
  /\ disk \in [Keys -> ChunkData \union {"none"}]
  /\ published \in SUBSET issued /\ issued \in SUBSET UploadIDs
  /\ acked \subseteq everAcked /\ everAcked \subseteq Keys /\ contested \subseteq Keys
  /\ crashes \in 0 .. MaxCrashes /\ writeErrors \in 0 .. MaxWriteErrors
  /\ calls \in [Calls -> CallStates]

(* Whatever is in memory has been verified (chunk.go:150 "after            *)
(* verification"), and a file that GetFileMetadata knows has all of its    *)
(* chunks there: SplitFile stores the metadata last (chunk.go:94-103).     *)
KnownFileIsComplete ==
  /\ \A k \in Keys : chunks[k] # "torn"
  /\ \A f \in FileIDs : \A i \in 0 .. files[f] - 1 : chunks[<<f, i>>] = "whole"

(* A chunk that UploadFile or ReceiveChunk has acknowledged is found by    *)
(* HasChunk and served whole by DownloadChunk until the process dies, even *)
(* while other calls write, fail or race with the one that asks            *)
(* (manager.go:44-47, 78-84; chunk.go:130-138).                            *)
AckedIsFound ==
  /\ \A k \in acked : chunks[k] = "whole" /\ MightContain(k)
  /\ \A c \in Calls :
       calls[c].pc = "reply" /\ calls[c].before.acked =>
         /\ calls[c].op = "hasChunk" => calls[c].reply = "confirmed"
         /\ calls[c].op = "download" => calls[c].reply = "whole"

(* A chunk that was acknowledged is whole on disk, whatever errors,        *)
(* crashes, panics and restarts follow, unless another write was begun     *)
(* when the file was whole (chunk.go:85-91, 161; manager.go:79-81).        *)
AckedIsDurable == \A k \in everAcked \ contested : disk[k] = "whole"

(* AssembleFile never returns a file with a bad chunk, and never misses a  *)
(* chunk of a file it knows (chunk.go:173-189).                            *)
AssembledFileIsWhole ==
  \A c \in Calls :
    calls[c].op = "assemble" /\ calls[c].pc = "reply" =>
      calls[c].reply \in {"whole", "unknown"}

(* The question that a client has asked with a call, and the answer. *)
Question(call) ==
  IF call.op \in {"hasChunk", "download"}
    THEN [state |-> IF call.pc # "reply" THEN "open"
                    ELSE IF call.reply \in {"confirmed", "whole"}
                      THEN "found" ELSE "denied",
          promised |-> call.before.acked]
    ELSE [state |-> "none", promised |-> FALSE]

Asked == [c \in Calls |-> Question(calls[c])]

Service == INSTANCE ChunkService WITH
  up <- status = "up", held <- acked, asked <- Asked

(* The storage implements what ChunkService promises, through all failures *)
(* and interleavings of calls (manager.go:36-88, grpc_server.go:113-156).  *)
ImplementsService == Service!Spec

(* A step may touch a whole chunk file only to write again what memory     *)
(* holds already: a repeated ReceiveChunk of it (chunk.go:151-162).        *)
WholeFileIsOnlyRewritten ==
  [][\A k \in Keys : disk[k] = "whole" /\ disk'[k] # "whole" =>
       chunks[k] = "whole"
       /\ \E c \in Calls : Key(c) = k /\ calls[c].op = "receive"]_vars

(* HasChunk is the "ground truth" (chunk.go:119): when it denies having a  *)
(* chunk, DownloadChunk could not have served it, whole, when the call     *)
(* began.                                                                  *)
HasChunkIsGroundTruth ==
  \A c \in Calls :
    calls[c].op = "hasChunk" /\ calls[c].pc = "reply"
      /\ calls[c].reply # "confirmed" => ~ calls[c].before.served

(* DownloadChunk "returns the raw chunk data" (grpc_server.go:141).        *)
DownloadIsWhole ==
  \A c \in Calls :
    calls[c].op = "download" /\ calls[c].pc = "reply" =>
      calls[c].reply # "torn"

(* UploadFile "splits a file into chunks, hashes each, and stores them"    *)
(* (grpc_server.go:158): it does not take the process down.                *)
NeverPanics == status # "panicked"

(* Every call that has begun returns, or dies with the process: no call    *)
(* waits forever for ChunkStore.mu (chunk.go:55-56, 121, 131-134, 156).    *)
CallsReturn == \A c \in Calls : calls[c].pc # "idle" ~> calls[c].pc = "idle"
=============================================================================
