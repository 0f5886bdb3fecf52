--------------------------- MODULE StorageProofs ----------------------------
(***************************************************************************)
(* Proofs about module Storage: what a peer has acknowledged is found,     *)
(* whole and durable, and it implements ChunkService, for any number of    *)
(* concurrent calls, files, chunks, crashes and write errors, and whatever *)
(* bits the keys share in the Bloom filter, as long as whoever hands a     *)
(* chunk to ReceiveChunk knows its hash (TrueHashes).                      *)
(*                                                                         *)
(* The argument: as long as the process runs, the chunks in memory, those  *)
(* in the filter and those safe on disk only grow.  So what a call has     *)
(* found out about them holds until it ends, whatever the others do; the   *)
(* invariant says for each call what that is.                              *)
(***************************************************************************)
EXTENDS Storage, TLAPS

(* The chunks in memory, in the filter, and on disk for good. *)
InMemory == {k \in Keys : chunks[k] = "whole"}
InFilter == {k \in Keys : MightContain(k)}
OnDisk == {k \in Keys : disk[k] = "whole"} \union contested

(* What a call in progress may rely on. *)
UploadOK(u, w, b, d, i) ==
  /\ u.op = "upload"
  /\ u.pc \in {"split", "chunk", "persist", "write", "add", "reply"}
  /\ u.file \in i
  /\ u.total \in FileSizes /\ u.data = "whole"
  /\ u.index \in 0 .. u.total
  /\ u.pc = "split" => u.index = 0
  /\ u.pc \in {"chunk", "persist", "write"} =>
       ChunksOf(u.file, u.index) \subseteq w \cap d
  /\ u.pc \in {"persist", "write"} =>
       u.index < u.total /\ <<u.file, u.index>> \in w
  /\ u.pc = "add" => /\ ChunksOf(u.file, u.total) \subseteq w \cap d
                     /\ ChunksOf(u.file, u.index) \subseteq b
  /\ ~ u.before.acked

ReceiveOK(r, w, b, d) ==
  /\ r.op = "receive"
  /\ r.pc \in {"verify", "persist", "write", "add", "ack", "reply"}
  /\ <<r.file, r.index>> \in Keys
  /\ r.expected = "whole"
  /\ r.pc \in {"persist", "write", "add", "ack"} =>
       <<r.file, r.index>> \in w /\ r.data = "whole"
  /\ r.pc \in {"add", "ack"} => <<r.file, r.index>> \in d
  /\ r.pc = "ack" => <<r.file, r.index>> \in b
  /\ ~ r.before.acked

AskOK(q, a) ==
  /\ \/ q.op = "hasChunk" /\ q.pc \in {"might", "confirm", "reply"}
     \/ q.op = "download" /\ q.pc \in {"lookup", "read", "reply"}
  /\ <<q.file, q.index>> \in Keys
  /\ q.before.acked =>
       /\ <<q.file, q.index>> \in a
       /\ q.pc # "read"
       /\ q.pc = "reply" =>
            q.reply = IF q.op = "hasChunk" THEN "confirmed" ELSE "whole"

AssembleOK(q, w) ==
  /\ q.op = "assemble"
  /\ q.pc \in {"metadata", "lookup", "reply"}
  /\ q.file \in FileIDs
  /\ q.pc = "metadata" => q.data = "whole"
  /\ q.pc = "lookup" => /\ q.data = "whole"
                        /\ q.total \in FileSizes /\ q.index < q.total
                        /\ ChunksOf(q.file, q.total) \subseteq w
  /\ q.pc = "reply" => q.reply \in {"whole", "unknown"}
  /\ ~ q.before.acked

NoneOK(q) == q.op = "none" /\ q.pc = "idle" /\ ~ q.before.acked

CallOK(q, w, b, d, a, i) ==
  /\ q \in CallStates
  /\ \/ NoneOK(q) \/ UploadOK(q, w, b, d, i) \/ ReceiveOK(q, w, b, d)
     \/ AskOK(q, a) \/ AssembleOK(q, w)

(* The rest of the state. *)
StateOK ==
  /\ status \in {"up", "crashed", "panicked"}
  /\ chunks \in [Keys -> {"whole", "none"}]
  /\ files \in [FileIDs -> FileSizes \union {-1}]
  /\ \A f \in FileIDs : ChunksOf(f, files[f]) \subseteq InMemory
  /\ bitArray \in SUBSET Bits
  /\ lock = {} \/ \E c \in Calls : lock = {c}
  /\ disk \in [Keys -> ChunkData \union {"none"}]
  /\ published \in SUBSET issued /\ issued \in SUBSET UploadIDs
  /\ acked \subseteq everAcked /\ everAcked \subseteq Keys /\ contested \subseteq Keys
  /\ acked \subseteq InMemory \cap InFilter
  /\ everAcked \subseteq OnDisk
  /\ crashes \in 0 .. MaxCrashes /\ writeErrors \in 0 .. MaxWriteErrors

CallsOK ==
  /\ calls \in [Calls -> CallStates]
  /\ \A c \in Calls :
       CallOK(calls[c], InMemory, InFilter, OnDisk, acked, issued)

(* The inductive invariant: no data is taken for a chunk that it is not.   *)
Inv == TrueHashes /\ StateOK /\ CallsOK

(* It implies the invariants that the run checks. *)
LEMMA InvImpliesTypes == Inv => TypeOK
  BY DEF Inv, StateOK, CallsOK, TypeOK, ChunkData

LEMMA InvImpliesComplete == Inv => KnownFileIsComplete
<1> SUFFICES ASSUME Inv PROVE KnownFileIsComplete
  OBVIOUS
<1>1. \A k \in Keys : chunks[k] # "torn"
  BY DEF Inv, StateOK
<1>2. ASSUME NEW f \in FileIDs, NEW i \in 0 .. files[f] - 1
      PROVE  chunks[<<f, i>>] = "whole"
  <2>1. <<f, i>> \in ChunksOf(f, files[f])
    BY DEF ChunksOf
  <2> QED
    BY <2>1 DEF Inv, StateOK, InMemory
<1> QED
  BY <1>1, <1>2 DEF KnownFileIsComplete

LEMMA InvImpliesFound == Inv => AckedIsFound
<1> SUFFICES ASSUME Inv PROVE AckedIsFound
  OBVIOUS
<1>1. \A k \in acked : chunks[k] = "whole" /\ MightContain(k)
  BY DEF Inv, StateOK, InMemory, InFilter
<1>2. ASSUME NEW c \in Calls, calls[c].pc = "reply", calls[c].before.acked
      PROVE  /\ calls[c].op = "hasChunk" => calls[c].reply = "confirmed"
             /\ calls[c].op = "download" => calls[c].reply = "whole"
  <2>1. AskOK(calls[c], acked)
    BY <1>2 DEF Inv, CallsOK, CallOK, NoneOK, UploadOK, ReceiveOK, AssembleOK
  <2> QED
    BY <1>2, <2>1 DEF AskOK
<1> QED
  BY <1>1, <1>2 DEF AckedIsFound

LEMMA InvImpliesDurable == Inv => AckedIsDurable
  BY DEF Inv, StateOK, OnDisk, AckedIsDurable

LEMMA InvImpliesAssembled == Inv => AssembledFileIsWhole
<1> SUFFICES ASSUME Inv, NEW c \in Calls,
                    calls[c].op = "assemble", calls[c].pc = "reply"
             PROVE  calls[c].reply \in {"whole", "unknown"}
  BY DEF AssembledFileIsWhole
<1>1. AssembleOK(calls[c], InMemory)
  BY DEF Inv, CallsOK, CallOK, NoneOK, UploadOK, ReceiveOK, AskOK
<1> QED
  BY <1>1 DEF AssembleOK

-----------------------------------------------------------------------------
(* What a call relies on is never taken back. *)
LEMMA CallStaysOK ==
  ASSUME NEW q, NEW w, NEW b, NEW d, NEW a, NEW i,
         NEW ww, NEW bb, NEW dd, NEW aa, NEW ii,
         w \subseteq ww, b \subseteq bb, d \subseteq dd, a \subseteq aa,
         i \subseteq ii, CallOK(q, w, b, d, a, i)
  PROVE  CallOK(q, ww, bb, dd, aa, ii)
<1>1. UploadOK(q, w, b, d, i) => UploadOK(q, ww, bb, dd, ii)
  BY DEF UploadOK
<1>2. ReceiveOK(q, w, b, d) => ReceiveOK(q, ww, bb, dd)
  BY DEF ReceiveOK
<1>3. AskOK(q, a) => AskOK(q, aa)
  BY DEF AskOK
<1>4. AssembleOK(q, w) => AssembleOK(q, ww)
  BY DEF AssembleOK
<1> QED
  BY <1>1, <1>2, <1>3, <1>4 DEF CallOK

(* Memory, filter and disk have grown, or are the same. *)
Grown ==
  /\ InMemory \subseteq InMemory' /\ InFilter \subseteq InFilter'
  /\ OnDisk \subseteq OnDisk' /\ acked \subseteq acked'
  /\ issued \subseteq issued'

(* One call takes a step: the others rely on what they did before. *)
LEMMA CallStep ==
  ASSUME Inv, NEW c \in Calls, NEW new, Become(c, new),
         StateOK', Grown,
         CallOK(new, InMemory', InFilter', OnDisk', acked', issued')
  PROVE  Inv'
<1>1. calls' \in [Calls -> CallStates]
  BY DEF Inv, CallsOK, CallOK, Become
<1>2. ASSUME NEW e \in Calls
      PROVE  CallOK(calls'[e], InMemory', InFilter', OnDisk', acked', issued')
  <2>1. CASE e = c
    BY <2>1 DEF Inv, CallsOK, Become
  <2>2. CASE e # c
    <3>1. calls'[e] = calls[e]
      BY <2>2 DEF Inv, CallsOK, Become
    <3>2. CallOK(calls[e], InMemory, InFilter, OnDisk, acked, issued)
      BY DEF Inv, CallsOK
    <3> QED
      BY <3>1, <3>2, CallStaysOK DEF Grown
  <2> QED
    BY <2>1, <2>2
<1> QED
  BY <1>1, <1>2 DEF Inv, CallsOK

(* A step that changes nothing but the call itself. *)
LEMMA QuietStep ==
  ASSUME Inv, NEW c \in Calls, NEW new, Become(c, new),
         UNCHANGED <<status, memory, disk, issued, published, history, bounds>>,
         CallOK(new, InMemory, InFilter, OnDisk, acked, issued)
  PROVE  Inv'
<1> USE DEF memory, history, bounds
<1>1. /\ InMemory' = InMemory /\ InFilter' = InFilter /\ OnDisk' = OnDisk
      /\ acked' = acked /\ issued' = issued
  BY DEF InMemory, InFilter, OnDisk, MightContain
<1>2. StateOK'
  BY <1>1 DEF Inv, StateOK
<1> QED
  BY <1>1, <1>2, CallStep DEF Grown

-----------------------------------------------------------------------------
(* The calls that GoTo and Reply make. *)
Gone(q, pc) == [q EXCEPT !.pc = pc]
Replied(q, r) == [q EXCEPT !.pc = "reply", !.reply = r]

LEMMA GoneCall ==
  ASSUME NEW q \in CallStates, NEW pc \in Steps
  PROVE  LET n == Gone(q, pc)
         IN  /\ n \in CallStates /\ n.pc = pc
             /\ n.op = q.op /\ n.file = q.file /\ n.index = q.index
             /\ n.total = q.total /\ n.data = q.data /\ n.reply = q.reply
             /\ n.expected = q.expected /\ n.before = q.before
  BY DEF Gone, CallStates

LEMMA RepliedCall ==
  ASSUME NEW q \in CallStates, NEW r \in Replies
  PROVE  LET n == Replied(q, r)
         IN  /\ n \in CallStates /\ n.pc = "reply" /\ n.reply = r
             /\ n.op = q.op /\ n.file = q.file /\ n.index = q.index
             /\ n.total = q.total /\ n.data = q.data
             /\ n.expected = q.expected /\ n.before = q.before
  BY DEF Replied, CallStates, Steps

LEMMA IdleIsOK ==
  \A w, b, d, a, i : Idle \in CallStates /\ CallOK(Idle, w, b, d, a, i)
<1>1. Idle \in CallStates
  BY DEF Idle, CallStates, Steps, Replies, ChunkData
<1>2. NoneOK(Idle)
  BY DEF NoneOK, Idle
<1> QED
  BY <1>1, <1>2 DEF CallOK

(* The step that a call is at tells which operation it is of. *)
LEMMA StepTellsOp ==
  ASSUME CallsOK, NEW c \in Calls
  PROVE  /\ calls[c] \in CallStates
         /\ calls[c].pc \in {"split", "chunk"} =>
              UploadOK(calls[c], InMemory, InFilter, OnDisk, issued)
         /\ calls[c].pc \in {"persist", "write", "add"} =>
              \/ UploadOK(calls[c], InMemory, InFilter, OnDisk, issued)
              \/ ReceiveOK(calls[c], InMemory, InFilter, OnDisk)
         /\ calls[c].pc \in {"verify", "ack"} =>
              ReceiveOK(calls[c], InMemory, InFilter, OnDisk)
         /\ calls[c].pc \in {"might", "confirm", "read"} => AskOK(calls[c], acked)
         /\ calls[c].pc = "lookup" =>
              AskOK(calls[c], acked) \/ AssembleOK(calls[c], InMemory)
         /\ calls[c].pc = "metadata" => AssembleOK(calls[c], InMemory)
         /\ calls[c].pc = "idle" => NoneOK(calls[c])
<1> DEFINE q == calls[c]
<1>1. /\ q \in CallStates
      /\ \/ NoneOK(q) \/ UploadOK(q, InMemory, InFilter, OnDisk, issued)
         \/ ReceiveOK(q, InMemory, InFilter, OnDisk)
         \/ AskOK(q, acked) \/ AssembleOK(q, InMemory)
  BY DEF CallsOK, CallOK
<1>2. NoneOK(q) => q.pc = "idle"
  BY DEF NoneOK
<1>3. UploadOK(q, InMemory, InFilter, OnDisk, issued) =>
        q.pc \in {"split", "chunk", "persist", "write", "add", "reply"}
  BY DEF UploadOK
<1>4. ReceiveOK(q, InMemory, InFilter, OnDisk) =>
        q.pc \in {"verify", "persist", "write", "add", "ack", "reply"}
  BY DEF ReceiveOK
<1>5. AskOK(q, acked) =>
        q.pc \in {"might", "confirm", "lookup", "read", "reply"}
  BY DEF AskOK
<1>6. AssembleOK(q, InMemory) => q.pc \in {"metadata", "lookup", "reply"}
  BY DEF AssembleOK
<1> HIDE DEF q
<1>7. /\ q.pc \in {"split", "chunk"} =>
              UploadOK(q, InMemory, InFilter, OnDisk, issued)
      /\ q.pc \in {"persist", "write", "add"} =>
              \/ UploadOK(q, InMemory, InFilter, OnDisk, issued)
              \/ ReceiveOK(q, InMemory, InFilter, OnDisk)
      /\ q.pc \in {"verify", "ack"} => ReceiveOK(q, InMemory, InFilter, OnDisk)
      /\ q.pc \in {"might", "confirm", "read"} => AskOK(q, acked)
      /\ q.pc = "lookup" => AskOK(q, acked) \/ AssembleOK(q, InMemory)
      /\ q.pc = "metadata" => AssembleOK(q, InMemory)
      /\ q.pc = "idle" => NoneOK(q)
  BY <1>1, <1>2, <1>3, <1>4, <1>5, <1>6
<1> QED
  BY <1>1, <1>7 DEF q

-----------------------------------------------------------------------------
(* The questions: HasChunk, DownloadChunk and AssembleFile. *)

LEMMA MightStep ==
  ASSUME Inv, NEW c \in Calls, MightHaveChunk(c)
  PROVE  Inv'
<1> DEFINE q == calls[c]
<1>1. q \in CallStates /\ AskOK(q, acked) /\ q.pc = "might"
  BY StepTellsOp DEF Inv, MightHaveChunk, At
<1>2. q.before.acked => MightContain(Key(c))
  BY <1>1 DEF AskOK, Inv, StateOK, InFilter, Key
<1>3. CASE MightContain(Key(c))
  <2>1. CallOK(Gone(q, "confirm"), InMemory, InFilter, OnDisk, acked, issued)
    BY <1>1, GoneCall DEF CallOK, AskOK, Steps
  <2>2. Become(c, Gone(q, "confirm"))
    BY <1>3 DEF MightHaveChunk, GoTo, Become, Gone
  <2> QED
    BY <2>1, <2>2, QuietStep DEF MightHaveChunk
<1>4. CASE ~ MightContain(Key(c))
  <2>1. CallOK(Replied(q, "no"), InMemory, InFilter, OnDisk, acked, issued)
    BY <1>1, <1>2, <1>4, RepliedCall DEF CallOK, AskOK, Replies
  <2>2. Become(c, Replied(q, "no"))
    BY <1>4 DEF MightHaveChunk, Reply, Become, Replied
  <2> QED
    BY <2>1, <2>2, QuietStep DEF MightHaveChunk
<1> QED
  BY <1>3, <1>4

LEMMA ConfirmStep ==
  ASSUME Inv, NEW c \in Calls, ConfirmHasChunk(c)
  PROVE  Inv'
<1> DEFINE q == calls[c]
           r == IF chunks[Key(c)] # "none" THEN "confirmed" ELSE "maybe"
<1>1. q \in CallStates /\ AskOK(q, acked) /\ q.pc = "confirm"
  BY StepTellsOp DEF Inv, ConfirmHasChunk, At
<1>2. q.before.acked => r = "confirmed"
  BY <1>1 DEF AskOK, Inv, StateOK, InMemory, Key
<1>3. r \in {"confirmed", "maybe"}
  OBVIOUS
<1>4. Become(c, Replied(q, r))
  BY DEF ConfirmHasChunk, Reply, Become, Replied
<1> HIDE DEF r
<1>5. CallOK(Replied(q, r), InMemory, InFilter, OnDisk, acked, issued)
  BY <1>1, <1>2, <1>3, RepliedCall DEF CallOK, AskOK, Replies
<1> QED
  BY <1>4, <1>5, QuietStep DEF ConfirmHasChunk

LEMMA MetadataStep ==
  ASSUME Inv, NEW c \in Calls, FindMetadata(c)
  PROVE  Inv'
<1> DEFINE q == calls[c]
           n == files[q.file]
           new == [q EXCEPT !.pc = "lookup", !.index = 0, !.total = n]
<1>1. q \in CallStates /\ AssembleOK(q, InMemory) /\ q.pc = "metadata"
  BY StepTellsOp DEF Inv, FindMetadata, At
<1>2. /\ q.file \in FileIDs /\ n \in FileSizes \union {-1}
      /\ ChunksOf(q.file, n) \subseteq InMemory
  BY <1>1 DEF AssembleOK, Inv, StateOK
<1>3. n \in Int /\ (n # -1 => n \in Nat /\ n \in FileSizes)
  BY <1>2, StorageAssumption
<1>4. CASE n = -1
  <2>1. CallOK(Replied(q, "unknown"), InMemory, InFilter, OnDisk, acked, issued)
    BY <1>1, RepliedCall DEF CallOK, AssembleOK, Replies
  <2>2. Reply(c, "unknown")
    BY <1>3, <1>4 DEF FindMetadata
  <2>3. Become(c, Replied(q, "unknown"))
    BY <2>2 DEF Reply, Become, Replied
  <2> QED
    BY <2>1, <2>3, QuietStep DEF FindMetadata
<1>5. CASE n = 0
  <2>1. CallOK(Replied(q, "whole"), InMemory, InFilter, OnDisk, acked, issued)
    BY <1>1, RepliedCall DEF CallOK, AssembleOK, Replies, ChunkData
  <2>2. Reply(c, "whole")
    BY <1>3, <1>5 DEF FindMetadata
  <2>3. Become(c, Replied(q, "whole"))
    BY <2>2 DEF Reply, Become, Replied
  <2> QED
    BY <2>1, <2>3, QuietStep DEF FindMetadata
<1>6. CASE n > 0
  <2>0. calls' = [calls EXCEPT ![c].pc = "lookup", ![c].index = 0, ![c].total = n]
    <3>1. n # -1 /\ n # 0
      BY <1>3, <1>6
    <3> QED
      BY <1>6, <3>1, Zenon DEF FindMetadata
  <2> HIDE DEF n
  <2>1. Become(c, new)
    BY <2>0 DEF Become
  <2>2. n \in FileSizes
    BY <1>3, <1>6
  <2>3. /\ new \in CallStates /\ new.pc = "lookup" /\ new.index = 0
        /\ new.total = n /\ new.op = q.op /\ new.file = q.file
        /\ new.data = q.data /\ new.before = q.before
    BY <1>1, <2>2 DEF CallStates, Steps
  <2> HIDE DEF new, q
  <2>4. AssembleOK(new, InMemory)
    BY <1>1, <1>2, <1>6, <2>2, <2>3 DEF AssembleOK
  <2>5. CallOK(new, InMemory, InFilter, OnDisk, acked, issued)
    BY <2>3, <2>4 DEF CallOK
  <2> QED
    BY <2>1, <2>5, QuietStep DEF FindMetadata
<1> QED
  BY <1>3, <1>4, <1>5, <1>6

(* GetChunk returned d to a call that looked it up. *)
LEMMA GotStep ==
  ASSUME Inv, NEW c \in Calls, NEW d \in ChunkData \union {"none"}, Got(c, d),
         UNCHANGED <<status, memory, disk, issued, published, history, bounds>>,
         \/ /\ AskOK(calls[c], acked) /\ calls[c].op = "download"
            /\ calls[c].before.acked => d = "whole"
         \/ /\ AssembleOK(calls[c], InMemory) /\ calls[c].pc = "lookup"
            /\ d = "whole"
  PROVE  Inv'
<1> DEFINE q == calls[c]
           next == q.index + 1
           new == [q EXCEPT !.pc = "lookup", !.data = "whole", !.index = next]
<1>1. q \in CallStates
  BY DEF Inv, CallsOK
<1>2. CASE AskOK(q, acked) /\ q.op = "download" /\ (q.before.acked => d = "whole")
  <2>1. CallOK(Replied(q, d), InMemory, InFilter, OnDisk, acked, issued)
    BY <1>1, <1>2, RepliedCall DEF CallOK, AskOK, Replies
  <2>2. Become(c, Replied(q, d))
    BY <1>2 DEF Got, Reply, Become, Replied
  <2> QED
    BY <2>1, <2>2, QuietStep
<1>3. CASE AssembleOK(q, InMemory) /\ q.pc = "lookup" /\ d = "whole"
  <2>1. /\ q.op = "assemble" /\ q.data = "whole" /\ q.total \in FileSizes
        /\ q.index \in Nat /\ q.index < q.total /\ q.total \in Nat
    BY <1>1, <1>3, StorageAssumption DEF AssembleOK, CallStates
  <2>2. CASE q.index + 1 = q.total
    <3>1. CallOK(Replied(q, "whole"), InMemory, InFilter, OnDisk, acked, issued)
      BY <1>1, <1>3, RepliedCall DEF CallOK, AssembleOK, Replies, ChunkData
    <3>2. Become(c, Replied(q, "whole"))
      BY <1>3, <2>1, <2>2 DEF Got, Reply, Become, Replied
    <3> QED
      BY <3>1, <3>2, QuietStep
  <2>3. CASE q.index + 1 # q.total
    <3>1. Become(c, new)
      BY <1>3, <2>1, <2>3 DEF Got, Become
    <3>2. next \in Nat /\ next < q.total
      BY <2>1, <2>3
    <3> HIDE DEF next
    <3>3. /\ new \in CallStates /\ new.pc = "lookup" /\ new.index = next
          /\ new.total = q.total /\ new.op = q.op /\ new.file = q.file
          /\ new.data = "whole" /\ new.before = q.before
      BY <1>1, <3>2 DEF CallStates, Steps, ChunkData
    <3> HIDE DEF new, q
    <3>4. AssembleOK(new, InMemory)
      BY <1>3, <2>1, <3>2, <3>3 DEF AssembleOK
    <3>5. CallOK(new, InMemory, InFilter, OnDisk, acked, issued)
      BY <3>3, <3>4 DEF CallOK
    <3> QED
      BY <3>1, <3>5, QuietStep
  <2> QED
    BY <2>2, <2>3
<1> QED
  BY <1>2, <1>3

LEMMA LookUpStep ==
  ASSUME Inv, NEW c \in Calls, LookUp(c)
  PROVE  Inv'
<1> DEFINE q == calls[c]
<1>1. /\ q \in CallStates /\ q.pc = "lookup"
      /\ AskOK(q, acked) \/ AssembleOK(q, InMemory)
  BY StepTellsOp DEF Inv, LookUp, At
<1>2. CASE AskOK(q, acked)
  <2>1. /\ Key(c) \in Keys /\ q.op = "download"
        /\ q.before.acked => chunks[Key(c)] = "whole"
        /\ chunks[Key(c)] \in {"whole", "none"}
    BY <1>1, <1>2 DEF AskOK, Inv, StateOK, InMemory, Key
  <2>2. CASE chunks[Key(c)] # "none"
    BY <1>2, <2>1, <2>2, GotStep DEF LookUp, ChunkData
  <2>3. CASE chunks[Key(c)] = "none"
    <3>1. CallOK(Gone(q, "read"), InMemory, InFilter, OnDisk, acked, issued)
      BY <1>1, <1>2, <2>1, <2>3, GoneCall DEF CallOK, AskOK, Steps
    <3>2. Become(c, Gone(q, "read"))
      BY <2>3 DEF LookUp, GoTo, Become, Gone
    <3> QED
      BY <3>1, <3>2, QuietStep DEF LookUp
  <2> QED
    BY <2>2, <2>3
<1>3. CASE AssembleOK(q, InMemory)
  <2>1. q.index \in 0 .. q.total - 1 /\ ChunksOf(q.file, q.total) \subseteq InMemory
    BY <1>1, <1>3, StorageAssumption DEF AssembleOK, CallStates
  <2>2. Key(c) \in InMemory
    BY <2>1 DEF ChunksOf, Key
  <2>3. chunks[Key(c)] = "whole"
    BY <2>2 DEF InMemory
  <2> QED
    BY <1>1, <1>3, <2>3, GotStep DEF LookUp, ChunkData
<1> QED
  BY <1>1, <1>2, <1>3

LEMMA ReadStep ==
  ASSUME Inv, NEW c \in Calls, ReadFromDisk(c)
  PROVE  Inv'
<1> DEFINE q == calls[c]
<1>1. q \in CallStates /\ AskOK(q, acked) /\ q.pc = "read"
  BY StepTellsOp DEF Inv, ReadFromDisk, At
<1>2. q.op = "download" /\ ~ q.before.acked /\ Key(c) \in Keys
  BY <1>1 DEF AskOK, Key
<1>3. disk[Key(c)] \in ChunkData \union {"none"}
  BY <1>2 DEF Inv, StateOK
<1> QED
  BY <1>1, <1>2, <1>3, GotStep DEF ReadFromDisk

LEMMA ReturnStep ==
  ASSUME Inv, NEW c \in Calls, Return(c)
  PROVE  Inv'
  BY IdleIsOK, QuietStep DEF Return

LEMMA StartRequestStep ==
  ASSUME Inv, NEW c \in Calls, NEW k \in Requested, NEW d \in ChunkData,
         NEW op \in {"receive", "hasChunk", "download", "assemble"},
         op = "assemble" => d = "whole", NEW e \in {"whole"},
         StartRequest(c, op, k, d, e)
  PROVE  Inv'
<1> DEFINE pc == CASE op = "receive"  -> "verify"
                   [] op = "hasChunk" -> "might"
                   [] op = "download" -> "lookup"
                   [] op = "assemble" -> "metadata"
           asks == op \in {"hasChunk", "download"}
           before == [acked |-> asks /\ k \in acked, served |-> asks /\ Served(k)]
           new == [Idle EXCEPT !.op = op, !.pc = pc, !.file = k[1],
                               !.index = k[2], !.data = d, !.expected = e,
                               !.before = before]
<1>1. Become(c, new)
  BY DEF StartRequest
<1>2. k \in Keys /\ k[1] \in FileIDs /\ k[2] \in Nat /\ k = <<k[1], k[2]>>
  <2>1. Requested \subseteq Keys /\ Indexes \subseteq Nat
    BY StorageAssumption
  <2>2. k \in Keys
    BY <2>1
  <2>3. k \in FileIDs \X Indexes
    BY <2>2 DEF Keys
  <2>4. k[1] \in FileIDs /\ k[2] \in Indexes
    BY <2>3
  <2>5. k = <<k[1], k[2]>>
    BY <2>3
  <2> QED
    BY <2>1, <2>2, <2>4, <2>5
<1>3. /\ op = "receive"  => pc = "verify"
      /\ op = "hasChunk" => pc = "might"
      /\ op = "download" => pc = "lookup"
      /\ op = "assemble" => pc = "metadata"
  OBVIOUS
<1>4. /\ before \in [acked : BOOLEAN, served : BOOLEAN]
      /\ before.acked => asks /\ k \in acked
  BY DEF Served
<1> HIDE DEF pc, before
<1>5. /\ new \in CallStates /\ new.op = op /\ new.pc = pc /\ new.file = k[1]
      /\ new.index = k[2] /\ new.data = d /\ new.expected = "whole"
      /\ new.before = before
  BY <1>2, <1>3, <1>4 DEF Idle, CallStates, Steps, Replies, ChunkData
<1> HIDE DEF new
<1>6. op = "receive" => ReceiveOK(new, InMemory, InFilter, OnDisk)
  BY <1>2, <1>3, <1>4, <1>5 DEF ReceiveOK
<1>7. op \in {"hasChunk", "download"} => AskOK(new, acked)
  BY <1>2, <1>3, <1>4, <1>5 DEF AskOK
<1>8. op = "assemble" => AssembleOK(new, InMemory)
  BY <1>2, <1>3, <1>4, <1>5 DEF AssembleOK
<1>9. CallOK(new, InMemory, InFilter, OnDisk, acked, issued)
  BY <1>5, <1>6, <1>7, <1>8 DEF CallOK
<1> QED
  BY <1>1, <1>9, QuietStep DEF StartRequest

-----------------------------------------------------------------------------
(* The writers: UploadFile and ReceiveChunk. *)

LEMMA ChunksOneByOne ==
  ASSUME NEW f, NEW i \in Nat
  PROVE  ChunksOf(f, 0) = {} /\ ChunksOf(f, i + 1) = ChunksOf(f, i) \union {<<f, i>>}
<1>1. 0 .. 0 - 1 = {} /\ 0 .. (i + 1) - 1 = (0 .. i - 1) \union {i}
  OBVIOUS
<1> QED
  BY <1>1 DEF ChunksOf

LEMMA ChunksAreKeys ==
  ASSUME NEW f \in UploadIDs, NEW n \in FileSizes
  PROVE  n \in Nat /\ ChunksOf(f, n) \subseteq Keys
<1>1. n \in Nat /\ 0 .. n - 1 \subseteq Indexes
  BY StorageAssumption
<1> QED
  BY <1>1 DEF ChunksOf, Keys, FileIDs

(* The key that an upload, or a receive, works on. *)
LEMMA UploadKey ==
  ASSUME Inv, NEW c \in Calls, calls[c].index < calls[c].total,
         UploadOK(calls[c], InMemory, InFilter, OnDisk, issued)
  PROVE  Key(c) \in Keys
<1>1. calls[c].file \in UploadIDs /\ calls[c].total \in FileSizes
  BY DEF UploadOK, Inv, StateOK
<1>2. calls[c].index \in 0 .. calls[c].total - 1
  BY <1>1, ChunksAreKeys DEF UploadOK
<1>3. Key(c) \in ChunksOf(calls[c].file, calls[c].total)
  BY <1>2 DEF ChunksOf, Key
<1> QED
  BY <1>1, <1>3, ChunksAreKeys

LEMMA WriterKey ==
  ASSUME Inv, NEW c \in Calls, calls[c].pc \in {"persist", "write"}
  PROVE  Key(c) \in Keys /\ Key(c) \in InMemory /\ calls[c].data = "whole"
<1>1. CASE UploadOK(calls[c], InMemory, InFilter, OnDisk, issued)
  BY <1>1, UploadKey DEF UploadOK, Key
<1>2. CASE ReceiveOK(calls[c], InMemory, InFilter, OnDisk)
  BY <1>2 DEF ReceiveOK, Key
<1> QED
  BY <1>1, <1>2, StepTellsOp DEF Inv

LEMMA StartUploadStep ==
  ASSUME Inv, NEW c \in Calls, NEW f \in UploadIDs, NEW n \in FileSizes,
         StartUpload(c, f, n)
  PROVE  Inv'
<1> USE DEF memory, history, bounds
<1> DEFINE new == [Idle EXCEPT !.op = "upload", !.pc = "split", !.file = f,
                               !.total = n]
<1>1. /\ Become(c, new) /\ issued' = issued \union {f}
      /\ UNCHANGED <<status, chunks, files, bitArray, lock, disk, published,
                     acked, everAcked, contested, crashes, writeErrors>>
  BY DEF StartUpload
<1>2. /\ InMemory' = InMemory /\ InFilter' = InFilter /\ OnDisk' = OnDisk
  BY <1>1 DEF InMemory, InFilter, OnDisk, MightContain
<1>3. StateOK'
  BY <1>1, <1>2 DEF Inv, StateOK
<1>4. /\ new \in CallStates /\ new.op = "upload" /\ new.pc = "split"
      /\ new.file = f /\ new.index = 0 /\ new.total = n /\ new.data = "whole"
      /\ ~ new.before.acked
  BY DEF Idle, CallStates, Steps, Replies, ChunkData, FileIDs
<1>5. n \in Nat
  BY ChunksAreKeys
<1> HIDE DEF new
<1>6. UploadOK(new, InMemory', InFilter', OnDisk', issued')
  BY <1>1, <1>4, <1>5 DEF UploadOK
<1> QED
  BY <1>1, <1>2, <1>3, <1>4, <1>6, CallStep DEF CallOK, Grown

LEMMA EnterStep ==
  ASSUME Inv, NEW c \in Calls, EnterSplitFile(c)
  PROVE  Inv'
<1> USE DEF memory, history, bounds
<1> DEFINE q == calls[c]
           new == Gone(q, "chunk")
<1>1. /\ Become(c, new) /\ lock' = {c}
      /\ UNCHANGED <<status, chunks, files, bitArray, disk, issued, published,
                     acked, everAcked, contested, crashes, writeErrors>>
  BY DEF EnterSplitFile, GoTo, Become, Gone
<1>2. /\ InMemory' = InMemory /\ InFilter' = InFilter /\ OnDisk' = OnDisk
  BY <1>1 DEF InMemory, InFilter, OnDisk, MightContain
<1>3. StateOK'
  BY <1>1, <1>2 DEF Inv, StateOK
<1>4. /\ q \in CallStates /\ q.pc = "split"
      /\ UploadOK(q, InMemory, InFilter, OnDisk, issued)
  BY StepTellsOp DEF Inv, EnterSplitFile, At
<1>5. ChunksOf(q.file, q.index) = {}
  BY <1>4, ChunksOneByOne DEF UploadOK
<1>6. new \in CallStates /\ UploadOK(new, InMemory, InFilter, OnDisk, issued)
  BY <1>4, <1>5, GoneCall DEF UploadOK, Steps
<1> HIDE DEF new
<1> QED
  BY <1>1, <1>2, <1>3, <1>6, CallStep DEF CallOK, Grown

(* A chunk that is put into memory. *)
LEMMA MemoryGrows ==
  ASSUME Inv, NEW k \in Keys, chunks' = [chunks EXCEPT ![k] = "whole"],
         UNCHANGED <<status, files, bitArray, lock, disk, issued, published,
                     acked, everAcked, contested, crashes, writeErrors>>
  PROVE  StateOK' /\ Grown /\ InMemory' = InMemory \union {k}
<1>1. /\ InMemory' = InMemory \union {k} /\ InFilter' = InFilter
      /\ OnDisk' = OnDisk
  BY DEF Inv, StateOK, InMemory, InFilter, OnDisk, MightContain
<1>2. StateOK'
  BY <1>1 DEF Inv, StateOK
<1> QED
  BY <1>1, <1>2 DEF Grown

LEMMA SplitStep ==
  ASSUME Inv, NEW c \in Calls, SplitNextChunk(c)
  PROVE  Inv'
<1> USE DEF memory, history, bounds
<1> DEFINE q == calls[c]
           new == Gone(q, "persist")
<1>1. /\ q \in CallStates /\ q.pc = "chunk" /\ q.index < q.total
      /\ UploadOK(q, InMemory, InFilter, OnDisk, issued)
  BY StepTellsOp DEF Inv, SplitNextChunk, At
<1>2. Key(c) \in Keys
  BY <1>1, UploadKey
<1>3. StateOK' /\ Grown /\ InMemory' = InMemory \union {Key(c)}
  BY <1>2, MemoryGrows DEF SplitNextChunk
<1>4. Become(c, new)
  BY DEF SplitNextChunk, GoTo, Become, Gone
<1>5. UploadOK(q, InMemory', InFilter', OnDisk', issued')
  BY <1>1, <1>3 DEF UploadOK, Grown
<1>6. new \in CallStates /\ UploadOK(new, InMemory', InFilter', OnDisk', issued')
  BY <1>1, <1>3, <1>5, GoneCall DEF UploadOK, Steps, Key
<1> HIDE DEF new
<1> QED
  BY <1>3, <1>4, <1>6, CallStep DEF CallOK

LEMMA VerifyStep ==
  ASSUME Inv, NEW c \in Calls, VerifyAndStore(c)
  PROVE  Inv'
<1> USE DEF memory, history, bounds
<1> DEFINE q == calls[c]
<1>1. /\ q \in CallStates /\ q.pc = "verify"
      /\ ReceiveOK(q, InMemory, InFilter, OnDisk)
  BY StepTellsOp DEF Inv, VerifyAndStore, At
<1>e. q.expected = "whole"
  BY <1>1 DEF ReceiveOK
<1>2. CASE q.data # "whole"
  <2>1. CallOK(Replied(q, "error"), InMemory, InFilter, OnDisk, acked, issued)
    BY <1>1, RepliedCall DEF CallOK, ReceiveOK, Replies
  <2>2. Become(c, Replied(q, "error"))
    BY <1>2, <1>e DEF VerifyAndStore, Reply, Become, Replied
  <2> QED
    BY <1>2, <1>e, <2>1, <2>2, QuietStep DEF VerifyAndStore
<1>3. CASE q.data = "whole"
  <2> DEFINE new == Gone(q, "persist")
  <2>1. StateOK' /\ Grown /\ InMemory' = InMemory \union {Key(c)}
    BY <1>1, <1>3, <1>e, MemoryGrows DEF VerifyAndStore, ReceiveOK, Key
  <2>2. Become(c, new)
    BY <1>3, <1>e DEF VerifyAndStore, GoTo, Become, Gone
  <2>3. new \in CallStates /\ ReceiveOK(new, InMemory', InFilter', OnDisk')
    BY <1>1, <1>3, <2>1, GoneCall DEF ReceiveOK, Steps, Key
  <2> HIDE DEF new
  <2> QED
    BY <2>1, <2>2, <2>3, CallStep DEF CallOK
<1> QED
  BY <1>2, <1>3

LEMMA SplitDoneStep ==
  ASSUME Inv, NEW c \in Calls, SplitDone(c)
  PROVE  Inv'
<1> USE DEF memory, history, bounds
<1> DEFINE q == calls[c]
           new == [q EXCEPT !.pc = "add", !.index = 0]
<1>1. /\ q \in CallStates /\ q.pc = "chunk" /\ q.index = q.total
      /\ UploadOK(q, InMemory, InFilter, OnDisk, issued)
  BY StepTellsOp DEF Inv, SplitDone, At
<1>2. /\ q.file \in FileIDs /\ q.total \in FileSizes /\ q.total \in Nat
      /\ ChunksOf(q.file, q.total) \subseteq InMemory \cap OnDisk
  BY <1>1, ChunksAreKeys DEF UploadOK, Inv, StateOK, FileIDs
<1>3. /\ Become(c, new) /\ lock' = {}
      /\ files' = [files EXCEPT ![q.file] = q.total]
      /\ UNCHANGED <<status, chunks, bitArray, disk, issued, published,
                     acked, everAcked, contested, crashes, writeErrors>>
  BY DEF SplitDone, Become
<1>4. /\ InMemory' = InMemory /\ InFilter' = InFilter /\ OnDisk' = OnDisk
  BY <1>3 DEF InMemory, InFilter, OnDisk, MightContain
<1>5. \A f \in FileIDs : ChunksOf(f, files'[f]) \subseteq InMemory'
  BY <1>2, <1>3, <1>4 DEF Inv, StateOK
<1>6. StateOK'
  BY <1>2, <1>3, <1>4, <1>5 DEF Inv, StateOK
<1>7. /\ new \in CallStates /\ new.pc = "add" /\ new.index = 0 /\ new.op = q.op
      /\ new.file = q.file /\ new.total = q.total /\ new.data = q.data
      /\ new.before = q.before
  BY <1>1 DEF CallStates, Steps
<1>8. ChunksOf(q.file, 0) = {}
  BY ChunksOneByOne
<1> HIDE DEF new, q
<1>9. UploadOK(new, InMemory, InFilter, OnDisk, issued)
  BY <1>1, <1>2, <1>7, <1>8 DEF UploadOK
<1> QED
  BY <1>3, <1>4, <1>6, <1>7, <1>9, CallStep DEF CallOK, Grown

(* A truncated file that was whole is contested from then on. *)
LEMMA BeginWriteStep ==
  ASSUME Inv, NEW c \in Calls, BeginWrite(c)
  PROVE  Inv'
<1> USE DEF memory, history, bounds
<1> DEFINE q == calls[c]
           new == Gone(q, "write")
<1>1. q \in CallStates /\ q.pc = "persist" /\ Key(c) \in Keys
  BY StepTellsOp, WriterKey DEF Inv, BeginWrite, At
<1>2. /\ Become(c, new) /\ disk' = [disk EXCEPT ![Key(c)] = "torn"]
      /\ contested' = IF disk[Key(c)] = "whole" THEN contested \union {Key(c)}
                                                ELSE contested
      /\ UNCHANGED <<status, chunks, files, bitArray, lock, issued, published,
                     acked, everAcked, crashes, writeErrors>>
  BY DEF BeginWrite, GoTo, Become, Gone
<1>3. /\ InMemory' = InMemory /\ InFilter' = InFilter
      /\ OnDisk \subseteq OnDisk' /\ contested' \subseteq Keys
      /\ disk' \in [Keys -> ChunkData \union {"none"}]
  BY <1>1, <1>2 DEF InMemory, InFilter, OnDisk, MightContain, Inv, StateOK,
                    ChunkData
<1>4. StateOK'
  BY <1>2, <1>3 DEF Inv, StateOK
<1>5. Grown
  BY <1>2, <1>3 DEF Grown
<1>6. CallOK(q, InMemory', InFilter', OnDisk', acked', issued')
  BY <1>5, CallStaysOK DEF Inv, CallsOK, Grown
<1>7. CallOK(new, InMemory', InFilter', OnDisk', acked', issued')
  <2>1. new \in CallStates
    BY <1>1, GoneCall DEF Steps
  <2>2. CASE UploadOK(q, InMemory', InFilter', OnDisk', issued')
    <3>1. UploadOK(new, InMemory', InFilter', OnDisk', issued')
      BY <1>1, <2>2, GoneCall DEF UploadOK, Steps
    <3> QED
      BY <2>1, <3>1 DEF CallOK
  <2>3. CASE ReceiveOK(q, InMemory', InFilter', OnDisk')
    <3>1. ReceiveOK(new, InMemory', InFilter', OnDisk')
      BY <1>1, <2>3, GoneCall DEF ReceiveOK, Steps
    <3> QED
      BY <2>1, <3>1 DEF CallOK
  <2> QED
    BY <1>1, <1>6, <2>2, <2>3 DEF CallOK, NoneOK, AskOK, AssembleOK
<1> HIDE DEF new
<1> QED
  BY <1>2, <1>4, <1>5, <1>7, CallStep

LEMMA FinishWriteStep ==
  ASSUME Inv, NEW c \in Calls, FinishWrite(c)
  PROVE  Inv'
<1> USE DEF memory, history, bounds
<1> DEFINE q == calls[c]
<1>1. /\ q \in CallStates /\ q.pc = "write"
      /\ Key(c) \in Keys /\ Key(c) \in InMemory /\ q.data = "whole"
      /\ \/ UploadOK(q, InMemory, InFilter, OnDisk, issued)
         \/ ReceiveOK(q, InMemory, InFilter, OnDisk)
  BY StepTellsOp, WriterKey DEF Inv, FinishWrite, At
<1>2. /\ disk' = [disk EXCEPT ![Key(c)] = "whole"]
      /\ UNCHANGED <<status, chunks, files, bitArray, lock, issued, published,
                     acked, everAcked, contested, crashes, writeErrors>>
  BY <1>1 DEF FinishWrite
<1>3. /\ InMemory' = InMemory /\ InFilter' = InFilter
      /\ OnDisk' = OnDisk \union {Key(c)}
      /\ disk' \in [Keys -> ChunkData \union {"none"}]
  BY <1>1, <1>2 DEF InMemory, InFilter, OnDisk, MightContain, Inv, StateOK,
                    ChunkData
<1>4. StateOK'
  BY <1>2, <1>3 DEF Inv, StateOK
<1>5. Grown
  BY <1>2, <1>3 DEF Grown
<1>6. CASE UploadOK(q, InMemory, InFilter, OnDisk, issued)
  <2> DEFINE next == q.index + 1
             new == [q EXCEPT !.pc = "chunk", !.index = next]
  <2>1. /\ q.op = "upload" /\ q.index \in Nat /\ q.index < q.total
        /\ q.total \in Nat /\ q.total \in FileSizes
    BY <1>1, <1>6, StorageAssumption DEF UploadOK, CallStates
  <2>2. Become(c, new)
    BY <2>1 DEF FinishWrite, Become
  <2>3. ChunksOf(q.file, next) = ChunksOf(q.file, q.index) \union {Key(c)}
    BY <2>1, ChunksOneByOne DEF Key
  <2>4. next \in 0 .. q.total /\ next \in Nat
    BY <2>1
  <2> HIDE DEF next
  <2>5. /\ new \in CallStates /\ new.pc = "chunk" /\ new.index = next
        /\ new.op = q.op /\ new.file = q.file /\ new.total = q.total
        /\ new.data = q.data /\ new.before = q.before
    BY <1>1, <2>4 DEF CallStates, Steps
  <2>6. ChunksOf(q.file, next) \subseteq InMemory' \cap OnDisk'
    BY <1>1, <1>3, <1>6, <2>3 DEF UploadOK
  <2> HIDE DEF new, q
  <2>7. UploadOK(new, InMemory', InFilter', OnDisk', issued')
    BY <1>2, <1>6, <2>4, <2>5, <2>6 DEF UploadOK
  <2> QED
    BY <1>4, <1>5, <2>2, <2>5, <2>7, CallStep DEF CallOK
<1>7. CASE ReceiveOK(q, InMemory, InFilter, OnDisk)
  <2> DEFINE new == Gone(q, "add")
  <2>1. Become(c, new)
    BY <1>7 DEF FinishWrite, ReceiveOK, GoTo, Become, Gone
  <2>2. new \in CallStates /\ ReceiveOK(new, InMemory', InFilter', OnDisk')
    BY <1>1, <1>3, <1>7, GoneCall DEF ReceiveOK, Steps, Key
  <2> HIDE DEF new
  <2> QED
    BY <1>4, <1>5, <2>1, <2>2, CallStep DEF CallOK
<1> QED
  BY <1>1, <1>6, <1>7

LEMMA WriteFailsStep ==
  ASSUME Inv, NEW c \in Calls, WriteFails(c)
  PROVE  Inv'
<1> USE DEF memory, history, bounds
<1> DEFINE q == calls[c]
           new == Replied(q, "error")
<1>1. /\ q \in CallStates /\ q.pc \in {"persist", "write"}
      /\ \/ UploadOK(q, InMemory, InFilter, OnDisk, issued)
         \/ ReceiveOK(q, InMemory, InFilter, OnDisk)
  BY StepTellsOp DEF Inv, WriteFails, At
<1>2. /\ Become(c, new) /\ lock' = lock \ {c}
      /\ writeErrors < MaxWriteErrors /\ writeErrors' = writeErrors + 1
      /\ UNCHANGED <<status, chunks, files, bitArray, disk, issued, published,
                     acked, everAcked, contested, crashes>>
  BY DEF WriteFails, Reply, Become, Replied
<1>3. /\ InMemory' = InMemory /\ InFilter' = InFilter /\ OnDisk' = OnDisk
  BY <1>2 DEF InMemory, InFilter, OnDisk, MightContain
<1>4. writeErrors' \in 0 .. MaxWriteErrors
  BY <1>2, StorageAssumption DEF Inv, StateOK
<1>5. lock' = {} \/ \E e \in Calls : lock' = {e}
  BY <1>2 DEF Inv, StateOK
<1>6. StateOK'
  BY <1>2, <1>3, <1>4, <1>5 DEF Inv, StateOK
<1>7. CallOK(new, InMemory, InFilter, OnDisk, acked, issued)
  <2>1. UploadOK(q, InMemory, InFilter, OnDisk, issued) =>
          UploadOK(new, InMemory, InFilter, OnDisk, issued)
    BY <1>1, RepliedCall DEF UploadOK, Replies
  <2>2. ReceiveOK(q, InMemory, InFilter, OnDisk) =>
          ReceiveOK(new, InMemory, InFilter, OnDisk)
    BY <1>1, RepliedCall DEF ReceiveOK, Replies
  <2> QED
    BY <1>1, <2>1, <2>2, RepliedCall DEF CallOK, Replies
<1> HIDE DEF new
<1> QED
  BY <1>2, <1>3, <1>6, <1>7, CallStep DEF Grown

LEMMA AddStep ==
  ASSUME Inv, NEW c \in Calls, AddToBloom(c)
  PROVE  Inv'
<1> USE DEF memory, history, bounds
<1> DEFINE q == calls[c]
<1>1. /\ q \in CallStates /\ q.pc = "add"
      /\ \/ UploadOK(q, InMemory, InFilter, OnDisk, issued)
         \/ ReceiveOK(q, InMemory, InFilter, OnDisk)
      /\ q.op = "upload" => q.index < q.total
  BY StepTellsOp DEF Inv, AddToBloom, At
<1>2. Key(c) \in Keys
  <2>1. CASE UploadOK(q, InMemory, InFilter, OnDisk, issued)
    BY <1>1, <2>1, UploadKey DEF UploadOK
  <2>2. CASE ReceiveOK(q, InMemory, InFilter, OnDisk)
    BY <2>2 DEF ReceiveOK, Key
  <2> QED
    BY <1>1, <2>1, <2>2
<1>3. Positions[Key(c)] \in SUBSET Bits
  BY <1>2, StorageAssumption
<1>4. /\ bitArray' = bitArray \union Positions[Key(c)]
      /\ UNCHANGED <<status, chunks, files, lock, disk, issued, published,
                     acked, everAcked, contested, crashes, writeErrors>>
  BY DEF AddToBloom
<1>5. /\ InMemory' = InMemory /\ OnDisk' = OnDisk
      /\ InFilter \union {Key(c)} \subseteq InFilter'
  BY <1>2, <1>4 DEF InMemory, InFilter, OnDisk, MightContain
<1>6. StateOK'
  BY <1>3, <1>4, <1>5 DEF Inv, StateOK
<1>7. Grown
  BY <1>4, <1>5 DEF Grown
<1>8. CASE UploadOK(q, InMemory, InFilter, OnDisk, issued)
  <2> DEFINE next == q.index + 1
             new == [q EXCEPT !.index = next]
  <2>1. /\ q.op = "upload" /\ q.index \in Nat /\ q.index < q.total
        /\ q.total \in Nat /\ q.total \in FileSizes
    BY <1>1, <1>8, StorageAssumption DEF UploadOK, CallStates
  <2>2. Become(c, new)
    BY <2>1 DEF AddToBloom, Become
  <2>3. ChunksOf(q.file, next) = ChunksOf(q.file, q.index) \union {Key(c)}
    BY <2>1, ChunksOneByOne DEF Key
  <2>4. next \in 0 .. q.total /\ next \in Nat
    BY <2>1
  <2> HIDE DEF next
  <2>5. /\ new \in CallStates /\ new.pc = "add" /\ new.index = next
        /\ new.op = q.op /\ new.file = q.file /\ new.total = q.total
        /\ new.data = q.data /\ new.before = q.before
    BY <1>1, <2>4 DEF CallStates, Steps
  <2>6. /\ ChunksOf(q.file, next) \subseteq InFilter'
        /\ ChunksOf(q.file, q.total) \subseteq InMemory' \cap OnDisk'
    BY <1>1, <1>5, <1>8, <2>3 DEF UploadOK
  <2> HIDE DEF new, q
  <2>7. UploadOK(new, InMemory', InFilter', OnDisk', issued')
    BY <1>4, <1>8, <2>4, <2>5, <2>6 DEF UploadOK
  <2> QED
    BY <1>6, <1>7, <2>2, <2>5, <2>7, CallStep DEF CallOK
<1>9. CASE ReceiveOK(q, InMemory, InFilter, OnDisk)
  <2> DEFINE new == Gone(q, "ack")
  <2>1. Become(c, new)
    BY <1>9 DEF AddToBloom, ReceiveOK, GoTo, Become, Gone
  <2>2. new \in CallStates /\ ReceiveOK(new, InMemory', InFilter', OnDisk')
    BY <1>1, <1>5, <1>9, GoneCall DEF ReceiveOK, Steps, Key
  <2> HIDE DEF new
  <2> QED
    BY <1>6, <1>7, <2>1, <2>2, CallStep DEF CallOK
<1> QED
  BY <1>1, <1>8, <1>9

(* What is acknowledged is in memory, in the filter and on disk. *)
LEMMA AcknowledgeKeepsState ==
  ASSUME Inv, NEW S, S \subseteq InMemory \cap InFilter \cap OnDisk, Acknowledge(S),
         published' \in SUBSET issued,
         UNCHANGED <<status, memory, disk, issued, bounds>>
  PROVE  /\ StateOK' /\ Grown
         /\ InMemory' = InMemory /\ InFilter' = InFilter /\ OnDisk' = OnDisk
<1> USE DEF memory, bounds
<1>1. /\ InMemory' = InMemory /\ InFilter' = InFilter /\ OnDisk' = OnDisk
  BY DEF InMemory, InFilter, OnDisk, MightContain, Acknowledge
<1>2. S \subseteq Keys
  BY DEF InMemory
<1>3. StateOK'
  BY <1>1, <1>2 DEF Inv, StateOK, Acknowledge
<1> QED
  BY <1>1, <1>3 DEF Grown, Acknowledge

LEMMA ReceiveReturnsStep ==
  ASSUME Inv, NEW c \in Calls, ReceiveReturns(c)
  PROVE  Inv'
<1> USE DEF memory, bounds
<1> DEFINE q == calls[c]
           new == Replied(q, "ok")
<1>1. /\ q \in CallStates /\ q.pc = "ack"
      /\ ReceiveOK(q, InMemory, InFilter, OnDisk)
  BY StepTellsOp DEF Inv, ReceiveReturns, At
<1>2. {Key(c)} \subseteq InMemory \cap InFilter \cap OnDisk
  BY <1>1 DEF ReceiveOK, Key
<1>3. published' \in SUBSET issued
  BY DEF ReceiveReturns, Inv, StateOK
<1>4. /\ StateOK' /\ Grown
      /\ InMemory' = InMemory /\ InFilter' = InFilter /\ OnDisk' = OnDisk
  BY <1>2, <1>3, AcknowledgeKeepsState DEF ReceiveReturns
<1>5. Become(c, new)
  BY DEF ReceiveReturns, Reply, Become, Replied
<1>6. new \in CallStates /\ ReceiveOK(new, InMemory, InFilter, OnDisk)
  BY <1>1, RepliedCall DEF ReceiveOK, Replies
<1> HIDE DEF new
<1> QED
  BY <1>4, <1>5, <1>6, CallStep DEF CallOK

(* The process dies: the disk stays, the rest starts anew. *)
LEMMA DieStep ==
  ASSUME Inv, Die, status' \in {"up", "crashed", "panicked"},
         crashes' \in 0 .. MaxCrashes
  PROVE  Inv'
<1>1. /\ chunks' = NoChunks /\ files' = NoFiles /\ bitArray' = {} /\ lock' = {}
      /\ calls' = AllIdle /\ acked' = {}
      /\ UNCHANGED <<disk, issued, published, everAcked, contested, writeErrors>>
  BY DEF Die
<1>2. OnDisk' = OnDisk
  BY <1>1 DEF OnDisk
<1>3. ASSUME NEW f \in FileIDs PROVE ChunksOf(f, files'[f]) = {}
  <2>1. files'[f] = -1 /\ 0 .. -1 - 1 = {}
    BY <1>1 DEF NoFiles
  <2> QED
    BY <2>1 DEF ChunksOf
<1>4. /\ chunks' \in [Keys -> {"whole", "none"}]
      /\ files' \in [FileIDs -> FileSizes \union {-1}]
  BY <1>1 DEF NoChunks, NoFiles
<1>5. StateOK'
  BY <1>1, <1>2, <1>3, <1>4 DEF Inv, StateOK
<1>6. CallsOK'
  BY <1>1, IdleIsOK DEF CallsOK, AllIdle
<1> QED
  BY <1>5, <1>6 DEF Inv

LEMMA UploadReturnsStep ==
  ASSUME Inv, NEW c \in Calls, UploadReturns(c)
  PROVE  Inv'
<1> DEFINE q == calls[c]
           S == ChunksOf(q.file, q.total)
           new == Replied(q, "ok")
<1>1. CASE q.total = 0
  BY <1>1, DieStep DEF UploadReturns, Inv, StateOK
<1>2. CASE q.total # 0
  <2>1. /\ published' = published \union {q.file} /\ Acknowledge(S)
        /\ Reply(c, "ok")
        /\ UNCHANGED <<status, memory, disk, issued, writeErrors, crashes>>
    BY <1>2 DEF UploadReturns
  <2>2. /\ q \in CallStates /\ q.pc = "add"
        /\ q.op = "upload" /\ q.index = q.total
    BY StepTellsOp DEF Inv, UploadReturns, At
  <2>3. UploadOK(q, InMemory, InFilter, OnDisk, issued)
    BY <2>2, StepTellsOp DEF Inv, ReceiveOK
  <2>4. S \subseteq InMemory \cap InFilter \cap OnDisk /\ q.file \in issued
    BY <2>2, <2>3 DEF UploadOK
  <2>5. published' \in SUBSET issued
    BY <2>1, <2>4 DEF Inv, StateOK
  <2>6. /\ StateOK' /\ Grown
        /\ InMemory' = InMemory /\ InFilter' = InFilter /\ OnDisk' = OnDisk
    BY <2>1, <2>4, <2>5, AcknowledgeKeepsState DEF bounds
  <2>7. Become(c, new)
    BY <2>1 DEF Reply, Become, Replied
  <2>8. new \in CallStates /\ UploadOK(new, InMemory, InFilter, OnDisk, issued)
    BY <2>2, <2>3, RepliedCall DEF UploadOK, Replies
  <2> HIDE DEF new
  <2> QED
    BY <2>1, <2>6, <2>7, <2>8, CallStep DEF CallOK
<1> QED
  BY <1>1, <1>2

LEMMA CrashStep ==
  ASSUME Inv, Crash
  PROVE  Inv'
<1>1. crashes' \in 0 .. MaxCrashes
  BY StorageAssumption DEF Crash, Inv, StateOK
<1> QED
  BY <1>1, DieStep DEF Crash

LEMMA StillStep ==
  ASSUME Inv, status' \in {"up", "crashed", "panicked"},
         UNCHANGED <<memory, disk, calls, issued, published, history, bounds>>
  PROVE  Inv'
<1> USE DEF memory, history, bounds
<1>1. /\ InMemory' = InMemory /\ InFilter' = InFilter /\ OnDisk' = OnDisk
  BY DEF InMemory, InFilter, OnDisk, MightContain
<1>2. StateOK'
  BY <1>1 DEF Inv, StateOK
<1> QED
  BY <1>1, <1>2 DEF Inv, CallsOK

LEMMA InitIsOK == TrueHashes /\ Init => Inv
<1> SUFFICES ASSUME TrueHashes, Init PROVE Inv
  OBVIOUS
<1>1. ASSUME NEW f \in FileIDs PROVE ChunksOf(f, files[f]) = {}
  <2>1. files[f] = -1 /\ 0 .. -1 - 1 = {}
    BY DEF Init, NoFiles
  <2> QED
    BY <2>1 DEF ChunksOf
<1>2. /\ chunks \in [Keys -> {"whole", "none"}]
      /\ disk \in [Keys -> ChunkData \union {"none"}]
      /\ files \in [FileIDs -> FileSizes \union {-1}]
  BY DEF Init, NoChunks, NoFiles
<1>3. StateOK
  BY <1>1, <1>2, StorageAssumption DEF Init, StateOK
<1>4. CallsOK
  BY IdleIsOK DEF Init, CallsOK, AllIdle
<1> QED
  BY <1>3, <1>4 DEF Inv

LEMMA StartCallStep ==
  ASSUME Inv, NEW c \in Calls, Start(c)
  PROVE  Inv'
<1>1. ExpectedHashes \subseteq {"whole"}
  BY DEF Inv, TrueHashes
<1> QED
  BY <1>1, StartUploadStep, StartRequestStep DEF Start, ChunkData

LEMMA NextStep == Inv /\ [Next]_vars => Inv'
<1> SUFFICES ASSUME Inv, [Next]_vars PROVE Inv'
  OBVIOUS
<1>1. ASSUME NEW c \in Calls, Step(c) PROVE Inv'
  BY <1>1, EnterStep, SplitStep, SplitDoneStep, BeginWriteStep, FinishWriteStep,
     WriteFailsStep, AddStep, UploadReturnsStep, VerifyStep, ReceiveReturnsStep,
     MightStep, ConfirmStep, MetadataStep, LookUpStep, ReadStep, ReturnStep
     DEF Step
<1>2. CASE Restart
  BY <1>2, StillStep DEF Restart
<1>3. CASE UNCHANGED vars
  BY <1>3, StillStep DEF vars, Inv, StateOK
<1> QED
  BY <1>1, <1>2, <1>3, StartCallStep, CrashStep DEF Next

(* The inductive invariant holds in every reachable state, whatever calls, *)
(* errors, crashes and restarts occur.                                     *)
THEOREM Invariance == TrueHashes /\ Spec => []Inv
  BY InitIsOK, NextStep, PTL DEF Spec

(* The types of memory, disk, calls and history (chunk.go:32-38).          *)
THEOREM TypeCorrect == TrueHashes /\ Spec => []TypeOK
  BY Invariance, InvImpliesTypes, PTL

(* A file that GetFileMetadata knows has all of its chunks in memory, and  *)
(* nothing unverified is there (chunk.go:54-106, 150-159).                 *)
THEOREM KnownFilesAreComplete == TrueHashes /\ Spec => []KnownFileIsComplete
  BY Invariance, InvImpliesComplete, PTL

(* What UploadFile or ReceiveChunk has acknowledged is found by HasChunk   *)
(* and served whole by DownloadChunk until the process dies                *)
(* (manager.go:36-88, grpc_server.go:113-156).                             *)
THEOREM AcknowledgedIsFound == TrueHashes /\ Spec => []AckedIsFound
  BY Invariance, InvImpliesFound, PTL

(* What was acknowledged is whole on disk through every crash, unless its  *)
(* file was whole when another write of it began (chunk.go:108-117).       *)
THEOREM AcknowledgedIsDurable == TrueHashes /\ Spec => []AckedIsDurable
  BY Invariance, InvImpliesDurable, PTL

(* AssembleFile returns whole files or says that it does not know the file *)
(* (chunk.go:172-189).                                                     *)
THEOREM AssembledFilesAreWhole == TrueHashes /\ Spec => []AssembledFileIsWhole
  BY Invariance, InvImpliesAssembled, PTL

-----------------------------------------------------------------------------
(* The refinement: a step of the storage is a step of the service, or none *)
(* that its clients can see.                                               *)

LEMMA AskedStep ==
  ASSUME Inv, NEW c \in Calls, NEW new, Become(c, new)
  PROVE  Asked' = [Asked EXCEPT ![c] = Question(new)]
<1>1. calls' = [calls EXCEPT ![c] = new] /\ DOMAIN calls = Calls
  BY DEF Become, Inv, CallsOK
<1>2. \A e \in Calls : calls'[e] = IF e = c THEN new ELSE calls[e]
  BY <1>1
<1>3. \A e \in Calls : Asked'[e] = IF e = c THEN Question(new) ELSE Asked[e]
  BY <1>2 DEF Asked
<1> QED
  BY <1>3 DEF Asked

LEMMA Unseen ==
  ASSUME Inv, NEW c \in Calls, NEW new, Become(c, new), UNCHANGED <<status, acked>>,
         Question(new) = Question(calls[c])
  PROVE  UNCHANGED Service!vars
<1>1. Asked' = Asked
  BY AskedStep DEF Asked
<1> QED
  BY <1>1 DEF Service!vars

(* A call that is none of the two questions. *)
LEMMA NotAsking ==
  ASSUME NEW q, q.op \notin {"hasChunk", "download"}
  PROVE  Question(q) = [state |-> "none", promised |-> FALSE]
  BY DEF Question

LEMMA StartIsSeen ==
  ASSUME Inv, NEW c \in Calls, Start(c)
  PROVE  [Service!Next]_Service!vars
<1> USE DEF history
<1>1. calls[c] \in CallStates /\ NoneOK(calls[c]) /\ status = "up"
  BY StepTellsOp DEF Inv, Start, StartUpload, StartRequest, At
<1>2. Question(calls[c]) = [state |-> "none", promised |-> FALSE]
  BY <1>1, NotAsking DEF NoneOK
<1>3. ASSUME NEW f \in UploadIDs, NEW n \in FileSizes, StartUpload(c, f, n)
      PROVE  UNCHANGED Service!vars
  <2> DEFINE new == [Idle EXCEPT !.op = "upload", !.pc = "split", !.file = f,
                                 !.total = n]
  <2>1. new.op = "upload"
    BY DEF Idle
  <2>2. Become(c, new) /\ UNCHANGED <<status, acked>>
    BY <1>3 DEF StartUpload
  <2>3. Question(new) = Question(calls[c])
    BY <1>2, <2>1, NotAsking
  <2> QED
    BY <2>2, <2>3, Unseen
<1>4. ASSUME NEW k \in Requested, NEW d \in ChunkData, NEW e \in {"whole"},
             NEW op \in {"receive", "hasChunk", "download", "assemble"},
             StartRequest(c, op, k, d, e)
      PROVE  [Service!Next]_Service!vars
  <2> DEFINE pc == CASE op = "receive"  -> "verify"
                     [] op = "hasChunk" -> "might"
                     [] op = "download" -> "lookup"
                     [] op = "assemble" -> "metadata"
             asks == op \in {"hasChunk", "download"}
             before == [acked |-> asks /\ k \in acked,
                        served |-> asks /\ Served(k)]
             new == [Idle EXCEPT !.op = op, !.pc = pc, !.file = k[1],
                                 !.index = k[2], !.data = d, !.expected = e,
                                 !.before = before]
  <2>1. Become(c, new) /\ UNCHANGED <<status, acked>>
    BY <1>4 DEF StartRequest
  <2>2. pc # "reply" /\ before.acked = (asks /\ k \in acked)
    OBVIOUS
  <2> HIDE DEF pc, before
  <2>3. new.op = op /\ new.pc = pc /\ new.before = before
    BY DEF Idle
  <2> HIDE DEF new
  <2>4. CASE asks
    <3>1. Question(new) = [state |-> "open", promised |-> k \in acked]
      BY <2>2, <2>3, <2>4 DEF Question
    <3>2. Asked[c] = Service!NoQuestion
      BY <1>2 DEF Asked, Service!NoQuestion
    <3>3. Asked' = [Asked EXCEPT ![c] = [state |-> "open", promised |-> k \in acked]]
      BY <2>1, <3>1, AskedStep
    <3>4. k \in Keys
      BY StorageAssumption
    <3>5. Service!Ask(c, k)
      BY <1>1, <2>1, <3>2, <3>3 DEF Service!Ask
    <3> QED
      BY <3>4, <3>5 DEF Service!Next
  <2>5. CASE ~ asks
    <3>1. Question(new) = Question(calls[c])
      BY <1>2, <2>3, <2>5, NotAsking
    <3> QED
      BY <2>1, <3>1, Unseen
  <2> QED
    BY <2>4, <2>5
<1>5. ExpectedHashes \subseteq {"whole"}
  BY DEF Inv, TrueHashes
<1> QED
  BY <1>3, <1>4, <1>5 DEF Start, ChunkData

(* A step of a question: to its next step, or to an answer, which the      *)
(* invariant says is the promised one.                                     *)
LEMMA QuestionIsSeen ==
  ASSUME Inv, Inv', NEW c \in Calls, NEW new, Become(c, new), status = "up",
         UNCHANGED <<status, acked>>, calls[c].pc # "reply",
         calls[c].op \in {"hasChunk", "download"},
         new.op = calls[c].op, new.before = calls[c].before
  PROVE  [Service!Next]_Service!vars
<1>1. calls'[c] = new /\ CallOK(new, InMemory', InFilter', OnDisk', acked', issued')
  BY DEF Become, Inv, CallsOK
<1>2. AskOK(new, acked') /\ new \in CallStates
  BY <1>1 DEF CallOK, NoneOK, UploadOK, ReceiveOK, AssembleOK
<1>3. CASE new.pc # "reply"
  BY <1>3, Unseen DEF Question
<1>4. CASE new.pc = "reply"
  <2> DEFINE a == IF new.reply \in {"confirmed", "whole"} THEN "found" ELSE "denied"
             p == calls[c].before.acked
  <2>1. Question(new) = [state |-> a, promised |-> p]
    BY <1>4 DEF Question
  <2>2. Asked[c] = [state |-> "open", promised |-> p]
    BY DEF Asked, Question
  <2>3. p => a = "found"
    BY <1>2, <1>4 DEF AskOK
  <2>4. a \in {"found", "denied"}
    OBVIOUS
  <2> HIDE DEF a, p
  <2>5. Asked' = [Asked EXCEPT ![c] = [state |-> a, promised |-> p]]
    BY <2>1, AskedStep
  <2>6. Asked' = [Asked EXCEPT ![c].state = a]
    <3>1. [Asked[c] EXCEPT !.state = a] = [state |-> a, promised |-> p]
      BY <2>2
    <3> QED
      BY <2>5, <3>1
  <2>7. Service!Answer(c, a)
    BY <2>2, <2>3, <2>6 DEF Service!Answer
  <2> QED
    BY <2>4, <2>7 DEF Service!Next
<1> QED
  BY <1>3, <1>4

(* A step of any other call changes at most what is acknowledged. *)
LEMMA OtherIsSeen ==
  ASSUME Inv, NEW c \in Calls, NEW new, Become(c, new), status = "up",
         UNCHANGED status, calls[c].op \notin {"hasChunk", "download"},
         new.op = calls[c].op,
         \/ UNCHANGED acked
         \/ \E S \in SUBSET Keys : acked' = acked \union S
  PROVE  [Service!Next]_Service!vars
<1>1. Question(new) = Question(calls[c])
  BY NotAsking
<1>2. CASE UNCHANGED acked
  BY <1>1, <1>2, Unseen
<1>3. ASSUME NEW S \in SUBSET Keys, acked' = acked \union S
      PROVE  Service!Next
  <2>1. Asked' = Asked
    BY <1>1, AskedStep DEF Asked
  <2>2. Service!Acknowledge(S)
    BY <1>3, <2>1 DEF Service!Acknowledge
  <2> QED
    BY <2>2 DEF Service!Next
<1> QED
  BY <1>2, <1>3

LEMMA ReturnIsSeen ==
  ASSUME Inv, NEW c \in Calls, Return(c)
  PROVE  [Service!Next]_Service!vars
<1>1. /\ Become(c, Idle) /\ status = "up" /\ UNCHANGED <<status, acked>>
      /\ calls[c].pc = "reply"
  BY DEF Return, At, history
<1>2. Question(Idle) = [state |-> "none", promised |-> FALSE]
  BY NotAsking DEF Idle
<1>3. CASE calls[c].op \in {"hasChunk", "download"}
  <2>1. Asked[c].state \in {"found", "denied"}
    BY <1>1, <1>3 DEF Asked, Question
  <2>2. Asked' = [Asked EXCEPT ![c] = Service!NoQuestion]
    BY <1>1, <1>2, AskedStep DEF Service!NoQuestion
  <2>3. Service!Done(c)
    BY <1>1, <2>1, <2>2 DEF Service!Done
  <2> QED
    BY <2>3 DEF Service!Next
<1>4. CASE calls[c].op \notin {"hasChunk", "download"}
  BY <1>1, <1>2, <1>4, NotAsking, Unseen
<1> QED
  BY <1>3, <1>4

LEMMA DieIsSeen ==
  ASSUME status = "up", status' # "up", Die
  PROVE  Service!Next
<1>1. Question(Idle) = Service!NoQuestion
  BY NotAsking DEF Idle, Service!NoQuestion
<1>2. Asked' = [c \in Calls |-> Service!NoQuestion]
  BY <1>1 DEF Die, AllIdle, Asked
<1>3. Service!End
  BY <1>2 DEF Die, Service!End
<1> QED
  BY <1>3 DEF Service!Next

(* The steps of the two questions. *)
LEMMA AskingIsSeen ==
  ASSUME Inv, Inv', NEW c \in Calls,
         MightHaveChunk(c) \/ ConfirmHasChunk(c) \/ LookUp(c) \/ ReadFromDisk(c),
         calls[c].op \in {"hasChunk", "download"}
  PROVE  [Service!Next]_Service!vars
<1> DEFINE q == calls[c]
<1>1. /\ q \in CallStates /\ q.pc # "reply"
      /\ status = "up" /\ UNCHANGED <<status, acked>>
  BY StepTellsOp DEF Inv, At, MightHaveChunk, ConfirmHasChunk, LookUp, ReadFromDisk,
                     history
<1>2. ASSUME NEW pc, GoTo(c, pc) PROVE [Service!Next]_Service!vars
  <2>1. Become(c, Gone(q, pc))
    BY <1>2 DEF GoTo, Become, Gone
  <2>2. Gone(q, pc).op = q.op /\ Gone(q, pc).before = q.before
    BY <1>1 DEF Gone, CallStates
  <2> QED
    BY <1>1, <2>1, <2>2, QuestionIsSeen
<1>3. ASSUME NEW r, Reply(c, r) PROVE [Service!Next]_Service!vars
  <2>1. Become(c, Replied(q, r))
    BY <1>3 DEF Reply, Become, Replied
  <2>2. Replied(q, r).op = q.op /\ Replied(q, r).before = q.before
    BY <1>1 DEF Replied, CallStates
  <2> QED
    BY <1>1, <2>1, <2>2, QuestionIsSeen
<1>4. CASE MightHaveChunk(c)
  BY <1>2, <1>3, <1>4 DEF MightHaveChunk
<1>5. CASE ConfirmHasChunk(c)
  BY <1>3, <1>5 DEF ConfirmHasChunk
<1>6. CASE LookUp(c) \/ ReadFromDisk(c)
  <2>1. q.op = "download"
    BY <1>1, <1>6, StepTellsOp DEF Inv, AskOK, AssembleOK, LookUp, ReadFromDisk, At
  <2>2. ASSUME NEW d, Got(c, d) PROVE Reply(c, d)
    BY <2>1, <2>2 DEF Got
  <2> QED
    BY <1>2, <1>3, <1>6, <2>2 DEF LookUp, ReadFromDisk
<1> QED
  BY <1>4, <1>5, <1>6

(* The steps of the other calls, as far as they end in GoTo or Reply. *)
LEMMA MovingIsSeen ==
  ASSUME Inv, NEW c \in Calls, status = "up", UNCHANGED status,
         calls[c].op \notin {"hasChunk", "download"},
         \/ UNCHANGED acked
         \/ \E S \in SUBSET Keys : acked' = acked \union S,
         (\E pc : GoTo(c, pc)) \/ (\E r : Reply(c, r))
  PROVE  [Service!Next]_Service!vars
<1> DEFINE q == calls[c]
<1>1. q \in CallStates
  BY DEF Inv, CallsOK
<1>2. ASSUME NEW pc, GoTo(c, pc) PROVE [Service!Next]_Service!vars
  <2>1. Become(c, Gone(q, pc))
    BY <1>2 DEF GoTo, Become, Gone
  <2>2. Gone(q, pc).op = q.op
    BY <1>1 DEF Gone, CallStates
  <2> QED
    BY <2>1, <2>2, OtherIsSeen
<1>3. ASSUME NEW r, Reply(c, r) PROVE [Service!Next]_Service!vars
  <2>1. Become(c, Replied(q, r))
    BY <1>3 DEF Reply, Become, Replied
  <2>2. Replied(q, r).op = q.op
    BY <1>1 DEF Replied, CallStates
  <2> QED
    BY <2>1, <2>2, OtherIsSeen
<1> QED
  BY <1>2, <1>3

LEMMA UploadIsSeen ==
  ASSUME Inv, NEW c \in Calls,
         \/ EnterSplitFile(c) \/ SplitNextChunk(c) \/ SplitDone(c) \/ BeginWrite(c)
         \/ FinishWrite(c) \/ WriteFails(c) \/ AddToBloom(c) \/ UploadReturns(c)
         \/ VerifyAndStore(c) \/ ReceiveReturns(c)
  PROVE  [Service!Next]_Service!vars
<1> USE DEF memory, history
<1> DEFINE q == calls[c]
<1>1. q \in CallStates /\ status = "up"
      /\ q.pc \in {"split", "chunk", "persist", "write", "add", "verify", "ack"}
  BY StepTellsOp DEF Inv, At, EnterSplitFile, SplitNextChunk, SplitDone, BeginWrite,
     FinishWrite, WriteFails, AddToBloom, UploadReturns, VerifyAndStore,
     ReceiveReturns
<1>2. q.op \notin {"hasChunk", "download"}
  BY <1>1, StepTellsOp DEF Inv, UploadOK, ReceiveOK
<1>3. CASE EnterSplitFile(c) \/ SplitNextChunk(c) \/ BeginWrite(c) \/ WriteFails(c)
             \/ VerifyAndStore(c)
  BY <1>1, <1>2, <1>3, MovingIsSeen
     DEF EnterSplitFile, SplitNextChunk, BeginWrite, WriteFails, VerifyAndStore
<1>4. CASE SplitDone(c)
  <2> DEFINE new == [q EXCEPT !.pc = "add", !.index = 0]
  <2>1. Become(c, new) /\ new.op = q.op /\ UNCHANGED <<status, acked>>
    BY <1>1, <1>4 DEF SplitDone, Become, CallStates
  <2> QED
    BY <1>1, <1>2, <2>1, OtherIsSeen
<1>5. CASE FinishWrite(c)
  <2> DEFINE new == [q EXCEPT !.pc = "chunk", !.index = @ + 1]
  <2>1. new.op = q.op /\ UNCHANGED <<status, acked>>
    BY <1>1, <1>5 DEF FinishWrite, CallStates
  <2>2. Become(c, new) \/ GoTo(c, "add")
    BY <1>5 DEF FinishWrite, Become
  <2> QED
    BY <1>1, <1>2, <2>1, <2>2, OtherIsSeen, MovingIsSeen
<1>6. CASE AddToBloom(c)
  <2> DEFINE new == [q EXCEPT !.index = @ + 1]
  <2>1. new.op = q.op /\ UNCHANGED <<status, acked>>
    BY <1>1, <1>6 DEF AddToBloom, CallStates
  <2>2. Become(c, new) \/ GoTo(c, "ack")
    BY <1>6 DEF AddToBloom, Become
  <2> QED
    BY <1>1, <1>2, <2>1, <2>2, OtherIsSeen, MovingIsSeen
<1>7. CASE UploadReturns(c)
  <2>1. CASE q.total = 0
    BY <1>1, <1>7, <2>1, DieIsSeen DEF UploadReturns
  <2>2. CASE q.total # 0
    <3>1. UploadOK(q, InMemory, InFilter, OnDisk, issued)
      BY <1>7, StepTellsOp DEF Inv, UploadReturns, At, ReceiveOK
    <3>2. ChunksOf(q.file, q.total) \in SUBSET Keys
      BY <3>1, ChunksAreKeys DEF UploadOK, Inv, StateOK
    <3>3. /\ Reply(c, "ok") /\ UNCHANGED status
          /\ acked' = acked \union ChunksOf(q.file, q.total)
      BY <1>7, <2>2 DEF UploadReturns, Acknowledge
    <3> QED
      BY <1>1, <1>2, <3>2, <3>3, MovingIsSeen
  <2> QED
    BY <2>1, <2>2
<1>8. CASE ReceiveReturns(c)
  <2>1. Key(c) \in Keys
    BY <1>8, StepTellsOp DEF Inv, ReceiveReturns, At, ReceiveOK, Key
  <2>2. /\ Reply(c, "ok") /\ UNCHANGED status /\ acked' = acked \union {Key(c)}
    BY <1>8 DEF ReceiveReturns, Acknowledge
  <2> QED
    BY <1>1, <1>2, <2>1, <2>2, MovingIsSeen
<1> QED
  BY <1>3, <1>4, <1>5, <1>6, <1>7, <1>8

LEMMA AssembleIsSeen ==
  ASSUME Inv, NEW c \in Calls, FindMetadata(c) \/ LookUp(c) \/ ReadFromDisk(c),
         calls[c].op \notin {"hasChunk", "download"}
  PROVE  [Service!Next]_Service!vars
<1> USE DEF history
<1> DEFINE q == calls[c]
<1>1. q \in CallStates /\ status = "up" /\ UNCHANGED <<status, acked>>
  BY StepTellsOp DEF Inv, At, FindMetadata, LookUp, ReadFromDisk
<1>2. CASE FindMetadata(c)
  <2> DEFINE n == files[q.file]
             new == [q EXCEPT !.pc = "lookup", !.index = 0, !.total = n]
  <2>1. n \in Int /\ (n = -1 \/ n = 0 \/ n > 0)
    <3>1. AssembleOK(q, InMemory)
      BY <1>2, StepTellsOp DEF Inv, FindMetadata, At
    <3>2. n \in FileSizes \union {-1}
      BY <3>1 DEF AssembleOK, Inv, StateOK
    <3> QED
      BY <3>2, StorageAssumption
  <2>2. \/ Reply(c, "unknown") \/ Reply(c, "whole")
        \/ calls' = [calls EXCEPT ![c].pc = "lookup", ![c].index = 0, ![c].total = n]
    BY <1>2, <2>1, Zenon DEF FindMetadata
  <2> HIDE DEF n
  <2>3. Reply(c, "unknown") \/ Reply(c, "whole") \/ Become(c, new)
    BY <2>2 DEF Become
  <2>4. new.op = q.op
    BY <1>1 DEF CallStates
  <2> HIDE DEF new
  <2> QED
    BY <1>1, <2>3, <2>4, OtherIsSeen, MovingIsSeen
<1>3. ASSUME NEW d, Got(c, d) PROVE [Service!Next]_Service!vars
  <2> DEFINE all == IF d = "torn" THEN "torn" ELSE q.data
             new == [q EXCEPT !.pc = "lookup", !.data = all, !.index = @ + 1]
  <2>1. (\E r : Reply(c, r)) \/ Become(c, new)
    BY <1>3 DEF Got, Become
  <2>2. new.op = q.op
    BY <1>1 DEF CallStates
  <2> HIDE DEF new
  <2> QED
    BY <1>1, <2>1, <2>2, OtherIsSeen, MovingIsSeen
<1>4. CASE LookUp(c) \/ ReadFromDisk(c)
  BY <1>1, <1>3, <1>4, MovingIsSeen DEF LookUp, ReadFromDisk
<1> QED
  BY <1>2, <1>4

LEMMA NextIsSeen ==
  ASSUME Inv, Inv', [Next]_vars
  PROVE  [Service!Next]_Service!vars
<1>1. ASSUME NEW c \in Calls, Step(c) PROVE [Service!Next]_Service!vars
  <2>1. MightHaveChunk(c) \/ ConfirmHasChunk(c) => calls[c].op = "hasChunk"
    BY StepTellsOp DEF Inv, MightHaveChunk, ConfirmHasChunk, At, AskOK
  <2>2. FindMetadata(c) => calls[c].op = "assemble"
    BY StepTellsOp DEF Inv, FindMetadata, At, AssembleOK
  <2> QED
    BY <1>1, <2>1, <2>2, UploadIsSeen, AskingIsSeen, AssembleIsSeen, ReturnIsSeen
       DEF Step
<1>2. CASE Crash
  BY <1>2, DieIsSeen DEF Crash
<1>3. CASE Restart
  <2>1. Asked' = Asked
    BY <1>3 DEF Restart, Asked
  <2>2. Service!Start
    BY <1>3, <2>1 DEF Restart, Service!Start, history
  <2> QED
    BY <2>2 DEF Service!Next
<1>4. CASE UNCHANGED vars
  <2>1. Asked' = Asked
    BY <1>4 DEF vars, Asked
  <2> QED
    BY <1>4, <2>1 DEF vars, history, Service!vars
<1> QED
  BY <1>1, <1>2, <1>3, <1>4, StartIsSeen DEF Next

LEMMA InitIsSeen == Init => Service!Init
<1>1. Question(Idle) = Service!NoQuestion
  BY NotAsking DEF Idle, Service!NoQuestion
<1> QED
  BY <1>1 DEF Init, AllIdle, Asked, Service!Init

(* The storage implements ChunkService: for any number of calls and files, *)
(* and through all failures, no call that begins after a chunk was         *)
(* acknowledged denies it while the process lives (manager.go:36-88,       *)
(* grpc_server.go:113-156).                                                *)
THEOREM StorageImplementsService == TrueHashes /\ Spec => ImplementsService
<1>1. Inv /\ Inv' /\ [Next]_vars => [Service!Next]_Service!vars
  BY NextIsSeen
<1> QED
  BY <1>1, Invariance, InitIsSeen, PTL DEF Spec, ImplementsService, Service!Spec

-----------------------------------------------------------------------------
(* A whole chunk file is touched only to be written again.  The argument:  *)
(* a fileID is drawn once, and no client knows it before UploadFile has    *)
(* returned; so the upload that drew it is the only writer of its chunks,  *)
(* and those that it has not come to are not on disk.                      *)

Writing == {"split", "chunk", "persist", "write"}

(* What holds of the files of one call. *)
Claim(q, d, p) ==
  /\ q.op = "receive" => q.file \in RemoteIDs \union p
  /\ q.op = "upload" /\ q.pc # "reply" => q.file \notin RemoteIDs \union p
  /\ q.op = "upload" /\ q.pc \in Writing =>
       \A i \in Indexes : i >= q.index => d[<<q.file, i>>] # "whole"

(* The invariant, on top of Inv. *)
Fresh ==
  /\ \A k \in Keys : k[1] \notin RemoteIDs \union issued => disk[k] # "whole"
  /\ \A c \in Calls : Claim(calls[c], disk, published)
  /\ \A c, e \in Calls :
       c # e /\ calls[c].op = "upload" /\ calls[e].op = "upload" =>
         calls[c].file # calls[e].file

(* A step of c goes on with the same call, and an upload that still writes *)
(* is at the same chunk.                                                   *)
Moved(c) ==
  \E new : /\ Become(c, new)
           /\ new.op = calls[c].op /\ new.file = calls[c].file
           /\ calls[c].pc # "reply"
           /\ new.op = "upload" /\ new.pc \in Writing =>
                calls[c].pc \in Writing /\ new.index = calls[c].index

LEMMA MovedKeepsFresh ==
  ASSUME Inv, Fresh, NEW c \in Calls, Moved(c), UNCHANGED <<issued, published>>,
         \A k \in Keys : disk'[k] = "whole" => disk[k] = "whole"
  PROVE  Fresh'
<1>1. PICK new : /\ Become(c, new)
                 /\ new.op = calls[c].op /\ new.file = calls[c].file
                 /\ calls[c].pc # "reply"
                 /\ new.op = "upload" /\ new.pc \in Writing =>
                      calls[c].pc \in Writing /\ new.index = calls[c].index
  BY DEF Moved
<1>2. calls'[c] = new /\ \A e \in Calls : e # c => calls'[e] = calls[e]
  BY <1>1 DEF Become, Inv, CallsOK
<1>3. ASSUME NEW e \in Calls, NEW i \in Indexes,
             calls[e].op = "upload", disk'[<<calls[e].file, i>>] = "whole"
      PROVE  disk[<<calls[e].file, i>>] = "whole"
  <2>1. calls[e].file \in issued
    BY <1>3 DEF Inv, CallsOK, CallOK, NoneOK, UploadOK, ReceiveOK, AskOK, AssembleOK
  <2>2. <<calls[e].file, i>> \in Keys
    BY <2>1 DEF Inv, StateOK, Keys, FileIDs
  <2> QED
    BY <1>3, <2>2
<1>4. ASSUME NEW e \in Calls PROVE Claim(calls'[e], disk', published')
  <2>1. Claim(calls[e], disk, published)
    BY DEF Fresh
  <2>2. Claim(calls[e], disk', published')
    BY <1>3, <2>1 DEF Claim
  <2>3. CASE e = c
    BY <1>1, <1>2, <2>2, <2>3 DEF Claim
  <2> QED
    BY <1>2, <2>2, <2>3
<1>5. ASSUME NEW a \in Calls, NEW e \in Calls, a # e,
             calls'[a].op = "upload", calls'[e].op = "upload"
      PROVE  calls'[a].file # calls'[e].file
  BY <1>1, <1>2, <1>5 DEF Fresh
<1>6. \A k \in Keys : k[1] \notin RemoteIDs \union issued' => disk'[k] # "whole"
  BY DEF Fresh
<1> QED
  BY <1>4, <1>5, <1>6 DEF Fresh

LEMMA GoToMoves ==
  ASSUME Inv, NEW c \in Calls, NEW pc, GoTo(c, pc), calls[c].pc # "reply",
         pc \in Writing /\ calls[c].op = "upload" => calls[c].pc \in Writing
  PROVE  Moved(c)
<1>1. Become(c, Gone(calls[c], pc))
  BY DEF GoTo, Become, Gone
<1>2. calls[c] \in CallStates
  BY DEF Inv, CallsOK
<1>3. /\ Gone(calls[c], pc).op = calls[c].op /\ Gone(calls[c], pc).file = calls[c].file
      /\ Gone(calls[c], pc).pc = pc /\ Gone(calls[c], pc).index = calls[c].index
  BY <1>2 DEF Gone, CallStates
<1> QED
  BY <1>1, <1>3 DEF Moved

LEMMA ReplyMoves ==
  ASSUME Inv, NEW c \in Calls, NEW r, Reply(c, r), calls[c].pc # "reply"
  PROVE  Moved(c)
<1> DEFINE new == Replied(calls[c], r)
<1>1. Become(c, new)
  BY DEF Reply, Become, Replied
<1>2. calls[c] \in CallStates
  BY DEF Inv, CallsOK
<1>3. new.op = calls[c].op /\ new.file = calls[c].file /\ new.pc = "reply"
  BY <1>2 DEF Replied, CallStates
<1> HIDE DEF new
<1> QED
  BY <1>1, <1>3 DEF Moved, Writing

(* The steps of the questions. *)
LEMMA AskingKeepsFresh ==
  ASSUME Inv, Fresh, NEW c \in Calls,
         \/ MightHaveChunk(c) \/ ConfirmHasChunk(c) \/ FindMetadata(c)
         \/ LookUp(c) \/ ReadFromDisk(c)
  PROVE  Fresh'
<1> DEFINE q == calls[c]
<1>1. /\ q \in CallStates /\ q.pc # "reply"
      /\ UNCHANGED <<disk, issued, published>>
  BY StepTellsOp DEF Inv, At, MightHaveChunk, ConfirmHasChunk, FindMetadata,
                     LookUp, ReadFromDisk
<1>2. q.op # "upload"
  BY StepTellsOp DEF Inv, At, MightHaveChunk, ConfirmHasChunk, FindMetadata,
                     LookUp, ReadFromDisk, AskOK, AssembleOK
<1>3. ASSUME NEW d, NEW i, NEW n, NEW w,
             \/ calls' = [calls EXCEPT ![c].pc = "lookup", ![c].index = i, ![c].total = n]
             \/ calls' = [calls EXCEPT ![c].pc = "lookup", ![c].data = w,
                                       ![c].index = @ + 1]
      PROVE  Moved(c)
  <2> DEFINE one == [q EXCEPT !.pc = "lookup", !.index = i, !.total = n]
             two == [q EXCEPT !.pc = "lookup", !.data = w, !.index = @ + 1]
  <2>1. Become(c, one) \/ Become(c, two)
    BY <1>3 DEF Become
  <2>2. one.op = q.op /\ one.file = q.file /\ two.op = q.op /\ two.file = q.file
    BY <1>1 DEF CallStates
  <2> HIDE DEF one, two
  <2> QED
    BY <1>1, <1>2, <2>1, <2>2 DEF Moved
<1>4. ASSUME NEW d, Got(c, d) PROVE Moved(c)
  BY <1>1, <1>3, <1>4, ReplyMoves DEF Got
<1>5. Moved(c)
  <2>1. CASE MightHaveChunk(c) \/ ConfirmHasChunk(c)
    BY <1>1, <1>2, <2>1, GoToMoves, ReplyMoves DEF MightHaveChunk, ConfirmHasChunk
  <2>2. CASE LookUp(c) \/ ReadFromDisk(c)
    BY <1>1, <1>2, <1>4, <2>2, GoToMoves DEF LookUp, ReadFromDisk
  <2>3. CASE FindMetadata(c)
    <3> DEFINE n == files[q.file]
    <3>1. n = -1 \/ n = 0 \/ n > 0
      <4>1. AssembleOK(q, InMemory)
        BY <2>3, StepTellsOp DEF Inv, FindMetadata, At
      <4>2. n \in FileSizes \union {-1}
        BY <4>1 DEF AssembleOK, Inv, StateOK
      <4> QED
        BY <4>2, StorageAssumption
    <3>2. \/ Reply(c, "unknown") \/ Reply(c, "whole")
          \/ calls' = [calls EXCEPT ![c].pc = "lookup", ![c].index = 0, ![c].total = n]
      BY <2>3, <3>1, Zenon DEF FindMetadata
    <3> HIDE DEF n
    <3> QED
      BY <1>1, <1>3, <3>2, ReplyMoves
  <2> QED
    BY <2>1, <2>2, <2>3
<1> QED
  BY <1>1, <1>5, MovedKeepsFresh

(* The steps of UploadFile and ReceiveChunk but for the two below. *)
LEMMA StoringKeepsFresh ==
  ASSUME Inv, Fresh, NEW c \in Calls,
         \/ EnterSplitFile(c) \/ SplitNextChunk(c) \/ SplitDone(c) \/ BeginWrite(c)
         \/ WriteFails(c) \/ AddToBloom(c) \/ VerifyAndStore(c) \/ ReceiveReturns(c)
  PROVE  Fresh'
<1> DEFINE q == calls[c]
<1>1. q \in CallStates /\ q.pc # "reply"
  BY StepTellsOp DEF Inv, At, EnterSplitFile, SplitNextChunk, SplitDone, BeginWrite,
     WriteFails, AddToBloom, VerifyAndStore, ReceiveReturns
<1>2. UNCHANGED <<issued, published>>
  BY DEF EnterSplitFile, SplitNextChunk, SplitDone, BeginWrite, WriteFails,
         AddToBloom, VerifyAndStore, ReceiveReturns
<1>3. \A k \in Keys : disk'[k] = "whole" => disk[k] = "whole"
  <2>1. CASE BeginWrite(c)
    BY <2>1 DEF BeginWrite, Inv, StateOK
  <2>2. CASE UNCHANGED disk
    BY <2>2
  <2> QED
    BY <2>1, <2>2 DEF EnterSplitFile, SplitNextChunk, SplitDone, WriteFails,
         AddToBloom, VerifyAndStore, ReceiveReturns
<1>4. Moved(c)
  <2>1. CASE EnterSplitFile(c) \/ SplitNextChunk(c) \/ BeginWrite(c)
    <3>1. q.pc \in Writing
      BY <2>1 DEF EnterSplitFile, SplitNextChunk, BeginWrite, At, Writing
    <3>2. \E pc : GoTo(c, pc)
      BY <2>1 DEF EnterSplitFile, SplitNextChunk, BeginWrite
    <3> QED
      BY <1>1, <3>1, <3>2, GoToMoves
  <2>2. CASE WriteFails(c) \/ ReceiveReturns(c)
    BY <1>1, <2>2, ReplyMoves DEF WriteFails, ReceiveReturns
  <2>3. CASE VerifyAndStore(c)
    <3>1. q.op # "upload"
      BY <2>3, StepTellsOp DEF Inv, VerifyAndStore, At, ReceiveOK
    <3> QED
      BY <1>1, <2>3, <3>1, GoToMoves, ReplyMoves DEF VerifyAndStore
  <2>4. CASE SplitDone(c)
    <3> DEFINE new == [q EXCEPT !.pc = "add", !.index = 0]
    <3>1. Become(c, new)
      BY <2>4 DEF SplitDone, Become
    <3>2. new.op = q.op /\ new.file = q.file /\ new.pc = "add"
      BY <1>1 DEF CallStates
    <3> HIDE DEF new
    <3> QED
      BY <1>1, <3>1, <3>2 DEF Moved, Writing
  <2>5. CASE AddToBloom(c)
    <3> DEFINE new == [q EXCEPT !.index = @ + 1]
    <3>1. Become(c, new) \/ GoTo(c, "ack")
      BY <2>5 DEF AddToBloom, Become
    <3>2. new.op = q.op /\ new.file = q.file /\ new.pc = "add"
      BY <1>1, <2>5 DEF CallStates, AddToBloom, At
    <3> HIDE DEF new
    <3> QED
      BY <1>1, <3>1, <3>2, GoToMoves DEF Moved, Writing
  <2> QED
    BY <2>1, <2>2, <2>3, <2>4, <2>5
<1> QED
  BY <1>2, <1>3, <1>4, MovedKeepsFresh

(* A chunk is whole on disk: the call that wrote it is past it, and is the *)
(* only one that might not be.                                             *)
LEMMA FinishWriteKeepsFresh ==
  ASSUME Inv, Fresh, NEW c \in Calls, FinishWrite(c)
  PROVE  Fresh'
<1> DEFINE q == calls[c]
<1>1. /\ q \in CallStates /\ q.pc = "write" /\ Key(c) \in Keys
      /\ \/ UploadOK(q, InMemory, InFilter, OnDisk, issued)
         \/ ReceiveOK(q, InMemory, InFilter, OnDisk)
  BY StepTellsOp, WriterKey DEF Inv, FinishWrite, At
<1>2. disk' = [disk EXCEPT ![Key(c)] = "whole"] /\ UNCHANGED <<issued, published>>
  BY <1>1, WriterKey DEF FinishWrite
<1>3. PICK new : /\ Become(c, new) /\ new.op = q.op /\ new.file = q.file
                 /\ q.op = "upload" => new.pc = "chunk" /\ new.index = q.index + 1
                 /\ q.op # "upload" => new.pc = "add"
  <2> DEFINE one == [q EXCEPT !.pc = "chunk", !.index = @ + 1]
  <2>1. one.op = q.op /\ one.file = q.file /\ one.pc = "chunk" /\ one.index = q.index + 1
    BY <1>1 DEF CallStates
  <2>2. q.op = "upload" => Become(c, one)
    BY DEF FinishWrite, Become
  <2>3. /\ Gone(q, "add").op = q.op /\ Gone(q, "add").file = q.file
        /\ Gone(q, "add").pc = "add"
    BY <1>1 DEF CallStates, Gone
  <2>4. q.op # "upload" => Become(c, Gone(q, "add"))
    BY DEF FinishWrite, GoTo, Become, Gone
  <2> HIDE DEF one
  <2> QED
    BY <2>1, <2>2, <2>3, <2>4
<1>4. calls'[c] = new /\ \A e \in Calls : e # c => calls'[e] = calls[e]
  BY <1>3 DEF Become, Inv, CallsOK
<1>5. q.file \in RemoteIDs \union issued
  BY <1>1 DEF UploadOK, ReceiveOK, Fresh, Claim, Inv, StateOK
<1>6. \A k \in Keys : k[1] \notin RemoteIDs \union issued' => disk'[k] # "whole"
  BY <1>2, <1>5 DEF Fresh, Key, Inv, StateOK
<1>7. ASSUME NEW e \in Calls, NEW i \in Indexes, calls[e].op = "upload",
             disk[<<calls[e].file, i>>] # "whole",
             <<calls[e].file, i>> # Key(c)
      PROVE  disk'[<<calls[e].file, i>>] # "whole"
  <2>1. calls[e].file \in issued
    BY <1>7 DEF Inv, CallsOK, CallOK, NoneOK, UploadOK, ReceiveOK, AskOK, AssembleOK
  <2>2. <<calls[e].file, i>> \in Keys
    BY <2>1 DEF Inv, StateOK, Keys, FileIDs
  <2> QED
    BY <1>2, <1>7, <2>2 DEF Inv, StateOK
<1>8. ASSUME NEW e \in Calls PROVE Claim(calls'[e], disk', published')
  <2>1. Claim(calls[e], disk, published) /\ Claim(q, disk, published)
    BY DEF Fresh
  <2>2. CASE e # c
    <3>1. ASSUME calls[e].op = "upload", calls[e].pc # "reply"
          PROVE  calls[e].file # q.file
      BY <1>1, <2>1, <2>2, <3>1 DEF Fresh, Claim, UploadOK, ReceiveOK
    <3> QED
      BY <1>2, <1>4, <1>7, <2>1, <2>2, <3>1 DEF Claim, Key, Writing
  <2>3. CASE e = c
    <3>1. q.index \in Nat /\ Indexes \subseteq Nat
      BY <1>1, StorageAssumption DEF CallStates
    <3>2. ASSUME q.op = "upload", NEW i \in Indexes, i >= q.index + 1
          PROVE  disk'[<<q.file, i>>] # "whole"
      <4>1. i >= q.index /\ i # q.index
        BY <3>1, <3>2
      <4>2. disk[<<q.file, i>>] # "whole"
        BY <1>1, <2>1, <3>2, <4>1 DEF Claim, Writing
      <4> QED
        BY <1>7, <3>2, <4>1, <4>2 DEF Key
    <3> QED
      BY <1>1, <1>2, <1>3, <1>4, <2>1, <2>3, <3>2 DEF Claim, Writing
  <2> QED
    BY <2>2, <2>3
<1>9. ASSUME NEW a \in Calls, NEW e \in Calls, a # e,
             calls'[a].op = "upload", calls'[e].op = "upload"
      PROVE  calls'[a].file # calls'[e].file
  BY <1>3, <1>4, <1>9 DEF Fresh
<1> QED
  BY <1>6, <1>8, <1>9 DEF Fresh

(* The process dies: no call is left. *)
LEMMA DieKeepsFresh ==
  ASSUME Fresh, Die
  PROVE  Fresh'
<1>1. /\ \A c \in Calls : calls'[c] = Idle
      /\ UNCHANGED <<disk, issued, published>>
  BY DEF Die, AllIdle
<1>2. \A d, p : Claim(Idle, d, p) /\ Idle.op = "none"
  BY DEF Claim, Idle
<1> QED
  BY <1>1, <1>2 DEF Fresh

(* A client learns a fileID: its upload no longer writes. *)
LEMMA UploadReturnsKeepsFresh ==
  ASSUME Inv, Fresh, NEW c \in Calls, UploadReturns(c)
  PROVE  Fresh'
<1> DEFINE q == calls[c]
           new == Replied(q, "ok")
<1>1. CASE q.total = 0
  BY <1>1, DieKeepsFresh DEF UploadReturns
<1>2. CASE q.total # 0
  <2>1. /\ q \in CallStates /\ q.op = "upload" /\ q.pc = "add"
        /\ published' = published \union {q.file} /\ UNCHANGED <<disk, issued>>
        /\ Become(c, new)
    BY <1>2, StepTellsOp DEF Inv, UploadReturns, At, Reply, Become, Replied
  <2>2. new.op = "upload" /\ new.file = q.file /\ new.pc = "reply"
    BY <2>1 DEF Replied, CallStates
  <2> HIDE DEF new
  <2>3. calls'[c] = new /\ \A e \in Calls : e # c => calls'[e] = calls[e]
    BY <2>1 DEF Become, Inv, CallsOK
  <2>4. ASSUME NEW e \in Calls PROVE Claim(calls'[e], disk', published')
    BY <2>1, <2>2, <2>3 DEF Claim, Fresh, Writing
  <2>5. ASSUME NEW a \in Calls, NEW e \in Calls, a # e,
               calls'[a].op = "upload", calls'[e].op = "upload"
        PROVE  calls'[a].file # calls'[e].file
    BY <2>1, <2>2, <2>3, <2>5 DEF Fresh
  <2> QED
    BY <2>1, <2>4, <2>5 DEF Fresh
<1> QED
  BY <1>1, <1>2

(* A call begins, or ends. *)
LEMMA StartKeepsFresh ==
  ASSUME Inv, Fresh, NEW c \in Calls, Start(c) \/ Return(c)
  PROVE  Fresh'
<1>1. ASSUME NEW new, Become(c, new), new.op # "upload", UNCHANGED <<disk, issued, published>>,
             new.op = "receive" => new.file \in RemoteIDs \union published
      PROVE  Fresh'
  <2>1. calls'[c] = new /\ \A e \in Calls : e # c => calls'[e] = calls[e]
    BY <1>1 DEF Become, Inv, CallsOK
  <2>2. Claim(new, disk', published')
    BY <1>1 DEF Claim
  <2> QED
    BY <1>1, <2>1, <2>2 DEF Fresh
<1>2. CASE Return(c)
  BY <1>1, <1>2 DEF Return, Idle
<1>3. ASSUME NEW op, NEW k \in Requested, NEW d, NEW x, StartRequest(c, op, k, d, x),
             op # "upload"
      PROVE  Fresh'
  <2>1. PICK pc, before :
          Become(c, [Idle EXCEPT !.op = op, !.pc = pc, !.file = k[1],
                                 !.index = k[2], !.data = d, !.expected = x,
                                 !.before = before])
    BY <1>3 DEF StartRequest
  <2> DEFINE new == [Idle EXCEPT !.op = op, !.pc = pc, !.file = k[1],
                                 !.index = k[2], !.data = d, !.expected = x,
                                 !.before = before]
  <2>2. new.op = op /\ new.file = k[1]
    BY DEF Idle
  <2>3. Become(c, new)
    BY <2>1
  <2> HIDE DEF new
  <2> QED
    BY <1>1, <1>3, <2>2, <2>3 DEF StartRequest
<1>4. ASSUME NEW f \in UploadIDs, NEW n \in FileSizes, StartUpload(c, f, n)
      PROVE  Fresh'
  <2> DEFINE new == [Idle EXCEPT !.op = "upload", !.pc = "split",
                                 !.file = f, !.total = n]
  <2>1. /\ Become(c, new) /\ f \notin issued /\ issued' = issued \union {f}
        /\ UNCHANGED <<disk, published>>
    BY <1>4 DEF StartUpload
  <2>2. new.op = "upload" /\ new.file = f
    BY DEF Idle
  <2> HIDE DEF new
  <2>3. calls'[c] = new /\ \A e \in Calls : e # c => calls'[e] = calls[e]
    BY <2>1 DEF Become, Inv, CallsOK
  <2>4. f \notin RemoteIDs \union published
    BY <2>1, StorageAssumption DEF Inv, StateOK
  <2>5. \A i \in Indexes : disk[<<f, i>>] # "whole"
    <3>1. \A i \in Indexes : <<f, i>> \in Keys
      BY DEF Keys, FileIDs
    <3> QED
      BY <2>1, <2>4, <3>1 DEF Fresh
  <2>6. Claim(new, disk', published')
    BY <2>1, <2>2, <2>4, <2>5 DEF Claim
  <2>7. ASSUME NEW e \in Calls, e # c, calls[e].op = "upload"
        PROVE  calls[e].file # f
    BY <2>1, <2>7 DEF Inv, CallsOK, CallOK, NoneOK, UploadOK, ReceiveOK, AskOK,
                      AssembleOK
  <2>8. ASSUME NEW a \in Calls, NEW e \in Calls, a # e,
               calls'[a].op = "upload", calls'[e].op = "upload"
        PROVE  calls'[a].file # calls'[e].file
    BY <2>2, <2>3, <2>7, <2>8 DEF Fresh
  <2> QED
    BY <2>1, <2>3, <2>6, <2>8 DEF Fresh
<1> QED
  BY <1>2, <1>3, <1>4 DEF Start

LEMMA InitIsFresh == Init => Fresh
<1> SUFFICES ASSUME Init PROVE Fresh
  OBVIOUS
<1>1. \A c \in Calls : calls[c] = Idle
  BY DEF Init, AllIdle
<1>2. \A d, p : Claim(Idle, d, p) /\ Idle.op = "none"
  BY DEF Claim, Idle
<1>3. \A k \in Keys : disk[k] = "none"
  BY DEF Init, NoChunks
<1> QED
  BY <1>1, <1>2, <1>3 DEF Fresh

LEMMA NextKeepsFresh == Inv /\ Fresh /\ [Next]_vars => Fresh'
<1> SUFFICES ASSUME Inv, Fresh, [Next]_vars PROVE Fresh'
  OBVIOUS
<1>1. CASE Restart \/ UNCHANGED vars
  BY <1>1 DEF Restart, vars, Fresh
<1>2. CASE Crash
  BY <1>2, DieKeepsFresh DEF Crash
<1>3. ASSUME NEW c \in Calls, Step(c) PROVE Fresh'
  BY <1>3, AskingKeepsFresh, StoringKeepsFresh, FinishWriteKeepsFresh,
     UploadReturnsKeepsFresh, StartKeepsFresh DEF Step
<1> QED
  BY <1>1, <1>2, <1>3, StartKeepsFresh DEF Next

OnlyRewritten ==
  \A k \in Keys : disk[k] = "whole" /\ disk'[k] # "whole" =>
    chunks[k] = "whole"
    /\ \E c \in Calls : Key(c) = k /\ calls[c].op = "receive"

(* Only BeginWrite takes a whole file away, and only of a receive. *)
LEMMA TouchedByReceive ==
  ASSUME Inv, Fresh, [Next]_vars, NEW k \in Keys,
         disk[k] = "whole", disk'[k] # "whole"
  PROVE  chunks[k] = "whole" /\ \E c \in Calls : Key(c) = k /\ calls[c].op = "receive"
<1>1. PICK c \in Calls : BeginWrite(c)
  <2>1. CASE \E c \in Calls : FinishWrite(c)
    <3>1. PICK c \in Calls : FinishWrite(c)
      BY <2>1
    <3>2. disk' = [disk EXCEPT ![Key(c)] = "whole"]
      BY <3>1, WriterKey DEF FinishWrite, At
    <3> QED
      BY <3>2 DEF Inv, StateOK
  <2>2. ASSUME NEW c \in Calls, Start(c) PROVE FALSE
    BY <2>2 DEF Start, StartUpload, StartRequest
  <2>3. ASSUME NEW c \in Calls, Step(c), ~ BeginWrite(c), ~ FinishWrite(c)
        PROVE  UNCHANGED disk
    BY <2>3 DEF Step, EnterSplitFile, SplitNextChunk, SplitDone, WriteFails,
       AddToBloom, UploadReturns, Die, VerifyAndStore, ReceiveReturns,
       MightHaveChunk, ConfirmHasChunk, FindMetadata, LookUp, ReadFromDisk, Return
  <2>4. Crash \/ Restart \/ UNCHANGED vars => UNCHANGED disk
    BY DEF Crash, Die, Restart, vars
  <2> QED
    BY <2>1, <2>2, <2>3, <2>4 DEF Next
<1>2. k = Key(c) /\ calls[c].pc = "persist"
  BY <1>1 DEF BeginWrite, At, Inv, StateOK
<1>3. \/ UploadOK(calls[c], InMemory, InFilter, OnDisk, issued)
      \/ ReceiveOK(calls[c], InMemory, InFilter, OnDisk)
  BY <1>2, StepTellsOp DEF Inv
<1>4. CASE UploadOK(calls[c], InMemory, InFilter, OnDisk, issued)
  <2>1. calls[c].index \in Indexes /\ calls[c].index >= calls[c].index
    <3>1. calls[c].index \in Nat
      BY <1>4, StorageAssumption DEF UploadOK
    <3> QED
      BY <1>2, <3>1 DEF Key, Keys
  <2> QED
    BY <1>2, <1>4, <2>1 DEF Fresh, Claim, UploadOK, Writing, Key
<1>5. CASE ReceiveOK(calls[c], InMemory, InFilter, OnDisk)
  BY <1>2, <1>5 DEF ReceiveOK, InMemory, Key
<1> QED
  BY <1>3, <1>4, <1>5

(* A step may touch a whole chunk file only to write again what memory     *)
(* holds already, in a repeated ReceiveChunk: an upload never finds a file *)
(* of its own there, for any number of calls, files and crashes            *)
(* (chunk.go:85-91, 151-162).                                              *)
THEOREM WholeFilesAreOnlyRewritten ==
  TrueHashes /\ Spec => WholeFileIsOnlyRewritten
<1>1. Inv /\ Fresh /\ [Next]_vars => [OnlyRewritten]_vars
  BY TouchedByReceive DEF OnlyRewritten
<1>2. TrueHashes /\ Spec => [][OnlyRewritten]_vars
  BY <1>1, Invariance, InitIsFresh, NextKeepsFresh, PTL DEF Spec
<1> QED
  BY <1>2 DEF OnlyRewritten, WholeFileIsOnlyRewritten
=============================================================================
