------------------------------- MODULE Bloom --------------------------------
(***************************************************************************)
(* The Bloom filters of internal/storage/bloom.go: concurrent calls of     *)
(* Add, Stats, Serialize (with GetBloomFilter and DeserializeBloomFilter,  *)
(* by which a filter is copied to another peer) and Merge.                 *)
(*                                                                         *)
(* A step of a call is one critical section of BloomFilter.mu.  Only Merge *)
(* holds a lock while it waits for another, so a filter is locked exactly  *)
(* when a Merge into it waits.  No reader keeps its lock for more than one *)
(* step, so it makes no difference that Go lets a waiting writer go before *)
(* new readers.                                                            *)
(***************************************************************************)
EXTENDS Integers, FiniteSets

CONSTANTS
  Threads,    \* the goroutines that may have a call in progress
  Filters,    \* the names of the filters, of all peers
  Keys,       \* the keys, as ChunkKey makes them of fileID and chunk index
  Hash1,      \* Hash1[k]: FNV-1a of k
  Hash2,      \* Hash2[k]: FNV-1 of k
  Word,       \* 2^32: uint32 arithmetic is modulo Word
  Sizes,      \* the pairs <<numBits, numHashes>> of NewBloomFilter
  MaxItems    \* bound: no Add begins on a filter that counts this many

(* optimalNumBits and optimalNumHashes are at least 1, for at least one    *)
(* item and a rate between 0 and 1 (manager.go:26: 10000 and 0.01).        *)
ASSUME BloomAssumption ==
  /\ Word \in Nat \ {0}
  /\ Hash1 \in [Keys -> 0 .. Word - 1] /\ Hash2 \in [Keys -> 0 .. Word - 1]
  /\ Sizes \subseteq (Nat \ {0}) \X (Nat \ {0})
  /\ MaxItems \in Nat

VARIABLES
  filters,  \* a map from names to the filters that exist
  calls     \* the call each goroutine has in progress

vars == <<filters, calls>>

-----------------------------------------------------------------------------
(* Mutant of NumBytes: rounded down. *)
WholeBytes(numBits) == numBits \div 8

(* The length of bitArray. *)
NumBytes(numBits) == (numBits + 7) \div 8

(* The 1 bit of setBit and getBit: the byte, and the bit in it. *)
BitAt(pos) == <<pos \div 8, pos % 8>>

(* combinedHash: both the product and the sum wrap around. *)
CombinedHash(k, i) == (Hash1[k] + ((i * Hash2[k]) % Word)) % Word

(* The bits that Add sets and MightContain tests for k. *)
BitsOf(numBits, numHashes, k) ==
  {BitAt(CombinedHash(k, i) % numBits) : i \in 0 .. numHashes - 1}

(* bitArray is the set of its 1 bits.  History: holds, the keys that were  *)
(* added to the filter, be it before it was copied or merged; merged, that *)
(* another filter was merged into it.                                      *)
NewBloomFilter(size) ==
  [numBits |-> size[1], numHashes |-> size[2], bitArray |-> {},
   itemCount |-> 0, holds |-> {}, merged |-> FALSE]

MightContain(bf, k) == BitsOf(bf.numBits, bf.numHashes, k) \subseteq bf.bitArray

WithItem(bf, k) ==
  [bf EXCEPT !.bitArray = @ \union BitsOf(bf.numBits, bf.numHashes, k),
             !.itemCount = @ + 1, !.holds = @ \union {k}]

(* Merge's loop over the bytes.  A caller may rely on the keys of both if  *)
(* it keeps to the comment: "same numBits and numHashes".                  *)
Union(bf, other) ==
  [bf EXCEPT !.bitArray = @ \union other.bitArray, !.merged = TRUE,
             !.holds = IF bf.numHashes = other.numHashes
                         THEN @ \union other.holds ELSE @]

(* Mutant of Copy: the count and the number of hashes are swapped, which   *)
(* the types int32, int32 allow.                                           *)
CopySwapped(bf) == [bf EXCEPT !.numHashes = bf.itemCount,
                              !.itemCount = bf.numHashes]

(* Mutant of Copy: the count is not transferred. *)
CopyUncounted(bf) == [bf EXCEPT !.itemCount = 0]

(* What DeserializeBloomFilter makes of the bytes and the three numbers    *)
(* that Serialize returned.                                                *)
Copy(bf) ==
  [numBits |-> bf.numBits, numHashes |-> bf.numHashes, bitArray |-> bf.bitArray,
   itemCount |-> bf.itemCount, holds |-> bf.holds, merged |-> bf.merged]

Put(f, k, v) == [j \in DOMAIN f \union {k} |-> IF j = k THEN v ELSE f[j]]

(* pc is the critical section that the call enters next; filter, its       *)
(* receiver; key or other, its argument; copy, what GetBloomFilter         *)
(* answered; count and rated, the two reads of itemCount by Stats; least   *)
(* is history: the itemCount when Stats was called.                        *)
Idle == [pc |-> "idle", filter |-> "none", key |-> "none", other |-> "none",
         copy |-> NewBloomFilter(<<1, 1>>), count |-> 0, rated |-> 0,
         least |-> 0]

Init == filters = << >> /\ calls = [t \in Threads |-> Idle]

(* Some Merge holds the lock of f. *)
Locked(f) ==
  \E t \in Threads : calls[t].pc = "merging" /\ calls[t].filter = f

Receiver(t) == filters[calls[t].filter]

At(t, pc) == calls[t].pc = pc
AtFree(t, pc) == At(t, pc) /\ ~ Locked(calls[t].filter)

Become(t, call) == calls' = [calls EXCEPT ![t] = call]
Change(t, bf) == filters' = Put(filters, calls[t].filter, bf)

-----------------------------------------------------------------------------
(* A peer starts: NewStorageManager makes its filter. *)
New(f, size) ==
  /\ f \notin DOMAIN filters
  /\ filters' = Put(filters, f, NewBloomFilter(size))
  /\ UNCHANGED calls

(* A goroutine calls a method of f. *)
Begin(t, call) ==
  /\ At(t, "idle")
  /\ Become(t, call)
  /\ UNCHANGED filters

StartAdd(t, f, k) ==
  /\ filters[f].itemCount < MaxItems
  /\ Begin(t, [Idle EXCEPT !.pc = "add", !.filter = f, !.key = k])

StartGetBloomFilter(t, f) ==
  Begin(t, [Idle EXCEPT !.pc = "serialize", !.filter = f])

StartStats(t, f) ==
  Begin(t, [Idle EXCEPT !.pc = "stats", !.filter = f,
                        !.least = filters[f].itemCount])

StartMerge(t, f, g) ==
  Begin(t, [Idle EXCEPT !.pc = "merge", !.filter = f, !.other = g])

Add(t) ==
  /\ AtFree(t, "add")
  /\ Change(t, WithItem(Receiver(t), calls[t].key))
  /\ Become(t, Idle)

Serialize(t) ==
  /\ AtFree(t, "serialize")
  /\ calls' = [calls EXCEPT ![t].pc = "response", ![t].copy = Receiver(t)]
  /\ UNCHANGED filters

(* The peer that asked makes a filter of the response ... *)
Deserialize(t, f) ==
  /\ At(t, "response")
  /\ f \notin DOMAIN filters
  /\ filters' = Put(filters, f, Copy(calls[t].copy))
  /\ Become(t, Idle)

(* ... or never gets it. *)
LoseResponse(t) ==
  /\ At(t, "response")
  /\ Become(t, Idle)
  /\ UNCHANGED filters

(* Stats reads itemCount in the literal it returns, without the lock, and  *)
(* calls EstimatedFalsePositiveRate in the same literal: Go leaves open    *)
(* which comes first.  The unlocked read races with Add, so it may find    *)
(* any count since the last one that the goroutine is sure to see: the one *)
(* at the call, or, after it has had the lock, the one it found then.      *)
ReadCount(t) ==
  /\ At(t, "stats") \/ At(t, "count")
  /\ LET rated == At(t, "count")
         seen == IF rated THEN calls[t].rated ELSE calls[t].least
     IN  \E n \in seen .. Receiver(t).itemCount :
           calls' = [calls EXCEPT ![t].pc = IF rated THEN "reply" ELSE "rate",
                                  ![t].count = n]
  /\ UNCHANGED filters

(* EstimatedFalsePositiveRate reads itemCount with the lock: the rate is a *)
(* function of this number.                                                *)
EstimateRate(t) ==
  /\ AtFree(t, "stats") \/ AtFree(t, "rate")
  /\ calls' = [calls EXCEPT ![t].pc = IF At(t, "stats") THEN "count" ELSE "reply",
                            ![t].rated = Receiver(t).itemCount]
  /\ UNCHANGED filters

(* The caller of Stats has its answer. *)
Return(t) ==
  /\ At(t, "reply")
  /\ Become(t, Idle)
  /\ UNCHANGED filters

(* Merge locks its receiver ... *)
LockReceiver(t) ==
  /\ AtFree(t, "merge")
  /\ calls' = [calls EXCEPT ![t].pc = "merging"]
  /\ UNCHANGED filters

(* Mutant of Merge: the early return leaves the receiver locked. *)
MergeKeepsLock(t) ==
  /\ At(t, "merging")
  /\ ~ Locked(calls[t].other)
  /\ Receiver(t).numBits = filters[calls[t].other].numBits
  /\ Change(t, Union(Receiver(t), filters[calls[t].other]))
  /\ Become(t, Idle)

(* Mutant of Merge: the count becomes that of the argument. *)
MergeSetsCount(t) ==
  /\ At(t, "merging")
  /\ ~ Locked(calls[t].other)
  /\ LET other == filters[calls[t].other]
     IN  IF Receiver(t).numBits = other.numBits
           THEN Change(t, [Union(Receiver(t), other)
                             EXCEPT !.itemCount = other.itemCount])
           ELSE UNCHANGED filters
  /\ Become(t, Idle)

(* ... then its argument, too, and unlocks both.  Sizes that differ are an *)
(* error.  A filter merged into itself waits for its own lock.             *)
Merge(t) ==
  /\ At(t, "merging")
  /\ ~ Locked(calls[t].other)
  /\ LET other == filters[calls[t].other]
     IN  IF Receiver(t).numBits = other.numBits
           THEN Change(t, Union(Receiver(t), other))
           ELSE UNCHANGED filters
  /\ Become(t, Idle)

Step(t) ==
  \/ Add(t) \/ Serialize(t) \/ LoseResponse(t)
  \/ \E f \in Filters : Deserialize(t, f)
  \/ ReadCount(t) \/ EstimateRate(t) \/ Return(t)
  \/ LockReceiver(t) \/ Merge(t)

Start(t, f) ==
  \/ \E k \in Keys : StartAdd(t, f, k)
  \/ StartGetBloomFilter(t, f)
  \/ StartStats(t, f)
  \/ \E g \in DOMAIN filters : StartMerge(t, f, g)

Next ==
  \/ \E f \in Filters, size \in Sizes : New(f, size)
  \/ \E t \in Threads : Step(t) \/ \E f \in DOMAIN filters : Start(t, f)

Spec == Init /\ [][Next]_vars

(* A goroutine that waits for a lock that is free again and again gets it: *)
(* sync.RWMutex lets no waiter starve.                                     *)
FairSpec == Spec /\ \A t \in Threads : SF_vars(Step(t))

-----------------------------------------------------------------------------
FilterStates ==
  [numBits : Nat \ {0}, numHashes : Nat \ {0}, bitArray : SUBSET (Nat \X (0 .. 7)),
   itemCount : Nat, holds : SUBSET Keys, merged : BOOLEAN]

(* setBit and getBit do not run past the end of bitArray. *)
FilterOK(bf) ==
  /\ bf \in FilterStates
  /\ \A bit \in bf.bitArray : bit[1] < NumBytes(bf.numBits)

CallStates ==
  [pc : {"idle", "add", "serialize", "response", "stats", "rate", "count",
         "reply", "merge", "merging"},
   filter : Filters \union {"none"}, key : Keys \union {"none"},
   other : Filters \union {"none"}, copy : FilterStates,
   count : Nat, rated : Nat, least : Nat]

(* Types of the filters, which include the bounds of bitArray (bloom.go    *)
(* :28, 100-110), and of the calls.                                        *)
TypeOK ==
  /\ DOMAIN filters \subseteq Filters
  /\ \A f \in DOMAIN filters : FilterOK(filters[f])
  /\ calls \in [Threads -> CallStates]
  /\ \A t \in Threads :
       /\ calls[t].pc # "idle" => calls[t].filter \in DOMAIN filters
       /\ calls[t].pc = "add" => calls[t].key \in Keys
       /\ calls[t].pc \in {"merge", "merging"} =>
            calls[t].other \in DOMAIN filters
       /\ FilterOK(calls[t].copy)

(* "False positives are possible; false negatives are NOT" (bloom.go:12):  *)
(* a filter answers yes of every key that was added to it, to the filter   *)
(* that it was copied from, or to one with as many hashes that was merged  *)
(* into it, whatever was serialized, lost or merged in between.            *)
NoFalseNegatives ==
  /\ \A f \in DOMAIN filters : \A k \in filters[f].holds :
       MightContain(filters[f], k)
  /\ \A t \in Threads : \A k \in calls[t].copy.holds :
       MightContain(calls[t].copy, k)

(* Unless the filter had another merged into it, itemCount counts all that *)
(* set its bits, on this peer or before it was copied: at most numHashes   *)
(* bits for each item (bloom.go:50-61, 128-146).  A Merge adds bits that   *)
(* nothing counts (bloom.go:160-163).                                      *)
CountCoversBits ==
  \A f \in DOMAIN filters : ~ filters[f].merged =>
    Cardinality(filters[f].bitArray)
      <= filters[f].numHashes * filters[f].itemCount

(* Stats reads the count twice, once without the lock and in either order, *)
(* so its two numbers may be of different moments; but both lie between    *)
(* the count at the call and the one now (bloom.go:112-125, 176-184).      *)
StatsAreOfTheCall ==
  \A t \in Threads : calls[t].pc = "reply" =>
    {calls[t].count, calls[t].rated}
      \subseteq calls[t].least .. Receiver(t).itemCount

(* Merges that wait for each other in a circle, or one for itself. *)
MergesInACircle ==
  \E T \in (SUBSET Threads) \ {{}} : \A t \in T :
    /\ calls[t].pc = "merging"
    /\ \E u \in T : calls[u].pc = "merging" /\ calls[t].other = calls[u].filter

(* Every call returns, unless filters are merged into each other in a      *)
(* circle at the same time (bloom.go:50-52, 129-130, 151-154).             *)
CallsReturn ==
  \A t \in Threads :
    calls[t].pc # "idle" ~> calls[t].pc = "idle" \/ MergesInACircle
=============================================================================
