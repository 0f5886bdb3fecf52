---------------------------- MODULE BloomProofs -----------------------------
(***************************************************************************)
(* Proofs about module Bloom: no filter ever denies a key that was added   *)
(* to it, its count covers its bits, and the numbers of Stats are of the   *)
(* time of its call, for any number of goroutines, filters and keys, all   *)
(* hash values and sizes.                                                  *)
(***************************************************************************)
EXTENDS Bloom, FiniteSetTheorems, TLAPS

(* The count of a filter is enough for its 1 bits, unless another filter   *)
(* was merged into it.                                                     *)
Covered(bf) ==
  /\ IsFiniteSet(bf.bitArray)
  /\ ~ bf.merged => Cardinality(bf.bitArray) <= bf.numHashes * bf.itemCount

(* The part of the invariant that is about one filter. *)
Sound(bf) ==
  /\ FilterOK(bf)
  /\ \A k \in bf.holds : MightContain(bf, k)
  /\ Covered(bf)

(* A hash modulo numBits is a bit of a byte that bitArray has              *)
(* (bloom.go:29, 57, 100-110).                                             *)
LEMMA BitInBounds ==
  ASSUME NEW n \in Nat \ {0}, NEW pos \in 0 .. n - 1
  PROVE  /\ BitAt(pos) \in Nat \X (0 .. 7)
         /\ BitAt(pos)[1] < NumBytes(n)
<1>1. pos \div 8 \in Nat /\ pos % 8 \in 0 .. 7
  OBVIOUS
<1>2. pos \div 8 < (n + 7) \div 8
  OBVIOUS
<1> QED
  BY <1>1, <1>2 DEF BitAt, NumBytes

(* The bits of a key are in bounds (bloom.go:55-58, 96-98). *)
LEMMA BitsInBounds ==
  ASSUME NEW n \in Nat \ {0}, NEW h \in Nat, NEW k \in Keys
  PROVE  \A bit \in BitsOf(n, h, k) :
           bit \in Nat \X (0 .. 7) /\ bit[1] < NumBytes(n)
<1> SUFFICES ASSUME NEW i \in 0 .. h - 1
             PROVE  LET bit == BitAt(CombinedHash(k, i) % n)
                    IN  bit \in Nat \X (0 .. 7) /\ bit[1] < NumBytes(n)
  BY DEF BitsOf
<1>1. (i * Hash2[k]) % Word \in Nat
  <2>1. i \in Nat /\ Hash2[k] \in Nat
    BY BloomAssumption
  <2>2. i * Hash2[k] \in Nat
    BY <2>1
  <2> QED
    BY <2>2, BloomAssumption
<1>2. CombinedHash(k, i) \in Nat
  <2>1. Hash1[k] + ((i * Hash2[k]) % Word) \in Nat
    BY <1>1, BloomAssumption
  <2> QED
    BY <2>1, BloomAssumption DEF CombinedHash
<1>3. CombinedHash(k, i) % n \in 0 .. n - 1
  BY <1>2
<1> QED
  BY <1>3, BitInBounds

(* Add sets at most numHashes bits (bloom.go:55-58). *)
LEMMA BitsOfKey ==
  ASSUME NEW n, NEW h \in Nat, NEW k
  PROVE  /\ IsFiniteSet(BitsOf(n, h, k))
         /\ Cardinality(BitsOf(n, h, k)) <= h
<1> DEFINE I == 0 .. h - 1
           bit == [i \in I |-> BitAt(CombinedHash(k, i) % n)]
<1>1. IsFiniteSet(I) /\ Cardinality(I) = h
  <2>1. Cardinality(I) = IF 0 > h - 1 THEN 0 ELSE (h - 1) - 0 + 1
    BY FS_Interval
  <2> QED
    BY <2>1, FS_Interval
<1>2. bit \in Surjection(I, BitsOf(n, h, k))
  BY DEF Surjection, BitsOf
<1> QED
  BY <1>1, <1>2, FS_Surjection

-----------------------------------------------------------------------------
(* Each of the four ways to make a filter makes a sound one: a new one ... *)
LEMMA NewIsSound ==
  ASSUME NEW size \in Sizes
  PROVE  Sound(NewBloomFilter(size))
<1>1. size[1] \in Nat \ {0} /\ size[2] \in Nat \ {0}
  BY BloomAssumption
<1>2. NewBloomFilter(size) \in FilterStates
  BY <1>1 DEF NewBloomFilter, FilterStates
<1>3. Covered(NewBloomFilter(size))
  BY <1>1, FS_EmptySet DEF NewBloomFilter, Covered
<1> QED
  BY <1>2, <1>3 DEF NewBloomFilter, Sound, FilterOK

(* ... one with one more item (bloom.go:51-61) ... *)
LEMMA ItemIsSound ==
  ASSUME NEW bf, Sound(bf), NEW k \in Keys
  PROVE  Sound(WithItem(bf, k))
<1> DEFINE new == WithItem(bf, k)
           B == BitsOf(bf.numBits, bf.numHashes, k)
<1>1. bf \in FilterStates
  BY DEF Sound, FilterOK
<1>2. /\ new.numBits = bf.numBits /\ new.numHashes = bf.numHashes
      /\ new.bitArray = bf.bitArray \union B
      /\ new.itemCount = bf.itemCount + 1
      /\ new.holds = bf.holds \union {k} /\ new.merged = bf.merged
  BY <1>1 DEF WithItem, FilterStates
<1>3. \A bit \in B : bit \in Nat \X (0 .. 7) /\ bit[1] < NumBytes(bf.numBits)
  BY <1>1, BitsInBounds DEF FilterStates
<1>4. new \in FilterStates
  <2>1. /\ bf.bitArray \union B \in SUBSET (Nat \X (0 .. 7))
        /\ bf.itemCount + 1 \in Nat /\ bf.holds \union {k} \in SUBSET Keys
    BY <1>1, <1>3 DEF FilterStates
  <2> HIDE DEF B
  <2> QED
    BY <1>1, <2>1 DEF WithItem, FilterStates, B
<1>5. FilterOK(new)
  BY <1>2, <1>3, <1>4 DEF Sound, FilterOK
<1>6. \A j \in new.holds : MightContain(new, j)
  BY <1>2 DEF Sound, MightContain
<1>7. Covered(new)
  <2>1. /\ bf.numHashes \in Nat /\ bf.itemCount \in Nat
        /\ IsFiniteSet(bf.bitArray)
    BY <1>1 DEF FilterStates, Sound, Covered
  <2>2. IsFiniteSet(B) /\ Cardinality(B) <= bf.numHashes
    BY <2>1, BitsOfKey
  <2>3. /\ IsFiniteSet(bf.bitArray \union B)
        /\ Cardinality(bf.bitArray \union B)
             <= Cardinality(bf.bitArray) + Cardinality(B)
    <3> HIDE DEF B
    <3>1. Cardinality(bf.bitArray \intersect B) \in Nat
      BY <2>1, FS_Intersection, FS_CardinalityType
    <3>2. /\ IsFiniteSet(bf.bitArray \union B)
          /\ Cardinality(bf.bitArray \union B)
               = Cardinality(bf.bitArray) + Cardinality(B)
                   - Cardinality(bf.bitArray \intersect B)
      BY <2>1, <2>2, FS_Union
    <3> QED
      BY <2>1, <2>2, <3>1, <3>2, FS_CardinalityType
  <2>4. ASSUME ~ bf.merged
        PROVE  Cardinality(bf.bitArray \union B)
                 <= bf.numHashes * (bf.itemCount + 1)
    <3>1. Cardinality(bf.bitArray) <= bf.numHashes * bf.itemCount
      BY <2>4 DEF Sound, Covered
    <3>2. bf.numHashes * (bf.itemCount + 1)
            = bf.numHashes * bf.itemCount + bf.numHashes
      <4>1. \A h, c \in Nat : h * (c + 1) = h * c + h
        OBVIOUS
      <4> QED
        BY <2>1, <4>1
    <3>3. /\ Cardinality(bf.bitArray) \in Nat /\ Cardinality(B) \in Nat
          /\ Cardinality(bf.bitArray \union B) \in Nat
          /\ bf.numHashes * bf.itemCount \in Nat
      BY <2>1, <2>2, <2>3, FS_CardinalityType
    <3> HIDE DEF B
    <3> QED
      BY <2>1, <2>2, <2>3, <3>1, <3>2, <3>3
  <2> HIDE DEF B, new
  <2> QED
    BY <1>2, <2>3, <2>4 DEF Covered
<1> QED
  BY <1>5, <1>6, <1>7 DEF Sound

(* ... a union of two of one size (bloom.go:156-164) ... *)
LEMMA UnionIsSound ==
  ASSUME NEW bf, Sound(bf), NEW other, Sound(other),
         bf.numBits = other.numBits
  PROVE  Sound(Union(bf, other))
<1> DEFINE new == Union(bf, other)
           more == IF bf.numHashes = other.numHashes
                     THEN bf.holds \union other.holds ELSE bf.holds
<1>1. bf \in FilterStates /\ other \in FilterStates
  BY DEF Sound, FilterOK
<1>2. /\ new.numBits = bf.numBits /\ new.numHashes = bf.numHashes
      /\ new.bitArray = bf.bitArray \union other.bitArray
      /\ new.holds = more /\ new.merged = TRUE
  BY <1>1 DEF Union, FilterStates
<1>3. more \in SUBSET Keys
  BY <1>1 DEF FilterStates
<1>4. new \in FilterStates
  BY <1>1, <1>3 DEF Union, FilterStates
<1>5. FilterOK(new)
  BY <1>2, <1>4 DEF Sound, FilterOK
<1>6. \A k \in new.holds : MightContain(new, k)
  BY <1>2 DEF Sound, MightContain
<1>7. Covered(new)
  BY <1>2, FS_Union DEF Sound, Covered
<1> QED
  BY <1>5, <1>6, <1>7 DEF Sound

(* ... and a copy (bloom.go:128-146). *)
LEMMA CopyIsSound ==
  ASSUME NEW bf, Sound(bf)
  PROVE  Sound(Copy(bf))
<1>1. bf \in FilterStates
  BY DEF Sound, FilterOK
<1>2. Copy(bf) = bf
  BY <1>1 DEF Copy, FilterStates
<1> QED
  BY <1>2

-----------------------------------------------------------------------------
(* The inductive invariant, in its two parts. *)
FiltersOK(fs) == DOMAIN fs \subseteq Filters
                   /\ \A f \in DOMAIN fs : Sound(fs[f])

(* What Stats has read so far lies between the count at its call and the   *)
(* one now.                                                                *)
StatsOK(call, now) ==
  /\ call.pc = "stats" => call.least <= now
  /\ call.pc \in {"rate", "reply"} => call.least <= call.count /\ call.count <= now
  /\ call.pc \in {"count", "reply"} => call.least <= call.rated /\ call.rated <= now

CallOK(fs, call) ==
  /\ call \in CallStates
  /\ call.pc # "idle" => call.filter \in DOMAIN fs
  /\ call.pc = "add" => call.key \in Keys
  /\ call.pc \in {"merge", "merging"} => call.other \in DOMAIN fs
  /\ Sound(call.copy)
  /\ StatsOK(call, fs[call.filter].itemCount)

Inv ==
  /\ FiltersOK(filters)
  /\ calls \in [Threads -> CallStates]
  /\ \A t \in Threads : CallOK(filters, calls[t])

LEMMA InvImpliesProperties ==
  Inv => TypeOK /\ NoFalseNegatives /\ CountCoversBits /\ StatsAreOfTheCall
<1> SUFFICES ASSUME Inv
             PROVE  TypeOK /\ NoFalseNegatives /\ CountCoversBits /\ StatsAreOfTheCall
  OBVIOUS
<1>1. TypeOK /\ NoFalseNegatives
  BY DEF Inv, FiltersOK, CallOK, Sound, TypeOK, NoFalseNegatives
<1>2. CountCoversBits
  BY DEF Inv, FiltersOK, Sound, Covered, CountCoversBits
<1>3. StatsAreOfTheCall
  <2> SUFFICES ASSUME NEW t \in Threads, calls[t].pc = "reply"
               PROVE  {calls[t].count, calls[t].rated}
                        \subseteq calls[t].least .. Receiver(t).itemCount
    BY DEF StatsAreOfTheCall
  <2>1. /\ calls[t].least \in Int /\ calls[t].count \in Int
        /\ calls[t].rated \in Int /\ Receiver(t).itemCount \in Int
    BY DEF Inv, CallOK, CallStates, FiltersOK, Receiver, Sound, FilterOK, FilterStates
  <2>2. /\ calls[t].least <= calls[t].count
        /\ calls[t].count <= Receiver(t).itemCount
        /\ calls[t].least <= calls[t].rated
        /\ calls[t].rated <= Receiver(t).itemCount
    BY DEF Inv, CallOK, StatsOK, Receiver
  <2> QED
    BY <2>1, <2>2
<1> QED
  BY <1>1, <1>2, <1>3

(* bf is sound and counts no less than the filter f that it replaces. *)
Follows(fs, f, bf) ==
  Sound(bf) /\ (f \in DOMAIN fs => fs[f].itemCount <= bf.itemCount)

(* A filter that is made, or changed so that it counts no less, leaves the *)
(* others, and all calls, as they were.                                    *)
LEMMA PutKeepsInv ==
  ASSUME NEW fs, FiltersOK(fs), NEW f \in Filters, NEW bf, Follows(fs, f, bf)
  PROVE  /\ FiltersOK(Put(fs, f, bf))
         /\ \A call : CallOK(fs, call) => CallOK(Put(fs, f, bf), call)
<1>1. FiltersOK(Put(fs, f, bf))
  BY DEF FiltersOK, Put, Follows
<1>2. ASSUME NEW call, CallOK(fs, call) PROVE CallOK(Put(fs, f, bf), call)
  <2> DEFINE new == Put(fs, f, bf)
  <2>1. DOMAIN fs \subseteq DOMAIN new
    BY DEF Put
  <2>2. StatsOK(call, new[call.filter].itemCount)
    <3>1. CASE call.pc = "idle"
      BY <3>1 DEF StatsOK
    <3>2. CASE call.filter \in DOMAIN fs
      <4>1. /\ call.least \in Int /\ call.count \in Int /\ call.rated \in Int
            /\ fs[call.filter].itemCount \in Int
            /\ bf.itemCount \in Int
        BY <1>2, <3>2 DEF CallOK, CallStates, FiltersOK, Follows, Sound, FilterOK,
                          FilterStates
      <4>2. new[call.filter].itemCount \in Int
              /\ fs[call.filter].itemCount <= new[call.filter].itemCount
        BY <3>2, <4>1 DEF Put, Follows
      <4>3. StatsOK(call, fs[call.filter].itemCount)
        BY <1>2 DEF CallOK
      <4> HIDE DEF new
      <4> QED
        BY <4>1, <4>2, <4>3 DEF StatsOK
    <3> QED
      BY <1>2, <3>1, <3>2 DEF CallOK
  <2> HIDE DEF new
  <2>3. CallOK(fs, call) => CallOK(new, call)
    BY <2>1, <2>2 DEF CallOK
  <2> QED
    BY <1>2, <2>3 DEF new
<1> QED
  BY <1>1, <1>2

(* An idle call is in order. *)
LEMMA IdleIsOK == \A fs : CallOK(fs, Idle)
<1>1. NewBloomFilter(<<1, 1>>) \in FilterStates
  BY DEF NewBloomFilter, FilterStates
<1>2. Sound(NewBloomFilter(<<1, 1>>))
  <2>1. Covered(NewBloomFilter(<<1, 1>>))
    BY FS_EmptySet DEF NewBloomFilter, Covered
  <2> QED
    BY <1>1, <2>1 DEF NewBloomFilter, Sound, FilterOK
<1>3. Idle \in CallStates
  BY <1>1 DEF Idle, CallStates
<1> QED
  BY <1>2, <1>3 DEF CallOK, Idle, StatsOK

(* A step that gives t the call new and leaves the filters, or changes one *)
(* as Follows says, preserves the invariant.                               *)
LEMMA StepKeepsInv ==
  ASSUME Inv, NEW t \in Threads, NEW new,
         Become(t, new),
         \/ UNCHANGED filters
         \/ \E f \in Filters : \E bf : Follows(filters, f, bf)
                                  /\ filters' = Put(filters, f, bf),
         CallOK(filters, new)
  PROVE  Inv'
<1>1. FiltersOK(filters') /\ \A call : CallOK(filters, call) => CallOK(filters', call)
  <2>1. CASE UNCHANGED filters
    BY <2>1 DEF Inv
  <2>2. CASE \E f \in Filters : \E bf : Follows(filters, f, bf)
                                  /\ filters' = Put(filters, f, bf)
    BY <2>2, PutKeepsInv DEF Inv
  <2> QED
    BY <2>1, <2>2
<1>2. /\ calls' \in [Threads -> CallStates]
      /\ \A u \in Threads : CallOK(filters, calls'[u])
  BY DEF Inv, Become, CallOK
<1> QED
  BY <1>1, <1>2 DEF Inv

-----------------------------------------------------------------------------
(* One lemma per action, except for the starts of calls. *)

LEMMA StartStep ==
  ASSUME Inv, NEW t \in Threads, NEW f \in DOMAIN filters, Start(t, f)
  PROVE  Inv'
<1>1. f \in Filters /\ filters[f].itemCount \in Nat
  BY DEF Inv, FiltersOK, Sound, FilterOK, FilterStates
<1>2. CallOK(filters, Idle)
  BY IdleIsOK
<1>3. ASSUME NEW k \in Keys, StartAdd(t, f, k) PROVE Inv'
  <2> DEFINE new == [Idle EXCEPT !.pc = "add", !.filter = f, !.key = k]
  <2>1. CallOK(filters, new)
    BY <1>1, <1>2 DEF CallOK, Idle, CallStates, StatsOK
  <2> QED
    BY <1>3, <2>1, StepKeepsInv DEF StartAdd, Begin
<1>4. ASSUME StartGetBloomFilter(t, f) PROVE Inv'
  <2> DEFINE new == [Idle EXCEPT !.pc = "serialize", !.filter = f]
  <2>1. CallOK(filters, new)
    BY <1>1, <1>2 DEF CallOK, Idle, CallStates, StatsOK
  <2> QED
    BY <1>4, <2>1, StepKeepsInv DEF StartGetBloomFilter, Begin
<1>5. ASSUME StartStats(t, f) PROVE Inv'
  <2> DEFINE new == [Idle EXCEPT !.pc = "stats", !.filter = f,
                                 !.least = filters[f].itemCount]
  <2>1. StatsOK(new, filters[f].itemCount)
    <3>1. new.pc = "stats" /\ new.least = filters[f].itemCount
      BY DEF Idle
    <3> HIDE DEF new
    <3> QED
      BY <1>1, <3>1 DEF StatsOK
  <2>2. new.filter = f
    BY DEF Idle
  <2>3. new \in CallStates /\ new.pc = "stats" /\ Sound(new.copy)
    BY <1>1, <1>2 DEF CallOK, Idle, CallStates
  <2> HIDE DEF new
  <2>4. CallOK(filters, new)
    BY <2>1, <2>2, <2>3 DEF CallOK
  <2> USE DEF new
  <2> QED
    BY <1>5, <2>4, StepKeepsInv DEF StartStats, Begin
<1>6. ASSUME NEW g \in DOMAIN filters, StartMerge(t, f, g) PROVE Inv'
  <2> DEFINE new == [Idle EXCEPT !.pc = "merge", !.filter = f, !.other = g]
  <2>1. CallOK(filters, new)
    BY <1>1, <1>2 DEF CallOK, Idle, CallStates, StatsOK, Inv, FiltersOK
  <2> QED
    BY <1>6, <2>1, StepKeepsInv DEF StartMerge, Begin
<1> QED
  BY <1>3, <1>4, <1>5, <1>6 DEF Start

LEMMA NewStep ==
  ASSUME Inv, NEW f \in Filters, NEW size \in Sizes, New(f, size)
  PROVE  Inv'
<1>1. Follows(filters, f, NewBloomFilter(size))
  BY NewIsSound DEF New, Follows
<1> QED
  BY <1>1, PutKeepsInv DEF Inv, New

LEMMA AddStep ==
  ASSUME Inv, NEW t \in Threads, Add(t)
  PROVE  Inv'
<1>1. calls[t].filter \in Filters /\ Sound(Receiver(t)) /\ calls[t].key \in Keys
  BY DEF Inv, FiltersOK, CallOK, Add, AtFree, At, Receiver
<1>2. Follows(filters, calls[t].filter, WithItem(Receiver(t), calls[t].key))
  <2>1. Receiver(t) \in FilterStates
    BY <1>1 DEF Sound, FilterOK
  <2>2. WithItem(Receiver(t), calls[t].key).itemCount = Receiver(t).itemCount + 1
    BY <2>1 DEF WithItem, FilterStates
  <2>3. Receiver(t).itemCount <= Receiver(t).itemCount + 1
    BY <2>1 DEF FilterStates
  <2>4. Sound(WithItem(Receiver(t), calls[t].key))
    BY <1>1, ItemIsSound
  <2> QED
    BY <2>2, <2>3, <2>4 DEF Follows, Receiver
<1> QED
  BY <1>1, <1>2, IdleIsOK, StepKeepsInv DEF Add, Change

LEMMA MergeStep ==
  ASSUME Inv, NEW t \in Threads, Merge(t)
  PROVE  Inv'
<1> DEFINE other == filters[calls[t].other]
<1>1. calls[t].filter \in Filters /\ Sound(Receiver(t)) /\ Sound(other)
  BY DEF Inv, FiltersOK, CallOK, Merge, At, Receiver
<1>2. CASE Receiver(t).numBits = other.numBits
  <2>1. Follows(filters, calls[t].filter, Union(Receiver(t), other))
    <3>1. Receiver(t) \in FilterStates
      BY <1>1 DEF Sound, FilterOK
    <3>2. Union(Receiver(t), other).itemCount = Receiver(t).itemCount
      BY <3>1 DEF Union, FilterStates
    <3>3. Receiver(t).itemCount <= Receiver(t).itemCount
      BY <3>1 DEF FilterStates
    <3>4. Sound(Union(Receiver(t), other))
      BY <1>1, <1>2, UnionIsSound
    <3> QED
      BY <3>2, <3>3, <3>4 DEF Follows, Receiver
  <2> QED
    BY <1>1, <1>2, <2>1, IdleIsOK, StepKeepsInv DEF Merge, Change
<1>3. CASE Receiver(t).numBits # other.numBits
  BY <1>3, IdleIsOK, StepKeepsInv DEF Merge
<1> QED
  BY <1>2, <1>3

LEMMA DeserializeStep ==
  ASSUME Inv, NEW t \in Threads, NEW f \in Filters, Deserialize(t, f)
  PROVE  Inv'
<1>1. Follows(filters, f, Copy(calls[t].copy))
  BY CopyIsSound DEF Inv, CallOK, Deserialize, Follows
<1> QED
  BY <1>1, IdleIsOK, StepKeepsInv DEF Deserialize

(* The steps that change their call only. *)
LEMMA LocalStep ==
  ASSUME Inv, NEW t \in Threads,
         \/ Serialize(t) \/ LoseResponse(t) \/ ReadCount(t) \/ EstimateRate(t)
         \/ Return(t) \/ LockReceiver(t)
  PROVE  Inv'
<1>1. CallOK(filters, calls[t])
  BY DEF Inv
<1>2. ASSUME calls[t].pc # "idle"
      PROVE  Sound(Receiver(t)) /\ Receiver(t) \in FilterStates
               /\ Receiver(t).itemCount \in Nat
  BY <1>1, <1>2 DEF Inv, CallOK, FiltersOK, Receiver, Sound, FilterOK, FilterStates
<1>3. ASSUME LoseResponse(t) \/ Return(t) PROVE Inv'
  BY <1>3, IdleIsOK, StepKeepsInv DEF LoseResponse, Return
<1>4. ASSUME Serialize(t) PROVE Inv'
  <2> DEFINE new == [calls[t] EXCEPT !.pc = "response", !.copy = Receiver(t)]
  <2>1. CallOK(filters, new)
    BY <1>1, <1>2, <1>4 DEF Serialize, AtFree, At, CallOK, CallStates, StatsOK
  <2> QED
    BY <1>4, <2>1, StepKeepsInv DEF Serialize, Become
<1>5. ASSUME ReadCount(t) PROVE Inv'
  <2> DEFINE rated == At(t, "count")
             seen == IF rated THEN calls[t].rated ELSE calls[t].least
  <2>1. calls[t].pc \in {"stats", "count"} /\ (rated <=> calls[t].pc = "count")
    BY <1>5 DEF ReadCount, At
  <2>2. /\ calls[t].least \in Nat /\ calls[t].rated \in Nat
        /\ Receiver(t).itemCount \in Nat /\ calls[t].least <= seen
        /\ calls[t].pc = "count" => calls[t].rated <= Receiver(t).itemCount
    BY <1>1, <1>2, <2>1 DEF CallOK, CallStates, StatsOK, Receiver
  <2>3. PICK n \in seen .. Receiver(t).itemCount :
          calls' = [calls EXCEPT ![t].pc = IF rated THEN "reply" ELSE "rate",
                                 ![t].count = n]
    BY <1>5 DEF ReadCount
  <2>4. n \in Nat /\ calls[t].least <= n /\ n <= Receiver(t).itemCount
    BY <2>2, <2>3
  <2> DEFINE new == [calls[t] EXCEPT !.pc = IF rated THEN "reply" ELSE "rate",
                                     !.count = n]
  <2>5. /\ new \in CallStates /\ Sound(new.copy)
        /\ new.filter = calls[t].filter /\ new.filter \in DOMAIN filters
        /\ new.pc = IF rated THEN "reply" ELSE "rate"
        /\ new.count = n /\ new.least = calls[t].least
        /\ new.rated = calls[t].rated
    BY <1>1, <2>1, <2>4 DEF CallOK, CallStates
  <2>6. Become(t, new) /\ UNCHANGED filters
    BY <1>5, <2>3 DEF ReadCount, Become
  <2>7. calls[t].pc = "count" => calls[t].least <= calls[t].rated
    BY <1>1 DEF CallOK, StatsOK
  <2> HIDE DEF new, seen, rated
  <2>8. StatsOK(new, filters[new.filter].itemCount)
    BY <2>1, <2>2, <2>4, <2>5, <2>7 DEF StatsOK, Receiver
  <2>9. CallOK(filters, new)
    BY <2>5, <2>8 DEF CallOK
  <2> QED
    BY <2>6, <2>9, StepKeepsInv
<1>6. ASSUME EstimateRate(t) PROVE Inv'
  <2> DEFINE first == At(t, "stats")
             new == [calls[t] EXCEPT !.pc = IF first THEN "count" ELSE "reply",
                                     !.rated = Receiver(t).itemCount]
  <2>1. calls[t].pc \in {"stats", "rate"} /\ (first <=> calls[t].pc = "stats")
    BY <1>6 DEF EstimateRate, AtFree, At
  <2>2. /\ calls[t].least \in Nat /\ calls[t].count \in Nat
        /\ Receiver(t).itemCount \in Nat
        /\ calls[t].least <= Receiver(t).itemCount
        /\ calls[t].pc = "rate" => /\ calls[t].least <= calls[t].count
                                  /\ calls[t].count <= Receiver(t).itemCount
    BY <1>1, <1>2, <2>1 DEF CallOK, CallStates, StatsOK, Receiver
  <2>3. /\ new \in CallStates /\ Sound(new.copy)
        /\ new.filter = calls[t].filter /\ new.filter \in DOMAIN filters
        /\ new.pc = IF first THEN "count" ELSE "reply"
        /\ new.rated = Receiver(t).itemCount /\ new.least = calls[t].least
        /\ new.count = calls[t].count
    BY <1>1, <2>1, <2>2 DEF CallOK, CallStates
  <2>4. Become(t, new) /\ UNCHANGED filters
    BY <1>6 DEF EstimateRate, Become
  <2> HIDE DEF new, first
  <2>5. StatsOK(new, filters[new.filter].itemCount)
    BY <2>1, <2>2, <2>3 DEF StatsOK, Receiver
  <2>6. CallOK(filters, new)
    BY <2>3, <2>5 DEF CallOK
  <2> QED
    BY <2>4, <2>6, StepKeepsInv
<1>7. ASSUME LockReceiver(t) PROVE Inv'
  <2> DEFINE new == [calls[t] EXCEPT !.pc = "merging"]
  <2>1. CallOK(filters, new)
    BY <1>1, <1>7 DEF LockReceiver, AtFree, At, CallOK, CallStates, StatsOK
  <2> QED
    BY <1>7, <2>1, StepKeepsInv DEF LockReceiver, Become
<1> QED
  BY <1>3, <1>4, <1>5, <1>6, <1>7

LEMMA InitInv == Init => Inv
<1> SUFFICES ASSUME Init PROVE Inv
  OBVIOUS
<1>1. FiltersOK(filters)
  BY DEF Init, FiltersOK
<1>2. CallOK(filters, Idle) /\ Idle \in CallStates
  BY IdleIsOK DEF CallOK
<1> QED
  BY <1>1, <1>2 DEF Init, Inv

LEMMA NextInv == Inv /\ [Next]_vars => Inv'
<1> SUFFICES ASSUME Inv, [Next]_vars PROVE Inv'
  OBVIOUS
<1>1. ASSUME NEW t \in Threads, Step(t) PROVE Inv'
  BY <1>1, AddStep, MergeStep, DeserializeStep, LocalStep DEF Step
<1>2. CASE UNCHANGED vars
  BY <1>2 DEF vars, Inv
<1> QED
  BY <1>1, <1>2, NewStep, StartStep DEF Next

(* Types, and so the bounds of bitArray, for every number of goroutines,   *)
(* filters and keys and all sizes (bloom.go:29, 100-110).                  *)
THEOREM TypeCorrect == Spec => []TypeOK
<1>1. Inv => TypeOK
  BY InvImpliesProperties
<1> QED
  BY <1>1, InitInv, NextInv, PTL DEF Spec

(* A filter denies no key that was added to it, or reached it by a copy or *)
(* a merge, for every number of goroutines, filters and keys, all hash     *)
(* values and all sizes (bloom.go:12).                                     *)
THEOREM FalseNegativesAreImpossible == Spec => []NoFalseNegatives
<1>1. Inv => NoFalseNegatives
  BY InvImpliesProperties
<1> QED
  BY <1>1, InitInv, NextInv, PTL DEF Spec

(* A filter that had no other merged into it counts every item that set a *)
(* bit in it: at most numHashes bits for each item that was counted, for   *)
(* all hash values and sizes, on whatever peer it was added (bloom.go:50-  *)
(* 61, 128-146).                                                           *)
THEOREM CountIsEnough == Spec => []CountCoversBits
<1>1. Inv => CountCoversBits
  BY InvImpliesProperties
<1> QED
  BY <1>1, InitInv, NextInv, PTL DEF Spec

(* Both counts that Stats reads, one of them without the lock, lie between *)
(* the count at the call and the one now, in whichever order they are read *)
(* and whatever is added or merged in between (bloom.go:176-184).          *)
THEOREM StatsAreAlwaysOfTheCall == Spec => []StatsAreOfTheCall
<1>1. Inv => StatsAreOfTheCall
  BY InvImpliesProperties
<1> QED
  BY <1>1, InitInv, NextInv, PTL DEF Spec
=============================================================================
