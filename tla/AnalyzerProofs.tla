--------------------------- MODULE AnalyzerProofs ---------------------------
(***************************************************************************)
(* Theorems about module Analyzer, for any number of readers beside any    *)
(* number of calls, every set of peers and links, and all latencies.  The  *)
(* latencies of a set of edges are summed by a fold over the set: what the *)
(* sum is between follows by induction over the size of the set.           *)
(***************************************************************************)
EXTENDS Analyzer, RouterProofs, Induction, TLAPS

(* Nodes and edges are finitely many. *)
LEMMA GraphIsFinite ==
  /\ \A N \in SUBSET PeerIDs : IsFiniteSet(N) /\ Cardinality(N) \in Nat
  /\ IsFiniteSet(Links)
  /\ \A E \in SUBSET Links : IsFiniteSet(E) /\ Cardinality(E) \in Nat
<1>1. IsFiniteSet(PeerIDs) /\ Links \subseteq PeerIDs \X PeerIDs
  BY RouterAssumption
<1>2. IsFiniteSet(PeerIDs \X PeerIDs)
  BY <1>1, FS_Product
<1>3. IsFiniteSet(Links)
  BY <1>1, <1>2, FS_Subset
<1>4. ASSUME NEW N \in SUBSET PeerIDs
      PROVE  IsFiniteSet(N) /\ Cardinality(N) \in Nat
  BY <1>1, FS_Subset, FS_CardinalityType
<1>5. ASSUME NEW E \in SUBSET Links
      PROVE  IsFiniteSet(E) /\ Cardinality(E) \in Nat
  BY <1>3, FS_Subset, FS_CardinalityType
<1> QED
  BY <1>3, <1>4, <1>5

-----------------------------------------------------------------------------
(* The sum of the latencies.                                               *)

(* The edge of s that the fold takes next. *)
Taken(s) == CHOOSE x \in s : TRUE

(* f is the function that the fold of TotalLatency(E) is defined by, on    *)
(* the sets of edges in D.                                                 *)
SumsOver(f, D) ==
  f = [s \in D |-> IF s = {} THEN 0
                   ELSE Latency[Taken(s)] + f[s \ {Taken(s)}]]

LEMMA TotalLatencyIs ==
  ASSUME NEW E
  PROVE  TotalLatency(E) = (CHOOSE f : SumsOver(f, SUBSET E))[E]
BY DEF TotalLatency, MapThenSumSet, MapThenFoldSet, SumsOver, Taken


(* The recursion of the fold defines a function, on the subsets of a       *)
(* finite set.                                                             *)
LEMMA SumsExist ==
  ASSUME NEW E, IsFiniteSet(E)
  PROVE  \E f : SumsOver(f, SUBSET E)
<1> DEFINE D(n) == {s \in SUBSET E : Cardinality(s) <= n}
           S == {n \in Nat : \E f : SumsOver(f, D(n))}
<1>1. \A s \in SUBSET E : Cardinality(s) \in Nat /\ IsFiniteSet(s)
  BY FS_Subset, FS_CardinalityType
<1>2. \A s \in SUBSET E : s # {} =>
        /\ Taken(s) \in s /\ s \ {Taken(s)} \in SUBSET E
        /\ Cardinality(s \ {Taken(s)}) = Cardinality(s) - 1
  <2> SUFFICES ASSUME NEW s \in SUBSET E, s # {}
               PROVE  /\ Taken(s) \in s /\ s \ {Taken(s)} \in SUBSET E
                      /\ Cardinality(s \ {Taken(s)}) = Cardinality(s) - 1
    OBVIOUS
  <2>1. Taken(s) \in s
    BY DEF Taken
  <2> QED
    BY <1>1, <2>1, FS_RemoveElement
<1>3. 0 \in S
  <2> DEFINE f == [s \in D(0) |-> 0]
  <2>1. \A s \in D(0) : s = {}
    BY <1>1, FS_EmptySet
  <2>2. SumsOver(f, D(0))
    BY <2>1 DEF SumsOver
  <2> HIDE DEF f
  <2> QED
    BY <2>2
<1>4. ASSUME NEW n \in Nat, n \in S PROVE n + 1 \in S
  <2>1. PICK f : SumsOver(f, D(n))
    BY <1>4
  <2> DEFINE g == [s \in D(n + 1) |->
                     IF s = {} THEN 0
                     ELSE Latency[Taken(s)] + f[s \ {Taken(s)}]]
  <2>2. \A s \in D(n) : s \in D(n + 1) /\ g[s] = f[s]
    <3>1. \A s \in D(n) : s \in D(n + 1)
      BY <1>1
    <3>2. \A s \in D(n) : f[s] = IF s = {} THEN 0
                                 ELSE Latency[Taken(s)] + f[s \ {Taken(s)}]
      BY <2>1 DEF SumsOver
    <3> HIDE DEF D
    <3> QED
      BY <3>1, <3>2
  <2>3. \A s \in D(n + 1) : s # {} => s \ {Taken(s)} \in D(n)
    <3> SUFFICES ASSUME NEW s \in D(n + 1), s # {}
                 PROVE  s \ {Taken(s)} \in D(n)
      OBVIOUS
    <3>1. Cardinality(s) \in Nat /\ Cardinality(s) <= n + 1
      BY <1>1
    <3>2. /\ s \ {Taken(s)} \in SUBSET E
          /\ Cardinality(s \ {Taken(s)}) = Cardinality(s) - 1
      BY <1>2
    <3> QED
      BY <3>1, <3>2
  <2> HIDE DEF D
  <2>4. ASSUME NEW s \in D(n + 1)
        PROVE  g[s] = IF s = {} THEN 0
                      ELSE Latency[Taken(s)] + g[s \ {Taken(s)}]
    <3>1. CASE s = {}
      BY <3>1
    <3>2. CASE s # {}
      <4>1. g[s] = Latency[Taken(s)] + f[s \ {Taken(s)}]
        BY <3>2
      <4>2. g[s \ {Taken(s)}] = f[s \ {Taken(s)}]
        BY <3>2, <2>2, <2>3
      <4> HIDE DEF g
      <4> QED
        BY <3>2, <4>1, <4>2
    <3> QED
      BY <3>1, <3>2
  <2>5. g = [s \in D(n + 1) |-> g[s]]
    OBVIOUS
  <2> HIDE DEF g
  <2>6. SumsOver(g, D(n + 1))
    BY <2>4, <2>5 DEF SumsOver
  <2> QED
    BY <2>6
<1> HIDE DEF S
<1>5. \A n \in Nat : n \in S
  BY <1>3, <1>4, NumberInduction
<1>6. Cardinality(E) \in S
  BY <1>1, <1>5
<1>7. D(Cardinality(E)) = SUBSET E
  <2>1. \A s \in SUBSET E : Cardinality(s) <= Cardinality(E)
    BY FS_Subset
  <2> QED
    BY <2>1
<1> HIDE DEF D
<1> QED
  BY <1>6, <1>7 DEF S

LEMMA NextMultiple ==
  ASSUME NEW i \in Int, NEW d \in Int
  PROVE  (i + 1) * d = i * d + d /\ i * d \in Int
  OBVIOUS

LEMMA ProductsInOrder ==
  ASSUME NEW i \in Int, NEW j \in Int, NEW d \in Nat, i <= j
  PROVE  i * d <= j * d
  OBVIOUS

(* The sum of n latencies from lo to hi is between n * lo and n * hi. *)
LEMMA TotalIsBetween ==
  ASSUME NEW E \in SUBSET Links, NEW lo \in Nat, NEW hi \in Nat,
         \A l \in E : lo <= Latency[l] /\ Latency[l] <= hi
  PROVE  /\ TotalLatency(E) \in Nat
         /\ Cardinality(E) * lo <= TotalLatency(E)
         /\ TotalLatency(E) <= Cardinality(E) * hi
<1> DEFINE f == CHOOSE g : SumsOver(g, SUBSET E)
           P(s) == /\ f[s] \in Nat
                   /\ Cardinality(s) * lo <= f[s]
                   /\ f[s] <= Cardinality(s) * hi
           S == {n \in Nat : \A s \in SUBSET E : Cardinality(s) = n => P(s)}
<1>1. IsFiniteSet(E) /\ Cardinality(E) \in Nat
  BY GraphIsFinite
<1>2. SumsOver(f, SUBSET E)
  BY <1>1, SumsExist
<1>3. TotalLatency(E) = f[E]
  BY TotalLatencyIs
<1> HIDE DEF f
<1>4. f[{}] = 0
  BY <1>2 DEF SumsOver
<1>5. 0 \in S
  <2> SUFFICES ASSUME NEW s \in SUBSET E, Cardinality(s) = 0 PROVE P(s)
    OBVIOUS
  <2>1. s = {}
    BY <1>1, FS_Subset, FS_EmptySet
  <2> QED
    BY <1>4, <2>1
<1>6. ASSUME NEW n \in Nat, n \in S PROVE n + 1 \in S
  <2> SUFFICES ASSUME NEW s \in SUBSET E, Cardinality(s) = n + 1 PROVE P(s)
    OBVIOUS
  <2> DEFINE x == Taken(s)
             t == s \ {x}
  <2>1. IsFiniteSet(s) /\ s # {}
    <3>1. IsFiniteSet(s) /\ n + 1 # 0
      BY <1>1, FS_Subset
    <3> QED
      BY <3>1, FS_EmptySet
  <2>2. x \in s
    BY <2>1 DEF Taken
  <2>3. Cardinality(t) = n
    <3>1. Cardinality(t) = Cardinality(s) - 1
      BY <2>1, <2>2, FS_RemoveElement
    <3> QED
      BY <3>1
  <2>4. f[s] = Latency[x] + f[t]
    BY <1>2, <2>1 DEF SumsOver
  <2>5. t \in SUBSET E
    OBVIOUS
  <2> HIDE DEF x, t
  <2>6. Latency[x] \in Nat /\ lo <= Latency[x] /\ Latency[x] <= hi
    BY <2>2, RouterAssumption
  <2>7. f[t] \in Nat /\ n * lo <= f[t] /\ f[t] <= n * hi
    BY <1>6, <2>3, <2>5
  <2>8. /\ (n + 1) * lo = n * lo + lo /\ n * lo \in Int
        /\ (n + 1) * hi = n * hi + hi /\ n * hi \in Int
    BY NextMultiple
  <2> QED
    BY <2>4, <2>6, <2>7, <2>8
<1> HIDE DEF S
<1>7. \A n \in Nat : n \in S
  BY <1>5, <1>6, NumberInduction
<1>8. P(E)
  BY <1>1, <1>7 DEF S
<1> QED
  BY <1>3, <1>8

(* Of a set of edges, one is the fastest and one the slowest. *)
LEMMA MinAndMax ==
  ASSUME NEW E \in SUBSET Links, E # {}
  PROVE  /\ Min(Latencies(E)) \in Nat /\ Max(Latencies(E)) \in Nat
         /\ \A l \in E : /\ Min(Latencies(E)) <= Latency[l]
                         /\ Latency[l] <= Max(Latencies(E))
<1> DEFINE L == Latencies(E)
           Q == {T \in SUBSET E : T = {} \/
                   \E x \in T : \A y \in T : Latency[x] >= Latency[y]}
<1>1. \A l \in E : Latency[l] \in Nat
  BY RouterAssumption
<1>2. L \in SUBSET Nat /\ L # {} /\ \A l \in E : Latency[l] \in L
  BY <1>1 DEF Latencies
<1>3. \E x \in L : \A y \in L : x <= y
  <2> HIDE DEF L
  <2> QED
    BY <1>2, LeastNumber
<1>4. \A T \in SUBSET E : \A x \in E \ T : T \in Q => T \union {x} \in Q
  <2> SUFFICES ASSUME NEW T \in SUBSET E, NEW x \in E \ T, T \in Q
               PROVE  \E z \in T \union {x} :
                        \A y \in T \union {x} : Latency[z] >= Latency[y]
    OBVIOUS
  <2>1. CASE T = {}
    BY <1>1, <2>1
  <2>2. CASE T # {}
    <3>1. PICK z \in T : \A y \in T : Latency[z] >= Latency[y]
      BY <2>2
    <3>2. CASE Latency[z] >= Latency[x]
      BY <3>1, <3>2
    <3>3. CASE ~ (Latency[z] >= Latency[x])
      <4>1. \A y \in T : Latency[x] >= Latency[y]
        BY <1>1, <3>1, <3>3
      <4> QED
        BY <1>1, <4>1
    <3> QED
      BY <3>2, <3>3
  <2> QED
    BY <2>1, <2>2
<1>5. {} \in Q
  OBVIOUS
<1> HIDE DEF Q
<1>6. E \in Q
  BY <1>4, <1>5, GraphIsFinite, SubsetInduction
<1>7. \E x \in L : \A y \in L : x >= y
  <2>1. PICK x \in E : \A y \in E : Latency[x] >= Latency[y]
    BY <1>6 DEF Q
  <2> QED
    BY <2>1 DEF Latencies
<1> HIDE DEF L
<1>8. Min(L) \in L /\ \A y \in L : Min(L) <= y
  BY <1>3 DEF Min
<1>9. Max(L) \in L /\ \A y \in L : Max(L) >= y
  BY <1>7 DEF Max
<1>10. Min(L) \in Nat /\ Max(L) \in Nat
  BY <1>2, <1>8, <1>9
<1>11. \A l \in E : Min(L) <= Latency[l] /\ Latency[l] <= Max(L)
  BY <1>1, <1>2, <1>8, <1>9, <1>10
<1> QED
  BY <1>10, <1>11 DEF L

(* What the fold makes of a set does not depend on the set that it started *)
(* with.                                                                   *)
LEMMA SumsAgree ==
  ASSUME NEW E, IsFiniteSet(E), NEW T \in SUBSET E, NEW f, NEW g,
         SumsOver(f, SUBSET E), SumsOver(g, SUBSET T)
  PROVE  f[T] = g[T]
<1> DEFINE S == {n \in Nat : \A s \in SUBSET T : Cardinality(s) = n => f[s] = g[s]}
<1>1. \A s \in SUBSET T : Cardinality(s) \in Nat /\ IsFiniteSet(s)
  BY FS_Subset, FS_CardinalityType
<1>2. \A s \in SUBSET T : /\ f[s] = IF s = {} THEN 0
                                    ELSE Latency[Taken(s)] + f[s \ {Taken(s)}]
                          /\ g[s] = IF s = {} THEN 0
                                    ELSE Latency[Taken(s)] + g[s \ {Taken(s)}]
  BY DEF SumsOver
<1>3. 0 \in S
  <2>1. \A s \in SUBSET T : Cardinality(s) = 0 => s = {}
    BY <1>1, FS_EmptySet
  <2> QED
    BY <1>2, <2>1
<1>4. ASSUME NEW n \in Nat, n \in S PROVE n + 1 \in S
  <2> SUFFICES ASSUME NEW s \in SUBSET T, Cardinality(s) = n + 1
               PROVE  f[s] = g[s]
    OBVIOUS
  <2>1. s # {}
    <3>1. n + 1 # 0
      OBVIOUS
    <3> QED
      BY <3>1, FS_EmptySet
  <2>2. Taken(s) \in s
    BY <2>1 DEF Taken
  <2>3. Cardinality(s \ {Taken(s)}) = n
    <3>1. Cardinality(s \ {Taken(s)}) = Cardinality(s) - 1
      BY <1>1, <2>2, FS_RemoveElement
    <3> QED
      BY <3>1
  <2>4. f[s \ {Taken(s)}] = g[s \ {Taken(s)}]
    BY <1>4, <2>3
  <2> QED
    BY <1>2, <2>1, <2>4
<1> HIDE DEF S
<1>5. \A n \in Nat : n \in S
  BY <1>3, <1>4, NumberInduction
<1>6. \A s \in SUBSET T : f[s] = g[s]
  BY <1>1, <1>5 DEF S
<1>7. T \in SUBSET T
  OBVIOUS
<1> QED
  BY <1>6, <1>7

(* A total is the sum of a latency and the total of the other edges, ...   *)
LEMMA TotalLatencyTakes ==
  ASSUME NEW E \in SUBSET Links, E # {}
  PROVE  TotalLatency(E) = Latency[Taken(E)] + TotalLatency(E \ {Taken(E)})
<1> DEFINE T == E \ {Taken(E)}
           f == CHOOSE h : SumsOver(h, SUBSET E)
           g == CHOOSE h : SumsOver(h, SUBSET T)
<1>1. IsFiniteSet(E) /\ IsFiniteSet(T) /\ T \in SUBSET E
  BY GraphIsFinite
<1>2. SumsOver(f, SUBSET E) /\ SumsOver(g, SUBSET T)
  BY <1>1, SumsExist
<1>3. TotalLatency(E) = f[E] /\ TotalLatency(T) = g[T]
  BY TotalLatencyIs
<1> HIDE DEF f, g
<1>4. f[E] = Latency[Taken(E)] + f[T]
  BY <1>2 DEF SumsOver
<1>5. f[T] = g[T]
  <2> HIDE DEF T
  <2> QED
    BY <1>1, <1>2, SumsAgree
<1>6. TotalLatency(E) = Latency[Taken(E)] + TotalLatency(T)
  <2> HIDE DEF T
  <2> QED
    BY <1>3, <1>4, <1>5
<1> QED
  BY <1>6

LEMMA TotalLatencyType ==
  ASSUME NEW E \in SUBSET Links
  PROVE  TotalLatency(E) \in Nat
<1>1. CASE E = {}
  <2>1. \A l \in E : 0 <= Latency[l] /\ Latency[l] <= 0
    BY <1>1
  <2> QED
    BY <2>1, TotalIsBetween
<1>2. CASE E # {}
  <2> DEFINE most == Max(Latencies(E))
  <2>1. most \in Nat /\ \A l \in E : Latency[l] <= most
    BY <1>2, MinAndMax
  <2>2. \A l \in E : 0 <= Latency[l] /\ Latency[l] <= most
    BY <2>1, RouterAssumption
  <2> HIDE DEF most
  <2> QED
    BY <2>1, <2>2, TotalIsBetween
<1> QED
  BY <1>1, <1>2

(* ... whichever the edge is, ...                                          *)
LEMMA TotalLatencyWithout ==
  ASSUME NEW E \in SUBSET Links, NEW x \in E
  PROVE  TotalLatency(E) = Latency[x] + TotalLatency(E \ {x})
<1> DEFINE P(T) == \A y \in T : TotalLatency(T) = Latency[y] + TotalLatency(T \ {y})
           S == {n \in Nat : \A T \in SUBSET Links : Cardinality(T) = n => P(T)}
<1>1. \A l \in Links : Latency[l] \in Nat
  BY RouterAssumption
<1>2. 0 \in S
  <2>1. \A T \in SUBSET Links : Cardinality(T) = 0 => T = {}
    BY GraphIsFinite, FS_EmptySet
  <2> QED
    BY <2>1
<1>3. ASSUME NEW n \in Nat, n \in S PROVE n + 1 \in S
  <2> SUFFICES ASSUME NEW T \in SUBSET Links, Cardinality(T) = n + 1, NEW y \in T
               PROVE  TotalLatency(T) = Latency[y] + TotalLatency(T \ {y})
    OBVIOUS
  <2> DEFINE z == Taken(T)
  <2>1. z \in T
    BY DEF Taken
  <2>2. TotalLatency(T) = Latency[z] + TotalLatency(T \ {z})
    BY TotalLatencyTakes
  <2> HIDE DEF z
  <2>3. CASE y = z
    BY <2>2, <2>3
  <2>4. CASE y # z
    <3>1. \A w \in T : Cardinality(T \ {w}) = n
      <4> SUFFICES ASSUME NEW w \in T PROVE Cardinality(T \ {w}) = n
        OBVIOUS
      <4>1. Cardinality(T \ {w}) = Cardinality(T) - 1
        BY GraphIsFinite, FS_RemoveElement
      <4> QED
        BY <4>1
    <3>2. P(T \ {z}) /\ P(T \ {y})
      BY <1>3, <2>1, <3>1
    <3>3. y \in T \ {z} /\ z \in T \ {y} /\ (T \ {z}) \ {y} = (T \ {y}) \ {z}
      BY <2>1, <2>4
    <3>4. /\ TotalLatency(T \ {z}) = Latency[y] + TotalLatency((T \ {z}) \ {y})
          /\ TotalLatency(T \ {y}) = Latency[z] + TotalLatency((T \ {z}) \ {y})
      BY <3>2, <3>3
    <3>5. /\ TotalLatency((T \ {z}) \ {y}) \in Nat
          /\ Latency[y] \in Nat /\ Latency[z] \in Nat
      BY <1>1, <2>1, TotalLatencyType
    <3> QED
      BY <2>2, <3>4, <3>5
  <2> QED
    BY <2>3, <2>4
<1> HIDE DEF S
<1>4. \A n \in Nat : n \in S
  BY <1>2, <1>3, NumberInduction
<1> QED
  BY <1>4, GraphIsFinite DEF S

(* ... and the totals of two sets that have no edge in common add up.      *)
LEMMA TotalsAdd ==
  ASSUME NEW A \in SUBSET Links, NEW B \in SUBSET Links, A \intersect B = {}
  PROVE  TotalLatency(A \union B) = TotalLatency(A) + TotalLatency(B)
<1> DEFINE Q == {T \in SUBSET B :
                   TotalLatency(A \union T) = TotalLatency(A) + TotalLatency(T)}
<1>1. IsFiniteSet(B)
  BY GraphIsFinite
<1>2. \A T \in SUBSET Links : TotalLatency(T) \in Nat
  BY TotalLatencyType
<1>3. {} \in Q
  <2>1. \A l \in {} : 0 <= Latency[l] /\ Latency[l] <= 0
    OBVIOUS
  <2>2. Cardinality({}) * 0 = 0
    BY FS_EmptySet
  <2>3. TotalLatency({}) = 0
    BY <2>1, <2>2, <1>2, TotalIsBetween
  <2>4. A \union {} = A
    OBVIOUS
  <2> QED
    BY <1>2, <2>3, <2>4
<1>4. \A T \in SUBSET B : \A x \in B \ T : T \in Q => T \union {x} \in Q
  <2> SUFFICES ASSUME NEW T \in SUBSET B, NEW x \in B \ T, T \in Q
               PROVE  TotalLatency(A \union (T \union {x}))
                        = TotalLatency(A) + TotalLatency(T \union {x})
    OBVIOUS
  <2>1. /\ A \union (T \union {x}) \in SUBSET Links
        /\ T \union {x} \in SUBSET Links
        /\ x \in T \union {x} /\ x \in A \union (T \union {x})
        /\ (A \union (T \union {x})) \ {x} = A \union T
        /\ (T \union {x}) \ {x} = T
    OBVIOUS
  <2>2. /\ TotalLatency(A \union (T \union {x})) = Latency[x] + TotalLatency(A \union T)
        /\ TotalLatency(T \union {x}) = Latency[x] + TotalLatency(T)
    BY <2>1, TotalLatencyWithout
  <2>3. /\ Latency[x] \in Nat
        /\ TotalLatency(A) \in Nat /\ TotalLatency(T) \in Nat
    BY <1>2, RouterAssumption
  <2> QED
    BY <2>2, <2>3
<1> HIDE DEF Q
<1>5. \A T \in SUBSET B : T \in Q
  BY <1>1, <1>3, <1>4, SubsetInduction
<1> QED
  BY <1>5 DEF Q

(* The quotient of the Go division, for operands that are not negative. *)
LEMMA Quotient ==
  ASSUME NEW t \in Nat, NEW d \in Nat \ {0}
  PROVE  /\ t \div d \in Nat
         /\ d * (t \div d) <= t
         /\ t < d * (t \div d) + d
  OBVIOUS

(* Rounding down is of no matter for what is below a whole number. *)
LEMMA QuotientBelow ==
  ASSUME NEW t \in Nat, NEW d \in Nat \ {0}, NEW c \in Nat
  PROVE  t \div d < c <=> t < c * d
<1> DEFINE q == t \div d
<1>1. q \in Nat /\ d * q <= t /\ t < d * q + d
  BY Quotient
<1> HIDE DEF q
<1>2. d * q = q * d /\ q * d \in Int /\ c * d \in Int
  BY <1>1
<1>3. ASSUME q < c PROVE t < c * d
  <2>1. (q + 1) * d = q * d + d /\ (q + 1) * d <= c * d
    BY <1>1, <1>3, NextMultiple, ProductsInOrder
  <2> QED
    BY <1>1, <1>2, <2>1
<1>4. ASSUME c <= q PROVE ~ (t < c * d)
  <2>1. c * d <= q * d
    BY <1>1, <1>4, ProductsInOrder
  <2> QED
    BY <1>1, <1>2, <2>1
<1> QED
  BY <1>1, <1>3, <1>4 DEF q

(* The average of latencies from lo to hi is between them. *)
LEMMA AverageIsBetween ==
  ASSUME NEW t \in Nat, NEW d \in Nat \ {0}, NEW lo \in Nat, NEW hi \in Nat,
         d * lo <= t, t <= d * hi
  PROVE  lo <= t \div d /\ t \div d <= hi
<1> DEFINE q == t \div d
<1>1. q \in Nat /\ d * q <= t /\ t < d * q + d
  BY Quotient
<1> HIDE DEF q
<1>2. lo <= q
  <2> SUFFICES ASSUME q + 1 <= lo PROVE FALSE
    BY <1>1
  <2>1. (q + 1) * d = q * d + d /\ (q + 1) * d <= lo * d
    BY <1>1, NextMultiple, ProductsInOrder
  <2>2. q * d = d * q /\ lo * d = d * lo /\ d * q \in Int /\ d * lo \in Int
    BY <1>1
  <2> QED
    BY <1>1, <2>1, <2>2
<1>3. q <= hi
  <2> SUFFICES ASSUME hi + 1 <= q PROVE FALSE
    BY <1>1
  <2>1. (hi + 1) * d = hi * d + d /\ (hi + 1) * d <= q * d
    BY <1>1, NextMultiple, ProductsInOrder
  <2>2. q * d = d * q /\ hi * d = d * hi /\ d * q \in Int /\ d * hi \in Int
    BY <1>1
  <2> QED
    BY <1>1, <2>1, <2>2
<1> QED
  BY <1>2, <1>3 DEF q


LEMMA Distribute ==
  ASSUME NEW c \in Nat, NEW a \in Nat, NEW b \in Nat
  PROVE  c * (a + b) = c * a + c * b /\ c * a \in Nat /\ c * b \in Nat
  OBVIOUS

(* Counting the edges at both of their ends: if at every peer that has     *)
(* edges they take less than c on average, then all edges do.              *)
LEMMA CountedAtBothEnds ==
  ASSUME NEW E \in SUBSET Links, E # {}, NEW c \in Nat,
         \A n \in PeerIDs : Incident(n, E) # {} =>
           TotalLatency(Incident(n, E)) < c * Cardinality(Incident(n, E))
  PROVE  TotalLatency(E) < c * Cardinality(E)
<1> DEFINE From(Q) == {l \in E : l[1] \in Q}
           To(Q) == {l \in E : l[2] \in Q}
           total(Q) == TotalLatency(From(Q)) + TotalLatency(To(Q))
           count(Q) == Cardinality(From(Q)) + Cardinality(To(Q))
           S == {Q \in SUBSET PeerIDs :
                   total(Q) <= c * count(Q)
                     /\ (count(Q) > 0 => total(Q) < c * count(Q))}
<1>1. \A D \in SUBSET E : /\ TotalLatency(D) \in Nat
                          /\ IsFiniteSet(D) /\ Cardinality(D) \in Nat
  BY TotalLatencyType, GraphIsFinite
<1>2. TotalLatency({}) = 0 /\ Cardinality({}) = 0
  <2>1. \A l \in {} : 0 <= Latency[l] /\ Latency[l] <= 0
    OBVIOUS
  <2>2. Cardinality({}) = 0
    BY FS_EmptySet
  <2> QED
    BY <1>1, <2>1, <2>2, TotalIsBetween
<1>3. {} \in S
  <2>1. From({}) = {} /\ To({}) = {}
    OBVIOUS
  <2>2. total({}) = 0 /\ count({}) = 0
    BY <1>2, <2>1
  <2> HIDE DEF total, count
  <2> QED
    BY <2>2
<1>4. \A A, B \in SUBSET E : A \intersect B = {} =>
        /\ TotalLatency(A \union B) = TotalLatency(A) + TotalLatency(B)
        /\ Cardinality(A \union B) = Cardinality(A) + Cardinality(B)
  <2> SUFFICES ASSUME NEW A \in SUBSET E, NEW B \in SUBSET E, A \intersect B = {}
               PROVE  /\ TotalLatency(A \union B) = TotalLatency(A) + TotalLatency(B)
                      /\ Cardinality(A \union B) = Cardinality(A) + Cardinality(B)
    OBVIOUS
  <2>1. TotalLatency(A \union B) = TotalLatency(A) + TotalLatency(B)
    BY TotalsAdd
  <2>2. Cardinality(A \union B)
          = Cardinality(A) + Cardinality(B) - Cardinality(A \intersect B)
    BY <1>1, FS_Union
  <2>3. /\ Cardinality(A \intersect B) = 0
        /\ Cardinality(A) \in Nat /\ Cardinality(B) \in Nat
    BY <1>1, <1>2
  <2> QED
    BY <2>1, <2>2, <2>3
<1>5. ASSUME NEW Q \in SUBSET PeerIDs, NEW n \in PeerIDs \ Q, Q \in S
      PROVE  Q \union {n} \in S
  <2> DEFINE at == Incident(n, E)
             leaving == {l \in E : l[1] = n}
             reaching == {l \in E : l[2] = n}
  <2>1. /\ From(Q \union {n}) = From(Q) \union leaving
        /\ From(Q) \intersect leaving = {}
        /\ To(Q \union {n}) = To(Q) \union reaching
        /\ To(Q) \intersect reaching = {}
    OBVIOUS
  <2>2. at = leaving \union reaching /\ leaving \intersect reaching = {}
    <3>1. \A l \in E : l[1] # l[2]
      BY RouterAssumption
    <3> QED
      BY <3>1 DEF Incident
  <2>3. /\ From(Q) \in SUBSET E /\ To(Q) \in SUBSET E /\ at \in SUBSET E
        /\ leaving \in SUBSET E /\ reaching \in SUBSET E
    BY DEF Incident
  <2> HIDE DEF From, To, at, leaving, reaching
  <2>4. /\ total(Q \union {n}) = total(Q) + TotalLatency(at)
        /\ count(Q \union {n}) = count(Q) + Cardinality(at)
        /\ total(Q) \in Nat /\ TotalLatency(at) \in Nat
        /\ count(Q) \in Nat /\ Cardinality(at) \in Nat
    <3>1. /\ TotalLatency(From(Q \union {n}))
               = TotalLatency(From(Q)) + TotalLatency(leaving)
          /\ Cardinality(From(Q \union {n}))
               = Cardinality(From(Q)) + Cardinality(leaving)
      BY <1>4, <2>1, <2>3
    <3>2. /\ TotalLatency(To(Q \union {n}))
               = TotalLatency(To(Q)) + TotalLatency(reaching)
          /\ Cardinality(To(Q \union {n}))
               = Cardinality(To(Q)) + Cardinality(reaching)
      BY <1>4, <2>1, <2>3
    <3>3. /\ TotalLatency(at) = TotalLatency(leaving) + TotalLatency(reaching)
          /\ Cardinality(at) = Cardinality(leaving) + Cardinality(reaching)
      BY <1>4, <2>2, <2>3
    <3>4. \A D \in {From(Q), To(Q), leaving, reaching} :
            TotalLatency(D) \in Nat /\ Cardinality(D) \in Nat
      BY <1>1, <2>3
    <3> QED
      BY <3>1, <3>2, <3>3, <3>4
  <2>5. total(Q) <= c * count(Q) /\ (count(Q) > 0 => total(Q) < c * count(Q))
    BY <1>5
  <2> HIDE DEF total, count
  <2>6. /\ c * count(Q \union {n}) = c * count(Q) + c * Cardinality(at)
        /\ c * count(Q) \in Nat /\ c * Cardinality(at) \in Nat
    BY <2>4, Distribute
  <2>7. CASE at = {}
    <3>1. TotalLatency(at) = 0 /\ Cardinality(at) = 0
      BY <1>2, <2>7
    <3>2. total(Q \union {n}) = total(Q) /\ count(Q \union {n}) = count(Q)
      BY <2>4, <3>1
    <3> QED
      BY <2>5, <3>2
  <2>8. CASE at # {}
    <3>1. TotalLatency(at) < c * Cardinality(at)
      BY <2>8 DEF at
    <3>2. /\ total(Q \union {n}) \in Nat
          /\ total(Q \union {n}) < c * count(Q \union {n})
          /\ c * count(Q \union {n}) \in Nat
      BY <2>4, <2>5, <2>6, <3>1
    <3> QED
      BY <3>2
  <2> QED
    BY <2>7, <2>8
<1>6. PeerIDs \in S
  <2> HIDE DEF S
  <2>1. \A Q \in SUBSET PeerIDs : Q \in S
    BY <1>3, <1>5, RouterAssumption, SubsetInduction
  <2> QED
    BY <2>1
<1>7. From(PeerIDs) = E /\ To(PeerIDs) = E
  BY RouterAssumption
<1>8. Cardinality(E) > 0
  BY <1>1, FS_EmptySet
<1>9. /\ total(PeerIDs) = TotalLatency(E) + TotalLatency(E)
      /\ count(PeerIDs) = Cardinality(E) + Cardinality(E)
  BY <1>7
<1> HIDE DEF From, To, total, count
<1>10. /\ c * count(PeerIDs) = c * Cardinality(E) + c * Cardinality(E)
       /\ c * Cardinality(E) \in Nat
  BY <1>1, <1>9, Distribute
<1>11. total(PeerIDs) < c * count(PeerIDs)
  BY <1>1, <1>6, <1>8, <1>9
<1> QED
  BY <1>1, <1>9, <1>10, <1>11

-----------------------------------------------------------------------------
(* n peers have n * (n - 1) possible edges. *)
LEMMA PossibleEdges ==
  ASSUME NEW N \in SUBSET PeerIDs, NEW E \in SUBSET Links,
         \A l \in E : {l[1], l[2]} \subseteq N
  PROVE  Cardinality(E) <= Cardinality(N) * (Cardinality(N) - 1)
<1> DEFINE n == Cardinality(N)
           D == {<<x, x>> : x \in N}
           f == [x \in N |-> <<x, x>>]
<1>1. IsFiniteSet(N) /\ n \in Nat
  BY GraphIsFinite
<1>2. IsFiniteSet(N \X N) /\ Cardinality(N \X N) = n * n
  BY <1>1, FS_Product
<1>3. Cardinality(D) = n
  <2>1. f \in Injection(N, D) /\ f \in Surjection(N, D)
    BY DEF Injection, IsInjective, Surjection
  <2>2. IsFiniteSet(D)
    <3>1. D \subseteq N \X N
      OBVIOUS
    <3> HIDE DEF D
    <3> QED
      BY <1>2, <3>1, FS_Subset
  <2> HIDE DEF D, f
  <2> QED
    BY <2>1, <2>2, FS_Injection
<1>4. (N \X N) \cap D = D
  OBVIOUS
<1>5. Cardinality((N \X N) \ D) = n * n - n /\ IsFiniteSet((N \X N) \ D)
  <2> DEFINE P == N \X N
  <2>1. IsFiniteSet(P) /\ Cardinality(P) = n * n /\ P \cap D = D
    BY <1>2, <1>4
  <2> HIDE DEF D, P
  <2>2. IsFiniteSet(P \ D) /\ Cardinality(P \ D) = n * n - Cardinality(D)
    BY <2>1, FS_Difference
  <2> QED
    BY <1>3, <2>2 DEF P
<1>6. E \subseteq (N \X N) \ D
  <2> SUFFICES ASSUME NEW l \in E PROVE l \in (N \X N) \ D
    OBVIOUS
  <2>1. l = <<l[1], l[2]>> /\ l[1] # l[2]
    BY RouterAssumption
  <2>2. l[1] \in N /\ l[2] \in N
    OBVIOUS
  <2> QED
    BY <2>1, <2>2
<1>7. Cardinality(E) <= n * n - n
  <2> HIDE DEF D, n
  <2> QED
    BY <1>5, <1>6, FS_Subset
<1>8. n * n - n = n * (n - 1)
  <2> HIDE DEF n
  <2> QED
    BY <1>1
<1> QED
  BY <1>7, <1>8

-----------------------------------------------------------------------------
(* What a GetNetworkMetrics in progress has seen of the graph with nodes N *)
(* and edges E: an earlier part of it, with both ends of every edge that   *)
(* was there when it began.                                                *)
ReportOK(r, N, E) ==
  /\ r.pc \in {"idle", "edges", "size", "done"}
  /\ r.nodes \subseteq N /\ r.known \subseteq E /\ r.edges \subseteq E
  /\ \A l \in r.known : {l[1], l[2]} \subseteq r.nodes
  /\ r.pc \in {"size", "done"} => r.known \subseteq r.edges

AnalyzerInv ==
  /\ RouterInv
  /\ reports = [a \in Analysts |-> reports[a]]
  /\ \A a \in Analysts : ReportOK(reports[a], nodes, edges)

(* A reader changes nothing that the router has: every behaviour of the    *)
(* analyzer beside the router is one of the router (graph.go:28-126,       *)
(* types.go:139-154).                                                      *)
THEOREM ReadersChangeNothing == AnalyzerSpec => Spec
<1>1. AnalyzerInit => Init
  BY DEF AnalyzerInit
<1>2. [AnalyzerNext]_allVars => [Next]_vars
  BY DEF AnalyzerNext, allVars, CountPeers, MeasureEdges, ReadCacheSize,
         Printed, Report
<1> QED
  BY <1>1, <1>2, PTL DEF AnalyzerSpec, Spec

(* The graph only grows. *)
LEMMA GraphGrows ==
  [Next]_vars => nodes \subseteq nodes' /\ edges \subseteq edges'
<1> SUFFICES ASSUME [Next]_vars
             PROVE  nodes \subseteq nodes' /\ edges \subseteq edges'
  OBVIOUS
<1>1. CASE \E n \in PeerIDs : AddNode(n)
  BY <1>1 DEF AddNode
<1>2. CASE \E l \in Links : AddEdge(l)
  BY <1>2 DEF AddEdge
<1>3. CASE \/ \E n \in PeerIDs : InvalidatePeer(n)
           \/ Invalidate \/ Tick
  BY <1>3 DEF InvalidatePeer, Invalidate, Tick, graph
<1>4. CASE \E c \in Calls : Step(c)
  BY <1>4 DEF Step, ReadNodes, Search, SearchFails, Set, Return, graph
<1>5. CASE \E c \in Calls, k \in Requests : Start(c, k)
  BY <1>5 DEF Start, AnswerItself, CacheHit, CacheMiss, graph
<1>6. CASE UNCHANGED vars
  BY <1>6 DEF vars, graph
<1> QED
  BY <1>1, <1>2, <1>3, <1>4, <1>5, <1>6 DEF Next

LEMMA AnalyzerInitInv == AnalyzerInit => AnalyzerInv
<1> SUFFICES ASSUME AnalyzerInit PROVE AnalyzerInv
  OBVIOUS
<1>1. RouterInv
  BY InitInv DEF AnalyzerInit
<1>2. \A N, E : ReportOK(NoReport, N, E)
  BY DEF ReportOK, NoReport
<1>3. reports = [a \in Analysts |-> NoReport]
  BY DEF AnalyzerInit
<1> QED
  BY <1>1, <1>2, <1>3 DEF AnalyzerInv

(* One step of a reader replaces its own report. *)
LEMMA ReportStep ==
  ASSUME AnalyzerInv, NEW a \in Analysts, NEW r, Report(a, r),
         ReportOK(r, nodes, edges)
  PROVE  AnalyzerInv'
<1>1. UNCHANGED vars /\ reports' = [reports EXCEPT ![a] = r]
  BY DEF Report
<1>2. RouterInv'
  <2>1. RouterInv /\ [Next]_vars
    BY <1>1 DEF AnalyzerInv
  <2> QED
    BY <2>1, NextInv
<1>3. nodes' = nodes /\ edges' = edges
  BY <1>1 DEF vars, graph
<1>4. /\ reports' = [b \in Analysts |-> reports'[b]]
      /\ \A b \in Analysts : reports'[b] = IF b = a THEN r ELSE reports[b]
  BY <1>1 DEF AnalyzerInv
<1>5. \A b \in Analysts : ReportOK(reports'[b], nodes', edges')
  BY <1>3, <1>4 DEF AnalyzerInv
<1> QED
  BY <1>2, <1>4, <1>5 DEF AnalyzerInv

LEMMA AnalyzerNextInv ==
  AnalyzerInv /\ [AnalyzerNext]_allVars => AnalyzerInv'
<1> SUFFICES ASSUME AnalyzerInv, [AnalyzerNext]_allVars
             PROVE  AnalyzerInv'
  OBVIOUS
<1>0. \A l \in edges : {l[1], l[2]} \subseteq nodes
  BY DEF AnalyzerInv, RouterInv, EdgesHaveNodes
<1>1. CASE [Next]_vars /\ UNCHANGED reports
  <2>1. RouterInv'
    BY <1>1, NextInv DEF AnalyzerInv
  <2>2. nodes \subseteq nodes' /\ edges \subseteq edges'
    BY <1>1, GraphGrows
  <2>3. \A a \in Analysts : ReportOK(reports'[a], nodes', edges')
    BY <1>1, <2>2 DEF AnalyzerInv, ReportOK
  <2> QED
    BY <1>1, <2>1, <2>3 DEF AnalyzerInv
<1>2. ASSUME NEW a \in Analysts, CountPeers(a)
      PROVE  AnalyzerInv'
  <2> DEFINE r == [NoReport EXCEPT !.pc = "edges", !.nodes = nodes,
                                   !.known = edges]
  <2>1. /\ r.pc = "edges" /\ r.nodes = nodes /\ r.known = edges
        /\ r.edges = {}
    BY DEF NoReport
  <2>2. Report(a, r)
    BY <1>2 DEF CountPeers
  <2> HIDE DEF r
  <2>3. ReportOK(r, nodes, edges)
    BY <1>0, <2>1 DEF ReportOK
  <2> QED
    BY <2>2, <2>3, ReportStep
<1>3. ASSUME NEW a \in Analysts, MeasureEdges(a)
      PROVE  AnalyzerInv'
  <2> DEFINE r == [reports[a] EXCEPT !.pc = "size", !.edges = edges]
  <2>1. ReportOK(reports[a], nodes, edges)
    BY DEF AnalyzerInv
  <2>2. Report(a, r)
    BY <1>3 DEF MeasureEdges
  <2>3. ReportOK(r, nodes, edges)
    BY <2>1 DEF ReportOK
  <2> HIDE DEF r
  <2> QED
    BY <2>2, <2>3, ReportStep
<1>4. ASSUME NEW a \in Analysts, ReadCacheSize(a)
      PROVE  AnalyzerInv'
  <2> DEFINE r == [reports[a] EXCEPT !.pc = "done",
                                     !.size = Cardinality(DOMAIN routes)]
  <2>1. ReportOK(reports[a], nodes, edges) /\ reports[a].pc = "size"
    BY <1>4 DEF AnalyzerInv, ReadCacheSize
  <2>2. Report(a, r)
    BY <1>4 DEF ReadCacheSize
  <2>3. ReportOK(r, nodes, edges)
    BY <2>1 DEF ReportOK
  <2> HIDE DEF r
  <2> QED
    BY <2>2, <2>3, ReportStep
<1>5. ASSUME NEW a \in Analysts, Printed(a)
      PROVE  AnalyzerInv'
  <2>1. ReportOK(NoReport, nodes, edges)
    BY DEF ReportOK, NoReport
  <2> QED
    BY <1>5, <2>1, ReportStep DEF Printed
<1>6. CASE UNCHANGED allVars
  BY <1>1, <1>6 DEF allVars
<1> QED
  BY <1>1, <1>2, <1>3, <1>4, <1>5, <1>6 DEF AnalyzerNext

(* What a reader has read stays a part of the graph, in every state        *)
(* (graph.go:28-30).                                                       *)
THEOREM AnalyzerInvariance == AnalyzerSpec => []AnalyzerInv
  BY AnalyzerInitInv, AnalyzerNextInv, PTL DEF AnalyzerSpec

(* What AnalyzeNetwork reports lies between the graph at its call and the  *)
(* graph as it is, on every graph (AnalysisIsBracketed).                   *)
THEOREM AnalysesAreBracketed == AnalyzerSpec => []AnalysisIsBracketed
<1>1. AnalyzerInv => AnalysisIsBracketed
  <2> SUFFICES ASSUME AnalyzerInv, NEW a \in Analysts,
                      reports[a].pc \in {"size", "done"}
               PROVE  LET r == reports[a]
                          stats == AnalyzeNetwork(r.nodes, r.edges)
                      IN  /\ Cardinality(r.known) <= stats.edges
                          /\ stats.edges <= Cardinality(edges)
                          /\ stats.peers <= Cardinality(nodes)
                          /\ stats.min <= stats.avg /\ stats.avg <= stats.max
                          /\ \A l \in r.known :
                               Latency[l] \in stats.min .. stats.max
                          /\ stats.edges > stats.possible =>
                               \E l \in r.edges \ r.known :
                                 ~ {l[1], l[2]} \subseteq r.nodes
    BY DEF AnalysisIsBracketed
  <2> DEFINE N == reports[a].nodes
             E == reports[a].edges
             K == reports[a].known
             stats == AnalyzeNetwork(N, E)
  <2>1. /\ N \subseteq nodes /\ K \subseteq E /\ E \subseteq edges
        /\ \A l \in K : {l[1], l[2]} \subseteq N
    BY DEF AnalyzerInv, ReportOK
  <2>2. nodes \in SUBSET PeerIDs /\ edges \in SUBSET Links
    BY DEF AnalyzerInv, RouterInv, TypeOK
  <2> HIDE DEF N, E, K
  <2>3. /\ Cardinality(K) <= Cardinality(E)
        /\ Cardinality(E) <= Cardinality(edges)
        /\ Cardinality(N) <= Cardinality(nodes)
        /\ Cardinality(E) \in Nat /\ Cardinality(N) \in Nat
    BY <2>1, <2>2, GraphIsFinite, FS_Subset
  <2>4. stats.peers = Cardinality(N) /\ stats.edges = Cardinality(E)
    BY FS_EmptySet DEF AnalyzeNetwork
  <2>5. stats.min <= stats.avg /\ stats.avg <= stats.max
        /\ \A l \in K : Latency[l] \in stats.min .. stats.max
    <3>1. CASE E = {}
      <4>1. stats.min = 0 /\ stats.avg = 0 /\ stats.max = 0
        BY <3>1 DEF AnalyzeNetwork
      <4> HIDE DEF stats
      <4> QED
        BY <2>1, <3>1, <4>1
    <3>2. CASE E # {}
      <4> DEFINE lo == Min(Latencies(E))
                 hi == Max(Latencies(E))
                 t == TotalLatency(E)
                 d == Cardinality(E)
      <4>1. stats.min = lo /\ stats.max = hi /\ stats.avg = t \div d
        BY <3>2 DEF AnalyzeNetwork
      <4>2. /\ lo \in Nat /\ hi \in Nat
            /\ \A l \in E : lo <= Latency[l] /\ Latency[l] <= hi
        BY <2>1, <2>2, <3>2, MinAndMax
      <4>3. d \in Nat \ {0}
        BY <2>1, <2>2, <3>2, GraphIsFinite, FS_EmptySet
      <4>4. \A l \in E : Latency[l] \in Nat
        BY <2>1, <2>2, RouterAssumption
      <4> HIDE DEF stats, lo, hi
      <4>5. t \in Nat /\ d * lo <= t /\ t <= d * hi
        BY <2>1, <2>2, <4>2, TotalIsBetween
      <4> HIDE DEF t, d
      <4>6. lo <= t \div d /\ t \div d <= hi
        BY <4>2, <4>3, <4>5, AverageIsBetween
      <4> QED
        BY <2>1, <4>1, <4>2, <4>4, <4>6
    <3> QED
      BY <3>1, <3>2
  <2>6. ASSUME stats.edges > stats.possible
        PROVE  \E l \in E \ K : ~ {l[1], l[2]} \subseteq N
    <3> SUFFICES ASSUME \A l \in E \ K : {l[1], l[2]} \subseteq N
                 PROVE  FALSE
      OBVIOUS
    <3>1. CASE E = {}
      <4>1. stats.edges = 0 /\ stats.possible = 0
        BY <3>1 DEF AnalyzeNetwork
      <4> HIDE DEF stats
      <4> QED
        BY <2>6, <4>1
    <3>2. CASE E # {}
      <4> DEFINE possible == Cardinality(N) * (Cardinality(N) - 1)
      <4>1. stats.possible = possible
        BY <3>2 DEF AnalyzeNetwork
      <4>2. \A l \in E : {l[1], l[2]} \subseteq N
        BY <2>1
      <4>3. Cardinality(E) <= possible
        BY <2>1, <2>2, <4>2, PossibleEdges
      <4>4. possible \in Int
        BY <2>3
      <4> HIDE DEF stats, possible
      <4> QED
        BY <2>3, <2>4, <2>6, <4>1, <4>3, <4>4
    <3> QED
      BY <3>1, <3>2
  <2> HIDE DEF stats
  <2> QED
    BY <2>3, <2>4, <2>5, <2>6 DEF stats, N, E, K
<1> QED
  BY <1>1, AnalyzerInvariance, PTL

(* The bottlenecks that FindBottlenecks names, of any graph and for any     *)
(* threshold, agree with the average and the maximum of AnalyzeNetwork     *)
(* (BottlenecksMatchAverage).                                              *)
THEOREM BottlenecksAlwaysMatchAverage == AnalyzerSpec => []BottlenecksMatchAverage
<1>1. ASSUME RouterInv, NEW threshold \in Thresholds
      PROVE  LET stats == AnalyzeNetwork(nodes, edges)
                 slow == FindBottlenecks(edges, threshold)
             IN  /\ stats.avg > threshold => slow # {}
                 /\ slow # {} => stats.max > threshold
  <2> DEFINE stats == AnalyzeNetwork(nodes, edges)
             slow == FindBottlenecks(edges, threshold)
  <2>1. edges \in SUBSET Links /\ threshold \in Nat
    BY <1>1, AnalyzerAssumption DEF RouterInv, TypeOK
  <2>2. \A E \in SUBSET edges : TotalLatency(E) \in Nat /\ Cardinality(E) \in Nat
    BY <2>1, TotalLatencyType, GraphIsFinite
  <2>3. \A n : Incident(n, edges) \in SUBSET edges
    BY DEF Incident
  <2>4. CASE edges = {}
    <3>1. \A n : Cardinality(Incident(n, edges)) = 0
      BY <2>3, <2>4, FS_EmptySet
    <3>2. slow = {}
      BY <3>1 DEF FindBottlenecks
    <3>3. stats.avg = 0
      BY <2>4 DEF AnalyzeNetwork
    <3> HIDE DEF stats, slow
    <3>4. ~ (stats.avg > threshold)
      BY <2>1, <3>3
    <3> QED
      BY <3>2, <3>4 DEF stats, slow
  <2>5. CASE edges # {}
    <3> DEFINE t == TotalLatency(edges)
               d == Cardinality(edges)
               most == Max(Latencies(edges))
    <3>1. stats.avg = t \div d /\ stats.max = most
      BY <2>5 DEF AnalyzeNetwork
    <3>2. t \in Nat /\ d \in Nat \ {0}
      BY <2>1, <2>2, <2>5, GraphIsFinite, FS_EmptySet
    <3>3. ASSUME slow = {} PROVE ~ (t \div d > threshold)
      <4>1. ASSUME NEW n \in PeerIDs, Incident(n, edges) # {}
            PROVE  TotalLatency(Incident(n, edges))
                     < (threshold + 1) * Cardinality(Incident(n, edges))
        <5> DEFINE tn == TotalLatency(Incident(n, edges))
                   dn == Cardinality(Incident(n, edges))
        <5>1. tn \in Nat /\ dn \in Nat \ {0}
          BY <2>1, <2>2, <2>3, <4>1, GraphIsFinite, FS_EmptySet
        <5>2. ~ (dn > 0 /\ tn \div dn > threshold)
          BY <3>3 DEF FindBottlenecks
        <5> HIDE DEF tn, dn
        <5>3. tn \div dn \in Nat /\ tn \div dn < threshold + 1
          BY <2>1, <5>1, <5>2, Quotient
        <5>4. tn < (threshold + 1) * dn
          BY <2>1, <5>1, <5>3, QuotientBelow
        <5> QED
          BY <5>4 DEF tn, dn
      <4>2. threshold + 1 \in Nat
        BY <2>1
      <4>3. t < (threshold + 1) * d
        BY <2>1, <2>5, <4>1, <4>2, CountedAtBothEnds
      <4> HIDE DEF t, d
      <4>4. t \div d < threshold + 1 /\ t \div d \in Nat
        BY <3>2, <4>2, <4>3, Quotient, QuotientBelow
      <4> QED
        BY <2>1, <4>4
    <3>4. ASSUME NEW n \in slow PROVE most > threshold
      <4> DEFINE E == Incident(n, edges)
      <4>1. Cardinality(E) > 0 /\ TotalLatency(E) \div Cardinality(E) > threshold
        BY <3>4 DEF FindBottlenecks
      <4>2. /\ most \in Nat
            /\ \A l \in edges : 0 <= Latency[l] /\ Latency[l] <= most
        BY <2>1, <2>5, MinAndMax, RouterAssumption
      <4>3. E \in SUBSET edges
        BY <2>3
      <4> HIDE DEF most, E
      <4>4. /\ TotalLatency(E) \in Nat /\ Cardinality(E) \in Nat \ {0}
            /\ Cardinality(E) * 0 <= TotalLatency(E)
            /\ TotalLatency(E) <= Cardinality(E) * most
        BY <2>1, <2>2, <4>1, <4>2, <4>3, TotalIsBetween
      <4>5. TotalLatency(E) \div Cardinality(E) <= most
        BY <4>2, <4>4, AverageIsBetween
      <4>6. TotalLatency(E) \div Cardinality(E) \in Nat
        BY <4>4, Quotient
      <4> QED
        BY <2>1, <4>1, <4>2, <4>5, <4>6
    <3> HIDE DEF t, d, most, stats, slow
    <3> QED
      BY <3>1, <3>3, <3>4 DEF stats, slow
  <2> QED
    BY <2>4, <2>5
<1>2. RouterInv => BottlenecksMatchAverage
  BY <1>1 DEF BottlenecksMatchAverage
<1> QED
  BY <1>2, ReadersChangeNothing, Invariance, PTL

-----------------------------------------------------------------------------
(* RouterInv bounds the age of a cached route by the TTL and the time of   *)
(* its search; how long it has still to live, it does not.                 *)
ExpiresInTime ==
  \A k \in DOMAIN routes : routes[k].expiresAt <= now + TTL

(* Set is the only step that puts a route into the cache, and the clock    *)
(* does not go back (types.go:76-87).                                      *)
LEMMA ExpiresInTimeStep ==
  RouterInv /\ ExpiresInTime /\ [Next]_vars => ExpiresInTime'
<1> SUFFICES ASSUME RouterInv, ExpiresInTime, [Next]_vars
             PROVE  ExpiresInTime'
  OBVIOUS
<1>1. /\ now \in Nat /\ TTL \in Nat
      /\ \A k \in DOMAIN routes : routes[k].expiresAt \in Nat
  BY RouterAssumption DEF RouterInv, TypeOK, CachedRoutes
<1>2. CASE UNCHANGED <<routes, now>>
  BY <1>2 DEF ExpiresInTime
<1>3. CASE Tick
  <2>1. routes' = routes /\ now' = now + 1
    BY <1>3 DEF Tick
  <2> QED
    BY <1>1, <2>1 DEF ExpiresInTime
<1>4. CASE Invalidate
  <2>1. DOMAIN routes' = {}
    BY <1>4 DEF Invalidate
  <2> QED
    BY <2>1 DEF ExpiresInTime
<1>5. ASSUME NEW n \in PeerIDs, InvalidatePeer(n)
      PROVE  ExpiresInTime'
  <2>1. now' = now /\ \A k \in DOMAIN routes' :
                       k \in DOMAIN routes /\ routes'[k] = routes[k]
    BY <1>5 DEF InvalidatePeer, Without
  <2> QED
    BY <2>1 DEF ExpiresInTime
<1>6. ASSUME NEW c \in Calls, Set(c)
      PROVE  ExpiresInTime'
  <2>1. now' = now /\ routes' = Put(routes, calls[c].pair, Entry(c))
    BY <1>6 DEF Set
  <2>2. \A k \in DOMAIN routes' :
          \/ routes'[k] = Entry(c)
          \/ k \in DOMAIN routes /\ routes'[k] = routes[k]
    BY <2>1 DEF Put
  <2>3. Entry(c).expiresAt = now + TTL
    BY DEF Entry
  <2>4. now + TTL <= now + TTL
    BY <1>1
  <2> QED
    BY <2>1, <2>2, <2>3, <2>4 DEF ExpiresInTime
<1>7. ASSUME NEW n \in PeerIDs, AddNode(n)
      PROVE  UNCHANGED <<routes, now>>
  BY <1>7 DEF AddNode
<1>8. ASSUME NEW l \in Links, AddEdge(l)
      PROVE  UNCHANGED <<routes, now>>
  BY <1>8 DEF AddEdge
<1>9. ASSUME NEW c \in Calls, Step(c), ~ Set(c)
      PROVE  UNCHANGED <<routes, now>>
  BY <1>9 DEF Step, ReadNodes, Search, SearchFails, Return
<1>10. ASSUME NEW c \in Calls, NEW k \in Requests, Start(c, k)
       PROVE  UNCHANGED <<routes, now>>
  BY <1>10 DEF Start, AnswerItself, CacheHit, CacheMiss
<1>11. CASE UNCHANGED vars
  BY <1>2, <1>11 DEF vars
<1> QED
  BY <1>2, <1>3, <1>4, <1>5, <1>6, <1>7, <1>8, <1>9, <1>10, <1>11 DEF Next

(* What GetRouteCache lists is what CalculateRoute would answer with, is a *)
(* route of the graph as it is, and expires within the TTL that is listed  *)
(* with it (ListedIsServed).                                               *)
THEOREM ListedIsAlwaysServed == AnalyzerSpec => []ListedIsServed
<1>1. RouterInv /\ ExpiresInTime => ListedIsServed
  <2> SUFFICES ASSUME RouterInv, ExpiresInTime PROVE ListedIsServed
    OBVIOUS
  <2>1. /\ now \in Nat /\ TTL \in Nat
        /\ \A k \in DOMAIN routes : routes[k].expiresAt \in Nat
    BY RouterAssumption DEF RouterInv, TypeOK, CachedRoutes
  <2>2. \A k \in DOMAIN routes :
          /\ routes[k].path \in Paths(nodes, edges, k)
          /\ routes[k].total = Cost(routes[k].path)
    BY DEF RouterInv, RoutesExist
  <2>3. DOMAIN GetRouteCache = Entries
    BY DEF GetRouteCache
  <2>4. \A k \in Entries : /\ GetRouteCache[k].path = routes[k].path
                           /\ GetRouteCache[k].total = routes[k].total
                           /\ GetRouteCache[k].ttl = TTL
    BY DEF GetRouteCache
  <2>5. \A k \in Entries : k \in DOMAIN routes /\ now < routes[k].expiresAt
    BY DEF Entries
  <2>6. ASSUME NEW k \in Entries
        PROVE  /\ Cached(k)
               /\ GetRouteCache[k].path \in Paths(nodes, edges, k)
               /\ GetRouteCache[k].total = Cost(GetRouteCache[k].path)
               /\ routes[k].expiresAt <= now + GetRouteCache[k].ttl
    <3>1. Cached(k)
      BY <2>1, <2>5 DEF Cached
    <3>2. /\ GetRouteCache[k].path \in Paths(nodes, edges, k)
          /\ GetRouteCache[k].total = Cost(GetRouteCache[k].path)
      BY <2>2, <2>4, <2>5
    <3>3. routes[k].expiresAt <= now + TTL
      BY <2>5 DEF ExpiresInTime
    <3> QED
      BY <2>4, <3>1, <3>2, <3>3
  <2>7. ASSUME NEW k \in DOMAIN routes, Cached(k)
        PROVE  k \in Entries \/ now = routes[k].expiresAt
    BY <2>1, <2>7 DEF Cached, Entries
  <2> QED
    BY <2>3, <2>6, <2>7 DEF ListedIsServed
<1>2. AnalyzerSpec => []RouterInv
  BY ReadersChangeNothing, Invariance, PTL
<1>3. Init => ExpiresInTime
  BY DEF Init, ExpiresInTime
<1>4. AnalyzerSpec => []ExpiresInTime
  <2>1. Spec => []ExpiresInTime
    BY <1>3, ExpiresInTimeStep, Invariance, PTL DEF Spec
  <2> QED
    BY <2>1, ReadersChangeNothing, PTL
<1> QED
  BY <1>1, <1>2, <1>4, PTL
=============================================================================
