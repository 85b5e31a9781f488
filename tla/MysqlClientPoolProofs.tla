----------------------- MODULE MysqlClientPoolProofs -----------------------
(***************************************************************************)
(* Theorems about MysqlClientPool, for every number of connections an int  *)
(* can count, every set of threads and sessions, and every pair of widths. *)
(***************************************************************************)
EXTENDS MysqlClientPool, FiniteSetTheorems, SequenceTheorems, TLAPS

USE CountAssumption, WidthAssumption, QueryAssumption, BreakAssumption

----------------------------------------------------------------------------
(* Remainders.                                                             *)

\* A remainder and its quotient.
LEMMA Division ==
  ASSUME NEW a \in Int, NEW b \in Nat \ {0}
  PROVE  a % b \in 0 .. b - 1 /\ a \div b \in Int /\ a = b * (a \div b) + (a % b)
OBVIOUS

\* What determines a remainder.
LEMMA RemainderOf ==
  ASSUME NEW b \in Nat \ {0}, NEW d \in Int, NEW r \in 0 .. b - 1
  PROVE  (b * d + r) % b = r
OBVIOUS

\* A number below the divisor is its own remainder; so is one a divisor below.
LEMMA SmallRemainder ==
  ASSUME NEW b \in Nat \ {0}, NEW r \in 0 .. b - 1
  PROVE  r % b = r /\ (r - b) % b = r /\ (r + b) % b = r
<1>1. r = b * 0 + r /\ r - b = b * (-1) + r /\ r + b = b * 1 + r
  OBVIOUS
<1>2. (b * 0 + r) % b = r /\ (b * (-1) + r) % b = r /\ (b * 1 + r) % b = r
  BY RemainderOf
<1> QED
  BY <1>1, <1>2

\* As many consecutive numbers as there are connections meet every remainder.
LEMMA Cover ==
  ASSUME NEW n \in Nat \ {0}, NEW x \in Int, NEW c \in 0 .. n - 1
  PROVE  \E j \in 0 .. n - 1 : (x + j) % n = c
<1> DEFINE r == x % n
           d == x \div n
<1>1. r \in 0 .. n - 1 /\ d \in Int /\ x = n * d + r
  BY Division
<1> HIDE DEF r, d
<1>2. CASE c >= r
  <2>1. c - r \in 0 .. n - 1 /\ x + (c - r) = n * d + c
    BY <1>1, <1>2
  <2>2. (n * d + c) % n = c
    BY <1>1, RemainderOf
  <2> QED
    BY <2>1, <2>2
<1>3. CASE c < r
  <2>1. c - r + n \in 0 .. n - 1
    BY <1>1, <1>3
  <2>2. n * (d + 1) = n * d + n
    BY <1>1
  <2>3. x + (c - r + n) = n * (d + 1) + c
    BY <1>1, <2>2
  <2>4. (n * (d + 1) + c) % n = c /\ d + 1 \in Int
    BY <1>1, RemainderOf
  <2> QED
    BY <2>1, <2>3, <2>4
<1> QED
  BY <1>1, <1>2, <1>3

\* ++ stays in the range of int; in it it adds, and over its end it wraps.
LEMMA PlusFacts ==
  ASSUME NEW u \in IntRange, NEW k \in 1 .. 2 * Count - 1
  PROVE  /\ Plus(u, k) \in IntRange
         /\ u + k < IntHalf => Plus(u, k) = u + k
         /\ u + k >= IntHalf => Plus(u, k) = u + k - 2 * IntHalf
<1>1. IntHalf \in Nat \ {0} /\ 2 * IntHalf \in Nat \ {0} /\ u \in Int /\ k \in Int
  BY DEF IntRange
<1>2. (u + k + IntHalf) % (2 * IntHalf) \in 0 .. 2 * IntHalf - 1
  BY <1>1, Division
<1>3. Plus(u, k) \in IntRange
  BY <1>1, <1>2 DEF Plus, IntRange
<1>4. ASSUME u + k < IntHalf PROVE Plus(u, k) = u + k
  <2>1. u + k + IntHalf \in 0 .. 2 * IntHalf - 1
    BY <1>1, <1>4 DEF IntRange
  <2>2. (u + k + IntHalf) % (2 * IntHalf) = u + k + IntHalf
    BY <1>1, <2>1, SmallRemainder
  <2> QED
    BY <1>1, <2>2 DEF Plus
<1>5. ASSUME u + k >= IntHalf PROVE Plus(u, k) = u + k - 2 * IntHalf
  <2> DEFINE r == u + k - IntHalf
  <2>1. r \in 0 .. 2 * IntHalf - 1 /\ u + k + IntHalf = r + 2 * IntHalf
    BY <1>1, <1>5 DEF IntRange
  <2>2. (r + 2 * IntHalf) % (2 * IntHalf) = r
    BY <1>1, <2>1, SmallRemainder
  <2> QED
    BY <1>1, <2>1, <2>2 DEF Plus
<1> QED
  BY <1>3, <1>4, <1>5

\* size_t has at least the values of int.
LEMMA SizeFacts == SizeValues \in Nat \ {0} /\ SizeValues >= 2 * IntHalf
<1>1. IntHalf \in Nat \ {0} /\ SizeWraps \in Nat \ {0}
  OBVIOUS
<1>2. 2 * IntHalf * SizeWraps >= 2 * IntHalf
  BY <1>1
<1> QED
  BY <1>1, <1>2 DEF SizeValues

\* A non-negative index is kept by size_t, a negative one is counted from its end.
LEMMA IndexFacts ==
  ASSUME NEW u \in IntRange
  PROVE  /\ IndexOf(u) \in Con
         /\ u >= 0 => IndexOf(u) = u % Count
         /\ u < 0 => IndexOf(u) = (u + SizeValues) % Count
<1>1. IntHalf \in Nat \ {0} /\ u \in Int /\ Count \in Nat \ {0}
  BY DEF IntRange
<1>2. u % SizeValues \in Int
  BY <1>1, SizeFacts, Division
<1>3. IndexOf(u) \in Con
  BY <1>1, <1>2, Division DEF IndexOf, Con
<1>4. ASSUME u >= 0 PROVE u % SizeValues = u
  <2>1. u \in 0 .. SizeValues - 1
    BY <1>1, <1>4, SizeFacts DEF IntRange
  <2> QED
    BY <2>1, SizeFacts, SmallRemainder
<1>5. ASSUME u < 0 PROVE u % SizeValues = u + SizeValues
  <2> DEFINE r == u + SizeValues
  <2>1. r \in 0 .. SizeValues - 1 /\ u = r - SizeValues
    BY <1>1, <1>5, SizeFacts DEF IntRange
  <2>2. (r - SizeValues) % SizeValues = r
    BY <2>1, SizeFacts, SmallRemainder
  <2> QED
    BY <2>1, <2>2
<1> QED
  BY <1>3, <1>4, <1>5 DEF IndexOf

\* Among the calls there are Count in a row whose index neither wraps nor changes
\* its sign: seen as size_t they are consecutive.
LEMMA SmoothRun ==
  ASSUME NEW u \in IntRange
  PROVE  \E s \in 1 .. Count, x \in Int :
           \A j \in 0 .. Count - 1 :
             s + j \in 1 .. 2 * Count - 1 /\ IndexOf(Plus(u, s + j)) = (x + j) % Count
<1>1. /\ IntHalf \in Nat /\ Count \in Nat /\ 1 <= Count /\ Count < IntHalf /\ u \in Int
      /\ -IntHalf <= u /\ u < IntHalf /\ SizeValues \in Int
  BY SizeFacts DEF IntRange
<1>2. ASSUME NEW s \in 1 .. Count, NEW j \in 0 .. Count - 1
      PROVE  s + j \in 1 .. 2 * Count - 1 /\ u + (s + j) = u + s + j /\ s \in Int /\ j \in Int
  BY <1>1
<1>3. ASSUME NEW s \in 1 .. Count, NEW y \in Int,
             \A j \in 0 .. Count - 1 : Plus(u, s + j) = y + j /\ y + j \in IntRange,
             \/ \A j \in 0 .. Count - 1 : y + j >= 0
             \/ \A j \in 0 .. Count - 1 : y + j < 0
      PROVE  \E i \in 1 .. Count, x \in Int :
               \A j \in 0 .. Count - 1 :
                 i + j \in 1 .. 2 * Count - 1 /\ IndexOf(Plus(u, i + j)) = (x + j) % Count
  <2>1. CASE \A j \in 0 .. Count - 1 : y + j >= 0
    <3>1. \A j \in 0 .. Count - 1 : IndexOf(Plus(u, s + j)) = (y + j) % Count
      BY <1>3, <2>1, IndexFacts
    <3>2. \A j \in 0 .. Count - 1 :
            s + j \in 1 .. 2 * Count - 1 /\ IndexOf(Plus(u, s + j)) = (y + j) % Count
      BY <1>2, <3>1
    <3> QED
      BY <3>2, Zenon
  <2>2. CASE \A j \in 0 .. Count - 1 : y + j < 0
    <3>1. \A j \in 0 .. Count - 1 : IndexOf(Plus(u, s + j)) = (y + j + SizeValues) % Count
      BY <1>3, <2>2, IndexFacts
    <3>2. y + SizeValues \in Int /\ \A j \in 0 .. Count - 1 : y + j + SizeValues = (y + SizeValues) + j
      BY <1>1
    <3>3. \A j \in 0 .. Count - 1 : IndexOf(Plus(u, s + j)) = ((y + SizeValues) + j) % Count
      BY <3>1, <3>2
    <3> DEFINE z == y + SizeValues
    <3>4. \A j \in 0 .. Count - 1 :
            s + j \in 1 .. 2 * Count - 1 /\ IndexOf(Plus(u, s + j)) = (z + j) % Count
      BY <1>2, <3>3
    <3>5. z \in Int
      BY <3>2
    <3> HIDE DEF z
    <3> QED
      BY <3>4, <3>5, Zenon
  <2> QED
    BY <1>3, <2>1, <2>2
<1>4. CASE u >= 0 /\ u + Count < IntHalf
  <2> DEFINE y == u + 1
  <2>1. y \in Int /\ 1 \in 1 .. Count
    BY <1>1
  <2>2. \A j \in 0 .. Count - 1 : Plus(u, 1 + j) = y + j /\ y + j \in IntRange /\ y + j >= 0
    BY <1>1, <1>2, <1>4, PlusFacts DEF IntRange
  <2> HIDE DEF y
  <2> QED
    BY <1>3, <2>1, <2>2
<1>5. CASE u >= 0 /\ u + Count >= IntHalf
  <2> DEFINE y == -IntHalf
             s == IntHalf - u
  <2>1. y \in Int /\ s \in 1 .. Count
    BY <1>1, <1>5
  <2>2. \A j \in 0 .. Count - 1 : Plus(u, s + j) = y + j /\ y + j \in IntRange /\ y + j < 0
    BY <1>1, <1>2, <1>5, <2>1, PlusFacts DEF IntRange
  <2> HIDE DEF y, s
  <2> QED
    BY <1>3, <2>1, <2>2
<1>6. CASE u < 0 /\ u + Count < 0
  <2> DEFINE y == u + 1
  <2>1. y \in Int /\ 1 \in 1 .. Count
    BY <1>1
  <2>2. \A j \in 0 .. Count - 1 : Plus(u, 1 + j) = y + j /\ y + j \in IntRange /\ y + j < 0
    BY <1>1, <1>2, <1>6, PlusFacts DEF IntRange
  <2> HIDE DEF y
  <2> QED
    BY <1>3, <2>1, <2>2
<1>7. CASE u < 0 /\ u + Count >= 0
  <2> DEFINE y == 0
             s == -u
  <2>1. y \in Int /\ s \in 1 .. Count
    BY <1>1, <1>7
  <2>2. \A j \in 0 .. Count - 1 : Plus(u, s + j) = y + j /\ y + j \in IntRange /\ y + j >= 0
    BY <1>1, <1>2, <1>7, <2>1, PlusFacts DEF IntRange
  <2> HIDE DEF y, s
  <2> QED
    BY <1>3, <2>1, <2>2
<1> QED
  BY <1>1, <1>4, <1>5, <1>6, <1>7

\* From any index every connection is reached.
LEMMA ReachAll ==
  ASSUME use_index \in IntRange
  PROVE  RetriesReachEveryConnection
<1>1. ASSUME NEW c \in Con PROVE \E k \in 1 .. 2 * Count - 1 : IndexOf(Plus(use_index, k)) = c
  <2>1. PICK s \in 1 .. Count, x \in Int :
          \A j \in 0 .. Count - 1 :
            s + j \in 1 .. 2 * Count - 1 /\ IndexOf(Plus(use_index, s + j)) = (x + j) % Count
    BY SmoothRun
  <2>2. Count \in Nat \ {0} /\ c \in 0 .. Count - 1
    BY DEF Con
  <2>3. PICK j \in 0 .. Count - 1 : (x + j) % Count = c
    BY <2>2, Cover
  <2> QED
    BY <2>1, <2>3
<1>2. ASSUME NEW k \in 1 .. 2 * Count - 1 PROVE IndexOf(Plus(use_index, k)) \in Con
  BY PlusFacts, IndexFacts
<1> QED
  BY <1>1, <1>2 DEF RetriesReachEveryConnection

----------------------------------------------------------------------------
(* Families of queues: the lists of the connections, the loops of the      *)
(* threads.                                                                *)

\* x is in one of the queues f[c]; no element is in two places.
In(I, f, x) == \E c \in I : \E i \in 1 .. Len(f[c]) : f[c][i] = x
Distinct(I, f) ==
  \A c, d \in I : \A i \in 1 .. Len(f[c]), j \in 1 .. Len(f[d]) : f[c][i] = f[d][j] => c = d /\ i = j

\* f is such a family; g is f after an element joined, or left, one of the queues, or all did.
Queues(I, S, f) == f \in [I -> Seq(S)]
Joins(f, g, c, x) == g = [f EXCEPT ![c] = Append(@, x)]
Leaves(f, g, c) == f[c] # <<>> /\ g = [f EXCEPT ![c] = Tail(@)]
Empties(f, g, c) == g = [f EXCEPT ![c] = <<>>]

\* Equal elements are in the same place.
LEMMA SamePlace ==
  ASSUME NEW I, NEW f, Distinct(I, f), NEW c \in I, NEW d \in I, NEW i \in 1 .. Len(f[c]),
         NEW j \in 1 .. Len(f[d]), f[c][i] = f[d][j]
  PROVE  c = d /\ i = j
BY DEF Distinct

\* A new element joins one of the queues.
LEMMA JoinQueue ==
  ASSUME NEW I, NEW S, NEW f, NEW g, NEW c \in I, NEW x \in S,
         Queues(I, S, f), Joins(f, g, c, x), Distinct(I, f), ~In(I, f, x)
  PROVE  /\ Queues(I, S, g) /\ Distinct(I, g)
         /\ \A y : In(I, g, y) <=> In(I, f, y) \/ y = x
<1>1. /\ f[c] \in Seq(S) /\ g[c] = Append(f[c], x) /\ g[c] \in Seq(S) /\ Queues(I, S, g)
      /\ \A d \in I : d # c => g[d] = f[d]
  BY DEF Queues, Joins
<1>2. /\ Len(f[c]) \in Nat /\ Len(g[c]) = Len(f[c]) + 1 /\ g[c][Len(f[c]) + 1] = x
      /\ \A i \in 1 .. Len(f[c]) : g[c][i] = f[c][i]
  BY <1>1
<1>3. ASSUME NEW d \in I, NEW i \in 1 .. Len(g[d])
      PROVE  \/ i \in 1 .. Len(f[d]) /\ g[d][i] = f[d][i]
             \/ d = c /\ i = Len(f[c]) + 1 /\ g[d][i] = x
  BY <1>1, <1>2
<1>4. ASSUME NEW d \in I, NEW i \in 1 .. Len(f[d]) PROVE i \in 1 .. Len(g[d]) /\ g[d][i] = f[d][i]
  BY <1>1, <1>2
<1>5. \A d \in I : \A i \in 1 .. Len(f[d]) : f[d][i] # x
  BY DEF In
<1>6. Distinct(I, g)
  <2> SUFFICES ASSUME NEW d \in I, NEW e \in I, NEW i \in 1 .. Len(g[d]), NEW j \in 1 .. Len(g[e]),
                      g[d][i] = g[e][j]
               PROVE  d = e /\ i = j
    BY DEF Distinct
  <2>1. CASE i \in 1 .. Len(f[d]) /\ g[d][i] = f[d][i]
    <3>1. j \in 1 .. Len(f[e]) /\ g[e][j] = f[e][j]
      BY <1>3, <1>5, <2>1
    <3>2. f[d][i] = f[e][j]
      BY <2>1, <3>1
    <3> QED
      BY <2>1, <3>1, <3>2, SamePlace
  <2>2. CASE d = c /\ i = Len(f[c]) + 1 /\ g[d][i] = x
    <3>1. ~(j \in 1 .. Len(f[e]) /\ g[e][j] = f[e][j])
      BY <1>5, <2>2
    <3>2. e = c /\ j = Len(f[c]) + 1
      BY <1>3, <3>1
    <3> QED
      BY <2>2, <3>2
  <2> QED
    BY <1>3, <2>1, <2>2
<1>7. Len(g[c]) \in Nat /\ Len(f[c]) + 1 \in 1 .. Len(g[c])
  BY <1>2
<1>8. ASSUME NEW y PROVE In(I, g, y) <=> In(I, f, y) \/ y = x
  <2>1. In(I, g, y) => In(I, f, y) \/ y = x
    BY <1>3 DEF In
  <2>2. In(I, f, y) => In(I, g, y)
    BY <1>4 DEF In
  <2>3. In(I, g, x)
    BY <1>2, <1>7 DEF In
  <2> QED
    BY <2>1, <2>2, <2>3
<1> QED
  BY <1>1, <1>6, <1>8

\* The first element of one of the queues leaves it.
LEMMA LeaveQueue ==
  ASSUME NEW I, NEW S, NEW f, NEW g, NEW c \in I,
         Queues(I, S, f), Leaves(f, g, c), Distinct(I, f)
  PROVE  /\ Queues(I, S, g) /\ Distinct(I, g) /\ Head(f[c]) \in S /\ In(I, f, Head(f[c]))
         /\ \A y : In(I, g, y) <=> In(I, f, y) /\ y # Head(f[c])
<1>1. /\ f[c] \in Seq(S) /\ f[c] # <<>> /\ g[c] = Tail(f[c]) /\ g[c] \in Seq(S)
      /\ Queues(I, S, g) /\ \A d \in I : d # c => g[d] = f[d]
  BY DEF Queues, Leaves
<1>2. /\ Len(f[c]) \in Nat /\ Len(f[c]) > 0 /\ Len(g[c]) = Len(f[c]) - 1 /\ f[c][1] = Head(f[c])
      /\ Head(f[c]) \in S /\ \A i \in 1 .. Len(g[c]) : g[c][i] = f[c][i + 1]
  BY <1>1
<1>3. 1 \in 1 .. Len(f[c])
  BY <1>2
<1>4. ASSUME NEW d \in I, NEW i \in 1 .. Len(g[d])
      PROVE  \E k \in 1 .. Len(f[d]) : /\ g[d][i] = f[d][k] /\ (d = c => k = i + 1)
                                       /\ (d # c => k = i)
  <2>1. CASE d = c
    <3>1. i + 1 \in 1 .. Len(f[c]) /\ g[c][i] = f[c][i + 1]
      BY <1>2, <2>1
    <3> QED
      BY <2>1, <3>1
  <2>2. CASE d # c
    BY <1>1, <2>2
  <2> QED
    BY <2>1, <2>2
<1>5. ASSUME NEW d \in I, NEW k \in 1 .. Len(f[d]), d # c \/ k # 1
      PROVE  \E i \in 1 .. Len(g[d]) : g[d][i] = f[d][k]
  <2>1. CASE d # c
    BY <1>1, <2>1
  <2>2. CASE d = c
    <3>1. k - 1 \in 1 .. Len(g[c]) /\ (k - 1) + 1 = k
      BY <1>2, <1>5, <2>2
    <3> QED
      BY <1>2, <2>2, <3>1
  <2> QED
    BY <2>1, <2>2
<1>6. Distinct(I, g)
  <2> SUFFICES ASSUME NEW d \in I, NEW e \in I, NEW i \in 1 .. Len(g[d]), NEW j \in 1 .. Len(g[e]),
                      g[d][i] = g[e][j]
               PROVE  d = e /\ i = j
    BY DEF Distinct
  <2>1. PICK k \in 1 .. Len(f[d]) : g[d][i] = f[d][k] /\ (d = c => k = i + 1) /\ (d # c => k = i)
    BY <1>4
  <2>2. PICK l \in 1 .. Len(f[e]) : g[e][j] = f[e][l] /\ (e = c => l = j + 1) /\ (e # c => l = j)
    BY <1>4
  <2>3. f[d][k] = f[e][l]
    BY <2>1, <2>2
  <2>4. d = e /\ k = l
    BY <2>3, SamePlace
  <2> QED
    BY <2>1, <2>2, <2>4
<1>7. \A d \in I : \A k \in 1 .. Len(f[d]) : f[d][k] = Head(f[c]) => d = c /\ k = 1
  BY <1>2, <1>3 DEF Distinct
<1>8. ASSUME NEW y, In(I, g, y) PROVE In(I, f, y) /\ y # Head(f[c])
  <2>1. PICK d \in I : \E i \in 1 .. Len(g[d]) : g[d][i] = y
    BY <1>8 DEF In
  <2>2. PICK i \in 1 .. Len(g[d]) : g[d][i] = y
    BY <2>1
  <2>3. PICK k \in 1 .. Len(f[d]) : g[d][i] = f[d][k] /\ (d = c => k = i + 1) /\ (d # c => k = i)
    BY <1>4
  <2>4. d = c => k # 1
    BY <1>2, <2>2, <2>3
  <2> QED
    BY <1>7, <2>2, <2>3, <2>4 DEF In
<1>9. ASSUME NEW y, In(I, f, y), y # Head(f[c]) PROVE In(I, g, y)
  <2>1. PICK d \in I : \E k \in 1 .. Len(f[d]) : f[d][k] = y
    BY <1>9 DEF In
  <2>2. PICK k \in 1 .. Len(f[d]) : f[d][k] = y
    BY <2>1
  <2>3. d # c \/ k # 1
    BY <1>2, <1>9, <2>2
  <2> QED
    BY <1>5, <2>2, <2>3 DEF In
<1>10. In(I, f, Head(f[c]))
  BY <1>2, <1>3 DEF In
<1> QED
  BY <1>1, <1>2, <1>6, <1>8, <1>9, <1>10

\* One of the queues is emptied.
LEMMA EmptyQueue ==
  ASSUME NEW I, NEW S, NEW f, NEW g, NEW c \in I,
         Queues(I, S, f), Empties(f, g, c), Distinct(I, f)
  PROVE  /\ Queues(I, S, g) /\ Distinct(I, g)
         /\ \A y : In(I, g, y) <=> In(I, f, y) /\ y \notin ToSet(f[c])
         /\ \A y \in ToSet(f[c]) : In(I, f, y)
<1>1. /\ g[c] = <<>> /\ Len(g[c]) = 0 /\ <<>> \in Seq(S) /\ \A d \in I : d # c => g[d] = f[d]
  BY DEF Queues, Empties
<1>2. Queues(I, S, g)
  BY <1>1 DEF Queues, Empties
<1>3. \A d \in I : \A i \in 1 .. Len(g[d]) : d # c /\ i \in 1 .. Len(f[d]) /\ g[d][i] = f[d][i]
  BY <1>1
<1>4. Distinct(I, g)
  BY <1>3 DEF Distinct
<1>5. \A y \in ToSet(f[c]) : \E i \in 1 .. Len(f[c]) : f[c][i] = y
  BY DEF ToSet
<1>6. \A i \in 1 .. Len(f[c]) : f[c][i] \in ToSet(f[c])
  BY DEF ToSet
<1>7. ASSUME NEW y, In(I, g, y) PROVE In(I, f, y) /\ y \notin ToSet(f[c])
  BY <1>3, <1>5, <1>7 DEF In, Distinct
<1>8. ASSUME NEW y, In(I, f, y), y \notin ToSet(f[c]) PROVE In(I, g, y)
  BY <1>1, <1>6, <1>8 DEF In
<1>9. \A y \in ToSet(f[c]) : In(I, f, y)
  BY <1>5 DEF In
<1> QED
  BY <1>2, <1>4, <1>7, <1>8, <1>9

----------------------------------------------------------------------------
(* The inductive invariant.                                                *)

\* A thread has a session while it is in PendingQuery, and a closure carries one
\* if it is to start it.
Carries ==
  /\ \A t \in Thread : at[t] = "idle" <=> sess[t] = NoQuery
  /\ \A i \in 1 .. Len(tasks) : tasks[i].fn = "StartQuery" <=> tasks[i].q # NoQuery

\* The five places of a session.
Held(q) == \E t \in Thread : sess[t] = q
Queued(q) == \E i \in 1 .. Len(tasks) : tasks[i].q = q
Waits(q) == In(Con, pending, q)
Refused(q) == In(Thread, posted, q)
Told(q) == calls[q] # 0

\* It is in one of them at most ...
Apart(q) ==
  /\ Held(q) => ~Queued(q) /\ ~Waits(q) /\ ~Refused(q) /\ ~Told(q)
  /\ Queued(q) => ~Waits(q) /\ ~Refused(q) /\ ~Told(q)
  /\ Waits(q) => ~Refused(q) /\ ~Told(q)
  /\ Refused(q) => ~Told(q)

\* ... and there once.
OneThread == \A t, u \in Thread : sess[t] # NoQuery /\ sess[t] = sess[u] => t = u
OneTask == \A i, j \in 1 .. Len(tasks) : tasks[i].q # NoQuery /\ tasks[i].q = tasks[j].q => i = j
ToldOnce == \A q \in Query : calls[q] <= 1
Single == OneThread /\ OneTask /\ Distinct(Con, pending) /\ Distinct(Thread, posted) /\ ToldOnce

PoolInv == TypeOK /\ Carries /\ (\A q \in Query : Apart(q)) /\ Single

\* A step loses no session: it stays where it is, or goes on from the thread to a
\* loop, from the loop to a connection, from a connection or a refusal to its
\* callback.
MovesOn(q) ==
  /\ Held(q) => Held(q)' \/ Queued(q)' \/ Refused(q)'
  /\ Queued(q) => Queued(q)' \/ Waits(q)'
  /\ Waits(q) => Waits(q)' \/ Told(q)'
  /\ Refused(q) => Refused(q)' \/ Told(q)'
  /\ Told(q) => Told(q)'
AllMoveOn == \A q \in Query : MovesOn(q)

\* The tasks of the loop.
TaskSet == [fn : {"StartQuery", "SyncClose"}, con : Con, q : Query \cup {NoQuery}]

\* The places that a step leaves alone stay as they are.
LEMMA SamePlaces ==
  /\ UNCHANGED sess => (\A q : Held(q)' <=> Held(q)) /\ (OneThread => OneThread')
  /\ UNCHANGED tasks => (\A q : Queued(q)' <=> Queued(q)) /\ (OneTask => OneTask')
  /\ UNCHANGED pending => (\A q : Waits(q)' <=> Waits(q)) /\ (Distinct(Con, pending) => Distinct(Con, pending)')
  /\ UNCHANGED posted => (\A q : Refused(q)' <=> Refused(q)) /\ (Distinct(Thread, posted) => Distinct(Thread, posted)')
  /\ UNCHANGED calls => (\A q : Told(q)' <=> Told(q)) /\ (ToldOnce => ToldOnce')
BY DEF Held, OneThread, Queued, OneTask, Waits, Refused, Told, ToldOnce

\* The callbacks of S are called, for sessions that were not told yet.
LEMMA TellSessions ==
  ASSUME TypeOK, ToldOnce, NEW S, OnQueryDone(S), \A q \in Query : q \in S => ~Told(q)
  PROVE  /\ calls' \in [Query -> Nat] /\ ToldOnce'
         /\ \A q \in Query : Told(q)' <=> Told(q) \/ q \in S
<1>1. calls \in [Query -> Nat]
  BY DEF TypeOK
<1>2. calls' = [q \in Query |-> IF q \in S THEN calls[q] + 1 ELSE calls[q]]
  BY DEF OnQueryDone
<1>3. \A q \in Query : calls'[q] = IF q \in S THEN calls[q] + 1 ELSE calls[q]
  BY <1>2
<1>4. \A q \in Query : q \in S => calls[q] = 0
  BY DEF Told
<1>5. calls' \in [Query -> Nat]
  BY <1>1, <1>2
<1>6. ToldOnce'
  BY <1>1, <1>3, <1>4 DEF ToldOnce
<1>7. \A q \in Query : Told(q)' <=> Told(q) \/ q \in S
  BY <1>1, <1>3, <1>4 DEF Told
<1> QED
  BY <1>5, <1>6, <1>7

\* A thread takes up a session that is nowhere.
LEMMA PendingQueryPool ==
  ASSUME PoolInv, NEW t \in Thread, NEW q \in Query, PendingQuery(t, q)
  PROVE  PoolInv' /\ AllMoveOn
<1>1. TypeOK /\ Carries /\ Single /\ \A p \in Query : Apart(p)
  BY DEF PoolInv
<1>2. /\ at[t] = "idle" /\ q \in Unused /\ sess' = [sess EXCEPT ![t] = q]
      /\ use_index' = Plus(use_index, 1) /\ at' = [at EXCEPT ![t] = "added"]
      /\ UNCHANGED <<pick, tasks, posted, ready, closed, pending, calls, open>>
  BY DEF PendingQuery, conVars
<1>3. sess[t] = NoQuery /\ q # NoQuery
  BY <1>1, <1>2 DEF Carries
<1>4. ~Held(q) /\ ~Queued(q) /\ ~Waits(q) /\ ~Refused(q) /\ ~Told(q)
  <2>1. /\ calls[q] = 0 /\ \A u \in Thread : sess[u] # q
        /\ q \notin {tasks[i].q : i \in DOMAIN tasks}
        /\ \A c \in Con : q \notin ToSet(pending[c])
        /\ \A u \in Thread : q \notin ToSet(posted[u])
    BY <1>2 DEF Unused
  <2>2. DOMAIN tasks = 1 .. Len(tasks)
    BY <1>1 DEF TypeOK
  <2>3. ~Queued(q)
    BY <2>1, <2>2 DEF Queued
  <2>4. ~Waits(q) /\ ~Refused(q)
    BY <2>1 DEF Waits, Refused, In, ToSet
  <2> QED
    BY <2>1, <2>3, <2>4 DEF Held, Told
<1>5. sess' \in [Thread -> Query \cup {NoQuery}] /\ at' \in [Thread -> {"idle", "added", "picked"}]
  BY <1>1, <1>2 DEF TypeOK
<1>6. use_index' \in IntRange
  <2>1. 1 \in 1 .. 2 * Count - 1
    OBVIOUS
  <2> QED
    BY <1>1, <1>2, <2>1, PlusFacts DEF TypeOK
<1>7. TypeOK'
  BY <1>1, <1>2, <1>5, <1>6 DEF TypeOK
<1>8. sess'[t] = q /\ at'[t] = "added" /\ \A u \in Thread : u # t => sess'[u] = sess[u] /\ at'[u] = at[u]
  BY <1>1, <1>2 DEF TypeOK
<1>9. \A p \in Query : Held(p)' <=> Held(p) \/ p = q
  BY <1>3, <1>8 DEF Held
<1>10. OneThread'
  BY <1>1, <1>4, <1>8 DEF OneThread, Held, Single
<1>11. Carries'
  BY <1>1, <1>2, <1>3, <1>8 DEF Carries
<1>12. \A p \in Query : Apart(p)'
  BY <1>1, <1>2, <1>4, <1>9, SamePlaces DEF Apart
<1>13. Single'
  BY <1>1, <1>2, <1>10, SamePlaces DEF Single
<1>14. AllMoveOn
  BY <1>1, <1>2, <1>4, <1>9, SamePlaces DEF AllMoveOn, MovesOn
<1> QED
  BY <1>7, <1>11, <1>12, <1>13, <1>14 DEF PoolInv

\* Looking at a connection moves no session.
LEMMA ChoosePool ==
  ASSUME PoolInv, NEW t \in Thread, Choose(t)
  PROVE  PoolInv' /\ AllMoveOn
<1>1. TypeOK /\ Carries /\ Single /\ \A p \in Query : Apart(p)
  BY DEF PoolInv
<1>2. /\ at[t] = "added" /\ pick' = [pick EXCEPT ![t] = IndexOf(use_index)]
      /\ at' = [at EXCEPT ![t] = "picked"]
      /\ UNCHANGED <<use_index, sess, tasks, posted, ready, closed, pending, calls, open>>
  BY DEF Choose, conVars
<1>3. IndexOf(use_index) \in Con
  BY <1>1, IndexFacts DEF TypeOK
<1>4. TypeOK'
  BY <1>1, <1>2, <1>3 DEF TypeOK
<1>5. Carries'
  BY <1>1, <1>2 DEF Carries, TypeOK
<1>6. (\A p \in Query : Apart(p)') /\ Single'
  BY <1>1, <1>2, SamePlaces DEF Apart, Single
<1>7. AllMoveOn
  BY <1>1, <1>2, SamePlaces DEF AllMoveOn, MovesOn
<1> QED
  BY <1>4, <1>5, <1>6, <1>7 DEF PoolInv

\* The session leaves the thread, for the loop of its connection or its own.
LEMMA HandOverPool ==
  ASSUME PoolInv, NEW t \in Thread, HandOver(t)
  PROVE  PoolInv' /\ AllMoveOn
<1>1. TypeOK /\ Carries /\ Single /\ \A p \in Query : Apart(p)
  BY DEF PoolInv
<1> DEFINE q == sess[t]
<1>2. /\ at[t] = "picked" /\ sess' = [sess EXCEPT ![t] = NoQuery] /\ at' = [at EXCEPT ![t] = "idle"]
      /\ UNCHANGED <<use_index, pick, ready, closed, pending, calls, open>>
  BY DEF HandOver, PendingReturns, conVars
<1>3. q \in Query /\ q # NoQuery /\ pick[t] \in Con
  BY <1>1, <1>2 DEF Carries, TypeOK
<1>4. sess'[t] = NoQuery /\ at'[t] = "idle" /\ \A u \in Thread : u # t => sess'[u] = sess[u] /\ at'[u] = at[u]
  BY <1>1, <1>2 DEF TypeOK
<1>5. sess' \in [Thread -> Query \cup {NoQuery}] /\ at' \in [Thread -> {"idle", "added", "picked"}]
  BY <1>1, <1>2 DEF TypeOK
<1>6. Held(q)
  BY DEF Held
<1>7. \A u \in Thread : u # t => sess[u] # q
  BY <1>1, <1>3 DEF Single, OneThread
<1> HIDE DEF q
<1>8. \A p \in Query : Held(p)' <=> Held(p) /\ p # q
  <2>1. \A u \in Thread : sess'[u] = IF u = t THEN NoQuery ELSE sess[u]
    BY <1>4
  <2> QED
    BY <1>7, <2>1 DEF Held, q
<1>9. OneThread'
  BY <1>1, <1>4 DEF OneThread, Single
<1>10. Apart(q)
  BY <1>1, <1>3
<1>11. CASE tasks' = Append(tasks, Task("StartQuery", pick[t], q)) /\ UNCHANGED posted
  <2>1. tasks \in Seq(TaskSet) /\ Task("StartQuery", pick[t], q) \in TaskSet
    BY <1>1, <1>3 DEF TypeOK, TaskSet, Task
  <2>2. /\ tasks' \in Seq(TaskSet) /\ Len(tasks) \in Nat /\ Len(tasks') = Len(tasks) + 1
        /\ tasks'[Len(tasks')] = Task("StartQuery", pick[t], q)
        /\ \A i \in 1 .. Len(tasks) : tasks'[i] = tasks[i]
        /\ \A i \in 1 .. Len(tasks') : i \in 1 .. Len(tasks) \/ i = Len(tasks')
        /\ Len(tasks') \in 1 .. Len(tasks') /\ \A i \in 1 .. Len(tasks) : i \in 1 .. Len(tasks')
    BY <1>11, <2>1
  <2>3. tasks'[Len(tasks')].fn = "StartQuery" /\ tasks'[Len(tasks')].q = q
    BY <2>2 DEF Task
  <2>4. \A p \in Query : Queued(p)' <=> Queued(p) \/ p = q
    BY <2>2, <2>3 DEF Queued
  <2>5. ~Queued(q)
    BY <1>6, <1>10 DEF Apart
  <2>6. OneTask'
    BY <1>1, <2>2, <2>3, <2>5 DEF Single, OneTask, Queued
  <2>7. TypeOK'
    BY <1>1, <1>2, <1>5, <1>11, <2>2 DEF TypeOK, TaskSet
  <2>8. Carries'
    BY <1>1, <1>2, <1>3, <1>4, <2>2, <2>3 DEF Carries
  <2>9. \A p \in Query : Apart(p)'
    BY <1>1, <1>2, <1>6, <1>8, <1>11, <2>4, SamePlaces DEF Apart
  <2>10. Single'
    BY <1>1, <1>2, <1>9, <1>11, <2>6, SamePlaces DEF Single
  <2>11. AllMoveOn
    BY <1>1, <1>2, <1>6, <1>8, <1>11, <2>4, SamePlaces DEF AllMoveOn, MovesOn
  <2> QED
    BY <2>7, <2>8, <2>9, <2>10, <2>11 DEF PoolInv
<1>12. CASE posted' = [posted EXCEPT ![t] = Append(@, q)] /\ UNCHANGED tasks
  <2>1. posted \in [Thread -> Seq(Query)] /\ Distinct(Thread, posted) /\ ~In(Thread, posted, q)
    BY <1>1, <1>6, <1>10 DEF TypeOK, Single, Apart, Refused
  <2>2. Queues(Thread, Query, posted) /\ Joins(posted, posted', t, q)
    BY <1>12, <2>1 DEF Queues, Joins
  <2>3. /\ Queues(Thread, Query, posted') /\ Distinct(Thread, posted')
        /\ \A p : In(Thread, posted', p) <=> In(Thread, posted, p) \/ p = q
    BY <1>3, <2>1, <2>2, JoinQueue
  <2>4. \A p \in Query : Refused(p)' <=> Refused(p) \/ p = q
    BY <2>3 DEF Refused, In
  <2>5. Distinct(Thread, posted)'
    BY <2>3 DEF Distinct
  <2>6. TypeOK'
    BY <1>1, <1>2, <1>5, <1>12, <2>3 DEF TypeOK, Queues
  <2>7. Carries'
    BY <1>1, <1>4, <1>12 DEF Carries
  <2>8. \A p \in Query : Apart(p)'
    BY <1>1, <1>2, <1>6, <1>8, <1>12, <2>4, SamePlaces DEF Apart
  <2>9. Single'
    BY <1>1, <1>2, <1>9, <1>12, <2>5, SamePlaces DEF Single
  <2>10. AllMoveOn
    BY <1>1, <1>2, <1>6, <1>8, <1>12, <2>4, SamePlaces DEF AllMoveOn, MovesOn
  <2> QED
    BY <2>6, <2>7, <2>8, <2>9, <2>10 DEF PoolInv
<1> QED
  BY <1>11, <1>12 DEF HandOver, q

\* A thread runs the oldest closure of its loop: the refused session is told.
LEMMA RunRefusedPool ==
  ASSUME PoolInv, NEW t \in Thread, RunRefused(t)
  PROVE  PoolInv' /\ AllMoveOn
<1>1. TypeOK /\ Carries /\ Single /\ \A p \in Query : Apart(p)
  BY DEF PoolInv
<1> DEFINE q == Head(posted[t])
<1>2. /\ OnQueryDone({q})
      /\ UNCHANGED <<use_index, at, sess, pick, tasks, ready, closed, pending, open>>
  BY DEF RunRefused, threadVars, conVars
<1>3. Queues(Thread, Query, posted) /\ Leaves(posted, posted', t) /\ Distinct(Thread, posted)
  BY <1>1 DEF RunRefused, TypeOK, Queues, Leaves, Single
<1>4. /\ Queues(Thread, Query, posted') /\ Distinct(Thread, posted') /\ q \in Query
      /\ In(Thread, posted, q)
      /\ \A p : In(Thread, posted', p) <=> In(Thread, posted, p) /\ p # q
  BY <1>3, LeaveQueue
<1> HIDE DEF q
<1>5. (\A p \in Query : Refused(p)' <=> Refused(p) /\ p # q) /\ Refused(q)
  BY <1>4 DEF Refused, In
<1>6. ~Told(q)
  BY <1>1, <1>4, <1>5 DEF Apart
<1>7. /\ calls' \in [Query -> Nat] /\ ToldOnce'
      /\ \A p \in Query : Told(p)' <=> Told(p) \/ p \in {q}
  <2>1. \A p \in Query : p \in {q} => ~Told(p)
    BY <1>6
  <2>2. ToldOnce
    BY <1>1 DEF Single
  <2> QED
    BY <1>1, <1>2, <2>1, <2>2, TellSessions
<1>8. TypeOK'
  BY <1>1, <1>2, <1>4, <1>7 DEF TypeOK, Queues
<1>9. Carries'
  BY <1>1, <1>2 DEF Carries
<1>10. Distinct(Thread, posted)'
  BY <1>4 DEF Distinct
<1>11. \A p \in Query : Apart(p)'
  BY <1>1, <1>2, <1>4, <1>5, <1>7, SamePlaces DEF Apart
<1>12. Single'
  BY <1>1, <1>2, <1>7, <1>10, SamePlaces DEF Single
<1>13. AllMoveOn
  BY <1>1, <1>2, <1>4, <1>5, <1>7, SamePlaces DEF AllMoveOn, MovesOn
<1> QED
  BY <1>8, <1>9, <1>11, <1>12, <1>13 DEF PoolInv

\* Close posts closures that carry no session.
LEMMA ClosePool ==
  ASSUME PoolInv, Close
  PROVE  PoolInv' /\ AllMoveOn
<1>1. TypeOK /\ Carries /\ Single /\ \A p \in Query : Apart(p)
  BY DEF PoolInv
<1> DEFINE more == [i \in 1 .. Count |-> Task("SyncClose", i - 1, NoQuery)]
<1>2. /\ open' = FALSE /\ tasks' = tasks \o more
      /\ UNCHANGED <<use_index, at, sess, pick, posted, ready, closed, pending, calls>>
  BY DEF Close, threadVars, conVars
<1>3. Count \in Nat
  BY CountAssumption
<1>4. ASSUME NEW i \in 1 .. Count
      PROVE  Task("SyncClose", i - 1, NoQuery) \in TaskSet
  <2>1. i - 1 \in Con
    BY <1>3 DEF Con
  <2> QED
    BY <2>1 DEF Task, TaskSet
<1>5. more \in Seq(TaskSet) /\ Len(more) = Count
  BY <1>3, <1>4
<1>6. \A i \in 1 .. Len(more) : more[i].fn = "SyncClose" /\ more[i].q = NoQuery
  BY <1>5 DEF Task
<1> HIDE DEF more
<1>7. tasks \in Seq(TaskSet) /\ Len(tasks) \in Nat /\ Len(more) \in Nat
  BY <1>1, <1>3, <1>5 DEF TypeOK, TaskSet
<1>8. tasks' \in Seq(TaskSet)
  BY <1>2, <1>5, <1>7
<1>9. /\ Len(tasks') = Len(tasks) + Len(more)
      /\ \A i \in 1 .. Len(tasks') : tasks'[i] = IF i <= Len(tasks) THEN tasks[i]
                                                 ELSE more[i - Len(tasks)]
  <2>1. Len(tasks \o more) = Len(tasks) + Len(more)
    BY <1>5, <1>7, ConcatProperties
  <2>2. ASSUME NEW i \in 1 .. Len(tasks) + Len(more)
        PROVE  (tasks \o more)[i] = IF i <= Len(tasks) THEN tasks[i] ELSE more[i - Len(tasks)]
    BY <1>5, <1>7
  <2> QED
    BY <1>2, <2>1, <2>2
<1>10. ASSUME NEW i \in 1 .. Len(tasks')
       PROVE  \/ i \in 1 .. Len(tasks) /\ tasks'[i] = tasks[i]
              \/ i \notin 1 .. Len(tasks) /\ tasks'[i].fn = "SyncClose" /\ tasks'[i].q = NoQuery
  <2>1. CASE i <= Len(tasks)
    BY <1>7, <1>9, <2>1
  <2>2. CASE ~(i <= Len(tasks))
    <3>1. i - Len(tasks) \in 1 .. Len(more)
      BY <1>7, <1>9, <2>2
    <3> QED
      BY <1>6, <1>7, <1>9, <2>2, <3>1
  <2> QED
    BY <2>1, <2>2
<1>11. \A i \in 1 .. Len(tasks) : i \in 1 .. Len(tasks') /\ tasks'[i] = tasks[i]
  BY <1>7, <1>9
<1>12. \A p \in Query : Queued(p)' <=> Queued(p)
  BY <1>10, <1>11, QueryAssumption DEF Queued
<1>13. OneTask'
  BY <1>1, <1>10 DEF Single, OneTask
<1>14. TypeOK'
  BY <1>1, <1>2, <1>8 DEF TypeOK, TaskSet
<1>15. Carries'
  BY <1>1, <1>2, <1>10 DEF Carries
<1>16. \A p \in Query : Apart(p)'
  BY <1>1, <1>2, <1>12, SamePlaces DEF Apart
<1>17. Single'
  BY <1>1, <1>2, <1>13, SamePlaces DEF Single
<1>18. AllMoveOn
  BY <1>1, <1>2, <1>12, SamePlaces DEF AllMoveOn, MovesOn
<1> QED
  BY <1>14, <1>15, <1>16, <1>17, <1>18 DEF PoolInv

\* The oldest closure leaves the loop, with the session it carries.
LEMMA TakeTask ==
  ASSUME TypeOK, Carries, OneTask, tasks # <<>>, tasks' = Tail(tasks)
  PROVE  /\ tasks' \in Seq(TaskSet) /\ Head(tasks) \in TaskSet /\ OneTask'
         /\ \A i \in 1 .. Len(tasks') : tasks'[i].fn = "StartQuery" <=> tasks'[i].q # NoQuery
         /\ Head(tasks).fn = "StartQuery" <=> Head(tasks).q # NoQuery
         /\ Queued(Head(tasks).q)
         /\ \A p \in Query : Queued(p)' <=> Queued(p) /\ p # Head(tasks).q
<1>1. tasks \in Seq(TaskSet)
  BY DEF TypeOK, TaskSet
<1>2. /\ tasks' \in Seq(TaskSet) /\ Head(tasks) \in TaskSet /\ Head(tasks) = tasks[1]
      /\ Len(tasks) \in Nat /\ Len(tasks) > 0 /\ Len(tasks') = Len(tasks) - 1
      /\ \A i \in 1 .. Len(tasks') : tasks'[i] = tasks[i + 1]
  BY <1>1
<1>3. 1 \in 1 .. Len(tasks)
  BY <1>2
<1>4. \A i \in 1 .. Len(tasks') : i + 1 \in 1 .. Len(tasks) /\ i + 1 # 1 /\ i \in Int
  BY <1>2
<1>5. \A k \in 1 .. Len(tasks) : k = 1 \/ \E i \in 1 .. Len(tasks') : k = i + 1
  <2> SUFFICES ASSUME NEW k \in 1 .. Len(tasks), k # 1 PROVE \E i \in 1 .. Len(tasks') : k = i + 1
    OBVIOUS
  <2>1. k - 1 \in 1 .. Len(tasks') /\ k = (k - 1) + 1
    BY <1>2
  <2> QED
    BY <2>1
<1>6. OneTask'
  <2> SUFFICES ASSUME NEW i \in 1 .. Len(tasks'), NEW j \in 1 .. Len(tasks'),
                      tasks'[i].q # NoQuery, tasks'[i].q = tasks'[j].q
               PROVE  i = j
    BY DEF OneTask
  <2>1. i + 1 = j + 1
    BY <1>2, <1>4 DEF OneTask
  <2> QED
    BY <1>4, <2>1
<1>7. \A i \in 1 .. Len(tasks') : tasks'[i].fn = "StartQuery" <=> tasks'[i].q # NoQuery
  BY <1>2, <1>4 DEF Carries
<1>8. (Head(tasks).fn = "StartQuery" <=> Head(tasks).q # NoQuery) /\ Queued(Head(tasks).q)
  BY <1>2, <1>3 DEF Carries, Queued
<1>9. ASSUME NEW p \in Query, Queued(p)' PROVE Queued(p) /\ p # Head(tasks).q
  <2>1. PICK i \in 1 .. Len(tasks') : tasks'[i].q = p
    BY <1>9 DEF Queued
  <2>2. tasks[i + 1].q = p /\ i + 1 \in 1 .. Len(tasks) /\ i + 1 # 1
    BY <1>2, <1>4, <2>1
  <2>3. p # NoQuery
    BY QueryAssumption
  <2> QED
    BY <1>2, <1>3, <2>2, <2>3 DEF Queued, OneTask
<1>10. ASSUME NEW p \in Query, Queued(p), p # Head(tasks).q PROVE Queued(p)'
  <2>1. PICK k \in 1 .. Len(tasks) : tasks[k].q = p
    BY <1>10 DEF Queued
  <2>2. PICK i \in 1 .. Len(tasks') : k = i + 1
    BY <1>2, <1>5, <1>10, <2>1
  <2>3. tasks'[i].q = p
    BY <1>2, <2>1, <2>2
  <2> QED
    BY <2>3 DEF Queued
<1> QED
  BY <1>2, <1>6, <1>7, <1>8, <1>9, <1>10

\* A connection that closes tells all its sessions, and keeps none.
LEMMA AbortSessions ==
  ASSUME TypeOK, Single, \A p \in Query : Apart(p), NEW c \in Con, Aborted(c)
  PROVE  /\ calls' \in [Query -> Nat] /\ pending' \in [Con -> Seq(Query)]
         /\ ready' \in [Con -> BOOLEAN] /\ closed' \in [Con -> BOOLEAN]
         /\ Distinct(Con, pending)' /\ ToldOnce'
         /\ \A p \in Query : Waits(p)' <=> Waits(p) /\ p \notin ToSet(pending[c])
         /\ \A p \in Query : Told(p)' <=> Told(p) \/ p \in ToSet(pending[c])
         /\ \A p \in ToSet(pending[c]) : Waits(p)
<1>1. OnQueryDone(ToSet(pending[c]))
  BY DEF Aborted
<1>2. ready' \in [Con -> BOOLEAN] /\ closed' \in [Con -> BOOLEAN]
  BY DEF Aborted, TypeOK
<1>3. Queues(Con, Query, pending) /\ Empties(pending, pending', c) /\ Distinct(Con, pending)
  BY DEF Aborted, TypeOK, Single, Queues, Empties
<1>4. /\ Queues(Con, Query, pending') /\ Distinct(Con, pending')
      /\ \A y : In(Con, pending', y) <=> In(Con, pending, y) /\ y \notin ToSet(pending[c])
      /\ \A y \in ToSet(pending[c]) : In(Con, pending, y)
  BY <1>3, EmptyQueue
<1>5. \A p \in Query : p \in ToSet(pending[c]) => ~Told(p)
  BY <1>4 DEF Apart, Waits
<1>6. /\ calls' \in [Query -> Nat] /\ ToldOnce'
      /\ \A p \in Query : Told(p)' <=> Told(p) \/ p \in ToSet(pending[c])
  <2>1. ToldOnce
    BY DEF Single
  <2> QED
    BY <1>1, <1>5, <2>1, TellSessions
<1>7. pending' \in [Con -> Seq(Query)]
  BY <1>4 DEF Queues
<1>8. Distinct(Con, pending)'
  BY <1>4 DEF Distinct
<1>9. \A p \in Query : Waits(p)' <=> Waits(p) /\ p \notin ToSet(pending[c])
  BY <1>4 DEF Waits, In
<1>10. \A p \in ToSet(pending[c]) : Waits(p)
  BY <1>4 DEF Waits
<1> QED
  BY <1>2, <1>6, <1>7, <1>8, <1>9, <1>10

\* The loop runs its oldest closure: the session goes to its connection, or the
\* connection closes.
LEMMA RunTaskPool ==
  ASSUME PoolInv, RunTask
  PROVE  PoolInv' /\ AllMoveOn
<1>1. TypeOK /\ Carries /\ Single /\ (\A p \in Query : Apart(p)) /\ OneTask
  BY DEF PoolInv, Single
<1> DEFINE c == Head(tasks).con
           q == Head(tasks).q
<1>2. /\ tasks # <<>> /\ tasks' = Tail(tasks)
      /\ UNCHANGED <<use_index, at, sess, pick, posted, open>>
  BY DEF RunTask, threadVars
<1>3. /\ tasks' \in Seq(TaskSet) /\ Head(tasks) \in TaskSet /\ OneTask'
      /\ \A i \in 1 .. Len(tasks') : tasks'[i].fn = "StartQuery" <=> tasks'[i].q # NoQuery
      /\ Head(tasks).fn = "StartQuery" <=> q # NoQuery
      /\ Queued(q)
      /\ \A p \in Query : Queued(p)' <=> Queued(p) /\ p # q
  BY <1>1, <1>2, TakeTask
<1>4. c \in Con /\ q \in Query \cup {NoQuery}
  BY <1>3 DEF TaskSet
<1>5. Carries'
  BY <1>1, <1>2, <1>3 DEF Carries
<1>6. CASE /\ Head(tasks).fn = "StartQuery" /\ pending' = [pending EXCEPT ![c] = Append(@, q)]
           /\ UNCHANGED <<ready, closed, calls>>
  <2>1. q \in Query /\ Queued(q)
    BY <1>3, <1>4, <1>6
  <2>2. /\ Queues(Con, Query, pending) /\ Joins(pending, pending', c, q) /\ Distinct(Con, pending)
        /\ ~In(Con, pending, q)
    BY <1>1, <1>6, <2>1 DEF TypeOK, Queues, Joins, Single, Apart, Waits
  <2> HIDE DEF c, q
  <2>3. /\ Queues(Con, Query, pending') /\ Distinct(Con, pending')
        /\ \A p : In(Con, pending', p) <=> In(Con, pending, p) \/ p = q
    BY <1>4, <2>1, <2>2, JoinQueue
  <2>4. (\A p \in Query : Waits(p)' <=> Waits(p) \/ p = q) /\ Distinct(Con, pending)'
    BY <2>3 DEF Waits, In, Distinct
  <2>5. TypeOK'
    BY <1>1, <1>2, <1>3, <1>6, <2>3 DEF TypeOK, TaskSet, Queues
  <2>6. \A p \in Query : Apart(p)'
    BY <1>1, <1>2, <1>3, <1>6, <2>1, <2>4, SamePlaces DEF Apart
  <2>7. Single'
    BY <1>1, <1>2, <1>3, <1>6, <2>4, SamePlaces DEF Single
  <2>8. AllMoveOn
    BY <1>1, <1>2, <1>3, <1>6, <2>1, <2>4, SamePlaces DEF AllMoveOn, MovesOn
  <2> QED
    BY <1>5, <2>5, <2>6, <2>7, <2>8 DEF PoolInv
<1>7. CASE Head(tasks).fn = "SyncClose" /\ Aborted(c)
  <2>1. q = NoQuery /\ q \notin Query
    BY <1>3, <1>4, <1>7, QueryAssumption
  <2> HIDE DEF c, q
  <2>2. /\ calls' \in [Query -> Nat] /\ pending' \in [Con -> Seq(Query)]
        /\ ready' \in [Con -> BOOLEAN] /\ closed' \in [Con -> BOOLEAN]
        /\ Distinct(Con, pending)' /\ ToldOnce'
        /\ \A p \in Query : Waits(p)' <=> Waits(p) /\ p \notin ToSet(pending[c])
        /\ \A p \in Query : Told(p)' <=> Told(p) \/ p \in ToSet(pending[c])
        /\ \A p \in ToSet(pending[c]) : Waits(p)
    BY <1>1, <1>4, <1>7, AbortSessions
  <2>3. TypeOK'
    BY <1>1, <1>2, <1>3, <2>2 DEF TypeOK, TaskSet
  <2>4. \A p \in Query : Apart(p)'
    BY <1>1, <1>2, <1>3, <2>1, <2>2, SamePlaces DEF Apart
  <2>5. Single'
    BY <1>1, <1>2, <1>3, <2>2, SamePlaces DEF Single
  <2>6. AllMoveOn
    BY <1>1, <1>2, <1>3, <2>1, <2>2, SamePlaces DEF AllMoveOn, MovesOn
  <2> QED
    BY <1>5, <2>3, <2>4, <2>5, <2>6 DEF PoolInv
<1> QED
  BY <1>6, <1>7 DEF RunTask

\* A connection answers its oldest session.
LEMMA AnswerPool ==
  ASSUME PoolInv, NEW c \in Con, Answer(c)
  PROVE  PoolInv' /\ AllMoveOn
<1>1. TypeOK /\ Carries /\ Single /\ \A p \in Query : Apart(p)
  BY DEF PoolInv
<1> DEFINE q == Head(pending[c])
<1>2. /\ OnQueryDone({q})
      /\ UNCHANGED <<use_index, at, sess, pick, tasks, posted, ready, closed, open>>
  BY DEF Answer, threadVars
<1>3. Queues(Con, Query, pending) /\ Leaves(pending, pending', c) /\ Distinct(Con, pending)
  BY <1>1 DEF Answer, TypeOK, Queues, Leaves, Single
<1>4. /\ Queues(Con, Query, pending') /\ Distinct(Con, pending') /\ q \in Query
      /\ In(Con, pending, q)
      /\ \A p : In(Con, pending', p) <=> In(Con, pending, p) /\ p # q
  BY <1>3, LeaveQueue
<1> HIDE DEF q
<1>5. (\A p \in Query : Waits(p)' <=> Waits(p) /\ p # q) /\ Waits(q)
  BY <1>4 DEF Waits, In
<1>6. ~Told(q)
  BY <1>1, <1>4, <1>5 DEF Apart
<1>7. /\ calls' \in [Query -> Nat] /\ ToldOnce'
      /\ \A p \in Query : Told(p)' <=> Told(p) \/ p \in {q}
  <2>1. \A p \in Query : p \in {q} => ~Told(p)
    BY <1>6
  <2>2. ToldOnce
    BY <1>1 DEF Single
  <2> QED
    BY <1>1, <1>2, <2>1, <2>2, TellSessions
<1>8. TypeOK'
  BY <1>1, <1>2, <1>4, <1>7 DEF TypeOK, Queues
<1>9. Carries'
  BY <1>1, <1>2 DEF Carries
<1>10. Distinct(Con, pending)'
  BY <1>4 DEF Distinct
<1>11. \A p \in Query : Apart(p)'
  BY <1>1, <1>2, <1>4, <1>5, <1>7, SamePlaces DEF Apart
<1>12. Single'
  BY <1>1, <1>2, <1>7, <1>10, SamePlaces DEF Single
<1>13. AllMoveOn
  BY <1>1, <1>2, <1>4, <1>5, <1>7, SamePlaces DEF AllMoveOn, MovesOn
<1> QED
  BY <1>8, <1>9, <1>11, <1>12, <1>13 DEF PoolInv

\* A ping moves no session.
LEMMA PingPool ==
  ASSUME PoolInv, NEW c \in Con, Ping(c)
  PROVE  PoolInv' /\ AllMoveOn
<1>1. TypeOK /\ Carries /\ Single /\ \A p \in Query : Apart(p)
  BY DEF PoolInv
<1>2. UNCHANGED <<use_index, at, sess, pick, tasks, posted, closed, pending, calls, open>>
  BY DEF Ping, threadVars
<1>3. ready' \in [Con -> BOOLEAN]
  <2>1. PICK ok \in BOOLEAN : ready' = [ready EXCEPT ![c] = ok /\ ~closed[c]]
    BY DEF Ping
  <2>2. ready \in [Con -> BOOLEAN]
    BY <1>1 DEF TypeOK
  <2>3. (ok /\ ~closed[c]) \in BOOLEAN
    BY Zenon
  <2> QED
    BY <2>1, <2>2, <2>3
<1>4. TypeOK'
  BY <1>1, <1>2, <1>3 DEF TypeOK
<1>5. Carries'
  BY <1>1, <1>2 DEF Carries
<1>6. (\A p \in Query : Apart(p)') /\ Single'
  BY <1>1, <1>2, SamePlaces DEF Apart, Single
<1>7. AllMoveOn
  BY <1>1, <1>2, SamePlaces DEF AllMoveOn, MovesOn
<1> QED
  BY <1>4, <1>5, <1>6, <1>7 DEF PoolInv

\* A connection breaks.
LEMMA BreakPool ==
  ASSUME PoolInv, NEW c \in Con, Break(c)
  PROVE  PoolInv' /\ AllMoveOn
<1>1. TypeOK /\ Carries /\ Single /\ \A p \in Query : Apart(p)
  BY DEF PoolInv
<1>2. Aborted(c) /\ UNCHANGED <<use_index, at, sess, pick, tasks, posted, open>>
  BY DEF Break, threadVars
<1>3. /\ calls' \in [Query -> Nat] /\ pending' \in [Con -> Seq(Query)]
      /\ ready' \in [Con -> BOOLEAN] /\ closed' \in [Con -> BOOLEAN]
      /\ Distinct(Con, pending)' /\ ToldOnce'
      /\ \A p \in Query : Waits(p)' <=> Waits(p) /\ p \notin ToSet(pending[c])
      /\ \A p \in Query : Told(p)' <=> Told(p) \/ p \in ToSet(pending[c])
      /\ \A p \in ToSet(pending[c]) : Waits(p)
  BY <1>1, <1>2, AbortSessions
<1>4. TypeOK'
  BY <1>1, <1>2, <1>3 DEF TypeOK
<1>5. Carries'
  BY <1>1, <1>2 DEF Carries
<1>6. \A p \in Query : Apart(p)'
  BY <1>1, <1>2, <1>3, SamePlaces DEF Apart
<1>7. Single'
  BY <1>1, <1>2, <1>3, SamePlaces DEF Single
<1>8. AllMoveOn
  BY <1>1, <1>2, <1>3, SamePlaces DEF AllMoveOn, MovesOn
<1> QED
  BY <1>4, <1>5, <1>6, <1>7, <1>8 DEF PoolInv

\* PoolInv holds at first: no session is anywhere.
LEMMA PoolInit ==
  ASSUME Init
  PROVE  PoolInv
<1>1. Count \in Nat /\ 0 \in Con
  BY CountAssumption DEF Con
<1>2. TypeOK
  BY <1>1 DEF Init, TypeOK
<1>3. /\ \A t \in Thread : at[t] = "idle" /\ sess[t] = NoQuery /\ posted[t] = <<>>
      /\ \A c \in Con : pending[c] = <<>>
      /\ \A q \in Query : calls[q] = 0
      /\ tasks = <<>>
  BY DEF Init
<1>4. \A i \in 1 .. Len(tasks) : FALSE
  BY <1>3
<1>5. Carries
  BY <1>3, <1>4 DEF Carries
<1>6. /\ \A t \in Thread : \A i \in 1 .. Len(posted[t]) : FALSE
      /\ \A c \in Con : \A i \in 1 .. Len(pending[c]) : FALSE
  BY <1>3
<1>7. \A q \in Query : ~Held(q) /\ ~Queued(q) /\ ~Waits(q) /\ ~Refused(q) /\ ~Told(q)
  BY <1>3, <1>4, <1>6, QueryAssumption DEF Held, Queued, Waits, Refused, In, Told
<1>8. \A q \in Query : Apart(q)
  BY <1>7 DEF Apart
<1>9. OneThread /\ OneTask /\ ToldOnce
  BY <1>3, <1>4 DEF OneThread, OneTask, ToldOnce
<1>10. Distinct(Con, pending) /\ Distinct(Thread, posted)
  BY <1>6 DEF Distinct
<1> QED
  BY <1>2, <1>5, <1>8, <1>9, <1>10 DEF PoolInv, Single

\* Every step keeps PoolInv.
LEMMA PoolStep == PoolInv /\ [Next]_vars => PoolInv' /\ [AllMoveOn]_vars
<1> SUFFICES ASSUME PoolInv, [Next]_vars PROVE PoolInv' /\ [AllMoveOn]_vars
  OBVIOUS
<1>1. CASE UNCHANGED vars
  <2>1. UNCHANGED <<use_index, at, sess, pick, tasks, posted, ready, closed, pending, calls, open>>
    BY <1>1 DEF vars, threadVars, conVars
  <2>2. TypeOK' /\ Carries'
    BY <2>1 DEF PoolInv, TypeOK, Carries
  <2>3. (\A p \in Query : Apart(p)') /\ Single'
    BY <2>1, SamePlaces DEF PoolInv, Apart, Single
  <2> QED
    BY <1>1, <2>2, <2>3 DEF PoolInv
<1>2. ASSUME NEW t \in Thread, NEW q \in Query, PendingQuery(t, q) PROVE PoolInv' /\ AllMoveOn
  BY <1>2, PendingQueryPool
<1>3. ASSUME NEW t \in Thread, ThreadStep(t) PROVE PoolInv' /\ AllMoveOn
  BY <1>3, ChoosePool, HandOverPool, RunRefusedPool DEF ThreadStep
<1>4. CASE Close \/ RunTask
  BY <1>4, ClosePool, RunTaskPool
<1>5. ASSUME NEW c \in Con, Answer(c) \/ Ping(c) \/ Break(c) PROVE PoolInv' /\ AllMoveOn
  BY <1>5, AnswerPool, PingPool, BreakPool
<1> QED
  BY <1>1, <1>2, <1>3, <1>4, <1>5 DEF Next, Loop

\* PoolInv is an invariant.
LEMMA PoolInvariant == Spec => []PoolInv
<1>1. Init => PoolInv
  BY PoolInit
<1> QED
  BY <1>1, PoolStep, PTL DEF Spec

----------------------------------------------------------------------------
(* What it says of the places.                                             *)

\* A set whose elements are all the same has one of them, if any.
LEMMA AtMostOne ==
  ASSUME NEW S, \A x, y \in S : x = y
  PROVE  Cardinality(S) \in {0, 1} /\ (Cardinality(S) # 0 => \E x \in S : TRUE)
<1>1. CASE S = {}
  BY <1>1, FS_EmptySet
<1>2. CASE S # {}
  <2>1. PICK x \in S : TRUE
    BY <1>2
  <2>2. S = {x}
    BY <2>1
  <2>3. Cardinality(S) = 1
    BY <2>2, FS_Singleton
  <2> QED
    BY <2>1, <2>3
<1> QED
  BY <1>1, <1>2

\* The numbers of a session's places add up to one at most.
LEMMA OnePlace ==
  ASSUME PoolInv
  PROVE  SessionInOnePlace
<1>1. TypeOK /\ Single /\ \A p \in Query : Apart(p)
  BY DEF PoolInv
<1> SUFFICES ASSUME NEW q \in Query PROVE Places(q) <= 1
  BY DEF SessionInOnePlace
<1>2. q # NoQuery /\ Apart(q)
  BY <1>1, QueryAssumption
<1> DEFINE A == {t \in Thread : sess[t] = q}
           s == [i \in DOMAIN tasks |-> tasks[i].q]
           B == {i \in DOMAIN s : s[i] = q}
           C == {c \in Con : q \in ToSet(pending[c])}
           D == {t \in Thread : q \in ToSet(posted[t])}
           na == Cardinality(A)
           nb == Cardinality(B)
           nc == Cardinality(C)
           nd == Cardinality(D)
<1>3. Places(q) = na + nb + nc + nd + calls[q]
  BY DEF Places, Times
<1>4. na \in {0, 1} /\ (na # 0 => Held(q))
  <2>1. \A x, y \in A : x = y
    BY <1>1, <1>2 DEF Single, OneThread
  <2>2. (\E x \in A : TRUE) => Held(q)
    BY DEF Held
  <2> HIDE DEF A
  <2> QED
    BY <2>1, <2>2, AtMostOne
<1>5. nb \in {0, 1} /\ (nb # 0 => Queued(q))
  <2>1. DOMAIN tasks = 1 .. Len(tasks)
    BY <1>1 DEF TypeOK
  <2>2. \A x \in B : x \in 1 .. Len(tasks) /\ tasks[x].q = q
    BY <2>1
  <2> HIDE DEF B
  <2>3. \A x, y \in B : x = y
    BY <1>1, <1>2, <2>2 DEF Single, OneTask
  <2>4. (\E x \in B : TRUE) => Queued(q)
    BY <2>2 DEF Queued
  <2> QED
    BY <2>3, <2>4, AtMostOne
<1>6. nc \in {0, 1} /\ (nc # 0 => Waits(q))
  <2>1. \A x \in C : x \in Con /\ \E i \in 1 .. Len(pending[x]) : pending[x][i] = q
    BY DEF ToSet
  <2> HIDE DEF C
  <2>2. \A x, y \in C : x = y
    BY <1>1, <2>1 DEF Single, Distinct
  <2>3. (\E x \in C : TRUE) => Waits(q)
    BY <2>1 DEF Waits, In
  <2> QED
    BY <2>2, <2>3, AtMostOne
<1>7. nd \in {0, 1} /\ (nd # 0 => Refused(q))
  <2>1. \A x \in D : x \in Thread /\ \E i \in 1 .. Len(posted[x]) : posted[x][i] = q
    BY DEF ToSet
  <2> HIDE DEF D
  <2>2. \A x, y \in D : x = y
    BY <1>1, <2>1 DEF Single, Distinct
  <2>3. (\E x \in D : TRUE) => Refused(q)
    BY <2>1 DEF Refused, In
  <2> QED
    BY <2>2, <2>3, AtMostOne
<1>8. calls[q] \in {0, 1} /\ (calls[q] # 0 => Told(q))
  <2>1. calls[q] \in Nat /\ calls[q] <= 1
    BY <1>1 DEF TypeOK, Single, ToldOnce
  <2> QED
    BY <2>1 DEF Told
<1> HIDE DEF na, nb, nc, nd
<1> QED
  BY <1>2, <1>3, <1>4, <1>5, <1>6, <1>7, <1>8 DEF Apart

----------------------------------------------------------------------------
(* The theorems.                                                           *)

\* The pool keeps its types: in particular use_index_, which ++ may take over
\* the end of int, stays an int, and get_client's remainder is always the index
\* of a connection (mysql_client_impl.cc:48-50).
THEOREM TypeCorrect == Spec => []TypeOK
<1>1. PoolInv => TypeOK
  BY DEF PoolInv
<1> QED
  BY <1>1, PoolInvariant, PTL

\* A session is with a thread, on its way to one loop, with one connection, or
\* told, and in one of these places only: however the threads, the loop and the
\* connections that break interleave, OnQueryDone calls its callback once at
\* most (mysql_client_impl.cc:33-42, query_session.cc:45-50).
THEOREM SessionHasOnePlace == Spec => []SessionInOnePlace
<1>1. PoolInv => SessionInOnePlace
  BY OnePlace
<1> QED
  BY <1>1, PoolInvariant, PTL

\* No session is lost: a step leaves it where it is or takes it on, from the
\* thread that holds it to a loop, from the loop to a connection, from a
\* connection or a refusal to OnQueryDone (mysql_client_impl.cc:33-42).  This is
\* the safety half of SubmittedIsAnswered.
THEOREM NoSessionIsLost == Spec => [][\A q \in Query : MovesOn(q)]_vars
<1>1. PoolInv /\ [Next]_vars => [\A q \in Query : MovesOn(q)]_vars
  BY PoolStep DEF AllMoveOn
<1> QED
  BY <1>1, PoolInvariant, PTL DEF Spec

\* Whatever value use_index_ has, and wherever ++ wraps, the next 2 * Count - 1
\* calls of get_client look at every connection (mysql_client_impl.cc:48-50),
\* for every width of int that holds count_ and every size_t at least as wide.
THEOREM RetriesReachAll == Spec => []RetriesReachEveryConnection
<1>1. PoolInv => RetriesReachEveryConnection
  BY ReachAll DEF PoolInv, TypeOK
<1> QED
  BY <1>1, PoolInvariant, PTL
============================================================================
