-------------------------- MODULE FetchUnit_proof --------------------------
(***************************************************************************)
(* Proofs about FetchUnit: its type invariant, that serializing            *)
(* instructions are alone, that PAY and the branch queue hold the          *)
(* instructions and the branches in flight in program order, and that the  *)
(* branch history follows the path that is fetched.                        *)
(***************************************************************************)
EXTENDS FetchUnit, PhaseQueue_proof, SequenceTheorems

-----------------------------------------------------------------------------
(* Indexes of PAY *)

\* An index that has wrapped around at most once.
Wrap(x, N) == IF x < N THEN x ELSE x - N
Wrapped(x) == Wrap(x, PAYLOAD_BUFFER_SIZE)

\* The size of PAY.
LEMMA PaySize ==
  /\ PAYLOAD_BUFFER_SIZE \in Nat \ {0} /\ PAYLOAD_BUFFER_SIZE % 2 = 0
  /\ MaxInFlight \in Nat /\ 2 * MaxInFlight < PAYLOAD_BUFFER_SIZE
BY FetchUnitAssumption

\* The code's modulus does no more: going on from an index, and the length between two.
LEMMA WrapIs ==
  ASSUME NEW N \in Nat \ {0}, NEW h \in 0..(N - 1), NEW x \in Nat, NEW y \in Nat, x + y < N
  PROVE  /\ Wrap(h + x, N) \in 0..(N - 1)
         /\ (h + x) % N = Wrap(h + x, N)
         /\ (Wrap(h + x, N) + y) % N = Wrap(h + (x + y), N)
         /\ (N + Wrap(h + x, N) - h) % N = x
<1>1. h + x \in 0..(2 * N - 1)
  OBVIOUS
<1>2. (h + x) % N = Wrap(h + x, N)
  BY <1>1, ModOnce DEF Wrap
<1>3. PICK v \in 0..(N - 1) : v = Wrap(h + x, N) /\ (v = h + x \/ v = h + x - N)
  BY DEF Wrap
<1>4. v + y \in 0..(2 * N - 1) /\ N + v - h \in 0..(2 * N - 1)
  BY <1>3
<1>5. (v + y) % N = Wrap(v + y, N) /\ (N + v - h) % N = Wrap(N + v - h, N)
  BY <1>4, ModOnce DEF Wrap
<1>6. Wrap(v + y, N) = Wrap(h + (x + y), N) /\ Wrap(N + v - h, N) = x
  BY <1>3 DEF Wrap
<1> QED BY <1>2, <1>3, <1>5, <1>6

\* The same in PAY.
LEMMA WrappedIs ==
  ASSUME NEW head \in PayIndex, NEW x \in Nat, NEW y \in Nat, x + y < PAYLOAD_BUFFER_SIZE
  PROVE  /\ Wrapped(head + x) \in PayIndex
         /\ (head + x) % PAYLOAD_BUFFER_SIZE = Wrapped(head + x)
         /\ (Wrapped(head + x) + y) % PAYLOAD_BUFFER_SIZE = Wrapped(head + (x + y))
         /\ (PAYLOAD_BUFFER_SIZE + Wrapped(head + x) - head) % PAYLOAD_BUFFER_SIZE = x
<1>1. PICK N \in Nat \ {0} : N = PAYLOAD_BUFFER_SIZE
  BY PaySize
<1>2. head \in 0..(N - 1) /\ x + y < N
  BY <1>1 DEF PayIndex
<1>3. /\ Wrap(head + x, N) \in 0..(N - 1)
      /\ (head + x) % N = Wrap(head + x, N)
      /\ (Wrap(head + x, N) + y) % N = Wrap(head + (x + y), N)
      /\ (N + Wrap(head + x, N) - head) % N = x
  BY <1>2, WrapIs
<1> QED BY <1>1, <1>3 DEF Wrapped, PayIndex

\* PAY has an even number of entries.
LEMMA WrapsEven ==
  ASSUME NEW i \in PayIndex, NEW y \in Nat, i % 2 = 0, y < PAYLOAD_BUFFER_SIZE
  PROVE  ((i + 2 * y) % PAYLOAD_BUFFER_SIZE) % 2 = 0
<1>1. PICK N \in Nat \ {0} : N = PAYLOAD_BUFFER_SIZE /\ N % 2 = 0
  BY PaySize
<1>2. i \in 0..(N - 1) /\ y < N
  BY <1>1 DEF PayIndex
<1>3. ((i + 2 * y) % N) % 2 = (i + 2 * y) % 2
  BY <1>1, <1>2
<1> QED BY <1>1, <1>2, <1>3

-----------------------------------------------------------------------------
(* PAY and the instructions in flight *)

\* Those of some instructions that have a pair of entries to themselves.
Wholes(w, n) == {j \in 1..n : w[j].half = "whole"}

\* The entries before the k-th of them.
Before(w, n, k) == (k - 1) + Count(Wholes(w, n), k)

\* PayloadHoldsInFlight and PayloadFits of any n instructions and pointers.
PayOf(w, n, head, tail, length) ==
  /\ Before(w, n, n + 1) <= 2 * MaxInFlight
  /\ \A k \in 1..n : w[k].index = Wrapped(head + Before(w, n, k))
  /\ length = Before(w, n, n + 1)
  /\ tail = Wrapped(head + length)

\* Paired of any n instructions and tail.
PairedOf(w, n, tail) ==
  /\ tail \in Nat /\ tail % 2 = 0
  /\ \A k \in 1..n : w[k].half # "lower" => w[k].index % 2 = 0

\* The numbers of entries.
LEMMA BeforeType ==
  ASSUME NEW w, NEW n \in Nat
  PROVE  /\ Wholes(w, n) \in SUBSET (1..n)
         /\ Before(w, n, 1) = 0
         /\ \A k \in 1..(n + 1) : Before(w, n, k) \in Nat /\ Before(w, n, k) >= k - 1
         /\ \A k \in 1..n : Before(w, n, k + 1) = Before(w, n, k) + Entries(w[k])
         /\ \A k, m \in 1..(n + 1) : k <= m => Before(w, n, k) <= Before(w, n, m)
<1>1. Wholes(w, n) \in SUBSET (1..n)
  BY DEF Wholes
<1>2. \A k \in 1..(n + 1) : Count(Wholes(w, n), k) \in Nat
  <2> SUFFICES ASSUME NEW k \in 1..(n + 1) PROVE Count(Wholes(w, n), k) \in Nat
    OBVIOUS
  <2>1. k \in Int
    OBVIOUS
  <2>2. Cardinality(Wholes(w, n)) \in 0..n /\ Count(Wholes(w, n), k) \in 0..Cardinality(Wholes(w, n))
    BY <1>1, <2>1, CountType
  <2> QED BY <2>2
<1>3. Count(Wholes(w, n), 1) = 0
  BY <1>1, CountAll
<1>4. \A k \in 1..n : Before(w, n, k + 1) = Before(w, n, k) + Entries(w[k])
  <2> SUFFICES ASSUME NEW k \in 1..n
               PROVE  Before(w, n, k + 1) = Before(w, n, k) + Entries(w[k])
    OBVIOUS
  <2>0. k \in Int
    OBVIOUS
  <2>1. Count(Wholes(w, n), k + 1) = Count(Wholes(w, n), k) + (IF k \in Wholes(w, n) THEN 1 ELSE 0)
    BY <1>1, <2>0, CountNext
  <2>2. k \in Wholes(w, n) <=> w[k].half = "whole"
    BY DEF Wholes
  <2>3. Count(Wholes(w, n), k) \in Nat /\ k \in 1..(n + 1)
    BY <1>2
  <2> QED BY <2>1, <2>2, <2>3 DEF Before, Entries
<1>5. \A k, m \in 1..(n + 1) : k <= m => Before(w, n, k) <= Before(w, n, m)
  <2> SUFFICES ASSUME NEW k \in 1..(n + 1), NEW m \in 1..(n + 1), k <= m
               PROVE  Before(w, n, k) <= Before(w, n, m)
    OBVIOUS
  <2>0. k \in Int /\ m \in Int
    OBVIOUS
  <2>1. Count(Wholes(w, n), k) <= Count(Wholes(w, n), m)
    BY <1>1, <2>0, CountGrows
  <2> QED BY <1>2, <2>1 DEF Before
<1> QED BY <1>1, <1>2, <1>3, <1>4, <1>5 DEF Before

\* The first m of two lists of instructions are split alike.
SameHalves(w, w2, m) == \A j \in 1..m : w2[j].half = w[j].half

\* Entries are counted by what comes before alone.
LEMMA BeforeSame ==
  ASSUME NEW w, NEW w2, NEW n \in Nat, NEW n2 \in Nat, NEW m \in Nat, m <= n, m <= n2,
         SameHalves(w, w2, m)
  PROVE  \A k \in 1..(m + 1) : Before(w2, n2, k) = Before(w, n, k)
<1> SUFFICES ASSUME NEW k \in 1..(m + 1) PROVE Count(Wholes(w2, n2), k) = Count(Wholes(w, n), k)
  BY DEF Before
<1>1. \A j : j \in Wholes(w2, n2) /\ j < k <=> j \in Wholes(w, n) /\ j < k
  BY DEF Wholes, SameHalves
<1>2. {j \in Wholes(w2, n2) : j < k} = {j \in Wholes(w, n) : j < k}
  BY <1>1
<1> QED BY <1>2 DEF Count

\* Where PAY's tail goes back to behind the first m instructions.
LEMMA PayCut ==
  ASSUME NEW w, NEW w2, NEW n \in Nat, NEW m \in 0..n, NEW head \in PayIndex, NEW tail, NEW length,
         PayOf(w, n, head, tail, length),
         \A j \in 1..m : w2[j].half = w[j].half /\ w2[j].index = w[j].index
  PROVE  /\ PayOf(w2, m, head, Wrapped(head + Before(w, n, m + 1)), Before(w, n, m + 1))
         /\ Before(w, n, m + 1) \in Nat /\ Before(w, n, m + 1) < PAYLOAD_BUFFER_SIZE
<1>1. \A k \in 1..(m + 1) : Before(w2, m, k) = Before(w, n, k)
  <2>1. m \in Nat /\ m <= n /\ m <= m
    OBVIOUS
  <2>2. SameHalves(w, w2, m)
    BY DEF SameHalves
  <2> QED BY <2>1, <2>2, BeforeSame
<1>2. /\ Before(w, n, m + 1) <= Before(w, n, n + 1) /\ Before(w, n, n + 1) <= 2 * MaxInFlight
      /\ Before(w, n, m + 1) \in Nat /\ Before(w, n, n + 1) \in Nat
  BY BeforeType DEF PayOf
<1>3. Before(w2, m, m + 1) = Before(w, n, m + 1)
  BY <1>1
<1>4. Before(w2, m, m + 1) <= 2 * MaxInFlight
  BY <1>2, <1>3, PaySize
<1>5. \A k \in 1..m : w2[k].index = Wrapped(head + Before(w2, m, k))
  BY <1>1 DEF PayOf
<1> QED BY <1>2, <1>3, <1>4, <1>5, PaySize DEF PayOf

\* Nothing in flight.
LEMMA PayNone ==
  ASSUME NEW w, NEW head \in PayIndex
  PROVE  PayOf(w, 0, head, head, 0)
<1>1. Before(w, 0, 1) = 0
  BY BeforeType
<1>2. head + 0 = head /\ Wrapped(head) = head /\ 1..0 = {}
  BY PaySize DEF Wrapped, Wrap, PayIndex
<1> QED BY <1>1, <1>2, PaySize DEF PayOf

\* What fetch1 appends: the last m of n + m instructions are whole and have the next indexes.
Pushed(w, n, m, tail) ==
  \A k \in 1..m : /\ w[n + k].half = "whole"
                  /\ w[n + k].index = (tail + 2 * (k - 1)) % PAYLOAD_BUFFER_SIZE

\* Instructions have at most two entries each.
LEMMA BeforeBound ==
  ASSUME NEW w, NEW n \in Nat
  PROVE  Before(w, n, n + 1) <= 2 * n
<1>1. Wholes(w, n) \in SUBSET (1..n) /\ n + 1 \in Int
  BY DEF Wholes
<1>2. Cardinality(Wholes(w, n)) \in 0..n /\ Count(Wholes(w, n), n + 1) \in 0..Cardinality(Wholes(w, n))
  BY <1>1, CountType
<1> QED BY <1>2 DEF Before

\* The bundle goes into PAY behind its tail.
LEMMA PayPush ==
  ASSUME NEW w, NEW w2, NEW n \in Nat, NEW m \in Nat, NEW head \in PayIndex, NEW tail, NEW length,
         PayOf(w, n, head, tail, length), n + m <= MaxInFlight,
         \A j \in 1..n : w2[j].half = w[j].half /\ w2[j].index = w[j].index,
         Pushed(w2, n, m, tail)
  PROVE  PayOf(w2, n + m, head, (tail + 2 * m) % PAYLOAD_BUFFER_SIZE, length + 2 * m)
<1> DEFINE B(k) == Before(w2, n + m, k)
<1>1. PICK x \in Nat : x = Before(w, n, n + 1) /\ x <= 2 * n /\ length = x /\ tail = Wrapped(head + x)
  BY BeforeType, BeforeBound DEF PayOf
<1>2. \A k \in 1..(n + 1) : B(k) = Before(w, n, k)
  <2>1. SameHalves(w, w2, n) /\ n + m \in Nat /\ n <= n + m /\ n <= n
    BY DEF SameHalves
  <2> QED BY <2>1, BeforeSame
<1>3. \A k \in 1..(n + m) : B(k + 1) = B(k) + Entries(w2[k])
  <2>1. n + m \in Nat
    OBVIOUS
  <2> QED BY <2>1, BeforeType
<1>4. ASSUME NEW k \in 1..(m + 1) PROVE B(n + k) = x + 2 * (k - 1)
  <2> DEFINE T == {j \in 1..(m + 1) : B(n + j) # x + 2 * (j - 1)}
  <2>1. SUFFICES ASSUME T # {} PROVE FALSE
    OBVIOUS
  <2>2. PICK j \in T : \A i \in T : j <= i
    <3>1. T \subseteq Nat
      OBVIOUS
    <3> HIDE DEF T
    <3> QED BY <2>1, <3>1, LeastNat
  <2>3. j # 1
    BY <1>1, <1>2, <2>2
  <2>4. j - 1 \in 1..m /\ j - 1 \notin T
    BY <2>2, <2>3
  <2>5. B(n + (j - 1)) = x + 2 * ((j - 1) - 1)
    BY <2>4
  <2>6. w2[n + (j - 1)].half = "whole" /\ n + (j - 1) \in 1..(n + m) /\ n + (j - 1) + 1 = n + j
    BY <2>4 DEF Pushed
  <2>7. B(n + j) = B(n + (j - 1)) + 2
    BY <1>3, <2>6 DEF Entries
  <2> QED BY <2>2, <2>4, <2>5, <2>7
<1> HIDE DEF B
<1>5. B(n + m + 1) = x + 2 * m /\ x + 2 * m <= 2 * MaxInFlight
  <2>1. m + 1 \in 1..(m + 1) /\ n + (m + 1) = n + m + 1 /\ (m + 1) - 1 = m
    OBVIOUS
  <2>2. B(n + m + 1) = x + 2 * m
    BY <1>4, <2>1
  <2> QED BY <1>1, <2>2, PaySize
<1>6. \A y \in Nat : x + y < PAYLOAD_BUFFER_SIZE =>
        (tail + y) % PAYLOAD_BUFFER_SIZE = Wrapped(head + (x + y))
  BY <1>1, WrappedIs
<1>7. ASSUME NEW k \in 1..(n + m) PROVE w2[k].index = Wrapped(head + B(k))
  <2>1. CASE k \in 1..n
    BY <1>2, <2>1 DEF PayOf
  <2>2. CASE k \notin 1..n
    <3>1. PICK j \in 1..m : k = n + j
      <4>1. k - n \in 1..m /\ k = n + (k - n)
        BY <2>2
      <4> QED BY <4>1
    <3>2. w2[k].index = (tail + 2 * (j - 1)) % PAYLOAD_BUFFER_SIZE
      BY <3>1 DEF Pushed
    <3>3. B(k) = x + 2 * (j - 1)
      BY <1>4, <3>1
    <3>4. 2 * (j - 1) \in Nat /\ x + 2 * (j - 1) < PAYLOAD_BUFFER_SIZE
      BY <1>1, <1>5, PaySize
    <3> QED BY <1>6, <3>2, <3>3, <3>4
  <2> QED BY <2>1, <2>2
<1>8. (tail + 2 * m) % PAYLOAD_BUFFER_SIZE = Wrapped(head + (x + 2 * m))
  <2>1. 2 * m \in Nat /\ x + 2 * m < PAYLOAD_BUFFER_SIZE
    BY <1>1, <1>5, PaySize
  <2> QED BY <1>6, <2>1
<1> QED BY <1>1, <1>5, <1>7, <1>8 DEF PayOf, B

\* The oldest instruction's entries leave PAY at its head.
LEMMA PayPop ==
  ASSUME NEW w, NEW w2, NEW n \in Nat \ {0}, NEW head \in PayIndex, NEW tail, NEW length,
         PayOf(w, n, head, tail, length), \A j \in 1..(n - 1) : w2[j] = w[j + 1]
  PROVE  /\ PayOf(w2, n - 1, (head + Entries(w[1])) % PAYLOAD_BUFFER_SIZE, tail, length - Entries(w[1]))
         /\ (head + Entries(w[1])) % PAYLOAD_BUFFER_SIZE \in PayIndex
<1>1. PICK e \in 1..2 : e = Entries(w[1]) /\ e = 1 + (IF w[1].half = "whole" THEN 1 ELSE 0)
  BY DEF Entries
<1>2. PICK h2 : h2 = (head + e) % PAYLOAD_BUFFER_SIZE
  OBVIOUS
<1>a. ASSUME NEW k \in 1..n
      PROVE  /\ Count(Wholes(w2, n - 1), k)
                  = Count(Wholes(w, n), k + 1) - (IF 1 \in Wholes(w, n) THEN 1 ELSE 0)
             /\ Cardinality(Wholes(w2, n - 1))
                  = Cardinality(Wholes(w, n)) - (IF 1 \in Wholes(w, n) THEN 1 ELSE 0)
  <2>1. Wholes(w, n) \in SUBSET (1..n) /\ Wholes(w2, n - 1) \in SUBSET (1..(n - 1))
    BY DEF Wholes
  <2>2. \A j \in 1..(n - 1) : j \in Wholes(w2, n - 1) <=> j + 1 \in Wholes(w, n)
    BY DEF Wholes
  <2> QED BY <2>1, <2>2, CountShift
<1>3. ASSUME NEW k \in 1..n
      PROVE  /\ Before(w2, n - 1, k) \in Nat
             /\ Before(w, n, k + 1) = e + Before(w2, n - 1, k)
             /\ e + Before(w2, n - 1, k) <= 2 * MaxInFlight
  <2>1. /\ Wholes(w, n) \in SUBSET (1..n) /\ Wholes(w2, n - 1) \in SUBSET (1..(n - 1))
        /\ \A j \in 1..(n - 1) : j \in Wholes(w2, n - 1) <=> j + 1 \in Wholes(w, n)
        /\ 1 \in Wholes(w, n) <=> w[1].half = "whole"
    BY DEF Wholes
  <2>2. Count(Wholes(w2, n - 1), k) = Count(Wholes(w, n), k + 1) - (IF 1 \in Wholes(w, n) THEN 1 ELSE 0)
    BY <1>a
  <2>3. n - 1 \in Nat /\ k \in 1..((n - 1) + 1) /\ k + 1 \in 1..(n + 1) /\ n + 1 \in 1..(n + 1)
    OBVIOUS
  <2>4. Before(w2, n - 1, k) \in Nat /\ Before(w, n, k + 1) \in Nat /\ Before(w, n, n + 1) \in Nat
        /\ Before(w, n, k + 1) <= Before(w, n, n + 1)
    <3>1. n \in Nat /\ n - 1 \in Nat /\ k + 1 <= n + 1
      OBVIOUS
    <3>2. Before(w2, n - 1, k) \in Nat
      BY <2>3, <3>1, BeforeType
    <3>3. \A i \in 1..(n + 1) : Before(w, n, i) \in Nat
      BY <3>1, BeforeType
    <3>4. Before(w, n, k + 1) <= Before(w, n, n + 1)
      BY <2>3, <3>1, BeforeType
    <3> QED BY <2>3, <3>2, <3>3, <3>4
  <2>5. PICK c \in Int : c = Count(Wholes(w, n), k + 1)
    <3>1. k + 1 \in Int
      OBVIOUS
    <3>2. Cardinality(Wholes(w, n)) \in 0..n
          /\ Count(Wholes(w, n), k + 1) \in 0..Cardinality(Wholes(w, n))
      BY <2>1, <3>1, CountType
    <3> QED BY <3>2
  <2>6. Before(w, n, k + 1) = e + Before(w2, n - 1, k)
    BY <1>1, <2>1, <2>2, <2>5 DEF Before
  <2> QED BY <2>4, <2>6, PaySize DEF PayOf
<1>4. ASSUME NEW y \in Nat, e + y <= 2 * MaxInFlight
      PROVE  Wrapped(h2 + y) = Wrapped(head + (e + y)) /\ h2 \in PayIndex
  <2>1. e \in Nat /\ e + y < PAYLOAD_BUFFER_SIZE /\ y + 0 < PAYLOAD_BUFFER_SIZE /\ 0 \in Nat
    BY <1>4, PaySize
  <2>2. /\ Wrapped(head + e) \in PayIndex /\ h2 = Wrapped(head + e)
        /\ (h2 + y) % PAYLOAD_BUFFER_SIZE = Wrapped(head + (e + y))
    BY <1>2, <2>1, WrappedIs
  <2>3. (h2 + y) % PAYLOAD_BUFFER_SIZE = Wrapped(h2 + y)
    BY <2>1, <2>2, WrappedIs
  <2> QED BY <2>2, <2>3
<1>5. n \in 1..n /\ n - 1 + 1 = n
  OBVIOUS
<1>6. PICK z \in Nat : z = Before(w2, n - 1, n) /\ Before(w, n, n + 1) = e + z /\ e + z <= 2 * MaxInFlight
  BY <1>3, <1>5
<1>7. \A k \in 1..(n - 1) : w2[k].index = Wrapped(h2 + Before(w2, n - 1, k))
  <2> SUFFICES ASSUME NEW k \in 1..(n - 1) PROVE w2[k].index = Wrapped(h2 + Before(w2, n - 1, k))
    OBVIOUS
  <2>1. k \in 1..n /\ k + 1 \in 1..n /\ w2[k] = w[k + 1]
    OBVIOUS
  <2>2. w[k + 1].index = Wrapped(head + Before(w, n, k + 1))
    BY <2>1 DEF PayOf
  <2> QED BY <1>3, <1>4, <2>1, <2>2
<1>8. length - e = z /\ tail = Wrapped(h2 + z) /\ h2 \in PayIndex
  BY <1>4, <1>6 DEF PayOf
<1>9. z <= 2 * MaxInFlight
  BY <1>6, PaySize
<1> QED BY <1>1, <1>2, <1>5, <1>6, <1>7, <1>8, <1>9 DEF PayOf

-----------------------------------------------------------------------------
(* Splitting stores *)

\* Where the k-th instruction goes when those in S before it are split in two.
Moved(S, k) == k + Count(S, k)

\* These places are in order, one or two from each other.
LEMMA MovedType ==
  ASSUME NEW d \in Nat, NEW S \in SUBSET (1..d)
  PROVE  /\ Cardinality(S) \in 0..d
         /\ Moved(S, 1) = 1 /\ Moved(S, d + 1) = d + 1 + Cardinality(S)
         /\ \A k \in 1..d : Moved(S, k + 1) = Moved(S, k) + (IF k \in S THEN 2 ELSE 1)
         /\ \A k \in 1..(d + 1) : Moved(S, k) \in k..(k + Cardinality(S))
<1>1. Cardinality(S) \in 0..d /\ Count(S, 1) = 0 /\ Count(S, d + 1) = Cardinality(S)
  <2>1. 1 \in Int
    OBVIOUS
  <2>2. Cardinality(S) \in 0..d
    BY <2>1, CountType
  <2> QED BY <2>2, CountAll
<1>2. ASSUME NEW k \in 1..(d + 1) PROVE Count(S, k) \in 0..Cardinality(S)
  <2>1. k \in Int
    OBVIOUS
  <2> QED BY <2>1, CountType
<1>3. ASSUME NEW k \in 1..d PROVE Moved(S, k + 1) = Moved(S, k) + (IF k \in S THEN 2 ELSE 1)
  <2>1. k \in Int /\ k \in 1..(d + 1)
    OBVIOUS
  <2>2. Count(S, k + 1) = Count(S, k) + (IF k \in S THEN 1 ELSE 0)
    BY <2>1, CountNext
  <2>3. Count(S, k) \in Int
    BY <1>1, <1>2, <2>1
  <2> QED BY <2>2, <2>3 DEF Moved
<1>4. \A k \in 1..(d + 1) : Moved(S, k) \in k..(k + Cardinality(S))
  BY <1>1, <1>2 DEF Moved
<1> QED BY <1>1, <1>3, <1>4 DEF Moved

\* Together with those behind split instructions they are all the places there are.
LEMMA MovedOnto ==
  ASSUME NEW d \in Nat, NEW S \in SUBSET (1..d), NEW j \in 1..(d + Cardinality(S))
  PROVE  \E k \in 1..d : j = Moved(S, k) \/ (k \in S /\ j = Moved(S, k) + 1)
<1> DEFINE T == {k \in 1..(d + 1) : Moved(S, k) > j}
<1>1. PICK c \in 0..d : c = Cardinality(S) /\ j \in 1..(d + c)
  BY MovedType
<1>2. d + 1 \in T /\ T \subseteq Nat
  BY <1>1, MovedType
<1>3. PICK m \in T : \A i \in T : m <= i
  <2> HIDE DEF T
  <2> QED BY <1>2, LeastNat
<1>4. m # 1
  BY <1>1, MovedType
<1>5. m - 1 \in 1..d /\ m - 1 \notin T
  BY <1>3, <1>4
<1>6. PICK k \in 1..d : k = m - 1
  BY <1>5
<1>7. PICK x \in Int : x = Moved(S, k) /\ x <= j
  <2>1. k \in 1..(d + 1)
    OBVIOUS
  <2>2. Moved(S, k) \in k..(k + c)
    BY <1>1, <2>1, MovedType
  <2> QED BY <1>1, <1>5, <1>6, <2>1, <2>2
<1>8. Moved(S, k + 1) = x + (IF k \in S THEN 2 ELSE 1)
  BY <1>7, MovedType
<1>9. Moved(S, k + 1) > j
  BY <1>3, <1>6
<1> QED BY <1>1, <1>7, <1>8, <1>9

\* The halves of an instruction.
Upper(w) == [w EXCEPT !.half = "upper"]
Lower(w) == [w EXCEPT !.half = "lower", !.index = @ + 1]

\* What they have in common with it.
LEMMA HalvesAre ==
  ASSUME NEW w \in Instruction
  PROVE  /\ Upper(w).half = "upper" /\ Upper(w).index = w.index /\ Upper(w).branch = w.branch
         /\ Upper(w).kind = w.kind /\ Upper(w).tag = w.tag /\ Upper(w).taken = w.taken
         /\ Lower(w).half = "lower" /\ Lower(w).index = w.index + 1 /\ Lower(w).branch = w.branch
         /\ Lower(w).kind = w.kind /\ Lower(w).tag = w.tag /\ Lower(w).taken = w.taken
         /\ Upper(w) \in Instruction
         /\ w.index + 1 \in PayIndex => Lower(w) \in Instruction
BY DEF Upper, Lower, Instruction

\* What decode makes of the d instructions behind the first a of n.
SplitAs(w, n, w2, a, d, S) ==
  /\ \A j \in 1..a : w2[j] = w[j]
  /\ \A k \in 1..d : k \notin S => w2[a + Moved(S, k)] = w[a + k]
  /\ \A k \in S : /\ w2[a + Moved(S, k)] = Upper(w[a + k])
                  /\ w2[a + Moved(S, k) + 1] = Lower(w[a + k])
  /\ \A j \in 1..(n - a - d) : w2[a + d + Cardinality(S) + j] = w[a + d + j]

\* Where an instruction is found after it: before, among or behind those that are split.
SplitPlace(n, a, d, S, i) ==
  \/ i \in 1..a
  \/ \E k \in 1..d : i = a + Moved(S, k) \/ (k \in S /\ i = a + Moved(S, k) + 1)
  \/ \E j \in 1..(n - a - d) : i = a + d + Cardinality(S) + j

\* These are all the places.
LEMMA SplitCases ==
  ASSUME NEW n \in Nat, NEW a \in Nat, NEW d \in Nat, a + d <= n, NEW S \in SUBSET (1..d),
         NEW i \in 1..(n + Cardinality(S))
  PROVE  SplitPlace(n, a, d, S, i)
<1>1. PICK c \in 0..d : c = Cardinality(S)
  BY MovedType
<1>2. CASE i > a /\ i <= a + d + c
  <2>1. i - a \in 1..(d + Cardinality(S))
    BY <1>1, <1>2
  <2>2. PICK k \in 1..d : i - a = Moved(S, k) \/ (k \in S /\ i - a = Moved(S, k) + 1)
    BY <2>1, MovedOnto
  <2>3. k \in 1..(d + 1)
    OBVIOUS
  <2>4. Moved(S, k) \in Int
    BY <1>1, <2>3, MovedType
  <2> QED BY <2>2, <2>4 DEF SplitPlace
<1>3. CASE i > a + d + c
  <2>1. i - (a + d + c) \in 1..(n - a - d) /\ i = a + d + c + (i - (a + d + c))
    BY <1>1, <1>3
  <2> QED BY <1>1, <2>1 DEF SplitPlace
<1> QED BY <1>1, <1>2, <1>3 DEF SplitPlace

\* What is split was whole.
WholeFrom(w, a, d) == \A k \in 1..d : w[a + k] \in Instruction /\ w[a + k].half = "whole"

\* So the halves have the instruction's two entries.
HalvesPlaced(w, w2, a, d, S) ==
  /\ \A k \in 1..d : /\ w2[a + Moved(S, k)].half = IF k \in S THEN "upper" ELSE "whole"
                   /\ w2[a + Moved(S, k)].index = w[a + k].index
  /\ \A k \in S : /\ w2[a + Moved(S, k) + 1].half = "lower"
                 /\ w2[a + Moved(S, k) + 1].index = w[a + k].index + 1

\* They do where they are what decode makes.
LEMMA SplitFields ==
  ASSUME NEW w, NEW n, NEW w2, NEW a, NEW d \in Nat, NEW S \in SUBSET (1..d),
         WholeFrom(w, a, d), SplitAs(w, n, w2, a, d, S)
  PROVE  HalvesPlaced(w, w2, a, d, S)
<1>1. ASSUME NEW k \in 1..d
      PROVE  /\ w2[a + Moved(S, k)].half = IF k \in S THEN "upper" ELSE "whole"
             /\ w2[a + Moved(S, k)].index = w[a + k].index
  <2>1. w[a + k] \in Instruction /\ w[a + k].half = "whole"
    BY DEF WholeFrom
  <2>2. CASE k \in S
    <3>1. w2[a + Moved(S, k)] = Upper(w[a + k])
      BY <2>2 DEF SplitAs
    <3> QED BY <2>1, <2>2, <3>1, HalvesAre
  <2>3. CASE k \notin S
    <3>1. w2[a + Moved(S, k)] = w[a + k]
      BY <2>3 DEF SplitAs
    <3> QED BY <2>1, <2>3, <3>1
  <2> QED BY <2>2, <2>3
<1>2. ASSUME NEW k \in S
      PROVE  /\ w2[a + Moved(S, k) + 1].half = "lower"
             /\ w2[a + Moved(S, k) + 1].index = w[a + k].index + 1
  <2>1. w2[a + Moved(S, k) + 1] = Lower(w[a + k])
    BY DEF SplitAs
  <2>2. k \in 1..d
    OBVIOUS
  <2>3. w[a + k] \in Instruction
    BY <2>2 DEF WholeFrom
  <2> QED BY <2>1, <2>3, HalvesAre
<1> QED BY <1>1, <1>2 DEF HalvesPlaced

\* Sums over the instructions before each of n, and over those before each of n + c, to which what
\* is split contributes the same.
SumsAlike(f, f2, n, a, d, S, c) ==
  /\ f \in [1..(n + 1) -> Int] /\ f2 \in [1..(n + c + 1) -> Int]
  /\ \A k \in 1..(a + 1) : f2[k] = f[k]
  /\ \A k \in 1..d :
       f2[a + Moved(S, k) + (IF k \in S THEN 2 ELSE 1)] - f2[a + Moved(S, k)] = f[a + k + 1] - f[a + k]
  /\ \A j \in 1..(n - a - d) :
       f2[a + d + c + j + 1] - f2[a + d + c + j] = f[a + d + j + 1] - f[a + d + j]

\* Then they are the same.
SumsSame(f, f2, n, a, d, S, c) ==
  /\ \A k \in 1..(d + 1) : f2[a + Moved(S, k)] = f[a + k]
  /\ \A j \in 1..(n - a - d + 1) : f2[a + d + c + j] = f[a + d + j]

\* By the first place at which they would not be.
LEMMA SumsSplit ==
  ASSUME NEW n \in Nat, NEW a \in Nat, NEW d \in Nat, a + d <= n, NEW S \in SUBSET (1..d),
         NEW c \in 0..d, c = Cardinality(S), NEW f, NEW f2, SumsAlike(f, f2, n, a, d, S, c)
  PROVE  SumsSame(f, f2, n, a, d, S, c)
<1>1. /\ Moved(S, 1) = 1 /\ Moved(S, d + 1) = d + 1 + c
      /\ \A k \in 1..d : Moved(S, k + 1) = Moved(S, k) + (IF k \in S THEN 2 ELSE 1)
      /\ \A k \in 1..(d + 1) : Moved(S, k) \in k..(k + c)
  BY MovedType
<1>2. f \in [1..(n + 1) -> Int] /\ f2 \in [1..(n + c + 1) -> Int]
  BY DEF SumsAlike
<1>3. ASSUME NEW k \in 1..d, f2[a + Moved(S, k)] = f[a + k]
      PROVE  f2[a + Moved(S, k + 1)] = f[a + (k + 1)]
  <2>1. PICK x \in Int : x = Moved(S, k) /\ x \in k..(k + c)
    <3>1. k \in 1..(d + 1)
      OBVIOUS
    <3> QED BY <1>1, <3>1
  <2>2. PICK e \in 1..2 : e = (IF k \in S THEN 2 ELSE 1)
    OBVIOUS
  <2>3. x + e = Moved(S, k + 1) /\ x + e \in (k + 1)..(k + 1 + c)
    <3>1. k + 1 \in 1..(d + 1)
      OBVIOUS
    <3> QED BY <1>1, <2>1, <2>2, <3>1
  <2>4. f2[a + x + e] - f2[a + x] = f[a + k + 1] - f[a + k]
    BY <2>1, <2>2 DEF SumsAlike
  <2>5. a + x + e \in 1..(n + c + 1) /\ a + x \in 1..(n + c + 1) /\ a + k + 1 \in 1..(n + 1)
        /\ a + k \in 1..(n + 1) /\ a + x + e = a + (x + e) /\ a + k + 1 = a + (k + 1)
    BY <2>1, <2>3
  <2>6. PICK y \in Int, z \in Int : y = f2[a + x + e] /\ z = f[a + k + 1]
    BY <1>2, <2>5
  <2>7. f2[a + x] \in Int /\ f[a + k] \in Int
    BY <1>2, <2>5
  <2>8. y = z
    BY <1>3, <2>1, <2>4, <2>6, <2>7
  <2> QED BY <2>3, <2>5, <2>6, <2>8
<1>4. ASSUME NEW k \in 1..(d + 1) PROVE f2[a + Moved(S, k)] = f[a + k]
  <2> DEFINE T == {j \in 1..(d + 1) : f2[a + Moved(S, j)] # f[a + j]}
  <2>1. SUFFICES ASSUME T # {} PROVE FALSE
    OBVIOUS
  <2>2. PICK j \in T : \A i \in T : j <= i
    <3>1. T \subseteq Nat
      OBVIOUS
    <3> HIDE DEF T
    <3> QED BY <2>1, <3>1, LeastNat
  <2>3. j # 1
    <3>1. a + 1 \in 1..(a + 1) /\ f2[a + 1] = f[a + 1]
      BY DEF SumsAlike
    <3> QED BY <1>1, <2>2, <3>1
  <2>4. j - 1 \in 1..d /\ j - 1 \notin T /\ (j - 1) + 1 = j
    BY <2>2, <2>3
  <2>5. f2[a + Moved(S, j - 1)] = f[a + (j - 1)]
    BY <2>4
  <2>6. f2[a + Moved(S, (j - 1) + 1)] = f[a + ((j - 1) + 1)]
    BY <1>3, <2>4, <2>5
  <2> QED BY <2>2, <2>4, <2>6
<1>5. ASSUME NEW j \in 1..(n - a - d + 1) PROVE f2[a + d + c + j] = f[a + d + j]
  <2> DEFINE T == {i \in 1..(n - a - d + 1) : f2[a + d + c + i] # f[a + d + i]}
  <2>1. SUFFICES ASSUME T # {} PROVE FALSE
    OBVIOUS
  <2>2. PICK i \in T : \A k \in T : i <= k
    <3>1. T \subseteq Nat
      OBVIOUS
    <3> HIDE DEF T
    <3> QED BY <2>1, <3>1, LeastNat
  <2>3. i # 1
    <3>1. d + 1 \in 1..(d + 1) /\ a + (d + 1 + c) = a + d + c + 1 /\ a + (d + 1) = a + d + 1
      OBVIOUS
    <3> QED BY <1>1, <1>4, <2>2, <3>1
  <2>4. PICK k \in 1..(n - a - d) : k = i - 1 /\ k \notin T
    <3>1. i - 1 \in 1..(n - a - d) /\ i - 1 \notin T
      BY <2>2, <2>3
    <3> QED BY <3>1
  <2>5. f2[a + d + c + k] = f[a + d + k]
    BY <2>4
  <2>6. f2[a + d + c + k + 1] - f2[a + d + c + k] = f[a + d + k + 1] - f[a + d + k]
    BY DEF SumsAlike
  <2>7. a + d + c + k + 1 \in 1..(n + c + 1) /\ a + d + k \in 1..(n + 1) /\ a + d + k + 1 \in 1..(n + 1)
        /\ a + d + c + k + 1 = a + d + c + i /\ a + d + k + 1 = a + d + i
    BY <2>2, <2>4
  <2>8. f2[a + d + c + k + 1] \in Int /\ f[a + d + k] \in Int /\ f[a + d + k + 1] \in Int
    BY <1>2, <2>7
  <2> QED BY <2>2, <2>5, <2>6, <2>7, <2>8
<1> QED BY <1>4, <1>5 DEF SumsSame

\* Entries before the instructions that are split, and before their halves.
CountedAlike(w, n, w2, a, d, S, c) ==
  /\ \A k \in 1..(a + 1) : Before(w2, n + c, k) = Before(w, n, k)
  /\ \A k \in 1..(d + 1) : Before(w2, n + c, a + Moved(S, k)) = Before(w, n, a + k)
  /\ \A k \in S : Before(w2, n + c, a + Moved(S, k) + 1) = Before(w, n, a + k) + 1
  /\ \A j \in 1..(n - a - d + 1) : Before(w2, n + c, a + d + c + j) = Before(w, n, a + d + j)

\* Where the instructions that are split, and their halves, are among the n + c.
Inside(n, a, d, S, c) ==
  /\ \A k \in 1..d : a + Moved(S, k) \in 1..(n + c) /\ Moved(S, k) \in Int
  /\ \A k \in 1..(d + 1) : a + Moved(S, k) \in 1..(n + c + 1)
  /\ \A k \in S : a + Moved(S, k) + 1 \in 1..(n + c)

\* They are inside.
LEMMA MovedInside ==
  ASSUME NEW n \in Nat, NEW a \in Nat, NEW d \in Nat, a + d <= n, NEW S \in SUBSET (1..d),
         NEW c \in 0..d, c = Cardinality(S)
  PROVE  Inside(n, a, d, S, c)
<1>1. ASSUME NEW k \in 1..(d + 1) PROVE Moved(S, k) \in 1..(k + c)
  BY MovedType
<1>2. ASSUME NEW k \in S PROVE a + Moved(S, k) + 1 \in 1..(n + c)
  <2>1. k \in 1..d /\ k \in 1..(d + 1) /\ k + 1 \in 1..(d + 1)
    OBVIOUS
  <2>2. Moved(S, k + 1) = Moved(S, k) + 2
    BY <2>1, MovedType
  <2>3. Moved(S, k) \in 1..(k + c) /\ Moved(S, k + 1) \in 1..((k + 1) + c)
    BY <1>1, <2>1
  <2>4. PICK x \in 1..(k + c) : x = Moved(S, k)
    BY <2>3
  <2>5. x + 2 <= k + 1 + c /\ k \in Int
    BY <2>1, <2>2, <2>3, <2>4
  <2> QED BY <2>1, <2>4, <2>5
<1>3. \A k \in 1..d : a + Moved(S, k) \in 1..(n + c) /\ Moved(S, k) \in Int
  <2> SUFFICES ASSUME NEW k \in 1..d PROVE a + Moved(S, k) \in 1..(n + c) /\ Moved(S, k) \in Int
    OBVIOUS
  <2>1. k \in 1..(d + 1)
    OBVIOUS
  <2>2. Moved(S, k) \in 1..(k + c)
    BY <1>1, <2>1
  <2> QED BY <2>2
<1>4. \A k \in 1..(d + 1) : a + Moved(S, k) \in 1..(n + c + 1)
  <2> SUFFICES ASSUME NEW k \in 1..(d + 1) PROVE a + Moved(S, k) \in 1..(n + c + 1)
    OBVIOUS
  <2>1. Moved(S, k) \in 1..(k + c)
    BY <1>1
  <2> QED BY <2>1
<1> QED BY <1>2, <1>3, <1>4 DEF Inside

\* The halves of an instruction are counted like the instruction.
LEMMA BeforeSplit ==
  ASSUME NEW n \in Nat, NEW a \in Nat, NEW d \in Nat, a + d <= n, NEW S \in SUBSET (1..d),
         NEW c \in 0..d, c = Cardinality(S), NEW w, NEW w2,
         WholeFrom(w, a, d), SplitAs(w, n, w2, a, d, S)
  PROVE  CountedAlike(w, n, w2, a, d, S, c)
<1>0. HalvesPlaced(w, w2, a, d, S)
  BY SplitFields
<1>a. Inside(n, a, d, S, c)
  BY MovedInside
<1> DEFINE f == [k \in 1..(n + 1) |-> Before(w, n, k)]
           f2 == [k \in 1..(n + c + 1) |-> Before(w2, n + c, k)]
<1>1. /\ \A k \in 1..n : f[k + 1] = f[k] + Entries(w[k])
      /\ f \in [1..(n + 1) -> Int]
  <2>1. \A k \in 1..n : Before(w, n, k + 1) = Before(w, n, k) + Entries(w[k])
    BY BeforeType
  <2>2. \A k \in 1..(n + 1) : Before(w, n, k) \in Nat
    BY BeforeType
  <2>3. \A k \in 1..n : k \in 1..(n + 1) /\ k + 1 \in 1..(n + 1)
    OBVIOUS
  <2> QED BY <2>1, <2>2, <2>3
<1>2. /\ \A k \in 1..(n + c) : f2[k + 1] = f2[k] + Entries(w2[k])
      /\ f2 \in [1..(n + c + 1) -> Int]
  <2>0. n + c \in Nat
    OBVIOUS
  <2>1. \A k \in 1..(n + c) : Before(w2, n + c, k + 1) = Before(w2, n + c, k) + Entries(w2[k])
    BY <2>0, BeforeType
  <2>2. \A k \in 1..(n + c + 1) : Before(w2, n + c, k) \in Nat
    BY <2>0, BeforeType
  <2>3. \A k \in 1..(n + c) : k \in 1..(n + c + 1) /\ k + 1 \in 1..(n + c + 1)
    OBVIOUS
  <2> QED BY <2>1, <2>2, <2>3
<1>3. \A k \in 1..(a + 1) : Before(w2, n + c, k) = Before(w, n, k)
  <2>1. SameHalves(w, w2, a) /\ a <= n /\ a <= n + c /\ n + c \in Nat
    BY DEF SplitAs, SameHalves
  <2> QED BY <2>1, BeforeSame
<1>4. \A k \in 1..(a + 1) : f2[k] = f[k]
  BY <1>3
<1> HIDE DEF f, f2
<1>5. ASSUME NEW k \in 1..d
      PROVE  /\ f2[a + Moved(S, k) + (IF k \in S THEN 2 ELSE 1)] - f2[a + Moved(S, k)]
                   = f[a + k + 1] - f[a + k]
             /\ k \in S => f2[a + Moved(S, k) + 1] = f2[a + Moved(S, k)] + 1
  <2>1. PICK x \in Int : x = Moved(S, k) /\ a + x \in 1..(n + c)
                       /\ (k \in S => a + x + 1 \in 1..(n + c))
    BY <1>a DEF Inside
  <2>2. f[a + k + 1] = f[a + k] + 2 /\ f[a + k] \in Int
    <3>1. a + k \in 1..n /\ a + k \in 1..(n + 1) /\ w[a + k].half = "whole"
      BY DEF WholeFrom
    <3> QED BY <1>1, <3>1 DEF Entries
  <2>3. f2[a + x] \in Int
    <3>1. a + x \in 1..(n + c + 1)
      BY <2>1
    <3> QED BY <1>2, <3>1
  <2>4. CASE k \in S
    <3>1. w2[a + x].half = "upper" /\ w2[a + x + 1].half = "lower"
      BY <1>0, <2>1, <2>4 DEF HalvesPlaced
    <3>2. a + x + 1 + 1 = a + x + 2
      BY <2>1
    <3>3. f2[a + x + 1] = f2[a + x] + 1
      BY <1>2, <2>1, <2>4, <3>1 DEF Entries
    <3>4. f2[a + x + 1 + 1] = f2[a + x + 1] + 1
      BY <1>2, <2>1, <2>4, <3>1 DEF Entries
    <3>5. f2[a + x + 2] = f2[a + x] + 2
      BY <2>3, <3>2, <3>3, <3>4
    <3> QED BY <2>1, <2>2, <2>3, <2>4, <3>3, <3>5
  <2>5. CASE k \notin S
    <3>1. w2[a + x].half = "whole"
      BY <1>0, <2>1, <2>5 DEF HalvesPlaced
    <3>2. f2[a + x + 1] = f2[a + x] + 2
      BY <1>2, <2>1, <3>1 DEF Entries
    <3> QED BY <2>1, <2>2, <2>3, <2>5, <3>2
  <2> QED BY <2>4, <2>5
<1>6. ASSUME NEW j \in 1..(n - a - d)
      PROVE  f2[a + d + c + j + 1] - f2[a + d + c + j] = f[a + d + j + 1] - f[a + d + j]
  <2>1. a + d + c + j \in 1..(n + c) /\ a + d + j \in 1..n
        /\ a + d + c + j \in 1..(n + c + 1) /\ a + d + j \in 1..(n + 1)
    OBVIOUS
  <2>2. w2[a + d + c + j] = w[a + d + j]
    BY DEF SplitAs
  <2>3. f2[a + d + c + j + 1] = f2[a + d + c + j] + Entries(w[a + d + j])
        /\ f[a + d + j + 1] = f[a + d + j] + Entries(w[a + d + j])
    BY <1>1, <1>2, <2>1, <2>2
  <2>4. f2[a + d + c + j] \in Int /\ f[a + d + j] \in Int /\ Entries(w[a + d + j]) \in Int
    BY <1>1, <1>2, <2>1 DEF Entries
  <2> QED BY <2>3, <2>4
<1>7. SumsSame(f, f2, n, a, d, S, c)
  <2>1. SumsAlike(f, f2, n, a, d, S, c)
    BY <1>1, <1>2, <1>4, <1>5, <1>6 DEF SumsAlike
  <2> QED BY <2>1, SumsSplit
<1>8. ASSUME NEW k \in 1..(d + 1) PROVE Before(w2, n + c, a + Moved(S, k)) = Before(w, n, a + k)
  <2>1. a + Moved(S, k) \in 1..(n + c + 1) /\ a + k \in 1..(n + 1)
    BY <1>a DEF Inside
  <2> QED BY <1>7, <2>1 DEF SumsSame, f, f2
<1>9. ASSUME NEW k \in S PROVE Before(w2, n + c, a + Moved(S, k) + 1) = Before(w, n, a + k) + 1
  <2>1. k \in 1..d /\ k \in 1..(d + 1)
    OBVIOUS
  <2>2. PICK x \in Int : x = Moved(S, k) /\ a + x \in 1..(n + c) /\ a + x + 1 \in 1..(n + c)
    BY <1>a, <2>1 DEF Inside
  <2>3. a + x \in 1..(n + c + 1) /\ a + x + 1 \in 1..(n + c + 1)
    BY <2>2
  <2>4. f2[a + x + 1] = f2[a + x] + 1
    BY <1>5, <2>1, <2>2
  <2>5. Before(w2, n + c, a + x + 1) = Before(w2, n + c, a + x) + 1
    BY <2>3, <2>4 DEF f2
  <2> QED BY <1>8, <2>1, <2>2, <2>5
<1>10. ASSUME NEW j \in 1..(n - a - d + 1)
       PROVE  Before(w2, n + c, a + d + c + j) = Before(w, n, a + d + j)
  <2>1. a + d + c + j \in 1..(n + c + 1) /\ a + d + j \in 1..(n + 1)
    OBVIOUS
  <2> QED BY <1>7, <2>1 DEF SumsSame, f, f2
<1> QED BY <1>3, <1>8, <1>9, <1>10 DEF CountedAlike

\* So PAY still holds them: the half of a store in the odd entry of a pair begins in its middle.
LEMMA PaySplit ==
  ASSUME NEW n \in Nat, NEW a \in Nat, NEW d \in Nat, a + d <= n, NEW S \in SUBSET (1..d),
         NEW c \in 0..d, c = Cardinality(S), NEW w, NEW w2,
         NEW head \in PayIndex, NEW tail, NEW length,
         WholeFrom(w, a, d), SplitAs(w, n, w2, a, d, S),
         PayOf(w, n, head, tail, length), PairedOf(w, n, tail)
  PROVE  /\ PayOf(w2, n + c, head, tail, length)
         /\ PairedOf(w2, n + c, tail)
         /\ \A k \in S : w[a + k].index + 1 \in PayIndex
<1>0. HalvesPlaced(w, w2, a, d, S)
  BY SplitFields
<1>1. /\ \A k \in 1..(a + 1) : Before(w2, n + c, k) = Before(w, n, k)
      /\ \A k \in 1..(d + 1) : Before(w2, n + c, a + Moved(S, k)) = Before(w, n, a + k)
      /\ \A k \in S : Before(w2, n + c, a + Moved(S, k) + 1) = Before(w, n, a + k) + 1
      /\ \A j \in 1..(n - a - d + 1) : Before(w2, n + c, a + d + c + j) = Before(w, n, a + d + j)
  <2>1. CountedAlike(w, n, w2, a, d, S, c)
    BY BeforeSplit
  <2> QED BY <2>1 DEF CountedAlike
<1>2. Before(w2, n + c, n + c + 1) = Before(w, n, n + 1)
  <2>1. n - a - d + 1 \in 1..(n - a - d + 1) /\ a + d + c + (n - a - d + 1) = n + c + 1
        /\ a + d + (n - a - d + 1) = n + 1
    OBVIOUS
  <2> QED BY <1>1, <2>1
<1>3. ASSUME NEW k \in S
      PROVE  /\ k \in 1..d /\ w[a + k].index + 1 = Wrapped(head + (Before(w, n, a + k) + 1))
             /\ w[a + k].index + 1 \in PayIndex
  <2>0. k \in 1..d
    OBVIOUS
  <2>1. k \in 1..d /\ a + k \in 1..n /\ w[a + k].half = "whole"
    <3>1. a + k \in 1..n
      BY <2>0
    <3> QED BY <2>0, <3>1 DEF WholeFrom
  <2>2. w[a + k].index = Wrapped(head + Before(w, n, a + k)) /\ w[a + k].index % 2 = 0
    BY <2>1 DEF PayOf, PairedOf
  <2>3. PICK x \in Nat : x = Before(w, n, a + k) /\ x + 2 <= 2 * MaxInFlight
    <3>1. a + k \in 1..(n + 1) /\ a + k + 1 \in 1..(n + 1) /\ n + 1 \in 1..(n + 1) /\ a + k + 1 <= n + 1
      BY <2>1
    <3>2. Before(w, n, a + k) \in Nat /\ Before(w, n, a + k + 1) \in Nat /\ Before(w, n, n + 1) \in Nat
          /\ Before(w, n, a + k + 1) <= Before(w, n, n + 1)
      BY <3>1, BeforeType
    <3>3. Before(w, n, a + k + 1) = Before(w, n, a + k) + 2
      BY <2>1, BeforeType DEF Entries
    <3>4. Before(w, n, n + 1) <= 2 * MaxInFlight
      BY DEF PayOf
    <3> QED BY <3>2, <3>3, <3>4, PaySize
  <2>4. x + 0 < PAYLOAD_BUFFER_SIZE /\ 0 \in Nat
    BY <2>3, PaySize
  <2>5. w[a + k].index \in PayIndex
    BY <2>2, <2>3, <2>4, WrappedIs
  <2>6. PICK N \in Nat \ {0} : N = PAYLOAD_BUFFER_SIZE /\ N % 2 = 0 /\ x + 2 < N
    BY <2>3, PaySize
  <2>7. PICK i \in 0..(N - 1) : i = w[a + k].index /\ i % 2 = 0 /\ i = Wrap(head + x, N)
    BY <2>2, <2>3, <2>5, <2>6 DEF PayIndex, Wrapped
  <2>8. i + 1 \in 0..(N - 1)
    BY <2>6, <2>7
  <2>9. i + 1 = Wrap(head + (x + 1), N)
    <3>1. head \in 0..(N - 1)
      BY <2>6 DEF PayIndex
    <3> QED BY <2>6, <2>7, <2>8, <3>1 DEF Wrap
  <2> QED BY <2>1, <2>3, <2>6, <2>7, <2>8, <2>9 DEF PayIndex, Wrapped
<1>4. ASSUME NEW i \in 1..(n + c)
      PROVE  /\ w2[i].index = Wrapped(head + Before(w2, n + c, i))
             /\ w2[i].half # "lower" => w2[i].index % 2 = 0
  <2>1. CASE i \in 1..a
    <3>1. w2[i] = w[i] /\ i \in 1..n /\ i \in 1..(a + 1)
      BY <2>1 DEF SplitAs
    <3> QED BY <1>1, <3>1 DEF PayOf, PairedOf
  <2>2. ASSUME NEW k \in 1..d, i = a + Moved(S, k)
        PROVE  /\ w2[i].index = Wrapped(head + Before(w2, n + c, i))
               /\ w2[i].half # "lower" => w2[i].index % 2 = 0
    <3>1. a + k \in 1..n /\ k \in 1..(d + 1) /\ w[a + k].half = "whole"
      BY DEF WholeFrom
    <3>2. w2[i].index = w[a + k].index
      BY <1>0, <2>2 DEF HalvesPlaced
    <3> QED BY <1>1, <2>2, <3>1, <3>2 DEF PayOf, PairedOf
  <2>3. ASSUME NEW k \in S, i = a + Moved(S, k) + 1
        PROVE  /\ w2[i].index = Wrapped(head + Before(w2, n + c, i))
               /\ w2[i].half # "lower" => w2[i].index % 2 = 0
    <3>1. w2[i].index = w[a + k].index + 1 /\ w2[i].half = "lower"
      BY <1>0, <2>3 DEF HalvesPlaced
    <3> QED BY <1>1, <1>3, <2>3, <3>1
  <2>4. ASSUME NEW j \in 1..(n - a - d), i = a + d + c + j
        PROVE  /\ w2[i].index = Wrapped(head + Before(w2, n + c, i))
               /\ w2[i].half # "lower" => w2[i].index % 2 = 0
    <3>1. w2[i] = w[a + d + j] /\ a + d + j \in 1..n /\ j \in 1..(n - a - d + 1)
      BY <2>4 DEF SplitAs
    <3> QED BY <1>1, <2>4, <3>1 DEF PayOf, PairedOf
  <2>5. \/ i \in 1..a
        \/ \E k \in 1..d : i = a + Moved(S, k) \/ (k \in S /\ i = a + Moved(S, k) + 1)
        \/ \E j \in 1..(n - a - d) : i = a + d + Cardinality(S) + j
    <3>1. i \in 1..(n + Cardinality(S))
      OBVIOUS
    <3>2. SplitPlace(n, a, d, S, i)
      BY <3>1, SplitCases
    <3> QED BY <3>2 DEF SplitPlace
  <2>6. CASE \E k \in 1..d : i = a + Moved(S, k) \/ (k \in S /\ i = a + Moved(S, k) + 1)
    BY <2>2, <2>3, <2>6
  <2>7. CASE \E j \in 1..(n - a - d) : i = a + d + Cardinality(S) + j
    BY <2>4, <2>7
  <2> QED BY <2>1, <2>5, <2>6, <2>7
<1> QED BY <1>2, <1>3, <1>4 DEF PayOf, PairedOf

-----------------------------------------------------------------------------
(* The branch queue *)

\* The pointer k entries on in the branch queue.
At(h, k) == AdvanceBy(h, k, BQ_SIZE)

\* Going on from it, and going on by one.
LEMMA AtIs ==
  ASSUME NEW h \in Pointer(BQ_SIZE), NEW a \in Nat, NEW b \in Nat, a + b <= BQ_SIZE
  PROVE  /\ At(h, a) \in Pointer(BQ_SIZE) /\ At(h, 0) = h
         /\ At(At(h, a), b) = At(h, a + b)
         /\ a < BQ_SIZE => /\ Advance(At(h, a), BQ_SIZE) = At(h, a + 1)
                           /\ At(Advance(h, BQ_SIZE), a) = At(h, a + 1)
                           /\ Advance(h, BQ_SIZE) \in Pointer(BQ_SIZE)
<1>1. PICK N \in Nat \ {0} : N = BQ_SIZE
  BY FetchUnitAssumption
<1>2. a \in 0..N /\ b \in 0..N /\ a + b \in 0..N /\ h \in Pointer(N)
  BY <1>1
<1>3. AdvanceBy(h, a, N) \in Pointer(N) /\ AdvanceBy(h, 0, N) = h
  BY <1>2, AdvanceByType
<1>4. AdvanceBy(AdvanceBy(h, a, N), b, N) = AdvanceBy(h, a + b, N)
  <2>1. AdvanceBy(h, a, N) = Onward(h, a, N) /\ AdvanceBy(h, a + b, N) = Onward(h, a + b, N)
    BY <1>2, AdvanceByIsOnward
  <2>2. AdvanceBy(AdvanceBy(h, a, N), b, N) = Onward(AdvanceBy(h, a, N), b, N)
    BY <1>2, <1>3, AdvanceByIsOnward
  <2>3. Onward(Onward(h, a, N), b, N) = Onward(h, a + b, N)
    BY <1>2 DEF Onward, Pointer
  <2> QED BY <2>1, <2>2, <2>3
<1>5. ASSUME a < N
      PROVE  /\ Advance(AdvanceBy(h, a, N), N) = AdvanceBy(h, a + 1, N)
             /\ AdvanceBy(Advance(h, N), a, N) = AdvanceBy(h, a + 1, N)
             /\ Advance(h, N) \in Pointer(N)
  <2>1. a \in 0..(N - 1)
    BY <1>2, <1>5
  <2> QED BY <1>2, <2>1, AdvanceByNext, AdvanceType
<1> QED BY <1>1, <1>3, <1>4, <1>5 DEF At

\* The entries of the first few pointers are different ones, and are the slots up to the next.
LEMMA AtSlots ==
  ASSUME NEW h \in Pointer(BQ_SIZE), NEW a \in Nat, a < BQ_SIZE
  PROVE  /\ \A b \in Nat : b < BQ_SIZE /\ At(h, b).idx = At(h, a).idx => b = a
         /\ Slots(h, At(h, a), BQ_SIZE) = {At(h, k).idx : k \in 0..(a - 1)}
         /\ At(h, a).idx \in 0..(BQ_SIZE - 1)
<1>1. PICK N \in Nat \ {0} : N = BQ_SIZE
  BY FetchUnitAssumption
<1>2. a \in 0..(N - 1) /\ a \in 0..N /\ h \in Pointer(N)
  BY <1>1
<1>3. ASSUME NEW b \in Nat, b < N, AdvanceBy(h, b, N).idx = AdvanceBy(h, a, N).idx PROVE b = a
  <2>1. b \in 0..(N - 1)
    BY <1>3
  <2> QED BY <1>2, <1>3, <2>1, AdvanceByInjective
<1>4. Slots(h, AdvanceBy(h, a, N), N) = {AdvanceBy(h, k, N).idx : k \in 0..(a - 1)}
  BY <1>2, AdvanceByDistance
<1>5. AdvanceBy(h, a, N) \in Pointer(N)
  BY <1>2, AdvanceByType
<1> QED BY <1>1, <1>3, <1>4, <1>5 DEF At, Pointer

\* The branches among n instructions.
BranchesOf(w, n) == {k \in 1..n : w[k].branch}

\* TagsInProgramOrder of any n instructions and pointers.
TagsOf(w, n, head, tail) ==
  /\ \A k \in BranchesOf(w, n) : w[k].tag = At(head, Count(BranchesOf(w, n), k))
  /\ tail = At(head, Cardinality(BranchesOf(w, n)))

\* The numbers of branches.
LEMMA BranchesType ==
  ASSUME NEW w, NEW n \in Nat
  PROVE  /\ BranchesOf(w, n) \in SUBSET (1..n)
         /\ Cardinality(BranchesOf(w, n)) \in 0..n
         /\ Count(BranchesOf(w, n), 1) = 0 /\ Count(BranchesOf(w, n), n + 1) = Cardinality(BranchesOf(w, n))
         /\ \A k \in 1..(n + 1) : Count(BranchesOf(w, n), k) \in 0..Cardinality(BranchesOf(w, n))
         /\ \A k \in 1..n : Count(BranchesOf(w, n), k + 1)
                              = Count(BranchesOf(w, n), k) + (IF w[k].branch THEN 1 ELSE 0)
         /\ \A k \in BranchesOf(w, n) : Count(BranchesOf(w, n), k) \in 0..(Cardinality(BranchesOf(w, n)) - 1)
<1> DEFINE B == BranchesOf(w, n)
<1>1. B \in SUBSET (1..n) /\ \A k \in 1..n : k \in B <=> w[k].branch
  BY DEF BranchesOf
<1> HIDE DEF B
<1>2. Cardinality(B) \in 0..n /\ Count(B, 1) = 0 /\ Count(B, n + 1) = Cardinality(B)
  <2>1. 1 \in Int
    OBVIOUS
  <2>2. Cardinality(B) \in 0..n
    BY <1>1, <2>1, CountType
  <2> QED BY <1>1, <2>2, CountAll
<1>3. ASSUME NEW k \in 1..(n + 1) PROVE Count(B, k) \in 0..Cardinality(B)
  <2>1. k \in Int
    OBVIOUS
  <2> QED BY <1>1, <2>1, CountType
<1>4. ASSUME NEW k \in 1..n PROVE Count(B, k + 1) = Count(B, k) + (IF w[k].branch THEN 1 ELSE 0)
  <2>1. k \in Int
    OBVIOUS
  <2>2. Count(B, k + 1) = Count(B, k) + (IF k \in B THEN 1 ELSE 0)
    BY <1>1, <2>1, CountNext
  <2> QED BY <1>1, <2>2
<1>5. ASSUME NEW k \in B PROVE Count(B, k) \in 0..(Cardinality(B) - 1)
  <2>1. k \in 1..n /\ k \in 1..(n + 1) /\ k + 1 \in 1..(n + 1)
    BY <1>1
  <2>2. Count(B, k) \in 0..Cardinality(B) /\ Count(B, k + 1) \in 0..Cardinality(B)
    BY <1>3, <2>1
  <2>3. Count(B, k + 1) = Count(B, k) + 1
    BY <1>1, <1>4, <2>1
  <2> QED BY <1>2, <2>2, <2>3
<1> QED BY <1>1, <1>2, <1>3, <1>4, <1>5 DEF B

\* The first m of two lists of instructions are the same branches, with the same tags.
SameBranches(w, w2, m) ==
  \A j \in 1..m : w2[j].branch = w[j].branch /\ (w[j].branch => w2[j].tag = w[j].tag)

\* Branches are counted by what comes before alone.
LEMMA BranchesSame ==
  ASSUME NEW w, NEW w2, NEW n \in Nat, NEW m \in 0..n, SameBranches(w, w2, m)
  PROVE  /\ \A k \in 1..(m + 1) : Count(BranchesOf(w2, m), k) = Count(BranchesOf(w, n), k)
         /\ Cardinality(BranchesOf(w2, m)) = Count(BranchesOf(w, n), m + 1)
         /\ Count(BranchesOf(w, n), m + 1) \in 0..Cardinality(BranchesOf(w, n))
<1>1. ASSUME NEW k \in 1..(m + 1) PROVE Count(BranchesOf(w2, m), k) = Count(BranchesOf(w, n), k)
  <2>1. \A j : j \in BranchesOf(w2, m) /\ j < k <=> j \in BranchesOf(w, n) /\ j < k
    BY DEF BranchesOf, SameBranches
  <2>2. {j \in BranchesOf(w2, m) : j < k} = {j \in BranchesOf(w, n) : j < k}
    BY <2>1
  <2> QED BY <2>2 DEF Count
<1>2. m \in Nat /\ m + 1 \in 1..(m + 1) /\ m + 1 \in 1..(n + 1)
  OBVIOUS
<1>3. Count(BranchesOf(w2, m), m + 1) = Cardinality(BranchesOf(w2, m))
  BY <1>2, BranchesType
<1>4. Count(BranchesOf(w, n), m + 1) \in 0..Cardinality(BranchesOf(w, n))
  BY <1>2, BranchesType
<1> QED BY <1>1, <1>2, <1>3, <1>4

\* Where the branch queue's tail is behind the first m instructions.
LEMMA TagCut ==
  ASSUME NEW w, NEW w2, NEW n \in Nat, NEW m \in 0..n, NEW head, NEW tail,
         TagsOf(w, n, head, tail), SameBranches(w, w2, m)
  PROVE  TagsOf(w2, m, head, At(head, Count(BranchesOf(w, n), m + 1)))
<1>1. /\ \A k \in 1..(m + 1) : Count(BranchesOf(w2, m), k) = Count(BranchesOf(w, n), k)
      /\ Cardinality(BranchesOf(w2, m)) = Count(BranchesOf(w, n), m + 1)
  BY BranchesSame
<1>2. ASSUME NEW k \in BranchesOf(w2, m)
      PROVE  w2[k].tag = At(head, Count(BranchesOf(w2, m), k))
  <2>1. k \in 1..m /\ k \in 1..(m + 1) /\ k \in BranchesOf(w, n) /\ w2[k].tag = w[k].tag
    BY DEF BranchesOf, SameBranches
  <2> QED BY <1>1, <2>1 DEF TagsOf
<1> QED BY <1>1, <1>2 DEF TagsOf

\* Branches have two entries of PAY, so that the branch queue has room for them.
LEMMA BranchesFit ==
  ASSUME NEW w, NEW n \in Nat, Before(w, n, n + 1) <= 2 * MaxInFlight,
         \A k \in 1..n : w[k].branch => w[k].half = "whole"
  PROVE  Cardinality(BranchesOf(w, n)) <= BQ_SIZE
<1>1. BranchesOf(w, n) \subseteq Wholes(w, n) /\ Wholes(w, n) \in SUBSET (1..n)
  BY DEF BranchesOf, Wholes
<1>2. IsFiniteSet(Wholes(w, n)) /\ Cardinality(Wholes(w, n)) \in 0..n
  <2>1. 1 \in Int
    OBVIOUS
  <2> QED BY <1>1, <2>1, CountType
<1>3. Cardinality(BranchesOf(w, n)) <= Cardinality(Wholes(w, n))
  BY <1>1, <1>2, FS_Subset
<1>4. Count(Wholes(w, n), n + 1) = Cardinality(Wholes(w, n))
  BY <1>1, CountAll
<1>5. Cardinality(BranchesOf(w, n)) \in 0..n
  BY BranchesType
<1>6. n + Cardinality(Wholes(w, n)) <= 2 * MaxInFlight
  BY <1>2, <1>4 DEF Before
<1> QED BY <1>2, <1>3, <1>5, <1>6, FetchUnitAssumption

\* The last m of n + m instructions are the branches p.
Appended(w2, n, p, m) == \A k \in 1..m : w2[n + k].branch = p[k].branch

\* Behind n instructions branches are counted on.
CountedOn(w, w2, p, n, m) ==
  /\ \A k \in 1..(n + 1) : Count(BranchesOf(w2, n + m), k) = Count(BranchesOf(w, n), k)
  /\ \A k \in 1..(m + 1) : Count(BranchesOf(w2, n + m), n + k)
                             = Cardinality(BranchesOf(w, n)) + Count(BranchesOf(p, m), k)
  /\ Cardinality(BranchesOf(w2, n + m)) = Cardinality(BranchesOf(w, n)) + Cardinality(BranchesOf(p, m))

\* By the first place at which they would not be.
LEMMA BranchesAppend ==
  ASSUME NEW w, NEW w2, NEW p, NEW n \in Nat, NEW m \in Nat,
         SameBranches(w, w2, n), Appended(w2, n, p, m)
  PROVE  CountedOn(w, w2, p, n, m)
<1> DEFINE C2(k) == Count(BranchesOf(w2, n + m), k)
           Cp(k) == Count(BranchesOf(p, m), k)
<1>1. PICK c \in 0..n : c = Cardinality(BranchesOf(w, n))
  BY BranchesType
<1>2. \A k \in 1..(n + 1) : C2(k) = Count(BranchesOf(w, n), k)
  <2> SUFFICES ASSUME NEW k \in 1..(n + 1) PROVE C2(k) = Count(BranchesOf(w, n), k)
    OBVIOUS
  <2>1. \A j : j \in BranchesOf(w2, n + m) /\ j < k <=> j \in BranchesOf(w, n) /\ j < k
    BY DEF BranchesOf, SameBranches
  <2>2. {j \in BranchesOf(w2, n + m) : j < k} = {j \in BranchesOf(w, n) : j < k}
    BY <2>1
  <2> QED BY <2>2 DEF Count
<1>3. \A k \in 1..(n + m) : C2(k + 1) = C2(k) + (IF w2[k].branch THEN 1 ELSE 0)
  <2>1. n + m \in Nat
    OBVIOUS
  <2> QED BY <2>1, BranchesType
<1>4. \A k \in 1..m : Cp(k + 1) = Cp(k) + (IF p[k].branch THEN 1 ELSE 0)
  BY BranchesType
<1>5. Cp(1) = 0 /\ Cp(m + 1) = Cardinality(BranchesOf(p, m)) /\ \A k \in 1..(m + 1) : Cp(k) \in Nat
  BY BranchesType
<1>6. C2(n + 1) = c
  <2>1. Count(BranchesOf(w, n), n + 1) = c
    BY <1>1, BranchesType
  <2>2. n + 1 \in 1..(n + 1)
    OBVIOUS
  <2> QED BY <1>2, <2>1, <2>2
<1> HIDE DEF C2, Cp
<1>7. ASSUME NEW k \in 1..(m + 1) PROVE C2(n + k) = c + Cp(k)
  <2> DEFINE T == {j \in 1..(m + 1) : C2(n + j) # c + Cp(j)}
  <2>1. SUFFICES ASSUME T # {} PROVE FALSE
    OBVIOUS
  <2>2. PICK j \in T : \A i \in T : j <= i
    <3>1. T \subseteq Nat
      OBVIOUS
    <3> HIDE DEF T
    <3> QED BY <2>1, <3>1, LeastNat
  <2>3. j # 1
    BY <1>1, <1>5, <1>6, <2>2
  <2>4. PICK i \in 1..m : i = j - 1 /\ i \notin T
    <3>1. j - 1 \in 1..m /\ j - 1 \notin T
      BY <2>2, <2>3
    <3> QED BY <3>1
  <2>5. C2(n + i) = c + Cp(i) /\ n + i \in 1..(n + m) /\ n + i + 1 = n + j /\ i + 1 = j
    BY <2>2, <2>4
  <2>6. w2[n + i].branch = p[i].branch
    BY <2>4 DEF Appended
  <2>7. C2(n + j) = C2(n + i) + (IF p[i].branch THEN 1 ELSE 0)
    BY <1>3, <2>5, <2>6
  <2>8. Cp(j) = Cp(i) + (IF p[i].branch THEN 1 ELSE 0) /\ Cp(i) \in Nat
    BY <1>4, <1>5, <2>5
  <2> QED BY <1>1, <2>2, <2>5, <2>7, <2>8
<1>8. C2(n + (m + 1)) = c + Cp(m + 1)
  BY <1>7
<1>9. C2(n + m + 1) = Cardinality(BranchesOf(w2, n + m)) /\ n + (m + 1) = n + m + 1
  <2>1. n + m \in Nat
    OBVIOUS
  <2> QED BY <2>1, BranchesType DEF C2
<1> QED BY <1>1, <1>2, <1>5, <1>7, <1>8, <1>9 DEF C2, Cp, CountedOn

\* The branches of a bundle get the tags behind the branch queue's tail.
LEMMA TagPush ==
  ASSUME NEW w, NEW w2, NEW p, NEW n \in Nat, NEW m \in Nat,
         NEW head \in Pointer(BQ_SIZE), NEW tail,
         TagsOf(w, n, head, tail), SameBranches(w, w2, n), Appended(w2, n, p, m),
         Cardinality(BranchesOf(w, n)) + Cardinality(BranchesOf(p, m)) <= BQ_SIZE,
         \A k \in BranchesOf(p, m) : w2[n + k].tag = At(tail, Count(BranchesOf(p, m), k))
  PROVE  TagsOf(w2, n + m, head, At(tail, Cardinality(BranchesOf(p, m))))
<1>1. /\ \A k \in 1..(n + 1) : Count(BranchesOf(w2, n + m), k) = Count(BranchesOf(w, n), k)
      /\ \A k \in 1..(m + 1) : Count(BranchesOf(w2, n + m), n + k)
                                 = Cardinality(BranchesOf(w, n)) + Count(BranchesOf(p, m), k)
      /\ Cardinality(BranchesOf(w2, n + m))
           = Cardinality(BranchesOf(w, n)) + Cardinality(BranchesOf(p, m))
  <2>1. CountedOn(w, w2, p, n, m)
    BY BranchesAppend
  <2> QED BY <2>1 DEF CountedOn
<1>2. PICK c \in Nat, e \in Nat : c = Cardinality(BranchesOf(w, n)) /\ e = Cardinality(BranchesOf(p, m))
                                  /\ c + e <= BQ_SIZE /\ tail = At(head, c)
  BY BranchesType DEF TagsOf
<1>3. ASSUME NEW k \in BranchesOf(w2, n + m)
      PROVE  w2[k].tag = At(head, Count(BranchesOf(w2, n + m), k))
  <2>1. CASE k \in 1..n
    <3>1. k \in BranchesOf(w, n) /\ w2[k].tag = w[k].tag /\ k \in 1..(n + 1)
      BY <2>1 DEF BranchesOf, SameBranches
    <3> QED BY <1>1, <3>1 DEF TagsOf
  <2>2. CASE k \notin 1..n
    <3>1. PICK j \in 1..m : k = n + j
      <4>1. k - n \in 1..m /\ k = n + (k - n)
        BY <2>2 DEF BranchesOf
      <4> QED BY <4>1
    <3>2. j \in BranchesOf(p, m) /\ j \in 1..(m + 1)
      BY <3>1 DEF BranchesOf, Appended
    <3>3. PICK i \in Nat : i = Count(BranchesOf(p, m), j) /\ i <= e
      BY <1>2, <3>2, BranchesType
    <3>4. c + i <= BQ_SIZE
      BY <1>2, <3>3, FetchUnitAssumption
    <3>5. At(At(head, c), i) = At(head, c + i)
      BY <3>4, AtIs
    <3>6. w2[n + j].tag = At(tail, i)
      BY <3>2, <3>3
    <3> QED BY <1>1, <1>2, <3>1, <3>2, <3>3, <3>5, <3>6
  <2> QED BY <2>1, <2>2
<1>4. At(At(head, c), e) = At(head, c + e)
  BY <1>2, AtIs
<1> QED BY <1>1, <1>2, <1>3, <1>4 DEF TagsOf

\* What the branch queue holds without the first of n instructions.
TagsBehind(w, n, w2, head, tail) ==
  /\ Cardinality(BranchesOf(w2, n - 1))
       = Cardinality(BranchesOf(w, n)) - (IF w[1].branch THEN 1 ELSE 0)
  /\ IF w[1].branch
     THEN /\ TagsOf(w2, n - 1, Advance(head, BQ_SIZE), tail)
          /\ w[1].tag = head /\ Cardinality(BranchesOf(w, n)) >= 1
     ELSE TagsOf(w2, n - 1, head, tail)

\* The oldest instruction leaves, and with it the oldest branch if it is one.
LEMMA TagPop ==
  ASSUME NEW w, NEW w2, NEW n \in Nat \ {0}, NEW head \in Pointer(BQ_SIZE), NEW tail,
         TagsOf(w, n, head, tail), \A j \in 1..(n - 1) : w2[j] = w[j + 1],
         Cardinality(BranchesOf(w, n)) <= BQ_SIZE
  PROVE  TagsBehind(w, n, w2, head, tail)
<1> SUFFICES /\ Cardinality(BranchesOf(w2, n - 1))
                  = Cardinality(BranchesOf(w, n)) - (IF w[1].branch THEN 1 ELSE 0)
             /\ IF w[1].branch
                THEN /\ TagsOf(w2, n - 1, Advance(head, BQ_SIZE), tail)
                     /\ w[1].tag = head /\ Cardinality(BranchesOf(w, n)) >= 1
                ELSE TagsOf(w2, n - 1, head, tail)
  BY DEF TagsBehind
<1> DEFINE B == BranchesOf(w, n)
           B2 == BranchesOf(w2, n - 1)
<1>1. /\ B \in SUBSET (1..n) /\ B2 \in SUBSET (1..(n - 1))
      /\ \A j \in 1..(n - 1) : j \in B2 <=> j + 1 \in B
      /\ 1 \in B <=> w[1].branch
  BY DEF BranchesOf
<1>2. ASSUME NEW k \in 1..n
      PROVE  /\ Count(B2, k) = Count(B, k + 1) - (IF 1 \in B THEN 1 ELSE 0)
             /\ Cardinality(B2) = Cardinality(B) - (IF 1 \in B THEN 1 ELSE 0)
  <2> HIDE DEF B, B2
  <2> QED BY <1>1, CountShift
<1>3. Cardinality(B2) = Cardinality(B) - (IF 1 \in B THEN 1 ELSE 0)
  <2>1. 1 \in 1..n
    OBVIOUS
  <2> QED BY <1>2, <2>1
<1>4. PICK c \in Nat : c = Cardinality(B) /\ c <= BQ_SIZE /\ tail = At(head, c)
  <2>1. Cardinality(B) \in 0..n
    BY BranchesType
  <2> QED BY <2>1 DEF TagsOf
<1>5. ASSUME NEW k \in B2
      PROVE  /\ k + 1 \in B /\ k \in 1..n /\ w2[k].tag = At(head, Count(B, k + 1))
             /\ Count(B, k + 1) \in 0..(c - 1)
  <2>1. k + 1 \in B /\ k \in 1..(n - 1) /\ w2[k] = w[k + 1] /\ k \in 1..n
    BY <1>1
  <2>2. Count(B, k + 1) \in 0..(c - 1)
    BY <1>4, <2>1, BranchesType
  <2> QED BY <2>1, <2>2 DEF TagsOf
<1>6. CASE w[1].branch
  <2>1. 1 \in B /\ Count(B, 1) = 0 /\ c >= 1
    <3>1. 1 \in B /\ Count(B, 1) = 0
      BY <1>1, <1>6, BranchesType
    <3>2. Count(B, 1) \in 0..(c - 1)
      BY <1>4, <3>1, BranchesType
    <3> QED BY <1>4, <3>1, <3>2
  <2>2. w[1].tag = head
    <3>1. w[1].tag = At(head, 0)
      BY <2>1 DEF TagsOf
    <3>2. At(head, 0) = head
      BY <1>4, AtIs
    <3> QED BY <3>1, <3>2
  <2>3. \A i \in Nat : i < c => At(Advance(head, BQ_SIZE), i) = At(head, i + 1)
    <3> SUFFICES ASSUME NEW i \in Nat, i < c PROVE At(Advance(head, BQ_SIZE), i) = At(head, i + 1)
      OBVIOUS
    <3>1. i + 0 <= BQ_SIZE /\ 0 \in Nat /\ i < BQ_SIZE
      BY <1>4, FetchUnitAssumption
    <3> QED BY <3>1, AtIs
  <2>4. ASSUME NEW k \in B2 PROVE w2[k].tag = At(Advance(head, BQ_SIZE), Count(B2, k))
    <3>1. PICK i \in Nat : i = Count(B, k + 1) /\ i <= c - 1 /\ Count(B2, k) = i - 1
                           /\ w2[k].tag = At(head, i)
      BY <1>2, <1>4, <1>5, <2>1
    <3>2. i >= 1
      <4>1. k \in 1..(n - 1) /\ n - 1 \in Nat
        BY <1>1
      <4>2. k \in 1..((n - 1) + 1)
        BY <4>1
      <4>3. Count(B2, k) \in Nat
        BY <4>1, <4>2, BranchesType
      <4> QED BY <3>1, <4>3
    <3>3. i - 1 \in Nat /\ i - 1 < c /\ (i - 1) + 1 = i
      BY <1>4, <3>1, <3>2
    <3>4. At(Advance(head, BQ_SIZE), i - 1) = At(head, i)
      BY <2>3, <3>3
    <3> QED BY <3>1, <3>4
  <2>5. tail = At(Advance(head, BQ_SIZE), Cardinality(B2))
    <3>1. Cardinality(B2) = c - 1 /\ c - 1 \in Nat /\ c - 1 < c /\ (c - 1) + 1 = c
      BY <1>3, <1>4, <2>1
    <3>2. At(Advance(head, BQ_SIZE), c - 1) = At(head, c)
      BY <2>3, <3>1
    <3> QED BY <1>4, <3>1, <3>2
  <2> QED BY <1>3, <1>4, <1>6, <2>1, <2>2, <2>4, <2>5 DEF TagsOf
<1>7. CASE ~w[1].branch
  <2>1. 1 \notin B
    BY <1>1, <1>7
  <2>2. ASSUME NEW k \in B2 PROVE w2[k].tag = At(head, Count(B2, k))
    <3>1. PICK i \in Nat : i = Count(B, k + 1)
      BY <1>4, <1>5
    <3>2. Count(B2, k) = i
      BY <1>2, <1>5, <2>1, <3>1
    <3> QED BY <1>5, <3>1, <3>2
  <2>3. Cardinality(B2) = c
    BY <1>3, <1>4, <2>1
  <2> QED BY <1>3, <1>4, <1>7, <2>1, <2>2, <2>3 DEF TagsOf
<1> QED BY <1>6, <1>7

\* What decode splits are no branches, and the others keep their tags.
BranchesPlaced(w, w2, a, d, S) ==
  /\ \A k \in 1..d : /\ w2[a + Moved(S, k)].branch = w[a + k].branch
                     /\ w2[a + Moved(S, k)].tag = w[a + k].tag
  /\ \A k \in S : ~w2[a + Moved(S, k)].branch /\ ~w2[a + Moved(S, k) + 1].branch

\* They are where they are what decode makes.
LEMMA SplitBranches ==
  ASSUME NEW w, NEW n, NEW w2, NEW a, NEW d \in Nat, NEW S \in SUBSET (1..d),
         WholeFrom(w, a, d), SplitAs(w, n, w2, a, d, S), \A k \in S : ~w[a + k].branch
  PROVE  BranchesPlaced(w, w2, a, d, S)
<1>1. ASSUME NEW k \in 1..d
      PROVE  w2[a + Moved(S, k)].branch = w[a + k].branch /\ w2[a + Moved(S, k)].tag = w[a + k].tag
  <2>1. w[a + k] \in Instruction
    BY DEF WholeFrom
  <2>2. CASE k \in S
    <3>1. w2[a + Moved(S, k)] = Upper(w[a + k])
      BY <2>2 DEF SplitAs
    <3> QED BY <2>1, <3>1, HalvesAre
  <2>3. CASE k \notin S
    BY <2>3 DEF SplitAs
  <2> QED BY <2>2, <2>3
<1>2. ASSUME NEW k \in S PROVE ~w2[a + Moved(S, k)].branch /\ ~w2[a + Moved(S, k) + 1].branch
  <2>1. k \in 1..d /\ ~w[a + k].branch
    OBVIOUS
  <2>2. w[a + k] \in Instruction
    BY <2>1 DEF WholeFrom
  <2>3. w2[a + Moved(S, k) + 1] = Lower(w[a + k])
    BY DEF SplitAs
  <2>4. Lower(w[a + k]).branch = w[a + k].branch
    BY <2>2, HalvesAre
  <2>5. w2[a + Moved(S, k)].branch = w[a + k].branch
    BY <1>1, <2>1
  <2>6. ~w2[a + Moved(S, k) + 1].branch
    BY <2>1, <2>3, <2>4
  <2>7. ~w2[a + Moved(S, k)].branch
    BY <2>1, <2>5
  <2> QED BY <2>6, <2>7
<1> QED BY <1>1, <1>2 DEF BranchesPlaced

\* The n2 instructions w2 are the branch queue's with as many branches as the n before.
TagsKept(w, n, w2, n2, head, tail) ==
  /\ TagsOf(w2, n2, head, tail)
  /\ Cardinality(BranchesOf(w2, n2)) = Cardinality(BranchesOf(w, n))

\* So the branch queue holds what it held.
LEMMA TagSplit ==
  ASSUME NEW n \in Nat, NEW a \in Nat, NEW d \in Nat, a + d <= n, NEW S \in SUBSET (1..d),
         NEW c \in 0..d, c = Cardinality(S), NEW w, NEW w2, NEW head, NEW tail,
         WholeFrom(w, a, d), SplitAs(w, n, w2, a, d, S), \A k \in S : ~w[a + k].branch,
         TagsOf(w, n, head, tail)
  PROVE  TagsKept(w, n, w2, n + c, head, tail)
<1>0. BranchesPlaced(w, w2, a, d, S)
  BY SplitBranches
<1>a. Inside(n, a, d, S, c)
  BY MovedInside
<1> DEFINE B == BranchesOf(w, n)
           B2 == BranchesOf(w2, n + c)
           f == [k \in 1..(n + 1) |-> Count(B, k)]
           f2 == [k \in 1..(n + c + 1) |-> Count(B2, k)]
           Bit(x) == IF x.branch THEN 1 ELSE 0
<1>1. /\ \A k \in 1..n : f[k + 1] = f[k] + Bit(w[k])
      /\ f \in [1..(n + 1) -> Int]
  <2>1. \A k \in 1..n : Count(B, k + 1) = Count(B, k) + Bit(w[k])
    BY BranchesType
  <2>2. \A k \in 1..(n + 1) : Count(B, k) \in Nat
    BY BranchesType
  <2>3. \A k \in 1..n : k \in 1..(n + 1) /\ k + 1 \in 1..(n + 1)
    OBVIOUS
  <2> HIDE DEF B
  <2> QED BY <2>1, <2>2, <2>3
<1>2. /\ \A k \in 1..(n + c) : f2[k + 1] = f2[k] + Bit(w2[k])
      /\ f2 \in [1..(n + c + 1) -> Int]
  <2>0. n + c \in Nat
    OBVIOUS
  <2>1. \A k \in 1..(n + c) : Count(B2, k + 1) = Count(B2, k) + Bit(w2[k])
    BY <2>0, BranchesType
  <2>2. \A k \in 1..(n + c + 1) : Count(B2, k) \in Nat
    BY <2>0, BranchesType
  <2>3. \A k \in 1..(n + c) : k \in 1..(n + c + 1) /\ k + 1 \in 1..(n + c + 1)
    OBVIOUS
  <2> HIDE DEF B2
  <2> QED BY <2>1, <2>2, <2>3
<1>3. \A k \in 1..(a + 1) : Count(B2, k) = Count(B, k)
  <2> SUFFICES ASSUME NEW k \in 1..(a + 1) PROVE Count(B2, k) = Count(B, k)
    OBVIOUS
  <2>1. \A j \in 1..a : w2[j] = w[j]
    BY DEF SplitAs
  <2>2. \A j : j \in B2 /\ j < k <=> j \in B /\ j < k
    BY <2>1 DEF BranchesOf
  <2>3. {j \in B2 : j < k} = {j \in B : j < k}
    BY <2>2
  <2> QED BY <2>3 DEF Count
<1>4. \A k \in 1..(a + 1) : f2[k] = f[k]
  BY <1>3
<1> HIDE DEF f, f2, B, B2
<1>5. ASSUME NEW k \in 1..d
      PROVE  f2[a + Moved(S, k) + (IF k \in S THEN 2 ELSE 1)] - f2[a + Moved(S, k)]
               = f[a + k + 1] - f[a + k]
  <2>1. PICK x \in Int : x = Moved(S, k) /\ a + x \in 1..(n + c)
                       /\ (k \in S => a + x + 1 \in 1..(n + c))
    BY <1>a DEF Inside
  <2>2. f[a + k + 1] = f[a + k] + Bit(w[a + k]) /\ f[a + k] \in Int
    <3>1. a + k \in 1..n /\ a + k \in 1..(n + 1)
      OBVIOUS
    <3> QED BY <1>1, <3>1
  <2>3. f2[a + x] \in Int
    <3>1. a + x \in 1..(n + c + 1)
      BY <2>1
    <3> QED BY <1>2, <3>1
  <2>4. w2[a + x].branch = w[a + k].branch
    BY <1>0, <2>1 DEF BranchesPlaced
  <2>5. f2[a + x + 1] = f2[a + x] + Bit(w[a + k])
    BY <1>2, <2>1, <2>4
  <2>6. CASE k \in S
    <3>1. ~w2[a + x].branch /\ ~w2[a + x + 1].branch
      BY <1>0, <2>1, <2>6 DEF BranchesPlaced
    <3>2. a + x + 1 + 1 = a + x + 2
      BY <2>1
    <3>3. f2[a + x + 1] = f2[a + x] /\ f[a + k + 1] = f[a + k]
      BY <2>2, <2>3, <2>4, <2>5, <3>1
    <3>4. f2[a + x + 1 + 1] = f2[a + x + 1]
      BY <1>2, <2>1, <2>3, <2>6, <3>1, <3>3
    <3> QED BY <2>1, <2>2, <2>3, <2>6, <3>2, <3>3, <3>4
  <2>7. CASE k \notin S
    BY <2>1, <2>2, <2>3, <2>5, <2>7
  <2> QED BY <2>6, <2>7
<1>6. ASSUME NEW j \in 1..(n - a - d)
      PROVE  f2[a + d + c + j + 1] - f2[a + d + c + j] = f[a + d + j + 1] - f[a + d + j]
  <2>1. a + d + c + j \in 1..(n + c) /\ a + d + j \in 1..n
        /\ a + d + c + j \in 1..(n + c + 1) /\ a + d + j \in 1..(n + 1)
    OBVIOUS
  <2>2. w2[a + d + c + j] = w[a + d + j]
    BY DEF SplitAs
  <2>3. f2[a + d + c + j + 1] = f2[a + d + c + j] + Bit(w[a + d + j])
        /\ f[a + d + j + 1] = f[a + d + j] + Bit(w[a + d + j])
    BY <1>1, <1>2, <2>1, <2>2
  <2>4. f2[a + d + c + j] \in Int /\ f[a + d + j] \in Int /\ Bit(w[a + d + j]) \in Int
    BY <1>1, <1>2, <2>1
  <2> QED BY <2>3, <2>4
<1>7. SumsSame(f, f2, n, a, d, S, c)
  <2>1. SumsAlike(f, f2, n, a, d, S, c)
    BY <1>1, <1>2, <1>4, <1>5, <1>6 DEF SumsAlike
  <2> QED BY <2>1, SumsSplit
<1>8. ASSUME NEW k \in 1..(d + 1) PROVE Count(B2, a + Moved(S, k)) = Count(B, a + k)
  <2>1. a + Moved(S, k) \in 1..(n + c + 1) /\ a + k \in 1..(n + 1)
    BY <1>a DEF Inside
  <2> QED BY <1>7, <2>1 DEF SumsSame, f, f2
<1>9. ASSUME NEW j \in 1..(n - a - d + 1) PROVE Count(B2, a + d + c + j) = Count(B, a + d + j)
  <2>1. a + d + c + j \in 1..(n + c + 1) /\ a + d + j \in 1..(n + 1)
    OBVIOUS
  <2> QED BY <1>7, <2>1 DEF SumsSame, f, f2
<1>10. Cardinality(B2) = Cardinality(B)
  <2>1. n - a - d + 1 \in 1..(n - a - d + 1) /\ a + d + c + (n - a - d + 1) = n + c + 1
        /\ a + d + (n - a - d + 1) = n + 1 /\ n + c \in Nat
    OBVIOUS
  <2>2. Count(B2, n + c + 1) = Count(B, n + 1)
    BY <1>9, <2>1
  <2>3. Count(B2, n + c + 1) = Cardinality(B2) /\ Count(B, n + 1) = Cardinality(B)
    BY <2>1, BranchesType DEF B, B2
  <2> QED BY <2>2, <2>3
<1>11. ASSUME NEW i \in B2 PROVE w2[i].tag = At(head, Count(B2, i))
  <2>0. i \in 1..(n + c) /\ w2[i].branch
    BY DEF B2, BranchesOf
  <2>1. CASE i \in 1..a
    <3>1. w2[i] = w[i] /\ i \in 1..n /\ i \in 1..(a + 1)
      BY <2>1 DEF SplitAs
    <3>2. i \in B
      BY <2>0, <3>1 DEF B, BranchesOf
    <3> QED BY <1>3, <3>1, <3>2 DEF TagsOf, B
  <2>2. ASSUME NEW k \in 1..d, i = a + Moved(S, k) PROVE w2[i].tag = At(head, Count(B2, i))
    <3>1. a + k \in 1..n /\ k \in 1..(d + 1)
      OBVIOUS
    <3>2. w[a + k].branch /\ w2[i].tag = w[a + k].tag
      BY <1>0, <2>0, <2>2 DEF BranchesPlaced
    <3>3. a + k \in B
      BY <3>1, <3>2 DEF B, BranchesOf
    <3> QED BY <1>8, <2>2, <3>1, <3>2, <3>3 DEF TagsOf, B
  <2>3. ASSUME NEW k \in S PROVE i # a + Moved(S, k) + 1
    BY <1>0, <2>0 DEF BranchesPlaced
  <2>4. ASSUME NEW j \in 1..(n - a - d), i = a + d + c + j PROVE w2[i].tag = At(head, Count(B2, i))
    <3>1. w2[i] = w[a + d + j] /\ a + d + j \in 1..n /\ j \in 1..(n - a - d + 1)
      BY <2>4 DEF SplitAs
    <3>2. a + d + j \in B
      BY <2>0, <3>1 DEF B, BranchesOf
    <3> QED BY <1>9, <2>4, <3>1, <3>2 DEF TagsOf, B
  <2>5. \/ i \in 1..a
        \/ \E k \in 1..d : i = a + Moved(S, k) \/ (k \in S /\ i = a + Moved(S, k) + 1)
        \/ \E j \in 1..(n - a - d) : i = a + d + Cardinality(S) + j
    <3>1. i \in 1..(n + Cardinality(S))
      BY <2>0
    <3>2. SplitPlace(n, a, d, S, i)
      BY <3>1, SplitCases
    <3> QED BY <3>2 DEF SplitPlace
  <2>6. CASE \E k \in 1..d : i = a + Moved(S, k) \/ (k \in S /\ i = a + Moved(S, k) + 1)
    BY <2>2, <2>3, <2>6
  <2>7. CASE \E j \in 1..(n - a - d) : i = a + d + Cardinality(S) + j
    BY <2>4, <2>7
  <2> QED BY <2>1, <2>5, <2>6, <2>7
<1> QED BY <1>10, <1>11 DEF TagsKept, TagsOf, B, B2

-----------------------------------------------------------------------------
(* Histories *)

\* A history shifted by some outcomes, by none and by one.
LEMMA AfterType ==
  ASSUME NEW h \in History, NEW o \in Seq(BOOLEAN)
  PROVE  /\ After(h, o) \in History
         /\ After(h, <<>>) = h
         /\ \A t \in BOOLEAN : update_bhr(h, t) = After(h, <<t>>) /\ update_bhr(h, t) \in History
<1>1. PICK b \in Nat \ {0} : b = bhr_length
  BY FetchUnitAssumption
<1>2. h \in [1..b -> BOOLEAN] /\ Len(o) \in Nat /\ \A i \in 1..Len(o) : o[i] \in BOOLEAN
  BY <1>1, ElementOfSeq DEF History
<1>3. ASSUME NEW k \in 1..b
      PROVE  (IF k + Len(o) <= b THEN h[k + Len(o)] ELSE o[k + Len(o) - b]) \in BOOLEAN
  <2>1. CASE k + Len(o) <= b
    <3>1. k + Len(o) \in 1..b
      BY <1>2, <2>1
    <3>2. h[k + Len(o)] \in BOOLEAN
      BY <1>2, <3>1
    <3> QED BY <2>1, <3>2
  <2>2. CASE ~(k + Len(o) <= b)
    <3>1. k + Len(o) - b \in 1..Len(o)
      BY <1>2, <2>2
    <3>2. o[k + Len(o) - b] \in BOOLEAN
      BY <1>2, <3>1
    <3> QED BY <2>2, <3>2
  <2> QED BY <2>1, <2>2
<1>4. After(h, o) \in History
  BY <1>1, <1>3 DEF After, History
<1>5. After(h, <<>>) = h
  BY <1>1, <1>2 DEF After
<1>6. ASSUME NEW t \in BOOLEAN PROVE update_bhr(h, t) = After(h, <<t>>)
  <2>1. Len(<<t>>) = 1 /\ <<t>>[1] = t
    OBVIOUS
  <2>2. \A k \in 1..b : k + 1 <= b <=> k # b
    OBVIOUS
  <2> QED BY <1>1, <2>1, <2>2 DEF After, update_bhr
<1>7. ASSUME NEW t \in BOOLEAN PROVE update_bhr(h, t) \in History
  <2> SUFFICES ASSUME NEW k \in 1..b PROVE (IF k = b THEN t ELSE h[k + 1]) \in BOOLEAN
    BY <1>1 DEF update_bhr, History
  <2>1. k # b => k + 1 \in 1..b
    OBVIOUS
  <2> QED BY <1>2, <2>1
<1> QED BY <1>4, <1>5, <1>6, <1>7

\* Sequences of instructions are joined in any order.
LEMMA Associates ==
  ASSUME NEW u \in Seq(Instruction), NEW v \in Seq(Instruction), NEW w \in Seq(Instruction)
  PROVE  (u \o v) \o w = u \o (v \o w)
BY ConcatAssociative, SMTT(60)

\* One list of outcomes after the other is both at once.
LEMMA AfterAfter ==
  ASSUME NEW h \in History, NEW o \in Seq(BOOLEAN), NEW p \in Seq(BOOLEAN)
  PROVE  After(After(h, o), p) = After(h, o \o p)
<1>1. PICK b \in Nat \ {0} : b = bhr_length
  BY FetchUnitAssumption
<1>2. PICK m \in Nat, n \in Nat : m = Len(o) /\ n = Len(p)
  BY LenProperties
<1>3. Len(o \o p) = m + n /\ \A i \in 1..(m + n) : (o \o p)[i] = IF i <= m THEN o[i] ELSE p[i - m]
  BY <1>2, ConcatProperties
<1>4. ASSUME NEW k \in 1..b
      PROVE  (IF k + n <= b THEN After(h, o)[k + n] ELSE p[k + n - b])
               = IF k + (m + n) <= b THEN h[k + (m + n)] ELSE (o \o p)[k + (m + n) - b]
  <2>1. CASE k + n <= b
    <3>1. k + n \in 1..b
      BY <2>1
    <3>2. After(h, o)[k + n] = IF k + n + m <= b THEN h[k + n + m] ELSE o[k + n + m - b]
      BY <1>1, <1>2, <3>1 DEF After
    <3>3. k + n + m = k + (m + n)
      OBVIOUS
    <3>4. CASE k + (m + n) <= b
      BY <2>1, <3>2, <3>3, <3>4
    <3>5. CASE ~(k + (m + n) <= b)
      <4>1. PICK i \in 1..(m + n) : i = k + (m + n) - b /\ i <= m
        BY <2>1, <3>5
      <4>2. (o \o p)[i] = o[i]
        BY <1>3, <4>1
      <4>3. After(h, o)[k + n] = o[i]
        BY <3>2, <3>3, <3>5, <4>1
      <4> QED BY <2>1, <3>5, <4>1, <4>2, <4>3
    <3> QED BY <3>4, <3>5
  <2>2. CASE ~(k + n <= b)
    <3>1. k + (m + n) - b \in 1..(m + n) /\ ~(k + (m + n) - b <= m) /\ ~(k + (m + n) <= b)
          /\ k + (m + n) - b - m = k + n - b
      BY <2>2
    <3>2. PICK i \in 1..(m + n) : i = k + (m + n) - b
      BY <3>1
    <3>3. (o \o p)[i] = p[i - m] /\ i - m = k + n - b
      <4>1. ~(i <= m) /\ i - m = k + n - b
        BY <3>1, <3>2
      <4>2. (o \o p)[i] = IF i <= m THEN o[i] ELSE p[i - m]
        BY <1>3
      <4> QED BY <4>1, <4>2
    <3> QED BY <2>2, <3>1, <3>2, <3>3
  <2> QED BY <2>1, <2>2
<1> QED BY <1>1, <1>2, <1>3, <1>4 DEF After

\* The first c outcomes of the branch queue.
Out(h, c, q) == [i \in 1..c |-> q[At(h, i - 1).idx]]

\* They are a sequence, to which the next outcome is appended.
LEMMA OutType ==
  ASSUME NEW h \in Pointer(BQ_SIZE), NEW c \in Nat, c <= BQ_SIZE,
         NEW q \in [0..(BQ_SIZE - 1) -> BOOLEAN]
  PROVE  /\ Out(h, c, q) \in Seq(BOOLEAN) /\ Len(Out(h, c, q)) = c
         /\ Out(h, 0, q) = <<>>
         /\ c < BQ_SIZE => /\ q[At(h, c).idx] \in BOOLEAN
                           /\ Out(h, c + 1, q) = Out(h, c, q) \o <<q[At(h, c).idx]>>
         /\ c > 0 => /\ q[h.idx] \in BOOLEAN
                     /\ Out(h, c, q) = <<q[h.idx]>> \o Out(Advance(h, BQ_SIZE), c - 1, q)
<1>1. PICK N \in Nat \ {0} : N = BQ_SIZE
  BY FetchUnitAssumption
<1>2. ASSUME NEW i \in Nat, i < N PROVE q[At(h, i).idx] \in BOOLEAN
  <2>1. At(h, i).idx \in 0..(BQ_SIZE - 1)
    BY <1>1, <1>2, AtSlots
  <2> QED BY <2>1
<1>3. ASSUME NEW d \in Nat, d <= N
      PROVE  Out(h, d, q) \in Seq(BOOLEAN) /\ Len(Out(h, d, q)) = d
  <2>1. Out(h, d, q) \in [1..d -> BOOLEAN]
    <3>1. \A i \in 1..d : i - 1 \in Nat /\ i - 1 < N
      BY <1>3
    <3> QED BY <1>2, <3>1 DEF Out
  <2> QED BY <2>1, FunctionIsSequence
<1>4. Out(h, 0, q) = <<>>
  <2>1. Out(h, 0, q) \in Seq(BOOLEAN) /\ Len(Out(h, 0, q)) = 0
    BY <1>3
  <2> QED BY <2>1, EmptySeq
<1>5. ASSUME c < N PROVE Out(h, c + 1, q) = Out(h, c, q) \o <<q[At(h, c).idx]>>
  <2> DEFINE t == q[At(h, c).idx]
  <2>1. t \in BOOLEAN
    BY <1>2, <1>5
  <2>2. Out(h, c + 1, q) \in Seq(BOOLEAN) /\ Len(Out(h, c + 1, q)) = c + 1
    BY <1>1, <1>3, <1>5
  <2>3. Out(h, c, q) \in Seq(BOOLEAN) /\ Len(Out(h, c, q)) = c
    BY <1>1, <1>3
  <2> HIDE DEF t
  <2>4. <<t>> \in Seq(BOOLEAN) /\ Len(<<t>>) = 1 /\ <<t>>[1] = t
    BY <2>1
  <2>5. /\ Out(h, c, q) \o <<t>> \in Seq(BOOLEAN) /\ Len(Out(h, c, q) \o <<t>>) = c + 1
        /\ \A i \in 1..(c + 1) : (Out(h, c, q) \o <<t>>)[i]
                                   = IF i <= c THEN Out(h, c, q)[i] ELSE <<t>>[i - c]
    BY <2>3, <2>4, ConcatProperties
  <2>6. ASSUME NEW i \in 1..(c + 1) PROVE Out(h, c + 1, q)[i] = (Out(h, c, q) \o <<t>>)[i]
    <3>1. CASE i <= c
      <4>1. i \in 1..c /\ i \in 1..(c + 1)
        BY <3>1
      <4> QED BY <2>5, <3>1, <4>1 DEF Out
    <3>2. CASE ~(i <= c)
      <4>1. i = c + 1 /\ i - c = 1 /\ i - 1 = c
        BY <3>2
      <4> QED BY <2>4, <2>5, <3>2, <4>1 DEF Out, t
    <3> QED BY <3>1, <3>2
  <2>7. Out(h, c + 1, q) = Out(h, c, q) \o <<t>>
    BY <2>2, <2>5, <2>6, SeqEqual
  <2> QED BY <2>7 DEF t
<1>6. ASSUME c > 0
      PROVE  q[h.idx] \in BOOLEAN /\ Out(h, c, q) = <<q[h.idx]>> \o Out(Advance(h, BQ_SIZE), c - 1, q)
  <2> DEFINE t == q[h.idx]
             h2 == Advance(h, BQ_SIZE)
             r == Out(h2, c - 1, q)
  <2>1. t \in BOOLEAN
    BY <1>1 DEF Pointer
  <2>2. Out(h, c, q) \in Seq(BOOLEAN) /\ Len(Out(h, c, q)) = c
    BY <1>1, <1>3
  <2>3. \A i \in Nat : i < N => At(h2, i) = At(h, i + 1)
    <3> SUFFICES ASSUME NEW i \in Nat, i < N PROVE At(h2, i) = At(h, i + 1)
      OBVIOUS
    <3>1. i + 0 <= BQ_SIZE /\ 0 \in Nat
      BY <1>1
    <3> QED BY <1>1, <3>1, AtIs
  <2>4. At(h, 0) = h
    <3>1. 0 + 0 <= BQ_SIZE /\ 0 \in Nat
      BY <1>1
    <3> QED BY <3>1, AtIs
  <2>5. \A i \in 1..(c - 1) : r[i] = Out(h, c, q)[i + 1]
    <3> SUFFICES ASSUME NEW i \in 1..(c - 1) PROVE r[i] = Out(h, c, q)[i + 1]
      OBVIOUS
    <3>1. i - 1 \in Nat /\ i - 1 < N /\ (i - 1) + 1 = i /\ i + 1 \in 1..c /\ (i + 1) - 1 = i
      BY <1>1
    <3>2. At(h2, i - 1) = At(h, i)
      BY <2>3, <3>1
    <3> QED BY <3>1, <3>2 DEF Out
  <2>6. r \in Seq(BOOLEAN) /\ Len(r) = c - 1
    <3>1. \A i \in 1..(c - 1) : r[i] \in BOOLEAN
      <4>1. \A i \in 1..(c - 1) : i + 1 \in 1..Len(Out(h, c, q))
        BY <2>2
      <4>2. \A j \in 1..Len(Out(h, c, q)) : Out(h, c, q)[j] \in BOOLEAN
        BY <2>2, ElementOfSeq
      <4> QED BY <2>5, <4>1, <4>2
    <3>2. r \in [1..(c - 1) -> BOOLEAN] /\ c - 1 \in Nat
      BY <1>6, <3>1 DEF Out
    <3> QED BY <3>2, FunctionIsSequence
  <2> HIDE DEF t, r
  <2>7. <<t>> \in Seq(BOOLEAN) /\ Len(<<t>>) = 1 /\ <<t>>[1] = t
    BY <2>1
  <2>8. /\ <<t>> \o r \in Seq(BOOLEAN) /\ Len(<<t>> \o r) = 1 + (c - 1)
        /\ \A i \in 1..(1 + (c - 1)) : (<<t>> \o r)[i] = IF i <= 1 THEN <<t>>[i] ELSE r[i - 1]
    BY <2>6, <2>7, ConcatProperties
  <2>9. ASSUME NEW i \in 1..c PROVE Out(h, c, q)[i] = (<<t>> \o r)[i]
    <3>1. CASE i = 1
      BY <2>4, <2>7, <2>8, <3>1 DEF Out, t
    <3>2. CASE i # 1
      <4>1. i - 1 \in 1..(c - 1) /\ (i - 1) + 1 = i /\ ~(i <= 1) /\ i \in 1..(1 + (c - 1))
        BY <3>2
      <4> QED BY <2>5, <2>8, <4>1
    <3> QED BY <3>1, <3>2
  <2>10. Out(h, c, q) = <<t>> \o r
    <3>1. 1 + (c - 1) = c
      OBVIOUS
    <3> QED BY <2>2, <2>8, <2>9, <3>1, SeqEqual
  <2> QED BY <2>1, <2>10 DEF t, r
<1> QED BY <1>1, <1>2, <1>3, <1>4, <1>5, <1>6

\* HistoryFollowsPath's last conjunct: each outcome is logged with the history before it.
Logged(c, h, q, lg, x) == \A i \in 0..(c - 1) : lg[At(h, i).idx] = After(x, Out(h, i, q))

\* The branch queue's first c outcomes are the same.
SameOutcomes(c, h, q, q2) == \A i \in 0..(c - 1) : q2[At(h, i).idx] = q[At(h, i).idx]

\* Then so are its lists of outcomes.
LEMMA OutSame ==
  ASSUME NEW h, NEW c \in Nat, NEW q, NEW q2, SameOutcomes(c, h, q, q2)
  PROVE  \A i \in 0..c : Out(h, i, q2) = Out(h, i, q)
<1> SUFFICES ASSUME NEW i \in 0..c PROVE Out(h, i, q2) = Out(h, i, q)
  OBVIOUS
<1>1. \A k \in 1..i : k - 1 \in 0..(c - 1)
  OBVIOUS
<1> QED BY <1>1 DEF Out, SameOutcomes

\* A bundle's outcomes o go into the branch queue behind its first c.
Entered(c, o, h, q2) == \A k \in 1..Len(o) : q2[At(h, c + (k - 1)).idx] = o[k]

\* They are then outcomes like the others.
LEMMA OutAppend ==
  ASSUME NEW h \in Pointer(BQ_SIZE), NEW c \in Nat, NEW o \in Seq(BOOLEAN), c + Len(o) <= BQ_SIZE,
         NEW q \in [0..(BQ_SIZE - 1) -> BOOLEAN], NEW q2 \in [0..(BQ_SIZE - 1) -> BOOLEAN],
         SameOutcomes(c, h, q, q2), Entered(c, o, h, q2)
  PROVE  \A k \in 0..Len(o) : Out(h, c + k, q2) = Out(h, c, q) \o SubSeq(o, 1, k)
<1> SUFFICES ASSUME NEW k \in 0..Len(o) PROVE Out(h, c + k, q2) = Out(h, c, q) \o SubSeq(o, 1, k)
  OBVIOUS
<1>1. Len(o) \in Nat /\ k \in Nat /\ c + k <= BQ_SIZE /\ c <= BQ_SIZE /\ c + k \in Nat
  BY LenProperties, FetchUnitAssumption
<1>2. Out(h, c + k, q2) \in Seq(BOOLEAN) /\ Len(Out(h, c + k, q2)) = c + k
  BY <1>1, OutType
<1>3. Out(h, c, q) \in Seq(BOOLEAN) /\ Len(Out(h, c, q)) = c
  BY <1>1, OutType
<1>4. /\ SubSeq(o, 1, k) \in Seq(BOOLEAN) /\ Len(SubSeq(o, 1, k)) = k
      /\ \A i \in 1..k : SubSeq(o, 1, k)[i] = o[i]
  <2>1. \A i \in 1..k : o[i] \in BOOLEAN
    <3>1. \A i \in 1..k : i \in 1..Len(o)
      BY <1>1
    <3> QED BY <3>1, ElementOfSeq
  <2>2. 1 \in Int /\ k \in Int
    BY <1>1
  <2>3. /\ SubSeq(o, 1, k) \in Seq(BOOLEAN)
        /\ Len(SubSeq(o, 1, k)) = IF 1 <= k THEN k - 1 + 1 ELSE 0
        /\ \A i \in 1..(k - 1 + 1) : SubSeq(o, 1, k)[i] = o[1 + i - 1]
    BY <2>1, <2>2, SubSeqProperties
  <2>4. k - 1 + 1 = k /\ \A i \in 1..k : 1 + i - 1 = i
    BY <1>1
  <2> QED BY <1>1, <2>3, <2>4
<1>5. /\ Out(h, c, q) \o SubSeq(o, 1, k) \in Seq(BOOLEAN)
      /\ Len(Out(h, c, q) \o SubSeq(o, 1, k)) = c + k
      /\ \A i \in 1..(c + k) : (Out(h, c, q) \o SubSeq(o, 1, k))[i]
                                 = IF i <= c THEN Out(h, c, q)[i] ELSE SubSeq(o, 1, k)[i - c]
  <2> DEFINE u == Out(h, c, q)
             v == SubSeq(o, 1, k)
  <2>1. u \in Seq(BOOLEAN) /\ v \in Seq(BOOLEAN) /\ Len(u) = c /\ Len(v) = k
    BY <1>3, <1>4
  <2> HIDE DEF u, v
  <2>2. /\ u \o v \in Seq(BOOLEAN) /\ Len(u \o v) = Len(u) + Len(v)
        /\ \A i \in 1..(Len(u) + Len(v)) : (u \o v)[i] = IF i <= Len(u) THEN u[i] ELSE v[i - Len(u)]
    BY <2>1, ConcatProperties
  <2>3. /\ u \o v \in Seq(BOOLEAN) /\ Len(u \o v) = c + k
        /\ \A i \in 1..(c + k) : (u \o v)[i] = IF i <= c THEN u[i] ELSE v[i - c]
    BY <2>1, <2>2
  <2> QED BY <2>3 DEF u, v
<1>6. ASSUME NEW i \in 1..(c + k) PROVE Out(h, c + k, q2)[i] = (Out(h, c, q) \o SubSeq(o, 1, k))[i]
  <2>1. CASE i <= c
    <3>1. i \in 1..c /\ i - 1 \in 0..(c - 1)
      BY <2>1
    <3> QED BY <1>5, <2>1, <3>1 DEF Out, SameOutcomes
  <2>2. CASE ~(i <= c)
    <3>1. PICK j \in 1..k : j = i - c /\ i - 1 = c + (j - 1)
      <4>1. i - c \in 1..k /\ i - 1 = c + ((i - c) - 1)
        BY <1>1, <2>2
      <4> QED BY <4>1
    <3>2. j \in 1..Len(o)
      BY <1>1
    <3>3. q2[At(h, i - 1).idx] = o[j]
      BY <3>1, <3>2 DEF Entered
    <3> QED BY <1>4, <1>5, <2>2, <3>1, <3>3 DEF Out
  <2> QED BY <2>1, <2>2
<1> QED BY <1>2, <1>5, <1>6, SeqEqual

\* Each of them is logged behind history y with the ones before it.
EnteredLog(c, o, h, lg2, y) ==
  \A k \in 1..Len(o) : lg2[At(h, c + (k - 1)).idx] = After(y, SubSeq(o, 1, k - 1))

\* The first c outcomes and those of the bundle are logged, and lead from history y on.
LoggedOn(c, o, h, q2, lg2, x, y) ==
  /\ Logged(c + Len(o), h, q2, lg2, x)
  /\ After(x, Out(h, c + Len(o), q2)) = After(y, o)

\* A bundle's branches enter the log with the histories they were predicted with.
LEMMA LogAppend ==
  ASSUME NEW h \in Pointer(BQ_SIZE), NEW c \in Nat, NEW o \in Seq(BOOLEAN), c + Len(o) <= BQ_SIZE,
         NEW q \in [0..(BQ_SIZE - 1) -> BOOLEAN], NEW q2 \in [0..(BQ_SIZE - 1) -> BOOLEAN],
         SameOutcomes(c, h, q, q2), Entered(c, o, h, q2),
         NEW x \in History, NEW lg, NEW lg2, Logged(c, h, q, lg, x),
         SameOutcomes(c, h, lg, lg2), EnteredLog(c, o, h, lg2, After(x, Out(h, c, q)))
  PROVE  LoggedOn(c, o, h, q2, lg2, x, After(x, Out(h, c, q)))
<1>0. Len(o) \in Nat /\ c <= BQ_SIZE
  BY LenProperties, FetchUnitAssumption
<1>1. \A k \in 0..Len(o) : Out(h, c + k, q2) = Out(h, c, q) \o SubSeq(o, 1, k)
  BY OutAppend
<1>2. Out(h, c, q) \in Seq(BOOLEAN)
  BY <1>0, OutType
<1>3. ASSUME NEW k \in 0..Len(o)
      PROVE  After(x, Out(h, c + k, q2)) = After(After(x, Out(h, c, q)), SubSeq(o, 1, k))
  <2>1. SubSeq(o, 1, k) \in Seq(BOOLEAN)
    <3>1. \A i \in 1..k : i \in 1..Len(o)
      BY <1>0
    <3>2. \A i \in 1..k : o[i] \in BOOLEAN
      BY <3>1, ElementOfSeq
    <3>3. 1 \in Int /\ k \in Int
      BY <1>0
    <3> QED BY <3>2, <3>3, SubSeqProperties
  <2>2. PICK p, r : p = Out(h, c, q) /\ r = SubSeq(o, 1, k) /\ p \in Seq(BOOLEAN) /\ r \in Seq(BOOLEAN)
    BY <1>2, <2>1
  <2>3. After(After(x, p), r) = After(x, p \o r)
    BY <2>2, AfterAfter
  <2>4. Out(h, c + k, q2) = p \o r
    BY <1>1, <2>2
  <2> QED BY <2>2, <2>3, <2>4
<1>4. ASSUME NEW i \in 0..(c + Len(o) - 1) PROVE lg2[At(h, i).idx] = After(x, Out(h, i, q2))
  <2>1. CASE i < c
    <3>1. i \in 0..(c - 1) /\ i \in 0..c
      BY <1>0, <2>1
    <3>2. Out(h, i, q2) = Out(h, i, q)
      BY <3>1, OutSame
    <3>3. lg2[At(h, i).idx] = lg[At(h, i).idx]
      BY <3>1 DEF SameOutcomes
    <3>4. lg[At(h, i).idx] = After(x, Out(h, i, q))
      BY <3>1 DEF Logged
    <3> QED BY <3>2, <3>3, <3>4
  <2>2. CASE ~(i < c)
    <3>1. PICK k \in 1..Len(o) : i = c + (k - 1) /\ k - 1 \in 0..Len(o)
      <4>1. i - c + 1 \in 1..Len(o) /\ i = c + ((i - c + 1) - 1) /\ (i - c + 1) - 1 \in 0..Len(o)
        BY <1>0, <2>2
      <4> QED BY <4>1
    <3> QED BY <1>3, <3>1 DEF EnteredLog
  <2> QED BY <1>0, <2>1, <2>2
<1>5. SubSeq(o, 1, Len(o)) = o /\ Len(o) \in 0..Len(o)
  BY <1>0, SubSeqFull
<1>6. Logged(c + Len(o), h, q2, lg2, x)
  BY <1>4 DEF Logged
<1>7. After(x, Out(h, c + Len(o), q2)) = After(After(x, Out(h, c, q)), o)
  BY <1>3, <1>5
<1> QED BY <1>6, <1>7 DEF LoggedOn

\* The first k + 1 outcomes are logged, and the last of them is shifted into its log entry.
LoggedUpTo(k, h, q2, lg, lg2, x) ==
  /\ Logged(k + 1, h, q2, lg2, x)
  /\ After(x, Out(h, k + 1, q2)) = update_bhr(lg[At(h, k).idx], q2[At(h, k).idx])

\* A mispredicted branch is rolled back to and pushed again with its outcome.
LEMMA LogCut ==
  ASSUME NEW h \in Pointer(BQ_SIZE), NEW c \in Nat, NEW k \in 0..(c - 1), c <= BQ_SIZE,
         NEW q \in [0..(BQ_SIZE - 1) -> BOOLEAN], NEW q2 \in [0..(BQ_SIZE - 1) -> BOOLEAN],
         SameOutcomes(k, h, q, q2),
         NEW x \in History, NEW lg, NEW lg2, Logged(c, h, q, lg, x),
         SameOutcomes(k + 1, h, lg, lg2)
  PROVE  LoggedUpTo(k, h, q2, lg, lg2, x)
<1>0. PICK N \in Nat \ {0} : N = BQ_SIZE /\ k < N /\ k \in Nat
  BY FetchUnitAssumption
<1>1. \A i \in 0..k : Out(h, i, q2) = Out(h, i, q)
  BY <1>0, OutSame
<1>2. ASSUME NEW i \in 0..((k + 1) - 1) PROVE lg2[At(h, i).idx] = After(x, Out(h, i, q2))
  <2>1. i \in 0..k /\ i \in 0..(c - 1)
    BY <1>0
  <2> QED BY <1>1, <2>1 DEF Logged, SameOutcomes
<1>3. k < BQ_SIZE /\ k <= BQ_SIZE
  BY <1>0
<1>4. /\ Out(h, k, q2) \in Seq(BOOLEAN) /\ q2[At(h, k).idx] \in BOOLEAN
      /\ Out(h, k + 1, q2) = Out(h, k, q2) \o <<q2[At(h, k).idx]>>
  BY <1>0, <1>3, OutType
<1>5. lg[At(h, k).idx] = After(x, Out(h, k, q2))
  BY <1>0, <1>1 DEF Logged
<1>6. /\ After(x, Out(h, k, q2)) \in History
      /\ <<q2[At(h, k).idx]>> \in Seq(BOOLEAN)
  BY <1>4, AfterType
<1>7. update_bhr(After(x, Out(h, k, q2)), q2[At(h, k).idx])
        = After(After(x, Out(h, k, q2)), <<q2[At(h, k).idx]>>)
  BY <1>4, <1>6, AfterType
<1>8. After(After(x, Out(h, k, q2)), <<q2[At(h, k).idx]>>) = After(x, Out(h, k + 1, q2))
  <2>1. PICK o \in Seq(BOOLEAN), p \in Seq(BOOLEAN) :
          o = Out(h, k, q2) /\ p = <<q2[At(h, k).idx]>> /\ Out(h, k + 1, q2) = o \o p
    BY <1>4, <1>6
  <2>2. After(After(x, o), p) = After(x, o \o p)
    BY AfterAfter
  <2> QED BY <2>1, <2>2
<1> QED BY <1>2, <1>5, <1>7, <1>8 DEF Logged, LoggedUpTo

\* But for the first of c, the entries are the same.
LaterSame(c, h, q, q2) == \A i \in 1..(c - 1) : q2[At(h, i).idx] = q[At(h, i).idx]

\* Behind the first of c branches the rest are logged from history x2 on, and lead to y.
LoggedBehind(c, h, q2, lg2, x2, y) ==
  /\ x2 \in History
  /\ Logged(c - 1, Advance(h, BQ_SIZE), q2, lg2, x2)
  /\ After(x2, Out(Advance(h, BQ_SIZE), c - 1, q2)) = y

\* The oldest branch commits, and its outcome becomes part of the history at retirement.
LEMMA LogPop ==
  ASSUME NEW h \in Pointer(BQ_SIZE), NEW c \in Nat, c > 0, c <= BQ_SIZE,
         NEW q \in [0..(BQ_SIZE - 1) -> BOOLEAN], NEW q2 \in [0..(BQ_SIZE - 1) -> BOOLEAN],
         NEW x \in History, NEW lg, NEW lg2, Logged(c, h, q, lg, x),
         LaterSame(c, h, q, q2), LaterSame(c, h, lg, lg2)
  PROVE  LoggedBehind(c, h, q2, lg2, update_bhr(x, q[h.idx]), After(x, Out(h, c, q)))
<1> DEFINE h2 == Advance(h, BQ_SIZE)
           t == q[h.idx]
<1>0. PICK N \in Nat \ {0} : N = BQ_SIZE /\ c <= N /\ c - 1 \in Nat
  BY FetchUnitAssumption
<1>1. h2 \in Pointer(BQ_SIZE) /\ \A i \in Nat : i < N => At(h2, i) = At(h, i + 1)
  <2>1. ASSUME NEW i \in Nat, i < N PROVE h2 \in Pointer(BQ_SIZE) /\ At(h2, i) = At(h, i + 1)
    <3>1. i + 0 <= BQ_SIZE /\ 0 \in Nat /\ i < BQ_SIZE
      BY <1>0, <2>1
    <3> QED BY <3>1, AtIs
  <2>2. 0 \in Nat /\ 0 < N
    BY <1>0
  <2> QED BY <2>1, <2>2
<1>2. SameOutcomes(c - 1, h2, q, q2)
  <2> SUFFICES ASSUME NEW i \in 0..((c - 1) - 1) PROVE q2[At(h2, i).idx] = q[At(h2, i).idx]
    BY DEF SameOutcomes
  <2>1. i \in Nat /\ i < N /\ i + 1 \in 1..(c - 1)
    BY <1>0
  <2> QED BY <1>1, <2>1 DEF LaterSame
<1>3. \A i \in 0..(c - 1) : Out(h2, i, q2) = Out(h2, i, q)
  <2> HIDE DEF h2
  <2> QED BY <1>0, <1>2, OutSame
<1>4. ASSUME NEW i \in 0..(c - 1)
      PROVE  /\ t \in BOOLEAN /\ update_bhr(x, t) \in History
             /\ After(update_bhr(x, t), Out(h2, i, q2)) = After(x, Out(h, i + 1, q))
  <2>1. i + 1 \in Nat /\ i + 1 <= BQ_SIZE /\ i + 1 > 0 /\ (i + 1) - 1 = i /\ i <= BQ_SIZE /\ i \in Nat
    BY <1>0
  <2>2. t \in BOOLEAN /\ Out(h, i + 1, q) = <<t>> \o Out(h2, (i + 1) - 1, q)
    BY <2>1, OutType
  <2>3. Out(h2, i, q) \in Seq(BOOLEAN)
    <3> HIDE DEF h2
    <3> QED BY <1>1, <2>1, OutType
  <2> HIDE DEF h2, t
  <2>4. <<t>> \in Seq(BOOLEAN)
    BY <2>2
  <2>5. update_bhr(x, t) = After(x, <<t>>) /\ update_bhr(x, t) \in History
    BY <2>2, <2>4, AfterType
  <2>6. After(After(x, <<t>>), Out(h2, i, q)) = After(x, <<t>> \o Out(h2, i, q))
    BY <2>3, <2>4, AfterAfter
  <2> QED BY <1>3, <2>1, <2>2, <2>5, <2>6
<1>5. ASSUME NEW i \in 0..((c - 1) - 1)
      PROVE  lg2[At(h2, i).idx] = After(update_bhr(x, t), Out(h2, i, q2))
  <2>1. i \in Nat /\ i < N /\ i + 1 \in 1..(c - 1) /\ i + 1 \in 0..(c - 1) /\ i \in 0..(c - 1)
    BY <1>0
  <2>2. At(h2, i) = At(h, i + 1)
    BY <1>1, <2>1
  <2>3. lg[At(h, i + 1).idx] = After(x, Out(h, i + 1, q))
    BY <2>1 DEF Logged
  <2> HIDE DEF h2, t
  <2>4. lg2[At(h, i + 1).idx] = lg[At(h, i + 1).idx]
    BY <2>1 DEF LaterSame
  <2> QED BY <1>4, <2>1, <2>2, <2>3, <2>4
<1>6. c - 1 \in 0..(c - 1) /\ (c - 1) + 1 = c
  BY <1>0
<1>7. /\ update_bhr(x, t) \in History
      /\ After(update_bhr(x, t), Out(h2, c - 1, q2)) = After(x, Out(h, c, q))
  <2> HIDE DEF h2, t
  <2> QED BY <1>4, <1>6
<1> QED BY <1>5, <1>7 DEF Logged, LoggedBehind

-----------------------------------------------------------------------------
(* The instructions in flight as one sequence *)

\* One sequence and another behind it.
LEMMA JoinedAre ==
  ASSUME NEW S, NEW u \in Seq(S), NEW v \in Seq(S)
  PROVE  /\ u \o v \in Seq(S) /\ Len(u \o v) = Len(u) + Len(v)
         /\ Len(u) \in Nat /\ Len(v) \in Nat
         /\ \A j \in 1..Len(u) : (u \o v)[j] = u[j]
         /\ \A k \in 1..Len(v) : (u \o v)[Len(u) + k] = v[k]
<1>1. Len(u) \in Nat /\ Len(v) \in Nat
  BY LenProperties
<1>2. /\ u \o v \in Seq(S) /\ Len(u \o v) = Len(u) + Len(v)
      /\ \A i \in 1..(Len(u) + Len(v)) : (u \o v)[i] = IF i <= Len(u) THEN u[i] ELSE v[i - Len(u)]
  BY ConcatProperties
<1>3. ASSUME NEW j \in 1..Len(u) PROVE (u \o v)[j] = u[j]
  <2>1. j \in 1..(Len(u) + Len(v)) /\ j <= Len(u)
    BY <1>1
  <2> QED BY <1>2, <2>1
<1>4. ASSUME NEW k \in 1..Len(v) PROVE (u \o v)[Len(u) + k] = v[k]
  <2>1. Len(u) + k \in 1..(Len(u) + Len(v)) /\ ~(Len(u) + k <= Len(u)) /\ (Len(u) + k) - Len(u) = k
    BY <1>1
  <2> QED BY <1>2, <2>1
<1> QED BY <1>1, <1>2, <1>3, <1>4

\* One sequence w of instructions made of m and another n.
Behind(w, u, m, v, n) ==
  /\ w \in Seq(Instruction) /\ Len(w) = m + n
  /\ \A j \in 1..m : w[j] = u[j]
  /\ \A k \in 1..n : w[m + k] = v[k]

\* That is what joining them makes.
LEMMA BehindEach ==
  ASSUME NEW u \in Seq(Instruction), NEW v \in Seq(Instruction)
  PROVE  Behind(u \o v, u, Len(u), v, Len(v))
<1>1. PICK w : w = u \o v
  OBVIOUS
<1>2. /\ w \in Seq(Instruction) /\ Len(w) = Len(u) + Len(v)
      /\ \A j \in 1..Len(u) : w[j] = u[j]
      /\ \A k \in 1..Len(v) : w[Len(u) + k] = v[k]
  BY <1>1, JoinedAre
<1> QED BY <1>1, <1>2 DEF Behind

\* What is in flight, of any contents of the stages.
InFlightOf(w, n, r, a, f, d, u) ==
  /\ w \in Seq(Instruction) /\ n \in Nat
  /\ w \o u \in Seq(Instruction) /\ Len(w \o u) = n + Len(u)
  /\ n = Len(r) + Len(a) + Len(f) + Len(d) /\ Len(w) = n
  /\ Len(r) \in Nat /\ Len(a) \in Nat /\ Len(f) \in Nat /\ Len(d) \in Nat /\ Len(u) \in Nat
  /\ \A j \in 1..n : (w \o u)[j] = w[j] /\ w[j] \in Instruction
  /\ \A k \in 1..Len(u) : (w \o u)[n + k] = u[k] /\ u[k] \in Instruction
  /\ \A j \in 1..Len(r) : w[j] = r[j] /\ j \in 1..n

\* It is what the stages hold, one after the other.
LEMMA InFlightIs ==
  ASSUME NEW r \in Seq(Instruction), NEW a \in Seq(Instruction), NEW f \in Seq(Instruction),
         NEW d \in Seq(Instruction), NEW u \in Seq(Instruction)
  PROVE  InFlightOf(r \o a \o f \o d, Len(r \o a \o f \o d), r, a, f, d, u)
<1>1. PICK x : x = r \o a
  OBVIOUS
<1>2. x \in Seq(Instruction) /\ Len(x) = Len(r) + Len(a) /\ \A j \in 1..Len(r) : x[j] = r[j]
  BY <1>1, JoinedAre
<1>3. PICK y : y = x \o f
  OBVIOUS
<1>4. y \in Seq(Instruction) /\ Len(y) = Len(x) + Len(f) /\ \A j \in 1..Len(x) : y[j] = x[j]
  BY <1>2, <1>3, JoinedAre
<1>5. PICK w : w = y \o d
  OBVIOUS
<1>6. w \in Seq(Instruction) /\ Len(w) = Len(y) + Len(d) /\ \A j \in 1..Len(y) : w[j] = y[j]
  BY <1>4, <1>5, JoinedAre
<1>7. /\ w \o u \in Seq(Instruction) /\ Len(w \o u) = Len(w) + Len(u)
      /\ \A j \in 1..Len(w) : (w \o u)[j] = w[j]
      /\ \A k \in 1..Len(u) : (w \o u)[Len(w) + k] = u[k]
  <2>1. w \in Seq(Instruction) /\ u \in Seq(Instruction)
    BY <1>6
  <2> QED BY <2>1, JoinedAre
<1>8. Len(r) \in Nat /\ Len(a) \in Nat /\ Len(f) \in Nat /\ Len(d) \in Nat /\ Len(u) \in Nat
  BY LenProperties
<1>9. \A j \in 1..Len(w) : w[j] \in Instruction
  BY <1>6, ElementOfSeq
<1>10. \A k \in 1..Len(u) : u[k] \in Instruction
  BY ElementOfSeq
<1>11. \A j \in 1..Len(r) : j \in 1..Len(x) /\ j \in 1..Len(y) /\ j \in 1..Len(w)
  BY <1>2, <1>4, <1>6, <1>8
<1>12. \A j \in 1..Len(r) : w[j] = r[j] /\ j \in 1..Len(w)
  BY <1>2, <1>4, <1>6, <1>11
<1>13. Len(w) = Len(r) + Len(a) + Len(f) + Len(d) /\ Len(w) \in Nat
  BY <1>2, <1>4, <1>6, <1>8
<1>14. InFlightOf(w, Len(w), r, a, f, d, u)
  BY <1>6, <1>7, <1>8, <1>9, <1>10, <1>12, <1>13 DEF InFlightOf
<1> QED BY <1>1, <1>3, <1>5, <1>14

\* The same of the state.
StagesOf ==
  /\ InFlight = Fetched \o FETCH2
  /\ InFlightOf(Fetched, Len(Fetched), rob, RENAME2, FQ, DECODE, FETCH2)

\* It is so where the stages hold instructions.
LEMMA StagesIs ==
  rob \in Seq(Instruction) /\ RENAME2 \in Seq(Instruction) /\ FQ \in Seq(Instruction)
    /\ DECODE \in Seq(Instruction) /\ FETCH2 \in Seq(Instruction) => StagesOf
BY InFlightIs DEF StagesOf, InFlight, Fetched

\* It is so after a step, too.
LEMMA StagesAfter ==
  ASSUME rob' \in Seq(Instruction), RENAME2' \in Seq(Instruction), FQ' \in Seq(Instruction),
         DECODE' \in Seq(Instruction), FETCH2' \in Seq(Instruction)
  PROVE  StagesOf'
BY InFlightIs DEF StagesOf, InFlight, Fetched

-----------------------------------------------------------------------------
(* Predictions *)

\* The branches of a sequence of m instructions, and how many there are before one.
LEMMA BranchesIs ==
  ASSUME NEW p, NEW m \in Nat, DOMAIN p = 1..m
  PROVE  /\ Branches(p) = BranchesOf(p, m)
         /\ \A k : BranchesBefore(p, k) = Count(BranchesOf(p, m), k)
BY DEF Branches, BranchesBefore, BranchesOf, Count

\* No two of them have the same number before them.
LEMMA BranchesDiffer ==
  ASSUME NEW w, NEW n \in Nat, NEW j \in BranchesOf(w, n), NEW k \in BranchesOf(w, n),
         Count(BranchesOf(w, n), j) = Count(BranchesOf(w, n), k)
  PROVE  j = k
<1> DEFINE B == BranchesOf(w, n)
<1>1. B \in SUBSET (1..n) /\ j \in B /\ k \in B
  BY DEF BranchesOf
<1>2. /\ Count(B, j) \in Int /\ Count(B, k) \in Int /\ Count(B, j) = Count(B, k)
      /\ j \in Int /\ k \in Int
  <2>1. \A i \in B : Count(B, i) \in 0..(Cardinality(B) - 1)
    BY BranchesType
  <2>2. \A i \in B : i \in 1..n
    BY <1>1
  <2> QED BY <1>1, <2>1, <2>2
<1> HIDE DEF B
<1>3. ASSUME j < k PROVE Count(B, j) < Count(B, k)
  <2>1. j <= k
    BY <1>2, <1>3
  <2> QED BY <1>1, <1>2, <1>3, <2>1, CountGrows
<1>4. ASSUME k < j PROVE Count(B, k) < Count(B, j)
  <2>1. k <= j
    BY <1>2, <1>4
  <2> QED BY <1>1, <1>2, <1>4, <2>1, CountGrows
<1> QED BY <1>2, <1>3, <1>4

\* So the n-th of them is well defined.
LEMMA NthIs ==
  ASSUME NEW p, NEW m \in Nat, DOMAIN p = 1..m
  PROVE  /\ \A i \in 1..Cardinality(BranchesOf(p, m)) :
              /\ NthBranch(p, i) \in BranchesOf(p, m)
              /\ Count(BranchesOf(p, m), NthBranch(p, i)) = i - 1
         /\ \A k \in BranchesOf(p, m) :
              /\ Count(BranchesOf(p, m), k) + 1 \in 1..Cardinality(BranchesOf(p, m))
              /\ NthBranch(p, Count(BranchesOf(p, m), k) + 1) = k
<1> DEFINE B == BranchesOf(p, m)
<1>1. B \in SUBSET (1..m)
  BY DEF BranchesOf
<1>2. Branches(p) = B /\ \A k : BranchesBefore(p, k) = Count(B, k)
  BY BranchesIs
<1>3. ASSUME NEW i \in 1..Cardinality(B)
      PROVE  NthBranch(p, i) \in B /\ Count(B, NthBranch(p, i)) = i - 1
  <2>1. i - 1 \in 0..(Cardinality(B) - 1)
    <3>1. Cardinality(B) \in 0..m
      BY BranchesType
    <3> HIDE DEF B
    <3> QED BY <3>1
  <2>2. \E k \in B : Count(B, k) = i - 1
    <3> HIDE DEF B
    <3> QED BY <1>1, <2>1, CountOnto
  <2> HIDE DEF B
  <2> QED BY <1>2, <2>2 DEF NthBranch
<1>4. ASSUME NEW k \in B
      PROVE  Count(B, k) + 1 \in 1..Cardinality(B) /\ NthBranch(p, Count(B, k) + 1) = k
  <2>1. Count(B, k) \in 0..(Cardinality(B) - 1) /\ Cardinality(B) \in 0..m
    BY BranchesType
  <2>2. PICK x \in Nat : x = Count(B, k) /\ x + 1 \in 1..Cardinality(B) /\ (x + 1) - 1 = x
    <3> HIDE DEF B
    <3> QED BY <2>1
  <2>3. NthBranch(p, x + 1) \in B /\ Count(B, NthBranch(p, x + 1)) = x
    BY <1>3, <2>2
  <2>4. NthBranch(p, x + 1) = k
    BY <2>2, <2>3, BranchesDiffer
  <2> QED BY <2>2, <2>4
<1> QED BY <1>3, <1>4

\* A bundle of m instructions with their predictions.
Bundled(p, m) == DOMAIN p = 1..m /\ \A k \in 1..m : p[k].taken \in BOOLEAN

\* Its branches' predictions, in order.
LEMMA PredictionsType ==
  ASSUME NEW p, NEW m \in Nat, Bundled(p, m)
  PROVE  /\ Predictions(p) \in Seq(BOOLEAN)
         /\ Len(Predictions(p)) = Cardinality(BranchesOf(p, m))
         /\ \A i \in 1..Cardinality(BranchesOf(p, m)) : Predictions(p)[i] = p[NthBranch(p, i)].taken
<1>1. Branches(p) = BranchesOf(p, m)
  BY BranchesIs DEF Bundled
<1>2. PICK e \in Nat : e = Cardinality(BranchesOf(p, m))
  BY BranchesType
<1>3. \A i \in 1..e : NthBranch(p, i) \in 1..m
  BY <1>2, NthIs DEF Bundled, BranchesOf
<1>4. Predictions(p) = [i \in 1..e |-> p[NthBranch(p, i)].taken]
  BY <1>1, <1>2 DEF Predictions
<1>5. Predictions(p) \in [1..e -> BOOLEAN]
  BY <1>3, <1>4 DEF Bundled
<1> QED BY <1>2, <1>4, <1>5, FunctionIsSequence

\* The first k instructions' predictions are the first few.
LEMMA PredictionsFirst ==
  ASSUME NEW p, NEW m \in Nat, Bundled(p, m), NEW k \in 0..m, NEW p2, DOMAIN p2 = 1..k,
         \A j \in 1..k : p2[j].branch = p[j].branch /\ p2[j].taken = p[j].taken
  PROVE  /\ Bundled(p2, k)
         /\ Predictions(p2) = SubSeq(Predictions(p), 1, Count(BranchesOf(p, m), k + 1))
         /\ Count(BranchesOf(p, m), k + 1) \in 0..Len(Predictions(p))
<1> DEFINE B == BranchesOf(p, m)
           B2 == BranchesOf(p2, k)
           o == Predictions(p)
           o2 == Predictions(p2)
<1>0. k \in Nat /\ k + 1 \in 1..(m + 1)
  OBVIOUS
<1>1. Bundled(p2, k)
  <2>1. \A j \in 1..k : j \in 1..m
    OBVIOUS
  <2> QED BY <2>1 DEF Bundled
<1>2. PICK e \in Nat, e2 \in Nat : e = Cardinality(B) /\ e2 = Count(B, k + 1) /\ e2 <= e
  <2>1. Cardinality(B) \in 0..m /\ Count(B, k + 1) \in 0..Cardinality(B)
    BY <1>0, BranchesType
  <2> HIDE DEF B
  <2> QED BY <2>1
<1>3. \A j : j \in B2 <=> j \in B /\ j < k + 1
  <2> SUFFICES ASSUME NEW j PROVE j \in B2 <=> j \in B /\ j < k + 1
    OBVIOUS
  <2>1. j \in 1..k <=> j \in 1..m /\ j < k + 1
    OBVIOUS
  <2> QED BY <2>1 DEF BranchesOf
<1>4. Cardinality(B2) = e2
  <2>1. B2 = {j \in B : j < k + 1}
    BY <1>3
  <2> QED BY <1>2, <2>1 DEF Count
<1>5. \A j \in B2 : Count(B2, j) = Count(B, j)
  <2> SUFFICES ASSUME NEW j \in B2 PROVE {i \in B2 : i < j} = {i \in B : i < j}
    BY DEF Count
  <2>1. j \in 1..k
    BY DEF BranchesOf
  <2>2. \A i \in B : i < j => i < k + 1
    <3> SUFFICES ASSUME NEW i \in B, i < j PROVE i < k + 1
      OBVIOUS
    <3>1. i \in 1..m
      BY DEF BranchesOf
    <3> QED BY <2>1, <3>1
  <2>3. \A i : i \in B2 /\ i < j <=> i \in B /\ i < j
    BY <1>3, <2>2
  <2> HIDE DEF B, B2
  <2> QED BY <2>3
<1>6. /\ o \in Seq(BOOLEAN) /\ Len(o) = e
      /\ \A i \in 1..e : o[i] = p[NthBranch(p, i)].taken
  BY <1>2, PredictionsType
<1>7. /\ o2 \in Seq(BOOLEAN) /\ Len(o2) = e2
      /\ \A i \in 1..e2 : o2[i] = p2[NthBranch(p2, i)].taken
  BY <1>0, <1>1, <1>4, PredictionsType
<1>8. ASSUME NEW i \in 1..e2 PROVE o2[i] = o[i]
  <2>1. i \in 1..e /\ i \in 1..Cardinality(B) /\ i \in 1..Cardinality(B2)
    BY <1>2, <1>4
  <2>2. PICK j : j = NthBranch(p2, i)
    OBVIOUS
  <2>3. j \in B2 /\ Count(B2, j) = i - 1
    BY <1>0, <1>1, <2>1, <2>2, NthIs DEF Bundled
  <2>4. j \in B /\ Count(B, j) = i - 1
    BY <1>3, <1>5, <2>3
  <2>5. NthBranch(p, i) \in B /\ Count(B, NthBranch(p, i)) = i - 1
    BY <2>1, NthIs DEF Bundled
  <2>6. NthBranch(p, i) = j
    BY <2>4, <2>5, BranchesDiffer
  <2>7. j \in 1..k
    BY <2>3 DEF BranchesOf
  <2> HIDE DEF o, o2, B, B2
  <2> QED BY <1>6, <1>7, <2>1, <2>2, <2>6, <2>7
<1> HIDE DEF o, o2, B, B2
<1>9. o2 = SubSeq(o, 1, e2)
  <2>1. \A i \in 1..e2 : i \in 1..Len(o)
    BY <1>2, <1>6
  <2>2. \A i \in 1..e2 : o[i] \in BOOLEAN
    BY <1>6, <2>1, ElementOfSeq
  <2>3. 1 \in Int /\ e2 \in Int
    OBVIOUS
  <2>4. /\ SubSeq(o, 1, e2) \in Seq(BOOLEAN)
        /\ Len(SubSeq(o, 1, e2)) = IF 1 <= e2 THEN e2 - 1 + 1 ELSE 0
        /\ \A i \in 1..(e2 - 1 + 1) : SubSeq(o, 1, e2)[i] = o[1 + i - 1]
    BY <2>2, <2>3, SubSeqProperties
  <2>5. e2 - 1 + 1 = e2 /\ \A i \in 1..e2 : 1 + i - 1 = i
    OBVIOUS
  <2>6. Len(SubSeq(o, 1, e2)) = e2 /\ \A i \in 1..e2 : SubSeq(o, 1, e2)[i] = o2[i]
    BY <1>8, <2>4, <2>5
  <2> QED BY <1>7, <2>4, <2>6, SeqEqual
<1> QED BY <1>1, <1>2, <1>6, <1>9 DEF o, o2, B

\* Bundles that are the same as far as prediction goes have the same predictions.
LEMMA PredictionsSame ==
  ASSUME NEW p, NEW m \in Nat, Bundled(p, m), NEW p2, DOMAIN p2 = 1..m,
         \A j \in 1..m : p2[j].branch = p[j].branch /\ p2[j].taken = p[j].taken
  PROVE  Predictions(p2) = Predictions(p)
<1>1. m \in 0..m
  OBVIOUS
<1>2. Predictions(p2) = SubSeq(Predictions(p), 1, Count(BranchesOf(p, m), m + 1))
  BY <1>1, PredictionsFirst
<1>3. Count(BranchesOf(p, m), m + 1) = Cardinality(BranchesOf(p, m))
  BY BranchesType
<1>4. Predictions(p) \in Seq(BOOLEAN) /\ Len(Predictions(p)) = Cardinality(BranchesOf(p, m))
  BY PredictionsType
<1> QED BY <1>2, <1>3, <1>4, SubSeqFull

\* No instructions, no predictions.
LEMMA PredictionsNone == Predictions(<<>>) = <<>>
<1>1. Bundled(<<>>, 0) /\ 0 \in Nat /\ 1..0 = {}
  BY DEF Bundled
<1>2. BranchesOf(<<>>, 0) = {}
  BY <1>1 DEF BranchesOf
<1>3. Predictions(<<>>) \in Seq(BOOLEAN) /\ Len(Predictions(<<>>)) = Cardinality(BranchesOf(<<>>, 0))
  BY <1>1, PredictionsType
<1>4. Len(Predictions(<<>>)) = 0
  BY <1>2, <1>3, FS_EmptySet
<1> QED BY <1>3, <1>4, EmptySeq

-----------------------------------------------------------------------------
(* What decode makes of its bundle *)

\* FlattenSeq's recursion: the first i of d sequences, one after the other.
Flattens(g, s, d) == g = [i \in 1..d |-> IF i = 1 THEN s[i] ELSE g[i - 1] \o s[i]]

\* It has a solution: there is no least number of sequences for which it has none.
LEMMA FlattenExists ==
  ASSUME NEW s, NEW d \in Nat \ {0}
  PROVE  \E g : Flattens(g, s, d)
<1> DEFINE T == {m \in 1..d : ~ \E g : Flattens(g, s, m)}
<1>1. SUFFICES ASSUME T # {} PROVE FALSE
  <2>1. d \in 1..d
    OBVIOUS
  <2> QED BY <2>1
<1>2. PICK j \in T : \A i \in T : j <= i
  <2>1. T \subseteq Nat
    OBVIOUS
  <2> HIDE DEF T
  <2> QED BY <1>1, <2>1, LeastNat
<1>3. CASE j = 1
  <2> DEFINE g == [i \in 1..1 |-> s[i]]
  <2>1. Flattens(g, s, 1)
    BY DEF Flattens
  <2> HIDE DEF g
  <2> QED BY <1>2, <1>3, <2>1
<1>4. CASE j # 1
  <2>1. j - 1 \in 1..d /\ j - 1 \notin T /\ j \in 1..d
    BY <1>2, <1>4
  <2>2. PICK g : Flattens(g, s, j - 1)
    BY <2>1
  <2>3. PICK g2 : g2 = [i \in 1..j |-> IF i = j THEN g[j - 1] \o s[j] ELSE g[i]]
    OBVIOUS
  <2>4. \A i \in 1..(j - 1) : g2[i] = g[i]
    <3>1. \A i \in 1..(j - 1) : i \in 1..j /\ i # j
      BY <2>1
    <3> QED BY <2>3, <3>1
  <2>5. ASSUME NEW i \in 1..j PROVE g2[i] = IF i = 1 THEN s[i] ELSE g2[i - 1] \o s[i]
    <3>1. CASE i = j
      <4>1. j - 1 \in 1..(j - 1)
        BY <2>1
      <4>2. g2[j - 1] = g[j - 1]
        BY <2>4, <4>1
      <4>3. g2[j] = g[j - 1] \o s[j]
        BY <2>3, <3>1
      <4> QED BY <1>4, <3>1, <4>2, <4>3
    <3>2. CASE i # j
      <4>1. i \in 1..(j - 1)
        BY <2>1, <3>2
      <4>2. g[i] = IF i = 1 THEN s[i] ELSE g[i - 1] \o s[i]
        BY <2>2, <4>1 DEF Flattens
      <4>3. i # 1 => i - 1 \in 1..(j - 1)
        BY <4>1
      <4> QED BY <2>4, <4>1, <4>2, <4>3
    <3> QED BY <3>1, <3>2
  <2>6. g2 = [i \in 1..j |-> IF i = 1 THEN s[i] ELSE g2[i - 1] \o s[i]]
    <3>1. g2 = [i \in 1..j |-> g2[i]]
      BY <2>3
    <3> QED BY <2>5, <3>1
  <2>7. Flattens(g2, s, j)
    BY <2>6 DEF Flattens
  <2> QED BY <1>2, <2>7
<1> QED BY <1>3, <1>4

\* So FlattenSeq is the last of them.
LEMMA FlattenIs ==
  ASSUME NEW s, Len(s) \in Nat \ {0}
  PROVE  \E g : Flattens(g, s, Len(s)) /\ FlattenSeq(s) = g[Len(s)]
<1> DEFINE Rec(g) == [i \in 1..Len(s) |-> IF i = 1 THEN s[i] ELSE g[i - 1] \o s[i]]
           f == CHOOSE g : g = Rec(g)
<1>1. \E g : g = Rec(g)
  BY FlattenExists DEF Flattens
<1>2. f = Rec(f)
  BY <1>1
<1>3. FlattenSeq(s) = f[Len(s)]
  BY DEF FlattenSeq
<1> HIDE DEF f
<1>4. Flattens(f, s, Len(s))
  BY <1>2 DEF Flattens
<1> QED BY <1>3, <1>4

\* The sequences decode puts one after the other for instructions D: one instruction or two halves.
Pieces(s, D, d, S) ==
  /\ Len(s) = d
  /\ \A k \in 1..d : s[k] = IF k \in S THEN <<Upper(D[k]), Lower(D[k])>> ELSE <<D[k]>>
  /\ \A k \in 1..d : D[k] \in Instruction
  /\ \A k \in S : D[k].index + 1 \in PayIndex

\* What is behind each other then, of the first m instructions.
SplitUpTo(x, D, m, S) ==
  /\ x \in Seq(Instruction) /\ Len(x) = Moved(S, m + 1) - 1
  /\ \A k \in 1..m : k \notin S => x[Moved(S, k)] = D[k]
  /\ \A k \in 1..m : k \in S => x[Moved(S, k)] = Upper(D[k]) /\ x[Moved(S, k) + 1] = Lower(D[k])

\* A piece.
LEMMA PieceIs ==
  ASSUME NEW s, NEW D, NEW d \in Nat, NEW S \in SUBSET (1..d), Pieces(s, D, d, S), NEW k \in 1..d
  PROVE  /\ s[k] \in Seq(Instruction)
         /\ Len(s[k]) = IF k \in S THEN 2 ELSE 1
         /\ k \notin S => s[k][1] = D[k]
         /\ k \in S => s[k][1] = Upper(D[k]) /\ s[k][2] = Lower(D[k])
<1>1. D[k] \in Instruction
  BY DEF Pieces
<1>2. CASE k \in S
  <2>1. D[k].index + 1 \in PayIndex
    BY <1>2 DEF Pieces
  <2>2. Upper(D[k]) \in Instruction /\ Lower(D[k]) \in Instruction
    BY <1>1, <2>1, HalvesAre
  <2>3. s[k] = <<Upper(D[k]), Lower(D[k])>>
    BY <1>2 DEF Pieces
  <2>4. PICK x \in Instruction, y \in Instruction : x = Upper(D[k]) /\ y = Lower(D[k])
    BY <2>2
  <2>5. s[k] = <<x, y>>
    BY <2>3, <2>4
  <2>6. s[k] \in Seq(Instruction) /\ Len(s[k]) = 2 /\ s[k][1] = x /\ s[k][2] = y
    BY <2>5
  <2> QED BY <1>2, <2>4, <2>6
<1>3. CASE k \notin S
  <2>1. s[k] = <<D[k]>>
    BY <1>3 DEF Pieces
  <2>2. PICK x \in Instruction : x = D[k]
    BY <1>1
  <2>3. s[k] = <<x>>
    BY <2>1, <2>2
  <2>4. s[k] \in Seq(Instruction) /\ Len(s[k]) = 1 /\ s[k][1] = x
    BY <2>3
  <2> QED BY <1>3, <2>2, <2>4
<1> QED BY <1>2, <1>3

\* One more piece.
LEMMA SplitNext ==
  ASSUME NEW s, NEW D, NEW d \in Nat, NEW S \in SUBSET (1..d), Pieces(s, D, d, S),
         NEW m \in 1..d, NEW x, SplitUpTo(x, D, m - 1, S)
  PROVE  SplitUpTo(x \o s[m], D, m, S)
<1>0. \A k \in 1..d : Moved(S, k + 1) = Moved(S, k) + (IF k \in S THEN 2 ELSE 1)
  BY MovedType
<1>1. /\ s[m] \in Seq(Instruction)
      /\ Len(s[m]) = IF m \in S THEN 2 ELSE 1
      /\ m \notin S => s[m][1] = D[m]
      /\ m \in S => s[m][1] = Upper(D[m]) /\ s[m][2] = Lower(D[m])
  BY PieceIs
<1>2. x \in Seq(Instruction) /\ Len(x) = Moved(S, m) - 1
  <2>1. (m - 1) + 1 = m
    OBVIOUS
  <2> QED BY <2>1 DEF SplitUpTo
<1>3. /\ x \o s[m] \in Seq(Instruction) /\ Len(x \o s[m]) = Len(x) + Len(s[m])
      /\ Len(x) \in Nat /\ Len(s[m]) \in Nat
      /\ \A j \in 1..Len(x) : (x \o s[m])[j] = x[j]
      /\ \A k \in 1..Len(s[m]) : (x \o s[m])[Len(x) + k] = s[m][k]
  <2>1. PICK u \in Seq(Instruction), v \in Seq(Instruction) : u = x /\ v = s[m]
    BY <1>1, <1>2
  <2>2. /\ u \o v \in Seq(Instruction) /\ Len(u \o v) = Len(u) + Len(v)
        /\ \A j \in 1..Len(u) : (u \o v)[j] = u[j]
        /\ \A k \in 1..Len(v) : (u \o v)[Len(u) + k] = v[k]
    BY JoinedAre
  <2>3. Len(u) \in Nat /\ Len(v) \in Nat
    BY LenProperties
  <2> QED BY <2>1, <2>2, <2>3
<1>4. PICK y : y = x \o s[m]
  OBVIOUS
<1>5. PICK l \in Nat, e \in 1..2 : l = Len(x) /\ e = Len(s[m]) /\ e = IF m \in S THEN 2 ELSE 1
  BY <1>1, <1>3
<1>6. Moved(S, m) = l + 1 /\ Moved(S, m + 1) = l + 1 + e
  <2>1. m \in 1..(d + 1)
    OBVIOUS
  <2>2. Moved(S, m) \in m..(m + Cardinality(S)) /\ Cardinality(S) \in 0..d
    BY <2>1, MovedType
  <2>3. Moved(S, m + 1) = Moved(S, m) + (IF m \in S THEN 2 ELSE 1)
    BY <1>0
  <2>4. PICK z \in Int : z = Moved(S, m)
    BY <2>2
  <2> QED BY <1>2, <1>5, <2>3, <2>4
<1>7. ASSUME NEW k \in 1..(m - 1)
      PROVE  Moved(S, k) \in 1..l /\ (k \in S => Moved(S, k) + 1 \in 1..l)
  <2>1. k \in 1..d /\ k \in 1..(d + 1) /\ k + 1 \in 1..(d + 1)
    OBVIOUS
  <2>2. PICK z \in Nat : z = Moved(S, k) /\ z >= 1
    <3>1. Moved(S, k) \in k..(k + Cardinality(S)) /\ Cardinality(S) \in 0..d
      BY <2>1, MovedType
    <3> QED BY <3>1
  <2>3. Moved(S, k + 1) = z + (IF k \in S THEN 2 ELSE 1)
    BY <1>0, <2>1, <2>2
  <2>4. Moved(S, k + 1) <= l + 1
    <3>1. CASE k + 1 = m
      BY <1>6, <3>1
    <3>2. CASE k + 1 # m
      <4>1. Count(S, k + 1) <= Count(S, m) /\ Count(S, k + 1) \in Nat /\ Count(S, m) \in Nat
        <5>1. k + 1 \in Int /\ m \in Int /\ k + 1 <= m
          OBVIOUS
        <5>2. Count(S, k + 1) <= Count(S, m)
          BY <5>1, CountGrows
        <5>3. Cardinality(S) \in 0..d /\ Count(S, k + 1) \in 0..Cardinality(S)
          BY <5>1, CountType
        <5>4. Count(S, m) \in 0..Cardinality(S)
          BY <5>1, CountType
        <5> QED BY <5>2, <5>3, <5>4
      <4>2. (k + 1) + Count(S, k + 1) <= m + Count(S, m)
        BY <4>1
      <4> QED BY <1>6, <4>2 DEF Moved
    <3> QED BY <3>1, <3>2
  <2> QED BY <2>2, <2>3, <2>4
<1>8. ASSUME NEW k \in 1..m, k \notin S PROVE y[Moved(S, k)] = D[k]
  <2>1. CASE k = m
    <3>1. 1 \in 1..e /\ l + 1 = Moved(S, m)
      BY <1>6
    <3>2. y[l + 1] = s[m][1]
      BY <1>3, <1>4, <1>5, <3>1
    <3> QED BY <1>1, <1>8, <2>1, <3>1, <3>2
  <2>2. CASE k # m
    <3>1. k \in 1..(m - 1)
      BY <2>2
    <3>2. y[Moved(S, k)] = x[Moved(S, k)]
      BY <1>3, <1>4, <1>5, <1>7, <3>1
    <3> QED BY <1>8, <3>1, <3>2 DEF SplitUpTo
  <2> QED BY <2>1, <2>2
<1>9. ASSUME NEW k \in 1..m, k \in S
      PROVE  y[Moved(S, k)] = Upper(D[k]) /\ y[Moved(S, k) + 1] = Lower(D[k])
  <2>1. CASE k = m
    <3>1. e = 2 /\ 1 \in 1..e /\ 2 \in 1..e /\ l + 1 = Moved(S, m) /\ l + 2 = Moved(S, m) + 1
      BY <1>5, <1>6, <1>9, <2>1
    <3>2. y[l + 1] = s[m][1]
      BY <1>3, <1>4, <1>5, <3>1
    <3>3. y[l + 2] = s[m][2]
      BY <1>3, <1>4, <1>5, <3>1
    <3> QED BY <1>1, <1>9, <2>1, <3>1, <3>2, <3>3
  <2>2. CASE k # m
    <3>1. k \in 1..(m - 1)
      BY <2>2
    <3>2. y[Moved(S, k)] = x[Moved(S, k)]
      BY <1>3, <1>4, <1>5, <1>7, <3>1
    <3>3. y[Moved(S, k) + 1] = x[Moved(S, k) + 1]
      BY <1>3, <1>4, <1>5, <1>7, <1>9, <3>1
    <3> QED BY <1>9, <3>1, <3>2, <3>3 DEF SplitUpTo
  <2> QED BY <2>1, <2>2
<1>10. y \in Seq(Instruction) /\ Len(y) = Moved(S, m + 1) - 1
  BY <1>3, <1>4, <1>5, <1>6
<1>11. SplitUpTo(y, D, m, S)
  BY <1>8, <1>9, <1>10 DEF SplitUpTo
<1> QED BY <1>4, <1>11

\* What decode puts behind the fetch queue.
LEMMA FlattenSplits ==
  ASSUME NEW s, NEW D, NEW d \in Nat \ {0}, NEW S \in SUBSET (1..d), Pieces(s, D, d, S)
  PROVE  SplitUpTo(FlattenSeq(s), D, d, S)
<1>1. Len(s) = d
  BY DEF Pieces
<1>2. PICK g : Flattens(g, s, d) /\ FlattenSeq(s) = g[d]
  BY <1>1, FlattenIs
<1>3. \A i \in 1..d : g[i] = IF i = 1 THEN s[i] ELSE g[i - 1] \o s[i]
  BY <1>2 DEF Flattens
<1>4. d \in Nat
  OBVIOUS
<1> DEFINE T == {m \in 1..d : ~SplitUpTo(g[m], D, m, S)}
<1>5. SUFFICES ASSUME T # {} PROVE FALSE
  <2>1. d \in 1..d
    OBVIOUS
  <2> QED BY <1>2, <2>1
<1>6. PICK j \in T : \A i \in T : j <= i
  <2>1. T \subseteq Nat
    OBVIOUS
  <2> HIDE DEF T
  <2> QED BY <1>5, <2>1, LeastNat
<1>7. CASE j = 1
  <2>1. 1 \in 1..d /\ g[1] = s[1] /\ 1 - 1 = 0
    BY <1>3
  <2>2. s[1] \in Seq(Instruction)
    <3>1. PICK k \in 1..d : k = 1
      BY <2>1
    <3>2. s[k] \in Seq(Instruction)
      BY <1>4, PieceIs
    <3> QED BY <3>1, <3>2
  <2>3. SplitUpTo(<<>>, D, 0, S)
    <3>1. Moved(S, 1) = 1 /\ 0 + 1 = 1 /\ 1..0 = {}
      BY <1>4, MovedType
    <3>2. <<>> \in Seq(Instruction) /\ Len(<<>>) = 0
      OBVIOUS
    <3> QED BY <3>1, <3>2 DEF SplitUpTo
  <2>4. <<>> \o s[1] = s[1]
    BY <2>2, ConcatEmptySeq
  <2>5. SplitUpTo(<<>> \o s[1], D, 1, S)
    BY <1>4, <2>1, <2>3, SplitNext
  <2> QED BY <1>6, <1>7, <2>1, <2>4, <2>5
<1>8. CASE j # 1
  <2>1. j - 1 \in 1..d /\ j - 1 \notin T /\ j \in 1..d
    BY <1>6, <1>8
  <2>2. SplitUpTo(g[j - 1], D, j - 1, S)
    BY <2>1
  <2>3. g[j] = g[j - 1] \o s[j]
    BY <1>3, <1>8, <2>1
  <2>4. SplitUpTo(g[j - 1] \o s[j], D, j, S)
    BY <1>4, <2>1, <2>2, SplitNext
  <2> QED BY <1>6, <2>3, <2>4
<1> QED BY <1>7, <1>8

\* So the instructions in flight are split where they are, with the fetch queue x before what is
\* decoded and the bundle u in fetch2 behind it.
LEMMA DecodeSplits ==
  ASSUME NEW x \in Seq(Instruction), NEW D \in Seq(Instruction), NEW u \in Seq(Instruction), NEW y,
         NEW S \in SUBSET (1..Len(D)), SplitUpTo(y, D, Len(D), S)
  PROVE  /\ SplitAs((x \o D) \o u, Len(x) + Len(D) + Len(u), (x \o y) \o u, Len(x), Len(D), S)
         /\ y \in Seq(Instruction) /\ Len(y) = Len(D) + Cardinality(S)
         /\ Cardinality(S) \in 0..Len(D)
<1>1. PICK a \in Nat, d \in Nat, m \in Nat : a = Len(x) /\ d = Len(D) /\ m = Len(u)
  BY LenProperties
<1>2. S \in SUBSET (1..d)
  BY <1>1
<1>3. PICK c \in 0..d : c = Cardinality(S)
  BY <1>2, MovedType
<1>4. y \in Seq(Instruction) /\ Len(y) = d + c
  <2>1. Moved(S, d + 1) = d + 1 + c
    BY <1>2, <1>3, MovedType
  <2>2. d + 1 + c - 1 = d + c
    OBVIOUS
  <2> QED BY <1>1, <2>1, <2>2 DEF SplitUpTo
<1>5. PICK w : w = x \o D
  OBVIOUS
<1>6. /\ w \in Seq(Instruction) /\ Len(w) = a + d
      /\ \A j \in 1..a : w[j] = x[j]
      /\ \A k \in 1..d : w[a + k] = D[k]
  BY <1>1, <1>5, JoinedAre
<1>7. PICK w2 : w2 = x \o y
  OBVIOUS
<1>8. /\ w2 \in Seq(Instruction) /\ Len(w2) = a + (d + c)
      /\ \A j \in 1..a : w2[j] = x[j]
      /\ \A k \in 1..(d + c) : w2[a + k] = y[k]
  <2>1. x \in Seq(Instruction) /\ y \in Seq(Instruction)
    BY <1>4
  <2>2. Len(x) = a /\ Len(y) = d + c /\ d + c \in Nat
    BY <1>1, <1>4
  <2>3. Behind(w2, x, a, y, d + c)
    BY <1>7, <2>1, <2>2, BehindEach
  <2> QED BY <2>3 DEF Behind
<1>9. PICK v, v2 : v = w \o u /\ v2 = w2 \o u
  OBVIOUS
<1>10. /\ \A j \in 1..(a + d) : v[j] = w[j]
       /\ \A k \in 1..m : v[a + d + k] = u[k]
  <2>1. w \in Seq(Instruction) /\ u \in Seq(Instruction)
    BY <1>6
  <2>2. Len(w) = a + d /\ Len(u) = m /\ a + d \in Nat
    BY <1>1, <1>6
  <2>3. Behind(v, w, a + d, u, m)
    BY <1>9, <2>1, <2>2, BehindEach
  <2> QED BY <2>3 DEF Behind
<1>11. /\ \A j \in 1..(a + d + c) : v2[j] = w2[j]
       /\ \A k \in 1..m : v2[a + d + c + k] = u[k]
  <2>1. w2 \in Seq(Instruction) /\ u \in Seq(Instruction)
    BY <1>8
  <2>2. Len(w2) = a + d + c /\ Len(u) = m /\ a + d + c \in Nat
    BY <1>1, <1>8
  <2>3. Behind(v2, w2, a + d + c, u, m)
    BY <1>9, <2>1, <2>2, BehindEach
  <2> QED BY <2>3 DEF Behind
<1>12. Inside(d, 0, d, S, c)
  <2>1. 0 + d <= d /\ 0 \in Nat
    OBVIOUS
  <2> QED BY <1>2, <1>3, <2>1, MovedInside
<1>13. ASSUME NEW j \in 1..a PROVE v2[j] = v[j]
  <2>1. j \in 1..(a + d) /\ j \in 1..(a + d + c)
    OBVIOUS
  <2> QED BY <1>6, <1>8, <1>10, <1>11, <2>1
<1>14. ASSUME NEW k \in 1..d PROVE v[a + k] = D[k]
  <2>1. a + k \in 1..(a + d)
    OBVIOUS
  <2> QED BY <1>6, <1>10, <2>1
<1>15. ASSUME NEW z \in 1..(d + c) PROVE v2[a + z] = y[z]
  <2>1. a + z \in 1..(a + d + c)
    OBVIOUS
  <2> QED BY <1>8, <1>11, <2>1
<1>16. ASSUME NEW k \in 1..d
       PROVE  /\ k \notin S => v2[a + Moved(S, k)] = v[a + k]
              /\ k \in S => /\ v2[a + Moved(S, k)] = Upper(v[a + k])
                            /\ v2[a + Moved(S, k) + 1] = Lower(v[a + k])
  <2>1. PICK z \in 1..(d + c) : z = Moved(S, k) /\ (k \in S => z + 1 \in 1..(d + c))
    <3>1. 0 + Moved(S, k) \in 1..(d + c) /\ Moved(S, k) \in Int
      BY <1>12 DEF Inside
    <3>2. k \in S => 0 + Moved(S, k) + 1 \in 1..(d + c)
      BY <1>12 DEF Inside
    <3> QED BY <3>1, <3>2
  <2>2. k \notin S => y[z] = D[k]
    BY <1>1, <2>1 DEF SplitUpTo
  <2>3. k \in S => y[z] = Upper(D[k]) /\ y[z + 1] = Lower(D[k])
    BY <1>1, <2>1 DEF SplitUpTo
  <2>4. a + z + 1 = a + (z + 1)
    OBVIOUS
  <2>5. v2[a + z] = y[z] /\ (k \in S => v2[a + (z + 1)] = y[z + 1])
    BY <1>15, <2>1
  <2> QED BY <1>14, <2>1, <2>2, <2>3, <2>4, <2>5
<1>17. \A j \in 1..(a + d + m - a - d) : v2[a + d + c + j] = v[a + d + j]
  <2>1. a + d + m - a - d = m
    OBVIOUS
  <2> QED BY <1>10, <1>11, <2>1
<1>18. SplitAs(v, a + d + m, v2, a, d, S)
  BY <1>2, <1>3, <1>13, <1>16, <1>17 DEF SplitAs
<1> QED BY <1>1, <1>3, <1>4, <1>5, <1>7, <1>9, <1>18

-----------------------------------------------------------------------------
(* The inductive invariant *)

\* Behind fetch2 the BTB's mistakes are gone, and only plain instructions are split.
FormedOf(w, n) ==
  \A k \in 1..n : /\ w[k].branch <=> w[k].kind = "cond"
                  /\ w[k].half # "whole" => w[k].kind = "plain"

\* Those that were fetched and not yet decoded are whole.
WholeOf(w, n) == \A k \in 1..n : w[k].half = "whole"

\* An exception ends the bundle in fetch2.
EndsAtException(w, n) == \A k \in 1..n : w[k].kind = "except" => k = n

\* The instructions are as fetch and decode make them.
WellFormed ==
  /\ FormedOf(Fetched, Len(Fetched))
  /\ WholeOf(DECODE, Len(DECODE))
  /\ WholeOf(FETCH2, Len(FETCH2))
  /\ EndsAtException(FETCH2, Len(FETCH2))

\* A serializing instruction among n is the last of m, and fetch1 is stopped.
AloneOf(w, n, m, active) ==
  \A k \in 1..n : w[k].kind \in {"serial", "except"} => k = m /\ ~active

\* The checkpoint is where the bundle in fetch2 begins.
Checkpointed == FETCH2 # <<>> => pay_checkpoint = FETCH2[1].index

\* PayloadHoldsInFlight, with room for everything in flight, and the halves of an instruction
\* following each other in a pair of entries.
PayHolds ==
  /\ PayOf(InFlight, Len(InFlight), pay_head, pay_tail, pay_length)
  /\ PairedOf(InFlight, Len(InFlight), pay_tail)

\* TagsInProgramOrder
TagsFollow == TagsOf(Fetched, Len(Fetched), bq_head, bq_tail)

\* How many branches the branch queue holds, and the history behind them.
InQueue == Cardinality(BranchesOf(Fetched, Len(Fetched)))
Path == After(base, Out(bq_head, InQueue, bq))

\* HistoryFollowsPath
OnPath ==
  /\ Logged(InQueue, bq_head, bq, log, base)
  /\ FETCH2 # <<>> => fetch2_bhr = Path
  /\ fetch_active => bhr = After(Path, Predictions(FETCH2))

\* What is proved invariant.
Fetching ==
  /\ TypeOK
  /\ WellFormed
  /\ SerializersAreAlone
  /\ Checkpointed
  /\ PayHolds
  /\ TagsFollow
  /\ OnPath

\* The stages of a state that has its type.
LEMMA StagesHere ==
  ASSUME TypeOK
  PROVE  StagesOf
BY StagesIs DEF TypeOK

\* The branch queue has room for the branches behind fetch2.
LEMMA RoomForBranches ==
  ASSUME NEW w, NEW w2, NEW n \in Nat, NEW m \in 0..n, NEW head \in PayIndex, NEW tail, NEW length,
         PayOf(w, n, head, tail, length), FormedOf(w2, m), \A j \in 1..m : w2[j] = w[j]
  PROVE  Cardinality(BranchesOf(w2, m)) <= BQ_SIZE
<1>1. PayOf(w2, m, head, Wrapped(head + Before(w, n, m + 1)), Before(w, n, m + 1))
  BY PayCut
<1>2. Before(w2, m, m + 1) <= 2 * MaxInFlight
  BY <1>1 DEF PayOf
<1>3. \A k \in 1..m : w2[k].branch => w2[k].half = "whole"
  BY DEF FormedOf
<1>4. m \in Nat
  OBVIOUS
<1> QED BY <1>2, <1>3, <1>4, BranchesFit

\* What the invariant says of the stages and the branch queue.
QueueOf ==
  /\ StagesOf
  /\ InQueue \in Nat /\ InQueue <= BQ_SIZE
  /\ Out(bq_head, InQueue, bq) \in Seq(BOOLEAN)
  /\ Path \in History

\* It is implied by it.
LEMMA QueueIs ==
  ASSUME Fetching
  PROVE  QueueOf
<1>1. /\ StagesOf
      /\ bq_head \in Pointer(BQ_SIZE) /\ bq \in [0..(BQ_SIZE - 1) -> BOOLEAN] /\ base \in History
      /\ pay_head \in PayIndex
  BY StagesHere DEF Fetching, TypeOK
<1>2. PICK n \in Nat, m \in Nat : n = Len(InFlight) /\ m = Len(Fetched) /\ m \in 0..n
  BY <1>1 DEF StagesOf, InFlightOf
<1>3. \A j \in 1..m : Fetched[j] = InFlight[j]
  BY <1>1, <1>2 DEF StagesOf, InFlightOf
<1>4. PayOf(InFlight, n, pay_head, pay_tail, pay_length) /\ FormedOf(Fetched, m)
  BY <1>2 DEF Fetching, PayHolds, WellFormed
<1>5. Cardinality(BranchesOf(Fetched, m)) <= BQ_SIZE
  BY <1>1, <1>2, <1>3, <1>4, RoomForBranches
<1>6. PICK c \in Nat : c = InQueue /\ c <= BQ_SIZE
  <2>1. m \in Nat
    OBVIOUS
  <2>2. Cardinality(BranchesOf(Fetched, m)) \in 0..m
    BY <2>1, BranchesType
  <2> QED BY <1>2, <1>5, <2>2 DEF InQueue
<1>7. Out(bq_head, c, bq) \in Seq(BOOLEAN)
  BY <1>1, <1>6, OutType
<1>8. After(base, Out(bq_head, c, bq)) \in History
  BY <1>1, <1>7, AfterType
<1> QED BY <1>1, <1>6, <1>7, <1>8 DEF QueueOf, Path

\* The first few outcomes.
LEMMA OutFirst ==
  ASSUME NEW h \in Pointer(BQ_SIZE), NEW c \in Nat, c <= BQ_SIZE, NEW i \in 0..c,
         NEW q \in [0..(BQ_SIZE - 1) -> BOOLEAN]
  PROVE  SubSeq(Out(h, c, q), 1, i) = Out(h, i, q)
<1>1. i \in Nat /\ i <= BQ_SIZE /\ 1 \in Int /\ i \in Int
  BY FetchUnitAssumption
<1>2. PICK o : o = Out(h, c, q)
  OBVIOUS
<1>3. o \in Seq(BOOLEAN) /\ Len(o) = c
  BY <1>2, OutType
<1>4. Out(h, i, q) \in Seq(BOOLEAN) /\ Len(Out(h, i, q)) = i
  BY <1>1, OutType
<1>5. \A k \in 1..i : k \in 1..Len(o) /\ k \in 1..c
  BY <1>3
<1>6. \A k \in 1..i : o[k] \in BOOLEAN
  BY <1>3, <1>5, ElementOfSeq
<1>7. /\ SubSeq(o, 1, i) \in Seq(BOOLEAN)
      /\ Len(SubSeq(o, 1, i)) = IF 1 <= i THEN i - 1 + 1 ELSE 0
      /\ \A k \in 1..(i - 1 + 1) : SubSeq(o, 1, i)[k] = o[1 + k - 1]
  BY <1>1, <1>6, SubSeqProperties
<1>8. i - 1 + 1 = i /\ \A k \in 1..i : 1 + k - 1 = k
  BY <1>1
<1>9. Len(SubSeq(o, 1, i)) = i /\ \A k \in 1..i : SubSeq(o, 1, i)[k] = o[k]
  BY <1>1, <1>7, <1>8
<1>10. \A k \in 1..i : o[k] = Out(h, i, q)[k]
  BY <1>2, <1>5 DEF Out
<1>11. SubSeq(o, 1, i) = Out(h, i, q)
  BY <1>4, <1>7, <1>9, <1>10, SeqEqual
<1> QED BY <1>2, <1>11

\* PayloadHoldsInFlight is what PayHolds says without the modulus.
LEMMA PayloadShown ==
  ASSUME Fetching
  PROVE  PayloadHoldsInFlight
<1>0. PICK w : w = InFlight
  OBVIOUS
<1>1. PICK n \in Nat : w = InFlight /\ n = Len(InFlight)
  BY <1>0, QueueIs DEF QueueOf, StagesOf, InFlightOf
<1>2. PayOf(w, n, pay_head, pay_tail, pay_length) /\ pay_head \in PayIndex
  BY <1>1 DEF Fetching, PayHolds, TypeOK
<1>3. ASSUME NEW k \in 1..(n + 1)
      PROVE  /\ EntriesBefore(k) = Before(w, n, k)
             /\ Before(w, n, k) \in Nat /\ Before(w, n, k) <= 2 * MaxInFlight
             /\ (pay_head + Before(w, n, k)) % PAYLOAD_BUFFER_SIZE
                  = Wrapped(pay_head + Before(w, n, k))
  <2>1. EntriesBefore(k) = Before(w, n, k)
    <3>1. \A j : j \in 1..(k - 1) <=> j \in 1..n /\ j < k
      OBVIOUS
    <3>2. {j \in 1..(k - 1) : w[j].half = "whole"} = {j \in Wholes(w, n) : j < k}
      BY <3>1 DEF Wholes
    <3> QED BY <1>1, <3>2 DEF EntriesBefore, Before, Count
  <2>2. PICK x \in Nat : x = Before(w, n, k) /\ x <= 2 * MaxInFlight
    <3>1. n + 1 \in 1..(n + 1) /\ k <= n + 1
      OBVIOUS
    <3>2. Before(w, n, k) \in Nat /\ Before(w, n, n + 1) \in Nat
          /\ Before(w, n, k) <= Before(w, n, n + 1)
      BY <3>1, BeforeType
    <3>3. Before(w, n, n + 1) <= 2 * MaxInFlight
      BY <1>2 DEF PayOf
    <3> QED BY <3>2, <3>3, PaySize
  <2>3. x + 0 < PAYLOAD_BUFFER_SIZE /\ 0 \in Nat
    BY <2>2, PaySize
  <2>4. (pay_head + x) % PAYLOAD_BUFFER_SIZE = Wrapped(pay_head + x)
    BY <1>2, <2>2, <2>3, WrappedIs
  <2> QED BY <2>1, <2>2, <2>4
<1>4. n + 1 \in 1..(n + 1) /\ \A k \in 1..n : k \in 1..(n + 1)
  OBVIOUS
<1>5. \A k \in 1..n : w[k].index = (pay_head + EntriesBefore(k)) % PAYLOAD_BUFFER_SIZE
  BY <1>2, <1>3, <1>4 DEF PayOf
<1>6. pay_length = EntriesBefore(n + 1) /\ pay_tail = (pay_head + pay_length) % PAYLOAD_BUFFER_SIZE
  BY <1>2, <1>3, <1>4 DEF PayOf
<1> QED BY <1>1, <1>5, <1>6 DEF PayloadHoldsInFlight

\* The branches behind fetch2, and the numbers of them.
LEMMA BranchesFetched ==
  ASSUME Fetching
  PROVE  /\ Len(Fetched) \in Nat /\ DOMAIN Fetched = 1..Len(Fetched)
         /\ Branches(Fetched) = BranchesOf(Fetched, Len(Fetched))
         /\ \A k : BranchesBefore(Fetched, k) = Count(BranchesOf(Fetched, Len(Fetched)), k)
<1>1. Fetched \in Seq(Instruction) /\ Len(Fetched) \in Nat
  BY QueueIs DEF QueueOf, StagesOf, InFlightOf
<1>2. DOMAIN Fetched = 1..Len(Fetched)
  BY <1>1, LenProperties
<1> QED BY <1>1, <1>2, BranchesIs

\* TagsInProgramOrder is what TagsFollow says.
LEMMA TagsShown ==
  ASSUME Fetching
  PROVE  TagsInProgramOrder
<1>1. TagsOf(Fetched, Len(Fetched), bq_head, bq_tail)
  BY DEF Fetching, TagsFollow
<1> QED BY <1>1, BranchesFetched DEF TagsOf, At, TagsInProgramOrder

\* The outcomes are those in the branch queue.
LEMMA OutcomesAre ==
  ASSUME Fetching
  PROVE  Outcomes = Out(bq_head, InQueue, bq)
<1>1. PICK B : B = BranchesOf(Fetched, Len(Fetched))
  OBVIOUS
<1>2. PICK c \in Nat : c = Cardinality(B) /\ c = InQueue
  BY <1>1, QueueIs DEF QueueOf, InQueue
<1>3. ASSUME NEW i \in 1..c PROVE Fetched[NthBranch(Fetched, i)].tag = At(bq_head, i - 1)
  <2>1. NthBranch(Fetched, i) \in B /\ Count(B, NthBranch(Fetched, i)) = i - 1
    BY <1>1, <1>2, BranchesFetched, NthIs
  <2> QED BY <1>1, <2>1 DEF Fetching, TagsFollow, TagsOf
<1>4. Outcomes = [i \in 1..c |-> bq[Fetched[NthBranch(Fetched, i)].tag.idx]]
  BY <1>1, <1>2, BranchesFetched DEF Outcomes
<1> QED BY <1>2, <1>3, <1>4 DEF Out

\* A bundle in fetch2 has predictions.
LEMMA FetchedBundle ==
  ASSUME NEW u \in Seq(Instruction)
  PROVE  /\ Len(u) \in Nat /\ Bundled(u, Len(u)) /\ Predictions(u) \in Seq(BOOLEAN)
         /\ Len(Predictions(u)) = Cardinality(BranchesOf(u, Len(u)))
<1>1. Len(u) \in Nat /\ DOMAIN u = 1..Len(u)
  BY LenProperties
<1>2. \A k \in 1..Len(u) : u[k] \in Instruction
  BY ElementOfSeq
<1>3. Bundled(u, Len(u))
  BY <1>1, <1>2 DEF Bundled, Instruction
<1> QED BY <1>1, <1>3, PredictionsType

\* HistoryFollowsPath is what OnPath says.
LEMMA HistoryShown ==
  ASSUME Fetching
  PROVE  HistoryFollowsPath
<1>1. PICK c \in Nat, o \in Seq(BOOLEAN) :
           /\ c = InQueue /\ c <= BQ_SIZE /\ o = Out(bq_head, c, bq) /\ o = Outcomes
  BY QueueIs, OutcomesAre DEF QueueOf
<1>2. /\ base \in History /\ FETCH2 \in Seq(Instruction) /\ bq_head \in Pointer(BQ_SIZE)
      /\ bq \in [0..(BQ_SIZE - 1) -> BOOLEAN]
  BY DEF Fetching, TypeOK
<1>3. After(Path, Predictions(FETCH2)) = After(base, Outcomes \o Predictions(FETCH2))
  <2>1. Predictions(FETCH2) \in Seq(BOOLEAN)
    BY <1>2, FetchedBundle
  <2>2. After(After(base, o), Predictions(FETCH2)) = After(base, o \o Predictions(FETCH2))
    BY <1>2, <2>1, AfterAfter
  <2> QED BY <1>1, <2>2 DEF Path
<1>4. Path = After(base, Outcomes)
  BY <1>1 DEF Path
<1>5. ASSUME NEW k \in Branches(Fetched)
      PROVE  log[Fetched[k].tag.idx] = After(base, SubSeq(Outcomes, 1, BranchesBefore(Fetched, k)))
  <2>1. PICK B : B = BranchesOf(Fetched, Len(Fetched)) /\ k \in B
    BY BranchesFetched
  <2>2. PICK i \in 0..(c - 1) : i = Count(B, k)
    <3>1. Count(B, k) \in 0..(Cardinality(B) - 1)
      BY <2>1, BranchesFetched, BranchesType
    <3> QED BY <1>1, <2>1, <3>1 DEF InQueue
  <2>3. Fetched[k].tag = At(bq_head, i)
    BY <2>1, <2>2 DEF Fetching, TagsFollow, TagsOf
  <2>4. log[At(bq_head, i).idx] = After(base, Out(bq_head, i, bq))
    BY <1>1, <2>2 DEF Fetching, OnPath, Logged
  <2>5. SubSeq(Out(bq_head, c, bq), 1, i) = Out(bq_head, i, bq)
    <3>1. i \in 0..c
      OBVIOUS
    <3> QED BY <1>1, <1>2, <3>1, OutFirst
  <2>6. BranchesBefore(Fetched, k) = i
    BY <2>1, <2>2, BranchesFetched
  <2> QED BY <1>1, <2>3, <2>4, <2>5, <2>6
<1> QED BY <1>3, <1>4, <1>5 DEF Fetching, OnPath, HistoryFollowsPath

-----------------------------------------------------------------------------
(* Rename *)

\* A step that only moves instructions on.
LEMMA MovesOn ==
  ASSUME Fetching, TypeOK', Fetched' = Fetched, DECODE' = DECODE, FETCH2' = FETCH2,
         UNCHANGED <<fetch_active, payVars, bqVars, bhr, fetch2Vars, base>>
  PROVE  Fetching'
<1>1. InFlight' = InFlight
  BY DEF InFlight
<1>2. UNCHANGED <<fetch_active, pay_head, pay_tail, pay_length, bq, bq_head, bq_tail, log, bhr,
                  fetch2_bhr, pay_checkpoint, base>>
  BY DEF payVars, bqVars, fetch2Vars
<1>3. WellFormed' /\ SerializersAreAlone' /\ Checkpointed'
  BY <1>1, <1>2 DEF Fetching, WellFormed, SerializersAreAlone, Checkpointed
<1>4. PayHolds' /\ TagsFollow'
  BY <1>1, <1>2 DEF Fetching, PayHolds, TagsFollow
<1>5. OnPath'
  BY <1>2 DEF Fetching, OnPath, InQueue, Path
<1> QED BY <1>3, <1>4, <1>5 DEF Fetching

\* rename1() takes the oldest instructions of the fetch queue.
LEMMA Rename1Step ==
  ASSUME Fetching, Rename1
  PROVE  Fetching'
<1>1. TypeOK
  BY DEF Fetching
<1>2. PICK f \in Seq(Instruction), l \in Nat : f = FQ /\ l = Len(f) /\ l <= fq_size
  <2>1. FQ \in Seq(Instruction) /\ Len(FQ) <= fq_size
    BY <1>1 DEF TypeOK
  <2>2. Len(FQ) \in Nat
    BY <2>1, LenProperties
  <2> QED BY <2>1, <2>2
<1>3. PICK b \in Nat : b = dispatch_width
  BY FetchUnitAssumption
<1>4. PICK width \in 0..l : width <= b /\ RENAME2' = SubSeq(f, 1, width) /\ FQ' = SubSeq(f, width + 1, l)
  <2>1. CASE l < b
    <3>1. RENAME2' = SubSeq(f, 1, l) /\ FQ' = SubSeq(f, l + 1, l)
      BY <1>2, <1>3, <2>1 DEF Rename1
    <3>2. l \in 0..l /\ l <= b
      BY <2>1
    <3> QED BY <3>1, <3>2
  <2>2. CASE ~(l < b)
    <3>1. RENAME2' = SubSeq(f, 1, b) /\ FQ' = SubSeq(f, b + 1, l)
      BY <1>2, <1>3, <2>2 DEF Rename1
    <3>2. b \in 0..l /\ b <= b
      BY <2>2
    <3> QED BY <3>1, <3>2
  <2> QED BY <2>1, <2>2
<1>5. \A k \in 1..l : f[k] \in Instruction
  BY <1>2, ElementOfSeq
<1>6. RENAME2' \in Seq(Instruction) /\ Len(RENAME2') <= b
  <2>1. \A k \in 1..width : f[k] \in Instruction
    BY <1>5
  <2>2. 1 \in Int /\ width \in Int
    OBVIOUS
  <2>3. /\ SubSeq(f, 1, width) \in Seq(Instruction)
        /\ Len(SubSeq(f, 1, width)) = IF 1 <= width THEN width - 1 + 1 ELSE 0
    BY <2>1, <2>2, SubSeqProperties
  <2> QED BY <1>4, <2>3
<1>7. FQ' \in Seq(Instruction) /\ Len(FQ') <= l
  <2>1. \A k \in (width + 1)..l : f[k] \in Instruction
    BY <1>5
  <2>2. width + 1 \in Int /\ l \in Int
    OBVIOUS
  <2>3. /\ SubSeq(f, width + 1, l) \in Seq(Instruction)
        /\ Len(SubSeq(f, width + 1, l)) = IF width + 1 <= l THEN l - (width + 1) + 1 ELSE 0
    BY <2>1, <2>2, SubSeqProperties
  <2> QED BY <1>4, <2>3
<1>8. RENAME2' \o FQ' = FQ
  <2>1. 1 \in 1..(Len(f) + 1) /\ width \in (1 - 1)..Len(f) /\ l \in width..Len(f)
    BY <1>2
  <2>2. SubSeq(f, 1, width) \o SubSeq(f, width + 1, l) = SubSeq(f, 1, l)
    BY <2>1, ConcatAdjacentSubSeq
  <2>3. SubSeq(f, 1, l) = f
    BY <1>2, SubSeqFull
  <2> QED BY <1>2, <1>4, <2>2, <2>3
<1>9. /\ UNCHANGED <<fetch_active, FETCH2, DECODE, rob, pay_head, pay_tail, pay_length, bq, bq_head,
                    bq_tail, log, bhr, fetch2_bhr, pay_checkpoint, base>>
      /\ RENAME2 = <<>>
  BY DEF Rename1, payVars, bqVars, fetch2Vars
<1>10. Fetched' = Fetched
  <2>1. rob \in Seq(Instruction) /\ RENAME2' \in Seq(Instruction) /\ FQ' \in Seq(Instruction)
    BY <1>1, <1>6, <1>7 DEF TypeOK
  <2>2. (rob \o RENAME2') \o FQ' = rob \o (RENAME2' \o FQ')
    BY <2>1, Associates
  <2>3. rob \o <<>> = rob
    BY <2>1, ConcatEmptySeq
  <2>4. Fetched = (rob \o FQ) \o DECODE
    BY <1>9, <2>3 DEF Fetched
  <2>5. Fetched' = ((rob \o RENAME2') \o FQ') \o DECODE
    BY <1>9 DEF Fetched
  <2> QED BY <1>8, <2>2, <2>4, <2>5
<1>11. Len(FQ') <= fq_size
  <2>1. Len(FQ') \in Nat
    BY <1>7, LenProperties
  <2> QED BY <1>2, <1>7, <2>1, FetchUnitAssumption
<1>12. TypeOK'
  BY <1>1, <1>3, <1>6, <1>7, <1>9, <1>11 DEF TypeOK
<1> QED BY <1>9, <1>10, <1>12, MovesOn DEF payVars, bqVars, fetch2Vars

\* The bundle leaves rename2 behind the instructions that left before.
LEMMA Rename2Step ==
  ASSUME Fetching, Rename2
  PROVE  Fetching'
<1>1. /\ TypeOK /\ rob \in Seq(Instruction) /\ RENAME2 \in Seq(Instruction)
      /\ FQ \in Seq(Instruction) /\ DECODE \in Seq(Instruction)
  BY DEF Fetching, TypeOK
<1>2. /\ UNCHANGED <<fetch_active, FETCH2, DECODE, FQ, pay_head, pay_tail, pay_length, bq, bq_head,
                    bq_tail, log, bhr, fetch2_bhr, pay_checkpoint, base>>
      /\ rob' = rob \o RENAME2 /\ RENAME2' = <<>>
  BY DEF Rename2, payVars, bqVars, fetch2Vars
<1>3. rob' \in Seq(Instruction) /\ Len(rob') <= rob_size
  BY <1>1, <1>2, ConcatProperties DEF Rename2
<1>4. Fetched' = Fetched
  BY <1>2, <1>3, ConcatEmptySeq DEF Fetched
<1>5. RENAME2' \in Seq(Instruction) /\ Len(RENAME2') <= dispatch_width
  BY <1>2, FetchUnitAssumption
<1>6. TypeOK'
  BY <1>1, <1>2, <1>3, <1>5 DEF TypeOK
<1> QED BY <1>2, <1>4, <1>6, MovesOn DEF payVars, bqVars, fetch2Vars

-----------------------------------------------------------------------------
(* Branch resolution *)

\* Two lists of instructions differ at most in which of the first m are resolved.
Alike(w, w2, m) ==
  \A j \in 1..m : /\ w2[j].kind = w[j].kind /\ w2[j].branch = w[j].branch
                  /\ w2[j].taken = w[j].taken /\ w2[j].index = w[j].index
                  /\ w2[j].tag = w[j].tag /\ w2[j].half = w[j].half

\* One that is the same is alike.
LEMMA AlikeToo ==
  ASSUME NEW u, NEW v, NEW w, NEW m, Alike(u, w, m), \A j \in 1..m : u[j] = v[j]
  PROVE  Alike(v, w, m)
BY DEF Alike

\* Two sequences do.
AlikeSeqs(u, u2) ==
  /\ u \in Seq(Instruction) /\ u2 \in Seq(Instruction)
  /\ Len(u2) = Len(u) /\ Alike(u, u2, Len(u))

\* They still do with the same behind them.
LEMMA AlikeJoined ==
  ASSUME NEW u, NEW u2, AlikeSeqs(u, u2), NEW v \in Seq(Instruction)
  PROVE  AlikeSeqs(u \o v, u2 \o v)
<1>1. u \in Seq(Instruction) /\ u2 \in Seq(Instruction)
  BY DEF AlikeSeqs
<1>2. PICK m \in Nat, n \in Nat : m = Len(u) /\ n = Len(v) /\ m = Len(u2)
  BY <1>1, LenProperties DEF AlikeSeqs
<1>3. PICK w, w2 : w = u \o v /\ w2 = u2 \o v
  OBVIOUS
<1>4. Behind(w, u, m, v, n)
  BY <1>1, <1>2, <1>3, BehindEach
<1>5. Behind(w2, u2, m, v, n)
  BY <1>1, <1>2, <1>3, BehindEach
<1>6. ASSUME NEW j \in 1..(m + n)
      PROVE  \/ w2[j] = w[j]
             \/ j \in 1..m /\ w2[j] = u2[j] /\ w[j] = u[j]
  <2>1. CASE j \in 1..m
    BY <1>4, <1>5, <2>1 DEF Behind
  <2>2. CASE j \notin 1..m
    <3>1. PICK k \in 1..n : j = m + k
      <4>1. j - m \in 1..n /\ j = m + (j - m)
        BY <2>2
      <4> QED BY <4>1
    <3> QED BY <1>4, <1>5, <3>1 DEF Behind
  <2> QED BY <2>1, <2>2
<1>7. Alike(w, w2, m + n)
  BY <1>2, <1>6 DEF Alike, AlikeSeqs
<1>8. w \in Seq(Instruction) /\ w2 \in Seq(Instruction) /\ Len(w) = m + n /\ Len(w2) = m + n
  BY <1>4, <1>5 DEF Behind
<1> QED BY <1>3, <1>7, <1>8 DEF AlikeSeqs

\* PAY, the branch queue and the rest see no difference between them.
LEMMA AlikeKept ==
  ASSUME NEW w, NEW w2, NEW n \in Nat, Alike(w, w2, n)
  PROVE  /\ FormedOf(w, n) => FormedOf(w2, n)
         /\ \A m, active : AloneOf(w, n, m, active) => AloneOf(w2, n, m, active)
         /\ \A tail : PairedOf(w, n, tail) => PairedOf(w2, n, tail)
         /\ Cardinality(BranchesOf(w2, n)) = Cardinality(BranchesOf(w, n))
<1>1. FormedOf(w, n) => FormedOf(w2, n)
  BY DEF FormedOf, Alike
<1>2. \A m, active : AloneOf(w, n, m, active) => AloneOf(w2, n, m, active)
  BY DEF AloneOf, Alike
<1>3. \A tail : PairedOf(w, n, tail) => PairedOf(w2, n, tail)
  BY DEF PairedOf, Alike
<1>4. BranchesOf(w2, n) = BranchesOf(w, n)
  BY DEF BranchesOf, Alike
<1> QED BY <1>1, <1>2, <1>3, <1>4

\* The same of the pointers.
LEMMA AlikePlaced ==
  ASSUME NEW w, NEW w2, NEW n \in Nat, Alike(w, w2, n)
  PROVE  /\ \A head \in PayIndex : \A tail, length :
              PayOf(w, n, head, tail, length) => PayOf(w2, n, head, tail, length)
         /\ \A head, tail : TagsOf(w, n, head, tail) => TagsOf(w2, n, head, tail)
<1>0. n \in 0..n /\ n + 1 \in 1..(n + 1)
  OBVIOUS
<1>1. ASSUME NEW head \in PayIndex, NEW tail, NEW length, PayOf(w, n, head, tail, length)
      PROVE  PayOf(w2, n, head, tail, length)
  <2>1. \A j \in 1..n : w2[j].half = w[j].half /\ w2[j].index = w[j].index
    BY DEF Alike
  <2>2. PayOf(w2, n, head, Wrapped(head + Before(w, n, n + 1)), Before(w, n, n + 1))
    BY <1>0, <1>1, <2>1, PayCut
  <2> QED BY <1>1, <2>2 DEF PayOf
<1>2. ASSUME NEW head, NEW tail, TagsOf(w, n, head, tail) PROVE TagsOf(w2, n, head, tail)
  <2>1. BranchesOf(w2, n) = BranchesOf(w, n)
    BY DEF BranchesOf, Alike
  <2>2. \A k \in BranchesOf(w, n) : w2[k].tag = w[k].tag
    BY DEF BranchesOf, Alike
  <2> QED BY <1>2, <2>1, <2>2 DEF TagsOf
<1> QED BY <1>1, <1>2

\* A branch that was predicted correctly is resolved, and nothing else changes.
LEMMA ResolveCorrectStep ==
  ASSUME Fetching, NEW i \in 1..Len(rob), ResolveCorrect(i)
  PROVE  Fetching'
<1>1. /\ TypeOK /\ rob \in Seq(Instruction) /\ RENAME2 \in Seq(Instruction)
      /\ FQ \in Seq(Instruction) /\ DECODE \in Seq(Instruction) /\ FETCH2 \in Seq(Instruction)
      /\ pay_head \in PayIndex
  BY DEF Fetching, TypeOK
<1>2. /\ UNCHANGED <<fetch_active, FETCH2, DECODE, FQ, RENAME2, pay_head, pay_tail, pay_length, bq,
                    bq_head, bq_tail, log, bhr, fetch2_bhr, pay_checkpoint, base>>
      /\ rob' = [rob EXCEPT ![i].resolved = TRUE]
  BY DEF ResolveCorrect, payVars, bqVars, fetch2Vars
<1>3. AlikeSeqs(rob, rob')
  <2>1. PICK x : x = [rob[i] EXCEPT !.resolved = TRUE]
    OBVIOUS
  <2>2. rob[i] \in Instruction
    BY <1>1, ElementOfSeq
  <2>3. /\ x \in Instruction /\ x.kind = rob[i].kind /\ x.branch = rob[i].branch
        /\ x.taken = rob[i].taken /\ x.index = rob[i].index /\ x.tag = rob[i].tag
        /\ x.half = rob[i].half
    BY <2>1, <2>2 DEF Instruction
  <2>4. rob' = [rob EXCEPT ![i] = x]
    BY <1>2, <2>1
  <2>5. /\ rob' \in Seq(Instruction) /\ Len(rob') = Len(rob)
        /\ \A j \in 1..Len(rob) : rob'[j] = IF j = i THEN x ELSE rob[j]
    BY <1>1, <2>3, <2>4, ExceptSeq
  <2>6. Alike(rob, rob', Len(rob))
    BY <2>3, <2>5 DEF Alike
  <2> QED BY <1>1, <2>5, <2>6 DEF AlikeSeqs
<1>4. AlikeSeqs(Fetched, Fetched') /\ AlikeSeqs(InFlight, InFlight')
  <2>1. AlikeSeqs(rob \o RENAME2, rob' \o RENAME2)
    BY <1>1, <1>3, AlikeJoined
  <2>2. AlikeSeqs(rob \o RENAME2 \o FQ, rob' \o RENAME2 \o FQ)
    BY <1>1, <2>1, AlikeJoined
  <2>3. AlikeSeqs(rob \o RENAME2 \o FQ \o DECODE, rob' \o RENAME2 \o FQ \o DECODE)
    BY <1>1, <2>2, AlikeJoined
  <2>4. AlikeSeqs(Fetched, Fetched')
    BY <1>2, <2>3 DEF Fetched
  <2>5. AlikeSeqs(Fetched \o FETCH2, Fetched' \o FETCH2)
    BY <1>1, <2>4, AlikeJoined
  <2> QED BY <1>2, <2>4, <2>5 DEF InFlight
<1>5. PICK n \in Nat, m \in Nat : /\ n = Len(InFlight) /\ m = Len(Fetched)
                                  /\ n = Len(InFlight') /\ m = Len(Fetched')
  BY <1>4, LenProperties DEF AlikeSeqs
<1>6. Alike(Fetched, Fetched', m) /\ Alike(InFlight, InFlight', n)
  BY <1>4, <1>5 DEF AlikeSeqs
<1>7. TypeOK'
  <2>1. rob' \in Seq(Instruction) /\ Len(rob') = Len(rob)
    BY <1>3 DEF AlikeSeqs
  <2> QED BY <1>1, <1>2, <2>1 DEF TypeOK
<1>8. WellFormed'
  <2>1. FormedOf(Fetched', m)
    BY <1>5, <1>6, AlikeKept DEF Fetching, WellFormed
  <2> QED BY <1>2, <1>5, <2>1 DEF Fetching, WellFormed
<1>9. SerializersAreAlone'
  <2>1. AloneOf(Fetched, m, n, fetch_active)
    BY <1>5 DEF Fetching, SerializersAreAlone, AloneOf
  <2>2. AloneOf(Fetched', m, n, fetch_active)
    BY <1>6, <2>1, AlikeKept
  <2> QED BY <1>2, <1>5, <2>2 DEF SerializersAreAlone, AloneOf
<1>10. Checkpointed'
  BY <1>2 DEF Fetching, Checkpointed
<1>11. PayHolds'
  <2>1. PayOf(InFlight, n, pay_head, pay_tail, pay_length) /\ PairedOf(InFlight, n, pay_tail)
    BY <1>5 DEF Fetching, PayHolds
  <2>2. PayOf(InFlight', n, pay_head, pay_tail, pay_length)
    BY <1>1, <1>6, <2>1, AlikePlaced
  <2>3. PairedOf(InFlight', n, pay_tail)
    BY <1>6, <2>1, AlikeKept
  <2> QED BY <1>2, <1>5, <2>2, <2>3 DEF PayHolds
<1>12. TagsFollow'
  <2>1. TagsOf(Fetched', m, bq_head, bq_tail)
    BY <1>5, <1>6, AlikePlaced DEF Fetching, TagsFollow
  <2> QED BY <1>2, <1>5, <2>1 DEF TagsFollow
<1>13. OnPath'
  <2>1. InQueue' = InQueue
    BY <1>5, <1>6, AlikeKept DEF InQueue
  <2> QED BY <1>2, <2>1 DEF Fetching, OnPath, Path
<1> QED BY <1>7, <1>8, <1>9, <1>10, <1>11, <1>12, <1>13 DEF Fetching

\* Where the front end is emptied nothing but the rob is in flight.
LEMMA EmptiedStages ==
  ASSUME rob' \in Seq(Instruction), RENAME2' = <<>>, FQ' = <<>>, DECODE' = <<>>, FETCH2' = <<>>
  PROVE  Fetched' = rob' /\ InFlight' = rob'
<1>1. rob' \o <<>> = rob'
  BY ConcatEmptySeq
<1> QED BY <1>1 DEF Fetched, InFlight

\* PAY's tail goes back to behind a whole instruction in flight.
LEMMA RolledBackTo ==
  ASSUME NEW w, NEW n \in Nat, NEW tail, NEW length, NEW i \in 1..n, pay_head \in PayIndex,
         PayOf(w, n, pay_head, tail, length), PairedOf(w, n, tail),
         w[i].half = "whole", rollback(w[i].index)
  PROVE  /\ pay_head' = pay_head /\ pay_tail' = Wrapped(pay_head + Before(w, n, i + 1))
         /\ pay_length' = Before(w, n, i + 1)
         /\ pay_tail' \in PayIndex /\ pay_length' \in 0..PAYLOAD_BUFFER_SIZE
         /\ pay_tail' \in Nat /\ pay_tail' % 2 = 0
<1>1. PICK x \in Nat : x = Before(w, n, i)
  <2>1. i \in 1..(n + 1)
    OBVIOUS
  <2> QED BY <2>1, BeforeType
<1>2. x + 2 = Before(w, n, i + 1)
  BY <1>1, BeforeType DEF Entries
<1>3. x + 2 < PAYLOAD_BUFFER_SIZE
  <2>1. n + 1 \in 1..(n + 1) /\ i + 1 \in 1..(n + 1) /\ i + 1 <= n + 1
    OBVIOUS
  <2>2. Before(w, n, i + 1) <= Before(w, n, n + 1) /\ Before(w, n, n + 1) \in Nat
    BY <2>1, BeforeType
  <2>3. Before(w, n, n + 1) <= 2 * MaxInFlight
    BY DEF PayOf
  <2> QED BY <1>2, <2>2, <2>3, PaySize
<1>4. PICK index : index = w[i].index /\ index = Wrapped(pay_head + x) /\ index \in PayIndex
  <2>1. w[i].index = Wrapped(pay_head + x)
    BY <1>1 DEF PayOf
  <2>2. x + 2 < PAYLOAD_BUFFER_SIZE /\ 2 \in Nat
    BY <1>3
  <2>3. Wrapped(pay_head + x) \in PayIndex
    BY <1>1, <2>2, WrappedIs
  <2> QED BY <2>1, <2>3
<1>5. PICK t : t = (index + 2) % PAYLOAD_BUFFER_SIZE /\ t = Wrapped(pay_head + (x + 2))
  <2>1. 2 \in Nat
    OBVIOUS
  <2>2. (Wrapped(pay_head + x) + 2) % PAYLOAD_BUFFER_SIZE = Wrapped(pay_head + (x + 2))
    BY <1>1, <1>3, <2>1, WrappedIs
  <2> QED BY <1>4, <2>2
<1>6. /\ t \in PayIndex
      /\ (PAYLOAD_BUFFER_SIZE + t - pay_head) % PAYLOAD_BUFFER_SIZE = x + 2
  <2>1. x + 2 \in Nat /\ (x + 2) + 0 < PAYLOAD_BUFFER_SIZE /\ 0 \in Nat
    BY <1>3
  <2>2. PICK z \in Nat : z = x + 2 /\ z + 0 < PAYLOAD_BUFFER_SIZE
    BY <2>1
  <2>3. /\ Wrapped(pay_head + z) \in PayIndex
        /\ (PAYLOAD_BUFFER_SIZE + Wrapped(pay_head + z) - pay_head) % PAYLOAD_BUFFER_SIZE = z
    BY <2>1, <2>2, WrappedIs
  <2> QED BY <1>5, <2>2, <2>3
<1>7. pay_head' = pay_head /\ pay_tail' = t /\ pay_length' = x + 2
  BY <1>4, <1>5, <1>6 DEF rollback, payLength
<1>8. t % 2 = 0
  <2>1. index % 2 = 0
    BY <1>4 DEF PairedOf
  <2>2. 1 < PAYLOAD_BUFFER_SIZE /\ 1 \in Nat
    BY <1>3, PaySize
  <2>3. ((index + 2 * 1) % PAYLOAD_BUFFER_SIZE) % 2 = 0
    BY <1>4, <2>1, <2>2, WrapsEven
  <2> QED BY <1>5, <2>3
<1>9. t \in Nat /\ x + 2 \in 0..PAYLOAD_BUFFER_SIZE
  BY <1>3, <1>6, PaySize DEF PayIndex
<1>10. pay_tail' = Wrapped(pay_head + Before(w, n, i + 1)) /\ pay_length' = Before(w, n, i + 1)
  BY <1>2, <1>5, <1>7
<1> QED BY <1>6, <1>7, <1>8, <1>9, <1>10

\* The rob is what is in flight first.
LEMMA RobFirst ==
  ASSUME Fetching
  PROVE  /\ Len(rob) \in Nat /\ Len(Fetched) \in Nat /\ Len(InFlight) \in Nat
         /\ InFlight \in Seq(Instruction)
         /\ Len(rob) <= Len(Fetched) /\ Len(Fetched) <= Len(InFlight)
         /\ \A j \in 1..Len(rob) : rob[j] = Fetched[j] /\ rob[j] = InFlight[j] /\ rob[j] \in Instruction
<1>1. StagesOf
  BY QueueIs DEF QueueOf
<1>2. PICK l \in Nat, m \in Nat, n \in Nat :
        l = Len(rob) /\ m = Len(Fetched) /\ n = Len(InFlight) /\ l <= m /\ m <= n
  <2>1. PICK l \in Nat, a \in Nat, f \in Nat, d \in Nat, u \in Nat :
          /\ l = Len(rob) /\ a = Len(RENAME2) /\ f = Len(FQ) /\ d = Len(DECODE) /\ u = Len(FETCH2)
    BY <1>1 DEF StagesOf, InFlightOf
  <2>2. Len(Fetched) = l + a + f + d /\ Len(InFlight) = Len(Fetched) + u
    BY <1>1, <2>1 DEF StagesOf, InFlightOf
  <2>3. l <= l + a + f + d /\ l + a + f + d <= l + a + f + d + u
    OBVIOUS
  <2>4. Len(Fetched) \in Nat /\ Len(InFlight) \in Nat /\ l <= Len(Fetched) /\ Len(Fetched) <= Len(InFlight)
    BY <2>2, <2>3
  <2> QED BY <2>1, <2>4
<1>3. ASSUME NEW j \in 1..l
      PROVE  rob[j] = Fetched[j] /\ rob[j] = InFlight[j] /\ rob[j] \in Instruction
  <2>1. Fetched[j] = rob[j] /\ j \in 1..m
    BY <1>1, <1>2 DEF StagesOf, InFlightOf
  <2>2. InFlight[j] = Fetched[j] /\ Fetched[j] \in Instruction
    BY <1>1, <1>2, <2>1 DEF StagesOf, InFlightOf
  <2> QED BY <2>1, <2>2
<1>4. InFlight \in Seq(Instruction)
  BY <1>1 DEF StagesOf, InFlightOf
<1> QED BY <1>2, <1>3, <1>4

\* What a misprediction makes of the branch queue and the log.
PushedBack(h, tag, taken) ==
  /\ bq' = [s \in DOMAIN bq |-> IF s = tag.idx THEN taken
                                ELSE s \in Slots(h, tag, BQ_SIZE) /\ bq[s]]
  /\ log' = Kept(Slots(h, tag, BQ_SIZE) \cup {tag.idx})

\* What is then in them.
BackTo(k, h, x, h2) ==
  /\ Logged(k + 1, h, bq', log', x)
  /\ After(x, Out(h, k + 1, bq')) = h2 /\ h2 \in History
  /\ bq' \in [0..(BQ_SIZE - 1) -> BOOLEAN] /\ log' \in [0..(BQ_SIZE - 1) -> History]

\* The branch queue is rolled back to the branch, which is pushed again.
LEMMA BranchRolledBack ==
  ASSUME NEW h \in Pointer(BQ_SIZE), NEW c \in Nat, NEW k \in 0..(c - 1), c <= BQ_SIZE,
         bq \in [0..(BQ_SIZE - 1) -> BOOLEAN], log \in [0..(BQ_SIZE - 1) -> History],
         NEW x \in History, Logged(c, h, bq, log, x),
         NEW tag, tag = At(h, k), NEW taken \in BOOLEAN, PushedBack(h, tag, taken)
  PROVE  BackTo(k, h, x, update_bhr(log[tag.idx], taken))
<1>0. PICK N \in Nat \ {0} : N = BQ_SIZE
  BY FetchUnitAssumption
<1>1. k \in Nat /\ k < N /\ \A i \in 0..k : i \in Nat /\ i < N
  BY <1>0
<1>2. /\ \A i \in 0..k : At(h, i).idx \in 0..(N - 1)
      /\ \A i \in 0..(k - 1) : At(h, i).idx # tag.idx
      /\ Slots(h, tag, N) = {At(h, i).idx : i \in 0..(k - 1)}
  <2>1. ASSUME NEW i \in 0..k PROVE At(h, i).idx \in 0..(N - 1)
    BY <1>0, <1>1, AtSlots
  <2>2. ASSUME NEW i \in 0..(k - 1) PROVE At(h, i).idx # At(h, k).idx
    <3>1. i \in Nat /\ i < N /\ i # k
      BY <1>1
    <3> QED BY <1>0, <1>1, <3>1, AtSlots
  <2>3. Slots(h, At(h, k), N) = {At(h, i).idx : i \in 0..(k - 1)}
    BY <1>0, <1>1, AtSlots
  <2> QED BY <2>1, <2>2, <2>3
<1>3. /\ bq' \in [0..(N - 1) -> BOOLEAN]
      /\ \A s \in 0..(N - 1) : bq'[s] = IF s = tag.idx THEN taken ELSE s \in Slots(h, tag, N) /\ bq[s]
  <2>1. DOMAIN bq = 0..(N - 1) /\ \A s \in 0..(N - 1) : bq[s] \in BOOLEAN
    BY <1>0
  <2>2. bq' = [s \in 0..(N - 1) |-> IF s = tag.idx THEN taken ELSE s \in Slots(h, tag, N) /\ bq[s]]
    BY <1>0, <2>1 DEF PushedBack
  <2>3. ASSUME NEW s \in 0..(N - 1) PROVE (s \in Slots(h, tag, N) /\ bq[s]) \in BOOLEAN
    OBVIOUS
  <2> QED BY <2>2, <2>3
<1>4. /\ log' \in [0..(N - 1) -> History]
      /\ \A s \in 0..(N - 1) : s \in Slots(h, tag, N) \cup {tag.idx} => log'[s] = log[s]
  <2>1. NoHistory \in History
    BY DEF NoHistory, History
  <2>2. DOMAIN log = 0..(N - 1) /\ \A s \in 0..(N - 1) : log[s] \in History
    BY <1>0
  <2>3. log' = [s \in 0..(N - 1) |->
                  IF s \in Slots(h, tag, N) \cup {tag.idx} THEN log[s] ELSE NoHistory]
    BY <1>0, <2>2 DEF Kept, PushedBack
  <2> QED BY <2>1, <2>2, <2>3
<1>5. SameOutcomes(k, h, bq, bq')
  <2> SUFFICES ASSUME NEW i \in 0..(k - 1) PROVE bq'[At(h, i).idx] = bq[At(h, i).idx]
    BY DEF SameOutcomes
  <2>1. At(h, i).idx \in 0..(N - 1) /\ At(h, i).idx # tag.idx /\ At(h, i).idx \in Slots(h, tag, N)
    BY <1>2
  <2>2. bq[At(h, i).idx] \in BOOLEAN
    BY <1>0, <2>1
  <2>3. bq'[At(h, i).idx] = (TRUE /\ bq[At(h, i).idx])
    BY <1>3, <2>1
  <2> QED BY <2>2, <2>3
<1>6. \A i \in 0..k : log'[At(h, i).idx] = log[At(h, i).idx]
  <2> SUFFICES ASSUME NEW i \in 0..k PROVE log'[At(h, i).idx] = log[At(h, i).idx]
    OBVIOUS
  <2>1. At(h, i).idx \in Slots(h, tag, N) \cup {tag.idx}
    <3>1. CASE i = k
      BY <3>1
    <3>2. CASE i # k
      <4>1. i \in 0..(k - 1)
        BY <3>2
      <4> QED BY <1>2, <4>1
    <3> QED BY <3>1, <3>2
  <2> QED BY <1>2, <1>4, <2>1
<1>7. bq' \in [0..(BQ_SIZE - 1) -> BOOLEAN]
  BY <1>0, <1>3
<1>8. /\ Logged(k + 1, h, bq', log', x)
      /\ After(x, Out(h, k + 1, bq')) = update_bhr(log[At(h, k).idx], bq'[At(h, k).idx])
  <2>1. PICK q \in [0..(BQ_SIZE - 1) -> BOOLEAN], q2 \in [0..(BQ_SIZE - 1) -> BOOLEAN],
             lg \in {log}, lg2 \in {log'} :
          q = bq /\ q2 = bq' /\ lg = log /\ lg2 = log'
    BY <1>7
  <2>2. /\ SameOutcomes(k, h, q, q2) /\ Logged(c, h, q, lg, x)
        /\ SameOutcomes(k + 1, h, lg, lg2)
    <3>1. \A i \in 0..((k + 1) - 1) : i \in 0..k
      BY <1>1
    <3> QED BY <1>5, <1>6, <2>1, <3>1 DEF SameOutcomes
  <2>3. LoggedUpTo(k, h, q2, lg, lg2, x)
    BY <2>2, LogCut
  <2> QED BY <2>1, <2>3 DEF LoggedUpTo
<1>9. bq'[tag.idx] = taken /\ log[tag.idx] \in History
  <2>1. tag.idx \in 0..(N - 1)
    BY <1>1, <1>2
  <2> QED BY <1>0, <1>3, <2>1
<1>10. update_bhr(log[tag.idx], taken) \in History
  BY <1>9, AfterType, EmptySeq
<1> QED BY <1>0, <1>3, <1>4, <1>8, <1>9, <1>10 DEF BackTo

\* What follows a mispredicted branch is squashed.
LEMMA MispredictStep ==
  ASSUME Fetching, NEW i \in 1..Len(rob), Mispredict(i)
  PROVE  Fetching'
<1>1. /\ TypeOK /\ rob \in Seq(Instruction) /\ pay_head \in PayIndex
      /\ bq_head \in Pointer(BQ_SIZE) /\ base \in History
      /\ bq \in [0..(BQ_SIZE - 1) -> BOOLEAN] /\ log \in [0..(BQ_SIZE - 1) -> History]
  BY DEF Fetching, TypeOK
<1>2. PICK l \in Nat, m \in Nat, n \in Nat :
        /\ l = Len(rob) /\ m = Len(Fetched) /\ n = Len(InFlight) /\ l <= m /\ m <= n
        /\ i \in 1..l /\ i \in 1..m /\ i \in 1..n /\ i \in 0..m /\ i \in 0..n
  BY RobFirst
<1>3. \A j \in 1..l : rob[j] = Fetched[j] /\ rob[j] = InFlight[j] /\ rob[j] \in Instruction
  BY <1>2, RobFirst
<1>4. /\ rob[i].kind = "cond" /\ rob[i].branch /\ rob[i].half = "whole"
      /\ i \in BranchesOf(Fetched, m)
  <2>1. FormedOf(Fetched, m)
    BY <1>2 DEF Fetching, WellFormed
  <2>2. rob[i].kind = "cond" /\ rob[i] = Fetched[i]
    BY <1>2, <1>3 DEF Mispredict
  <2>3. rob[i].branch /\ rob[i].half = "whole"
    BY <1>2, <2>1, <2>2 DEF FormedOf
  <2> QED BY <1>2, <2>2, <2>3 DEF BranchesOf
<1>5. /\ rob' = [SubSeq(rob, 1, i) EXCEPT ![i].resolved = TRUE]
      /\ RENAME2' = <<>> /\ FQ' = <<>> /\ DECODE' = <<>> /\ FETCH2' = <<>>
      /\ fetch2_bhr' = NoHistory /\ pay_checkpoint' = 0 /\ fetch_active' = TRUE
      /\ bq_head' = bq_head /\ base' = base /\ rollback(rob[i].index)
  BY DEF Mispredict, EmptyFrontEnd, Fetch2Done
<1>6. PICK r \in Seq(Instruction) : r = rob' /\ Len(r) = i /\ Alike(rob, r, i)
  <2>1. PICK u : u = SubSeq(rob, 1, i)
    OBVIOUS
  <2>2. u \in Seq(Instruction) /\ Len(u) = i /\ \A j \in 1..i : u[j] = rob[j]
    <3>1. 1 \in Int /\ i \in Int /\ 1 <= i /\ i - 1 + 1 = i /\ \A k \in 1..i : k \in 1..l /\ 1 + k - 1 = k
      BY <1>2
    <3>2. \A k \in 1..i : rob[k] \in Instruction
      BY <1>3, <3>1
    <3>3. /\ SubSeq(rob, 1, i) \in Seq(Instruction)
          /\ Len(SubSeq(rob, 1, i)) = IF 1 <= i THEN i - 1 + 1 ELSE 0
          /\ \A k \in 1..(i - 1 + 1) : SubSeq(rob, 1, i)[k] = rob[1 + k - 1]
      BY <3>1, <3>2, SubSeqProperties
    <3> QED BY <2>1, <3>1, <3>3
  <2>3. PICK x : x = [u[i] EXCEPT !.resolved = TRUE]
    OBVIOUS
  <2>4. i \in 1..i /\ u[i] = rob[i] /\ rob[i] \in Instruction
    BY <1>2, <1>3, <2>2
  <2>5. /\ x \in Instruction /\ x.kind = rob[i].kind /\ x.branch = rob[i].branch
        /\ x.taken = rob[i].taken /\ x.index = rob[i].index /\ x.tag = rob[i].tag
        /\ x.half = rob[i].half
    BY <2>3, <2>4 DEF Instruction
  <2>6. rob' = [u EXCEPT ![i] = x]
    BY <1>5, <2>1, <2>3
  <2>7. i \in 1..Len(u)
    BY <2>2, <2>4
  <2>8. /\ rob' \in Seq(Instruction) /\ Len(rob') = Len(u)
        /\ \A j \in 1..Len(u) : rob'[j] = IF j = i THEN x ELSE u[j]
    BY <2>2, <2>5, <2>6, <2>7, ExceptSeq
  <2>9. Alike(rob, rob', i)
    BY <2>2, <2>5, <2>8 DEF Alike
  <2> QED BY <2>2, <2>8, <2>9
<1>7. Fetched' = r /\ InFlight' = r
  BY <1>5, <1>6, EmptiedStages
<1>8. Alike(Fetched, r, i) /\ Alike(InFlight, r, i)
  <2>1. \A j \in 1..i : j \in 1..l
    BY <1>2
  <2>2. /\ \A j \in 1..i : rob[j] = Fetched[j]
        /\ \A j \in 1..i : rob[j] = InFlight[j]
    BY <1>3, <2>1
  <2> QED BY <1>6, <2>2, AlikeToo
<1>9. /\ PayOf(InFlight, n, pay_head, pay_tail, pay_length) /\ PairedOf(InFlight, n, pay_tail)
      /\ TagsOf(Fetched, m, bq_head, bq_tail)
  BY <1>2 DEF Fetching, PayHolds, TagsFollow
<1>10. PICK e : /\ pay_head' = pay_head /\ pay_tail' = Wrapped(pay_head + e) /\ pay_length' = e
                /\ e = Before(InFlight, n, i + 1)
                /\ pay_tail' \in PayIndex /\ pay_length' \in 0..PAYLOAD_BUFFER_SIZE
                /\ pay_tail' \in Nat /\ pay_tail' % 2 = 0
  <2>1. InFlight[i].half = "whole" /\ rollback(InFlight[i].index)
    BY <1>2, <1>3, <1>4, <1>5
  <2> QED BY <1>1, <1>2, <1>9, <2>1, RolledBackTo
<1>11. PayHolds'
  <2>1. \A j \in 1..i : r[j].half = InFlight[j].half /\ r[j].index = InFlight[j].index
    BY <1>8 DEF Alike
  <2>2. PayOf(r, i, pay_head, Wrapped(pay_head + e), e)
    BY <1>1, <1>2, <1>9, <1>10, <2>1, PayCut
  <2>3. PairedOf(r, i, pay_tail')
    <3>1. \A k \in 1..i : k \in 1..n
      BY <1>2
    <3> QED BY <1>9, <1>10, <2>1, <3>1 DEF PairedOf
  <2> QED BY <1>6, <1>7, <1>10, <2>2, <2>3 DEF PayHolds
<1>12. PICK c \in Nat : c = InQueue /\ c = Cardinality(BranchesOf(Fetched, m)) /\ c <= BQ_SIZE
  BY <1>2, QueueIs DEF QueueOf, InQueue
<1>13. PICK k \in 0..(c - 1) : k = Count(BranchesOf(Fetched, m), i)
                             /\ k + 1 = Count(BranchesOf(Fetched, m), i + 1)
  <2>1. Count(BranchesOf(Fetched, m), i) \in 0..(Cardinality(BranchesOf(Fetched, m)) - 1)
    BY <1>4, BranchesType
  <2>2. Fetched[i].branch
    BY <1>2, <1>3, <1>4
  <2>3. Count(BranchesOf(Fetched, m), i + 1) = Count(BranchesOf(Fetched, m), i) + 1
    BY <1>2, <2>2, BranchesType
  <2> QED BY <1>12, <2>1, <2>3
<1>14. PICK tag : tag = rob[i].tag /\ tag = At(bq_head, k)
  <2>1. Fetched[i].tag = At(bq_head, k)
    BY <1>4, <1>9, <1>13 DEF TagsOf
  <2> QED BY <1>2, <1>3, <2>1
<1>15. bq_tail' = At(bq_head, k + 1) /\ bq_tail' \in Pointer(BQ_SIZE)
  <2>1. bq_tail' = Advance(tag, BQ_SIZE)
    BY <1>14 DEF Mispredict, PushedAgain
  <2>2. k \in Nat /\ 0 \in Nat /\ k + 0 <= BQ_SIZE /\ k < BQ_SIZE /\ (k + 1) + 0 <= BQ_SIZE /\ k + 1 \in Nat
    BY <1>12, FetchUnitAssumption
  <2>3. Advance(At(bq_head, k), BQ_SIZE) = At(bq_head, k + 1)
    BY <1>1, <2>2, AtIs
  <2>4. At(bq_head, k + 1) \in Pointer(BQ_SIZE)
    BY <1>1, <2>2, AtIs
  <2> QED BY <1>14, <2>1, <2>3, <2>4
<1>16. /\ TagsOf(r, i, bq_head, At(bq_head, k + 1))
       /\ Cardinality(BranchesOf(r, i)) = k + 1
  <2>1. SameBranches(Fetched, r, i)
    BY <1>8 DEF Alike, SameBranches
  <2>2. TagsOf(r, i, bq_head, At(bq_head, Count(BranchesOf(Fetched, m), i + 1)))
    BY <1>2, <1>9, <2>1, TagCut
  <2>3. Cardinality(BranchesOf(r, i)) = Count(BranchesOf(Fetched, m), i + 1)
    <3>1. PICK w : w = Fetched /\ SameBranches(w, r, i)
      BY <2>1
    <3>2. m \in Nat /\ i \in 0..m
      BY <1>2
    <3>3. /\ \A j \in 1..(i + 1) : Count(BranchesOf(r, i), j) = Count(BranchesOf(w, m), j)
          /\ Cardinality(BranchesOf(r, i)) = Count(BranchesOf(w, m), i + 1)
      BY <3>1, <3>2, BranchesSame
    <3> QED BY <3>1, <3>3
  <2> QED BY <1>13, <2>2, <2>3
<1>17. TagsFollow'
  BY <1>5, <1>6, <1>7, <1>15, <1>16 DEF TagsFollow
<1>18. PICK taken \in BOOLEAN :
         PushedBack(bq_head, tag, taken) /\ bhr' = update_bhr(log[tag.idx], taken)
  BY <1>14 DEF Mispredict, PushedBack
<1>19. /\ Logged(k + 1, bq_head, bq', log', base)
       /\ After(base, Out(bq_head, k + 1, bq')) = bhr'
       /\ bq' \in [0..(BQ_SIZE - 1) -> BOOLEAN] /\ log' \in [0..(BQ_SIZE - 1) -> History]
       /\ bhr' \in History
  <2>1. Logged(c, bq_head, bq, log, base)
    BY <1>12 DEF Fetching, OnPath
  <2>2. BackTo(k, bq_head, base, update_bhr(log[tag.idx], taken))
    BY <1>1, <1>12, <1>14, <1>18, <2>1, BranchRolledBack
  <2> QED BY <1>18, <2>2 DEF BackTo
<1>20. OnPath'
  <2>1. InQueue' = k + 1
    BY <1>6, <1>7, <1>16 DEF InQueue
  <2>2. Path' = bhr'
    BY <1>5, <1>19, <2>1 DEF Path
  <2>3. After(Path', Predictions(FETCH2')) = bhr'
    BY <1>5, <1>19, <2>2, PredictionsNone, AfterType, EmptySeq
  <2> QED BY <1>5, <1>19, <2>1, <2>3 DEF OnPath
<1>21. TypeOK'
  <2>1. Len(r) <= rob_size
    BY <1>1, <1>2, <1>6, FetchUnitAssumption DEF TypeOK
  <2>2. NoHistory \in History /\ 0 \in PayIndex
    BY PaySize DEF NoHistory, History, PayIndex
  <2>3. Len(<<>>) = 0 /\ <<>> \in Seq(Instruction)
    OBVIOUS
  <2>4. /\ 0 <= instr_per_cycle /\ 0 <= fq_size /\ 0 <= dispatch_width
    BY FetchUnitAssumption
  <2> QED BY <1>1, <1>5, <1>6, <1>10, <1>15, <1>19, <2>1, <2>2, <2>3, <2>4 DEF TypeOK
<1>22. WellFormed'
  <2>1. FormedOf(r, i)
    BY <1>2, <1>8 DEF Fetching, WellFormed, FormedOf, Alike
  <2>2. Len(<<>>) = 0 /\ 1..0 = {}
    OBVIOUS
  <2> QED BY <1>5, <1>6, <1>7, <2>1, <2>2 DEF WellFormed, WholeOf, EndsAtException
<1>23. SerializersAreAlone'
  <2>1. ASSUME NEW j \in 1..i, r[j].kind \in {"serial", "except"} PROVE FALSE
    <3>1. Fetched[j].kind \in {"serial", "except"} /\ j \in 1..m
      BY <1>2, <1>8, <2>1 DEF Alike
    <3>2. j = n
      BY <1>2, <3>1 DEF Fetching, SerializersAreAlone
    <3>3. j = i
      BY <1>2, <3>2
    <3> QED BY <1>2, <1>3, <1>4, <3>1, <3>3
  <2> QED BY <1>6, <1>7, <2>1 DEF SerializersAreAlone
<1>24. Checkpointed'
  BY <1>5 DEF Checkpointed
<1> QED BY <1>11, <1>17, <1>20, <1>21, <1>22, <1>23, <1>24 DEF Fetching

-----------------------------------------------------------------------------
(* Retirement *)

\* All but the first of n instructions.
OneOn(w, w2, n) ==
  /\ w2 \in Seq(Instruction) /\ Len(w2) = n - 1
  /\ \A j \in 1..(n - 1) : w2[j] = w[j + 1]

\* They still are with the same behind them.
LEMMA OneOnJoined ==
  ASSUME NEW u \in Seq(Instruction), NEW u2, Len(u) > 0, OneOn(u, u2, Len(u)),
         NEW v \in Seq(Instruction)
  PROVE  OneOn(u \o v, u2 \o v, Len(u \o v))
<1>1. PICK m \in Nat \ {0}, n \in Nat : m = Len(u) /\ n = Len(v)
  <2>1. Len(u) \in Nat /\ Len(v) \in Nat
    BY LenProperties
  <2> QED BY <2>1
<1>2. u2 \in Seq(Instruction) /\ Len(u2) = m - 1 /\ \A j \in 1..(m - 1) : u2[j] = u[j + 1]
  BY <1>1 DEF OneOn
<1>3. PICK w, w2 : w = u \o v /\ w2 = u2 \o v
  OBVIOUS
<1>4. Behind(w, u, m, v, n)
  BY <1>1, <1>3, BehindEach
<1>5. Behind(w2, u2, m - 1, v, n)
  BY <1>1, <1>2, <1>3, BehindEach
<1>6. ASSUME NEW j \in 1..(m + n - 1) PROVE w2[j] = w[j + 1]
  <2>1. CASE j \in 1..(m - 1)
    <3>1. j + 1 \in 1..m
      BY <2>1
    <3>2. w2[j] = u2[j] /\ w[j + 1] = u[j + 1]
      BY <1>4, <1>5, <2>1, <3>1 DEF Behind
    <3> QED BY <1>2, <2>1, <3>2
  <2>2. CASE j \notin 1..(m - 1)
    <3>1. PICK k \in 1..n : j = (m - 1) + k /\ j + 1 = m + k
      <4>1. j - (m - 1) \in 1..n /\ j = (m - 1) + (j - (m - 1)) /\ j + 1 = m + (j - (m - 1))
        BY <2>2
      <4> QED BY <4>1
    <3>2. w2[(m - 1) + k] = v[k] /\ w[m + k] = v[k]
      BY <1>4, <1>5 DEF Behind
    <3> QED BY <3>1, <3>2
  <2> QED BY <2>1, <2>2
<1>7. w2 \in Seq(Instruction) /\ Len(w2) = (m - 1) + n /\ Len(w) = m + n
  BY <1>4, <1>5 DEF Behind
<1>8. (m - 1) + n = m + n - 1
  BY <1>1
<1> QED BY <1>3, <1>6, <1>7, <1>8 DEF OneOn

\* The oldest instruction leaves what is in flight.
LEMMA OldestLeaves ==
  ASSUME Fetching, rob # <<>>, rob' = Tail(rob),
         UNCHANGED <<RENAME2, FQ, DECODE>>
  PROVE  /\ OneOn(rob, rob', Len(rob)) /\ OneOn(Fetched, Fetched', Len(Fetched))
         /\ FETCH2' = FETCH2 => OneOn(InFlight, InFlight', Len(InFlight))
         /\ 1 \in 1..Len(rob) /\ 1 \in 1..Len(Fetched) /\ 1 \in 1..Len(InFlight)
         /\ Head(rob) = Fetched[1] /\ Head(rob) = InFlight[1] /\ Head(rob) \in Instruction
<1>1. /\ rob \in Seq(Instruction) /\ RENAME2 \in Seq(Instruction)
      /\ FQ \in Seq(Instruction) /\ DECODE \in Seq(Instruction) /\ FETCH2 \in Seq(Instruction)
  BY DEF Fetching, TypeOK
<1>2. PICK l \in Nat, m \in Nat, n \in Nat :
        l = Len(rob) /\ m = Len(Fetched) /\ n = Len(InFlight) /\ l <= m /\ m <= n
  BY RobFirst
<1>3. l # 0 /\ 1 \in 1..l /\ 1 \in 1..m /\ 1 \in 1..n
  <2>1. l # 0
    BY <1>1, <1>2, EmptySeq
  <2> QED BY <1>2, <2>1
<1>4. Head(rob) = Fetched[1] /\ Head(rob) = InFlight[1] /\ Head(rob) \in Instruction
  <2>1. rob[1] = Fetched[1] /\ rob[1] = InFlight[1] /\ rob[1] \in Instruction
    BY <1>2, <1>3, RobFirst
  <2>2. Head(rob) = rob[1]
    BY <1>1
  <2> QED BY <2>1, <2>2
<1>5. OneOn(rob, rob', l)
  <2>1. /\ Tail(rob) \in Seq(Instruction) /\ Len(Tail(rob)) = Len(rob) - 1
        /\ \A i \in 1..Len(Tail(rob)) : Tail(rob)[i] = rob[i + 1]
    BY <1>1, HeadTailProperties
  <2> QED BY <1>2, <2>1 DEF OneOn
<1>6. PICK u1 \in Seq(Instruction), u2 \in Seq(Instruction), u3 \in Seq(Instruction) :
        u1 = rob \o RENAME2 /\ u2 = u1 \o FQ /\ u3 = u2 \o DECODE
  BY <1>1, ConcatProperties
<1>7. Len(rob) > 0 /\ Len(u1) > 0 /\ Len(u2) > 0 /\ Len(u3) > 0
  <2>1. Len(rob) \in Nat /\ Len(RENAME2) \in Nat /\ Len(FQ) \in Nat /\ Len(DECODE) \in Nat
    BY <1>1, LenProperties
  <2>2. Len(u1) = Len(rob) + Len(RENAME2) /\ Len(u2) = Len(u1) + Len(FQ) /\ Len(u3) = Len(u2) + Len(DECODE)
    BY <1>1, <1>6, ConcatProperties
  <2>3. Len(rob) > 0
    BY <1>2, <1>3
  <2>4. Len(u1) > 0 /\ Len(u1) \in Nat
    BY <2>1, <2>2, <2>3
  <2>5. Len(u2) > 0 /\ Len(u2) \in Nat
    BY <2>1, <2>2, <2>4
  <2> QED BY <2>1, <2>2, <2>3, <2>4, <2>5
<1>8. OneOn(u1, rob' \o RENAME2, Len(u1))
  BY <1>1, <1>2, <1>5, <1>6, <1>7, OneOnJoined
<1>9. OneOn(u2, (rob' \o RENAME2) \o FQ, Len(u2))
  BY <1>1, <1>6, <1>7, <1>8, OneOnJoined
<1>10. OneOn(u3, ((rob' \o RENAME2) \o FQ) \o DECODE, Len(u3))
  BY <1>1, <1>6, <1>7, <1>9, OneOnJoined
<1>11. u3 = Fetched /\ ((rob' \o RENAME2) \o FQ) \o DECODE = Fetched'
  BY <1>6 DEF Fetched
<1>12. OneOn(u3 \o FETCH2, (((rob' \o RENAME2) \o FQ) \o DECODE) \o FETCH2, Len(u3 \o FETCH2))
  BY <1>1, <1>6, <1>7, <1>10, OneOnJoined
<1>13. FETCH2' = FETCH2 => OneOn(InFlight, InFlight', Len(InFlight))
  BY <1>11, <1>12 DEF InFlight
<1> QED BY <1>2, <1>3, <1>4, <1>5, <1>10, <1>11, <1>13

\* Its entries leave PAY at the head.
LEMMA PayPopped ==
  ASSUME Fetching, rob # <<>>, Head(rob) = InFlight[1], NEW w2, Pop, pay_tail' = pay_tail,
         OneOn(InFlight, w2, Len(InFlight)), 1 \in 1..Len(InFlight)
  PROVE  /\ PayOf(w2, Len(w2), pay_head', pay_tail', pay_length') /\ PairedOf(w2, Len(w2), pay_tail')
         /\ pay_head' \in PayIndex /\ pay_tail' \in PayIndex /\ pay_length' \in 0..PAYLOAD_BUFFER_SIZE
<1>1. PICK n \in Nat \ {0}, w \in Seq(Instruction) : w = InFlight /\ n = Len(w)
  BY RobFirst
<1>2. w2 \in Seq(Instruction) /\ Len(w2) = n - 1 /\ \A j \in 1..(n - 1) : w2[j] = w[j + 1]
  BY <1>1 DEF OneOn
<1>3. /\ PayOf(w, n, pay_head, pay_tail, pay_length) /\ PairedOf(w, n, pay_tail)
      /\ pay_head \in PayIndex /\ pay_tail \in PayIndex
  BY <1>1 DEF Fetching, PayHolds, TypeOK
<1>4. /\ pay_head' = (pay_head + Entries(w[1])) % PAYLOAD_BUFFER_SIZE
      /\ pay_length' = pay_length - Entries(w[1])
  BY <1>1 DEF Pop
<1>5. PICK h2, l2 : h2 = pay_head' /\ l2 = pay_length'
  OBVIOUS
<1>6. PayOf(w2, n - 1, h2, pay_tail, l2) /\ h2 \in PayIndex
  BY <1>2, <1>3, <1>4, <1>5, PayPop
<1>7. PairedOf(w2, n - 1, pay_tail)
  <2>1. ASSUME NEW j \in 1..(n - 1), w2[j].half # "lower"
        PROVE  w2[j].index % 2 = 0
    <3>1. j + 1 \in 1..n /\ w2[j] = w[j + 1]
      BY <1>2
    <3>2. w[j + 1].half # "lower"
      BY <2>1, <3>1
    <3>3. w[j + 1].index % 2 = 0
      BY <1>3, <3>1, <3>2 DEF PairedOf
    <3> QED BY <3>1, <3>3
  <2> QED BY <1>3, <2>1 DEF PairedOf
<1>8. l2 \in 0..PAYLOAD_BUFFER_SIZE
  <2>1. n - 1 \in Nat /\ n - 1 + 1 \in 1..(n - 1 + 1)
    OBVIOUS
  <2>2. Before(w2, n - 1, n - 1 + 1) \in Nat
    BY <2>1, BeforeType
  <2>3. l2 = Before(w2, n - 1, n - 1 + 1) /\ l2 <= 2 * MaxInFlight
    BY <1>6 DEF PayOf
  <2> QED BY <2>2, <2>3, PaySize
<1> QED BY <1>2, <1>3, <1>5, <1>6, <1>7, <1>8

\* The oldest branch leaves the branch queue: the history of the path is the same.
LEMMA BranchCommits ==
  ASSUME Fetching, NEW c \in Nat, c = InQueue, c >= 1,
         bq_head' = Advance(bq_head, BQ_SIZE), base' = update_bhr(base, bq[bq_head.idx]),
         bq' = [bq EXCEPT ![bq_head.idx] = FALSE],
         log' = Kept(DOMAIN log \ {bq_head.idx})
  PROVE  /\ LoggedBehind(c, bq_head, bq', log', base', Path)
         /\ bq_head' \in Pointer(BQ_SIZE)
         /\ bq' \in [0..(BQ_SIZE - 1) -> BOOLEAN] /\ log' \in [0..(BQ_SIZE - 1) -> History]
<1>1. /\ bq_head \in Pointer(BQ_SIZE) /\ base \in History
      /\ bq \in [0..(BQ_SIZE - 1) -> BOOLEAN] /\ log \in [0..(BQ_SIZE - 1) -> History]
  BY DEF Fetching, TypeOK
<1>2. c <= BQ_SIZE /\ Logged(c, bq_head, bq, log, base)
  BY QueueIs DEF QueueOf, Fetching, OnPath
<1>3. PICK h \in Pointer(BQ_SIZE), N \in Nat \ {0} : h = bq_head /\ N = BQ_SIZE
  BY <1>1, FetchUnitAssumption
<1>4. At(h, 0) = h /\ Advance(h, BQ_SIZE) \in Pointer(BQ_SIZE)
  <2>1. 0 \in Nat /\ 0 + 0 <= BQ_SIZE /\ 0 < BQ_SIZE
    BY <1>3
  <2> QED BY <2>1, AtIs
<1>5. \A i \in 1..(c - 1) : At(h, i).idx \in 0..(N - 1) /\ At(h, i).idx # h.idx
  <2> SUFFICES ASSUME NEW i \in 1..(c - 1)
               PROVE  At(h, i).idx \in 0..(N - 1) /\ At(h, i).idx # h.idx
    OBVIOUS
  <2>1. i \in Nat /\ i < BQ_SIZE /\ 0 \in Nat /\ 0 < BQ_SIZE /\ i # 0
    BY <1>2, <1>3
  <2>2. At(h, i).idx \in 0..(BQ_SIZE - 1)
    BY <2>1, AtSlots
  <2>3. At(h, 0).idx = At(h, i).idx => 0 = i
    BY <2>1, AtSlots
  <2> QED BY <1>3, <1>4, <2>1, <2>2, <2>3
<1>6. PICK q2 \in [0..(BQ_SIZE - 1) -> BOOLEAN], lg2 \in [0..(BQ_SIZE - 1) -> History] :
        q2 = bq' /\ lg2 = log'
  <2>1. bq' \in [0..(BQ_SIZE - 1) -> BOOLEAN]
    BY <1>1
  <2>2. NoHistory \in History
    BY DEF NoHistory, History
  <2>3. log' \in [0..(BQ_SIZE - 1) -> History]
    BY <1>1, <2>2 DEF Kept
  <2> QED BY <2>1, <2>3
<1>7. LaterSame(c, h, bq, q2)
  BY <1>1, <1>3, <1>5, <1>6 DEF LaterSame
<1>8. LaterSame(c, h, log, lg2)
  BY <1>1, <1>3, <1>5, <1>6 DEF LaterSame, Kept
<1>9. LoggedBehind(c, h, q2, lg2, update_bhr(base, bq[h.idx]), After(base, Out(h, c, bq)))
  <2>1. c > 0 /\ Logged(c, h, bq, log, base)
    BY <1>2, <1>3
  <2> QED BY <1>1, <1>2, <1>7, <1>8, <2>1, LogPop
<1> QED BY <1>3, <1>4, <1>6, <1>9 DEF Path

\* The oldest instruction retires, a branch out of the branch queue.
LEMMA RetireStep ==
  ASSUME Fetching, Retire
  PROVE  Fetching'
<1>1. /\ TypeOK /\ rob \in Seq(Instruction) /\ bq_head \in Pointer(BQ_SIZE)
  BY DEF Fetching, TypeOK
<1>2. /\ rob # <<>> /\ rob' = Tail(rob) /\ Pop
      /\ UNCHANGED <<fetch_active, FETCH2, DECODE, FQ, RENAME2, pay_tail, bq_tail, bhr,
                     fetch2_bhr, pay_checkpoint>>
  BY DEF Retire, fetch2Vars
<1>3. /\ OneOn(rob, rob', Len(rob)) /\ OneOn(Fetched, Fetched', Len(Fetched))
      /\ OneOn(InFlight, InFlight', Len(InFlight))
      /\ 1 \in 1..Len(Fetched) /\ 1 \in 1..Len(InFlight)
      /\ Head(rob) = Fetched[1] /\ Head(rob) = InFlight[1]
  BY <1>2, OldestLeaves
<1>4. PICK m \in Nat \ {0}, n \in Nat \ {0} : m = Len(Fetched) /\ n = Len(InFlight)
  BY <1>3, RobFirst
<1>5. PICK r, w2, u2 : r = rob' /\ w2 = InFlight' /\ u2 = Fetched'
  OBVIOUS
<1>6. /\ Len(u2) = m - 1 /\ \A j \in 1..(m - 1) : u2[j] = Fetched[j + 1]
      /\ Len(w2) = n - 1
      /\ r \in Seq(Instruction) /\ Len(r) = Len(rob) - 1
  BY <1>3, <1>4, <1>5 DEF OneOn
<1>7. \A j \in 1..(m - 1) : j + 1 \in 1..m
  OBVIOUS
<1>8. /\ PayOf(w2, Len(w2), pay_head', pay_tail', pay_length') /\ PairedOf(w2, Len(w2), pay_tail')
      /\ pay_head' \in PayIndex /\ pay_tail' \in PayIndex /\ pay_length' \in 0..PAYLOAD_BUFFER_SIZE
  BY <1>2, <1>3, <1>5, PayPopped
<1>9. PayHolds'
  BY <1>5, <1>8 DEF PayHolds
<1>10. PICK c \in Nat : c = InQueue /\ c = Cardinality(BranchesOf(Fetched, m)) /\ c <= BQ_SIZE
  BY <1>4, QueueIs DEF QueueOf, InQueue
<1>11. /\ TagsOf(Fetched, m, bq_head, bq_tail)
       /\ Fetched[1].branch <=> Fetched[1].kind = "cond"
  BY <1>3, <1>4 DEF Fetching, TagsFollow, WellFormed, FormedOf
<1>12. /\ Cardinality(BranchesOf(u2, m - 1)) = c - (IF Fetched[1].branch THEN 1 ELSE 0)
       /\ IF Fetched[1].branch
          THEN TagsOf(u2, m - 1, Advance(bq_head, BQ_SIZE), bq_tail) /\ c >= 1
          ELSE TagsOf(u2, m - 1, bq_head, bq_tail)
  <2>1. PICK w, h, t : w = Fetched /\ h = bq_head /\ t = bq_tail /\ h \in Pointer(BQ_SIZE)
    BY <1>1
  <2>2. /\ TagsOf(w, m, h, t) /\ \A j \in 1..(m - 1) : u2[j] = w[j + 1]
        /\ Cardinality(BranchesOf(w, m)) <= BQ_SIZE
    BY <1>6, <1>10, <1>11, <2>1
  <2>3. TagsBehind(w, m, u2, h, t)
    BY <2>1, <2>2, TagPop
  <2> QED BY <1>10, <2>1, <2>3 DEF TagsBehind
<1>13. WellFormed'
  <2>1. FormedOf(u2, m - 1)
    BY <1>4, <1>6, <1>7 DEF Fetching, WellFormed, FormedOf
  <2> QED BY <1>2, <1>5, <1>6, <2>1 DEF Fetching, WellFormed
<1>14. SerializersAreAlone'
  <2>1. ASSUME NEW j \in 1..(m - 1), u2[j].kind \in {"serial", "except"}
        PROVE  j = n - 1 /\ ~fetch_active
    <3>1. Fetched[j + 1].kind \in {"serial", "except"} /\ j + 1 \in 1..m
      BY <1>6, <1>7, <2>1
    <3>2. j + 1 = n /\ ~fetch_active
      BY <1>4, <3>1 DEF Fetching, SerializersAreAlone
    <3> QED BY <3>2
  <2> QED BY <1>2, <1>5, <1>6, <2>1 DEF SerializersAreAlone
<1>15. Checkpointed'
  BY <1>2 DEF Fetching, Checkpointed
<1>16. Len(r) <= rob_size
  <2>1. Len(rob) \in Nat /\ Len(rob) <= rob_size /\ rob_size \in Nat
    BY <1>1, RobFirst, FetchUnitAssumption DEF TypeOK
  <2> QED BY <1>6, <2>1
<1>17. CASE Fetched[1].branch
  <2>1. Head(rob).kind = "cond"
    BY <1>3, <1>11, <1>17
  <2>2. /\ bq_head' = Advance(bq_head, BQ_SIZE) /\ base' = update_bhr(base, bq[bq_head.idx])
        /\ bq' = [bq EXCEPT ![bq_head.idx] = FALSE]
        /\ log' = Kept(DOMAIN log \ {bq_head.idx})
    BY <2>1 DEF Retire
  <2>3. c >= 1 /\ TagsOf(u2, m - 1, bq_head', bq_tail) /\ Cardinality(BranchesOf(u2, m - 1)) = c - 1
    BY <1>12, <1>17, <2>2
  <2>4. /\ LoggedBehind(c, bq_head, bq', log', base', Path)
        /\ bq_head' \in Pointer(BQ_SIZE)
        /\ bq' \in [0..(BQ_SIZE - 1) -> BOOLEAN] /\ log' \in [0..(BQ_SIZE - 1) -> History]
    BY <1>10, <2>2, <2>3, BranchCommits
  <2>5. TagsFollow'
    BY <1>2, <1>5, <1>6, <2>3 DEF TagsFollow
  <2>6. InQueue' = c - 1
    BY <1>5, <1>6, <2>3 DEF InQueue
  <2>7. /\ base' \in History /\ Logged(c - 1, bq_head', bq', log', base')
        /\ After(base', Out(bq_head', c - 1, bq')) = Path
    BY <2>2, <2>4 DEF LoggedBehind
  <2>8. Path' = Path
    BY <2>6, <2>7 DEF Path
  <2>9. OnPath'
    BY <1>2, <2>6, <2>7, <2>8 DEF Fetching, OnPath
  <2>10. TypeOK'
    BY <1>1, <1>2, <1>5, <1>6, <1>8, <1>16, <2>4, <2>7 DEF TypeOK
  <2> QED BY <1>9, <1>13, <1>14, <1>15, <2>5, <2>9, <2>10 DEF Fetching
<1>18. CASE ~Fetched[1].branch
  <2>1. Head(rob).kind # "cond"
    BY <1>3, <1>11, <1>18
  <2>2. UNCHANGED <<bq_head, base, bq, log>>
    BY <2>1 DEF Retire
  <2>3. TagsOf(u2, m - 1, bq_head, bq_tail) /\ Cardinality(BranchesOf(u2, m - 1)) = c
    BY <1>12, <1>18
  <2>4. TagsFollow'
    BY <1>2, <1>5, <1>6, <2>2, <2>3 DEF TagsFollow
  <2>5. InQueue' = InQueue
    BY <1>5, <1>6, <1>10, <2>3 DEF InQueue
  <2>6. OnPath'
    BY <1>2, <2>2, <2>5 DEF Fetching, OnPath, Path
  <2>7. TypeOK'
    BY <1>1, <1>2, <1>5, <1>6, <1>8, <1>16, <2>2 DEF TypeOK
  <2> QED BY <1>9, <1>13, <1>14, <1>15, <2>4, <2>6, <2>7 DEF Fetching
<1> QED BY <1>17, <1>18

\* A flush leaves the branch queue empty and the history it restores.
LEMMA FlushedQueue ==
  ASSUME Fetching, flush, Len(Fetched') = 0, FETCH2' = <<>>
  PROVE  /\ TagsFollow' /\ OnPath'
         /\ bq_head' \in Pointer(BQ_SIZE) /\ bq_tail' \in Pointer(BQ_SIZE)
         /\ bq' \in [0..(BQ_SIZE - 1) -> BOOLEAN] /\ log' \in [0..(BQ_SIZE - 1) -> History]
         /\ bhr' \in History /\ base' \in History /\ fetch_active' = TRUE
<1>1. /\ bq_head \in Pointer(BQ_SIZE)
      /\ bq \in [0..(BQ_SIZE - 1) -> BOOLEAN] /\ log \in [0..(BQ_SIZE - 1) -> History]
  BY DEF Fetching, TypeOK
<1>2. bhr' \in History
  <2>1. bq_head.idx \in 0..(BQ_SIZE - 1)
    BY <1>1 DEF Pointer
  <2>2. log[bq_head.idx] \in History
    BY <1>1, <2>1
  <2> QED BY <2>2 DEF flush
<1>3. /\ bq' \in [0..(BQ_SIZE - 1) -> BOOLEAN] /\ log' \in [0..(BQ_SIZE - 1) -> History]
      /\ bq_head' = bq_head /\ bq_tail' = bq_head /\ base' = bhr' /\ fetch_active' = TRUE
  <2>1. NoHistory \in History
    BY DEF NoHistory, History
  <2> QED BY <1>1, <2>1 DEF flush, Kept
<1>4. PICK w, h, q, x : w = Fetched' /\ h = bq_head /\ q = bq' /\ x = bhr'
  OBVIOUS
<1>5. Cardinality(BranchesOf(w, 0)) = 0 /\ 1..0 = {} /\ 0..(0 - 1) = {}
  <2>1. 0 \in Nat
    OBVIOUS
  <2>2. Cardinality(BranchesOf(w, 0)) \in 0..0
    BY <2>1, BranchesType
  <2> QED BY <2>2
<1>6. At(h, 0) = h /\ Out(h, 0, q) = <<>>
  <2>1. 0 \in Nat /\ 0 + 0 <= BQ_SIZE /\ 0 <= BQ_SIZE
    BY FetchUnitAssumption
  <2> QED BY <1>1, <1>3, <1>4, <2>1, AtIs, OutType
<1>7. TagsFollow'
  <2>1. BranchesOf(w, 0) = {}
    BY <1>5 DEF BranchesOf
  <2>2. TagsOf(w, 0, h, h)
    BY <1>5, <1>6, <2>1 DEF TagsOf
  <2> QED BY <1>3, <1>4, <2>2 DEF TagsFollow
<1>8. After(x, <<>>) = x
  BY <1>2, <1>4, AfterType, EmptySeq
<1>9. OnPath'
  <2>1. InQueue' = 0
    BY <1>4, <1>5 DEF InQueue
  <2>2. Path' = bhr'
    BY <1>3, <1>4, <1>6, <1>8, <2>1 DEF Path
  <2>3. Logged(0, h, q, log', x)
    BY <1>5 DEF Logged
  <2>4. After(Path', Predictions(FETCH2')) = bhr'
    BY <1>4, <1>8, <2>2, PredictionsNone
  <2> QED BY <1>3, <1>4, <2>1, <2>3, <2>4 DEF OnPath
<1> QED BY <1>1, <1>2, <1>3, <1>7, <1>9

\* An amo or csr instruction retires: there is nothing else in flight.
LEMMA RetireSerialStep ==
  ASSUME Fetching, RetireSerial
  PROVE  Fetching'
<1>1. /\ TypeOK /\ rob \in Seq(Instruction) /\ FETCH2 \in Seq(Instruction)
      /\ DECODE \in Seq(Instruction) /\ FQ \in Seq(Instruction) /\ RENAME2 \in Seq(Instruction)
  BY DEF Fetching, TypeOK
<1>2. /\ rob # <<>> /\ rob' = Tail(rob) /\ flush /\ FETCH2' = <<>> /\ Pop
      /\ fetch2_bhr' = NoHistory /\ pay_checkpoint' = 0
      /\ UNCHANGED <<DECODE, FQ, RENAME2, pay_tail>>
  BY DEF RetireSerial, Fetch2Done
<1>3. PICK m \in Nat, n \in Nat : m = Len(Fetched) /\ n = Len(InFlight) /\ m <= n
  BY RobFirst
<1>4. n = 1 /\ m = 1
  <2>1. 1 \in 1..m /\ Fetched[1].kind = "serial"
    BY <1>2, <1>3, OldestLeaves DEF RetireSerial
  <2>2. 1 = n
    BY <1>3, <2>1 DEF Fetching, SerializersAreAlone
  <2> QED BY <1>3, <2>1, <2>2
<1>5. FETCH2 = <<>> /\ DECODE = <<>>
  <2>1. StagesOf
    BY QueueIs DEF QueueOf
  <2>2. PICK l \in Nat, a \in Nat, f \in Nat, d \in Nat, u \in Nat :
          /\ l = Len(rob) /\ a = Len(RENAME2) /\ f = Len(FQ) /\ d = Len(DECODE) /\ u = Len(FETCH2)
    BY <2>1 DEF StagesOf, InFlightOf
  <2>3. l + a + f + d = 1 /\ 1 = 1 + u
    BY <1>3, <1>4, <2>1, <2>2 DEF StagesOf, InFlightOf
  <2>4. l # 0
    BY <1>1, <1>2, <2>2, EmptySeq
  <2>5. d = 0 /\ u = 0
    BY <2>3, <2>4
  <2> QED BY <1>1, <2>2, <2>5, EmptySeq
<1>6. /\ OneOn(rob, rob', Len(rob)) /\ OneOn(Fetched, Fetched', 1) /\ OneOn(InFlight, InFlight', 1)
      /\ Head(rob) = InFlight[1]
  BY <1>2, <1>3, <1>4, <1>5, OldestLeaves
<1>7. Len(Fetched') = 0 /\ Len(InFlight') = 0
  BY <1>6 DEF OneOn
<1>8. PICK w2 : w2 = InFlight'
  OBVIOUS
<1>9. /\ PayOf(w2, Len(w2), pay_head', pay_tail', pay_length') /\ PairedOf(w2, Len(w2), pay_tail')
      /\ pay_head' \in PayIndex /\ pay_tail' \in PayIndex /\ pay_length' \in 0..PAYLOAD_BUFFER_SIZE
  <2>1. 1 \in 1..Len(InFlight) /\ OneOn(InFlight, w2, Len(InFlight))
    BY <1>3, <1>4, <1>6, <1>8
  <2> QED BY <1>2, <1>6, <2>1, PayPopped
<1>10. PayHolds'
  BY <1>8, <1>9 DEF PayHolds
<1>11. /\ TagsFollow' /\ OnPath'
       /\ bq_head' \in Pointer(BQ_SIZE) /\ bq_tail' \in Pointer(BQ_SIZE)
       /\ bq' \in [0..(BQ_SIZE - 1) -> BOOLEAN] /\ log' \in [0..(BQ_SIZE - 1) -> History]
       /\ bhr' \in History /\ base' \in History /\ fetch_active' = TRUE
  BY <1>2, <1>7, FlushedQueue
<1>12. 1..0 = {} /\ Len(<<>>) = 0
  OBVIOUS
<1>13. WellFormed' /\ SerializersAreAlone' /\ Checkpointed'
  BY <1>2, <1>5, <1>7, <1>12
  DEF WellFormed, FormedOf, WholeOf, EndsAtException, SerializersAreAlone, Checkpointed
<1>14. TypeOK'
  <2>1. rob' \in Seq(Instruction) /\ Len(rob') <= rob_size
    <3>1. Len(rob) \in Nat /\ Len(rob) <= rob_size /\ rob_size \in Nat
      BY <1>1, RobFirst, FetchUnitAssumption DEF TypeOK
    <3>2. rob' \in Seq(Instruction) /\ Len(rob') = Len(rob) - 1
      BY <1>6 DEF OneOn
    <3> QED BY <3>1, <3>2
  <2>2. NoHistory \in History /\ 0 \in PayIndex
    BY PaySize DEF NoHistory, History, PayIndex
  <2>3. Len(<<>>) = 0 /\ <<>> \in Seq(Instruction) /\ 0 <= instr_per_cycle
    BY FetchUnitAssumption
  <2> QED BY <1>1, <1>2, <1>9, <1>11, <2>1, <2>2, <2>3 DEF TypeOK
<1> QED BY <1>10, <1>11, <1>13, <1>14 DEF Fetching

\* A complete squash leaves nothing.
LEMMA SquashCompleteStep ==
  ASSUME Fetching, SquashComplete
  PROVE  Fetching'
<1>1. TypeOK
  BY DEF Fetching
<1>2. /\ flush /\ rob' = <<>> /\ RENAME2' = <<>> /\ FQ' = <<>> /\ DECODE' = <<>> /\ FETCH2' = <<>>
      /\ fetch2_bhr' = NoHistory /\ pay_checkpoint' = 0
      /\ pay_head' = 0 /\ pay_tail' = 0 /\ pay_length' = 0
  BY DEF SquashComplete, EmptyFrontEnd, Fetch2Done
<1>3. <<>> \in Seq(Instruction) /\ Len(<<>>) = 0 /\ 1..0 = {} /\ 0 % 2 = 0 /\ 0 \in Nat
  OBVIOUS
<1>4. Fetched' = <<>> /\ InFlight' = <<>>
  BY <1>2, <1>3, EmptiedStages
<1>5. /\ TagsFollow' /\ OnPath'
      /\ bq_head' \in Pointer(BQ_SIZE) /\ bq_tail' \in Pointer(BQ_SIZE)
      /\ bq' \in [0..(BQ_SIZE - 1) -> BOOLEAN] /\ log' \in [0..(BQ_SIZE - 1) -> History]
      /\ bhr' \in History /\ base' \in History /\ fetch_active' = TRUE
  <2>1. Len(Fetched') = 0
    BY <1>3, <1>4
  <2> QED BY <1>2, <2>1, FlushedQueue
<1>6. 0 \in PayIndex /\ 0 \in 0..PAYLOAD_BUFFER_SIZE
  BY PaySize DEF PayIndex
<1>7. PayHolds'
  <2>1. PayOf(<<>>, 0, 0, 0, 0)
    BY <1>6, PayNone
  <2>2. PairedOf(<<>>, 0, 0)
    BY <1>3 DEF PairedOf
  <2> QED BY <1>2, <1>3, <1>4, <2>1, <2>2 DEF PayHolds
<1>8. WellFormed' /\ SerializersAreAlone' /\ Checkpointed'
  BY <1>2, <1>3, <1>4
  DEF WellFormed, FormedOf, WholeOf, EndsAtException, SerializersAreAlone, Checkpointed
<1>9. TypeOK'
  <2>1. NoHistory \in History
    BY DEF NoHistory, History
  <2>2. 0 <= instr_per_cycle /\ 0 <= fq_size /\ 0 <= dispatch_width /\ 0 <= rob_size
    BY FetchUnitAssumption
  <2> QED BY <1>1, <1>2, <1>3, <1>5, <1>6, <2>1, <2>2 DEF TypeOK
<1> QED BY <1>5, <1>7, <1>8, <1>9 DEF Fetching

-----------------------------------------------------------------------------
(* Fetch *)

\* Without a bundle in fetch2 what is behind it is what is in flight.
LEMMA NoBundle ==
  ASSUME Fetching
  PROVE  /\ FETCH2 = <<>> => InFlight = Fetched
         /\ Fetched' = Fetched /\ FETCH2' = <<>> => InFlight' = Fetched
         /\ Predictions(<<>>) = <<>> /\ After(Path, <<>>) = Path
<1>1. Fetched \o <<>> = Fetched
  <2>1. Fetched \in Seq(Instruction)
    BY QueueIs DEF QueueOf, StagesOf, InFlightOf
  <2> QED BY <2>1, ConcatEmptySeq
<1>2. After(Path, <<>>) = Path
  BY QueueIs, AfterType, EmptySeq DEF QueueOf
<1> QED BY <1>1, <1>2, PredictionsNone DEF InFlight

\* The bundle in fetch2 is discarded, and PAY's tail and the history are as before it.
LEMMA MisfetchStep ==
  ASSUME Fetching, Misfetch
  PROVE  Fetching'
<1>1. /\ TypeOK /\ FETCH2 \in Seq(Instruction) /\ pay_head \in PayIndex /\ fetch2_bhr \in History
  BY DEF Fetching, TypeOK
<1>2. /\ FETCH2 # <<>> /\ FETCH2' = <<>> /\ fetch_active' = TRUE /\ bhr' = fetch2_bhr
      /\ pay_tail' = pay_checkpoint /\ pay_length' = payLength(pay_checkpoint)
      /\ fetch2_bhr' = NoHistory /\ pay_checkpoint' = 0
      /\ UNCHANGED <<DECODE, FQ, RENAME2, rob, pay_head, bq, bq_head, bq_tail, log, base>>
  BY DEF Misfetch, Fetch2Done, bqVars
<1>3. Fetched' = Fetched
  BY <1>2 DEF Fetched
<1>4. InFlight' = Fetched /\ Predictions(<<>>) = <<>> /\ After(Path, <<>>) = Path
  BY <1>2, <1>3, NoBundle
<1>5. PICK m \in Nat, u \in Nat \ {0} :
        m = Len(Fetched) /\ u = Len(FETCH2) /\ m + u = Len(InFlight)
  <2>1. StagesOf
    BY QueueIs DEF QueueOf
  <2>2. Len(FETCH2) \in Nat \ {0}
    BY <1>1, <1>2, EmptySeq
  <2> QED BY <2>1, <2>2 DEF StagesOf, InFlightOf
<1>6. /\ \A j \in 1..m : InFlight[j] = Fetched[j]
      /\ InFlight[m + 1] = FETCH2[1] /\ FETCH2[1].half = "whole"
  <2>1. StagesOf
    BY QueueIs DEF QueueOf
  <2>2. 1 \in 1..u
    BY <1>5
  <2>3. FETCH2[1].half = "whole"
    BY <1>5, <2>2 DEF Fetching, WellFormed, WholeOf
  <2> QED BY <1>5, <2>1, <2>2, <2>3 DEF StagesOf, InFlightOf
<1>7. PICK n \in Nat, w \in Seq(Instruction) :
        n = m + u /\ w = InFlight /\ m \in 0..n /\ m + 1 \in 1..n /\ n = Len(w)
  BY <1>5, RobFirst
<1>8. PayOf(w, n, pay_head, pay_tail, pay_length) /\ PairedOf(w, n, pay_tail)
  BY <1>7 DEF Fetching, PayHolds
<1>9. PICK e \in Nat : e = Before(w, n, m + 1) /\ e < PAYLOAD_BUFFER_SIZE
                       /\ PayOf(Fetched, m, pay_head, Wrapped(pay_head + e), e)
  <2>1. \A j \in 1..m : Fetched[j].half = w[j].half /\ Fetched[j].index = w[j].index
    BY <1>6, <1>7
  <2>2. /\ PayOf(Fetched, m, pay_head, Wrapped(pay_head + Before(w, n, m + 1)), Before(w, n, m + 1))
        /\ Before(w, n, m + 1) \in Nat /\ Before(w, n, m + 1) < PAYLOAD_BUFFER_SIZE
    BY <1>1, <1>7, <1>8, <2>1, PayCut
  <2> QED BY <2>2
<1>10. PICK t : t = pay_checkpoint /\ t = w[m + 1].index /\ t = Wrapped(pay_head + e)
  <2>1. pay_checkpoint = FETCH2[1].index
    BY <1>2 DEF Fetching, Checkpointed
  <2>2. w[m + 1].index = Wrapped(pay_head + Before(w, n, m + 1))
    BY <1>7, <1>8 DEF PayOf
  <2> QED BY <1>6, <1>7, <1>9, <2>1, <2>2
<1>11. /\ t \in PayIndex /\ (PAYLOAD_BUFFER_SIZE + t - pay_head) % PAYLOAD_BUFFER_SIZE = e
  <2>1. e + 0 < PAYLOAD_BUFFER_SIZE /\ 0 \in Nat
    BY <1>9
  <2> QED BY <1>1, <1>9, <1>10, <2>1, WrappedIs
<1>12. pay_tail' = t /\ pay_length' = e
  BY <1>2, <1>10, <1>11 DEF payLength
<1>13. PayHolds'
  <2>1. t % 2 = 0 /\ t \in Nat
    <3>1. t \in Nat
      BY <1>11, PaySize DEF PayIndex
    <3>2. w[m + 1].half = "whole" /\ m + 1 \in 1..n
      BY <1>6, <1>7
    <3>3. w[m + 1].index % 2 = 0
      BY <1>8, <3>2 DEF PairedOf
    <3> QED BY <1>10, <3>1, <3>3
  <2>2. \A j \in 1..m : j \in 1..n /\ Fetched[j] = w[j]
    BY <1>6, <1>7
  <2>3. PairedOf(Fetched, m, t)
    BY <1>8, <2>1, <2>2 DEF PairedOf
  <2> QED BY <1>2, <1>4, <1>5, <1>9, <1>10, <1>12, <2>3 DEF PayHolds
<1>14. SerializersAreAlone'
  <2>1. ASSUME NEW j \in 1..m, Fetched[j].kind \in {"serial", "except"} PROVE FALSE
    <3>1. j = m + u
      BY <1>5, <2>1 DEF Fetching, SerializersAreAlone
    <3> QED BY <3>1
  <2> QED BY <1>3, <1>5, <2>1 DEF SerializersAreAlone
<1>15. WellFormed' /\ Checkpointed'
  <2>1. Len(<<>>) = 0 /\ 1..0 = {}
    OBVIOUS
  <2> QED BY <1>2, <1>3, <2>1
      DEF Fetching, WellFormed, WholeOf, EndsAtException, Checkpointed
<1>16. TagsFollow'
  BY <1>2, <1>3 DEF Fetching, TagsFollow
<1>17. OnPath'
  <2>1. InQueue' = InQueue /\ Path' = Path
    BY <1>2, <1>3 DEF InQueue, Path
  <2>2. bhr' = Path
    BY <1>2 DEF Fetching, OnPath
  <2> QED BY <1>2, <1>4, <2>1, <2>2 DEF Fetching, OnPath
<1>18. TypeOK'
  <2>1. NoHistory \in History /\ 0 \in PayIndex
    BY PaySize DEF NoHistory, History, PayIndex
  <2>2. Len(<<>>) = 0 /\ <<>> \in Seq(Instruction) /\ 0 <= instr_per_cycle
    BY FetchUnitAssumption
  <2>3. e \in 0..PAYLOAD_BUFFER_SIZE
    BY <1>9, PaySize
  <2> QED BY <1>1, <1>2, <1>11, <1>12, <2>1, <2>2, <2>3 DEF TypeOK
<1> QED BY <1>13, <1>14, <1>15, <1>16, <1>17, <1>18 DEF Fetching

\* What fetch1 makes of a bundle.
LEMMA FetchedAs ==
  ASSUME NEW bundle \in Bundles, Fetch1(bundle), pay_tail \in PayIndex
  PROVE  \E b \in 1..instr_per_cycle :
           /\ Bundled(bundle, b) /\ Len(bundle) = b
           /\ FETCH2' \in Seq(Instruction) /\ Len(FETCH2') = b
           /\ \A k \in 1..b : /\ FETCH2'[k].branch = bundle[k].branch
                              /\ FETCH2'[k].taken = bundle[k].taken
                              /\ FETCH2'[k].half = "whole"
                              /\ FETCH2'[k].kind = "except" => k = b
                              /\ FETCH2'[k].index = (pay_tail + 2 * (k - 1)) % PAYLOAD_BUFFER_SIZE
<1>1. PICK b \in 1..instr_per_cycle :
        bundle \in [1..b -> [kind : Kind, branch : BOOLEAN, taken : BOOLEAN]]
  BY DEF Bundles
<1>2. b \in Nat /\ DOMAIN bundle = 1..b /\ Len(bundle) = b
  <2>1. b \in Nat
    BY FetchUnitAssumption
  <2> QED BY <1>1, <2>1, FunctionIsSequence
<1>3. Bundled(bundle, b)
  BY <1>1, <1>2 DEF Bundled
<1>4. FETCH2' = [k \in 1..b |->
                  [kind |-> bundle[k].kind, branch |-> bundle[k].branch, taken |-> bundle[k].taken,
                   index |-> (pay_tail + 2 * (k - 1)) % PAYLOAD_BUFFER_SIZE,
                   tag |-> Origin, resolved |-> FALSE, half |-> "whole"]]
  BY <1>2 DEF Fetch1
<1>5. ASSUME NEW k \in 1..b PROVE FETCH2'[k] \in Instruction
  <2>1. (pay_tail + 2 * (k - 1)) % PAYLOAD_BUFFER_SIZE \in PayIndex
    <3>1. pay_tail + 2 * (k - 1) \in Nat
      BY <1>2, PaySize DEF PayIndex
    <3> QED BY <3>1, PaySize DEF PayIndex
  <2>2. Origin \in Pointer(BQ_SIZE)
    BY FetchUnitAssumption, OriginType
  <2> QED BY <1>1, <1>4, <2>1, <2>2 DEF Instruction
<1>6. FETCH2' \in Seq(Instruction) /\ Len(FETCH2') = b
  <2>1. FETCH2' \in [1..b -> Instruction]
    BY <1>4, <1>5
  <2> QED BY <1>2, <2>1, FunctionIsSequence
<1>7. ASSUME NEW k \in 1..b, bundle[k].kind = "except" PROVE k = b
  <2>1. ~(k < b)
    BY <1>2, <1>7 DEF Bundles
  <2> QED BY <1>2, <2>1
<1> QED BY <1>2, <1>3, <1>4, <1>6, <1>7

\* fetch1 puts the bundle into PAY and goes on as predicted.
LEMMA Fetch1Step ==
  ASSUME Fetching, NEW bundle \in Bundles, Fetch1(bundle)
  PROVE  Fetching'
<1>1. /\ TypeOK /\ pay_head \in PayIndex /\ pay_tail \in PayIndex /\ pay_length \in Nat
      /\ bhr \in History
  BY PaySize DEF Fetching, TypeOK
<1>2. PICK b \in 1..instr_per_cycle :
        /\ Bundled(bundle, b) /\ Len(bundle) = b
        /\ FETCH2' \in Seq(Instruction) /\ Len(FETCH2') = b
        /\ \A k \in 1..b : /\ FETCH2'[k].branch = bundle[k].branch
                           /\ FETCH2'[k].taken = bundle[k].taken
                           /\ FETCH2'[k].half = "whole"
                           /\ FETCH2'[k].kind = "except" => k = b
                           /\ FETCH2'[k].index = (pay_tail + 2 * (k - 1)) % PAYLOAD_BUFFER_SIZE
  BY <1>1, FetchedAs
<1>3. /\ FETCH2 = <<>> /\ fetch_active /\ Len(InFlight) + b <= MaxInFlight
      /\ pay_checkpoint' = pay_tail /\ fetch2_bhr' = bhr
      /\ pay_tail' = (pay_tail + 2 * b) % PAYLOAD_BUFFER_SIZE
      /\ pay_length' = pay_length + 2 * b
      /\ bhr' = After(bhr, Predictions(bundle))
      /\ UNCHANGED <<fetch_active, DECODE, FQ, RENAME2, rob, pay_head, bq, bq_head, bq_tail, log, base>>
  BY <1>2 DEF Fetch1, bqVars
<1>4. Fetched' = Fetched /\ InFlight = Fetched /\ After(Path, <<>>) = Path /\ Predictions(<<>>) = <<>>
  BY <1>3, NoBundle DEF Fetched
<1>5. PICK n \in Nat : n = Len(InFlight) /\ n = Len(Fetched)
  BY <1>4, RobFirst
<1>6. PICK u : u = FETCH2' /\ u \in Seq(Instruction) /\ Len(u) = b
  BY <1>2
<1>7. Behind(Fetched \o u, Fetched, n, u, b) /\ InFlight' = Fetched \o u
  <2>1. Fetched \in Seq(Instruction)
    BY QueueIs DEF QueueOf, StagesOf, InFlightOf
  <2> QED BY <1>4, <1>5, <1>6, <2>1, BehindEach DEF InFlight
<1>8. PICK w2 \in Seq(Instruction) :
        /\ w2 = InFlight' /\ Len(w2) = n + b
        /\ \A j \in 1..n : w2[j] = InFlight[j]
        /\ \A k \in 1..b : w2[n + k] = u[k]
  BY <1>4, <1>7 DEF Behind
<1>9. PayOf(InFlight, n, pay_head, pay_tail, pay_length) /\ PairedOf(InFlight, n, pay_tail)
  BY <1>5 DEF Fetching, PayHolds
<1>10. b \in Nat /\ b < PAYLOAD_BUFFER_SIZE
  <2>1. b \in Nat
    BY FetchUnitAssumption
  <2>2. n + b <= MaxInFlight
    BY <1>3, <1>5
  <2> QED BY <2>1, <2>2, PaySize
<1>11. PICK t, l : t = pay_tail' /\ l = pay_length' /\ PayOf(w2, n + b, pay_head, t, l)
  <2>1. Pushed(w2, n, b, pay_tail)
    BY <1>2, <1>6, <1>8 DEF Pushed
  <2>2. \A j \in 1..n : w2[j].half = InFlight[j].half /\ w2[j].index = InFlight[j].index
    BY <1>8
  <2>3. n + b <= MaxInFlight
    BY <1>3, <1>5
  <2>4. PayOf(w2, n + b, pay_head, (pay_tail + 2 * b) % PAYLOAD_BUFFER_SIZE, pay_length + 2 * b)
    BY <1>1, <1>9, <1>10, <2>1, <2>2, <2>3, PayPush
  <2> QED BY <1>3, <2>4
<1>12. l \in 0..PAYLOAD_BUFFER_SIZE /\ t \in PayIndex /\ t \in Nat /\ t % 2 = 0
  <2>1. n + b \in Nat /\ n + b + 1 \in 1..(n + b + 1)
    BY <1>10
  <2>2. Before(w2, n + b, n + b + 1) \in Nat
    BY <2>1, BeforeType
  <2>3. l = Before(w2, n + b, n + b + 1) /\ l <= 2 * MaxInFlight
    BY <1>11 DEF PayOf
  <2>4. pay_tail % 2 = 0
    BY <1>9 DEF PairedOf
  <2>5. t % 2 = 0
    BY <1>1, <1>3, <1>10, <1>11, <2>4, WrapsEven
  <2>6. t \in PayIndex /\ t \in Nat
    <3>1. pay_tail + 2 * b \in Nat
      BY <1>1, <1>10, PaySize DEF PayIndex
    <3> QED BY <1>3, <1>11, <3>1, PaySize DEF PayIndex
  <2> QED BY <2>2, <2>3, <2>5, <2>6, PaySize
<1>13. PairedOf(w2, n + b, t)
  <2>1. ASSUME NEW k \in 1..b PROVE u[k].index % 2 = 0
    <3>1. k - 1 \in Nat /\ k - 1 < PAYLOAD_BUFFER_SIZE
      BY <1>10, PaySize
    <3>2. pay_tail % 2 = 0
      BY <1>9 DEF PairedOf
    <3>3. ((pay_tail + 2 * (k - 1)) % PAYLOAD_BUFFER_SIZE) % 2 = 0
      BY <1>1, <3>1, <3>2, WrapsEven
    <3> QED BY <1>2, <1>6, <3>3
  <2>2. ASSUME NEW j \in 1..(n + b), w2[j].half # "lower" PROVE w2[j].index % 2 = 0
    <3>1. CASE j \in 1..n
      BY <1>8, <1>9, <2>2, <3>1 DEF PairedOf
    <3>2. CASE j \notin 1..n
      <4>1. j - n \in 1..b /\ j = n + (j - n)
        BY <1>10, <3>2
      <4>2. w2[n + (j - n)] = u[j - n]
        BY <1>8, <4>1
      <4> QED BY <2>1, <4>1, <4>2
    <3> QED BY <3>1, <3>2
  <2> QED BY <1>12, <2>2 DEF PairedOf
<1>14. PayHolds'
  BY <1>3, <1>8, <1>11, <1>13 DEF PayHolds
<1>15. Checkpointed'
  <2>1. 1 \in 1..b
    BY <1>10
  <2>2. u[1].index = (pay_tail + 2 * (1 - 1)) % PAYLOAD_BUFFER_SIZE
    BY <1>2, <1>6, <2>1
  <2>3. pay_tail % PAYLOAD_BUFFER_SIZE = pay_tail /\ pay_tail + 2 * (1 - 1) = pay_tail
    BY <1>1, PaySize DEF PayIndex
  <2> QED BY <1>3, <1>6, <2>2, <2>3 DEF Checkpointed
<1>16. SerializersAreAlone'
  <2>1. \A j \in 1..n : Fetched[j].kind \notin {"serial", "except"}
    BY <1>3, <1>5 DEF Fetching, SerializersAreAlone
  <2> QED BY <1>4, <1>5, <2>1 DEF SerializersAreAlone
<1>17. WellFormed'
  <2>1. WholeOf(u, b) /\ EndsAtException(u, b)
    BY <1>2, <1>6 DEF WholeOf, EndsAtException
  <2> QED BY <1>3, <1>4, <1>6, <2>1 DEF Fetching, WellFormed
<1>18. TagsFollow'
  BY <1>3, <1>4 DEF Fetching, TagsFollow
<1>19. PICK o \in Seq(BOOLEAN) : o = Predictions(bundle) /\ o = Predictions(u)
  <2>1. DOMAIN u = 1..b
    BY <1>6, LenProperties
  <2>2. \A j \in 1..b : u[j].branch = bundle[j].branch /\ u[j].taken = bundle[j].taken
    BY <1>2, <1>6
  <2>3. Predictions(u) = Predictions(bundle)
    BY <1>2, <1>10, <2>1, <2>2, PredictionsSame
  <2>4. Predictions(bundle) \in Seq(BOOLEAN)
    BY <1>2, <1>10, PredictionsType
  <2> QED BY <2>3, <2>4
<1>20. OnPath'
  <2>1. InQueue' = InQueue /\ Path' = Path
    BY <1>3, <1>4 DEF InQueue, Path
  <2>2. bhr = Path
    BY <1>3, <1>4 DEF Fetching, OnPath
  <2> QED BY <1>3, <1>6, <1>19, <2>1, <2>2 DEF Fetching, OnPath
<1>21. TypeOK'
  <2>1. bhr' \in History
    BY <1>1, <1>3, <1>19, AfterType
  <2>2. b <= instr_per_cycle
    BY <1>10, FetchUnitAssumption
  <2> QED BY <1>1, <1>3, <1>6, <1>11, <1>12, <2>1, <2>2 DEF TypeOK
<1> QED BY <1>14, <1>15, <1>16, <1>17, <1>18, <1>20, <1>21 DEF Fetching

-----------------------------------------------------------------------------
(* Predecode *)

\* Predecode keeps the first e instructions of a bundle: a csr or amo instruction among them is the
\* last, and unless it is they are all.
PredecodesTo(e) ==
  /\ Predecoded \in Seq(Instruction) /\ Len(Predecoded) = e
  /\ \A k \in 1..e : Predecoded[k] = FETCH2[k] /\ k \in 1..Len(FETCH2)
  /\ Last(Predecoded) = FETCH2[e]
  /\ \A k \in 1..e : FETCH2[k].kind = "serial" => k = e
  /\ FETCH2[e].kind # "serial" => Predecoded = FETCH2 /\ e = Len(FETCH2)

\* There is such an e.
LEMMA PredecodedIs ==
  ASSUME FETCH2 \in Seq(Instruction), FETCH2 # <<>>
  PROVE  \E e \in 1..Len(FETCH2) : PredecodesTo(e)
<1>1. PICK u \in Seq(Instruction), n \in Nat \ {0} : u = FETCH2 /\ n = Len(u)
  BY EmptySeq
<1>2. DOMAIN u = 1..n /\ \A k \in 1..n : u[k] \in Instruction
  BY <1>1, LenProperties, ElementOfSeq
<1>3. PICK p : p = Predecoded
  OBVIOUS
<1> DEFINE T == {k \in 1..n : u[k].kind = "serial"}
<1>4. p = IF T = {} THEN u ELSE SubSeq(u, 1, Min(T))
  BY <1>1, <1>2, <1>3 DEF Predecoded
<1>5. CASE T = {}
  <2>1. p = u /\ n \in 1..n /\ \A k \in 1..n : u[k].kind # "serial"
    BY <1>1, <1>4, <1>5
  <2> QED BY <1>1, <1>3, <2>1 DEF PredecodesTo, Last
<1>6. CASE T # {}
  <2>1. PICK e \in T : e = Min(T) /\ \A k \in T : e <= k
    <3>1. \E x \in T : \A y \in T : x <= y
      <4>1. T \subseteq Nat
        OBVIOUS
      <4> HIDE DEF T
      <4> QED BY <1>6, <4>1, LeastNat
    <3> QED BY <3>1 DEF Min
  <2>2. e \in 1..n /\ u[e].kind = "serial" /\ e \in Int /\ 1 \in Int
    OBVIOUS
  <2>3. p = SubSeq(u, 1, e)
    BY <1>4, <1>6, <2>1
  <2>4. \A k \in 1..e : k \in 1..n
    BY <2>2
  <2>5. \A k \in 1..e : u[k] \in Instruction
    BY <1>2, <2>4
  <2>6. /\ SubSeq(u, 1, e) \in Seq(Instruction)
        /\ Len(SubSeq(u, 1, e)) = IF 1 <= e THEN e - 1 + 1 ELSE 0
        /\ \A k \in 1..(e - 1 + 1) : SubSeq(u, 1, e)[k] = u[1 + k - 1]
    BY <2>2, <2>5, SubSeqProperties
  <2>7. 1 <= e /\ e - 1 + 1 = e /\ e \in 1..e /\ \A k \in 1..e : 1 + k - 1 = k
    BY <2>2
  <2>8. p \in Seq(Instruction) /\ Len(p) = e /\ \A k \in 1..e : p[k] = u[k]
    BY <2>3, <2>6, <2>7
  <2>9. Last(p) = u[e]
    BY <2>7, <2>8 DEF Last
  <2>10. \A k \in 1..e : u[k].kind = "serial" => k = e
    BY <2>1, <2>4
  <2> QED BY <1>1, <1>3, <2>2, <2>4, <2>8, <2>9, <2>10 DEF PredecodesTo
<1> QED BY <1>5, <1>6

\* What the invariant says of a bundle that stays: there is no serializing instruction in flight
\* before it, one in it is its last, and then fetch1 stops.
PredecodedOf(e, m) ==
  /\ e \in 1..Len(FETCH2) /\ m \in Nat /\ m = Len(Fetched) /\ e \in Nat
  /\ PredecodesTo(e)
  /\ m + e <= Len(InFlight) /\ m + e \in 1..Len(InFlight)
  /\ \A j \in 1..m : InFlight[j] = Fetched[j] /\ Fetched[j] \in Instruction
  /\ \A j \in 1..m : Fetched[j].kind \notin {"serial", "except"}
  /\ \A k \in 1..e : /\ InFlight[m + k] = FETCH2[k] /\ FETCH2[k] \in Instruction
                     /\ FETCH2[k].half = "whole"
                     /\ FETCH2[k].kind \in {"serial", "except"} => k = e
                     /\ FETCH2[k].branch <=> FETCH2[k].kind = "cond"
  /\ FETCH2[e].kind \in {"serial", "except"} => ~fetch_active'
  /\ fetch_active' => fetch_active /\ Predecoded = FETCH2

\* It follows from it.
LEMMA BundleStays ==
  ASSUME Fetching, Predecode
  PROVE  \E e, m : PredecodedOf(e, m)
<1>1. FETCH2 \in Seq(Instruction) /\ FETCH2 # <<>> /\ StagesOf /\ fetch_active \in BOOLEAN
  BY QueueIs DEF Fetching, TypeOK, Predecode, QueueOf
<1>2. PICK e \in 1..Len(FETCH2) : PredecodesTo(e)
  BY <1>1, PredecodedIs
<1>3. PICK u \in Nat, m \in Nat : u = Len(FETCH2) /\ m = Len(Fetched) /\ Len(InFlight) = m + u
  BY <1>1 DEF StagesOf, InFlightOf
<1>4. e \in Nat /\ e \in 1..u /\ m + e <= m + u /\ m + e \in 1..(m + u)
  BY <1>2, <1>3
<1>5. \A j \in 1..m : InFlight[j] = Fetched[j] /\ Fetched[j] \in Instruction
  BY <1>1, <1>3 DEF StagesOf, InFlightOf
<1>6. ASSUME NEW j \in 1..m PROVE Fetched[j].kind \notin {"serial", "except"}
  <2>1. j # m + u
    BY <1>4
  <2> QED BY <1>3, <2>1 DEF Fetching, SerializersAreAlone
<1>7. \A k \in 1..e : InFlight[m + k] = FETCH2[k] /\ FETCH2[k] \in Instruction
  <2>1. \A k \in 1..e : k \in 1..u
    BY <1>4
  <2> QED BY <1>1, <1>3, <2>1 DEF StagesOf, InFlightOf
<1>8. ASSUME NEW k \in 1..e
      PROVE  /\ FETCH2[k].half = "whole"
             /\ FETCH2[k].kind \in {"serial", "except"} => k = e
             /\ FETCH2[k].branch <=> FETCH2[k].kind = "cond"
  <2>1. k \in 1..u
    BY <1>4
  <2>2. FETCH2[k].half = "whole"
    BY <1>3, <2>1 DEF Fetching, WellFormed, WholeOf
  <2>3. FETCH2[k].kind = "except" => k = e
    <3>1. FETCH2[k].kind = "except" => k = u
      BY <1>3, <2>1 DEF Fetching, WellFormed, EndsAtException
    <3> QED BY <1>4, <3>1
  <2>4. FETCH2[k].kind = "serial" => k = e
    BY <1>2 DEF PredecodesTo
  <2>5. FETCH2[k].branch <=> FETCH2[k].kind = "cond"
    <3>1. DOMAIN Predecoded = 1..e /\ Predecoded[k] = FETCH2[k]
      BY <1>2, LenProperties DEF PredecodesTo
    <3>2. FETCH2[k].branch \in BOOLEAN
      BY <1>7 DEF Instruction
    <3>3. ~(FETCH2[k].branch # (FETCH2[k].kind = "cond"))
      BY <3>1 DEF Predecode, Misfetched, Misidentified
    <3> QED BY <3>2, <3>3
  <2> QED BY <2>2, <2>3, <2>4, <2>5
<1>9. /\ FETCH2[e].kind \in {"serial", "except"} => ~fetch_active'
      /\ fetch_active' => fetch_active /\ Predecoded = FETCH2
  <2>1. fetch_active' = (fetch_active /\ FETCH2[e].kind \notin {"serial", "except"})
    BY <1>2 DEF Predecode, Serializes, PredecodesTo
  <2> QED BY <1>2, <2>1 DEF PredecodesTo
<1> QED BY <1>2, <1>3, <1>4, <1>5, <1>6, <1>7, <1>8, <1>9 DEF PredecodedOf

\* PAY keeps the entries of what stays.
LEMMA PredecodedPay ==
  ASSUME Fetching, Predecode, NEW e, NEW m, PredecodedOf(e, m), NEW w2,
         \A j \in 1..(m + e) : w2[j].half = InFlight[j].half /\ w2[j].index = InFlight[j].index
  PROVE  /\ PayOf(w2, m + e, pay_head', pay_tail', pay_length') /\ PairedOf(w2, m + e, pay_tail')
         /\ pay_head' \in PayIndex /\ pay_tail' \in PayIndex /\ pay_length' \in 0..PAYLOAD_BUFFER_SIZE
<1>1. PICK n \in Nat, w \in Seq(Instruction) : n = Len(w) /\ w = InFlight
  BY RobFirst
<1>2. PICK i \in Nat : i = m + e /\ i \in 1..n /\ i \in 0..n /\ w[i] = FETCH2[e] /\ w[i].half = "whole"
  <2>1. e \in 1..e /\ e \in Nat /\ m \in Nat /\ m + e \in 1..n
    BY <1>1 DEF PredecodedOf
  <2>2. w[m + e] = FETCH2[e] /\ FETCH2[e].half = "whole"
    BY <1>1, <2>1 DEF PredecodedOf
  <2> QED BY <2>1, <2>2
<1>3. /\ pay_head \in PayIndex /\ pay_tail \in PayIndex /\ pay_length \in 0..PAYLOAD_BUFFER_SIZE
      /\ PayOf(w, n, pay_head, pay_tail, pay_length) /\ PairedOf(w, n, pay_tail)
  BY <1>1 DEF Fetching, TypeOK, PayHolds
<1>4. \A j \in 1..i : w2[j].half = w[j].half /\ w2[j].index = w[j].index /\ j \in 1..n
  BY <1>1, <1>2
<1>5. PICK h, t, l : h = pay_head' /\ t = pay_tail' /\ l = pay_length'
  OBVIOUS
<1>6. PayOf(w2, i, pay_head, Wrapped(pay_head + Before(w, n, i + 1)), Before(w, n, i + 1))
  BY <1>2, <1>3, <1>4, PayCut
<1>7. PredecodesTo(e)
  BY DEF PredecodedOf
<1>8. CASE FETCH2[e].kind = "serial"
  <2>1. rollback(w[i].index)
    BY <1>2, <1>7, <1>8 DEF Predecode, PredecodesTo
  <2>2. /\ pay_head' = pay_head /\ pay_tail' = Wrapped(pay_head + Before(w, n, i + 1))
        /\ pay_length' = Before(w, n, i + 1)
        /\ pay_tail' \in PayIndex /\ pay_length' \in 0..PAYLOAD_BUFFER_SIZE
        /\ pay_tail' \in Nat /\ pay_tail' % 2 = 0
    BY <1>2, <1>3, <2>1, RolledBackTo
  <2>3. PairedOf(w2, i, t)
    BY <1>3, <1>4, <1>5, <2>2 DEF PairedOf
  <2> QED BY <1>2, <1>3, <1>5, <1>6, <2>2, <2>3
<1>9. CASE FETCH2[e].kind # "serial"
  <2>1. pay_head' = pay_head /\ pay_tail' = pay_tail /\ pay_length' = pay_length
    BY <1>7, <1>9 DEF Predecode, PredecodesTo, payVars
  <2>2. i = n
    <3>1. e = Len(FETCH2)
      BY <1>7, <1>9 DEF PredecodesTo
    <3>2. Len(InFlight) = Len(Fetched) + Len(FETCH2)
      BY QueueIs DEF QueueOf, StagesOf, InFlightOf
    <3> QED BY <1>1, <1>2, <3>1, <3>2 DEF PredecodedOf
  <2>3. PayOf(w2, i, pay_head, pay_tail, pay_length)
    BY <1>3, <1>6, <2>2 DEF PayOf
  <2>4. PairedOf(w2, i, pay_tail)
    BY <1>3, <1>4 DEF PairedOf
  <2> QED BY <1>2, <1>3, <2>1, <2>3, <2>4
<1> QED BY <1>8, <1>9

-----------------------------------------------------------------------------
(* fetch2 *)

\* The bundle waits, predecoded.
LEMMA Fetch2StallStep ==
  ASSUME Fetching, Fetch2Stall
  PROVE  Fetching'
<1>1. TypeOK /\ Predecode /\ FETCH2 # <<>>
  BY DEF Fetching, Fetch2Stall, Predecode
<1>2. /\ FETCH2' = Predecoded
      /\ UNCHANGED <<DECODE, FQ, RENAME2, rob, bq, bq_head, bq_tail, log, bhr, fetch2_bhr,
                     pay_checkpoint, base>>
  BY DEF Fetch2Stall, bqVars, fetch2Vars
<1>3. PICK e, m : PredecodedOf(e, m)
  BY <1>1, BundleStays
<1>4. /\ e \in Nat /\ m \in Nat /\ m = Len(Fetched) /\ e \in 1..Len(FETCH2)
      /\ PredecodesTo(e)
  BY <1>3 DEF PredecodedOf
<1>5. PICK u \in Seq(Instruction) : u = FETCH2' /\ u = Predecoded /\ Len(u) = e
                                    /\ \A k \in 1..e : u[k] = FETCH2[k]
  BY <1>2, <1>4 DEF PredecodesTo
<1>6. Fetched' = Fetched
  BY <1>2 DEF Fetched
<1>7. Behind(Fetched \o u, Fetched, m, u, e) /\ InFlight' = Fetched \o u
  <2>1. Fetched \in Seq(Instruction)
    BY QueueIs DEF QueueOf, StagesOf, InFlightOf
  <2> QED BY <1>4, <1>5, <1>6, <2>1, BehindEach DEF InFlight
<1>8. PICK w2 \in Seq(Instruction) :
        /\ w2 = InFlight' /\ Len(w2) = m + e
        /\ \A j \in 1..m : w2[j] = InFlight[j]
        /\ \A k \in 1..e : w2[m + k] = InFlight[m + k]
  <2>1. /\ \A j \in 1..m : InFlight[j] = Fetched[j]
        /\ \A k \in 1..e : InFlight[m + k] = FETCH2[k]
    BY <1>3 DEF PredecodedOf
  <2>2. PICK w2 : w2 = Fetched \o u
    OBVIOUS
  <2>3. w2 \in Seq(Instruction) /\ Len(w2) = m + e
    BY <1>7, <2>2 DEF Behind
  <2>4. \A j \in 1..m : w2[j] = InFlight[j]
    BY <1>7, <2>1, <2>2 DEF Behind
  <2>5. \A k \in 1..e : w2[m + k] = InFlight[m + k]
    BY <1>5, <1>7, <2>1, <2>2 DEF Behind
  <2> QED BY <1>7, <2>2, <2>3, <2>4, <2>5
<1>9. \A j \in 1..(m + e) : w2[j] = InFlight[j]
  <2> SUFFICES ASSUME NEW j \in 1..(m + e) PROVE w2[j] = InFlight[j]
    OBVIOUS
  <2>1. CASE j \in 1..m
    BY <1>8, <2>1
  <2>2. CASE j \notin 1..m
    <3>1. j - m \in 1..e /\ j = m + (j - m)
      BY <1>4, <2>2
    <3>2. w2[m + (j - m)] = InFlight[m + (j - m)]
      BY <1>8, <3>1
    <3> QED BY <3>1, <3>2
  <2> QED BY <2>1, <2>2
<1>10. /\ PayOf(w2, m + e, pay_head', pay_tail', pay_length') /\ PairedOf(w2, m + e, pay_tail')
       /\ pay_head' \in PayIndex /\ pay_tail' \in PayIndex /\ pay_length' \in 0..PAYLOAD_BUFFER_SIZE
  <2>1. \A j \in 1..(m + e) : w2[j].half = InFlight[j].half /\ w2[j].index = InFlight[j].index
    BY <1>9
  <2> QED BY <1>1, <1>3, <2>1, PredecodedPay
<1>11. PayHolds'
  BY <1>8, <1>10 DEF PayHolds
<1>12. WellFormed'
  <2>1. \A k \in 1..e : /\ FETCH2[k].half = "whole"
                        /\ FETCH2[k].kind \in {"serial", "except"} => k = e
    BY <1>3 DEF PredecodedOf
  <2>2. WholeOf(u, e) /\ EndsAtException(u, e)
    BY <1>5, <2>1 DEF WholeOf, EndsAtException
  <2> QED BY <1>2, <1>5, <1>6, <2>2 DEF Fetching, WellFormed
<1>13. SerializersAreAlone'
  <2>1. \A j \in 1..m : Fetched[j].kind \notin {"serial", "except"}
    BY <1>3 DEF PredecodedOf
  <2> QED BY <1>4, <1>6, <2>1 DEF SerializersAreAlone
<1>14. Checkpointed'
  <2>1. u[1] = FETCH2[1]
    BY <1>4, <1>5
  <2> QED BY <1>1, <1>2, <1>5, <2>1 DEF Fetching, Checkpointed
<1>15. TagsFollow'
  BY <1>2, <1>6 DEF Fetching, TagsFollow
<1>16. OnPath'
  <2>1. InQueue' = InQueue /\ Path' = Path
    BY <1>2, <1>6 DEF InQueue, Path
  <2>2. fetch_active' => fetch_active /\ Predecoded = FETCH2
    BY <1>3 DEF PredecodedOf
  <2> QED BY <1>1, <1>2, <2>1, <2>2 DEF Fetching, OnPath
<1>17. TypeOK'
  <2>1. e <= instr_per_cycle
    <3>1. Len(FETCH2) \in Nat /\ Len(FETCH2) <= instr_per_cycle /\ instr_per_cycle \in Nat
      BY <1>1, LenProperties, FetchUnitAssumption DEF TypeOK
    <3> QED BY <1>4, <3>1
  <2>2. fetch_active' \in BOOLEAN
    BY <1>1 DEF Predecode, TypeOK
  <2> QED BY <1>1, <1>2, <1>5, <1>10, <2>1, <2>2 DEF TypeOK
<1> QED BY <1>11, <1>12, <1>13, <1>14, <1>15, <1>16, <1>17 DEF Fetching

\* The tag of the k-th instruction of the bundle, the slots its branches get, and which of them
\* gets a slot.
TagFor(k) == AdvanceBy(bq_tail, BranchesBefore(Predecoded, k), BQ_SIZE)
PushedSlots == {TagFor(k).idx : k \in Branches(Predecoded)}
PushedAt(s) == CHOOSE k \in Branches(Predecoded) : TagFor(k).idx = s

\* fetch2() in these terms.
LEMMA Fetch2Is ==
  ASSUME Fetch2
  PROVE  /\ DECODE' = [k \in DOMAIN Predecoded |->
                         IF k \in Branches(Predecoded)
                         THEN [Predecoded[k] EXCEPT !.tag = TagFor(k), !.taken = FALSE]
                         ELSE Predecoded[k]]
         /\ bq_tail' = AdvanceBy(bq_tail, Cardinality(Branches(Predecoded)), BQ_SIZE)
         /\ bq' = [s \in DOMAIN bq |-> IF s \in PushedSlots THEN Predecoded[PushedAt(s)].taken ELSE bq[s]]
         /\ log' = [s \in DOMAIN log |-> IF s \in PushedSlots THEN LoggedHistory(PushedAt(s)) ELSE log[s]]
BY DEF Fetch2, TagFor, PushedSlots, PushedAt

\* The slots behind the first c branches, and that each gets its branch.
SlotsFor(h, c, b, B) ==
  /\ c \in Nat /\ b \in Nat /\ c + b <= BQ_SIZE
  /\ bq_tail = At(h, c) /\ B = Branches(Predecoded)
  /\ \A k \in B : TagFor(k) = At(bq_tail, Count(B, k)) /\ Count(B, k) \in 0..(b - 1)
  /\ \A k \in B : TagFor(k).idx \in PushedSlots /\ PushedAt(TagFor(k).idx) = k
                  /\ TagFor(k) = At(h, c + Count(B, k)) /\ TagFor(k) \in Pointer(BQ_SIZE)
  /\ \A s \in PushedSlots : PushedAt(s) \in B /\ TagFor(PushedAt(s)).idx = s
  /\ \A i \in 0..(c - 1) : At(h, i).idx \notin PushedSlots /\ At(h, i).idx \in 0..(BQ_SIZE - 1)

\* It is so where there is room.
LEMMA SlotsAre ==
  ASSUME NEW h \in Pointer(BQ_SIZE), NEW c \in Nat, NEW b \in Nat, NEW B, NEW e \in Nat,
         c + b <= BQ_SIZE, bq_tail = At(h, c), DOMAIN Predecoded = 1..e,
         B = BranchesOf(Predecoded, e), b = Cardinality(B)
  PROVE  SlotsFor(h, c, b, B)
<1>1. PICK N \in Nat \ {0} : N = BQ_SIZE /\ c + b <= N
  BY FetchUnitAssumption
<1>2. B = Branches(Predecoded) /\ \A k : BranchesBefore(Predecoded, k) = Count(B, k)
  BY BranchesIs
<1>3. PICK t \in Pointer(BQ_SIZE) : t = bq_tail /\ t = At(h, c)
  <2>1. c + 0 <= BQ_SIZE /\ 0 \in Nat
    BY <1>1
  <2> QED BY <2>1, AtIs
<1>4. ASSUME NEW k \in B
      PROVE  /\ TagFor(k) = At(t, Count(B, k)) /\ Count(B, k) \in 0..(b - 1)
             /\ TagFor(k) = At(h, c + Count(B, k)) /\ TagFor(k) \in Pointer(BQ_SIZE)
  <2>1. TagFor(k) = At(t, Count(B, k))
    BY <1>2, <1>3 DEF TagFor, At
  <2>2. PICK i \in 0..(b - 1) : i = Count(B, k)
    BY BranchesType
  <2>3. i \in Nat /\ c + i <= BQ_SIZE /\ (c + i) + 0 <= BQ_SIZE /\ c + i \in Nat /\ 0 \in Nat
    BY <1>1
  <2>4. At(At(h, c), i) = At(h, c + i)
    BY <2>3, AtIs
  <2>5. At(h, c + i) \in Pointer(BQ_SIZE)
    BY <2>3, AtIs
  <2> QED BY <1>3, <2>1, <2>2, <2>4, <2>5
<1>5. ASSUME NEW j \in B, NEW k \in B, TagFor(j).idx = TagFor(k).idx PROVE j = k
  <2>1. PICK x \in 0..(b - 1), y \in 0..(b - 1) : x = Count(B, j) /\ y = Count(B, k)
    BY <1>4
  <2>2. x \in Nat /\ y \in Nat /\ x < BQ_SIZE /\ y < BQ_SIZE
    BY <1>1
  <2>3. At(t, x).idx = At(t, y).idx
    BY <1>4, <1>5, <2>1
  <2>4. x = y
    BY <2>2, <2>3, AtSlots
  <2> QED BY <2>1, <2>4, BranchesDiffer
<1>6. ASSUME NEW k \in B PROVE TagFor(k).idx \in PushedSlots /\ PushedAt(TagFor(k).idx) = k
  <2>1. TagFor(k).idx \in PushedSlots
    BY <1>2 DEF PushedSlots
  <2>2. PushedAt(TagFor(k).idx) \in B /\ TagFor(PushedAt(TagFor(k).idx)).idx = TagFor(k).idx
    BY <1>2 DEF PushedAt
  <2> QED BY <1>5, <2>1, <2>2
<1>7. ASSUME NEW s \in PushedSlots PROVE PushedAt(s) \in B /\ TagFor(PushedAt(s)).idx = s
  <2>1. PICK k \in B : s = TagFor(k).idx
    BY <1>2 DEF PushedSlots
  <2> QED BY <1>6, <2>1
<1>8. ASSUME NEW i \in 0..(c - 1)
      PROVE  At(h, i).idx \notin PushedSlots /\ At(h, i).idx \in 0..(BQ_SIZE - 1)
  <2>1. i \in Nat /\ i < BQ_SIZE
    BY <1>1
  <2>2. ASSUME At(h, i).idx \in PushedSlots PROVE FALSE
    <3>1. PICK k \in B : At(h, i).idx = TagFor(k).idx
      BY <1>2, <2>2 DEF PushedSlots
    <3>2. PICK x \in 0..(b - 1) : x = Count(B, k)
      BY <1>4
    <3>3. At(h, i).idx = At(h, c + x).idx
      BY <1>4, <3>1, <3>2
    <3>4. c + x \in Nat /\ c + x < BQ_SIZE /\ i # c + x
      BY <1>1
    <3> QED BY <2>1, <3>3, <3>4, AtSlots
  <2>3. At(h, i).idx \in 0..(BQ_SIZE - 1)
    BY <2>1, AtSlots
  <2> QED BY <2>2, <2>3
<1> QED BY <1>2, <1>3, <1>4, <1>6, <1>7, <1>8 DEF SlotsFor

\* The branches' predictions enter the branch queue, and the histories before them the log.
LEMMA PredictionsEnter ==
  ASSUME Fetching, Fetch2, NEW e \in Nat, PredecodesTo(e), NEW c \in Nat, c = InQueue,
         NEW b \in Nat, b = Cardinality(BranchesOf(Predecoded, e)), c + b <= BQ_SIZE,
         bq_tail = At(bq_head, c), fetch2_bhr = Path
  PROVE  /\ Logged(c + b, bq_head, bq', log', base)
         /\ After(base, Out(bq_head, c + b, bq')) = After(Path, Predictions(Predecoded))
         /\ After(Path, Predictions(Predecoded)) \in History
         /\ bq' \in [0..(BQ_SIZE - 1) -> BOOLEAN] /\ log' \in [0..(BQ_SIZE - 1) -> History]
<1>1. /\ bq_head \in Pointer(BQ_SIZE) /\ base \in History /\ fetch2_bhr \in History
      /\ bq \in [0..(BQ_SIZE - 1) -> BOOLEAN] /\ log \in [0..(BQ_SIZE - 1) -> History]
  BY DEF Fetching, TypeOK
<1>2. PICK h \in Pointer(BQ_SIZE), p \in Seq(Instruction) : h = bq_head /\ p = Predecoded
  <2>1. Predecoded \in Seq(Instruction)
    BY DEF PredecodesTo
  <2> QED BY <1>1, <2>1
<1>3. Len(p) = e /\ DOMAIN p = 1..e /\ \A k \in 1..e : p[k] \in Instruction
  <2>1. Len(p) = e
    BY <1>2 DEF PredecodesTo
  <2> QED BY <2>1, LenProperties, ElementOfSeq
<1>4. PICK o \in Seq(BOOLEAN) : o = Predictions(p) /\ Len(o) = b /\ Bundled(p, e)
  BY <1>2, <1>3, FetchedBundle
<1>5. PICK B : B = BranchesOf(p, e) /\ b = Cardinality(B) /\ B \subseteq 1..e
  <2>1. BranchesOf(p, e) \subseteq 1..e
    BY DEF BranchesOf
  <2> QED BY <1>2, <2>1
<1>6. SlotsFor(h, c, b, B)
  BY <1>2, <1>3, <1>5, SlotsAre
<1>7. /\ \A k \in B : /\ TagFor(k).idx \in PushedSlots /\ PushedAt(TagFor(k).idx) = k
                      /\ TagFor(k) = At(h, c + Count(B, k)) /\ TagFor(k) \in Pointer(BQ_SIZE)
      /\ \A s \in PushedSlots : PushedAt(s) \in B
      /\ \A i \in 0..(c - 1) : At(h, i).idx \notin PushedSlots /\ At(h, i).idx \in 0..(BQ_SIZE - 1)
  BY <1>6 DEF SlotsFor
<1>8. ASSUME NEW k \in 1..e
      PROVE  /\ LoggedHistory(k) = After(Path, SubSeq(o, 1, Count(B, k)))
             /\ LoggedHistory(k) \in History
  <2>1. PICK p2 : p2 = SubSeq(p, 1, k - 1)
    OBVIOUS
  <2>2. k - 1 \in 0..e /\ k - 1 \in Nat /\ k - 1 \in Int /\ 1 \in Int /\ \A j \in 1..(k - 1) : j \in 1..e
    OBVIOUS
  <2>3. \A j \in 1..(k - 1) : p[j] \in Instruction
    BY <1>3, <2>2
  <2>4. /\ p2 \in Seq(Instruction)
        /\ Len(p2) = IF 1 <= k - 1 THEN (k - 1) - 1 + 1 ELSE 0
        /\ \A j \in 1..((k - 1) - 1 + 1) : p2[j] = p[1 + j - 1]
    BY <2>1, <2>2, <2>3, SubSeqProperties
  <2>5. Len(p2) = k - 1 /\ \A j \in 1..(k - 1) : p2[j] = p[j]
    <3>1. (k - 1) - 1 + 1 = k - 1 /\ \A j \in 1..(k - 1) : 1 + j - 1 = j
      OBVIOUS
    <3> QED BY <2>2, <2>4, <3>1
  <2>6. DOMAIN p2 = 1..(k - 1)
    BY <2>4, <2>5, LenProperties
  <2>7. \A j \in 1..(k - 1) : p2[j].branch = p[j].branch /\ p2[j].taken = p[j].taken
    BY <2>5
  <2>8. PICK i \in 0..e : i = k - 1 /\ i + 1 = k
    BY <2>2
  <2>9. Predictions(p2) = SubSeq(Predictions(p), 1, Count(BranchesOf(p, e), i + 1))
    <3>1. /\ Bundled(p, e) /\ DOMAIN p2 = 1..i
          /\ \A j \in 1..i : p2[j].branch = p[j].branch /\ p2[j].taken = p[j].taken
      BY <1>4, <2>6, <2>7, <2>8
    <3>2. /\ Bundled(p2, i)
          /\ Predictions(p2) = SubSeq(Predictions(p), 1, Count(BranchesOf(p, e), i + 1))
          /\ Count(BranchesOf(p, e), i + 1) \in 0..Len(Predictions(p))
      BY <3>1, PredictionsFirst
    <3> QED BY <3>2
  <2>10. Predictions(p2) \in Seq(BOOLEAN)
    BY <2>4, FetchedBundle
  <2>11. LoggedHistory(k) = After(fetch2_bhr, Predictions(p2))
    BY <1>2, <2>1 DEF LoggedHistory
  <2>12. After(fetch2_bhr, Predictions(p2)) \in History
    BY <1>1, <2>10, AfterType
  <2> QED BY <1>4, <1>5, <2>8, <2>9, <2>11, <2>12
<1>9. PICK q2, lg2 : q2 = bq' /\ lg2 = log'
  OBVIOUS
<1>10. /\ q2 \in [0..(BQ_SIZE - 1) -> BOOLEAN]
       /\ \A s \in 0..(BQ_SIZE - 1) : q2[s] = IF s \in PushedSlots THEN p[PushedAt(s)].taken ELSE bq[s]
  <2>1. q2 = [s \in 0..(BQ_SIZE - 1) |-> IF s \in PushedSlots THEN p[PushedAt(s)].taken ELSE bq[s]]
    BY <1>1, <1>2, <1>9, Fetch2Is
  <2>2. ASSUME NEW s \in PushedSlots PROVE p[PushedAt(s)].taken \in BOOLEAN
    <3>1. p[PushedAt(s)] \in Instruction
      BY <1>3, <1>5, <1>7
    <3> QED BY <3>1 DEF Instruction
  <2> QED BY <1>1, <2>1, <2>2
<1>11. /\ lg2 \in [0..(BQ_SIZE - 1) -> History]
       /\ \A s \in 0..(BQ_SIZE - 1) : lg2[s] = IF s \in PushedSlots THEN LoggedHistory(PushedAt(s)) ELSE log[s]
  <2>1. lg2 = [s \in 0..(BQ_SIZE - 1) |-> IF s \in PushedSlots THEN LoggedHistory(PushedAt(s)) ELSE log[s]]
    BY <1>1, <1>9, Fetch2Is
  <2>2. ASSUME NEW s \in PushedSlots PROVE LoggedHistory(PushedAt(s)) \in History
    BY <1>5, <1>7, <1>8
  <2> QED BY <1>1, <2>1, <2>2
<1>12. SameOutcomes(c, h, bq, q2) /\ SameOutcomes(c, h, log, lg2)
  BY <1>7, <1>10, <1>11 DEF SameOutcomes
<1>13. ASSUME NEW j \in 1..b
       PROVE  /\ q2[At(h, c + (j - 1)).idx] = o[j]
              /\ lg2[At(h, c + (j - 1)).idx] = After(Path, SubSeq(o, 1, j - 1))
  <2>1. PICK k \in B : k = NthBranch(p, j) /\ Count(B, k) = j - 1 /\ o[j] = p[k].taken
    <3>1. NthBranch(p, j) \in B /\ Count(B, NthBranch(p, j)) = j - 1
      BY <1>3, <1>5, NthIs
    <3>2. o[j] = p[NthBranch(p, j)].taken
      BY <1>4, <1>5, PredictionsType
    <3> QED BY <3>1, <3>2
  <2>2. PICK s : s = At(h, c + (j - 1)).idx /\ s = TagFor(k).idx
    BY <1>7, <2>1
  <2>3. s \in PushedSlots /\ PushedAt(s) = k /\ s \in 0..(BQ_SIZE - 1)
    BY <1>7, <2>2 DEF Pointer
  <2>4. k \in 1..e
    BY <1>5
  <2>5. LoggedHistory(k) = After(Path, SubSeq(o, 1, Count(B, k)))
    BY <1>8, <2>4
  <2> QED BY <1>10, <1>11, <2>1, <2>2, <2>3, <2>5
<1>14. Entered(c, o, h, q2)
  BY <1>4, <1>13 DEF Entered
<1>15. EnteredLog(c, o, h, lg2, Path)
  BY <1>4, <1>13 DEF EnteredLog
<1>16. Path = After(base, Out(h, c, bq)) /\ Logged(c, h, bq, log, base)
  BY <1>2 DEF Path, Fetching, OnPath
<1>17. LoggedOn(c, o, h, q2, lg2, base, Path)
  <2>1. c + Len(o) <= BQ_SIZE
    BY <1>4
  <2>2. EnteredLog(c, o, h, lg2, After(base, Out(h, c, bq)))
    BY <1>15, <1>16
  <2>3. LoggedOn(c, o, h, q2, lg2, base, After(base, Out(h, c, bq)))
    BY <1>1, <1>10, <1>12, <1>14, <1>16, <2>1, <2>2, LogAppend
  <2> QED BY <1>16, <2>3
<1>18. After(Path, o) \in History
  BY <1>1, AfterType
<1> QED BY <1>2, <1>4, <1>9, <1>10, <1>11, <1>17, <1>18 DEF LoggedOn

\* The branch queue has room for the branches of the bundle.
LEMMA BundleFits ==
  ASSUME Fetching, Predecode, NEW e, NEW m, PredecodedOf(e, m)
  PROVE  /\ Cardinality(BranchesOf(Predecoded, e)) \in Nat
         /\ InQueue + Cardinality(BranchesOf(Predecoded, e)) <= BQ_SIZE
<1>1. PICK n \in Nat, i \in Nat, w \in Seq(Instruction), p \in Seq(Instruction) :
        n = Len(InFlight) /\ i = m + e /\ i \in 0..n /\ w = InFlight /\ p = Predecoded
  <2>1. Len(InFlight) \in Nat
    BY RobFirst
  <2>2. m + e \in Nat /\ m + e \in 0..Len(InFlight)
    BY <2>1 DEF PredecodedOf
  <2>3. InFlight \in Seq(Instruction) /\ Predecoded \in Seq(Instruction)
    BY RobFirst DEF PredecodedOf, PredecodesTo
  <2> QED BY <2>1, <2>2, <2>3
<1>2. /\ e \in Nat /\ m \in Nat /\ m = Len(Fetched)
      /\ \A j \in 1..m : w[j] = Fetched[j]
      /\ \A k \in 1..e : /\ w[m + k] = FETCH2[k] /\ p[k] = FETCH2[k] /\ FETCH2[k].half = "whole"
                         /\ FETCH2[k].branch <=> FETCH2[k].kind = "cond"
  BY <1>1 DEF PredecodedOf, PredecodesTo
<1>3. ASSUME NEW j \in 1..i
      PROVE  /\ w[j].branch <=> w[j].kind = "cond"
             /\ w[j].half # "whole" => w[j].kind = "plain"
  <2>1. CASE j \in 1..m
    <3>1. FormedOf(Fetched, m)
      BY <1>2 DEF Fetching, WellFormed
    <3> QED BY <1>2, <2>1, <3>1 DEF FormedOf
  <2>2. CASE j \notin 1..m
    <3>1. PICK k \in 1..e : j = m + k
      <4>1. j - m \in 1..e /\ j = m + (j - m)
        BY <1>1, <1>2, <2>2
      <4> QED BY <4>1
    <3>2. w[j] = FETCH2[k]
      BY <1>2, <3>1
    <3> QED BY <1>2, <3>2
  <2> QED BY <2>1, <2>2
<1>4. FormedOf(w, i)
  BY <1>3 DEF FormedOf
<1>5. Cardinality(BranchesOf(w, i)) <= BQ_SIZE
  <2>1. PayOf(w, n, pay_head, pay_tail, pay_length) /\ pay_head \in PayIndex
    BY <1>1 DEF Fetching, TypeOK, PayHolds
  <2>2. \A j \in 1..i : w[j] = w[j]
    OBVIOUS
  <2> QED BY <1>1, <1>4, <2>1, <2>2, RoomForBranches
<1>6. CountedOn(Fetched, w, p, m, e)
  <2>1. SameBranches(Fetched, w, m) /\ Appended(w, m, p, e)
    BY <1>2 DEF SameBranches, Appended
  <2> QED BY <1>2, <2>1, BranchesAppend
<1>7. Cardinality(BranchesOf(p, e)) \in Nat
  BY <1>2, BranchesType
<1> QED BY <1>1, <1>2, <1>5, <1>6, <1>7 DEF CountedOn, InQueue

\* The bundle moves on behind the instructions fetched before.
LEMMA BundleMoves ==
  ASSUME Fetching, Fetch2, NEW e, NEW m, PredecodedOf(e, m)
  PROVE  \E w2 \in Seq(Instruction) :
           /\ w2 = Fetched' /\ w2 = InFlight' /\ Len(w2) = m + e
           /\ DECODE' \in Seq(Instruction) /\ Len(DECODE') = e /\ WholeOf(DECODE', e)
           /\ \A j \in 1..m : w2[j] = Fetched[j]
           /\ \A k \in 1..e : /\ w2[m + k].kind = FETCH2[k].kind /\ w2[m + k].half = FETCH2[k].half
                              /\ w2[m + k].index = FETCH2[k].index
                              /\ w2[m + k].branch = Predecoded[k].branch
                              /\ Predecoded[k] = FETCH2[k]
                              /\ k \in BranchesOf(Predecoded, e) => w2[m + k].tag = TagFor(k)
<1>1. /\ rob \in Seq(Instruction) /\ RENAME2 \in Seq(Instruction) /\ FQ \in Seq(Instruction)
      /\ bq_tail \in Pointer(BQ_SIZE) /\ Fetched \in Seq(Instruction)
  BY QueueIs DEF Fetching, TypeOK, QueueOf, StagesOf, InFlightOf
<1>2. /\ DECODE = <<>> /\ FETCH2' = <<>> /\ rob' = rob /\ RENAME2' = RENAME2 /\ FQ' = FQ
  BY DEF Fetch2
<1>3. /\ e \in Nat /\ m \in Nat /\ m = Len(Fetched) /\ PredecodesTo(e)
      /\ \A k \in 1..e : FETCH2[k].half = "whole"
  BY DEF PredecodedOf
<1>4. PICK p \in Seq(Instruction) :
        /\ p = Predecoded /\ Len(p) = e /\ DOMAIN p = 1..e
        /\ \A k \in 1..e : p[k] = FETCH2[k] /\ p[k] \in Instruction
  <2>1. Predecoded \in Seq(Instruction) /\ Len(Predecoded) = e /\ \A k \in 1..e : Predecoded[k] = FETCH2[k]
    BY <1>3 DEF PredecodesTo
  <2>2. DOMAIN Predecoded = 1..e /\ \A k \in 1..e : Predecoded[k] \in Instruction
    BY <2>1, LenProperties, ElementOfSeq
  <2> QED BY <2>1, <2>2
<1>5. Branches(p) = BranchesOf(p, e) /\ \A k : BranchesBefore(p, k) = Count(BranchesOf(p, e), k)
  BY <1>3, <1>4, BranchesIs
<1>6. PICK d : d = DECODE' /\ d = [k \in 1..e |-> IF k \in BranchesOf(p, e)
                                                  THEN [p[k] EXCEPT !.tag = TagFor(k), !.taken = FALSE]
                                                  ELSE p[k]]
  <2>1. DECODE' = [k \in DOMAIN Predecoded |-> IF k \in Branches(Predecoded)
                                               THEN [Predecoded[k] EXCEPT !.tag = TagFor(k), !.taken = FALSE]
                                               ELSE Predecoded[k]]
    BY Fetch2Is
  <2>2. p = Predecoded /\ DOMAIN p = 1..e /\ Branches(p) = BranchesOf(p, e)
    BY <1>4, <1>5
  <2> QED BY <2>1, <2>2
<1>7. ASSUME NEW k \in 1..e
      PROVE  /\ d[k] \in Instruction /\ d[k].kind = p[k].kind /\ d[k].half = p[k].half
             /\ d[k].index = p[k].index /\ d[k].branch = p[k].branch
             /\ k \in BranchesOf(p, e) => d[k].tag = TagFor(k)
  <2>1. CASE k \in BranchesOf(p, e)
    <3>1. TagFor(k) \in Pointer(BQ_SIZE)
      <4>1. Count(BranchesOf(p, e), k) \in 0..(Cardinality(BranchesOf(p, e)) - 1)
        BY <1>3, <2>1, BranchesType
      <4>2. InQueue \in Nat /\ Predecode
        BY QueueIs DEF QueueOf, Fetch2
      <4>3. PICK b \in Nat : b = Cardinality(BranchesOf(p, e)) /\ b <= BQ_SIZE
        BY <1>4, <4>2, BundleFits, FetchUnitAssumption
      <4>4. PICK i \in Nat : i = Count(BranchesOf(p, e), k) /\ i \in 0..BQ_SIZE
        BY <4>1, <4>3, FetchUnitAssumption
      <4>5. TagFor(k) = AdvanceBy(bq_tail, i, BQ_SIZE)
        BY <1>4, <1>5, <4>4 DEF TagFor
      <4> QED BY <1>1, <4>4, <4>5, AdvanceByType, FetchUnitAssumption
    <3>2. p[k] \in Instruction
      BY <1>4
    <3>3. d[k] = [p[k] EXCEPT !.tag = TagFor(k), !.taken = FALSE]
      BY <1>6, <2>1
    <3> QED BY <3>1, <3>2, <3>3 DEF Instruction
  <2>2. CASE k \notin BranchesOf(p, e)
    BY <1>4, <1>6, <2>2
  <2> QED BY <2>1, <2>2
<1>8. d \in Seq(Instruction) /\ Len(d) = e
  <2>1. d \in [1..e -> Instruction]
    BY <1>6, <1>7
  <2> QED BY <1>3, <2>1, FunctionIsSequence
<1>9. WholeOf(d, e)
  BY <1>3, <1>4, <1>7 DEF WholeOf
<1>10. PICK w2 : w2 = Fetched \o d
  OBVIOUS
<1>11. Fetched' = w2 /\ InFlight' = w2
  <2>1. rob \o RENAME2 \o FQ \in Seq(Instruction)
    BY <1>1, ConcatProperties
  <2>2. Fetched = rob \o RENAME2 \o FQ
    BY <1>2, <2>1, ConcatEmptySeq DEF Fetched
  <2>3. Fetched' = Fetched \o d
    BY <1>2, <1>6, <2>2 DEF Fetched
  <2>4. Fetched \o d \in Seq(Instruction)
    BY <1>1, <1>8, ConcatProperties
  <2>5. (Fetched \o d) \o <<>> = Fetched \o d
    BY <2>4, ConcatEmptySeq
  <2>6. InFlight' = Fetched' \o <<>>
    BY <1>2 DEF InFlight
  <2> QED BY <1>10, <2>3, <2>5, <2>6
<1>12. Behind(w2, Fetched, m, d, e)
  BY <1>1, <1>3, <1>8, <1>10, BehindEach
<1>13. /\ w2 \in Seq(Instruction) /\ Len(w2) = m + e
       /\ \A j \in 1..m : w2[j] = Fetched[j]
       /\ \A k \in 1..e : w2[m + k] = d[k]
  BY <1>12 DEF Behind
<1>14. ASSUME NEW k \in 1..e
       PROVE  /\ w2[m + k].kind = FETCH2[k].kind /\ w2[m + k].half = FETCH2[k].half
              /\ w2[m + k].index = FETCH2[k].index
              /\ w2[m + k].branch = Predecoded[k].branch
              /\ Predecoded[k] = FETCH2[k]
              /\ k \in BranchesOf(Predecoded, e) => w2[m + k].tag = TagFor(k)
  BY <1>4, <1>7, <1>13
<1> QED BY <1>6, <1>8, <1>9, <1>11, <1>13, <1>14

\* fetch2() moves the bundle on.
LEMMA Fetch2Step ==
  ASSUME Fetching, Fetch2
  PROVE  Fetching'
<1>1. /\ TypeOK /\ Predecode /\ FETCH2 # <<>> /\ bq_head \in Pointer(BQ_SIZE)
      /\ base \in History /\ fetch_active \in BOOLEAN
  BY DEF Fetching, Fetch2, Predecode, TypeOK
<1>2. /\ FETCH2' = <<>> /\ fetch2_bhr' = NoHistory /\ pay_checkpoint' = 0
      /\ UNCHANGED <<FQ, RENAME2, rob, bq_head, bhr, base>>
  BY DEF Fetch2, Fetch2Done
<1>3. PICK e, m : PredecodedOf(e, m)
  BY <1>1, BundleStays
<1>4. /\ e \in Nat /\ m \in Nat /\ m = Len(Fetched) /\ e \in 1..Len(FETCH2)
      /\ PredecodesTo(e) /\ \A j \in 1..m : InFlight[j] = Fetched[j]
      /\ \A k \in 1..e : InFlight[m + k] = FETCH2[k]
      /\ fetch_active' => fetch_active /\ Predecoded = FETCH2
  BY <1>3 DEF PredecodedOf
<1>5. PICK w2 \in Seq(Instruction) :
        /\ w2 = Fetched' /\ w2 = InFlight' /\ Len(w2) = m + e
        /\ DECODE' \in Seq(Instruction) /\ Len(DECODE') = e /\ WholeOf(DECODE', e)
        /\ \A j \in 1..m : w2[j] = Fetched[j]
        /\ \A k \in 1..e : /\ w2[m + k].kind = FETCH2[k].kind /\ w2[m + k].half = FETCH2[k].half
                           /\ w2[m + k].index = FETCH2[k].index
                           /\ w2[m + k].branch = Predecoded[k].branch
                           /\ Predecoded[k] = FETCH2[k]
                           /\ k \in BranchesOf(Predecoded, e) => w2[m + k].tag = TagFor(k)
  BY <1>3, BundleMoves
<1>6. PICK n \in Nat : n = m + e /\ n = Len(w2)
  BY <1>4, <1>5
<1>7. ASSUME NEW j \in 1..n
      PROVE  j \in 1..m \/ \E k \in 1..e : j = m + k
  <2>1. CASE j \notin 1..m
    <3>1. j - m \in 1..e /\ j = m + (j - m)
      BY <1>4, <1>6, <2>1
    <3> QED BY <3>1
  <2> QED BY <2>1
<1>8. /\ PayOf(w2, n, pay_head', pay_tail', pay_length') /\ PairedOf(w2, n, pay_tail')
      /\ pay_head' \in PayIndex /\ pay_tail' \in PayIndex /\ pay_length' \in 0..PAYLOAD_BUFFER_SIZE
  <2>1. ASSUME NEW j \in 1..(m + e)
        PROVE  w2[j].half = InFlight[j].half /\ w2[j].index = InFlight[j].index
    <3>1. CASE j \in 1..m
      BY <1>4, <1>5, <3>1
    <3>2. ASSUME NEW k \in 1..e, j = m + k
          PROVE  w2[j].half = InFlight[j].half /\ w2[j].index = InFlight[j].index
      <4>1. w2[m + k].half = FETCH2[k].half /\ w2[m + k].index = FETCH2[k].index
        BY <1>5
      <4>2. InFlight[m + k] = FETCH2[k]
        BY <1>4
      <4> QED BY <3>2, <4>1, <4>2
    <3> QED BY <1>6, <1>7, <3>1, <3>2
  <2> QED BY <1>1, <1>3, <1>6, <2>1, PredecodedPay
<1>9. PayHolds'
  BY <1>5, <1>6, <1>8 DEF PayHolds
<1>10. FormedOf(w2, n)
  <2>1. FormedOf(Fetched, m)
    BY <1>4 DEF Fetching, WellFormed
  <2>2. \A k \in 1..e : /\ FETCH2[k].half = "whole"
                        /\ FETCH2[k].branch <=> FETCH2[k].kind = "cond"
    BY <1>3 DEF PredecodedOf
  <2>3. ASSUME NEW j \in 1..n
        PROVE  /\ w2[j].branch <=> w2[j].kind = "cond"
               /\ w2[j].half # "whole" => w2[j].kind = "plain"
    <3>1. CASE j \in 1..m
      BY <1>5, <2>1, <3>1 DEF FormedOf
    <3>2. ASSUME NEW k \in 1..e, j = m + k
          PROVE  /\ w2[j].branch <=> w2[j].kind = "cond"
                 /\ w2[j].half # "whole" => w2[j].kind = "plain"
      BY <1>5, <2>2, <3>2
    <3> QED BY <1>7, <3>1, <3>2
  <2> QED BY <2>3 DEF FormedOf
<1>11. WellFormed'
  <2>1. Len(<<>>) = 0 /\ 1..0 = {}
    OBVIOUS
  <2> QED BY <1>2, <1>5, <1>6, <1>10, <2>1 DEF WellFormed, WholeOf, EndsAtException
<1>12. SerializersAreAlone'
  <2>1. /\ \A j \in 1..m : Fetched[j].kind \notin {"serial", "except"}
        /\ \A k \in 1..e : FETCH2[k].kind \in {"serial", "except"} => k = e
        /\ FETCH2[e].kind \in {"serial", "except"} => ~fetch_active'
    BY <1>3 DEF PredecodedOf
  <2>2. ASSUME NEW j \in 1..n, w2[j].kind \in {"serial", "except"} PROVE j = n /\ ~fetch_active'
    <3>1. j \notin 1..m
      BY <1>5, <2>1, <2>2
    <3>2. PICK k \in 1..e : j = m + k
      BY <1>7, <3>1
    <3>3. FETCH2[k].kind \in {"serial", "except"}
      BY <1>5, <2>2, <3>2
    <3>4. k = e
      BY <2>1, <3>3
    <3> QED BY <1>6, <2>1, <3>2, <3>3, <3>4
  <2> QED BY <1>5, <1>6, <2>2 DEF SerializersAreAlone
<1>13. Checkpointed'
  BY <1>2 DEF Checkpointed
<1>14. PICK c \in Nat : c = InQueue /\ c = Cardinality(BranchesOf(Fetched, m)) /\ c <= BQ_SIZE
  BY <1>4, QueueIs DEF QueueOf, InQueue
<1>15. PICK p, b : p = Predecoded /\ b = Cardinality(BranchesOf(p, e))
  OBVIOUS
<1>16. SameBranches(Fetched, w2, m) /\ Appended(w2, m, p, e)
  BY <1>5, <1>15 DEF SameBranches, Appended
<1>17. Cardinality(BranchesOf(w2, n)) = c + b
  <2>1. CountedOn(Fetched, w2, p, m, e)
    BY <1>4, <1>16, BranchesAppend
  <2> QED BY <1>6, <1>14, <1>15, <2>1 DEF CountedOn
<1>18. b \in Nat /\ c + b <= BQ_SIZE
  BY <1>1, <1>3, <1>14, <1>15, BundleFits
<1>19. TagsOf(Fetched, m, bq_head, bq_tail) /\ bq_tail = At(bq_head, c)
  BY <1>4, <1>14 DEF Fetching, TagsFollow, TagsOf
<1>20. TagsOf(w2, n, bq_head, At(bq_tail, b))
  <2>1. PICK h \in Pointer(BQ_SIZE), t \in Pointer(BQ_SIZE) : h = bq_head /\ t = bq_tail
    BY <1>1 DEF TypeOK
  <2>2. DOMAIN p = 1..e
    BY <1>4, <1>15, LenProperties DEF PredecodesTo
  <2>3. ASSUME NEW k \in BranchesOf(p, e) PROVE w2[m + k].tag = At(t, Count(BranchesOf(p, e), k))
    <3>1. k \in 1..e
      BY DEF BranchesOf
    <3>2. w2[m + k].tag = TagFor(k)
      BY <1>5, <1>15, <3>1
    <3>3. BranchesBefore(p, k) = Count(BranchesOf(p, e), k)
      BY <1>4, <2>2, BranchesIs
    <3> QED BY <1>15, <2>1, <3>2, <3>3 DEF TagFor, At
  <2>4. Cardinality(BranchesOf(Fetched, m)) + Cardinality(BranchesOf(p, e)) <= BQ_SIZE
    BY <1>14, <1>15, <1>18
  <2>5. TagsOf(Fetched, m, h, t)
    BY <1>19, <2>1
  <2>6. TagsOf(w2, m + e, h, At(t, Cardinality(BranchesOf(p, e))))
    BY <1>4, <1>16, <2>3, <2>4, <2>5, TagPush
  <2> QED BY <1>6, <1>15, <2>1, <2>6
<1>21. bq_tail' = At(bq_tail, b) /\ bq_tail' \in Pointer(BQ_SIZE)
  <2>1. DOMAIN Predecoded = 1..e
    BY <1>4, LenProperties DEF PredecodesTo
  <2>2. Branches(Predecoded) = BranchesOf(Predecoded, e)
    BY <1>4, <2>1, BranchesIs
  <2>3. bq_tail' = At(bq_tail, b)
    BY <1>15, <2>2, Fetch2Is DEF At
  <2>4. bq_tail \in Pointer(BQ_SIZE) /\ b \in Nat /\ b + 0 <= BQ_SIZE /\ 0 \in Nat
    BY <1>1, <1>18, FetchUnitAssumption DEF TypeOK
  <2>5. At(bq_tail, b) \in Pointer(BQ_SIZE)
    BY <2>4, AtIs
  <2> QED BY <2>3, <2>5
<1>22. TagsFollow'
  BY <1>2, <1>5, <1>6, <1>20, <1>21 DEF TagsFollow
<1>23. /\ Logged(c + b, bq_head, bq', log', base)
       /\ After(base, Out(bq_head, c + b, bq')) = After(Path, Predictions(Predecoded))
       /\ After(Path, Predictions(Predecoded)) \in History
       /\ bq' \in [0..(BQ_SIZE - 1) -> BOOLEAN] /\ log' \in [0..(BQ_SIZE - 1) -> History]
  <2>1. fetch2_bhr = Path
    BY <1>1 DEF Fetching, OnPath
  <2> QED BY <1>4, <1>14, <1>15, <1>18, <1>19, <2>1, PredictionsEnter
<1>24. OnPath'
  <2>1. InQueue' = c + b
    BY <1>5, <1>6, <1>17 DEF InQueue
  <2>2. PICK y \in History : y = Path' /\ y = After(Path, Predictions(Predecoded))
    BY <1>2, <1>23, <2>1 DEF Path
  <2>3. fetch_active' => bhr' = y
    BY <1>2, <1>4, <2>2 DEF Fetching, OnPath
  <2>4. After(y, Predictions(<<>>)) = y
    BY PredictionsNone, AfterType, EmptySeq
  <2> QED BY <1>2, <1>23, <2>1, <2>2, <2>3, <2>4 DEF OnPath
<1>25. TypeOK'
  <2>1. e <= instr_per_cycle
    <3>1. Len(FETCH2) \in Nat /\ Len(FETCH2) <= instr_per_cycle /\ instr_per_cycle \in Nat
      BY <1>1, LenProperties, FetchUnitAssumption DEF TypeOK
    <3> QED BY <1>4, <3>1
  <2>2. fetch_active' \in BOOLEAN
    BY <1>1 DEF Predecode
  <2>3. NoHistory \in History /\ 0 \in PayIndex
    BY PaySize DEF NoHistory, History, PayIndex
  <2>4. Len(<<>>) = 0 /\ <<>> \in Seq(Instruction) /\ 0 <= instr_per_cycle
    BY FetchUnitAssumption
  <2> QED BY <1>1, <1>2, <1>5, <1>8, <1>21, <1>23, <2>1, <2>2, <2>3, <2>4 DEF TypeOK
<1> QED BY <1>9, <1>11, <1>12, <1>13, <1>22, <1>24, <1>25 DEF Fetching

-----------------------------------------------------------------------------
(* Decode *)

\* The second half of a pair of entries is an entry.
LEMMA OddEntry ==
  ASSUME NEW x \in PayIndex, x % 2 = 0
  PROVE  x + 1 \in PayIndex
BY PaySize, FetchUnitAssumption DEF PayIndex

\* What decode makes of the d instructions behind the first a of the n in flight: c halves more.
DecodedOf(a, d, n, c, S) ==
  /\ a \in Nat /\ d \in Nat \ {0} /\ n \in Nat /\ a + d <= n /\ a + d \in Nat
  /\ S \in SUBSET (1..d) /\ c \in 0..d /\ c = Cardinality(S)
  /\ Len(Fetched) = a + d /\ Len(InFlight) = n
  /\ Len(Fetched') = a + d + c /\ Len(InFlight') = n + c
  /\ WholeFrom(Fetched, a, d) /\ WholeFrom(InFlight, a, d)
  /\ SplitAs(Fetched, a + d, Fetched', a, d, S) /\ SplitAs(InFlight, n, InFlight', a, d, S)
  /\ \A k \in S : /\ Fetched[a + k].kind = "plain" /\ ~Fetched[a + k].branch
                  /\ ~InFlight[a + k].branch
  /\ FQ' \in Seq(Instruction) /\ Len(FQ') <= fq_size

\* What is to be decoded is whole, and has the second of its entries.
LEMMA DecodeWhole ==
  ASSUME Fetching, NEW d \in Nat, d = Len(DECODE), NEW a \in Nat,
         a + d = Len(Fetched), \A k \in 1..d : Fetched[a + k] = DECODE[k]
  PROVE  /\ WholeFrom(Fetched, a, d) /\ WholeFrom(InFlight, a, d)
         /\ \A k \in 1..d : /\ DECODE[k] \in Instruction /\ DECODE[k].index + 1 \in PayIndex
                            /\ InFlight[a + k] = DECODE[k]
                            /\ DECODE[k].branch <=> DECODE[k].kind = "cond"
<1>1. DECODE \in Seq(Instruction) /\ StagesOf
  BY QueueIs DEF Fetching, TypeOK, QueueOf
<1>2. PICK n \in Nat : n = Len(InFlight) /\ PairedOf(InFlight, n, pay_tail) /\ a + d <= n
  BY <1>1 DEF Fetching, PayHolds, StagesOf, InFlightOf
<1>3. ASSUME NEW k \in 1..d
      PROVE  /\ DECODE[k] \in Instruction /\ DECODE[k].half = "whole"
             /\ InFlight[a + k] = DECODE[k] /\ DECODE[k].index + 1 \in PayIndex
             /\ DECODE[k].branch <=> DECODE[k].kind = "cond"
  <2>1. DECODE[k] \in Instruction
    BY <1>1, ElementOfSeq
  <2>2. DECODE[k].half = "whole"
    BY DEF Fetching, WellFormed, WholeOf
  <2>3. a + k \in 1..(a + d) /\ a + k \in 1..n
    BY <1>2
  <2>4. InFlight[a + k] = DECODE[k]
    BY <1>1, <2>3 DEF StagesOf, InFlightOf
  <2>5. DECODE[k].index \in PayIndex /\ DECODE[k].index % 2 = 0
    <3>1. InFlight[a + k].half # "lower" => InFlight[a + k].index % 2 = 0
      BY <1>2, <2>3 DEF PairedOf
    <3> QED BY <2>1, <2>2, <2>4, <3>1 DEF Instruction
  <2>6. DECODE[k].index + 1 \in PayIndex
    BY <2>5, OddEntry
  <2>7. Fetched[a + k].branch <=> Fetched[a + k].kind = "cond"
    BY <2>3 DEF Fetching, WellFormed, FormedOf
  <2> QED BY <2>1, <2>2, <2>4, <2>6, <2>7
<1> QED BY <1>3 DEF WholeFrom

\* decode() does it.
LEMMA DecodedIs ==
  ASSUME Fetching, NEW stores \in SUBSET (1..Len(DECODE)), Decode(stores)
  PROVE  \E a, d, n, c : DecodedOf(a, d, n, c, stores)
<1>1. /\ rob \in Seq(Instruction) /\ RENAME2 \in Seq(Instruction) /\ FQ \in Seq(Instruction)
      /\ DECODE \in Seq(Instruction) /\ FETCH2 \in Seq(Instruction) /\ StagesOf
  BY QueueIs DEF Fetching, TypeOK, QueueOf
<1>2. /\ UNCHANGED <<rob, RENAME2, FETCH2>> /\ DECODE' = <<>> /\ DECODE # <<>>
      /\ fq_size - Len(FQ) >= 2 * Len(DECODE)
      /\ \A k \in stores : DECODE[k].kind = "plain"
  BY DEF Decode
<1>3. PICK D \in Seq(Instruction), d \in Nat \ {0} : D = DECODE /\ d = Len(D) /\ DOMAIN D = 1..d
  <2>1. Len(DECODE) \in Nat /\ DOMAIN DECODE = 1..Len(DECODE) /\ Len(DECODE) # 0
    BY <1>1, <1>2, LenProperties, EmptySeq
  <2> QED BY <1>1, <2>1
<1>4. stores \in SUBSET (1..d)
  BY <1>3
<1>5. PICK s : s = [k \in 1..d |-> IF k \in stores THEN Halves(D[k]) ELSE <<D[k]>>]
  OBVIOUS
<1>6. PICK y : y = FlattenSeq(s) /\ FQ' = FQ \o y
  BY <1>3, <1>5 DEF Decode
<1>7. PICK x : x = rob \o RENAME2 \o FQ
  OBVIOUS
<1>8. PICK a \in Nat : x \in Seq(Instruction) /\ a = Len(x)
  <2>1. x \in Seq(Instruction)
    BY <1>1, <1>7, ConcatProperties
  <2> QED BY <2>1, LenProperties
<1>9. Fetched = x \o D
  BY <1>3, <1>7 DEF Fetched
<1>10. Behind(Fetched, x, a, D, d)
  BY <1>3, <1>8, <1>9, BehindEach
<1>11. Len(Fetched) = a + d /\ \A k \in 1..d : Fetched[a + k] = DECODE[k]
  BY <1>3, <1>10 DEF Behind
<1>12. /\ WholeFrom(Fetched, a, d) /\ WholeFrom(InFlight, a, d)
       /\ \A k \in 1..d : /\ D[k] \in Instruction /\ D[k].index + 1 \in PayIndex
                          /\ InFlight[a + k] = D[k]
                          /\ D[k].branch <=> D[k].kind = "cond"
  <2>1. d \in Nat /\ d = Len(DECODE) /\ a + d = Len(Fetched)
    BY <1>3, <1>11
  <2>2. /\ WholeFrom(Fetched, a, d) /\ WholeFrom(InFlight, a, d)
        /\ \A k \in 1..d : /\ DECODE[k] \in Instruction /\ DECODE[k].index + 1 \in PayIndex
                           /\ InFlight[a + k] = DECODE[k]
                           /\ DECODE[k].branch <=> DECODE[k].kind = "cond"
    BY <1>8, <1>11, <2>1, DecodeWhole
  <2> QED BY <1>3, <2>2
<1>13. Pieces(s, D, d, stores)
  <2>1. ASSUME NEW k \in 1..d
        PROVE  s[k] = IF k \in stores THEN <<Upper(D[k]), Lower(D[k])>> ELSE <<D[k]>>
    BY <1>5 DEF Halves, Upper, Lower
  <2>2. Len(s) = d
    <3>1. s \in [1..d -> {s[k] : k \in 1..d}]
      BY <1>5
    <3> QED BY <1>3, <3>1, FunctionIsSequence
  <2>3. \A k \in stores : D[k].index + 1 \in PayIndex
    BY <1>4, <1>12
  <2> QED BY <1>12, <2>1, <2>2, <2>3 DEF Pieces
<1>14. SplitUpTo(y, D, d, stores)
  BY <1>4, <1>6, <1>13, FlattenSplits
<1>15. PICK u \in Seq(Instruction), m \in Nat : u = FETCH2 /\ m = Len(u)
  BY <1>1, LenProperties
<1>16. PICK c : c = Cardinality(stores)
  OBVIOUS
<1>17. /\ SplitAs((x \o D) \o u, a + d + m, (x \o y) \o u, a, d, stores)
       /\ y \in Seq(Instruction) /\ Len(y) = d + c /\ c \in 0..d
  BY <1>3, <1>4, <1>8, <1>14, <1>15, <1>16, DecodeSplits
<1>18. /\ SplitAs((x \o D) \o <<>>, a + d + 0, (x \o y) \o <<>>, a, d, stores)
  <2>1. PICK v \in Seq(Instruction) : v = <<>> /\ Len(v) = 0
    <3>1. <<>> \in Seq(Instruction) /\ Len(<<>>) = 0
      OBVIOUS
    <3> QED BY <3>1
  <2>2. SplitAs((x \o D) \o v, a + d + Len(v), (x \o y) \o v, a, d, stores)
    BY <1>3, <1>4, <1>8, <1>14, DecodeSplits
  <2> QED BY <2>1, <2>2
<1>19. Behind(x \o y, x, a, y, d + c)
  BY <1>8, <1>17, BehindEach
<1>20. PICK w2 : w2 = x \o y
  OBVIOUS
<1>21. w2 \in Seq(Instruction) /\ Len(w2) = a + (d + c)
  BY <1>19, <1>20 DEF Behind
<1>22. Fetched' = w2
  <2>1. PICK z \in Seq(Instruction), f \in Seq(Instruction), g \in Seq(Instruction) :
          z = rob \o RENAME2 /\ f = FQ /\ g = y
    BY <1>1, <1>17, ConcatProperties
  <2>2. (rob \o RENAME2) \o (FQ \o y) = ((rob \o RENAME2) \o FQ) \o y
    <3>1. (z \o f) \o g = z \o (f \o g)
      BY Associates, Zenon
    <3> QED BY <2>1, <3>1, Zenon
  <2>3. Fetched' = ((rob \o RENAME2) \o (FQ \o y)) \o <<>>
    BY <1>2, <1>6 DEF Fetched
  <2>4. Fetched' = w2 \o <<>>
    BY <1>7, <1>20, <2>2, <2>3
  <2>5. w2 \o <<>> = w2
    BY <1>21, ConcatEmptySeq
  <2> QED BY <2>4, <2>5
<1>23. SplitAs(Fetched, a + d, Fetched', a, d, stores)
  <2>1. Fetched \in Seq(Instruction)
    BY <1>1 DEF StagesOf, InFlightOf
  <2>2. (x \o D) \o <<>> = Fetched
    BY <1>9, <2>1, ConcatEmptySeq
  <2>3. (x \o y) \o <<>> = Fetched'
    BY <1>20, <1>21, <1>22, ConcatEmptySeq
  <2>4. a + d + 0 = a + d
    OBVIOUS
  <2> QED BY <1>18, <2>2, <2>3, <2>4
<1>24. PICK n \in Nat : n = a + d + m /\ Len(InFlight) = n /\ a + d <= n
  <2>1. Len(InFlight) = Len(Fetched) + Len(FETCH2)
    BY <1>1 DEF StagesOf, InFlightOf
  <2>2. a + d + m \in Nat /\ a + d <= a + d + m
    BY <1>3, <1>8, <1>15
  <2> QED BY <1>11, <1>15, <2>1, <2>2
<1>25. InFlight' = w2 \o u
  BY <1>2, <1>15, <1>22 DEF InFlight
<1>26. SplitAs(InFlight, n, InFlight', a, d, stores)
  <2>1. InFlight = (x \o D) \o u
    BY <1>9, <1>15 DEF InFlight
  <2> QED BY <1>17, <1>20, <1>24, <1>25, <2>1
<1>27. Len(InFlight') = n + c
  <2>1. Len(w2 \o u) = Len(w2) + Len(u)
    BY <1>21, ConcatProperties
  <2> QED BY <1>15, <1>17, <1>21, <1>24, <1>25, <2>1
<1>28. FQ' \in Seq(Instruction) /\ Len(FQ') <= fq_size
  <2>1. FQ' \in Seq(Instruction) /\ Len(FQ') = Len(FQ) + Len(y) /\ Len(FQ) \in Nat
    BY <1>1, <1>6, <1>17, ConcatProperties, LenProperties
  <2>2. Len(y) <= 2 * d /\ Len(y) \in Nat
    BY <1>17
  <2> QED BY <1>2, <1>3, <2>1, <2>2, FetchUnitAssumption
<1>29. ASSUME NEW k \in stores
       PROVE  Fetched[a + k].kind = "plain" /\ ~Fetched[a + k].branch /\ ~InFlight[a + k].branch
  <2>1. k \in 1..d
    BY <1>4
  <2> QED BY <1>2, <1>3, <1>11, <1>12, <2>1
<1>30. Len(Fetched') = a + d + c
  BY <1>17, <1>21, <1>22
<1>31. a + d \in Nat
  OBVIOUS
<1>32. DecodedOf(a, d, n, c, stores)
  BY <1>4, <1>11, <1>12, <1>16, <1>17, <1>23, <1>24, <1>26, <1>27, <1>28, <1>29, <1>30, <1>31
  DEF DecodedOf
<1> QED BY <1>32

\* Decode leaves the instructions in program order, with their entries and tags.
LEMMA DecodeStep ==
  ASSUME Fetching, NEW stores \in SUBSET (1..Len(DECODE)), Decode(stores)
  PROVE  Fetching'
<1>1. /\ TypeOK /\ bq_head \in Pointer(BQ_SIZE) /\ pay_head \in PayIndex
      /\ fetch_active \in BOOLEAN
  BY DEF Fetching, TypeOK
<1>2. /\ UNCHANGED <<fetch_active, FETCH2, RENAME2, rob, pay_head, pay_tail, pay_length, bq, bq_head,
                    bq_tail, log, bhr, fetch2_bhr, pay_checkpoint, base>>
      /\ DECODE' = <<>>
  BY DEF Decode, payVars, bqVars, fetch2Vars
<1>3. PICK a \in Nat, d \in Nat, n \in Nat : \E e : d # 0 /\ DecodedOf(a, d, n, e, stores)
  <2>1. PICK a, d, n, e : DecodedOf(a, d, n, e, stores)
    BY DecodedIs
  <2>2. a \in Nat /\ d \in Nat /\ d # 0 /\ n \in Nat
    BY <2>1 DEF DecodedOf
  <2> QED BY <2>1, <2>2
<1>4. PICK S \in SUBSET (1..d), c \in 0..d : S = stores /\ DecodedOf(a, d, n, c, S)
  BY <1>3 DEF DecodedOf
<1>5. d # 0 /\ a + d <= n /\ a + d \in Nat /\ c = Cardinality(S)
  BY <1>3, <1>4 DEF DecodedOf
<1>6. PICK w, w2, v, v2 : w = InFlight /\ w2 = InFlight' /\ v = Fetched /\ v2 = Fetched'
  OBVIOUS
<1>7. /\ Len(v) = a + d /\ Len(w) = n /\ Len(v2) = a + d + c /\ Len(w2) = n + c
      /\ WholeFrom(v, a, d) /\ WholeFrom(w, a, d)
      /\ SplitAs(v, a + d, v2, a, d, S) /\ SplitAs(w, n, w2, a, d, S)
      /\ \A k \in S : v[a + k].kind = "plain" /\ ~v[a + k].branch /\ ~w[a + k].branch
      /\ FQ' \in Seq(Instruction) /\ Len(FQ') <= fq_size
  BY <1>4, <1>6 DEF DecodedOf
<1>8. PayOf(w, n, pay_head, pay_tail, pay_length) /\ PairedOf(w, n, pay_tail)
  BY <1>6, <1>7 DEF Fetching, PayHolds
<1>9. PayOf(w2, n + c, pay_head, pay_tail, pay_length) /\ PairedOf(w2, n + c, pay_tail)
  BY <1>1, <1>5, <1>7, <1>8, PaySplit
<1>10. PayHolds'
  BY <1>2, <1>6, <1>7, <1>9 DEF PayHolds
<1>11. TagsOf(v, a + d, bq_head, bq_tail)
  BY <1>6, <1>7 DEF Fetching, TagsFollow
<1>12. /\ TagsOf(v2, a + d + c, bq_head, bq_tail)
       /\ Cardinality(BranchesOf(v2, a + d + c)) = Cardinality(BranchesOf(v, a + d))
  <2>1. PICK m \in Nat : m = a + d /\ a + d <= m
    BY <1>5
  <2>2. PICK h, t : h = bq_head /\ t = bq_tail
    OBVIOUS
  <2>3. TagsOf(v, m, h, t) /\ WholeFrom(v, a, d) /\ SplitAs(v, m, v2, a, d, S)
    BY <1>7, <1>11, <2>1, <2>2
  <2>4. \A k \in S : ~v[a + k].branch
    BY <1>7
  <2>5. TagsKept(v, m, v2, m + c, h, t)
    BY <1>5, <2>1, <2>3, <2>4, TagSplit
  <2> QED BY <2>1, <2>2, <2>5 DEF TagsKept
<1>13. TagsFollow'
  BY <1>2, <1>6, <1>7, <1>12 DEF TagsFollow
<1>14. OnPath'
  <2>1. InQueue' = InQueue
    BY <1>6, <1>7, <1>12 DEF InQueue
  <2>2. Path' = Path
    BY <1>2, <2>1 DEF Path
  <2> QED BY <1>2, <2>1, <2>2 DEF Fetching, OnPath
<1>15. \A i \in 1..(a + d) : /\ v[i].branch <=> v[i].kind = "cond"
                             /\ v[i].half # "whole" => v[i].kind = "plain"
                             /\ v[i].kind \in {"serial", "except"} => i = n /\ ~fetch_active
  BY <1>6, <1>7 DEF Fetching, WellFormed, FormedOf, SerializersAreAlone
<1>16. ASSUME NEW i \in 1..(a + d + c)
       PROVE  /\ v2[i].branch <=> v2[i].kind = "cond"
              /\ v2[i].half # "whole" => v2[i].kind = "plain"
              /\ v2[i].kind \in {"serial", "except"} => i = n + c /\ ~fetch_active
  <2>1. CASE i \in 1..a
    <3>1. v2[i] = v[i]
      BY <1>7, <2>1 DEF SplitAs
    <3>2. i \in 1..(a + d) /\ i # n
      BY <1>5, <2>1
    <3> QED BY <1>15, <3>1, <3>2
  <2>2. ASSUME NEW k \in 1..d, k \notin S, i = a + Moved(S, k)
        PROVE  /\ v2[i].branch <=> v2[i].kind = "cond"
               /\ v2[i].half # "whole" => v2[i].kind = "plain"
               /\ v2[i].kind \in {"serial", "except"} => i = n + c /\ ~fetch_active
    <3>1. v2[i] = v[a + k]
      BY <1>7, <2>2 DEF SplitAs
    <3>2. a + k \in 1..(a + d)
      BY <1>5
    <3>3. a + k = n => i = n + c
      <4>1. SUFFICES ASSUME a + k = n PROVE i = n + c
        OBVIOUS
      <4>2. k = d
        BY <1>5, <4>1
      <4>3. Moved(S, d + 1) = d + 1 + c
        BY <1>5, MovedType
      <4>4. Moved(S, d + 1) = Moved(S, d) + 1
        BY <1>5, <2>2, <4>2, MovedType
      <4>5. PICK x \in Int : x = Moved(S, d)
        <5>1. d \in 1..(d + 1)
          BY <1>5
        <5>2. Moved(S, d) \in d..(d + c)
          BY <1>5, <5>1, MovedType
        <5> QED BY <1>5, <5>2
      <4>6. x + 1 = d + 1 + c
        BY <4>3, <4>4, <4>5
      <4>7. i = a + x
        BY <2>2, <4>2, <4>5
      <4>8. a \in Nat /\ d \in Nat /\ c \in Nat /\ a + d = n
        BY <1>5, <4>1, <4>2
      <4> QED BY ONLY <4>5, <4>6, <4>7, <4>8
    <3> QED BY <1>15, <3>1, <3>2, <3>3
  <2>3. ASSUME NEW k \in S, i = a + Moved(S, k) \/ i = a + Moved(S, k) + 1
        PROVE  /\ v2[i].branch <=> v2[i].kind = "cond"
               /\ v2[i].half # "whole" => v2[i].kind = "plain"
               /\ v2[i].kind \in {"serial", "except"} => i = n + c /\ ~fetch_active
    <3>1. PICK x \in Instruction : x = v[a + k] /\ x.kind = "plain" /\ ~x.branch
      <4>1. k \in 1..d
        BY <1>5
      <4> QED BY <1>7, <4>1 DEF WholeFrom
    <3>2. v2[i] = Upper(x) \/ v2[i] = Lower(x)
      BY <1>7, <2>3, <3>1 DEF SplitAs
    <3>3. v2[i].kind = "plain" /\ v2[i].branch = x.branch
      BY <3>1, <3>2, HalvesAre
    <3> QED BY <3>1, <3>3
  <2>4. PICK m \in Nat : m = a + d /\ SplitPlace(m, a, d, S, i)
    <3>1. PICK m \in Nat : m = a + d /\ a + d <= m /\ i \in 1..(m + Cardinality(S))
      BY <1>5
    <3>2. SplitPlace(m, a, d, S, i)
      BY <1>5, <3>1, SplitCases
    <3> QED BY <3>1, <3>2
  <2>5. 1..(m - a - d) = {}
    BY <2>4
  <2>6. \/ i \in 1..a
        \/ \E k \in 1..d : i = a + Moved(S, k) \/ (k \in S /\ i = a + Moved(S, k) + 1)
    BY <2>4, <2>5 DEF SplitPlace
  <2>7. CASE i \notin 1..a
    <3>1. PICK k \in 1..d : i = a + Moved(S, k) \/ (k \in S /\ i = a + Moved(S, k) + 1)
      BY <2>6, <2>7
    <3>2. CASE k \in S
      BY <2>3, <3>1, <3>2
    <3>3. CASE k \notin S
      BY <2>2, <3>1, <3>3
    <3> QED BY <3>2, <3>3
  <2> QED BY <2>1, <2>7
<1>17. FormedOf(v2, a + d + c)
  BY <1>16 DEF FormedOf
<1>18. WellFormed'
  <2>1. Len(<<>>) = 0 /\ 1..0 = {}
    OBVIOUS
  <2>2. WholeOf(FETCH2, Len(FETCH2)) /\ EndsAtException(FETCH2, Len(FETCH2))
    BY DEF Fetching, WellFormed
  <2> QED BY <1>2, <1>6, <1>7, <1>17, <2>1, <2>2 DEF WellFormed, WholeOf
<1>19. SerializersAreAlone'
  BY <1>2, <1>6, <1>7, <1>16 DEF SerializersAreAlone
<1>20. Checkpointed'
  BY <1>2 DEF Fetching, Checkpointed
<1>21. TypeOK'
  <2>1. Len(<<>>) = 0 /\ <<>> \in Seq(Instruction) /\ 0 <= instr_per_cycle
    BY FetchUnitAssumption
  <2> QED BY <1>1, <1>2, <1>7, <2>1 DEF TypeOK
<1> QED BY <1>10, <1>13, <1>14, <1>18, <1>19, <1>20, <1>21 DEF Fetching

-----------------------------------------------------------------------------
(* The invariant *)

\* Nothing is in flight at first.
LEMMA InitFetching == Init => Fetching
<1> SUFFICES ASSUME Init PROVE Fetching
  OBVIOUS
<1>1. /\ FETCH2 = <<>> /\ DECODE = <<>> /\ FQ = <<>> /\ RENAME2 = <<>> /\ rob = <<>>
      /\ pay_head = 0 /\ pay_tail = 0 /\ pay_length = 0 /\ pay_checkpoint = 0
      /\ fetch_active = TRUE /\ bq_head = Origin /\ bq_tail = Origin
      /\ bhr = NoHistory /\ base = NoHistory /\ fetch2_bhr = NoHistory
  BY DEF Init
<1>2. Fetched = <<>> /\ InFlight = <<>>
  BY <1>1 DEF Fetched, InFlight
<1>3. Len(<<>>) = 0 /\ <<>> \in Seq(Instruction) /\ 1..0 = {}
  OBVIOUS
<1>4. NoHistory \in History /\ 0 \in PayIndex /\ Origin \in Pointer(BQ_SIZE)
  BY PaySize, FetchUnitAssumption DEF NoHistory, History, PayIndex, Origin, Pointer
<1>5. TypeOK
  <2>1. /\ bq \in [0..(BQ_SIZE - 1) -> BOOLEAN] /\ log \in [0..(BQ_SIZE - 1) -> History]
    BY <1>4 DEF Init
  <2>2. 0 <= instr_per_cycle /\ 0 <= fq_size /\ 0 <= dispatch_width /\ 0 <= rob_size
        /\ 0 \in 0..PAYLOAD_BUFFER_SIZE
    BY PaySize, FetchUnitAssumption
  <2> QED BY <1>1, <1>3, <1>4, <2>1, <2>2 DEF TypeOK
<1>6. BranchesOf(<<>>, 0) = {} /\ Cardinality(BranchesOf(<<>>, 0)) = 0
  BY <1>3, FS_EmptySet DEF BranchesOf
<1>7. WellFormed /\ SerializersAreAlone /\ Checkpointed
  BY <1>1, <1>2, <1>3 DEF WellFormed, FormedOf, WholeOf, EndsAtException, SerializersAreAlone, Checkpointed
<1>8. PayHolds
  <2>1. PayOf(<<>>, 0, 0, 0, 0)
    BY <1>4, PayNone
  <2>2. PairedOf(<<>>, 0, 0)
    BY <1>3 DEF PairedOf
  <2> QED BY <1>1, <1>2, <1>3, <2>1, <2>2 DEF PayHolds
<1>9. TagsFollow
  <2>1. At(Origin, 0) = Origin
    BY <1>4, FetchUnitAssumption, AdvanceByType DEF At
  <2> QED BY <1>1, <1>2, <1>3, <1>6, <2>1 DEF TagsFollow, TagsOf
<1>10. OnPath
  <2>1. InQueue = 0
    BY <1>2, <1>3, <1>6 DEF InQueue
  <2>2. Out(bq_head, 0, bq) = <<>>
    BY <1>3 DEF Out
  <2>3. After(NoHistory, <<>>) = NoHistory
    <3>1. <<>> \in Seq(BOOLEAN)
      OBVIOUS
    <3> QED BY <1>4, <3>1, AfterType
  <2>4. Path = NoHistory
    BY <1>1, <2>1, <2>2, <2>3 DEF Path
  <2>5. Logged(0, bq_head, bq, log, base)
    <3>1. 0..(0 - 1) = {}
      OBVIOUS
    <3> QED BY <3>1 DEF Logged
  <2> QED BY <1>1, <2>1, <2>3, <2>4, <2>5, PredictionsNone DEF OnPath
<1> QED BY <1>5, <1>7, <1>8, <1>9, <1>10 DEF Fetching

\* Every step keeps it.
LEMMA FetchingStep == Fetching /\ [Next]_vars => Fetching'
<1> SUFFICES ASSUME Fetching, [Next]_vars PROVE Fetching'
  OBVIOUS
<1>1. CASE UNCHANGED vars
  <2>1. /\ UNCHANGED <<fetch_active, payVars, bqVars, bhr, fetch2Vars, base>>
        /\ UNCHANGED <<FETCH2, DECODE, FQ, RENAME2, rob>>
    BY <1>1 DEF vars, stageVars
  <2>2. TypeOK'
    BY <2>1 DEF Fetching, TypeOK, payVars, bqVars, fetch2Vars
  <2>3. Fetched' = Fetched
    BY <2>1 DEF Fetched
  <2> QED BY <2>1, <2>2, <2>3, MovesOn
<1>2. ASSUME NEW bundle \in Bundles, Fetch1(bundle) PROVE Fetching'
  BY <1>2, Fetch1Step
<1>3. CASE Misfetch
  BY <1>3, MisfetchStep
<1>4. CASE Fetch2Stall
  BY <1>4, Fetch2StallStep
<1>5. CASE Fetch2
  BY <1>5, Fetch2Step
<1>6. ASSUME NEW stores \in SUBSET (1..Len(DECODE)), Decode(stores) PROVE Fetching'
  BY <1>6, DecodeStep
<1>7. CASE Rename1
  BY <1>7, Rename1Step
<1>8. CASE Rename2
  BY <1>8, Rename2Step
<1>9. ASSUME NEW i \in 1..Len(rob), ResolveCorrect(i) PROVE Fetching'
  BY <1>9, ResolveCorrectStep
<1>10. ASSUME NEW i \in 1..Len(rob), Mispredict(i) PROVE Fetching'
  BY <1>10, MispredictStep
<1>11. CASE Retire
  BY <1>11, RetireStep
<1>12. CASE RetireSerial
  BY <1>12, RetireSerialStep
<1>13. CASE SquashComplete
  BY <1>13, SquashCompleteStep
<1> QED BY <1>1, <1>2, <1>3, <1>4, <1>5, <1>6, <1>7, <1>8, <1>9, <1>10, <1>11, <1>12, <1>13 DEF Next

\* So it holds throughout.
LEMMA FetchingInvariant == Spec => []Fetching
BY InitFetching, FetchingStep, PTL DEF Spec

\* What it shows, as plain implications.
LEMMA Shown ==
  /\ Fetching => TypeOK
  /\ Fetching => PayloadHoldsInFlight
  /\ Fetching => TagsInProgramOrder
  /\ Fetching => HistoryFollowsPath
  /\ Fetching => SerializersAreAlone
<1>1. Fetching => PayloadHoldsInFlight
  BY PayloadShown
<1>2. Fetching => TagsInProgramOrder
  BY TagsShown
<1>3. Fetching => HistoryFollowsPath
  BY HistoryShown
<1> QED BY <1>1, <1>2, <1>3 DEF Fetching

-----------------------------------------------------------------------------
(* The theorems *)

\* The pipeline registers and the fetch queue keep within their sizes, and the pointers of PAY and
\* the branch queue are pointers, whatever is fetched, split, mispredicted and squashed.
THEOREM TypeCorrect == Spec => []TypeOK
<1>1. Fetching => TypeOK
  BY Shown
<1> QED BY <1>1, FetchingInvariant, PTL

\* PAY holds the instructions in flight from its head to its tail, two entries each, or one for
\* the half of a split store: it never overflows, and every rollback takes back exactly what is
\* discarded (payload.cc:112 and :124).
THEOREM PayloadCorrect == Spec => []PayloadHoldsInFlight
<1>1. Fetching => PayloadHoldsInFlight
  BY Shown
<1> QED BY <1>1, FetchingInvariant, PTL

\* The tags of the branches behind fetch2 run from the branch queue's head to its tail, so that the
\* branch that commits is the one at the head, and a rollback undoes the younger branches and no
\* others (fetchunit.cc:621, bq.cc:55-89).
THEOREM TagsCorrect == Spec => []TagsInProgramOrder
<1>1. Fetching => TagsInProgramOrder
  BY Shown
<1> QED BY <1>1, FetchingInvariant, PTL

\* Prediction runs on the history of the path it is on, and each branch is logged with the history
\* before it, whatever was misfetched, mispredicted and flushed.
THEOREM HistoryCorrect == Spec => []HistoryFollowsPath
<1>1. Fetching => HistoryFollowsPath
  BY Shown
<1> QED BY <1>1, FetchingInvariant, PTL

\* A serializing instruction behind fetch2 is the youngest in flight and fetch1 waits for it, which
\* the flush at its retirement relies on (retire.cc:181).
THEOREM SerializersCorrect == Spec => []SerializersAreAlone
<1>1. Fetching => SerializersAreAlone
  BY Shown
<1> QED BY <1>1, FetchingInvariant, PTL
=============================================================================
