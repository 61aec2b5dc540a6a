------------------------- MODULE CryptoStreamProofs -------------------------
(***************************************************************************)
(* What is proved of CryptoStream for every message, key, piece and size:  *)
(* StreamHolds is inductive, and implies the invariants of the run.  The   *)
(* theorems are at the end.  Before them come lemmas about the operators   *)
(* of the model: word arrays, the hash, the ciphers, the formats, the key  *)
(* derivations.  What a recursive function computes is proved with the     *)
(* lemmas of Induction.  Definitions that only the proofs need stand       *)
(* before their first use.                                                 *)
(***************************************************************************)
EXTENDS CryptoStream, Induction, SequenceTheorems

-----------------------------------------------------------------------------
\* Numbers and sequences.

\* Quotient and remainder.
LEMMA Division ==
  ASSUME NEW n \in Nat, NEW d \in Nat \ {0}
  PROVE  /\ n \div d \in Nat /\ n % d \in Nat /\ n % d < d
         /\ n = ((n \div d) * d) + (n % d)
OBVIOUS

\* Products of natural numbers.
LEMMA TimesMonotonic ==
  ASSUME NEW a \in Nat, NEW b \in Nat, NEW d \in Nat, a <= b
  PROVE  a * d <= b * d /\ a * d \in Nat
OBVIOUS

\* There is one quotient and one remainder only.
LEMMA QuotientUnique ==
  ASSUME NEW n \in Nat, NEW d \in Nat \ {0}, NEW q \in Nat, NEW r \in Nat, r < d,
         n = (q * d) + r
  PROVE  n \div d = q /\ n % d = r
<1> DEFINE p == n \div d
           s == n % d
<1>1. p \in Nat /\ s \in Nat /\ s < d /\ n = (p * d) + s
  BY Division
<1> HIDE DEF p, s
<1>2. CASE p < q
  <2>1. (p + 1) * d <= q * d
    BY <1>1, <1>2, TimesMonotonic
  <2>2. (p + 1) * d = p * d + d
    BY <1>1
  <2> QED
    BY <1>1, <2>1, <2>2
<1>3. CASE q < p
  <2>1. (q + 1) * d <= p * d
    BY <1>1, <1>3, TimesMonotonic
  <2>2. (q + 1) * d = q * d + d
    OBVIOUS
  <2> QED
    BY <1>1, <2>1, <2>2
<1>4. CASE p = q
  BY <1>1, <1>4 DEF p, s
<1> QED
  BY <1>1, <1>2, <1>3, <1>4

\* The larger and the smaller of two numbers.
LEMMA MaxZero ==
  ASSUME NEW n \in Int
  PROVE  Max({n, 0}) = IF n >= 0 THEN n ELSE 0
<1>1. \E x \in {n, 0} : \A y \in {n, 0} : x >= y
  OBVIOUS
<1> QED
  BY <1>1 DEF Max

LEMMA MinOf ==
  ASSUME NEW n \in Int, NEW m \in Int
  PROVE  Min({n, m}) = IF n <= m THEN n ELSE m
<1>1. \E x \in {n, m} : \A y \in {n, m} : x <= y
  OBVIOUS
<1> QED
  BY <1>1 DEF Min

\* A function over 1 .. n is a sequence, whatever its values are.
Sequence(s) == \E S : s \in Seq(S)

\* Its indices are 1 .. n.
LEMMA SequenceOver ==
  ASSUME NEW n \in Nat, NEW f, f = [i \in 1 .. n |-> f[i]]
  PROVE  Sequence(f) /\ Len(f) = n
<1>1. f \in [1 .. n -> {f[i] : i \in 1 .. n}]
  OBVIOUS
<1>2. f \in Seq({f[i] : i \in 1 .. n}) /\ Len(f) = n
  BY <1>1
<1> QED
  BY <1>2 DEF Sequence

\* A sequence is a function over its indices.
LEMMA SequenceIs ==
  ASSUME NEW s, Sequence(s)
  PROVE  Len(s) \in Nat /\ s = [i \in 1 .. Len(s) |-> s[i]] /\ DOMAIN s = 1 .. Len(s)
BY LenProperties DEF Sequence

\* One sequence behind another.
LEMMA SequenceConcat ==
  ASSUME NEW s, NEW t, Sequence(s), Sequence(t)
  PROVE  /\ Sequence(s \o t) /\ Len(s \o t) = Len(s) + Len(t)
         /\ s \o t = [i \in 1 .. Len(s) + Len(t) |-> IF i <= Len(s) THEN s[i] ELSE t[i - Len(s)]]
<1>1. PICK S, T : s \in Seq(S) /\ t \in Seq(T)
  BY DEF Sequence
<1>2. s \in Seq(S \cup T) /\ t \in Seq(S \cup T)
  BY <1>1
<1>3. /\ s \o t \in Seq(S \cup T) /\ Len(s \o t) = Len(s) + Len(t)
      /\ \A i \in 1 .. Len(s) + Len(t) : (s \o t)[i] = IF i <= Len(s) THEN s[i] ELSE t[i - Len(s)]
  BY <1>2, ConcatProperties
<1>4. Sequence(s \o t)
  BY <1>3 DEF Sequence
<1>5. s \o t = [i \in 1 .. Len(s \o t) |-> (s \o t)[i]]
  BY <1>4, SequenceIs
<1> QED
  BY <1>3, <1>4, <1>5

\* Two sequences of one length with the same elements.
LEMMA SequenceEqual ==
  ASSUME NEW s, NEW t, Sequence(s), Sequence(t), Len(s) = Len(t),
         \A i \in 1 .. Len(s) : s[i] = t[i]
  PROVE  s = t
<1>1. s = [i \in 1 .. Len(s) |-> s[i]] /\ t = [i \in 1 .. Len(s) |-> t[i]]
  BY SequenceIs
<1> QED
  BY <1>1

-----------------------------------------------------------------------------
\* Word arrays: create, concat, what is left of a buffer.

\* The bytes of the words that n bytes need.
Room(n) == Ceil(n, WordBytes) * WordBytes

\* The room of n bytes holds them and is less than a word longer.
LEMMA RoomIs ==
  ASSUME NEW n \in Nat
  PROVE  /\ Room(n) \in Nat /\ n <= Room(n) /\ Room(n) < n + WordBytes
         /\ Room(n) % WordBytes = 0
<1> DEFINE m == n + WordBytes - 1
           q == m \div WordBytes
           r == m % WordBytes
<1>0. WordBytes \in Nat \ {0}
  BY WordArraysAssumption DEF WordArraysAssumption
<1>1. m \in Nat /\ q \in Nat /\ r \in Nat /\ r < WordBytes /\ m = (q * WordBytes) + r
  BY <1>0, Division
<1>2. Room(n) = q * WordBytes
  BY DEF Room, Ceil
<1>3. q * WordBytes \in Nat
  BY <1>0, <1>1
<1>4. Room(n) \in Nat /\ n <= Room(n) /\ Room(n) < n + WordBytes
  BY <1>0, <1>1, <1>2, <1>3
<1> HIDE DEF q
<1>5. (q * WordBytes) % WordBytes = 0
  <2> DEFINE x == q * WordBytes
  <2>1. x \in Nat /\ x = (q * WordBytes) + 0 /\ q \in Nat /\ 0 \in Nat /\ 0 < WordBytes
    BY <1>0, <1>1, <1>3
  <2> HIDE DEF x
  <2>2. x % WordBytes = 0
    BY <1>0, <2>1, QuotientUnique
  <2> QED
    BY <2>2 DEF x
<1> QED
  BY <1>2, <1>4, <1>5

\* A word array as the code makes them, and one without bytes past its count.
WordArray(a) ==
    /\ IsWordArray(a)
    /\ Sequence(a.words)

Clean(a) == \A i \in Nat : i > a.sigBytes => ByteAt(a, i) = Zero

\* A word array of n bytes, by what its words hold.
LEMMA WordsIs ==
  ASSUME NEW n \in Nat, NEW w, NEW f, w = [i \in 1 .. Room(n) |-> f[i]]
  PROVE  /\ WordArray([words |-> w, sigBytes |-> n])
         /\ \A i \in Nat \ {0} : ByteAt([words |-> w, sigBytes |-> n], i)
                                    = IF i <= Room(n) THEN f[i] ELSE Zero
<1>1. Room(n) \in Nat /\ n <= Room(n) /\ Room(n) % WordBytes = 0
  BY RoomIs
<1>2. w = [i \in 1 .. Room(n) |-> w[i]]
  OBVIOUS
<1>3. Sequence(w) /\ Len(w) = Room(n)
  BY <1>1, <1>2, SequenceOver
<1> QED
  BY <1>1, <1>3 DEF WordArray, IsWordArray, ByteAt

\* create: the bytes, and zeros up to the end of the last word.
LEMMA CreateIs ==
  ASSUME NEW bytes, Sequence(bytes)
  PROVE  /\ WordArray(Create(bytes)) /\ Create(bytes).sigBytes = Len(bytes)
         /\ \A i \in Nat \ {0} : ByteAt(Create(bytes), i) = IF i <= Len(bytes) THEN bytes[i] ELSE Zero
<1> DEFINE n == Len(bytes)
           w == [i \in 1 .. Room(n) |-> IF i <= Len(bytes) THEN bytes[i] ELSE Zero]
<1>1. n \in Nat
  BY SequenceIs
<1>2. Create(bytes) = [words |-> w, sigBytes |-> n]
  BY DEF Create, Words, Room
<1>3. w = [i \in 1 .. Room(n) |-> w[i]]
  OBVIOUS
<1>4. Room(n) \in Nat /\ n <= Room(n)
  BY <1>1, RoomIs
<1> HIDE DEF n
<1>5. \A i \in 1 .. Room(n) : w[i] = IF i <= n THEN bytes[i] ELSE Zero
  BY DEF n
<1> HIDE DEF w
<1>6. /\ WordArray([words |-> w, sigBytes |-> n])
      /\ \A i \in Nat \ {0} : ByteAt([words |-> w, sigBytes |-> n], i)
                                    = IF i <= Room(n) THEN w[i] ELSE Zero
  BY <1>1, <1>3, WordsIs
<1>7. \A i \in Nat \ {0} : ByteAt(Create(bytes), i) = IF i <= n THEN bytes[i] ELSE Zero
  BY <1>1, <1>2, <1>4, <1>5, <1>6
<1> QED
  BY <1>2, <1>6, <1>7 DEF n

\* The word array without bytes.
LEMMA EmptyIs ==
  /\ WordArray(Empty) /\ Empty.sigBytes = 0 /\ Clean(Empty)
  /\ Sequence(<<>>) /\ Len(<<>>) = 0
<1>1. Sequence(<<>>) /\ Len(<<>>) = 0
  BY DEF Sequence
<1>2. /\ WordArray(Create(<<>>)) /\ Create(<<>>).sigBytes = 0
      /\ \A i \in Nat \ {0} : ByteAt(Create(<<>>), i) = Zero
  BY <1>1, CreateIs
<1> QED
  BY <1>1, <1>2 DEF Empty, Clean

\* What concat does, whatever is past the count of its arguments.
LEMMA ConcatIs ==
  ASSUME NEW a, NEW b, WordArray(a), WordArray(b)
  PROVE  LET all == a.sigBytes + b.sigBytes
             c == concat(a, b)
         IN  /\ WordArray(c) /\ c.sigBytes = all
             /\ \A i \in Nat \ {0} :
                   ByteAt(c, i) = CASE i <= a.sigBytes -> ByteAt(a, i)
                                    [] i > a.sigBytes /\ i <= all -> ByteAt(b, i - a.sigBytes)
                                    [] OTHER -> IF i <= Room(all) /\ a.sigBytes % WordBytes = 0
                                                THEN ByteAt(b, i - a.sigBytes) ELSE Zero
<1> DEFINE n == a.sigBytes
           all == n + b.sigBytes
           whole == n % WordBytes = 0
           w == [i \in 1 .. Room(all) |->
                   CASE i <= n -> ByteAt(a, i)
                     [] i > n /\ (whole \/ i <= all) -> ByteAt(b, i - n)
                     [] OTHER -> Zero]
           c == [words |-> w, sigBytes |-> all]
<1>1. n \in Nat /\ all \in Nat
  BY DEF WordArray, IsWordArray
<1>2. concat(a, b) = c
  BY DEF concat, Words, Room
<1>3. w = [i \in 1 .. Room(all) |-> w[i]]
  OBVIOUS
<1>4. Room(all) \in Nat /\ all <= Room(all)
  BY <1>1, RoomIs
<1>5. \A i \in 1 .. Room(all) :
         w[i] = CASE i <= n -> ByteAt(a, i)
                  [] i > n /\ (whole \/ i <= all) -> ByteAt(b, i - n)
                  [] OTHER -> Zero
  OBVIOUS
<1> HIDE DEF w, whole
<1>6. /\ WordArray(c)
      /\ \A i \in Nat \ {0} : ByteAt(c, i) = IF i <= Room(all) THEN w[i] ELSE Zero
  BY <1>1, <1>3, WordsIs
<1>7. c.sigBytes = all
  OBVIOUS
<1> HIDE DEF c
<1>8. ASSUME NEW i \in Nat \ {0}
      PROVE  ByteAt(c, i) = CASE i <= n -> ByteAt(a, i)
                              [] i > n /\ i <= all -> ByteAt(b, i - n)
                              [] OTHER -> IF i <= Room(all) /\ whole THEN ByteAt(b, i - n) ELSE Zero
  <2>1. CASE i <= n
    <3>1. n <= all
      BY DEF WordArray, IsWordArray
    <3>2. i \in 1 .. Room(all) /\ ~(i > n) /\ i <= Room(all)
      BY <1>1, <1>4, <2>1, <3>1
    <3>3. w[i] = ByteAt(a, i)
      BY <1>5, <2>1, <3>2
    <3> QED
      BY <1>6, <2>1, <3>2, <3>3
  <2>2. CASE i > n /\ i <= all
    <3>1. i \in 1 .. Room(all)
      BY <1>1, <1>4, <2>2
    <3>2. ~(i <= n)
      BY <1>1, <2>2
    <3> QED
      BY <1>5, <1>6, <2>2, <3>1, <3>2
  <2>3. CASE i > all
    <3>1. i > n /\ ~(i <= n) /\ ~(i <= all)
      BY <1>1, <2>3 DEF WordArray, IsWordArray
    <3>2. CASE i <= Room(all)
      BY <1>1, <1>4, <1>5, <1>6, <3>1, <3>2
    <3>3. CASE ~(i <= Room(all))
      BY <1>6, <3>1, <3>3
    <3> QED
      BY <3>2, <3>3
  <2> QED
    BY <1>1, <2>1, <2>2, <2>3
<1> QED
  BY <1>2, <1>6, <1>7, <1>8 DEF whole

\* Only the count decides what the bytes of a word array are.
LEMMA BytesIs ==
  ASSUME NEW a, WordArray(a)
  PROVE  /\ Sequence(Bytes(a)) /\ Len(Bytes(a)) = a.sigBytes
         /\ \A i \in 1 .. a.sigBytes : Bytes(a)[i] = ByteAt(a, i)
<1>1. a.sigBytes \in Nat
  BY DEF WordArray, IsWordArray
<1>2. Bytes(a) = [i \in 1 .. a.sigBytes |-> Bytes(a)[i]]
  BY DEF Bytes
<1>3. \A i \in 1 .. a.sigBytes : Bytes(a)[i] = ByteAt(a, i)
  BY DEF Bytes
<1> QED
  BY <1>1, <1>2, <1>3, SequenceOver

\* concat: the bytes of the one behind those of the other.
LEMMA BytesConcat ==
  ASSUME NEW a, NEW b, WordArray(a), WordArray(b)
  PROVE  Bytes(concat(a, b)) = Bytes(a) \o Bytes(b)
<1> DEFINE n == a.sigBytes
           m == b.sigBytes
           c == concat(a, b)
           x == Bytes(a)
           y == Bytes(b)
<1>1. n \in Nat /\ m \in Nat
  BY DEF WordArray, IsWordArray
<1>2. /\ WordArray(c) /\ c.sigBytes = n + m
      /\ \A i \in Nat \ {0} :
            ByteAt(c, i) = CASE i <= n -> ByteAt(a, i)
                             [] i > n /\ i <= n + m -> ByteAt(b, i - n)
                             [] OTHER -> IF i <= Room(n + m) /\ n % WordBytes = 0
                                         THEN ByteAt(b, i - n) ELSE Zero
  BY ConcatIs
<1> HIDE DEF c
<1>3. /\ Sequence(x) /\ Len(x) = n /\ \A i \in 1 .. n : x[i] = ByteAt(a, i)
      /\ Sequence(y) /\ Len(y) = m /\ \A i \in 1 .. m : y[i] = ByteAt(b, i)
      /\ Sequence(Bytes(c)) /\ Len(Bytes(c)) = n + m
      /\ \A i \in 1 .. n + m : Bytes(c)[i] = ByteAt(c, i)
  BY <1>2, BytesIs
<1> HIDE DEF x, y, n, m
<1>4. /\ Sequence(x \o y) /\ Len(x \o y) = n + m
      /\ x \o y = [i \in 1 .. n + m |-> IF i <= n THEN x[i] ELSE y[i - n]]
  BY <1>3, SequenceConcat
<1> DEFINE z == x \o y
<1>5. \A i \in 1 .. n + m : z[i] = IF i <= n THEN x[i] ELSE y[i - n]
  BY <1>4
<1> HIDE DEF z
<1>6. ASSUME NEW i \in 1 .. n + m
      PROVE  Bytes(c)[i] = z[i]
  <2>1. CASE i <= n
    BY <1>1, <1>2, <1>3, <1>5, <2>1
  <2>2. CASE i > n
    <3>1. i - n \in 1 .. m /\ i \in Nat \ {0} /\ ~(i <= n) /\ i <= n + m
      BY <1>1, <2>2
    <3>2. ByteAt(c, i) = ByteAt(b, i - n)
      BY <1>2, <2>2, <3>1
    <3>3. z[i] = y[i - n] /\ y[i - n] = ByteAt(b, i - n)
      BY <1>3, <1>5, <3>1
    <3> QED
      BY <1>3, <3>2, <3>3
  <2> QED
    BY <1>1, <2>1, <2>2
<1>7. Bytes(c) = z
  BY <1>3, <1>4, <1>6, SequenceEqual DEF z
<1> QED
  BY <1>7 DEF c, z, x, y

\* The multiples of a number, their differences, products and sums.
LEMMA MultipleIs ==
  ASSUME NEW a \in Nat, NEW d \in Nat \ {0}
  PROVE  a % d = 0 <=> \E k \in Nat : a = k * d
<1>1. ASSUME a % d = 0
      PROVE  \E k \in Nat : a = k * d
  <2>1. a \div d \in Nat /\ a = ((a \div d) * d) + (a % d)
    BY Division
  <2> DEFINE k == a \div d
  <2>2. k \in Nat /\ k * d \in Nat
    BY <2>1
  <2> HIDE DEF k
  <2>3. a = (k * d) + 0
    BY <1>1, <2>1 DEF k
  <2>4. a = k * d
    BY <2>2, <2>3
  <2> QED
    BY <2>2, <2>4
<1>2. ASSUME NEW k \in Nat, a = k * d
      PROVE  a % d = 0
  <2>1. a = (k * d) + 0 /\ 0 \in Nat /\ 0 < d
    BY <1>2
  <2> QED
    BY <2>1, QuotientUnique
<1> QED
  BY <1>1, <1>2

LEMMA MultipleMinus ==
  ASSUME NEW a \in Nat, NEW b \in Nat, NEW d \in Nat \ {0}, a % d = 0, b % d = 0, b <= a
  PROVE  (a - b) % d = 0
<1>1. PICK k \in Nat : a = k * d
  BY MultipleIs
<1>2. PICK l \in Nat : b = l * d
  BY MultipleIs
<1>3. CASE l <= k
  <2>1. a - b = (k - l) * d
    BY <1>1, <1>2
  <2>2. k - l \in Nat /\ a - b \in Nat
    BY <1>3
  <2> DEFINE j == k - l
             c == a - b
  <2>3. j \in Nat /\ c \in Nat /\ c = j * d
    BY <2>1, <2>2
  <2> HIDE DEF j, c
  <2>4. c % d = 0
    BY <2>3, MultipleIs
  <2> QED
    BY <2>4 DEF c
<1>4. CASE k < l
  <2>1. (k + 1) * d <= l * d /\ (k + 1) * d = (k * d) + d
    BY <1>4, TimesMonotonic
  <2> QED
    BY <1>1, <1>2, <2>1
<1> QED
  BY <1>3, <1>4

LEMMA MultipleTimes ==
  ASSUME NEW n \in Nat, NEW a \in Nat, NEW d \in Nat \ {0}, a % d = 0
  PROVE  n * a \in Nat /\ (n * a) % d = 0
<1>1. PICK k \in Nat : a = k * d
  BY MultipleIs
<1> DEFINE x == n * a
           j == n * k
<1>2. x \in Nat /\ j \in Nat /\ x = j * d
  BY <1>1
<1> HIDE DEF x, j
<1>3. x % d = 0
  BY <1>2, MultipleIs
<1> QED
  BY <1>2, <1>3 DEF x

\* What is left of a buffer: its bytes from the first that was not processed.
LEMMA RestIs ==
  ASSUME NEW data, WordArray(data), NEW n \in Nat, NEW size \in Nat, size % WordBytes = 0
  PROVE  /\ WordArray(Rest(data, size, n))
         /\ Rest(data, size, n).sigBytes = IF n * size <= data.sigBytes
                                           THEN data.sigBytes - n * size ELSE 0
         /\ \A i \in Nat \ {0} : ByteAt(Rest(data, size, n), i) = ByteAt(data, n * size + i)
<1> DEFINE w == data.words
           p == n * size
           l == Len(w)
           t == data.sigBytes
           v == SubSeq(w, p + 1, l)
           s == t - Min({p, t})
<1>0. WordBytes \in Nat \ {0}
  BY WordArraysAssumption DEF WordArraysAssumption
<1>1. /\ Sequence(w) /\ l \in Nat /\ l % WordBytes = 0
      /\ t \in Nat /\ t <= l
  BY SequenceIs DEF WordArray, IsWordArray
<1>2. p \in Nat /\ p % WordBytes = 0
  BY <1>0, MultipleTimes
<1>3. Rest(data, size, n) = [words |-> v, sigBytes |-> s]
  BY DEF Rest
<1> HIDE DEF p
<1>4. PICK S : w \in Seq(S)
  BY <1>1 DEF Sequence
<1> HIDE DEF w
<1>5. /\ Sequence(v) /\ Len(v) = (IF p <= l THEN l - p ELSE 0)
      /\ \A i \in 1 .. l - p : v[i] = w[p + i]
  <2>1. CASE p < l
    <3>1. /\ p + 1 \in 1 .. l + 1 /\ l \in 0 .. Len(w)
      BY <1>1, <1>2, <2>1
    <3>2. v \in Seq(S) /\ Len(v) = l - p /\ \A i \in 1 .. l - p : v[i] = w[p + i]
      BY <1>1, <1>2, <1>4, <2>1
    <3>3. Sequence(v)
      BY <3>2 DEF Sequence
    <3> HIDE DEF v, l
    <3> QED
      BY <1>1, <1>2, <2>1, <3>2, <3>3
  <2>2. CASE l <= p
    <3>1. v = <<>>
      BY <1>1, <1>2, <1>4, <2>2
    <3> QED
      BY <1>1, <1>2, <2>2, <3>1 DEF Sequence
  <2> QED
    BY <1>1, <1>2, <2>1, <2>2
<1>6. s = IF p <= t THEN t - p ELSE 0
  <2>1. Min({p, t}) = IF p <= t THEN p ELSE t
    BY <1>1, <1>2, MinOf
  <2> HIDE DEF t
  <2> QED
    BY <1>1, <1>2, <2>1
<1> HIDE DEF v, l
<1>7. Len(v) % WordBytes = 0
  <2>1. CASE p <= l
    <3>1. Len(v) = l - p
      BY <1>5, <2>1
    <3>2. (l - p) % WordBytes = 0
      BY <1>0, <1>1, <1>2, <2>1, MultipleMinus
    <3> QED
      BY <3>1, <3>2
  <2>2. CASE ~(p <= l)
    <3>1. Len(v) = 0
      BY <1>5, <2>2
    <3>2. 0 % WordBytes = 0
      BY <1>0
    <3> QED
      BY <3>1, <3>2
  <2> QED
    BY <2>1, <2>2
<1> HIDE DEF s, t
<1>8. s \in Nat /\ s <= Len(v)
  BY <1>1, <1>2, <1>5, <1>6
<1>9. WordArray([words |-> v, sigBytes |-> s])
  BY <1>5, <1>7, <1>8 DEF WordArray, IsWordArray
<1>10. ASSUME NEW i \in Nat \ {0}
       PROVE  ByteAt([words |-> v, sigBytes |-> s], i) = ByteAt(data, p + i)
  <2>1. ByteAt([words |-> v, sigBytes |-> s], i) = IF i <= Len(v) THEN v[i] ELSE Zero
    BY DEF ByteAt
  <2>2. ByteAt(data, p + i) = IF p + i <= l THEN w[p + i] ELSE Zero
    BY DEF ByteAt, w, l
  <2>3. CASE p + i <= l
    BY <1>1, <1>2, <1>5, <2>1, <2>2, <2>3
  <2>4. CASE ~(p + i <= l)
    BY <1>1, <1>2, <1>5, <2>1, <2>2, <2>4
  <2> QED
    BY <2>3, <2>4
<1> QED
  BY <1>3, <1>6, <1>9, <1>10 DEF p, t

\* A sum of multiples.
LEMMA MultiplePlus ==
  ASSUME NEW a \in Nat, NEW b \in Nat, NEW d \in Nat \ {0}, a % d = 0, b % d = 0
  PROVE  a + b \in Nat /\ (a + b) % d = 0
<1>1. PICK k \in Nat : a = k * d
  BY MultipleIs
<1>2. PICK l \in Nat : b = l * d
  BY MultipleIs
<1> DEFINE c == a + b
           j == k + l
<1>3. c \in Nat /\ j \in Nat /\ c = j * d
  BY <1>1, <1>2
<1> HIDE DEF c, j
<1>4. c % d = 0
  BY <1>3, MultipleIs
<1> QED
  BY <1>3, <1>4 DEF c

\* The room of n bytes is the least that holds them.
LEMMA RoomLeast ==
  ASSUME NEW n \in Nat, NEW l \in Nat, l % WordBytes = 0, n <= l
  PROVE  Room(n) <= l
<1>0. WordBytes \in Nat \ {0}
  BY WordArraysAssumption DEF WordArraysAssumption
<1>1. Room(n) \in Nat /\ Room(n) < n + WordBytes /\ Room(n) % WordBytes = 0
  BY RoomIs
<1> SUFFICES ASSUME l < Room(n) PROVE FALSE
  BY <1>1
<1> DEFINE x == Room(n) - l
<1>2. x \in Nat /\ 0 < x /\ x < WordBytes
  BY <1>0, <1>1
<1>3. x % WordBytes = 0
  BY <1>0, <1>1, MultipleMinus
<1> HIDE DEF x
<1>4. x = (0 * WordBytes) + x
  BY <1>0, <1>2
<1>5. x % WordBytes = x
  BY <1>0, <1>2, <1>4, QuotientUnique
<1> QED
  BY <1>2, <1>3, <1>5

\* A word array whose last word holds nothing past the count.
Trim(a) == \A i \in Nat : i > a.sigBytes /\ i <= Room(a.sigBytes) => ByteAt(a, i) = Zero

\* What concat does with an array that holds no byte past its count.
LEMMA ConcatTrim ==
  ASSUME NEW a, NEW b, WordArray(a), WordArray(b), Trim(b)
  PROVE  \A i \in Nat \ {0} :
            ByteAt(concat(a, b), i) = IF i <= a.sigBytes THEN ByteAt(a, i)
                                      ELSE IF i <= a.sigBytes + b.sigBytes
                                           THEN ByteAt(b, i - a.sigBytes)
                                      ELSE Zero
<1> DEFINE n == a.sigBytes
           m == b.sigBytes
           c == concat(a, b)
<1>0. WordBytes \in Nat \ {0}
  BY WordArraysAssumption DEF WordArraysAssumption
<1>1. n \in Nat /\ m \in Nat /\ n + m \in Nat
  BY DEF WordArray, IsWordArray
<1>2. \A i \in Nat \ {0} :
            ByteAt(c, i) = CASE i <= n -> ByteAt(a, i)
                             [] i > n /\ i <= n + m -> ByteAt(b, i - n)
                             [] OTHER -> IF i <= Room(n + m) /\ n % WordBytes = 0
                                         THEN ByteAt(b, i - n) ELSE Zero
  BY ConcatIs
<1>3. \A i \in Nat : i > m /\ i <= Room(m) => ByteAt(b, i) = Zero
  BY DEF Trim
<1> HIDE DEF n, m, c
<1>4. ASSUME n % WordBytes = 0
      PROVE  Room(n + m) <= n + Room(m)
  <2>1. Room(m) \in Nat /\ Room(m) % WordBytes = 0 /\ m <= Room(m)
    BY <1>1, RoomIs
  <2> DEFINE l == n + Room(m)
  <2>2. l \in Nat /\ l % WordBytes = 0 /\ n + m <= l
    BY <1>0, <1>1, <1>4, <2>1, MultiplePlus
  <2> HIDE DEF l
  <2>3. Room(n + m) <= l
    BY <1>1, <2>2, RoomLeast
  <2> QED
    BY <2>3 DEF l
<1>5. Room(m) \in Nat /\ Room(n + m) \in Nat
  BY <1>1, RoomIs
<1>6. ASSUME NEW i \in Nat, i > n + m, i <= Room(n + m), n % WordBytes = 0
      PROVE  ByteAt(b, i - n) = Zero
  <2>1. i - n \in Nat /\ i - n > m /\ i - n <= Room(m)
    BY <1>1, <1>4, <1>5, <1>6
  <2> QED
    BY <1>3, <2>1
<1>7. \A i \in Nat \ {0} :
         ByteAt(c, i) = IF i <= n THEN ByteAt(a, i)
                        ELSE IF i <= n + m THEN ByteAt(b, i - n) ELSE Zero
  <2> SUFFICES ASSUME NEW i \in Nat \ {0}
               PROVE  ByteAt(c, i) = IF i <= n THEN ByteAt(a, i)
                                     ELSE IF i <= n + m THEN ByteAt(b, i - n) ELSE Zero
    OBVIOUS
  <2>1. CASE i <= n
    <3>1. ~(i > n)
      BY <1>1, <2>1
    <3> QED
      BY <1>2, <2>1, <3>1
  <2>2. CASE i > n /\ i <= n + m
    <3>1. ~(i <= n)
      BY <1>1, <2>2
    <3> QED
      BY <1>2, <2>2, <3>1
  <2>3. CASE i > n + m
    <3>1. ~(i <= n) /\ ~(i <= n + m)
      BY <1>1, <2>3
    <3>2. i > n + m
      BY <2>3
    <3> QED
      BY <1>2, <1>6, <3>1, <3>2
  <2> QED
    BY <1>1, <2>1, <2>2, <2>3
<1> QED
  BY <1>7 DEF n, m, c

\* A piece that does not exceed its count, and the other way round.
LEMMA ExceedsIs ==
  ASSUME NEW a, WordArray(a)
  PROVE  Exceeds(a) <=> ~Trim(a)
<1> DEFINE n == a.sigBytes
           w == a.words
           r == Room(n)
           u == [i \in 1 .. Room(n) |-> IF i <= n THEN ByteAt(a, i) ELSE Zero]
           v == SubSeq(w, 1, r)
<1>1. n \in Nat /\ r \in Nat /\ Sequence(w) /\ Len(w) \in Nat /\ r <= Len(w) /\ n <= r
  BY RoomIs, RoomLeast, SequenceIs DEF WordArray, IsWordArray
<1>2. clamp(a).words = u
  BY DEF clamp, Words, Room, WordArray, IsWordArray
<1>3. Sequence(u) /\ Len(u) = r /\ \A i \in 1 .. r : u[i] = IF i <= n THEN ByteAt(a, i) ELSE Zero
  <2>1. u = [i \in 1 .. r |-> u[i]]
    OBVIOUS
  <2>2. \A i \in 1 .. r : u[i] = IF i <= n THEN ByteAt(a, i) ELSE Zero
    OBVIOUS
  <2> HIDE DEF u
  <2> QED
    BY <1>1, <2>1, <2>2, SequenceOver
<1> HIDE DEF u, r, w
<1>4. PICK S : w \in Seq(S)
  BY <1>1 DEF Sequence
<1>5. v \in Seq(S) /\ Len(v) = r /\ \A i \in 1 .. r : v[i] = w[i]
  BY <1>1, <1>4
<1>6. Sequence(v)
  BY <1>5 DEF Sequence
<1>7. \A i \in 1 .. r : w[i] = ByteAt(a, i)
  BY <1>1 DEF ByteAt, w
<1> HIDE DEF v, n
<1>8. u = v <=> \A i \in 1 .. r : u[i] = v[i]
  BY <1>3, <1>5, <1>6, SequenceEqual
<1>9. (\A i \in 1 .. r : u[i] = v[i]) <=> \A i \in 1 .. r : i > n => ByteAt(a, i) = Zero
  BY <1>1, <1>3, <1>5, <1>7
<1>10. (\A i \in 1 .. r : i > n => ByteAt(a, i) = Zero)
         <=> \A i \in Nat : i > n /\ i <= r => ByteAt(a, i) = Zero
  BY <1>1
<1>11. Exceeds(a) <=> u # v
  <2>1. Exceeds(a) <=> clamp(a).words # SubSeq(a.words, 1, Len(clamp(a).words))
    BY DEF Exceeds
  <2> QED
    BY <1>2, <1>3, <2>1 DEF v, w
<1>12. Trim(a) <=> \A i \in Nat : i > n /\ i <= r => ByteAt(a, i) = Zero
  BY DEF Trim, n, r
<1> QED
  BY <1>8, <1>9, <1>10, <1>11, <1>12

-----------------------------------------------------------------------------
\* The hash: whole blocks, the padding, finalize.

\* A buffer that holds what is left of message m after its first z bytes, and zeros.
Holds(data, m, z) ==
    /\ WordArray(data) /\ Sequence(m) /\ z \in Nat
    /\ z + data.sigBytes = Len(m)
    /\ \A i \in Nat \ {0} : ByteAt(data, i) = IF i <= data.sigBytes THEN m[z + i] ELSE Zero

\* A piece behind what a buffer holds.
LEMMA HoldsConcat ==
  ASSUME NEW data, NEW m, NEW z, NEW p, Holds(data, m, z), WordArray(p), Trim(p)
  PROVE  /\ Holds(concat(data, p), m \o Bytes(p), z)
         /\ Len(m \o Bytes(p)) = Len(m) + p.sigBytes
         /\ \A i \in 1 .. Len(m) : (m \o Bytes(p))[i] = m[i]
<1> DEFINE n == data.sigBytes
           k == p.sigBytes
           y == Bytes(p)
           d == concat(data, p)
           e == m \o Bytes(p)
<1>1. /\ WordArray(data) /\ n \in Nat /\ k \in Nat /\ z \in Nat
      /\ z + n = Len(m) /\ Sequence(m) /\ Len(m) \in Nat
  BY SequenceIs DEF Holds, WordArray, IsWordArray
<1>2. WordArray(d) /\ d.sigBytes = n + k
  BY <1>1, ConcatIs
<1>3. Sequence(y) /\ Len(y) = k /\ \A i \in 1 .. k : y[i] = ByteAt(p, i)
  BY BytesIs
<1> HIDE DEF y
<1>4. /\ Sequence(m \o y) /\ Len(m \o y) = Len(m) + k
      /\ m \o y = [i \in 1 .. Len(m) + k |-> IF i <= Len(m) THEN m[i] ELSE y[i - Len(m)]]
  <2> HIDE DEF e, n, d
  <2>1. Sequence(m) /\ Sequence(y) /\ Len(y) = k
    BY <1>1, <1>3
  <2> QED
    BY <2>1, SequenceConcat
<1>5. /\ e = m \o y
      /\ \A i \in 1 .. Len(m) + k : e[i] = IF i <= Len(m) THEN m[i] ELSE y[i - Len(m)]
  BY <1>4 DEF y
<1>6. \A i \in Nat \ {0} : ByteAt(d, i) = IF i <= n THEN ByteAt(data, i)
                                          ELSE IF i <= n + k THEN ByteAt(p, i - n) ELSE Zero
  BY <1>1, ConcatTrim
<1>7. \A i \in Nat \ {0} : ByteAt(data, i) = IF i <= n THEN m[z + i] ELSE Zero
  BY DEF Holds
<1> HIDE DEF e, n, k, d
<1>8. ASSUME NEW i \in Nat \ {0}
      PROVE  ByteAt(d, i) = IF i <= n + k THEN e[z + i] ELSE Zero
  <2>1. CASE i <= n
    <3>1. z + i \in 1 .. Len(m) + k /\ z + i <= Len(m) /\ i <= n + k
      BY <1>1, <2>1
    <3>2. e[z + i] = m[z + i]
      BY <1>5, <3>1
    <3> QED
      BY <1>6, <1>7, <2>1, <3>1, <3>2
  <2>2. CASE ~(i <= n) /\ i <= n + k
    <3>1. z + i \in 1 .. Len(m) + k /\ ~(z + i <= Len(m)) /\ i - n \in 1 .. k
          /\ (z + i) - Len(m) = i - n
      BY <1>1, <2>2
    <3>2. e[z + i] = y[i - n]
      BY <1>5, <3>1
    <3> QED
      BY <1>3, <1>6, <2>2, <3>1, <3>2
  <2>3. CASE ~(i <= n + k)
    <3>1. ~(i <= n)
      BY <1>1, <2>3
    <3> QED
      BY <1>6, <2>3, <3>1
  <2> QED
    BY <2>1, <2>2, <2>3
<1>9. z + (n + k) = Len(e) /\ Sequence(e) /\ Len(e) = Len(m) + k
  <2>1. Sequence(e) /\ Len(e) = Len(m) + k
    BY <1>4, <1>5
  <2> QED
    BY <1>1, <2>1
<1>10. Holds(d, e, z)
  BY <1>1, <1>2, <1>8, <1>9 DEF Holds
<1>11. \A i \in 1 .. Len(m) : e[i] = m[i]
  BY <1>1, <1>5
<1> QED
  BY <1>9, <1>10, <1>11 DEF d, e, k

\* What is left after whole blocks of a buffer.
LEMMA HoldsRest ==
  ASSUME NEW data, NEW m, NEW z, Holds(data, m, z), NEW size \in Nat, size % WordBytes = 0,
         NEW n \in Nat, n * size <= data.sigBytes
  PROVE  /\ n * size \in Nat
         /\ Holds(Rest(data, size, n), m, z + n * size)
         /\ Rest(data, size, n).sigBytes = data.sigBytes - n * size
<1> DEFINE t == data.sigBytes
           x == n * size
           r == Rest(data, size, n)
<1>1. /\ WordArray(data) /\ Sequence(m) /\ z \in Nat /\ t \in Nat /\ x \in Nat /\ x <= t
      /\ z + t = Len(m)
      /\ \A i \in Nat \ {0} : ByteAt(data, i) = IF i <= t THEN m[z + i] ELSE Zero
  BY TimesMonotonic DEF Holds, WordArray, IsWordArray
<1>2. /\ WordArray(r) /\ r.sigBytes = IF x <= t THEN t - x ELSE 0
      /\ \A i \in Nat \ {0} : ByteAt(r, i) = ByteAt(data, x + i)
  BY <1>1, RestIs
<1> HIDE DEF t, x, r
<1>3. r.sigBytes = t - x /\ t - x \in Nat /\ z + x \in Nat /\ (z + x) + (t - x) = Len(m)
  <2>1. z \in Nat /\ t \in Nat /\ x \in Nat /\ x <= t /\ z + t = Len(m) /\ r.sigBytes = t - x
    BY <1>1, <1>2
  <2> QED
    BY <2>1
<1>4. ASSUME NEW i \in Nat \ {0}
      PROVE  ByteAt(r, i) = IF i <= t - x THEN m[(z + x) + i] ELSE Zero
  <2>1. x + i \in Nat \ {0} /\ (x + i <= t <=> i <= t - x) /\ z + (x + i) = (z + x) + i
    BY <1>1
  <2>2. ByteAt(r, i) = ByteAt(data, x + i)
    BY <1>2
  <2>3. ByteAt(data, x + i) = IF x + i <= t THEN m[z + (x + i)] ELSE Zero
    BY <1>1, <2>1
  <2> QED
    BY <2>1, <2>2, <2>3
<1>5. Holds(r, m, z + x)
  BY <1>1, <1>2, <1>3, <1>4 DEF Holds
<1> QED
  BY <1>1, <1>3, <1>5 DEF r, x, t

\* The first q blocks of a message.
MessageBlocks(m, q) ==
    [b \in 1 .. q |-> [i \in 1 .. HashBlock |-> m[(b - 1) * HashBlock + i]]]

\* A hasher that has hashed q blocks of message m and holds the rest.
Hashing(h, m, q) ==
    /\ DOMAIN h = {"data", "nDataBytes", "hash"}
    /\ Sequence(m) /\ q \in Nat
    /\ Holds(h.data, m, q * HashBlock)
    /\ h.hash = MessageBlocks(m, q)

\* The sizes of the hash.
LEMMA HashBlockIs == HashBlock \in Nat \ {0} /\ HashBlock % WordBytes = 0 /\ WordBytes \in Nat \ {0}
                     /\ LengthWords * WordBytes \in Nat
                     /\ 2 * WordBytes <= LengthWords * WordBytes
                     /\ LengthWords * WordBytes <= HashBlock
<1>1. WordBytes \in Nat \ {0} /\ HashBlockWords \in Nat \ {0} /\ LengthWords \in Nat
      /\ 2 <= LengthWords /\ LengthWords <= HashBlockWords
  BY WordArraysAssumption, HashStreamAssumption DEF WordArraysAssumption, HashStreamAssumption
<1>2. HashBlock = HashBlockWords * WordBytes
  BY DEF HashBlock
<1>3. HashBlock \in Nat /\ HashBlock # 0
  BY <1>1, <1>2
<1>4. HashBlock % WordBytes = 0
  BY <1>1, <1>2, <1>3, MultipleIs
<1>5. 2 * WordBytes <= LengthWords * WordBytes /\ LengthWords * WordBytes <= HashBlockWords * WordBytes
      /\ LengthWords * WordBytes \in Nat
  BY <1>1, TimesMonotonic
<1> QED
  BY <1>1, <1>2, <1>3, <1>4, <1>5

\* A longer message has the same first blocks.
LEMMA MessageBlocksOf ==
  ASSUME NEW m, NEW n, NEW q \in Nat, q * HashBlock <= Len(m), Len(m) \in Nat,
         \A i \in 1 .. Len(m) : m[i] = n[i]
  PROVE  MessageBlocks(m, q) = MessageBlocks(n, q)
<1>1. ASSUME NEW b \in 1 .. q, NEW i \in 1 .. HashBlock
      PROVE  (b - 1) * HashBlock + i \in 1 .. Len(m)
  <2>1. HashBlock \in Nat
    BY HashBlockIs
  <2>2. b * HashBlock <= q * HashBlock /\ b \in Nat /\ b - 1 \in Nat
    BY <2>1, TimesMonotonic
  <2>3. b * HashBlock = (b - 1) * HashBlock + HashBlock /\ (b - 1) * HashBlock \in Nat
    BY <2>1, <2>2
  <2> QED
    BY <2>1, <2>2, <2>3
<1>2. \A b \in 1 .. q : \A i \in 1 .. HashBlock :
         m[(b - 1) * HashBlock + i] = n[(b - 1) * HashBlock + i]
  BY <1>1
<1> QED
  BY <1>2 DEF MessageBlocks

\* A piece behind what a hasher holds.
LEMMA AppendedHashes ==
  ASSUME NEW h, NEW m, NEW q, NEW p, Hashing(h, m, q), WordArray(p)
  PROVE  /\ DOMAIN Appended(h, p) = {"data", "nDataBytes", "hash"}
         /\ WordArray(Appended(h, p).data)
         /\ Appended(h, p).data.sigBytes = h.data.sigBytes + p.sigBytes
         /\ Appended(h, p).nDataBytes = h.nDataBytes + p.sigBytes
         /\ Trim(p) => Hashing(Appended(h, p), m \o Bytes(p), q)
<1> DEFINE d == concat(h.data, p)
           a == Appended(h, p)
           e == m \o Bytes(p)
<1>1. /\ a.data = d /\ a.hash = h.hash /\ a.nDataBytes = h.nDataBytes + p.sigBytes
      /\ DOMAIN a = {"data", "nDataBytes", "hash"}
  BY DEF Appended, Hashing
<1>2. /\ q \in Nat /\ Holds(h.data, m, q * HashBlock) /\ WordArray(h.data) /\ h.data.sigBytes \in Nat
      /\ q * HashBlock + h.data.sigBytes = Len(m) /\ Len(m) \in Nat
  BY SequenceIs DEF Hashing, Holds, WordArray, IsWordArray
<1>3. WordArray(d) /\ d.sigBytes = h.data.sigBytes + p.sigBytes
  BY <1>2, ConcatIs
<1>4. ASSUME Trim(p)
      PROVE  Hashing(a, e, q)
  <2>1. /\ Holds(d, e, q * HashBlock) /\ \A i \in 1 .. Len(m) : e[i] = m[i]
    BY <1>2, <1>4, HoldsConcat
  <2>2. MessageBlocks(m, q) = MessageBlocks(e, q)
    <3>1. q * HashBlock <= Len(m)
      BY <1>2, HashBlockIs, TimesMonotonic
    <3> QED
      BY <1>2, <2>1, <3>1, MessageBlocksOf
  <2>3. Sequence(e)
    BY <2>1 DEF Holds
  <2> QED
    BY <1>1, <1>2, <2>1, <2>2, <2>3 DEF Hashing
<1> HIDE DEF a, d
<1> QED
  BY <1>1, <1>3, <1>4 DEF a

\* _process without a block kept back: all whole blocks of the buffer.
LEMMA CompressedHashes ==
  ASSUME NEW h, NEW m, NEW q, Hashing(h, m, q)
  PROVE  LET n == h.data.sigBytes \div HashBlock
         IN  /\ Hashing(Compressed(h), m, q + n) /\ n \in Nat
             /\ Compressed(h).data.sigBytes = h.data.sigBytes % HashBlock
             /\ Compressed(h).nDataBytes = h.nDataBytes
<1> DEFINE t == h.data.sigBytes
           n == t \div HashBlock
           z == q * HashBlock
           x == n * HashBlock
           c == Compressed(h)
           old == MessageBlocks(m, q)
           new == Blocks(h.data, HashBlock, n)
           all == MessageBlocks(m, q + n)
<1>1. /\ WordArray(h.data) /\ t \in Nat /\ q \in Nat /\ HashBlock \in Nat \ {0}
      /\ HashBlock % WordBytes = 0 /\ Sequence(m)
      /\ z + t = Len(m) /\ Len(m) \in Nat /\ h.hash = old
      /\ \A i \in Nat \ {0} : ByteAt(h.data, i) = IF i <= t THEN m[z + i] ELSE Zero
  BY HashBlockIs, SequenceIs DEF Hashing, Holds, WordArray, IsWordArray
<1>2. n \in Nat /\ t % HashBlock \in Nat /\ t = x + (t % HashBlock)
  BY <1>1, Division
<1>3. x \in Nat /\ z \in Nat /\ x <= t
  <2> HIDE DEF n
  <2>1. n * HashBlock \in Nat
    BY <1>1, <1>2, TimesMonotonic
  <2>2. q * HashBlock \in Nat
    BY <1>1, TimesMonotonic
  <2> HIDE DEF t
  <2> QED
    BY <1>1, <1>2, <2>1, <2>2
<1>4. BlocksReady(h.data, HashBlock, FALSE, 0) = n
  <2>1. n - 0 = n /\ n - 0 \in Int /\ n >= 0
    BY <1>2
  <2>2. Max({n - 0, 0}) = n
    BY <2>1, MaxZero
  <2> QED
    BY <2>2 DEF BlocksReady
<1>5. /\ c.hash = old \o new /\ c.data = Rest(h.data, HashBlock, n)
      /\ c.nDataBytes = h.nDataBytes /\ DOMAIN c = {"data", "nDataBytes", "hash"}
  BY <1>1, <1>4 DEF Compressed, Hashing
<1> HIDE DEF n
<1>6. /\ Holds(c.data, m, z + x) /\ c.data.sigBytes = t - x
  <2>1. /\ Holds(h.data, m, z) /\ HashBlock \in Nat /\ n \in Nat /\ n * HashBlock <= h.data.sigBytes
    BY <1>1, <1>2, <1>3 DEF Hashing
  <2> HIDE DEF z
  <2>2. /\ Holds(Rest(h.data, HashBlock, n), m, z + n * HashBlock)
        /\ Rest(h.data, HashBlock, n).sigBytes = h.data.sigBytes - n * HashBlock
    BY <1>1, <2>1, HoldsRest
  <2> QED
    BY <1>5, <2>2
<1>7. (q + n) * HashBlock = z + x
  BY <1>1, <1>2
<1>8. Holds(c.data, m, (q + n) * HashBlock)
  <2> HIDE DEF z, x, c
  <2> QED
    BY <1>6, <1>7
<1>9. c.hash = all
  <2>1. old = [b \in 1 .. q |-> old[b]] /\ \A b \in 1 .. q : old[b] = all[b]
    BY <1>1, <1>2 DEF MessageBlocks
  <2>2. Sequence(old) /\ Len(old) = q
    BY <1>1, <2>1, SequenceOver
  <2>3. new = [b \in 1 .. n |-> new[b]]
    BY DEF Blocks
  <2>4. Sequence(new) /\ Len(new) = n
    BY <1>2, <2>3, SequenceOver
  <2>5. ASSUME NEW b \in 1 .. n
        PROVE  new[b] = all[q + b]
    <3>1. new[b] = [i \in 1 .. HashBlock |-> ByteAt(h.data, (b - 1) * HashBlock + i)]
      BY DEF Blocks, Block
    <3>2. q + b \in 1 .. q + n
      BY <1>1, <1>2
    <3>3. all[q + b] = [i \in 1 .. HashBlock |-> m[((q + b) - 1) * HashBlock + i]]
      BY <3>2 DEF MessageBlocks
    <3> DEFINE y == (b - 1) * HashBlock
    <3>4. /\ ((q + b) - 1) * HashBlock = z + y /\ y \in Nat /\ y + HashBlock = b * HashBlock
          /\ b * HashBlock <= x
      <4>1. b \in Nat /\ b - 1 \in Nat /\ b <= n
        BY <1>2
      <4>2. b * HashBlock <= x
        BY <1>1, <1>2, <4>1, TimesMonotonic
      <4>3. y \in Nat /\ y + HashBlock = b * HashBlock
        BY <1>1, <4>1
      <4>4. ((q + b) - 1) * HashBlock = z + y
        <5>1. (q + b) - 1 = q + (b - 1)
          BY <1>1, <4>1
        <5>2. (q + (b - 1)) * HashBlock = q * HashBlock + (b - 1) * HashBlock
          BY <1>1, <4>1
        <5> QED
          BY <5>1, <5>2
      <4> QED
        BY <4>2, <4>3, <4>4
    <3> HIDE DEF y, x, z, t
    <3>5. ASSUME NEW i \in 1 .. HashBlock
          PROVE  ByteAt(h.data, y + i) = m[(z + y) + i]
      <4>1. y + i \in Nat \ {0} /\ y + i <= t /\ z + (y + i) = (z + y) + i
        BY <1>1, <1>3, <3>4
      <4> QED
        BY <1>1, <4>1
    <3>6. /\ new[b] = [i \in 1 .. HashBlock |-> ByteAt(h.data, y + i)]
          /\ all[q + b] = [i \in 1 .. HashBlock |-> m[(z + y) + i]]
      BY <3>1, <3>3, <3>4 DEF y
    <3> HIDE DEF new, all
    <3> QED
      BY <3>5, <3>6
  <2>6. all = [b \in 1 .. q + n |-> all[b]]
    BY DEF MessageBlocks
  <2>7. Sequence(all) /\ Len(all) = q + n
    BY <1>1, <1>2, <2>6, SequenceOver
  <2> DEFINE both == old \o new
  <2> HIDE DEF old, new, all
  <2>8. /\ Sequence(both) /\ Len(both) = q + n
        /\ both = [b \in 1 .. q + n |-> IF b <= q THEN old[b] ELSE new[b - q]]
    BY <2>2, <2>4, SequenceConcat
  <2>9. ASSUME NEW b \in 1 .. q + n
        PROVE  both[b] = all[b]
    <3>1. CASE b <= q
      BY <1>1, <2>1, <2>8, <3>1
    <3>2. CASE ~(b <= q)
      <4>1. b - q \in 1 .. n /\ q + (b - q) = b
        <5>1. q \in Nat /\ n \in Nat
          BY <1>1, <1>2
        <5> HIDE DEF t, x, z, c
        <5> QED
          BY <3>2, <5>1
      <4>2. new[b - q] = all[b]
        BY <2>5, <4>1
      <4> QED
        BY <2>8, <3>2, <4>2
    <3> QED
      BY <3>1, <3>2
  <2> HIDE DEF both
  <2>10. both = all
    BY <2>7, <2>8, <2>9, SequenceEqual
  <2> QED
    BY <1>5, <2>10 DEF both
<1>10. t - x = t % HashBlock /\ q + n \in Nat
  BY <1>1, <1>2, <1>3
<1> HIDE DEF c, all, x
<1> QED
  BY <1>1, <1>2, <1>5, <1>6, <1>8, <1>9, <1>10 DEF Hashing, c, n, t, all

\* The size of a padded message of n bytes, and the message itself: the marker
\* behind its bytes, the length at its end.
LengthBytes == LengthWords * WordBytes

PaddedTo(n) == (((n + LengthBytes) \div HashBlock) + 1) * HashBlock

PaddedBytes(m, size) ==
    [i \in 1 .. size |-> CASE i <= Len(m) -> m[i]
                           [] i = Len(m) + 1 -> {<<"0x80">>}
                           [] i = size -> {<<"length", Len(m)>>}
                           [] OTHER -> Zero]

PaddedMessage(m) == PaddedBytes(m, PaddedTo(Len(m)))

\* n bytes, the marker and the length fill size, and nothing less.
Fits(n, size) == n + 1 + LengthBytes <= size /\ size - HashBlock < n + 1 + LengthBytes

\* The least multiple of the block size with room for the marker and the length.
LEMMA PaddedToIs ==
  ASSUME NEW n \in Nat
  PROVE  /\ PaddedTo(n) \in Nat /\ Fits(n, PaddedTo(n))
         /\ PaddedTo(n) = (((n + LengthBytes) \div HashBlock) + 1) * HashBlock
         /\ (n + LengthBytes) \div HashBlock \in 0 .. n + 1
         /\ PaddedTo(n) \div HashBlock = ((n + LengthBytes) \div HashBlock) + 1
         /\ \A k \in Nat \ {0} : Fits(n, k * HashBlock) => k * HashBlock = PaddedTo(n)
<1> DEFINE x == n + LengthBytes
           p == x \div HashBlock
           r == x % HashBlock
           y == p * HashBlock
           u == PaddedTo(n)
<1>1. HashBlock \in Nat \ {0} /\ LengthBytes \in Nat /\ LengthBytes <= HashBlock /\ x \in Nat
  BY HashBlockIs DEF LengthBytes
<1>2. p \in Nat /\ r \in Nat /\ r < HashBlock /\ x = y + r
  BY <1>1, Division
<1>3. u = (p + 1) * HashBlock
  BY DEF PaddedTo
<1> HIDE DEF p, r, u
<1>4. y \in Nat /\ u = y + HashBlock
  BY <1>1, <1>2, <1>3
<1> HIDE DEF y
<1>5. u \in Nat /\ n + 1 + LengthBytes <= u /\ u - HashBlock < n + 1 + LengthBytes
  BY <1>1, <1>2, <1>4
<1>6. p <= n + 1
  <2> SUFFICES ASSUME n + 2 <= p PROVE FALSE
    BY <1>2
  <2>1. (n + 2) * HashBlock <= p * HashBlock
    BY <1>1, <1>2, TimesMonotonic
  <2>2. (n + 2) * HashBlock = n * HashBlock + 2 * HashBlock
    BY <1>1
  <2>3. n * 1 <= n * HashBlock
    BY <1>1
  <2>4. x <= n + HashBlock
    BY <1>1
  <2> QED
    BY <1>1, <1>2, <2>1, <2>2, <2>3, <2>4 DEF y
<1>7. u \div HashBlock = p + 1
  <2>1. u = ((p + 1) * HashBlock) + 0 /\ p + 1 \in Nat /\ 0 \in Nat /\ 0 < HashBlock /\ u \in Nat
    BY <1>1, <1>2, <1>3, <1>5
  <2> QED
    BY <1>1, <2>1, QuotientUnique
<1>8. ASSUME NEW k \in Nat \ {0}, n + 1 + LengthBytes <= k * HashBlock,
             k * HashBlock - HashBlock < n + 1 + LengthBytes
      PROVE  k * HashBlock = u
  <2> DEFINE j == k - 1
  <2>1. j \in Nat /\ k = j + 1
    OBVIOUS
  <2> HIDE DEF j
  <2> DEFINE z == j * HashBlock
  <2>2. z \in Nat /\ k * HashBlock = z + HashBlock
    BY <1>1, <2>1
  <2> HIDE DEF z
  <2>3. z <= x /\ x - z \in Nat /\ x - z < HashBlock /\ x = z + (x - z)
    BY <1>1, <1>8, <2>2
  <2> DEFINE d == x - z
  <2> HIDE DEF d
  <2>4. d \in Nat /\ d < HashBlock /\ x = (j * HashBlock) + d
    BY <2>3 DEF d, z
  <2> HIDE DEF x
  <2>5. x \div HashBlock = j
    BY <1>1, <2>1, <2>4, QuotientUnique
  <2> QED
    BY <1>3, <2>1, <2>5 DEF p
<1> QED
  BY <1>2, <1>3, <1>5, <1>6, <1>7, <1>8 DEF u, p, x, Fits

\* The padding of the definition is the padded message.
LEMMA PaddedMessageIs ==
  ASSUME NEW m, Sequence(m)
  PROVE  /\ Sequence(PaddedMessage(m)) /\ Len(PaddedMessage(m)) = PaddedTo(Len(m))
         /\ ReferenceDigest(m) = MessageBlocks(PaddedMessage(m), PaddedTo(Len(m)) \div HashBlock)
         /\ \A i \in 1 .. PaddedTo(Len(m)) :
               PaddedMessage(m)[i] = CASE i <= Len(m) -> m[i]
                                       [] i = Len(m) + 1 -> {<<"0x80">>}
                                       [] i = PaddedTo(Len(m)) -> {<<"length", Len(m)>>}
                                       [] OTHER -> Zero
<1> DEFINE n == Len(m)
           u == PaddedTo(n)
           w == PaddedMessage(m)
           p == (n + LengthBytes) \div HashBlock
           M == {k * HashBlock : k \in 1 .. n + 2}
           size == CHOOSE s \in M : Fits(n, s)
<1>1. n \in Nat
  BY SequenceIs
<1>2. u \in Nat /\ u = (p + 1) * HashBlock /\ p \in 0 .. n + 1 /\ Fits(n, u)
      /\ \A k \in Nat \ {0} : Fits(n, k * HashBlock) => k * HashBlock = u
  BY <1>1, PaddedToIs
<1>3. w = [i \in 1 .. u |-> w[i]]
  BY DEF PaddedMessage, PaddedBytes
<1>4. Sequence(w) /\ Len(w) = u
  BY <1>2, <1>3, SequenceOver
<1>5. size = u
  <2> HIDE DEF u, n, p
  <2>1. p + 1 \in 1 .. n + 2
    BY <1>1, <1>2
  <2>2. u \in M
    BY <1>2, <2>1
  <2>3. \A s \in M : Fits(n, s) => s = u
    BY <1>1, <1>2
  <2> HIDE DEF M
  <2> QED
    BY <1>2, <2>2, <2>3
<1>6. ReferenceDigest(m) = MessageBlocks(PaddedBytes(m, size), size \div HashBlock)
  BY DEF ReferenceDigest, LengthBytes, PaddedBytes, MessageBlocks, Fits
<1>7. ReferenceDigest(m) = MessageBlocks(w, u \div HashBlock)
  <2> HIDE DEF size
  <2> QED
    BY <1>5, <1>6 DEF PaddedMessage
<1> QED
  BY <1>4, <1>7 DEF PaddedMessage, PaddedBytes

\* Whole blocks before the bytes shift the padded size and nothing else.
LEMMA PaddedShift ==
  ASSUME NEW q \in Nat, NEW t \in Nat
  PROVE  q * HashBlock \in Nat /\ PaddedTo((q * HashBlock) + t) = (q * HashBlock) + PaddedTo(t)
<1> DEFINE x == t + LengthBytes
           k == x \div HashBlock
           r == x % HashBlock
           z == q * HashBlock
           g == k * HashBlock
           y == (z + t) + LengthBytes
<1>1. HashBlock \in Nat \ {0} /\ LengthBytes \in Nat
  BY HashBlockIs DEF LengthBytes
<1> HIDE DEF LengthBytes
<1>2. k \in Nat /\ r \in Nat /\ r < HashBlock /\ x = (k * HashBlock) + r
  <2>1. x \in Nat
    BY <1>1
  <2> HIDE DEF x
  <2> QED
    BY <1>1, <2>1, Division
<1>3. z \in Nat /\ g \in Nat /\ (q + k) * HashBlock = z + g /\ q + k \in Nat
      /\ ((q + k) + 1) * HashBlock = (z + g) + HashBlock
      /\ (k + 1) * HashBlock = g + HashBlock
  <2> HIDE DEF k
  <2> QED
    BY <1>1, <1>2
<1>4. x = g + r
  BY <1>2
<1> HIDE DEF k, r, g, z
<1>5. y \in Nat /\ y = (z + g) + r
  BY <1>1, <1>2, <1>3, <1>4
<1> HIDE DEF y, x
<1>6. y = ((q + k) * HashBlock) + r
  BY <1>3, <1>5
<1>7. y \div HashBlock = q + k
  BY <1>1, <1>2, <1>3, <1>5, <1>6, QuotientUnique
<1>8. PaddedTo(z + t) = ((q + k) + 1) * HashBlock
  BY <1>7 DEF PaddedTo, y
<1>9. PaddedTo(t) = (k + 1) * HashBlock
  BY DEF PaddedTo, k, x
<1>10. PaddedTo(z + t) = z + PaddedTo(t)
  BY <1>1, <1>3, <1>8, <1>9
<1> QED
  BY <1>3, <1>10 DEF z

\* The buffer behind the padding: what it held, the marker, zeros, the length.
LEMMA PaddedIs ==
  ASSUME NEW h, DOMAIN h = {"data", "nDataBytes", "hash"}, WordArray(h.data),
         \A i \in Nat \ {0} : i > h.data.sigBytes => ByteAt(h.data, i) = Zero
  PROVE  LET t == h.data.sigBytes
             p == Padded(h)
         IN  /\ DOMAIN p = {"data", "nDataBytes", "hash"} /\ p.hash = h.hash
             /\ p.nDataBytes = h.nDataBytes
             /\ WordArray(p.data) /\ p.data.sigBytes = PaddedTo(t)
             /\ \A i \in Nat \ {0} :
                   ByteAt(p.data, i) = CASE i <= t -> ByteAt(h.data, i)
                                         [] i = t + 1 -> {<<"0x80">>}
                                         [] i = PaddedTo(t) -> {<<"length", h.nDataBytes>>}
                                         [] OTHER -> Zero
<1> DEFINE t == h.data.sigBytes
           v == PaddedTo(t)
           two == 2 * WordBytes
           f(i) == CASE i = v -> {<<"length", h.nDataBytes>>}
                     [] i > v - two /\ i < v -> Zero
                     [] i = t + 1 -> ByteAt(h.data, i) \cup {<<"0x80">>}
                     [] OTHER -> ByteAt(h.data, i)
           words == [i \in 1 .. v |-> f(i)]
           d == [words |-> words, sigBytes |-> v]
           p == Padded(h)
<1>1. p.data = d /\ p.hash = h.hash /\ p.nDataBytes = h.nDataBytes
      /\ DOMAIN p = {"data", "nDataBytes", "hash"}
  BY DEF Padded, PaddedTo, LengthBytes
<1>2. t \in Nat
  BY DEF WordArray, IsWordArray
<1>3. v \in Nat /\ t + 1 + LengthBytes <= v
  <2> HIDE DEF t
  <2> QED
    BY <1>2, PaddedToIs DEF Fits
<1>4. LengthBytes \in Nat /\ two \in Nat /\ 0 < two /\ two <= LengthBytes
  BY HashBlockIs DEF LengthBytes
<1>5. v % WordBytes = 0
  <2> DEFINE k == ((t + LengthBytes) \div HashBlock) + 1
  <2>1. v = k * HashBlock /\ k \in Nat
    <3> HIDE DEF t
    <3>1. (t + LengthBytes) \div HashBlock \in 0 .. t + 1 /\ v = k * HashBlock
      BY <1>2, PaddedToIs
    <3> QED
      BY <1>2, <3>1
  <2>2. HashBlock \in Nat /\ WordBytes \in Nat \ {0} /\ HashBlock % WordBytes = 0
    BY HashBlockIs
  <2> HIDE DEF k, v
  <2> QED
    BY <2>1, <2>2, MultipleTimes
<1>6. words = [i \in 1 .. v |-> words[i]] /\ \A i \in 1 .. v : words[i] = f(i)
  OBVIOUS
<1> HIDE DEF words, v, t, two
<1>7. Sequence(words) /\ Len(words) = v
  BY <1>3, <1>6, SequenceOver
<1>8. WordArray(d)
  BY <1>3, <1>5, <1>7 DEF WordArray, IsWordArray
<1>9. \A i \in Nat \ {0} : ByteAt(d, i) = IF i <= v THEN f(i) ELSE Zero
  <2> HIDE DEF f
  <2> QED
    BY <1>3, <1>6, <1>7 DEF ByteAt
<1>10. ASSUME NEW i \in Nat \ {0}
       PROVE  ByteAt(d, i) = CASE i <= t -> ByteAt(h.data, i)
                               [] i = t + 1 -> {<<"0x80">>}
                               [] i = v -> {<<"length", h.nDataBytes>>}
                               [] OTHER -> Zero
  <2>1. CASE i <= t
    <3>1. i <= v /\ i # v /\ ~(i > v - two) /\ i # t + 1
      BY <1>2, <1>3, <1>4, <2>1
    <3> QED
      BY <1>9, <2>1, <3>1
  <2>2. CASE i = t + 1
    <3>1. i <= v /\ i # v /\ ~(i > v - two) /\ ~(i <= t)
      BY <1>2, <1>3, <1>4, <2>2
    <3>2. ByteAt(h.data, i) = {}
      BY <1>2, <3>1 DEF Zero, t
    <3>3. f(i) = {<<"0x80">>}
      BY <2>2, <3>1, <3>2
    <3> HIDE DEF f, d
    <3>4. ByteAt(d, i) = {<<"0x80">>}
      BY <1>9, <3>1, <3>3
    <3> QED
      BY <2>2, <3>1, <3>4
  <2>3. CASE i = v
    <3>1. i <= v /\ ~(i < v) /\ i # t + 1 /\ ~(i <= t)
      BY <1>2, <1>3, <1>4, <2>3
    <3> QED
      BY <1>9, <2>3, <3>1
  <2>4. CASE ~(i <= t) /\ i # t + 1 /\ i # v
    <3>1. ByteAt(h.data, i) = Zero
      BY <1>2, <2>4 DEF t
    <3> QED
      BY <1>9, <2>4, <3>1
  <2> QED
    BY <2>1, <2>2, <2>3, <2>4
<1> HIDE DEF f, d, p
<1> QED
  BY <1>1, <1>8, <1>10 DEF p, d, t, v

\* The padding of what a hasher holds is the end of the padded message.
LEMMA PaddedHashes ==
  ASSUME NEW h, NEW m, NEW q, Hashing(h, m, q), h.nDataBytes = Len(m)
  PROVE  Hashing(Padded(h), PaddedMessage(m), q)
<1> DEFINE t == h.data.sigBytes
           z == q * HashBlock
           n == Len(m)
           u == PaddedTo(n)
           v == PaddedTo(t)
           w == PaddedMessage(m)
           p == Padded(h)
<1>1. /\ t \in Nat /\ q \in Nat /\ Sequence(m) /\ WordArray(h.data)
      /\ z + t = n /\ h.hash = MessageBlocks(m, q) /\ DOMAIN h = {"data", "nDataBytes", "hash"}
      /\ \A i \in Nat \ {0} : ByteAt(h.data, i) = IF i <= t THEN m[z + i] ELSE Zero
  BY DEF Hashing, Holds, WordArray, IsWordArray
<1>2. z \in Nat /\ v \in Nat /\ t + 1 + LengthBytes <= v /\ z + v = u /\ LengthBytes \in Nat
      /\ 0 < LengthBytes
  <2>1. z \in Nat /\ PaddedTo(z + t) = z + v
    <3> HIDE DEF t
    <3> QED
      BY <1>1, PaddedShift
  <2>2. v \in Nat /\ t + 1 + LengthBytes <= v
    <3> HIDE DEF t
    <3> QED
      BY <1>1, PaddedToIs DEF Fits
  <2>3. LengthBytes \in Nat /\ 0 < LengthBytes
    BY HashBlockIs DEF LengthBytes
  <2> QED
    BY <1>1, <2>1, <2>2, <2>3
<1>3. n \in Nat
  BY <1>1, SequenceIs
<1>4. /\ Sequence(w) /\ Len(w) = u
      /\ \A i \in 1 .. u : w[i] = CASE i <= n -> m[i]
                                    [] i = n + 1 -> {<<"0x80">>}
                                    [] i = u -> {<<"length", n>>}
                                    [] OTHER -> Zero
  BY <1>1, PaddedMessageIs
<1>5. /\ p.hash = h.hash /\ DOMAIN p = {"data", "nDataBytes", "hash"}
      /\ WordArray(p.data) /\ p.data.sigBytes = v
      /\ \A i \in Nat \ {0} :
            ByteAt(p.data, i) = CASE i <= t -> ByteAt(h.data, i)
                                  [] i = t + 1 -> {<<"0x80">>}
                                  [] i = v -> {<<"length", n>>}
                                  [] OTHER -> Zero
  <2>1. \A i \in Nat \ {0} : i > t => ByteAt(h.data, i) = Zero
    BY <1>1
  <2> QED
    BY <1>1, <2>1, PaddedIs
<1> HIDE DEF t, z, n, u, v, w, p
<1>6. ASSUME NEW i \in Nat \ {0}
      PROVE  ByteAt(p.data, i) = IF i <= v THEN w[z + i] ELSE Zero
  <2>1. CASE i <= t
    <3>1. /\ i <= v /\ z + i \in 1 .. u /\ z + i <= n /\ z + i # n + 1 /\ z + i # u
          /\ i # t + 1 /\ i # v
      BY <1>1, <1>2, <1>3, <2>1
    <3>2. w[z + i] = m[z + i]
      BY <1>4, <3>1
    <3>3. ByteAt(p.data, i) = m[z + i]
      <4>1. ByteAt(p.data, i) = ByteAt(h.data, i)
        BY <1>5, <2>1, <3>1
      <4> QED
        BY <1>1, <2>1, <4>1
    <3> QED
      BY <3>1, <3>2, <3>3
  <2>2. CASE i = t + 1
    <3>1. /\ i <= v /\ z + i \in 1 .. u /\ ~(z + i <= n) /\ z + i = n + 1 /\ ~(i <= t)
          /\ z + i # u /\ i # v
      BY <1>1, <1>2, <1>3, <2>2
    <3>2. w[z + i] = {<<"0x80">>}
      BY <1>4, <3>1
    <3>3. ByteAt(p.data, i) = {<<"0x80">>}
      BY <1>5, <2>2, <3>1
    <3> QED
      BY <3>1, <3>2, <3>3
  <2>3. CASE i = v
    <3>1. i <= v /\ z + i \in 1 .. u /\ ~(z + i <= n) /\ z + i # n + 1 /\ z + i = u /\ ~(i <= t) /\ i # t + 1
      BY <1>1, <1>2, <1>3, <2>3
    <3>2. w[z + i] = {<<"length", n>>}
      BY <1>4, <3>1
    <3>3. ByteAt(p.data, i) = {<<"length", n>>}
      BY <1>5, <2>3, <3>1
    <3> QED
      BY <3>1, <3>2, <3>3
  <2>4. CASE ~(i <= t) /\ i # t + 1 /\ i # v
    <3>1. ByteAt(p.data, i) = Zero
      BY <1>5, <2>4
    <3>2. CASE i <= v
      <4>1. z + i \in 1 .. u /\ ~(z + i <= n) /\ z + i # n + 1 /\ z + i # u
        BY <1>1, <1>2, <1>3, <2>4, <3>2
      <4>2. w[z + i] = Zero
        BY <1>4, <4>1
      <4> QED
        BY <3>1, <3>2, <4>2
    <3> QED
      BY <3>1, <3>2
  <2> QED
    BY <2>1, <2>2, <2>3, <2>4
<1>7. Holds(p.data, w, q * HashBlock)
  <2>1. Holds(p.data, w, z)
    BY <1>2, <1>4, <1>5, <1>6 DEF Holds
  <2> QED
    BY <2>1 DEF z
<1>8. MessageBlocks(m, q) = MessageBlocks(w, q)
  <2>1. q * HashBlock <= Len(m)
    BY <1>1, <1>2, <1>3 DEF z, n
  <2>2. \A i \in 1 .. Len(m) : m[i] = w[i]
    <3> SUFFICES ASSUME NEW i \in 1 .. n PROVE m[i] = w[i]
      BY DEF n
    <3>1. i \in 1 .. u /\ i <= n /\ i # n + 1 /\ i # u
      BY <1>1, <1>2, <1>3
    <3> QED
      BY <1>4, <3>1
  <2> QED
    BY <1>1, <1>3, <2>1, <2>2, MessageBlocksOf DEF n
<1> QED
  BY <1>1, <1>4, <1>5, <1>7, <1>8 DEF Hashing, p, w

\* finalize: the digest by definition, when the piece has no byte past its count.
LEMMA FinalizeHashes ==
  ASSUME NEW h, NEW m, NEW q, NEW p, Hashing(h, m, q), WordArray(p), Trim(p)
  PROVE  h.nDataBytes = Len(m) =>
            Compressed(Padded(Appended(h, p))).hash = ReferenceDigest(m \o Bytes(p))
<1>0. /\ Appended(h, p).nDataBytes = h.nDataBytes + p.sigBytes
      /\ Hashing(Appended(h, p), m \o Bytes(p), q)
  BY AppendedHashes
<1> SUFFICES ASSUME h.nDataBytes = Len(m)
             PROVE  Compressed(Padded(Appended(h, p))).hash = ReferenceDigest(m \o Bytes(p))
  OBVIOUS
<1> DEFINE a == Appended(h, p)
           e == m \o Bytes(p)
           w == PaddedMessage(e)
           s == Padded(a)
           k == s.data.sigBytes \div HashBlock
           u == PaddedTo(Len(e))
<1>1. Hashing(a, e, q) /\ a.nDataBytes = Len(e)
  <2>1. Sequence(Bytes(p)) /\ Len(Bytes(p)) = p.sigBytes
    BY BytesIs
  <2>2. Len(e) = Len(m) + p.sigBytes
    BY <2>1, SequenceConcat DEF Hashing
  <2>3. Hashing(a, e, q) /\ a.nDataBytes = h.nDataBytes + p.sigBytes
    BY <1>0
  <2> QED
    BY <2>2, <2>3
<1> HIDE DEF a
<1>2. Hashing(s, w, q)
  BY <1>1, PaddedHashes
<1>3. Hashing(Compressed(s), w, q + k)
  BY <1>2, CompressedHashes
<1>4. /\ Len(w) = u /\ Sequence(e) /\ ReferenceDigest(e) = MessageBlocks(w, u \div HashBlock)
  BY <1>1, PaddedMessageIs DEF Hashing
<1>5. q + k = u \div HashBlock
  <2> DEFINE t == s.data.sigBytes
  <2>1. q * HashBlock + t = u /\ q \in Nat /\ t \in Nat
    BY <1>2, <1>4 DEF Hashing, Holds, WordArray, IsWordArray
  <2>2. u \div HashBlock \in Nat /\ u = (u \div HashBlock) * HashBlock
    <3>1. Len(e) \in Nat
      BY <1>4, SequenceIs
    <3>2. u \div HashBlock = ((Len(e) + LengthBytes) \div HashBlock) + 1
          /\ u = (((Len(e) + LengthBytes) \div HashBlock) + 1) * HashBlock
          /\ (Len(e) + LengthBytes) \div HashBlock \in Nat
      BY <3>1, PaddedToIs
    <3> QED
      BY <3>2
  <2> DEFINE j == u \div HashBlock
             r == t % HashBlock
  <2>3. HashBlock \in Nat \ {0} /\ k \in Nat /\ r \in Nat /\ r < HashBlock
        /\ t = (k * HashBlock) + r
    BY <2>1, HashBlockIs, Division
  <2>4. j \in Nat /\ u = j * HashBlock
    BY <2>2
  <2> HIDE DEF j, k, r, t, u
  <2>5. u \in Nat /\ u = ((q + k) * HashBlock) + r /\ q + k \in Nat
    <3>1. (q + k) * HashBlock = q * HashBlock + k * HashBlock
      BY <2>1, <2>3
    <3>2. j * HashBlock \in Nat /\ q * HashBlock \in Nat /\ k * HashBlock \in Nat
      BY <2>1, <2>3, <2>4
    <3> QED
      BY <2>1, <2>3, <2>4, <3>1, <3>2
  <2>6. u \div HashBlock = q + k
    BY <2>3, <2>5, QuotientUnique
  <2> QED
    BY <2>6
<1> QED
  BY <1>3, <1>4, <1>5 DEF Hashing, a

-----------------------------------------------------------------------------
\* The cipher: blocks, _process, what comes out of a run over them.

\* The sizes of the ciphers.
LEMMA CipherBlockIs ==
  /\ CipherBlock \in Nat \ {0} /\ CipherBlock % WordBytes = 0 /\ WordBytes \in Nat \ {0}
  /\ CounterWraps \in Nat \ {0}
<1>1. WordBytes \in Nat \ {0} /\ CipherBlockWords \in Nat \ {0} /\ CounterWraps \in Nat \ {0}
  BY WordArraysAssumption, CipherStreamAssumption DEF WordArraysAssumption, CipherStreamAssumption
<1>2. CipherBlock = CipherBlockWords * WordBytes
  BY DEF CipherBlock
<1>3. CipherBlock \in Nat /\ CipherBlock # 0
  BY <1>1, <1>2
<1>4. CipherBlock % WordBytes = 0
  BY <1>1, <1>2, <1>3, MultipleIs
<1> QED
  BY <1>1, <1>3, <1>4

\* Where block j begins, and block q + j.
LEMMA BlockOffset ==
  ASSUME NEW j \in Nat \ {0}, NEW q \in Nat, NEW size \in Nat
  PROVE  /\ (j - 1) * size \in Nat /\ q * size \in Nat /\ j * size \in Nat
         /\ (j - 1) * size + size = j * size
         /\ ((q + j) - 1) * size = q * size + (j - 1) * size
         /\ q + j \in Nat \ {0} /\ (q + j) * size = q * size + j * size
<1>1. j - 1 \in Nat /\ j = (j - 1) + 1 /\ (q + j) - 1 = q + (j - 1)
  OBVIOUS
<1> DEFINE k == j - 1
<1>2. k \in Nat /\ j = k + 1 /\ (q + j) - 1 = q + k
  BY <1>1
<1> HIDE DEF k
<1>3. /\ k * size \in Nat /\ q * size \in Nat /\ j * size \in Nat /\ (k + 1) * size = k * size + size
      /\ (q + k) * size = q * size + k * size /\ (q + j) * size = q * size + j * size
  BY <1>2
<1>4. q + j \in Nat \ {0}
  OBVIOUS
<1> QED
  BY <1>2, <1>3, <1>4 DEF k

\* A symbol xored twice is as it was.
LEMMA XorTwice ==
  ASSUME NEW b, NEW c, NEW i \in 1 .. CipherBlock
  PROVE  /\ XorBlock(b, c)[i] = SymDiff(b[i], c[i])
         /\ SymDiff(SymDiff(b[i], c[i]), c[i]) = b[i]
         /\ XorBlock(XorBlock(b, c), c)[i] = b[i]
<1>1. XorBlock(b, c)[i] = SymDiff(b[i], c[i])
  BY DEF XorBlock
<1>2. SymDiff(SymDiff(b[i], c[i]), c[i]) = b[i]
  BY DEF SymDiff
<1>3. XorBlock(XorBlock(b, c), c)[i] = SymDiff(XorBlock(b, c)[i], c[i])
  BY DEF XorBlock
<1> QED
  BY <1>1, <1>2, <1>3

\* A block decrypts to what was encrypted.
LEMMA DecryptsBack ==
  ASSUME NEW key, NEW p
  PROVE  decryptBlock(key, encryptBlock(key, p)) = p
<1> DEFINE b == encryptBlock(key, p)
           symbols == {t \in UNION {b[i] : i \in DOMAIN b} : t[1] = "E" /\ t[2] = key}
           made == {s[3] : s \in symbols}
<1>1. 1 \in 1 .. CipherBlock
  BY CipherBlockIs
<1>2. \A d : encryptBlock(key, d) = b => d = p
  <2> SUFFICES ASSUME NEW d, encryptBlock(key, d) = b PROVE d = p
    OBVIOUS
  <2>1. encryptBlock(key, d)[1] = {<<"E", key, d, 1>>} /\ b[1] = {<<"E", key, p, 1>>}
    BY <1>1 DEF encryptBlock
  <2>2. <<"E", key, d, 1>> = <<"E", key, p, 1>>
    BY <2>1
  <2> QED
    BY <2>2
<1>3. p \in made
  <2> DEFINE s == <<"E", key, p, 1>>
  <2>1. s \in b[1] /\ 1 \in DOMAIN b
    BY <1>1 DEF encryptBlock
  <2>2. s[1] = "E" /\ s[2] = key /\ s[3] = p
    OBVIOUS
  <2> HIDE DEF s, b
  <2>3. s \in symbols
    BY <2>1, <2>2
  <2> HIDE DEF symbols
  <2> QED
    BY <2>2, <2>3
<1>4. decryptBlock(key, b) = IF \E d \in made : encryptBlock(key, d) = b
                             THEN CHOOSE d \in made : encryptBlock(key, d) = b
                             ELSE [i \in 1 .. CipherBlock |-> {<<"D", key, b, i>>}]
  BY DEF decryptBlock
<1> HIDE DEF made
<1>5. \E d \in made : encryptBlock(key, d) = b
  BY <1>3
<1> HIDE DEF b
<1>6. (CHOOSE d \in made : encryptBlock(key, d) = b) = p
  BY <1>2, <1>5
<1> QED
  BY <1>4, <1>5, <1>6 DEF b

\* A longer message has the same whole blocks.
LEMMA TextBlockOf ==
  ASSUME NEW m, NEW n, Len(m) \in Nat, Len(n) \in Nat, Len(m) <= Len(n),
         \A i \in 1 .. Len(m) : m[i] = n[i], NEW j \in Nat \ {0}, j * CipherBlock <= Len(m)
  PROVE  TextBlock(m, j) = TextBlock(n, j)
<1> DEFINE z == (j - 1) * CipherBlock
<1>1. CipherBlock \in Nat
  BY CipherBlockIs
<1>2. z \in Nat /\ z + CipherBlock <= Len(m)
  BY <1>1, BlockOffset
<1> HIDE DEF z
<1>3. \A i \in 1 .. CipherBlock : z + i \in 1 .. Len(m) /\ z + i <= Len(n)
  BY <1>1, <1>2
<1>4. \A i \in 1 .. CipherBlock : (IF z + i <= Len(m) THEN m[z + i] ELSE Zero)
                                  = (IF z + i <= Len(n) THEN n[z + i] ELSE Zero)
  BY <1>3
<1> QED
  BY <1>4 DEF TextBlock, z

\* The blocks of a buffer are those of the message it holds.
LEMMA BlockOfHolds ==
  ASSUME NEW data, NEW m, NEW q \in Nat, Holds(data, m, q * CipherBlock), NEW j \in Nat \ {0}
  PROVE  Block(data, CipherBlock, j) = TextBlock(m, q + j)
<1> DEFINE z == (j - 1) * CipherBlock
           x == q * CipherBlock
           t == data.sigBytes
<1>1. CipherBlock \in Nat
  BY CipherBlockIs
<1>2. z \in Nat /\ x \in Nat /\ ((q + j) - 1) * CipherBlock = x + z
  BY <1>1, BlockOffset
<1>3. /\ t \in Nat /\ x + t = Len(m)
      /\ \A i \in Nat \ {0} : ByteAt(data, i) = IF i <= t THEN m[x + i] ELSE Zero
  BY DEF Holds, WordArray, IsWordArray
<1> HIDE DEF z, x, t
<1>4. ASSUME NEW i \in 1 .. CipherBlock
      PROVE  ByteAt(data, z + i) = IF (x + z) + i <= Len(m) THEN m[(x + z) + i] ELSE Zero
  <2>1. z + i \in Nat \ {0} /\ x + (z + i) = (x + z) + i /\ (z + i <= t <=> (x + z) + i <= Len(m))
    BY <1>1, <1>2, <1>3
  <2> QED
    BY <1>3, <2>1
<1>5. Block(data, CipherBlock, j) = [i \in 1 .. CipherBlock |-> ByteAt(data, z + i)]
  BY DEF Block, z
<1>6. TextBlock(m, q + j) = [i \in 1 .. CipherBlock |-> IF (x + z) + i <= Len(m)
                                                        THEN m[(x + z) + i] ELSE Zero]
  BY <1>2 DEF TextBlock
<1> QED
  BY <1>4, <1>5, <1>6

\* Every byte has a place in a block, and one only.
LEMMA BlockPlace ==
  ASSUME NEW i \in Nat \ {0}, NEW size \in Nat \ {0}
  PROVE  LET j == ((i - 1) \div size) + 1
             k == ((i - 1) % size) + 1
         IN  j \in Nat \ {0} /\ k \in 1 .. size /\ i = (j - 1) * size + k
<1> DEFINE q == (i - 1) \div size
           r == (i - 1) % size
<1>1. i - 1 \in Nat
  OBVIOUS
<1>2. q \in Nat /\ r \in Nat /\ r < size /\ i - 1 = (q * size) + r
  BY <1>1, Division
<1> HIDE DEF q, r
<1>3. /\ q + 1 \in Nat \ {0} /\ r + 1 \in 1 .. size /\ (q + 1) - 1 = q
      /\ q * size \in Nat
  BY <1>2
<1> DEFINE z == q * size
<1>4. z \in Nat /\ i - 1 = z + r
  BY <1>2, <1>3
<1> HIDE DEF z
<1>5. i = z + (r + 1)
  BY <1>2, <1>4
<1> QED
  BY <1>3, <1>5 DEF q, r, z

\* ... and the place is the one the quotient and the remainder give.
LEMMA PlaceOf ==
  ASSUME NEW size \in Nat \ {0}, NEW j \in Nat \ {0}, NEW k \in 1 .. size
  PROVE  /\ (j - 1) * size + k \in Nat \ {0}
         /\ ((((j - 1) * size + k) - 1) \div size) + 1 = j
         /\ ((((j - 1) * size + k) - 1) % size) + 1 = k
<1> DEFINE i == ((j - 1) * size + k) - 1
           l == j - 1
           r == k - 1
<1>1. l \in Nat /\ r \in Nat /\ r < size /\ j = l + 1 /\ k = r + 1
  OBVIOUS
<1> HIDE DEF l, r
<1>2. l * size \in Nat
  BY <1>1
<1> DEFINE z == l * size
<1>3. (j - 1) * size = z /\ z \in Nat
  BY <1>1, <1>2 DEF l
<1> HIDE DEF z
<1>4. i = z + r /\ i \in Nat /\ (j - 1) * size + k \in Nat \ {0}
  BY <1>1, <1>3
<1> HIDE DEF i
<1>5. i = (l * size) + r
  BY <1>4 DEF z
<1>6. i \div size = l /\ i % size = r
  BY <1>1, <1>4, <1>5, QuotientUnique
<1> QED
  BY <1>1, <1>4, <1>6 DEF i

\* The blocks that come out, as a word array.
LEMMA ProcessedIs ==
  ASSUME NEW data, WordArray(data), NEW size \in Nat \ {0}, size % WordBytes = 0,
         NEW n \in Nat, NEW out, Sequence(out), Len(out) = n
  PROVE  LET p == Processed(data, size, out)
         IN  /\ WordArray(p)
             /\ p.sigBytes = IF n * size <= data.sigBytes THEN n * size ELSE data.sigBytes
             /\ Len(p.words) = n * size
             /\ \A j \in 1 .. n : \A k \in 1 .. size :
                   /\ (j - 1) * size + k \in 1 .. n * size
                   /\ ByteAt(p, (j - 1) * size + k) = out[j][k]
<1> DEFINE f(i) == out[((i - 1) \div size) + 1][((i - 1) % size) + 1]
           l == n * size
           w == [i \in 1 .. l |-> f(i)]
           s == IF l <= data.sigBytes THEN l ELSE data.sigBytes
           p == Processed(data, size, out)
<1>1. data.sigBytes \in Nat /\ l \in Nat /\ l % WordBytes = 0
  <2>1. WordBytes \in Nat \ {0}
    BY CipherBlockIs
  <2>2. l \in Nat /\ l % WordBytes = 0
    BY <2>1, MultipleTimes
  <2> QED
    BY <2>2 DEF WordArray, IsWordArray
<1>2. Min({l, data.sigBytes}) = s
  <2> HIDE DEF l
  <2> QED
    BY <1>1, MinOf
<1>3. p.words = w /\ p.sigBytes = s /\ DOMAIN p = {"words", "sigBytes"}
  BY <1>2 DEF Processed
<1>4. w = [i \in 1 .. l |-> w[i]] /\ \A i \in 1 .. l : w[i] = f(i)
  OBVIOUS
<1> HIDE DEF w, l, f, p
<1>5. Sequence(w) /\ Len(w) = l
  BY <1>1, <1>4, SequenceOver
<1>6. WordArray(p)
  BY <1>1, <1>3, <1>5 DEF WordArray, IsWordArray
<1>7. ASSUME NEW j \in 1 .. n, NEW k \in 1 .. size
      PROVE  (j - 1) * size + k \in 1 .. l /\ ByteAt(p, (j - 1) * size + k) = out[j][k]
  <2> DEFINE z == (j - 1) * size
             i == z + k
  <2>1. z \in Nat /\ z + size = j * size /\ j * size <= l
    <3>1. j \in Nat \ {0} /\ j <= n /\ j \in Nat
      OBVIOUS
    <3>2. z \in Nat /\ z + size = j * size
      BY <3>1, BlockOffset
    <3>3. j * size <= n * size
      BY <3>1, TimesMonotonic
    <3> QED
      BY <3>2, <3>3 DEF l
  <2>2. i \in Nat \ {0} /\ ((i - 1) \div size) + 1 = j /\ ((i - 1) % size) + 1 = k
    <3>1. j \in Nat \ {0}
      OBVIOUS
    <3> QED
      BY <3>1, PlaceOf
  <2> HIDE DEF z
  <2>3. i \in 1 .. l
    BY <1>1, <2>1
  <2> HIDE DEF i
  <2>4. w[i] = out[j][k]
    BY <1>4, <2>2, <2>3 DEF f
  <2>5. ByteAt(p, i) = w[i]
    BY <1>1, <1>3, <1>5, <2>3 DEF ByteAt
  <2> QED
    BY <2>3, <2>4, <2>5 DEF i, z
<1> QED
  BY <1>3, <1>5, <1>6, <1>7 DEF l, p

\* _process, at the end: all blocks, the last one whole or not; before the end:
\* whole ones but those kept back.
LEMMA ReadyAtEnd ==
  ASSUME NEW data, WordArray(data), NEW size \in Nat \ {0}, NEW kept
  PROVE  LET n == BlocksReady(data, size, TRUE, kept)
         IN  /\ n \in Nat /\ n * size \in Nat
             /\ data.sigBytes <= n * size /\ n * size < data.sigBytes + size
<1> DEFINE t == data.sigBytes
           m == t + size - 1
           q == m \div size
           r == m % size
<1>1. t \in Nat
  BY DEF WordArray, IsWordArray
<1>2. m \in Nat
  <2> HIDE DEF t
  <2> QED
    BY <1>1
<1> HIDE DEF t
<1>3. q \in Nat /\ r \in Nat /\ r < size /\ m = (q * size) + r
  <2> HIDE DEF m
  <2> QED
    BY <1>2, Division
<1> HIDE DEF q, r
<1>4. q * size \in Nat
  BY <1>3
<1> DEFINE z == q * size
<1>5. z \in Nat /\ m = z + r
  BY <1>3, <1>4
<1> HIDE DEF z
<1>6. t <= z /\ z < t + size
  BY <1>1, <1>3, <1>5
<1>7. BlocksReady(data, size, TRUE, kept) = q
  BY DEF BlocksReady, Ceil, q, m, t
<1> QED
  BY <1>3, <1>4, <1>6, <1>7 DEF z, t

\* Before the end.
LEMMA ReadyBefore ==
  ASSUME NEW data, WordArray(data), NEW size \in Nat \ {0}, NEW kept \in {0, 1}
  PROVE  LET n == BlocksReady(data, size, FALSE, kept)
         IN  /\ n \in Nat /\ n * size \in Nat /\ n * size <= data.sigBytes
             /\ data.sigBytes - n * size < size * (1 + kept)
             /\ n # 0 => data.sigBytes - n * size >= size * kept
<1> DEFINE t == data.sigBytes
           q == t \div size
           r == t % size
           n == BlocksReady(data, size, FALSE, kept)
           z == n * size
<1>1. t \in Nat
  BY DEF WordArray, IsWordArray
<1>2. n = Max({q - kept, 0})
  BY DEF BlocksReady
<1> HIDE DEF t
<1>3. q \in Nat /\ r \in Nat /\ r < size /\ t = (q * size) + r
  BY <1>1, Division
<1> HIDE DEF q, r, n
<1>4. q - kept \in Int
  BY <1>3
<1>5. n = IF q - kept >= 0 THEN q - kept ELSE 0
  BY <1>2, <1>4, MaxZero
<1>6. n \in Nat
  BY <1>3, <1>5
<1>7. z \in Nat /\ z <= t /\ t - z < size * (1 + kept) /\ (n # 0 => t - z >= size * kept)
  <2>1. CASE kept = 0
    <3>1. n = q
      BY <1>3, <1>5, <2>1
    <3>2. z \in Nat /\ t = z + r
      BY <1>3, <3>1
    <3> HIDE DEF z
    <3>3. size * (1 + kept) = size /\ size * kept = 0
      BY <2>1
    <3> QED
      BY <1>1, <1>3, <3>2, <3>3
  <2>2. CASE kept = 1 /\ q = 0
    <3>1. n = 0
      BY <1>5, <2>2
    <3>2. z = 0 /\ t = r
      BY <1>3, <2>2, <3>1
    <3> HIDE DEF z
    <3>3. size * (1 + kept) = size + size
      BY <2>2
    <3> QED
      BY <1>1, <1>3, <3>1, <3>2, <3>3
  <2>3. CASE kept = 1 /\ q # 0
    <3>1. q = n + 1
      BY <1>3, <1>5, <2>3
    <3>2. q * size = z + size /\ z \in Nat
      BY <1>6, <3>1
    <3> DEFINE y == q * size
    <3>3. y = z + size /\ z \in Nat /\ t = y + r
      BY <1>3, <3>2
    <3> HIDE DEF z, y
    <3>4. size * (1 + kept) = size + size /\ size * kept = size
      BY <2>3
    <3> QED
      BY <1>1, <1>3, <3>3, <3>4
  <2> QED
    BY <2>1, <2>2, <2>3
<1> QED
  BY <1>6, <1>7 DEF n, t

\* What a cipher object consists of.
CipherFields == {"mode", "xform", "key", "data", "minBufferSize", "prevBlock", "counter"}

\* A cipher, and one with the same buffer and settings.
Ciphering(c) ==
    /\ DOMAIN c = CipherFields
    /\ c.mode \in Modes /\ c.xform \in {"encrypt", "decrypt"}
    /\ c.minBufferSize = (IF c.xform = "decrypt" THEN 1 ELSE 0)
    /\ c.counter \in 0 .. CounterWraps - 1
    /\ WordArray(c.data)

SameSettings(d, c) ==
    /\ DOMAIN d = CipherFields
    /\ d.mode = c.mode /\ d.xform = c.xform /\ d.key = c.key
    /\ d.minBufferSize = c.minBufferSize

\* What block b gives behind prev, and where the mode is after k blocks that gave out.
Given(c, prev, counter, b) ==
    IF c.mode = "CTR" THEN XorBlock(b, Keystream(c.key, counter))
    ELSE IF c.xform = "encrypt" THEN encryptBlock(c.key, XorBlock(b, prev))
    ELSE XorBlock(decryptBlock(c.key, b), prev)

PrevAfter(c, out, k) ==
    IF c.mode = "CTR" \/ k = 0 THEN c.prevBlock
    ELSE IF c.xform = "encrypt" THEN out[k]
    ELSE Block(c.data, CipherBlock, k)

CounterAfter(c, k) == IF c.mode = "CTR" THEN (c.counter + k) % CounterWraps ELSE c.counter

\* A step of a run over blocks, and the run.
RunStep(c, s, k) ==
    LET step == processBlock(s.c, Block(c.data, CipherBlock, k))
    IN  [c |-> step.c, out |-> Append(s.out, step.out)]

RunFrom(c, f, m) == f = [k \in 0 .. m |-> IF k = 0 THEN [c |-> c, out |-> <<>>]
                                          ELSE RunStep(c, f[k - 1], k)]

\* The run over the blocks is there, so that its definition says what it is.
LEMMA RunningDef ==
  ASSUME NEW c, NEW n \in Nat
  PROVE  RunFrom(c, Running(c, n), n)
<1> DEFINE A == {m \in 0 .. n : \E f : RunFrom(c, f, m)}
<1>1. 0 \in A
  <2> DEFINE f == [k \in 0 .. 0 |-> [c |-> c, out |-> <<>>]]
  <2>1. RunFrom(c, f, 0)
    <3>1. \A k \in 0 .. 0 : f[k] = IF k = 0 THEN [c |-> c, out |-> <<>>] ELSE RunStep(c, f[k - 1], k)
      OBVIOUS
    <3>2. f = [k \in 0 .. 0 |-> f[k]]
      OBVIOUS
    <3> HIDE DEF f
    <3> QED
      BY <3>1, <3>2 DEF RunFrom
  <2> HIDE DEF f
  <2> QED
    BY <2>1
<1>2. ASSUME NEW m \in 0 .. n - 1, m \in A
      PROVE  m + 1 \in A
  <2>1. PICK f : RunFrom(c, f, m)
    BY <1>2
  <2> DEFINE g == [k \in 0 .. m + 1 |-> IF k <= m THEN f[k] ELSE RunStep(c, f[m], m + 1)]
  <2>2. \A k \in 0 .. m : f[k] = IF k = 0 THEN [c |-> c, out |-> <<>>] ELSE RunStep(c, f[k - 1], k)
    BY <2>1 DEF RunFrom
  <2>3. /\ g = [k \in 0 .. m + 1 |-> g[k]]
        /\ \A k \in 0 .. m : g[k] = f[k]
        /\ g[m + 1] = RunStep(c, f[m], m + 1)
    OBVIOUS
  <2> HIDE DEF g
  <2>4. ASSUME NEW k \in 0 .. m + 1
        PROVE  g[k] = IF k = 0 THEN [c |-> c, out |-> <<>>] ELSE RunStep(c, g[k - 1], k)
    <3>1. CASE k = 0
      <4>1. 0 \in 0 .. m
        OBVIOUS
      <4> QED
        BY <2>2, <2>3, <3>1, <4>1
    <3>2. CASE k \in 1 .. m
      <4>1. k - 1 \in 0 .. m /\ k \in 0 .. m /\ k # 0
        BY <3>2
      <4> QED
        BY <2>2, <2>3, <4>1
    <3>3. CASE k = m + 1
      <4>1. k - 1 = m /\ m \in 0 .. m /\ k # 0
        BY <3>3
      <4> QED
        BY <2>3, <3>3, <4>1
    <3> QED
      BY <3>1, <3>2, <3>3
  <2>5. RunFrom(c, g, m + 1)
    BY <2>3, <2>4 DEF RunFrom
  <2> QED
    BY <2>5
<1> HIDE DEF A
<1>3. n \in A
  BY <1>1, <1>2, UpTo
<1>4. \E f : RunFrom(c, f, n)
  BY <1>3 DEF A
<1>5. Running(c, n) = CHOOSE f : RunFrom(c, f, n)
  BY DEF Running, RunFrom, RunStep
<1> QED
  BY <1>4, <1>5

\* What k blocks of a run leave.
Ran(c, k, s) ==
    /\ Sequence(s.out) /\ Len(s.out) = k
    /\ SameSettings(s.c, c)
    /\ s.c.prevBlock = PrevAfter(c, s.out, k) /\ s.c.counter = CounterAfter(c, k)
    /\ \A j \in 1 .. k : s.out[j] = Given(c, PrevAfter(c, s.out, j - 1), CounterAfter(c, j - 1),
                                          Block(c.data, CipherBlock, j))

\* A sequence with one element more.
LEMMA AppendIs ==
  ASSUME NEW s, NEW e, Sequence(s)
  PROVE  /\ Sequence(Append(s, e)) /\ Len(Append(s, e)) = Len(s) + 1 /\ Len(s) \in Nat
         /\ Append(s, e)[Len(s) + 1] = e
         /\ \A i \in 1 .. Len(s) : Append(s, e)[i] = s[i]
<1>1. PICK S : s \in Seq(S)
  BY DEF Sequence
<1>2. s \in Seq(S \cup {e}) /\ e \in S \cup {e}
  BY <1>1
<1>3. Append(s, e) \in Seq(S \cup {e})
  BY <1>2
<1>4. Sequence(Append(s, e))
  BY <1>3 DEF Sequence
<1> QED
  BY <1>1, <1>4

\* What a block does to a cipher.
LEMMA ProcessBlockIs ==
  ASSUME NEW c, NEW b, DOMAIN c = CipherFields, c.mode \in Modes,
         c.xform \in {"encrypt", "decrypt"}
  PROVE  LET step == processBlock(c, b)
         IN  /\ SameSettings(step.c, c) /\ step.out = Given(c, c.prevBlock, c.counter, b)
             /\ step.c.counter = IF c.mode = "CTR" THEN (c.counter + 1) % CounterWraps ELSE c.counter
             /\ step.c.prevBlock = IF c.mode = "CTR" THEN c.prevBlock
                                   ELSE IF c.xform = "encrypt" THEN step.out ELSE b
<1> DEFINE step == processBlock(c, b)
<1>1. CASE c.mode = "CTR"
  <2>1. step = [c |-> [c EXCEPT !.counter = (@ + 1) % CounterWraps],
                out |-> XorBlock(b, Keystream(c.key, c.counter))]
    BY <1>1 DEF processBlock
  <2> HIDE DEF step
  <2> QED
    BY <1>1, <2>1 DEF SameSettings, CipherFields, Given, step
<1>2. CASE c.mode = "CBC" /\ c.xform = "encrypt"
  <2> DEFINE o == encryptBlock(c.key, XorBlock(b, c.prevBlock))
  <2>1. step = [c |-> [c EXCEPT !.prevBlock = o], out |-> o]
    BY <1>2 DEF processBlock
  <2>2. o = Given(c, c.prevBlock, c.counter, b)
    BY <1>2 DEF Given
  <2> HIDE DEF step, o
  <2> QED
    BY <1>2, <2>1, <2>2 DEF SameSettings, CipherFields, step
<1>3. CASE c.mode = "CBC" /\ c.xform = "decrypt"
  <2> DEFINE o == XorBlock(decryptBlock(c.key, b), c.prevBlock)
  <2>1. step = [c |-> [c EXCEPT !.prevBlock = b], out |-> o]
    BY <1>3 DEF processBlock
  <2>2. o = Given(c, c.prevBlock, c.counter, b)
    BY <1>3 DEF Given
  <2> HIDE DEF step, o
  <2> QED
    BY <1>3, <2>1, <2>2 DEF SameSettings, CipherFields, step
<1> QED
  BY <1>1, <1>2, <1>3 DEF Modes

\* The counter wraps whether it is added to at once or one by one.
LEMMA RemainderPlus ==
  ASSUME NEW a \in Nat, NEW b \in Nat, NEW d \in Nat \ {0}
  PROVE  ((a % d) + b) % d = (a + b) % d
<1> DEFINE q == a \div d
           s == a % d
           x == s + b
           p == x \div d
           r == x % d
<1>1. q \in Nat /\ s \in Nat /\ a = (q * d) + s
  BY Division
<1> HIDE DEF q, s
<1>2. x \in Nat
  BY <1>1
<1> HIDE DEF x
<1>3. p \in Nat /\ r \in Nat /\ r < d /\ x = (p * d) + r
  BY <1>2, Division
<1> HIDE DEF p, r
<1>4. (q + p) * d = q * d + p * d /\ q * d \in Nat /\ p * d \in Nat
  BY <1>1, <1>3
<1>5. a + b = ((q + p) * d) + r
  <2> DEFINE u == q * d
             v == p * d
  <2>1. u \in Nat /\ v \in Nat /\ (q + p) * d = u + v /\ a = u + s /\ x = v + r
    BY <1>1, <1>3, <1>4
  <2> HIDE DEF u, v
  <2> QED
    BY <1>1, <1>3, <2>1 DEF x
<1>6. (a + b) % d = r
  <2> DEFINE y == a + b
  <2>1. y \in Nat /\ q + p \in Nat
    BY <1>1, <1>3
  <2>2. y = ((q + p) * d) + r
    BY <1>5
  <2> HIDE DEF y
  <2>3. y % d = r
    BY <1>3, <2>1, <2>2, QuotientUnique
  <2> QED
    BY <2>3 DEF y
<1> QED
  BY <1>6 DEF r, x, s

\* The run over n blocks.
LEMMA RunningIs ==
  ASSUME NEW c, Ciphering(c), NEW n \in Nat
  PROVE  Ran(c, n, Running(c, n)[n])
<1> DEFINE f == Running(c, n)
           S == {k \in 0 .. n : Ran(c, k, f[k])}
<1>1. \A k \in 0 .. n : f[k] = IF k = 0 THEN [c |-> c, out |-> <<>>] ELSE RunStep(c, f[k - 1], k)
  BY RunningDef DEF RunFrom
<1> HIDE DEF f
<1>2. 0 \in S
  <2>1. f[0] = [c |-> c, out |-> <<>>]
    BY <1>1
  <2>2. Sequence(<<>>) /\ Len(<<>>) = 0
    BY EmptyIs
  <2>3. SameSettings(c, c)
    BY DEF Ciphering, SameSettings
  <2>4. PrevAfter(c, <<>>, 0) = c.prevBlock
    BY DEF PrevAfter
  <2>5. CounterAfter(c, 0) = c.counter
    <3>1. c.counter \in Nat /\ c.counter < CounterWraps /\ CounterWraps \in Nat \ {0}
      BY CipherBlockIs DEF Ciphering
    <3>2. (c.counter + 0) % CounterWraps = c.counter
      BY <3>1
    <3> QED
      BY <3>2 DEF CounterAfter
  <2> QED
    BY <2>1, <2>2, <2>3, <2>4, <2>5 DEF Ran
<1>3. ASSUME NEW k \in 0 .. n - 1, k \in S
      PROVE  k + 1 \in S
  <2> DEFINE d == f[k].c
             out == f[k].out
             b == Block(c.data, CipherBlock, k + 1)
             step == processBlock(d, b)
             new == Append(out, step.out)
  <2>1. f[k + 1] = [c |-> step.c, out |-> new]
    <3>1. k + 1 \in 0 .. n /\ k + 1 # 0 /\ (k + 1) - 1 = k
      OBVIOUS
    <3> QED
      BY <1>1, <3>1 DEF RunStep
  <2>2. Ran(c, k, f[k])
    BY <1>3
  <2>3. /\ Sequence(out) /\ Len(out) = k /\ SameSettings(d, c)
        /\ d.prevBlock = PrevAfter(c, out, k) /\ d.counter = CounterAfter(c, k)
        /\ \A j \in 1 .. k : out[j] = Given(c, PrevAfter(c, out, j - 1), CounterAfter(c, j - 1),
                                            Block(c.data, CipherBlock, j))
    BY <2>2 DEF Ran
  <2> HIDE DEF d, out, b
  <2>4. /\ DOMAIN d = CipherFields /\ d.mode = c.mode /\ d.xform = c.xform /\ d.key = c.key
        /\ d.minBufferSize = c.minBufferSize /\ d.mode \in Modes /\ d.xform \in {"encrypt", "decrypt"}
    BY <2>3 DEF SameSettings, Ciphering
  <2>5. /\ SameSettings(step.c, d) /\ step.out = Given(d, d.prevBlock, d.counter, b)
        /\ step.c.counter = IF d.mode = "CTR" THEN (d.counter + 1) % CounterWraps ELSE d.counter
        /\ step.c.prevBlock = IF d.mode = "CTR" THEN d.prevBlock
                              ELSE IF d.xform = "encrypt" THEN step.out ELSE b
    BY <2>4, ProcessBlockIs
  <2> HIDE DEF step
  <2>6. /\ Sequence(new) /\ Len(new) = k + 1 /\ new[k + 1] = step.out
        /\ \A i \in 1 .. k : new[i] = out[i]
    BY <2>3, AppendIs
  <2> HIDE DEF new
  <2>7. SameSettings(step.c, c)
    BY <2>4, <2>5 DEF SameSettings
  <2>8. \A j \in 0 .. k : PrevAfter(c, new, j) = PrevAfter(c, out, j)
    BY <2>6 DEF PrevAfter
  <2>9. step.c.prevBlock = PrevAfter(c, new, k + 1)
    <3>1. PrevAfter(c, out, k) = c.prevBlock \/ c.mode # "CTR"
      BY DEF PrevAfter
    <3> QED
      BY <2>3, <2>4, <2>5, <2>6, <3>1 DEF PrevAfter, b
  <2>10. step.c.counter = CounterAfter(c, k + 1)
    <3>1. CASE c.mode = "CTR"
      <4>1. c.counter \in Nat /\ CounterWraps \in Nat \ {0} /\ k \in Nat
        BY CipherBlockIs DEF Ciphering
      <4>2. (((c.counter + k) % CounterWraps) + 1) % CounterWraps = (c.counter + (k + 1)) % CounterWraps
        <5>1. c.counter + k \in Nat /\ (c.counter + k) + 1 = c.counter + (k + 1)
          BY <4>1
        <5> DEFINE y == c.counter + k
        <5>2. y \in Nat /\ y + 1 = c.counter + (k + 1)
          BY <5>1
        <5> HIDE DEF y
        <5>3. ((y % CounterWraps) + 1) % CounterWraps = (y + 1) % CounterWraps
          BY <4>1, <5>2, RemainderPlus
        <5> QED
          BY <5>2, <5>3 DEF y
      <4> QED
        BY <2>3, <2>4, <2>5, <3>1, <4>2 DEF CounterAfter
    <3>2. CASE c.mode # "CTR"
      BY <2>3, <2>4, <2>5, <3>2 DEF CounterAfter
    <3> QED
      BY <3>1, <3>2
  <2>11. ASSUME NEW j \in 1 .. k + 1
         PROVE  new[j] = Given(c, PrevAfter(c, new, j - 1), CounterAfter(c, j - 1),
                               Block(c.data, CipherBlock, j))
    <3>1. CASE j \in 1 .. k
      <4>1. j - 1 \in 0 .. k
        BY <3>1
      <4> QED
        BY <2>3, <2>6, <2>8, <3>1, <4>1
    <3>2. CASE j = k + 1
      <4>1. j - 1 = k /\ k \in 0 .. k
        BY <3>2
      <4>2. Given(d, d.prevBlock, d.counter, b) = Given(c, d.prevBlock, d.counter, b)
        BY <2>4 DEF Given
      <4> QED
        BY <2>3, <2>5, <2>6, <2>8, <3>2, <4>1, <4>2 DEF b
    <3> QED
      BY <3>1, <3>2
  <2>12. Ran(c, k + 1, f[k + 1])
    <3>1. f[k + 1].c = step.c /\ f[k + 1].out = new
      BY <2>1
    <3> QED
      BY <2>6, <2>7, <2>9, <2>10, <2>11, <3>1 DEF Ran
  <2> QED
    BY <2>12
<1> HIDE DEF S
<1>4. n \in S
  BY <1>2, <1>3, UpTo
<1> QED
  BY <1>4 DEF S, f

\* _process: a run over the blocks that are ready.
LEMMA ProcessIs ==
  ASSUME NEW c, Ciphering(c), NEW doFlush \in BOOLEAN
  PROVE  LET n == BlocksReady(c.data, CipherBlock, doFlush, c.minBufferSize)
             s == Running(c, n)[n]
             done == process(c, doFlush)
         IN  /\ n \in Nat /\ Ran(c, n, s)
             /\ done.out = Processed(c.data, CipherBlock, s.out)
             /\ SameSettings(done.c, c) /\ done.c.data = Rest(c.data, CipherBlock, n)
             /\ done.c.prevBlock = PrevAfter(c, s.out, n) /\ done.c.counter = CounterAfter(c, n)
<1> DEFINE n == BlocksReady(c.data, CipherBlock, doFlush, c.minBufferSize)
           s == Running(c, n)[n]
           done == process(c, doFlush)
<1>1. n \in Nat
  <2>1. WordArray(c.data) /\ CipherBlock \in Nat \ {0} /\ c.minBufferSize \in {0, 1}
    BY CipherBlockIs DEF Ciphering
  <2>2. CASE doFlush = TRUE
    BY <2>1, <2>2, ReadyAtEnd
  <2>3. CASE doFlush = FALSE
    BY <2>1, <2>3, ReadyBefore
  <2> QED
    BY <2>2, <2>3
<1>2. /\ done.c = [s.c EXCEPT !.data = Rest(c.data, CipherBlock, n)]
      /\ done.out = Processed(c.data, CipherBlock, s.out)
  BY DEF process
<1> HIDE DEF n
<1>3. Ran(c, n, s)
  BY <1>1, RunningIs
<1> HIDE DEF s, done
<1>4. /\ SameSettings(done.c, c) /\ done.c.data = Rest(c.data, CipherBlock, n)
      /\ done.c.prevBlock = PrevAfter(c, s.out, n) /\ done.c.counter = CounterAfter(c, n)
  BY <1>2, <1>3 DEF Ran, SameSettings, CipherFields
<1> QED
  BY <1>1, <1>2, <1>3, <1>4 DEF n, s, done

\* Block j of what text m gives, T being what it gave so far, and that T is the
\* beginning of what m gives.
OutBlock(xform, mode, key, m, T, j) ==
    IF mode = "CTR" THEN XorBlock(TextBlock(m, j), Keystream(key, (j - 1) % CounterWraps))
    ELSE IF xform = "encrypt"
         THEN encryptBlock(key, XorBlock(TextBlock(m, j), IF j = 1 THEN IV ELSE TextBlock(T, j - 1)))
         ELSE XorBlock(decryptBlock(key, TextBlock(m, j)), IF j = 1 THEN IV ELSE TextBlock(m, j - 1))

Converted(xform, mode, key, m, T) ==
    /\ Sequence(T)
    /\ \A j \in Nat \ {0} : \A i \in 1 .. CipherBlock :
          (j - 1) * CipherBlock + i <= Len(T) =>
             T[(j - 1) * CipherBlock + i] = OutBlock(xform, mode, key, m, T, j)[i]

\* A cipher that gave T for the first q blocks of m and holds the rest, a block
\* of it kept back by a decryptor that gave any.
PrevBlock(c, m, T, q) ==
    IF c.mode = "CTR" \/ q = 0 THEN IV ELSE TextBlock(IF c.xform = "encrypt" THEN T ELSE m, q)

Converting(c, m, T, q) ==
    /\ Ciphering(c) /\ q \in Nat
    /\ Holds(c.data, m, q * CipherBlock)
    /\ q # 0 => c.data.sigBytes >= CipherBlock * c.minBufferSize
    /\ Converted(c.xform, c.mode, c.key, m, T) /\ Len(T) = q * CipherBlock
    /\ c.prevBlock = PrevBlock(c, m, T, q)
    /\ c.counter = (IF c.mode = "CTR" THEN q % CounterWraps ELSE 0)

\* The bytes of a processed buffer behind what came out so far.
Behind(T, q, data, n, out) ==
    LET p == Processed(data, CipherBlock, out)
        U == T \o Bytes(p)
    IN  /\ WordArray(p) /\ p.sigBytes <= n * CipherBlock
        /\ p.sigBytes = IF n * CipherBlock <= data.sigBytes THEN n * CipherBlock ELSE data.sigBytes
        /\ Sequence(U) /\ Len(U) = q * CipherBlock + p.sigBytes /\ Len(U) \in Nat
        /\ \A i \in 1 .. Len(T) : U[i] = T[i]
        /\ \A j \in 1 .. n : \A k \in 1 .. CipherBlock :
              ((q + j) - 1) * CipherBlock + k <= Len(U) =>
                 U[((q + j) - 1) * CipherBlock + k] = out[j][k]

\* The bytes that come out go on with the text so far.
LEMMA BehindText ==
  ASSUME NEW T, Sequence(T), NEW q \in Nat, Len(T) = q * CipherBlock,
         NEW data, WordArray(data), NEW n \in Nat, NEW out, Sequence(out), Len(out) = n
  PROVE  Behind(T, q, data, n, out)
<1> DEFINE p == Processed(data, CipherBlock, out)
           y == Bytes(p)
           U == T \o y
           x == q * CipherBlock
           l == p.sigBytes
<1>1. CipherBlock \in Nat \ {0} /\ CipherBlock % WordBytes = 0 /\ data.sigBytes \in Nat
      /\ n * CipherBlock \in Nat
  <2>1. CipherBlock \in Nat \ {0} /\ CipherBlock % WordBytes = 0
    BY CipherBlockIs
  <2>2. n * CipherBlock \in Nat
    BY <2>1
  <2> QED
    BY <2>1, <2>2 DEF WordArray, IsWordArray
<1>2. /\ WordArray(p)
      /\ p.sigBytes = IF n * CipherBlock <= data.sigBytes THEN n * CipherBlock ELSE data.sigBytes
      /\ \A j \in 1 .. n : \A k \in 1 .. CipherBlock :
            /\ (j - 1) * CipherBlock + k \in 1 .. n * CipherBlock
            /\ ByteAt(p, (j - 1) * CipherBlock + k) = out[j][k]
  <2> HIDE DEF U, y, x, l
  <2>1. /\ WordArray(Processed(data, CipherBlock, out))
        /\ Processed(data, CipherBlock, out).sigBytes
              = IF n * CipherBlock <= data.sigBytes THEN n * CipherBlock ELSE data.sigBytes
        /\ \A j \in 1 .. n : \A k \in 1 .. CipherBlock :
              /\ (j - 1) * CipherBlock + k \in 1 .. n * CipherBlock
              /\ ByteAt(Processed(data, CipherBlock, out), (j - 1) * CipherBlock + k) = out[j][k]
    <3> HIDE DEF p
    <3> QED
      BY <1>1, ProcessedIs
  <2> QED
    BY <2>1
<1> HIDE DEF p
<1>3. Sequence(y) /\ Len(y) = l /\ \A i \in 1 .. l : y[i] = ByteAt(p, i)
  BY <1>2, BytesIs
<1>4. l \in Nat
  BY <1>2 DEF WordArray, IsWordArray
<1> HIDE DEF y, l
<1>5. /\ Sequence(U) /\ Len(U) = Len(T) + l
      /\ U = [i \in 1 .. Len(T) + l |-> IF i <= Len(T) THEN T[i] ELSE y[i - Len(T)]]
  BY <1>3, SequenceConcat
<1>6. x \in Nat /\ Len(T) = x
  BY <1>1
<1> HIDE DEF U, x
<1>7. \A i \in 1 .. x + l : U[i] = IF i <= x THEN T[i] ELSE y[i - x]
  BY <1>5, <1>6
<1>8. ASSUME NEW j \in 1 .. n, NEW k \in 1 .. CipherBlock,
             ((q + j) - 1) * CipherBlock + k <= Len(U)
      PROVE  U[((q + j) - 1) * CipherBlock + k] = out[j][k]
  <2> DEFINE z == (j - 1) * CipherBlock
  <2>1. z \in Nat /\ ((q + j) - 1) * CipherBlock = x + z
    <3>1. j \in Nat \ {0} /\ CipherBlock \in Nat
      BY <1>1
    <3> QED
      BY <3>1, BlockOffset DEF x
  <2>2. ByteAt(p, z + k) = out[j][k]
    BY <1>2
  <2> HIDE DEF z
  <2>3. z + k \in 1 .. l /\ (x + z) + k \in 1 .. x + l /\ ~((x + z) + k <= x)
        /\ ((x + z) + k) - x = z + k
    BY <1>1, <1>4, <1>5, <1>6, <1>8, <2>1
  <2>4. U[(x + z) + k] = y[z + k]
    BY <1>7, <2>3
  <2> QED
    BY <1>3, <2>1, <2>2, <2>3, <2>4
<1>9. \A i \in 1 .. Len(T) : U[i] = T[i]
  BY <1>4, <1>6, <1>7
<1>10. Len(U) = x + l /\ Len(U) \in Nat /\ l <= n * CipherBlock
  <2>1. Len(U) = x + l /\ Len(U) \in Nat
    <3>1. Len(U) = Len(T) + l /\ Len(T) = x /\ x \in Nat
      BY <1>5, <1>6
    <3> QED
      BY <1>4, <3>1
  <2>2. l <= n * CipherBlock
    BY <1>1, <1>2 DEF l
  <2> QED
    BY <2>1, <2>2
<1> QED
  BY <1>2, <1>5, <1>8, <1>9, <1>10 DEF Behind, U, y, p, x, l

\* What comes out is a block of its own.
IsBlock(b) == b = [i \in 1 .. CipherBlock |-> b[i]]

\* A block that is given is one.
LEMMA BlockOut ==
  ASSUME NEW c, NEW prev, NEW counter, NEW b
  PROVE  IsBlock(IV) /\ IsBlock(TextBlock(b, counter)) /\ IsBlock(Given(c, prev, counter, b))
<1>1. IsBlock(IV)
  BY DEF IsBlock, IV
<1>2. \A x, y : IsBlock(encryptBlock(x, y))
  BY DEF IsBlock, encryptBlock
<1>3. \A x, y : IsBlock(XorBlock(x, y))
  BY DEF IsBlock, XorBlock
<1>4. IsBlock(TextBlock(b, counter))
  BY DEF IsBlock, TextBlock
<1>5. IsBlock(Given(c, prev, counter, b))
  <2>1. CASE c.mode = "CTR"
    BY <1>3, <2>1 DEF Given
  <2>2. CASE c.mode # "CTR" /\ c.xform = "encrypt"
    BY <1>2, <2>2 DEF Given
  <2>3. CASE c.mode # "CTR" /\ c.xform # "encrypt"
    BY <1>3, <2>3 DEF Given
  <2> QED
    BY <2>1, <2>2, <2>3
<1> QED
  BY <1>1, <1>4, <1>5

\* A block of a text by its bytes.
LEMMA TextBlockIs ==
  ASSUME NEW m, Len(m) \in Nat, NEW j \in Nat \ {0}, j * CipherBlock <= Len(m),
         NEW b, IsBlock(b),
         \A i \in 1 .. CipherBlock : m[(j - 1) * CipherBlock + i] = b[i]
  PROVE  TextBlock(m, j) = b
<1> DEFINE z == (j - 1) * CipherBlock
<1>1. CipherBlock \in Nat
  BY CipherBlockIs
<1>2. z \in Nat /\ z + CipherBlock <= Len(m)
  BY <1>1, BlockOffset
<1>3. \A i \in 1 .. CipherBlock : m[z + i] = b[i]
  OBVIOUS
<1>4. TextBlock(m, j) = [i \in 1 .. CipherBlock |-> IF z + i <= Len(m) THEN m[z + i] ELSE Zero]
  BY DEF TextBlock
<1> HIDE DEF z
<1>5. \A i \in 1 .. CipherBlock : z + i <= Len(m)
  BY <1>1, <1>2
<1>6. TextBlock(m, j) = [i \in 1 .. CipherBlock |-> b[i]]
  BY <1>3, <1>4, <1>5
<1> QED
  BY <1>6 DEF IsBlock

\* Which block a byte of the text so far is in.
LEMMA BlockOfByte ==
  ASSUME NEW q \in Nat, NEW n \in Nat, NEW j \in Nat \ {0}, NEW i \in 1 .. CipherBlock, NEW l \in Nat,
         l <= n * CipherBlock,
         (j - 1) * CipherBlock + i <= q * CipherBlock + l
  PROVE  \/ j <= q /\ (j - 1) * CipherBlock + i \in 1 .. q * CipherBlock
         \/ j - q \in 1 .. n
<1>1. CipherBlock \in Nat \ {0} /\ n * CipherBlock \in Nat
  <2>1. CipherBlock \in Nat \ {0}
    BY CipherBlockIs
  <2> QED
    BY <2>1
<1> DEFINE z == (j - 1) * CipherBlock
<1>2. z \in Nat /\ z + CipherBlock = j * CipherBlock
  BY <1>1, BlockOffset
<1>3. CASE j <= q
  <2>1. j * CipherBlock <= q * CipherBlock
    BY <1>1, <1>3, TimesMonotonic
  <2>2. q * CipherBlock \in Nat
    BY <1>1
  <2> DEFINE x == q * CipherBlock
             y == j * CipherBlock
  <2>3. y <= x /\ x \in Nat /\ z + CipherBlock = y
    BY <1>2, <2>1, <2>2
  <2> HIDE DEF x, y, z
  <2>4. z + i \in 1 .. x
    BY <1>1, <1>2, <2>3
  <2> QED
    BY <1>3, <2>4 DEF x, z
<1>4. CASE q < j /\ j <= q + n
  BY <1>4
<1>5. CASE q + n < j
  <2>1. q + n <= j - 1 /\ q + n \in Nat /\ j - 1 \in Nat
    BY <1>5
  <2>2. (q + n) * CipherBlock <= (j - 1) * CipherBlock
    BY <1>1, <2>1, TimesMonotonic
  <2>3. (q + n) * CipherBlock = q * CipherBlock + n * CipherBlock /\ q * CipherBlock \in Nat
    BY <1>1
  <2> DEFINE x == q * CipherBlock
             y == n * CipherBlock
  <2>4. x \in Nat /\ y \in Nat /\ x + y <= z /\ l <= y /\ z + i <= x + l
    BY <1>1, <2>2, <2>3
  <2> HIDE DEF x, y, z
  <2>5. FALSE
    BY <1>2, <2>4
  <2> QED
    BY <2>5
<1> QED
  BY <1>3, <1>4, <1>5

\* Only the last of n blocks is not whole.
Reaches(c, n) == n # 0 => (n - 1) * CipherBlock <= c.data.sigBytes

\* A run goes on with what came out so far.
LEMMA ConvertRun ==
  ASSUME NEW c, NEW m, NEW T, NEW q, Converting(c, m, T, q),
         NEW n \in Nat, NEW s, Ran(c, n, s),
         Reaches(c, n)
  PROVE  LET p == Processed(c.data, CipherBlock, s.out)
             U == T \o Bytes(p)
         IN  /\ WordArray(p) /\ Converted(c.xform, c.mode, c.key, m, U)
             /\ p.sigBytes = IF n * CipherBlock <= c.data.sigBytes THEN n * CipherBlock
                             ELSE c.data.sigBytes
             /\ Len(U) = q * CipherBlock + p.sigBytes /\ Len(U) \in Nat
             /\ \A i \in 1 .. Len(T) : U[i] = T[i]
             /\ n # 0 /\ n * CipherBlock <= c.data.sigBytes => TextBlock(U, q + n) = s.out[n]
<1> DEFINE p == Processed(c.data, CipherBlock, s.out)
           out == s.out
           U == T \o Bytes(p)
           x == q * CipherBlock
           l == p.sigBytes
           t == c.data.sigBytes
<1>1. /\ CipherBlock \in Nat \ {0} /\ q \in Nat /\ Sequence(T) /\ Len(T) = x
      /\ WordArray(c.data) /\ t \in Nat /\ Holds(c.data, m, x)
      /\ Sequence(out) /\ Len(out) = n
  BY CipherBlockIs DEF Converting, Ciphering, Converted, Ran, WordArray, IsWordArray
<1>2. /\ WordArray(p) /\ l <= n * CipherBlock
      /\ l = IF n * CipherBlock <= t THEN n * CipherBlock ELSE t
      /\ Sequence(U) /\ Len(U) = x + l /\ Len(U) \in Nat
      /\ \A i \in 1 .. Len(T) : U[i] = T[i]
      /\ \A j \in 1 .. n : \A k \in 1 .. CipherBlock :
            ((q + j) - 1) * CipherBlock + k <= Len(U) =>
               U[((q + j) - 1) * CipherBlock + k] = out[j][k]
  <2>1. WordArray(c.data) /\ Sequence(out) /\ Len(out) = n /\ Sequence(T) /\ Len(T) = q * CipherBlock
    BY <1>1
  <2> HIDE DEF out
  <2>2. q \in Nat
    BY <1>1
  <2> QED
    <3>1. Behind(T, q, c.data, n, out)
      <4> HIDE DEF p, U, x, l, t
      <4> QED
        BY <2>1, <2>2, BehindText
    <3> QED
      BY <3>1 DEF Behind, out
<1> HIDE DEF p, U, out, l, t
<1>3. \A j \in 1 .. n : out[j] = Given(c, PrevAfter(c, out, j - 1), CounterAfter(c, j - 1),
                                       Block(c.data, CipherBlock, j))
  BY DEF Ran, out
<1>4. \A j \in 1 .. n : IsBlock(out[j])
  BY <1>3, BlockOut
<1>5. x \in Nat /\ l \in Nat
  <2>1. x \in Nat
    BY <1>1
  <2>2. l \in Nat
    BY <1>2 DEF WordArray, IsWordArray, l
  <2> QED
    BY <2>1, <2>2
<1>6. ASSUME NEW j \in 1 .. n, j # n \/ n * CipherBlock <= t
      PROVE  TextBlock(U, q + j) = out[j]
  <2>1. j * CipherBlock <= l /\ j * CipherBlock \in Nat
    <3>1. CASE j = n
      BY <1>1, <1>2, <1>6, <3>1
    <3>2. CASE j # n
      <4>1. j \in Nat /\ n - 1 \in Nat /\ j <= n - 1 /\ n # 0
        BY <3>2
      <4>2. j * CipherBlock <= (n - 1) * CipherBlock /\ j * CipherBlock \in Nat
        BY <1>1, <4>1, TimesMonotonic
      <4>3. (n - 1) * CipherBlock <= t
        BY <4>1 DEF Reaches, t
      <4>4. j * CipherBlock <= n * CipherBlock
        BY <1>1, <4>1, TimesMonotonic
      <4> DEFINE u == j * CipherBlock
                 v == (n - 1) * CipherBlock
                 w == n * CipherBlock
      <4>5. u <= v /\ v <= t /\ u <= w /\ u \in Nat /\ v \in Nat /\ w \in Nat
            /\ l = IF w <= t THEN w ELSE t
        BY <1>1, <1>2, <4>1, <4>2, <4>3, <4>4
      <4> HIDE DEF u, v, w
      <4>6. u <= l
        BY <1>1, <4>5
      <4> QED
        BY <4>2, <4>6 DEF u
    <3> QED
      BY <3>1, <3>2
  <2>2. /\ q + j \in Nat \ {0} /\ (q + j) * CipherBlock = x + j * CipherBlock
        /\ ((q + j) - 1) * CipherBlock = x + (j - 1) * CipherBlock
        /\ (j - 1) * CipherBlock \in Nat /\ (j - 1) * CipherBlock + CipherBlock = j * CipherBlock
    <3>1. j \in Nat \ {0} /\ CipherBlock \in Nat /\ q \in Nat
      BY <1>1
    <3> QED
      BY <3>1, BlockOffset
  <2> DEFINE u == j * CipherBlock
             v == (j - 1) * CipherBlock
             g == (q + j) * CipherBlock
             h == ((q + j) - 1) * CipherBlock
  <2>3. u <= l /\ u \in Nat /\ v \in Nat /\ v + CipherBlock = u /\ g = x + u /\ h = x + v
    BY <2>1, <2>2
  <2> HIDE DEF x, u, v, g, h
  <2>4. g <= Len(U) /\ \A k \in 1 .. CipherBlock : h + k <= Len(U)
    BY <1>1, <1>2, <1>5, <2>3
  <2>5. \A k \in 1 .. CipherBlock : U[((q + j) - 1) * CipherBlock + k] = out[j][k]
    BY <1>2, <2>4 DEF h
  <2>6. (q + j) * CipherBlock <= Len(U) /\ q + j \in Nat \ {0} /\ Len(U) \in Nat
    BY <1>2, <2>2, <2>4 DEF g
  <2>7. IsBlock(out[j])
    BY <1>4
  <2> DEFINE b == out[j]
             y == q + j
  <2>8. /\ \A k \in 1 .. CipherBlock : U[(y - 1) * CipherBlock + k] = b[k]
        /\ y * CipherBlock <= Len(U) /\ y \in Nat \ {0} /\ Len(U) \in Nat
        /\ IsBlock(b)
    BY <2>5, <2>6, <2>7
  <2> HIDE DEF b, y
  <2>9. TextBlock(U, y) = b
    BY <2>8, TextBlockIs
  <2> QED
    BY <2>9 DEF b, y
<1>7. \A j \in 1 .. q : TextBlock(T, j) = TextBlock(U, j)
  <2> SUFFICES ASSUME NEW j \in 1 .. q PROVE TextBlock(T, j) = TextBlock(U, j)
    OBVIOUS
  <2>1. j \in Nat \ {0} /\ j * CipherBlock <= q * CipherBlock /\ Len(T) <= Len(U) /\ Len(T) \in Nat
    <3>1. j \in Nat /\ j <= q
      BY <1>1
    <3>2. j * CipherBlock <= q * CipherBlock
      BY <1>1, <3>1, TimesMonotonic
    <3> HIDE DEF x
    <3>3. Len(T) <= Len(U) /\ Len(T) \in Nat
      BY <1>1, <1>2, <1>5
    <3> QED
      BY <3>2, <3>3
  <2>2. j * CipherBlock <= Len(T)
    BY <1>1, <2>1
  <2> QED
    BY <1>2, <2>1, <2>2, TextBlockOf
<1>8. ASSUME NEW j \in 1 .. n
      PROVE  out[j] = OutBlock(c.xform, c.mode, c.key, m, U, q + j)
  <2> DEFINE b == TextBlock(m, q + j)
             y == q + j
  <2>1. Block(c.data, CipherBlock, j) = b
    <3> HIDE DEF b, y
    <3>1. j \in Nat \ {0} /\ Holds(c.data, m, q * CipherBlock) /\ q \in Nat
      BY <1>1
    <3>2. Block(c.data, CipherBlock, j) = TextBlock(m, q + j)
      BY <3>1, BlockOfHolds
    <3> QED
      BY <3>2 DEF b
  <2>2. out[j] = Given(c, PrevAfter(c, out, j - 1), CounterAfter(c, j - 1), b)
    BY <1>3, <2>1
  <2>3. /\ c.mode \in {"CBC", "CTR"} /\ c.xform \in {"encrypt", "decrypt"}
        /\ c.prevBlock = PrevBlock(c, m, T, q)
        /\ c.counter = (IF c.mode = "CTR" THEN q % CounterWraps ELSE 0)
    BY DEF Converting, Ciphering, Modes
  <2>4. y \in Nat \ {0} /\ y - 1 = q + (j - 1) /\ j - 1 \in Nat
    BY <1>1
  <2> HIDE DEF b
  <2>5. CASE c.mode = "CTR"
    <3>1. CounterAfter(c, j - 1) = (y - 1) % CounterWraps
      <4> DEFINE g == j - 1
      <4>1. g \in Nat /\ y - 1 = q + g /\ CounterWraps \in Nat \ {0} /\ q \in Nat
        BY <1>1, <2>4, CipherBlockIs
      <4> HIDE DEF g, y
      <4>2. ((q % CounterWraps) + g) % CounterWraps = (q + g) % CounterWraps
        BY <4>1, RemainderPlus
      <4>3. CounterAfter(c, g) = (y - 1) % CounterWraps
        BY <2>3, <2>5, <4>1, <4>2 DEF CounterAfter
      <4> QED
        BY <4>3 DEF g
    <3> QED
      BY <2>2, <2>5, <3>1 DEF Given, OutBlock, b
  <2>6. CASE c.mode = "CBC" /\ c.xform = "encrypt"
    <3>1. PrevAfter(c, out, j - 1) = IF y = 1 THEN IV ELSE TextBlock(U, y - 1)
      <4>1. CASE j = 1 /\ q = 0
        <5>1. PrevAfter(c, out, 0) = c.prevBlock /\ y = 1 /\ c.prevBlock = IV /\ j - 1 = 0
          BY <2>3, <4>1 DEF PrevAfter, PrevBlock
        <5> QED
          BY <5>1
      <4>2. CASE j = 1 /\ q # 0
        <5>1. PrevAfter(c, out, 0) = c.prevBlock /\ y # 1 /\ y - 1 = q /\ j - 1 = 0 /\ q \in 1 .. q
          BY <1>1, <4>2 DEF PrevAfter
        <5>2. c.prevBlock = TextBlock(T, q)
          BY <2>3, <2>6, <4>2 DEF PrevBlock
        <5>3. TextBlock(T, q) = TextBlock(U, q)
          BY <1>7, <5>1
        <5> QED
          BY <5>1, <5>2, <5>3
      <4>3. CASE j # 1
        <5> DEFINE g == j - 1
        <5>1. g \in 1 .. n /\ g # n /\ y # 1 /\ y - 1 = q + g /\ g # 0
          BY <1>1, <4>3
        <5> HIDE DEF g, y
        <5>2. TextBlock(U, q + g) = out[g]
          BY <1>6, <5>1
        <5>3. PrevAfter(c, out, g) = out[g]
          BY <2>3, <2>6, <5>1 DEF PrevAfter
        <5>4. PrevAfter(c, out, g) = IF y = 1 THEN IV ELSE TextBlock(U, y - 1)
          BY <5>1, <5>2, <5>3
        <5> QED
          BY <5>4 DEF g
      <4> QED
        BY <4>1, <4>2, <4>3
    <3> HIDE DEF y
    <3>2. out[j] = encryptBlock(c.key, XorBlock(b, IF y = 1 THEN IV ELSE TextBlock(U, y - 1)))
      BY <2>2, <2>6, <3>1 DEF Given
    <3>3. b = TextBlock(m, y)
      BY DEF b, y
    <3>4. out[j] = OutBlock(c.xform, c.mode, c.key, m, U, y)
      BY <2>6, <3>2, <3>3 DEF OutBlock
    <3> QED
      BY <3>4 DEF y
  <2>7. CASE c.mode = "CBC" /\ c.xform = "decrypt"
    <3>1. PrevAfter(c, out, j - 1) = IF y = 1 THEN IV ELSE TextBlock(m, y - 1)
      <4>1. CASE j = 1
        <5>1. PrevAfter(c, out, 0) = c.prevBlock /\ j - 1 = 0 /\ y - 1 = q /\ (y = 1 <=> q = 0)
          BY <1>1, <4>1 DEF PrevAfter
        <5>2. c.prevBlock = IF q = 0 THEN IV ELSE TextBlock(m, q)
          BY <2>3, <2>7 DEF PrevBlock
        <5> QED
          BY <5>1, <5>2
      <4>2. CASE j # 1
        <5> DEFINE g == j - 1
        <5>1. g \in Nat \ {0} /\ y # 1 /\ y - 1 = q + g
          BY <1>1, <4>2
        <5> HIDE DEF g, y
        <5>2. Holds(c.data, m, q * CipherBlock) /\ q \in Nat
          BY <1>1
        <5>3. Block(c.data, CipherBlock, g) = TextBlock(m, q + g)
          BY <5>1, <5>2, BlockOfHolds
        <5>4. PrevAfter(c, out, g) = Block(c.data, CipherBlock, g)
          BY <2>7, <5>1 DEF PrevAfter
        <5> QED
          BY <5>1, <5>3, <5>4 DEF g
      <4> QED
        BY <4>1, <4>2
    <3> HIDE DEF y
    <3>2. out[j] = XorBlock(decryptBlock(c.key, b), IF y = 1 THEN IV ELSE TextBlock(m, y - 1))
      BY <2>2, <2>7, <3>1 DEF Given
    <3>3. b = TextBlock(m, y)
      BY DEF b, y
    <3>4. out[j] = OutBlock(c.xform, c.mode, c.key, m, U, y)
      BY <2>7, <3>2, <3>3 DEF OutBlock
    <3> QED
      BY <3>4 DEF y
  <2> QED
    BY <2>3, <2>5, <2>6, <2>7
<1>9. ASSUME NEW j \in 1 .. q
      PROVE  OutBlock(c.xform, c.mode, c.key, m, T, j) = OutBlock(c.xform, c.mode, c.key, m, U, j)
  <2>1. CASE j = 1
    BY <2>1 DEF OutBlock
  <2>2. CASE j # 1
    <3>1. j - 1 \in 1 .. q
      BY <1>1, <2>2
    <3>2. TextBlock(T, j - 1) = TextBlock(U, j - 1)
      BY <1>7, <3>1
    <3> QED
      BY <2>2, <3>2 DEF OutBlock
  <2> QED
    BY <2>1, <2>2
<1>10. ASSUME NEW j \in Nat \ {0}, NEW i \in 1 .. CipherBlock,
              (j - 1) * CipherBlock + i <= Len(U)
       PROVE  U[(j - 1) * CipherBlock + i] = OutBlock(c.xform, c.mode, c.key, m, U, j)[i]
  <2>1. \/ j <= q /\ (j - 1) * CipherBlock + i \in 1 .. x
        \/ j - q \in 1 .. n
    <3>1. /\ l \in Nat /\ l <= n * CipherBlock /\ q \in Nat
          /\ (j - 1) * CipherBlock + i <= q * CipherBlock + l
      BY <1>1, <1>2, <1>5, <1>10
    <3>2. \/ j <= q /\ (j - 1) * CipherBlock + i \in 1 .. q * CipherBlock
          \/ j - q \in 1 .. n
      BY <3>1, BlockOfByte
    <3> QED
      BY <3>2
  <2>2. CASE j <= q /\ (j - 1) * CipherBlock + i \in 1 .. x
    <3> DEFINE e == (j - 1) * CipherBlock + i
    <3>1. e \in 1 .. Len(T) /\ e <= Len(T) /\ j \in 1 .. q
      BY <1>1, <2>2
    <3>2. T[e] = OutBlock(c.xform, c.mode, c.key, m, T, j)[i]
      BY <3>1 DEF Converting, Converted
    <3> HIDE DEF e
    <3>3. U[e] = T[e]
      BY <1>2, <3>1
    <3>4. OutBlock(c.xform, c.mode, c.key, m, T, j) = OutBlock(c.xform, c.mode, c.key, m, U, j)
      BY <1>9, <3>1
    <3>5. U[e] = OutBlock(c.xform, c.mode, c.key, m, U, j)[i]
      BY <3>2, <3>3, <3>4
    <3> QED
      BY <3>5 DEF e
  <2>3. CASE j - q \in 1 .. n
    <3> DEFINE g == j - q
    <3>1. g \in 1 .. n /\ q + g = j
      BY <1>1, <2>3
    <3> HIDE DEF g
    <3>2. ((q + g) - 1) * CipherBlock + i <= Len(U)
      BY <1>10, <3>1
    <3>3. U[((q + g) - 1) * CipherBlock + i] = out[g][i]
      BY <1>2, <3>1, <3>2
    <3>4. out[g] = OutBlock(c.xform, c.mode, c.key, m, U, q + g)
      BY <1>8, <3>1
    <3> QED
      BY <3>1, <3>3, <3>4
  <2> QED
    BY <2>1, <2>2, <2>3
<1>11. Converted(c.xform, c.mode, c.key, m, U)
  BY <1>2, <1>10 DEF Converted
<1>12. n # 0 /\ n * CipherBlock <= t => TextBlock(U, q + n) = out[n]
  <2> SUFFICES ASSUME n # 0, n * CipherBlock <= t PROVE TextBlock(U, q + n) = out[n]
    OBVIOUS
  <2>1. n \in 1 .. n
    OBVIOUS
  <2> QED
    BY <1>6, <2>1
<1> QED
  BY <1>2, <1>11, <1>12 DEF p, U, l, out, t, x

\* What whole blocks give is what a longer text begins to give, too.
LEMMA ConvertedOf ==
  ASSUME NEW xform, NEW mode, NEW key, NEW m, NEW e, NEW T, NEW q \in Nat, Converted(xform, mode, key, m, T),
         Len(T) = q * CipherBlock, Len(T) <= Len(m), Len(m) \in Nat, Len(e) \in Nat,
         Len(m) <= Len(e), \A i \in 1 .. Len(m) : m[i] = e[i]
  PROVE  Converted(xform, mode, key, e, T)
<1>1. CipherBlock \in Nat
  BY CipherBlockIs
<1>2. ASSUME NEW j \in Nat \ {0}, NEW i \in 1 .. CipherBlock,
             (j - 1) * CipherBlock + i <= Len(T)
      PROVE  T[(j - 1) * CipherBlock + i] = OutBlock(xform, mode, key, e, T, j)[i]
  <2>1. j <= q
    <3>1. 0 \in Nat /\ 0 <= 0 * CipherBlock
      BY <1>1
    <3>2. (j - 1) * CipherBlock + i <= q * CipherBlock + 0
      <4>1. q * CipherBlock \in Nat
        BY <1>1
      <4> QED
        BY <1>2, <4>1
    <3>3. \/ j <= q /\ (j - 1) * CipherBlock + i \in 1 .. q * CipherBlock
          \/ j - q \in 1 .. 0
      BY <3>1, <3>2, BlockOfByte
    <3> QED
      BY <3>3
  <2>2. j * CipherBlock <= Len(m)
    <3>1. j * CipherBlock <= q * CipherBlock /\ j * CipherBlock \in Nat /\ q * CipherBlock \in Nat
      BY <1>1, <2>1, TimesMonotonic
    <3> DEFINE y == j * CipherBlock
               x == q * CipherBlock
    <3>2. y <= x /\ y \in Nat /\ x \in Nat /\ x <= Len(m)
      BY <3>1
    <3> HIDE DEF y, x
    <3>3. y <= Len(m)
      BY <3>2
    <3> QED
      BY <3>3 DEF y
  <2>3. TextBlock(m, j) = TextBlock(e, j)
    BY <2>2, TextBlockOf
  <2>4. j # 1 => TextBlock(m, j - 1) = TextBlock(e, j - 1)
    <3> SUFFICES ASSUME j # 1 PROVE TextBlock(m, j - 1) = TextBlock(e, j - 1)
      OBVIOUS
    <3> DEFINE h == j - 1
               y == j * CipherBlock
               x == (j - 1) * CipherBlock
    <3>1. x + CipherBlock = y /\ x \in Nat /\ y <= Len(m)
      BY <1>1, <2>2, BlockOffset
    <3> HIDE DEF x, y
    <3>2. x <= Len(m)
      BY <1>1, <3>1
    <3>3. h \in Nat \ {0} /\ h * CipherBlock <= Len(m)
      BY <3>2 DEF x
    <3> HIDE DEF h
    <3>4. TextBlock(m, h) = TextBlock(e, h)
      BY <3>3, TextBlockOf
    <3> QED
      BY <3>4 DEF h
  <2>5. OutBlock(xform, mode, key, m, T, j) = OutBlock(xform, mode, key, e, T, j)
    BY <2>3, <2>4 DEF OutBlock
  <2>6. T[(j - 1) * CipherBlock + i] = OutBlock(xform, mode, key, m, T, j)[i]
    BY <1>2 DEF Converted
  <2> QED
    BY <2>5, <2>6
<1> QED
  BY <1>2 DEF Converted

\* A piece for a cipher.
LEMMA FedConverts ==
  ASSUME NEW c, NEW m, NEW T, NEW q, NEW p, Converting(c, m, T, q), WordArray(p), Trim(p)
  PROVE  /\ Converting(Fed(c, p), m \o Bytes(p), T, q)
         /\ SameSettings(Fed(c, p), c) /\ Fed(c, p).data.sigBytes = c.data.sigBytes + p.sigBytes
<1> DEFINE d == Fed(c, p)
           e == m \o Bytes(p)
           f == concat(c.data, p)
<1>1. /\ Ciphering(c) /\ q \in Nat /\ Holds(c.data, m, q * CipherBlock) /\ WordArray(c.data)
      /\ Converted(c.xform, c.mode, c.key, m, T) /\ Len(T) = q * CipherBlock
  BY DEF Converting, Ciphering
<1>2. /\ Holds(f, e, q * CipherBlock) /\ Len(e) = Len(m) + p.sigBytes
      /\ \A i \in 1 .. Len(m) : e[i] = m[i]
  BY <1>1, HoldsConcat
<1> HIDE DEF e
<1>3. f.sigBytes = c.data.sigBytes + p.sigBytes /\ WordArray(f)
  BY <1>1, ConcatIs
<1>4. /\ SameSettings(d, c) /\ d.data = f /\ d.prevBlock = c.prevBlock /\ d.counter = c.counter
  BY <1>1 DEF Ciphering, SameSettings, CipherFields, Fed
<1> HIDE DEF d, f
<1>5. Ciphering(d)
  BY <1>1, <1>3, <1>4 DEF Ciphering, SameSettings
<1>6. Converted(c.xform, c.mode, c.key, e, T) /\ PrevBlock(d, e, T, q) = PrevBlock(c, m, T, q)
  <2>1. /\ c.data.sigBytes \in Nat /\ q * CipherBlock + c.data.sigBytes = Len(m)
        /\ q * CipherBlock \in Nat /\ p.sigBytes \in Nat
    BY <1>1 DEF Holds, WordArray, IsWordArray
  <2> DEFINE x == q * CipherBlock
  <2>2. x \in Nat /\ x + c.data.sigBytes = Len(m) /\ Len(T) = x
    BY <1>1, <2>1
  <2> HIDE DEF x
  <2>3. Len(T) <= Len(m) /\ Len(m) \in Nat /\ Len(e) \in Nat /\ Len(m) <= Len(e) /\ x <= Len(m)
    BY <1>2, <2>1, <2>2
  <2>4. Converted(c.xform, c.mode, c.key, e, T)
    BY <1>1, <1>2, <2>3, ConvertedOf
  <2>5. q # 0 => TextBlock(m, q) = TextBlock(e, q)
    BY <1>1, <1>2, <2>3, TextBlockOf DEF x
  <2>6. d.mode = c.mode /\ d.xform = c.xform
    BY <1>4 DEF SameSettings
  <2> QED
    BY <2>4, <2>5, <2>6 DEF PrevBlock
<1>7. Converting(d, e, T, q)
  <2>1. /\ c.prevBlock = PrevBlock(c, m, T, q)
        /\ c.counter = (IF c.mode = "CTR" THEN q % CounterWraps ELSE 0)
        /\ q # 0 => c.data.sigBytes >= CipherBlock * c.minBufferSize
    BY DEF Converting
  <2>2. d.mode = c.mode /\ d.xform = c.xform /\ d.key = c.key /\ d.minBufferSize = c.minBufferSize
    BY <1>4 DEF SameSettings
  <2>3. q # 0 => d.data.sigBytes >= CipherBlock * d.minBufferSize
    <3> DEFINE k == CipherBlock * c.minBufferSize
    <3>1. k \in Nat /\ c.data.sigBytes \in Nat /\ p.sigBytes \in Nat
      <4>1. CipherBlock \in Nat /\ c.minBufferSize \in {0, 1}
        BY <1>1, CipherBlockIs DEF Ciphering
      <4>2. k \in Nat
        BY <4>1
      <4> QED
        BY <1>1, <4>2 DEF WordArray, IsWordArray
    <3> HIDE DEF k
    <3>2. q # 0 => d.data.sigBytes >= k
      BY <1>3, <1>4, <2>1, <3>1 DEF k
    <3> QED
      BY <2>2, <3>2 DEF k
  <2> QED
    BY <1>1, <1>2, <1>4, <1>5, <1>6, <2>1, <2>2, <2>3 DEF Converting
<1> QED
  BY <1>3, <1>4, <1>7 DEF d, e

\* The whole blocks are processed, but the one a decryptor keeps back ...
LEMMA ConvertStep ==
  ASSUME NEW c, NEW m, NEW T, NEW q, Converting(c, m, T, q)
  PROVE  LET n == BlocksReady(c.data, CipherBlock, FALSE, c.minBufferSize)
             done == process(c, FALSE)
         IN  /\ n \in Nat /\ Converting(done.c, m, T \o Bytes(done.out), q + n)
             /\ SameSettings(done.c, c)
             /\ WordArray(done.out) /\ done.out.sigBytes = n * CipherBlock
             /\ done.c.data.sigBytes < CipherBlock * (1 + c.minBufferSize)
<1> DEFINE n == BlocksReady(c.data, CipherBlock, FALSE, c.minBufferSize)
           s == Running(c, n)[n]
           done == process(c, FALSE)
           x == q * CipherBlock
           y == n * CipherBlock
           U == T \o Bytes(done.out)
<1>1. /\ Ciphering(c) /\ q \in Nat /\ Holds(c.data, m, x) /\ WordArray(c.data)
      /\ c.minBufferSize \in {0, 1} /\ c.xform \in {"encrypt", "decrypt"} /\ CipherBlock \in Nat \ {0}
      /\ CipherBlock % WordBytes = 0 /\ c.data.sigBytes \in Nat
      /\ c.prevBlock = PrevBlock(c, m, T, q)
      /\ q # 0 => c.data.sigBytes >= CipherBlock * c.minBufferSize
      /\ c.counter = (IF c.mode = "CTR" THEN q % CounterWraps ELSE 0)
      /\ c.mode \in Modes /\ Sequence(T) /\ Len(T) = x
  BY CipherBlockIs DEF Converting, Ciphering, Converted, WordArray, IsWordArray
<1>2. /\ n \in Nat /\ Ran(c, n, s)
      /\ done.out = Processed(c.data, CipherBlock, s.out)
      /\ SameSettings(done.c, c) /\ done.c.data = Rest(c.data, CipherBlock, n)
      /\ done.c.prevBlock = PrevAfter(c, s.out, n) /\ done.c.counter = CounterAfter(c, n)
  <2>1. FALSE \in BOOLEAN
    OBVIOUS
  <2> QED
    BY <1>1, <2>1, ProcessIs
<1>3. /\ y \in Nat /\ y <= c.data.sigBytes
      /\ c.data.sigBytes - y < CipherBlock * (1 + c.minBufferSize)
      /\ n # 0 => c.data.sigBytes - y >= CipherBlock * c.minBufferSize
  BY <1>1, ReadyBefore
<1> HIDE DEF n, s, done
<1>4. Reaches(c, n)
  <2> SUFFICES ASSUME n # 0 PROVE (n - 1) * CipherBlock <= c.data.sigBytes
    BY DEF Reaches
  <2>1. n - 1 \in Nat /\ n \in Nat /\ n - 1 <= n
    BY <1>2
  <2>2. (n - 1) * CipherBlock <= y /\ (n - 1) * CipherBlock \in Nat
    BY <1>1, <2>1, TimesMonotonic
  <2> DEFINE w == (n - 1) * CipherBlock
  <2> HIDE DEF w, y
  <2>3. w <= c.data.sigBytes
    BY <1>1, <1>3, <2>2 DEF w
  <2> QED
    BY <2>3 DEF w
<1>5. /\ WordArray(done.out) /\ Converted(c.xform, c.mode, c.key, m, U)
      /\ done.out.sigBytes = y /\ Len(U) = x + y /\ Len(U) \in Nat
      /\ \A i \in 1 .. Len(T) : U[i] = T[i]
      /\ n # 0 => TextBlock(U, q + n) = s.out[n]
  <2>1. LET p == Processed(c.data, CipherBlock, s.out)
            V == T \o Bytes(p)
        IN  /\ WordArray(p) /\ Converted(c.xform, c.mode, c.key, m, V)
            /\ p.sigBytes = IF n * CipherBlock <= c.data.sigBytes THEN n * CipherBlock
                            ELSE c.data.sigBytes
            /\ Len(V) = q * CipherBlock + p.sigBytes /\ Len(V) \in Nat
            /\ \A i \in 1 .. Len(T) : V[i] = T[i]
            /\ n # 0 /\ n * CipherBlock <= c.data.sigBytes => TextBlock(V, q + n) = s.out[n]
    BY <1>2, <1>4, ConvertRun
  <2> QED
    BY <1>2, <1>3, <2>1
<1>6. /\ (q + n) * CipherBlock = x + y /\ x \in Nat
  BY <1>1, <1>2
<1>7. /\ Holds(done.c.data, m, x + y) /\ done.c.data.sigBytes = c.data.sigBytes - y
  <2> HIDE DEF x
  <2>1. n * CipherBlock <= c.data.sigBytes
    BY <1>3
  <2>2. /\ Holds(Rest(c.data, CipherBlock, n), m, x + n * CipherBlock)
        /\ Rest(c.data, CipherBlock, n).sigBytes = c.data.sigBytes - n * CipherBlock
    BY <1>1, <1>2, <2>1, HoldsRest
  <2> QED
    BY <1>2, <2>2
<1> HIDE DEF U
<1>8. done.c.prevBlock = PrevBlock(c, m, U, q + n)
  <2>1. CASE c.mode = "CTR"
    BY <1>1, <1>2, <2>1 DEF PrevAfter, PrevBlock
  <2>2. CASE c.mode # "CTR" /\ n # 0
    <3>1. q + n # 0
      BY <1>1, <1>2, <2>2
    <3>2. Block(c.data, CipherBlock, n) = TextBlock(m, q + n)
      <4>1. n \in Nat \ {0} /\ q \in Nat /\ Holds(c.data, m, q * CipherBlock)
        BY <1>1, <1>2, <2>2
      <4> HIDE DEF x, y
      <4> QED
        BY <4>1, BlockOfHolds
    <3>3. CASE c.xform = "encrypt"
      BY <1>2, <1>5, <2>2, <3>1, <3>3 DEF PrevAfter, PrevBlock
    <3>4. CASE c.xform = "decrypt"
      BY <1>2, <2>2, <3>1, <3>2, <3>4 DEF PrevAfter, PrevBlock
    <3> QED
      BY <1>1, <3>3, <3>4
  <2>3. CASE c.mode # "CTR" /\ n = 0 /\ q = 0
    BY <1>1, <1>2, <2>3 DEF PrevAfter, PrevBlock
  <2>4. CASE c.mode # "CTR" /\ n = 0 /\ q # 0
    <3>1. q + n = q /\ q \in Nat \ {0} /\ q * CipherBlock <= Len(T) /\ Len(T) \in Nat
      BY <1>1, <1>6, <2>4
    <3>2. Len(T) <= Len(U)
      <4> HIDE DEF x, y
      <4> QED
        BY <1>1, <1>3, <1>5, <1>6
    <3>3. TextBlock(T, q) = TextBlock(U, q)
      BY <1>5, <3>1, <3>2, TextBlockOf
    <3> QED
      BY <1>1, <1>2, <2>4, <3>1, <3>3 DEF PrevAfter, PrevBlock
  <2> QED
    BY <2>1, <2>2, <2>3, <2>4
<1>9. /\ done.c.counter = (IF c.mode = "CTR" THEN (q + n) % CounterWraps ELSE 0)
      /\ done.c.counter \in 0 .. CounterWraps - 1
  <2>1. CounterWraps \in Nat \ {0} /\ q + n \in Nat
    BY <1>1, <1>2, CipherBlockIs
  <2>2. CASE c.mode = "CTR"
    <3>1. ((q % CounterWraps) + n) % CounterWraps = (q + n) % CounterWraps
      BY <1>1, <1>2, <2>1, RemainderPlus
    <3>2. (q + n) % CounterWraps \in 0 .. CounterWraps - 1
      BY <2>1
    <3> QED
      BY <1>1, <1>2, <2>2, <3>1, <3>2 DEF CounterAfter
  <2>3. CASE c.mode # "CTR"
    BY <1>1, <1>2, <2>1, <2>3 DEF CounterAfter
  <2> QED
    BY <2>2, <2>3
<1>10. Ciphering(done.c)
  <2>1. WordArray(done.c.data)
    BY <1>7 DEF Holds
  <2> QED
    BY <1>1, <1>2, <1>9, <2>1 DEF Ciphering, SameSettings
<1>11. q + n # 0 => done.c.data.sigBytes >= CipherBlock * c.minBufferSize
  <2>1. CASE n # 0
    BY <1>3, <1>7, <2>1
  <2>2. CASE n = 0
    <3>1. y = 0
      BY <1>1, <2>2
    <3> HIDE DEF y
    <3>2. q + n = q /\ done.c.data.sigBytes = c.data.sigBytes
      BY <1>1, <1>7, <2>2, <3>1
    <3> QED
      BY <1>1, <3>2
  <2> QED
    BY <2>1, <2>2
<1>12. Converting(done.c, m, U, q + n)
  <2>1. q + n \in Nat /\ Holds(done.c.data, m, (q + n) * CipherBlock) /\ Len(U) = (q + n) * CipherBlock
    BY <1>1, <1>2, <1>5, <1>6, <1>7
  <2>2. /\ done.c.mode = c.mode /\ done.c.xform = c.xform /\ done.c.key = c.key
        /\ done.c.minBufferSize = c.minBufferSize
    BY <1>2 DEF SameSettings
  <2>3. PrevBlock(done.c, m, U, q + n) = PrevBlock(c, m, U, q + n)
    BY <2>2 DEF PrevBlock
  <2> QED
    BY <1>5, <1>8, <1>9, <1>10, <1>11, <2>1, <2>2, <2>3 DEF Converting
<1> QED
  BY <1>2, <1>3, <1>5, <1>7, <1>12 DEF n, done, U

-----------------------------------------------------------------------------
\* The end of a cipher, the padding and its removal, the definition of the modes.

\* ... and at the end the rest, too.
LEMMA ConvertEnd ==
  ASSUME NEW c, NEW m, NEW T, NEW q, Converting(c, m, T, q)
  PROVE  LET done == process(c, TRUE)
             U == T \o Bytes(done.out)
         IN  /\ WordArray(done.out) /\ done.out.sigBytes = c.data.sigBytes
             /\ Converted(c.xform, c.mode, c.key, m, U) /\ Len(U) = Len(m) /\ Len(m) \in Nat
<1> DEFINE n == BlocksReady(c.data, CipherBlock, TRUE, c.minBufferSize)
           s == Running(c, n)[n]
           done == process(c, TRUE)
           x == q * CipherBlock
           y == n * CipherBlock
           t == c.data.sigBytes
           U == T \o Bytes(done.out)
<1>1. /\ Ciphering(c) /\ q \in Nat /\ WordArray(c.data) /\ CipherBlock \in Nat \ {0}
      /\ t \in Nat /\ x + t = Len(m) /\ Len(T) = x
  BY CipherBlockIs DEF Converting, Ciphering, Holds, WordArray, IsWordArray
<1>2. /\ n \in Nat /\ Ran(c, n, s) /\ done.out = Processed(c.data, CipherBlock, s.out)
  <2>1. TRUE \in BOOLEAN
    OBVIOUS
  <2> QED
    BY <1>1, <2>1, ProcessIs
<1>3. y \in Nat /\ t <= y /\ y < t + CipherBlock
  BY <1>1, ReadyAtEnd
<1> HIDE DEF n, s, done
<1>4. Reaches(c, n)
  <2> SUFFICES ASSUME n # 0 PROVE (n - 1) * CipherBlock <= t
    BY DEF Reaches
  <2>1. n \in Nat \ {0} /\ CipherBlock \in Nat
    BY <1>1, <1>2
  <2>2. (n - 1) * CipherBlock + CipherBlock = y /\ (n - 1) * CipherBlock \in Nat
    BY <2>1, BlockOffset
  <2> DEFINE w == (n - 1) * CipherBlock
  <2> HIDE DEF w, y, t
  <2>3. w <= t
    BY <1>1, <1>3, <2>2 DEF w
  <2> QED
    BY <2>3 DEF w
<1>5. /\ WordArray(done.out) /\ Converted(c.xform, c.mode, c.key, m, U)
      /\ done.out.sigBytes = IF y <= t THEN y ELSE t
      /\ Len(U) = x + done.out.sigBytes
  <2>1. LET p == Processed(c.data, CipherBlock, s.out)
            V == T \o Bytes(p)
        IN  /\ WordArray(p) /\ Converted(c.xform, c.mode, c.key, m, V)
            /\ p.sigBytes = IF n * CipherBlock <= c.data.sigBytes THEN n * CipherBlock
                            ELSE c.data.sigBytes
            /\ Len(V) = q * CipherBlock + p.sigBytes /\ Len(V) \in Nat
            /\ \A i \in 1 .. Len(T) : V[i] = T[i]
            /\ n # 0 /\ n * CipherBlock <= c.data.sigBytes => TextBlock(V, q + n) = s.out[n]
    BY <1>2, <1>4, ConvertRun
  <2> QED
    BY <1>2, <2>1
<1>6. x \in Nat
  BY <1>1
<1> HIDE DEF U, x, y, t
<1>7. done.out.sigBytes = t /\ Len(U) = Len(m) /\ Len(m) \in Nat
  BY <1>1, <1>3, <1>5, <1>6
<1> QED
  BY <1>5, <1>7 DEF U, done, t

\* The bytes of a new word array are those it was made of.
LEMMA BytesCreate ==
  ASSUME NEW s, Sequence(s)
  PROVE  WordArray(Create(s)) /\ Create(s).sigBytes = Len(s) /\ Trim(Create(s)) /\ Bytes(Create(s)) = s
         /\ Len(s) \in Nat
<1> DEFINE a == Create(s)
<1>1. /\ WordArray(a) /\ a.sigBytes = Len(s)
      /\ \A i \in Nat \ {0} : ByteAt(a, i) = IF i <= Len(s) THEN s[i] ELSE Zero
  BY CreateIs
<1>2. Len(s) \in Nat
  BY SequenceIs
<1> HIDE DEF a
<1>3. Trim(a)
  BY <1>1, <1>2 DEF Trim
<1>4. /\ Sequence(Bytes(a)) /\ Len(Bytes(a)) = a.sigBytes
      /\ \A i \in 1 .. a.sigBytes : Bytes(a)[i] = ByteAt(a, i)
  BY <1>1, BytesIs
<1>5. \A i \in 1 .. Len(s) : Bytes(a)[i] = s[i]
  <2> SUFFICES ASSUME NEW i \in 1 .. Len(s) PROVE Bytes(a)[i] = s[i]
    OBVIOUS
  <2>1. i \in Nat \ {0} /\ i <= Len(s) /\ i \in 1 .. a.sigBytes
    BY <1>1, <1>2
  <2> QED
    BY <1>1, <1>4, <2>1
<1>6. Bytes(a) = s
  BY <1>1, <1>4, <1>5, SequenceEqual
<1> QED
  BY <1>1, <1>2, <1>3, <1>6 DEF a

\* A sequence of n equal symbols.
LEMMA Repeated ==
  ASSUME NEW n \in Nat, NEW e
  PROVE  Sequence([i \in 1 .. n |-> e]) /\ Len([i \in 1 .. n |-> e]) = n
         /\ \A k \in 1 .. n : [i \in 1 .. n |-> e][k] = e
<1> DEFINE f == [i \in 1 .. n |-> e]
<1>1. f = [i \in 1 .. n |-> f[i]] /\ \A i \in 1 .. n : f[i] = e
  OBVIOUS
<1> HIDE DEF f
<1>2. Sequence(f) /\ Len(f) = n
  BY <1>1, SequenceOver
<1> QED
  BY <1>1, <1>2 DEF f

\* The padding of what an encryptor holds is the padding of the message.
PadCount(m) == CipherBlock - (Len(m) % CipherBlock)

Pads(m) == [i \in 1 .. PadCount(m) |-> {<<"pad", PadCount(m)>>}]

\* A padded message is the message and its padding, whole blocks in all.
LEMMA PadIs ==
  ASSUME NEW m, Sequence(m)
  PROVE  /\ PadCount(m) \in 1 .. CipherBlock
         /\ Sequence(Pads(m)) /\ Len(Pads(m)) = PadCount(m)
         /\ Whole("CBC", m) = m \o Pads(m) /\ Whole("CTR", m) = m
         /\ Sequence(m \o Pads(m)) /\ Len(m \o Pads(m)) = Len(m) + PadCount(m)
         /\ \E k \in Nat \ {0} : Len(m \o Pads(m)) = k * CipherBlock
         /\ \A i \in 1 .. Len(m) : (m \o Pads(m))[i] = m[i]
         /\ (m \o Pads(m))[Len(m) + PadCount(m)] = {<<"pad", PadCount(m)>>}
<1> DEFINE n == Len(m)
           r == n % CipherBlock
           g == n \div CipherBlock
           k == PadCount(m)
           w == Pads(m)
           e == m \o w
<1>1. CipherBlock \in Nat \ {0} /\ n \in Nat
  BY CipherBlockIs, SequenceIs
<1>2. g \in Nat /\ r \in Nat /\ r < CipherBlock /\ n = (g * CipherBlock) + r
  BY <1>1, Division
<1>3. k = CipherBlock - r
  BY DEF PadCount
<1> HIDE DEF g, r, k
<1>4. k \in 1 .. CipherBlock /\ k \in Nat
  BY <1>1, <1>2, <1>3
<1>5. w = [i \in 1 .. k |-> {<<"pad", k>>}]
  BY DEF Pads, k
<1>6. Sequence(w) /\ Len(w) = k /\ \A i \in 1 .. k : w[i] = {<<"pad", k>>}
  <2> DEFINE f == {<<"pad", k>>}
  <2>1. w = [i \in 1 .. k |-> f]
    BY <1>5
  <2> HIDE DEF f, w, e, n
  <2>2. /\ Sequence([i \in 1 .. k |-> f]) /\ Len([i \in 1 .. k |-> f]) = k
        /\ \A i \in 1 .. k : [j \in 1 .. k |-> f][i] = f
    BY <1>4, Repeated
  <2>3. Sequence(w) /\ Len(w) = k /\ \A i \in 1 .. k : w[i] = f
    BY <2>1, <2>2
  <2> QED
    BY <2>3 DEF f
<1>7. Whole("CBC", m) = e /\ Whole("CTR", m) = m
  BY DEF Whole, Pads, PadCount
<1> HIDE DEF w
<1>8. /\ Sequence(e) /\ Len(e) = n + k
      /\ e = [i \in 1 .. n + k |-> IF i <= n THEN m[i] ELSE w[i - n]]
  BY <1>6, SequenceConcat
<1> HIDE DEF e, n
<1>9. \A i \in 1 .. n : e[i] = m[i]
  BY <1>1, <1>4, <1>8
<1>10. e[n + k] = {<<"pad", k>>}
  <2>1. n + k \in 1 .. n + k /\ ~(n + k <= n) /\ (n + k) - n = k /\ k \in 1 .. k
    BY <1>1, <1>4
  <2>2. e[n + k] = w[k]
    BY <1>8, <2>1
  <2> QED
    BY <1>6, <2>1, <2>2
<1>11. \E l \in Nat \ {0} : Len(e) = l * CipherBlock
  <2>1. (g + 1) * CipherBlock = g * CipherBlock + CipherBlock /\ g * CipherBlock \in Nat
    BY <1>1, <1>2
  <2> DEFINE z == g * CipherBlock
  <2>2. z \in Nat /\ n = z + r /\ (g + 1) * CipherBlock = z + CipherBlock
    BY <1>2, <2>1
  <2> HIDE DEF z
  <2>3. n + k = z + CipherBlock
    BY <1>1, <1>2, <1>3, <2>2
  <2>4. Len(e) = (g + 1) * CipherBlock
    BY <1>8, <2>2, <2>3
  <2>5. g + 1 \in Nat \ {0}
    BY <1>2
  <2> QED
    BY <2>4, <2>5
<1> QED
  BY <1>4, <1>6, <1>7, <1>8, <1>9, <1>10, <1>11 DEF k, n, e, w

\* An encryptor and a decryptor that were fed message m and gave text T.
Encrypting(c, m, T, q) == c.xform = "encrypt" /\ Converting(c, m, T, q)

Decrypting(c, m, T, q) == c.xform = "decrypt" /\ Converting(c, m, T, q)

Enciphered(mode, key, m, T) == Converted("encrypt", mode, key, m, T)

\* finalize of an encryptor: the ciphertext of the message with its padding.
LEMMA FinalizeEncrypts ==
  ASSUME NEW c, NEW m, NEW T, NEW q, NEW p, Encrypting(c, m, T, q), WordArray(p), Trim(p)
  PROVE  LET out == cipherFinalize(c, p).out
             e == m \o Bytes(p)
             U == T \o Bytes(out)
         IN  /\ WordArray(out) /\ Sequence(e)
             /\ Enciphered(c.mode, c.key, Whole(c.mode, e), U)
             /\ Len(U) = Len(Whole(c.mode, e)) /\ Len(U) \in Nat
<1> DEFINE f == Fed(c, p)
           e == m \o Bytes(p)
           w == Whole(c.mode, e)
           g == [f EXCEPT !.data = pad(@)]
           h == IF c.mode = "CBC" THEN g ELSE f
           done == process(h, TRUE)
           out == cipherFinalize(c, p).out
<1>0. Converting(c, m, T, q)
  BY DEF Encrypting
<1>1. Converting(f, e, T, q) /\ SameSettings(f, c)
  BY <1>0, FedConverts
<1>2. c.mode \in Modes /\ c.xform = "encrypt"
  BY DEF Encrypting, Converting, Ciphering
<1>3. out = done.out
  BY <1>2 DEF cipherFinalize
<1> HIDE DEF f, e, out
<1>4. /\ Holds(f.data, e, q * CipherBlock) /\ Sequence(e) /\ WordArray(f.data)
      /\ q \in Nat /\ Ciphering(f) /\ f.data.sigBytes \in Nat
  BY <1>1 DEF Converting, Ciphering, Holds, WordArray, IsWordArray
<1>5. ASSUME c.mode = "CBC"
      PROVE  Converting(h, w, T, q) /\ SameSettings(h, c)
  <2> DEFINE k == CipherBlock - (f.data.sigBytes % CipherBlock)
             pads == [i \in 1 .. k |-> {<<"pad", k>>}]
  <2>1. g.data = concat(f.data, Create(pads))
    BY <1>4 DEF pad, Ciphering, CipherFields
  <2>2. k = PadCount(e)
    <3> DEFINE t == f.data.sigBytes
               x == q * CipherBlock
    <3>1. t \in Nat /\ x \in Nat /\ Len(e) = x + t /\ CipherBlock \in Nat \ {0} /\ q \in Nat
      <4>1. CipherBlock \in Nat \ {0}
        BY CipherBlockIs
      <4> QED
        BY <1>4, <4>1 DEF Holds
    <3> DEFINE j == t \div CipherBlock
               r == t % CipherBlock
    <3> HIDE DEF t
    <3>2. j \in Nat /\ r \in Nat /\ r < CipherBlock /\ t = (j * CipherBlock) + r
      BY <3>1, Division
    <3> HIDE DEF j, r
    <3>3. (q + j) * CipherBlock = x + j * CipherBlock /\ j * CipherBlock \in Nat /\ q + j \in Nat
      BY <3>1, <3>2
    <3> DEFINE y == j * CipherBlock
               n == Len(e)
    <3>4. y \in Nat /\ t = y + r /\ n = x + t
      BY <3>1, <3>2, <3>3
    <3> HIDE DEF x, y, n
    <3>5. n \in Nat /\ n = (x + y) + r
      BY <3>1, <3>2, <3>4
    <3>6. n = ((q + j) * CipherBlock) + r
      BY <3>3, <3>5 DEF x, y
    <3>7. n % CipherBlock = r
      BY <3>1, <3>2, <3>3, <3>5, <3>6, QuotientUnique
    <3> QED
      BY <3>7 DEF PadCount, r, t, n
  <2>3. pads = Pads(e)
    BY <2>2 DEF Pads
  <2>4. /\ Sequence(Pads(e)) /\ w = e \o Pads(e)
    BY <1>4, <1>5, PadIs
  <2> DEFINE a == Create(Pads(e))
  <2>5. WordArray(a) /\ Trim(a) /\ Bytes(a) = Pads(e)
    BY <2>4, BytesCreate
  <2>6. g = Fed(f, a)
    <3>1. g = [f EXCEPT !.data = concat(@, a)]
      BY <2>1, <2>3 DEF pad
    <3> QED
      BY <3>1 DEF Fed
  <2> HIDE DEF g, a, pads, w
  <2>7. Converting(Fed(f, a), e \o Bytes(a), T, q) /\ SameSettings(Fed(f, a), f)
    BY <1>1, <2>5, FedConverts
  <2> QED
    BY <1>1, <1>5, <2>4, <2>5, <2>6, <2>7 DEF SameSettings
<1>6. ASSUME c.mode = "CTR"
      PROVE  Converting(h, w, T, q) /\ SameSettings(h, c)
  <2>1. w = e /\ h = f
    BY <1>6 DEF Whole
  <2> QED
    BY <1>1, <2>1
<1>7. Converting(h, w, T, q) /\ SameSettings(h, c)
  BY <1>2, <1>5, <1>6 DEF Modes
<1> HIDE DEF h, w
<1>8. /\ WordArray(done.out) /\ Converted(h.xform, h.mode, h.key, w, T \o Bytes(done.out))
      /\ Len(T \o Bytes(done.out)) = Len(w) /\ Len(w) \in Nat
  BY <1>7, ConvertEnd
<1> HIDE DEF done
<1> QED
  BY <1>2, <1>3, <1>4, <1>7, <1>8 DEF e, w, out, SameSettings, Enciphered

\* The chain of the definition is there, so that its definition says what it is.
ChainFrom(key, m, f, n) ==
    f = [j \in 0 .. n |-> IF j = 0 THEN IV
                          ELSE encryptBlock(key, XorBlock(TextBlock(m, j), f[j - 1]))]

\* The chain of the definition is there, so that its definition says what it is.
LEMMA ChainingDef ==
  ASSUME NEW key, NEW m, NEW n \in Nat
  PROVE  ChainFrom(key, m, Chaining(key, m, n), n)
<1> DEFINE E(b, j) == encryptBlock(key, XorBlock(TextBlock(m, j), b))
           A == {k \in 0 .. n : \E f : ChainFrom(key, m, f, k)}
<1>1. 0 \in A
  <2> DEFINE f == [j \in 0 .. 0 |-> IV]
  <2>1. f = [j \in 0 .. 0 |-> f[j]] /\ \A j \in 0 .. 0 : f[j] = IF j = 0 THEN IV ELSE E(f[j - 1], j)
    OBVIOUS
  <2> HIDE DEF f
  <2>2. ChainFrom(key, m, f, 0)
    BY <2>1 DEF ChainFrom
  <2> QED
    BY <2>2
<1>2. ASSUME NEW k \in 0 .. n - 1, k \in A
      PROVE  k + 1 \in A
  <2>1. PICK f : ChainFrom(key, m, f, k)
    BY <1>2
  <2> DEFINE g == [j \in 0 .. k + 1 |-> IF j <= k THEN f[j] ELSE E(f[k], k + 1)]
  <2>2. \A j \in 0 .. k : f[j] = IF j = 0 THEN IV ELSE E(f[j - 1], j)
    BY <2>1 DEF ChainFrom
  <2> HIDE DEF E
  <2>3. /\ g = [j \in 0 .. k + 1 |-> g[j]] /\ \A j \in 0 .. k : g[j] = f[j]
        /\ g[k + 1] = E(f[k], k + 1)
    OBVIOUS
  <2> HIDE DEF g
  <2>4. ASSUME NEW j \in 0 .. k + 1
        PROVE  g[j] = IF j = 0 THEN IV ELSE E(g[j - 1], j)
    <3>1. CASE j = 0
      <4>1. 0 \in 0 .. k
        OBVIOUS
      <4> QED
        BY <2>2, <2>3, <3>1, <4>1
    <3>2. CASE j \in 1 .. k
      <4>1. j - 1 \in 0 .. k /\ j \in 0 .. k /\ j # 0
        BY <3>2
      <4> QED
        BY <2>2, <2>3, <4>1
    <3>3. CASE j = k + 1
      <4>1. j - 1 = k /\ k \in 0 .. k /\ j # 0
        BY <3>3
      <4> QED
        BY <2>3, <3>3, <4>1
    <3> QED
      BY <3>1, <3>2, <3>3
  <2>5. ChainFrom(key, m, g, k + 1)
    BY <2>3, <2>4 DEF ChainFrom, E
  <2> QED
    BY <2>5
<1> HIDE DEF A
<1>3. n \in A
  BY <1>1, <1>2, UpTo
<1>4. \E f : ChainFrom(key, m, f, n)
  BY <1>3 DEF A
<1>5. Chaining(key, m, n) = CHOOSE f : ChainFrom(key, m, f, n)
  BY DEF Chaining, ChainFrom
<1> QED
  BY <1>4, <1>5

\* A whole number of blocks.
LEMMA CeilOfMultiple ==
  ASSUME NEW k \in Nat, NEW d \in Nat \ {0}
  PROVE  Ceil(k * d, d) = k
<1> DEFINE y == k * d
           m == y + d - 1
<1>1. y \in Nat
  OBVIOUS
<1> DEFINE r == d - 1
<1>2. r \in Nat /\ r < d
  OBVIOUS
<1> HIDE DEF y, r
<1>3. m = y + r /\ m \in Nat
  BY <1>1, <1>2 DEF r
<1> HIDE DEF m
<1>4. m = (k * d) + r
  BY <1>3 DEF y
<1>5. m \div d = k
  BY <1>2, <1>3, <1>4, QuotientUnique
<1> QED
  BY <1>5 DEF Ceil, m, y

\* What goes on like the ciphertext and is as long is the ciphertext.
LEMMA ReferenceIs ==
  ASSUME NEW mode \in Modes, NEW key, NEW m, Sequence(m), NEW U,
         Enciphered(mode, key, Whole(mode, m), U), Len(U) = Len(Whole(mode, m))
  PROVE  U = ReferenceBlocks(mode, key, m)
<1> DEFINE w == Whole(mode, m)
           l == Len(w)
           n == Ceil(l, CipherBlock)
           chain == Chaining(key, w, n)
           Out(j) == IF mode = "CBC" THEN chain[j]
                     ELSE XorBlock(TextBlock(w, j), Keystream(key, (j - 1) % CounterWraps))
           R == ReferenceBlocks(mode, key, m)
<1>1. CipherBlock \in Nat \ {0}
  BY CipherBlockIs
<1>2. Sequence(U) /\ Len(U) = l /\ l \in Nat /\ U = [i \in 1 .. l |-> U[i]]
  BY SequenceIs DEF Enciphered, Converted
<1>3. R = [i \in 1 .. l |-> Out(((i - 1) \div CipherBlock) + 1)[((i - 1) % CipherBlock) + 1]]
  BY DEF ReferenceBlocks
<1>4. \A j \in Nat \ {0} : \A i \in 1 .. CipherBlock :
         (j - 1) * CipherBlock + i <= l =>
            U[(j - 1) * CipherBlock + i] = OutBlock("encrypt", mode, key, w, U, j)[i]
  BY <1>2 DEF Enciphered, Converted
<1>5. ASSUME mode = "CBC", NEW j \in Nat \ {0}, NEW i \in 1 .. CipherBlock,
             (j - 1) * CipherBlock + i <= l
      PROVE  OutBlock("encrypt", mode, key, w, U, j) = chain[j]
  <2>1. PICK k \in Nat \ {0} : l = k * CipherBlock
    <3>1. w = m \o Pads(m)
      BY <1>5, PadIs
    <3>2. \E k \in Nat \ {0} : Len(m \o Pads(m)) = k * CipherBlock
      BY PadIs
    <3> HIDE DEF w
    <3> QED
      BY <3>1, <3>2
  <2>2. n = k
    BY <1>1, <2>1, CeilOfMultiple
  <2>3. \A b \in 0 .. k : chain[b] = IF b = 0 THEN IV
                                     ELSE encryptBlock(key, XorBlock(TextBlock(w, b), chain[b - 1]))
    <3>1. ChainFrom(key, w, chain, n)
      <4> HIDE DEF n, w
      <4> QED
        BY <2>2, ChainingDef
    <3> HIDE DEF chain, w, n
    <3> QED
      BY <2>2, <3>1 DEF ChainFrom
  <2> DEFINE S == {b \in 0 .. k : chain[b] = IF b = 0 THEN IV ELSE TextBlock(U, b)}
  <2> HIDE DEF chain, w, l, n
  <2>4. 0 \in S
    BY <2>3
  <2>5. ASSUME NEW b \in 1 .. k, b - 1 \in S
        PROVE  chain[b] = OutBlock("encrypt", mode, key, w, U, b)
    <3>1. chain[b] = encryptBlock(key, XorBlock(TextBlock(w, b), chain[b - 1]))
      BY <2>3
    <3>2. chain[b - 1] = IF b = 1 THEN IV ELSE TextBlock(U, b - 1)
      BY <2>5
    <3> QED
      BY <1>5, <3>1, <3>2 DEF OutBlock
  <2>6. ASSUME NEW b \in 0 .. k - 1, b \in S
        PROVE  b + 1 \in S
    <3> DEFINE a == b + 1
    <3>1. a \in 1 .. k /\ a - 1 = b /\ a \in Nat \ {0}
      OBVIOUS
    <3> HIDE DEF a
    <3>2. chain[a] = OutBlock("encrypt", mode, key, w, U, a)
      BY <2>5, <2>6, <3>1
    <3> DEFINE e == OutBlock("encrypt", mode, key, w, U, a)
    <3>3. IsBlock(e)
      BY <1>5 DEF IsBlock, OutBlock, encryptBlock
    <3> HIDE DEF e
    <3>4. a * CipherBlock <= l /\ a * CipherBlock \in Nat
      <4>1. a \in Nat /\ k \in Nat /\ a <= k
        BY <3>1
      <4> QED
        BY <1>1, <2>1, <4>1, TimesMonotonic
    <3>5. \A c \in 1 .. CipherBlock : (a - 1) * CipherBlock + c <= l
      <4>1. (a - 1) * CipherBlock \in Nat /\ (a - 1) * CipherBlock + CipherBlock = a * CipherBlock
        BY <1>1, <3>1, BlockOffset
      <4> DEFINE z == (a - 1) * CipherBlock
                 y == a * CipherBlock
      <4>2. z \in Nat /\ z + CipherBlock = y /\ y <= l
        BY <3>4, <4>1
      <4> HIDE DEF z, y
      <4> SUFFICES ASSUME NEW c \in 1 .. CipherBlock PROVE z + c <= l
        BY DEF z
      <4> QED
        BY <1>1, <1>2, <4>2
    <3>6. \A c \in 1 .. CipherBlock : U[(a - 1) * CipherBlock + c] = e[c]
      BY <1>4, <3>1, <3>5 DEF e
    <3>7. TextBlock(U, a) = e
      BY <1>2, <3>1, <3>3, <3>4, <3>6, TextBlockIs
    <3>8. chain[a] = TextBlock(U, a) /\ a \in 0 .. k /\ a # 0
      BY <3>1, <3>2, <3>7 DEF e
    <3>9. a \in S
      BY <3>8
    <3> QED
      BY <3>9 DEF a
  <2> HIDE DEF S
  <2>7. \A b \in 0 .. k : b \in S
    BY <2>4, <2>6, UpTo
  <2>8. j \in 1 .. k
    <3>1. l <= k * CipherBlock
      BY <1>2, <2>1
    <3>2. (j - 1) * CipherBlock + i <= 0 * CipherBlock + l /\ 0 \in Nat
      BY <1>1, <1>2, <1>5
    <3>3. \/ j <= 0 /\ (j - 1) * CipherBlock + i \in 1 .. 0 * CipherBlock
          \/ j - 0 \in 1 .. k
      BY <1>2, <3>1, <3>2, BlockOfByte
    <3> QED
      BY <3>3
  <2>9. j - 1 \in 0 .. k
    BY <2>8
  <2> QED
    BY <2>5, <2>7, <2>8, <2>9
<1>6. ASSUME NEW i \in 1 .. l
      PROVE  U[i] = R[i]
  <2> DEFINE j == ((i - 1) \div CipherBlock) + 1
             k == ((i - 1) % CipherBlock) + 1
  <2>1. j \in Nat \ {0} /\ k \in 1 .. CipherBlock /\ i = (j - 1) * CipherBlock + k
    <3>1. i \in Nat \ {0}
      BY <1>2
    <3> QED
      BY <1>1, <3>1, BlockPlace
  <2>2. R[i] = Out(j)[k]
    BY <1>3
  <2> HIDE DEF j, k, Out, R, chain
  <2>3. (j - 1) * CipherBlock + k <= l
    BY <1>2, <2>1
  <2>4. U[i] = OutBlock("encrypt", mode, key, w, U, j)[k]
    BY <1>4, <2>1, <2>3
  <2>5. OutBlock("encrypt", mode, key, w, U, j) = Out(j)
    <3>1. CASE mode = "CBC"
      BY <1>5, <2>1, <2>3, <3>1 DEF Out
    <3>2. CASE mode # "CBC"
      BY <3>2 DEF OutBlock, Out, Modes
    <3> QED
      BY <3>1, <3>2
  <2> QED
    BY <2>2, <2>4, <2>5
<1>7. R = [i \in 1 .. l |-> R[i]]
  BY <1>3
<1> HIDE DEF R, l
<1>8. U = R
  BY <1>2, <1>6, <1>7
<1> QED
  BY <1>8 DEF R

-----------------------------------------------------------------------------
\* What a hasher holds, and the steps of a hash.

\* What a hasher object consists of.
HasherFields == {"data", "nDataBytes", "hash"}

\* A hasher between two operations, whatever pieces it was fed.
HasherOk(h) ==
    /\ DOMAIN h = HasherFields
    /\ WordArray(h.data) /\ Sequence(h.hash)

\* _process leaves less than a block.
LEMMA CompressedIs ==
  ASSUME NEW h, HasherOk(h)
  PROVE  /\ HasherOk(Compressed(h)) /\ Compressed(h).data.sigBytes < HashBlock
         /\ HashBlock <= h.data.sigBytes => Compressed(h).hash # <<>>
<1> DEFINE t == h.data.sigBytes
           n == t \div HashBlock
           new == Blocks(h.data, HashBlock, n)
           c == Compressed(h)
<1>1. /\ DOMAIN h = HasherFields /\ WordArray(h.data) /\ Sequence(h.hash) /\ t \in Nat
      /\ HashBlock \in Nat \ {0} /\ HashBlock % WordBytes = 0
  BY HashBlockIs DEF HasherOk, WordArray, IsWordArray
<1>2. /\ n \in Nat /\ n * HashBlock \in Nat /\ n * HashBlock <= t /\ t - n * HashBlock < HashBlock
      /\ BlocksReady(h.data, HashBlock, FALSE, 0) = n
  <2>1. n - 0 = n /\ n - 0 \in Int /\ n >= 0
    BY <1>1, Division
  <2>2. BlocksReady(h.data, HashBlock, FALSE, 0) = n
    <3>1. Max({n - 0, 0}) = n
      BY <2>1, MaxZero
    <3> QED
      BY <3>1 DEF BlocksReady
  <2> DEFINE r == t % HashBlock
  <2>3. n \in Nat /\ r \in Nat /\ r < HashBlock /\ t = (n * HashBlock) + r
    BY <1>1, Division
  <2> HIDE DEF n, r, t
  <2>4. n * HashBlock \in Nat
    BY <1>1, <2>3
  <2> DEFINE x == n * HashBlock
  <2>5. x \in Nat /\ t = x + r
    BY <2>3, <2>4
  <2> HIDE DEF x
  <2>6. x <= t /\ t - x < HashBlock
    BY <2>3, <2>5
  <2> QED
    BY <2>2, <2>3, <2>5, <2>6 DEF x, n, t
<1>3. /\ c.hash = h.hash \o new /\ c.data = Rest(h.data, HashBlock, n)
      /\ DOMAIN c = HasherFields
  BY <1>1, <1>2 DEF Compressed, HasherFields
<1> HIDE DEF n
<1>4. WordArray(c.data) /\ c.data.sigBytes = t - n * HashBlock
  <2>1. /\ WordArray(Rest(h.data, HashBlock, n))
        /\ Rest(h.data, HashBlock, n).sigBytes = IF n * HashBlock <= h.data.sigBytes
                                                 THEN h.data.sigBytes - n * HashBlock ELSE 0
    <3>1. HashBlock \in Nat
      BY <1>1
    <3> QED
      BY <1>1, <1>2, <3>1, RestIs
  <2> QED
    BY <1>2, <1>3, <2>1
<1>5. Sequence(new) /\ Len(new) = n
  <2>1. new = [b \in 1 .. n |-> new[b]]
    BY DEF Blocks
  <2> HIDE DEF new
  <2> QED
    BY <1>2, <2>1, SequenceOver
<1>6. Sequence(c.hash) /\ Len(c.hash) = Len(h.hash) + n /\ Len(h.hash) \in Nat
  <2> HIDE DEF new
  <2>1. Sequence(h.hash \o new) /\ Len(h.hash \o new) = Len(h.hash) + n
    BY <1>1, <1>5, SequenceConcat
  <2> QED
    BY <1>1, <1>3, <2>1, SequenceIs
<1>7. ASSUME HashBlock <= t
      PROVE  c.hash # <<>>
  <2>1. n # 0
    <3> SUFFICES ASSUME n = 0 PROVE FALSE
      OBVIOUS
    <3>1. n * HashBlock = 0
      BY <1>1
    <3> QED
      BY <1>1, <1>2, <1>7, <3>1
  <2>2. Len(c.hash) # 0
    BY <1>2, <1>6, <2>1
  <2> QED
    BY <2>2, EmptyIs
<1> HIDE DEF c, t
<1>8. HasherOk(c) /\ c.data.sigBytes < HashBlock
  BY <1>2, <1>3, <1>4, <1>6 DEF HasherOk
<1> QED
  BY <1>7, <1>8 DEF c, t

\* A piece for a hasher, and the padding.
LEMMA AppendedIs ==
  ASSUME NEW h, HasherOk(h), NEW p, WordArray(p)
  PROVE  HasherOk(Appended(h, p))
<1>1. WordArray(concat(h.data, p))
  BY ConcatIs DEF HasherOk
<1>2. /\ Appended(h, p).data = concat(h.data, p) /\ Appended(h, p).hash = h.hash
      /\ DOMAIN Appended(h, p) = HasherFields
  BY DEF Appended, HasherOk, HasherFields
<1> QED
  BY <1>1, <1>2 DEF HasherOk

\* The padding leaves a block at least.
LEMMA PaddedOk ==
  ASSUME NEW h, HasherOk(h)
  PROVE  HasherOk(Padded(h)) /\ HashBlock <= Padded(h).data.sigBytes
<1> DEFINE t == h.data.sigBytes
           v == PaddedTo(t)
           k == ((t + LengthBytes) \div HashBlock) + 1
           f(i) == CASE i = v -> {<<"length", h.nDataBytes>>}
                     [] i > v - 2 * WordBytes /\ i < v -> Zero
                     [] i = t + 1 -> ByteAt(h.data, i) \cup {<<"0x80">>}
                     [] OTHER -> ByteAt(h.data, i)
           w == [i \in 1 .. v |-> f(i)]
           d == [words |-> w, sigBytes |-> v]
           p == Padded(h)
<1>0. /\ p.data = d /\ p.hash = h.hash /\ DOMAIN p = HasherFields /\ Sequence(h.hash)
  BY DEF Padded, PaddedTo, LengthBytes, HasherOk, HasherFields
<1>5. w = [i \in 1 .. v |-> w[i]]
  OBVIOUS
<1> HIDE DEF w
<1>1. t \in Nat /\ HashBlock \in Nat \ {0} /\ HashBlock % WordBytes = 0 /\ WordBytes \in Nat \ {0}
  BY HashBlockIs DEF HasherOk, WordArray, IsWordArray
<1> HIDE DEF t
<1>2. v \in Nat /\ v = k * HashBlock /\ k \in Nat \ {0}
  BY <1>1, PaddedToIs
<1> HIDE DEF k, v
<1>3. v % WordBytes = 0
  <2>1. k \in Nat /\ HashBlock \in Nat /\ HashBlock % WordBytes = 0 /\ WordBytes \in Nat \ {0}
    BY <1>1, <1>2
  <2>2. (k * HashBlock) % WordBytes = 0
    BY <2>1, MultipleTimes
  <2> QED
    BY <1>2, <2>2
<1>4. HashBlock <= v
  <2>1. 1 * HashBlock <= k * HashBlock
    BY <1>1, <1>2, TimesMonotonic
  <2>2. 1 * HashBlock = HashBlock
    BY <1>1
  <2> QED
    BY <1>2, <2>1, <2>2
<1>6. Sequence(w) /\ Len(w) = v
  BY <1>2, <1>5, SequenceOver
<1>7. WordArray(d)
  BY <1>2, <1>3, <1>6 DEF WordArray, IsWordArray
<1> HIDE DEF d, p
<1> QED
  BY <1>0, <1>4, <1>7 DEF HasherOk, d, p

\* What a hasher holds between two operations.
HasherHolds ==
    /\ HasherOk(hasher) /\ hasher.data.sigBytes < HashBlock
    /\ Sequence(message) /\ excess \in BOOLEAN
    /\ digest = None /\ ~excess =>
          /\ hasher.nDataBytes = Len(message)
          /\ \E q \in Nat : Hashing(hasher, message, q)
    /\ DigestOfMessage

\* A hash begins with a new hasher.
LEMMA HashInitHolds ==
  ASSUME NEW q, q = 0
  PROVE  HasherOk(NewHasher) /\ Hashing(NewHasher, <<>>, q)
         /\ NewHasher.nDataBytes = Len(<<>>) /\ NewHasher.data.sigBytes < HashBlock
<1>1. /\ WordArray(Empty) /\ Empty.sigBytes = 0 /\ Clean(Empty)
      /\ Sequence(<<>>) /\ Len(<<>>) = 0 /\ HashBlock \in Nat \ {0}
  BY EmptyIs, HashBlockIs
<1>2. /\ NewHasher.data = Empty /\ NewHasher.hash = <<>> /\ NewHasher.nDataBytes = 0
      /\ DOMAIN NewHasher = HasherFields
  BY DEF NewHasher, HasherFields
<1>3. q * HashBlock = 0
  BY <1>1
<1>4. \A i \in Nat \ {0} : ByteAt(Empty, i) = Zero
  BY <1>1 DEF Clean
<1>5. Holds(Empty, <<>>, q * HashBlock)
  BY <1>1, <1>3, <1>4 DEF Holds
<1>6. MessageBlocks(<<>>, q) = <<>>
  <2>1. MessageBlocks(<<>>, q) = [b \in 1 .. 0 |-> MessageBlocks(<<>>, q)[b]]
    BY DEF MessageBlocks
  <2>2. Sequence(MessageBlocks(<<>>, q)) /\ Len(MessageBlocks(<<>>, q)) = 0
    BY <2>1, SequenceOver
  <2>3. PICK S : MessageBlocks(<<>>, q) \in Seq(S)
    BY <2>2 DEF Sequence
  <2> QED
    BY <2>2, <2>3
<1> QED
  BY <1>1, <1>2, <1>5, <1>6 DEF HasherOk, Hashing, HasherFields

\* What a step takes.
LEMMA TakesIs ==
  ASSUME HasherHolds, NEW p, WordArray(p), Takes(p)
  PROVE  /\ digest = None /\ Sequence(message') /\ excess' \in BOOLEAN
         /\ message' = message \o Bytes(p) /\ Len(message') = Len(message) + p.sigBytes
         /\ ~excess' => ~excess /\ Trim(p)
<1>1. Sequence(Bytes(p)) /\ Len(Bytes(p)) = p.sigBytes
  BY BytesIs
<1>2. Sequence(message) /\ excess \in BOOLEAN
  BY DEF HasherHolds
<1>3. /\ digest = None /\ message' = message \o Bytes(p) /\ excess' = (excess \/ Exceeds(p))
  BY DEF Takes
<1>4. excess' \in BOOLEAN
  BY <1>3
<1>5. Exceeds(p) <=> ~Trim(p)
  BY ExceedsIs
<1>6. Sequence(message \o Bytes(p)) /\ Len(message \o Bytes(p)) = Len(message) + p.sigBytes
  BY <1>1, <1>2, SequenceConcat
<1> QED
  BY <1>3, <1>4, <1>5, <1>6

\* The steps of a hash, one by one: update, finalize, a new hasher, reset.
LEMMA UpdateHolds ==
  ASSUME HasherHolds, NEW p, WordArray(p), HashUpdate(p)
  PROVE  HasherHolds'
<1> DEFINE a == Appended(hasher, p)
           c == Compressed(a)
           e == message \o Bytes(p)
<1>1. /\ digest = None /\ Sequence(message') /\ excess' \in BOOLEAN
      /\ message' = e /\ Len(message') = Len(message) + p.sigBytes
      /\ ~excess' => ~excess /\ Trim(p)
  BY TakesIs DEF HashUpdate
<1>2. hasher' = c /\ digest' = digest
  BY DEF HashUpdate
<1>3. HasherOk(a)
  BY AppendedIs DEF HasherHolds
<1>4. HasherOk(c) /\ c.data.sigBytes < HashBlock
  <2> HIDE DEF a
  <2> QED
    BY <1>3, CompressedIs
<1>5. ASSUME ~excess'
      PROVE  c.nDataBytes = Len(message') /\ \E q \in Nat : Hashing(c, message', q)
  <2>1. PICK q \in Nat : Hashing(hasher, message, q) /\ hasher.nDataBytes = Len(message)
    BY <1>1, <1>5 DEF HasherHolds
  <2>2. Hashing(a, e, q) /\ a.nDataBytes = hasher.nDataBytes + p.sigBytes
    <3>1. Trim(p) /\ Hashing(hasher, message, q)
      BY <1>1, <1>5, <2>1
    <3> HIDE DEF c
    <3>2. /\ Appended(hasher, p).nDataBytes = hasher.nDataBytes + p.sigBytes
          /\ Hashing(Appended(hasher, p), message \o Bytes(p), q)
      <4> HIDE DEF a, e
      <4> QED
        BY <3>1, AppendedHashes
    <3> QED
      BY <3>2
  <2> DEFINE n == a.data.sigBytes \div HashBlock
  <2> HIDE DEF a, e
  <2>3. Hashing(c, e, q + n) /\ n \in Nat /\ c.nDataBytes = a.nDataBytes
    BY <2>2, CompressedHashes
  <2> HIDE DEF n, c
  <2>4. q + n \in Nat
    BY <2>3
  <2> QED
    BY <1>1, <2>1, <2>2, <2>3, <2>4
<1> HIDE DEF c
<1> QED
  BY <1>1, <1>2, <1>4, <1>5 DEF HasherHolds, DigestOfMessage

\* finalize.
LEMMA FinalizeHolds ==
  ASSUME HasherHolds, NEW p, WordArray(p), HashFinalize(p)
  PROVE  HasherHolds'
<1> DEFINE a == Appended(hasher, p)
           s == Padded(a)
           c == Compressed(s)
           e == message \o Bytes(p)
<1>1. /\ digest = None /\ Sequence(message') /\ excess' \in BOOLEAN
      /\ message' = e /\ Len(message') = Len(message) + p.sigBytes
      /\ ~excess' => ~excess /\ Trim(p)
  BY TakesIs DEF HashFinalize
<1>2. hasher' = c /\ digest' = c.hash
  BY DEF HashFinalize
<1>3. HasherOk(a)
  BY AppendedIs DEF HasherHolds
<1>4. HasherOk(s) /\ HashBlock <= s.data.sigBytes
  <2> HIDE DEF a
  <2> QED
    BY <1>3, PaddedOk
<1>5. HasherOk(c) /\ c.data.sigBytes < HashBlock /\ c.hash # <<>>
  <2> HIDE DEF s
  <2> QED
    BY <1>4, CompressedIs
<1>6. ASSUME ~excess'
      PROVE  c.hash = ReferenceDigest(message')
  <2>1. PICK q \in Nat : Hashing(hasher, message, q) /\ hasher.nDataBytes = Len(message)
    BY <1>1, <1>6 DEF HasherHolds
  <2>2. c.hash = ReferenceDigest(e)
    BY <1>1, <1>6, <2>1, FinalizeHashes
  <2> QED
    BY <1>1, <2>2
<1> HIDE DEF c
<1> QED
  BY <1>1, <1>2, <1>5, <1>6 DEF HasherHolds, DigestOfMessage, None

\* A new hasher.
LEMMA NewHolds ==
  ASSUME hasher = NewHasher, message = <<>>, excess = FALSE, digest = None
  PROVE  HasherHolds
<1>1. /\ HasherOk(NewHasher) /\ Hashing(NewHasher, <<>>, 0)
      /\ NewHasher.nDataBytes = Len(<<>>) /\ NewHasher.data.sigBytes < HashBlock
  BY HashInitHolds
<1>2. Sequence(<<>>) /\ 0 \in Nat
  BY EmptyIs
<1> QED
  BY <1>1, <1>2 DEF HasherHolds, DigestOfMessage

\* reset.
LEMMA ResetHolds ==
  ASSUME HashReset
  PROVE  HasherHolds'
<1>1. /\ HasherOk(NewHasher) /\ Hashing(NewHasher, <<>>, 0)
      /\ NewHasher.nDataBytes = Len(<<>>) /\ NewHasher.data.sigBytes < HashBlock
  BY HashInitHolds
<1>2. Sequence(<<>>) /\ 0 \in Nat
  BY EmptyIs
<1> QED
  BY <1>1, <1>2 DEF HasherHolds, DigestOfMessage, HashReset

\* The pieces that are made one after the other.
LEMMA PieceIs ==
  ASSUME NEW n \in Nat, NEW m, Len(m) \in Nat, NEW name
  PROVE  LET s == [i \in 1 .. n |-> {<<name, Len(m) + i>>}]
         IN  /\ Sequence(s) /\ Len(s) = n /\ WordArray(Create(s)) /\ Trim(Create(s))
             /\ Bytes(Create(s)) = s /\ Create(s).sigBytes = n
<1> DEFINE s == [i \in 1 .. n |-> {<<name, Len(m) + i>>}]
<1>1. s = [i \in 1 .. n |-> s[i]]
  OBVIOUS
<1> HIDE DEF s
<1>2. Sequence(s) /\ Len(s) = n
  BY <1>1, SequenceOver
<1>3. WordArray(Create(s)) /\ Trim(Create(s)) /\ Bytes(Create(s)) = s /\ Create(s).sigBytes = n
  BY <1>2, BytesCreate
<1> QED
  BY <1>2, <1>3 DEF s

\* Every step of a hash.
LEMMA HashStepHolds ==
  ASSUME HasherHolds, HashNext
  PROVE  HasherHolds'
<1>1. ASSUME NEW n \in Pieces
      PROVE  WordArray(NextPiece(n))
  <2>1. n \in Nat
    BY <1>1, HashStreamAssumption DEF HashStreamAssumption
  <2>2. Len(message) \in Nat
    BY SequenceIs DEF HasherHolds
  <2> QED
    BY <2>1, <2>2, PieceIs DEF NextPiece
<1>2. ASSUME NEW n \in Pieces, HashUpdate(NextPiece(n))
      PROVE  HasherHolds'
  BY <1>1, <1>2, UpdateHolds
<1>3. ASSUME NEW n \in Pieces, HashFinalize(NextPiece(n))
      PROVE  HasherHolds'
  BY <1>1, <1>3, FinalizeHolds
<1> QED
  BY <1>2, <1>3, ResetHolds DEF HashNext

-----------------------------------------------------------------------------
\* The format of a ciphertext, and what is read of it.

\* A part of a sequence.
LEMMA SubSeqIs ==
  ASSUME NEW w, Sequence(w), NEW p \in Nat, NEW l \in Nat, p + l <= Len(w)
  PROVE  /\ Sequence(SubSeq(w, p + 1, p + l)) /\ Len(SubSeq(w, p + 1, p + l)) = l
         /\ \A i \in 1 .. l : SubSeq(w, p + 1, p + l)[i] = w[p + i]
<1> DEFINE v == SubSeq(w, p + 1, p + l)
<1>1. PICK S : w \in Seq(S)
  BY DEF Sequence
<1>2. Len(w) \in Nat
  BY SequenceIs
<1>3. v \in Seq(S) /\ Len(v) = l /\ \A i \in 1 .. l : v[i] = w[p + i]
  <2>1. CASE l = 0
    <3>1. v = <<>>
      BY <1>1, <1>2, <2>1
    <3> QED
      BY <2>1, <3>1
  <2>2. CASE l # 0
    BY <1>1, <1>2, <2>2
  <2> QED
    BY <2>1, <2>2
<1>4. Sequence(v)
  BY <1>3 DEF Sequence
<1> QED
  BY <1>3, <1>4

\* The first part of a sequence.
LEMMA PrefixIs ==
  ASSUME NEW w, Sequence(w), NEW l \in Nat, l <= Len(w)
  PROVE  /\ Sequence(SubSeq(w, 1, l)) /\ Len(SubSeq(w, 1, l)) = l
         /\ \A i \in 1 .. l : SubSeq(w, 1, l)[i] = w[i]
<1> DEFINE v == SubSeq(w, 1, l)
<1>1. PICK S : w \in Seq(S)
  BY DEF Sequence
<1>2. Len(w) \in Nat
  BY SequenceIs
<1>3. v \in Seq(S) /\ Len(v) = l /\ \A i \in 1 .. l : v[i] = w[i]
  BY <1>1, <1>2
<1>4. Sequence(v)
  BY <1>3 DEF Sequence
<1> QED
  BY <1>3, <1>4

\* The text that begins with magic and salt, and any other.
Salted(given, salt, rest) ==
    /\ Sequence(given) /\ Len(given) = 4 * WordBytes + Len(rest)
    /\ \A i \in 1 .. 2 * WordBytes : given[i] = Magic[i] /\ given[2 * WordBytes + i] = salt[i]
    /\ \A i \in 1 .. Len(rest) : given[4 * WordBytes + i] = rest[i]

Unmarked(bytes) == Len(bytes) > 0 => bytes[1] # {<<"Salted__", 1>>}

\* The first words of a text are compared with the magic ones.
LEMMA SymbolsIs ==
  /\ Sequence(Magic) /\ Len(Magic) = 2 * WordBytes
  /\ Sequence(SaltBytes) /\ Len(SaltBytes) = 2 * WordBytes
  /\ Magic = [i \in 1 .. 2 * WordBytes |-> Magic[i]]
  /\ SaltBytes = [i \in 1 .. 2 * WordBytes |-> SaltBytes[i]]
  /\ Magic[1] = {<<"Salted__", 1>>}
  /\ 2 * WordBytes \in Nat \ {0}
<1>1. WordBytes \in Nat \ {0} /\ 2 * WordBytes \in Nat \ {0}
  BY CipherBlockIs
<1>2. Magic = [i \in 1 .. 2 * WordBytes |-> Magic[i]]
  BY DEF Magic
<1>3. SaltBytes = [i \in 1 .. 2 * WordBytes |-> SaltBytes[i]]
  BY DEF SaltBytes
<1>4. Magic[1] = {<<"Salted__", 1>>}
  <2>1. 1 \in 1 .. 2 * WordBytes
    BY <1>1
  <2> QED
    BY <2>1 DEF Magic
<1> QED
  BY <1>1, <1>2, <1>3, <1>4, SequenceOver

\* What is read of a text with a salt.
LEMMA ParseSalted ==
  ASSUME NEW s, NEW rest, Sequence(rest), Salted(s, SaltBytes, rest)
  PROVE  /\ parse(Create(s)).salt = SaltBytes
         /\ Bytes(parse(Create(s)).ciphertext) = rest
<1> DEFINE a == Create(s)
           w == a.words
           two == 2 * WordBytes
           four == 4 * WordBytes
           n == Len(rest)
<1>1. /\ WordBytes \in Nat \ {0} /\ two \in Nat \ {0} /\ four = two + two /\ n \in Nat
      /\ Sequence(s) /\ Len(s) = four + n
  BY CipherBlockIs, SequenceIs DEF Salted
<1>2. /\ WordArray(a) /\ a.sigBytes = four + n
      /\ \A i \in Nat \ {0} : ByteAt(a, i) = IF i <= four + n THEN s[i] ELSE Zero
  BY <1>1, CreateIs
<1> HIDE DEF a
<1>3. Sequence(w) /\ Len(w) \in Nat /\ four + n <= Len(w)
  BY <1>2, SequenceIs DEF WordArray, IsWordArray
<1>4. \A i \in 1 .. four + n : w[i] = s[i]
  <2>1. \A i \in 1 .. four + n : i \in Nat \ {0} /\ i <= four + n /\ i <= Len(w)
    BY <1>1, <1>3
  <2> QED
    BY <1>2, <2>1 DEF ByteAt
<1>5. /\ \A i \in 1 .. two : s[i] = Magic[i] /\ s[two + i] = SaltBytes[i]
      /\ \A i \in 1 .. n : s[four + i] = rest[i]
  BY DEF Salted
<1> HIDE DEF w, two, four, n
<1>6. SubSeq(w, 1, two) = Magic
  <2>1. two \in Nat /\ two <= Len(w)
    BY <1>1, <1>3
  <2>2. /\ Sequence(SubSeq(w, 1, two)) /\ Len(SubSeq(w, 1, two)) = two
        /\ \A i \in 1 .. two : SubSeq(w, 1, two)[i] = w[i]
    BY <1>3, <2>1, PrefixIs
  <2>3. \A i \in 1 .. two : i \in 1 .. four + n
    BY <1>1
  <2>4. \A i \in 1 .. two : SubSeq(w, 1, two)[i] = Magic[i]
    BY <1>4, <1>5, <2>2, <2>3
  <2>5. Sequence(SubSeq(w, 1, two)) /\ Len(SubSeq(w, 1, two)) = two
    BY <2>2, <2>3
  <2> DEFINE v == SubSeq(w, 1, two)
  <2> HIDE DEF v
  <2>6. Sequence(Magic) /\ Len(Magic) = two
    BY SymbolsIs DEF two
  <2>7. v = Magic
    BY <2>4, <2>5, <2>6, SequenceEqual DEF v
  <2> QED
    BY <2>7 DEF v
<1>7. SubSeq(w, two + 1, four) = SaltBytes
  <2>1. two \in Nat /\ two + two <= Len(w)
    BY <1>1, <1>3
  <2>2. /\ Sequence(SubSeq(w, two + 1, two + two)) /\ Len(SubSeq(w, two + 1, two + two)) = two
        /\ \A i \in 1 .. two : SubSeq(w, two + 1, two + two)[i] = w[two + i]
    BY <1>3, <2>1, SubSeqIs
  <2>3. \A i \in 1 .. two : two + i \in 1 .. four + n
    BY <1>1
  <2> DEFINE v == SubSeq(w, two + 1, four)
  <2>4. Sequence(v) /\ Len(v) = two /\ \A i \in 1 .. two : v[i] = SaltBytes[i]
    BY <1>1, <1>4, <1>5, <2>2, <2>3
  <2> HIDE DEF v
  <2>5. Sequence(SaltBytes) /\ Len(SaltBytes) = two
    BY SymbolsIs DEF two
  <2>6. v = SaltBytes
    BY <2>4, <2>5, SequenceEqual
  <2> QED
    BY <2>6 DEF v
<1> DEFINE u == SubSeq(w, four + 1, Len(w))
           c == [words |-> u, sigBytes |-> a.sigBytes - four]
<1>8. Len(u) = Len(w) - four /\ \A i \in 1 .. Len(w) - four : u[i] = w[four + i]
  <2> DEFINE l == Len(w) - four
  <2>1. four \in Nat /\ l \in Nat /\ four + l = Len(w)
    BY <1>1, <1>3
  <2> HIDE DEF l
  <2>2. four + l <= Len(w)
    BY <1>3, <2>1
  <2>3. /\ Len(SubSeq(w, four + 1, four + l)) = l
        /\ \A i \in 1 .. l : SubSeq(w, four + 1, four + l)[i] = w[four + i]
    BY <1>3, <2>1, <2>2, SubSeqIs
  <2> QED
    BY <2>1, <2>3 DEF l
<1> HIDE DEF u
<1>9. parse(a) = [salt |-> SaltBytes, ciphertext |-> c]
  <2>1. Len(Magic) = two /\ Len(w) >= two
    BY <1>1, <1>3, SymbolsIs DEF two
  <2> QED
    BY <1>6, <1>7, <2>1 DEF parse, w, u, four
<1>10. c.sigBytes = n /\ c.words = u
  BY <1>1, <1>2
<1> HIDE DEF c
<1>11. \A i \in 1 .. n : ByteAt(c, i) = rest[i]
  <2> SUFFICES ASSUME NEW i \in 1 .. n PROVE ByteAt(c, i) = rest[i]
    OBVIOUS
  <2>1. i <= Len(u) /\ i \in 1 .. Len(w) - four /\ four + i \in 1 .. four + n
    BY <1>1, <1>3, <1>8
  <2> QED
    BY <1>4, <1>5, <1>8, <1>10, <2>1 DEF ByteAt
<1>12. Bytes(c) = [i \in 1 .. n |-> rest[i]]
  BY <1>10, <1>11 DEF Bytes
<1>13. rest = [i \in 1 .. n |-> rest[i]]
  BY SequenceIs DEF n
<1> QED
  BY <1>9, <1>12, <1>13 DEF a

\* ... and of one without.
LEMMA ParseUnsalted ==
  ASSUME NEW s, Sequence(s), Unmarked(s)
  PROVE  parse(Create(s)).salt = <<>> /\ Bytes(parse(Create(s)).ciphertext) = s
<1> DEFINE a == Create(s)
           w == a.words
           two == 2 * WordBytes
<1>1. /\ WordArray(a) /\ a.sigBytes = Len(s) /\ Bytes(a) = s /\ Len(s) \in Nat
      /\ \A i \in Nat \ {0} : ByteAt(a, i) = IF i <= Len(s) THEN s[i] ELSE Zero
  BY CreateIs, BytesCreate
<1> HIDE DEF a
<1>2. Sequence(w) /\ Len(w) \in Nat /\ Len(Magic) = two /\ two \in Nat \ {0}
  BY <1>1, SequenceIs, SymbolsIs DEF WordArray, IsWordArray
<1> HIDE DEF w, two
<1>3. ~(Len(w) >= two /\ SubSeq(w, 1, two) = Magic)
  <2> SUFFICES ASSUME Len(w) >= two, SubSeq(w, 1, two) = Magic PROVE FALSE
    OBVIOUS
  <2>1. two \in Nat /\ two <= Len(w) /\ 1 \in 1 .. two
    BY <1>2
  <2>2. \A i \in 1 .. two : SubSeq(w, 1, two)[i] = w[i]
    BY <1>2, <2>1, PrefixIs
  <2>3. w[1] = Magic[1]
    BY <2>1, <2>2
  <2>4. ByteAt(a, 1) = w[1]
    BY <1>2 DEF ByteAt, w
  <2>5. w[1] = {<<"Salted__", 1>>}
    BY <2>3, SymbolsIs
  <2>6. Len(s) > 0
    <3> SUFFICES ASSUME Len(s) = 0 PROVE FALSE
      BY <1>1
    <3>1. ByteAt(a, 1) = {}
      BY <1>1 DEF Zero
    <3> QED
      BY <2>4, <2>5, <3>1
  <2>7. ByteAt(a, 1) = s[1]
    BY <1>1, <2>6
  <2> QED
    BY <2>4, <2>5, <2>6, <2>7 DEF Unmarked
<1>4. parse(a) = [salt |-> <<>>, ciphertext |-> a]
  BY <1>2, <1>3 DEF parse, w
<1> QED
  BY <1>1, <1>4 DEF a

\* The salt of a format.
SaltOf(format) == IF format = "salted" THEN SaltBytes ELSE <<>>

\* What is read is what was written, and the salt that was written.
LEMMA ReadsBack ==
  ASSUME NEW a, WordArray(a), NEW format \in Formats, Unmarked(Bytes(a))
  PROVE  /\ parse(stringify(format, a)).salt = SaltOf(format)
         /\ Bytes(parse(stringify(format, a)).ciphertext) = Bytes(a)
<1> DEFINE rest == Bytes(a)
           x == Create(Magic)
           y == Create(SaltBytes)
           all == concat(concat(x, y), a)
           s == Bytes(all)
           two == 2 * WordBytes
           n == Len(rest)
<1>1. Sequence(rest) /\ n \in Nat
  BY BytesIs, SequenceIs
<1>2. CASE format = "salted"
  <2>1. WordArray(x) /\ Bytes(x) = Magic /\ WordArray(y) /\ Bytes(y) = SaltBytes
    BY SymbolsIs, BytesCreate
  <2>2. stringify(format, a) = Create(s)
    BY <1>2 DEF stringify
  <2> HIDE DEF x, y, rest
  <2>3. WordArray(concat(x, y)) /\ Bytes(concat(x, y)) = Magic \o SaltBytes
    BY <2>1, ConcatIs, BytesConcat
  <2> DEFINE z == concat(x, y)
             h == Magic \o SaltBytes
  <2>4. WordArray(z) /\ Bytes(z) = h /\ all = concat(z, a)
    BY <2>3
  <2> HIDE DEF z, h, s
  <2>5. s = h \o rest
    <3>1. Bytes(concat(z, a)) = Bytes(z) \o Bytes(a)
      BY <2>4, BytesConcat
    <3> QED
      BY <2>4, <3>1 DEF s, rest
  <2>6. /\ Sequence(Magic) /\ Len(Magic) = two /\ Sequence(SaltBytes) /\ Len(SaltBytes) = two
        /\ two \in Nat \ {0}
    BY SymbolsIs
  <2>7. /\ Sequence(h) /\ Len(h) = two + two
        /\ h = [i \in 1 .. two + two |-> IF i <= two THEN Magic[i] ELSE SaltBytes[i - two]]
    <3>1. /\ Sequence(Magic \o SaltBytes) /\ Len(Magic \o SaltBytes) = two + two
          /\ Magic \o SaltBytes = [i \in 1 .. two + two |-> IF i <= two THEN Magic[i]
                                                            ELSE SaltBytes[i - two]]
      <4> HIDE DEF two, all, n
      <4>1. /\ Sequence(Magic \o SaltBytes) /\ Len(Magic \o SaltBytes) = Len(Magic) + Len(SaltBytes)
            /\ Magic \o SaltBytes
                 = [i \in 1 .. Len(Magic) + Len(SaltBytes) |->
                      IF i <= Len(Magic) THEN Magic[i] ELSE SaltBytes[i - Len(Magic)]]
        BY <2>6, SequenceConcat
      <4> QED
        BY <2>6, <4>1
    <3> QED
      BY <3>1 DEF h
  <2>8. /\ Sequence(h \o rest) /\ Len(h \o rest) = Len(h) + n
        /\ h \o rest = [i \in 1 .. Len(h) + n |-> IF i <= Len(h) THEN h[i] ELSE rest[i - Len(h)]]
    <3>1. Sequence(h) /\ Sequence(rest)
      BY <1>1, <2>7
    <3> HIDE DEF all, two
    <3> QED
      BY <3>1, SequenceConcat
  <2>9. 4 * WordBytes = two + two /\ Len(s) = (two + two) + n /\ Sequence(s)
    <3>1. WordBytes \in Nat
      BY CipherBlockIs
    <3> QED
      BY <2>5, <2>7, <2>8, <3>1
  <2> HIDE DEF two, n
  <2>10. \A i \in 1 .. (two + two) + n : s[i] = IF i <= two + two THEN h[i] ELSE rest[i - (two + two)]
    BY <2>5, <2>7, <2>8
  <2>11. \A i \in 1 .. two : s[i] = Magic[i] /\ s[two + i] = SaltBytes[i]
    <3> SUFFICES ASSUME NEW i \in 1 .. two PROVE s[i] = Magic[i] /\ s[two + i] = SaltBytes[i]
      OBVIOUS
    <3>1. /\ i \in 1 .. (two + two) + n /\ i <= two + two /\ i \in 1 .. two + two
          /\ two + i \in 1 .. (two + two) + n /\ two + i <= two + two /\ two + i \in 1 .. two + two
          /\ ~(two + i <= two) /\ (two + i) - two = i /\ i <= two
      BY <1>1, <2>6
    <3> QED
      BY <2>7, <2>10, <3>1
  <2>12. \A i \in 1 .. n : s[(two + two) + i] = rest[i]
    <3> SUFFICES ASSUME NEW i \in 1 .. n PROVE s[(two + two) + i] = rest[i]
      OBVIOUS
    <3>1. /\ (two + two) + i \in 1 .. (two + two) + n /\ ~((two + two) + i <= two + two)
          /\ ((two + two) + i) - (two + two) = i
      BY <1>1, <2>6
    <3> QED
      BY <2>10, <3>1
  <2>13. Salted(s, SaltBytes, rest)
    BY <2>9, <2>11, <2>12 DEF Salted, two, n
  <2>14. parse(Create(s)).salt = SaltBytes /\ Bytes(parse(Create(s)).ciphertext) = rest
    BY <1>1, <2>13, ParseSalted
  <2> QED
    BY <1>2, <2>2, <2>14 DEF SaltOf, rest
<1>3. CASE format # "salted"
  <2>1. stringify(format, a) = Create(rest)
    BY <1>3 DEF stringify
  <2>2. Unmarked(rest)
    OBVIOUS
  <2> HIDE DEF rest
  <2>3. parse(Create(rest)).salt = <<>> /\ Bytes(parse(Create(rest)).ciphertext) = rest
    BY <1>1, <2>2, ParseUnsalted
  <2> QED
    BY <1>3, <2>1, <2>3 DEF SaltOf, rest
<1> QED
  BY <1>2, <1>3

\* A ciphertext does not begin like a text with a salt.
PlainSymbols(m) == Sequence(m) /\ m = [i \in 1 .. Len(m) |-> {<<"plain", i>>}]

\* Its first byte is none of the magic words.
LEMMA CiphertextUnmarked ==
  ASSUME NEW mode \in Modes, NEW key, NEW m, PlainSymbols(m), NEW U,
         Enciphered(mode, key, Whole(mode, m), U)
  PROVE  Unmarked(U)
<1> SUFFICES ASSUME Len(U) > 0 PROVE U[1] # {<<"Salted__", 1>>}
  BY DEF Unmarked
<1> DEFINE w == Whole(mode, m)
           e == OutBlock("encrypt", mode, key, w, U, 1)
<1>1. CipherBlock \in Nat \ {0} /\ 1 \in 1 .. CipherBlock
  BY CipherBlockIs
<1>2. U[1] = e[1]
  <2>1. (1 - 1) * CipherBlock + 1 = 1 /\ 1 \in Nat \ {0}
    BY <1>1
  <2>2. Len(U) \in Nat /\ 1 <= Len(U)
    BY SequenceIs DEF Enciphered, Converted
  <2>3. \A j \in Nat \ {0} : \A i \in 1 .. CipherBlock :
          (j - 1) * CipherBlock + i <= Len(U) =>
             U[(j - 1) * CipherBlock + i] = OutBlock("encrypt", mode, key, w, U, j)[i]
    BY DEF Enciphered, Converted
  <2> HIDE DEF w
  <2> QED
    BY <1>1, <2>1, <2>2, <2>3
<1>3. CASE mode = "CBC"
  <2> DEFINE b == XorBlock(TextBlock(w, 1), IV)
             t == <<"E", key, b, 1>>
  <2>1. e[1] = {t}
    BY <1>1, <1>3 DEF OutBlock, encryptBlock
  <2>2. t[1] = "E" /\ <<"Salted__", 1>>[1] = "Salted__"
    OBVIOUS
  <2> HIDE DEF t, e
  <2>3. t # <<"Salted__", 1>>
    BY <2>2
  <2> QED
    BY <1>2, <2>1, <2>3
<1>4. CASE mode = "CTR"
  <2> DEFINE b == TextBlock(m, 1)
             k == Keystream(key, (1 - 1) % CounterWraps)
             t == <<"E", key, (1 - 1) % CounterWraps, 1>>
  <2>1. e[1] = SymDiff(b[1], {t})
    BY <1>1, <1>4 DEF OutBlock, XorBlock, Keystream, Whole
  <2>2. b[1] = {} \/ b[1] = {<<"plain", 1>>}
    <3>1. b[1] = IF (1 - 1) * CipherBlock + 1 <= Len(m) THEN m[(1 - 1) * CipherBlock + 1] ELSE Zero
      BY <1>1 DEF TextBlock
    <3>2. (1 - 1) * CipherBlock + 1 = 1
      BY <1>1
    <3>3. b[1] = IF 1 <= Len(m) THEN m[1] ELSE Zero
      BY <3>1, <3>2
    <3>4. Len(m) \in Nat
      BY SequenceIs DEF PlainSymbols
    <3> HIDE DEF b
    <3> QED
      BY <3>3, <3>4 DEF Zero, PlainSymbols
  <2>3. t[1] = "E" /\ <<"Salted__", 1>>[1] = "Salted__" /\ <<"plain", 1>>[1] = "plain"
    OBVIOUS
  <2> HIDE DEF t, e, b
  <2>4. t # <<"Salted__", 1>> /\ t # <<"plain", 1>>
    BY <2>3
  <2>5. t \in e[1]
    BY <2>1, <2>2, <2>4 DEF SymDiff
  <2> QED
    BY <1>2, <2>4, <2>5
<1> QED
  BY <1>3, <1>4 DEF Modes

-----------------------------------------------------------------------------
\* What a decryptor gives.

\* A byte of a text is in a block of it.
LEMMA ByteInBlock ==
  ASSUME NEW m, NEW j \in Nat \ {0}, NEW i \in 1 .. CipherBlock
  PROVE  (j - 1) * CipherBlock + i <= Len(m) => TextBlock(m, j)[i] = m[(j - 1) * CipherBlock + i]
BY DEF TextBlock

\* A padded message has whole blocks only.
WholeBlocks(m) == \E k \in Nat : Len(m) = k * CipherBlock

\* A block of whole blocks has all its bytes.
LEMMA BlockInside ==
  ASSUME NEW m, WholeBlocks(m), NEW j \in Nat \ {0}, NEW i \in 1 .. CipherBlock
  PROVE  (j - 1) * CipherBlock + i <= Len(m) =>
            /\ j * CipherBlock <= Len(m)
            /\ \A h \in 1 .. CipherBlock : (j - 1) * CipherBlock + h <= Len(m)
<1> SUFFICES ASSUME (j - 1) * CipherBlock + i <= Len(m)
             PROVE  /\ j * CipherBlock <= Len(m)
                    /\ \A h \in 1 .. CipherBlock : (j - 1) * CipherBlock + h <= Len(m)
  OBVIOUS
<1>1. PICK k \in Nat : Len(m) = k * CipherBlock
  BY DEF WholeBlocks
<1>2. CipherBlock \in Nat \ {0} /\ k * CipherBlock \in Nat
  <2>1. CipherBlock \in Nat \ {0}
    BY CipherBlockIs
  <2> QED
    BY <2>1
<1>3. j - 0 \in 1 .. k
  <2> DEFINE l == k * CipherBlock
  <2>1. l \in Nat /\ l <= k * CipherBlock /\ 0 \in Nat
    BY <1>2
  <2>2. (j - 1) * CipherBlock + i <= 0 * CipherBlock + l
    BY <1>1, <1>2
  <2> HIDE DEF l
  <2>3. \/ j <= 0 /\ (j - 1) * CipherBlock + i \in 1 .. 0 * CipherBlock
        \/ j - 0 \in 1 .. k
    BY <2>1, <2>2, BlockOfByte
  <2> QED
    BY <2>3
<1>4. j * CipherBlock <= k * CipherBlock
  BY <1>2, <1>3, TimesMonotonic
<1>5. (j - 1) * CipherBlock \in Nat /\ (j - 1) * CipherBlock + CipherBlock = j * CipherBlock
  BY <1>2, BlockOffset
<1> DEFINE z == (j - 1) * CipherBlock
           y == j * CipherBlock
<1>6. z \in Nat /\ z + CipherBlock = y /\ y <= Len(m) /\ Len(m) \in Nat
  BY <1>1, <1>2, <1>4, <1>5
<1> HIDE DEF z, y
<1>7. \A h \in 1 .. CipherBlock : z + h <= Len(m)
  BY <1>2, <1>6
<1> QED
  BY <1>6, <1>7 DEF z, y

\* What the blocks of a ciphertext decrypt to is the message with its padding.
LEMMA DecryptsTo ==
  ASSUME NEW mode \in Modes, NEW key, NEW P, NEW C, NEW T, Sequence(P),
         Enciphered(mode, key, P, C), Converted("decrypt", mode, key, C, T),
         mode = "CBC" => WholeBlocks(P)
  PROVE  Len(C) = Len(P) /\ Len(T) = Len(P) => T = P
<1> SUFFICES ASSUME Len(C) = Len(P), Len(T) = Len(P) PROVE T = P
  OBVIOUS
<1>1. Sequence(C) /\ Sequence(T) /\ Len(P) \in Nat /\ CipherBlock \in Nat \ {0}
  BY SequenceIs, CipherBlockIs DEF Enciphered, Converted
<1>2. ASSUME NEW j \in Nat \ {0}, NEW i \in 1 .. CipherBlock, (j - 1) * CipherBlock + i <= Len(P)
      PROVE  T[(j - 1) * CipherBlock + i] = P[(j - 1) * CipherBlock + i]
  <2> DEFINE z == (j - 1) * CipherBlock
  <2>1. T[z + i] = OutBlock("decrypt", mode, key, C, T, j)[i]
    BY <1>2 DEF Converted
  <2>2. \A h \in 1 .. CipherBlock :
           z + h <= Len(P) => C[z + h] = OutBlock("encrypt", mode, key, P, C, j)[h]
    BY DEF Enciphered, Converted
  <2>3. TextBlock(P, j)[i] = P[z + i]
    BY <1>2, ByteInBlock
  <2>4. CASE mode = "CBC"
    <3> DEFINE prev == IF j = 1 THEN IV ELSE TextBlock(C, j - 1)
               b == TextBlock(P, j)
               e == encryptBlock(key, XorBlock(b, prev))
    <3>1. OutBlock("encrypt", mode, key, P, C, j) = e
      BY <2>4 DEF OutBlock
    <3>2. OutBlock("decrypt", mode, key, C, T, j) = XorBlock(decryptBlock(key, TextBlock(C, j)), prev)
      BY <2>4 DEF OutBlock
    <3>3. TextBlock(C, j) = e
      <4>1. /\ j * CipherBlock <= Len(C) /\ Len(C) \in Nat
            /\ \A h \in 1 .. CipherBlock : z + h <= Len(P)
        BY <1>1, <1>2, <2>4, BlockInside
      <4>2. IsBlock(e)
        BY DEF IsBlock, encryptBlock
      <4> HIDE DEF e
      <4>3. \A h \in 1 .. CipherBlock : C[(j - 1) * CipherBlock + h] = e[h]
        BY <2>2, <3>1, <4>1
      <4> QED
        BY <4>1, <4>2, <4>3, TextBlockIs
    <3> HIDE DEF prev, b
    <3>4. decryptBlock(key, TextBlock(C, j)) = XorBlock(b, prev)
      BY <3>3, DecryptsBack
    <3>5. XorBlock(XorBlock(b, prev), prev)[i] = b[i]
      BY XorTwice
    <3> QED
      BY <2>1, <2>3, <3>2, <3>4, <3>5 DEF b
  <2>5. CASE mode = "CTR"
    <3> DEFINE k == Keystream(key, (j - 1) % CounterWraps)
               b == TextBlock(P, j)
               g == TextBlock(C, j)
    <3>1. /\ OutBlock("encrypt", mode, key, P, C, j) = XorBlock(b, k)
          /\ OutBlock("decrypt", mode, key, C, T, j) = XorBlock(g, k)
      BY <2>5 DEF OutBlock
    <3>2. g[i] = C[z + i]
      BY <1>2, ByteInBlock
    <3> HIDE DEF k, b, g, z
    <3>3. C[z + i] = XorBlock(b, k)[i]
      BY <1>2, <2>2, <3>1 DEF z
    <3>4. XorBlock(g, k)[i] = SymDiff(g[i], k[i]) /\ XorBlock(b, k)[i] = SymDiff(b[i], k[i])
      BY DEF XorBlock
    <3>5. SymDiff(SymDiff(b[i], k[i]), k[i]) = b[i]
      BY DEF SymDiff
    <3> QED
      BY <2>1, <2>3, <3>1, <3>2, <3>3, <3>4, <3>5 DEF b, z
  <2> QED
    BY <2>4, <2>5 DEF Modes
<1>3. ASSUME NEW n \in 1 .. Len(T)
      PROVE  T[n] = P[n]
  <2> DEFINE j == ((n - 1) \div CipherBlock) + 1
             i == ((n - 1) % CipherBlock) + 1
  <2>1. j \in Nat \ {0} /\ i \in 1 .. CipherBlock /\ n = (j - 1) * CipherBlock + i
    <3>1. n \in Nat \ {0}
      BY <1>1
    <3> QED
      BY <1>1, <3>1, BlockPlace
  <2> HIDE DEF i, j
  <2>2. (j - 1) * CipherBlock + i <= Len(P)
    BY <1>1, <2>1
  <2> QED
    BY <1>2, <2>1, <2>2
<1> QED
  BY <1>1, <1>3, SequenceEqual

\* The count of the padding is taken off.
LEMMA UnpadIs ==
  ASSUME NEW a, WordArray(a), NEW n \in 1 .. CipherBlock
  PROVE  a.sigBytes % WordBytes = 0 /\ CipherBlock <= a.sigBytes
           /\ ByteAt(a, a.sigBytes) = {<<"pad", n>>} =>
            /\ WordArray(unpad(a)) /\ unpad(a).sigBytes = a.sigBytes - n
            /\ \A i \in Nat \ {0} : ByteAt(unpad(a), i) = ByteAt(a, i)
<1> SUFFICES ASSUME a.sigBytes % WordBytes = 0, CipherBlock <= a.sigBytes,
                    ByteAt(a, a.sigBytes) = {<<"pad", n>>}
             PROVE  /\ WordArray(unpad(a)) /\ unpad(a).sigBytes = a.sigBytes - n
                    /\ \A i \in Nat \ {0} : ByteAt(unpad(a), i) = ByteAt(a, i)
  OBVIOUS
<1> DEFINE t == a.sigBytes
           last == a.words[Ceil(t, WordBytes) * WordBytes]
           ns == {k \in 1 .. CipherBlock : last = {<<"pad", k>>}}
           d == t - (IF ns = {} THEN 1 ELSE Max(ns))
<1>1. t \in Nat /\ t <= Len(a.words) /\ CipherBlock \in Nat \ {0} /\ Len(a.words) \in Nat
  BY CipherBlockIs, SequenceIs DEF WordArray, IsWordArray
<1>2. unpad(a) = [a EXCEPT !.sigBytes = d]
  BY DEF unpad
<1>3. Ceil(t, WordBytes) * WordBytes = t
  <2>1. Room(t) <= t /\ t <= Room(t) /\ Room(t) \in Nat
    <3> HIDE DEF t
    <3> QED
      BY <1>1, RoomLeast, RoomIs DEF t
  <2>2. Room(t) = t
    BY <1>1, <2>1
  <2> QED
    BY <2>2 DEF Room
<1>4. last = {<<"pad", n>>}
  <2>1. ByteAt(a, t) = a.words[t]
    BY <1>1 DEF ByteAt
  <2> QED
    BY <1>3, <2>1
<1> HIDE DEF last
<1>5. ns = {n}
  <2>1. \A k : {<<"pad", n>>} = {<<"pad", k>>} => k = n
    <3> SUFFICES ASSUME NEW k, {<<"pad", n>>} = {<<"pad", k>>} PROVE k = n
      OBVIOUS
    <3>1. <<"pad", n>> = <<"pad", k>>
      OBVIOUS
    <3> QED
      BY <3>1
  <2> QED
    BY <1>4, <2>1
<1> HIDE DEF ns
<1>6. Max(ns) = n /\ ns # {}
  <2>1. \E x \in {n} : \A y \in {n} : x >= y
    BY <1>1
  <2> QED
    BY <1>5, <2>1 DEF Max
<1>7. d = t - n /\ t - n \in Nat /\ t - n <= t
  <2>1. d = t - n
    BY <1>6
  <2> QED
    BY <1>1, <2>1
<1> HIDE DEF d
<1>8. /\ DOMAIN unpad(a) = {"words", "sigBytes"} /\ unpad(a).words = a.words
      /\ unpad(a).sigBytes = t - n
  BY <1>2, <1>7 DEF WordArray, IsWordArray
<1>9. WordArray(unpad(a))
  <2>1. t - n <= Len(a.words)
    BY <1>1, <1>7
  <2> QED
    BY <1>7, <1>8, <2>1 DEF WordArray, IsWordArray
<1> QED
  BY <1>8, <1>9 DEF ByteAt

\* A text that begins with T and goes on with y.
Continues(m, T, y) ==
    /\ Len(T) + Len(y) = Len(m)
    /\ \A i \in 1 .. Len(T) : m[i] = T[i]
    /\ \A i \in 1 .. Len(y) : m[Len(T) + i] = y[i]

\* It is the one behind the other.
LEMMA ConcatTo ==
  ASSUME NEW T, NEW y, Sequence(T), Sequence(y), NEW m, Sequence(m), Continues(m, T, y)
  PROVE  T \o y = m
<1>0. /\ Len(T) + Len(y) = Len(m)
      /\ \A i \in 1 .. Len(T) : m[i] = T[i]
      /\ \A i \in 1 .. Len(y) : m[Len(T) + i] = y[i]
  BY DEF Continues
<1> DEFINE x == Len(T)
           l == Len(y)
           U == T \o y
<1>1. x \in Nat /\ l \in Nat /\ Len(m) = x + l
  BY <1>0, SequenceIs
<1>2. /\ Sequence(U) /\ Len(U) = x + l
      /\ U = [i \in 1 .. x + l |-> IF i <= x THEN T[i] ELSE y[i - x]]
  BY SequenceConcat
<1> HIDE DEF U, x, l
<1>3. ASSUME NEW i \in 1 .. Len(U)
      PROVE  U[i] = m[i]
  <2>1. i \in 1 .. x + l /\ U[i] = IF i <= x THEN T[i] ELSE y[i - x]
    BY <1>2, <1>3
  <2>2. CASE i <= x
    BY <1>0, <1>1, <2>1, <2>2 DEF x
  <2>3. CASE ~(i <= x)
    <3>1. i - x \in 1 .. l /\ x + (i - x) = i
      BY <1>1, <2>1, <2>3
    <3>2. m[x + (i - x)] = y[i - x]
      BY <1>0, <3>1 DEF x, l
    <3> QED
      BY <2>1, <2>3, <3>1, <3>2
  <2> QED
    BY <2>2, <2>3
<1>4. U = m
  BY <1>1, <1>2, <1>3, SequenceEqual
<1> QED
  BY <1>4 DEF U

\* The last blocks of a padded text without the padding ...
LEMMA UnpadsTo ==
  ASSUME NEW m, Sequence(m), NEW T, Sequence(T), WholeBlocks(T),
         NEW a, WordArray(a), T \o Bytes(a) = Whole("CBC", m),
         Len(T) # 0 => a.sigBytes >= CipherBlock
  PROVE  a.sigBytes > 0 /\ WordArray(unpad(a)) /\ T \o Bytes(unpad(a)) = m
<1> DEFINE n == PadCount(m)
           P == m \o Pads(m)
           t == a.sigBytes
           x == Len(T)
           u == unpad(a)
<1>1. /\ n \in 1 .. CipherBlock /\ T \o Bytes(a) = P /\ Sequence(P) /\ Len(P) = Len(m) + n
      /\ \E k \in Nat \ {0} : Len(P) = k * CipherBlock
      /\ \A i \in 1 .. Len(m) : P[i] = m[i]
      /\ P[Len(m) + n] = {<<"pad", n>>}
  BY PadIs
<1>2. /\ CipherBlock \in Nat \ {0} /\ CipherBlock % WordBytes = 0 /\ WordBytes \in Nat \ {0}
      /\ Len(m) \in Nat /\ t \in Nat /\ x \in Nat
  BY CipherBlockIs, SequenceIs DEF WordArray, IsWordArray
<1>3. Sequence(Bytes(a)) /\ Len(Bytes(a)) = t /\ \A i \in 1 .. t : Bytes(a)[i] = ByteAt(a, i)
  BY BytesIs
<1>4. /\ Len(T) = x /\ Len(P) = x + t
      /\ \A i \in 1 .. x : P[i] = T[i]
      /\ \A i \in 1 .. t : P[x + i] = ByteAt(a, i)
  <2>0. /\ Len(T \o Bytes(a)) = Len(T) + Len(Bytes(a))
        /\ T \o Bytes(a) = [i \in 1 .. Len(T) + Len(Bytes(a)) |->
                                IF i <= Len(T) THEN T[i] ELSE Bytes(a)[i - Len(T)]]
    BY <1>3, SequenceConcat
  <2>1. /\ Len(P) = Len(T) + t
        /\ P = [i \in 1 .. Len(T) + t |-> IF i <= Len(T) THEN T[i] ELSE Bytes(a)[i - Len(T)]]
    <3> HIDE DEF t, P
    <3> QED
      BY <1>1, <1>3, <2>0
  <2> HIDE DEF P, t, x
  <2>2. Len(T) = x
    BY DEF x
  <2>3. ASSUME NEW i \in 1 .. x PROVE P[i] = T[i]
    <3>1. i \in 1 .. x + t /\ i <= x
      BY <1>2, <2>3
    <3> QED
      BY <2>1, <2>2, <3>1
  <2>4. ASSUME NEW i \in 1 .. t PROVE P[x + i] = ByteAt(a, i)
    <3>1. x + i \in 1 .. x + t /\ ~(x + i <= x) /\ (x + i) - x = i
      BY <1>2, <2>4
    <3> QED
      BY <1>3, <2>1, <2>2, <2>4, <3>1
  <2> QED
    BY <2>1, <2>2, <2>3, <2>4
<1> HIDE DEF P, n, x, t
<1>5. PICK k \in Nat \ {0} : Len(P) = k * CipherBlock
  BY <1>1
<1> DEFINE z == k * CipherBlock
<1>6. z \in Nat /\ z = x + t /\ CipherBlock <= z
  <2>1. 1 \in Nat /\ k \in Nat /\ 1 <= k /\ CipherBlock \in Nat /\ 1 * CipherBlock = CipherBlock
    BY <1>2
  <2>2. 1 * CipherBlock <= k * CipherBlock /\ z \in Nat
    BY <2>1, TimesMonotonic
  <2> QED
    BY <1>4, <1>5, <2>1, <2>2
<1>7. t % WordBytes = 0
  <2>1. z % WordBytes = 0
    BY <1>2, MultipleTimes
  <2>2. x % WordBytes = 0
    <3>1. PICK q \in Nat : x = q * CipherBlock
      BY DEF WholeBlocks, x
    <3>2. (q * CipherBlock) % WordBytes = 0
      BY <1>2, <3>1, MultipleTimes
    <3> QED
      BY <3>1, <3>2
  <2> HIDE DEF z
  <2>3. z - x = t /\ x <= z
    BY <1>2, <1>6
  <2>4. (z - x) % WordBytes = 0
    BY <1>2, <1>6, <2>1, <2>2, <2>3, MultipleMinus
  <2> QED
    BY <2>3, <2>4
<1> HIDE DEF z
<1>8. CipherBlock <= t /\ t > 0 /\ n <= t /\ t - n \in Nat /\ Len(m) + n = x + t
  <2>2. x # 0 => t >= CipherBlock
    BY DEF t, x
  <2>3. CipherBlock <= t
    BY <1>2, <1>6, <2>2
  <2> QED
    BY <1>1, <1>2, <1>4, <2>3
<1>9. ByteAt(a, t) = {<<"pad", n>>}
  <2>1. t \in 1 .. t
    BY <1>2, <1>8
  <2>2. P[x + t] = ByteAt(a, t)
    BY <1>4, <2>1
  <2> QED
    BY <1>1, <1>8, <2>2
<1>10. WordArray(u) /\ u.sigBytes = t - n /\ \A i \in Nat \ {0} : ByteAt(u, i) = ByteAt(a, i)
  BY <1>1, <1>7, <1>8, <1>9, UnpadIs DEF t
<1> HIDE DEF u
<1>11. T \o Bytes(u) = m
  <2>1. Sequence(Bytes(u)) /\ Len(Bytes(u)) = t - n /\ \A i \in 1 .. t - n : Bytes(u)[i] = ByteAt(u, i)
    BY <1>10, BytesIs
  <2>2. Len(T) + Len(Bytes(u)) = Len(m)
    BY <1>1, <1>2, <1>4, <1>8, <2>1
  <2>3. ASSUME NEW i \in 1 .. Len(T) PROVE m[i] = T[i]
    <3>1. i \in 1 .. x /\ i \in 1 .. Len(m)
      BY <1>1, <1>2, <1>4, <1>8, <2>3
    <3> QED
      BY <1>1, <1>4, <3>1
  <2>4. ASSUME NEW i \in 1 .. Len(Bytes(u)) PROVE m[Len(T) + i] = Bytes(u)[i]
    <3> DEFINE l == Len(m)
    <3>0. i \in 1 .. t - n /\ t \in Nat /\ n \in Nat /\ x \in Nat /\ l \in Nat /\ l + n = x + t
      BY <1>1, <1>2, <1>8, <2>1, <2>4
    <3> HIDE DEF l
    <3>1. i \in 1 .. t /\ i \in Nat \ {0} /\ x + i \in 1 .. l
      BY <3>0
    <3>2. m[x + i] = P[x + i] /\ P[x + i] = ByteAt(a, i)
      BY <1>1, <1>4, <3>1 DEF l
    <3> QED
      BY <1>4, <1>10, <2>1, <3>1, <3>2
  <2>5. Continues(m, T, Bytes(u))
    BY <2>2, <2>3, <2>4 DEF Continues
  <2> QED
    BY <2>1, <2>5, ConcatTo
<1> QED
  BY <1>8, <1>10, <1>11 DEF t, u

\* ... and a decryptor at its end.
LEMMA FinalizeDecrypts ==
  ASSUME NEW c, NEW F, NEW T, NEW q, NEW p, Decrypting(c, F, T, q), WordArray(p), Trim(p),
         NEW m, Sequence(m), Enciphered(c.mode, c.key, Whole(c.mode, m), F \o Bytes(p))
  PROVE  Len(F \o Bytes(p)) = Len(Whole(c.mode, m)) =>
            /\ WordArray(cipherFinalize(c, p).out)
            /\ T \o Bytes(cipherFinalize(c, p).out) = m
<1> DEFINE C == F \o Bytes(p)
           f == Fed(c, p)
           done == process(f, TRUE)
           out == cipherFinalize(c, p).out
           P == Whole(c.mode, m)
           U == T \o Bytes(done.out)
<1> SUFFICES ASSUME Len(C) = Len(P)
             PROVE  WordArray(out) /\ T \o Bytes(out) = m
  OBVIOUS
<1>1. Converting(f, C, T, q) /\ SameSettings(f, c)
  BY FedConverts DEF Decrypting
<1>2. c.mode \in Modes /\ c.xform = "decrypt" /\ f.mode = c.mode /\ f.xform = "decrypt" /\ f.key = c.key
      /\ f.minBufferSize = 1 /\ Sequence(P)
  <2>1. c.mode \in Modes /\ c.xform = "decrypt" /\ f.mode = c.mode /\ f.xform = c.xform /\ f.key = c.key
    BY <1>1 DEF Decrypting, Converting, Ciphering, SameSettings
  <2>2. f.minBufferSize = 1
    BY <1>1, <2>1 DEF Converting, Ciphering
  <2>3. Sequence(P)
    BY <2>1, PadIs DEF Modes
  <2> QED
    BY <2>1, <2>2, <2>3
<1>3. out = IF c.mode = "CBC" /\ done.out.sigBytes > 0 THEN unpad(done.out) ELSE done.out
  <2>1. ~(c.mode = "CBC" /\ c.xform = "encrypt")
    BY <1>2
  <2>2. cipherFinalize(c, p) = IF c.mode = "CBC" /\ c.xform = "decrypt" /\ done.out.sigBytes > 0
                               THEN [done EXCEPT !.out = unpad(@)] ELSE done
    BY <2>1 DEF cipherFinalize
  <2>3. [done EXCEPT !.out = unpad(@)].out = unpad(done.out)
    BY DEF process
  <2> QED
    BY <1>2, <2>2, <2>3
<1> HIDE DEF f, out, P, C
<1>4. /\ WordArray(done.out) /\ done.out.sigBytes = f.data.sigBytes
      /\ Converted("decrypt", c.mode, c.key, C, U) /\ Len(U) = Len(C)
  BY <1>1, <1>2, ConvertEnd
<1> HIDE DEF done
<1>5. U = P
  <2>1. c.mode = "CBC" => WholeBlocks(P)
    BY PadIs DEF P, WholeBlocks
  <2>2. Enciphered(c.mode, c.key, P, C)
    BY DEF P, C
  <2> HIDE DEF U
  <2>3. Len(C) = Len(P) /\ Len(U) = Len(P)
    BY <1>4
  <2> QED
    BY <1>2, <1>4, <2>1, <2>2, <2>3, DecryptsTo
<1>6. CASE c.mode = "CTR"
  <2>1. P = m
    BY <1>6, PadIs DEF P
  <2> QED
    BY <1>3, <1>4, <1>5, <1>6, <2>1
<1>7. CASE c.mode = "CBC"
  <2>1. P = Whole("CBC", m)
    BY <1>7 DEF P
  <2>2. /\ q \in Nat /\ Sequence(T) /\ Len(T) = q * CipherBlock
        /\ q # 0 => f.data.sigBytes >= CipherBlock * f.minBufferSize
    BY <1>1 DEF Converting, Converted
  <2>3. WholeBlocks(T) /\ (Len(T) # 0 => done.out.sigBytes >= CipherBlock)
    <3>1. WholeBlocks(T)
      BY <2>2 DEF WholeBlocks
    <3>2. Len(T) # 0 => q # 0
      BY <2>2, CipherBlockIs
    <3> QED
      BY <1>2, <1>4, <2>2, <3>1, <3>2, CipherBlockIs
  <2>4. done.out.sigBytes > 0 /\ WordArray(unpad(done.out)) /\ T \o Bytes(unpad(done.out)) = m
    BY <1>4, <1>5, <2>1, <2>2, <2>3, UnpadsTo
  <2> QED
    BY <1>3, <1>7, <2>4
<1> QED
  BY <1>2, <1>6, <1>7 DEF Modes

-----------------------------------------------------------------------------
\* What a cipher holds, and the steps of an encryption and a decryption.

\* Whatever is processed, the cipher keeps its shape and less than its limit.
LEMMA ProcessOk ==
  ASSUME NEW c, Ciphering(c), NEW doFlush \in BOOLEAN
  PROVE  /\ Ciphering(process(c, doFlush).c) /\ SameSettings(process(c, doFlush).c, c)
         /\ process(c, doFlush).c.data.sigBytes < CipherBlock * (1 + c.minBufferSize)
<1> DEFINE n == BlocksReady(c.data, CipherBlock, doFlush, c.minBufferSize)
           d == process(c, doFlush).c
<1>1. /\ n \in Nat /\ SameSettings(d, c) /\ d.data = Rest(c.data, CipherBlock, n)
      /\ d.counter = CounterAfter(c, n)
  BY ProcessIs
<1>2. /\ WordArray(c.data) /\ c.minBufferSize \in {0, 1} /\ c.counter \in 0 .. CounterWraps - 1
      /\ CipherBlock \in Nat \ {0} /\ CipherBlock % WordBytes = 0 /\ CounterWraps \in Nat \ {0}
      /\ c.data.sigBytes \in Nat
  BY CipherBlockIs DEF Ciphering, WordArray, IsWordArray
<1>3. /\ doFlush = TRUE => c.data.sigBytes <= n * CipherBlock
      /\ doFlush = FALSE => /\ n * CipherBlock <= c.data.sigBytes
                            /\ c.data.sigBytes - n * CipherBlock < CipherBlock * (1 + c.minBufferSize)
  BY <1>2, ReadyAtEnd, ReadyBefore
<1> HIDE DEF n, d
<1>4. /\ WordArray(d.data)
      /\ d.data.sigBytes = IF n * CipherBlock <= c.data.sigBytes
                           THEN c.data.sigBytes - n * CipherBlock ELSE 0
  <2>1. WordArray(c.data) /\ n \in Nat /\ CipherBlock \in Nat /\ CipherBlock % WordBytes = 0
    BY <1>1, <1>2
  <2>2. /\ WordArray(Rest(c.data, CipherBlock, n))
        /\ Rest(c.data, CipherBlock, n).sigBytes = IF n * CipherBlock <= c.data.sigBytes
                                                   THEN c.data.sigBytes - n * CipherBlock ELSE 0
    BY <2>1, RestIs
  <2> QED
    BY <1>1, <2>2
<1>5. d.data.sigBytes < CipherBlock * (1 + c.minBufferSize)
  <2> DEFINE y == n * CipherBlock
             k == CipherBlock * (1 + c.minBufferSize)
  <2>1. y \in Nat
    BY <1>1, <1>2
  <2>2. k \in Nat \ {0}
    BY <1>2
  <2> HIDE DEF y, k
  <2>3. /\ doFlush = TRUE => c.data.sigBytes <= y
        /\ doFlush = FALSE => y <= c.data.sigBytes /\ c.data.sigBytes - y < k
        /\ d.data.sigBytes = IF y <= c.data.sigBytes THEN c.data.sigBytes - y ELSE 0
    BY <1>3, <1>4 DEF y, k
  <2>4. d.data.sigBytes < k
    BY <1>2, <2>1, <2>2, <2>3
  <2> QED
    BY <2>4 DEF k
<1>6. d.counter \in 0 .. CounterWraps - 1
  <2>1. c.counter + n \in Nat
    BY <1>1, <1>2
  <2>2. (c.counter + n) % CounterWraps \in 0 .. CounterWraps - 1
    BY <1>2, <2>1
  <2> QED
    BY <1>1, <1>2, <2>2 DEF CounterAfter
<1>7. Ciphering(d)
  BY <1>1, <1>4, <1>6 DEF Ciphering, SameSettings
<1> QED
  BY <1>1, <1>5, <1>7 DEF d

\* A decryptor at its end keeps its shape.
LEMMA FinalizeOk ==
  ASSUME NEW c, Ciphering(c), c.xform = "decrypt", NEW p, WordArray(p)
  PROVE  /\ Ciphering(cipherFinalize(c, p).c)
         /\ cipherFinalize(c, p).c.data.sigBytes < CipherBlock * (1 + cipherFinalize(c, p).c.minBufferSize)
<1> DEFINE f == Fed(c, p)
           done == process(f, TRUE)
<1>1. Ciphering(f)
  BY ConcatIs DEF Fed, Ciphering, CipherFields
<1>2. cipherFinalize(c, p).c = done.c
  <2>1. ~(c.mode = "CBC" /\ c.xform = "encrypt")
    OBVIOUS
  <2>2. cipherFinalize(c, p) = IF c.mode = "CBC" /\ c.xform = "decrypt" /\ done.out.sigBytes > 0
                               THEN [done EXCEPT !.out = unpad(@)] ELSE done
    BY <2>1 DEF cipherFinalize
  <2>3. [done EXCEPT !.out = unpad(@)].c = done.c
    BY DEF process
  <2> QED
    BY <2>2, <2>3
<1> HIDE DEF f
<1>3. /\ Ciphering(done.c) /\ SameSettings(done.c, f)
      /\ done.c.data.sigBytes < CipherBlock * (1 + f.minBufferSize)
  <2>1. TRUE \in BOOLEAN
    OBVIOUS
  <2> QED
    BY <1>1, <2>1, ProcessOk
<1> QED
  BY <1>2, <1>3 DEF SameSettings

\* A cipher begins with nothing.
LEMMA StartIs ==
  ASSUME NEW mode \in Modes, NEW xform \in {"encrypt", "decrypt"}, NEW salt, NEW e, e = <<>>
  PROVE  LET c == Start(mode, xform, salt)
         IN  /\ c.mode = mode /\ c.xform = xform /\ c.key = Derived(salt)
             /\ Ciphering(c) /\ c.data.sigBytes < CipherBlock * (1 + c.minBufferSize)
             /\ Converting(c, e, e, 0)
<1> DEFINE c == Start(mode, xform, salt)
           q == 0
<1>1. /\ c.mode = mode /\ c.xform = xform /\ c.key = Derived(salt) /\ DOMAIN c = CipherFields
      /\ c.data = Empty /\ c.minBufferSize = (IF xform = "decrypt" THEN 1 ELSE 0)
      /\ c.prevBlock = IV /\ c.counter = 0
  BY DEF Start, CipherFields
<1> HIDE DEF c
<1>2. /\ WordArray(Empty) /\ Empty.sigBytes = 0 /\ Clean(Empty) /\ Sequence(e) /\ Len(e) = 0
  BY EmptyIs
<1>3. CipherBlock \in Nat \ {0} /\ CounterWraps \in Nat \ {0} /\ q * CipherBlock = 0 /\ q \in Nat
      /\ 0 \in 0 .. CounterWraps - 1 /\ q % CounterWraps = 0
  BY CipherBlockIs
<1>4. Ciphering(c) /\ c.data.sigBytes < CipherBlock * (1 + c.minBufferSize)
  <2>1. Ciphering(c)
    BY <1>1, <1>2, <1>3 DEF Ciphering
  <2>2. c.minBufferSize \in {0, 1} /\ c.data.sigBytes = 0
    BY <1>1, <1>2
  <2> QED
    BY <1>3, <2>1, <2>2
<1>5. Holds(c.data, e, q * CipherBlock)
  <2>1. \A i \in Nat \ {0} : ByteAt(Empty, i) = Zero /\ ~(i <= 0)
    BY <1>2 DEF Clean
  <2> QED
    BY <1>1, <1>2, <1>3, <2>1 DEF Holds
<1>6. Converted(c.xform, c.mode, c.key, e, e)
  <2>1. \A j \in Nat \ {0} : \A i \in 1 .. CipherBlock : ~((j - 1) * CipherBlock + i <= Len(e))
    <3> SUFFICES ASSUME NEW j \in Nat \ {0}, NEW i \in 1 .. CipherBlock
                 PROVE  ~((j - 1) * CipherBlock + i <= 0)
      BY <1>2
    <3> DEFINE x == (j - 1) * CipherBlock
    <3>1. x \in Nat
      <4>1. j - 1 \in Nat /\ CipherBlock \in Nat
        BY <1>3
      <4> QED
        BY <4>1
    <3> HIDE DEF x
    <3>2. ~(x + i <= 0)
      BY <3>1
    <3> QED
      BY <3>2 DEF x
  <2> QED
    BY <1>2, <2>1 DEF Converted
<1>7. Converting(c, e, e, q)
  <2>1. c.prevBlock = PrevBlock(c, e, e, q)
    BY <1>1 DEF PrevBlock
  <2> QED
    BY <1>1, <1>2, <1>3, <1>4, <1>5, <1>6, <2>1 DEF Converting
<1> QED
  BY <1>1, <1>4, <1>7 DEF c

\* A piece moved from a text to the one before it.
LEMMA SplitIs ==
  ASSUME NEW F, Sequence(F), NEW x, Sequence(x), NEW n \in Nat, n <= Len(x)
  PROVE  /\ Sequence(SubSeq(x, 1, n)) /\ Sequence(SubSeq(x, n + 1, Len(x)))
         /\ (F \o SubSeq(x, 1, n)) \o SubSeq(x, n + 1, Len(x)) = F \o x
<1> DEFINE a == SubSeq(x, 1, n)
           b == SubSeq(x, n + 1, Len(x))
           l == Len(x)
           k == Len(F)
           T == F \o a
           m == F \o x
<1>1. l \in Nat /\ k \in Nat /\ n <= l
  BY SequenceIs
<1>2. Sequence(a) /\ Len(a) = n /\ \A i \in 1 .. n : a[i] = x[i]
  BY <1>1, PrefixIs
<1>3. Sequence(b) /\ Len(b) = l - n /\ \A i \in 1 .. l - n : b[i] = x[n + i]
  <2> DEFINE d == l - n
             e == n + d
             v == SubSeq(x, n + 1, e)
  <2>1. d \in Nat /\ e = Len(x) /\ e <= Len(x)
    BY <1>1
  <2>2. b = v
    BY <2>1
  <2> HIDE DEF l, d
  <2>3. Sequence(v) /\ Len(v) = d /\ \A i \in 1 .. d : v[i] = x[n + i]
    BY <2>1, SubSeqIs
  <2> HIDE DEF v, b
  <2>4. Sequence(b) /\ Len(b) = d /\ \A i \in 1 .. d : b[i] = x[n + i]
    BY <2>2, <2>3
  <2> QED
    BY <2>4 DEF d
<1> HIDE DEF a, b, l, k
<1>4. /\ Sequence(T) /\ Len(T) = k + n
      /\ T = [i \in 1 .. k + n |-> IF i <= k THEN F[i] ELSE a[i - k]]
  BY <1>2, SequenceConcat DEF k
<1>5. /\ Sequence(m) /\ Len(m) = k + l
      /\ m = [i \in 1 .. k + l |-> IF i <= k THEN F[i] ELSE x[i - k]]
  BY SequenceConcat DEF k, l
<1> HIDE DEF T, m
<1>6. Len(T) + Len(b) = Len(m)
  BY <1>1, <1>3, <1>4, <1>5
<1>7. ASSUME NEW i \in 1 .. Len(T) PROVE m[i] = T[i]
  <2>1. i \in 1 .. k + n /\ i \in 1 .. k + l
    BY <1>1, <1>4, <1>7
  <2>2. CASE i <= k
    BY <1>4, <1>5, <2>1, <2>2
  <2>3. CASE ~(i <= k)
    <3>1. i - k \in 1 .. n
      BY <1>1, <2>1, <2>3
    <3> QED
      BY <1>2, <1>4, <1>5, <2>1, <2>3, <3>1
  <2> QED
    BY <2>2, <2>3
<1>8. ASSUME NEW i \in 1 .. Len(b) PROVE m[Len(T) + i] = b[i]
  <2>1. i \in 1 .. l - n /\ (k + n) + i \in 1 .. k + l /\ ~((k + n) + i <= k) /\ ((k + n) + i) - k = n + i
    BY <1>1, <1>3, <1>8
  <2>2. m[(k + n) + i] = x[n + i]
    BY <1>5, <2>1
  <2> QED
    BY <1>3, <1>4, <2>1, <2>2
<1>9. T \o b = m
  <2>1. Sequence(T) /\ Sequence(b) /\ Sequence(m)
    BY <1>3, <1>4, <1>5
  <2>2. Continues(m, T, b)
    BY <1>6, <1>7, <1>8 DEF Continues
  <2> QED
    BY <2>1, <2>2, ConcatTo
<1> QED
  BY <1>2, <1>3, <1>9 DEF T, m, a, b

\* The cipher: an encryptor gave what begins its ciphertext and holds the rest
\* of the message, a decryptor was fed what begins the ciphertext by the
\* definition of the mode and will be fed the rest.
Reference(c, m) == ReferenceBlocks(c.mode, c.key, m)

CipherShape ==
    /\ Ciphering(cipher)
    /\ cipher.data.sigBytes < CipherBlock * (1 + cipher.minBufferSize)
    /\ WordArray(text) /\ PlainSymbols(plain)
    /\ stage[1] \in {"encrypt", "decrypt", "done"} /\ stage[2] \in Formats

Encrypts == /\ cipher.key = Derived(SaltOf(stage[2]))
            /\ \E q : Encrypting(cipher, plain, Bytes(text), q)

Decrypts ==
    /\ Enciphered(cipher.mode, cipher.key, Whole(cipher.mode, plain), Reference(cipher, plain))
    /\ Len(Reference(cipher, plain)) = Len(Whole(cipher.mode, plain))
    /\ \E fed, q : /\ Decrypting(cipher, fed, Bytes(text), q)
                   /\ Sequence(input) /\ fed \o input = Reference(cipher, plain)

CipherHolds ==
    /\ CipherShape
    /\ stage[1] = "encrypt" => Encrypts
    /\ stage[1] = "decrypt" => Decrypts
    /\ RoundTrip

\* The bytes of the empty word array.
LEMMA BytesEmpty ==
  Bytes(Empty) = <<>> /\ WordArray(Empty) /\ Empty.sigBytes = 0
<1>1. Bytes(Empty) = <<>>
  BY EmptyIs, BytesCreate DEF Empty
<1> QED
  BY <1>1, EmptyIs

\* An encryption begins with a new encryptor.
LEMMA CipherInitHolds ==
  ASSUME CipherInit
  PROVE  CipherHolds
<1>1. PICK mode \in Modes, format \in Formats :
         /\ stage = <<"encrypt", format>>
         /\ cipher = Start(mode, "encrypt", IF format = "salted" THEN SaltBytes ELSE <<>>)
  BY DEF CipherInit
<1> DEFINE e == <<>>
<1>2. plain = e /\ text = Empty /\ Bytes(text) = e /\ WordArray(text)
  BY BytesEmpty DEF CipherInit
<1>3. stage[1] = "encrypt" /\ stage[2] = format
  BY <1>1
<1>4. cipher = Start(mode, "encrypt", SaltOf(format))
  BY <1>1 DEF SaltOf
<1>5. PlainSymbols(e)
  <2>1. Sequence(e) /\ Len(e) = 0
    BY EmptyIs
  <2>2. e = [i \in 1 .. 0 |-> {<<"plain", i>>}]
    OBVIOUS
  <2> QED
    BY <2>1, <2>2 DEF PlainSymbols
<1> HIDE DEF e
<1>6. /\ cipher.mode = mode /\ cipher.xform = "encrypt" /\ cipher.key = Derived(SaltOf(format))
      /\ Ciphering(cipher) /\ cipher.data.sigBytes < CipherBlock * (1 + cipher.minBufferSize)
      /\ Converting(cipher, e, e, 0)
  <2>1. "encrypt" \in {"encrypt", "decrypt"} /\ e = <<>>
    BY DEF e
  <2> QED
    BY <1>4, <2>1, StartIs
<1>7. CipherShape
  BY <1>2, <1>3, <1>5, <1>6 DEF CipherShape
<1>8. Encrypts
  BY <1>2, <1>3, <1>6 DEF Encrypts, Encrypting
<1> QED
  BY <1>3, <1>7, <1>8 DEF CipherHolds, RoundTrip

\* The message with its next piece.
LEMMA NextPlainIs ==
  ASSUME PlainSymbols(plain), NEW n \in Nat
  PROVE  /\ WordArray(NextPlain(n)) /\ Trim(NextPlain(n))
         /\ PlainSymbols(plain \o Bytes(NextPlain(n)))
<1> DEFINE s == [i \in 1 .. n |-> {<<"plain", Len(plain) + i>>}]
           l == Len(plain)
           m == plain \o s
<1>1. Sequence(plain) /\ l \in Nat /\ plain = [i \in 1 .. l |-> {<<"plain", i>>}]
  BY SequenceIs DEF PlainSymbols
<1>2. /\ Sequence(s) /\ Len(s) = n /\ WordArray(Create(s)) /\ Trim(Create(s))
      /\ Bytes(Create(s)) = s
  <2>1. s = [i \in 1 .. n |-> s[i]]
    OBVIOUS
  <2> HIDE DEF s
  <2>2. Sequence(s) /\ Len(s) = n
    BY <2>1, SequenceOver
  <2> QED
    BY <2>2, BytesCreate
<1>3. NextPlain(n) = Create(s)
  BY DEF NextPlain
<1>4. \A i \in 1 .. n : s[i] = {<<"plain", l + i>>}
  OBVIOUS
<1> HIDE DEF s
<1>5. /\ Sequence(m) /\ Len(m) = l + n
      /\ m = [i \in 1 .. l + n |-> IF i <= l THEN plain[i] ELSE s[i - l]]
  BY <1>1, <1>2, SequenceConcat
<1> HIDE DEF l, m
<1>6. ASSUME NEW i \in 1 .. l + n PROVE m[i] = {<<"plain", i>>}
  <2>1. CASE i <= l
    <3>1. i \in 1 .. l
      BY <1>1, <1>6, <2>1
    <3> QED
      BY <1>1, <1>5, <2>1, <3>1
  <2>2. CASE ~(i <= l)
    <3>1. i - l \in 1 .. n /\ l + (i - l) = i
      BY <1>1, <1>6, <2>2
    <3> QED
      BY <1>4, <1>5, <2>2, <3>1
  <2> QED
    BY <2>1, <2>2
<1>7. PlainSymbols(m)
  <2>1. m = [i \in 1 .. l + n |-> m[i]]
    BY <1>5
  <2>2. m = [i \in 1 .. l + n |-> {<<"plain", i>>}]
    BY <1>6, <2>1
  <2> QED
    BY <1>5, <2>2 DEF PlainSymbols
<1> QED
  BY <1>2, <1>3, <1>7 DEF m

\* What a cipher gives goes behind what it gave.
LEMMA GivesIs ==
  ASSUME NEW result, Gives(result), WordArray(text), WordArray(result.out)
  PROVE  /\ cipher' = result.c /\ WordArray(text') /\ Bytes(text') = Bytes(text) \o Bytes(result.out)
<1>1. cipher' = result.c /\ text' = concat(text, result.out)
  BY DEF Gives
<1>2. Bytes(concat(text, result.out)) = Bytes(text) \o Bytes(result.out)
  BY BytesConcat
<1>3. WordArray(concat(text, result.out))
  BY ConcatIs
<1> QED
  BY <1>1, <1>2, <1>3

\* A piece goes through a cipher, whichever way.
LEMMA ProcessHolds ==
  ASSUME NEW m, NEW q, Converting(cipher, m, Bytes(text), q), WordArray(text),
         NEW p, WordArray(p), Trim(p), Gives(process(Fed(cipher, p), FALSE))
  PROVE  /\ WordArray(text') /\ SameSettings(cipher', cipher) /\ Ciphering(cipher')
         /\ cipher'.data.sigBytes < CipherBlock * (1 + cipher'.minBufferSize)
         /\ \E r : Converting(cipher', m \o Bytes(p), Bytes(text'), r)
<1> DEFINE f == Fed(cipher, p)
           e == m \o Bytes(p)
           T == Bytes(text)
           done == process(f, FALSE)
           n == BlocksReady(f.data, CipherBlock, FALSE, f.minBufferSize)
<1>1. Converting(f, e, T, q) /\ SameSettings(f, cipher)
  BY FedConverts
<1> HIDE DEF f, e
<1>2. /\ Converting(done.c, e, T \o Bytes(done.out), q + n)
      /\ SameSettings(done.c, f) /\ WordArray(done.out)
      /\ done.c.data.sigBytes < CipherBlock * (1 + f.minBufferSize)
  BY <1>1, ConvertStep
<1>3. Gives(done)
  BY DEF f
<1> HIDE DEF done, n
<1>4. cipher' = done.c /\ WordArray(text') /\ Bytes(text') = T \o Bytes(done.out)
  BY <1>2, <1>3, GivesIs
<1>5. Converting(cipher', e, Bytes(text'), q + n)
  BY <1>2, <1>4
<1>6. SameSettings(cipher', cipher) /\ cipher'.minBufferSize = f.minBufferSize
  BY <1>1, <1>2, <1>4 DEF SameSettings
<1>7. Ciphering(cipher')
  BY <1>5 DEF Converting
<1>8. cipher'.data.sigBytes < CipherBlock * (1 + cipher'.minBufferSize)
  BY <1>2, <1>4, <1>6
<1> QED
  BY <1>4, <1>5, <1>6, <1>7, <1>8 DEF e

\* The steps of a cipher, one by one: a piece of the message.
LEMMA EncryptProcessHolds ==
  ASSUME CipherHolds, NEW n \in CipherPieces, EncryptProcess(n)
  PROVE  CipherHolds'
<1> DEFINE p == NextPlain(n)
<1>1. /\ CipherShape /\ stage[1] = "encrypt" /\ Encrypts /\ UNCHANGED <<input, stage>>
      /\ plain' = plain \o Bytes(p)
      /\ Gives(process(Fed(cipher, p), FALSE))
  BY DEF CipherHolds, EncryptProcess
<1>2. n \in Nat
  BY CipherStreamAssumption DEF CipherStreamAssumption
<1>3. WordArray(p) /\ Trim(p) /\ PlainSymbols(plain \o Bytes(p))
  BY <1>1, <1>2, NextPlainIs DEF CipherShape
<1>4. PICK q : Encrypting(cipher, plain, Bytes(text), q)
  BY <1>1 DEF Encrypts
<1>5. Converting(cipher, plain, Bytes(text), q) /\ cipher.xform = "encrypt" /\ WordArray(text)
  BY <1>1, <1>4 DEF Encrypting, CipherShape
<1> HIDE DEF p
<1>6. /\ WordArray(text') /\ SameSettings(cipher', cipher) /\ Ciphering(cipher')
      /\ cipher'.data.sigBytes < CipherBlock * (1 + cipher'.minBufferSize)
      /\ \E r : Converting(cipher', plain \o Bytes(p), Bytes(text'), r)
  BY <1>1, <1>3, <1>5, ProcessHolds
<1>7. CipherShape'
  BY <1>1, <1>3, <1>6 DEF CipherShape
<1>8. Encrypts'
  <2>1. PICK r : Converting(cipher', plain', Bytes(text'), r)
    BY <1>1, <1>6
  <2>2. cipher'.key = cipher.key /\ cipher'.xform = "encrypt"
    BY <1>5, <1>6 DEF SameSettings
  <2>3. Encrypting(cipher', plain', Bytes(text'), r)
    BY <2>1, <2>2 DEF Encrypting
  <2> QED
    BY <1>1, <2>2, <2>3 DEF Encrypts
<1> QED
  BY <1>1, <1>7, <1>8 DEF CipherHolds, RoundTrip

\* The ciphertext is the one of the mode, and what is read is what was written.
LEMMA EncryptFinalizeHolds ==
  ASSUME CipherHolds, NEW n \in CipherPieces, EncryptFinalize(n)
  PROVE  CipherHolds'
<1> DEFINE p == NextPlain(n)
           e == plain \o Bytes(p)
           out == cipherFinalize(cipher, p).out
           all == concat(text, out)
           read == parse(stringify(stage[2], all))
           C == ReferenceBlocks(cipher.mode, cipher.key, e)
           w == Whole(cipher.mode, e)
           F == <<>>
<1>1. /\ CipherShape /\ stage[1] = "encrypt" /\ Encrypts
      /\ plain' = e /\ input' = Bytes(read.ciphertext)
      /\ cipher' = Start(cipher.mode, "decrypt", read.salt)
      /\ text' = Empty /\ stage' = <<"decrypt", stage[2]>>
  BY DEF CipherHolds, EncryptFinalize
<1>2. n \in Nat
  BY CipherStreamAssumption DEF CipherStreamAssumption
<1>3. WordArray(p) /\ Trim(p) /\ PlainSymbols(e) /\ WordArray(text)
      /\ cipher.mode \in Modes /\ stage[2] \in Formats
  <2>1. PlainSymbols(plain) /\ WordArray(text) /\ cipher.mode \in Modes /\ stage[2] \in Formats
    BY <1>1 DEF CipherShape, Ciphering
  <2> QED
    BY <1>2, <2>1, NextPlainIs
<1>4. PICK q : Encrypting(cipher, plain, Bytes(text), q)
  BY <1>1 DEF Encrypts
<1> HIDE DEF p, F
<1>5. /\ WordArray(out) /\ Sequence(e)
      /\ Enciphered(cipher.mode, cipher.key, w, Bytes(text) \o Bytes(out))
      /\ Len(Bytes(text) \o Bytes(out)) = Len(w)
  BY <1>3, <1>4, FinalizeEncrypts
<1> HIDE DEF out, e
<1>6. WordArray(all) /\ Bytes(all) = Bytes(text) \o Bytes(out)
  BY <1>3, <1>5, ConcatIs, BytesConcat
<1> HIDE DEF all
<1>7. Enciphered(cipher.mode, cipher.key, w, Bytes(all)) /\ Len(Bytes(all)) = Len(w)
  BY <1>5, <1>6
<1>8. Bytes(all) = C
  BY <1>3, <1>5, <1>7, ReferenceIs
<1>9. Unmarked(Bytes(all))
  BY <1>3, <1>7, CiphertextUnmarked
<1>10. read.salt = SaltOf(stage[2]) /\ Bytes(read.ciphertext) = Bytes(all)
  BY <1>3, <1>6, <1>9, ReadsBack
<1> HIDE DEF read, C, w
<1>11. cipher' = Start(cipher.mode, "decrypt", SaltOf(stage[2])) /\ input' = C
  BY <1>1, <1>8, <1>10
<1>12. /\ cipher'.mode = cipher.mode /\ cipher'.xform = "decrypt"
       /\ cipher'.key = Derived(SaltOf(stage[2])) /\ Ciphering(cipher')
       /\ cipher'.data.sigBytes < CipherBlock * (1 + cipher'.minBufferSize)
       /\ Converting(cipher', F, F, 0)
  <2>1. "decrypt" \in {"encrypt", "decrypt"} /\ F = <<>>
    BY DEF F
  <2> QED
    BY <1>3, <1>11, <2>1, StartIs
<1>13. Bytes(text') = F /\ WordArray(text')
  BY <1>1, BytesEmpty DEF F
<1>14. stage'[1] = "decrypt" /\ stage'[2] = stage[2]
  BY <1>1
<1>15. CipherShape'
  BY <1>1, <1>3, <1>12, <1>13, <1>14 DEF CipherShape
<1>16. cipher'.key = cipher.key /\ Reference(cipher', plain') = C /\ Whole(cipher'.mode, plain') = w
  BY <1>1, <1>12 DEF Encrypts, Reference, C, w
<1>17. Sequence(C) /\ F \o C = C
  <2>1. Sequence(C)
    BY <1>7, <1>8 DEF Enciphered, Converted
  <2> QED
    BY <2>1 DEF Sequence, F
<1>18. Decrypts'
  <2>1. Decrypting(cipher', F, Bytes(text'), 0)
    BY <1>12, <1>13 DEF Decrypting
  <2>2. Sequence(input') /\ F \o input' = Reference(cipher', plain')
    BY <1>11, <1>16, <1>17
  <2>3. Enciphered(cipher'.mode, cipher'.key, Whole(cipher'.mode, plain'), Reference(cipher', plain'))
        /\ Len(Reference(cipher', plain')) = Len(Whole(cipher'.mode, plain'))
    BY <1>7, <1>8, <1>12, <1>16
  <2> QED
    BY <2>1, <2>2, <2>3 DEF Decrypts
<1> QED
  BY <1>14, <1>15, <1>18 DEF CipherHolds, RoundTrip

\* A piece of the ciphertext.
LEMMA DecryptProcessHolds ==
  ASSUME CipherHolds, NEW n \in CipherPieces, DecryptProcess(n)
  PROVE  CipherHolds'
<1> DEFINE a == SubSeq(input, 1, n)
           b == SubSeq(input, n + 1, Len(input))
           p == Create(a)
           C == Reference(cipher, plain)
<1>1. /\ CipherShape /\ stage[1] = "decrypt" /\ Decrypts /\ UNCHANGED <<plain, stage>>
      /\ n <= Len(input) /\ input' = b
      /\ Gives(process(Fed(cipher, p), FALSE))
  BY DEF CipherHolds, DecryptProcess
<1>2. n \in Nat
  BY CipherStreamAssumption DEF CipherStreamAssumption
<1>3. PICK F, q : /\ Decrypting(cipher, F, Bytes(text), q)
                  /\ Sequence(input) /\ F \o input = C
  BY <1>1 DEF Decrypts
<1>4. Converting(cipher, F, Bytes(text), q) /\ cipher.xform = "decrypt" /\ WordArray(text) /\ Sequence(F)
  BY <1>1, <1>3 DEF Decrypting, Converting, Holds, CipherShape
<1>5. Sequence(a) /\ Sequence(b) /\ (F \o a) \o b = F \o input
  BY <1>1, <1>2, <1>3, <1>4, SplitIs
<1> HIDE DEF a, b, C
<1>6. WordArray(p) /\ Trim(p) /\ Bytes(p) = a
  BY <1>5, BytesCreate
<1> HIDE DEF p
<1>7. /\ WordArray(text') /\ SameSettings(cipher', cipher) /\ Ciphering(cipher')
      /\ cipher'.data.sigBytes < CipherBlock * (1 + cipher'.minBufferSize)
      /\ \E r : Converting(cipher', F \o Bytes(p), Bytes(text'), r)
  BY <1>1, <1>4, <1>6, ProcessHolds
<1>8. CipherShape'
  BY <1>1, <1>7 DEF CipherShape
<1>9. /\ cipher'.key = cipher.key /\ cipher'.mode = cipher.mode /\ cipher'.xform = "decrypt"
      /\ Reference(cipher', plain') = C
  BY <1>1, <1>4, <1>7 DEF SameSettings, Reference, C
<1>10. Decrypts'
  <2>1. PICK r : Converting(cipher', F \o a, Bytes(text'), r)
    BY <1>6, <1>7
  <2>2. Decrypting(cipher', F \o a, Bytes(text'), r)
    BY <1>9, <2>1 DEF Decrypting
  <2>3. Sequence(input') /\ (F \o a) \o input' = Reference(cipher', plain')
    BY <1>1, <1>3, <1>5, <1>9
  <2>4. Enciphered(cipher'.mode, cipher'.key, Whole(cipher'.mode, plain'), Reference(cipher', plain'))
        /\ Len(Reference(cipher', plain')) = Len(Whole(cipher'.mode, plain'))
    BY <1>1, <1>9 DEF Decrypts, C
  <2> QED
    BY <2>2, <2>3, <2>4 DEF Decrypts
<1> QED
  BY <1>1, <1>8, <1>10 DEF CipherHolds, RoundTrip

\* The decryptor gives the message.
LEMMA DecryptFinalizeHolds ==
  ASSUME CipherHolds, DecryptFinalize
  PROVE  CipherHolds'
<1> DEFINE p == Create(input)
           C == Reference(cipher, plain)
           result == cipherFinalize(cipher, p)
<1>1. /\ CipherShape /\ stage[1] = "decrypt" /\ Decrypts /\ UNCHANGED plain
      /\ stage' = <<"done", stage[2]>> /\ Gives(result)
  BY DEF CipherHolds, DecryptFinalize
<1>2. PICK F, q : /\ Decrypting(cipher, F, Bytes(text), q)
                  /\ Sequence(input) /\ F \o input = C
  BY <1>1 DEF Decrypts
<1>3. WordArray(p) /\ Trim(p) /\ Bytes(p) = input
  BY <1>2, BytesCreate
<1> HIDE DEF p
<1>4. /\ C = F \o Bytes(p) /\ Enciphered(cipher.mode, cipher.key, Whole(cipher.mode, plain), C)
      /\ Len(C) = Len(Whole(cipher.mode, plain)) /\ Sequence(plain)
  BY <1>1, <1>2, <1>3 DEF Decrypts, CipherShape, PlainSymbols
<1> HIDE DEF C
<1>5. WordArray(result.out) /\ Bytes(text) \o Bytes(result.out) = plain
  <2>1. /\ Decrypting(cipher, F, Bytes(text), q) /\ WordArray(p) /\ Trim(p) /\ Sequence(plain)
        /\ Enciphered(cipher.mode, cipher.key, Whole(cipher.mode, plain), F \o Bytes(p))
        /\ Len(F \o Bytes(p)) = Len(Whole(cipher.mode, plain))
    BY <1>2, <1>3, <1>4
  <2> QED
    BY <2>1, FinalizeDecrypts
<1>6. /\ Ciphering(result.c)
      /\ result.c.data.sigBytes < CipherBlock * (1 + result.c.minBufferSize)
  <2>1. Ciphering(cipher) /\ cipher.xform = "decrypt"
    BY <1>1, <1>2 DEF CipherShape, Decrypting
  <2> QED
    BY <1>3, <2>1, FinalizeOk
<1> HIDE DEF result
<1>7. cipher' = result.c /\ WordArray(text') /\ Bytes(text') = Bytes(text) \o Bytes(result.out)
  BY <1>1, <1>5, GivesIs DEF CipherShape
<1>8. stage'[1] = "done" /\ stage'[2] = stage[2]
  BY <1>1
<1>9. CipherShape'
  BY <1>1, <1>6, <1>7, <1>8 DEF CipherShape
<1>10. RoundTrip'
  BY <1>1, <1>5, <1>7 DEF RoundTrip
<1> QED
  BY <1>8, <1>9, <1>10 DEF CipherHolds

\* Every step of a cipher.
LEMMA CipherStepHolds ==
  ASSUME CipherHolds, CipherNext
  PROVE  CipherHolds'
BY EncryptProcessHolds, EncryptFinalizeHolds, DecryptProcessHolds, DecryptFinalizeHolds DEF CipherNext

\* What a decryptor that has taken nothing is still to be fed is the ciphertext.
LEMMA NothingTaken ==
  ASSUME CipherHolds
  PROVE  CiphertextOfMessage
<1> SUFFICES ASSUME stage[1] = "decrypt", cipher.data = Empty, text = Empty
             PROVE  input = Reference(cipher, plain)
  BY DEF CiphertextOfMessage, Reference
<1>1. PICK F, q : /\ Decrypting(cipher, F, Bytes(text), q)
                  /\ Sequence(input) /\ F \o input = Reference(cipher, plain)
  BY DEF CipherHolds, Decrypts
<1>2. /\ Len(Bytes(text)) = q * CipherBlock /\ q \in Nat /\ Holds(Empty, F, q * CipherBlock)
  BY <1>1 DEF Decrypting, Converting
<1>3. Bytes(text) = <<>> /\ Empty.sigBytes = 0
  BY BytesEmpty
<1>4. q * CipherBlock = 0
  BY <1>2, <1>3
<1>5. Sequence(F) /\ Len(F) = 0
  BY <1>2, <1>3, <1>4 DEF Holds
<1>6. F = <<>>
  BY <1>5 DEF Sequence
<1> QED
  BY <1>1, <1>6 DEF Sequence

-----------------------------------------------------------------------------
\* The key derivations: arrays, the hasher, HMAC, the reference.

\* A key derivation and what it never changes.
KdfFields == {"pc", "alg", "copies", "keySize", "iterations", "password", "fed", "heap",
              "hash", "result", "block", "blockIndex", "i", "derivedKey"}

DigestShaped(d) == Sequence(d) /\ Len(d) = DigestWords

Hasher(k) ==
    /\ DOMAIN k = KdfFields
    /\ Sequence(k.password) /\ Sequence(k.fed)
    /\ Sequence(k.heap) /\ \A j \in 1 .. Len(k.heap) : DigestShaped(k.heap[j])
    /\ k.hash \in 1 .. Len(k.heap)
    /\ k.result \in 0 .. Len(k.heap)

SameLoop(r, k) ==
    /\ DOMAIN r = KdfFields
    /\ r.pc = k.pc /\ r.alg = k.alg /\ r.copies = k.copies /\ r.keySize = k.keySize
    /\ r.iterations = k.iterations /\ r.password = k.password
    /\ r.block = k.block /\ r.blockIndex = k.blockIndex /\ r.i = k.i
    /\ r.derivedKey = k.derivedKey

\* The arrays of k are there, and unchanged, but perhaps the one at p.
KeepsArrays(r, k, p) ==
    /\ Len(k.heap) <= Len(r.heap)
    /\ \A j \in 1 .. Len(k.heap) : j # p => r.heap[j] = k.heap[j]

\* The sizes of the key derivations.
LEMMA KdfConstants == DigestWords \in Nat \ {0} /\ KdfBlockWords \in Nat \ {0}
BY KeyDerivationAssumption DEF KeyDerivationAssumption

\* A digest, and the sum of two.
LEMMA DigestIs ==
  ASSUME NEW m
  PROVE  DigestShaped(Digest(m))
<1> DEFINE d == Digest(m)
<1>1. d = [i \in 1 .. DigestWords |-> d[i]]
  BY DEF Digest
<1> HIDE DEF d
<1>2. DigestWords \in Nat
  BY KdfConstants
<1> QED
  BY <1>1, <1>2, SequenceOver DEF DigestShaped, d

\* The sum of two digests.
LEMMA XorWordsIs ==
  ASSUME NEW a, NEW b, DigestShaped(a)
  PROVE  DigestShaped(XorWords(a, b))
<1> DEFINE d == XorWords(a, b)
<1>1. DOMAIN a = 1 .. DigestWords /\ DigestWords \in Nat
  BY SequenceIs, KdfConstants DEF DigestShaped
<1>2. d = [i \in 1 .. DigestWords |-> d[i]]
  BY <1>1 DEF XorWords
<1> HIDE DEF d
<1> QED
  BY <1>1, <1>2, SequenceOver DEF DigestShaped, d

\* The parts of a sequence behind another are those of the two.
LEMMA ConcatParts ==
  ASSUME NEW s, NEW t, NEW u, Sequence(s), Sequence(t), Sequence(u)
  PROVE  /\ (s \o t) \o u = s \o (t \o u) /\ <<>> \o s = s
         /\ Sequence(s \o t)
<1>1. PICK A : s \in Seq(A)
  BY DEF Sequence
<1>2. PICK B : t \in Seq(B)
  BY DEF Sequence
<1>3. PICK C : u \in Seq(C)
  BY DEF Sequence
<1> DEFINE D == A \cup B \cup C
<1>4. s \in Seq(D) /\ t \in Seq(D) /\ u \in Seq(D)
  BY <1>1, <1>2, <1>3
<1> HIDE DEF D
<1>5. (s \o t) \o u = s \o (t \o u)
  BY <1>4
<1>6. <<>> \o s = s /\ s \o t \in Seq(D)
  BY <1>4
<1> QED
  BY <1>5, <1>6 DEF Sequence

\* An array more.
LEMMA HeapAppend ==
  ASSUME NEW h, Sequence(h), NEW d, DigestShaped(d),
         \A j \in 1 .. Len(h) : DigestShaped(h[j])
  PROVE  /\ Sequence(Append(h, d)) /\ Len(Append(h, d)) = Len(h) + 1 /\ Len(h) \in Nat
         /\ Append(h, d)[Len(h) + 1] = d
         /\ \A j \in 1 .. Len(h) : Append(h, d)[j] = h[j]
         /\ \A j \in 1 .. Len(h) + 1 : DigestShaped(Append(h, d)[j])
<1>1. PICK A : h \in Seq(A)
  BY DEF Sequence
<1> DEFINE B == A \cup {d}
           g == Append(h, d)
<1>2. h \in Seq(B) /\ d \in B
  BY <1>1
<1> HIDE DEF B
<1>3. /\ g \in Seq(B) /\ Len(g) = Len(h) + 1 /\ Len(h) \in Nat
      /\ g[Len(h) + 1] = d /\ \A j \in 1 .. Len(h) : g[j] = h[j]
  BY <1>2
<1> HIDE DEF g
<1>4. ASSUME NEW j \in 1 .. Len(h) + 1 PROVE DigestShaped(g[j])
  <2>1. j \in 1 .. Len(h) \/ j = Len(h) + 1
    BY <1>3, <1>4
  <2> QED
    BY <1>3, <2>1
<1> QED
  BY <1>3, <1>4 DEF Sequence, g

\* An array changed in place.
LEMMA HeapPut ==
  ASSUME NEW h, Sequence(h), NEW d, DigestShaped(d), NEW p \in 1 .. Len(h),
         \A j \in 1 .. Len(h) : DigestShaped(h[j])
  PROVE  /\ Sequence([h EXCEPT ![p] = d]) /\ Len([h EXCEPT ![p] = d]) = Len(h)
         /\ [h EXCEPT ![p] = d][p] = d
         /\ \A j \in 1 .. Len(h) : j # p => [h EXCEPT ![p] = d][j] = h[j]
         /\ \A j \in 1 .. Len(h) : DigestShaped([h EXCEPT ![p] = d][j])
<1> DEFINE g == [h EXCEPT ![p] = d]
           l == Len(h)
<1>1. l \in Nat /\ DOMAIN h = 1 .. l
  BY SequenceIs
<1>2. g = [j \in 1 .. l |-> g[j]] /\ g[p] = d /\ \A j \in 1 .. l : j # p => g[j] = h[j]
  BY <1>1
<1> HIDE DEF g, l
<1>3. Sequence(g) /\ Len(g) = l
  BY <1>1, <1>2, SequenceOver
<1>4. \A j \in 1 .. l : DigestShaped(g[j])
  BY <1>2 DEF l
<1> QED
  BY <1>2, <1>3, <1>4 DEF g, l

\* What the hasher does.
LEMMA UpdateIs ==
  ASSUME NEW k, Hasher(k), NEW words, Sequence(words)
  PROVE  /\ Hasher(hasherUpdate(k, words)) /\ SameLoop(hasherUpdate(k, words), k)
         /\ hasherUpdate(k, words).fed = k.fed \o words
         /\ hasherUpdate(k, words).heap = k.heap /\ hasherUpdate(k, words).hash = k.hash
         /\ hasherUpdate(k, words).result = k.result
<1> DEFINE r == hasherUpdate(k, words)
<1>1. /\ SameLoop(r, k) /\ r.fed = k.fed \o words /\ r.heap = k.heap /\ r.hash = k.hash
      /\ r.result = k.result
  BY DEF hasherUpdate, Hasher, SameLoop, KdfFields
<1> HIDE DEF r
<1>2. Sequence(r.fed)
  BY <1>1, SequenceConcat DEF Hasher
<1>3. Hasher(r)
  BY <1>1, <1>2 DEF Hasher, SameLoop
<1> QED
  BY <1>1, <1>3 DEF r

\* reset: a new array to hash in.
LEMMA ResetIs ==
  ASSUME NEW k, Hasher(k)
  PROVE  /\ Hasher(hasherReset(k)) /\ SameLoop(hasherReset(k), k)
         /\ hasherReset(k).fed = <<>> /\ KeepsArrays(hasherReset(k), k, 0)
         /\ hasherReset(k).hash > Len(k.heap) /\ hasherReset(k).result = k.result
<1> DEFINE r == hasherReset(k)
<1>1. /\ SameLoop(r, k) /\ r.fed = <<>> /\ r.heap = Append(k.heap, FirstState)
      /\ r.hash = Len(k.heap) + 1 /\ r.result = k.result
  BY DEF hasherReset, Hasher, SameLoop, KdfFields
<1> HIDE DEF r
<1>2. DigestShaped(FirstState)
  <2> DEFINE d == FirstState
  <2>1. d = [i \in 1 .. DigestWords |-> d[i]]
    BY DEF FirstState
  <2> HIDE DEF d
  <2>2. DigestWords \in Nat
    BY KdfConstants
  <2> QED
    BY <2>1, <2>2, SequenceOver DEF DigestShaped, d
<1>3. /\ Sequence(r.heap) /\ Len(r.heap) = Len(k.heap) + 1 /\ Len(k.heap) \in Nat
      /\ \A j \in 1 .. Len(k.heap) : r.heap[j] = k.heap[j]
      /\ \A j \in 1 .. Len(r.heap) : DigestShaped(r.heap[j])
  BY <1>1, <1>2, HeapAppend DEF Hasher
<1>4. Sequence(<<>>)
  BY DEF Sequence
<1>5. Hasher(r)
  BY <1>1, <1>3, <1>4 DEF Hasher, SameLoop
<1>6. KeepsArrays(r, k, 0) /\ r.hash > Len(k.heap)
  BY <1>1, <1>3 DEF KeepsArrays
<1> QED
  BY <1>1, <1>5, <1>6 DEF r

\* finalize: the digest is in the array the hasher had.
LEMMA FinalIs ==
  ASSUME NEW k, Hasher(k), NEW words, Sequence(words)
  PROVE  LET r == hasherFinalize(k, words)
         IN  /\ Hasher(r) /\ SameLoop(r, k) /\ r.hash = k.hash
             /\ KeepsArrays(r, k, k.hash)
             /\ r.result \in 1 .. Len(r.heap) /\ (r.result = k.hash \/ r.result > Len(k.heap))
             /\ r.heap[r.result] = Digest(k.fed \o words)
<1> DEFINE r == hasherFinalize(k, words)
           d == Digest(k.fed \o words)
           l == Len(k.heap)
<1>1. DigestShaped(d)
  BY DigestIs
<1> HIDE DEF d
<1>2. CASE k.copies
  <2>1. /\ SameLoop(r, k) /\ r.heap = Append(k.heap, d) /\ r.result = l + 1
        /\ r.hash = k.hash /\ r.fed = k.fed
    BY <1>2 DEF hasherFinalize, Hasher, SameLoop, KdfFields, d
  <2> HIDE DEF r
  <2>2. /\ Sequence(r.heap) /\ Len(r.heap) = l + 1 /\ l \in Nat /\ r.heap[l + 1] = d
        /\ \A j \in 1 .. l : r.heap[j] = k.heap[j]
        /\ \A j \in 1 .. l + 1 : DigestShaped(r.heap[j])
    BY <1>1, <2>1, HeapAppend DEF Hasher
  <2>3. k.hash \in 1 .. l
    BY DEF Hasher
  <2> HIDE DEF l
  <2>4. Hasher(r)
    BY <2>1, <2>2, <2>3 DEF Hasher, SameLoop
  <2>5. KeepsArrays(r, k, k.hash) /\ r.result \in 1 .. Len(r.heap) /\ r.result > l
    BY <2>1, <2>2 DEF KeepsArrays, l
  <2> QED
    BY <2>1, <2>2, <2>4, <2>5 DEF r, d, l
<1>3. CASE ~k.copies
  <2>1. /\ SameLoop(r, k) /\ r.heap = [k.heap EXCEPT ![k.hash] = d] /\ r.result = k.hash
        /\ r.hash = k.hash /\ r.fed = k.fed
    BY <1>3 DEF hasherFinalize, Hasher, SameLoop, KdfFields, d
  <2> HIDE DEF r
  <2>2. k.hash \in 1 .. l /\ l \in Nat
    BY SequenceIs DEF Hasher
  <2>3. /\ Sequence(r.heap) /\ Len(r.heap) = l /\ r.heap[k.hash] = d
        /\ \A j \in 1 .. l : j # k.hash => r.heap[j] = k.heap[j]
        /\ \A j \in 1 .. l : DigestShaped(r.heap[j])
    BY <1>1, <2>1, <2>2, HeapPut DEF Hasher
  <2> HIDE DEF l
  <2>4. Hasher(r)
    BY <2>1, <2>2, <2>3 DEF Hasher, SameLoop
  <2>5. KeepsArrays(r, k, k.hash) /\ r.result \in 1 .. Len(r.heap)
    BY <2>1, <2>2, <2>3 DEF KeepsArrays, l
  <2> QED
    BY <2>1, <2>3, <2>4, <2>5 DEF r, d
<1> QED
  BY <1>2, <1>3

\* The inner and the outer key of HMAC.
LEMMA KeysAre ==
  ASSUME NEW password
  PROVE  Sequence(iKey(password)) /\ Sequence(oKey(password))
<1>1. KdfBlockWords \in Nat
  BY KdfConstants
<1>2. DOMAIN hmacKey(password) = 1 .. KdfBlockWords
  BY DEF hmacKey
<1>3. ASSUME NEW b PROVE Sequence(XorWords(hmacKey(password), b))
  <2> DEFINE d == XorWords(hmacKey(password), b)
  <2>1. d = [i \in 1 .. KdfBlockWords |-> d[i]]
    BY <1>2 DEF XorWords
  <2> HIDE DEF d
  <2> QED
    BY <1>1, <2>1, SequenceOver DEF d
<1> QED
  BY <1>3 DEF iKey, oKey

\* HMAC's reset and its end: what was fed is the inner key and a message.
LEMMA HmacResetIs ==
  ASSUME NEW k, Hasher(k)
  PROVE  /\ Hasher(hmacReset(k)) /\ SameLoop(hmacReset(k), k)
         /\ hmacReset(k).fed = iKey(k.password) /\ KeepsArrays(hmacReset(k), k, 0)
         /\ hmacReset(k).hash > Len(k.heap) /\ hmacReset(k).result = k.result
<1> DEFINE s == hasherReset(k)
           r == hmacReset(k)
<1>1. /\ Hasher(s) /\ SameLoop(s, k) /\ s.fed = <<>> /\ KeepsArrays(s, k, 0)
      /\ s.hash > Len(k.heap) /\ s.result = k.result
  BY ResetIs
<1>2. r = hasherUpdate(s, iKey(k.password))
  BY DEF hmacReset
<1> HIDE DEF s, r
<1>3. Sequence(iKey(k.password))
  BY KeysAre
<1>4. /\ Hasher(r) /\ SameLoop(r, s) /\ r.fed = s.fed \o iKey(k.password)
      /\ r.heap = s.heap /\ r.hash = s.hash /\ r.result = s.result
  BY <1>1, <1>2, <1>3, UpdateIs
<1>5. <<>> \o iKey(k.password) = iKey(k.password)
  BY <1>3, ConcatParts
<1>6. SameLoop(r, k) /\ KeepsArrays(r, k, 0)
  BY <1>1, <1>4 DEF SameLoop, KeepsArrays
<1> QED
  BY <1>1, <1>4, <1>5, <1>6 DEF r

\* finalize of HMAC: its value, in an array of its own.
LEMMA HmacFinalIs ==
  ASSUME NEW k, Hasher(k), NEW words, Sequence(words)
  PROVE  LET r == hmacFinalize(k, words)
         IN  /\ Hasher(r) /\ SameLoop(r, k) /\ KeepsArrays(r, k, k.hash)
             /\ r.result \in 1 .. Len(r.heap) /\ r.result > Len(k.heap) /\ r.hash > Len(k.heap)
             /\ r.heap[r.result] = Digest(oKey(k.password) \o Digest(k.fed \o words))
<1> DEFINE a == hasherFinalize(k, words)
           s == hasherReset(a)
           w == oKey(k.password) \o Digest(k.fed \o words)
           r == hmacFinalize(k, words)
           l == Len(k.heap)
<1>1. /\ Hasher(a) /\ SameLoop(a, k) /\ a.hash = k.hash /\ KeepsArrays(a, k, k.hash)
      /\ a.result \in 1 .. Len(a.heap) /\ a.heap[a.result] = Digest(k.fed \o words)
  BY FinalIs
<1>2. r = hasherFinalize(s, w)
  BY <1>1 DEF hmacFinalize
<1> HIDE DEF a, r
<1>3. /\ Hasher(s) /\ SameLoop(s, a) /\ s.fed = <<>> /\ KeepsArrays(s, a, 0)
      /\ s.hash > Len(a.heap)
  BY <1>1, ResetIs
<1> HIDE DEF s
<1>4. Sequence(w) /\ <<>> \o w = w
  <2>1. Sequence(oKey(k.password)) /\ Sequence(Digest(k.fed \o words))
    BY KeysAre, DigestIs DEF DigestShaped
  <2>2. Sequence(w)
    BY <2>1, SequenceConcat
  <2> HIDE DEF w
  <2> QED
    BY <2>2, ConcatParts
<1> HIDE DEF w
<1>5. /\ Hasher(r) /\ SameLoop(r, s) /\ r.hash = s.hash /\ KeepsArrays(r, s, s.hash)
      /\ r.result \in 1 .. Len(r.heap) /\ (r.result = s.hash \/ r.result > Len(s.heap))
      /\ r.heap[r.result] = Digest(s.fed \o w)
  BY <1>2, <1>3, <1>4, FinalIs
<1>6. SameLoop(r, k)
  BY <1>1, <1>3, <1>5 DEF SameLoop
<1>7. l \in Nat /\ Len(a.heap) \in Nat /\ Len(s.heap) \in Nat /\ Len(r.heap) \in Nat
      /\ l <= Len(a.heap) /\ Len(a.heap) <= Len(s.heap) /\ Len(s.heap) <= Len(r.heap)
  BY <1>1, <1>3, <1>5, SequenceIs DEF Hasher, KeepsArrays
<1>8. r.hash > l /\ r.result > l
  BY <1>3, <1>5, <1>7 DEF Hasher
<1>9. KeepsArrays(r, k, k.hash)
  <2>1. ASSUME NEW j \in 1 .. l, j # k.hash PROVE r.heap[j] = k.heap[j]
    <3>1. a.heap[j] = k.heap[j]
      BY <1>1, <2>1 DEF KeepsArrays, l
    <3>2. j \in 1 .. Len(a.heap) /\ j # 0
      BY <1>7, <2>1
    <3>3. s.heap[j] = a.heap[j]
      BY <1>3, <3>2 DEF KeepsArrays
    <3>4. j \in 1 .. Len(s.heap) /\ j # s.hash
      BY <1>3, <1>7, <3>2 DEF Hasher
    <3>5. r.heap[j] = s.heap[j]
      BY <1>5, <3>4 DEF KeepsArrays
    <3> QED
      BY <3>1, <3>3, <3>5
  <2> QED
    BY <1>7, <2>1 DEF KeepsArrays, l
<1> QED
  BY <1>3, <1>4, <1>5, <1>6, <1>8, <1>9 DEF r, w, l

\* The blocks a key needs.
LEMMA KeyBlocksIs ==
  ASSUME NEW size \in Nat \ {0}, NEW b \in Nat \ {0}
  PROVE  /\ KeyBlocks(size) \in Nat
         /\ (b - 1) * DigestWords < size => b <= KeyBlocks(size)
         /\ (b - 1) * DigestWords < size /\ size <= b * DigestWords => b = KeyBlocks(size)
<1> DEFINE D == DigestWords
           e == size + D - 1
           n == e \div D
           r == e % D
<1>1. D \in Nat \ {0} /\ e \in Nat /\ e = (size + D) - 1
  BY KdfConstants
<1> HIDE DEF e, D
<1>2. n \in Nat /\ r \in Nat /\ r < D /\ e = (n * D) + r
  BY <1>1, Division
<1>3. n = KeyBlocks(size)
  BY DEF KeyBlocks, e, D
<1> HIDE DEF n, r
<1> DEFINE x == n * D
           y == b * D
           z == (b - 1) * D
<1>4. x \in Nat /\ y \in Nat /\ z \in Nat /\ y = z + D
  BY <1>1, <1>2
<1>5. n <= b - 1 => x <= z
  BY <1>1, <1>2, TimesMonotonic
<1>6. b + 1 <= n => y + D <= x
  <2> SUFFICES ASSUME b + 1 <= n PROVE y + D <= x
    OBVIOUS
  <2>1. (b + 1) * D <= x /\ (b + 1) * D = y + D
    BY <1>1, <1>2, TimesMonotonic
  <2> QED
    BY <2>1
<1>7. e = x + r
  BY <1>2
<1> HIDE DEF x, y, z
<1>8. z < size => b <= n
  BY <1>1, <1>2, <1>4, <1>5, <1>7
<1>9. size <= y => n <= b
  BY <1>1, <1>2, <1>4, <1>6, <1>7
<1>10. z < size /\ size <= y => b = n
  BY <1>2, <1>8, <1>9
<1> QED
  BY <1>2, <1>3, <1>8, <1>10 DEF y, z, D

\* The definitions of the reference, step by step: hash i of a block ...
HashOf(alg, password, index, previous, last, i) ==
    LET hash == IF alg = "PBKDF2"
                THEN ReferenceHmac(password, IF i = 1 THEN Salt \o Number(index) ELSE last.hash)
                ELSE Digest(IF i = 1 THEN previous \o password \o Salt ELSE last.hash)
    IN  [hash |-> hash, sum |-> IF i = 1 THEN hash ELSE XorWords(last.sum, hash)]

HashesFrom(alg, password, index, previous, f, n) ==
    f = [i \in 1 .. n |-> HashOf(alg, password, index, previous, f[i - 1], i)]

\* The hashes of the reference are there, so that their definition says what they are.
LEMMA ReferenceHashesDef ==
  ASSUME NEW alg, NEW password, NEW n \in Nat, NEW index, NEW previous
  PROVE  HashesFrom(alg, password, index, previous,
                    ReferenceHashes(alg, password, n, index, previous), n)
<1> DEFINE E(last, i) == HashOf(alg, password, index, previous, last, i)
           From(f, m) == f = [i \in 1 .. m |-> E(f[i - 1], i)]
           A == {m \in 0 .. n : \E f : From(f, m)}
<1> HIDE DEF E
<1>1. 0 \in A
  <2> DEFINE f == [i \in 1 .. 0 |-> 0]
  <2>1. From(f, 0)
    OBVIOUS
  <2> HIDE DEF f
  <2>2. \E h : From(h, 0)
    <3> HIDE DEF From
    <3> QED
      BY <2>1
  <2>3. 0 \in 0 .. n
    OBVIOUS
  <2> HIDE DEF From
  <2> QED
    BY <2>2, <2>3
<1>2. ASSUME NEW m \in 0 .. n - 1, m \in A
      PROVE  m + 1 \in A
  <2>1. PICK f : From(f, m)
    BY <1>2
  <2> DEFINE g == [i \in 1 .. m + 1 |-> IF i <= m THEN E(f[i - 1], i) ELSE E(f[m], i)]
  <2>2. /\ g = [i \in 1 .. m + 1 |-> g[i]]
        /\ \A i \in 1 .. m : g[i] = f[i]
    BY <2>1
  <2>3. ASSUME NEW i \in 1 .. m + 1
        PROVE  g[i] = E(g[i - 1], i)
    <3>1. CASE i = 1
      <4>1. E(f[0], 1) = E(g[0], 1)
        BY DEF E, HashOf
      <4> QED
        BY <3>1, <4>1
    <3>2. CASE i \in 2 .. m
      <4>1. i - 1 \in 1 .. m /\ g[i] = E(f[i - 1], i)
        BY <3>2
      <4> HIDE DEF g
      <4> QED
        BY <2>2, <4>1
    <3>3. CASE i = m + 1 /\ m # 0
      <4>1. m \in 1 .. m /\ i - 1 = m /\ g[i] = E(f[m], i)
        BY <3>3
      <4> HIDE DEF g
      <4> QED
        BY <2>2, <4>1
    <3> QED
      BY <3>1, <3>2, <3>3
  <2> HIDE DEF g
  <2>4. From(g, m + 1)
    BY <2>2, <2>3
  <2> QED
    BY <2>4
<1> HIDE DEF A
<1>3. n \in A
  BY <1>1, <1>2, UpTo
<1>4. PICK f : From(f, n)
  BY <1>3 DEF A
<1>5. HashesFrom(alg, password, index, previous, f, n)
  BY <1>4 DEF E, HashesFrom
<1>6. ReferenceHashes(alg, password, n, index, previous)
        = CHOOSE u : HashesFrom(alg, password, index, previous, u, n)
  BY DEF ReferenceHashes, HashesFrom, HashOf
<1> QED
  BY <1>5, <1>6

\* ... and block b of a key.
KeyOf(alg, password, iterations, last, b) ==
    LET block == ReferenceBlock(alg, password, iterations, b, last.block)
    IN  [block |-> block, key |-> last.key \o block]

KeysFrom(alg, password, iterations, f, n) ==
    f = [b \in 0 .. n |-> IF b = 0 THEN [block |-> <<>>, key |-> <<>>]
                          ELSE KeyOf(alg, password, iterations, f[b - 1], b)]

\* The keys of the reference are there, too.
LEMMA ReferenceKeysDef ==
  ASSUME NEW alg, NEW password, NEW iterations, NEW n \in Nat
  PROVE  KeysFrom(alg, password, iterations, ReferenceKeys(alg, password, iterations, n), n)
<1> DEFINE none == [block |-> <<>>, key |-> <<>>]
           E(last, b) == KeyOf(alg, password, iterations, last, b)
           From(f, m) == f = [b \in 0 .. m |-> IF b = 0 THEN none ELSE E(f[b - 1], b)]
           A == {m \in 0 .. n : \E f : From(f, m)}
<1> HIDE DEF E, none
<1>1. 0 \in A
  <2> DEFINE f == [b \in 0 .. 0 |-> none]
  <2>1. From(f, 0)
    OBVIOUS
  <2> HIDE DEF f
  <2> QED
    BY <2>1
<1>2. ASSUME NEW m \in 0 .. n - 1, m \in A
      PROVE  m + 1 \in A
  <2>1. PICK f : From(f, m)
    BY <1>2
  <2> DEFINE g == [b \in 0 .. m + 1 |-> IF b <= m THEN f[b] ELSE E(f[m], b)]
  <2>2. /\ g = [b \in 0 .. m + 1 |-> g[b]]
        /\ \A b \in 0 .. m : g[b] = f[b]
        /\ g[m + 1] = E(f[m], m + 1)
    OBVIOUS
  <2>3. \A b \in 0 .. m : f[b] = IF b = 0 THEN none ELSE E(f[b - 1], b)
    BY <2>1
  <2> HIDE DEF g
  <2>4. ASSUME NEW b \in 0 .. m + 1
        PROVE  g[b] = IF b = 0 THEN none ELSE E(g[b - 1], b)
    <3>1. CASE b = 0
      <4>1. 0 \in 0 .. m
        OBVIOUS
      <4> QED
        BY <2>2, <2>3, <3>1, <4>1
    <3>2. CASE b \in 1 .. m
      <4>1. b - 1 \in 0 .. m /\ b \in 0 .. m /\ b # 0
        BY <3>2
      <4> QED
        BY <2>2, <2>3, <4>1
    <3>3. CASE b = m + 1
      <4>1. b - 1 = m /\ m \in 0 .. m /\ b # 0
        BY <3>3
      <4> QED
        BY <2>2, <3>3, <4>1
    <3> QED
      BY <3>1, <3>2, <3>3
  <2>5. From(g, m + 1)
    BY <2>2, <2>4
  <2> QED
    BY <2>5
<1> HIDE DEF A
<1>3. n \in A
  BY <1>1, <1>2, UpTo
<1>4. PICK f : From(f, n)
  BY <1>3 DEF A
<1>5. KeysFrom(alg, password, iterations, f, n)
  BY <1>4 DEF E, none, KeysFrom
<1>6. ReferenceKeys(alg, password, iterations, n)
        = CHOOSE u : KeysFrom(alg, password, iterations, u, n)
  BY DEF ReferenceKeys, KeysFrom, KeyOf
<1> QED
  BY <1>5, <1>6

-----------------------------------------------------------------------------
\* What a key derivation holds, and its steps.

\* A key derivation between two hashes: the hasher waits for the next one in an
\* array that no result is in, the key has the blocks of the reference so far,
\* and the block's array and the last result are those of the reference.
Keys(k) == ReferenceKeys(k.alg, k.password, k.iterations, KeyBlocks(k.keySize))

Before(k) == Keys(k)[k.blockIndex - 1]

Hashes(k) == ReferenceHashes(k.alg, k.password, k.iterations, k.blockIndex, Before(k).block)

Waiting(k) == IF k.alg = "PBKDF2" THEN iKey(k.password) ELSE <<>>

KdfShape(k) ==
    /\ Hasher(k) /\ k.fed = Waiting(k) /\ k.block \in 0 .. Len(k.heap) /\ k.hash # k.block
    /\ k.pc \in {"block", "iterate", "done"} /\ k.alg \in {"PBKDF2", "EvpKDF"}
    /\ k.keySize \in Nat \ {0} /\ k.iterations \in Nat \ {0} /\ k.blockIndex \in Nat \ {0}
    /\ Sequence(k.derivedKey) /\ Len(k.derivedKey) = (k.blockIndex - 1) * DigestWords
    /\ k.derivedKey = Before(k).key
    /\ IF k.pc = "done" THEN k.blockIndex - 1 = KeyBlocks(k.keySize)
       ELSE Len(k.derivedKey) < k.keySize

BlockBefore(k) == IF k.block = 0 THEN k.blockIndex = 1 ELSE k.heap[k.block] = Before(k).block

Iterating(k) ==
    /\ k.i \in 1 .. k.iterations /\ k.block # 0
    /\ IF k.alg = "PBKDF2"
       THEN /\ k.heap[k.block] = Hashes(k)[k.i].sum
            /\ IF k.i = 1 THEN k.heap[k.block] = Hashes(k)[k.i].hash
               ELSE /\ k.result \in 1 .. Len(k.heap) /\ k.result # k.block
                    /\ k.heap[k.result] = Hashes(k)[k.i].hash
       ELSE k.heap[k.block] = Hashes(k)[k.i].hash

KdfHolds(k) ==
    /\ KdfShape(k)
    /\ k.pc = "block" => BlockBefore(k)
    /\ k.pc = "iterate" => Iterating(k)

\* Two states of one key derivation, in the same block.
SameKey(s, k) ==
    /\ s.alg = k.alg /\ s.keySize = k.keySize /\ s.iterations = k.iterations
    /\ s.password = k.password /\ s.blockIndex = k.blockIndex /\ s.derivedKey = k.derivedKey

\* They have the same reference.
LEMMA SameReference ==
  ASSUME NEW s, NEW k, SameKey(s, k)
  PROVE  /\ Keys(s) = Keys(k) /\ Before(s) = Before(k) /\ Hashes(s) = Hashes(k)
         /\ Waiting(s) = Waiting(k)
BY DEF SameKey, Keys, Before, Hashes, Waiting

\* The reference at a hash, and at a block.
LEMMA HashIs ==
  ASSUME NEW k, KdfShape(k), NEW i \in 1 .. k.iterations
  PROVE  Hashes(k)[i] = HashOf(k.alg, k.password, k.blockIndex, Before(k).block, Hashes(k)[i - 1], i)
<1>1. k.iterations \in Nat
  BY DEF KdfShape
<1>2. HashesFrom(k.alg, k.password, k.blockIndex, Before(k).block, Hashes(k), k.iterations)
  BY <1>1, ReferenceHashesDef DEF Hashes
<1> QED
  BY <1>2 DEF HashesFrom

\* The reference at a block.
LEMMA KeyIs ==
  ASSUME NEW k, k.keySize \in Nat \ {0}, NEW b \in 0 .. KeyBlocks(k.keySize)
  PROVE  Keys(k)[b] = IF b = 0 THEN [block |-> <<>>, key |-> <<>>]
                      ELSE KeyOf(k.alg, k.password, k.iterations, Keys(k)[b - 1], b)
<1>1. KeyBlocks(k.keySize) \in Nat
  BY KeyBlocksIs
<1>2. KeysFrom(k.alg, k.password, k.iterations, Keys(k), KeyBlocks(k.keySize))
  BY <1>1, ReferenceKeysDef DEF Keys
<1> QED
  BY <1>2 DEF KeysFrom

\* What a step that hashes leaves.
Hashed(s, k) ==
    /\ Hasher(s) /\ SameKey(s, k) /\ s.fed = Waiting(k) /\ s.pc = "iterate"
    /\ s.block \in 1 .. Len(s.heap) /\ s.hash # s.block
    /\ Iterating(s)

\* It is a state of the derivation again.
LEMMA HashedHolds ==
  ASSUME NEW k, KdfHolds(k), k.pc # "done", NEW s, Hashed(s, k)
  PROVE  KdfHolds(s)
<1>1. Before(s) = Before(k) /\ Waiting(s) = Waiting(k)
  BY SameReference DEF Hashed
<1>2. s.block \in 0 .. Len(s.heap)
  <2>1. Len(s.heap) \in Nat
    BY SequenceIs DEF Hashed, Hasher
  <2> QED
    BY <2>1 DEF Hashed
<1>3. KdfShape(s)
  BY <1>1, <1>2 DEF KdfHolds, KdfShape, Hashed, SameKey
<1> QED
  BY <1>3 DEF KdfHolds, Hashed

\* What the reference gives are digests.
LEMMA WordsAre ==
  ASSUME NEW index
  PROVE  Sequence(Salt) /\ Sequence(Number(index))
<1>1. Salt = [i \in 1 .. 1 |-> Salt[i]] /\ 1 \in Nat
  BY DEF Salt, Symbols
<1>2. Sequence(Salt)
  BY <1>1, SequenceOver
<1>3. Number(index) \in Seq({{<<"number", index>>}})
  BY DEF Number
<1> QED
  BY <1>2, <1>3 DEF Sequence

\* The first hash of a block.
FirstOfPbkdf2(k) ==
    LET r == hmacFinalize(hasherUpdate(k, Salt), Number(k.blockIndex))
    IN  [hmacReset(r) EXCEPT !.pc = "iterate", !.i = 1, !.block = r.result]

\* The derivation holds there what it should.
LEMMA FirstPbkdf2 ==
  ASSUME NEW k, KdfHolds(k), k.pc = "block", k.alg = "PBKDF2"
  PROVE  KdfHolds(FirstOfPbkdf2(k))
<1> DEFINE u == hasherUpdate(k, Salt)
           r == hmacFinalize(u, Number(k.blockIndex))
           q == hmacReset(r)
           s == [q EXCEPT !.pc = "iterate", !.i = 1, !.block = r.result]
           p == k.password
           m == Salt \o Number(k.blockIndex)
<1>1. Hasher(k) /\ k.fed = iKey(p) /\ KdfShape(k) /\ k.iterations \in Nat \ {0}
  BY DEF KdfHolds, KdfShape, Waiting
<1>2. Sequence(Salt) /\ Sequence(Number(k.blockIndex)) /\ Sequence(iKey(p))
  BY WordsAre, KeysAre
<1>3. /\ Hasher(u) /\ SameLoop(u, k) /\ u.fed = iKey(p) \o Salt
  BY <1>1, <1>2, UpdateIs
<1> HIDE DEF u, s, q
<1>4. /\ Hasher(r) /\ SameLoop(r, u) /\ r.result \in 1 .. Len(r.heap)
      /\ r.heap[r.result] = Digest(oKey(u.password) \o Digest(u.fed \o Number(k.blockIndex)))
  BY <1>2, <1>3, HmacFinalIs
<1> HIDE DEF r
<1>5. r.heap[r.result] = ReferenceHmac(p, m)
  <2>1. (iKey(p) \o Salt) \o Number(k.blockIndex) = iKey(p) \o m
    BY <1>2, ConcatParts
  <2> HIDE DEF m
  <2>2. u.password = p
    BY <1>3 DEF SameLoop
  <2> QED
    BY <1>3, <1>4, <2>1, <2>2 DEF ReferenceHmac
<1>6. /\ Hasher(q) /\ SameLoop(q, r) /\ q.fed = iKey(r.password) /\ KeepsArrays(q, r, 0)
      /\ q.hash > Len(r.heap)
  BY <1>4, HmacResetIs DEF q
<1>7. s = [q EXCEPT !.pc = "iterate", !.i = 1, !.block = r.result]
  BY DEF s
<1> HIDE DEF m
<1>8. /\ DOMAIN s = KdfFields /\ s.pc = "iterate" /\ s.i = 1 /\ s.block = r.result
      /\ s.heap = q.heap /\ s.hash = q.hash /\ s.fed = q.fed /\ s.result = q.result
      /\ s.password = q.password /\ s.alg = q.alg /\ s.keySize = q.keySize
      /\ s.iterations = q.iterations /\ s.blockIndex = q.blockIndex /\ s.derivedKey = q.derivedKey
  BY <1>6, <1>7 DEF SameLoop, KdfFields
<1>9. SameKey(s, k)
  BY <1>3, <1>4, <1>6, <1>8 DEF SameKey, SameLoop
<1>10. Hasher(s)
  BY <1>6, <1>8 DEF Hasher
<1>11. s.fed = Waiting(k)
  BY <1>3, <1>4, <1>6, <1>8 DEF Waiting, SameLoop
<1>12. s.block \in 1 .. Len(s.heap) /\ s.hash # s.block /\ s.heap[s.block] = ReferenceHmac(p, m)
  <2>1. Len(r.heap) \in Nat /\ Len(q.heap) \in Nat
    BY <1>4, <1>6, SequenceIs DEF Hasher
  <2>2. r.result \in 1 .. Len(q.heap) /\ q.hash # r.result /\ r.result # 0
    BY <1>4, <1>6, <2>1 DEF KeepsArrays, Hasher
  <2>3. q.heap[r.result] = r.heap[r.result]
    BY <1>4, <1>6, <2>2 DEF KeepsArrays
  <2> QED
    BY <1>5, <1>8, <2>2, <2>3
<1>13. Iterating(s)
  <2>1. 1 \in 1 .. k.iterations
    BY <1>1
  <2>2. Hashes(k)[1] = HashOf(k.alg, p, k.blockIndex, Before(k).block, Hashes(k)[1 - 1], 1)
    BY <1>1, <2>1, HashIs
  <2>3. Hashes(k)[1].hash = ReferenceHmac(p, m) /\ Hashes(k)[1].sum = ReferenceHmac(p, m)
    BY <2>2 DEF HashOf, m
  <2>4. Hashes(s) = Hashes(k)
    BY <1>9, SameReference
  <2>5. s.alg = "PBKDF2" /\ s.iterations = k.iterations
    BY <1>9 DEF SameKey
  <2> QED
    BY <1>8, <1>12, <2>1, <2>3, <2>4, <2>5 DEF Iterating
<1>14. KdfHolds(s)
  <2>1. Hashed(s, k)
    BY <1>8, <1>9, <1>10, <1>11, <1>12, <1>13 DEF Hashed
  <2> QED
    BY <2>1, HashedHolds
<1> QED
  BY <1>14 DEF FirstOfPbkdf2, s, q, r, u

\* The first hash of a block of EvpKDF: what the block before gave is hashed with
\* the password and the salt.
FirstOfEvp(k) ==
    LET u == IF k.block = 0 THEN k ELSE hasherUpdate(k, k.heap[k.block])
        r == hasherFinalize(hasherUpdate(u, k.password), Salt)
    IN  [hasherReset(r) EXCEPT !.pc = "iterate", !.i = 1, !.block = r.result]

\* The derivation holds there what it should.
LEMMA FirstEvp ==
  ASSUME NEW k, KdfHolds(k), k.pc = "block", k.alg = "EvpKDF"
  PROVE  KdfHolds(FirstOfEvp(k))
<1> DEFINE p == k.password
           previous == Before(k).block
           u == IF k.block = 0 THEN k ELSE hasherUpdate(k, k.heap[k.block])
           v == hasherUpdate(u, p)
           r == hasherFinalize(v, Salt)
           q == hasherReset(r)
           s == [q EXCEPT !.pc = "iterate", !.i = 1, !.block = r.result]
           m == previous \o p \o Salt
<1> HIDE DEF v, r, q, s
<1>1. Hasher(k) /\ k.fed = <<>> /\ KdfShape(k) /\ k.iterations \in Nat \ {0} /\ BlockBefore(k)
      /\ Sequence(p) /\ k.keySize \in Nat \ {0}
  BY DEF KdfHolds, KdfShape, Waiting, Hasher
<1>2. Sequence(Salt)
  BY WordsAre
<1>3. Hasher(u) /\ SameLoop(u, k) /\ u.fed = previous
  <2>1. CASE k.block = 0
    <3>1. k.blockIndex = 1 /\ u = k
      BY <1>1, <2>1 DEF BlockBefore
    <3>2. KeyBlocks(k.keySize) \in Nat
      BY <1>1, KeyBlocksIs
    <3>3. 0 \in 0 .. KeyBlocks(k.keySize) /\ k.blockIndex - 1 = 0
      BY <3>1, <3>2
    <3>4. previous = <<>>
      <4>1. Keys(k)[0] = IF 0 = 0 THEN [block |-> <<>>, key |-> <<>>]
                         ELSE KeyOf(k.alg, k.password, k.iterations, Keys(k)[0 - 1], 0)
        BY <1>1, <3>3, KeyIs
      <4> QED
        BY <3>3, <4>1 DEF Before
    <3>5. SameLoop(k, k)
      BY <1>1 DEF SameLoop, Hasher
    <3> QED
      BY <1>1, <3>1, <3>4, <3>5
  <2>2. CASE k.block # 0
    <3> DEFINE w == k.heap[k.block]
    <3>1. u = hasherUpdate(k, w) /\ w = previous
      BY <1>1, <2>2 DEF BlockBefore
    <3>2. Sequence(w)
      <4>1. k.block \in 1 .. Len(k.heap)
        <5>1. k.block \in 0 .. Len(k.heap) /\ Len(k.heap) \in Nat
          BY <1>1, SequenceIs DEF KdfShape, Hasher
        <5> QED
          BY <2>2, <5>1
      <4> QED
        BY <1>1, <4>1 DEF Hasher, DigestShaped
    <3> HIDE DEF w, u, previous
    <3>3. Hasher(u) /\ SameLoop(u, k) /\ u.fed = k.fed \o w
      BY <1>1, <3>1, <3>2, UpdateIs
    <3>4. <<>> \o w = w
      BY <3>2, ConcatParts
    <3> QED
      BY <1>1, <3>1, <3>3, <3>4
  <2> QED
    BY <2>1, <2>2
<1> HIDE DEF previous, u
<1>4. /\ Hasher(v) /\ SameLoop(v, u) /\ v.fed = previous \o p
  <2>1. Hasher(u) /\ Sequence(p)
    BY <1>1, <1>3
  <2> HIDE DEF p
  <2>2. Hasher(v) /\ SameLoop(v, u) /\ v.fed = u.fed \o p
    BY <2>1, UpdateIs DEF v
  <2> QED
    BY <1>3, <2>2
<1>5. r = hasherFinalize(v, Salt)
  BY DEF r
<1>6. /\ Hasher(r) /\ SameLoop(r, v) /\ r.result \in 1 .. Len(r.heap)
      /\ r.heap[r.result] = Digest(m)
  <2>1. /\ Hasher(r) /\ SameLoop(r, v) /\ r.result \in 1 .. Len(r.heap)
        /\ r.heap[r.result] = Digest(v.fed \o Salt)
    BY <1>2, <1>4, <1>5, FinalIs
  <2> QED
    BY <1>4, <2>1
<1>7. /\ Hasher(q) /\ SameLoop(q, r) /\ q.fed = <<>> /\ KeepsArrays(q, r, 0)
      /\ q.hash > Len(r.heap)
  BY <1>6, ResetIs DEF q
<1>8. s = [q EXCEPT !.pc = "iterate", !.i = 1, !.block = r.result]
  BY DEF s
<1>9. /\ DOMAIN s = KdfFields /\ s.pc = "iterate" /\ s.i = 1 /\ s.block = r.result
      /\ s.heap = q.heap /\ s.hash = q.hash /\ s.fed = q.fed /\ s.result = q.result
      /\ s.password = q.password /\ s.alg = q.alg /\ s.keySize = q.keySize
      /\ s.iterations = q.iterations /\ s.blockIndex = q.blockIndex /\ s.derivedKey = q.derivedKey
  BY <1>7, <1>8 DEF SameLoop, KdfFields
<1>10. SameKey(s, k)
  BY <1>3, <1>4, <1>6, <1>7, <1>9 DEF SameKey, SameLoop
<1>11. Hasher(s)
  BY <1>7, <1>9 DEF Hasher
<1>12. s.fed = Waiting(k)
  BY <1>7, <1>9 DEF Waiting
<1>13. s.block \in 1 .. Len(s.heap) /\ s.hash # s.block /\ s.heap[s.block] = Digest(m)
  <2>1. Len(r.heap) \in Nat /\ Len(q.heap) \in Nat
    BY <1>6, <1>7, SequenceIs DEF Hasher
  <2>2. r.result \in 1 .. Len(q.heap) /\ q.hash # r.result /\ r.result # 0
    BY <1>6, <1>7, <2>1 DEF KeepsArrays, Hasher
  <2>3. q.heap[r.result] = r.heap[r.result]
    BY <1>6, <1>7, <2>2 DEF KeepsArrays
  <2> QED
    BY <1>6, <1>9, <2>2, <2>3
<1>14. Iterating(s)
  <2>1. 1 \in 1 .. k.iterations
    BY <1>1
  <2>2. Hashes(k)[1] = HashOf(k.alg, p, k.blockIndex, previous, Hashes(k)[1 - 1], 1)
    BY <1>1, <2>1, HashIs DEF previous
  <2>3. Hashes(k)[1].hash = Digest(m)
    BY <2>2 DEF HashOf
  <2>4. Hashes(s) = Hashes(k)
    BY <1>10, SameReference
  <2>5. s.alg = "EvpKDF" /\ s.iterations = k.iterations
    BY <1>10 DEF SameKey
  <2>6. s.block # 0
    BY <1>13
  <2> QED
    BY <1>9, <1>13, <2>1, <2>3, <2>4, <2>5, <2>6 DEF Iterating
<1>15. KdfHolds(s)
  <2>1. Hashed(s, k)
    BY <1>9, <1>10, <1>11, <1>12, <1>13, <1>14 DEF Hashed
  <2> QED
    BY <2>1, HashedHolds
<1> QED
  BY <1>15 DEF FirstOfEvp, s, q, r, v, u

\* A hash more of EvpKDF.
NextOfEvp(k) ==
    LET r == hasherFinalize(k, k.heap[k.block])
    IN  [hasherReset(r) EXCEPT !.i = @ + 1, !.block = r.result]

\* The derivation holds there what it should.
LEMMA NextEvp ==
  ASSUME NEW k, KdfHolds(k), k.pc = "iterate", k.alg = "EvpKDF", k.i < k.iterations
  PROVE  KdfHolds(NextOfEvp(k))
<1> DEFINE w == k.heap[k.block]
           r == hasherFinalize(k, w)
           q == hasherReset(r)
           s == [q EXCEPT !.i = @ + 1, !.block = r.result]
           i == k.i
<1> HIDE DEF r, q, s
<1>1. /\ Hasher(k) /\ k.fed = <<>> /\ KdfShape(k) /\ k.iterations \in Nat \ {0}
      /\ i \in 1 .. k.iterations /\ w = Hashes(k)[i].hash /\ k.block \in 1 .. Len(k.heap)
  <2>1. /\ Hasher(k) /\ k.fed = <<>> /\ KdfShape(k) /\ k.iterations \in Nat \ {0} /\ Iterating(k)
        /\ k.block \in 0 .. Len(k.heap)
    BY DEF KdfHolds, KdfShape, Waiting
  <2>2. Len(k.heap) \in Nat
    BY <2>1, SequenceIs DEF Hasher
  <2> QED
    BY <2>1, <2>2 DEF Iterating
<1>2. Sequence(w) /\ <<>> \o w = w
  <2>1. Sequence(w)
    BY <1>1 DEF Hasher, DigestShaped
  <2> HIDE DEF w
  <2> QED
    BY <2>1, ConcatParts
<1> HIDE DEF w
<1>3. /\ Hasher(r) /\ SameLoop(r, k) /\ r.result \in 1 .. Len(r.heap)
      /\ r.heap[r.result] = Digest(w)
  <2>1. /\ Hasher(r) /\ SameLoop(r, k) /\ r.result \in 1 .. Len(r.heap)
        /\ r.heap[r.result] = Digest(k.fed \o w)
    BY <1>1, <1>2, FinalIs DEF r
  <2> QED
    BY <1>1, <1>2, <2>1
<1>4. /\ Hasher(q) /\ SameLoop(q, r) /\ q.fed = <<>> /\ KeepsArrays(q, r, 0)
      /\ q.hash > Len(r.heap)
  BY <1>3, ResetIs DEF q
<1>5. s = [q EXCEPT !.i = @ + 1, !.block = r.result]
  BY DEF s
<1>6. /\ DOMAIN s = KdfFields /\ s.pc = q.pc /\ s.i = q.i + 1 /\ s.block = r.result
      /\ s.heap = q.heap /\ s.hash = q.hash /\ s.fed = q.fed /\ s.result = q.result
      /\ s.password = q.password /\ s.alg = q.alg /\ s.keySize = q.keySize
      /\ s.iterations = q.iterations /\ s.blockIndex = q.blockIndex /\ s.derivedKey = q.derivedKey
  BY <1>4, <1>5 DEF SameLoop, KdfFields
<1>7. SameKey(s, k) /\ s.pc = "iterate" /\ s.i = i + 1
  BY <1>3, <1>4, <1>6 DEF SameKey, SameLoop
<1>8. Hasher(s)
  BY <1>4, <1>6 DEF Hasher
<1>9. s.fed = Waiting(k)
  BY <1>4, <1>6 DEF Waiting
<1>10. s.block \in 1 .. Len(s.heap) /\ s.hash # s.block /\ s.heap[s.block] = Digest(w)
  <2>1. Len(r.heap) \in Nat /\ Len(q.heap) \in Nat
    BY <1>3, <1>4, SequenceIs DEF Hasher
  <2>2. r.result \in 1 .. Len(q.heap) /\ q.hash # r.result /\ r.result # 0
    BY <1>3, <1>4, <2>1 DEF KeepsArrays, Hasher
  <2>3. q.heap[r.result] = r.heap[r.result]
    BY <1>3, <1>4, <2>2 DEF KeepsArrays
  <2> QED
    BY <1>3, <1>6, <2>2, <2>3
<1>11. Iterating(s)
  <2>1. i + 1 \in 1 .. k.iterations /\ i + 1 # 1 /\ (i + 1) - 1 = i
    BY <1>1
  <2>2. Hashes(k)[i + 1] = HashOf(k.alg, k.password, k.blockIndex, Before(k).block,
                                  Hashes(k)[(i + 1) - 1], i + 1)
    <3> HIDE DEF i
    <3> QED
      BY <1>1, <2>1, HashIs
  <2>3. Hashes(k)[i + 1].hash = Digest(w)
    BY <1>1, <2>1, <2>2 DEF HashOf
  <2>4. Hashes(s) = Hashes(k)
    BY <1>7, SameReference
  <2>5. s.alg = "EvpKDF" /\ s.iterations = k.iterations
    BY <1>7 DEF SameKey
  <2>6. s.block # 0
    BY <1>10
  <2> QED
    <3>1. s.i = i + 1
      BY <1>7
    <3> HIDE DEF i
    <3>2. s.heap[s.block] = Hashes(s)[s.i].hash /\ s.i \in 1 .. s.iterations
      BY <1>10, <2>1, <2>3, <2>4, <2>5, <3>1
    <3>3. s.alg # "PBKDF2"
      BY <2>5
    <3> QED
      BY <2>6, <3>2, <3>3 DEF Iterating
<1>12. KdfHolds(s)
  <2>1. Hashed(s, k)
    BY <1>7, <1>8, <1>9, <1>10, <1>11 DEF Hashed
  <2> QED
    BY <2>1, HashedHolds
<1> QED
  BY <1>12 DEF NextOfEvp, s, q, r, w

\* A hash more of PBKDF2, added to the block in its array.
NextOfPbkdf2(k) ==
    LET h == hmacFinalize(k, k.heap[IF k.i = 1 THEN k.block ELSE k.result])
        r == hmacReset(h)
    IN  [r EXCEPT !.i = @ + 1, !.heap[k.block] = XorWords(@, r.heap[h.result])]

\* The derivation holds there what it should.
LEMMA NextPbkdf2 ==
  ASSUME NEW k, KdfHolds(k), k.pc = "iterate", k.alg = "PBKDF2", k.i < k.iterations
  PROVE  KdfHolds(NextOfPbkdf2(k))
<1> DEFINE a == IF k.i = 1 THEN k.block ELSE k.result
           w == k.heap[a]
           h == hmacFinalize(k, w)
           r == hmacReset(h)
           s == [r EXCEPT !.i = @ + 1, !.heap[k.block] = XorWords(@, r.heap[h.result])]
           i == k.i
           b == k.block
           u == ReferenceHmac(k.password, w)
           sum == k.heap[b]
           new == XorWords(sum, u)
<1> HIDE DEF h, r, s
<1>1. /\ Hasher(k) /\ k.fed = iKey(k.password) /\ KdfShape(k) /\ k.iterations \in Nat \ {0}
      /\ Iterating(k) /\ k.block \in 0 .. Len(k.heap) /\ Len(k.heap) \in Nat /\ k.hash # k.block
  BY SequenceIs DEF KdfHolds, KdfShape, Waiting, Hasher
<1>2. /\ i \in 1 .. k.iterations /\ b \in 1 .. Len(k.heap) /\ a \in 1 .. Len(k.heap)
      /\ w = Hashes(k)[i].hash /\ sum = Hashes(k)[i].sum
  BY <1>1 DEF Iterating
<1> HIDE DEF a
<1>3. Sequence(w) /\ DigestShaped(sum)
  BY <1>1, <1>2 DEF Hasher, DigestShaped
<1> HIDE DEF w
<1>4. /\ Hasher(h) /\ SameLoop(h, k) /\ KeepsArrays(h, k, k.hash)
      /\ h.result \in 1 .. Len(h.heap) /\ h.result > Len(k.heap) /\ h.heap[h.result] = u
  <2>1. h = hmacFinalize(k, w)
    BY DEF h
  <2>2. /\ Hasher(h) /\ SameLoop(h, k) /\ KeepsArrays(h, k, k.hash)
        /\ h.result \in 1 .. Len(h.heap) /\ h.result > Len(k.heap)
        /\ h.heap[h.result] = Digest(oKey(k.password) \o Digest(k.fed \o w))
    BY <1>1, <1>3, <2>1, HmacFinalIs
  <2> QED
    BY <1>1, <2>2 DEF ReferenceHmac
<1>5. /\ Hasher(r) /\ SameLoop(r, h) /\ r.fed = iKey(h.password) /\ KeepsArrays(r, h, 0)
      /\ r.hash > Len(h.heap) /\ r.result = h.result
  BY <1>4, HmacResetIs DEF r
<1>6. /\ Len(h.heap) \in Nat /\ Len(r.heap) \in Nat /\ Len(k.heap) <= Len(h.heap)
      /\ Len(h.heap) <= Len(r.heap)
  BY <1>4, <1>5, SequenceIs DEF Hasher, KeepsArrays
<1>7. /\ r.heap[b] = sum /\ r.heap[h.result] = u /\ b \in 1 .. Len(r.heap)
      /\ h.result \in 1 .. Len(r.heap) /\ h.result # b /\ r.hash # b
  <2>1. /\ b \in 1 .. Len(h.heap) /\ b \in 1 .. Len(r.heap) /\ b # 0 /\ b # k.hash
        /\ h.result \in 1 .. Len(r.heap) /\ h.result # 0 /\ h.result # b /\ r.hash # b
    <3>1. r.hash \in 1 .. Len(r.heap) /\ r.hash > Len(h.heap) /\ b # k.hash
          /\ h.result \in 1 .. Len(h.heap) /\ h.result > Len(k.heap) /\ Len(k.heap) \in Nat
      BY <1>1, <1>4, <1>5 DEF Hasher
    <3>2. b \in 1 .. Len(k.heap)
      BY <1>2
    <3> HIDE DEF b
    <3> QED
      BY <1>6, <3>1, <3>2
  <2>2. h.heap[b] = sum
    BY <1>2, <1>4, <2>1 DEF KeepsArrays
  <2>3. r.heap[b] = h.heap[b] /\ r.heap[h.result] = h.heap[h.result]
    BY <1>4, <1>5, <2>1 DEF KeepsArrays
  <2> QED
    BY <1>4, <2>1, <2>2, <2>3
<1> HIDE DEF u, sum
<1>8. /\ DOMAIN s = KdfFields /\ s.pc = r.pc /\ s.i = r.i + 1 /\ s.block = r.block
      /\ s.heap = [r.heap EXCEPT ![b] = new] /\ s.hash = r.hash /\ s.fed = r.fed
      /\ s.result = r.result /\ s.password = r.password /\ s.alg = r.alg
      /\ s.keySize = r.keySize /\ s.iterations = r.iterations /\ s.blockIndex = r.blockIndex
      /\ s.derivedKey = r.derivedKey
  <2>1. DOMAIN r = KdfFields
    BY <1>5 DEF SameLoop
  <2>2. s = [[r EXCEPT !.i = r.i + 1]
                EXCEPT !.heap = [r.heap EXCEPT ![b] = XorWords(r.heap[b], r.heap[h.result])]]
    BY <1>7, <2>1 DEF KdfFields, s
  <2>3. XorWords(r.heap[b], r.heap[h.result]) = new
    BY <1>7
  <2> DEFINE g == [r.heap EXCEPT ![b] = new]
             next == r.i + 1
  <2>4. s = [[r EXCEPT !.i = next] EXCEPT !.heap = g]
    BY <2>2, <2>3
  <2> HIDE DEF new, g, next
  <2>5. /\ DOMAIN s = KdfFields /\ s.pc = r.pc /\ s.i = next /\ s.block = r.block
        /\ s.heap = g /\ s.hash = r.hash /\ s.fed = r.fed
        /\ s.result = r.result /\ s.password = r.password /\ s.alg = r.alg
        /\ s.keySize = r.keySize /\ s.iterations = r.iterations /\ s.blockIndex = r.blockIndex
        /\ s.derivedKey = r.derivedKey
    BY <2>1, <2>4 DEF KdfFields
  <2> QED
    BY <2>5 DEF g, next
<1>9. DigestShaped(new)
  BY <1>3, XorWordsIs
<1> HIDE DEF new
<1>10. /\ Sequence(s.heap) /\ Len(s.heap) = Len(r.heap) /\ s.heap[b] = new
       /\ \A j \in 1 .. Len(r.heap) : j # b => s.heap[j] = r.heap[j]
       /\ \A j \in 1 .. Len(r.heap) : DigestShaped(s.heap[j])
  <2> DEFINE heap == r.heap
             g == [heap EXCEPT ![b] = new]
  <2>1. /\ Sequence(heap) /\ b \in 1 .. Len(heap) /\ DigestShaped(new)
        /\ \A j \in 1 .. Len(heap) : DigestShaped(heap[j])
    BY <1>5, <1>7, <1>9 DEF Hasher
  <2>2. s.heap = g
    BY <1>8
  <2> HIDE DEF heap
  <2>3. /\ Sequence(g) /\ Len(g) = Len(heap) /\ g[b] = new
        /\ \A j \in 1 .. Len(heap) : j # b => g[j] = heap[j]
        /\ \A j \in 1 .. Len(heap) : DigestShaped(g[j])
    BY <2>1, HeapPut
  <2> HIDE DEF g
  <2> QED
    BY <2>2, <2>3 DEF heap
<1>11. SameKey(s, k) /\ s.pc = "iterate" /\ s.i = i + 1 /\ s.block = b
  BY <1>4, <1>5, <1>8 DEF SameKey, SameLoop
<1>12. Hasher(s)
  <2>1. Hasher(r)
    BY <1>5
  <2>2. /\ s.hash = r.hash /\ s.result = r.result /\ s.password = r.password /\ s.fed = r.fed
        /\ DOMAIN s = KdfFields
    BY <1>8
  <2>3. /\ Sequence(s.heap) /\ Len(s.heap) = Len(r.heap)
        /\ \A j \in 1 .. Len(s.heap) : DigestShaped(s.heap[j])
    BY <1>10
  <2> QED
    BY <2>1, <2>2, <2>3 DEF Hasher
<1>13. s.fed = Waiting(k)
  BY <1>4, <1>5, <1>8 DEF Waiting, SameLoop
<1>14. s.block \in 1 .. Len(s.heap) /\ s.hash # s.block
  BY <1>7, <1>8, <1>10, <1>11
<1>15. s.result \in 1 .. Len(s.heap) /\ s.result # s.block /\ s.heap[s.result] = u
  BY <1>5, <1>7, <1>8, <1>10, <1>11
<1>16. Iterating(s)
  <2>1. i + 1 \in 1 .. k.iterations /\ i + 1 # 1 /\ (i + 1) - 1 = i
    BY <1>1, <1>2
  <2>2. Hashes(k)[i + 1] = HashOf(k.alg, k.password, k.blockIndex, Before(k).block,
                                  Hashes(k)[(i + 1) - 1], i + 1)
    <3> HIDE DEF i
    <3> QED
      BY <1>1, <2>1, HashIs
  <2>3. Hashes(k)[i + 1].hash = u /\ Hashes(k)[i + 1].sum = new
    BY <1>2, <2>1, <2>2 DEF HashOf, u, new
  <2>4. Hashes(s) = Hashes(k)
    BY <1>11, SameReference
  <2>5. s.alg = "PBKDF2" /\ s.iterations = k.iterations
    BY <1>11 DEF SameKey
  <2>6. s.block # 0 /\ s.i # 1
    BY <1>11, <1>14, <2>1
  <2> QED
    BY <1>10, <1>11, <1>15, <2>1, <2>3, <2>4, <2>5, <2>6 DEF Iterating
<1>17. KdfHolds(s)
  <2>1. Hashed(s, k)
    BY <1>11, <1>12, <1>13, <1>14, <1>16 DEF Hashed
  <2> QED
    BY <2>1, HashedHolds
<1> QED
  BY <1>17, Zenon DEF NextOfPbkdf2, s, r, h, w, a

\* The block, done, is the one of the reference.
LEMMA BlockIs ==
  ASSUME NEW k, KdfHolds(k), k.pc = "iterate", k.i = k.iterations
  PROVE  LET key == k.derivedKey \o k.heap[k.block]
             s == [k EXCEPT !.derivedKey = key, !.blockIndex = @ + 1,
                            !.pc = IF Len(key) < k.keySize THEN "block" ELSE "done"]
         IN  KdfHolds(s)
<1> DEFINE b == k.blockIndex
           w == k.heap[k.block]
           key == k.derivedKey \o w
           pc == IF Len(key) < k.keySize THEN "block" ELSE "done"
           s == [k EXCEPT !.derivedKey = key, !.blockIndex = @ + 1, !.pc = pc]
           n == KeyBlocks(k.keySize)
<1> HIDE DEF s
<1>1. /\ KdfShape(k) /\ Iterating(k) /\ Hasher(k) /\ b \in Nat \ {0} /\ k.keySize \in Nat \ {0}
      /\ k.iterations \in Nat \ {0} /\ Len(k.derivedKey) = (b - 1) * DigestWords
      /\ Len(k.derivedKey) < k.keySize /\ Sequence(k.derivedKey) /\ k.derivedKey = Before(k).key
  BY DEF KdfHolds, KdfShape
<1>2. k.block \in 1 .. Len(k.heap) /\ Sequence(w) /\ Len(w) = DigestWords
  <2>1. k.block \in 0 .. Len(k.heap) /\ Len(k.heap) \in Nat /\ k.block # 0
    BY <1>1, SequenceIs DEF KdfShape, Hasher, Iterating
  <2>2. k.block \in 1 .. Len(k.heap)
    BY <2>1
  <2> QED
    BY <1>1, <2>2 DEF Hasher, DigestShaped
<1>3. DigestWords \in Nat \ {0}
  BY KdfConstants
<1>4. /\ n \in Nat /\ b <= n
      /\ k.keySize <= b * DigestWords => b = n
  <2>1. (b - 1) * DigestWords < k.keySize
    BY <1>1
  <2> HIDE DEF b
  <2> QED
    BY <1>1, <2>1, KeyBlocksIs
<1>5. w = ReferenceBlock(k.alg, k.password, k.iterations, b, Before(k).block)
  <2>1. w = IF k.alg = "PBKDF2" THEN Hashes(k)[k.iterations].sum ELSE Hashes(k)[k.iterations].hash
    BY <1>1 DEF Iterating
  <2> HIDE DEF w
  <2> QED
    BY <2>1 DEF ReferenceBlock, Hashes
<1> HIDE DEF w, n
<1>6. Keys(k)[b].block = w /\ Keys(k)[b].key = key
  <2>1. b \in 0 .. n /\ b # 0
    BY <1>1, <1>4
  <2>2. Keys(k)[b] = KeyOf(k.alg, k.password, k.iterations, Keys(k)[b - 1], b)
    <3>1. k.keySize \in Nat \ {0} /\ b \in 0 .. KeyBlocks(k.keySize)
      BY <1>1, <2>1 DEF n
    <3> HIDE DEF b
    <3> QED
      BY <2>1, <3>1, KeyIs
  <2>3. Keys(k)[b - 1] = Before(k)
    BY DEF Before
  <2>4. Keys(k)[b] = KeyOf(k.alg, k.password, k.iterations, Before(k), b)
    BY <2>2, <2>3
  <2>5. Keys(k)[b].block = w /\ Keys(k)[b].key = Before(k).key \o w
    <3> HIDE DEF b
    <3>1. w = ReferenceBlock(k.alg, k.password, k.iterations, b, Before(k).block)
      BY <1>5
    <3> DEFINE made == ReferenceBlock(k.alg, k.password, k.iterations, b, Before(k).block)
               longer == Before(k).key \o made
               one == KeyOf(k.alg, k.password, k.iterations, Before(k), b)
    <3>2. one = [block |-> made, key |-> longer]
      BY DEF KeyOf
    <3>3. Keys(k)[b] = one
      BY <2>4
    <3> HIDE DEF one, longer, made
    <3>4. one.block = made /\ one.key = longer
      BY <3>2
    <3>5. made = w
      BY <3>1 DEF made
    <3> QED
      BY <3>3, <3>4, <3>5 DEF longer
  <2> QED
    BY <1>1, <2>5
<1>7. Sequence(key) /\ Len(key) = b * DigestWords
  <2>1. Sequence(key) /\ Len(key) = Len(k.derivedKey) + Len(w)
    BY <1>1, <1>2, SequenceConcat
  <2>2. (b - 1) * DigestWords + DigestWords = b * DigestWords
    BY <1>1, <1>3
  <2> QED
    BY <1>1, <1>2, <2>1, <2>2
<1> HIDE DEF key, pc
<1>8. /\ DOMAIN s = KdfFields /\ s.derivedKey = key /\ s.blockIndex = b + 1 /\ s.pc = pc
      /\ s.alg = k.alg /\ s.password = k.password /\ s.fed = k.fed /\ s.heap = k.heap
      /\ s.hash = k.hash /\ s.result = k.result /\ s.block = k.block /\ s.keySize = k.keySize
      /\ s.iterations = k.iterations
  BY <1>1 DEF Hasher, KdfFields, s
<1>9. Hasher(s)
  BY <1>1, <1>8 DEF Hasher
<1>10. Before(s) = Keys(k)[b] /\ (b + 1) - 1 = b /\ b + 1 \in Nat \ {0}
  BY <1>1, <1>8 DEF Before, Keys
<1>11. pc = "block" \/ (pc = "done" /\ ~(Len(key) < k.keySize))
  BY DEF pc
<1>12. IF s.pc = "done" THEN s.blockIndex - 1 = KeyBlocks(s.keySize)
       ELSE Len(s.derivedKey) < s.keySize
  <2>1. CASE Len(key) < k.keySize
    BY <1>8, <2>1 DEF pc
  <2>2. CASE ~(Len(key) < k.keySize)
    <3>1. k.keySize <= b * DigestWords
      <4>1. b * DigestWords \in Nat
        BY <1>1, <1>3
      <4> QED
        BY <1>1, <1>7, <2>2, <4>1
    <3>2. b = n /\ pc = "done"
      BY <1>4, <2>2, <3>1 DEF pc
    <3> QED
      BY <1>8, <1>10, <3>2 DEF n
  <2> QED
    BY <2>1, <2>2
<1>13. KdfShape(s)
  <2>1. s.fed = Waiting(s) /\ s.block \in 0 .. Len(s.heap) /\ s.hash # s.block
        /\ s.alg \in {"PBKDF2", "EvpKDF"} /\ s.keySize \in Nat \ {0} /\ s.iterations \in Nat \ {0}
    BY <1>1, <1>8 DEF KdfShape, Waiting
  <2>2. s.blockIndex \in Nat \ {0} /\ Len(s.derivedKey) = (s.blockIndex - 1) * DigestWords
        /\ Sequence(s.derivedKey) /\ s.derivedKey = Before(s).key
    BY <1>6, <1>7, <1>8, <1>10
  <2>3. s.pc \in {"block", "iterate", "done"}
    BY <1>8, <1>11
  <2> QED
    BY <1>9, <1>12, <2>1, <2>2, <2>3 DEF KdfShape
<1>14. BlockBefore(s)
  <2>1. s.block # 0 /\ s.heap[s.block] = w
    BY <1>2, <1>8 DEF w
  <2> QED
    BY <1>6, <1>10, <2>1 DEF BlockBefore
<1>15. s.pc # "iterate"
  BY <1>8, <1>11
<1>16. KdfHolds(s)
  BY <1>13, <1>14, <1>15 DEF KdfHolds
<1> QED
  BY <1>16 DEF s, pc, key, w

\* A key derivation begins with no block.
LEMMA KdfInitHolds ==
  ASSUME KdfInit
  PROVE  KdfHolds(kdf)
<1>1. PICK alg \in {"PBKDF2", "EvpKDF"}, copies \in BOOLEAN, keySize \in KeySizes,
           iterations \in Iterations, size \in PasswordSizes :
        kdf = IF alg = "PBKDF2" THEN hmacReset(NewKdf(alg, copies, keySize, iterations, size))
              ELSE hasherReset(NewKdf(alg, copies, keySize, iterations, size))
  BY DEF KdfInit
<1> DEFINE k == NewKdf(alg, copies, keySize, iterations, size)
<1>2. /\ DOMAIN k = KdfFields /\ k.pc = "block" /\ k.alg = alg /\ k.keySize = keySize
      /\ k.iterations = iterations /\ k.password = Symbols("password", size) /\ k.fed = <<>>
      /\ k.heap = <<FirstState>> /\ k.hash = 1 /\ k.result = 0 /\ k.block = 0 /\ k.blockIndex = 1
      /\ k.derivedKey = <<>>
  BY DEF NewKdf, KdfFields
<1> HIDE DEF k
<1>3. keySize \in Nat \ {0} /\ iterations \in Nat \ {0} /\ size \in Nat
  BY KeyDerivationAssumption DEF KeyDerivationAssumption
<1>4. Sequence(k.password)
  <2> DEFINE d == Symbols("password", size)
  <2>1. d = [i \in 1 .. size |-> d[i]]
    BY DEF Symbols
  <2> HIDE DEF d
  <2> QED
    BY <1>2, <1>3, <2>1, SequenceOver DEF d
<1>5. Sequence(<<>>) /\ Len(<<>>) = 0
  BY DEF Sequence
<1>6. Sequence(k.heap) /\ Len(k.heap) = 1 /\ k.heap[1] = FirstState
  <2>1. <<FirstState>> \in Seq({FirstState}) /\ Len(<<FirstState>>) = 1 /\ <<FirstState>>[1] = FirstState
    OBVIOUS
  <2> QED
    BY <1>2, <2>1 DEF Sequence
<1>7. DigestShaped(FirstState)
  <2> DEFINE d == FirstState
  <2>1. d = [i \in 1 .. DigestWords |-> d[i]]
    BY DEF FirstState
  <2> HIDE DEF d
  <2>2. DigestWords \in Nat
    BY KdfConstants
  <2> QED
    BY <2>1, <2>2, SequenceOver DEF DigestShaped, d
<1>8. Hasher(k)
  <2>1. 1 \in 1 .. 1 /\ 0 \in 0 .. 1 /\ \A j \in 1 .. 1 : j = 1
    OBVIOUS
  <2> QED
    BY <1>2, <1>4, <1>5, <1>6, <1>7, <2>1 DEF Hasher
<1>9. /\ Hasher(kdf) /\ SameLoop(kdf, k) /\ kdf.fed = Waiting(k) /\ kdf.hash > Len(k.heap)
  <2>1. CASE alg = "PBKDF2"
    <3>1. kdf = hmacReset(k)
      BY <1>1, <2>1 DEF k
    <3> QED
      BY <1>2, <1>8, <2>1, <3>1, HmacResetIs DEF Waiting
  <2>2. CASE alg # "PBKDF2"
    <3>1. kdf = hasherReset(k)
      BY <1>1, <2>2 DEF k
    <3> QED
      BY <1>2, <1>8, <2>2, <3>1, ResetIs DEF Waiting
  <2> QED
    BY <2>1, <2>2
<1>10. /\ kdf.pc = "block" /\ kdf.alg = alg /\ kdf.keySize = keySize /\ kdf.iterations = iterations
       /\ kdf.password = k.password /\ kdf.block = 0 /\ kdf.blockIndex = 1 /\ kdf.derivedKey = <<>>
  BY <1>2, <1>9 DEF SameLoop
<1>11. kdf.fed = Waiting(kdf)
  BY <1>2, <1>9, <1>10 DEF Waiting
<1>12. Before(kdf).key = <<>>
  <2>1. KeyBlocks(kdf.keySize) \in Nat /\ kdf.keySize \in Nat \ {0}
    BY <1>3, <1>10, KeyBlocksIs
  <2>2. 0 \in 0 .. KeyBlocks(kdf.keySize) /\ kdf.blockIndex - 1 = 0
    BY <1>10, <2>1
  <2>3. Keys(kdf)[0] = IF 0 = 0 THEN [block |-> <<>>, key |-> <<>>]
                       ELSE KeyOf(kdf.alg, kdf.password, kdf.iterations, Keys(kdf)[0 - 1], 0)
    BY <2>1, <2>2, KeyIs
  <2> QED
    BY <2>2, <2>3 DEF Before
<1>13. KdfShape(kdf)
  <2>1. kdf.block \in 0 .. Len(kdf.heap) /\ kdf.hash # kdf.block
    <3>1. kdf.hash \in 1 .. Len(kdf.heap) /\ Len(kdf.heap) \in Nat
      BY <1>9, SequenceIs DEF Hasher
    <3> QED
      BY <1>10, <3>1
  <2>2. /\ kdf.blockIndex \in Nat \ {0} /\ Sequence(kdf.derivedKey)
        /\ Len(kdf.derivedKey) = (kdf.blockIndex - 1) * DigestWords
        /\ Len(kdf.derivedKey) < kdf.keySize
    <3>1. (1 - 1) * DigestWords = 0
      BY KdfConstants
    <3> QED
      BY <1>3, <1>5, <1>10, <3>1
  <2> QED
    BY <1>3, <1>9, <1>10, <1>11, <1>12, <2>1, <2>2 DEF KdfShape
<1> QED
  BY <1>10, <1>13 DEF KdfHolds, BlockBefore

\* Every step of a key derivation.
LEMMA KdfStepHolds ==
  ASSUME KdfHolds(kdf), KdfNext
  PROVE  KdfHolds(kdf')
<1>1. kdf.alg = "PBKDF2" \/ kdf.alg = "EvpKDF"
  BY DEF KdfHolds, KdfShape
<1>2. CASE FirstHash
  <2>1. CASE kdf.alg = "PBKDF2"
    <3>1. kdf.pc = "block" /\ kdf' = FirstOfPbkdf2(kdf)
      BY <1>2, <2>1 DEF FirstHash, FirstOfPbkdf2
    <3>2. KdfHolds(FirstOfPbkdf2(kdf))
      BY <2>1, <3>1, FirstPbkdf2
    <3> QED
      BY <3>1, <3>2
  <2>2. CASE kdf.alg = "EvpKDF"
    <3>1. kdf.pc = "block" /\ kdf' = FirstOfEvp(kdf)
      BY <1>2, <2>2 DEF FirstHash, FirstOfEvp
    <3>2. KdfHolds(FirstOfEvp(kdf))
      BY <2>2, <3>1, FirstEvp
    <3> QED
      BY <3>1, <3>2
  <2> QED
    BY <1>1, <2>1, <2>2
<1>3. CASE NextHash
  <2>1. CASE kdf.alg = "PBKDF2"
    <3>1. kdf.pc = "iterate" /\ kdf.i < kdf.iterations /\ kdf' = NextOfPbkdf2(kdf)
      BY <1>3, <2>1 DEF NextHash, NextOfPbkdf2
    <3>2. KdfHolds(NextOfPbkdf2(kdf))
      BY <2>1, <3>1, NextPbkdf2
    <3> QED
      BY <3>1, <3>2
  <2>2. CASE kdf.alg = "EvpKDF"
    <3>1. kdf.pc = "iterate" /\ kdf.i < kdf.iterations /\ kdf' = NextOfEvp(kdf)
      BY <1>3, <2>2 DEF NextHash, NextOfEvp
    <3>2. KdfHolds(NextOfEvp(kdf))
      BY <2>2, <3>1, NextEvp
    <3> QED
      BY <3>1, <3>2
  <2> QED
    BY <1>1, <2>1, <2>2
<1>4. CASE AppendBlock
  <2> DEFINE key == kdf.derivedKey \o kdf.heap[kdf.block]
  <2>1. /\ kdf.pc = "iterate" /\ kdf.i = kdf.iterations
        /\ kdf' = [kdf EXCEPT !.derivedKey = key, !.blockIndex = @ + 1,
                              !.pc = IF Len(key) < kdf.keySize THEN "block" ELSE "done"]
    BY <1>4 DEF AppendBlock
  <2> QED
    BY <2>1, BlockIs
<1> QED
  BY <1>2, <1>3, <1>4 DEF KdfNext

\* A key that is done is the one of the reference.
LEMMA KeyCorrect ==
  ASSUME KdfHolds(kdf)
  PROVE  DerivedKeyCorrect
<1> SUFFICES ASSUME kdf.pc = "done"
             PROVE  SubSeq(kdf.derivedKey, 1, kdf.keySize) = ReferenceKey(kdf)
  BY DEF DerivedKeyCorrect
<1>1. kdf.derivedKey = Keys(kdf)[KeyBlocks(kdf.keySize)].key
  BY DEF KdfHolds, KdfShape, Before
<1> QED
  BY <1>1 DEF ReferenceKey, Keys

\* The types of a key derivation.
LEMMA KdfTypes ==
  ASSUME KdfHolds(kdf)
  PROVE  /\ kdf.hash \in DOMAIN kdf.heap
         /\ kdf.block \in 0 .. Len(kdf.heap) /\ kdf.result \in 0 .. Len(kdf.heap)
         /\ Len(kdf.derivedKey) <= (kdf.blockIndex - 1) * DigestWords
<1>1. KdfShape(kdf) /\ Hasher(kdf)
  BY DEF KdfHolds, KdfShape
<1>2. DOMAIN kdf.heap = 1 .. Len(kdf.heap)
  BY <1>1, SequenceIs DEF Hasher
<1>3. Len(kdf.derivedKey) <= (kdf.blockIndex - 1) * DigestWords
  <2>1. Len(kdf.derivedKey) \in Nat /\ Len(kdf.derivedKey) = (kdf.blockIndex - 1) * DigestWords
    BY <1>1, SequenceIs DEF KdfShape
  <2> DEFINE x == (kdf.blockIndex - 1) * DigestWords
  <2> HIDE DEF x
  <2>2. Len(kdf.derivedKey) <= x
    BY <2>1 DEF x
  <2> QED
    BY <2>2 DEF x
<1> QED
  BY <1>1, <1>2, <1>3 DEF KdfShape, Hasher

-----------------------------------------------------------------------------
\* The bundle.

\* All jobs: the inductive invariant.
StreamHolds ==
    /\ HasherHolds
    /\ IF job = "cipher" THEN CipherHolds ELSE stage = <<"none">>
    /\ IF job = "kdf" THEN KdfHolds(kdf) ELSE kdf.pc = "none"

\* It holds at the beginning.
LEMMA InitHolds ==
  ASSUME Init
  PROVE  StreamHolds
<1>1. HasherHolds
  BY NewHolds DEF Init, HashInit
<1>2. IF job = "cipher" THEN CipherHolds ELSE stage = <<"none">>
  BY CipherInitHolds DEF Init, NoCipher
<1>3. IF job = "kdf" THEN KdfHolds(kdf) ELSE kdf.pc = "none"
  BY KdfInitHolds DEF Init
<1> QED
  BY <1>1, <1>2, <1>3 DEF StreamHolds

\* A step that leaves the hasher alone leaves what it holds.
LEMMA SameHasher ==
  ASSUME HasherHolds, UNCHANGED hashVars
  PROVE  HasherHolds'
BY DEF HasherHolds, DigestOfMessage, hashVars

\* The same for the cipher.
LEMMA SameCipher ==
  ASSUME CipherHolds, UNCHANGED cipherVars
  PROVE  CipherHolds'
BY DEF CipherHolds, CipherShape, Encrypts, Decrypts, RoundTrip, cipherVars

\* Every step of every job keeps it.
LEMMA StepHolds ==
  ASSUME StreamHolds, [Next]_vars
  PROVE  StreamHolds'
<1>1. CASE UNCHANGED vars
  <2>1. UNCHANGED hashVars /\ UNCHANGED cipherVars /\ job' = job /\ kdf' = kdf /\ stage' = stage
    BY <1>1 DEF vars, cipherVars
  <2> QED
    BY <2>1, SameHasher, SameCipher DEF StreamHolds
<1>2. CASE job = "hash" /\ HashNext /\ UNCHANGED <<cipherVars, kdf, job>>
  <2>1. UNCHANGED cipherVars /\ job' = job /\ kdf' = kdf /\ stage' = stage
    BY <1>2 DEF cipherVars
  <2> QED
    BY <1>2, <2>1, HashStepHolds DEF StreamHolds
<1>3. CASE job = "cipher" /\ CipherNext /\ UNCHANGED <<hashVars, kdf, job>>
  <2>1. UNCHANGED hashVars /\ job' = job /\ kdf' = kdf
    BY <1>3
  <2> QED
    BY <1>3, <2>1, SameHasher, CipherStepHolds DEF StreamHolds
<1>4. CASE HashDecrypted
  <2>1. /\ job = "cipher" /\ HashFinalize(text)
        /\ UNCHANGED cipherVars /\ job' = job /\ kdf' = kdf
    BY <1>4 DEF HashDecrypted
  <2>2. WordArray(text)
    BY <2>1 DEF StreamHolds, CipherHolds, CipherShape
  <2> QED
    BY <2>1, <2>2, FinalizeHolds, SameCipher DEF StreamHolds
<1>5. CASE job = "kdf" /\ KdfNext /\ UNCHANGED <<hashVars, cipherVars, job>>
  <2>1. UNCHANGED hashVars /\ UNCHANGED cipherVars /\ job' = job /\ stage' = stage
    BY <1>5 DEF cipherVars
  <2>2. job # "cipher" /\ job' = "kdf"
    BY <1>5, <2>1
  <2> QED
    BY <1>5, <2>1, <2>2, SameHasher, KdfStepHolds DEF StreamHolds
<1> QED
  BY <1>1, <1>2, <1>3, <1>4, <1>5 DEF Next

\* The inductive invariant holds in every state.
LEMMA StreamInvariant == Spec => []StreamHolds
<1>1. Init => StreamHolds
  BY InitHolds
<1>2. StreamHolds /\ [Next]_vars => StreamHolds'
  BY StepHolds
<1> QED
  BY <1>1, <1>2, PTL DEF Spec

\* Types: buffers of hasher and cipher are word arrays with less than what a call
\* processes (BufferedBlockAlgorithm._process), the counter of CTR stays in its
\* word, hasher and results of a key derivation name arrays that exist.
THEOREM CryptoTypes == Spec => []TypeOK
<1>1. ASSUME StreamHolds
      PROVE  TypeOK
  <2>1. IsWordArray(hasher.data) /\ hasher.data.sigBytes < HashBlock
    BY <1>1 DEF StreamHolds, HasherHolds, HasherOk, WordArray
  <2>2. ASSUME job = "cipher"
        PROVE  /\ IsWordArray(cipher.data) /\ IsWordArray(text)
               /\ cipher.data.sigBytes < CipherBlock * (1 + cipher.minBufferSize)
               /\ cipher.counter \in 0 .. CounterWraps - 1
    BY <1>1, <2>2 DEF StreamHolds, CipherHolds, CipherShape, Ciphering, WordArray
  <2>3. ASSUME job = "kdf"
        PROVE  /\ kdf.hash \in DOMAIN kdf.heap
               /\ kdf.block \in 0 .. Len(kdf.heap) /\ kdf.result \in 0 .. Len(kdf.heap)
               /\ Len(kdf.derivedKey) <= (kdf.blockIndex - 1) * DigestWords
    BY <1>1, <2>3, KdfTypes DEF StreamHolds
  <2> QED
    BY <2>1, <2>2, <2>3 DEF TypeOK
<1> QED
  BY <1>1, StreamInvariant, PTL

\* Whatever pieces a message is fed in, and whatever the hasher hashed before,
\* finalize gives the digest of the message by definition, unless the last piece
\* holds bytes past its count (Hasher.finalize, _doFinalize).
THEOREM CryptoDigest == Spec => []DigestOfMessage
<1>1. StreamHolds => DigestOfMessage
  BY DEF StreamHolds, HasherHolds
<1> QED
  BY <1>1, StreamInvariant, PTL

\* A decryptor under the key derived from the password and from the salt that was
\* read gives the bytes that were encrypted, in every mode and for every way to
\* cut message and ciphertext into pieces (BlockCipher, Pkcs7, OpenSSL).
THEOREM CryptoRoundTrip == Spec => []RoundTrip
<1>1. ASSUME StreamHolds
      PROVE  RoundTrip
  <2>1. CASE job = "cipher"
    BY <1>1, <2>1 DEF StreamHolds, CipherHolds
  <2>2. CASE job # "cipher"
    BY <1>1, <2>2 DEF StreamHolds, RoundTrip
  <2> QED
    BY <2>1, <2>2
<1> QED
  BY <1>1, StreamInvariant, PTL

\* What an encryptor gives in pieces is the ciphertext of the definition of its
\* mode (encryptBlock chained by CBC, counted by CTR or by itself in ECB).
THEOREM CryptoCiphertext == Spec => []CiphertextOfMessage
<1>1. ASSUME StreamHolds
      PROVE  CiphertextOfMessage
  <2>1. CASE job = "cipher"
    BY <1>1, <2>1, NothingTaken DEF StreamHolds
  <2>2. CASE job # "cipher"
    BY <1>1, <2>2 DEF StreamHolds, CiphertextOfMessage
  <2> QED
    BY <2>1, <2>2
<1> QED
  BY <1>1, StreamInvariant, PTL

\* A derived key is the one of the definition of PBKDF2 or EvpKDF although the
\* hasher and the loops share arrays (PBKDF2.compute, EvpKDF.compute).
THEOREM CryptoKeys == Spec => []DerivedKeyCorrect
<1>1. ASSUME StreamHolds
      PROVE  DerivedKeyCorrect
  <2>1. CASE job = "kdf"
    BY <1>1, <2>1, KeyCorrect DEF StreamHolds
  <2>2. CASE job # "kdf"
    BY <1>1, <2>2 DEF StreamHolds, DerivedKeyCorrect
  <2> QED
    BY <2>1, <2>2
<1> QED
  BY <1>1, StreamInvariant, PTL
=============================================================================
