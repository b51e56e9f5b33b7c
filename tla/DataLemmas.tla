----------------------------- MODULE DataLemmas -----------------------------
(***************************************************************************)
(* Facts about data that several proofs need: intervals, products and      *)
(* remainders, sequences that are joined and cut, and folds over them.     *)
(***************************************************************************)
EXTENDS Integers, Sequences, SequencesExt, FiniteSets, TLAPS, WellFoundedInduction

LEMMA LeastNatural ==
  ASSUME NEW T, T \subseteq Nat, T # {}
  PROVE  \E x \in T : \A y \in T : x <= y
<1> DEFINE R == {ss \in Nat \X Nat : ss[1] < ss[2]}
<1>1. IsWellFoundedOn(R, Nat)
  BY NatLessThanWellFounded DEF OpToRel
<1>2. \E x \in T : \A y \in T : ~ (<<y, x>> \in R)
  <2> HIDE DEF R
  <2> QED BY <1>1, WFMin
<1>3. PICK x \in T : \A y \in T : ~ (<<y, x>> \in R)
  BY <1>2
<1>4. \A y \in T : ~ (y < x)
  BY <1>3
<1> QED BY <1>4

LEMMA Interval ==
  ASSUME NEW n \in Nat, NEW T, 0 \in T, \A i \in 0..(n-1) : i \in T => i+1 \in T
  PROVE  \A i \in 0..n : i \in T
<1>1. SUFFICES ASSUME {i \in 0..n : i \notin T} # {} PROVE FALSE
  OBVIOUS
<1> DEFINE B == {i \in 0..n : i \notin T}
<1>a. B \subseteq Nat /\ B # {}
  BY <1>1
<1>b. \E x \in B : \A y \in B : x <= y
  <2> HIDE DEF B
  <2> QED BY <1>a, LeastNatural
<1>2. PICK x \in B : \A y \in B : x <= y
  BY <1>b
<1>3. x - 1 \in T /\ x - 1 \in 0..(n-1)
  BY <1>2
<1> QED BY <1>2, <1>3

-----------------------------------------------------------------------------
(* Remainders, for any modulus.                                            *)

LEMMA DivMod ==
  ASSUME NEW a \in Int, NEW n \in Nat \ {0}
  PROVE  /\ a \div n \in Int /\ a % n \in 0 .. n - 1
         /\ a = n * (a \div n) + (a % n)
  OBVIOUS

LEMMA Products ==
  ASSUME NEW n \in Nat, NEW a \in Int, NEW b \in Int
  PROVE  /\ a <= b => n * a <= n * b
         /\ n > 0 /\ n * a <= n * b => a <= b
         /\ n > 0 /\ n * a < n * b => a < b
<1>1. ASSUME NEW d \in Nat PROVE n * d >= 0 /\ (n > 0 /\ d > 0 => n * d > 0)
  OBVIOUS
<1>2. a <= b => n * a <= n * b
  <2> SUFFICES ASSUME a <= b PROVE n * a <= n * b
    OBVIOUS
  <2>1. b - a \in Nat /\ n * (b - a) = n * b - n * a
    OBVIOUS
  <2> QED  BY <1>1, <2>1
<1>3. a > b /\ n > 0 => n * a > n * b
  <2> SUFFICES ASSUME a > b, n > 0 PROVE n * a > n * b
    OBVIOUS
  <2>1. a - b \in Nat /\ a - b > 0 /\ n * (a - b) = n * a - n * b
    OBVIOUS
  <2>2. n * (a - b) > 0
    BY <1>1, <2>1
  <2>3. n * a \in Int /\ n * b \in Int
    OBVIOUS
  <2> QED  BY <2>1, <2>2, <2>3
<1>4. n * a \in Int /\ n * b \in Int
  OBVIOUS
<1> QED  BY <1>2, <1>3, <1>4

LEMMA Unique ==
  ASSUME NEW n \in Nat \ {0}, NEW q \in Int, NEW r \in 0 .. n - 1, NEW p \in Int, NEW t \in 0 .. n - 1,
         n * q + r = n * p + t
  PROVE  q = p /\ r = t
  <1>1. n * (q - p) = t - r
    OBVIOUS
  <1>2. CASE q - p >= 1
    <2>1. n * (q - p) >= n
      BY <1>2
    <2> QED BY <1>1, <2>1
  <1>3. CASE q - p <= -1
    <2>1. n * (q - p) <= -n
      BY <1>3
    <2> QED BY <1>1, <2>1
  <1>4. CASE q - p = 0
    BY <1>1, <1>4
  <1> QED BY <1>2, <1>3, <1>4

LEMMA ModIs ==
  ASSUME NEW n \in Nat \ {0}, NEW q \in Int, NEW r \in 0 .. n - 1
  PROVE  (n * q + r) % n = r
  <1> DEFINE a == n * q + r
  <1>1. a \in Int
    OBVIOUS
  <1> HIDE DEF a
  <1>2. a = n * (a \div n) + (a % n) /\ a \div n \in Int /\ a % n \in 0 .. n - 1
    BY <1>1, DivMod
  <1>3. n * q + r = n * (a \div n) + (a % n)
    BY <1>2 DEF a
  <1>4. r = a % n
    BY <1>2, <1>3, Unique
  <1> QED BY <1>4 DEF a

(* Adding a multiple of the modulus changes nothing.                       *)
LEMMA ModShift ==
  ASSUME NEW n \in Nat \ {0}, NEW a \in Int, NEW q \in Int
  PROVE  (a + (n * q)) % n = a % n
  <1>1. a = (n * (a \div n)) + (a % n) /\ a \div n \in Int /\ a % n \in 0 .. n - 1
    BY DivMod
  <1> DEFINE d == a \div n
             r == a % n
  <1>2. a + (n * q) = (n * (d + q)) + r
    BY <1>1
  <1> HIDE DEF d, r
  <1>3. d + q \in Int /\ r \in 0 .. n - 1
    BY <1>1 DEF d, r
  <1>4. ((n * (d + q)) + r) % n = r
    BY <1>3, ModIs
  <1> QED BY <1>2, <1>4 DEF r

(* The remainder may be taken before adding.                               *)
LEMMA ModAdd ==
  ASSUME NEW n \in Nat \ {0}, NEW a \in Int, NEW b \in Int
  PROVE  /\ ((a % n) + b) % n = (a + b) % n
         /\ (b + (a % n)) % n = (b + a) % n
         /\ (b - (a % n)) % n = (b - a) % n
  <1> DEFINE d == a \div n
             r == a % n
  <1>1. a = (n * d) + r /\ d \in Int /\ r \in Int
    BY DivMod
  <1> HIDE DEF d, r
  <1>2. a + b = (r + b) + (n * d) /\ b - a = (b - r) + (n * (-d)) /\ -d \in Int
    BY <1>1
  <1>3. ((r + b) + (n * d)) % n = (r + b) % n /\ ((b - r) + (n * (-d))) % n = (b - r) % n
    <2>1. r + b \in Int /\ b - r \in Int
      BY <1>1
    <2>2. ((r + b) + (n * d)) % n = (r + b) % n
      BY <1>1, <2>1, ModShift
    <2>3. ((b - r) + (n * (-d))) % n = (b - r) % n
      BY <1>2, <2>1, ModShift
    <2> QED BY <2>2, <2>3
  <1>4. r + b = b + r /\ a + b = b + a
    BY <1>1
  <1> QED BY <1>2, <1>3, <1>4 DEF r

(* The same for a modulus that divides the other one.                      *)
LEMMA ModMod ==
  ASSUME NEW n \in Nat \ {0}, NEW m \in Nat \ {0}, m % n = 0, NEW a \in Int
  PROVE  (a % m) % n = a % n
  <1> DEFINE d == a \div m
             r == a % m
             k == m \div n
  <1>1. a = (m * d) + r /\ d \in Int /\ r \in Int
    BY DivMod
  <1>2. m = n * k /\ k \in Int
    <2>1. m = (n * k) + (m % n) /\ k \in Int
      BY DivMod
    <2> QED BY <2>1
  <1> HIDE DEF d, r, k
  <1>3. (n * k) * d = n * (k * d) /\ k * d \in Int
    BY <1>1, <1>2
  <1>4. a = r + (n * (k * d))
    BY <1>1, <1>2, <1>3
  <1>5. (r + (n * (k * d))) % n = r % n
    BY <1>1, <1>3, ModShift
  <1> QED BY <1>4, <1>5 DEF r

LEMMA ModSmall ==
  ASSUME NEW n \in Nat \ {0}, NEW a \in 0 .. n - 1
  PROVE  a % n = a
  <1>1. (n * 0) + a = a
    OBVIOUS
  <1> QED BY <1>1, ModIs

-----------------------------------------------------------------------------
(* Sequences: joined, cut, and one element longer.                         *)

LEMMA ConcatIs ==
  ASSUME NEW T, NEW a \in Seq(T), NEW d \in Seq(T)
  PROVE  /\ a \o d \in Seq(T) /\ Len(a \o d) = Len(a) + Len(d)
         /\ \A i \in 1 .. Len(a) : (a \o d)[i] = a[i]
         /\ \A i \in 1 .. Len(d) : (a \o d)[Len(a) + i] = d[i]
<1> DEFINE n == Len(a)
           k == Len(d)
           t == a \o d
<1>1. n \in Nat /\ k \in Nat /\ DOMAIN a = 1 .. n /\ DOMAIN d = 1 .. k
  OBVIOUS
<1>2. t \in Seq(T) /\ Len(t) = n + k
  BY <1>1
<1>3. \A i \in 1 .. n : t[i] = a[i]
  BY <1>1
<1>4. ASSUME NEW i \in 1 .. k PROVE t[n + i] = d[i]
  <2>1. n + i \in 1 .. n + k /\ n + i > n /\ n + i - n = i
    BY <1>1
  <2>2. t[n + i] = d[n + i - n]
    BY <1>1, <2>1
  <2> QED  BY <2>1, <2>2
<1> QED  BY <1>2, <1>3, <1>4

LEMMA InsertedIs ==
  ASSUME NEW T, NEW a \in Seq(T), NEW d \in Seq(T), NEW b \in Seq(T)
  PROVE  /\ a \o d \o b \in Seq(T) /\ Len(a \o d \o b) = Len(a) + Len(d) + Len(b)
         /\ \A i \in 1 .. Len(a) : (a \o d \o b)[i] = a[i]
         /\ \A i \in 1 .. Len(d) : (a \o d \o b)[Len(a) + i] = d[i]
         /\ \A i \in 1 .. Len(b) : (a \o d \o b)[Len(a) + Len(d) + i] = b[i]
<1>1. /\ a \o d \in Seq(T) /\ Len(a \o d) = Len(a) + Len(d)
      /\ \A i \in 1 .. Len(a) : (a \o d)[i] = a[i]
      /\ \A i \in 1 .. Len(d) : (a \o d)[Len(a) + i] = d[i]
  BY ConcatIs
<1>2. ASSUME NEW e \in Seq(T)
      PROVE  /\ e \o b \in Seq(T) /\ Len(e \o b) = Len(e) + Len(b)
             /\ \A i \in 1 .. Len(e) : (e \o b)[i] = e[i]
             /\ \A i \in 1 .. Len(b) : (e \o b)[Len(e) + i] = b[i]
  BY ConcatIs
<1> DEFINE e == a \o d
           p == e \o b
           n == Len(a)
           k == Len(d)
           l == Len(b)
<1>3. n \in Nat /\ k \in Nat /\ l \in Nat
  OBVIOUS
<1>4. e \in Seq(T) /\ Len(e) = n + k /\ (\A i \in 1 .. n : e[i] = a[i]) /\ \A i \in 1 .. k : e[n + i] = d[i]
  BY <1>1
<1> HIDE DEF e
<1>5. /\ p \in Seq(T) /\ Len(p) = Len(e) + l
      /\ \A i \in 1 .. Len(e) : p[i] = e[i]
      /\ \A i \in 1 .. l : p[Len(e) + i] = b[i]
  BY <1>2, <1>4
<1> HIDE DEF p, n, k, l
<1>6. (\A i \in 1 .. n : i \in 1 .. n + k) /\ \A i \in 1 .. k : n + i \in 1 .. n + k
  BY <1>3
<1> QED  BY <1>4, <1>5, <1>6 DEF p, e, n, k, l

LEMMA Middle ==
  ASSUME NEW S, NEW s \in Seq(S), NEW j \in 0 .. Len(s), NEW k \in j .. Len(s)
  PROVE  /\ SubSeq(s, j + 1, k) \in Seq(S) /\ Len(SubSeq(s, j + 1, k)) = k - j
         /\ \A i \in 1 .. k - j : SubSeq(s, j + 1, k)[i] = s[j + i]
<1>1. j \in Nat /\ k \in Nat /\ j <= k /\ k <= Len(s) /\ Len(s) \in Nat
  OBVIOUS
<1>2. \A i \in j + 1 .. k : s[i] \in S
  BY <1>1
<1> QED  BY <1>1, <1>2

LEMMA Pieces ==
  ASSUME NEW S, NEW s \in Seq(S), NEW j \in 0 .. Len(s), NEW k \in j .. Len(s)
  PROVE  SubSeq(s, 1, j) \o SubSeq(s, j + 1, k) = SubSeq(s, 1, k)
<1> DEFINE a == SubSeq(s, 1, j)
           d == SubSeq(s, j + 1, k)
           e == SubSeq(s, 1, k)
<1>0. j \in Nat /\ k \in Nat /\ j <= k /\ k <= Len(s) /\ Len(s) \in Nat
  OBVIOUS
<1>1. a \in Seq(S) /\ Len(a) = j /\ \A i \in 1 .. j : a[i] = s[i]
  BY <1>0
<1>2. d \in Seq(S) /\ Len(d) = k - j /\ \A i \in 1 .. k - j : d[i] = s[j + i]
  BY Middle
<1>3. e \in Seq(S) /\ Len(e) = k /\ \A i \in 1 .. k : e[i] = s[i]
  BY <1>0
<1> HIDE DEF a, d, e
<1> DEFINE t == a \o d
<1>4. /\ t \in Seq(S) /\ Len(t) = Len(a) + Len(d)
      /\ \A i \in 1 .. Len(a) : t[i] = a[i]
      /\ \A i \in 1 .. Len(d) : t[Len(a) + i] = d[i]
  BY <1>1, <1>2, ConcatIs
<1> HIDE DEF t
<1>5. Len(t) = k
  BY <1>0, <1>1, <1>2, <1>4
<1>6. ASSUME NEW i \in 1 .. k PROVE t[i] = s[i]
  <2>1. CASE i <= j
    BY <1>0, <1>1, <1>4, <2>1
  <2>2. CASE i > j
    <3>1. i - j \in 1 .. k - j /\ j + (i - j) = i
      BY <1>0, <2>2
    <3>2. t[j + (i - j)] = d[i - j] /\ d[i - j] = s[j + (i - j)]
      BY <1>1, <1>2, <1>4, <3>1
    <3> QED  BY <3>1, <3>2
  <2> QED  BY <1>0, <2>1, <2>2
<1>7. t = [i \in 1 .. k |-> t[i]] /\ e = [i \in 1 .. k |-> e[i]]
  BY <1>3, <1>4, <1>5
<1>8. \A i \in 1 .. k : t[i] = e[i]
  BY <1>3, <1>6
<1>9. t = e
  BY <1>7, <1>8
<1> QED  BY <1>9 DEF t, a, d, e

LEMMA OneLonger ==
  ASSUME NEW S, NEW s \in Seq(S), NEW i \in 0 .. Len(s) - 1
  PROVE  /\ SubSeq(s, 1, i) \in Seq(S) /\ s[i + 1] \in S
         /\ SubSeq(s, 1, i + 1) = Append(SubSeq(s, 1, i), s[i + 1])
<1>1. i \in Nat /\ i + 1 <= Len(s) /\ Len(s) \in Nat
  OBVIOUS
<1> QED  BY <1>1

LEMMA AppendIs ==
  ASSUME NEW S, NEW o \in Seq(S), NEW c \in S
  PROVE  /\ Len(Append(o, c)) = Len(o) + 1 /\ Append(o, c)[Len(o) + 1] = c
         /\ Append(o, c) = [i \in 1 .. Len(o) + 1 |-> Append(o, c)[i]]
         /\ \A i \in 1 .. Len(o) : Append(o, c)[i] = o[i]
<1> DEFINE t == Append(o, c)
           n == Len(o)
<1>1. n \in Nat /\ t \in Seq(S) /\ Len(t) = n + 1 /\ t[n + 1] = c
  OBVIOUS
<1>2. \A i \in 1 .. n : t[i] = o[i]
  OBVIOUS
<1> HIDE DEF t, n
<1>3. t = [i \in 1 .. n + 1 |-> t[i]]
  BY <1>1
<1> QED  BY <1>1, <1>2, <1>3 DEF t, n

LEMMA LastGrows ==
  ASSUME NEW S, NEW o \in Seq(Seq(S)), NEW a \in Seq(S), NEW d \in Seq(S)
  PROVE  [Append(o, a) EXCEPT ![Len(Append(o, a))] = @ \o d] = Append(o, a \o d)
<1> DEFINE n == Len(o)
           x == Append(o, a)
           c == a \o d
           y == [x EXCEPT ![n + 1] = @ \o d]
           z == Append(o, c)
<1>1. n \in Nat /\ Len(x) = n + 1 /\ x[n + 1] = a /\ x = [i \in 1 .. n + 1 |-> x[i]] /\ \A i \in 1 .. n : x[i] = o[i]
  <2> DEFINE E == Seq(S)
  <2>0. n \in Nat
    OBVIOUS
  <2> HIDE DEF E
  <2>1. o \in Seq(E) /\ a \in E
    BY DEF E
  <2> QED  BY <2>0, <2>1, AppendIs
<1>2. c \in Seq(S)
  BY ConcatIs
<1> HIDE DEF c
<1>3. Len(z) = n + 1 /\ z[n + 1] = c /\ z = [i \in 1 .. n + 1 |-> z[i]] /\ \A i \in 1 .. n : z[i] = o[i]
  <2> DEFINE E == Seq(S)
  <2> HIDE DEF E
  <2>1. o \in Seq(E) /\ c \in E
    BY <1>2 DEF E
  <2> QED  BY <2>1, AppendIs
<1> HIDE DEF x, z, n
<1>4. y = [i \in 1 .. n + 1 |-> IF i = n + 1 THEN x[i] \o d ELSE x[i]]
  BY <1>1
<1>5. ASSUME NEW i \in 1 .. n + 1 PROVE (IF i = n + 1 THEN x[i] \o d ELSE x[i]) = z[i]
  <2>1. i # n + 1 => i \in 1 .. n
    BY <1>1
  <2> QED  BY <1>1, <1>3, <2>1 DEF c
<1> HIDE DEF y
<1>6. y = z
  BY <1>3, <1>4, <1>5
<1> QED  BY <1>1, <1>6 DEF x, y, z, c

-----------------------------------------------------------------------------
(* Folds.  FoldLeft is defined by a function over the sets of indices; it  *)
(* exists, and so does the sequence of the intermediate results.           *)

(* The greatest element of a nonempty set of indices.                      *)
LEMMA MaxIn ==
  ASSUME NEW n \in Nat, NEW s \in SUBSET (1 .. n), s # {}
  PROVE  Max(s) \in s /\ \A y \in s : y <= Max(s)
<1> DEFINE T == {n - y : y \in s}
<1>0. \A y \in s : y \in 1 .. n
  OBVIOUS
<1>1. T \subseteq Nat /\ T # {}
  <2>1. \A y \in s : n - y \in Nat
    BY <1>0
  <2> QED  BY <2>1
<1>2. \E x \in T : \A y \in T : x <= y
  <2> HIDE DEF T
  <2> QED  BY <1>1, LeastNatural
<1>3. PICK x \in s : \A y \in s : n - x <= n - y
  BY <1>2
<1>4. \E z \in s : \A y \in s : z >= y
  BY <1>0, <1>3
<1> QED  BY <1>4 DEF Max

LEMMA MaxIs ==
  ASSUME NEW n \in Nat, NEW s \in SUBSET (1 .. n), NEW m \in s, \A y \in s : y <= m
  PROVE  Max(s) = m
<1>1. \A y \in s : y \in 1 .. n
  OBVIOUS
<1>2. Max(s) \in s /\ m <= Max(s)
  BY MaxIn
<1>3. Max(s) <= m
  BY <1>2
<1>4. m \in 1 .. n /\ Max(s) \in 1 .. n
  BY <1>1, <1>2
<1> QED  BY <1>2, <1>3, <1>4

LEMMA TopOf ==
  ASSUME NEW k \in Nat
  PROVE  Max(1 .. k + 1) = k + 1 /\ (1 .. k + 1) \ {k + 1} = 1 .. k
<1>1. k + 1 \in Nat /\ 1 .. k + 1 \in SUBSET (1 .. k + 1) /\ k + 1 \in 1 .. k + 1
  OBVIOUS
<1>2. \A y \in 1 .. k + 1 : y <= k + 1
  OBVIOUS
<1>3. Max(1 .. k + 1) = k + 1
  BY <1>1, <1>2, MaxIs
<1> QED  BY <1>3

(* The functions that FoldLeft chooses from, for an operator given as f.   *)
FoldTables(S, f, base, seq) ==
  {it \in [SUBSET (1 .. Len(seq)) -> S] : \A s \in SUBSET (1 .. Len(seq)) :
     it[s] = IF s = {} THEN base ELSE f[<<it[s \ {Max(s)}], seq[Max(s)]>>]}

LEMMA FoldExists ==
  ASSUME NEW S, NEW E, NEW f \in [S \X E -> S], NEW base \in S, NEW seq \in Seq(E)
  PROVE  FoldTables(S, f, base, seq) # {}
<1> DEFINE n == Len(seq)
           Fold(k, it) == \A s \in SUBSET (1 .. k) :
             it[s] = IF s = {} THEN base ELSE f[<<it[s \ {Max(s)}], seq[Max(s)]>>]
           T == {k \in 0 .. n : \E it \in [SUBSET (1 .. k) -> S] : Fold(k, it)}
<1>1. 0 \in T
  <2> DEFINE it == [s \in SUBSET (1 .. 0) |-> base]
  <2>1. it \in [SUBSET (1 .. 0) -> S] /\ Fold(0, it)
    OBVIOUS
  <2>2. 0 \in 0 .. n
    OBVIOUS
  <2> HIDE DEF it, Fold
  <2> QED  BY <2>1, <2>2
<1>2. ASSUME NEW k \in 0 .. n - 1, k \in T  PROVE k + 1 \in T
  <2>1. PICK it \in [SUBSET (1 .. k) -> S] : Fold(k, it)
    BY <1>2
  <2> DEFINE jt == [s \in SUBSET (1 .. k + 1) |->
                      IF k + 1 \in s THEN f[<<it[s \ {k + 1}], seq[k + 1]>>] ELSE it[s]]
  <2>2. seq[k + 1] \in E /\ k \in Nat
    OBVIOUS
  <2>3. \A s \in SUBSET (1 .. k + 1) : s \ {k + 1} \in SUBSET (1 .. k)
    BY <2>2
  <2>4. \A s \in SUBSET (1 .. k + 1) : k + 1 \notin s => s \in SUBSET (1 .. k)
    BY <2>2
  <2>5. jt \in [SUBSET (1 .. k + 1) -> S]
    <3>1. ASSUME NEW s \in SUBSET (1 .. k + 1)
          PROVE  (IF k + 1 \in s THEN f[<<it[s \ {k + 1}], seq[k + 1]>>] ELSE it[s]) \in S
      BY <2>2, <2>3, <2>4
    <3> QED  BY <3>1
  <2>6. ASSUME NEW s \in SUBSET (1 .. k + 1), s # {}
        PROVE  jt[s] = f[<<jt[s \ {Max(s)}], seq[Max(s)]>>]
    <3>0. k + 1 \in Nat
      BY <2>2
    <3>1. Max(s) \in s
      BY <2>6, <3>0, MaxIn
    <3>2. CASE k + 1 \in s
      <4>1. Max(s) = k + 1
        <5>1. \A y \in s : y <= k + 1
          BY <2>2
        <5> QED  BY <3>0, <3>2, <5>1, MaxIs
      <4>2. jt[s \ {k + 1}] = it[s \ {k + 1}]
        BY <2>3
      <4> QED  BY <3>2, <4>1, <4>2
    <3>3. CASE k + 1 \notin s
      <4>1. s \in SUBSET (1 .. k) /\ s \ {Max(s)} \in SUBSET (1 .. k)
        BY <2>4, <3>3
      <4>2. it[s] = f[<<it[s \ {Max(s)}], seq[Max(s)]>>]
        BY <2>1, <2>6, <4>1
      <4>3. jt[s] = it[s]
        BY <3>3
      <4>4. jt[s \ {Max(s)}] = it[s \ {Max(s)}]
        BY <3>3
      <4> QED  BY <4>2, <4>3, <4>4
    <3> QED  BY <3>2, <3>3
  <2>7. jt[{}] = base
    BY <2>1
  <2> HIDE DEF jt
  <2>8. Fold(k + 1, jt)
    BY <2>6, <2>7
  <2> HIDE DEF Fold
  <2> QED  BY <2>2, <2>5, <2>8
<1>3. n \in T
  <2> HIDE DEF T
  <2>1. n \in Nat
    OBVIOUS
  <2> HIDE DEF n
  <2>2. \A i \in 0 .. n : i \in T
    BY <1>1, <1>2, <2>1, Interval
  <2> QED  BY <2>1, <2>2
<1>4. PICK it \in [SUBSET (1 .. n) -> S] : Fold(n, it)
  BY <1>3
<1>5. it \in FoldTables(S, f, base, seq)
  BY <1>4 DEF FoldTables
<1> QED  BY <1>5

(* What holds at first, and after each element, holds at the end: S[k] is *)
(* where the fold may be after k elements.                                 *)
LEMMA FoldStays ==
  ASSUME NEW S, NEW n \in Nat, NEW it, it[{}] \in S[0],
         \A k \in 0 .. n - 1 : it[1 .. k] \in S[k] => it[1 .. k + 1] \in S[k + 1]
  PROVE  it[1 .. n] \in S[n]
<1> DEFINE T == {k \in 0 .. n : it[1 .. k] \in S[k]}
<1>1. 0 \in T
  <2>1. 1 .. 0 = {}
    OBVIOUS
  <2> QED  BY <2>1
<1>2. \A k \in 0 .. n - 1 : k \in T => k + 1 \in T
  OBVIOUS
<1>3. n \in 0 .. n
  OBVIOUS
<1> HIDE DEF T
<1>4. n \in T
  BY <1>1, <1>2, <1>3, Interval
<1> QED  BY <1>4 DEF T

(* The sets of indices that a fold goes through.                           *)
LEMMA FoldIndices ==
  ASSUME NEW T, NEW seq \in Seq(T)
  PROVE  /\ DOMAIN seq = 1 .. Len(seq) /\ Len(seq) \in Nat
         /\ {} \in SUBSET (DOMAIN seq)
         /\ \A s \in SUBSET (DOMAIN seq) :
              s # {} => /\ Max(s) \in DOMAIN seq /\ seq[Max(s)] \in T
                        /\ s \ {Max(s)} \in SUBSET (DOMAIN seq)
         /\ \A k \in 0 .. Len(seq) - 1 :
              /\ 1 .. k + 1 \in SUBSET (DOMAIN seq) /\ 1 .. k + 1 # {} /\ seq[k + 1] \in T
              /\ Max(1 .. k + 1) = k + 1 /\ (1 .. k + 1) \ {k + 1} = 1 .. k
<1>1. DOMAIN seq = 1 .. Len(seq) /\ Len(seq) \in Nat
  OBVIOUS
<1>2. ASSUME NEW s \in SUBSET (DOMAIN seq), s # {}
      PROVE  /\ Max(s) \in DOMAIN seq /\ seq[Max(s)] \in T
             /\ s \ {Max(s)} \in SUBSET (DOMAIN seq)
  <2>1. Max(s) \in s
    BY <1>1, <1>2, MaxIn
  <2>2. Max(s) \in DOMAIN seq
    BY <2>1
  <2> QED  BY <2>2
<1>3. ASSUME NEW k \in 0 .. Len(seq) - 1
      PROVE  /\ 1 .. k + 1 \in SUBSET (DOMAIN seq) /\ 1 .. k + 1 # {} /\ seq[k + 1] \in T
             /\ Max(1 .. k + 1) = k + 1 /\ (1 .. k + 1) \ {k + 1} = 1 .. k
  <2>1. k \in Nat /\ k + 1 <= Len(seq) /\ k + 1 \in DOMAIN seq
    BY <1>1
  <2>2. 1 .. k + 1 \in SUBSET (DOMAIN seq)
    <3>1. \A j \in 1 .. k + 1 : j \in 1 .. Len(seq)
      BY <1>1, <2>1
    <3> QED  BY <1>1, <3>1
  <2>3. k + 1 \in 1 .. k + 1
    BY <2>1
  <2>4. seq[k + 1] \in T
    BY <2>1
  <2>5. Max(1 .. k + 1) = k + 1 /\ (1 .. k + 1) \ {k + 1} = 1 .. k
    BY <2>1, TopOf
  <2> QED  BY <2>2, <2>3, <2>4, <2>5
<1> QED  BY <1>1, <1>2, <1>3

(* The results of a fold after each of the elements.                       *)
FoldSteps(S, f, base, seq) ==
  {g \in [0 .. Len(seq) -> S] :
     g[0] = base /\ \A k \in 0 .. Len(seq) - 1 : g[k + 1] = f[<<g[k], seq[k + 1]>>]}

LEMMA FoldStepsExist ==
  ASSUME NEW S, NEW E, NEW f \in [S \X E -> S], NEW base \in S, NEW seq \in Seq(E)
  PROVE  FoldSteps(S, f, base, seq) # {}
<1> DEFINE n == Len(seq)
<1>1. PICK it : it \in FoldTables(S, f, base, seq)
  <2>1. FoldTables(S, f, base, seq) # {}
    BY FoldExists
  <2> QED  BY <2>1
<1> DEFINE g == [k \in 0 .. n |-> it[1 .. k]]
<1>2. n \in Nat /\ DOMAIN seq = 1 .. n
  OBVIOUS
<1>3. \A k \in 0 .. n : 1 .. k \in SUBSET (1 .. n)
  <2> SUFFICES ASSUME NEW k \in 0 .. n, NEW i \in 1 .. k PROVE i \in 1 .. n
    OBVIOUS
  <2> HIDE DEF n
  <2> QED  BY <1>2
<1>4. g \in [0 .. n -> S]
  BY <1>1, <1>3 DEF FoldTables
<1>5. g[0] = base
  <2>1. 1 .. 0 = {} /\ 0 \in 0 .. n
    BY <1>2
  <2>2. it[{}] = base
    BY <1>1 DEF FoldTables
  <2> QED  BY <2>1, <2>2
<1>6. ASSUME NEW k \in 0 .. n - 1 PROVE g[k + 1] = f[<<g[k], seq[k + 1]>>]
  <2>1. /\ 1 .. k + 1 \in SUBSET (1 .. n) /\ 1 .. k + 1 # {}
        /\ Max(1 .. k + 1) = k + 1 /\ (1 .. k + 1) \ {k + 1} = 1 .. k
    BY <1>2, FoldIndices
  <2>2. it[1 .. k + 1] = f[<<it[1 .. k], seq[k + 1]>>]
    BY <1>1, <2>1 DEF FoldTables
  <2>3. k \in 0 .. n /\ k + 1 \in 0 .. n
    BY <1>2
  <2> QED  BY <2>2, <2>3
<1> HIDE DEF g
<1>7. g \in FoldSteps(S, f, base, seq)
  BY <1>4, <1>5, <1>6 DEF FoldSteps
<1> QED  BY <1>7

LEMMA FoldStepsAgree ==
  ASSUME NEW S, NEW f, NEW base, NEW seq, Len(seq) \in Nat,
         NEW g \in FoldSteps(S, f, base, seq), NEW h \in FoldSteps(S, f, base, seq)
  PROVE  g[Len(seq)] = h[Len(seq)]
<1> DEFINE n == Len(seq)
           T == {k \in 0 .. n : g[k] = h[k]}
<1>1. 0 \in T
  BY DEF FoldSteps
<1>2. ASSUME NEW k \in 0 .. n - 1, k \in T PROVE k + 1 \in T
  <2>1. k + 1 \in 0 .. n
    OBVIOUS
  <2>2. g[k + 1] = h[k + 1]
    BY <1>2 DEF FoldSteps
  <2> QED  BY <2>1, <2>2
<1>3. n \in Nat /\ n \in 0 .. n
  OBVIOUS
<1> HIDE DEF T
<1>4. n \in T
  <2> HIDE DEF n
  <2> QED  BY <1>1, <1>2, <1>3, Interval
<1> QED  BY <1>4 DEF T

(* The end of a fold, for an operator given as f.                          *)
Folded(S, f, base, seq) == (CHOOSE g \in FoldSteps(S, f, base, seq) : TRUE)[Len(seq)]

(* What the next lemmas conclude, named: the provers find the instance of  *)
(* a predicate where they do not find that of an equation.                 *)
IsFolded(S, f, base, seq, y) == y = Folded(S, f, base, seq)
Advances(S, f, base, seq, x) == Folded(S, f, base, Append(seq, x)) = f[<<Folded(S, f, base, seq), x>>]

LEMMA FoldedIn ==
  ASSUME NEW S, NEW E, NEW f \in [S \X E -> S], NEW base \in S, NEW seq \in Seq(E)
  PROVE  Folded(S, f, base, seq) \in S
<1> DEFINE h == CHOOSE g \in FoldSteps(S, f, base, seq) : TRUE
<1>1. h \in FoldSteps(S, f, base, seq)
  BY FoldStepsExist
<1>2. Folded(S, f, base, seq) = h[Len(seq)] /\ Len(seq) \in 0 .. Len(seq)
  BY DEF Folded
<1> HIDE DEF h
<1> QED  BY <1>1, <1>2 DEF FoldSteps

LEMMA FoldedIs ==
  ASSUME NEW S, NEW f, NEW base, NEW seq, Len(seq) \in Nat, NEW g \in FoldSteps(S, f, base, seq)
  PROVE  Folded(S, f, base, seq) = g[Len(seq)]
<1> DEFINE h == CHOOSE z \in FoldSteps(S, f, base, seq) : TRUE
<1>1. h \in FoldSteps(S, f, base, seq)
  OBVIOUS
<1>2. Folded(S, f, base, seq) = h[Len(seq)]
  BY DEF Folded
<1> HIDE DEF h
<1> QED  BY <1>1, <1>2, FoldStepsAgree

(* FoldLeft ends where the fold of f does, if each of its steps is one of  *)
(* f as long as it stays in S.                                             *)
LEMMA FoldedFrom ==
  ASSUME NEW S, NEW E, NEW f \in [S \X E -> S], NEW base \in S, NEW seq \in Seq(E), NEW it, it[{}] = base,
         \A k \in 0 .. Len(seq) - 1 :
           it[1 .. k] \in S => it[1 .. k + 1] = f[<<it[1 .. k], seq[k + 1]>>]
  PROVE  IsFolded(S, f, base, seq, it[DOMAIN seq])
<1> DEFINE n == Len(seq)
<1>1. PICK g : g \in FoldSteps(S, f, base, seq)
  <2>1. FoldSteps(S, f, base, seq) # {}
    BY FoldStepsExist
  <2> QED  BY <2>1
<1> DEFINE T == {k \in 0 .. n : it[1 .. k] = g[k]}
<1>2. n \in Nat /\ DOMAIN seq = 1 .. n
  OBVIOUS
<1>3. 0 \in T
  <2>1. 1 .. 0 = {} /\ 0 \in 0 .. n /\ g[0] = base
    BY <1>1, <1>2 DEF FoldSteps
  <2> QED  BY <2>1
<1>4. ASSUME NEW k \in 0 .. n - 1, k \in T PROVE k + 1 \in T
  <2>1. g[k + 1] = f[<<g[k], seq[k + 1]>>] /\ k + 1 \in 0 .. n /\ g[k] \in S
    BY <1>1, <1>2, <1>4 DEF FoldSteps
  <2> QED  BY <1>4, <2>1
<1> HIDE DEF T
<1>5. n \in T
  <2> HIDE DEF n
  <2>1. n \in 0 .. n
    BY <1>2
  <2> QED  BY <1>2, <1>3, <1>4, <2>1, Interval
<1>6. it[1 .. n] = g[n] /\ Folded(S, f, base, seq) = g[n]
  BY <1>1, <1>2, <1>5, FoldedIs DEF T
<1> QED  BY <1>2, <1>6 DEF IsFolded

LEMMA FoldedEmpty ==
  ASSUME NEW S, NEW E, NEW f \in [S \X E -> S], NEW base \in S
  PROVE  IsFolded(S, f, base, <<>>, base)
<1>1. <<>> \in Seq(E) /\ Len(<<>>) = 0
  OBVIOUS
<1>2. PICK d : d \in FoldSteps(S, f, base, <<>>)
  BY <1>1, FoldStepsExist
<1>3. d[0] = base
  BY <1>2 DEF FoldSteps
<1> DEFINE e == <<>>
<1> HIDE DEF e
<1>4. e \in Seq(E) /\ Len(e) = 0 /\ d \in FoldSteps(S, f, base, e)
  BY <1>1, <1>2 DEF e
<1>5. Len(e) \in Nat
  BY <1>4
<1>6. Folded(S, f, base, e) = d[0]
  BY <1>4, <1>5, FoldedIs
<1> QED  BY <1>3, <1>6 DEF e, IsFolded

LEMMA FoldedAppend ==
  ASSUME NEW S, NEW E, NEW f \in [S \X E -> S], NEW base \in S, NEW seq \in Seq(E), NEW x \in E
  PROVE  Advances(S, f, base, seq, x)
<1> DEFINE n == Len(seq)
           t == Append(seq, x)
<1>1. n \in Nat
  OBVIOUS
<1>2. t \in Seq(E) /\ Len(t) = n + 1 /\ t[n + 1] = x /\ \A i \in 1 .. n : t[i] = seq[i]
  OBVIOUS
<1>3. PICK g : g \in FoldSteps(S, f, base, seq)
  <2>1. FoldSteps(S, f, base, seq) # {}
    BY FoldStepsExist
  <2> QED  BY <2>1
<1> DEFINE y == f[<<g[n], x>>]
           h == [k \in 0 .. n + 1 |-> IF k = n + 1 THEN y ELSE g[k]]
<1>4. y \in S
  <2>1. g[n] \in S
    BY <1>1, <1>3 DEF FoldSteps
  <2>2. <<g[n], x>> \in S \X E
    BY <2>1
  <2> QED  BY <2>2
<1> HIDE DEF t, y, n
<1>5. g \in [0 .. n -> S] /\ g[0] = base /\ \A k \in 0 .. n - 1 : g[k + 1] = f[<<g[k], seq[k + 1]>>]
  BY <1>3 DEF FoldSteps, n
<1>6. /\ \A k \in 0 .. n + 1 : h[k] = (IF k = n + 1 THEN y ELSE g[k]) /\ (k # n + 1 => k \in 0 .. n)
      /\ h \in [0 .. n + 1 -> S]
  BY <1>1, <1>4, <1>5
<1> HIDE DEF h
<1>7. h[0] = base
  BY <1>1, <1>5, <1>6
<1>8. ASSUME NEW k \in 0 .. n PROVE h[k + 1] = f[<<h[k], t[k + 1]>>]
  <2>1. k \in 0 .. n + 1 /\ k + 1 \in 0 .. n + 1 /\ k # n + 1 /\ (k # n => k \in 0 .. n - 1 /\ k + 1 \in 1 .. n)
    BY <1>1
  <2>2. h[k] = g[k]
    BY <1>6, <2>1
  <2>3. CASE k = n
    BY <1>2, <1>6, <2>1, <2>2, <2>3 DEF y
  <2>4. CASE k # n
    <3>1. h[k + 1] = g[k + 1] /\ t[k + 1] = seq[k + 1]
      BY <1>1, <1>2, <1>6, <2>1, <2>4
    <3> QED  BY <1>5, <2>1, <2>2, <2>4, <3>1
  <2> QED  BY <2>3, <2>4
<1>9. h \in FoldSteps(S, f, base, t)
  <2>1. n + 1 - 1 = n
    BY <1>1
  <2> QED  BY <1>2, <1>6, <1>7, <1>8, <2>1 DEF FoldSteps
<1>10. Folded(S, f, base, t) = h[n + 1] /\ Folded(S, f, base, seq) = g[n]
  <2>1. Folded(S, f, base, t) = h[Len(t)]
    BY <1>1, <1>2, <1>9, FoldedIs
  <2>2. Folded(S, f, base, seq) = g[Len(seq)]
    BY <1>1, <1>3, FoldedIs DEF n
  <2> QED  BY <1>2, <2>1, <2>2 DEF n
<1>11. h[n + 1] = f[<<g[n], x>>]
  <2>1. n + 1 \in 0 .. n + 1
    BY <1>1
  <2>2. h[n + 1] = y
    BY <1>6, <2>1
  <2> QED  BY <2>2 DEF y
<1> QED  BY <1>10, <1>11 DEF t, Advances
=============================================================================
