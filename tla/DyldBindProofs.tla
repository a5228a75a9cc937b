--------------------------- MODULE DyldBindProofs ---------------------------
(***************************************************************************)
(* Proofs about DyldBind for every sequence of bytes and every word size:  *)
(* operands fit their words, and the second pass does what the first one   *)
(* counted, so that the table is filled exactly.                           *)
(***************************************************************************)
EXTENDS BindProgram, Counting, SequenceTheorems

------------------------------------------------------------------------------
(* Numbers. *)

(* Least picks the least member. *)
LEMMA LeastIn ==
  ASSUME NEW q \in Nat, NEW r \in Nat, NEW S, S \subseteq q .. r, S # {}
  PROVE  Least(S) \in S /\ \A j \in S : Least(S) <= j
<1>1. S \subseteq Nat
  OBVIOUS
<1>2. \E x \in S : \A j \in S : x <= j
  BY <1>1, LeastNumber
<1> QED
  BY <1>2 DEF Least

(* Partial sums: the recursion has a solution on every interval.           *)
Sums(T, q, f) == \A j \in DOMAIN f : f[j] = T[j] + (IF j = q THEN 0 ELSE f[j - 1])

LEMMA SumsExist ==
  ASSUME NEW T, NEW q \in Nat
  PROVE  \A k \in Nat : \E f : DOMAIN f = q .. q + k /\ Sums(T, q, f)
<1> DEFINE S == {k \in Nat : \E f : DOMAIN f = q .. q + k /\ Sums(T, q, f)}
<1>1. 0 \in S
  <2> DEFINE f == [j \in q .. q + 0 |-> T[j] + 0]
  <2>1. \A j \in q .. q + 0 : j = q
    OBVIOUS
  <2>2. DOMAIN f = q .. q + 0 /\ Sums(T, q, f)
    BY <2>1 DEF Sums
  <2> QED
    BY <2>2
<1>2. ASSUME NEW k \in Nat, k \in S
      PROVE  k + 1 \in S
  <2>1. PICK g : DOMAIN g = q .. q + k /\ Sums(T, q, g)
    BY <1>2
  <2> DEFINE top == q + (k + 1)
             f == [j \in q .. top |-> IF j = top THEN T[j] + g[j - 1] ELSE g[j]]
  <2>2. /\ \A j \in q .. top : j = top \/ j \in q .. q + k
        /\ top - 1 \in q .. q + k /\ top # q /\ top - 1 # top
        /\ \A j \in q .. q + k : /\ j # top /\ j - 1 # top
                                 /\ j # q => j - 1 \in q .. q + k
                                 /\ j \in q .. top
        /\ top \in q .. top
    OBVIOUS
  <2> HIDE DEF top
  <2>3. \A j \in q .. q + k : f[j] = g[j]
    BY <2>2
  <2>4. f[top] = T[top] + f[top - 1]
    BY <2>2, <2>3
  <2>5. \A j \in q .. q + k : f[j] = T[j] + (IF j = q THEN 0 ELSE f[j - 1])
    BY <2>1, <2>2, <2>3 DEF Sums
  <2>6. DOMAIN f = q .. top /\ Sums(T, q, f)
    BY <2>2, <2>4, <2>5 DEF Sums
  <2> QED
    BY <2>6 DEF top
<1> HIDE DEF S
<1>3. \A k \in Nat : k \in S
  BY <1>1, <1>2, AllNumbers
<1> QED
  BY <1>3 DEF S

------------------------------------------------------------------------------
(* Operands. *)

Weight(j, q) == Slice(j) * 2 ^ (7 * (j - q))

LEMMA JoinedIs ==
  ASSUME NEW q \in Nat, NEW i \in Nat, q <= i
  PROVE  \E f : /\ DOMAIN f = q .. i
                /\ \A j \in q .. i : f[j] = Weight(j, q) + (IF j = q THEN 0 ELSE f[j - 1])
                /\ Joined(q, i) = f[i]
<1> DEFINE T == [j \in q .. i |-> Weight(j, q)]
           Is(f) == f = [j \in q .. i |-> Slice(j) * 2 ^ (7 * (j - q)) + (IF j = q THEN 0 ELSE f[j - 1])]
           Sum == CHOOSE f : Is(f)
<1>1. Joined(q, i) = Sum[i]
  BY DEF Joined
<1>2. PICK g : DOMAIN g = q .. i /\ Sums(T, q, g)
  <2>1. i - q \in Nat /\ q + (i - q) = i
    OBVIOUS
  <2>2. \A k \in Nat : \E f : DOMAIN f = q .. q + k /\ Sums(T, q, f)
    BY SumsExist
  <2>3. PICK f : DOMAIN f = q .. q + (i - q) /\ Sums(T, q, f)
    BY <2>1, <2>2
  <2> QED
    BY <2>1, <2>3
<1> DEFINE h == [j \in q .. i |-> g[j]]
<1>3. \A j \in q .. i : g[j] = Weight(j, q) + (IF j = q THEN 0 ELSE g[j - 1])
  BY <1>2 DEF Sums
<1>4. \A j \in q .. i : j # q => j - 1 \in q .. i
  OBVIOUS
<1>5. \A j \in q .. i : h[j] = Slice(j) * 2 ^ (7 * (j - q)) + (IF j = q THEN 0 ELSE h[j - 1])
  BY <1>3, <1>4 DEF Weight
<1>6. Is(h)
  <2> DEFINE k == [j \in q .. i |-> Slice(j) * 2 ^ (7 * (j - q)) + (IF j = q THEN 0 ELSE h[j - 1])]
  <2>1. \A j \in q .. i : k[j] = h[j]
    BY <1>5
  <2>2. k = h
    BY <2>1
  <2> QED
    BY <2>2
<1>7. Is(Sum)
  BY <1>6
<1> HIDE DEF Sum
<1>8. DOMAIN Sum = q .. i
  BY <1>7
<1>9. \A j \in q .. i : Sum[j] = Weight(j, q) + (IF j = q THEN 0 ELSE Sum[j - 1])
  BY <1>7 DEF Weight
<1> QED
  BY <1>1, <1>8, <1>9

LEMMA Words ==
  /\ W32 \in Nat \ {0} /\ W64 \in Nat \ {0}
  /\ \A v \in Int : v % W64 \in 0 .. W64 - 1 /\ v % W32 \in 0 .. W32 - 1
<1>1. W32 \in Nat \ {0} /\ W64 \in Nat \ {0}
  BY BitsAssumption, PowerAssumption DEF W32, W64
<1>2. \A w \in Nat \ {0} : \A v \in Int : v % w \in 0 .. w - 1
  OBVIOUS
<1> QED
  BY <1>1, <1>2

LEMMA SliceType ==
  ASSUME bytes \in Seq(Byte), NEW j \in 1 .. Len(bytes)
  PROVE  Slice(j) \in 0 .. 127
<1>0. bytes[j] \in Byte
  OBVIOUS
<1>1. bytes[j] \in 0 .. 255
  BY <1>0 DEF Byte
<1>2. \A b \in 0 .. 255 : b % 128 \in 0 .. 127
  OBVIOUS
<1> QED
  BY <1>1, <1>2 DEF Slice

LEMMA JoinedInt ==
  ASSUME bytes \in Seq(Byte), NEW q \in Nat \ {0}, NEW i \in Nat, q <= i, i <= Len(bytes)
  PROVE  Joined(q, i) \in Int
<1>1. PICK f : /\ DOMAIN f = q .. i
               /\ \A j \in q .. i : f[j] = Weight(j, q) + (IF j = q THEN 0 ELSE f[j - 1])
               /\ Joined(q, i) = f[i]
  BY JoinedIs
<1>2. \A j \in q .. i : Weight(j, q) \in Int
  <2> SUFFICES ASSUME NEW j \in q .. i PROVE Weight(j, q) \in Int
    OBVIOUS
  <2>1. Len(bytes) \in Nat
    OBVIOUS
  <2>2. j \in 1 .. Len(bytes) /\ 7 * (j - q) \in Nat
    BY <2>1
  <2>3. Slice(j) \in Int
    <3>1. Slice(j) \in 0 .. 127
      BY <2>2, SliceType
    <3>2. \A x \in 0 .. 127 : x \in Int
      OBVIOUS
    <3> QED
      BY <3>1, <3>2
  <2>4. \A e \in Nat : 2 ^ e \in Int
    OBVIOUS
  <2>5. 2 ^ (7 * (j - q)) \in Int
    BY <2>2, <2>4
  <2>6. \A a, b \in Int : a * b \in Int
    OBVIOUS
  <2> QED
    BY <2>3, <2>5, <2>6 DEF Weight
<1> DEFINE S == {k \in Nat : q + k <= i => f[q + k] \in Int}
<1>3. 0 \in S
  <2>1. q \in q .. i /\ q + 0 = q
    OBVIOUS
  <2>2. f[q] = Weight(q, q) + 0
    BY <1>1, <2>1
  <2>3. Weight(q, q) \in Int
    BY <1>2, <2>1
  <2> QED
    BY <2>1, <2>2, <2>3
<1>4. ASSUME NEW k \in Nat, k \in S
      PROVE  k + 1 \in S
  <2> SUFFICES ASSUME q + (k + 1) <= i PROVE f[q + (k + 1)] \in Int
    OBVIOUS
  <2> DEFINE j == q + (k + 1)
  <2>1. j \in q .. i /\ j # q /\ j - 1 = q + k /\ q + k <= i
    OBVIOUS
  <2>2. f[q + k] \in Int
    BY <1>4, <2>1
  <2>3. Weight(j, q) \in Int
    BY <1>2, <2>1
  <2> HIDE DEF j
  <2>4. f[j] = Weight(j, q) + f[q + k]
    BY <1>1, <2>1
  <2> QED
    BY <2>2, <2>3, <2>4 DEF j
<1> HIDE DEF S
<1>5. \A k \in Nat : k \in S
  BY <1>3, <1>4, AllNumbers
<1>6. i - q \in Nat /\ q + (i - q) = i /\ i <= i
  OBVIOUS
<1>7. f[q + (i - q)] \in Int
  BY <1>5, <1>6 DEF S
<1> QED
  BY <1>1, <1>6, <1>7

(* Slices that fit, joined: below the weight of the next slice while that  *)
(* is a weight of the word, and in the word in any case.                   *)
LEMMA NextWeight ==
  ASSUME NEW e \in Nat, NEW d \in Nat, e + d <= Bits64 + 6
  PROVE  2 ^ (e + d) = 2 ^ e * 2 ^ d /\ 2 ^ e \in Nat \ {0} /\ 2 ^ d \in Nat \ {0}
<1>1. e \in 0 .. Bits64 + 6 /\ d \in 0 .. Bits64 + 6 - e /\ d \in 0 .. Bits64 + 6
  BY BitsAssumption
<1> QED
  BY <1>1, PowerAssumption

LEMMA Power ==
  ASSUME NEW e \in Nat, e <= Bits64 + 6
  PROVE  2 ^ e \in Nat \ {0}
<1>1. e \in 0 .. Bits64 + 6
  BY BitsAssumption
<1> QED
  BY <1>1, PowerAssumption

LEMMA SliceBelow ==
  ASSUME NEW s \in Nat, NEW low \in Nat, NEW w \in Nat, NEW m \in Nat, low < w, s < m
  PROVE  s * w + low < m * w
<1>1. s + 1 <= m
  OBVIOUS
<1>2. (s + 1) * w <= m * w
  BY <1>1
<1>3. (s + 1) * w = s * w + w
  OBVIOUS
<1>4. s * w \in Int /\ m * w \in Int
  OBVIOUS
<1> QED
  BY <1>2, <1>3, <1>4

LEMMA CancelWeight ==
  ASSUME NEW s \in Nat, NEW w \in Nat \ {0}, NEW m \in Nat, s * w < w * m
  PROVE  s < m
<1> SUFFICES ASSUME m <= s PROVE FALSE
  OBVIOUS
<1>1. m * w <= s * w
  OBVIOUS
<1>2. m * w = w * m /\ s * w \in Int /\ m * w \in Int
  OBVIOUS
<1> QED
  BY <1>1, <1>2

LEMMA JoinedFits ==
  ASSUME bytes \in Seq(Byte), NEW q \in Nat \ {0}, NEW i \in Nat, q <= i, i <= Len(bytes),
         \A j \in q .. i : Fits(q, j)
  PROVE  Joined(q, i) \in 0 .. W64 - 1
<1>1. PICK f : /\ DOMAIN f = q .. i
               /\ \A j \in q .. i : f[j] = Weight(j, q) + (IF j = q THEN 0 ELSE f[j - 1])
               /\ Joined(q, i) = f[i]
  BY JoinedIs
<1>2. W64 \in Nat \ {0} /\ Bits64 \in Nat
  BY Words, BitsAssumption
<1>3. ASSUME NEW j \in q .. i
      PROVE  /\ 7 * (j - q) \in Nat /\ 7 * (j - q) < Bits64
             /\ 2 ^ (7 * (j - q)) \in Nat \ {0}
             /\ Slice(j) \in 0 .. 127
             /\ Slice(j) * 2 ^ (7 * (j - q)) < W64
             /\ Weight(j, q) = Slice(j) * 2 ^ (7 * (j - q))
  <2>1. Len(bytes) \in Nat /\ 7 * (j - q) \in Nat
    OBVIOUS
  <2>2. j \in 1 .. Len(bytes)
    BY <2>1
  <2>3. Slice(j) \in 0 .. 127
    BY <2>2, SliceType
  <2>4. 7 * (j - q) < Bits64 /\ Slice(j) * 2 ^ (7 * (j - q)) < W64
    BY DEF Fits
  <2>5. 7 * (j - q) <= Bits64 + 6
    BY <1>2, <2>1, <2>4
  <2>6. 2 ^ (7 * (j - q)) \in Nat \ {0}
    BY <2>1, <2>5, Power
  <2> QED
    BY <2>1, <2>3, <2>4, <2>6 DEF Weight
(* What has been joined is below the weight of the slice to come.          *)
<1> DEFINE S == {k \in Nat : q + k <= i =>
                   /\ f[q + k] \in 0 .. W64 - 1
                   /\ 7 * (k + 1) <= Bits64 => f[q + k] < 2 ^ (7 * (k + 1))}
<1>4. 0 \in S
  <2>1. q \in q .. i /\ q + 0 = q /\ 7 * (q - q) = 0 /\ 7 * (0 + 1) = 7
    OBVIOUS
  <2>2. f[q] = Weight(q, q) + 0
    BY <1>1, <2>1
  <2>3. Slice(q) \in 0 .. 127 /\ Slice(q) * 2 ^ 0 < W64 /\ Weight(q, q) = Slice(q) * 2 ^ 0
    BY <1>3, <2>1
  <2>4. \A x \in 0 .. 127 : x * 1 = x /\ x + 0 = x /\ x \in Nat /\ x < 128
    OBVIOUS
  <2>5. 2 ^ 0 = 1 /\ 2 ^ 7 = 128
    BY PowerAssumption
  <2>6. f[q] = Slice(q) /\ Slice(q) < W64
    <3> DEFINE s == Slice(q)
               w == 2 ^ 0
    <3>1. s \in 0 .. 127 /\ s * w < W64 /\ f[q] = s * w + 0 /\ w = 1
      BY <2>2, <2>3, <2>5
    <3> HIDE DEF s, w
    <3>2. s * w = s
      BY <2>4, <3>1
    <3>3. f[q] = s /\ s < W64
      BY <2>4, <3>1, <3>2
    <3> QED
      BY <3>3 DEF s
  <2>7. \A w \in Nat \ {0} : \A x \in Nat : x < w => x \in 0 .. w - 1
    OBVIOUS
  <2>8. f[q] \in 0 .. W64 - 1 /\ f[q] < 128
    BY <1>2, <2>3, <2>4, <2>6, <2>7
  <2> QED
    BY <2>1, <2>5, <2>8
<1>5. ASSUME NEW k \in Nat, k \in S
      PROVE  k + 1 \in S
  <2> SUFFICES ASSUME q + (k + 1) <= i
               PROVE  /\ f[q + (k + 1)] \in 0 .. W64 - 1
                      /\ 7 * (k + 1 + 1) <= Bits64 => f[q + (k + 1)] < 2 ^ (7 * (k + 1 + 1))
    OBVIOUS
  <2> DEFINE j == q + (k + 1)
             e == 7 * (k + 1)
             s == Slice(j)
             w == 2 ^ e
             low == f[q + k]
  <2>1. j \in q .. i /\ j # q /\ j - 1 = q + k /\ q + k <= i /\ 7 * (j - q) = e /\ e \in Nat
    OBVIOUS
  <2>2. /\ e < Bits64 /\ w \in Nat \ {0} /\ s \in 0 .. 127 /\ s * w < W64
        /\ Weight(j, q) = s * w
    BY <1>3, <2>1
  <2>3. low \in 0 .. W64 - 1 /\ low < w
    BY <1>5, <1>2, <2>1, <2>2
  <2>4. f[j] = s * w + low
    BY <1>1, <2>1, <2>2
  <2> HIDE DEF j, s, w, low
  <2>5. s \in Nat /\ w \in Nat \ {0} /\ low \in Nat /\ s * w \in Nat
    <3>1. \A a, b \in Nat : a * b \in Nat
      OBVIOUS
    <3>2. s \in Nat /\ low \in Nat /\ w \in Nat
      BY <2>2, <2>3, <1>2
    <3> QED
      BY <2>2, <3>1, <3>2
  <2>6. f[j] < W64
    <3> DEFINE m == 2 ^ (Bits64 - e)
    <3>1. Bits64 - e \in Nat /\ e + (Bits64 - e) = Bits64
      BY <1>2, <2>1, <2>2
    <3>2. W64 = w * m /\ m \in Nat
      <4>1. 2 ^ (e + (Bits64 - e)) = 2 ^ e * 2 ^ (Bits64 - e) /\ 2 ^ (Bits64 - e) \in Nat \ {0}
        BY <1>2, <2>1, <3>1, NextWeight
      <4> QED
        BY <3>1, <4>1 DEF W64, w
    <3> HIDE DEF m
    <3>3. s < m
      BY <2>2, <2>5, <3>2, CancelWeight
    <3>4. s * w + low < m * w
      BY <2>3, <2>5, <3>2, <3>3, SliceBelow
    <3>5. m * w = w * m
      BY <2>5, <3>2
    <3> QED
      BY <2>4, <3>2, <3>4, <3>5
  <2>7. ASSUME 7 * (k + 1 + 1) <= Bits64
        PROVE  f[j] < 2 ^ (7 * (k + 1 + 1))
    <3>1. 7 * (k + 1 + 1) = 7 + e /\ 7 + e <= Bits64 + 6 /\ 7 \in Nat
      BY <1>2, <2>7
    <3>2. 2 ^ (7 + e) = 2 ^ 7 * 2 ^ e
      BY <2>1, <3>1, NextWeight
    <3>3. 2 ^ (7 + e) = 128 * w
      BY <3>2, PowerAssumption DEF w
    <3>4. s < 128 /\ 128 \in Nat
      BY <2>2
    <3>5. s * w + low < 128 * w
      BY <2>3, <2>5, <3>4, SliceBelow
    <3> HIDE DEF e
    <3> QED
      BY <2>4, <3>1, <3>3, <3>5
  <2>8. f[j] \in 0 .. W64 - 1
    <3>1. s * w + low \in Nat
      BY <2>5
    <3> QED
      BY <1>2, <2>4, <2>6, <3>1
  <2> QED
    BY <2>7, <2>8 DEF j
<1> HIDE DEF S
<1>6. \A k \in Nat : k \in S
  BY <1>4, <1>5, AllNumbers
<1>7. i - q \in Nat /\ q + (i - q) = i /\ i <= i
  OBVIOUS
<1>8. f[q + (i - q)] \in 0 .. W64 - 1
  BY <1>6, <1>7 DEF S
<1> QED
  BY <1>1, <1>7, <1>8

LEMMA EndType ==
  ASSUME bytes \in Seq(Byte)
  PROVE  End \in Nat \ {0} /\ Len(bytes) \in Nat /\ End = Len(bytes) + 1
BY DEF End

(* read_uleb128 returns a word and stays in front of end. *)
LEMMA UlebFacts ==
  ASSUME bytes \in Seq(Byte), NEW q \in Nat \ {0}, q <= End
  PROVE  /\ ReadUleb(q).value \in 0 .. W64 - 1
         /\ ReadUleb(q).next \in q .. End
<1> DEFINE S == {i \in q .. End : i = End \/ ~Fits(q, i) \/ ~Continues(i)}
           last == Least(S)
<1>1. End \in Nat \ {0} /\ Len(bytes) \in Nat /\ End = Len(bytes) + 1
  BY EndType
<1>2. S \subseteq q .. End /\ S # {}
  BY <1>1
<1>3. last \in S /\ \A j \in S : last <= j
  BY <1>1, <1>2, LeastIn
<1>4. ReadUleb(q) = IF last = End \/ ~Fits(q, last)
                    THEN [value |-> 0, next |-> last]
                    ELSE [value |-> Joined(q, last), next |-> last + 1]
  BY DEF ReadUleb
<1>5. last \in q .. End
  BY <1>3
<1>6. \A j \in q .. End : j \notin S => j # End /\ Fits(q, j)
  OBVIOUS
<1> HIDE DEF last, S
<1>7. CASE last = End \/ ~Fits(q, last)
  <2>1. 0 \in 0 .. W64 - 1
    BY Words
  <2> QED
    BY <1>4, <1>5, <1>7, <2>1
<1>8. CASE ~(last = End \/ ~Fits(q, last))
  <2>1. last \in Nat /\ q <= last /\ last <= Len(bytes) /\ last + 1 \in q .. End
    BY <1>1, <1>5, <1>8
  <2>2. \A j \in q .. last : Fits(q, j)
    <3> SUFFICES ASSUME NEW j \in q .. last PROVE Fits(q, j)
      OBVIOUS
    <3>1. CASE j = last
      BY <1>8, <3>1
    <3>2. CASE j # last
      <4>1. j \in q .. End /\ ~(last <= j)
        BY <1>1, <2>1, <3>2
      <4> QED
        BY <1>3, <1>6, <4>1
    <3> QED
      BY <3>1, <3>2
  <2>3. Joined(q, last) \in 0 .. W64 - 1
    BY <2>1, <2>2, JoinedFits
  <2> QED
    BY <1>4, <1>8, <2>1, <2>3
<1> QED
  BY <1>7, <1>8

(* read_sleb128 the same, whatever its shifts make of the operand.         *)
LEMMA ExtendedWord ==
  ASSUME NEW v \in Int, NEW bit \in Nat, bit <= Bits64 + 6
  PROVE  Extended(v, bit) \in 0 .. W64 - 1
<1> DEFINE a == 2 ^ bit
<1>1. a \in Nat \ {0} /\ W64 \in Nat \ {0}
  BY Power, Words
<1>2. Extended(v, bit) = ((v % a) + W64 - a) % W64
  BY DEF Extended
<1> HIDE DEF a
<1>3. v % a \in Int
  BY <1>1
<1>4. (v % a) + W64 - a \in Int
  BY <1>1, <1>3
<1> QED
  BY <1>2, <1>4, Words

LEMMA SlebValuesWords ==
  ASSUME bytes \in Seq(Byte), NEW q \in Nat \ {0}, NEW last \in Nat, q <= last,
         last <= Len(bytes)
  PROVE  SlebValues(q, last) \subseteq 0 .. W64 - 1
<1> DEFINE value == Joined(q, last) % W64
           bit == 7 * (last - q + 1)
<1>1. bit \in Nat /\ Bits64 \in Nat
  BY BitsAssumption
<1>2. value \in 0 .. W64 - 1 /\ value \in Int
  <2>1. Joined(q, last) \in Int
    BY JoinedInt
  <2>2. value \in 0 .. W64 - 1
    BY <2>1, Words
  <2>3. \A w : \A x \in 0 .. w - 1 : x \in Int
    OBVIOUS
  <2> HIDE DEF value
  <2> QED
    BY <2>2, <2>3
<1>3. SlebValues(q, last) = IF bit - 7 >= Bits64 THEN 0 .. W64 - 1
                            ELSE IF Slice(last) < 64 THEN {value}
                            ELSE IF bit < Bits64 THEN {Extended(value, bit)}
                            ELSE {value, Extended(value, bit - Bits64)}
  BY DEF SlebValues
<1> HIDE DEF value, bit
<1>4. bit < Bits64 => Extended(value, bit) \in 0 .. W64 - 1
  <2> SUFFICES ASSUME bit < Bits64 PROVE Extended(value, bit) \in 0 .. W64 - 1
    OBVIOUS
  <2>1. bit <= Bits64 + 6
    BY <1>1
  <2> QED
    BY <1>1, <1>2, <2>1, ExtendedWord
<1>5. ~(bit < Bits64) /\ ~(bit - 7 >= Bits64) => Extended(value, bit - Bits64) \in 0 .. W64 - 1
  <2> SUFFICES ASSUME ~(bit < Bits64), ~(bit - 7 >= Bits64)
               PROVE  Extended(value, bit - Bits64) \in 0 .. W64 - 1
    OBVIOUS
  <2>1. bit - Bits64 \in Nat /\ bit - Bits64 <= Bits64 + 6
    BY <1>1
  <2> QED
    BY <1>2, <2>1, ExtendedWord
<1> QED
  BY <1>2, <1>3, <1>4, <1>5

LEMMA SlebFacts ==
  ASSUME bytes \in Seq(Byte), NEW q \in Nat \ {0}, q <= End
  PROVE  /\ ReadSleb(q).values \subseteq 0 .. W64 - 1
         /\ ReadSleb(q).next \in q .. End
<1> DEFINE S == {i \in q .. End : i = End \/ ~Continues(i)}
           last == Least(S)
<1>1. End \in Nat \ {0} /\ Len(bytes) \in Nat /\ End = Len(bytes) + 1
  BY EndType
<1>2. S \subseteq q .. End /\ S # {}
  BY <1>1
<1>3. last \in S /\ \A j \in S : last <= j
  BY <1>1, <1>2, LeastIn
<1>4. ReadSleb(q) = IF last = End THEN [values |-> {0}, next |-> last]
                    ELSE [values |-> SlebValues(q, last), next |-> last + 1]
  BY DEF ReadSleb
<1>5. last \in q .. End
  BY <1>3
<1> HIDE DEF last, S
<1>6. CASE last = End
  <2>1. 0 \in 0 .. W64 - 1
    BY Words
  <2> QED
    BY <1>4, <1>5, <1>6, <2>1
<1>7. CASE last # End
  <2>1. last \in Nat /\ q <= last /\ last <= Len(bytes) /\ last + 1 \in q .. End
    BY <1>1, <1>5, <1>7
  <2>2. SlebValues(q, last) \subseteq 0 .. W64 - 1
    BY <2>1, SlebValuesWords
  <2> QED
    BY <1>4, <1>7, <2>1, <2>2
<1> QED
  BY <1>6, <1>7

LEMMA StringFacts ==
  ASSUME bytes \in Seq(Byte), NEW q \in Nat \ {0}, q <= End
  PROVE  AfterString(q) \in 1 .. End + 1
<1> DEFINE S == {i \in q .. End : i = End \/ bytes[i] = 0}
           zero == Least(S)
<1>1. End \in Nat \ {0}
  BY EndType
<1>2. S \subseteq q .. End /\ S # {}
  BY <1>1
<1>3. zero \in S
  BY <1>1, <1>2, LeastIn
<1>4. AfterString(q) = zero + 1
  BY DEF AfterString
<1>5. zero \in q .. End
  BY <1>3
<1> HIDE DEF zero
<1> QED
  BY <1>1, <1>4, <1>5

(* Segments, sections and dylibs. *)
LEMMA SegmentFacts ==
  ASSUME NEW s \in 0 .. 15, NEW a \in Nat
  PROVE  /\ SegStartAddress(s) \in 0 .. W32 - 1
         /\ SegmentName(s) \in 0 .. 15 \cup {None}
         /\ SectionAt(s, a) \in Nat \cup {None}
<1> DEFINE Sections == Seq([addr : 0 .. W32 - 1, size : 0 .. W32 - 1])
           Seg == [vmaddr : 0 .. W32 - 1, sections : Sections]
<1>1. Segs \in Seq(Seg) /\ Len(Segs) \in Nat
  BY SegsAssumption
<1>2. ASSUME s < Len(Segs)
      PROVE  Segs[s + 1].vmaddr \in 0 .. W32 - 1 /\ Segs[s + 1].sections \in Sections
  <2>1. s + 1 \in 1 .. Len(Segs)
    BY <1>1, <1>2
  <2> HIDE DEF Seg
  <2>2. Segs[s + 1] \in Seg
    BY <1>1, <2>1
  <2> QED
    BY <2>2 DEF Seg
<1>3. SegStartAddress(s) \in 0 .. W32 - 1
  <2>1. 0 \in 0 .. W32 - 1
    BY Words
  <2> HIDE DEF Sections
  <2> QED
    BY <1>2, <2>1 DEF SegStartAddress
<1>4. SegmentName(s) \in 0 .. 15 \cup {None}
  BY DEF SegmentName
<1>5. SectionAt(s, a) \in Nat \cup {None}
  <2> DEFINE secs == Segs[s + 1].sections
             Holding == {j \in 1 .. Len(secs) : /\ secs[j].addr <= a
                                                /\ a < (secs[j].addr + secs[j].size) % W32}
  <2>1. SectionAt(s, a) = IF s >= Len(Segs) \/ Holding = {} THEN None ELSE Least(Holding)
    BY DEF SectionAt, Least
  <2>2. CASE s >= Len(Segs) \/ Holding = {}
    BY <2>1, <2>2
  <2>3. CASE ~(s >= Len(Segs) \/ Holding = {})
    <3>1. s < Len(Segs)
      BY <1>1, <2>3
    <3>2. Len(secs) \in Nat
      BY <1>2, <3>1
    <3> DEFINE l == Len(secs)
    <3>3. Holding \subseteq 1 .. l /\ l \in Nat /\ Holding # {} /\ 1 \in Nat
      BY <2>3, <3>2
    <3> HIDE DEF Holding, l
    <3>4. Least(Holding) \in 1 .. l
      BY <3>3, LeastIn
    <3>5. Least(Holding) \in Nat
      BY <3>4
    <3> QED
      BY <2>1, <2>3, <3>5
  <2> QED
    BY <2>2, <2>3
<1> QED
  BY <1>3, <1>4, <1>5

LEMMA OrdinalFacts ==
  /\ \A o \in Int : OrdinalName(o) \in DylibNames
  /\ \A v \in Int : AsInt(v) \in Int
<1>1. ASSUME NEW o \in Int
      PROVE  OrdinalName(o) \in DylibNames
  <2>1. o = 0 \/ o = -1 \/ o = -2 \/ o < -2 \/ o > 0
    OBVIOUS
  <2> QED
    BY <2>1 DEF OrdinalName, DylibNames
<1>2. ASSUME NEW v \in Int
      PROVE  AsInt(v) \in Int
  <2>1. v % W32 \in Int /\ W32 \in Int
    BY Words
  <2> QED
    BY <2>1 DEF AsInt
<1> QED
  BY <1>1, <1>2

------------------------------------------------------------------------------
(* What of a pass depends on the bytes alone. *)

Op(q) == bytes[q] \div 16
NextOf(q) ==
  CASE Op(q) \in {0, 1, 3, 5, 9, 11} -> q + 1
    [] Op(q) \in {2, 7, 8, 10} -> ReadUleb(q + 1).next
    [] Op(q) = 4 -> AfterString(q + 1)
    [] Op(q) = 6 -> ReadSleb(q + 1).next
    [] OTHER -> ReadUleb(ReadUleb(q + 1).next).next
CountOf(q) ==
  IF Op(q) \in {9, 10, 11} THEN 1
  ELSE IF Op(q) = 12 THEN ReadUleb(q + 1).value % W32
  ELSE 0

(* A place in a pass, and the place after it. *)
Place == [p : Nat \ {0}, n : Nat, over : {"done", "on"}]
Here == [p |-> p, n |-> n, over |-> IF done THEN "done" ELSE "on"]
FirstPlace == [p |-> 1, n |-> 0, over |-> "on"]
After(r) ==
  [p |-> NextOf(r.p), n |-> r.n + CountOf(r.p), over |-> IF Op(r.p) = 0 THEN "done" ELSE "on"]
Over(r) == r.over = "done" \/ r.p >= End

LEMMA PlaceAfter ==
  ASSUME bytes \in Seq(Byte), NEW q \in 1 .. Len(bytes), Op(q) <= 12
  PROVE  /\ Op(q) \in 0 .. 12
         /\ NextOf(q) \in 1 .. End + 1
         /\ CountOf(q) \in Nat
<1>1. End \in Nat \ {0} /\ Len(bytes) \in Nat /\ End = Len(bytes) + 1
  BY EndType
<1>2. Op(q) \in 0 .. 12
  <2>0. bytes[q] \in Byte
    OBVIOUS
  <2>1. bytes[q] \in 0 .. 255
    BY <2>0 DEF Byte
  <2>2. \A b \in 0 .. 255 : b \div 16 \in 0 .. 15
    OBVIOUS
  <2>3. Op(q) \in 0 .. 15
    BY <2>1, <2>2 DEF Op
  <2>4. \A x \in 0 .. 15 : x <= 12 => x \in 0 .. 12
    OBVIOUS
  <2> QED
    BY <2>3, <2>4
<1>3. q + 1 \in Nat \ {0} /\ q + 1 <= End /\ q + 1 \in 1 .. End + 1
  BY <1>1
<1>4. ReadUleb(q + 1).value \in 0 .. W64 - 1 /\ ReadUleb(q + 1).next \in q + 1 .. End
  BY <1>3, UlebFacts
<1>5. ReadUleb(ReadUleb(q + 1).next).next \in 1 .. End + 1
  <2> DEFINE r == ReadUleb(q + 1).next
  <2>1. r \in Nat \ {0} /\ r <= End
    BY <1>1, <1>3, <1>4
  <2> HIDE DEF r
  <2>2. ReadUleb(r).next \in r .. End
    BY <2>1, UlebFacts
  <2>3. ReadUleb(r).next \in 1 .. End + 1
    BY <1>1, <2>1, <2>2
  <2> QED
    BY <2>3 DEF r
<1>6. ReadSleb(q + 1).next \in q + 1 .. End /\ AfterString(q + 1) \in 1 .. End + 1
  BY <1>3, SlebFacts, StringFacts
<1>7. \A x \in q + 1 .. End : x \in 1 .. End + 1
  BY <1>1
<1>8. NextOf(q) \in 1 .. End + 1
  <2>1. CASE Op(q) \in {0, 1, 3, 5, 9, 11}
    BY <1>3, <2>1 DEF NextOf
  <2>2. CASE Op(q) \in {2, 7, 8, 10}
    BY <1>4, <1>7, <2>2 DEF NextOf
  <2>3. CASE Op(q) = 4
    BY <1>6, <2>3 DEF NextOf
  <2>4. CASE Op(q) = 6
    BY <1>6, <1>7, <2>4 DEF NextOf
  <2>5. CASE Op(q) = 12
    BY <1>5, <2>5 DEF NextOf
  <2> QED
    BY <1>2, <2>1, <2>2, <2>3, <2>4, <2>5
<1>9. CountOf(q) \in Nat
  <2>1. ReadUleb(q + 1).value \in Int
    <3>1. \A w : \A x \in 0 .. w - 1 : x \in Int
      OBVIOUS
    <3> QED
      BY <1>4, <3>1
  <2>2. ReadUleb(q + 1).value % W32 \in 0 .. W32 - 1
    BY <2>1, Words
  <2>3. ReadUleb(q + 1).value % W32 \in Nat
    BY <2>2, Words
  <2> QED
    BY <2>3 DEF CountOf
<1> QED
  BY <1>2, <1>8, <1>9

------------------------------------------------------------------------------
(* Every opcode takes the place to the one after it. *)

(* What an opcode may do to the registers and the table. *)
Moves ==
  /\ Running /\ Op(p) <= 12
  /\ p' = NextOf(p) /\ n' = n + CountOf(p) /\ done' = (Op(p) = 0)
  /\ regs' \in Regs
  /\ UNCHANGED <<input, status, pass, ndbi>>
  /\ pass = 1 => UNCHANGED dbi
  /\ pass = 2 => /\ DOMAIN dbi' = DOMAIN dbi \cup (n + 1 .. n')
                 /\ \A k \in DOMAIN dbi' :
                      IF k \in n + 1 .. n' THEN dbi'[k] \in BindInfo ELSE dbi'[k] = dbi[k]

LEMMA RunningFacts ==
  ASSUME TypeOK, Running
  PROVE  /\ p \in 1 .. Len(bytes) /\ Opcode = Op(p) /\ done = FALSE
         /\ Immediate \in 0 .. 15
         /\ p + 1 \in Nat \ {0} /\ p + 1 <= End
<1>1. /\ End \in Nat \ {0} /\ Len(bytes) \in Nat /\ End = Len(bytes) + 1
      /\ p \in 1 .. End + 1 /\ p < End /\ bytes \in Seq(Byte)
  BY EndType DEF TypeOK, Running
<1>2. p \in 1 .. Len(bytes)
  BY <1>1
<1>3. bytes[p] \in Byte
  BY <1>1, <1>2
<1>4. bytes[p] \in 0 .. 255
  BY <1>3 DEF Byte
<1>5. \A b \in 0 .. 255 : b % 16 \in 0 .. 15
  OBVIOUS
<1>6. Immediate \in 0 .. 15
  BY <1>4, <1>5 DEF Immediate
<1>7. p + 1 \in Nat \ {0} /\ p + 1 <= End
  BY <1>1
<1>8. done = FALSE
  BY DEF TypeOK, Running
<1> QED
  BY <1>2, <1>6, <1>7, <1>8 DEF Opcode, Op

(* An opcode that binds nothing. *)
LEMMA SetsMoves ==
  ASSUME TypeOK, Running, NEW changed \in Regs, NEW next, Sets(changed, next),
         Op(p) \in 1 .. 8, next = NextOf(p)
  PROVE  Moves
<1>1. /\ regs' = changed /\ p' = next
      /\ UNCHANGED <<input, status, pass, done, n, dbi, ndbi>>
  BY DEF Sets
<1>2. n \in Nat /\ n + 0 = n /\ n + 1 .. n = {}
  BY DEF TypeOK
<1>3. CountOf(p) = 0 /\ Op(p) # 0 /\ Op(p) <= 12
  BY DEF CountOf
<1>4. done' = (Op(p) = 0)
  BY <1>1, <1>3, RunningFacts
<1> QED
  BY <1>1, <1>2, <1>3, <1>4 DEF Moves

LEMMA EntryType ==
  ASSUME regs \in Regs, NEW offset \in Int
  PROVE  Entry(offset) \in BindInfo
<1>1. /\ regs.segName \in 0 .. 15 \cup {None} /\ regs.segIndex \in 0 .. 15
      /\ regs.type \in 0 .. 15 /\ regs.addend \in 0 .. W64 - 1
      /\ regs.fromDylib \in DylibNames /\ regs.symbolName \in Nat \cup {None}
      /\ regs.weak_import \in BOOLEAN
  BY DEF Regs
<1>2. regs.segStartAddr \in Int /\ regs.segOffset \in Int
  <2>1. \A w : \A x \in 0 .. w - 1 : x \in Int
    OBVIOUS
  <2>2. regs.segStartAddr \in 0 .. W32 - 1 /\ regs.segOffset \in 0 .. W64 - 1
    BY DEF Regs
  <2> QED
    BY <2>1, <2>2
<1>3. Address(offset) \in 0 .. W64 - 1 /\ Address(regs.segOffset) \in 0 .. W64 - 1
  <2>1. regs.segStartAddr + offset \in Int /\ regs.segStartAddr + regs.segOffset \in Int
    BY <1>2
  <2> QED
    BY <2>1, Words DEF Address
<1>4. Address(regs.segOffset) \in Nat
  BY <1>3, Words
<1>5. SectionAt(regs.segIndex, Address(regs.segOffset)) \in Nat \cup {None}
  BY <1>1, <1>4, SegmentFacts
<1> QED
  BY <1>1, <1>3, <1>5 DEF Entry, BindInfo

LEMMA BindMoves ==
  ASSUME TypeOK, Running, NEW count \in Nat, NEW stride \in Int, NEW next,
         Bind(count, stride, next), Op(p) \in 9 .. 12, count = CountOf(p), next = NextOf(p)
  PROVE  Moves
<1> DEFINE Offset(i) == (regs.segOffset + i * stride) % W64
<1>1. /\ n' = n + count
      /\ regs' = [regs EXCEPT !.segOffset = Offset(count)]
      /\ dbi' = IF pass = 1 THEN dbi
                ELSE [k \in DOMAIN dbi \cup (n + 1 .. n + count) |->
                        IF k \in n + 1 .. n + count THEN Entry(Offset(k - n - 1)) ELSE dbi[k]]
      /\ p' = next
      /\ UNCHANGED <<input, status, pass, done, ndbi>>
  BY DEF Bind
<1>2. n \in Nat /\ regs \in Regs
  BY DEF TypeOK
<1>3. ASSUME NEW i \in Int
      PROVE  Offset(i) \in 0 .. W64 - 1 /\ Offset(i) \in Int
  <2>1. regs.segOffset \in Int
    <3>1. \A w : \A x \in 0 .. w - 1 : x \in Int
      OBVIOUS
    <3>2. regs.segOffset \in 0 .. W64 - 1
      BY <1>2 DEF Regs
    <3> QED
      BY <3>1, <3>2
  <2>2. regs.segOffset + i * stride \in Int
    <3>1. \A a, b, c \in Int : a + b * c \in Int
      OBVIOUS
    <3> QED
      BY <2>1, <3>1
  <2>3. Offset(i) \in 0 .. W64 - 1
    BY <2>2, Words
  <2>4. \A w : \A x \in 0 .. w - 1 : x \in Int
    OBVIOUS
  <2> QED
    BY <2>3, <2>4
<1>4. regs' \in Regs
  <2> DEFINE o == Offset(count)
  <2>1. o \in 0 .. W64 - 1
    BY <1>3
  <2> HIDE DEF o
  <2>2. [regs EXCEPT !.segOffset = o] \in Regs
    BY <1>2, <2>1 DEF Regs
  <2> QED
    BY <1>1, <2>2 DEF o
<1>5. done' = (Op(p) = 0)
  <2>1. Op(p) # 0 /\ done = FALSE
    BY RunningFacts
  <2> QED
    BY <1>1, <2>1
<1>6. \A k \in n + 1 .. n + count : Entry(Offset(k - n - 1)) \in BindInfo
  <2>1. \A k \in n + 1 .. n + count : k - n - 1 \in Int
    BY <1>2
  <2> HIDE DEF Offset
  <2>2. \A k \in n + 1 .. n + count : Offset(k - n - 1) \in Int
    BY <1>3, <2>1
  <2> QED
    BY <1>2, <2>2, EntryType
<1> HIDE DEF Offset
<1>7. pass = 2 => /\ DOMAIN dbi' = DOMAIN dbi \cup (n + 1 .. n')
                  /\ \A k \in DOMAIN dbi' :
                       IF k \in n + 1 .. n' THEN dbi'[k] \in BindInfo ELSE dbi'[k] = dbi[k]
  BY <1>1, <1>6
<1>8. Op(p) <= 12
  OBVIOUS
<1> QED
  BY <1>1, <1>4, <1>5, <1>7, <1>8 DEF Moves

Opcodes ==
  \/ Done
  \/ SetDylibOrdinalImm
  \/ SetDylibOrdinalUleb
  \/ SetDylibSpecialImm
  \/ SetSymbolTrailingFlagsImm
  \/ SetTypeImm
  \/ SetAddendSleb
  \/ SetSegmentAndOffsetUleb
  \/ AddAddrUleb
  \/ DoBind
  \/ DoBindAddAddrUleb
  \/ DoBindAddAddrImmScaled
  \/ DoBindUlebTimesSkippingUleb

LEMMA OpcodesMove ==
  ASSUME TypeOK, Opcodes
  PROVE  Moves
<1> DEFINE arg == ReadUleb(p + 1)
<1>0. Running
  BY DEF Opcodes, At, Done, SetDylibOrdinalImm, SetDylibOrdinalUleb, SetDylibSpecialImm,
         SetSymbolTrailingFlagsImm, SetTypeImm, SetAddendSleb, SetSegmentAndOffsetUleb,
         AddAddrUleb, DoBind, DoBindAddAddrUleb, DoBindAddAddrImmScaled,
         DoBindUlebTimesSkippingUleb
<1>1. /\ regs \in Regs /\ n \in Nat /\ bytes \in Seq(Byte) /\ p \in Int
      /\ Opcode = Op(p) /\ Immediate \in 0 .. 15
      /\ p + 1 \in Nat \ {0} /\ p + 1 <= End
  <2>1. /\ Opcode = Op(p) /\ Immediate \in 0 .. 15
        /\ p + 1 \in Nat \ {0} /\ p + 1 <= End
    BY <1>0, RunningFacts
  <2>2. regs \in Regs /\ n \in Nat /\ bytes \in Seq(Byte) /\ p \in 1 .. End + 1
    BY DEF TypeOK
  <2>3. \A w : \A x \in 1 .. w : x \in Int
    OBVIOUS
  <2> QED
    BY <2>1, <2>2, <2>3
<1>2. arg.value \in 0 .. W64 - 1 /\ arg.value \in Int /\ arg.next \in Nat \ {0} /\ arg.next <= End
  <2>1. arg.value \in 0 .. W64 - 1 /\ arg.next \in p + 1 .. End
    BY <1>1, UlebFacts
  <2>2. \A w : \A x \in 0 .. w - 1 : x \in Int
    OBVIOUS
  <2>3. End \in Nat
    BY <1>1, EndType
  <2>4. arg.value \in Int
    BY <2>1, <2>2
  <2> HIDE DEF arg
  <2>5. arg.next \in Nat \ {0} /\ arg.next <= End
    BY <1>1, <2>1, <2>3
  <2> QED
    BY <2>1, <2>4, <2>5
<1>3. 0 .. 15 \subseteq Int /\ Immediate \in Int /\ 4 \in Int /\ PointerSize = 4
  BY <1>1 DEF PointerSize
<1>4. CASE Done
  <2>1. /\ Op(p) = 0 /\ done' = TRUE /\ p' = p + 1
        /\ UNCHANGED <<input, status, pass, regs, n, dbi, ndbi>>
    BY <1>1, <1>4 DEF Done, At
  <2>2. CountOf(p) = 0 /\ NextOf(p) = p + 1 /\ Op(p) <= 12
    BY <2>1 DEF CountOf, NextOf
  <2>3. n + 0 = n /\ n + 1 .. n = {}
    BY <1>1
  <2> QED
    BY <1>0, <1>1, <2>1, <2>2, <2>3 DEF Moves
<1>5. CASE SetDylibOrdinalImm
  <2> DEFINE changed == [regs EXCEPT !.fromDylib = OrdinalName(Immediate)]
  <2>1. Op(p) = 1 /\ Sets(changed, p + 1)
    BY <1>1, <1>5 DEF SetDylibOrdinalImm, At
  <2>2. OrdinalName(Immediate) \in DylibNames
    BY <1>3, OrdinalFacts
  <2>3. changed \in Regs
    BY <1>1, <2>2 DEF Regs
  <2>4. p + 1 = NextOf(p) /\ Op(p) \in 1 .. 8
    BY <2>1 DEF NextOf
  <2> HIDE DEF changed
  <2> QED
    BY <1>0, <2>1, <2>3, <2>4, SetsMoves
<1>6. CASE SetDylibOrdinalUleb
  <2> DEFINE changed == [regs EXCEPT !.fromDylib = OrdinalName(AsInt(arg.value))]
  <2>1. Op(p) = 2 /\ Sets(changed, arg.next)
    BY <1>1, <1>6 DEF SetDylibOrdinalUleb, At
  <2>2. OrdinalName(AsInt(arg.value)) \in DylibNames
    BY <1>2, OrdinalFacts
  <2>3. changed \in Regs
    BY <1>1, <2>2 DEF Regs
  <2>4. arg.next = NextOf(p) /\ Op(p) \in 1 .. 8
    BY <2>1 DEF NextOf
  <2> HIDE DEF changed, arg
  <2> QED
    BY <1>0, <2>1, <2>3, <2>4, SetsMoves
<1>7. CASE SetDylibSpecialImm
  <2> DEFINE ordinal == IF Immediate = 0 THEN 0 ELSE Immediate - 16
             changed == [regs EXCEPT !.fromDylib = OrdinalName(ordinal)]
  <2>1. Op(p) = 3 /\ Sets(changed, p + 1)
    BY <1>1, <1>7 DEF SetDylibSpecialImm, At
  <2>2. ordinal \in Int
    BY <1>3
  <2> HIDE DEF ordinal
  <2>3. OrdinalName(ordinal) \in DylibNames
    BY <2>2, OrdinalFacts
  <2>4. changed \in Regs
    BY <1>1, <2>3 DEF Regs
  <2>5. p + 1 = NextOf(p) /\ Op(p) \in 1 .. 8
    BY <2>1 DEF NextOf
  <2> HIDE DEF changed
  <2> QED
    BY <1>0, <2>1, <2>4, <2>5, SetsMoves
<1>8. CASE SetSymbolTrailingFlagsImm
  <2> DEFINE changed == [regs EXCEPT !.symbolName = p + 1, !.weak_import = Immediate % 2 = 1]
  <2>1. Op(p) = 4 /\ Sets(changed, AfterString(p + 1))
    BY <1>1, <1>8 DEF SetSymbolTrailingFlagsImm, At
  <2>2. (Immediate % 2 = 1) \in BOOLEAN
    OBVIOUS
  <2>3. p + 1 \in Nat \cup {None}
    BY <1>1
  <2>4. \A b \in BOOLEAN : \A s \in Nat \cup {None} :
          [regs EXCEPT !.symbolName = s, !.weak_import = b] \in Regs
    BY <1>1 DEF Regs
  <2>5. changed \in Regs
    BY <2>2, <2>3, <2>4
  <2>6. AfterString(p + 1) = NextOf(p) /\ Op(p) \in 1 .. 8
    BY <2>1 DEF NextOf
  <2> HIDE DEF changed
  <2> QED
    BY <1>0, <2>1, <2>5, <2>6, SetsMoves
<1>9. CASE SetTypeImm
  <2> DEFINE changed == [regs EXCEPT !.type = Immediate]
  <2>1. Op(p) = 5 /\ Sets(changed, p + 1)
    BY <1>1, <1>9 DEF SetTypeImm, At
  <2>2. changed \in Regs
    BY <1>1 DEF Regs
  <2>3. p + 1 = NextOf(p) /\ Op(p) \in 1 .. 8
    BY <2>1 DEF NextOf
  <2> HIDE DEF changed
  <2> QED
    BY <1>0, <2>1, <2>2, <2>3, SetsMoves
<1>10. CASE SetAddendSleb
  <2> DEFINE sarg == ReadSleb(p + 1)
  <2>0. PICK value \in sarg.values : Sets([regs EXCEPT !.addend = value], sarg.next)
    BY <1>10 DEF SetAddendSleb
  <2> DEFINE changed == [regs EXCEPT !.addend = value]
  <2>1. Op(p) = 6 /\ Sets(changed, sarg.next)
    BY <1>1, <1>10, <2>0 DEF SetAddendSleb, At
  <2>2. value \in 0 .. W64 - 1
    BY <1>1, <2>0, SlebFacts
  <2>3. sarg.next = NextOf(p) /\ Op(p) \in 1 .. 8
    BY <2>1 DEF NextOf
  <2> HIDE DEF sarg
  <2>4. changed \in Regs
    BY <1>1, <2>2 DEF Regs
  <2> HIDE DEF changed
  <2> QED
    BY <1>0, <2>1, <2>3, <2>4, SetsMoves
<1>11. CASE SetSegmentAndOffsetUleb
  <2> DEFINE changed == [regs EXCEPT !.segIndex = Immediate,
                                     !.segStartAddr = SegStartAddress(Immediate),
                                     !.segName = SegmentName(Immediate),
                                     !.segOffset = arg.value]
  <2>1. Op(p) = 7 /\ Sets(changed, arg.next)
    BY <1>1, <1>11 DEF SetSegmentAndOffsetUleb, At
  <2>2. /\ SegStartAddress(Immediate) \in 0 .. W32 - 1
        /\ SegmentName(Immediate) \in 0 .. 15 \cup {None}
    <3>1. 0 \in Nat
      OBVIOUS
    <3> QED
      BY <1>1, <3>1, SegmentFacts
  <2>3. arg.next = NextOf(p) /\ Op(p) \in 1 .. 8
    BY <2>1 DEF NextOf
  <2> HIDE DEF arg
  <2>4. changed \in Regs
    BY <1>1, <1>2, <2>2 DEF Regs
  <2> HIDE DEF changed
  <2> QED
    BY <1>0, <2>1, <2>3, <2>4, SetsMoves
<1>12. CASE AddAddrUleb
  <2> DEFINE changed == [regs EXCEPT !.segOffset = (@ + arg.value) % W64]
  <2>1. Op(p) = 8 /\ Sets(changed, arg.next)
    BY <1>1, <1>12 DEF AddAddrUleb, At
  <2>2. arg.next = NextOf(p) /\ Op(p) \in 1 .. 8
    BY <2>1 DEF NextOf
  <2> HIDE DEF arg
  <2>3. (regs.segOffset + arg.value) % W64 \in 0 .. W64 - 1
    <3>1. \A w : \A x \in 0 .. w - 1 : x \in Int
      OBVIOUS
    <3>2. regs.segOffset \in Int
      BY <1>1, <3>1 DEF Regs
    <3>3. regs.segOffset + arg.value \in Int
      BY <1>2, <3>2
    <3> QED
      BY <3>3, Words
  <2>4. changed \in Regs
    <3>1. changed = [regs EXCEPT !.segOffset = (regs.segOffset + arg.value) % W64]
      OBVIOUS
    <3>2. \A o \in 0 .. W64 - 1 : [regs EXCEPT !.segOffset = o] \in Regs
      BY <1>1 DEF Regs
    <3> HIDE DEF changed
    <3> QED
      BY <2>3, <3>1, <3>2
  <2> HIDE DEF changed
  <2> QED
    BY <1>0, <2>1, <2>2, <2>4, SetsMoves
<1>13. CASE DoBind
  <2>1. Op(p) = 9 /\ Bind(1, PointerSize, p + 1)
    BY <1>1, <1>13 DEF DoBind, At
  <2>2. 1 = CountOf(p) /\ p + 1 = NextOf(p) /\ Op(p) \in 9 .. 12 /\ 1 \in Nat
    BY <2>1 DEF CountOf, NextOf
  <2> QED
    BY <1>0, <1>3, <2>1, <2>2, BindMoves
<1>14. CASE DoBindAddAddrUleb
  <2> DEFINE stride == (arg.value + PointerSize) % W64
  <2>1. Op(p) = 10 /\ Bind(1, stride, arg.next)
    BY <1>1, <1>14 DEF DoBindAddAddrUleb, At
  <2>2. 1 = CountOf(p) /\ arg.next = NextOf(p) /\ Op(p) \in 9 .. 12 /\ 1 \in Nat
    BY <2>1 DEF CountOf, NextOf
  <2> HIDE DEF arg
  <2>3. stride \in Int
    <3>1. arg.value + PointerSize \in Int
      BY <1>2, <1>3
    <3>2. stride \in 0 .. W64 - 1
      BY <3>1, Words
    <3>3. \A w : \A x \in 0 .. w - 1 : x \in Int
      OBVIOUS
    <3> QED
      BY <3>2, <3>3
  <2> HIDE DEF stride
  <2> QED
    BY <1>0, <2>1, <2>2, <2>3, BindMoves
<1>15. CASE DoBindAddAddrImmScaled
  <2> DEFINE stride == Immediate * PointerSize + PointerSize
  <2>1. Op(p) = 11 /\ Bind(1, stride, p + 1)
    BY <1>1, <1>15 DEF DoBindAddAddrImmScaled, At
  <2>2. 1 = CountOf(p) /\ p + 1 = NextOf(p) /\ Op(p) \in 9 .. 12 /\ 1 \in Nat
    BY <2>1 DEF CountOf, NextOf
  <2>3. stride \in Int
    BY <1>3
  <2> HIDE DEF stride
  <2> QED
    BY <1>0, <2>1, <2>2, <2>3, BindMoves
<1>16. CASE DoBindUlebTimesSkippingUleb
  <2> DEFINE skip == ReadUleb(arg.next)
             stride == ((skip.value % W32) + PointerSize) % W32
             count == arg.value % W32
  <2>1. Op(p) = 12 /\ Bind(count, stride, skip.next)
    BY <1>1, <1>16 DEF DoBindUlebTimesSkippingUleb, At
  <2>2. count = CountOf(p) /\ skip.next = NextOf(p) /\ Op(p) \in 9 .. 12
    BY <2>1 DEF CountOf, NextOf
  <2>3. \A w : \A x \in 0 .. w - 1 : x \in Int
    OBVIOUS
  <2> HIDE DEF arg
  <2>4. skip.value \in Int
    <3>1. skip.value \in 0 .. W64 - 1
      BY <1>1, <1>2, UlebFacts
    <3> QED
      BY <2>3, <3>1
  <2>5. stride \in Int
    <3> DEFINE v == skip.value % W32
    <3>1. v \in Int
      BY <2>3, <2>4, Words
    <3> HIDE DEF v
    <3>2. (v + PointerSize) % W32 \in 0 .. W32 - 1
      BY <1>3, <3>1, Words
    <3>3. (v + PointerSize) % W32 \in Int
      BY <2>3, <3>2
    <3> QED
      BY <3>3 DEF v
  <2>6. count \in Nat
    <3>1. count \in 0 .. W32 - 1
      BY <1>2, Words
    <3>2. \A w : \A x \in 0 .. w - 1 : x \in Nat
      OBVIOUS
    <3> QED
      BY <3>1, <3>2
  <2> HIDE DEF stride, count, skip
  <2> QED
    BY <1>0, <2>1, <2>2, <2>5, <2>6, BindMoves
<1> QED
  BY <1>4, <1>5, <1>6, <1>7, <1>8, <1>9, <1>10, <1>11, <1>12, <1>13, <1>14, <1>15, <1>16
  DEF Opcodes

------------------------------------------------------------------------------
(* The invariant: both passes go through the same places.                  *)

(* R holds every place of a pass up to last, and goes on behind each place *)
(* it does not end with.                                                   *)
Track(R, last) ==
  /\ FirstPlace \in R /\ last \in R /\ R \subseteq Place
  /\ \A r \in R : /\ r.n <= last.n
                  /\ r = last \/ (~Over(r) /\ Op(r.p) <= 12 /\ After(r) \in R)

FirstPass ==
  pass = 1 =>
    /\ status # "decoded" /\ dbi = <<>> /\ ndbi = None
    /\ status = "decoding" => \E R \in SUBSET Place : Track(R, Here)

SecondPass ==
  pass = 2 =>
    /\ status # "bad_opcode" /\ ndbi \in Nat
    /\ status = "decoded" => n = ndbi
    /\ \E R \in SUBSET Place : \E last \in R :
         Track(R, last) /\ Over(last) /\ last.n = ndbi /\ Here \in R

PassesInv == TypeOK /\ FirstPass /\ SecondPass /\ StaysInTable

LEMMA HereIsPlace == ASSUME TypeOK PROVE Here \in Place
<1>1. p \in 1 .. End + 1 /\ n \in Nat
  BY DEF TypeOK
<1>2. \A w : \A x \in 1 .. w : x \in Nat \ {0}
  OBVIOUS
<1>3. p \in Nat \ {0}
  BY <1>1, <1>2
<1> QED
  BY <1>1, <1>3 DEF Here, Place

LEMMA MovesHere ==
  ASSUME TypeOK, Moves
  PROVE  /\ Here' = After(Here) /\ ~Over(Here) /\ Op(Here.p) <= 12
         /\ Here.n <= Here'.n /\ After(Here) \in Place
<1>1. done = FALSE /\ p < End /\ p \in 1 .. Len(bytes)
  BY RunningFacts DEF Moves, Running
<1>2. Here.p = p /\ Here.n = n /\ Here.over = "on"
  BY <1>1 DEF Here
<1>3. p' = NextOf(p) /\ n' = n + CountOf(p) /\ done' = (Op(p) = 0) /\ Op(p) <= 12
  BY DEF Moves
<1>4. Here' = [p |-> p', n |-> n', over |-> IF done' THEN "done" ELSE "on"]
  BY DEF Here
<1>5. Here' = After(Here)
  BY <1>2, <1>3, <1>4 DEF After
<1>6. p \in Nat \ {0} /\ End \in Nat /\ ~(p >= End)
  <2>1. End \in Nat /\ Len(bytes) \in Nat
    BY EndType DEF TypeOK
  <2> QED
    BY <1>1, <2>1
<1>7. ~Over(Here)
  BY <1>2, <1>6 DEF Over
<1>8. n \in Nat /\ bytes \in Seq(Byte)
  BY DEF TypeOK
<1>9. NextOf(p) \in 1 .. End + 1 /\ CountOf(p) \in Nat
  BY <1>1, <1>3, <1>8, PlaceAfter
<1>10. NextOf(p) \in Nat \ {0}
  BY <1>6, <1>9
<1>11. After(Here) \in Place /\ Here'.n = n + CountOf(p)
  <2>1. n + CountOf(p) \in Nat
    BY <1>8, <1>9
  <2> QED
    BY <1>2, <1>5, <1>10, <2>1 DEF After, Place
<1>12. n <= n + CountOf(p)
  BY <1>8, <1>9
<1> QED
  BY <1>2, <1>3, <1>5, <1>7, <1>11, <1>12

(* The first pass extends the track by the place it comes to. *)
LEMMA TrackGrows ==
  ASSUME NEW R \in SUBSET Place, NEW here \in Place, NEW next \in Place,
         Track(R, here), next = After(here), ~Over(here), Op(here.p) <= 12, here.n <= next.n
  PROVE  R \cup {next} \in SUBSET Place /\ Track(R \cup {next}, next)
<1> DEFINE S == R \cup {next}
<1>1. FirstPlace \in S /\ next \in S /\ S \subseteq Place
  BY DEF Track
<1>2. ASSUME NEW r \in S
      PROVE  /\ r.n <= next.n
             /\ r = next \/ (~Over(r) /\ Op(r.p) <= 12 /\ After(r) \in S)
  <2>1. CASE r = next
    <3>1. next.n \in Nat
      BY DEF Place
    <3> QED
      BY <2>1, <3>1
  <2>2. CASE r \in R
    <3>1. r.n <= here.n /\ (r = here \/ (~Over(r) /\ Op(r.p) <= 12 /\ After(r) \in R))
      BY <2>2 DEF Track
    <3>2. r \in Place
      BY <2>2
    <3>3. r.n \in Nat /\ here.n \in Nat /\ next.n \in Nat
      BY <3>2 DEF Place
    <3>4. r.n <= next.n
      BY <3>1, <3>3
    <3> QED
      BY <3>1, <3>4
  <2> QED
    BY <2>1, <2>2
<1> QED
  BY <1>1, <1>2 DEF Track

(* What a track is depends on the bytes alone. *)
LEMMA TrackFrame ==
  ASSUME UNCHANGED input
  PROVE  \A R, r : (Track(R, r)' <=> Track(R, r)) /\ (Over(r)' <=> Over(r))
<1>1. bytes' = bytes /\ End' = End
  BY DEF bytes, End
<1>2. \A q : Slice(q)' = Slice(q) /\ (Continues(q)' <=> Continues(q)) /\ Op(q)' = Op(q)
  BY <1>1 DEF Slice, Continues, Op
<1>3. \A q, i : Joined(q, i)' = Joined(q, i)
  BY <1>1, <1>2 DEF Joined
<1>4. \A q, i : Fits(q, i)' <=> Fits(q, i)
  BY <1>2 DEF Fits
<1>5. \A q : ReadUleb(q)' = ReadUleb(q)
  BY <1>1, <1>2, <1>3, <1>4 DEF ReadUleb
<1>6. \A q : ReadSleb(q)' = ReadSleb(q)
  <2>1. \A q, i : SlebValues(q, i)' = SlebValues(q, i)
    BY <1>2, <1>3 DEF SlebValues
  <2> QED
    BY <1>1, <1>2, <2>1 DEF ReadSleb
<1>7. \A q : AfterString(q)' = AfterString(q)
  BY <1>1 DEF AfterString
<1>8. \A q : NextOf(q)' = NextOf(q)
  BY <1>2, <1>5, <1>6, <1>7 DEF NextOf
<1>9. \A q : CountOf(q)' = CountOf(q)
  BY <1>2, <1>5 DEF CountOf
<1>10. \A r : After(r)' = After(r) /\ (Over(r)' <=> Over(r))
  BY <1>1, <1>2, <1>8, <1>9 DEF After, Over
<1> QED
  BY <1>2, <1>10 DEF Track

------------------------------------------------------------------------------
(* Every step keeps the invariant. *)

LEMMA InitPasses == Init => PassesInv
<1> SUFFICES ASSUME Init
             PROVE  PassesInv
  OBVIOUS
<1>1. TypeOK
  <2>1. bytes \in Seq(Byte)
    BY InputsAssumption DEF Init, bytes
  <2>2. End \in Nat \ {0}
    BY <2>1, EndType
  <2>3. 1 \in 1 .. End + 1
    BY <2>2
  <2>4. StartRegs \in Regs
    BY Words DEF StartRegs, Regs, DylibNames
  <2>5. /\ status = "decoding" /\ pass = 1 /\ p = 1 /\ done = FALSE /\ regs = StartRegs
        /\ n = 0 /\ dbi = <<>> /\ ndbi = None
    BY DEF Init
  <2>6. \A k \in DOMAIN dbi : dbi[k] \in BindInfo \cup {None}
    BY <2>5
  <2> QED
    BY <2>1, <2>3, <2>4, <2>5, <2>6 DEF TypeOK
<1>2. Here = FirstPlace
  BY DEF Init, Here, FirstPlace
<1>3. Here \in Place /\ FirstPlace.n = 0
  BY <1>1, HereIsPlace DEF FirstPlace
<1>4. Track({FirstPlace}, Here) /\ {FirstPlace} \in SUBSET Place
  BY <1>2, <1>3 DEF Track
<1>5. FirstPass
  BY <1>4 DEF FirstPass, Init
<1>6. SecondPass /\ StaysInTable
  BY DEF SecondPass, StaysInTable, Init
<1> QED
  BY <1>1, <1>5, <1>6 DEF PassesInv

LEMMA BytesFrame == UNCHANGED input => bytes' = bytes /\ End' = End
  BY DEF bytes, End

LEMMA MovesKeepType ==
  ASSUME TypeOK, Moves
  PROVE  TypeOK'
<1>1. bytes' = bytes /\ End' = End
  BY BytesFrame DEF Moves
<1>2. /\ bytes \in Seq(Byte) /\ status \in {"decoding", "decoded", "bad_opcode"}
      /\ pass \in {1, 2} /\ n \in Nat /\ (ndbi = None \/ ndbi \in Nat)
      /\ \A k \in DOMAIN dbi : dbi[k] \in BindInfo \cup {None}
  BY DEF TypeOK
<1>3. p \in 1 .. Len(bytes)
  BY RunningFacts DEF Moves
<1>4. NextOf(p) \in 1 .. End + 1 /\ CountOf(p) \in Nat
  BY <1>2, <1>3, PlaceAfter DEF Moves
<1>5. n' \in Nat
  <2>1. n' = n + CountOf(p)
    BY DEF Moves
  <2> QED
    BY <1>2, <1>4, <2>1
<1>6. p' \in 1 .. End' + 1
  BY <1>1, <1>4 DEF Moves
<1>7. \A k \in DOMAIN dbi' : dbi'[k] \in BindInfo \cup {None}
  <2>1. CASE pass = 1
    BY <1>2, <2>1 DEF Moves
  <2>2. CASE pass = 2
    <3>1. DOMAIN dbi' = DOMAIN dbi \cup (n + 1 .. n')
      BY <2>2 DEF Moves
    <3>2. \A k \in DOMAIN dbi' :
            IF k \in n + 1 .. n' THEN dbi'[k] \in BindInfo ELSE dbi'[k] = dbi[k]
      BY <2>2 DEF Moves
    <3> DEFINE Filled == n + 1 .. n'
    <3> HIDE DEF Filled
    <3>3. \A k \in DOMAIN dbi' : k \in Filled \/ k \in DOMAIN dbi
      BY <3>1 DEF Filled
    <3>4. \A k \in DOMAIN dbi' : IF k \in Filled THEN dbi'[k] \in BindInfo ELSE dbi'[k] = dbi[k]
      BY <3>2 DEF Filled
    <3> QED
      BY <1>2, <3>3, <3>4
  <2> QED
    BY <1>2, <2>1, <2>2
<1>8. done' \in BOOLEAN /\ regs' \in Regs /\ UNCHANGED <<status, pass, ndbi>>
  BY DEF Moves
<1> QED
  BY <1>1, <1>2, <1>5, <1>6, <1>7, <1>8 DEF TypeOK

LEMMA MovesKeepPasses ==
  ASSUME PassesInv, Moves
  PROVE  PassesInv'
<1>1. TypeOK /\ FirstPass /\ SecondPass /\ StaysInTable
  BY DEF PassesInv
<1>2. TypeOK'
  BY <1>1, MovesKeepType
<1>3. /\ Here' = After(Here) /\ ~Over(Here) /\ Op(Here.p) <= 12
      /\ Here.n <= Here'.n /\ After(Here) \in Place /\ Here \in Place
  BY <1>1, MovesHere, HereIsPlace
<1>4. \A R, r : (Track(R, r)' <=> Track(R, r)) /\ (Over(r)' <=> Over(r))
  BY TrackFrame DEF Moves
<1>5. status = "decoding" /\ UNCHANGED <<status, pass, ndbi>> /\ (pass = 1 => UNCHANGED dbi)
  BY DEF Moves, Running
<1>6. CASE pass = 1
  <2>1. dbi = <<>> /\ ndbi = None /\ \E R \in SUBSET Place : Track(R, Here)
    BY <1>1, <1>5, <1>6 DEF FirstPass
  <2>2. PICK R \in SUBSET Place : Track(R, Here)
    BY <2>1
  <2> DEFINE S == R \cup {After(Here)}
  <2>3. S \in SUBSET Place /\ Track(S, After(Here))
    <3> DEFINE here == Here
               next == After(here)
    <3>1. here \in Place /\ next \in Place /\ Track(R, here) /\ ~Over(here) /\ Op(here.p) <= 12
      BY <1>3, <2>2
    <3>2. here.n <= next.n
      BY <1>3
    <3>3. next = After(here)
      OBVIOUS
    <3> HIDE DEF next, here
    <3>4. R \cup {next} \in SUBSET Place /\ Track(R \cup {next}, next)
      BY <3>1, <3>2, <3>3, TrackGrows
    <3> QED
      BY <3>4 DEF next, here
  <2> HIDE DEF S
  <2>4. \E Q \in SUBSET Place : Track(Q, Here)'
    <3>1. \E Q \in SUBSET Place : \E next \in Place : next = After(Here) /\ Track(Q, next)
      BY <1>3, <2>3
    <3>2. PICK Q \in SUBSET Place, next \in Place : next = After(Here) /\ Track(Q, next)
      BY <3>1
    <3>3. Track(Q, next)'
      BY <1>4, <3>2
    <3>4. next = Here'
      BY <1>3, <3>2
    <3>5. Track(Q, Here)'
      BY <3>3, <3>4 DEF Track
    <3> QED
      BY <3>5
  <2>5. FirstPass'
    BY <1>5, <1>6, <2>1, <2>4 DEF FirstPass
  <2>6. SecondPass' /\ StaysInTable'
    BY <1>5, <1>6 DEF SecondPass, StaysInTable
  <2> QED
    BY <1>2, <2>5, <2>6 DEF PassesInv
<1>7. CASE pass = 2
  <2>1. PICK R \in SUBSET Place : \E last \in R :
          Track(R, last) /\ Over(last) /\ last.n = ndbi /\ Here \in R
    BY <1>1, <1>7 DEF SecondPass
  <2>2. PICK last \in R : Track(R, last) /\ Over(last) /\ last.n = ndbi /\ Here \in R
    BY <2>1
  <2>3. After(Here) \in R
    BY <1>3, <2>2 DEF Track
  <2>4. Here' \in R
    BY <1>3, <2>3
  <2>5. Here'.n <= ndbi
    BY <2>2, <2>4 DEF Track
  <2>6. n' <= ndbi
    BY <2>5 DEF Here
  <2>7. Track(R, last)' /\ Over(last)'
    BY <1>4, <2>2
  <2>8. SecondPass'
    <3>1. ndbi' \in Nat /\ status' = "decoding"
      BY <1>1, <1>5, <1>7 DEF SecondPass
    <3>2. last.n = ndbi'
      BY <1>5, <2>2
    <3> QED
      BY <2>4, <2>7, <3>1, <3>2 DEF SecondPass
  <2>9. FirstPass'
    BY <1>5, <1>7 DEF FirstPass
  <2>10. StaysInTable'
    <3>1. /\ n <= ndbi /\ DOMAIN dbi = 1 .. ndbi
          /\ \A k \in 1 .. ndbi : dbi[k] = None <=> k > n
      BY <1>1, <1>7 DEF StaysInTable
    <3>2. DOMAIN dbi' = DOMAIN dbi \cup (n + 1 .. n')
      BY <1>7 DEF Moves
    <3>3. \A k \in DOMAIN dbi' :
            IF k \in n + 1 .. n' THEN dbi'[k] \in BindInfo ELSE dbi'[k] = dbi[k]
      BY <1>7 DEF Moves
    <3>4. n \in Nat /\ n' \in Nat /\ ndbi \in Nat
      BY <1>1, <1>2, <1>7 DEF TypeOK, SecondPass
    <3>5. n + 1 .. n' \subseteq 1 .. ndbi
      BY <2>6, <3>4
    <3>6. DOMAIN dbi' = 1 .. ndbi
      BY <3>1, <3>2, <3>5
    <3>7. n <= n'
      <4>1. n' = Here'.n /\ n = Here.n
        BY DEF Here
      <4> QED
        BY <1>3, <4>1
    <3>8. ASSUME NEW k \in 1 .. ndbi
          PROVE  dbi'[k] = None <=> k > n'
      <4>1. CASE k \in n + 1 .. n'
        <5>1. dbi'[k] \in BindInfo
          BY <3>3, <3>6, <4>1
        <5>2. dbi'[k] # None
          BY <5>1, NoneAssumption
        <5>3. ~(k > n')
          BY <3>4, <4>1
        <5> QED
          BY <5>2, <5>3
      <4>2. CASE k \notin n + 1 .. n'
        <5>1. dbi'[k] = dbi[k]
          BY <3>3, <3>6, <4>2
        <5>2. k > n <=> k > n'
          BY <3>4, <3>7, <4>2
        <5> QED
          BY <3>1, <5>1, <5>2
      <4> QED
        BY <4>1, <4>2
    <3> QED
      BY <1>5, <2>6, <3>6, <3>8 DEF StaysInTable
  <2> QED
    BY <1>2, <2>8, <2>9, <2>10 DEF PassesInv
<1> QED
  BY <1>1, <1>6, <1>7 DEF TypeOK

(* No byte of a counted pass is a bad opcode: the second pass meets none.  *)
LEMMA BadOpcodeKeepsPasses ==
  ASSUME PassesInv, BadOpcode
  PROVE  PassesInv'
<1>1. TypeOK /\ FirstPass /\ SecondPass
  BY DEF PassesInv
<1>2. Running /\ Opcode > 12
  BY DEF BadOpcode
<1>3. /\ status' = "bad_opcode" /\ p' = p + 1
      /\ UNCHANGED <<input, pass, done, regs, n, dbi, ndbi>>
  BY DEF BadOpcode
<1>4. /\ p \in 1 .. Len(bytes) /\ Opcode = Op(p) /\ done = FALSE
      /\ p + 1 \in Nat \ {0} /\ p + 1 <= End
  BY <1>1, <1>2, RunningFacts
<1>5. bytes \in Seq(Byte) /\ pass \in {1, 2} /\ status = "decoding"
  BY <1>1, <1>2 DEF TypeOK, Running
<1>6. End \in Nat /\ Len(bytes) \in Nat /\ bytes' = bytes /\ End' = End
  BY <1>3, <1>5, EndType, BytesFrame
<1>7. pass = 1
  <2>1. SUFFICES ASSUME pass = 2
                 PROVE  FALSE
    BY <1>5
  <2>2. PICK R \in SUBSET Place : \E last \in R :
          Track(R, last) /\ Over(last) /\ last.n = ndbi /\ Here \in R
    BY <1>1, <2>1 DEF SecondPass
  <2>3. PICK last \in R : Track(R, last) /\ Over(last) /\ Here \in R
    BY <2>2
  <2>4. Here.p = p /\ Here.over = "on"
    BY <1>4 DEF Here
  <2>5. ~(p >= End)
    BY <1>4, <1>6
  <2>6. ~Over(Here)
    BY <2>4, <2>5 DEF Over
  <2>7. Op(Here.p) <= 12
    BY <2>3, <2>6 DEF Track
  <2>8. Op(p) \in Int
    <3>1. bytes[p] \in Byte
      BY <1>4, <1>5
    <3>2. \A b \in 0 .. 255 : b \div 16 \in Int
      OBVIOUS
    <3> QED
      BY <3>1, <3>2 DEF Op, Byte
  <2> QED
    BY <1>2, <1>4, <2>4, <2>7, <2>8
<1>8. p' \in 1 .. End' + 1
  BY <1>3, <1>4, <1>6
<1>9. TypeOK'
  BY <1>1, <1>3, <1>6, <1>8 DEF TypeOK
<1>10. dbi = <<>> /\ ndbi = None
  BY <1>1, <1>7 DEF FirstPass
<1> QED
  BY <1>3, <1>7, <1>9, <1>10 DEF PassesInv, FirstPass, SecondPass, StaysInTable

LEMMA OverIsOver ==
  ASSUME TypeOK, PassOver
  PROVE  Over(Here)
<1>1. Here.over = (IF done THEN "done" ELSE "on") /\ Here.p = p
  BY DEF Here
<1>2. status = "decoding" /\ (done \/ p >= End)
  BY DEF PassOver
<1> QED
  BY <1>1, <1>2 DEF Over

LEMMA BeginSecondPassKeepsPasses ==
  ASSUME PassesInv, BeginSecondPass
  PROVE  PassesInv'
<1>1. TypeOK /\ FirstPass
  BY DEF PassesInv
<1>2. /\ pass = 1 /\ pass' = 2 /\ p' = 1 /\ done' = FALSE /\ regs' = StartRegs
      /\ dbi' = [k \in 1 .. n |-> None] /\ ndbi' = n /\ n' = 0
      /\ UNCHANGED <<input, status>> /\ PassOver
  BY DEF BeginSecondPass, SecondPassWith
<1>3. n \in Nat /\ status = "decoding" /\ bytes \in Seq(Byte)
  BY <1>1, <1>2 DEF TypeOK, PassOver
<1>4. End \in Nat /\ bytes' = bytes /\ End' = End
  BY <1>2, <1>3, EndType, BytesFrame
<1>5. Here' = FirstPlace
  BY <1>2 DEF Here, FirstPlace
<1>6. Over(Here) /\ Here \in Place /\ Here.n = n
  BY <1>1, <1>2, OverIsOver, HereIsPlace DEF Here
<1>7. PICK R \in SUBSET Place, last \in Place : last = Here /\ Track(R, last)
  BY <1>1, <1>2, <1>3, <1>6 DEF FirstPass
<1>8. last \in R /\ FirstPlace \in R /\ Over(last) /\ last.n = n
  BY <1>6, <1>7 DEF Track
<1>9. Track(R, last)' /\ Over(last)'
  <2>1. \A Q, r : (Track(Q, r)' <=> Track(Q, r)) /\ (Over(r)' <=> Over(r))
    BY <1>2, TrackFrame
  <2> QED
    BY <1>7, <1>8, <2>1
<1>10. SecondPass'
  <2>1. status' # "bad_opcode" /\ status' # "decoded" /\ ndbi' \in Nat /\ last.n = ndbi'
    BY <1>2, <1>3, <1>8
  <2>2. Here' \in R
    BY <1>5, <1>8
  <2> QED
    BY <1>8, <1>9, <2>1, <2>2 DEF SecondPass
<1>11. TypeOK'
  <2>1. p' \in 1 .. End' + 1
    BY <1>2, <1>4
  <2>2. StartRegs \in Regs
    BY Words DEF StartRegs, Regs, DylibNames
  <2>3. \A k \in DOMAIN dbi' : dbi'[k] \in BindInfo \cup {None}
    BY <1>2
  <2> QED
    BY <1>2, <1>3, <1>4, <2>1, <2>2, <2>3 DEF TypeOK
<1>12. StaysInTable'
  <2>1. \A k \in 1 .. n : dbi'[k] = None /\ k > 0
    BY <1>2, <1>3
  <2> QED
    BY <1>2, <1>3, <2>1 DEF StaysInTable
<1> QED
  BY <1>2, <1>10, <1>11, <1>12 DEF PassesInv, FirstPass

LEMMA ReturnKeepsPasses ==
  ASSUME PassesInv, Return
  PROVE  PassesInv'
<1>1. TypeOK /\ SecondPass /\ StaysInTable
  BY DEF PassesInv
<1>2. /\ PassOver /\ pass = 2 /\ status' = "decoded"
      /\ UNCHANGED <<input, pass, p, done, regs, n, dbi, ndbi>>
  BY DEF Return
<1>3. PICK R \in SUBSET Place : \E last \in R :
        Track(R, last) /\ Over(last) /\ last.n = ndbi /\ Here \in R
  BY <1>1, <1>2 DEF SecondPass
<1>4. PICK last \in R : Track(R, last) /\ Over(last) /\ last.n = ndbi /\ Here \in R
  BY <1>3
<1>5. Over(Here)
  BY <1>1, <1>2, OverIsOver
<1>6. Here = last
  BY <1>4, <1>5 DEF Track
<1>7. n = ndbi
  BY <1>4, <1>6 DEF Here
<1>8. Track(R, last)' /\ Over(last)'
  <2>1. \A Q, r : (Track(Q, r)' <=> Track(Q, r)) /\ (Over(r)' <=> Over(r))
    BY <1>2, TrackFrame
  <2> QED
    BY <1>4, <2>1
<1>9. Here' = Here
  BY <1>2 DEF Here
<1>10. SecondPass'
  <2>1. ndbi' \in Nat /\ n' = ndbi' /\ last.n = ndbi' /\ status' # "bad_opcode"
    BY <1>1, <1>2, <1>4, <1>7 DEF SecondPass
  <2>2. Here' \in R
    BY <1>4, <1>9
  <2> QED
    BY <1>8, <2>1, <2>2 DEF SecondPass
<1>11. bytes' = bytes /\ End' = End
  BY <1>2, BytesFrame
<1>12. TypeOK'
  BY <1>1, <1>2, <1>11 DEF TypeOK
<1>13. StaysInTable' /\ FirstPass'
  BY <1>1, <1>2 DEF StaysInTable, FirstPass
<1> QED
  BY <1>10, <1>12, <1>13 DEF PassesInv

LEMMA StutterKeepsPasses ==
  ASSUME PassesInv, UNCHANGED vars
  PROVE  PassesInv'
<1>1. UNCHANGED <<input, status, pass, p, done, regs, n, dbi, ndbi>>
  BY DEF vars
<1>2. bytes' = bytes /\ End' = End /\ Here' = Here
  BY <1>1, BytesFrame DEF Here
<1>3. \A Q, r : (Track(Q, r)' <=> Track(Q, r)) /\ (Over(r)' <=> Over(r))
  BY <1>1, TrackFrame
<1>4. TypeOK'
  BY <1>1, <1>2 DEF PassesInv, TypeOK
<1>5. FirstPass'
  <2>1. CASE pass = 1 /\ status = "decoding"
    <3>1. Here \in Place
      BY HereIsPlace DEF PassesInv
    <3>2. PICK R \in SUBSET Place, here \in Place : here = Here /\ Track(R, here)
      BY <2>1, <3>1 DEF PassesInv, FirstPass
    <3>3. Track(R, here)' /\ here = Here'
      BY <1>2, <1>3, <3>2
    <3>4. Track(R, Here)'
      BY <3>3 DEF Track
    <3> QED
      BY <1>1, <3>4 DEF PassesInv, FirstPass
  <2>2. CASE ~(pass = 1 /\ status = "decoding")
    BY <1>1, <2>2 DEF PassesInv, FirstPass
  <2> QED
    BY <2>1, <2>2
<1>6. SecondPass'
  <2>1. CASE pass = 2
    <3>1. PICK R \in SUBSET Place : \E last \in R :
            Track(R, last) /\ Over(last) /\ last.n = ndbi /\ Here \in R
      BY <2>1 DEF PassesInv, SecondPass
    <3>2. PICK last \in R : Track(R, last) /\ Over(last) /\ last.n = ndbi /\ Here \in R
      BY <3>1
    <3>3. Track(R, last)' /\ Over(last)' /\ last.n = ndbi' /\ Here' \in R
      BY <1>1, <1>2, <1>3, <3>2
    <3>4. /\ status' # "bad_opcode" /\ ndbi' \in Nat
          /\ status' = "decoded" => n' = ndbi'
      BY <1>1, <2>1 DEF PassesInv, SecondPass
    <3> QED
      BY <3>3, <3>4 DEF SecondPass
  <2>2. CASE pass # 2
    BY <1>1, <2>2 DEF SecondPass
  <2> QED
    BY <2>1, <2>2
<1>7. StaysInTable'
  BY <1>1 DEF PassesInv, StaysInTable
<1> QED
  BY <1>4, <1>5, <1>6, <1>7 DEF PassesInv

LEMMA NextKeepsPasses == PassesInv /\ [Next]_vars => PassesInv'
<1> SUFFICES ASSUME PassesInv, [Next]_vars
             PROVE  PassesInv'
  OBVIOUS
<1>1. CASE Opcodes
  BY <1>1, OpcodesMove, MovesKeepPasses DEF PassesInv
<1>2. CASE BadOpcode
  BY <1>2, BadOpcodeKeepsPasses
<1>3. CASE BeginSecondPass
  BY <1>3, BeginSecondPassKeepsPasses
<1>4. CASE Return
  BY <1>4, ReturnKeepsPasses
<1>5. CASE UNCHANGED vars
  BY <1>5, StutterKeepsPasses
<1>6. Next => Opcodes \/ BadOpcode \/ BeginSecondPass \/ Return
  BY DEF Next, Opcodes
<1> QED
  BY <1>1, <1>2, <1>3, <1>4, <1>5, <1>6

------------------------------------------------------------------------------
(* Division with a remainder. *)

LEMMA Divided ==
  ASSUME NEW v \in Int, NEW w \in Nat \ {0}
  PROVE  /\ v \div w \in Int /\ v % w \in 0 .. w - 1
         /\ v = (v \div w) * w + (v % w)
OBVIOUS

LEMMA OneQuotient ==
  ASSUME NEW w \in Nat \ {0}, NEW k \in Int, NEW j \in Int, NEW r \in 0 .. w - 1,
         NEW s \in 0 .. w - 1, k * w + r = j * w + s
  PROVE  k = j /\ r = s
<1>1. ASSUME NEW a \in Int, NEW b \in Int, NEW x \in 0 .. w - 1, NEW y \in 0 .. w - 1,
             a * w + x = b * w + y, a < b
      PROVE  FALSE
  <2>1. a + 1 <= b
    BY <1>1
  <2>2. (a + 1) * w <= b * w
    BY <2>1
  <2>3. (a + 1) * w = a * w + w /\ a * w \in Int /\ b * w \in Int
    OBVIOUS
  <2> QED
    BY <1>1, <2>2, <2>3
<1>2. k = j
  BY <1>1
<1>3. k * w \in Int
  OBVIOUS
<1> QED
  BY <1>2, <1>3

LEMMA RemainderIs ==
  ASSUME NEW v \in Int, NEW w \in Nat \ {0}, NEW k \in Int, NEW r \in 0 .. w - 1,
         v = k * w + r
  PROVE  v \div w = k /\ v % w = r
<1>1. v \div w \in Int /\ v % w \in 0 .. w - 1 /\ v = (v \div w) * w + (v % w)
  BY Divided
<1> QED
  BY <1>1, OneQuotient

(* A whole number of words more makes no difference. *)
LEMMA WholeWords ==
  ASSUME NEW v \in Int, NEW w \in Nat \ {0}, NEW k \in Int
  PROVE  (v + k * w) % w = v % w
<1>1. v \div w \in Int /\ v % w \in 0 .. w - 1 /\ v = (v \div w) * w + (v % w)
  BY Divided
<1>2. (v \div w + k) * w = (v \div w) * w + k * w /\ k * w \in Int /\ (v \div w) * w \in Int
  BY <1>1
<1>3. v + k * w = (v \div w + k) * w + (v % w) /\ v + k * w \in Int /\ v \div w + k \in Int
  BY <1>1, <1>2
<1> QED
  BY <1>1, <1>3, RemainderIs

LEMMA WordSum ==
  ASSUME NEW u \in Int, NEW v \in Int, NEW w \in Nat \ {0}
  PROVE  (u + (v % w)) % w = (u + v) % w /\ ((v % w) + u) % w = (v + u) % w
<1>1. v \div w \in Int /\ v % w \in 0 .. w - 1 /\ v = (v \div w) * w + (v % w)
  BY Divided
<1>2. (v \div w) * w \in Int /\ v % w \in Int
  BY <1>1
<1>3. u + v = (u + (v % w)) + (v \div w) * w /\ u + (v % w) \in Int
  BY <1>1, <1>2
<1>4. (u + v) % w = (u + (v % w)) % w
  BY <1>1, <1>3, WholeWords
<1>5. (v % w) + u = u + (v % w) /\ v + u = u + v
  BY <1>2
<1> QED
  BY <1>4, <1>5

(* The group that comes next, on top of those below. *)
LEMMA NextGroup ==
  ASSUME NEW v \in Int, NEW a \in Nat \ {0}, NEW m \in Nat \ {0}
  PROVE  v % (m * a) = ((v \div a) % m) * a + (v % a)
<1> DEFINE q == v \div a
           d == q \div m
           g == q % m
           r == v % a
<1>1. q \in Int /\ r \in 0 .. a - 1 /\ v = q * a + r
  BY Divided
<1>2. d \in Int /\ g \in 0 .. m - 1 /\ q = d * m + g
  BY <1>1, Divided
<1> HIDE DEF q, d, g, r
<1>3. m * a \in Nat \ {0}
  OBVIOUS
<1>4. /\ q * a = (d * m) * a + g * a
      /\ (d * m) * a = d * (m * a)
      /\ d * (m * a) \in Int /\ g * a \in Nat
  <2>1. g \in Int /\ d * m \in Int
    BY <1>2
  <2>2. \A x, y, z \in Int : (x + y) * z = x * z + y * z
    OBVIOUS
  <2>3. q * a = (d * m) * a + g * a
    BY <1>2, <2>1, <2>2
  <2>4. \A x, y, z \in Int : (x * y) * z = x * (y * z)
    OBVIOUS
  <2>5. (d * m) * a = d * (m * a)
    BY <1>2, <2>4
  <2>6. \A x, y \in Int : x * y \in Int
    OBVIOUS
  <2>7. \A x, y \in Nat : x * y \in Nat
    OBVIOUS
  <2>8. g \in Nat
    BY <1>2
  <2> QED
    BY <1>2, <1>3, <2>3, <2>5, <2>6, <2>7, <2>8
<1>5. g * a + r \in 0 .. m * a - 1
  <2>1. g \in Nat /\ r \in Nat /\ a \in Nat /\ m \in Nat /\ r < a /\ g < m
    BY <1>1, <1>2
  <2>2. g * a + r < m * a
    BY <2>1, SliceBelow
  <2> QED
    BY <1>3, <1>4, <2>1, <2>2
<1>6. v = d * (m * a) + (g * a + r)
  <2> DEFINE x == d * (m * a)
             y == g * a
             t == q * a
  <2>1. r \in Int /\ x \in Int /\ y \in Nat /\ v = t + r
    BY <1>1, <1>4
  <2>2. t = x + y
    BY <1>4
  <2> HIDE DEF x, y, t
  <2>3. v = x + (y + r)
    BY <2>1, <2>2
  <2> QED
    BY <2>3 DEF x, y
<1>7. v % (m * a) = g * a + r
  BY <1>2, <1>3, <1>5, <1>6, RemainderIs
<1> QED
  BY <1>7 DEF g, q, r

------------------------------------------------------------------------------
(* Operands, read as they were written.                                    *)

(* The bytes from position q on are those of s. *)
Stands(q, s) ==
  /\ q + Len(s) <= End
  /\ \A i \in 1 .. Len(s) : bytes[q + i - 1] = s[i]

LEMMA GroupType ==
  ASSUME NEW v \in Int, NEW i \in Nat, 7 * i <= Bits64 + 6
  PROVE  Group(v, i) \in 0 .. 127
<1>1. 2 ^ (7 * i) \in Nat \ {0}
  <2>1. 7 * i \in Nat
    OBVIOUS
  <2> QED
    BY <2>1, Power
<1> DEFINE w == 2 ^ (7 * i)
<1> HIDE DEF w
<1>2. w \in Nat \ {0}
  BY <1>1 DEF w
<1>3. v \div w \in Int
  BY <1>2, Divided
<1>4. \A x \in Int : x % 128 \in 0 .. 127
  OBVIOUS
<1>5. Group(v, i) = (v \div w) % 128
  BY DEF Group, w
<1> QED
  BY <1>3, <1>4, <1>5

LEMMA GroupsType ==
  ASSUME NEW v \in Int, NEW c \in Nat \ {0}, 7 * c <= Bits64 + 6
  PROVE  /\ Groups(v, c) \in Seq(Byte) /\ Len(Groups(v, c)) = c
         /\ \A i \in 1 .. c : Groups(v, c)[i] = Group(v, i - 1) + (IF i < c THEN 128 ELSE 0)
<1>1. \A i \in 1 .. c : Group(v, i - 1) \in 0 .. 127
  <2> SUFFICES ASSUME NEW i \in 1 .. c PROVE Group(v, i - 1) \in 0 .. 127
    OBVIOUS
  <2>1. i - 1 \in Nat /\ 7 * (i - 1) <= Bits64 + 6
    BY BitsAssumption
  <2> QED
    BY <2>1, GroupType
<1>2. \A g \in 0 .. 127 : g + 128 \in Byte /\ g + 0 \in Byte
  BY DEF Byte
<1> DEFINE s == [i \in 1 .. c |-> Group(v, i - 1) + (IF i < c THEN 128 ELSE 0)]
<1>3. \A i \in 1 .. c : s[i] \in Byte
  BY <1>1, <1>2
<1>4. s \in [1 .. c -> Byte]
  BY <1>3
<1>5. s \in Seq(Byte) /\ Len(s) = c
  <2> HIDE DEF s
  <2>1. DOMAIN s = 1 .. c
    BY <1>4
  <2> QED
    BY <1>4, <2>1
<1> QED
  BY <1>5 DEF Groups

LEMMA GroupsSlices ==
  ASSUME NEW v \in Int, NEW c \in Nat \ {0}, 7 * c <= Bits64 + 6,
         NEW q \in Nat \ {0}, Stands(q, Groups(v, c))
  PROVE  \A i \in 0 .. c - 1 : Slice(q + i) = Group(v, i) /\ (Continues(q + i) <=> i < c - 1)
<1> SUFFICES ASSUME NEW i \in 0 .. c - 1
             PROVE  Slice(q + i) = Group(v, i) /\ (Continues(q + i) <=> i < c - 1)
  OBVIOUS
<1>1. /\ Len(Groups(v, c)) = c
      /\ \A k \in 1 .. c : Groups(v, c)[k] = Group(v, k - 1) + (IF k < c THEN 128 ELSE 0)
  BY GroupsType
<1>2. /\ i + 1 \in 1 .. c /\ i + 1 - 1 = i /\ q + (i + 1) - 1 = q + i
      /\ i + 1 < c <=> i < c - 1
      /\ i \in Nat /\ 7 * i <= Bits64 + 6
  BY BitsAssumption
<1>3. bytes[q + i] = Groups(v, c)[i + 1]
  <2>1. bytes[q + (i + 1) - 1] = Groups(v, c)[i + 1]
    BY <1>1, <1>2 DEF Stands
  <2> QED
    BY <1>2, <2>1
<1>4. bytes[q + i] = Group(v, i) + (IF i < c - 1 THEN 128 ELSE 0)
  BY <1>1, <1>2, <1>3
<1>5. Group(v, i) \in 0 .. 127
  BY <1>2, GroupType
<1>6. \A g \in 0 .. 127 : /\ (g + 128) % 128 = g /\ (g + 0) % 128 = g
                          /\ g + 128 >= 128 /\ ~(g + 0 >= 128)
  OBVIOUS
<1> QED
  BY <1>4, <1>5, <1>6 DEF Slice, Continues

LEMMA GroupsJoined ==
  ASSUME NEW v \in Int, NEW c \in Nat \ {0}, 7 * c <= Bits64 + 6,
         NEW q \in Nat \ {0}, Stands(q, Groups(v, c))
  PROVE  Joined(q, q + c - 1) = v % 2 ^ (7 * c)
<1> DEFINE last == q + c - 1
<1>1. last \in Nat /\ q <= last /\ \A k \in Nat : k < c => q + k \in q .. last
  OBVIOUS
<1>2. PICK f : /\ DOMAIN f = q .. last
               /\ \A j \in q .. last : f[j] = Weight(j, q) + (IF j = q THEN 0 ELSE f[j - 1])
               /\ Joined(q, last) = f[last]
  BY <1>1, JoinedIs
<1> HIDE DEF last
<1>3. \A i \in 0 .. c - 1 : Slice(q + i) = Group(v, i)
  BY GroupsSlices
<1> DEFINE S == {k \in Nat : k < c => f[q + k] = v % 2 ^ (7 * (k + 1))}
<1>4. 0 \in S
  <2>1. q + 0 = q /\ q - q = 0 /\ 7 * 0 = 0 /\ 7 * (0 + 1) = 7 /\ 0 \in 0 .. c - 1 /\ 0 < c
    OBVIOUS
  <2>2. Slice(q) = Group(v, 0)
    BY <1>3, <2>1
  <2>3. Group(v, 0) = (v \div 1) % 128
    BY <2>1, PowerAssumption DEF Group
  <2>4. v \div 1 = v /\ v % 128 \in Int /\ (v % 128) * 1 = v % 128 /\ (v % 128) + 0 = v % 128
    OBVIOUS
  <2>5. Weight(q, q) = v % 128
    BY <2>1, <2>2, <2>3, <2>4, PowerAssumption DEF Weight
  <2>6. f[q] = Weight(q, q) + 0
    <3>1. q \in q .. last
      BY <1>1, <2>1
    <3> QED
      BY <1>2, <3>1
  <2>7. f[q + 0] = v % 128
    BY <2>1, <2>4, <2>5, <2>6
  <2>8. 2 ^ (7 * (0 + 1)) = 128
    BY <2>1, PowerAssumption
  <2> QED
    BY <2>7, <2>8
<1>5. ASSUME NEW k \in Nat, k \in S
      PROVE  k + 1 \in S
  <2> SUFFICES ASSUME k + 1 < c
               PROVE  f[q + (k + 1)] = v % 2 ^ (7 * (k + 1 + 1))
    OBVIOUS
  <2> DEFINE e == 7 * (k + 1)
             a == 2 ^ e
             j == q + (k + 1)
  <2>1. /\ e \in Nat /\ 7 * (k + 1 + 1) = 7 + e /\ 7 \in Nat /\ 7 + e <= Bits64 + 6
        /\ j # q /\ j - 1 = q + k /\ j - q = k + 1 /\ k + 1 \in 0 .. c - 1 /\ k + 1 \in Nat
        /\ k < c
    BY BitsAssumption
  <2>2. a \in Nat \ {0} /\ 2 ^ (7 + e) = 128 * a
    <3>1. 2 ^ (7 + e) = 2 ^ 7 * 2 ^ e /\ 2 ^ e \in Nat \ {0}
      BY <2>1, NextWeight
    <3>2. 2 ^ 7 = 128
      BY PowerAssumption
    <3> QED
      BY <3>1, <3>2
  <2>3. j \in q .. last
    BY <1>1, <2>1
  <2>4. f[q + k] = v % a
    BY <1>5, <2>1
  <2>5. Weight(j, q) = Group(v, k + 1) * a
    BY <1>3, <2>1 DEF Weight
  <2>6. Group(v, k + 1) = (v \div a) % 128
    BY DEF Group
  <2>7. f[j] = ((v \div a) % 128) * a + (v % a)
    BY <1>2, <2>1, <2>3, <2>4, <2>5, <2>6
  <2> HIDE DEF a, e, j
  <2>8. v % (128 * a) = ((v \div a) % 128) * a + (v % a)
    <3>1. 128 \in Nat \ {0}
      OBVIOUS
    <3> QED
      BY <2>2, <3>1, NextGroup
  <2>9. f[j] = v % 2 ^ (7 * (k + 1 + 1))
    BY <2>1, <2>2, <2>7, <2>8
  <2> QED
    BY <2>9 DEF j
<1> HIDE DEF S
<1>6. c - 1 \in S
  <2>1. c - 1 \in Nat
    OBVIOUS
  <2>2. \A k \in Nat : k \in S
    BY <1>4, <1>5, AllNumbers
  <2> QED
    BY <2>1, <2>2
<1>7. q + (c - 1) = last /\ c - 1 < c /\ c - 1 + 1 = c
  BY DEF last
<1>8. f[q + (c - 1)] = v % 2 ^ (7 * (c - 1 + 1))
  BY <1>6, <1>7 DEF S
<1> QED
  BY <1>2, <1>7, <1>8 DEF last

(* The least member is the one below which there is none. *)
LEMMA LeastIs ==
  ASSUME NEW q \in Nat, NEW r \in Nat, NEW S, S \subseteq q .. r, NEW x \in S, \A y \in S : x <= y
  PROVE  Least(S) = x
<1>1. Least(S) \in S /\ \A y \in S : Least(S) <= y
  BY LeastIn
<1>2. \A y \in S : y \in Nat
  OBVIOUS
<1>3. Least(S) <= x /\ x <= Least(S) /\ Least(S) \in Nat /\ x \in Nat
  BY <1>1, <1>2
<1> QED
  BY <1>3

LEMMA GroupBelow ==
  ASSUME NEW v \in Nat, NEW i \in Nat, 7 * i <= Bits64 + 6
  PROVE  Group(v, i) * 2 ^ (7 * i) <= v
<1> DEFINE a == 2 ^ (7 * i)
           d == v \div a
           g == d % 128
<1>1. a \in Nat \ {0}
  <2>1. 7 * i \in Nat
    OBVIOUS
  <2> QED
    BY <2>1, Power
<1> HIDE DEF a
<1>2. d \in Int /\ v % a \in 0 .. a - 1 /\ v = d * a + (v % a)
  <2>1. v \in Int
    OBVIOUS
  <2> QED
    BY <1>1, <2>1, Divided
<1> HIDE DEF d
<1>3. d \in Nat
  <2> SUFFICES ASSUME d <= -1 PROVE FALSE
    BY <1>2
  <2>1. d * a <= (-1) * a
    BY <1>1, <1>2
  <2>2. (-1) * a = -a /\ d * a \in Int /\ v % a \in Int
    BY <1>1, <1>2
  <2> QED
    BY <1>1, <1>2, <2>1, <2>2
<1>4. g \in Nat /\ g <= d
  BY <1>3
<1> HIDE DEF g
<1>5. g * a <= d * a
  BY <1>1, <1>3, <1>4
<1>6. g * a \in Int /\ d * a \in Int /\ v % a \in Nat
  BY <1>1, <1>2, <1>3, <1>4
<1>7. g * a <= v
  BY <1>2, <1>5, <1>6
<1> QED
  BY <1>7 DEF g, d, a, Group

LEMMA UlebRead ==
  ASSUME bytes \in Seq(Byte), NEW v \in Word, NEW c \in Nat \ {0}, 7 * c <= Bits64 + 6,
         v < 2 ^ (7 * c), NEW q \in Nat \ {0}, Stands(q, Groups(v, c))
  PROVE  ReadUleb(q) = [value |-> v, next |-> q + c]
<1> DEFINE S == {i \in q .. End : i = End \/ ~Fits(q, i) \/ ~Continues(i)}
           last == q + c - 1
<1>1. End \in Nat \ {0} /\ Bits64 \in Nat /\ W64 \in Nat \ {0} /\ v \in Nat /\ v < W64
  BY EndType, BitsAssumption, Words DEF Word
<1>2. q + c <= End
  <2>1. Len(Groups(v, c)) = c
    BY <1>1, GroupsType
  <2> QED
    BY <2>1 DEF Stands
<1>3. \A i \in 0 .. c - 1 : Slice(q + i) = Group(v, i) /\ (Continues(q + i) <=> i < c - 1)
  BY <1>1, GroupsSlices
<1>4. \A j \in q .. last : /\ j - q \in 0 .. c - 1 /\ q + (j - q) = j
                           /\ j - q < c - 1 <=> j # last
                           /\ 7 * (j - q) \in Nat /\ 7 * (j - q) < Bits64 /\ 7 * (j - q) <= Bits64 + 6
                           /\ j \in q .. End /\ j # End
  BY <1>1, <1>2
<1>5. ASSUME NEW j \in q .. last
      PROVE  Fits(q, j) /\ (Continues(j) <=> j # last)
  <2>1. Slice(j) = Group(v, j - q) /\ (Continues(j) <=> j # last)
    BY <1>3, <1>4
  <2>2. Group(v, j - q) * 2 ^ (7 * (j - q)) <= v
    BY <1>1, <1>4, GroupBelow
  <2>3. Group(v, j - q) * 2 ^ (7 * (j - q)) \in Int
    <3>1. Group(v, j - q) \in Int
      <4>1. j - q \in Nat /\ v \in Int
        BY <1>1
      <4>2. Group(v, j - q) \in 0 .. 127
        BY <1>4, <4>1, GroupType
      <4>3. \A x \in 0 .. 127 : x \in Int
        OBVIOUS
      <4> QED
        BY <4>2, <4>3
    <3>2. 2 ^ (7 * (j - q)) \in Int
      BY <1>4, Power
    <3> QED
      BY <3>1, <3>2
  <2>4. Slice(j) * 2 ^ (7 * (j - q)) < W64
    BY <1>1, <2>1, <2>2, <2>3
  <2> QED
    BY <1>4, <2>1, <2>4 DEF Fits
<1>6. last \in q .. last /\ last + 1 = q + c /\ last \in q .. End /\ last # End
  BY <1>1, <1>2
<1>7. last \in S
  BY <1>5, <1>6
<1>8. \A j \in S : last <= j
  <2> SUFFICES ASSUME NEW j \in S, ~(last <= j) PROVE FALSE
    OBVIOUS
  <2>1. j \in q .. last /\ j # last
    BY <1>1
  <2>2. j # End /\ Fits(q, j) /\ Continues(j)
    BY <1>4, <1>5, <2>1
  <2> QED
    BY <2>2
<1>9. Least(S) = last
  <2>1. S \subseteq q .. End
    OBVIOUS
  <2> HIDE DEF S, last
  <2> QED
    BY <1>1, <1>7, <1>8, <2>1, LeastIs
<1>10. Joined(q, last) = v
  <2>1. Joined(q, last) = v % 2 ^ (7 * c)
    BY <1>1, GroupsJoined
  <2> DEFINE w == 2 ^ (7 * c)
  <2>2. w \in Nat \ {0} /\ v < w
    BY Power
  <2> HIDE DEF w
  <2>3. v \in 0 .. w - 1 /\ v = 0 * w + v
    BY <1>1, <2>2
  <2>4. v % w = v
    BY <1>1, <2>2, <2>3, RemainderIs
  <2> QED
    BY <2>1, <2>4 DEF w
<1>11. ReadUleb(q) = IF Least(S) = End \/ ~Fits(q, Least(S))
                     THEN [value |-> 0, next |-> Least(S)]
                     ELSE [value |-> Joined(q, Least(S)), next |-> Least(S) + 1]
  BY DEF ReadUleb
<1> HIDE DEF S, last
<1> QED
  BY <1>5, <1>6, <1>9, <1>10, <1>11

(* The number of groups is enough, and not too large for the reader.       *)
LEMMA MaxGroupsIs ==
  /\ MaxGroups \in Nat \ {0}
  /\ 7 * MaxGroups <= Bits64 + 6 /\ Bits64 <= 7 * MaxGroups
  /\ \A k \in 1 .. MaxGroups : 7 * k <= Bits64 + 6
<1>1. Bits64 \in Nat \ {0}
  BY BitsAssumption
<1>2. MaxGroups \in Nat \ {0} /\ 7 * MaxGroups <= Bits64 + 6 /\ Bits64 <= 7 * MaxGroups
  BY <1>1 DEF MaxGroups
<1> HIDE DEF MaxGroups
<1> QED
  BY <1>1, <1>2

LEMMA UlebLength ==
  ASSUME NEW v \in Word
  PROVE  \E c \in Nat \ {0} : 7 * c <= Bits64 + 6 /\ v < 2 ^ (7 * c) /\ Uleb(v) = Groups(v, c)
<1> DEFINE S == {k \in 1 .. MaxGroups : v < 2 ^ (7 * k)}
           e == 7 * MaxGroups - Bits64
<1>1. MaxGroups \in Nat \ {0} /\ Bits64 \in Nat /\ W64 \in Nat \ {0} /\ v \in Nat /\ v < W64
  BY MaxGroupsIs, BitsAssumption, Words DEF Word
<1>2. e \in Nat /\ Bits64 + e = 7 * MaxGroups /\ Bits64 + e <= Bits64 + 6
  BY <1>1, MaxGroupsIs
<1>3. 2 ^ (Bits64 + e) = W64 * 2 ^ e /\ 2 ^ e \in Nat \ {0}
  BY <1>1, <1>2, NextWeight DEF W64
<1>4. v < W64 * 2 ^ e
  <2> DEFINE w == 2 ^ e
  <2>1. w \in Nat \ {0}
    BY <1>3
  <2> HIDE DEF w
  <2>2. W64 * 1 <= W64 * w /\ W64 * 1 = W64 /\ W64 * w \in Int
    BY <1>1, <2>1
  <2>3. v < W64 * w
    BY <1>1, <2>2
  <2> QED
    BY <2>3 DEF w
<1>5. MaxGroups \in S
  <2>1. v < 2 ^ (7 * MaxGroups) /\ MaxGroups \in 1 .. MaxGroups
    BY <1>1, <1>2, <1>3, <1>4
  <2> QED
    BY <2>1
<1>6. Least(S) \in S
  <2>1. S \subseteq 1 .. MaxGroups /\ S # {}
    BY <1>5
  <2> HIDE DEF S
  <2> QED
    BY <1>1, <2>1, LeastIn
<1>7. Uleb(v) = Groups(v, Least(S))
  BY DEF Uleb
<1> DEFINE c == Least(S)
<1>8. c \in 1 .. MaxGroups /\ v < 2 ^ (7 * c)
  BY <1>6
<1> HIDE DEF c, S
<1>9. c \in Nat \ {0} /\ 7 * c <= Bits64 + 6
  BY <1>1, <1>8, MaxGroupsIs
<1> QED
  BY <1>7, <1>8, <1>9 DEF c

(* The sign of a number is in the seventh bit of its last group.           *)
LEMMA SignedNumber ==
  ASSUME NEW a \in Nat \ {0}, NEW v \in Int, -(64 * a) <= v, v < 64 * a
  PROVE  /\ (v \div a) % 128 >= 64 <=> v < 0
         /\ v >= 0 => v % (128 * a) = v
         /\ v < 0 => v % (128 * a) = v + 128 * a
<1> DEFINE d == v \div a
           r == v % a
<1>1. d \in Int /\ r \in 0 .. a - 1 /\ v = d * a + r
  BY Divided
<1> HIDE DEF d, r
<1>2. d <= 63
  <2> SUFFICES ASSUME d >= 64 PROVE FALSE
    BY <1>1
  <2>1. d * a >= 64 * a
    BY <1>1
  <2>2. d * a \in Int /\ r \in Int
    BY <1>1
  <2> QED
    BY <1>1, <2>1, <2>2
<1>3. d >= -64
  <2> SUFFICES ASSUME d <= -65 PROVE FALSE
    BY <1>1
  <2>1. d * a <= (-65) * a
    BY <1>1
  <2>2. d * a \in Int /\ r \in Int /\ (-65) * a = -(64 * a) - a
    BY <1>1
  <2> QED
    BY <1>1, <2>1, <2>2
<1>4. d < 0 <=> v < 0
  <2>1. CASE d < 0
    <3>1. d * a <= (-1) * a
      BY <1>1, <2>1
    <3>2. d * a \in Int /\ r \in Int /\ (-1) * a = -a
      BY <1>1
    <3> QED
      BY <1>1, <2>1, <3>1, <3>2
  <2>2. CASE d >= 0
    <3>1. d * a >= 0
      BY <1>1, <2>2
    <3>2. d * a \in Int /\ r \in Int
      BY <1>1
    <3> QED
      BY <1>1, <2>2, <3>1, <3>2
  <2> QED
    BY <1>1, <2>1, <2>2
<1>5. d % 128 >= 64 <=> d < 0
  BY <1>1, <1>2, <1>3
<1>6. 128 * a \in Nat \ {0} /\ 128 * a = 64 * a + 64 * a /\ 64 * a \in Nat
  OBVIOUS
<1>7. v >= 0 => v % (128 * a) = v
  <2> SUFFICES ASSUME v >= 0 PROVE v % (128 * a) = v
    OBVIOUS
  <2> DEFINE w == 128 * a
  <2>1. w \in Nat \ {0} /\ v \in 0 .. w - 1
    BY <1>6
  <2> HIDE DEF w
  <2>2. v = 0 * w + v
    BY <2>1
  <2>3. v % w = v
    BY <2>1, <2>2, RemainderIs
  <2> QED
    BY <2>3 DEF w
<1>8. v < 0 => v % (128 * a) = v + 128 * a
  <2> SUFFICES ASSUME v < 0 PROVE v % (128 * a) = v + 128 * a
    OBVIOUS
  <2> DEFINE w == 128 * a
  <2>1. w \in Nat \ {0} /\ v + w \in 0 .. w - 1
    BY <1>6
  <2> HIDE DEF w
  <2>2. v = (-1) * w + (v + w) /\ -1 \in Int
    BY <2>1
  <2>3. v % w = v + w
    BY <2>1, <2>2, RemainderIs
  <2> QED
    BY <2>3 DEF w
<1> QED
  BY <1>4, <1>5, <1>7, <1>8 DEF d

(* The numbers that c groups hold with their sign.                         *)
Signed(v, c) == -(2 ^ (7 * c - 1)) <= v /\ v < 2 ^ (7 * c - 1)

LEMMA SignedGroups ==
  ASSUME NEW v \in Int, NEW c \in Nat \ {0}, 7 * c <= Bits64 + 6, Signed(v, c)
  PROVE  /\ 2 ^ (7 * c) \in Nat \ {0}
         /\ Group(v, c - 1) >= 64 <=> v < 0
         /\ v >= 0 => v % 2 ^ (7 * c) = v
         /\ v < 0 => v % 2 ^ (7 * c) = v + 2 ^ (7 * c)
<1> DEFINE e == 7 * (c - 1)
           a == 2 ^ e
<1>1. /\ Bits64 \in Nat /\ e \in Nat /\ 7 * c - 1 = 6 + e /\ 7 * c = 7 + e
      /\ 6 + e <= Bits64 + 6 /\ 7 + e <= Bits64 + 6 /\ 6 \in Nat /\ 7 \in Nat
  BY BitsAssumption
<1>2. 2 ^ (6 + e) = 2 ^ 6 * a /\ a \in Nat \ {0}
  BY <1>1, NextWeight
<1>3. 2 ^ (7 + e) = 2 ^ 7 * a
  BY <1>1, NextWeight
<1>4. 2 ^ (7 * c - 1) = 64 * a /\ 2 ^ (7 * c) = 128 * a
  BY <1>1, <1>2, <1>3, PowerAssumption
<1>5. Group(v, c - 1) = (v \div a) % 128
  BY DEF Group
<1> HIDE DEF a
<1>6. -(64 * a) <= v /\ v < 64 * a
  BY <1>4 DEF Signed
<1>7. /\ (v \div a) % 128 >= 64 <=> v < 0
      /\ v >= 0 => v % (128 * a) = v
      /\ v < 0 => v % (128 * a) = v + 128 * a
  BY <1>2, <1>6, SignedNumber
<1>8. 128 * a \in Nat \ {0}
  BY <1>2
<1> QED
  BY <1>4, <1>5, <1>7, <1>8

LEMMA SlebRead ==
  ASSUME bytes \in Seq(Byte), NEW v \in Int, NEW c \in Nat \ {0}, 7 * c <= Bits64 + 6,
         Signed(v, c), NEW q \in Nat \ {0}, Stands(q, Groups(v, c))
  PROVE  /\ ReadSleb(q).next = q + c
         /\ v >= 0 \/ 7 * c < Bits64 => ReadSleb(q).values = {v % W64}
<1> DEFINE S == {i \in q .. End : i = End \/ ~Continues(i)}
           last == q + c - 1
           w == 2 ^ (7 * c)
<1>1. End \in Nat \ {0} /\ Bits64 \in Nat /\ W64 \in Nat \ {0}
  BY EndType, BitsAssumption, Words
<1>2. q + c <= End
  <2>1. Len(Groups(v, c)) = c
    BY <1>1, GroupsType
  <2> QED
    BY <2>1 DEF Stands
<1>3. \A i \in 0 .. c - 1 : Slice(q + i) = Group(v, i) /\ (Continues(q + i) <=> i < c - 1)
  BY GroupsSlices
<1>4. \A j \in q .. last : /\ j - q \in 0 .. c - 1 /\ q + (j - q) = j
                           /\ j - q < c - 1 <=> j # last
                           /\ j \in q .. End /\ j # End
  BY <1>1, <1>2
<1>5. \A j \in q .. last : Continues(j) <=> j # last
  BY <1>3, <1>4
<1>6. /\ last \in q .. last /\ last + 1 = q + c /\ last \in q .. End /\ last # End
      /\ c - 1 \in 0 .. c - 1 /\ q + (c - 1) = last /\ 7 * (last - q + 1) = 7 * c
  BY <1>1, <1>2
<1>7. last \in S
  BY <1>5, <1>6
<1>8. \A j \in S : last <= j
  <2> SUFFICES ASSUME NEW j \in S, ~(last <= j) PROVE FALSE
    OBVIOUS
  <2>1. j \in q .. last /\ j # last
    BY <1>1
  <2>2. j # End /\ Continues(j)
    BY <1>4, <1>5, <2>1
  <2> QED
    BY <2>2
<1>9. Least(S) = last
  <2>1. S \subseteq q .. End
    OBVIOUS
  <2> HIDE DEF S, last
  <2> QED
    BY <1>1, <1>7, <1>8, <2>1, LeastIs
<1>10. Slice(last) = Group(v, c - 1)
  BY <1>3, <1>6
<1>11. /\ w \in Nat \ {0} /\ (Slice(last) >= 64 <=> v < 0)
       /\ v >= 0 => v % w = v
       /\ v < 0 => v % w = v + w
  BY <1>10, SignedGroups
<1>12. Joined(q, last) = v % w
  BY GroupsJoined
<1> DEFINE value == Joined(q, last) % W64
<1>13. ReadSleb(q) = [values |-> SlebValues(q, last), next |-> q + c]
  <2>1. ReadSleb(q) = IF Least(S) = End THEN [values |-> {0}, next |-> Least(S)]
                      ELSE [values |-> SlebValues(q, Least(S)), next |-> Least(S) + 1]
    BY DEF ReadSleb
  <2> HIDE DEF S, last
  <2> QED
    BY <1>6, <1>9, <2>1
<1>14. SlebValues(q, last) = IF 7 * c - 7 >= Bits64 THEN 0 .. W64 - 1
                             ELSE IF Slice(last) < 64 THEN {value}
                             ELSE IF 7 * c < Bits64 THEN {Extended(value, 7 * c)}
                             ELSE {value, Extended(value, 7 * c - Bits64)}
  <2> HIDE DEF last
  <2> QED
    BY <1>6 DEF SlebValues
<1>15. ~(7 * c - 7 >= Bits64) /\ (Slice(last) < 64 <=> ~(v < 0))
  <2>1. Slice(last) \in Int
    <3>1. last \in 1 .. Len(bytes) /\ \A x \in 0 .. 127 : x \in Int
      BY <1>2 DEF End
    <3> QED
      BY <3>1, SliceType
  <2>2. ~(7 * c - 7 >= Bits64)
    BY <1>1
  <2> HIDE DEF last
  <2> QED
    BY <1>11, <2>1, <2>2
<1>16. ASSUME v >= 0
       PROVE  value = v % W64 /\ SlebValues(q, last) = {value}
  <2>1. Joined(q, last) = v
    BY <1>11, <1>12, <1>16
  <2>2. ~(v < 0)
    BY <1>16
  <2> HIDE DEF last
  <2> QED
    BY <1>14, <1>15, <2>1, <2>2
<1>17. ASSUME v < 0, 7 * c < Bits64
       PROVE  SlebValues(q, last) = {v % W64}
  <2>1. SlebValues(q, last) = {Extended(value, 7 * c)}
    BY <1>14, <1>15, <1>17
  <2>2. \E m \in Nat \ {0} : W64 = w * m
    <3>1. Bits64 - 7 * c \in Nat /\ 7 * c \in Nat /\ 7 * c + (Bits64 - 7 * c) = Bits64
      BY <1>1, <1>17
    <3>2. 2 ^ (7 * c + (Bits64 - 7 * c)) = w * 2 ^ (Bits64 - 7 * c)
      BY <1>1, <3>1, NextWeight
    <3>3. 2 ^ (Bits64 - 7 * c) \in Nat \ {0}
      BY <1>1, <3>1, NextWeight
    <3> QED
      BY <3>1, <3>2, <3>3 DEF W64
  <2>3. PICK m \in Nat \ {0} : W64 = w * m
    BY <2>2
  <2>4. Joined(q, last) = v + w /\ v + w = v % w
    BY <1>11, <1>12, <1>17
  <2>5. Extended(value, 7 * c) = ((value % w) + W64 - w) % W64
    BY DEF Extended
  <2> HIDE DEF w, last
  <2>6. v + w \in 0 .. w - 1 /\ v + w < W64
    <3>1. v % w \in 0 .. w - 1
      BY <1>11
    <3>2. w * 1 <= w * m /\ w * 1 = w
      BY <1>11, <2>3
    <3> QED
      BY <1>1, <1>11, <2>3, <2>4, <3>1, <3>2
  <2>7. value = v + w /\ value % w = v + w
    <3>1. \A x, y \in Nat : x < y => x % y = x
      OBVIOUS
    <3>2. v + w \in Nat /\ v + w < w
      BY <1>11, <2>6
    <3> QED
      BY <1>1, <1>11, <2>4, <2>6, <3>1, <3>2
  <2>8. (value % w) + W64 - w = v + 1 * W64
    BY <1>1, <1>11, <2>7
  <2>9. (v + 1 * W64) % W64 = v % W64
    <3>1. 1 \in Int
      OBVIOUS
    <3> QED
      BY <1>1, <3>1, WholeWords
  <2> QED
    BY <2>1, <2>5, <2>8, <2>9
<1>18. v >= 0 \/ v < 0
  OBVIOUS
<1> HIDE DEF value, last
<1> QED
  BY <1>13, <1>16, <1>17, <1>18

LEMMA SlebLength ==
  ASSUME NEW v \in SignedWord
  PROVE  \E c \in Nat \ {0} : 7 * c <= Bits64 + 6 /\ Signed(v, c) /\ Sleb(v) = Groups(v, c)
<1> DEFINE S == {k \in 1 .. MaxGroups : v \in -(2 ^ (7 * k - 1)) .. 2 ^ (7 * k - 1) - 1}
           e == 7 * MaxGroups - Bits64
           h == 2 ^ (Bits64 - 1)
           t == 2 ^ e
<1>1. MaxGroups \in Nat \ {0} /\ Bits64 \in Nat \ {0} /\ Bits64 - 1 \in Nat
  BY MaxGroupsIs, BitsAssumption
<1>2. /\ e \in Nat /\ (Bits64 - 1) + e = 7 * MaxGroups - 1
      /\ (Bits64 - 1) + e <= Bits64 + 6
  BY <1>1, MaxGroupsIs
<1>3. 2 ^ ((Bits64 - 1) + e) = h * t /\ t \in Nat \ {0} /\ h \in Nat \ {0}
  BY <1>1, <1>2, NextWeight
<1>4. v \in Int /\ -h <= v /\ v < h
  <2>1. v \in -h .. h - 1
    BY DEF SignedWord
  <2> HIDE DEF h
  <2> QED
    BY <1>3, <2>1
<1>5. h * t \in Int /\ h <= h * t
  <2> HIDE DEF h, t
  <2>1. h * 1 <= h * t /\ h * 1 = h
    BY <1>3
  <2> QED
    BY <1>3, <2>1
<1>6. v \in -(h * t) .. h * t - 1
  <2> DEFINE x == h * t
  <2>1. x \in Int /\ h <= x
    BY <1>5
  <2> HIDE DEF x, h, t
  <2>2. v \in -x .. x - 1
    BY <1>3, <1>4, <2>1
  <2> QED
    BY <2>2 DEF x
<1>7. MaxGroups \in S
  <2>1. 2 ^ (7 * MaxGroups - 1) = h * t /\ MaxGroups \in 1 .. MaxGroups
    BY <1>1, <1>2, <1>3
  <2> HIDE DEF h, t
  <2> QED
    BY <1>6, <2>1
<1>8. Least(S) \in S
  <2>1. S \subseteq 1 .. MaxGroups /\ S # {}
    BY <1>7
  <2> HIDE DEF S
  <2> QED
    BY <1>1, <2>1, LeastIn
<1>9. Sleb(v) = Groups(v, Least(S))
  BY DEF Sleb
<1> DEFINE c == Least(S)
<1>10. c \in 1 .. MaxGroups /\ v \in -(2 ^ (7 * c - 1)) .. 2 ^ (7 * c - 1) - 1
  BY <1>8
<1> HIDE DEF c, S
<1>11. c \in Nat \ {0} /\ 7 * c <= Bits64 + 6 /\ 7 * c - 1 \in Nat /\ 7 * c - 1 <= Bits64 + 6
  BY <1>1, <1>10, MaxGroupsIs
<1>12. Signed(v, c)
  <2> DEFINE x == 2 ^ (7 * c - 1)
  <2>1. x \in Nat \ {0} /\ v \in -x .. x - 1
    BY <1>10, <1>11, Power
  <2> HIDE DEF x
  <2>2. -x <= v /\ v < x
    BY <2>1
  <2> QED
    BY <2>2 DEF x, Signed
<1> QED
  BY <1>9, <1>11, <1>12 DEF c

LEMMA MemberIn ==
  ASSUME NEW S, NEW s \in Seq(S), NEW i \in 1 .. Len(s)
  PROVE  s[i] \in S
OBVIOUS

(* A symbol name is scanned to the zero behind it.                         *)
LEMMA StringRead ==
  ASSUME bytes \in Seq(Byte), NEW name \in Seq(1 .. 255), NEW q \in Nat \ {0},
         Stands(q, Append(name, 0))
  PROVE  AfterString(q) = q + Len(name) + 1 /\ NameAt(q) = name
<1> DEFINE l == Len(name)
           zero == q + l
           S == {i \in q .. End : i = End \/ bytes[i] = 0}
           T == {i \in q .. Len(bytes) : bytes[i] = 0}
<1>1. End \in Nat \ {0} /\ Len(bytes) \in Nat /\ End = Len(bytes) + 1 /\ l \in Nat
  BY EndType
<1>2. /\ Len(Append(name, 0)) = l + 1 /\ Append(name, 0)[l + 1] = 0
      /\ \A i \in 1 .. l : Append(name, 0)[i] = name[i]
  <2>1. name \in Seq(0 .. 255) /\ 0 \in 0 .. 255
    OBVIOUS
  <2> QED
    BY <2>1, AppendFacts
<1>3. zero + 1 <= End /\ bytes[zero] = 0
  <2>1. l + 1 \in 1 .. l + 1 /\ q + (l + 1) - 1 = zero /\ q + (l + 1) = zero + 1
    BY <1>1
  <2> QED
    BY <1>2, <2>1 DEF Stands
<1>4. \A i \in 1 .. l : bytes[q + i - 1] = name[i] /\ name[i] \in 1 .. 255
  <2> SUFFICES ASSUME NEW i \in 1 .. l
               PROVE  bytes[q + i - 1] = name[i] /\ name[i] \in 1 .. 255
    OBVIOUS
  <2>1. i \in 1 .. l + 1
    BY <1>1
  <2>2. name[i] \in 1 .. 255
    BY MemberIn
  <2> QED
    BY <1>2, <2>1, <2>2 DEF Stands
<1>5. \A j \in q .. zero - 1 : bytes[j] # 0
  <2> SUFFICES ASSUME NEW j \in q .. zero - 1 PROVE bytes[j] # 0
    OBVIOUS
  <2>1. j - q + 1 \in 1 .. l /\ q + (j - q + 1) - 1 = j
    BY <1>1
  <2>2. bytes[j] \in 1 .. 255
    BY <1>4, <2>1
  <2>3. \A x \in 1 .. 255 : x # 0
    OBVIOUS
  <2> QED
    BY <2>2, <2>3
<1>6. zero \in Nat /\ zero \in q .. Len(bytes) /\ zero \in q .. End /\ zero # End
  BY <1>1, <1>3
<1>7. Least(S) = zero /\ Least(T) = zero
  <2>1. zero \in S /\ zero \in T /\ S \subseteq q .. End /\ T \subseteq q .. Len(bytes)
    BY <1>3, <1>6
  <2>2. \A y \in q .. End : y = End \/ bytes[y] = 0 => zero <= y
    <3> SUFFICES ASSUME NEW y \in q .. End, y = End \/ bytes[y] = 0, ~(zero <= y)
                 PROVE  FALSE
      OBVIOUS
    <3>1. y \in q .. zero - 1 /\ y # End
      BY <1>1, <1>6
    <3> QED
      BY <1>5, <3>1
  <2>3. (\A y \in S : zero <= y) /\ (\A y \in T : zero <= y)
    <3>1. \A y \in q .. Len(bytes) : y \in q .. End
      BY <1>1
    <3> QED
      BY <2>2, <3>1
  <2> HIDE DEF S, T, zero
  <2> QED
    BY <1>1, <2>1, <2>3, LeastIs
<1>8. AfterString(q) = q + Len(name) + 1
  BY <1>7 DEF AfterString
<1>9. NameAt(q) = SubSeq(bytes, q, zero - 1)
  <2>1. q # None
    BY NoneAssumption
  <2>2. NameAt(q) = SubSeq(bytes, q, Least(T) - 1)
    BY <2>1 DEF NameAt
  <2> HIDE DEF T, zero
  <2> QED
    BY <1>7, <2>2
<1>10. SubSeq(bytes, q, zero - 1) = name
  <2> DEFINE z == zero - 1
  <2>1. q \in Int /\ z \in Int /\ z - q + 1 = l /\ (q <= z <=> 1 <= l)
    BY <1>1
  <2>2. \A i \in q .. z : bytes[i] \in 1 .. 255
    <3> SUFFICES ASSUME NEW j \in q .. z PROVE bytes[j] \in 1 .. 255
      OBVIOUS
    <3>1. j - q + 1 \in 1 .. l /\ q + (j - q + 1) - 1 = j
      BY <1>1
    <3> QED
      BY <1>4, <3>1
  <2> HIDE DEF z, zero
  <2>3. /\ SubSeq(bytes, q, z) \in Seq(1 .. 255)
        /\ Len(SubSeq(bytes, q, z)) = IF q <= z THEN z - q + 1 ELSE 0
        /\ \A i \in 1 .. z - q + 1 : SubSeq(bytes, q, z)[i] = bytes[q + i - 1]
    BY <2>1, <2>2, SubSeqProperties
  <2> DEFINE t == SubSeq(bytes, q, z)
  <2> HIDE DEF t
  <2>4. t \in Seq(1 .. 255) /\ Len(t) = l /\ \A i \in 1 .. l : t[i] = name[i]
    BY <1>1, <1>4, <2>1, <2>3 DEF t
  <2> HIDE DEF l
  <2>5. t = name
    BY <2>4, SeqEqual DEF l
  <2> QED
    BY <2>5 DEF t, z
<1> QED
  BY <1>8, <1>9, <1>10

------------------------------------------------------------------------------
(* Programs. *)

LEMMA UlebBytes ==
  ASSUME NEW v \in Word
  PROVE  Uleb(v) \in Seq(Byte)
<1>1. PICK c \in Nat \ {0} : 7 * c <= Bits64 + 6 /\ Uleb(v) = Groups(v, c)
  BY UlebLength
<1>2. v \in Int
  BY DEF Word
<1> QED
  BY <1>1, <1>2, GroupsType

LEMMA SignedInt == ASSUME NEW v \in SignedWord PROVE v \in Int
<1>1. Bits64 - 1 \in Nat /\ Bits64 - 1 <= Bits64 + 6
  BY BitsAssumption
<1>2. 2 ^ (Bits64 - 1) \in Nat
  BY <1>1, Power
<1> QED
  BY <1>2 DEF SignedWord

LEMMA SlebBytes ==
  ASSUME NEW v \in SignedWord
  PROVE  Sleb(v) \in Seq(Byte)
<1>1. PICK c \in Nat \ {0} : 7 * c <= Bits64 + 6 /\ Sleb(v) = Groups(v, c)
  BY SlebLength
<1> QED
  BY <1>1, SignedInt, GroupsType

(* A 64-bit word is made of 32-bit words.                                  *)
LEMMA WordSizes == \E m \in Nat \ {0} : W64 = m * W32
<1>1. /\ Bits32 \in Nat /\ Bits64 - Bits32 \in Nat /\ (Bits64 - Bits32) + Bits32 = Bits64
      /\ (Bits64 - Bits32) + Bits32 <= Bits64 + 6
  BY BitsAssumption
<1>2. /\ 2 ^ ((Bits64 - Bits32) + Bits32) = 2 ^ (Bits64 - Bits32) * 2 ^ Bits32
      /\ 2 ^ (Bits64 - Bits32) \in Nat \ {0}
  BY <1>1, NextWeight
<1> QED
  BY <1>1, <1>2 DEF W64, W32

LEMMA HalfWords ==
  /\ W32 \div 2 \in Nat
  /\ \A x \in 0 .. (W32 \div 2) - 1 : x \in Nat /\ x < W32 \div 2 /\ x < W32 /\ x \in Word
  /\ \A x \in 0 .. W32 - 1 : x \in Word
<1>1. PICK m \in Nat \ {0} : W64 = m * W32
  BY WordSizes
<1>2. W32 \in Nat \ {0} /\ W64 \in Nat \ {0}
  BY Words
<1>3. W32 <= W64
  <2>1. \A x, y \in Nat \ {0} : x <= y * x
    OBVIOUS
  <2> QED
    BY <1>1, <1>2, <2>1
<1>4. W32 \div 2 \in Nat /\ W32 \div 2 <= W32
  BY <1>2
<1>5. \A x \in 0 .. W32 - 1 : x \in 0 .. W64 - 1
  BY <1>2, <1>3
<1>6. \A x \in 0 .. (W32 \div 2) - 1 : x \in Nat /\ x < W32 \div 2 /\ x \in 0 .. W32 - 1
  BY <1>2, <1>4
<1> QED
  BY <1>2, <1>4, <1>5, <1>6 DEF Word

(* An instruction by its opcode.                                           *)
LEMMA InstructionFacts ==
  ASSUME NEW o \in Instruction
  PROVE  /\ o.op \in 0 .. 15 /\ o.imm \in 0 .. 15
         /\ o.op \in {2, 7, 8, 10} => o.num \in Word
         /\ o.op = 2 => o.num \in 0 .. (W32 \div 2) - 1
         /\ o.op = 4 => o.name \in Seq(1 .. 255)
         /\ o.op = 6 => o.num \in SignedWord
         /\ o.op = 12 => o.num \in Word /\ o.num \in 0 .. W32 - 1 /\ o.skip \in Word
<1> DEFINE names == Seq(1 .. 255)
           ordinals == 0 .. (W32 \div 2) - 1
           counts == 0 .. W32 - 1
<1>1. ordinals \subseteq Word /\ counts \subseteq Word
  BY HalfWords
<1> HIDE DEF names, ordinals, counts
<1>2. o \in [op : {0, 1, 3, 5, 9, 11} \cup 13 .. 15, imm : 0 .. 15] \cup
            [op : {2}, imm : 0 .. 15, num : ordinals] \cup
            [op : {7, 8, 10}, imm : 0 .. 15, num : Word] \cup
            [op : {4}, imm : 0 .. 15, name : names] \cup
            [op : {6}, imm : 0 .. 15, num : SignedWord] \cup
            [op : {12}, imm : 0 .. 15, num : counts, skip : Word]
  BY DEF Instruction, names, ordinals, counts
<1>3. /\ o.op \in 0 .. 15 /\ o.imm \in 0 .. 15
      /\ o.op \in {7, 8, 10} => o.num \in Word
      /\ o.op = 2 => o.num \in ordinals
      /\ o.op = 4 => o.name \in names
      /\ o.op = 6 => o.num \in SignedWord
      /\ o.op = 12 => o.num \in counts /\ o.skip \in Word
  BY <1>2
<1>4. o.op \in {2, 7, 8, 10} => o.num \in Word
  BY <1>1, <1>3
<1> QED
  BY <1>1, <1>3, <1>4 DEF names, ordinals, counts

LEMMA OperandIs ==
  ASSUME NEW o \in Instruction
  PROVE  /\ o.op \in {2, 7, 8, 10} => Operand(o) = Uleb(o.num)
         /\ o.op = 4 => Operand(o) = Append(o.name, 0)
         /\ o.op = 6 => Operand(o) = Sleb(o.num)
         /\ o.op = 12 => Operand(o) = Uleb(o.num) \o Uleb(o.skip)
         /\ o.op \notin {2, 7, 8, 10, 4, 6, 12} => Operand(o) = <<>>
<1>1. ASSUME o.op \in {2, 7, 8, 10} PROVE Operand(o) = Uleb(o.num)
  BY <1>1 DEF Operand
<1>2. ASSUME o.op = 4 PROVE Operand(o) = Append(o.name, 0)
  BY <1>2 DEF Operand
<1>3. ASSUME o.op = 6 PROVE Operand(o) = Sleb(o.num)
  BY <1>3 DEF Operand
<1>4. ASSUME o.op = 12 PROVE Operand(o) = Uleb(o.num) \o Uleb(o.skip)
  BY <1>4 DEF Operand
<1>5. ASSUME o.op \notin {2, 7, 8, 10, 4, 6, 12} PROVE Operand(o) = <<>>
  BY <1>5 DEF Operand
<1> QED
  BY <1>1, <1>2, <1>3, <1>4, <1>5

LEMMA OperandBytes ==
  ASSUME NEW o \in Instruction
  PROVE  Operand(o) \in Seq(Byte)
<1>1. CASE o.op \in {2, 7, 8, 10}
  BY <1>1, InstructionFacts, OperandIs, UlebBytes
<1>2. CASE o.op = 4
  <2>1. o.name \in Seq(1 .. 255)
    BY <1>2, InstructionFacts
  <2>2. o.name \in Seq(Byte) /\ 0 \in Byte
    BY <2>1 DEF Byte
  <2>3. Append(o.name, 0) \in Seq(Byte)
    BY <2>2, AppendFacts
  <2> QED
    BY <1>2, <2>3, OperandIs
<1>3. CASE o.op = 6
  BY <1>3, InstructionFacts, OperandIs, SlebBytes
<1>4. CASE o.op = 12
  <2>1. Uleb(o.num) \in Seq(Byte) /\ Uleb(o.skip) \in Seq(Byte)
    BY <1>4, InstructionFacts, UlebBytes
  <2>2. Uleb(o.num) \o Uleb(o.skip) \in Seq(Byte)
    BY <2>1, ConcatProperties
  <2> QED
    BY <1>4, <2>2, OperandIs
<1>5. CASE o.op \notin {2, 7, 8, 10, 4, 6, 12}
  <2>1. <<>> \in Seq(Byte)
    OBVIOUS
  <2> QED
    BY <1>5, <2>1, OperandIs
<1> QED
  BY <1>1, <1>2, <1>3, <1>4, <1>5

LEMMA EncodedIs ==
  ASSUME NEW o \in Instruction
  PROVE  /\ Encoded(o) \in Seq(Byte) /\ Operand(o) \in Seq(Byte)
         /\ Len(Encoded(o)) = 1 + Len(Operand(o))
         /\ Encoded(o)[1] = 16 * o.op + o.imm
         /\ \A i \in 1 .. Len(Operand(o)) : Encoded(o)[i + 1] = Operand(o)[i]
<1> DEFINE b == 16 * o.op + o.imm
           head == <<b>>
           t == Operand(o)
<1>1. b \in Byte
  <2>1. o.op \in 0 .. 15 /\ o.imm \in 0 .. 15
    BY InstructionFacts
  <2> QED
    BY <2>1 DEF Byte
<1>2. t \in Seq(Byte)
  BY OperandBytes
<1> HIDE DEF b, t
<1>3. head \in Seq(Byte) /\ Len(head) = 1 /\ head[1] = b
  BY <1>1
<1>4. Encoded(o) = head \o t
  BY DEF Encoded, b, t
<1> HIDE DEF head
<1>5. /\ head \o t \in Seq(Byte)
      /\ Len(head \o t) = 1 + Len(t)
      /\ \A i \in 1 .. 1 + Len(t) : (head \o t)[i] = IF i <= 1 THEN head[i] ELSE t[i - 1]
  <2>1. /\ head \o t \in Seq(Byte)
        /\ Len(head \o t) = Len(head) + Len(t)
        /\ \A i \in 1 .. Len(head) + Len(t) : (head \o t)[i] =
                 IF i <= Len(head) THEN head[i] ELSE t[i - Len(head)]
    BY <1>2, <1>3, ConcatProperties
  <2> QED
    BY <1>3, <2>1
<1>6. Len(t) \in Nat
  BY <1>2
<1>7. 1 \in 1 .. 1 + Len(t) /\ \A i \in 1 .. Len(t) : /\ i + 1 \in 1 .. 1 + Len(t)
                                                       /\ ~(i + 1 <= 1) /\ i + 1 - 1 = i
  BY <1>6
<1>8. (head \o t)[1] = b /\ \A i \in 1 .. Len(t) : (head \o t)[i + 1] = t[i]
  BY <1>3, <1>5, <1>7
<1> QED
  BY <1>2, <1>4, <1>5, <1>8 DEF t, b

(* What the code and the run are after each instruction: their recursions  *)
(* have a solution, found here for both of them at once.                   *)
Both(prog, f) ==
  \A j \in DOMAIN f :
    f[j] = IF j = 0 THEN [code |-> <<>>, run |-> AtStart]
           ELSE [code |-> f[j - 1].code \o Encoded(prog[j]), run |-> Do(f[j - 1].run, prog[j])]

LEMMA BothExist ==
  ASSUME NEW prog
  PROVE  \A k \in Nat : \E f : DOMAIN f = 0 .. k /\ Both(prog, f)
<1> DEFINE S == {k \in Nat : \E f : DOMAIN f = 0 .. k /\ Both(prog, f)}
           start == [code |-> <<>>, run |-> AtStart]
           Follow(j, x) == [code |-> x.code \o Encoded(prog[j]), run |-> Do(x.run, prog[j])]
<1>0. \A f : Both(prog, f) <=> \A j \in DOMAIN f : f[j] = IF j = 0 THEN start ELSE Follow(j, f[j - 1])
  BY DEF Both
<1> HIDE DEF start, Follow
<1>1. 0 \in S
  <2> DEFINE f == [j \in 0 .. 0 |-> start]
  <2>1. \A j \in 0 .. 0 : j = 0
    OBVIOUS
  <2>2. DOMAIN f = 0 .. 0 /\ \A j \in DOMAIN f : f[j] = IF j = 0 THEN start ELSE Follow(j, f[j - 1])
    BY <2>1
  <2> HIDE DEF f
  <2> QED
    BY <1>0, <2>2
<1>2. ASSUME NEW k \in Nat, k \in S
      PROVE  k + 1 \in S
  <2>1. PICK g : DOMAIN g = 0 .. k /\ Both(prog, g)
    BY <1>2
  <2> DEFINE top == k + 1
             f == [j \in 0 .. top |-> IF j = top THEN Follow(j, g[j - 1]) ELSE g[j]]
  <2>2. /\ \A j \in 0 .. top : j = top \/ j \in 0 .. k
        /\ top - 1 \in 0 .. k /\ top # 0 /\ top - 1 # top
        /\ \A j \in 0 .. k : /\ j # top /\ j - 1 # top
                             /\ j # 0 => j - 1 \in 0 .. k
                             /\ j \in 0 .. top
        /\ top \in 0 .. top
    OBVIOUS
  <2> HIDE DEF top
  <2>3. \A j \in 0 .. k : f[j] = g[j]
    BY <2>2
  <2>4. f[top] = Follow(top, f[top - 1])
    BY <2>2, <2>3
  <2>5. \A j \in 0 .. k : f[j] = IF j = 0 THEN start ELSE Follow(j, f[j - 1])
    BY <1>0, <2>1, <2>2, <2>3
  <2>6. DOMAIN f = 0 .. top
    OBVIOUS
  <2> HIDE DEF f
  <2>7. Both(prog, f)
    BY <1>0, <2>2, <2>4, <2>5, <2>6
  <2> QED
    BY <2>6, <2>7 DEF top
<1> HIDE DEF S
<1>3. \A k \in Nat : k \in S
  BY <1>1, <1>2, AllNumbers
<1> QED
  BY <1>3 DEF S

LEMMA CodeIs ==
  ASSUME NEW prog, Len(prog) \in Nat
  PROVE  /\ CodeOf(prog)[0] = <<>>
         /\ \A k \in 1 .. Len(prog) : CodeOf(prog)[k] = CodeOf(prog)[k - 1] \o Encoded(prog[k])
<1> DEFINE D == 0 .. Len(prog)
           Is(f) == f = [k \in D |-> IF k = 0 THEN <<>> ELSE f[k - 1] \o Encoded(prog[k])]
           Code == CHOOSE f : Is(f)
<1>1. CodeOf(prog) = Code
  BY DEF CodeOf
<1>2. PICK g : DOMAIN g = D /\ Both(prog, g)
  BY BothExist
<1> DEFINE h == [k \in D |-> g[k].code]
<1>3. \A k \in D : k # 0 => k - 1 \in D
  OBVIOUS
<1>4. 0 \in D /\ \A k \in 1 .. Len(prog) : k \in D /\ k # 0
  OBVIOUS
<1> HIDE DEF D
<1>5. \A k \in D : h[k] = IF k = 0 THEN <<>> ELSE h[k - 1] \o Encoded(prog[k])
  <2> SUFFICES ASSUME NEW k \in D
               PROVE  h[k] = IF k = 0 THEN <<>> ELSE h[k - 1] \o Encoded(prog[k])
    OBVIOUS
  <2>1. g[k] = IF k = 0 THEN [code |-> <<>>, run |-> AtStart]
               ELSE [code |-> g[k - 1].code \o Encoded(prog[k]),
                     run |-> Do(g[k - 1].run, prog[k])]
    BY <1>2 DEF Both
  <2>2. k # 0 => h[k - 1] = g[k - 1].code
    BY <1>3
  <2>3. h[k] = g[k].code
    OBVIOUS
  <2> HIDE DEF h
  <2>4. CASE k = 0
    BY <2>1, <2>3, <2>4
  <2>5. CASE k # 0
    <3> DEFINE x == g[k - 1].code
               c == x \o Encoded(prog[k])
               run == Do(g[k - 1].run, prog[k])
    <3>1. g[k] = [code |-> c, run |-> run] /\ h[k - 1] = x
      BY <2>1, <2>2, <2>5
    <3> HIDE DEF c, run
    <3>2. h[k] = c
      BY <2>3, <3>1
    <3> HIDE DEF x
    <3> QED
      BY <2>5, <3>1, <3>2 DEF c
  <2> QED
    BY <2>4, <2>5
<1>6. Is(h)
  <2> DEFINE l == [k \in D |-> IF k = 0 THEN <<>> ELSE h[k - 1] \o Encoded(prog[k])]
  <2>1. \A k \in D : l[k] = h[k]
    BY <1>5
  <2>2. l = h
    BY <2>1
  <2> QED
    BY <2>2
<1>7. Is(Code)
  BY <1>6
<1> HIDE DEF Code
<1>8. \A k \in D : Code[k] = IF k = 0 THEN <<>> ELSE Code[k - 1] \o Encoded(prog[k])
  BY <1>7
<1> QED
  BY <1>1, <1>4, <1>8

LEMMA RunIs ==
  ASSUME NEW prog, Len(prog) \in Nat
  PROVE  /\ RunOf(prog)[0] = AtStart
         /\ \A k \in 1 .. Len(prog) : RunOf(prog)[k] = Do(RunOf(prog)[k - 1], prog[k])
<1> DEFINE D == 0 .. Len(prog)
           Is(f) == f = [k \in D |-> IF k = 0 THEN AtStart ELSE Do(f[k - 1], prog[k])]
           Run == CHOOSE f : Is(f)
<1>1. RunOf(prog) = Run
  BY DEF RunOf
<1>2. PICK g : DOMAIN g = D /\ Both(prog, g)
  BY BothExist
<1> DEFINE h == [k \in D |-> g[k].run]
<1>3. \A k \in D : k # 0 => k - 1 \in D
  OBVIOUS
<1>4. 0 \in D /\ \A k \in 1 .. Len(prog) : k \in D /\ k # 0
  OBVIOUS
<1> HIDE DEF D
<1>5. \A k \in D : h[k] = IF k = 0 THEN AtStart ELSE Do(h[k - 1], prog[k])
  <2> SUFFICES ASSUME NEW k \in D
               PROVE  h[k] = IF k = 0 THEN AtStart ELSE Do(h[k - 1], prog[k])
    OBVIOUS
  <2>1. g[k] = IF k = 0 THEN [code |-> <<>>, run |-> AtStart]
               ELSE [code |-> g[k - 1].code \o Encoded(prog[k]),
                     run |-> Do(g[k - 1].run, prog[k])]
    BY <1>2 DEF Both
  <2>2. k # 0 => h[k - 1] = g[k - 1].run
    BY <1>3
  <2>3. h[k] = g[k].run
    OBVIOUS
  <2> HIDE DEF h
  <2>4. CASE k = 0
    BY <2>1, <2>3, <2>4
  <2>5. CASE k # 0
    BY <2>1, <2>2, <2>3, <2>5
  <2> QED
    BY <2>4, <2>5
<1>6. Is(h)
  <2> DEFINE l == [k \in D |-> IF k = 0 THEN AtStart ELSE Do(h[k - 1], prog[k])]
  <2>1. \A k \in D : l[k] = h[k]
    BY <1>5
  <2>2. l = h
    BY <2>1
  <2> QED
    BY <2>2
<1>7. Is(Run)
  BY <1>6
<1> HIDE DEF Run
<1>8. \A k \in D : Run[k] = IF k = 0 THEN AtStart ELSE Do(Run[k - 1], prog[k])
  BY <1>7
<1> QED
  BY <1>1, <1>4, <1>8

(* Where instruction k + 1 begins, or the end after the last.              *)
Start(prog, k) == Len(CodeOf(prog)[k]) + 1

LEMMA CodeBytes ==
  ASSUME NEW prog \in Seq(Instruction)
  PROVE  /\ \A k \in 0 .. Len(prog) : CodeOf(prog)[k] \in Seq(Byte)
         /\ Start(prog, 0) = 1
         /\ \A k \in 1 .. Len(prog) :
              /\ prog[k] \in Instruction
              /\ Start(prog, k - 1) \in Nat \ {0}
              /\ Start(prog, k) = Start(prog, k - 1) + 1 + Len(Operand(prog[k]))
              /\ Len(Operand(prog[k])) \in Nat
<1> DEFINE C == CodeOf(prog)
           S == {k \in Nat : C[k] \in Seq(Byte)}
<1>1. Len(prog) \in Nat
  OBVIOUS
<1>2. C[0] = <<>> /\ \A k \in 1 .. Len(prog) : C[k] = C[k - 1] \o Encoded(prog[k])
  BY <1>1, CodeIs
<1> HIDE DEF C
<1>3. \A k \in 1 .. Len(prog) : prog[k] \in Instruction
  BY MemberIn
<1>4. 0 \in S
  <2>1. <<>> \in Seq(Byte)
    OBVIOUS
  <2> QED
    BY <1>2, <2>1
<1>5. ASSUME NEW k \in 0 .. Len(prog), k \in S, k < Len(prog)
      PROVE  k + 1 \in S
  <2> DEFINE m == k + 1
  <2>1. m \in 1 .. Len(prog) /\ m - 1 = k /\ m \in Nat
    BY <1>1, <1>5
  <2> HIDE DEF m
  <2>2. prog[m] \in Instruction /\ C[m] = C[k] \o Encoded(prog[m])
    BY <1>2, <1>3, <2>1
  <2>3. Encoded(prog[m]) \in Seq(Byte) /\ C[k] \in Seq(Byte)
    BY <1>5, <2>2, EncodedIs
  <2>4. C[k] \o Encoded(prog[m]) \in Seq(Byte)
    BY <2>3, ConcatProperties
  <2>5. m \in S
    BY <2>1, <2>2, <2>4
  <2> QED
    BY <2>5 DEF m
<1> HIDE DEF S
<1>6. \A k \in 0 .. Len(prog) : k \in S
  BY <1>1, <1>4, <1>5, NumbersUpTo
<1>7. \A k \in 0 .. Len(prog) : C[k] \in Seq(Byte)
  BY <1>6 DEF S
<1>8. Start(prog, 0) = 1
  BY <1>2 DEF Start, C
<1>9. ASSUME NEW k \in 1 .. Len(prog)
      PROVE  /\ Start(prog, k - 1) \in Nat \ {0}
             /\ Start(prog, k) = Start(prog, k - 1) + 1 + Len(Operand(prog[k]))
             /\ Len(Operand(prog[k])) \in Nat
  <2>1. k - 1 \in 0 .. Len(prog)
    BY <1>1
  <2> DEFINE c == C[k - 1]
             e == Encoded(prog[k])
             t == Operand(prog[k])
  <2>2. c \in Seq(Byte)
    BY <1>7, <2>1
  <2>3. e \in Seq(Byte) /\ Len(e) = 1 + Len(t) /\ t \in Seq(Byte)
    BY <1>3, EncodedIs
  <2>4. C[k] = c \o e
    BY <1>2
  <2>5. Start(prog, k) = Len(C[k]) + 1 /\ Start(prog, k - 1) = Len(c) + 1
    BY DEF Start, C
  <2> HIDE DEF c, e, t
  <2>6. Len(c \o e) = Len(c) + Len(e)
    BY <2>2, <2>3, ConcatProperties
  <2>7. Len(c) \in Nat /\ Len(t) \in Nat
    BY <2>2, <2>3
  <2>8. Len(C[k]) = Len(c) + (1 + Len(t))
    BY <2>3, <2>4, <2>6
  <2>9. /\ Start(prog, k - 1) \in Nat \ {0}
        /\ Start(prog, k) = Start(prog, k - 1) + 1 + Len(t)
    BY <2>5, <2>7, <2>8
  <2> QED
    BY <2>7, <2>9 DEF t
<1> QED
  BY <1>3, <1>7, <1>8, <1>9 DEF C

(* The code of the first instructions begins the whole code.               *)
LEMMA CodeBegins ==
  ASSUME NEW prog \in Seq(Instruction), NEW j \in 0 .. Len(prog)
  PROVE  \A k \in 0 .. Len(prog) : j <= k =>
           /\ Len(CodeOf(prog)[j]) <= Len(CodeOf(prog)[k])
           /\ \A i \in 1 .. Len(CodeOf(prog)[j]) : CodeOf(prog)[k][i] = CodeOf(prog)[j][i]
<1> DEFINE C == CodeOf(prog)
           Ok(k) == /\ Len(C[j]) <= Len(C[k])
                    /\ \A i \in 1 .. Len(C[j]) : C[k][i] = C[j][i]
           S == {k \in Nat : j <= k => Ok(k)}
<1>1. Len(prog) \in Nat
  OBVIOUS
<1>2. \A k \in 1 .. Len(prog) : C[k] = C[k - 1] \o Encoded(prog[k])
  BY <1>1, CodeIs
<1>3. /\ \A k \in 0 .. Len(prog) : C[k] \in Seq(Byte)
      /\ \A k \in 1 .. Len(prog) : prog[k] \in Instruction
  BY CodeBytes
<1> HIDE DEF C
<1>4. \A k \in 0 .. Len(prog) : Len(C[k]) \in Nat
  BY <1>3
<1>5. Ok(j)
  BY <1>4
<1>6. 0 \in S
  BY <1>5
<1>7. ASSUME NEW k \in 0 .. Len(prog), k \in S, k < Len(prog)
      PROVE  k + 1 \in S
  <2> DEFINE m == k + 1
  <2>1. m \in 1 .. Len(prog) /\ m - 1 = k /\ m \in Nat /\ (j <= m => j = m \/ j <= k)
    BY <1>1, <1>7
  <2> SUFFICES m \in S
    OBVIOUS
  <2> HIDE DEF m
  <2>2. CASE j = m
    BY <1>5, <2>1, <2>2
  <2>3. CASE ~(j <= m)
    BY <2>1, <2>3
  <2>4. CASE j <= k
    <3> DEFINE c == C[k]
               e == Encoded(prog[m])
    <3>1. c \in Seq(Byte) /\ e \in Seq(Byte)
      BY <1>3, <2>1, EncodedIs
    <3>2. C[m] = c \o e
      BY <1>2, <2>1
    <3>3. Len(C[j]) <= Len(c) /\ \A i \in 1 .. Len(C[j]) : c[i] = C[j][i]
      BY <1>7, <2>4
    <3> HIDE DEF c, e
    <3>4. /\ Len(c \o e) = Len(c) + Len(e)
          /\ \A i \in 1 .. Len(c) + Len(e) :
               (c \o e)[i] = IF i <= Len(c) THEN c[i] ELSE e[i - Len(c)]
      BY <3>1, ConcatProperties
    <3>5. Len(c) \in Nat /\ Len(e) \in Nat /\ Len(C[j]) \in Nat
      BY <1>4, <3>1
    <3>6. \A i \in 1 .. Len(C[j]) : i \in 1 .. Len(c) + Len(e) /\ i <= Len(c)
      BY <3>3, <3>5
    <3>7. Ok(m)
      BY <3>2, <3>3, <3>4, <3>5, <3>6
    <3> QED
      BY <2>1, <3>7
  <2> QED
    BY <2>1, <2>2, <2>3, <2>4
<1> HIDE DEF S
<1>8. \A k \in 0 .. Len(prog) : k \in S
  BY <1>1, <1>6, <1>7, NumbersUpTo
<1> QED
  BY <1>8 DEF S, C

(* Instruction k + 1 stands where the code of the first k ends.            *)
LEMMA InstructionStands ==
  ASSUME NEW prog \in Seq(Instruction), bytes = Assemble(prog), NEW k \in 1 .. Len(prog)
  PROVE  /\ bytes[Start(prog, k - 1)] = 16 * prog[k].op + prog[k].imm
         /\ Stands(Start(prog, k - 1) + 1, Operand(prog[k]))
<1> DEFINE C == CodeOf(prog)
           c == C[k - 1]
           e == Encoded(prog[k])
           t == Operand(prog[k])
           l == Len(prog)
<1>1. l \in Nat /\ l \in 0 .. l /\ k \in 0 .. l /\ k - 1 \in 0 .. l /\ k <= l
  OBVIOUS
<1>2. C[k] = c \o e
  BY <1>1, CodeIs
<1>3. c \in Seq(Byte) /\ C[k] \in Seq(Byte) /\ C[l] \in Seq(Byte) /\ prog[k] \in Instruction
  BY <1>1, CodeBytes
<1>4. Len(C[k]) <= Len(C[l]) /\ \A i \in 1 .. Len(C[k]) : C[l][i] = C[k][i]
  BY <1>1, CodeBegins
<1>5. bytes = C[l] /\ End = Len(C[l]) + 1 /\ Start(prog, k - 1) = Len(c) + 1
  BY DEF Assemble, End, Start
<1>6. /\ e \in Seq(Byte) /\ t \in Seq(Byte) /\ Len(e) = 1 + Len(t)
      /\ e[1] = 16 * prog[k].op + prog[k].imm
      /\ \A i \in 1 .. Len(t) : e[i + 1] = t[i]
  BY <1>3, EncodedIs
<1> HIDE DEF C, c, e, t, l
<1>7. /\ Len(c \o e) = Len(c) + Len(e)
      /\ \A i \in 1 .. Len(c) + Len(e) : (c \o e)[i] = IF i <= Len(c) THEN c[i] ELSE e[i - Len(c)]
  BY <1>3, <1>6, ConcatProperties
<1>8. Len(c) \in Nat /\ Len(t) \in Nat /\ Len(C[l]) \in Nat
  BY <1>3, <1>6
<1>9. \A i \in 1 .. 1 + Len(t) : C[l][Len(c) + i] = e[i]
  <2> SUFFICES ASSUME NEW i \in 1 .. 1 + Len(t) PROVE C[l][Len(c) + i] = e[i]
    OBVIOUS
  <2>1. /\ Len(c) + i \in 1 .. Len(c) + Len(e) /\ ~(Len(c) + i <= Len(c))
        /\ Len(c) + i - Len(c) = i
    BY <1>6, <1>8
  <2> QED
    BY <1>2, <1>4, <1>7, <2>1
<1>10. bytes[Start(prog, k - 1)] = 16 * prog[k].op + prog[k].imm
  <2>1. 1 \in 1 .. 1 + Len(t)
    BY <1>8
  <2> QED
    BY <1>5, <1>6, <1>9, <2>1
<1>11. Stands(Len(c) + 2, t)
  <2>1. Len(c) + 2 + Len(t) <= End
    BY <1>2, <1>4, <1>5, <1>6, <1>7, <1>8
  <2>2. ASSUME NEW i \in 1 .. Len(t) PROVE bytes[Len(c) + 2 + i - 1] = t[i]
    <3>1. i + 1 \in 1 .. 1 + Len(t) /\ Len(c) + 2 + i - 1 = Len(c) + (i + 1)
      BY <1>8
    <3> QED
      BY <1>5, <1>6, <1>9, <3>1
  <2> QED
    BY <2>1, <2>2 DEF Stands
<1>12. Start(prog, k - 1) + 1 = Len(c) + 2
  BY <1>5, <1>8
<1> QED
  BY <1>10, <1>11, <1>12 DEF t

(* What is read at the place of an instruction is that instruction.        *)
LEMMA ByteIs ==
  ASSUME NEW a \in 0 .. 15, NEW i \in 0 .. 15
  PROVE  (16 * a + i) \div 16 = a /\ (16 * a + i) % 16 = i
OBVIOUS

(* A number stands at q, and the position after it is next.                *)
LEMMA UlebStands ==
  ASSUME bytes \in Seq(Byte), NEW q \in Nat \ {0}, NEW v \in Word, Stands(q, Uleb(v))
  PROVE  ReadUleb(q) = [value |-> v, next |-> q + Len(Uleb(v))]
<1>1. PICK c \in Nat \ {0} : 7 * c <= Bits64 + 6 /\ v < 2 ^ (7 * c) /\ Uleb(v) = Groups(v, c)
  BY UlebLength
<1>2. Stands(q, Groups(v, c))
  BY <1>1
<1>3. ReadUleb(q) = [value |-> v, next |-> q + c]
  BY <1>1, <1>2, UlebRead
<1>4. Len(Groups(v, c)) = c
  <2>1. v \in Int
    BY DEF Word
  <2> QED
    BY <1>1, <2>1, GroupsType
<1> QED
  BY <1>1, <1>3, <1>4

LEMMA SlebStands ==
  ASSUME bytes \in Seq(Byte), NEW q \in Nat \ {0}, NEW v \in SignedWord, Stands(q, Sleb(v))
  PROVE  /\ ReadSleb(q).next = q + Len(Sleb(v))
         /\ SignExtends(v) => ReadSleb(q).values = {v % W64}
<1>1. PICK c \in Nat \ {0} : 7 * c <= Bits64 + 6 /\ Signed(v, c) /\ Sleb(v) = Groups(v, c)
  BY SlebLength
<1>2. Stands(q, Groups(v, c)) /\ v \in Int
  BY <1>1, SignedInt
<1>3. /\ ReadSleb(q).next = q + c
      /\ v >= 0 \/ 7 * c < Bits64 => ReadSleb(q).values = {v % W64}
  BY <1>1, <1>2, SlebRead
<1>4. Len(Groups(v, c)) = c
  BY <1>1, <1>2, GroupsType
<1>5. SignExtends(v) => v >= 0 \/ 7 * c < Bits64
  BY <1>1, <1>4 DEF SignExtends
<1> QED
  BY <1>1, <1>3, <1>4, <1>5

(* Two sequences one after the other.                                      *)
LEMMA BothStand ==
  ASSUME NEW q \in Nat \ {0}, NEW s \in Seq(Byte), NEW t \in Seq(Byte), Stands(q, s \o t),
         End \in Nat
  PROVE  Stands(q, s) /\ Stands(q + Len(s), t) /\ Len(s \o t) = Len(s) + Len(t)
<1>1. /\ Len(s \o t) = Len(s) + Len(t)
      /\ \A i \in 1 .. Len(s) + Len(t) : (s \o t)[i] = IF i <= Len(s) THEN s[i] ELSE t[i - Len(s)]
  BY ConcatProperties
<1>2. Len(s) \in Nat /\ Len(t) \in Nat
  OBVIOUS
<1>3. /\ q + Len(s) + Len(t) <= End
      /\ \A i \in 1 .. Len(s) + Len(t) : bytes[q + i - 1] = (s \o t)[i]
  BY <1>1, <1>2 DEF Stands
<1>4. Stands(q, s)
  <2>1. q + Len(s) <= End
    BY <1>2, <1>3
  <2>2. \A i \in 1 .. Len(s) : i \in 1 .. Len(s) + Len(t) /\ i <= Len(s)
    BY <1>2
  <2> QED
    BY <1>1, <1>3, <2>1, <2>2 DEF Stands
<1>5. Stands(q + Len(s), t)
  <2>1. ASSUME NEW i \in 1 .. Len(t) PROVE bytes[q + Len(s) + i - 1] = t[i]
    <3> DEFINE j == Len(s) + i
    <3>1. /\ j \in 1 .. Len(s) + Len(t) /\ ~(j <= Len(s)) /\ j - Len(s) = i
          /\ q + Len(s) + i - 1 = q + j - 1
      BY <1>2
    <3> HIDE DEF j
    <3> QED
      BY <1>1, <1>3, <3>1
  <2> QED
    BY <1>3, <2>1 DEF Stands
<1> QED
  BY <1>1, <1>4, <1>5

(* How the place q after which comes next is read as instruction o.        *)
ReadsAs(o, q, next) ==
  /\ q < End /\ Op(q) = o.op /\ bytes[q] % 16 = o.imm
  /\ o.op \in {2, 7, 8, 10} => ReadUleb(q + 1) = [value |-> o.num, next |-> next]
  /\ o.op = 4 => AfterString(q + 1) = next /\ NameAt(q + 1) = o.name
  /\ o.op = 6 => /\ ReadSleb(q + 1).next = next
                 /\ SignExtends(o.num) => ReadSleb(q + 1).values = {o.num % W64}
  /\ o.op = 12 => /\ ReadUleb(q + 1).value = o.num
                  /\ ReadUleb(ReadUleb(q + 1).next) = [value |-> o.skip, next |-> next]
  /\ o.op \notin {2, 7, 8, 10, 4, 6, 12} => next = q + 1

LEMMA InstructionRead ==
  ASSUME NEW prog \in Seq(Instruction), bytes \in Seq(Byte), bytes = Assemble(prog),
         NEW k \in 1 .. Len(prog)
  PROVE  ReadsAs(prog[k], Start(prog, k - 1), Start(prog, k))
<1> DEFINE o == prog[k]
           q == Start(prog, k - 1)
           next == Start(prog, k)
           t == Operand(o)
<1>1. /\ o \in Instruction /\ q \in Nat \ {0} /\ next = q + 1 + Len(t) /\ Len(t) \in Nat
  BY CodeBytes
<1>2. bytes[q] = 16 * o.op + o.imm /\ Stands(q + 1, t)
  BY InstructionStands
<1> HIDE DEF o, q, next, t
<1>3. End \in Nat
  BY EndType
<1>4. q + 1 + Len(t) <= End /\ q < End /\ q + 1 \in Nat \ {0}
  <2>1. q + 1 + Len(t) <= End
    BY <1>2 DEF Stands
  <2> QED
    BY <1>1, <1>3, <2>1
<1>5. o.op \in 0 .. 15 /\ o.imm \in 0 .. 15
  BY <1>1, InstructionFacts
<1>6. Op(q) = o.op /\ bytes[q] % 16 = o.imm
  <2>1. (16 * o.op + o.imm) \div 16 = o.op /\ (16 * o.op + o.imm) % 16 = o.imm
    BY <1>5, ByteIs
  <2> QED
    BY <1>2, <2>1 DEF Op
<1>7. ASSUME o.op \in {2, 7, 8, 10}
      PROVE  ReadUleb(q + 1) = [value |-> o.num, next |-> next]
  <2>1. o.num \in Word
    BY <1>1, <1>7, InstructionFacts
  <2>2. t = Uleb(o.num)
    BY <1>1, <1>7, OperandIs DEF t
  <2> QED
    BY <1>1, <1>2, <1>4, <2>1, <2>2, UlebStands
<1>8. ASSUME o.op = 4
      PROVE  AfterString(q + 1) = next /\ NameAt(q + 1) = o.name
  <2>1. o.name \in Seq(1 .. 255)
    BY <1>1, <1>8, InstructionFacts
  <2>2. t = Append(o.name, 0)
    BY <1>1, <1>8, OperandIs DEF t
  <2>3. AfterString(q + 1) = q + 1 + Len(o.name) + 1 /\ NameAt(q + 1) = o.name
    BY <1>2, <1>4, <2>1, <2>2, StringRead
  <2>4. Len(t) = Len(o.name) + 1 /\ Len(o.name) \in Nat
    <3>1. o.name \in Seq(0 .. 255) /\ 0 \in 0 .. 255
      BY <2>1
    <3> QED
      BY <2>2, <3>1, AppendFacts
  <2> DEFINE l == Len(o.name)
  <2>5. l \in Nat /\ Len(t) = l + 1 /\ AfterString(q + 1) = q + 1 + l + 1
    BY <2>3, <2>4
  <2> HIDE DEF l
  <2>6. AfterString(q + 1) = next
    BY <1>1, <2>5
  <2> QED
    BY <2>3, <2>6
<1>9. ASSUME o.op = 6
      PROVE  /\ ReadSleb(q + 1).next = next
             /\ SignExtends(o.num) => ReadSleb(q + 1).values = {o.num % W64}
  <2>1. o.num \in SignedWord
    BY <1>1, <1>9, InstructionFacts
  <2>2. t = Sleb(o.num)
    BY <1>1, <1>9, OperandIs DEF t
  <2> QED
    BY <1>1, <1>2, <1>4, <2>1, <2>2, SlebStands
<1>10. ASSUME o.op = 12
       PROVE  /\ ReadUleb(q + 1).value = o.num
              /\ ReadUleb(ReadUleb(q + 1).next) = [value |-> o.skip, next |-> next]
  <2> DEFINE num == Uleb(o.num)
             skip == Uleb(o.skip)
  <2>1. o.num \in Word /\ o.skip \in Word
    BY <1>1, <1>10, InstructionFacts
  <2>2. t = num \o skip /\ num \in Seq(Byte) /\ skip \in Seq(Byte)
    BY <1>1, <1>10, <2>1, OperandIs, UlebBytes DEF t
  <2> HIDE DEF num, skip
  <2>3. /\ Stands(q + 1, num) /\ Stands(q + 1 + Len(num), skip)
        /\ Len(t) = Len(num) + Len(skip)
    BY <1>2, <1>3, <1>4, <2>2, BothStand
  <2>4. Len(num) \in Nat /\ Len(skip) \in Nat
    BY <2>2
  <2>5. ReadUleb(q + 1) = [value |-> o.num, next |-> q + 1 + Len(num)]
    BY <1>4, <2>1, <2>3, UlebStands DEF num
  <2> DEFINE r == q + 1 + Len(num)
  <2>6. r \in Nat \ {0} /\ r + Len(skip) = next
    BY <1>1, <2>3, <2>4
  <2>7. Stands(r, skip)
    BY <2>3
  <2> HIDE DEF r
  <2>8. ReadUleb(r) = [value |-> o.skip, next |-> r + Len(skip)]
    BY <2>1, <2>6, <2>7, UlebStands DEF skip
  <2>9. ReadUleb(q + 1) = [value |-> o.num, next |-> r]
    BY <2>5 DEF r
  <2> QED
    BY <2>6, <2>8, <2>9
<1>11. ASSUME o.op \notin {2, 7, 8, 10, 4, 6, 12}
       PROVE  next = q + 1
  <2>1. t = <<>>
    BY <1>1, <1>11, OperandIs DEF t
  <2>2. Len(t) = 0
    BY <2>1
  <2> QED
    BY <1>1, <2>2
<1>12. ReadsAs(o, q, next)
  BY <1>4, <1>6, <1>7, <1>8, <1>9, <1>10, <1>11 DEF ReadsAs
<1> QED
  BY <1>12 DEF o, q, next

------------------------------------------------------------------------------
(* What a run over the instructions comes to.                              *)

Names == Seq(1 .. 255) \cup {None}
Bound ==
  [address : Int, name : Names, weak : BOOLEAN, dylib : DylibNames, type : 0 .. 15,
   addend : Int]
Meant ==
  [binds : Seq(Bound), over : BOOLEAN, bad : BOOLEAN, base : 0 .. W32 - 1, off : Int,
   name : Names, weak : BOOLEAN, dylib : DylibNames, type : 0 .. 15, addend : Int]

(* What the program names the decoder computes.                            *)
LEMMA NamesMeet ==
  /\ \A x \in 0 .. 15 : /\ DylibOf(x) = OrdinalName(x)
                        /\ SpecialDylib(x) = OrdinalName(IF x = 0 THEN 0 ELSE x - 16)
                        /\ StartOf(x) = SegStartAddress(x)
  /\ \A x \in 0 .. (W32 \div 2) - 1 : DylibOf(x) = OrdinalName(AsInt(x))
<1>1. ASSUME NEW x \in Nat
      PROVE  DylibOf(x) = OrdinalName(x)
  <2>1. CASE x = 0
    BY <2>1 DEF DylibOf, OrdinalName
  <2>2. CASE x > 0
    <3>1. x # 0 /\ x # -1 /\ x # -2 /\ ~(x < -2)
      BY <2>2
    <3> QED
      BY <2>2, <3>1 DEF DylibOf, OrdinalName
  <2> QED
    BY <2>1, <2>2
<1>2. ASSUME NEW x \in 0 .. 15
      PROVE  SpecialDylib(x) = OrdinalName(IF x = 0 THEN 0 ELSE x - 16)
  <2>1. CASE x = 0
    BY <2>1 DEF SpecialDylib, OrdinalName
  <2>2. CASE x = 15
    BY <2>2 DEF SpecialDylib, OrdinalName
  <2>3. CASE x = 14
    BY <2>3 DEF SpecialDylib, OrdinalName
  <2>4. CASE x \in 1 .. 13
    <3>1. x # 0 /\ x # 15 /\ x # 14 /\ x - 16 < -2 /\ x - 16 \in Int
      BY <2>4
    <3> DEFINE y == x - 16
    <3>2. y # 0 /\ y # -1 /\ y # -2 /\ y < -2 /\ ~(y > 0)
      BY <3>1
    <3> HIDE DEF y
    <3>3. OrdinalName(y) = "unknown special ordinal"
      BY <3>2 DEF OrdinalName
    <3> QED
      BY <3>1, <3>3 DEF SpecialDylib, y
  <2> QED
    BY <2>1, <2>2, <2>3, <2>4
<1>3. ASSUME NEW x \in 0 .. 15
      PROVE  StartOf(x) = SegStartAddress(x)
  <2>1. Len(Segs) \in Nat
    BY SegsAssumption
  <2>2. x \in 0 .. Len(Segs) - 1 <=> x < Len(Segs)
    BY <2>1
  <2> QED
    BY <2>2 DEF StartOf, SegStartAddress
<1>4. \A x \in 0 .. (W32 \div 2) - 1 : AsInt(x) = x /\ x \in Nat
  <2>1. \A x, w \in Nat : x < w => x % w = x
    OBVIOUS
  <2> QED
    BY <2>1, HalfWords, Words DEF AsInt
<1> QED
  BY <1>1, <1>2, <1>3, <1>4

(* An instruction's effect by its opcode, named as the decoder names it.   *)
LEMMA DoIs ==
  ASSUME NEW s, NEW o \in Instruction
  PROVE  /\ s.over \/ s.bad => Do(s, o) = s
         /\ ~(s.over \/ s.bad) =>
              /\ o.op = 0 => Do(s, o) = [s EXCEPT !.over = TRUE]
              /\ o.op = 1 => Do(s, o) = [s EXCEPT !.dylib = OrdinalName(o.imm)]
              /\ o.op = 2 => Do(s, o) = [s EXCEPT !.dylib = OrdinalName(AsInt(o.num))]
              /\ o.op = 3 => Do(s, o) = [s EXCEPT !.dylib = OrdinalName(IF o.imm = 0 THEN 0
                                                                        ELSE o.imm - 16)]
              /\ o.op = 4 => Do(s, o) = [s EXCEPT !.name = o.name, !.weak = o.imm % 2 = 1]
              /\ o.op = 5 => Do(s, o) = [s EXCEPT !.type = o.imm]
              /\ o.op = 6 => Do(s, o) = [s EXCEPT !.addend = o.num]
              /\ o.op = 7 => Do(s, o) = [s EXCEPT !.base = SegStartAddress(o.imm), !.off = o.num]
              /\ o.op = 8 => Do(s, o) = [s EXCEPT !.off = s.off + o.num]
              /\ o.op = 9 => Do(s, o) = Move(s, 1, PointerSize)
              /\ o.op = 10 => Do(s, o) = Move(s, 1, o.num + PointerSize)
              /\ o.op = 11 => Do(s, o) = Move(s, 1, (o.imm + 1) * PointerSize)
              /\ o.op = 12 => Do(s, o) = Move(s, o.num, o.skip + PointerSize)
              /\ o.op > 12 => Do(s, o) = [s EXCEPT !.bad = TRUE]
<1>0. o.op \in 0 .. 15 /\ o.imm \in 0 .. 15
  BY InstructionFacts
<1>a. ASSUME s.over \/ s.bad PROVE Do(s, o) = s
  BY <1>a DEF Do
<1>b. SUFFICES ASSUME ~(s.over \/ s.bad)
      PROVE /\ o.op = 0 => Do(s, o) = [s EXCEPT !.over = TRUE]
            /\ o.op = 1 => Do(s, o) = [s EXCEPT !.dylib = OrdinalName(o.imm)]
            /\ o.op = 2 => Do(s, o) = [s EXCEPT !.dylib = OrdinalName(AsInt(o.num))]
            /\ o.op = 3 => Do(s, o) = [s EXCEPT !.dylib = OrdinalName(IF o.imm = 0 THEN 0
                                                                      ELSE o.imm - 16)]
            /\ o.op = 4 => Do(s, o) = [s EXCEPT !.name = o.name, !.weak = o.imm % 2 = 1]
            /\ o.op = 5 => Do(s, o) = [s EXCEPT !.type = o.imm]
            /\ o.op = 6 => Do(s, o) = [s EXCEPT !.addend = o.num]
            /\ o.op = 7 => Do(s, o) = [s EXCEPT !.base = SegStartAddress(o.imm), !.off = o.num]
            /\ o.op = 8 => Do(s, o) = [s EXCEPT !.off = s.off + o.num]
            /\ o.op = 9 => Do(s, o) = Move(s, 1, PointerSize)
            /\ o.op = 10 => Do(s, o) = Move(s, 1, o.num + PointerSize)
            /\ o.op = 11 => Do(s, o) = Move(s, 1, (o.imm + 1) * PointerSize)
            /\ o.op = 12 => Do(s, o) = Move(s, o.num, o.skip + PointerSize)
            /\ o.op > 12 => Do(s, o) = [s EXCEPT !.bad = TRUE]
  BY <1>a
<1>1. ASSUME o.op = 0 PROVE Do(s, o) = [s EXCEPT !.over = TRUE]
  BY <1>1, <1>b DEF Do
<1>2. ASSUME o.op = 1 PROVE Do(s, o) = [s EXCEPT !.dylib = OrdinalName(o.imm)]
  BY <1>0, <1>2, <1>b, NamesMeet DEF Do
<1>3. ASSUME o.op = 2 PROVE Do(s, o) = [s EXCEPT !.dylib = OrdinalName(AsInt(o.num))]
  <2>1. Do(s, o) = [s EXCEPT !.dylib = DylibOf(o.num)]
    BY <1>3, <1>b DEF Do
  <2>2. o.num \in 0 .. (W32 \div 2) - 1
    BY <1>3, InstructionFacts
  <2> QED
    BY <2>1, <2>2, NamesMeet
<1>4. ASSUME o.op = 3
      PROVE  Do(s, o) = [s EXCEPT !.dylib = OrdinalName(IF o.imm = 0 THEN 0 ELSE o.imm - 16)]
  <2>1. Do(s, o) = [s EXCEPT !.dylib = SpecialDylib(o.imm)]
    BY <1>4, <1>b DEF Do
  <2> QED
    BY <1>0, <2>1, NamesMeet
<1>5. ASSUME o.op = 4 PROVE Do(s, o) = [s EXCEPT !.name = o.name, !.weak = o.imm % 2 = 1]
  BY <1>5, <1>b DEF Do
<1>6. ASSUME o.op = 5 PROVE Do(s, o) = [s EXCEPT !.type = o.imm]
  BY <1>6, <1>b DEF Do
<1>7. ASSUME o.op = 6 PROVE Do(s, o) = [s EXCEPT !.addend = o.num]
  BY <1>7, <1>b DEF Do
<1>8. ASSUME o.op = 7
      PROVE  Do(s, o) = [s EXCEPT !.base = SegStartAddress(o.imm), !.off = o.num]
  <2>1. Do(s, o) = [s EXCEPT !.base = StartOf(o.imm), !.off = o.num]
    BY <1>8, <1>b DEF Do
  <2> QED
    BY <1>0, <2>1, NamesMeet
<1>9. ASSUME o.op = 8 PROVE Do(s, o) = [s EXCEPT !.off = s.off + o.num]
  BY <1>9, <1>b DEF Do
<1>10. ASSUME o.op = 9 PROVE Do(s, o) = Move(s, 1, PointerSize)
  BY <1>10, <1>b DEF Do
<1>11. ASSUME o.op = 10 PROVE Do(s, o) = Move(s, 1, o.num + PointerSize)
  BY <1>11, <1>b DEF Do
<1>12. ASSUME o.op = 11 PROVE Do(s, o) = Move(s, 1, (o.imm + 1) * PointerSize)
  BY <1>12, <1>b DEF Do
<1>13. ASSUME o.op = 12
       PROVE  Do(s, o) = Move(s, o.num, o.skip + PointerSize)
  BY <1>13, <1>b DEF Do
<1>14. ASSUME o.op > 12 PROVE Do(s, o) = [s EXCEPT !.bad = TRUE]
  <2>1. o.op \notin 0 .. 12
    BY <1>14, <1>0
  <2> QED
    BY <2>1, <1>b DEF Do
<1> QED
  BY <1>1, <1>2, <1>3, <1>4, <1>5, <1>6, <1>7, <1>8, <1>9, <1>10, <1>11, <1>12, <1>13, <1>14

(* A word is a number.                                                     *)
LEMMA WordInt ==
  /\ \A x \in Word : x \in Nat /\ x \in Int
  /\ \A x \in 0 .. W32 - 1 : x \in Nat /\ x \in Int
  /\ \A x \in Int : x % W64 \in Word /\ x % W64 \in Nat /\ x % W32 \in Nat
  /\ 0 \in Word
<1>1. W32 \in Nat \ {0} /\ W64 \in Nat \ {0}
  BY Words
<1>2. \A w \in Nat \ {0} : 0 \in 0 .. w - 1 /\ \A x \in 0 .. w - 1 : x \in Nat /\ x \in Int
  OBVIOUS
<1>3. (\A x \in 0 .. W64 - 1 : x \in Nat /\ x \in Int) /\ 0 \in 0 .. W64 - 1
  BY <1>1, <1>2
<1>4. \A x \in 0 .. W32 - 1 : x \in Nat /\ x \in Int
  BY <1>1, <1>2
<1>5. \A v \in Int : v % W64 \in 0 .. W64 - 1 /\ v % W32 \in 0 .. W32 - 1
  BY Words
<1> QED
  BY <1>3, <1>4, <1>5 DEF Word

(* Run m is run s with count binds more, ref apart.                        *)
Moved(m, s, count, ref) ==
  /\ m \in Meant
  /\ Len(m.binds) = Len(s.binds) + count
  /\ \A i \in 1 .. Len(s.binds) : m.binds[i] = s.binds[i]
  /\ \A i \in 1 .. count : m.binds[Len(s.binds) + i] = BindAt(s, s.off + (i - 1) * ref)
  /\ m.off = s.off + count * ref
  /\ m = [s EXCEPT !.binds = m.binds, !.off = m.off]

LEMMA MoveIs ==
  ASSUME NEW s \in Meant, NEW count \in Nat, NEW ref \in Int
  PROVE  Moved(Move(s, count, ref), s, count, ref)
<1> DEFINE t == [i \in 1 .. count |-> BindAt(s, s.off + (i - 1) * ref)]
           off == s.off + count * ref
           binds == s.binds \o t
<1> HIDE DEF off
<1>1. Move(s, count, ref) = [s EXCEPT !.binds = binds, !.off = off]
  BY DEF Move, off
<1>2. /\ s.binds \in Seq(Bound) /\ s.off \in Int /\ s.base \in Int /\ s.addend \in Int
      /\ s.name \in Names /\ s.weak \in BOOLEAN /\ s.dylib \in DylibNames /\ s.type \in 0 .. 15
  <2>1. /\ s.binds \in Seq(Bound) /\ s.off \in Int /\ s.base \in 0 .. W32 - 1
        /\ s.addend \in Int /\ s.name \in Names /\ s.weak \in BOOLEAN
        /\ s.dylib \in DylibNames /\ s.type \in 0 .. 15
    BY DEF Meant
  <2> QED
    BY <2>1, WordInt
<1>3. \A x, y, z \in Int : x + y * z \in Int
  OBVIOUS
<1>4. off \in Int
  BY <1>2, <1>3 DEF off
<1>5. ASSUME NEW x \in Int PROVE BindAt(s, x) \in Bound
  <2>0. s.base + x \in Int
    BY <1>2
  <2> QED
    BY <1>2, <2>0 DEF BindAt, Bound
<1>6. \A i \in 1 .. count : BindAt(s, s.off + (i - 1) * ref) \in Bound
  <2> SUFFICES ASSUME NEW i \in 1 .. count PROVE BindAt(s, s.off + (i - 1) * ref) \in Bound
    OBVIOUS
  <2>1. i - 1 \in Int
    OBVIOUS
  <2>2. s.off + (i - 1) * ref \in Int
    BY <1>2, <1>3, <2>1
  <2> QED
    BY <1>5, <2>2
<1> DEFINE B == Bound
<1> HIDE DEF B
<1>7. t \in Seq(B) /\ Len(t) = count /\ \A i \in 1 .. count : t[i] = BindAt(s, s.off + (i - 1) * ref)
  BY <1>6 DEF B
<1> HIDE DEF t
<1>8. s.binds \in Seq(B)
  BY <1>2 DEF B
<1>9. /\ s.binds \o t \in Seq(B)
      /\ Len(s.binds \o t) = Len(s.binds) + Len(t)
      /\ \A i \in 1 .. Len(s.binds) + Len(t) :
           (s.binds \o t)[i] = IF i <= Len(s.binds) THEN s.binds[i] ELSE t[i - Len(s.binds)]
  BY <1>7, <1>8, ConcatProperties
<1>10. Len(s.binds) \in Nat
  BY <1>8
<1> DEFINE l == Len(s.binds)
<1> HIDE DEF l
<1>11. /\ binds \in Seq(B) /\ Len(binds) = l + count
       /\ \A i \in 1 .. l + count : binds[i] = IF i <= l THEN s.binds[i] ELSE t[i - l]
  BY <1>7, <1>9 DEF l
<1> HIDE DEF binds
<1>12. l \in Nat
  BY <1>10 DEF l
<1>13. \A i \in 1 .. l : binds[i] = s.binds[i]
  BY <1>11, <1>12
<1>14. \A i \in 1 .. count : binds[l + i] = t[i]
  <2> SUFFICES ASSUME NEW i \in 1 .. count PROVE binds[l + i] = t[i]
    OBVIOUS
  <2> DEFINE j == l + i
  <2>1. j \in 1 .. l + count /\ ~(j <= l) /\ j - l = i
    BY <1>12
  <2> HIDE DEF j
  <2>2. binds[j] = t[i]
    BY <1>11, <2>1
  <2> QED
    BY <2>2 DEF j
<1>15. binds \in Seq(Bound)
  BY <1>11 DEF B
<1> DEFINE m == [s EXCEPT !.binds = binds, !.off = off]
<1>16. m \in Meant /\ m.binds = binds /\ m.off = off
  <2> DEFINE T == Seq(Bound)
  <2>1. binds \in T
    BY <1>15
  <2> HIDE DEF T
  <2>2. s \in [binds : T, over : BOOLEAN, bad : BOOLEAN, base : 0 .. W32 - 1, off : Int,
               name : Names, weak : BOOLEAN, dylib : DylibNames, type : 0 .. 15, addend : Int]
    BY DEF Meant, T
  <2>3. /\ m \in [binds : T, over : BOOLEAN, bad : BOOLEAN, base : 0 .. W32 - 1, off : Int,
                  name : Names, weak : BOOLEAN, dylib : DylibNames, type : 0 .. 15, addend : Int]
        /\ m.binds = binds /\ m.off = off
    BY <1>4, <2>1, <2>2
  <2> QED
    BY <2>3 DEF Meant, T
<1>17. m = [s EXCEPT !.binds = m.binds, !.off = m.off]
  BY <1>16
<1> QED
  BY <1>1, <1>7, <1>11, <1>13, <1>14, <1>16, <1>17 DEF l, off, Moved

(* The record of a run, one part changed.                                  *)
LEMMA MeantParts ==
  ASSUME NEW s \in Meant
  PROVE  /\ s.binds \in Seq(Bound) /\ s.over \in BOOLEAN /\ s.bad \in BOOLEAN
         /\ s.base \in 0 .. W32 - 1 /\ s.off \in Int /\ s.name \in Names
         /\ s.weak \in BOOLEAN /\ s.dylib \in DylibNames /\ s.type \in 0 .. 15 /\ s.addend \in Int
         /\ [s EXCEPT !.over = TRUE] \in Meant
         /\ [s EXCEPT !.bad = TRUE] \in Meant
         /\ \A x \in DylibNames : [s EXCEPT !.dylib = x] \in Meant
         /\ \A x \in Names : \A y \in BOOLEAN : [s EXCEPT !.name = x, !.weak = y] \in Meant
         /\ \A x \in 0 .. 15 : [s EXCEPT !.type = x] \in Meant
         /\ \A x \in Int : [s EXCEPT !.addend = x] \in Meant
         /\ \A x \in 0 .. W32 - 1 : \A y \in Int : [s EXCEPT !.base = x, !.off = y] \in Meant
         /\ \A x \in Int : [s EXCEPT !.off = x] \in Meant
<1> DEFINE T == Seq(Bound)
           A == 0 .. W32 - 1
           Y == 0 .. 15
           R == [binds : T, over : BOOLEAN, bad : BOOLEAN, base : A, off : Int,
                 name : Names, weak : BOOLEAN, dylib : DylibNames, type : Y, addend : Int]
<1>1. s \in R /\ Meant = R
  BY DEF Meant
<1> HIDE DEF T, A, Y
<1>2. /\ s.binds \in T /\ s.over \in BOOLEAN /\ s.bad \in BOOLEAN
      /\ s.base \in A /\ s.off \in Int /\ s.name \in Names
      /\ s.weak \in BOOLEAN /\ s.dylib \in DylibNames /\ s.type \in Y /\ s.addend \in Int
  BY <1>1
<1>3. [s EXCEPT !.over = TRUE] \in R /\ [s EXCEPT !.bad = TRUE] \in R
  BY <1>1
<1>4. \A x \in DylibNames : [s EXCEPT !.dylib = x] \in R
  BY <1>1
<1>5. \A x \in Names : \A y \in BOOLEAN : [s EXCEPT !.name = x, !.weak = y] \in R
  BY <1>1
<1>6. (\A x \in Y : [s EXCEPT !.type = x] \in R) /\ (\A x \in Int : [s EXCEPT !.addend = x] \in R)
  BY <1>1
<1>7. /\ \A x \in A : \A y \in Int : [s EXCEPT !.base = x, !.off = y] \in R
      /\ \A x \in Int : [s EXCEPT !.off = x] \in R
  BY <1>1
<1> HIDE DEF R
<1> QED
  BY <1>1, <1>2, <1>3, <1>4, <1>5, <1>6, <1>7 DEF T, A, Y

LEMMA DoMeans ==
  ASSUME NEW s \in Meant, NEW o \in Instruction
  PROVE  Do(s, o) \in Meant
<1>1. o.op \in 0 .. 15 /\ o.imm \in 0 .. 15 /\ o.imm \in Int /\ PointerSize = 4 /\ s.off \in Int
  <2>1. o.op \in 0 .. 15 /\ o.imm \in 0 .. 15
    BY InstructionFacts
  <2>2. \A x \in 0 .. 15 : x \in Int
    OBVIOUS
  <2>3. s.off \in Int
    BY MeantParts
  <2> QED
    BY <2>1, <2>2, <2>3, WordInt DEF PointerSize
<1>2. SUFFICES ASSUME ~(s.over \/ s.bad) PROVE Do(s, o) \in Meant
  BY DoIs
<1>3. CASE o.op = 0
  <2>1. Do(s, o) = [s EXCEPT !.over = TRUE]
    BY <1>2, <1>3, DoIs
  <2> QED
    BY <2>1, MeantParts
<1>4. CASE o.op \in {1, 2, 3}
  <2>1. \E x \in Int : Do(s, o) = [s EXCEPT !.dylib = OrdinalName(x)]
    <3>1. CASE o.op = 1
      BY <1>1, <1>2, <3>1, DoIs
    <3>2. CASE o.op = 2
      <4>1. o.num \in Word
        BY <3>2, InstructionFacts
      <4>2. AsInt(o.num) \in Int
        BY <4>1, WordInt, OrdinalFacts
      <4>3. Do(s, o) = [s EXCEPT !.dylib = OrdinalName(AsInt(o.num))]
        BY <1>2, <3>2, DoIs
      <4> QED
        BY <4>2, <4>3
    <3>3. CASE o.op = 3
      <4> DEFINE x == IF o.imm = 0 THEN 0 ELSE o.imm - 16
      <4>1. x \in Int
        BY <1>1
      <4>2. Do(s, o) = [s EXCEPT !.dylib = OrdinalName(x)]
        BY <1>2, <3>3, DoIs
      <4> HIDE DEF x
      <4> QED
        BY <4>1, <4>2
    <3> QED
      BY <1>4, <3>1, <3>2, <3>3
  <2>2. PICK x \in Int : Do(s, o) = [s EXCEPT !.dylib = OrdinalName(x)]
    BY <2>1
  <2>3. OrdinalName(x) \in DylibNames
    BY OrdinalFacts
  <2> QED
    BY <2>2, <2>3, MeantParts
<1>5. CASE o.op = 4
  <2> DEFINE w == o.imm % 2 = 1
             T == Seq(1 .. 255)
  <2>1. o.name \in T /\ w \in BOOLEAN
    BY <1>5, InstructionFacts
  <2>2. Do(s, o) = [s EXCEPT !.name = o.name, !.weak = w]
    BY <1>2, <1>5, DoIs
  <2> HIDE DEF w, T
  <2>3. o.name \in Names
    BY <2>1 DEF Names, T
  <2>4. \A x \in Names : \A y \in BOOLEAN : [s EXCEPT !.name = x, !.weak = y] \in Meant
    BY MeantParts
  <2>5. [s EXCEPT !.name = o.name, !.weak = w] \in Meant
    BY <2>1, <2>3, <2>4
  <2> QED
    BY <2>2, <2>5
<1>6. CASE o.op = 5
  <2>1. Do(s, o) = [s EXCEPT !.type = o.imm]
    BY <1>2, <1>6, DoIs
  <2> QED
    BY <1>1, <2>1, MeantParts
<1>7. CASE o.op = 6
  <2>1. Do(s, o) = [s EXCEPT !.addend = o.num]
    BY <1>2, <1>7, DoIs
  <2>2. o.num \in Int
    BY <1>7, InstructionFacts, SignedInt
  <2> QED
    BY <2>1, <2>2, MeantParts
<1>8. CASE o.op = 7
  <2> DEFINE a == SegStartAddress(o.imm)
  <2>1. Do(s, o) = [s EXCEPT !.base = a, !.off = o.num]
    BY <1>2, <1>8, DoIs
  <2>2. o.num \in Int
    BY <1>8, InstructionFacts, WordInt
  <2>3. a \in 0 .. W32 - 1
    <3>1. 0 \in Nat
      OBVIOUS
    <3> QED
      BY <1>1, <3>1, SegmentFacts
  <2> HIDE DEF a
  <2>4. \A x \in 0 .. W32 - 1 : \A y \in Int : [s EXCEPT !.base = x, !.off = y] \in Meant
    BY MeantParts
  <2>5. [s EXCEPT !.base = a, !.off = o.num] \in Meant
    BY <2>2, <2>3, <2>4
  <2> QED
    BY <2>1, <2>5
<1>9. CASE o.op = 8
  <2> DEFINE a == s.off + o.num
  <2>1. Do(s, o) = [s EXCEPT !.off = a]
    BY <1>2, <1>9, DoIs
  <2>2. o.num \in Int
    BY <1>9, InstructionFacts, WordInt
  <2>4. a \in Int
    BY <1>1, <2>2
  <2> HIDE DEF a
  <2> QED
    BY <2>1, <2>4, MeantParts
<1>10. CASE o.op \in 9 .. 12
  <2>1. \E c \in Nat, r \in Int : Do(s, o) = Move(s, c, r)
    <3>0. 1 \in Nat /\ \A x \in Nat : x \in Int
      OBVIOUS
    <3>1. CASE o.op = 9
      <4>1. Do(s, o) = Move(s, 1, PointerSize)
        BY <1>2, <3>1, DoIs
      <4>2. PointerSize \in Int
        BY <1>1
      <4> QED
        BY <3>0, <4>1, <4>2
    <3>2. CASE o.op = 10
      <4> DEFINE r == o.num + PointerSize
      <4>1. o.num \in Word
        BY <3>2, InstructionFacts
      <4>2. o.num \in Int
        BY <4>1, WordInt
      <4>3. r \in Int
        BY <1>1, <4>2
      <4>4. Do(s, o) = Move(s, 1, r)
        BY <1>2, <3>2, DoIs
      <4> HIDE DEF r
      <4> QED
        BY <3>0, <4>3, <4>4
    <3>3. CASE o.op = 11
      <4> DEFINE r == (o.imm + 1) * PointerSize
      <4>1. r \in Int
        BY <1>1
      <4>2. Do(s, o) = Move(s, 1, r)
        BY <1>2, <3>3, DoIs
      <4> HIDE DEF r
      <4> QED
        BY <3>0, <4>1, <4>2
    <3>4. CASE o.op = 12
      <4> DEFINE c == o.num
                 r == o.skip + PointerSize
      <4>1. o.num \in Word /\ o.skip \in Word
        BY <3>4, InstructionFacts
      <4>2. o.num \in Nat /\ o.skip \in Int
        BY <4>1, WordInt
      <4>4. c \in Nat /\ r \in Int
        BY <1>1, <4>2
      <4>5. Do(s, o) = Move(s, c, r)
        BY <1>2, <3>4, DoIs
      <4> HIDE DEF c, r
      <4> QED
        BY <3>0, <4>4, <4>5
    <3> QED
      BY <1>10, <3>1, <3>2, <3>3, <3>4
  <2>2. PICK c \in Nat, r \in Int : Do(s, o) = Move(s, c, r)
    BY <2>1
  <2>3. Moved(Move(s, c, r), s, c, r)
    BY MoveIs
  <2> QED
    BY <2>2, <2>3 DEF Moved
<1>11. CASE o.op > 12
  <2>1. Do(s, o) = [s EXCEPT !.bad = TRUE]
    BY <1>2, <1>11, DoIs
  <2> QED
    BY <2>1, MeantParts
<1> QED
  BY <1>1, <1>3, <1>4, <1>5, <1>6, <1>7, <1>8, <1>9, <1>10, <1>11

LEMMA RunMeans ==
  ASSUME NEW prog \in Seq(Instruction)
  PROVE  /\ \A k \in 0 .. Len(prog) : RunOf(prog)[k] \in Meant
         /\ \A k \in 1 .. Len(prog) : /\ prog[k] \in Instruction
                                      /\ RunOf(prog)[k] = Do(RunOf(prog)[k - 1], prog[k])
<1> DEFINE Run == RunOf(prog)
           S == {k \in Nat : Run[k] \in Meant}
<1>1. Len(prog) \in Nat
  OBVIOUS
<1>2. Run[0] = AtStart /\ \A k \in 1 .. Len(prog) : Run[k] = Do(Run[k - 1], prog[k])
  BY <1>1, RunIs
<1> HIDE DEF Run
<1>3. \A k \in 1 .. Len(prog) : prog[k] \in Instruction
  BY MemberIn
<1>4. 0 \in S
  <2>1. <<>> \in Seq(Bound) /\ None \in Names
    BY DEF Names
  <2>2. 0 \in Int /\ 0 \in 0 .. W32 - 1 /\ "??" \in DylibNames
    BY Words DEF Word, DylibNames
  <2> DEFINE T == Seq(Bound)
             A == 0 .. W32 - 1
  <2>3. <<>> \in T /\ 0 \in A
    BY <2>1, <2>2
  <2> HIDE DEF T, A
  <2>4. AtStart \in [binds : T, over : BOOLEAN, bad : BOOLEAN, base : A, off : Int,
                     name : Names, weak : BOOLEAN, dylib : DylibNames, type : 0 .. 15,
                     addend : Int]
    BY <2>1, <2>2, <2>3 DEF AtStart
  <2>5. AtStart \in Meant
    BY <2>4 DEF Meant, T, A
  <2> QED
    BY <1>2, <2>5
<1>5. ASSUME NEW k \in 0 .. Len(prog), k \in S, k < Len(prog)
      PROVE  k + 1 \in S
  <2> DEFINE m == k + 1
  <2>1. m \in 1 .. Len(prog) /\ m - 1 = k /\ m \in Nat
    BY <1>1, <1>5
  <2> HIDE DEF m
  <2>2. prog[m] \in Instruction /\ Run[m] = Do(Run[k], prog[m]) /\ Run[k] \in Meant
    BY <1>2, <1>3, <1>5, <2>1
  <2>3. Run[m] \in Meant
    BY <2>2, DoMeans
  <2>4. m \in S
    BY <2>1, <2>3
  <2> QED
    BY <2>4 DEF m
<1> HIDE DEF S
<1>6. \A k \in 0 .. Len(prog) : k \in S
  BY <1>1, <1>4, <1>5, NumbersUpTo
<1> QED
  BY <1>2, <1>3, <1>6 DEF S, Run

(* A run that is over, or has gone wrong, stays as it is.                  *)
LEMMA RunStays ==
  ASSUME NEW prog \in Seq(Instruction), NEW j \in 0 .. Len(prog),
         RunOf(prog)[j].over \/ RunOf(prog)[j].bad
  PROVE  Meaning(prog) = RunOf(prog)[j]
<1> DEFINE Run == RunOf(prog)
           S == {k \in Nat : j <= k => Run[k] = Run[j]}
<1>1. Len(prog) \in Nat /\ Len(prog) \in 0 .. Len(prog)
  OBVIOUS
<1>2. \A k \in 1 .. Len(prog) : prog[k] \in Instruction /\ Run[k] = Do(Run[k - 1], prog[k])
  BY RunMeans
<1> HIDE DEF Run
<1>3. 0 \in S
  BY <1>1
<1>4. ASSUME NEW k \in 0 .. Len(prog), k \in S, k < Len(prog)
      PROVE  k + 1 \in S
  <2> DEFINE m == k + 1
  <2>1. m \in 1 .. Len(prog) /\ m - 1 = k /\ m \in Nat /\ (j <= m => j = m \/ j <= k)
    BY <1>1, <1>4
  <2> HIDE DEF m
  <2>2. prog[m] \in Instruction /\ Run[m] = Do(Run[k], prog[m])
    BY <1>2, <2>1
  <2>3. ASSUME j <= k PROVE Run[m] = Run[j]
    <3>1. Run[k] = Run[j] /\ (Run[k].over \/ Run[k].bad)
      BY <1>4, <2>3 DEF Run
    <3>2. Do(Run[k], prog[m]) = Run[k]
      BY <2>2, <3>1, DoIs
    <3> QED
      BY <2>2, <3>1, <3>2
  <2>4. m \in S
    BY <2>1, <2>3
  <2> QED
    BY <2>4 DEF m
<1> HIDE DEF S
<1>5. \A k \in 0 .. Len(prog) : k \in S
  BY <1>1, <1>3, <1>4, NumbersUpTo
<1>6. Run[Len(prog)] = Run[j]
  BY <1>1, <1>5 DEF S
<1> QED
  BY <1>6 DEF Meaning, Run

------------------------------------------------------------------------------
(* The decoder does what the program means.                                *)

(* The name at a position of any bytes, here of b.                         *)
NameOf(b, pos) ==
  IF pos = None THEN None
  ELSE SubSeq(b, pos, Least({i \in pos .. Len(b) : b[i] = 0}) - 1)

(* A span holds so much of an address that a 64-bit word is made of spans. *)
IsSpan(M) == M \in Nat \ {0} /\ \E m \in Nat \ {0} : W64 = m * M

LEMMA SpanOf == \A prog : IsSpan(Span(prog))
<1>1. W64 = 1 * W64 /\ W64 \in Nat \ {0} /\ W32 \in Nat \ {0} /\ 1 \in Nat \ {0}
  BY Words
<1>2. IsSpan(W64)
  BY <1>1 DEF IsSpan
<1>3. IsSpan(W32)
  BY <1>1, WordSizes DEF IsSpan
<1> QED
  BY <1>2, <1>3 DEF Span

LEMMA SpanSame ==
  ASSUME NEW M, IsSpan(M), NEW x \in Int
  PROVE  (x % W64) % M = x % M
<1>1. PICK m \in Nat \ {0} : W64 = m * M
  BY DEF IsSpan
<1>2. M \in Nat \ {0} /\ W64 \in Nat \ {0}
  BY Words DEF IsSpan
<1>3. x \div W64 \in Int /\ x % W64 \in Int /\ x = (x \div W64) * W64 + (x % W64)
  <2>1. x % W64 \in 0 .. W64 - 1 /\ \A w \in Nat : \A y \in 0 .. w - 1 : y \in Int
    BY <1>2, Words
  <2> QED
    BY <1>2, <2>1, Divided
<1> DEFINE d == x \div W64
           y == x % W64
<1> HIDE DEF d, y
<1>4. d \in Int /\ y \in Int /\ x = d * W64 + y
  BY <1>3 DEF d, y
<1>5. d * W64 + y = y + (d * m) * M /\ d * m \in Int
  <2>1. \A u, v, w, z \in Int : u * (v * w) + z = z + (u * v) * w /\ u * v \in Int
    OBVIOUS
  <2> QED
    BY <1>1, <1>2, <1>4, <2>1
<1>6. (y + (d * m) * M) % M = y % M
  BY <1>2, <1>4, <1>5, WholeWords
<1> QED
  BY <1>4, <1>5, <1>6 DEF y

LEMMA SpanSum ==
  ASSUME NEW M \in Nat \ {0}, NEW x \in Int, NEW y \in Int, x % M = y % M, NEW z \in Int
  PROVE  (x + z) % M = (y + z) % M /\ (z + x) % M = (z + y) % M
<1>1. (z + (x % M)) % M = (z + x) % M /\ (z + (y % M)) % M = (z + y) % M
  BY WordSum
<1>2. x + z = z + x /\ y + z = z + y
  OBVIOUS
<1> QED
  BY <1>1, <1>2

LEMMA SpanTimes ==
  ASSUME NEW M \in Nat \ {0}, NEW x \in Int, NEW y \in Int, x % M = y % M, NEW i \in Int
  PROVE  (i * x) % M = (i * y) % M
<1>1. /\ x \div M \in Int /\ x % M \in 0 .. M - 1 /\ x = (x \div M) * M + (x % M)
      /\ y \div M \in Int /\ y = (y \div M) * M + (y % M)
  BY Divided
<1> DEFINE d == x \div M
           e == y \div M
           r == x % M
<1>2. d \in Int /\ e \in Int /\ r \in Int /\ x = d * M + r /\ y = e * M + r
  BY <1>1
<1> HIDE DEF d, e, r
<1>3. i * x = i * y + (i * (d - e)) * M
  <2>1. \A a, u, v, w, z \in Int : a * (u * w + z) = a * (v * w + z) + (a * (u - v)) * w
    OBVIOUS
  <2> QED
    BY <1>2, <2>1
<1>4. i * y \in Int /\ i * (d - e) \in Int
  <2>1. \A a, u \in Int : a * u \in Int /\ a - u \in Int
    OBVIOUS
  <2> QED
    BY <1>2, <2>1
<1> DEFINE u == i * y
           v == i * (d - e)
<1>5. u \in Int /\ v \in Int /\ i * x = u + v * M
  BY <1>3, <1>4
<1> HIDE DEF u, v
<1>6. (u + v * M) % M = u % M
  BY <1>5, WholeWords
<1> QED
  BY <1>5, <1>6 DEF u

(* Registers r that say what run s has come to, with its names in b and    *)
(* its offset modulo M.                                                    *)
Matches(s, b, r, M) ==
  /\ ~s.over /\ ~s.bad
  /\ s.base = r.segStartAddr /\ s.off % M = r.segOffset % M /\ s.name = NameOf(b, r.symbolName)
  /\ s.weak = r.weak_import /\ s.dylib = r.fromDylib /\ s.type = r.type
  /\ SignExtends(s.addend) => r.addend = s.addend % W64

(* The first entries of table d tell the binds of run s.                   *)
ToldOf(b, e, bind, M) ==
  /\ e.address % M = bind.address % M
  /\ NameOf(b, e.symbolname) = bind.name /\ e.weak_import = bind.weak
  /\ e.dylibname = bind.dylib /\ e.bind_type = bind.type
  /\ SignExtends(bind.addend) => e.addend = bind.addend % W64
Tells(s, b, d, count, M) == \A j \in 1 .. count : ToldOf(b, d[j], s.binds[j], M)

LEMMA NamesAre ==
  /\ \A pos : NameAt(pos) = NameOf(bytes, pos)
  /\ \A e, bind, M : Told(e, bind, M) <=> ToldOf(bytes, e, bind, M)
BY DEF NameAt, NameOf, Told, ToldOf

LEMMA Fields ==
  /\ \A s \in Meant : DOMAIN s = {"binds", "over", "bad", "base", "off", "name", "weak",
                                  "dylib", "type", "addend"}
  /\ \A r \in Regs : DOMAIN r = {"type", "segIndex", "segStartAddr", "segName", "segOffset",
                                 "symbolName", "fromDylib", "addend", "weak_import"}
<1>1. \A A, B, C, D, E, F, G, H, I, J :
        \A s \in [binds : A, over : B, bad : C, base : D, off : E, name : F, weak : G,
                  dylib : H, type : I, addend : J] :
          DOMAIN s = {"binds", "over", "bad", "base", "off", "name", "weak", "dylib", "type",
                      "addend"}
  OBVIOUS
<1>2. \A A, B, C, D, E, F, G, H, I :
        \A r \in [type : A, segIndex : B, segStartAddr : C, segName : D, segOffset : E,
                  symbolName : F, fromDylib : G, addend : H, weak_import : I] :
          DOMAIN r = {"type", "segIndex", "segStartAddr", "segName", "segOffset",
                      "symbolName", "fromDylib", "addend", "weak_import"}
  OBVIOUS
<1> QED
  BY <1>1, <1>2 DEF Meant, Regs

(* An instruction o that sets registers takes run s to t, and r after it.  *)
SetsAs(t, s, b, r, o, M) ==
  /\ o.op \in 1 .. 8 => t.binds = s.binds
  /\ o.op = 1 => Matches(t, b, [r EXCEPT !.fromDylib = OrdinalName(o.imm)], M)
  /\ o.op = 2 => Matches(t, b, [r EXCEPT !.fromDylib = OrdinalName(AsInt(o.num))], M)
  /\ o.op = 3 => Matches(t, b, [r EXCEPT !.fromDylib = OrdinalName(IF o.imm = 0 THEN 0
                                                                   ELSE o.imm - 16)], M)
  /\ o.op = 4 => \A x : NameOf(b, x) = o.name =>
                   Matches(t, b, [r EXCEPT !.symbolName = x, !.weak_import = o.imm % 2 = 1], M)
  /\ o.op = 5 => Matches(t, b, [r EXCEPT !.type = o.imm], M)
  /\ o.op = 6 => \A x : (SignExtends(o.num) => x = o.num % W64) =>
                   Matches(t, b, [r EXCEPT !.addend = x], M)
  /\ o.op = 7 => Matches(t, b, [r EXCEPT !.segIndex = o.imm,
                                         !.segStartAddr = SegStartAddress(o.imm),
                                         !.segName = SegmentName(o.imm),
                                         !.segOffset = o.num], M)
  /\ o.op = 8 => Matches(t, b, [r EXCEPT !.segOffset = (r.segOffset + o.num) % W64], M)

LEMMA SetsMatch ==
  ASSUME NEW s \in Meant, NEW r \in Regs, NEW b, NEW M, IsSpan(M), Matches(s, b, r, M),
         NEW o \in Instruction
  PROVE  SetsAs(Do(s, o), s, b, r, o, M)
<1>1. /\ DOMAIN s = {"binds", "over", "bad", "base", "off", "name", "weak",
                     "dylib", "type", "addend"}
      /\ DOMAIN r = {"type", "segIndex", "segStartAddr", "segName", "segOffset",
                     "symbolName", "fromDylib", "addend", "weak_import"}
  BY Fields
<1>2. /\ ~(s.over \/ s.bad)
      /\ s.base = r.segStartAddr /\ s.off % M = r.segOffset % M
      /\ s.name = NameOf(b, r.symbolName)
      /\ s.weak = r.weak_import /\ s.dylib = r.fromDylib /\ s.type = r.type
      /\ SignExtends(s.addend) => r.addend = s.addend % W64
  BY DEF Matches
<1>3. \A x : LET t == [s EXCEPT !.dylib = x]
             IN  t.binds = s.binds /\ Matches(t, b, [r EXCEPT !.fromDylib = x], M)
  BY <1>1, <1>2 DEF Matches
<1>4. \A x, y, z : NameOf(b, x) = y =>
        LET t == [s EXCEPT !.name = y, !.weak = z]
        IN  t.binds = s.binds /\ Matches(t, b, [r EXCEPT !.symbolName = x, !.weak_import = z], M)
  BY <1>1, <1>2 DEF Matches
<1>5. \A x : LET t == [s EXCEPT !.type = x]
             IN  t.binds = s.binds /\ Matches(t, b, [r EXCEPT !.type = x], M)
  BY <1>1, <1>2 DEF Matches
<1>6. \A x, y : (SignExtends(x) => y = x % W64) =>
        LET t == [s EXCEPT !.addend = x]
        IN  t.binds = s.binds /\ Matches(t, b, [r EXCEPT !.addend = y], M)
  BY <1>1, <1>2 DEF Matches
<1>7. \A x, y, z, u :
        LET t == [s EXCEPT !.base = x, !.off = y]
        IN  t.binds = s.binds /\ Matches(t, b, [r EXCEPT !.segIndex = z, !.segStartAddr = x,
                                                         !.segName = u, !.segOffset = y], M)
  BY <1>1, <1>2 DEF Matches
<1>8. \A x, y : x % M = y % M =>
        LET t == [s EXCEPT !.off = x]
        IN  t.binds = s.binds /\ Matches(t, b, [r EXCEPT !.segOffset = y], M)
  BY <1>1, <1>2 DEF Matches
<1>9. ASSUME o.op = 1
      PROVE  /\ Do(s, o).binds = s.binds
             /\ Matches(Do(s, o), b, [r EXCEPT !.fromDylib = OrdinalName(o.imm)], M)
  <2>1. Do(s, o) = [s EXCEPT !.dylib = OrdinalName(o.imm)]
    BY <1>2, <1>9, DoIs
  <2> QED
    BY <1>3, <2>1
<1>10. ASSUME o.op = 2
       PROVE  /\ Do(s, o).binds = s.binds
              /\ Matches(Do(s, o), b, [r EXCEPT !.fromDylib = OrdinalName(AsInt(o.num))], M)
  <2>1. Do(s, o) = [s EXCEPT !.dylib = OrdinalName(AsInt(o.num))]
    BY <1>2, <1>10, DoIs
  <2> QED
    BY <1>3, <2>1
<1>11. ASSUME o.op = 3
       PROVE  /\ Do(s, o).binds = s.binds
              /\ Matches(Do(s, o), b, [r EXCEPT !.fromDylib = OrdinalName(IF o.imm = 0 THEN 0
                                                                          ELSE o.imm - 16)], M)
  <2> DEFINE x == OrdinalName(IF o.imm = 0 THEN 0 ELSE o.imm - 16)
  <2>1. Do(s, o) = [s EXCEPT !.dylib = x]
    BY <1>2, <1>11, DoIs
  <2> HIDE DEF x
  <2>2. Do(s, o).binds = s.binds /\ Matches(Do(s, o), b, [r EXCEPT !.fromDylib = x], M)
    BY <1>3, <2>1
  <2> QED
    BY <2>2 DEF x
<1>12. ASSUME o.op = 4
       PROVE  /\ Do(s, o).binds = s.binds
              /\ \A x : NameOf(b, x) = o.name =>
                   Matches(Do(s, o), b, [r EXCEPT !.symbolName = x, !.weak_import = o.imm % 2 = 1], M)
  <2> DEFINE z == o.imm % 2 = 1
             t == [s EXCEPT !.name = o.name, !.weak = z]
  <2>1. Do(s, o) = t
    BY <1>2, <1>12, DoIs
  <2> HIDE DEF z
  <2>2. t.binds = s.binds
    BY <1>1
  <2>3. \A x : NameOf(b, x) = o.name =>
          Matches(t, b, [r EXCEPT !.symbolName = x, !.weak_import = z], M)
    BY <1>4
  <2> HIDE DEF t
  <2> QED
    BY <2>1, <2>2, <2>3 DEF z
<1>13. ASSUME o.op = 5
       PROVE  Do(s, o).binds = s.binds /\ Matches(Do(s, o), b, [r EXCEPT !.type = o.imm], M)
  <2>1. Do(s, o) = [s EXCEPT !.type = o.imm]
    BY <1>2, <1>13, DoIs
  <2> QED
    BY <1>5, <2>1
<1>14. ASSUME o.op = 6
       PROVE  /\ Do(s, o).binds = s.binds
              /\ \A x : (SignExtends(o.num) => x = o.num % W64) =>
                   Matches(Do(s, o), b, [r EXCEPT !.addend = x], M)
  <2>1. Do(s, o) = [s EXCEPT !.addend = o.num]
    BY <1>2, <1>14, DoIs
  <2>2. Do(s, o).binds = s.binds
    BY <1>1, <2>1
  <2> QED
    BY <1>6, <2>1, <2>2
<1>15. ASSUME o.op = 7
       PROVE  /\ Do(s, o).binds = s.binds
              /\ Matches(Do(s, o), b, [r EXCEPT !.segIndex = o.imm,
                                                !.segStartAddr = SegStartAddress(o.imm),
                                                !.segName = SegmentName(o.imm),
                                                !.segOffset = o.num], M)
  <2> DEFINE a == SegStartAddress(o.imm)
             u == SegmentName(o.imm)
             t == [s EXCEPT !.base = a, !.off = o.num]
  <2>1. Do(s, o) = t
    BY <1>2, <1>15, DoIs
  <2> HIDE DEF a, u
  <2>2. t.binds = s.binds
    BY <1>1
  <2>3. Matches(t, b, [r EXCEPT !.segIndex = o.imm, !.segStartAddr = a, !.segName = u,
                                !.segOffset = o.num], M)
    BY <1>7
  <2> HIDE DEF t
  <2> QED
    BY <2>1, <2>2, <2>3 DEF a, u
<1>16. ASSUME o.op = 8
       PROVE  /\ Do(s, o).binds = s.binds
              /\ Matches(Do(s, o), b, [r EXCEPT !.segOffset = (r.segOffset + o.num) % W64], M)
  <2> DEFINE x == (r.segOffset + o.num) % W64
             y == s.off + o.num
  <2>1. Do(s, o) = [s EXCEPT !.off = y]
    BY <1>2, <1>16, DoIs
  <2>2. o.num \in Int /\ r.segOffset \in Int /\ s.off \in Int /\ M \in Nat \ {0}
    <3>1. o.num \in Word /\ r.segOffset \in Word /\ s.off \in Int /\ M \in Nat \ {0}
      BY <1>16, InstructionFacts, MeantParts DEF Regs, Word, IsSpan
    <3> QED
      BY <3>1, WordInt
  <2>3. x % M = (r.segOffset + o.num) % M
    BY <2>2, SpanSame
  <2>4. (r.segOffset + o.num) % M = y % M
    BY <1>2, <2>2, SpanSum
  <2>5. y % M = x % M
    BY <2>3, <2>4
  <2> HIDE DEF x, y
  <2>6. Do(s, o).binds = s.binds /\ Matches(Do(s, o), b, [r EXCEPT !.segOffset = x], M)
    BY <1>8, <2>1, <2>5
  <2> QED
    BY <2>6 DEF x
<1>17. o.op \in 1 .. 8 => o.op \in {1, 2, 3, 4, 5, 6, 7, 8}
  BY InstructionFacts
<1> QED
  BY <1>9, <1>10, <1>11, <1>12, <1>13, <1>14, <1>15, <1>16, <1>17 DEF SetsAs

(* An instruction that binds: the registers, and what the entries tell.    *)
SameOffsets(s, r, M, count, stride, ref) ==
  \A i \in 0 .. count : ((r.segOffset + i * stride) % W64) % M = (s.off + i * ref) % M

(* What the binds of run s tell by the registers.                          *)
TellsBinds(s, b, r, M, count, stride, ref) ==
  \A i \in 1 .. count :
    LET bind == BindAt(s, s.off + (i - 1) * ref)
    IN  /\ ((r.segStartAddr + ((r.segOffset + (i - 1) * stride) % W64)) % W64) % M =
             bind.address % M
        /\ NameOf(b, r.symbolName) = bind.name /\ r.weak_import = bind.weak
        /\ r.fromDylib = bind.dylib /\ r.type = bind.type
        /\ SignExtends(bind.addend) => r.addend = bind.addend % W64

LEMMA MoveMatches ==
  ASSUME NEW s \in Meant, NEW r \in Regs, NEW b, NEW M, IsSpan(M), Matches(s, b, r, M),
         NEW count \in Nat, NEW stride \in Int, NEW ref \in Int,
         SameOffsets(s, r, M, count, stride, ref)
  PROVE  /\ Matches(Move(s, count, ref), b,
                    [r EXCEPT !.segOffset = (r.segOffset + count * stride) % W64], M)
         /\ TellsBinds(s, b, r, M, count, stride, ref)
<1>1. /\ ~(s.over \/ s.bad)
      /\ s.base = r.segStartAddr /\ s.name = NameOf(b, r.symbolName)
      /\ s.weak = r.weak_import /\ s.dylib = r.fromDylib /\ s.type = r.type
      /\ SignExtends(s.addend) => r.addend = s.addend % W64
  BY DEF Matches
<1>2. /\ DOMAIN s = {"binds", "over", "bad", "base", "off", "name", "weak",
                     "dylib", "type", "addend"}
      /\ DOMAIN r = {"type", "segIndex", "segStartAddr", "segName", "segOffset",
                     "symbolName", "fromDylib", "addend", "weak_import"}
  BY Fields
<1> DEFINE x == (r.segOffset + count * stride) % W64
           z == s.off + count * ref
<1>3. z % M = x % M
  <2>1. count \in 0 .. count
    OBVIOUS
  <2> QED
    BY <2>1 DEF SameOffsets
<1>4. /\ Move(s, count, ref).off = z
      /\ Move(s, count, ref) =
           [s EXCEPT !.binds = Move(s, count, ref).binds, !.off = Move(s, count, ref).off]
  <2>1. Moved(Move(s, count, ref), s, count, ref)
    BY MoveIs
  <2> QED
    BY <2>1 DEF Moved
<1> HIDE DEF x, z
<1>5. \A bs : Matches([s EXCEPT !.binds = bs, !.off = z], b, [r EXCEPT !.segOffset = x], M)
  BY <1>1, <1>2, <1>3 DEF Matches
<1>6. Matches(Move(s, count, ref), b, [r EXCEPT !.segOffset = x], M)
  BY <1>4, <1>5
<1>7. s.base \in Int /\ s.off \in Int /\ r.segOffset \in Int /\ M \in Nat \ {0}
  <2>1. s.base \in 0 .. W32 - 1 /\ s.off \in Int /\ r.segOffset \in Word /\ M \in Nat \ {0}
    BY MeantParts DEF Regs, Word, IsSpan
  <2> QED
    BY <2>1, WordInt
<1>8. ASSUME NEW i \in 1 .. count
      PROVE  ((r.segStartAddr + ((r.segOffset + (i - 1) * stride) % W64)) % W64) % M =
               (s.base + (s.off + (i - 1) * ref)) % M
  <2>1. i - 1 \in 0 .. count /\ i - 1 \in Int
    OBVIOUS
  <2> DEFINE y == s.off + (i - 1) * ref
             u == r.segOffset + (i - 1) * stride
             v == u % W64
  <2>2. y \in Int /\ u \in Int
    <3>1. \A a, c, d \in Int : a + c * d \in Int
      OBVIOUS
    <3> QED
      BY <1>7, <2>1, <3>1
  <2>3. v % M = y % M
    BY <2>1 DEF SameOffsets
  <2>4. v \in Int
    BY <2>2, WordInt
  <2> HIDE DEF y, u, v
  <2>5. (s.base + v) % M = (s.base + y) % M
    <3>1. y \in Int
      BY <2>2
    <3>2. M \in Nat \ {0} /\ s.base \in Int
      BY <1>7
    <3>3. (v + s.base) % M = (y + s.base) % M
      BY <2>3, <2>4, <3>1, <3>2, SpanSum
    <3>4. v + s.base = s.base + v /\ y + s.base = s.base + y
      BY <2>4, <3>1, <3>2
    <3> QED
      BY <3>3, <3>4
  <2>6. s.base + v \in Int
    BY <1>7, <2>4
  <2>7. ((s.base + v) % W64) % M = (s.base + v) % M
    BY <2>6, SpanSame
  <2>8. ((s.base + v) % W64) % M = (s.base + y) % M
    BY <2>5, <2>7
  <2> QED
    BY <1>1, <2>8 DEF y, u, v
<1>9. \A y : LET bind == BindAt(s, y)
             IN  /\ bind.address = s.base + y
                 /\ NameOf(b, r.symbolName) = bind.name /\ r.weak_import = bind.weak
                 /\ r.fromDylib = bind.dylib /\ r.type = bind.type
                 /\ SignExtends(bind.addend) => r.addend = bind.addend % W64
  BY <1>1 DEF BindAt
<1>10. TellsBinds(s, b, r, M, count, stride, ref)
  BY <1>8, <1>9 DEF TellsBinds
<1> QED
  BY <1>6, <1>10 DEF x

(* Strides alike modulo M bind the same. *)
LEMMA SameStride ==
  ASSUME NEW s \in Meant, NEW r \in Regs, NEW b, NEW M, IsSpan(M), Matches(s, b, r, M),
         NEW stride \in Int, NEW ref \in Int, stride % M = ref % M, NEW count \in Nat
  PROVE  SameOffsets(s, r, M, count, stride, ref)
<1>1. s.off \in Int /\ r.segOffset \in Int /\ M \in Nat \ {0} /\ s.off % M = r.segOffset % M
  <2>1. s.off \in Int /\ r.segOffset \in Word /\ M \in Nat \ {0} /\ s.off % M = r.segOffset % M
    BY MeantParts DEF Regs, Word, IsSpan, Matches
  <2> QED
    BY <2>1, WordInt
<1>2. SUFFICES ASSUME NEW i \in 0 .. count
               PROVE  ((r.segOffset + i * stride) % W64) % M = (s.off + i * ref) % M
  BY DEF SameOffsets
<1> DEFINE x == i * stride
           y == i * ref
<1>3. x \in Int /\ y \in Int /\ i \in Int
  <2>1. \A u, v \in Int : u * v \in Int
    OBVIOUS
  <2> QED
    BY <2>1
<1>4. x % M = y % M
  <2>1. \A j \in Int : (j * stride) % M = (j * ref) % M
    BY <1>1, SpanTimes
  <2> QED
    BY <1>3, <2>1
<1> HIDE DEF x, y
<1>5. r.segOffset + x \in Int
  BY <1>1, <1>3
<1>6. ((r.segOffset + x) % W64) % M = (r.segOffset + x) % M
  BY <1>5, SpanSame
<1>7. (r.segOffset + x) % M = (r.segOffset + y) % M
  <2> DEFINE z == r.segOffset
  <2>0. M \in Nat \ {0} /\ x \in Int /\ y \in Int /\ z \in Int /\ x % M = y % M
    BY <1>1, <1>3, <1>4
  <2> HIDE DEF z
  <2>1. (x + z) % M = (y + z) % M
    BY <2>0, SpanSum
  <2> USE DEF z
  <2>2. x + r.segOffset = r.segOffset + x /\ y + r.segOffset = r.segOffset + y
    BY <1>1, <1>3
  <2> QED
    BY <2>1, <2>2
<1>8. (r.segOffset + y) % M = (s.off + y) % M
  <2>1. \A z \in Int : (r.segOffset + z) % M = (s.off + z) % M
    BY <1>1, SpanSum
  <2> QED
    BY <1>3, <2>1
<1> QED
  BY <1>6, <1>7, <1>8 DEF x, y

(* The pass has read the first k instructions of the program.              *)
Reads(prog, k) ==
  /\ p = Start(prog, k)
  /\ Matches(RunOf(prog)[k], bytes, regs, Span(prog))
  /\ n = Len(RunOf(prog)[k].binds)
  /\ pass = 2 => Tells(RunOf(prog)[k], bytes, dbi, n, Span(prog))

(* An opcode that sets registers is one more instruction.                  *)
LEMMA SetsReads ==
  ASSUME NEW prog \in Seq(Instruction), NEW k \in 1 .. Len(prog), Reads(prog, k - 1),
         NEW changed, Sets(changed, Start(prog, k)),
         RunOf(prog)[k].binds = RunOf(prog)[k - 1].binds,
         Matches(RunOf(prog)[k], bytes, changed, Span(prog))
  PROVE  Reads(prog, k)' /\ done' = done /\ status' = status
<1> DEFINE s == RunOf(prog)[k - 1]
           t == RunOf(prog)[k]
           M == Span(prog)
<1>1. /\ regs' = changed /\ p' = Start(prog, k)
      /\ UNCHANGED <<input, status, pass, done, n, dbi, ndbi>>
  BY DEF Sets
<1>2. bytes' = bytes
  BY <1>1, BytesFrame
<1>3. n = Len(s.binds) /\ (pass = 2 => Tells(s, bytes, dbi, n, M)) /\ t.binds = s.binds
  BY DEF Reads
<1>4. Matches(t, bytes, changed, M)
  OBVIOUS
<1> HIDE DEF s, t, M
<1>5. /\ Matches(t, bytes', regs', M) /\ n' = Len(t.binds)
      /\ pass' = 2 => Tells(t, bytes', dbi', n', M)
  BY <1>1, <1>2, <1>3, <1>4 DEF Tells
<1> QED
  BY <1>1, <1>5 DEF Reads, t, M

(* An opcode that binds likewise.                                          *)
LEMMA BindReads ==
  ASSUME PassesInv, NEW prog \in Seq(Instruction), NEW k \in 1 .. Len(prog), Reads(prog, k - 1),
         NEW count \in Nat, NEW stride \in Int, NEW ref \in Int,
         SameOffsets(RunOf(prog)[k - 1], regs, Span(prog), count, stride, ref),
         RunOf(prog)[k] = Move(RunOf(prog)[k - 1], count, ref),
         Bind(count, stride, Start(prog, k))
  PROVE  Reads(prog, k)' /\ done' = done /\ status' = status
<1> DEFINE s == RunOf(prog)[k - 1]
           t == RunOf(prog)[k]
           M == Span(prog)
           Offset(i) == (regs.segOffset + i * stride) % W64
<1>1. /\ n' = n + count
      /\ regs' = [regs EXCEPT !.segOffset = Offset(count)]
      /\ dbi' = IF pass = 1 THEN dbi
                ELSE [j \in DOMAIN dbi \cup (n + 1 .. n + count) |->
                        IF j \in n + 1 .. n + count THEN Entry(Offset(j - n - 1)) ELSE dbi[j]]
      /\ p' = Start(prog, k)
      /\ UNCHANGED <<input, status, pass, done, ndbi>>
  BY DEF Bind
<1>2. bytes' = bytes
  BY <1>1, BytesFrame
<1>3. n \in Nat /\ regs \in Regs
  BY DEF PassesInv, TypeOK
<1>4. s \in Meant
  <2>1. k - 1 \in 0 .. Len(prog)
    OBVIOUS
  <2> QED
    BY <2>1, RunMeans
<1>5. Matches(s, bytes, regs, M) /\ n = Len(s.binds) /\ (pass = 2 => Tells(s, bytes, dbi, n, M))
  BY DEF Reads
<1>6. t = Move(s, count, ref) /\ SameOffsets(s, regs, M, count, stride, ref) /\ IsSpan(M)
  BY SpanOf
<1> HIDE DEF s, t, M
<1>7. /\ Matches(Move(s, count, ref), bytes, [regs EXCEPT !.segOffset = Offset(count)], M)
      /\ TellsBinds(s, bytes, regs, M, count, stride, ref)
  BY <1>3, <1>4, <1>5, <1>6, MoveMatches
<1>8. /\ Len(t.binds) = n + count
      /\ \A i \in 1 .. n : t.binds[i] = s.binds[i]
      /\ \A i \in 1 .. count : t.binds[n + i] = BindAt(s, s.off + (i - 1) * ref)
  <2>1. Moved(t, s, count, ref)
    BY <1>4, <1>6, MoveIs
  <2> QED
    BY <1>5, <2>1 DEF Moved
<1>10. \A i \in 1 .. count : ToldOf(bytes, Entry(Offset(i - 1)), t.binds[n + i], M)
  <2> SUFFICES ASSUME NEW i \in 1 .. count
               PROVE  ToldOf(bytes, Entry(Offset(i - 1)), t.binds[n + i], M)
    OBVIOUS
  <2> DEFINE x == Offset(i - 1)
             bind == BindAt(s, s.off + (i - 1) * ref)
  <2>1. /\ ((regs.segStartAddr + x) % W64) % M = bind.address % M
        /\ NameOf(bytes, regs.symbolName) = bind.name /\ regs.weak_import = bind.weak
        /\ regs.fromDylib = bind.dylib /\ regs.type = bind.type
        /\ SignExtends(bind.addend) => regs.addend = bind.addend % W64
    BY <1>7 DEF TellsBinds
  <2>2. t.binds[n + i] = bind
    BY <1>8
  <2> HIDE DEF x, bind
  <2>3. ToldOf(bytes, Entry(x), bind, M)
    BY <2>1 DEF ToldOf, Entry, Address
  <2> QED
    BY <2>2, <2>3 DEF x
<1> HIDE DEF Offset
<1>9. Matches(t, bytes', regs', M) /\ n' = Len(t.binds)
  BY <1>1, <1>2, <1>6, <1>7, <1>8
<1>11. ASSUME pass = 2
       PROVE  Tells(t, bytes, dbi', n + count, M)
  <2>1. /\ DOMAIN dbi = 1 .. ndbi /\ n <= ndbi /\ ndbi \in Nat
    BY <1>11 DEF PassesInv, StaysInTable, SecondPass
  <2>2. dbi' = [j \in DOMAIN dbi \cup (n + 1 .. n + count) |->
                  IF j \in n + 1 .. n + count THEN Entry(Offset(j - n - 1)) ELSE dbi[j]]
    BY <1>1, <1>11
  <2>3. ASSUME NEW j \in 1 .. n PROVE ToldOf(bytes, dbi'[j], t.binds[j], M)
    <3>1. j \in DOMAIN dbi /\ j \notin n + 1 .. n + count
      BY <1>3, <2>1
    <3>2. dbi'[j] = dbi[j]
      BY <2>2, <3>1
    <3>3. ToldOf(bytes, dbi[j], s.binds[j], M)
      BY <1>5, <1>11 DEF Tells
    <3> QED
      BY <1>8, <3>2, <3>3
  <2>4. ASSUME NEW i \in 1 .. count PROVE ToldOf(bytes, dbi'[n + i], t.binds[n + i], M)
    <3>1. n + i \in n + 1 .. n + count /\ n + i - n - 1 = i - 1
      BY <1>3
    <3> DEFINE j == n + i
    <3>2. dbi'[j] = Entry(Offset(j - n - 1))
      <4>1. j \in n + 1 .. n + count
        BY <3>1
      <4> HIDE DEF j
      <4> QED
        BY <2>2, <4>1
    <3>3. j - n - 1 = i - 1
      BY <1>3, <3>1
    <3>4. ToldOf(bytes, Entry(Offset(i - 1)), t.binds[n + i], M)
      BY <1>10
    <3>5. ToldOf(bytes, dbi'[j], t.binds[n + i], M)
      BY <3>2, <3>3, <3>4
    <3> QED
      BY <3>5
  <2>5. \A j \in 1 .. n + count : j \in 1 .. n \/ (j - n \in 1 .. count /\ n + (j - n) = j)
    BY <1>3
  <2>6. \A j \in 1 .. n + count : ToldOf(bytes, dbi'[j], t.binds[j], M)
    <3> SUFFICES ASSUME NEW j \in 1 .. n + count PROVE ToldOf(bytes, dbi'[j], t.binds[j], M)
      OBVIOUS
    <3>1. CASE j \in 1 .. n
      BY <2>3, <3>1
    <3>2. CASE j - n \in 1 .. count /\ n + (j - n) = j
      <4> DEFINE i == j - n
      <4>1. i \in 1 .. count /\ n + i = j
        BY <3>2
      <4> HIDE DEF i
      <4>2. ToldOf(bytes, dbi'[n + i], t.binds[n + i], M)
        BY <2>4, <4>1
      <4> QED
        BY <4>1, <4>2
    <3> QED
      BY <2>5, <3>1, <3>2
  <2> QED
    BY <2>6 DEF Tells
<1>12. pass' = 2 => Tells(t, bytes', dbi', n', M)
  BY <1>1, <1>2, <1>11
<1> QED
  BY <1>1, <1>9, <1>12 DEF Reads, t, M

(* There is a byte to read exactly while there is an instruction.          *)
LEMMA MoreToRead ==
  ASSUME NEW prog \in Seq(Instruction), bytes \in Seq(Byte), bytes = Assemble(prog),
         NEW k \in 0 .. Len(prog)
  PROVE  Start(prog, k) < End <=> k < Len(prog)
<1>1. Len(prog) \in Nat /\ End \in Nat
  BY EndType
<1>2. CASE k = Len(prog)
  <2>1. Start(prog, k) = End
    BY <1>2 DEF Start, Assemble, End
  <2> QED
    BY <1>1, <1>2, <2>1
<1>3. CASE k < Len(prog)
  <2> DEFINE m == k + 1
  <2>1. m \in 1 .. Len(prog) /\ m - 1 = k
    BY <1>1, <1>3
  <2> HIDE DEF m
  <2>2. ReadsAs(prog[m], Start(prog, k), Start(prog, m))
    BY <2>1, InstructionRead
  <2> QED
    BY <1>3, <2>2 DEF ReadsAs
<1> QED
  BY <1>1, <1>2, <1>3

LEMMA OpcodesRead ==
  ASSUME PassesInv, NEW prog \in Seq(Instruction), bytes = Assemble(prog),
         NEW k \in 1 .. Len(prog), Reads(prog, k - 1), Opcodes, ~Done
  PROVE  Reads(prog, k)' /\ done' = done /\ status' = status
<1> DEFINE o == prog[k]
           next == Start(prog, k)
           s == RunOf(prog)[k - 1]
           t == RunOf(prog)[k]
           M == Span(prog)
<1>1. o \in Instruction /\ s \in Meant /\ t = Do(s, o)
  <2>1. k - 1 \in 0 .. Len(prog)
    OBVIOUS
  <2> QED
    BY <2>1, RunMeans
<1>2. bytes \in Seq(Byte) /\ regs \in Regs /\ p \in Int
  <2>1. p \in 1 .. End + 1 /\ \A w : \A x \in 1 .. w : x \in Int
    BY DEF PassesInv, TypeOK
  <2> QED
    BY <2>1 DEF PassesInv, TypeOK
<1>3. p = Start(prog, k - 1) /\ Matches(s, bytes, regs, M) /\ IsSpan(M)
  BY SpanOf DEF Reads
<1>4. ReadsAs(o, p, next)
  BY <1>2, <1>3, InstructionRead
<1>5. Opcode = o.op /\ Immediate = o.imm /\ ~(s.over \/ s.bad)
  BY <1>3, <1>4 DEF ReadsAs, Opcode, Op, Immediate, Matches
<1>6. o.imm \in Int /\ PointerSize = 4
  <2>1. o.imm \in 0 .. 15 /\ \A x \in 0 .. 15 : x \in Int
    BY <1>1, InstructionFacts
  <2> QED
    BY <2>1 DEF PointerSize
<1>7. ASSUME NEW changed, Sets(changed, next), t.binds = s.binds, Matches(t, bytes, changed, M)
      PROVE  Reads(prog, k)' /\ done' = done /\ status' = status
  BY <1>7, SetsReads
<1>8. ASSUME NEW count \in Nat, NEW stride \in Int, NEW ref \in Int,
             SameOffsets(s, regs, M, count, stride, ref), t = Move(s, count, ref),
             Bind(count, stride, next)
      PROVE  Reads(prog, k)' /\ done' = done /\ status' = status
  BY <1>8, BindReads
<1>same. ASSUME NEW count \in Nat, NEW stride \in Int, NEW ref \in Int, stride % M = ref % M,
                t = Move(s, count, ref), Bind(count, stride, next)
         PROVE  Reads(prog, k)' /\ done' = done /\ status' = status
  <2>1. SameOffsets(s, regs, M, count, stride, ref)
    BY <1>1, <1>2, <1>3, <1>same, SameStride
  <2> QED
    BY <1>8, <1>same, <2>1
<1>narrow. M = W32 \/ (M = W64 /\ (o.op = 12 => o.skip + PointerSize < W32))
  BY DEF Span, NarrowSkips
<1> HIDE DEF o, next, s, t, M
<1>sets. SetsAs(t, s, bytes, regs, o, M)
  BY <1>1, <1>2, <1>3, SetsMatch
<1>9. CASE SetDylibOrdinalImm
  <2> DEFINE changed == [regs EXCEPT !.fromDylib = OrdinalName(o.imm)]
  <2>1. o.op = 1 /\ Sets(changed, p + 1)
    BY <1>5, <1>9 DEF SetDylibOrdinalImm, At
  <2>2. next = p + 1
    BY <1>4, <2>1 DEF ReadsAs
  <2>3. t.binds = s.binds /\ Matches(t, bytes, changed, M)
    BY <1>sets, <2>1 DEF SetsAs
  <2> HIDE DEF changed
  <2> QED
    BY <1>7, <2>1, <2>2, <2>3
<1>10. CASE SetDylibOrdinalUleb
  <2> DEFINE changed == [regs EXCEPT !.fromDylib = OrdinalName(AsInt(o.num))]
  <2>1. /\ o.op = 2
        /\ Sets([regs EXCEPT !.fromDylib = OrdinalName(AsInt(ReadUleb(p + 1).value))],
                ReadUleb(p + 1).next)
    BY <1>5, <1>10 DEF SetDylibOrdinalUleb, At
  <2>2. ReadUleb(p + 1).value = o.num /\ ReadUleb(p + 1).next = next
    BY <1>4, <2>1 DEF ReadsAs
  <2>3. Sets(changed, next)
    BY <2>1, <2>2
  <2>4. t.binds = s.binds /\ Matches(t, bytes, changed, M)
    BY <1>sets, <2>1 DEF SetsAs
  <2> HIDE DEF changed
  <2> QED
    BY <1>7, <2>3, <2>4
<1>11. CASE SetDylibSpecialImm
  <2> DEFINE changed == [regs EXCEPT !.fromDylib = OrdinalName(IF o.imm = 0 THEN 0
                                                               ELSE o.imm - 16)]
  <2>1. o.op = 3 /\ Sets(changed, p + 1)
    BY <1>5, <1>11 DEF SetDylibSpecialImm, At
  <2>2. next = p + 1
    BY <1>4, <2>1 DEF ReadsAs
  <2>3. t.binds = s.binds /\ Matches(t, bytes, changed, M)
    BY <1>sets, <2>1 DEF SetsAs
  <2> HIDE DEF changed
  <2> QED
    BY <1>7, <2>1, <2>2, <2>3
<1>12. CASE SetSymbolTrailingFlagsImm
  <2> DEFINE changed == [regs EXCEPT !.symbolName = p + 1, !.weak_import = o.imm % 2 = 1]
  <2>1. o.op = 4 /\ Sets(changed, AfterString(p + 1))
    BY <1>5, <1>12 DEF SetSymbolTrailingFlagsImm, At
  <2>2. AfterString(p + 1) = next /\ NameOf(bytes, p + 1) = o.name
    BY <1>4, <2>1, NamesAre DEF ReadsAs
  <2>3. t.binds = s.binds
    <3>1. o.op \in 1 .. 8
      BY <2>1
    <3> QED
      BY <1>sets, <3>1, Zenon DEF SetsAs
  <2>4. \A x : NameOf(bytes, x) = o.name =>
          Matches(t, bytes, [regs EXCEPT !.symbolName = x, !.weak_import = o.imm % 2 = 1], M)
    BY <1>sets, <2>1, Zenon DEF SetsAs
  <2>5. Matches(t, bytes, changed, M)
    BY <2>2, <2>4
  <2> HIDE DEF changed
  <2> QED
    BY <1>7, <2>1, <2>2, <2>3, <2>5
<1>13. CASE SetTypeImm
  <2> DEFINE changed == [regs EXCEPT !.type = o.imm]
  <2>1. o.op = 5 /\ Sets(changed, p + 1)
    BY <1>5, <1>13 DEF SetTypeImm, At
  <2>2. next = p + 1
    BY <1>4, <2>1 DEF ReadsAs
  <2>3. t.binds = s.binds /\ Matches(t, bytes, changed, M)
    BY <1>sets, <2>1 DEF SetsAs
  <2> HIDE DEF changed
  <2> QED
    BY <1>7, <2>1, <2>2, <2>3
<1>14. CASE SetAddendSleb
  <2>1. /\ o.op = 6
        /\ \E value \in ReadSleb(p + 1).values :
             Sets([regs EXCEPT !.addend = value], ReadSleb(p + 1).next)
    BY <1>5, <1>14 DEF SetAddendSleb, At
  <2>2. PICK value \in ReadSleb(p + 1).values :
          Sets([regs EXCEPT !.addend = value], ReadSleb(p + 1).next)
    BY <2>1
  <2>3. /\ ReadSleb(p + 1).next = next
        /\ SignExtends(o.num) => value = o.num % W64
    BY <1>4, <2>1, <2>2 DEF ReadsAs
  <2> DEFINE changed == [regs EXCEPT !.addend = value]
  <2>4. Sets(changed, next)
    BY <2>2, <2>3
  <2>5. t.binds = s.binds
    BY <1>sets, <2>1 DEF SetsAs
  <2>6. \A x : (SignExtends(o.num) => x = o.num % W64) =>
          Matches(t, bytes, [regs EXCEPT !.addend = x], M)
    BY <1>sets, <2>1, Zenon DEF SetsAs
  <2>7. Matches(t, bytes, changed, M)
    BY <2>3, <2>6
  <2> HIDE DEF changed
  <2> QED
    BY <1>7, <2>4, <2>5, <2>7
<1>15. CASE SetSegmentAndOffsetUleb
  <2> DEFINE changed == [regs EXCEPT !.segIndex = o.imm,
                                     !.segStartAddr = SegStartAddress(o.imm),
                                     !.segName = SegmentName(o.imm),
                                     !.segOffset = o.num]
  <2>1. /\ o.op = 7
        /\ Sets([regs EXCEPT !.segIndex = o.imm,
                             !.segStartAddr = SegStartAddress(o.imm),
                             !.segName = SegmentName(o.imm),
                             !.segOffset = ReadUleb(p + 1).value], ReadUleb(p + 1).next)
    BY <1>5, <1>15 DEF SetSegmentAndOffsetUleb, At
  <2>2. ReadUleb(p + 1).value = o.num /\ ReadUleb(p + 1).next = next
    BY <1>4, <2>1 DEF ReadsAs
  <2>3. Sets(changed, next)
    BY <2>1, <2>2
  <2>4. t.binds = s.binds /\ Matches(t, bytes, changed, M)
    BY <1>sets, <2>1 DEF SetsAs
  <2> HIDE DEF changed
  <2> QED
    BY <1>7, <2>3, <2>4
<1>16. CASE AddAddrUleb
  <2> DEFINE changed == [regs EXCEPT !.segOffset = (regs.segOffset + o.num) % W64]
  <2>1. /\ o.op = 8
        /\ Sets([regs EXCEPT !.segOffset = (regs.segOffset + ReadUleb(p + 1).value) % W64],
                ReadUleb(p + 1).next)
    BY <1>5, <1>16 DEF AddAddrUleb, At
  <2>2. ReadUleb(p + 1).value = o.num /\ ReadUleb(p + 1).next = next
    BY <1>4, <2>1 DEF ReadsAs
  <2>3. Sets(changed, next)
    BY <2>1, <2>2
  <2>4. t.binds = s.binds /\ Matches(t, bytes, changed, M)
    BY <1>sets, <2>1 DEF SetsAs
  <2> HIDE DEF changed
  <2> QED
    BY <1>7, <2>3, <2>4
<1>17. CASE DoBind
  <2>1. o.op = 9 /\ Bind(1, PointerSize, p + 1)
    BY <1>5, <1>17 DEF DoBind, At
  <2>2. next = p + 1
    BY <1>4, <2>1 DEF ReadsAs
  <2>3. t = Move(s, 1, PointerSize)
    BY <1>1, <1>5, <2>1, DoIs
  <2>4. 1 \in Nat /\ PointerSize \in Int
    BY <1>6
  <2> QED
    BY <1>same, <2>1, <2>2, <2>3, <2>4
<1>18. CASE DoBindAddAddrUleb
  <2> DEFINE x == o.num + PointerSize
  <2>1. /\ o.op = 10
        /\ Bind(1, (ReadUleb(p + 1).value + PointerSize) % W64, ReadUleb(p + 1).next)
    BY <1>5, <1>18 DEF DoBindAddAddrUleb, At
  <2>2. ReadUleb(p + 1).value = o.num /\ ReadUleb(p + 1).next = next
    BY <1>4, <2>1 DEF ReadsAs
  <2>3. Bind(1, x % W64, next)
    BY <2>1, <2>2
  <2>4. t = Move(s, 1, x)
    BY <1>1, <1>5, <2>1, DoIs
  <2>5. x \in Int
    <3>1. o.num \in Word
      BY <1>1, <2>1, InstructionFacts
    <3>2. o.num \in Int
      BY <3>1, WordInt
    <3> QED
      BY <1>6, <3>2
  <2> HIDE DEF x
  <2>6. 1 \in Nat /\ x % W64 \in Int
    BY <2>5, WordInt
  <2>7. (x % W64) % M = x % M
    BY <1>3, <2>5, SpanSame
  <2> DEFINE y == x % W64
  <2> HIDE DEF y
  <2>8. y \in Int /\ y % M = x % M /\ Bind(1, y, next)
    BY <2>3, <2>6, <2>7 DEF y
  <2> QED
    BY <1>same, <2>4, <2>5, <2>6, <2>8
<1>19. CASE DoBindAddAddrImmScaled
  <2> DEFINE x == o.imm * PointerSize + PointerSize
  <2>1. o.op = 11 /\ Bind(1, x, p + 1)
    BY <1>5, <1>19 DEF DoBindAddAddrImmScaled, At
  <2>2. next = p + 1
    BY <1>4, <2>1 DEF ReadsAs
  <2>3. t = Move(s, 1, (o.imm + 1) * PointerSize)
    BY <1>1, <1>5, <2>1, DoIs
  <2>4. 1 \in Nat /\ x \in Int /\ (o.imm + 1) * PointerSize = x
    BY <1>6
  <2> HIDE DEF x
  <2> QED
    BY <1>same, <2>1, <2>2, <2>3, <2>4
<1>20. CASE DoBindUlebTimesSkippingUleb
  <2> DEFINE ref == o.skip + PointerSize
             x == ref % W32
             first == ReadUleb(p + 1)
             second == ReadUleb(first.next)
  <2>1. /\ o.op = 12
        /\ Bind(first.value % W32, ((second.value % W32) + PointerSize) % W32, second.next)
    BY <1>5, <1>20 DEF DoBindUlebTimesSkippingUleb, At
  <2>2. first.value = o.num /\ second.value = o.skip /\ second.next = next
    BY <1>4, <2>1 DEF ReadsAs
  <2> HIDE DEF first, second
  <2>3. o.num \in Nat /\ o.num % W32 = o.num /\ o.skip \in Nat /\ W32 \in Nat \ {0}
    <3>1. o.num \in 0 .. W32 - 1 /\ o.skip \in Word
      BY <1>1, <2>1, InstructionFacts
    <3>2. W32 \in Nat \ {0} /\ W64 \in Nat
      BY Words
    <3>3. \A w \in Nat \ {0} : \A u \in 0 .. w - 1 : u \in Nat /\ u % w = u
      OBVIOUS
    <3> QED
      BY <3>1, <3>2, <3>3 DEF Word
  <2>4. ref \in Nat
    <3>1. o.skip \in Nat /\ PointerSize = 4
      BY <1>6, <2>3
    <3>2. \A u \in Nat : u + 4 \in Nat
      OBVIOUS
    <3> QED
      BY <3>1, <3>2
  <2>5. ((o.skip % W32) + PointerSize) % W32 = x
    <3>1. PointerSize \in Int
      BY <1>6
    <3>2. o.skip \in Int
      BY <2>3
    <3> QED
      BY <2>3, <3>1, <3>2, WordSum
  <2>6. Bind(o.num, x, next)
    BY <2>1, <2>2, <2>3, <2>5
  <2>7. t = Move(s, o.num, ref)
    BY <1>1, <1>5, <2>1, DoIs
  <2>8. x \in Int
    <3>1. \A w \in Nat \ {0} : \A u \in Nat : u % w \in Int
      OBVIOUS
    <3> QED
      BY <2>3, <2>4, <3>1
  <2>9. x % M = ref % M
    <3>1. \A w \in Nat \ {0} : \A u \in Nat :
            (u % w) % w = u % w /\ (u < w => u % w = u)
      OBVIOUS
    <3>2. CASE M = W32
      BY <2>3, <2>4, <3>1, <3>2
    <3>3. CASE M = W64 /\ ref < W32
      BY <2>1, <2>3, <2>4, <3>1, <3>3
    <3> QED
      BY <1>narrow, <2>1, <3>2, <3>3
  <2> HIDE DEF ref, x
  <2> QED
    BY <1>same, <2>3, <2>4, <2>6, <2>7, <2>8, <2>9
<1> QED
  BY <1>9, <1>10, <1>11, <1>12, <1>13, <1>14, <1>15, <1>16, <1>17, <1>18, <1>19, <1>20
  DEF Opcodes

(* How far a call has come in the program it was given.                    *)
ReadBy(prog) ==
  /\ status = "decoding" /\ ~done => \E k \in 0 .. Len(prog) : Reads(prog, k)
  /\ (status = "decoding" /\ done) \/ status = "decoded" =>
       /\ ~Meaning(prog).bad
       /\ n = Len(Meaning(prog).binds)
       /\ pass = 2 => Tells(Meaning(prog), bytes, dbi, n, Span(prog))
  /\ status = "bad_opcode" => Meaning(prog).bad

ReadsInv ==
  /\ PassesInv
  /\ input \in Inputs
  /\ input.from # None => ReadBy(input.from)

(* The next instruction, while a byte is to be read.                       *)
LEMMA NextInstruction ==
  ASSUME PassesInv, NEW prog \in Seq(Instruction), bytes = Assemble(prog), ReadBy(prog), Running
  PROVE  \E k \in 1 .. Len(prog) :
           /\ Reads(prog, k - 1) /\ k \in 0 .. Len(prog)
           /\ RunOf(prog)[k - 1] \in Meant /\ prog[k] \in Instruction
           /\ RunOf(prog)[k] = Do(RunOf(prog)[k - 1], prog[k])
           /\ Opcode = prog[k].op
<1>1. bytes \in Seq(Byte) /\ Len(prog) \in Nat
  BY DEF PassesInv, TypeOK
<1>2. status = "decoding" /\ ~done /\ p < End
  BY DEF Running
<1>3. PICK k \in 0 .. Len(prog) : Reads(prog, k)
  BY <1>2 DEF ReadBy
<1>4. p = Start(prog, k)
  BY <1>3 DEF Reads
<1>5. k < Len(prog)
  BY <1>1, <1>2, <1>4, MoreToRead
<1> DEFINE m == k + 1
<1>6. m \in 1 .. Len(prog) /\ m - 1 = k /\ m \in 0 .. Len(prog)
  BY <1>1, <1>5
<1> HIDE DEF m
<1>7. ReadsAs(prog[m], p, Start(prog, m))
  BY <1>1, <1>4, <1>6, InstructionRead
<1>8. Opcode = prog[m].op
  BY <1>7 DEF ReadsAs, Opcode, Op
<1>9. RunOf(prog)[k] \in Meant /\ prog[m] \in Instruction /\ RunOf(prog)[m] = Do(RunOf(prog)[k], prog[m])
  BY <1>6, RunMeans
<1> QED
  BY <1>3, <1>6, <1>8, <1>9

LEMMA DoneReads ==
  ASSUME PassesInv, NEW prog \in Seq(Instruction), bytes = Assemble(prog), ReadBy(prog), Done
  PROVE  ReadBy(prog)'
<1>1. /\ Running /\ Opcode = 0 /\ done' = TRUE /\ status = "decoding"
      /\ UNCHANGED <<input, status, pass, regs, n, dbi, ndbi>>
  BY DEF Done, At, Running
<1>2. PICK k \in 1 .. Len(prog) :
        /\ Reads(prog, k - 1) /\ k \in 0 .. Len(prog)
        /\ RunOf(prog)[k - 1] \in Meant /\ prog[k] \in Instruction
        /\ RunOf(prog)[k] = Do(RunOf(prog)[k - 1], prog[k])
        /\ Opcode = prog[k].op
  BY <1>1, NextInstruction
<1> DEFINE s == RunOf(prog)[k - 1]
           t == RunOf(prog)[k]
<1>3. /\ Matches(s, bytes, regs, Span(prog)) /\ n = Len(s.binds)
      /\ pass = 2 => Tells(s, bytes, dbi, n, Span(prog))
  BY <1>2 DEF Reads
<1>4. ~(s.over \/ s.bad) /\ s \in Meant
  BY <1>2, <1>3 DEF Matches
<1>5. t = [s EXCEPT !.over = TRUE]
  <2>1. prog[k].op = 0 /\ prog[k] \in Instruction /\ t = Do(s, prog[k])
    BY <1>1, <1>2
  <2> HIDE DEF s, t
  <2> QED
    BY <1>4, <2>1, DoIs
<1>6. t.over /\ ~t.bad /\ t.binds = s.binds
  <2>1. DOMAIN s = {"binds", "over", "bad", "base", "off", "name", "weak", "dylib", "type", "addend"}
    BY <1>4, Fields
  <2> HIDE DEF s, t
  <2> QED
    BY <1>4, <1>5, <2>1
<1>7. Meaning(prog) = t
  BY <1>2, <1>6, RunStays
<1>8. bytes' = bytes
  BY <1>1, BytesFrame
<1> HIDE DEF s, t
<1> QED
  BY <1>1, <1>3, <1>6, <1>7, <1>8 DEF ReadBy, Tells

LEMMA BadOpcodeReads ==
  ASSUME PassesInv, NEW prog \in Seq(Instruction), bytes = Assemble(prog), ReadBy(prog), BadOpcode
  PROVE  ReadBy(prog)'
<1>1. Running /\ Opcode > 12 /\ status' = "bad_opcode"
  BY DEF BadOpcode
<1>2. PICK k \in 1 .. Len(prog) :
        /\ Reads(prog, k - 1) /\ k \in 0 .. Len(prog)
        /\ RunOf(prog)[k - 1] \in Meant /\ prog[k] \in Instruction
        /\ RunOf(prog)[k] = Do(RunOf(prog)[k - 1], prog[k])
        /\ Opcode = prog[k].op
  BY <1>1, NextInstruction
<1> DEFINE s == RunOf(prog)[k - 1]
           t == RunOf(prog)[k]
<1>3. ~(s.over \/ s.bad) /\ s \in Meant
  BY <1>2 DEF Reads, Matches
<1>4. t = [s EXCEPT !.bad = TRUE]
  BY <1>1, <1>2, <1>3, DoIs
<1>5. t.bad
  <2>1. DOMAIN s = {"binds", "over", "bad", "base", "off", "name", "weak", "dylib", "type", "addend"}
    BY <1>3, Fields
  <2> HIDE DEF s, t
  <2> QED
    BY <1>4, <2>1
<1>6. Meaning(prog) = t
  BY <1>2, <1>5, RunStays
<1> QED
  BY <1>1, <1>5, <1>6 DEF ReadBy

LEMMA OpcodeKeepsReads ==
  ASSUME PassesInv, NEW prog \in Seq(Instruction), bytes = Assemble(prog), ReadBy(prog),
         Opcodes, ~Done
  PROVE  ReadBy(prog)'
<1>1. Moves
  BY OpcodesMove DEF PassesInv
<1>2. Running /\ status = "decoding" /\ ~done
  BY <1>1 DEF Moves, Running
<1>3. PICK k \in 1 .. Len(prog) : Reads(prog, k - 1) /\ k \in 0 .. Len(prog)
  BY <1>2, NextInstruction
<1>4. Reads(prog, k)' /\ done' = done /\ status' = status
  BY <1>3, OpcodesRead
<1> QED
  BY <1>2, <1>3, <1>4 DEF ReadBy

(* A pass begins with nothing set and nothing read.                        *)
LEMMA FreshMatches ==
  ASSUME NEW prog \in Seq(Instruction), NEW b, NEW M
  PROVE  /\ Start(prog, 0) = 1 /\ 0 \in 0 .. Len(prog)
         /\ Matches(RunOf(prog)[0], b, StartRegs, M)
         /\ Len(RunOf(prog)[0].binds) = 0
<1>1. Len(prog) \in Nat
  OBVIOUS
<1>2. RunOf(prog)[0] = AtStart
  BY <1>1, RunIs
<1>3. 0 % W64 = 0
  <2>1. \A w \in Nat \ {0} : 0 % w = 0
    OBVIOUS
  <2> QED
    BY <2>1, Words
<1>4. NameOf(b, None) = None
  BY DEF NameOf
<1>5. Matches(AtStart, b, StartRegs, M) /\ Len(AtStart.binds) = 0
  BY <1>3, <1>4 DEF Matches, AtStart, StartRegs
<1> QED
  BY <1>1, <1>2, <1>5, CodeBytes

LEMMA BeginSecondPassReads ==
  ASSUME NEW prog \in Seq(Instruction), BeginSecondPass
  PROVE  ReadBy(prog)'
<1>1. /\ status' = status /\ status = "decoding" /\ done' = FALSE /\ p' = 1 /\ regs' = StartRegs
      /\ n' = 0
  BY DEF BeginSecondPass, SecondPassWith, PassOver
<1>2. /\ Start(prog, 0) = 1 /\ 0 \in 0 .. Len(prog)
      /\ Matches(RunOf(prog)[0], bytes', StartRegs, Span(prog))
      /\ Len(RunOf(prog)[0].binds) = 0
  BY FreshMatches
<1>3. Tells(RunOf(prog)[0], bytes', dbi', n', Span(prog))
  BY <1>1 DEF Tells
<1>4. Reads(prog, 0)'
  BY <1>1, <1>2, <1>3 DEF Reads
<1> QED
  BY <1>1, <1>2, <1>4 DEF ReadBy

LEMMA ReturnReads ==
  ASSUME PassesInv, NEW prog \in Seq(Instruction), bytes = Assemble(prog), ReadBy(prog), Return
  PROVE  ReadBy(prog)'
<1>1. /\ PassOver /\ status' = "decoded" /\ status = "decoding"
      /\ UNCHANGED <<input, pass, p, done, regs, n, dbi, ndbi>>
  BY DEF Return, PassOver
<1>2. bytes' = bytes
  BY <1>1, BytesFrame
<1>3. /\ ~Meaning(prog).bad
      /\ n = Len(Meaning(prog).binds)
      /\ pass = 2 => Tells(Meaning(prog), bytes, dbi, n, Span(prog))
  <2>1. CASE done
    BY <1>1, <2>1 DEF ReadBy
  <2>2. CASE ~done
    <3>1. PICK k \in 0 .. Len(prog) : Reads(prog, k)
      BY <1>1, <2>2 DEF ReadBy
    <3>2. p = Start(prog, k) /\ ~(p < End)
      <4>1. p >= End /\ p \in 1 .. End + 1 /\ End \in Nat
        BY <1>1, <2>2, EndType DEF PassOver, PassesInv, TypeOK
      <4>2. ~(p < End)
        BY <4>1
      <4> QED
        BY <3>1, <4>2 DEF Reads
    <3>3. bytes \in Seq(Byte) /\ Len(prog) \in Nat
      BY DEF PassesInv, TypeOK
    <3>4. ~(k < Len(prog))
      BY <3>2, <3>3, MoreToRead
    <3>5. k = Len(prog)
      BY <3>3, <3>4
    <3>6. Meaning(prog) = RunOf(prog)[k]
      BY <3>5 DEF Meaning
    <3> QED
      BY <3>1, <3>6 DEF Reads, Matches
  <2> QED
    BY <2>1, <2>2
<1> QED
  BY <1>1, <1>2, <1>3 DEF ReadBy, Tells

LEMMA StutterReads ==
  ASSUME NEW prog, ReadBy(prog), UNCHANGED vars
  PROVE  ReadBy(prog)'
<1>1. UNCHANGED <<input, status, pass, p, done, regs, n, dbi, ndbi>>
  BY DEF vars
<1>2. bytes' = bytes
  BY <1>1, BytesFrame
<1>3. \A k : Reads(prog, k)' <=> Reads(prog, k)
  BY <1>1, <1>2 DEF Reads
<1> QED
  BY <1>1, <1>2, <1>3 DEF ReadBy

LEMMA InitReads == Init => ReadsInv
<1> SUFFICES ASSUME Init PROVE ReadsInv
  OBVIOUS
<1>1. PassesInv
  BY InitPasses
<1>2. /\ input \in Inputs /\ status = "decoding" /\ pass = 1 /\ p = 1 /\ done = FALSE
      /\ regs = StartRegs /\ n = 0
  BY DEF Init
<1>3. ASSUME input.from # None
      PROVE  ReadBy(input.from)
  <2> DEFINE prog == input.from
  <2>1. prog \in Seq(Instruction)
    BY <1>2, <1>3, ProgramsAssumption
  <2> HIDE DEF prog
  <2>2. /\ Start(prog, 0) = 1 /\ 0 \in 0 .. Len(prog)
        /\ Matches(RunOf(prog)[0], bytes, StartRegs, Span(prog))
        /\ Len(RunOf(prog)[0].binds) = 0
    BY <2>1, FreshMatches
  <2>3. Reads(prog, 0)
    BY <1>2, <2>2 DEF Reads
  <2>4. ReadBy(prog)
    BY <1>2, <2>2, <2>3 DEF ReadBy
  <2> QED
    BY <2>4 DEF prog
<1> QED
  BY <1>1, <1>2, <1>3 DEF ReadsInv

LEMMA NextReads == ReadsInv /\ [Next]_vars => ReadsInv'
<1> SUFFICES ASSUME ReadsInv, [Next]_vars PROVE ReadsInv'
  OBVIOUS
<1>1. PassesInv /\ PassesInv' /\ input \in Inputs
  BY NextKeepsPasses DEF ReadsInv
<1>2. Next => Opcodes \/ BadOpcode \/ BeginSecondPass \/ Return
  BY DEF Next, Opcodes
<1>3. input' = input
  <2>1. CASE Opcodes
    <3>1. Moves
      BY <1>1, <2>1, OpcodesMove DEF PassesInv
    <3> QED
      BY <3>1 DEF Moves
  <2>2. CASE BadOpcode \/ BeginSecondPass \/ Return \/ UNCHANGED vars
    BY <2>2 DEF BadOpcode, BeginSecondPass, SecondPassWith, Return, vars
  <2> QED
    BY <1>2, <2>1, <2>2
<1>4. ASSUME input.from # None
      PROVE  ReadBy(input.from)'
  <2>1. PICK prog : prog = input.from
    OBVIOUS
  <2>2. prog \in Seq(Instruction) /\ bytes = Assemble(prog)
    BY <1>1, <1>4, <2>1, ProgramsAssumption DEF bytes
  <2>3. ReadBy(prog)
    BY <1>4, <2>1 DEF ReadsInv
  <2>4. ReadBy(prog)'
    <3>1. CASE Done
      BY <1>1, <2>2, <2>3, <3>1, DoneReads
    <3>2. CASE Opcodes /\ ~Done
      BY <1>1, <2>2, <2>3, <3>2, OpcodeKeepsReads
    <3>3. CASE BadOpcode
      BY <1>1, <2>2, <2>3, <3>3, BadOpcodeReads
    <3>4. CASE BeginSecondPass
      BY <2>2, <3>4, BeginSecondPassReads
    <3>5. CASE Return
      BY <1>1, <2>2, <2>3, <3>5, ReturnReads
    <3>6. CASE UNCHANGED vars
      BY <2>3, <3>6, StutterReads
    <3> QED
      BY <1>2, <3>1, <3>2, <3>3, <3>4, <3>5, <3>6
  <2> QED
    BY <1>3, <2>1, <2>4 DEF ReadBy
<1> QED
  BY <1>1, <1>3, <1>4 DEF ReadsInv

(* What the invariant says of a call that has returned.                    *)
LEMMA ReadsInvDecodes == ReadsInv => DecodesProgram
<1> SUFFICES ASSUME ReadsInv, input.from # None, status # "decoding"
             PROVE  LET m == Meaning(input.from)
                    IN  /\ status = "bad_opcode" <=> m.bad
                        /\ status = "decoded" =>
                             /\ ndbi = Len(m.binds)
                             /\ \A k \in 1 .. ndbi : Told(dbi[k], m.binds[k], Span(input.from))
  BY DEF DecodesProgram
<1> DEFINE prog == input.from
           m == Meaning(prog)
<1>1. PassesInv /\ ReadBy(prog) /\ prog \in Seq(Instruction)
  BY ProgramsAssumption DEF ReadsInv
<1>2. status \in {"decoded", "bad_opcode"}
  BY <1>1 DEF PassesInv, TypeOK
<1> HIDE DEF prog, m
<1>4. status = "bad_opcode" <=> m.bad
  BY <1>1, <1>2 DEF ReadBy, m
<1>5. ASSUME status = "decoded"
      PROVE  /\ ndbi = Len(m.binds)
             /\ \A k \in 1 .. ndbi : Told(dbi[k], m.binds[k], Span(prog))
  <2>1. pass = 2
    BY <1>1, <1>5 DEF PassesInv, TypeOK, FirstPass
  <2>2. n = ndbi
    BY <1>1, <1>5, <2>1 DEF PassesInv, SecondPass
  <2>3. n = Len(m.binds) /\ Tells(m, bytes, dbi, n, Span(prog))
    BY <1>1, <1>5, <2>1 DEF ReadBy, m
  <2> QED
    BY <2>2, <2>3, NamesAre DEF Tells
<1> QED
  BY <1>4, <1>5 DEF m, prog

------------------------------------------------------------------------------
(* The theorems. *)

(* What get_dyld_bind_info keeps true while it runs its program twice      *)
(* (otool/dyld_bind_info.c:201-386).                                       *)
THEOREM BindInvariant == Spec => []PassesInv
<1>1. Init => PassesInv
  BY InitPasses
<1>2. PassesInv /\ [Next]_vars => PassesInv'
  BY NextKeepsPasses
<1> QED
  BY <1>1, <1>2, PTL DEF Spec

(* Registers, entries and the position keep the types the code declares:   *)
(* the slices joined to an operand fit the 64-bit word, and no operand but *)
(* a symbol name takes the position past the end                           *)
(* (otool/dyld_bind_info.c:135-184, 213-228).                              *)
THEOREM BindTypeCorrect == Spec => []TypeOK
<1>1. PassesInv => TypeOK
  BY DEF PassesInv
<1> QED
  BY <1>1, BindInvariant, PTL

(* For every program of opcodes the second pass writes inside the table    *)
(* that was allocated for what the first one counted                       *)
(* (otool/dyld_bind_info.c:253-258, 316).                                  *)
THEOREM TableIsLargeEnough == Spec => []StaysInTable
<1>1. PassesInv => StaysInTable
  BY DEF PassesInv
<1> QED
  BY <1>1, BindInvariant, PTL

(* A call that returns leaves no entry of the table unfilled, and one that *)
(* meets a bad opcode no table (otool/dyld_bind_info.c:249-258, 386).      *)
THEOREM TableIsFilled == Spec => []ReturnsWholeTable
<1>1. PassesInv => ReturnsWholeTable
  <2>1. SUFFICES ASSUME PassesInv
                 PROVE  ReturnsWholeTable
    OBVIOUS
  <2>2. TypeOK /\ FirstPass /\ SecondPass /\ StaysInTable
    BY <2>1 DEF PassesInv
  <2>3. pass \in {1, 2}
    BY <2>2 DEF TypeOK
  <2>4. ASSUME status = "decoded"
        PROVE  n = ndbi /\ \A k \in 1 .. ndbi : dbi[k] # None
    <3>1. pass = 2
      BY <2>2, <2>3, <2>4 DEF FirstPass
    <3>2. n = ndbi /\ ndbi \in Nat
      BY <2>2, <2>4, <3>1 DEF SecondPass
    <3>3. \A k \in 1 .. ndbi : dbi[k] = None <=> k > n
      BY <2>2, <3>1 DEF StaysInTable
    <3> QED
      BY <3>2, <3>3
  <2>5. ASSUME status = "bad_opcode"
        PROVE  dbi = <<>> /\ ndbi = None
    BY <2>2, <2>3, <2>5 DEF FirstPass, SecondPass
  <2> QED
    BY <2>4, <2>5 DEF ReturnsWholeTable
<1> QED
  BY <1>1, BindInvariant, PTL

(* A program of bind opcodes, assembled from any instructions whose        *)
(* ordinals are ints and whose counts have 32 bits, is decoded to what it  *)
(* means, a run whose offsets never wrap: operands are read as they were   *)
(* written, the second pass starts afresh, and a bad opcode is reported    *)
(* exactly when it is met before the end. Addresses agree in the 32 bits   *)
(* of the image, and in all 64 when no skip goes back. An addend agrees    *)
(* unless its sign is extended at the end of the word, where the shift is  *)
(* undefined (otool/dyld_bind_info.c:135-187, 201-386).                    *)
THEOREM ProgramsDecoded == Spec => []DecodesProgram
<1>1. Init => ReadsInv
  BY InitReads
<1>2. ReadsInv /\ [Next]_vars => ReadsInv'
  BY NextReads
<1>3. ReadsInv => DecodesProgram
  BY ReadsInvDecodes
<1> QED
  BY <1>1, <1>2, <1>3, PTL DEF Spec
===============================================================================
