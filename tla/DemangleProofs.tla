---------------------------- MODULE DemangleProofs ----------------------------
(***************************************************************************)
(* What the loop of fixup_templates does to every text: by how much the    *)
(* output is behind the input, and what is in the buffer. SymtabElfProofs  *)
(* makes theorems of it.                                                   *)
(***************************************************************************)
EXTENDS Demangle, FiniteSetTheorems, TLAPS

------------------------------------------------------------------------------
(* Gaps are counted. *)

GapsIn(text, k) == {j \in 1 .. k : IsGap(text, j)}

LEMMA GapsBound ==
  ASSUME NEW text, NEW k \in Nat
  PROVE  /\ IsFiniteSet(GapsIn(text, k))
         /\ Gaps(text, k) \in Nat
         /\ Gaps(text, k) <= k
<1>1. IsFiniteSet(1 .. k) /\ Cardinality(1 .. k) = k
  BY FS_Interval
<1>2. GapsIn(text, k) \in SUBSET (1 .. k)
  BY DEF GapsIn
<1>3. IsFiniteSet(GapsIn(text, k)) /\ Cardinality(GapsIn(text, k)) <= k
  BY <1>1, <1>2, FS_Subset
<1>4. Cardinality(GapsIn(text, k)) \in Nat
  BY <1>3, FS_CardinalityType
<1> QED
  BY <1>3, <1>4 DEF Gaps, GapsIn

LEMMA GapsStep ==
  ASSUME NEW text, NEW k \in Nat \ {0}
  PROVE  Gaps(text, k) = IF IsGap(text, k) THEN Gaps(text, k - 1) + 1 ELSE Gaps(text, k - 1)
<1>1. k - 1 \in Nat /\ IsFiniteSet(GapsIn(text, k - 1)) /\ k \notin GapsIn(text, k - 1)
  BY GapsBound DEF GapsIn
<1>2. CASE IsGap(text, k)
  <2>1. GapsIn(text, k) = GapsIn(text, k - 1) \cup {k}
    BY <1>2 DEF GapsIn
  <2>2. Cardinality(GapsIn(text, k - 1) \cup {k}) = Cardinality(GapsIn(text, k - 1)) + 1
    BY <1>1, FS_AddElement
  <2> QED
    BY <1>2, <2>1, <2>2 DEF Gaps, GapsIn
<1>3. CASE ~IsGap(text, k)
  <2>1. GapsIn(text, k) = GapsIn(text, k - 1)
    BY <1>3 DEF GapsIn
  <2> QED
    BY <1>3, <2>1 DEF Gaps, GapsIn
<1> QED
  BY <1>2, <1>3

(* What is left of a longer piece is not shorter. *)
LEMMA GapsMonotone ==
  ASSUME NEW text, NEW k \in Nat, NEW m \in Nat, k <= m
  PROVE  /\ k - Gaps(text, k) <= m - Gaps(text, m)
         /\ Gaps(text, k) <= Gaps(text, m)
<1> DEFINE rest == {j \in k + 1 .. m : IsGap(text, j)}
<1>1. IsFiniteSet(k + 1 .. m) /\ Cardinality(k + 1 .. m) = m - k
  <2>1. k + 1 \in Int /\ m \in Int
    OBVIOUS
  <2>2. /\ IsFiniteSet(k + 1 .. m)
        /\ Cardinality(k + 1 .. m) = IF k + 1 > m THEN 0 ELSE m - (k + 1) + 1
    BY <2>1, FS_Interval
  <2> QED
    BY <2>2
<1>2. rest \in SUBSET (k + 1 .. m)
  OBVIOUS
<1>3. IsFiniteSet(rest) /\ Cardinality(rest) <= m - k
  BY <1>1, <1>2, FS_Subset
<1>4. Cardinality(rest) \in Nat
  BY <1>3, FS_CardinalityType
<1>5. GapsIn(text, m) = GapsIn(text, k) \cup rest
  BY DEF GapsIn
<1>6. GapsIn(text, k) \cap rest = {}
  BY DEF GapsIn
<1>7. IsFiniteSet(GapsIn(text, k))
  BY GapsBound
<1>8. Cardinality(GapsIn(text, m)) = Cardinality(GapsIn(text, k)) + Cardinality(rest)
  <2>1. Cardinality(GapsIn(text, k) \cup rest) =
          Cardinality(GapsIn(text, k)) + Cardinality(rest)
            - Cardinality(GapsIn(text, k) \cap rest)
    BY <1>3, <1>7, FS_Union
  <2>2. Cardinality(GapsIn(text, k) \cap rest) = 0
    BY <1>6, FS_EmptySet
  <2>3. Cardinality(GapsIn(text, k)) \in Nat
    BY <1>7, FS_CardinalityType
  <2> HIDE DEF rest
  <2> QED
    BY <1>4, <1>5, <2>1, <2>2, <2>3
<1>9. Gaps(text, m) = Gaps(text, k) + Cardinality(rest)
  BY <1>8 DEF Gaps, GapsIn
<1>10. Gaps(text, k) \in Nat /\ Gaps(text, m) \in Nat
  BY GapsBound
<1> HIDE DEF rest
<1> QED
  BY <1>3, <1>4, <1>9, <1>10

LEMMA GapRange ==
  ASSUME NEW text, NEW k, IsGap(text, k), Len(text) \in Nat
  PROVE  /\ k \in 2 .. Len(text) - 1
         /\ k \in 1 .. Len(text)
         /\ k \in 0 .. Len(text) - 1
         /\ k \in 0 .. Len(text)
<1>1. k \in 2 .. Len(text) - 1
  BY DEF IsGap
<1> QED
  BY <1>1

(* The loop's test, of the input, is that the character before is a gap.   *)
LEMMA ClosesAtGap ==
  ASSUME NEW text \in Text, NEW offset \in 0 .. Len(text)
  PROVE  ClosesAgain(text, offset) <=> IsGap(text, offset)
<1>1. NUL # ">"
  BY CharAssumption
<1>2. Len(text) \in Nat
  BY DEF Text
<1>3. CASE offset = Len(text)
  <2>1. At(text, offset) # ">"
    BY <1>1, <1>3 DEF At
  <2>2. ~ClosesAgain(text, offset)
    BY <2>1 DEF ClosesAgain
  <2>3. ~IsGap(text, offset)
    <3>1. offset \notin 2 .. Len(text) - 1
      BY <1>2, <1>3
    <3> QED
      BY <3>1 DEF IsGap
  <2> QED
    BY <2>2, <2>3
<1>4. CASE offset # Len(text) /\ offset >= 2
  <2>1. /\ At(text, offset) = text[offset + 1]
        /\ At(text, offset - 1) = text[offset]
        /\ At(text, offset - 2) = text[offset - 1]
    BY <1>2, <1>4 DEF At
  <2>2. offset \in 2 .. Len(text) - 1
    BY <1>2, <1>4
  <2> QED
    BY <1>4, <2>1, <2>2 DEF ClosesAgain, IsGap
<1>5. CASE ~(offset >= 2)
  <2>1. offset \notin 2 .. Len(text) - 1
    BY <1>2, <1>5
  <2> QED
    BY <1>5, <2>1 DEF ClosesAgain, IsGap
<1> QED
  BY <1>3, <1>4, <1>5

LEMMA GapFound ==
  ASSUME NEW text \in Text
  PROVE  HasGap(text) <=> \E k \in 1 .. Len(text) : IsGap(text, k)
<1>1. Len(text) \in Nat
  BY DEF Text
<1>2. ASSUME NEW offset \in 0 .. Len(text) - 1, ClosesAgain(text, offset)
      PROVE  \E k \in 1 .. Len(text) : IsGap(text, k)
  <2>1. offset \in 0 .. Len(text)
    BY <1>1
  <2>2. IsGap(text, offset)
    BY <1>2, <2>1, ClosesAtGap
  <2>3. offset \in 1 .. Len(text)
    BY <1>1, <2>2, GapRange
  <2> QED
    BY <2>2, <2>3
<1>3. ASSUME NEW k \in 1 .. Len(text), IsGap(text, k)
      PROVE  k \in 0 .. Len(text) - 1 /\ ClosesAgain(text, k)
  <2>1. k \in 0 .. Len(text) - 1 /\ k \in 0 .. Len(text)
    BY <1>1, <1>3, GapRange
  <2> QED
    BY <1>3, <2>1, ClosesAtGap
<1> QED
  BY <1>2, <1>3 DEF HasGap

(* A text without gaps stays as it is. *)
LEMMA NothingToRewrite ==
  ASSUME NEW text \in Text, ~HasGap(text)
  PROVE  Rewrites(text, text)
<1>1. Len(text) \in Nat /\ DOMAIN text = 1 .. Len(text)
  BY DEF Text
<1>2. \A k \in 1 .. Len(text) : ~IsGap(text, k)
  BY GapFound
<1>3. ASSUME NEW k \in 0 .. Len(text)
      PROVE  Gaps(text, k) = 0
  <2>1. GapsIn(text, k) = {}
    BY <1>1, <1>2 DEF GapsIn
  <2> QED
    BY <2>1, FS_EmptySet DEF Gaps, GapsIn
<1>4. Gaps(text, Len(text)) = 0 /\ \A k \in 1 .. Len(text) : Gaps(text, k) = 0
  BY <1>1, <1>3
<1> QED
  BY <1>1, <1>4 DEF Rewrites

------------------------------------------------------------------------------
(* The loop. *)

(* The output is behind the input by the gaps known so far, that is by     *)
(* those in front of the last character copied.                            *)
Behind == p_out = pos - Gaps(str_in, IF pos = 0 THEN 0 ELSE pos - 1)

(* What is in the buffer up to p_out: characters, and the NUL once all are *)
(* copied; each character that stays is where Rewrites wants it.           *)
Filled ==
  /\ \A offset \in 0 .. p_out - 1 :
       /\ offset \in DOMAIN str_out
       /\ offset < p_out - 1 \/ pos <= Len(str_in) => str_out[offset] \in Char
  /\ pos > Len(str_in) => p_out >= 1 /\ str_out[p_out - 1] = NUL
Moved ==
  \A k \in 1 .. Len(str_in) :
    k <= pos /\ ~IsGap(str_in, k) => str_out[k - Gaps(str_in, k) - 1] = str_in[k]

Copying ==
  /\ HasGap(str_in)
  /\ Behind
  /\ Filled
  /\ Moved

DemangleInv ==
  /\ DemangleTypeOK
  /\ job # "overrun"
  /\ job = "copying" => Copying
  /\ job = "done" => demangled \in Text

(* Where the next character goes is determined by the gaps up to it.       *)
LEMMA TargetIs ==
  ASSUME DemangleTypeOK, Copying, pos <= Len(str_in)
  PROVE  /\ Target = pos - Gaps(str_in, pos)
         /\ Target \in 0 .. Len(str_in) - 1
         /\ Target <= p_out /\ Target >= p_out - 1
<1> DEFINE L == Len(str_in)
<1>1. L \in Nat /\ pos \in 0 .. L /\ p_out \in Nat
  BY DEF DemangleTypeOK, Text
<1>2. ClosesAgain(str_in, pos) <=> IsGap(str_in, pos)
  BY <1>1, ClosesAtGap DEF DemangleTypeOK
<1>3. Gaps(str_in, pos) \in Nat /\ Gaps(str_in, pos) <= pos
  BY <1>1, GapsBound
<1>4. Target = pos - Gaps(str_in, pos) /\ Target <= p_out /\ Target >= p_out - 1
  <2>1. CASE pos = 0
    <3>1. ~IsGap(str_in, pos)
      <4>1. pos \notin 2 .. Len(str_in) - 1
        BY <1>1, <2>1
      <4> QED
        BY <4>1 DEF IsGap
    <3>2. Target = p_out
      BY <1>2, <3>1 DEF Target
    <3>3. p_out = pos - Gaps(str_in, pos)
      BY <2>1 DEF Copying, Behind
    <3> QED
      BY <1>1, <3>2, <3>3
  <2>2. CASE pos # 0
    <3>1. pos \in Nat \ {0} /\ pos - 1 \in Nat
      BY <1>1, <2>2
    <3>2. Gaps(str_in, pos) =
            IF IsGap(str_in, pos) THEN Gaps(str_in, pos - 1) + 1 ELSE Gaps(str_in, pos - 1)
      BY <3>1, GapsStep
    <3>3. Gaps(str_in, pos - 1) \in Nat
      BY <3>1, GapsBound
    <3>4. p_out = pos - Gaps(str_in, pos - 1)
      BY <2>2 DEF Copying, Behind
    <3>5. Target = IF IsGap(str_in, pos) THEN p_out - 1 ELSE p_out
      BY <1>2 DEF Target
    <3>6. CASE IsGap(str_in, pos)
      BY <1>1, <3>1, <3>2, <3>3, <3>4, <3>5, <3>6
    <3>7. CASE ~IsGap(str_in, pos)
      BY <1>1, <3>1, <3>2, <3>3, <3>4, <3>5, <3>7
    <3> QED
      BY <3>6, <3>7
  <2> QED
    BY <2>1, <2>2
<1>5. Target >= 0
  BY <1>1, <1>3, <1>4
<1>6. Target <= L - 1
  <2>1. CASE pos < L
    BY <1>1, <1>3, <1>4, <2>1
  <2>2. CASE pos = L
    <3>1. PICK k \in 1 .. L : IsGap(str_in, k)
      BY GapFound DEF Copying, DemangleTypeOK
    <3>2. Gaps(str_in, k) >= 1
      <4>1. k \in Nat \ {0} /\ k - 1 \in Nat
        BY <1>1
      <4>2. Gaps(str_in, k) = Gaps(str_in, k - 1) + 1
        BY <3>1, <4>1, GapsStep
      <4>3. Gaps(str_in, k - 1) \in Nat
        BY <4>1, GapsBound
      <4> QED
        BY <4>2, <4>3
    <3>3. Gaps(str_in, k) <= Gaps(str_in, L)
      BY <1>1, GapsMonotone
    <3>4. Gaps(str_in, k) \in Nat /\ Gaps(str_in, L) \in Nat
      BY <1>1, GapsBound
    <3> HIDE DEF L
    <3> QED
      BY <1>1, <1>4, <2>2, <3>2, <3>3, <3>4
  <2> QED
    BY <1>1, <2>1, <2>2
<1>7. Target \in Int
  BY <1>1, <1>3, <1>4
<1> QED
  BY <1>1, <1>4, <1>5, <1>6, <1>7

(* A character copied: p_out stays right, nothing in place is overwritten. *)
LEMMA CopyStep ==
  ASSUME DemangleInv, CopyChar
  PROVE  /\ DemangleInv'
         /\ job' = "copying" /\ str_in' = str_in
<1> DEFINE L == Len(str_in)
           t == Target
<1>1. /\ job = "copying" /\ pos <= L /\ Copying /\ DemangleTypeOK
      /\ UNCHANGED <<demangled, str_in>>
  BY DEF CopyChar, DemangleInv, LastCopied
<1>2. L \in Nat /\ pos \in 0 .. L /\ p_out \in Nat /\ DOMAIN str_out = 0 .. L - 1
  BY <1>1 DEF DemangleTypeOK, Text
<1>3. t = pos - Gaps(str_in, pos) /\ t \in 0 .. L - 1 /\ t <= p_out /\ t >= p_out - 1
  BY <1>1, TargetIs
<1>4. /\ str_out' = [str_out EXCEPT ![t] = At(str_in, pos)]
      /\ p_out' = t + 1 /\ pos' = pos + 1 /\ job' = job
  BY <1>2, <1>3 DEF CopyChar
<1>5. At(str_in, pos) = IF pos = L THEN NUL ELSE str_in[pos + 1]
  BY DEF At
<1>6. pos # L => At(str_in, pos) \in Char
  <2>1. str_in \in Seq(Char)
    BY <1>1 DEF DemangleTypeOK, Text
  <2> QED
    BY <1>2, <1>5, <2>1
<1>7. DOMAIN str_out' = DOMAIN str_out
  BY <1>4
<1>8. \A offset \in DOMAIN str_out :
        str_out'[offset] = IF offset = t THEN At(str_in, pos) ELSE str_out[offset]
  BY <1>2, <1>3, <1>4
<1> HIDE DEF t
<1>9. DemangleTypeOK'
  <2>1. \A offset \in DOMAIN str_out' : str_out'[offset] \in Char \cup {NUL, Junk}
    BY <1>1, <1>5, <1>6, <1>7, <1>8 DEF DemangleTypeOK
  <2>2. p_out' \in Nat /\ pos' \in 0 .. L + 1
    BY <1>2, <1>3, <1>4
  <2> QED
    BY <1>1, <1>2, <1>4, <1>7, <2>1, <2>2 DEF DemangleTypeOK
<1>10. Behind'
  <2>1. pos' # 0 /\ pos' - 1 = pos
    BY <1>2, <1>4
  <2>2. Gaps(str_in, pos) \in Nat
    BY <1>2, GapsBound
  <2>3. p_out' = pos' - Gaps(str_in, pos)
    BY <1>2, <1>3, <1>4, <2>2
  <2> QED
    BY <1>1, <2>1, <2>3 DEF Behind, Gaps, IsGap
<1>11. Filled'
  <2>1. ASSUME NEW offset \in 0 .. t
        PROVE  /\ offset \in DOMAIN str_out'
               /\ offset < t \/ pos + 1 <= L => str_out'[offset] \in Char
    <3>1. offset \in DOMAIN str_out
      BY <1>2, <1>3
    <3>2. CASE offset = t
      BY <1>2, <1>6, <1>7, <1>8, <3>1, <3>2
    <3>3. CASE offset # t
      <4>1. offset \in 0 .. p_out - 1
        BY <1>2, <1>3, <3>3
      <4>2. str_out[offset] \in Char
        BY <1>1, <1>2, <4>1 DEF Copying, Filled
      <4> QED
        BY <1>7, <1>8, <3>1, <3>3, <4>2
    <3> QED
      BY <3>2, <3>3
  <2>2. pos + 1 > L => t + 1 >= 1 /\ str_out'[t] = NUL
    BY <1>2, <1>3, <1>5, <1>8
  <2>3. t + 1 - 1 = t /\ p_out' - 1 = t
    BY <1>3, <1>4
  <2> QED
    BY <1>1, <1>4, <2>1, <2>2, <2>3 DEF Filled
<1>12. Moved'
  <2> SUFFICES ASSUME NEW k \in 1 .. L, k <= pos + 1, ~IsGap(str_in, k)
               PROVE  str_out'[k - Gaps(str_in, k) - 1] = str_in[k]
    BY <1>1, <1>4 DEF Moved, Gaps, IsGap
  <2>1. k \in Nat \ {0} /\ k - 1 \in Nat
    BY <1>2
  <2>2. Gaps(str_in, k) = Gaps(str_in, k - 1)
    BY <2>1, GapsStep
  <2>3. Gaps(str_in, k - 1) \in Nat /\ Gaps(str_in, k - 1) <= k - 1
    BY <2>1, GapsBound
  <2>4. CASE k = pos + 1
    <3>1. k - 1 = pos /\ pos # L
      BY <1>2, <2>4
    <3>2. k - Gaps(str_in, k) - 1 = t
      BY <1>2, <1>3, <2>2, <2>3, <2>4, <3>1
    <3> QED
      BY <1>2, <1>3, <1>5, <1>8, <2>4, <3>1, <3>2
  <2>5. CASE k <= pos
    <3>1. str_out[k - Gaps(str_in, k) - 1] = str_in[k]
      BY <1>1, <2>5 DEF Copying, Moved
    <3>2. k - Gaps(str_in, k) <= pos - Gaps(str_in, pos)
      BY <1>2, <2>1, <2>5, GapsMonotone
    <3>3. k - Gaps(str_in, k) - 1 \in DOMAIN str_out /\ k - Gaps(str_in, k) - 1 # t
      BY <1>2, <1>3, <2>1, <2>2, <2>3, <3>2
    <3> QED
      BY <1>8, <3>1, <3>3
  <2> QED
    BY <1>2, <2>4, <2>5
<1>13. HasGap(str_in)'
  <2>1. HasGap(str_in) /\ str_in' = str_in
    BY <1>1 DEF Copying
  <2> QED
    BY <2>1 DEF HasGap, ClosesAgain, At
<1> QED
  BY <1>1, <1>4, <1>9, <1>10, <1>11, <1>12, <1>13 DEF DemangleInv, Copying

(* All copied: the NUL is in the buffer, and the text in front of the      *)
(* first one is the rewriting.                                             *)
LEMMA EndCopyStep ==
  ASSUME DemangleInv, EndCopy
  PROVE  /\ DemangleInv'
         /\ job' = "done"
         /\ Rewrites(str_in, demangled')
<1> DEFINE L == Len(str_in)
           q == p_out - 1
<1>1. /\ job = "copying" /\ pos > L /\ Copying /\ DemangleTypeOK
      /\ UNCHANGED <<str_in, str_out, p_out, pos>>
      /\ job' = "done" /\ demangled' = CString(str_out)
  BY DEF EndCopy, DemangleInv, LastCopied
<1>2. L \in Nat /\ pos = L + 1 /\ p_out \in Nat
  BY <1>1 DEF DemangleTypeOK, Text
<1>3. Gaps(str_in, L) \in Nat
  BY <1>2, GapsBound
<1>4. q = L - Gaps(str_in, L) /\ q \in Nat
  <2>1. p_out = pos - Gaps(str_in, pos - 1)
    BY <1>1, <1>2 DEF Copying, Behind
  <2>2. p_out >= 1
    BY <1>1 DEF Copying, Filled
  <2> QED
    BY <1>2, <1>3, <2>1, <2>2
<1>5. /\ \A offset \in 0 .. q - 1 : offset \in DOMAIN str_out /\ str_out[offset] \in Char
      /\ q \in DOMAIN str_out /\ str_out[q] = NUL
  <2>1. \A offset \in 0 .. q - 1 : offset \in 0 .. p_out - 1 /\ offset < p_out - 1
    BY <1>2, <1>4
  <2>2. q \in 0 .. p_out - 1
    BY <1>2, <1>4
  <2> HIDE DEF q
  <2>3. str_out[q] = NUL
    BY <1>1 DEF Copying, Filled, q
  <2> QED
    BY <1>1, <2>1, <2>2, <2>3 DEF Copying, Filled
<1>6. DOMAIN str_out \subseteq Nat
  BY <1>1, <1>2 DEF DemangleTypeOK
<1> HIDE DEF q
<1>7. CString(str_out) = [k \in 1 .. q |-> str_out[k - 1]]
  <2> DEFINE ends == {offset \in DOMAIN str_out : str_out[offset] = NUL}
             Ends(offset) == offset \in ends /\ \A other \in ends : offset <= other
  <2>1. q \in ends
    BY <1>5
  <2>2. ASSUME NEW other \in ends
        PROVE  q <= other
    <3>1. other \notin 0 .. q - 1
      BY <1>5, CharAssumption
    <3>2. other \in Nat
      BY <1>6
    <3> HIDE DEF ends
    <3> QED
      BY <1>4, <3>1, <3>2
  <2>3. \A offset \in ends : Ends(offset) => offset = q
    <3>1. \A offset \in ends : offset \in Nat
      BY <1>6
    <3> QED
      BY <1>4, <2>1, <2>2, <3>1
  <2>4. (CHOOSE offset \in ends : Ends(offset)) = q
    <3>1. Ends(q)
      BY <2>1, <2>2
    <3> HIDE DEF Ends, ends
    <3> QED
      BY <2>1, <2>3, <3>1
  <2>5. ends # {}
    BY <2>1
  <2> QED
    BY <2>4, <2>5 DEF CString
<1>8. CString(str_out) \in Text
  <2>1. \A k \in 1 .. q : str_out[k - 1] \in Char
    BY <1>4, <1>5
  <2> QED
    BY <1>4, <1>7, <2>1 DEF Text
<1>9. Rewrites(str_in, CString(str_out))
  <2>1. ASSUME NEW k \in 1 .. L, ~IsGap(str_in, k)
        PROVE  CString(str_out)[k - Gaps(str_in, k)] = str_in[k]
    <3>1. k \in Nat \ {0} /\ k - 1 \in Nat /\ k <= pos
      BY <1>2
    <3>2. Gaps(str_in, k) = Gaps(str_in, k - 1)
      BY <2>1, <3>1, GapsStep
    <3>3. Gaps(str_in, k - 1) \in Nat /\ Gaps(str_in, k - 1) <= k - 1
      BY <3>1, GapsBound
    <3>4. k - Gaps(str_in, k) <= q
      BY <1>2, <1>4, <3>1, GapsMonotone
    <3>5. k - Gaps(str_in, k) \in 1 .. q
      BY <1>4, <3>1, <3>2, <3>3, <3>4
    <3>6. str_out[k - Gaps(str_in, k) - 1] = str_in[k]
      BY <1>1, <2>1, <3>1 DEF Copying, Moved
    <3> QED
      BY <1>7, <3>5, <3>6
  <2>2. DOMAIN CString(str_out) = 1 .. L - Gaps(str_in, L)
    BY <1>4, <1>7
  <2> QED
    BY <2>1, <2>2 DEF Rewrites
<1>10. DemangleTypeOK'
  BY <1>1, <1>2 DEF DemangleTypeOK, Text
<1> QED
  BY <1>1, <1>8, <1>9, <1>10 DEF DemangleInv

------------------------------------------------------------------------------
(* The call. *)

LEMMA DemangleInitInv ==
  ASSUME DemangleInit
  PROVE  DemangleInv
<1>1. Len(str_in) = 0 /\ str_in \in Text /\ DOMAIN str_out = {}
  BY DEF DemangleInit, Text
<1>2. DOMAIN str_out = 0 .. Len(str_in) - 1
  BY <1>1
<1> QED
  BY <1>1, <1>2 DEF DemangleInit, DemangleInv, DemangleTypeOK

(* What a call has to answer about a string. *)
Answers(mangled, text) ==
  IF CplusDemangle[mangled] = None
  THEN text = mangled
  ELSE Rewrites(CplusDemangle[mangled], text)

LEMMA TryDemangleStep ==
  ASSUME DemangleInv, NEW mangled \in Mangled, TryDemangle(mangled)
  PROVE  /\ DemangleInv'
         /\ job' \in {"copying", "done"}
         /\ job' = "done" => Answers(mangled, demangled')
         /\ job' = "copying" => CplusDemangle[mangled] # None /\ str_in' = CplusDemangle[mangled]
<1> DEFINE text == CplusDemangle[mangled]
<1>1. text \in Text \cup {None} /\ mangled \in Text
  BY CplusDemangleAssumption, MangledAssumption
<1>2. CASE text = None
  <2>1. demangled' = mangled /\ job' = "done" /\ UNCHANGED <<str_in, str_out, p_out, pos>>
    BY <1>2 DEF TryDemangle
  <2>2. DemangleTypeOK'
    BY <2>1 DEF DemangleInv, DemangleTypeOK
  <2> QED
    BY <1>1, <1>2, <2>1, <2>2 DEF DemangleInv, Answers
<1>3. CASE text # None /\ ~HasGap(text)
  <2>1. demangled' = text /\ job' = "done" /\ UNCHANGED <<str_in, str_out, p_out, pos>>
    BY <1>3 DEF TryDemangle
  <2>2. DemangleTypeOK'
    BY <2>1 DEF DemangleInv, DemangleTypeOK
  <2>3. Rewrites(text, text)
    BY <1>1, <1>3, NothingToRewrite
  <2> QED
    BY <1>1, <1>3, <2>1, <2>2, <2>3 DEF DemangleInv, Answers
<1>4. CASE text # None /\ HasGap(text)
  <2>1. /\ str_in' = text /\ p_out' = 0 /\ pos' = 0 /\ job' = "copying"
        /\ str_out' = [offset \in 0 .. Len(text) - 1 |-> Junk]
    BY <1>4 DEF TryDemangle
  <2>2. text \in Text /\ Len(text) \in Nat
    BY <1>1, <1>4 DEF Text
  <2>3. DemangleTypeOK'
    BY <2>1, <2>2 DEF DemangleTypeOK
  <2>4. HasGap(str_in)'
    BY <1>4, <2>1 DEF HasGap, ClosesAgain, At
  <2>5. Behind'
    <3>1. Gaps(text, 0) \in Nat /\ Gaps(text, 0) <= 0
      BY GapsBound
    <3>2. p_out' = pos' - Gaps(text, 0)
      BY <2>1, <3>1
    <3> QED
      BY <2>1, <3>2 DEF Behind, Gaps, IsGap
  <2>6. Filled'
    BY <2>1, <2>2 DEF Filled
  <2>7. Moved'
    BY <2>1, <2>2 DEF Moved
  <2> QED
    BY <1>4, <2>1, <2>3, <2>4, <2>5, <2>6, <2>7 DEF DemangleInv, Copying
<1> QED
  BY <1>2, <1>3, <1>4 DEF TryDemangle

LEMMA DemangleStutter ==
  ASSUME DemangleInv, UNCHANGED demVars
  PROVE  DemangleInv'
BY DEF DemangleInv, DemangleTypeOK, Copying, Behind, Filled, Moved, Gaps, IsGap, HasGap,
       ClosesAgain, At, demVars

(* The invariant is enough for the property. *)
LEMMA InvWritesInBuffer ==
  ASSUME DemangleInv
  PROVE  WritesInBuffer
<1>1. SUFFICES ASSUME job = "copying", pos > Len(str_in)
               PROVE  \E offset \in DOMAIN str_out : str_out[offset] = NUL
  BY DEF WritesInBuffer, DemangleInv, LastCopied
<1>2. Filled /\ p_out \in Nat /\ p_out >= 1
  BY <1>1 DEF DemangleInv, DemangleTypeOK, Copying, Filled
<1>3. p_out - 1 \in 0 .. p_out - 1
  BY <1>2
<1> QED
  BY <1>1, <1>2, <1>3 DEF Filled
==============================================================================
