----------------------- MODULE SystemCommanding_proofs -----------------------
(***************************************************************************)
(* Theorems about SystemCommanding, for a ring, a line and commands of any *)
(* size: the line, its length and its cursor agree, the prompt shows them, *)
(* what is executed is the line on display, and the ring buffer implements *)
(* the history of CommandHistory.                                          *)
(***************************************************************************)
EXTENDS SystemCommanding, SequenceTheorems, WellFoundedInduction, TLAPS

USE DEF lineVars, ringVars, outVars, unchangedLine

-----------------------------------------------------------------------------
(***************************************************************************)
(* Numbers and sequences.                                                  *)
(***************************************************************************)
LEMMA HasMin ==
  ASSUME NEW S \in SUBSET Nat, S # {}
  PROVE  \E x \in S : \A y \in S : x <= y
<1>1. \E x \in S : \A y \in S : <<y, x>> \notin OpToRel(<, Nat)
  BY NatLessThanWellFounded, WFMin
<1>2. PICK x \in S : \A y \in S : <<y, x>> \notin OpToRel(<, Nat)
  BY <1>1
<1>3. \A y \in S : ~(y < x)
  BY <1>2 DEF OpToRel
<1>4. QED BY <1>3

LEMMA HasMax ==
  ASSUME NEW n \in Nat, NEW S \in SUBSET (0 .. n), S # {}
  PROVE  \E x \in S : \A y \in S : x >= y
<1> DEFINE T == {n - x : x \in S}
<1>1. T \in SUBSET Nat /\ T # {}
  <2>1. \A x \in S : n - x \in Nat
    OBVIOUS
  <2>2. QED BY <2>1
<1>2. PICK t \in T : \A u \in T : t <= u
  BY <1>1, HasMin
<1>3. PICK x \in S : t = n - x
  BY <1>2
<1>4. \A y \in S : n - y \in T
  OBVIOUS
<1>5. \A y \in S : n - x <= n - y
  BY <1>2, <1>3, <1>4
<1>6. QED BY <1>5

LEMMA MaxIs ==
  ASSUME NEW n \in Nat, NEW S \in SUBSET (0 .. n), S # {}
  PROVE  Max(S) \in S /\ \A y \in S : Max(S) >= y
BY HasMax DEF Max

LEMMA MinIs ==
  ASSUME NEW S \in SUBSET Nat, S # {}
  PROVE  Min(S) \in S /\ \A y \in S : Min(S) <= y
BY HasMin DEF Min

LEMMA SubSeqLength ==
  ASSUME NEW S, NEW s \in Seq(S), NEW a \in 1 .. Len(s) + 1, NEW b \in 0 .. Len(s)
  PROVE  /\ SubSeq(s, a, b) \in Seq(S)
         /\ Len(SubSeq(s, a, b)) = IF a <= b THEN b - a + 1 ELSE 0
<1>1. Len(s) \in Nat /\ \A i \in a .. b : s[i] \in S
  BY LenProperties
<1>2. QED BY <1>1, SubSeqProperties

LEMMA RemoveAtLength ==
  ASSUME NEW S, NEW s \in Seq(S), NEW i \in 1 .. Len(s)
  PROVE  RemoveAt(s, i) \in Seq(S) /\ Len(RemoveAt(s, i)) = Len(s) - 1
<1> DEFINE A == SubSeq(s, 1, i - 1)
           B == SubSeq(s, i + 1, Len(s))
<1>1. Len(s) \in Nat
  BY LenProperties
<1>2. A \in Seq(S) /\ Len(A) = i - 1
  BY <1>1, SubSeqLength
<1>3. B \in Seq(S) /\ Len(B) = Len(s) - i
  BY <1>1, SubSeqLength
<1>4. RemoveAt(s, i) = A \o B
  BY DEF RemoveAt
<1> HIDE DEF A, B
<1>5. A \o B \in Seq(S) /\ Len(A \o B) = Len(A) + Len(B)
  BY <1>2, <1>3, ConcatProperties
<1>6. Len(A) + Len(B) = Len(s) - 1
  BY <1>1, <1>2, <1>3
<1>7. QED BY <1>4, <1>5, <1>6

LEMMA InsertAtLength ==
  ASSUME NEW S, NEW s \in Seq(S), NEW i \in 1 .. Len(s) + 1, NEW e \in S
  PROVE  InsertAt(s, i, e) \in Seq(S) /\ Len(InsertAt(s, i, e)) = Len(s) + 1
<1>1. Len(s) \in Nat
  BY LenProperties
<1>2. SubSeq(s, 1, i - 1) \in Seq(S) /\ Len(SubSeq(s, 1, i - 1)) = i - 1
  BY <1>1, SubSeqLength
<1>3. /\ SubSeq(s, i, Len(s)) \in Seq(S)
      /\ Len(SubSeq(s, i, Len(s))) = Len(s) - i + 1
  BY <1>1, SubSeqLength
<1>4. <<e>> \in Seq(S) /\ Len(<<e>>) = 1
  OBVIOUS
<1>5. /\ SubSeq(s, 1, i - 1) \o <<e>> \in Seq(S)
      /\ Len(SubSeq(s, 1, i - 1) \o <<e>>) = i
  BY <1>2, <1>4, ConcatProperties
<1>6. /\ InsertAt(s, i, e) \in Seq(S)
      /\ Len(InsertAt(s, i, e))
           = Len(SubSeq(s, 1, i - 1) \o <<e>>) + Len(SubSeq(s, i, Len(s)))
  BY <1>3, <1>5, ConcatProperties DEF InsertAt
<1>7. QED BY <1>1, <1>3, <1>5, <1>6

\* A word is put into a line.
LEMMA SpliceLength ==
  ASSUME NEW S, NEW s \in Seq(S), NEW w \in Seq(S),
         NEW c \in 0 .. Len(s), NEW n \in 0 .. Len(w)
  PROVE  LET r == SubSeq(s, 1, c) \o SubSeq(w, 1, n) \o SubSeq(s, c + 1, Len(s))
         IN  r \in Seq(S) /\ Len(r) = Len(s) + n
<1> DEFINE A == SubSeq(s, 1, c)
           B == SubSeq(w, 1, n)
           C == SubSeq(s, c + 1, Len(s))
<1>1. Len(s) \in Nat /\ Len(w) \in Nat
  BY LenProperties
<1>2. A \in Seq(S) /\ Len(A) = c
  BY <1>1, SubSeqLength
<1>3. B \in Seq(S) /\ Len(B) = n
  BY <1>1, SubSeqLength
<1>4. C \in Seq(S) /\ Len(C) = Len(s) - c
  BY <1>1, SubSeqLength
<1> SUFFICES (A \o B) \o C \in Seq(S) /\ Len((A \o B) \o C) = Len(s) + n
  OBVIOUS
<1> HIDE DEF A, B, C
<1>6. A \o B \in Seq(S) /\ Len(A \o B) = Len(A) + Len(B)
  BY <1>2, <1>3, ConcatProperties
<1>7. (A \o B) \o C \in Seq(S) /\ Len((A \o B) \o C) = Len(A \o B) + Len(C)
  BY <1>4, <1>6, ConcatProperties
<1>8. Len(A \o B) + Len(C) = Len(s) + n
  BY <1>1, <1>2, <1>3, <1>4, <1>6
<1>9. QED BY <1>7, <1>8

\* The longest common prefix is one of the prefixes of each word.
LEMMA CommonPrefixExists ==
  ASSUME NEW S, NEW W \in SUBSET Seq(S), W # {}
  PROVE  LongestCommonPrefix(W) \in Seq(S)
<1>1. PICK w \in W : TRUE
  OBVIOUS
<1>2. Len(w) \in Nat /\ w \in Seq(S)
  BY LenProperties
<1>3. \A v \in W : SubSeq(v, 1, 0) = << >> /\ Len(v) \in Nat /\ v \in Seq(S)
  BY SubSeqEmpty, LenProperties
<1>4. << >> \in CommonPrefixes(W)
  <2>1. << >> \in Prefixes(w)
    BY <1>2, <1>3 DEF Prefixes
  <2>2. \A v \in W : IsPrefix(<< >>, v)
    BY <1>3, EmptySeq, SubSeqEmpty DEF IsPrefix
  <2>3. QED BY <2>1, <2>2 DEF CommonPrefixes
<1>5. \A x \in CommonPrefixes(W) : x \in Seq(S) /\ Len(x) \in 0 .. Len(w)
  <2>1. SUFFICES ASSUME NEW x \in CommonPrefixes(W)
                 PROVE  x \in Seq(S) /\ Len(x) \in 0 .. Len(w)
    OBVIOUS
  <2>2. PICK v \in W : x \in Prefixes(v)
    BY DEF CommonPrefixes
  <2>3. PICK l \in 0 .. Len(v) : x = SubSeq(v, 1, l)
    BY <2>2 DEF Prefixes
  <2>4. x \in Seq(S)
    BY <1>3, <2>3, SubSeqLength
  <2>5. IsPrefix(x, w)
    BY DEF CommonPrefixes
  <2>6. QED BY <1>2, <2>4, <2>5, LenProperties DEF IsPrefix
<1> DEFINE Lengths == {Len(x) : x \in CommonPrefixes(W)}
<1>6. Lengths \in SUBSET (0 .. Len(w)) /\ Lengths # {}
  BY <1>4, <1>5
<1>7. PICK m \in Lengths : \A y \in Lengths : m >= y
  BY <1>2, <1>6, HasMax
<1>8. PICK x \in CommonPrefixes(W) : m = Len(x)
  BY <1>7
<1>9. \A y \in CommonPrefixes(W) : Len(y) <= Len(x)
  <2>1. \A y \in CommonPrefixes(W) : Len(y) \in Lengths
    OBVIOUS
  <2>2. QED BY <1>5, <1>7, <1>8, <2>1
<1>10. LongestCommonPrefix(W) \in CommonPrefixes(W)
  BY <1>9 DEF LongestCommonPrefix
<1>11. QED BY <1>5, <1>10

LEMMA CompletionType ==
  ASSUME cursor \in Nat
  PROVE  Completion \in Seq(Chars) /\ Len(Completion) \in Nat
<1>1. \A x \in Seq(AlphaNum) : x \in Seq(Chars)
  BY SeqMonotonic DEF Chars
<1>2. << >> \in Seq(Chars) /\ <<" ">> \in Seq(Chars)
  <2>1. " " \in Chars
    BY CommandingAssumption, Zenon DEF Chars
  <2>2. \A x \in Chars : <<x>> \in Seq(Chars)
    OBVIOUS
  <2>3. QED BY <2>1, <2>2, EmptySeq, Zenon
<1>3. CASE Candidates = {}
  BY <1>2, <1>3, EmptySeq DEF Completion
<1>4. CASE Candidates # {}
  <2> DEFINE L == LongestCommonPrefix(Candidates)
             R == SubSeq(L, cursor + 1, Len(L))
  <2>1. Candidates \in SUBSET Seq(Chars)
    <3>1. \A id \in Commands : id \in Seq(AlphaNum)
      BY CommandingAssumption, Zenon
    <3>2. QED BY <1>1, <3>1 DEF Candidates
  <2>2. L \in Seq(Chars)
    BY <1>4, <2>1, CommonPrefixExists
  <2>3. Len(L) \in Nat /\ \A i \in cursor + 1 .. Len(L) : L[i] \in Chars
    BY <2>2, LenProperties
  <2>4. R \in Seq(Chars)
    BY <2>3, SubSeqProperties
  <2>5. Completion = R \o (IF Cardinality(Candidates) = 1 THEN <<" ">> ELSE << >>)
    BY <1>4 DEF Completion
  <2>6. Completion \in Seq(Chars)
    <3>1. R \o <<" ">> \in Seq(Chars) /\ R \o << >> \in Seq(Chars)
      BY <1>2, <2>4, ConcatProperties
    <3>2. QED BY <2>5, <3>1
  <2>7. QED BY <2>6, LenProperties
<1>5. QED BY <1>3, <1>4

-----------------------------------------------------------------------------
(***************************************************************************)
(* The line: what each key leaves.                                         *)
(***************************************************************************)

\* The lines, the ring and the columns have their types ...
LineTypes ==
  /\ buf \in [Indices -> Seq(Chars)]
  /\ idxEdit \in Indices /\ idxView \in Indices
  /\ idxLast \in Indices \cup {NumLines}
  /\ cursor \in 0 .. ColMax /\ lineEnd \in 0 .. ColMax

\* ... and the line, its length and its cursor agree.
Fits ==
  /\ lineEnd = Len(Line) /\ cursor <= lineEnd
  /\ \A i \in Indices : Len(buf[i]) <= ColMax

\* The edited line is changed, and nothing else in the ring.
OnlyLine ==
  /\ LineTypes' /\ Fits'
  /\ UNCHANGED <<idxEdit, idxLast>>
  /\ \A i \in Indices \ {idxEdit} : buf'[i] = buf[i]

LEMMA Sizes ==
  /\ NumLines \in Nat /\ NumLines >= 2
  /\ ColMax \in Nat \ {0} /\ ChunkMax \in Nat \ {0, 1}
BY CommandingAssumption, Zenon

LEMMA ModN ==
  ASSUME NEW N \in Nat \ {0}, NEW a \in 0 .. 2 * N - 1
  PROVE  a % N = IF a < N THEN a ELSE a - N
<1>1. CASE a < N
  BY <1>1
<1>2. CASE a >= N
  BY <1>2
<1>3. QED BY <1>1, <1>2

LEMMA RingStep ==
  ASSUME NEW i \in Indices
  PROVE  /\ (i + 1) % NumLines \in Indices
         /\ (i + 1) % NumLines = IF i = NumLines - 1 THEN 0 ELSE i + 1
         /\ (i + NumLines - 1) % NumLines \in Indices
         /\ (i + NumLines - 1) % NumLines = IF i = 0 THEN NumLines - 1 ELSE i - 1
<1>1. i \in Nat /\ i < NumLines /\ NumLines \in Nat \ {0} /\ NumLines >= 2
  BY Sizes DEF Indices
<1>2. \A a \in 0 .. 2 * NumLines - 1 :
        a % NumLines = IF a < NumLines THEN a ELSE a - NumLines
  BY <1>1, ModN
<1> DEFINE a == i + 1
           b == i + NumLines - 1
<1>8. /\ a \in 0 .. 2 * NumLines - 1 /\ a = i + 1
      /\ b \in 0 .. 2 * NumLines - 1 /\ b = i + NumLines - 1
  BY <1>1
<1>9. a % NumLines = (i + 1) % NumLines /\ b % NumLines = (i + NumLines - 1) % NumLines
  OBVIOUS
<1> HIDE DEF a, b
<1>3. a % NumLines = IF a < NumLines THEN a ELSE a - NumLines
  BY <1>2, <1>8
<1>4. b % NumLines = IF b < NumLines THEN b ELSE b - NumLines
  BY <1>2, <1>8
<1>5. /\ a % NumLines = (IF i = NumLines - 1 THEN 0 ELSE i + 1)
      /\ a % NumLines \in 0 .. NumLines - 1
  BY <1>1, <1>3, <1>8
<1>6. /\ b % NumLines = (IF i = 0 THEN NumLines - 1 ELSE i - 1)
      /\ b % NumLines \in 0 .. NumLines - 1
  BY <1>1, <1>4, <1>8
<1>7. QED BY <1>5, <1>6, <1>9 DEF Indices

\* Every line that fits may be written to the place of the edited one.
LEMMA LineWritten ==
  ASSUME LineTypes, Fits, NEW l \in Seq(Chars), NEW c \in 0 .. Len(l),
         Len(l) <= ColMax,
         buf' = [buf EXCEPT ![idxEdit] = l], cursor' = c, lineEnd' = Len(l),
         UNCHANGED <<idxEdit, idxLast>>, idxView' \in Indices
  PROVE  OnlyLine /\ buf'[idxEdit] = l
<1>1. Len(l) \in Nat /\ ColMax \in Nat
  BY LenProperties, Sizes
<1>2. /\ buf' \in [Indices -> Seq(Chars)] /\ buf'[idxEdit] = l
      /\ \A i \in Indices \ {idxEdit} : buf'[i] = buf[i]
  BY DEF LineTypes
<1>3. LineTypes'
  BY <1>1, <1>2 DEF LineTypes
<1>4. \A i \in Indices : Len(buf'[i]) <= ColMax
  BY <1>2 DEF Fits
<1>5. Fits'
  BY <1>1, <1>2, <1>4 DEF Fits, Line
<1>6. QED BY <1>2, <1>3, <1>5 DEF OnlyLine

LEMMA LineFacts ==
  ASSUME LineTypes, Fits
  PROVE  /\ Line \in Seq(Chars) /\ Len(Line) \in Nat /\ Len(Line) <= ColMax
         /\ lineEnd = Len(Line) /\ cursor \in 0 .. Len(Line)
         /\ cursor \in Nat /\ lineEnd \in Nat /\ ColMax \in Nat
<1>1. Line \in Seq(Chars)
  BY DEF LineTypes, Line
<1>2. Len(Line) \in Nat /\ ColMax \in Nat
  BY <1>1, LenProperties, Sizes
<1>3. QED BY <1>1, <1>2 DEF LineTypes, Fits, Line

LEMMA CursorMoved ==
  ASSUME LineTypes, Fits, NEW c \in 0 .. lineEnd, CursorBecomes(c)
  PROVE  OnlyLine /\ UNCHANGED idxView
<1>1. Len(Line) \in Nat /\ lineEnd = Len(Line) /\ ColMax \in Nat
      /\ Len(Line) <= ColMax
  BY LineFacts
<1>2. cursor' = c /\ UNCHANGED <<buf, lineEnd, idxEdit, idxView, idxLast>>
  BY DEF CursorBecomes
<1>3. LineTypes'
  BY <1>1, <1>2 DEF LineTypes
<1>4. Fits'
  BY <1>1, <1>2 DEF Fits, Line
<1>5. QED BY <1>2, <1>3, <1>4 DEF OnlyLine

LEMMA NavigatesEffect ==
  ASSUME LineTypes, Fits, NEW key, Navigates(key)
  PROVE  OnlyLine /\ UNCHANGED idxView
<1>1. cursor \in Nat /\ lineEnd \in Nat /\ cursor <= lineEnd
  BY LineFacts
<1>2. CASE CursorBecomes(0) \/ CursorBecomes(lineEnd)
  BY <1>1, <1>2, CursorMoved
<1>3. CASE cursor > 0 /\ CursorBecomes(cursor - 1)
  <2>1. cursor - 1 \in 0 .. lineEnd
    BY <1>1, <1>3
  <2>2. QED BY <1>3, <2>1, CursorMoved
<1>4. CASE cursor < lineEnd /\ CursorBecomes(cursor + 1)
  <2>1. cursor + 1 \in 0 .. lineEnd
    BY <1>1, <1>4
  <2>2. QED BY <1>4, <2>1, CursorMoved
<1>5. CASE cursor > 0 /\ CursorBecomes(Max(JumpStops(FALSE)))
  <2>1. JumpStops(FALSE) \in SUBSET (0 .. lineEnd) /\ JumpStops(FALSE) # {}
    BY <1>1 DEF JumpStops
  <2>2. Max(JumpStops(FALSE)) \in 0 .. lineEnd
    BY <1>1, <2>1, MaxIs
  <2>3. QED BY <1>5, <2>2, CursorMoved
<1>6. CASE cursor < lineEnd /\ CursorBecomes(Min(JumpStops(TRUE)))
  <2>1. /\ JumpStops(TRUE) \in SUBSET (0 .. lineEnd) /\ JumpStops(TRUE) # {}
        /\ JumpStops(TRUE) \in SUBSET Nat
    BY <1>1 DEF JumpStops
  <2>2. Min(JumpStops(TRUE)) \in 0 .. lineEnd
    BY <1>1, <2>1, MinIs
  <2>3. QED BY <1>6, <2>2, CursorMoved
<1>7. QED BY <1>2, <1>3, <1>4, <1>5, <1>6 DEF Navigates

LEMMA RemoveEffect ==
  ASSUME LineTypes, Fits, NEW key, chRemove(key)
  PROVE  OnlyLine /\ UNCHANGED idxView
<1>1. /\ Line \in Seq(Chars) /\ Len(Line) \in Nat /\ Len(Line) <= ColMax
      /\ lineEnd = Len(Line) /\ cursor \in 0 .. Len(Line)
      /\ cursor \in Nat /\ ColMax \in Nat
  BY LineFacts
<1>2. /\ lineEnd' = lineEnd - 1 /\ UNCHANGED <<idxEdit, idxView, idxLast>>
      /\ idxView \in Indices
  BY DEF chRemove, LineTypes
<1>3. CASE cursor > 0 /\ LineBecomes(RemoveAt(Line, cursor), cursor - 1)
  <2> DEFINE l == RemoveAt(Line, cursor)
  <2>1. cursor \in 1 .. Len(Line)
    BY <1>1, <1>3
  <2>2. l \in Seq(Chars) /\ Len(l) = Len(Line) - 1
    BY <1>1, <2>1, RemoveAtLength
  <2>3. buf' = [buf EXCEPT ![idxEdit] = l] /\ cursor' = cursor - 1
    BY <1>3 DEF LineBecomes
  <2> HIDE DEF l
  <2>4. cursor - 1 \in 0 .. Len(l) /\ Len(l) <= ColMax /\ lineEnd' = Len(l)
    BY <1>1, <1>2, <2>1, <2>2
  <2>5. QED BY <1>2, <2>2, <2>3, <2>4, LineWritten
<1>4. CASE cursor < Len(Line) /\ LineBecomes(RemoveAt(Line, cursor + 1), cursor)
  <2> DEFINE l == RemoveAt(Line, cursor + 1)
  <2>1. cursor + 1 \in 1 .. Len(Line)
    BY <1>1, <1>4
  <2>2. l \in Seq(Chars) /\ Len(l) = Len(Line) - 1
    BY <1>1, <2>1, RemoveAtLength
  <2>3. buf' = [buf EXCEPT ![idxEdit] = l] /\ cursor' = cursor
    BY <1>4 DEF LineBecomes
  <2> HIDE DEF l
  <2>4. cursor \in 0 .. Len(l) /\ Len(l) <= ColMax /\ lineEnd' = Len(l)
    BY <1>1, <1>2, <2>1, <2>2
  <2>5. QED BY <1>2, <2>2, <2>3, <2>4, LineWritten
<1>5. QED BY <1>3, <1>4 DEF chRemove

LEMMA InsertEffect ==
  ASSUME LineTypes, Fits, NEW key, chInsert(key)
  PROVE  OnlyLine /\ UNCHANGED idxView
<1> DEFINE l == InsertAt(Line, cursor + 1, key)
<1>1. /\ Line \in Seq(Chars) /\ Len(Line) \in Nat /\ Len(Line) <= ColMax
      /\ lineEnd = Len(Line) /\ cursor \in 0 .. Len(Line)
      /\ cursor \in Nat /\ ColMax \in Nat
  BY LineFacts
<1>2. /\ lineEnd' = lineEnd + 1 /\ UNCHANGED <<idxEdit, idxView, idxLast>>
      /\ idxView \in Indices /\ key \in Chars /\ lineEnd < ColMax
      /\ buf' = [buf EXCEPT ![idxEdit] = l] /\ cursor' = cursor + 1
  BY DEF chInsert, LineTypes, LineBecomes
<1>3. l \in Seq(Chars) /\ Len(l) = Len(Line) + 1
  <2>1. cursor + 1 \in 1 .. Len(Line) + 1
    BY <1>1
  <2>2. QED BY <1>1, <1>2, <2>1, InsertAtLength
<1> HIDE DEF l
<1>4. cursor + 1 \in 0 .. Len(l) /\ Len(l) <= ColMax /\ lineEnd' = Len(l)
  BY <1>1, <1>2, <1>3
<1>5. QED BY <1>2, <1>3, <1>4, LineWritten

LEMMA CompletesEffect ==
  ASSUME LineTypes, Fits, NEW n, Completes(n), UNCHANGED ringVars
  PROVE  OnlyLine /\ UNCHANGED idxView /\ shown' = <<Line', cursor'>>
<1> DEFINE w == Completion
           l == SubSeq(Line, 1, cursor) \o SubSeq(w, 1, n)
                  \o SubSeq(Line, cursor + 1, Len(Line))
<1>1. /\ Line \in Seq(Chars) /\ Len(Line) \in Nat /\ Len(Line) <= ColMax
      /\ lineEnd = Len(Line) /\ cursor \in 0 .. Len(Line)
      /\ cursor \in Nat /\ ColMax \in Nat
  BY LineFacts
<1>2. w \in Seq(Chars) /\ Len(w) \in Nat
  BY <1>1, CompletionType
<1>3. /\ n = Min({Len(w), ColMax - lineEnd})
      /\ lineEnd' = lineEnd + n /\ shown' = <<buf'[idxEdit], cursor'>>
      /\ buf' = [buf EXCEPT ![idxEdit] = l] /\ cursor' = cursor + n
      /\ UNCHANGED <<idxEdit, idxView, idxLast>> /\ idxView \in Indices
  BY DEF Completes, LineBecomes, LineTypes
<1> HIDE DEF w
<1>4. n \in Nat /\ n <= Len(w) /\ n <= ColMax - lineEnd
  <2>1. ColMax - lineEnd \in Nat
    BY <1>1
  <2>2. {Len(w), ColMax - lineEnd} \in SUBSET Nat
    BY <1>2, <2>1
  <2>3. QED BY <1>3, <2>2, MinIs
<1>5. n \in 0 .. Len(w)
  BY <1>2, <1>4
<1>6. l \in Seq(Chars) /\ Len(l) = Len(Line) + n
  <2>1. \A s, u \in Seq(Chars) : \A c \in 0 .. Len(s), m \in 0 .. Len(u) :
          LET t == SubSeq(s, 1, c) \o SubSeq(u, 1, m) \o SubSeq(s, c + 1, Len(s))
          IN  t \in Seq(Chars) /\ Len(t) = Len(s) + m
    BY SpliceLength
  <2>2. QED BY <1>1, <1>2, <1>5, <2>1
<1> HIDE DEF l
<1>7. cursor + n \in 0 .. Len(l) /\ Len(l) <= ColMax /\ lineEnd' = Len(l)
  <2>1. /\ lineEnd \in Nat /\ cursor \in 0 .. lineEnd /\ ColMax \in Nat
        /\ Len(l) = lineEnd + n /\ lineEnd' = lineEnd + n
    BY <1>1, <1>3, <1>6
  <2>2. QED BY <1>4, <2>1
<1>8. OnlyLine
  BY <1>3, <1>6, <1>7, LineWritten
<1>9. QED BY <1>3, <1>8 DEF Line

\* A recalled line replaces the edited one, which is the only one that it
\* changes.
LEMMA RecallEffect ==
  ASSUME LineTypes, Fits, NEW key, historyNavigate(key)
  PROVE  /\ OnlyLine /\ idxView' = ViewNew(key) /\ CanNavigateHistory(key)
         /\ key \in {"Up", "Down"} /\ ViewNew(key) \in Indices
         /\ Line' = IF ViewNew(key) = idxEdit THEN << >> ELSE buf[ViewNew(key)]
<1> DEFINE v == ViewNew(key)
           l == IF v = idxEdit THEN << >> ELSE buf[v]
<1>1. v \in Indices
  <2>1. idxView \in Indices
    BY DEF LineTypes
  <2>2. QED BY <2>1, RingStep DEF ViewNew
<1>2. /\ idxView' = v /\ buf' = [buf EXCEPT ![idxEdit] = l]
      /\ lineEnd' = Len(buf'[idxEdit]) /\ cursor' = lineEnd'
      /\ UNCHANGED <<idxEdit, idxLast>>
      /\ key \in {"Up", "Down"} /\ CanNavigateHistory(key)
  BY DEF historyNavigate
<1> HIDE DEF v
<1>3. l \in Seq(Chars) /\ Len(l) <= ColMax /\ Len(l) \in Nat
  <2>1. buf[v] \in Seq(Chars) /\ Len(buf[v]) <= ColMax
    BY <1>1 DEF LineTypes, Fits
  <2>2. << >> \in Seq(Chars) /\ Len(<< >>) = 0 /\ 0 <= ColMax
    BY EmptySeq, Sizes
  <2>3. QED BY <2>1, <2>2, LenProperties
<1> HIDE DEF l
<1>4. buf'[idxEdit] = l /\ lineEnd' = Len(l) /\ cursor' = Len(l)
      /\ Len(l) \in 0 .. Len(l)
  BY <1>2, <1>3 DEF LineTypes
<1>5. OnlyLine
  BY <1>1, <1>2, <1>3, <1>4, LineWritten
<1>6. Line' = l
  BY <1>2, <1>4 DEF Line
<1>7. QED BY <1>1, <1>2, <1>5, <1>6 DEF v, l

LEMMA AckEffect ==
  ASSUME LineTypes, Fits, lineAck
  PROVE  /\ LineTypes' /\ Fits' /\ Line' = << >> /\ cursor' = 0
         /\ idxView' = idxEdit'
         /\ \A i \in Indices \ {idxEdit'} : buf'[i] = buf[i]
         /\ IF Inserts THEN idxLast' = idxEdit /\ idxEdit' = (idxEdit + 1) % NumLines
            ELSE idxLast' = idxLast /\ idxEdit' = idxEdit
<1>1. /\ buf' = [buf EXCEPT ![idxEdit'] = << >>]
      /\ idxView' = idxEdit' /\ cursor' = 0 /\ lineEnd' = 0
      /\ IF Inserts THEN idxLast' = idxEdit /\ idxEdit' = (idxEdit + 1) % NumLines
         ELSE idxLast' = idxLast /\ idxEdit' = idxEdit
  BY DEF lineAck, historyInsert
<1>2. idxEdit' \in Indices /\ idxLast' \in Indices \cup {NumLines}
  <2>1. idxEdit \in Indices /\ idxLast \in Indices \cup {NumLines}
    BY DEF LineTypes
  <2>2. QED BY <1>1, <2>1, RingStep
<1>3. << >> \in Seq(Chars) /\ Len(<< >>) = 0 /\ 0 \in 0 .. ColMax /\ 0 <= ColMax
  BY EmptySeq, Sizes
<1>4. /\ buf' \in [Indices -> Seq(Chars)] /\ buf'[idxEdit'] = << >>
      /\ \A i \in Indices \ {idxEdit'} : buf'[i] = buf[i]
  BY <1>1, <1>2, <1>3 DEF LineTypes
<1>5. LineTypes'
  BY <1>1, <1>2, <1>3, <1>4 DEF LineTypes
<1>6. \A i \in Indices : Len(buf'[i]) <= ColMax
  BY <1>3, <1>4 DEF Fits
<1>7. Fits'
  BY <1>1, <1>3, <1>4, <1>6 DEF Fits, Line
<1>8. QED BY <1>1, <1>4, <1>5, <1>7 DEF Line

-----------------------------------------------------------------------------
(***************************************************************************)
(* The invariant.                                                          *)
(***************************************************************************)
FitsInv == mState \notin {"StEnd", "StDown"} => Fits

\* What is not on display has been reported as a change.
ShownInv ==
  /\ mState = "StMain" /\ changed = "no" => shown = <<Line, cursor>>
  /\ chunk = 0 => changed = "no"

\* The place in the ring i lines before the edited one.
Slot(i) == (idxEdit + NumLines - i) % NumLines

Filled(n) == \A i \in 1 .. n : buf[Slot(i)] # << >>

\* How many lines before the edited one the recalled one is.
Pos == (idxEdit + NumLines - idxView) % NumLines

\* The recalled line and all between it and the edited one are not empty, and
\* the line entered last is the one before the edited line.
RingInv ==
  /\ Filled(Pos)
  /\ IF idxLast = NumLines THEN buf[Slot(1)] = << >>
     ELSE idxLast = Slot(1) /\ buf[idxLast] # << >>
  /\ mState \in {"StStart", "StSendReadyWait", "StCmdAutoReceiveWait"}
       => idxEdit = 0 /\ idxView = 0

EditInv == TypeOK /\ FitsInv /\ ShownInv

LEMMA TypesOfTheLine == TypeOK => LineTypes
BY DEF TypeOK, LineTypes

\* The terminal is edited in StMain only.
LEMMA EditInit == Init => EditInv
<1>1. ASSUME Init PROVE EditInv
  <2>1. << >> \in Seq(Chars) /\ Len(<< >>) = 0
    BY EmptySeq
  <2>2. 0 \in Indices /\ NumLines \in Nat /\ ColMax \in Nat /\ ChunkMax \in Nat
    BY Sizes DEF Indices
  <2>3. TypeOK
    BY <1>1, <2>1, <2>2 DEF Init, TypeOK, States, KeyStates
  <2>4. buf[idxEdit] = << >> /\ \A i \in Indices : buf[i] = << >>
    BY <1>1, <2>2 DEF Init
  <2>5. Fits
    BY <1>1, <2>1, <2>2, <2>4 DEF Init, Fits, Line
  <2>6. ShownInv
    BY <1>1 DEF Init, ShownInv
  <2>7. QED BY <2>3, <2>5, <2>6 DEF EditInv, FitsInv
<1>2. QED BY <1>1

\* What the filter hands out.
LEMMA FilterStates ==
  ASSUME keyState \in KeyStates, NEW b \in Bytes, NEW f \in Filtered(b)
  PROVE  f[1] \in KeyStates
<1>1. b \in MainBytes \cup SequenceBytes
  BY DEF Bytes
<1>2. \/ \E t \in KeyTable : f = <<t[3], t[4]>>
      \/ \E t \in PendingTable : f = <<t[3], "none">>
      \/ f[1] \in {"Main", "Iac"}
  BY <1>1 DEF Filtered, FilterTable
<1>3. \A t \in KeyTable : t[3] \in KeyStates
  BY DEF KeyTable, KeyStates
<1>4. \A t \in PendingTable : t[3] \in KeyStates
  <2>1. \A t \in PendingTable : \E s, x : \E c \in KeyStates : t = <<s, x, c>>
    BY Zenon DEF PendingTable, KeyStates
  <2>2. QED BY <2>1
<1>5. QED BY <1>2, <1>3, <1>4 DEF KeyStates

LEMMA NextChunk ==
  ASSUME chunk \in 0 .. ChunkMax, chunk < ChunkMax
  PROVE  chunk + 1 \in 0 .. ChunkMax /\ chunk + 1 # 0
BY Sizes

\* A key in StMain.
LEMMA BufferEditKeeps ==
  ASSUME EditInv, mState = "StMain", NEW key, bufferEdit(key)
  PROVE  /\ LineTypes' /\ Fits' /\ lastTab' = "no"
         /\ changed' \in {"yes", "no"}
         /\ changed' = "no" => shown' = <<Line', cursor'>>
<1>1. LineTypes /\ Fits /\ changed \in {"yes", "no"}
  BY TypesOfTheLine DEF EditInv, FitsInv, TypeOK
<1>2. CASE Edits(key) /\ changed' = "yes"
  <2>1. OnlyLine
    BY <1>1, <1>2, NavigatesEffect, RemoveEffect, InsertEffect, RecallEffect
    DEF Edits
  <2>2. QED BY <1>2, <2>1 DEF OnlyLine, bufferEdit
<1>3. CASE UNCHANGED <<lineVars, ringVars, changed>>
  <2>1. UNCHANGED <<buf, cursor, lineEnd, idxEdit, idxView, idxLast, changed, shown>>
    BY <1>3 DEF bufferEdit
  <2>2. LineTypes'
    BY <1>1, <2>1 DEF LineTypes
  <2>3. Fits'
    BY <1>1, <2>1 DEF Fits, Line
  <2>4. Line' = Line
    BY <2>1 DEF Line
  <2>5. QED BY <1>1, <2>1, <2>2, <2>3, <2>4 DEF bufferEdit, EditInv, ShownInv
<1>4. QED BY <1>2, <1>3 DEF bufferEdit

LEMMA TabKeeps ==
  ASSUME EditInv, mState = "StMain", tabProcess
  PROVE  /\ LineTypes' /\ Fits' /\ lastTab' \in {"yes", "no"}
         /\ changed' \in {"yes", "no"}
         /\ changed' = "no" => shown' = <<Line', cursor'>>
<1>1. /\ LineTypes /\ Fits /\ changed \in {"yes", "no"} /\ lastTab \in {"yes", "no"}
      /\ UNCHANGED <<changed, idxEdit, idxView, idxLast>>
  BY TypesOfTheLine DEF EditInv, FitsInv, TypeOK, tabProcess
<1>2. CASE /\ UNCHANGED <<buf, cursor, lineEnd, lastTab>>
           /\ shown' \in {shown, <<Line, cursor>>}
  <2>1. LineTypes'
    BY <1>1, <1>2 DEF LineTypes
  <2>2. Fits'
    BY <1>1, <1>2 DEF Fits, Line
  <2>3. Line' = Line
    BY <1>1, <1>2 DEF Line
  <2>4. QED BY <1>1, <1>2, <2>1, <2>2, <2>3 DEF EditInv, ShownInv
<1>3. ASSUME NEW n, Completes(n)
      PROVE  /\ LineTypes' /\ Fits' /\ lastTab' = "yes"
             /\ shown' = <<Line', cursor'>>
  BY <1>1, <1>3, CompletesEffect DEF OnlyLine, Completes
<1>4. QED BY <1>1, <1>2, <1>3 DEF tabProcess

LEMMA AckKeeps ==
  ASSUME EditInv, mState = "StMain", lineAck
  PROVE  /\ LineTypes' /\ Fits' /\ lastTab' = "no"
         /\ changed' \in {"yes", "no"}
         /\ shown' = <<Line', cursor'>>
<1>1. LineTypes /\ Fits /\ changed \in {"yes", "no"}
  BY TypesOfTheLine DEF EditInv, FitsInv, TypeOK
<1>2. LineTypes' /\ Fits' /\ Line' = << >> /\ cursor' = 0
  BY <1>1, AckEffect
<1>3. QED BY <1>1, <1>2 DEF lineAck

LEMMA KeyKeeps ==
  ASSUME EditInv, NEW b \in Bytes, Key(b)
  PROVE  EditInv'
<1>1. /\ mState = "StMain" /\ mState' = mState /\ trans' = trans
      /\ chunk' = chunk + 1 /\ chunk < ChunkMax
  BY DEF Key, Receives
<1>2. PICK f \in Filtered(b) :
        /\ keyState' = f[1]
        /\ \/ f[2] = "Tab" /\ tabProcess
           \/ f[2] = "Enter" /\ lineAck
           \/ f[2] \notin {"none", "Tab", "Enter"} /\ bufferEdit(f[2])
  BY DEF Key
<1>3. /\ LineTypes' /\ Fits' /\ lastTab' \in {"yes", "no"}
      /\ changed' \in {"yes", "no"}
      /\ changed' = "no" => shown' = <<Line', cursor'>>
  BY <1>1, <1>2, TabKeeps, AckKeeps, BufferEditKeeps
<1>4. keyState' \in KeyStates
  BY <1>2, FilterStates DEF EditInv, TypeOK
<1>5. chunk' \in 0 .. ChunkMax /\ chunk' # 0
  BY <1>1, NextChunk DEF EditInv, TypeOK
<1>6. TypeOK'
  BY <1>1, <1>3, <1>4, <1>5 DEF EditInv, TypeOK, LineTypes
<1>7. QED BY <1>3, <1>5, <1>6 DEF EditInv, FitsInv, ShownInv

\* The line and what is shown of it stay as they are.
LEMMA LineUntouched ==
  ASSUME LineTypes, UNCHANGED <<buf, idxEdit, idxView, idxLast, cursor, lineEnd>>
  PROVE  LineTypes' /\ Line' = Line /\ Fits' = Fits
BY DEF LineTypes, Line, Fits

LEMMA ByteKeeps ==
  ASSUME EditInv, NEW b \in Bytes, PendingByte(b) \/ RefusedByte(b)
  PROVE  EditInv'
<1>1. /\ mState = "StMain" /\ trans' = trans /\ mState' \in {"StMain", "StEnd"}
      /\ chunk' = chunk + 1 /\ chunk < ChunkMax
      /\ UNCHANGED <<lastTab, buf, idxEdit, idxView, idxLast, cursor, lineEnd,
                     changed, shown, executed>>
  BY DEF PendingByte, RefusedByte, Receives
<1>2. keyState' \in KeyStates
  BY FilterStates DEF EditInv, TypeOK, PendingByte, RefusedByte
<1>3. chunk' \in 0 .. ChunkMax /\ chunk' # 0
  BY <1>1, NextChunk DEF EditInv, TypeOK
<1>4. LineTypes' /\ Line' = Line /\ Fits' = Fits
  BY <1>1, TypesOfTheLine, LineUntouched DEF EditInv
<1>5. TypeOK'
  BY <1>1, <1>2, <1>3, <1>4 DEF EditInv, TypeOK, LineTypes, States
<1>6. FitsInv'
  BY <1>1, <1>4 DEF EditInv, FitsInv
<1>7. ShownInv'
  BY <1>1, <1>3, <1>4 DEF EditInv, ShownInv
<1>8. QED BY <1>5, <1>6, <1>7 DEF EditInv

LEMMA ChunkEndsKeeps ==
  ASSUME EditInv, ChunkEnds
  PROVE  EditInv'
<1>1. /\ mState = "StMain" /\ chunk' = 0 /\ changed' = "no"
      /\ shown' = IF changed = "yes" THEN <<Line, cursor>> ELSE shown
      /\ UNCHANGED <<mState, trans, keyState, lastTab, buf, idxEdit, idxView,
                     idxLast, cursor, lineEnd>>
  BY DEF ChunkEnds
<1>2. LineTypes' /\ Line' = Line /\ Fits' = Fits
  BY <1>1, TypesOfTheLine, LineUntouched DEF EditInv
<1>3. TypeOK'
  BY <1>1, <1>2, Sizes DEF EditInv, TypeOK, LineTypes
<1>4. shown' = <<Line', cursor'>>
  BY <1>1, <1>2 DEF EditInv, TypeOK, ShownInv
<1>5. QED BY <1>1, <1>2, <1>3, <1>4 DEF EditInv, FitsInv, ShownInv

\* process() and shutdown() do not touch the line.
LEMMA ProcessKeeps ==
  ASSUME EditInv,
         Start \/ TransportChanges \/ Connected \/ AutoFails \/ TelnetInit
           \/ Welcome \/ Disconnected \/ Shutdown \/ UNCHANGED vars
  PROVE  EditInv'
<1>1. UNCHANGED <<keyState, lastTab, buf, idxEdit, idxView, idxLast, cursor,
                  lineEnd, chunk, changed>>
  BY DEF Start, TransportChanges, Connected, AutoFails, TelnetInit, Welcome,
     Disconnected, Shutdown, vars
<1>2. LineTypes' /\ Line' = Line /\ Fits' = Fits
  BY <1>1, TypesOfTheLine, LineUntouched DEF EditInv
<1>3. /\ mState' \in States
      /\ trans' \in {"none", "starting", "ready", "failed", "released"}
  BY DEF EditInv, TypeOK, States, Start, TransportChanges, Connected, AutoFails,
     TelnetInit, Welcome, Disconnected, Shutdown, vars
<1>4. TypeOK'
  BY <1>1, <1>2, <1>3 DEF EditInv, TypeOK, LineTypes
<1>5. mState' \notin {"StEnd", "StDown"} => mState \notin {"StEnd", "StDown"}
  BY DEF Start, TransportChanges, Connected, AutoFails, TelnetInit, Welcome,
     Disconnected, Shutdown, vars
<1>6. FitsInv'
  BY <1>2, <1>5 DEF EditInv, FitsInv
<1>7. mState' = "StMain" => \/ shown' = <<Line, cursor>>
                            \/ mState = "StMain" /\ shown' = shown
  BY DEF Start, TransportChanges, Connected, AutoFails, TelnetInit, Welcome,
     Disconnected, Shutdown, vars
<1>8. ShownInv'
  BY <1>1, <1>2, <1>7 DEF EditInv, ShownInv
<1>9. QED BY <1>4, <1>6, <1>8 DEF EditInv

LEMMA AutoKeeps ==
  ASSUME EditInv, autoCommandReceive
  PROVE  EditInv'
<1>1. /\ buf' = [buf EXCEPT ![0] = executed'] /\ mState' = "StEnd"
      /\ UNCHANGED <<trans, keyState, lastTab, cursor, lineEnd, idxEdit, idxView,
                     idxLast, chunk, changed, shown>>
  BY DEF autoCommandReceive
<1>2. executed' \in Seq(Chars)
  <2>1. PICK l \in AutoLines :
          executed' \in IF l # <<>> THEN {l} ELSE {<<>>} \cup {<<c>> : c \in Chars}
    BY DEF autoCommandReceive
  <2>2. PICK n \in 0 .. ColMax + 1 : l \in [1 .. n -> Chars]
    BY DEF AutoLines
  <2>3. l \in Seq(Chars)
    BY <2>2, SeqDef, Sizes
  <2>4. << >> \in Seq(Chars) /\ \A c \in Chars : <<c>> \in Seq(Chars)
    BY EmptySeq
  <2>5. QED BY <2>1, <2>3, <2>4
<1>3. buf' \in [Indices -> Seq(Chars)]
  BY <1>1, <1>2 DEF EditInv, TypeOK
<1>4. TypeOK'
  BY <1>1, <1>3 DEF EditInv, TypeOK, States
<1>5. QED BY <1>1, <1>4 DEF EditInv, FitsInv, ShownInv

LEMMA EditStep == EditInv /\ [Next]_vars => EditInv'
<1>1. SUFFICES ASSUME EditInv, [Next]_vars PROVE EditInv'
  OBVIOUS
<1>2. CASE \E b \in Bytes : PendingByte(b) \/ Key(b) \/ RefusedByte(b)
  BY <1>1, <1>2, KeyKeeps, ByteKeeps
<1>3. CASE \/ Start \/ TransportChanges \/ Connected \/ AutoFails \/ TelnetInit
           \/ Welcome \/ Disconnected \/ Shutdown \/ Terminated \/ LoneEsc
           \/ UNCHANGED vars
  BY <1>1, <1>3, ProcessKeeps DEF Terminated, LoneEsc
<1>4. CASE ChunkEnds
  BY <1>1, <1>4, ChunkEndsKeeps
<1>5. CASE autoCommandReceive
  BY <1>1, <1>5, AutoKeeps
<1>6. QED BY <1>1, <1>2, <1>3, <1>4, <1>5 DEF Next

-----------------------------------------------------------------------------
(***************************************************************************)
(* The ring.                                                               *)
(***************************************************************************)
Back(e, i) == (e + NumLines - i) % NumLines

LEMMA BackIs ==
  ASSUME NEW e \in Indices, NEW i \in Indices
  PROVE  /\ Back(e, i) \in Indices
         /\ Back(e, i) = IF i <= e THEN e - i ELSE e + NumLines - i
<1> DEFINE a == e + NumLines - i
<1>1. /\ e \in Nat /\ e < NumLines /\ i \in Nat /\ i < NumLines
      /\ NumLines \in Nat \ {0}
  BY Sizes DEF Indices
<1>2. \A x \in 0 .. 2 * NumLines - 1 :
        x % NumLines = IF x < NumLines THEN x ELSE x - NumLines
  BY <1>1, ModN
<1>3. a \in 0 .. 2 * NumLines - 1 /\ a = e + NumLines - i
  BY <1>1
<1>4. Back(e, i) = a % NumLines
  BY DEF Back
<1> HIDE DEF a
<1>5. Back(e, i) = IF a < NumLines THEN a ELSE a - NumLines
  BY <1>2, <1>3, <1>4
<1>6. QED BY <1>1, <1>3, <1>5 DEF Indices

\* Indices are numbers; slots that are not the edited line's.
LEMMA IndexFacts ==
  /\ \A i \in Indices : i \in Nat /\ i < NumLines
  /\ \A i \in Nat : i < NumLines => i \in Indices
  /\ NumLines \in Nat /\ NumLines >= 2 /\ NumLines \notin Indices
  /\ 0 \in Indices /\ 1 \in Indices /\ NumLines - 1 \in Indices
BY Sizes DEF Indices

LEMMA SlotIs ==
  ASSUME idxEdit \in Indices, NEW i \in Indices
  PROVE  /\ Slot(i) = Back(idxEdit, i) /\ Slot(i) \in Indices
         /\ i # 0 => Slot(i) # idxEdit
<1>1. Slot(i) = Back(idxEdit, i)
  BY DEF Slot, Back
<1>2. QED BY <1>1, BackIs, IndexFacts

LEMMA PosIs ==
  ASSUME idxEdit \in Indices, idxView \in Indices
  PROVE  /\ Pos = Back(idxEdit, idxView) /\ Pos \in Indices
         /\ Slot(Pos) = idxView
         /\ Pos = 0 <=> idxView = idxEdit
<1>1. Pos = Back(idxEdit, idxView)
  BY DEF Pos, Back
<1>2. Pos \in Indices
  BY <1>1, BackIs
<1>3. Slot(Pos) = Back(idxEdit, Pos)
  BY <1>2, SlotIs
<1>4. Pos = IF idxView <= idxEdit THEN idxEdit - idxView
            ELSE idxEdit + NumLines - idxView
  BY <1>1, BackIs
<1>5. Back(idxEdit, Pos) = IF Pos <= idxEdit THEN idxEdit - Pos
                           ELSE idxEdit + NumLines - Pos
  BY <1>2, BackIs
<1>6. QED BY <1>1, <1>2, <1>3, <1>4, <1>5, IndexFacts

\* Up and down move one line away from the edited one or towards it.
LEMMA ViewIs ==
  ASSUME idxEdit \in Indices, idxView \in Indices,
         NEW key \in {"Up", "Down"}, CanNavigateHistory(key)
  PROVE  LET v == ViewNew(key) IN
         /\ v \in Indices
         /\ key = "Up" => /\ Pos + 1 \in Indices /\ Slot(Pos + 1) = v
                          /\ Back(idxEdit, v) = Pos + 1
         /\ key = "Down" => /\ Pos - 1 \in Indices /\ Slot(Pos - 1) = v
                            /\ Back(idxEdit, v) = Pos - 1
         /\ v = idxEdit => Back(idxEdit, v) = 0
<1> DEFINE v == ViewNew(key)
<1>1. v \in Indices /\ v = IF key = "Up"
                           THEN (IF idxView = 0 THEN NumLines - 1 ELSE idxView - 1)
                           ELSE (IF idxView = NumLines - 1 THEN 0 ELSE idxView + 1)
  BY RingStep DEF ViewNew
<1>2. /\ key = "Down" => idxView # idxEdit
      /\ key = "Up" => v # idxEdit
  BY DEF CanNavigateHistory
<1>3. /\ Pos \in Indices
      /\ Pos = IF idxView <= idxEdit THEN idxEdit - idxView
               ELSE idxEdit + NumLines - idxView
  BY PosIs, BackIs
<1>4. Back(idxEdit, v) = IF v <= idxEdit THEN idxEdit - v
                         ELSE idxEdit + NumLines - v
  BY <1>1, BackIs
<1> HIDE DEF v
<1>5. v = idxEdit => Back(idxEdit, v) = 0
  BY <1>1, <1>4, IndexFacts
<1>6. ASSUME key = "Up"
      PROVE  Pos + 1 \in Indices /\ Slot(Pos + 1) = v /\ Back(idxEdit, v) = Pos + 1
  <2>1. v = IF idxView = 0 THEN NumLines - 1 ELSE idxView - 1
    BY <1>1, <1>6
  <2>2. Pos + 1 \in Indices /\ Back(idxEdit, v) = Pos + 1
    BY <1>1, <1>2, <1>3, <1>4, <1>6, <2>1, IndexFacts
  <2>3. Slot(Pos + 1) = IF Pos + 1 <= idxEdit THEN idxEdit - (Pos + 1)
                        ELSE idxEdit + NumLines - (Pos + 1)
    BY <2>2, SlotIs, BackIs
  <2>4. QED BY <1>1, <1>4, <2>2, <2>3, IndexFacts
<1>7. ASSUME key = "Down"
      PROVE  Pos - 1 \in Indices /\ Slot(Pos - 1) = v /\ Back(idxEdit, v) = Pos - 1
  <2>1. v = IF idxView = NumLines - 1 THEN 0 ELSE idxView + 1
    BY <1>1, <1>7
  <2>2. Pos - 1 \in Indices /\ Back(idxEdit, v) = Pos - 1
    BY <1>1, <1>2, <1>3, <1>4, <1>7, <2>1, IndexFacts
  <2>3. Slot(Pos - 1) = IF Pos - 1 <= idxEdit THEN idxEdit - (Pos - 1)
                        ELSE idxEdit + NumLines - (Pos - 1)
    BY <2>2, SlotIs, BackIs
  <2>4. QED BY <1>1, <1>4, <2>2, <2>3, IndexFacts
<1>8. QED BY <1>1, <1>5, <1>6, <1>7 DEF v

\* Entering a line moves every other line one place away.
LEMMA SlotMoves ==
  ASSUME idxEdit \in Indices, idxEdit' = (idxEdit + 1) % NumLines
  PROVE  /\ idxEdit' \in Indices /\ idxEdit' # idxEdit
         /\ Slot(1)' = idxEdit
         /\ \A i \in Indices : i + 1 \in Indices =>
              Back(idxEdit', i + 1) = Back(idxEdit, i)
<1>1. /\ idxEdit' \in Indices
      /\ idxEdit' = IF idxEdit = NumLines - 1 THEN 0 ELSE idxEdit + 1
  BY RingStep
<1>2. Slot(1)' = Back(idxEdit', 1)
  BY DEF Slot, Back
<1>3. Back(idxEdit', 1) = IF 1 <= idxEdit' THEN idxEdit' - 1
                          ELSE idxEdit' + NumLines - 1
  BY <1>1, BackIs, IndexFacts
<1>4. Slot(1)' = idxEdit /\ idxEdit' # idxEdit
  BY <1>1, <1>2, <1>3, IndexFacts
<1>5. ASSUME NEW i \in Indices, i + 1 \in Indices
      PROVE  Back(idxEdit', i + 1) = Back(idxEdit, i)
  <2>1. Back(idxEdit', i + 1) = IF i + 1 <= idxEdit' THEN idxEdit' - (i + 1)
                                ELSE idxEdit' + NumLines - (i + 1)
    BY <1>1, <1>5, BackIs
  <2>2. Back(idxEdit, i) = IF i <= idxEdit THEN idxEdit - i
                           ELSE idxEdit + NumLines - i
    BY BackIs
  <2>3. QED BY <1>1, <2>1, <2>2, IndexFacts
<1>6. QED BY <1>1, <1>4, <1>5

-----------------------------------------------------------------------------
(***************************************************************************)
(* The lines before the edited one.                                        *)
(***************************************************************************)
LEMMA PastLengthIs ==
  /\ PastLength \in Indices /\ Filled(PastLength)
  /\ \A n \in Indices : Filled(n) => n <= PastLength
<1> DEFINE S == {n \in 0 .. NumLines - 1 : Filled(n)}
<1>1. PastLength = Max(S)
  BY DEF PastLength, Filled, Slot
<1>2. S \in SUBSET (0 .. NumLines - 1) /\ 0 \in S /\ NumLines - 1 \in Nat
  BY Sizes DEF Filled
<1>3. Max(S) \in S /\ \A n \in S : Max(S) >= n
  BY <1>2, MaxIs
<1>4. PastLength \in S /\ \A n \in S : PastLength >= n
  BY <1>1, <1>3, Zenon
<1>5. \A n \in S : n <= PastLength
  BY <1>4, Sizes
<1>6. QED BY <1>4, <1>5 DEF Indices

\* The same of the ring after a step.
FilledThen(n) == \A i \in 1 .. n : buf'[Back(idxEdit', i)] # << >>

LEMMA PastLengthNext ==
  /\ PastLength' \in Indices /\ FilledThen(PastLength')
  /\ \A n \in Indices : FilledThen(n) => n <= PastLength'
<1> DEFINE S == {n \in 0 .. NumLines - 1 : FilledThen(n)}
<1>1. PastLength' = Max(S)
  BY DEF PastLength, FilledThen, Back
<1>2. S \in SUBSET (0 .. NumLines - 1) /\ 0 \in S /\ NumLines - 1 \in Nat
  BY Sizes DEF FilledThen
<1>3. Max(S) \in S /\ \A n \in S : Max(S) >= n
  BY <1>2, MaxIs
<1>4. PastLength' \in S /\ \A n \in S : PastLength' >= n
  BY <1>1, <1>3, Zenon
<1>5. \A n \in S : n <= PastLength'
  BY <1>4, Sizes
<1>6. QED BY <1>4, <1>5 DEF Indices

LEMMA PastBar ==
  /\ pastBar = [i \in 1 .. PastLength |-> buf[Back(idxEdit, i)]]
  /\ pastBar' = [i \in 1 .. PastLength' |-> buf'[Back(idxEdit', i)]]
BY DEF pastBar, Back

LEMMA PastBarType ==
  ASSUME LineTypes
  PROVE  /\ pastBar \in Seq(Seq(Chars)) /\ Len(pastBar) = PastLength
         /\ \A i \in 1 .. PastLength : pastBar[i] = buf[Slot(i)]
         /\ PastLength \in Nat
<1>1. PastLength \in Indices /\ PastLength \in Nat /\ idxEdit \in Indices
  BY PastLengthIs, IndexFacts DEF LineTypes
<1>2. \A i \in 1 .. PastLength : i \in Indices /\ Slot(i) = Back(idxEdit, i)
                                 /\ buf[Slot(i)] \in Seq(Chars)
  <2>1. \A i \in 1 .. PastLength : i \in Indices
    BY <1>1, IndexFacts
  <2>2. \A i \in Indices : Slot(i) = Back(idxEdit, i) /\ Slot(i) \in Indices
    BY <1>1, SlotIs
  <2>3. QED BY <2>1, <2>2 DEF LineTypes
<1>3. pastBar \in [1 .. PastLength -> Seq(Chars)]
  BY <1>2, PastBar
<1>4. pastBar \in Seq(Seq(Chars)) /\ Len(pastBar) = PastLength
  BY <1>1, <1>3, SeqDef, LenProperties
<1>5. QED BY <1>1, <1>2, <1>4, PastBar

\* The lines before the edited one do not depend on it.
LEMMA PastKept ==
  ASSUME LineTypes, UNCHANGED idxEdit,
         \A i \in Indices \ {idxEdit} : buf'[i] = buf[i]
  PROVE  /\ pastBar' = pastBar
         /\ \A n \in Indices : FilledThen(n) <=> Filled(n)
<1>1. \A i \in Indices \ {0} :
        /\ Back(idxEdit', i) = Slot(i)
        /\ buf'[Back(idxEdit', i)] = buf[Slot(i)]
  BY SlotIs DEF LineTypes
<1>2. \A n \in Indices : \A i \in 1 .. n : i \in Indices \ {0}
  BY IndexFacts
<1>3. \A n \in Indices : FilledThen(n) <=> Filled(n)
  BY <1>1, <1>2 DEF FilledThen, Filled
<1>4. PastLength' = PastLength
  <2>1. PastLength \in Indices /\ PastLength' \in Indices
    BY PastLengthIs, PastLengthNext
  <2>2. PastLength' <= PastLength /\ PastLength <= PastLength'
    BY <1>3, PastLengthIs, PastLengthNext
  <2>3. QED BY <2>1, <2>2, IndexFacts
<1>5. \A i \in 1 .. PastLength : /\ Back(idxEdit', i) = Back(idxEdit, i)
                                 /\ buf'[Back(idxEdit', i)] = buf[Back(idxEdit, i)]
  <2>1. PastLength \in Indices /\ idxEdit \in Indices
    BY PastLengthIs DEF LineTypes
  <2>2. QED BY <1>1, <1>2, <2>1, SlotIs
<1>6. pastBar' = pastBar
  BY <1>4, <1>5, PastBar
<1>7. QED BY <1>3, <1>6

\* A line that is entered becomes the newest of them; the oldest goes when the
\* ring is full.
LEMMA PastGrows ==
  ASSUME LineTypes, idxEdit' = (idxEdit + 1) % NumLines, Line # << >>,
         \A i \in Indices \ {idxEdit'} : buf'[i] = buf[i]
  PROVE  /\ FilledThen(1)
         /\ PastLength' = IF PastLength + 1 \in Indices THEN PastLength + 1
                          ELSE PastLength
         /\ pastBar' = [i \in 1 .. PastLength' |->
                          IF i = 1 THEN Line ELSE pastBar[i - 1]]
<1>1. /\ idxEdit \in Indices /\ idxEdit' \in Indices /\ idxEdit' # idxEdit
      /\ Back(idxEdit', 1) = idxEdit
      /\ \A i \in Indices : i + 1 \in Indices =>
           Back(idxEdit', i + 1) = Back(idxEdit, i)
  BY SlotMoves DEF LineTypes, Slot, Back
<1>2. buf'[Back(idxEdit', 1)] = Line
  BY <1>1 DEF Line
<1>3. \A i \in Indices : i + 1 \in Indices =>
        buf'[Back(idxEdit', i + 1)] = buf[Back(idxEdit, i)]
  <2>1. SUFFICES ASSUME NEW i \in Indices, i + 1 \in Indices
                 PROVE  Back(idxEdit, i) \in Indices \ {idxEdit'}
    BY <1>1
  <2>2. /\ Back(idxEdit', i + 1) = IF i + 1 <= idxEdit' THEN idxEdit' - (i + 1)
                                   ELSE idxEdit' + NumLines - (i + 1)
        /\ Back(idxEdit', i + 1) \in Indices
    BY <1>1, <2>1, BackIs
  <2>3. Back(idxEdit', i + 1) # idxEdit'
    BY <1>1, <2>1, <2>2, IndexFacts
  <2>4. QED BY <1>1, <2>1, <2>2, <2>3
<1>4. \A n \in Indices : n + 1 \in Indices => (FilledThen(n + 1) <=> Filled(n))
  <2>1. SUFFICES ASSUME NEW n \in Indices, n + 1 \in Indices
                 PROVE  FilledThen(n + 1) <=> Filled(n)
    OBVIOUS
  <2>2. \A i \in 1 .. n : /\ i \in Indices /\ i + 1 \in Indices
                          /\ i + 1 \in 1 .. n + 1 /\ Slot(i) = Back(idxEdit, i)
                          /\ buf'[Back(idxEdit', i + 1)] = buf[Slot(i)]
    <3>1. \A i \in 1 .. n : i \in Indices /\ i + 1 \in Indices
                            /\ i + 1 \in 1 .. n + 1
      BY <2>1, IndexFacts
    <3>2. QED BY <1>1, <1>3, <3>1, SlotIs
  <2>3. ASSUME Filled(n) PROVE FilledThen(n + 1)
    <3>1. SUFFICES ASSUME NEW j \in 1 .. n + 1
                   PROVE  buf'[Back(idxEdit', j)] # << >>
      BY DEF FilledThen
    <3>2. CASE j = 1
      BY <1>2, <3>2
    <3>3. CASE j # 1
      <4>1. j - 1 \in 1 .. n /\ (j - 1) + 1 = j
        BY <2>1, <3>1, <3>3, IndexFacts
      <4>2. buf'[Back(idxEdit', (j - 1) + 1)] = buf[Slot(j - 1)]
        BY <2>2, <4>1
      <4>3. buf[Slot(j - 1)] # << >>
        BY <2>3, <4>1 DEF Filled
      <4>4. QED BY <4>1, <4>2, <4>3
    <3>4. QED BY <3>2, <3>3
  <2>4. ASSUME FilledThen(n + 1) PROVE Filled(n)
    BY <2>2, <2>4 DEF Filled, FilledThen
  <2>5. QED BY <2>3, <2>4
<1>5. FilledThen(1)
  BY <1>2 DEF FilledThen
<1>6. /\ PastLength \in Indices /\ Filled(PastLength)
      /\ \A n \in Indices : Filled(n) => n <= PastLength
      /\ PastLength' \in Indices /\ FilledThen(PastLength')
      /\ \A n \in Indices : FilledThen(n) => n <= PastLength'
  BY PastLengthIs, PastLengthNext
<1>7. 1 <= PastLength' /\ PastLength' - 1 \in Indices
      /\ (PastLength' - 1) + 1 = PastLength'
  BY <1>5, <1>6, IndexFacts
<1>8. Filled(PastLength' - 1)
  BY <1>4, <1>6, <1>7
<1>9. PastLength' - 1 <= PastLength
  BY <1>6, <1>7, <1>8
<1>10. PastLength' = IF PastLength + 1 \in Indices THEN PastLength + 1
                     ELSE PastLength
  <2>1. CASE PastLength + 1 \in Indices
    <3>1. PastLength + 1 <= PastLength'
      BY <1>4, <1>6, <2>1
    <3>2. QED BY <1>6, <1>9, <2>1, <3>1, IndexFacts
  <2>2. CASE PastLength + 1 \notin Indices
    <3>1. PastLength = NumLines - 1
      BY <1>6, <2>2, IndexFacts
    <3>2. CASE PastLength = 0
      BY <3>1, <3>2, IndexFacts
    <3>3. CASE PastLength # 0
      <4>1. /\ PastLength - 1 \in Indices /\ (PastLength - 1) + 1 = PastLength
            /\ \A i \in 1 .. PastLength - 1 : i \in 1 .. PastLength
        BY <1>6, <3>3, IndexFacts
      <4>2. Filled(PastLength - 1)
        BY <1>6, <4>1 DEF Filled
      <4>3. FilledThen(PastLength)
        BY <1>4, <1>6, <4>1, <4>2
      <4>4. PastLength <= PastLength'
        BY <1>6, <4>3
      <4>5. QED BY <1>6, <2>2, <3>1, <4>4, IndexFacts
    <3>4. QED BY <3>2, <3>3
  <2>3. QED BY <2>1, <2>2
<1>11. \A i \in 1 .. PastLength' :
         buf'[Back(idxEdit', i)] = IF i = 1 THEN Line ELSE pastBar[i - 1]
  <2>1. SUFFICES ASSUME NEW i \in 1 .. PastLength', i # 1
                 PROVE  buf'[Back(idxEdit', i)] = pastBar[i - 1]
    BY <1>2
  <2>2. /\ i - 1 \in 1 .. PastLength /\ i - 1 \in Indices
        /\ (i - 1) + 1 = i /\ i \in Indices
    BY <1>6, <1>9, <2>1, IndexFacts
  <2>3. pastBar[i - 1] = buf[Back(idxEdit, i - 1)]
    BY <2>2, PastBar
  <2>4. buf'[Back(idxEdit', (i - 1) + 1)] = buf[Back(idxEdit, i - 1)]
    BY <1>3, <2>2
  <2>5. QED BY <2>2, <2>3, <2>4
<1>12. QED BY <1>5, <1>10, <1>11, PastBar

\* The line entered last is the newest of them.
LEMMA NewestIs ==
  ASSUME LineTypes, RingInv
  PROVE  /\ pastBar = << >> <=> idxLast = NumLines
         /\ idxLast # NumLines => /\ Head(pastBar) = buf[idxLast]
                                  /\ idxLast = Slot(1)
<1>1. /\ PastLength \in Indices /\ Filled(PastLength)
      /\ \A n \in Indices : Filled(n) => n <= PastLength
  BY PastLengthIs
<1>2. /\ pastBar \in Seq(Seq(Chars)) /\ Len(pastBar) = PastLength
      /\ \A i \in 1 .. PastLength : pastBar[i] = buf[Slot(i)]
  BY PastBarType
<1>3. IF idxLast = NumLines THEN buf[Slot(1)] = << >>
      ELSE idxLast = Slot(1) /\ buf[idxLast] # << >>
  BY DEF RingInv
<1>4. CASE idxLast = NumLines
  <2>1. ~(1 <= PastLength)
    BY <1>1, <1>3, <1>4, IndexFacts DEF Filled
  <2>2. Len(pastBar) = 0
    BY <1>1, <1>2, <2>1, IndexFacts
  <2>3. QED BY <1>2, <1>4, <2>2, EmptySeq
<1>5. CASE idxLast # NumLines
  <2>1. Filled(1)
    <3>1. \A i \in 1 .. 1 : i = 1
      OBVIOUS
    <3>2. QED BY <1>3, <1>5, <3>1 DEF Filled
  <2>2. 1 <= PastLength /\ PastLength \in Nat
    BY <1>1, <2>1, IndexFacts
  <2>3. pastBar[1] = buf[idxLast] /\ Len(pastBar) # 0
    BY <1>2, <1>3, <1>5, <2>2
  <2>4. pastBar # << >>
    BY <1>2, <2>3, EmptySeq
  <2>5. Head(pastBar) = pastBar[1]
    BY <1>2, <2>4
  <2>6. QED BY <1>3, <1>5, <2>3, <2>4, <2>5
<1>6. QED BY <1>4, <1>5

-----------------------------------------------------------------------------
(***************************************************************************)
(* The ring is as RingInv says.                                            *)
(***************************************************************************)
LEMMA RingInit == Init => RingInv
<1>1. SUFFICES ASSUME Init PROVE RingInv
  OBVIOUS
<1>2. /\ idxEdit = 0 /\ idxView = 0 /\ idxLast = NumLines
      /\ buf = [i \in Indices |-> << >>]
  BY <1>1 DEF Init
<1>3. idxEdit \in Indices /\ idxView \in Indices
  BY <1>2, IndexFacts
<1>4. Pos = 0 /\ Filled(0)
  BY <1>2, <1>3, PosIs DEF Filled
<1>5. buf[Slot(1)] = << >>
  BY <1>2, <1>3, SlotIs, IndexFacts
<1>6. QED BY <1>2, <1>4, <1>5 DEF RingInv

\* The edited line is not among those that RingInv is about.
LEMMA RingKept ==
  ASSUME LineTypes, RingInv, UNCHANGED <<idxEdit, idxLast, idxView>>,
         \A i \in Indices \ {idxEdit} : buf'[i] = buf[i],
         mState' \notin {"StStart", "StSendReadyWait", "StCmdAutoReceiveWait"}
           \/ (idxEdit = 0 /\ idxView = 0)
  PROVE  RingInv'
<1>1. /\ idxEdit \in Indices /\ idxView \in Indices /\ Pos \in Indices /\ Pos' = Pos
  BY PosIs DEF LineTypes, Pos
<1>2. \A i \in Indices \ {0} : Slot(i)' = Slot(i) /\ buf'[Slot(i)] = buf[Slot(i)]
  BY <1>1, SlotIs DEF Slot
<1>3. \A i \in 1 .. Pos : i \in Indices \ {0}
  BY <1>1, IndexFacts
<1>4. Filled(Pos)'
  BY <1>1, <1>2, <1>3 DEF RingInv, Filled, Slot
<1>5. 1 \in Indices \ {0}
  BY IndexFacts
<1>6. IF idxLast' = NumLines THEN buf'[Slot(1)'] = << >>
      ELSE idxLast' = Slot(1)' /\ buf'[idxLast'] # << >>
  BY <1>2, <1>5 DEF RingInv
<1>7. mState' \in {"StStart", "StSendReadyWait", "StCmdAutoReceiveWait"}
        => idxEdit' = 0 /\ idxView' = 0
  OBVIOUS
<1>8. QED BY <1>4, <1>6, <1>7 DEF RingInv

LEMMA RingRecalled ==
  ASSUME LineTypes, Fits, RingInv, NEW key, historyNavigate(key), mState' = "StMain"
  PROVE  RingInv'
<1>1. /\ OnlyLine /\ idxView' = ViewNew(key) /\ CanNavigateHistory(key)
      /\ key \in {"Up", "Down"} /\ ViewNew(key) \in Indices
  BY RecallEffect
<1>2. /\ UNCHANGED <<idxEdit, idxLast>>
      /\ \A i \in Indices \ {idxEdit} : buf'[i] = buf[i]
      /\ idxEdit \in Indices /\ idxView \in Indices /\ Pos \in Indices
  BY <1>1, PosIs DEF OnlyLine, LineTypes
<1>3. Pos' = Back(idxEdit, ViewNew(key))
  BY <1>1, <1>2 DEF Pos, Back
<1>4. \A i \in Indices \ {0} : Slot(i)' = Slot(i) /\ buf'[Slot(i)] = buf[Slot(i)]
  BY <1>2, SlotIs DEF Slot
<1>5. Pos' \in Indices /\ \A i \in 1 .. Pos' : i \in Indices \ {0} /\ buf[Slot(i)] # << >>
  <2>1. CASE key = "Up"
    <3>1. /\ Pos + 1 \in Indices /\ Slot(Pos + 1) = ViewNew(key) /\ Pos' = Pos + 1
      BY <1>1, <1>2, <1>3, <2>1, ViewIs
    <3>2. buf[Slot(Pos + 1)] # << >>
      BY <1>1, <3>1 DEF CanNavigateHistory
    <3>3. \A i \in 1 .. Pos + 1 : i \in Indices \ {0} /\ (i \in 1 .. Pos \/ i = Pos + 1)
      BY <1>2, <3>1, IndexFacts
    <3>4. QED BY <3>1, <3>2, <3>3 DEF RingInv, Filled
  <2>2. CASE key = "Down"
    <3>1. Pos - 1 \in Indices /\ Pos' = Pos - 1
      BY <1>1, <1>2, <1>3, <2>2, ViewIs
    <3>2. \A i \in 1 .. Pos - 1 : i \in Indices \ {0} /\ i \in 1 .. Pos
      BY <1>2, <3>1, IndexFacts
    <3>3. QED BY <3>1, <3>2 DEF RingInv, Filled
  <2>3. QED BY <1>1, <2>1, <2>2
<1>6. Filled(Pos)'
  BY <1>4, <1>5 DEF Filled, Slot
<1>7. 1 \in Indices \ {0}
  BY IndexFacts
<1>8. IF idxLast' = NumLines THEN buf'[Slot(1)'] = << >>
      ELSE idxLast' = Slot(1)' /\ buf'[idxLast'] # << >>
  BY <1>2, <1>4, <1>7 DEF RingInv
<1>9. QED BY <1>6, <1>8 DEF RingInv

LEMMA RingEntered ==
  ASSUME LineTypes, Fits, RingInv, lineAck, mState' = "StMain"
  PROVE  RingInv'
<1>1. /\ LineTypes' /\ idxView' = idxEdit'
      /\ \A i \in Indices \ {idxEdit'} : buf'[i] = buf[i]
      /\ IF Inserts THEN idxLast' = idxEdit /\ idxEdit' = (idxEdit + 1) % NumLines
         ELSE idxLast' = idxLast /\ idxEdit' = idxEdit
  BY AckEffect
<1>2. /\ idxEdit \in Indices /\ idxEdit' \in Indices /\ idxView' \in Indices
      /\ NumLines \notin Indices
  BY <1>1, IndexFacts DEF LineTypes
<1>3. Pos' = 0
  <2>1. Pos' = Back(idxEdit', idxEdit')
    BY <1>1 DEF Pos, Back
  <2>2. QED BY <1>2, <2>1, BackIs, IndexFacts
<1>4. Filled(Pos)'
  BY <1>3 DEF Filled
<1>5. IF idxLast' = NumLines THEN buf'[Slot(1)'] = << >>
      ELSE idxLast' = Slot(1)' /\ buf'[idxLast'] # << >>
  <2>1. CASE Inserts
    <3>1. Slot(1)' = idxEdit /\ idxEdit' # idxEdit
      BY <1>1, <1>2, <2>1, SlotMoves
    <3>2. buf[idxEdit] # << >>
      BY <2>1 DEF Inserts, Line
    <3>3. QED BY <1>1, <1>2, <2>1, <3>1, <3>2
  <2>2. CASE ~Inserts
    <3>1. Slot(1) \in Indices /\ Slot(1) # idxEdit /\ Slot(1)' = Slot(1)
      <4>1. Slot(1) \in Indices /\ Slot(1) # idxEdit
        BY <1>2, SlotIs, IndexFacts
      <4>2. QED BY <1>1, <2>2, <4>1 DEF Slot
    <3>2. QED BY <1>1, <2>2, <3>1 DEF RingInv
  <2>3. QED BY <2>1, <2>2
<1>6. QED BY <1>4, <1>5 DEF RingInv

HistInv == EditInv /\ RingInv

\* The line, the lines before it and the position: what of them a step changes.
LEMMA KeyKeepsRing ==
  ASSUME HistInv, NEW b \in Bytes, Key(b)
  PROVE  RingInv'
<1>1. /\ mState = "StMain" /\ mState' = "StMain"
      /\ mState' \notin {"StStart", "StSendReadyWait", "StCmdAutoReceiveWait"}
  BY DEF Key, Receives
<1>2. LineTypes /\ Fits /\ RingInv
  BY <1>1, TypesOfTheLine DEF HistInv, EditInv, FitsInv
<1>3. ASSUME OnlyLine, UNCHANGED idxView PROVE RingInv'
  BY <1>1, <1>2, <1>3, RingKept DEF OnlyLine
<1>4. ASSUME UNCHANGED <<buf, idxEdit, idxView, idxLast>> PROVE RingInv'
  BY <1>1, <1>2, <1>4, RingKept
<1>5. CASE tabProcess
  <2>1. CASE \E n \in 0 .. ColMax : Completes(n)
    <3>1. UNCHANGED ringVars
      BY <1>5 DEF tabProcess
    <3>2. QED BY <1>2, <1>3, <2>1, <3>1, CompletesEffect
  <2>2. CASE UNCHANGED lineVars
    BY <1>4, <1>5, <2>2 DEF tabProcess
  <2>3. QED BY <1>5, <2>1, <2>2 DEF tabProcess
<1>6. CASE lineAck
  BY <1>1, <1>2, <1>6, RingEntered
<1>7. ASSUME NEW key, bufferEdit(key) PROVE RingInv'
  <2>1. CASE historyNavigate(key)
    BY <1>1, <1>2, <2>1, RingRecalled
  <2>2. CASE Navigates(key) \/ chRemove(key) \/ chInsert(key)
    BY <1>2, <1>3, <2>2, NavigatesEffect, RemoveEffect, InsertEffect
  <2>3. CASE UNCHANGED <<lineVars, ringVars>>
    BY <1>4, <2>3
  <2>4. QED BY <1>7, <2>1, <2>2, <2>3 DEF bufferEdit, Edits
<1>8. QED BY <1>5, <1>6, <1>7 DEF Key

LEMMA RingStepKeeps == HistInv /\ [Next]_vars => RingInv'
<1>1. SUFFICES ASSUME HistInv, [Next]_vars PROVE RingInv'
  OBVIOUS
<1>2. LineTypes /\ RingInv
  BY <1>1, TypesOfTheLine DEF HistInv, EditInv
<1>3. CASE \E b \in Bytes : Key(b)
  BY <1>1, <1>3, KeyKeepsRing
<1>4. CASE \/ \E b \in Bytes : PendingByte(b) \/ RefusedByte(b)
           \/ Start \/ TransportChanges \/ Connected \/ AutoFails \/ TelnetInit
           \/ Welcome \/ Disconnected \/ Shutdown \/ Terminated \/ LoneEsc
           \/ ChunkEnds \/ UNCHANGED vars
  <2>1. UNCHANGED <<buf, idxEdit, idxView, idxLast>>
    BY <1>4 DEF PendingByte, RefusedByte, Start, TransportChanges, Connected,
       AutoFails, TelnetInit, Welcome, Disconnected, Shutdown, Terminated,
       LoneEsc, ChunkEnds, vars
  <2>2. mState' \in {"StStart", "StSendReadyWait", "StCmdAutoReceiveWait"}
          => mState \in {"StStart", "StSendReadyWait", "StCmdAutoReceiveWait"}
    BY <1>4 DEF PendingByte, RefusedByte, Receives, Start, TransportChanges,
       Connected, AutoFails, TelnetInit, Welcome, Disconnected, Shutdown,
       Terminated, LoneEsc, ChunkEnds, vars
  <2>3. mState' \notin {"StStart", "StSendReadyWait", "StCmdAutoReceiveWait"}
          \/ (idxEdit = 0 /\ idxView = 0)
    <3>1. mState \in {"StStart", "StSendReadyWait", "StCmdAutoReceiveWait"}
            => idxEdit = 0 /\ idxView = 0
      BY <1>2 DEF RingInv
    <3>2. QED BY <2>2, <3>1
  <2>4. QED BY <1>2, <2>1, <2>3, RingKept
<1>5. CASE autoCommandReceive
  <2>1. /\ idxEdit = 0 /\ idxView = 0 /\ UNCHANGED <<idxEdit, idxView, idxLast>>
        /\ buf' = [buf EXCEPT ![0] = executed']
    BY <1>2, <1>5 DEF RingInv, autoCommandReceive
  <2>2. \A i \in Indices \ {idxEdit} : buf'[i] = buf[i]
    BY <1>2, <2>1 DEF LineTypes
  <2>3. QED BY <1>2, <2>1, <2>2, RingKept
<1>6. QED BY <1>1, <1>3, <1>4, <1>5 DEF Next

-----------------------------------------------------------------------------
(***************************************************************************)
(* The steps of the history.                                               *)
(***************************************************************************)
\* The variables of CommandHistory.
bar == <<Line, pastBar, Pos>>

LEMMA BarIs ==
  /\ History!vars = bar
  /\ History!vars' = bar'
BY DEF History!vars, bar, Pos

LEMMA EditIsEdit ==
  ASSUME LineTypes, LineTypes', UNCHANGED <<idxEdit, idxView>>,
         \A i \in Indices \ {idxEdit} : buf'[i] = buf[i]
  PROVE  History!Next
<1>1. pastBar' = pastBar
  BY PastKept
<1>2. Line' \in Seq(Chars)
  BY DEF LineTypes, Line
<1>3. History!Edit
  BY <1>1, <1>2 DEF History!Edit
<1>4. QED BY <1>3 DEF History!Next

LEMMA RecallIsMove ==
  ASSUME LineTypes, Fits, RingInv, NEW key, historyNavigate(key)
  PROVE  History!Next
<1> DEFINE v == ViewNew(key)
<1>1. /\ OnlyLine /\ idxView' = v /\ CanNavigateHistory(key)
      /\ key \in {"Up", "Down"} /\ v \in Indices
      /\ Line' = IF v = idxEdit THEN << >> ELSE buf[v]
  BY RecallEffect
<1>2. /\ UNCHANGED <<idxEdit, idxLast>> /\ pastBar' = pastBar
      /\ idxEdit \in Indices /\ idxView \in Indices
  BY <1>1, PastKept DEF OnlyLine, LineTypes
<1>3. /\ Pos' = Back(idxEdit, v) /\ Pos \in Indices
      /\ Slot(Pos) = idxView /\ (Pos = 0 <=> idxView = idxEdit)
  BY <1>1, <1>2, PosIs DEF Pos, Back
<1>4. /\ PastLength \in Indices /\ Len(pastBar) = PastLength
      /\ \A i \in 1 .. PastLength : pastBar[i] = buf[Slot(i)]
      /\ \A n \in Indices : Filled(n) => n <= PastLength
  BY PastLengthIs, PastBarType
<1>5. Filled(Pos)
  BY DEF RingInv
<1>6. CASE key = "Up"
  <2>1. Pos + 1 \in Indices /\ Slot(Pos + 1) = v /\ Pos' = Pos + 1 /\ v # idxEdit
        /\ buf[v] # << >>
    BY <1>1, <1>2, <1>3, <1>6, ViewIs DEF CanNavigateHistory
  <2>2. Filled(Pos + 1)
    <3>1. \A i \in 1 .. Pos + 1 : i \in 1 .. Pos \/ i = Pos + 1
      BY <1>3, IndexFacts
    <3>2. QED BY <1>5, <2>1, <3>1 DEF Filled
  <2>3. Pos + 1 <= PastLength /\ Pos + 1 \in 1 .. PastLength
    BY <1>3, <1>4, <2>1, <2>2, IndexFacts
  <2>4. Line' = pastBar[Pos + 1]
    BY <1>1, <1>4, <2>1, <2>3
  <2>5. Pos < Len(pastBar)
    BY <1>3, <1>4, <2>3, IndexFacts
  <2>6. History!Up
    BY <1>2, <2>1, <2>4, <2>5 DEF History!Up, Pos
  <2>7. QED BY <2>6 DEF History!Next
<1>7. CASE key = "Down"
  <2>1. Pos - 1 \in Indices /\ Slot(Pos - 1) = v /\ Pos' = Pos - 1
    BY <1>1, <1>2, <1>3, <1>7, ViewIs
  <2>2. Pos > 0 /\ Pos <= PastLength
    BY <1>3, <1>4, <1>5, <2>1, IndexFacts
  <2>3. v = idxEdit <=> Pos = 1
    <3>1. v = idxEdit => Pos' = 0
      BY <1>1, <1>2, <1>3, ViewIs
    <3>2. Pos - 1 # 0 => v # idxEdit
      BY <1>2, <2>1, SlotIs
    <3>3. Pos - 1 = 0 => v = idxEdit
      BY <1>2, <2>1, SlotIs, BackIs, IndexFacts
    <3>4. QED BY <1>3, <2>1, <3>2, <3>3, IndexFacts
  <2>4. Line' = IF Pos = 1 THEN << >> ELSE pastBar[Pos - 1]
    <3>1. CASE Pos = 1
      BY <1>1, <2>3, <3>1
    <3>2. CASE Pos # 1
      <4>1. Pos - 1 \in 1 .. PastLength
        BY <1>3, <1>4, <2>1, <2>2, <3>2, IndexFacts
      <4>2. QED BY <1>1, <1>4, <2>1, <2>3, <3>2, <4>1
    <3>3. QED BY <3>1, <3>2
  <2>5. History!Down
    BY <1>2, <2>1, <2>2, <2>4 DEF History!Down, Pos
  <2>6. QED BY <2>5 DEF History!Next
<1>8. QED BY <1>1, <1>6, <1>7

\* The ring of NumLines lines keeps NumLines - 1 of them beside the edited one.
LEMMA LatestIs ==
  ASSUME LineTypes, Line # << >>,
         PastLength' = IF PastLength + 1 \in Indices THEN PastLength + 1
                       ELSE PastLength,
         pastBar' = [i \in 1 .. PastLength' |->
                       IF i = 1 THEN Line ELSE pastBar[i - 1]]
  PROVE  pastBar' = History!Latest(<<Line>> \o pastBar)
<1> DEFINE S == Seq(Chars)
           t == <<Line>> \o pastBar
<1>1. /\ pastBar \in Seq(S) /\ Len(pastBar) = PastLength /\ PastLength \in Nat
      /\ PastLength \in Indices /\ NumLines \in Nat /\ Line \in S
  BY PastBarType, PastLengthIs, IndexFacts DEF LineTypes, Line
<1> HIDE DEF S
<1>2. <<Line>> \in Seq(S) /\ Len(<<Line>>) = 1 /\ <<Line>>[1] = Line
  BY <1>1
<1>3. /\ t \in Seq(S) /\ Len(t) = Len(<<Line>>) + Len(pastBar)
      /\ \A i \in 1 .. Len(<<Line>>) + Len(pastBar) :
           t[i] = IF i <= Len(<<Line>>) THEN <<Line>>[i]
                  ELSE pastBar[i - Len(<<Line>>)]
  BY <1>1, <1>2, ConcatProperties
<1> HIDE DEF t
<1>4. /\ Len(t) = PastLength + 1
      /\ \A i \in 1 .. PastLength + 1 :
           t[i] = IF i = 1 THEN Line ELSE pastBar[i - 1]
  BY <1>1, <1>2, <1>3
<1>5. History!Latest(t) = IF Len(t) <= NumLines - 1 THEN t
                          ELSE SubSeq(t, 1, NumLines - 1)
  BY DEF History!Latest
<1>6. t = [i \in 1 .. PastLength + 1 |-> t[i]]
  BY <1>3, <1>4, LenProperties
<1>7. CASE PastLength + 1 \in Indices
  <2>1. Len(t) <= NumLines - 1 /\ PastLength' = PastLength + 1
    BY <1>1, <1>4, <1>7, IndexFacts
  <2>2. pastBar' = [i \in 1 .. PastLength + 1 |->
                      IF i = 1 THEN Line ELSE pastBar[i - 1]]
    BY <2>1
  <2>3. QED BY <1>4, <1>5, <1>6, <2>1, <2>2 DEF t
<1>8. CASE PastLength + 1 \notin Indices
  <2>1. ~(Len(t) <= NumLines - 1) /\ PastLength' = PastLength
        /\ PastLength = NumLines - 1
    BY <1>1, <1>4, <1>8, IndexFacts
  <2> DEFINE u == SubSeq(t, 1, PastLength)
  <2>2. \A i \in 1 .. PastLength : t[i] \in S
    BY <1>1, <1>3, <1>4, LenProperties
  <2>3. /\ u \in Seq(S) /\ Len(u) = IF 1 <= PastLength THEN PastLength - 1 + 1 ELSE 0
        /\ \A i \in 1 .. PastLength - 1 + 1 : u[i] = t[1 + i - 1]
    BY <1>1, <2>2, SubSeqProperties
  <2> HIDE DEF u
  <2>4. Len(u) = PastLength /\ \A i \in 1 .. PastLength : u[i] = t[i]
    BY <1>1, <2>3
  <2>5. u = [i \in 1 .. PastLength |-> u[i]]
    BY <2>3, <2>4, LenProperties
  <2>6. pastBar' = [i \in 1 .. PastLength |->
                      IF i = 1 THEN Line ELSE pastBar[i - 1]]
    BY <2>1
  <2>7. \A i \in 1 .. PastLength : i \in 1 .. PastLength + 1
    BY <1>1
  <2>8. pastBar' = u
    <3>1. \A i \in 1 .. PastLength : u[i] = IF i = 1 THEN Line ELSE pastBar[i - 1]
      BY <1>4, <2>4, <2>7
    <3>2. u = [i \in 1 .. PastLength |-> IF i = 1 THEN Line ELSE pastBar[i - 1]]
      BY <2>5, <3>1
    <3>3. QED BY <2>6, <3>2
  <2>9. QED BY <1>5, <2>1, <2>8 DEF t, u
<1>9. QED BY <1>7, <1>8

LEMMA AckIsEnter ==
  ASSUME LineTypes, Fits, RingInv, lineAck
  PROVE  History!Next
<1>1. /\ LineTypes' /\ Line' = << >> /\ idxView' = idxEdit'
      /\ \A i \in Indices \ {idxEdit'} : buf'[i] = buf[i]
      /\ IF Inserts THEN idxLast' = idxEdit /\ idxEdit' = (idxEdit + 1) % NumLines
         ELSE idxLast' = idxLast /\ idxEdit' = idxEdit
  BY AckEffect
<1>2. Pos' = 0
  <2>1. idxEdit' \in Indices /\ Pos' = Back(idxEdit', idxEdit')
    BY <1>1 DEF LineTypes, Pos, Back
  <2>2. QED BY <2>1, BackIs, IndexFacts
<1>3. /\ pastBar = << >> <=> idxLast = NumLines
      /\ idxLast # NumLines => Head(pastBar) = buf[idxLast]
  BY NewestIs
<1>4. CASE Inserts
  <2>1. /\ Line # << >>
        /\ ~(Line = << >> \/ (pastBar # << >> /\ Line = Head(pastBar)))
    BY <1>3, <1>4 DEF Inserts
  <2>2. /\ PastLength' = IF PastLength + 1 \in Indices THEN PastLength + 1
                         ELSE PastLength
        /\ pastBar' = [i \in 1 .. PastLength' |->
                         IF i = 1 THEN Line ELSE pastBar[i - 1]]
    BY <1>1, <1>4, <2>1, PastGrows
  <2>3. pastBar' = History!Latest(<<Line>> \o pastBar)
    BY <2>1, <2>2, LatestIs
  <2>4. History!Enter
    BY <1>1, <1>2, <2>1, <2>3 DEF History!Enter, Pos
  <2>5. QED BY <2>4 DEF History!Next
<1>5. CASE ~Inserts
  <2>1. Line = << >> \/ (pastBar # << >> /\ Line = Head(pastBar))
    BY <1>3, <1>5 DEF Inserts
  <2>2. pastBar' = pastBar
    BY <1>1, <1>5, PastKept
  <2>3. History!Enter
    BY <1>1, <1>2, <2>1, <2>2 DEF History!Enter, Pos
  <2>4. QED BY <2>3 DEF History!Next
<1>6. QED BY <1>4, <1>5

\* A step that leaves the ring alone is none of the history.
LEMMA StutterKeeps ==
  ASSUME UNCHANGED <<buf, idxEdit, idxView>>
  PROVE  bar' = bar
<1>1. Line' = Line /\ Pos' = Pos
  BY DEF Line, Pos
<1>2. PastLength' = PastLength
  BY DEF PastLength
<1>3. pastBar' = pastBar
  BY <1>2 DEF pastBar
<1>4. QED BY <1>1, <1>3 DEF bar

LEMMA HistoryStep ==
  ASSUME HistInv, EditInv', [Next]_vars
  PROVE  History!Next \/ bar' = bar
<1>1. LineTypes /\ RingInv /\ LineTypes'
  BY TypesOfTheLine DEF HistInv, EditInv, TypeOK, LineTypes
<1>2. ASSUME NEW b \in Bytes, Key(b) PROVE History!Next \/ bar' = bar
  <2>1. Fits
    BY <1>2 DEF HistInv, EditInv, FitsInv, Key, Receives
  <2>2. ASSUME OnlyLine, UNCHANGED idxView PROVE History!Next
    BY <1>1, <2>2, EditIsEdit DEF OnlyLine
  <2>3. CASE tabProcess
    <3>1. CASE \E n \in 0 .. ColMax : Completes(n)
      <4>1. UNCHANGED ringVars
        BY <2>3 DEF tabProcess
      <4>2. QED BY <1>1, <2>1, <2>2, <3>1, <4>1, CompletesEffect
    <3>2. CASE UNCHANGED lineVars
      BY <2>3, <3>2, StutterKeeps DEF tabProcess
    <3>3. QED BY <2>3, <3>1, <3>2 DEF tabProcess
  <2>4. CASE lineAck
    BY <1>1, <2>1, <2>4, AckIsEnter
  <2>5. ASSUME NEW key, bufferEdit(key) PROVE History!Next \/ bar' = bar
    <3>1. CASE historyNavigate(key)
      BY <1>1, <2>1, <3>1, RecallIsMove
    <3>2. CASE Navigates(key) \/ chRemove(key) \/ chInsert(key)
      BY <1>1, <2>1, <2>2, <3>2, NavigatesEffect, RemoveEffect, InsertEffect
    <3>3. CASE UNCHANGED <<lineVars, ringVars>>
      BY <3>3, StutterKeeps
    <3>4. QED BY <2>5, <3>1, <3>2, <3>3 DEF bufferEdit, Edits
  <2>6. QED BY <1>2, <2>3, <2>4, <2>5 DEF Key
<1>3. CASE \/ \E b \in Bytes : PendingByte(b) \/ RefusedByte(b)
           \/ Start \/ TransportChanges \/ Connected \/ AutoFails \/ TelnetInit
           \/ Welcome \/ Disconnected \/ Shutdown \/ Terminated \/ LoneEsc
           \/ ChunkEnds \/ UNCHANGED vars
  <2>1. UNCHANGED <<buf, idxEdit, idxView>>
    BY <1>3 DEF PendingByte, RefusedByte, Start, TransportChanges, Connected,
       AutoFails, TelnetInit, Welcome, Disconnected, Shutdown, Terminated,
       LoneEsc, ChunkEnds, vars
  <2>2. QED BY <2>1, StutterKeeps
<1>4. CASE autoCommandReceive
  <2>1. /\ idxEdit = 0 /\ UNCHANGED <<idxEdit, idxView>>
        /\ buf' = [buf EXCEPT ![0] = executed']
    BY <1>1, <1>4 DEF RingInv, autoCommandReceive
  <2>2. \A i \in Indices \ {idxEdit} : buf'[i] = buf[i]
    BY <1>1, <2>1 DEF LineTypes
  <2>3. QED BY <1>1, <2>1, <2>2, EditIsEdit
<1>5. QED BY <1>2, <1>3, <1>4 DEF Next

LEMMA HistoryInit == Init => History!Init
<1>1. SUFFICES ASSUME Init PROVE History!Init
  OBVIOUS
<1>2. /\ idxEdit = 0 /\ idxView = 0 /\ idxLast = NumLines
      /\ buf = [i \in Indices |-> << >>]
  BY <1>1 DEF Init
<1>3. idxEdit \in Indices /\ idxView \in Indices
  BY <1>2, IndexFacts
<1>4. Pos = 0 /\ Line = << >>
  BY <1>2, <1>3, PosIs DEF Line
<1>5. LineTypes /\ RingInv
  BY <1>1, EditInit, TypesOfTheLine, RingInit DEF EditInv
<1>6. pastBar = << >>
  BY <1>2, <1>5, NewestIs
<1>7. QED BY <1>4, <1>6 DEF History!Init, Pos

-----------------------------------------------------------------------------
(***************************************************************************)
(* Theorems.                                                               *)
(***************************************************************************)

\* Whatever bytes a client sends and whenever its connection ends: the types,
\* the line with its length and cursor, and what the prompt shows of them.
THEOREM EditInvariant == Spec => []EditInv
<1>1. QED BY EditInit, EditStep, PTL DEF Spec

\* No line outgrows its buffer and no index leaves the ring, whatever comes
\* (SystemCommanding.cpp:440-893).
THEOREM TypeCorrect == Spec => []TypeOK
<1>1. EditInv => TypeOK
  BY DEF EditInv
<1>2. QED BY <1>1, EditInvariant, PTL

\* The length that the code keeps beside each line is right, the cursor is in
\* the line, and no line outgrows its buffer (SystemCommanding.cpp:827-893).
THEOREM LineAlwaysConsistent == Spec => []LineIsConsistent
<1>1. EditInv => LineIsConsistent
  BY DEF EditInv, FitsInv, Fits, LineIsConsistent
<1>2. QED BY <1>1, EditInvariant, PTL

\* The line that is shown after a read() is the edited one, with its cursor
\* (SystemCommanding.cpp:449-463).
THEOREM PromptAlwaysCurrent == Spec => []PromptIsCurrent
<1>1. EditInv => PromptIsCurrent
  BY DEF EditInv, ShownInv, PromptIsCurrent
<1>2. QED BY <1>1, EditInvariant, PTL

\* What the enter key executes is the line that is edited, although the ring has
\* moved on by then (SystemCommanding.cpp:601-640).
THEOREM ExecutesTheEditedLine == Spec => ExecutesTheLine
<1>1. [Next]_vars => [mState = "StMain" /\ executed' \notin {executed, <<>>}
                        => executed' = Line]_vars
  <2>1. SUFFICES ASSUME Next, mState = "StMain", executed' \notin {executed, << >>}
                 PROVE  executed' = Line
    OBVIOUS
  <2>2. ASSUME lineAck PROVE executed' = Line
    <3>1. executed' = ExecutedLine
      BY <2>1, <2>2 DEF lineAck
    <3>2. Inserts => idxLast' = idxEdit
      BY <2>2 DEF lineAck, historyInsert
    <3>3. QED BY <3>1, <3>2 DEF ExecutedLine, Line
  <2>3. PICK b \in Bytes : Key(b)
    BY <2>1 DEF Next, Start, TransportChanges, Connected, autoCommandReceive,
       AutoFails, TelnetInit, Welcome, Disconnected, Shutdown, Terminated,
       LoneEsc, ChunkEnds, PendingByte, RefusedByte, vars
  <2>4. lineAck
    BY <2>1, <2>3 DEF Key, tabProcess, bufferEdit
  <2>5. QED BY <2>2, <2>4
<1>2. QED BY <1>1, PTL DEF Spec, ExecutesTheLine

\* Where the lines entered before are, and the recalled one among them.
THEOREM RingInvariant == Spec => []HistInv
<1>1. Init => HistInv
  BY EditInit, RingInit DEF HistInv
<1>2. HistInv /\ [Next]_vars => HistInv'
  BY EditStep, RingStepKeeps DEF HistInv
<1>3. QED BY <1>1, <1>2, PTL DEF Spec

\* The ring buffer with its three indices, and the line edited in place, are a
\* list of the lines entered last and a position in it.
THEOREM RingImplementsHistory == Spec => ImplementsHistory
<1>1. Init => History!Init
  BY HistoryInit
<1>2. HistInv /\ HistInv' /\ [Next]_vars => [History!Next]_(History!vars)
  BY HistoryStep, BarIs DEF HistInv
<1>3. QED
  BY <1>1, <1>2, RingInvariant, PTL DEF Spec, ImplementsHistory, History!Spec
=============================================================================
