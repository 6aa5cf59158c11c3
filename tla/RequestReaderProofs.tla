------------------------- MODULE RequestReaderProofs -------------------------
(* Proofs about RequestReader and the codecs it reads with, for texts of   *)
(* any length over any alphabet, any number of parameters and fields, and  *)
(* every way to cut a request into pieces or to end it early.              *)
EXTENDS RequestReader, SumTheorems, SequenceTheorems

(* The characters of the requests, and those that the encodings add.       *)
Char == Chars \cup {Quote, Backslash, "\n", " ", "n", ",", ":", "{", "}",
                    "%", "&", "=", "+", "0", "2", "3", "5", "6", "B", "D"}
Text == Seq(Char)

-----------------------------------------------------------------------------
(* Induction from the end of a text to its beginning.                      *)
LEMMA Backwards ==
  ASSUME NEW n \in Nat, NEW Good,
         \A i \in 1 .. n : (\A j \in i + 1 .. n : j \in Good) => i \in Good
  PROVE  1 .. n \subseteq Good
  <1> DEFINE Rest(m) == {i \in 1 .. n : i > n - m}
             Reached == {m \in Nat : Rest(m) \subseteq Good}
  <1>1. 0 \in Reached
    OBVIOUS
  <1>2. ASSUME NEW m \in Nat, m \in Reached PROVE m + 1 \in Reached
    <2>1. \A i \in Rest(m + 1) : i \in Rest(m) \/ i = n - m
      OBVIOUS
    <2>2. \A i \in 1 .. n : i = n - m => i \in Good
      BY <1>2
    <2>3. QED
      BY <1>2, <2>1, <2>2
  <1>3. Nat \subseteq Reached
    <2> HIDE DEF Reached
    <2> QED BY <1>1, <1>2, NumbersByPrevious
  <1>4. n \in Reached
    BY <1>3
  <1>5. QED
    BY <1>4

(* Induction from 1 upwards.                                               *)
LEMMA Forwards ==
  ASSUME NEW n \in Nat, NEW Good,
         \A i \in 1 .. n : (\A j \in 1 .. i - 1 : j \in Good) => i \in Good
  PROVE  1 .. n \subseteq Good
  <1> DEFINE Reached == {m \in Nat : \A i \in 1 .. n : i <= m => i \in Good}
  <1>1. 0 \in Reached
    OBVIOUS
  <1>2. ASSUME NEW m \in Nat, m \in Reached PROVE m + 1 \in Reached
    <2>1. \A i \in 1 .. n : i <= m + 1 => i <= m \/ i = m + 1
      OBVIOUS
    <2>2. \A i \in 1 .. n : i = m + 1 => i \in Good
      BY <1>2
    <2>3. QED
      BY <1>2, <2>1, <2>2
  <1>3. Nat \subseteq Reached
    <2> HIDE DEF Reached
    <2> QED BY <1>1, <1>2, NumbersByPrevious
  <1>4. QED
    BY <1>3

(* A set of positions has a first one.                                     *)
LEMMA FirstOf ==
  ASSUME NEW S, S \subseteq Nat, S # {}
  PROVE  \E i \in S : \A j \in S : i <= j
  <1>1. PICK i \in S : \A j \in S : ~(<<j, i>> \in OpToRel(<, Nat))
    BY NatLessThanWellFounded, WFMin
  <1>2. \A j \in S : ~(j < i)
    BY <1>1 DEF OpToRel
  <1>3. QED
    BY <1>2

-----------------------------------------------------------------------------
(* FlattenSeq, which writes a text piece by piece: where each piece begins *)
(* and what stands there.                                                  *)
FlattenStep(s, f, i) == IF i = 1 THEN s[i] ELSE f[i - 1] \o s[i]
FlattenFrom(s) == CHOOSE f : f = [i \in 1 .. Len(s) |-> FlattenStep(s, f, i)]

(* FlattenSeq takes the last of the texts that are written piece by        *)
(* piece.                                                                  *)
LEMMA FlattenUnfolds ==
  ASSUME NEW s PROVE FlattenSeq(s) = IF Len(s) = 0 THEN s ELSE FlattenFrom(s)[Len(s)]
  BY Zenon DEF FlattenSeq, FlattenFrom, FlattenStep

(* The function that FlattenSeq chooses exists: up to each piece, by       *)
(* induction.                                                              *)
LEMMA FlattenRecursion ==
  ASSUME NEW s, Len(s) \in Nat
  PROVE  FlattenFrom(s) = [i \in 1 .. Len(s) |-> FlattenStep(s, FlattenFrom(s), i)]
  <1> DEFINE n == Len(s)
             Upto(m) == {i \in 1 .. n : i <= m}
             Good == {m \in Nat : \E f : f = [i \in Upto(m) |-> FlattenStep(s, f, i)]}
  <1>1. 0 \in Good
    <2> DEFINE z == [i \in Upto(0) |-> 0]
    <2>1. z = [i \in Upto(0) |-> FlattenStep(s, z, i)]
      OBVIOUS
    <2>2. QED
      BY <2>1
  <1>2. ASSUME NEW m \in Nat, m \in Good PROVE m + 1 \in Good
    <2>1. PICK h : h = [i \in Upto(m) |-> FlattenStep(s, h, i)]
      BY <1>2
    <2> DEFINE k == [i \in Upto(m + 1) |-> FlattenStep(s, h, i)]
    <2>2. \A i \in Upto(m) : i \in Upto(m + 1) /\ k[i] = h[i]
      <3>1. \A i \in Upto(m) : i \in Upto(m + 1)
        OBVIOUS
      <3>2. \A i \in Upto(m) : h[i] = FlattenStep(s, h, i)
        BY <2>1
      <3>3. QED
        BY <3>1, <3>2
    <2>3. \A i \in Upto(m + 1) : i # 1 => i - 1 \in Upto(m)
      OBVIOUS
    <2>4. \A i \in Upto(m + 1) : FlattenStep(s, h, i) = FlattenStep(s, k, i)
      BY <2>2, <2>3 DEF FlattenStep
    <2>5. k = [i \in Upto(m + 1) |-> FlattenStep(s, k, i)]
      BY <2>4
    <2>6. \E f : f = [i \in Upto(m + 1) |-> FlattenStep(s, f, i)]
      BY <2>5, Zenon
    <2>7. m + 1 \in Nat
      OBVIOUS
    <2>8. QED
      BY <2>6, <2>7, Zenon
  <1>3. n \in Good
    <2>1. Nat \subseteq Good
      <3> HIDE DEF Good
      <3> QED BY <1>1, <1>2, NumbersByPrevious
    <2>2. QED
      BY <2>1
  <1>4. Upto(n) = 1 .. n
    OBVIOUS
  <1>5. QED
    BY <1>3, <1>4 DEF FlattenFrom

(* How much of the text comes before piece i.                              *)
Offset(s, i) == IF i = 1 THEN 0 ELSE Len(FlattenFrom(s)[i - 1])

(* Concatenation by positions.                                             *)
LEMMA ConcatFacts ==
  ASSUME NEW C, NEW a \in Seq(C), NEW b \in Seq(C)
  PROVE  /\ a \o b \in Seq(C) /\ Len(a \o b) = Len(a) + Len(b)
         /\ \A i \in 1 .. Len(a) : (a \o b)[i] = a[i]
         /\ \A j \in 1 .. Len(b) : (a \o b)[Len(a) + j] = b[j]
  OBVIOUS

(* Each piece stands in the flattened text right after those before it.    *)
LEMMA FlattenPieces ==
  ASSUME NEW C, NEW s \in Seq(Seq(C))
  PROVE  /\ FlattenSeq(s) \in Seq(C)
         /\ Offset(s, 1) = 0 /\ Offset(s, Len(s) + 1) = Len(FlattenSeq(s))
         /\ \A i \in 1 .. Len(s) :
              /\ Offset(s, i) \in Nat /\ s[i] \in Seq(C)
              /\ Offset(s, i + 1) = Offset(s, i) + Len(s[i])
              /\ Offset(s, i + 1) <= Len(FlattenSeq(s))
              /\ \A j \in 1 .. Len(s[i]) : FlattenSeq(s)[Offset(s, i) + j] = s[i][j]
         /\ \A p \in 1 .. Len(FlattenSeq(s)) :
              \E i \in 1 .. Len(s) : \E j \in 1 .. Len(s[i]) : p = Offset(s, i) + j
  <1> DEFINE n == Len(s)
             F == FlattenFrom(s)
  <1>0. n \in Nat /\ \A i \in 1 .. n : s[i] \in Seq(C) /\ Len(s[i]) \in Nat
    OBVIOUS
  <1>1. \A i \in 1 .. n : F[i] = IF i = 1 THEN s[i] ELSE F[i - 1] \o s[i]
    BY <1>0, FlattenRecursion DEF FlattenStep
  <1> HIDE DEF F
  <1> DEFINE Extends(i) ==
               /\ Len(F[i]) \in Nat
               /\ \A k \in 1 .. i :
                    /\ Len(F[k]) \in Nat /\ Len(F[k]) <= Len(F[i])
                    /\ \A j \in 1 .. Len(F[k]) : F[i][j] = F[k][j]
             Covered(i) ==
               \A p \in 1 .. Len(F[i]) : \E k \in 1 .. i : \E j \in 1 .. Len(s[k]) :
                 p = Offset(s, k) + j
             Good == {i \in 1 .. n : F[i] \in Seq(C) /\ Extends(i) /\ Covered(i)}
  <1>a. \A i \in Good : i \in 1 .. n /\ F[i] \in Seq(C) /\ Extends(i) /\ Covered(i)
    OBVIOUS
  <1>b. \A i \in 1 .. n : F[i] \in Seq(C) /\ Extends(i) /\ Covered(i) => i \in Good
    OBVIOUS
  <1> HIDE DEF Good, Extends, Covered
  <1>2. \A i \in 1 .. n : i > 1 => Offset(s, i) = Len(F[i - 1])
    BY DEF Offset, F
  <1>3. Offset(s, 1) = 0
    BY DEF Offset
  <1>4. ASSUME NEW i \in 1 .. n, \A j \in 1 .. i - 1 : j \in Good PROVE i \in Good
    <2>1. CASE i = 1
      <3>1. F[1] = s[1] /\ F[1] \in Seq(C) /\ Len(F[1]) \in Nat
        BY <2>1, <1>0, <1>1
      <3>2. Extends(1)
        BY <3>1 DEF Extends
      <3>3. Covered(1)
        BY <3>1, <1>3 DEF Covered
      <3>4. QED
        BY <2>1, <3>1, <3>2, <3>3, <1>b
    <2>2. CASE i > 1
      <3> DEFINE a == F[i - 1]
      <3>1. i - 1 \in Good /\ i - 1 \in 1 .. n
        <4>1. i - 1 \in 1 .. i - 1
          BY <2>2
        <4>2. QED
          BY <4>1, <1>4, <1>a
      <3>2. a \in Seq(C) /\ Extends(i - 1) /\ Covered(i - 1) /\ Len(a) \in Nat
        BY <3>1, <1>a
      <3>3. F[i] = a \o s[i]
        <4>1. i # 1
          BY <2>2
        <4>2. QED
          BY <4>1, <1>1, Zenon
      <3>4. /\ F[i] \in Seq(C) /\ Len(F[i]) = Len(a) + Len(s[i])
            /\ \A j \in 1 .. Len(a) : F[i][j] = a[j]
        <4>1. s[i] \in Seq(C)
          BY <1>0
        <4>2. /\ a \o s[i] \in Seq(C) /\ Len(a \o s[i]) = Len(a) + Len(s[i])
              /\ \A j \in 1 .. Len(a) : (a \o s[i])[j] = a[j]
          <5> HIDE DEF a
          <5>1. a \in Seq(C)
            BY <3>2
          <5>2. QED
            BY ONLY <5>1, <4>1, ConcatFacts
        <4>3. QED
          BY <3>3, <4>2, Zenon
      <3> HIDE DEF a
      <3>5. Extends(i)
        <4> SUFFICES ASSUME NEW k \in 1 .. i
                     PROVE  /\ Len(F[k]) \in Nat /\ Len(F[k]) <= Len(F[i])
                            /\ \A j \in 1 .. Len(F[k]) : F[i][j] = F[k][j]
          BY <3>2, <3>4, <1>0 DEF Extends
        <4>1. CASE k = i
          <5>1. Len(s[i]) \in Nat
            BY <1>0
          <5>2. QED
            BY <4>1, <5>1, <3>2, <3>4
        <4>2. CASE k \in 1 .. i - 1
          <5>1. /\ Len(F[k]) \in Nat /\ Len(F[k]) <= Len(a)
                /\ \A j \in 1 .. Len(F[k]) : a[j] = F[k][j]
            BY <4>2, <3>2 DEF a, Extends
          <5>2. QED
            <6>1. Len(s[i]) \in Nat
              BY <1>0
            <6>2. Len(F[i]) \in Nat /\ Len(a) <= Len(F[i])
              BY <6>1, <3>2, <3>4
            <6>3. Len(F[k]) <= Len(F[i])
              BY <5>1, <6>2, <3>2
            <6>4. \A j \in 1 .. Len(F[k]) : j \in 1 .. Len(a)
              BY <5>1, <3>2
            <6>5. \A j \in 1 .. Len(F[k]) : F[i][j] = F[k][j]
              BY <6>4, <5>1, <3>4, Zenon
            <6>6. QED
              BY <5>1, <6>3, <6>5
        <4>3. QED
          BY <4>1, <4>2
      <3>6. Covered(i)
        <4> SUFFICES ASSUME NEW p \in 1 .. Len(F[i])
                     PROVE  \E k \in 1 .. i : \E j \in 1 .. Len(s[k]) : p = Offset(s, k) + j
          BY DEF Covered
        <4>1. CASE p <= Len(a)
          <5>1. PICK k \in 1 .. i - 1 : \E j \in 1 .. Len(s[k]) : p = Offset(s, k) + j
            BY <4>1, <3>2 DEF a, Covered
          <5>2. k \in 1 .. i
            OBVIOUS
          <5>3. QED
            BY <5>1, <5>2
        <4>2. CASE p > Len(a)
          <5>1. Offset(s, i) = Len(a)
            BY <2>2, <1>2 DEF a
          <5>2. p - Len(a) \in 1 .. Len(s[i]) /\ p = Len(a) + (p - Len(a))
            BY <4>2, <3>2, <3>4, <1>0
          <5>3. i \in 1 .. i
            OBVIOUS
          <5>4. QED
            BY <5>1, <5>2, <5>3
        <4>3. QED
          BY <4>1, <4>2, <3>2, <3>4, <1>0
      <3>7. QED
        BY <3>4, <3>5, <3>6, <1>b
    <2>3. QED
      BY <2>1, <2>2
  <1>5. 1 .. n \subseteq Good
    BY <1>0, <1>4, Forwards
  <1>6. CASE n = 0
    <2>1. s = <<>> /\ FlattenSeq(s) = <<>>
      BY <1>6, FlattenUnfolds
    <2>2. 1 .. Len(s) = {} /\ FlattenSeq(s) \in Seq(C) /\ Len(FlattenSeq(s)) = 0
      <3>1. <<>> \in Seq(C) /\ Len(<<>>) = 0
        OBVIOUS
      <3>2. 1 .. Len(s) = {}
        BY <1>6
      <3>3. QED
        BY <2>1, <3>1, <3>2, Zenon
    <2>3. QED
      BY <2>2, <1>3, <1>6
  <1>7. CASE n # 0
    <2>1. FlattenSeq(s) = F[n] /\ n \in Good /\ n \in 1 .. n
      BY <1>0, <1>5, <1>7, FlattenUnfolds DEF F
    <2>2. Offset(s, n + 1) = Len(F[n])
      BY <1>0, <1>7 DEF Offset, F
    <2>3. ASSUME NEW i \in 1 .. n
          PROVE  /\ Offset(s, i) \in Nat
                 /\ Offset(s, i + 1) = Len(F[i])
                 /\ Len(F[i]) = Offset(s, i) + Len(s[i])
                 /\ \A j \in 1 .. Len(s[i]) : F[i][Offset(s, i) + j] = s[i][j]
      <3>1. Offset(s, i + 1) = Len(F[i])
        BY DEF Offset, F
      <3>2. CASE i = 1
        BY <3>1, <3>2, <1>0, <1>1, <1>3
      <3>3. CASE i > 1
        <4>1. i - 1 \in 1 .. n
          BY <3>3
        <4>2. F[i - 1] \in Seq(C)
          BY <4>1, <1>5, <1>a
        <4>3. F[i] = F[i - 1] \o s[i]
          <5>1. i # 1
            BY <3>3
          <5>2. QED
            BY <5>1, <1>1, Zenon
        <4>4. /\ Len(F[i - 1]) \in Nat /\ Len(F[i]) = Len(F[i - 1]) + Len(s[i])
              /\ \A j \in 1 .. Len(s[i]) : F[i][Len(F[i - 1]) + j] = s[i][j]
          <5>1. s[i] \in Seq(C)
            BY <1>0
          <5>2. Len(F[i - 1]) \in Nat
            BY <4>2
          <5>3. QED
            <6>1. /\ Len(F[i - 1] \o s[i]) = Len(F[i - 1]) + Len(s[i])
                  /\ \A j \in 1 .. Len(s[i]) : (F[i - 1] \o s[i])[Len(F[i - 1]) + j] = s[i][j]
              <7> DEFINE a == F[i - 1]
              <7>1. a \in Seq(C)
                BY <4>2
              <7>2. /\ Len(a \o s[i]) = Len(a) + Len(s[i])
                    /\ \A j \in 1 .. Len(s[i]) : (a \o s[i])[Len(a) + j] = s[i][j]
                <8> HIDE DEF a
                <8> QED BY ONLY <7>1, <5>1, ConcatFacts
              <7>3. QED
                BY <7>2
            <6>2. QED
              BY <4>3, <5>2, <6>1, Zenon
        <4>5. Offset(s, i) = Len(F[i - 1])
          BY <3>3, <1>2
        <4>6. QED
          BY <3>1, <4>4, <4>5
      <3>4. QED
        BY <3>2, <3>3
    <2>4. ASSUME NEW i \in 1 .. n
          PROVE  /\ Len(F[i]) <= Len(F[n])
                 /\ \A j \in 1 .. Len(s[i]) : F[n][Offset(s, i) + j] = s[i][j]
      <3>1. /\ Len(F[i]) \in Nat /\ Len(F[i]) <= Len(F[n])
            /\ \A j \in 1 .. Len(F[i]) : F[n][j] = F[i][j]
        BY <2>1, <1>a DEF Extends
      <3>2. \A j \in 1 .. Len(s[i]) : Offset(s, i) + j \in 1 .. Len(F[i])
        BY <2>3, <1>0
      <3>3. QED
        BY <3>1, <3>2, <2>3
    <2>5. F[n] \in Seq(C) /\ Covered(n)
      BY <2>1, <1>a
    <2>6. QED
      BY <2>1, <2>2, <2>3, <2>4, <2>5, <1>0, <1>3 DEF Covered
  <1>8. QED
    BY <1>6, <1>7

(* The rest of a text from position i on, written as it is read.           *)
LEMMA RestOfText ==
  ASSUME NEW C, NEW v \in Seq(C)
  PROVE  /\ SubSeq(v, 1, Len(v)) = v
         /\ SubSeq(v, Len(v) + 1, Len(v)) = <<>>
         /\ \A i \in 1 .. Len(v) : <<v[i]>> \o SubSeq(v, i + 1, Len(v)) = SubSeq(v, i, Len(v))
  <1>1. SubSeq(v, 1, Len(v)) = v
    OBVIOUS
  <1>2. SubSeq(v, Len(v) + 1, Len(v)) = <<>>
    OBVIOUS
  <1>3. ASSUME NEW i \in 1 .. Len(v)
        PROVE  <<v[i]>> \o SubSeq(v, i + 1, Len(v)) = SubSeq(v, i, Len(v))
    OBVIOUS
  <1>4. QED
    BY <1>1, <1>2, <1>3

-----------------------------------------------------------------------------
(* How a text stands in quotes: which characters come before the escape of *)
(* its character i, and what that escape is.                               *)
Escaped(v) == [i \in DOMAIN v |-> EscapeChar(v[i])]
At(v, i) == 1 + Offset(Escaped(v), i)

(* A character is written as itself or as a backslash and a letter that    *)
(* stands for it; only the first way leaves quotes and backslashes out.    *)
LEMMA EscapeOfChar ==
  ASSUME NEW c \in Char
  PROVE  /\ EscapeChar(c) \in Text
         /\ \/ c \notin {Quote, Backslash} /\ EscapeChar(c) = <<c>>
            \/ \E d \in Char : EscapeChar(c) = <<Backslash, d>> /\ UnescapeChar(d) = c
  <1>1. CASE c \in {Quote, Backslash}
    <2>1. EscapeChar(c) = <<Backslash, c>>
      BY <1>1 DEF EscapeChar, Quote, Backslash
    <2>2. UnescapeChar(c) = c
      BY <1>1 DEF UnescapeChar, Quote, Backslash
    <2>3. Backslash \in Char
      BY DEF Char
    <2>4. QED
      BY <2>1, <2>2, <2>3 DEF Text
  <1>2. CASE c \notin {Quote, Backslash} /\ c = "\n"
    <2>1. EscapeChar(c) = <<Backslash, "n">>
      BY <1>2 DEF EscapeChar
    <2>2. UnescapeChar("n") = c
      BY <1>2 DEF UnescapeChar
    <2>3. Backslash \in Char /\ "n" \in Char
      BY DEF Char
    <2>4. QED
      BY <2>1, <2>2, <2>3 DEF Text
  <1>3. CASE c \notin {Quote, Backslash} /\ c # "\n"
    <2>1. EscapeChar(c) = <<c>>
      BY <1>3 DEF EscapeChar
    <2>2. QED
      BY <2>1, <1>3 DEF Text
  <1>4. QED
    BY <1>1, <1>2, <1>3

(* Between the quotes of a quoted text, the escapes of its characters      *)
(* stand one after the other.                                              *)
LEMMA QuotedShape ==
  ASSUME NEW v \in Text
  PROVE  LET q == Quoted(v)
         IN  /\ q \in Text /\ Len(q) >= 2
             /\ q[1] = Quote /\ q[Len(q)] = Quote
             /\ At(v, 1) = 1 /\ At(v, Len(v) + 1) = Len(q) - 1
             /\ \A i \in 1 .. Len(v) :
                  /\ At(v, i) \in Nat /\ At(v, i + 1) \in Nat
                  /\ At(v, i) < At(v, i + 1) /\ At(v, i + 1) < Len(q)
                  /\ \/ /\ At(v, i + 1) = At(v, i) + 1
                        /\ q[At(v, i) + 1] = v[i] /\ v[i] \notin {Quote, Backslash}
                     \/ /\ At(v, i + 1) = At(v, i) + 2
                        /\ q[At(v, i) + 1] = Backslash
                        /\ UnescapeChar(q[At(v, i) + 2]) = v[i]
  <1> DEFINE s == Escaped(v)
             e == FlattenSeq(s)
             q == Quoted(v)
  <1>1. Len(v) \in Nat /\ DOMAIN v = 1 .. Len(v) /\ \A i \in 1 .. Len(v) : v[i] \in Char
    BY DEF Text
  <1>2. s = [i \in 1 .. Len(v) |-> EscapeChar(v[i])]
    BY <1>1 DEF Escaped
  <1>3. s \in Seq(Text) /\ Len(s) = Len(v)
    BY <1>1, <1>2, EscapeOfChar
  <1>4. \A i \in 1 .. Len(v) : s[i] = EscapeChar(v[i])
    BY <1>2
  <1>5. q = <<Quote>> \o e \o <<Quote>>
    BY DEF Quoted, Escape, Escaped
  <1> HIDE DEF s
  <1>6. /\ e \in Text
        /\ Offset(s, 1) = 0 /\ Offset(s, Len(s) + 1) = Len(e)
        /\ \A i \in 1 .. Len(s) :
             /\ Offset(s, i) \in Nat /\ s[i] \in Seq(Char)
             /\ Offset(s, i + 1) = Offset(s, i) + Len(s[i])
             /\ Offset(s, i + 1) <= Len(e)
             /\ \A j \in 1 .. Len(s[i]) : e[Offset(s, i) + j] = s[i][j]
    BY <1>3, FlattenPieces DEF Text
  <1> HIDE DEF e, q
  <1>7. /\ q \in Text /\ Len(q) = Len(e) + 2 /\ Len(e) \in Nat
        /\ q[1] = Quote /\ q[Len(q)] = Quote
        /\ \A k \in 1 .. Len(e) : q[1 + k] = e[k]
    <2>1. Quote \in Char
      BY DEF Char
    <2>2. QED
      BY <1>5, <1>6, <2>1 DEF Text
  <1>8. \A i : At(v, i) = 1 + Offset(s, i)
    BY DEF At, s
  <1>9. At(v, 1) = 1 /\ At(v, Len(v) + 1) = Len(q) - 1
    BY <1>3, <1>6, <1>7, <1>8
  <1>10. ASSUME NEW i \in 1 .. Len(v)
         PROVE  /\ At(v, i) \in Nat /\ At(v, i + 1) \in Nat
                /\ At(v, i) < At(v, i + 1) /\ At(v, i + 1) < Len(q)
                /\ \/ /\ At(v, i + 1) = At(v, i) + 1
                      /\ q[At(v, i) + 1] = v[i] /\ v[i] \notin {Quote, Backslash}
                   \/ /\ At(v, i + 1) = At(v, i) + 2
                      /\ q[At(v, i) + 1] = Backslash
                      /\ UnescapeChar(q[At(v, i) + 2]) = v[i]
    <2> DEFINE o == Offset(s, i)
    <2>1. /\ o \in Nat /\ Offset(s, i + 1) = o + Len(s[i]) /\ o + Len(s[i]) <= Len(e)
          /\ \A j \in 1 .. Len(s[i]) : e[o + j] = s[i][j]
      BY <1>3, <1>6
    <2>2. At(v, i) = 1 + o /\ At(v, i + 1) = 1 + (o + Len(s[i]))
      BY <1>8, <2>1
    <2>3. v[i] \in Char
      BY <1>1
    <2> HIDE DEF o
    <2>4. CASE v[i] \notin {Quote, Backslash} /\ s[i] = <<v[i]>>
      <3>1. Len(s[i]) = 1 /\ s[i][1] = v[i]
        BY <2>4
      <3>2. q[1 + (o + 1)] = v[i]
        BY <3>1, <2>1, <1>7
      <3>3. QED
        BY <3>1, <3>2, <2>1, <2>2, <2>4, <1>7
    <2>5. ASSUME NEW d \in Char, s[i] = <<Backslash, d>> /\ UnescapeChar(d) = v[i]
          PROVE  /\ At(v, i) \in Nat /\ At(v, i + 1) \in Nat
                 /\ At(v, i) < At(v, i + 1) /\ At(v, i + 1) < Len(q)
                 /\ At(v, i + 1) = At(v, i) + 2
                 /\ q[At(v, i) + 1] = Backslash
                 /\ UnescapeChar(q[At(v, i) + 2]) = v[i]
      <3>1. Len(s[i]) = 2 /\ s[i][1] = Backslash /\ s[i][2] = d
        BY <2>5
      <3>2. q[1 + (o + 1)] = Backslash /\ q[1 + (o + 2)] = d
        BY <3>1, <2>1, <1>7
      <3>3. At(v, i) + 1 = 1 + (o + 1) /\ At(v, i) + 2 = 1 + (o + 2)
        BY <2>1, <2>2
      <3>4. UnescapeChar(q[At(v, i) + 2]) = v[i] /\ q[At(v, i) + 1] = Backslash
        BY <3>2, <3>3, <2>5, Zenon
      <3>5. QED
        BY <3>1, <3>4, <2>1, <2>2, <1>7
    <2>6. QED
      BY <2>3, <2>4, <2>5, <1>4, EscapeOfChar
  <1>11. QED
    BY <1>7, <1>9, <1>10 DEF q

(* Token as an equation at each position.                                  *)
TokenStep(text, f, i) ==
  IF i > Len(text) THEN Broken
  ELSE IF text[i] = Quote THEN [whole |-> TRUE, text |-> <<>>, next |-> i + 1]
  ELSE IF text[i] # Backslash THEN Before(text[i], f[i + 1])
  ELSE IF i = Len(text) THEN Broken
  ELSE Before(UnescapeChar(text[i + 1]), f[i + 2])
TokenFrom(text) == CHOOSE f : f = [i \in 1 .. Len(text) + 2 |-> TokenStep(text, f, i)]

(* Token takes the value of its recursion after the opening quote.         *)
LEMMA TokenUnfolds ==
  ASSUME NEW text, NEW start
  PROVE  Token(text, start) =
           IF start > Len(text) \/ text[start] # Quote THEN Broken
           ELSE TokenFrom(text)[start + 1]
  BY Zenon DEF Token, TokenFrom, TokenStep

(* The recursion of Token has a solution: from the end of the text on, by  *)
(* induction.                                                              *)
LEMMA TokenRecursion ==
  ASSUME NEW text, Len(text) \in Nat
  PROVE  TokenFrom(text) = [i \in 1 .. Len(text) + 2 |-> TokenStep(text, TokenFrom(text), i)]
  <1> DEFINE n == Len(text) + 2
             Rest(m) == {i \in 1 .. n : i > n - m}
             Good == {m \in Nat : \E f : f = [i \in Rest(m) |-> TokenStep(text, f, i)]}
  <1>1. 0 \in Good
    <2> DEFINE z == [i \in Rest(0) |-> 0]
    <2>1. z = [i \in Rest(0) |-> TokenStep(text, z, i)]
      OBVIOUS
    <2>2. QED
      BY <2>1
  <1>2. ASSUME NEW m \in Nat, m \in Good PROVE m + 1 \in Good
    <2>1. PICK h : h = [i \in Rest(m) |-> TokenStep(text, h, i)]
      BY <1>2
    <2> DEFINE k == [i \in Rest(m + 1) |-> TokenStep(text, h, i)]
    <2>2. \A i \in Rest(m) : i \in Rest(m + 1) /\ k[i] = h[i]
      <3>1. \A i \in Rest(m) : i \in Rest(m + 1)
        OBVIOUS
      <3>2. \A i \in Rest(m) : h[i] = TokenStep(text, h, i)
        BY <2>1
      <3>3. QED
        BY <3>1, <3>2
    <2>3. \A i \in Rest(m + 1) : /\ i <= Len(text) => i + 1 \in Rest(m)
                                 /\ i < Len(text) => i + 2 \in Rest(m)
      OBVIOUS
    <2>4. ASSUME NEW i \in Rest(m + 1) PROVE TokenStep(text, h, i) = TokenStep(text, k, i)
      <3>1. CASE i > Len(text)
        BY <3>1 DEF TokenStep
      <3>2. CASE i = Len(text)
        <4>1. i + 1 \in Rest(m)
          BY <3>2, <2>3
        <4>2. k[i + 1] = h[i + 1]
          BY <4>1, <2>2, Zenon
        <4> HIDE DEF k
        <4>3. QED
          BY <3>2, <4>2 DEF TokenStep
      <3>3. CASE i < Len(text)
        <4>1. k[i + 1] = h[i + 1] /\ k[i + 2] = h[i + 2]
          <5>1. i + 1 \in Rest(m) /\ i + 2 \in Rest(m)
            BY <3>3, <2>3
          <5>2. QED
            BY <5>1, <2>2, Zenon
        <4> HIDE DEF k
        <4>2. QED
          BY <4>1 DEF TokenStep
      <3>4. QED
        BY <3>1, <3>2, <3>3
    <2>5. k = [i \in Rest(m + 1) |-> TokenStep(text, k, i)]
      BY <2>4
    <2>6. \E f : f = [i \in Rest(m + 1) |-> TokenStep(text, f, i)]
      BY <2>5, Zenon
    <2>7. m + 1 \in Nat
      OBVIOUS
    <2>8. QED
      BY <2>6, <2>7, Zenon
  <1>3. n \in Good
    <2>1. Nat \subseteq Good
      <3> HIDE DEF Good
      <3> QED BY <1>1, <1>2, NumbersByPrevious
    <2>2. n \in Nat
      OBVIOUS
    <2>3. QED
      BY <2>1, <2>2, Zenon
  <1>4. Rest(n) = 1 .. n
    OBVIOUS
  <1>5. QED
    BY <1>3, <1>4 DEF TokenFrom

(* So Token steps as its definition says at each position.                 *)
LEMMA TokenAt ==
  ASSUME NEW text, Len(text) \in Nat, NEW i \in 1 .. Len(text) + 2
  PROVE  TokenFrom(text)[i] = TokenStep(text, TokenFrom(text), i)
  BY TokenRecursion

-----------------------------------------------------------------------------
(* Of a text s that stands in the text X after its first p characters, as  *)
(* much as X has room for.                                                 *)
Stands(X, p, s) == \A j \in 1 .. Len(s) : p + j <= Len(X) => X[p + j] = s[j]

(* A quoted text is read back as it was, one that is cut off is not read.  *)
LEMMA TokenReads ==
  ASSUME NEW X \in Text, NEW v \in Text, NEW p \in Nat, p < Len(X), Stands(X, p, Quoted(v))
  PROVE  Token(X, p + 1) =
           IF p + Len(Quoted(v)) <= Len(X)
           THEN [whole |-> TRUE, text |-> v, next |-> p + Len(Quoted(v)) + 1]
           ELSE Broken
  <1> DEFINE q == Quoted(v)
             n == Len(v)
             f == TokenFrom(X)
             Fits == p + Len(q) <= Len(X)
             Read(i) == [whole |-> TRUE, text |-> SubSeq(v, i, n), next |-> p + Len(q) + 1]
             Good == {i \in 1 .. n + 1 :
                        p + At(v, i) < Len(X) + 2 =>
                          f[p + At(v, i) + 1] = IF Fits THEN Read(i) ELSE Broken}
  <1>1. /\ q \in Text /\ Len(q) >= 2 /\ Len(q) \in Nat /\ n \in Nat /\ Len(X) \in Nat
        /\ q[1] = Quote /\ q[Len(q)] = Quote
        /\ At(v, 1) = 1 /\ At(v, n + 1) = Len(q) - 1
    BY QuotedShape DEF Text
  <1>2. \A i \in 1 .. n :
          /\ At(v, i) \in Nat /\ At(v, i + 1) \in Nat
          /\ At(v, i) < At(v, i + 1) /\ At(v, i + 1) < Len(q)
          /\ \/ /\ At(v, i + 1) = At(v, i) + 1
                /\ q[At(v, i) + 1] = v[i] /\ v[i] \notin {Quote, Backslash}
             \/ /\ At(v, i + 1) = At(v, i) + 2
                /\ q[At(v, i) + 1] = Backslash
                /\ UnescapeChar(q[At(v, i) + 2]) = v[i]
    BY QuotedShape
  <1>12. \A i \in 1 .. n + 1 : At(v, i) \in Nat /\ At(v, i) + 1 <= Len(q)
    <2>1. \A i \in 1 .. n : At(v, i) \in Nat /\ At(v, i) + 1 <= Len(q)
      BY <1>1, <1>2
    <2>2. At(v, n + 1) \in Nat /\ At(v, n + 1) + 1 <= Len(q)
      BY <1>1
    <2>3. \A i \in 1 .. n + 1 : i \in 1 .. n \/ i = n + 1
      BY <1>1
    <2>4. QED
      BY <2>1, <2>2, <2>3
  <1>3. \A j \in 1 .. Len(q) : p + j <= Len(X) => X[p + j] = q[j]
    BY DEF Stands
  <1>4. \A i \in 1 .. Len(X) + 2 : f[i] = TokenStep(X, f, i)
    BY <1>1, TokenAt
  <1> HIDE DEF q, n, f
  <1>5. ASSUME NEW i \in 1 .. n + 1, \A j \in i + 1 .. n + 1 : j \in Good PROVE i \in Good
    <2> SUFFICES ASSUME p + At(v, i) < Len(X) + 2
                 PROVE  f[p + At(v, i) + 1] = IF Fits THEN Read(i) ELSE Broken
      OBVIOUS
    <2> DEFINE a == p + At(v, i) + 1
    <2>1. At(v, i) \in Nat /\ At(v, i) + 1 <= Len(q)
      BY <1>12
    <2>2. a \in 1 .. Len(X) + 2 /\ f[a] = TokenStep(X, f, a)
      BY <2>1, <1>1, <1>4
    <2>3. CASE a > Len(X)
      <3>1. ~Fits
        BY <2>1, <2>3, <1>1
      <3>2. QED
        BY <2>2, <2>3, <3>1 DEF TokenStep
    <2>4. CASE a <= Len(X) /\ i = n + 1
      <3>1. Fits /\ a = p + Len(q) /\ X[a] = Quote
        BY <2>4, <1>1, <1>3
      <3>2. f[a] = [whole |-> TRUE, text |-> <<>>, next |-> a + 1]
        BY <2>2, <2>4, <3>1 DEF TokenStep
      <3>3. SubSeq(v, i, n) = <<>>
        BY <2>4, RestOfText DEF Text, n
      <3>4. QED
        BY <3>1, <3>2, <3>3
    <2>5. CASE a <= Len(X) /\ i \in 1 .. n
      <3>1. /\ At(v, i) + 1 \in 1 .. Len(q) /\ X[a] = q[At(v, i) + 1]
        <4>1. At(v, i) + 1 \in 1 .. Len(q)
          BY <2>1, <1>1
        <4>2. QED
          BY <4>1, <2>1, <2>5, <1>3
      <3>2. i + 1 \in Good /\ <<v[i]>> \o SubSeq(v, i + 1, n) = SubSeq(v, i, n)
        <4>1. i + 1 \in Good
          BY <2>5, <1>1, <1>5
        <4>2. QED
          BY <4>1, <2>5, RestOfText DEF Text, n
      <3>3. p + At(v, i + 1) < Len(X) + 2 =>
              Before(v[i], f[p + At(v, i + 1) + 1]) = IF Fits THEN Read(i) ELSE Broken
        <4>1. p + At(v, i + 1) < Len(X) + 2 =>
                f[p + At(v, i + 1) + 1] = IF Fits THEN Read(i + 1) ELSE Broken
          BY <3>2
        <4>2. Before(v[i], Broken) = Broken
          BY DEF Before, Broken
        <4>3. Before(v[i], Read(i + 1)) = Read(i)
          BY <3>2 DEF Before
        <4>4. QED
          BY <4>1, <4>2, <4>3
      <3>4. CASE /\ At(v, i + 1) = At(v, i) + 1
                 /\ q[At(v, i) + 1] = v[i] /\ v[i] \notin {Quote, Backslash}
        <4>1. f[a] = Before(v[i], f[a + 1])
          BY <2>2, <2>5, <3>1, <3>4 DEF TokenStep
        <4>2. a + 1 = p + At(v, i + 1) + 1 /\ p + At(v, i + 1) < Len(X) + 2
          <5>1. At(v, i + 1) = At(v, i) + 1
            BY <3>4
          <5>2. QED
            BY ONLY <2>1, <2>5, <1>1, <5>1, p \in Nat DEF a
        <4>3. QED
          BY <4>1, <4>2, <3>3
      <3>5. CASE /\ At(v, i + 1) = At(v, i) + 2
                 /\ q[At(v, i) + 1] = Backslash
                 /\ UnescapeChar(q[At(v, i) + 2]) = v[i]
        <4>1. X[a] = Backslash /\ X[a] # Quote
          BY <3>1, <3>5 DEF Quote, Backslash
        <4>2. CASE a = Len(X)
          <5>1. f[a] = Broken
            BY <2>2, <4>1, <4>2, <2>5 DEF TokenStep
          <5>2. ~Fits
            BY <2>1, <2>5, <3>5, <4>2, <1>1, <1>2
          <5>3. QED
            BY <5>1, <5>2
        <4>3. CASE a < Len(X)
          <5>1. X[a + 1] = q[At(v, i) + 2]
            <6>1. At(v, i) + 2 < Len(q)
              BY <2>5, <3>5, <1>2
            <6>2. At(v, i) + 2 \in 1 .. Len(q) /\ p + (At(v, i) + 2) = a + 1
              <7>1. At(v, i) \in Nat /\ Len(q) \in Nat
                BY <2>1, <1>1
              <7>2. QED
                BY ONLY <7>1, <6>1, p \in Nat DEF a
            <6>3. a + 1 <= Len(X)
              BY <4>3, <2>2, <1>1
            <6>4. QED
              BY <6>2, <6>3, <1>3
          <5>2. f[a] = Before(UnescapeChar(X[a + 1]), f[a + 2])
            BY <2>2, <2>5, <4>1, <4>3 DEF TokenStep
          <5>3. a + 2 = p + At(v, i + 1) + 1 /\ p + At(v, i + 1) < Len(X) + 2
            <6>1. At(v, i + 1) = At(v, i) + 2
              BY <3>5
            <6>2. QED
              BY ONLY <2>1, <4>3, <1>1, <6>1, p \in Nat DEF a
          <5>4. QED
            BY <5>1, <5>2, <5>3, <3>3, <3>5
        <4>4. QED
          BY <4>2, <4>3, <2>2, <2>5, <1>1
      <3>6. QED
        BY <3>4, <3>5, <2>5, <1>2
    <2>6. QED
      BY <2>2, <2>3, <2>4, <2>5, <1>1
  <1>6. 1 .. n + 1 \subseteq Good
    <2> HIDE DEF Good
    <2>1. n + 1 \in Nat
      BY <1>1
    <2>2. QED
      BY <2>1, <1>5, Backwards
  <1>7. f[p + 2] = IF Fits THEN Read(1) ELSE Broken
    <2>1. 1 \in Good
      <3>1. 1 \in 1 .. n + 1
        BY <1>1
      <3> HIDE DEF Good
      <3>2. QED
        BY <3>1, <1>6
    <2>2. p + At(v, 1) < Len(X) + 2 /\ p + At(v, 1) + 1 = p + 2
      BY <1>1
    <2>3. QED
      BY <2>1, <2>2
  <1>8. Token(X, p + 1) = f[p + 2]
    <2>1. X[p + 1] = Quote
      BY <1>1, <1>3
    <2>2. p + 1 <= Len(X) /\ (p + 1) + 1 = p + 2
      BY <1>1
    <2>3. QED
      BY <2>1, <2>2, TokenUnfolds DEF f
  <1>9. SubSeq(v, 1, n) = v
    BY RestOfText DEF Text, n
  <1>10. QED
    BY <1>7, <1>8, <1>9 DEF q, n

-----------------------------------------------------------------------------
(* A set of positions of a text has a last one.                            *)
LEMMA LastOf ==
  ASSUME NEW n \in Nat, NEW S, S \subseteq 1 .. n, S # {}
  PROVE  \E i \in S : \A j \in S : i >= j
  <1> DEFINE R == {n - i : i \in S}
  <1>1. R \subseteq Nat /\ R # {}
    <2>1. \A i \in S : i \in 1 .. n
      OBVIOUS
    <2>2. \A i \in 1 .. n : n - i \in Nat
      OBVIOUS
    <2>3. \A i \in S : n - i \in R /\ n - i \in Nat
      BY <2>1, <2>2
    <2>4. QED
      BY <2>3
  <1>2. PICK r \in R : \A t \in R : r <= t
    <2> HIDE DEF R
    <2> QED BY <1>1, FirstOf
  <1>3. PICK i \in S : r = n - i
    BY <1>2
  <1>4. \A j \in S : n - j \in R /\ j \in 1 .. n
    OBVIOUS
  <1>5. \A j \in S : i >= j
    <2>1. \A j \in S : n - i <= n - j /\ i \in 1 .. n /\ j \in 1 .. n
      BY <1>2, <1>3, <1>4, Zenon
    <2>2. QED
      BY <2>1
  <1>6. QED
    BY <1>5

(* Find returns the first place of such a character, or the end of the     *)
(* text.                                                                   *)
LEMMA FindFirst ==
  ASSUME NEW text, Len(text) \in Nat, NEW chars, NEW start \in Nat
  PROVE  LET k == Find(text, chars, start)
         IN  \/ /\ k \in start .. Len(text) /\ text[k] \in chars
                /\ \A i \in start .. k - 1 : text[i] \notin chars
             \/ /\ k = Len(text) + 1
                /\ \A i \in start .. Len(text) : text[i] \notin chars
  <1> DEFINE found == {i \in start .. Len(text) : text[i] \in chars}
             k == Find(text, chars, start)
  <1>1. k = IF found = {} THEN Len(text) + 1
            ELSE CHOOSE i \in found : \A j \in found : i <= j
    BY DEF Find
  <1>2. CASE found = {}
    <2>1. k = Len(text) + 1 /\ \A i \in start .. Len(text) : text[i] \notin chars
      BY <1>1, <1>2
    <2>2. QED
      BY <2>1, Zenon
  <1>3. CASE found # {}
    <2>1. found \subseteq Nat
      OBVIOUS
    <2>2. \E i \in found : \A j \in found : i <= j
      <3> HIDE DEF found
      <3> QED BY <1>3, <2>1, FirstOf
    <2>3. k \in found /\ \A j \in found : k <= j
      <3> HIDE DEF found, k
      <3> QED BY <1>1, <1>3, <2>2
    <2>4. k \in start .. Len(text) /\ text[k] \in chars
      BY <2>3
    <2>5. ASSUME NEW i \in start .. k - 1 PROVE text[i] \notin chars
      <3> HIDE DEF k
      <3>1. i \in start .. Len(text) /\ ~(k <= i)
        BY <2>4
      <3>2. QED
        BY <2>3, <3>1
    <2>6. QED
      BY <2>4, <2>5, Zenon
  <1>4. QED
    BY <1>2, <1>3

(* A place with such a character and none before it is the one found.      *)
LEMMA FindIs ==
  ASSUME NEW text, Len(text) \in Nat, NEW chars, NEW start \in Nat, NEW end \in Nat,
         start <= end, end <= Len(text) + 1,
         \A i \in start .. end - 1 : text[i] \notin chars,
         end <= Len(text) => text[end] \in chars
  PROVE  Find(text, chars, start) = end
  <1> DEFINE k == Find(text, chars, start)
  <1>1. \/ /\ k \in start .. Len(text) /\ text[k] \in chars
           /\ \A i \in start .. k - 1 : text[i] \notin chars
        \/ /\ k = Len(text) + 1
           /\ \A i \in start .. Len(text) : text[i] \notin chars
    BY FindFirst
  <1> HIDE DEF k
  <1>2. k \in Nat /\ k <= Len(text) + 1 /\ k >= start
    BY <1>1
  <1>3. ~(k < end)
    <2>1. k < end => k \in start .. end - 1 /\ k <= Len(text)
      BY <1>2
    <2>2. k <= Len(text) => text[k] \in chars
      BY <1>1
    <2>3. QED
      BY <2>1, <2>2
  <1>4. ~(k > end)
    <2>1. k > end => end <= Len(text) /\ end \in start .. k - 1 /\ end \in start .. Len(text)
      BY <1>2
    <2>2. QED
      BY <2>1, <1>1
  <1>5. QED
    BY <1>2, <1>3, <1>4 DEF k

(* A text without whitespace is not trimmed.                               *)
LEMMA TrimSolid ==
  ASSUME NEW t \in Text, t # <<>>, \A j \in DOMAIN t : t[j] \notin Whitespace
  PROVE  Trim(t) = t
  <1> DEFINE solid == {i \in DOMAIN t : t[i] \notin Whitespace}
             a == CHOOSE i \in solid : \A j \in solid : i <= j
             b == CHOOSE i \in solid : \A j \in solid : i >= j
  <1>1. solid = 1 .. Len(t) /\ Len(t) \in Nat /\ Len(t) >= 1
    BY DEF Text
  <1>2. Trim(t) = IF solid = {} THEN <<>> ELSE SubSeq(t, a, b)
    BY Zenon DEF Trim
  <1> HIDE DEF solid
  <1>3. a = 1
    <2>1. 1 \in solid /\ \A j \in solid : 1 <= j
      BY <1>1
    <2>2. a \in solid /\ \A j \in solid : a <= j
      BY <2>1
    <2>3. QED
      BY <2>1, <2>2, <1>1
  <1>4. b = Len(t)
    <2>1. Len(t) \in solid /\ \A j \in solid : Len(t) >= j
      BY <1>1
    <2>2. b \in solid /\ \A j \in solid : b >= j
      BY <2>1
    <2>3. QED
      BY <2>1, <2>2, <1>1
  <1>5. Trim(t) = SubSeq(t, 1, Len(t))
    <2>1. solid # {}
      BY <1>1
    <2> HIDE DEF a, b
    <2>2. QED
      BY <2>1, <1>2, <1>3, <1>4, Zenon
  <1>6. QED
    BY <1>5, RestOfText DEF Text

(* Where a token that was read ends.                                       *)
LEMMA TokenBounds ==
  ASSUME NEW text, Len(text) \in Nat, NEW start \in Nat, Token(text, start).whole
  PROVE  Token(text, start).next \in start + 2 .. Len(text) + 1
  <1> DEFINE f == TokenFrom(text)
             n == Len(text) + 2
             Good == {i \in 1 .. n : f[i] = Broken \/ f[i].next \in i + 1 .. Len(text) + 1}
  <1>0. n \in Nat
    OBVIOUS
  <1>1. \A i \in 1 .. n : f[i] = TokenStep(text, f, i)
    BY TokenAt
  <1>2. \A c, token : Before(c, token) = Broken \/ Before(c, token).next = token.next
    BY DEF Before
  <1>3. Before(CHOOSE c : TRUE, Broken) = Broken /\ \A c : Before(c, Broken) = Broken
    BY DEF Before, Broken
  <1> HIDE DEF f
  <1>4. ASSUME NEW i \in 1 .. n, \A j \in i + 1 .. n : j \in Good PROVE i \in Good
    <2>1. CASE i > Len(text)
      BY <2>1, <1>1 DEF TokenStep
    <2>2. CASE i <= Len(text) /\ text[i] = Quote
      <3>1. f[i] = [whole |-> TRUE, text |-> <<>>, next |-> i + 1]
        BY <2>2, <1>1 DEF TokenStep
      <3>2. f[i].next = i + 1
        BY <3>1
      <3>3. QED
        BY <3>2, <2>2
    <2>3. ASSUME NEW c, NEW j \in i + 1 .. n, f[i] = Before(c, f[j]) PROVE i \in Good
      <3>1. f[j] = Broken \/ f[j].next \in j + 1 .. Len(text) + 1
        BY <1>4
      <3>2. CASE f[j] = Broken
        BY <2>3, <3>2, <1>3
      <3>3. CASE f[j].next \in j + 1 .. Len(text) + 1
        <4>1. f[i] = Broken \/ f[i].next = f[j].next
          BY <2>3, <1>2
        <4>2. f[j].next \in i + 1 .. Len(text) + 1
          BY <3>3
        <4>3. QED
          BY <4>1, <4>2
      <3>4. QED
        BY <3>1, <3>2, <3>3
    <2>4. CASE i <= Len(text) /\ text[i] # Quote /\ text[i] # Backslash
      <3>1. f[i] = Before(text[i], f[i + 1]) /\ i + 1 \in i + 1 .. n
        <4>1. f[i] = TokenStep(text, f, i) /\ ~(i > Len(text)) /\ i + 1 \in i + 1 .. n
          BY <2>4, <1>1
        <4>2. QED
          BY <4>1, <2>4, Zenon DEF TokenStep
      <3>2. QED
        BY <3>1, <2>3
    <2>5. CASE i <= Len(text) /\ text[i] # Quote /\ text[i] = Backslash
      <3>1. CASE i = Len(text)
        <4>1. f[i] = Broken
          BY <2>5, <3>1, <1>1 DEF TokenStep
        <4>2. QED
          BY <4>1
      <3>2. CASE i < Len(text)
        <4>1. f[i] = Before(UnescapeChar(text[i + 1]), f[i + 2]) /\ i + 2 \in i + 1 .. n
          <5>1. /\ f[i] = TokenStep(text, f, i) /\ ~(i > Len(text)) /\ i # Len(text)
                /\ i + 2 \in i + 1 .. n
            BY <2>5, <3>2, <1>1
          <5>2. QED
            BY <5>1, <2>5, Zenon DEF TokenStep
        <4>2. QED
          BY <4>1, <2>3
      <3>3. QED
        BY <3>1, <3>2, <2>5
    <2>6. QED
      BY <2>1, <2>2, <2>4, <2>5
  <1>5. 1 .. n \subseteq Good
    <2> HIDE DEF Good, n
    <2> QED BY <1>0, <1>4, Backwards
  <1>6. ~Broken.whole
    BY DEF Broken
  <1>7. start <= Len(text) /\ Token(text, start) = f[start + 1]
    BY <1>6, TokenUnfolds DEF f
  <1>8. start + 1 \in Good
    BY <1>5, <1>7
  <1>9. QED
    BY <1>6, <1>7, <1>8

-----------------------------------------------------------------------------
(* Parse as an equation at each position: the key that is read from pos,   *)
(* the position where its value begins, the value and what comes after it. *)
Key(text, pos) == Token(text, Find(text, {Quote}, pos))
Colon(text, pos) == Find(text, {":"}, Key(text, pos).next)
Solid(text, colon) ==
  CHOOSE i \in colon + 1 .. Len(text) + 2 :
    /\ i > Len(text) \/ text[i] \notin Whitespace
    /\ \A j \in colon + 1 .. i - 1 : text[j] \in Whitespace
Begin(text, pos) == Solid(text, Colon(text, pos))
ValueAt(text, start) == IF text[start] = Quote THEN Token(text, start) ELSE Bare(text, start)
Value(text, pos) == ValueAt(text, Begin(text, pos))
After(text, value) ==
  IF value.next <= Len(text) /\ text[value.next] = "," THEN value.next + 1 ELSE value.next
HasField(text, pos) ==
  Key(text, pos).whole /\ ~(Begin(text, pos) > Len(text)) /\ Value(text, pos).whole

FieldStep(text, f, pos) ==
  IF ~Key(text, pos).whole THEN NoFields
  ELSE IF Begin(text, pos) > Len(text) THEN NoFields
  ELSE IF ~Value(text, pos).whole THEN NoFields
  ELSE Put(f[After(text, Value(text, pos))], Key(text, pos).text, Value(text, pos).text)
FieldsFrom(text) == CHOOSE f : f = [pos \in 1 .. Len(text) + 2 |-> FieldStep(text, f, pos)]

(* Parse takes the value of its recursion at the beginning of the inner    *)
(* text.                                                                   *)
LEMMA ParseUnfolds ==
  ASSUME NEW body PROVE Parse(body) = FieldsFrom(Inner(body))[1]
  BY Zenon DEF Parse, FieldsFrom, FieldStep, After, Value, ValueAt, Begin, Solid, Colon, Key

(* The value begins after the colon, at the first character that is not    *)
(* whitespace.                                                             *)
LEMMA SolidIs ==
  ASSUME NEW text, Len(text) \in Nat, NEW colon \in Nat, colon <= Len(text) + 1
  PROVE  /\ Solid(text, colon) \in colon + 1 .. Len(text) + 2
         /\ colon + 1 <= Len(text) /\ text[colon + 1] \notin Whitespace =>
              Solid(text, colon) = colon + 1
         /\ colon + 1 > Len(text) => Solid(text, colon) > Len(text)
  <1> DEFINE Can == {i \in colon + 1 .. Len(text) + 2 : i > Len(text) \/ text[i] \notin Whitespace}
             k == Solid(text, colon)
  <1>1. Can \subseteq Nat /\ Len(text) + 2 \in Can
    OBVIOUS
  <1>2. PICK i \in Can : \A j \in Can : i <= j
    <2> HIDE DEF Can
    <2> QED BY <1>1, FirstOf
  <1>3. i \in colon + 1 .. Len(text) + 2 /\ (i > Len(text) \/ text[i] \notin Whitespace)
    BY <1>2
  <1>4. \A j \in colon + 1 .. i - 1 : text[j] \in Whitespace
    <2> SUFFICES ASSUME NEW j \in colon + 1 .. i - 1 PROVE text[j] \in Whitespace
      OBVIOUS
    <2>1. j \in colon + 1 .. Len(text) + 2 /\ ~(i <= j)
      BY <1>3
    <2>2. j \notin Can
      BY <2>1, <1>2
    <2>3. QED
      BY <2>1, <2>2
  <1>5. /\ k \in colon + 1 .. Len(text) + 2
        /\ k > Len(text) \/ text[k] \notin Whitespace
        /\ \A j \in colon + 1 .. k - 1 : text[j] \in Whitespace
    <2> HIDE DEF Can
    <2> QED BY <1>3, <1>4 DEF Solid
  <1> HIDE DEF k, Can
  <1>6. ASSUME colon + 1 <= Len(text), text[colon + 1] \notin Whitespace
        PROVE  k = colon + 1
    <2>1. ~(colon + 1 \in colon + 1 .. k - 1)
      BY <1>5, <1>6
    <2>2. QED
      BY <2>1, <1>5
  <1>7. colon + 1 > Len(text) => k > Len(text)
    BY <1>5
  <1>8. QED
    BY <1>5, <1>6, <1>7 DEF k

(* The rest of the object is read from a later position.                   *)
LEMMA FieldsGoOn ==
  ASSUME NEW text, Len(text) \in Nat, NEW pos \in 1 .. Len(text) + 2, HasField(text, pos)
  PROVE  After(text, Value(text, pos)) \in pos + 1 .. Len(text) + 1
  <1> DEFINE at == Find(text, {Quote}, pos)
             key == Key(text, pos)
             colon == Colon(text, pos)
             start == Begin(text, pos)
             value == Value(text, pos)
  <1>1. at \in Nat /\ (at >= pos \/ at = Len(text) + 1)
    <2> HIDE DEF at
    <2>1. \/ at \in pos .. Len(text) \/ at = Len(text) + 1
      BY FindFirst DEF at
    <2>2. QED
      BY <2>1
  <1>2. key.next \in at + 2 .. Len(text) + 1
    BY <1>1, TokenBounds DEF HasField, Key
  <1> HIDE DEF at, key
  <1>3. key.next \in pos + 1 .. Len(text) + 1 /\ key.next \in Nat
    BY <1>1, <1>2
  <1>4. colon \in key.next .. Len(text) + 1
    <2>1. colon = Find(text, {":"}, key.next)
      BY DEF Colon, key
    <2>2. colon \in key.next .. Len(text) \/ colon = Len(text) + 1
      <3> HIDE DEF colon
      <3> QED BY <2>1, <1>3, FindFirst
    <2>3. QED
      BY <2>2, <1>3
  <1> HIDE DEF colon
  <1>5. start \in colon + 1 .. Len(text) + 2
    BY <1>3, <1>4, SolidIs DEF Begin, colon
  <1> HIDE DEF start
  <1>6. start <= Len(text) /\ start \in Nat
    BY <1>3, <1>4, <1>5 DEF HasField, start
  <1>7. value.whole /\ value = IF text[start] = Quote THEN Token(text, start) ELSE Bare(text, start)
    BY DEF HasField, Value, ValueAt, start
  <1>8. value.next \in start .. Len(text) + 1
    <2> HIDE DEF value
    <2>1. CASE text[start] = Quote
      <3>1. value = Token(text, start)
        BY <1>7, <2>1
      <3>2. value.next \in start + 2 .. Len(text) + 1
        BY <3>1, <1>6, <1>7, TokenBounds
      <3>3. QED
        BY <3>2, <1>6
    <2>2. CASE text[start] # Quote
      <3> DEFINE end == Find(text, {",", "}"}, start)
      <3>1. value.next = end
        BY <1>7, <2>2 DEF Bare
      <3>2. end \in start .. Len(text) \/ end = Len(text) + 1
        <4> HIDE DEF end
        <4> QED BY <1>6, FindFirst DEF end
      <3> HIDE DEF end
      <3>3. QED
        BY <3>1, <3>2, <1>6
    <2>3. QED
      BY <2>1, <2>2
  <1> HIDE DEF value
  <1>9. QED
    <2>1. value.next \in pos + 1 .. Len(text) + 1
      BY <1>3, <1>4, <1>5, <1>6, <1>8
    <2>2. \/ After(text, value) = value.next
          \/ value.next <= Len(text) /\ After(text, value) = value.next + 1
      BY Zenon DEF After
    <2> DEFINE a == After(text, value)
    <2>3. a \in pos + 1 .. Len(text) + 1
      <3> HIDE DEF a
      <3> QED BY <2>1, <2>2 DEF a
    <2>4. QED
      BY <2>3 DEF value

(* The recursion of Parse has a solution, as every step goes on further    *)
(* right.                                                                  *)
LEMMA FieldsRecursion ==
  ASSUME NEW text, Len(text) \in Nat
  PROVE  FieldsFrom(text) = [pos \in 1 .. Len(text) + 2 |-> FieldStep(text, FieldsFrom(text), pos)]
  <1> DEFINE n == Len(text) + 2
             Rest(m) == {i \in 1 .. n : i > n - m}
             Good == {m \in Nat : \E f : f = [i \in Rest(m) |-> FieldStep(text, f, i)]}
  <1>1. 0 \in Good
    <2> DEFINE z == [i \in Rest(0) |-> 0]
    <2>1. z = [i \in Rest(0) |-> FieldStep(text, z, i)]
      OBVIOUS
    <2>2. QED
      BY <2>1
  <1>2. ASSUME NEW m \in Nat, m \in Good PROVE m + 1 \in Good
    <2>1. PICK h : h = [i \in Rest(m) |-> FieldStep(text, h, i)]
      BY <1>2
    <2> DEFINE k == [i \in Rest(m + 1) |-> FieldStep(text, h, i)]
    <2>2. \A i \in Rest(m) : i \in Rest(m + 1) /\ k[i] = h[i]
      <3>1. \A i \in Rest(m) : i \in Rest(m + 1)
        OBVIOUS
      <3>2. \A i \in Rest(m) : h[i] = FieldStep(text, h, i)
        BY <2>1
      <3>3. QED
        BY <3>1, <3>2
    <2>3. ASSUME NEW i \in Rest(m + 1) PROVE FieldStep(text, h, i) = FieldStep(text, k, i)
      <3> DEFINE a == After(text, Value(text, i))
      <3>1. HasField(text, i) => k[a] = h[a]
        <4> SUFFICES ASSUME HasField(text, i) PROVE k[a] = h[a]
          OBVIOUS
        <4>1. a \in i + 1 .. Len(text) + 1
          <5>1. i \in 1 .. Len(text) + 2
            OBVIOUS
          <5>2. QED
            BY <5>1, FieldsGoOn
        <4> HIDE DEF a
        <4>2. a \in Rest(m)
          BY <4>1
        <4>3. QED
          BY <4>2, <2>2, Zenon
      <3> HIDE DEF k
      <3>2. QED
        BY <3>1, Zenon DEF FieldStep, HasField
    <2>4. k = [i \in Rest(m + 1) |-> FieldStep(text, k, i)]
      BY <2>3
    <2>5. \E f : f = [i \in Rest(m + 1) |-> FieldStep(text, f, i)]
      BY <2>4, Zenon
    <2>6. m + 1 \in Nat
      OBVIOUS
    <2>7. QED
      BY <2>5, <2>6, Zenon
  <1>3. n \in Good
    <2>1. Nat \subseteq Good
      <3> HIDE DEF Good
      <3> QED BY <1>1, <1>2, NumbersByPrevious
    <2>2. n \in Nat
      OBVIOUS
    <2>3. QED
      BY <2>1, <2>2, Zenon
  <1>4. Rest(n) = 1 .. n
    OBVIOUS
  <1>5. QED
    BY <1>3, <1>4 DEF FieldsFrom

(* So Parse steps as its definition says at each position.                 *)
LEMMA FieldsAt ==
  ASSUME NEW text, Len(text) \in Nat, NEW pos \in 1 .. Len(text) + 2
  PROVE  FieldsFrom(text)[pos] =
           IF HasField(text, pos)
           THEN Put(FieldsFrom(text)[After(text, Value(text, pos))],
                    Key(text, pos).text, Value(text, pos).text)
           ELSE NoFields
  <1>1. FieldsFrom(text)[pos] = FieldStep(text, FieldsFrom(text), pos)
    BY FieldsRecursion
  <1>2. QED
    BY <1>1, Zenon DEF FieldStep, HasField

-----------------------------------------------------------------------------
Comma == ","
Closing == "}"
Ends == {",", "}"}

(* A field as JSON.stringify writes it.                                    *)
FieldOK(f) ==
  /\ f \in FieldType
  /\ ~f.quoted =>
       /\ f.value # <<>>
       /\ \A j \in DOMAIN f.value : f.value[j] \notin Whitespace \cup {Quote, ",", "}"}
FieldValue(f) == IF f.quoted THEN Quoted(f.value) ELSE f.value

(* Keys and values are texts.                                              *)
LEMMA FieldTexts ==
  ASSUME NEW f \in FieldType
  PROVE  f.key \in Text /\ f.value \in Text /\ f.quoted \in BOOLEAN
  <1>1. Chars \subseteq Char
    BY DEF Char
  <1>2. \A v \in Seq(Chars) : v \in Text
    <2> HIDE DEF Char
    <2> QED BY <1>1, SeqMonotonic DEF Text
  <1>3. QED
    BY <1>2 DEF FieldType

(* A field is its key in quotes, a colon and its value, one after the      *)
(* other.                                                                  *)
LEMMA FieldShape ==
  ASSUME NEW f, FieldOK(f)
  PROVE  LET w == BuildField(f)
             k == Quoted(f.key)
             u == FieldValue(f)
         IN  /\ w \in Text /\ k \in Text /\ u \in Text
             /\ Len(k) >= 2 /\ Len(u) >= 1 /\ Len(w) = Len(k) + 1 + Len(u)
             /\ k[1] = Quote /\ u[1] \notin Whitespace
             /\ \A j \in 1 .. Len(k) : w[j] = k[j]
             /\ w[Len(k) + 1] = ":"
             /\ \A j \in 1 .. Len(u) : w[Len(k) + 1 + j] = u[j]
  <1> DEFINE w == BuildField(f)
             k == Quoted(f.key)
             u == FieldValue(f)
  <1>1. k \in Text /\ Len(k) >= 2 /\ k[1] = Quote
    BY FieldTexts, QuotedShape DEF FieldOK
  <1>2. u \in Text /\ Len(u) >= 1 /\ u[1] \notin Whitespace
    <2>1. CASE f.quoted
      <3>1. u = Quoted(f.value)
        BY <2>1 DEF FieldValue
      <3>2. Quoted(f.value) \in Text /\ Len(Quoted(f.value)) >= 2 /\ Quoted(f.value)[1] = Quote
        BY FieldTexts, QuotedShape DEF FieldOK
      <3> HIDE DEF u
      <3>3. Quote \notin Whitespace
        BY DEF Quote, Whitespace
      <3>4. u \in Text /\ Len(u) >= 2 /\ u[1] = Quote
        BY <3>1, <3>2, Zenon
      <3>5. Len(u) \in Nat
        BY <3>4 DEF Text
      <3>6. QED
        BY <3>3, <3>4, <3>5
    <2>2. CASE ~f.quoted
      <3>1. u = f.value /\ u \in Text /\ u # <<>>
        BY <2>2, FieldTexts DEF FieldValue, FieldOK
      <3>2. Len(u) >= 1 /\ 1 \in DOMAIN u
        BY <3>1 DEF Text
      <3>3. QED
        BY <3>1, <3>2, <2>2 DEF FieldOK
    <2>3. QED
      BY <2>1, <2>2
  <1>3. w = k \o <<":">> \o u
    BY DEF BuildField, FieldValue
  <1> HIDE DEF w, k, u
  <1>4. /\ w \in Text /\ Len(w) = Len(k) + 1 + Len(u)
        /\ \A j \in 1 .. Len(k) : w[j] = k[j]
        /\ w[Len(k) + 1] = ":"
        /\ \A j \in 1 .. Len(u) : w[Len(k) + 1 + j] = u[j]
    <2>1. ":" \in Char
      BY DEF Char
    <2>2. QED
      BY <1>1, <1>2, <1>3, <2>1 DEF Text
  <1>5. QED
    BY <1>1, <1>2, <1>4 DEF w, k, u

(* The key of a field and the colon after it.                              *)
LEMMA KeyRead ==
  ASSUME NEW X \in Text, NEW v \in Text, NEW p \in Nat, p < Len(X),
         NEW K \in Nat, K = Len(Quoted(v)), Stands(X, p, Quoted(v)),
         p + K < Len(X) => X[p + K + 1] = ":"
  PROVE  /\ p + K > Len(X) => ~Key(X, p + 1).whole
         /\ p + K <= Len(X) => /\ Key(X, p + 1).whole /\ Key(X, p + 1).text = v
                               /\ Colon(X, p + 1) = p + K + 1
  <1>1. Len(X) \in Nat /\ X[p + 1] = Quote
    <2>1. Len(X) \in Nat /\ 1 \in 1 .. K /\ Quoted(v)[1] = Quote
      BY QuotedShape DEF Text
    <2>2. QED
      BY <2>1 DEF Stands
  <1>2. Find(X, {Quote}, p + 1) = p + 1
    <2> DEFINE a == p + 1
    <2>1. a \in Nat /\ a <= Len(X) + 1 /\ a <= a /\ \A i \in a .. a - 1 : X[i] \notin {Quote}
      BY <1>1
    <2>2. X[a] \in {Quote}
      BY <1>1
    <2> HIDE DEF a
    <2>3. Find(X, {Quote}, a) = a
      BY <1>1, <2>1, <2>2, FindIs
    <2>4. QED
      BY <2>3 DEF a
  <1>3. Key(X, p + 1) = IF p + K <= Len(X)
                        THEN [whole |-> TRUE, text |-> v, next |-> p + K + 1]
                        ELSE Broken
    BY <1>2, TokenReads DEF Key
  <1>4. p + K > Len(X) => ~Key(X, p + 1).whole
    BY <1>1, <1>3 DEF Broken
  <1>5. ASSUME p + K <= Len(X)
        PROVE  /\ Key(X, p + 1).whole /\ Key(X, p + 1).text = v
               /\ Colon(X, p + 1) = p + K + 1
    <2>1. /\ Key(X, p + 1).whole /\ Key(X, p + 1).text = v
          /\ Key(X, p + 1).next = p + K + 1
      BY <1>3, <1>5
    <2> DEFINE c == p + K + 1
    <2>2. c \in Nat /\ c <= Len(X) + 1 /\ c <= c /\ \A i \in c .. c - 1 : X[i] \notin {":"}
      BY <1>1, <1>5
    <2>3. c <= Len(X) => X[c] \in {":"}
      BY <1>1
    <2>4. Colon(X, p + 1) = Find(X, {":"}, c)
      BY <2>1 DEF Colon
    <2> HIDE DEF c
    <2>5. Find(X, {":"}, c) = c
      BY <1>1, <2>2, <2>3, FindIs
    <2>6. QED
      BY <2>1, <2>4, <2>5 DEF c
  <1>6. QED
    BY <1>4, <1>5

(* A part of a text that is another text.                                  *)
LEMMA PartIs ==
  ASSUME NEW X \in Text, NEW u \in Text, NEW p \in Nat, NEW e \in Nat,
         e = p + Len(u), e <= Len(X), Stands(X, p, u)
  PROVE  SubSeq(X, p + 1, e) = u
  <1>1. Len(u) \in Nat /\ Len(X) \in Nat /\ X \in Seq(Char) /\ u \in Seq(Char)
    BY DEF Text
  <1>2. \A j \in 1 .. Len(u) : X[p + j] = u[j]
    BY <1>1 DEF Stands
  <1>3. CASE Len(u) = 0
    <2>1. u = <<>>
      BY <1>1, <1>3
    <2>2. SubSeq(X, p + 1, e) = <<>>
      BY <1>1, <1>3
    <2>3. QED
      BY <2>1, <2>2
  <1>4. CASE Len(u) > 0
    <2> DEFINE s == SubSeq(X, p + 1, e)
    <2>1. s \in Seq(Char) /\ Len(s) = Len(u) /\ \A j \in 1 .. Len(u) : s[j] = X[p + j]
      BY <1>1, <1>4
    <2> HIDE DEF s
    <2>2. \A j \in 1 .. Len(u) : s[j] = u[j]
      BY <2>1, <1>2
    <2>3. s = u
      BY ONLY <2>1, <2>2, <1>1, SeqEqual
    <2>4. QED
      BY <2>3 DEF s
  <1>5. QED
    BY <1>1, <1>3, <1>4

(* What is written without quotes.                                         *)
Plain(u) ==
  Len(u) >= 1 /\ \A j \in 1 .. Len(u) : u[j] \notin Whitespace \cup {Quote, ",", "}"}

(* Such a text is not trimmed and has no character that ends a value.      *)
LEMMA PlainFacts ==
  ASSUME NEW u \in Text, Plain(u)
  PROVE  /\ Trim(u) = u
         /\ \A j \in 1 .. Len(u) : u[j] # Quote /\ u[j] # Closing /\ u[j] \notin Ends
  <1>1. /\ Len(u) >= 1
        /\ \A j \in 1 .. Len(u) : u[j] \notin Whitespace
    BY Zenon DEF Plain
  <1>2. u # <<>> /\ DOMAIN u = 1 .. Len(u)
    BY <1>1 DEF Text
  <1>3. Trim(u) = u
    BY <1>1, <1>2, TrimSolid
  <1>4. \A j \in 1 .. Len(u) : u[j] # Quote /\ u[j] # Closing /\ u[j] \notin Ends
    BY Zenon DEF Plain, Closing, Ends
  <1>5. QED
    BY <1>3, <1>4

(* A value without quotes that is there as a whole.                        *)
LEMMA BareRead ==
  ASSUME NEW X \in Text, NEW u \in Text, NEW p \in Nat, NEW e \in Nat,
         e = p + Len(u), e <= Len(X), Stands(X, p, u),
         Plain(u), e < Len(X) => X[e + 1] = Comma
  PROVE  Bare(X, p + 1) = [whole |-> TRUE, text |-> u, next |-> e + 1]
  <1>1. Len(u) \in Nat /\ Len(X) \in Nat /\ DOMAIN u = 1 .. Len(u)
    BY DEF Text
  <1>2. \A i \in p + 1 .. e : X[i] \notin Ends
    <2> SUFFICES ASSUME NEW i \in p + 1 .. e PROVE X[i] \notin Ends
      OBVIOUS
    <2>1. i - p \in 1 .. Len(u) /\ p + (i - p) = i /\ i <= Len(X)
      BY <1>1
    <2>2. X[i] = u[i - p]
      BY <2>1 DEF Stands
    <2>3. QED
      BY <2>1, <2>2, PlainFacts
  <1>3. Find(X, Ends, p + 1) = e + 1
    <2> DEFINE a == p + 1
               b == e + 1
    <2>1. a \in Nat /\ b \in Nat /\ a <= b /\ b <= Len(X) + 1 /\ b - 1 = e
      BY <1>1
    <2>2. \A i \in a .. b - 1 : X[i] \notin Ends
      BY <1>2, <2>1
    <2>3. b <= Len(X) => X[b] \in Ends
      <3>1. Comma \in Ends
        BY Zenon DEF Comma, Ends
      <3>2. QED
        BY <3>1, <1>1
    <2> HIDE DEF a, b
    <2>4. Find(X, Ends, a) = b
      BY <2>1, <2>2, <2>3, <1>1, FindIs
    <2>5. QED
      BY <2>4 DEF a, b
  <1>4. SubSeq(X, p + 1, (e + 1) - 1) = u
    <2>1. (e + 1) - 1 = e
      OBVIOUS
    <2>2. QED
      BY <2>1, PartIs
  <1>5. Trim(u) = u
    BY PlainFacts
  <1>6. QED
    BY <1>3, <1>4, <1>5, Zenon DEF Bare, Ends

(* The value of a field: read if it is there as a whole, not at all if it  *)
(* is cut off.                                                             *)
LEMMA ValueRead ==
  ASSUME NEW X \in Text, NEW f, FieldOK(f), NEW p \in Nat, p < Len(X),
         NEW U \in Nat, U = Len(FieldValue(f)), Stands(X, p, FieldValue(f)),
         p + U < Len(X) => X[p + U + 1] = Comma,
         p + U > Len(X) => FieldValue(f)[Len(X) - p + 1] = Closing
  PROVE  ValueAt(X, p + 1) = IF p + U <= Len(X)
                             THEN [whole |-> TRUE, text |-> f.value, next |-> p + U + 1]
                             ELSE Broken
  <1> DEFINE u == FieldValue(f)
  <1>1. /\ u \in Text /\ U >= 1 /\ Len(X) \in Nat
        /\ f.value \in Text /\ f.quoted \in BOOLEAN
    <2>1. f \in FieldType
      BY Zenon DEF FieldOK
    <2>2. u \in Text /\ Len(u) >= 1
      BY FieldShape
    <2>3. QED
      BY <2>1, <2>2, FieldTexts DEF Text
  <1>2. X[p + 1] = u[1]
    BY <1>1 DEF Stands
  <1> HIDE DEF u
  <1>3. CASE f.quoted
    <2>1. u = Quoted(f.value)
      BY <1>3 DEF u, FieldValue
    <2>2. X[p + 1] = Quote
      BY <2>1, <1>1, <1>2, QuotedShape
    <2>3. ValueAt(X, p + 1) = Token(X, p + 1)
      BY <2>2 DEF ValueAt
    <2>4. Stands(X, p, Quoted(f.value)) /\ U = Len(Quoted(f.value))
      BY <2>1 DEF u
    <2>5. QED
      BY <2>3, <2>4, <1>1, TokenReads
  <1>4. CASE ~f.quoted
    <2>1. u = f.value
      BY <1>4 DEF u, FieldValue
    <2>2. Len(u) = U
      BY DEF u
    <2>3. Plain(u)
      <3>1. DOMAIN u = 1 .. Len(u)
        BY <1>1 DEF Text
      <3>2. QED
        BY <2>1, <2>2, <3>1, <1>1, <1>4, Zenon DEF FieldOK, Plain
    <2>4. p + U <= Len(X)
      <3> SUFFICES ASSUME p + U > Len(X) PROVE FALSE
        BY <1>1
      <3>1. Len(X) - p + 1 \in 1 .. Len(u)
        BY <1>1, <2>2
      <3>2. u[Len(X) - p + 1] = Closing
        BY DEF u
      <3>3. QED
        BY <3>1, <3>2, <2>3, <1>1, PlainFacts
    <2>5. X[p + 1] # Quote
      <3>1. 1 \in 1 .. Len(u)
        BY <1>1, <2>2
      <3>2. QED
        BY <3>1, <2>3, <1>1, <1>2, PlainFacts
    <2>6. Bare(X, p + 1) = [whole |-> TRUE, text |-> u, next |-> p + U + 1]
      <3> DEFINE e == p + U
      <3>1. e \in Nat /\ e = p + Len(u) /\ e <= Len(X) /\ (e < Len(X) => X[e + 1] = Comma)
        BY <2>2, <2>4
      <3>2. Stands(X, p, u)
        BY DEF u
      <3> HIDE DEF e
      <3>3. Bare(X, p + 1) = [whole |-> TRUE, text |-> u, next |-> e + 1]
        BY <3>1, <3>2, <2>2, <2>3, <1>1, BareRead
      <3>4. QED
        BY <3>3 DEF e
    <2>7. QED
      BY <2>1, <2>4, <2>5, <2>6 DEF ValueAt
  <1>5. QED
    BY <1>1, <1>3, <1>4

(* One field of an object, read where it begins: with its key and its value *)
(* if it is there as a whole, not at all if it is cut off.  What follows it *)
(* is a comma or the end, and a text is cut off only before a brace.       *)
LEMMA OneField ==
  ASSUME NEW X \in Text, NEW f, FieldOK(f), NEW p \in Nat, p <= Len(X),
         NEW W \in Nat, W = Len(BuildField(f)), Stands(X, p, BuildField(f)),
         p + W < Len(X) => X[p + W + 1] = Comma,
         p + W > Len(X) => BuildField(f)[Len(X) - p + 1] = Closing
  PROVE  FieldsFrom(X)[p + 1] =
           IF p + W > Len(X) THEN NoFields
           ELSE Put(FieldsFrom(X)[p + W + (IF p + W < Len(X) THEN 2 ELSE 1)], f.key, f.value)
  <1> DEFINE w == BuildField(f)
             k == Quoted(f.key)
             u == FieldValue(f)
             K == Len(k)
             U == Len(u)
             g == FieldsFrom(X)
             end == p + W
  <1>1. /\ w \in Text /\ k \in Text /\ u \in Text
        /\ K >= 2 /\ U >= 1 /\ Len(w) = K + 1 + U
        /\ k[1] = Quote /\ u[1] \notin Whitespace
        /\ \A j \in 1 .. K : w[j] = k[j]
        /\ w[K + 1] = ":"
        /\ \A j \in 1 .. U : w[K + 1 + j] = u[j]
    BY FieldShape
  <1>2. /\ f.key \in Text /\ Len(X) \in Nat /\ K \in Nat /\ U \in Nat
    <2>1. f \in FieldType
      BY Zenon DEF FieldOK
    <2> HIDE DEF k, u, w
    <2>2. QED
      BY <2>1, <1>1, FieldTexts DEF Text
  <1>3. \A j \in 1 .. W : p + j <= Len(X) => X[p + j] = w[j]
    BY DEF Stands
  <1>4. K = Len(Quoted(f.key)) /\ U = Len(FieldValue(f)) /\ W = Len(w)
    OBVIOUS
  <1> HIDE DEF w, k, u, K, U
  <1>5. W = K + 1 + U
    BY <1>1, <1>4
  <1>6. g[p + 1] = IF HasField(X, p + 1)
                   THEN Put(g[After(X, Value(X, p + 1))], Key(X, p + 1).text,
                            Value(X, p + 1).text)
                   ELSE NoFields
    <2>1. p + 1 \in 1 .. Len(X) + 2
      BY <1>2
    <2>2. QED
      BY <2>1, <1>2, FieldsAt
  <1> HIDE DEF g
  <1>7. Stands(X, p, k)
    <2> SUFFICES ASSUME NEW j \in 1 .. K, p + j <= Len(X) PROVE X[p + j] = k[j]
      BY DEF Stands, K
    <2>1. j \in 1 .. W
      BY <1>2, <1>5
    <2>2. QED
      BY <2>1, <1>1, <1>3
  <1>8. p + K < Len(X) => X[p + K + 1] = ":"
    <2>1. K + 1 \in 1 .. W /\ p + (K + 1) = p + K + 1
      BY <1>2, <1>5
    <2>2. p + K < Len(X) => p + (K + 1) <= Len(X)
      BY <1>2
    <2>3. QED
      BY <2>1, <2>2, <1>1, <1>3
  <1>9. Stands(X, p + K + 1, u)
    <2> SUFFICES ASSUME NEW j \in 1 .. U, p + K + 1 + j <= Len(X)
                 PROVE  X[p + K + 1 + j] = u[j]
      BY DEF Stands, U
    <2>1. K + 1 + j \in 1 .. W /\ p + (K + 1 + j) = p + K + 1 + j
      BY <1>2, <1>5
    <2>2. QED
      BY <2>1, <1>1, <1>3
  <1>10. CASE p = Len(X)
    <2>1. Find(X, {Quote}, p + 1) > Len(X)
      <3> DEFINE at == Find(X, {Quote}, p + 1)
      <3>1. p + 1 \in Nat
        OBVIOUS
      <3>2. at \in p + 1 .. Len(X) \/ at = Len(X) + 1
        <4> HIDE DEF at
        <4> QED BY <3>1, <1>2, FindFirst DEF at
      <3> HIDE DEF at
      <3>3. at > Len(X)
        BY <3>2, <1>10, <1>2
      <3>4. QED
        BY <3>3 DEF at
    <2>2. Key(X, p + 1) = Broken
      BY <2>1, TokenUnfolds DEF Key
    <2>3. ~HasField(X, p + 1)
      BY <2>2 DEF HasField, Broken
    <2>4. p + W > Len(X)
      BY <1>1, <1>2, <1>5, <1>10
    <2>5. QED
      BY <2>3, <2>4, <1>6 DEF g
  <1>11. CASE p < Len(X)
    <2>1. /\ p + K > Len(X) => ~Key(X, p + 1).whole
          /\ p + K <= Len(X) => /\ Key(X, p + 1).whole /\ Key(X, p + 1).text = f.key
                                /\ Colon(X, p + 1) = p + K + 1
      <3>1. Stands(X, p, Quoted(f.key))
        BY <1>7 DEF k
      <3>2. QED
        BY <3>1, <1>2, <1>4, <1>8, <1>11, KeyRead
    <2>2. CASE p + K > Len(X)
      <3>1. ~HasField(X, p + 1)
        BY <2>1, <2>2 DEF HasField
      <3>2. p + W > Len(X)
        BY <2>2, <1>2, <1>5
      <3>3. QED
        BY <3>1, <3>2, <1>6 DEF g
    <2>3. CASE p + K + 1 >= Len(X) /\ p + K <= Len(X)
      <3> DEFINE c == p + K + 1
      <3>1. c \in Nat /\ c <= Len(X) + 1 /\ c + 1 > Len(X) /\ Colon(X, p + 1) = c
        BY <2>1, <2>3, <1>2
      <3>2. Begin(X, p + 1) > Len(X)
        <4> HIDE DEF c
        <4> QED BY <3>1, <1>2, SolidIs DEF Begin
      <3>3. ~HasField(X, p + 1)
        BY <3>2 DEF HasField
      <3>4. p + W > Len(X)
        BY <2>3, <1>1, <1>2, <1>5
      <3>5. QED
        BY <3>3, <3>4, <1>6 DEF g
    <2>4. CASE p + K + 1 < Len(X)
      <3> DEFINE c == p + K + 1
      <3>1. c \in Nat /\ c <= Len(X) + 1 /\ c + 1 <= Len(X) /\ c < Len(X)
        BY <2>4, <1>2
      <3>2. Key(X, p + 1).whole /\ Key(X, p + 1).text = f.key /\ Colon(X, p + 1) = c
        BY <2>1, <2>4, <1>2
      <3>3. Stands(X, c, u) /\ Stands(X, c, FieldValue(f))
        BY <1>9 DEF u
      <3>4. c + U = end
        BY <1>2, <1>5
      <3>5. /\ c + U < Len(X) => X[c + U + 1] = Comma
            /\ c + U > Len(X) => FieldValue(f)[Len(X) - c + 1] = Closing
        <4>1. c + U < Len(X) => X[c + U + 1] = Comma
          BY <3>4
        <4>2. ASSUME c + U > Len(X) PROVE u[Len(X) - c + 1] = Closing
          <5>1. w[Len(X) - p + 1] = Closing
            BY <3>4, <4>2 DEF w
          <5>2. /\ Len(X) - c + 1 \in 1 .. U
                /\ K + 1 + (Len(X) - c + 1) = Len(X) - p + 1
            BY <3>1, <4>2, <1>2
          <5>3. QED
            BY <5>1, <5>2, <1>1
        <4>3. QED
          BY <4>1, <4>2 DEF u
      <3> HIDE DEF c
      <3>6. X[c + 1] \notin Whitespace
        <4>1. 1 \in 1 .. U
          BY <1>1, <1>2
        <4>2. X[c + 1] = u[1]
          BY <4>1, <3>1, <3>3 DEF Stands, U
        <4>3. QED
          BY <4>2, <1>1
      <3>7. Begin(X, p + 1) = c + 1
        BY <3>1, <3>2, <3>6, <1>2, SolidIs DEF Begin
      <3>8. ValueAt(X, c + 1) = IF c + U <= Len(X)
                                THEN [whole |-> TRUE, text |-> f.value, next |-> c + U + 1]
                                ELSE Broken
        BY <3>1, <3>3, <3>5, <1>2, <1>4, ValueRead
      <3>9. Value(X, p + 1) = IF end <= Len(X)
                              THEN [whole |-> TRUE, text |-> f.value, next |-> end + 1]
                              ELSE Broken
        <4> HIDE DEF end
        <4> QED BY <3>4, <3>7, <3>8 DEF Value
      <3>10. CASE end > Len(X)
        <4>1. Value(X, p + 1) = Broken
          BY <3>9, <3>10, <1>2
        <4>2. ~HasField(X, p + 1)
          BY <4>1 DEF HasField, Broken
        <4>3. QED
          BY <4>2, <3>10, <1>6 DEF g
      <3>11. CASE end <= Len(X)
        <4>1. /\ Value(X, p + 1).whole /\ Value(X, p + 1).text = f.value
              /\ Value(X, p + 1).next = end + 1
          <5> HIDE DEF end
          <5> QED BY <3>9, <3>11
        <4>2. ~(c + 1 > Len(X)) /\ ~(end > Len(X))
          BY <3>1, <3>11, <1>2
        <4>3. HasField(X, p + 1)
          BY <4>1, <4>2, <3>2, <3>7, Zenon DEF HasField
        <4>4. After(X, Value(X, p + 1)) = end + (IF end < Len(X) THEN 2 ELSE 1)
          <5>1. CASE end < Len(X)
            <6>1. end + 1 <= Len(X) /\ X[end + 1] = Comma /\ (end + 1) + 1 = end + 2
              BY <5>1, <1>2
            <6>2. After(X, Value(X, p + 1)) = (end + 1) + 1
              BY <4>1, <6>1, Zenon DEF After, Comma
            <6>3. QED
              BY <5>1, <6>1, <6>2
          <5>2. CASE ~(end < Len(X))
            <6>1. ~(end + 1 <= Len(X))
              BY <5>2, <1>2
            <6>2. After(X, Value(X, p + 1)) = end + 1
              BY <4>1, <6>1, Zenon DEF After
            <6>3. QED
              BY <5>2, <6>2
          <5>3. QED
            BY <5>1, <5>2
        <4>5. g[p + 1] = Put(g[end + (IF end < Len(X) THEN 2 ELSE 1)], f.key, f.value)
          BY <4>1, <4>3, <4>4, <3>2, <1>6, Zenon
        <4>6. QED
          BY <4>2, <4>5 DEF g
      <3>12. QED
        BY <3>10, <3>11, <1>2
    <2>5. QED
      BY <2>2, <2>3, <2>4, <1>2
  <1>12. QED
    BY <1>2, <1>10, <1>11

-----------------------------------------------------------------------------
(* Texts that are joined: how many characters come before text i, and what *)
(* stands after it.                                                        *)
Pieces(texts, comma) ==
  [i \in DOMAIN texts |-> IF i = 1 THEN texts[i] ELSE <<comma>> \o texts[i]]
Begins(texts, comma, i) == IF i = 1 THEN 0 ELSE Offset(Pieces(texts, comma), i) + 1

(* Joined texts stand one after the other, with a comma after all but the  *)
(* last.                                                                   *)
LEMMA JoinShape ==
  ASSUME NEW texts \in Seq(Text), NEW comma \in Char
  PROVE  LET T == Join(texts, comma)
             b(i) == Begins(texts, comma, i)
         IN  /\ T \in Text /\ (Len(texts) = 0 => T = <<>>) /\ b(1) = 0
             /\ \A i \in 1 .. Len(texts) :
                  /\ texts[i] \in Text /\ b(i) \in Nat
                  /\ b(i) + Len(texts[i]) <= Len(T)
                  /\ \A j \in 1 .. Len(texts[i]) : T[b(i) + j] = texts[i][j]
                  /\ i = Len(texts) => b(i) + Len(texts[i]) = Len(T)
                  /\ i < Len(texts) => /\ b(i + 1) = b(i) + Len(texts[i]) + 1
                                       /\ T[b(i) + Len(texts[i]) + 1] = comma
  <1> DEFINE s == Pieces(texts, comma)
             T == Join(texts, comma)
             n == Len(texts)
             b(i) == Begins(texts, comma, i)
  <1>1. n \in Nat /\ DOMAIN texts = 1 .. n /\ \A i \in 1 .. n : texts[i] \in Seq(Char)
    BY DEF Text
  <1>2. T = FlattenSeq(s)
    BY DEF Join, Pieces
  <1>3. \A i \in 1 .. n : /\ i = 1 => s[i] = texts[i]
                          /\ i # 1 => s[i] = <<comma>> \o texts[i]
    BY <1>1 DEF Pieces
  <1>4. \A i \in 1 .. n :
          /\ <<comma>> \o texts[i] \in Seq(Char)
          /\ Len(<<comma>> \o texts[i]) = Len(texts[i]) + 1 /\ Len(texts[i]) \in Nat
          /\ (<<comma>> \o texts[i])[1] = comma
          /\ \A j \in 1 .. Len(texts[i]) : (<<comma>> \o texts[i])[j + 1] = texts[i][j]
    BY <1>1
  <1>5. s \in Seq(Seq(Char)) /\ Len(s) = n
    <2>1. s = [i \in 1 .. n |-> s[i]]
      BY <1>1 DEF Pieces
    <2>2. \A i \in 1 .. n : s[i] \in Seq(Char)
      BY <1>1, <1>3, <1>4
    <2> HIDE DEF s
    <2>3. QED
      BY <2>1, <2>2, <1>1
  <1> HIDE DEF s
  <1>6. /\ T \in Seq(Char)
        /\ Offset(s, 1) = 0 /\ Offset(s, n + 1) = Len(T)
        /\ \A i \in 1 .. n :
             /\ Offset(s, i) \in Nat /\ s[i] \in Seq(Char)
             /\ Offset(s, i + 1) = Offset(s, i) + Len(s[i])
             /\ Offset(s, i + 1) <= Len(T)
             /\ \A j \in 1 .. Len(s[i]) : T[Offset(s, i) + j] = s[i][j]
    BY <1>2, <1>5, FlattenPieces
  <1>7. n = 0 => T = <<>>
    BY <1>6
  <1> HIDE DEF T, n
  <1>8. b(1) = 0 /\ \A i : i # 1 => b(i) = Offset(s, i) + 1
    BY DEF Begins, s
  <1> HIDE DEF b
  <1>9. ASSUME NEW i \in 1 .. n
        PROVE  /\ b(i) \in Nat
               /\ b(i) + Len(texts[i]) = Offset(s, i + 1)
               /\ \A j \in 1 .. Len(texts[i]) : T[b(i) + j] = texts[i][j]
    <2> DEFINE o == Offset(s, i)
    <2>1. /\ o \in Nat /\ Offset(s, i + 1) = o + Len(s[i]) /\ Len(texts[i]) \in Nat
          /\ \A j \in 1 .. Len(s[i]) : T[o + j] = s[i][j]
      BY <1>4, <1>6
    <2> HIDE DEF o
    <2>2. CASE i = 1
      <3>1. o = 0 /\ b(i) = 0
        BY <2>2, <1>6, <1>8 DEF o
      <3>2. s[i] = texts[i]
        BY <2>2, <1>3
      <3>3. \A j \in 1 .. Len(texts[i]) : b(i) + j = o + j
        BY <3>1
      <3>4. QED
        BY <3>1, <3>2, <3>3, <2>1
    <2>3. CASE i # 1
      <3>1. b(i) = o + 1
        BY <2>3, <1>8 DEF o
      <3> DEFINE t == <<comma>> \o texts[i]
      <3>2. s[i] = t
        BY <2>3, <1>3
      <3>3. /\ Len(t) = Len(texts[i]) + 1
            /\ \A j \in 1 .. Len(texts[i]) : t[j + 1] = texts[i][j]
        BY <1>4
      <3> HIDE DEF t
      <3>4. \A j \in 1 .. Len(texts[i]) : j + 1 \in 1 .. Len(t) /\ b(i) + j = o + (j + 1)
        BY <3>1, <3>3, <2>1
      <3>5. \A j \in 1 .. Len(texts[i]) : T[b(i) + j] = texts[i][j]
        BY <3>2, <3>3, <3>4, <2>1
      <3>6. QED
        <4>1. Len(s[i]) = Len(texts[i]) + 1
          BY <3>2, <3>3, Zenon
        <4>2. b(i) \in Nat /\ b(i) + Len(texts[i]) = Offset(s, i + 1)
          <5>1. b(i) \in Nat /\ b(i) + Len(texts[i]) = o + (Len(texts[i]) + 1)
            <6>1. o \in Nat /\ Len(texts[i]) \in Nat
              BY <2>1
            <6>2. \A x, l \in Nat : x + 1 \in Nat /\ (x + 1) + l = x + (l + 1)
              OBVIOUS
            <6>3. QED
              BY <3>1, <6>1, <6>2, Zenon
          <5>2. Offset(s, i + 1) = o + (Len(texts[i]) + 1)
            BY <4>1, <2>1, Zenon
          <5>3. QED
            BY <5>1, <5>2, Zenon
        <4>3. QED
          BY <3>5, <4>2
    <2>4. QED
      BY <2>2, <2>3
  <1>10. ASSUME NEW i \in 1 .. n, i < n
         PROVE  /\ b(i + 1) = b(i) + Len(texts[i]) + 1
                /\ T[b(i) + Len(texts[i]) + 1] = comma
    <2>1. i + 1 \in 1 .. n /\ i + 1 # 1
      BY <1>1, <1>10
    <2>2. b(i + 1) = Offset(s, i + 1) + 1
      BY <2>1, <1>8
    <2>3. s[i + 1] = <<comma>> \o texts[i + 1]
      BY <2>1, <1>3
    <2>4. 1 \in 1 .. Len(s[i + 1]) /\ s[i + 1][1] = comma
      BY <2>1, <2>3, <1>4
    <2>5. T[Offset(s, i + 1) + 1] = comma
      BY <2>1, <2>4, <1>6
    <2>6. QED
      BY <2>2, <2>5, <1>9
  <1>11. ASSUME NEW i \in 1 .. n
         PROVE  /\ texts[i] \in Text /\ b(i) \in Nat
                /\ b(i) + Len(texts[i]) <= Len(T)
                /\ \A j \in 1 .. Len(texts[i]) : T[b(i) + j] = texts[i][j]
                /\ i = n => b(i) + Len(texts[i]) = Len(T)
                /\ i < n => /\ b(i + 1) = b(i) + Len(texts[i]) + 1
                            /\ T[b(i) + Len(texts[i]) + 1] = comma
    BY <1>1, <1>6, <1>9, <1>10 DEF Text
  <1>12. T \in Text
    BY <1>6 DEF Text
  <1>13. QED
    BY <1>7, <1>8, <1>11, <1>12, Zenon DEF T, n, b

-----------------------------------------------------------------------------
(* The values by their keys.                                               *)
LEMMA MeantFacts ==
  ASSUME NEW list, \A i, j \in DOMAIN list : list[i].key = list[j].key => i = j
  PROVE  /\ Meant(list) = [k \in DOMAIN Meant(list) |-> Meant(list)[k]]
         /\ DOMAIN Meant(list) = {list[i].key : i \in DOMAIN list}
         /\ \A i \in DOMAIN list : Meant(list)[list[i].key] = list[i].value
  <1>1. /\ Meant(list) = [k \in DOMAIN Meant(list) |-> Meant(list)[k]]
        /\ DOMAIN Meant(list) = {list[i].key : i \in DOMAIN list}
    BY DEF Meant
  <1>2. ASSUME NEW i \in DOMAIN list
        PROVE  Meant(list)[list[i].key] = list[i].value
    <2> DEFINE k == list[i].key
               c == CHOOSE j \in DOMAIN list : list[j].key = k
    <2>1. k \in {list[j].key : j \in DOMAIN list}
      OBVIOUS
    <2>2. Meant(list)[k] = list[c].value
      BY <2>1 DEF Meant
    <2>3. c \in DOMAIN list /\ list[c].key = k
      OBVIOUS
    <2>4. c = i
      <3> HIDE DEF c
      <3> QED BY <2>3
    <2>5. QED
      BY <2>2, <2>4
  <1>3. QED
    BY <1>1, <1>2

(* A function with the keys and values of the list.                        *)
LEMMA MeantIs ==
  ASSUME NEW list, \A i, j \in DOMAIN list : list[i].key = list[j].key => i = j,
         NEW g, g = [k \in DOMAIN g |-> g[k]],
         \A k \in DOMAIN g : \E j \in DOMAIN list : k = list[j].key /\ g[k] = list[j].value,
         \A j \in DOMAIN list : list[j].key \in DOMAIN g
  PROVE  g = Meant(list)
  <1>1. /\ Meant(list) = [k \in DOMAIN Meant(list) |-> Meant(list)[k]]
        /\ DOMAIN Meant(list) = {list[i].key : i \in DOMAIN list}
        /\ \A i \in DOMAIN list : Meant(list)[list[i].key] = list[i].value
    BY MeantFacts
  <1>2. DOMAIN g = DOMAIN Meant(list)
    BY <1>1
  <1>3. \A k \in DOMAIN g : g[k] = Meant(list)[k]
    BY <1>1
  <1>4. QED
    BY <1>1, <1>2, <1>3, Zenon

(* Put adds a key, and leaves the value of one that is there already.      *)
LEMMA PutFacts ==
  ASSUME NEW g, NEW k, NEW v
  PROVE  /\ Put(g, k, v) = [x \in DOMAIN Put(g, k, v) |-> Put(g, k, v)[x]]
         /\ DOMAIN Put(g, k, v) = DOMAIN g \cup {k}
         /\ \A x \in DOMAIN g : Put(g, k, v)[x] = g[x]
         /\ k \notin DOMAIN g => Put(g, k, v)[k] = v
  BY DEF Put

(* What was read is part of the list from its element i on, or all of it.  *)
PartFrom(list, g, i) ==
  /\ g = [k \in DOMAIN g |-> g[k]]
  /\ \A k \in DOMAIN g : \E j \in i .. Len(list) : k = list[j].key /\ g[k] = list[j].value
AllFrom(list, g, i) == \A j \in i .. Len(list) : list[j].key \in DOMAIN g

(* Nothing is part of every list, and all of what comes after its end.     *)
LEMMA NoneFrom ==
  ASSUME NEW list, Len(list) \in Nat
  PROVE  /\ \A i : PartFrom(list, NoFields, i)
         /\ AllFrom(list, NoFields, Len(list) + 1)
  <1>1. \A i : PartFrom(list, NoFields, i)
    BY DEF NoFields, PartFrom
  <1>2. AllFrom(list, NoFields, Len(list) + 1)
    <2>1. Len(list) + 1 .. Len(list) = {}
      OBVIOUS
    <2>2. QED
      BY <2>1, Zenon DEF AllFrom
  <1>3. QED
    BY <1>1, <1>2

(* The element before what was read goes in front of it.                   *)
LEMMA PutFirst ==
  ASSUME NEW list, Len(list) \in Nat, DOMAIN list = 1 .. Len(list),
         \A i, j \in DOMAIN list : list[i].key = list[j].key => i = j,
         NEW i \in 1 .. Len(list), NEW g, PartFrom(list, g, i + 1)
  PROVE  /\ PartFrom(list, Put(g, list[i].key, list[i].value), i)
         /\ AllFrom(list, g, i + 1) => AllFrom(list, Put(g, list[i].key, list[i].value), i)
  <1> DEFINE n == Len(list)
             key == list[i].key
             h == Put(g, key, list[i].value)
  <1>1. /\ h = [x \in DOMAIN h |-> h[x]]
        /\ DOMAIN h = DOMAIN g \cup {key}
        /\ \A x \in DOMAIN g : h[x] = g[x]
        /\ key \notin DOMAIN g => h[key] = list[i].value
    BY PutFacts
  <1> HIDE DEF h
  <1>2. \A j \in i .. n : j = i \/ j \in i + 1 .. n
    OBVIOUS
  <1>3. \A j \in i + 1 .. n : j \in i .. n /\ j # i /\ j \in DOMAIN list
    OBVIOUS
  <1>4. i \in i .. n /\ i \in DOMAIN list
    OBVIOUS
  <1>5. key \notin DOMAIN g
    <2> SUFFICES ASSUME key \in DOMAIN g PROVE FALSE
      OBVIOUS
    <2>1. PICK j \in i + 1 .. n : key = list[j].key
      BY DEF PartFrom
    <2>2. QED
      BY <2>1, <1>3, <1>4
  <1>6. PartFrom(list, h, i)
    <2> SUFFICES ASSUME NEW k \in DOMAIN h
                 PROVE  \E j \in i .. n : k = list[j].key /\ h[k] = list[j].value
      BY <1>1 DEF PartFrom
    <2>1. CASE k = key
      BY <2>1, <1>1, <1>4, <1>5
    <2>2. CASE k \in DOMAIN g
      <3>1. PICK j \in i + 1 .. n : k = list[j].key /\ g[k] = list[j].value
        BY <2>2 DEF PartFrom
      <3>2. QED
        BY <3>1, <2>2, <1>1, <1>3
    <2>3. QED
      BY <2>1, <2>2, <1>1
  <1>7. ASSUME AllFrom(list, g, i + 1) PROVE AllFrom(list, h, i)
    <2> SUFFICES ASSUME NEW j \in i .. n PROVE list[j].key \in DOMAIN h
      BY DEF AllFrom
    <2>1. CASE j = i
      BY <2>1, <1>1
    <2>2. CASE j \in i + 1 .. n
      BY <2>2, <1>7, <1>1 DEF AllFrom
    <2>3. QED
      BY <2>1, <2>2, <1>2
  <1>8. QED
    BY <1>6, <1>7 DEF h

(* The whole list.                                                         *)
LEMMA AllIsMeant ==
  ASSUME NEW list, Len(list) \in Nat, DOMAIN list = 1 .. Len(list),
         \A i, j \in DOMAIN list : list[i].key = list[j].key => i = j,
         NEW g, PartFrom(list, g, 1)
  PROVE  /\ \A k \in DOMAIN g : k \in DOMAIN Meant(list) /\ g[k] = Meant(list)[k]
         /\ AllFrom(list, g, 1) => g = Meant(list)
  <1>1. /\ g = [k \in DOMAIN g |-> g[k]]
        /\ \A k \in DOMAIN g : \E j \in DOMAIN list : k = list[j].key /\ g[k] = list[j].value
    BY Zenon DEF PartFrom
  <1>2. AllFrom(list, g, 1) => \A j \in DOMAIN list : list[j].key \in DOMAIN g
    BY Zenon DEF AllFrom
  <1>3. AllFrom(list, g, 1) => g = Meant(list)
    BY <1>1, <1>2, MeantIs
  <1>4. \A k \in DOMAIN g : k \in DOMAIN Meant(list) /\ g[k] = Meant(list)[k]
    <2>1. /\ DOMAIN Meant(list) = {list[i].key : i \in DOMAIN list}
          /\ \A i \in DOMAIN list : Meant(list)[list[i].key] = list[i].value
      BY MeantFacts
    <2>2. QED
      BY <2>1, <1>1
  <1>5. QED
    BY <1>3, <1>4

(* Nothing is read from the end of the text.                               *)
LEMMA NothingAtEnd ==
  ASSUME NEW X \in Text
  PROVE  FieldsFrom(X)[Len(X) + 1] = NoFields
  <1> DEFINE e == Len(X) + 1
             at == Find(X, {Quote}, e)
  <1>1. Len(X) \in Nat /\ e \in Nat /\ e \in 1 .. Len(X) + 2 /\ e > Len(X)
    BY DEF Text
  <1> HIDE DEF e
  <1>2. at \in e .. Len(X) \/ at = Len(X) + 1
    <2> HIDE DEF at
    <2> QED BY <1>1, FindFirst DEF at
  <1> HIDE DEF at
  <1>3. at > Len(X)
    BY <1>1, <1>2
  <1>4. Key(X, e) = Broken
    BY <1>3, TokenUnfolds DEF Key, at
  <1>5. ~HasField(X, e)
    BY <1>4 DEF HasField, Broken
  <1>6. QED
    BY <1>1, <1>5, FieldsAt DEF e

(* The beginning of a text.                                                *)
LEMMA Beginning ==
  ASSUME NEW T \in Text, NEW m \in 0 .. Len(T)
  PROVE  /\ SubSeq(T, 1, m) \in Text /\ Len(SubSeq(T, 1, m)) = m
         /\ \A j \in 1 .. m : SubSeq(T, 1, m)[j] = T[j]
  <1>1. T \in Seq(Char) /\ Len(T) \in Nat /\ m \in Nat /\ m <= Len(T)
    BY DEF Text
  <1>2. QED
    BY <1>1 DEF Text

(* The fields of an object, read from the text between its braces or from  *)
(* a beginning of it that was cut off before a brace: nothing but fields   *)
(* that were written, and all of them if the text is whole.                *)
Written(fields) == [i \in DOMAIN fields |-> BuildField(fields[i])]

(* The fields that come out of the text between the braces, or of a        *)
(* beginning of it that ends before a brace, are among those that went     *)
(* in; the whole text has them all.                                        *)
LEMMA FieldsRead ==
  ASSUME NEW fields \in Seq(FieldType), \A i \in DOMAIN fields : FieldOK(fields[i]),
         \A i, j \in DOMAIN fields : fields[i].key = fields[j].key => i = j,
         NEW T, T = Join(Written(fields), Comma),
         NEW m \in 0 .. Len(T), m < Len(T) => T[m + 1] = Closing
  PROVE  LET g == FieldsFrom(SubSeq(T, 1, m))[1]
         IN  /\ \A k \in DOMAIN g : k \in DOMAIN Meant(fields) /\ g[k] = Meant(fields)[k]
             /\ m = Len(T) => g = Meant(fields)
  <1> DEFINE n == Len(fields)
             X == SubSeq(T, 1, m)
             b(i) == Begins(Written(fields), Comma, i)
             W(i) == Len(Written(fields)[i])
             F == FieldsFrom(X)
             Fine(g, i) == /\ PartFrom(fields, g, i)
                           /\ m = Len(T) => AllFrom(fields, g, i)
             Good == {i \in 1 .. n : b(i) <= m => Fine(F[b(i) + 1], i)}
  <1>1. n \in Nat /\ DOMAIN fields = 1 .. n /\ \A i \in 1 .. n : fields[i] \in FieldType
    OBVIOUS
  <1>2. /\ Written(fields) \in Seq(Text) /\ Len(Written(fields)) = n
        /\ \A i \in 1 .. n : Written(fields)[i] = BuildField(fields[i])
    <2>1. \A i \in 1 .. n : BuildField(fields[i]) \in Text
      BY <1>1, FieldShape
    <2>2. Written(fields) = [i \in 1 .. n |-> BuildField(fields[i])]
      BY <1>1 DEF Written
    <2>3. QED
      BY <2>1, <2>2, <1>1
  <1>3. Comma \in Char
    BY Zenon DEF Char, Comma
  <1>4. /\ T \in Text /\ (n = 0 => T = <<>>) /\ b(1) = 0
        /\ \A i \in 1 .. n :
             /\ Written(fields)[i] \in Text /\ b(i) \in Nat
             /\ b(i) + W(i) <= Len(T)
             /\ \A j \in 1 .. W(i) : T[b(i) + j] = Written(fields)[i][j]
             /\ i = n => b(i) + W(i) = Len(T)
             /\ i < n => b(i + 1) = b(i) + W(i) + 1 /\ T[b(i) + W(i) + 1] = Comma
    <2> DEFINE texts == Written(fields)
    <2>1. texts \in Seq(Text) /\ Len(texts) = n /\ T = Join(texts, Comma)
      BY <1>2
    <2> HIDE DEF texts
    <2>2. LET U == Join(texts, Comma)
              c(i) == Begins(texts, Comma, i)
          IN  /\ U \in Text /\ (Len(texts) = 0 => U = <<>>) /\ c(1) = 0
              /\ \A i \in 1 .. Len(texts) :
                   /\ texts[i] \in Text /\ c(i) \in Nat
                   /\ c(i) + Len(texts[i]) <= Len(U)
                   /\ \A j \in 1 .. Len(texts[i]) : U[c(i) + j] = texts[i][j]
                   /\ i = Len(texts) => c(i) + Len(texts[i]) = Len(U)
                   /\ i < Len(texts) => /\ c(i + 1) = c(i) + Len(texts[i]) + 1
                                        /\ U[c(i) + Len(texts[i]) + 1] = Comma
      BY ONLY <2>1, <1>3, JoinShape, Zenon
    <2>3. QED
      BY <2>1, <2>2, Zenon DEF texts
  <1>5. Len(T) \in Nat /\ m \in Nat /\ m <= Len(T) /\ \A i \in 1 .. n : W(i) \in Nat
    <2>1. Len(T) \in Nat /\ m \in Nat /\ m <= Len(T)
      BY <1>4 DEF Text
    <2>2. \A i \in 1 .. n : Written(fields)[i] \in Text
      BY <1>4
    <2>3. \A t \in Text : Len(t) \in Nat
      BY DEF Text
    <2>4. QED
      BY <2>1, <2>2, <2>3
  <1>6. X \in Text /\ Len(X) = m /\ \A j \in 1 .. m : X[j] = T[j]
    BY <1>4, Beginning
  <1> HIDE DEF n, X, b, W, F
  <1>7. Fine(NoFields, n + 1) /\ \A i : PartFrom(fields, NoFields, i)
    BY <1>1, NoneFrom DEF n
  <1>9. ASSUME NEW i \in 1 .. n, \A j \in i + 1 .. n : j \in Good PROVE i \in Good
    <2> SUFFICES ASSUME b(i) <= m PROVE Fine(F[b(i) + 1], i)
      OBVIOUS
    <2> DEFINE p == b(i)
               q == W(i)
               f == fields[i]
               e == p + q
    <2>1. p \in Nat /\ q \in Nat /\ e <= Len(T) /\ p <= Len(X) /\ q = Len(BuildField(f))
      BY <1>2, <1>4, <1>5, <1>6 DEF W
    <2>2. Stands(X, p, BuildField(f))
      <3> SUFFICES ASSUME NEW j \in 1 .. q, p + j <= Len(X) PROVE X[p + j] = BuildField(f)[j]
        BY <2>1 DEF Stands
      <3>1. p + j \in 1 .. m
        BY <2>1, <1>5, <1>6
      <3>2. X[p + j] = T[p + j] /\ T[p + j] = Written(fields)[i][j]
        BY <3>1, <1>4, <1>6
      <3>3. QED
        BY <3>2, <1>2
    <2>3. e < m => i < n /\ b(i + 1) = e + 1 /\ X[e + 1] = Comma
      <3> SUFFICES ASSUME e < m PROVE i < n /\ b(i + 1) = e + 1 /\ X[e + 1] = Comma
        OBVIOUS
      <3>1. i # n
        BY <2>1, <1>4, <1>5
      <3>2. i < n
        BY <3>1, <1>1
      <3>3. b(i + 1) = e + 1 /\ T[e + 1] = Comma
        BY <3>2, <1>4
      <3>4. e + 1 \in 1 .. m
        BY <2>1, <1>5
      <3>5. QED
        BY <3>2, <3>3, <3>4, <1>6
    <2>4. e > m => BuildField(f)[m - p + 1] = Closing
      <3> SUFFICES ASSUME e > m PROVE BuildField(f)[m - p + 1] = Closing
        OBVIOUS
      <3>1. m < Len(T) /\ m - p + 1 \in 1 .. q /\ p + (m - p + 1) = m + 1
        BY <2>1, <1>5, <1>6
      <3>2. T[p + (m - p + 1)] = Written(fields)[i][m - p + 1]
        BY <3>1, <1>4
      <3>3. QED
        BY <3>1, <3>2, <1>2
    <2>5. FieldOK(f)
      BY <1>1
    <2> HIDE DEF p, q, f, e
    <2>6. F[p + 1] = IF p + q > Len(X) THEN NoFields
                     ELSE Put(F[p + q + (IF p + q < Len(X) THEN 2 ELSE 1)], f.key, f.value)
      <3>1. p + q < Len(X) => X[p + q + 1] = Comma
        BY <2>3, <1>6 DEF e
      <3>2. p + q > Len(X) => BuildField(f)[Len(X) - p + 1] = Closing
        BY <2>4, <1>6 DEF e
      <3>3. QED
        BY <2>1, <2>2, <2>5, <3>1, <3>2, <1>6, OneField DEF F
    <2>7. F[p + 1] = IF e > m THEN NoFields
                     ELSE Put(F[e + (IF e < m THEN 2 ELSE 1)], f.key, f.value)
      BY <2>6, <1>6 DEF e
    <2>8. ASSUME NEW g, Fine(g, i + 1) PROVE Fine(Put(g, f.key, f.value), i)
      BY <2>8, <1>1, PutFirst DEF f, n
    <2>9. CASE e > m
      <3>1. F[p + 1] = NoFields /\ m # Len(T)
        BY <2>1, <2>7, <2>9, <1>5 DEF e
      <3>2. QED
        BY <3>1, <1>7 DEF p
    <2>10. CASE e = m
      <3>1. F[p + 1] = Put(NoFields, f.key, f.value)
        <4>1. F[p + 1] = Put(F[m + 1], f.key, f.value)
          BY <2>7, <2>10, <1>5
        <4>2. F[m + 1] = NoFields
          BY <1>6, NothingAtEnd DEF F
        <4>3. QED
          BY <4>1, <4>2
      <3>2. m = Len(T) => i = n
        <4> SUFFICES ASSUME m = Len(T), i # n PROVE FALSE
          OBVIOUS
        <4>1. i < n /\ i + 1 \in 1 .. n
          BY <1>1
        <4>2. b(i + 1) = p + q + 1 /\ b(i + 1) + W(i + 1) <= Len(T)
          BY <4>1, <1>4 DEF p, q
        <4>3. W(i + 1) \in Nat
          BY <4>1, <1>5
        <4>4. QED
          BY <4>2, <4>3, <2>1, <2>10, <1>5 DEF e
      <3>3. Fine(NoFields, i + 1)
        <4>1. CASE i = n
          BY <4>1, <1>7
        <4>2. CASE i # n
          BY <4>2, <3>2, <1>7
        <4>3. QED
          BY <4>1, <4>2
      <3>4. QED
        BY <3>1, <3>3, <2>8 DEF p
    <2>11. CASE e < m
      <3>1. F[p + 1] = Put(F[e + 2], f.key, f.value)
        BY <2>7, <2>11, <2>1, <1>5 DEF e
      <3>2. i + 1 \in i + 1 .. n /\ b(i + 1) = e + 1
        BY <2>3, <2>11, <1>1
      <3>3. i + 1 \in Good
        BY <3>2, <1>9
      <3>4. b(i + 1) <= m /\ b(i + 1) + 1 = e + 2
        BY <3>2, <2>1, <2>11, <1>5 DEF e
      <3>5. Fine(F[e + 2], i + 1)
        BY <3>3, <3>4
      <3>6. QED
        BY <3>1, <3>5, <2>8 DEF p
    <2>12. QED
      <3>1. e > m \/ e = m \/ e < m
        <4>1. e \in Nat
          BY <2>1 DEF e
        <4>2. QED
          BY ONLY <4>1, m \in Nat, <1>5
      <3>2. QED
        BY <3>1, <2>9, <2>10, <2>11
  <1>10. Fine(F[1], 1)
    <2>1. CASE n = 0
      <3>1. T = <<>> /\ m = 0
        BY <2>1, <1>4, <1>5
      <3>2. F[1] = NoFields
        <4>1. Len(X) + 1 = 1
          BY <3>1, <1>6
        <4>2. QED
          BY <4>1, <1>6, NothingAtEnd DEF F
      <3>3. n + 1 = 1
        BY <2>1
      <3>4. QED
        BY <3>2, <3>3, <1>7, Zenon
    <2>2. CASE n # 0
      <3>1. 1 .. n \subseteq Good
        <4> HIDE DEF Good
        <4> QED BY <1>1, <1>9, Backwards
      <3>2. 1 \in Good
        BY <3>1, <2>2, <1>1
      <3>3. b(1) <= m /\ b(1) + 1 = 1
        BY <1>4, <1>5
      <3>4. QED
        BY <3>2, <3>3
    <2>3. QED
      BY <2>1, <2>2
  <1> DEFINE g == F[1]
  <1> HIDE DEF g
  <1>11. QED
    BY <1>1, <1>10, AllIsMeant DEF g, F, X, n

Opening == "{"

(* The braces are characters, and trim does not take them away.            *)
LEMMA Braces ==
  /\ Opening \in Char /\ Closing \in Char
  /\ Opening \notin Whitespace /\ Closing \notin Whitespace /\ Opening # Closing
  BY Zenon DEF Opening, Closing, Char, Whitespace

(* What trim leaves of a text that does not begin with whitespace: it ends *)
(* at the last character that is none.                                     *)
LEMMA TrimEnd ==
  ASSUME NEW t \in Text, Len(t) >= 1, t[1] \notin Whitespace
  PROVE  \E l \in 1 .. Len(t) : /\ Trim(t) = SubSeq(t, 1, l)
                                /\ t[Len(t)] \notin Whitespace => l = Len(t)
  <1> DEFINE solid == {i \in DOMAIN t : t[i] \notin Whitespace}
             a == CHOOSE i \in solid : \A j \in solid : i <= j
             b == CHOOSE i \in solid : \A j \in solid : i >= j
  <1>1. Len(t) \in Nat /\ DOMAIN t = 1 .. Len(t)
    BY DEF Text
  <1>2. /\ 1 \in solid /\ solid \subseteq 1 .. Len(t)
        /\ Len(t) \in solid <=> t[Len(t)] \notin Whitespace
    BY <1>1
  <1>3. Trim(t) = IF solid = {} THEN <<>> ELSE SubSeq(t, a, b)
    BY Zenon DEF Trim
  <1> HIDE DEF solid
  <1>4. \A j \in solid : 1 <= j
    BY <1>1, <1>2
  <1>5. a = 1
    <2>1. a \in solid /\ \A j \in solid : a <= j
      BY <1>2, <1>4
    <2>2. a \in 1 .. Len(t) /\ a <= 1
      BY <2>1, <1>2
    <2>3. QED
      BY <2>2
  <1>6. b \in solid /\ \A j \in solid : b >= j
    <2>1. \E i \in solid : \A j \in solid : i >= j
      BY <1>1, <1>2, LastOf
    <2>2. QED
      BY <2>1
  <1>7. solid # {}
    BY <1>2
  <1> HIDE DEF a, b
  <1>8. Trim(t) = SubSeq(t, 1, b) /\ b \in 1 .. Len(t)
    BY <1>2, <1>3, <1>5, <1>6, <1>7
  <1>9. t[Len(t)] \notin Whitespace => b = Len(t)
    <2>1. t[Len(t)] \notin Whitespace => b >= Len(t)
      BY <1>2, <1>6
    <2>2. QED
      <3>1. b >= Len(t) => b = Len(t)
        <4>1. b \in 1 .. Len(t)
          BY <1>8
        <4>2. \A y \in Nat : \A x \in 1 .. y : x >= y => x = y
          OBVIOUS
        <4>3. QED
          BY <4>1, <4>2, <1>1, Zenon
      <3>2. QED
        BY <2>1, <3>1, Zenon
  <1>10. QED
    BY <1>8, <1>9

(* What is between the braces of a beginning of an object: nothing, or a   *)
(* beginning of the fields that was cut off before a brace.                *)
CutOff(T, x) ==
  \E m \in 0 .. Len(T) : x = SubSeq(T, 1, m) /\ (m < Len(T) => T[m + 1] = Closing)

(* A beginning of an object has a beginning of its fields between the      *)
(* braces that the parser takes for the outer ones, and the whole object   *)
(* has all of them.                                                        *)
LEMMA InnerOf ==
  ASSUME NEW T \in Text, NEW body, body = <<Opening>> \o T \o <<Closing>>,
         NEW n \in 0 .. Len(body)
  PROVE  /\ Inner(SubSeq(body, 1, n)) = <<>> \/ CutOff(T, Inner(SubSeq(body, 1, n)))
         /\ n = Len(body) => Inner(SubSeq(body, 1, n)) = T
  <1> DEFINE B == SubSeq(body, 1, n)
  <1>1. Len(T) \in Nat /\ T \in Seq(Char)
    BY DEF Text
  <1>2. /\ body \in Text /\ Len(body) = Len(T) + 2
        /\ body[1] = Opening /\ body[Len(T) + 2] = Closing
        /\ \A j \in 1 .. Len(T) : body[j + 1] = T[j]
    BY <1>1, Braces DEF Text
  <1>3. n \in Nat /\ n <= Len(T) + 2
    BY <1>1, <1>2
  <1>4. B \in Text /\ Len(B) = n /\ \A j \in 1 .. n : B[j] = body[j]
    BY <1>2, Beginning
  <1> HIDE DEF B
  <1>5. Inner(B) = IF Len(Trim(B)) < 2 \/ Trim(B)[1] # Opening \/ Trim(B)[Len(Trim(B))] # Closing
                   THEN <<>> ELSE SubSeq(Trim(B), 2, Len(Trim(B)) - 1)
    BY Zenon DEF Inner, Opening, Closing
  <1>6. CASE n = 0
    <2>1. B = <<>>
      BY <1>4, <1>6 DEF Text
    <2>2. Trim(B) = <<>>
      <3>1. \A X : {i \in DOMAIN <<>> : <<>>[i] \notin X} = {}
        OBVIOUS
      <3>2. QED
        BY <2>1, <3>1, Zenon DEF Trim
    <2>3. Inner(B) = <<>>
      <3>1. Len(<<>>) < 2
        OBVIOUS
      <3>2. QED
        BY <2>2, <3>1, <1>5, Zenon
    <2>4. n # Len(body)
      BY <1>1, <1>2, <1>6
    <2>5. QED
      BY <2>3, <2>4 DEF B
  <1>7. CASE n >= 1
    <2>1. B[1] = Opening /\ Len(B) >= 1 /\ B[1] \notin Whitespace
      <3>1. 1 \in 1 .. n
        BY <1>3, <1>7
      <3>2. QED
        BY <3>1, <1>2, <1>4, <1>7, Braces
    <2>2. PICK l \in 1 .. n : /\ Trim(B) = SubSeq(B, 1, l)
                              /\ B[n] \notin Whitespace => l = n
      <3>1. \E k \in 1 .. Len(B) : /\ Trim(B) = SubSeq(B, 1, k)
                                   /\ B[Len(B)] \notin Whitespace => k = Len(B)
        BY <2>1, <1>4, TrimEnd
      <3>2. QED
        <4>1. PICK k \in 1 .. Len(B) : /\ Trim(B) = SubSeq(B, 1, k)
                                       /\ B[Len(B)] \notin Whitespace => k = Len(B)
          BY <3>1
        <4>2. k \in 1 .. n /\ (B[n] \notin Whitespace => k = n)
          BY <4>1, <1>4
        <4>3. QED
          BY <4>1, <4>2, Zenon
    <2> DEFINE t == Trim(B)
    <2>3. /\ t \in Text /\ Len(t) = l /\ l \in Nat
          /\ \A j \in 1 .. l : t[j] = body[j]
      <3>1. l \in 0 .. Len(B) /\ l \in Nat
        BY <1>3, <1>4
      <3>2. t \in Text /\ Len(t) = l /\ \A j \in 1 .. l : t[j] = B[j]
        BY <2>2, <3>1, <1>4, Beginning
      <3>3. \A j \in 1 .. l : j \in 1 .. n
        BY <1>3
      <3> HIDE DEF t
      <3>4. QED
        BY <3>1, <3>2, <3>3, <1>4
    <2> HIDE DEF t
    <2>4. Inner(B) = IF l < 2 \/ t[1] # Opening \/ t[l] # Closing
                     THEN <<>> ELSE SubSeq(t, 2, l - 1)
      BY <2>3, <1>5, Zenon DEF t
    <2>5. CASE l < 2 \/ t[1] # Opening \/ t[l] # Closing
      <3>1. Inner(B) = <<>>
        BY <2>4, <2>5
      <3>2. n # Len(body)
        <4> SUFFICES ASSUME n = Len(body) PROVE FALSE
          OBVIOUS
        <4>1. n \in 1 .. n /\ n = Len(T) + 2
          BY <1>2, <1>3, <1>7
        <4>2. B[n] = Closing
          BY <4>1, <1>2, <1>4
        <4>3. l = n
          BY <4>2, <2>2, Braces
        <4>4. t[l] = Closing /\ l >= 2 /\ 1 \in 1 .. l
          BY <4>1, <4>3, <2>3, <1>1, <1>2
        <4>5. t[1] = Opening
          BY <4>4, <2>3, <1>2
        <4>6. ~(l < 2)
          BY <4>4, <2>3
        <4>7. QED
          BY <4>4, <4>5, <4>6, <2>5
      <3>3. QED
        BY <3>1, <3>2 DEF B
    <2>6. CASE ~(l < 2 \/ t[1] # Opening \/ t[l] # Closing)
      <3>1. Inner(B) = SubSeq(t, 2, l - 1) /\ t[l] = Closing /\ l >= 2
        BY <2>3, <2>4, <2>6
      <3> DEFINE m == l - 2
      <3>2. m \in 0 .. Len(T) /\ m \in Nat
        BY <3>1, <2>3, <1>1, <1>3
      <3>3. m < Len(T) => T[m + 1] = Closing
        <4> SUFFICES ASSUME m < Len(T) PROVE T[m + 1] = Closing
          OBVIOUS
        <4>1. m + 1 \in 1 .. Len(T) /\ (m + 1) + 1 = l /\ l \in 1 .. l
          BY <3>1, <3>2, <2>3, <1>1
        <4>2. body[l] = Closing
          BY <4>1, <3>1, <2>3
        <4>3. QED
          BY <4>1, <4>2, <1>2
      <3>4. SubSeq(t, 2, l - 1) = SubSeq(T, 1, m)
        <4> DEFINE x == SubSeq(T, 1, m)
        <4>1. x \in Text /\ Len(x) = m /\ \A j \in 1 .. m : x[j] = T[j]
          BY <3>2, Beginning
        <4> HIDE DEF x
        <4>2. Stands(t, 1, x)
          <5> SUFFICES ASSUME NEW j \in 1 .. m PROVE t[1 + j] = x[j]
            BY <4>1 DEF Stands
          <5>1. j \in 1 .. Len(T) /\ 1 + j \in 1 .. l /\ 1 + j = j + 1
            BY <3>1, <3>2, <2>3, <1>1
          <5>2. t[1 + j] = body[1 + j] /\ body[j + 1] = T[j]
            BY <5>1, <2>3, <1>2
          <5>3. QED
            BY <5>1, <5>2, <4>1
        <4>3. /\ l - 1 \in Nat /\ 1 \in Nat /\ l - 1 = 1 + Len(x) /\ l - 1 <= Len(t)
              /\ 1 + 1 = 2
          BY <4>1, <3>1, <2>3
        <4>4. SubSeq(t, 1 + 1, l - 1) = x
          BY <4>1, <4>2, <4>3, <2>3, PartIs
        <4>5. QED
          BY <4>3, <4>4 DEF x
      <3>5. n = Len(body) => Inner(B) = T
        <4> SUFFICES ASSUME n = Len(body) PROVE Inner(B) = T
          OBVIOUS
        <4>1. n \in 1 .. n /\ n = Len(T) + 2
          BY <1>2, <1>3, <1>7
        <4>2. B[n] = Closing
          BY <4>1, <1>2, <1>4
        <4>3. l = n
          BY <4>2, <2>2, Braces
        <4>4. m = Len(T)
          BY <4>1, <4>3, <1>1
        <4>5. SubSeq(T, 1, Len(T)) = T
          BY <1>1, RestOfText
        <4>6. QED
          BY <3>1, <3>4, <4>4, <4>5, Zenon
      <3> HIDE DEF m
      <3>6. QED
        BY <3>1, <3>2, <3>3, <3>4, <3>5 DEF B, CutOff
    <2>7. QED
      BY <2>5, <2>6
  <1>8. QED
    BY <1>3, <1>6, <1>7

(* The text of an object.                                                 *)
LEMMA BuildText ==
  ASSUME NEW fields \in Seq(FieldType), \A i \in DOMAIN fields : FieldOK(fields[i])
  PROVE  LET T == Join(Written(fields), Comma)
         IN  T \in Text /\ Build(fields) = <<Opening>> \o T \o <<Closing>> /\ Build(fields) \in Text
  <1> DEFINE T == Join(Written(fields), Comma)
  <1>1. T \in Text
    <2>1. Len(fields) \in Nat /\ DOMAIN fields = 1 .. Len(fields)
      OBVIOUS
    <2>2. Written(fields) = [i \in 1 .. Len(fields) |-> BuildField(fields[i])]
      BY <2>1 DEF Written
    <2>3. \A i \in 1 .. Len(fields) : BuildField(fields[i]) \in Text
      BY <2>1, FieldShape
    <2>4. Written(fields) \in Seq(Text)
      BY <2>1, <2>2, <2>3
    <2>5. Comma \in Char
      BY Zenon DEF Char, Comma
    <2>6. QED
      BY <2>4, <2>5, JoinShape
  <1>2. Build(fields) = <<Opening>> \o T \o <<Closing>>
    BY Zenon DEF Build, Written, Opening, Closing, Comma
  <1> HIDE DEF T
  <1>3. Build(fields) \in Text
    BY <1>1, <1>2, Braces DEF Text
  <1>4. QED
    BY <1>1, <1>2, <1>3 DEF T

(* An object that JSON.stringify wrote, or the beginning of one, is read   *)
(* as fields that were written, and the whole of it as all of them.        *)
THEOREM ParseReads ==
  ASSUME NEW fields \in Seq(FieldType), \A i \in DOMAIN fields : FieldOK(fields[i]),
         \A i, j \in DOMAIN fields : fields[i].key = fields[j].key => i = j,
         NEW n \in 0 .. Len(Build(fields))
  PROVE  LET g == Parse(SubSeq(Build(fields), 1, n))
         IN  /\ \A k \in DOMAIN g : k \in DOMAIN Meant(fields) /\ g[k] = Meant(fields)[k]
             /\ n = Len(Build(fields)) => g = Meant(fields)
  <1> DEFINE T == Join(Written(fields), Comma)
             body == Build(fields)
             g == Parse(SubSeq(body, 1, n))
             Sub(h) == \A k \in DOMAIN h : k \in DOMAIN Meant(fields) /\ h[k] = Meant(fields)[k]
  <1>1. T \in Text /\ body = <<Opening>> \o T \o <<Closing>>
    BY BuildText
  <1>3. Len(T) \in Nat /\ SubSeq(T, 1, Len(T)) = T
    BY <1>1, RestOfText DEF Text
  <1>4. g = FieldsFrom(Inner(SubSeq(body, 1, n)))[1]
    BY ParseUnfolds
  <1>5. n \in 0 .. Len(body)
    OBVIOUS
  <1> HIDE DEF T, body, g
  <1>6. /\ Inner(SubSeq(body, 1, n)) = <<>> \/ CutOff(T, Inner(SubSeq(body, 1, n)))
        /\ n = Len(body) => Inner(SubSeq(body, 1, n)) = T
    BY <1>1, <1>5, InnerOf, Zenon
  <1>7. \A m \in 0 .. Len(T) : (m < Len(T) => T[m + 1] = Closing) =>
          /\ Sub(FieldsFrom(SubSeq(T, 1, m))[1])
          /\ m = Len(T) => FieldsFrom(SubSeq(T, 1, m))[1] = Meant(fields)
    BY FieldsRead DEF T
  <1>8. n = Len(body) => g = Meant(fields)
    <2>1. Len(T) \in 0 .. Len(T) /\ ~(Len(T) < Len(T))
      BY <1>3
    <2>2. FieldsFrom(T)[1] = Meant(fields)
      BY <2>1, <1>3, <1>7
    <2>3. QED
      BY <2>2, <1>4, <1>6
  <1>9. Sub(g)
    <2>1. CASE Inner(SubSeq(body, 1, n)) = <<>>
      <3>1. <<>> \in Text /\ Len(<<>>) + 1 = 1
        BY DEF Text
      <3>2. g = NoFields
        BY <2>1, <3>1, <1>4, NothingAtEnd
      <3>3. QED
        BY <3>2 DEF NoFields
    <2>2. CASE CutOff(T, Inner(SubSeq(body, 1, n)))
      <3>1. PICK m \in 0 .. Len(T) : /\ Inner(SubSeq(body, 1, n)) = SubSeq(T, 1, m)
                                     /\ m < Len(T) => T[m + 1] = Closing
        BY <2>2 DEF CutOff
      <3>2. Sub(FieldsFrom(SubSeq(T, 1, m))[1])
        BY <3>1, <1>7
      <3>3. QED
        BY <3>1, <3>2, <1>4
    <2>3. QED
      BY <2>1, <2>2, <1>6
  <1>10. QED
    BY <1>8, <1>9 DEF g, body

(* An empty body has no fields.                                            *)
LEMMA ParseNothing == Parse(<<>>) = NoFields
  <1>1. Trim(<<>>) = <<>>
    <2>1. \A X : {i \in DOMAIN <<>> : <<>>[i] \notin X} = {}
      OBVIOUS
    <2>2. QED
      BY <2>1, Zenon DEF Trim
  <1>2. Inner(<<>>) = <<>>
    <2>1. Len(<<>>) < 2
      OBVIOUS
    <2>2. QED
      BY <2>1, <1>1, Zenon DEF Inner
  <1>3. <<>> \in Text /\ Len(<<>>) + 1 = 1
    BY DEF Text
  <1>4. QED
    BY <1>2, <1>3, ParseUnfolds, NothingAtEnd

-----------------------------------------------------------------------------
(* The codes of url_encode: each is two digits, and no two are the same.   *)
Blank == " "
Coded == DOMAIN Hex
Decoded(code) == CHOOSE c \in Coded : Hex[c] = code

(* The codes, one by one.                                                  *)
LEMMA HexTable ==
  /\ Coded = {"&", "=", "%", "+", Blank}
  /\ Hex["&"] = <<"2", "6">> /\ Hex["="] = <<"3", "D">> /\ Hex["%"] = <<"2", "5">>
  /\ Hex["+"] = <<"2", "B">> /\ Hex[Blank] = <<"2", "0">>
  <1>1. Coded = {"&", "=", "%", "+", Blank}
    BY Zenon DEF Coded, Hex, Blank
  <1>2. Hex["&"] = <<"2", "6">>
    BY Zenon DEF Hex
  <1>3. Hex["="] = <<"3", "D">>
    BY Zenon DEF Hex
  <1>4. Hex["%"] = <<"2", "5">>
    BY Zenon DEF Hex
  <1>5. Hex["+"] = <<"2", "B">>
    BY Zenon DEF Hex
  <1>6. Hex[Blank] = <<"2", "0">>
    BY Zenon DEF Hex, Blank
  <1>7. QED
    BY <1>1, <1>2, <1>3, <1>4, <1>5, <1>6

(* A code has two digits, none of them &, and stands for one character     *)
(* only.                                                                   *)
LEMMA HexFacts ==
  ASSUME NEW c \in Coded
  PROVE  /\ \E h, l \in Char \ {"&"} : Hex[c] = <<h, l>>
         /\ Decoded(Hex[c]) = c
  <1>1. \A x, y, z, w : <<x, y>> = <<z, w>> => x = z /\ y = w
    OBVIOUS
  <1>2. {"0", "2", "3", "5", "6", "B", "D"} \subseteq Char \ {"&"}
    BY Zenon DEF Char
  <1>3. \E h, l \in {"0", "2", "3", "5", "6", "B", "D"} : Hex[c] = <<h, l>>
    BY HexTable
  <1>4. \A d \in Coded : Hex[d] = Hex[c] => d = c
    BY <1>1, HexTable
  <1>5. Decoded(Hex[c]) = c
    BY <1>4 DEF Decoded
  <1>6. QED
    BY <1>2, <1>3, <1>5

(* How a text stands in a query: its characters, and codes for those that  *)
(* have one.                                                               *)
UrlPiece(c) == IF c \in Coded THEN <<"%">> \o Hex[c] ELSE <<c>>
UrlPieces(v) == [i \in DOMAIN v |-> UrlPiece(v[i])]
From(v, i) == Offset(UrlPieces(v), i)

(* A character is written as itself or as % and its code, and never as &.  *)
LEMMA UrlPieceIs ==
  ASSUME NEW c \in Char
  PROVE  /\ UrlPiece(c) \in Text /\ \A j \in 1 .. Len(UrlPiece(c)) : UrlPiece(c)[j] # "&"
         /\ c \notin Coded => UrlPiece(c) = <<c>>
         /\ c \in Coded => \E h, l \in Char : UrlPiece(c) = <<"%", h, l>> /\ Hex[c] = <<h, l>>
  <1>1. CASE c \notin Coded
    <2>1. UrlPiece(c) = <<c>> /\ c # "&"
      BY <1>1, HexTable DEF UrlPiece
    <2>2. QED
      BY <2>1, <1>1 DEF Text
  <1>2. CASE c \in Coded
    <2>1. PICK h, l \in Char \ {"&"} : Hex[c] = <<h, l>>
      BY <1>2, HexFacts
    <2>2. UrlPiece(c) = <<"%", h, l>>
      <3>1. <<"%">> \o <<h, l>> = <<"%", h, l>>
        <4> DEFINE s == <<"%">> \o <<h, l>>
                   t == <<"%", h, l>>
        <4>1. "%" \in Char
          BY Zenon DEF Char
        <4>2. s \in Seq(Char) /\ Len(s) = 3 /\ s[1] = "%" /\ s[2] = h /\ s[3] = l
          BY <4>1
        <4>3. t \in Seq(Char) /\ Len(t) = 3 /\ t[1] = "%" /\ t[2] = h /\ t[3] = l
          BY <4>1
        <4> HIDE DEF s, t
        <4>4. \A j \in 1 .. Len(s) : s[j] = t[j]
          BY <4>2, <4>3
        <4>5. s = t
          BY ONLY <4>2, <4>3, <4>4, SeqEqual
        <4>6. QED
          BY <4>5 DEF s, t
      <3>2. QED
        BY <1>2, <2>1, <3>1, Zenon DEF UrlPiece
    <2>3. "%" \in Char /\ "%" # "&"
      BY Zenon DEF Char
    <2>4. QED
      BY <2>1, <2>2, <2>3, <1>2 DEF Text
  <1>3. QED
    BY <1>1, <1>2

(* An encoded text has no &, and its characters or their codes stand one   *)
(* after the other.                                                        *)
LEMMA EncodedShape ==
  ASSUME NEW v \in Text
  PROVE  LET e == UrlEncode(v)
         IN  /\ e \in Text /\ \A p \in 1 .. Len(e) : e[p] # "&"
             /\ From(v, 1) = 0 /\ From(v, Len(v) + 1) = Len(e)
             /\ \A i \in 1 .. Len(v) :
                  /\ From(v, i) \in Nat /\ From(v, i + 1) \in Nat /\ From(v, i + 1) <= Len(e)
                  /\ \/ /\ v[i] \notin Coded /\ From(v, i + 1) = From(v, i) + 1
                        /\ e[From(v, i) + 1] = v[i]
                     \/ /\ v[i] \in Coded /\ From(v, i + 1) = From(v, i) + 3
                        /\ e[From(v, i) + 1] = "%"
                        /\ Hex[v[i]] = <<e[From(v, i) + 2], e[From(v, i) + 3]>>
  <1> DEFINE s == UrlPieces(v)
             e == UrlEncode(v)
             n == Len(v)
  <1>1. n \in Nat /\ DOMAIN v = 1 .. n /\ \A i \in 1 .. n : v[i] \in Char
    BY DEF Text
  <1>2. s = [i \in 1 .. n |-> UrlPiece(v[i])]
    BY <1>1 DEF UrlPieces
  <1>3. s \in Seq(Text) /\ Len(s) = n /\ \A i \in 1 .. n : s[i] = UrlPiece(v[i])
    BY <1>1, <1>2, UrlPieceIs
  <1>4. e = FlattenSeq(s)
    BY Zenon DEF UrlEncode, UrlPieces, UrlPiece, Coded
  <1> HIDE DEF s
  <1>5. /\ e \in Seq(Char)
        /\ Offset(s, 1) = 0 /\ Offset(s, n + 1) = Len(e)
        /\ \A i \in 1 .. n :
             /\ Offset(s, i) \in Nat /\ s[i] \in Seq(Char)
             /\ Offset(s, i + 1) = Offset(s, i) + Len(s[i])
             /\ Offset(s, i + 1) <= Len(e)
             /\ \A j \in 1 .. Len(s[i]) : e[Offset(s, i) + j] = s[i][j]
        /\ \A p \in 1 .. Len(e) :
             \E i \in 1 .. n : \E j \in 1 .. Len(s[i]) : p = Offset(s, i) + j
    BY <1>3, <1>4, FlattenPieces DEF Text
  <1> HIDE DEF e, n
  <1>6. \A i : From(v, i) = Offset(s, i)
    BY DEF From, s
  <1>7. ASSUME NEW p \in 1 .. Len(e) PROVE e[p] # "&"
    <2>1. PICK i \in 1 .. n : \E j \in 1 .. Len(s[i]) : p = Offset(s, i) + j
      BY <1>5
    <2>2. PICK j \in 1 .. Len(s[i]) : p = Offset(s, i) + j
      BY <2>1
    <2>3. e[p] = s[i][j]
      BY <2>2, <1>5
    <2>4. s[i] = UrlPiece(v[i]) /\ v[i] \in Char
      BY <1>1, <1>3
    <2>5. QED
      BY <2>3, <2>4, UrlPieceIs
  <1>8. ASSUME NEW i \in 1 .. n
        PROVE  /\ From(v, i) \in Nat /\ From(v, i + 1) \in Nat /\ From(v, i + 1) <= Len(e)
               /\ \/ /\ v[i] \notin Coded /\ From(v, i + 1) = From(v, i) + 1
                     /\ e[From(v, i) + 1] = v[i]
                  \/ /\ v[i] \in Coded /\ From(v, i + 1) = From(v, i) + 3
                     /\ e[From(v, i) + 1] = "%"
                     /\ Hex[v[i]] = <<e[From(v, i) + 2], e[From(v, i) + 3]>>
    <2> DEFINE o == Offset(s, i)
    <2>1. /\ o \in Nat /\ Offset(s, i + 1) = o + Len(s[i]) /\ o + Len(s[i]) <= Len(e)
          /\ \A j \in 1 .. Len(s[i]) : e[o + j] = s[i][j]
      BY <1>5
    <2>2. From(v, i) = o /\ From(v, i + 1) = o + Len(s[i])
      BY <1>6, <2>1
    <2>3. s[i] = UrlPiece(v[i]) /\ v[i] \in Char
      BY <1>1, <1>3
    <2> HIDE DEF o
    <2>4. CASE v[i] \notin Coded
      <3>1. s[i] = <<v[i]>>
        BY <2>3, <2>4, UrlPieceIs
      <3>2. Len(s[i]) = 1 /\ s[i][1] = v[i]
        BY <3>1
      <3>3. e[o + 1] = v[i]
        BY <3>2, <2>1
      <3>4. QED
        BY <3>2, <3>3, <2>1, <2>2, <2>4
    <2>5. CASE v[i] \in Coded
      <3>1. PICK h, l \in Char : s[i] = <<"%", h, l>> /\ Hex[v[i]] = <<h, l>>
        BY <2>3, <2>5, UrlPieceIs
      <3>2. Len(s[i]) = 3 /\ s[i][1] = "%" /\ s[i][2] = h /\ s[i][3] = l
        BY <3>1
      <3>3. e[o + 1] = "%" /\ e[o + 2] = h /\ e[o + 3] = l
        BY <3>2, <2>1
      <3>4. Hex[v[i]] = <<e[o + 2], e[o + 3]>>
        BY <3>1, <3>3, Zenon
      <3>5. QED
        BY <3>2, <3>3, <3>4, <2>1, <2>2, <2>5
    <2>6. QED
      BY <2>4, <2>5
  <1>9. From(v, 1) = 0 /\ From(v, n + 1) = Len(e) /\ e \in Text
    BY <1>5, <1>6 DEF Text
  <1>10. QED
    BY <1>7, <1>8, <1>9 DEF e, n

-----------------------------------------------------------------------------
(* UrlDecode as an equation at each position.                              *)
DecodeStep(text, f, i) ==
  IF i > Len(text) THEN <<>>
  ELSE IF text[i] = "%" /\ i + 2 <= Len(text)
  THEN <<Decoded(SubSeq(text, i + 1, i + 2))>> \o f[i + 3]
  ELSE <<IF text[i] = "+" THEN Blank ELSE text[i]>> \o f[i + 1]
DecodedFrom(text) == CHOOSE f : f = [i \in 1 .. Len(text) + 3 |-> DecodeStep(text, f, i)]

(* UrlDecode takes the value of its recursion at the beginning of the      *)
(* text.                                                                   *)
LEMMA DecodeUnfolds ==
  ASSUME NEW text PROVE UrlDecode(text) = DecodedFrom(text)[1]
  BY Zenon DEF UrlDecode, DecodedFrom, DecodeStep, Decoded, Coded, Blank

(* The recursion of UrlDecode has a solution, from the end of the text     *)
(* on.                                                                     *)
LEMMA DecodeRecursion ==
  ASSUME NEW text, Len(text) \in Nat
  PROVE  DecodedFrom(text) = [i \in 1 .. Len(text) + 3 |-> DecodeStep(text, DecodedFrom(text), i)]
  <1> DEFINE n == Len(text) + 3
             Rest(m) == {i \in 1 .. n : i > n - m}
             Good == {m \in Nat : \E f : f = [i \in Rest(m) |-> DecodeStep(text, f, i)]}
  <1>1. 0 \in Good
    <2> DEFINE z == [i \in Rest(0) |-> 0]
    <2>1. z = [i \in Rest(0) |-> DecodeStep(text, z, i)]
      OBVIOUS
    <2>2. QED
      BY <2>1
  <1>2. ASSUME NEW m \in Nat, m \in Good PROVE m + 1 \in Good
    <2>1. PICK h : h = [i \in Rest(m) |-> DecodeStep(text, h, i)]
      BY <1>2
    <2> DEFINE k == [i \in Rest(m + 1) |-> DecodeStep(text, h, i)]
    <2>2. \A i \in Rest(m) : i \in Rest(m + 1) /\ k[i] = h[i]
      <3>1. \A i \in Rest(m) : i \in Rest(m + 1)
        OBVIOUS
      <3>2. \A i \in Rest(m) : h[i] = DecodeStep(text, h, i)
        BY <2>1
      <3>3. QED
        BY <3>1, <3>2
    <2>3. \A i \in Rest(m + 1) : /\ i <= Len(text) => i + 1 \in Rest(m)
                                 /\ i + 2 <= Len(text) => i + 3 \in Rest(m)
      OBVIOUS
    <2>4. ASSUME NEW i \in Rest(m + 1) PROVE DecodeStep(text, h, i) = DecodeStep(text, k, i)
      <3>1. /\ ~(i > Len(text)) => k[i + 1] = h[i + 1]
            /\ i + 2 <= Len(text) => k[i + 3] = h[i + 3]
        <4>1. /\ ~(i > Len(text)) => i + 1 \in Rest(m)
              /\ i + 2 <= Len(text) => i + 3 \in Rest(m)
          BY <2>3
        <4>2. QED
          BY <4>1, <2>2, Zenon
      <3> HIDE DEF k
      <3>2. QED
        BY <3>1, Zenon DEF DecodeStep
    <2>5. k = [i \in Rest(m + 1) |-> DecodeStep(text, k, i)]
      BY <2>4
    <2>6. \E f : f = [i \in Rest(m + 1) |-> DecodeStep(text, f, i)]
      BY <2>5, Zenon
    <2>7. m + 1 \in Nat
      OBVIOUS
    <2>8. QED
      BY <2>6, <2>7, Zenon
  <1>3. n \in Good
    <2>1. Nat \subseteq Good
      <3> HIDE DEF Good
      <3> QED BY <1>1, <1>2, NumbersByPrevious
    <2>2. n \in Nat
      OBVIOUS
    <2>3. QED
      BY <2>1, <2>2, Zenon
  <1>4. Rest(n) = 1 .. n
    OBVIOUS
  <1>5. QED
    BY <1>3, <1>4 DEF DecodedFrom

(* What was encoded is decoded to what it was.                             *)
THEOREM DecodeReads ==
  ASSUME NEW v \in Text
  PROVE  UrlDecode(UrlEncode(v)) = v
  <1> DEFINE e == UrlEncode(v)
             n == Len(v)
             f == DecodedFrom(e)
             Good == {i \in 1 .. n + 1 : f[From(v, i) + 1] = SubSeq(v, i, n)}
  <1>1. /\ e \in Text /\ Len(e) \in Nat /\ n \in Nat
        /\ From(v, 1) = 0 /\ From(v, n + 1) = Len(e)
    BY EncodedShape DEF Text
  <1>2. \A i \in 1 .. n :
          /\ From(v, i) \in Nat /\ From(v, i + 1) \in Nat /\ From(v, i + 1) <= Len(e)
          /\ \/ /\ v[i] \notin Coded /\ From(v, i + 1) = From(v, i) + 1
                /\ e[From(v, i) + 1] = v[i]
             \/ /\ v[i] \in Coded /\ From(v, i + 1) = From(v, i) + 3
                /\ e[From(v, i) + 1] = "%"
                /\ Hex[v[i]] = <<e[From(v, i) + 2], e[From(v, i) + 3]>>
    BY EncodedShape
  <1>3. \A i \in 1 .. Len(e) + 3 : f[i] = DecodeStep(e, f, i)
    BY <1>1, DecodeRecursion
  <1>4. e \in Seq(Char)
    BY <1>1 DEF Text
  <1> HIDE DEF e, n, f
  <1>5. ASSUME NEW i \in 1 .. n + 1, \A j \in i + 1 .. n + 1 : j \in Good PROVE i \in Good
    <2> SUFFICES f[From(v, i) + 1] = SubSeq(v, i, n)
      OBVIOUS
    <2>1. CASE i = n + 1
      <3>1. From(v, i) + 1 \in 1 .. Len(e) + 3 /\ From(v, i) + 1 > Len(e)
        BY <2>1, <1>1
      <3>2. f[From(v, i) + 1] = <<>>
        BY <3>1, <1>3 DEF DecodeStep
      <3>3. QED
        BY <2>1, <3>2, RestOfText DEF Text, n
    <2>2. CASE i \in 1 .. n
      <3> DEFINE a == From(v, i) + 1
                 b == From(v, i + 1) + 1
      <3>1. f[b] = SubSeq(v, i + 1, n) /\ <<v[i]>> \o SubSeq(v, i + 1, n) = SubSeq(v, i, n)
        <4>1. i + 1 \in Good
          BY <2>2, <1>1, <1>5
        <4>2. QED
          BY <4>1, <2>2, RestOfText DEF Text, n
      <3>2. CASE /\ v[i] \notin Coded /\ From(v, i + 1) = From(v, i) + 1
                 /\ e[From(v, i) + 1] = v[i]
        <4>1. a \in 1 .. Len(e) + 3 /\ ~(a > Len(e)) /\ b = a + 1 /\ e[a] = v[i]
          BY <2>2, <3>2, <1>1, <1>2
        <4>2. v[i] # "%" /\ v[i] # "+"
          BY <3>2, HexTable
        <4>3. f[a] = DecodeStep(e, f, a)
          BY <4>1, <1>3
        <4> HIDE DEF a, b
        <4>4. f[a] = <<v[i]>> \o f[a + 1]
          BY <4>1, <4>2, <4>3, Zenon DEF DecodeStep
        <4>5. QED
          BY <3>1, <4>1, <4>4 DEF a
      <3>3. CASE /\ v[i] \in Coded /\ From(v, i + 1) = From(v, i) + 3
                 /\ e[From(v, i) + 1] = "%"
                 /\ Hex[v[i]] = <<e[From(v, i) + 2], e[From(v, i) + 3]>>
        <4>1. /\ a \in 1 .. Len(e) + 3 /\ ~(a > Len(e)) /\ b = a + 3 /\ a + 2 <= Len(e)
              /\ a \in Nat /\ a >= 1 /\ From(v, i) + 2 = a + 1 /\ From(v, i) + 3 = a + 2
          <5>1. From(v, i) \in Nat /\ From(v, i + 1) <= Len(e)
            BY <2>2, <1>2
          <5>2. From(v, i + 1) = From(v, i) + 3
            BY <3>3
          <5>3. QED
            BY ONLY <5>1, <5>2, <1>1 DEF a, b
        <4>2. e[a] = "%" /\ Hex[v[i]] = <<e[a + 1], e[a + 2]>>
          BY <3>3, <4>1
        <4>3. f[a] = DecodeStep(e, f, a)
          BY <4>1, <1>3
        <4> HIDE DEF a, b
        <4>4. SubSeq(e, a + 1, a + 2) = <<e[a + 1], e[a + 2]>>
          <5> DEFINE s == SubSeq(e, a + 1, a + 2)
                     t == <<e[a + 1], e[a + 2]>>
          <5>1. a + 1 \in 1 .. Len(e) /\ a + 2 \in 1 .. Len(e) /\ (a + 2) - (a + 1) + 1 = 2
            BY <4>1, <1>1
          <5>2. s \in Seq(Char) /\ Len(s) = 2 /\ s[1] = e[a + 1] /\ s[2] = e[a + 2]
            BY <5>1, <4>1, <1>1, <1>4
          <5>3. t \in Seq(Char) /\ Len(t) = 2 /\ t[1] = e[a + 1] /\ t[2] = e[a + 2]
            BY <5>1, <1>4
          <5> HIDE DEF s, t
          <5>4. \A j \in 1 .. Len(s) : s[j] = t[j]
            BY <5>2, <5>3
          <5>5. s = t
            BY ONLY <5>2, <5>3, <5>4, SeqEqual
          <5>6. QED
            BY <5>5 DEF s, t
        <4>5. Decoded(SubSeq(e, a + 1, a + 2)) = v[i]
          BY <4>2, <4>4, <3>3, HexFacts, Zenon
        <4>6. f[a] = <<v[i]>> \o f[a + 3]
          BY <4>1, <4>2, <4>3, <4>5, Zenon DEF DecodeStep
        <4>7. QED
          BY <3>1, <4>1, <4>6 DEF a
      <3>4. QED
        BY <2>2, <3>2, <3>3, <1>2
    <2>3. QED
      BY <2>1, <2>2, <1>1
  <1>6. 1 .. n + 1 \subseteq Good
    <2> HIDE DEF Good
    <2>1. n + 1 \in Nat
      BY <1>1
    <2>2. QED
      BY <2>1, <1>5, Backwards
  <1>7. f[1] = SubSeq(v, 1, n)
    <2>1. 1 \in Good
      BY <1>1, <1>6
    <2>2. From(v, 1) + 1 = 1
      BY <1>1
    <2>3. QED
      BY <2>1, <2>2
  <1>8. QED
    BY <1>7, DecodeUnfolds, RestOfText DEF Text, f, e, n

-----------------------------------------------------------------------------
(* Params as an equation at each position.                                 *)
PairEnd(query, start) == Find(query, {"&"}, start)
Pair(query, start) == SubSeq(query, start, PairEnd(query, start) - 1)
Equals(pair) == Find(pair, {"="}, 1)
ParamStep(query, f, start) ==
  IF start > Len(query) THEN NoFields
  ELSE IF Pair(query, start) = <<>> THEN f[PairEnd(query, start) + 1]
  ELSE IF Equals(Pair(query, start)) > Len(Pair(query, start))
  THEN Put(f[PairEnd(query, start) + 1], Pair(query, start), <<>>)
  ELSE Put(f[PairEnd(query, start) + 1],
           SubSeq(Pair(query, start), 1, Equals(Pair(query, start)) - 1),
           UrlDecode(SubSeq(Pair(query, start), Equals(Pair(query, start)) + 1,
                            Len(Pair(query, start)))))
ParamsFrom(query) ==
  CHOOSE f : f = [start \in 1 .. Len(query) + 2 |-> ParamStep(query, f, start)]

(* Params takes the value of its recursion at the beginning of the query.  *)
LEMMA ParamsUnfolds ==
  ASSUME NEW query PROVE Params(query) = ParamsFrom(query)[1]
  BY Zenon DEF Params, ParamsFrom, ParamStep, Pair, PairEnd, Equals

(* The recursion of Params has a solution, as every step goes on behind a  *)
(* pair.                                                                   *)
LEMMA ParamsRecursion ==
  ASSUME NEW query, Len(query) \in Nat
  PROVE  ParamsFrom(query) =
           [i \in 1 .. Len(query) + 2 |-> ParamStep(query, ParamsFrom(query), i)]
  <1> DEFINE n == Len(query) + 2
             Rest(m) == {i \in 1 .. n : i > n - m}
             Good == {m \in Nat : \E f : f = [i \in Rest(m) |-> ParamStep(query, f, i)]}
  <1>1. 0 \in Good
    <2> DEFINE z == [i \in Rest(0) |-> 0]
    <2>1. z = [i \in Rest(0) |-> ParamStep(query, z, i)]
      OBVIOUS
    <2>2. QED
      BY <2>1
  <1>2. ASSUME NEW m \in Nat, m \in Good PROVE m + 1 \in Good
    <2>1. PICK h : h = [i \in Rest(m) |-> ParamStep(query, h, i)]
      BY <1>2
    <2> DEFINE k == [i \in Rest(m + 1) |-> ParamStep(query, h, i)]
    <2>2. \A i \in Rest(m) : i \in Rest(m + 1) /\ k[i] = h[i]
      <3>1. \A i \in Rest(m) : i \in Rest(m + 1)
        OBVIOUS
      <3>2. \A i \in Rest(m) : h[i] = ParamStep(query, h, i)
        BY <2>1
      <3>3. QED
        BY <3>1, <3>2
    <2>3. ASSUME NEW i \in Rest(m + 1) PROVE ParamStep(query, h, i) = ParamStep(query, k, i)
      <3> DEFINE a == PairEnd(query, i)
      <3>1. ~(i > Len(query)) => k[a + 1] = h[a + 1]
        <4> SUFFICES ASSUME ~(i > Len(query)) PROVE k[a + 1] = h[a + 1]
          OBVIOUS
        <4>1. a \in i .. Len(query) \/ a = Len(query) + 1
          <5> HIDE DEF a
          <5>1. i \in Nat
            OBVIOUS
          <5>2. QED
            BY <5>1, FindFirst DEF PairEnd, a
        <4> HIDE DEF a
        <4>2. a + 1 \in Rest(m)
          BY <4>1
        <4>3. QED
          BY <4>2, <2>2, Zenon
      <3> HIDE DEF k
      <3>2. QED
        BY <3>1, Zenon DEF ParamStep
    <2>4. k = [i \in Rest(m + 1) |-> ParamStep(query, k, i)]
      BY <2>3
    <2>5. \E f : f = [i \in Rest(m + 1) |-> ParamStep(query, f, i)]
      BY <2>4, Zenon
    <2>6. m + 1 \in Nat
      OBVIOUS
    <2>7. QED
      BY <2>5, <2>6, Zenon
  <1>3. n \in Good
    <2>1. Nat \subseteq Good
      <3> HIDE DEF Good
      <3> QED BY <1>1, <1>2, NumbersByPrevious
    <2>2. n \in Nat
      OBVIOUS
    <2>3. QED
      BY <2>1, <2>2, Zenon
  <1>4. Rest(n) = 1 .. n
    OBVIOUS
  <1>5. QED
    BY <1>3, <1>4 DEF ParamsFrom

-----------------------------------------------------------------------------
(* A parameter as the browser writes it.                                   *)
ParamOK(f) == f \in FieldType /\ \A j \in DOMAIN f.key : f.key[j] \notin {"&", "="}
PairText(f) == f.key \o <<"=">> \o UrlEncode(f.value)
PairTexts(params) == [i \in DOMAIN params |-> PairText(params[i])]

(* Such a text has no & and the first = is the one after the key; what is  *)
(* before it is the key, what is after it is the value.                    *)
LEMMA PairShape ==
  ASSUME NEW f, ParamOK(f)
  PROVE  LET w == PairText(f)
         IN  /\ w \in Text /\ Len(w) >= 1 /\ w # <<>> /\ Len(w) \in Nat
             /\ \A j \in 1 .. Len(w) : w[j] # "&"
             /\ Equals(w) \in 1 .. Len(w)
             /\ SubSeq(w, 1, Equals(w) - 1) = f.key
             /\ UrlDecode(SubSeq(w, Equals(w) + 1, Len(w))) = f.value
  <1> DEFINE w == PairText(f)
             k == f.key
             e == UrlEncode(f.value)
             K == Len(k)
             E == Len(e)
  <1>1. k \in Text /\ f.value \in Text
    BY FieldTexts DEF ParamOK
  <1>2. e \in Text /\ \A p \in 1 .. E : e[p] # "&"
    BY <1>1, EncodedShape
  <1>3. UrlDecode(e) = f.value
    BY <1>1, DecodeReads
  <1>4. \A j \in 1 .. K : k[j] # "&" /\ k[j] # "="
    <2>1. DOMAIN k = 1 .. K
      BY <1>1 DEF Text
    <2>2. QED
      BY <2>1 DEF ParamOK
  <1>5. w = k \o <<"=">> \o e
    BY DEF PairText
  <1> HIDE DEF w, k, e
  <1>6. K \in Nat /\ E \in Nat
    BY <1>1, <1>2 DEF Text
  <1>7. /\ w \in Text /\ Len(w) = K + 1 + E
        /\ \A j \in 1 .. K : w[j] = k[j]
        /\ w[K + 1] = "="
        /\ \A j \in 1 .. E : w[K + 1 + j] = e[j]
    <2>1. "=" \in Char
      BY Zenon DEF Char
    <2>2. QED
      BY <1>1, <1>2, <1>5, <1>6, <2>1 DEF Text
  <1> HIDE DEF K, E
  <1>8. ASSUME NEW j \in 1 .. Len(w) PROVE w[j] # "&"
    <2>1. CASE j \in 1 .. K
      BY <2>1, <1>4, <1>7
    <2>2. CASE j = K + 1
      BY <2>2, <1>7
    <2>3. CASE j > K + 1
      <3>1. j - (K + 1) \in 1 .. E /\ K + 1 + (j - (K + 1)) = j
        BY <2>3, <1>6, <1>7
      <3>2. w[j] = e[j - (K + 1)]
        BY <3>1, <1>7
      <3>3. QED
        BY <3>1, <3>2, <1>2
    <2>4. QED
      BY <2>1, <2>2, <2>3, <1>6, <1>7
  <1>9. Equals(w) = K + 1
    <2> DEFINE c == K + 1
    <2>1. c \in Nat /\ 1 \in Nat /\ 1 <= c /\ c <= Len(w) + 1 /\ Len(w) \in Nat
      BY <1>6, <1>7
    <2>2. \A i \in 1 .. c - 1 : w[i] \notin {"="}
      BY <1>4, <1>6, <1>7
    <2>3. w[c] \in {"="}
      BY <1>7
    <2> HIDE DEF c
    <2>4. Find(w, {"="}, 1) = c
      BY <2>1, <2>2, <2>3, FindIs
    <2>5. QED
      BY <2>4 DEF Equals, c
  <1>10. /\ Len(w) >= 1 /\ Len(w) \in Nat /\ Equals(w) \in 1 .. Len(w)
         /\ (K + 1) - 1 = K /\ (K + 1) + 1 = K + 2
    BY <1>6, <1>7, <1>9
  <1>11. w # <<>>
    <2>1. Len(<<>>) = 0 /\ ~(0 >= 1)
      OBVIOUS
    <2>2. QED
      BY <2>1, <1>10, Zenon
  <1>12. SubSeq(w, 1, Equals(w) - 1) = k
    <2>1. Stands(w, 0, k)
      BY <1>6, <1>7 DEF Stands, K
    <2>2. /\ 0 \in Nat /\ K \in Nat /\ K = 0 + Len(k) /\ K <= Len(w) /\ 0 + 1 = 1
      BY <1>6, <1>7 DEF K
    <2>3. SubSeq(w, 0 + 1, K) = k
      BY <2>1, <2>2, <1>1, <1>7, PartIs DEF k
    <2>4. QED
      BY <2>2, <2>3, <1>9, <1>10
  <1>13. SubSeq(w, Equals(w) + 1, Len(w)) = e
    <2>1. Stands(w, K + 1, e)
      BY <1>6, <1>7 DEF Stands, E
    <2> DEFINE c == K + 1
    <2>2. c \in Nat /\ Len(w) \in Nat /\ Len(w) = c + Len(e) /\ Len(w) <= Len(w)
      BY <1>6, <1>7, <1>10 DEF E
    <2> HIDE DEF c
    <2>3. SubSeq(w, c + 1, Len(w)) = e
      BY <2>1, <2>2, <1>2, <1>7, PartIs DEF c
    <2>4. QED
      BY <2>3, <1>9 DEF c
  <1>14. QED
    BY <1>3, <1>7, <1>8, <1>10, <1>11, <1>12, <1>13 DEF w, k, e

(* The query that the browser wrote is read as the parameters it was       *)
(* written from.                                                           *)
THEOREM ParamsRead ==
  ASSUME NEW params \in Seq(FieldType), \A i \in DOMAIN params : ParamOK(params[i]),
         \A i, j \in DOMAIN params : params[i].key = params[j].key => i = j
  PROVE  Query(params) \in Text /\ Params(Query(params)) = Meant(params)
  <1> DEFINE n == Len(params)
             w(i) == PairTexts(params)[i]
             T == Query(params)
             b(i) == Begins(PairTexts(params), "&", i)
             P == ParamsFrom(T)
             Fine(g, i) == PartFrom(params, g, i) /\ AllFrom(params, g, i)
             Good == {i \in 1 .. n : Fine(P[b(i) + 1], i)}
  <1>1. n \in Nat /\ DOMAIN params = 1 .. n
    OBVIOUS
  <1>2. /\ PairTexts(params) \in Seq(Text) /\ Len(PairTexts(params)) = n
        /\ \A i \in 1 .. n : w(i) = PairText(params[i])
    <2>1. \A i \in 1 .. n : PairText(params[i]) \in Text
      BY <1>1, PairShape
    <2>2. PairTexts(params) = [i \in 1 .. n |-> PairText(params[i])]
      BY <1>1 DEF PairTexts
    <2>3. QED
      BY <2>1, <2>2, <1>1
  <1>3. "&" \in Char
    BY Zenon DEF Char
  <1>4. T = Join(PairTexts(params), "&")
    BY Zenon DEF Query, PairTexts, PairText
  <1>5. /\ T \in Text /\ (n = 0 => T = <<>>) /\ b(1) = 0
        /\ \A i \in 1 .. n :
             /\ w(i) \in Text /\ b(i) \in Nat
             /\ b(i) + Len(w(i)) <= Len(T)
             /\ \A j \in 1 .. Len(w(i)) : T[b(i) + j] = w(i)[j]
             /\ i = n => b(i) + Len(w(i)) = Len(T)
             /\ i < n => b(i + 1) = b(i) + Len(w(i)) + 1 /\ T[b(i) + Len(w(i)) + 1] = "&"
    <2> HIDE DEF T
    <2>1. QED
      BY <1>2, <1>3, <1>4, JoinShape
  <1>6. Len(T) \in Nat
    BY <1>5 DEF Text
  <1> HIDE DEF n, T, b, P
  <1>7. Fine(NoFields, n + 1)
    BY <1>1, NoneFrom DEF n
  <1>8. \A i \in 1 .. Len(T) + 2 : P[i] = ParamStep(T, P, i)
    BY <1>6, ParamsRecursion DEF P
  <1>9. \A i \in Len(T) + 1 .. Len(T) + 2 : P[i] = NoFields
    <2>1. \A i \in Len(T) + 1 .. Len(T) + 2 : i \in 1 .. Len(T) + 2 /\ i > Len(T)
      BY <1>6
    <2>2. QED
      BY <2>1, <1>8 DEF ParamStep
  <1>10. ASSUME NEW i \in 1 .. n, \A j \in i + 1 .. n : j \in Good PROVE i \in Good
    <2> DEFINE p == b(i)
               f == params[i]
               v == w(i)
               q == Len(v)
               e == p + q + 1
               r == Put(P[e + 1], f.key, f.value)
    <2>1. /\ v \in Text /\ q \in Nat /\ q >= 1 /\ v # <<>>
          /\ \A j \in 1 .. q : v[j] # "&"
          /\ Equals(v) \in 1 .. q
          /\ SubSeq(v, 1, Equals(v) - 1) = f.key
          /\ UrlDecode(SubSeq(v, Equals(v) + 1, q)) = f.value
      <3>1. v = PairText(f) /\ ParamOK(f)
        BY <1>1, <1>2
      <3> HIDE DEF v, f
      <3>2. QED
        BY <3>1, PairShape
    <2>2. /\ p \in Nat /\ p + q <= Len(T)
          /\ \A j \in 1 .. q : T[p + j] = v[j]
          /\ i = n => p + q = Len(T)
          /\ i < n => b(i + 1) = e /\ T[e] = "&"
      BY <1>5
    <2> HIDE DEF p, v
    <2>3. PairEnd(T, p + 1) = e
      <3>1. /\ p + 1 \in Nat /\ e \in Nat /\ p + 1 <= e /\ e <= Len(T) + 1
        BY <2>1, <2>2, <1>6
      <3>2. \A j \in p + 1 .. e - 1 : T[j] \notin {"&"}
        <4> SUFFICES ASSUME NEW j \in p + 1 .. e - 1 PROVE T[j] # "&"
          OBVIOUS
        <4>1. j - p \in 1 .. q /\ p + (j - p) = j
          BY <2>1, <2>2
        <4>2. T[j] = v[j - p]
          BY <4>1, <2>2
        <4>3. QED
          BY <4>1, <4>2, <2>1
      <3>3. e <= Len(T) => T[e] \in {"&"}
        <4>1. e <= Len(T) => i < n
          BY <2>1, <2>2, <1>1, <1>6
        <4>2. QED
          BY <4>1, <2>2
      <3> HIDE DEF e
      <3>4. QED
        BY <3>1, <3>2, <3>3, <1>6, FindIs DEF PairEnd
    <2>4. Pair(T, p + 1) = v
      <3>1. e - 1 = p + q /\ p + q \in Nat
        BY <2>1, <2>2
      <3>2. Stands(T, p, v)
        BY <2>2 DEF Stands
      <3>3. SubSeq(T, p + 1, p + q) = v
        BY <3>1, <3>2, <2>1, <2>2, <1>5, PartIs
      <3> HIDE DEF e
      <3>4. QED
        BY <2>3, <3>1, <3>3 DEF Pair
    <2>5. P[p + 1] = r
      <3>1. p + 1 \in 1 .. Len(T) + 2 /\ ~(p + 1 > Len(T)) /\ ~(Equals(v) > q)
        BY <2>1, <2>2, <1>6
      <3>2. P[p + 1] = ParamStep(T, P, p + 1)
        BY <3>1, <1>8
      <3> DEFINE u == p + 1
      <3> HIDE DEF u, e, f
      <3>3. PairEnd(T, u) = e /\ Pair(T, u) = v /\ ~(u > Len(T)) /\ P[u] = ParamStep(T, P, u)
        BY <2>3, <2>4, <3>1, <3>2 DEF u
      <3>4. P[u] = r
        BY <3>1, <3>3, <2>1, Zenon DEF ParamStep
      <3>5. QED
        BY <3>4 DEF u
    <2>6. Fine(P[e + 1], i + 1)
      <3>1. CASE i = n
        <4>1. e + 1 \in Len(T) + 1 .. Len(T) + 2
          BY <3>1, <2>1, <2>2, <1>6
        <4>2. P[e + 1] = NoFields
          BY <4>1, <1>9
        <4>3. QED
          BY <4>2, <3>1, <1>7
      <3>2. CASE i # n
        <4>1. i < n /\ i + 1 \in i + 1 .. n
          BY <3>2, <1>1
        <4>2. b(i + 1) = e
          BY <4>1, <2>2
        <4>3. QED
          BY <4>1, <4>2, <1>10
      <3>3. QED
        BY <3>1, <3>2
    <2>7. Fine(r, i)
      <3> DEFINE g == P[e + 1]
      <3> HIDE DEF g
      <3>1. Fine(Put(g, f.key, f.value), i)
        BY <2>6, <1>1, PutFirst DEF g, n
      <3>2. QED
        BY <3>1 DEF g
    <2> HIDE DEF r
    <2>8. QED
      BY <2>5, <2>7 DEF p
  <1>11. Fine(P[1], 1)
    <2>1. CASE n = 0
      <3>1. T = <<>> /\ n + 1 = 1
        BY <2>1, <1>5
      <3>2. 1 \in Len(T) + 1 .. Len(T) + 2
        BY <3>1
      <3>3. P[1] = NoFields
        BY <3>2, <1>9
      <3>4. QED
        BY <3>1, <3>3, <1>7, Zenon
    <2>2. CASE n # 0
      <3>1. 1 .. n \subseteq Good
        <4> HIDE DEF Good
        <4> QED BY <1>1, <1>10, Backwards
      <3>2. 1 \in Good
        BY <3>1, <2>2, <1>1
      <3>3. b(1) + 1 = 1
        BY <1>5
      <3>4. QED
        BY <3>2, <3>3
    <2>3. QED
      BY <2>1, <2>2
  <1>12. P[1] = Meant(params)
    <2> DEFINE g == P[1]
    <2> HIDE DEF g
    <2>1. g = Meant(params)
      BY <1>1, <1>11, AllIsMeant DEF g, n
    <2>2. QED
      BY <2>1 DEF g
  <1>13. QED
    BY <1>5, <1>12, ParamsUnfolds DEF T, P

-----------------------------------------------------------------------------
(* What the assumption says of the request that is sent.                   *)
LEMMA FormIs ==
  ASSUME form \in Forms
  PROVE  /\ form.params \in Seq(FieldType) /\ form.fields \in Seq(FieldType)
         /\ form.raw \in Seq(Chars) /\ form.kind \in {"json", "file", "chunk"}
         /\ \A i \in DOMAIN form.params : ParamOK(form.params[i])
         /\ \A i \in DOMAIN form.fields : FieldOK(form.fields[i])
         /\ \A i, j \in DOMAIN form.params : form.params[i].key = form.params[j].key => i = j
         /\ \A i, j \in DOMAIN form.fields : form.fields[i].key = form.fields[j].key => i = j
  <1>1. /\ form \in FormType
        /\ \A list \in {form.params, form.fields} : \A i, j \in DOMAIN list :
             list[i].key = list[j].key => i = j
        /\ \A i \in DOMAIN form.params : \A j \in DOMAIN form.params[i].key :
             form.params[i].key[j] \notin {"&", "="}
        /\ \A i \in DOMAIN form.fields : ~form.fields[i].quoted =>
             /\ form.fields[i].value # <<>>
             /\ \A j \in DOMAIN form.fields[i].value :
                  form.fields[i].value[j] \notin Whitespace \cup {Quote, ",", "}"}
    BY FormsAssumption, Zenon
  <1>2. /\ form.params \in Seq(FieldType) /\ form.fields \in Seq(FieldType)
        /\ form.raw \in Seq(Chars) /\ form.kind \in {"json", "file", "chunk"}
    <2>1. \A K, A, B : \A f \in [kind : K, params : A, fields : A, raw : B] :
            f.kind \in K /\ f.params \in A /\ f.fields \in A /\ f.raw \in B
      OBVIOUS
    <2>2. QED
      BY <1>1, <2>1, Zenon DEF FormType
  <1>3. \A list \in Seq(FieldType) : \A i \in DOMAIN list : list[i] \in FieldType
    <2> SUFFICES ASSUME NEW S, NEW list \in Seq(S), NEW i \in DOMAIN list PROVE list[i] \in S
      BY Zenon
    <2>1. QED
      OBVIOUS
  <1>4. \A i \in DOMAIN form.params : ParamOK(form.params[i])
    BY <1>1, <1>2, <1>3, Zenon DEF ParamOK
  <1>5. \A i \in DOMAIN form.fields : FieldOK(form.fields[i])
    BY <1>1, <1>2, <1>3, Zenon DEF FieldOK
  <1>6. /\ \A i, j \in DOMAIN form.params : form.params[i].key = form.params[j].key => i = j
        /\ \A i, j \in DOMAIN form.fields : form.fields[i].key = form.fields[j].key => i = j
    <2>1. form.params \in {form.params, form.fields} /\ form.fields \in {form.params, form.fields}
      BY Zenon
    <2>2. QED
      BY <1>1, <2>1, Zenon
  <1>7. QED
    BY <1>2, <1>4, <1>5, <1>6, Zenon

(* Its texts, and what is read from the whole query and from a beginning   *)
(* of the body.                                                            *)
LEMMA QueryRead ==
  ASSUME form \in Forms
  PROVE  /\ QueryText \in Text /\ Len(QueryText) \in Nat
         /\ Params(SubSeq(QueryText, 1, Len(QueryText))) = Meant(form.params)
  <1>1. QueryText \in Text /\ Params(QueryText) = Meant(form.params)
    BY FormIs, ParamsRead, Zenon DEF QueryText
  <1>2. Len(QueryText) \in Nat /\ SubSeq(QueryText, 1, Len(QueryText)) = QueryText
    BY <1>1, RestOfText DEF Text
  <1>3. QED
    BY <1>1, <1>2, Zenon

(* Of a beginning of the body, nothing but fields of the form is read,     *)
(* and all of them of the whole body; or it is the content itself.         *)
LEMMA BodyRead ==
  ASSUME form \in Forms
  PROVE  /\ Len(Body) \in Nat
         /\ SubSeq(Body, 1, Len(Body)) = Body
         /\ form.kind # "json" => Body = form.raw
         /\ form.kind = "json" =>
              \A m \in 0 .. Len(Body) :
                LET g == Parse(SubSeq(Body, 1, m))
                IN  /\ \A k \in DOMAIN g : k \in DOMAIN Meant(form.fields)
                                           /\ g[k] = Meant(form.fields)[k]
                    /\ m = Len(Body) => g = Meant(form.fields)
  <1> DEFINE fields == form.fields
  <1>1. /\ fields \in Seq(FieldType) /\ \A i \in DOMAIN fields : FieldOK(fields[i])
        /\ \A i, j \in DOMAIN fields : fields[i].key = fields[j].key => i = j
        /\ form.raw \in Seq(Chars)
    BY FormIs, Zenon
  <1>2. /\ form.kind # "json" => Body = form.raw
        /\ form.kind = "json" => Body = IF fields = <<>> THEN <<>> ELSE Build(fields)
    BY Zenon DEF Body
  <1> HIDE DEF fields
  <1>3. \A C : \A t \in Seq(C) : Len(t) \in Nat /\ SubSeq(t, 1, Len(t)) = t
    OBVIOUS
  <1>4. CASE form.kind # "json"
    BY <1>1, <1>2, <1>3, <1>4, Zenon
  <1>5. CASE form.kind = "json" /\ fields = <<>>
    <2>1. Body = <<>>
      BY <1>2, <1>5
    <2>2. <<>> \in Seq(Text) /\ Len(<<>>) = 0
      OBVIOUS
    <2>3. SubSeq(<<>>, 1, 0) = <<>> /\ \A m \in 0 .. 0 : m = 0
      OBVIOUS
    <2>4. \A m \in 0 .. Len(Body) : Parse(SubSeq(Body, 1, m)) = NoFields
      BY <2>1, <2>2, <2>3, ParseNothing
    <2>5. DOMAIN NoFields = {}
      BY DEF NoFields
    <2>6. Meant(fields) = NoFields
      BY <1>5 DEF Meant, NoFields
    <2>7. QED
      BY <1>5, <2>1, <2>2, <2>3, <2>4, <2>5, <2>6 DEF fields
  <1>6. CASE form.kind = "json" /\ fields # <<>>
    <2>1. Body = Build(fields)
      BY <1>2, <1>6
    <2>2. Body \in Text
      BY <2>1, <1>1, BuildText
    <2>3. Len(Body) \in Nat /\ SubSeq(Body, 1, Len(Body)) = Body
      BY <2>2, <1>3, Zenon DEF Text
    <2>4. QED
      BY <2>1, <2>3, <1>1, <1>6, ParseReads, Zenon DEF fields
  <1>7. QED
    BY <1>4, <1>5, <1>6

LEMMA BodyLength == ASSUME form \in Forms PROVE Len(Body) \in Nat
  BY BodyRead, Zenon

-----------------------------------------------------------------------------
(* The loop hands over what it takes for complete, or all that the client  *)
(* sent before it stopped.                                                 *)
ReaderInv ==
  /\ form \in Forms /\ spelling \in Spellings
  /\ sent \in 0 .. Total /\ data \in 0 .. sent
  /\ line \in {"open", "closed", "reset"}
  /\ phase \in {"reading", "dispatched", "dropped"}
  /\ phase = "dispatched" => Enough(data) \/ (line = "closed" /\ data = sent)

(* The lengths of the parts of the request add up.                         *)
LEMMA TotalIs ==
  ASSUME form \in Forms
  PROVE  /\ HeadRead \in Nat /\ Total \in Nat /\ Total = HeadRead + Len(Body)
         /\ TokenRead \in Nat /\ TokenRead <= HeadRead /\ TokenRead > Len(QueryText)
  BY QueryRead, BodyLength DEF HeadRead, TokenRead, Total

(* ReaderInv holds at first and in every step.                             *)
LEMMA ReaderInductive ==
  /\ Init => ReaderInv
  /\ ReaderInv /\ [Next]_vars => ReaderInv'
  <1>1. ASSUME Init PROVE ReaderInv
    <2>1. form \in Forms
      BY <1>1 DEF Init
    <2>2. Total \in Nat
      BY <2>1, TotalIs
    <2>3. QED
      BY <1>1, <2>1, <2>2 DEF Init, ReaderInv
  <1>2. ASSUME ReaderInv, [Next]_vars PROVE ReaderInv'
    <2>1. form' = form /\ spelling' = spelling
      BY <1>2 DEF Next, Serve, Send, Stop, Receive, EndOfInput, ReadError, vars
    <2>2. Total' = Total /\ \A n : Enough(n)' = Enough(n)
      <3>1. Body' = Body /\ HeadRead' = HeadRead
        BY <2>1, Zenon DEF HeadRead, QueryText, Body
      <3>2. Total' = Total
        BY <3>1, Zenon DEF Total
      <3>3. \A n : Announced(n)' = Announced(n)
        BY <2>1, <3>1, SMT DEF Announced
      <3> QED
        BY <3>1, <3>2, <3>3, Zenon DEF Enough
    <2>3. Total \in Nat
      BY <1>2, TotalIs DEF ReaderInv
    <2>4. form' \in Forms /\ spelling' \in Spellings
      BY <1>2, <2>1 DEF ReaderInv
    <2>5. CASE Send
      BY <1>2, <2>2, <2>3, <2>4, <2>5 DEF ReaderInv, Send
    <2>6. CASE Stop
      BY <1>2, <2>2, <2>3, <2>4, <2>6 DEF ReaderInv, Stop
    <2>7. CASE Receive
      BY <1>2, <2>2, <2>3, <2>4, <2>7 DEF ReaderInv, Receive
    <2>8. CASE EndOfInput
      BY <1>2, <2>2, <2>3, <2>4, <2>8 DEF ReaderInv, EndOfInput
    <2>9. CASE ReadError
      BY <1>2, <2>2, <2>3, <2>4, <2>9 DEF ReaderInv, ReadError
    <2>10. CASE UNCHANGED vars
      BY <1>2, <2>2, <2>3, <2>4, <2>10 DEF ReaderInv, vars
    <2>11. QED
      BY <1>2, <2>5, <2>6, <2>7, <2>8, <2>9, <2>10 DEF Next, Serve
  <1>3. QED
    BY <1>1, <1>2

(* ReaderInv holds in every state of every behaviour, whatever the pieces  *)
(* and whenever the client stops.                                          *)
THEOREM ReaderSafe == Spec => []ReaderInv
  BY ReaderInductive, PTL DEF Spec

-----------------------------------------------------------------------------
(* What is stored of a beginning of the body.                              *)
LEMMA StoredIs ==
  ASSUME form \in Forms, NEW body
  PROVE  /\ form.kind = "json" => Stored(body) = {}
         /\ form.kind = "chunk" => \A c \in Stored(body) : c = form.raw
         /\ form.kind = "file" => Stored(body) = {body}
         /\ form.kind # "json" => Stored(form.raw) = {form.raw}
  <1>1. form.kind \in {"json", "file", "chunk"}
    BY FormIs, Zenon
  <1>2. \A b : Stored(b) = {c \in {b} : form.kind = "file" \/ (form.kind = "chunk" /\ c = form.raw)}
    BY Zenon DEF Stored
  <1>3. QED
    BY <1>1, <1>2

(* What the handler sees of the first n units.                             *)
LEMMA ParsedIs ==
  ASSUME form \in Forms, NEW n \in 0 .. Total
  PROVE  /\ Parsed(n).token <=> n >= TokenRead
         /\ Parsed(n).token \in BOOLEAN
         /\ n >= TokenRead => Parsed(n).params = Meant(form.params)
         /\ \E m \in 0 .. Len(Body) :
              /\ Parsed(n).body \in {SubSeq(Body, 1, m), <<>>}
              /\ n = Total /\ ~Malformed => Parsed(n).body = SubSeq(Body, 1, m) /\ m = Len(Body)
  <1> DEFINE m == n - HeadRead
             body == IF n >= HeadRead /\ ~Malformed THEN SubSeq(Body, 1, m) ELSE <<>>
             q == IF n < Len(QueryText) THEN n ELSE Len(QueryText)
             params == Params(SubSeq(QueryText, 1, q))
             whole == n >= TokenRead
  <1>1. Parsed(n) = [token |-> whole, params |-> params, body |-> body]
    BY Zenon DEF Parsed
  <1>2. n \in Nat /\ n <= Total
    BY TotalIs
  <1>3. whole => params = Meant(form.params)
    <2>1. n >= TokenRead => q = Len(QueryText)
      BY <1>2, TotalIs, QueryRead
    <2> HIDE DEF q
    <2>2. QED
      BY <2>1, QueryRead, Zenon
  <1>4. n >= HeadRead => m \in 0 .. Len(Body) /\ (n = Total => m = Len(Body))
    BY <1>2, TotalIs, BodyLength
  <1>5. n = Total => n >= HeadRead
    BY TotalIs, BodyLength
  <1>6. \E l \in 0 .. Len(Body) :
          /\ body \in {SubSeq(Body, 1, l), <<>>}
          /\ n = Total /\ ~Malformed => body = SubSeq(Body, 1, l) /\ l = Len(Body)
    <2>1. CASE n >= HeadRead
      <3>1. m \in 0 .. Len(Body) /\ (n = Total => m = Len(Body))
        BY <1>4, <2>1
      <3> HIDE DEF m
      <3>2. QED
        BY <3>1, <2>1
    <2>2. CASE ~(n >= HeadRead)
      <3>1. body = <<>> /\ n # Total /\ Len(Body) \in 0 .. Len(Body)
        BY <1>5, <2>2, BodyLength
      <3>2. QED
        BY <3>1
    <2>3. QED
      BY <2>1, <2>2
  <1>7. whole \in BOOLEAN
    BY <1>2, TotalIs
  <1> HIDE DEF params, body, whole
  <1>8. Parsed(n).token = whole /\ Parsed(n).params = params /\ Parsed(n).body = body
    BY <1>1
  <1>9. QED
    BY <1>3, <1>6, <1>7, <1>8, Zenon DEF whole

(* The same, with what the handler makes of the body.                      *)
LEMMA SeenIs ==
  ASSUME form \in Forms, data \in 0 .. Total
  PROVE  /\ Seen.token => Seen.params = Meant(form.params)
         /\ \A k \in DOMAIN Seen.fields :
              k \in DOMAIN Meant(form.fields) /\ Seen.fields[k] = Meant(form.fields)[k]
         /\ \A c \in Seen.stored :
              IF form.kind = "file" THEN \E n \in 0 .. Len(form.raw) : c = SubSeq(form.raw, 1, n)
              ELSE c = form.raw
         /\ data = Total /\ ~Malformed =>
              Seen = [token |-> TRUE, params |-> Meant(form.params),
                      fields |-> IF form.kind = "json" THEN Meant(form.fields) ELSE NoFields,
                      stored |-> IF form.kind = "json" THEN {} ELSE {form.raw}]
  <1> DEFINE token == Parsed(data).token
             params == Parsed(data).params
             body == Parsed(data).body
             fields == Fields(body)
             stored == Stored(body)
             Sub(h) == \A k \in DOMAIN h :
                         k \in DOMAIN Meant(form.fields) /\ h[k] = Meant(form.fields)[k]
  <1>1. Seen = [token |-> token, params |-> params, fields |-> fields, stored |-> stored]
    BY Zenon DEF Seen
  <1>2. /\ token <=> data >= TokenRead
        /\ token \in BOOLEAN
        /\ data >= TokenRead => params = Meant(form.params)
    BY ParsedIs, Zenon
  <1>3. PICK m \in 0 .. Len(Body) :
          /\ body \in {SubSeq(Body, 1, m), <<>>}
          /\ data = Total /\ ~Malformed => body = SubSeq(Body, 1, m) /\ m = Len(Body)
    BY ParsedIs, Zenon
  <1>4. data = Total => data >= TokenRead
    BY TotalIs, BodyLength
  <1> HIDE DEF token, params, body
  <1>5. Fields(body) = IF form.kind = "json" THEN Parse(body) ELSE NoFields
    BY Zenon DEF Fields
  <1>6. DOMAIN NoFields = {}
    BY DEF NoFields
  <1>7. Sub(fields)
    <2>1. CASE form.kind = "json"
      <3>1. CASE body = <<>>
        BY <2>1, <3>1, <1>5, <1>6, ParseNothing
      <3>2. CASE body = SubSeq(Body, 1, m)
        BY <2>1, <3>2, <1>3, <1>5, BodyRead, Zenon
      <3>3. QED
        BY <1>3, <3>1, <3>2
    <2>2. CASE form.kind # "json"
      BY <2>2, <1>5, <1>6
    <2>3. QED
      BY <2>1, <2>2
  <1>8. \A c \in stored :
          IF form.kind = "file" THEN \E n \in 0 .. Len(form.raw) : c = SubSeq(form.raw, 1, n)
          ELSE c = form.raw
    <2>1. form.kind \in {"json", "file", "chunk"}
      BY FormIs, Zenon
    <2>2. CASE form.kind = "file"
      <3>1. stored = {body} /\ Body = form.raw
        BY <2>2, StoredIs, BodyRead
      <3>2. 0 \in 0 .. Len(form.raw) /\ SubSeq(form.raw, 1, 0) = <<>>
        <4>1. form.raw \in Seq(Chars)
          BY FormIs, Zenon
        <4>2. QED
          BY <4>1
      <3>3. QED
        BY <2>2, <3>1, <3>2, <1>3
    <2>3. QED
      BY <2>1, <2>2, StoredIs
  <1>9. data = Total /\ ~Malformed =>
          /\ token = TRUE /\ params = Meant(form.params)
          /\ fields = IF form.kind = "json" THEN Meant(form.fields) ELSE NoFields
          /\ stored = IF form.kind = "json" THEN {} ELSE {form.raw}
    <2> SUFFICES ASSUME data = Total, ~Malformed
                 PROVE  /\ token = TRUE /\ params = Meant(form.params)
                        /\ fields = IF form.kind = "json" THEN Meant(form.fields) ELSE NoFields
                        /\ stored = IF form.kind = "json" THEN {} ELSE {form.raw}
      OBVIOUS
    <2>1. token = TRUE /\ params = Meant(form.params)
      BY <1>2, <1>4
    <2>2. body = Body /\ body = SubSeq(Body, 1, m) /\ m = Len(Body)
      BY <1>3, BodyRead
    <2>3. form.kind = "json" => fields = Meant(form.fields)
      BY <2>2, <1>5, BodyRead, Zenon
    <2>4. form.kind # "json" => fields = NoFields /\ body = form.raw
      BY <2>2, <1>5, BodyRead
    <2>5. QED
      BY <2>1, <2>3, <2>4, StoredIs
  <1> HIDE DEF fields, stored
  <1>10. Seen.token = token /\ Seen.params = params /\ Seen.fields = fields /\ Seen.stored = stored
    BY <1>1
  <1> HIDE DEF Sub
  <1>11. /\ Seen.token => Seen.params = Meant(form.params)
         /\ Sub(Seen.fields)
    BY <1>2, <1>7, <1>10, Zenon
  <1>12. data = Total /\ ~Malformed =>
           Seen = [token |-> TRUE, params |-> Meant(form.params),
                   fields |-> IF form.kind = "json" THEN Meant(form.fields) ELSE NoFields,
                   stored |-> IF form.kind = "json" THEN {} ELSE {form.raw}]
    BY <1>1, <1>9, Zenon
  <1>13. \A c \in Seen.stored :
           IF form.kind = "file" THEN \E n \in 0 .. Len(form.raw) : c = SubSeq(form.raw, 1, n)
           ELSE c = form.raw
    BY <1>8, <1>10, Zenon
  <1>14. QED
    BY <1>11, <1>12, <1>13, Zenon DEF Sub

(* Every parameter and field comes out as it went in, and a file or chunk  *)
(* is stored as it was sent, however the bytes were cut into pieces, for   *)
(* all the texts that the browser may send.                                *)
THEOREM WholeFormSeen == Spec => []HandlerSeesForm
  <1>1. ReaderInv => HandlerSeesForm
    <2> SUFFICES ASSUME ReaderInv, phase = "dispatched", spelling = "Content-Length",
                        ~Malformed, ~(line = "closed" /\ sent < Total)
                 PROVE  Seen = [token |-> TRUE, params |-> Meant(form.params),
                                fields |-> Meant(form.fields),
                                stored |-> IF form.kind = "json" THEN {} ELSE {form.raw}]
      BY DEF HandlerSeesForm
    <2>1. /\ form \in Forms /\ sent \in 0 .. Total /\ data \in 0 .. sent
          /\ Enough(data) \/ (line = "closed" /\ data = sent)
      BY DEF ReaderInv
    <2>2. /\ HeadRead \in Nat /\ Total \in Nat /\ Total = HeadRead + Len(Body)
          /\ Len(Body) \in Nat
      BY <2>1, TotalIs, BodyLength
    <2>3. data \in 0 .. Total
      BY <2>1, <2>2
    <2>4. Enough(data) => data >= HeadRead /\ data - HeadRead >= Len(Body)
      BY DEF Enough, Announced, Malformed
    <2>5. data = Total
      BY <2>1, <2>2, <2>3, <2>4
    <2>6. form.kind # "json" => Meant(form.fields) = NoFields
      <3>1. form.kind # "json" => form.fields = <<>>
        BY <2>1, FormsAssumption, Zenon
      <3>2. QED
        BY <3>1 DEF Meant, NoFields
    <2>7. QED
      BY <2>1, <2>3, <2>5, <2>6, SeenIs, Zenon
  <1>2. QED
    BY <1>1, ReaderSafe, PTL

(* And nothing but what the browser sent is seen with a token, whatever of *)
(* the request was read when it was handed over, except that file/upload   *)
(* may store a beginning of its file.                                      *)
THEOREM NothingTorn == Spec => []NoTornValue
  <1>1. ReaderInv => NoTornValue
    <2>1. ReaderInv => form \in Forms /\ data \in 0 .. Total
      <3> SUFFICES ASSUME ReaderInv PROVE form \in Forms /\ data \in 0 .. Total
        OBVIOUS
      <3>1. form \in Forms /\ sent \in 0 .. Total /\ data \in 0 .. sent
        BY DEF ReaderInv
      <3>2. QED
        BY <3>1, TotalIs
    <2>2. QED
      BY <2>1, SeenIs, Zenon DEF NoTornValue
  <1>2. QED
    BY <1>1, ReaderSafe, PTL
=============================================================================
