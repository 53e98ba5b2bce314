------------------------------ MODULE FilesProofs ------------------------------
(***************************************************************************)
(* Proofs about the two ways in which a file gets to a partition: cut out  *)
(* of a browser's request (FormUpload), for every file, every size of the  *)
(* buffer and every way the request is cut; and copied from the card       *)
(* (CardCheck), for every file, wherever the card is pulled out and        *)
(* whatever fails in the flash.  Then about the check of what was copied:  *)
(* calc_part_firm_crc32 computes the packer's CRC-32 from its pieces, and  *)
(* no damage of up to 32 bits next to each other gets past it.             *)
(***************************************************************************)
EXTENDS CardCheck, FormUpload, SequenceTheorems, WellFoundedInduction, TLAPS

(***************************************************************************)
(* Sequences                                                               *)
(***************************************************************************)

(* The provers meet fewer terms when they need not look into this set. *)
Text == Seq(Token)

LEMMA Lengths == \A s \in Text : Len(s) \in Nat
BY LenProperties DEF Text

LEMMA Empty == << >> \in Text /\ Len(<< >>) = 0 /\ \A s \in Text : << >> \o s = s
BY ConcatEmptySeq DEF Text

LEMMA Same == \A s, t \in Text : Len(s) = Len(t) /\ (\A i \in 1 .. Len(s) : s[i] = t[i]) => s = t
BY SeqEqual DEF Text

LEMMA PrefixIs ==
  ASSUME NEW s \in Text, NEW t \in Text
  PROVE  IsPrefix(s, t) <=> Len(s) <= Len(t) /\ \A k \in 1 .. Len(s) : s[k] = t[k]
<1>1. Len(s) \in Nat /\ Len(t) \in Nat
  BY Lengths
<1> QED
  BY <1>1 DEF IsPrefix

LEMMA Part ==
  ASSUME NEW s \in Text, NEW d \in 0 .. Len(s)
  PROVE  /\ SubSeq(s, d + 1, Len(s)) \in Text /\ SubSeq(s, 1, d) \in Text
         /\ Len(SubSeq(s, d + 1, Len(s))) = Len(s) - d /\ Len(SubSeq(s, 1, d)) = d
         /\ \A k \in 1 .. Len(s) - d : SubSeq(s, d + 1, Len(s))[k] = s[d + k]
         /\ SubSeq(s, 1, d) \o SubSeq(s, d + 1, Len(s)) = s
<1>1. Len(s) \in Nat /\ d \in Nat /\ \A i \in 1 .. Len(s) : s[i] \in Token
  BY Lengths, ElementOfSeq DEF Text
<1>2. SubSeq(s, 1, d) \in Text /\ Len(SubSeq(s, 1, d)) = d
  <2>1. /\ SubSeq(s, 1, d) \in Text
        /\ Len(SubSeq(s, 1, d)) = IF 1 <= d THEN d - 1 + 1 ELSE 0
    BY <1>1, SubSeqProperties DEF Text
  <2>2. (1 <= d /\ d - 1 + 1 = d) \/ d = 0
    BY <1>1
  <2> QED
    BY <2>1, <2>2
<1>3. PICK a \in Int, b \in Int : a = d + 1 /\ b = Len(s)
  BY <1>1
<1>4. /\ SubSeq(s, a, b) \in Text
      /\ Len(SubSeq(s, a, b)) = IF a <= b THEN b - a + 1 ELSE 0
      /\ \A i \in 1 .. b - a + 1 : SubSeq(s, a, b)[i] = s[a + i - 1]
  BY <1>1, <1>3, SubSeqProperties DEF Text
<1>5. /\ b - a + 1 = Len(s) - d /\ \A i \in 1 .. Len(s) - d : a + i - 1 = d + i
      /\ a <= b \/ Len(s) - d = 0
  BY <1>1, <1>3
<1>6. SubSeq(s, a, b) = SubSeq(s, d + 1, Len(s))
  BY <1>3
<1>7. SubSeq(s, 1, d) \o SubSeq(s, d + 1, Len(s)) = s
  <2>1. 1 \in 1 .. Len(s) + 1 /\ d \in 1 - 1 .. Len(s) /\ Len(s) \in d .. Len(s)
    BY <1>1
  <2>2. SubSeq(s, 1, d) \o SubSeq(s, d + 1, Len(s)) = SubSeq(s, 1, Len(s))
    BY <2>1, ConcatAdjacentSubSeq DEF Text
  <2> QED
    BY <2>2, SubSeqFull DEF Text
<1>8. /\ SubSeq(s, d + 1, Len(s)) \in Text /\ Len(SubSeq(s, d + 1, Len(s))) = Len(s) - d
      /\ \A k \in 1 .. Len(s) - d : SubSeq(s, d + 1, Len(s))[k] = s[d + k]
  BY <1>4, <1>5, <1>6
<1> QED
  BY <1>1, <1>2, <1>7, <1>8

LEMMA Regroup == \A p, q, r \in Text : (p \o q) \o r = p \o (q \o r)
BY ConcatAssociative DEF Text

Regrouped(p, q, u, v) == p \o (q \o (u \o v)) = (p \o q) \o (u \o v)

LEMMA RegroupFour == \A p, q, u, v \in Text : Regrouped(p, q, u, v)
<1> SUFFICES ASSUME NEW p \in Text, NEW q \in Text, NEW u \in Text, NEW v \in Text
             PROVE  p \o (q \o (u \o v)) = (p \o q) \o (u \o v)
  BY DEF Regrouped
<1>1. PICK w \in Text : w = u \o v
  BY ConcatProperties DEF Text
<1>2. p \o (q \o w) = (p \o q) \o w
  BY Regroup
<1> QED
  BY <1>1, <1>2

LEMMA Concat ==
  \A p, q \in Text :
    /\ p \o q \in Text /\ Len(p) \in Nat /\ Len(q) \in Nat /\ Len(p \o q) = Len(p) + Len(q)
    /\ \A i \in 1 .. Len(p) + Len(q) : (p \o q)[i] = IF i <= Len(p) THEN p[i] ELSE q[i - Len(p)]
BY ConcatProperties, LenProperties DEF Text

LEMMA Lowest ==
  ASSUME NEW T, T \subseteq Nat, T # {}
  PROVE  \E x \in T : \A y \in T : x <= y
<1>1. PICK x \in T : \A y \in T : ~(<<y, x>> \in OpToRel(<, Nat))
  BY NatLessThanWellFounded, WFMin
<1>2. ASSUME NEW y \in T PROVE x <= y
  <2>1. y \in Nat /\ x \in Nat
    OBVIOUS
  <2>2. ~(<<y, x>> \in {ss \in Nat \X Nat : ss[1] < ss[2]})
    BY <1>1 DEF OpToRel
  <2>3. <<y, x>> \in Nat \X Nat /\ <<y, x>>[1] = y /\ <<y, x>>[2] = x
    BY <2>1
  <2>4. ~(y < x)
    BY <2>2, <2>3
  <2> QED
    BY <2>1, <2>4
<1> QED
  BY <1>2

LEMMA Least == ASSUME NEW S, S \subseteq Nat, S # {} PROVE Min(S) \in S
BY Lowest DEF Min

LEMMA Greatest == ASSUME NEW n \in Nat, NEW S, S \subseteq 1 .. n, S # {} PROVE Max(S) \in S
<1> DEFINE T == {n - x : x \in S}
<1>1. \A x \in S : x \in Nat /\ n - x \in Nat
  OBVIOUS
<1>2. T \subseteq Nat /\ T # {}
  BY <1>1
<1>3. PICK m \in T : \A y \in T : m <= y
  BY <1>2, Lowest
<1>4. PICK x \in S : m = n - x
  OBVIOUS
<1>5. \A y \in S : n - x <= n - y
  BY <1>3, <1>4
<1>6. \A y \in S : x >= y
  BY <1>1, <1>5
<1> QED
  BY <1>6 DEF Max

(* Induction up to a length: a set that begins with 0 and goes on. *)
LEMMA UpTo ==
  ASSUME NEW n \in Nat, NEW T, 0 \in T, \A k \in 0 .. n - 1 : k \in T => k + 1 \in T
  PROVE  \A k \in 0 .. n : k \in T
<1> DEFINE U == {k \in 0 .. n : k \notin T}
<1> SUFFICES ASSUME U # {} PROVE FALSE
  OBVIOUS
<1>1. U \subseteq Nat
  OBVIOUS
<1>2. PICK u \in U : \A y \in U : u <= y
  BY <1>1, Lowest
<1>3. u \in 0 .. n /\ u \notin T /\ u # 0
  OBVIOUS
<1>4. u - 1 \in 0 .. n - 1 /\ ~(u <= u - 1) /\ (u - 1) + 1 = u /\ u - 1 \in 0 .. n
  BY <1>3
<1>5. u - 1 \in T
  BY <1>2, <1>4
<1> QED
  BY <1>3, <1>4, <1>5

(***************************************************************************)
(* FormUpload: the file in a request                                       *)
(***************************************************************************)

LEMMA TheTokens ==
  /\ LastBoundary \in Text /\ Len(LastBoundary) = 5
  /\ LastBoundary[1] = "cr" /\ LastBoundary[2] = "lf" /\ LastBoundary[3] = "b1"
  /\ LastBoundary[4] = "b2" /\ LastBoundary[5] = "dd"
  /\ Heading \in Text /\ Len(Heading) = 3
  /\ Heading[1] = "b1" /\ Heading[2] = "b2" /\ Heading[3] = "hd"
  /\ Boundary \in Text /\ Len(Boundary) = 2 /\ Boundary[1] = "b1" /\ Boundary[2] = "b2"
  /\ Common \in Text /\ Len(Common) = 4
<1>0. /\ "b1" \in Token /\ "b2" \in Token /\ "hd" \in Token /\ "dd" \in Token
      /\ "cr" \in Token /\ "lf" \in Token
  BY FormAssumption
<1>1. /\ Boundary \in Text /\ Len(Boundary) = 2 /\ Boundary[1] = "b1" /\ Boundary[2] = "b2"
      /\ \A i \in 1 .. 2 : i = 1 \/ i = 2
  <2>1. Boundary \in Text
    BY <1>0 DEF Boundary, Text
  <2>2. Len(Boundary) = 2
    BY DEF Boundary
  <2>3. Boundary[1] = "b1" /\ Boundary[2] = "b2"
    BY DEF Boundary
  <2> QED
    BY <2>1, <2>2, <2>3
<1>2. PICK e \in Text : e = <<"cr", "lf">> /\ Len(e) = 2 /\ e[1] = "cr" /\ e[2] = "lf"
  <2>1. <<"cr", "lf">> \in Text
    BY <1>0 DEF Text
  <2>2. Len(<<"cr", "lf">>) = 2
    OBVIOUS
  <2>3. <<"cr", "lf">>[1] = "cr" /\ <<"cr", "lf">>[2] = "lf"
    OBVIOUS
  <2> QED
    BY <2>1, <2>2, <2>3
<1>3. PICK d \in Text : d = <<"dd">> /\ Len(d) = 1 /\ d[1] = "dd"
  <2>1. <<"dd">> \in Text /\ Len(<<"dd">>) = 1 /\ <<"dd">>[1] = "dd"
    BY <1>0 DEF Text
  <2> QED
    BY <2>1
<1>4. PICK h \in Text : h = <<"hd">> /\ Len(h) = 1 /\ h[1] = "hd"
  <2>1. <<"hd">> \in Text /\ Len(<<"hd">>) = 1 /\ <<"hd">>[1] = "hd"
    BY <1>0 DEF Text
  <2> QED
    BY <2>1
<1>5. Common = e \o Boundary /\ LastBoundary = Common \o d /\ Heading = Boundary \o h
  BY <1>2, <1>3, <1>4 DEF Common, LastBoundary, Heading
<1>6. /\ Common \in Text /\ Len(Common) = 4
      /\ Common[1] = "cr" /\ Common[2] = "lf" /\ Common[3] = "b1" /\ Common[4] = "b2"
  <2>1. /\ Common \in Text /\ Len(Common) = Len(e) + Len(Boundary)
        /\ \A i \in 1 .. Len(e) + Len(Boundary) :
             Common[i] = IF i <= Len(e) THEN e[i] ELSE Boundary[i - Len(e)]
    BY <1>1, <1>5, Concat
  <2> QED
    BY <1>1, <1>2, <2>1
<1>7. /\ LastBoundary \in Text /\ Len(LastBoundary) = 5
      /\ LastBoundary[1] = "cr" /\ LastBoundary[2] = "lf" /\ LastBoundary[3] = "b1"
      /\ LastBoundary[4] = "b2" /\ LastBoundary[5] = "dd"
  <2>1. /\ LastBoundary \in Text /\ Len(LastBoundary) = Len(Common) + Len(d)
        /\ \A i \in 1 .. Len(Common) + Len(d) :
             LastBoundary[i] = IF i <= Len(Common) THEN Common[i] ELSE d[i - Len(Common)]
    BY <1>5, <1>6, Concat
  <2> QED
    BY <1>3, <1>6, <2>1
<1>8. /\ Heading \in Text /\ Len(Heading) = 3
      /\ Heading[1] = "b1" /\ Heading[2] = "b2" /\ Heading[3] = "hd"
  <2>1. /\ Heading \in Text /\ Len(Heading) = Len(Boundary) + Len(h)
        /\ \A i \in 1 .. Len(Boundary) + Len(h) :
             Heading[i] = IF i <= Len(Boundary) THEN Boundary[i] ELSE h[i - Len(Boundary)]
    BY <1>1, <1>5, Concat
  <2> QED
    BY <1>1, <1>4, <2>1
<1> QED
  BY <1>1, <1>6, <1>7, <1>8

(* The sizes that FormAssumption gives. *)
LEMMA Thirds == Third \in Nat /\ Third > 5 /\ Size = 3 * Third
BY FormAssumption, TheTokens DEF Size

(* What is found in front of a possible boundary ends inside the buffer. *)
LEMMA InBuffer ==
  ASSUME NEW buf \in Text
  PROVE  NextPossibleBoundary(buf) \in 0 .. Len(buf)
<1> DEFINE found == {i \in 1 .. Len(buf) : IsPrefix(Common, SubSeq(buf, i, Len(buf)))}
           cr    == {i \in 1 .. Len(buf) : buf[i] = "cr"}
<1>1. Len(buf) \in Nat
  BY Lengths
<1>2. found # {} => Min(found) \in 1 .. Len(buf)
  <2>1. found \subseteq 1 .. Len(buf) /\ found \subseteq Nat
    BY <1>1
  <2> HIDE DEF found
  <2> QED
    BY <2>1, Least
<1>3. cr # {} => Max(cr) \in 1 .. Len(buf)
  <2>1. cr \subseteq 1 .. Len(buf)
    OBVIOUS
  <2> HIDE DEF cr
  <2> QED
    BY <1>1, <2>1, Greatest
<1> DEFINE last == Max(cr)
<1>4. NextPossibleBoundary(buf) =
        IF found # {} THEN Min(found) - 1
        ELSE IF cr = {} THEN Len(buf)
        ELSE IF last = Len(buf) - 1 /\ buf[last + 1] = "lf" THEN Len(buf)
        ELSE IF IsPrefix(SubSeq(buf, last + 2, Len(buf)), Boundary) THEN last - 1
        ELSE Len(buf)
  BY DEF NextPossibleBoundary
<1>5. cr # {} => last \in 1 .. Len(buf)
  BY <1>3
<1> HIDE DEF found, cr, last
<1> QED
  BY <1>1, <1>2, <1>4, <1>5

(* A file does not hold the boundary. *)
LEMMA NoBoundary ==
  ASSUME NEW f \in Files, NEW i \in Nat, i + 2 <= Len(f)
  PROVE  ~(f[i + 1] = "b1" /\ f[i + 2] = "b2")
<1>1. f \in Text /\ i \in 0 .. Len(f) /\ i + 1 \in 1 .. Len(f) /\ Len(f) \in Nat
  BY FormAssumption, Lengths DEF Text
<1> DEFINE t == SubSeq(f, i + 1, Len(f))
<1>2. t \in Text /\ Len(t) = Len(f) - i /\ \A k \in 1 .. Len(f) - i : t[k] = f[i + k]
  BY <1>1, Part
<1>3. ~IsPrefix(Boundary, t)
  BY <1>1, FormAssumption
<1> HIDE DEF t
<1>4. Boundary \in Text /\ Len(Boundary) = 2 /\ Boundary[1] = "b1" /\ Boundary[2] = "b2"
  BY TheTokens
<1>5. ~(Len(Boundary) <= Len(t) /\ \A k \in 1 .. Len(Boundary) : Boundary[k] = t[k])
  BY <1>2, <1>3, <1>4, PrefixIs
<1>6. 1 \in 1 .. Len(f) - i /\ 2 \in 1 .. Len(f) - i /\ 2 <= Len(t)
  BY <1>1, <1>2
<1>7. t[1] = f[i + 1] /\ t[2] = f[i + 2]
  BY <1>2, <1>6
<1>8. \A k \in 1 .. 2 : k = 1 \/ k = 2
  OBVIOUS
<1> QED
  BY <1>4, <1>5, <1>6, <1>7, <1>8

(* The last boundary is where the file ends, and nowhere else. *)
LEMMA OnlyAtTheEnd ==
  ASSUME NEW f \in Files, NEW w \in Text, NEW b \in Text, NEW r \in Text,
         w \o (b \o r) = f \o LastBoundary, IsPrefix(LastBoundary, b)
  PROVE  w = f
<1>0. PICK t : t = f \o LastBoundary
  OBVIOUS
<1>1. /\ f \in Text /\ LastBoundary \in Text /\ Len(LastBoundary) = 5
      /\ Len(w) \in Nat /\ Len(b) \in Nat /\ Len(r) \in Nat /\ Len(f) \in Nat
  BY FormAssumption, TheTokens, Lengths DEF Text
<1>2. /\ Len(t) = Len(f) + 5
      /\ \A i \in 1 .. Len(f) + 5 : t[i] = IF i <= Len(f) THEN f[i] ELSE LastBoundary[i - Len(f)]
  <2>1. /\ Len(t) = Len(f) + Len(LastBoundary)
        /\ \A i \in 1 .. Len(f) + Len(LastBoundary) :
             t[i] = IF i <= Len(f) THEN f[i] ELSE LastBoundary[i - Len(f)]
    BY <1>0, <1>1, Concat
  <2> QED
    BY <1>1, <2>1
<1>3. 5 <= Len(b) /\ \A k \in 1 .. 5 : LastBoundary[k] = b[k]
  <2>1. Len(LastBoundary) <= Len(b) /\ \A k \in 1 .. Len(LastBoundary) : LastBoundary[k] = b[k]
    BY <1>1, PrefixIs
  <2> QED
    BY <1>1, <2>1
<1>4. /\ b \o r \in Text /\ Len(b \o r) = Len(b) + Len(r)
      /\ \A k \in 1 .. 5 : (b \o r)[k] = LastBoundary[k]
  <2>1. /\ b \o r \in Text /\ Len(b \o r) = Len(b) + Len(r)
        /\ \A i \in 1 .. Len(b) + Len(r) : (b \o r)[i] = IF i <= Len(b) THEN b[i] ELSE r[i - Len(b)]
    BY Concat
  <2>2. \A k \in 1 .. 5 : k \in 1 .. Len(b) + Len(r) /\ k <= Len(b)
    BY <1>1, <1>3
  <2> QED
    BY <1>3, <2>1, <2>2
<1>5. PICK c \in Text : c = b \o r
  BY <1>4
<1>6. /\ Len(t) = Len(w) + Len(c) /\ Len(c) \in Nat /\ Len(c) >= 5
      /\ \A i \in 1 .. Len(w) + Len(c) : t[i] = IF i <= Len(w) THEN w[i] ELSE c[i - Len(w)]
  <2>1. t = w \o c
    BY <1>0, <1>5
  <2>2. Len(c) \in Nat /\ Len(c) >= 5
    BY <1>1, <1>3, <1>4, <1>5
  <2> QED
    BY <2>1, <2>2, Concat
<1>7. \A k \in 1 .. 5 : t[Len(w) + k] = LastBoundary[k]
  <2>1. \A k \in 1 .. 5 : /\ Len(w) + k \in 1 .. Len(w) + Len(c)
                          /\ ~(Len(w) + k <= Len(w)) /\ (Len(w) + k) - Len(w) = k
    BY <1>1, <1>6
  <2> QED
    BY <1>4, <1>5, <1>6, <2>1
<1>8. Len(w) <= Len(f)
  BY <1>1, <1>2, <1>6
<1>9. Len(w) = Len(f)
  <2> SUFFICES ASSUME Len(w) < Len(f) PROVE FALSE
    BY <1>1, <1>8
  <2>1. /\ t[Len(w) + 2] = "lf" /\ t[Len(w) + 3] = "b1" /\ t[Len(w) + 4] = "b2"
    BY <1>7, TheTokens
  <2>2. t[Len(f) + 1] = "cr"
    <3>1. Len(f) + 1 \in 1 .. Len(f) + 5 /\ ~(Len(f) + 1 <= Len(f)) /\ (Len(f) + 1) - Len(f) = 1
      BY <1>1
    <3> QED
      BY <1>2, <3>1, TheTokens
  <2>3. CASE Len(w) + 4 <= Len(f)
    <3>1. Len(w) + 2 \in Nat /\ (Len(w) + 2) + 2 <= Len(f)
          /\ (Len(w) + 2) + 1 = Len(w) + 3 /\ (Len(w) + 2) + 2 = Len(w) + 4
      BY <1>1, <2>3
    <3>2. ~(f[Len(w) + 3] = "b1" /\ f[Len(w) + 4] = "b2")
      BY <3>1, NoBoundary
    <3>3. t[Len(w) + 3] = f[Len(w) + 3] /\ t[Len(w) + 4] = f[Len(w) + 4]
      BY <1>1, <1>2, <2>3
    <3> QED
      BY <2>1, <3>2, <3>3
  <2>4. CASE Len(w) + 4 > Len(f)
    <3>1. Len(f) + 1 = Len(w) + 2 \/ Len(f) + 1 = Len(w) + 3 \/ Len(f) + 1 = Len(w) + 4
      BY <1>1, <2>4
    <3> QED
      BY <2>1, <2>2, <3>1
  <2> QED
    BY <1>1, <2>3, <2>4
<1>10. \A i \in 1 .. Len(f) : w[i] = f[i]
  <2>1. \A i \in 1 .. Len(f) : i \in 1 .. Len(f) + 5 /\ i \in 1 .. Len(w) + Len(c) /\ i <= Len(w)
    BY <1>1, <1>6, <1>9
  <2> QED
    BY <1>2, <1>6, <2>1
<1> QED
  BY <1>1, <1>9, <1>10, Same

(* In the file and behind it, nothing looks like a section's heading. *)
LEMMA NoHeading ==
  ASSUME NEW f \in Files, NEW w \in Text, NEW b \in Text, NEW r \in Text,
         w \o (b \o r) = f \o LastBoundary
  PROVE  ~IsPrefix(Heading, b)
<1> SUFFICES ASSUME IsPrefix(Heading, b) PROVE FALSE
  OBVIOUS
<1>0. PICK t : t = f \o LastBoundary
  OBVIOUS
<1>1. /\ f \in Text /\ LastBoundary \in Text /\ Len(LastBoundary) = 5
      /\ Heading \in Text /\ Len(Heading) = 3
      /\ Len(w) \in Nat /\ Len(b) \in Nat /\ Len(r) \in Nat /\ Len(f) \in Nat
  BY FormAssumption, TheTokens, Lengths DEF Text
<1>2. /\ Len(t) = Len(f) + 5
      /\ \A i \in 1 .. Len(f) + 5 : t[i] = IF i <= Len(f) THEN f[i] ELSE LastBoundary[i - Len(f)]
  <2>1. /\ Len(t) = Len(f) + Len(LastBoundary)
        /\ \A i \in 1 .. Len(f) + Len(LastBoundary) :
             t[i] = IF i <= Len(f) THEN f[i] ELSE LastBoundary[i - Len(f)]
    BY <1>0, <1>1, Concat
  <2> QED
    BY <1>1, <2>1
<1>3. 3 <= Len(b) /\ \A k \in 1 .. 3 : Heading[k] = b[k]
  <2>1. Len(Heading) <= Len(b) /\ \A k \in 1 .. Len(Heading) : Heading[k] = b[k]
    BY <1>1, PrefixIs
  <2> QED
    BY <1>1, <2>1
<1>4. /\ b \o r \in Text /\ Len(b \o r) = Len(b) + Len(r)
      /\ \A k \in 1 .. 3 : (b \o r)[k] = Heading[k]
  <2>1. /\ b \o r \in Text /\ Len(b \o r) = Len(b) + Len(r)
        /\ \A i \in 1 .. Len(b) + Len(r) : (b \o r)[i] = IF i <= Len(b) THEN b[i] ELSE r[i - Len(b)]
    BY Concat
  <2>2. \A k \in 1 .. 3 : k \in 1 .. Len(b) + Len(r) /\ k <= Len(b)
    BY <1>1, <1>3
  <2> QED
    BY <1>3, <2>1, <2>2
<1>5. PICK c \in Text : c = b \o r
  BY <1>4
<1>6. /\ Len(t) = Len(w) + Len(c) /\ Len(c) \in Nat /\ Len(c) >= 3
      /\ \A i \in 1 .. Len(w) + Len(c) : t[i] = IF i <= Len(w) THEN w[i] ELSE c[i - Len(w)]
  <2>1. t = w \o c
    BY <1>0, <1>5
  <2>2. Len(c) \in Nat /\ Len(c) >= 3
    BY <1>1, <1>3, <1>4, <1>5
  <2> QED
    BY <2>1, <2>2, Concat
<1>7. \A k \in 1 .. 3 : t[Len(w) + k] = Heading[k]
  <2>1. \A k \in 1 .. 3 : /\ Len(w) + k \in 1 .. Len(w) + Len(c)
                          /\ ~(Len(w) + k <= Len(w)) /\ (Len(w) + k) - Len(w) = k
    BY <1>1, <1>6
  <2> QED
    BY <1>4, <1>5, <1>6, <2>1
<1>8. t[Len(w) + 1] = "b1" /\ t[Len(w) + 2] = "b2" /\ t[Len(w) + 3] = "hd"
  BY <1>7, TheTokens
<1>9. CASE Len(w) + 2 <= Len(f)
  <2>1. t[Len(w) + 1] = f[Len(w) + 1] /\ t[Len(w) + 2] = f[Len(w) + 2]
    BY <1>1, <1>2, <1>9
  <2> QED
    BY <1>1, <1>8, <1>9, <2>1, NoBoundary
<1>10. CASE Len(w) + 2 > Len(f)
  <2>1. /\ Len(w) + 3 \in 1 .. Len(f) + 5 /\ ~(Len(w) + 3 <= Len(f))
        /\ (Len(w) + 3) - Len(f) \in 1 .. 5
    <3>1. Len(f) + 5 = Len(w) + Len(c) /\ Len(c) >= 3 /\ Len(c) \in Nat
      BY <1>2, <1>6
    <3>2. Len(w) + 3 <= Len(f) + 5 /\ Len(w) + 3 > Len(f) /\ Len(w) + 3 >= 1
      BY <1>1, <1>10, <3>1
    <3>3. PICK lw \in Nat, lf \in Nat : lw = Len(w) /\ lf = Len(f)
      BY <1>1
    <3>4. lw + 3 \in 1 .. lf + 5 /\ ~(lw + 3 <= lf) /\ (lw + 3) - lf \in 1 .. 5
      BY <3>2, <3>3
    <3> QED
      BY <3>3, <3>4
  <2>2. t[Len(w) + 3] = LastBoundary[(Len(w) + 3) - Len(f)]
    BY <1>2, <2>1
  <2>3. \A k \in 1 .. 5 : LastBoundary[k] # "hd"
    <3>1. \A k \in 1 .. 5 : k = 1 \/ k = 2 \/ k = 3 \/ k = 4 \/ k = 5
      OBVIOUS
    <3> QED
      BY <3>1, TheTokens
  <2> QED
    BY <1>8, <2>1, <2>2, <2>3
<1> QED
  BY <1>1, <1>9, <1>10

(* A piece of the buffer taken off its front leaves the whole as it was. *)
LEMMA Cut ==
  ASSUME NEW b \in Text, NEW r \in Text, NEW n \in 0 .. Len(b)
  PROVE  /\ SubSeq(b, 1, n) \in Text /\ SubSeq(b, n + 1, Len(b)) \in Text
         /\ Len(SubSeq(b, n + 1, Len(b))) = Len(b) - n /\ Len(SubSeq(b, 1, n)) = n
         /\ SubSeq(b, 1, n) \o (SubSeq(b, n + 1, Len(b)) \o r) = b \o r
<1>1. /\ SubSeq(b, n + 1, Len(b)) \in Text /\ SubSeq(b, 1, n) \in Text
      /\ Len(SubSeq(b, n + 1, Len(b))) = Len(b) - n /\ Len(SubSeq(b, 1, n)) = n
      /\ SubSeq(b, 1, n) \o SubSeq(b, n + 1, Len(b)) = b
  BY Part
<1>2. PICK p \in Text, q \in Text : p = SubSeq(b, 1, n) /\ q = SubSeq(b, n + 1, Len(b))
  BY <1>1
<1>3. p \o (q \o r) = (p \o q) \o r
  BY Regroup
<1> QED
  BY <1>1, <1>2, <1>3

LEMMA CancelLeft == \A p, q, r \in Text : p \o q = p \o r => q = r
<1>1. \A p, q, r \in Text : p \o q = p \o r => q = r
  BY ConcatSimplifications DEF Text
<1> QED
  BY <1>1

(* Whoever looks at enough of h \o x sees h, and x behind it. *)
Without(h, b) == SubSeq(b, Len(h) + 1, Len(b))

Alike(h, x, b, r) == b \o r = h \o x
Seen(h, x, b, r)  == IsPrefix(h, b) /\ x = Without(h, b) \o r

LEMMA Behind ==
  \A h, x, b, r \in Text : Alike(h, x, b, r) /\ Len(h) <= Len(b) => Seen(h, x, b, r)
<1> SUFFICES ASSUME NEW h \in Text, NEW x \in Text, NEW b \in Text, NEW r \in Text,
                    b \o r = h \o x, Len(h) <= Len(b)
             PROVE  Seen(h, x, b, r)
  BY DEF Alike
<1>1. PICK lh \in Nat, lb \in Nat, lr \in Nat, lx \in Nat :
        lh = Len(h) /\ lb = Len(b) /\ lr = Len(r) /\ lx = Len(x)
  BY Lengths
<1>2. PICK t : t = h \o x
  OBVIOUS
<1>3. /\ Len(t) = lh + lx
      /\ \A i \in 1 .. lh + lx : t[i] = IF i <= lh THEN h[i] ELSE x[i - lh]
  <2>1. /\ Len(h \o x) = Len(h) + Len(x)
        /\ \A i \in 1 .. Len(h) + Len(x) : (h \o x)[i] = IF i <= Len(h) THEN h[i] ELSE x[i - Len(h)]
    BY Concat
  <2> QED
    BY <1>1, <1>2, <2>1
<1>4. /\ Len(t) = lb + lr
      /\ \A i \in 1 .. lb + lr : t[i] = IF i <= lb THEN b[i] ELSE r[i - lb]
  <2>1. /\ Len(b \o r) = Len(b) + Len(r)
        /\ \A i \in 1 .. Len(b) + Len(r) : (b \o r)[i] = IF i <= Len(b) THEN b[i] ELSE r[i - Len(b)]
    BY Concat
  <2> QED
    BY <1>1, <1>2, <2>1
<1>5. \A i \in 1 .. lh : h[i] = b[i]
  <2>1. \A i \in 1 .. lh : i \in 1 .. lh + lx /\ i \in 1 .. lb + lr /\ i <= lb /\ i <= lh
    BY <1>1
  <2> QED
    BY <1>3, <1>4, <2>1
<1>6. IsPrefix(h, b)
  BY <1>1, <1>5, PrefixIs
<1>7. lh \in 0 .. Len(b)
  BY <1>1
<1>8. /\ SubSeq(b, 1, lh) \in Text /\ SubSeq(b, lh + 1, Len(b)) \in Text
      /\ Len(SubSeq(b, 1, lh)) = lh
      /\ SubSeq(b, 1, lh) \o (SubSeq(b, lh + 1, Len(b)) \o r) = b \o r
  BY <1>7, Cut
<1>9. PICK p \in Text, q \in Text : p = SubSeq(b, 1, lh) /\ q = SubSeq(b, lh + 1, Len(b))
  BY <1>8
<1>10. p = h
  <2>1. p \o q = b
    BY <1>7, <1>9, Part
  <2>2. Len(p) = lh /\ Len(q) \in Nat
    BY <1>8, <1>9, Lengths
  <2>3. \A i \in 1 .. Len(p) + Len(q) : b[i] = IF i <= Len(p) THEN p[i] ELSE q[i - Len(p)]
    BY <2>1, Concat
  <2>4. \A i \in 1 .. lh : i \in 1 .. Len(p) + Len(q) /\ i <= Len(p)
    BY <2>2
  <2>5. \A i \in 1 .. lh : p[i] = h[i]
    BY <1>5, <2>3, <2>4
  <2> QED
    BY <1>1, <2>2, <2>5, Same
<1>11. q \o r \in Text /\ h \o (q \o r) = h \o x
  BY <1>8, <1>9, <1>10, Concat
<1>12. q \o r = x
  BY <1>11, CancelLeft
<1> QED
  BY <1>1, <1>6, <1>9, <1>12 DEF Without, Seen

(***************************************************************************)
(* Until the heading is found the buffer and what is still to come are the *)
(* whole body; from then on what was written comes in front of them, and   *)
(* together they are the file and the last boundary.                       *)
(***************************************************************************)
Sent == Heading \o (payload \o LastBoundary)

FormType ==
  /\ payload \in Files
  /\ buffer \in Text /\ rest \in Text /\ written \in Text
  /\ Len(buffer) <= Size - 1
  /\ phase \in {"read", "loop", "closed"}
  /\ broken \in BOOLEAN /\ file_opened \in BOOLEAN /\ done \in BOOLEAN

FormInv ==
  /\ FormType
  /\ ~file_opened => written = << >> /\ buffer \o rest = Sent
  /\ file_opened => written \o (buffer \o rest) = payload \o LastBoundary
  /\ done => file_opened /\ written = payload /\ phase = "closed"

LEMMA Payload ==
  ASSUME FormType
  PROVE  /\ payload \in Text /\ payload \o LastBoundary \in Text
         /\ Sent \in Text
<1>1. payload \in Text
  BY FormAssumption DEF FormType, Text
<1>2. payload \o LastBoundary \in Text
  BY <1>1, TheTokens, Concat
<1> QED
  BY <1>1, <1>2, TheTokens, Concat DEF Sent

LEMMA FormStarts == FormInit => FormInv
<1> SUFFICES ASSUME FormInit PROVE FormInv
  OBVIOUS
<1>1. PICK k \in 0 .. Size - 2 :
        /\ k <= Len(Heading \o payload \o LastBoundary)
        /\ buffer = SubSeq(Heading \o payload \o LastBoundary, 1, k)
        /\ rest = SubSeq(Heading \o payload \o LastBoundary, k + 1, Len(Heading \o payload \o LastBoundary))
  BY DEF FormInit
<1>2. payload \in Files /\ payload \in Text
  BY FormAssumption DEF FormInit, Text
<1>3. /\ Heading \o payload \o LastBoundary = Sent
      /\ Heading \o payload \o LastBoundary \in Text
  <2>1. PICK h \in Text, f \in Text, l \in Text :
          h = Heading /\ f = payload /\ l = LastBoundary
    BY <1>2, TheTokens
  <2>2. h \o f \in Text
    BY Concat
  <2>3. (h \o f) \o l \in Text
    BY <2>2, Concat
  <2>4. (h \o f) \o l = h \o (f \o l)
    BY Regroup
  <2> QED
    BY <2>1, <2>3, <2>4 DEF Sent
<1>4. PICK b \in Text : b = Heading \o payload \o LastBoundary
  BY <1>3
<1>5. k \in 0 .. Len(b)
  <2>1. Len(b) \in Nat /\ k \in Nat /\ k <= Len(b)
    BY <1>1, <1>4, Lengths, Thirds
  <2> QED
    BY <2>1
<1>6. /\ buffer \in Text /\ rest \in Text /\ Len(buffer) = k
      /\ buffer \o rest = b
  <2>1. buffer = SubSeq(b, 1, k) /\ rest = SubSeq(b, k + 1, Len(b))
    BY <1>1, <1>4
  <2> QED
    BY <1>5, <2>1, Part
<1>7. written \in Text /\ written = << >>
  BY Empty DEF FormInit
<1>8. Len(buffer) <= Size - 1
  BY <1>1, <1>6, Thirds
<1>9. phase = "read" /\ broken = FALSE /\ file_opened = FALSE /\ done = FALSE
  BY DEF FormInit
<1>10. FormType
  BY <1>2, <1>6, <1>7, <1>8, <1>9 DEF FormType
<1> QED
  BY <1>3, <1>4, <1>6, <1>7, <1>9, <1>10 DEF FormInv

LEMMA ReadKeeps == FormInv /\ Read => FormInv'
<1> SUFFICES ASSUME FormInv, Read PROVE FormInv'
  OBVIOUS
<1>1. PICK k \in 1 .. Room :
        /\ k <= Len(rest)
        /\ buffer' = buffer \o SubSeq(rest, 1, k)
        /\ rest' = SubSeq(rest, k + 1, Len(rest))
  BY DEF Read
<1>2. /\ phase' = "loop" /\ payload' = payload /\ broken' = broken
      /\ file_opened' = file_opened /\ written' = written /\ done' = done
      /\ phase = "read"
  BY DEF Read
<1>3. PICK b \in Text, r \in Text : b = buffer /\ r = rest
  BY DEF FormInv, FormType
<1>4. k \in 0 .. Len(r) /\ k \in Nat /\ k <= Size - Len(b) - 1 /\ Len(b) \in Nat
  <2>1. Len(r) \in Nat /\ Len(b) \in Nat
    BY Lengths
  <2>2. k \in 1 .. Size - Len(b) - 1 /\ k <= Len(r)
    BY <1>1, <1>3 DEF Room
  <2> QED
    BY <2>1, <2>2, Thirds
<1>5. /\ SubSeq(r, 1, k) \in Text /\ SubSeq(r, k + 1, Len(r)) \in Text
      /\ Len(SubSeq(r, 1, k)) = k
      /\ SubSeq(r, 1, k) \o SubSeq(r, k + 1, Len(r)) = r
  BY <1>4, Part
<1>6. PICK c \in Text, d \in Text : c = SubSeq(r, 1, k) /\ d = SubSeq(r, k + 1, Len(r))
  BY <1>5
<1>7. /\ buffer' = b \o c /\ rest' = d /\ Len(c) = k /\ c \o d = r
  BY <1>1, <1>3, <1>5, <1>6
<1>8. b \o c \in Text /\ Len(b \o c) = Len(b) + Len(c)
  BY Concat
<1>9. (b \o c) \o d = b \o r
  BY <1>7, Regroup
<1>10. Len(buffer') <= Size - 1
  BY <1>4, <1>7, <1>8, Thirds
<1>11. buffer' \o rest' = buffer \o rest
  BY <1>3, <1>7, <1>9
<1>12. FormType'
  BY <1>2, <1>7, <1>8, <1>10 DEF FormInv, FormType
<1>13. ~done
  BY <1>2 DEF FormInv
<1>14. Sent' = Sent
  BY <1>2 DEF Sent, Heading, LastBoundary, Common, Boundary
<1> QED
  BY <1>2, <1>11, <1>12, <1>13, <1>14 DEF FormInv

(* What one section of the buffer gives to the file, and what it leaves.   *)
Given(b) == SubSeq(b, 1, NextPossibleBoundary(b))
Kept(b)  == SubSeq(b, NextPossibleBoundary(b) + 1, Len(b))

Handled(w, b, r) ==
  /\ w \o Given(b) \in Text /\ Kept(b) \in Text /\ Len(Kept(b)) <= Len(b)
  /\ w \o (b \o r) = (w \o Given(b)) \o (Kept(b) \o r)

LEMMA SectionHandled == \A w, b, r \in Text : Handled(w, b, r)
<1> SUFFICES ASSUME NEW w \in Text, NEW b \in Text, NEW r \in Text PROVE Handled(w, b, r)
  OBVIOUS
<1>1. PICK n \in 0 .. Len(b) : n = NextPossibleBoundary(b)
  BY InBuffer
<1>2. Given(b) = SubSeq(b, 1, n) /\ Kept(b) = SubSeq(b, n + 1, Len(b))
  BY <1>1 DEF Given, Kept
<1>3. /\ SubSeq(b, 1, n) \in Text /\ SubSeq(b, n + 1, Len(b)) \in Text
      /\ Len(SubSeq(b, n + 1, Len(b))) = Len(b) - n
      /\ SubSeq(b, 1, n) \o (SubSeq(b, n + 1, Len(b)) \o r) = b \o r
  BY Cut
<1>4. PICK c \in Text, d \in Text : c = SubSeq(b, 1, n) /\ d = SubSeq(b, n + 1, Len(b))
  BY <1>3
<1>5. w \o c \in Text /\ d \o r \in Text
  BY Concat
<1>6. w \o (c \o (d \o r)) = (w \o c) \o (d \o r)
  <2>1. Regrouped(w, c, d, r)
    BY RegroupFour
  <2> QED
    BY <2>1 DEF Regrouped
<1>7. c \o (d \o r) = b \o r
  BY <1>3, <1>4
<1>8. Len(d) <= Len(b)
  <2>1. Len(b) \in Nat
    BY Lengths
  <2> QED
    BY <1>3, <1>4, <2>1
<1> QED
  BY <1>2, <1>4, <1>5, <1>6, <1>7, <1>8 DEF Handled

(* A section is the file from where it was left, or, the first time, from   *)
(* behind the heading. *)
Cuts(w, e) ==
  /\ w \o (e \o rest) = payload \o LastBoundary
  /\ written' = w \o Given(e) /\ buffer' = Kept(e)
  /\ \/ file_opened /\ w = written /\ e = buffer
     \/ ~file_opened /\ w = << >> /\ Len(e) = Len(buffer) - 3

LEMMA SectionCuts ==
  ASSUME FormInv, Section
  PROVE  /\ file_opened' /\ Len(buffer) >= 5
         /\ \E w, e \in Text : Cuts(w, e)
<1>1. PICK w \in Text, b \in Text, r \in Text :
        w = written /\ b = buffer /\ r = rest
  BY DEF FormInv, FormType
<1>2. PICK x \in Text : x = payload \o LastBoundary
  BY Payload DEF FormInv
<1>3. Len(b) \in Nat /\ Len(b) >= 5
  <2>1. Len(b) \in Nat
    BY Lengths
  <2>2. CASE Len(buffer) >= Third
    BY <1>1, <2>1, <2>2, Thirds
  <2>3. CASE Has(LastBoundary, buffer)
    <3>1. PICK i \in 1 .. Len(b) : IsPrefix(LastBoundary, SubSeq(b, i, Len(b)))
      BY <1>1, <2>3 DEF Has
    <3>2. PICK j \in 0 .. Len(b) : j = i - 1 /\ j + 1 = i
      <4>1. i - 1 \in 0 .. Len(b) /\ (i - 1) + 1 = i
        BY <2>1
      <4> QED
        BY <4>1
    <3>3. SubSeq(b, j + 1, Len(b)) \in Text /\ Len(SubSeq(b, j + 1, Len(b))) = Len(b) - j
      BY Part
    <3>4. Len(LastBoundary) <= Len(SubSeq(b, j + 1, Len(b)))
      BY <3>1, <3>2, <3>3, TheTokens, PrefixIs
    <3> QED
      BY <2>1, <3>3, <3>4, TheTokens
  <2> QED
    BY <2>2, <2>3 DEF Section
<1>4. CASE IsPrefix(Heading, buffer) /\ file_opened' = TRUE
           /\ HandleSection(SubSeq(buffer, Len(Heading) + 1, Len(buffer)))
  <2>1. ~file_opened
    <3> SUFFICES ASSUME file_opened PROVE FALSE
      OBVIOUS
    <3>1. w \o (b \o r) = payload \o LastBoundary
      BY <1>1 DEF FormInv
    <3>2. payload \in Files
      BY DEF FormInv, FormType
    <3> QED
      BY <1>1, <1>4, <3>1, <3>2, NoHeading
  <2>2. w = << >> /\ b \o r = Heading \o x
    BY <1>1, <1>2, <2>1 DEF FormInv, Sent
  <2>3. Len(Heading) <= Len(b) /\ Heading \in Text /\ Len(Heading) = 3
    BY <1>3, TheTokens
  <2>4. SubSeq(b, Len(Heading) + 1, Len(b)) \o r = x
    <3>1. PICK h \in Text : h = Heading
      BY <2>3
    <3>2. b \o r = h \o x /\ Len(h) <= Len(b)
      BY <2>2, <2>3, <3>1
    <3>3. Seen(h, x, b, r)
      BY <3>2, Behind DEF Alike
    <3> QED
      BY <3>1, <3>3 DEF Seen, Without
  <2>5. /\ SubSeq(b, Len(Heading) + 1, Len(b)) \in Text
        /\ Len(SubSeq(b, Len(Heading) + 1, Len(b))) = Len(b) - Len(Heading)
    <3>1. 3 \in 0 .. Len(b)
      BY <1>3
    <3>2. /\ SubSeq(b, 3 + 1, Len(b)) \in Text
          /\ Len(SubSeq(b, 3 + 1, Len(b))) = Len(b) - 3
      BY <3>1, Part
    <3> QED
      BY <2>3, <3>2
  <2>6. PICK e \in Text : e = SubSeq(b, Len(Heading) + 1, Len(b))
    BY <2>5
  <2>7. HandleSection(e) /\ e \o r = x /\ Len(e) = Len(b) - 3
    BY <1>1, <1>4, <2>3, <2>4, <2>5, <2>6
  <2>8. w \o (e \o r) = x
    BY <2>2, <2>7, Empty
  <2>9. written' = w \o Given(e) /\ buffer' = Kept(e)
    BY <1>1, <2>7 DEF HandleSection, Given, Kept
  <2>10. Cuts(w, e)
    BY <1>1, <1>2, <2>1, <2>2, <2>7, <2>8, <2>9 DEF Cuts
  <2> QED
    BY <1>1, <1>3, <1>4, <2>10
<1>5. CASE ~IsPrefix(Heading, buffer) /\ HandleSection(buffer) /\ file_opened' = file_opened
  <2>1. file_opened
    <3> SUFFICES ASSUME ~file_opened PROVE FALSE
      BY DEF FormInv, FormType
    <3>1. b \o r = Heading \o x
      BY <1>1, <1>2 DEF FormInv, Sent
    <3>2. Len(Heading) <= Len(b) /\ Heading \in Text
      BY <1>3, TheTokens
    <3>3. IsPrefix(Heading, b)
      <4>1. PICK h \in Text : h = Heading
        BY <3>2
      <4>2. Seen(h, x, b, r)
        BY <3>1, <3>2, <4>1, Behind DEF Alike
      <4> QED
        BY <4>1, <4>2 DEF Seen
    <3> QED
      BY <1>1, <1>5, <3>3
  <2>2. w \o (b \o r) = payload \o LastBoundary
    BY <1>1, <2>1 DEF FormInv
  <2>3. written' = w \o Given(b) /\ buffer' = Kept(b)
    BY <1>1, <1>5 DEF HandleSection, Given, Kept
  <2>4. Cuts(w, b)
    BY <1>1, <2>1, <2>2, <2>3 DEF Cuts
  <2> QED
    BY <1>1, <1>3, <1>5, <2>1, <2>4
<1> QED
  BY <1>4, <1>5 DEF Section

LEMMA SectionKeeps == FormInv /\ Section => FormInv'
<1> SUFFICES ASSUME FormInv, Section PROVE FormInv'
  OBVIOUS
<1>1. PICK w \in Text, e \in Text : Cuts(w, e)
  BY SectionCuts
<1>2. PICK r \in Text : r = rest
  BY DEF FormInv, FormType
<1>3. /\ phase' = phase /\ payload' = payload /\ rest' = rest /\ broken' = broken /\ done' = done
      /\ phase = "loop"
  BY DEF Section
<1>4. file_opened' = TRUE
  BY SectionCuts DEF Section, FormInv, FormType
<1>5. /\ written' \in Text /\ buffer' \in Text /\ Len(buffer') <= Len(e)
      /\ written' \o (buffer' \o r) = w \o (e \o r)
  <2>1. Handled(w, e, r)
    BY SectionHandled
  <2> QED
    BY <1>1, <2>1 DEF Handled, Cuts
<1>6. Len(buffer') <= Size - 1
  <2>1. buffer \in Text /\ Len(buffer) <= Size - 1
    BY DEF FormInv, FormType
  <2>2. Len(buffer') \in Nat /\ Len(buffer) \in Nat /\ Len(e) \in Nat
    BY <1>5, <2>1, Lengths
  <2>3. Len(e) = Len(buffer) \/ Len(e) = Len(buffer) - 3
    BY <1>1 DEF Cuts
  <2> QED
    BY <1>5, <2>1, <2>2, <2>3, Thirds
<1>7. FormType'
  BY <1>3, <1>4, <1>5, <1>6 DEF FormInv, FormType
<1>8. written' \o (buffer' \o rest') = (payload \o LastBoundary)'
  <2>1. (payload \o LastBoundary)' = payload \o LastBoundary
    BY <1>3 DEF LastBoundary, Common, Boundary
  <2> QED
    BY <1>1, <1>2, <1>3, <1>5, <2>1 DEF Cuts
<1> QED
  BY <1>3, <1>4, <1>7, <1>8 DEF FormInv

LEMMA DoneKeeps == FormInv /\ UploadDone => FormInv'
<1> SUFFICES ASSUME FormInv, UploadDone PROVE FormInv'
  OBVIOUS
<1>1. /\ phase' = "closed" /\ payload' = payload /\ rest' = rest /\ buffer' = buffer
      /\ broken' = broken /\ file_opened' = file_opened /\ written' = written
      /\ IsPrefix(LastBoundary, buffer) /\ done' = TRUE
  BY DEF UploadDone
<1>2. PICK w \in Text, b \in Text, r \in Text :
        w = written /\ b = buffer /\ r = rest
  BY DEF FormInv, FormType
<1>3. Len(LastBoundary) <= Len(b) /\ \A k \in 1 .. Len(LastBoundary) : LastBoundary[k] = b[k]
  BY <1>1, <1>2, TheTokens, PrefixIs
<1>4. b[1] = "cr" /\ Len(b) >= 5
  <2>1. 1 \in 1 .. Len(LastBoundary) /\ Len(LastBoundary) = 5 /\ LastBoundary[1] = "cr"
    BY TheTokens
  <2> QED
    BY <1>3, <2>1
<1>5. file_opened
  <2> SUFFICES ASSUME ~file_opened PROVE FALSE
    BY DEF FormInv, FormType
  <2>1. PICK x \in Text : x = payload \o LastBoundary
    BY Payload DEF FormInv
  <2>2. b \o r = Heading \o x
    BY <1>2, <2>1 DEF FormInv, Sent
  <2>3. /\ Heading \in Text /\ Len(Heading) = 3 /\ Heading[1] = "b1"
        /\ Len(Heading) <= Len(b)
    <3>1. Len(b) \in Nat
      BY Lengths
    <3> QED
      BY <1>4, <3>1, TheTokens
  <2>4. \A k \in 1 .. Len(Heading) : Heading[k] = b[k]
    <3>1. PICK h \in Text : h = Heading
      BY <2>3
    <3>2. Seen(h, x, b, r)
      BY <2>2, <2>3, <3>1, Behind DEF Alike
    <3>3. IsPrefix(h, b)
      BY <3>2 DEF Seen
    <3> QED
      BY <3>1, <3>3, PrefixIs
  <2>5. b[1] = "b1"
    BY <2>3, <2>4
  <2> QED
    BY <1>4, <2>5
<1>6. w = payload
  <2>1. w \o (b \o r) = payload \o LastBoundary /\ payload \in Files
    BY <1>2, <1>5 DEF FormInv, FormType
  <2> QED
    BY <1>1, <1>2, <2>1, OnlyAtTheEnd
<1>7. FormType'
  BY <1>1 DEF FormInv, FormType
<1>8. (payload \o LastBoundary)' = payload \o LastBoundary
  BY <1>1 DEF LastBoundary, Common, Boundary
<1> QED
  BY <1>1, <1>2, <1>5, <1>6, <1>7, <1>8 DEF FormInv

LEMMA RestKeeps == FormInv /\ (ReadNothing \/ Break \/ ReadMore \/ UNCHANGED formVars) => FormInv'
<1> SUFFICES ASSUME FormInv, ReadNothing \/ Break \/ ReadMore \/ UNCHANGED formVars PROVE FormInv'
  OBVIOUS
<1>1. /\ payload' = payload /\ rest' = rest /\ buffer' = buffer
      /\ file_opened' = file_opened /\ written' = written /\ done' = done
  BY DEF ReadNothing, Break, ReadMore, formVars
<1>2. (phase' \in {"read", "loop", "closed"}) /\ broken' \in BOOLEAN
  <2>1. CASE ReadNothing
    BY <2>1 DEF ReadNothing, FormInv, FormType
  <2>2. CASE Break
    BY <2>2 DEF Break
  <2>3. CASE ReadMore
    BY <2>3 DEF ReadMore, NextRead, FormInv, FormType
  <2>4. CASE UNCHANGED formVars
    BY <2>4 DEF formVars, FormInv, FormType
  <2> QED
    BY <2>1, <2>2, <2>3, <2>4
<1>3. done => phase' = "closed"
  <2> SUFFICES ASSUME done PROVE phase' = "closed"
    OBVIOUS
  <2>1. phase = "closed"
    BY DEF FormInv
  <2> QED
    BY <2>1 DEF ReadNothing, Break, ReadMore, formVars
<1>4. Sent' = Sent /\ (payload \o LastBoundary)' = payload \o LastBoundary
  BY <1>1 DEF Sent, Heading, LastBoundary, Common, Boundary
<1>5. FormType'
  BY <1>1, <1>2 DEF FormInv, FormType
<1> QED
  BY <1>1, <1>3, <1>4, <1>5 DEF FormInv

LEMMA FormKept == FormSpec => []FormInv
<1>1. FormInv /\ [FormNext]_formVars => FormInv'
  BY ReadKeeps, SectionKeeps, DoneKeeps, RestKeeps DEF FormNext
<1> QED
  BY FormStarts, <1>1, PTL DEF FormSpec

(* However the request is cut into reads, a place is left in the session   *)
(* buffer for the zero behind what was read.                               *)
THEOREM FormTypeCorrect == FormSpec => []TypeOK
<1>1. FormInv => TypeOK
  <2> SUFFICES ASSUME FormInv PROVE TypeOK
    OBVIOUS
  <2>1. Len(buffer) \in Nat
    BY Lengths DEF FormInv, FormType
  <2>2. Len(buffer) \in 0 .. Size - 1
    BY <2>1, Thirds DEF FormInv, FormType
  <2> QED
    BY <2>2 DEF FormInv, FormType, TypeOK
<1> QED
  BY FormKept, <1>1, PTL

(* Whatever the file, the size of the buffer and the cuts, upload_done is  *)
(* called only when the file has been written whole, and nothing but it.   *)
THEOREM DoneIsWhole == FormSpec => []DoneMeansWhole
<1>1. FormInv => DoneMeansWhole
  BY DEF FormInv, DoneMeansWhole
<1> QED
  BY FormKept, <1>1, PTL

(***************************************************************************)
(* FormUpload: the request is answered                                     *)
(***************************************************************************)

(* b begins with what is left of a file, d tokens of it, and goes on with  *)
(* the last boundary. *)
Faces(b, d) ==
  /\ Len(b) <= d + 5
  /\ \A k \in 1 .. Len(b) : k > d => b[k] = LastBoundary[k - d]
  /\ \A k \in 1 .. Len(b) : k + 1 <= d /\ k + 1 <= Len(b) => ~(b[k] = "b1" /\ b[k + 1] = "b2")

LEMMA WhatItFaces ==
  ASSUME NEW f \in Files, NEW w \in Text, NEW b \in Text, NEW r \in Text,
         w \o (b \o r) = f \o LastBoundary, Len(w) <= Len(f)
  PROVE  /\ Len(f) - Len(w) \in Nat /\ Len(b) + Len(r) = Len(f) - Len(w) + 5
         /\ Faces(b, Len(f) - Len(w))
<1>0. PICK t : t = f \o LastBoundary
  OBVIOUS
<1>1. f \in Text /\ LastBoundary \in Text /\ Len(LastBoundary) = 5
  BY FormAssumption, TheTokens DEF Text
<1>2. PICK lf \in Nat, lw \in Nat, lb \in Nat, lr \in Nat :
        lf = Len(f) /\ lw = Len(w) /\ lb = Len(b) /\ lr = Len(r)
  BY <1>1, Lengths
<1>3. PICK d \in Nat : d = lf - lw /\ lf = lw + d
  <2>1. lf - lw \in Nat /\ lf = lw + (lf - lw)
    BY <1>2
  <2> QED
    BY <2>1
<1>4. /\ Len(t) = lf + 5
      /\ \A i \in 1 .. lf + 5 : t[i] = IF i <= lf THEN f[i] ELSE LastBoundary[i - lf]
  <2>1. /\ Len(t) = Len(f) + Len(LastBoundary)
        /\ \A i \in 1 .. Len(f) + Len(LastBoundary) :
             t[i] = IF i <= Len(f) THEN f[i] ELSE LastBoundary[i - Len(f)]
    BY <1>0, <1>1, Concat
  <2> QED
    BY <1>1, <1>2, <2>1
<1>5. PICK c \in Text : c = b \o r
  BY Concat
<1>6. /\ Len(c) = lb + lr
      /\ \A i \in 1 .. lb : c[i] = b[i]
  <2>1. /\ Len(c) = Len(b) + Len(r)
        /\ \A i \in 1 .. Len(b) + Len(r) : c[i] = IF i <= Len(b) THEN b[i] ELSE r[i - Len(b)]
    BY <1>5, Concat
  <2>2. \A i \in 1 .. lb : i \in 1 .. lb + lr /\ i <= lb
    BY <1>2
  <2> QED
    BY <1>2, <2>1, <2>2
<1>7. /\ Len(t) = lw + (lb + lr)
      /\ \A i \in 1 .. lw + (lb + lr) : t[i] = IF i <= lw THEN w[i] ELSE c[i - lw]
  <2>1. t = w \o c
    BY <1>0, <1>5
  <2>2. /\ Len(t) = Len(w) + Len(c)
        /\ \A i \in 1 .. Len(w) + Len(c) : t[i] = IF i <= Len(w) THEN w[i] ELSE c[i - Len(w)]
    BY <2>1, Concat
  <2> QED
    BY <1>2, <1>6, <2>2
<1>8. lb + lr = d + 5
  BY <1>3, <1>4, <1>7
<1>9. \A k \in 1 .. lb : b[k] = IF k <= d THEN f[lw + k] ELSE LastBoundary[k - d]
  <2> SUFFICES ASSUME NEW k \in 1 .. lb
               PROVE  b[k] = IF k <= d THEN f[lw + k] ELSE LastBoundary[k - d]
    OBVIOUS
  <2>1. /\ lw + k \in 1 .. lw + (lb + lr) /\ ~(lw + k <= lw) /\ (lw + k) - lw = k
        /\ lw + k \in 1 .. lf + 5 /\ (lw + k <= lf <=> k <= d) /\ (lw + k) - lf = k - d
    BY <1>3, <1>8
  <2>2. t[lw + k] = b[k]
    BY <1>6, <1>7, <2>1
  <2>3. t[lw + k] = IF k <= d THEN f[lw + k] ELSE LastBoundary[k - d]
    BY <1>4, <2>1
  <2> QED
    BY <2>2, <2>3
<1>10. \A k \in 1 .. lb : k > d => b[k] = LastBoundary[k - d]
  BY <1>9
<1>11. ASSUME NEW k \in 1 .. lb, k + 1 <= d, k + 1 <= lb
       PROVE  ~(b[k] = "b1" /\ b[k + 1] = "b2")
  <2>1. k + 1 \in 1 .. lb /\ k <= d
    BY <1>11
  <2>2. b[k] = f[lw + k] /\ b[k + 1] = f[lw + (k + 1)]
    BY <1>9, <1>11, <2>1
  <2>3. PICK i \in Nat : i = lw + k - 1 /\ i + 1 = lw + k /\ i + 2 = lw + (k + 1) /\ i + 2 <= lf
    BY <1>3, <1>11
  <2>4. ~(f[i + 1] = "b1" /\ f[i + 2] = "b2")
    BY <1>2, <2>3, NoBoundary
  <2> QED
    BY <2>2, <2>3, <2>4
<1>12. Faces(b, d)
  BY <1>2, <1>8, <1>10, <1>11 DEF Faces
<1> QED
  BY <1>2, <1>3, <1>8, <1>12

(* Where a boundary is found in b. *)
Found(b) == {i \in 1 .. Len(b) : IsPrefix(Common, SubSeq(b, i, Len(b)))}

LEMMA CommonAt ==
  ASSUME NEW b \in Text, NEW i \in 1 .. Len(b)
  PROVE  i \in Found(b) <=>
           /\ i + 3 <= Len(b)
           /\ b[i] = "cr" /\ b[i + 1] = "lf" /\ b[i + 2] = "b1" /\ b[i + 3] = "b2"
<1>1. PICK n \in Nat, j \in Nat : n = Len(b) /\ i = j + 1 /\ j \in 0 .. n
  <2>1. Len(b) \in Nat
    BY Lengths
  <2>2. i - 1 \in 0 .. Len(b) /\ i = (i - 1) + 1 /\ i - 1 \in Nat
    BY <2>1
  <2> QED
    BY <2>1, <2>2
<1>2. PICK s \in Text : /\ s = SubSeq(b, i, Len(b)) /\ Len(s) = n - j
                        /\ \A k \in 1 .. n - j : s[k] = b[j + k]
  BY <1>1, Part
<1>3. /\ Common \in Text /\ Len(Common) = 4
      /\ Common[1] = "cr" /\ Common[2] = "lf" /\ Common[3] = "b1" /\ Common[4] = "b2"
  <2>1. PICK e \in Text : e = <<"dd">> /\ Len(e) = 1
    <3>1. <<"dd">> \in Text /\ Len(<<"dd">>) = 1
      BY FormAssumption DEF Text
    <3> QED
      BY <3>1
  <2>2. LastBoundary = Common \o e
    BY <2>1 DEF LastBoundary
  <2>3. \A k \in 1 .. 4 + 1 : LastBoundary[k] = IF k <= 4 THEN Common[k] ELSE e[k - 4]
    <3>1. PICK c \in Text : c = Common /\ Len(c) = 4
      BY TheTokens
    <3>2. \A k \in 1 .. 4 + 1 : (c \o e)[k] = IF k <= 4 THEN c[k] ELSE e[k - 4]
      <4>1. \A k \in 1 .. Len(c) + Len(e) : (c \o e)[k] = IF k <= Len(c) THEN c[k] ELSE e[k - Len(c)]
        BY Concat
      <4> QED
        BY <2>1, <3>1, <4>1
    <3> QED
      BY <2>2, <3>1, <3>2
  <2>4. 1 \in 1 .. 4 + 1 /\ 2 \in 1 .. 4 + 1 /\ 3 \in 1 .. 4 + 1 /\ 4 \in 1 .. 4 + 1
    OBVIOUS
  <2>5. /\ LastBoundary[1] = Common[1] /\ LastBoundary[2] = Common[2]
        /\ LastBoundary[3] = Common[3] /\ LastBoundary[4] = Common[4]
    BY <2>3, <2>4
  <2> QED
    BY <2>5, TheTokens
<1>4. IsPrefix(Common, s) <=> 4 <= n - j /\ \A k \in 1 .. 4 : Common[k] = s[k]
  BY <1>2, <1>3, PrefixIs
<1>5. (\A k \in 1 .. 4 : Common[k] = s[k]) <=>
         (s[1] = "cr" /\ s[2] = "lf" /\ s[3] = "b1" /\ s[4] = "b2")
  <2>1. \A k \in 1 .. 4 : k = 1 \/ k = 2 \/ k = 3 \/ k = 4
    OBVIOUS
  <2> QED
    BY <1>3, <2>1
<1>6. 4 <= n - j => s[1] = b[i] /\ s[2] = b[i + 1] /\ s[3] = b[i + 2] /\ s[4] = b[i + 3]
  <2> SUFFICES ASSUME 4 <= n - j PROVE s[1] = b[i] /\ s[2] = b[i + 1] /\ s[3] = b[i + 2] /\ s[4] = b[i + 3]
    OBVIOUS
  <2>1. 1 \in 1 .. n - j /\ 2 \in 1 .. n - j /\ 3 \in 1 .. n - j /\ 4 \in 1 .. n - j
    BY <1>1
  <2>2. j + 1 = i /\ j + 2 = i + 1 /\ j + 3 = i + 2 /\ j + 4 = i + 3
    BY <1>1
  <2> QED
    BY <1>2, <2>1, <2>2
<1>7. 4 <= n - j <=> i + 3 <= Len(b)
  BY <1>1
<1>8. i \in Found(b) <=> IsPrefix(Common, s)
  BY <1>2 DEF Found
<1> QED
  BY <1>4, <1>5, <1>6, <1>7, <1>8

LEMMA FoundThere ==
  ASSUME NEW b \in Text, NEW d \in Nat, Faces(b, d)
  PROVE  /\ Found(b) \subseteq {d + 1}
         /\ d + 4 <= Len(b) => Found(b) = {d + 1}
<1>1. PICK n \in Nat : n = Len(b)
  BY Lengths
<1>2. /\ n <= d + 5
      /\ \A k \in 1 .. n : k > d => b[k] = LastBoundary[k - d]
      /\ \A k \in 1 .. n : k + 1 <= d /\ k + 1 <= n => ~(b[k] = "b1" /\ b[k + 1] = "b2")
  BY <1>1 DEF Faces
<1>3. /\ d + 1 <= n => b[d + 1] = "cr"
      /\ d + 2 <= n => b[d + 2] = "lf"
      /\ d + 3 <= n => b[d + 3] = "b1"
      /\ d + 4 <= n => b[d + 4] = "b2"
      /\ d + 5 <= n => b[d + 5] = "dd"
  <2>1. \A k \in 1 .. 5 : d + k <= n => b[d + k] = LastBoundary[k]
    <3> SUFFICES ASSUME NEW k \in 1 .. 5, d + k <= n PROVE b[d + k] = LastBoundary[k]
      OBVIOUS
    <3>1. d + k \in 1 .. n /\ d + k > d /\ (d + k) - d = k
      OBVIOUS
    <3> QED
      BY <1>2, <3>1
  <2>2. 1 \in 1 .. 5 /\ 2 \in 1 .. 5 /\ 3 \in 1 .. 5 /\ 4 \in 1 .. 5 /\ 5 \in 1 .. 5
    OBVIOUS
  <2> QED
    BY <2>1, <2>2, TheTokens
<1>4. ASSUME NEW i \in Found(b)
      PROVE  i = d + 1
  <2>1. i \in 1 .. n
    BY <1>1 DEF Found
  <2>2. /\ i + 3 <= n
        /\ b[i] = "cr" /\ b[i + 1] = "lf" /\ b[i + 2] = "b1" /\ b[i + 3] = "b2"
    BY <1>1, <2>1, CommonAt
  <2>3. ~(i + 3 <= d)
    <3> SUFFICES ASSUME i + 3 <= d PROVE FALSE
      OBVIOUS
    <3>1. i + 2 \in 1 .. n /\ (i + 2) + 1 = i + 3
      BY <2>1, <2>2
    <3> QED
      BY <1>2, <2>2, <3>1
  <2>4. d + 1 # i + 1 /\ d + 1 # i + 2 /\ d + 1 # i + 3
    <3>1. d + 1 \in {i + 1, i + 2, i + 3} => d + 1 <= n
      BY <2>1, <2>2
    <3> QED
      BY <1>3, <2>2, <3>1
  <2>5. i # d + 2 /\ i # d + 3 /\ i # d + 4 /\ i # d + 5
    BY <1>3, <2>1, <2>2
  <2> QED
    BY <1>2, <2>1, <2>3, <2>4, <2>5
<1>5. ASSUME d + 4 <= n
      PROVE  d + 1 \in Found(b)
  <2>1. d + 1 \in 1 .. n /\ (d + 1) + 3 <= n
    BY <1>5
  <2>2. /\ b[d + 1] = "cr" /\ b[(d + 1) + 1] = "lf"
        /\ b[(d + 1) + 2] = "b1" /\ b[(d + 1) + 3] = "b2"
    <3>1. (d + 1) + 1 = d + 2 /\ (d + 1) + 2 = d + 3 /\ (d + 1) + 3 = d + 4
      OBVIOUS
    <3>2. d + 1 <= n /\ d + 2 <= n /\ d + 3 <= n
      BY <1>5
    <3> QED
      BY <1>3, <1>5, <3>1, <3>2
  <2> QED
    BY <1>1, <2>1, <2>2, CommonAt
<1> QED
  BY <1>1, <1>4, <1>5

(* The greatest element of a set of numbers. *)
LEMMA GreatestIs ==
  ASSUME NEW S, S \subseteq Nat, NEW m \in S, \A y \in S : y <= m
  PROVE  Max(S) = m
<1>1. \A y \in S : m >= y
  OBVIOUS
<1>2. Max(S) \in S /\ \A y \in S : Max(S) >= y
  BY <1>1 DEF Max
<1>3. Max(S) \in Nat /\ m \in Nat /\ Max(S) <= m /\ Max(S) >= m
  BY <1>2
<1> QED
  BY <1>3

(* The three outcomes when no whole boundary is in the buffer: all of it,   *)
(* or what is in front of a line end with the beginning of a boundary.     *)
LastCr(b) == Max({i \in 1 .. Len(b) : b[i] = "cr"})

LEMMA NoneFound ==
  ASSUME NEW b \in Text, Found(b) = {}
  PROVE  \/ NextPossibleBoundary(b) = Len(b)
         \/ /\ LastCr(b) \in 1 .. Len(b) /\ b[LastCr(b)] = "cr"
            /\ LastCr(b) + 3 >= Len(b)
            /\ NextPossibleBoundary(b) = LastCr(b) - 1
<1> DEFINE cr == {i \in 1 .. Len(b) : b[i] = "cr"}
<1>1. PICK n \in Nat : n = Len(b)
  BY Lengths
<1>2. NextPossibleBoundary(b) =
        IF cr = {} THEN Len(b)
        ELSE IF LastCr(b) = Len(b) - 1 /\ b[LastCr(b) + 1] = "lf" THEN Len(b)
        ELSE IF IsPrefix(SubSeq(b, LastCr(b) + 2, Len(b)), Boundary) THEN LastCr(b) - 1
        ELSE Len(b)
  BY DEF NextPossibleBoundary, Found, LastCr
<1>3. cr # {} => LastCr(b) \in cr
  <2>1. cr \subseteq 1 .. n
    BY <1>1
  <2>2. LastCr(b) = Max(cr)
    BY DEF LastCr
  <2> HIDE DEF cr
  <2> QED
    BY <2>1, <2>2, Greatest
<1>4. ASSUME cr # {}, IsPrefix(SubSeq(b, LastCr(b) + 2, Len(b)), Boundary)
      PROVE  LastCr(b) + 3 >= Len(b)
  <2>1. PICK l \in 1 .. n : l = LastCr(b)
    BY <1>1, <1>3, <1>4
  <2> SUFFICES ASSUME l + 3 < n PROVE FALSE
    BY <1>1, <2>1
  <2>2. PICK j \in 0 .. n : j = l + 1 /\ j + 1 = l + 2 /\ n - j > 2
    <3>1. l + 1 \in 0 .. n /\ (l + 1) + 1 = l + 2 /\ n - (l + 1) > 2
      OBVIOUS
    <3> QED
      BY <3>1
  <2>3. SubSeq(b, j + 1, Len(b)) \in Text /\ Len(SubSeq(b, j + 1, Len(b))) = n - j
    BY <1>1, <2>2, Part
  <2>4. SubSeq(b, j + 1, Len(b)) = SubSeq(b, LastCr(b) + 2, Len(b))
    BY <2>1, <2>2
  <2>5. n - j <= 2
    <3>1. PICK s \in Text : s = SubSeq(b, j + 1, Len(b)) /\ Len(s) = n - j
      BY <2>3
    <3>2. IsPrefix(s, Boundary)
      BY <1>4, <2>4, <3>1
    <3> QED
      BY <3>1, <3>2, TheTokens, PrefixIs
  <2> QED
    BY <2>2, <2>5
<1>5. cr # {} => LastCr(b) \in 1 .. Len(b) /\ b[LastCr(b)] = "cr"
  BY <1>3
<1> HIDE DEF cr
<1> QED
  BY <1>2, <1>4, <1>5

(* The file goes on as far as it is in the buffer.  Only a buffer that     *)
(* ends with the line end in front of the last boundary gives more.        *)
LEMMA GivesTheFile ==
  ASSUME NEW b \in Text, NEW d \in Nat, Faces(b, d)
  PROVE  /\ NextPossibleBoundary(b) <= d \/ NextPossibleBoundary(b) = d + 2
         /\ Len(b) >= 5 /\ ~IsPrefix(LastBoundary, b) => NextPossibleBoundary(b) >= 1
<1>1. PICK n \in Nat : n = Len(b)
  BY Lengths
<1>2. /\ n <= d + 5
      /\ \A k \in 1 .. n : k > d => b[k] = LastBoundary[k - d]
  BY <1>1 DEF Faces
<1>3. \A k \in 1 .. 5 : d + k <= n => b[d + k] = LastBoundary[k]
  <2> SUFFICES ASSUME NEW k \in 1 .. 5, d + k <= n PROVE b[d + k] = LastBoundary[k]
    OBVIOUS
  <2>1. d + k \in 1 .. n /\ d + k > d /\ (d + k) - d = k
    OBVIOUS
  <2> QED
    BY <1>2, <2>1
<1>4. n >= 5 /\ ~IsPrefix(LastBoundary, b) => d >= 1
  <2> SUFFICES ASSUME n >= 5, d = 0 PROVE IsPrefix(LastBoundary, b)
    OBVIOUS
  <2>1. \A k \in 1 .. 5 : b[k] = LastBoundary[k]
    <3>1. \A k \in 1 .. 5 : d + k <= n /\ d + k = k
      OBVIOUS
    <3> QED
      BY <1>3, <3>1
  <2>2. LastBoundary \in Text /\ Len(LastBoundary) = 5
    BY TheTokens
  <2> QED
    BY <1>1, <2>1, <2>2, PrefixIs
<1>5. CASE d + 4 <= n
  <2>1. Found(b) = {d + 1}
    BY <1>1, <1>5, FoundThere
  <2>2. Min({d + 1}) = d + 1
    <3>1. {d + 1} \subseteq Nat /\ {d + 1} # {}
      OBVIOUS
    <3>2. PICK S : S = {d + 1}
      OBVIOUS
    <3>3. Min(S) \in S
      BY <3>1, <3>2, Least
    <3> QED
      BY <3>2, <3>3
  <2>3. NextPossibleBoundary(b) = Min({d + 1}) - 1
    BY <2>1 DEF NextPossibleBoundary, Found
  <2>4. NextPossibleBoundary(b) = d
    BY <2>2, <2>3
  <2> QED
    BY <1>1, <1>4, <2>4
<1>6. CASE n < d + 4
  <2>1. Found(b) = {}
    <3> SUFFICES ASSUME NEW i \in Found(b) PROVE FALSE
      OBVIOUS
    <3>1. i \in 1 .. n /\ i = d + 1
      BY <1>1, FoundThere DEF Found
    <3>2. i + 3 <= n
      BY <1>1, <3>1, CommonAt
    <3> QED
      BY <1>6, <3>1, <3>2
  <2>2. NextPossibleBoundary(b) \in 0 .. n
    BY <1>1, InBuffer
  <2>3. n >= 5 => NextPossibleBoundary(b) >= 1
    BY <1>1, <2>1, NoneFound
  <2> DEFINE cr == {i \in 1 .. n : b[i] = "cr"}
  <2>4. d + 1 <= n => LastCr(b) = d + 1
    <3> SUFFICES ASSUME d + 1 <= n PROVE LastCr(b) = d + 1
      OBVIOUS
    <3>1. d + 1 \in cr
      <4>1. 1 \in 1 .. 5 /\ d + 1 \in 1 .. n
        OBVIOUS
      <4> QED
        BY <1>3, <4>1, TheTokens
    <3>2. ASSUME NEW y \in cr PROVE y <= d + 1
      <4>1. y \in 1 .. n /\ b[y] = "cr"
        OBVIOUS
      <4>2. CASE y = d + 2
        BY <1>3, <4>1, <4>2, TheTokens
      <4>3. CASE y = d + 3
        BY <1>3, <4>1, <4>3, TheTokens
      <4> QED
        BY <1>6, <4>1, <4>2, <4>3
    <3>3. cr \subseteq Nat /\ LastCr(b) = Max(cr)
      BY <1>1 DEF LastCr
    <3> HIDE DEF cr
    <3> QED
      BY <3>1, <3>2, <3>3, GreatestIs
  <2> HIDE DEF cr
  <2>5. CASE n <= d \/ n = d + 2
    <3>1. NextPossibleBoundary(b) = n \/ NextPossibleBoundary(b) = LastCr(b) - 1
      BY <1>1, <2>1, NoneFound
    <3>2. n = d + 2 => LastCr(b) = d + 1
      BY <2>4
    <3> QED
      BY <1>1, <2>2, <2>3, <2>5, <3>1, <3>2
  <2>6. CASE n = d + 1 \/ n = d + 3
    <3>1. LastCr(b) = d + 1 /\ n = Len(b)
      BY <1>1, <2>4, <2>6
    <3>2. {i \in 1 .. Len(b) : b[i] = "cr"} # {}
      <4>1. 1 \in 1 .. 5 /\ d + 1 <= n /\ d + 1 \in 1 .. Len(b)
        BY <1>1, <2>6
      <4>2. b[d + 1] = "cr"
        BY <1>3, <4>1, TheTokens
      <4> QED
        BY <4>1, <4>2
    <3>3. ~(LastCr(b) = Len(b) - 1 /\ b[LastCr(b) + 1] = "lf")
      BY <2>6, <3>1
    <3>4. IsPrefix(SubSeq(b, LastCr(b) + 2, Len(b)), Boundary)
      <4>1. PICK j \in 0 .. n + 1 : j = d + 2 /\ j + 1 = d + 3
        BY <2>6
      <4>2. CASE n = d + 1
        <5>1. SubSeq(b, d + 3, d + 1) = << >>
          OBVIOUS
        <5>2. SubSeq(b, LastCr(b) + 2, Len(b)) = << >>
          BY <3>1, <4>2, <5>1
        <5>3. << >> \in Text /\ Len(<< >>) = 0
          BY Empty
        <5> QED
          <6>1. PICK e \in Text : e = << >> /\ Len(e) = 0
            BY <5>3
          <6>2. IsPrefix(e, Boundary)
            <7>1. /\ Boundary \in Text /\ Len(e) <= Len(Boundary)
                  /\ \A k \in 1 .. Len(e) : e[k] = Boundary[k]
              BY <6>1, TheTokens
            <7> QED
              BY <7>1, PrefixIs
          <6> QED
            BY <5>2, <6>1, <6>2
      <4>3. CASE n = d + 3
        <5>1. j \in 0 .. Len(b) /\ Len(b) - j = 1 /\ LastCr(b) + 2 = j + 1
          BY <1>1, <3>1, <4>1, <4>3
        <5>2. PICK s \in Text : /\ s = SubSeq(b, j + 1, Len(b)) /\ Len(s) = 1
                                /\ \A k \in 1 .. 1 : s[k] = b[j + k]
          <6>1. /\ SubSeq(b, j + 1, Len(b)) \in Text /\ Len(SubSeq(b, j + 1, Len(b))) = Len(b) - j
                /\ \A k \in 1 .. Len(b) - j : SubSeq(b, j + 1, Len(b))[k] = b[j + k]
            BY <5>1, Part
          <6> QED
            BY <5>1, <6>1
        <5>3. s[1] = "b1"
          <6>1. 3 \in 1 .. 5 /\ d + 3 <= n /\ j + 1 = d + 3 /\ 1 \in 1 .. 1
            BY <4>1, <4>3
          <6> QED
            BY <1>3, <5>2, <6>1, TheTokens
        <5>4. /\ Boundary \in Text /\ Len(s) <= Len(Boundary)
              /\ \A k \in 1 .. Len(s) : s[k] = Boundary[k]
          BY <5>2, <5>3, TheTokens
        <5>5. IsPrefix(s, Boundary)
          BY <5>4, PrefixIs
        <5> QED
          BY <5>1, <5>2, <5>5
      <4> QED
        BY <2>6, <4>2, <4>3
    <3>5. NextPossibleBoundary(b) = LastCr(b) - 1
      BY <2>1, <3>2, <3>3, <3>4 DEF NextPossibleBoundary, Found, LastCr
    <3>6. NextPossibleBoundary(b) = d
      BY <3>1, <3>5
    <3> QED
      BY <1>1, <2>3, <3>6
  <2> QED
    BY <1>6, <2>5, <2>6
<1> QED
  BY <1>5, <1>6

(***************************************************************************)
(* What was written is never more than the file, or it is the file and the *)
(* line end; and the socket is only read into a buffer with room.          *)
(***************************************************************************)
Passed(w) == Len(w) <= Len(payload) \/ Len(w) = Len(payload) + 2

RoomInv ==
  /\ file_opened => Passed(written)
  /\ phase = "read" => Len(buffer) <= Size - 2 /\ ~broken

LEMMA SectionPasses ==
  ASSUME FormInv, RoomInv, Section
  PROVE  Passed(written') /\ Len(buffer') < Len(buffer)
<1>1. PICK w \in Text, e \in Text : Cuts(w, e)
  BY SectionCuts
<1>2. PICK r \in Text, f \in Files : r = rest /\ f = payload
  BY DEF FormInv, FormType
<1>3. /\ f \in Text /\ w \o (e \o r) = f \o LastBoundary
      /\ Len(f) \in Nat /\ Len(w) \in Nat /\ Len(e) \in Nat /\ Len(buffer) \in Nat
  <2>1. f \in Text
    BY FormAssumption DEF Text
  <2>2. buffer \in Text
    BY DEF FormInv, FormType
  <2> QED
    BY <1>1, <1>2, <2>1, <2>2, Lengths DEF Cuts
<1>4. Passed(w)
  <2>1. CASE file_opened
    BY <1>1, <2>1 DEF Cuts, RoomInv
  <2>2. CASE ~file_opened
    BY <1>1, <1>2, <1>3, <2>2, Empty DEF Cuts, Passed
  <2> QED
    BY <2>1, <2>2
<1>5. PICK n \in 0 .. Len(e) : n = NextPossibleBoundary(e)
  BY InBuffer
<1>6. Len(written') = Len(w) + n /\ Len(buffer') = Len(e) - n
  <2>1. PICK c \in Text : c = SubSeq(e, 1, n) /\ Len(c) = n
    BY Cut, Empty
  <2>2. Len(w \o c) = Len(w) + Len(c)
    BY Concat
  <2>3. written' = w \o c
    BY <1>1, <1>5, <2>1 DEF Cuts, Given
  <2>4. Len(SubSeq(e, n + 1, Len(e))) = Len(e) - n
    BY Cut, Empty
  <2> QED
    BY <1>1, <1>5, <2>1, <2>2, <2>3, <2>4 DEF Cuts, Kept
<1>7. Len(w) <= Len(f)
  <2> SUFFICES ASSUME Len(w) = Len(f) + 2 PROVE FALSE
    BY <1>2, <1>3, <1>4 DEF Passed
  <2>1. file_opened /\ e = buffer
    <3>1. w # << >>
      BY <1>3, Empty
    <3> QED
      BY <1>1, <3>1 DEF Cuts
  <2>2. Len(e) >= 5
    BY <2>1, SectionCuts
  <2>3. PICK c \in Text : c = e \o r /\ Len(c) = Len(e) + Len(r) /\ Len(r) \in Nat
    BY Concat
  <2>4. Len(w \o c) = Len(w) + Len(c) /\ Len(f \o LastBoundary) = Len(f) + 5
    <3>1. PICK l \in Text : l = LastBoundary /\ Len(l) = 5
      BY TheTokens
    <3>2. Len(w \o c) = Len(w) + Len(c) /\ Len(f \o l) = Len(f) + Len(l)
      BY <1>3, Concat
    <3> QED
      BY <3>1, <3>2
  <2> QED
    BY <1>3, <2>2, <2>3, <2>4
<1>8. Faces(e, Len(f) - Len(w)) /\ Len(f) - Len(w) \in Nat
  BY <1>2, <1>3, <1>7, WhatItFaces
<1>9. Len(w) + n <= Len(f) \/ Len(w) + n = Len(f) + 2
  <2>1. PICK d \in Nat : d = Len(f) - Len(w) /\ Faces(e, d)
    BY <1>8
  <2>2. n <= d \/ n = d + 2
    BY <1>5, <2>1, GivesTheFile
  <2> QED
    BY <1>3, <1>5, <2>1, <2>2
<1>10. Len(e) - n < Len(buffer)
  <2>1. CASE file_opened
    <3>1. e = buffer /\ Len(e) >= 5 /\ ~IsPrefix(LastBoundary, e)
      BY <1>1, <2>1, SectionCuts DEF Cuts, Section
    <3>2. n >= 1
      BY <1>5, <1>8, <3>1, GivesTheFile
    <3> QED
      BY <1>3, <1>5, <3>1, <3>2
  <2>2. CASE ~file_opened
    BY <1>1, <1>3, <1>5, <2>2 DEF Cuts
  <2> QED
    BY <2>1, <2>2
<1> QED
  BY <1>2, <1>6, <1>9, <1>10 DEF Passed

LEMMA RoomKept == FormSpec => []RoomInv
<1>1. FormInit => RoomInv
  <2> SUFFICES ASSUME FormInit PROVE Len(buffer) <= Size - 2
    BY DEF FormInit, RoomInv
  <2>1. PICK b : b = Heading \o payload \o LastBoundary
    OBVIOUS
  <2>2. PICK k \in 0 .. Size - 2 : k <= Len(b) /\ buffer = SubSeq(b, 1, k)
    BY <2>1 DEF FormInit
  <2>3. b \in Text
    <3>1. payload \in Text
      BY FormAssumption DEF FormInit, Text
    <3>2. PICK h \in Text, l \in Text : h = Heading /\ l = LastBoundary
      BY TheTokens
    <3>3. h \o payload \in Text
      BY <3>1, Concat
    <3>4. (h \o payload) \o l \in Text
      BY <3>3, Concat
    <3> QED
      BY <2>1, <3>2, <3>4
  <2>4. Len(b) \in Nat /\ k \in Nat
    BY <2>2, <2>3, Lengths, Thirds
  <2>5. Len(buffer) = k
    BY <2>2, <2>3, <2>4, Part
  <2> QED
    BY <2>2, <2>5, Thirds DEF FormInit
<1>2. FormInv /\ RoomInv /\ [FormNext]_formVars => RoomInv'
  <2> SUFFICES ASSUME FormInv, RoomInv, [FormNext]_formVars PROVE RoomInv'
    OBVIOUS
  <2>1. CASE Section
    <3>1. Passed(written') /\ payload' = payload /\ phase' = "loop"
      BY <2>1, SectionPasses DEF Section
    <3> QED
      BY <3>1 DEF RoomInv, Passed
  <2>2. CASE ReadMore
    <3>1. Len(buffer) <= Size - 2
      <4>1. Len(buffer) < Third \/ Len(buffer) = 0
        BY <2>2, Empty DEF ReadMore
      <4>2. Len(buffer) \in Nat
        BY Lengths DEF FormInv, FormType
      <4> QED
        BY <4>1, <4>2, Thirds
    <3> QED
      BY <2>2, <3>1 DEF ReadMore, NextRead, RoomInv, Passed
  <2>3. CASE Read \/ ReadNothing \/ Break \/ UploadDone
    <3>1. /\ file_opened' = file_opened /\ written' = written /\ payload' = payload
          /\ phase' # "read"
      BY <2>3 DEF Read, ReadNothing, Break, UploadDone
    <3> QED
      BY <3>1 DEF RoomInv, Passed
  <2>4. CASE UNCHANGED formVars
    BY <2>4 DEF formVars, RoomInv, Passed
  <2> QED
    BY <2>1, <2>2, <2>3, <2>4 DEF FormNext
<1> QED
  BY FormKept, <1>1, <1>2, PTL DEF FormSpec

(* All of the request has been received: then the last boundary is in the  *)
(* buffer, unless the line end in front of it went to the file.            *)
LEMMA WholeInside ==
  ASSUME NEW b \in Text, NEW d \in Nat, Faces(b, d), Len(b) = d + 5
  PROVE  Has(LastBoundary, b)
<1>1. \A k \in 1 .. d + 5 : k > d => b[k] = LastBoundary[k - d]
  BY DEF Faces
<1>2. d \in 0 .. Len(b) /\ Len(b) - d = 5 /\ d + 1 \in 1 .. Len(b)
  OBVIOUS
<1>3. /\ SubSeq(b, d + 1, Len(b)) \in Text
      /\ Len(SubSeq(b, d + 1, Len(b))) = Len(b) - d
      /\ \A k \in 1 .. Len(b) - d : SubSeq(b, d + 1, Len(b))[k] = b[d + k]
  BY <1>2, Part
<1>4. PICK s \in Text : /\ s = SubSeq(b, d + 1, Len(b)) /\ Len(s) = 5
                        /\ \A k \in 1 .. 5 : s[k] = b[d + k]
  BY <1>2, <1>3
<1>5. \A k \in 1 .. 5 : s[k] = LastBoundary[k]
  <2> SUFFICES ASSUME NEW k \in 1 .. 5 PROVE s[k] = LastBoundary[k]
    OBVIOUS
  <2>1. d + k \in 1 .. d + 5 /\ d + k > d /\ (d + k) - d = k
    OBVIOUS
  <2> QED
    BY <1>1, <1>4, <2>1
<1>6. IsPrefix(LastBoundary, s)
  <2>1. PICK l \in Text : l = LastBoundary /\ Len(l) = 5
    BY TheTokens
  <2>2. Len(l) <= Len(s) /\ \A k \in 1 .. Len(l) : l[k] = s[k]
    BY <1>4, <1>5, <2>1
  <2>3. IsPrefix(l, s)
    BY <2>2, PrefixIs
  <2> QED
    BY <2>1, <2>3
<1> QED
  BY <1>2, <1>4, <1>6 DEF Has

LEMMA HasBehind ==
  ASSUME NEW s \in Text, NEW h \in Text, NEW b \in Text,
         Len(h) <= Len(b), Has(s, Without(h, b))
  PROVE  Has(s, b)
<1>1. PICK m \in Nat, n \in Nat : m = Len(h) /\ n = Len(b) /\ m \in 0 .. n
  <2>1. Len(h) \in Nat /\ Len(b) \in Nat
    BY Lengths
  <2> QED
    BY <2>1
<1>2. /\ SubSeq(b, m + 1, Len(b)) \in Text
      /\ Len(SubSeq(b, m + 1, Len(b))) = Len(b) - m
      /\ \A k \in 1 .. Len(b) - m : SubSeq(b, m + 1, Len(b))[k] = b[m + k]
  BY <1>1, Part
<1>3. PICK e \in Text : /\ e = Without(h, b) /\ Len(e) = n - m
                        /\ \A k \in 1 .. n - m : e[k] = b[m + k]
  BY <1>1, <1>2 DEF Without
<1>4. PICK i \in 1 .. n - m : IsPrefix(s, SubSeq(e, i, Len(e)))
  BY <1>3 DEF Has
<1>5. PICK j \in 0 .. n - m : i = j + 1
  <2>1. i - 1 \in 0 .. n - m /\ i = (i - 1) + 1
    BY <1>1
  <2> QED
    BY <2>1
<1>6. /\ SubSeq(e, j + 1, Len(e)) \in Text
      /\ Len(SubSeq(e, j + 1, Len(e))) = Len(e) - j
      /\ \A k \in 1 .. Len(e) - j : SubSeq(e, j + 1, Len(e))[k] = e[j + k]
  <2>1. j \in 0 .. Len(e)
    BY <1>3
  <2> QED
    BY <2>1, Part
<1>7. PICK q \in 0 .. n : q = m + j
  <2>1. m + j \in 0 .. n
    BY <1>1
  <2> QED
    BY <2>1
<1>8. /\ SubSeq(b, q + 1, Len(b)) \in Text
      /\ Len(SubSeq(b, q + 1, Len(b))) = Len(b) - q
      /\ \A k \in 1 .. Len(b) - q : SubSeq(b, q + 1, Len(b))[k] = b[q + k]
  <2>1. q \in 0 .. Len(b)
    BY <1>1
  <2> QED
    BY <2>1, Part
<1>9. SubSeq(e, i, Len(e)) = SubSeq(b, q + 1, Len(b))
  <2>1. PICK u \in Text : /\ u = SubSeq(e, i, Len(e)) /\ Len(u) = n - q
                          /\ \A k \in 1 .. n - q : u[k] = e[j + k]
    <3>1. Len(e) - j = n - q
      BY <1>1, <1>3, <1>5, <1>7
    <3>2. SubSeq(e, i, Len(e)) = SubSeq(e, j + 1, Len(e))
      BY <1>5
    <3> QED
      BY <1>6, <3>1, <3>2
  <2>2. PICK v \in Text : /\ v = SubSeq(b, q + 1, Len(b)) /\ Len(v) = n - q
                          /\ \A k \in 1 .. n - q : v[k] = b[q + k]
    BY <1>1, <1>8
  <2>3. ASSUME NEW k \in 1 .. n - q PROVE u[k] = v[k]
    <3>1. j + k \in 1 .. n - m /\ m + (j + k) = q + k
      BY <1>1, <1>7
    <3>2. e[j + k] = b[m + (j + k)]
      BY <1>3, <3>1
    <3> QED
      BY <2>1, <2>2, <3>1, <3>2
  <2>4. u = v
    BY <2>1, <2>2, <2>3, Same
  <2> QED
    BY <2>1, <2>2, <2>4
<1>10. q + 1 \in 1 .. Len(b)
  BY <1>1, <1>5, <1>7
<1> QED
  BY <1>4, <1>9, <1>10 DEF Has

(* The server waits for more of a request only while more is to come and   *)
(* the session buffer has room for it, but for the one cut in which the    *)
(* line end in front of the last boundary went to the file. *)
NeverStuck ==
  phase = "read" /\ ~Has(LastBoundary, buffer) => SplitLineEnd \/ (Len(rest) > 0 /\ Room > 0)

(* The line end is all that can have come too much. *)
LEMMA TooMuch ==
  ASSUME NEW f \in Text, NEW w \in Text, NEW c \in Text,
         w \o c = f \o LastBoundary, Len(w) = Len(f) + 2
  PROVE  w = f \o <<"cr", "lf">>
<1>1. PICK e \in Text : e = <<"cr", "lf">> /\ Len(e) = 2 /\ e[1] = "cr" /\ e[2] = "lf"
  <2>1. <<"cr", "lf">> \in Text
    BY FormAssumption DEF Text
  <2>2. Len(<<"cr", "lf">>) = 2 /\ <<"cr", "lf">>[1] = "cr" /\ <<"cr", "lf">>[2] = "lf"
    OBVIOUS
  <2> QED
    BY <2>1, <2>2
<1>2. PICK l \in Text : l = LastBoundary /\ Len(l) = 5 /\ l[1] = "cr" /\ l[2] = "lf"
  BY TheTokens
<1>3. PICK lf \in Nat, lc \in Nat : lf = Len(f) /\ lc = Len(c) /\ Len(w) = lf + 2
  BY Lengths
<1>4. PICK t : t = f \o l
  OBVIOUS
<1>5. /\ Len(t) = lf + 5
      /\ \A i \in 1 .. lf + 5 : t[i] = IF i <= lf THEN f[i] ELSE l[i - lf]
  <2>1. /\ Len(f \o l) = Len(f) + Len(l)
        /\ \A i \in 1 .. Len(f) + Len(l) : (f \o l)[i] = IF i <= Len(f) THEN f[i] ELSE l[i - Len(f)]
    BY Concat
  <2> QED
    BY <1>2, <1>3, <1>4, <2>1
<1>6. \A i \in 1 .. lf + 2 : t[i] = w[i]
  <2>1. \A i \in 1 .. Len(w) + Len(c) : (w \o c)[i] = IF i <= Len(w) THEN w[i] ELSE c[i - Len(w)]
    BY Concat
  <2>2. \A i \in 1 .. lf + 2 : i \in 1 .. Len(w) + Len(c) /\ i <= Len(w)
    BY <1>3
  <2> QED
    BY <1>2, <1>4, <2>1, <2>2
<1>7. PICK v \in Text : /\ v = f \o e /\ Len(v) = lf + 2
                        /\ \A i \in 1 .. lf + 2 : v[i] = IF i <= lf THEN f[i] ELSE e[i - lf]
  <2>1. /\ f \o e \in Text /\ Len(f \o e) = Len(f) + Len(e)
        /\ \A i \in 1 .. Len(f) + Len(e) : (f \o e)[i] = IF i <= Len(f) THEN f[i] ELSE e[i - Len(f)]
    BY Concat
  <2> QED
    BY <1>1, <1>3, <2>1
<1>8. ASSUME NEW i \in 1 .. lf + 2
      PROVE  w[i] = v[i]
  <2>1. i \in 1 .. lf + 5 /\ (i <= lf \/ i - lf = 1 \/ i - lf = 2)
    OBVIOUS
  <2>2. t[i] = v[i]
    BY <1>1, <1>2, <1>5, <1>7, <2>1
  <2> QED
    BY <1>6, <2>2
<1>9. w = v
  BY <1>3, <1>7, <1>8, Same
<1> QED
  BY <1>1, <1>7, <1>9

LEMMA StuckOnlyIfSplit == FormInv /\ RoomInv => NeverStuck
<1> SUFFICES ASSUME FormInv, RoomInv, phase = "read", ~Has(LastBoundary, buffer), ~SplitLineEnd
             PROVE  Len(rest) > 0 /\ Room > 0
  BY DEF NeverStuck
<1>1. PICK w \in Text, b \in Text, r \in Text, f \in Files :
        w = written /\ b = buffer /\ r = rest /\ f = payload
  BY DEF FormInv, FormType
<1>2. /\ f \in Text /\ Len(f) \in Nat /\ Len(w) \in Nat /\ Len(b) \in Nat /\ Len(r) \in Nat
  BY FormAssumption, Lengths DEF Text
<1>3. Room > 0
  BY <1>1, <1>2, Thirds DEF RoomInv, Room
<1>4. Len(r) > 0
  <2> SUFFICES ASSUME Len(r) = 0 PROVE FALSE
    BY <1>2
  <2>1. CASE file_opened
    <3>1. w \o (b \o r) = f \o LastBoundary
      BY <1>1, <2>1 DEF FormInv
    <3>2. Len(w) # Len(f) + 2
      <4> SUFFICES ASSUME Len(w) = Len(f) + 2 PROVE FALSE
        OBVIOUS
      <4>1. PICK c \in Text : c = b \o r
        BY Concat
      <4>2. w = f \o <<"cr", "lf">>
        BY <1>2, <3>1, <4>1, TooMuch
      <4> QED
        BY <1>1, <4>2 DEF SplitLineEnd
    <3>3. Len(w) <= Len(f)
      BY <1>1, <2>1, <3>2 DEF RoomInv, Passed
    <3>4. PICK d \in Nat : Faces(b, d) /\ Len(b) = d + 5
      <4>1. /\ Len(f) - Len(w) \in Nat /\ Len(b) + Len(r) = Len(f) - Len(w) + 5
            /\ Faces(b, Len(f) - Len(w))
        BY <3>1, <3>3, WhatItFaces
      <4> QED
        BY <1>2, <4>1
    <3> QED
      BY <1>1, <3>4, WholeInside
  <2>2. CASE ~file_opened
    <3>1. PICK h \in Text : h = Heading /\ Len(h) = 3
      BY TheTokens
    <3>2. PICK x \in Text : x = f \o LastBoundary
      BY <1>1, Payload DEF FormInv
    <3>3. b \o r = h \o x
      BY <1>1, <2>2, <3>1, <3>2 DEF FormInv, Sent
    <3>4. Len(x) = Len(f) + 5
      <4>1. PICK l \in Text : l = LastBoundary /\ Len(l) = 5
        BY TheTokens
      <4>2. Len(f \o l) = Len(f) + Len(l)
        BY <1>2, Concat
      <4> QED
        BY <3>2, <4>1, <4>2
    <3>5. Len(b) = 3 + Len(x)
      <4>1. Len(b \o r) = Len(b) + Len(r) /\ Len(h \o x) = Len(h) + Len(x)
        BY Concat
      <4> QED
        BY <1>2, <3>1, <3>3, <3>4, <4>1
    <3>6. Seen(h, x, b, r) /\ Len(h) <= Len(b)
      <4>1. Len(h) <= Len(b)
        BY <1>2, <3>1, <3>4, <3>5
      <4> QED
        BY <3>3, <4>1, Behind DEF Alike
    <3>7. PICK e \in Text : e = Without(h, b)
      <4>1. Len(h) \in 0 .. Len(b)
        BY <1>2, <3>1, <3>6
      <4> QED
        BY <4>1, Part DEF Without
    <3>8. PICK v \in Text : v = << >> /\ Len(v) = 0 /\ v \o (e \o r) = f \o LastBoundary
      <4>1. e \o r = x /\ << >> \o x = x
        BY <3>6, <3>7, Empty DEF Seen
      <4> QED
        BY <3>2, <4>1, Empty
    <3>9. PICK d \in Nat : Faces(e, d) /\ Len(e) = d + 5
      <4>1. /\ Len(f) - Len(v) \in Nat /\ Len(e) + Len(r) = Len(f) - Len(v) + 5
            /\ Faces(e, Len(f) - Len(v))
        <5>1. Len(v) <= Len(f) /\ v \o (e \o r) = f \o LastBoundary
          BY <1>2, <3>8
        <5> QED
          BY <5>1, WhatItFaces
      <4>2. Len(e) \in Nat
        BY Lengths
      <4> QED
        BY <1>2, <4>1, <4>2
    <3>10. Has(LastBoundary, e)
      BY <3>9, WholeInside
    <3> QED
      BY <1>1, <3>1, <3>6, <3>7, <3>10, TheTokens, HasBehind
  <2> QED
    BY <2>1, <2>2 DEF FormInv, FormType
<1> QED
  BY <1>1, <1>3, <1>4

(* However the request is cut: while a request is not answered, the socket *)
(* is read only when something is still to come and there is room for it,  *)
(* unless a read ended between the line end in front of the last boundary  *)
(* and the boundary. *)
THEOREM WaitsOnlyIfSplit == FormSpec => []NeverStuck
BY FormKept, RoomKept, StuckOnlyIfSplit, PTL

(* What is left of a request: the tokens to come count for more than those *)
(* in the buffer, and a look at the buffer for nothing is counted too.     *)
LooksLeft ==
  IF phase = "loop" THEN 1 ELSE IF phase = "read" /\ Has(LastBoundary, buffer) THEN 2 ELSE 0

RequestLeft == 4 * Len(rest) + 2 * Len(buffer) + (IF broken THEN 0 ELSE 2) + LooksLeft

LEMMA RequestCounts == FormInv /\ RoomInv /\ FormNext => RequestLeft' < RequestLeft
<1> SUFFICES ASSUME FormInv, RoomInv, FormNext PROVE RequestLeft' < RequestLeft
  OBVIOUS
<1>1. PICK nr \in Nat, nb \in Nat : nr = Len(rest) /\ nb = Len(buffer)
  BY Lengths DEF FormInv, FormType
<1>2. LooksLeft \in 0 .. 2 /\ broken \in BOOLEAN
  BY DEF LooksLeft, FormInv, FormType
<1>3. CASE Read
  <2>1. PICK k \in 1 .. Room :
          /\ k <= Len(rest)
          /\ buffer' = buffer \o SubSeq(rest, 1, k)
          /\ rest' = SubSeq(rest, k + 1, Len(rest))
    BY <1>3 DEF Read
  <2>2. k \in Nat /\ k >= 1
    <3>1. Room \in Int
      BY <1>1, Thirds DEF Room
    <3> QED
      BY <3>1
  <2>3. Len(rest') = nr - k /\ Len(buffer') = nb + k
    <3>1. PICK b \in Text, r \in Text : b = buffer /\ r = rest
      BY DEF FormInv, FormType
    <3>2. k \in 0 .. Len(r)
      BY <2>1, <2>2, <3>1, Lengths
    <3>3. /\ SubSeq(r, 1, k) \in Text /\ Len(SubSeq(r, 1, k)) = k
          /\ Len(SubSeq(r, k + 1, Len(r))) = Len(r) - k
      BY <3>2, Part
    <3>4. PICK c \in Text : c = SubSeq(r, 1, k) /\ Len(c) = k
      BY <3>3
    <3>5. Len(b \o c) = Len(b) + Len(c)
      BY Concat
    <3> QED
      BY <1>1, <2>1, <3>1, <3>3, <3>4, <3>5
  <2>4. phase' = "loop" /\ broken' = broken
    BY <1>3 DEF Read
  <2>5. LooksLeft' = 1
    BY <2>4 DEF LooksLeft
  <2> QED
    BY <1>1, <1>2, <2>2, <2>3, <2>4, <2>5 DEF RequestLeft
<1>4. CASE ReadNothing
  <2>1. LooksLeft' = 1 /\ LooksLeft = 2
    BY <1>4 DEF ReadNothing, LooksLeft
  <2>2. rest' = rest /\ buffer' = buffer /\ broken' = broken
    BY <1>4 DEF ReadNothing
  <2> QED
    BY <1>1, <1>2, <2>1, <2>2 DEF RequestLeft
<1>5. CASE Break
  <2>1. rest' = rest /\ buffer' = buffer /\ broken' = TRUE /\ phase' \in {"loop", "closed"}
    BY <1>5 DEF Break
  <2>2. LooksLeft' \in 0 .. 1
    BY <2>1 DEF LooksLeft
  <2>3. ~broken
    BY <1>5 DEF Break, RoomInv
  <2> QED
    BY <1>1, <1>2, <2>1, <2>2, <2>3 DEF RequestLeft
<1>6. CASE UploadDone
  <2>1. LooksLeft' = 0 /\ LooksLeft = 1
    BY <1>6 DEF UploadDone, LooksLeft
  <2>2. rest' = rest /\ buffer' = buffer /\ broken' = broken
    BY <1>6 DEF UploadDone
  <2> QED
    BY <1>1, <1>2, <2>1, <2>2 DEF RequestLeft
<1>7. CASE ReadMore
  <2>1. rest' = rest /\ buffer' = buffer /\ broken' = broken
    BY <1>7 DEF ReadMore
  <2>2. ~Has(LastBoundary, buffer)
    BY <1>7, Empty DEF ReadMore, Has
  <2>3. LooksLeft = 1
    BY <1>7 DEF ReadMore, LooksLeft
  <2>4. LooksLeft' = 0
    BY <1>7, <2>1, <2>2 DEF ReadMore, NextRead, LooksLeft, Has, LastBoundary, Common, Boundary
  <2> QED
    BY <1>1, <1>2, <2>1, <2>3, <2>4 DEF RequestLeft
<1>8. CASE Section
  <2>1. rest' = rest /\ broken' = broken /\ phase' = "loop" /\ phase = "loop"
    BY <1>8 DEF Section
  <2>2. LooksLeft' = 1 /\ LooksLeft = 1
    BY <2>1 DEF LooksLeft
  <2>3. Len(buffer') < Len(buffer) /\ Len(buffer') \in Nat
    <3>1. FormInv'
      BY <1>8, SectionKeeps
    <3>2. Len(buffer') \in Nat
      BY <3>1, Lengths DEF FormInv, FormType
    <3> QED
      BY <1>8, <3>2, SectionPasses
  <2> QED
    BY <1>1, <2>1, <2>2, <2>3 DEF RequestLeft
<1> QED
  BY <1>3, <1>4, <1>5, <1>6, <1>7, <1>8 DEF FormNext

(* Every read, every section and every look at the buffer brings a request *)
(* nearer to its end: no cut of it makes the server go round over the same *)
(* bytes. *)
EachLookCounts == [][RequestLeft' < RequestLeft]_formVars

THEOREM EveryLookCounts == FormSpec => EachLookCounts /\ [](RequestLeft \in Nat)
<1>1. FormInv => RequestLeft \in Nat
  <2> SUFFICES ASSUME FormInv PROVE RequestLeft \in Nat
    OBVIOUS
  <2>1. Len(rest) \in Nat /\ Len(buffer) \in Nat
    BY Lengths DEF FormInv, FormType
  <2>2. LooksLeft \in 0 .. 2
    BY DEF LooksLeft
  <2> QED
    BY <2>1, <2>2 DEF RequestLeft
<1>2. FormInv /\ RoomInv /\ [FormNext]_formVars => [RequestLeft' < RequestLeft]_formVars
  BY RequestCounts
<1> QED
  BY FormKept, RoomKept, <1>1, <1>2, PTL DEF FormSpec, EachLookCounts

(***************************************************************************)
(* CardCheck: the file of the card                                         *)
(***************************************************************************)

(* The partition with the first n bytes of the file, and blank behind. *)
Filled(f, n) == [i \in 0 .. PartLen - 1 |-> IF i < n THEN f[i + 1] ELSE Erased]

(* A program of erased cells leaves what was programmed. *)
LEMMA CardWrite ==
  ASSUME NEW f \in Seq(Byte), NEW c \in Nat, NEW n \in Nat, n >= 1, c + n <= Len(f)
  PROVE  Card!WriteDone(Filled(f, c), SubSeq(f, c + 1, c + n), c) = Filled(f, c + n)
<1>1. Len(f) \in Nat /\ \A i \in 1 .. Len(f) : f[i] \in Byte
  BY LenProperties, ElementOfSeq
<1>2. PICK piece : piece = SubSeq(f, c + 1, c + n)
  OBVIOUS
<1>3. Len(piece) = n /\ \A i \in 1 .. n : piece[i] = f[c + i]
  <2>1. PICK u \in Int, v \in Int : u = c + 1 /\ v = c + n
    OBVIOUS
  <2>2. \A i \in u .. v : f[i] \in Byte
    BY <1>1, <2>1
  <2>3. /\ Len(SubSeq(f, u, v)) = IF u <= v THEN v - u + 1 ELSE 0
        /\ \A i \in 1 .. v - u + 1 : SubSeq(f, u, v)[i] = f[u + i - 1]
    BY <2>2, SubSeqProperties
  <2>4. /\ u <= v /\ v - u + 1 = n /\ \A i \in 1 .. n : u + i - 1 = c + i
    BY <2>1
  <2>5. piece = SubSeq(f, u, v)
    BY <1>2, <2>1
  <2> QED
    BY <2>3, <2>4, <2>5
<1>4. PICK m : m = Filled(f, c)
  OBVIOUS
<1>5. /\ DOMAIN m = 0 .. PartLen - 1
      /\ \A i \in 0 .. PartLen - 1 : m[i] = IF i < c THEN f[i + 1] ELSE Erased
  BY <1>4 DEF Filled
<1>6. PICK region : region = Card!Cells(m, c, n)
  OBVIOUS
<1>7. \A i \in 0 .. PartLen - 1 : i \in region <=> c <= i /\ i < c + n
  BY <1>5, <1>6 DEF Card!Cells
<1>8. PICK data : data = [i \in region |-> piece[i - c + 1]]
  OBVIOUS
<1>9. Card!WriteDone(m, piece, c) = Card!Programmed(m, data, region)
  BY <1>3, <1>6, <1>8 DEF Card!WriteDone
<1>10. Card!Programmed(m, data, region) =
         [i \in 0 .. PartLen - 1 |-> IF i \in region THEN Card!Burn(m[i], data[i]) ELSE m[i]]
  BY <1>5 DEF Card!Programmed
<1>11. ASSUME NEW i \in 0 .. PartLen - 1
       PROVE  (IF i \in region THEN Card!Burn(m[i], data[i]) ELSE m[i]) = IF i < c + n THEN f[i + 1] ELSE Erased
  <2>1. i \in Int /\ i >= 0
    BY CheckAssumption
  <2>2. CASE i \in region
    <3>1. c <= i /\ i < c + n /\ ~(i < c)
      BY <1>7, <2>1, <2>2
    <3>2. m[i] = Erased
      BY <1>5, <3>1
    <3>3. i - c + 1 \in 1 .. n /\ c + (i - c + 1) = i + 1
      BY <2>1, <3>1
    <3>4. data[i] = f[i + 1]
      BY <1>3, <1>8, <2>2, <3>3
    <3> QED
      BY <2>2, <3>1, <3>2, <3>4 DEF Card!Burn
  <2>3. CASE i \notin region /\ i < c
    <3>1. i < c + n
      BY <2>1, <2>3
    <3> QED
      BY <1>5, <2>3, <3>1
  <2>4. CASE i \notin region /\ ~(i < c)
    <3>1. ~(i < c + n)
      BY <1>7, <2>1, <2>4
    <3> QED
      BY <1>5, <2>4, <3>1
  <2> QED
    BY <2>2, <2>3, <2>4
<1>12. Card!WriteDone(m, piece, c) = [i \in 0 .. PartLen - 1 |-> IF i < c + n THEN f[i + 1] ELSE Erased]
  BY <1>9, <1>10, <1>11
<1> QED
  BY <1>2, <1>4, <1>12 DEF Filled

(* The whole file, and its beginning, in the partition. *)
LEMMA FilledHolds ==
  ASSUME NEW f \in Seq(Byte), NEW n \in 0 .. Len(f)
  PROVE  /\ Filled(f, n) = [i \in 0 .. PartLen - 1 |->
                              IF i < Len(SubSeq(f, 1, n)) THEN SubSeq(f, 1, n)[i + 1] ELSE Erased]
         /\ n = Len(f) => Filled(f, n) = [i \in 0 .. PartLen - 1 |->
                              IF i < Len(f) THEN f[i + 1] ELSE Erased]
<1>1. Len(f) \in Nat /\ n \in Nat /\ \A i \in 1 .. Len(f) : f[i] \in Byte
  BY LenProperties, ElementOfSeq
<1>2. /\ Len(SubSeq(f, 1, n)) = IF 1 <= n THEN n - 1 + 1 ELSE 0
      /\ \A i \in 1 .. n - 1 + 1 : SubSeq(f, 1, n)[i] = f[1 + i - 1]
  BY <1>1, SubSeqProperties
<1>3. PICK p : p = SubSeq(f, 1, n)
  OBVIOUS
<1>4. Len(p) = n /\ \A i \in 1 .. n : p[i] = f[i]
  <2>1. n - 1 + 1 = n /\ ((1 <= n) \/ n = 0) /\ \A i \in 1 .. n : 1 + i - 1 = i
    BY <1>1
  <2> QED
    BY <1>2, <1>3, <2>1
<1>5. \A i \in 0 .. PartLen - 1 : (IF i < n THEN f[i + 1] ELSE Erased) = IF i < Len(p) THEN p[i + 1] ELSE Erased
  <2>1. \A i \in 0 .. PartLen - 1 : i < n => i + 1 \in 1 .. n
    BY <1>1, CheckAssumption
  <2> QED
    BY <1>4, <2>1
<1> QED
  BY <1>3, <1>5 DEF Filled

(***************************************************************************)
(* Up to the erase the partition is as it was; while the file is copied it *)
(* holds the bytes that were counted and is blank behind them, unless a    *)
(* failed program went unnoticed.                                          *)
(***************************************************************************)
CardType ==
  /\ file \in Seq(Byte) /\ copied \in Nat /\ faults \in Nat /\ unnoticed \in BOOLEAN
  /\ step \in {"stat", "open", "erase", "copy", "done"} /\ card_ret \in {"ok", "error"}

CardInv ==
  /\ CardType
  /\ unnoticed => faults # 0
  /\ step # "done" => card_ret = "error"
  /\ step \in {"stat", "open", "erase"} => part = Card!Before /\ copied = 0
  /\ step \in {"open", "erase", "copy"} => Len(file) \in 1 .. PartLen
  /\ step = "copy" => copied < Len(file) /\ (~unnoticed => part = Filled(file, copied))
  /\ card_ret = "ok" /\ ~unnoticed => part = Filled(file, Len(file))
  /\ step = "done" /\ faults = 0 /\ file # << >> =>
       part = Card!Before \/ \E n \in 0 .. Len(file) : part = Filled(file, n)

LEMMA CardStarts == NoCard \/ WithCard => CardInv
<1>1. ASSUME NoCard PROVE CardInv
  <2>1. /\ file = << >> /\ step = "done" /\ copied = 0 /\ card_ret = "error"
        /\ faults = 0 /\ unnoticed = FALSE
    BY <1>1 DEF NoCard
  <2>2. file \in Seq(Byte)
    BY <2>1, EmptySeq
  <2> QED
    BY <2>1, <2>2 DEF CardInv, CardType
<1>2. ASSUME WithCard PROVE CardInv
  <2>1. /\ firm \in CardFirms /\ file \in {<<Header>> \o firm, << >>}
        /\ part = Card!Before /\ step = "stat" /\ copied = 0 /\ card_ret = "error"
        /\ faults = 0 /\ unnoticed = FALSE
    BY <1>2 DEF WithCard, Card!Init
  <2>2. file \in Seq(Byte)
    <3>1. firm \in Seq(Byte) /\ <<Header>> \in Seq(Byte) /\ << >> \in Seq(Byte)
      BY <2>1, CardAssumption, CheckAssumption, EmptySeq
    <3>2. <<Header>> \o firm \in Seq(Byte)
      BY <3>1, ConcatProperties
    <3> QED
      BY <2>1, <3>1, <3>2
  <2> QED
    BY <2>1, <2>2 DEF CardInv, CardType
<1> QED
  BY <1>1, <1>2

(* The copy of a piece, and what may go wrong with it. *)
LEMMA CopyKeeps == CardInv /\ Card!CopyPiece /\ UNCHANGED <<file, pulled>> => CardInv'
<1> SUFFICES ASSUME CardInv, Card!CopyPiece, UNCHANGED <<file, pulled>> PROVE CardInv'
  OBVIOUS
<1>1. PICK n \in 1 .. Card!Smaller(FirmBufSize, Len(file) - copied) :
        \/ /\ part' = Card!WriteDone(part, SubSeq(file, copied + 1, copied + n), copied)
           /\ Card!Count(n) /\ Card!AfterPiece
           /\ UNCHANGED <<faults, unnoticed>>
        \/ /\ faults' = faults + 1
           /\ unnoticed' = TRUE
           /\ Card!Count(n) /\ Card!AfterPiece
        \/ /\ faults' = faults + 1
           /\ Card!WriteStops(n)
           /\ UNCHANGED unnoticed
  BY DEF Card!CopyPiece
<1>2. step = "copy" /\ file' = file
  BY DEF Card!CopyPiece
<1>3. PICK f \in Seq(Byte), c \in Nat, l \in Nat : f = file /\ c = copied /\ l = Len(f)
  BY LenProperties DEF CardInv, CardType
<1>4. /\ c < l /\ card_ret = "error" /\ (~unnoticed => part = Filled(f, c)) /\ l \in 1 .. PartLen
      /\ faults \in Nat /\ unnoticed \in BOOLEAN /\ (unnoticed => faults # 0)
  BY <1>2, <1>3 DEF CardInv, CardType
<1>5. n \in Nat /\ n >= 1 /\ c + n <= l
  <2>1. PICK m : m = Card!Smaller(FirmBufSize, l - c) /\ m \in Int /\ m <= l - c
    BY <1>4, CheckAssumption DEF Card!Smaller
  <2>2. n \in 1 .. m
    BY <1>3, <2>1
  <2> QED
    BY <2>1, <2>2
<1>6. CASE Card!Count(n) /\ Card!AfterPiece
  <2>1. copied' = c + n
    BY <1>3, <1>6 DEF Card!Count
  <2>2. \/ c + n < l /\ step' = "copy" /\ card_ret' = card_ret
        \/ c + n = l /\ step' = "done" /\ card_ret' = "ok"
    BY <1>3, <1>5, <1>6, <2>1 DEF Card!AfterPiece
  <2>3. CASE /\ part' = Card!WriteDone(part, SubSeq(file, copied + 1, copied + n), copied)
             /\ faults' = faults /\ unnoticed' = unnoticed
    <3>1. ~unnoticed' => part' = Filled(f, c + n)
      <4> SUFFICES ASSUME ~unnoticed' PROVE part' = Filled(f, c + n)
        OBVIOUS
      <4>1. part' = Card!WriteDone(Filled(f, c), SubSeq(f, c + 1, c + n), c)
        BY <1>3, <1>4, <2>3
      <4> QED
        BY <1>3, <1>5, <4>1, CardWrite
    <3>2. CardType'
      BY <1>2, <1>3, <1>4, <2>1, <2>2, <2>3 DEF CardType
    <3>3. CASE c + n < l /\ step' = "copy" /\ card_ret' = card_ret
      <4>1. copied' < Len(file') /\ Len(file') \in 1 .. PartLen
        BY <1>2, <1>3, <1>4, <2>1, <3>3
      <4>2. ~unnoticed' => part' = Filled(file', copied')
        BY <1>2, <1>3, <2>1, <3>1
      <4>3. Filled(file', copied') = Filled(file, copied)'
        BY DEF Filled
      <4> QED
        BY <1>4, <2>3, <3>2, <3>3, <4>1, <4>2, <4>3 DEF CardInv
    <3>4. CASE c + n = l /\ step' = "done" /\ card_ret' = "ok"
      <4>1. ~unnoticed' => part' = Filled(file', Len(file'))
        BY <1>2, <1>3, <3>1, <3>4
      <4>2. Filled(file', Len(file')) = Filled(file, Len(file))'
        BY DEF Filled
      <4>3. faults' = 0 => \E k \in 0 .. Len(file') : part' = Filled(file', k)
        <5> SUFFICES ASSUME faults' = 0 PROVE \E k \in 0 .. Len(file') : part' = Filled(file', k)
          OBVIOUS
        <5>1. ~unnoticed'
          BY <1>4, <2>3
        <5>2. l \in 0 .. Len(file') /\ part' = Filled(file', l)
          BY <1>2, <1>3, <3>1, <3>4, <5>1
        <5> QED
          BY <5>2
      <4>4. (\E k \in 0 .. Len(file') : part' = Filled(file', k))
              => (\E k \in 0 .. Len(file) : part = Filled(file, k))'
        BY DEF Filled
      <4> QED
        BY <1>4, <2>3, <3>2, <3>4, <4>1, <4>2, <4>3, <4>4 DEF CardInv
    <3> QED
      BY <2>2, <3>3, <3>4
  <2>4. CASE faults' = faults + 1 /\ unnoticed' = TRUE
    <3>1. CardType'
      BY <1>2, <1>3, <1>4, <2>1, <2>2, <2>4 DEF CardType
    <3>2. faults' # 0
      BY <1>4, <2>4
    <3>3. step' = "copy" => copied' < Len(file') /\ Len(file') \in 1 .. PartLen
      BY <1>2, <1>3, <1>4, <2>1, <2>2
    <3>4. step' \in {"copy", "done"} /\ (step' # "done" => card_ret' = "error")
      BY <1>4, <2>2
    <3> QED
      BY <2>4, <3>1, <3>2, <3>3, <3>4 DEF CardInv
  <2>5. ~Card!WriteStops(n)
    <3>1. c + n # c
      BY <1>5
    <3> QED
      BY <1>3, <2>1, <3>1 DEF Card!WriteStops
  <2> QED
    BY <1>1, <2>3, <2>4, <2>5
<1>7. CASE faults' = faults + 1 /\ Card!WriteStops(n) /\ UNCHANGED unnoticed
  <2>1. step' = "done" /\ copied' = copied /\ card_ret' = card_ret /\ unnoticed' = unnoticed
    BY <1>7 DEF Card!WriteStops
  <2>2. CardType' /\ faults' # 0
    BY <1>2, <1>3, <1>4, <1>7, <2>1 DEF CardType
  <2> QED
    BY <1>4, <2>1, <2>2 DEF CardInv
<1> QED
  BY <1>1, <1>6, <1>7

LEMMA CardOtherKeeps ==
  CardInv /\ (Card!Stat \/ Card!Open \/ Card!Erase \/ Card!ReadFails) /\ UNCHANGED <<file, pulled>> => CardInv'
<1> SUFFICES ASSUME CardInv, Card!Stat \/ Card!Open \/ Card!Erase \/ Card!ReadFails, UNCHANGED <<file, pulled>>
             PROVE  CardInv'
  OBVIOUS
<1>1. file' = file /\ CardType
  BY DEF CardInv
<1>2. Filled(file, 0) = Card!Blank
  <2>1. \A i \in 0 .. PartLen - 1 : ~(i < 0)
    BY CheckAssumption
  <2> QED
    BY <2>1 DEF Filled, Card!Blank
<1>3. /\ (Card!Before)' = Card!Before
      /\ \A k : Filled(file, k)' = Filled(file, k)
  BY <1>1 DEF Card!Before, Filled
<1>4. CASE Card!GiveUp /\ step \in {"stat", "open"}
  <2>1. /\ step' = "done" /\ part' = part /\ copied' = copied /\ card_ret' = card_ret
        /\ faults' = faults /\ unnoticed' = unnoticed
    BY <1>4 DEF Card!GiveUp
  <2>2. part = Card!Before /\ card_ret = "error"
    BY <1>4 DEF CardInv
  <2>3. CardType'
    BY <1>1, <2>1 DEF CardType
  <2> QED
    BY <1>3, <2>1, <2>2, <2>3 DEF CardInv
<1>5. CASE Card!GiveUp /\ step = "copy"
  <2>1. /\ step' = "done" /\ part' = part /\ copied' = copied /\ card_ret' = card_ret
        /\ faults' = faults /\ unnoticed' = unnoticed
    BY <1>5 DEF Card!GiveUp
  <2>2. /\ copied < Len(file) /\ copied \in Nat /\ (~unnoticed => part = Filled(file, copied))
        /\ card_ret = "error" /\ (unnoticed => faults # 0) /\ unnoticed \in BOOLEAN
    BY <1>5 DEF CardInv, CardType
  <2>3. CardType'
    BY <1>1, <2>1 DEF CardType
  <2>4. faults' = 0 => \E k \in 0 .. Len(file) : part = Filled(file, k)
    <3> SUFFICES ASSUME faults' = 0 PROVE \E k \in 0 .. Len(file) : part = Filled(file, k)
      OBVIOUS
    <3>1. part = Filled(file, copied)
      BY <2>1, <2>2
    <3>2. copied \in 0 .. Len(file)
      <4>1. Len(file) \in Nat
        BY <1>1, LenProperties DEF CardType
      <4> QED
        BY <2>2, <4>1
    <3> QED
      BY <3>1, <3>2
  <2>5. (\E k \in 0 .. Len(file) : part = Filled(file, k)) => (\E k \in 0 .. Len(file) : part = Filled(file, k))'
    BY <1>1, <2>1 DEF Filled
  <2> QED
    BY <2>1, <2>2, <2>3, <2>4, <2>5 DEF CardInv
<1>6. CASE /\ step \in {"stat", "open"} /\ step' \in {"open", "erase"} /\ Len(file) \in 1 .. PartLen
           /\ UNCHANGED <<part, copied, card_ret, faults, unnoticed>>
  <2>1. /\ part' = part /\ copied' = copied /\ card_ret' = card_ret
        /\ faults' = faults /\ unnoticed' = unnoticed
    BY <1>6
  <2>2. part = Card!Before /\ card_ret = "error" /\ copied = 0 /\ (unnoticed => faults # 0)
    BY <1>6 DEF CardInv
  <2>3. CardType'
    BY <1>1, <1>6, <2>1 DEF CardType
  <2>4. (Len(file) \in 1 .. PartLen)'
    BY <1>1, <1>6
  <2> QED
    BY <1>3, <1>6, <2>1, <2>2, <2>3, <2>4 DEF CardInv
<1>7. CASE Card!Erase
  <2>1. /\ step = "erase" /\ copied' = copied /\ card_ret' = card_ret /\ unnoticed' = unnoticed
        /\ \/ part' = Card!Blank /\ step' = "copy" /\ faults' = faults
           \/ faults' = faults + 1 /\ step' = "done"
    BY <1>7 DEF Card!Erase
  <2>2. /\ copied = 0 /\ card_ret = "error" /\ Len(file) \in 1 .. PartLen /\ (unnoticed => faults # 0)
        /\ faults \in Nat
    BY <2>1 DEF CardInv, CardType
  <2>3. CASE part' = Card!Blank /\ step' = "copy" /\ faults' = faults
    <3>1. CardType'
      BY <1>1, <2>1, <2>3 DEF CardType
    <3>2. (part = Filled(file, copied))'
      <4>1. Filled(file, copied)' = Filled(file, 0)
        BY <1>1, <2>1, <2>2 DEF Filled
      <4> QED
        BY <1>2, <2>3, <4>1
    <3>3. (Len(file) \in 1 .. PartLen)' /\ copied' < Len(file')
      BY <1>1, <2>1, <2>2
    <3> QED
      BY <2>1, <2>2, <2>3, <3>1, <3>2, <3>3 DEF CardInv
  <2>4. CASE faults' = faults + 1 /\ step' = "done"
    <3>1. CardType' /\ faults' # 0
      BY <1>1, <2>1, <2>2, <2>4 DEF CardType
    <3> QED
      BY <2>1, <2>2, <2>4, <3>1 DEF CardInv
  <2> QED
    BY <2>1, <2>3, <2>4
<1>8. ASSUME Card!Stat PROVE CardInv'
  <2>1. \/ Card!GiveUp /\ step \in {"stat", "open"}
        \/ /\ step \in {"stat", "open"} /\ step' \in {"open", "erase"} /\ Len(file) \in 1 .. PartLen
           /\ UNCHANGED <<part, copied, card_ret, faults, unnoticed>>
    BY <1>8 DEF Card!Stat, Card!Fits
  <2> QED
    BY <1>4, <1>6, <2>1
<1>9. ASSUME Card!Open PROVE CardInv'
  <2>1. step = "open" /\ Len(file) \in 1 .. PartLen
    BY <1>9 DEF Card!Open, CardInv
  <2>2. \/ Card!GiveUp /\ step \in {"stat", "open"}
        \/ /\ step \in {"stat", "open"} /\ step' \in {"open", "erase"} /\ Len(file) \in 1 .. PartLen
           /\ UNCHANGED <<part, copied, card_ret, faults, unnoticed>>
    BY <1>9, <2>1 DEF Card!Open
  <2> QED
    BY <1>4, <1>6, <2>2
<1>10. ASSUME Card!ReadFails PROVE CardInv'
  BY <1>5, <1>10 DEF Card!ReadFails
<1> QED
  BY <1>7, <1>8, <1>9, <1>10

LEMMA CardKept == Spec => []CardInv
<1>1. CardInv /\ [CardNext]_allVars => CardInv'
  <2> SUFFICES ASSUME CardInv, [CardNext]_allVars PROVE CardInv'
    OBVIOUS
  <2>1. CASE Card!Update
    BY <2>1, CopyKeeps, CardOtherKeeps DEF Card!Update
  <2>2. CASE UNCHANGED <<file, part, step, copied, card_ret, faults, unnoticed>>
    <3>1. /\ file' = file /\ part' = part /\ step' = step /\ copied' = copied /\ card_ret' = card_ret
          /\ faults' = faults /\ unnoticed' = unnoticed
      BY <2>2
    <3> QED
      BY <3>1 DEF CardInv, CardType, Filled, Card!Before
  <2>3. CASE Card!Pull
    BY <2>2, <2>3 DEF Card!Pull
  <2>4. CASE CheckStep
    BY <2>2, <2>4 DEF CheckStep, Check, card
  <2>5. CASE UNCHANGED allVars
    BY <2>2, <2>5 DEF allVars, card
  <2> QED
    BY <2>1, <2>3, <2>4, <2>5 DEF CardNext, CardStep
<1> QED
  BY CardStarts, <1>1, PTL DEF Spec

(* sdcard_update returns RT_EOK only when the partition holds the whole    *)
(* file, unless a failed program went unnoticed: for every file, every     *)
(* cut of its reads, wherever the card is pulled out.                      *)
THEOREM CopiedIsStored == Spec => []OkMeansStored
<1>1. CardInv => OkMeansStored
  <2> SUFFICES ASSUME CardInv, card_ret = "ok" /\ ~unnoticed PROVE Card!Holds(file)
    BY DEF OkMeansStored, Card!OkMeansStored
  <2>1. file \in Seq(Byte) /\ part = Filled(file, Len(file))
    BY DEF CardInv, CardType
  <2> QED
    BY <2>1 DEF Card!Holds, Filled
<1> QED
  BY CardKept, <1>1, PTL

(* Without a failed flash operation the partition is as it was, or holds   *)
(* the beginning of the file and is blank behind it.                       *)
THEOREM PulledOutIsCutShort == Spec => []CutShortAtWorst
<1>1. CardInv => CutShortAtWorst
  <2> SUFFICES ASSUME CardInv, step = "done", file # << >>, faults = 0
               PROVE  part = Card!Before \/ \E n \in 0 .. Len(file) : Card!Holds(SubSeq(file, 1, n))
    BY DEF CutShortAtWorst, Card!CutShortAtWorst
  <2>1. file \in Seq(Byte) /\ (part = Card!Before \/ \E n \in 0 .. Len(file) : part = Filled(file, n))
    BY DEF CardInv, CardType
  <2>2. ASSUME NEW n \in 0 .. Len(file), part = Filled(file, n) PROVE Card!Holds(SubSeq(file, 1, n))
    <3>1. Filled(file, n) = [i \in 0 .. PartLen - 1 |->
                               IF i < Len(SubSeq(file, 1, n)) THEN SubSeq(file, 1, n)[i + 1] ELSE Erased]
      BY <2>1, FilledHolds
    <3> QED
      BY <2>2, <3>1 DEF Card!Holds
  <2> QED
    BY <2>1, <2>2
<1> QED
  BY CardKept, <1>1, PTL

(***************************************************************************)
(* FirmCheck: the words of 32 bits                                         *)
(***************************************************************************)

Word == SUBSET (0 .. 31)
Taps == {31 - e : e \in Polynomial}

LEMMA TheTaps == Taps \subseteq 0 .. 31 /\ 31 \in Taps
<1>1. 0 \in Polynomial /\ \A e \in Polynomial : e \in 0 .. 31
  BY DEF Polynomial
<1> QED
  BY <1>1 DEF Taps

LEMMA XorBits == \A u, v \in Word : Xor(u, v) \in Word /\ \A x : x \in Xor(u, v) <=> (x \in u) # (x \in v)
BY DEF Xor, Word

LEMMA ShiftBits ==
  ASSUME NEW w \in Word, NEW n \in Nat
  PROVE  Shift(w, n) \in Word /\ \A x \in 0 .. 31 : x \in Shift(w, n) <=> x + n \in w
<1>1. \A i \in w : i \in 0 .. 31
  BY DEF Word
<1>2. \A i \in w : i >= n => i - n \in 0 .. 31
  BY <1>1
<1>3. Shift(w, n) \in Word
  BY <1>2 DEF Shift, Word
<1>4. ASSUME NEW x \in 0 .. 31, x + n \in w PROVE x \in Shift(w, n)
  <2>1. x + n >= n /\ (x + n) - n = x
    OBVIOUS
  <2> QED
    BY <1>4, <2>1 DEF Shift
<1>5. ASSUME NEW x \in 0 .. 31, x \in Shift(w, n) PROVE x + n \in w
  <2>1. PICK j \in w : j >= n /\ x = j - n
    BY <1>5 DEF Shift
  <2>2. j \in Int
    BY <1>1
  <2>3. x + n = j
    BY <2>1, <2>2
  <2> QED
    BY <2>3
<1> QED
  BY <1>3, <1>4, <1>5

(* One division, bit by bit: the lowest bit and the incoming one decide    *)
(* together whether the polynomial is taken away.                          *)
LEMMA DivideBits ==
  ASSUME NEW w \in Word, NEW bit \in BOOLEAN
  PROVE  /\ Divide(w, bit) \in Word
         /\ \A x \in 0 .. 31 : x \in Divide(w, bit) <=> (x + 1 \in w) # ((0 \in w) # bit /\ x \in Taps)
<1>1. PICK s \in Word : s = Shift(w, 1) /\ \A x \in 0 .. 31 : x \in s <=> x + 1 \in w
  BY ShiftBits
<1>2. Taps \in Word
  BY TheTaps DEF Word
<1>3. CASE (0 \in w) # bit
  <2>1. Divide(w, bit) = Xor(s, Taps)
    BY <1>1, <1>3 DEF Divide, Taps
  <2>2. Xor(s, Taps) \in Word /\ \A x : x \in Xor(s, Taps) <=> (x \in s) # (x \in Taps)
    BY <1>2, XorBits
  <2> QED
    BY <1>1, <1>3, <2>1, <2>2
<1>4. CASE ~((0 \in w) # bit)
  <2>1. Divide(w, bit) = s
    BY <1>1, <1>4 DEF Divide
  <2> QED
    BY <1>1, <1>4, <2>1
<1> QED
  BY <1>3, <1>4

LEMMA BitsOf ==
  ASSUME NEW u \in Word, NEW v \in Word, \A x \in 0 .. 31 : x \in u <=> x \in v
  PROVE  u = v
BY DEF Word

(***************************************************************************)
(* A byte of crc32_update is eight divisions: word is the register of the  *)
(* packer after j bits of the byte b, and turned the index of crc32_tbl,   *)
(* divided j times.  What the index leaves out is what is shifted.         *)
(***************************************************************************)
Apace(word, turned, w, b, j) ==
  /\ word \in Word /\ turned \in Word
  /\ \A x \in 0 .. 31 :
       x \in word <=> (x \in turned) # ((x + j \in w /\ x + j >= 8) # (x + j \in b))

LEMMA ApaceStarts ==
  ASSUME NEW w \in Word, NEW b \in Byte
  PROVE  Xor(w \cap 0 .. 7, b) \in Byte /\ Apace(w, Xor(w \cap 0 .. 7, b), w, b, 0)
<1>1. b \in Word /\ w \cap 0 .. 7 \in Word
  BY DEF Byte, Word
<1>2. PICK c \in Word : c = Xor(w \cap 0 .. 7, b) /\ \A x : x \in c <=> (x \in w \cap 0 .. 7) # (x \in b)
  BY <1>1, XorBits
<1>3. c \in Byte
  <2>1. \A x \in c : x \in w \cap 0 .. 7 \/ x \in b
    BY <1>2
  <2> QED
    BY <2>1 DEF Byte
<1>4. ASSUME NEW x \in 0 .. 31
      PROVE  x \in w <=> (x \in c) # ((x + 0 \in w /\ x + 0 >= 8) # (x + 0 \in b))
  <2>1. x + 0 = x /\ (x \in 0 .. 7 <=> ~(x >= 8))
    OBVIOUS
  <2>2. x \in b => x \in 0 .. 7
    BY DEF Byte
  <2> QED
    BY <1>2, <2>1, <2>2
<1> QED
  BY <1>2, <1>3, <1>4 DEF Apace

LEMMA ApaceGoesOn ==
  ASSUME NEW w \in Word, NEW b \in Byte, NEW word, NEW turned, NEW j \in 0 .. 7,
         Apace(word, turned, w, b, j)
  PROVE  Apace(Divide(word, j \in b), Turn(turned), w, b, j + 1)
<1>1. /\ word \in Word /\ turned \in Word
      /\ \A x \in 0 .. 31 :
           x \in word <=> (x \in turned) # ((x + j \in w /\ x + j >= 8) # (x + j \in b))
  BY DEF Apace
<1>2. PICK p \in BOOLEAN : p <=> (0 \in word) # (j \in b)
  OBVIOUS
<1>3. p <=> 0 \in turned
  <2>1. 0 + j = j /\ ~(j >= 8) /\ 0 \in 0 .. 31
    OBVIOUS
  <2>2. 0 \in word <=> (0 \in turned) # (j \in b)
    BY <1>1, <2>1
  <2> QED
    BY <1>2, <2>2
<1>4. PICK d \in Word : /\ d = Divide(word, j \in b)
                        /\ \A x \in 0 .. 31 : x \in d <=> (x + 1 \in word) # (p /\ x \in Taps)
  <2>1. PICK bit \in BOOLEAN : bit <=> j \in b
    OBVIOUS
  <2>2. /\ Divide(word, bit) \in Word
        /\ \A x \in 0 .. 31 : x \in Divide(word, bit) <=> (x + 1 \in word) # ((0 \in word) # bit /\ x \in Taps)
    BY <1>1, DivideBits
  <2>3. Divide(word, bit) = Divide(word, j \in b)
    BY <2>1 DEF Divide
  <2> QED
    BY <1>2, <2>1, <2>2, <2>3
<1>5. PICK t \in Word : /\ t = Turn(turned)
                        /\ \A x \in 0 .. 31 : x \in t <=> (x + 1 \in turned) # (p /\ x \in Taps)
  <2>1. /\ Divide(turned, FALSE) \in Word
        /\ \A x \in 0 .. 31 : x \in Divide(turned, FALSE) <=>
              (x + 1 \in turned) # ((0 \in turned) # FALSE /\ x \in Taps)
    BY <1>1, DivideBits
  <2> QED
    BY <1>3, <2>1 DEF Turn
<1>6. ASSUME NEW x \in 0 .. 31
      PROVE  x \in d <=> (x \in t) # ((x + (j + 1) \in w /\ x + (j + 1) >= 8) # (x + (j + 1) \in b))
  <2>1. x + (j + 1) = (x + 1) + j
    OBVIOUS
  <2>2. CASE x < 31
    <3>1. x + 1 \in 0 .. 31
      BY <2>2
    <3>2. x + 1 \in word <=> (x + 1 \in turned) # (((x + 1) + j \in w /\ (x + 1) + j >= 8) # ((x + 1) + j \in b))
      BY <1>1, <3>1
    <3> QED
      BY <1>4, <1>5, <2>1, <3>2
  <2>3. CASE x = 31
    <3>1. x + 1 \notin word /\ x + 1 \notin turned /\ (x + 1) + j \notin w /\ (x + 1) + j \notin b
      BY <1>1, <2>3 DEF Word, Byte
    <3> QED
      BY <1>4, <1>5, <2>1, <3>1
  <2> QED
    BY <2>2, <2>3
<1> QED
  BY <1>4, <1>5, <1>6 DEF Apace

LEMMA Divided == \A w \in Word : \A bit : Divide(w, bit) \in Word
<1> SUFFICES ASSUME NEW w \in Word, NEW bit PROVE Divide(w, bit) \in Word
  OBVIOUS
<1>1. Shift(w, 1) \in Word /\ Taps \in Word
  BY ShiftBits, TheTaps DEF Word
<1>2. Xor(Shift(w, 1), Taps) \in Word
  BY <1>1, XorBits
<1> QED
  BY <1>1, <1>2 DEF Divide, Taps

(* One byte of crc32_update is eight bits of the packer. *)
LEMMA EightBits ==
  ASSUME NEW w \in Word, NEW b \in Byte, NEW r, r[0] = w, \A j \in 0 .. 7 : r[j + 1] = Divide(r[j], j \in b)
  PROVE  Step(w, b) = r[8]
<1>1. PICK t0 \in Byte : t0 = Xor(w \cap 0 .. 7, b) /\ Apace(r[0], t0, w, b, 0)
  BY ApaceStarts
<1>2. PICK t1 : t1 = Turn(t0)
  OBVIOUS
<1>3. PICK t2 : t2 = Turn(t1)
  OBVIOUS
<1>4. PICK t3 : t3 = Turn(t2)
  OBVIOUS
<1>5. PICK t4 : t4 = Turn(t3)
  OBVIOUS
<1>6. PICK t5 : t5 = Turn(t4)
  OBVIOUS
<1>7. PICK t6 : t6 = Turn(t5)
  OBVIOUS
<1>8. PICK t7 : t7 = Turn(t6)
  OBVIOUS
<1>9. PICK t8 : t8 = Turn(t7)
  OBVIOUS
<1>10. ASSUME NEW j \in 0 .. 7, NEW turned, Apace(r[j], turned, w, b, j)
       PROVE  Apace(r[j + 1], Turn(turned), w, b, j + 1)
  BY <1>10, ApaceGoesOn
<1>11. Apace(r[1], t1, w, b, 1)
  BY <1>1, <1>2, <1>10, 0 \in 0 .. 7, 0 + 1 = 1
<1>12. Apace(r[2], t2, w, b, 2)
  BY <1>11, <1>3, <1>10, 1 \in 0 .. 7, 1 + 1 = 2
<1>13. Apace(r[3], t3, w, b, 3)
  BY <1>12, <1>4, <1>10, 2 \in 0 .. 7, 2 + 1 = 3
<1>14. Apace(r[4], t4, w, b, 4)
  BY <1>13, <1>5, <1>10, 3 \in 0 .. 7, 3 + 1 = 4
<1>15. Apace(r[5], t5, w, b, 5)
  BY <1>14, <1>6, <1>10, 4 \in 0 .. 7, 4 + 1 = 5
<1>16. Apace(r[6], t6, w, b, 6)
  BY <1>15, <1>7, <1>10, 5 \in 0 .. 7, 5 + 1 = 6
<1>17. Apace(r[7], t7, w, b, 7)
  BY <1>16, <1>8, <1>10, 6 \in 0 .. 7, 6 + 1 = 7
<1>18. Apace(r[8], t8, w, b, 8)
  BY <1>17, <1>9, <1>10, 7 \in 0 .. 7, 7 + 1 = 8
<1>19. Step(w, b) = Xor(Shift(w, 8), t8)
  <2>1. crc32_tbl[t0] = t8
    BY <1>1, <1>2, <1>3, <1>4, <1>5, <1>6, <1>7, <1>8, <1>9, TableAssumption
  <2> QED
    BY <1>1, <2>1 DEF Step
<1>20. PICK s \in Word : s = Shift(w, 8) /\ \A x \in 0 .. 31 : x \in s <=> x + 8 \in w
  BY ShiftBits
<1>21. /\ r[8] \in Word /\ t8 \in Word
       /\ \A x \in 0 .. 31 : x \in r[8] <=> (x \in t8) # ((x + 8 \in w /\ x + 8 >= 8) # (x + 8 \in b))
  BY <1>18 DEF Apace
<1>22. Xor(s, t8) \in Word /\ \A x : x \in Xor(s, t8) <=> (x \in s) # (x \in t8)
  BY <1>21, XorBits
<1>23. ASSUME NEW x \in 0 .. 31 PROVE x \in r[8] <=> x \in Xor(s, t8)
  <2>1. x + 8 >= 8 /\ x + 8 \notin b
    BY DEF Byte
  <2> QED
    BY <1>20, <1>21, <1>22, <2>1
<1> QED
  BY <1>19, <1>20, <1>21, <1>22, <1>23, BitsOf

(***************************************************************************)
(* The packer's register after every bit of a body                         *)
(***************************************************************************)

Turns(f, n, body) ==
  /\ f \in [0 .. n -> Word] /\ f[0] = Ones
  /\ \A k \in 1 .. n : f[k] = Divide(f[k - 1], Bit(body, k))

LEMMA TurnsExist == ASSUME NEW body, NEW n \in Nat PROVE \E f : Turns(f, n, body)
<1> DEFINE T == {m \in Nat : \E f : Turns(f, m, body)}
<1>1. 0 \in T
  <2>1. PICK f : f = [k \in 0 .. 0 |-> Ones]
    OBVIOUS
  <2>2. Ones \in Word
    BY DEF Ones, Word
  <2>3. f \in [0 .. 0 -> Word] /\ f[0] = Ones /\ \A k \in 1 .. 0 : FALSE
    BY <2>1, <2>2
  <2> QED
    BY <2>3 DEF Turns
<1>2. ASSUME NEW m \in Nat, NEW f, Turns(f, m, body) PROVE m + 1 \in T
  <2>1. f \in [0 .. m -> Word] /\ f[0] = Ones /\ \A k \in 1 .. m : f[k] = Divide(f[k - 1], Bit(body, k))
    BY <1>2 DEF Turns
  <2>2. PICK last \in Word : last = Divide(f[m], Bit(body, m + 1))
    BY <2>1, Divided
  <2>3. PICK g : g = [k \in 0 .. m + 1 |-> IF k = m + 1 THEN last ELSE f[k]]
    OBVIOUS
  <2>4. /\ \A k \in 0 .. m : k # m + 1 /\ k \in 0 .. m + 1 /\ f[k] \in Word
        /\ m + 1 \in 0 .. m + 1 /\ \A k \in 0 .. m + 1 : k = m + 1 \/ k \in 0 .. m
    BY <2>1
  <2>5. g[m + 1] = last /\ \A k \in 0 .. m : g[k] = f[k]
    BY <2>3, <2>4
  <2>6. g \in [0 .. m + 1 -> Word] /\ g[0] = Ones
    BY <2>1, <2>3, <2>4, <2>5
  <2>7. ASSUME NEW k \in 1 .. m + 1 PROVE g[k] = Divide(g[k - 1], Bit(body, k))
    <3>1. CASE k = m + 1
      <4>1. k - 1 = m /\ m \in 0 .. m
        BY <3>1
      <4> QED
        BY <2>2, <2>5, <3>1, <4>1
    <3>2. CASE k \in 1 .. m
      <4>1. k \in 0 .. m /\ k - 1 \in 0 .. m
        BY <3>2
      <4> QED
        BY <2>1, <2>5, <3>2, <4>1
    <3> QED
      BY <3>1, <3>2
  <2> QED
    BY <2>6, <2>7 DEF Turns
<1>3. \A k \in 0 .. n - 1 : k \in T => k + 1 \in T
  BY <1>2
<1>4. n \in T
  <2> HIDE DEF T
  <2> QED
    BY <1>1, <1>3, UpTo
<1> QED
  BY <1>4

LEMMA RegisterTurns == ASSUME NEW body \in Seq(Byte) PROVE Turns(Register(body), 8 * Len(body), body)
<1>1. Len(body) \in Nat /\ 8 * Len(body) \in Nat
  BY LenProperties
<1>2. PICK n \in Nat : n = 8 * Len(body)
  BY <1>1
<1> DEFINE Recursive(f) == f = [k \in 0 .. n |-> IF k = 0 THEN Ones ELSE Divide(f[k - 1], Bit(body, k))]
<1>3. Register(body) = CHOOSE f : Recursive(f)
  BY <1>2 DEF Register
<1>4. PICK f : Turns(f, n, body)
  BY TurnsExist
<1>5. Recursive(f)
  <2>1. f \in [0 .. n -> Word] /\ f[0] = Ones /\ \A k \in 1 .. n : f[k] = Divide(f[k - 1], Bit(body, k))
    BY <1>4 DEF Turns
  <2>2. \A k \in 0 .. n : f[k] = IF k = 0 THEN Ones ELSE Divide(f[k - 1], Bit(body, k))
    BY <2>1
  <2> QED
    BY <2>1, <2>2
<1>6. PICK g : g = Register(body)
  OBVIOUS
<1>7. Recursive(g)
  BY <1>3, <1>5, <1>6
<1>8. /\ DOMAIN g = 0 .. n /\ g[0] = Ones
      /\ \A k \in 1 .. n : k \in 0 .. n /\ k # 0 /\ g[k] = Divide(g[k - 1], Bit(body, k))
      /\ g = [k \in 0 .. n |-> g[k]]
  <2>1. 0 \in 0 .. n /\ \A k \in 1 .. n : k \in 0 .. n /\ k # 0
    OBVIOUS
  <2> QED
    BY <1>7, <2>1
<1> DEFINE T == {k \in 0 .. n : g[k] \in Word}
<1>9. \A k \in 0 .. n : k \in T
  <2>1. 0 \in T
    BY <1>8 DEF Ones, Word
  <2>2. ASSUME NEW k \in 0 .. n - 1, k \in T PROVE k + 1 \in T
    <3>1. k + 1 \in 1 .. n /\ (k + 1) - 1 = k /\ k + 1 \in 0 .. n
      OBVIOUS
    <3>2. g[k + 1] = Divide(g[k], Bit(body, k + 1))
      BY <1>8, <3>1
    <3> QED
      BY <2>2, <3>1, <3>2, Divided
  <2> HIDE DEF T
  <2> QED
    BY <2>1, <2>2, UpTo
<1> QED
  BY <1>2, <1>6, <1>8, <1>9 DEF Turns

LEMMA BitIs ==
  ASSUME NEW body, NEW k \in Nat, NEW j \in 0 .. 7
  PROVE  Bit(body, 8 * k + j + 1) <=> j \in body[k + 1]
<1>1. ((8 * k + j + 1) - 1) % 8 = j /\ ((8 * k + j + 1) - 1) \div 8 = k
  OBVIOUS
<1> QED
  BY <1>1 DEF Bit

LEMMA ByteTurns ==
  ASSUME NEW body \in Seq(Byte), NEW f, Turns(f, 8 * Len(body), body), NEW k \in 0 .. Len(body) - 1
  PROVE  Step(f[8 * k], body[k + 1]) = f[8 * (k + 1)]
<1>1. Len(body) \in Nat /\ k \in Nat /\ body[k + 1] \in Byte
  BY LenProperties, ElementOfSeq
<1>2. PICK n \in Nat : n = Len(body) /\ k < n
  BY <1>1
<1>3. /\ f \in [0 .. 8 * n -> Word]
      /\ \A i \in 1 .. 8 * n : f[i] = Divide(f[i - 1], Bit(body, i))
  BY <1>2 DEF Turns
<1>4. PICK r : r = [j \in 0 .. 8 |-> f[8 * k + j]]
  OBVIOUS
<1>5. ASSUME NEW j \in 0 .. 7 PROVE r[j + 1] = Divide(r[j], j \in body[k + 1])
  <2>1. /\ 8 * k + j + 1 \in 1 .. 8 * n /\ (8 * k + j + 1) - 1 = 8 * k + j
        /\ j \in 0 .. 8 /\ j + 1 \in 0 .. 8 /\ 8 * k + (j + 1) = 8 * k + j + 1
    BY <1>1, <1>2
  <2>2. r[j + 1] = f[8 * k + j + 1] /\ r[j] = f[8 * k + j]
    BY <1>4, <2>1
  <2>3. f[8 * k + j + 1] = Divide(f[8 * k + j], Bit(body, 8 * k + j + 1))
    BY <1>3, <2>1
  <2>4. Bit(body, 8 * k + j + 1) <=> j \in body[k + 1]
    BY <1>1, BitIs
  <2>5. Divide(r[j], Bit(body, 8 * k + j + 1)) = Divide(r[j], j \in body[k + 1])
    <3>2. CASE j \in body[k + 1]
      <4>1. Bit(body, 8 * k + j + 1) = TRUE /\ (j \in body[k + 1]) = TRUE
        BY <2>4, <3>2 DEF Bit
      <4> QED
        BY <4>1
    <3>3. CASE j \notin body[k + 1]
      <4>1. Bit(body, 8 * k + j + 1) = FALSE /\ (j \in body[k + 1]) = FALSE
        BY <2>4, <3>3 DEF Bit
      <4> QED
        BY <4>1
    <3> QED
      BY <3>2, <3>3
  <2> QED
    BY <2>2, <2>3, <2>5
<1>6. r[0] = f[8 * k] /\ r[8] = f[8 * (k + 1)] /\ f[8 * k] \in Word
  <2>1. 8 * k + 0 = 8 * k /\ 8 * k + 8 = 8 * (k + 1) /\ 8 * k \in 0 .. 8 * n
    BY <1>1, <1>2
  <2> QED
    BY <1>3, <1>4, <2>1
<1> QED
  BY <1>1, <1>5, <1>6, EightBits

(* Wherever the pieces begin and end, crc32_update goes on with the        *)
(* packer's register.                                                      *)
LEMMA PieceTurns ==
  ASSUME NEW body \in Seq(Byte), NEW f, Turns(f, 8 * Len(body), body),
         NEW t \in Nat, NEW l \in Nat, t + l <= Len(body)
  PROVE  crc32_update(f[8 * t], [k \in 1 .. l |-> body[t + k]]) = f[8 * (t + l)]
<1>1. Len(body) \in Nat
  BY LenProperties
<1>2. PICK data : data = [k \in 1 .. l |-> body[t + k]]
  OBVIOUS
<1>3. Len(data) = l /\ \A k \in 1 .. l : data[k] = body[t + k]
  BY <1>2
<1> DEFINE Recursive(g) == g = [i \in 0 .. l |-> IF i = 0 THEN f[8 * t] ELSE Step(g[i - 1], data[i])]
<1>4. crc32_update(f[8 * t], data) = (CHOOSE g : Recursive(g))[l]
  BY <1>3 DEF crc32_update
<1>5. Recursive([i \in 0 .. l |-> f[8 * (t + i)]])
  <2>1. PICK h : h = [i \in 0 .. l |-> f[8 * (t + i)]]
    OBVIOUS
  <2>2. ASSUME NEW i \in 0 .. l PROVE h[i] = IF i = 0 THEN f[8 * t] ELSE Step(h[i - 1], data[i])
    <3>1. CASE i = 0
      <4>1. 8 * (t + i) = 8 * t
        BY <3>1
      <4> QED
        BY <2>1, <3>1, <4>1
    <3>2. CASE i # 0
      <4>1. /\ i - 1 \in 0 .. l /\ i \in 1 .. l /\ t + (i - 1) \in 0 .. Len(body) - 1
            /\ (t + (i - 1)) + 1 = t + i
        BY <1>1, <3>2
      <4>2. Step(f[8 * (t + (i - 1))], body[t + i]) = f[8 * (t + i)]
        BY <4>1, ByteTurns
      <4> QED
        BY <1>3, <2>1, <3>2, <4>1, <4>2
    <3> QED
      BY <3>1, <3>2
  <2> QED
    BY <2>1, <2>2
<1>6. PICK g : g = CHOOSE r : Recursive(r)
  OBVIOUS
<1>7. Recursive(g)
  BY <1>5, <1>6
<1>8. g[0] = f[8 * t] /\ \A i \in 1 .. l : g[i] = Step(g[i - 1], data[i])
  <2>1. 0 \in 0 .. l /\ \A i \in 1 .. l : i \in 0 .. l /\ i # 0
    OBVIOUS
  <2> QED
    BY <1>7, <2>1
<1> DEFINE T == {i \in 0 .. l : g[i] = f[8 * (t + i)]}
<1>9. \A i \in 0 .. l : i \in T
  <2>1. 0 \in T
    <3>1. 8 * (t + 0) = 8 * t /\ 0 \in 0 .. l
      OBVIOUS
    <3> QED
      BY <1>8, <3>1
  <2>2. ASSUME NEW i \in 0 .. l - 1, i \in T PROVE i + 1 \in T
    <3>1. /\ i + 1 \in 1 .. l /\ (i + 1) - 1 = i /\ t + i \in 0 .. Len(body) - 1
          /\ (t + i) + 1 = t + (i + 1)
      BY <1>1
    <3>2. g[i + 1] = Step(f[8 * (t + i)], body[t + (i + 1)])
      BY <1>3, <1>8, <2>2, <3>1
    <3>3. Step(f[8 * (t + i)], body[t + (i + 1)]) = f[8 * (t + (i + 1))]
      BY <3>1, ByteTurns
    <3> QED
      BY <3>1, <3>2, <3>3
  <2> HIDE DEF T
  <2> QED
    BY <2>1, <2>2, UpTo
<1>10. l \in T
  <2> HIDE DEF T
  <2> QED
    BY <1>9
<1> QED
  BY <1>2, <1>4, <1>6, <1>10

(***************************************************************************)
(* Bursts: two bodies that differ in no more than 32 bits next to each     *)
(* other have different CRC-32s.  The registers differ in their lowest j   *)
(* bits at most when j bits before the end of the burst are left: from the *)
(* end backwards, because the polynomial has the highest bit.  So they do  *)
(* not differ at all: from the beginning forwards, a bit that differed     *)
(* would make the highest bits of the registers differ.                    *)
(***************************************************************************)
Agree(u, v, j) == \A x \in j .. 31 : x \in u <=> x \in v

LEMMA Backwards ==
  ASSUME NEW u \in Word, NEW v \in Word, NEW a \in BOOLEAN, NEW b \in BOOLEAN, NEW j \in 0 .. 31,
         Agree(Divide(u, a), Divide(v, b), j)
  PROVE  /\ Agree(u, v, j + 1)
         /\ (0 \in u) # a <=> (0 \in v) # b
<1>1. PICK d \in Word : /\ d = Divide(u, a)
                        /\ \A x \in 0 .. 31 : x \in d <=> (x + 1 \in u) # ((0 \in u) # a /\ x \in Taps)
  <2>1. /\ Divide(u, a) \in Word
        /\ \A x \in 0 .. 31 : x \in Divide(u, a) <=> (x + 1 \in u) # ((0 \in u) # a /\ x \in Taps)
    BY DivideBits
  <2> QED
    BY <2>1
<1>2. PICK e \in Word : /\ e = Divide(v, b)
                        /\ \A x \in 0 .. 31 : x \in e <=> (x + 1 \in v) # ((0 \in v) # b /\ x \in Taps)
  <2>1. /\ Divide(v, b) \in Word
        /\ \A x \in 0 .. 31 : x \in Divide(v, b) <=> (x + 1 \in v) # ((0 \in v) # b /\ x \in Taps)
    BY DivideBits
  <2> QED
    BY <2>1
<1>3. \A x \in j .. 31 : x \in 0 .. 31 /\ (x \in d <=> x \in e)
  BY <1>1, <1>2 DEF Agree
<1>4. (0 \in u) # a <=> (0 \in v) # b
  <2>1. 31 \in j .. 31 /\ 31 \in 0 .. 31 /\ 31 + 1 \notin u /\ 31 + 1 \notin v
    BY DEF Word
  <2> QED
    BY <1>1, <1>2, <1>3, <2>1, TheTaps
<1>5. ASSUME NEW x \in j + 1 .. 31 PROVE x \in u <=> x \in v
  <2>1. x - 1 \in j .. 31 /\ (x - 1) + 1 = x
    OBVIOUS
  <2>2. x - 1 \in 0 .. 31 /\ (x - 1 \in d <=> x - 1 \in e)
    BY <1>3, <2>1
  <2>3. /\ x - 1 \in d <=> (x \in u) # ((0 \in u) # a /\ x - 1 \in Taps)
        /\ x - 1 \in e <=> (x \in v) # ((0 \in v) # b /\ x - 1 \in Taps)
    BY <1>1, <1>2, <2>1, <2>2
  <2> QED
    BY <1>4, <2>2, <2>3
<1> QED
  BY <1>4, <1>5 DEF Agree

(* The same for the registers of two bodies. *)
LEMMA BitBack ==
  ASSUME NEW body, NEW other, NEW n \in Nat, NEW f, NEW g, Turns(f, n, body), Turns(g, n, other),
         NEW k \in 1 .. n, NEW j \in 0 .. 31, Agree(f[k], g[k], j)
  PROVE  /\ f[k - 1] \in Word /\ g[k - 1] \in Word
         /\ Agree(f[k - 1], g[k - 1], j + 1)
         /\ (0 \in f[k - 1] <=> 0 \in g[k - 1]) => (Bit(body, k) <=> Bit(other, k))
         /\ j = 0 /\ (Bit(body, k) <=> Bit(other, k)) => Agree(f[k - 1], g[k - 1], 0)
<1>1. k - 1 \in 0 .. n
  OBVIOUS
<1>2. /\ f[k - 1] \in Word /\ f[k] = Divide(f[k - 1], Bit(body, k))
      /\ g[k - 1] \in Word /\ g[k] = Divide(g[k - 1], Bit(other, k))
  BY <1>1 DEF Turns
<1>3. PICK u \in Word, v \in Word : u = f[k - 1] /\ v = g[k - 1]
  BY <1>2
<1>4. PICK a \in BOOLEAN : a <=> Bit(body, k)
  OBVIOUS
<1>5. PICK b \in BOOLEAN : b <=> Bit(other, k)
  OBVIOUS
<1>6. f[k] = Divide(u, a)
  <2>1. CASE a
    <3>1. Bit(body, k) = TRUE /\ a = TRUE
      BY <1>4, <2>1 DEF Bit
    <3> QED
      BY <1>2, <1>3, <3>1
  <2>2. CASE ~a
    <3>1. Bit(body, k) = FALSE /\ a = FALSE
      BY <1>4, <2>2 DEF Bit
    <3> QED
      BY <1>2, <1>3, <3>1
  <2> QED
    BY <2>1, <2>2
<1>7. g[k] = Divide(v, b)
  <2>1. CASE b
    <3>1. Bit(other, k) = TRUE /\ b = TRUE
      BY <1>5, <2>1 DEF Bit
    <3> QED
      BY <1>2, <1>3, <3>1
  <2>2. CASE ~b
    <3>1. Bit(other, k) = FALSE /\ b = FALSE
      BY <1>5, <2>2 DEF Bit
    <3> QED
      BY <1>2, <1>3, <3>1
  <2> QED
    BY <2>1, <2>2
<1>8. Agree(u, v, j + 1) /\ ((0 \in u) # a <=> (0 \in v) # b)
  BY <1>6, <1>7, Backwards
<1>9. j = 0 /\ (a <=> b) => Agree(u, v, 0)
  <2> SUFFICES ASSUME j = 0, a <=> b, NEW x \in 0 .. 31 PROVE x \in u <=> x \in v
    BY DEF Agree
  <2>1. x = 0 \/ x \in j + 1 .. 31
    OBVIOUS
  <2> QED
    BY <1>8, <2>1 DEF Agree
<1> QED
  BY <1>3, <1>4, <1>5, <1>8, <1>9

LEMMA SameRegister ==
  ASSUME NEW u \in Word, NEW v \in Word
  PROVE  /\ Agree(u, v, 0) => u = v
         /\ Xor(u, Ones) = Xor(v, Ones) => u = v
<1>1. Agree(u, v, 0) => u = v
  BY BitsOf DEF Agree
<1>2. Ones \in Word /\ \A x \in 0 .. 31 : x \in Ones
  BY DEF Ones, Word
<1>3. ASSUME Xor(u, Ones) = Xor(v, Ones), NEW x \in 0 .. 31 PROVE x \in u <=> x \in v
  <2>1. /\ x \in Xor(u, Ones) <=> (x \in u) # (x \in Ones)
        /\ x \in Xor(v, Ones) <=> (x \in v) # (x \in Ones)
    BY <1>2, XorBits
  <2> QED
    BY <1>2, <1>3, <2>1
<1> QED
  BY <1>1, <1>3, BitsOf

LEMMA Bursts ==
  ASSUME NEW body \in Seq(Byte), NEW other \in Seq(Byte), Len(body) = Len(other), NEW p \in Nat,
         \A k \in 1 .. 8 * Len(body) : k \notin p + 1 .. p + 32 => (Bit(body, k) <=> Bit(other, k)),
         Packed(body) = Packed(other)
  PROVE  body = other
<1>1. PICK l \in Nat : l = Len(body) /\ l = Len(other)
  BY LenProperties
<1>2. PICK n \in Nat : n = 8 * l
  OBVIOUS
<1>3. PICK f : f = Register(body) /\ Turns(f, n, body)
  BY <1>1, <1>2, RegisterTurns
<1>4. PICK g : g = Register(other) /\ Turns(g, n, other)
  BY <1>1, <1>2, RegisterTurns
<1>5. \A k \in 0 .. n : f[k] \in Word /\ g[k] \in Word
  BY <1>3, <1>4 DEF Turns
<1>6. f[n] = g[n]
  <2>1. Xor(f[n], Ones) = Xor(g[n], Ones)
    BY <1>1, <1>2, <1>3, <1>4 DEF Packed
  <2>2. n \in 0 .. n
    OBVIOUS
  <2> QED
    BY <1>5, <2>1, <2>2, SameRegister
<1>7. PICK z \in 0 .. n : z <= p + 32 /\ (z = n \/ z = p + 32)
  <2>1. CASE n <= p + 32
    BY <2>1
  <2>2. CASE n > p + 32
    BY <2>2
  <2> QED
    BY <2>1, <2>2
<1> DEFINE SameBit(k) == Bit(body, k) <=> Bit(other, k)
<1>8. \A k \in 1 .. n : k \notin p + 1 .. p + 32 => SameBit(k)
  BY <1>1, <1>2
<1>9. ASSUME NEW k \in 1 .. n, NEW j \in 0 .. 31, Agree(f[k], g[k], j)
      PROVE  /\ Agree(f[k - 1], g[k - 1], j + 1)
             /\ (0 \in f[k - 1] <=> 0 \in g[k - 1]) => SameBit(k)
             /\ j = 0 /\ SameBit(k) => Agree(f[k - 1], g[k - 1], 0)
  BY <1>3, <1>4, <1>9, BitBack
<1> HIDE DEF SameBit
<1>10. Agree(f[z], g[z], 0)
  <2> DEFINE T == {i \in 0 .. n - z : Agree(f[n - i], g[n - i], 0)}
  <2>1. 0 \in T
    <3>1. n - 0 = n /\ 0 \in 0 .. n - z
      OBVIOUS
    <3> QED
      BY <1>6, <3>1 DEF Agree
  <2>2. ASSUME NEW i \in 0 .. (n - z) - 1, i \in T PROVE i + 1 \in T
    <3>1. /\ n - i \in 1 .. n /\ (n - i) - 1 = n - (i + 1) /\ n - i \notin p + 1 .. p + 32
          /\ i + 1 \in 0 .. n - z /\ 0 \in 0 .. 31
      BY <1>7
    <3>2. Agree(f[n - (i + 1)], g[n - (i + 1)], 0)
      BY <1>8, <1>9, <2>2, <3>1
    <3> QED
      BY <3>1, <3>2
  <2>3. PICK m \in Nat : m = n - z
    OBVIOUS
  <2>4. m \in T
    <3>1. m \in 0 .. m /\ \A i \in 0 .. m - 1 : i \in T => i + 1 \in T
      BY <2>2, <2>3
    <3> HIDE DEF T
    <3> QED
      BY <2>1, <3>1, UpTo
  <2>5. n - m = z
    BY <2>3
  <2> QED
    BY <2>4, <2>5
<1>11. PICK m \in 0 .. 32 : m <= z /\ z - m <= p
  <2>1. CASE z <= 32
    BY <2>1
  <2>2. CASE z > 32
    BY <1>7, <2>2
  <2> QED
    BY <2>1, <2>2
<1>12. \A j \in 0 .. m : Agree(f[z - j], g[z - j], j)
  <2> DEFINE T == {j \in 0 .. m : Agree(f[z - j], g[z - j], j)}
  <2>1. 0 \in T
    <3>1. z - 0 = z /\ 0 \in 0 .. m
      OBVIOUS
    <3> QED
      BY <1>10, <3>1
  <2>2. ASSUME NEW j \in 0 .. m - 1, j \in T PROVE j + 1 \in T
    <3>1. z - j \in 1 .. n /\ j \in 0 .. 31 /\ (z - j) - 1 = z - (j + 1) /\ j + 1 \in 0 .. m
      BY <1>11
    <3> QED
      BY <1>9, <2>2, <3>1
  <2>3. \A j \in 0 .. m : j \in T
    <3> HIDE DEF T
    <3> QED
      BY <2>1, <2>2, UpTo
  <2> QED
    BY <2>3
<1>13. \A k \in 1 .. n : f[k - 1] = g[k - 1] /\ SameBit(k) => f[k] = g[k]
  <2> SUFFICES ASSUME NEW k \in 1 .. n, f[k - 1] = g[k - 1], SameBit(k) PROVE f[k] = g[k]
    OBVIOUS
  <2>1. f[k] = Divide(f[k - 1], Bit(body, k)) /\ g[k] = Divide(g[k - 1], Bit(other, k))
    BY <1>3, <1>4 DEF Turns
  <2>2. Bit(body, k) = Bit(other, k)
    BY DEF SameBit, Bit
  <2> QED
    BY <2>1, <2>2
<1>14. \A k \in 0 .. z : f[k] = g[k]
  <2> DEFINE T == {k \in 0 .. z : f[k] = g[k]}
  <2>1. 0 \in T
    BY <1>3, <1>4 DEF Turns
  <2>2. ASSUME NEW k \in 0 .. z - 1, k \in T PROVE k + 1 \in T
    <3>1. k + 1 \in 1 .. n /\ (k + 1) - 1 = k /\ k + 1 \in 0 .. z
      OBVIOUS
    <3>2. CASE k + 1 <= p
      <4>1. k + 1 \notin p + 1 .. p + 32
        BY <3>2
      <4> QED
        BY <1>8, <1>13, <2>2, <3>1, <4>1
    <3>3. CASE k + 1 > p
      <4>1. z - (k + 1) \in 0 .. m /\ z - (k + 1) \in 0 .. 31 /\ z - (z - (k + 1)) = k + 1
        BY <1>11, <3>3, <1>7
      <4>2. Agree(f[k + 1], g[k + 1], z - (k + 1))
        BY <1>12, <4>1
      <4>3. SameBit(k + 1)
        BY <1>9, <2>2, <3>1, <4>1, <4>2
      <4> QED
        BY <1>13, <2>2, <3>1, <4>3
    <3> QED
      BY <3>2, <3>3
  <2>3. \A k \in 0 .. z : k \in T
    <3> HIDE DEF T
    <3> QED
      BY <2>1, <2>2, UpTo
  <2> QED
    BY <2>3
<1>15. \A k \in 1 .. n : SameBit(k)
  <2> SUFFICES ASSUME NEW k \in 1 .. n PROVE SameBit(k)
    OBVIOUS
  <2>1. CASE k <= z
    <3>1. k - 1 \in 0 .. z /\ k \in 0 .. z
      BY <2>1
    <3>2. f[k] = g[k] /\ f[k - 1] = g[k - 1]
      BY <1>14, <3>1
    <3>3. Agree(f[k], g[k], 0) /\ 0 \in 0 .. 31
      BY <3>2 DEF Agree
    <3> QED
      BY <1>9, <3>2, <3>3
  <2>2. CASE k > z
    <3>1. k \notin p + 1 .. p + 32
      BY <1>7, <2>2
    <3> QED
      BY <1>8, <3>1
  <2> QED
    BY <2>1, <2>2
<1>16. ASSUME NEW i \in 1 .. l PROVE body[i] = other[i]
  <2>1. body[i] \in Byte /\ other[i] \in Byte
    BY <1>1, ElementOfSeq
  <2>2. ASSUME NEW j \in 0 .. 7 PROVE j \in body[i] <=> j \in other[i]
    <3>1. i - 1 \in Nat /\ (i - 1) + 1 = i /\ 8 * (i - 1) + j + 1 \in 1 .. n
      BY <1>2
    <3>2. /\ Bit(body, 8 * (i - 1) + j + 1) <=> j \in body[i]
          /\ Bit(other, 8 * (i - 1) + j + 1) <=> j \in other[i]
      BY <3>1, BitIs
    <3> QED
      BY <1>15, <3>1, <3>2 DEF SameBit
  <2> QED
    BY <2>1, <2>2 DEF Byte
<1> QED
  BY <1>1, <1>16, SeqEqual

(***************************************************************************)
(* CardCheck: what is in the partition are bytes, whatever goes wrong.     *)
(***************************************************************************)
Bytes == [0 .. PartLen - 1 -> Byte]

LEMMA FixedBytes == Header \in Byte /\ Erased \in Byte /\ Garbage \in Byte
BY CheckAssumption, CellAssumption DEF Byte

LEMMA TornBytes == \A m, new \in Bytes : Card!Torn(m, new) \subseteq Bytes
<1> SUFFICES ASSUME NEW m \in Bytes, NEW new \in Bytes, NEW t \in Card!Torn(m, new) PROVE t \in Bytes
  OBVIOUS
<1>1. /\ DOMAIN m = 0 .. PartLen - 1
      /\ \A i \in 0 .. PartLen - 1 : m[i] \in Byte /\ new[i] \in Byte
  BY DEF Bytes
<1> DEFINE touched == {i \in DOMAIN m : m[i] # new[i]}
<1>2. PICK how : t = [i \in DOMAIN m |->
                        IF i \notin touched THEN m[i]
                        ELSE CASE how[i] = "kept"    -> m[i]
                               [] how[i] = "done"    -> new[i]
                               [] OTHER              -> Garbage]
  BY DEF Card!Torn
<1>3. ASSUME NEW i \in 0 .. PartLen - 1
      PROVE  (IF i \notin touched THEN m[i]
              ELSE CASE how[i] = "kept"    -> m[i]
                     [] how[i] = "done"    -> new[i]
                     [] OTHER              -> Garbage) \in Byte
  <2> HIDE DEF touched
  <2>1. (CASE how[i] = "kept"    -> m[i]
           [] how[i] = "done"    -> new[i]
           [] OTHER              -> Garbage) \in {m[i], new[i], Garbage}
    OBVIOUS
  <2> QED
    BY <1>1, <2>1, FixedBytes
<1> QED
  BY <1>1, <1>2, <1>3 DEF Bytes

LEMMA WrittenBytes ==
  ASSUME NEW m \in Bytes, NEW f \in Seq(Byte), NEW c \in Nat, NEW n \in Nat, n >= 1, c + n <= Len(f)
  PROVE  Card!WriteDone(m, SubSeq(f, c + 1, c + n), c) \in Bytes
<1>1. Len(f) \in Nat /\ \A i \in 1 .. Len(f) : f[i] \in Byte
  BY LenProperties, ElementOfSeq
<1>2. PICK piece : piece = SubSeq(f, c + 1, c + n)
  OBVIOUS
<1>3. Len(piece) = n /\ \A i \in 1 .. n : piece[i] \in Byte
  <2>1. PICK u \in Int, v \in Int : u = c + 1 /\ v = c + n
    OBVIOUS
  <2>2. \A i \in u .. v : f[i] \in Byte
    BY <1>1, <2>1
  <2>3. /\ Len(SubSeq(f, u, v)) = IF u <= v THEN v - u + 1 ELSE 0
        /\ \A i \in 1 .. v - u + 1 : SubSeq(f, u, v)[i] = f[u + i - 1]
    BY <2>2, SubSeqProperties
  <2>4. u <= v /\ v - u + 1 = n /\ \A i \in 1 .. n : u + i - 1 \in u .. v
    BY <2>1
  <2>5. piece = SubSeq(f, u, v)
    BY <1>2, <2>1
  <2> QED
    BY <2>2, <2>3, <2>4, <2>5
<1>4. DOMAIN m = 0 .. PartLen - 1 /\ \A i \in 0 .. PartLen - 1 : m[i] \in Byte
  BY DEF Bytes
<1>5. PICK region : region = Card!Cells(m, c, n)
  OBVIOUS
<1>6. PICK data : data = [i \in region |-> piece[i - c + 1]]
  OBVIOUS
<1>7. Card!WriteDone(m, piece, c) = Card!Programmed(m, data, region)
  BY <1>3, <1>5, <1>6 DEF Card!WriteDone
<1>8. Card!Programmed(m, data, region) =
        [i \in 0 .. PartLen - 1 |-> IF i \in region THEN Card!Burn(m[i], data[i]) ELSE m[i]]
  BY <1>4 DEF Card!Programmed
<1>9. ASSUME NEW i \in 0 .. PartLen - 1
      PROVE  (IF i \in region THEN Card!Burn(m[i], data[i]) ELSE m[i]) \in Byte
  <2>1. ASSUME i \in region PROVE data[i] \in Byte
    <3>1. i \in Int /\ c <= i /\ i < c + n
      BY <1>4, <1>5, <2>1, CheckAssumption DEF Card!Cells
    <3>2. i - c + 1 \in 1 .. n
      BY <3>1
    <3> QED
      BY <1>3, <1>6, <2>1, <3>2
  <2> QED
    BY <1>4, <2>1, FixedBytes DEF Card!Burn
<1>10. Card!WriteDone(m, piece, c) \in Bytes
  BY <1>7, <1>8, <1>9 DEF Bytes
<1> QED
  BY <1>2, <1>10

LEMMA BytesStay == part \in Bytes /\ CardInv /\ Card!Update => part' \in Bytes
<1> SUFFICES ASSUME part \in Bytes, CardInv, Card!Update PROVE part' \in Bytes
  OBVIOUS
<1>1. Card!Blank \in Bytes
  BY FixedBytes DEF Card!Blank, Bytes
<1>2. CASE part' = part
  BY <1>2
<1>3. ASSUME Card!Erase PROVE part' \in Bytes
  <2>1. part' = Card!Blank \/ part' \in Card!Torn(part, Card!Blank)
    BY <1>3 DEF Card!Erase
  <2> QED
    BY <1>1, <2>1, TornBytes
<1>4. ASSUME Card!CopyPiece PROVE part' \in Bytes
  <2>1. PICK n \in 1 .. Card!Smaller(FirmBufSize, Len(file) - copied) :
          \/ part' = Card!WriteDone(part, SubSeq(file, copied + 1, copied + n), copied)
          \/ part' \in Card!WriteUnnoticed(part, SubSeq(file, copied + 1, copied + n), copied, PageLen)
          \/ part' \in Card!WriteFailed(part, SubSeq(file, copied + 1, copied + n), copied, PageLen)
    BY <1>4 DEF Card!CopyPiece
  <2>2. step = "copy"
    BY <1>4 DEF Card!CopyPiece
  <2>3. PICK f \in Seq(Byte), c \in Nat, l \in Nat : f = file /\ c = copied /\ l = Len(f) /\ c < l
    BY <2>2, LenProperties DEF CardInv, CardType
  <2>4. n \in Nat /\ n >= 1 /\ c + n <= l
    <3>1. PICK m : m = Card!Smaller(FirmBufSize, l - c) /\ m \in Int /\ m <= l - c
      BY <2>3, CheckAssumption DEF Card!Smaller
    <3>2. n \in 1 .. m
      BY <2>1, <2>3, <3>1
    <3> QED
      BY <2>3, <3>1, <3>2
  <2>5. PICK whole \in Bytes : whole = Card!WriteDone(part, SubSeq(file, copied + 1, copied + n), copied)
    BY <2>3, <2>4, WrittenBytes
  <2>6. CASE part' = whole
    BY <2>6
  <2>7. CASE part' \in Card!Torn(part, whole)
    BY <2>7, TornBytes
  <2>8. CASE part' \in Card!WriteUnnoticed(part, SubSeq(file, copied + 1, copied + n), copied, PageLen)
    <3>1. PICK torn \in Card!Torn(part, whole) :
            part' = [i \in DOMAIN part |-> IF i \in Card!FirstPage(part, copied, PageLen) THEN torn[i] ELSE whole[i]]
      BY <2>5, <2>8 DEF Card!WriteUnnoticed
    <3>2. torn \in Bytes
      BY TornBytes
    <3> QED
      BY <3>1, <3>2 DEF Bytes
  <2> QED
    BY <2>1, <2>5, <2>6, <2>7, <2>8 DEF Card!WriteFailed
<1>5. ASSUME Card!Stat \/ Card!Open \/ Card!ReadFails PROVE part' = part
  BY <1>5 DEF Card!Stat, Card!Open, Card!ReadFails, Card!GiveUp
<1> QED
  BY <1>2, <1>3, <1>4, <1>5 DEF Card!Update

(***************************************************************************)
(* The check goes over what nothing changes any more: sdcard_update is     *)
(* over.  Between two pieces the CRC-32 is the packer's register after the *)
(* bytes that were read, however the pieces cut them.                      *)
(***************************************************************************)
CheckType == part \in Bytes /\ firm \in Seq(Byte) /\ firm_off \in 0 .. PartLen

Reading ==
  /\ Admitted /\ total_length \in 0 .. Len(firm) /\ (total_length = 0 \/ total_length < Len(firm))
  /\ crc = Register(Body)[8 * total_length]

Accepted == Admitted /\ Fits /\ Packed(Body) = body_crc32

CheckInv ==
  /\ CheckType /\ body_crc32 = Packed(firm)
  /\ step # "done" => pc = "start"
  /\ pc \in {"start", "loop", "done"} /\ (pc # "done" => ret # "ok")
  /\ pc = "start" => total_length = 0
  /\ pc = "loop" => Reading
  /\ pc = "done" => (ret = "ok" <=> Accepted)

LEMMA PackagePlaced ==
  ASSUME NEW body \in Seq(Byte), NEW at \in Nat, NEW mask \in Seq(Byte), NEW off \in Nat
  PROVE  InPart(Damaged(body, at, mask), off) \in Bytes
<1>1. PICK d : d = Damaged(body, at, mask)
  OBVIOUS
<1>2. \A k \in DOMAIN d : d[k] \in Byte
  <2>1. /\ DOMAIN d = DOMAIN body
        /\ \A k \in DOMAIN body :
             d[k] = IF k - at \in DOMAIN mask THEN Xor(body[k], mask[k - at]) ELSE body[k]
    BY <1>1 DEF Damaged
  <2>2. /\ \A k \in DOMAIN body : body[k] \in Byte
        /\ \A k \in DOMAIN mask : mask[k] \in Byte
    BY ElementOfSeq, LenProperties
  <2>3. \A u, v \in Byte : Xor(u, v) \in Byte
    BY DEF Xor, Byte
  <2> QED
    BY <2>1, <2>2, <2>3
<1>3. ASSUME NEW k \in 0 .. PartLen - 1
      PROVE  (CASE k = HeaderOff(off)        -> Header
                [] k - off + 1 \in DOMAIN d  -> d[k - off + 1]
                [] OTHER                     -> 0 .. 7) \in Byte
  <2>1. 0 .. 7 \in Byte /\ Header \in Byte
    BY FixedBytes DEF Byte
  <2> QED
    BY <1>2, <2>1
<1> QED
  BY <1>1, <1>3 DEF InPart, Bytes

LEMMA CheckStarts == NoCard \/ WithCard => CheckInv
<1>1. PartLen \in Nat /\ PartLen >= 1
  BY CheckAssumption
<1>2. ASSUME NoCard PROVE CheckInv
  <2>1. /\ Init /\ step = "done" /\ InitCheck
    BY <1>2 DEF NoCard, Init
  <2>2. firm \in Seq(Byte) /\ firm_off \in 0 .. PartLen /\ body_crc32 = Packed(firm)
    BY <2>1, CheckAssumption DEF Init
  <2>3. part \in Bytes
    <3>1. PICK mask \in Masks \cup {<< >>}, at \in 0 .. Len(firm) : part = InPart(Damaged(firm, at, mask), firm_off)
      BY <2>1 DEF Init
    <3>2. mask \in Seq(Byte) /\ at \in Nat /\ firm_off \in Nat
      <4>1. mask \in Seq(Byte)
        BY CheckAssumption, EmptySeq
      <4>2. Len(firm) \in Nat
        BY <2>2, LenProperties
      <4> QED
        BY <1>1, <2>2, <4>1, <4>2
    <3> QED
      BY <2>2, <3>1, <3>2, PackagePlaced
  <2> QED
    BY <2>1, <2>2, <2>3 DEF CheckInv, CheckType, InitCheck
<1>3. ASSUME WithCard PROVE CheckInv
  <2>1. firm \in Seq(Byte) /\ firm_off = 1 /\ body_crc32 = Packed(firm) /\ InitCheck /\ part = Card!Before
    BY <1>3, CardAssumption DEF WithCard, Card!Init
  <2>2. part \in Bytes
    BY <2>1, FixedBytes DEF Bytes, Card!Before
  <2>3. firm_off \in 0 .. PartLen
    BY <1>1, <2>1
  <2> QED
    BY <2>1, <2>2, <2>3 DEF CheckInv, CheckType, InitCheck
<1> QED
  BY <1>2, <1>3

LEMMA BodyIs ==
  ASSUME CheckType, Len(firm) + firm_off <= PartLen
  PROVE  /\ Body \in Seq(Byte) /\ Len(Body) = Len(firm)
         /\ \A k \in 1 .. Len(firm) : Body[k] = part[firm_off + k - 1]
<1>1. PICK n \in Nat, o \in Nat, m \in Nat : n = Len(firm) /\ o = firm_off /\ m = PartLen
  BY CheckAssumption, LenProperties DEF CheckType
<1>2. \A k \in 1 .. n : o + k - 1 \in 0 .. m - 1
  BY <1>1
<1>3. \A k \in 1 .. n : part[o + k - 1] \in Byte
  BY <1>1, <1>2 DEF CheckType, Bytes
<1>4. PICK b : b = [k \in 1 .. n |-> part[o + k - 1]]
  OBVIOUS
<1>5. b \in Seq(Byte) /\ Len(b) = n /\ \A k \in 1 .. n : b[k] = part[o + k - 1]
  BY <1>3, <1>4
<1>6. Body = b
  BY <1>1, <1>4 DEF Body
<1> QED
  BY <1>1, <1>5, <1>6

LEMMA StartKeeps == CheckInv /\ Start /\ step = "done" /\ UNCHANGED <<firm, body_crc32, part, firm_off, step>> => CheckInv'
<1> SUFFICES ASSUME CheckInv, Start, step = "done", UNCHANGED <<firm, body_crc32, part, firm_off, step>>
             PROVE  CheckInv'
  OBVIOUS
<1>1. /\ CheckType' /\ (body_crc32 = Packed(firm))' /\ Admitted' = Admitted /\ Accepted' = Accepted /\ Body' = Body
      /\ Len(firm) \in Nat /\ step' = "done"
  BY LenProperties DEF CheckInv, CheckType, Admitted, Accepted, Fits, Body, HeaderOff
<1>2. pc = "start" /\ total_length = 0 /\ ret # "ok"
  BY DEF Start, CheckInv
<1>3. CASE ~Admitted /\ Return("error")
  BY <1>1, <1>2, <1>3 DEF Return, CheckInv, Accepted
<1>4. CASE Admitted /\ pc' = "loop" /\ crc' = crc32_init /\ UNCHANGED <<total_length, ret>>
  <2>1. Body \in Seq(Byte)
    BY <1>4, BodyIs DEF CheckInv, Admitted
  <2>2. Register(Body)[0] = Ones /\ 8 * 0 = 0
    BY <2>1, RegisterTurns DEF Turns
  <2>3. total_length' = 0 /\ crc' = Ones
    BY <1>2, <1>4 DEF crc32_init
  <2>4. Reading'
    <3>1. Register(Body') = Register(Body)
      BY <1>1
    <3>2. (Register(Body)[8 * total_length])' = Register(Body')[8 * total_length']
      OBVIOUS
    <3>3. crc' = (Register(Body)[8 * total_length])'
      BY <2>2, <2>3, <3>1, <3>2
    <3>4. (total_length \in 0 .. Len(firm))'
      BY <1>1, <2>3
    <3> QED
      BY <1>1, <1>4, <2>3, <3>3, <3>4 DEF Reading
  <2> QED
    BY <1>1, <1>2, <1>4, <2>4 DEF CheckInv
<1> QED
  BY <1>3, <1>4 DEF Start

LEMMA LoopKeeps == CheckInv /\ Loop /\ step = "done" /\ UNCHANGED <<firm, body_crc32, part, firm_off, step>> => CheckInv'
<1> SUFFICES ASSUME CheckInv, Loop, step = "done", UNCHANGED <<firm, body_crc32, part, firm_off, step>>
             PROVE  CheckInv'
  OBVIOUS
<1>1. /\ CheckType' /\ (body_crc32 = Packed(firm))' /\ Admitted' = Admitted /\ Accepted' = Accepted /\ Body' = Body
      /\ CheckType /\ step' = "done"
  BY DEF CheckInv, CheckType, Admitted, Accepted, Fits, Body, HeaderOff
<1>2. pc = "loop" /\ ret # "ok" /\ Reading /\ Admitted
  BY DEF Loop, CheckInv, Reading
<1>3. PICK n \in Nat, t \in Nat, o \in Nat, m \in Nat :
        /\ n = Len(firm) /\ t = total_length /\ o = firm_off /\ m = PartLen
        /\ t <= n /\ (t = 0 \/ t < n) /\ n + o <= m
  <2>1. Len(firm) \in Nat /\ firm_off \in Nat /\ PartLen \in Nat
    BY <1>1, CheckAssumption, LenProperties DEF CheckType
  <2> QED
    BY <1>2, <2>1 DEF Reading, Admitted
<1>4. PICK b \in Seq(Byte) : b = Body /\ Len(b) = n /\ \A k \in 1 .. n : b[k] = part[o + k - 1]
  BY <1>1, <1>3, BodyIs
<1>5. crc = Register(b)[8 * t] /\ Turns(Register(b), 8 * n, b)
  BY <1>2, <1>3, <1>4, RegisterTurns DEF Reading
<1>6. PICK l \in Nat : l = PieceLen /\ t + l <= n /\ (l = 0 <=> t = n)
  <2>1. PICK s \in Nat : s = FirmBufSize /\ s >= 1
    BY CheckAssumption
  <2>2. PieceLen = IF n - t > s THEN s ELSE n - t
    BY <1>3, <2>1 DEF PieceLen
  <2>3. CASE n - t > s
    <3>1. PieceLen = s
      BY <2>2, <2>3
    <3> QED
      BY <1>3, <2>1, <2>3, <3>1
  <2>4. CASE ~(n - t > s)
    <3>1. PieceLen = n - t /\ n - t \in Nat
      BY <1>3, <2>2, <2>4
    <3> QED
      BY <1>3, <3>1
  <2> QED
    BY <2>3, <2>4
<1>7. ReadFails(l, o + t) <=> n = 0
  BY <1>3, <1>6 DEF ReadFails
<1>8. CASE n = 0
  <2>1. Return("error")
    BY <1>3, <1>6, <1>7, <1>8 DEF Loop
  <2>2. ~Fits
    BY <1>3, <1>8 DEF Fits
  <2> QED
    BY <1>1, <2>1, <2>2 DEF Return, CheckInv, Accepted
<1>9. CASE n # 0
  <2>1. PICK data : data = [k \in 1 .. l |-> part[o + t + k - 1]]
    OBVIOUS
  <2>2. PICK now : now = crc32_update(crc, data)
    OBVIOUS
  <2>3. /\ crc' = now /\ total_length' = t + l
        /\ IF total_length' < n
           THEN UNCHANGED <<pc, ret>>
           ELSE pc' = "done" /\ ret' = Verdict(crc32_final(now))
    BY <1>3, <1>6, <1>7, <1>9, <2>1, <2>2 DEF Loop
  <2>4. now = Register(b)[8 * (t + l)]
    <3>1. \A k \in 1 .. l : t + k \in 1 .. n /\ o + (t + k) - 1 = o + t + k - 1
      BY <1>3, <1>6
    <3>2. data = [k \in 1 .. l |-> b[t + k]]
      BY <1>4, <2>1, <3>1
    <3>3. PICK f : f = Register(b) /\ Turns(f, 8 * Len(b), b)
      BY <1>4, <1>5
    <3>4. crc32_update(f[8 * t], [k \in 1 .. l |-> b[t + k]]) = f[8 * (t + l)]
      <4>1. t \in Nat /\ l \in Nat /\ t + l <= Len(b) /\ b \in Seq(Byte)
        BY <1>4, <1>6
      <4> QED
        BY <3>3, <4>1, PieceTurns
    <3> QED
      BY <1>5, <2>2, <3>2, <3>3, <3>4
  <2>5. CASE t + l < n
    <3>1. pc' = "loop" /\ ret' = ret
      BY <1>2, <2>3, <2>5
    <3>2. Reading'
      <4>1. (Register(Body)[8 * total_length])' = Register(b)[8 * (t + l)]
        BY <1>1, <1>4, <2>3
      <4>2. (total_length \in 0 .. Len(firm))' /\ (total_length < Len(firm))'
        BY <1>3, <1>6, <2>3, <2>5
      <4> QED
        BY <1>1, <1>2, <2>3, <2>4, <4>1, <4>2 DEF Reading
    <3> QED
      BY <1>1, <1>2, <3>1, <3>2 DEF CheckInv
  <2>6. CASE ~(t + l < n)
    <3>1. t + l = n /\ Fits
      BY <1>3, <1>6, <1>9, <2>6 DEF Fits
    <3>2. pc' = "done" /\ ret' = Verdict(crc32_final(now))
      BY <2>3, <2>6
    <3>3. crc32_final(now) = Packed(Body)
      BY <1>4, <2>4, <3>1 DEF crc32_final, Packed
    <3>4. ret' = "ok" <=> Accepted
      BY <1>2, <3>1, <3>2, <3>3 DEF Verdict, Accepted
    <3> QED
      BY <1>1, <3>2, <3>4 DEF CheckInv
  <2> QED
    BY <2>5, <2>6
<1> QED
  BY <1>8, <1>9

LEMMA CheckKept == Spec => []CheckInv
<1>1. CardInv /\ CheckInv /\ [CardNext]_allVars => CheckInv'
  <2> SUFFICES ASSUME CardInv, CheckInv, [CardNext]_allVars PROVE CheckInv'
    OBVIOUS
  <2>1. CASE CheckStep
    BY <2>1, StartKeeps, LoopKeeps DEF CheckStep, Check, card
  <2>2. CASE CardStep
    <3>1. /\ step # "done" /\ UNCHANGED check
      BY <2>2 DEF CardStep, Card!Pull, Card!Update, Card!Stat, Card!Open, Card!Erase, Card!CopyPiece, Card!ReadFails
    <3>2. /\ firm' = firm /\ body_crc32' = body_crc32 /\ firm_off' = firm_off /\ pc' = pc
          /\ total_length' = total_length /\ ret' = ret
      BY <3>1 DEF check
    <3>3. pc = "start"
      BY <3>1 DEF CheckInv
    <3>4. part' \in Bytes
      <4>1. part \in Bytes
        BY DEF CheckInv, CheckType
      <4>2. CASE Card!Update
        BY <4>1, <4>2, BytesStay
      <4>3. CASE Card!Pull
        BY <4>1, <4>3 DEF Card!Pull
      <4> QED
        BY <2>2, <4>2, <4>3 DEF CardStep
    <3>5. CheckType'
      BY <3>2, <3>4 DEF CheckInv, CheckType
    <3> QED
      BY <3>2, <3>3, <3>5 DEF CheckInv
  <2>3. CASE UNCHANGED allVars
    <3>1. /\ UNCHANGED <<firm, body_crc32, firm_off, pc, crc, total_length, ret>> /\ part' = part /\ step' = step
      BY <2>3 DEF allVars, check, card
    <3>2. /\ CheckType' = CheckType /\ Reading' = Reading /\ Accepted' = Accepted
      BY <3>1 DEF CheckType, Reading, Accepted, Admitted, Fits, Body, HeaderOff
    <3> QED
      BY <3>1, <3>2 DEF CheckInv
  <2> QED
    BY <2>1, <2>2, <2>3 DEF CardNext
<1> QED
  BY CardKept, CheckStarts, <1>1, PTL DEF Spec

(***************************************************************************)
(* What check_part_firm returns: RT_EOK for exactly the packages with a    *)
(* header, a length that fits and the CRC-32 of the header, for every      *)
(* partition, size of _firm_buf and split into pieces.                     *)
(***************************************************************************)
VerdictIsCrc == pc = "done" => (ret = "ok" <=> Accepted)

THEOREM VerdictIsTheCrc == Spec => []VerdictIsCrc
<1>1. CheckInv => VerdictIsCrc
  BY DEF CheckInv, VerdictIsCrc
<1> QED
  BY CheckKept, <1>1, PTL

(* What was packed is accepted: the table, the order of the bits, the      *)
(* inversions and the split into pieces are together the packer's CRC-32,  *)
(* for every body, partition and size of _firm_buf.                        *)
THEOREM IntactIsAccepted == Spec => []IntactAccepted
<1>1. CheckInv => IntactAccepted
  <2> SUFFICES ASSUME CheckInv, pc = "done", Whole PROVE ret = "ok"
    BY DEF IntactAccepted
  <2>1. Packed(Body) = body_crc32
    BY DEF CheckInv, Whole
  <2>2. Admitted
    <3>1. Len(firm) \in Nat /\ firm_off \in Nat /\ PartLen \in Nat
      BY CheckAssumption, LenProperties DEF CheckInv, CheckType
    <3> QED
      BY <3>1 DEF Whole, Fits, Admitted
  <2> QED
    BY <2>1, <2>2 DEF CheckInv, Accepted, Whole
<1> QED
  BY CheckKept, <1>1, PTL

(* The body in the partition is what was packed, but for 32 bits next to   *)
(* each other at most.                                                     *)
BurstAtMost ==
  \E p \in Nat : \A k \in 1 .. 8 * Len(firm) : k \notin p + 1 .. p + 32 => (Bit(Body, k) <=> Bit(firm, k))

LEMMA BurstRefused == CheckInv /\ BurstAtMost /\ ret = "ok" => Whole
<1> SUFFICES ASSUME CheckInv, BurstAtMost, ret = "ok" PROVE Whole
  OBVIOUS
<1>1. Accepted /\ CheckType /\ body_crc32 = Packed(firm)
  BY DEF CheckInv
<1>2. Body \in Seq(Byte) /\ Len(Body) = Len(firm) /\ firm \in Seq(Byte)
  BY <1>1, BodyIs DEF Accepted, Admitted, CheckType
<1>3. Packed(Body) = Packed(firm)
  BY <1>1 DEF Accepted
<1>4. PICK b \in Seq(Byte) : b = Body
  BY <1>2
<1>5. PICK p \in Nat : \A k \in 1 .. 8 * Len(b) : k \notin p + 1 .. p + 32 => (Bit(b, k) <=> Bit(firm, k))
  BY <1>2, <1>4 DEF BurstAtMost
<1>6. b = firm
  BY <1>2, <1>3, <1>4, <1>5, Bursts
<1> QED
  BY <1>1, <1>4, <1>6 DEF Whole, Accepted, Admitted

(* A body that differs from the one that was packed in no more than 32     *)
(* bits next to each other is refused, wherever they are and whatever left *)
(* it so: a card pulled out before the last four bytes, a cell that was    *)
(* programmed badly, or damage from outside.                               *)
THEOREM BurstsAreRefused == Spec => [](BurstAtMost => OkMeansWhole)
<1>1. CheckInv => (BurstAtMost => OkMeansWhole)
  BY BurstRefused DEF OkMeansWhole
<1> QED
  BY CheckKept, <1>1, PTL

(***************************************************************************)
(* Without a card, when no damage is longer than four bytes, and in a      *)
(* partition where the header is not also a byte of the body               *)
(***************************************************************************)
Apart == HeaderOff(firm_off) \notin firm_off .. firm_off + Len(firm) - 1
FourBytes == \A mask \in Masks : Len(mask) <= 4

DamagedInv ==
  /\ CheckInv /\ step = "done" /\ firm \in Seq(Byte)
  /\ Len(firm) + firm_off <= PartLen => BurstAtMost

LEMMA DamageIsABurst == FourBytes /\ NoCard /\ Apart => DamagedInv
<1> SUFFICES ASSUME FourBytes, NoCard, Apart PROVE DamagedInv
  OBVIOUS
<1>1. CheckInv /\ CheckType /\ step = "done"
  BY CheckStarts DEF CheckInv, NoCard
<1>2. PICK mask \in Masks \cup {<< >>}, at \in 0 .. Len(firm) : part = InPart(Damaged(firm, at, mask), firm_off)
  BY DEF NoCard, Init
<1>3. PICK n \in Nat, o \in Nat, m \in Nat : n = Len(firm) /\ o = firm_off /\ m = PartLen
  BY <1>1, CheckAssumption, LenProperties DEF CheckType
<1>4. DOMAIN mask \subseteq 1 .. 4
  <2>1. mask \in Seq(Byte) /\ Len(mask) <= 4
    <3>1. CASE mask \in Masks
      BY <3>1, CheckAssumption DEF FourBytes
    <3>2. CASE mask = << >>
      <4>1. << >> \in Seq(Byte) /\ Len(<< >>) = 0
        BY EmptySeq
      <4> QED
        BY <3>2, <4>1
    <3> QED
      BY <3>1, <3>2
  <2>2. Len(mask) \in Nat /\ DOMAIN mask = 1 .. Len(mask)
    BY <2>1, LenProperties
  <2> QED
    BY <2>1, <2>2
<1>5. ASSUME n + o <= m PROVE BurstAtMost
  <2>1. PICK d : d = Damaged(firm, at, mask)
    OBVIOUS
  <2>2. /\ DOMAIN d = 1 .. n
        /\ \A k \in 1 .. n : k - at \notin 1 .. 4 => d[k] = firm[k]
    <3>1. DOMAIN firm = 1 .. n
      BY <1>1, <1>3, LenProperties DEF CheckType
    <3> QED
      BY <1>4, <2>1, <3>1 DEF Damaged
  <2>3. \A k \in 1 .. n : Body[k] = d[k]
    <3> SUFFICES ASSUME NEW k \in 1 .. n PROVE Body[k] = d[k]
      OBVIOUS
    <3>1. o + k - 1 \in 0 .. m - 1 /\ (o + k - 1) - o + 1 = k /\ o + k - 1 \in o .. o + n - 1
      BY <1>3, <1>5
    <3>2. o + k - 1 # HeaderOff(o)
      BY <1>3, <3>1 DEF Apart
    <3>3. part[o + k - 1] = d[k]
      BY <1>2, <1>3, <2>1, <2>2, <3>1, <3>2 DEF InPart
    <3> QED
      BY <1>1, <1>3, <1>5, <3>3, BodyIs
  <2>4. 8 * at \in Nat
    BY <1>3
  <2>5. ASSUME NEW k \in 1 .. 8 * n, k \notin 8 * at + 1 .. 8 * at + 32
        PROVE  Bit(Body, k) <=> Bit(firm, k)
    <3>1. PICK i : i = (k - 1) \div 8 + 1
      OBVIOUS
    <3>2. i \in 1 .. n /\ i - at \notin 1 .. 4
      BY <1>3, <2>5, <3>1
    <3>3. Body[i] = firm[i]
      BY <2>2, <2>3, <3>2
    <3> QED
      BY <3>1, <3>3 DEF Bit
  <2> QED
    BY <1>3, <2>4, <2>5 DEF BurstAtMost
<1> QED
  BY <1>1, <1>3, <1>5 DEF DamagedInv, CheckType

(* A body damaged in up to four bytes next to each other is refused,       *)
(* wherever the damage is and however the pieces cut it, and so is an      *)
(* empty one, for every body, partition and size of _firm_buf.             *)
THEOREM OkIsWhole == FourBytes /\ NoCard /\ Apart /\ [][CardNext]_allVars => []OkMeansWhole
<1> SUFFICES ASSUME FourBytes PROVE NoCard /\ Apart /\ [][CardNext]_allVars => []OkMeansWhole
  OBVIOUS
<1>1. NoCard /\ Apart => DamagedInv
  BY DamageIsABurst
<1>2. DamagedInv /\ [CardNext]_allVars => DamagedInv'
  <2> SUFFICES ASSUME DamagedInv, [CardNext]_allVars PROVE DamagedInv'
    OBVIOUS
  <2>1. CheckInv /\ step = "done"
    BY DEF DamagedInv
  <2>2. ~CardStep
    BY <2>1 DEF CardStep, Card!Pull, Card!Update, Card!Stat, Card!Open, Card!Erase, Card!CopyPiece, Card!ReadFails
  <2>3. CASE CheckStep
    <3>1. CheckInv' /\ UNCHANGED <<firm, part, firm_off, step>>
      BY <2>1, <2>3, StartKeeps, LoopKeeps DEF CheckStep, Check, card
    <3>2. BurstAtMost' = BurstAtMost
      BY <3>1 DEF BurstAtMost, Body
    <3> QED
      BY <3>1, <3>2 DEF DamagedInv
  <2>4. CASE UNCHANGED allVars
    <3>1. UNCHANGED <<firm, body_crc32, firm_off, pc, crc, total_length, ret, part, step>>
      BY <2>4 DEF allVars, check, card
    <3>2. /\ CheckType' = CheckType /\ Reading' = Reading /\ Accepted' = Accepted /\ BurstAtMost' = BurstAtMost
      BY <3>1 DEF CheckType, Reading, Accepted, Admitted, Fits, Body, HeaderOff, BurstAtMost
    <3> QED
      BY <3>1, <3>2 DEF CheckInv, DamagedInv
  <2> QED
    BY <2>2, <2>3, <2>4 DEF CardNext
<1>3. DamagedInv => OkMeansWhole
  <2> SUFFICES ASSUME DamagedInv, ret = "ok" PROVE Whole
    BY DEF OkMeansWhole
  <2>1. CheckInv /\ Accepted
    BY DEF DamagedInv, CheckInv
  <2>2. BurstAtMost
    BY <2>1 DEF DamagedInv, Accepted, Admitted
  <2> QED
    BY <2>1, <2>2, BurstRefused
<1> QED
  BY <1>1, <1>2, <1>3, PTL

(***************************************************************************)
(* How much of the copy and of the check is left: nothing in them, a short *)
(* read, a failed operation or a damaged length, makes it grow or stay.    *)
(***************************************************************************)
LeftToCopy ==
  CASE step = "stat"  -> Len(file) + 3
    [] step = "open"  -> Len(file) + 2
    [] step = "erase" -> Len(file) + 1
    [] step = "copy"  -> Len(file) - copied
    [] OTHER          -> 0

LeftToCheck ==
  CASE pc = "start" -> Len(firm) + 2
    [] pc = "loop"  -> Len(firm) - total_length + 1
    [] OTHER        -> 0

StepsLeft == LeftToCopy + LeftToCheck

LeftType == LeftToCopy \in Nat /\ LeftToCheck \in Nat

EachStepCounts == [][Card!Update \/ CheckStep => StepsLeft' < StepsLeft]_allVars

LEMMA LeftIsNat == CardInv /\ CheckInv => LeftToCopy \in Nat /\ LeftToCheck \in Nat
<1> SUFFICES ASSUME CardInv, CheckInv PROVE LeftToCopy \in Nat /\ LeftToCheck \in Nat
  OBVIOUS
<1>1. Len(file) \in Nat /\ Len(firm) \in Nat
  BY LenProperties DEF CardInv, CardType, CheckInv, CheckType
<1>2. LeftToCopy \in Nat
  <2>1. step = "copy" => copied \in Nat /\ copied < Len(file)
    BY DEF CardInv, CardType
  <2>2. step = "copy" => Len(file) - copied \in Nat
    BY <1>1, <2>1
  <2>3. step \in {"stat", "open", "erase", "copy", "done"}
    BY DEF CardInv, CardType
  <2> QED
    BY <1>1, <2>2, <2>3 DEF LeftToCopy
<1>3. LeftToCheck \in Nat
  <2>1. pc = "loop" => total_length \in 0 .. Len(firm)
    BY DEF CheckInv, Reading
  <2>2. pc = "loop" => Len(firm) - total_length + 1 \in Nat
    BY <1>1, <2>1
  <2>3. pc \in {"start", "loop", "done"}
    BY DEF CheckInv
  <2> QED
    BY <1>1, <2>2, <2>3 DEF LeftToCheck
<1> QED
  BY <1>2, <1>3

LEMMA CopyCounts == CardInv /\ Card!Update => LeftToCopy' < LeftToCopy
<1> SUFFICES ASSUME CardInv, Card!Update PROVE LeftToCopy' < LeftToCopy
  OBVIOUS
<1>1. file' = file /\ copied \in Nat
  BY DEF Card!Update, CardInv, CardType
<1>2. PICK n \in Nat : n = Len(file)
  BY LenProperties DEF CardInv, CardType
<1>3. step = "copy" => copied < n
  BY <1>2 DEF CardInv
<1>4. \/ step = "stat" /\ step' \in {"open", "done"}
      \/ step = "open" /\ step' \in {"erase", "done"}
      \/ step = "erase" /\ step' = "done"
      \/ step = "erase" /\ step' = "copy" /\ copied' = 0
      \/ step = "copy" /\ step' = "done"
      \/ step = "copy" /\ step' = "copy" /\ copied' > copied /\ copied' \in Nat
  <2>1. CASE Card!Stat
    BY <2>1 DEF Card!Stat, Card!GiveUp
  <2>2. CASE Card!Open
    BY <2>2 DEF Card!Open, Card!GiveUp
  <2>3. CASE Card!Erase
    BY <2>3 DEF Card!Erase, CardInv
  <2>4. CASE Card!ReadFails
    BY <2>4 DEF Card!ReadFails, Card!GiveUp
  <2>5. CASE Card!CopyPiece
    <3>1. PICK l \in 1 .. Card!Smaller(FirmBufSize, Len(file) - copied) :
            \/ Card!Count(l) /\ Card!AfterPiece
            \/ Card!WriteStops(l)
      BY <2>5 DEF Card!CopyPiece
    <3>2. step = "copy"
      BY <2>5 DEF Card!CopyPiece
    <3>3. CASE Card!Count(l) /\ Card!AfterPiece
      <4>1. l >= 1 /\ l \in Int /\ copied' = copied + l
        BY <3>3 DEF Card!Count
      <4>2. step' \in {"copy", "done"}
        BY <3>3 DEF Card!AfterPiece
      <4> QED
        BY <1>1, <3>2, <4>1, <4>2
    <3>4. CASE Card!WriteStops(l)
      BY <3>2, <3>4 DEF Card!WriteStops
    <3> QED
      BY <3>1, <3>3, <3>4
  <2> QED
    BY <2>1, <2>2, <2>3, <2>4, <2>5 DEF Card!Update
<1>5. LeftToCopy' = CASE step' = "stat"  -> n + 3
                      [] step' = "open"  -> n + 2
                      [] step' = "erase" -> n + 1
                      [] step' = "copy"  -> n - copied'
                      [] OTHER           -> 0
  BY <1>1, <1>2 DEF LeftToCopy
<1>6. LeftToCopy = CASE step = "stat"  -> n + 3
                     [] step = "open"  -> n + 2
                     [] step = "erase" -> n + 1
                     [] step = "copy"  -> n - copied
                     [] OTHER          -> 0
  BY <1>2 DEF LeftToCopy
<1> QED
  BY <1>1, <1>3, <1>4, <1>5, <1>6

LEMMA CheckCounts == CheckInv /\ CheckStep => LeftToCheck' < LeftToCheck
<1> SUFFICES ASSUME CheckInv, CheckStep PROVE LeftToCheck' < LeftToCheck
  OBVIOUS
<1>1. firm' = firm
  BY DEF CheckStep, Check
<1>2. PICK n \in Nat : n = Len(firm)
  BY LenProperties DEF CheckInv, CheckType
<1>3. CASE Start
  <2>1. /\ pc = "start" /\ total_length = 0
        /\ \/ pc' = "done"
           \/ pc' = "loop" /\ total_length' = 0
    BY <1>3 DEF Start, Return, CheckInv
  <2> QED
    BY <1>1, <1>2, <2>1 DEF LeftToCheck
<1>4. CASE Loop
  <2>1. pc = "loop" /\ total_length \in 0 .. n
    BY <1>2, <1>4 DEF Loop, CheckInv, Reading
  <2>2. PICK t \in Nat : t = total_length /\ t <= n
    BY <2>1
  <2>3. CASE pc' = "done"
    BY <1>2, <2>1, <2>2, <2>3 DEF LeftToCheck
  <2>4. CASE pc' # "done"
    <3>1. PICK l : l = PieceLen
      OBVIOUS
    <3>2. l # 0 /\ total_length' = t + l /\ pc' = "loop"
      BY <1>4, <2>1, <2>2, <2>4, <3>1 DEF Loop, Return, ReadFails
    <3>3. l \in Int /\ l >= 1
      <4>1. PICK s \in Nat : s = FirmBufSize
        BY CheckAssumption
      <4>2. l = IF n - t > s THEN s ELSE n - t
        BY <1>2, <2>2, <3>1, <4>1 DEF PieceLen
      <4> QED
        BY <2>2, <3>2, <4>2
    <3> QED
      BY <1>1, <1>2, <2>1, <2>2, <3>2, <3>3 DEF LeftToCheck
  <2> QED
    BY <2>3, <2>4
<1> QED
  BY <1>3, <1>4 DEF CheckStep, Check

(* Every step of sdcard_update and of check_part_firm brings the update    *)
(* step nearer: with the fairness of the runs this is why the copy ends,   *)
(* for every file, partition, buffer and split into reads.                 *)
THEOREM EveryStepCounts == Spec => EachStepCounts /\ [](StepsLeft \in Nat)
<1>1. CardInv /\ CheckInv => LeftType
  BY LeftIsNat DEF LeftType
<1>2. CardInv /\ CheckInv /\ LeftType /\ LeftType' /\ [CardNext]_allVars
        => [Card!Update \/ CheckStep => StepsLeft' < StepsLeft]_allVars
  <2> SUFFICES ASSUME CardInv, CheckInv, LeftType, LeftType', CardNext, Card!Update \/ CheckStep
               PROVE  StepsLeft' < StepsLeft
    OBVIOUS
  <2>1. PICK a \in Nat, b \in Nat, c \in Nat, d \in Nat :
          a = LeftToCopy /\ b = LeftToCheck /\ c = LeftToCopy' /\ d = LeftToCheck'
    BY DEF LeftType
  <2>2. StepsLeft = a + b /\ StepsLeft' = c + d
    BY <2>1 DEF StepsLeft
  <2>3. CASE Card!Update
    <3>1. step # "done"
      BY <2>3 DEF Card!Update, Card!Stat, Card!Open, Card!Erase, Card!CopyPiece, Card!ReadFails
    <3>2. UNCHANGED check
      BY <3>1 DEF CardNext, CardStep, CheckStep
    <3>3. d = b
      BY <2>1, <3>2 DEF check, LeftToCheck
    <3>4. c < a
      BY <2>1, <2>3, CopyCounts
    <3> QED
      BY <2>2, <3>3, <3>4
  <2>4. CASE CheckStep
    <3>1. c = a
      BY <2>1, <2>4 DEF CheckStep, card, LeftToCopy
    <3>2. d < b
      BY <2>1, <2>4, CheckCounts
    <3> QED
      BY <2>2, <3>1, <3>2
  <2> QED
    BY <2>3, <2>4
<1>3. LeftType => StepsLeft \in Nat
  BY DEF LeftType, StepsLeft
<1> QED
  BY CardKept, CheckKept, <1>1, <1>2, <1>3, PTL DEF Spec, EachStepCounts
=============================================================================
