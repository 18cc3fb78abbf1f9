------------------------- MODULE PickerPatch_proofs -------------------------
(***************************************************************************)
(* Proofs about PickerPatch for any layouts and versions of the module and *)
(* any number of upgrades, edits and deaths.                               *)
(***************************************************************************)
EXTENDS PickerPatch, NaturalOrder, SequenceTheorems

(***************************************************************************)
(* Files: the functions in them and their spans.                           *)
(***************************************************************************)

(* The last of a set of lines is one of them and none comes after it.      *)
LEMMA LastLine ==
  ASSUME NEW n \in Nat, NEW S, \A x \in S : x \in 0..n, S # {}
  PROVE  LastOf(S) \in S /\ \A y \in S : y <= LastOf(S)
<1>1. \E x \in S : \A y \in S : y <= x
  BY GreatestNumber
<1> QED
  BY <1>1 DEF LastOf

(* A line none comes after is the last one.                                *)
LEMMA LastOne ==
  ASSUME NEW S, NEW x \in S, \A y \in S : y \in Int /\ y <= x
  PROVE  LastOf(S) = x
<1>1. \A z \in S : (\A y \in S : y <= z) => z = x
  OBVIOUS
<1>2. \E z \in S : \A y \in S : y <= z
  OBVIOUS
<1> QED
  BY <1>1, <1>2 DEF LastOf

(* A file has a length, and its lines have the parts of a line.            *)
LEMMA FileType ==
  ASSUME NEW f \in Files
  PROVE  /\ Len(f) \in Nat /\ DOMAIN f = 1..Len(f)
         /\ \A i \in 1..Len(f) : f[i] \in Line
BY DEF Files

(* A function that was found starts where its last definition opens.       *)
LEMMA StartsAtHead ==
  ASSUME NEW f \in Files, NEW name \in Found(f)
  PROVE  LET s == Start(f, name) IN
         /\ s \in 1..Len(f) /\ f[s].head /\ f[s].of = name
         /\ \A h \in 1..Len(f) : f[h].head /\ f[h].of = name => h <= s
<1> DEFINE H == HeadsOf(f, name)
<1>1. H # {} /\ \A h \in H : h \in 0..Len(f)
  BY FileType DEF Found, HeadsOf, Heads
<1>2. \A h : h \in H <=> h \in 1..Len(f) /\ f[h].head /\ f[h].of = name
  BY FileType DEF HeadsOf, Heads
<1> HIDE DEF H
<1>3. LastOf(H) \in H /\ \A h \in H : h <= LastOf(H)
  BY <1>1, LastLine, FileType
<1>4. Start(f, name) = LastOf(H)
  BY DEF Start, H
<1> QED
  BY <1>2, <1>3, <1>4

(* Its span ends at a line that is not blank, before the next definition,  *)
(* and what follows up to there is blank.                                  *)
LEMMA SpanOf ==
  ASSUME NEW f \in Files, NEW name \in Found(f)
  PROVE  LET s == Start(f, name)
             e == SpanEnd(f, name)
         IN  /\ e \in s..Len(f) /\ f[e] # Blank
             /\ \A i \in (s + 1)..e : ~f[i].head
<1> DEFINE s == Start(f, name)
           E == EndLines(f, s)
<1>1. s \in 1..Len(f) /\ f[s].head /\ Len(f) \in Nat
  BY StartsAtHead, FileType
<1>2. f[s] # Blank
  BY <1>1 DEF Blank
<1> HIDE DEF s
<1>3. E # {} /\ \A j \in E : j \in 0..Len(f)
  <2>1. s \in E
    BY <1>1, <1>2 DEF EndLines
  <2> QED
    BY <1>1, <2>1 DEF EndLines
<1>4. LastOf(E) \in E
  <2> HIDE DEF E
  <2> QED
    BY <1>1, <1>3, LastLine
<1>5. SpanEnd(f, name) = LastOf(E)
  BY DEF SpanEnd, s
<1> QED
  BY <1>4, <1>5 DEF EndLines, s

(* The blank lines that are eaten are blank.                               *)
LEMMA EatenBlank ==
  ASSUME NEW f \in Files, NEW s \in 1..Len(f)
  PROVE  LET a == EatenFrom(f, s) IN
         a \in 1..s /\ \A i \in a..(s - 1) : f[i] = Blank
<1> DEFINE K == {k \in 1..s : k = 1 \/ f[k - 1] # Blank}
<1>1. Len(f) \in Nat /\ s \in Nat
  BY FileType
<1>2. K # {} /\ \A k \in K : k \in 0..s
  <2>1. 1 \in K
    BY <1>1
  <2> QED
    BY <2>1
<1>3. LastOf(K) \in K /\ \A k \in K : k <= LastOf(K)
  <2> HIDE DEF K
  <2> QED
    BY <1>1, <1>2, LastLine
<1>4. EatenFrom(f, s) = LastOf(K)
  BY DEF EatenFrom
<1> DEFINE a == LastOf(K)
<1> HIDE DEF a
<1>5. a \in 1..s /\ \A k \in K : k <= a
  BY <1>3 DEF a
<1>6. ASSUME NEW i \in a..(s - 1) PROVE f[i] = Blank
  <2>1. i + 1 \in 1..s /\ i + 1 > a /\ i + 1 - 1 = i
    BY <1>1, <1>5
  <2>2. i + 1 \notin K
    <3> HIDE DEF K
    <3> QED
      BY <1>1, <1>5, <2>1
  <2> QED
    BY <2>1, <2>2
<1> QED
  BY <1>4, <1>5, <1>6 DEF a

(***************************************************************************)
(* What splice makes of a file, line by line.                              *)
(***************************************************************************)

(* One file after another.                                                 *)
LEMMA JoinLines ==
  ASSUME NEW f \in Files, NEW g \in Files
  PROVE  LET j == f \o g IN
         /\ j \in Files /\ Len(j) = Len(f) + Len(g)
         /\ \A i \in 1..Len(f) : j[i] = f[i]
         /\ \A i \in 1..Len(g) : j[Len(f) + i] = g[i]
<1>1. Len(f) \in Nat /\ Len(g) \in Nat
  BY FileType
<1>2. /\ f \o g \in Files /\ Len(f \o g) = Len(f) + Len(g)
      /\ \A i \in 1..Len(f) + Len(g) : (f \o g)[i] = IF i <= Len(f) THEN f[i] ELSE g[i - Len(f)]
  BY ConcatProperties DEF Files
<1>3. ASSUME NEW i \in 1..Len(f) PROVE (f \o g)[i] = f[i]
  BY <1>1, <1>2
<1>4. ASSUME NEW i \in 1..Len(g) PROVE (f \o g)[Len(f) + i] = g[i]
  <2>1. Len(f) + i \in 1..Len(f) + Len(g) /\ ~(Len(f) + i <= Len(f)) /\ Len(f) + i - Len(f) = i
    BY <1>1
  <2> QED
    BY <1>2, <2>1
<1> QED
  BY <1>2, <1>3, <1>4

(* A function of two lines.                                                *)
LEMMA DefLines ==
  ASSUME NEW name \in Targets
  PROVE  LET d == Def(name, 2, "canon") IN
         /\ d \in Files /\ Len(d) = 2
         /\ d[1] = [of |-> name, head |-> TRUE, text |-> "canon"]
         /\ d[2] = [of |-> name, head |-> FALSE, text |-> "canon"]
<1> DEFINE line(i) == [of |-> name, head |-> i = 1, text |-> "canon"]
           d == [i \in 1..2 |-> line(i)]
<1>1. Def(name, 2, "canon") = d
  BY DEF Def
<1>2. \A i \in 1..2 : line(i) \in Line
  BY DEF Line, Targets
<1>3. line(1) = [of |-> name, head |-> TRUE, text |-> "canon"]
  OBVIOUS
<1>4. line(2) = [of |-> name, head |-> FALSE, text |-> "canon"]
  <2>1. (2 = 1) = FALSE
    OBVIOUS
  <2> QED
    BY <2>1
<1> HIDE DEF line
<1>5. d \in [1..2 -> Line] /\ Len(d) = 2 /\ d[1] = line(1) /\ d[2] = line(2)
  BY <1>2
<1>6. d \in Files
  BY <1>2 DEF Files
<1> HIDE DEF d
<1> QED
  BY <1>1, <1>3, <1>4, <1>5, <1>6

(* The canonical text: six lines, each function once.                      *)
LEMMA CanonicalText ==
  /\ CANONICAL \in Files /\ Len(CANONICAL) = 6
  /\ CANONICAL[1] = [of |-> "own", head |-> TRUE, text |-> "canon"]
  /\ CANONICAL[2] = [of |-> "own", head |-> FALSE, text |-> "canon"]
  /\ CANONICAL[3] = Blank /\ CANONICAL[4] = Blank
  /\ CANONICAL[5] = [of |-> "ambient", head |-> TRUE, text |-> "canon"]
  /\ CANONICAL[6] = [of |-> "ambient", head |-> FALSE, text |-> "canon"]
<1> DEFINE A == Def("own", 2, "canon")
           G == <<Blank, Blank>>
           B == Def("ambient", 2, "canon")
<1>1. /\ A \in Files /\ Len(A) = 2
      /\ A[1] = [of |-> "own", head |-> TRUE, text |-> "canon"]
      /\ A[2] = [of |-> "own", head |-> FALSE, text |-> "canon"]
  BY DefLines DEF Targets
<1>2. /\ B \in Files /\ Len(B) = 2
      /\ B[1] = [of |-> "ambient", head |-> TRUE, text |-> "canon"]
      /\ B[2] = [of |-> "ambient", head |-> FALSE, text |-> "canon"]
  BY DefLines DEF Targets
<1>3. G \in Files /\ Len(G) = 2 /\ G[1] = Blank /\ G[2] = Blank
  BY DEF Blank, Files, Line
<1>4. CANONICAL = (A \o G) \o B
  BY DEF CANONICAL
<1> HIDE DEF A, G, B
<1> DEFINE C == A \o G
           D == C \o B
<1>5. /\ C \in Files /\ Len(C) = 4
      /\ C[1] = A[1] /\ C[2] = A[2] /\ C[2 + 1] = G[1] /\ C[2 + 2] = G[2]
  <2>1. /\ C \in Files /\ Len(C) = Len(A) + Len(G)
        /\ \A i \in 1..Len(A) : C[i] = A[i]
        /\ \A i \in 1..Len(G) : C[Len(A) + i] = G[i]
    BY <1>1, <1>3, JoinLines
  <2> HIDE DEF C
  <2> QED
    BY <1>1, <1>3, <2>1
<1> HIDE DEF C
<1>6. /\ D \in Files /\ Len(D) = 6
      /\ D[1] = C[1] /\ D[2] = C[2] /\ D[3] = C[3] /\ D[4] = C[4]
      /\ D[4 + 1] = B[1] /\ D[4 + 2] = B[2]
  <2>1. /\ D \in Files /\ Len(D) = Len(C) + Len(B)
        /\ \A i \in 1..Len(C) : D[i] = C[i]
        /\ \A i \in 1..Len(B) : D[Len(C) + i] = B[i]
    BY <1>2, <1>5, JoinLines
  <2> HIDE DEF D
  <2> QED
    BY <1>2, <1>5, <2>1
<1>7. CANONICAL = D
  BY <1>4 DEF C
<1> HIDE DEF D
<1> QED
  BY <1>1, <1>2, <1>3, <1>5, <1>6, <1>7

(* A part of a file is a file.                                             *)
LEMMA PartOf ==
  ASSUME NEW f \in Files, NEW m \in Nat \ {0}, NEW n \in Int, n <= Len(f)
  PROVE  LET p == SubSeq(f, m, n) IN
         /\ p \in Files /\ Len(p) = IF m <= n THEN n - m + 1 ELSE 0
         /\ \A i \in 1..(n - m + 1) : p[i] = f[m + i - 1]
<1>1. \A i \in m..n : f[i] \in Line
  BY FileType
<1> QED
  BY <1>1, SubSeqProperties DEF Files

(* Lines a to b go and what follows moves up.                              *)
LEMMA CutLines ==
  ASSUME NEW f \in Files, NEW a \in Nat \ {0}, NEW b \in a..Len(f)
  PROVE  LET w == Cut(f, a, b) IN
         /\ w \in Files /\ Len(w) = Len(f) - (b - a + 1)
         /\ \A i \in 1..(a - 1) : w[i] = f[i]
         /\ \A i \in a..Len(w) : w[i] = f[i + (b - a + 1)]
<1> DEFINE p == SubSeq(f, 1, a - 1)
           q == SubSeq(f, b + 1, Len(f))
<1>1. Len(f) \in Nat /\ b \in Nat /\ a <= b /\ b <= Len(f)
  BY FileType
<1>2. p \in Files /\ Len(p) = a - 1 /\ \A i \in 1..(a - 1) : p[i] = f[i]
  BY <1>1, PartOf
<1>3. q \in Files /\ Len(q) = Len(f) - b /\ \A i \in 1..(Len(f) - b) : q[i] = f[b + i]
  BY <1>1, PartOf
<1>4. Cut(f, a, b) = p \o q
  BY DEF Cut
<1> HIDE DEF p, q
<1>5. /\ p \o q \in Files /\ Len(p \o q) = (a - 1) + (Len(f) - b)
      /\ \A i \in 1..((a - 1) + (Len(f) - b)) : (p \o q)[i] = IF i <= a - 1 THEN p[i] ELSE q[i - (a - 1)]
  <2>1. /\ p \o q \in Files /\ Len(p \o q) = Len(p) + Len(q)
        /\ \A i \in 1..Len(p) + Len(q) : (p \o q)[i] = IF i <= Len(p) THEN p[i] ELSE q[i - Len(p)]
    BY <1>2, <1>3, ConcatProperties DEF Files
  <2>2. Len(p) = a - 1 /\ Len(q) = Len(f) - b
    BY <1>2, <1>3
  <2> QED
    BY <2>1, <2>2
<1>6. ASSUME NEW i \in 1..(a - 1) PROVE (p \o q)[i] = f[i]
  BY <1>1, <1>2, <1>5
<1>7. ASSUME NEW i \in a..((a - 1) + (Len(f) - b)) PROVE (p \o q)[i] = f[i + (b - a + 1)]
  <2>1. (p \o q)[i] = q[i - (a - 1)] /\ i - (a - 1) \in 1..(Len(f) - b)
    BY <1>1, <1>5
  <2> QED
    BY <1>1, <1>3, <2>1
<1>8. (a - 1) + (Len(f) - b) = Len(f) - (b - a + 1)
  BY <1>1
<1> QED
  BY <1>4, <1>5, <1>6, <1>7, <1>8

(* How many lines are before the canonical text.                           *)
Before(w, s) == IF s - 1 < Len(w) THEN s - 1 ELSE Len(w)

(* The canonical text comes after the lines before s, as many as there are,  *)
(* and is followed by those after e.                                         *)
LEMMA PutLines ==
  ASSUME NEW w \in Files, NEW s \in Nat \ {0}, NEW e \in Nat, s <= e
  PROVE  LET r == PutCanonical(w, s, e)
             p == Before(w, s)
         IN  /\ r \in Files /\ p \in Nat /\ p <= s - 1
             /\ Len(r) = p + 6 + (IF e < Len(w) THEN Len(w) - e ELSE 0)
             /\ \A i \in 1..p : r[i] = w[i]
             /\ \A i \in 1..6 : r[p + i] = CANONICAL[i]
             /\ \A i \in (p + 7)..Len(r) : r[i] = w[i - (p + 6) + e] /\ i - (p + 6) + e \in 1..Len(w)
             /\ \A j \in (e + 1)..Len(w) : r[j - e + (p + 6)] = w[j] /\ j - e + (p + 6) \in 1..Len(r)
<1> DEFINE p == Before(w, s)
           P == SubSeq(w, 1, p)
           Q == SubSeq(w, e + 1, Len(w))
           q == IF e < Len(w) THEN Len(w) - e ELSE 0
<1>1. Len(w) \in Nat
  BY FileType
<1>2. p \in Nat /\ p <= s - 1 /\ p <= Len(w)
  BY <1>1 DEF Before
<1>3. q \in Nat /\ \A j \in Nat : j \in 1..q <=> j + e \in (e + 1)..Len(w)
  BY <1>1
<1>4. PutCanonical(w, s, e) = (P \o CANONICAL) \o Q
  BY DEF PutCanonical, FirstLines, Before
<1> HIDE DEF p
<1>5. P \in Files /\ Len(P) = p /\ \A i \in 1..p : P[i] = w[i]
  BY <1>1, <1>2, PartOf
<1>6. Q \in Files /\ Len(Q) = q /\ \A i \in 1..q : Q[i] = w[e + i]
  BY <1>1, PartOf
<1> HIDE DEF P, Q, q
<1> DEFINE PC == P \o CANONICAL
<1>7. /\ PC \in Files /\ Len(PC) = p + 6
      /\ \A i \in 1..p : PC[i] = P[i]
      /\ \A i \in 1..6 : PC[p + i] = CANONICAL[i]
  <2>1. /\ PC \in Files /\ Len(PC) = Len(P) + Len(CANONICAL)
        /\ \A i \in 1..Len(P) : PC[i] = P[i]
        /\ \A i \in 1..Len(CANONICAL) : PC[Len(P) + i] = CANONICAL[i]
    BY <1>5, CanonicalText, JoinLines
  <2> HIDE DEF PC
  <2> QED
    BY <1>5, <2>1, CanonicalText
<1> HIDE DEF PC
<1> DEFINE r == PC \o Q
<1>8. /\ r \in Files /\ Len(r) = p + 6 + q
      /\ \A i \in 1..(p + 6) : r[i] = PC[i]
      /\ \A i \in 1..q : r[p + 6 + i] = Q[i]
  <2>1. /\ r \in Files /\ Len(r) = Len(PC) + Len(Q)
        /\ \A i \in 1..Len(PC) : r[i] = PC[i]
        /\ \A i \in 1..Len(Q) : r[Len(PC) + i] = Q[i]
    BY <1>6, <1>7, JoinLines
  <2> HIDE DEF r
  <2> QED
    BY <1>6, <1>7, <2>1
<1>9. PutCanonical(w, s, e) = r
  BY <1>4 DEF PC
<1> HIDE DEF r
<1>10. ASSUME NEW i \in 1..p PROVE r[i] = w[i]
  BY <1>2, <1>5, <1>7, <1>8
<1>11. ASSUME NEW i \in 1..6 PROVE r[p + i] = CANONICAL[i]
  <2>1. p + i \in 1..(p + 6)
    BY <1>2
  <2>2. r[p + i] = PC[p + i]
    BY <1>8, <2>1
  <2> QED
    BY <1>7, <2>2
<1>12. ASSUME NEW i \in (p + 7)..Len(r)
       PROVE  r[i] = w[i - (p + 6) + e] /\ i - (p + 6) + e \in 1..Len(w)
  <2> DEFINE k == i - (p + 6)
  <2>1. k \in 1..q /\ p + 6 + k = i
    BY <1>2, <1>3, <1>8
  <2>2. r[i] = Q[k] /\ Q[k] = w[e + k]
    BY <1>6, <1>8, <2>1
  <2>3. e + k = k + e /\ k + e \in (e + 1)..Len(w)
    BY <1>3, <2>1
  <2>4. k + e \in 1..Len(w)
    BY <1>1, <2>3
  <2> QED
    BY <2>2, <2>3, <2>4
<1>13. ASSUME NEW j \in (e + 1)..Len(w)
       PROVE  r[j - e + (p + 6)] = w[j] /\ j - e + (p + 6) \in 1..Len(r)
  <2> DEFINE i == j - e + (p + 6)
  <2>1. j - e \in 1..q
    BY <1>1 DEF q
  <2>2. i \in (p + 7)..Len(r) /\ i - (p + 6) + e = j
    BY <1>1, <1>2, <1>3, <1>8, <2>1
  <2> HIDE DEF i
  <2>3. r[i] = w[i - (p + 6) + e]
    BY <2>2, <1>12
  <2>4. i \in 1..Len(r)
    BY <1>2, <1>8, <1>3, <2>2
  <2> QED
    BY <2>2, <2>3, <2>4 DEF i
<1> QED
  BY <1>2, <1>8, <1>9, <1>10, <1>11, <1>12, <1>13 DEF p, q

(***************************************************************************)
(* What is left when the other function is cut out.                        *)
(***************************************************************************)

\* The first line that goes, and how many go.
CutFrom(f) ==
  IF "ambient" \in Found(f) THEN EatenFrom(f, Start(f, "ambient")) ELSE Len(f) + 1
CutSize(f) ==
  IF "ambient" \in Found(f) THEN SpanEnd(f, "ambient") - CutFrom(f) + 1 ELSE 0

(* Where it is defined, the lines that go are blank before it and its own.   *)
LEMMA CutRange ==
  ASSUME NEW f \in Files
  PROVE  /\ CutFrom(f) \in 1..(Len(f) + 1) /\ CutSize(f) \in Nat
         /\ CutFrom(f) + CutSize(f) <= Len(f) + 1
         /\ "ambient" \in Found(f) =>
              LET s == Start(f, "ambient") IN
              /\ s \in 1..Len(f) /\ f[s].head /\ CutFrom(f) <= s
              /\ s < CutFrom(f) + CutSize(f)
              /\ \A i \in CutFrom(f)..(s - 1) : f[i] = Blank
              /\ \A i \in (s + 1)..(CutFrom(f) + CutSize(f) - 1) : ~f[i].head
         /\ "ambient" \notin Found(f) => CutSize(f) = 0
<1>1. Len(f) \in Nat
  BY FileType
<1>2. CASE "ambient" \notin Found(f)
  BY <1>1, <1>2 DEF CutFrom, CutSize
<1>3. CASE "ambient" \in Found(f)
  <2> DEFINE s == Start(f, "ambient")
             a == EatenFrom(f, s)
             b == SpanEnd(f, "ambient")
  <2>1. s \in 1..Len(f) /\ f[s].head
    BY <1>3, StartsAtHead
  <2>2. b \in s..Len(f) /\ \A i \in (s + 1)..b : ~f[i].head
    BY <1>3, SpanOf
  <2>3. a \in 1..s /\ \A i \in a..(s - 1) : f[i] = Blank
    <3> HIDE DEF s
    <3> QED
      BY <2>1, EatenBlank
  <2>4. CutFrom(f) = a /\ CutSize(f) = b - a + 1
    BY <1>3 DEF CutFrom, CutSize
  <2> HIDE DEF a, b
  <2>5. a + (b - a + 1) - 1 = b /\ s < a + (b - a + 1) /\ a + (b - a + 1) <= Len(f) + 1
    BY <1>1, <2>1, <2>2, <2>3
  <2> QED
    BY <1>1, <1>3, <2>1, <2>2, <2>3, <2>4, <2>5
<1> QED
  BY <1>2, <1>3

(* No body begins where the cut does.                                      *)
LEMMA NoBodyAtCut ==
  ASSUME NEW f \in Files, CutSize(f) # 0 PROVE ~IsBody(f[CutFrom(f)])
<1> DEFINE s == Start(f, "ambient")
           a == CutFrom(f)
<1>1. /\ s \in 1..Len(f) /\ f[s].head /\ a \in 1..(Len(f) + 1) /\ a <= s
      /\ \A i \in a..(s - 1) : f[i] = Blank
  BY CutRange
<1>2. CASE a = s
  BY <1>1, <1>2 DEF IsBody
<1>3. CASE a < s
  BY <1>1, <1>3, FileType DEF IsBody
<1> QED
  BY <1>1, <1>2, <1>3, FileType

(* The file without the other function: what follows the cut moves up.     *)
LEMMA LeftLines ==
  ASSUME NEW f \in Files
  PROVE  LET w == WithoutExtra(f) IN
         /\ w \in Files /\ Len(w) = Len(f) - CutSize(f)
         /\ \A i \in 1..(CutFrom(f) - 1) : i \in 1..Len(w) /\ w[i] = f[i]
         /\ \A i \in CutFrom(f)..Len(w) :
              w[i] = f[i + CutSize(f)] /\ i + CutSize(f) \in 1..Len(f)
<1> DEFINE a == CutFrom(f)
           d == CutSize(f)
           w == WithoutExtra(f)
<1>1. Len(f) \in Nat /\ a \in 1..(Len(f) + 1) /\ d \in Nat /\ a + d <= Len(f) + 1
  BY FileType, CutRange
<1>2. CASE "ambient" \notin Found(f)
  <2>1. w = f /\ a = Len(f) + 1 /\ d = 0
    BY <1>2 DEF WithoutExtra, CutFrom, CutSize
  <2> HIDE DEF a, d, w
  <2>2. w \in Files /\ Len(w) = Len(f) - d
    BY <1>1, <2>1
  <2>3. \A i \in 1..(a - 1) : i \in 1..Len(w) /\ w[i] = f[i]
    BY <1>1, <2>1
  <2>4. \A i \in a..Len(w) : FALSE
    BY <1>1, <2>1
  <2> QED
    BY <2>2, <2>3, <2>4 DEF a, d, w
<1>3. CASE "ambient" \in Found(f)
  <2> DEFINE b == SpanEnd(f, "ambient")
  <2>1. w = Cut(f, a, b) /\ d = b - a + 1
    BY <1>3 DEF WithoutExtra, CutFrom, CutSize
  <2>2. b \in Nat
    BY <1>3, SpanOf, StartsAtHead
  <2>3. d # 0
    BY <1>1, <1>3, CutRange
  <2> HIDE DEF a, d, b, w
  <2>4. b \in a..Len(f) /\ a \in Nat \ {0}
    BY <1>1, <2>1, <2>2, <2>3
  <2>5. /\ w \in Files /\ Len(w) = Len(f) - d
        /\ \A i \in 1..(a - 1) : w[i] = f[i]
        /\ \A i \in a..Len(w) : w[i] = f[i + d]
    BY <2>1, <2>4, CutLines
  <2>6. \A i \in 1..(a - 1) : i \in 1..Len(w)
    BY <1>1, <2>5
  <2>7. \A i \in a..Len(w) : i + d \in 1..Len(f)
    BY <1>1, <2>5
  <2> QED
    BY <2>5, <2>6, <2>7 DEF a, d, w
<1> QED
  BY <1>2, <1>3

(* If the other function comes last, its cut begins after the first one.   *)
LEMMA CutAfterOwn ==
  ASSUME NEW f \in Files, "own" \in Found(f), InOrder(f)
  PROVE  SpanEnd(f, "own") < CutFrom(f)
<1> DEFINE e == SpanEnd(f, "own")
           s == Start(f, "own")
<1>1. /\ s \in 1..Len(f) /\ e \in s..Len(f) /\ f[e] # Blank
      /\ \A i \in (s + 1)..e : ~f[i].head
  BY StartsAtHead, SpanOf
<1> HIDE DEF e
<1>2. Len(f) \in Nat
  BY FileType
<1>3. CASE "ambient" \notin Found(f)
  BY <1>1, <1>2, <1>3 DEF CutFrom, e
<1>4. CASE "ambient" \in Found(f)
  <2> DEFINE t == Start(f, "ambient")
             a == CutFrom(f)
  <2>1. s < t
    BY <1>4 DEF InOrder, Found, Targets
  <2>2. /\ t \in 1..Len(f) /\ f[t].head /\ a \in 1..(Len(f) + 1) /\ a <= t
        /\ \A i \in a..(t - 1) : f[i] = Blank
    BY <1>4, CutRange
  <2> HIDE DEF t, a, s
  <2>3. ~(t \in (s + 1)..e)
    BY <1>1, <2>2
  <2>4. e < t
    BY <1>1, <1>2, <2>1, <2>2, <2>3
  <2>5. ~(e \in a..(t - 1))
    BY <1>1, <2>2
  <2>6. e < a
    BY <1>1, <1>2, <2>2, <2>4, <2>5
  <2> QED
    BY <2>6 DEF a, e
<1> QED
  BY <1>3, <1>4

(***************************************************************************)
(* What splice installs.                                                   *)
(***************************************************************************)

(* The spliced file: the beginning of what is left, the canonical text, and  *)
(* what is left after the span the first function had in the original.       *)
LEMMA SpliceLines ==
  ASSUME NEW f \in Files, "own" \in Found(f)
  PROVE  LET r == Splice(f)
             w == WithoutExtra(f)
             s == Start(f, "own")
             e == SpanEnd(f, "own")
             p == Before(w, s)
         IN  /\ r \in Files /\ p \in Nat /\ p <= s - 1
             /\ Len(r) = p + 6 + (IF e < Len(w) THEN Len(w) - e ELSE 0)
             /\ \A i \in 1..p : r[i] = w[i]
             /\ \A i \in 1..6 : r[p + i] = CANONICAL[i]
             /\ \A i \in (p + 7)..Len(r) : r[i] = w[i - (p + 6) + e] /\ i - (p + 6) + e \in 1..Len(w)
             /\ \A j \in (e + 1)..Len(w) : r[j - e + (p + 6)] = w[j] /\ j - e + (p + 6) \in 1..Len(r)
<1> DEFINE w == WithoutExtra(f)
           s == Start(f, "own")
           e == SpanEnd(f, "own")
<1>1. s \in Nat \ {0} /\ e \in Nat /\ s <= e
  BY StartsAtHead, SpanOf, FileType
<1>2. w \in Files
  BY LeftLines
<1>3. Splice(f) = PutCanonical(w, s, e)
  BY DEF Splice
<1> HIDE DEF w, s, e
<1> DEFINE r == PutCanonical(w, s, e)
           p == Before(w, s)
<1>4. /\ r \in Files /\ p \in Nat /\ p <= s - 1
      /\ Len(r) = p + 6 + (IF e < Len(w) THEN Len(w) - e ELSE 0)
      /\ \A i \in 1..p : r[i] = w[i]
      /\ \A i \in 1..6 : r[p + i] = CANONICAL[i]
      /\ \A i \in (p + 7)..Len(r) : r[i] = w[i - (p + 6) + e] /\ i - (p + 6) + e \in 1..Len(w)
      /\ \A j \in (e + 1)..Len(w) : r[j - e + (p + 6)] = w[j] /\ j - e + (p + 6) \in 1..Len(r)
  BY <1>1, <1>2, PutLines
<1> QED
  BY <1>3, <1>4 DEF w, s, e

(* The first function is the canonical one afterwards, wherever the second   *)
(* was: no definition of it comes later than the last one did.               *)
LEMMA SpliceOwn ==
  ASSUME NEW f \in Files, "own" \in Found(f)
  PROVE  LET r == Splice(f) IN
         /\ Found(r) = Targets /\ r[Start(r, "own")].text = "canon"
         /\ Once(r) => r[Start(r, "ambient")].text = "canon"
<1> DEFINE r == Splice(f)
           w == WithoutExtra(f)
           s == Start(f, "own")
           e == SpanEnd(f, "own")
           p == Before(w, s)
           a == CutFrom(f)
           d == CutSize(f)
<1>1. /\ r \in Files /\ p \in Nat
      /\ Len(r) = p + 6 + (IF e < Len(w) THEN Len(w) - e ELSE 0)
      /\ \A i \in 1..6 : r[p + i] = CANONICAL[i]
      /\ \A i \in (p + 7)..Len(r) : r[i] = w[i - (p + 6) + e] /\ i - (p + 6) + e \in 1..Len(w)
  BY SpliceLines
<1>2. /\ s \in 1..Len(f) /\ e \in s..Len(f)
      /\ \A h \in 1..Len(f) : f[h].head /\ f[h].of = "own" => h <= s
  BY StartsAtHead, SpanOf
<1>3. /\ w \in Files /\ \A i \in 1..(a - 1) : i \in 1..Len(w) /\ w[i] = f[i]
      /\ \A i \in a..Len(w) : w[i] = f[i + d] /\ i + d \in 1..Len(f)
      /\ a \in 1..(Len(f) + 1) /\ d \in Nat /\ Len(w) = Len(f) - d
  BY LeftLines, CutRange
<1>4. Len(f) \in Nat /\ Len(w) \in Nat /\ Len(r) \in Nat
  BY <1>1, <1>3, FileType
<1> HIDE DEF r, w, s, e, p, a, d
<1>5. \A j \in (e + 1)..Len(w) : ~(w[j].head /\ w[j].of = "own")
  <2> SUFFICES ASSUME NEW j \in (e + 1)..Len(w), w[j].head, w[j].of = "own" PROVE FALSE
    OBVIOUS
  <2>1. CASE j < a
    <3>1. w[j] = f[j] /\ j \in 1..Len(f) /\ j > s
      BY <1>2, <1>3, <1>4, <2>1
    <3> QED
      BY <1>2, <3>1
  <2>2. CASE j >= a
    <3>1. w[j] = f[j + d] /\ j + d \in 1..Len(f) /\ j + d > s
      BY <1>2, <1>3, <1>4, <2>2
    <3> QED
      BY <1>2, <1>4, <3>1
  <2> QED
    BY <1>2, <1>3, <1>4, <2>1, <2>2
<1>6. \A i \in (p + 7)..Len(r) : ~(r[i].head /\ r[i].of = "own")
  <2> SUFFICES ASSUME NEW i \in (p + 7)..Len(r) PROVE ~(r[i].head /\ r[i].of = "own")
    OBVIOUS
  <2>1. r[i] = w[i - (p + 6) + e] /\ i - (p + 6) + e \in 1..Len(w)
    BY <1>1
  <2>2. i - (p + 6) + e \in (e + 1)..Len(w)
    BY <1>1, <1>2, <1>4, <2>1
  <2> QED
    BY <1>5, <2>1, <2>2
<1>7. /\ r[p + 1] = CANONICAL[1] /\ r[p + 2] = CANONICAL[2] /\ r[p + 3] = CANONICAL[3]
      /\ r[p + 4] = CANONICAL[4] /\ r[p + 5] = CANONICAL[5] /\ r[p + 6] = CANONICAL[6]
      /\ p + 1 \in 1..Len(r) /\ p + 5 \in 1..Len(r)
  <2>1. 1 \in 1..6 /\ 2 \in 1..6 /\ 3 \in 1..6 /\ 4 \in 1..6 /\ 5 \in 1..6 /\ 6 \in 1..6
    OBVIOUS
  <2>2. Len(r) >= p + 6
    <3>1. e \in Nat /\ (e < Len(w) => Len(w) - e \in Nat)
      BY <1>2, <1>4
    <3>2. CASE e < Len(w)
      BY <1>1, <3>1, <3>2
    <3>3. CASE ~(e < Len(w))
      BY <1>1, <3>3
    <3> QED
      BY <3>2, <3>3
  <2> QED
    BY <1>1, <1>4, <2>1, <2>2
<1>8. /\ r[p + 1].head /\ r[p + 1].of = "own" /\ r[p + 1].text = "canon"
      /\ r[p + 5].head /\ r[p + 5].of = "ambient" /\ r[p + 5].text = "canon"
      /\ ~r[p + 2].head /\ ~r[p + 3].head /\ ~r[p + 4].head
      /\ r[p + 5].of # "own" /\ ~r[p + 6].head
  BY <1>7, CanonicalText DEF Blank
<1>9. p + 1 \in HeadsOf(r, "own") /\ p + 5 \in HeadsOf(r, "ambient")
  BY <1>1, <1>7, <1>8, FileType DEF HeadsOf, Heads
<1>10. Found(r) = Targets
  BY <1>9 DEF Found, Targets
<1>11. Start(r, "own") = p + 1
  <2>1. ASSUME NEW h \in HeadsOf(r, "own") PROVE h \in Int /\ h <= p + 1
    <3>1. h \in 1..Len(r) /\ r[h].head /\ r[h].of = "own"
      BY <1>1, FileType DEF HeadsOf, Heads
    <3>2. ~(h \in (p + 7)..Len(r))
      BY <1>6, <3>1
    <3>3. h # p + 2 /\ h # p + 3 /\ h # p + 4 /\ h # p + 5 /\ h # p + 6
      BY <1>8, <3>1
    <3>4. h \in Int /\ h <= p + 6
      BY <1>1, <1>4, <3>1, <3>2
    <3> QED
      BY <1>1, <3>3, <3>4
  <2> QED
    BY <1>9, <2>1, LastOne DEF Start
<1>12. Once(r) => Start(r, "ambient") = p + 5
  <2> SUFFICES ASSUME Once(r) PROVE Start(r, "ambient") = p + 5
    OBVIOUS
  <2>1. \A h \in HeadsOf(r, "ambient") : h = p + 5
    BY <1>9 DEF Once
  <2>2. \A h \in HeadsOf(r, "ambient") : h \in Int /\ h <= p + 5
    BY <1>1, <2>1
  <2> QED
    BY <1>9, <2>2, LastOne DEF Start
<1> QED
  BY <1>8, <1>10, <1>11, <1>12 DEF r

(* A cut leaves no opening line without a body.                            *)
LEMMA LeftParses ==
  ASSUME NEW f \in Files, Parses(f), NEW j \in 1..Len(WithoutExtra(f)), WithoutExtra(f)[j].head
  PROVE  j < Len(WithoutExtra(f)) /\ IsBody(WithoutExtra(f)[j + 1])
<1> DEFINE w == WithoutExtra(f)
           a == CutFrom(f)
           d == CutSize(f)
<1>1. /\ w \in Files /\ \A i \in 1..(a - 1) : i \in 1..Len(w) /\ w[i] = f[i]
      /\ \A i \in a..Len(w) : w[i] = f[i + d] /\ i + d \in 1..Len(f)
      /\ a \in 1..(Len(f) + 1) /\ d \in Nat /\ Len(w) = Len(f) - d
  BY LeftLines, CutRange
<1>2. Len(f) \in Nat /\ Len(w) \in Nat
  BY <1>1, FileType
<1>3. d # 0 => ~IsBody(f[a])
  BY NoBodyAtCut
<1>4. \A i \in 1..Len(f) : f[i].head => i < Len(f) /\ IsBody(f[i + 1])
  BY FileType DEF Parses
<1>5. j \in 1..Len(w) /\ w[j].head
  OBVIOUS
<1> HIDE DEF w, a, d
<1>6. CASE j < a
  <2>1. w[j] = f[j] /\ j \in 1..Len(f)
    BY <1>1, <1>2, <1>5, <1>6
  <2>2. j + 1 \in 1..Len(f) /\ IsBody(f[j + 1])
    BY <1>2, <1>4, <1>5, <2>1
  <2>3. CASE j + 1 < a
    <3>1. j + 1 \in 1..(a - 1)
      BY <1>1, <1>2, <1>5, <2>3
    <3>2. j + 1 \in 1..Len(w) /\ w[j + 1] = f[j + 1]
      BY <1>1, <3>1
    <3> QED
      BY <1>2, <1>5, <2>2, <3>2 DEF w
  <2>4. CASE j + 1 = a
    <3>1. d = 0
      BY <1>3, <2>2, <2>4
    <3>2. j + 1 \in a..Len(w) /\ j + 1 + d = j + 1
      BY <1>1, <1>2, <1>5, <2>2, <2>4, <3>1
    <3>3. w[j + 1] = f[j + 1]
      BY <1>1, <3>2
    <3> QED
      BY <1>2, <1>5, <2>2, <3>2, <3>3 DEF w
  <2> QED
    BY <1>1, <1>2, <1>5, <1>6, <2>3, <2>4
<1>7. CASE j >= a
  <2>1. w[j] = f[j + d] /\ j + d \in 1..Len(f)
    BY <1>1, <1>2, <1>5, <1>7
  <2>2. j + d < Len(f) /\ IsBody(f[j + d + 1])
    BY <1>4, <1>5, <2>1
  <2>3. j + 1 \in a..Len(w) /\ j + 1 + d = j + d + 1
    BY <1>1, <1>2, <1>5, <1>7, <2>2
  <2>4. w[j + 1] = f[j + d + 1]
    BY <1>1, <2>3
  <2> QED
    BY <1>2, <1>5, <2>2, <2>3, <2>4 DEF w
<1> QED
  BY <1>1, <1>2, <1>5, <1>6, <1>7

(* The other function last, the file is unchanged before the canonical text. *)
LEMMA SpliceInOrder ==
  ASSUME NEW f \in Files, "own" \in Found(f), InOrder(f)
  PROVE  LET r == Splice(f)
             w == WithoutExtra(f)
             s == Start(f, "own")
             e == SpanEnd(f, "own")
         IN  /\ r \in Files /\ s \in Nat \ {0} /\ e \in Nat /\ s <= e /\ e <= Len(w)
             /\ Len(r) = s + 5 + (Len(w) - e)
             /\ \A i \in 1..(s - 1) : r[i] = f[i]
             /\ \A i \in 1..6 : r[s - 1 + i] = CANONICAL[i]
             /\ \A i \in (s + 6)..Len(r) : r[i] = w[i - (s + 5) + e]
             /\ \A j \in (e + 1)..Len(w) : r[j - e + (s + 5)] = w[j] /\ j - e + (s + 5) \in 1..Len(r)
<1> DEFINE r == Splice(f)
           w == WithoutExtra(f)
           s == Start(f, "own")
           e == SpanEnd(f, "own")
           p == Before(w, s)
           a == CutFrom(f)
<1>1. /\ r \in Files /\ p \in Nat
      /\ Len(r) = p + 6 + (IF e < Len(w) THEN Len(w) - e ELSE 0)
      /\ \A i \in 1..p : r[i] = w[i]
      /\ \A i \in 1..6 : r[p + i] = CANONICAL[i]
      /\ \A i \in (p + 7)..Len(r) : r[i] = w[i - (p + 6) + e]
      /\ \A j \in (e + 1)..Len(w) : r[j - e + (p + 6)] = w[j] /\ j - e + (p + 6) \in 1..Len(r)
  BY SpliceLines
<1>2. s \in 1..Len(f) /\ e \in s..Len(f) /\ e < a
  BY StartsAtHead, SpanOf, CutAfterOwn
<1>3. /\ w \in Files /\ a \in 1..(Len(f) + 1)
      /\ \A i \in 1..(a - 1) : i \in 1..Len(w) /\ w[i] = f[i]
  BY LeftLines, CutRange
<1>4. Len(f) \in Nat /\ Len(w) \in Nat
  BY <1>3, FileType
<1>5. p = IF s - 1 < Len(w) THEN s - 1 ELSE Len(w)
  BY DEF Before
<1> HIDE DEF r, w, s, e, p, a
<1>6. e \in 1..Len(w) /\ s \in Nat \ {0} /\ e \in Nat /\ s <= e /\ e <= Len(w)
  BY <1>2, <1>3, <1>4
<1>7. p = s - 1
  BY <1>4, <1>5, <1>6
<1>8. p + 6 = s + 5 /\ p + 7 = s + 6
  BY <1>6, <1>7
<1>9. Len(r) = s + 5 + (Len(w) - e)
  <2>1. CASE e < Len(w)
    BY <1>1, <1>8, <2>1
  <2>2. CASE ~(e < Len(w))
    <3>1. Len(w) - e = 0
      BY <1>4, <1>6, <2>2
    <3>2. Len(r) = p + 6 + 0
      BY <1>1, <2>2
    <3> QED
      BY <1>8, <3>1, <3>2
  <2> QED
    BY <2>1, <2>2
<1>10. ASSUME NEW i \in 1..(s - 1) PROVE r[i] = f[i]
  <2>1. i \in 1..p
    BY <1>7
  <2>2. i \in 1..(a - 1)
    BY <1>2, <1>3, <1>4, <1>6
  <2> QED
    BY <1>1, <1>3, <2>1, <2>2
<1> QED
  BY <1>1, <1>6, <1>7, <1>8, <1>9, <1>10 DEF r, w, s, e

(* What splice makes of such a file parses and has both functions.         *)
LEMMA SpliceValid ==
  ASSUME NEW f \in Files, Parses(f), "own" \in Found(f), InOrder(f)
  PROVE  Valid(Splice(f))
<1> DEFINE r == Splice(f)
           w == WithoutExtra(f)
           s == Start(f, "own")
           e == SpanEnd(f, "own")
<1>1. /\ r \in Files /\ s \in Nat \ {0} /\ e \in Nat /\ s <= e /\ e <= Len(w)
      /\ Len(r) = s + 5 + (Len(w) - e)
      /\ \A i \in 1..(s - 1) : r[i] = f[i]
      /\ \A i \in 1..6 : r[s - 1 + i] = CANONICAL[i]
      /\ \A i \in (s + 6)..Len(r) : r[i] = w[i - (s + 5) + e]
      /\ \A j \in (e + 1)..Len(w) : r[j - e + (s + 5)] = w[j] /\ j - e + (s + 5) \in 1..Len(r)
  BY SpliceInOrder
<1>2. w \in Files /\ Len(w) \in Nat /\ Len(f) \in Nat /\ Len(r) \in Nat
  BY <1>1, LeftLines, FileType
<1>3. s \in 1..Len(f) /\ f[s].head
  BY StartsAtHead
<1>4. /\ \A i \in 1..Len(f) : f[i].head => i < Len(f) /\ IsBody(f[i + 1])
      /\ \A i \in 1..Len(f) : IsBody(f[i]) => \E h \in 1..Len(f) : f[h].head /\ h < i
  BY FileType DEF Parses, Heads
<1>5. \A j \in 1..Len(w) : w[j].head => j < Len(w) /\ IsBody(w[j + 1])
  BY LeftParses
<1>6. Found(r) = Targets
  BY SpliceOwn
<1> HIDE DEF r, w, s, e
<1>7. /\ r[s] = CANONICAL[1] /\ r[s + 1] = CANONICAL[2] /\ r[s + 2] = CANONICAL[3]
      /\ r[s + 3] = CANONICAL[4] /\ r[s + 4] = CANONICAL[5] /\ r[s + 5] = CANONICAL[6]
  <2>1. 1 \in 1..6 /\ 2 \in 1..6 /\ 3 \in 1..6 /\ 4 \in 1..6 /\ 5 \in 1..6 /\ 6 \in 1..6
    OBVIOUS
  <2>2. /\ s - 1 + 1 = s /\ s - 1 + 2 = s + 1 /\ s - 1 + 3 = s + 2
        /\ s - 1 + 4 = s + 3 /\ s - 1 + 5 = s + 4 /\ s - 1 + 6 = s + 5
    BY <1>1
  <2> QED
    BY <1>1, <2>1, <2>2
<1>8. /\ r[s].head /\ IsBody(r[s + 1]) /\ ~r[s + 1].head
      /\ ~r[s + 2].head /\ ~r[s + 3].head
      /\ r[s + 4].head /\ IsBody(r[s + 5]) /\ ~r[s + 5].head
  BY <1>7, CanonicalText DEF IsBody, Blank
<1>9. ASSUME NEW i \in 1..Len(r), r[i].head PROVE i < Len(r) /\ IsBody(r[i + 1])
  <2>1. CASE i < s
    <3>1. i \in 1..Len(f) /\ r[i] = f[i]
      <4>1. i \in 1..(s - 1) /\ i \in 1..Len(f)
        BY <1>2, <1>3, <1>9, <2>1
      <4> QED
        BY <1>1, <4>1
    <3>2. IsBody(f[i + 1])
      BY <1>4, <1>9, <3>1
    <3>3. i + 1 # s
      BY <1>3, <3>2 DEF IsBody
    <3>4. i + 1 \in 1..(s - 1)
      BY <1>1, <2>1, <3>3
    <3>5. r[i + 1] = f[i + 1]
      BY <1>1, <3>4
    <3>6. i < Len(r)
      BY <1>1, <1>2, <2>1
    <3> QED
      BY <3>2, <3>5, <3>6
  <2>2. CASE i \in s..(s + 5)
    <3>1. i = s \/ i = s + 1 \/ i = s + 2 \/ i = s + 3 \/ i = s + 4 \/ i = s + 5
      BY <1>1, <2>2
    <3>2. i = s \/ i = s + 4
      BY <1>8, <1>9, <3>1
    <3>3. IsBody(r[i + 1])
      <4>1. CASE i = s
        BY <1>8, <4>1
      <4>2. CASE i = s + 4
        <5>1. i + 1 = s + 5
          BY <1>1, <4>2
        <5> QED
          BY <1>8, <5>1
      <4> QED
        BY <3>2, <4>1, <4>2
    <3>4. i < Len(r)
      <4>1. Len(r) >= s + 5 /\ s \in Nat
        BY <1>1, <1>2
      <4> QED
        BY <1>2, <3>2, <4>1
    <3> QED
      BY <3>3, <3>4
  <2>3. CASE i \in (s + 6)..Len(r)
    <3> DEFINE j == i - (s + 5) + e
    <3>1. r[i] = w[j] /\ j \in (e + 1)..Len(w)
      BY <1>1, <1>2, <2>3
    <3>6. j \in Int /\ j - e + (s + 5) = i
      BY <1>1, <2>3
    <3> HIDE DEF j
    <3>7. j \in 1..Len(w) /\ w[j].head
      BY <1>1, <1>2, <1>9, <3>1
    <3>2. j < Len(w) /\ IsBody(w[j + 1])
      BY <1>5, <3>7
    <3>3. j + 1 \in (e + 1)..Len(w)
      <4>1. j >= e + 1 /\ j \in Int /\ e \in Nat
        BY <1>1, <3>1, <3>6
      <4> QED
        BY <1>2, <3>2, <4>1
    <3>4. (j + 1) - e + (s + 5) = i + 1
      BY <1>1, <2>3, <3>6
    <3>5. r[i + 1] = w[j + 1] /\ i + 1 \in 1..Len(r)
      <4>1. r[(j + 1) - e + (s + 5)] = w[j + 1] /\ (j + 1) - e + (s + 5) \in 1..Len(r)
        BY <1>1, <3>3
      <4> QED
        BY <3>4, <4>1
    <3> QED
      BY <1>2, <3>2, <3>5
  <2> QED
    BY <1>1, <1>2, <2>1, <2>2, <2>3
<1>10. ASSUME NEW i \in 1..Len(r), IsBody(r[i]) PROVE \E h \in 1..Len(r) : r[h].head /\ h < i
  <2>1. CASE i < s
    <3>1. i \in 1..Len(f) /\ r[i] = f[i]
      <4>1. i \in 1..(s - 1) /\ i \in 1..Len(f)
        BY <1>2, <1>3, <1>10, <2>1
      <4> QED
        BY <1>1, <4>1
    <3>2. PICK h \in 1..Len(f) : f[h].head /\ h < i
      BY <1>4, <1>10, <3>1
    <3>3. h \in 1..(s - 1) /\ h \in 1..Len(r)
      <4>1. h \in Nat \ {0} /\ h < i /\ i <= Len(r)
        BY <1>2, <1>10, <3>2
      <4> QED
        BY <1>2, <1>3, <2>1, <4>1
    <3> QED
      BY <1>1, <3>2, <3>3
  <2>2. CASE i = s
    BY <1>8, <1>10, <2>2 DEF IsBody
  <2>3. CASE i > s
    <3>1. s \in 1..Len(r)
      BY <1>2, <1>3, <1>10, <2>3
    <3> QED
      BY <1>8, <2>3, <3>1
  <2> QED
    BY <1>1, <2>1, <2>2, <2>3
<1>11. Parses(r)
  BY <1>1, <1>9, <1>10, FileType DEF Parses, Heads
<1> QED
  BY <1>6, <1>11 DEF Valid, r

(***************************************************************************)
(* The neighbours: what is cut and what is put holds none of their lines.  *)
(***************************************************************************)

(* The steps that collect the neighbours of a file.                        *)
Collects(f, u) ==
  /\ u \in [0..Len(f) -> Files] /\ u[0] = <<>>
  /\ \A n \in 1..Len(f) : u[n] = Collect(u[n - 1], f[n])

(* One line more.                                                          *)
LEMMA CollectJoin ==
  ASSUME NEW f \in Files, NEW g \in Files, NEW line \in Line
  PROVE  Collect(g, line) \in Files /\ Collect(f \o g, line) = f \o Collect(g, line)
<1>1. f \in Seq(Line) /\ g \in Seq(Line)
  BY DEF Files
<1>2. <<line>> \in Seq(Line) /\ f \o g \in Seq(Line)
  BY <1>1, ConcatProperties
<1>3. Append(f \o g, line) = (f \o g) \o <<line>> /\ Append(g, line) = g \o <<line>>
  BY <1>1, <1>2, AppendIsConcat
<1>4. (f \o g) \o <<line>> = f \o (g \o <<line>>)
  BY <1>1, <1>2, ConcatAssociative
<1>5. Append(g, line) \in Seq(Line)
  BY <1>1
<1> QED
  BY <1>1, <1>3, <1>4, <1>5 DEF Collect, Files

(* The definition of Neighbours collects line by line.                     *)
LEMMA Collection ==
  ASSUME NEW f \in Files
  PROVE  \E u : Collects(f, u) /\ Neighbours(f) = u[Len(f)]
<1> DEFINE len == Len(f)
           step == [n \in 1..len |-> [l \in Files |-> Collect(l, f[n])]]
           g[n \in 0..len] == IF n = 0 THEN <<>> ELSE Collect(g[n - 1], f[n])
<1>1. len \in Nat /\ \A n \in 1..len : f[n] \in Line
  BY FileType
<1>2. len = Len(f)
  OBVIOUS
<1>3. Neighbours(f) = g[len]
  BY DEF Neighbours
<1>4. <<>> \in Files /\ \A l \in Files, x \in Line : Collect(l, x) \in Files
  BY CollectJoin DEF Files
<1>5. step \in [1..len -> [Files -> Files]]
  BY <1>1, <1>4
<1>6. \A n \in 1..len, l \in Files :
        step[n][l] = Collect(l, f[n])
  OBVIOUS
<1> HIDE DEF len, step
<1>7. PICK h : Unfolds(h, len, Files, <<>>, step)
  <2> HIDE DEF g
  <2> QED
    BY <1>1, <1>4, <1>5, Recursion
<1>8. /\ h \in [0..len -> Files] /\ h[0] = <<>>
      /\ \A n \in 1..len : h[n] = step[n][h[n - 1]]
  BY <1>7 DEF Unfolds
<1>9. ASSUME NEW n \in 1..len
      PROVE  h[n] = Collect(h[n - 1], f[n])
  <2>1. n - 1 \in 0..len /\ h[n - 1] \in Files
    BY <1>1, <1>8
  <2> QED
    BY <1>6, <1>8, <2>1
<1>10. h = [n \in 0..len |-> IF n = 0 THEN <<>> ELSE Collect(h[n - 1], f[n])]
  BY <1>1, <1>8, <1>9
<1>11. g = [n \in 0..len |-> IF n = 0 THEN <<>> ELSE Collect(g[n - 1], f[n])]
  BY <1>10
<1> HIDE DEF g
<1>12. g[0] = <<>> /\ \A n \in 1..len : g[n] = Collect(g[n - 1], f[n])
  BY <1>1, <1>11
<1>13. \A n \in 0..len : g[n] \in Files
  <2> DEFINE S == {n \in 0..len : g[n] \in Files}
  <2>1. 0 \in S
    BY <1>1, <1>4, <1>12
  <2>2. \A n \in 1..len : n - 1 \in S => n \in S
    BY <1>1, <1>4, <1>12
  <2> HIDE DEF S
  <2>3. \A n \in 0..len : n \in S
    BY <1>1, <2>1, <2>2, UpTo
  <2> QED
    BY <2>3 DEF S
<1>14. g \in [0..len -> Files]
  BY <1>11, <1>13
<1> QED
  BY <1>2, <1>3, <1>12, <1>14 DEF Collects

(* The neighbours of two files are those of the one, then of the other.    *)
LEMMA NeighboursJoin ==
  ASSUME NEW f \in Files, NEW g \in Files
  PROVE  Neighbours(f) \in Files /\ Neighbours(f \o g) = Neighbours(f) \o Neighbours(g)
<1> DEFINE j == f \o g
           m == Len(f)
           n == Len(g)
<1>1. m \in Nat /\ n \in Nat
  BY FileType
<1>2. /\ j \in Files /\ Len(j) = m + n
      /\ \A i \in 1..m : j[i] = f[i]
      /\ \A i \in 1..n : j[m + i] = g[i]
  BY JoinLines
<1>3. /\ \A i \in 1..n : g[i] \in Line
  BY FileType
<1>4. PICK u : Collects(f, u) /\ Neighbours(f) = u[m]
  BY Collection
<1>5. PICK v : Collects(g, v) /\ Neighbours(g) = v[n]
  BY Collection
<1>6. PICK x : Collects(j, x) /\ Neighbours(j) = x[Len(j)]
  <2> HIDE DEF j
  <2> QED
    BY <1>2, Collection
<1> HIDE DEF j
<1>7. /\ u \in [0..m -> Files] /\ u[0] = <<>>
      /\ \A i \in 1..m : u[i] = Collect(u[i - 1], f[i])
  BY <1>4 DEF Collects
<1>8. /\ v \in [0..n -> Files] /\ v[0] = <<>>
      /\ \A i \in 1..n : v[i] = Collect(v[i - 1], g[i])
  BY <1>5 DEF Collects
<1>9. /\ x[0] = <<>>
      /\ \A i \in 1..(m + n) : x[i] = Collect(x[i - 1], j[i])
  BY <1>2, <1>6 DEF Collects
<1> HIDE DEF m, n
<1>10. \A i \in 0..m : x[i] = u[i]
  <2> DEFINE S == {i \in 0..m : x[i] = u[i]}
  <2>1. 0 \in S
    BY <1>1, <1>7, <1>9
  <2>2. ASSUME NEW i \in 1..m, i - 1 \in S PROVE i \in S
    <3>1. x[i - 1] = u[i - 1] /\ i \in 1..(m + n) /\ j[i] = f[i]
      BY <1>1, <1>2, <2>2
    <3> QED
      BY <1>7, <1>9, <3>1
  <2> HIDE DEF S
  <2>3. \A i \in 1..m : i - 1 \in S => i \in S
    BY <2>2
  <2>4. \A i \in 0..m : i \in S
    BY <1>1, <2>1, <2>3, UpTo
  <2> QED
    BY <2>4 DEF S
<1>11. u[m] \in Files /\ u[m] \in Seq(Line)
  BY <1>1, <1>7 DEF Files
<1>12. \A i \in 0..n : x[m + i] = u[m] \o v[i]
  <2> DEFINE S == {i \in 0..n : x[m + i] = u[m] \o v[i]}
  <2>1. 0 \in S
    <3>1. m + 0 = m /\ x[m] = u[m]
      BY <1>1, <1>10
    <3>2. u[m] \o <<>> = u[m]
      BY <1>11, ConcatEmptySeq
    <3>3. 0 \in 0..n
      BY <1>1
    <3> QED
      BY <1>8, <3>1, <3>2, <3>3
  <2>2. ASSUME NEW i \in 1..n, i - 1 \in S PROVE i \in S
    <3>1. x[m + (i - 1)] = u[m] \o v[i - 1] /\ i \in 0..n
      <4>1. \A k \in S : x[m + k] = u[m] \o v[k]
        OBVIOUS
      <4>2. i - 1 \in S
        BY <2>2
      <4> HIDE DEF S
      <4>3. x[m + (i - 1)] = u[m] \o v[i - 1]
        BY <4>1, <4>2
      <4> QED
        BY <1>1, <4>3
    <3>2. m + i \in 1..(m + n) /\ (m + i) - 1 = m + (i - 1)
      BY <1>1
    <3>3. j[m + i] = g[i]
      BY <1>2
    <3>4. x[m + i] = Collect(u[m] \o v[i - 1], g[i])
      BY <1>9, <3>1, <3>2, <3>3
    <3>5. v[i - 1] \in Files /\ g[i] \in Line
      BY <1>1, <1>3, <1>8
    <3>6. x[m + i] = u[m] \o Collect(v[i - 1], g[i])
      BY <1>11, <3>4, <3>5, CollectJoin
    <3>7. x[m + i] = u[m] \o v[i]
      BY <1>8, <3>6
    <3> QED
      BY <3>1, <3>7
  <2> HIDE DEF S
  <2>3. \A i \in 1..n : i - 1 \in S => i \in S
    BY <2>2
  <2>4. \A i \in 0..n : i \in S
    BY <1>1, <2>1, <2>3, UpTo
  <2> QED
    BY <2>4 DEF S
<1>13. x[m + n] = u[m] \o v[n]
  <2>1. n \in 0..n
    BY <1>1
  <2> QED
    BY <1>12, <2>1
<1> QED
  BY <1>2, <1>4, <1>5, <1>6, <1>11, <1>13 DEF j

(* A file without a line of a neighbour has none.                          *)
LEMMA NeighboursNone ==
  ASSUME NEW f \in Files, \A i \in 1..Len(f) : ~IsNeighbour(f[i])
  PROVE  Neighbours(f) = <<>>
<1> DEFINE n == Len(f)
<1>1. n \in Nat
  BY FileType
<1>2. PICK u : Collects(f, u) /\ Neighbours(f) = u[n]
  BY Collection
<1>3. u[0] = <<>> /\ \A i \in 1..n : u[i] = u[i - 1]
  BY <1>2 DEF Collects, Collect
<1> HIDE DEF n
<1> DEFINE S == {i \in 0..n : u[i] = <<>>}
<1>4. 0 \in S
  BY <1>1, <1>3
<1>5. \A i \in 1..n : i - 1 \in S => i \in S
  BY <1>1, <1>3
<1> HIDE DEF S
<1>6. \A i \in 0..n : i \in S
  BY <1>1, <1>4, <1>5, UpTo
<1> QED
  BY <1>1, <1>2, <1>6 DEF S

(* The neighbours of a file are those of its beginning and those of its end. *)
LEMMA NeighboursSplit ==
  ASSUME NEW f \in Files, NEW m \in Nat \ {0}, NEW k \in Nat, NEW n \in Nat,
         m - 1 <= k, k <= n, n <= Len(f)
  PROVE  Neighbours(SubSeq(f, m, n)) = Neighbours(SubSeq(f, m, k)) \o Neighbours(SubSeq(f, k + 1, n))
<1>1. Len(f) \in Nat /\ f \in Seq(Line)
  BY FileType DEF Files
<1>2. m \in 1..Len(f) + 1 /\ k \in m - 1..Len(f) /\ n \in k..Len(f)
  BY <1>1
<1>3. SubSeq(f, m, k) \o SubSeq(f, k + 1, n) = SubSeq(f, m, n)
  BY <1>1, <1>2, ConcatAdjacentSubSeq
<1>4. SubSeq(f, m, k) \in Files /\ SubSeq(f, k + 1, n) \in Files
  BY <1>1, PartOf
<1> QED
  BY <1>3, <1>4, NeighboursJoin

(* Cutting out lines that are no neighbour's keeps the neighbours.         *)
LEMMA CutKeeps ==
  ASSUME NEW f \in Files, NEW a \in Nat \ {0}, NEW b \in a..Len(f),
         \A i \in a..b : ~IsNeighbour(f[i])
  PROVE  Neighbours(Cut(f, a, b)) = Neighbours(f)
<1> DEFINE P == SubSeq(f, 1, a - 1)
           M == SubSeq(f, a, b)
           R == SubSeq(f, a, Len(f))
           Q == SubSeq(f, b + 1, Len(f))
<1>1. Len(f) \in Nat /\ b \in Nat /\ a <= b /\ b <= Len(f) /\ f \in Seq(Line)
  BY FileType DEF Files
<1>2. P \in Files /\ R \in Files /\ Q \in Files
  BY <1>1, PartOf
<1>3. M \in Files /\ Len(M) = b - a + 1 /\ \A i \in 1..(b - a + 1) : M[i] = f[a + i - 1]
  BY <1>1, PartOf
<1>4. Neighbours(M) = <<>>
  <2> HIDE DEF M
  <2>1. ASSUME NEW i \in 1..Len(M) PROVE ~IsNeighbour(M[i])
    <3>1. a + i - 1 \in a..b
      BY <1>1, <1>3
    <3> QED
      BY <1>3, <3>1
  <2> QED
    BY <1>3, <2>1, NeighboursNone
<1>5. SubSeq(f, 1, Len(f)) = f
  BY <1>1, SubSeqFull
<1>6. Neighbours(f) = Neighbours(P) \o Neighbours(R)
  <2>1. /\ 1 \in Nat \ {0} /\ a - 1 \in Nat /\ Len(f) \in Nat
        /\ 1 - 1 <= a - 1 /\ a - 1 <= Len(f) /\ Len(f) <= Len(f) /\ a - 1 + 1 = a
    BY <1>1
  <2>2. Neighbours(SubSeq(f, 1, Len(f)))
          = Neighbours(SubSeq(f, 1, a - 1)) \o Neighbours(SubSeq(f, a - 1 + 1, Len(f)))
    BY <2>1, NeighboursSplit
  <2> QED
    BY <1>5, <2>1, <2>2
<1>7. Neighbours(R) = Neighbours(M) \o Neighbours(Q)
  <2>1. a - 1 <= b /\ Len(f) <= Len(f)
    BY <1>1
  <2> QED
    BY <1>1, <2>1, NeighboursSplit
<1>8. Neighbours(P) \in Seq(Line) /\ Neighbours(Q) \in Seq(Line)
  BY <1>2, NeighboursJoin DEF Files
<1>9. Neighbours(P \o Q) = Neighbours(P) \o Neighbours(Q)
  BY <1>2, NeighboursJoin
<1>10. Cut(f, a, b) = P \o Q
  BY DEF Cut
<1> HIDE DEF P, Q, M, R
<1>11. Neighbours(R) = Neighbours(Q)
  BY <1>4, <1>7, <1>8, ConcatEmptySeq
<1> QED
  BY <1>6, <1>9, <1>10, <1>11

(* So does putting the canonical text in their place.                      *)
LEMMA PutKeeps ==
  ASSUME NEW w \in Files, NEW s \in Nat \ {0}, NEW e \in s..Len(w),
         \A i \in s..e : ~IsNeighbour(w[i])
  PROVE  Neighbours(PutCanonical(w, s, e)) = Neighbours(w)
<1> DEFINE P == SubSeq(w, 1, s - 1)
           Q == SubSeq(w, e + 1, Len(w))
<1>1. Len(w) \in Nat /\ e \in Nat /\ s <= e /\ e <= Len(w) /\ s - 1 < Len(w)
  BY FileType
<1>2. P \in Files /\ Q \in Files
  BY <1>1, PartOf
<1>3. Neighbours(CANONICAL) = <<>>
  <2>1. ASSUME NEW i \in 1..6 PROVE ~IsNeighbour(CANONICAL[i])
    <3>1. i = 1 \/ i = 2 \/ i = 3 \/ i = 4 \/ i = 5 \/ i = 6
      OBVIOUS
    <3>2. CANONICAL[i].of \in {"own", "none", "ambient"}
      BY <3>1, CanonicalText DEF Blank
    <3> QED
      BY <3>2 DEF IsNeighbour
  <2> QED
    BY <2>1, CanonicalText, NeighboursNone
<1>4. PutCanonical(w, s, e) = (P \o CANONICAL) \o Q
  BY <1>1 DEF PutCanonical, FirstLines
<1>5. Cut(w, s, e) = P \o Q
  BY DEF Cut
<1> HIDE DEF P, Q
<1> DEFINE C == P \o CANONICAL
<1>6. C \in Files /\ CANONICAL \in Files
  BY <1>2, CanonicalText, JoinLines
<1>7. Neighbours(C) = Neighbours(P) \o <<>> /\ Neighbours(P) \in Seq(Line)
  <2>1. Neighbours(C) = Neighbours(P) \o Neighbours(CANONICAL) /\ Neighbours(P) \in Files
    BY <1>2, <1>6, NeighboursJoin
  <2> QED
    BY <1>3, <2>1 DEF Files
<1>8. Neighbours(C) = Neighbours(P)
  BY <1>7, ConcatEmptySeq
<1>9. Neighbours(C \o Q) = Neighbours(P) \o Neighbours(Q)
  <2> HIDE DEF C
  <2>1. Neighbours(C \o Q) = Neighbours(C) \o Neighbours(Q)
    BY <1>2, <1>6, NeighboursJoin
  <2> QED
    BY <1>8, <2>1
<1>10. Neighbours(P \o Q) = Neighbours(P) \o Neighbours(Q)
  BY <1>2, NeighboursJoin
<1>11. Neighbours(Cut(w, s, e)) = Neighbours(w)
  BY CutKeeps
<1> QED
  BY <1>4, <1>5, <1>9, <1>10, <1>11

(* Where no body is left of another function, the span of a target holds     *)
(* none of a neighbour's lines.                                              *)
LEMMA SpanLines ==
  ASSUME NEW f \in Files, NEW name \in Found(f), Whole(f),
         NEW i \in Start(f, name)..SpanEnd(f, name)
  PROVE  ~IsNeighbour(f[i])
<1> DEFINE s == Start(f, name)
           e == SpanEnd(f, name)
<1>1. s \in 1..Len(f) /\ f[s].head /\ f[s].of = name
  BY StartsAtHead
<1>2. e \in s..Len(f) /\ \A j \in (s + 1)..e : ~f[j].head
  BY SpanOf
<1>3. Len(f) \in Nat /\ i \in s..e /\ name \in Targets
  BY FileType DEF Found
<1> HIDE DEF s, e
<1>4. CASE i = s
  BY <1>1, <1>3, <1>4 DEF IsNeighbour, Targets
<1>5. CASE i # s
  <2>1. i \in 1..Len(f) /\ ~f[i].head /\ s < i
    BY <1>1, <1>2, <1>3, <1>5
  <2>2. CASE f[i] = Blank
    BY <2>2 DEF Blank, IsNeighbour
  <2>3. CASE f[i] # Blank
    <3> DEFINE H == {h \in Heads(f) : h < i}
    <3>1. s \in H
      BY <1>1, <2>1, FileType DEF Heads
    <3>2. ASSUME NEW h \in H PROVE h \in Int /\ h <= s
      <4>1. h \in 1..Len(f) /\ f[h].head /\ h < i
        BY FileType DEF Heads
      <4>2. ~(h \in (s + 1)..e)
        BY <1>2, <4>1
      <4> QED
        BY <1>1, <1>2, <1>3, <4>1, <4>2
    <3>3. LastOf(H) = s
      <4> HIDE DEF H
      <4> QED
        BY <3>1, <3>2, LastOne
    <3>4. f[LastOf(H)].of = f[i].of
      BY <2>1, <2>3, FileType DEF Whole, IsBody
    <3> QED
      BY <1>1, <1>3, <3>3, <3>4 DEF IsNeighbour, Targets
  <2> QED
    BY <2>2, <2>3
<1> QED
  BY <1>4, <1>5

(* The other function last and nothing cut short before: every neighbour     *)
(* survives.                                                                 *)
LEMMA SpliceKeepsNeighbours ==
  ASSUME NEW f \in Files, "own" \in Found(f), InOrder(f), Whole(f)
  PROVE  Neighbours(Splice(f)) = Neighbours(f)
<1> DEFINE w == WithoutExtra(f)
           s == Start(f, "own")
           e == SpanEnd(f, "own")
<1>1. Len(f) \in Nat
  BY FileType
<1>2. Neighbours(w) = Neighbours(f)
  <2>1. CASE "ambient" \notin Found(f)
    BY <2>1 DEF WithoutExtra
  <2>2. CASE "ambient" \in Found(f)
    <3> DEFINE t == Start(f, "ambient")
               a == EatenFrom(f, t)
               b == SpanEnd(f, "ambient")
    <3>1. w = Cut(f, a, b)
      BY <2>2 DEF WithoutExtra
    <3>2. t \in 1..Len(f) /\ b \in t..Len(f)
      BY <2>2, StartsAtHead, SpanOf
    <3>3. \A i \in t..b : ~IsNeighbour(f[i])
      BY <2>2, SpanLines
    <3>4. a \in 1..t /\ \A i \in a..(t - 1) : f[i] = Blank
      <4> HIDE DEF t
      <4> QED
        BY <3>2, EatenBlank
    <3> HIDE DEF t, a, b, w
    <3>5. a \in Nat \ {0} /\ b \in a..Len(f)
      BY <1>1, <3>2, <3>4
    <3>6. ASSUME NEW i \in a..b PROVE ~IsNeighbour(f[i])
      <4>1. CASE i < t
        BY <3>2, <3>4, <4>1 DEF Blank, IsNeighbour
      <4>2. CASE i >= t
        BY <3>2, <3>3, <4>2
      <4> QED
        BY <3>2, <3>4, <4>1, <4>2
    <3> QED
      BY <3>1, <3>5, <3>6, CutKeeps
  <2> QED
    BY <2>1, <2>2
<1>3. w \in Files /\ \A i \in 1..(CutFrom(f) - 1) : w[i] = f[i]
  BY LeftLines
<1>4. s \in Nat \ {0} /\ s <= e /\ e \in Nat /\ e <= Len(w)
  BY SpliceInOrder
<1>5. e < CutFrom(f) /\ CutFrom(f) \in Nat
  BY CutAfterOwn, CutRange, <1>1
<1>6. \A i \in s..e : ~IsNeighbour(f[i])
  BY SpanLines
<1>7. Splice(f) = PutCanonical(w, s, e)
  BY DEF Splice
<1>8. Len(w) \in Nat
  BY <1>3, FileType
<1> HIDE DEF w, s, e
<1>9. e \in s..Len(w)
  BY <1>4, <1>8
<1>10. ASSUME NEW i \in s..e PROVE ~IsNeighbour(w[i])
  <2>1. i \in 1..(CutFrom(f) - 1)
    BY <1>4, <1>5
  <2>2. w[i] = f[i]
    BY <1>3, <2>1
  <2> QED
    BY <1>6, <2>2
<1>11. Neighbours(PutCanonical(w, s, e)) = Neighbours(w)
  BY <1>3, <1>4, <1>9, <1>10, PutKeeps
<1> QED
  BY <1>2, <1>7, <1>11

(***************************************************************************)
(* What the dialog offers.                                                 *)
(***************************************************************************)

(* Of Pi's answer the canonical functions keep the models, all rows of the   *)
(* table and nothing else.                                                   *)
LEMMA AmbientRight ==
  ASSUME NEW cli \in Answers
  PROVE  Ambient(cli) \subseteq cli.models /\ (cli.models # {} => Ambient(cli) # {})
<1>1. CASE cli.models = {} /\ cli.lines \in {<<>>, <<Notice>>, <<"blank", Notice>>, <<Header>>}
  <2>1. ASSUME NEW i \in InTable(cli.lines) PROVE FALSE
    <3>1. i \in 1..Len(cli.lines) /\ \E h \in 1..(i - 1) : cli.lines[h] = Header
      BY DEF InTable
    <3> DEFINE l == cli.lines
    <3>2. CASE l = <<>>
      BY <3>1, <3>2
    <3>3. CASE l = <<Notice>> \/ l = <<Header>>
      <4>1. Len(l) = 1
        BY <3>3
      <4> QED
        BY <3>1, <4>1
    <3>4. CASE l = <<"blank", Notice>>
      <4>1. Len(l) = 2 /\ l[1] = "blank"
        BY <3>4
      <4> QED
        BY <3>1, <4>1 DEF Header
    <3> QED
      BY <1>1, <3>2, <3>3, <3>4
  <2>2. Ambient(cli) = {}
    BY <2>1 DEF Ambient
  <2> QED
    BY <1>1, <2>2
<1>2. ASSUME NEW m \in Models, NEW n \in Models, cli.models = {m, n}, ~cli.failed,
             cli.lines \in Tables(<<m, n>>)
      PROVE  Ambient(cli) \subseteq cli.models /\ Ambient(cli) # {}
  <2> DEFINE l == cli.lines
  <2>1. /\ m # Header /\ n # Header /\ m # Notice /\ n # Notice
        /\ m \notin Noise /\ n \notin Noise
    BY ModelsAssumption
  <2>2. Ambient(cli) = {Qualified(l[i]) : i \in {j \in InTable(l) : IsRow(l[j])}}
    BY <1>2 DEF Ambient
  <2>3. CASE l = <<Header>> \o <<m, n>>
    <3>1. Len(l) = 3 /\ l[1] = Header /\ l[2] = m /\ l[3] = n
      BY <2>3
    <3> HIDE DEF l
    <3>2. ASSUME NEW i \in InTable(l) PROVE l[i] \in {m, n}
      <4>1. i = 2 \/ i = 3
        BY <3>1 DEF InTable
      <4> QED
        BY <3>1, <4>1
    <3>3. 2 \in InTable(l)
      BY <3>1 DEF InTable
    <3>4. IsRow(l[2]) /\ Qualified(l[2]) = m
      BY <2>1, <3>1 DEF IsRow, Qualified
    <3>5. \A i \in InTable(l) : Qualified(l[i]) \in {m, n}
      BY <2>1, <3>2 DEF Qualified
    <3> QED
      BY <1>2, <2>2, <3>3, <3>4, <3>5
  <2>4. CASE l = <<"blank", Header, "separator">> \o <<m, n>> \o <<"blank">>
    <3>1. Len(l) = 6 /\ l[1] = "blank" /\ l[2] = Header /\ l[3] = "separator" /\ l[4] = m /\ l[5] = n /\ l[6] = "blank"
      BY <2>4
    <3> HIDE DEF l
    <3>2. ASSUME NEW i \in InTable(l), IsRow(l[i]) PROVE l[i] \in {m, n}
      <4>1. i \in 1..6 /\ i # 1
        BY <3>1 DEF InTable
      <4>2. i # 2
        BY <3>1 DEF InTable, Header
      <4>3. i = 3 \/ i = 4 \/ i = 5 \/ i = 6
        BY <4>1, <4>2
      <4>4. i # 3 /\ i # 6
        BY <3>1, <3>2 DEF IsRow, Noise
      <4> QED
        BY <3>1, <4>3, <4>4
    <3>3. 4 \in InTable(l)
      BY <3>1 DEF InTable
    <3>4. IsRow(l[4]) /\ Qualified(l[4]) = m
      BY <2>1, <3>1 DEF IsRow, Qualified
    <3>5. \A i \in InTable(l) : IsRow(l[i]) => Qualified(l[i]) \in {m, n}
      BY <2>1, <3>2 DEF Qualified
    <3> QED
      BY <1>2, <2>2, <3>3, <3>4, <3>5
  <2> QED
    BY <1>2, <2>3, <2>4 DEF Tables
<1>3. \/ cli.models = {} /\ cli.lines \in {<<>>, <<Notice>>, <<"blank", Notice>>, <<Header>>}
      \/ \E m, n \in Models : cli.models = {m, n} /\ ~cli.failed /\ cli.lines \in Tables(<<m, n>>)
  <2> DEFINE A == {[failed |-> f, lines |-> l, models |-> {}] :
                   f \in BOOLEAN, l \in {<<>>, <<Notice>>, <<"blank", Notice>>, <<Header>>}}
             T(m, n) == {[failed |-> FALSE, lines |-> t, models |-> {m, n}] : t \in Tables(<<m, n>>)}
  <2>1. Answers = A \cup UNION {T(m, n) : m, n \in Models}
    BY DEF Answers
  <2>2. CASE cli \in A
    BY <2>2
  <2>3. CASE \E m, n \in Models : cli \in T(m, n)
    <3>1. PICK m \in Models, n \in Models : cli \in T(m, n)
      BY <2>3
    <3>2. cli.models = {m, n} /\ cli.failed = FALSE /\ cli.lines \in Tables(<<m, n>>)
      BY <3>1
    <3> QED
      BY <3>2
  <2>4. cli \in A \/ \E m, n \in Models : cli \in T(m, n)
    <3> HIDE DEF A, T
    <3> DEFINE U == {T(m, n) : m, n \in Models}
    <3>1. cli \in A \/ cli \in UNION U
      BY <2>1
    <3>2. ASSUME cli \in UNION U PROVE \E m, n \in Models : cli \in T(m, n)
      <4>1. PICK X \in U : cli \in X
        BY <3>2
      <4>2. PICK m \in Models, n \in Models : X = T(m, n)
        OBVIOUS
      <4> QED
        BY <4>1, <4>2
    <3> QED
      BY <3>1, <3>2
  <2> HIDE DEF A, T
  <2> QED
    BY <2>2, <2>3, <2>4
<1> QED
  BY <1>1, <1>2, <1>3

(***************************************************************************)
(* Every step of the patch and of the others.                              *)
(***************************************************************************)

\* Between the reading of the module and the rename.
Working == {"keep", "copy", "write", "check", "replace"}

\* What a run that came to its end leaves in the module.
Settles(file) ==
  file # Missing /\ Patchable(file) /\ InOrder(file) /\ Once(file) => Canonical(file)

\* While nobody interferes, what was read is what is there and the version is
\* the one that was looked at; what was written is the spliced text, and what is
\* about to be installed was checked.
PatchInv ==
  /\ TypeOK
  /\ pc # "idle" => ~settled
  /\ pc # "idle" /\ ~touched => version = Expected
  /\ pc \in Working /\ ~touched => original = module
  /\ pc \in {"check", "replace"} => tmp = Splice(original)
  /\ pc = "replace" => Valid(tmp)
  /\ Converged

(* A file that is left alone needs nothing.                                *)
LEMMA LeftAlone ==
  ASSUME NEW f, f \in Files \/ f = Missing, ~(Patchable(f) /\ ~AlreadyCanonical(f))
  PROVE  Settles(f)
<1> SUFFICES ASSUME f # Missing, Patchable(f), Once(f) PROVE Canonical(f)
  BY DEF Settles
<1>1. f \in Files /\ "own" \in Found(f) /\ Splice(f) = f
  BY DEF Patchable, AlreadyCanonical
<1>2. Found(f) = Targets /\ f[Start(f, "own")].text = "canon" /\ f[Start(f, "ambient")].text = "canon"
  BY <1>1, SpliceOwn
<1> QED
  BY <1>2 DEF Canonical, Targets

(* What splice makes of a file needs nothing more.                         *)
LEMMA SplicedSettles ==
  ASSUME NEW f \in Files, "own" \in Found(f) PROVE Settles(Splice(f))
<1> DEFINE r == Splice(f)
<1> SUFFICES ASSUME Once(r) PROVE Canonical(r)
  BY DEF Settles
<1>1. Found(r) = Targets /\ r[Start(r, "own")].text = "canon" /\ r[Start(r, "ambient")].text = "canon"
  BY SpliceOwn
<1> QED
  BY <1>1 DEF Canonical, Targets

(* A file whose splice is rejected is none that could have been patched.     *)
LEMMA RejectedSettles ==
  ASSUME NEW f \in Files, ~Valid(Splice(f)) PROVE Settles(f)
BY SpliceValid DEF Settles, Patchable

(* What was read is a file with the function, and its splice is a file.      *)
LEMMA ReadFile ==
  ASSUME NEW f \in Files, Patchable(f)
  PROVE  "own" \in Found(f) /\ Splice(f) \in Files
<1>1. "own" \in Found(f)
  BY DEF Patchable
<1> QED
  BY <1>1, SpliceLines

(* The steps of the patch keep the types ...                               *)
LEMMA PatchTypes == ASSUME PatchInv, Patch PROVE TypeOK'
<1> USE DEF PatchInv, TypeOK
<1>1. CASE Gate
  BY <1>1 DEF Gate
<1>2. CASE Read
  <2>1. Missing \notin Files /\ <<>> \in Files
    BY PatchAssumption DEF Files
  <2> QED
    BY <1>2, <2>1 DEF Read, GiveUp, NoEvent, Patchable
<1>3. CASE KeepOrig
  <2>1. <<>> \in Files /\ Missing \notin Files
    BY PatchAssumption DEF Files
  <2> QED
    BY <1>3, <2>1 DEF KeepOrig, NoOrig, NoEvent
<1>4. CASE CopyOrig
  BY <1>4, PatchAssumption DEF CopyOrig, NoEvent, Working, Patchable
<1>5. CASE WriteTmp
  <2>1. Splice(original) \in Files
    BY <1>5, ReadFile DEF WriteTmp
  <2> QED
    BY <1>5, <2>1 DEF WriteTmp, NoEvent
<1>6. CASE CheckTmp
  <2>1. <<>> \in Files
    BY DEF Files
  <2> QED
    BY <1>6, <2>1 DEF CheckTmp, GiveUp, NoEvent
<1>7. CASE Replace
  <2>1. <<>> \in Files
    BY DEF Files
  <2> QED
    BY <1>7, <2>1 DEF Replace, GiveUp, NoEvent
<1> QED
  BY <1>1, <1>2, <1>3, <1>4, <1>5, <1>6, <1>7 DEF Patch

(* ... and so do deaths and the others.                                    *)
LEMMA OtherTypes == ASSUME PatchInv, Dies \/ Upgrade \/ HandEdit PROVE TypeOK'
<1> USE DEF PatchInv, TypeOK
<1>1. <<>> \in Files
  BY DEF Files
<1>2. events' \in 0..MaxEvents
  BY PatchAssumption DEF Dies, Upgrade, HandEdit, Disturbs, Happens
<1>3. CASE Dies
  BY <1>1, <1>2, <1>3 DEF Dies, GiveUp
<1>4. CASE Upgrade
  BY <1>2, <1>4, PatchAssumption DEF Upgrade, Disturbs
<1>5. CASE HandEdit
  BY <1>2, <1>5, PatchAssumption DEF HandEdit, Disturbs
<1> QED
  BY <1>3, <1>4, <1>5

(* Every step keeps the invariant.                                         *)
LEMMA StepKeeps == ASSUME PatchInv, [Next]_vars PROVE PatchInv'
<1>1. ASSUME NEW f PROVE
        Settles(f) <=> (f # Missing => (Patchable(f) /\ InOrder(f) /\ Once(f) => Canonical(f)))
  BY DEF Settles
<1>2. /\ Converged <=> (pc = "idle" /\ settled /\ version = Expected => Settles(module))
      /\ Converged' <=> (pc' = "idle" /\ settled' /\ version' = Expected => Settles(module'))
  BY <1>1 DEF Converged
<1>3. CASE Gate
  <2>1. TypeOK'
    BY <1>3, PatchTypes DEF Patch
  <2>2. Converged'
    BY <1>2, <1>3 DEF Gate, Validated
  <2> QED
    BY <1>3, <2>1, <2>2 DEF Gate, Validated, PatchInv, Working
<1>4. CASE Read
  <2>1. TypeOK'
    BY <1>4, PatchTypes DEF Patch
  <2>2. Converged'
    <3>1. CASE Patchable(module) /\ ~AlreadyCanonical(module)
      BY <1>2, <1>4, <3>1 DEF Read
    <3>2. CASE ~(Patchable(module) /\ ~AlreadyCanonical(module))
      <4>1. Settles(module)
        BY <3>2, LeftAlone DEF PatchInv, TypeOK
      <4> QED
        BY <1>2, <1>4, <4>1 DEF Read
    <3> QED
      BY <3>1, <3>2
  <2> QED
    BY <1>4, <2>1, <2>2 DEF Read, GiveUp, NoEvent, PatchInv, Working
<1>5. CASE KeepOrig
  <2>1. TypeOK'
    BY <1>5, PatchTypes DEF Patch
  <2>2. Converged'
    BY <1>2, <1>5 DEF KeepOrig
  <2> QED
    BY <1>5, <2>1, <2>2 DEF KeepOrig, NoEvent, PatchInv, Working
<1>6. CASE CopyOrig
  <2>1. TypeOK'
    BY <1>6, PatchTypes DEF Patch
  <2>2. Converged'
    BY <1>2, <1>6 DEF CopyOrig
  <2> QED
    BY <1>6, <2>1, <2>2 DEF CopyOrig, NoEvent, PatchInv, Working
<1>7. CASE WriteTmp
  <2>1. TypeOK'
    BY <1>7, PatchTypes DEF Patch
  <2>2. Converged'
    BY <1>2, <1>7 DEF WriteTmp
  <2> QED
    BY <1>7, <2>1, <2>2 DEF WriteTmp, NoEvent, PatchInv, Working
<1>8. CASE CheckTmp
  <2>1. TypeOK'
    BY <1>8, PatchTypes DEF Patch
  <2>2. tmp = Splice(original) /\ original \in Files /\ (~touched => original = module)
    BY <1>8 DEF CheckTmp, PatchInv, TypeOK, Working
  <2>3. CASE Valid(tmp)
    <3>1. Converged'
      BY <1>2, <1>8, <2>3 DEF CheckTmp
    <3> QED
      BY <1>8, <2>1, <2>3, <3>1 DEF CheckTmp, NoEvent, PatchInv, Working, Valid
  <2>4. CASE ~Valid(tmp)
    <3>1. Converged'
      <4>1. ~touched => Settles(module)
        BY <2>2, <2>4, RejectedSettles
      <4> QED
        BY <1>2, <1>8, <2>4, <4>1 DEF CheckTmp
    <3> QED
      BY <1>8, <2>1, <2>4, <3>1 DEF CheckTmp, GiveUp, NoEvent, PatchInv, Working
  <2> QED
    BY <2>3, <2>4
<1>9. CASE Replace
  <2>1. TypeOK'
    BY <1>9, PatchTypes DEF Patch
  <2>2. Converged'
    <3>1. tmp = Splice(original) /\ original \in Files /\ Patchable(original)
      BY <1>9 DEF Replace, PatchInv, TypeOK
    <3>2. Settles(module')
      BY <1>9, <3>1, ReadFile, SplicedSettles DEF Replace
    <3> QED
      BY <1>2, <3>2
  <2> QED
    BY <1>9, <2>1, <2>2 DEF Replace, GiveUp, NoEvent, PatchInv, Working
<1>10. CASE Dies
  <2>1. TypeOK'
    BY <1>10, OtherTypes
  <2>2. Converged'
    BY <1>2, <1>10 DEF Dies
  <2> QED
    BY <1>10, <2>1, <2>2 DEF Dies, GiveUp, PatchInv, Working
<1>11. CASE Upgrade \/ HandEdit
  <2>1. TypeOK'
    BY <1>11, OtherTypes
  <2>2. touched' = TRUE /\ settled' = FALSE /\ UNCHANGED <<tmp, pc, original>>
    BY <1>11 DEF Upgrade, HandEdit, Disturbs
  <2>3. Converged'
    BY <1>2, <2>2
  <2> QED
    BY <2>1, <2>2, <2>3 DEF PatchInv, Valid
<1>12. CASE UNCHANGED vars
  <2>1. TypeOK'
    BY <1>12 DEF PatchInv, TypeOK, vars
  <2>2. Converged'
    BY <1>2, <1>12 DEF PatchInv, vars
  <2> QED
    BY <1>12, <2>1, <2>2 DEF vars, PatchInv, Valid
<1> QED
  BY <1>3, <1>4, <1>5, <1>6, <1>7, <1>8, <1>9, <1>10, <1>11, <1>12 DEF Next, Patch

(* The invariant holds from the start.                                     *)
LEMMA StartsRight == ASSUME Init PROVE PatchInv
<1>1. <<>> \in Files /\ Fresh[version] \in Files /\ version \in Versions /\ 0 \in 0..MaxEvents
  BY PatchAssumption DEF Init, Files
<1>2. TypeOK
  BY <1>1 DEF Init, TypeOK
<1>3. Converged
  BY DEF Init, Converged
<1> QED
  BY <1>2, <1>3 DEF Init, PatchInv, Working

(* The invariant, for any layouts and versions and any number of events.     *)
THEOREM PatchInvariant == Spec => []PatchInv
<1>1. Init => PatchInv
  BY StartsRight
<1>2. PatchInv /\ [Next]_vars => PatchInv'
  BY StepKeeps
<1> QED
  BY <1>1, <1>2, PTL DEF Spec

(* Every file on the disk is a file or not there, what the run works on is   *)
(* one it can patch, and the original is kept before anything is written.    *)
THEOREM TypeCorrect == Spec => []TypeOK
<1>1. PatchInv => TypeOK
  BY DEF PatchInv
<1> QED
  BY <1>1, PatchInvariant, PTL

(* "divergent hand-edits converge": after a run nobody disturbed both        *)
(* functions are the canonical ones, whatever earlier runs left behind, if   *)
(* the second one comes last and once.                                       *)
THEOREM EditsConverge == Spec => []Converged
<1>1. PatchInv => Converged
  BY DEF PatchInv
<1> QED
  BY <1>1, PatchInvariant, PTL

(* Only the rename ends a run and is no event; it installs what was checked. *)
LEMMA OnlyRename ==
  ASSUME PatchInv, [Next]_vars, Installs
  PROVE  /\ Valid(module')
         /\ ~touched => module' = Splice(module) /\ module \in Files /\ Patchable(module)
<1>1. events \in Nat /\ events + 1 # events
  BY PatchAssumption DEF PatchInv, TypeOK
<1>2. Replace
  <2>1. ~Dies /\ ~Upgrade /\ ~HandEdit /\ ~UNCHANGED vars
    BY <1>1 DEF Installs, Dies, Upgrade, HandEdit, Disturbs, Happens, vars
  <2> QED
    BY <2>1 DEF Installs, Next, Patch, Gate, Read, KeepOrig, CopyOrig, WriteTmp, CheckTmp
<1>3. pc = "replace" /\ module' = tmp
  BY <1>2 DEF Replace
<1>4. tmp = Splice(original) /\ Valid(tmp) /\ original \in Files /\ Patchable(original)
  BY <1>3 DEF PatchInv, TypeOK
<1>5. ~touched => original = module
  BY <1>3 DEF PatchInv, Working
<1>6. Valid(module')
  BY <1>3, <1>4 DEF Valid
<1> QED
  BY <1>3, <1>4, <1>5, <1>6

(* "the result must parse and must still define both functions": what the    *)
(* patch installs does, whatever edition it finds, whatever others do to the *)
(* module or its version between two of its steps and wherever an earlier    *)
(* run was killed.                                                           *)
THEOREM ModuleStaysValid == Spec => NeverBreaksTheModule
<1>1. PatchInv /\ [Next]_vars => [Installs => Parses(module') /\ Found(module') = Targets]_vars
  BY OnlyRename DEF Valid
<1> QED
  BY <1>1, PatchInvariant, PTL DEF Spec, NeverBreaksTheModule

(* "Neighbours survive; only the target is spliced": what a run installs has *)
(* every line of the other functions of the file it found, in their order,   *)
(* if the function that is cut out comes last, no body is left of a function *)
(* that was cut before and nobody changed the file meanwhile.                *)
THEOREM NeighboursKept == Spec => NeighboursSurvive
<1>1. PatchInv /\ [Next]_vars =>
        [Installs /\ ~touched /\ InOrder(module) /\ Whole(module) =>
           Neighbours(module') = Neighbours(module)]_vars
  <2> SUFFICES ASSUME PatchInv, [Next]_vars, Installs, ~touched, InOrder(module), Whole(module)
               PROVE  Neighbours(module') = Neighbours(module)
    OBVIOUS
  <2>1. module' = Splice(module) /\ module \in Files /\ "own" \in Found(module)
    BY OnlyRename DEF Patchable
  <2>2. Neighbours(Splice(module)) = Neighbours(module)
    BY <2>1, SpliceKeepsNeighbours
  <2> QED
    BY <2>1, <2>2
<1> QED
  BY <1>1, PatchInvariant, PTL DEF Spec, NeighboursSurvive

(* Once the canonical functions are in the file the dialog offers models Pi  *)
(* can start only, does not read the notice of an empty Pi as one and misses *)
(* none Pi has, for any models and whoever is logged in.                     *)
THEOREM PickerRight == Spec => []PickerOffersWhatPiKnows
<1>1. PickerOffersWhatPiKnows
  <2> SUFFICES ASSUME NEW cli \in Answers, NEW logged_in \in SUBSET {"a", "b"}
               PROVE  LET store == [p \in {"a"} |-> Models]
                          offered == Options(store, logged_in, cli)
                      IN  /\ offered \subseteq cli.models \cup FromStore(store, logged_in)
                          /\ cli.models # {} => offered # {}
    BY DEF PickerOffersWhatPiKnows
  <2> DEFINE store == [p \in {"a"} |-> Models]
             own == FromStore(store, logged_in)
  <2>1. Options(store, logged_in, cli) = IF own = {} THEN Ambient(cli) ELSE own
    BY DEF Options
  <2>2. Ambient(cli) \subseteq cli.models /\ (cli.models # {} => Ambient(cli) # {})
    BY AmbientRight
  <2> DEFINE offered == Options(store, logged_in, cli)
  <2> HIDE DEF store
  <2>3. offered \subseteq cli.models \cup own /\ (cli.models # {} => offered # {})
    <3> HIDE DEF own, offered
    <3>1. offered = IF own = {} THEN Ambient(cli) ELSE own
      BY <2>1 DEF own, offered
    <3>2. CASE own = {}
      BY <2>2, <3>1, <3>2
    <3>3. CASE own # {}
      BY <3>1, <3>3
    <3> QED
      BY <3>2, <3>3
  <2> QED
    BY <2>3 DEF store
<1> QED
  BY <1>1, PTL
=============================================================================
