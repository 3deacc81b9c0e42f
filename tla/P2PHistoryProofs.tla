-------------------------- MODULE P2PHistoryProofs --------------------------
(***************************************************************************)
(* Proof that the two files of a chat agree.                               *)
(*                                                                         *)
(* What one peer says and the other hears is one direction of the chat.    *)
(* All that matters of it is put into a record, its view, so that the      *)
(* definitions and lemmas below are about values and not about the state.  *)
(***************************************************************************)
EXTENDS P2PChatProofs, SequenceTheorems

-----------------------------------------------------------------------------
(* Histories: the lines of p, and their numbers. *)

Of(h, p) == {i \in DOMAIN h : h[i].from = p}
Rank(h, p, i) == Cardinality({j \in Of(h, p) : j <= i})
Number(h, p) == Cardinality(Of(h, p))

\* x is the n-th line of p.
Stands(h, p, n, x) == \E i \in Of(h, p) : Rank(h, p, i) = n /\ x = h[i]

LEMMA OfFinite ==
  ASSUME NEW h \in Seq(Line), NEW p \in Peers
  PROVE  /\ IsFiniteSet(Of(h, p)) /\ Number(h, p) \in Nat
         /\ \A i : {j \in Of(h, p) : j <= i} \subseteq Of(h, p)
         /\ Of(h, p) \subseteq 1 .. Len(h)
<1>1. Of(h, p) \subseteq 1 .. Len(h) /\ Len(h) \in Nat
  BY DEF Of
<1>2. IsFiniteSet(1 .. Len(h))
  BY <1>1, FS_Interval
<1>3. IsFiniteSet(Of(h, p))
  BY <1>1, <1>2, FS_Subset
<1>4. Number(h, p) \in Nat
  BY <1>3, FS_CardinalityType DEF Number
<1> QED
  BY <1>1, <1>3, <1>4

LEMMA StandsBound ==
  ASSUME NEW h \in Seq(Line), NEW p \in Peers, NEW n, NEW x, Stands(h, p, n, x)
  PROVE  n \in 1 .. Number(h, p) /\ x \in Line
<1>1. PICK i \in Of(h, p) : Rank(h, p, i) = n /\ x = h[i]
  BY DEF Stands
<1>2. i \in 1 .. Len(h)
  BY OfFinite
<1>3. x \in Line
  BY <1>1, <1>2
<1> DEFINE upTo == {j \in Of(h, p) : j <= i}
<1>4. upTo \subseteq Of(h, p) /\ i \in upTo
  BY <1>2
<1>5. IsFiniteSet(upTo) /\ Cardinality(upTo) <= Number(h, p)
  BY <1>4, OfFinite, FS_Subset DEF Number
<1>6. Cardinality(upTo) \in Nat /\ Cardinality(upTo) # 0
  BY <1>4, <1>5, FS_CardinalityType, FS_EmptySet
<1>7. Cardinality(upTo) = n
  BY <1>1 DEF Rank
<1>8. Number(h, p) \in Nat
  BY OfFinite
<1> QED
  BY <1>3, <1>5, <1>6, <1>7, <1>8

\* The line of another changes nothing; one of p's is the next of them.
LEMMA OfAppend ==
  ASSUME NEW h \in Seq(Line), NEW p \in Peers, NEW l \in Line
  PROVE  /\ l.from # p => Of(Append(h, l), p) = Of(h, p)
         /\ l.from = p => Of(Append(h, l), p) = Of(h, p) \cup {Len(h) + 1}
         /\ \A i \in 1 .. Len(h) : Append(h, l)[i] = h[i] /\ Rank(Append(h, l), p, i) = Rank(h, p, i)
         /\ Append(h, l)[Len(h) + 1] = l
         /\ Len(h) \in Nat
<1>1. /\ Len(h) \in Nat /\ DOMAIN h = 1 .. Len(h)
      /\ DOMAIN Append(h, l) = 1 .. Len(h) + 1
      /\ \A i \in 1 .. Len(h) : Append(h, l)[i] = h[i]
      /\ Append(h, l)[Len(h) + 1] = l
  OBVIOUS
<1>2. 1 .. Len(h) + 1 = (1 .. Len(h)) \cup {Len(h) + 1}
  BY <1>1
<1>3. l.from # p => Of(Append(h, l), p) = Of(h, p)
  BY <1>1, <1>2 DEF Of
<1>4. l.from = p => Of(Append(h, l), p) = Of(h, p) \cup {Len(h) + 1}
  BY <1>1, <1>2 DEF Of
<1>5. ASSUME NEW i \in 1 .. Len(h)
      PROVE  Rank(Append(h, l), p, i) = Rank(h, p, i)
  <2>1. ~(Len(h) + 1 <= i)
    BY <1>1
  <2>2. {j \in Of(Append(h, l), p) : j <= i} = {j \in Of(h, p) : j <= i}
    BY <1>3, <1>4, <2>1
  <2> QED
    BY <2>2 DEF Rank
<1> QED
  BY <1>1, <1>3, <1>4, <1>5

LEMMA NumberAppend ==
  ASSUME NEW h \in Seq(Line), NEW p \in Peers, NEW l \in Line
  PROVE  /\ l.from # p => Number(Append(h, l), p) = Number(h, p)
         /\ l.from = p => Number(Append(h, l), p) = Number(h, p) + 1
<1>1. CASE l.from # p
  BY <1>1, OfAppend DEF Number
<1>2. CASE l.from = p
  <2>1. Of(Append(h, l), p) = Of(h, p) \cup {Len(h) + 1}
    BY <1>2, OfAppend
  <2>2. Len(h) + 1 \notin Of(h, p)
    BY OfFinite
  <2>3. Cardinality(Of(h, p) \cup {Len(h) + 1}) = Cardinality(Of(h, p)) + 1
    <3>1. IsFiniteSet(Of(h, p))
      BY OfFinite
    <3> QED
      BY <2>2, <3>1, FS_AddElement
  <2> QED
    BY <1>2, <2>1, <2>3 DEF Number
<1> QED
  BY <1>1, <1>2

LEMMA StandsAppend ==
  ASSUME NEW h \in Seq(Line), NEW p \in Peers, NEW l \in Line, NEW n, NEW x
  PROVE  /\ l.from # p => (Stands(Append(h, l), p, n, x) <=> Stands(h, p, n, x))
         /\ l.from = p => (Stands(Append(h, l), p, n, x)
                             <=> Stands(h, p, n, x) \/ (n = Number(h, p) + 1 /\ x = l))
<1>1. \A i \in Of(h, p) : i \in 1 .. Len(h)
  BY OfFinite
<1>2. \A i \in Of(h, p) : /\ Rank(Append(h, l), p, i) = Rank(h, p, i)
                          /\ Append(h, l)[i] = h[i]
  BY <1>1, OfAppend
<1>3. CASE l.from # p
  <2>1. Of(Append(h, l), p) = Of(h, p)
    BY <1>3, OfAppend
  <2> QED
    BY <1>2, <1>3, <2>1 DEF Stands
<1>4. CASE l.from = p
  <2>1. Of(Append(h, l), p) = Of(h, p) \cup {Len(h) + 1}
    BY <1>4, OfAppend
  <2>2. {j \in Of(Append(h, l), p) : j <= Len(h) + 1} = Of(Append(h, l), p)
    <3>1. Len(h) \in Nat
      BY OfAppend
    <3> QED
      BY <1>1, <2>1, <3>1
  <2>3. Rank(Append(h, l), p, Len(h) + 1) = Number(h, p) + 1
    BY <1>4, <2>2, NumberAppend DEF Rank, Number
  <2>4. Append(h, l)[Len(h) + 1] = l
    BY OfAppend
  <2> QED
    BY <1>2, <1>4, <2>1, <2>3, <2>4 DEF Stands
<1> QED
  BY <1>3, <1>4

\* The lines of p are the same in two histories.
SameLines(p, h, k) ==
  /\ Number(k, p) = Number(h, p)
  /\ \A n, x : Stands(k, p, n, x) <=> Stands(h, p, n, x)

LEMMA LinesSame ==
  ASSUME NEW h \in Seq(Line), NEW k \in Seq(Line), NEW p \in Peers,
         k = h \/ \E l \in Line : l.from # p /\ k = Append(h, l)
  PROVE  SameLines(p, h, k)
<1>1. CASE k = h
  BY <1>1 DEF SameLines
<1>2. CASE \E l \in Line : l.from # p /\ k = Append(h, l)
  BY <1>2, NumberAppend, StandsAppend DEF SameLines
<1> QED
  BY <1>1, <1>2

-----------------------------------------------------------------------------
(* What the hearer will know when it has read so far: the number of lines, *)
(* the nickname of the speaker, whether it has a file for them.            *)

Words == Lines \cup Nicks \cup {"You", "Peer", "garbled", ""}

Reader == [n : Nat, nick : Words, path : {"unset", "set"}]

IsHeader(half, type) == half.part = "header" /\ half.frame.type = type

After(r, half) ==
  [n    |-> IF IsHeader(half, "LMP_MSG") THEN r.n + 1 ELSE r.n,
   nick |-> IF IsHeader(half, "LMP_NICK") THEN half.frame.text ELSE r.nick,
   path |-> IF IsHeader(half, "LMP_UID") THEN "set" ELSE r.path]

\* g is what it knows after each half of s.
Course(s, g) ==
  /\ g \in [0 .. Len(s) -> Reader]
  /\ \A i \in 1 .. Len(s) : g[i] = After(g[i - 1], s[i])

LEMMA HalfFields ==
  ASSUME NEW half \in GoodHalf
  PROVE  half.part \in {"header", "payload"} /\ half.frame \in GoodFrame
         /\ half.frame.text \in Words
<1>1. half.part \in {"header", "payload"} /\ half.frame \in GoodFrame
  BY DEF GoodHalf
<1> QED
  BY <1>1 DEF GoodFrame, Frame, Words

LEMMA AfterType ==
  ASSUME NEW r \in Reader, NEW half \in GoodHalf
  PROVE  /\ After(r, half) \in Reader
         /\ After(r, half).n = IF IsHeader(half, "LMP_MSG") THEN r.n + 1 ELSE r.n
         /\ After(r, half).nick = IF IsHeader(half, "LMP_NICK") THEN half.frame.text ELSE r.nick
         /\ After(r, half).path = IF IsHeader(half, "LMP_UID") THEN "set" ELSE r.path
         /\ r.n \in Nat
<1>1. half.frame.text \in Words
  BY HalfFields
<1>2. r.n \in Nat /\ r.nick \in Words /\ r.path \in {"unset", "set"}
  BY DEF Reader
<1> QED
  BY <1>1, <1>2 DEF After, Reader

LEMMA CourseAppend ==
  ASSUME NEW s \in Seq(GoodHalf), NEW g, Course(s, g), NEW half \in GoodHalf
  PROVE  \E h : /\ Course(Append(s, half), h)
                /\ \A i \in 0 .. Len(s) : h[i] = g[i]
                /\ h[Len(s) + 1] = After(g[Len(s)], half)
<1> DEFINE N == Len(s)
           h == [i \in 0 .. N + 1 |-> IF i <= N THEN g[i] ELSE After(g[N], half)]
<1>1. /\ N \in Nat /\ Len(Append(s, half)) = N + 1
      /\ \A i \in 1 .. N : Append(s, half)[i] = s[i]
      /\ Append(s, half)[N + 1] = half
  OBVIOUS
<1>2. g \in [0 .. N -> Reader] /\ \A i \in 1 .. N : g[i] = After(g[i - 1], s[i])
  BY DEF Course
<1>3. After(g[N], half) \in Reader
  BY <1>1, <1>2, AfterType
<1> HIDE DEF N
<1>4. h \in [0 .. N + 1 -> Reader] /\ (\A i \in 0 .. N : h[i] = g[i])
        /\ h[N + 1] = After(g[N], half)
  BY <1>1, <1>2, <1>3
<1>5. ASSUME NEW i \in 1 .. N + 1
      PROVE  h[i] = After(h[i - 1], Append(s, half)[i])
  <2>1. i - 1 \in 0 .. N /\ h[i - 1] = g[i - 1]
    BY <1>1, <1>4
  <2>2. CASE i \in 1 .. N
    <3>1. h[i] = g[i] /\ Append(s, half)[i] = s[i] /\ g[i] = After(g[i - 1], s[i])
      BY <1>1, <1>2, <1>4, <2>2
    <3> QED
      BY <2>1, <3>1
  <2>3. CASE i = N + 1
    <3>1. i - 1 = N
      BY <1>1, <2>3
    <3> QED
      BY <1>1, <1>4, <2>1, <2>3, <3>1
  <2> QED
    BY <1>1, <2>2, <2>3
<1> HIDE DEF h
<1>6. Course(Append(s, half), h)
  BY <1>1, <1>4, <1>5 DEF Course
<1> QED
  BY <1>4, <1>6 DEF N

LEMMA CourseCut ==
  ASSUME NEW s \in Seq(GoodHalf), NEW g, Course(s, g), NEW m \in 0 .. Len(s)
  PROVE  /\ Len(SubSeq(s, 1, m)) = m
         /\ \A i \in 1 .. m : SubSeq(s, 1, m)[i] = s[i]
         /\ Course(SubSeq(s, 1, m), [i \in 0 .. m |-> g[i]])
<1>1. Len(s) \in Nat /\ m \in Nat /\ m <= Len(s)
  OBVIOUS
<1>2. Len(SubSeq(s, 1, m)) = m /\ \A i \in 1 .. m : SubSeq(s, 1, m)[i] = s[i]
  BY <1>1
<1> DEFINE h == [i \in 0 .. m |-> g[i]]
<1>3. g \in [0 .. Len(s) -> Reader] /\ \A i \in 1 .. Len(s) : g[i] = After(g[i - 1], s[i])
  BY DEF Course
<1>4. h \in [0 .. m -> Reader]
  BY <1>1, <1>3
<1>5. \A i \in 1 .. m : i \in 0 .. m /\ i - 1 \in 0 .. m /\ i \in 1 .. Len(s)
  BY <1>1
<1>6. \A i \in 1 .. m : h[i] = After(h[i - 1], SubSeq(s, 1, m)[i])
  BY <1>2, <1>3, <1>5
<1> QED
  BY <1>2, <1>4, <1>6 DEF Course

LEMMA CourseDrop ==
  ASSUME NEW s \in Seq(GoodHalf), NEW g, Course(s, g), NEW m \in 0 .. Len(s)
  PROVE  LET rest == SubSeq(s, m + 1, Len(s))
         IN  /\ Len(rest) = Len(s) - m /\ rest \in Seq(GoodHalf)
             /\ \A i \in 1 .. Len(s) - m : rest[i] = s[i + m]
             /\ Course(rest, [i \in 0 .. Len(s) - m |-> g[i + m]])
<1> DEFINE rest == SubSeq(s, m + 1, Len(s))
           N == Len(s) - m
           h == [i \in 0 .. N |-> g[i + m]]
<1>1. Len(s) \in Nat /\ m \in Nat /\ m <= Len(s) /\ N \in Nat
  OBVIOUS
<1>2. Len(rest) = N /\ rest \in Seq(GoodHalf)
  BY <1>1
<1>3. \A i \in 1 .. N : rest[i] = s[i + m]
  <2> TAKE i \in 1 .. N
  <2>1. rest[i] = s[m + 1 + i - 1] /\ m + 1 + i - 1 = i + m
    BY <1>1
  <2> QED
    BY <2>1
<1>4. g \in [0 .. Len(s) -> Reader] /\ \A i \in 1 .. Len(s) : g[i] = After(g[i - 1], s[i])
  BY DEF Course
<1>5. h \in [0 .. N -> Reader]
  <2>1. \A i \in 0 .. N : i + m \in 0 .. Len(s)
    BY <1>1
  <2> QED
    BY <1>4, <2>1
<1>6. ASSUME NEW i \in 1 .. N
      PROVE  h[i] = After(h[i - 1], rest[i])
  <2>1. i + m \in 1 .. Len(s) /\ i \in 0 .. N /\ i - 1 \in 0 .. N /\ (i - 1) + m = (i + m) - 1
    BY <1>1
  <2>2. h[i] = g[i + m] /\ h[i - 1] = g[(i + m) - 1] /\ rest[i] = s[i + m]
    BY <1>3, <2>1
  <2> QED
    BY <1>4, <2>1, <2>2
<1> HIDE DEF h, N
<1>7. Course(rest, h)
  BY <1>2, <1>5, <1>6 DEF Course
<1> QED
  BY <1>2, <1>3, <1>7 DEF h, N

-----------------------------------------------------------------------------
(* Which payload belongs to which header: that of the last header of its   *)
(* thread.  The receiver's thread sends acknowledgements and the user's    *)
(* nothing else.                                                           *)

Acks(f) == f.type = "LMP_ACK"

\* After n halves, a thread has sent the header of f and nothing since.
Open(s, n, f) ==
  \E j \in 1 .. n : /\ s[j] = Header(f)
                    /\ \A k \in j + 1 .. n : Acks(s[k].frame) <=> ~Acks(f)

Paired(s) ==
  \A i \in 1 .. Len(s) : s[i].part = "payload" => Open(s, i - 1, s[i].frame)

LEMMA OpenAppend ==
  ASSUME NEW s \in Seq(GoodHalf), NEW half \in GoodHalf, NEW f
  PROVE  LET t == Append(s, half)
         IN  /\ Len(t) = Len(s) + 1 /\ t \in Seq(GoodHalf)
             /\ \A n \in 0 .. Len(s) : Open(s, n, f) => Open(t, n, f)
             /\ Open(s, Len(s), f) /\ (Acks(half.frame) <=> ~Acks(f)) => Open(t, Len(t), f)
             /\ half = Header(f) => Open(t, Len(t), f)
<1> DEFINE t == Append(s, half)
           N == Len(s)
<1>1. /\ N \in Nat /\ Len(t) = N + 1 /\ t \in Seq(GoodHalf)
      /\ \A i \in 1 .. N : t[i] = s[i]
      /\ t[N + 1] = half
  OBVIOUS
<1> HIDE DEF t, N
<1>2. ASSUME NEW n \in 0 .. N, Open(s, n, f)
      PROVE  Open(t, n, f)
  <2>1. PICK j \in 1 .. n : /\ s[j] = Header(f)
                            /\ \A k \in j + 1 .. n : Acks(s[k].frame) <=> ~Acks(f)
    BY <1>2 DEF Open
  <2>2. \A k \in 1 .. n : t[k] = s[k]
    BY <1>1
  <2>3. \A k \in j + 1 .. n : k \in 1 .. n
    OBVIOUS
  <2> QED
    BY <2>1, <2>2, <2>3 DEF Open
<1>3. ASSUME Open(s, N, f), Acks(half.frame) <=> ~Acks(f)
      PROVE  Open(t, N + 1, f)
  <2>1. PICK j \in 1 .. N : /\ s[j] = Header(f)
                            /\ \A k \in j + 1 .. N : Acks(s[k].frame) <=> ~Acks(f)
    BY <1>3 DEF Open
  <2>2. j \in 1 .. N + 1 /\ t[j] = Header(f)
    BY <1>1, <2>1
  <2>3. ASSUME NEW k \in j + 1 .. N + 1
        PROVE  Acks(t[k].frame) <=> ~Acks(f)
    <3>1. k = N + 1 \/ (k \in j + 1 .. N /\ k \in 1 .. N)
      BY <1>1
    <3> QED
      BY <1>1, <1>3, <2>1, <3>1
  <2> QED
    BY <2>2, <2>3 DEF Open
<1>4. ASSUME half = Header(f)
      PROVE  Open(t, N + 1, f)
  <2>1. N + 1 \in 1 .. N + 1 /\ \A k \in N + 1 + 1 .. N + 1 : FALSE
    BY <1>1
  <2> QED
    BY <1>1, <1>4, <2>1 DEF Open
<1> QED
  BY <1>1, <1>2, <1>3, <1>4 DEF t, N

LEMMA PairedAppend ==
  ASSUME NEW s \in Seq(GoodHalf), NEW half \in GoodHalf, Paired(s),
         half.part = "payload" => Open(s, Len(s), half.frame)
  PROVE  Paired(Append(s, half))
<1> DEFINE t == Append(s, half)
           N == Len(s)
<1>1. /\ N \in Nat /\ Len(t) = N + 1
      /\ \A i \in 1 .. N : t[i] = s[i]
      /\ t[N + 1] = half
  OBVIOUS
<1>2. \A n \in 0 .. N : \A f : Open(s, n, f) => Open(t, n, f)
  BY OpenAppend
<1> HIDE DEF t
<1>3. ASSUME NEW i \in 1 .. N + 1, t[i].part = "payload"
      PROVE  Open(t, i - 1, t[i].frame)
  <2>1. i - 1 \in 0 .. N /\ (i = N + 1 \/ i \in 1 .. N)
    BY <1>1
  <2>2. CASE i = N + 1
    <3>1. i - 1 = N /\ t[i] = half
      BY <1>1, <2>2
    <3>2. Open(s, N, half.frame)
      BY <1>3, <3>1
    <3>3. Open(t, N, half.frame)
      BY <1>2, <2>1, <3>1, <3>2
    <3> QED
      BY <3>1, <3>3
  <2>3. CASE i \in 1 .. N
    <3>1. t[i] = s[i]
      BY <1>1, <2>3
    <3>2. Open(s, i - 1, s[i].frame)
      BY <1>3, <2>3, <3>1 DEF Paired
    <3> QED
      BY <1>2, <2>1, <3>1, <3>2
  <2> QED
    BY <2>1, <2>2, <2>3
<1> QED
  BY <1>1, <1>3 DEF Paired, t

LEMMA PairedCut ==
  ASSUME NEW s \in Seq(GoodHalf), Paired(s), NEW m \in 0 .. Len(s)
  PROVE  Paired(SubSeq(s, 1, m))
<1> DEFINE t == SubSeq(s, 1, m)
<1>1. Len(s) \in Nat /\ m \in Nat /\ m <= Len(s)
  OBVIOUS
<1>2. Len(t) = m /\ \A i \in 1 .. m : t[i] = s[i]
  BY <1>1
<1> HIDE DEF t
<1>3. ASSUME NEW i \in 1 .. m, t[i].part = "payload"
      PROVE  Open(t, i - 1, t[i].frame)
  <2>1. i \in 1 .. Len(s) /\ t[i] = s[i]
    BY <1>1, <1>2
  <2>2. Open(s, i - 1, t[i].frame)
    BY <1>3, <2>1 DEF Paired
  <2>3. PICK j \in 1 .. i - 1 : /\ s[j] = Header(t[i].frame)
                                /\ \A k \in j + 1 .. i - 1 :
                                     Acks(s[k].frame) <=> ~Acks(t[i].frame)
    BY <2>2 DEF Open
  <2>4. \A k \in 1 .. i - 1 : t[k] = s[k]
    BY <1>1, <1>2
  <2>5. \A k \in j + 1 .. i - 1 : k \in 1 .. i - 1
    BY <1>1
  <2> QED
    BY <2>3, <2>4, <2>5 DEF Open
<1> QED
  BY <1>2, <1>3 DEF Paired, t

\* A frame is taken off: its payload follows at once, or is not a payload.
LEMMA PairedDrop ==
  ASSUME NEW s \in Seq(GoodHalf), Paired(s), Len(s) >= 2, NEW f \in GoodFrame,
         s[1] = Header(f), s[2].part = "payload"
  PROVE  LET rest == SubSeq(s, 3, Len(s))
         IN  /\ s[2].frame = f
             /\ Paired(rest)
             /\ \A e : Open(s, Len(s), e) => Open(rest, Len(rest), e)
<1> DEFINE rest == SubSeq(s, 3, Len(s))
           N == Len(s)
<1>1. N \in Nat /\ N >= 2 /\ (N = 2 \/ N >= 3)
  <2>1. N \in Nat /\ N >= 2
    OBVIOUS
  <2> HIDE DEF N
  <2>2. N = 2 \/ N >= 3
    BY <2>1
  <2> QED
    BY <2>1, <2>2
<1>2. Len(rest) = N - 2 /\ \A i \in 1 .. N - 2 : rest[i] = s[i + 2]
  <2>1. \A i \in 1 .. N - 2 : 3 + i - 1 = i + 2
    BY <1>1
  <2>2. Len(rest) = N - 2
    <3>1. CASE N = 2
      BY <3>1
    <3>2. CASE N >= 3
      BY <1>1, <3>2
    <3> QED
      BY <1>1, <3>1, <3>2
  <2>3. \A i \in 1 .. N - 2 : rest[i] = s[3 + i - 1]
    BY <1>1
  <2> QED
    BY <2>1, <2>2, <2>3
<1> HIDE DEF rest
<1>3. \A e : Header(e).part = "header" /\ Header(e).frame = e
  BY DEF Header
<1>4. s[2].frame = f
  <2>1. 2 \in 1 .. N /\ 2 - 1 = 1
    BY <1>1
  <2>2. Open(s, 1, s[2].frame)
    BY <2>1 DEF Paired
  <2>3. s[1] = Header(s[2].frame)
    BY <2>2 DEF Open
  <2>4. Header(f) = Header(s[2].frame)
    BY <2>3
  <2>5. Header(f).frame = f /\ Header(s[2].frame).frame = s[2].frame
    BY <1>3
  <2> QED
    BY <2>4, <2>5
<1>5. ASSUME NEW n \in 2 .. N, NEW e, Open(s, n, e)
      PROVE  Open(rest, n - 2, e)
  <2>1. PICK j \in 1 .. n : /\ s[j] = Header(e)
                            /\ \A k \in j + 1 .. n : Acks(s[k].frame) <=> ~Acks(e)
    BY <1>5 DEF Open
  <2>2. j # 1
    <3> SUFFICES ASSUME j = 1 PROVE FALSE
      OBVIOUS
    <3>1. e = f
      <4>1. Header(f) = Header(e)
        BY <2>1
      <4>2. Header(f).frame = f /\ Header(e).frame = e
        BY <1>3
      <4> QED
        BY <4>1, <4>2
    <3>2. 2 \in j + 1 .. n
      BY <1>1
    <3> QED
      BY <1>4, <2>1, <3>1, <3>2
  <2>3. j # 2
    BY <1>3, <2>1
  <2>4. j - 2 \in 1 .. n - 2 /\ j - 2 \in 1 .. N - 2 /\ (j - 2) + 2 = j
    BY <1>1, <2>2, <2>3
  <2>5. rest[j - 2] = Header(e)
    BY <1>2, <2>1, <2>4
  <2>6. ASSUME NEW k \in (j - 2) + 1 .. n - 2
        PROVE  Acks(rest[k].frame) <=> ~Acks(e)
    <3>1. k \in 1 .. N - 2 /\ k + 2 \in j + 1 .. n
      BY <1>1, <2>4
    <3> QED
      BY <1>2, <2>1, <3>1
  <2> QED
    BY <2>4, <2>5, <2>6 DEF Open
<1>6. ASSUME NEW i \in 1 .. N - 2, rest[i].part = "payload"
      PROVE  Open(rest, i - 1, rest[i].frame)
  <2>1. i + 2 \in 1 .. N /\ (i + 2) - 1 \in 2 .. N /\ ((i + 2) - 1) - 2 = i - 1
    BY <1>1
  <2>2. Open(s, (i + 2) - 1, rest[i].frame)
    BY <1>2, <1>6, <2>1 DEF Paired
  <2> QED
    BY <1>5, <2>1, <2>2
<1>7. N \in 2 .. N
  BY <1>1
<1> QED
  BY <1>2, <1>4, <1>5, <1>6, <1>7 DEF Paired, rest

-----------------------------------------------------------------------------
(* The view of one direction: of the speaker, and of what hears it.        *)

Processes == {"running", "killed", "ended"}
ReceiverPlaces == {"header", "payload", "dispatch", "prepared", "ack", "ack_payload", "done"}

View ==
  [own : Seq(Line), got : Seq(Line),
   user : {"uid", "payload", "waiting", "prompt", "saving", "joining"},
   line : GoodFrame, nick : Words, said : Nat, thread : ReceiverPlaces, runs : Processes,
   at : ReceiverPlaces, frame : GoodFrame, peer : Words, path : {"unset", "set"},
   hears : Processes, torn : {"whole", "torn"}, stream : Seq(GoodHalf)]

\* The view of what p says.
Seen(p) ==
  LET q == Other(p)
  IN  [own |-> history[p], got |-> history[q],
       user |-> user[p], line |-> line[p], nick |-> my_nick[p], said |-> said[p].msg,
       thread |-> receiver[p], runs |-> process[p],
       at |-> receiver[q], frame |-> frame[q], peer |-> peer_nick[q],
       path |-> IF history_path[q] THEN "set" ELSE "unset",
       hears |-> process[q], torn |-> IF torn[q] THEN "torn" ELSE "whole",
       stream |-> stream[p]]

Runs(v)  == v.runs = "running"
Lives(v) == v.hears = "running"
Reads(v) == Lives(v) /\ v.at # "done"
Whole(v) == v.torn = "whole"
Dispatching(v, type) == v.at = "dispatch" /\ v.frame.type = type

\* What the hearer has not finished reading.
Flow(v) == IF v.at = "payload" THEN <<Header(v.frame)>> \o v.stream ELSE v.stream

\* Lines saved by either, and those the hearer has read.
Saved(p, v) == Number(v.own, p)
Taken(p, v) == IF Dispatching(v, "LMP_MSG") THEN Number(v.got, p) + 1 ELSE Number(v.got, p)

\* What the hearer knows once it has dealt with the frame at hand.
Hand(p, v) ==
  [n    |-> Taken(p, v),
   nick |-> IF Dispatching(v, "LMP_NICK") THEN v.frame.text ELSE v.peer,
   path |-> IF Dispatching(v, "LMP_UID") THEN "set" ELSE v.path]

\* The speaker is sending, or has sent and not saved, a line.
Pending(v) == v.user = "saving" \/ (v.user = "payload" /\ v.line.type = "LMP_MSG")

\* The n-th line was sent as a whole.
IsSent(p, v, n) == n <= Saved(p, v) \/ (v.user = "saving" /\ n = Saved(p, v) + 1)

\* The n-th line stands, or will stand, under the name x with the speaker.
Named(p, v, n, x) ==
  /\ \A y \in Line : Stands(v.own, p, n, y) /\ y.name # "You" => y.name = x
  /\ Runs(v) /\ n = Saved(p, v) + 1 /\ v.nick # "You" => v.nick = x

\* A line that is heard as r says is the one that was typed.
Meant(p, v, r, text) ==
  /\ r.path = "set" /\ r.n \in 1 .. Len(Texts[p]) /\ text = Texts[p][r.n]
  /\ Named(p, v, r.n, r.nick)

UpToDate(v, r) ==
  /\ r.n = v.said
  /\ v.nick # "You" => r.nick = v.nick
  /\ v.user # "uid" => r.path = "set"

\* s and what it makes of a hearer fit the speaker.
Tells(p, v, s, g) ==
  /\ Course(s, g)
  /\ \A i \in 1 .. Len(s) :
       /\ IsHeader(s[i], "LMP_MSG") => Meant(p, v, g[i], s[i].frame.text)
       /\ s[i].part = "payload" /\ s[i].frame.type = "LMP_MSG" => IsSent(p, v, g[i].n)
  /\ Runs(v) => UpToDate(v, g[Len(s)]) /\ \A i \in 0 .. Len(s) : g[i].n <= v.said

Hears(p, v, s, r) == \E g : Tells(p, v, s, g) /\ g[0] = r

InTurn(v, s) ==
  /\ Paired(s)
  /\ Runs(v) /\ v.user = "payload" => Open(s, Len(s), v.line)
  /\ Runs(v) /\ v.thread = "ack_payload" => Open(s, Len(s), AckFrame)

Hearing(p, v) ==
  /\ Hears(p, v, Flow(v), Hand(p, v))
  /\ InTurn(v, Flow(v))
  /\ Dispatching(v, "LMP_MSG") => Meant(p, v, Hand(p, v), v.frame.text)

\* What the speaker saved and what the hearer saved.
Counted(p, v) ==
  Runs(v) /\ Lives(v) =>
    IF Pending(v) THEN v.said = Saved(p, v) + 1 /\ v.line.text = Texts[p][v.said]
                  ELSE v.said = Saved(p, v)

Ledger(p, v) ==
  /\ IsSent(p, v, Taken(p, v))
  /\ \A n \in Nat, y \in Line :
       Stands(v.own, p, n, y) /\ (Lives(v) \/ n <= Taken(p, v)) => y.text = Texts[p][n]
  /\ Runs(v) /\ v.user = "saving" /\ Taken(p, v) > Saved(p, v)
       => v.line.text = Texts[p][Saved(p, v) + 1]
  /\ \A n \in Nat, y \in Line :
       Stands(v.got, p, n, y) => /\ n <= Len(Texts[p]) /\ y.text = Texts[p][n]
                                 /\ Named(p, v, n, y.name)

Agreed(p, v) ==
  /\ Counted(p, v)
  /\ Whole(v) => Ledger(p, v)
  /\ Whole(v) /\ Reads(v) => Hearing(p, v)

LEMMA ViewTypes ==
  ASSUME NEW p \in Peers, NEW v \in View
  PROVE  /\ v.own \in Seq(Line) /\ v.got \in Seq(Line)
         /\ v.said \in Nat /\ v.line \in GoodFrame /\ v.frame \in GoodFrame
         /\ v.stream \in Seq(GoodHalf) /\ v.nick \in Words /\ v.frame.text \in Words
         /\ Number(v.own, p) \in Nat /\ Number(v.got, p) \in Nat
         /\ Saved(p, v) \in Nat /\ Taken(p, v) \in Nat
         /\ Flow(v) \in Seq(GoodHalf) /\ Hand(p, v) \in Reader
         /\ Hand(p, v).n = Taken(p, v)
<1>1. /\ v.own \in Seq(Line) /\ v.got \in Seq(Line)
      /\ v.said \in Nat /\ v.line \in GoodFrame /\ v.frame \in GoodFrame
      /\ v.stream \in Seq(GoodHalf) /\ v.nick \in Words /\ v.peer \in Words
      /\ v.path \in {"unset", "set"}
  BY DEF View
<1>2. Number(v.own, p) \in Nat /\ Number(v.got, p) \in Nat
  BY <1>1, OfFinite
<1>3. Saved(p, v) \in Nat /\ Taken(p, v) \in Nat
  BY <1>2 DEF Saved, Taken
<1>4. Header(v.frame) \in GoodHalf
  BY <1>1, HalfTypes
<1>5. Flow(v) \in Seq(GoodHalf)
  BY <1>1, <1>4 DEF Flow
<1>6. v.frame.text \in Words
  BY <1>1 DEF GoodFrame, Frame, Words
<1>7. Hand(p, v) \in Reader /\ Hand(p, v).n = Taken(p, v)
  BY <1>1, <1>3, <1>6 DEF Hand, Reader
<1> QED
  BY <1>1, <1>2, <1>3, <1>5, <1>6, <1>7

-----------------------------------------------------------------------------
(* How what is heard changes. *)

\* What was meant, or sent, is so still.
Steady(p, v, w) ==
  /\ \A r \in Reader : \A text : Meant(p, v, r, text) /\ (Runs(v) => r.n <= v.said)
                               => Meant(p, w, r, text)
  /\ \A n \in Nat : IsSent(p, v, n) => IsSent(p, w, n)

LEMMA HearsKept ==
  ASSUME NEW p \in Peers, NEW v \in View, NEW w \in View,
         NEW s \in Seq(GoodHalf), NEW r0, Hears(p, v, s, r0), Steady(p, v, w),
         Runs(w) => Runs(v) /\ w.said = v.said /\ \A r \in Reader : UpToDate(v, r) => UpToDate(w, r)
  PROVE  Hears(p, w, s, r0)
<1>1. PICK g : Tells(p, v, s, g) /\ g[0] = r0
  BY DEF Hears
<1>2. Course(s, g) /\ g \in [0 .. Len(s) -> Reader] /\ Len(s) \in Nat
  BY <1>1 DEF Tells, Course
<1>3. \A i \in 0 .. Len(s) : g[i] \in Reader /\ g[i].n \in Nat /\ (Runs(v) => g[i].n <= v.said)
  BY <1>1, <1>2 DEF Tells, Reader
<1>4. \A i \in 1 .. Len(s) : i \in 0 .. Len(s)
  BY <1>2
<1>5. ASSUME NEW i \in 1 .. Len(s)
      PROVE  /\ IsHeader(s[i], "LMP_MSG") => Meant(p, w, g[i], s[i].frame.text)
             /\ s[i].part = "payload" /\ s[i].frame.type = "LMP_MSG" => IsSent(p, w, g[i].n)
  BY <1>1, <1>3, <1>4 DEF Tells, Steady
<1>6. Runs(w) => UpToDate(w, g[Len(s)]) /\ \A i \in 0 .. Len(s) : g[i].n <= w.said
  <2>1. Len(s) \in 0 .. Len(s)
    BY <1>2
  <2> QED
    BY <1>1, <1>3, <2>1 DEF Tells
<1> QED
  BY <1>1, <1>2, <1>5, <1>6 DEF Tells, Hears

\* The speaker sends one more half.
LEMMA HearsMore ==
  ASSUME NEW p \in Peers, NEW v \in View, NEW w \in View, NEW half \in GoodHalf,
         NEW s \in Seq(GoodHalf), NEW r0, Hears(p, v, s, r0), Steady(p, v, w), Runs(v),
         v.said <= w.said,
         \A r \in Reader :
           UpToDate(v, r) =>
             /\ IsHeader(half, "LMP_MSG") => Meant(p, w, After(r, half), half.frame.text)
             /\ half.part = "payload" /\ half.frame.type = "LMP_MSG"
                  => IsSent(p, w, After(r, half).n)
             /\ UpToDate(w, After(r, half))
  PROVE  Hears(p, w, Append(s, half), r0)
<1> DEFINE t == Append(s, half)
           N == Len(s)
<1>1. PICK g : Tells(p, v, s, g) /\ g[0] = r0
  BY DEF Hears
<1>2. Course(s, g) /\ g \in [0 .. N -> Reader] /\ N \in Nat
  BY <1>1 DEF Tells, Course
<1>3. PICK h : /\ Course(t, h) /\ (\A i \in 0 .. N : h[i] = g[i])
               /\ h[N + 1] = After(g[N], half)
  BY <1>2, CourseAppend
<1>4. /\ Len(t) = N + 1 /\ t[N + 1] = half
      /\ \A i \in 1 .. N : t[i] = s[i]
  OBVIOUS
<1>5. v.said \in Nat /\ w.said \in Nat
  BY DEF View
<1> HIDE DEF t, N
<1>6. \A i \in 0 .. N : g[i] \in Reader /\ g[i].n \in Nat /\ g[i].n <= v.said
  BY <1>1, <1>2 DEF Tells, Reader, N
<1>7. N \in 0 .. N /\ UpToDate(v, g[N])
  BY <1>1, <1>2 DEF Tells, N
<1>8. h[0] = r0
  BY <1>1, <1>2, <1>3
<1>9. ASSUME NEW i \in 1 .. N + 1
      PROVE  /\ IsHeader(t[i], "LMP_MSG") => Meant(p, w, h[i], t[i].frame.text)
             /\ t[i].part = "payload" /\ t[i].frame.type = "LMP_MSG" => IsSent(p, w, h[i].n)
  <2>1. i = N + 1 \/ (i \in 1 .. N /\ i \in 0 .. N)
    BY <1>2
  <2>2. CASE i = N + 1
    <3>1. t[i] = half /\ h[i] = After(g[N], half)
      BY <1>3, <1>4, <2>2
    <3> QED
      BY <1>6, <1>7, <3>1
  <2>3. CASE i \in 1 .. N /\ i \in 0 .. N
    <3>1. t[i] = s[i] /\ h[i] = g[i]
      BY <1>3, <1>4, <2>3
    <3>2. /\ IsHeader(s[i], "LMP_MSG") => Meant(p, v, g[i], s[i].frame.text)
          /\ s[i].part = "payload" /\ s[i].frame.type = "LMP_MSG" => IsSent(p, v, g[i].n)
      BY <1>1, <2>3 DEF Tells, N
    <3> QED
      BY <1>6, <2>3, <3>1, <3>2 DEF Steady
  <2> QED
    BY <2>1, <2>2, <2>3
<1>10. UpToDate(w, h[N + 1])
  BY <1>3, <1>6, <1>7
<1>11. ASSUME NEW i \in 0 .. N + 1
       PROVE  h[i].n <= w.said
  <2>1. i = N + 1 \/ i \in 0 .. N
    BY <1>2
  <2>2. CASE i = N + 1
    BY <1>5, <1>10, <2>2 DEF UpToDate
  <2>3. CASE i \in 0 .. N
    BY <1>3, <1>5, <1>6, <2>3
  <2> QED
    BY <2>1, <2>2, <2>3
<1> QED
  BY <1>3, <1>4, <1>8, <1>9, <1>10, <1>11 DEF Tells, Hears, t

\* What a speaker that has gone sent last is lost.
LEMMA HearsCut ==
  ASSUME NEW p \in Peers, NEW v \in View, NEW w \in View,
         NEW s \in Seq(GoodHalf), NEW r0, Hears(p, v, s, r0), Steady(p, v, w), ~Runs(w),
         NEW m \in 0 .. Len(s)
  PROVE  Hears(p, w, SubSeq(s, 1, m), r0)
<1> DEFINE t == SubSeq(s, 1, m)
<1>1. PICK g : Tells(p, v, s, g) /\ g[0] = r0
  BY DEF Hears
<1>2. Course(s, g) /\ g \in [0 .. Len(s) -> Reader] /\ Len(s) \in Nat
  BY <1>1 DEF Tells, Course
<1>3. /\ Len(t) = m /\ (\A i \in 1 .. m : t[i] = s[i])
      /\ Course(t, [i \in 0 .. m |-> g[i]])
  BY <1>2, CourseCut
<1> HIDE DEF t
<1>4. PICK h : h = [i \in 0 .. m |-> g[i]]
  OBVIOUS
<1>5. h[0] = r0 /\ \A i \in 1 .. m : h[i] = g[i] /\ i \in 1 .. Len(s) /\ i \in 0 .. Len(s)
  BY <1>1, <1>2, <1>4
<1>6. \A i \in 1 .. m : g[i] \in Reader /\ g[i].n \in Nat /\ (Runs(v) => g[i].n <= v.said)
  BY <1>1, <1>2, <1>5 DEF Tells, Reader
<1>7. ASSUME NEW i \in 1 .. m
      PROVE  /\ IsHeader(t[i], "LMP_MSG") => Meant(p, w, h[i], t[i].frame.text)
             /\ t[i].part = "payload" /\ t[i].frame.type = "LMP_MSG" => IsSent(p, w, h[i].n)
  <2>1. t[i] = s[i] /\ h[i] = g[i]
    BY <1>3, <1>5
  <2>2. /\ IsHeader(s[i], "LMP_MSG") => Meant(p, v, g[i], s[i].frame.text)
        /\ s[i].part = "payload" /\ s[i].frame.type = "LMP_MSG" => IsSent(p, v, g[i].n)
    BY <1>1, <1>5 DEF Tells
  <2> QED
    BY <1>6, <2>1, <2>2 DEF Steady
<1> QED
  BY <1>3, <1>4, <1>5, <1>7 DEF Tells, Hears, t

\* The hearer takes a frame off, which is what it dispatches next.
LEMMA HearsNext ==
  ASSUME NEW p \in Peers, NEW v \in View, NEW w \in View, NEW f \in GoodFrame,
         NEW s \in Seq(GoodHalf), NEW r0, Hears(p, v, s, r0), Steady(p, v, w),
         Len(s) >= 2, s[1] = Header(f), s[2] = Payload(f),
         Runs(w) => Runs(v) /\ w.said = v.said /\ \A r \in Reader : UpToDate(v, r) => UpToDate(w, r)
  PROVE  /\ Hears(p, w, SubSeq(s, 3, Len(s)), After(r0, Header(f)))
         /\ r0 \in Reader
         /\ f.type = "LMP_MSG" => /\ Meant(p, w, After(r0, Header(f)), f.text)
                                  /\ IsSent(p, w, r0.n + 1)
<1> DEFINE N == Len(s)
           t == SubSeq(s, 3, N)
<1>1. PICK g : Tells(p, v, s, g) /\ g[0] = r0
  BY DEF Hears
<1>2. Course(s, g) /\ g \in [0 .. N -> Reader] /\ N \in Nat /\ N >= 2
      /\ \A i \in 1 .. N : g[i] = After(g[i - 1], s[i])
  BY <1>1 DEF Tells, Course
<1>3. Header(f).part = "header" /\ Header(f).frame = f /\ Header(f) \in GoodHalf
      /\ Payload(f).part = "payload" /\ Payload(f).frame = f /\ Payload(f) \in GoodHalf
  BY HalfTypes
<1>4. 2 \in 0 .. N /\ 1 \in 0 .. N /\ 0 \in 0 .. N /\ 1 \in 1 .. N /\ 2 \in 1 .. N
      /\ 1 - 1 = 0 /\ 2 - 1 = 1 /\ 2 + 1 = 3
  BY <1>2
<1>5. r0 \in Reader /\ g[1] = After(r0, Header(f)) /\ g[1] \in Reader
  BY <1>1, <1>2, <1>4
<1>6. g[2] = g[1]
  <2>1. g[2] = After(g[1], Payload(f))
    BY <1>2, <1>4
  <2>2. PICK r \in Reader : r = g[1]
    BY <1>5
  <2>3. After(r, Payload(f)) = [n |-> r.n, nick |-> r.nick, path |-> r.path]
    BY <1>3 DEF After, IsHeader
  <2>4. r = [n |-> r.n, nick |-> r.nick, path |-> r.path]
    BY DEF Reader
  <2> QED
    BY <2>1, <2>2, <2>3, <2>4
<1>7. /\ Len(t) = N - 2
      /\ (\A i \in 1 .. N - 2 : t[i] = s[i + 2])
      /\ Course(t, [i \in 0 .. N - 2 |-> g[i + 2]])
  BY <1>2, <1>4, CourseDrop
<1>8. \A i \in 0 .. N : g[i] \in Reader /\ g[i].n \in Nat /\ (Runs(v) => g[i].n <= v.said)
  BY <1>1, <1>2 DEF Tells, Reader
<1>9. ASSUME NEW i \in 1 .. N
      PROVE  /\ IsHeader(s[i], "LMP_MSG") => Meant(p, w, g[i], s[i].frame.text)
             /\ s[i].part = "payload" /\ s[i].frame.type = "LMP_MSG" => IsSent(p, w, g[i].n)
  <2>1. i \in 0 .. N
    BY <1>2
  <2> QED
    BY <1>1, <1>8, <2>1 DEF Tells, Steady
<1> HIDE DEF t, N
<1>10. PICK h : h = [i \in 0 .. N - 2 |-> g[i + 2]]
  OBVIOUS
<1>11. h[0] = g[2] /\ \A i \in 1 .. N - 2 : h[i] = g[i + 2] /\ i + 2 \in 1 .. N
  BY <1>2, <1>10
<1>12. \A i \in 1 .. N - 2 :
         /\ IsHeader(t[i], "LMP_MSG") => Meant(p, w, h[i], t[i].frame.text)
         /\ t[i].part = "payload" /\ t[i].frame.type = "LMP_MSG" => IsSent(p, w, h[i].n)
  BY <1>7, <1>9, <1>11
<1>13. Runs(w) => UpToDate(w, h[N - 2]) /\ \A i \in 0 .. N - 2 : h[i].n <= w.said
  <2>1. N - 2 \in 0 .. N - 2 /\ h[N - 2] = g[N]
    BY <1>2, <1>10
  <2>2. \A i \in 0 .. N - 2 : h[i] = g[i + 2] /\ i + 2 \in 0 .. N
    BY <1>2, <1>10
  <2>3. Runs(v) => UpToDate(v, g[N])
    BY <1>1 DEF Tells, N
  <2>4. N \in 0 .. N
    BY <1>2
  <2> QED
    BY <1>8, <2>1, <2>2, <2>3, <2>4
<1>14. Hears(p, w, t, After(r0, Header(f)))
  BY <1>5, <1>6, <1>7, <1>10, <1>11, <1>12, <1>13 DEF Tells, Hears
<1>15. ASSUME f.type = "LMP_MSG"
       PROVE  Meant(p, w, After(r0, Header(f)), f.text) /\ IsSent(p, w, r0.n + 1)
  <2>1. IsHeader(s[1], "LMP_MSG") /\ s[1].frame.text = f.text
    BY <1>3, <1>15 DEF IsHeader
  <2>2. g[2].n = r0.n + 1
    <3>1. IsHeader(Header(f), "LMP_MSG")
      BY <1>3, <1>15 DEF IsHeader
    <3>2. After(r0, Header(f)).n = r0.n + 1
      BY <1>3, <1>5, <3>1, AfterType
    <3> QED
      BY <1>5, <1>6, <3>2
  <2> QED
    BY <1>3, <1>4, <1>5, <1>9, <1>15, <2>1, <2>2
<1> QED
  BY <1>5, <1>14, <1>15 DEF t, N

LEMMA FlowMore ==
  ASSUME NEW v \in View, NEW w \in View, NEW half \in GoodHalf,
         w.stream = Append(v.stream, half), w.at = v.at, w.frame = v.frame
  PROVE  Flow(w) = Append(Flow(v), half)
<1>1. v.stream \in Seq(GoodHalf) /\ Header(v.frame) \in GoodHalf
  BY HalfTypes DEF View
<1>2. CASE v.at = "payload"
  <2>1. <<Header(v.frame)>> \in Seq(GoodHalf)
    BY <1>1
  <2>2. <<Header(v.frame)>> \o Append(v.stream, half) = Append(<<Header(v.frame)>> \o v.stream, half)
    BY <1>1, <2>1, AppendIsConcat, ConcatAssociative
  <2> QED
    BY <1>2, <2>2 DEF Flow
<1> QED
  BY <1>2 DEF Flow

LEMMA InTurnMore ==
  ASSUME NEW v \in View, NEW w \in View, NEW half \in GoodHalf, NEW s \in Seq(GoodHalf),
         InTurn(v, s), half.part = "payload" => Open(s, Len(s), half.frame),
         Runs(w) /\ w.user = "payload" =>
           \/ half = Header(w.line)
           \/ Runs(v) /\ v.user = "payload" /\ v.line = w.line /\ (Acks(half.frame) <=> ~Acks(w.line)),
         Runs(w) /\ w.thread = "ack_payload" =>
           \/ half = Header(AckFrame)
           \/ Runs(v) /\ v.thread = "ack_payload" /\ (Acks(half.frame) <=> ~Acks(AckFrame))
  PROVE  InTurn(w, Append(s, half))
<1> DEFINE t == Append(s, half)
<1>1. Paired(t)
  BY PairedAppend DEF InTurn
<1>2. ASSUME Runs(w), w.user = "payload"
      PROVE  Open(t, Len(t), w.line)
  BY <1>2, OpenAppend DEF InTurn
<1>3. ASSUME Runs(w), w.thread = "ack_payload"
      PROVE  Open(t, Len(t), AckFrame)
  BY <1>3, OpenAppend DEF InTurn
<1> QED
  BY <1>1, <1>2, <1>3 DEF InTurn

\* Nothing was saved, and no name taken that the file could tell.
LEMMA SteadySame ==
  ASSUME NEW p \in Peers, NEW v \in View, NEW w \in View,
         SameLines(p, v.own, w.own), Runs(w) => Runs(v) /\ w.nick = v.nick,
         v.user = "saving" => w.user = "saving"
  PROVE  /\ Steady(p, v, w)
         /\ Saved(p, w) = Saved(p, v)
         /\ \A n, x : Named(p, v, n, x) => Named(p, w, n, x)
<1>1. Saved(p, w) = Saved(p, v)
  BY DEF Saved, SameLines
<1>2. \A n, x : Named(p, v, n, x) => Named(p, w, n, x)
  BY <1>1 DEF Named, SameLines
<1>3. \A r \in Reader : \A text : Meant(p, v, r, text) => Meant(p, w, r, text)
  BY <1>2 DEF Meant
<1>4. \A n \in Nat : IsSent(p, v, n) => IsSent(p, w, n)
  BY <1>1 DEF IsSent
<1> QED
  BY <1>1, <1>2, <1>3, <1>4 DEF Steady

LEMMA CountedKept ==
  ASSUME NEW p \in Peers, NEW v \in View, NEW w \in View, Counted(p, v),
         SameLines(p, v.own, w.own), Runs(w) => Runs(v) /\ w.said = v.said /\ w.line = v.line,
         Lives(w) => Lives(v),
         Runs(w) /\ Lives(w) => (Pending(w) <=> Pending(v))
  PROVE  Counted(p, w)
<1>1. Saved(p, w) = Saved(p, v)
  BY DEF Saved, SameLines
<1> QED
  BY <1>1 DEF Counted

LEMMA LedgerKept ==
  ASSUME NEW p \in Peers, NEW v \in View, NEW w \in View, Ledger(p, v),
         SameLines(p, v.own, w.own), Runs(w) => Runs(v) /\ w.nick = v.nick /\ w.line = v.line,
         v.user = "saving" => w.user = "saving",
         Lives(w) => Lives(v),
         Taken(p, w) = Taken(p, v),
         \A n, y : Stands(w.got, p, n, y) => Stands(v.got, p, n, y)
  PROVE  Ledger(p, w)
<1>1. /\ Saved(p, w) = Saved(p, v)
      /\ \A n, x : Named(p, v, n, x) => Named(p, w, n, x)
      /\ Steady(p, v, w)
  BY SteadySame
<1>2. Taken(p, v) \in Nat /\ Saved(p, v) \in Nat
  BY ViewTypes
<1>3. IsSent(p, w, Taken(p, w))
  BY <1>1, <1>2 DEF Ledger, Steady
<1>4. \A n \in Nat, y \in Line :
        Stands(w.own, p, n, y) /\ (Lives(w) \/ n <= Taken(p, w)) => y.text = Texts[p][n]
  BY DEF Ledger, SameLines
<1>5. ASSUME Runs(w), w.user = "saving", Taken(p, w) > Saved(p, w)
      PROVE  w.line.text = Texts[p][Saved(p, w) + 1]
  <2>1. Taken(p, v) > Saved(p, v)
    BY <1>1, <1>5
  <2>2. IsSent(p, v, Taken(p, v))
    BY DEF Ledger
  <2>3. v.user = "saving"
    BY <1>2, <2>1, <2>2 DEF IsSent
  <2> QED
    BY <1>1, <1>5, <2>1, <2>3 DEF Ledger
<1>6. \A n \in Nat, y \in Line :
        Stands(w.got, p, n, y) => /\ n <= Len(Texts[p]) /\ y.text = Texts[p][n]
                                  /\ Named(p, w, n, y.name)
  BY <1>1 DEF Ledger
<1> QED
  BY <1>3, <1>4, <1>5, <1>6 DEF Ledger

\* What threads did that do not bear on this direction, and what is lost when
\* a process ends.
LEMMA Quiet ==
  ASSUME NEW p \in Peers, NEW v \in View, NEW w \in View, Agreed(p, v),
         SameLines(p, v.own, w.own),
         Runs(w) => Runs(v) /\ w.nick = v.nick /\ w.line = v.line /\ w.said = v.said,
         v.user = "saving" => w.user = "saving",
         Lives(w) => Lives(v),
         Runs(w) /\ Lives(w) =>
           \/ w.user = v.user
           \/ {v.user, w.user} \cap {"uid", "payload", "saving"} = {},
         w.thread = "ack_payload" => v.thread = "ack_payload",
         Whole(w) => /\ Whole(v)
                     /\ Taken(p, w) = Taken(p, v)
                     /\ SameLines(p, v.got, w.got),
         Whole(w) /\ Reads(w) =>
           /\ Reads(v) /\ Hand(p, w) = Hand(p, v)
           /\ Dispatching(w, "LMP_MSG") => Dispatching(v, "LMP_MSG") /\ w.frame = v.frame
           /\ \/ Flow(w) = Flow(v)
              \/ ~Runs(w) /\ \E m \in 0 .. Len(Flow(v)) : Flow(w) = SubSeq(Flow(v), 1, m)
  PROVE  Agreed(p, w)
<1>1. Counted(p, w)
  <2>1. Runs(w) /\ Lives(w) => (Pending(w) <=> Pending(v))
    BY DEF Pending
  <2> QED
    BY <2>1, CountedKept DEF Agreed
<1>2. ASSUME Whole(w) PROVE Ledger(p, w)
  BY <1>2, LedgerKept DEF Agreed, SameLines
<1>3. ASSUME Whole(w), Reads(w) PROVE Hearing(p, w)
  <2>1. Hearing(p, v) /\ Flow(v) \in Seq(GoodHalf) /\ Flow(w) \in Seq(GoodHalf)
    BY <1>3, ViewTypes DEF Agreed
  <2>2. Steady(p, v, w)
    BY SteadySame
  <2>3. Lives(w)
    BY <1>3 DEF Reads
  <2>4. Runs(w) => \A r \in Reader : UpToDate(v, r) => UpToDate(w, r)
    BY <2>3 DEF UpToDate
  <2>5. Hand(p, v) \in Reader /\ Hand(p, v).n = Taken(p, v)
    BY ViewTypes
  <2>6. Dispatching(w, "LMP_MSG") => Meant(p, w, Hand(p, w), w.frame.text)
    <3>1. \A n, x : Named(p, v, n, x) => Named(p, w, n, x)
      BY SteadySame
    <3>2. \A r, text : Meant(p, v, r, text) => Meant(p, w, r, text)
      BY <3>1 DEF Meant
    <3> QED
      BY <1>3, <2>1, <3>2 DEF Hearing
  <2>7. CASE Flow(w) = Flow(v)
    <3>1. Hears(p, w, Flow(w), Hand(p, w))
      BY <1>3, <2>1, <2>2, <2>4, <2>7, HearsKept DEF Hearing
    <3>2. InTurn(w, Flow(w))
      BY <2>1, <2>3, <2>7 DEF Hearing, InTurn
    <3> QED
      BY <2>6, <3>1, <3>2 DEF Hearing
  <2>8. CASE ~Runs(w) /\ \E m \in 0 .. Len(Flow(v)) : Flow(w) = SubSeq(Flow(v), 1, m)
    <3>1. PICK m \in 0 .. Len(Flow(v)) : Flow(w) = SubSeq(Flow(v), 1, m)
      BY <2>8
    <3>2. Hears(p, w, Flow(w), Hand(p, w))
      BY <1>3, <2>1, <2>2, <2>8, <3>1, HearsCut DEF Hearing
    <3>3. InTurn(w, Flow(w))
      BY <2>1, <2>8, <3>1, PairedCut DEF Hearing, InTurn
    <3> QED
      BY <2>6, <3>2, <3>3 DEF Hearing
  <2> QED
    BY <1>3, <2>7, <2>8
<1> QED
  BY <1>1, <1>2, <1>3 DEF Agreed

-----------------------------------------------------------------------------
(* What the speaker does. *)

LEMMA HandBehind ==
  ASSUME NEW p \in Peers, NEW v \in View, Hearing(p, v)
  PROVE  Runs(v) => Taken(p, v) <= v.said
<1>1. PICK g : Tells(p, v, Flow(v), g) /\ g[0] = Hand(p, v)
  BY DEF Hearing, Hears
<1>2. Flow(v) \in Seq(GoodHalf) /\ Hand(p, v).n = Taken(p, v)
  BY ViewTypes
<1>3. 0 \in 0 .. Len(Flow(v))
  BY <1>2
<1> QED
  BY <1>1, <1>2, <1>3 DEF Tells

\* The hearer's side has not changed.
SameHearer(v, w) ==
  /\ w.got = v.got /\ w.at = v.at /\ w.frame = v.frame /\ w.peer = v.peer
  /\ w.path = v.path /\ w.hears = v.hears /\ w.torn = v.torn

SameSpeaker(v, w) ==
  /\ w.own = v.own /\ w.line = v.line /\ w.nick = v.nick /\ w.said = v.said
  /\ w.runs = v.runs

LEMMA HearerSame ==
  ASSUME NEW p \in Peers, NEW v \in View, NEW w \in View, SameHearer(v, w)
  PROVE  /\ Taken(p, w) = Taken(p, v) /\ Hand(p, w) = Hand(p, v)
         /\ (Whole(w) <=> Whole(v)) /\ (Reads(w) <=> Reads(v)) /\ (Lives(w) <=> Lives(v))
         /\ Dispatching(w, "LMP_MSG") <=> Dispatching(v, "LMP_MSG")
         /\ w.stream = v.stream => Flow(w) = Flow(v)
<1>1. Taken(p, w) = Taken(p, v)
  BY DEF SameHearer, Taken, Dispatching
<1>2. Hand(p, w) = Hand(p, v)
  BY <1>1 DEF SameHearer, Hand, Dispatching
<1> QED
  BY <1>1, <1>2 DEF SameHearer, Whole, Reads, Lives, Dispatching, Flow

\* One more half is sent, or is lost as nobody reads.
LEMMA Speaks ==
  ASSUME NEW p \in Peers, NEW v \in View, NEW w \in View, NEW half \in GoodHalf,
         Agreed(p, v), Counted(p, w), Whole(v) => Ledger(p, w),
         SameHearer(v, w), Runs(v),
         Lives(v) => w.stream = Append(v.stream, half) /\ v.said <= w.said,
         Lives(v) /\ Hearing(p, v) =>
           /\ Steady(p, v, w)
           /\ half.part = "payload" => Open(Flow(v), Len(Flow(v)), half.frame)
           /\ w.user = "payload" =>
                \/ half = Header(w.line)
                \/ v.user = "payload" /\ v.line = w.line /\ (Acks(half.frame) <=> ~Acks(w.line))
           /\ w.thread = "ack_payload" =>
                \/ half = Header(AckFrame)
                \/ v.thread = "ack_payload" /\ (Acks(half.frame) <=> ~Acks(AckFrame))
           /\ \A r \in Reader :
                UpToDate(v, r) =>
                  /\ IsHeader(half, "LMP_MSG") => Meant(p, w, After(r, half), half.frame.text)
                  /\ half.part = "payload" /\ half.frame.type = "LMP_MSG"
                       => IsSent(p, w, After(r, half).n)
                  /\ UpToDate(w, After(r, half))
  PROVE  Agreed(p, w)
<1>1. /\ Taken(p, w) = Taken(p, v) /\ Hand(p, w) = Hand(p, v)
      /\ (Whole(w) <=> Whole(v)) /\ (Reads(w) <=> Reads(v))
      /\ Dispatching(w, "LMP_MSG") <=> Dispatching(v, "LMP_MSG")
  BY HearerSame
<1>2. ASSUME Whole(w), Reads(w) PROVE Hearing(p, w)
  <2>1. Hearing(p, v) /\ Lives(v)
    BY <1>1, <1>2 DEF Agreed, Reads
  <2>2. Flow(v) \in Seq(GoodHalf) /\ Hand(p, v) \in Reader /\ Hand(p, v).n = Taken(p, v)
    BY ViewTypes
  <2>3. Flow(w) = Append(Flow(v), half)
    BY <2>1, FlowMore DEF SameHearer
  <2>4. Hears(p, w, Flow(w), Hand(p, w))
    BY <1>1, <2>1, <2>2, <2>3, HearsMore DEF Hearing
  <2>5. InTurn(w, Flow(w))
    BY <2>1, <2>2, <2>3, InTurnMore DEF Hearing
  <2>6. Dispatching(w, "LMP_MSG") => Meant(p, w, Hand(p, w), w.frame.text)
    <3>1. Taken(p, v) <= v.said
      BY <2>1, HandBehind
    <3> QED
      BY <1>1, <2>1, <2>2, <3>1 DEF Hearing, Steady, SameHearer
  <2> QED
    BY <2>4, <2>5, <2>6 DEF Hearing
<1> QED
  BY <1>1, <1>2 DEF Agreed

LEMMA UserFrames ==
  /\ UidFrame \in GoodFrame /\ ~Acks(UidFrame) /\ AckFrame \in GoodFrame /\ Acks(AckFrame)
  /\ \A f \in GoodFrame : f.type \in Kinds => ~Acks(f)
  /\ \A f \in GoodFrame : /\ Header(f).part = "header" /\ Header(f).frame = f
                          /\ Payload(f).part = "payload" /\ Payload(f).frame = f
                          /\ Header(f) \in GoodHalf /\ Payload(f) \in GoodHalf
<1>1. UidFrame \in GoodFrame /\ UidFrame.type = "LMP_UID"
      /\ AckFrame \in GoodFrame /\ AckFrame.type = "LMP_ACK"
  BY FrameTypes
<1>2. \A f \in GoodFrame : /\ Header(f).part = "header" /\ Header(f).frame = f
                           /\ Payload(f).part = "payload" /\ Payload(f).frame = f
                           /\ Header(f) \in GoodHalf /\ Payload(f) \in GoodHalf
  BY HalfTypes
<1> QED
  BY <1>1, <1>2 DEF Acks, Kinds

LEMMA SaysUid ==
  ASSUME NEW p \in Peers, NEW v \in View, NEW w \in View, Agreed(p, v),
         SameHearer(v, w), SameSpeaker(v, w), w.thread = v.thread, Runs(v),
         v.user = "uid", v.line = UidFrame, w.user = "payload",
         Lives(v) => w.stream = Append(v.stream, Header(UidFrame))
  PROVE  Agreed(p, w)
<1>0. SameLines(p, v.own, w.own)
  BY DEF SameSpeaker, SameLines
<1>1. UidFrame \in GoodFrame /\ ~Acks(UidFrame) /\ Acks(AckFrame)
      /\ Header(UidFrame) \in GoodHalf
      /\ Header(UidFrame).part = "header" /\ Header(UidFrame).frame = UidFrame
      /\ UidFrame.type = "LMP_UID"
  BY UserFrames, FrameTypes
<1>2. ~Pending(v) /\ ~Pending(w)
  BY <1>1 DEF Pending, SameSpeaker
<1>3. Counted(p, w)
  BY <1>0, <1>2, CountedKept DEF Agreed, SameSpeaker, SameHearer, Runs, Lives
<1>4. Taken(p, w) = Taken(p, v)
  BY HearerSame
<1>5. Whole(v) => Ledger(p, w)
  BY <1>0, <1>4, LedgerKept DEF Agreed, SameSpeaker, SameHearer, Runs, Lives
<1>6. Steady(p, v, w)
  BY <1>0, SteadySame DEF SameSpeaker, Runs
<1>7. ASSUME NEW r \in Reader, UpToDate(v, r)
      PROVE  UpToDate(w, After(r, Header(UidFrame)))
  BY <1>1, <1>7 DEF UpToDate, After, IsHeader, SameSpeaker
<1>8. ~IsHeader(Header(UidFrame), "LMP_MSG")
  BY <1>1 DEF IsHeader
<1>9. v.said <= w.said
  BY DEF SameSpeaker, View
<1> QED
  BY <1>1, <1>3, <1>5, <1>6, <1>7, <1>8, <1>9, Speaks DEF SameSpeaker

LEMMA SaysPayload ==
  ASSUME NEW p \in Peers, NEW v \in View, NEW w \in View, Agreed(p, v),
         SameHearer(v, w), SameSpeaker(v, w), w.thread = v.thread, Runs(v),
         v.user = "payload", v.line.type \in Kinds,
         w.user \in {"waiting", "prompt", "saving"},
         v.line.type = "LMP_MSG" <=> w.user = "saving",
         Lives(v) => w.stream = Append(v.stream, Payload(v.line))
  PROVE  Agreed(p, w)
<1>0. SameLines(p, v.own, w.own)
  BY DEF SameSpeaker, SameLines
<1>1. v.line \in GoodFrame /\ ~Acks(v.line) /\ Acks(AckFrame) /\ Payload(v.line) \in GoodHalf
      /\ Payload(v.line).part = "payload" /\ Payload(v.line).frame = v.line
  BY UserFrames, ViewTypes
<1>2. Pending(v) <=> Pending(w)
  BY DEF Pending
<1>3. Counted(p, w)
  BY <1>0, <1>2, CountedKept DEF Agreed, SameSpeaker, SameHearer, Runs, Lives
<1>4. Taken(p, w) = Taken(p, v)
  BY HearerSame
<1>5. Whole(v) => Ledger(p, w)
  BY <1>0, <1>4, LedgerKept DEF Agreed, SameSpeaker, SameHearer, Runs, Lives
<1>6. Steady(p, v, w) /\ Saved(p, w) = Saved(p, v)
  BY <1>0, SteadySame DEF SameSpeaker, Runs
<1>7. ASSUME NEW r \in Reader
      PROVE  After(r, Payload(v.line)) = r
  <2>1. After(r, Payload(v.line)) = [n |-> r.n, nick |-> r.nick, path |-> r.path]
    BY <1>1 DEF After, IsHeader
  <2>2. r = [n |-> r.n, nick |-> r.nick, path |-> r.path]
    BY DEF Reader
  <2> QED
    BY <2>1, <2>2
<1>8. ASSUME NEW r \in Reader, UpToDate(v, r)
      PROVE  UpToDate(w, r)
  BY <1>8 DEF UpToDate, SameSpeaker
<1>9. ASSUME NEW r \in Reader, UpToDate(v, r), Lives(v), v.line.type = "LMP_MSG"
      PROVE  IsSent(p, w, r.n)
  <2>1. v.said = Saved(p, v) + 1
    BY <1>9 DEF Agreed, Counted, Pending
  <2> QED
    BY <1>6, <1>9, <2>1 DEF IsSent, UpToDate
<1>10. ~IsHeader(Payload(v.line), "LMP_MSG")
  BY <1>1 DEF IsHeader
<1>11. v.said <= w.said
  BY DEF SameSpeaker, View
<1>12. Hearing(p, v) => Open(Flow(v), Len(Flow(v)), v.line)
  BY DEF Hearing, InTurn
<1> QED
  BY <1>1, <1>3, <1>5, <1>6, <1>7, <1>8, <1>9, <1>10, <1>11, <1>12, Speaks DEF SameSpeaker

\* At the prompt everything is saved, so that nothing depends on what is typed
\* next.
LEMMA AtPrompt ==
  ASSUME NEW p \in Peers, NEW v \in View, NEW w \in View, Agreed(p, v), SameHearer(v, w),
         w.own = v.own, w.runs = v.runs, Runs(v),
         v.user = "prompt", w.user \in {"payload", "prompt"}
  PROVE  /\ Saved(p, w) = Saved(p, v)
         /\ Lives(v) => v.said = Saved(p, v) /\ Steady(p, v, w)
         /\ Whole(v) => Ledger(p, w)
<1>1. Saved(p, w) = Saved(p, v) /\ Saved(p, v) \in Nat /\ Taken(p, v) \in Nat
  BY ViewTypes DEF Saved
<1>2. Taken(p, w) = Taken(p, v) /\ (Lives(w) <=> Lives(v))
  BY HearerSame
<1>3. ASSUME NEW n, NEW x, n <= Saved(p, v), n \in Nat, Named(p, v, n, x)
      PROVE  Named(p, w, n, x)
  <2>1. n # Saved(p, w) + 1
    BY <1>1, <1>3
  <2> QED
    BY <1>3, <2>1 DEF Named
<1>4. ASSUME Lives(v)
      PROVE  v.said = Saved(p, v) /\ Steady(p, v, w)
  <2>1. v.said = Saved(p, v)
    BY <1>4 DEF Agreed, Counted, Pending
  <2>2. ASSUME NEW r \in Reader, NEW text, Meant(p, v, r, text), Runs(v) => r.n <= v.said
        PROVE  Meant(p, w, r, text)
    <3>1. r.n \in Nat /\ r.n <= Saved(p, v)
      BY <2>1, <2>2 DEF Reader
    <3> QED
      BY <1>3, <2>2, <3>1 DEF Meant
  <2>3. \A n \in Nat : IsSent(p, v, n) => IsSent(p, w, n)
    BY <1>1 DEF IsSent
  <2> QED
    BY <2>1, <2>2, <2>3 DEF Steady
<1>5. ASSUME Whole(v)
      PROVE  Ledger(p, w)
  <2>1. Ledger(p, v)
    BY <1>5 DEF Agreed
  <2>2. Taken(p, v) <= Saved(p, v)
    BY <2>1 DEF Ledger, IsSent
  <2>3. IsSent(p, w, Taken(p, w))
    BY <1>1, <1>2, <2>2 DEF IsSent
  <2>4. ASSUME NEW n \in Nat, NEW y \in Line, Stands(w.got, p, n, y)
        PROVE  /\ n <= Len(Texts[p]) /\ y.text = Texts[p][n]
               /\ Named(p, w, n, y.name)
    <3>1. Stands(v.got, p, n, y)
      BY <2>4 DEF SameHearer
    <3>2. n <= Number(v.got, p)
      <4>1. v.got \in Seq(Line) /\ Number(v.got, p) \in Nat
        BY ViewTypes
      <4>2. n \in 1 .. Number(v.got, p)
        BY <3>1, <4>1, StandsBound
      <4> QED
        BY <4>1, <4>2
    <3>3. Number(v.got, p) <= Taken(p, v) /\ Number(v.got, p) \in Nat
      BY ViewTypes DEF Taken
    <3>4. n <= Saved(p, v)
      BY <1>1, <2>2, <3>2, <3>3
    <3> QED
      BY <1>3, <2>1, <3>1, <3>4 DEF Ledger
  <2>5. \A n \in Nat, y \in Line :
          Stands(w.own, p, n, y) /\ (Lives(w) \/ n <= Taken(p, w)) => y.text = Texts[p][n]
    BY <1>2, <2>1 DEF Ledger
  <2> QED
    BY <2>3, <2>4, <2>5 DEF Ledger
<1> QED
  BY <1>1, <1>4, <1>5

LEMMA TypesMsg ==
  ASSUME NEW p \in Peers, NEW v \in View, NEW w \in View, Agreed(p, v), SameHearer(v, w),
         w.own = v.own, w.runs = v.runs, Runs(v), w.thread = v.thread,
         v.user = "prompt", w.user \in {"payload", "prompt"},
         w.nick = v.nick, w.said = v.said + 1, w.said \in 1 .. Len(Texts[p]),
         w.line.type = "LMP_MSG", w.line.text = Texts[p][w.said],
         Lives(v) => w.user = "payload" /\ w.stream = Append(v.stream, Header(w.line))
  PROVE  Agreed(p, w)
<1>1. /\ Saved(p, w) = Saved(p, v)
      /\ Lives(v) => v.said = Saved(p, v) /\ Steady(p, v, w)
      /\ Whole(v) => Ledger(p, w)
      /\ Saved(p, v) \in Nat
  BY AtPrompt, ViewTypes
<1>2. Lives(w) <=> Lives(v)
  BY HearerSame
<1>3. Counted(p, w)
  BY <1>1, <1>2 DEF Counted, Pending
<1> DEFINE half == Header(w.line)
<1>4. w.line \in GoodFrame /\ ~Acks(w.line) /\ Acks(AckFrame) /\ half \in GoodHalf
      /\ half.part = "header" /\ half.frame = w.line
  BY UserFrames, ViewTypes DEF Kinds
<1> HIDE DEF half
<1>5. IsHeader(half, "LMP_MSG") /\ ~IsHeader(half, "LMP_NICK") /\ ~IsHeader(half, "LMP_UID")
  BY <1>4 DEF IsHeader
<1>6. ASSUME NEW r \in Reader, UpToDate(v, r), Lives(v)
      PROVE  UpToDate(w, After(r, half)) /\ Meant(p, w, After(r, half), w.line.text)
  <2>1. PICK r2 \in Reader : r2 = After(r, half)
    BY <1>4, AfterType
  <2>2. r2.n = w.said /\ r2.nick = r.nick /\ r2.path = r.path
    BY <1>4, <1>5, <1>6, <2>1, AfterType DEF UpToDate
  <2>3. r.path = "set" /\ (v.nick # "You" => r.nick = v.nick)
    BY <1>6 DEF UpToDate
  <2>4. UpToDate(w, r2)
    BY <2>2, <2>3 DEF UpToDate
  <2>5. ASSUME NEW y \in Line
        PROVE  ~Stands(w.own, p, w.said, y)
    <3>1. SUFFICES ASSUME Stands(v.own, p, w.said, y) PROVE FALSE
      OBVIOUS
    <3>2. w.said <= Number(v.own, p) /\ Number(v.own, p) \in Nat
      <4>1. v.own \in Seq(Line) /\ Number(v.own, p) \in Nat
        BY ViewTypes
      <4>2. w.said \in 1 .. Number(v.own, p)
        BY <3>1, <4>1, StandsBound
      <4> QED
        BY <4>1, <4>2
    <3>3. Number(v.own, p) = v.said
      BY <1>1, <1>6 DEF Saved
    <3> QED
      BY <3>2, <3>3
  <2>6. Named(p, w, r2.n, r2.nick)
    BY <2>2, <2>3, <2>5 DEF Named
  <2>7. Meant(p, w, r2, w.line.text)
    BY <2>2, <2>3, <2>6 DEF Meant
  <2> QED
    BY <2>1, <2>4, <2>7
<1>7. v.said <= w.said
  BY DEF View
<1> QED
  BY <1>1, <1>3, <1>4, <1>6, <1>7, Speaks DEF half

LEMMA TypesNick ==
  ASSUME NEW p \in Peers, NEW v \in View, NEW w \in View, Agreed(p, v), SameHearer(v, w),
         w.own = v.own, w.runs = v.runs, Runs(v), w.thread = v.thread,
         v.user = "prompt", w.user \in {"payload", "prompt"}, w.said = v.said,
         w.line.type = "LMP_NICK", w.line.text = w.nick,
         Lives(v) => w.user = "payload" /\ w.stream = Append(v.stream, Header(w.line))
  PROVE  Agreed(p, w)
<1>1. /\ Saved(p, w) = Saved(p, v)
      /\ Lives(v) => v.said = Saved(p, v) /\ Steady(p, v, w)
      /\ Whole(v) => Ledger(p, w)
      /\ Saved(p, v) \in Nat
  BY AtPrompt, ViewTypes
<1>2. Lives(w) <=> Lives(v)
  BY HearerSame
<1>3. Counted(p, w)
  BY <1>1, <1>2 DEF Counted, Pending
<1> DEFINE half == Header(w.line)
<1>4. w.line \in GoodFrame /\ ~Acks(w.line) /\ Acks(AckFrame) /\ half \in GoodHalf
      /\ half.part = "header" /\ half.frame = w.line
  BY UserFrames, ViewTypes DEF Kinds
<1> HIDE DEF half
<1>5. ~IsHeader(half, "LMP_MSG") /\ IsHeader(half, "LMP_NICK") /\ ~IsHeader(half, "LMP_UID")
  BY <1>4 DEF IsHeader
<1>6. ASSUME NEW r \in Reader, UpToDate(v, r)
      PROVE  UpToDate(w, After(r, half))
  <2>1. PICK r2 \in Reader : r2 = After(r, half)
    BY <1>4, AfterType
  <2>2. r2.n = r.n /\ r2.nick = w.nick /\ r2.path = r.path
    BY <1>4, <1>5, <2>1, AfterType
  <2> QED
    BY <1>6, <2>1, <2>2 DEF UpToDate
<1>7. v.said <= w.said
  BY DEF View
<1> QED
  BY <1>1, <1>3, <1>4, <1>5, <1>6, <1>7, Speaks DEF half

LEMMA AckBegins ==
  ASSUME NEW p \in Peers, NEW v \in View, NEW w \in View, Agreed(p, v),
         SameHearer(v, w), SameSpeaker(v, w), w.user = v.user, Runs(v),
         v.line.type \in Kinds \/ v.user # "payload",
         Lives(v) => w.stream = Append(v.stream, Header(AckFrame))
  PROVE  Agreed(p, w)
<1>0. SameLines(p, v.own, w.own)
  BY DEF SameSpeaker, SameLines
<1>1. AckFrame \in GoodFrame /\ Acks(AckFrame) /\ Header(AckFrame) \in GoodHalf
      /\ Header(AckFrame).part = "header" /\ Header(AckFrame).frame = AckFrame
      /\ AckFrame.type = "LMP_ACK"
  BY UserFrames, FrameTypes
<1>2. v.user = "payload" => ~Acks(v.line)
  BY UserFrames, ViewTypes
<1>3. (Pending(v) <=> Pending(w)) /\ Taken(p, w) = Taken(p, v)
  BY HearerSame DEF Pending, SameSpeaker
<1>4. Counted(p, w)
  BY <1>0, <1>3, CountedKept DEF Agreed, SameSpeaker, SameHearer, Runs, Lives
<1>5. Whole(v) => Ledger(p, w)
  BY <1>0, <1>3, LedgerKept DEF Agreed, SameSpeaker, SameHearer, Runs, Lives
<1>6. Steady(p, v, w)
  BY <1>0, SteadySame DEF SameSpeaker, Runs
<1>7. ASSUME NEW r \in Reader, UpToDate(v, r)
      PROVE  UpToDate(w, After(r, Header(AckFrame)))
  BY <1>1, <1>7 DEF UpToDate, After, IsHeader, SameSpeaker
<1>8. ~IsHeader(Header(AckFrame), "LMP_MSG")
  BY <1>1 DEF IsHeader
<1>9. v.said <= w.said
  BY DEF SameSpeaker, View
<1> QED
  BY <1>1, <1>2, <1>4, <1>5, <1>6, <1>7, <1>8, <1>9, Speaks DEF SameSpeaker

LEMMA AckEnds ==
  ASSUME NEW p \in Peers, NEW v \in View, NEW w \in View, Agreed(p, v),
         SameHearer(v, w), SameSpeaker(v, w), w.user = v.user, Runs(v),
         v.line.type \in Kinds \/ v.user # "payload",
         v.thread = "ack_payload", w.thread = "header",
         Lives(v) => w.stream = Append(v.stream, Payload(AckFrame))
  PROVE  Agreed(p, w)
<1>0. SameLines(p, v.own, w.own)
  BY DEF SameSpeaker, SameLines
<1>1. AckFrame \in GoodFrame /\ Acks(AckFrame) /\ Payload(AckFrame) \in GoodHalf
      /\ Payload(AckFrame).part = "payload" /\ Payload(AckFrame).frame = AckFrame
      /\ AckFrame.type = "LMP_ACK"
  BY UserFrames, FrameTypes
<1>2. v.user = "payload" => ~Acks(v.line)
  BY UserFrames, ViewTypes
<1>3. (Pending(v) <=> Pending(w)) /\ Taken(p, w) = Taken(p, v)
  BY HearerSame DEF Pending, SameSpeaker
<1>4. Counted(p, w)
  BY <1>0, <1>3, CountedKept DEF Agreed, SameSpeaker, SameHearer, Runs, Lives
<1>5. Whole(v) => Ledger(p, w)
  BY <1>0, <1>3, LedgerKept DEF Agreed, SameSpeaker, SameHearer, Runs, Lives
<1>6. Steady(p, v, w)
  BY <1>0, SteadySame DEF SameSpeaker, Runs
<1>7. ASSUME NEW r \in Reader, UpToDate(v, r)
      PROVE  UpToDate(w, After(r, Payload(AckFrame)))
  BY <1>1, <1>7 DEF UpToDate, After, IsHeader, SameSpeaker
<1>8. ~IsHeader(Payload(AckFrame), "LMP_MSG") /\ AckFrame.type # "LMP_MSG"
  BY <1>1 DEF IsHeader
<1>9. v.said <= w.said
  BY DEF SameSpeaker, View
<1>10. Hearing(p, v) => Open(Flow(v), Len(Flow(v)), AckFrame)
  BY DEF Hearing, InTurn
<1> QED
  BY <1>1, <1>2, <1>4, <1>5, <1>6, <1>7, <1>8, <1>9, <1>10, Speaks DEF SameSpeaker

\* The speaker saves what it sent: the next of its lines, which may have been
\* heard already.
LEMMA Saves ==
  ASSUME NEW p \in Peers, NEW v \in View, NEW w \in View, Agreed(p, v),
         SameHearer(v, w), w.line = v.line, w.nick = v.nick, w.said = v.said, w.runs = v.runs,
         Runs(v), w.thread = v.thread, w.stream = v.stream,
         v.user = "saving", w.user = "prompt",
         NEW l \in Line, l.from = p, l.name = v.nick, l.text = v.line.text,
         w.own = Append(v.own, l)
  PROVE  Agreed(p, w)
<1> DEFINE N == Saved(p, v)
<1>1. N \in Nat /\ Taken(p, v) \in Nat /\ Number(v.own, p) = N /\ v.own \in Seq(Line)
  BY ViewTypes DEF Saved
<1>2. Saved(p, w) = N + 1
  BY <1>1, NumberAppend DEF Saved
<1>3. \A n, y : Stands(w.own, p, n, y) <=> Stands(v.own, p, n, y) \/ (n = N + 1 /\ y = l)
  BY <1>1, StandsAppend
<1>4. /\ Taken(p, w) = Taken(p, v) /\ Hand(p, w) = Hand(p, v) /\ Flow(w) = Flow(v)
      /\ (Whole(w) <=> Whole(v)) /\ (Reads(w) <=> Reads(v)) /\ (Lives(w) <=> Lives(v))
      /\ Dispatching(w, "LMP_MSG") <=> Dispatching(v, "LMP_MSG")
  BY HearerSame
<1> HIDE DEF N
<1>5. ASSUME NEW n, NEW x, n <= N + 1, n \in Nat, Named(p, v, n, x)
      PROVE  Named(p, w, n, x)
  <2>1. ASSUME NEW y \in Line, Stands(w.own, p, n, y), y.name # "You"
        PROVE  y.name = x
    <3>1. CASE Stands(v.own, p, n, y)
      BY <1>5, <2>1, <3>1 DEF Named
    <3>2. CASE n = N + 1 /\ y = l
      BY <1>5, <2>1, <3>2 DEF Named, N
    <3> QED
      BY <1>3, <2>1, <3>1, <3>2
  <2>2. n # Saved(p, w) + 1
    BY <1>1, <1>2, <1>5
  <2> QED
    BY <2>1, <2>2 DEF Named
<1>6. Lives(v) => v.said = N + 1 /\ v.line.text = Texts[p][N + 1]
  BY DEF Agreed, Counted, Pending, N
<1>7. Counted(p, w)
  BY <1>2, <1>4, <1>6 DEF Counted, Pending
<1>8. ASSUME Whole(w)
      PROVE  Ledger(p, w)
  <2>1. Ledger(p, v)
    BY <1>4, <1>8 DEF Agreed
  <2>2. Taken(p, v) <= N + 1
    BY <1>1, <2>1 DEF Ledger, IsSent, N
  <2>3. IsSent(p, w, Taken(p, w))
    BY <1>2, <1>4, <2>2 DEF IsSent
  <2>4. ASSUME NEW n \in Nat, NEW y \in Line, Stands(w.own, p, n, y),
               Lives(w) \/ n <= Taken(p, w)
        PROVE  y.text = Texts[p][n]
    <3>1. CASE Stands(v.own, p, n, y)
      BY <1>4, <2>1, <2>4, <3>1 DEF Ledger
    <3>2. CASE n = N + 1 /\ y = l
      <4>1. CASE Lives(v)
        BY <1>6, <3>2, <4>1
      <4>2. CASE ~Lives(v)
        <5>1. Taken(p, v) > N
          BY <1>1, <1>4, <2>4, <3>2, <4>2
        <5>2. v.line.text = Texts[p][N + 1]
          BY <2>1, <5>1 DEF Ledger, N
        <5> QED
          BY <3>2, <5>2
      <4> QED
        BY <4>1, <4>2
    <3> QED
      BY <1>3, <2>4, <3>1, <3>2
  <2>5. ASSUME NEW n \in Nat, NEW y \in Line, Stands(w.got, p, n, y)
        PROVE  /\ n <= Len(Texts[p]) /\ y.text = Texts[p][n]
               /\ Named(p, w, n, y.name)
    <3>1. Stands(v.got, p, n, y)
      BY <2>5 DEF SameHearer
    <3>2. n <= Number(v.got, p)
      <4>1. v.got \in Seq(Line) /\ Number(v.got, p) \in Nat
        BY ViewTypes
      <4>2. n \in 1 .. Number(v.got, p)
        BY <3>1, <4>1, StandsBound
      <4> QED
        BY <4>1, <4>2
    <3>3. Number(v.got, p) <= Taken(p, v) /\ Number(v.got, p) \in Nat
      BY ViewTypes DEF Taken
    <3>4. n <= N + 1
      BY <1>1, <2>2, <3>2, <3>3
    <3> QED
      BY <1>5, <2>1, <3>1, <3>4 DEF Ledger
  <2> QED
    BY <2>3, <2>4, <2>5 DEF Ledger
<1>9. ASSUME Whole(w), Reads(w)
      PROVE  Hearing(p, w)
  <2>1. Hearing(p, v) /\ Lives(v)
    BY <1>4, <1>9 DEF Agreed, Reads
  <2>2. ASSUME NEW r \in Reader, NEW text, Meant(p, v, r, text), Runs(v) => r.n <= v.said
        PROVE  Meant(p, w, r, text)
    <3>1. r.n \in Nat /\ r.n <= N + 1
      BY <1>6, <2>1, <2>2 DEF Reader
    <3> QED
      BY <1>5, <2>2, <3>1 DEF Meant
  <2>3. \A n \in Nat : IsSent(p, v, n) => IsSent(p, w, n)
    BY <1>1, <1>2 DEF IsSent, N
  <2>4. Steady(p, v, w)
    BY <2>2, <2>3 DEF Steady
  <2>5. Flow(v) \in Seq(GoodHalf) /\ Hand(p, v) \in Reader /\ Hand(p, v).n = Taken(p, v)
    BY ViewTypes
  <2>6. \A r \in Reader : UpToDate(v, r) => UpToDate(w, r)
    BY DEF UpToDate
  <2>7. Hears(p, w, Flow(w), Hand(p, w))
    BY <1>4, <2>1, <2>4, <2>5, <2>6, HearsKept DEF Hearing
  <2>8. InTurn(w, Flow(w))
    BY <1>4, <2>1 DEF Hearing, InTurn, Runs
  <2>9. Dispatching(w, "LMP_MSG") => Meant(p, w, Hand(p, w), w.frame.text)
    <3>1. Taken(p, v) <= v.said
      BY <2>1, HandBehind
    <3> QED
      BY <1>4, <2>1, <2>4, <2>5, <3>1 DEF Hearing, Steady, SameHearer
  <2> QED
    BY <2>7, <2>8, <2>9 DEF Hearing
<1> QED
  BY <1>7, <1>8, <1>9 DEF Agreed

-----------------------------------------------------------------------------
(* What the hearer does. *)

\* The payload: the frame is dispatched next.
LEMMA Takes2 ==
  ASSUME NEW p \in Peers, NEW v \in View, NEW w \in View, Agreed(p, v),
         SameSpeaker(v, w), w.user = v.user, w.thread = v.thread,
         w.got = v.got, w.frame = v.frame, w.peer = v.peer, w.path = v.path,
         w.hears = v.hears, w.torn = v.torn, Lives(v),
         v.at = "payload", w.at = "dispatch",
         v.stream # <<>>, Head(v.stream).part = "payload",
         w.stream = SubSeq(v.stream, 2, Len(v.stream))
  PROVE  Agreed(p, w)
<1>0. SameLines(p, v.own, w.own)
  BY DEF SameSpeaker, SameLines
<1>1. Counted(p, w)
  <2>1. Pending(w) <=> Pending(v)
    BY DEF Pending, SameSpeaker
  <2> QED
    BY <1>0, <2>1, CountedKept DEF Agreed, SameSpeaker, Runs, Lives
<1> SUFFICES ASSUME Whole(w) PROVE Ledger(p, w) /\ (Reads(w) => Hearing(p, w))
  BY <1>1 DEF Agreed
<1>2. Hearing(p, v) /\ Ledger(p, v)
  BY DEF Agreed, Reads, Whole
<1> DEFINE s == Flow(v)
           f == v.frame
<1>3. /\ s = <<Header(f)>> \o v.stream /\ s \in Seq(GoodHalf) /\ v.stream \in Seq(GoodHalf)
      /\ f \in GoodFrame /\ Header(f) \in GoodHalf
  BY HalfTypes, ViewTypes DEF Flow
<1>4. /\ Len(v.stream) \in Nat /\ Len(v.stream) >= 1 /\ Len(s) = Len(v.stream) + 1
      /\ s[1] = Header(f) /\ s[2] = Head(v.stream)
      /\ SubSeq(s, 3, Len(s)) = w.stream
  <2>1. Len(v.stream) \in Nat /\ Len(v.stream) >= 1 /\ Head(v.stream) = v.stream[1]
    BY <1>3
  <2>2. Len(s) = Len(v.stream) + 1 /\ s[1] = Header(f)
        /\ \A i \in 1 .. Len(v.stream) : s[i + 1] = v.stream[i]
    BY <1>3
  <2>3. s[2] = Head(v.stream)
    BY <2>1, <2>2
  <2>4. SubSeq(s, 3, Len(s)) = w.stream
    <3>1. CASE Len(v.stream) = 1
      BY <1>3, <2>1, <2>2, <3>1, SubSeqEmpty
    <3>2. CASE Len(v.stream) # 1
      <4>1. <<Header(f)>> \in Seq(GoodHalf) /\ Len(<<Header(f)>>) = 1
        BY <1>3
      <4>2. /\ 3 \in 1 + 1 .. 1 + Len(v.stream) /\ Len(s) \in 1 + 1 .. 1 + Len(v.stream)
            /\ 3 - 1 = 2 /\ Len(s) - 1 = Len(v.stream)
        <5>1. PICK n \in Nat : n = Len(v.stream) /\ n >= 1 /\ n # 1 /\ Len(s) = n + 1
          BY <2>1, <2>2, <3>2
        <5>2. \A m, k : m \in Nat /\ m >= 1 /\ m # 1 /\ k = m + 1 =>
                /\ 3 \in 1 + 1 .. 1 + m /\ k \in 1 + 1 .. 1 + m
                /\ 3 - 1 = 2 /\ k - 1 = m
          OBVIOUS
        <5> QED
          BY <5>1, <5>2, ZenonT(30)
      <4> QED
        BY <1>3, <4>1, <4>2, SubSeqOfConcat2
    <3> QED
      BY <3>1, <3>2
  <2> QED
    BY <2>1, <2>2, <2>3, <2>4
<1> HIDE DEF s
<1>5. Len(s) >= 2
  BY <1>4
<1>6. InTurn(v, s)
  BY <1>2 DEF Hearing, s
<1>7. /\ s[2].frame = f /\ Paired(w.stream)
      /\ \A e : Open(s, Len(s), e) => Open(w.stream, Len(w.stream), e)
  <2>1. Paired(s)
    BY <1>6 DEF InTurn
  <2>2. s \in Seq(GoodHalf) /\ f \in GoodFrame /\ s[1] = Header(f) /\ s[2].part = "payload"
    BY <1>3, <1>4
  <2>3. w.stream = SubSeq(s, 3, Len(s))
    BY <1>4
  <2> QED
    BY <1>5, <2>1, <2>2, <2>3, PairedDrop
<1>8. s[2] = Payload(f)
  <2>1. Head(v.stream) \in GoodHalf
    BY <1>3
  <2>2. PICK half \in GoodHalf : half = s[2] /\ half.part = "payload" /\ half.frame = f
    BY <1>4, <1>7, <2>1
  <2>3. half = [part |-> half.part, frame |-> half.frame]
    BY DEF GoodHalf
  <2> QED
    BY <2>2, <2>3 DEF Payload
<1>9. Steady(p, v, w) /\ Saved(p, w) = Saved(p, v)
      /\ \A n, x : Named(p, v, n, x) => Named(p, w, n, x)
  BY <1>0, SteadySame DEF SameSpeaker, Runs
<1>10. Hand(p, v) \in Reader /\ Hand(p, v).n = Taken(p, v) /\ Flow(w) = w.stream
       /\ Taken(p, v) = Number(v.got, p) /\ Number(v.got, p) \in Nat /\ Saved(p, v) \in Nat
  BY ViewTypes DEF Flow, Taken, Dispatching
<1>11. \A r \in Reader : UpToDate(v, r) => UpToDate(w, r)
  BY DEF UpToDate, SameSpeaker
<1>12. /\ Hears(p, w, w.stream, After(Hand(p, v), Header(f)))
       /\ f.type = "LMP_MSG" => /\ Meant(p, w, After(Hand(p, v), Header(f)), f.text)
                                /\ IsSent(p, w, Taken(p, v) + 1)
  BY <1>2, <1>3, <1>4, <1>5, <1>8, <1>9, <1>10, <1>11, HearsNext
     DEF Hearing, SameSpeaker, Runs, s
<1>13. Hand(p, w) = After(Hand(p, v), Header(f))
  <2>1. Header(f).part = "header" /\ Header(f).frame = f
    BY DEF Header
  <2>2. Taken(p, w) = IF f.type = "LMP_MSG" THEN Taken(p, v) + 1 ELSE Taken(p, v)
    BY <1>10 DEF Taken, Dispatching
  <2>3. Hand(p, v) = [n |-> Taken(p, v), nick |-> v.peer, path |-> v.path]
    BY DEF Hand, Dispatching
  <2>4. Hand(p, w) = [n    |-> IF f.type = "LMP_MSG" THEN Taken(p, v) + 1 ELSE Taken(p, v),
                      nick |-> IF f.type = "LMP_NICK" THEN f.text ELSE v.peer,
                      path |-> IF f.type = "LMP_UID" THEN "set" ELSE v.path]
    BY <2>2 DEF Hand, Dispatching
  <2> QED
    BY <2>1, <2>3, <2>4 DEF After, IsHeader
<1>14. Ledger(p, w)
  <2>1. Taken(p, w) = IF f.type = "LMP_MSG" THEN Taken(p, v) + 1 ELSE Taken(p, v)
    BY <1>10 DEF Taken, Dispatching
  <2>2. IsSent(p, w, Taken(p, w))
    <3>1. CASE f.type = "LMP_MSG"
      BY <1>12, <2>1, <3>1
    <3>2. CASE f.type # "LMP_MSG"
      BY <1>2, <1>9, <1>10, <2>1, <3>2 DEF Ledger, Steady
    <3> QED
      BY <3>1, <3>2
  <2>3. \A n \in Nat, y \in Line : Stands(w.own, p, n, y) => y.text = Texts[p][n]
    BY <1>2 DEF Ledger, SameSpeaker
  <2>4. \A n \in Nat, y \in Line :
          Stands(w.got, p, n, y) => /\ n <= Len(Texts[p]) /\ y.text = Texts[p][n]
                                    /\ Named(p, w, n, y.name)
    BY <1>2, <1>9 DEF Ledger
  <2>5. Runs(w) /\ w.user = "saving" => w.line.text = Texts[p][Saved(p, w) + 1]
    <3>1. Runs(w) /\ w.user = "saving" => Counted(p, w) /\ Lives(w) /\ Pending(w)
      BY <1>1 DEF Lives, Pending
    <3> QED
      BY <3>1 DEF Counted
  <2> QED
    BY <2>2, <2>3, <2>4, <2>5 DEF Ledger
<1>15. Hearing(p, w)
  <2>1. InTurn(w, w.stream)
    BY <1>6, <1>7 DEF InTurn, SameSpeaker, Runs
  <2>2. Dispatching(w, "LMP_MSG") => f.type = "LMP_MSG" /\ w.frame.text = f.text
    BY DEF Dispatching
  <2> QED
    BY <1>10, <1>12, <1>13, <2>1, <2>2 DEF Hearing
<1> QED
  BY <1>14, <1>15

\* The line is saved, and remains taken.
LEMMA SavesHeard ==
  ASSUME NEW p \in Peers, NEW v \in View, NEW w \in View, Agreed(p, v),
         SameSpeaker(v, w), w.user = v.user, w.thread = v.thread, w.stream = v.stream,
         w.frame = v.frame, w.peer = v.peer, w.path = v.path,
         w.hears = v.hears, w.torn = v.torn, Lives(v),
         Dispatching(v, "LMP_MSG"), w.at = "header",
         NEW l \in Line, l.from = p, l.name = v.peer, l.text = v.frame.text,
         w.got = IF v.path = "set" THEN Append(v.got, l) ELSE v.got
  PROVE  Agreed(p, w)
<1>0. SameLines(p, v.own, w.own)
  BY DEF SameSpeaker, SameLines
<1>1. Counted(p, w)
  <2>1. Pending(w) <=> Pending(v)
    BY DEF Pending, SameSpeaker
  <2> QED
    BY <1>0, <2>1, CountedKept DEF Agreed, SameSpeaker, Runs, Lives
<1> SUFFICES ASSUME Whole(w) PROVE Ledger(p, w) /\ (Reads(w) => Hearing(p, w))
  BY <1>1 DEF Agreed
<1>2. Hearing(p, v) /\ Ledger(p, v)
  BY DEF Agreed, Reads, Whole, Dispatching
<1>3. /\ Taken(p, v) = Number(v.got, p) + 1 /\ Taken(p, v) \in Nat /\ v.got \in Seq(Line)
      /\ Hand(p, v) = [n |-> Taken(p, v), nick |-> v.peer, path |-> v.path]
  BY ViewTypes DEF Taken, Hand, Dispatching
<1>4. Meant(p, v, Hand(p, v), v.frame.text)
  BY <1>2 DEF Hearing
<1>5. /\ v.path = "set" /\ Taken(p, v) \in 1 .. Len(Texts[p])
      /\ l.text = Texts[p][Taken(p, v)] /\ Named(p, v, Taken(p, v), v.peer)
  BY <1>3, <1>4 DEF Meant
<1>6. w.got = Append(v.got, l)
  BY <1>5
<1>7. Number(w.got, p) = Number(v.got, p) + 1
  BY <1>3, <1>6, NumberAppend
<1>8. Taken(p, w) = Taken(p, v)
  BY <1>3, <1>7 DEF Taken, Dispatching
<1>9. Hand(p, w) = Hand(p, v)
  BY <1>3, <1>8 DEF Hand, Dispatching
<1>10. Flow(w) = Flow(v)
  BY DEF Flow, Dispatching
<1>11. Steady(p, v, w) /\ Saved(p, w) = Saved(p, v)
       /\ \A n, x : Named(p, v, n, x) => Named(p, w, n, x)
  BY <1>0, SteadySame DEF SameSpeaker, Runs
<1>12. Ledger(p, w)
  <2>1. IsSent(p, w, Taken(p, w))
    BY <1>2, <1>3, <1>8, <1>11 DEF Ledger, Steady
  <2>2. \A n \in Nat, y \in Line :
          Stands(w.own, p, n, y) /\ (Lives(w) \/ n <= Taken(p, w)) => y.text = Texts[p][n]
    BY <1>2, <1>8 DEF Ledger, SameSpeaker, Lives
  <2>3. ASSUME NEW n \in Nat, NEW y \in Line, Stands(w.got, p, n, y)
        PROVE  /\ n <= Len(Texts[p]) /\ y.text = Texts[p][n]
               /\ Named(p, w, n, y.name)
    <3>1. Stands(v.got, p, n, y) \/ (n = Taken(p, v) /\ y = l)
      BY <1>3, <1>6, <2>3, StandsAppend
    <3>2. CASE Stands(v.got, p, n, y)
      BY <1>2, <1>11, <3>2 DEF Ledger
    <3>3. CASE n = Taken(p, v) /\ y = l
      BY <1>5, <1>11, <3>3
    <3> QED
      BY <3>1, <3>2, <3>3
  <2>4. Runs(w) /\ w.user = "saving" /\ Taken(p, w) > Saved(p, w)
          => w.line.text = Texts[p][Saved(p, w) + 1]
    BY <1>2, <1>8, <1>11 DEF Ledger, SameSpeaker, Runs
  <2> QED
    BY <2>1, <2>2, <2>3, <2>4 DEF Ledger
<1>13. Hearing(p, w)
  <2>1. Flow(v) \in Seq(GoodHalf)
    BY ViewTypes
  <2>2. \A r \in Reader : UpToDate(v, r) => UpToDate(w, r)
    BY DEF UpToDate, SameSpeaker
  <2>3. Hears(p, w, Flow(w), Hand(p, w))
    BY <1>2, <1>9, <1>10, <1>11, <2>1, <2>2, HearsKept DEF Hearing, SameSpeaker, Runs
  <2>4. InTurn(w, Flow(w))
    BY <1>2, <1>10 DEF Hearing, InTurn, SameSpeaker, Runs
  <2>5. ~Dispatching(w, "LMP_MSG")
    BY DEF Dispatching
  <2> QED
    BY <2>3, <2>4, <2>5 DEF Hearing
<1> QED
  BY <1>12, <1>13

\* Another half is read, which is a header.
LEMMA Begins ==
  ASSUME NEW p \in Peers, NEW v \in View, NEW w \in View, Agreed(p, v),
         SameSpeaker(v, w), w.user = v.user, w.thread = v.thread,
         w.got = v.got, w.peer = v.peer, w.path = v.path,
         w.hears = v.hears, w.torn = v.torn,
         v.at = "header", w.at = "payload", v.stream # <<>>,
         Head(v.stream).part = "header", w.frame = Head(v.stream).frame,
         w.stream = SubSeq(v.stream, 2, Len(v.stream))
  PROVE  Agreed(p, w)
<1>1. v.stream \in Seq(GoodHalf) /\ Len(v.stream) \in Nat /\ Len(v.stream) >= 1
      /\ Head(v.stream) \in GoodHalf /\ Head(v.stream) = v.stream[1]
  BY DEF View
<1>2. Header(w.frame) = v.stream[1]
  <2>1. PICK half \in GoodHalf : half = Head(v.stream) /\ half.part = "header"
    BY <1>1
  <2>2. half = [part |-> half.part, frame |-> half.frame]
    BY DEF GoodHalf
  <2> QED
    BY <1>1, <2>1, <2>2 DEF Header
<1>3. Flow(w) = v.stream
  <2>1. 1 \in 1 .. Len(v.stream) /\ Len(v.stream) \in 1 .. Len(v.stream) /\ 1 + 1 = 2
    BY <1>1
  <2>2. SubSeq(v.stream, 1, Len(v.stream)) = <<v.stream[1]>> \o SubSeq(v.stream, 2, Len(v.stream))
    BY <1>1, <2>1, SubSeqRecursiveFirst
  <2>3. SubSeq(v.stream, 1, Len(v.stream)) = v.stream
    BY <1>1, SubSeqFull
  <2> QED
    BY <1>2, <2>2, <2>3 DEF Flow
<1>4. Flow(v) = v.stream
  BY DEF Flow
<1>5. SameLines(p, v.own, w.own) /\ SameLines(p, v.got, w.got)
  BY DEF SameSpeaker, SameLines
<1>6. Taken(p, w) = Taken(p, v)
  BY DEF Taken, Dispatching
<1>7. Hand(p, w) = Hand(p, v)
  BY <1>6 DEF Hand, Dispatching
<1>8. ~Dispatching(w, "LMP_MSG")
  BY DEF Dispatching
<1> QED
  BY <1>3, <1>4, <1>5, <1>6, <1>7, <1>8, Quiet DEF SameSpeaker, Runs, Lives, Reads, Whole

\* What is lost of the stream of a speaker that has gone.
LEMMA FlowCut ==
  ASSUME NEW v \in View, NEW w \in View, w.at = v.at, w.frame = v.frame, w.stream = <<>>
  PROVE  \E m \in 0 .. Len(Flow(v)) : Flow(w) = SubSeq(Flow(v), 1, m)
<1>1. v.stream \in Seq(GoodHalf) /\ Header(v.frame) \in GoodHalf /\ Len(v.stream) \in Nat
      /\ <<Header(v.frame)>> \in Seq(GoodHalf) /\ <<>> \in Seq(GoodHalf)
  BY HalfTypes DEF View
<1>2. CASE v.at = "payload"
  <2>1. Flow(w) = <<Header(v.frame)>>
    BY <1>1, <1>2, ConcatEmptySeq DEF Flow
  <2>2. PICK s \in Seq(GoodHalf) : s = Flow(v)
    <3>1. <<Header(v.frame)>> \o v.stream \in Seq(GoodHalf)
      BY <1>1, ConcatProperties
    <3> QED
      BY <1>2, <3>1 DEF Flow
  <2>3. Len(s) = 1 + Len(v.stream) /\ s[1] = Header(v.frame)
    BY <1>1, <1>2, <2>2 DEF Flow
  <2>4. 1 \in 1 .. Len(s) /\ 1 \in 0 .. Len(s) /\ 1 + 1 = 2 /\ 1 \in Int /\ 2 \in Int
    BY <1>1, <2>3
  <2>5. SubSeq(s, 1, 1) = <<s[1]>> \o SubSeq(s, 2, 1) /\ SubSeq(s, 2, 1) = <<>>
    BY <2>4, SubSeqRecursiveFirst, SubSeqEmpty
  <2>6. SubSeq(s, 1, 1) = <<Header(v.frame)>>
    BY <1>1, <2>3, <2>5, ConcatEmptySeq
  <2> QED
    BY <2>1, <2>2, <2>4, <2>6
<1>3. CASE v.at # "payload"
  <2>1. Flow(w) = <<>> /\ Flow(v) = v.stream
    BY <1>3 DEF Flow
  <2>2. SubSeq(v.stream, 1, 0) = <<>> /\ 0 \in 0 .. Len(v.stream)
    BY <1>1, SubSeqEmpty
  <2> QED
    BY <2>1, <2>2
<1> QED
  BY <1>2, <1>3

\* The hearer stays where it is, or its process ends.
LEMMA Idle ==
  ASSUME NEW p \in Peers, NEW v \in View, NEW w \in View, Agreed(p, v),
         SameLines(p, v.own, w.own), SameLines(p, v.got, w.got),
         Runs(w) => Runs(v) /\ w.nick = v.nick /\ w.line = v.line /\ w.said = v.said,
         v.user = "saving" => w.user = "saving",
         Lives(w) => Lives(v),
         Runs(w) /\ Lives(w) =>
           \/ w.user = v.user
           \/ {v.user, w.user} \cap {"uid", "payload", "saving"} = {},
         w.thread = "ack_payload" => v.thread = "ack_payload",
         w.torn = v.torn, w.at = v.at, w.frame = v.frame, w.peer = v.peer, w.path = v.path,
         w.stream = v.stream \/ ~Lives(w) \/ (~Runs(w) /\ w.stream = <<>>)
  PROVE  Agreed(p, w)
<1>1. Taken(p, w) = Taken(p, v) /\ Hand(p, w) = Hand(p, v)
  <2>1. Taken(p, w) = Taken(p, v)
    BY DEF SameLines, Taken, Dispatching
  <2> QED
    BY <2>1 DEF Hand, Dispatching
<1>2. Lives(w) => \/ Flow(w) = Flow(v)
                  \/ ~Runs(w) /\ \E m \in 0 .. Len(Flow(v)) : Flow(w) = SubSeq(Flow(v), 1, m)
  <2>1. CASE w.stream = v.stream
    BY <2>1 DEF Flow
  <2>2. CASE ~Runs(w) /\ w.stream = <<>>
    BY <2>2, FlowCut
  <2> QED
    BY <2>1, <2>2
<1>3. Dispatching(w, "LMP_MSG") => Dispatching(v, "LMP_MSG") /\ w.frame = v.frame
  BY DEF Dispatching
<1>4. (Whole(w) => Whole(v)) /\ (Reads(w) => Reads(v) /\ Lives(w))
  BY DEF Whole, Reads
<1> QED
  BY <1>1, <1>2, <1>3, <1>4, Quiet

\* The hearer deals with a frame that is no line.
LEMMA Moves ==
  ASSUME NEW p \in Peers, NEW v \in View, NEW w \in View, Agreed(p, v),
         SameSpeaker(v, w), w.user = v.user, w.thread = v.thread,
         w.got = v.got, w.hears = v.hears, w.torn = v.torn,
         v.at \notin {"payload", "done"}, w.at \notin {"payload", "dispatch"},
         ~Dispatching(v, "LMP_MSG"),
         w.peer = IF Dispatching(v, "LMP_NICK") THEN v.frame.text ELSE v.peer,
         w.path = IF Dispatching(v, "LMP_UID") THEN "set" ELSE v.path,
         w.stream = v.stream \/ (~Runs(w) /\ w.stream = <<>>)
  PROVE  Agreed(p, w)
<1>1. Taken(p, w) = Taken(p, v)
  BY DEF Taken, Dispatching
<1>2. Hand(p, w) = Hand(p, v)
  BY <1>1 DEF Hand, Dispatching
<1>3. \/ Flow(w) = Flow(v)
      \/ ~Runs(w) /\ \E m \in 0 .. Len(Flow(v)) : Flow(w) = SubSeq(Flow(v), 1, m)
  <2>1. Flow(w) = w.stream /\ Flow(v) = v.stream
    BY DEF Flow
  <2>2. CASE w.stream = v.stream
    BY <2>1, <2>2
  <2>3. CASE ~Runs(w) /\ w.stream = <<>>
    <3>1. v.stream \in Seq(GoodHalf)
      BY ViewTypes
    <3>2. SubSeq(v.stream, 1, 0) = <<>> /\ 0 \in 0 .. Len(v.stream)
      BY <3>1, SubSeqEmpty
    <3> QED
      BY <2>1, <2>3, <3>2
  <2> QED
    BY <2>2, <2>3
<1>4. SameLines(p, v.own, w.own) /\ SameLines(p, v.got, w.got)
  BY DEF SameSpeaker, SameLines
<1>5. ~Dispatching(w, "LMP_MSG") /\ (Reads(w) => Reads(v)) /\ (Whole(w) => Whole(v))
  BY DEF Dispatching, Reads, Whole, Lives
<1> QED
  BY <1>1, <1>2, <1>3, <1>4, <1>5, Quiet DEF SameSpeaker, Runs, Lives

\* The hearer reads no more, or took something else for a payload.
LEMMA Stops ==
  ASSUME NEW p \in Peers, NEW v \in View, NEW w \in View, Agreed(p, v),
         SameSpeaker(v, w), w.user = v.user, w.thread = v.thread,
         w.got = v.got, w.hears = v.hears,
         \/ w.torn = "torn"
         \/ w.torn = v.torn /\ v.at # "dispatch" /\ w.at = "done"
  PROVE  Agreed(p, w)
<1>1. SameLines(p, v.own, w.own) /\ SameLines(p, v.got, w.got)
  BY DEF SameSpeaker, SameLines
<1>2. Whole(w) => Whole(v) /\ ~Reads(w) /\ Taken(p, w) = Taken(p, v)
  BY DEF Whole, Reads, Taken, Dispatching
<1> QED
  BY <1>1, <1>2, Quiet DEF SameSpeaker, Runs, Lives

-----------------------------------------------------------------------------
(* From the state to the views and back. *)

Shows(p, v) ==
  LET q == Other(p)
  IN  /\ v.own = history[p] /\ v.got = history[q]
      /\ v.user = user[p] /\ v.line = line[p] /\ v.nick = my_nick[p] /\ v.said = said[p].msg
      /\ v.thread = receiver[p] /\ v.runs = process[p]
      /\ v.at = receiver[q] /\ v.frame = frame[q] /\ v.peer = peer_nick[q]
      /\ v.path = IF history_path[q] THEN "set" ELSE "unset"
      /\ v.hears = process[q] /\ v.torn = IF torn[q] THEN "torn" ELSE "whole"
      /\ v.stream = stream[p]

LEMMA SeenNow ==
  ASSUME TypeInv, NEW p \in Peers
  PROVE  Seen(p) \in View /\ Shows(p, Seen(p))
<1> DEFINE q == Other(p)
<1>1. q \in Peers
  BY OtherPeer
<1>2. /\ history[p] \in Seq(Line) /\ history[q] \in Seq(Line)
      /\ user[p] \in {"uid", "payload", "waiting", "prompt", "saving", "joining"}
      /\ line[p] \in GoodFrame /\ my_nick[p] \in Nicks \cup {"You"} /\ said[p].msg \in Nat
      /\ receiver[p] \in ReceiverPlaces /\ process[p] \in Processes
      /\ receiver[q] \in ReceiverPlaces /\ frame[q] \in GoodFrame
      /\ peer_nick[q] \in Nicks \cup {"Peer", "garbled"}
      /\ process[q] \in Processes /\ stream[p] \in Seq(GoodHalf)
  BY <1>1 DEF TypeInv, ChatTypeOK, ReceiverPlaces, Processes
<1> HIDE DEF q
<1>3. my_nick[p] \in Words /\ peer_nick[q] \in Words
  BY <1>2 DEF Words
<1>4. Seen(p) \in View
  BY <1>2, <1>3 DEF Seen, View, q
<1> QED
  BY <1>4 DEF Seen, Shows

LEMMA SeenNext ==
  ASSUME TypeInv', NEW p \in Peers
  PROVE  Seen(p)' \in View /\ Shows(p, Seen(p))'
<1> DEFINE q == Other(p)
<1>1. q \in Peers
  BY OtherPeer
<1>2. /\ history'[p] \in Seq(Line) /\ history'[q] \in Seq(Line)
      /\ user'[p] \in {"uid", "payload", "waiting", "prompt", "saving", "joining"}
      /\ line'[p] \in GoodFrame /\ my_nick'[p] \in Nicks \cup {"You"} /\ said'[p].msg \in Nat
      /\ receiver'[p] \in ReceiverPlaces /\ process'[p] \in Processes
      /\ receiver'[q] \in ReceiverPlaces /\ frame'[q] \in GoodFrame
      /\ peer_nick'[q] \in Nicks \cup {"Peer", "garbled"}
      /\ process'[q] \in Processes /\ stream'[p] \in Seq(GoodHalf)
  BY <1>1 DEF TypeInv, ChatTypeOK, ReceiverPlaces, Processes
<1> HIDE DEF q
<1>3. my_nick'[p] \in Words /\ peer_nick'[q] \in Words
  BY <1>2 DEF Words
<1>4. Seen(p)' \in View
  BY <1>2, <1>3 DEF Seen, View, q
<1> QED
  BY <1>4 DEF Seen, Shows

\* The views of both directions before and after a step of p.
Turn(p, v, w, x, y) ==
  /\ Shows(p, v) /\ Shows(p, w)' /\ Agreed(p, v)
  /\ Shows(Other(p), x) /\ Shows(Other(p), y)' /\ Agreed(Other(p), x)

AllAgreed == \A p \in Peers : Agreed(p, Seen(p))

LEMMA TurnsAgree ==
  ASSUME TypeInv, TypeInv', AllAgreed, NEW p \in Peers,
         \A v, w, x, y \in View : Turn(p, v, w, x, y) => Agreed(p, w) /\ Agreed(Other(p), y)
  PROVE  AllAgreed'
<1> DEFINE q == Other(p)
<1>1. q \in Peers /\ \A r \in Peers : r = p \/ r = q
  BY OtherPeer
<1> HIDE DEF q
<1>2. PICK v \in View : v = Seen(p) /\ Shows(p, v) /\ Agreed(p, v)
  BY SeenNow DEF AllAgreed
<1>3. PICK x \in View : x = Seen(q) /\ Shows(q, x) /\ Agreed(q, x)
  BY <1>1, SeenNow DEF AllAgreed
<1>4. PICK w \in View : w = Seen(p)' /\ Shows(p, w)'
  BY SeenNext
<1>5. PICK y \in View : y = Seen(q)' /\ Shows(q, y)'
  BY <1>1, SeenNext
<1>6. Agreed(p, w) /\ Agreed(q, y)
  BY <1>2, <1>3, <1>4, <1>5 DEF Turn, q
<1>7. Agreed(p, Seen(p)') /\ Agreed(q, Seen(q)')
  BY <1>4, <1>5, <1>6
<1> QED
  BY <1>1, <1>7 DEF AllAgreed

-----------------------------------------------------------------------------
(* What the steps do to the connection. *)

\* For q, the steps of p; and for p, when half is sent.
LEMMA EndsEffect ==
  ASSUME TypeInv, NEW p \in Peers, NEW how \in {"killed", "ended"}, Ends(p, how)
  PROVE  LET q == Other(p)
         IN  /\ process'[p] # "running" /\ process'[q] = process[q]
             /\ stream'[p] = stream[p] \/ stream'[p] = <<>>
<1> DEFINE q == Other(p)
<1>1. q \in Peers /\ q # p
  BY OtherPeer
<1>2. stream \in [Peers -> Seq(GoodHalf)] /\ process \in [Peers -> {"running", "killed", "ended"}]
  BY DEF TypeInv, ChatTypeOK
<1> HIDE DEF q
<1>3. \/ stream' = [stream EXCEPT ![q] = <<>>]
      \/ stream' = [r \in Peers |-> <<>>]
  BY DEF Ends, CloseSocket, q
<1>4. stream'[p] = stream[p] \/ stream'[p] = <<>>
  BY <1>1, <1>2, <1>3
<1>5. process' = [process EXCEPT ![p] = how]
  BY DEF Ends
<1>6. process'[p] # "running" /\ process'[q] = process[q]
  BY <1>1, <1>2, <1>5
<1> QED
  BY <1>4, <1>6 DEF q

LEMMA SendsEffect ==
  ASSUME TypeInv, NEW p \in Peers, NEW half \in GoodHalf, Sends(p, half)
  PROVE  LET q == Other(p)
         IN  /\ process' = process
             /\ process[q] = "running"
                  => stream'[p] = Append(stream[p], half) /\ stream'[q] = stream[q]
             /\ process[q] # "running"
                  => stream'[p] = stream[p] /\ (stream'[q] = stream[q] \/ stream'[q] = <<>>)
<1> DEFINE q == Other(p)
<1>1. q \in Peers /\ q # p
  BY OtherPeer
<1>2. stream \in [Peers -> Seq(GoodHalf)]
  BY DEF TypeInv, ChatTypeOK
<1> HIDE DEF q
<1>3. process' = process
  BY DEF Sends
<1>4. CASE process[q] = "running"
  <2>1. stream' = [stream EXCEPT ![p] = Append(stream[p], half)]
    BY <1>4 DEF Sends, Gone, q
  <2> QED
    BY <1>1, <1>2, <1>3, <1>4, <2>1 DEF q
<1>5. CASE process[q] # "running"
  <2>1. stream' = stream \/ stream' = [stream EXCEPT ![q] = <<>>]
    BY <1>5 DEF Sends, Gone, q
  <2> QED
    BY <1>1, <1>2, <1>3, <1>5, <2>1 DEF q
<1> QED
  BY <1>4, <1>5

\* What a send() of p leaves of the other direction.
NetElsewhere(p) ==
  LET q == Other(p)
  IN  /\ process'[q] = process[q]
      /\ process'[p] = process[p] \/ process'[p] # "running"
      /\ \/ stream'[q] = stream[q]
         \/ process'[p] # "running"
         \/ process[q] # "running" /\ stream'[q] = <<>>

LEMMA SendElsewhere ==
  ASSUME TypeInv, NEW p \in Peers, NEW half \in GoodHalf,
         Sends(p, half) \/ SendFails(p) \/ SendKills(p)
  PROVE  NetElsewhere(p)
<1>1. CASE Sends(p, half)
  BY <1>1, SendsEffect DEF NetElsewhere
<1>2. CASE SendFails(p)
  BY <1>2 DEF SendFails, net, NetElsewhere
<1>3. CASE SendKills(p)
  BY <1>3, EndsEffect DEF SendKills, NetElsewhere
<1> QED
  BY <1>1, <1>2, <1>3

\* A step of p's user thread, seen as the hearer's.
LEMMA HearerIdle ==
  ASSUME TypeInv, TypeInv', NEW p \in Peers,
         NEW v \in View, NEW w \in View, NEW x \in View, NEW y \in View, Turn(p, v, w, x, y),
         NetElsewhere(p), UNCHANGED receiverVars,
         LET q == Other(p)
         IN  /\ user'[q] = user[q] /\ line'[q] = line[q] /\ my_nick'[q] = my_nick[q]
             /\ said'[q] = said[q] /\ history'[q] = history[q]
             /\ \/ history'[p] = history[p]
                \/ \E l \in Line : l.from = p /\ history'[p] = Append(history[p], l)
  PROVE  Agreed(Other(p), y)
<1> DEFINE q == Other(p)
<1>1. q \in Peers /\ q # p /\ Other(q) = p
  BY OtherPeer
<1>2. Shows(q, x) /\ Shows(q, y)' /\ Agreed(q, x)
  BY DEF Turn
<1> HIDE DEF q
<1>3. /\ y.own = x.own /\ y.user = x.user /\ y.line = x.line /\ y.nick = x.nick
      /\ y.said = x.said
  BY <1>2 DEF Shows, q
<1>4. /\ y.thread = x.thread /\ y.at = x.at /\ y.frame = x.frame /\ y.peer = x.peer
      /\ y.path = x.path /\ y.torn = x.torn
  BY <1>1, <1>2 DEF Shows, receiverVars
<1>5. /\ y.runs = x.runs
      /\ y.hears = x.hears \/ ~Lives(y)
      /\ y.stream = x.stream \/ ~Lives(y) \/ (~Runs(y) /\ y.stream = <<>>)
  BY <1>1, <1>2 DEF Shows, q, NetElsewhere, Runs, Lives
<1>6. x.own \in Seq(Line) /\ x.got \in Seq(Line) /\ y.own \in Seq(Line) /\ y.got \in Seq(Line)
  BY DEF View
<1>7. y.got = x.got \/ \E l \in Line : l.from # q /\ y.got = Append(x.got, l)
  BY <1>1, <1>2 DEF Shows
<1>8. SameLines(q, x.own, y.own) /\ SameLines(q, x.got, y.got)
  BY <1>1, <1>3, <1>6, <1>7, LinesSame
<1>9. Agreed(q, y)
  BY <1>1, <1>2, <1>3, <1>4, <1>5, <1>8, Idle DEF Runs, Lives
<1> QED
  BY <1>9 DEF q

-----------------------------------------------------------------------------
(* The user thread. *)

LEMMA UserElsewhere ==
  ASSUME TypeInv, NEW p \in Peers, UserRuns(p) \/ UserTypes(p)
  PROVE  LET q == Other(p)
         IN  /\ NetElsewhere(p) /\ UNCHANGED receiverVars
             /\ user'[q] = user[q] /\ line'[q] = line[q] /\ my_nick'[q] = my_nick[q]
             /\ said'[q] = said[q] /\ history'[q] = history[q]
             /\ \/ history'[p] = history[p]
                \/ \E l \in Line : l.from = p /\ history'[p] = Append(history[p], l)
<1> DEFINE q == Other(p)
<1>1. q \in Peers /\ q # p
  BY OtherPeer
<1>2. /\ user \in [Peers -> {"uid", "payload", "waiting", "prompt", "saving", "joining"}]
      /\ line \in [Peers -> GoodFrame] /\ my_nick \in [Peers -> Nicks \cup {"You"}]
      /\ said \in [Peers -> [msg : Nat, nick : Nat]]
      /\ history \in [Peers -> Seq(Line)]
      /\ LineFits
  BY DEF TypeInv, ChatTypeOK
<1> HIDE DEF q
<1>3. ASSUME NEW half \in GoodHalf, NEW place, UserSendsHeader(p, place), half = Header(line'[p])
      PROVE  NetElsewhere(p) /\ user'[q] = user[q] /\ UNCHANGED <<receiverVars, history>>
  <2>1. Sends(p, half) \/ SendFails(p) \/ SendKills(p)
    BY <1>3 DEF UserSendsHeader
  <2>2. NetElsewhere(p)
    BY <2>1, SendElsewhere
  <2>3. user' = user \/ user' = [user EXCEPT ![p] = "payload"] \/ user' = [user EXCEPT ![p] = place]
    BY <1>3 DEF UserSendsHeader, GoTo
  <2>4. user'[q] = user[q]
    BY <1>1, <1>2, <2>3
  <2> QED
    BY <1>3, <2>2, <2>4 DEF UserSendsHeader
<1>4. CASE SendUid(p)
  <2>1. UserSendsHeader(p, "waiting") /\ UNCHANGED <<line, my_nick, said>>
    BY <1>4 DEF SendUid
  <2>2. Header(line'[p]) \in GoodHalf
    BY <1>2, <2>1, HalfTypes
  <2> QED
    BY <1>3, <2>1, <2>2 DEF q
<1>5. CASE SendPayload(p)
  <2>1. Sends(p, Payload(line[p])) \/ SendFails(p) \/ SendKills(p)
    BY <1>5 DEF SendPayload
  <2>2. Payload(line[p]) \in GoodHalf
    BY <1>2, HalfTypes
  <2>3. NetElsewhere(p)
    BY <2>1, <2>2, SendElsewhere
  <2>4. user' = user \/ \E place : user' = [user EXCEPT ![p] = place]
    BY <1>5 DEF SendPayload, GoTo
  <2>5. user'[q] = user[q]
    BY <1>1, <1>2, <2>4
  <2> QED
    BY <1>5, <2>3, <2>5 DEF SendPayload, q
<1>6. CASE SeeReady(p)
  <2>1. user' = [user EXCEPT ![p] = "prompt"]
        /\ UNCHANGED <<line, my_nick, said, receiverVars, history, net>>
    BY <1>6 DEF SeeReady, GoTo
  <2> QED
    BY <1>1, <1>2, <2>1 DEF net, NetElsewhere, q
<1>7. CASE SaveOwn(p)
  <2>1. user' = [user EXCEPT ![p] = "prompt"] /\ UNCHANGED <<line, my_nick, said, receiverVars, net>>
        /\ history' = Appended(p, p, my_nick[p], line[p].text) /\ line[p].type = "LMP_MSG"
    BY <1>2, <1>7 DEF SaveOwn, GoTo, At, LineFits
  <2>2. PICK l \in Line : l = [from |-> p, name |-> my_nick[p], text |-> line[p].text]
    <3>1. line[p].text \in Lines \cup {"garbled"}
      BY <1>2, <2>1 DEF GoodFrame
    <3> QED
      BY <1>2, <3>1, LineTypes
  <2>3. history' = history \/ history' = [history EXCEPT ![p] = Append(history[p], l)]
    BY <2>1, <2>2 DEF Appended
  <2>4. /\ history'[q] = history[q]
        /\ history'[p] = history[p] \/ history'[p] = Append(history[p], l)
    BY <1>1, <1>2, <2>3
  <2>5. user'[q] = user[q]
    BY <1>1, <1>2, <2>1
  <2>6. l.from = p
    BY <2>2
  <2>7. NetElsewhere(p)
    BY <2>1 DEF net, NetElsewhere
  <2> QED
    BY <2>1, <2>4, <2>5, <2>6, <2>7 DEF q
<1>8. CASE Join(p)
  <2>1. Ends(p, "ended") /\ UNCHANGED <<userVars, receiverVars, history>>
    BY <1>8 DEF Join
  <2>2. NetElsewhere(p)
    BY <2>1, EndsEffect DEF NetElsewhere
  <2> QED
    BY <2>1, <2>2 DEF userVars, q
<1>9. CASE TypeMsg(p)
  <2>1. /\ UserSendsHeader(p, "prompt") /\ UNCHANGED my_nick
        /\ said' = [said EXCEPT ![p].msg = @ + 1]
        /\ line' = [line EXCEPT ![p] = FrameOf("LMP_MSG", Texts[p][said[p].msg + 1])]
    BY <1>9 DEF TypeMsg
  <2>2. said'[q] = said[q] /\ line'[q] = line[q]
    BY <1>1, <1>2, <2>1
  <2>3. Header(line'[p]) \in GoodHalf
    <3>1. /\ Len(Texts[p]) \in Nat /\ said[p].msg \in Nat /\ said[p].msg < Len(Texts[p])
      <4>1. Texts[p] \in Seq(STRING)
        BY ChatAssumption
      <4>2. Len(Texts[p]) \in Nat
        BY <4>1
      <4> QED
        BY <1>2, <1>9, <4>2 DEF TypeMsg
    <3>2. said[p].msg + 1 \in 1 .. Len(Texts[p])
      BY <3>1
    <3>3. FrameOf("LMP_MSG", Texts[p][said[p].msg + 1]) \in GoodFrame
      BY <3>2, TextTypes, FrameTypes
    <3>4. line'[p] = FrameOf("LMP_MSG", Texts[p][said[p].msg + 1])
      BY <1>2, <2>1
    <3> QED
      BY <3>3, <3>4, HalfTypes
  <2> QED
    BY <1>3, <2>1, <2>2, <2>3 DEF q
<1>10. CASE TypeNick(p)
  <2>1. PICK nick \in Nicks : /\ my_nick' = [my_nick EXCEPT ![p] = nick]
                              /\ line' = [line EXCEPT ![p] = FrameOf("LMP_NICK", nick)]
    BY <1>10 DEF TypeNick
  <2>2. UserSendsHeader(p, "prompt") /\ said' = [said EXCEPT ![p].nick = @ + 1]
    BY <1>10 DEF TypeNick
  <2>3. said'[q] = said[q] /\ line'[q] = line[q] /\ my_nick'[q] = my_nick[q]
    BY <1>1, <1>2, <2>1, <2>2
  <2>4. Header(line'[p]) \in GoodHalf
    BY <1>2, <2>1, FrameTypes, HalfTypes
  <2> QED
    BY <1>3, <2>2, <2>3, <2>4 DEF q
<1>11. CASE Leave(p)
  <2>1. user' = [user EXCEPT ![p] = "joining"]
        /\ UNCHANGED <<line, my_nick, said, receiverVars, history, stream, process>>
    BY <1>11 DEF Leave, GoTo
  <2> QED
    BY <1>1, <1>2, <2>1 DEF NetElsewhere, q
<1> QED
  BY <1>4, <1>5, <1>6, <1>7, <1>8, <1>9, <1>10, <1>11 DEF UserRuns, UserTypes

\* What the hearer is, when nothing but the speaker has moved.
LEMMA HearerKept ==
  ASSUME NEW p \in Peers, NEW v, NEW w, NEW x, NEW y, Turn(p, v, w, x, y),
         UNCHANGED receiverVars, process'[Other(p)] = process[Other(p)],
         history'[Other(p)] = history[Other(p)]
  PROVE  SameHearer(v, w) /\ w.thread = v.thread
  BY DEF Turn, Shows, SameHearer, receiverVars

LEMMA SpeakerEnds ==
  ASSUME TypeInv, NEW p \in Peers, NEW how \in {"killed", "ended"}, Ends(p, how),
         UNCHANGED <<receiverVars, history>>, user'[p] = user[p],
         NEW v \in View, NEW w \in View, NEW x \in View, NEW y \in View, Turn(p, v, w, x, y)
  PROVE  Agreed(p, w)
<1>1. /\ process'[p] # "running" /\ process'[Other(p)] = process[Other(p)]
      /\ stream'[p] = stream[p] \/ stream'[p] = <<>>
  BY EndsEffect
<1>2. SameHearer(v, w) /\ w.thread = v.thread
  BY <1>1, HearerKept
<1>3. ~Runs(w) /\ w.own = v.own /\ w.user = v.user /\ (w.stream = v.stream \/ w.stream = <<>>)
      /\ Agreed(p, v)
  BY <1>1 DEF Turn, Shows, Runs
<1>4. SameLines(p, v.own, w.own) /\ SameLines(p, v.got, w.got)
  BY <1>2, <1>3 DEF SameLines, SameHearer
<1> QED
  BY <1>2, <1>3, <1>4, Idle DEF SameHearer, Lives

\* At the prompt the path of the history is known, whoever was first.
PathKnown ==
  \A p \in Peers :
    \/ user[p] \in {"prompt", "saving", "joining"}
    \/ user[p] = "payload" /\ line[p].type # "LMP_UID"
    \/ peer_uid_ready[p]
    \/ receiver[p] = "prepared"
    => history_path[p]

\* A user whose sending succeeds, or fails as the other has gone.
LEMMA HeaderOutcomes ==
  ASSUME TypeInv, NEW p \in Peers, NEW place, UserSendsHeader(p, place), process[p] = "running",
         NEW f \in GoodFrame, line'[p] = f,
         NEW v \in View, NEW w \in View, NEW x \in View, NEW y \in View, Turn(p, v, w, x, y)
  PROVE  \/ Agreed(p, w)
         \/ /\ SameHearer(v, w) /\ w.thread = v.thread /\ w.own = v.own /\ w.runs = v.runs
            /\ Runs(v) /\ w.user \in {"payload", place}
            /\ Lives(v) => w.user = "payload" /\ w.stream = Append(v.stream, Header(f))
<1>1. UNCHANGED <<receiverVars, history>> /\ Header(f) \in GoodHalf
  BY HalfTypes DEF UserSendsHeader
<1>2. user \in [Peers -> {"uid", "payload", "waiting", "prompt", "saving", "joining"}]
  BY DEF TypeInv, ChatTypeOK
<1>3. CASE Sends(p, Header(f)) /\ GoTo(p, "payload")
  <2>1. process' = process /\ user'[p] = "payload"
        /\ (process[Other(p)] = "running" => stream'[p] = Append(stream[p], Header(f)))
    BY <1>1, <1>2, <1>3, SendsEffect DEF GoTo
  <2>2. SameHearer(v, w) /\ w.thread = v.thread
    BY <1>1, <2>1, HearerKept
  <2>3. /\ w.own = v.own /\ w.runs = v.runs /\ Runs(v) /\ w.user = "payload"
        /\ Lives(v) => w.stream = Append(v.stream, Header(f))
    BY <1>1, <2>1 DEF Turn, Shows, Runs, Lives
  <2> QED
    BY <2>2, <2>3
<1>4. CASE SendFails(p) /\ GoTo(p, place)
  <2>1. process' = process /\ user'[p] = place /\ process[Other(p)] # "running"
    BY <1>2, <1>4 DEF SendFails, GoTo, net, Gone
  <2>2. SameHearer(v, w) /\ w.thread = v.thread
    BY <1>1, <2>1, HearerKept
  <2>3. w.own = v.own /\ w.runs = v.runs /\ Runs(v) /\ w.user = place /\ ~Lives(v)
    BY <1>1, <2>1 DEF Turn, Shows, Runs, Lives
  <2> QED
    BY <2>2, <2>3
<1>5. CASE SendKills(p) /\ UNCHANGED user
  <2>1. Ends(p, "killed")
    BY <1>5 DEF SendKills
  <2> QED
    BY <1>1, <1>5, <2>1, SpeakerEnds
<1> QED
  BY <1>3, <1>4, <1>5 DEF UserSendsHeader

LEMMA UserAgrees ==
  ASSUME TypeInv, TypeInv', PathKnown, NEW p \in Peers, UserRuns(p) \/ UserTypes(p),
         NEW v \in View, NEW w \in View, NEW x \in View, NEW y \in View, Turn(p, v, w, x, y)
  PROVE  Agreed(p, w) /\ Agreed(Other(p), y)
<1>1. Agreed(Other(p), y)
  BY UserElsewhere, HearerIdle
<1>2. /\ user \in [Peers -> {"uid", "payload", "waiting", "prompt", "saving", "joining"}]
      /\ line \in [Peers -> GoodFrame] /\ my_nick \in [Peers -> Nicks \cup {"You"}]
      /\ said \in [Peers -> [msg : Nat, nick : Nat]]
      /\ history \in [Peers -> Seq(Line)]
      /\ LineFits
  BY DEF TypeInv, ChatTypeOK
<1>3. Agreed(p, v) /\ Shows(p, v) /\ Shows(p, w)' /\ Other(p) \in Peers /\ Other(p) # p
  BY OtherPeer DEF Turn
<1>4. ASSUME w.own = v.own, w.got = v.got
      PROVE  SameLines(p, v.own, w.own) /\ SameLines(p, v.got, w.got)
  BY <1>4 DEF SameLines
<1>a. Agreed(p, v)
  BY <1>3
\* Nobody hears what the speaker fails to send.
<1>b. ASSUME SameHearer(v, w), SameSpeaker(v, w), w.thread = v.thread, ~Lives(v),
             v.user # "saving"
      PROVE  Agreed(p, w)
  <2>1. SameLines(p, v.own, w.own) /\ SameLines(p, v.got, w.got)
    BY <1>4, <1>b DEF SameHearer, SameSpeaker
  <2>2. ~Lives(w) /\ (Runs(w) => Runs(v))
    BY <1>b DEF SameHearer, SameSpeaker, Lives, Runs
  <2>3. w.nick = v.nick /\ w.line = v.line /\ w.said = v.said
    BY <1>b DEF SameSpeaker
  <2>4. w.torn = v.torn /\ w.at = v.at /\ w.frame = v.frame /\ w.peer = v.peer /\ w.path = v.path
    BY <1>b DEF SameHearer
  <2> QED
    BY <1>a, <1>b, <2>1, <2>2, <2>3, <2>4, Idle
<1>5. CASE SendUid(p)
  <2>1. /\ user[p] = "uid" /\ process[p] = "running" /\ UserSendsHeader(p, "waiting")
        /\ UNCHANGED <<line, my_nick, said>> /\ line[p] = UidFrame /\ UidFrame \in GoodFrame
    BY <1>2, <1>5, FrameTypes DEF SendUid, At, LineFits
  <2>2. /\ w.line = v.line /\ w.nick = v.nick /\ w.said = v.said
        /\ v.user = "uid" /\ v.line = UidFrame
    BY <1>3, <2>1 DEF Shows
  <2>3. CASE /\ SameHearer(v, w) /\ w.thread = v.thread /\ w.own = v.own /\ w.runs = v.runs
             /\ Runs(v) /\ w.user \in {"payload", "waiting"}
             /\ Lives(v) => w.user = "payload" /\ w.stream = Append(v.stream, Header(UidFrame))
    <3>1. SameSpeaker(v, w)
      BY <2>2, <2>3 DEF SameSpeaker
    <3>2. SameHearer(v, w) /\ w.thread = v.thread /\ Runs(v)
      BY <2>3
    <3>3. CASE w.user = "payload"
      <4>1. Lives(v) => w.stream = Append(v.stream, Header(UidFrame))
        BY <2>3
      <4> QED
        BY <1>1, <1>a, <2>2, <3>1, <3>2, <3>3, <4>1, SaysUid
    <3>4. CASE ~Lives(v)
      BY <1>1, <1>b, <2>2, <3>1, <3>2, <3>4
    <3> QED
      BY <2>3, <3>3, <3>4
  <2>4. Agreed(p, w)
    BY <2>1, <2>3, HeaderOutcomes
  <2> QED
    BY <1>1, <2>4
<1>6. CASE TypeMsg(p)
  <2>1. /\ user[p] = "prompt" /\ process[p] = "running" /\ UserSendsHeader(p, "prompt")
        /\ said[p].msg < Len(Texts[p]) /\ said' = [said EXCEPT ![p].msg = @ + 1]
        /\ line' = [line EXCEPT ![p] = FrameOf("LMP_MSG", Texts[p][said[p].msg + 1])]
        /\ UNCHANGED my_nick
    BY <1>6 DEF TypeMsg, At
  <2>2. PICK n \in 1 .. Len(Texts[p]) : n = said[p].msg + 1
    <3>1. Len(Texts[p]) \in Nat
      <4>1. Texts[p] \in Seq(STRING)
        BY ChatAssumption
      <4> QED
        BY <4>1
    <3> QED
      BY <1>2, <2>1, <3>1
  <2>3. PICK f \in GoodFrame : /\ f = FrameOf("LMP_MSG", Texts[p][n])
                               /\ f.type = "LMP_MSG" /\ f.text = Texts[p][n]
    BY TextTypes, FrameTypes
  <2>4. line'[p] = f /\ said'[p].msg = n
    <3>1. line'[p] = f
      BY <1>2, <2>1, <2>2, <2>3
    <3>2. PICK old \in [msg : Nat, nick : Nat] : old = said[p]
      BY <1>2
    <3>3. said'[p] = [old EXCEPT !.msg = n]
      BY <1>2, <2>1, <2>2, <3>2
    <3> QED
      BY <3>1, <3>2, <3>3
  <2>5. /\ w.nick = v.nick /\ w.said = n /\ w.said = v.said + 1 /\ v.user = "prompt"
        /\ w.line = f
    BY <1>3, <2>1, <2>2, <2>4 DEF Shows
  <2>6. CASE /\ SameHearer(v, w) /\ w.thread = v.thread /\ w.own = v.own /\ w.runs = v.runs
             /\ Runs(v) /\ w.user \in {"payload", "prompt"}
             /\ Lives(v) => w.user = "payload" /\ w.stream = Append(v.stream, Header(f))
    <3>1. w.said \in 1 .. Len(Texts[p]) /\ w.line.type = "LMP_MSG" /\ w.line.text = Texts[p][w.said]
      BY <2>3, <2>5
    <3>2. SameHearer(v, w) /\ w.own = v.own /\ w.runs = v.runs /\ Runs(v) /\ w.thread = v.thread
      BY <2>6
    <3>3. /\ w.user \in {"payload", "prompt"}
          /\ Lives(v) => w.user = "payload" /\ w.stream = Append(v.stream, Header(w.line))
      BY <2>5, <2>6
    <3>4. w.nick = v.nick /\ w.said = v.said + 1 /\ v.user = "prompt"
      BY <2>5
    <3> QED
      BY <1>1, <1>a, <3>1, <3>2, <3>3, <3>4, TypesMsg
  <2>7. Agreed(p, w)
    BY <2>1, <2>4, <2>6, HeaderOutcomes
  <2> QED
    BY <1>1, <2>7
<1>7. CASE TypeNick(p)
  <2>1. PICK nick \in Nicks : /\ my_nick' = [my_nick EXCEPT ![p] = nick]
                              /\ line' = [line EXCEPT ![p] = FrameOf("LMP_NICK", nick)]
    BY <1>7 DEF TypeNick
  <2>2. /\ user[p] = "prompt" /\ process[p] = "running" /\ UserSendsHeader(p, "prompt")
        /\ said' = [said EXCEPT ![p].nick = @ + 1]
    BY <1>7 DEF TypeNick, At
  <2>3. PICK f \in GoodFrame : /\ f = FrameOf("LMP_NICK", nick)
                               /\ f.type = "LMP_NICK" /\ f.text = nick
    BY FrameTypes
  <2>4. line'[p] = f /\ my_nick'[p] = nick /\ said'[p].msg = said[p].msg
    <3>1. line'[p] = f /\ my_nick'[p] = nick
      BY <1>2, <2>1, <2>3
    <3>2. PICK old \in [msg : Nat, nick : Nat] : old = said[p]
      BY <1>2
    <3>3. said'[p] = [old EXCEPT !.nick = old.nick + 1]
      BY <1>2, <2>2, <3>2
    <3> QED
      BY <3>1, <3>2, <3>3
  <2>5. w.nick = nick /\ w.said = v.said /\ v.user = "prompt" /\ w.line = f
    BY <1>3, <2>2, <2>4 DEF Shows
  <2>6. CASE /\ SameHearer(v, w) /\ w.thread = v.thread /\ w.own = v.own /\ w.runs = v.runs
             /\ Runs(v) /\ w.user \in {"payload", "prompt"}
             /\ Lives(v) => w.user = "payload" /\ w.stream = Append(v.stream, Header(f))
    <3>1. w.line.type = "LMP_NICK" /\ w.line.text = w.nick
      BY <2>3, <2>5
    <3>2. SameHearer(v, w) /\ w.own = v.own /\ w.runs = v.runs /\ Runs(v) /\ w.thread = v.thread
      BY <2>6
    <3>3. /\ w.user \in {"payload", "prompt"}
          /\ Lives(v) => w.user = "payload" /\ w.stream = Append(v.stream, Header(w.line))
      BY <2>5, <2>6
    <3>4. w.said = v.said /\ v.user = "prompt"
      BY <2>5
    <3> QED
      BY <1>1, <1>a, <3>1, <3>2, <3>3, <3>4, TypesNick
  <2>7. Agreed(p, w)
    BY <2>2, <2>4, <2>6, HeaderOutcomes
  <2> QED
    BY <1>1, <2>7
<1>8. CASE SendPayload(p)
  <2>1. /\ user[p] = "payload" /\ process[p] = "running" /\ line[p].type \in Kinds
        /\ UNCHANGED <<line, my_nick, said, receiverVars, history>>
        /\ line[p] \in GoodFrame
    BY <1>2, <1>8 DEF SendPayload, At, LineFits
  <2>2. /\ w.line = v.line /\ w.nick = v.nick /\ w.said = v.said /\ w.own = v.own
        /\ v.user = "payload" /\ v.line = line[p] /\ Runs(v)
    BY <1>3, <2>1 DEF Shows, Runs
  <2>3. \/ /\ Sends(p, Payload(line[p]))
           /\ GoTo(p, [LMP_UID |-> "waiting", LMP_MSG |-> "saving", LMP_NICK |-> "prompt"][line[p].type])
        \/ SendFails(p)
        \/ SendKills(p) /\ UNCHANGED user
    BY <1>8 DEF SendPayload
  <2>4. CASE /\ Sends(p, Payload(line[p]))
             /\ GoTo(p, [LMP_UID |-> "waiting", LMP_MSG |-> "saving", LMP_NICK |-> "prompt"][line[p].type])
    <3>1. Payload(line[p]) \in GoodHalf
      BY <2>1, HalfTypes
    <3>2. /\ process' = process
          /\ process[Other(p)] = "running" => stream'[p] = Append(stream[p], Payload(line[p]))
      BY <2>4, <3>1, SendsEffect
    <3>3. /\ user'[p] \in {"waiting", "prompt", "saving"}
          /\ line[p].type = "LMP_MSG" <=> user'[p] = "saving"
      BY <1>2, <2>1, <2>4 DEF GoTo, Kinds
    <3>4. SameHearer(v, w) /\ w.thread = v.thread
      BY <2>1, <3>2, HearerKept
    <3>5. /\ w.runs = v.runs /\ w.user \in {"waiting", "prompt", "saving"}
          /\ v.line.type = "LMP_MSG" <=> w.user = "saving"
          /\ Lives(v) => w.stream = Append(v.stream, Payload(v.line))
      BY <1>3, <2>2, <3>2, <3>3 DEF Shows, Lives
    <3> QED
      BY <1>1, <1>3, <2>1, <2>2, <3>4, <3>5, SaysPayload DEF SameSpeaker
  <2>5. CASE SendFails(p)
    <3>1. process' = process /\ process[Other(p)] # "running"
      BY <2>5 DEF SendFails, Gone, net
    <3>2. SameHearer(v, w) /\ w.thread = v.thread
      BY <2>1, <3>1, HearerKept
    <3>3. w.runs = v.runs /\ ~Lives(v)
      BY <1>3, <3>1 DEF Shows, Lives
    <3>4. SameSpeaker(v, w)
      BY <2>2, <3>3 DEF SameSpeaker
    <3>5. Agreed(p, w)
      BY <1>b, <2>2, <3>2, <3>3, <3>4
    <3> QED
      BY <1>1, <3>5
  <2>6. CASE SendKills(p) /\ UNCHANGED user
    BY <1>1, <2>1, <2>6, SpeakerEnds DEF SendKills
  <2> QED
    BY <2>3, <2>4, <2>5, <2>6
<1>9. CASE SeeReady(p) \/ Leave(p)
  <2>1. /\ user[p] \in {"waiting", "prompt"} /\ user'[p] \in {"prompt", "joining"}
        /\ UNCHANGED <<line, my_nick, said, receiverVars, history, stream, process>>
    BY <1>2, <1>9 DEF SeeReady, Leave, At, GoTo, net
  <2>2. SameHearer(v, w) /\ w.thread = v.thread
    BY <2>1, HearerKept
  <2>3. /\ w.line = v.line /\ w.nick = v.nick /\ w.said = v.said /\ w.own = v.own
        /\ w.runs = v.runs /\ w.stream = v.stream
        /\ {v.user, w.user} \cap {"uid", "payload", "saving"} = {} /\ v.user # "saving"
    BY <1>3, <2>1 DEF Shows
  <2> QED
    BY <1>1, <1>3, <1>4, <2>2, <2>3, Idle DEF SameHearer, Runs, Lives
<1>10. CASE SaveOwn(p)
  <2>1. /\ user[p] = "saving" /\ process[p] = "running" /\ user'[p] = "prompt"
        /\ history_path[p] /\ line[p].type = "LMP_MSG"
        /\ UNCHANGED <<line, my_nick, said, receiverVars, stream, process>>
        /\ history' = Appended(p, p, my_nick[p], line[p].text)
    BY <1>2, <1>10 DEF SaveOwn, At, GoTo, LineFits, PathKnown, net
  <2>2. PICK l \in Line : l = [from |-> p, name |-> my_nick[p], text |-> line[p].text]
    <3>1. line[p].text \in Lines \cup {"garbled"}
      BY <1>2, <2>1 DEF GoodFrame
    <3> QED
      BY <1>2, <3>1, LineTypes
  <2>3. history' = [history EXCEPT ![p] = Append(history[p], l)]
    BY <2>1, <2>2 DEF Appended
  <2>4. history'[p] = Append(history[p], l) /\ history'[Other(p)] = history[Other(p)]
    BY <1>2, <1>3, <2>3
  <2>5. SameHearer(v, w) /\ w.thread = v.thread
    BY <2>1, <2>4, HearerKept
  <2>6. /\ w.line = v.line /\ w.nick = v.nick /\ w.said = v.said /\ w.runs = v.runs /\ Runs(v)
        /\ w.stream = v.stream /\ v.user = "saving" /\ w.user = "prompt"
        /\ w.own = Append(v.own, l)
        /\ l.from = p /\ l.name = v.nick /\ l.text = v.line.text
    BY <1>3, <2>1, <2>2, <2>4 DEF Shows, Runs
  <2> QED
    BY <1>1, <1>3, <2>5, <2>6, Saves
<1>11. CASE Join(p)
  <2>1. Ends(p, "ended") /\ UNCHANGED <<userVars, receiverVars, history>>
    BY <1>11 DEF Join
  <2> QED
    BY <1>1, <2>1, SpeakerEnds DEF userVars
<1> QED
  BY <1>5, <1>6, <1>7, <1>8, <1>9, <1>10, <1>11 DEF UserRuns, UserTypes

-----------------------------------------------------------------------------
(* The receiver thread. *)

\* What a step of p's receiver that sends nothing leaves alone.
Listens(p) ==
  LET q == Other(p)
  IN  /\ process[p] = "running" /\ UNCHANGED <<userVars, process>>
      /\ stream'[p] = stream[p] /\ receiver'[p] # "ack_payload"
      /\ receiver'[q] = receiver[q] /\ frame'[q] = frame[q] /\ peer_nick'[q] = peer_nick[q]
      /\ history_path'[q] = history_path[q] /\ torn'[q] = torn[q]
      /\ history'[q] = history[q]
      /\ \/ history'[p] = history[p]
         \/ \E l \in Line : l.from = q /\ history'[p] = Append(history[p], l)

LEMMA SpeakerListens ==
  ASSUME NEW p \in Peers, Listens(p),
         NEW v \in View, NEW w \in View, NEW x \in View, NEW y \in View, Turn(p, v, w, x, y)
  PROVE  /\ Agreed(p, w)
         /\ SameSpeaker(x, y) /\ y.user = x.user /\ y.thread = x.thread /\ y.hears = x.hears
         /\ Lives(x)
<1> DEFINE q == Other(p)
<1>1. q \in Peers /\ q # p /\ Other(q) = p
  BY OtherPeer
<1>2. Shows(p, v) /\ Shows(p, w)' /\ Agreed(p, v) /\ Shows(q, x) /\ Shows(q, y)'
  BY DEF Turn
<1> HIDE DEF q
<1>3. /\ w.user = v.user /\ w.line = v.line /\ w.nick = v.nick /\ w.said = v.said
      /\ w.runs = v.runs /\ w.hears = v.hears /\ w.stream = v.stream
      /\ w.thread # "ack_payload"
  BY <1>2 DEF Shows, Listens, userVars
<1>4. /\ w.at = v.at /\ w.frame = v.frame /\ w.peer = v.peer /\ w.path = v.path
      /\ w.torn = v.torn /\ w.got = v.got
  BY <1>2 DEF Shows, Listens
<1>5. w.own = v.own \/ \E l \in Line : l.from # p /\ w.own = Append(v.own, l)
  BY <1>1, <1>2 DEF Shows, Listens, q
<1>6. v.own \in Seq(Line) /\ w.own \in Seq(Line) /\ v.got \in Seq(Line) /\ w.got \in Seq(Line)
  BY DEF View
<1>7. SameLines(p, v.own, w.own) /\ SameLines(p, v.got, w.got)
  BY <1>4, <1>5, <1>6, LinesSame
<1>8. Agreed(p, w)
  BY <1>2, <1>3, <1>4, <1>7, Idle DEF Runs, Lives
<1>9. /\ y.own = x.own /\ y.line = x.line /\ y.nick = x.nick /\ y.said = x.said
      /\ y.runs = x.runs /\ y.user = x.user /\ y.thread = x.thread
  BY <1>2 DEF Shows, Listens, userVars, q
<1>10. y.hears = x.hears /\ Lives(x)
  BY <1>1, <1>2 DEF Shows, Listens, Lives
<1> QED
  BY <1>8, <1>9, <1>10 DEF SameSpeaker

LEMMA ReceiverListens ==
  ASSUME TypeInv, NEW p \in Peers, ReceiverRuns(p), ~SendAck(p)
  PROVE  Listens(p)
<1> DEFINE q == Other(p)
<1>1. q \in Peers /\ q # p
  BY OtherPeer
<1>2. /\ receiver \in [Peers -> ReceiverPlaces] /\ frame \in [Peers -> GoodFrame]
      /\ peer_nick \in [Peers -> Nicks \cup {"Peer", "garbled"}]
      /\ history_path \in [Peers -> BOOLEAN] /\ torn \in [Peers -> BOOLEAN]
      /\ history \in [Peers -> Seq(Line)] /\ stream \in [Peers -> Seq(GoodHalf)]
  BY DEF TypeInv, ChatTypeOK, ReceiverPlaces
<1> HIDE DEF q
<1>3. CASE ReadHeader(p) \/ ReadEnd(p) \/ ReadPayload(p)
  <2>1. /\ \E place \in {"payload", "done", "dispatch"} : receiver' = [receiver EXCEPT ![p] = place]
        /\ frame' = frame \/ \E f : frame' = [frame EXCEPT ![p] = f]
        /\ stream' = stream \/ \E s : stream' = [stream EXCEPT ![q] = s]
    BY <1>3 DEF ReadHeader, ReadEnd, ReadPayload, ReceiverTo, Takes, q
  <2>2. /\ UNCHANGED <<peer_nick, history_path, torn, history, process, userVars>>
        /\ process[p] = "running"
    BY <1>3 DEF ReadHeader, ReadEnd, ReadPayload, Receiving
  <2> QED
    BY <1>1, <1>2, <2>1, <2>2 DEF Listens, q
<1>4. CASE ReadTorn(p)
  <2>1. \E s : stream' = [stream EXCEPT ![q] = s]
    BY <1>4 DEF ReadTorn, q
  <2>2. /\ receiver' = [receiver EXCEPT ![p] = "dispatch"]
        /\ \E f : frame' = [frame EXCEPT ![p] = f]
        /\ torn' = [torn EXCEPT ![p] = TRUE]
    BY <1>4 DEF ReadTorn, ReceiverTo
  <2>3. /\ UNCHANGED <<peer_nick, history_path, history, process, userVars>>
        /\ process[p] = "running"
    BY <1>4 DEF ReadTorn, Receiving
  <2> QED
    BY <1>1, <1>2, <2>1, <2>2, <2>3 DEF Listens, q
<1>5. CASE UidRecvPrepare(p) \/ UidRecvReady(p) \/ NickRecv(p) \/ AckRecv(p)
  <2>1. /\ \E place \in {"prepared", "header", "ack"} : receiver' = [receiver EXCEPT ![p] = place]
        /\ history_path' = history_path \/ history_path' = [history_path EXCEPT ![p] = TRUE]
        /\ peer_nick' = peer_nick \/ \E n : peer_nick' = [peer_nick EXCEPT ![p] = n]
    BY <1>5 DEF UidRecvPrepare, UidRecvReady, NickRecv, AckRecv, ReceiverTo
  <2>2. /\ UNCHANGED <<frame, torn, history, stream, process, userVars>>
        /\ process[p] = "running"
    BY <1>5 DEF UidRecvPrepare, UidRecvReady, NickRecv, AckRecv, Dispatch, Receiving
  <2> QED
    BY <1>1, <1>2, <2>1, <2>2 DEF Listens, q
<1>6. CASE MsgRecv(p)
  <2>1. /\ receiver' = [receiver EXCEPT ![p] = "header"]
        /\ UNCHANGED <<frame, peer_nick, history_path, torn, stream, process, userVars>>
        /\ process[p] = "running" /\ frame[p].type = "LMP_MSG"
        /\ history' = Appended(p, q, peer_nick[p], frame[p].text)
    BY <1>6 DEF MsgRecv, ReceiverTo, Dispatch, Receiving, q
  <2>2. PICK l \in Line : l = [from |-> q, name |-> peer_nick[p], text |-> frame[p].text]
    <3>1. frame[p].text \in Lines \cup {"garbled"}
      BY <1>2, <2>1 DEF GoodFrame
    <3> QED
      BY <1>1, <1>2, <3>1, LineTypes
  <2>3. history' = history \/ history' = [history EXCEPT ![p] = Append(history[p], l)]
    BY <2>1, <2>2 DEF Appended
  <2>4. /\ history'[q] = history[q]
        /\ history'[p] = history[p] \/ history'[p] = Append(history[p], l)
    BY <1>1, <1>2, <2>3
  <2>5. l.from = q
    BY <2>2
  <2> QED
    BY <1>1, <1>2, <2>1, <2>4, <2>5 DEF Listens, q
<1> QED
  BY <1>3, <1>4, <1>5, <1>6 DEF ReceiverRuns

\* What the hearer, p, does to what the other says.
LEMMA HearerListens ==
  ASSUME TypeInv, NEW p \in Peers, ReceiverRuns(p), ~SendAck(p), Listens(p),
         NEW v \in View, NEW w \in View, NEW x \in View, NEW y \in View, Turn(p, v, w, x, y),
         SameSpeaker(x, y), y.user = x.user, y.thread = x.thread, y.hears = x.hears, Lives(x)
  PROVE  Agreed(Other(p), y)
<1> DEFINE q == Other(p)
<1>1. q \in Peers /\ q # p /\ Other(q) = p
  BY OtherPeer
<1>2. /\ receiver \in [Peers -> ReceiverPlaces] /\ frame \in [Peers -> GoodFrame]
      /\ peer_nick \in [Peers -> Nicks \cup {"Peer", "garbled"}]
      /\ history_path \in [Peers -> BOOLEAN] /\ torn \in [Peers -> BOOLEAN]
      /\ history \in [Peers -> Seq(Line)] /\ stream \in [Peers -> Seq(GoodHalf)]
  BY DEF TypeInv, ChatTypeOK, ReceiverPlaces
<1>3. Shows(q, x) /\ Shows(q, y)' /\ Agreed(q, x)
  BY DEF Turn
<1> HIDE DEF q
<1>4. /\ x.got = history[p] /\ x.at = receiver[p] /\ x.frame = frame[p] /\ x.peer = peer_nick[p]
      /\ x.path = (IF history_path[p] THEN "set" ELSE "unset")
      /\ x.torn = (IF torn[p] THEN "torn" ELSE "whole") /\ x.stream = stream[q]
  BY <1>1, <1>3 DEF Shows
<1>5. /\ y.got = history'[p] /\ y.at = receiver'[p] /\ y.frame = frame'[p]
      /\ y.peer = peer_nick'[p]
      /\ y.path = (IF history_path'[p] THEN "set" ELSE "unset")
      /\ y.torn = (IF torn'[p] THEN "torn" ELSE "whole") /\ y.stream = stream'[q]
  BY <1>1, <1>3 DEF Shows
<1>6. Agreed(q, x) /\ q \in Peers
  BY <1>1, <1>3
<1>7. ASSUME stream' = [stream EXCEPT ![q] = SubSeq(@, 1 + 1, Len(@))]
      PROVE  y.stream = SubSeq(x.stream, 2, Len(x.stream))
  BY <1>1, <1>2, <1>4, <1>5, <1>7
<1>8. CASE ReadHeader(p)
  <2>1. /\ receiver[p] = "header" /\ stream[q] # <<>>
        /\ stream' = [stream EXCEPT ![q] = SubSeq(@, 1 + 1, Len(@))]
        /\ UNCHANGED <<peer_nick, history_path, torn, history>>
    BY <1>8 DEF ReadHeader, Receiving, Takes, q
  <2>2. /\ y.got = x.got /\ y.peer = x.peer /\ y.path = x.path /\ y.torn = x.torn
        /\ x.at = "header" /\ x.stream # <<>>
    BY <1>4, <1>5, <2>1
  <2>3. y.stream = SubSeq(x.stream, 2, Len(x.stream))
    BY <1>7, <2>1
  <2>4. CASE Head(stream[q]).part = "header"
    <3>1. /\ frame' = [frame EXCEPT ![p] = Head(stream[q]).frame]
          /\ receiver' = [receiver EXCEPT ![p] = "payload"]
      BY <1>8, <2>4 DEF ReadHeader, ReceiverTo, q
    <3>2. /\ y.at = "payload" /\ Head(x.stream).part = "header"
          /\ y.frame = Head(x.stream).frame
      BY <1>2, <1>4, <1>5, <2>4, <3>1
    <3>3. Agreed(q, y)
      BY <1>6, <2>2, <2>3, <3>2, Begins
    <3> QED
      BY <3>3 DEF q
  <2>5. CASE Head(stream[q]).part # "header"
    <3>1. receiver' = [receiver EXCEPT ![p] = "done"]
      BY <1>8, <2>5 DEF ReadHeader, ReceiverTo, q
    <3>2. y.at = "done" /\ x.at # "dispatch"
      BY <1>2, <1>4, <1>5, <2>1, <3>1
    <3>3. Agreed(q, y)
      BY <1>6, <2>2, <3>2, Stops
    <3> QED
      BY <3>3 DEF q
  <2> QED
    BY <2>4, <2>5
<1>9. CASE ReadEnd(p)
  <2>1. /\ receiver[p] \in {"header", "payload"} /\ UNCHANGED <<torn, history>>
        /\ receiver' = [receiver EXCEPT ![p] = "done"]
    BY <1>9 DEF ReadEnd, Receiving, ReceiverTo
  <2>2. y.got = x.got /\ y.torn = x.torn /\ x.at # "dispatch" /\ y.at = "done"
    BY <1>2, <1>4, <1>5, <2>1
  <2>3. Agreed(q, y)
    BY <1>6, <2>2, Stops
  <2> QED
    BY <2>3 DEF q
<1>10. CASE ReadPayload(p)
  <2>1. /\ receiver[p] = "payload" /\ stream[q] # <<>> /\ Head(stream[q]).part = "payload"
        /\ stream' = [stream EXCEPT ![q] = SubSeq(@, 1 + 1, Len(@))]
        /\ receiver' = [receiver EXCEPT ![p] = "dispatch"]
        /\ UNCHANGED <<frame, peer_nick, history_path, torn, history>>
    BY <1>10 DEF ReadPayload, Receiving, ReceiverTo, Takes, q
  <2>2. /\ y.got = x.got /\ y.frame = x.frame /\ y.peer = x.peer /\ y.path = x.path
        /\ y.torn = x.torn /\ x.at = "payload" /\ y.at = "dispatch"
        /\ x.stream # <<>> /\ Head(x.stream).part = "payload"
    BY <1>2, <1>4, <1>5, <2>1
  <2>3. y.stream = SubSeq(x.stream, 2, Len(x.stream))
    BY <1>7, <2>1
  <2>4. Agreed(q, y)
    BY <1>6, <2>2, <2>3, Takes2
  <2> QED
    BY <2>4 DEF q
<1>11. CASE ReadTorn(p)
  <2>1. torn' = [torn EXCEPT ![p] = TRUE] /\ UNCHANGED history
    BY <1>11 DEF ReadTorn
  <2>2. y.torn = "torn" /\ y.got = x.got
    BY <1>2, <1>4, <1>5, <2>1
  <2>3. Agreed(q, y)
    BY <1>6, <2>2, Stops
  <2> QED
    BY <2>3 DEF q
<1>12. ASSUME receiver[p] \in {"dispatch", "prepared"}, receiver'[p] \in {"prepared", "ack", "header"},
              UNCHANGED <<torn, history, stream>>,
              ~(receiver[p] = "dispatch" /\ frame[p].type = "LMP_MSG"),
              y.peer = IF Dispatching(x, "LMP_NICK") THEN x.frame.text ELSE x.peer,
              y.path = IF Dispatching(x, "LMP_UID") THEN "set" ELSE x.path
       PROVE  Agreed(Other(p), y)
  <2>1. /\ y.got = x.got /\ y.torn = x.torn /\ y.stream = x.stream
        /\ x.at \notin {"payload", "done"} /\ y.at \notin {"payload", "dispatch"}
        /\ ~Dispatching(x, "LMP_MSG")
    BY <1>4, <1>5, <1>12 DEF Dispatching
  <2>2. Agreed(q, y)
    BY <1>6, <1>12, <2>1, Moves
  <2> QED
    BY <2>2 DEF q
<1>13. CASE UidRecvPrepare(p)
  <2>1. /\ receiver[p] = "dispatch" /\ frame[p].type = "LMP_UID"
        /\ receiver' = [receiver EXCEPT ![p] = "prepared"]
        /\ history_path' = [history_path EXCEPT ![p] = TRUE]
        /\ UNCHANGED <<peer_nick, torn, history, stream>>
    BY <1>13 DEF UidRecvPrepare, Dispatch, Receiving, ReceiverTo
  <2>2. receiver'[p] = "prepared" /\ history_path'[p]
    BY <1>2, <2>1
  <2>3. y.peer = x.peer /\ y.path = "set" /\ Dispatching(x, "LMP_UID") /\ ~Dispatching(x, "LMP_NICK")
    BY <1>4, <1>5, <2>1, <2>2 DEF Dispatching
  <2> QED
    BY <1>12, <2>1, <2>2, <2>3
<1>14. CASE UidRecvReady(p)
  <2>1. /\ receiver[p] = "prepared" /\ receiver' = [receiver EXCEPT ![p] = "header"]
        /\ UNCHANGED <<peer_nick, history_path, torn, history, stream>>
    BY <1>14 DEF UidRecvReady, Receiving, ReceiverTo
  <2>2. receiver'[p] = "header"
    BY <1>2, <2>1
  <2>3. y.peer = x.peer /\ y.path = x.path /\ ~Dispatching(x, "LMP_UID") /\ ~Dispatching(x, "LMP_NICK")
    BY <1>4, <1>5, <2>1 DEF Dispatching
  <2> QED
    BY <1>12, <2>1, <2>2, <2>3
<1>15. CASE NickRecv(p)
  <2>1. /\ receiver[p] = "dispatch" /\ frame[p].type = "LMP_NICK"
        /\ receiver' = [receiver EXCEPT ![p] = "ack"]
        /\ peer_nick' = [peer_nick EXCEPT ![p] = frame[p].text]
        /\ UNCHANGED <<history_path, torn, history, stream>>
    BY <1>15 DEF NickRecv, Dispatch, Receiving, ReceiverTo
  <2>2. receiver'[p] = "ack" /\ peer_nick'[p] = frame[p].text
    BY <1>2, <2>1
  <2>3. /\ y.peer = x.frame.text /\ y.path = x.path
        /\ Dispatching(x, "LMP_NICK") /\ ~Dispatching(x, "LMP_UID")
    BY <1>4, <1>5, <2>1, <2>2 DEF Dispatching
  <2> QED
    BY <1>12, <2>1, <2>2, <2>3
<1>16. CASE AckRecv(p)
  <2>1. /\ receiver[p] = "dispatch" /\ frame[p].type = "LMP_ACK"
        /\ receiver' = [receiver EXCEPT ![p] = "header"]
        /\ UNCHANGED <<peer_nick, history_path, torn, history, stream>>
    BY <1>16 DEF AckRecv, Dispatch, Receiving, ReceiverTo
  <2>2. receiver'[p] = "header"
    BY <1>2, <2>1
  <2>3. y.peer = x.peer /\ y.path = x.path /\ ~Dispatching(x, "LMP_UID") /\ ~Dispatching(x, "LMP_NICK")
    BY <1>4, <1>5, <2>1 DEF Dispatching
  <2> QED
    BY <1>12, <2>1, <2>2, <2>3
<1>17. CASE MsgRecv(p)
  <2>1. /\ receiver[p] = "dispatch" /\ frame[p].type = "LMP_MSG"
        /\ receiver' = [receiver EXCEPT ![p] = "header"]
        /\ UNCHANGED <<frame, peer_nick, history_path, torn, stream>>
        /\ history' = Appended(p, q, peer_nick[p], frame[p].text)
    BY <1>17 DEF MsgRecv, ReceiverTo, Dispatch, Receiving, q
  <2>2. PICK l \in Line : l = [from |-> q, name |-> peer_nick[p], text |-> frame[p].text]
    <3>1. frame[p].text \in Lines \cup {"garbled"}
      BY <1>2, <2>1 DEF GoodFrame
    <3> QED
      BY <1>1, <1>2, <3>1, LineTypes
  <2>3. history' = IF history_path[p] THEN [history EXCEPT ![p] = Append(history[p], l)] ELSE history
    BY <2>1, <2>2 DEF Appended
  <2>4. history'[p] = IF history_path[p] THEN Append(history[p], l) ELSE history[p]
    BY <1>2, <2>3
  <2>5. y.got = IF x.path = "set" THEN Append(x.got, l) ELSE x.got
    BY <1>4, <1>5, <2>4
  <2>6. /\ y.stream = x.stream /\ y.frame = x.frame /\ y.peer = x.peer /\ y.path = x.path
        /\ y.torn = x.torn /\ Dispatching(x, "LMP_MSG") /\ y.at = "header"
    BY <1>2, <1>4, <1>5, <2>1 DEF Dispatching
  <2>7. l.from = q /\ l.name = x.peer /\ l.text = x.frame.text
    BY <1>4, <2>2
  <2>8. Agreed(q, y)
    BY <1>6, <2>5, <2>6, <2>7, SavesHeard
  <2> QED
    BY <2>8 DEF q
<1> QED
  BY <1>8, <1>9, <1>10, <1>11, <1>13, <1>14, <1>15, <1>16, <1>17 DEF ReceiverRuns

\* The acknowledgement, whose two halves the other thread's may come between.
LEMMA AckAgrees ==
  ASSUME TypeInv, TypeInv', NEW p \in Peers, NEW place, NEW half \in GoodHalf, NEW next,
         AckSends(p, place, half, next),
         \/ place = "ack" /\ half = Header(AckFrame) /\ next = "ack_payload"
         \/ place = "ack_payload" /\ half = Payload(AckFrame) /\ next = "header",
         NEW v \in View, NEW w \in View, NEW x \in View, NEW y \in View, Turn(p, v, w, x, y)
  PROVE  Agreed(p, w) /\ Agreed(Other(p), y)
<1> DEFINE q == Other(p)
<1>1. q \in Peers /\ q # p /\ Other(q) = p
  BY OtherPeer
<1>2. /\ receiver \in [Peers -> ReceiverPlaces] /\ frame \in [Peers -> GoodFrame] /\ LineFits
  BY DEF TypeInv, ChatTypeOK, ReceiverPlaces
<1>3. /\ process[p] = "running" /\ receiver[p] = place
      /\ UNCHANGED <<userVars, frame, peer_nick, history_path, peer_uid_ready, torn, history>>
  BY DEF AckSends
<1>4. Shows(p, v) /\ Shows(p, w)' /\ Shows(q, x) /\ Shows(q, y)'
  BY DEF Turn
<1>5. Agreed(p, v) /\ Agreed(q, x)
  BY DEF Turn
<1> HIDE DEF q
<1>6. CASE SendKills(p) /\ UNCHANGED receiver
  <2>1. Ends(p, "killed") /\ UNCHANGED <<receiverVars, userVars, history>>
    BY <1>3, <1>6 DEF SendKills, receiverVars
  <2>2. NetElsewhere(p)
    BY <2>1, EndsEffect DEF NetElsewhere
  <2>3. Agreed(p, w)
    BY <2>1, SpeakerEnds DEF userVars
  <2>4. Agreed(Other(p), y)
    BY <2>1, <2>2, HearerIdle DEF userVars
  <2> QED
    BY <2>3, <2>4
<1>7. CASE \/ Sends(p, half) /\ receiver' = [receiver EXCEPT ![p] = next]
           \/ SendFails(p) /\ receiver' = [receiver EXCEPT ![p] = "header"]
  <2>1. process' = process
    BY <1>7 DEF Sends, SendFails, net
  <2>2. NetElsewhere(p)
    BY <1>7, SendElsewhere
  <2>3. receiver'[q] = receiver[q] /\ receiver'[p] \in {next, "header"}
    BY <1>1, <1>2, <1>7
  <2>4. /\ SameHearer(v, w)
        /\ w.user = v.user /\ w.hears = v.hears
    BY <1>3, <1>4, <2>1, <2>3 DEF Shows, SameHearer, userVars, q
  <2>5. SameSpeaker(v, w) /\ Runs(v) /\ v.thread = place
    BY <1>3, <1>4, <2>1 DEF Shows, SameSpeaker, userVars, Runs
  <2>6. SameSpeaker(x, y) /\ y.user = x.user /\ y.thread = x.thread
    BY <1>3, <1>4, <2>1, <2>3 DEF Shows, SameSpeaker, userVars, q
  <2>7. /\ y.got = x.got /\ y.hears = x.hears /\ y.torn = x.torn /\ y.peer = x.peer /\ y.path = x.path
        /\ x.at = place /\ y.at \in {next, "header"}
    BY <1>1, <1>3, <1>4, <2>1, <2>3 DEF Shows
  <2>8. y.stream = x.stream \/ (~Runs(y) /\ y.stream = <<>>)
    BY <1>3, <1>4, <2>1, <2>2 DEF Shows, NetElsewhere, Runs, q
  <2>9. /\ x.at \notin {"payload", "done", "dispatch"} /\ y.at \notin {"payload", "dispatch"}
    BY <2>7
  <2>10. \A type : ~Dispatching(x, type)
    BY <2>9 DEF Dispatching
  <2>11. Agreed(q, y)
    BY <1>1, <1>5, <2>6, <2>7, <2>8, <2>9, <2>10, Moves
  <2>12. v.line.type \in Kinds \/ v.user # "payload"
    BY <1>2, <1>4 DEF Shows, LineFits
  <2>13. SameLines(p, v.own, w.own) /\ SameLines(p, v.got, w.got)
    BY <2>4, <2>5 DEF SameLines, SameSpeaker, SameHearer
  <2>14. CASE Sends(p, half) /\ receiver' = [receiver EXCEPT ![p] = next]
    <3>1. w.thread = next
      BY <1>2, <1>4, <2>14 DEF Shows
    <3>2. Lives(v) => w.stream = Append(v.stream, half)
      <4>1. process[Other(p)] = "running" => stream'[p] = Append(stream[p], half)
        BY <2>14, SendsEffect
      <4>2. v.hears = process[Other(p)] /\ v.stream = stream[p] /\ w.stream = stream'[p]
        BY <1>4 DEF Shows
      <4> QED
        BY <4>1, <4>2 DEF Lives
    <3>3. CASE place = "ack" /\ half = Header(AckFrame)
      <4>1. Agreed(p, w)
        BY <1>5, <2>4, <2>5, <2>12, <3>2, <3>3, AckBegins
      <4> QED
        BY <2>11, <4>1 DEF q
    <3>4. CASE place = "ack_payload" /\ half = Payload(AckFrame) /\ next = "header"
      <4>1. Agreed(p, w)
        BY <1>5, <2>4, <2>5, <2>12, <3>1, <3>2, <3>4, AckEnds
      <4> QED
        BY <2>11, <4>1 DEF q
    <3> QED
      BY <3>3, <3>4
  <2>15. CASE SendFails(p) /\ receiver' = [receiver EXCEPT ![p] = "header"]
    <3>1. w.thread = "header" /\ w.stream = v.stream
      BY <1>2, <1>4, <2>15 DEF Shows, SendFails, net
    <3>2. /\ w.nick = v.nick /\ w.line = v.line /\ w.said = v.said /\ Runs(w) = Runs(v)
      BY <2>5 DEF SameSpeaker, Runs
    <3>3. /\ w.torn = v.torn /\ w.at = v.at /\ w.frame = v.frame /\ w.peer = v.peer
          /\ w.path = v.path /\ Lives(w) = Lives(v)
      BY <2>4 DEF SameHearer, Lives
    <3>4. Agreed(p, w)
      BY <1>5, <2>4, <2>13, <3>1, <3>2, <3>3, Idle
    <3> QED
      BY <2>11, <3>4 DEF q
  <2> QED
    BY <1>7, <2>14, <2>15
<1> QED
  BY <1>6, <1>7 DEF AckSends, ReceiverTo

LEMMA ReceiverAgrees ==
  ASSUME TypeInv, TypeInv', NEW p \in Peers, ReceiverRuns(p),
         NEW v \in View, NEW w \in View, NEW x \in View, NEW y \in View, Turn(p, v, w, x, y)
  PROVE  Agreed(p, w) /\ Agreed(Other(p), y)
<1>1. CASE SendAck(p)
  <2>1. Header(AckFrame) \in GoodHalf /\ Payload(AckFrame) \in GoodHalf
    BY FrameTypes, HalfTypes
  <2>2. CASE AckSends(p, "ack", Header(AckFrame), "ack_payload")
    BY <2>1, <2>2, AckAgrees
  <2>3. CASE AckSends(p, "ack_payload", Payload(AckFrame), "header")
    BY <2>1, <2>3, AckAgrees
  <2> QED
    BY <1>1, <2>2, <2>3 DEF SendAck
<1>2. CASE ~SendAck(p)
  <2>1. Listens(p)
    BY <1>2, ReceiverListens
  <2>2. /\ Agreed(p, w) /\ SameSpeaker(x, y) /\ y.user = x.user /\ y.thread = x.thread
        /\ y.hears = x.hears /\ Lives(x)
    BY <2>1, SpeakerListens
  <2>3. Agreed(Other(p), y)
    BY <1>2, <2>1, <2>2, HearerListens
  <2> QED
    BY <2>2, <2>3
<1> QED
  BY <1>1, <1>2

LEMMA DeathAgrees ==
  ASSUME TypeInv, TypeInv', NEW p \in Peers, Die(p),
         NEW v \in View, NEW w \in View, NEW x \in View, NEW y \in View, Turn(p, v, w, x, y)
  PROVE  Agreed(p, w) /\ Agreed(Other(p), y)
<1>1. Ends(p, "killed") /\ UNCHANGED <<receiverVars, userVars, history>>
  BY DEF Die
<1>2. NetElsewhere(p)
  BY <1>1, EndsEffect DEF NetElsewhere
<1>3. Agreed(p, w)
  BY <1>1, SpeakerEnds DEF userVars
<1>4. Agreed(Other(p), y)
  BY <1>1, <1>2, HearerIdle DEF userVars
<1> QED
  BY <1>3, <1>4

-----------------------------------------------------------------------------
(* The path of the history. *)

LEMMA PathKnownInit ==
  ASSUME Init
  PROVE  PathKnown
  BY DEF Init, PathKnown

LEMMA PathKnownNext ==
  ASSUME TypeInv, PathKnown, NEW p \in Peers,
         UserRuns(p) \/ UserTypes(p) \/ ReceiverRuns(p) \/ Die(p)
  PROVE  PathKnown'
<1>1. /\ user \in [Peers -> {"uid", "payload", "waiting", "prompt", "saving", "joining"}]
      /\ receiver \in [Peers -> ReceiverPlaces] /\ line \in [Peers -> GoodFrame]
      /\ history_path \in [Peers -> BOOLEAN] /\ peer_uid_ready \in [Peers -> BOOLEAN]
      /\ LineFits
  BY DEF TypeInv, ChatTypeOK, ReceiverPlaces
<1>2. ASSUME UNCHANGED <<line, history_path, peer_uid_ready>>,
             \A r \in Peers : receiver'[r] = "prepared" => receiver[r] = "prepared",
             \A r \in Peers :
               \/ user'[r] = user[r]
               \/ user'[r] = "waiting"
               \/ user[r] \in {"waiting", "prompt", "saving"} /\ history_path[r]
                    /\ user'[r] \in {"prompt", "joining"}
               \/ user[r] = "payload" /\ line[r].type # "LMP_UID"
               \/ user'[r] = "payload" /\ line[r].type = "LMP_UID"
      PROVE  PathKnown'
  BY <1>2 DEF PathKnown
<1>3. CASE SendUid(p)
  <2>1. /\ user[p] = "uid" /\ UNCHANGED <<line, receiverVars>>
        /\ \/ user' = user \/ user' = [user EXCEPT ![p] = "payload"]
           \/ user' = [user EXCEPT ![p] = "waiting"]
    BY <1>3 DEF SendUid, At, UserSendsHeader, GoTo
  <2>2. line[p].type = "LMP_UID"
    BY <1>1, <2>1, FrameTypes DEF LineFits
  <2> QED
    BY <1>1, <1>2, <2>1, <2>2 DEF receiverVars
<1>4. CASE SendPayload(p)
  <2>1. /\ user[p] = "payload" /\ UNCHANGED <<line, receiverVars>>
        /\ \/ user' = user
           \/ user' = [user EXCEPT ![p] = [LMP_UID |-> "waiting", LMP_MSG |-> "saving",
                                           LMP_NICK |-> "prompt"][line[p].type]]
           \/ user' = [user EXCEPT ![p] = [[LMP_UID |-> "waiting", LMP_MSG |-> "saving",
                                            LMP_NICK |-> "prompt"]
                                              EXCEPT !["LMP_MSG"] = "prompt"][line[p].type]]
    BY <1>4 DEF SendPayload, At, GoTo
  <2>2. line[p].type \in Kinds
    BY <1>1, <2>1 DEF LineFits
  <2>3. /\ \A r \in Peers : r # p => user'[r] = user[r]
        /\ user'[p] = user[p] \/ user'[p] = "waiting" \/ line[p].type # "LMP_UID"
    BY <1>1, <2>1, <2>2 DEF Kinds
  <2> QED
    BY <1>1, <1>2, <2>1, <2>3 DEF receiverVars
<1>5. CASE SeeReady(p) \/ SaveOwn(p) \/ Leave(p)
  <2>1. /\ user[p] \in {"waiting", "prompt", "saving"} /\ UNCHANGED <<line, receiverVars>>
        /\ user[p] = "waiting" => peer_uid_ready[p]
        /\ user' = [user EXCEPT ![p] = "prompt"] \/ user' = [user EXCEPT ![p] = "joining"]
    BY <1>5 DEF SeeReady, SaveOwn, Leave, At, GoTo
  <2>2. history_path[p]
    BY <2>1 DEF PathKnown
  <2> QED
    BY <1>1, <1>2, <2>1, <2>2 DEF receiverVars
<1>6. CASE TypeMsg(p) \/ TypeNick(p)
  <2>1. /\ user[p] = "prompt" /\ UNCHANGED receiverVars
        /\ \E f : line' = [line EXCEPT ![p] = f]
        /\ \/ user' = user \/ user' = [user EXCEPT ![p] = "payload"]
           \/ user' = [user EXCEPT ![p] = "prompt"]
    BY <1>6 DEF TypeMsg, TypeNick, At, UserSendsHeader, GoTo
  <2>2. history_path[p]
    BY <2>1 DEF PathKnown
  <2>3. \A r \in Peers : r # p => user'[r] = user[r] /\ line'[r] = line[r]
    BY <1>1, <2>1
  <2> QED
    BY <2>1, <2>2, <2>3 DEF receiverVars, PathKnown
<1>7. CASE Join(p) \/ Die(p)
  <2>1. UNCHANGED <<userVars, receiverVars>>
    BY <1>7 DEF Join, Die
  <2> QED
    BY <1>2, <2>1 DEF userVars, receiverVars
<1>8. CASE UidRecvPrepare(p)
  <2>1. /\ UNCHANGED <<userVars, peer_uid_ready>>
        /\ receiver' = [receiver EXCEPT ![p] = "prepared"]
        /\ history_path' = [history_path EXCEPT ![p] = TRUE]
    BY <1>8 DEF UidRecvPrepare, Dispatch, Receiving, ReceiverTo
  <2>2. /\ history_path'[p]
        /\ \A r \in Peers : r # p => history_path'[r] = history_path[r] /\ receiver'[r] = receiver[r]
    BY <1>1, <2>1
  <2> QED
    BY <2>1, <2>2 DEF userVars, PathKnown
<1>9. CASE UidRecvReady(p)
  <2>1. /\ UNCHANGED <<userVars, history_path>> /\ receiver[p] = "prepared"
        /\ receiver' = [receiver EXCEPT ![p] = "header"]
        /\ peer_uid_ready' = [peer_uid_ready EXCEPT ![p] = TRUE]
    BY <1>9 DEF UidRecvReady, Receiving, ReceiverTo
  <2>2. history_path[p]
    BY <2>1 DEF PathKnown
  <2>3. \A r \in Peers : r # p => peer_uid_ready'[r] = peer_uid_ready[r] /\ receiver'[r] = receiver[r]
    BY <1>1, <2>1
  <2> QED
    BY <2>1, <2>2, <2>3 DEF userVars, PathKnown
<1>10. CASE ReadHeader(p) \/ ReadEnd(p) \/ ReadPayload(p) \/ ReadTorn(p) \/ MsgRecv(p)
              \/ NickRecv(p) \/ AckRecv(p)
  <2>1. /\ UNCHANGED <<userVars, history_path, peer_uid_ready>>
        /\ \E place \in {"payload", "done", "dispatch", "header", "ack"} :
             receiver' = [receiver EXCEPT ![p] = place]
    BY <1>10 DEF ReadHeader, ReadEnd, ReadPayload, ReadTorn, MsgRecv, NickRecv, AckRecv,
                 Dispatch, Receiving, ReceiverTo
  <2>2. \A r \in Peers : receiver'[r] = "prepared" => receiver[r] = "prepared"
    BY <1>1, <2>1
  <2> QED
    BY <1>2, <2>1, <2>2 DEF userVars
<1>11. CASE SendAck(p)
  <2>1. /\ UNCHANGED <<userVars, history_path, peer_uid_ready>>
        /\ \/ receiver' = receiver
           \/ \E place \in {"ack_payload", "header"} : receiver' = [receiver EXCEPT ![p] = place]
    BY <1>11 DEF SendAck, AckSends, ReceiverTo
  <2>2. \A r \in Peers : receiver'[r] = "prepared" => receiver[r] = "prepared"
    BY <1>1, <2>1
  <2> QED
    BY <1>2, <2>1, <2>2 DEF userVars
<1> QED
  BY <1>3, <1>4, <1>5, <1>6, <1>7, <1>8, <1>9, <1>10, <1>11
     DEF UserRuns, UserTypes, ReceiverRuns

-----------------------------------------------------------------------------
(* Every behaviour. *)

LEMMA InitAgrees ==
  ASSUME Init
  PROVE  AllAgreed
<1> SUFFICES ASSUME NEW p \in Peers
             PROVE  Agreed(p, Seen(p))
  BY DEF AllAgreed
<1> DEFINE q == Other(p)
<1>1. TypeInv /\ q \in Peers
  BY InitTyped, OtherPeer
<1>2. PICK v \in View : v = Seen(p) /\ Shows(p, v)
  BY <1>1, SeenNow
<1>3. /\ v.own = <<>> /\ v.got = <<>> /\ v.stream = <<>> /\ v.said = 0
      /\ v.user = "uid" /\ v.nick = "You" /\ v.thread = "header" /\ v.at = "header"
  BY <1>1, <1>2 DEF Init, Shows
<1>4. Of(<<>>, p) = {} /\ Number(<<>>, p) = 0
  <2>1. Of(<<>>, p) = {}
    BY DEF Of
  <2> QED
    BY <2>1, FS_EmptySet DEF Number
<1>5. \A n, x : ~Stands(v.own, p, n, x) /\ ~Stands(v.got, p, n, x)
  BY <1>3, <1>4 DEF Stands
<1>6. /\ Saved(p, v) = 0 /\ Taken(p, v) = 0 /\ ~Dispatching(v, "LMP_MSG") /\ ~Pending(v)
      /\ Flow(v) = <<>>
  BY <1>3, <1>4 DEF Saved, Taken, Dispatching, Pending, Flow
<1>7. Counted(p, v)
  BY <1>3, <1>6 DEF Counted
<1>8. Ledger(p, v)
  BY <1>3, <1>5, <1>6 DEF Ledger, IsSent
<1>9. Hearing(p, v)
  <2>1. Hand(p, v) \in Reader /\ Hand(p, v).n = 0
    BY <1>6, ViewTypes
  <2> DEFINE g == [i \in 0 .. 0 |-> Hand(p, v)]
  <2>2. Len(Flow(v)) = 0 /\ 0 \in 0 .. 0 /\ 1 .. 0 = {} /\ \A i \in 0 .. 0 : i = 0
    BY <1>6
  <2>3. g \in [0 .. 0 -> Reader] /\ g[0] = Hand(p, v)
    BY <2>1, <2>2
  <2> HIDE DEF g
  <2>4. Course(Flow(v), g)
    BY <2>2, <2>3 DEF Course
  <2>5. UpToDate(v, g[0]) /\ g[0].n <= v.said
    BY <1>3, <2>1, <2>3 DEF UpToDate
  <2>6. Tells(p, v, Flow(v), g)
    BY <2>2, <2>4, <2>5 DEF Tells
  <2>7. Hears(p, v, Flow(v), Hand(p, v))
    BY <2>3, <2>6 DEF Hears
  <2>8. InTurn(v, Flow(v))
    BY <1>3, <2>2 DEF InTurn, Paired
  <2> QED
    BY <1>6, <2>7, <2>8 DEF Hearing
<1> QED
  BY <1>2, <1>7, <1>8, <1>9 DEF Agreed

LEMMA StutterAgrees ==
  ASSUME AllAgreed, UNCHANGED vars
  PROVE  AllAgreed'
<1>1. \A p \in Peers : Seen(p)' = Seen(p)
  BY DEF Seen, vars, userVars, receiverVars, net
<1> QED
  BY <1>1 DEF AllAgreed

LEMMA AllAgreedInvariant == Spec => []AllAgreed
<1>1. Init => PathKnown /\ AllAgreed
  BY PathKnownInit, InitAgrees
<1>2. TypeInv /\ TypeInv' /\ PathKnown /\ AllAgreed /\ [Next]_vars => PathKnown' /\ AllAgreed'
  <2> SUFFICES ASSUME TypeInv, TypeInv', PathKnown, AllAgreed, [Next]_vars
               PROVE  PathKnown' /\ AllAgreed'
    OBVIOUS
  <2>1. CASE Next
    <3>1. PICK p \in Peers : UserRuns(p) \/ UserTypes(p) \/ ReceiverRuns(p) \/ Die(p)
      BY <2>1 DEF Next
    <3>2. PathKnown'
      BY <3>1, PathKnownNext
    <3>3. ASSUME NEW v \in View, NEW w \in View, NEW x \in View, NEW y \in View,
                 Turn(p, v, w, x, y)
          PROVE  Agreed(p, w) /\ Agreed(Other(p), y)
      <4>1. CASE UserRuns(p) \/ UserTypes(p)
        BY <3>3, <4>1, UserAgrees
      <4>2. CASE ReceiverRuns(p)
        BY <3>3, <4>2, ReceiverAgrees
      <4>3. CASE Die(p)
        BY <3>3, <4>3, DeathAgrees
      <4> QED
        BY <3>1, <4>1, <4>2, <4>3
    <3>4. AllAgreed'
      BY <3>3, TurnsAgree
    <3> QED
      BY <3>2, <3>4
  <2>2. CASE UNCHANGED vars
    <3>1. PathKnown'
      BY <2>2 DEF PathKnown, vars, userVars, receiverVars
    <3> QED
      BY <2>2, <3>1, StutterAgrees
  <2> QED
    BY <2>1, <2>2
<1> QED
  BY <1>1, <1>2, TypeInvariant, PTL DEF Spec

LEMMA AgreedHistories ==
  ASSUME TypeInv, AllAgreed
  PROVE  HistoriesAgree
<1> SUFFICES ASSUME NEW p \in Peers, ~torn[Other(p)], NEW i \in LinesAt(p, Other(p))
             PROVE  LET got == history[Other(p)][i]
                        n   == Nth(p, Other(p), i)
                    IN  /\ n <= Len(Texts[p]) /\ got.text = Texts[p][n]
                        /\ \A k \in LinesAt(p, p) :
                             Nth(p, p, k) = n =>
                               /\ history[p][k].text = got.text
                               /\ history[p][k].name # "You" => history[p][k].name = got.name
  BY DEF HistoriesAgree
<1> DEFINE q == Other(p)
<1>1. PICK v \in View : Shows(p, v) /\ Agreed(p, v)
  BY SeenNow DEF AllAgreed
<1>2. /\ v.own = history[p] /\ v.got = history[q] /\ Whole(v)
      /\ v.own \in Seq(Line) /\ v.got \in Seq(Line)
  BY <1>1, ViewTypes DEF Shows, Whole
<1>3. /\ LinesAt(p, q) = Of(v.got, p) /\ LinesAt(p, p) = Of(v.own, p)
      /\ \A j : Nth(p, q, j) = Rank(v.got, p, j) /\ Nth(p, p, j) = Rank(v.own, p, j)
  BY <1>2 DEF LinesAt, Of, Nth, Rank
<1>4. PICK n : n = Nth(p, q, i)
  OBVIOUS
<1>5. PICK got : got = history[q][i]
  OBVIOUS
<1>6. Ledger(p, v)
  BY <1>1, <1>2 DEF Agreed
<1>7. Stands(v.got, p, n, got)
  BY <1>2, <1>3, <1>4, <1>5 DEF Stands
<1>8. n \in 1 .. Number(v.got, p) /\ got \in Line
  BY <1>2, <1>7, StandsBound
<1>9. n \in Nat /\ n <= Taken(p, v)
  <2>1. Number(v.got, p) \in Nat
    BY ViewTypes
  <2> QED
    BY <1>8, <2>1 DEF Taken
<1>10. /\ n <= Len(Texts[p]) /\ got.text = Texts[p][n]
       /\ Named(p, v, n, got.name)
  BY <1>6, <1>7, <1>8, <1>9 DEF Ledger
<1>11. ASSUME NEW k \in LinesAt(p, p), Nth(p, p, k) = n
       PROVE  /\ history[p][k].text = got.text
              /\ history[p][k].name # "You" => history[p][k].name = got.name
  <2>1. PICK own : own = history[p][k]
    OBVIOUS
  <2>2. Stands(v.own, p, n, own)
    BY <1>2, <1>3, <1>11, <2>1 DEF Stands
  <2>3. own \in Line
    BY <1>2, <2>2, StandsBound
  <2>4. own.text = Texts[p][n]
    BY <1>6, <1>9, <2>2, <2>3 DEF Ledger
  <2>5. own.name # "You" => own.name = got.name
    BY <1>10, <2>2, <2>3 DEF Named
  <2> QED
    BY <1>10, <2>1, <2>4, <2>5
<1> QED
  BY <1>4, <1>5, <1>10, <1>11

\* What one peer said stands in both histories in the order it was typed,
\* nothing left out of either, and under the same nickname from the moment the
\* speaker took one: for all texts and nicknames, however the four threads that
\* write the two files and the two streams interleave, and whenever a process
\* ends, unless a frame was torn.
THEOREM BothFilesAgree == Spec => []HistoriesAgree
<1>1. TypeInv /\ AllAgreed => HistoriesAgree
  BY AgreedHistories
<1> QED
  BY <1>1, TypeInvariant, AllAgreedInvariant, PTL

=============================================================================
