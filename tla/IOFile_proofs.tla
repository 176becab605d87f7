---------------------------- MODULE IOFile_proofs ----------------------------
(***************************************************************************)
(* A file is a stream, for every buffer, device and length of calls: its   *)
(* cursors stay in the buffer, and each operation, whichever way it        *)
(* splits its data between buffer and device and wherever the device       *)
(* stops, hands over from the front of a queue what was added at its end;  *)
(* only a flush has the device take bytes twice, or others behind them.    *)
(***************************************************************************)
EXTENDS IOFile, SequenceTheorems, TLAPS

-----------------------------------------------------------------------------
(* Cuts of a sequence b of integers, most often the buffer.                *)
LEMMA Cut ==
  ASSUME NEW N \in Nat, NEW S, NEW b \in [1 .. N -> S], NEW h \in Nat, NEW p \in 0 .. N
  PROVE  /\ SubSeq(b, h + 1, p) \in Seq(S)
         /\ Len(SubSeq(b, h + 1, p)) = IF h <= p THEN p - h ELSE 0
         /\ \A i \in 1 .. p - h : SubSeq(b, h + 1, p)[i] = b[h + i]
<1>1. \A i \in h + 1 .. p : b[i] \in S
  OBVIOUS
<1>2. h + 1 \in Int /\ p \in Int
  OBVIOUS
<1>3. /\ SubSeq(b, h + 1, p) \in Seq(S)
      /\ Len(SubSeq(b, h + 1, p)) = IF h + 1 <= p THEN p - (h + 1) + 1 ELSE 0
      /\ \A i \in 1 .. p - (h + 1) + 1 : SubSeq(b, h + 1, p)[i] = b[h + 1 + i - 1]
  BY <1>1, <1>2, SubSeqProperties
<1> QED BY <1>3

(* A cut of a cut.                                                         *)
LEMMA CutOfCut ==
  ASSUME NEW N \in Nat, NEW S, NEW b \in [1 .. N -> S], NEW h \in Nat, NEW p \in 0 .. N,
         h <= p, NEW i \in Nat, NEW j \in 0 .. p - h
  PROVE  SubSeq(SubSeq(b, h + 1, p), i + 1, j) = SubSeq(b, h + i + 1, h + j)
<1> DEFINE c == SubSeq(b, h + 1, p)
           l == SubSeq(c, i + 1, j)
           r == SubSeq(b, h + i + 1, h + j)
<1>1. c \in [1 .. p - h -> S] /\ \A x \in 1 .. p - h : c[x] = b[h + x]
  <2>1. c \in Seq(S) /\ Len(c) = p - h /\ \A x \in 1 .. p - h : c[x] = b[h + x]
    BY Cut
  <2> HIDE DEF c
  <2>2. c \in [1 .. Len(c) -> S]
    BY <2>1, LenProperties
  <2> QED BY <2>1, <2>2
<1>2. p - h \in Nat
  OBVIOUS
<1>3. /\ l \in Seq(S) /\ Len(l) = (IF i <= j THEN j - i ELSE 0)
      /\ \A x \in 1 .. j - i : l[x] = c[i + x]
  <2> HIDE DEF c
  <2> QED BY <1>1, <1>2, Cut
<1>4. /\ r \in Seq(S) /\ Len(r) = (IF h + i <= h + j THEN h + j - (h + i) ELSE 0)
      /\ \A x \in 1 .. h + j - (h + i) : r[x] = b[h + i + x]
  <2>1. h + i \in Nat /\ h + j \in 0 .. N
    OBVIOUS
  <2> QED BY <2>1, Cut
<1> HIDE DEF c, l, r
<1>5. Len(l) = Len(r)
  BY <1>3, <1>4
<1>6. ASSUME NEW x \in 1 .. Len(l) PROVE l[x] = r[x]
  BY <1>1, <1>3, <1>4, <1>6
<1>7. l = r
  BY <1>3, <1>4, <1>5, <1>6, SeqEqual
<1> QED BY <1>7 DEF l, r, c

(* A sequence put into the buffer at p extends the cuts that end there.    *)
Extends(f, b, h, p, s) ==
  /\ SubSeq(f, h + 1, p + Len(s)) = SubSeq(b, h + 1, p) \o s
  /\ \A k \in 0 .. p : SubSeq(f, h + 1, k) = SubSeq(b, h + 1, k)

LEMMA CutOfPut ==
  ASSUME NEW N \in Nat, NEW S, NEW b \in [1 .. N -> S], NEW h \in Nat, NEW p \in 0 .. N,
         h <= p, NEW s \in Seq(S), p + Len(s) <= N
  PROVE  /\ Put(b, p, s) \in [1 .. N -> S]
         /\ Extends(Put(b, p, s), b, h, p, s)
<1> DEFINE f == Put(b, p, s)
<1>0. Len(s) \in Nat /\ \A i \in 1 .. Len(s) : s[i] \in S
  BY LenProperties, ElementOfSeq
<1>1. f \in [1 .. N -> S]
  BY <1>0 DEF Put
<1>2. \A i \in 1 .. p : f[i] = b[i]
  BY <1>0 DEF Put
<1>3. \A i \in 1 .. Len(s) : f[p + i] = s[i]
  <2> SUFFICES ASSUME NEW i \in 1 .. Len(s) PROVE f[p + i] = s[i]
    OBVIOUS
  <2>1. p + i \in 1 .. N /\ p + i - p = i
    BY <1>0
  <2> QED BY <2>1 DEF Put
<1> HIDE DEF f
<1>4. SubSeq(f, h + 1, p + Len(s)) = SubSeq(b, h + 1, p) \o s
  <2> DEFINE c == SubSeq(b, h + 1, p)
             l == SubSeq(f, h + 1, p + Len(s))
  <2>1. /\ c \in Seq(S) /\ Len(c) = p - h
        /\ \A i \in 1 .. p - h : c[i] = b[h + i]
    BY Cut
  <2>2. /\ l \in Seq(S) /\ Len(l) = p + Len(s) - h
        /\ \A i \in 1 .. p + Len(s) - h : l[i] = f[h + i]
    <3>1. p + Len(s) \in 0 .. N /\ h <= p + Len(s)
      BY <1>0
    <3> QED BY <1>1, <3>1, Cut
  <2> HIDE DEF c, l
  <2>3. /\ c \o s \in Seq(S) /\ Len(c \o s) = Len(c) + Len(s)
        /\ \A i \in 1 .. Len(c) + Len(s) :
             (c \o s)[i] = IF i <= Len(c) THEN c[i] ELSE s[i - Len(c)]
    BY <2>1, ConcatProperties
  <2>4. ASSUME NEW i \in 1 .. Len(l) PROVE l[i] = (c \o s)[i]
    <3>0. i \in Nat /\ p - h \in Nat
      BY <1>0, <2>2
    <3>1. l[i] = f[h + i] /\ i \in 1 .. Len(c) + Len(s)
      <4>1. i \in 1 .. p + Len(s) - h
        BY <2>2, Zenon
      <4>2. Len(c) = p - h
        BY <2>1, Zenon
      <4>3. p - h + Len(s) = p + Len(s) - h
        BY <1>0
      <4>4. i \in 1 .. Len(c) + Len(s)
        BY <4>1, <4>2, <4>3, Zenon
      <4> QED BY <2>2, <4>1, <4>4, Zenon
    <3>2. CASE i <= p - h
      <4>1. h + i \in 1 .. p
        BY <3>2
      <4> QED BY <1>2, <2>1, <2>3, <3>1, <3>2, <4>1
    <3>3. CASE i > p - h
      <4>1. i - (p - h) \in 1 .. Len(s) /\ p + (i - (p - h)) = h + i
        BY <1>0, <2>1, <3>1, <3>3
      <4>2. f[h + i] = s[i - (p - h)]
        BY <1>3, <4>1
      <4> QED BY <2>1, <2>3, <3>1, <3>3, <4>2
    <3>4. i <= p - h \/ i > p - h
      BY <3>0
    <3> QED BY <3>2, <3>3, <3>4, Zenon
  <2>5. Len(l) = Len(c \o s)
    BY <1>0, <2>1, <2>2, <2>3
  <2>6. l = c \o s
    BY <2>2, <2>3, <2>4, <2>5, SeqEqual
  <2> QED BY <2>6 DEF c, l
<1>5. ASSUME NEW k \in 0 .. p PROVE SubSeq(f, h + 1, k) = SubSeq(b, h + 1, k)
  <2> DEFINE l == SubSeq(f, h + 1, k)
             r == SubSeq(b, h + 1, k)
  <2>1. k \in 0 .. N
    OBVIOUS
  <2>2. /\ l \in Seq(S) /\ Len(l) = (IF h <= k THEN k - h ELSE 0)
        /\ \A i \in 1 .. k - h : l[i] = f[h + i]
    BY <1>1, <2>1, Cut
  <2>3. /\ r \in Seq(S) /\ Len(r) = (IF h <= k THEN k - h ELSE 0)
        /\ \A i \in 1 .. k - h : r[i] = b[h + i]
    BY <2>1, Cut
  <2> HIDE DEF l, r
  <2>4. ASSUME NEW i \in 1 .. Len(l) PROVE l[i] = r[i]
    <3>1. i \in 1 .. k - h /\ h + i \in 1 .. p
      BY <2>2
    <3> QED BY <1>2, <2>2, <2>3, <3>1
  <2>5. l = r
    BY <2>2, <2>3, <2>4, SeqEqual
  <2> QED BY <2>5 DEF l, r
<1>6. Extends(f, b, h, p, s)
  BY <1>4, <1>5 DEF Extends
<1> QED BY <1>1, <1>6 DEF f

(* The two parts of a concatenation cut in its second part.                *)
LEMMA JoinCut ==
  ASSUME NEW S, NEW a \in Seq(S), NEW s \in Seq(S), NEW k \in 0 .. Len(s)
  PROVE  /\ SubSeq(a \o s, 1, Len(a) + k) = a \o SubSeq(s, 1, k)
         /\ SubSeq(a \o s, Len(a) + k + 1, Len(a \o s)) = SubSeq(s, k + 1, Len(s))
<1> DEFINE q == a \o s
           n == Len(a)
<1>1. /\ q \in Seq(S) /\ Len(q) = n + Len(s) /\ n \in Nat /\ Len(s) \in Nat
      /\ \A i \in 1 .. n + Len(s) : q[i] = IF i <= n THEN a[i] ELSE s[i - n]
  BY ConcatProperties, LenProperties
<1>2. q \in [1 .. n + Len(s) -> S] /\ s \in [1 .. Len(s) -> S]
  BY <1>1, LenProperties
<1> HIDE DEF q, n
<1>3. SubSeq(q, 1, n + k) = a \o SubSeq(s, 1, k)
  <2> DEFINE c == SubSeq(s, 1, k)
             l == SubSeq(q, 1, n + k)
  <2>1. c \in Seq(S) /\ Len(c) = k /\ \A i \in 1 .. k : c[i] = s[i]
    <3>1. /\ SubSeq(s, 0 + 1, k) \in Seq(S)
          /\ Len(SubSeq(s, 0 + 1, k)) = IF 0 <= k THEN k - 0 ELSE 0
          /\ \A i \in 1 .. k - 0 : SubSeq(s, 0 + 1, k)[i] = s[0 + i]
      BY <1>1, <1>2, Cut
    <3> QED BY <3>1
  <2>2. l \in Seq(S) /\ Len(l) = n + k /\ \A i \in 1 .. n + k : l[i] = q[i]
    <3>0. n + k \in 0 .. n + Len(s) /\ n + Len(s) \in Nat
      BY <1>1
    <3>1. /\ SubSeq(q, 0 + 1, n + k) \in Seq(S)
          /\ Len(SubSeq(q, 0 + 1, n + k)) = IF 0 <= n + k THEN n + k - 0 ELSE 0
          /\ \A i \in 1 .. n + k - 0 : SubSeq(q, 0 + 1, n + k)[i] = q[0 + i]
      BY <1>2, <3>0, Cut
    <3> QED BY <1>1, <3>1
  <2> HIDE DEF c, l
  <2>3. /\ a \o c \in Seq(S) /\ Len(a \o c) = n + k
        /\ \A i \in 1 .. n + k : (a \o c)[i] = IF i <= n THEN a[i] ELSE c[i - n]
    BY <2>1, ConcatProperties DEF n
  <2>4. ASSUME NEW i \in 1 .. Len(l) PROVE l[i] = (a \o c)[i]
    <3>0. i \in 1 .. n + k /\ i \in Nat /\ n \in Nat /\ k \in Nat
      BY <1>1, <2>2
    <3>1. CASE i <= n
      BY <1>1, <2>2, <2>3, <3>0, <3>1
    <3>2. CASE i > n
      <4>1. i - n \in 1 .. k /\ ~(i <= n) /\ i \in 1 .. n + Len(s)
        BY <1>1, <3>0, <3>2
      <4>2. l[i] = s[i - n]
        BY <1>1, <2>2, <3>0, <4>1
      <4>3. (a \o c)[i] = c[i - n]
        BY <2>3, <3>0, <4>1
      <4>4. c[i - n] = s[i - n]
        BY <2>1, <4>1
      <4> QED BY <4>2, <4>3, <4>4
    <3>3. i <= n \/ i > n
      BY <3>0
    <3> QED BY <3>1, <3>2, <3>3, Zenon
  <2>5. l = a \o c
    BY <2>2, <2>3, <2>4, SeqEqual
  <2> QED BY <2>5 DEF l, c
<1>4. SubSeq(q, n + k + 1, Len(q)) = SubSeq(s, k + 1, Len(s))
  <2> DEFINE l == SubSeq(q, n + k + 1, Len(q))
             r == SubSeq(s, k + 1, Len(s))
  <2>0. Len(q) \in 0 .. n + Len(s) /\ n + k \in Nat /\ n + Len(s) \in Nat
    BY <1>1
  <2>1. /\ l \in Seq(S) /\ Len(l) = Len(s) - k
        /\ \A i \in 1 .. Len(s) - k : l[i] = q[n + k + i]
    <3>1. /\ l \in Seq(S)
          /\ Len(l) = IF n + k <= Len(q) THEN Len(q) - (n + k) ELSE 0
          /\ \A i \in 1 .. Len(q) - (n + k) : l[i] = q[n + k + i]
      <4>1. PICK h \in Nat : h = n + k
        BY <2>0
      <4>2. PICK N \in Nat : N = n + Len(s)
        BY <2>0
      <4>3. q \in [1 .. N -> S] /\ Len(q) \in 0 .. N
        BY <1>2, <2>0, <4>2
      <4>4. /\ SubSeq(q, h + 1, Len(q)) \in Seq(S)
            /\ Len(SubSeq(q, h + 1, Len(q))) = IF h <= Len(q) THEN Len(q) - h ELSE 0
            /\ \A i \in 1 .. Len(q) - h : SubSeq(q, h + 1, Len(q))[i] = q[h + i]
        BY <4>3, Cut
      <4> QED BY <4>1, <4>4
    <3>2. Len(q) - (n + k) = Len(s) - k /\ n + k <= Len(q)
      BY <1>1
    <3> HIDE DEF l
    <3> QED BY <3>1, <3>2
  <2>2. /\ r \in Seq(S) /\ Len(r) = Len(s) - k
        /\ \A i \in 1 .. Len(s) - k : r[i] = s[k + i]
    <3>1. Len(s) \in 0 .. Len(s) /\ k \in Nat /\ Len(s) \in Nat /\ k <= Len(s)
      BY <1>1
    <3>2. /\ r \in Seq(S) /\ Len(r) = (IF k <= Len(s) THEN Len(s) - k ELSE 0)
          /\ \A i \in 1 .. Len(s) - k : r[i] = s[k + i]
      <4>1. PICK N \in Nat : N = Len(s)
        BY <3>1
      <4>2. s \in [1 .. N -> S] /\ Len(s) \in 0 .. N
        BY <1>2, <3>1, <4>1
      <4> QED BY <3>1, <4>2, Cut
    <3> HIDE DEF r
    <3> QED BY <3>1, <3>2
  <2> HIDE DEF l, r
  <2>3. ASSUME NEW i \in 1 .. Len(l) PROVE l[i] = r[i]
    <3>1. n + k + i \in 1 .. n + Len(s) /\ ~(n + k + i <= n) /\ n + k + i - n = k + i
          /\ i \in 1 .. Len(s) - k
      BY <1>1, <2>1
    <3>2. q[n + k + i] = s[k + i]
      BY <1>1, <3>1
    <3> QED BY <2>1, <2>2, <3>1, <3>2
  <2>4. l = r
    BY <2>1, <2>2, <2>3, SeqEqual
  <2> QED BY <2>4 DEF l, r
<1> QED BY <1>3, <1>4 DEF q, n
-----------------------------------------------------------------------------
LEMMA Regroup ==
  ASSUME NEW a \in Seq(Byte), NEW s \in Seq(Byte), NEW t \in Seq(Byte)
  PROVE  (a \o s) \o t = a \o (s \o t)
  BY ConcatAssociative

(* A function on 1 .. n is a sequence, and its beginning one by itself.    *)
LEMMA Beginning ==
  ASSUME NEW S, NEW n \in Nat, NEW f \in [1 .. n -> S], NEW m \in 0 .. n
  PROVE  /\ f \in Seq(S) /\ Len(f) = n
         /\ SubSeq(f, 1, m) = [i \in 1 .. m |-> f[i]]
<1>1. f \in Seq(S)
  BY SeqDef
<1>2. Len(f) = n
  BY <1>1
<1> DEFINE l == SubSeq(f, 1, m)
           r == [i \in 1 .. m |-> f[i]]
<1>3. l \in Seq(S) /\ Len(l) = m /\ \A i \in 1 .. m : l[i] = f[i]
  <2>1. /\ SubSeq(f, 0 + 1, m) \in Seq(S)
        /\ Len(SubSeq(f, 0 + 1, m)) = IF 0 <= m THEN m - 0 ELSE 0
        /\ \A i \in 1 .. m - 0 : SubSeq(f, 0 + 1, m)[i] = f[0 + i]
    BY Cut
  <2> QED BY <2>1
<1>4. r \in [1 .. m -> S] /\ m \in Nat
  OBVIOUS
<1>5. r \in Seq(S)
  BY <1>4, SeqDef
<1>6. Len(r) = m
  BY <1>4, <1>5
<1>7. \A i \in 1 .. Len(l) : l[i] = r[i]
  BY <1>3
<1>8. l = r
  <2> HIDE DEF l, r
  <2> QED BY <1>3, <1>5, <1>6, <1>7, SeqEqual
<1> QED BY <1>1, <1>2, <1>8

(* An empty cut.                                                           *)
LEMMA NoCut == ASSUME NEW b, NEW i \in Int, NEW j \in Int, j < i PROVE SubSeq(b, i, j) = << >>
  BY SubSeqEmpty
-----------------------------------------------------------------------------
(* The invariant: types and cursors, and a buffer as large as it was made  *)
(* while the file is open.                                                 *)
IInv == TypeOK /\ CursorsInBuffer /\ (isOpen => size = InitSize)

(* A file on which a client may write.                                     *)
Ready == IInv /\ isOpen /\ (last_op = "Write" \/ pos = 0)

(* What is on its way to the device, n bytes from the clients, and both.   *)
Queue   == SubSeq(buf, 1, pos)
Data(n) == [i \in 1 .. n |-> accepted + i]
Out(n)  == Queue \o Data(n)

(* The clients get n bytes accepted and the device gets k.                 *)
Sends(n, k) ==
  /\ n \in Nat /\ k \in 0 .. Len(Out(n))
  /\ accepted' = accepted + n
  /\ received' = received \o SubSeq(Out(n), 1, k)
  /\ \/ SubSeq(buf', 1, pos') = SubSeq(Out(n), k + 1, Len(Out(n)))
     \/ SubSeq(buf', 1, pos') = << >> /\ file.fails /\ err'

LEMMA Sizes == ASSUME IInv PROVE InitSize \in Nat /\ InitSize < Word /\ file \in FileType
<1>1. file \in Files /\ file \in FileType
  BY IOFileAssumption DEF IInv, TypeOK
<1>2. file.array \in Nat
  BY <1>1 DEF FileType
<1> QED BY <1>1, <1>2, IOFileAssumption DEF InitSize

LEMMA Bounded == Bound \in Nat /\ Bound <= MaxBytes
  BY IOFileAssumption DEF Bound

LEMMA AnswersBound ==
  ASSUME IInv, NEW n \in Nat, NEW w \in Answers(n)
  PROVE  /\ w.value \in 0 .. n /\ w.isErr \in BOOLEAN
         /\ ~file.fails => w.value = n /\ w.isErr = FALSE
<1>1. file.fails \in BOOLEAN
  BY Sizes DEF FileType
<1>2. CASE file.fails
  BY <1>2 DEF Answers
<1>3. CASE ~file.fails
  <2>1. w = [value |-> n, isErr |-> FALSE]
    BY <1>3 DEF Answers
  <2>2. w.value = n /\ w.isErr = FALSE
    BY <2>1
  <2>3. n \in 0 .. n
    OBVIOUS
  <2>4. FALSE \in BOOLEAN
    OBVIOUS
  <2> QED BY <2>2, <2>3, <2>4
<1> QED BY <1>1, <1>2, <1>3

LEMMA ReadyFacts ==
  ASSUME Ready
  PROVE  /\ pos \in 0 .. size /\ size = InitSize /\ size \in Nat
         /\ buf \in [1 .. size -> Byte]
         /\ Queue \in Seq(Byte) /\ Len(Queue) = pos
         /\ accepted \in Nat /\ fetched \in Nat /\ received \in Seq(Byte)
<1>1. /\ pos \in 0 .. size /\ size = InitSize /\ size \in Nat
      /\ buf \in [1 .. size -> Byte]
  <2>1. size = InitSize /\ InitSize \in Nat /\ buf \in [1 .. InitSize -> Byte]
    BY Sizes DEF Ready, IInv, TypeOK
  <2>2. pos \in 0 .. InitSize /\ pos <= size
    BY DEF Ready, IInv, TypeOK, CursorsInBuffer
  <2> QED BY <2>1, <2>2
<1>2. Queue \in Seq(Byte) /\ Len(Queue) = pos
  <2>1. 0 \in Nat /\ 0 + 1 = 1 /\ 0 <= pos /\ pos - 0 = pos
    BY <1>1
  <2>2. /\ SubSeq(buf, 0 + 1, pos) \in Seq(Byte)
        /\ Len(SubSeq(buf, 0 + 1, pos)) = IF 0 <= pos THEN pos - 0 ELSE 0
    BY <1>1, <2>1, Cut
  <2> QED BY <2>1, <2>2, Zenon DEF Queue
<1> QED BY <1>1, <1>2 DEF Ready, IInv, TypeOK

LEMMA DataFacts ==
  ASSUME Ready, NEW n \in Nat, accepted + n <= MaxBytes
  PROVE  /\ Data(n) \in Seq(Byte) /\ Len(Data(n)) = n
         /\ \A m \in 0 .. n : SubSeq(Data(n), 1, m) = Data(m)
<1>1. accepted \in Nat /\ MaxBytes \in Nat
  BY ReadyFacts, IOFileAssumption
<1>2. Data(n) \in [1 .. n -> Byte]
  BY <1>1 DEF Data, Byte
<1>3. ASSUME NEW m \in 0 .. n PROVE SubSeq(Data(n), 1, m) = Data(m)
  <2>1. SubSeq(Data(n), 1, m) = [i \in 1 .. m |-> Data(n)[i]]
    BY <1>2, Beginning
  <2> QED BY <2>1 DEF Data
<1>4. n \in 0 .. n
  OBVIOUS
<1> QED BY <1>2, <1>3, <1>4, Beginning

LEMMA OutFacts ==
  ASSUME Ready, NEW n \in Nat, accepted + n <= MaxBytes
  PROVE  /\ Out(n) \in Seq(Byte) /\ Len(Out(n)) = pos + n
         /\ SubSeq(Out(n), 1, Len(Out(n))) = Out(n)
         /\ SubSeq(Out(n), Len(Out(n)) + 1, Len(Out(n))) = << >>
         /\ SubSeq(Out(n), 1, 0) = << >>
         /\ \A m \in 0 .. n :
              /\ SubSeq(Out(n), 1, Len(Queue) + m) = Out(m)
              /\ SubSeq(Out(n), Len(Queue) + m + 1, Len(Out(n))) = SubSeq(Data(n), m + 1, n)
<1>1. Queue \in Seq(Byte) /\ Len(Queue) = pos /\ Data(n) \in Seq(Byte) /\ Len(Data(n)) = n
  BY ReadyFacts, DataFacts
<1>2. Out(n) \in Seq(Byte) /\ Len(Out(n)) = pos + n
  BY <1>1, ConcatProperties DEF Out
<1>3. SubSeq(Out(n), 1, Len(Out(n))) = Out(n)
  BY <1>2, SubSeqFull
<1>4. Len(Out(n)) \in Nat
  BY <1>2
<1>5. /\ SubSeq(Out(n), Len(Out(n)) + 1, Len(Out(n))) = << >>
      /\ SubSeq(Out(n), 1, 0) = << >>
  BY <1>4, NoCut
<1>6. ASSUME NEW m \in 0 .. n
      PROVE  /\ SubSeq(Out(n), 1, Len(Queue) + m) = Out(m)
             /\ SubSeq(Out(n), Len(Queue) + m + 1, Len(Out(n))) = SubSeq(Data(n), m + 1, n)
  <2>1. m \in 0 .. Len(Data(n))
    BY <1>1
  <2>2. /\ SubSeq(Queue \o Data(n), 1, Len(Queue) + m) = Queue \o SubSeq(Data(n), 1, m)
        /\ SubSeq(Queue \o Data(n), Len(Queue) + m + 1, Len(Queue \o Data(n)))
             = SubSeq(Data(n), m + 1, Len(Data(n)))
    BY <1>1, <2>1, JoinCut
  <2> QED BY <1>1, <2>2, DataFacts DEF Out
<1> QED BY <1>2, <1>3, <1>5, <1>6

LEMMA OutLen ==
  ASSUME Ready, NEW n \in Nat, accepted + n <= MaxBytes PROVE Len(Out(n)) \in Nat
<1>1. Len(Out(n)) = pos + n /\ pos \in Nat
  BY OutFacts, ReadyFacts
<1> QED BY <1>1

(* Without new bytes it is the queue.                                      *)
LEMMA OutZero == ASSUME Ready PROVE Out(0) = Queue /\ accepted <= MaxBytes
<1>1. Data(0) = << >>
  BY DEF Data
<1>2. Queue \in Seq(Byte)
  BY ReadyFacts
<1>3. accepted <= MaxBytes
  BY DEF Ready, IInv, TypeOK
<1> QED BY <1>1, <1>2, <1>3, ConcatEmptySeq DEF Out

(* The device takes w of the bytes from the front of the buffer on.        *)
LEMMA QueueCut ==
  ASSUME Ready, NEW w \in 0 .. pos PROVE SubSeq(buf, 1, w) = SubSeq(Queue, 1, w)
<1>1. pos \in 0 .. size /\ size \in Nat /\ buf \in [1 .. size -> Byte]
  BY ReadyFacts
<1>2. 0 \in Nat /\ 0 <= pos /\ w \in 0 .. pos - 0 /\ 0 + 1 = 1 /\ 0 + 0 + 1 = 1 /\ 0 + w = w
  BY <1>1
<1>3. SubSeq(SubSeq(buf, 0 + 1, pos), 0 + 1, w) = SubSeq(buf, 0 + 0 + 1, 0 + w)
  BY <1>1, <1>2, CutOfCut
<1> QED BY <1>2, <1>3, Zenon DEF Queue

(* All that is on its way gets to the device, and n new bytes with it.     *)
LEMMA SendsAll ==
  ASSUME Ready, NEW n \in Nat, accepted + n <= MaxBytes,
         accepted' = accepted + n, received' = received \o Out(n),
         SubSeq(buf', 1, pos') = << >>
  PROVE  Sends(n, Len(Out(n)))
<1>1. /\ Len(Out(n)) \in Nat
      /\ SubSeq(Out(n), 1, Len(Out(n))) = Out(n)
      /\ SubSeq(Out(n), Len(Out(n)) + 1, Len(Out(n))) = << >>
  BY OutFacts, ReadyFacts
<1>2. Len(Out(n)) \in 0 .. Len(Out(n))
  BY <1>1
<1> HIDE DEF Out
<1> QED BY <1>1, <1>2 DEF Sends

(* The device takes some of the queue and the rest is dropped.             *)
LEMMA SendsSome ==
  ASSUME Ready, NEW w \in 0 .. pos, accepted' = accepted,
         received' = received \o SubSeq(buf, 1, w),
         SubSeq(buf', 1, pos') = << >>, file.fails, err'
  PROVE  Sends(0, w)
<1>1. Out(0) = Queue /\ accepted \in Nat /\ Len(Queue) = pos
  BY OutZero, ReadyFacts
<1>2. SubSeq(buf, 1, w) = SubSeq(Queue, 1, w)
  BY QueueCut
<1>3. accepted' = accepted + 0
  BY <1>1
<1> HIDE DEF Out, Queue
<1> QED BY <1>1, <1>2, <1>3 DEF Sends
-----------------------------------------------------------------------------
(* What a write of n bytes leaves in order, and what it sends.             *)
Safe ==
  /\ buf' \in [1 .. size -> Byte]
  /\ pos' \in 0 .. size
  /\ err' \in BOOLEAN
Carries(n) == \E m \in 0 .. n : \E k \in Nat : Sends(m, k)

(* writeUnlockedNone().                                                    *)
LEMMA WriteNoneSends ==
  ASSUME Ready, NEW n \in Nat, accepted + n <= MaxBytes, WriteNone(Data(n))
  PROVE  Safe /\ Carries(n)
<1>1. /\ pos \in 0 .. size /\ size \in Nat /\ buf \in [1 .. size -> Byte]
      /\ Len(Data(n)) = n /\ pos \in Nat /\ Len(Queue) = pos
      /\ Queue \in Seq(Byte) /\ received \in Seq(Byte) /\ accepted \in Nat
  BY ReadyFacts, DataFacts
<1>2. IInv
  BY DEF Ready
<1>3. pos' = 0 /\ buf' = buf
  BY DEF WriteNone
<1>4. SubSeq(buf', 1, pos') = << >>
  BY <1>3, NoCut
<1>5. err \in BOOLEAN
  BY <1>2 DEF IInv, TypeOK
<1>6. PICK w \in Answers(pos) :
        IF w.value < pos
        THEN /\ err' = TRUE
             /\ Arrives(Front(buf, w.value))
             /\ UNCHANGED accepted
        ELSE \E x \in Answers(Len(Data(n))) :
             /\ err' = (err \/ x.value < Len(Data(n)))
             /\ Arrives(Front(buf, pos) \o Front(Data(n), x.value))
             /\ accepted' = accepted + x.value
  BY DEF WriteNone, write_size
<1>8. w.value \in 0 .. pos /\ (~file.fails => w.value = pos)
  BY <1>1, <1>2, <1>6, AnswersBound
<1>9. CASE w.value < pos
  <2>1. err' = TRUE /\ Arrives(Front(buf, w.value)) /\ accepted' = accepted
    BY <1>6, <1>9
  <2>2. received' = received \o SubSeq(buf, 1, w.value)
    BY <2>1 DEF Arrives, Front
  <2>3. file.fails
    BY <1>8, <1>9, <1>1
  <2>4. Sends(0, w.value)
    BY <1>4, <1>8, <2>1, <2>2, <2>3, SendsSome
  <2>5. w.value \in Nat
    BY <1>8
  <2>6. Carries(n)
    BY <2>4, <2>5 DEF Carries
  <2> QED BY <1>1, <1>3, <2>1, <2>6 DEF Safe
<1>10. CASE ~(w.value < pos)
  <2>1. PICK x \in Answers(n) :
          /\ err' = (err \/ x.value < n)
          /\ Arrives(Front(buf, pos) \o Front(Data(n), x.value))
          /\ accepted' = accepted + x.value
    BY <1>1, <1>6, <1>10
  <2>2. x.value \in 0 .. n
    BY <1>2, AnswersBound
  <2>3. Front(Data(n), x.value) = Data(x.value)
    BY <2>2, DataFacts DEF Front
  <2>4. x.value \in Nat /\ accepted + x.value <= MaxBytes
    BY <1>1, <2>2, IOFileAssumption
  <2>5. received' = received \o Out(x.value)
    BY <2>1, <2>3 DEF Arrives, Front, Out, Queue
  <2>6. Sends(x.value, Len(Out(x.value)))
    BY <1>4, <2>1, <2>4, <2>5, SendsAll
  <2>7. Len(Out(x.value)) \in Nat
    BY <2>4, OutLen
  <2>8. Carries(n)
    BY <2>2, <2>6, <2>7 DEF Carries
  <2>9. err' \in BOOLEAN
    BY <2>1
  <2> QED BY <1>1, <1>3, <2>8, <2>9 DEF Safe
<1> QED BY <1>9, <1>10, Zenon

(* The buffer with the first m new bytes behind the pending ones, cut.     *)
Cuts(f, m) ==
  /\ \A w \in 0 .. pos : SubSeq(f, 1, w) = SubSeq(buf, 1, w)
  /\ \A c \in 0 .. m : SubSeq(f, 1, pos + c) = Out(c)

LEMMA Filled ==
  ASSUME Ready, NEW m \in Nat, accepted + m <= MaxBytes, pos + m <= size
  PROVE  /\ Put(buf, pos, Data(m)) \in [1 .. size -> Byte]
         /\ Cuts(Put(buf, pos, Data(m)), m)
<1> DEFINE f == Put(buf, pos, Data(m))
<1>1. /\ pos \in 0 .. size /\ size \in Nat /\ buf \in [1 .. size -> Byte]
      /\ Len(Queue) = pos /\ pos \in Nat
  BY ReadyFacts
<1>2. Data(m) \in Seq(Byte) /\ Len(Data(m)) = m
  BY DataFacts
<1>3. /\ f \in [1 .. size -> Byte]
      /\ SubSeq(f, 1, pos + m) = SubSeq(buf, 1, pos) \o Data(m)
      /\ \A w \in 0 .. pos : SubSeq(f, 1, w) = SubSeq(buf, 1, w)
  <2> HIDE DEF Data
  <2>1. PICK s \in Seq(Byte) : s = Data(m)
    BY <1>2
  <2>2. pos + Len(s) <= size /\ 0 \in Nat /\ 0 <= pos /\ 0 + 1 = 1
    BY <1>1, <1>2, <2>1
  <2>3. Put(buf, pos, s) \in [1 .. size -> Byte] /\ Extends(Put(buf, pos, s), buf, 0, pos, s)
    BY <1>1, <2>2, CutOfPut
  <2>4. Len(s) = m
    BY <1>2, <2>1
  <2> QED BY <2>1, <2>2, <2>3, <2>4, Zenon DEF Extends
<1>4. SubSeq(f, 1, pos + m) = Out(m)
  <2> HIDE DEF f
  <2> QED BY <1>3, Zenon DEF Out, Queue
<1> HIDE DEF f
<1>5. ASSUME NEW c \in 0 .. m PROVE SubSeq(f, 1, pos + c) = Out(c)
  <2>1. PICK q \in Nat : q = pos + m
    BY <1>1
  <2>2. PICK j \in Nat : j = pos + c
    BY <1>1
  <2>3. q \in 0 .. size /\ 0 <= q /\ j \in 0 .. q - 0 /\ 0 \in Nat
    BY <1>1, <2>1, <2>2
  <2>4. SubSeq(SubSeq(f, 0 + 1, q), 0 + 1, j) = SubSeq(f, 0 + 0 + 1, 0 + j)
    BY <1>1, <1>3, <2>3, CutOfCut
  <2>5. 0 + 1 = 1 /\ 0 + 0 + 1 = 1 /\ 0 + j = pos + c
    BY <1>1, <2>2
  <2>6. SubSeq(SubSeq(f, 1, q), 1, j) = SubSeq(f, 1, pos + c)
    BY <2>4, <2>5, Zenon
  <2>7. SubSeq(f, 1, q) = Out(m)
    BY <1>4, <2>1
  <2>8. j = Len(Queue) + c
    BY <1>1, <2>2
  <2>9. SubSeq(Out(m), 1, Len(Queue) + c) = Out(c)
    BY OutFacts
  <2> QED BY <2>6, <2>7, <2>8, <2>9, Zenon
<1>6. Cuts(f, m)
  <2> HIDE DEF Out
  <2> QED BY <1>3, <1>5, Zenon DEF Cuts
<1> QED BY <1>3, <1>6, Zenon DEF f

(* What does not fit into the buffer.                                      *)
LEMMA DataRest ==
  ASSUME Ready, NEW n \in Nat, accepted + n <= MaxBytes, NEW m \in 0 .. n
  PROVE  /\ Rest(Data(n), m) \in Seq(Byte) /\ Len(Rest(Data(n), m)) = n - m
         /\ Rest(Data(n), m) = SubSeq(Data(n), m + 1, n)
         /\ \A c \in 0 .. n - m : Data(m) \o SubSeq(Rest(Data(n), m), 1, c) = Data(m + c)
<1>1. /\ Data(n) \in Seq(Byte) /\ Len(Data(n)) = n
      /\ \A k \in 0 .. n : SubSeq(Data(n), 1, k) = Data(k)
  BY DataFacts
<1> HIDE DEF Data
<1>2. Data(n) \in [1 .. n -> Byte]
  BY <1>1, LenProperties
<1>3. m \in Nat /\ n \in 0 .. n /\ m <= n
  OBVIOUS
<1>4. /\ SubSeq(Data(n), m + 1, n) \in Seq(Byte)
      /\ Len(SubSeq(Data(n), m + 1, n)) = IF m <= n THEN n - m ELSE 0
  BY <1>2, <1>3, Cut
<1>5. Rest(Data(n), m) = SubSeq(Data(n), m + 1, n)
  BY <1>1 DEF Rest
<1>6. ASSUME NEW c \in 0 .. n - m
      PROVE  Data(m) \o SubSeq(Rest(Data(n), m), 1, c) = Data(m + c)
  <2>1. SubSeq(SubSeq(Data(n), m + 1, n), 0 + 1, c) = SubSeq(Data(n), m + 0 + 1, m + c)
    <3>1. 0 \in Nat
      OBVIOUS
    <3> QED BY <1>2, <1>3, <3>1, CutOfCut
  <2>2. 0 + 1 = 1 /\ m + 0 + 1 = m + 1
    BY <1>3
  <2>3. SubSeq(Rest(Data(n), m), 1, c) = SubSeq(Data(n), m + 1, m + c)
    BY <1>5, <2>1, <2>2, Zenon
  <2>4. PICK k \in Nat : k = m + c
    BY <1>3
  <2>5. 1 \in 1 .. Len(Data(n)) + 1 /\ m \in 1 - 1 .. Len(Data(n)) /\ k \in m .. Len(Data(n))
    BY <1>1, <1>3, <2>4
  <2>6. SubSeq(Data(n), 1, m) \o SubSeq(Data(n), m + 1, k) = SubSeq(Data(n), 1, k)
    BY <1>1, <2>5, ConcatAdjacentSubSeq
  <2>7. SubSeq(Data(n), 1, m) = Data(m) /\ SubSeq(Data(n), 1, k) = Data(k)
    BY <1>1, <1>3, <2>4
  <2> QED BY <2>3, <2>4, <2>6, <2>7
<1> QED BY <1>3, <1>4, <1>5, <1>6

(* writeUnlockedFull() when the buffer is filled and the device takes w of *)
(* its size bytes, m of them new: it falls short, ...                      *)
LEMMA FullFails ==
  ASSUME Ready, NEW n \in Nat, accepted + n <= MaxBytes, NEW m \in 0 .. n, pos + m = size,
         NEW w \in 0 .. size,
         pos' = 0, err' = TRUE, file.fails,
         received' = received \o SubSeq(Put(buf, pos, Data(m)), 1, w),
         accepted' = accepted + Claimed(w, pos)
  PROVE  Carries(n)
<1>1. pos \in Nat /\ size \in Nat /\ accepted \in Nat /\ accepted + m <= MaxBytes /\ m \in Nat
  BY ReadyFacts, IOFileAssumption
<1>2. SubSeq(buf', 1, pos') = << >>
  BY NoCut
<1>5. Cuts(Put(buf, pos, Data(m)), m)
  <2>1. pos + m <= size
    BY <1>1
  <2> QED BY <1>1, <2>1, Filled
<1>3. CASE w <= pos
  <2>1. w \in 0 .. pos /\ accepted' = accepted /\ w \in Nat
    BY <1>1, <1>3 DEF Claimed
  <2>2. received' = received \o SubSeq(buf, 1, w)
    BY <1>5, <2>1, Zenon DEF Cuts
  <2>3. Sends(0, w)
    BY <1>2, <2>1, <2>2, SendsSome
  <2> QED BY <2>1, <2>3 DEF Carries
<1>4. CASE ~(w <= pos)
  <2>1. PICK c \in Nat : c = w - pos
    BY <1>1, <1>4
  <2>2. c \in 0 .. m /\ c \in 0 .. n /\ pos + c = w /\ accepted + c <= MaxBytes
    BY <1>1, <2>1, IOFileAssumption
  <2>3. accepted' = accepted + c
    BY <1>4, <2>1 DEF Claimed
  <2>4. received' = received \o Out(c)
    <3>1. SubSeq(Put(buf, pos, Data(m)), 1, pos + c) = Out(c)
      BY <1>5, <2>2, Zenon DEF Cuts
    <3> QED BY <2>2, <3>1
  <2>5. Sends(c, Len(Out(c))) /\ Len(Out(c)) \in Nat
    BY <1>2, <2>2, <2>3, <2>4, SendsAll, OutLen
  <2> QED BY <2>2, <2>5 DEF Carries
<1> QED BY <1>3, <1>4, Zenon

(* ... or it takes all and the remainder is buffered, ...                  *)
LEMMA FullBuffers ==
  ASSUME Ready, NEW n \in Nat, accepted + n <= MaxBytes, NEW m \in 0 .. n, pos + m = size,
         n - m <= size,
         buf' = Put(Put(buf, pos, Data(m)), 0, Rest(Data(n), m)), pos' = n - m,
         received' = received \o Out(m),
         accepted' = accepted + n
  PROVE  Carries(n) /\ buf' \in [1 .. size -> Byte]
<1> DEFINE F == Put(buf, pos, Data(m))
           R == Rest(Data(n), m)
<1>1. /\ pos \in Nat /\ size \in Nat /\ accepted \in Nat
      /\ accepted + m <= MaxBytes /\ m \in Nat /\ Len(Queue) = pos
  BY ReadyFacts, IOFileAssumption
<1>2. F \in [1 .. size -> Byte]
  BY <1>1, Filled
<1>3. R \in Seq(Byte) /\ Len(R) = n - m /\ R = SubSeq(Data(n), m + 1, n)
  BY DataRest
<1>4. Put(F, 0, R) \in [1 .. size -> Byte] /\ Extends(Put(F, 0, R), F, 0, 0, R)
  <2> HIDE DEF F, R
  <2>1. 0 \in Nat /\ 0 \in 0 .. size /\ 0 <= 0 /\ 0 + Len(R) <= size
    BY <1>1, <1>3
  <2> QED BY <1>1, <1>2, <1>3, <2>1, CutOfPut
<1>5. SubSeq(Put(F, 0, R), 0 + 1, 0 + Len(R)) = SubSeq(F, 0 + 1, 0) \o R
  BY <1>4 DEF Extends
<1>6. SubSeq(F, 0 + 1, 0) = << >>
  BY NoCut
<1>7. << >> \o R = R
  BY <1>3, ConcatEmptySeq
<1>8. 0 + Len(R) = n - m
  BY <1>1, <1>3
<1>9. SubSeq(buf', 1, pos') = R
  <2> HIDE DEF F, R
  <2>1. buf' = Put(F, 0, R)
    BY DEF F, R
  <2>2. 0 + 1 = 1 /\ pos' = n - m
    OBVIOUS
  <2> QED BY <1>5, <1>6, <1>7, <1>8, <2>1, <2>2, Zenon
<1>10. PICK k \in Nat : k = Len(Queue) + m
  BY <1>1
<1>11. /\ Len(Out(n)) = pos + n
       /\ SubSeq(Out(n), 1, k) = Out(m)
       /\ SubSeq(Out(n), k + 1, Len(Out(n))) = SubSeq(Data(n), m + 1, n)
  BY <1>10, OutFacts
<1>12. k \in 0 .. Len(Out(n)) /\ n \in 0 .. n
  BY <1>1, <1>10, <1>11
<1>13. Sends(n, k)
  <2> HIDE DEF Out, F, R
  <2> QED BY <1>3, <1>9, <1>11, <1>12 DEF Sends
<1> QED BY <1>4, <1>12, <1>13 DEF Carries

(* ... or it takes all and x bytes of the remainder as well.               *)
LEMMA FullPasses ==
  ASSUME Ready, NEW n \in Nat, accepted + n <= MaxBytes, NEW m \in 0 .. n,
         NEW x \in 0 .. n - m, pos' = 0,
         received' = (received \o Out(m)) \o SubSeq(Rest(Data(n), m), 1, x),
         accepted' = accepted + m + x
  PROVE  Carries(n)
<1>1. /\ accepted \in Nat /\ accepted + m <= MaxBytes /\ m \in Nat
      /\ received \in Seq(Byte) /\ Queue \in Seq(Byte) /\ m + x \in 0 .. n
  BY ReadyFacts, IOFileAssumption
<1>2. PICK c \in Nat : c = m + x
  BY <1>1
<1>3. c \in 0 .. n /\ accepted + c <= MaxBytes /\ accepted' = accepted + c
  BY <1>1, <1>2, IOFileAssumption
<1>4. SubSeq(buf', 1, pos') = << >>
  BY NoCut
<1> DEFINE T == SubSeq(Rest(Data(n), m), 1, x)
<1>5. Data(m) \in Seq(Byte) /\ Data(m) \o T = Data(c)
  BY <1>1, <1>2, DataFacts, DataRest
<1>6. T \in Seq(Byte)
  <2>1. /\ Rest(Data(n), m) \in Seq(Byte) /\ Len(Rest(Data(n), m)) = n - m
    BY DataRest
  <2>2. PICK r \in Seq(Byte) : r = Rest(Data(n), m)
    BY <2>1
  <2>3. 1 \in Int /\ x \in Int /\ \A i \in 1 .. x : r[i] \in Byte
    BY <2>1, <2>2, ElementOfSeq
  <2>4. SubSeq(r, 1, x) \in Seq(Byte)
    BY <2>3, SubSeqProperties
  <2> QED BY <2>2, <2>4
<1> HIDE DEF T
<1>10. received \in Seq(Byte) /\ Queue \in Seq(Byte)
  BY <1>1
<1>7. (received \o Out(m)) \o T = received \o Out(c)
  <2>1. Out(m) \in Seq(Byte)
    BY <1>1, <1>5, ConcatProperties DEF Out
  <2>2. PICK t \in Seq(Byte) : t = T
    BY <1>6
  <2>3. (received \o Out(m)) \o T = received \o (Out(m) \o T)
    <3>1. PICK o \in Seq(Byte) : o = Out(m)
      BY <2>1
    <3>2. (received \o o) \o t = received \o (o \o t)
      BY <1>10, Regroup, Zenon
    <3> QED BY <2>2, <3>1, <3>2, Zenon
  <2>4. (Queue \o Data(m)) \o T = Queue \o (Data(m) \o T)
    <3>1. PICK d \in Seq(Byte) : d = Data(m)
      BY <1>5
    <3>2. (Queue \o d) \o t = Queue \o (d \o t)
      BY <1>10, Regroup, Zenon
    <3> QED BY <2>2, <3>1, <3>2, Zenon
  <2> QED BY <1>5, <2>3, <2>4, Zenon DEF Out
<1>8. received' = received \o Out(c)
  BY <1>7 DEF T
<1>9. Sends(c, Len(Out(c))) /\ Len(Out(c)) \in Nat
  BY <1>3, <1>4, <1>8, SendsAll, OutLen
<1> QED BY <1>3, <1>9 DEF Carries

(* The branches of writeUnlockedFull(), m bytes going into the buffer.     *)
Fits(n, m) ==
  /\ Rest(Data(n), m) = << >>
  /\ buf' = Put(buf, pos, Data(m)) /\ pos' = pos + m
  /\ accepted' = accepted + n
  /\ UNCHANGED <<err, received>>

Takings(n, m, w) ==
  LET F == Put(buf, pos, Data(m))
      R == Rest(Data(n), m)
  IN \/ /\ Failed(w, pos + m)
        /\ pos' = 0 /\ err' = TRUE
        /\ Arrives(Front(F, w.value))
        /\ accepted' = accepted + Claimed(w.value, pos)
        /\ buf' = Disown(F, accepted')
     \/ /\ ~Failed(w, pos + m) /\ Len(R) < size
        /\ buf' = Put(F, 0, R) /\ pos' = Len(R)
        /\ Arrives(Front(F, w.value))
        /\ accepted' = accepted + n
        /\ UNCHANGED err
     \/ /\ ~Failed(w, pos + m) /\ ~(Len(R) < size)
        /\ \E x \in Answers(Len(R)) :
             /\ buf' = F /\ pos' = 0
             /\ err' = (err \/ Failed(x, Len(R)))
             /\ Arrives(Front(F, w.value) \o Front(R, x.value))
             /\ accepted' = accepted + m + x.value

LEMMA FullCases ==
  ASSUME Ready, NEW n \in Nat, accepted + n <= MaxBytes, WriteFull(Data(n))
  PROVE  \/ WriteNone(Data(n))
         \/ \E m \in 0 .. n :
              /\ pos + m <= size
              /\ \/ Fits(n, m)
                 \/ m < n /\ pos + m = size /\ \E w \in Answers(size) : Takings(n, m, w)
<1>1. pos \in 0 .. size /\ size \in Nat /\ pos \in Nat
  BY ReadyFacts
<1>2. Len(Data(n)) = n
  BY DataFacts
<1>3. PICK m \in Nat : m = Lesser(n, size - pos)
  BY <1>1 DEF Lesser
<1>4. m \in 0 .. n /\ pos + m <= size
  BY <1>1, <1>3 DEF Lesser
<1>5. Front(Data(n), m) = Data(m)
  BY <1>4, DataFacts DEF Front
<1>6. Len(Rest(Data(n), m)) = n - m
  BY <1>4, DataRest
<1>7. ASSUME Rest(Data(n), m) # << >> PROVE m < n /\ pos + m = size
  <2>1. m < n
    <3>1. SUFFICES ASSUME m = n PROVE FALSE
      BY <1>4
    <3>2. Rest(Data(n), n) = SubSeq(Data(n), n + 1, n)
      BY <1>2 DEF Rest
    <3>3. SubSeq(Data(n), n + 1, n) = << >>
      BY NoCut
    <3> QED BY <1>7, <3>1, <3>2, <3>3
  <2> QED BY <1>1, <1>3, <2>1 DEF Lesser
<1> HIDE DEF Data
<1>8. CASE Len(Data(n)) > size - pos + size
  <2>1. WriteNone(Data(n))
    BY <1>8 DEF WriteFull
  <2> QED BY <2>1
<1>9. CASE ~(Len(Data(n)) > size - pos + size) /\ Rest(Data(n), m) = << >>
  <2>1. Fits(n, m)
    BY <1>2, <1>3, <1>5, <1>9, Zenon DEF WriteFull, Fits
  <2> QED BY <1>4, <2>1
<1>10. CASE ~(Len(Data(n)) > size - pos + size) /\ Rest(Data(n), m) # << >>
  <2>1. PICK w \in Answers(size) : Takings(n, m, w)
    BY <1>2, <1>3, <1>5, <1>10, Zenon DEF WriteFull, Takings
  <2> QED BY <1>4, <1>7, <1>10, <2>1
<1> QED BY <1>8, <1>9, <1>10, Zenon

LEMMA FitsSends ==
  ASSUME Ready, NEW n \in Nat, accepted + n <= MaxBytes, NEW m \in 0 .. n, pos + m <= size,
         Fits(n, m)
  PROVE  Safe /\ Carries(n)
<1>1. /\ pos \in 0 .. size /\ size \in Nat /\ accepted \in Nat
      /\ received \in Seq(Byte) /\ pos \in Nat
  BY ReadyFacts
<1>2. m = n
  <2>1. Len(Rest(Data(n), m)) = n - m /\ Rest(Data(n), m) = << >>
    BY DataRest DEF Fits
  <2>2. Len(<< >>) = 0
    OBVIOUS
  <2>3. n - m = 0
    BY <2>1, <2>2, Zenon
  <2> QED BY <2>3
<1>3. /\ buf' = Put(buf, pos, Data(n)) /\ pos' = pos + n
      /\ accepted' = accepted + n /\ err' = err
      /\ received' = received
  BY <1>2, Zenon DEF Fits
<1>4. pos + n <= size
  BY <1>2
<1>5. buf' \in [1 .. size -> Byte] /\ Cuts(Put(buf, pos, Data(n)), n)
  BY <1>3, <1>4, Filled
<1>6. SubSeq(buf', 1, pos') = Out(n)
  <2>1. n \in 0 .. n
    OBVIOUS
  <2> QED BY <1>3, <1>5, <2>1, Zenon DEF Cuts
<1>7. /\ Out(n) \in Seq(Byte) /\ Len(Out(n)) \in Nat
      /\ SubSeq(Out(n), 1, Len(Out(n))) = Out(n) /\ SubSeq(Out(n), 1, 0) = << >>
  BY OutFacts, OutLen
<1>8. received' = received \o SubSeq(Out(n), 1, 0)
  BY <1>1, <1>3, <1>7, ConcatEmptySeq
<1>9. 0 \in 0 .. Len(Out(n)) /\ 0 + 1 = 1
  BY <1>7
<1>10. SubSeq(buf', 1, pos') = SubSeq(Out(n), 0 + 1, Len(Out(n)))
  <2> HIDE DEF Out
  <2> QED BY <1>6, <1>7, <1>9, Zenon
<1>11. Sends(n, 0)
  <2> HIDE DEF Out
  <2> QED BY <1>3, <1>8, <1>9, <1>10, Zenon DEF Sends
<1>12. n \in 0 .. n /\ 0 \in Nat
  OBVIOUS
<1>13. Carries(n)
  BY <1>11, <1>12, Zenon DEF Carries
<1>14. err \in BOOLEAN
  BY DEF Ready, IInv, TypeOK
<1>15. pos' \in 0 .. size
  BY <1>1, <1>3, <1>4
<1> QED BY <1>3, <1>5, <1>13, <1>14, <1>15 DEF Safe

(* A buffer without the bytes nobody reported is a buffer.                 *)
LEMMA Disowned ==
  ASSUME NEW N \in Nat, NEW b \in [1 .. N -> Byte], NEW a \in Nat
  PROVE  /\ Disown(b, a) \in [1 .. N -> Byte]
         /\ \A i \in 1 .. N : Disown(b, a)[i] <= a
<1>1. 0 \in Byte
  BY IOFileAssumption DEF Byte
<1>2. Byte \subseteq Int
  BY IOFileAssumption DEF Byte
<1>3. \A i \in 1 .. N : Disown(b, a)[i] = IF b[i] > a THEN 0 ELSE b[i]
  BY DEF Disown
<1>4. \A i \in 1 .. N : b[i] \in Byte /\ b[i] \in Int
  BY <1>2
<1>5. Disown(b, a) \in [1 .. N -> Byte]
  <2> HIDE DEF Byte
  <2> QED BY <1>1, <1>4 DEF Disown
<1> HIDE DEF Byte
<1> QED BY <1>3, <1>4, <1>5

LEMMA TakingsSends ==
  ASSUME Ready, NEW n \in Nat, accepted + n <= MaxBytes, NEW m \in 0 .. n, pos + m = size,
         m < n, NEW w \in Answers(size), Takings(n, m, w)
  PROVE  Safe /\ Carries(n)
<1> DEFINE F == Put(buf, pos, Data(m))
           R == Rest(Data(n), m)
<1>1. /\ pos \in 0 .. size /\ size \in Nat /\ accepted \in Nat
      /\ pos \in Nat /\ m \in Nat /\ accepted + m <= MaxBytes
  BY ReadyFacts, IOFileAssumption
<1>2. IInv /\ err \in BOOLEAN
  BY DEF Ready, IInv, TypeOK
<1>3. w.value \in 0 .. size /\ w.isErr \in BOOLEAN
      /\ (~file.fails => w.value = size /\ w.isErr = FALSE)
  BY <1>1, <1>2, AnswersBound
<1>4. F \in [1 .. size -> Byte] /\ Cuts(F, m)
  BY <1>1, Filled
<1>5. R \in Seq(Byte) /\ Len(R) = n - m
  BY DataRest
<1>9. CASE /\ Failed(w, pos + m)
           /\ pos' = 0 /\ err' = TRUE
           /\ Arrives(Front(F, w.value))
           /\ accepted' = accepted + Claimed(w.value, pos)
           /\ buf' = Disown(F, accepted')
  <2>1. PICK v \in 0 .. size : v = w.value
    BY <1>3
  <2>2. file.fails
    <3>1. w.isErr \/ w.value < size
      BY <1>9 DEF Failed
    <3> QED BY <1>1, <1>3, <3>1
  <2>3. received' = received \o SubSeq(Put(buf, pos, Data(m)), 1, v)
    BY <1>9, <2>1, Zenon DEF Arrives, Front, F
  <2>4. accepted' = accepted + Claimed(v, pos) /\ accepted' \in Nat
    BY <1>1, <1>9, <2>1 DEF Claimed
  <2>5. Carries(n)
    <3>1. pos' = 0 /\ err' = TRUE
      BY <1>9
    <3> QED BY <2>2, <2>3, <2>4, <3>1, FullFails
  <2>6. buf' \in [1 .. size -> Byte]
    <3> HIDE DEF F
    <3>1. Disown(F, accepted') \in [1 .. size -> Byte]
      BY <1>1, <1>4, <2>4, Disowned
    <3> QED BY <1>9, <3>1, Zenon
  <2> HIDE DEF F
  <2> QED BY <1>1, <1>9, <2>5, <2>6 DEF Safe
<1>10. ASSUME ~Failed(w, pos + m) PROVE Front(F, w.value) = Out(m)
  <2>1. w.value = pos + m
    <3>1. ~(w.value < size)
      BY <1>10 DEF Failed
    <3> QED BY <1>1, <1>3, <3>1
  <2>2. SubSeq(F, 1, pos + m) = Out(m)
    <3>1. m \in 0 .. m
      BY <1>1
    <3> QED BY <1>4, <3>1, Zenon DEF Cuts
  <2> HIDE DEF F
  <2> QED BY <2>1, <2>2 DEF Front
<1>11. CASE /\ ~Failed(w, pos + m) /\ Len(R) < size
            /\ buf' = Put(F, 0, R) /\ pos' = Len(R)
            /\ Arrives(Front(F, w.value))
            /\ accepted' = accepted + n
            /\ UNCHANGED err
  <2>1. received' = received \o Out(m)
    <3> HIDE DEF F, Out
    <3> QED BY <1>10, <1>11 DEF Arrives
  <2>2. n - m <= size /\ pos' = n - m /\ n - m \in 0 .. size
    BY <1>1, <1>5, <1>11
  <2>3. Carries(n) /\ buf' \in [1 .. size -> Byte]
    BY <1>11, <2>1, <2>2, FullBuffers
  <2>4. pos' \in 0 .. size /\ err' \in BOOLEAN
    BY <1>2, <1>11, <2>2
  <2> QED BY <2>3, <2>4 DEF Safe
<1>12. CASE /\ ~Failed(w, pos + m) /\ ~(Len(R) < size)
            /\ \E x \in Answers(Len(R)) :
                 /\ buf' = F /\ pos' = 0
                 /\ err' = (err \/ Failed(x, Len(R)))
                 /\ Arrives(Front(F, w.value) \o Front(R, x.value))
                 /\ accepted' = accepted + m + x.value
  <2>1. PICK x \in Answers(n - m) :
                 /\ buf' = F /\ pos' = 0
                 /\ err' = (err \/ Failed(x, n - m))
                 /\ Arrives(Front(F, w.value) \o Front(R, x.value))
                 /\ accepted' = accepted + m + x.value
    <3> HIDE DEF F, R
    <3> QED BY <1>5, <1>12, Zenon
  <2>2. PICK r \in Nat : r = n - m
    BY <1>1
  <2>3. x.value \in 0 .. r /\ x.isErr \in BOOLEAN
    BY <1>2, <2>1, <2>2, AnswersBound
  <2>4. PICK v \in 0 .. n - m : v = x.value
    BY <2>2, <2>3
  <2>5. received' = received \o (Out(m) \o SubSeq(R, 1, v))
    <3> HIDE DEF F, R, Out
    <3> QED BY <1>10, <1>12, <2>1, <2>4, Zenon DEF Arrives, Front
  <2>6. received' = (received \o Out(m)) \o SubSeq(Rest(Data(n), m), 1, v)
    <3>1. received \in Seq(Byte) /\ Out(m) \in Seq(Byte)
      BY <1>1, ReadyFacts, OutFacts
    <3>2. SubSeq(R, 1, v) \in Seq(Byte)
      <4>1. PICK q \in Seq(Byte) : q = R
        BY <1>5
      <4>2. 1 \in Int /\ v \in Int /\ \A i \in 1 .. v : q[i] \in Byte
        BY <1>1, <1>5, <4>1, ElementOfSeq
      <4>3. SubSeq(q, 1, v) \in Seq(Byte)
        BY <4>2, SubSeqProperties
      <4> QED BY <4>1, <4>3
    <3> DEFINE T == SubSeq(R, 1, v)
               O == Out(m)
    <3>3. O \in Seq(Byte) /\ T \in Seq(Byte)
      BY <3>1, <3>2
    <3>4. received' = received \o (O \o T)
      BY <2>5
    <3> HIDE DEF T, O
    <3>5. (received \o O) \o T = received \o (O \o T)
      BY <3>1, <3>3, Regroup
    <3> QED BY <3>4, <3>5, Zenon DEF T, O
  <2>7. accepted' = accepted + m + v
    BY <2>1, <2>4
  <2>8. Carries(n)
    <3>1. pos' = 0
      BY <2>1
    <3> QED BY <2>6, <2>7, <3>1, FullPasses
  <2>9. err' \in BOOLEAN
    BY <2>1
  <2>10. buf' \in [1 .. size -> Byte] /\ pos' = 0
    BY <1>4, <2>1
  <2> QED BY <1>1, <2>8, <2>9, <2>10 DEF Safe
<1> QED BY <1>9, <1>11, <1>12, Zenon DEF Takings

LEMMA WriteSends ==
  ASSUME Ready, NEW n \in Nat, accepted + n <= MaxBytes, WriteUnlocked(Data(n))
  PROVE  Safe /\ Carries(n)
<1>1. CASE WriteNone(Data(n))
  BY <1>1, WriteNoneSends
<1>2. CASE WriteFull(Data(n))
  <2>1. PICK m \in 0 .. n : \/ WriteNone(Data(n))
                           \/ (pos + m <= size /\ Fits(n, m))
                           \/ (m < n /\ pos + m = size
                               /\ \E w \in Answers(size) : Takings(n, m, w))
    <3>1. 0 \in 0 .. n
      OBVIOUS
    <3> QED BY <1>2, <3>1, FullCases, Zenon
  <2> QED BY <1>1, <2>1, FitsSends, TakingsSends, Zenon
<1> QED BY <1>1, <1>2, Zenon DEF WriteUnlocked
-----------------------------------------------------------------------------
(* A file from which a client may read.                                    *)
(* A file from which a client may read.                                    *)
Readable == IInv /\ isOpen /\ (last_op = "Read" \/ pos = 0)

(* What is on its way to the clients, r bytes from the device, and both.   *)
Ahead    == SubSeq(buf, pos + 1, read_limit)
Given(r) == [i \in 1 .. r |-> -(fetched + i)]
In(r)    == Ahead \o Given(r)

(* The device gives r bytes and the clients get k.                         *)
Receives(r, k) ==
  /\ r \in Nat /\ k \in 0 .. Len(In(r))
  /\ fetched' = fetched + r /\ fetched' <= MaxBytes
  /\ delivered' = delivered \o SubSeq(In(r), 1, k)
  /\ SubSeq(buf', pos' + 1, read_limit') = SubSeq(In(r), k + 1, Len(In(r)))

(* What a read leaves in order.                                            *)
Placed ==
  /\ buf' \in [1 .. size -> Byte]
  /\ pos' \in 0 .. read_limit' /\ read_limit' \in 0 .. size
  /\ pos' = 0 => read_limit' = 0
  /\ err' \in BOOLEAN /\ eof' \in BOOLEAN
  /\ delivered' \in Seq(Byte)

LEMMA SmallRemainder == ASSUME NEW W \in Nat, NEW x \in Nat, x < W PROVE x % W = x
  OBVIOUS

LEMMA ReadableFacts ==
  ASSUME Readable
  PROVE  /\ read_limit \in 0 .. size /\ pos \in 0 .. read_limit /\ (pos = 0 => read_limit = 0)
         /\ size = InitSize /\ size \in Nat /\ buf \in [1 .. size -> Byte]
         /\ Ahead \in Seq(Byte) /\ Len(Ahead) = read_limit - pos
         /\ fetched \in Nat /\ accepted \in Nat /\ delivered \in Seq(Byte)
         /\ fetched <= MaxBytes /\ MaxBytes \in Nat
         /\ (read_limit - pos) % Word = read_limit - pos
<1>1. size = InitSize /\ InitSize \in Nat /\ buf \in [1 .. size -> Byte]
  BY Sizes DEF Readable, IInv, TypeOK
<1>2. pos \in 0 .. size /\ read_limit \in 0 .. size
  BY <1>1 DEF Readable, IInv, TypeOK
<1>3. pos <= read_limit /\ (pos = 0 => read_limit = 0)
  <2>1. CASE last_op = "Read"
    BY <2>1 DEF Readable, IInv, CursorsInBuffer
  <2>2. CASE last_op # "Read"
    BY <2>2 DEF Readable, IInv, CursorsInBuffer
  <2> QED BY <2>1, <2>2, Zenon
<1>4. Ahead \in Seq(Byte) /\ Len(Ahead) = read_limit - pos
  <2>1. pos \in Nat /\ pos <= read_limit
    BY <1>2, <1>3
  <2> QED BY <1>1, <1>2, <2>1, Cut DEF Ahead
<1>5. (read_limit - pos) % Word = read_limit - pos
  <2>1. Word \in Nat /\ InitSize < Word
    BY Sizes, IOFileAssumption DEF Readable
  <2>2. PICK x \in Nat : x = read_limit - pos
    BY <1>1, <1>2, <1>3
  <2>3. x < Word
    BY <1>1, <1>2, <2>1, <2>2
  <2> QED BY <2>1, <2>2, <2>3, SmallRemainder, Zenon
<1>6. /\ fetched \in Nat /\ accepted \in Nat /\ delivered \in Seq(Byte) /\ fetched <= MaxBytes
      /\ MaxBytes \in Nat
  BY IOFileAssumption DEF Readable, IInv, TypeOK
<1> QED BY <1>1, <1>2, <1>3, <1>4, <1>5, <1>6

LEMMA GivenFacts ==
  ASSUME Readable, NEW r \in Nat, fetched + r <= MaxBytes
  PROVE  /\ Given(r) \in Seq(Byte) /\ Len(Given(r)) = r
         /\ \A u \in 0 .. r : SubSeq(Given(r), 1, u) = Given(u)
<1>1. fetched \in Nat /\ MaxBytes \in Nat
  BY ReadableFacts
<1>2. Given(r) \in [1 .. r -> Byte]
  BY <1>1 DEF Given, Byte
<1>3. ASSUME NEW u \in 0 .. r PROVE SubSeq(Given(r), 1, u) = Given(u)
  <2>1. SubSeq(Given(r), 1, u) = [i \in 1 .. u |-> Given(r)[i]]
    BY <1>2, Beginning
  <2> QED BY <2>1 DEF Given
<1>4. r \in 0 .. r
  OBVIOUS
<1> QED BY <1>2, <1>3, <1>4, Beginning

LEMMA InFacts ==
  ASSUME Readable, NEW r \in Nat, fetched + r <= MaxBytes
  PROVE  /\ In(r) \in Seq(Byte) /\ Len(In(r)) = read_limit - pos + r
         /\ \A u \in 0 .. r :
              /\ SubSeq(In(r), 1, Len(Ahead) + u) = Ahead \o Given(u)
              /\ SubSeq(In(r), Len(Ahead) + u + 1, Len(In(r))) = SubSeq(Given(r), u + 1, r)
<1>1. Ahead \in Seq(Byte) /\ Len(Ahead) = read_limit - pos /\ Given(r) \in Seq(Byte) /\ Len(Given(r)) = r
  BY ReadableFacts, GivenFacts
<1>2. In(r) \in Seq(Byte) /\ Len(In(r)) = read_limit - pos + r
  BY <1>1, ConcatProperties DEF In
<1>3. ASSUME NEW u \in 0 .. r
      PROVE  /\ SubSeq(In(r), 1, Len(Ahead) + u) = Ahead \o Given(u)
             /\ SubSeq(In(r), Len(Ahead) + u + 1, Len(In(r))) = SubSeq(Given(r), u + 1, r)
  <2>1. u \in 0 .. Len(Given(r))
    BY <1>1
  <2>2. /\ SubSeq(Ahead \o Given(r), 1, Len(Ahead) + u) = Ahead \o SubSeq(Given(r), 1, u)
        /\ SubSeq(Ahead \o Given(r), Len(Ahead) + u + 1, Len(Ahead \o Given(r)))
             = SubSeq(Given(r), u + 1, Len(Given(r)))
    BY <1>1, <2>1, JoinCut
  <2> QED BY <1>1, <2>2, GivenFacts DEF In
<1> QED BY <1>2, <1>3

LEMMA InZero == ASSUME Readable PROVE In(0) = Ahead
<1>1. Given(0) = << >> /\ Ahead \in Seq(Byte)
  BY ReadableFacts DEF Given
<1> QED BY <1>1, ConcatEmptySeq DEF In

(* A read that finds enough in the buffer.                                 *)
LEMMA ReadHeld ==
  ASSUME Readable, NEW n \in Nat, n <= read_limit - pos,
         pos' = pos + n, delivered' = delivered \o SubSeq(buf, pos + 1, pos + n),
         buf' = buf, read_limit' = read_limit, err' = err, eof' = eof, fetched' = fetched
  PROVE  Placed /\ Receives(0, n)
<1>1. /\ read_limit \in 0 .. size /\ pos \in 0 .. read_limit /\ (pos = 0 => read_limit = 0)
      /\ size \in Nat /\ buf \in [1 .. size -> Byte] /\ pos \in Nat /\ pos <= read_limit
      /\ Ahead \in Seq(Byte) /\ Len(Ahead) = read_limit - pos /\ delivered \in Seq(Byte)
      /\ fetched \in Nat /\ fetched <= MaxBytes
  BY ReadableFacts
<1>2. PICK l \in Nat : l = read_limit - pos
  BY <1>1
<1>3. n \in 0 .. read_limit - pos /\ l \in 0 .. read_limit - pos /\ 0 \in Nat
  BY <1>1, <1>2
<1>4. SubSeq(SubSeq(buf, pos + 1, read_limit), 0 + 1, n) = SubSeq(buf, pos + 0 + 1, pos + n)
  BY <1>1, <1>3, CutOfCut
<1>5. SubSeq(SubSeq(buf, pos + 1, read_limit), n + 1, l) = SubSeq(buf, pos + n + 1, pos + l)
  BY <1>1, <1>3, CutOfCut
<1>6. 0 + 1 = 1 /\ pos + 0 + 1 = pos + 1 /\ pos + l = read_limit /\ fetched + 0 = fetched
  BY <1>1, <1>2
<1>7. SubSeq(In(0), 1, n) = SubSeq(buf, pos + 1, pos + n)
  BY <1>4, <1>6, InZero, Zenon DEF Ahead
<1>8. SubSeq(In(0), n + 1, Len(In(0))) = SubSeq(buf', pos' + 1, read_limit')
  BY <1>1, <1>2, <1>5, <1>6, InZero, Zenon DEF Ahead
<1>9. n \in 0 .. Len(In(0)) /\ fetched' <= MaxBytes
  <2>1. n \in 0 .. Len(Ahead)
    BY <1>1, <1>3
  <2> QED BY <1>1, <2>1, InZero, Zenon
<1>10. Receives(0, n)
  <2> HIDE DEF In
  <2> QED BY <1>3, <1>6, <1>7, <1>8, <1>9, Zenon DEF Receives
<1>11. delivered' \in Seq(Byte)
  <2>1. pos + n \in 0 .. size /\ pos \in Nat
    BY <1>1, <1>3
  <2>2. PICK p \in 0 .. size : p = pos + n
    BY <2>1
  <2>3. SubSeq(buf, pos + 1, p) \in Seq(Byte)
    BY <1>1, <2>1, Cut
  <2> QED BY <1>1, <2>2, <2>3, ConcatProperties
<1>12. pos' \in 0 .. read_limit' /\ read_limit' \in 0 .. size /\ (pos' = 0 => read_limit' = 0)
  BY <1>1, <1>3
<1>13. err' \in BOOLEAN /\ eof' \in BOOLEAN /\ buf' \in [1 .. size -> Byte]
  BY <1>1 DEF Readable, IInv, TypeOK
<1> QED BY <1>10, <1>11, <1>12, <1>13 DEF Placed

(* A read that goes to the device, which gives r bytes of which u go on to *)
(* the client.                                                             *)
LEMMA Fetched ==
  ASSUME Readable, NEW r \in Nat, NEW u \in 0 .. r, fetched + r <= MaxBytes,
         fetched' = fetched + r,
         delivered' = (delivered \o Ahead) \o Given(u),
         SubSeq(buf', pos' + 1, read_limit') = SubSeq(Given(r), u + 1, r)
  PROVE  /\ \E k \in Nat : Receives(r, k)
         /\ delivered' \in Seq(Byte)
<1>1. /\ read_limit \in Nat /\ pos \in 0 .. read_limit
      /\ Ahead \in Seq(Byte) /\ Len(Ahead) = read_limit - pos /\ delivered \in Seq(Byte)
      /\ fetched \in Nat /\ MaxBytes \in Nat
  BY ReadableFacts
<1>2. u \in Nat /\ fetched + u <= MaxBytes
  BY <1>1
<1>3. Given(u) \in Seq(Byte)
  BY <1>2, GivenFacts
<1>4. (delivered \o Ahead) \o Given(u) = delivered \o (Ahead \o Given(u))
  BY <1>1, <1>3, Regroup, Zenon
<1>5. PICK k \in Nat : k = Len(Ahead) + u
  BY <1>1
<1>6. Len(In(r)) = read_limit - pos + r
      /\ SubSeq(In(r), 1, k) = Ahead \o Given(u)
      /\ SubSeq(In(r), k + 1, Len(In(r))) = SubSeq(Given(r), u + 1, r)
  BY <1>5, InFacts
<1>7. k \in 0 .. Len(In(r))
  BY <1>1, <1>5, <1>6
<1>8. fetched' <= MaxBytes
  OBVIOUS
<1>9. Receives(r, k)
  <2> HIDE DEF In, Ahead, Given
  <2> QED BY <1>4, <1>6, <1>7, <1>8, Zenon DEF Receives
<1>10. Ahead \o Given(u) \in Seq(Byte)
  BY <1>1, <1>3, ConcatProperties
<1>11. delivered \o (Ahead \o Given(u)) \in Seq(Byte)
  BY <1>1, <1>10, ConcatProperties
<1> QED BY <1>4, <1>9, <1>11

LEMMA ReadReceives ==
  ASSUME Readable, NEW n \in Nat, Read(n)
  PROVE  Placed /\ \E r, k \in Nat : Receives(r, k)
<1> DEFINE a == read_limit - pos
           t == n - a
<1>1. /\ read_limit \in 0 .. size /\ pos \in 0 .. read_limit /\ pos \in Nat /\ read_limit \in Nat
      /\ size \in Nat /\ buf \in [1 .. size -> Byte] /\ (read_limit - pos) % Word = a
      /\ a \in Nat /\ accepted \in Nat /\ fetched \in Nat /\ MaxBytes \in Nat
  BY ReadableFacts
<1>2. IInv /\ err \in BOOLEAN /\ eof \in BOOLEAN
  BY DEF Readable, IInv, TypeOK
<1>3. CASE n <= a
  <2>1. Lesser(n, a) = n
    BY <1>1, <1>3 DEF Lesser
  <2>2. /\ pos' = pos + n /\ delivered' = delivered \o SubSeq(buf, pos + 1, pos + n)
        /\ buf' = buf /\ read_limit' = read_limit /\ err' = err /\ eof' = eof
        /\ fetched' = fetched
    <3> HIDE DEF a
    <3> QED BY <1>1, <1>3, <2>1, Zenon DEF Read
  <2>3. Placed /\ Receives(0, n)
    BY <1>3, <2>2, ReadHeld
  <2>4. 0 \in Nat
    OBVIOUS
  <2> QED BY <2>3, <2>4
<1>4. CASE ~(n <= a)
  <2>2. t \in Nat /\ t > 0
    BY <1>1, <1>4
  <2>1. PICK q \in Nat : q = IF t > size THEN t ELSE size
    <3> HIDE DEF t
    <3>1. (IF t > size THEN t ELSE size) \in Nat
      BY <1>1, <2>2
    <3> QED BY <3>1, Zenon
  <2>3. Lesser(n, a) = a /\ pos + a = read_limit
    BY <1>1, <1>4 DEF Lesser
  <2>4. PICK w \in Answers(q) :
          /\ accepted + fetched + w.value <= Bound
          /\ fetched' = fetched + w.value
          /\ delivered' = delivered \o SubSeq(buf, pos + 1, pos + a)
                          \o [i \in 1 .. Lesser(w.value, t) |-> -(fetched + i)]
          /\ err' = (err \/ (Failed(w, t) /\ w.isErr))
          /\ eof' = (eof \/ (Failed(w, t) /\ ~w.isErr))
          /\ IF t > size
             THEN pos' = 0 /\ read_limit' = 0 /\ buf' = buf
             ELSE /\ pos' = Lesser(w.value, t) /\ read_limit' = w.value
                  /\ buf' = Put(buf, 0, [i \in 1 .. w.value |-> -(fetched + i)])
    <3> HIDE DEF a
    <3> QED BY <1>1, <1>4, <2>1, <2>3, Zenon DEF Read
  <2>5. w.value \in 0 .. q
    BY <1>2, AnswersBound
  <2>6. PICK r \in Nat : r = w.value
    BY <2>5
  <2>7. PICK u \in Nat : u = Lesser(r, t)
    BY <2>2, <2>6 DEF Lesser
  <2>8. u \in 0 .. r /\ (u = 0 => r = 0) /\ fetched + r <= MaxBytes
    <3>1. accepted + fetched + r <= Bound
      BY <2>4, <2>6, Zenon
    <3> HIDE DEF t
    <3>2. u \in 0 .. r /\ (u = 0 => r = 0)
      BY <2>2, <2>7 DEF Lesser
    <3> QED BY <1>1, <3>1, <3>2, Bounded
  <2>9. /\ fetched' = fetched + r
        /\ delivered' = (delivered \o Ahead) \o Given(u)
        /\ err' \in BOOLEAN /\ eof' \in BOOLEAN
    <3>1. delivered' = (delivered \o Ahead) \o Given(u)
      BY <2>3, <2>4, <2>6, <2>7, Zenon DEF Ahead, Given
    <3>2. err' \in BOOLEAN /\ eof' \in BOOLEAN
      BY <2>4
    <3> QED BY <2>4, <2>6, <3>1, <3>2
  <2>10. /\ SubSeq(buf', pos' + 1, read_limit') = SubSeq(Given(r), u + 1, r)
         /\ buf' \in [1 .. size -> Byte]
         /\ pos' \in 0 .. read_limit' /\ read_limit' \in 0 .. size
         /\ (pos' = 0 => read_limit' = 0)
    <3>1. CASE t > size
      <4>1. u = r
        BY <2>1, <2>2, <2>5, <2>6, <2>7, <3>1 DEF Lesser
      <4>2. SubSeq(Given(r), u + 1, r) = << >>
        BY <4>1, NoCut
      <4>3. pos' = 0 /\ read_limit' = 0 /\ buf' = buf
        BY <2>4, <3>1
      <4>4. SubSeq(buf', pos' + 1, read_limit') = << >>
        BY <4>3, NoCut
      <4>5. SubSeq(buf', pos' + 1, read_limit') = SubSeq(Given(r), u + 1, r)
            /\ buf' \in [1 .. size -> Byte]
        BY <1>1, <4>2, <4>3, <4>4, Zenon
      <4>6. pos' \in 0 .. read_limit' /\ read_limit' \in 0 .. size /\ (pos' = 0 => read_limit' = 0)
        BY <1>1, <4>3
      <4> QED BY <4>5, <4>6, Zenon
    <3>2. CASE ~(t > size)
      <4>1. r \in 0 .. size
        BY <2>1, <2>5, <2>6, <3>2
      <4>2. pos' = u /\ read_limit' = r /\ buf' = Put(buf, 0, Given(r))
        BY <2>4, <2>6, <2>7, <3>2, Zenon DEF Given
      <4>3. Given(r) \in Seq(Byte) /\ Len(Given(r)) = r
        BY <2>8, GivenFacts
      <4>4. PICK s \in Seq(Byte) : s = Given(r) /\ Len(s) = r
        BY <4>3, Zenon
      <4>5. Put(buf, 0, s) \in [1 .. size -> Byte] /\ Extends(Put(buf, 0, s), buf, 0, 0, s)
        <5>1. 0 \in Nat /\ 0 \in 0 .. size /\ 0 <= 0 /\ 0 + Len(s) <= size
          BY <1>1, <4>1, <4>4
        <5> QED BY <1>1, <5>1, CutOfPut
      <4>6. SubSeq(Put(buf, 0, s), 0 + 1, 0 + Len(s)) = SubSeq(buf, 0 + 1, 0) \o s
        BY <4>5 DEF Extends
      <4>7. SubSeq(buf, 0 + 1, 0) = << >> /\ << >> \o s = s
        BY NoCut, ConcatEmptySeq
      <4>8. 0 + Len(s) = r /\ 0 + u + 1 = u + 1 /\ 0 + r = r
        BY <4>4
      <4>9. SubSeq(buf', 0 + 1, r) = Given(r) /\ buf' \in [1 .. size -> Byte]
        BY <4>2, <4>4, <4>5, <4>6, <4>7, <4>8, Zenon
      <4>10. SubSeq(SubSeq(buf', 0 + 1, r), u + 1, r) = SubSeq(buf', 0 + u + 1, 0 + r)
        <5>1. 0 \in Nat /\ 0 <= r /\ r \in 0 .. r - 0
          BY <4>1
        <5> QED BY <1>1, <4>1, <4>9, <5>1, CutOfCut
      <4>11. SubSeq(buf', pos' + 1, read_limit') = SubSeq(Given(r), u + 1, r)
        BY <4>2, <4>8, <4>9, <4>10, Zenon
      <4>12. pos' \in 0 .. read_limit' /\ read_limit' \in 0 .. size /\ (pos' = 0 => read_limit' = 0)
        BY <2>8, <4>1, <4>2
      <4> QED BY <4>9, <4>11, <4>12
    <3> QED BY <3>1, <3>2, Zenon
  <2>11. (\E k \in Nat : Receives(r, k)) /\ delivered' \in Seq(Byte)
    BY <2>8, <2>9, <2>10, Fetched
  <2>12. Placed
    BY <2>9, <2>10, <2>11 DEF Placed
  <2> QED BY <2>11, <2>12
<1> QED BY <1>3, <1>4, Zenon
-----------------------------------------------------------------------------
(* The operations.                                                         *)
LEMMA WriteStep ==
  ASSUME IInv, NEW n \in 0 .. MaxLen, MayTurnTo("Write"), Write(n)
  PROVE  Ready /\ Safe /\ Carries(n) /\ n \in Nat /\ accepted + n <= MaxBytes
<1>1. accepted \in Nat /\ fetched \in Nat /\ MaxBytes \in Nat /\ MaxLen \in Nat
  BY IOFileAssumption DEF IInv, TypeOK
<1>2. n \in Nat
  BY <1>1
<1>3. isOpen /\ accepted + fetched + n <= Bound /\ WriteUnlocked(Data(n))
  BY Zenon DEF Write, Data
<1>4. accepted + n <= MaxBytes
  BY <1>1, <1>2, <1>3, Bounded
<1>5. last_op = "Write" \/ pos = 0
  <2>1. CASE last_op = "None"
    BY <1>3, <2>1 DEF IInv, CursorsInBuffer
  <2> QED BY <2>1 DEF MayTurnTo
<1>6. Ready
  BY <1>3, <1>5, Zenon DEF Ready
<1> QED BY <1>2, <1>3, <1>4, <1>6, WriteSends

LEMMA ReadStep ==
  ASSUME IInv, NEW n \in 0 .. MaxLen, MayTurnTo("Read"), Read(n)
  PROVE  Readable /\ Placed /\ \E r, k \in Nat : Receives(r, k)
<1>1. n \in Nat
  BY IOFileAssumption
<1>2. isOpen
  BY Zenon DEF Read
<1>3. last_op = "Read" \/ pos = 0
  <2>1. CASE last_op = "None"
    BY <1>2, <2>1 DEF IInv, CursorsInBuffer
  <2> QED BY <2>1 DEF MayTurnTo
<1>4. Readable
  BY <1>2, <1>3, Zenon DEF Readable
<1> QED BY <1>1, <1>4, ReadReceives

(* What Sends says of the types.                                           *)
LEMMA SendsTypes ==
  ASSUME Ready, NEW n \in Nat, NEW k \in Nat, accepted + n <= MaxBytes, Sends(n, k)
  PROVE  received' \in Seq(Byte) /\ accepted' \in 0 .. MaxBytes
<1>1. received \in Seq(Byte) /\ accepted \in Nat /\ MaxBytes \in Nat
  BY ReadyFacts, IOFileAssumption
<1>2. Out(n) \in Seq(Byte) /\ Len(Out(n)) \in Nat
  BY OutFacts, OutLen
<1>3. PICK q \in Seq(Byte) : q = Out(n)
  BY <1>2
<1>4. k \in 0 .. Len(q) /\ received' = received \o SubSeq(q, 1, k)
  BY <1>3, Zenon DEF Sends
<1>5. 1 \in Int /\ k \in Int /\ \A i \in 1 .. k : q[i] \in Byte
  BY <1>2, <1>3, <1>4, ElementOfSeq
<1>6. SubSeq(q, 1, k) \in Seq(Byte)
  BY <1>5, SubSeqProperties
<1>7. received' \in Seq(Byte)
  BY <1>1, <1>4, <1>6, ConcatProperties
<1>8. accepted' = accepted + n
  BY Zenon DEF Sends
<1> QED BY <1>1, <1>7, <1>8

LEMMA ReceivesTypes ==
  ASSUME Readable, NEW r \in Nat, NEW k \in Nat, Receives(r, k)
  PROVE  fetched' \in 0 .. MaxBytes
<1>1. fetched' = fetched + r /\ fetched' <= MaxBytes
  BY Zenon DEF Receives
<1> QED BY <1>1, ReadableFacts

(* flushUnlocked() and what its callers leave alone.                       *)
Flushing == \E ok \in BOOLEAN : FlushUnlocked(ok)
Settled  == /\ isOpen
            /\ Flushing
            /\ UNCHANGED <<file, buf, last_op, fetched, accepted, delivered>>

Drained ==
  /\ received' \in Seq(Byte) /\ err' \in BOOLEAN
  /\ skipped' \subseteq Byte
  /\ pos' \in 0 .. size /\ read_limit' \in 0 .. size
  /\ last_op = "Read" => pos' <= read_limit' /\ (pos' = 0 => read_limit' = 0)
  /\ last_op # "Read" => read_limit' = 0
  /\ last_op = "None" => pos' = 0

(* The device takes the first v bytes of the buffer, of which pos are      *)
(* pending: then they are gone, or else they stay and the error is set.    *)
Pushes(v) ==
  /\ received' = received \o SubSeq(buf, 1, v)
  /\ (pos' = 0 /\ pos <= v) \/ (pos' = pos /\ file.fails /\ err')

(* The three cases of a flush.                                             *)
Moves ==
  \/ last_op = "Write" /\ Ready /\ pos > 0 /\ \E v \in 0 .. size : Pushes(v)
  \/ last_op = "Read" /\ pos' = 0 /\ read_limit' = 0 /\ UNCHANGED received
  \/ UNCHANGED <<pos, read_limit, received>>

LEMMA FrontOfBuffer ==
  ASSUME NEW N \in Nat, NEW b \in [1 .. N -> Byte], NEW v \in 0 .. N
  PROVE  /\ SubSeq(b, 1, v) \in Seq(Byte) /\ Len(SubSeq(b, 1, v)) = v
         /\ \A i \in 1 .. v : SubSeq(b, 1, v)[i] = b[i]
<1>1. 0 \in Nat /\ 0 + 1 = 1 /\ 0 <= v /\ v - 0 = v
  OBVIOUS
<1>2. /\ SubSeq(b, 0 + 1, v) \in Seq(Byte)
      /\ Len(SubSeq(b, 0 + 1, v)) = IF 0 <= v THEN v - 0 ELSE 0
      /\ \A i \in 1 .. v - 0 : SubSeq(b, 0 + 1, v)[i] = b[0 + i]
  BY <1>1, Cut
<1> HIDE DEF Byte
<1> QED BY <1>2

LEMMA Discards ==
  ASSUME IInv
  PROVE  {Unread[i] : i \in DOMAIN Unread} \subseteq Byte
<1>1. CASE last_op = "Read"
  <2>1. SubSeq(buf, pos + 1, read_limit) \in Seq(Byte)
    <3>1. /\ buf \in [1 .. InitSize -> Byte] /\ InitSize \in Nat /\ pos \in Nat
          /\ read_limit \in 0 .. InitSize
      BY Sizes DEF IInv, TypeOK
    <3> QED BY <3>1, Cut
  <2>2. PICK s \in Seq(Byte) : s = Unread
    BY <1>1, <2>1 DEF Unread
  <2>3. \A i \in DOMAIN s : s[i] \in Byte
    BY ElementOfSeq, LenProperties
  <2> QED BY <2>2, <2>3
<1>2. CASE last_op # "Read"
  BY <1>2 DEF Unread
<1> QED BY <1>1, <1>2, Zenon

LEMMA FlushStep ==
  ASSUME IInv, Settled
  PROVE  Drained /\ Moves
<1>1. PICK ok \in BOOLEAN : FlushUnlocked(ok)
  BY DEF Settled, Flushing
<1>2. /\ size = InitSize /\ InitSize \in Nat /\ isOpen
      /\ pos \in 0 .. size /\ read_limit \in 0 .. size
  BY Sizes DEF Settled, IInv, TypeOK, CursorsInBuffer
<1>3. /\ err \in BOOLEAN /\ received \in Seq(Byte) /\ skipped \subseteq Byte
      /\ last_op \in {"None", "Read", "Write"} /\ accepted' = accepted /\ buf' = buf
  BY DEF Settled, IInv, TypeOK
<1>4. CursorsInBuffer
  BY DEF IInv
<1>5. CASE last_op = "Write" /\ pos > 0
  <2>1. Ready
    BY <1>2, <1>5 DEF Ready
  <2>2. PICK w \in Answers(size) :
          /\ Arrives(Front(buf, w.value))
          /\ IF Failed(w, pos)
             THEN err' = TRUE /\ UNCHANGED pos
             ELSE pos' = 0 /\ UNCHANGED err
          /\ UNCHANGED <<read_limit, skipped>>
    BY <1>1, <1>5, Zenon DEF FlushUnlocked
  <2>3. w.value \in 0 .. size /\ (~file.fails => w.value = size /\ w.isErr = FALSE)
    BY <1>2, AnswersBound
  <2>4. received' = received \o SubSeq(buf, 1, w.value)
    BY <2>2 DEF Arrives, Front
  <2>5. Pushes(w.value)
    <3>1. CASE Failed(w, pos)
      <4>1. pos' = pos /\ err' = TRUE
        BY <2>2, <3>1
      <4>2. file.fails
        BY <1>2, <2>3, <3>1 DEF Failed
      <4> QED BY <2>4, <4>1, <4>2 DEF Pushes
    <3>2. CASE ~Failed(w, pos)
      <4>1. pos' = 0
        BY <2>2, <3>2
      <4>2. pos <= w.value
        BY <1>2, <2>3, <3>2 DEF Failed
      <4> QED BY <2>4, <4>1, <4>2 DEF Pushes
    <3> QED BY <3>1, <3>2, Zenon
  <2>6. received' \in Seq(Byte)
    <3>1. buf \in [1 .. size -> Byte]
      BY <2>1, ReadyFacts
    <3>2. SubSeq(buf, 1, w.value) \in Seq(Byte)
      BY <1>2, <2>3, <3>1, FrontOfBuffer
    <3> QED BY <1>3, <2>4, <3>2, ConcatProperties
  <2>7. read_limit = 0
    BY <1>2, <1>4, <1>5 DEF CursorsInBuffer
  <2>8. err' \in BOOLEAN /\ pos' \in 0 .. size /\ read_limit' = 0 /\ skipped' = skipped
    BY <1>2, <1>3, <2>2, <2>7
  <2>9. Drained
    BY <1>2, <1>3, <1>5, <2>6, <2>8 DEF Drained
  <2>10. Moves
    BY <1>5, <2>1, <2>3, <2>5, Zenon DEF Moves
  <2> QED BY <2>9, <2>10
<1>6. CASE last_op = "Read" /\ pos > 0
  <2>1. /\ pos' = 0 /\ read_limit' = 0
        /\ skipped' = skipped \cup {Unread[i] : i \in DOMAIN Unread}
        /\ UNCHANGED <<err, received>>
    <3>1. ~(last_op = "Write" /\ pos > 0)
      BY <1>6
    <3> QED BY <1>1, <1>6, <3>1, Zenon DEF FlushUnlocked
  <2>2. skipped' \subseteq Byte
    <3> HIDE DEF Unread
    <3> QED BY <1>3, <2>1, Discards, Zenon
  <2>4. Drained
    BY <1>2, <1>3, <1>6, <2>1, <2>2 DEF Drained
  <2>5. Moves
    BY <1>6, <2>1, Zenon DEF Moves
  <2> QED BY <2>4, <2>5
<1>7. CASE ~(last_op = "Write" /\ pos > 0) /\ ~(last_op = "Read" /\ pos > 0)
  <2>1. /\ UNCHANGED <<pos, read_limit, skipped>>
        /\ UNCHANGED <<err, received>>
    BY <1>1, <1>7, Zenon DEF FlushUnlocked
  <2>2. Drained
    BY <1>2, <1>3, <1>4, <2>1 DEF Drained, CursorsInBuffer
  <2>3. Moves
    BY <2>1, Zenon DEF Moves
  <2> QED BY <2>2, <2>3
<1> QED BY <1>5, <1>6, <1>7, Zenon

LEMMA FlushSettles == ASSUME Flush PROVE Settled /\ size' = size /\ eof' = eof /\ isOpen' = isOpen
  BY Zenon DEF Flush, Settled, Flushing

LEMMA CloseSettles ==
  ASSUME Close
  PROVE  /\ Settled /\ eof' = eof /\ isOpen' \in BOOLEAN /\ flushed' = FALSE
         /\ (isOpen' => size' = size) /\ size' \in {0, size}
<1>1. PICK ok \in BOOLEAN : FlushUnlocked(ok) /\ isOpen' = ~ok
                            /\ size' = IF ok /\ file.array = 0 THEN 0 ELSE size
  BY DEF Close
<1>2. Settled
  BY <1>1, Zenon DEF Close, Settled, Flushing
<1>3. eof' = eof /\ flushed' = FALSE
  BY Zenon DEF Close
<1> QED BY <1>1, <1>2, <1>3
-----------------------------------------------------------------------------
(* IInv is an invariant.                                                   *)
LEMMA InitIInv == ASSUME Init PROVE IInv
<1>1. file \in Files /\ file \in FileType
  BY IOFileAssumption DEF Init
<1>2. file.array \in Nat
  BY <1>1 DEF FileType
<1>3. InitSize \in Nat
  BY <1>2 DEF InitSize
<1>4. 0 \in Byte /\ 0 \in 0 .. MaxBytes /\ 0 \in 0 .. InitSize
  BY <1>3, IOFileAssumption DEF Byte
<1>5. buf \in [1 .. InitSize -> Byte]
  <2> HIDE DEF Byte
  <2> QED BY <1>4 DEF Init
<1>6. TypeOK
  <2>1. received = << >> /\ delivered = << >> /\ << >> \in Seq(Byte) /\ lost = {}
    BY DEF Init
  <2> QED BY <1>1, <1>4, <1>5, <2>1 DEF Init, TypeOK
<1>7. CursorsInBuffer
  BY <1>3 DEF Init, CursorsInBuffer
<1> QED BY <1>6, <1>7 DEF Init, IInv

LEMMA Kept ==
  ASSUME IInv, file' = file
  PROVE  /\ InitSize' = InitSize /\ file' \in Files /\ file.array \in Nat
         /\ size \in {0, InitSize} /\ last_op \in {"None", "Read", "Write"}
         /\ eof \in BOOLEAN /\ fetched \in 0 .. MaxBytes /\ accepted \in 0 .. MaxBytes
         /\ delivered \in Seq(Byte) /\ skipped \subseteq Byte /\ lost \subseteq 1 .. MaxBytes
<1>1. InitSize' = InitSize
  BY DEF InitSize, canRead
<1> QED BY <1>1, Sizes DEF IInv, TypeOK, FileType

(* What is dropped was accepted.                                           *)
LEMMA LostType ==
  ASSUME IInv, Drops, accepted' \in 0 .. MaxBytes PROVE lost' \subseteq 1 .. MaxBytes
<1>1. lost \subseteq 1 .. MaxBytes
  BY DEF IInv, TypeOK
<1>2. 1 .. accepted' \subseteq 1 .. MaxBytes
  BY IOFileAssumption
<1>3. lost' \subseteq lost \cup 1 .. accepted'
  BY Zenon DEF Drops
<1> QED BY <1>1, <1>2, <1>3

LEMMA WriteIInv ==
  ASSUME IInv, NEW n \in 0 .. MaxLen, MayTurnTo("Write"), Write(n) PROVE IInv'
<1>1. Ready /\ Safe /\ Carries(n) /\ n \in Nat /\ accepted + n <= MaxBytes
  BY WriteStep
<1>2. /\ last_op' = "Write" /\ flushed' = FALSE
      /\ UNCHANGED <<file, size, read_limit, eof, isOpen, fetched, delivered, skipped>>
  BY Zenon DEF Write
<1>3. size = InitSize /\ size \in Nat /\ isOpen /\ pos \in 0 .. size /\ accepted \in Nat
  BY <1>1, ReadyFacts DEF Ready
<1>4. PICK m \in 0 .. n : \E k \in Nat : Sends(m, k)
  BY <1>1, Zenon DEF Carries
<1>5. m \in Nat /\ accepted + m <= MaxBytes
  BY <1>1, <1>3, <1>4, IOFileAssumption
<1>6. received' \in Seq(Byte) /\ accepted' \in 0 .. MaxBytes
  BY <1>1, <1>4, <1>5, SendsTypes
<1>7. read_limit = 0
  <2>1. CASE last_op = "Read"
    BY <1>1, <2>1 DEF Ready, IInv, CursorsInBuffer
  <2>2. CASE last_op # "Read"
    BY <1>1, <2>2 DEF Ready, IInv, CursorsInBuffer
  <2> QED BY <2>1, <2>2, Zenon
<1>8. /\ buf' \in [1 .. size -> Byte] /\ pos' \in 0 .. size
      /\ err' \in BOOLEAN
  BY <1>1 DEF Safe
<1>9. /\ InitSize' = InitSize /\ file' \in Files /\ size' = size
      /\ eof' \in BOOLEAN /\ fetched' \in 0 .. MaxBytes
      /\ delivered' \in Seq(Byte) /\ skipped' \subseteq Byte
  BY <1>2, Kept
<1>10. 0 \in 0 .. size /\ lost' \subseteq 1 .. MaxBytes
  BY <1>1, <1>3, <1>6, LostType DEF Ready, Write
<1>11. TypeOK'
  BY <1>2, <1>3, <1>6, <1>7, <1>8, <1>9, <1>10 DEF TypeOK
<1>12. CursorsInBuffer'
  BY <1>2, <1>3, <1>7, <1>8, <1>9 DEF CursorsInBuffer
<1>13. size' = InitSize'
  BY <1>3, <1>9
<1> QED BY <1>11, <1>12, <1>13 DEF IInv

LEMMA ReadIInv ==
  ASSUME IInv, NEW n \in 0 .. MaxLen, MayTurnTo("Read"), Read(n) PROVE IInv'
<1>1. Readable /\ Placed /\ \E r, k \in Nat : Receives(r, k)
  BY ReadStep
<1>2. /\ last_op' = "Read" /\ flushed' = FALSE
      /\ UNCHANGED <<file, size, isOpen, received, accepted, lost, skipped>>
  BY Zenon DEF Read
<1>3. size = InitSize /\ size \in Nat /\ isOpen /\ pos \in Nat
  <2>1. read_limit \in Nat /\ pos \in 0 .. read_limit
    BY <1>1, ReadableFacts
  <2> QED BY <1>1, <2>1, ReadableFacts DEF Readable
<1>4. fetched' \in 0 .. MaxBytes
  BY <1>1, ReceivesTypes
<1>6. /\ buf' \in [1 .. size -> Byte]
      /\ pos' \in 0 .. read_limit' /\ read_limit' \in 0 .. size
      /\ (pos' = 0 => read_limit' = 0)
      /\ err' \in BOOLEAN /\ eof' \in BOOLEAN /\ delivered' \in Seq(Byte)
  BY <1>1 DEF Placed
<1>7. /\ InitSize' = InitSize /\ file' \in Files /\ size' = size
      /\ accepted' \in 0 .. MaxBytes /\ skipped' \subseteq Byte
      /\ lost' \subseteq 1 .. MaxBytes
  BY <1>2, Kept
<1>8. received' \in Seq(Byte)
  BY <1>2 DEF IInv, TypeOK
<1>9. pos' \in 0 .. size /\ 0 \in 0 .. size
  BY <1>3, <1>6
<1>10. TypeOK'
  BY <1>2, <1>3, <1>4, <1>6, <1>7, <1>8, <1>9 DEF TypeOK
<1>11. CursorsInBuffer'
  BY <1>2, <1>3, <1>6, <1>7, <1>8, <1>9 DEF CursorsInBuffer
<1>12. size' = InitSize'
  BY <1>3, <1>7
<1> QED BY <1>10, <1>11, <1>12 DEF IInv

LEMMA DrainedIInv ==
  ASSUME IInv, Settled, Drops, eof' = eof, isOpen' \in BOOLEAN, flushed' \in BOOLEAN,
         isOpen' => size' = size, size' \in {0, size}
  PROVE  IInv'
<1>1. Drained
  BY FlushStep
<1>2. isOpen /\ UNCHANGED <<file, buf, last_op, fetched, accepted, delivered>>
  BY DEF Settled
<1>3. size = InitSize /\ size \in Nat
  BY <1>2, Sizes DEF IInv
<1>4. /\ InitSize' = InitSize /\ file' \in Files
      /\ last_op \in {"None", "Read", "Write"}
      /\ eof' \in BOOLEAN /\ fetched' \in 0 .. MaxBytes
      /\ delivered' \in Seq(Byte) /\ accepted' \in 0 .. MaxBytes
  BY <1>2, Kept
<1>5. buf' \in [1 .. InitSize' -> Byte] /\ size' \in {0, InitSize'} /\ last_op' = last_op
  BY <1>2, <1>3, <1>4 DEF IInv, TypeOK
<1>9. lost' \subseteq 1 .. MaxBytes
  BY <1>4, LostType
<1>6. TypeOK'
  BY <1>1, <1>3, <1>4, <1>5, <1>9 DEF TypeOK, Drained
<1>7. CursorsInBuffer'
  BY <1>1, <1>2, <1>3, <1>5 DEF CursorsInBuffer, Drained
<1>8. isOpen' => size' = InitSize'
  BY <1>3, <1>4
<1> QED BY <1>6, <1>7, <1>8 DEF IInv

LEMMA NextIInv == ASSUME IInv, [Next]_vars PROVE IInv'
<1>1. ASSUME NEW n \in 0 .. MaxLen, MayTurnTo("Write"), Write(n) PROVE IInv'
  BY <1>1, WriteIInv
<1>2. ASSUME NEW n \in 0 .. MaxLen, MayTurnTo("Read"), Read(n) PROVE IInv'
  BY <1>2, ReadIInv
<1>3. CASE Refused \/ Clearerr
  <2>1. /\ err' \in BOOLEAN /\ flushed' = FALSE
        /\ UNCHANGED <<file, buf, size, pos, read_limit, last_op, eof, isOpen>>
        /\ UNCHANGED <<received, fetched, accepted, lost, delivered, skipped>>
    BY <1>3 DEF Refused, Clearerr, cursors, device, history
  <2>2. InitSize' = InitSize
    BY <2>1, Kept
  <2> QED BY <2>1, <2>2 DEF IInv, TypeOK, CursorsInBuffer
<1>4. CASE Flush
  <2>1. Settled /\ size' = size /\ eof' = eof /\ isOpen' = isOpen
    BY <1>4, FlushSettles
  <2>2. isOpen' \in BOOLEAN /\ flushed' \in BOOLEAN
    BY <1>4, <2>1 DEF Flush, IInv, TypeOK
  <2>3. Drops
    BY <1>4, Zenon DEF Flush
  <2> QED BY <2>1, <2>2, <2>3, DrainedIInv
<1>5. CASE Close
  <2>1. flushed' \in BOOLEAN
    BY <1>5, CloseSettles
  <2>2. Drops
    BY <1>5, Zenon DEF Close
  <2> QED BY <1>5, <2>1, <2>2, CloseSettles, DrainedIInv
<1>6. CASE UNCHANGED vars
  <2>1. InitSize' = InitSize
    BY <1>6, Kept DEF vars
  <2> QED BY <1>6, <2>1 DEF vars, cursors, device, history, IInv, TypeOK, CursorsInBuffer
<1> QED BY <1>1, <1>2, <1>3, <1>4, <1>5, <1>6, Zenon DEF Next

(* The cursors stay inside the buffer and in order, for every buffer and   *)
(* mode, every length of the calls and every answer of the device.         *)
THEOREM IOFileInv == Spec => []Inv
<1>1. Init => IInv
  BY InitIInv
<1>2. IInv /\ [Next]_vars => IInv'
  BY NextIInv
<1>3. IInv => Inv
  BY DEF IInv, Inv
<1> QED BY <1>1, <1>2, <1>3, PTL DEF Spec
-----------------------------------------------------------------------------
(* Steps of the file as steps of the stream.                               *)
LEMMA PendingIs == ASSUME Ready PROVE Pending = Queue
<1>1. CASE last_op = "Write"
  BY <1>1, Zenon DEF Queue, Pending, Front
<1>2. CASE last_op # "Write"
  <2>1. pos = 0
    BY <1>2 DEF Ready
  <2>2. Queue = << >>
    BY <2>1, NoCut DEF Queue
  <2> QED BY <1>2, <2>2, Zenon DEF Pending
<1> QED BY <1>1, <1>2, Zenon

LEMMA NothingUnread == ASSUME Ready PROVE Unread = << >>
<1>1. CASE last_op = "Read"
  <2>1. pos = 0 /\ read_limit = 0
    BY <1>1 DEF Ready, IInv, CursorsInBuffer
  <2>2. SubSeq(buf, pos + 1, read_limit) = << >>
    BY <2>1, NoCut
  <2> QED BY <2>2, Zenon DEF Unread
<1> QED BY <1>1, Zenon DEF Unread

LEMMA NothingPending == ASSUME Readable PROVE Pending = << >>
<1>1. CASE last_op = "Write"
  <2>1. pos = 0
    BY <1>1 DEF Readable
  <2>2. SubSeq(buf, 1, pos) = << >>
    BY <2>1, NoCut
  <2> QED BY <2>2, Zenon DEF Pending, Front
<1> QED BY <1>1, Zenon DEF Pending

LEMMA SendsIsSend ==
  ASSUME Ready, last_op' = "Write", NEW n \in Nat, NEW k \in Nat, accepted + n <= MaxBytes,
         Sends(n, k), file' = file, fetched' = fetched, delivered' = delivered
  PROVE  TheStream!Next
<1>1. Pending = Queue /\ Unread = << >>
  BY PendingIs, NothingUnread
<1>2. Unread' = << >> /\ Pending' = SubSeq(buf', 1, pos')
  BY DEF Unread, Pending, Front
<1>3. n \in 0 .. MaxBytes
  BY ReadyFacts, IOFileAssumption
<1>4. /\ k \in 0 .. Len(Out(n)) /\ accepted' = accepted + n
      /\ received' = received \o SubSeq(Out(n), 1, k)
      /\ \/ SubSeq(buf', 1, pos') = SubSeq(Out(n), k + 1, Len(Out(n)))
         \/ SubSeq(buf', 1, pos') = << >> /\ file.fails /\ err'
  BY Zenon DEF Sends
<1>5. Out(n) = Queue \o [i \in 1 .. n |-> accepted + i]
  BY Zenon DEF Out, Data
<1>6. TheStream!Send(n)
  BY <1>1, <1>2, <1>4, <1>5, Zenon
  DEF TheStream!Send, TheStream!Over, TheStream!Kept, TheStream!inward
<1>7. file.fails' = file.fails
  OBVIOUS
<1> QED BY <1>3, <1>6, <1>7, Zenon DEF TheStream!Next

LEMMA ReceivesIsReceive ==
  ASSUME Readable, last_op' = "Read", NEW r \in Nat, NEW k \in Nat, Receives(r, k),
         file' = file, received' = received, accepted' = accepted
  PROVE  TheStream!Next
<1>1. Unread = Ahead
  <2>1. CASE last_op = "Read"
    BY <2>1, Zenon DEF Unread, Ahead
  <2>2. CASE last_op # "Read"
    <3>1. pos = 0 /\ read_limit = 0
      BY <2>2, ReadableFacts DEF Readable
    <3>2. Ahead = << >>
      BY <3>1, NoCut DEF Ahead
    <3> QED BY <2>2, <3>2, Zenon DEF Unread
  <2> QED BY <2>1, <2>2, Zenon
<1>2. Pending = << >> /\ Pending' = << >>
  BY NothingPending, Zenon DEF Pending
<1>4. Unread' = SubSeq(buf', pos' + 1, read_limit')
  BY Zenon DEF Unread
<1>5. /\ k \in 0 .. Len(In(r)) /\ fetched' = fetched + r /\ fetched' <= MaxBytes
      /\ delivered' = delivered \o SubSeq(In(r), 1, k)
      /\ SubSeq(buf', pos' + 1, read_limit') = SubSeq(In(r), k + 1, Len(In(r)))
  BY Zenon DEF Receives
<1>6. r \in 0 .. MaxBytes
  BY <1>5, ReadableFacts
<1>7. In(r) = Ahead \o [i \in 1 .. r |-> -(fetched + i)]
  BY Zenon DEF In, Given
<1>8. TheStream!Receive(r)
  BY <1>1, <1>2, <1>4, <1>5, <1>7, Zenon
  DEF TheStream!Receive, TheStream!Over, TheStream!Kept, TheStream!outward
<1>9. file.fails' = file.fails
  OBVIOUS
<1> QED BY <1>6, <1>8, <1>9, Zenon DEF TheStream!Next

LEMMA PushesIsPush ==
  ASSUME Ready, last_op = "Write", last_op' = "Write", pos > 0, NEW v \in 0 .. size, Pushes(v),
         UNCHANGED <<file, buf, fetched, accepted, delivered>>
  PROVE  TheStream!Next
<1>1. /\ pos \in 0 .. size /\ size \in Nat /\ buf \in [1 .. size -> Byte] /\ v \in Nat
      /\ received \in Seq(Byte) /\ Queue \in Seq(Byte) /\ Len(Queue) = pos /\ pos \in Nat
  BY ReadyFacts
<1>2. Pending = Queue /\ Unread = << >> /\ Unread' = << >> /\ Pending' = SubSeq(buf, 1, pos')
  BY PendingIs, NothingUnread DEF Unread, Pending, Front
<1>3. received' = received \o SubSeq(buf, 1, v)
  BY DEF Pushes
<1>4. Queue # << >>
  <2>1. Len(Queue) # 0
    BY <1>1
  <2> QED BY <2>1
<1>5. Pending' = << >> \/ (Pending' = Queue /\ file.fails /\ err')
  <2>1. CASE pos' = 0
    <3>1. SubSeq(buf, 1, pos') = << >>
      BY <2>1, NoCut
    <3> QED BY <1>2, <3>1, Zenon
  <2>2. CASE pos' = pos /\ file.fails /\ err'
    BY <1>2, <2>2, Zenon DEF Queue
  <2> QED BY <2>1, <2>2, Zenon DEF Pushes
<1>6. CASE pos <= v
  <2>1. SubSeq(buf, 1, v) \in Seq(Byte) /\ Len(SubSeq(buf, 1, v)) = v
    BY <1>1, FrontOfBuffer
  <2>2. SubSeq(SubSeq(buf, 1, v), 1, pos) = Queue
    <3>1. 0 \in Nat /\ 0 <= v /\ pos \in 0 .. v - 0 /\ 0 + 1 = 1 /\ 0 + 0 + 1 = 1 /\ 0 + pos = pos
      BY <1>1, <1>6
    <3>2. SubSeq(SubSeq(buf, 0 + 1, v), 0 + 1, pos) = SubSeq(buf, 0 + 0 + 1, 0 + pos)
      BY <1>1, <3>1, CutOfCut
    <3> QED BY <3>1, <3>2, Zenon DEF Queue
  <2> DEFINE S == SubSeq(buf, 1, v)
  <2>3. pos \in 0 .. Len(S) /\ S \in Seq(Byte) /\ Len(S) = v
    BY <1>1, <1>6, <2>1
  <2>4. SubSeq(S, 1, pos) = Queue /\ received' = received \o S
    BY <1>3, <2>2
  <2> HIDE DEF S
  <2>5. SubSeq(received \o S, 1, Len(received) + pos) = received \o SubSeq(S, 1, pos)
    BY <1>1, <2>3, JoinCut
  <2>6. Len(received') = Len(received) + v /\ Len(received) \in Nat
    BY <1>1, <2>3, <2>4, ConcatProperties, LenProperties
  <2>7. Len(received) + Len(Queue) <= Len(received')
    BY <1>1, <1>6, <2>6
  <2>8. SubSeq(received', 1, Len(received) + Len(Queue)) = received \o Queue
    BY <1>1, <2>4, <2>5, Zenon
  <2>9. TheStream!Push
    <3> HIDE DEF Queue
    <3> QED BY <1>2, <1>4, <1>5, <2>7, <2>8, Zenon DEF TheStream!Push, TheStream!inward
  <2>10. file.fails' = file.fails
    OBVIOUS
  <2> QED BY <2>9, <2>10, Zenon DEF TheStream!Next
<1>7. CASE ~(pos <= v)
  <2>1. v \in 0 .. pos
    BY <1>1, <1>7
  <2>2. SubSeq(buf, 1, v) = SubSeq(Queue, 1, v)
    BY <2>1, QueueCut
  <2>3. pos' = pos /\ file.fails /\ err'
    BY <1>7 DEF Pushes
  <2>4. Pending' = Queue
    BY <1>2, <2>3, Zenon DEF Queue
  <2>5. v \in 0 .. Len(Queue) /\ received' = received \o SubSeq(Queue, 1, v)
    BY <1>1, <1>3, <2>1, <2>2
  <2>6. TheStream!Push
    <3> HIDE DEF Queue
    <3> QED BY <1>2, <1>4, <2>3, <2>4, <2>5, Zenon
        DEF TheStream!Push, TheStream!inward, TheStream!Over
  <2>7. file.fails' = file.fails
    OBVIOUS
  <2> QED BY <2>6, <2>7, Zenon DEF TheStream!Next
<1> QED BY <1>6, <1>7, Zenon

LEMMA MovesIsStep ==
  ASSUME IInv, Settled, Moves
  PROVE  [TheStream!Next]_<<file.fails, TheStream!outward, TheStream!inward>>
<1>1. UNCHANGED <<file, buf, last_op, fetched, accepted, delivered>>
  BY DEF Settled
<1>2. CASE last_op = "Write" /\ Ready /\ pos > 0 /\ \E v \in 0 .. size : Pushes(v)
  <2>1. TheStream!Next
    BY <1>1, <1>2, PushesIsPush
  <2> QED BY <2>1, Zenon
<1>3. CASE last_op = "Read" /\ pos' = 0 /\ read_limit' = 0 /\ UNCHANGED received
  <2>1. Unread' = << >>
    <3>1. SubSeq(buf', pos' + 1, read_limit') = << >>
      BY <1>3, NoCut
    <3> QED BY <3>1, Zenon DEF Unread
  <2>2. Pending = << >> /\ Pending' = << >>
    BY <1>1, <1>3 DEF Pending
  <2>3. TheStream!Skip
    BY <1>1, <1>3, <2>1, <2>2, Zenon DEF TheStream!Skip, TheStream!outward
  <2>4. file.fails' = file.fails
    BY <1>1
  <2> QED BY <2>3, <2>4, Zenon DEF TheStream!Next
<1>4. CASE UNCHANGED <<pos, read_limit, received>>
  <2>1. Unread' = Unread /\ Pending' = Pending /\ file.fails' = file.fails
    BY <1>1, <1>4 DEF Unread, Pending, Front
  <2> QED BY <1>1, <1>4, <2>1, Zenon DEF TheStream!outward, TheStream!inward
<1> QED BY <1>2, <1>3, <1>4, Zenon DEF Moves

LEMMA StreamStep ==
  ASSUME IInv, [Next]_vars
  PROVE  [TheStream!Next]_<<file.fails, TheStream!outward, TheStream!inward>>
<1>1. ASSUME NEW n \in 0 .. MaxLen, MayTurnTo("Write"), Write(n) PROVE TheStream!Next
  <2>1. Ready /\ Carries(n) /\ n \in Nat /\ accepted + n <= MaxBytes
    BY <1>1, WriteStep
  <2>2. PICK m \in 0 .. n : \E k \in Nat : Sends(m, k)
    BY <2>1, Zenon DEF Carries
  <2>3. m \in Nat /\ accepted + m <= MaxBytes
    BY <2>1, <2>2, ReadyFacts, IOFileAssumption
  <2>4. last_op' = "Write" /\ file' = file /\ fetched' = fetched /\ delivered' = delivered
    BY <1>1, Zenon DEF Write
  <2> QED BY <2>1, <2>2, <2>3, <2>4, SendsIsSend
<1>2. ASSUME NEW n \in 0 .. MaxLen, MayTurnTo("Read"), Read(n) PROVE TheStream!Next
  <2>1. Readable /\ \E r, k \in Nat : Receives(r, k)
    BY <1>2, ReadStep
  <2>2. last_op' = "Read" /\ file' = file /\ received' = received /\ accepted' = accepted
    BY <1>2, Zenon DEF Read
  <2> QED BY <2>1, <2>2, ReceivesIsReceive
<1>3. CASE Refused \/ Clearerr \/ UNCHANGED vars
  <2>1. UNCHANGED <<file, buf, pos, read_limit, last_op, received, fetched, accepted, delivered>>
    BY <1>3 DEF Refused, Clearerr, vars, cursors, device, history
  <2>2. Unread' = Unread /\ Pending' = Pending /\ file.fails' = file.fails
    BY <2>1 DEF Unread, Pending, Front
  <2> QED BY <2>1, <2>2, Zenon DEF TheStream!outward, TheStream!inward
<1>4. CASE Flush \/ Close
  <2>1. Settled
    BY <1>4, FlushSettles, CloseSettles
  <2> QED BY <2>1, FlushStep, MovesIsStep
<1> QED BY <1>1, <1>2, <1>3, <1>4, Zenon DEF Next

(* A file is a stream to its clients and its device, repetitions and       *)
(* leftovers included: a write takes bytes in at the end of the queue and  *)
(* hands others over from its front, or drops all that waits because the   *)
(* device failed; a flush hands over the whole queue and what lies behind  *)
(* it in the buffer, or keeps the queue and reports it.                    *)
THEOREM IOFileImplementsStream == Spec => ImplementsStream
<1>1. Init => TheStream!Init
  <2> SUFFICES ASSUME Init PROVE TheStream!Init
    OBVIOUS
  <2>1. last_op = "None" /\ accepted = 0 /\ received = << >> /\ fetched = 0 /\ delivered = << >>
    BY DEF Init
  <2> QED BY <2>1 DEF TheStream!Init, Unread, Pending
<1>2. IInv /\ [Next]_vars => [TheStream!Next]_<<file.fails, TheStream!outward, TheStream!inward>>
  BY StreamStep
<1>3. Init => IInv
  BY InitIInv
<1>4. IInv /\ [Next]_vars => IInv'
  BY NextIInv
<1> QED BY <1>1, <1>2, <1>3, <1>4, PTL DEF Spec, ImplementsStream, TheStream!Spec
-----------------------------------------------------------------------------
(* The accounts of the writers.  Pending bytes are the last ones accepted, *)
(* every accepted byte is at the device, pending or lost, and neither the  *)
(* device nor the buffer has one that is not accepted.                     *)
Lasting == last_op = "Write" =>
             /\ pos <= accepted
             /\ \A i \in 1 .. pos : buf[i] = accepted - pos + i
Covered == 1 .. accepted \subseteq lost \cup Held
Below   == \A i \in DOMAIN received : received[i] <= accepted
Known   == \A i \in DOMAIN buf : buf[i] <= accepted

Accounts == Lasting /\ Covered /\ Below /\ WritesInOrder
AInv     == Accounts /\ Known

(* What every step of a writer is, byte by byte: m bytes are accepted, the *)
(* device takes the first k that wait and after all of them j others, and  *)
(* all but the first d go on waiting or all are dropped.                   *)
Hands(m, k, j, d) ==
  /\ k <= pos + m /\ d <= k
  /\ j > 0 => k = pos + m
  /\ accepted' = accepted + m
  /\ Len(received') = Len(received) + k + j
  /\ \A i \in 1 .. Len(received) : received'[i] = received[i]
  /\ \A i \in 1 .. k : received'[Len(received) + i] = accepted - pos + i
  /\ \A i \in k + 1 .. k + j : received'[Len(received) + i] <= accepted
  /\ \/ /\ pos' = pos + m - d
        /\ \A i \in 1 .. pos + m - d : buf'[i] = accepted - pos + d + i
     \/ pos' = 0 /\ err'

(* What is held is at some place.                                          *)
LEMMA PendingAt ==
  ASSUME IInv, last_op = "Write"
  PROVE  /\ DOMAIN Pending = 1 .. pos
         /\ \A i \in 1 .. pos : Pending[i] = buf[i]
<1>1. buf \in [1 .. InitSize -> Byte] /\ InitSize \in Nat /\ pos \in 0 .. InitSize
  BY Sizes DEF IInv, TypeOK
<1>2. /\ SubSeq(buf, 1, pos) \in Seq(Byte) /\ Len(SubSeq(buf, 1, pos)) = pos
      /\ \A i \in 1 .. pos : SubSeq(buf, 1, pos)[i] = buf[i]
  BY <1>1, FrontOfBuffer
<1>3. Pending = SubSeq(buf, 1, pos)
  BY DEF Pending, Front
<1>4. DOMAIN SubSeq(buf, 1, pos) = 1 .. pos
  BY <1>2, LenProperties
<1> QED BY <1>2, <1>3, <1>4, Zenon

LEMMA HeldAt ==
  ASSUME IInv, NEW b
  PROVE  b \in Held <=> \/ \E i \in DOMAIN received : received[i] = b
                        \/ last_op = "Write" /\ \E i \in 1 .. pos : buf[i] = b
<1>1. CASE last_op = "Write"
  BY <1>1, PendingAt, Zenon DEF Held, Ran
<1>2. CASE last_op # "Write"
  <2>1. DOMAIN Pending = {}
    BY <1>2 DEF Pending
  <2> QED BY <1>2, <2>1, Zenon DEF Held, Ran
<1> QED BY <1>1, <1>2, Zenon

(* A writer's step keeps the accounts, and reports what it drops.          *)
LEMMA HandsAccounts ==
  ASSUME Ready, IInv', Accounts, Drops, last_op' = "Write",
         NEW m \in Nat, NEW k \in Nat, NEW j \in Nat, NEW d \in Nat, Hands(m, k, j, d)
  PROVE  Accounts' /\ (lost' # lost => err')
<1> DEFINE a == accepted - pos
           l == Len(received)
<1>1. /\ pos \in Nat /\ accepted \in Nat /\ received \in Seq(Byte) /\ received' \in Seq(Byte)
      /\ IInv /\ l \in Nat /\ DOMAIN received = 1 .. l /\ DOMAIN received' = 1 .. Len(received')
      /\ pos' \in Nat
  <2>1. received' \in Seq(Byte) /\ pos' \in Nat
    BY Sizes DEF IInv, TypeOK
  <2> QED BY <2>1, ReadyFacts, LenProperties DEF Ready
<1>2. a \in Nat
  <2>1. CASE last_op = "Write"
    BY <1>1, <2>1 DEF Accounts, Lasting
  <2>2. CASE last_op # "Write"
    BY <1>1, <2>2 DEF Ready
  <2> QED BY <2>1, <2>2, Zenon
<1>3. /\ k <= pos + m /\ d <= k /\ accepted' = a + pos + m
      /\ (j > 0 => k = pos + m)
      /\ Len(received') = l + k + j
      /\ \A i \in 1 .. l : received'[i] = received[i]
      /\ \A i \in 1 .. k : received'[l + i] = a + i
      /\ \A i \in k + 1 .. k + j : received'[l + i] <= accepted
  BY <1>1 DEF Hands
<1>4. ASSUME NEW n \in 1 .. a
      PROVE  n \in lost \/ \E i \in 1 .. l : received[i] = n
  <2>1. n \in 1 .. accepted
    BY <1>1, <1>2
  <2>2. n \in lost \/ n \in Held
    BY <2>1, Zenon DEF Accounts, Covered
  <2>3. ASSUME last_op = "Write", NEW i \in 1 .. pos, buf[i] = n PROVE FALSE
    BY <1>1, <1>2, <2>3 DEF Accounts, Lasting
  <2> QED BY <1>1, <2>2, <2>3, HeldAt, Zenon
<1> HIDE DEF a, l
<1>7. Below'
  <2> SUFFICES ASSUME NEW i \in DOMAIN received' PROVE received'[i] <= accepted'
    BY DEF Below
  <2>0. i \in Nat
    BY <1>1
  <2>1. CASE i \in 1 .. l
    <3>1. received[i] <= accepted /\ received'[i] = received[i] /\ received[i] \in Int
      <4>1. received[i] \in Byte
        BY <1>1, <2>1, ElementOfSeq DEF l
      <4>2. received[i] \in Int
        BY <4>1, IOFileAssumption DEF Byte
      <4> QED BY <1>1, <1>3, <2>1, <4>2 DEF Accounts, Below
    <3> QED BY <1>1, <1>2, <1>3, <3>1 DEF a
  <2>2. CASE i - l \in 1 .. k
    <3>1. received'[l + (i - l)] = a + (i - l) /\ l + (i - l) = i
      BY <1>1, <1>3, <2>2
    <3> QED BY <1>1, <1>2, <1>3, <2>2, <3>1
  <2>3. CASE i - l \in k + 1 .. k + j
    <3>0. PICK x \in k + 1 .. k + j : x = i - l
      BY <2>3
    <3>1. received'[i] <= accepted
      <4>1. l + x = i
        BY <1>1, <2>0, <3>0
      <4>2. received'[l + x] <= accepted
        BY <1>3
      <4> QED BY <4>1, <4>2, Zenon
    <3>2. received'[i] \in Int
      <4>1. received'[i] \in Byte
        BY <1>1, ElementOfSeq
      <4> QED BY <4>1, IOFileAssumption DEF Byte
    <3> QED BY <1>1, <1>2, <1>3, <3>1, <3>2 DEF a
  <2> QED BY <1>1, <1>3, <2>1, <2>2, <2>3
<1>8. WritesInOrder'
  <2> SUFFICES ASSUME NEW i \in DOMAIN received', received'[i] > 0,
                      NEW n \in 1 .. received'[i] - 1
               PROVE  n \in lost' \/ \E y \in 1 .. i - 1 : received'[y] = n
    BY Zenon DEF WritesInOrder
  <2>0. received'[i] \in Int /\ n \in Nat
    <3>1. received'[i] \in Byte
      BY <1>1, ElementOfSeq
    <3> QED BY <3>1, IOFileAssumption DEF Byte
  <2>1. ASSUME n \in lost PROVE n \in lost'
    BY <2>1, Zenon DEF Drops
  <2>2. ASSUME NEW y \in 1 .. l, received[y] = n PROVE received'[y] = n
    BY <1>3, <2>2
  <2>3. CASE i \in 1 .. l
    <3>1. received'[i] = received[i] /\ i \in DOMAIN received
      BY <1>1, <1>3, <2>3
    <3>2. n \in lost \/ \E y \in 1 .. i - 1 : received[y] = n
      BY <3>1, Zenon DEF Accounts, WritesInOrder
    <3>3. ASSUME NEW y \in 1 .. i - 1 PROVE y \in 1 .. l
      BY <1>1, <2>3
    <3> QED BY <2>1, <2>2, <3>2, <3>3, Zenon
  <2>4. CASE i > l
    <3>1. CASE n <= a
      <4>1. n \in lost \/ \E y \in 1 .. l : received[y] = n
        BY <1>2, <1>4, <2>0, <3>1
      <4>2. ASSUME NEW y \in 1 .. l PROVE y \in 1 .. i - 1
        BY <1>1, <2>4
      <4> QED BY <2>1, <2>2, <4>1, <4>2, Zenon
    <3>2. CASE n > a
      <4>1. n - a \in 1 .. k /\ l + (n - a) \in 1 .. i - 1
        <5>1. i - l \in 1 .. k + j /\ i = l + (i - l)
          BY <1>1, <1>3, <2>4
        <5>2. CASE i - l \in 1 .. k
          <6>1. received'[i] = a + (i - l)
            BY <1>3, <5>1, <5>2, Zenon
          <6> QED BY <1>1, <1>2, <2>0, <3>2, <5>2, <6>1
        <5>3. CASE i - l \in k + 1 .. k + j
          <6>1. received'[i] <= accepted
            BY <1>3, <5>1, <5>3, Zenon
          <6>2. k = pos + m /\ accepted = a + pos
            BY <1>1, <1>3, <5>3 DEF a
          <6> QED BY <1>1, <1>2, <2>0, <3>2, <5>3, <6>1, <6>2
        <5> QED BY <1>1, <5>1, <5>2, <5>3
      <4>2. received'[l + (n - a)] = a + (n - a)
        BY <1>3, <4>1
      <4>3. a + (n - a) = n
        BY <1>2, <2>0
      <4> QED BY <4>1, <4>2, <4>3
    <3> QED BY <1>2, <2>0, <3>1, <3>2
  <2> QED BY <1>1, <2>3, <2>4
<1>5. CASE /\ pos' = pos + m - d
           /\ \A i \in 1 .. pos + m - d : buf'[i] = a + d + i
  <2>1. Lasting'
    <3>1. pos' <= accepted' /\ accepted' - pos' = a + d
      BY <1>1, <1>2, <1>3, <1>5
    <3> QED BY <1>1, <1>2, <1>5, <3>1 DEF Lasting
  <2>2. ASSUME NEW n \in 1 .. accepted' PROVE n \in lost \/ n \in Held'
    <3>1. CASE n \in 1 .. a
      <4>1. ASSUME NEW i \in 1 .. l, received[i] = n PROVE n \in Held'
        <5>1. i \in DOMAIN received' /\ received'[i] = n
          BY <1>1, <1>3, <4>1
        <5> QED BY <5>1, Zenon DEF Held, Ran
      <4> QED BY <1>4, <3>1, <4>1, Zenon
    <3>2. CASE n - a \in 1 .. k
      <4>1. l + (n - a) \in DOMAIN received' /\ received'[l + (n - a)] = n
        <5>1. received'[l + (n - a)] = a + (n - a)
          BY <1>3, <3>2
        <5> QED BY <1>1, <1>2, <1>3, <3>2, <5>1
      <4> QED BY <4>1, Zenon DEF Held, Ran
    <3>3. CASE n - a \in k + 1 .. pos + m
      <4>1. PICK i \in Nat : i = n - a - d
        BY <1>2, <1>3, <3>3
      <4>2. i \in 1 .. pos' /\ buf'[i] = n
        <5>1. i \in 1 .. pos + m - d /\ a + d + i = n
          BY <1>1, <1>2, <1>3, <3>3, <4>1
        <5> QED BY <1>5, <5>1
      <4>3. Pending' = Front(buf', pos')
        BY DEF Pending
      <4>4. i \in DOMAIN Pending' /\ Pending'[i] = n
        <5>1. /\ buf' \in [1 .. InitSize' -> Byte] /\ InitSize' \in Nat /\ pos' \in 0 .. InitSize'
          <6>1. IInv' /\ file' \in FileType
            BY IOFileAssumption DEF IInv, TypeOK
          <6>2. InitSize' \in Nat
            BY <6>1 DEF InitSize, FileType
          <6> QED BY <6>2 DEF IInv, TypeOK
        <5>2. PICK f, N, p : f = buf' /\ N = InitSize' /\ p = pos'
          OBVIOUS
        <5>3. f \in [1 .. N -> Byte] /\ N \in Nat /\ p \in 0 .. N
          BY <5>1, <5>2
        <5>4. /\ SubSeq(f, 1, p) \in Seq(Byte) /\ Len(SubSeq(f, 1, p)) = p
              /\ \A x \in 1 .. p : SubSeq(f, 1, p)[x] = f[x]
          BY <5>3, FrontOfBuffer
        <5>5. DOMAIN SubSeq(f, 1, p) = 1 .. p
          BY <5>4, LenProperties
        <5> QED BY <4>2, <4>3, <5>2, <5>4, <5>5 DEF Front
      <4> QED BY <4>4, Zenon DEF Held, Ran
    <3> QED BY <1>1, <1>2, <1>3, <3>1, <3>2, <3>3
  <2>3. lost' = lost
    BY <2>2 DEF Drops
  <2>4. Covered'
    BY <2>2, <2>3 DEF Covered
  <2> QED BY <1>7, <1>8, <2>1, <2>3, <2>4 DEF Accounts
<1>6. CASE pos' = 0 /\ err'
  <2>1. Lasting'
    BY <1>1, <1>2, <1>3, <1>6 DEF Lasting
  <2>2. Covered'
    BY Zenon DEF Covered, Drops
  <2> QED BY <1>6, <1>7, <1>8, <2>1, <2>2 DEF Accounts
<1> QED BY <1>5, <1>6, Zenon DEF Hands, a

(* What a concatenation has where.                                         *)
LEMMA JoinAt ==
  ASSUME NEW r \in Seq(Byte), NEW s \in Seq(Byte)
  PROVE  /\ Len(r \o s) = Len(r) + Len(s)
         /\ \A i \in 1 .. Len(r) : (r \o s)[i] = r[i]
         /\ \A i \in 1 .. Len(s) : (r \o s)[Len(r) + i] = s[i]
<1>1. Len(r) \in Nat /\ Len(s) \in Nat
  BY LenProperties
<1>2. /\ Len(r \o s) = Len(r) + Len(s)
      /\ \A i \in 1 .. Len(r) + Len(s) : (r \o s)[i] = IF i <= Len(r) THEN r[i] ELSE s[i - Len(r)]
  BY ConcatProperties
<1>3. PICK l \in Nat, k \in Nat : l = Len(r) /\ k = Len(s)
  BY <1>1
<1>4. ASSUME NEW i \in 1 .. l PROVE (r \o s)[i] = r[i]
  BY <1>2, <1>3
<1>5. ASSUME NEW i \in 1 .. k PROVE (r \o s)[l + i] = s[i]
  <2>1. l + i \in 1 .. l + k /\ ~(l + i <= l) /\ l + i - l = i
    BY <1>3
  <2> QED BY <1>2, <1>3, <2>1
<1> QED BY <1>2, <1>3, <1>4, <1>5

(* The sequence that waits for the device.                                 *)
LEMMA OutAt ==
  ASSUME Ready, Lasting, NEW n \in Nat, accepted + n <= MaxBytes
  PROVE  /\ Out(n) \in Seq(Byte) /\ Len(Out(n)) = pos + n
         /\ \A i \in 1 .. pos + n : Out(n)[i] = accepted - pos + i
<1>1. /\ pos \in 0 .. size /\ pos \in Nat /\ size \in Nat /\ buf \in [1 .. size -> Byte]
      /\ accepted \in Nat /\ Queue \in Seq(Byte) /\ Len(Queue) = pos
      /\ Data(n) \in Seq(Byte) /\ Len(Data(n)) = n
  BY ReadyFacts, DataFacts
<1>2. Out(n) \in Seq(Byte) /\ Len(Out(n)) = pos + n
  BY OutFacts
<1>3. \A i \in 1 .. pos : Queue[i] = buf[i]
  BY <1>1, FrontOfBuffer DEF Queue
<1>4. \A i \in 1 .. pos : Queue[i] = accepted - pos + i
  <2>1. CASE last_op = "Write"
    BY <1>3, <2>1, Zenon DEF Lasting
  <2>2. CASE last_op # "Write"
    BY <1>1, <2>2 DEF Ready
  <2> QED BY <2>1, <2>2, Zenon
<1>5. \A i \in 1 .. n : Data(n)[i] = accepted + i
  BY DEF Data
<1> HIDE DEF Data, Queue
<1>6. /\ \A i \in 1 .. pos : Out(n)[i] = Queue[i]
      /\ \A i \in 1 .. n : Out(n)[pos + i] = Data(n)[i]
  <2>1. PICK r \in Seq(Byte), s \in Seq(Byte) : r = Queue /\ s = Data(n)
    BY <1>1
  <2>2. Len(r) = pos /\ Len(s) = n /\ Out(n) = r \o s
    BY <1>1, <2>1 DEF Out
  <2>3. /\ \A i \in 1 .. Len(r) : (r \o s)[i] = r[i]
        /\ \A i \in 1 .. Len(s) : (r \o s)[Len(r) + i] = s[i]
    BY JoinAt
  <2> QED BY <2>1, <2>2, <2>3, Zenon
<1> HIDE DEF Out
<1>7. ASSUME NEW i \in 1 .. pos + n PROVE Out(n)[i] = accepted - pos + i
  <2>1. CASE i <= pos
    <3>1. i \in 1 .. pos
      BY <1>1, <2>1
    <3> QED BY <1>4, <1>6, <3>1
  <2>2. CASE ~(i <= pos)
    <3>1. i - pos \in 1 .. n /\ pos + (i - pos) = i
      BY <1>1, <2>2
    <3>2. Data(n)[i - pos] = accepted + (i - pos)
      BY <1>5, <3>1
    <3>3. Out(n)[i] = Data(n)[i - pos]
      BY <1>6, <3>1
    <3> QED BY <1>1, <3>2, <3>3
  <2> QED BY <2>1, <2>2
<1> QED BY <1>2, <1>7

LEMMA SendsHands ==
  ASSUME Ready, Lasting, IInv', NEW m \in Nat, NEW k \in Nat, accepted + m <= MaxBytes,
         Sends(m, k), size' = size, isOpen'
  PROVE  Hands(m, k, 0, k)
<1>1. /\ Out(m) \in Seq(Byte) /\ Len(Out(m)) = pos + m
      /\ \A i \in 1 .. pos + m : Out(m)[i] = accepted - pos + i
  BY OutAt
<1>2. pos \in Nat /\ accepted \in Nat /\ received \in Seq(Byte) /\ Len(received) \in Nat
  BY ReadyFacts, LenProperties
<1>3. PICK q \in Seq(Byte) : q = Out(m)
  BY <1>1
<1>4. /\ k \in 0 .. pos + m /\ accepted' = accepted + m
      /\ received' = received \o SubSeq(q, 1, k)
      /\ \/ SubSeq(buf', 1, pos') = SubSeq(q, k + 1, pos + m)
         \/ SubSeq(buf', 1, pos') = << >> /\ err'
  BY <1>1, <1>3, Zenon DEF Sends
<1>5. PICK N \in Nat : N = pos + m
  BY <1>2
<1>6. q \in [1 .. N -> Byte] /\ Len(q) = N /\ \A i \in 1 .. N : q[i] = accepted - pos + i
  <2>1. Len(q) = N
    BY <1>1, <1>3, <1>5
  <2> QED BY <1>1, <1>3, <1>5, <2>1, LenProperties
<1>7. /\ SubSeq(q, 1, k) \in Seq(Byte) /\ Len(SubSeq(q, 1, k)) = k
      /\ \A i \in 1 .. k : SubSeq(q, 1, k)[i] = q[i]
  BY <1>4, <1>5, <1>6, FrontOfBuffer
<1>8. PICK s \in Seq(Byte) : s = SubSeq(q, 1, k)
  BY <1>7
<1>9. /\ Len(received') = Len(received) + k
      /\ \A i \in 1 .. Len(received) : received'[i] = received[i]
      /\ \A i \in 1 .. k : received'[Len(received) + i] = accepted - pos + i
  <2>1. received' = received \o s /\ Len(s) = k
    BY <1>4, <1>7, <1>8
  <2>2. \A i \in 1 .. k : s[i] = accepted - pos + i
    BY <1>4, <1>5, <1>6, <1>7, <1>8
  <2> QED BY <1>2, <2>1, <2>2, JoinAt
<1>10. /\ Len(SubSeq(buf', 1, pos')) = pos'
       /\ \A i \in 1 .. pos' : SubSeq(buf', 1, pos')[i] = buf'[i]
       /\ pos' \in Nat
  <2>1. IInv' /\ file' \in FileType
    BY IOFileAssumption DEF IInv, TypeOK
  <2>2. InitSize' \in Nat
    BY <2>1 DEF InitSize, FileType
  <2>3. buf' \in [1 .. InitSize' -> Byte] /\ pos' \in 0 .. InitSize'
    BY <2>1 DEF IInv, TypeOK
  <2>4. PICK f, M, p : f = buf' /\ M = InitSize' /\ p = pos'
    OBVIOUS
  <2>5. f \in [1 .. M -> Byte] /\ M \in Nat /\ p \in 0 .. M
    BY <2>2, <2>3, <2>4
  <2>6. /\ SubSeq(f, 1, p) \in Seq(Byte) /\ Len(SubSeq(f, 1, p)) = p
        /\ \A x \in 1 .. p : SubSeq(f, 1, p)[x] = f[x]
    BY <2>5, FrontOfBuffer
  <2>7. pos' \in Nat
    BY <2>4, <2>5
  <2> QED BY <2>4, <2>6, <2>7, Zenon
<1>11. CASE SubSeq(buf', 1, pos') = SubSeq(q, k + 1, pos + m)
  <2>1. /\ Len(SubSeq(q, k + 1, N)) = N - k
        /\ \A i \in 1 .. N - k : SubSeq(q, k + 1, N)[i] = q[k + i]
    <3>1. k \in Nat /\ N \in 0 .. N /\ k <= N
      BY <1>4, <1>5
    <3>2. /\ Len(SubSeq(q, k + 1, N)) = IF k <= N THEN N - k ELSE 0
          /\ \A i \in 1 .. N - k : SubSeq(q, k + 1, N)[i] = q[k + i]
      BY <1>6, <3>1, Cut
    <3> QED BY <3>1, <3>2
  <2> DEFINE T == SubSeq(q, k + 1, N)
             U == SubSeq(buf', 1, pos')
  <2>5. /\ Len(U) = pos' /\ Len(T) = N - k /\ U = T
        /\ \A i \in 1 .. pos' : U[i] = buf'[i]
        /\ \A i \in 1 .. N - k : T[i] = q[k + i]
    BY <1>5, <1>10, <1>11, <2>1, Zenon
  <2> HIDE DEF T, U
  <2>2. pos' = pos + m - k
    <3>1. pos' = N - k
      BY <2>5, Zenon
    <3> QED BY <1>2, <1>5, <3>1
  <2>3. ASSUME NEW i \in 1 .. pos + m - k PROVE buf'[i] = accepted - pos + k + i
    <3>1. i \in 1 .. pos' /\ i \in 1 .. N - k
      <4>1. pos' = pos + m - k /\ N - k = pos + m - k
        BY <1>2, <1>5, <2>2
      <4> QED BY <4>1, Zenon
    <3>2. buf'[i] = q[k + i]
      BY <2>5, <3>1, Zenon
    <3>3. k + i \in 1 .. N
      BY <1>2, <1>4, <1>5
    <3>4. q[k + i] = accepted - pos + (k + i)
      BY <1>6, <3>3
    <3> QED BY <1>2, <3>2, <3>4
  <2> QED BY <1>2, <1>4, <1>9, <2>2, <2>3 DEF Hands
<1>12. CASE SubSeq(buf', 1, pos') = << >> /\ err'
  <2>1. pos' = 0
    <3>1. Len(<< >>) = 0
      OBVIOUS
    <3> QED BY <1>10, <1>12, <3>1, Zenon
  <2> QED BY <1>2, <1>4, <1>9, <1>12, <2>1 DEF Hands
<1> QED BY <1>4, <1>11, <1>12, Zenon

LEMMA PushesHands ==
  ASSUME Ready, Lasting, Known, last_op = "Write", NEW v \in 0 .. size, Pushes(v),
         buf' = buf, accepted' = accepted
  PROVE  \E k, j, d \in Nat : Hands(0, k, j, d)
<1>1. /\ pos \in 0 .. size /\ size \in Nat /\ buf \in [1 .. size -> Byte] /\ v \in Nat
      /\ received \in Seq(Byte) /\ pos \in Nat /\ accepted \in Nat /\ Len(received) \in Nat
  BY ReadyFacts, LenProperties
<1>2. \A i \in 1 .. size : buf[i] <= accepted
  BY <1>1 DEF Known
<1>3. \A i \in 1 .. pos : buf[i] = accepted - pos + i
  BY DEF Lasting
<1>4. /\ SubSeq(buf, 1, v) \in Seq(Byte) /\ Len(SubSeq(buf, 1, v)) = v
      /\ \A i \in 1 .. v : SubSeq(buf, 1, v)[i] = buf[i]
  BY <1>1, FrontOfBuffer
<1>5. PICK s \in Seq(Byte) : s = SubSeq(buf, 1, v)
  BY <1>4
<1>6. /\ Len(received') = Len(received) + v
      /\ \A i \in 1 .. Len(received) : received'[i] = received[i]
      /\ \A i \in 1 .. v : received'[Len(received) + i] = buf[i]
  <2>1. received' = received \o s /\ Len(s) = v /\ \A i \in 1 .. v : s[i] = buf[i]
    BY <1>4, <1>5 DEF Pushes
  <2> QED BY <1>1, <2>1, JoinAt
<1>7. CASE pos <= v
  <2>1. PICK j \in Nat : j = v - pos
    BY <1>1, <1>7
  <2>2. ASSUME NEW d \in {0, pos}, (pos' = pos /\ d = 0) \/ (pos' = 0 /\ d = pos)
        PROVE  Hands(0, pos, j, d)
    <3>1. Len(received') = Len(received) + pos + j
      BY <1>1, <1>6, <2>1
    <3>3. ASSUME NEW i \in 1 .. pos PROVE received'[Len(received) + i] = accepted - pos + i
      <4>1. i \in 1 .. v
        BY <1>1, <1>7
      <4>2. received'[Len(received) + i] = buf[i] /\ buf[i] = accepted - pos + i
        BY <1>3, <1>6, <4>1, Zenon
      <4> QED BY <4>2, Zenon
    <3>4. ASSUME NEW i \in pos + 1 .. pos + j PROVE received'[Len(received) + i] <= accepted
      <4>1. i \in 1 .. v /\ i \in 1 .. size
        BY <1>1, <1>7, <2>1
      <4>2. received'[Len(received) + i] = buf[i] /\ buf[i] <= accepted
        BY <1>2, <1>6, <4>1, Zenon
      <4> QED BY <4>2
    <3>5. /\ pos <= pos + 0 /\ d <= pos /\ (j > 0 => pos = pos + 0) /\ accepted' = accepted + 0
      BY <1>1, <2>2
    <3>2. pos' = pos + 0 - d /\ \A i \in 1 .. pos + 0 - d : buf'[i] = accepted - pos + d + i
      BY <1>1, <1>3, <2>2
    <3> QED BY <1>6, <3>1, <3>2, <3>3, <3>4, <3>5, Zenon DEF Hands
  <2> QED BY <1>1, <2>2 DEF Pushes
<1>8. CASE ~(pos <= v)
  <2>1. pos' = pos
    BY <1>8 DEF Pushes
  <2>2. ASSUME NEW i \in 1 .. v PROVE received'[Len(received) + i] = accepted - pos + i
    <3>1. i \in 1 .. pos
      BY <1>1, <1>8
    <3>2. received'[Len(received) + i] = buf[i] /\ buf[i] = accepted - pos + i
      BY <1>3, <1>6, <3>1, Zenon
    <3> QED BY <3>2, Zenon
  <2>3. pos' = pos + 0 - 0 /\ \A i \in 1 .. pos + 0 - 0 : buf'[i] = accepted - pos + 0 + i
    BY <1>1, <1>3, <2>1
  <2>4. Hands(0, v, 0, 0)
    BY <1>1, <1>6, <1>8, <2>2, <2>3 DEF Hands
  <2>5. 0 \in Nat
    OBVIOUS
  <2> QED BY <1>1, <2>4, <2>5
<1> QED BY <1>7, <1>8, Zenon

(* What a write puts into the buffer is accepted, or nobody's.             *)
LEMMA PutKnown ==
  ASSUME NEW N \in Nat, NEW b \in [1 .. N -> Byte], NEW p \in Nat, NEW s \in Seq(Byte),
         NEW a \in Nat, \A i \in 1 .. N : b[i] <= a, \A i \in 1 .. Len(s) : s[i] <= a
  PROVE  \A i \in 1 .. N : Put(b, p, s)[i] <= a
<1> SUFFICES ASSUME NEW i \in 1 .. N PROVE Put(b, p, s)[i] <= a
  OBVIOUS
<1>1. Put(b, p, s)[i] = IF i - p \in 1 .. Len(s) THEN s[i - p] ELSE b[i]
  BY DEF Put
<1>2. CASE i - p \in 1 .. Len(s)
  BY <1>1, <1>2
<1>3. CASE ~(i - p \in 1 .. Len(s))
  BY <1>1, <1>3
<1> QED BY <1>2, <1>3

LEMMA Higher ==
  ASSUME NEW N \in Nat, NEW b \in [1 .. N -> Byte], NEW a \in Nat, NEW c \in Nat, a <= c,
         \A i \in 1 .. N : b[i] <= a
  PROVE  \A i \in 1 .. N : b[i] <= c
<1> SUFFICES ASSUME NEW i \in 1 .. N PROVE b[i] <= c
  OBVIOUS
<1>1. b[i] \in Int
  BY IOFileAssumption DEF Byte
<1> QED BY <1>1

LEMMA WriteKnown ==
  ASSUME Ready, Known, NEW n \in Nat, accepted + n <= MaxBytes, WriteUnlocked(Data(n)),
         accepted' \in Nat
  PROVE  \A i \in 1 .. size : buf'[i] <= accepted'
<1>1. /\ pos \in Nat /\ size \in Nat /\ buf \in [1 .. size -> Byte] /\ accepted \in Nat
      /\ \A i \in 1 .. size : buf[i] <= accepted
  BY ReadyFacts DEF Known
<1>2. IInv
  BY DEF Ready
<1>3. ASSUME NEW m \in 0 .. n, NEW c \in Nat, accepted + m <= c
      PROVE  /\ Put(buf, pos, Data(m)) \in [1 .. size -> Byte]
             /\ \A i \in 1 .. size : Put(buf, pos, Data(m))[i] <= c
  <2>1. Data(m) \in Seq(Byte) /\ Len(Data(m)) = m /\ m \in Nat /\ accepted <= c
    BY <1>1, <1>3, DataFacts, IOFileAssumption
  <2>2. \A i \in 1 .. size : buf[i] <= c
    BY <1>1, <2>1, Higher
  <2>3. \A i \in 1 .. m : Data(m)[i] <= c
    BY <1>1, <1>3, <2>1 DEF Data
  <2>4. \A i \in DOMAIN Data(m) : Data(m)[i] \in Byte
    BY DataFacts, <1>1, IOFileAssumption DEF Data, Byte
  <2> HIDE DEF Data
  <2>5. \A i \in 1 .. size : Put(buf, pos, Data(m))[i] <= c
    BY <1>1, <2>1, <2>2, <2>3, PutKnown
  <2>6. Put(buf, pos, Data(m)) \in [1 .. size -> Byte]
    <3>1. PICK s \in Seq(Byte) : s = Data(m)
      BY <2>1
    <3>2. \A i \in 1 .. Len(s) : s[i] \in Byte
      BY ElementOfSeq
    <3> QED BY <1>1, <3>1, <3>2 DEF Put
  <2> QED BY <2>5, <2>6
<1>4. CASE WriteNone(Data(n))
  <2>1. PICK w \in Answers(write_size) :
          \/ UNCHANGED accepted
          \/ \E x \in Answers(Len(Data(n))) : accepted' = accepted + x.value
    BY <1>4, Zenon DEF WriteNone
  <2>2. accepted <= accepted'
    <3>1. CASE \E x \in Answers(Len(Data(n))) : accepted' = accepted + x.value
      <4>1. PICK x \in Answers(n) : accepted' = accepted + x.value
        BY <3>1, DataFacts
      <4>2. x.value \in 0 .. n
        BY <1>2, <4>1, AnswersBound
      <4> QED BY <1>1, <4>1, <4>2
    <3> QED BY <1>1, <2>1, <3>1
  <2>3. buf' = buf
    BY <1>4 DEF WriteNone
  <2> QED BY <1>1, <2>2, <2>3, Higher
<1>5. ASSUME NEW m \in 0 .. n, Fits(n, m) PROVE \A i \in 1 .. size : buf'[i] <= accepted'
  <2>1. buf' = Put(buf, pos, Data(m)) /\ accepted' = accepted + n
    BY <1>5, Zenon DEF Fits
  <2>2. accepted + m <= accepted'
    BY <1>1, <2>1
  <2> QED BY <1>3, <2>1, <2>2
<1>6. ASSUME NEW m \in 0 .. n, NEW w \in Answers(size), Takings(n, m, w)
      PROVE  \A i \in 1 .. size : buf'[i] <= accepted'
  <2> DEFINE F == Put(buf, pos, Data(m))
             R == Rest(Data(n), m)
  <2>1. /\ F \in [1 .. size -> Byte]
        /\ \A c \in Nat : accepted + m <= c => \A i \in 1 .. size : F[i] <= c
    <3>1. accepted + m \in Nat /\ accepted + m <= accepted + m
      BY <1>1
    <3> QED BY <1>3, <3>1
  <2>2. R \in Seq(Byte) /\ Len(R) = n - m /\ R = SubSeq(Data(n), m + 1, n)
    BY DataRest
  <2>3. \A i \in 1 .. Len(R) : R[i] <= accepted + n
    <3>1. Data(n) \in [1 .. n -> Byte] /\ n \in 0 .. n /\ m \in Nat
      <4>1. Data(n) \in Seq(Byte) /\ Len(Data(n)) = n
        BY DataFacts
      <4> HIDE DEF Data
      <4> QED BY <4>1, LenProperties
    <3>2. \A i \in 1 .. n - m : SubSeq(Data(n), m + 1, n)[i] = Data(n)[m + i]
      BY <3>1, Cut
    <3>3. \A i \in 1 .. n - m : Data(n)[m + i] = accepted + (m + i)
      BY DEF Data
    <3>4. ASSUME NEW i \in 1 .. n - m PROVE R[i] <= accepted + n
      <4>1. R[i] = accepted + (m + i)
        BY <2>2, <3>2, <3>3, <3>4, Zenon
      <4> QED BY <1>1, <4>1
    <3> QED BY <2>2, <3>4
  <2> HIDE DEF F, R
  <2>4. CASE Failed(w, pos + m) /\ buf' = Disown(F, accepted')
    BY <1>1, <2>1, <2>4, Disowned
  <2>5. CASE buf' = Put(F, 0, R) /\ accepted' = accepted + n
    <3>1. \A i \in 1 .. size : F[i] <= accepted + n
      BY <1>1, <2>1
    <3>2. accepted + n \in Nat /\ 0 \in Nat
      BY <1>1
    <3>3. \A i \in 1 .. size : Put(F, 0, R)[i] <= accepted + n
      BY <1>1, <2>1, <2>2, <2>3, <3>1, <3>2, PutKnown
    <3> QED BY <2>5, <3>3
  <2>6. CASE \E x \in Answers(Len(R)) : buf' = F /\ accepted' = accepted + m + x.value
    <3>1. PICK x \in Answers(n - m) : buf' = F /\ accepted' = accepted + m + x.value
      BY <2>2, <2>6
    <3>2. n - m \in Nat
      OBVIOUS
    <3>3. x.value \in Nat
      <4>1. x.value \in 0 .. n - m
        <5>1. PICK r \in Nat : r = n - m
          BY <3>2
        <5>2. x \in Answers(r)
          BY <3>1, <5>1, Zenon
        <5> QED BY <1>2, <5>1, <5>2, AnswersBound
      <4> QED BY <3>2, <4>1
    <3>4. accepted + m <= accepted'
      BY <1>1, <3>1, <3>3
    <3> QED BY <2>1, <3>1, <3>4
  <2>7. \/ Failed(w, pos + m) /\ buf' = Disown(F, accepted')
        \/ buf' = Put(F, 0, R) /\ accepted' = accepted + n
        \/ \E x \in Answers(Len(R)) : buf' = F /\ accepted' = accepted + m + x.value
    BY <1>6, Zenon DEF Takings, F, R
  <2> QED BY <2>4, <2>5, <2>6, <2>7
<1>7. CASE WriteFull(Data(n))
  <2>1. PICK m \in 0 .. n : \/ WriteNone(Data(n))
                           \/ Fits(n, m)
                           \/ \E w \in Answers(size) : Takings(n, m, w)
    <3>1. 0 \in 0 .. n
      OBVIOUS
    <3> QED BY <1>7, <3>1, FullCases, Zenon
  <2> QED BY <1>4, <1>5, <1>6, <2>1, Zenon
<1> QED BY <1>4, <1>7, Zenon DEF WriteUnlocked

LEMMA ReadKnown ==
  ASSUME Readable, Known, NEW n \in Nat, Read(n)
  PROVE  \A i \in 1 .. size : buf'[i] <= accepted
<1>1. /\ size \in Nat /\ buf \in [1 .. size -> Byte] /\ accepted \in Nat /\ fetched \in Nat
      /\ \A i \in 1 .. size : buf[i] <= accepted
  BY ReadableFacts DEF Known
<1>2. buf' = buf \/ \E r \in Nat : buf' = Put(buf, 0, [i \in 1 .. r |-> -(fetched + i)])
  <2> DEFINE available == (read_limit - pos) % Word
             to_fetch == n - available
             q == IF to_fetch > size THEN to_fetch ELSE size
  <2>1. CASE n <= available
    BY <2>1, Zenon DEF Read
  <2>2. CASE ~(n <= available)
    <3>1. PICK w \in Answers(q) :
            buf' = buf \/ buf' = Put(buf, 0, [i \in 1 .. w.value |-> -(fetched + i)])
      BY <2>2, Zenon DEF Read
    <3>2. q \in Nat
      <4>1. available \in Int
        BY ReadableFacts
      <4> HIDE DEF available
      <4> QED BY <1>1, <4>1
    <3>3. w.value \in Nat
      <4> HIDE DEF q
      <4>1. IInv
        BY DEF Readable
      <4>2. w \in Answers(q)
        OBVIOUS
      <4>3. w.value \in 0 .. q
        BY <3>2, <4>1, <4>2, AnswersBound
      <4> QED BY <3>2, <4>3
    <3> QED BY <3>1, <3>3
  <2> QED BY <2>1, <2>2, Zenon
<1>3. CASE \E r \in Nat : buf' = Put(buf, 0, [i \in 1 .. r |-> -(fetched + i)])
  <2>1. PICK r \in Nat : buf' = Put(buf, 0, [i \in 1 .. r |-> -(fetched + i)])
    BY <1>3
  <2> DEFINE s == [i \in 1 .. r |-> -(fetched + i)]
  <2>2. Len(s) = r /\ \A i \in 1 .. r : s[i] <= accepted
    BY <1>1
  <2> SUFFICES ASSUME NEW i \in 1 .. size PROVE buf'[i] <= accepted
    OBVIOUS
  <2>3. buf'[i] = IF i - 0 \in 1 .. Len(s) THEN s[i - 0] ELSE buf[i]
    BY <1>1, <2>1 DEF Put
  <2> HIDE DEF s
  <2> QED BY <1>1, <2>2, <2>3
<1> QED BY <1>1, <1>2, <1>3, Zenon

LEMMA WriteAInv ==
  ASSUME IInv, AInv, NEW n \in 0 .. MaxLen, MayTurnTo("Write"), Write(n)
  PROVE  AInv' /\ (lost' # lost => err')
<1>1. Ready /\ Safe /\ Carries(n) /\ n \in Nat /\ accepted + n <= MaxBytes
  BY WriteStep
<1>2. IInv'
  BY WriteIInv
<1>3. /\ last_op' = "Write" /\ Drops /\ size' = size /\ isOpen' = isOpen
      /\ WriteUnlocked(Data(n))
  BY Zenon DEF Write, Data
<1>4. PICK m \in 0 .. n : \E k \in Nat : Sends(m, k)
  BY <1>1, Zenon DEF Carries
<1>5. PICK k \in Nat : Sends(m, k)
  BY <1>4
<1>6. m \in Nat /\ accepted + m <= MaxBytes /\ isOpen'
  BY <1>1, <1>3, <1>4, ReadyFacts, IOFileAssumption DEF Ready
<1>7. Hands(m, k, 0, k)
  BY <1>1, <1>2, <1>3, <1>5, <1>6, SendsHands DEF AInv, Accounts
<1>8. 0 \in Nat
  OBVIOUS
<1>9. Accounts' /\ (lost' # lost => err')
  BY <1>1, <1>2, <1>3, <1>6, <1>7, <1>8, HandsAccounts DEF AInv
<1>10. Known'
  <2>1. accepted' \in Nat
    BY <1>2, IOFileAssumption DEF IInv, TypeOK
  <2>2. \A i \in 1 .. size : buf'[i] <= accepted'
    BY <1>1, <1>3, <2>1, WriteKnown DEF AInv
  <2>3. DOMAIN buf' = 1 .. size
    BY <1>1 DEF Safe
  <2> QED BY <2>2, <2>3 DEF Known
<1> QED BY <1>9, <1>10 DEF AInv

(* Steps that move nothing to the device and drop nothing.                 *)
LEMMA StillAccounts ==
  ASSUME IInv, Accounts, received' = received, accepted' = accepted,
         lost' = lost \/ Drops,
         Pending' = Pending,
         last_op' = "Write" => last_op = "Write" /\ pos' = pos /\ buf' = buf
  PROVE  Accounts' /\ lost' = lost
<1>1. Held' = Held
  BY Zenon DEF Held, Ran
<1>2. lost' = lost
  BY <1>1 DEF Drops, Accounts, Covered
<1>3. Covered'
  BY <1>1, <1>2, Zenon DEF Accounts, Covered
<1>4. Below' /\ WritesInOrder'
  BY <1>2, Zenon DEF Accounts, Below, WritesInOrder
<1>5. Lasting'
  BY Zenon DEF Accounts, Lasting
<1> QED BY <1>2, <1>3, <1>4, <1>5 DEF Accounts

LEMMA ReadAInv ==
  ASSUME IInv, AInv, NEW n \in 0 .. MaxLen, MayTurnTo("Read"), Read(n)
  PROVE  AInv' /\ lost' = lost
<1>1. Readable /\ Placed /\ n \in Nat
  BY ReadStep, IOFileAssumption
<1>2. last_op' = "Read" /\ UNCHANGED <<received, accepted, lost>>
  BY Zenon DEF Read
<1>3. Pending = << >> /\ Pending' = << >>
  BY <1>1, <1>2, NothingPending DEF Pending
<1>4. Accounts'
  BY <1>2, <1>3, StillAccounts DEF AInv
<1>5. \A i \in 1 .. size : buf'[i] <= accepted
  BY <1>1, ReadKnown DEF AInv
<1>6. DOMAIN buf' = 1 .. size
  BY <1>1 DEF Placed
<1>7. Known'
  BY <1>2, <1>5, <1>6 DEF Known
<1> QED BY <1>2, <1>4, <1>7 DEF AInv

LEMMA FlushAInv ==
  ASSUME IInv, IInv', AInv, Settled, Drops
  PROVE  AInv' /\ (lost' # lost => err')
<1>1. UNCHANGED <<buf, last_op, accepted>> /\ Moves
  BY FlushStep DEF Settled
<1>2. Known'
  BY <1>1 DEF AInv, Known
<1>3. CASE last_op = "Write" /\ Ready /\ pos > 0 /\ \E v \in 0 .. size : Pushes(v)
  <2>1. PICK v \in 0 .. size : Pushes(v)
    BY <1>3
  <2>2. PICK k, j, d \in Nat : Hands(0, k, j, d)
    BY <1>1, <1>3, <2>1, PushesHands DEF AInv, Accounts
  <2>3. 0 \in Nat /\ last_op' = "Write"
    BY <1>1, <1>3
  <2>4. Accounts' /\ (lost' # lost => err')
    BY <1>3, <2>2, <2>3, HandsAccounts DEF AInv
  <2> QED BY <1>2, <2>4 DEF AInv
<1>4. CASE last_op = "Read" /\ UNCHANGED received
  <2>1. Pending = << >> /\ Pending' = << >> /\ last_op' # "Write"
    BY <1>1, <1>4 DEF Pending
  <2>2. Accounts' /\ lost' = lost
    BY <1>1, <1>4, <2>1, StillAccounts DEF AInv
  <2> QED BY <1>2, <2>2 DEF AInv
<1>5. CASE UNCHANGED <<pos, read_limit, received>>
  <2>1. Pending' = Pending
    BY <1>1, <1>5 DEF Pending, Front
  <2>2. Accounts' /\ lost' = lost
    BY <1>1, <1>5, <2>1, StillAccounts DEF AInv
  <2> QED BY <1>2, <2>2 DEF AInv
<1> QED BY <1>1, <1>3, <1>4, <1>5, Zenon DEF Moves

LEMMA NextAInv ==
  ASSUME IInv, AInv, [Next]_vars PROVE AInv' /\ (lost' # lost => err')
<1>1. ASSUME NEW n \in 0 .. MaxLen, MayTurnTo("Write"), Write(n)
      PROVE  AInv' /\ (lost' # lost => err')
  BY <1>1, WriteAInv
<1>2. ASSUME NEW n \in 0 .. MaxLen, MayTurnTo("Read"), Read(n)
      PROVE  AInv' /\ (lost' # lost => err')
  BY <1>2, ReadAInv
<1>3. CASE Refused \/ Clearerr \/ UNCHANGED vars
  <2>1. UNCHANGED <<buf, pos, last_op, received, accepted, lost>>
    BY <1>3 DEF Refused, Clearerr, vars, cursors, device, history
  <2>2. Pending' = Pending
    BY <2>1 DEF Pending, Front
  <2>3. Accounts'
    BY <2>1, <2>2, StillAccounts DEF AInv
  <2>4. Known'
    BY <2>1 DEF AInv, Known
  <2> QED BY <2>1, <2>3, <2>4 DEF AInv
<1>4. CASE Flush \/ Close
  <2>1. Settled /\ Drops
    BY <1>4, FlushSettles, CloseSettles, Zenon DEF Flush, Close
  <2>2. IInv'
    BY NextIInv
  <2> QED BY <2>1, <2>2, FlushAInv
<1> QED BY <1>1, <1>2, <1>3, <1>4, Zenon DEF Next

LEMMA InitAInv == ASSUME Init PROVE AInv
<1>1. /\ last_op = "None" /\ accepted = 0 /\ received = << >> /\ lost = {}
      /\ buf = [i \in 1 .. InitSize |-> 0]
  BY DEF Init
<1>2. DOMAIN received = {}
  BY <1>1
<1>3. Lasting
  BY <1>1 DEF Lasting
<1>4. 1 .. accepted = {}
  BY <1>1
<1>5. Covered
  BY <1>4 DEF Covered
<1>6. Below /\ WritesInOrder
  BY <1>2 DEF Below, WritesInOrder
<1>7. Known
  BY <1>1 DEF Known
<1> QED BY <1>3, <1>5, <1>6, <1>7 DEF AInv, Accounts

LEMMA AccountsKept == Spec => [](IInv /\ AInv)
<1>1. Init => IInv /\ AInv
  BY InitIInv, InitAInv
<1>2. IInv /\ AInv /\ [Next]_vars => IInv' /\ AInv'
  BY NextIInv, NextAInv
<1> QED BY <1>1, <1>2, PTL DEF Spec

(* Before a byte arrives for the first time, all that were accepted before *)
(* it have arrived, or a failing device lost them: across short writes,    *)
(* repetitions and leftovers, for every buffer and length of the calls.    *)
THEOREM IOFileWritesInOrder == Spec => []WritesInOrder
<1>1. IInv /\ AInv => WritesInOrder
  BY DEF AInv, Accounts
<1> QED BY <1>1, AccountsKept, PTL

(* No byte is at the device or pending that the client was not told is     *)
(* accepted, leftovers of the buffer included.                             *)
THEOREM IOFileNoneUnclaimed == Spec => []NoneUnclaimed
<1>1. IInv /\ AInv => NoneUnclaimed
  <2> SUFFICES ASSUME IInv, AInv PROVE NoneUnclaimed
    OBVIOUS
  <2>1. ASSUME last_op = "Write", NEW i \in 1 .. pos PROVE buf[i] \in 1 .. accepted
    <3>1. buf[i] = accepted - pos + i /\ pos <= accepted
      BY <2>1, Zenon DEF AInv, Accounts, Lasting
    <3>2. accepted \in Nat /\ pos \in Nat
      BY Sizes DEF IInv, TypeOK
    <3> QED BY <3>1, <3>2
  <2>2. ASSUME NEW b \in Held PROVE b <= accepted
    <3>1. CASE \E i \in DOMAIN received : received[i] = b
      BY <3>1, Zenon DEF AInv, Accounts, Below
    <3>2. CASE last_op = "Write" /\ \E i \in 1 .. pos : buf[i] = b
      BY <2>1, <3>2
    <3> QED BY <2>2, <3>1, <3>2, HeldAt, Zenon
  <2>3. Ran(Pending) \subseteq 1 .. accepted
    <3>1. CASE last_op = "Write"
      BY <2>1, <3>1, PendingAt, Zenon DEF Ran
    <3>2. CASE last_op # "Write"
      BY <3>2 DEF Pending, Ran
    <3> QED BY <3>1, <3>2, Zenon
  <2> QED BY <2>2, <2>3 DEF NoneUnclaimed
<1> QED BY <1>1, AccountsKept, PTL

(* A step that drops accepted bytes leaves the error flag set.             *)
THEOREM IOFileLossReported == Spec => LossReported
<1>1. IInv /\ AInv /\ [Next]_vars => [lost' # lost => err']_vars
  BY NextAInv
<1> QED BY <1>1, AccountsKept, PTL DEF Spec, LossReported
-----------------------------------------------------------------------------
(* Without a buffer the device has all that the writes returned.           *)
UInv == file.buf_mode = "None" =>
          /\ received = [n \in 1 .. accepted |-> n]
          /\ last_op = "Write" => pos = 0

LEMMA UnbufferedWrite ==
  ASSUME IInv, UInv, NEW n \in 0 .. MaxLen, MayTurnTo("Write"), Write(n),
         file.buf_mode = "None"
  PROVE  received' = [i \in 1 .. accepted' |-> i] /\ pos' = 0
<1>1. Ready /\ n \in Nat /\ accepted + n <= MaxBytes
  BY WriteStep
<1>2. WriteNone(Data(n))
  BY Zenon DEF Write, WriteUnlocked, Data
<1>3. pos = 0
  BY <1>1 DEF Ready, UInv
<1>4. accepted \in Nat /\ IInv
  BY <1>1, ReadyFacts
<1>5. PICK w \in Answers(0) :
        IF w.value < 0
        THEN UNCHANGED accepted
        ELSE \E x \in Answers(Len(Data(n))) :
             /\ Arrives(Front(buf, 0) \o Front(Data(n), x.value))
             /\ accepted' = accepted + x.value
  BY <1>2, <1>3, Zenon DEF WriteNone, write_size
<1>6. w.value \in 0 .. 0
  BY <1>4, AnswersBound
<1>7. PICK x \in Answers(n) :
             /\ Arrives(Front(buf, 0) \o Front(Data(n), x.value))
             /\ accepted' = accepted + x.value
  BY <1>1, <1>5, <1>6, DataFacts
<1>8. x.value \in 0 .. n
  BY <1>1, <1>4, AnswersBound
<1>9. PICK v \in 0 .. n : v = x.value
  BY <1>8
<1>10. Front(Data(n), v) = Data(v) /\ v \in Nat /\ Data(v) \in Seq(Byte)
  <2>1. v \in Nat /\ accepted + v <= MaxBytes
    BY <1>1, <1>4, IOFileAssumption
  <2> QED BY <1>1, <2>1, DataFacts DEF Front
<1>11. Front(buf, 0) = << >>
  BY NoCut DEF Front
<1>12. received' = received \o Data(v)
  <2>1. received' = received \o (<< >> \o Data(v))
    BY <1>7, <1>9, <1>10, <1>11, Zenon DEF Arrives
  <2>2. << >> \o Data(v) = Data(v)
    BY <1>10, ConcatEmptySeq
  <2> QED BY <2>1, <2>2, Zenon
<1>13. received = [i \in 1 .. accepted |-> i]
  BY DEF UInv
<1>14. [i \in 1 .. accepted |-> i] \o Data(v) = [i \in 1 .. accepted + v |-> i]
  <2> DEFINE r == [i \in 1 .. accepted |-> i]
             s == Data(v)
             t == [i \in 1 .. accepted + v |-> i]
  <2>1. r \in Seq(Int) /\ Len(r) = accepted /\ \A i \in 1 .. accepted : r[i] = i
    BY <1>4, Beginning
  <2>2. s \in Seq(Int) /\ Len(s) = v /\ \A i \in 1 .. v : s[i] = accepted + i
    <3>1. s \in [1 .. v -> Int]
      BY <1>4 DEF Data
    <3>2. v \in 0 .. v
      BY <1>10
    <3>3. s \in Seq(Int) /\ Len(s) = v
      <4> HIDE DEF s
      <4> QED BY <1>10, <3>1, <3>2, Beginning
    <3> QED BY <3>3 DEF Data
  <2>3. t \in Seq(Int) /\ Len(t) = accepted + v /\ \A i \in 1 .. accepted + v : t[i] = i
    <3>1. accepted + v \in Nat /\ accepted + v \in 0 .. accepted + v
      BY <1>4, <1>10
    <3>2. t \in [1 .. accepted + v -> Int] /\ \A i \in 1 .. accepted + v : t[i] = i
      OBVIOUS
    <3> HIDE DEF t
    <3>3. PICK c \in Nat : c = accepted + v
      BY <3>1
    <3>4. t \in [1 .. c -> Int] /\ c \in 0 .. c
      BY <3>2, <3>3
    <3> QED BY <3>2, <3>3, <3>4, Beginning
  <2> HIDE DEF r, s, t
  <2>4. /\ r \o s \in Seq(Int) /\ Len(r \o s) = accepted + v
        /\ \A i \in 1 .. accepted + v : (r \o s)[i] = IF i <= accepted THEN r[i] ELSE s[i - accepted]
    BY <2>1, <2>2, ConcatProperties
  <2>5. ASSUME NEW i \in 1 .. accepted + v PROVE (r \o s)[i] = t[i]
    <3>1. CASE i <= accepted
      <4>1. i \in 1 .. accepted
        BY <1>4, <3>1
      <4> QED BY <2>1, <2>3, <2>4, <3>1, <4>1
    <3>2. CASE ~(i <= accepted)
      <4>1. i - accepted \in 1 .. v /\ accepted + (i - accepted) = i
        BY <1>4, <1>10, <3>2
      <4>2. s[i - accepted] = i
        BY <2>2, <4>1
      <4> QED BY <2>3, <2>4, <3>2, <4>2
    <3> QED BY <3>1, <3>2
  <2>6. r \o s = t
    BY <2>3, <2>4, <2>5, SeqEqual
  <2> QED BY <2>6 DEF r, s, t
<1>15. accepted' = accepted + v /\ pos' = 0
  BY <1>2, <1>7, <1>9 DEF WriteNone
<1> QED BY <1>12, <1>13, <1>14, <1>15, Zenon

LEMMA NextUInv == ASSUME IInv, UInv, [Next]_vars PROVE UInv'
<1>1. ASSUME NEW n \in 0 .. MaxLen, MayTurnTo("Write"), Write(n) PROVE UInv'
  <2>1. file' = file
    BY <1>1, Zenon DEF Write
  <2>2. CASE file.buf_mode = "None"
    BY <1>1, <2>2, UnbufferedWrite, Zenon DEF UInv
  <2> QED BY <2>1, <2>2, Zenon DEF UInv
<1>2. ASSUME NEW n \in 0 .. MaxLen, Read(n) PROVE UInv'
  <2>1. last_op' = "Read" /\ UNCHANGED <<file, received, accepted>>
    BY <1>2, Zenon DEF Read
  <2> QED BY <2>1 DEF UInv
<1>3. CASE Refused \/ Clearerr \/ UNCHANGED vars
  <2>1. UNCHANGED <<file, received, accepted, last_op, pos>>
    BY <1>3 DEF Refused, Clearerr, vars, cursors, device, history
  <2> QED BY <2>1, Zenon DEF UInv
<1>4. CASE Flush \/ Close
  <2>1. Settled
    BY <1>4, FlushSettles, CloseSettles
  <2>2. UNCHANGED <<file, last_op, accepted>> /\ Moves
    BY <2>1, FlushStep DEF Settled
  <2>3. CASE file.buf_mode = "None"
    <3>1. last_op = "Write" => pos = 0
      BY <2>3 DEF UInv
    <3>2. CASE last_op = "Read" /\ UNCHANGED received
      BY <2>2, <3>2, Zenon DEF UInv
    <3>3. CASE UNCHANGED <<pos, received>>
      BY <2>2, <3>3, Zenon DEF UInv
    <3>4. ~(last_op = "Write" /\ pos > 0)
      BY <3>1
    <3> QED BY <2>2, <3>2, <3>3, <3>4, Zenon DEF Moves
  <2> QED BY <2>2, <2>3, Zenon DEF UInv
<1> QED BY <1>1, <1>2, <1>3, <1>4, Zenon DEF Next

(* An unbuffered file keeps nothing back: its device has what the writes   *)
(* returned as written, each byte once and in order.                       *)
THEOREM IOFileNothingHeldBack == Spec => []NothingHeldBack
<1>1. Init => UInv
  <2> SUFFICES ASSUME Init PROVE received = [n \in 1 .. accepted |-> n] /\ last_op # "Write"
    BY DEF UInv
  <2>1. received = << >> /\ accepted = 0 /\ last_op = "None"
    BY DEF Init
  <2>2. 1 .. accepted = {}
    BY <2>1
  <2> QED BY <2>1, <2>2
<1>2. IInv /\ UInv /\ [Next]_vars => UInv'
  BY NextUInv
<1>3. UInv => NothingHeldBack
  BY DEF UInv, NothingHeldBack
<1> QED BY <1>1, <1>2, <1>3, InitIInv, NextIInv, PTL DEF Spec
-----------------------------------------------------------------------------
(* The accounts of the readers: s falls, what is in it is not in K, and    *)
(* together they are the first f bytes of the device.                      *)
Account(s, K, f) ==
  /\ s \in Seq(Int) /\ K \subseteq Int /\ f \in Nat
  /\ \A i, j \in 1 .. Len(s) : i < j => s[i] > s[j]
  /\ \A i \in 1 .. Len(s) : s[i] \in -f .. -1 /\ s[i] \notin K
  /\ \A x \in K : x \in -f .. -1
  /\ \A x \in -f .. -1 : x \in K \/ \E i \in 1 .. Len(s) : s[i] = x

LEMMA AccountOn ==
  ASSUME NEW f \in Nat, NEW r \in Nat, NEW s, NEW K, Account(s, K, f)
  PROVE  Account(s \o [i \in 1 .. r |-> -(f + i)], K, f + r)
<1> DEFINE d == [i \in 1 .. r |-> -(f + i)]
           t == s \o d
<1>1. d \in Seq(Int) /\ Len(d) = r /\ \A i \in 1 .. r : d[i] = -(f + i)
  <2>1. d \in [1 .. r -> Int]
    OBVIOUS
  <2>2. d \in Seq(Int)
    BY <2>1, SeqDef
  <2>3. Len(d) = r
    BY <2>1, <2>2
  <2> QED BY <2>2, <2>3
<1>2. s \in Seq(Int) /\ Len(s) \in Nat /\ K \subseteq Int
  BY DEF Account
<1> HIDE DEF d
<1>3. /\ t \in Seq(Int) /\ Len(t) = Len(s) + r
      /\ \A i \in 1 .. Len(s) + r : t[i] = IF i <= Len(s) THEN s[i] ELSE d[i - Len(s)]
  BY <1>1, <1>2, ConcatProperties
<1> HIDE DEF t
<1>4. ASSUME NEW i \in 1 .. Len(s)
      PROVE  i \in 1 .. Len(t) /\ t[i] = s[i] /\ t[i] \in -f .. -1 /\ t[i] \notin K
  <2>1. i \in 1 .. Len(s) + r /\ i <= Len(s)
    BY <1>2
  <2>2. t[i] = s[i]
    BY <1>3, <2>1
  <2> QED BY <1>3, <2>1, <2>2, Zenon DEF Account
<1>5. ASSUME NEW c \in 1 .. r
      PROVE  Len(s) + c \in 1 .. Len(t) /\ t[Len(s) + c] = -(f + c)
  <2>1. Len(s) + c \in 1 .. Len(s) + r /\ ~(Len(s) + c <= Len(s)) /\ Len(s) + c - Len(s) = c
    BY <1>2
  <2>2. t[Len(s) + c] = d[c]
    BY <1>3, <2>1
  <2> QED BY <1>1, <1>3, <2>1, <2>2
<1>6. ASSUME NEW i \in 1 .. Len(t)
      PROVE  i \in 1 .. Len(s) \/ \E c \in 1 .. r : i = Len(s) + c
  <2>1. CASE i <= Len(s)
    BY <1>2, <2>1
  <2>2. CASE ~(i <= Len(s))
    <3>1. i - Len(s) \in 1 .. r /\ i = Len(s) + (i - Len(s))
      BY <1>2, <1>3, <2>2
    <3> QED BY <3>1
  <2> QED BY <2>1, <2>2, Zenon
<1>7. ASSUME NEW i \in 1 .. Len(t), NEW j \in 1 .. Len(t), i < j PROVE t[i] > t[j]
  <2>1. CASE i \in 1 .. Len(s) /\ j \in 1 .. Len(s)
    BY <1>4, <1>7, <2>1 DEF Account
  <2>2. CASE i \in 1 .. Len(s) /\ \E c \in 1 .. r : j = Len(s) + c
    <3>1. PICK c \in 1 .. r : j = Len(s) + c
      BY <2>2
    <3>2. t[i] \in -f .. -1 /\ t[j] = -(f + c)
      BY <1>4, <1>5, <2>2, <3>1
    <3> QED BY <3>2
  <2>3. CASE (\E c \in 1 .. r : i = Len(s) + c) /\ \E c \in 1 .. r : j = Len(s) + c
    <3>1. PICK b \in 1 .. r, c \in 1 .. r : i = Len(s) + b /\ j = Len(s) + c
      BY <2>3
    <3>2. t[i] = -(f + b) /\ t[j] = -(f + c)
      BY <1>5, <3>1
    <3> QED BY <1>2, <1>7, <3>1, <3>2
  <2>4. CASE (\E c \in 1 .. r : i = Len(s) + c) /\ j \in 1 .. Len(s)
    BY <1>2, <1>7, <2>4
  <2> QED BY <1>6, <2>1, <2>2, <2>3, <2>4
<1>8. ASSUME NEW i \in 1 .. Len(t) PROVE t[i] \in -(f + r) .. -1 /\ t[i] \notin K
  <2>1. CASE i \in 1 .. Len(s)
    <3>1. t[i] \in -f .. -1 /\ t[i] \notin K
      BY <1>4, <2>1
    <3> QED BY <3>1
  <2>2. CASE \E c \in 1 .. r : i = Len(s) + c
    <3>1. PICK c \in 1 .. r : i = Len(s) + c
      BY <2>2
    <3>2. t[i] = -(f + c)
      BY <1>5, <3>1
    <3>3. -(f + c) \in -(f + r) .. -1 /\ ~(-(f + c) \in -f .. -1)
      OBVIOUS
    <3>4. t[i] \notin K
      BY <3>2, <3>3, Zenon DEF Account
    <3> QED BY <3>2, <3>3, <3>4
  <2> QED BY <1>6, <2>1, <2>2
<1>9. ASSUME NEW x \in K PROVE x \in -(f + r) .. -1
  <2>1. x \in -f .. -1
    BY Zenon DEF Account
  <2> QED BY <2>1
<1>10. ASSUME NEW x \in -(f + r) .. -1 PROVE x \in K \/ \E i \in 1 .. Len(t) : t[i] = x
  <2>1. CASE x \in -f .. -1
    <3>1. x \in K \/ \E i \in 1 .. Len(s) : s[i] = x
      BY <2>1, Zenon DEF Account
    <3> QED BY <1>4, <3>1, Zenon
  <2>2. CASE ~(x \in -f .. -1)
    <3>1. -x - f \in 1 .. r /\ x = -(f + (-x - f))
      BY <2>2
    <3>2. PICK c \in 1 .. r : x = -(f + c)
      BY <3>1
    <3> QED BY <1>5, <3>2
  <2> QED BY <2>1, <2>2, Zenon
<1>11. f + r \in Nat
  OBVIOUS
<1>12. Account(t, K, f + r)
  BY <1>2, <1>3, <1>7, <1>8, <1>9, <1>10, <1>11, Zenon DEF Account
<1> QED BY <1>12 DEF t, d

(* What is dropped from the end of s goes to K.                            *)
LEMMA AccountSkip ==
  ASSUME NEW s \in Seq(Int), NEW u \in Seq(Int), NEW K, NEW f, Account(s \o u, K, f)
  PROVE  Account(s, K \cup {u[i] : i \in DOMAIN u}, f)
<1> DEFINE t == s \o u
           L == K \cup {u[i] : i \in DOMAIN u}
<1>1. /\ Len(t) = Len(s) + Len(u) /\ Len(s) \in Nat /\ Len(u) \in Nat
      /\ \A i \in 1 .. Len(s) + Len(u) : t[i] = IF i <= Len(s) THEN s[i] ELSE u[i - Len(s)]
      /\ DOMAIN u = 1 .. Len(u)
  BY ConcatProperties, LenProperties
<1>2. /\ K \subseteq Int /\ f \in Nat
      /\ \A i, j \in 1 .. Len(t) : i < j => t[i] > t[j]
      /\ \A i \in 1 .. Len(t) : t[i] \in -f .. -1 /\ t[i] \notin K
      /\ \A x \in K : x \in -f .. -1
      /\ \A x \in -f .. -1 : x \in K \/ \E i \in 1 .. Len(t) : t[i] = x
  BY Zenon DEF Account
<1> HIDE DEF t
<1>3. ASSUME NEW i \in 1 .. Len(s) PROVE i \in 1 .. Len(t) /\ t[i] = s[i]
  <2>1. i \in 1 .. Len(s) + Len(u) /\ i <= Len(s)
    BY <1>1
  <2> QED BY <1>1, <2>1
<1>4. ASSUME NEW i \in 1 .. Len(u) PROVE Len(s) + i \in 1 .. Len(t) /\ t[Len(s) + i] = u[i]
  <2>1. Len(s) + i \in 1 .. Len(s) + Len(u) /\ ~(Len(s) + i <= Len(s)) /\ Len(s) + i - Len(s) = i
    BY <1>1
  <2> QED BY <1>1, <2>1
<1>5. ASSUME NEW i \in 1 .. Len(s), NEW j \in 1 .. Len(s), i < j PROVE s[i] > s[j]
  <2>1. /\ i \in 1 .. Len(t) /\ t[i] = s[i] /\ j \in 1 .. Len(t) /\ t[j] = s[j]
    BY <1>3
  <2> QED BY <1>2, <1>5, <2>1, Zenon
<1>6. ASSUME NEW i \in 1 .. Len(s), NEW j \in 1 .. Len(u) PROVE s[i] # u[j]
  <2>1. t[i] = s[i] /\ t[Len(s) + j] = u[j] /\ i \in 1 .. Len(t) /\ Len(s) + j \in 1 .. Len(t)
    BY <1>3, <1>4
  <2>2. i < Len(s) + j
    BY <1>1
  <2>3. t[i] > t[Len(s) + j]
    BY <1>2, <2>1, <2>2, Zenon
  <2>4. t[i] \in -f .. -1
    BY <1>2, <2>1, Zenon
  <2> QED BY <1>2, <2>1, <2>3, <2>4
<1>7. ASSUME NEW i \in 1 .. Len(s) PROVE s[i] \in -f .. -1 /\ s[i] \notin L
  <2>1. t[i] = s[i] /\ i \in 1 .. Len(t)
    BY <1>3
  <2>2. s[i] \in -f .. -1 /\ s[i] \notin K
    BY <1>2, <2>1, Zenon
  <2> QED BY <1>1, <1>6, <2>2
<1>8. ASSUME NEW x \in L PROVE x \in -f .. -1
  <2>1. CASE x \in K
    BY <1>2, <2>1, Zenon
  <2>2. CASE \E i \in 1 .. Len(u) : x = u[i]
    BY <1>2, <1>4, <2>2, Zenon
  <2> QED BY <1>1, <1>8, <2>1, <2>2
<1>9. ASSUME NEW x \in -f .. -1 PROVE x \in L \/ \E i \in 1 .. Len(s) : s[i] = x
  <2>1. CASE x \in K
    BY <2>1
  <2>2. CASE \E i \in 1 .. Len(t) : t[i] = x
    <3>1. PICK i \in 1 .. Len(t) : t[i] = x
      BY <2>2
    <3>2. CASE i <= Len(s)
      <4>1. i \in 1 .. Len(s)
        BY <1>1, <3>2
      <4> QED BY <1>3, <3>1, <4>1, Zenon
    <3>3. CASE ~(i <= Len(s))
      <4>1. i - Len(s) \in 1 .. Len(u) /\ i \in 1 .. Len(s) + Len(u)
        BY <1>1, <3>3
      <4>2. x = u[i - Len(s)]
        BY <1>1, <3>1, <3>3, <4>1, Zenon
      <4> QED BY <1>1, <4>1, <4>2
    <3> QED BY <3>2, <3>3, Zenon
  <2> QED BY <1>2, <2>1, <2>2, Zenon
<1>10. L \subseteq Int
  <2> HIDE DEF L
  <2>1. \A x \in -f .. -1 : x \in Int
    BY <1>2
  <2> QED BY <1>8, <2>1, Zenon
<1> HIDE DEF L
<1>11. Account(s, L, f)
  BY <1>2, <1>5, <1>7, <1>8, <1>9, <1>10, Zenon DEF Account
<1> QED BY <1>11 DEF L

LEMMA ByteIsInt == ASSUME NEW s \in Seq(Byte) PROVE s \in Seq(Int)
<1>1. \A b \in Byte : b \in Int
  BY IOFileAssumption DEF Byte
<1>2. Len(s) \in Nat /\ s \in [1 .. Len(s) -> Byte]
  BY LenProperties
<1>3. PICK n \in Nat : n = Len(s)
  BY <1>2
<1>4. s \in [1 .. n -> Int]
  BY <1>1, <1>2, <1>3
<1> QED BY <1>4, Beginning

RInv == Account(delivered \o Unread, skipped, fetched)

LEMMA Reading ==
  ASSUME IInv PROVE delivered \in Seq(Byte) /\ Unread \in Seq(Byte)
<1>1. delivered \in Seq(Byte)
  BY DEF IInv, TypeOK
<1>2. CASE last_op = "Read"
  <2>1. SubSeq(buf, pos + 1, read_limit) \in Seq(Byte)
    <3>1. /\ buf \in [1 .. InitSize -> Byte] /\ InitSize \in Nat /\ pos \in Nat
          /\ read_limit \in 0 .. InitSize
      BY Sizes DEF IInv, TypeOK
    <3> QED BY <3>1, Cut
  <2> QED BY <1>1, <1>2, <2>1, Zenon DEF Unread
<1>3. CASE last_op # "Read"
  BY <1>1, <1>3 DEF Unread
<1> QED BY <1>2, <1>3, Zenon

LEMMA ReadRInv ==
  ASSUME IInv, RInv, NEW n \in 0 .. MaxLen, MayTurnTo("Read"), Read(n) PROVE RInv'
<1>1. Readable /\ \E r, k \in Nat : Receives(r, k)
  BY ReadStep
<1>2. PICK r \in Nat, k \in Nat : Receives(r, k)
  BY <1>1
<1>3. /\ k \in 0 .. Len(In(r)) /\ fetched' = fetched + r /\ fetched + r <= MaxBytes
      /\ delivered' = delivered \o SubSeq(In(r), 1, k)
      /\ SubSeq(buf', pos' + 1, read_limit') = SubSeq(In(r), k + 1, Len(In(r)))
  BY <1>2, Zenon DEF Receives
<1>4. last_op' = "Read" /\ skipped' = skipped
  BY Zenon DEF Read
<1>5. Unread' = SubSeq(In(r), k + 1, Len(In(r)))
  BY <1>3, <1>4, Zenon DEF Unread
<1>6. Unread = Ahead
  <2>1. CASE last_op = "Read"
    BY <2>1, Zenon DEF Unread, Ahead
  <2>2. CASE last_op # "Read"
    <3>1. pos = 0 /\ read_limit = 0
      BY <1>1, <2>2, ReadableFacts DEF Readable
    <3>2. Ahead = << >>
      BY <3>1, NoCut DEF Ahead
    <3> QED BY <2>2, <3>2, Zenon DEF Unread
  <2> QED BY <2>1, <2>2, Zenon
<1>7. /\ delivered \in Seq(Byte) /\ Ahead \in Seq(Byte) /\ Given(r) \in Seq(Byte)
      /\ In(r) \in Seq(Byte) /\ fetched \in Nat
  BY <1>1, <1>3, ReadableFacts, GivenFacts, InFacts
<1>8. PICK q \in Seq(Byte) : q = In(r)
  BY <1>7
<1>9. SubSeq(q, 1, k) \o SubSeq(q, k + 1, Len(q)) = q
      /\ SubSeq(q, 1, k) \in Seq(Byte) /\ SubSeq(q, k + 1, Len(q)) \in Seq(Byte)
  <2>1. Len(q) \in Nat /\ k \in 0 .. Len(q)
    BY <1>3, <1>8
  <2>2. 1 \in 1 .. Len(q) + 1 /\ k \in 1 - 1 .. Len(q) /\ Len(q) \in k .. Len(q)
    BY <2>1
  <2>3. SubSeq(q, 1, k) \o SubSeq(q, k + 1, Len(q)) = SubSeq(q, 1, Len(q))
    BY <2>2, ConcatAdjacentSubSeq
  <2>4. SubSeq(q, 1, Len(q)) = q
    BY SubSeqFull
  <2>5. /\ 1 \in Int /\ k \in Int /\ k + 1 \in Int /\ Len(q) \in Int
        /\ (\A i \in 1 .. k : q[i] \in Byte) /\ (\A i \in k + 1 .. Len(q) : q[i] \in Byte)
    BY <2>1, ElementOfSeq
  <2>6. SubSeq(q, 1, k) \in Seq(Byte) /\ SubSeq(q, k + 1, Len(q)) \in Seq(Byte)
    BY <2>5, SubSeqProperties
  <2> QED BY <2>3, <2>4, <2>6
<1>10. delivered' \o Unread' = delivered \o q
  <2>1. (delivered \o SubSeq(q, 1, k)) \o SubSeq(q, k + 1, Len(q))
          = delivered \o (SubSeq(q, 1, k) \o SubSeq(q, k + 1, Len(q)))
    <3>1. /\ delivered \in Seq(Byte) /\ SubSeq(q, 1, k) \in Seq(Byte)
          /\ SubSeq(q, k + 1, Len(q)) \in Seq(Byte)
      BY <1>7, <1>9
    <3> QED BY <3>1, Regroup, Zenon
  <2> QED BY <1>3, <1>5, <1>8, <1>9, <2>1, Zenon
<1>11. (delivered \o Ahead) \o Given(r) = delivered \o q
  BY <1>7, <1>8, Regroup, Zenon DEF In
<1>12. delivered' \o Unread' = (delivered \o Unread) \o Given(r)
  BY <1>6, <1>10, <1>11, Zenon
<1>13. Account((delivered \o Unread) \o Given(r), skipped, fetched + r)
  <2>1. PICK s : s = delivered \o Unread
    OBVIOUS
  <2>2. Account(s, skipped, fetched)
    BY <2>1, Zenon DEF RInv
  <2>3. Account(s \o [i \in 1 .. r |-> -(fetched + i)], skipped, fetched + r)
    BY <1>7, <2>2, AccountOn
  <2> QED BY <2>1, <2>3, Zenon DEF Given
<1> QED BY <1>3, <1>4, <1>12, <1>13, Zenon DEF RInv

LEMMA FlushRInv ==
  ASSUME IInv, RInv, NEW ok, FlushUnlocked(ok),
         UNCHANGED <<buf, last_op, fetched, delivered>>
  PROVE  RInv'
<1>1. ASSUME Unread' = Unread, skipped' = skipped PROVE RInv'
  BY <1>1, Zenon DEF RInv
<1>2. CASE last_op = "Read" /\ pos > 0
  <2>1. /\ pos' = 0 /\ read_limit' = 0
        /\ skipped' = skipped \cup {Unread[i] : i \in DOMAIN Unread}
    <3>1. ~(last_op = "Write" /\ pos > 0)
      BY <1>2
    <3> QED BY <1>2, <3>1, Zenon DEF FlushUnlocked
  <2>2. Unread' = << >>
    <3>1. SubSeq(buf', pos' + 1, read_limit') = << >>
      BY <2>1, NoCut
    <3> QED BY <3>1, Zenon DEF Unread
  <2>3. PICK s \in Seq(Int), u \in Seq(Int) : s = delivered /\ u = Unread
    BY Reading, ByteIsInt, Zenon
  <2>4. Account(s \o u, skipped, fetched)
    BY <2>3, Zenon DEF RInv
  <2>5. Account(s, skipped \cup {u[i] : i \in DOMAIN u}, fetched)
    BY <2>4, AccountSkip
  <2>6. delivered \o << >> = delivered
    BY Reading, ConcatEmptySeq
  <2> QED BY <2>1, <2>2, <2>3, <2>5, <2>6, Zenon DEF RInv
<1>3. CASE last_op = "Write"
  <2>1. skipped' = skipped
    <3>1. ~(last_op = "Read" /\ pos > 0)
      BY <1>3
    <3> QED BY <3>1, Zenon DEF FlushUnlocked
  <2>2. Unread = << >> /\ Unread' = << >>
    BY <1>3 DEF Unread
  <2> QED BY <1>1, <2>1, <2>2
<1>4. CASE last_op # "Write" /\ ~(last_op = "Read" /\ pos > 0)
  <2>1. UNCHANGED <<pos, read_limit, skipped>>
    BY <1>4, Zenon DEF FlushUnlocked
  <2>2. Unread' = Unread
    BY <2>1, Zenon DEF Unread
  <2> QED BY <1>1, <2>1, <2>2
<1> QED BY <1>2, <1>3, <1>4, Zenon

LEMMA NextRInv == ASSUME IInv, RInv, [Next]_vars PROVE RInv'
<1>1. ASSUME NEW n \in 0 .. MaxLen, MayTurnTo("Write"), Write(n) PROVE RInv'
  <2>1. Ready
    BY <1>1, WriteStep
  <2>2. last_op' = "Write" /\ UNCHANGED <<fetched, delivered, skipped>>
    BY <1>1, Zenon DEF Write
  <2>3. Unread = << >>
    <3>1. CASE last_op = "Read"
      <4>1. pos = 0 /\ read_limit = 0
        BY <2>1, <3>1 DEF Ready, IInv, CursorsInBuffer
      <4>2. SubSeq(buf, pos + 1, read_limit) = << >>
        BY <4>1, NoCut
      <4> QED BY <4>2, Zenon DEF Unread
    <3> QED BY <3>1, Zenon DEF Unread
  <2>4. Unread' = << >>
    BY <2>2 DEF Unread
  <2> QED BY <2>2, <2>3, <2>4, Zenon DEF RInv
<1>2. ASSUME NEW n \in 0 .. MaxLen, MayTurnTo("Read"), Read(n) PROVE RInv'
  BY <1>2, ReadRInv
<1>3. CASE Flush
  BY <1>3, FlushRInv, Zenon DEF Flush
<1>4. CASE Close
  BY <1>4, FlushRInv, Zenon DEF Close
<1>5. CASE Refused \/ Clearerr \/ UNCHANGED vars
  <2>1. UNCHANGED <<buf, pos, read_limit, last_op, fetched, delivered, skipped>>
    BY <1>5 DEF Refused, Clearerr, vars, cursors, device, history
  <2>2. Unread' = Unread
    BY <2>1, Zenon DEF Unread
  <2> QED BY <2>1, <2>2, Zenon DEF RInv
<1> QED BY <1>1, <1>2, <1>3, <1>4, <1>5, Zenon DEF Next

(* Readers get the bytes of the device in its order, each once: those      *)
(* delivered, discarded by a flush and still unread are all it has given,  *)
(* however reads fall on what was fetched.                                 *)
THEOREM IOFileReadsInOrder == Spec => []ReadsInOrder
<1>1. Init => RInv
  <2> SUFFICES ASSUME Init PROVE RInv
    OBVIOUS
  <2>1. Unread = << >> /\ delivered = << >> /\ skipped = {} /\ fetched = 0
    BY DEF Init, Unread
  <2>2. << >> \o << >> = << >>
    OBVIOUS
  <2>3. Account(<< >>, {}, 0)
    BY DEF Account
  <2> QED BY <2>1, <2>2, <2>3, Zenon DEF RInv
<1>2. IInv /\ RInv /\ [Next]_vars => RInv'
  BY NextRInv
<1>3. RInv => ReadsInOrder
  <2> SUFFICES ASSUME RInv PROVE ReadsInOrder
    OBVIOUS
  <2> DEFINE seen == delivered \o Unread
  <2>1. Account(seen, skipped, fetched)
    BY DEF RInv
  <2> HIDE DEF seen
  <2>2. DOMAIN seen = 1 .. Len(seen) /\ fetched \in Nat
    BY <2>1, LenProperties DEF Account
  <2>3. \A i, j \in DOMAIN seen : i < j => seen[i] > seen[j]
    BY <2>1, <2>2, Zenon DEF Account
  <2>4. \A i \in DOMAIN seen : seen[i] \notin skipped
    BY <2>1, <2>2, Zenon DEF Account
  <2>5. {seen[i] : i \in DOMAIN seen} \cup skipped = -fetched .. -1
    <3>1. \A x \in skipped : x \in -fetched .. -1
      BY <2>1, Zenon DEF Account
    <3>2. \A i \in DOMAIN seen : seen[i] \in -fetched .. -1
      BY <2>1, <2>2, Zenon DEF Account
    <3>3. \A x \in -fetched .. -1 : x \in skipped \/ \E i \in DOMAIN seen : seen[i] = x
      BY <2>1, <2>2, Zenon DEF Account
    <3> QED BY <3>1, <3>2, <3>3, Zenon
  <2>6. -fetched .. -1 = {-n : n \in 1 .. fetched}
    <3>1. ASSUME NEW x \in -fetched .. -1 PROVE \E n \in 1 .. fetched : x = -n
      <4>1. -x \in 1 .. fetched /\ x = -(-x)
        BY <2>2
      <4> QED BY <4>1
    <3>2. ASSUME NEW n \in 1 .. fetched PROVE -n \in -fetched .. -1
      BY <2>2
    <3> QED BY <3>1, <3>2
  <2> QED BY <2>3, <2>4, <2>5, <2>6, Zenon DEF ReadsInOrder, seen
<1> QED BY <1>1, <1>2, <1>3, InitIInv, NextIInv, PTL DEF Spec
=============================================================================
