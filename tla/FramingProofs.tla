---------------------------- MODULE FramingProofs ----------------------------
(***************************************************************************)
(* Proofs about Framing, for any messages, any window and any intervals:   *)
(* however the socket splits the bytes and whenever a round times out,     *)
(* ReadMessage returns what sendBytes was given, as a channel of messages  *)
(* would.                                                                  *)
(***************************************************************************)
EXTENDS Framing, SequenceTheorems, TLAPS

(* The bytes of a message: at least the four of its size. *)
LEMMA BytesFacts ==
  ASSUME sizes \in Seq(Nat), NEW m \in 1..Len(sizes)
  PROVE  /\ Bytes(m) \in Seq(Nat \X Nat)
         /\ Len(Bytes(m)) = Length(m)
         /\ Length(m) \in Nat /\ Length(m) >= 4
         /\ \A i \in 1..Length(m) : Bytes(m)[i] = <<m, i>>
<1>. DEFINE n == Length(m)
<1>1. m \in Nat /\ n \in Nat /\ n >= 4
  BY DEF Length
<1>2. Bytes(m) = [i \in 1..n |-> <<m, i>>]
  BY DEF Bytes
<1>. HIDE DEF n
<1>3. [i \in 1..n |-> <<m, i>>] \in Seq(Nat \X Nat) /\ Len([i \in 1..n |-> <<m, i>>]) = n
  BY <1>1
<1>. QED BY <1>1, <1>2, <1>3 DEF n

(* The i-th byte of a stream is a message and an offset. *)
LEMMA PairFacts ==
  ASSUME NEW s \in Seq(Nat \X Nat), NEW i \in 1..Len(s)
  PROVE  s[i][1] \in Nat /\ s[i][2] \in Nat /\ s[i] = <<s[i][1], s[i][2]>>
<1>1. s[i] \in Nat \X Nat
  BY ElementOfSeq
<1>. QED BY <1>1

(* Bytes read from the start of a message to its end are the message. *)
LEMMA WholeMessage ==
  ASSUME sizes \in Seq(Nat), NEW m \in 1..Len(sizes), NEW s \in Seq(Nat \X Nat),
         Len(s) = Length(m), \A i \in 1..Len(s) : s[i] = <<m, i>>
  PROVE  s = Bytes(m)
<1>1. Bytes(m) \in Seq(Nat \X Nat) /\ Len(s) = Len(Bytes(m))
  BY BytesFacts
<1>2. \A i \in 1..Len(s) : s[i] = Bytes(m)[i]
  BY BytesFacts, ZenonT(20)
<1>. QED BY <1>1, <1>2, SeqEqual

(* What Contiguous says of two bytes. *)
LEMMA ContiguousAt ==
  ASSUME NEW s \in Seq(Nat \X Nat), Contiguous(s),
         NEW i \in 1..Len(s), NEW j \in 1..Len(s), i < j
  PROVE  /\ s[i][2] + (j - i) <= Length(s[i][1]) => s[j] = <<s[i][1], s[i][2] + (j - i)>>
         /\ s[i][2] + (j - i) = Length(s[i][1]) + 1 => s[j] = <<s[i][1] + 1, 1>>
<1>1. i \in DOMAIN s /\ j \in DOMAIN s
  BY LenProperties
<1>. QED BY <1>1, SMTT(30) DEF Contiguous

(* The stream t is s with d more bytes after its last one, at offset o of   *)
(* message m.                                                               *)
Grown(s, t, m, o, d) ==
  /\ Len(t) = Len(s) + d
  /\ s[Len(s)] = <<m, o>>
  /\ o + d <= Length(m) + 1
  /\ \A i \in 1..(Len(s) - 1) : s[i][1] \in 1..Len(sizes)
  /\ \A i \in 1..Len(s) : t[i] = s[i]
  /\ \A e \in 0..d : t[Len(s) + e] = IF o + e <= Length(m) THEN <<m, o + e>> ELSE <<m + 1, 1>>

(* A stream that is longer by bytes of the message at its end is still      *)
(* contiguous.                                                              *)
LEMMA StreamGrows ==
  ASSUME sizes \in Seq(Nat), NEW d \in Nat,
         NEW s \in Seq(Nat \X Nat), NEW t \in Seq(Nat \X Nat), s # <<>>,
         NEW m \in 1..Len(sizes), NEW o \in Nat, Grown(s, t, m, o, d), Contiguous(s)
  PROVE  Contiguous(t)
<1>. DEFINE n == Len(s)
<1>1. n \in Nat /\ n > 0 /\ Len(t) = n + d /\ DOMAIN t = 1..(n + d)
  BY LenProperties, EmptySeq DEF Grown
<1>0. \A w \in Nat : w + 1 <= w + 1 /\ ~(w + 1 <= w)
  OBVIOUS
<1>2. m \in Nat /\ Length(m) \in Nat /\ o + d <= Length(m) + 1
  BY BytesFacts DEF Grown
<1>3. SUFFICES ASSUME NEW i \in 1..(n + d), NEW j \in 1..(n + d), i < j
               PROVE  /\ t[i][2] + (j - i) <= Length(t[i][1]) => t[j] = <<t[i][1], t[i][2] + (j - i)>>
                      /\ t[i][2] + (j - i) = Length(t[i][1]) + 1 => t[j] = <<t[i][1] + 1, 1>>
  BY <1>1, ZenonT(20) DEF Contiguous
<1>. HIDE DEF n
<1>4. CASE j <= n
  <2>1. i \in 1..n /\ j \in 1..n
    BY <1>1, <1>3, <1>4
  <2>2. t[i] = s[i] /\ t[j] = s[j]
    BY <2>1, ZenonT(20) DEF Grown, n
  <2>3. /\ s[i][2] + (j - i) <= Length(s[i][1]) => s[j] = <<s[i][1], s[i][2] + (j - i)>>
        /\ s[i][2] + (j - i) = Length(s[i][1]) + 1 => s[j] = <<s[i][1] + 1, 1>>
    BY <1>3, <2>1, ContiguousAt, ZenonT(20) DEF n
  <2>. QED BY <2>2, <2>3, ZenonT(20)
<1>5. CASE i >= n
  <2>1. PICK e \in 0..d, f \in 0..d : i = n + e /\ j = n + f /\ e < f
    <3>1. i - n \in 0..d /\ j - n \in 0..d /\ i = n + (i - n) /\ j = n + (j - n) /\ i - n < j - n
      BY <1>1, <1>3, <1>5
    <3>. QED BY <3>1
  <2>2. o + e <= Length(m)
    BY <1>2, <2>1, SMTT(30)
  <2>3. t[i] = <<m, o + e>>
    BY <2>1, <2>2, ZenonT(20) DEF Grown, n
  <2>4. t[j] = IF o + f <= Length(m) THEN <<m, o + f>> ELSE <<m + 1, 1>>
    BY <2>1, ZenonT(20) DEF Grown, n
  <2>5. t[i][1] = m /\ t[i][2] + (j - i) = o + f
    BY <1>1, <2>1, <2>3
  <2>6. /\ o + f <= Length(m) => t[j] = <<m, o + f>>
        /\ o + f = Length(m) + 1 => t[j] = <<m + 1, 1>>
    BY <1>0, <1>2, <2>4, ZenonT(20)
  <2>. QED BY <2>5, <2>6, ZenonT(20)
<1>6. CASE i < n /\ n < j
  <2>. DEFINE p == s[i][1]
              q == s[i][2] + (n - i)
  <2>1. PICK f \in 0..d : j = n + f /\ f > 0
    <3>1. j - n \in 0..d /\ j = n + (j - n) /\ j - n > 0
      BY <1>1, <1>6
    <3>. QED BY <3>1
  <2>2. t[j] = IF o + f <= Length(m) THEN <<m, o + f>> ELSE <<m + 1, 1>>
    BY <2>1, ZenonT(20) DEF Grown, n
  <2>3. i \in 1..n /\ n \in 1..n /\ i \in 1..(n - 1)
    BY <1>1, <1>6
  <2>4. t[i] = s[i] /\ s[n] = <<m, o>> /\ p \in 1..Len(sizes)
    BY <2>3, ZenonT(20) DEF Grown, n
  <2>5. (q <= Length(p) => s[n] = <<p, q>>) /\ (q = Length(p) + 1 => s[n] = <<p + 1, 1>>)
    BY <1>6, <2>3, ContiguousAt, ZenonT(20) DEF n
  <2>6. Length(p) \in Nat /\ p \in Nat /\ s[i][2] \in Nat
    BY <2>3, <2>4, BytesFacts, PairFacts, ZenonT(20) DEF n
  <2>7. t[i][1] = p /\ t[i][2] + (j - i) = q + f /\ q \in Nat
    <3>1. \A y \in Nat : y + (j - i) = (y + (n - i)) + f /\ y + (n - i) \in Nat
      BY <1>1, <2>1, <2>3
    <3>. QED BY <2>4, <2>6, <3>1, ZenonT(20)
  <2>. HIDE DEF p, q
  <2>8. ASSUME q + f <= Length(p) + 1 PROVE m = p /\ o = q
    <3>1. q <= Length(p)
      BY <2>1, <2>6, <2>7, <2>8, SMTT(30)
    <3>. QED BY <2>4, <2>5, <3>1
  <2>9. q + f <= Length(p) => t[j] = <<p, q + f>>
    <3>1. q + f <= Length(p) => q + f <= Length(p) + 1
      BY <2>1, <2>6, <2>7, SMTT(30)
    <3>. QED BY <2>2, <2>8, <3>1
  <2>10. q + f = Length(p) + 1 => t[j] = <<p + 1, 1>>
    <3>1. q + f = Length(p) + 1 => q + f <= Length(p) + 1 /\ ~(q + f <= Length(p))
      BY <1>0, <2>6, ZenonT(20)
    <3>. QED BY <2>2, <2>8, <3>1
  <2>. QED BY <2>7, <2>9, <2>10, ZenonT(20)
<1>7. j <= n \/ i >= n \/ (i < n /\ n < j)
  BY <1>1
<1>. QED BY <1>4, <1>5, <1>6, <1>7, ZenonT(20)

(* The stream t is s without its first k bytes. *)
Shrunk(s, t, k) ==
  /\ Len(s) = Len(t) + k
  /\ \A i \in 1..Len(t) : t[i] = s[k + i]

(* A stream without its first k bytes is still contiguous. *)
LEMMA StreamShrinks ==
  ASSUME NEW s \in Seq(Nat \X Nat), NEW t \in Seq(Nat \X Nat), NEW k \in Nat,
         Shrunk(s, t, k), Contiguous(s)
  PROVE  Contiguous(t)
<1>1. Len(t) \in Nat /\ DOMAIN t = 1..Len(t)
  BY LenProperties
<1>2. SUFFICES ASSUME NEW i \in 1..Len(t), NEW j \in 1..Len(t), i < j
               PROVE  /\ t[i][2] + (j - i) <= Length(t[i][1]) => t[j] = <<t[i][1], t[i][2] + (j - i)>>
                      /\ t[i][2] + (j - i) = Length(t[i][1]) + 1 => t[j] = <<t[i][1] + 1, 1>>
  BY <1>1, ZenonT(20) DEF Contiguous
<1>3. t[i] = s[k + i] /\ t[j] = s[k + j]
  BY DEF Shrunk
<1>4. k + i \in 1..Len(s) /\ k + j \in 1..Len(s) /\ k + i < k + j /\ (k + j) - (k + i) = j - i
  BY <1>1, <1>2 DEF Shrunk
<1>5. LET x == k + i
          y == k + j
      IN /\ s[x][2] + (y - x) <= Length(s[x][1]) => s[y] = <<s[x][1], s[x][2] + (y - x)>>
         /\ s[x][2] + (y - x) = Length(s[x][1]) + 1 => s[y] = <<s[x][1] + 1, 1>>
  BY <1>4, ContiguousAt, ZenonT(20)
<1>. QED BY <1>3, <1>4, <1>5, ZenonT(20)

(* What Emit leaves in the socket. *)
LEMMA EmitFacts ==
  ASSUME sizes \in Seq(Nat), wmsg \in 0..Len(sizes), wmsg < Len(sizes), wn \in Nat,
         inflight \in Seq(Nat \X Nat), NEW d \in Nat, Emit(d)
  PROVE  /\ inflight' \in Seq(Nat \X Nat)
         /\ Len(inflight') = Len(inflight) + d
         /\ Len(inflight') <= Window
         /\ wn + d <= Length(wmsg + 1)
         /\ \A i \in 1..Len(inflight) : inflight'[i] = inflight[i]
         /\ \A i \in 1..d : inflight'[Len(inflight) + i] = <<wmsg + 1, wn + i>>
<1>. DEFINE m == wmsg + 1
            a == wn + 1
            b == wn + d
            t == SubSeq(Message, a, b)
<1>1. /\ m \in 1..Len(sizes) /\ m \in Nat /\ a \in Int /\ b \in Int
      /\ b - a + 1 = d /\ (d > 0 <=> a <= b)
  OBVIOUS
<1>2. Len(Message) = Length(m) /\ \A i \in 1..Length(m) : Message[i] = <<m, i>>
  BY <1>1, BytesFacts, ZenonT(20) DEF Message
<1>3. b <= Length(m) /\ Length(m) \in Nat
  BY <1>1, <1>2, BytesFacts DEF Emit
<1>4. ASSUME NEW i \in 1..d PROVE a + i - 1 = wn + i /\ wn + i \in 1..Length(m) /\ wn + i \in Nat
  BY <1>3
<1>5. \A i \in a..b : Message[i] \in Nat \X Nat
  <2>1. ASSUME NEW i \in a..b PROVE i \in 1..Length(m) /\ i \in Nat
    BY <1>3
  <2>2. ASSUME NEW i \in Nat PROVE <<m, i>> \in Nat \X Nat
    BY <1>1
  <2>. QED BY <1>2, <2>1, <2>2, ZenonT(20)
<1>6. inflight' = inflight \o t /\ Len(inflight) + d <= Window
  BY DEF Emit, Message
<1>. HIDE DEF a, b, m
<1>7. /\ t \in Seq(Nat \X Nat)
      /\ Len(t) = IF a <= b THEN b - a + 1 ELSE 0
      /\ \A i \in 1..(b - a + 1) : t[i] = Message[a + i - 1]
  BY <1>1, <1>5, SubSeqProperties
<1>. HIDE DEF t
<1>8. Len(t) = d /\ \A i \in 1..d : t[i] = <<m, wn + i>>
  <2>1. Len(t) = d
    BY <1>1, <1>7
  <2>2. ASSUME NEW i \in 1..d PROVE t[i] = <<m, wn + i>>
    <3>1. t[i] = Message[a + i - 1]
      BY <1>1, <1>7
    <3>. QED BY <1>2, <1>4, <3>1
  <2>. QED BY <2>1, <2>2
<1>9. /\ inflight \o t \in Seq(Nat \X Nat) /\ Len(inflight \o t) = Len(inflight) + Len(t)
      /\ \A i \in 1..(Len(inflight) + Len(t)) :
           (inflight \o t)[i] = IF i <= Len(inflight) THEN inflight[i] ELSE t[i - Len(inflight)]
  BY <1>7, ConcatProperties, ZenonT(20)
<1>. DEFINE n == Len(inflight)
<1>10. n \in Nat
  BY LenProperties
<1>. HIDE DEF n
<1>11. ASSUME NEW i \in 1..n PROVE inflight'[i] = inflight[i]
  BY <1>6, <1>8, <1>9, <1>10 DEF n
<1>12. ASSUME NEW i \in 1..d PROVE inflight'[n + i] = <<m, wn + i>>
  <2>1. n + i \in 1..(n + d) /\ ~(n + i <= n) /\ (n + i) - n = i
    BY <1>10
  <2>2. inflight'[n + i] = t[i]
    BY <1>6, <1>8, <1>9, <2>1 DEF n
  <2>. QED BY <1>8, <2>2
<1>. QED BY <1>3, <1>6, <1>8, <1>9, <1>11, <1>12, ZenonT(20) DEF n, m, b

(* The stream: the bytes under way and the byte that is written next. *)
LEMMA UnreadFacts ==
  ASSUME inflight \in Seq(Nat \X Nat), wmsg \in Nat, wn \in Nat
  PROVE  /\ Unread \in Seq(Nat \X Nat) /\ Unread # <<>>
         /\ Len(Unread) = Len(inflight) + 1
         /\ \A i \in 1..Len(inflight) : Unread[i] = inflight[i]
         /\ Unread[Len(inflight) + 1] = <<wmsg + 1, wn + 1>>
<1>. DEFINE last == <<wmsg + 1, wn + 1>>
<1>1. last \in Nat \X Nat /\ Unread = Append(inflight, last)
  BY DEF Unread
<1>. HIDE DEF last
<1>2. /\ Unread \in Seq(Nat \X Nat) /\ Unread # <<>>
      /\ Len(Unread) = Len(inflight) + 1
      /\ \A i \in 1..Len(inflight) : Unread[i] = inflight[i]
      /\ Unread[Len(inflight) + 1] = last
  BY <1>1, AppendProperties, SMTT(30)
<1>. QED BY <1>2 DEF last

(* The bytes under way, and the one written next, after Emit: the stream is *)
(* longer at the sender's end and the same at the reader's.                 *)
LEMMA EmitStream ==
  ASSUME FramingInv, wmsg < Len(sizes), sizes' = sizes, NEW d \in Nat, Emit(d),
         \/ wn + d < Length(wmsg + 1) /\ wmsg' = wmsg /\ wn' = wn + d
         \/ wn + d = Length(wmsg + 1) /\ wmsg' = wmsg + 1 /\ wn' = 0
  PROVE  /\ inflight' \in Seq(Nat \X Nat) /\ Len(inflight') <= Window
         /\ \A i \in 1..Len(inflight') : /\ inflight'[i][1] \in 1..Len(sizes)
                                         /\ inflight'[i][2] \in 1..Length(inflight'[i][1])
         /\ Contiguous(Unread)'
         /\ Unread'[1] = Unread[1]
<1>. DEFINE m == wmsg + 1
            o == wn + 1
            n == Len(inflight)
            last == <<wmsg' + 1, wn' + 1>>
<1>1. /\ sizes \in Seq(Nat) /\ wmsg \in 0..Len(sizes) /\ wn \in Nat
      /\ inflight \in Seq(Nat \X Nat) /\ n \in Nat
      /\ m \in 1..Len(sizes) /\ m \in Nat /\ o \in Nat /\ wn < Length(m)
  BY FramingAssumption DEF FramingInv, TypeOK
<1>2. Length(m) \in Nat
  BY <1>1, BytesFacts
<1>3. /\ inflight' \in Seq(Nat \X Nat) /\ Len(inflight') = n + d
      /\ Len(inflight') <= Window /\ wn + d <= Length(m)
      /\ \A i \in 1..n : inflight'[i] = inflight[i]
      /\ \A i \in 1..d : inflight'[n + i] = <<m, wn + i>>
  BY <1>1, EmitFacts, ZenonT(20)
<1>4. last \in Nat \X Nat /\ last = IF o + d <= Length(m) THEN <<m, o + d>> ELSE <<m + 1, 1>>
  <2>1. CASE wn + d < Length(m) /\ wmsg' = wmsg /\ wn' = wn + d
    BY <1>1, <1>2, <2>1, SMTT(30)
  <2>2. CASE wn + d = Length(m) /\ wmsg' = wmsg + 1 /\ wn' = 0
    BY <1>1, <1>2, <2>2, SMTT(30)
  <2>. QED BY <2>1, <2>2
<1>. HIDE DEF m, o, n, last
<1>5. /\ Unread \in Seq(Nat \X Nat) /\ Len(Unread) = n + 1 /\ Unread # <<>>
      /\ \A i \in 1..n : Unread[i] = inflight[i]
      /\ Unread[n + 1] = <<m, o>>
  <2>1. wmsg \in Nat
    BY <1>1
  <2>. QED BY <1>1, <2>1, UnreadFacts, ZenonT(20) DEF n, m, o
<1>6. /\ Unread' \in Seq(Nat \X Nat) /\ Len(Unread') = n + d + 1
      /\ \A i \in 1..(n + d) : Unread'[i] = inflight'[i]
      /\ Unread'[n + d + 1] = last
  <2>1. Unread' = Append(inflight', last)
    BY DEF Unread, last
  <2>. QED BY <1>3, <1>4, <2>1, AppendProperties
<1>7. ASSUME NEW i \in 1..(n + 1) PROVE Unread'[i] = Unread[i]
  <2>1. CASE i <= n
    <3>1. i \in 1..n /\ i \in 1..(n + d)
      BY <1>1, <2>1
    <3>. QED BY <1>3, <1>5, <1>6, <3>1
  <2>2. CASE i = n + 1 /\ d > 0
    <3>1. 1 \in 1..d /\ n + 1 \in 1..(n + d)
      BY <1>1, <2>2
    <3>2. Unread'[n + 1] = <<m, wn + 1>>
      BY <1>3, <1>6, <3>1, ZenonT(20)
    <3>. QED BY <1>5, <2>2, <3>2 DEF o
  <2>3. CASE i = n + 1 /\ d = 0
    <3>1. o + d <= Length(m) /\ o + d = o /\ n + d + 1 = n + 1
      BY <1>1, <1>2, <2>3 DEF o
    <3>. QED BY <1>4, <1>5, <1>6, <2>3, <3>1, ZenonT(20)
  <2>4. i <= n \/ (i = n + 1 /\ d > 0) \/ (i = n + 1 /\ d = 0)
    BY <1>1, SMTT(30)
  <2>. QED BY <2>1, <2>2, <2>3, <2>4, ZenonT(20)
<1>8. ASSUME NEW e \in 0..d
      PROVE  Unread'[n + 1 + e] = IF o + e <= Length(m) THEN <<m, o + e>> ELSE <<m + 1, 1>>
  <2>1. CASE e = d
    <3>1. n + 1 + e = n + d + 1
      BY <1>1, <2>1
    <3>. QED BY <1>4, <1>6, <2>1, <3>1
  <2>2. CASE e < d
    <3>1. 1 + e \in 1..d /\ n + 1 + e = n + (1 + e) /\ n + (1 + e) \in 1..(n + d) /\ wn + (1 + e) = o + e
      BY <1>1, <2>2 DEF o
    <3>2. Unread'[n + 1 + e] = <<m, o + e>>
      BY <1>3, <1>6, <3>1, ZenonT(20)
    <3>3. o + e <= Length(m)
      BY <1>1, <1>2, <1>3, <2>2, SMTT(30) DEF o
    <3>. QED BY <3>2, <3>3
  <2>. QED BY <2>1, <2>2
<1>9. \A i \in 1..n : inflight[i][1] \in 1..Len(sizes) /\ inflight[i][2] \in 1..Length(inflight[i][1])
  BY DEF FramingInv, n
<1>10. Grown(Unread, Unread', m, o, d)
  <2>0. wn + d <= Length(m)
    BY <1>3
  <2>1. Len(Unread') = Len(Unread) + d /\ o + d <= Length(m) + 1 /\ Len(Unread) - 1 = n
    <3>1. o + d <= Length(m) + 1
      BY <1>1, <1>2, <2>0 DEF o
    <3>2. n + d + 1 = (n + 1) + d /\ (n + 1) - 1 = n
      BY <1>1
    <3>. QED BY <1>5, <1>6, <3>1, <3>2
  <2>2. \A i \in 1..n : Unread[i][1] \in 1..Len(sizes)
    BY <1>5, <1>9
  <2>. QED BY <1>5, <1>7, <1>8, <2>1, <2>2, ZenonT(20) DEF Grown
<1>11. Contiguous(Unread')
  BY <1>1, <1>5, <1>6, <1>10, StreamGrows, ZenonT(20) DEF FramingInv
<1>12. Contiguous(Unread)'
  BY <1>11 DEF Contiguous, Length
<1>13. ASSUME NEW i \in 1..(n + d)
       PROVE  inflight'[i][1] \in 1..Len(sizes) /\ inflight'[i][2] \in 1..Length(inflight'[i][1])
  <2>1. CASE i <= n
    <3>1. i \in 1..n
      BY <1>1, <2>1
    <3>. QED BY <1>3, <1>9, <3>1, ZenonT(20)
  <2>2. CASE i > n
    <3>1. PICK e \in 1..d : i = n + e
      <4>1. i - n \in 1..d /\ i = n + (i - n)
        BY <1>1, <2>2
      <4>. QED BY <4>1
    <3>2. inflight'[i] = <<m, wn + e>>
      BY <1>3, <3>1
    <3>3. wn + d <= Length(m)
      BY <1>3
    <3>4. wn + e \in 1..Length(m)
      BY <1>1, <1>2, <3>3
    <3>. QED BY <1>1, <3>2, <3>4
  <2>. QED BY <1>1, <2>1, <2>2
<1>14. Unread'[1] = Unread[1]
  BY <1>1, <1>7
<1>. QED BY <1>3, <1>12, <1>13, <1>14

(* What a read of k bytes leaves: the rest of the stream. *)
LEMMA DropStream ==
  ASSUME FramingInv, sizes' = sizes, wmsg' = wmsg, wn' = wn,
         NEW k \in 1..Len(inflight), inflight' = SubSeq(inflight, k + 1, Len(inflight))
  PROVE  /\ inflight' \in Seq(Nat \X Nat) /\ Len(inflight') <= Window
         /\ \A i \in 1..Len(inflight') : /\ inflight'[i][1] \in 1..Len(sizes)
                                         /\ inflight'[i][2] \in 1..Length(inflight'[i][1])
         /\ Contiguous(Unread)'
         /\ Unread'[1] = Unread[k + 1]
<1>. DEFINE n == Len(inflight)
            r == n - k
<1>1. /\ inflight \in Seq(Nat \X Nat) /\ wmsg \in Nat /\ wn \in Nat /\ Window \in Nat
      /\ n \in Nat /\ n <= Window /\ k \in 1..n
  BY FramingAssumption DEF FramingInv, TypeOK
<1>2. /\ \A i \in 1..n : Unread[i] = inflight[i]
      /\ Unread[n + 1] = <<wmsg + 1, wn + 1>>
      /\ Unread \in Seq(Nat \X Nat) /\ Len(Unread) = n + 1
  BY <1>1, UnreadFacts
<1>3. \A i \in 1..n : inflight[i][1] \in 1..Len(sizes) /\ inflight[i][2] \in 1..Length(inflight[i][1])
  BY DEF FramingInv
<1>4. inflight' = SubSeq(inflight, k + 1, n)
  OBVIOUS
<1>5. \A i \in (k + 1)..n : inflight[i] \in Nat \X Nat
  <2>1. \A i \in (k + 1)..n : i \in 1..Len(inflight)
    BY <1>1
  <2>. QED BY <1>1, <2>1, ElementOfSeq
<1>. HIDE DEF n
<1>6. r \in Nat /\ n - (k + 1) + 1 = r /\ (k + 1 <= n <=> r > 0)
  BY <1>1
<1>. HIDE DEF r
<1>7. /\ inflight' \in Seq(Nat \X Nat)
      /\ Len(inflight') = IF k + 1 <= n THEN n - (k + 1) + 1 ELSE 0
      /\ \A i \in 1..(n - (k + 1) + 1) : inflight'[i] = inflight[k + 1 + i - 1]
  <2>1. k + 1 \in Int /\ n \in Int
    BY <1>1
  <2>. QED BY <1>4, <1>5, <2>1, SubSeqProperties
<1>8. Len(inflight') = r
  BY <1>6, <1>7
<1>9. ASSUME NEW i \in 1..r PROVE inflight'[i] = inflight[k + i] /\ k + i \in 1..n
  <2>1. k + 1 + i - 1 = k + i
    BY <1>1, <1>6
  <2>2. inflight'[i] = inflight[k + i]
    BY <1>6, <1>7, <2>1
  <2>3. k + i \in 1..n
    BY <1>1, <1>6 DEF r
  <2>. QED BY <2>2, <2>3, ZenonT(20)
<1>10. /\ \A i \in 1..r : Unread'[i] = inflight'[i]
       /\ Unread'[r + 1] = <<wmsg + 1, wn + 1>>
       /\ Unread' \in Seq(Nat \X Nat) /\ Len(Unread') = r + 1
  <2>1. /\ <<wmsg + 1, wn + 1>> \in Nat \X Nat
        /\ Unread' = Append(inflight', <<wmsg + 1, wn + 1>>)
    BY <1>1 DEF Unread
  <2>2. PICK t \in Seq(Nat \X Nat), b \in Nat \X Nat : t = inflight' /\ b = <<wmsg + 1, wn + 1>>
    BY <1>7, <2>1, ZenonT(20)
  <2>3. /\ Append(t, b) \in Seq(Nat \X Nat) /\ Len(Append(t, b)) = Len(t) + 1
        /\ \A i \in 1..Len(t) : Append(t, b)[i] = t[i]
        /\ Append(t, b)[Len(t) + 1] = b
    BY AppendProperties, SMTT(30)
  <2>. QED BY <1>8, <2>1, <2>2, <2>3, ZenonT(20)
<1>11. ASSUME NEW i \in 1..(r + 1) PROVE Unread'[i] = Unread[k + i]
  <2>1. CASE i \in 1..r
    BY <1>2, <1>9, <1>10, <2>1, ZenonT(20)
  <2>2. CASE i = r + 1
    <3>1. k + i = n + 1
      BY <1>1, <1>6, <2>2 DEF r
    <3>. QED BY <1>2, <1>10, <2>2, <3>1, ZenonT(20)
  <2>. QED BY <1>6, <2>1, <2>2
<1>12. Contiguous(Unread)'
  <2>1. Shrunk(Unread, Unread', k)
    <3>1. Len(Unread) = Len(Unread') + k
      <4>1. n + 1 = (r + 1) + k
        BY <1>1, <1>6 DEF r
      <4>. QED BY <1>2, <1>10, <4>1
    <3>. QED BY <1>10, <1>11, <3>1 DEF Shrunk
  <2>2. Contiguous(Unread')
    <3>1. k \in Nat /\ Contiguous(Unread)
      BY <1>1 DEF FramingInv
    <3>. QED BY <1>2, <1>10, <2>1, <3>1, StreamShrinks, ZenonT(20)
  <2>. QED BY <2>2 DEF Contiguous, Length
<1>13. Unread'[1] = Unread[k + 1]
  BY <1>6, <1>11
<1>14. r <= Window
  BY <1>1, <1>6 DEF r
<1>. QED BY <1>3, <1>7, <1>8, <1>9, <1>12, <1>13, <1>14

(* A byte that is under way is of the message after the delivered ones. *)
LEMMA NextMessage ==
  ASSUME FramingInv, rstate = "open", inflight # <<>>
  PROVE  Len(delivered) + 1 \in 1..Len(sizes)
<1>1. inflight \in Seq(Nat \X Nat) /\ wmsg \in Nat /\ wn \in Nat /\ 1 \in 1..Len(inflight)
  <2>1. inflight \in Seq(Nat \X Nat) /\ wmsg \in Nat /\ wn \in Nat
    BY FramingAssumption DEF FramingInv, TypeOK
  <2>2. Len(inflight) \in Nat \ {0}
    BY <2>1, EmptySeq
  <2>. QED BY <2>1, <2>2
<1>2. Unread[1] = inflight[1]
  BY <1>1, UnreadFacts
<1>3. inflight[1][1] \in 1..Len(sizes) /\ Unread[1] = <<Len(delivered) + 1, Len(got) + 1>>
  BY <1>1 DEF FramingInv
<1>. QED BY <1>2, <1>3

(* The first k bytes under way, when they are of the message that the       *)
(* reader is in: they go on where it stopped.                               *)
LEMMA HeadBytes ==
  ASSUME FramingInv, rstate = "open", NEW k \in 1..Len(inflight),
         NEW m \in 1..Len(sizes), m = Len(delivered) + 1, NEW g \in Nat, g = Len(got),
         g + k <= Length(m)
  PROVE  /\ \A i \in 1..k : inflight[i] = <<m, g + i>>
         /\ g + k < Length(m) => Unread[k + 1] = <<m, (g + k) + 1>>
         /\ g + k = Length(m) => Unread[k + 1] = <<m + 1, 1>>
<1>. DEFINE n == Len(inflight)
<1>1. /\ inflight \in Seq(Nat \X Nat) /\ wmsg \in Nat /\ wn \in Nat
      /\ n \in Nat /\ k \in 1..n /\ sizes \in Seq(Nat)
  BY FramingAssumption DEF FramingInv, TypeOK
<1>2. /\ \A i \in 1..n : Unread[i] = inflight[i]
      /\ Unread \in Seq(Nat \X Nat) /\ Len(Unread) = n + 1
  BY <1>1, UnreadFacts
<1>3. Unread[1] = <<m, g + 1>> /\ Contiguous(Unread)
  BY SMTT(30) DEF FramingInv
<1>. HIDE DEF n
<1>7. Length(m) \in Nat
  BY <1>1, BytesFacts, ZenonT(20)
<1>8. ASSUME NEW i \in 1..k
      PROVE  /\ g + (i + 1) <= Length(m) => Unread[i + 1] = <<m, g + (i + 1)>>
             /\ g + (i + 1) = Length(m) + 1 => Unread[i + 1] = <<m + 1, 1>>
  <2>1. 1 \in 1..Len(Unread) /\ i + 1 \in 1..Len(Unread) /\ 1 < i + 1 /\ (i + 1) - 1 = i
    <3>1. 1 \in 1..(n + 1) /\ i + 1 \in 1..(n + 1) /\ 1 < i + 1 /\ (i + 1) - 1 = i
      BY <1>1
    <3>. QED BY <1>2, <3>1
  <2>2. Unread[1][1] = m /\ Unread[1][2] + ((i + 1) - 1) = g + (i + 1)
    BY <1>3, <2>1
  <2>3. /\ Unread[1][2] + ((i + 1) - 1) <= Length(Unread[1][1])
              => Unread[i + 1] = <<Unread[1][1], Unread[1][2] + ((i + 1) - 1)>>
        /\ Unread[1][2] + ((i + 1) - 1) = Length(Unread[1][1]) + 1
              => Unread[i + 1] = <<Unread[1][1] + 1, 1>>
    BY <1>2, <1>3, <2>1, ContiguousAt, ZenonT(20)
  <2>. QED BY <2>2, <2>3
<1>9. ASSUME NEW i \in 1..k PROVE inflight[i] = <<m, g + i>>
  <2>1. i \in 1..n /\ g + i <= Length(m)
    <3>1. i \in 1..n /\ \A z \in Nat : g + k <= z => g + i <= z
      BY <1>1, SMTT(30)
    <3>. QED BY <1>7, <3>1, ZenonT(20)
  <2>2. CASE i = 1
    BY <1>2, <1>3, <2>1, <2>2, ZenonT(20)
  <2>3. CASE i > 1
    <3>1. i - 1 \in 1..k /\ (i - 1) + 1 = i
      BY <2>3
    <3>2. Unread[i] = <<m, g + i>>
      BY <1>8, <2>1, <3>1, ZenonT(20)
    <3>. QED BY <1>2, <2>1, <3>2, ZenonT(20)
  <2>. QED BY <2>2, <2>3
<1>10. k \in 1..k /\ g + (k + 1) = (g + k) + 1
  BY <1>1
<1>11. g + k < Length(m) => Unread[k + 1] = <<m, (g + k) + 1>>
  <2>1. g + k < Length(m) => g + (k + 1) <= Length(m)
    BY <1>1, <1>7
  <2>. QED BY <1>8, <1>10, <2>1
<1>12. g + k = Length(m) => Unread[k + 1] = <<m + 1, 1>>
  BY <1>8, <1>10, ZenonT(20)
<1>. QED BY <1>9, <1>11, <1>12, ZenonT(20)

(* The bytes that a read of k returns. *)
LEMMA PrefixFacts ==
  ASSUME inflight \in Seq(Nat \X Nat), NEW k \in 1..Len(inflight)
  PROVE  LET bytes == SubSeq(inflight, 1, k)
         IN /\ bytes \in Seq(Nat \X Nat)
            /\ Len(bytes) = k
            /\ \A i \in 1..k : bytes[i] = inflight[i]
<1>. DEFINE bytes == SubSeq(inflight, 1, k)
<1>1. k \in Int /\ 1 <= k /\ k - 1 + 1 = k /\ \A i \in 1..k : i \in 1..Len(inflight) /\ 1 + i - 1 = i
  BY LenProperties
<1>2. \A i \in 1..k : inflight[i] \in Nat \X Nat
  BY <1>1, ElementOfSeq
<1>3. /\ bytes \in Seq(Nat \X Nat)
      /\ Len(bytes) = IF 1 <= k THEN k - 1 + 1 ELSE 0
      /\ \A i \in 1..(k - 1 + 1) : bytes[i] = inflight[1 + i - 1]
  BY <1>1, <1>2, SubSeqProperties
<1>. HIDE DEF bytes
<1>4. Len(bytes) = k /\ \A i \in 1..k : bytes[i] = inflight[i]
  BY <1>1, <1>3, ZenonT(20)
<1>. QED BY <1>3, <1>4, ZenonT(20) DEF bytes

(* A read keeps the invariant if what the reader has then is where the rest *)
(* of the stream begins.                                                    *)
LEMMA ReaderAdvances ==
  ASSUME FramingInv, UNCHANGED <<sizes, tls, interval, writeVars>>,
         NEW k \in 1..Len(inflight), inflight' = SubSeq(inflight, k + 1, Len(inflight)),
         rdeadline' \in Deadlines, rstate' \in {"open", "closed"},
         got' \in Seq(Nat \X Nat), delivered' \in Seq(Seq(Nat \X Nat)),
         Len(delivered') <= Len(sizes),
         rstate' = "open" => Unread[k + 1] = <<Len(delivered') + 1, Len(got') + 1>>,
         Begun', ReadsWhatWasSent'
  PROVE  FramingInv'
<1>1. /\ sizes' = sizes /\ tls' = tls /\ interval' = interval
      /\ wmsg' = wmsg /\ wn' = wn /\ wstate' = wstate /\ wdeadline' = wdeadline
  BY DEF writeVars
<1>2. /\ inflight' \in Seq(Nat \X Nat) /\ Len(inflight') <= Window
      /\ \A i \in 1..Len(inflight') : /\ inflight'[i][1] \in 1..Len(sizes)
                                      /\ inflight'[i][2] \in 1..Length(inflight'[i][1])
      /\ Contiguous(Unread)'
      /\ Unread'[1] = Unread[k + 1]
  BY <1>1, DropStream, ZenonT(20)
<1>3. TypeOK'
  BY <1>1, <1>2 DEF FramingInv, TypeOK, Length
<1>4. wmsg' = Len(sizes') => wn' = 0
  BY <1>1 DEF FramingInv
<1>5. (\A i \in 1..Len(inflight) : /\ inflight[i][1] \in 1..Len(sizes)
                                  /\ inflight[i][2] \in 1..Length(inflight[i][1]))'
  BY <1>1, <1>2, ZenonT(20) DEF Length
<1>. QED BY <1>1, <1>2, <1>3, <1>4, <1>5, ZenonT(20) DEF FramingInv

(* The first read of a message: four bytes of the size, or the end. *)
LEMMA GotSizeStep ==
  ASSUME FramingInv, UNCHANGED <<sizes, tls, interval, writeVars>>, rstate = "open",
         NEW k \in 1..Len(inflight), inflight' = SubSeq(inflight, k + 1, Len(inflight)),
         rdeadline' \in Deadlines, got = <<>>, k <= 4, GotSize(SubSeq(inflight, 1, k))
  PROVE  FramingInv'
<1>. DEFINE bytes == SubSeq(inflight, 1, k)
            m == Len(delivered) + 1
<1>1. /\ sizes \in Seq(Nat) /\ inflight \in Seq(Nat \X Nat) /\ got \in Seq(Nat \X Nat)
      /\ delivered \in Seq(Seq(Nat \X Nat)) /\ Len(delivered) <= Len(sizes)
      /\ Begun /\ ReadsWhatWasSent /\ sizes' = sizes
  BY FramingAssumption DEF FramingInv, TypeOK
<1>2. /\ bytes \in Seq(Nat \X Nat) /\ Len(bytes) = k
      /\ \A i \in 1..k : bytes[i] = inflight[i]
  BY <1>1, PrefixFacts
<1>. HIDE DEF bytes
<1>3. CASE ReadFailed
  <2>1. got' = got /\ delivered' = delivered /\ rstate' = "closed"
    BY <1>3 DEF ReadFailed
  <2>2. Begun' /\ ReadsWhatWasSent'
    BY <1>1, <2>1 DEF Begun, ReadsWhatWasSent, Bytes, Length
  <2>. QED BY <1>1, <2>1, <2>2, ReaderAdvances
<1>4. CASE /\ k = 4 /\ ~Invalid(HeaderSize(bytes)) /\ HeaderSize(bytes) # 4
           /\ got' = bytes /\ rstate' = rstate /\ delivered' = delivered
  <2>1. m \in 1..Len(sizes)
    <3>1. inflight # <<>>
      BY <1>1, EmptySeq
    <3>. QED BY <3>1, NextMessage
  <2>. HIDE DEF m
  <2>2. Length(m) \in Nat /\ Length(m) >= 4 /\ sizes[m] \in Nat /\ m \in Nat
    <3>1. sizes[m] \in Nat
      BY <1>1, <2>1, ElementOfSeq, ZenonT(20)
    <3>2. m \in Nat
      BY <2>1
    <3>3. Length(m) \in Nat /\ Length(m) >= 4
      BY <1>1, <2>1, BytesFacts, ZenonT(20)
    <3>. QED BY <3>1, <3>2, <3>3
  <2>3. Len(got) = 0 /\ 0 \in Nat /\ 0 + k <= Length(m) /\ 0 + k = 4
    BY <1>4, <2>2, EmptySeq
  <2>4. /\ \A i \in 1..k : inflight[i] = <<m, 0 + i>>
        /\ 0 + k < Length(m) => Unread[k + 1] = <<m, (0 + k) + 1>>
    <3>1. m = Len(delivered) + 1
      BY DEF m
    <3>. QED BY <2>1, <2>3, <3>1, HeadBytes
  <2>5. \A i \in 1..4 : bytes[i] = <<m, i>>
    BY <1>2, <1>4, <2>4
  <2>6. HeaderSize(bytes) = sizes[m]
    BY <2>5 DEF HeaderSize
  <2>7. sizes[m] > 4 /\ Length(m) = sizes[m]
    BY <1>4, <2>2, <2>6 DEF Invalid, Length
  <2>8. Unread[k + 1] = <<m, 5>>
    BY <1>4, <2>2, <2>4, <2>7
  <2>9. Begun'
    <3>1. Len(delivered') + 1 = m /\ Len(delivered') < Len(sizes) /\ Len(got') = 4
      BY <1>1, <1>2, <1>4, <2>1 DEF m
    <3>2. 4 \in 4..(sizes[m] - 1)
      BY <2>2, <2>7
    <3>. QED BY <1>1, <1>4, <2>5, <3>1, <3>2, ZenonT(20) DEF Begun
  <2>10. ReadsWhatWasSent'
    BY <1>1, <1>4, ZenonT(20) DEF ReadsWhatWasSent, Bytes, Length
  <2>11. Unread[k + 1] = <<Len(delivered') + 1, Len(got') + 1>>
    <3>1. Len(delivered') + 1 = m /\ Len(got') = 4
      BY <1>2, <1>4 DEF m
    <3>2. 4 + 1 = 5
      OBVIOUS
    <3>. QED BY <2>8, <3>1, <3>2
  <2>. QED BY <1>1, <1>2, <1>4, <2>9, <2>10, <2>11, ReaderAdvances, ZenonT(20)
<1>. QED BY <1>2, <1>3, <1>4 DEF GotSize, bytes

(* A read of the rest of a message, which may complete it. *)
LEMMA GotRestStep ==
  ASSUME FramingInv, UNCHANGED <<sizes, tls, interval, writeVars>>, rstate = "open",
         NEW k \in 1..Len(inflight), inflight' = SubSeq(inflight, k + 1, Len(inflight)),
         rdeadline' \in Deadlines, got # <<>>, k <= HeaderSize(got) - Len(got),
         GotRest(SubSeq(inflight, 1, k))
  PROVE  FramingInv'
<1>. DEFINE bytes == SubSeq(inflight, 1, k)
            all == got \o bytes
            m == Len(delivered) + 1
            g == Len(got)
<1>1. /\ sizes \in Seq(Nat) /\ inflight \in Seq(Nat \X Nat) /\ got \in Seq(Nat \X Nat)
      /\ delivered \in Seq(Seq(Nat \X Nat)) /\ Len(delivered) \in Nat
      /\ Len(delivered) <= Len(sizes) /\ Begun /\ ReadsWhatWasSent /\ sizes' = sizes
  BY FramingAssumption DEF FramingInv, TypeOK
<1>2. /\ bytes \in Seq(Nat \X Nat) /\ Len(bytes) = k
      /\ \A i \in 1..k : bytes[i] = inflight[i]
  BY <1>1, PrefixFacts
<1>3. m \in 1..Len(sizes) /\ g \in 4..(sizes[m] - 1) /\ \A i \in 1..g : got[i] = <<m, i>>
  <2>1. Len(sizes) \in Nat
    BY <1>1, LenProperties
  <2>2. Len(delivered) < Len(sizes) /\ g \in 4..(sizes[m] - 1) /\ \A i \in 1..g : got[i] = <<m, i>>
    BY <1>1, ZenonT(20) DEF Begun
  <2>3. m \in 1..Len(sizes)
    <3>1. \A D, L \in Nat : D < L => D + 1 \in 1..L
      OBVIOUS
    <3>. QED BY <1>1, <2>1, <2>2, <3>1, ZenonT(20)
  <2>. QED BY <2>2, <2>3
<1>4. GotRest(bytes)
  OBVIOUS
<1>. HIDE DEF bytes, m, g
<1>5. m \in Nat /\ sizes[m] \in Nat /\ g \in Nat /\ g >= 4 /\ g < sizes[m] /\ k \in Nat /\ k > 0
  <2>1. sizes[m] \in Nat
    BY <1>1, <1>3, ElementOfSeq, ZenonT(20)
  <2>2. g \in Nat /\ g >= 4 /\ g < sizes[m] /\ m \in Nat
    BY <1>3, <2>1
  <2>3. k \in Nat /\ k > 0
    OBVIOUS
  <2>. QED BY <2>1, <2>2, <2>3
<1>6. Length(m) = sizes[m]
  BY <1>5 DEF Length
<1>7. g + k <= sizes[m]
  <2>1. HeaderSize(got) = sizes[m]
    <3>1. 1 \in 1..g
      BY <1>5
    <3>. QED BY <1>3, <3>1 DEF HeaderSize
  <2>2. k <= sizes[m] - g
    BY <2>1 DEF g
  <2>. QED BY <1>5, <2>2
<1>8. /\ \A i \in 1..k : inflight[i] = <<m, g + i>>
      /\ g + k < sizes[m] => Unread[k + 1] = <<m, (g + k) + 1>>
      /\ g + k = sizes[m] => Unread[k + 1] = <<m + 1, 1>>
  <2>1. m = Len(delivered) + 1 /\ g = Len(got) /\ g + k <= Length(m)
    BY <1>6, <1>7 DEF m, g
  <2>2. /\ \A i \in 1..k : inflight[i] = <<m, g + i>>
        /\ g + k < Length(m) => Unread[k + 1] = <<m, (g + k) + 1>>
        /\ g + k = Length(m) => Unread[k + 1] = <<m + 1, 1>>
    BY <1>3, <1>5, <2>1, HeadBytes, ZenonT(20)
  <2>. QED BY <1>6, <2>2, ZenonT(20)
<1>9. /\ all \in Seq(Nat \X Nat) /\ Len(all) = g + k
      /\ \A i \in 1..(g + k) : all[i] = IF i <= g THEN got[i] ELSE bytes[i - g]
  <2>1. /\ all \in Seq(Nat \X Nat) /\ Len(all) = Len(got) + Len(bytes)
        /\ \A i \in 1..(Len(got) + Len(bytes)) :
             all[i] = IF i <= Len(got) THEN got[i] ELSE bytes[i - Len(got)]
    BY <1>1, <1>2, ConcatProperties, ZenonT(40)
  <2>. HIDE DEF all
  <2>. QED BY <1>2, <2>1, ZenonT(20) DEF g
<1>. HIDE DEF all
<1>10. \A i \in 1..(g + k) : all[i] = <<m, i>>
  <2>1. ASSUME NEW i \in 1..(g + k), i <= g PROVE all[i] = <<m, i>>
    <3>1. i \in 1..g
      BY <1>5, <2>1
    <3>. QED BY <1>3, <1>9, <2>1, <3>1, ZenonT(20)
  <2>2. ASSUME NEW i \in 1..(g + k), ~(i <= g) PROVE all[i] = <<m, i>>
    <3>1. i - g \in 1..k /\ g + (i - g) = i
      BY <1>5, <2>2
    <3>2. all[i] = inflight[i - g]
      BY <1>2, <1>9, <2>2, <3>1, ZenonT(20)
    <3>. QED BY <1>8, <3>1, <3>2
  <2>. QED BY <2>1, <2>2
<1>11. HeaderSize(all) = sizes[m]
  <2>1. 1 \in 1..(g + k)
    BY <1>5
  <2>. QED BY <1>10, <2>1 DEF HeaderSize
<1>12. CASE ReadFailed
  <2>1. got' = got /\ delivered' = delivered /\ rstate' = "closed"
    BY <1>12 DEF ReadFailed
  <2>2. Begun' /\ ReadsWhatWasSent'
    BY <1>1, <2>1, ZenonT(20) DEF Begun, ReadsWhatWasSent, Bytes, Length
  <2>. QED BY <1>1, <2>1, <2>2, ReaderAdvances
<1>13. CASE g + k < sizes[m] /\ got' = all /\ rstate' = rstate /\ delivered' = delivered
  <2>1. Begun'
    <3>1. /\ Len(delivered') + 1 = m /\ Len(delivered') < Len(sizes)
          /\ Len(got') \in 4..(sizes[m] - 1)
      <4>1. Len(delivered) < Len(sizes)
        BY <1>1, <1>3 DEF m
      <4>2. g + k \in 4..(sizes[m] - 1)
        BY <1>5, <1>13
      <4>. QED BY <1>9, <1>13, <4>1, <4>2, ZenonT(20) DEF m
    <3>2. \A i \in 1..Len(got') : got'[i] = <<m, i>>
      BY <1>9, <1>10, <1>13
    <3>. QED BY <1>1, <3>1, <3>2, ZenonT(20) DEF Begun
  <2>2. ReadsWhatWasSent'
    BY <1>1, <1>13, ZenonT(20) DEF ReadsWhatWasSent, Bytes, Length
  <2>3. Unread[k + 1] = <<Len(delivered') + 1, Len(got') + 1>>
    BY <1>8, <1>9, <1>13, ZenonT(20) DEF m
  <2>. QED BY <1>1, <1>9, <1>13, <2>1, <2>2, <2>3, ReaderAdvances, ZenonT(20)
<1>14. CASE /\ ~(g + k < sizes[m]) /\ got' = <<>> /\ rstate' = rstate
            /\ delivered' = Append(delivered, all)
  <2>1. g + k = sizes[m]
    <3>1. \A z \in Nat : g + k <= z /\ ~(g + k < z) => g + k = z
      BY <1>5
    <3>. QED BY <1>5, <1>7, <1>14, <3>1, ZenonT(20)
  <2>2. all = Bytes(m)
    BY <1>1, <1>3, <1>6, <1>9, <1>10, <2>1, WholeMessage, ZenonT(20)
  <2>3. /\ delivered' \in Seq(Seq(Nat \X Nat)) /\ Len(delivered') = m
        /\ \A i \in 1..Len(delivered) : delivered'[i] = delivered[i]
        /\ delivered'[m] = all
    BY <1>1, <1>9, <1>14, AppendProperties DEF m
  <2>4. ReadsWhatWasSent'
    <3>1. DOMAIN delivered' = 1..m /\ DOMAIN delivered = 1..Len(delivered)
      BY <1>1, <2>3, LenProperties
    <3>2. ASSUME NEW i \in 1..m PROVE delivered'[i] = Bytes(i)
      <4>1. i \in 1..Len(delivered) \/ i = m
        <5>1. \A D \in Nat : \A x \in 1..(D + 1) : x \in 1..D \/ x = D + 1
          OBVIOUS
        <5>. QED BY <1>1, <5>1, ZenonT(20) DEF m
      <4>2. CASE i \in 1..Len(delivered)
        BY <1>1, <2>3, <3>1, <4>2, ZenonT(20) DEF ReadsWhatWasSent
      <4>. QED BY <2>2, <2>3, <4>1, <4>2
    <3>. QED BY <1>1, <3>1, <3>2, ZenonT(20) DEF ReadsWhatWasSent, Bytes, Length
  <2>5. Begun'
    BY <1>14 DEF Begun
  <2>6. got' \in Seq(Nat \X Nat) /\ Len(got') = 0 /\ Len(delivered') <= Len(sizes) /\ 0 + 1 = 1
    BY <1>3, <1>14, <2>3, EmptySeq
  <2>7. Unread[k + 1] = <<Len(delivered') + 1, Len(got') + 1>>
    BY <1>8, <2>1, <2>3, <2>6
  <2>. QED BY <1>1, <1>14, <2>3, <2>4, <2>5, <2>6, <2>7, ReaderAdvances, ZenonT(20)
<1>15. \/ ReadFailed
       \/ g + k < sizes[m] /\ got' = all /\ rstate' = rstate /\ delivered' = delivered
       \/ /\ ~(g + k < sizes[m]) /\ got' = <<>> /\ rstate' = rstate
          /\ delivered' = Append(delivered, all)
  BY <1>4, <1>9, <1>11, ZenonT(20) DEF GotRest, all
<1>. QED BY <1>12, <1>13, <1>14, <1>15

(* Write and sendBytes: what a round puts into the socket keeps the         *)
(* invariant, whether it ends the message or stops inside it.               *)
LEMMA WriteAdvances ==
  ASSUME FramingInv, wmsg < Len(sizes), UNCHANGED <<sizes, tls, interval, readVars>>,
         NEW d \in Nat, Emit(d),
         \/ wn + d < Length(wmsg + 1) /\ wmsg' = wmsg /\ wn' = wn + d
         \/ wn + d = Length(wmsg + 1) /\ wmsg' = wmsg + 1 /\ wn' = 0,
         wdeadline' \in Deadlines, wstate' \in {"open", "closed"}
  PROVE  FramingInv'
<1>1. /\ sizes' = sizes /\ tls' = tls /\ interval' = interval /\ got' = got
      /\ rstate' = rstate /\ rdeadline' = rdeadline /\ delivered' = delivered
  BY DEF readVars
<1>2. /\ inflight' \in Seq(Nat \X Nat) /\ Len(inflight') <= Window
      /\ \A i \in 1..Len(inflight') : /\ inflight'[i][1] \in 1..Len(sizes)
                                      /\ inflight'[i][2] \in 1..Length(inflight'[i][1])
      /\ Contiguous(Unread)'
      /\ Unread'[1] = Unread[1]
  BY <1>1, EmitStream
<1>3. /\ sizes \in Streams /\ sizes \in Seq(Nat) /\ wmsg \in 0..Len(sizes) /\ wn \in Nat
      /\ Len(sizes) \in Nat /\ Len(delivered) <= Len(sizes)
      /\ tls \in TlsModes /\ interval \in Intervals
      /\ rstate \in {"open", "closed"} /\ rdeadline \in Deadlines
  BY FramingAssumption DEF FramingInv, TypeOK
<1>4. /\ wmsg' \in 0..Len(sizes) /\ wn' \in Nat
      /\ wmsg' < Len(sizes) => wn' < Length(wmsg' + 1)
      /\ wmsg' = Len(sizes) => wn' = 0
  <2>1. CASE wn + d < Length(wmsg + 1) /\ wmsg' = wmsg /\ wn' = wn + d
    BY <1>3, <2>1
  <2>2. CASE wn + d = Length(wmsg + 1) /\ wmsg' = wmsg + 1 /\ wn' = 0
    <3>1. wmsg + 1 \in 0..Len(sizes) /\ wmsg + 1 \in Nat
      BY <1>3
    <3>2. ASSUME wmsg + 1 < Len(sizes) PROVE 0 < Length((wmsg + 1) + 1)
      <4>1. (wmsg + 1) + 1 \in 1..Len(sizes)
        BY <1>3, <3>1, <3>2
      <4>2. Length((wmsg + 1) + 1) \in Nat /\ Length((wmsg + 1) + 1) >= 4
        BY <1>3, <4>1, BytesFacts
      <4>3. \A z \in Nat : z >= 4 => 0 < z
        OBVIOUS
      <4>. QED BY <4>2, <4>3, ZenonT(20)
    <3>. QED BY <2>2, <3>1, <3>2
  <2>. QED BY <2>1, <2>2
<1>5. TypeOK'
  BY <1>1, <1>2, <1>3, <1>4 DEF TypeOK, Length
<1>6. (\A i \in 1..Len(inflight) : /\ inflight[i][1] \in 1..Len(sizes)
                                  /\ inflight[i][2] \in 1..Length(inflight[i][1]))'
  BY <1>1, <1>2 DEF Length
<1>7. Begun' /\ ReadsWhatWasSent'
  BY <1>1, ZenonT(20) DEF FramingInv, Begun, ReadsWhatWasSent, Bytes, Length
<1>8. (rstate = "open" => Unread[1] = <<Len(delivered) + 1, Len(got) + 1>>)'
  BY <1>1, <1>2 DEF FramingInv
<1>9. got' \in Seq(Nat \X Nat) /\ delivered' \in Seq(Seq(Nat \X Nat))
  BY <1>1 DEF FramingInv
<1>. QED BY <1>1, <1>2, <1>4, <1>5, <1>6, <1>7, <1>8, <1>9 DEF FramingInv

(* A step that moves no byte. *)
LEMMA NoByteMoves ==
  ASSUME FramingInv, UNCHANGED <<sizes, tls, wmsg, wn, inflight, got, delivered>>,
         interval' \in Intervals, wdeadline' \in Deadlines, rdeadline' \in Deadlines,
         wstate' \in {"open", "closed"}, rstate' \in {"open", "closed"},
         rstate' = "open" => rstate = "open"
  PROVE  FramingInv'
<1>1. TypeOK'
  BY SMTT(30) DEF FramingInv, TypeOK, Length
<1>2. Unread' = Unread /\ (Contiguous(Unread) => Contiguous(Unread)')
  <2>1. Unread' = Unread
    BY ZenonT(20) DEF Unread
  <2>2. \A m : Length(m)' = Length(m)
    BY ZenonT(20) DEF Length
  <2>. QED BY <2>1, <2>2, ZenonT(20) DEF Contiguous
<1>3. Begun' /\ ReadsWhatWasSent'
  BY ZenonT(20) DEF FramingInv, Begun, ReadsWhatWasSent, Bytes, Length
<1>4. (\A i \in 1..Len(inflight) : /\ inflight[i][1] \in 1..Len(sizes)
                                  /\ inflight[i][2] \in 1..Length(inflight[i][1]))'
  BY DEF FramingInv, Length
<1>. QED BY <1>1, <1>2, <1>3, <1>4 DEF FramingInv

(* Init and every step keep the bytes between sender and reader in step. *)
LEMMA FramingInit ==
  ASSUME Init
  PROVE  FramingInv
<1>1. /\ sizes \in Seq(Nat) /\ wmsg = 0 /\ wn = 0 /\ inflight = <<>> /\ got = <<>>
      /\ delivered = <<>> /\ Len(sizes) \in Nat /\ Window \in Nat
  BY FramingAssumption DEF Init
<1>2. /\ inflight \in Seq(Nat \X Nat) /\ Len(inflight) = 0 /\ got \in Seq(Nat \X Nat)
      /\ Len(got) = 0 /\ delivered \in Seq(Seq(Nat \X Nat)) /\ Len(delivered) = 0
  BY <1>1, EmptySeq
<1>3. TypeOK
  <2>1. ASSUME wmsg < Len(sizes) PROVE wn < Length(wmsg + 1)
    <3>1. wmsg + 1 \in 1..Len(sizes)
      BY <1>1, <2>1
    <3>2. Length(wmsg + 1) \in Nat /\ Length(wmsg + 1) >= 4
      BY <1>1, <3>1, BytesFacts
    <3>3. \A z \in Nat : z >= 4 => 0 < z
      OBVIOUS
    <3>. QED BY <1>1, <3>2, <3>3, ZenonT(20)
  <2>. QED BY <1>1, <1>2, <2>1 DEF Init, TypeOK, Deadlines
<1>4. Unread \in Seq(Nat \X Nat) /\ Len(Unread) = 1 /\ Unread[1] = <<1, 1>>
  <2>1. wmsg \in Nat /\ wn \in Nat
    BY <1>1
  <2>2. /\ Unread \in Seq(Nat \X Nat) /\ Len(Unread) = 0 + 1
        /\ Unread[0 + 1] = <<0 + 1, 0 + 1>>
    BY <1>1, <1>2, <2>1, UnreadFacts
  <2>. QED BY <2>2
<1>5. Contiguous(Unread)
  <2>1. \A i, j \in DOMAIN Unread : ~(i < j)
    BY <1>4, LenProperties
  <2>. QED BY <2>1 DEF Contiguous
<1>6. Begun /\ ReadsWhatWasSent
  <2>1. DOMAIN delivered = {}
    BY <1>2, LenProperties
  <2>. QED BY <1>1, <2>1 DEF Begun, ReadsWhatWasSent
<1>7. Unread[1] = <<Len(delivered) + 1, Len(got) + 1>>
  BY <1>2, <1>4
<1>8. 1..Len(inflight) = {}
  BY <1>2
<1>. QED BY <1>1, <1>2, <1>3, <1>5, <1>6, <1>7, <1>8 DEF FramingInv

(* Every step keeps the bytes between sender and reader in step. *)
LEMMA FramingStep ==
  ASSUME FramingInv, [Next]_vars
  PROVE  FramingInv'
<1>1. /\ tls \in TlsModes /\ interval \in Intervals /\ {wstate, rstate} \subseteq {"open", "closed"}
      /\ wdeadline \in Deadlines /\ rdeadline \in Deadlines
      /\ sizes \in Seq(Nat) /\ wmsg \in 0..Len(sizes) /\ wn \in Nat /\ Len(sizes) \in Nat
  BY FramingAssumption DEF FramingInv, TypeOK
<1>2. /\ Armed(wdeadline) \in Deadlines /\ Armed(rdeadline) \in Deadlines /\ "past" \in Deadlines
  BY <1>1 DEF Armed, Deadlines
<1>3. wmsg < Len(sizes) => Len(Message) = Length(wmsg + 1) /\ Length(wmsg + 1) \in Nat
  <2>1. wmsg < Len(sizes) => wmsg + 1 \in 1..Len(sizes)
    BY <1>1
  <2>. QED BY <1>1, <2>1, BytesFacts DEF Message
<1>4. \A d \in 0..Window : d \in Nat
  BY FramingAssumption
<1>5. CASE WriteOk
  <2>1. /\ wmsg < Len(sizes) /\ wdeadline' \in Deadlines /\ wstate' \in {"open", "closed"}
        /\ UNCHANGED <<sizes, tls, interval, readVars>>
    BY <1>1, <1>2, <1>5 DEF WriteOk, Sending
  <2>2. PICK d \in 1..Window :
          /\ Emit(d)
          /\ wmsg' = IF wn + d = Len(Message) THEN wmsg + 1 ELSE wmsg
          /\ wn' = IF wn + d = Len(Message) THEN 0 ELSE wn + d
    BY <1>5 DEF WriteOk
  <2>3. d \in Nat
    BY FramingAssumption
  <2>4. wn + d <= Length(wmsg + 1)
    BY <1>3, <2>1, <2>2 DEF Emit
  <2>5. \A z \in Nat : wn + d <= z => wn + d < z \/ wn + d = z
    BY <1>1, <2>3
  <2>6. \/ wn + d < Length(wmsg + 1) /\ wn + d # Len(Message)
        \/ wn + d = Length(wmsg + 1) /\ wn + d = Len(Message)
    <3>1. \A z \in Nat : wn + d < z => wn + d # z
      BY <1>1, <2>3
    <3>. QED BY <1>3, <2>1, <2>4, <2>5, <3>1, ZenonT(20)
  <2>7. \/ wn + d < Length(wmsg + 1) /\ wmsg' = wmsg /\ wn' = wn + d
        \/ wn + d = Length(wmsg + 1) /\ wmsg' = wmsg + 1 /\ wn' = 0
    BY <2>2, <2>6, ZenonT(20)
  <2>. QED BY <2>1, <2>2, <2>3, <2>7, WriteAdvances
<1>6. CASE WriteTimeout
  <2>1. /\ wmsg < Len(sizes) /\ wdeadline' \in Deadlines /\ wmsg' = wmsg
        /\ UNCHANGED <<sizes, tls, interval, readVars>>
    BY <1>2, <1>6 DEF WriteTimeout, Sending
  <2>2. PICK d \in 0..Window :
          /\ wn + d < Len(Message) /\ Emit(d) /\ wn' = wn + d
          /\ wstate' = IF tls THEN "closed" ELSE "open"
    BY <1>6 DEF WriteTimeout
  <2>. QED BY <1>3, <1>4, <2>1, <2>2, WriteAdvances
<1>7. CASE WriteFails
  <2>1. /\ wmsg < Len(sizes) /\ wdeadline' \in Deadlines /\ wmsg' = wmsg
        /\ wstate' \in {"open", "closed"} /\ UNCHANGED <<sizes, tls, interval, readVars>>
    BY <1>1, <1>7 DEF WriteFails, Sending
  <2>2. PICK d \in 0..Window : wn + d < Len(Message) /\ Emit(d) /\ wn' = wn + d
    BY <1>7 DEF WriteFails
  <2>. QED BY <1>3, <1>4, <2>1, <2>2, WriteAdvances
<1>8. CASE SenderLeaves
  BY <1>1, <1>8, NoByteMoves DEF SenderLeaves, readVars
<1>9. CASE ReadData
  <2>1. /\ rstate = "open" /\ rdeadline' \in Deadlines
        /\ UNCHANGED <<sizes, tls, interval, writeVars>>
    BY <1>2, <1>9 DEF ReadData, Reading
  <2>2. PICK k \in 1..Len(inflight) :
          /\ k <= Wanted
          /\ inflight' = SubSeq(inflight, k + 1, Len(inflight))
          /\ IF got = <<>> THEN GotSize(SubSeq(inflight, 1, k)) ELSE GotRest(SubSeq(inflight, 1, k))
    BY <1>9 DEF ReadData
  <2>3. CASE got = <<>>
    BY <2>1, <2>2, <2>3, GotSizeStep DEF Wanted
  <2>4. CASE got # <<>>
    BY <2>1, <2>2, <2>4, GotRestStep DEF Wanted
  <2>. QED BY <2>3, <2>4
<1>10. CASE ReadTimeout
  BY <1>1, <1>2, <1>10, NoByteMoves DEF ReadTimeout, Reading, writeVars
<1>11. CASE ReadFails
  BY <1>1, <1>11, NoByteMoves DEF ReadFails, ReadFailed, writeVars
<1>12. CASE ChangeInterval
  BY <1>1, <1>12, NoByteMoves DEF ChangeInterval, writeVars, readVars
<1>13. CASE UNCHANGED vars
  BY <1>1, <1>13, NoByteMoves DEF vars
<1>. QED BY <1>5, <1>6, <1>7, <1>8, <1>9, <1>10, <1>11, <1>12, <1>13 DEF Next

-----------------------------------------------------------------------------
(* The next byte of the socket is the next byte of the message that         *)
(* ReadMessage is reading, whatever the rounds of CheckedConn.Read and      *)
(* CheckedConn.Write took, timed out on or failed with.                     *)
THEOREM FramingInvariant == Spec => []FramingInv
<1>1. Init => FramingInv
  BY FramingInit
<1>2. FramingInv /\ [Next]_vars => FramingInv'
  BY FramingStep
<1>. QED BY <1>1, <1>2, PTL DEF Spec

(* The socket holds at most Window bytes, sendBytes stays inside the        *)
(* message it sends, and no message is delivered that was not sent.         *)
THEOREM FramingTypeCorrect == Spec => []TypeOK
<1>1. FramingInv => TypeOK
  BY DEF FramingInv
<1>. QED BY <1>1, FramingInvariant, PTL

(* ReadMessage returns the messages given to sendBytes, each whole, in      *)
(* order and once.                                                          *)
THEOREM ReadMessageReturnsWhatWasSent == Spec => []ReadsWhatWasSent
<1>1. FramingInv => ReadsWhatWasSent
  BY DEF FramingInv
<1>. QED BY <1>1, FramingInvariant, PTL

(* ReadMessage takes a size only from the first four bytes of a message. *)
THEOREM SizeReadAtMessageStart == Spec => []ReaderInStep
<1>1. FramingInv => ReaderInStep
  <2>1. ASSUME FramingInv, got # <<>> PROVE InStep(got)
    <3>1. Len(got) \in Nat \ {0} /\ \A i \in 1..Len(got) : got[i] = <<Len(delivered) + 1, i>>
      BY <2>1, EmptySeq, ZenonT(20) DEF FramingInv, Begun
    <3>2. got[1] = <<Len(delivered) + 1, 1>>
      BY <3>1
    <3>. QED BY <3>2 DEF InStep
  <2>. QED BY <2>1 DEF ReaderInStep
<1>. QED BY <1>1, FramingInvariant, PTL
-----------------------------------------------------------------------------
(* A byte under way is of a message that sendBytes has written, or of the   *)
(* part it has written of the next one.                                     *)
IsWritten(b) == b[1] <= wmsg \/ (b[1] = wmsg + 1 /\ b[2] <= wn)

Written == \A i \in 1..Len(inflight) : IsWritten(inflight[i])

(* A round of Write takes bytes from where the last one stopped and stops   *)
(* inside the message or at its end.                                        *)
LEMMA WriteRound ==
  ASSUME FramingInv, WriteOk \/ WriteTimeout \/ WriteFails
  PROVE  /\ wmsg < Len(sizes)
         /\ \E d \in Nat : /\ Emit(d)
                           /\ \/ wmsg' = wmsg /\ wn' = wn + d
                              \/ wmsg' = wmsg + 1
<1>1. wmsg < Len(sizes)
  BY ZenonT(20) DEF WriteOk, WriteTimeout, WriteFails, Sending
<1>2. \A d : d \in 1..Window \/ d \in 0..Window => d \in Nat
  BY FramingAssumption
<1>3. CASE WriteOk
  <2>1. PICK d \in 1..Window :
          /\ Emit(d)
          /\ wmsg' = IF wn + d = Len(Message) THEN wmsg + 1 ELSE wmsg
          /\ wn' = IF wn + d = Len(Message) THEN 0 ELSE wn + d
    BY <1>3, ZenonT(20) DEF WriteOk
  <2>. QED BY <1>1, <1>2, <2>1, ZenonT(20)
<1>4. CASE WriteTimeout
  <2>1. PICK d \in 0..Window : Emit(d) /\ wn' = wn + d
    BY <1>4, ZenonT(20) DEF WriteTimeout
  <2>2. wmsg' = wmsg
    BY <1>4, ZenonT(20) DEF WriteTimeout
  <2>. QED BY <1>1, <1>2, <2>1, <2>2, ZenonT(20)
<1>5. CASE WriteFails
  <2>1. PICK d \in 0..Window : Emit(d) /\ wn' = wn + d
    BY <1>5, ZenonT(20) DEF WriteFails
  <2>2. wmsg' = wmsg
    BY <1>5, ZenonT(20) DEF WriteFails
  <2>. QED BY <1>1, <1>2, <2>1, <2>2, ZenonT(20)
<1>. QED BY <1>3, <1>4, <1>5

(* What a byte under way is stays so while sendBytes goes on. *)
LEMMA WriteKeepsWritten ==
  ASSUME FramingInv, Written, wmsg < Len(sizes), NEW d \in Nat, Emit(d),
         \/ wmsg' = wmsg /\ wn' = wn + d
         \/ wmsg' = wmsg + 1
  PROVE  Written'
<1>1. /\ sizes \in Seq(Nat) /\ wmsg \in 0..Len(sizes) /\ wn \in Nat /\ wmsg \in Nat
      /\ inflight \in Seq(Nat \X Nat) /\ Len(inflight) \in Nat
  BY FramingAssumption DEF FramingInv, TypeOK
<1>2. /\ Len(inflight') = Len(inflight) + d
      /\ \A i \in 1..Len(inflight) : inflight'[i] = inflight[i]
      /\ \A i \in 1..d : inflight'[Len(inflight) + i] = <<wmsg + 1, wn + i>>
  BY <1>1, EmitFacts, ZenonT(20)
<1>3. ASSUME NEW x \in Nat, NEW y \in Nat, x <= wmsg \/ (x = wmsg + 1 /\ y <= wn + d)
      PROVE  x <= wmsg' \/ (x = wmsg' + 1 /\ y <= wn')
  BY <1>1, <1>3
<1>4. ASSUME NEW i \in 1..Len(inflight') PROVE IsWritten(inflight[i])'
  <2>1. CASE i \in 1..Len(inflight)
    <3>1. inflight'[i] = inflight[i] /\ IsWritten(inflight[i])
      BY <1>2, <2>1, ZenonT(20) DEF Written
    <3>2. PICK x \in Nat, y \in Nat : x = inflight[i][1] /\ y = inflight[i][2]
      BY <1>1, <2>1, PairFacts, ZenonT(20)
    <3>3. x <= wmsg \/ (x = wmsg + 1 /\ y <= wn)
      BY <3>1, <3>2, ZenonT(20) DEF IsWritten
    <3>4. x <= wmsg \/ (x = wmsg + 1 /\ y <= wn + d)
      BY <1>1, <3>3
    <3>5. x <= wmsg' \/ (x = wmsg' + 1 /\ y <= wn')
      BY <1>3, <3>4, ZenonT(20)
    <3>. QED BY <3>1, <3>2, <3>5, ZenonT(20) DEF IsWritten
  <2>2. CASE i \notin 1..Len(inflight)
    <3>1. PICK n \in Nat : n = Len(inflight)
      BY <1>1, ZenonT(20)
    <3>2. i \in 1..n + d /\ i \notin 1..n
      BY <1>2, <2>2, <3>1, ZenonT(20)
    <3>3. i - n \in 1..d /\ n + (i - n) = i
      BY <3>2
    <3>4. inflight'[i] = <<wmsg + 1, wn + (i - n)>>
      BY <1>2, <3>1, <3>3, ZenonT(20)
    <3>5. wmsg + 1 \in Nat /\ wn + (i - n) \in Nat /\ wn + (i - n) <= wn + d
      BY <1>1, <3>3
    <3>6. PICK x \in Nat, y \in Nat : x = wmsg + 1 /\ y = wn + (i - n)
      BY <3>5, ZenonT(20)
    <3>7. x <= wmsg' \/ (x = wmsg' + 1 /\ y <= wn')
      BY <1>3, <3>5, <3>6, ZenonT(20)
    <3>8. inflight'[i][1] = x /\ inflight'[i][2] = y
      BY <3>4, <3>6
    <3>. QED BY <3>7, <3>8, ZenonT(20) DEF IsWritten
  <2>. QED BY <2>1, <2>2
<1>. QED BY <1>4, ZenonT(20) DEF Written

(* A read takes bytes from the front of the socket and leaves the others. *)
LEMMA BytesLeft ==
  ASSUME NEW s \in Seq(Nat \X Nat), NEW k \in 1..Len(s)
  PROVE  \A i \in 1..Len(SubSeq(s, k + 1, Len(s))) :
           k + i \in 1..Len(s) /\ SubSeq(s, k + 1, Len(s))[i] = s[k + i]
<1>1. PICK n \in Nat : n = Len(s) /\ DOMAIN s = 1..n
  BY LenProperties, ZenonT(20)
<1>2. k \in 1..n
  BY <1>1, ZenonT(20)
<1>3. PICK a \in Nat : a = k + 1
  BY <1>2
<1>. DEFINE rest == SubSeq(s, a, n)
<1>4. \A j \in a..n : s[j] \in Nat \X Nat
  <2>1. \A j \in a..n : j \in 1..n
    BY <1>2, <1>3
  <2>. QED BY <1>1, <2>1, ElementOfSeq, ZenonT(20)
<1>5. /\ Len(rest) = IF a <= n THEN n - a + 1 ELSE 0
      /\ \A j \in 1..(n - a + 1) : rest[j] = s[a + j - 1]
  <2>1. a \in Int /\ n \in Int
    OBVIOUS
  <2>. HIDE DEF rest
  <2>2. Len(rest) = IF a <= n THEN n - a + 1 ELSE 0
    BY <1>4, <2>1, SubSeqProperties, SMTT(30) DEF rest
  <2>3. \A j \in 1..(n - a + 1) : rest[j] = s[a + j - 1]
    BY <1>4, <2>1, SubSeqProperties, SMTT(30) DEF rest
  <2>. QED BY <2>2, <2>3
<1>. HIDE DEF rest
<1>6. PICK l \in Nat : l = Len(rest)
  <2>1. (IF a <= n THEN n - a + 1 ELSE 0) \in Nat
    OBVIOUS
  <2>. QED BY <1>5, <2>1, ZenonT(20)
<1>7. ASSUME NEW i \in 1..Len(rest)
      PROVE  k + i \in 1..n /\ rest[i] = s[k + i]
  <2>1. i \in 1..l /\ l = IF a <= n THEN n - a + 1 ELSE 0
    BY <1>5, <1>6, ZenonT(20)
  <2>2. i \in 1..(n - a + 1) /\ a + i - 1 = k + i /\ k + i \in 1..n
    BY <1>2, <1>3, <2>1
  <2>. QED BY <1>5, <2>2, ZenonT(20)
<1>. QED BY <1>1, <1>3, <1>7, ZenonT(20) DEF rest

(* Every step keeps it: what is read leaves the rest as it was. *)
LEMMA WrittenStep ==
  ASSUME FramingInv, Written, [Next]_vars
  PROVE  Written'
<1>1. /\ inflight \in Seq(Nat \X Nat) /\ Len(inflight) \in Nat
  BY DEF FramingInv
<1>2. CASE WriteOk \/ WriteTimeout \/ WriteFails
  BY <1>2, WriteRound, WriteKeepsWritten, ZenonT(20)
<1>3. CASE ReadData
  <2>1. PICK k \in 1..Len(inflight) : inflight' = SubSeq(inflight, k + 1, Len(inflight))
    BY <1>3, ZenonT(20) DEF ReadData
  <2>2. wmsg' = wmsg /\ wn' = wn
    BY <1>3, ZenonT(20) DEF ReadData, writeVars
  <2>3. ASSUME NEW i \in 1..Len(inflight')
        PROVE  k + i \in 1..Len(inflight) /\ inflight'[i] = inflight[k + i]
    BY <1>1, <2>1, <2>3, BytesLeft, ZenonT(20)
  <2>. QED BY <2>2, <2>3, ZenonT(20) DEF Written, IsWritten
<1>4. CASE SenderLeaves \/ ReadTimeout \/ ReadFails \/ ChangeInterval \/ UNCHANGED vars
  <2>1. wmsg' = wmsg /\ wn' = wn /\ inflight' = inflight
    BY <1>4, ZenonT(20) DEF SenderLeaves, ReadTimeout, ReadFails, ChangeInterval, vars, writeVars
  <2>. QED BY <2>1, ZenonT(20) DEF Written, IsWritten
<1>. QED BY <1>2, <1>3, <1>4, ZenonT(20) DEF Next

(* ReadMessage returns a message that sendBytes has written to its end. *)
LEMMA DeliverStep ==
  ASSUME FramingInv, Written, FramingInv', ReadData, delivered' # delivered
  PROVE  /\ rstate = "open" /\ rstate' = "open"
         /\ Len(delivered) < wmsg
         /\ delivered' = Append(delivered, Bytes(Len(delivered) + 1))
<1>1. /\ inflight \in Seq(Nat \X Nat) /\ got \in Seq(Nat \X Nat)
      /\ delivered \in Seq(Seq(Nat \X Nat)) /\ sizes \in Seq(Nat)
      /\ wmsg \in 0..Len(sizes) /\ wn \in Nat
      /\ wmsg < Len(sizes) => wn < Length(wmsg + 1)
  BY FramingAssumption, ZenonT(20) DEF FramingInv, TypeOK
<1>2. sizes' = sizes /\ rstate = "open"
  BY ZenonT(20) DEF ReadData, Reading
<1>3. PICK k \in 1..Len(inflight) :
        IF got = <<>> THEN GotSize(SubSeq(inflight, 1, k)) ELSE GotRest(SubSeq(inflight, 1, k))
  BY ZenonT(20) DEF ReadData
<1>. DEFINE part == SubSeq(inflight, 1, k)
            all == got \o part
<1>4. rstate' = rstate /\ delivered' = Append(delivered, all)
  <2>1. got # <<>>
    BY <1>3, ZenonT(20) DEF GotSize, ReadFailed
  <2>. QED BY <1>3, <2>1, ZenonT(20) DEF GotRest, ReadFailed
<1>5. /\ part \in Seq(Nat \X Nat) /\ Len(part) = k /\ part[k] = inflight[k]
      /\ k \in Nat \ {0} /\ Len(inflight) \in Nat
  <2>1. Len(inflight) \in Nat
    BY <1>1, LenProperties, ZenonT(20)
  <2>2. k \in Nat \ {0} /\ k \in 1..k
    BY <2>1
  <2>. QED BY <1>1, <2>1, <2>2, PrefixFacts, ZenonT(20)
<1>. HIDE DEF part
<1>0. PICK m \in Nat \ {0}, g \in Nat : m = Len(delivered) + 1 /\ g = Len(got)
  <2>1. Len(delivered) \in Nat /\ Len(got) \in Nat
    BY <1>1, LenProperties, ZenonT(20)
  <2>2. Len(delivered) + 1 \in Nat \ {0}
    BY <2>1
  <2>. QED BY <2>1, <2>2, ZenonT(20)
<1>6. /\ all \in Seq(Nat \X Nat) /\ Len(all) = g + k /\ all[g + k] = part[k]
  <2>1. /\ all \in Seq(Nat \X Nat) /\ Len(all) = Len(got) + Len(part)
        /\ \A i \in 1..Len(got) + Len(part) :
             all[i] = IF i <= Len(got) THEN got[i] ELSE part[i - Len(got)]
    BY <1>1, <1>5, ConcatProperties, ZenonT(20)
  <2>2. g + k \in 1..g + k /\ ~(g + k <= g) /\ (g + k) - g = k
    BY <1>0, <1>5
  <2>. HIDE DEF all
  <2>3. all[g + k] = IF g + k <= g THEN got[g + k] ELSE part[(g + k) - g]
    BY <1>0, <1>5, <2>1, <2>2, ZenonT(20)
  <2>4. all[g + k] = part[k]
    BY <2>2, <2>3, ZenonT(20)
  <2>. QED BY <1>0, <1>5, <2>1, <2>4, ZenonT(20)
<1>. HIDE DEF all
<1>7. Len(delivered') = m /\ delivered'[m] = all /\ m \in DOMAIN delivered'
  <2>1. /\ Append(delivered, all) \in Seq(Seq(Nat \X Nat))
        /\ Len(Append(delivered, all)) = Len(delivered) + 1
        /\ Append(delivered, all)[Len(delivered) + 1] = all
    BY <1>1, <1>6, AppendProperties, SMTT(20)
  <2>2. m \in 1..m
    BY <1>0
  <2>3. delivered' \in Seq(Seq(Nat \X Nat)) /\ Len(delivered') = m /\ delivered'[m] = all
    BY <1>0, <1>4, <2>1, ZenonT(20)
  <2>. QED BY <2>2, <2>3, LenProperties, ZenonT(20)
<1>8. m \in 1..Len(sizes)
  <2>1. Len(delivered') <= Len(sizes)
    BY <1>2, ZenonT(20) DEF FramingInv, TypeOK
  <2>2. Len(sizes) \in Nat
    BY <1>1
  <2>. QED BY <1>7, <2>1, <2>2
<1>9. all = Bytes(m)
  <2>1. delivered'[m] = Bytes(m)'
    BY <1>7, ZenonT(20) DEF FramingInv, ReadsWhatWasSent
  <2>2. Bytes(m)' = Bytes(m)
    BY <1>2, <1>7, ZenonT(20) DEF Bytes, Length
  <2>. QED BY <1>7, <2>1, <2>2, ZenonT(20)
<1>10. PICK n \in Nat : n = Length(m) /\ Len(all) = n /\ n >= 4
       /\ \A i \in 1..n : Bytes(m)[i] = <<m, i>>
  BY <1>1, <1>8, <1>9, BytesFacts, ZenonT(20)
<1>11. inflight[k] = <<m, n>>
  <2>1. all[n] = inflight[k]
    BY <1>5, <1>6, <1>10, ZenonT(20)
  <2>2. n \in 1..n
    BY <1>10
  <2>. QED BY <1>9, <1>10, <2>1, <2>2, ZenonT(20)
<1>12. m <= wmsg \/ (m = wmsg + 1 /\ n <= wn)
  BY <1>11, SMTT(20) DEF Written, IsWritten
<1>13. m <= wmsg
  <2>1. wmsg \in Nat /\ Len(sizes) \in Nat
    BY <1>1
  <2>2. ASSUME m = wmsg + 1 PROVE wn < n
    <3>1. wmsg < Len(sizes)
      BY <1>8, <2>1, <2>2
    <3>. QED BY <1>1, <1>10, <2>2, <3>1, ZenonT(20)
  <2>3. ASSUME m = wmsg + 1 PROVE ~(n <= wn)
    BY <1>1, <1>10, <2>2, <2>3
  <2>. QED BY <1>12, <2>3, ZenonT(20)
<1>14. Len(delivered) < wmsg
  <2>1. Len(delivered) \in Nat /\ wmsg \in Nat
    BY <1>1
  <2>. QED BY <1>0, <1>13, <2>1
<1>. QED BY <1>0, <1>2, <1>4, <1>9, <1>14, ZenonT(20)

(* The messages to send stay the same. *)
LEMMA SameMessages ==
  ASSUME sizes' = sizes
  PROVE  [m \in 1..Len(sizes) |-> Bytes(m)]' = [m \in 1..Len(sizes) |-> Bytes(m)]
BY ZenonT(20) DEF Bytes, Length

(* Every step of the sockets is a step of the channel or none. *)
LEMMA ChannelStep ==
  ASSUME FramingInv, Written, FramingInv', [Next]_vars
  PROVE  [Channel!ChannelNext]_(Channel!channelVars)
<1>. DEFINE toSend == [m \in 1..Len(sizes) |-> Bytes(m)]
<1>1. /\ sizes \in Seq(Nat) /\ Len(sizes) \in Nat /\ wmsg \in 0..Len(sizes)
      /\ wstate \in {"open", "closed"} /\ rstate \in {"open", "closed"}
      /\ delivered \in Seq(Seq(Nat \X Nat)) /\ Len(delivered) \in Nat
  BY FramingAssumption, LenProperties, ZenonT(20) DEF FramingInv, TypeOK
<1>2. Len(toSend) = Len(sizes) /\ \A m \in 1..Len(sizes) : toSend[m] = Bytes(m)
  BY <1>1
<1>3. sizes' = sizes
  BY ZenonT(20) DEF Next, vars, WriteOk, WriteTimeout, WriteFails, SenderLeaves, ReadData,
     ReadTimeout, ReadFails, ChangeInterval
<1>4. toSend' = toSend
  BY <1>3, SameMessages
<1>. HIDE DEF toSend
<1>5. CASE WriteOk
  <2>1. wstate = "open" /\ wmsg < Len(sizes)
    BY <1>5, ZenonT(20) DEF WriteOk, Sending
  <2>2. wstate' = wstate /\ rstate' = rstate /\ delivered' = delivered
    BY <1>5, ZenonT(20) DEF WriteOk, readVars
  <2>3. wmsg' = wmsg \/ wmsg' = wmsg + 1
    BY <1>5, ZenonT(20) DEF WriteOk
  <2>4. CASE wmsg' = wmsg
    BY <1>4, <2>2, <2>4, ZenonT(20) DEF Channel!channelVars, toSend
  <2>5. CASE wmsg' = wmsg + 1
    <3>1. Channel!SendMessage
      BY <1>2, <1>4, <2>1, <2>2, <2>5, ZenonT(20) DEF Channel!SendMessage, toSend
    <3>. QED BY <3>1, ZenonT(20) DEF Channel!ChannelNext
  <2>. QED BY <2>3, <2>4, <2>5
<1>6. CASE WriteTimeout \/ WriteFails \/ SenderLeaves
  <2>1. wstate = "open" /\ wmsg' = wmsg /\ rstate' = rstate /\ delivered' = delivered
    BY <1>6, ZenonT(20) DEF WriteTimeout, WriteFails, SenderLeaves, Sending, readVars
  <2>2. wstate' = wstate \/ wstate' = "closed"
    BY <1>6, <2>1, ZenonT(20) DEF WriteTimeout, WriteFails, SenderLeaves
  <2>3. CASE wstate' = wstate
    BY <1>4, <2>1, <2>3, ZenonT(20) DEF Channel!channelVars, toSend
  <2>4. CASE wstate' = "closed"
    <3>1. Channel!SenderStops
      BY <1>4, <2>1, <2>4, ZenonT(20) DEF Channel!SenderStops, toSend
    <3>. QED BY <3>1, ZenonT(20) DEF Channel!ChannelNext
  <2>. QED BY <2>2, <2>3, <2>4
<1>7. CASE ReadData \/ ReadTimeout \/ ReadFails
  <2>1. rstate = "open" /\ wmsg' = wmsg /\ wstate' = wstate
    BY <1>7, ZenonT(20) DEF ReadData, ReadTimeout, ReadFails, Reading, writeVars
  <2>2. CASE ReadData /\ delivered' # delivered
    <3>1. /\ rstate' = "open" /\ Len(delivered) < wmsg
          /\ delivered' = Append(delivered, Bytes(Len(delivered) + 1))
      BY <2>2, DeliverStep, ZenonT(20)
    <3>2. Len(delivered) + 1 \in 1..Len(sizes)
      BY <1>1, <3>1
    <3>3. delivered' = Append(delivered, toSend[Len(delivered) + 1])
      BY <1>2, <3>1, <3>2, ZenonT(20)
    <3>4. Channel!ReceiveMessage
      BY <1>4, <2>1, <3>1, <3>3, ZenonT(20) DEF Channel!ReceiveMessage, toSend
    <3>. QED BY <3>4, ZenonT(20) DEF Channel!ChannelNext
  <2>3. CASE delivered' = delivered /\ rstate' = rstate
    BY <1>4, <2>1, <2>3, ZenonT(20) DEF Channel!channelVars, toSend
  <2>4. CASE delivered' = delivered /\ rstate' = "closed"
    <3>1. Channel!ReaderStops
      BY <1>4, <2>1, <2>4, ZenonT(20) DEF Channel!ReaderStops, toSend
    <3>. QED BY <3>1, ZenonT(20) DEF Channel!ChannelNext
  <2>5. rstate' = rstate \/ rstate' = "closed"
    BY <1>1, <2>1 DEF FramingInv, TypeOK
  <2>6. ReadTimeout \/ ReadFails => delivered' = delivered
    BY ZenonT(20) DEF ReadTimeout, ReadFails, ReadFailed
  <2>. QED BY <1>7, <2>2, <2>3, <2>4, <2>5, <2>6, ZenonT(20)
<1>8. CASE ChangeInterval \/ UNCHANGED vars
  <2>1. wmsg' = wmsg /\ wstate' = wstate /\ rstate' = rstate /\ delivered' = delivered
    BY <1>8, ZenonT(20) DEF ChangeInterval, vars, readVars, writeVars
  <2>. QED BY <1>4, <2>1, ZenonT(20) DEF Channel!channelVars, toSend
<1>. QED BY <1>5, <1>6, <1>7, <1>8, ZenonT(20) DEF Next

(* sendBytes and ReadMessage over CheckedConn are a channel of messages: no *)
(* message is returned before all of it is written, changed, out of turn or *)
(* twice, and an end that has failed stays silent.                          *)
THEOREM FramingImplementsChannel == Spec => RefinesChannel
<1>1. Init => Channel!ChannelInit
  BY ZenonT(20) DEF Init, Channel!ChannelInit
<1>2. Init => Written
  <2>1. ASSUME Init PROVE 1..Len(inflight) = {}
    <3>1. Len(inflight) = 0
      BY <2>1, EmptySeq DEF Init
    <3>. QED BY <3>1
  <2>. QED BY <2>1, ZenonT(20) DEF Written
<1>3. FramingInv /\ Written /\ [Next]_vars => Written'
  BY WrittenStep
<1>4. FramingInv /\ Written /\ FramingInv' /\ [Next]_vars
        => [Channel!ChannelNext]_(Channel!channelVars)
  BY ChannelStep
<1>. QED BY <1>1, <1>2, <1>3, <1>4, FramingInvariant, PTL
         DEF Spec, RefinesChannel, Channel!ChannelSpec
=============================================================================
