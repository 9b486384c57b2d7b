----------------------------- MODULE WireProofs -----------------------------
(***************************************************************************)
(* Proofs about Wire: messages with any number of documents and sections   *)
(* of any widths, cut at any byte, are serialized as they were parsed.     *)
(***************************************************************************)
EXTENDS Wire, WellFoundedInduction, TLAPS

-----------------------------------------------------------------------------
(* Sums *)

Below == {p \in Nat \X Nat : p[1] < p[2]}

(* The induction over the positions of a sequence that the proofs below use: *)
(* a set of natural numbers has a least one.                                *)
LEMMA LeastNumber ==
  ASSUME NEW S, S \subseteq Nat, S # {}
  PROVE  \E n \in S : \A m \in S : n <= m
<1>1. IsWellFoundedOn(Below, Nat)
  BY NatLessThanWellFounded DEF OpToRel, Below
<1>2. PICK n \in S : \A m \in S : ~(<<m, n>> \in Below)
  BY <1>1, WFMin, ZenonT(20)
<1>3. \A m \in S : ~(m < n)
  BY <1>2, ZenonT(20) DEF Below
<1>. QED BY <1>3

(* A set that has 0, and the successor of each of its numbers below n, has  *)
(* all numbers up to n.                                                     *)
LEMMA UpTo ==
  ASSUME NEW n \in Nat, NEW S, 0 \in S, \A i \in 0..(n - 1) : i \in S => i + 1 \in S
  PROVE  0..n \subseteq S
<1>. DEFINE T == {i \in 0..n : i \notin S}
<1>. SUFFICES ASSUME T # {} PROVE FALSE
  OBVIOUS
<1>1. T \subseteq Nat
  OBVIOUS
<1>. HIDE DEF T
<1>2. PICK i \in T : \A j \in T : i <= j
  BY <1>1, LeastNumber, ZenonT(20)
<1>3. i \in 0..n /\ i \notin S
  BY DEF T
<1>4. i # 0 /\ i - 1 \in 0..(n - 1)
  BY <1>3
<1>5. i - 1 \notin T
  BY <1>2, <1>3, <1>4
<1>6. i - 1 \in S
  BY <1>4, <1>5 DEF T
<1>. QED BY <1>3, <1>4, <1>6

(* f is the function of partial sums of ns. *)
IsSums(f, ns, n) == f = [i \in 0..n |-> IF i = 0 THEN 0 ELSE f[i - 1] + ns[i]]

(* The running sums are what their recursion says.                         *)
LEMMA SumsExist ==
  ASSUME NEW ns \in Seq(Nat), NEW n \in Nat
  PROVE  \E f : IsSums(f, ns, n)
<1>. DEFINE S == {m \in Nat : \E f : IsSums(f, ns, m)}
<1>1. 0 \in S
  <2>1. IsSums([i \in 0..0 |-> 0], ns, 0)
    BY DEF IsSums
  <2>. QED BY <2>1
<1>2. ASSUME NEW m \in 0..(n - 1), m \in S PROVE m + 1 \in S
  <2>1. PICK f : IsSums(f, ns, m)
    BY <1>2
  <2>. DEFINE g == [i \in 0..(m + 1) |-> IF i <= m THEN f[i] ELSE f[m] + ns[m + 1]]
  <2>2. ASSUME NEW i \in 0..(m + 1) PROVE g[i] = IF i = 0 THEN 0 ELSE g[i - 1] + ns[i]
    <3>1. \A j \in 0..m : f[j] = IF j = 0 THEN 0 ELSE f[j - 1] + ns[j]
      BY <2>1 DEF IsSums
    <3>2. CASE i <= m
      BY <3>1, <3>2
    <3>3. CASE i = m + 1
      BY <3>3
    <3>. QED BY <3>2, <3>3
  <2>3. IsSums(g, ns, m + 1)
    BY <2>2, ZenonT(20) DEF IsSums
  <2>. QED BY <2>3
<1>. HIDE DEF S
<1>3. n \in S
  <2>1. 0..n \subseteq S
    BY <1>1, <1>2, UpTo
  <2>. QED BY <2>1
<1>. QED BY <1>3 DEF S

(* The partial sums start at 0, and each adds one number. *)
LEMMA SumsStep ==
  ASSUME NEW ns \in Seq(Nat)
  PROVE  /\ Sums(ns)[0] = 0
         /\ \A i \in 1..Len(ns) : Sums(ns)[i] = Sums(ns)[i - 1] + ns[i]
<1>1. PICK f : IsSums(f, ns, Len(ns))
  BY SumsExist
<1>2. IsSums(Sums(ns), ns, Len(ns))
  BY <1>1, ZenonT(20) DEF IsSums, Sums
<1>. QED BY <1>2, SMTT(30) DEF IsSums

(* The running sums of natural numbers are natural numbers.                *)
LEMMA SumsNat ==
  ASSUME NEW ns \in Seq(Nat)
  PROVE  \A i \in 0..Len(ns) : Sums(ns)[i] \in Nat
<1>. DEFINE S == {i \in 0..Len(ns) : Sums(ns)[i] \in Nat}
<1>1. 0 \in S
  BY SumsStep
<1>2. ASSUME NEW i \in 0..(Len(ns) - 1), i \in S PROVE i + 1 \in S
  <2>1. Sums(ns)[i + 1] = Sums(ns)[i] + ns[i + 1]
    BY SumsStep
  <2>2. ns[i + 1] \in Nat
    OBVIOUS
  <2>. QED BY <1>2, <2>1, <2>2
<1>. HIDE DEF S
<1>3. Len(ns) \in Nat
  OBVIOUS
<1>4. 0..Len(ns) \subseteq S
  BY <1>1, <1>2, <1>3, UpTo, ZenonT(20)
<1>. QED BY <1>4 DEF S

(* Where us is the part of ns after its first a numbers, the sums of us are *)
(* the sums of ns less the sum of those a.                                  *)
LEMMA SumsSegment ==
  ASSUME NEW ns \in Seq(Nat), NEW us \in Seq(Nat), NEW a \in Nat,
         a + Len(us) <= Len(ns),
         \A j \in 1..Len(us) : us[j] = ns[a + j]
  PROVE  \A j \in 0..Len(us) : Sums(ns)[a + j] = Sums(ns)[a] + Sums(us)[j]
<1>. DEFINE S == {j \in 0..Len(us) : Sums(ns)[a + j] = Sums(ns)[a] + Sums(us)[j]}
<1>1. Len(us) \in Nat /\ Len(ns) \in Nat
  OBVIOUS
<1>2. 0 \in S
  <2>1. a \in 0..Len(ns) /\ a + 0 = a /\ 0 \in 0..Len(us)
    BY <1>1
  <2>2. PICK x \in Nat : x = Sums(ns)[a]
    BY <2>1, SumsNat, ZenonT(20)
  <2>3. Sums(us)[0] = 0
    BY SumsStep, ZenonT(20)
  <2>4. Sums(ns)[a + 0] = x /\ x = x + 0
    BY <2>1, <2>2
  <2>5. Sums(ns)[a + 0] = Sums(ns)[a] + Sums(us)[0]
    BY <2>2, <2>3, <2>4, ZenonT(20)
  <2>. QED BY <2>1, <2>5, ZenonT(20)
<1>3. ASSUME NEW j \in 0..(Len(us) - 1), j \in S PROVE j + 1 \in S
  <2>1. PICK n \in Nat : n = us[j + 1] /\ n = ns[a + (j + 1)]
    <3>1. j + 1 \in 1..Len(us)
      BY <1>1
    <3>2. us[j + 1] \in Nat
      BY <3>1, SMTT(30)
    <3>. QED BY <3>1, <3>2, ZenonT(20)
  <2>2. Sums(us)[j + 1] = Sums(us)[j] + n
    BY <1>1, <2>1, SumsStep
  <2>3. Sums(ns)[a + (j + 1)] = Sums(ns)[a + j] + n
    BY <1>1, <2>1, SumsStep
  <2>4. Sums(ns)[a] \in Nat /\ Sums(us)[j] \in Nat
    BY <1>1, SumsNat, SMTT(30)
  <2>5. Sums(ns)[a + j] = Sums(ns)[a] + Sums(us)[j]
    BY <1>3
  <2>6. Sums(ns)[a + (j + 1)] = Sums(ns)[a] + Sums(us)[j + 1]
    <3>1. PICK x \in Nat, y \in Nat : x = Sums(us)[j] /\ y = Sums(ns)[a]
      BY <2>4, ZenonT(20)
    <3>2. Sums(ns)[a + j] = y + x
      BY <2>5, <3>1
    <3>3. Sums(ns)[a + (j + 1)] = (y + x) + n
      BY <2>3, <3>2
    <3>4. Sums(us)[j + 1] = x + n
      BY <2>2, <3>1
    <3>5. (y + x) + n = y + (x + n)
      OBVIOUS
    <3>. QED BY <3>1, <3>3, <3>4, <3>5
  <2>. QED BY <1>1, <2>6
<1>. HIDE DEF S
<1>4. 0..Len(us) \subseteq S
  BY <1>1, <1>2, <1>3, UpTo, ZenonT(20)
<1>. QED BY <1>4, ZenonT(20) DEF S

(* A prefix of a sequence has the same running sums.                       *)
LEMMA SumsPrefix ==
  ASSUME NEW ns \in Seq(Nat), NEW us \in Seq(Nat), Len(us) <= Len(ns),
         \A j \in 1..Len(us) : us[j] = ns[j]
  PROVE  Sums(us)[Len(us)] = Sums(ns)[Len(us)]
<1>1. PICK a \in Nat : a = 0
  OBVIOUS
<1>2. Len(us) \in Nat /\ Len(ns) \in Nat
  OBVIOUS
<1>3. \A j \in 0..Len(us) : a + j = j
  BY <1>1, <1>2
<1>4. a + Len(us) <= Len(ns) /\ \A j \in 1..Len(us) : us[j] = ns[a + j]
  BY <1>1, <1>2
<1>5. \A j \in 0..Len(us) : Sums(ns)[a + j] = Sums(ns)[a] + Sums(us)[j]
  BY <1>4, SumsSegment, ZenonT(20)
<1>6. Len(us) \in 0..Len(us) /\ Sums(us)[Len(us)] \in Nat /\ Sums(ns)[a] = 0
  BY <1>1, <1>2, SumsNat, SumsStep
<1>7. Sums(ns)[a + Len(us)] = 0 + Sums(us)[Len(us)]
  BY <1>5, <1>6
<1>8. PICK x \in Nat : x = Sums(us)[Len(us)] /\ 0 + x = x
  BY <1>6
<1>. QED BY <1>3, <1>6, <1>7, <1>8, ZenonT(20)

(* The running sums of positive numbers grow with every number.            *)
LEMMA SumsGrow ==
  ASSUME NEW ns \in Seq(Nat \ {0}), NEW a \in 0..Len(ns), NEW b \in a..Len(ns)
  PROVE  Sums(ns)[b] >= Sums(ns)[a] + (b - a)
<1>. DEFINE S == {j \in 0..(b - a) : Sums(ns)[a + j] >= Sums(ns)[a] + j}
<1>1. b - a \in Nat /\ Len(ns) \in Nat /\ ns \in Seq(Nat)
  OBVIOUS
<1>2. 0 \in S
  BY <1>1, SumsNat
<1>3. ASSUME NEW j \in 0..(b - a - 1), j \in S PROVE j + 1 \in S
  <2>1. PICK n \in Nat \ {0} : n = ns[a + (j + 1)]
    BY <1>1
  <2>2. Sums(ns)[a + (j + 1)] = Sums(ns)[a + j] + n
    BY <1>1, <2>1, SumsStep
  <2>3. Sums(ns)[a] \in Nat /\ Sums(ns)[a + j] \in Nat
    BY <1>1, SumsNat
  <2>4. Sums(ns)[a + j] >= Sums(ns)[a] + j
    BY <1>3
  <2>5. Sums(ns)[a + (j + 1)] >= Sums(ns)[a] + (j + 1)
    BY <2>2, <2>3, <2>4, SMTT(30)
  <2>. QED BY <1>1, <2>5, SMTT(30)
<1>. HIDE DEF S
<1>4. 0..(b - a) \subseteq S
  BY <1>1, <1>2, <1>3, UpTo, ZenonT(20)
<1>5. b - a \in S /\ a + (b - a) = b
  BY <1>1, <1>4
<1>. QED BY <1>5 DEF S

-----------------------------------------------------------------------------
(* Places in a sequence of tokens *)

HasWidths(ts) ==
  /\ Len(ts) \in Nat
  /\ \A i \in 1..Len(ts) : ts[i].width \in Nat \ {0}

(* Every token begins where the one before it ends, and takes some bytes. *)
LEMMA EndsFacts ==
  ASSUME NEW ts, HasWidths(ts)
  PROVE  /\ Ends(ts)[0] = 0
         /\ \A i \in 0..Len(ts) : Ends(ts)[i] \in Nat
         /\ \A i \in 1..Len(ts) : Ends(ts)[i] = Ends(ts)[i - 1] + ts[i].width
         /\ \A a, b \in 0..Len(ts) : a <= b => Ends(ts)[b] >= Ends(ts)[a] + (b - a)
<1>. DEFINE ns == [i \in 1..Len(ts) |-> ts[i].width]
<1>1. ns \in Seq(Nat \ {0}) /\ ns \in Seq(Nat) /\ Len(ns) = Len(ts)
  BY DEF HasWidths
<1>2. \A i \in 1..Len(ts) : ns[i] = ts[i].width
  OBVIOUS
<1>3. Ends(ts) = Sums(ns)
  BY DEF Ends
<1>. HIDE DEF ns
<1>4. /\ Sums(ns)[0] = 0
      /\ \A i \in 1..Len(ns) : Sums(ns)[i] = Sums(ns)[i - 1] + ns[i]
  BY <1>1, SumsStep
<1>5. \A i \in 0..Len(ns) : Sums(ns)[i] \in Nat
  BY <1>1, SumsNat
<1>6. ASSUME NEW a \in 0..Len(ns), NEW b \in 0..Len(ns), a <= b
      PROVE  Sums(ns)[b] >= Sums(ns)[a] + (b - a)
  <2>1. b \in a..Len(ns)
    BY <1>1, <1>6
  <2>. QED BY <1>1, <2>1, SumsGrow
<1>. QED BY <1>1, <1>2, <1>3, <1>4, <1>5, <1>6

(* us is the part of ts after its first a tokens. *)
IsPart(us, ts, a) ==
  /\ a \in Nat
  /\ a + Len(us) <= Len(ts)
  /\ \A j \in 1..Len(us) : us[j] = ts[a + j]

(* The places in a part of ts, counted from its beginning. *)
LEMMA EndsSegment ==
  ASSUME NEW ts, NEW us, NEW a, HasWidths(ts), HasWidths(us), IsPart(us, ts, a)
  PROVE  \A j \in 0..Len(us) : Ends(ts)[a + j] = Ends(ts)[a] + Ends(us)[j]
<1>. DEFINE ns == [i \in 1..Len(ts) |-> ts[i].width]
            ms == [i \in 1..Len(us) |-> us[i].width]
<1>1. ns \in Seq(Nat) /\ Len(ns) = Len(ts) /\ ms \in Seq(Nat) /\ Len(ms) = Len(us)
  BY DEF HasWidths
<1>2. ASSUME NEW j \in 1..Len(ms) PROVE ms[j] = ns[a + j]
  <2>1. j \in 1..Len(us) /\ a + j \in 1..Len(ts)
    BY <1>1 DEF HasWidths, IsPart
  <2>. QED BY <2>1 DEF IsPart
<1>3. Ends(ts) = Sums(ns) /\ Ends(us) = Sums(ms)
  BY DEF Ends
<1>. HIDE DEF ns, ms
<1>4. \A j \in 0..Len(ms) : Sums(ns)[a + j] = Sums(ns)[a] + Sums(ms)[j]
  BY <1>1, <1>2, SumsSegment, ZenonT(20) DEF IsPart
<1>. QED BY <1>1, <1>3, <1>4

(* A body that continues another has its places. *)
LEMMA EndsPrefix ==
  ASSUME NEW ts, NEW us, HasWidths(ts), HasWidths(us),
         Len(us) <= Len(ts), \A j \in 1..Len(us) : us[j] = ts[j]
  PROVE  \A j \in 0..Len(us) : Ends(ts)[j] = Ends(us)[j]
<1>1. PICK a \in Nat : a = 0
  OBVIOUS
<1>2. IsPart(us, ts, a)
  BY <1>1 DEF HasWidths, IsPart
<1>3. \A j \in 0..Len(us) : Ends(ts)[a + j] = Ends(ts)[a] + Ends(us)[j]
  BY <1>2, EndsSegment
<1>4. \A j \in 0..Len(us) : a + j = j
  BY <1>1 DEF HasWidths
<1>5. Ends(ts)[a] = 0 /\ \A j \in 0..Len(us) : Ends(us)[j] \in Nat
  BY <1>1, EndsFacts
<1>. QED BY <1>3, <1>4, <1>5

-----------------------------------------------------------------------------
(* The inductive invariant *)

DocKinds == {"doc", "shortcut"}
HeadKinds == {"body", "sequence"}
Kinds == {"int32", "int64", "cstring", "cursors", "checksum"} \cup DocKinds \cup HeadKinds

AnyToken ==
  [kind : Kinds \ {"sequence"}, width : Nat \ {0}]
    \cup [kind : {"sequence"}, width : {5}, size : Nat]

AnyField == [item : Nat, kind : Kinds, from : Nat, size : Nat, bytes : Int]

(* The widths the kinds of tokens have. *)
IsToken(t) ==
  /\ t.kind = "int32" => t.width = 4
  /\ t.kind = "int64" => t.width = 8
  /\ t.kind = "cursors" => t.width >= 4
  /\ t.kind = "doc" => t.width >= 5
  /\ t.kind = "shortcut" => t.width = 4 /\ op \in ShortcutOps

Tokens ==
  /\ wire \in Seq(AnyToken)
  /\ \A i \in 1..Len(wire) : IsToken(wire[i])

(* The bytes before token i + 1. *)
At(i) == Ends(wire)[i]

(* The tokens of a message other than OP_MSG: one for each item, and for    *)
(* the last item, if it is a list, any number.                              *)
Fits(t, item) ==
  /\ item \in {"int32", "reserved"} => t.kind = "int32"
  /\ item \in {"int64", "cstring", "cursors"} => t.kind = item
  /\ item \in {"doc", "doc?", "docs"} => t.kind \in DocKinds

Items == Len(Format[op])

PlainShape ==
  \A i \in 1..Len(wire) : Fits(wire[i], Format[op][IF i <= Items THEN i ELSE Items])

PlainWhole ==
  /\ Len(wire) >= Items - 1
  /\ Format[op][Items] # "docs" => Len(wire) <= Items
  /\ Format[op][Items] \notin {"docs", "doc?"} => Len(wire) = Items

(* The tokens after t up to e are documents, and those before e all of them. *)
Run(t, e) ==
  /\ e \in t + 1..Len(wire) + 1
  /\ \A j \in t + 1..e - 1 : wire[j].kind \in DocKinds
  /\ e <= Len(wire) => wire[e].kind \in HeadKinds \cup {"checksum"}

(* A section begins with its kind; the size of a document sequence is true. *)
HeadShape(i) ==
  /\ wire[i].kind = "body" =>
       /\ i < Len(wire)
       /\ wire[i + 1].kind \in DocKinds
       /\ Run(i + 1, i + 2)
  /\ wire[i].kind = "sequence" =>
       /\ i < Len(wire)
       /\ wire[i + 1].kind = "cstring"
       /\ \E e \in 1..Len(wire) + 1 : Run(i + 1, e) /\ wire[i].size = 4 + At(e - 1) - At(i)

(* The tokens of an OP_MSG: the flags, and sections. *)
MsgShape ==
  /\ Len(wire) >= 1
  /\ wire[1].kind = "int32"
  /\ Run(1, 2)
  /\ \A i \in 1..Len(wire) : HeadShape(i)

WellFormed == IF op = "OP_MSG" THEN MsgShape ELSE PlainShape /\ PlainWhole

Composing ==
  /\ k \in 1..Items + 1
  /\ tok = 0 /\ loc = 0 /\ left = 0 /\ fields = <<>>
  /\ IF op = "OP_MSG" THEN IF k = 1 THEN wire = <<>> ELSE MsgShape
     ELSE PlainShape /\ IF k <= Items THEN Len(wire) = k - 1 ELSE PlainWhole

(* The fields are the tokens they were made of. *)
Parsed ==
  /\ length \in Nat
  /\ fields \in Seq(AnyField)
  /\ Len(fields) <= Len(wire)
  /\ At(Len(fields)) <= length
  /\ length <= At(Len(wire))
  /\ \A i \in 1..Len(fields) :
       /\ fields[i].item \in 1..Len(parser[op])
       /\ fields[i].item = 1 <=> i = 1
       /\ fields[i].kind = wire[i].kind
       /\ fields[i].kind # "checksum"
       /\ fields[i].from = At(i - 1)
       /\ fields[i].size = wire[i].width
       /\ fields[i].bytes = IF wire[i].kind = "shortcut" THEN length - At(i - 1) ELSE wire[i].width

(* The bytes of the size that the items before each item add to it whatever *)
(* they hold, and the bytes that the tokens add.                            *)
FixedBefore ==
  [OP_REPLY |-> <<0, 4, 12, 16, 20, 20>>, OP_UPDATE |-> <<0, 4, 4, 8, 8, 8>>,
   OP_INSERT |-> <<0, 4, 4, 4>>, OP_QUERY |-> <<0, 4, 4, 8, 12, 12, 12>>,
   OP_GET_MORE |-> <<0, 4, 4, 8, 16>>, OP_DELETE |-> <<0, 4, 4, 8, 8>>,
   OP_KILL_CURSORS |-> <<0, 4, 8>>, OP_COMMAND |-> <<0, 0, 0, 0, 0, 0>>,
   OP_COMMAND_REPLY |-> <<0, 0, 0, 0>>, OP_MSG |-> <<0, 4, 4>>]

FixedWidth(kind) ==
  IF kind = "int32" THEN 4 ELSE IF kind = "int64" THEN 8 ELSE IF kind = "cursors" THEN 4 ELSE 0

Varying(ts) == Sums([i \in 1..Len(ts) |-> ts[i].width - FixedWidth(ts[i].kind)])

(* Where the parser of a message other than OP_MSG is. *)
PlainPlace ==
  /\ k \in 1..Items + 1
  /\ k <= Items => IF parser[op][k] = "docs" THEN tok >= k - 1 ELSE tok = k - 1
  /\ k = Items + 1 => loc = length

(* Where the parser of OP_MSG is: in a section, left is what its documents  *)
(* take; after the sections, no document is left out.                       *)
AtSection == tok >= 1 /\ wire[tok].kind # "sequence" /\ Run(tok, tok + 1)

MsgPlace ==
  /\ k \in 1..3
  /\ k = 1 => tok = 0 /\ left = 0
  /\ k = 2 => /\ tok >= 1
              /\ wire[tok].kind # "sequence"
              /\ \E e \in 1..Len(wire) + 1 : /\ Run(tok, e)
                                             /\ left = At(e - 1) - At(tok)
                                             /\ At(e - 1) <= length
  /\ k = 3 => AtSection /\ left = 0 /\ Remaining < 5

InParser ==
  /\ WellFormed
  /\ Parsed
  /\ tok = Len(fields)
  /\ loc = At(tok)
  /\ loc = FixedBefore[op][k] + Varying(wire)[tok]
  /\ k = 1 => tok = 0
  /\ IF op = "OP_MSG" THEN MsgPlace ELSE PlainPlace

(* What was parsed is all that arrived, but for a checksum or what was taken *)
(* for one.                                                                  *)
LeftOut ==
  length # At(Len(fields)) =>
    /\ op = "OP_MSG"
    /\ length - At(Len(fields)) < 5
    /\ \/ wire[Len(fields) + 1].kind = "checksum"
       \/ wire[Len(fields) + 1].kind \in HeadKinds /\ length < At(Len(wire))

Kept == Parsed /\ LeftOut

(* No OP_REPLY has a document of size 0, on which its Serialize does not    *)
(* move by the Size.                                                        *)
RepliesHaveSizes == "OP_REPLY" \notin ShortcutOps

InSerializer ==
  /\ Kept
  /\ k \in 1..Len(fields) + 1
  /\ loc = At(k - 1)
  /\ buf = [i \in 1..At(Len(fields)) |-> buf[i]]
  /\ Format[op][1] = "reserved" => wire[1].kind = "int32"
  /\ op = "OP_MSG" => wire[1].kind = "int32"
  /\ \A i \in 1..loc : buf[i] = SentAs(i)
  /\ \A i \in 1..Len(fields) :
       fields[i].kind = "sequence" => SequenceSize(i) - 1 = wire[i].size

WireInv ==
  /\ op \in Ops
  /\ pc \in {"compose", "parse", "write", "sent", "refused", "panic"}
  /\ Tokens
  /\ pc = "compose" => Composing
  /\ pc = "parse" => InParser
  /\ pc \in {"write", "sent"} => Kept
  /\ RepliesHaveSizes =>
       /\ pc # "panic"
       /\ pc \in {"write", "sent"} => InSerializer
       /\ pc = "sent" => k = Len(fields) + 1
  /\ pc = "refused" => length < At(Len(wire))


-----------------------------------------------------------------------------
(* The tables *)

PlainItems ==
  {"int32", "reserved", "int64", "cstring", "cursors", "doc", "doc?", "docs"}

FixedItem(item) ==
  IF item \in {"int32", "reserved", "cursors"} THEN 4 ELSE IF item = "int64" THEN 8 ELSE 0

(* What the parser, the serializer and the format of a message other than   *)
(* OP_MSG have in common.                                                   *)
PlainTable(o) ==
  /\ Len(Format[o]) \in Nat \ 0..1
  /\ Len(parser[o]) = Len(Format[o])
  /\ \A i \in 1..Len(Format[o]) :
       /\ Format[o][i] \in PlainItems
       /\ parser[o][i] = IF Format[o][i] = "reserved" THEN "int32" ELSE Format[o][i]
       /\ Format[o][i] = "reserved" => i = 1
       /\ Format[o][i] \in {"docs", "doc?"} => i = Len(Format[o])
       /\ Serialize[o].write[i] = "zero" <=> Format[o][i] = "reserved"
       /\ Serialize[o].write[i] # "flags"
       /\ Serialize[o].write[i] = "copyBytes" => o = "OP_REPLY"
       /\ FixedBefore[o][i] \in Nat
       /\ FixedBefore[o][i + 1] = FixedBefore[o][i] + FixedItem(Format[o][i])
  /\ FixedBefore[o][1] = 0
  /\ FixedBefore[o][Len(Format[o]) + 1] = Serialize[o].fixed

(* The tables hold for every message but OP_MSG: the parser reads the      *)
(* items of the format in its order, and the serializer writes them.       *)
LEMMA PlainTables ==
  ASSUME NEW o \in Ops, o # "OP_MSG"
  PROVE  PlainTable(o)
<1>1. CASE o = "OP_REPLY"
  <2>1. Format[o] = <<"int32", "int64", "int32", "int32", "docs">>
    BY <1>1 DEF Format
  <2>2. parser[o] = <<"int32", "int64", "int32", "int32", "docs">>
    BY <1>1 DEF parser, parseReplyMessage
  <2>3. Serialize[o] = [fixed |-> 20, write |-> <<"int", "int", "int", "int", "copyBytes">>]
    BY <1>1 DEF Serialize, ReplySerialize
  <2>4. FixedBefore[o] = <<0, 4, 12, 16, 20, 20>>
    BY <1>1 DEF FixedBefore
  <2>. QED BY <1>1, <2>1, <2>2, <2>3, <2>4 DEF PlainTable, PlainItems, FixedItem
<1>2. CASE o = "OP_UPDATE"
  <2>1. Format[o] = <<"reserved", "cstring", "int32", "doc", "doc">>
    BY <1>2 DEF Format
  <2>2. parser[o] = <<"int32", "cstring", "int32", "doc", "doc">>
    BY <1>2 DEF parser, parseUpdateMessage
  <2>3. Serialize[o] = [fixed |-> 8, write |-> <<"zero", "cstring", "int", "copy", "copy">>]
    BY <1>2 DEF Serialize, UpdateSerialize
  <2>4. FixedBefore[o] = <<0, 4, 4, 8, 8, 8>>
    BY <1>2 DEF FixedBefore
  <2>. QED BY <1>2, <2>1, <2>2, <2>3, <2>4 DEF PlainTable, PlainItems, FixedItem
<1>3. CASE o = "OP_INSERT"
  <2>1. Format[o] = <<"int32", "cstring", "docs">>
    BY <1>3 DEF Format
  <2>2. parser[o] = <<"int32", "cstring", "docs">>
    BY <1>3 DEF parser, parseInsertMessage
  <2>3. Serialize[o] = [fixed |-> 4, write |-> <<"int", "cstring", "copy">>]
    BY <1>3 DEF Serialize, InsertSerialize
  <2>4. FixedBefore[o] = <<0, 4, 4, 4>>
    BY <1>3 DEF FixedBefore
  <2>. QED BY <1>3, <2>1, <2>2, <2>3, <2>4 DEF PlainTable, PlainItems, FixedItem
<1>4. CASE o = "OP_QUERY"
  <2>1. Format[o] = <<"int32", "cstring", "int32", "int32", "doc", "doc?">>
    BY <1>4 DEF Format
  <2>2. parser[o] = <<"int32", "cstring", "int32", "int32", "doc", "doc?">>
    BY <1>4 DEF parser, parseQueryMessage
  <2>3. Serialize[o] = [fixed |-> 12, write |-> <<"int", "cstring", "int", "int", "copy", "copy">>]
    BY <1>4 DEF Serialize, QuerySerialize
  <2>4. FixedBefore[o] = <<0, 4, 4, 8, 12, 12, 12>>
    BY <1>4 DEF FixedBefore
  <2>. QED BY <1>4, <2>1, <2>2, <2>3, <2>4 DEF PlainTable, PlainItems, FixedItem
<1>5. CASE o = "OP_GET_MORE"
  <2>1. Format[o] = <<"reserved", "cstring", "int32", "int64">>
    BY <1>5 DEF Format
  <2>2. parser[o] = <<"int32", "cstring", "int32", "int64">>
    BY <1>5 DEF parser, parseGetMoreMessage
  <2>3. Serialize[o] = [fixed |-> 16, write |-> <<"zero", "cstring", "int", "int">>]
    BY <1>5 DEF Serialize, GetMoreSerialize
  <2>4. FixedBefore[o] = <<0, 4, 4, 8, 16>>
    BY <1>5 DEF FixedBefore
  <2>. QED BY <1>5, <2>1, <2>2, <2>3, <2>4 DEF PlainTable, PlainItems, FixedItem
<1>6. CASE o = "OP_DELETE"
  <2>1. Format[o] = <<"reserved", "cstring", "int32", "doc">>
    BY <1>6 DEF Format
  <2>2. parser[o] = <<"int32", "cstring", "int32", "doc">>
    BY <1>6 DEF parser, parseDeleteMessage
  <2>3. Serialize[o] = [fixed |-> 8, write |-> <<"zero", "cstring", "int", "copy">>]
    BY <1>6 DEF Serialize, DeleteSerialize
  <2>4. FixedBefore[o] = <<0, 4, 4, 8, 8>>
    BY <1>6 DEF FixedBefore
  <2>. QED BY <1>6, <2>1, <2>2, <2>3, <2>4 DEF PlainTable, PlainItems, FixedItem
<1>7. CASE o = "OP_KILL_CURSORS"
  <2>1. Format[o] = <<"reserved", "cursors">>
    BY <1>7 DEF Format
  <2>2. parser[o] = <<"int32", "cursors">>
    BY <1>7 DEF parser, parseKillCursorsMessage
  <2>3. Serialize[o] = [fixed |-> 8, write |-> <<"zero", "int">>]
    BY <1>7 DEF Serialize, KillCursorsSerialize
  <2>4. FixedBefore[o] = <<0, 4, 8>>
    BY <1>7 DEF FixedBefore
  <2>. QED BY <1>7, <2>1, <2>2, <2>3, <2>4 DEF PlainTable, PlainItems, FixedItem
<1>8. CASE o = "OP_COMMAND"
  <2>1. Format[o] = <<"cstring", "cstring", "doc", "doc", "docs">>
    BY <1>8 DEF Format
  <2>2. parser[o] = <<"cstring", "cstring", "doc", "doc", "docs">>
    BY <1>8 DEF parser, parseCommandMessage
  <2>3. Serialize[o] = [fixed |-> 0, write |-> <<"cstring", "cstring", "copy", "copy", "copy">>]
    BY <1>8 DEF Serialize, CommandSerialize
  <2>4. FixedBefore[o] = <<0, 0, 0, 0, 0, 0>>
    BY <1>8 DEF FixedBefore
  <2>. QED BY <1>8, <2>1, <2>2, <2>3, <2>4 DEF PlainTable, PlainItems, FixedItem
<1>9. CASE o = "OP_COMMAND_REPLY"
  <2>1. Format[o] = <<"doc", "doc", "docs">>
    BY <1>9 DEF Format
  <2>2. parser[o] = <<"doc", "doc", "docs">>
    BY <1>9 DEF parser, parseCommandReplyMessage
  <2>3. Serialize[o] = [fixed |-> 0, write |-> <<"copy", "copy", "copy">>]
    BY <1>9 DEF Serialize, CommandReplySerialize
  <2>4. FixedBefore[o] = <<0, 0, 0, 0>>
    BY <1>9 DEF FixedBefore
  <2>. QED BY <1>9, <2>1, <2>2, <2>3, <2>4 DEF PlainTable, PlainItems, FixedItem
<1>. QED
  BY <1>1, <1>2, <1>3, <1>4, <1>5, <1>6, <1>7, <1>8, <1>9, OpsAssumption DEF parser

-----------------------------------------------------------------------------
(* Tokens *)

(* The tokens of the body have widths.                                     *)
LEMMA TokenWidths ==
  ASSUME NEW ts \in Seq(AnyToken)
  PROVE  HasWidths(ts)
<1>1. ASSUME NEW t \in AnyToken PROVE t.width \in Nat \ {0}
  BY DEF AnyToken
<1>2. Len(ts) \in Nat /\ \A i \in 1..Len(ts) : ts[i] \in AnyToken
  OBVIOUS
<1>. HIDE DEF AnyToken
<1>. QED BY <1>1, <1>2 DEF HasWidths

(* What At says of the body: it starts at 0 and moves on by the width of   *)
(* each token, which is at least 1.                                        *)
LEMMA AtFacts ==
  ASSUME Tokens
  PROVE  /\ Len(wire) \in Nat
         /\ At(0) = 0
         /\ \A i \in 0..Len(wire) : At(i) \in Nat
         /\ \A i \in 1..Len(wire) : At(i) = At(i - 1) + wire[i].width
         /\ \A i \in 1..Len(wire) : wire[i].width \in Nat \ {0}
         /\ \A a, b \in 0..Len(wire) : a <= b => At(b) >= At(a) + (b - a)
<1>1. HasWidths(wire)
  BY TokenWidths DEF Tokens
<1>. QED BY <1>1, EndsFacts, ZenonT(20) DEF At, HasWidths

(* A later token ends later.                                               *)
LEMMA AtOrder ==
  ASSUME Tokens, NEW a \in 0..Len(wire), NEW b \in 0..Len(wire), a <= b
  PROVE  At(a) \in Nat /\ At(b) \in Nat /\ At(a) <= At(b) /\ (a < b => At(a) < At(b))
<1>1. Len(wire) \in Nat /\ At(a) \in Nat /\ At(b) \in Nat /\ At(b) >= At(a) + (b - a)
  BY AtFacts
<1>2. a \in Nat /\ b \in Nat
  BY <1>1
<1>. QED BY <1>1, <1>2

(* A token is no narrower than what the fixed size counts for its kind.    *)
LEMMA TokenFixed ==
  ASSUME NEW t \in AnyToken, IsToken(t)
  PROVE  t.width - FixedWidth(t.kind) \in Nat
<1>1. t.width \in Nat \ {0}
  BY DEF AnyToken
<1>. QED BY <1>1 DEF IsToken, FixedWidth

(* The varying part of the body grows by what each token has beyond the    *)
(* fixed size of its kind.                                                 *)
LEMMA VaryingFacts ==
  ASSUME Tokens
  PROVE  /\ Varying(wire)[0] = 0
         /\ \A i \in 0..Len(wire) : Varying(wire)[i] \in Nat
         /\ \A i \in 1..Len(wire) :
              Varying(wire)[i] = Varying(wire)[i - 1] + (wire[i].width - FixedWidth(wire[i].kind))
<1>. DEFINE ns == [i \in 1..Len(wire) |-> wire[i].width - FixedWidth(wire[i].kind)]
<1>1. Len(wire) \in Nat /\ \A i \in 1..Len(wire) : wire[i] \in AnyToken /\ IsToken(wire[i])
  BY DEF Tokens
<1>2. \A i \in 1..Len(wire) : wire[i].width - FixedWidth(wire[i].kind) \in Nat
  BY <1>1, TokenFixed
<1>3. ns \in Seq(Nat) /\ Len(ns) = Len(wire)
  BY <1>1, <1>2
<1>4. \A i \in 1..Len(wire) : ns[i] = wire[i].width - FixedWidth(wire[i].kind)
  OBVIOUS
<1>5. Varying(wire) = Sums(ns)
  BY DEF Varying
<1>. HIDE DEF ns
<1>. QED BY <1>3, <1>4, <1>5, SumsStep, SumsNat

(* What a longer body has in common with the body it continues. *)
LEMMA Extend ==
  ASSUME Tokens, op' = op, NEW c \in Seq(AnyToken), \A j \in 1..Len(c) : IsToken(c[j]),
         wire' = wire \o c
  PROVE  /\ Tokens'
         /\ Len(wire') = Len(wire) + Len(c)
         /\ \A i \in 1..Len(wire) : wire'[i] = wire[i]
         /\ \A j \in 1..Len(c) : wire'[Len(wire) + j] = c[j]
         /\ \A i \in 0..Len(wire) : Ends(wire')[i] = At(i)
         /\ \A j \in 0..Len(c) : Ends(wire')[Len(wire) + j] = At(Len(wire)) + Ends(c)[j]
<1>1. /\ wire \in Seq(AnyToken) /\ Len(wire) \in Nat /\ Len(c) \in Nat
      /\ \A i \in 1..Len(wire) : IsToken(wire[i])
  BY DEF Tokens
<1>2. /\ wire' \in Seq(AnyToken)
      /\ Len(wire') = Len(wire) + Len(c)
      /\ \A i \in 1..Len(wire) : wire'[i] = wire[i]
      /\ \A j \in 1..Len(c) : wire'[Len(wire) + j] = c[j]
  BY <1>1
<1>3. Tokens'
  <2>1. ASSUME NEW i \in 1..Len(wire') PROVE IsToken(wire[i])'
    <3>1. CASE i <= Len(wire)
      BY <1>1, <1>2, <3>1 DEF IsToken
    <3>2. CASE i > Len(wire)
      <4>1. PICK j \in 1..Len(c) : i = Len(wire) + j
        BY <1>1, <1>2, <3>2, SMTT(30)
      <4>. QED BY <1>2, <4>1 DEF IsToken
    <3>. QED BY <1>1, <1>2, <3>1, <3>2
  <2>. QED BY <1>2, <2>1 DEF Tokens
<1>4. HasWidths(wire) /\ HasWidths(wire') /\ HasWidths(c)
  BY <1>1, <1>2, TokenWidths, ZenonT(20)
<1>5. ASSUME NEW i \in 0..Len(wire) PROVE Ends(wire')[i] = At(i)
  <2>1. Len(wire) <= Len(wire') /\ \A j \in 1..Len(wire) : wire[j] = wire'[j]
    BY <1>1, <1>2
  <2>2. \A j \in 0..Len(wire) : Ends(wire')[j] = Ends(wire)[j]
    BY <1>4, <2>1, EndsPrefix, ZenonT(20)
  <2>. QED BY <2>2 DEF At
<1>6. ASSUME NEW j \in 0..Len(c) PROVE Ends(wire')[Len(wire) + j] = At(Len(wire)) + Ends(c)[j]
  <2>1. Ends(wire')[Len(wire) + j] = Ends(wire')[Len(wire)] + Ends(c)[j]
    <3>1. PICK a \in Nat : a = Len(wire)
      BY <1>1
    <3>2. IsPart(c, wire', a)
      BY <1>1, <1>2, <3>1 DEF IsPart
    <3>3. \A i \in 0..Len(c) : Ends(wire')[a + i] = Ends(wire')[a] + Ends(c)[i]
      BY <1>4, <3>2, EndsSegment
    <3>. QED BY <3>1, <3>3
  <2>2. Ends(wire')[Len(wire)] = At(Len(wire))
    BY <1>1, <1>5
  <2>. QED BY <2>1, <2>2 DEF At
<1>. QED BY <1>2, <1>3, <1>5, <1>6

(* The tokens of documents are tokens.                                     *)
LEMMA DocToken ==
  ASSUME NEW d \in DocTokens
  PROVE  d \in AnyToken /\ IsToken(d) /\ d.kind \in DocKinds
<1>1. CASE \E w \in DocWidths : d = Token("doc", w)
  <2>1. PICK w \in Nat \ {0} : d = [kind |-> "doc", width |-> w] /\ w >= 5
    BY <1>1, WireAssumption DEF Token
  <2>. QED BY <2>1 DEF AnyToken, IsToken, DocKinds, Kinds
<1>2. CASE op \in ShortcutOps /\ d = Token("shortcut", 4)
  <2>1. d = [kind |-> "shortcut", width |-> 4]
    BY <1>2 DEF Token
  <2>. QED BY <1>2, <2>1 DEF AnyToken, IsToken, DocKinds, Kinds
<1>. QED BY <1>1, <1>2 DEF DocTokens

(* The lists of documents are sequences of tokens of documents.            *)
LEMMA DocSeqs ==
  ASSUME NEW ds \in DocLists
  PROVE  /\ ds \in Seq(AnyToken)
         /\ \A j \in 1..Len(ds) : IsToken(ds[j]) /\ ds[j].kind \in DocKinds
<1>1. PICK m \in Nat : ds \in [1..m -> DocTokens]
  BY WireAssumption DEF DocLists
<1>2. \A j \in 1..m : ds[j] \in DocTokens
  BY <1>1
<1>3. \A j \in 1..m : ds[j] \in AnyToken /\ IsToken(ds[j]) /\ ds[j].kind \in DocKinds
  BY <1>2, DocToken
<1>4. ds \in [1..m -> AnyToken]
  BY <1>1, <1>3
<1>5. ds \in Seq(AnyToken) /\ Len(ds) = m
  BY <1>4
<1>. QED BY <1>3, <1>5

(* The tokens a peer sends for an item. *)
LEMMA PlainChunk ==
  ASSUME NEW item \in PlainItems, NEW c \in Chunks(item)
  PROVE  /\ c \in Seq(AnyToken)
         /\ \A j \in 1..Len(c) : IsToken(c[j]) /\ Fits(c[j], item)
         /\ item # "docs" => Len(c) <= 1
         /\ item \notin {"docs", "doc?"} => Len(c) = 1
<1>1. ASSUME NEW t \in AnyToken, c = <<t>>, IsToken(t), Fits(t, item)
      PROVE  /\ c \in Seq(AnyToken)
             /\ \A j \in 1..Len(c) : IsToken(c[j]) /\ Fits(c[j], item)
             /\ Len(c) = 1
  BY <1>1
<1>2. CASE item \in {"int32", "reserved"}
  <2>1. c = <<[kind |-> "int32", width |-> 4]>>
    BY <1>2 DEF Chunks, Token
  <2>2. [kind |-> "int32", width |-> 4] \in AnyToken
    BY DEF AnyToken, Kinds, HeadKinds, DocKinds
  <2>. QED BY <1>1, <1>2, <2>1, <2>2 DEF IsToken, Fits
<1>3. CASE item = "int64"
  <2>1. c = <<[kind |-> "int64", width |-> 8]>>
    BY <1>3 DEF Chunks, Token
  <2>2. [kind |-> "int64", width |-> 8] \in AnyToken
    BY DEF AnyToken, Kinds, HeadKinds, DocKinds
  <2>. QED BY <1>1, <1>3, <2>1, <2>2 DEF IsToken, Fits
<1>4. CASE item = "cstring"
  <2>1. PICK w \in StringWidths : c = <<[kind |-> "cstring", width |-> w]>>
    BY <1>4 DEF Chunks, Token
  <2>2. [kind |-> "cstring", width |-> w] \in AnyToken
    BY WireAssumption DEF AnyToken, Kinds, HeadKinds, DocKinds
  <2>. QED BY <1>1, <1>4, <2>1, <2>2 DEF IsToken, Fits
<1>5. CASE item = "cursors"
  <2>1. PICK n \in 0..MaxDocs : c = <<[kind |-> "cursors", width |-> 4 + 8 * n]>>
    BY <1>5 DEF Chunks, Token
  <2>2. 4 + 8 * n \in Nat \ {0} /\ 4 + 8 * n >= 4
    BY WireAssumption
  <2>3. [kind |-> "cursors", width |-> 4 + 8 * n] \in AnyToken
    BY <2>2 DEF AnyToken, Kinds, HeadKinds, DocKinds
  <2>. QED BY <1>1, <1>5, <2>1, <2>2, <2>3 DEF IsToken, Fits
<1>6. CASE item = "doc"
  <2>1. PICK d \in DocTokens : c = <<d>>
    BY <1>6 DEF Chunks
  <2>. QED BY <1>1, <1>6, <2>1, DocToken DEF Fits
<1>7. CASE item = "doc?"
  <2>1. CASE \E d \in DocTokens : c = <<d>>
    BY <1>1, <1>7, <2>1, DocToken DEF Fits
  <2>2. CASE c = <<>>
    BY <1>7, <2>2
  <2>. QED BY <1>7, <2>1, <2>2 DEF Chunks
<1>8. CASE item = "docs"
  <2>1. c \in DocLists
    BY <1>8 DEF Chunks
  <2>. QED BY <1>8, <2>1, DocSeqs DEF Fits
<1>. QED BY <1>2, <1>3, <1>4, <1>5, <1>6, <1>7, <1>8 DEF PlainItems

-----------------------------------------------------------------------------
(* Composing *)

(* Composing an item of a message other than OP_MSG keeps the invariant.   *)
LEMMA ComposePlain ==
  ASSUME WireInv, Compose, op # "OP_MSG"
  PROVE  WireInv'
<1>1. /\ op \in Ops /\ Tokens /\ pc = "compose" /\ PlainTable(op)
      /\ k \in 1..Items /\ PlainShape /\ Len(wire) = k - 1
      /\ tok = 0 /\ loc = 0 /\ left = 0 /\ fields = <<>>
  BY PlainTables DEF WireInv, Composing, Compose, Items
<1>2. PICK c \in Chunks(Format[op][k]) : wire' = wire \o c
  BY SMTT(30) DEF Compose
<1>3. /\ op' = op /\ pc' = pc /\ k' = k + 1 /\ tok' = tok /\ loc' = loc
      /\ left' = left /\ fields' = fields
  BY DEF Compose
<1>4. Format[op][k] \in PlainItems /\ Items \in Nat
  BY <1>1 DEF PlainTable, Items
<1>5. /\ c \in Seq(AnyToken)
      /\ \A j \in 1..Len(c) : IsToken(c[j]) /\ Fits(c[j], Format[op][k])
      /\ Format[op][k] # "docs" => Len(c) <= 1
      /\ Format[op][k] \notin {"docs", "doc?"} => Len(c) = 1
  BY <1>2, <1>4, PlainChunk
<1>6. /\ Tokens'
      /\ Len(wire') = Len(wire) + Len(c)
      /\ \A i \in 1..Len(wire) : wire'[i] = wire[i]
      /\ \A j \in 1..Len(c) : wire'[Len(wire) + j] = c[j]
  BY <1>1, <1>2, <1>3, <1>5, Extend, ZenonT(20)
<1>7. Len(wire) \in Nat /\ Len(c) \in Nat
  BY <1>1, <1>5 DEF Tokens
<1>8. Len(c) # 1 => k = Items
  BY <1>1, <1>4, <1>5 DEF PlainTable, Items
<1>9. PlainShape'
  <2>1. ASSUME NEW i \in 1..Len(wire')
        PROVE  Fits(wire'[i], Format[op][IF i <= Items THEN i ELSE Items])
    <3>1. CASE i <= Len(wire)
      BY <1>1, <1>4, <1>6, <1>7, <3>1 DEF PlainShape
    <3>2. CASE i > Len(wire)
      <4>1. PICK j \in 1..Len(c) : i = Len(wire) + j
        <5>1. i \in Int /\ i <= Len(wire) + Len(c)
          BY <1>6, <1>7
        <5>2. i - Len(wire) \in 1..Len(c) /\ i = Len(wire) + (i - Len(wire))
          BY <1>7, <3>2, <5>1
        <5>. QED BY <5>2
      <4>2. k = IF i <= Items THEN i ELSE Items
        <5>1. i = k - 1 + j /\ k \in 1..Items /\ j \in Nat \ {0}
          BY <1>1, <1>7, <4>1
        <5>2. CASE Len(c) = 1
          <6>1. j = 1
            BY <4>1, <5>2
          <6>. QED BY <1>4, <5>1, <6>1
        <5>3. CASE k = Items
          BY <1>4, <5>1, <5>3
        <5>. QED BY <1>8, <5>2, <5>3
      <4>. QED BY <1>5, <1>6, <4>1, <4>2
    <3>. QED BY <1>7, <3>1, <3>2
  <2>. QED BY <1>3, <2>1 DEF PlainShape, Items, Fits
<1>10. k' <= Items => Len(wire') = k' - 1
  BY <1>1, <1>3, <1>4, <1>6, <1>7, <1>8, SMTT(30)
<1>11. k' > Items => PlainWhole'
  <2>1. SUFFICES ASSUME k' > Items PROVE PlainWhole'
    OBVIOUS
  <2>2. k = Items
    BY <1>1, <1>3, <1>4, <2>1
  <2>3. Len(wire') = Items - 1 + Len(c)
    BY <1>1, <1>4, <1>6, <1>7, <2>2
  <2>. QED BY <1>3, <1>4, <1>5, <1>7, <2>2, <2>3, SMTT(30) DEF PlainWhole, Items
<1>12. Composing'
  <2>1. k' \in 1..Items + 1
    BY <1>1, <1>3, <1>4
  <2>2. k' <= Items \/ k' > Items
    BY <1>4, <2>1
  <2>3. Items' = Items
    BY <1>3 DEF Items
  <2>4. IF k' <= Items THEN Len(wire') = k' - 1 ELSE PlainWhole'
    BY <1>10, <1>11, <2>2
  <2>. QED BY <1>1, <1>3, <1>9, <2>1, <2>3, <2>4 DEF Composing
<1>. QED BY <1>1, <1>3, <1>6, <1>12 DEF WireInv

MsgTable(o) ==
  /\ Format[o] = <<"int32", "sections", "checksum?">>
  /\ parser[o] = <<"int32", "sections">>
  /\ Serialize[o] = [fixed |-> 4, write |-> <<"flags", "section">>]
  /\ FixedBefore[o] = <<0, 4, 4>>

(* The table holds for OP_MSG.                                             *)
LEMMA MsgTables == MsgTable("OP_MSG")
BY DEF MsgTable, Format, parser, parseMessageMessage, Serialize, MessageSerialize, FixedBefore

(* wire' is wire and what follows it, which begins with no document. *)
Continues(c) ==
  /\ Len(wire) \in Nat
  /\ Len(c) \in Nat
  /\ Len(wire') = Len(wire) + Len(c)
  /\ \A i \in 1..Len(wire) : wire'[i] = wire[i]
  /\ \A j \in 1..Len(c) : wire'[Len(wire) + j] = c[j]
  /\ \A i \in 0..Len(wire) : Ends(wire')[i] = At(i)
  /\ \A j \in 0..Len(c) : Ends(wire')[Len(wire) + j] = At(Len(wire)) + Ends(c)[j]
  /\ Len(c) > 0 => c[1].kind \in HeadKinds \cup {"checksum"}

(* A run of documents stays one when tokens are appended.                  *)
LEMMA RunKept ==
  ASSUME NEW c, Continues(c), NEW t \in Nat, NEW e, Run(t, e)
  PROVE  Run(t, e)'
<1>1. e \in t + 1..Len(wire) + 1 /\ e \in Nat
  BY DEF Run, Continues
<1>2. \A j \in t + 1..e - 1 : wire'[j].kind \in DocKinds
  BY <1>1, SMTT(30) DEF Run, Continues
<1>3. e \in t + 1..Len(wire') + 1
  BY <1>1 DEF Continues
<1>4. CASE e <= Len(wire)
  BY <1>1, <1>2, <1>3, <1>4 DEF Run, Continues
<1>5. CASE e = Len(wire) + 1
  <2>1. e <= Len(wire') => wire'[e].kind \in HeadKinds \cup {"checksum"}
    BY <1>5 DEF Continues
  <2>. QED BY <1>2, <1>3, <2>1 DEF Run
<1>. QED BY <1>1, <1>4, <1>5 DEF Continues

(* A section stays well formed when tokens are appended.                   *)
LEMMA HeadShapeKept ==
  ASSUME NEW c, Continues(c), NEW i \in 1..Len(wire), HeadShape(i)
  PROVE  HeadShape(i)'
<1>1. wire'[i] = wire[i] /\ i \in Nat /\ Len(wire) \in Nat /\ Len(wire') >= Len(wire)
  BY DEF Continues
<1>2. i < Len(wire) => i < Len(wire') /\ wire'[i + 1] = wire[i + 1]
  BY <1>1 DEF Continues
<1>3. ASSUME Run(i + 1, i + 2) PROVE Run(i + 1, i + 2)'
  BY <1>1, <1>3, RunKept
<1>4. ASSUME NEW e \in 1..Len(wire) + 1, Run(i + 1, e), wire[i].size = 4 + At(e - 1) - At(i)
      PROVE  /\ e \in 1..Len(wire') + 1
             /\ Run(i + 1, e)'
             /\ wire'[i].size = 4 + Ends(wire')[e - 1] - Ends(wire')[i]
  <2>1. Ends(wire')[e - 1] = At(e - 1) /\ Ends(wire')[i] = At(i)
    BY <1>1 DEF Continues
  <2>2. Run(i + 1, e)'
    BY <1>1, <1>4, RunKept
  <2>. QED BY <1>1, <1>4, <2>1, <2>2
<1>5. wire[i].kind = "body" => HeadShape(i)'
  BY <1>1, <1>2, <1>3 DEF HeadShape
<1>6. wire[i].kind = "sequence" => HeadShape(i)'
  BY <1>1, <1>2, <1>4, ZenonT(20) DEF HeadShape, At
<1>. QED BY <1>1, <1>5, <1>6 DEF HeadShape

(* An OP_MSG that goes on with whole sections or a checksum. *)
LEMMA MsgExtend ==
  ASSUME NEW c, Continues(c), MsgShape,
         \A i \in Len(wire) + 1..Len(wire') : HeadShape(i)'
  PROVE  MsgShape'
<1>1. /\ Len(wire) \in Nat /\ Len(wire) >= 1 /\ Len(wire') >= Len(wire)
      /\ wire'[1] = wire[1]
  BY DEF Continues, MsgShape
<1>2. \A i \in 1..Len(wire) : HeadShape(i)
  BY DEF MsgShape
<1>3. \A i \in 1..Len(wire) : HeadShape(i)'
  BY <1>2, HeadShapeKept
<1>4. \A i \in 1..Len(wire') : HeadShape(i)'
  BY <1>1, <1>3 DEF Continues
<1>5. Run(1, 2)'
  BY RunKept DEF MsgShape
<1>. QED BY <1>1, <1>4, <1>5 DEF MsgShape

(* The flags; the end of the sections; the checksum. *)
LEMMA ComposeMsg ==
  ASSUME WireInv, Compose, op = "OP_MSG"
  PROVE  WireInv'
<1>1. /\ op \in Ops /\ Tokens /\ pc = "compose" /\ MsgTable(op)
      /\ k \in 1..3 /\ IF k = 1 THEN wire = <<>> ELSE MsgShape
      /\ tok = 0 /\ loc = 0 /\ left = 0 /\ fields = <<>>
  BY MsgTables DEF WireInv, Composing, Compose, Items, MsgTable
<1>2. PICK c \in Chunks(Format[op][k]) : wire' = wire \o c
  BY SMTT(30) DEF Compose
<1>3. /\ op' = op /\ pc' = pc /\ k' = k + 1 /\ tok' = tok /\ loc' = loc
      /\ left' = left /\ fields' = fields
  BY DEF Compose
<1>4. /\ c \in Seq(AnyToken) /\ \A j \in 1..Len(c) : IsToken(c[j])
      /\ k = 1 => Len(c) = 1 /\ c[1].kind = "int32"
      /\ k # 1 => c = <<>> \/ c = <<[kind |-> "checksum", width |-> 4]>>
  <2>1. CASE k = 1
    <3>1. Format[op][k] = "int32"
      BY <1>1, <2>1 DEF MsgTable
    <3>2. c \in Chunks("int32") /\ "int32" \in PlainItems
      BY <3>1 DEF PlainItems
    <3>. QED BY <2>1, <3>2, PlainChunk DEF Fits
  <2>2. CASE k = 2
    <3>1. Format[op][k] = "sections"
      BY <1>1, <2>2 DEF MsgTable
    <3>. QED BY <2>2, <3>1 DEF Chunks
  <2>3. CASE k = 3
    <3>1. Format[op][k] = "checksum?"
      BY <1>1, <2>3 DEF MsgTable
    <3>2. c = <<>> \/ c = <<[kind |-> "checksum", width |-> 4]>>
      BY <3>1 DEF Chunks, Token
    <3>3. [kind |-> "checksum", width |-> 4] \in AnyToken
      BY DEF AnyToken, Kinds, HeadKinds, DocKinds
    <3>4. IsToken([kind |-> "checksum", width |-> 4])
      BY DEF IsToken
    <3>5. CASE c = <<>>
      BY <2>3, <3>5
    <3>6. CASE c = <<[kind |-> "checksum", width |-> 4]>>
      BY <2>3, <3>3, <3>4, <3>6
    <3>. QED BY <3>2, <3>5, <3>6
  <2>. QED BY <1>1, <2>1, <2>2, <2>3
<1>5. /\ Tokens'
      /\ Len(wire') = Len(wire) + Len(c)
      /\ \A i \in 1..Len(wire) : wire'[i] = wire[i]
      /\ \A j \in 1..Len(c) : wire'[Len(wire) + j] = c[j]
      /\ \A i \in 0..Len(wire) : Ends(wire')[i] = At(i)
      /\ \A j \in 0..Len(c) : Ends(wire')[Len(wire) + j] = At(Len(wire)) + Ends(c)[j]
  BY <1>1, <1>2, <1>3, <1>4, Extend, ZenonT(20)
<1>6. Len(wire) \in Nat /\ Len(c) \in Nat
  BY <1>1, <1>4 DEF Tokens
<1>7. MsgShape'
  <2>1. CASE k = 1
    <3>1. Len(wire') = 1 /\ wire'[1].kind = "int32"
      BY <1>1, <1>4, <1>5, <2>1, SMTT(30)
    <3>2. Run(1, 2)'
      BY <3>1 DEF Run
    <3>3. HeadShape(1)'
      BY <3>1 DEF HeadShape
    <3>. QED BY <3>1, <3>2, <3>3 DEF MsgShape
  <2>2. CASE k # 1
    <3>1. Len(c) > 0 => Len(c) = 1 /\ c[1].kind = "checksum"
      BY <1>4, <2>2
    <3>2. Continues(c)
      BY <1>5, <1>6, <3>1 DEF Continues
    <3>3. ASSUME NEW i \in Len(wire) + 1..Len(wire') PROVE wire'[i].kind = "checksum"
      <4>1. Len(c) = 1 /\ i = Len(wire) + 1
        BY <1>5, <1>6, <3>1, SMTT(30)
      <4>. QED BY <1>5, <3>1, <4>1
    <3>4. \A i \in Len(wire) + 1..Len(wire') : HeadShape(i)'
      BY <3>3 DEF HeadShape
    <3>. QED BY <1>1, <2>2, <3>2, <3>4, MsgExtend
  <2>. QED BY <2>1, <2>2
<1>8. Composing'
  <2>1. k' \in 2..4 /\ Items' = 3
    BY <1>1, <1>3 DEF MsgTable, Items
  <2>. QED BY <1>1, <1>3, <1>7, <2>1 DEF Composing
<1>. QED BY <1>1, <1>3, <1>5, <1>8 DEF WireInv

(* One section more. *)
LEMMA ComposeSectionStep ==
  ASSUME WireInv, ComposeSection
  PROVE  WireInv'
<1>1. op = "OP_MSG"
  <2>1. ASSUME op # "OP_MSG" PROVE FALSE
    <3>1. PlainTable(op) /\ k \in 1..Len(Format[op])
      BY <2>1, PlainTables DEF WireInv, ComposeSection, Composing, Items
    <3>2. Format[op][k] \in PlainItems /\ Format[op][k] = "sections"
      BY <3>1 DEF PlainTable, ComposeSection
    <3>. QED BY <3>2 DEF PlainItems
  <2>. QED BY <2>1
<1>2. /\ op \in Ops /\ Tokens /\ pc = "compose" /\ MsgTable(op) /\ k \in 1..3
      /\ tok = 0 /\ loc = 0 /\ left = 0 /\ fields = <<>>
  BY <1>1, MsgTables DEF WireInv, Composing, ComposeSection, Items, MsgTable
<1>3. k = 2 /\ MsgShape
  BY <1>1, <1>2 DEF WireInv, Composing, ComposeSection, MsgTable
<1>4. PICK c \in Sections : wire' = wire \o c
  BY DEF ComposeSection
<1>5. /\ op' = op /\ pc' = pc /\ k' = k /\ tok' = tok /\ loc' = loc
      /\ left' = left /\ fields' = fields
  BY DEF ComposeSection
<1>6. ASSUME c \in Seq(AnyToken), \A j \in 1..Len(c) : IsToken(c[j]), c[1].kind \in HeadKinds
      PROVE  Tokens' /\ Continues(c)
  <2>1. /\ Tokens'
        /\ Len(wire') = Len(wire) + Len(c)
        /\ \A i \in 1..Len(wire) : wire'[i] = wire[i]
        /\ \A j \in 1..Len(c) : wire'[Len(wire) + j] = c[j]
        /\ \A i \in 0..Len(wire) : Ends(wire')[i] = At(i)
        /\ \A j \in 0..Len(c) : Ends(wire')[Len(wire) + j] = At(Len(wire)) + Ends(c)[j]
    BY <1>2, <1>4, <1>5, <1>6, Extend, ZenonT(20)
  <2>2. Len(wire) \in Nat /\ Len(c) \in Nat
    BY <1>2, <1>6 DEF Tokens
  <2>. QED BY <1>6, <2>1, <2>2, ZenonT(20) DEF Continues
<1>7. ASSUME NEW d \in DocTokens, c = <<Token("body", 1), d>>
      PROVE  Tokens' /\ MsgShape'
  <2>1. d \in AnyToken /\ IsToken(d) /\ d.kind \in DocKinds
    BY DocToken
  <2>2. Token("body", 1) \in AnyToken /\ IsToken(Token("body", 1)) /\ Token("body", 1).kind = "body"
    BY DEF AnyToken, IsToken, Token, Kinds, HeadKinds, DocKinds
  <2>3. /\ c \in Seq(AnyToken) /\ Len(c) = 2 /\ \A j \in 1..Len(c) : IsToken(c[j])
        /\ c[1].kind = "body" /\ c[2].kind \in DocKinds
    BY <1>7, <2>1, <2>2
  <2>4. Tokens' /\ Continues(c)
    BY <1>6, <2>3, ZenonT(20) DEF HeadKinds
  <2>5. PICK n \in Nat : n = Len(wire)
    BY <2>4 DEF Continues
  <2>6. Len(wire') = n + 2 /\ wire'[n + 1].kind = "body" /\ wire'[n + 2].kind \in DocKinds
    BY <2>3, <2>4, <2>5 DEF Continues
  <2>7. HeadShape(n + 1)'
    BY <2>6 DEF HeadShape, Run
  <2>8. HeadShape(n + 2)'
    BY <2>6 DEF HeadShape, DocKinds
  <2>9. \A i \in Len(wire) + 1..Len(wire') : HeadShape(i)'
    BY <2>5, <2>6, <2>7, <2>8
  <2>. QED BY <1>3, <2>4, <2>9, MsgExtend
<1>8. ASSUME NEW w \in StringWidths, NEW ds \in DocLists,
             c = <<[kind |-> "sequence", width |-> 5, size |-> 4 + w + Width(ds)],
                   Token("cstring", w)>> \o ds
      PROVE  Tokens' /\ MsgShape'
  <2>. DEFINE s == [kind |-> "sequence", width |-> 5, size |-> 4 + w + Width(ds)]
              t == [kind |-> "cstring", width |-> w]
  <2>1. /\ ds \in Seq(AnyToken) /\ Len(ds) \in Nat
        /\ \A j \in 1..Len(ds) : IsToken(ds[j]) /\ ds[j].kind \in DocKinds
    BY DocSeqs
  <2>2. HasWidths(ds) /\ w \in Nat \ {0}
    BY <2>1, TokenWidths, WireAssumption
  <2>3. Ends(ds)[Len(ds)] \in Nat /\ Width(ds) = Ends(ds)[Len(ds)]
    BY <2>2, EndsFacts DEF Width, HasWidths
  <2>4. /\ s \in AnyToken /\ IsToken(s) /\ s.kind = "sequence" /\ s.width = 5
        /\ s.size = 4 + w + Width(ds)
        /\ t \in AnyToken /\ IsToken(t) /\ t.kind = "cstring" /\ t.width = w
    BY <2>2, <2>3 DEF AnyToken, IsToken, Kinds, HeadKinds, DocKinds
  <2>5. c = <<s, t>> \o ds
    BY <1>8 DEF Token
  <2>. HIDE DEF s, t
  <2>6. <<s, t>> \in Seq(AnyToken) /\ Len(<<s, t>>) = 2
    BY <2>4
  <2>7. /\ c \in Seq(AnyToken) /\ Len(c) = 2 + Len(ds)
        /\ c[1] = s /\ c[2] = t /\ \A j \in 1..Len(ds) : c[2 + j] = ds[j]
    BY <2>1, <2>5, <2>6
  <2>8. ASSUME NEW j \in 3..Len(c) PROVE IsToken(c[j]) /\ c[j].kind \in DocKinds
    <3>1. PICK i \in 1..Len(ds) : j = 2 + i
      <4>1. j - 2 \in 1..Len(ds) /\ j = 2 + (j - 2)
        BY <2>1, <2>7
      <4>. QED BY <4>1
    <3>. QED BY <2>1, <2>7, <3>1
  <2>9. \A j \in 1..Len(c) : IsToken(c[j])
    <3>1. \A j \in 1..Len(c) : j = 1 \/ j = 2 \/ j \in 3..Len(c)
      BY <2>1, <2>7
    <3>. QED BY <2>4, <2>7, <2>8, <3>1
  <2>10. Tokens' /\ Continues(c)
    BY <1>6, <2>4, <2>7, <2>9 DEF HeadKinds
  <2>11. PICK n \in Nat : n = Len(wire)
    BY <2>10 DEF Continues
  <2>12. /\ Len(wire') = n + Len(c) /\ wire'[n + 1] = s /\ wire'[n + 2] = t
         /\ \A i \in n + 3..Len(wire') : wire'[i].kind \in DocKinds
    <3>1. Len(wire') = n + Len(c) /\ wire'[n + 1] = s /\ wire'[n + 2] = t
      BY <2>1, <2>7, <2>10, <2>11 DEF Continues
    <3>2. ASSUME NEW i \in n + 3..Len(wire') PROVE wire'[i].kind \in DocKinds
      <4>1. i - n \in 3..Len(c) /\ i = n + (i - n)
        BY <2>1, <2>7, <2>11, <3>1
      <4>2. PICK j \in 3..Len(c) : i = n + j
        BY <4>1
      <4>3. j \in 1..Len(c)
        BY <2>1, <2>7
      <4>4. wire'[n + j] = c[j]
        BY <2>10, <2>11, <4>3 DEF Continues
      <4>. QED BY <2>8, <4>2, <4>4
    <3>. QED BY <3>1, <3>2
  <2>13. HasWidths(c)
    BY <2>7, TokenWidths
  <2>14. Ends(c)[1] = 5 /\ Ends(c)[2] = 5 + w
    <3>1. 1 \in 1..Len(c) /\ 2 \in 1..Len(c)
      BY <2>1, <2>7
    <3>2. Ends(c)[0] = 0 /\ \A i \in 1..Len(c) : Ends(c)[i] = Ends(c)[i - 1] + c[i].width
      BY <2>13, EndsFacts, ZenonT(20)
    <3>3. Ends(c)[1] = 0 + 5 /\ Ends(c)[2] = Ends(c)[1] + w
      BY <2>4, <2>7, <3>1, <3>2
    <3>. QED BY <2>2, <3>3
  <2>15. Ends(c)[Len(c)] = 5 + w + Width(ds)
    <3>1. PICK a \in Nat : a = 2
      OBVIOUS
    <3>2. IsPart(ds, c, a)
      BY <2>1, <2>7, <3>1 DEF IsPart
    <3>3. \A j \in 0..Len(ds) : Ends(c)[a + j] = Ends(c)[a] + Ends(ds)[j]
      BY <2>2, <2>13, <3>2, EndsSegment
    <3>4. Ends(c)[2 + Len(ds)] = Ends(c)[2] + Ends(ds)[Len(ds)]
      BY <2>1, <3>1, <3>3, SMTT(30)
    <3>. QED BY <2>3, <2>7, <2>14, <3>4
  <2>16. HeadShape(n + 1)'
    <3>0. At(n) \in Nat
      <4>1. n \in 0..Len(wire)
        BY <2>11
      <4>. QED BY <1>2, <4>1, AtFacts
    <3>1. Ends(wire')[n + 1] = At(n) + 5 /\ Ends(wire')[Len(wire')] = At(n) + 5 + w + Width(ds)
      <4>1. Ends(wire')[n + 1] = At(n) + Ends(c)[1]
        BY <2>1, <2>7, <2>10, <2>11 DEF Continues
      <4>2. Ends(wire')[n + Len(c)] = At(n) + Ends(c)[Len(c)]
        BY <2>1, <2>7, <2>10, <2>11 DEF Continues
      <4>3. PICK x \in Nat, y \in Nat : x = At(n) /\ y = Width(ds)
        BY <2>3, <3>0
      <4>4. x + (5 + w + y) = x + 5 + w + y
        BY <2>2
      <4>. QED BY <2>12, <2>14, <2>15, <4>1, <4>2, <4>3, <4>4, ZenonT(20)
    <3>3. PICK e \in Nat : e = Len(wire') + 1
      BY <2>1, <2>7, <2>12
    <3>4. Run((n + 1) + 1, e)'
      BY <2>1, <2>7, <2>12, <3>3, SMTT(30) DEF Run
    <3>5. e - 1 = Len(wire') /\ e \in 1..Len(wire') + 1
      BY <3>3
    <3>6. s.size = 4 + Ends(wire')[e - 1] - Ends(wire')[n + 1]
      <4>1. PICK x \in Nat, y \in Nat : x = At(n) /\ y = Width(ds)
        BY <2>3, <3>0
      <4>2. Ends(wire')[e - 1] = x + 5 + w + y /\ Ends(wire')[n + 1] = x + 5 /\ s.size = 4 + w + y
        BY <2>4, <3>1, <3>5, <4>1
      <4>3. 4 + w + y = 4 + (x + 5 + w + y) - (x + 5)
        BY <2>2
      <4>. QED BY <4>2, <4>3
    <3>7. wire'[n + 1].kind = "sequence" /\ n + 1 < Len(wire') /\ wire'[(n + 1) + 1].kind = "cstring"
      BY <2>1, <2>4, <2>7, <2>12
    <3>. QED BY <2>12, <3>4, <3>5, <3>6, <3>7 DEF HeadShape, At
  <2>17. ASSUME NEW i \in n + 2..Len(wire') PROVE HeadShape(i)'
    <3>1. i = n + 2 \/ i \in n + 3..Len(wire')
      BY <2>1, <2>7, <2>12
    <3>2. wire'[i].kind \in DocKinds \cup {"cstring"}
      BY <2>4, <2>12, <3>1, SMTT(30)
    <3>. QED BY <3>2 DEF HeadShape, DocKinds
  <2>18. \A i \in Len(wire) + 1..Len(wire') : i = n + 1 \/ i \in n + 2..Len(wire')
    BY <2>1, <2>7, <2>11, <2>12
  <2>. QED BY <1>3, <2>10, <2>16, <2>17, <2>18, MsgExtend
<1>9. Tokens' /\ MsgShape'
  <2>1. \/ \E d \in DocTokens : c = <<Token("body", 1), d>>
        \/ \E w \in StringWidths, ds \in DocLists :
             c = <<[kind |-> "sequence", width |-> 5, size |-> 4 + w + Width(ds)],
                   Token("cstring", w)>> \o ds
    <3>. DEFINE SeqSection(w, ds) ==
                  <<[kind |-> "sequence", width |-> 5, size |-> 4 + w + Width(ds)],
                    Token("cstring", w)>> \o ds
    <3>1. Sections = {<<Token("body", 1), d>> : d \in DocTokens}
            \cup {SeqSection(w, ds) : w \in StringWidths, ds \in DocLists}
      BY DEF Sections
    <3>2. \/ \E d \in DocTokens : c = <<Token("body", 1), d>>
          \/ \E w \in StringWidths, ds \in DocLists : c = SeqSection(w, ds)
      <4>. HIDE DEF SeqSection
      <4>. QED BY <3>1
    <3>. QED BY <3>2, ZenonT(20)
  <2>. QED BY <1>7, <1>8, <2>1, ZenonT(20)
<1>10. Composing'
  <2>1. Items' = 3
    BY <1>2, <1>5, ZenonT(20) DEF MsgTable, Items
  <2>. QED BY <1>1, <1>2, <1>3, <1>5, <1>9, <2>1 DEF Composing
<1>. QED BY <1>2, <1>5, <1>9, <1>10 DEF WireInv

(* Sending the body, whole or cut short, keeps the invariant.              *)
LEMMA SendStep ==
  ASSUME WireInv, Send
  PROVE  WireInv'
<1>1. /\ op \in Ops /\ Tokens /\ pc = "compose" /\ k \in 1..Items + 1 /\ k > Items
      /\ tok = 0 /\ loc = 0 /\ left = 0 /\ fields = <<>>
      /\ IF op = "OP_MSG" THEN IF k = 1 THEN wire = <<>> ELSE MsgShape
         ELSE PlainShape /\ IF k <= Items THEN Len(wire) = k - 1 ELSE PlainWhole
  BY DEF WireInv, Composing, Send, Items
<1>2. /\ op' = op /\ wire' = wire /\ pc' = "parse" /\ k' = 1 /\ tok' = 0 /\ loc' = 0
      /\ left' = 0 /\ fields' = <<>>
  BY <1>1 DEF Send
<1>3. length' \in 0..Width(wire)
  BY DEF Send
<1>4. Items \in Nat \ {0}
  BY <1>1, PlainTables, MsgTables DEF PlainTable, MsgTable, Items
<1>5. WellFormed
  <2>1. ~(k <= Items) /\ k # 1
    BY <1>1, <1>4
  <2>. QED BY <1>1, <2>1 DEF WellFormed
<1>6. At(0) = 0 /\ Len(wire) \in Nat /\ At(Len(wire)) \in Nat /\ Width(wire) = At(Len(wire))
  BY <1>1, AtFacts DEF Width, At
<1>7. Tokens' /\ WellFormed'
  BY <1>1, <1>2, <1>5, ZenonT(20) DEF Tokens, IsToken, WellFormed, MsgShape, HeadShape, Run, At, PlainShape,
     PlainWhole, Fits, Items
<1>8. Parsed'
  BY <1>2, <1>3, <1>6 DEF Parsed, At
<1>9. FixedBefore[op][1] = 0 /\ Varying(wire)[0] = 0
  BY <1>1, PlainTables, MsgTables, VaryingFacts DEF PlainTable, MsgTable
<1>10. IF op = "OP_MSG" THEN MsgPlace' ELSE PlainPlace'
  <2>1. CASE op = "OP_MSG"
    BY <1>2, <2>1 DEF MsgPlace
  <2>2. CASE op # "OP_MSG"
    <3>1. PlainTable(op)
      BY <1>1, <2>2, PlainTables
    <3>2. 1 \in 1..Items /\ 1 # Items + 1
      BY <1>4
    <3>3. parser[op][1] # "docs"
      <4>1. Format[op][1] # "docs"
        <5>1. Len(Format[op]) \in Nat \ 0..1 /\ 1 \in 1..Len(Format[op])
          BY <3>1 DEF PlainTable
        <5>2. Format[op][1] = "docs" => 1 = Len(Format[op])
          BY <3>1, <5>1, ZenonT(20) DEF PlainTable
        <5>. QED BY <5>1, <5>2, SMTT(30)
      <4>2. parser[op][1] = IF Format[op][1] = "reserved" THEN "int32" ELSE Format[op][1]
        BY <3>1 DEF PlainTable
      <4>. QED BY <4>1, <4>2
    <3>. QED BY <1>2, <1>4, <2>2, <3>2, <3>3 DEF PlainPlace, Items
  <2>. QED BY <2>1, <2>2
<1>11. InParser'
  BY <1>2, <1>6, <1>7, <1>8, <1>9, <1>10 DEF InParser, At
<1>. QED BY <1>1, <1>2, <1>7, <1>11 DEF WireInv

-----------------------------------------------------------------------------
(* Parsing *)

(* The members of two sequences put together.                              *)
LEMMA Concat ==
  ASSUME NEW S, NEW a \in Seq(S), NEW b \in Seq(S)
  PROVE  /\ a \o b \in Seq(S)
         /\ Len(a \o b) = Len(a) + Len(b)
         /\ \A i \in 1..Len(a) : (a \o b)[i] = a[i]
         /\ \A i \in 1..Len(b) : (a \o b)[Len(a) + i] = b[i]
OBVIOUS

(* ts are the next m tokens, and the body has them whole. *)
MayTake(ts, m) ==
  /\ Tokens
  /\ Parsed
  /\ tok = Len(fields)
  /\ loc = At(tok)
  /\ m \in Nat \ {0}
  /\ ts \in Seq(AnyToken)
  /\ Len(ts) = m
  /\ \A j \in 1..m : ts[j] = wire[tok + j] /\ ts[j].kind # "checksum"
  /\ tok + m <= Len(wire)
  /\ At(tok + m) <= length
  /\ k \in Nat
  /\ k \in 1..Len(parser[op])
  /\ k = 1 <=> tok = 0
  /\ k = 1 => m = 1

(* The parser takes m tokens from the body. *)
LEMMA Taken ==
  ASSUME NEW m, NEW ts, MayTake(ts, m), Take(ts)
  PROVE  /\ Parsed'
         /\ tok' = tok + m
         /\ tok' = Len(fields')
         /\ loc' = At(tok)'
<1>0. m \in Nat \ {0} /\ ts \in Seq(AnyToken) /\ Len(ts) = m
  BY DEF MayTake
<1>1. /\ Len(wire) \in Nat /\ tok \in Nat /\ tok + m \in 0..Len(wire) /\ length \in Nat
      /\ fields \in Seq(AnyField) /\ wire \in Seq(AnyToken) /\ length <= At(Len(wire))
      /\ Len(fields) = tok
  BY DEF Tokens, Parsed, MayTake
<1>2. /\ op' = op /\ wire' = wire /\ length' = length
      /\ fields' = fields \o [i \in DOMAIN ts |-> Field(ts[i], loc + Ends(ts)[i - 1])]
      /\ loc' = loc + Width(ts) /\ tok' = tok + m
  BY <1>0 DEF Take
<1>3. HasWidths(wire) /\ HasWidths(ts)
  BY <1>0, <1>1, TokenWidths
<1>4. \A j \in 0..m : At(tok + j) = loc + Ends(ts)[j]
  <2>1. IsPart(ts, wire, tok)
    BY <1>0, <1>1 DEF IsPart, MayTake
  <2>2. \A j \in 0..m : Ends(wire)[tok + j] = Ends(wire)[tok] + Ends(ts)[j]
    BY <1>0, <1>3, <2>1, EndsSegment
  <2>3. loc = Ends(wire)[tok]
    BY DEF At, MayTake
  <2>. QED BY <2>2, <2>3, SMTT(30) DEF At
<1>5. loc' = At(tok)'
  <2>1. At(tok + m) = loc + Width(ts)
    BY <1>0, <1>4 DEF Width
  <2>. QED BY <1>2, <2>1 DEF At
<1>. DEFINE g == [i \in 1..m |-> Field(ts[i], At(tok + (i - 1)))]
<1>6. fields' = fields \o g
  <2>1. DOMAIN ts = 1..m
    BY <1>0
  <2>2. \A i \in 1..m : loc + Ends(ts)[i - 1] = At(tok + (i - 1))
    BY <1>0, <1>4
  <2>3. [i \in DOMAIN ts |-> Field(ts[i], loc + Ends(ts)[i - 1])] = g
    BY <2>1, <2>2, SMTT(30)
  <2>. QED BY <1>2, <2>3, ZenonT(20)
<1>7. ASSUME NEW i \in 1..m
      PROVE  /\ tok + i \in 1..Len(wire) /\ tok + (i - 1) \in 0..Len(wire)
             /\ At(tok + (i - 1)) \in Nat
             /\ g[i] = [item |-> k, kind |-> wire[tok + i].kind, from |-> At(tok + (i - 1)),
                        size |-> wire[tok + i].width,
                        bytes |-> IF wire[tok + i].kind = "shortcut"
                                  THEN length - At(tok + (i - 1)) ELSE wire[tok + i].width]
             /\ g[i] \in AnyField
  <2>1. tok + i \in 1..Len(wire) /\ tok + (i - 1) \in 0..Len(wire)
    BY <1>0, <1>1
  <2>2. At(tok + (i - 1)) \in Nat
    <3>1. \A j \in 0..Len(wire) : At(j) \in Nat
      BY AtFacts, ZenonT(20) DEF MayTake
    <3>. QED BY <2>1, <3>1
  <2>3. g[i] = [item |-> k, kind |-> wire[tok + i].kind, from |-> At(tok + (i - 1)),
                size |-> wire[tok + i].width,
                bytes |-> IF wire[tok + i].kind = "shortcut"
                          THEN length - At(tok + (i - 1)) ELSE wire[tok + i].width]
    BY ZenonT(20) DEF Field, MayTake
  <2>4. wire[tok + i] \in AnyToken
    BY <1>1, <2>1
  <2>5. wire[tok + i].kind \in Kinds /\ wire[tok + i].width \in Nat
    BY <2>4, SMTT(30) DEF AnyToken, Kinds, HeadKinds
  <2>. HIDE DEF g
  <2>6. g[i] \in AnyField
    <3>1. (IF wire[tok + i].kind = "shortcut"
           THEN length - At(tok + (i - 1)) ELSE wire[tok + i].width) \in Int
      BY <1>1, <2>2, <2>5
    <3>2. k \in Nat
      BY DEF MayTake
    <3>. QED BY <2>2, <2>3, <2>5, <3>1, <3>2 DEF AnyField
  <2>. QED BY <2>1, <2>2, <2>3, <2>6
<1>8. g \in Seq(AnyField) /\ Len(g) = m
  <2>1. \A i \in 1..m : g[i] \in AnyField
    BY <1>7, ZenonT(20)
  <2>2. g \in [1..m -> AnyField]
    BY <2>1
  <2>. HIDE DEF g
  <2>. QED BY <1>0, <2>2
<1>. HIDE DEF g
<1>9. /\ fields' \in Seq(AnyField) /\ Len(fields') = tok + m
      /\ \A i \in 1..tok : fields'[i] = fields[i]
      /\ \A i \in 1..m : fields'[tok + i] = g[i]
  <2>1. /\ fields \o g \in Seq(AnyField)
        /\ Len(fields \o g) = Len(fields) + Len(g)
        /\ \A i \in 1..Len(fields) : (fields \o g)[i] = fields[i]
        /\ \A i \in 1..Len(g) : (fields \o g)[Len(fields) + i] = g[i]
    <3>1. fields \in Seq(AnyField) /\ g \in Seq(AnyField)
      BY <1>1, <1>8
    <3>. QED BY <3>1, Concat
  <2>2. Len(fields) = tok /\ Len(g) = m
    BY <1>1, <1>8, ZenonT(20)
  <2>. QED BY <1>6, <2>1, <2>2, ZenonT(20)
<1>. DEFINE Good(f, i) ==
       /\ f.item \in 1..Len(parser[op])
       /\ f.item = 1 <=> i = 1
       /\ f.kind = wire[i].kind
       /\ f.kind # "checksum"
       /\ f.from = At(i - 1)
       /\ f.size = wire[i].width
       /\ f.bytes = IF wire[i].kind = "shortcut" THEN length - At(i - 1) ELSE wire[i].width
<1>10. ASSUME NEW i \in 1..Len(fields') PROVE Good(fields'[i], i)
  <2>1. CASE i <= tok
    <3>1. i \in 1..Len(fields) /\ fields'[i] = fields[i]
      BY <1>1, <1>9, <2>1, SMTT(30)
    <3>. QED BY <3>1, ZenonT(20) DEF MayTake, Parsed
  <2>2. CASE i > tok
    <3>1. i - tok \in 1..m /\ i = tok + (i - tok) /\ i - 1 = tok + ((i - tok) - 1)
      <4>1. i \in Nat \ {0} /\ i <= tok + m
        BY <1>0, <1>1, <1>9
      <4>. QED BY <1>0, <1>1, <2>2, <4>1
    <3>2. PICK j \in 1..m : i = tok + j /\ i - 1 = tok + (j - 1)
      BY <3>1
    <3>3. fields'[i] = g[j] /\ wire[i].kind # "checksum"
      BY <1>9, <3>2 DEF MayTake
    <3>4. (k = 1 <=> i = 1) /\ k \in 1..Len(parser[op])
      BY <1>0, <1>1, <3>2 DEF MayTake
    <3>5. g[j] = [item |-> k, kind |-> wire[i].kind, from |-> At(i - 1),
                  size |-> wire[i].width,
                  bytes |-> IF wire[i].kind = "shortcut"
                            THEN length - At(i - 1) ELSE wire[i].width]
      BY <1>7, <3>2, ZenonT(20)
    <3>. QED BY <3>3, <3>4, <3>5
  <2>. QED BY <1>0, <1>1, <1>9, <2>1, <2>2
<1>11. Parsed'
  BY <1>1, <1>2, <1>9, <1>10, ZenonT(20) DEF Parsed, At, MayTake
<1>. QED BY <1>2, <1>5, <1>9, <1>11

(* What is said of the body alone stays true while the body does not       *)
(* change.                                                                 *)
LEMMA Frame ==
  ASSUME Tokens, op' = op, wire' = wire
  PROVE  /\ Tokens'
         /\ WellFormed => WellFormed'
         /\ \A t, e : Run(t, e) => Run(t, e)'
BY ZenonT(20) DEF Tokens, IsToken, WellFormed, MsgShape, HeadShape, Run, At,
  PlainShape, PlainWhole, Fits, Items

(* Refusing a message keeps the invariant: the body that is refused was    *)
(* cut short.                                                              *)
LEMMA RefuseStep ==
  ASSUME WireInv, Refuse, length < At(Len(wire))
  PROVE  WireInv'
<1>1. Tokens'
  BY Frame DEF WireInv, Refuse
<1>. QED BY <1>1 DEF WireInv, Refuse, At

(* While bytes are left there is a token, and it is the one they belong to. *)
LEMMA NextToken ==
  ASSUME Tokens, InParser
  PROVE  /\ tok \in Nat /\ Len(wire) \in Nat /\ tok <= Len(wire) /\ loc \in Nat /\ length \in Nat
         /\ loc <= length /\ length <= At(Len(wire)) /\ At(Len(wire)) \in Nat
         /\ tok < Len(wire) \/ Remaining = 0
         /\ tok < Len(wire) => NextTok \in AnyToken /\ IsToken(NextTok)
                               /\ NextTok.width \in Nat \ {0}
                               /\ At(tok + 1) = loc + NextTok.width
                               /\ At(tok + 1) <= At(Len(wire))
<1>1. /\ tok \in Nat /\ Len(wire) \in Nat /\ tok <= Len(wire) /\ loc = At(tok) /\ length \in Nat
      /\ loc <= length /\ length <= At(Len(wire))
  BY SMTT(30) DEF InParser, Parsed, Tokens
<1>2. loc \in Nat /\ At(Len(wire)) \in Nat
  <2>1. tok \in 0..Len(wire) /\ Len(wire) \in 0..Len(wire)
    BY <1>1
  <2>. QED BY <1>1, <2>1, AtFacts, ZenonT(20)
<1>3. CASE tok = Len(wire)
  BY <1>1, <1>2, <1>3 DEF Remaining
<1>4. CASE tok < Len(wire)
  <2>1. tok + 1 \in 1..Len(wire) /\ (tok + 1) - 1 = tok
    BY <1>1, <1>4
  <2>2. NextTok \in AnyToken /\ IsToken(NextTok)
    BY <2>1 DEF Tokens, NextTok
  <2>3. NextTok.width \in Nat \ {0} /\ At(tok + 1) = At((tok + 1) - 1) + NextTok.width
    BY <2>1, AtFacts, ZenonT(20) DEF NextTok
  <2>4. At(Len(wire)) >= At(tok + 1) + (Len(wire) - (tok + 1)) /\ At(tok + 1) \in Nat
    BY <1>1, <2>1, AtFacts
  <2>5. At(tok + 1) <= At(Len(wire))
    BY <1>1, <1>2, <2>1, <2>4
  <2>. QED BY <1>1, <1>2, <1>4, <2>1, <2>2, <2>3, <2>5
<1>. QED BY <1>1, <1>2, <1>3, <1>4

(* A body that ends before the end of a token is not whole. *)
LEMMA ShortBody ==
  ASSUME Tokens, InParser, tok < Len(wire), Remaining = 0 \/ ~Whole(NextTok)
  PROVE  length < At(Len(wire))
<1>1. /\ loc \in Nat /\ length \in Nat /\ At(Len(wire)) \in Nat
      /\ NextTok.width \in Nat \ {0} /\ At(tok + 1) = loc + NextTok.width
      /\ At(tok + 1) <= At(Len(wire))
  BY NextToken
<1>2. length < At(tok + 1)
  BY <1>1 DEF Remaining, Whole
<1>. QED BY <1>1, <1>2

(* Taking one token: the parser is where the fixed and the varying sizes   *)
(* so far say.                                                             *)
LEMMA OneTaken ==
  ASSUME Tokens, InParser, Take(<<NextTok>>), tok < Len(wire), Whole(NextTok),
         NextTok.kind # "checksum",
         k \in Nat, k \in 1..Len(parser[op]), tok = 0 => k = 1,
         FixedBefore[op][k] \in Nat,
         FixedBefore[op][k'] = FixedBefore[op][k] + FixedWidth(NextTok.kind)
  PROVE  /\ Parsed'
         /\ tok' = tok + 1
         /\ tok' = Len(fields')
         /\ loc' = At(tok)'
         /\ loc' = (FixedBefore[op][k] + Varying(wire)[tok])'
         /\ loc' <= length
<1>1. /\ tok \in Nat /\ Len(wire) \in Nat /\ loc \in Nat /\ length \in Nat
      /\ NextTok \in AnyToken /\ IsToken(NextTok) /\ NextTok.width \in Nat
      /\ At(tok + 1) = loc + NextTok.width
  BY NextToken, ZenonT(20)
<1>2. MayTake(<<NextTok>>, 1)
  <2>1. <<NextTok>> \in Seq(AnyToken) /\ Len(<<NextTok>>) = 1 /\ <<NextTok>>[1] = NextTok
    BY <1>1
  <2>2. \A j \in 1..1 : <<NextTok>>[j] = wire[tok + j] /\ <<NextTok>>[j].kind # "checksum"
    BY <2>1 DEF NextTok
  <2>3. At(tok + 1) <= length
    BY <1>1 DEF Whole, Remaining
  <2>4. k = 1 <=> tok = 0
    BY DEF InParser
  <2>. QED BY <1>1, <2>1, <2>2, <2>3, <2>4 DEF MayTake, InParser
<1>3. Parsed' /\ tok' = tok + 1 /\ tok' = Len(fields') /\ loc' = At(tok)'
  BY <1>2, Taken
<1>4. op' = op /\ wire' = wire
  BY SMTT(30) DEF Take
<1>5. loc' = loc + NextTok.width
  BY <1>1, <1>3, <1>4 DEF At
<1>6. tok + 1 \in 1..Len(wire) /\ (tok + 1) - 1 = tok /\ tok \in 0..Len(wire)
  BY <1>1
<1>7. /\ Varying(wire)[tok + 1] = Varying(wire)[tok] + (NextTok.width - FixedWidth(NextTok.kind))
      /\ Varying(wire)[tok] \in Nat
  BY <1>6, VaryingFacts, SMTT(30) DEF NextTok
<1>8. loc = FixedBefore[op][k] + Varying(wire)[tok]
  BY DEF InParser
<1>9. FixedWidth(NextTok.kind) \in Nat
  BY ZenonT(20) DEF FixedWidth
<1>10. loc' = FixedBefore[op][k'] + Varying(wire)[tok + 1]
  BY <1>1, <1>5, <1>7, <1>8, <1>9, SMTT(30)
<1>11. loc' <= length
  BY <1>1, <1>5 DEF Whole, Remaining
<1>. QED BY <1>3, <1>4, <1>10, <1>11, ZenonT(20)

(* A token that fits an item is what the parser takes it for, and its fixed *)
(* part is that of the item.                                                *)
LEMMA FittingToken ==
  ASSUME NEW t, NEW item \in PlainItems, Fits(t, item)
  PROVE  /\ t.kind # "checksum"
         /\ FixedWidth(t.kind) = FixedItem(item)
         /\ KindOf(t) = IF item = "reserved" THEN "int32"
                        ELSE IF item \in {"doc?", "docs"} THEN "doc" ELSE item
BY ZenonT(20) DEF PlainItems, Fits, DocKinds, FixedWidth, FixedItem, KindOf

(* What the tables say of item i of a plain message.                       *)
LEMMA PlainNext ==
  ASSUME NEW i \in 1..Items, op \in Ops, op # "OP_MSG"
  PROVE  /\ Items \in Nat \ 0..1 /\ Len(parser[op]) = Items
         /\ Format[op][i] \in PlainItems
         /\ parser[op][i] = IF Format[op][i] = "reserved" THEN "int32" ELSE Format[op][i]
         /\ Format[op][i] \in {"docs", "doc?"} => i = Items
         /\ FixedBefore[op][i] \in Nat
         /\ FixedBefore[op][i + 1] = FixedBefore[op][i] + FixedItem(Format[op][i])
BY PlainTables, ZenonT(20) DEF PlainTable, Items

(* Parsing a field of one token of a plain message keeps the invariant.    *)
LEMMA ParseOnePlain ==
  ASSUME WireInv, ParseOne, op # "OP_MSG"
  PROVE  WireInv'
<1>1. /\ op \in Ops /\ Tokens /\ InParser /\ pc = "parse" /\ PlainShape /\ PlainWhole /\ PlainPlace
      /\ k <= Len(parser[op])
  BY SMTT(30) DEF WireInv, ParseOne, Parsing, InParser, WellFormed
<1>2. Items \in Nat \ 0..1 /\ Len(parser[op]) = Items
  BY <1>1, PlainTables DEF PlainTable, Items
<1>3. k \in 1..Items /\ k \in Nat
  BY <1>1, <1>2 DEF PlainPlace
<1>4. /\ Format[op][k] \in PlainItems
      /\ parser[op][k] = IF Format[op][k] = "reserved" THEN "int32" ELSE Format[op][k]
      /\ Format[op][k] \in {"docs", "doc?"} => k = Items
      /\ FixedBefore[op][k] \in Nat
      /\ FixedBefore[op][k + 1] = FixedBefore[op][k] + FixedItem(Format[op][k])
  BY <1>1, <1>3, PlainNext
<1>5. /\ tok \in Nat /\ Len(wire) \in Nat /\ tok <= Len(wire) /\ loc \in Nat /\ length \in Nat
      /\ loc <= length /\ length <= At(Len(wire)) /\ At(Len(wire)) \in Nat
      /\ tok < Len(wire) \/ Remaining = 0
  BY <1>1, NextToken, ZenonT(20)
<1>6. Format[op][k] # "docs"
  BY <1>4 DEF ParseOne, Item
<1>7. tok = k - 1
  BY <1>3, <1>4, <1>1, <1>6 DEF PlainPlace
<1>8. tok < Len(wire)
  <2>1. CASE Format[op][k] = "doc?"
    <3>1. Remaining > 0
      BY <1>4, <2>1 DEF ParseOne, Item
    <3>. QED BY <1>5, <3>1, SMTT(30) DEF Remaining
  <2>2. CASE Format[op][k] # "doc?" /\ k = Items
    BY <1>1, <1>2, <1>5, <1>6, <1>7, <2>2, SMTT(30) DEF PlainWhole
  <2>3. CASE k < Items
    BY <1>1, <1>2, <1>3, <1>5, <1>7, <2>3, SMTT(30) DEF PlainWhole
  <2>. QED BY <1>2, <1>3, <2>1, <2>2, <2>3
<1>9. Fits(NextTok, Format[op][k])
  <2>1. k \in 1..Len(wire) /\ tok + 1 = k /\ k <= Items
    BY <1>2, <1>3, <1>5, <1>7, <1>8, SMTT(30)
  <2>. QED BY <1>1, <2>1 DEF PlainShape, NextTok
<1>10. /\ NextTok.kind # "checksum"
       /\ FixedWidth(NextTok.kind) = FixedItem(Format[op][k])
       /\ KindOf(NextTok) = IF Item = "doc?" THEN "doc" ELSE Item
  BY <1>4, <1>6, <1>9, FittingToken DEF Item
<1>11. CASE Remaining = 0 \/ ~Whole(NextTok)
  <2>1. Refuse
    BY <1>11 DEF ParseOne
  <2>2. length < At(Len(wire))
    BY <1>1, <1>8, <1>11, ShortBody
  <2>. QED BY <2>1, <2>2, RefuseStep
<1>12. CASE ~(Remaining = 0 \/ ~Whole(NextTok))
  <2>1. Take(<<NextTok>>) /\ k' = k + 1 /\ left' = left
    BY <1>10, <1>12, ZenonT(20) DEF ParseOne
  <2>2. FixedBefore[op][k'] = FixedBefore[op][k] + FixedWidth(NextTok.kind)
    BY <1>4, <1>10, <2>1
  <2>3. tok = 0 => k = 1
    BY <1>3, <1>7
  <2>4. /\ Parsed' /\ tok' = tok + 1 /\ tok' = Len(fields') /\ loc' = At(tok)'
        /\ loc' = (FixedBefore[op][k] + Varying(wire)[tok])' /\ loc' <= length
    BY <1>1, <1>2, <1>3, <1>4, <1>8, <1>10, <1>12, <2>1, <2>2, <2>3, OneTaken, ZenonT(20)
  <2>5. op' = op /\ wire' = wire /\ pc' = pc /\ length' = length
    BY <2>1, ZenonT(20) DEF Take
  <2>6. Tokens' /\ WellFormed'
    BY <1>1, <2>5, Frame, SMTT(30) DEF InParser
  <2>7. k' = Items + 1 => loc' = length'
    <3>1. SUFFICES ASSUME k' = Items + 1 PROVE loc' = length
      BY <2>5, ZenonT(20)
    <3>2. tok' = Len(wire)
      BY <1>1, <1>2, <1>3, <1>5, <1>6, <1>7, <1>8, <2>1, <2>4, <3>1, SMTT(30) DEF PlainWhole
    <3>3. loc' = At(Len(wire))
      BY <2>4, <2>5, <3>2, ZenonT(20) DEF At
    <3>. QED BY <1>5, <2>4, <3>3
  <2>8. PlainPlace'
    <3>1. Items' = Items /\ k' \in 1..Items + 1 /\ tok' = k' - 1 /\ tok' >= k' - 1
      BY <1>2, <1>3, <1>5, <1>7, <2>1, <2>4, <2>5 DEF Items
    <3>. QED BY <2>5, <2>7, <3>1, ZenonT(20) DEF PlainPlace
  <2>9. k' # 1
    BY <1>3, <2>1
  <2>10. InParser'
    BY <2>4, <2>5, <2>6, <2>8, <2>9 DEF InParser
  <2>. QED BY <1>1, <2>5, <2>6, <2>10, ZenonT(20) DEF WireInv
<1>. QED BY <1>11, <1>12

(* The flags of OP_MSG. *)
LEMMA ParseOneMsg ==
  ASSUME WireInv, ParseOne, op = "OP_MSG"
  PROVE  WireInv'
<1>1. /\ op \in Ops /\ Tokens /\ InParser /\ pc = "parse" /\ MsgShape /\ MsgPlace /\ MsgTable(op)
      /\ k <= Len(parser[op])
  BY MsgTables, ZenonT(20) DEF WireInv, ParseOne, Parsing, InParser, WellFormed
<1>2. k = 1 /\ Item = "int32"
  BY <1>1 DEF MsgTable, MsgPlace, ParseOne, Item
<1>3. tok = 0 /\ left = 0 /\ tok < Len(wire) /\ NextTok.kind = "int32" /\ Run(1, 2)
  <2>1. tok = 0 /\ left = 0
    BY <1>1, <1>2 DEF MsgPlace
  <2>2. Len(wire) \in Nat
    BY <1>1, NextToken
  <2>. QED BY <1>1, <2>1, <2>2 DEF MsgShape, NextTok
<1>4. CASE Remaining = 0 \/ ~Whole(NextTok)
  <2>1. Refuse
    BY <1>4 DEF ParseOne
  <2>2. length < At(Len(wire))
    BY <1>1, <1>3, <1>4, ShortBody, ZenonT(20)
  <2>. QED BY <2>1, <2>2, RefuseStep
<1>5. CASE ~(Remaining = 0 \/ ~Whole(NextTok))
  <2>1. Take(<<NextTok>>) /\ k' = 2 /\ left' = 0
    BY <1>2, <1>3, <1>5 DEF ParseOne, KindOf
  <2>2. /\ FixedBefore[op][k] \in Nat /\ k \in Nat /\ k \in 1..Len(parser[op])
        /\ FixedBefore[op][k'] = FixedBefore[op][k] + FixedWidth(NextTok.kind)
    BY <1>1, <1>2, <1>3, <2>1 DEF MsgTable, FixedWidth
  <2>3. /\ Parsed' /\ tok' = tok + 1 /\ tok' = Len(fields') /\ loc' = At(tok)'
        /\ loc' = (FixedBefore[op][k] + Varying(wire)[tok])' /\ loc' <= length
    BY <1>1, <1>2, <1>3, <1>5, <2>1, <2>2, OneTaken, ZenonT(20)
  <2>4. op' = op /\ wire' = wire /\ pc' = pc /\ length' = length
    BY <2>1, ZenonT(20) DEF Take
  <2>5. Tokens' /\ WellFormed' /\ Run(1, 2)'
    BY <1>1, <1>3, <2>4, Frame, ZenonT(20) DEF InParser
  <2>6. MsgPlace'
    <3>1. tok' = 1 /\ wire'[1].kind # "sequence" /\ Len(wire) \in Nat \ {0}
      BY <1>1, <1>3, <2>3, <2>4, NextToken DEF NextTok
    <3>2. At(1) = loc' /\ At(1) \in Nat /\ 2 \in 1..Len(wire) + 1
      <4>1. At(1) = loc'
        BY <2>3, <2>4, <3>1 DEF At
      <4>2. 1 \in 0..Len(wire) /\ 2 \in 1..Len(wire) + 1
        BY <3>1
      <4>. QED BY <1>1, <4>1, <4>2, AtFacts
    <3>3. 0 = At(2 - 1) - At(1) /\ At(2 - 1) <= length
      BY <2>3, <3>2
    <3>. QED BY <2>1, <2>4, <2>5, <3>1, <3>2, <3>3, SMTT(30) DEF MsgPlace, At
  <2>7. InParser'
    BY <1>1, <2>1, <2>3, <2>4, <2>5, <2>6 DEF InParser
  <2>. QED BY <1>1, <2>4, <2>5, <2>7, ZenonT(20) DEF WireInv
<1>. QED BY <1>4, <1>5, ZenonT(20)

(* Parsing one more document of a list keeps the invariant.                *)
LEMMA ParseDocStep ==
  ASSUME WireInv, ParseDoc
  PROVE  WireInv'
<1>1. /\ op \in Ops /\ Tokens /\ InParser /\ pc = "parse" /\ k <= Len(parser[op])
      /\ Item = "docs" /\ Remaining > 0
  BY DEF WireInv, ParseDoc, Parsing
<1>2. op # "OP_MSG"
  BY <1>1, MsgTables DEF MsgTable, Item, InParser, MsgPlace
<1>3. PlainShape /\ PlainWhole /\ PlainPlace
  BY <1>1, <1>2 DEF InParser, WellFormed
<1>4. Items \in Nat \ 0..1 /\ Len(parser[op]) = Items
  BY <1>1, <1>2, PlainTables DEF PlainTable, Items
<1>5. k \in 1..Items /\ k \in Nat
  BY <1>1, <1>3, <1>4, SMTT(30) DEF PlainPlace
<1>6. /\ Format[op][k] \in PlainItems /\ Format[op][k] = "docs" /\ k = Items
      /\ FixedBefore[op][k] \in Nat
  BY <1>1, <1>2, <1>5, PlainNext DEF Item
<1>7. tok >= k - 1
  BY <1>1, <1>3, <1>4, <1>5 DEF PlainPlace, Item
<1>8. /\ tok \in Nat /\ Len(wire) \in Nat /\ loc \in Nat /\ length \in Nat /\ tok < Len(wire)
  BY <1>1, NextToken DEF Remaining
<1>9. Fits(NextTok, "docs")
  <2>1. tok + 1 \in 1..Len(wire) /\ (IF tok + 1 <= Items THEN tok + 1 ELSE Items) = k
    BY <1>4, <1>5, <1>6, <1>7, <1>8
  <2>2. Fits(wire[tok + 1], Format[op][IF tok + 1 <= Items THEN tok + 1 ELSE Items])
    BY <1>3, <2>1 DEF PlainShape
  <2>. QED BY <1>6, <2>1, <2>2 DEF NextTok
<1>10. NextTok.kind # "checksum" /\ FixedWidth(NextTok.kind) = 0
  BY <1>9 DEF Fits, DocKinds, FixedWidth
<1>11. CASE ~Whole(NextTok)
  <2>1. Refuse
    BY <1>11 DEF ParseDoc
  <2>2. length < At(Len(wire))
    BY <1>1, <1>8, <1>11, ShortBody, ZenonT(20)
  <2>. QED BY <2>1, <2>2, RefuseStep
<1>12. CASE Whole(NextTok)
  <2>1. Take(<<NextTok>>) /\ k' = k /\ left' = left
    BY <1>12 DEF ParseDoc
  <2>2. FixedBefore[op][k'] = FixedBefore[op][k] + FixedWidth(NextTok.kind)
    BY <1>6, <1>10, <2>1
  <2>3. tok = 0 => k = 1
    BY <1>5, <1>7
  <2>4. /\ Parsed' /\ tok' = tok + 1 /\ tok' = Len(fields') /\ loc' = At(tok)'
        /\ loc' = (FixedBefore[op][k] + Varying(wire)[tok])' /\ loc' <= length
    BY <1>1, <1>4, <1>5, <1>6, <1>8, <1>10, <1>12, <2>1, <2>2, <2>3, OneTaken, ZenonT(20)
  <2>5. op' = op /\ wire' = wire /\ pc' = pc /\ length' = length
    BY <2>1, ZenonT(20) DEF Take
  <2>6. Tokens' /\ WellFormed'
    BY <1>1, <2>5, Frame, ZenonT(20) DEF InParser
  <2>7. PlainPlace'
    <3>1. Items' = Items /\ k' \in 1..Items + 1 /\ k' # Items + 1 /\ tok' >= k' - 1
      BY <1>4, <1>5, <1>7, <1>8, <2>1, <2>4, <2>5, SMTT(30) DEF Items
    <3>2. parser[op][k] = "docs"
      BY <1>1 DEF Item
    <3>. QED BY <2>1, <2>5, <3>1, <3>2, ZenonT(20) DEF PlainPlace
  <2>8. k' # 1
    BY <1>4, <1>6, <2>1
  <2>9. InParser'
    BY <1>2, <2>4, <2>5, <2>6, <2>7, <2>8, ZenonT(20) DEF InParser
  <2>. QED BY <1>1, <2>5, <2>6, <2>9 DEF WireInv
<1>. QED BY <1>11, <1>12

(* Leaving a list of documents or an optional document that is not there   *)
(* keeps the invariant.                                                    *)
LEMMA ParseEndsStep ==
  ASSUME WireInv, ParseEnds
  PROVE  WireInv'
<1>1. /\ op \in Ops /\ Tokens /\ InParser /\ pc = "parse" /\ k <= Len(parser[op])
      /\ Item \in {"docs", "doc?"} /\ Remaining = 0
      /\ op' = op /\ wire' = wire /\ length' = length /\ pc' = pc /\ tok' = tok /\ loc' = loc
      /\ left' = left /\ fields' = fields /\ k' = k + 1
  BY ZenonT(20) DEF WireInv, ParseEnds, Parsing
<1>2. op # "OP_MSG"
  BY <1>1, MsgTables, SMTT(30) DEF MsgTable, Item, InParser, MsgPlace
<1>3. PlainPlace
  BY <1>1, <1>2, ZenonT(20) DEF InParser
<1>4. Items \in Nat \ 0..1 /\ Len(parser[op]) = Items
  BY <1>1, <1>2, PlainTables DEF PlainTable, Items
<1>5. k \in 1..Items /\ k \in Nat
  BY <1>1, <1>3, <1>4 DEF PlainPlace
<1>6. /\ Format[op][k] \in {"docs", "doc?"} /\ k = Items /\ FixedBefore[op][k] \in Nat
      /\ FixedBefore[op][k + 1] = FixedBefore[op][k] + FixedItem(Format[op][k])
  BY <1>1, <1>2, <1>5, PlainNext, ZenonT(20) DEF Item
<1>7. FixedBefore[op][k'] = FixedBefore[op][k]
  BY <1>1, <1>6 DEF FixedItem
<1>8. Tokens' /\ WellFormed'
  BY <1>1, Frame DEF InParser
<1>9. loc = length
  BY <1>1, NextToken DEF Remaining
<1>10. PlainPlace'
  <2>1. Items' = Items /\ k' = Items + 1 /\ k' \in 1..Items + 1 /\ ~(k' <= Items)
    BY <1>1, <1>4, <1>6 DEF Items
  <2>. QED BY <1>1, <1>9, <2>1, ZenonT(20) DEF PlainPlace
<1>11. Parsed'
  BY <1>1, ZenonT(20) DEF InParser, Parsed, At
<1>12. k' # 1
  BY <1>1, <1>5
<1>13. InParser'
  BY <1>1, <1>2, <1>7, <1>8, <1>10, <1>11, <1>12, ZenonT(20) DEF InParser, At
<1>. QED BY <1>1, <1>8, <1>13 DEF WireInv

-----------------------------------------------------------------------------
(* Parsing sections *)

(* Among the sections, left leads to the end of a run of documents that    *)
(* the body has whole.                                                     *)
LEMMA SectionPlace ==
  ASSUME WireInv, InSections
  PROVE  /\ op \in Ops /\ op = "OP_MSG" /\ MsgTable(op) /\ Tokens /\ InParser /\ pc = "parse"
         /\ k = 2 /\ MsgShape /\ tok >= 1 /\ wire[tok].kind # "sequence"
         /\ \E e \in 1..Len(wire) + 1 : /\ Run(tok, e)
                                        /\ left = At(e - 1) - At(tok)
                                        /\ At(e - 1) <= length
<1>1. op \in Ops /\ Tokens /\ InParser /\ pc = "parse" /\ k <= Len(parser[op]) /\ Item = "sections"
  BY DEF WireInv, InSections, Parsing
<1>2. op = "OP_MSG"
  <2>1. ASSUME op # "OP_MSG" PROVE FALSE
    <3>1. Items \in Nat \ 0..1 /\ Len(parser[op]) = Items /\ PlainPlace
      BY <1>1, <2>1, PlainTables, ZenonT(20) DEF PlainTable, Items, InParser
    <3>2. k \in 1..Items
      BY <1>1, <3>1 DEF PlainPlace
    <3>. QED BY <1>1, <2>1, <3>2, PlainNext, ZenonT(20) DEF Item, PlainItems
  <2>. QED BY <2>1
<1>3. MsgTable(op) /\ MsgShape /\ MsgPlace
  BY <1>1, <1>2, MsgTables, ZenonT(20) DEF InParser, WellFormed
<1>4. k = 2
  BY <1>1, <1>3 DEF MsgTable, MsgPlace, Item
<1>. QED BY <1>1, <1>2, <1>3, <1>4 DEF MsgPlace

(* Between sections, no document follows. *)
LEMMA SectionBoundary ==
  ASSUME WireInv, InSections, left = 0
  PROVE  Run(tok, tok + 1)
<1>1. Tokens /\ InParser
  BY SectionPlace
<1>2. PICK e \in 1..Len(wire) + 1 : Run(tok, e) /\ left = At(e - 1) - At(tok)
  BY SectionPlace
<1>3. tok \in Nat /\ Len(wire) \in Nat /\ tok <= Len(wire)
  BY <1>1, NextToken
<1>4. e - 1 \in 0..Len(wire) /\ tok \in 0..Len(wire) /\ tok <= e - 1 /\ e \in Nat
  BY <1>2, <1>3 DEF Run
<1>5. /\ At(tok) \in Nat /\ At(e - 1) \in Nat
      /\ tok < e - 1 => At(tok) < At(e - 1)
  BY <1>1, <1>4, AtOrder
<1>6. e = tok + 1
  BY <1>2, <1>3, <1>4, <1>5
<1>. QED BY <1>2, <1>6

(* Taking one or two tokens of a section. *)
LEMMA SectionTaken ==
  ASSUME WireInv, InSections, NEW m \in {1, 2}, NEW ts, MayTake(ts, m), Take(ts), k' = k,
         \A j \in 1..m : FixedWidth(wire[tok + j].kind) = 0,
         (MsgPlace)'
  PROVE  WireInv'
<1>1. /\ op \in Ops /\ op = "OP_MSG" /\ MsgTable(op) /\ Tokens /\ InParser /\ pc = "parse"
      /\ k = 2
  BY SectionPlace
<1>2. op' = op /\ wire' = wire /\ pc' = pc /\ length' = length
  BY DEF Take
<1>3. Parsed' /\ tok' = tok + m /\ tok' = Len(fields') /\ loc' = At(tok)'
  BY Taken, ZenonT(20)
<1>4. Tokens' /\ WellFormed'
  BY <1>1, <1>2, Frame, ZenonT(20) DEF InParser
<1>5. tok \in Nat /\ Len(wire) \in Nat /\ tok + m <= Len(wire)
  BY <1>1, NextToken, ZenonT(20) DEF MayTake
<1>6. ASSUME NEW i \in Nat, i < Len(wire), At(i) = 4 + Varying(wire)[i], FixedWidth(wire[i + 1].kind) = 0
      PROVE  At(i + 1) = 4 + Varying(wire)[i + 1]
  <2>1. i + 1 \in 1..Len(wire) /\ (i + 1) - 1 = i /\ i \in 0..Len(wire)
    BY <1>5, <1>6
  <2>2. At(i + 1) = At(i) + wire[i + 1].width /\ wire[i + 1].width \in Nat
    BY <1>1, <2>1, AtFacts, ZenonT(20)
  <2>3. /\ Varying(wire)[i + 1] = Varying(wire)[i] + (wire[i + 1].width - FixedWidth(wire[i + 1].kind))
        /\ Varying(wire)[i] \in Nat
    BY <1>1, <2>1, VaryingFacts, SMTT(30)
  <2>. QED BY <1>6, <2>2, <2>3
<1>7. At(tok) = 4 + Varying(wire)[tok]
  BY <1>1 DEF InParser, MsgTable
<1>8. At(tok + 1) = 4 + Varying(wire)[tok + 1]
  BY <1>5, <1>6, <1>7
<1>9. At(tok + m) = 4 + Varying(wire)[tok + m]
  <2>1. CASE m = 1
    BY <1>8, <2>1
  <2>2. CASE m = 2
    <3>1. tok + 1 \in Nat /\ tok + 1 < Len(wire) /\ (tok + 1) + 1 = tok + m
      BY <1>5, <2>2
    <3>2. FixedWidth(wire[(tok + 1) + 1].kind) = 0
      BY <2>2, <3>1, SMTT(30)
    <3>. QED BY <1>6, <1>8, <3>1, <3>2
  <2>. QED BY <2>1, <2>2
<1>10. loc' = (FixedBefore[op][k] + Varying(wire)[tok])'
  BY <1>1, <1>2, <1>3, <1>9, SMTT(30) DEF MsgTable, At
<1>11. InParser'
  BY <1>1, <1>2, <1>3, <1>4, <1>10, SMTT(30) DEF InParser
<1>. QED BY <1>1, <1>2, <1>4, <1>11, ZenonT(20) DEF WireInv

(* The place after t tokens, with documents up to e. *)
LEMMA PlaceAgain ==
  ASSUME Tokens, op' = op, wire' = wire, length' = length, k' = 2,
         NEW t \in Nat, tok' = t, t >= 1, wire[t].kind # "sequence",
         NEW e \in 1..Len(wire) + 1, Run(t, e), left' = At(e - 1) - At(t), At(e - 1) <= length
  PROVE  MsgPlace'
<1>1. Run(t, e)'
  BY Frame
<1>2. left' = Ends(wire')[e - 1] - Ends(wire')[t] /\ Ends(wire')[e - 1] <= length'
  BY DEF At
<1>. QED BY <1>1, <1>2 DEF MsgPlace, At

(* Two members of a sequence, as its subsequence.                          *)
LEMMA Pair ==
  ASSUME NEW S, NEW s \in Seq(S), NEW i \in Nat, i + 2 <= Len(s)
  PROVE  /\ SubSeq(s, i + 1, i + 2) \in Seq(S)
         /\ Len(SubSeq(s, i + 1, i + 2)) = 2
         /\ SubSeq(s, i + 1, i + 2)[1] = s[i + 1]
         /\ SubSeq(s, i + 1, i + 2)[2] = s[i + 2]
OBVIOUS

(* The two tokens a section begins with. *)
LEMMA HeadTokens ==
  ASSUME WireInv, InSections, tok + 1 < Len(wire), NEW ts, ts = SubSeq(wire, tok + 1, tok + 2)
  PROVE  /\ ts \in Seq(AnyToken) /\ Len(ts) = 2
         /\ ts[1] = wire[tok + 1] /\ ts[2] = wire[tok + 2]
         /\ tok \in Nat /\ Len(wire) \in Nat /\ loc \in Nat /\ length \in Nat
         /\ ts[1].width \in Nat /\ ts[2].width \in Nat
         /\ At(tok + 1) = loc + ts[1].width
         /\ At(tok + 2) = loc + ts[1].width + ts[2].width
         /\ Width(ts) = ts[1].width + ts[2].width
<1>1. Tokens /\ InParser
  BY SectionPlace, ZenonT(20)
<1>2. /\ tok \in Nat /\ Len(wire) \in Nat /\ loc \in Nat /\ length \in Nat
      /\ At(tok + 1) = loc + wire[tok + 1].width
  BY <1>1, NextToken DEF NextTok
<1>3. /\ wire \in Seq(AnyToken) /\ tok + 1 \in 1..Len(wire) /\ tok + 2 \in 1..Len(wire)
      /\ (tok + 2) - 1 = tok + 1
  <2>1. wire \in Seq(AnyToken)
    BY <1>1, ZenonT(20) DEF Tokens
  <2>2. PICK m \in Nat, n \in Nat : m = tok /\ n = Len(wire) /\ m + 1 < n
    BY <1>2, ZenonT(20)
  <2>3. m + 1 \in 1..n /\ m + 2 \in 1..n /\ (m + 2) - 1 = m + 1
    BY <2>2
  <2>. QED BY <2>1, <2>2, <2>3, ZenonT(20)
<1>4. /\ ts \in Seq(AnyToken) /\ Len(ts) = 2
      /\ ts[1] = wire[tok + 1] /\ ts[2] = wire[tok + 2]
  <2>1. tok + 2 <= Len(wire)
    BY <1>2, <1>3
  <2>. QED BY <1>2, <1>3, <2>1, Pair, ZenonT(20)
<1>5. /\ At(tok + 2) = At(tok + 1) + wire[tok + 2].width
      /\ wire[tok + 2].width \in Nat /\ wire[tok + 1].width \in Nat
  BY <1>1, <1>3, AtFacts, ZenonT(20)
<1>6. Width(ts) = ts[1].width + ts[2].width
  <2>1. HasWidths(ts)
    BY <1>4, TokenWidths, ZenonT(20)
  <2>2. Ends(ts)[0] = 0 /\ \A i \in 1..2 : Ends(ts)[i] = Ends(ts)[i - 1] + ts[i].width
    BY <1>4, <2>1, EndsFacts, ZenonT(20)
  <2>3. PICK f : f = Ends(ts)
    OBVIOUS
  <2>4. PICK a \in Nat, b \in Nat : a = ts[1].width /\ b = ts[2].width
    BY <1>4, <1>5, ZenonT(20)
  <2>5. f[1] = f[0] + a /\ f[2] = f[1] + b /\ f[0] = 0
    <3>1. 1 \in 1..2 /\ 2 \in 1..2 /\ 1 - 1 = 0 /\ 2 - 1 = 1
      OBVIOUS
    <3>. QED BY <2>2, <2>3, <2>4, <3>1, ZenonT(20)
  <2>6. f[2] = a + b
    BY <2>5
  <2>. QED BY <1>4, <2>3, <2>4, <2>6, ZenonT(20) DEF Width
<1>. QED BY <1>2, <1>4, <1>5, <1>6

(* Parsing a body section keeps the invariant.                             *)
LEMMA ParseBodyStep ==
  ASSUME WireInv, parseBodySection
  PROVE  WireInv'
<1>1. InSections /\ left = 0 /\ Remaining >= 5 /\ NextTok.kind = "body"
  BY DEF parseBodySection
<1>2. /\ op = "OP_MSG" /\ MsgTable(op) /\ Tokens /\ InParser /\ k = 2 /\ MsgShape /\ tok >= 1
  BY <1>1, SectionPlace
<1>3. tok \in Nat /\ Len(wire) \in Nat /\ tok < Len(wire) /\ At(Len(wire)) \in Nat
  BY <1>1, <1>2, NextToken DEF Remaining
<1>4. tok + 1 < Len(wire) /\ wire[tok + 2].kind \in DocKinds /\ Run(tok + 2, tok + 3)
  <2>1. tok + 1 \in 1..Len(wire) /\ (tok + 1) + 1 = tok + 2 /\ (tok + 1) + 2 = tok + 3
    BY <1>3
  <2>2. HeadShape(tok + 1)
    BY <1>2, <2>1 DEF MsgShape
  <2>. QED BY <1>1, <2>1, <2>2 DEF HeadShape, NextTok
<1>5. PICK ts : ts = SubSeq(wire, tok + 1, tok + 2)
  BY Zenon
<1>6. /\ ts \in Seq(AnyToken) /\ Len(ts) = 2
      /\ ts[1] = wire[tok + 1] /\ ts[2] = wire[tok + 2]
      /\ loc \in Nat /\ length \in Nat
      /\ ts[1].width \in Nat /\ ts[2].width \in Nat
      /\ At(tok + 2) = loc + ts[1].width + ts[2].width
      /\ Width(ts) = ts[1].width + ts[2].width
  BY <1>1, <1>4, <1>5, HeadTokens, ZenonT(20)
<1>7. At(tok + 2) \in Nat /\ At(tok + 2) <= At(Len(wire))
  <2>1. tok + 2 \in 0..Len(wire) /\ Len(wire) \in 0..Len(wire) /\ tok + 2 <= Len(wire)
    BY <1>3, <1>4
  <2>. QED BY <1>2, <2>1, AtOrder
<1>8. CASE Width(ts) > Remaining
  <2>1. Refuse
    BY <1>5, <1>8, ZenonT(20) DEF parseBodySection
  <2>2. length < At(Len(wire))
    <3>1. length < At(tok + 2)
      <4>1. PICK a \in Nat, b \in Nat : a = ts[1].width /\ b = ts[2].width
        BY <1>6, ZenonT(20)
      <4>2. At(tok + 2) = loc + a + b /\ a + b > length - loc
        BY <1>6, <1>8, <4>1 DEF Remaining
      <4>. QED BY <1>6, <4>2
    <3>. QED BY <1>3, <1>6, <1>7, <3>1, SMTT(30)
  <2>. QED BY <2>1, <2>2, RefuseStep
<1>9. CASE ~(Width(ts) > Remaining)
  <2>1. Take(ts) /\ k' = k /\ left' = 0
    BY <1>1, <1>5, <1>9 DEF parseBodySection
  <2>2. At(tok + 2) <= length
    BY <1>6, <1>9, SMTT(30) DEF Remaining
  <2>3. MayTake(ts, 2)
    <3>1. \A j \in 1..2 : ts[j] = wire[tok + j] /\ ts[j].kind # "checksum"
      BY <1>1, <1>4, <1>6, SMTT(30) DEF NextTok, DocKinds
    <3>2. k \in Nat /\ k \in 1..Len(parser[op]) /\ k # 1 /\ tok # 0 /\ tok + 2 <= Len(wire)
      BY <1>2, <1>3, <1>4 DEF MsgTable
    <3>. QED BY <1>2, <1>6, <2>2, <3>1, <3>2, SMTT(30) DEF MayTake, InParser
  <2>4. \A j \in 1..2 : FixedWidth(wire[tok + j].kind) = 0
    BY <1>1, <1>4 DEF NextTok, FixedWidth, DocKinds
  <2>5. tok' = tok + 2 /\ op' = op /\ wire' = wire /\ length' = length
    BY <1>6, <2>1, ZenonT(20) DEF Take
  <2>6. MsgPlace'
    <3>1. PICK t \in Nat, e \in Nat : t = tok + 2 /\ e = tok + 3
      BY <1>3
    <3>2. t >= 1 /\ e \in 1..Len(wire) + 1 /\ e - 1 = t /\ wire[t].kind # "sequence"
      BY <1>3, <1>4, <3>1 DEF DocKinds
    <3>3. left' = At(e - 1) - At(t) /\ At(e - 1) <= length
      BY <1>7, <2>1, <2>2, <3>1, <3>2
    <3>. QED BY <1>2, <1>4, <2>1, <2>5, <3>1, <3>2, <3>3, PlaceAgain, ZenonT(20)
  <2>. QED BY <1>1, <2>1, <2>3, <2>4, <2>6, SectionTaken
<1>. QED BY <1>8, <1>9

(* Parsing the head of a document sequence keeps the invariant: its size   *)
(* leads to the next section.                                              *)
LEMMA ParseHeadStep ==
  ASSUME WireInv, parseSequenceHead
  PROVE  WireInv'
<1>1. InSections /\ left = 0 /\ Remaining >= 5 /\ NextTok.kind = "sequence"
  BY DEF parseSequenceHead
<1>2. /\ op = "OP_MSG" /\ MsgTable(op) /\ Tokens /\ InParser /\ k = 2 /\ MsgShape /\ tok >= 1
  BY <1>1, SectionPlace
<1>3. /\ tok \in Nat /\ Len(wire) \in Nat /\ tok < Len(wire) /\ At(Len(wire)) \in Nat
      /\ NextTok \in AnyToken
  BY <1>1, <1>2, NextToken DEF Remaining
<1>4. NextTok.width = 5 /\ NextTok.size \in Nat
  BY <1>1, <1>3, ZenonT(20) DEF AnyToken
<1>5. PICK e \in 1..Len(wire) + 1 :
        /\ tok + 1 < Len(wire) /\ wire[tok + 2].kind = "cstring" /\ Run(tok + 2, e)
        /\ NextTok.size = 4 + At(e - 1) - At(tok + 1)
  <2>1. tok + 1 \in 1..Len(wire) /\ (tok + 1) + 1 = tok + 2
    BY <1>3
  <2>2. HeadShape(tok + 1)
    BY <1>2, <2>1 DEF MsgShape
  <2>. QED BY <1>1, <2>1, <2>2 DEF HeadShape, NextTok
<1>6. PICK ts : ts = SubSeq(wire, tok + 1, tok + 2)
  BY Zenon
<1>7. /\ ts \in Seq(AnyToken) /\ Len(ts) = 2
      /\ ts[1] = wire[tok + 1] /\ ts[2] = wire[tok + 2]
      /\ loc \in Nat /\ length \in Nat
      /\ ts[1].width \in Nat /\ ts[2].width \in Nat
      /\ At(tok + 1) = loc + ts[1].width
      /\ At(tok + 2) = loc + ts[1].width + ts[2].width
  BY <1>1, <1>5, <1>6, HeadTokens, ZenonT(20)
<1>8. PICK w \in Nat : w = ts[2].width /\ At(tok + 1) = loc + 5 /\ At(tok + 2) = loc + 5 + w
  BY <1>4, <1>7, ZenonT(20) DEF NextTok
<1>9. e \in Nat /\ e - 1 \in tok + 2..Len(wire) /\ tok + 2 \in 0..Len(wire)
  BY <1>3, <1>5 DEF Run
<1>10. At(e - 1) \in Nat /\ At(tok + 2) <= At(e - 1) /\ At(e - 1) <= At(Len(wire))
  <2>1. /\ e - 1 \in 0..Len(wire) /\ Len(wire) \in 0..Len(wire)
        /\ e - 1 <= Len(wire) /\ tok + 2 <= e - 1
    BY <1>3, <1>9
  <2>. QED BY <1>2, <1>9, <2>1, AtOrder
<1>11. At(e - 1) = loc + 1 + NextTok.size
  <2>1. PICK x \in Nat, z \in Nat : x = At(e - 1) /\ z = NextTok.size
    BY <1>4, <1>10
  <2>2. z = 4 + x - (loc + 5)
    BY <1>5, <1>8, <2>1, ZenonT(20)
  <2>3. x = loc + 1 + z
    BY <1>7, <2>2
  <2>. QED BY <2>1, <2>3
<1>12. CASE NextTok.size > Remaining - 1
  <2>1. Refuse
    BY <1>12 DEF parseSequenceHead
  <2>2. length < At(e - 1)
    BY <1>4, <1>7, <1>11, <1>12, SMTT(30) DEF Remaining
  <2>3. length < At(Len(wire))
    BY <1>3, <1>7, <1>10, <2>2
  <2>. QED BY <2>1, <2>3, RefuseStep
<1>13. CASE ~(NextTok.size > Remaining - 1)
  <2>1. Take(ts) /\ k' = k /\ left' = NextTok.size - 4 - w
    BY <1>6, <1>8, <1>13, ZenonT(20) DEF parseSequenceHead
  <2>2. At(e - 1) <= length
    BY <1>4, <1>7, <1>11, <1>13, SMTT(30) DEF Remaining
  <2>3. MayTake(ts, 2)
    <3>1. \A j \in 1..2 : ts[j] = wire[tok + j] /\ ts[j].kind # "checksum"
      BY <1>1, <1>5, <1>7, SMTT(30) DEF NextTok
    <3>2. k \in Nat /\ k \in 1..Len(parser[op]) /\ k # 1 /\ tok # 0 /\ tok + 2 <= Len(wire)
      BY <1>2, <1>3, <1>5, SMTT(30) DEF MsgTable
    <3>3. At(tok + 2) <= length
      BY <1>7, <1>8, <1>10, <2>2, SMTT(30)
    <3>. QED BY <1>2, <1>7, <3>1, <3>2, <3>3, SMTT(30) DEF MayTake, InParser
  <2>4. \A j \in 1..2 : FixedWidth(wire[tok + j].kind) = 0
    BY <1>1, <1>5 DEF NextTok, FixedWidth
  <2>5. tok' = tok + 2 /\ op' = op /\ wire' = wire /\ length' = length
    BY <1>7, <2>1, ZenonT(20) DEF Take
  <2>6. MsgPlace'
    <3>1. PICK t \in Nat : t = tok + 2
      BY <1>3
    <3>2. t >= 1 /\ wire[t].kind # "sequence" /\ Run(t, e)
      BY <1>3, <1>5, <3>1, SMTT(30)
    <3>3. left' = At(e - 1) - At(t)
      <4>1. PICK z \in Nat : z = NextTok.size
        BY <1>4
      <4>2. (loc + 1 + z) - (loc + 5 + w) = z - 4 - w
        BY <1>7
      <4>. QED BY <1>8, <1>11, <2>1, <3>1, <4>1, <4>2
    <3>. QED BY <1>2, <2>1, <2>2, <2>5, <3>1, <3>2, <3>3, PlaceAgain, ZenonT(20)
  <2>. QED BY <1>1, <2>1, <2>3, <2>4, <2>6, SectionTaken, ZenonT(20)
<1>. QED BY <1>12, <1>13

(* Parsing a document of a document sequence keeps the invariant.          *)
LEMMA ParseSequenceDocStep ==
  ASSUME WireInv, parseSequenceDoc
  PROVE  WireInv'
<1>1. InSections /\ left > 0
  BY DEF parseSequenceDoc
<1>2. /\ op = "OP_MSG" /\ MsgTable(op) /\ Tokens /\ InParser /\ k = 2 /\ MsgShape /\ tok >= 1
  BY <1>1, SectionPlace
<1>3. PICK e \in 1..Len(wire) + 1 : Run(tok, e) /\ left = At(e - 1) - At(tok) /\ At(e - 1) <= length
  BY <1>1, SectionPlace, ZenonT(20)
<1>4. /\ tok \in Nat /\ Len(wire) \in Nat /\ tok <= Len(wire) /\ loc \in Nat /\ length \in Nat
      /\ loc = At(tok)
  BY <1>2, NextToken, ZenonT(20) DEF InParser
<1>5. e \in Nat /\ e - 1 \in tok..Len(wire) /\ e - 1 \in 0..Len(wire)
  BY <1>3, <1>4 DEF Run
<1>6. At(e - 1) \in Nat /\ tok < e - 1
  <2>1. At(e - 1) \in Nat
    BY <1>2, <1>5, AtFacts, ZenonT(20)
  <2>2. tok # e - 1
    BY <1>1, <1>3, <1>4, <2>1, SMTT(30)
  <2>. QED BY <1>4, <1>5, <2>1, <2>2
<1>7. tok < Len(wire) /\ NextTok.kind \in DocKinds
  <2>1. tok < Len(wire) /\ tok + 1 \in tok + 1..e - 1
    BY <1>4, <1>5, <1>6
  <2>. QED BY <1>3, <2>1 DEF Run, NextTok
<1>8. /\ NextTok \in AnyToken /\ NextTok.width \in Nat \ {0} /\ At(tok + 1) = loc + NextTok.width
  BY <1>2, <1>7, NextToken
<1>9. At(tok + 1) <= At(e - 1)
  <2>1. tok + 1 \in 0..Len(wire) /\ tok + 1 <= e - 1
    BY <1>4, <1>5, <1>6, SMTT(30)
  <2>. QED BY <1>2, <1>5, <2>1, AtOrder
<1>10. Whole(NextTok) /\ ~(left < NextTok.width)
  BY <1>3, <1>4, <1>6, <1>8, <1>9, SMTT(30) DEF Whole, Remaining
<1>11. Take(<<NextTok>>) /\ k' = k /\ left' = left - NextTok.width
  BY <1>10 DEF parseSequenceDoc
<1>12. MayTake(<<NextTok>>, 1)
  <2>1. <<NextTok>> \in Seq(AnyToken) /\ Len(<<NextTok>>) = 1 /\ <<NextTok>>[1] = NextTok
    BY <1>8
  <2>2. \A j \in 1..1 : <<NextTok>>[j] = wire[tok + j] /\ <<NextTok>>[j].kind # "checksum"
    BY <1>7, <2>1, SMTT(30) DEF NextTok, DocKinds
  <2>3. k \in Nat /\ k \in 1..Len(parser[op]) /\ k # 1 /\ tok # 0 /\ tok + 1 <= Len(wire)
    BY <1>2, <1>4, <1>7 DEF MsgTable
  <2>4. At(tok + 1) <= length
    BY <1>3, <1>4, <1>6, <1>8, <1>9, SMTT(30)
  <2>. QED BY <1>2, <2>1, <2>2, <2>3, <2>4, ZenonT(20) DEF MayTake, InParser
<1>13. \A j \in 1..1 : FixedWidth(wire[tok + j].kind) = 0
  BY <1>7 DEF NextTok, FixedWidth, DocKinds
<1>14. tok' = tok + 1 /\ op' = op /\ wire' = wire /\ length' = length
  BY <1>11, ZenonT(20) DEF Take
<1>15. MsgPlace'
  <2>1. PICK t \in Nat : t = tok + 1
    BY <1>4
  <2>2. t >= 1 /\ wire[t].kind # "sequence"
    BY <1>4, <1>7, <2>1, SMTT(30) DEF NextTok, DocKinds
  <2>3. Run(t, e)
    BY <1>3, <1>4, <1>5, <1>6, <2>1, SMTT(30) DEF Run
  <2>4. left' = At(e - 1) - At(t)
    <3>1. PICK x \in Nat, y \in Nat : x = At(e - 1) /\ y = NextTok.width
      BY <1>6, <1>8
    <3>2. (x - loc) - y = x - (loc + y)
      BY <1>4
    <3>. QED BY <1>3, <1>4, <1>8, <1>11, <2>1, <3>1, <3>2, ZenonT(20)
  <2>. QED BY <1>2, <1>3, <1>11, <1>14, <2>1, <2>2, <2>3, <2>4, PlaceAgain, ZenonT(20)
<1>. QED BY <1>1, <1>11, <1>12, <1>13, <1>15, SectionTaken

(* Leaving the sections of an OP_MSG keeps the invariant.                  *)
LEMMA ParseSectionsEndStep ==
  ASSUME WireInv, ParseSectionsEnd
  PROVE  WireInv'
<1>1. /\ InSections /\ left = 0 /\ Remaining < 5
      /\ op' = op /\ wire' = wire /\ length' = length /\ pc' = pc /\ tok' = tok /\ loc' = loc
      /\ left' = left /\ fields' = fields /\ k' = k + 1
  BY ZenonT(20) DEF ParseSectionsEnd
<1>2. /\ op \in Ops /\ op = "OP_MSG" /\ MsgTable(op) /\ Tokens /\ InParser /\ pc = "parse" /\ k = 2
      /\ tok >= 1 /\ wire[tok].kind # "sequence"
  BY <1>1, SectionPlace
<1>3. Run(tok, tok + 1)
  BY <1>1, SectionBoundary, ZenonT(20)
<1>4. Tokens' /\ WellFormed'
  BY <1>1, <1>2, Frame, ZenonT(20) DEF InParser
<1>5. MsgPlace'
  BY <1>1, <1>2, <1>3 DEF MsgPlace, AtSection, Run, Remaining
<1>6. Parsed'
  BY <1>1, <1>2, ZenonT(20) DEF InParser, Parsed, At
<1>7. FixedBefore[op][k'] = FixedBefore[op][k]
  BY <1>1, <1>2, SMTT(30) DEF MsgTable
<1>8. InParser'
  BY <1>1, <1>2, <1>4, <1>5, <1>6, <1>7 DEF InParser, At
<1>. QED BY <1>1, <1>2, <1>4, <1>8, ZenonT(20) DEF WireInv

-----------------------------------------------------------------------------
(* Serializing *)

(* A member that none is below is the least.                               *)
LEMMA LeastIs ==
  ASSUME NEW S, S \subseteq Int, NEW e \in S, \A j \in S : e <= j
  PROVE  Least(S) = e
<1>1. Least(S) \in S /\ \A j \in S : Least(S) <= j
  BY ZenonT(20) DEF Least
<1>2. Least(S) \in Int /\ e \in Int /\ Least(S) <= e /\ e <= Least(S)
  BY <1>1, ZenonT(20)
<1>. QED BY <1>2

(* The sizes of the fields i to e - 1. *)
LEMMA FieldSizes ==
  ASSUME Tokens, Parsed, NEW i \in 1..Len(fields), NEW e \in i..Len(fields) + 1
  PROVE  /\ At(e - 1) \in Nat /\ At(i - 1) \in Nat
         /\ Sum([j \in 1..e - i |-> fields[i + j - 1].size]) = At(e - 1) - At(i - 1)
<1>. DEFINE ns == [j \in 1..Len(wire) |-> wire[j].width]
            us == [j \in 1..e - i |-> fields[i + j - 1].size]
<1>1. Len(fields) \in Nat /\ Len(wire) \in Nat /\ Len(fields) <= Len(wire)
  BY DEF Tokens, Parsed
<1>2. /\ i \in Nat /\ e \in Nat /\ e - i \in Nat /\ i - 1 \in Nat
      /\ e - 1 \in 0..Len(wire) /\ i - 1 \in 0..Len(wire)
  BY <1>1
<1>3. \A j \in 1..Len(wire) : wire[j].width \in Nat
  BY AtFacts, ZenonT(20)
<1>4. ASSUME NEW j \in 1..e - i PROVE us[j] = ns[(i - 1) + j] /\ us[j] \in Nat
  <2>1. /\ i + j - 1 \in 1..Len(fields) /\ i + j - 1 \in 1..Len(wire) /\ (i - 1) + j = i + j - 1
    BY <1>1, <1>2
  <2>2. fields[i + j - 1].size = wire[i + j - 1].width
    BY <2>1, ZenonT(20) DEF Parsed
  <2>. QED BY <1>3, <2>1, <2>2, SMTT(30)
<1>5. ns \in Seq(Nat) /\ Len(ns) = Len(wire)
  BY <1>1, <1>3
<1>6. us \in Seq(Nat) /\ Len(us) = e - i
  <2>1. PICK n \in Nat : n = e - i
    BY <1>2
  <2>2. us \in [1..n -> Nat]
    BY <1>4, <2>1, ZenonT(20)
  <2>. HIDE DEF us
  <2>. QED BY <2>1, <2>2
<1>7. Sums(ns) = Ends(wire)
  BY DEF Ends
<1>. HIDE DEF ns, us
<1>8. PICK a \in Nat : a = i - 1
  BY <1>2
<1>9. a + Len(us) <= Len(ns) /\ \A j \in 1..Len(us) : us[j] = ns[a + j]
  BY <1>1, <1>2, <1>4, <1>5, <1>6, <1>8
<1>10. \A j \in 0..Len(us) : Sums(ns)[a + j] = Sums(ns)[a] + Sums(us)[j]
  BY <1>5, <1>6, <1>9, SumsSegment, ZenonT(20)
<1>11. Len(us) \in 0..Len(us) /\ a + Len(us) = e - 1
  BY <1>2, <1>6, <1>8
<1>12. At(e - 1) = At(i - 1) + Sums(us)[Len(us)]
  BY <1>7, <1>8, <1>10, <1>11 DEF At
<1>13. At(e - 1) \in Nat /\ At(i - 1) \in Nat
  BY <1>2, AtFacts, ZenonT(20)
<1>14. Sums(us)[Len(us)] \in Nat
  BY <1>6, <1>11, SumsNat
<1>15. Sum(us) = At(e - 1) - At(i - 1)
  <2>1. PICK x \in Nat, y \in Nat : x = Sums(us)[Len(us)] /\ y = At(i - 1)
    BY <1>13, <1>14
  <2>2. (y + x) - y = x
    OBVIOUS
  <2>. QED BY <1>12, <2>1, <2>2 DEF Sum
<1>. QED BY <1>13, <1>15, ZenonT(20) DEF us

(* A parsed document sequence is as long as its size says: all of its       *)
(* documents were parsed, and nothing else.                                 *)
LEMMA SequenceSizes ==
  ASSUME WireInv, pc = "parse", k > Len(parser[op]),
         NEW i \in 1..Len(fields), fields[i].kind = "sequence"
  PROVE  SequenceSize(i) - 1 = wire[i].size
<1>1. op \in Ops /\ Tokens /\ InParser /\ Parsed
  BY ZenonT(20) DEF WireInv, InParser
<1>2. /\ Len(fields) = tok /\ tok \in Nat /\ Len(wire) \in Nat /\ tok <= Len(wire) /\ i \in 1..Len(wire)
      /\ i \in Nat
  BY <1>1, NextToken, SMTT(30) DEF InParser
<1>3. \A j \in 1..Len(fields) : fields[j].kind = wire[j].kind /\ fields[j].kind # "checksum"
  BY <1>1 DEF Parsed
<1>4. op = "OP_MSG"
  <2>1. ASSUME op # "OP_MSG" PROVE FALSE
    <3>1. PICK item : Fits(wire[i], item) /\ item \in PlainItems
      <4>1. PlainShape /\ Items \in Nat \ 0..1
        BY <1>1, <2>1, PlainTables DEF InParser, WellFormed, PlainTable, Items
      <4>2. PICK n \in 1..Items : n = IF i <= Items THEN i ELSE Items
        BY <1>2, <4>1
      <4>3. Format[op][n] \in PlainItems
        BY <1>1, <2>1, <4>2, PlainNext, ZenonT(20)
      <4>. QED BY <1>2, <4>1, <4>2, <4>3, ZenonT(20) DEF PlainShape
    <3>. QED BY <1>3, <3>1, ZenonT(20) DEF Fits, PlainItems, DocKinds
  <2>. QED BY <2>1, ZenonT(20)
<1>5. MsgTable(op) /\ MsgShape /\ k = 3 /\ AtSection
  BY <1>1, <1>4, MsgTables DEF InParser, WellFormed, MsgPlace, MsgTable
<1>6. HeadShape(i) /\ wire[i].kind = "sequence"
  BY <1>2, <1>3, <1>5, ZenonT(20) DEF MsgShape
<1>7. PICK e \in 1..Len(wire) + 1 :
        /\ i < Len(wire) /\ wire[i + 1].kind = "cstring" /\ Run(i + 1, e)
        /\ wire[i].size = 4 + At(e - 1) - At(i)
  BY <1>6, ZenonT(20) DEF HeadShape
<1>8. e \in i + 2..Len(wire) + 1 /\ e \in Nat
  BY <1>2, <1>7 DEF Run
<1>9. i < tok
  BY <1>2, <1>5, <1>6 DEF AtSection
<1>10. e <= tok + 1
  <2>1. ASSUME e > tok + 1 PROVE FALSE
    <3>1. tok + 1 \in (i + 1) + 1..e - 1 /\ tok + 1 <= Len(wire)
      BY <1>2, <1>8, <1>9, <2>1
    <3>2. wire[tok + 1].kind \in DocKinds
      BY <1>7, <3>1 DEF Run
    <3>3. wire[tok + 1].kind \in HeadKinds \cup {"checksum"}
      BY <1>5, <3>1 DEF AtSection, Run
    <3>. QED BY <3>2, <3>3, ZenonT(20) DEF DocKinds, HeadKinds
  <2>. QED BY <1>2, <1>8, <2>1
<1>. DEFINE Heads == {j \in i+1..Len(fields) : fields[j].kind \in {"body", "sequence"}}
<1>11. Least(Heads \cup {Len(fields) + 1}) = e
  <2>1. Heads \cup {Len(fields) + 1} \subseteq Int
    BY <1>2
  <2>2. e \in Heads \cup {Len(fields) + 1}
    <3>1. CASE e = tok + 1
      BY <1>2, <3>1
    <3>2. CASE e <= tok
      <4>1. e <= Len(wire) /\ e \in i + 1..Len(fields) /\ e \in 1..Len(fields)
        BY <1>2, <1>8, <3>2
      <4>2. wire[e].kind \in {"body", "sequence", "checksum"}
        BY <1>7, <4>1 DEF Run, HeadKinds
      <4>3. fields[e].kind \in {"body", "sequence"}
        BY <1>3, <4>1, <4>2
      <4>. QED BY <4>1, <4>3
    <3>. QED BY <1>2, <1>8, <1>10, <3>1, <3>2
  <2>3. ASSUME NEW j \in Heads \cup {Len(fields) + 1} PROVE e <= j
    <3>1. CASE j = Len(fields) + 1
      BY <1>2, <1>10, <3>1, ZenonT(20)
    <3>2. CASE j \in Heads
      <4>1. j \in i + 1..Len(fields) /\ j \in 1..Len(fields) /\ wire[j].kind \in {"body", "sequence"}
        BY <1>2, <1>3, <3>2
      <4>2. ASSUME j < e PROVE FALSE
        <5>1. j = i + 1 \/ j \in (i + 1) + 1..e - 1
          BY <1>2, <1>8, <4>1, <4>2
        <5>. QED BY <1>7, <4>1, <5>1, ZenonT(20) DEF Run, DocKinds
      <4>. QED BY <1>2, <1>8, <4>1, <4>2
    <3>. QED BY <3>1, <3>2
  <2>. HIDE DEF Heads
  <2>. QED BY <2>1, <2>2, <2>3, LeastIs, ZenonT(20)
<1>12. SequenceSize(i) = Sum([j \in 1..e - i |-> fields[i + j - 1].size])
  BY <1>11, ZenonT(20) DEF SequenceSize
<1>. HIDE DEF Heads
<1>13. /\ At(e - 1) \in Nat /\ At(i - 1) \in Nat
       /\ Sum([j \in 1..e - i |-> fields[i + j - 1].size]) = At(e - 1) - At(i - 1)
  <2>1. e \in i..Len(fields) + 1
    BY <1>2, <1>8, <1>10
  <2>. QED BY <1>1, <2>1, FieldSizes, ZenonT(20)
<1>14. At(i) = At(i - 1) + 5
  <2>1. wire[i] \in AnyToken
    BY <1>1, <1>2 DEF Tokens
  <2>2. wire[i].width = 5
    BY <1>6, <2>1, ZenonT(20) DEF AnyToken
  <2>3. At(i) = At(i - 1) + wire[i].width
    BY <1>1, <1>2, AtFacts
  <2>. QED BY <2>2, <2>3
<1>15. (At(e - 1) - At(i - 1)) - 1 = 4 + At(e - 1) - At(i)
  <2>1. PICK x \in Nat, y \in Nat : x = At(e - 1) /\ y = At(i - 1)
    BY <1>13
  <2>2. (x - y) - 1 = 4 + x - (y + 5)
    OBVIOUS
  <2>. QED BY <1>14, <2>1, <2>2
<1>. QED BY <1>7, <1>12, <1>13, <1>15, ZenonT(20)

(* A section takes five bytes or more. *)
LEMMA SectionWidth ==
  ASSUME Tokens, MsgShape, NEW i \in 1..Len(wire), wire[i].kind \in HeadKinds
  PROVE  At(i - 1) \in Nat /\ At(Len(wire)) \in Nat /\ At(Len(wire)) >= At(i - 1) + 5
<1>1. /\ Len(wire) \in Nat /\ i - 1 \in 0..Len(wire) /\ i \in 0..Len(wire)
      /\ Len(wire) \in 0..Len(wire) /\ wire[i] \in AnyToken
  BY SMTT(30) DEF Tokens
<1>2. PICK a \in Nat, w \in Nat \ {0} : a = At(i - 1) /\ w = wire[i].width /\ At(i) = a + w
  BY <1>1, AtFacts, ZenonT(20)
<1>3. PICK z \in Nat : z = At(Len(wire)) /\ At(i) <= z
  BY <1>1, AtOrder
<1>4. CASE wire[i].kind = "sequence"
  <2>1. w = 5
    BY <1>1, <1>2, <1>4, ZenonT(20) DEF AnyToken
  <2>. QED BY <1>2, <1>3, <2>1
<1>5. CASE wire[i].kind = "body"
  <2>1. i < Len(wire) /\ wire[i + 1].kind \in DocKinds
    BY <1>5 DEF MsgShape, HeadShape
  <2>2. i + 1 \in 1..Len(wire) /\ i + 1 \in 0..Len(wire) /\ (i + 1) - 1 = i
    BY <1>1, <2>1
  <2>3. IsToken(wire[i + 1])
    BY <2>2 DEF Tokens
  <2>4. PICK v \in Nat \ {0} : v = wire[i + 1].width /\ At(i + 1) = At(i) + v
    BY <2>2, AtFacts, ZenonT(20)
  <2>5. v >= 4
    BY <2>1, <2>3, <2>4 DEF IsToken, DocKinds
  <2>6. At(i + 1) <= z
    BY <1>1, <1>3, <2>2, AtOrder
  <2>7. (a + w) + v <= z
    BY <1>2, <2>4, <2>6
  <2>8. z >= a + 5
    BY <2>5, <2>7
  <2>. QED BY <1>2, <1>3, <2>8
<1>. QED BY <1>4, <1>5 DEF HeadKinds

(* What the parsers leave of a body, when they are through. *)
LEMMA LeftOutOnly ==
  ASSUME WireInv, pc = "parse", k > Len(parser[op])
  PROVE  LeftOut
<1>1. op \in Ops /\ Tokens /\ InParser /\ Parsed
  BY ZenonT(20) DEF WireInv, InParser
<1>2. /\ Len(fields) = tok /\ tok \in Nat /\ Len(wire) \in Nat /\ tok <= Len(wire) /\ length \in Nat
      /\ loc \in Nat /\ loc = At(tok)
  BY <1>1, NextToken DEF InParser
<1>3. CASE op # "OP_MSG"
  <2>1. PlainTable(op) /\ PlainPlace
    BY <1>1, <1>3, PlainTables DEF InParser
  <2>2. Items \in Nat /\ Len(parser[op]) = Items
    BY <2>1 DEF PlainTable, Items
  <2>3. loc = length
    BY <2>1, <2>2 DEF PlainPlace
  <2>. QED BY <1>2, <2>3, ZenonT(20) DEF LeftOut
<1>4. CASE op = "OP_MSG"
  <2>1. SUFFICES ASSUME length # At(tok)
                 PROVE  /\ length - At(tok) < 5
                        /\ \/ wire[tok + 1].kind = "checksum"
                           \/ wire[tok + 1].kind \in HeadKinds /\ length < At(Len(wire))
    BY <1>2, <1>4, ZenonT(20) DEF LeftOut
  <2>2. MsgShape /\ MsgPlace /\ k = 3
    <3>1. MsgShape /\ MsgPlace
      BY <1>1, <1>4, ZenonT(20) DEF InParser, WellFormed
    <3>2. k \in 1..3 /\ Len(parser[op]) = 2
      BY <1>4, <3>1, MsgTables DEF MsgPlace, MsgTable
    <3>. QED BY <3>1, <3>2
  <2>3. Run(tok, tok + 1) /\ length - loc < 5
    BY <2>2 DEF MsgPlace, AtSection, Remaining
  <2>4. At(tok) <= length /\ length <= At(Len(wire))
    BY <1>1, <1>2 DEF Parsed
  <2>5. tok + 1 <= Len(wire)
    BY <1>2, <2>1, <2>4
  <2>6. wire[tok + 1].kind \in HeadKinds \cup {"checksum"}
    BY <2>3, <2>5 DEF Run
  <2>7. ASSUME wire[tok + 1].kind \in HeadKinds PROVE length < At(Len(wire))
    <3>1. tok + 1 \in 1..Len(wire) /\ (tok + 1) - 1 = tok
      BY <1>2, <2>5
    <3>2. At(Len(wire)) \in Nat /\ At(Len(wire)) >= At((tok + 1) - 1) + 5
      BY <1>1, <2>2, <2>7, <3>1, SectionWidth, ZenonT(20)
    <3>. QED BY <1>2, <2>3, <3>1, <3>2
  <2>. QED BY <1>2, <2>3, <2>6, <2>7, ZenonT(20)
<1>. QED BY <1>3, <1>4

(* The size that is computed for the message is the size of what was parsed. *)
LEMMA SizeIsRight ==
  ASSUME WireInv, pc = "parse", k > Len(parser[op])
  PROVE  /\ SerializedSize = At(Len(fields))
         /\ Format[op][1] = "reserved" => wire[1].kind = "int32"
         /\ op = "OP_MSG" => wire[1].kind = "int32"
<1>1. op \in Ops /\ Tokens /\ InParser /\ Parsed
  BY ZenonT(20) DEF WireInv, InParser
<1>2. /\ Len(fields) = tok /\ tok \in Nat /\ Len(wire) \in Nat /\ tok <= Len(wire) /\ length \in Nat
      /\ loc \in Nat /\ loc = At(tok) /\ loc = FixedBefore[op][k] + Varying(wire)[tok]
  BY <1>1, NextToken DEF InParser
<1>3. FixedBefore[op][k] = Serialize[op].fixed
  <2>1. CASE op = "OP_MSG"
    BY <1>1, <2>1, MsgTables DEF InParser, MsgPlace, MsgTable
  <2>2. CASE op # "OP_MSG"
    <3>1. PlainTable(op) /\ PlainPlace
      BY <1>1, <2>2, PlainTables, ZenonT(20) DEF InParser
    <3>2. Items \in Nat /\ Len(parser[op]) = Items /\ FixedBefore[op][Items + 1] = Serialize[op].fixed
      BY <3>1 DEF PlainTable, Items
    <3>3. k = Items + 1
      BY <3>1, <3>2 DEF PlainPlace
    <3>. QED BY <3>2, <3>3, ZenonT(20)
  <2>. QED BY <2>1, <2>2, ZenonT(20)
<1>4. Sum([i \in 1..Len(fields) |-> VaryingSize(fields[i])]) = Varying(wire)[tok]
  <2>. DEFINE ns == [i \in 1..Len(wire) |-> wire[i].width - FixedWidth(wire[i].kind)]
              us == [i \in 1..Len(fields) |-> VaryingSize(fields[i])]
  <2>1. \A i \in 1..Len(wire) : wire[i].width - FixedWidth(wire[i].kind) \in Nat
    BY <1>1, TokenFixed DEF Tokens
  <2>2. ASSUME NEW i \in 1..Len(fields) PROVE us[i] = ns[i] /\ us[i] \in Nat
    <3>1. i \in 1..Len(wire) /\ fields[i].kind = wire[i].kind /\ fields[i].size = wire[i].width
      BY <1>1, <1>2 DEF Parsed
    <3>2. PICK w \in Nat : w = wire[i].width
      BY <1>1, <3>1, AtFacts, ZenonT(20)
    <3>3. wire[i] \in AnyToken /\ IsToken(wire[i])
      BY <1>1, <3>1, SMTT(30) DEF Tokens
    <3>4. VaryingSize(fields[i]) = w - FixedWidth(wire[i].kind)
      <4>1. CASE wire[i].kind = "int32"
        BY <3>1, <3>2, <3>3, <4>1 DEF VaryingSize, FixedWidth, IsToken
      <4>2. CASE wire[i].kind = "int64"
        BY <3>1, <3>2, <3>3, <4>2 DEF VaryingSize, FixedWidth, IsToken
      <4>3. CASE wire[i].kind = "cursors"
        BY <3>1, <3>2, <4>3 DEF VaryingSize, FixedWidth
      <4>4. CASE wire[i].kind \notin {"int32", "int64", "cursors"}
        BY <3>1, <3>2, <4>4, SMTT(30) DEF VaryingSize, FixedWidth
      <4>. QED BY <4>1, <4>2, <4>3, <4>4
    <3>. QED BY <2>1, <3>1, <3>2, <3>4, ZenonT(20)
  <2>3. ns \in Seq(Nat) /\ Len(ns) = Len(wire)
    BY <1>2, <2>1
  <2>4. us \in [1..tok -> Nat] /\ Len(fields) = tok
    BY <1>2, <2>2, ZenonT(20)
  <2>5. Varying(wire) = Sums(ns)
    BY DEF Varying
  <2>. HIDE DEF ns, us
  <2>6. us \in Seq(Nat) /\ Len(us) = tok
    BY <1>2, <2>4
  <2>7. \A j \in 1..Len(us) : us[j] = ns[j]
    BY <2>2, <2>4, <2>6
  <2>8. Len(us) <= Len(ns)
    BY <1>2, <2>3, <2>6
  <2>9. Sums(us)[Len(us)] = Sums(ns)[Len(us)]
    BY <2>3, <2>6, <2>7, <2>8, SumsPrefix, ZenonT(20)
  <2>10. Sum(us) = Varying(wire)[tok]
    BY <2>5, <2>6, <2>9 DEF Sum
  <2>. QED BY <2>10 DEF us
<1>5. SerializedSize = At(Len(fields))
  BY <1>2, <1>3, <1>4 DEF SerializedSize
<1>6. op = "OP_MSG" => wire[1].kind = "int32"
  BY <1>1, ZenonT(20) DEF InParser, WellFormed, MsgShape
<1>7. Format[op][1] = "reserved" => wire[1].kind = "int32"
  <2>1. CASE op = "OP_MSG"
    BY <2>1, MsgTables DEF MsgTable
  <2>2. CASE op # "OP_MSG"
    <3>1. PlainTable(op) /\ PlainShape /\ PlainWhole
      BY <1>1, <2>2, PlainTables, ZenonT(20) DEF InParser, WellFormed
    <3>2. Items \in Nat \ 0..1
      BY <3>1, SMTT(30) DEF PlainTable, Items
    <3>3. 1 \in 1..Len(wire) /\ 1 <= Items
      BY <1>2, <3>1, <3>2 DEF PlainWhole
    <3>4. Fits(wire[1], Format[op][1])
      BY <3>1, <3>3, ZenonT(20) DEF PlainShape
    <3>. QED BY <3>4 DEF Fits
  <2>. QED BY <2>1, <2>2, ZenonT(20)
<1>. QED BY <1>5, <1>6, <1>7, ZenonT(20)

(* Sizing the buffer keeps the invariant: it has the size of the fields    *)
(* it is for.                                                              *)
LEMMA AllocateStep ==
  ASSUME WireInv, Allocate
  PROVE  WireInv'
<1>1. /\ pc = "parse" /\ k > Len(parser[op]) /\ op' = op /\ wire' = wire /\ length' = length
      /\ fields' = fields /\ pc' = "write" /\ k' = 1 /\ loc' = 0
      /\ buf' = [i \in 1..SerializedSize |-> Unwritten]
  BY ZenonT(20) DEF Allocate
<1>2. op \in Ops /\ Tokens /\ Parsed
  BY <1>1, ZenonT(20) DEF WireInv, InParser
<1>3. /\ SerializedSize = At(Len(fields))
      /\ Format[op][1] = "reserved" => wire[1].kind = "int32"
      /\ op = "OP_MSG" => wire[1].kind = "int32"
  BY <1>1, SizeIsRight, ZenonT(20)
<1>4. Parsed' /\ Tokens'
  BY <1>1, <1>2, Frame, ZenonT(20) DEF Parsed, At
<1>5. \A i \in 1..Len(fields) : fields[i].kind = "sequence" => SequenceSize(i) - 1 = wire[i].size
  BY <1>1, SequenceSizes, ZenonT(20)
<1>6. \A i \in 1..Len(fields) : SequenceSize(i)' = SequenceSize(i)
  BY <1>1, ZenonT(20) DEF SequenceSize
<1>7. At(0) = 0 /\ 1 \in 1..Len(fields) + 1
  BY <1>2, AtFacts DEF Parsed
<1>8. buf' = [i \in 1..At(Len(fields)) |-> buf'[i]]
  BY <1>1, <1>3, ZenonT(20)
<1>9. Kept'
  BY <1>1, <1>4, LeftOutOnly, ZenonT(20) DEF Kept, LeftOut, At
<1>10. InSerializer'
  BY <1>1, <1>3, <1>5, <1>6, <1>7, <1>8, <1>9 DEF InSerializer, At
<1>. QED BY <1>1, <1>2, <1>4, <1>9, <1>10 DEF WireInv

(* How a field is written. *)
LEMMA WriteTable ==
  ASSUME op \in Ops, NEW n \in 1..Len(parser[op])
  PROVE  /\ Serialize[op].write[n] = "zero" => n = 1 /\ Format[op][1] = "reserved"
         /\ Format[op][1] = "reserved" /\ n = 1 => Serialize[op].write[n] = "zero"
         /\ Serialize[op].write[n] = "flags" <=> n = 1 /\ op = "OP_MSG"
         /\ op = "OP_MSG" => Format[op][1] # "reserved"
         /\ Serialize[op].write[n] = "copyBytes" => op = "OP_REPLY"
<1>1. CASE op = "OP_MSG"
  <2>1. Format[op][1] = "int32" /\ n \in 1..2 /\ Serialize[op].write = <<"flags", "section">>
    BY <1>1, MsgTables DEF MsgTable
  <2>2. \/ n = 1 /\ Serialize[op].write[n] = "flags"
        \/ n = 2 /\ Serialize[op].write[n] = "section"
    BY <2>1, SMTT(30)
  <2>. QED BY <1>1, <2>1, <2>2
<1>2. CASE op # "OP_MSG"
  <2>1. PlainTable(op)
    BY <1>2, PlainTables, ZenonT(20)
  <2>2. n \in 1..Len(Format[op])
    BY <2>1, ZenonT(20) DEF PlainTable
  <2>3. /\ Serialize[op].write[n] = "zero" <=> Format[op][n] = "reserved"
        /\ Serialize[op].write[n] # "flags"
        /\ Format[op][n] = "reserved" => n = 1
        /\ Serialize[op].write[n] = "copyBytes" => op = "OP_REPLY"
    BY <2>1, <2>2, ZenonT(20) DEF PlainTable
  <2>. QED BY <1>2, <2>3, ZenonT(20)
<1>. QED BY <1>1, <1>2, ZenonT(20)

(* The bytes a field writes: those it was parsed from, in their place, but  *)
(* for the reserved field and the flags of OP_MSG.                          *)
LEMMA BytesAreRight ==
  ASSUME RepliesHaveSizes, op \in Ops, Tokens, InSerializer, k <= Len(fields)
  PROVE  /\ fields[k].size \in Nat /\ loc \in Nat /\ At(Len(fields)) \in Nat
         /\ loc + fields[k].size <= At(Len(fields))
         /\ At(k) = loc + fields[k].size
         /\ Advance(fields[k]) = fields[k].size
         /\ DOMAIN Bytes(k) \subseteq Nat \ {0}
         /\ \A j \in 1..fields[k].size : j \in DOMAIN Bytes(k)
              /\ Bytes(k)[j] = SentAs(loc + j)
<1>1. /\ Parsed /\ Len(fields) \in Nat /\ Len(wire) \in Nat /\ Len(fields) <= Len(wire)
      /\ length \in Nat /\ loc = At(k - 1) /\ k \in 1..Len(fields) + 1
      /\ Format[op][1] = "reserved" => wire[1].kind = "int32"
      /\ op = "OP_MSG" => wire[1].kind = "int32"
      /\ At(Len(fields)) <= length
  BY DEF InSerializer, Kept, Parsed, Tokens
<1>2. /\ k \in Nat /\ k \in 1..Len(fields) /\ k \in 1..Len(wire) /\ k - 1 \in 0..Len(wire)
      /\ k \in 0..Len(wire) /\ Len(fields) \in 0..Len(wire) /\ k <= Len(fields)
  BY <1>1, SMTT(30)
<1>3. /\ fields[k].item \in 1..Len(parser[op])
      /\ fields[k].item = 1 <=> k = 1
      /\ fields[k].kind = wire[k].kind
      /\ fields[k].from = At(k - 1)
      /\ fields[k].size = wire[k].width
      /\ fields[k].bytes = IF wire[k].kind = "shortcut" THEN length - At(k - 1) ELSE wire[k].width
  BY <1>1, <1>2 DEF Parsed
<1>4. wire[k] \in AnyToken /\ IsToken(wire[k])
  BY <1>2 DEF Tokens
<1>5. PICK w \in Nat \ {0} : w = wire[k].width /\ w = fields[k].size
  BY <1>2, <1>3, AtFacts, ZenonT(20)
<1>6. loc \in Nat /\ At(k) = loc + w
  <2>1. At(k) = At(k - 1) + wire[k].width /\ At(k - 1) \in Nat
    BY <1>2, AtFacts, ZenonT(20)
  <2>. QED BY <1>1, <1>5, <2>1, ZenonT(20)
<1>7. At(Len(fields)) \in Nat /\ At(k) <= At(Len(fields))
  BY <1>2, AtOrder
<1>8. PICK b \in Nat : b = fields[k].bytes /\ w <= b
  <2>1. CASE wire[k].kind = "shortcut"
    <3>1. fields[k].bytes = length - loc
      BY <1>1, <1>3, <2>1, ZenonT(20)
    <3>. QED BY <1>1, <1>6, <1>7, <3>1, SMTT(30)
  <2>2. CASE wire[k].kind # "shortcut"
    BY <1>3, <1>5, <2>2
  <2>. QED BY <2>1, <2>2, SMTT(30)
<1>9. Advance(fields[k]) = fields[k].size
  <2>1. SUFFICES ASSUME Serialize[op].write[fields[k].item] = "copyBytes"
                 PROVE  fields[k].bytes = fields[k].size
    BY ZenonT(20) DEF Advance
  <2>2. op = "OP_REPLY"
    BY <1>3, <2>1, WriteTable, ZenonT(20)
  <2>3. wire[k].kind # "shortcut"
    BY <1>4, <2>2, ZenonT(20) DEF IsToken, RepliesHaveSizes
  <2>. QED BY <1>3, <2>3, ZenonT(20)
<1>10. CASE Serialize[op].write[fields[k].item] = "zero"
  <2>1. k = 1 /\ Format[op][1] = "reserved"
    BY <1>3, <1>10, WriteTable, ZenonT(20)
  <2>2. w = 4 /\ loc = 0
    <3>1. wire[k].kind = "int32"
      BY <1>1, <2>1, ZenonT(20)
    <3>2. At(0) = 0
      BY AtFacts
    <3>. QED BY <1>1, <1>4, <1>5, <2>1, <3>1, <3>2, SMTT(30) DEF IsToken
  <2>3. Bytes(k) = [j \in 1..4 |-> 0]
    <3>1. fields[k].kind # "sequence"
      BY <1>1, <1>3, <2>1, SMTT(30)
    <3>. QED BY <1>10, <3>1, ZenonT(20) DEF Bytes
  <2>4. \A j \in 1..4 : SentAs(loc + j) = 0
    BY <2>1, <2>2 DEF Reserved, SentAs
  <2>. QED BY <1>5, <1>6, <1>7, <1>9, <2>2, <2>3, <2>4, SMTT(30)
<1>11. CASE Serialize[op].write[fields[k].item] = "flags"
  <2>1. k = 1 /\ op = "OP_MSG" /\ Format[op][1] # "reserved"
    BY <1>3, <1>11, WriteTable, ZenonT(20)
  <2>2. w = 4 /\ loc = 0
    <3>1. wire[k].kind = "int32"
      BY <1>1, <2>1, ZenonT(20)
    <3>2. At(0) = 0
      BY AtFacts
    <3>. QED BY <1>1, <1>4, <1>5, <2>1, <3>1, <3>2, SMTT(30) DEF IsToken
  <2>3. Bytes(k) = [j \in 1..4 |-> IF j = 1 THEN ChecksumCleared ELSE loc + j]
    <3>1. fields[k].from = loc /\ fields[k].kind # "sequence"
      BY <1>1, <1>3, <2>1, SMTT(30)
    <3>2. Serialize[op].write[fields[k].item] # "zero"
      BY <1>11
    <3>. QED BY <1>11, <3>1, <3>2, ZenonT(20) DEF Bytes
  <2>4. \A j \in 1..4 : SentAs(loc + j) = IF j = 1 THEN ChecksumCleared ELSE loc + j
    BY <2>1, <2>2 DEF Reserved, SentAs
  <2>. QED BY <1>5, <1>6, <1>7, <1>9, <2>2, <2>3, <2>4, SMTT(30)
<1>12. CASE Serialize[op].write[fields[k].item] \notin {"zero", "flags"}
  <2>1. fields[k].kind = "sequence" => SequenceSize(k) - 1 = wire[k].size
    BY <1>2 DEF InSerializer
  <2>2. Bytes(k) = [j \in 1..b |-> loc + j]
    <3>1. fields[k].from = loc
      BY <1>1, <1>3, ZenonT(20)
    <3>2. /\ Serialize[op].write[fields[k].item] # "zero"
          /\ Serialize[op].write[fields[k].item] # "flags"
      BY <1>12
    <3>. QED BY <1>8, <2>1, <3>1, <3>2, ZenonT(20) DEF Bytes
  <2>3. \A j \in 1..w : SentAs(loc + j) = loc + j
    <3>1. SUFFICES ASSUME Format[op][1] = "reserved" \/ op = "OP_MSG"
                   PROVE  \A j \in 1..w : ~(loc + j <= 4) /\ loc + j # 1
      BY ZenonT(20) DEF Reserved, SentAs
    <3>2. k # 1
      BY <1>3, <1>12, <3>1, WriteTable, ZenonT(20)
    <3>3. wire[1].kind = "int32" /\ 1 \in 1..Len(wire) /\ 1 \in 0..Len(wire) /\ 1 <= k - 1
      BY <1>1, <1>2, <3>1, <3>2, SMTT(30)
    <3>4. wire[1].width = 4
      BY <3>3 DEF Tokens, IsToken
    <3>5. At(1) = 4
      <4>1. At(1) = At(1 - 1) + wire[1].width /\ At(0) = 0
        BY <3>3, AtFacts, ZenonT(20)
      <4>. QED BY <3>4, <4>1
    <3>6. At(1) <= At(k - 1)
      BY <1>2, <3>3, AtOrder
    <3>. QED BY <1>1, <1>6, <3>5, <3>6, SMTT(30)
  <2>4. DOMAIN Bytes(k) = 1..b
    BY <2>2
  <2>5. ASSUME NEW j \in 1..w
        PROVE  j \in DOMAIN Bytes(k) /\ Bytes(k)[j] = SentAs(loc + j)
    <3>1. j \in 1..b
      BY <1>8
    <3>. QED BY <2>2, <2>3, <3>1
  <2>6. DOMAIN Bytes(k) \subseteq Nat \ {0}
    BY <2>4
  <2>. QED BY <1>5, <1>6, <1>7, <1>9, <2>5, <2>6, ZenonT(20)
<1>. QED BY <1>10, <1>11, <1>12, ZenonT(20)

(* What was parsed stays as it is while the serializer writes.             *)
LEMMA KeptFrame ==
  ASSUME Tokens, Kept, op' = op, wire' = wire, length' = length, fields' = fields
  PROVE  /\ Tokens'
         /\ Kept'
         /\ \A i \in 1..Len(fields) : SequenceSize(i)' = SequenceSize(i)
<1>1. Tokens'
  BY Frame, ZenonT(20)
<1>2. Kept'
  BY ZenonT(20) DEF Kept, LeftOut, Parsed, At
<1>3. \A i \in 1..Len(fields) : SequenceSize(i)' = SequenceSize(i)
  BY ZenonT(20) DEF SequenceSize
<1>. QED BY <1>1, <1>2, <1>3

(* A field is written where it came from, within the buffer.               *)
LEMMA WriteFieldWhole ==
  ASSUME RepliesHaveSizes, WireInv, WriteField
  PROVE  pc' = "write" /\ InSerializer'
<1>1. /\ pc = "write" /\ op \in Ops /\ Tokens /\ InSerializer /\ Kept /\ k <= Len(fields)
      /\ op' = op /\ wire' = wire /\ length' = length /\ fields' = fields
  BY ZenonT(20) DEF WriteField, WireInv
<1>2. /\ fields[k].size \in Nat /\ loc \in Nat /\ At(Len(fields)) \in Nat
      /\ loc + fields[k].size <= At(Len(fields))
      /\ At(k) = loc + fields[k].size
      /\ Advance(fields[k]) = fields[k].size
      /\ DOMAIN Bytes(k) \subseteq Nat \ {0}
      /\ \A j \in 1..fields[k].size : j \in DOMAIN Bytes(k)
              /\ Bytes(k)[j] = SentAs(loc + j)
  BY <1>1, BytesAreRight, ZenonT(20)
<1>3. buf = [i \in 1..At(Len(fields)) |-> buf[i]]
  BY <1>1 DEF InSerializer
<1>4. DOMAIN buf = 1..At(Len(fields)) /\ Len(buf) = At(Len(fields))
  BY <1>2, <1>3, SMTT(30)
<1>5. ~Panics(fields[k])
  BY <1>2, <1>4 DEF Panics
<1>6. /\ buf' = [i \in 1..At(Len(fields)) |->
                   IF i - loc \in DOMAIN Bytes(k) THEN Bytes(k)[i - loc] ELSE buf[i]]
      /\ loc' = At(k) /\ k' = k + 1 /\ pc' = pc
  BY <1>2, <1>4, <1>5, ZenonT(20) DEF WriteField
<1>7. \A i \in 1..loc : buf[i] = SentAs(i)
  BY <1>1, ZenonT(20) DEF InSerializer
<1>8. ASSUME NEW i \in 1..loc' PROVE buf'[i] = SentAs(i)
  <2>1. i \in Nat \ {0} /\ i <= loc + fields[k].size /\ i \in 1..At(Len(fields))
    BY <1>2, <1>6
  <2>2. CASE i <= loc
    <3>1. i - loc \notin DOMAIN Bytes(k)
      BY <1>2, <2>1, <2>2, SMTT(30)
    <3>2. i \in 1..loc
      BY <1>2, <2>1, <2>2
    <3>. QED BY <1>6, <1>7, <2>1, <3>1, <3>2, ZenonT(20)
  <2>3. CASE i > loc
    <3>1. i - loc \in 1..fields[k].size /\ loc + (i - loc) = i
      BY <1>2, <2>1, <2>3
    <3>. QED BY <1>2, <1>6, <2>1, <3>1, ZenonT(20)
  <2>. QED BY <1>2, <2>1, <2>2, <2>3, SMTT(30)
<1>9. Kept' /\ \A i \in 1..Len(fields) : SequenceSize(i)' = SequenceSize(i)
  BY <1>1, KeptFrame, ZenonT(20)
<1>10. k' \in 1..Len(fields) + 1 /\ k' - 1 = k
  BY <1>1, <1>6, SMTT(30) DEF InSerializer, Kept, Parsed
<1>11. buf' = [i \in 1..At(Len(fields)) |-> buf'[i]]
  BY <1>6
<1>12. /\ Format[op][1] = "reserved" => wire[1].kind = "int32"
       /\ op = "OP_MSG" => wire[1].kind = "int32"
       /\ \A i \in 1..Len(fields) : fields[i].kind = "sequence" => SequenceSize(i) - 1 = wire[i].size
  BY <1>1, ZenonT(20) DEF InSerializer
<1>13. InSerializer'
  BY <1>1, <1>6, <1>8, <1>9, <1>10, <1>11, <1>12, ZenonT(20) DEF InSerializer, At, Reserved, SentAs
<1>. QED BY <1>1, <1>6, <1>13, ZenonT(20)

(* Writing a field keeps the invariant.                                    *)
LEMMA WriteFieldStep ==
  ASSUME WireInv, WriteField
  PROVE  WireInv'
<1>1. /\ pc = "write" /\ op \in Ops /\ Tokens /\ Kept /\ pc' \in {"write", "panic"}
      /\ op' = op /\ wire' = wire /\ length' = length /\ fields' = fields
  BY DEF WriteField, WireInv
<1>2. Tokens' /\ Kept'
  BY <1>1, KeptFrame
<1>3. RepliesHaveSizes => pc' = "write" /\ InSerializer'
  BY WriteFieldWhole, ZenonT(20)
<1>. QED BY <1>1, <1>2, <1>3, ZenonT(20) DEF WireInv

(* Handing the buffer over keeps the invariant.                            *)
LEMMA FinishStep ==
  ASSUME WireInv, Finish
  PROVE  WireInv'
<1>1. /\ pc = "write" /\ op \in Ops /\ Tokens /\ Kept /\ k > Len(fields) /\ pc' = "sent"
      /\ op' = op /\ wire' = wire /\ length' = length /\ fields' = fields /\ k' = k /\ loc' = loc
      /\ buf' = buf
  BY DEF Finish, WireInv
<1>2. Tokens' /\ Kept' /\ \A i \in 1..Len(fields) : SequenceSize(i)' = SequenceSize(i)
  BY <1>1, KeptFrame
<1>3. ASSUME RepliesHaveSizes PROVE InSerializer' /\ k' = Len(fields') + 1
  <2>1. InSerializer
    BY <1>1, <1>3, ZenonT(20) DEF WireInv
  <2>2. InSerializer'
    BY <1>1, <1>2, <2>1, ZenonT(20) DEF InSerializer, At, Reserved, SentAs
  <2>3. k \in 1..Len(fields) + 1 /\ Len(fields) \in Nat
    BY <1>1, <2>1 DEF InSerializer, Kept, Parsed, Tokens
  <2>4. k = Len(fields) + 1
    BY <1>1, <2>3
  <2>. QED BY <1>1, <2>2, <2>4, ZenonT(20)
<1>. QED BY <1>1, <1>2, <1>3, ZenonT(20) DEF WireInv

(* A step that changes nothing keeps the invariant.                        *)
LEMMA StutterStep ==
  ASSUME WireInv, UNCHANGED vars
  PROVE  WireInv'
<1>1. Tokens /\ op' = op /\ wire' = wire /\ length' = length /\ pc' = pc /\ k' = k /\ tok' = tok
      /\ loc' = loc /\ left' = left /\ fields' = fields /\ buf' = buf
  BY DEF vars, WireInv
<1>2. Tokens' /\ (WellFormed => WellFormed')
  BY <1>1, Frame, ZenonT(20)
<1>3. Composing => Composing'
  BY <1>1, ZenonT(20) DEF Composing, Items, MsgShape, HeadShape, Run, At, PlainShape, PlainWhole, Fits
<1>4. Parsed => Parsed'
  BY <1>1, ZenonT(20) DEF Parsed, At
<1>5. (MsgPlace => MsgPlace') /\ (PlainPlace => PlainPlace')
  BY <1>1, ZenonT(20) DEF MsgPlace, PlainPlace, AtSection, Run, At, Remaining, Items
<1>6. InParser => InParser'
  BY <1>1, <1>2, <1>4, <1>5, ZenonT(20) DEF InParser, At
<1>7. Kept => Kept' /\ \A i \in 1..Len(fields) : SequenceSize(i)' = SequenceSize(i)
  BY <1>1, KeptFrame, ZenonT(20)
<1>8. InSerializer => InSerializer'
  BY <1>1, <1>7, ZenonT(20) DEF InSerializer, At, Reserved, SentAs
<1>9. length < At(Len(wire)) => (length < At(Len(wire)))'
  BY <1>1 DEF At
<1>. QED BY <1>1, <1>2, <1>3, <1>6, <1>7, <1>8, <1>9, ZenonT(20) DEF WireInv

-----------------------------------------------------------------------------
(* The theorems *)

(* WireInv is an invariant: what a peer composes has the shape of its op    *)
(* code, the parsers take the tokens where they are, the sizes that the     *)
(* serializers compute are the sizes of what was parsed, and the fields are *)
(* written back where they came from.                                       *)
THEOREM WireInvariant == Spec => []WireInv
<1>1. Init => WireInv
  <2>1. SUFFICES ASSUME Init PROVE WireInv
    OBVIOUS
  <2>2. /\ op \in Ops /\ wire = <<>> /\ pc = "compose" /\ k = 1 /\ tok = 0 /\ loc = 0 /\ left = 0
        /\ fields = <<>>
    BY <2>1, ZenonT(20) DEF Init
  <2>3. Items \in Nat \ {0}
    BY <2>2, PlainTables, MsgTables DEF PlainTable, MsgTable, Items
  <2>4. Tokens /\ PlainShape
    BY <2>2 DEF Tokens, PlainShape
  <2>5. Composing
    BY <2>2, <2>3, <2>4, SMTT(30) DEF Composing
  <2>. QED BY <2>2, <2>4, <2>5 DEF WireInv
<1>2. WireInv /\ [Next]_vars => WireInv'
  <2>1. SUFFICES ASSUME WireInv, [Next]_vars PROVE WireInv'
    OBVIOUS
  <2>2. CASE UNCHANGED vars
    BY <2>1, <2>2, StutterStep
  <2>3. CASE Compose
    BY <2>1, <2>3, ComposePlain, ComposeMsg, SMTT(30)
  <2>4. CASE ComposeSection
    BY <2>1, <2>4, ComposeSectionStep
  <2>5. CASE Send
    BY <2>1, <2>5, SendStep, ZenonT(20)
  <2>6. CASE ParseOne
    BY <2>1, <2>6, ParseOnePlain, ParseOneMsg
  <2>7. CASE ParseDoc
    BY <2>1, <2>7, ParseDocStep
  <2>8. CASE ParseEnds
    BY <2>1, <2>8, ParseEndsStep
  <2>9. CASE parseBodySection
    BY <2>1, <2>9, ParseBodyStep
  <2>10. CASE parseSequenceHead
    BY <2>1, <2>10, ParseHeadStep
  <2>11. CASE parseSequenceDoc
    BY <2>1, <2>11, ParseSequenceDocStep
  <2>12. CASE ParseSectionsEnd
    BY <2>1, <2>12, ParseSectionsEndStep
  <2>13. CASE Allocate
    BY <2>1, <2>13, AllocateStep
  <2>14. CASE WriteField
    BY <2>1, <2>14, WriteFieldStep
  <2>15. CASE Finish
    BY <2>1, <2>15, FinishStep
  <2>. QED
    BY <2>1, <2>2, <2>3, <2>4, <2>5, <2>6, <2>7, <2>8, <2>9, <2>10, <2>11, <2>12, <2>13, <2>14,
       <2>15 DEF Next
<1>. QED BY <1>1, <1>2, PTL DEF Spec

(* What the proxy sends on has the bytes it received, in place, but for a   *)
(* reserved field and the checksumPresent bit of OP_MSG: nothing is misread, *)
(* moved, left unset or taken from elsewhere, whatever the number and the   *)
(* sizes of documents, strings and sections and wherever the body ends.     *)
THEOREM RoundTripHolds ==
  ASSUME RepliesHaveSizes
  PROVE  Spec => []RoundTrip
<1>1. WireInv => RoundTrip
  <2>1. SUFFICES ASSUME WireInv PROVE RoundTrip
    OBVIOUS
  <2>2. pc # "misread"
    BY <2>1 DEF WireInv
  <2>3. ASSUME pc = "sent"
        PROVE  Len(buf) = Consumed /\ \A i \in DOMAIN buf : buf[i] = SentAs(i)
    <3>1. Tokens /\ InSerializer /\ k = Len(fields) + 1
      BY <2>1, <2>3, SMTT(30) DEF WireInv
    <3>2. /\ loc = At(k - 1) /\ Len(fields) \in Nat /\ Len(fields) <= Len(wire) /\ Len(wire) \in Nat
          /\ buf = [i \in 1..At(Len(fields)) |-> buf[i]]
          /\ \A i \in 1..loc : buf[i] = SentAs(i)
      BY <3>1, SMTT(30) DEF InSerializer, Kept, Parsed, Tokens
    <3>3. loc = At(Len(fields)) /\ At(Len(fields)) \in Nat
      <4>1. Len(fields) \in 0..Len(wire) /\ k - 1 = Len(fields)
        BY <3>1, <3>2
      <4>. QED BY <3>1, <3>2, <4>1, AtFacts
    <3>4. DOMAIN buf = 1..loc /\ Len(buf) = loc
      BY <3>2, <3>3, SMTT(30)
    <3>. QED BY <3>2, <3>3, <3>4, ZenonT(20) DEF Consumed, At
  <2>. QED BY <2>2, <2>3 DEF RoundTrip
<1>. QED BY <1>1, WireInvariant, PTL

(* No serializer writes beyond the buffer it sized. *)
THEOREM NoOverrunHolds ==
  ASSUME RepliesHaveSizes
  PROVE  Spec => []NoOverrun
<1>1. WireInv => NoOverrun
  BY DEF WireInv, NoOverrun
<1>. QED BY <1>1, WireInvariant, PTL

(* Every message of the protocol is accepted if it arrives whole. *)
THEOREM AcceptsWholeHolds == Spec => []AcceptsWhole
<1>1. WireInv => AcceptsWhole
  <2>1. SUFFICES ASSUME WireInv, pc = "refused" PROVE length # Width(wire)
    BY DEF AcceptsWhole
  <2>2. length < At(Len(wire)) /\ At(Len(wire)) \in Nat
    <3>1. Tokens /\ length < At(Len(wire))
      BY <2>1 DEF WireInv
    <3>2. Len(wire) \in 0..Len(wire)
      BY <3>1, SMTT(30) DEF Tokens
    <3>. QED BY <3>1, <3>2, AtFacts, ZenonT(20)
  <2>. QED BY <2>2 DEF Width, At
<1>. QED BY <1>1, WireInvariant, PTL

(* A message that is sent on has all that arrived, but for the checksum of  *)
(* an OP_MSG, or up to four bytes of a section at which its body is cut: no *)
(* whole section, and no part of anything else, is dropped.                 *)
THEOREM NothingDroppedHolds == Spec => []NothingDropped
<1>1. WireInv => NothingDropped
  BY ZenonT(20) DEF WireInv, NothingDropped, Kept, LeftOut, Consumed, Width, At, HeadKinds
<1>. QED BY <1>1, WireInvariant, PTL
=============================================================================
