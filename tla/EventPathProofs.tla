--------------------------- MODULE EventPathProofs ---------------------------
(***************************************************************************)
(* Proofs about Wire and EventPath: what the host decodes is what the      *)
(* harness meant, for buffers and events of any size, however the bytes    *)
(* are cut and whatever the threads do.                                    *)
(***************************************************************************)
EXTENDS EventPath, SequenceTheorems, WellFoundedInduction, TLAPS

Byte == 0 .. Full

-----------------------------------------------------------------------------
(* Induction in a form that is about sets, over numbers and sequences.     *)
LEMMA LeastNumber ==
    ASSUME NEW S, S \subseteq Nat, S # {}
    PROVE  \E k \in S : \A m \in S : k <= m
<1>1. PICK k \in S : \A m \in S : ~(<<m, k>> \in OpToRel(<, Nat))
  BY NatLessThanWellFounded, WFMin, Zenon
<1>2. \A m \in S : ~(m < k)
  BY <1>1 DEF OpToRel
<1> QED
  BY <1>2

(* Induction up to a bound.                                                *)
LEMMA UpTo ==
    ASSUME NEW n \in Nat, NEW S, 0 \in S,
           \A k \in 0 .. n - 1 : k \in S => k + 1 \in S
    PROVE  0 .. n \subseteq S
<1> DEFINE Out == {k \in 0 .. n : k \notin S}
<1>1. ASSUME Out # {} PROVE FALSE
  <2>1. Out \subseteq Nat
    OBVIOUS
  <2>2. PICK k \in Out : \A m \in Out : k <= m
    BY <1>1, <2>1, LeastNumber
  <2>3. k \in 0 .. n /\ k # 0 /\ k - 1 \in 0 .. n - 1 /\ k - 1 \in 0 .. n
    BY <2>2
  <2>4. k - 1 \in S
    BY <2>2, <2>3
  <2>5. (k - 1) + 1 \in S
    BY <2>3, <2>4
  <2> QED
    BY <2>2, <2>3, <2>5
<1> QED
  BY <1>1

(* Induction over sequences: a set closed under Append holds them all.     *)
LEMMA Sequences ==
    ASSUME NEW E, NEW S, <<>> \in S,
           \A s \in Seq(E), e \in E : s \in S => Append(s, e) \in S
    PROVE  Seq(E) \subseteq S
<1>1. SUFFICES ASSUME NEW s \in Seq(E) PROVE s \in S
  OBVIOUS
<1> DEFINE n == Len(s)
           Good == {k \in 0 .. n : SubSeq(s, 1, k) \in S}
<1>2. n \in Nat /\ s \in [1 .. n -> E]
  BY LenProperties
<1>3. 0 \in Good
  <2>1. SubSeq(s, 1, 0) = <<>>
    BY SubSeqEmpty
  <2>2. SubSeq(s, 1, 0) \in S
    BY <2>1
  <2>3. 0 \in 0 .. n
    BY <1>2
  <2> QED
    BY <2>2, <2>3
<1>4. ASSUME NEW k \in 0 .. n - 1, k \in Good PROVE k + 1 \in Good
  <2>1. SubSeq(s, 1, k) \in Seq(E) /\ s[k + 1] \in E
    BY <1>2, SubSeqProperties
  <2>2. SubSeq(s, 1, k + 1) = SubSeq(s, 1, k) \o <<s[k + 1]>>
    BY <1>2, SubSeqRecursiveSecond, 1 \in 1 .. Len(s), k + 1 \in 1 .. Len(s), (k + 1) - 1 = k
  <2>3. SubSeq(s, 1, k + 1) = Append(SubSeq(s, 1, k), s[k + 1])
    BY <2>1, <2>2, AppendIsConcat
  <2>4. SubSeq(s, 1, k) \in S
    BY <1>4
  <2>5. SubSeq(s, 1, k + 1) \in S
    BY <2>1, <2>3, <2>4
  <2> QED
    BY <1>2, <2>5
<1>5. 0 .. n \subseteq Good
  BY <1>2, <1>3, <1>4, UpTo
<1>6. n \in Good
  BY <1>2, <1>5
<1> QED
  BY <1>6, SubSeqFull

-----------------------------------------------------------------------------
(* Encoder is a loop; Encodes says that f holds its states.                *)
Encodes(f, s) ==
    f = [k \in 0 .. Len(s) |-> IF k = 0 THEN NextBlock(<<>>) ELSE EncodeByte(f[k - 1], s[k])]

(* Encoder(s) is the last state of the loop.                               *)
LEMMA EncoderIs == ASSUME NEW s PROVE Encoder(s) = (CHOOSE f : Encodes(f, s))[Len(s)]
BY DEF Encoder, Encodes

(* The loop of cobs_encode has states for every payload.                   *)
LEMMA EncoderExists ==
    ASSUME NEW E, NEW s \in Seq(E)
    PROVE  Encodes(CHOOSE f : Encodes(f, s), s)
<1> DEFINE Good == {t \in Seq(E) : \E f : Encodes(f, t)}
<1>1. <<>> \in Good
  <2>1. Encodes([k \in 0 .. 0 |-> NextBlock(<<>>)], <<>>)
    <3>1. Len(<<>>) = 0
      BY EmptySeq
    <3> QED
      BY <3>1 DEF Encodes
  <2> QED
    BY <2>1, EmptySeq
<1>2. ASSUME NEW t \in Seq(E), NEW e \in E, t \in Good PROVE Append(t, e) \in Good
  <2>1. PICK f : Encodes(f, t)
    BY <1>2
  <2> DEFINE n == Len(t)
             new == Append(t, e)
             g == [k \in 0 .. n + 1 |-> IF k = n + 1 THEN EncodeByte(f[n], e) ELSE f[k]]
  <2>2. /\ n \in Nat /\ Len(new) = n + 1 /\ new \in Seq(E)
        /\ new[n + 1] = e /\ \A k \in 1 .. n : new[k] = t[k]
    BY LenProperties, AppendProperties
  <2> HIDE DEF new
  <2>3. ASSUME NEW k \in 0 .. n + 1
        PROVE  g[k] = IF k = 0 THEN NextBlock(<<>>) ELSE EncodeByte(g[k - 1], new[k])
    <3>1. CASE k = n + 1
      BY <2>2, <3>1
    <3>2. CASE k \in 0 .. n
      <4>1. g[k] = f[k] /\ (k # 0 => k - 1 \in 0 .. n /\ g[k - 1] = f[k - 1] /\ new[k] = t[k])
        BY <2>2, <3>2
      <4>2. f[k] = IF k = 0 THEN NextBlock(<<>>) ELSE EncodeByte(f[k - 1], t[k])
        BY <2>1, <3>2 DEF Encodes
      <4> QED
        BY <4>1, <4>2
    <3> QED
      BY <2>2, <3>1, <3>2
  <2> HIDE DEF g
  <2>4. g = [k \in 0 .. Len(new) |-> IF k = 0 THEN NextBlock(<<>>) ELSE EncodeByte(g[k - 1], new[k])]
    <3>1. g = [k \in 0 .. n + 1 |-> g[k]]
      BY DEF g
    <3> QED
      BY <2>2, <2>3, <3>1
  <2>5. Encodes(g, new)
    BY <2>4 DEF Encodes
  <2> QED
    BY <2>2, <2>5 DEF new
<1>3. s \in Good
  <2> HIDE DEF Good
  <2> QED
    BY <1>1, <1>2, Sequences
<1> QED
  BY <1>3, Zenon

(* One more byte is one more turn of the loop.                             *)
LEMMA EncoderStep ==
    ASSUME NEW E, NEW s \in Seq(E), NEW e \in E
    PROVE  Encoder(Append(s, e)) = EncodeByte(Encoder(s), e)
<1> DEFINE n == Len(s)
           new == Append(s, e)
           f == CHOOSE h : Encodes(h, s)
           g == CHOOSE h : Encodes(h, new)
           Same == {k \in 0 .. n : f[k] = g[k]}
<1>1. /\ n \in Nat /\ Len(new) = n + 1 /\ new \in Seq(E)
      /\ new[n + 1] = e /\ \A k \in 1 .. n : new[k] = s[k]
  BY LenProperties, AppendProperties
<1>2. Encodes(f, s) /\ Encodes(g, new)
  BY <1>1, EncoderExists
<1>3. Encoder(s) = f[n] /\ Encoder(new) = g[n + 1]
  BY <1>1, EncoderIs
<1> HIDE DEF f, g, new
<1>4. /\ \A k \in 0 .. n : f[k] = IF k = 0 THEN NextBlock(<<>>) ELSE EncodeByte(f[k - 1], s[k])
      /\ \A k \in 0 .. n + 1 : g[k] = IF k = 0 THEN NextBlock(<<>>) ELSE EncodeByte(g[k - 1], new[k])
  BY <1>1, <1>2 DEF Encodes
<1>5. 0 \in Same
  BY <1>1, <1>4
<1>6. ASSUME NEW k \in 0 .. n - 1, k \in Same PROVE k + 1 \in Same
  <2>1. k + 1 \in 1 .. n /\ k + 1 \in 0 .. n /\ k + 1 \in 0 .. n + 1 /\ (k + 1) - 1 = k
    BY <1>1
  <2>2. f[k + 1] = EncodeByte(f[k], s[k + 1]) /\ g[k + 1] = EncodeByte(g[k], new[k + 1])
    BY <1>1, <1>4, <2>1
  <2>3. f[k] = g[k] /\ s[k + 1] = new[k + 1]
    BY <1>1, <1>6, <2>1
  <2> QED
    BY <2>1, <2>2, <2>3
<1>7. n \in Same
  <2> HIDE DEF Same
  <2>1. 0 .. n \subseteq Same
    BY <1>1, <1>5, <1>6, UpTo
  <2> QED
    BY <1>1, <2>1
<1>8. g[n + 1] = EncodeByte(g[n], e)
  BY <1>1, <1>4
<1> QED
  BY <1>3, <1>7, <1>8 DEF new

(* The encoder begins with an open block.                                  *)
LEMMA EncoderFirst == Encoder(<<>>) = NextBlock(<<>>)
<1>1. <<>> \in Seq({}) /\ Len(<<>>) = 0
  BY EmptySeq
<1>2. Encodes(CHOOSE f : Encodes(f, <<>>), <<>>)
  BY <1>1, EncoderExists
<1>3. (CHOOSE f : Encodes(f, <<>>))[0] = NextBlock(<<>>)
  BY <1>1, <1>2 DEF Encodes
<1> QED
  BY <1>1, <1>3, EncoderIs

(* Cut is a loop; Cuts says that f holds its states.                       *)
Cuts(f, s, mark) ==
    f = [k \in 0 .. Len(s) |-> IF k = 0 THEN [done |-> <<>>, rest |-> <<>>] ELSE CutAt(f[k - 1], s[k], mark)]

(* Cut is the last state of its loop.                                      *)
LEMMA CutIs == ASSUME NEW s, NEW mark PROVE Cut(s, mark) = (CHOOSE f : Cuts(f, s, mark))[Len(s)]
BY DEF Cut, Cuts

(* The loop of Cut has states for every sequence.                          *)
LEMMA CutExists ==
    ASSUME NEW E, NEW s \in Seq(E), NEW mark
    PROVE  Cuts(CHOOSE f : Cuts(f, s, mark), s, mark)
<1> DEFINE Good == {t \in Seq(E) : \E f : Cuts(f, t, mark)}
<1>1. <<>> \in Good
  <2>1. Cuts([k \in 0 .. 0 |-> [done |-> <<>>, rest |-> <<>>]], <<>>, mark)
    <3>1. Len(<<>>) = 0
      BY EmptySeq
    <3> QED
      BY <3>1 DEF Cuts
  <2> QED
    BY <2>1, EmptySeq
<1>2. ASSUME NEW t \in Seq(E), NEW e \in E, t \in Good PROVE Append(t, e) \in Good
  <2>1. PICK f : Cuts(f, t, mark)
    BY <1>2
  <2> DEFINE n == Len(t)
             new == Append(t, e)
             g == [k \in 0 .. n + 1 |-> IF k = n + 1 THEN CutAt(f[n], e, mark) ELSE f[k]]
  <2>2. /\ n \in Nat /\ Len(new) = n + 1 /\ new \in Seq(E)
        /\ new[n + 1] = e /\ \A k \in 1 .. n : new[k] = t[k]
    BY LenProperties, AppendProperties
  <2> HIDE DEF new
  <2>3. ASSUME NEW k \in 0 .. n + 1
        PROVE  g[k] = IF k = 0 THEN [done |-> <<>>, rest |-> <<>>] ELSE CutAt(g[k - 1], new[k], mark)
    <3>1. CASE k = n + 1
      BY <2>2, <3>1
    <3>2. CASE k \in 0 .. n
      <4>1. g[k] = f[k] /\ (k # 0 => k - 1 \in 0 .. n /\ g[k - 1] = f[k - 1] /\ new[k] = t[k])
        BY <2>2, <3>2
      <4>2. f[k] = IF k = 0 THEN [done |-> <<>>, rest |-> <<>>] ELSE CutAt(f[k - 1], t[k], mark)
        BY <2>1, <3>2 DEF Cuts
      <4> QED
        BY <4>1, <4>2
    <3> QED
      BY <2>2, <3>1, <3>2
  <2> HIDE DEF g
  <2>4. g = [k \in 0 .. Len(new) |-> IF k = 0 THEN [done |-> <<>>, rest |-> <<>>] ELSE CutAt(g[k - 1], new[k], mark)]
    <3>1. g = [k \in 0 .. n + 1 |-> g[k]]
      BY DEF g
    <3> QED
      BY <2>2, <2>3, <3>1
  <2>5. Cuts(g, new, mark)
    BY <2>4 DEF Cuts
  <2> QED
    BY <2>2, <2>5 DEF new
<1>3. s \in Good
  <2> HIDE DEF Good
  <2> QED
    BY <1>1, <1>2, Sequences
<1> QED
  BY <1>3, Zenon

(* One more symbol is one more turn of the loop.                           *)
LEMMA CutStep ==
    ASSUME NEW E, NEW s \in Seq(E), NEW e \in E, NEW mark
    PROVE  Cut(Append(s, e), mark) = CutAt(Cut(s, mark), e, mark)
<1> DEFINE n == Len(s)
           new == Append(s, e)
           f == CHOOSE h : Cuts(h, s, mark)
           g == CHOOSE h : Cuts(h, new, mark)
           Same == {k \in 0 .. n : f[k] = g[k]}
<1>1. /\ n \in Nat /\ Len(new) = n + 1 /\ new \in Seq(E)
      /\ new[n + 1] = e /\ \A k \in 1 .. n : new[k] = s[k]
  BY LenProperties, AppendProperties
<1>2. Cuts(f, s, mark) /\ Cuts(g, new, mark)
  BY <1>1, CutExists
<1>3. Cut(s, mark) = f[n] /\ Cut(new, mark) = g[n + 1]
  BY <1>1, CutIs
<1> HIDE DEF f, g, new
<1>4. /\ \A k \in 0 .. n : f[k] = IF k = 0 THEN [done |-> <<>>, rest |-> <<>>] ELSE CutAt(f[k - 1], s[k], mark)
      /\ \A k \in 0 .. n + 1 : g[k] = IF k = 0 THEN [done |-> <<>>, rest |-> <<>>] ELSE CutAt(g[k - 1], new[k], mark)
  BY <1>1, <1>2 DEF Cuts
<1>5. 0 \in Same
  BY <1>1, <1>4
<1>6. ASSUME NEW k \in 0 .. n - 1, k \in Same PROVE k + 1 \in Same
  <2>1. k + 1 \in 1 .. n /\ k + 1 \in 0 .. n /\ k + 1 \in 0 .. n + 1 /\ (k + 1) - 1 = k
    BY <1>1
  <2>2. f[k + 1] = CutAt(f[k], s[k + 1], mark) /\ g[k + 1] = CutAt(g[k], new[k + 1], mark)
    BY <1>1, <1>4, <2>1
  <2>3. f[k] = g[k] /\ s[k + 1] = new[k + 1]
    BY <1>1, <1>6, <2>1
  <2> QED
    BY <2>1, <2>2, <2>3
<1>7. n \in Same
  <2> HIDE DEF Same
  <2>1. 0 .. n \subseteq Same
    BY <1>1, <1>5, <1>6, UpTo
  <2> QED
    BY <1>1, <2>1
<1>8. g[n + 1] = CutAt(g[n], e, mark)
  BY <1>1, <1>4
<1> QED
  BY <1>3, <1>7, <1>8 DEF new

(* Nothing is cut into nothing.                                            *)
LEMMA CutFirst == ASSUME NEW mark PROVE Cut(<<>>, mark) = [done |-> <<>>, rest |-> <<>>]
<1>1. <<>> \in Seq({}) /\ Len(<<>>) = 0
  BY EmptySeq
<1>2. Cuts(CHOOSE f : Cuts(f, <<>>, mark), <<>>, mark)
  BY <1>1, CutExists
<1>3. (CHOOSE f : Cuts(f, <<>>, mark))[0] = [done |-> <<>>, rest |-> <<>>]
  BY <1>1, <1>2 DEF Cuts
<1> QED
  BY <1>1, <1>3, CutIs

-----------------------------------------------------------------------------
(* FlattenSeq is a loop over the sequences.                                *)
Flattens(f, ss) ==
    f = [k \in 1 .. Len(ss) |-> IF k = 1 THEN ss[k] ELSE f[k - 1] \o ss[k]]

(* FlattenSeq is the last state of its loop.                               *)
LEMMA FlattenIs ==
    ASSUME NEW ss, Len(ss) # 0
    PROVE  FlattenSeq(ss) = (CHOOSE f : Flattens(f, ss))[Len(ss)]
BY DEF FlattenSeq, Flattens

(* The loop of FlattenSeq has states for all sequences.                    *)
LEMMA FlattenExists ==
    ASSUME NEW E, NEW ss \in Seq(E)
    PROVE  Flattens(CHOOSE f : Flattens(f, ss), ss)
<1> DEFINE Good == {tt \in Seq(E) : \E f : Flattens(f, tt)}
<1>1. <<>> \in Good
  <2>1. Flattens([k \in 1 .. 0 |-> <<>>], <<>>)
    <3>1. Len(<<>>) = 0 /\ \A k \in 1 .. 0 : FALSE
      BY EmptySeq
    <3> QED
      BY <3>1 DEF Flattens
  <2> QED
    BY <2>1, EmptySeq
<1>2. ASSUME NEW tt \in Seq(E), NEW e \in E, tt \in Good PROVE Append(tt, e) \in Good
  <2>1. PICK f : Flattens(f, tt)
    BY <1>2
  <2> DEFINE n == Len(tt)
             new == Append(tt, e)
             g == [k \in 1 .. n + 1 |->
                      IF k = n + 1 THEN (IF k = 1 THEN e ELSE f[n] \o e) ELSE f[k]]
  <2>2. /\ n \in Nat /\ Len(new) = n + 1 /\ new \in Seq(E)
        /\ new[n + 1] = e /\ \A k \in 1 .. n : new[k] = tt[k]
    BY LenProperties, AppendProperties
  <2> HIDE DEF new
  <2>3. ASSUME NEW k \in 1 .. n + 1
        PROVE  g[k] = IF k = 1 THEN new[k] ELSE g[k - 1] \o new[k]
    <3>1. CASE k = n + 1
      <4>1. CASE k = 1
        BY <2>2, <3>1, <4>1
      <4>2. CASE k # 1
        <5>1. n \in 1 .. n + 1 /\ n # n + 1 /\ k - 1 = n
          BY <2>2, <3>1, <4>2
        <5> QED
          BY <2>2, <3>1, <4>2, <5>1
      <4> QED
        BY <4>1, <4>2
    <3>2. CASE k \in 1 .. n
      <4>1. g[k] = f[k] /\ new[k] = tt[k] /\ (k # 1 => k - 1 \in 1 .. n /\ g[k - 1] = f[k - 1])
        BY <2>2, <3>2
      <4>2. f[k] = IF k = 1 THEN tt[k] ELSE f[k - 1] \o tt[k]
        BY <2>1, <3>2 DEF Flattens
      <4> QED
        BY <4>1, <4>2
    <3> QED
      BY <2>2, <3>1, <3>2
  <2> HIDE DEF g
  <2>4. g = [k \in 1 .. Len(new) |-> IF k = 1 THEN new[k] ELSE g[k - 1] \o new[k]]
    <3>1. g = [k \in 1 .. n + 1 |-> g[k]]
      BY DEF g
    <3> QED
      BY <2>2, <2>3, <3>1
  <2>5. Flattens(g, new)
    BY <2>4 DEF Flattens
  <2> QED
    BY <2>2, <2>5 DEF new
<1>3. ss \in Good
  <2> HIDE DEF Good
  <2> QED
    BY <1>1, <1>2, Sequences
<1> QED
  BY <1>3, Zenon

(* Flattening nothing.                                                     *)
LEMMA FlattenFirst == FlattenSeq(<<>>) = <<>>
BY EmptySeq DEF FlattenSeq

(* Flattening one more sequence appends it.                                *)
LEMMA FlattenStep ==
    ASSUME NEW X, NEW ss \in Seq(Seq(X)), NEW s \in Seq(X)
    PROVE  FlattenSeq(Append(ss, s)) = FlattenSeq(ss) \o s
<1> DEFINE n == Len(ss)
           new == Append(ss, s)
           f == CHOOSE h : Flattens(h, ss)
           g == CHOOSE h : Flattens(h, new)
           Same == {k \in 0 .. n : k # 0 => f[k] = g[k]}
<1>1. /\ n \in Nat /\ Len(new) = n + 1 /\ new \in Seq(Seq(X))
      /\ new[n + 1] = s /\ \A k \in 1 .. n : new[k] = ss[k]
  BY LenProperties, AppendProperties
<1>2. Flattens(f, ss) /\ Flattens(g, new)
  BY <1>1, FlattenExists
<1>3. (n # 0 => FlattenSeq(ss) = f[n]) /\ FlattenSeq(new) = g[n + 1]
  <2>1. Len(new) # 0
    BY <1>1
  <2>2. FlattenSeq(new) = g[Len(new)]
    BY <2>1, FlattenIs
  <2>3. Len(ss) # 0 => FlattenSeq(ss) = f[Len(ss)]
    BY FlattenIs
  <2> HIDE DEF f, g, new
  <2> QED
    BY <1>1, <2>2, <2>3
<1> HIDE DEF f, g, new
<1>4. /\ \A k \in 1 .. n : f[k] = IF k = 1 THEN ss[k] ELSE f[k - 1] \o ss[k]
      /\ \A k \in 1 .. n + 1 : g[k] = IF k = 1 THEN new[k] ELSE g[k - 1] \o new[k]
  BY <1>1, <1>2 DEF Flattens
<1>5. 0 \in Same
  BY <1>1
<1>6. ASSUME NEW k \in 0 .. n - 1, k \in Same PROVE k + 1 \in Same
  <2>1. k + 1 \in 1 .. n /\ k + 1 \in 0 .. n /\ k + 1 \in 1 .. n + 1 /\ (k + 1) - 1 = k
    BY <1>1
  <2>2. /\ f[k + 1] = IF k = 0 THEN ss[k + 1] ELSE f[k] \o ss[k + 1]
        /\ g[k + 1] = IF k = 0 THEN new[k + 1] ELSE g[k] \o new[k + 1]
    BY <1>1, <1>4, <2>1
  <2>3. (k # 0 => f[k] = g[k]) /\ ss[k + 1] = new[k + 1]
    BY <1>1, <1>6, <2>1
  <2> QED
    BY <2>1, <2>2, <2>3
<1>7. n \in Same
  <2> HIDE DEF Same
  <2>1. 0 .. n \subseteq Same
    BY <1>1, <1>5, <1>6, UpTo
  <2> QED
    BY <1>1, <2>1
<1>8. g[n + 1] = IF n = 0 THEN s ELSE g[n] \o s
  BY <1>1, <1>4
<1>9. CASE n = 0
  <2>1. ss = <<>>
    BY <1>9, EmptySeq
  <2>2. FlattenSeq(ss) \o s = s
    BY <2>1, FlattenFirst, ConcatEmptySeq
  <2> QED
    BY <1>3, <1>8, <1>9, <2>2 DEF new
<1>10. CASE n # 0
  BY <1>3, <1>7, <1>8, <1>10 DEF new
<1> QED
  BY <1>9, <1>10

(* A flattened sequence has the elements of its sequences.                 *)
LEMMA FlattenType ==
    ASSUME NEW X, NEW ss \in Seq(Seq(X))
    PROVE  FlattenSeq(ss) \in Seq(X)
<1> DEFINE Good == {tt \in Seq(Seq(X)) : FlattenSeq(tt) \in Seq(X)}
<1>1. <<>> \in Good
  BY EmptySeq, FlattenFirst
<1>2. ASSUME NEW tt \in Seq(Seq(X)), NEW t \in Seq(X), tt \in Good
      PROVE  Append(tt, t) \in Good
  BY <1>2, FlattenStep, AppendProperties, ConcatProperties
<1> HIDE DEF Good
<1>3. ss \in Good
  BY <1>1, <1>2, Sequences
<1> QED
  BY <1>3 DEF Good

(* Results of one event each, and results of at most one.                  *)
LEMMA FlattenOnes ==
    ASSUME NEW X, NEW s \in Seq(X), NEW ss \in Seq(Seq(X)), Len(ss) = Len(s),
           \A k \in 1 .. Len(s) : ss[k] = <<s[k]>>
    PROVE  FlattenSeq(ss) = s
<1> DEFINE Ones(t) == [k \in 1 .. Len(t) |-> <<t[k]>>]
           Good == {t \in Seq(X) : FlattenSeq(Ones(t)) = t}
<1>1. <<>> \in Good
  <2>1. Ones(<<>>) = <<>>
    BY EmptySeq
  <2> QED
    BY <2>1, EmptySeq, FlattenFirst
<1>2. ASSUME NEW t \in Seq(X), NEW e \in X, t \in Good PROVE Append(t, e) \in Good
  <2>0. /\ Len(t) \in Nat /\ t \in [1 .. Len(t) -> X]
        /\ Append(t, e) \in Seq(X) /\ Len(Append(t, e)) = Len(t) + 1
        /\ \A k \in 1 .. Len(t) : Append(t, e)[k] = t[k]
        /\ Append(t, e)[Len(t) + 1] = e
    BY LenProperties, AppendProperties
  <2>1. Ones(t) \in Seq(Seq(X)) /\ <<e>> \in Seq(X) /\ Len(Ones(t)) = Len(t)
    <3>1. \A k \in 1 .. Len(t) : <<t[k]>> \in Seq(X)
      BY <2>0
    <3> QED
      BY <2>0, <3>1
  <2>2. Ones(Append(t, e)) = Append(Ones(t), <<e>>)
    <3>1. /\ Append(Ones(t), <<e>>) \in Seq(Seq(X))
          /\ Len(Append(Ones(t), <<e>>)) = Len(t) + 1
          /\ \A k \in 1 .. Len(t) : Append(Ones(t), <<e>>)[k] = Ones(t)[k]
          /\ Append(Ones(t), <<e>>)[Len(t) + 1] = <<e>>
      BY <2>1, AppendProperties
    <3>2. Append(Ones(t), <<e>>) = [k \in 1 .. Len(t) + 1 |-> Append(Ones(t), <<e>>)[k]]
      BY <3>1, LenProperties
    <3>3. \A k \in 1 .. Len(t) + 1 : <<Append(t, e)[k]>> = Append(Ones(t), <<e>>)[k]
      BY <2>0, <3>1
    <3> QED
      BY <2>0, <3>2, <3>3
  <2>3. FlattenSeq(Append(Ones(t), <<e>>)) = FlattenSeq(Ones(t)) \o <<e>>
    BY <2>1, FlattenStep
  <2>4. FlattenSeq(Ones(t)) = t
    BY <1>2
  <2> HIDE DEF Ones
  <2>5. FlattenSeq(Ones(Append(t, e))) = Append(t, e)
    BY <2>2, <2>3, <2>4, AppendIsConcat
  <2> QED
    BY <2>0, <2>5
<1>3. s \in Good
  <2> HIDE DEF Good
  <2> QED
    BY <1>1, <1>2, Sequences
<1>4. ss = Ones(s)
  BY LenProperties
<1> QED
  BY <1>3, <1>4

(* CobsDecode solves an equation, from the end of the frame backwards.     *)
BlockAt(f, frame, i) ==
    IF i > Len(frame) THEN Success(<<>>)
    ELSE LET code == frame[i]
             end == i + code
             rest == f[end]
         IN  IF code = 0 \/ end > Len(frame) + 1 THEN Failure
             ELSE IF ~rest.ok THEN Failure
             ELSE Success(SubSeq(frame, i + 1, end - 1) \o Gap(code, end, frame) \o rest.data)

Unstuffs(f, frame) == f = [i \in 1 .. Len(frame) + 1 |-> BlockAt(f, frame, i)]

(* What the decoder has from each position on.                             *)
Blocks(frame) == CHOOSE f : Unstuffs(f, frame)

(* CobsDecode begins at the first block.                                   *)
LEMMA CobsDecodeIs == ASSUME NEW frame PROVE CobsDecode(frame) = Blocks(frame)[1]
BY DEF CobsDecode, Blocks, Unstuffs, BlockAt

(* A block depends on later ones only.                                     *)
LEMMA BlockLooksAhead ==
    ASSUME NEW frame \in Seq(Byte), NEW f, NEW g, NEW i \in 1 .. Len(frame) + 1,
           \A j \in i + 1 .. Len(frame) + 1 : f[j] = g[j]
    PROVE  BlockAt(f, frame, i) = BlockAt(g, frame, i)
<1>1. Len(frame) \in Nat /\ Full \in Nat
  BY LenProperties, WireAssumption DEF WireAssumption
<1>2. CASE i > Len(frame)
  BY <1>2 DEF BlockAt
<1>3. CASE i <= Len(frame)
  <2> DEFINE end == i + frame[i]
  <2>1. frame[i] \in Nat /\ end \in Nat
    BY <1>1, <1>3, ElementOfSeq DEF Byte
  <2>2. CASE frame[i] = 0 \/ end > Len(frame) + 1
    BY <1>3, <2>2 DEF BlockAt
  <2>3. CASE ~(frame[i] = 0 \/ end > Len(frame) + 1)
    <3>1. f[end] = g[end]
      BY <1>1, <2>1, <2>3
    <3> QED
      BY <3>1 DEF BlockAt
  <2> QED
    BY <2>2, <2>3
<1> QED
  BY <1>1, <1>2, <1>3

(* The equation of the decoder has a solution for every frame.             *)
LEMMA BlocksExist ==
    ASSUME NEW frame \in Seq(Byte)
    PROVE  Unstuffs(Blocks(frame), frame)
<1> DEFINE n == Len(frame)
           Good == {m \in 0 .. n : \E f : \A i \in n + 1 - m .. n + 1 : f[i] = BlockAt(f, frame, i)}
<1>1. n \in Nat
  BY LenProperties
<1>2. 0 \in Good
  <2> DEFINE f == [i \in {n + 1} |-> Success(<<>>)]
  <2>1. \A i \in n + 1 - 0 .. n + 1 : i = n + 1 /\ f[i] = Success(<<>>)
    BY <1>1
  <2> HIDE DEF f
  <2>2. \A i \in n + 1 - 0 .. n + 1 : f[i] = BlockAt(f, frame, i)
    BY <1>1, <2>1 DEF BlockAt
  <2> QED
    BY <1>1, <2>2
<1>3. ASSUME NEW m \in 0 .. n - 1, m \in Good PROVE m + 1 \in Good
  <2>1. PICK f : \A i \in n + 1 - m .. n + 1 : f[i] = BlockAt(f, frame, i)
    BY <1>3
  <2> DEFINE first == n - m
             g == [i \in 1 .. n + 1 |-> IF i = first THEN BlockAt(f, frame, first) ELSE f[i]]
  <2>2. first \in 1 .. n /\ n + 1 - (m + 1) = first /\ n + 1 - m = first + 1
    BY <1>1
  <2> HIDE DEF first
  <2>3. g[first] = BlockAt(f, frame, first) /\ \A j \in first + 1 .. n + 1 : g[j] = f[j]
    BY <1>1, <2>2
  <2> HIDE DEF g
  <2>4. ASSUME NEW i \in first .. n + 1 PROVE g[i] = BlockAt(g, frame, i)
    <3>1. i \in 1 .. n + 1 /\ \A j \in i + 1 .. n + 1 : f[j] = g[j]
      BY <1>1, <2>2, <2>3
    <3>2. BlockAt(f, frame, i) = BlockAt(g, frame, i)
      BY <3>1, BlockLooksAhead
    <3>3. CASE i = first
      BY <2>3, <3>2, <3>3
    <3>4. CASE i # first
      <4>1. i \in first + 1 .. n + 1
        BY <1>1, <2>2, <3>4
      <4>2. i \in n + 1 - m .. n + 1
        BY <2>2, <4>1
      <4>3. f[i] = BlockAt(f, frame, i)
        BY <2>1, <4>2
      <4> QED
        BY <2>3, <3>2, <4>1, <4>3
    <3> QED
      BY <3>3, <3>4
  <2>5. \E h : \A i \in n + 1 - (m + 1) .. n + 1 : h[i] = BlockAt(h, frame, i)
    BY <2>2, <2>4
  <2> QED
    BY <1>1, <2>5
<1>4. n \in Good
  <2> HIDE DEF Good
  <2>1. 0 .. n \subseteq Good
    BY <1>1, <1>2, <1>3, UpTo
  <2> QED
    BY <1>1, <2>1
<1>5. PICK f : \A i \in 1 .. n + 1 : f[i] = BlockAt(f, frame, i)
  <2>1. n + 1 - n = 1
    BY <1>1
  <2> QED
    BY <1>4, <2>1
<1> DEFINE g == [i \in 1 .. n + 1 |-> f[i]]
<1>6. \A i \in 1 .. n + 1 : g[i] = f[i]
  OBVIOUS
<1> HIDE DEF g
<1>7. ASSUME NEW i \in 1 .. n + 1 PROVE g[i] = BlockAt(g, frame, i)
  <2>1. \A j \in i + 1 .. n + 1 : f[j] = g[j]
    BY <1>1, <1>6
  <2>2. BlockAt(f, frame, i) = BlockAt(g, frame, i)
    BY <2>1, BlockLooksAhead
  <2> QED
    BY <1>5, <1>6, <2>2
<1>8. g = [i \in 1 .. n + 1 |-> BlockAt(g, frame, i)]
  <2>1. g = [i \in 1 .. n + 1 |-> g[i]]
    BY DEF g
  <2> QED
    BY <1>7, <2>1
<1>9. \E h : Unstuffs(h, frame)
  BY <1>8 DEF Unstuffs
<1> QED
  BY <1>9, Zenon DEF Blocks

(* A block is the bytes behind its code, perhaps a zero, and what follows; *)
(* past the end there is nothing.                                          *)
BlockOf(frame, i, end) ==
    SubSeq(frame, i + 1, end - 1) \o Gap(frame[i], end, frame) \o Blocks(frame)[end].data

(* The decoder at a position, by what it is behind the block there.        *)
LEMMA BlockStep ==
    ASSUME NEW frame \in Seq(Byte)
    PROVE  /\ Blocks(frame)[Len(frame) + 1] = Success(<<>>)
           /\ \A i \in 1 .. Len(frame) : \A end \in 1 .. Len(frame) + 1 :
                 (end = i + frame[i] /\ frame[i] # 0 /\ Blocks(frame)[end].ok)
                 => Blocks(frame)[i] = Success(BlockOf(frame, i, end))
<1> DEFINE f == Blocks(frame)
<1>1. Len(frame) \in Nat /\ Full \in Nat
  BY LenProperties, WireAssumption DEF WireAssumption
<1>2. f = [i \in 1 .. Len(frame) + 1 |-> BlockAt(f, frame, i)]
  BY BlocksExist DEF Unstuffs
<1> HIDE DEF f
<1>3. \A i \in 1 .. Len(frame) + 1 : f[i] = BlockAt(f, frame, i)
  BY <1>2
<1>4. f[Len(frame) + 1] = Success(<<>>)
  BY <1>1, <1>3 DEF BlockAt
<1>5. ASSUME NEW i \in 1 .. Len(frame), NEW end \in 1 .. Len(frame) + 1, end = i + frame[i],
             frame[i] # 0, f[end].ok
      PROVE  f[i] = Success(BlockOf(frame, i, end))
  <2>1. frame[i] \in Nat /\ ~(i > Len(frame)) /\ ~(end > Len(frame) + 1)
    BY <1>1, <1>5, ElementOfSeq DEF Byte
  <2>2. i \in 1 .. Len(frame) + 1
    BY <1>1
  <2>3. f[i] = BlockAt(f, frame, i)
    BY <1>3, <2>2
  <2>4. BlockAt(f, frame, i) = Success(SubSeq(frame, i + 1, end - 1) \o Gap(frame[i], end, frame)
                                       \o f[end].data)
    BY <1>5, <2>1 DEF BlockAt
  <2> QED
    BY <2>3, <2>4 DEF BlockOf, f
<1> QED
  BY <1>4, <1>5 DEF f

-----------------------------------------------------------------------------
(* COBS: the decoder undoes the encoder, whatever the block length.        *)

(* An Err, or the bytes that were decoded.                                 *)
Decodes(r) == r = Failure \/ \E d \in Seq(Byte) : r = Success(d)

(* A gap is a zero or nothing.                                             *)
LEMMA GapType ==
    ASSUME NEW code, NEW end, NEW frame
    PROVE  Gap(code, end, frame) \in Seq(Byte)
<1>1. 0 \in Byte
  BY WireAssumption DEF WireAssumption, Byte
<1> QED
  BY <1>1, EmptySeq DEF Gap

(* Whatever the frame, the decoder fails or returns bytes.                 *)
LEMMA BlocksType ==
    ASSUME NEW frame \in Seq(Byte), NEW i \in 1 .. Len(frame) + 1
    PROVE  Decodes(Blocks(frame)[i])
<1> DEFINE f == Blocks(frame)
           n == Len(frame)
           Good == {m \in 0 .. n : \A j \in n + 1 - m .. n + 1 : Decodes(f[j])}
<1>1. n \in Nat /\ Full \in Nat
  BY LenProperties, WireAssumption DEF WireAssumption
<1>2. \A j \in 1 .. n + 1 : f[j] = BlockAt(f, frame, j)
  BY BlocksExist DEF Unstuffs
<1> HIDE DEF f
<1>3. 0 \in Good
  <2>1. f[n + 1] = Success(<<>>)
    BY <1>1, <1>2 DEF BlockAt
  <2>2. Decodes(f[n + 1])
    BY <2>1, EmptySeq DEF Decodes
  <2>3. \A j \in n + 1 - 0 .. n + 1 : j = n + 1
    BY <1>1
  <2> QED
    BY <1>1, <2>2, <2>3
<1>4. ASSUME NEW m \in 0 .. n - 1, m \in Good PROVE m + 1 \in Good
  <2> DEFINE j == n - m
             code == frame[j]
             end == j + code
  <2>1. j \in 1 .. n /\ j \in 1 .. n + 1 /\ n + 1 - (m + 1) = j /\ n + 1 - m = j + 1
    BY <1>1
  <2> HIDE DEF j
  <2>2. code \in Nat
    BY <1>1, <2>1, ElementOfSeq DEF Byte
  <2>3. Decodes(f[j])
    <3>1. CASE code = 0 \/ end > n + 1
      <4>1. f[j] = Failure
        BY <1>1, <1>2, <2>1, <3>1 DEF BlockAt
      <4> QED
        BY <4>1 DEF Decodes
    <3>2. CASE ~(code = 0 \/ end > n + 1)
      <4>1. end \in j + 1 .. n + 1
        BY <1>1, <2>1, <2>2, <3>2
      <4>2. Decodes(f[end])
        BY <1>4, <2>1, <4>1
      <4>3. CASE f[end] = Failure
        <5>1. f[j] = Failure
          BY <1>1, <1>2, <2>1, <3>2, <4>3 DEF BlockAt, Failure
        <5> QED
          BY <5>1 DEF Decodes
      <4>4. CASE f[end] # Failure
        <5>1. PICK d \in Seq(Byte) : f[end] = Success(d)
          BY <4>2, <4>4 DEF Decodes
        <5>2. f[end].ok /\ f[end].data = d
          BY <5>1 DEF Success
        <5> DEFINE data == SubSeq(frame, j + 1, end - 1) \o Gap(code, end, frame) \o d
        <5>3. f[j] = Success(data)
          BY <1>1, <1>2, <2>1, <3>2, <5>2 DEF BlockAt
        <5>4. \A k \in j + 1 .. end - 1 : frame[k] \in Byte
          <6>1. \A k \in j + 1 .. end - 1 : k \in 1 .. Len(frame)
            BY <1>1, <2>1, <4>1
          <6> QED
            BY <6>1, ElementOfSeq
        <5>5. SubSeq(frame, j + 1, end - 1) \in Seq(Byte)
          <6>1. j + 1 \in Int /\ end - 1 \in Int
            BY <2>1, <2>2
          <6> QED
            BY <5>4, <6>1, SubSeqProperties
        <5>6. data \in Seq(Byte)
          BY <5>5, GapType, ConcatProperties
        <5> QED
          BY <5>3, <5>6 DEF Decodes
      <4> QED
        BY <4>3, <4>4
    <3> QED
      BY <3>1, <3>2
  <2>4. ASSUME NEW k \in j .. n + 1 PROVE Decodes(f[k])
    <3>1. CASE k = j
      BY <2>3, <3>1
    <3>2. CASE k # j
      <4>1. k \in n + 1 - m .. n + 1
        BY <2>1, <3>2
      <4> QED
        BY <1>4, <4>1
    <3> QED
      BY <3>1, <3>2
  <2>5. \A k \in n + 1 - (m + 1) .. n + 1 : Decodes(f[k])
    BY <2>1, <2>4
  <2> HIDE DEF Decodes
  <2> QED
    BY <1>1, <2>5
<1>5. n \in Good
  <2> HIDE DEF Good
  <2>1. 0 .. n \subseteq Good
    BY <1>1, <1>3, <1>4, UpTo
  <2> QED
    BY <1>1, <2>1
<1>6. i \in n + 1 - n .. n + 1
  BY <1>1
<1>7. Decodes(f[i])
  BY <1>5, <1>6
<1> QED
  BY <1>7 DEF f

(* Frames that begin with the blocks e has closed decode to q and to what  *)
(* they hold from the open block on.                                       *)
Leads(q, e) ==
    \A frame \in Seq(Byte) :
       (/\ e.at <= Len(frame)
        /\ \A i \in 1 .. e.at - 1 : frame[i] = e.out[i]
        /\ Blocks(frame)[e.at].ok)
       => Blocks(frame)[1] = Success(q \o Blocks(frame)[e.at].data)

(* The encoder's buffer: no zero but where the open block's code will be,  *)
(* which counts the bytes behind it.                                       *)
Encoding(e) ==
    /\ e = [out |-> e.out, at |-> e.at, code |-> e.code]
    /\ e.out \in Seq(Byte) /\ e.at \in 1 .. Len(e.out)
    /\ e.code = Len(e.out) - e.at + 1 /\ e.code \in 1 .. Full
    /\ \A i \in 1 .. Len(e.out) : i # e.at => e.out[i] # 0

OpenBlock(e) == SubSeq(e.out, e.at + 1, Len(e.out))

(* What the assumptions say of bytes.                                      *)
LEMMA Sizes == Full \in Nat /\ Full > 7 /\ 0 \in Byte /\ \A k \in 0 .. Full : k \in Byte
BY WireAssumption DEF WireAssumption, Byte, DoneT

(* The bytes of the open block.                                            *)
LEMMA OpenBlockType ==
    ASSUME NEW e, Encoding(e)
    PROVE  /\ OpenBlock(e) \in Seq(Byte) /\ Len(OpenBlock(e)) = e.code - 1
           /\ \A i \in 1 .. e.code - 1 : OpenBlock(e)[i] = e.out[e.at + i]
<1>1. Len(e.out) \in Nat /\ e.at + 1 \in Int /\ Len(e.out) \in Int
  BY LenProperties DEF Encoding
<1>2. \A i \in e.at + 1 .. Len(e.out) : e.out[i] \in Byte
  <2>1. \A i \in e.at + 1 .. Len(e.out) : i \in 1 .. Len(e.out)
    BY <1>1 DEF Encoding
  <2> QED
    BY <2>1, ElementOfSeq DEF Encoding
<1>3. /\ OpenBlock(e) \in Seq(Byte)
      /\ Len(OpenBlock(e)) = IF e.at + 1 <= Len(e.out) THEN Len(e.out) - (e.at + 1) + 1 ELSE 0
      /\ \A i \in 1 .. Len(e.out) - (e.at + 1) + 1 : OpenBlock(e)[i] = e.out[e.at + 1 + i - 1]
  BY <1>1, <1>2, SubSeqProperties DEF OpenBlock
<1>4. Len(OpenBlock(e)) = e.code - 1
  BY <1>1, <1>3 DEF Encoding
<1>5. ASSUME NEW i \in 1 .. e.code - 1
      PROVE  i \in 1 .. Len(e.out) - (e.at + 1) + 1 /\ e.at + 1 + i - 1 = e.at + i
  <2>1. Len(e.out) \in Nat /\ e.at \in 1 .. Len(e.out) /\ e.code = Len(e.out) - e.at + 1
    BY <1>1 DEF Encoding
  <2> QED
    BY <2>1
<1> QED
  BY <1>3, <1>4, <1>5

(* Closing a block puts its code in and leaves the rest as it was.         *)
LEMMA CloseType ==
    ASSUME NEW e, Encoding(e)
    PROVE  /\ Close(e) \in Seq(Byte) /\ Len(Close(e)) = Len(e.out)
           /\ Close(e)[e.at] = e.code
           /\ \A i \in 1 .. Len(e.out) : Close(e)[i] # 0 /\ (i # e.at => Close(e)[i] = e.out[i])
<1>1. e.code \in Byte /\ e.code # 0
  BY Sizes DEF Encoding
<1>2. /\ Close(e) \in Seq(Byte) /\ Len(Close(e)) = Len(e.out)
      /\ \A j \in 1 .. Len(e.out) : Close(e)[j] = IF j = e.at THEN e.code ELSE e.out[j]
  BY <1>1, ExceptSeq DEF Close, Encoding
<1> QED
  BY <1>1, <1>2 DEF Encoding

(* Concatenation as an operator of its own, for the provers to rewrite     *)
(* with and not to look into.                                              *)
a ++ b == a \o b

(* Concatenation of bytes.                                                 *)
LEMMA Joins ==
    \A a, b, c \in Seq(Byte) : a ++ b \in Seq(Byte) /\ (a ++ b) ++ c = a ++ (b ++ c)
<1>1. SUFFICES ASSUME NEW a \in Seq(Byte), NEW b \in Seq(Byte), NEW c \in Seq(Byte)
               PROVE  a ++ b \in Seq(Byte) /\ (a ++ b) ++ c = a ++ (b ++ c)
  BY Zenon
<1>2. a \o b \in Seq(Byte)
  BY ConcatProperties
<1>3. (a \o b) \o c = a \o (b \o c)
  BY ConcatAssociative
<1> QED
  BY <1>2, <1>3 DEF ++

(* The two ways of grouping a frame that the proofs need.                  *)
LEMMA Regroup ==
    \A a, b, c, d \in Seq(Byte) :
       /\ a ++ ((b ++ c) ++ d) = (a ++ b) ++ (c ++ d)
       /\ (a ++ b) ++ (c ++ d) = ((a ++ b) ++ c) ++ d
BY Joins

(* What a frame that has a closed block says there.                        *)
LEMMA ClosedBlock ==
    ASSUME NEW e, Encoding(e), NEW q \in Seq(Byte), Leads(q, e),
           NEW frame \in Seq(Byte), Len(frame) >= Len(e.out),
           \A i \in 1 .. Len(e.out) : frame[i] = Close(e)[i],
           Blocks(frame)[Len(e.out) + 1].ok
    PROVE  Blocks(frame)[1] =
              Success((q \o OpenBlock(e)) \o (Gap(e.code, Len(e.out) + 1, frame)
                                             \o Blocks(frame)[Len(e.out) + 1].data))
<1> DEFINE at == e.at
           code == e.code
           n == Len(e.out)
           end == n + 1
           block == OpenBlock(e)
           piece == SubSeq(frame, at + 1, end - 1)
           gap == Gap(code, end, frame)
           data == Blocks(frame)[end].data
<1>1. /\ n \in Nat /\ Len(frame) \in Nat /\ Len(frame) >= n /\ at \in 1 .. n
      /\ code = n - at + 1 /\ code \in 1 .. Full
  BY LenProperties DEF Encoding
<1>2. /\ frame[at] = code
      /\ \A i \in 1 .. n : i # at => frame[i] = e.out[i]
  BY <1>1, CloseType
<1>3. block \in Seq(Byte) /\ Len(block) = code - 1 /\ \A i \in 1 .. code - 1 : block[i] = e.out[at + i]
  BY OpenBlockType
<1>4. gap \in Seq(Byte)
  BY GapType
<1> HIDE DEF at, code, n, block, gap
<1>5. at <= Len(frame) /\ \A i \in 1 .. at - 1 : frame[i] = e.out[i]
  BY <1>1, <1>2
<1>6. Blocks(frame)[at].ok => Blocks(frame)[1] = Success(q \o Blocks(frame)[at].data)
  BY <1>5 DEF Leads, at
<1>7. Blocks(frame)[end].ok
  BY DEF n
<1>8. at \in 1 .. Len(frame) /\ at + frame[at] = end /\ frame[at] # 0 /\ end \in 1 .. Len(frame) + 1
  <2>1. frame[at] = code /\ code # 0
    BY <1>1, <1>2
  <2>2. at + code = end /\ at \in 1 .. Len(frame) /\ end \in 1 .. Len(frame) + 1
    BY <1>1
  <2> QED
    BY <2>1, <2>2
<1>9. Blocks(frame)[at] = Success(piece \o Gap(frame[at], end, frame) \o data)
  <2>1. Blocks(frame)[at] = Success(BlockOf(frame, at, end))
    BY <1>1, <1>7, <1>8, BlockStep
  <2> QED
    BY <2>1 DEF BlockOf
<1>10. piece = block
  <2>1. ASSUME NEW i \in at + 1 .. end - 1 PROVE i \in 1 .. Len(frame) /\ frame[i] = e.out[i]
    <3>1. i \in 1 .. n /\ i # at /\ i \in 1 .. Len(frame)
      BY <1>1 DEF end
    <3> HIDE DEF end
    <3> QED
      BY <3>1, <1>2
  <2>2. at + 1 \in Int /\ end - 1 \in Int /\ \A i \in at + 1 .. end - 1 : frame[i] \in Byte
    BY <1>1, <2>1, ElementOfSeq
  <2>3. /\ piece \in Seq(Byte)
        /\ Len(piece) = IF at + 1 <= end - 1 THEN (end - 1) - (at + 1) + 1 ELSE 0
        /\ \A i \in 1 .. (end - 1) - (at + 1) + 1 : piece[i] = frame[(at + 1) + i - 1]
    BY <2>2, SubSeqProperties
  <2>4. Len(piece) = code - 1
    BY <1>1, <2>3
  <2> HIDE DEF piece, end
  <2>5. ASSUME NEW i \in 1 .. code - 1 PROVE piece[i] = block[i]
    <3>1. /\ i \in 1 .. (end - 1) - (at + 1) + 1 /\ (at + 1) + i - 1 = at + i
          /\ at + i \in at + 1 .. end - 1
      BY <1>1 DEF end
    <3>2. piece[i] = frame[at + i]
      BY <2>3, <3>1
    <3>3. frame[at + i] = e.out[at + i]
      BY <2>1, <3>1
    <3> QED
      BY <1>3, <3>2, <3>3
  <2> QED
    BY <1>3, <2>3, <2>4, <2>5, SeqEqual
<1>11. data \in Seq(Byte)
  <2>1. Decodes(Blocks(frame)[end])
    BY <1>8, BlocksType
  <2>2. PICK d \in Seq(Byte) : Blocks(frame)[end] = Success(d)
    BY <1>7, <2>1 DEF Decodes, Failure
  <2> QED
    BY <2>2 DEF Success
<1> HIDE DEF data, piece, end
<1>12. Blocks(frame)[at].ok /\ Blocks(frame)[at].data = (block \o gap) \o data
  BY <1>2, <1>9, <1>10 DEF Success, gap
<1>13. q \o ((block \o gap) \o data) = (q \o block) \o (gap \o data)
  <2>1. q ++ ((block ++ gap) ++ data) = (q ++ block) ++ (gap ++ data)
    BY <1>3, <1>4, <1>11, Regroup
  <2> QED
    BY <2>1 DEF ++
<1> QED
  BY <1>6, <1>12, <1>13 DEF gap, data, block, code, end, n

(* A closed block leads on: the decoder comes to the next one.             *)
LEMMA NextLeads ==
    ASSUME NEW e, Encoding(e), NEW q \in Seq(Byte), Leads(q, e)
    PROVE  Leads((q \o OpenBlock(e)) \o (IF e.code # Full THEN <<0>> ELSE <<>>),
                 NextBlock(Close(e)))
<1> DEFINE next == NextBlock(Close(e))
           n == Len(e.out)
           gap == IF e.code # Full THEN <<0>> ELSE <<>>
<1>1. /\ n \in Nat /\ Len(Close(e)) = n /\ Close(e) \in Seq(Byte)
      /\ e.at \in 1 .. n
  BY LenProperties, CloseType DEF Encoding
<1>2. next.at = n + 1 /\ \A i \in 1 .. n : next.out[i] = Close(e)[i]
  BY <1>1, Sizes, AppendProperties DEF NextBlock
<1> HIDE DEF next
<1>3. ASSUME NEW frame \in Seq(Byte), next.at <= Len(frame),
             \A i \in 1 .. next.at - 1 : frame[i] = next.out[i],
             Blocks(frame)[next.at].ok
      PROVE  Blocks(frame)[1] = Success(((q \o OpenBlock(e)) \o gap)
                                         \o Blocks(frame)[next.at].data)
  <2> DEFINE data == Blocks(frame)[next.at].data
             block == OpenBlock(e)
  <2>1. Len(frame) \in Nat /\ Len(frame) >= n /\ n + 1 <= Len(frame)
    BY <1>1, <1>2, <1>3, LenProperties
  <2>2. \A i \in 1 .. n : frame[i] = Close(e)[i]
    <3>1. \A i \in 1 .. n : i \in 1 .. next.at - 1
      BY <1>1, <1>2
    <3> QED
      BY <1>2, <1>3, <3>1
  <2>3. Blocks(frame)[n + 1].ok
    BY <1>2, <1>3
  <2>4. Blocks(frame)[1] = Success((q \o block) \o (Gap(e.code, n + 1, frame)
                                                   \o Blocks(frame)[n + 1].data))
    BY <2>1, <2>2, <2>3, ClosedBlock
  <2>5. Gap(e.code, n + 1, frame) = gap
    BY <2>1 DEF Gap
  <2>6. data \in Seq(Byte)
    <3>1. next.at \in 1 .. Len(frame) + 1
      BY <1>1, <1>2, <2>1
    <3>2. Decodes(Blocks(frame)[next.at])
      BY <3>1, BlocksType
    <3>3. PICK d \in Seq(Byte) : Blocks(frame)[next.at] = Success(d)
      BY <1>3, <3>2 DEF Decodes, Failure
    <3> QED
      BY <3>3 DEF Success
  <2>7. gap \in Seq(Byte) /\ block \in Seq(Byte)
    BY Sizes, EmptySeq, OpenBlockType
  <2> HIDE DEF data, gap, block
  <2>8. (q \o block) \o (gap \o data) = ((q \o block) \o gap) \o data
    <3>1. (q ++ block) ++ (gap ++ data) = ((q ++ block) ++ gap) ++ data
      BY <2>6, <2>7, Regroup
    <3> QED
      BY <3>1 DEF ++
  <2> QED
    BY <1>2, <2>4, <2>5, <2>8 DEF data, block
<1> QED
  BY <1>3 DEF Leads, next

(* The encoder's state behind a payload: the payload is what its closed    *)
(* blocks decode to and what is in the open one, and every code that is    *)
(* not a zero of the payload has a full block to itself.                   *)
Encoded(p, e) ==
    /\ Encoding(e) /\ e.code < Full
    /\ \E over \in Nat : /\ Len(e.out) = Len(p) + over + 1
                         /\ over * (Full - 1) + e.code - 1 <= Len(p)
    /\ \E q \in Seq(Byte) : Leads(q, e) /\ p = q ++ OpenBlock(e)

(* The decoder begins where the encoder does.                              *)
LEMMA EmptyLeads == Leads(<<>>, NextBlock(<<>>))
<1>1. NextBlock(<<>>).at = 1
  BY EmptySeq DEF NextBlock
<1>2. ASSUME NEW frame \in Seq(Byte), 1 <= Len(frame), Blocks(frame)[1].ok
      PROVE  Blocks(frame)[1] = Success(<<>> \o Blocks(frame)[1].data)
  <2>1. Decodes(Blocks(frame)[1])
    <3>1. 1 \in 1 .. Len(frame) + 1
      BY <1>2, LenProperties
    <3> QED
      BY <3>1, BlocksType
  <2>2. PICK d \in Seq(Byte) : Blocks(frame)[1] = Success(d)
    BY <1>2, <2>1 DEF Decodes, Failure
  <2>3. Blocks(frame)[1].data = d /\ <<>> \o d = d
    BY <2>2, ConcatEmptySeq DEF Success
  <2> QED
    BY <2>2, <2>3
<1> QED
  BY <1>1, <1>2 DEF Leads

(* A new block is open and empty.                                          *)
LEMMA NextType ==
    ASSUME NEW e, Encoding(e)
    PROVE  LET next == NextBlock(Close(e))
           IN  /\ Encoding(next) /\ next.code = 1 /\ Len(next.out) = Len(e.out) + 1
               /\ OpenBlock(next) = <<>>
<1> DEFINE next == NextBlock(Close(e))
           n == Len(e.out)
<1>1. n \in Nat /\ Len(Close(e)) = n /\ Close(e) \in Seq(Byte) /\ \A i \in 1 .. n : Close(e)[i] # 0
  BY LenProperties, CloseType DEF Encoding
<1>2. /\ next.out \in Seq(Byte) /\ Len(next.out) = n + 1 /\ next.at = n + 1 /\ next.code = 1
      /\ next = [out |-> next.out, at |-> next.at, code |-> next.code]
      /\ \A i \in 1 .. n : next.out[i] = Close(e)[i]
  BY <1>1, Sizes, AppendProperties DEF NextBlock
<1> HIDE DEF next
<1>3. \A i \in 1 .. Len(next.out) : i # next.at => next.out[i] # 0
  <2>1. ASSUME NEW i \in 1 .. Len(next.out), i # next.at PROVE next.out[i] # 0
    <3>1. i \in 1 .. n
      BY <1>1, <1>2, <2>1
    <3> QED
      BY <1>1, <1>2, <3>1
  <2> QED
    BY <2>1
<1>4. Encoding(next)
  <2>1. next.at \in 1 .. Len(next.out) /\ next.code = Len(next.out) - next.at + 1 /\ next.code \in 1 .. Full
    BY <1>1, <1>2, Sizes
  <2> QED
    BY <1>2, <1>3, <2>1 DEF Encoding
<1>5. OpenBlock(next) = <<>>
  BY <1>1, <1>2, SubSeqEmpty DEF OpenBlock
<1> QED
  BY <1>2, <1>4, <1>5 DEF next

(* A byte more in the open block.                                          *)
LEMMA LongerType ==
    ASSUME NEW e, Encoding(e), e.code < Full, NEW b \in Byte, b # 0
    PROVE  LET longer == [e EXCEPT !.out = Append(@, b), !.code = @ + 1]
           IN  /\ Encoding(longer) /\ longer.code = e.code + 1
               /\ Len(longer.out) = Len(e.out) + 1
               /\ OpenBlock(longer) = OpenBlock(e) ++ <<b>>
               /\ \A q : Leads(q, e) => Leads(q, longer)
<1> DEFINE longer == [e EXCEPT !.out = Append(@, b), !.code = @ + 1]
           n == Len(e.out)
<1>1. /\ n \in Nat /\ e.at \in 1 .. n /\ e.code = n - e.at + 1 /\ e.code \in 1 .. Full
      /\ e.out \in Seq(Byte)
      /\ \A i \in 1 .. n : i # e.at => e.out[i] # 0
  BY LenProperties DEF Encoding
<1>2. /\ longer.out = Append(e.out, b) /\ longer.at = e.at /\ longer.code = e.code + 1
      /\ longer = [out |-> longer.out, at |-> longer.at, code |-> longer.code]
  <2>1. PICK out, at, code : e = [out |-> out, at |-> at, code |-> code]
    BY DEF Encoding
  <2>2. code \in Nat /\ e.out = out /\ e.at = at /\ e.code = code
    BY <1>1, <2>1
  <2>3. longer = [e EXCEPT !.out = Append(@, b), !.code = @ + 1]
    OBVIOUS
  <2> HIDE DEF longer
  <2>4. longer = [out |-> Append(out, b), at |-> at, code |-> code + 1]
    BY <2>1, <2>2, <2>3
  <2> QED
    BY <2>2, <2>4
<1> HIDE DEF longer
<1>3. /\ longer.out \in Seq(Byte) /\ Len(longer.out) = n + 1 /\ longer.out[n + 1] = b
      /\ \A i \in 1 .. n : longer.out[i] = e.out[i]
  BY <1>1, <1>2, AppendProperties
<1>4. Encoding(longer)
  <2>1. ASSUME NEW i \in 1 .. Len(longer.out), i # longer.at PROVE longer.out[i] # 0
    <3>1. i \in 1 .. n \/ i = n + 1
      BY <1>1, <1>3
    <3> QED
      BY <1>1, <1>2, <1>3, <2>1, <3>1
  <2>2. /\ longer.at \in 1 .. Len(longer.out)
        /\ longer.code = Len(longer.out) - longer.at + 1 /\ longer.code \in 1 .. Full
    BY <1>1, <1>2, <1>3, Sizes
  <2> QED
    BY <1>2, <1>3, <2>1, <2>2 DEF Encoding
<1>5. OpenBlock(longer) = OpenBlock(e) \o <<b>>
  <2>1. OpenBlock(e) \in Seq(Byte) /\ Len(OpenBlock(e)) = e.code - 1
        /\ \A i \in 1 .. e.code - 1 : OpenBlock(e)[i] = e.out[e.at + i]
    BY OpenBlockType
  <2>2. OpenBlock(longer) \in Seq(Byte) /\ Len(OpenBlock(longer)) = longer.code - 1
        /\ \A i \in 1 .. longer.code - 1 : OpenBlock(longer)[i] = longer.out[longer.at + i]
    BY <1>4, OpenBlockType
  <2>3. OpenBlock(e) \o <<b>> = Append(OpenBlock(e), b)
    BY <2>1, AppendIsConcat
  <2>4. PICK long : long = Append(OpenBlock(e), b)
    OBVIOUS
  <2>5. /\ long \in Seq(Byte) /\ Len(long) = e.code
        /\ \A i \in 1 .. e.code - 1 : long[i] = OpenBlock(e)[i]
        /\ long[e.code] = b
    <3>1. /\ long \in Seq(Byte) /\ Len(long) = Len(OpenBlock(e)) + 1
          /\ \A i \in 1 .. Len(OpenBlock(e)) : long[i] = OpenBlock(e)[i]
          /\ long[Len(OpenBlock(e)) + 1] = b
      BY <2>1, <2>4, AppendProperties
    <3> QED
      BY <1>1, <2>1, <3>1
  <2>6. ASSUME NEW i \in 1 .. e.code PROVE OpenBlock(longer)[i] = long[i]
    <3>1. CASE i = e.code
      <4>1. e.at + i = n + 1 /\ i \in 1 .. longer.code - 1
        BY <1>1, <1>2, <3>1
      <4> QED
        BY <1>2, <1>3, <2>2, <2>5, <3>1, <4>1
    <3>2. CASE i # e.code
      <4>1. i \in 1 .. longer.code - 1 /\ i \in 1 .. e.code - 1 /\ e.at + i \in 1 .. n
        BY <1>1, <1>2, <3>2
      <4> QED
        BY <1>2, <1>3, <2>1, <2>2, <2>5, <4>1
    <3> QED
      BY <3>1, <3>2
  <2>7. Len(OpenBlock(longer)) = Len(long) /\ \A i \in 1 .. Len(long) : OpenBlock(longer)[i] = long[i]
    BY <1>1, <1>2, <2>2, <2>5, <2>6
  <2>8. OpenBlock(longer) = long
    <3>1. OpenBlock(longer) \in Seq(Byte) /\ long \in Seq(Byte)
      BY <2>2, <2>5
    <3> QED
      BY <2>7, <3>1, SeqEqual
  <2> QED
    BY <2>3, <2>4, <2>8
<1>6. ASSUME NEW q, Leads(q, e) PROVE Leads(q, longer)
  <2>1. \A i \in 1 .. longer.at - 1 : i \in 1 .. n
    BY <1>1, <1>2
  <2>2. \A i \in 1 .. e.at - 1 : longer.out[i] = e.out[i]
    BY <1>2, <1>3, <2>1
  <2>3. ASSUME NEW frame \in Seq(Byte), longer.at <= Len(frame),
               \A i \in 1 .. longer.at - 1 : frame[i] = longer.out[i],
               Blocks(frame)[longer.at].ok
        PROVE  Blocks(frame)[1] = Success(q \o Blocks(frame)[longer.at].data)
    <3>1. e.at <= Len(frame) /\ Blocks(frame)[e.at].ok /\ \A i \in 1 .. e.at - 1 : frame[i] = e.out[i]
      BY <1>2, <2>2, <2>3
    <3>2. Blocks(frame)[1] = Success(q \o Blocks(frame)[e.at].data)
      BY <1>6, <3>1 DEF Leads
    <3> QED
      BY <1>2, <3>2
  <2> QED
    BY <2>3 DEF Leads
<1> QED
  BY <1>1, <1>2, <1>3, <1>4, <1>5, <1>6 DEF longer, ++

(* The encoder has encoded nothing at first.                               *)
LEMMA EncodedFirst == Encoded(<<>>, NextBlock(<<>>))
<1> DEFINE e == NextBlock(<<>>)
<1>1. /\ <<>> \in Seq(Byte) /\ Len(<<>>) = 0
      /\ e.out = Append(<<>>, 0) /\ e.at = 1 /\ e.code = 1
      /\ e = [out |-> e.out, at |-> e.at, code |-> e.code]
  BY EmptySeq DEF NextBlock
<1> HIDE DEF e
<1>2. e.out \in Seq(Byte) /\ Len(e.out) = 1
  <2>1. Append(<<>>, 0) \in Seq(Byte) /\ Len(Append(<<>>, 0)) = Len(<<>>) + 1
    BY <1>1, Sizes, AppendProperties
  <2> QED
    BY <1>1, <2>1
<1>3. Encoding(e) /\ e.code < Full
  BY <1>1, <1>2, Sizes DEF Encoding
<1>4. OpenBlock(e) = <<>>
  BY <1>1, <1>2, SubSeqEmpty DEF OpenBlock
<1>5. Leads(<<>>, e) /\ <<>> = <<>> ++ OpenBlock(e)
  BY <1>1, <1>4, EmptyLeads, ConcatEmptySeq DEF ++, e
<1>6. /\ 0 \in Nat /\ Len(e.out) = Len(<<>>) + 0 + 1
      /\ 0 * (Full - 1) + e.code - 1 <= Len(<<>>)
  BY <1>1, <1>2, Sizes
<1> QED
  BY <1>1, <1>3, <1>5, <1>6 DEF Encoded, e

(* A byte more is encoded, be it zero, in a block, or the end of one.      *)
LEMMA EncodedNext ==
    ASSUME NEW p \in Seq(Byte), NEW e, Encoded(p, e), NEW b \in Byte
    PROVE  Encoded(Append(p, b), EncodeByte(e, b))
<1> DEFINE n == Len(e.out)
           next == EncodeByte(e, b)
           longer == [e EXCEPT !.out = Append(@, b), !.code = @ + 1]
<1>1. PICK over \in Nat : n = Len(p) + over + 1 /\ over * (Full - 1) + e.code - 1 <= Len(p)
  BY DEF Encoded
<1>2. PICK q \in Seq(Byte) : Leads(q, e) /\ p = q ++ OpenBlock(e)
  BY DEF Encoded
<1>3. /\ Encoding(e) /\ e.code < Full /\ e.code \in 1 .. Full
      /\ Len(p) \in Nat /\ n \in Nat /\ Len(Append(p, b)) = Len(p) + 1
      /\ Append(p, b) \in Seq(Byte)
  BY LenProperties, AppendProperties DEF Encoded, Encoding
<1>4. /\ OpenBlock(e) \in Seq(Byte) /\ <<b>> \in Seq(Byte) /\ <<0>> \in Seq(Byte)
      /\ Append(p, b) = p ++ <<b>>
  BY <1>3, OpenBlockType, Sizes, AppendIsConcat DEF ++
<1>5. CASE b = 0
  <2>1. next = NextBlock(Close(e))
    BY <1>5 DEF EncodeByte
  <2>2. /\ Encoding(next) /\ next.code = 1 /\ Len(next.out) = n + 1 /\ OpenBlock(next) = <<>>
    BY <1>3, <2>1, NextType
  <2>3. Leads(Append(p, b), next)
    <3>1. Leads((q \o OpenBlock(e)) \o <<0>>, next)
      BY <1>2, <1>3, <2>1, NextLeads
    <3> QED
      BY <1>2, <1>4, <1>5, <3>1 DEF ++
  <2> HIDE DEF next
  <2>4. Append(p, b) = Append(p, b) ++ OpenBlock(next)
    BY <1>3, <2>2, ConcatEmptySeq DEF ++
  <2>5. /\ Len(next.out) = Len(Append(p, b)) + over + 1
        /\ over * (Full - 1) + next.code - 1 <= Len(Append(p, b))
    <3>1. over * (Full - 1) \in Int
      BY Sizes
    <3> QED
      BY <1>1, <1>3, <2>2, <3>1
  <2>6. next.code < Full
    BY <2>2, Sizes
  <2>7. /\ \E o \in Nat : /\ Len(next.out) = Len(Append(p, b)) + o + 1
                          /\ o * (Full - 1) + next.code - 1 <= Len(Append(p, b))
        /\ \E r \in Seq(Byte) : Leads(r, next) /\ Append(p, b) = r ++ OpenBlock(next)
    BY <1>3, <2>3, <2>4, <2>5
  <2> QED
    BY <2>2, <2>6, <2>7 DEF Encoded, next
<1>6. CASE b # 0
  <2>1. /\ Encoding(longer) /\ longer.code = e.code + 1 /\ Len(longer.out) = n + 1
        /\ OpenBlock(longer) = OpenBlock(e) ++ <<b>>
        /\ Leads(q, longer)
    BY <1>2, <1>3, <1>6, LongerType
  <2>2. next = IF longer.code = Full THEN NextBlock(Close(longer)) ELSE longer
    BY <1>6 DEF EncodeByte
  <2> HIDE DEF longer, next
  <2>3. Append(p, b) = q ++ OpenBlock(longer)
    <3>1. (q ++ OpenBlock(e)) ++ <<b>> = q ++ (OpenBlock(e) ++ <<b>>)
      BY <1>4, Joins
    <3> QED
      BY <1>2, <1>4, <2>1, <3>1
  <2>4. over * (Full - 1) \in Int /\ Full \in Int /\ e.code \in Int
    BY <1>3, Sizes
  <2>5. CASE longer.code = Full
    <3>1. next = NextBlock(Close(longer))
      BY <2>2, <2>5
    <3>2. Encoding(next) /\ next.code = 1 /\ Len(next.out) = n + 2 /\ OpenBlock(next) = <<>>
      <4>1. Encoding(next) /\ next.code = 1 /\ Len(next.out) = (n + 1) + 1 /\ OpenBlock(next) = <<>>
        BY <2>1, <3>1, NextType
      <4> QED
        BY <1>3, <4>1
    <3>3. Leads(Append(p, b), next)
      <4>1. Leads((q \o OpenBlock(longer)) \o <<>>, next)
        BY <2>1, <2>5, <3>1, NextLeads
      <4>2. q \o OpenBlock(longer) = Append(p, b)
        BY <2>3 DEF ++
      <4> QED
        BY <1>3, <4>1, <4>2, ConcatEmptySeq
    <3>4. Append(p, b) = Append(p, b) ++ OpenBlock(next)
      BY <1>3, <3>2, ConcatEmptySeq DEF ++
    <3>5. /\ Len(next.out) = Len(Append(p, b)) + (over + 1) + 1
          /\ (over + 1) * (Full - 1) + next.code - 1 <= Len(Append(p, b))
      <4>1. (over + 1) * (Full - 1) = over * (Full - 1) + (Full - 1)
        BY Sizes
      <4>2. e.code = Full - 1
        BY <2>1, <2>4, <2>5
      <4>3. over * (Full - 1) + (Full - 1) - 1 <= Len(p)
        BY <1>1, <4>2
      <4> QED
        BY <1>1, <1>3, <2>4, <3>2, <4>1, <4>3
    <3>6. next.code < Full /\ over + 1 \in Nat
      BY <3>2, Sizes
    <3>7. /\ \E o \in Nat : /\ Len(next.out) = Len(Append(p, b)) + o + 1
                            /\ o * (Full - 1) + next.code - 1 <= Len(Append(p, b))
          /\ \E r \in Seq(Byte) : Leads(r, next) /\ Append(p, b) = r ++ OpenBlock(next)
      BY <1>3, <3>3, <3>4, <3>5, <3>6
    <3> QED
      BY <3>2, <3>6, <3>7 DEF Encoded, next
  <2>6. CASE longer.code # Full
    <3>1. next = longer
      BY <2>2, <2>6
    <3>2. longer.code < Full
      BY <1>3, <2>1, <2>4, <2>6
    <3>3. /\ Len(longer.out) = Len(Append(p, b)) + over + 1
          /\ over * (Full - 1) + longer.code - 1 <= Len(Append(p, b))
      BY <1>1, <1>3, <2>1, <2>4
    <3>4. /\ \E o \in Nat : /\ Len(longer.out) = Len(Append(p, b)) + o + 1
                            /\ o * (Full - 1) + longer.code - 1 <= Len(Append(p, b))
          /\ \E r \in Seq(Byte) : Leads(r, longer) /\ Append(p, b) = r ++ OpenBlock(longer)
      BY <2>1, <2>3, <3>3
    <3> QED
      BY <2>1, <3>1, <3>2, <3>4 DEF Encoded, next
  <2> QED
    BY <2>5, <2>6
<1> QED
  BY <1>5, <1>6

(* By induction: the encoder's state encodes the payload.                  *)
LEMMA EncoderEncodes == ASSUME NEW p \in Seq(Byte) PROVE Encoded(p, Encoder(p))
<1> DEFINE Good == {s \in Seq(Byte) : Encoded(s, Encoder(s))}
<1>1. <<>> \in Good
  BY EmptySeq, EncodedFirst, EncoderFirst
<1>2. ASSUME NEW s \in Seq(Byte), NEW b \in Byte, s \in Good PROVE Append(s, b) \in Good
  BY <1>2, EncodedNext, EncoderStep, AppendProperties
<1> HIDE DEF Good
<1>3. p \in Good
  BY <1>1, <1>2, Sequences
<1> QED
  BY <1>3 DEF Good

(* COBS, for every payload: the frame without its delimiter holds no zero, *)
(* decodes to the payload, and fits emit_frame's buffer when the payload   *)
(* fits emit_msg's.                                                        *)
THEOREM CobsRoundTrip ==
    ASSUME NEW p \in Seq(Byte)
    PROVE  LET body == Close(Encoder(p))
           IN  /\ body \in Seq(Byte) /\ body # <<>>
               /\ \A i \in 1 .. Len(body) : body[i] # 0
               /\ CobsDecode(body) = Success(p)
               /\ Len(p) <= BufSize => Len(CobsEncode(p)) <= FrameSize
<1> DEFINE e == Encoder(p)
           body == Close(e)
           n == Len(e.out)
<1>1. Encoded(p, e)
  BY EncoderEncodes
<1>2. CobsEncode(p) = Append(body, 0)
  BY DEF CobsEncode, Delim
<1> HIDE DEF e
<1>3. Encoding(e) /\ e.code < Full
  BY <1>1 DEF Encoded
<1>4. /\ body \in Seq(Byte) /\ Len(body) = n /\ \A i \in 1 .. n : body[i] # 0
  BY <1>3, CloseType
<1>5. n \in Nat /\ n >= 1 /\ e.code \in 1 .. Full
  BY <1>3, LenProperties DEF Encoding
<1>6. CobsDecode(body) = Success(p)
  <2>1. PICK q \in Seq(Byte) : Leads(q, e) /\ p = q ++ OpenBlock(e)
    BY <1>1 DEF Encoded
  <2>2. Blocks(body)[n + 1] = Success(<<>>)
    BY <1>4, BlockStep
  <2>3. Blocks(body)[n + 1].ok /\ Blocks(body)[n + 1].data = <<>>
    BY <2>2 DEF Success
  <2>4. Gap(e.code, n + 1, body) = <<>>
    BY <1>4, <1>5 DEF Gap
  <2>5. Blocks(body)[1] = Success((q \o OpenBlock(e)) \o (<<>> \o <<>>))
    <3>1. Len(body) >= n /\ \A i \in 1 .. n : body[i] = Close(e)[i]
      BY <1>4, <1>5
    <3>2. Blocks(body)[1] = Success((q \o OpenBlock(e)) \o (Gap(e.code, n + 1, body)
                                                           \o Blocks(body)[n + 1].data))
      BY <1>3, <1>4, <2>1, <2>3, <3>1, ClosedBlock
    <3> QED
      BY <2>3, <2>4, <3>2
  <2>6. <<>> \o <<>> = <<>> /\ p \o <<>> = p
    BY EmptySeq, ConcatEmptySeq
  <2>7. q \o OpenBlock(e) = p
    BY <2>1 DEF ++
  <2> QED
    BY <2>5, <2>6, <2>7, CobsDecodeIs
<1>7. ASSUME Len(p) <= BufSize PROVE Len(CobsEncode(p)) <= FrameSize
  <2>1. PICK over \in Nat : n = Len(p) + over + 1 /\ over * (Full - 1) + e.code - 1 <= Len(p)
    BY <1>1 DEF Encoded
  <2>2. Len(p) \in Nat /\ BufSize \in Nat /\ FrameSize \in Nat /\ Full - 1 \in Nat /\ Full - 1 > 0
    BY Sizes, LenProperties, WireAssumption DEF WireAssumption
  <2>3. over * (Full - 1) <= BufSize
    <3>1. over * (Full - 1) \in Int
      BY <2>2
    <3> QED
      BY <1>5, <1>7, <2>1, <2>2, <3>1
  <2>4. over <= BufSize \div (Full - 1)
    <3>1. \A o, d, s \in Nat : d > 0 /\ o * d <= s => o <= s \div d
      OBVIOUS
    <3> QED
      BY <2>2, <2>3, <3>1
  <2>5. Len(CobsEncode(p)) = n + 1
    BY <1>2, <1>4, Sizes, AppendProperties
  <2>6. BufSize + BufSize \div (Full - 1) + 2 <= FrameSize /\ BufSize \div (Full - 1) \in Int
    BY <2>2, WireAssumption DEF WireAssumption
  <2> QED
    BY <1>5, <1>7, <2>1, <2>2, <2>4, <2>5, <2>6
<1>8. body # <<>>
  BY <1>4, <1>5, EmptySeq
<1> QED
  BY <1>4, <1>6, <1>7, <1>8 DEF e

-----------------------------------------------------------------------------
(* Payloads: words and strings, and the event read back from them.         *)

Base == Full + 1

Shifts(f, v, n) == f = [k \in 0 .. n |-> IF k = 0 THEN v ELSE f[k - 1] \div Base]

(* What the assumptions say of words.                                      *)
LEMMA WordSize == Word \in Nat /\ Word > 0 /\ Base \in Nat /\ Base > 1
BY WireAssumption DEF WireAssumption, Base, DoneT

(* Shifting is a repeated division.                                        *)
LEMMA ShiftedStep ==
    ASSUME NEW v \in Nat
    PROVE  /\ Shifted(v)[0] = v
           /\ \A k \in 0 .. Word : Shifted(v)[k] \in Nat
           /\ \A k \in 0 .. Word - 1 : Shifted(v)[k + 1] = Shifted(v)[k] \div Base
<1> DEFINE Good == {n \in 0 .. Word : \E f : Shifts(f, v, n)}
<1>1. 0 \in Good
  <2> DEFINE f == [k \in 0 .. 0 |-> v]
  <2>1. f = [k \in 0 .. 0 |-> IF k = 0 THEN v ELSE f[k - 1] \div Base]
    OBVIOUS
  <2> HIDE DEF f
  <2>2. \E g : Shifts(g, v, 0)
    BY <2>1 DEF Shifts
  <2> QED
    BY <2>2, WordSize
<1>2. ASSUME NEW n \in 0 .. Word - 1, n \in Good PROVE n + 1 \in Good
  <2>1. PICK f : Shifts(f, v, n)
    BY <1>2
  <2> DEFINE g == [k \in 0 .. n + 1 |-> IF k = n + 1 THEN f[n] \div Base ELSE f[k]]
  <2>2. n \in Nat /\ n + 1 \in 0 .. Word
    BY WordSize
  <2>3. ASSUME NEW k \in 0 .. n + 1 PROVE g[k] = IF k = 0 THEN v ELSE g[k - 1] \div Base
    <3>1. CASE k = n + 1
      BY <2>2, <3>1
    <3>2. CASE k # n + 1
      <4>1. k \in 0 .. n /\ g[k] = f[k] /\ (k # 0 => k - 1 \in 0 .. n + 1 /\ g[k - 1] = f[k - 1])
        BY <2>2, <3>2
      <4>2. f[k] = IF k = 0 THEN v ELSE f[k - 1] \div Base
        BY <2>1, <4>1 DEF Shifts
      <4> QED
        BY <4>1, <4>2
    <3> QED
      BY <3>1, <3>2
  <2>4. g = [k \in 0 .. n + 1 |-> g[k]]
    OBVIOUS
  <2> HIDE DEF g
  <2>5. Shifts(g, v, n + 1)
    BY <2>3, <2>4 DEF Shifts
  <2> QED
    BY <2>2, <2>5
<1>3. Word \in Good
  <2> HIDE DEF Good
  <2>1. 0 .. Word \subseteq Good
    BY <1>1, <1>2, WordSize, UpTo
  <2> QED
    BY <2>1, WordSize
<1>4. Shifts(CHOOSE f : Shifts(f, v, Word), v, Word)
  BY <1>3, Zenon
<1>5. Shifted(v) = CHOOSE f : Shifts(f, v, Word)
  BY DEF Shifted, Shifts, Base
<1> DEFINE f == Shifted(v)
<1>6. Shifts(f, v, Word)
  BY <1>4, <1>5
<1> HIDE DEF f
<1>7. f[0] = v /\ \A k \in 0 .. Word - 1 : f[k + 1] = f[k] \div Base
  <2>1. \A k \in 0 .. Word : f[k] = IF k = 0 THEN v ELSE f[k - 1] \div Base
    BY <1>6 DEF Shifts
  <2>2. 0 \in 0 .. Word /\ \A k \in 0 .. Word - 1 : k + 1 \in 0 .. Word /\ k + 1 # 0 /\ (k + 1) - 1 = k
    BY WordSize
  <2> QED
    BY <2>1, <2>2
<1>8. \A k \in 0 .. Word : f[k] \in Nat
  <2> DEFINE Number == {k \in 0 .. Word : f[k] \in Nat}
  <2>1. 0 \in Number
    BY <1>7, WordSize
  <2>2. ASSUME NEW k \in 0 .. Word - 1, k \in Number PROVE k + 1 \in Number
    <3>1. f[k] \in Nat /\ f[k + 1] = f[k] \div Base
      BY <1>7, <2>2
    <3>2. f[k + 1] \in Nat
      BY <3>1, WordSize
    <3> QED
      BY <3>2, WordSize
  <2> HIDE DEF Number
  <2>3. 0 .. Word \subseteq Number
    BY <2>1, <2>2, WordSize, UpTo
  <2> QED
    BY <2>3 DEF Number
<1> QED
  BY <1>7, <1>8 DEF f

(* The bytes of an integer.                                                *)
LEMMA LittleEndianType ==
    ASSUME NEW v \in Nat
    PROVE  /\ LittleEndian(v) \in Seq(Byte) /\ Len(LittleEndian(v)) = Word
           /\ \A k \in 0 .. Word - 1 : LittleEndian(v)[k + 1] = Shifted(v)[k] % Base
<1>1. \A k \in 1 .. Word : k - 1 \in 0 .. Word /\ Shifted(v)[k - 1] % Base \in Byte
  <2>1. ASSUME NEW k \in 1 .. Word PROVE k - 1 \in 0 .. Word /\ Shifted(v)[k - 1] % Base \in Byte
    <3>1. k - 1 \in 0 .. Word
      BY WordSize
    <3>2. Shifted(v)[k - 1] \in Nat
      BY <3>1, ShiftedStep
    <3>3. Shifted(v)[k - 1] % Base \in 0 .. Base - 1
      BY <3>2, WordSize
    <3> QED
      BY <3>1, <3>3, Sizes DEF Base, Byte
  <2> QED
    BY <2>1
<1>2. LittleEndian(v) = [k \in 1 .. Word |-> Shifted(v)[k - 1] % Base]
  BY DEF LittleEndian, Base
<1>3. LittleEndian(v) \in [1 .. Word -> Byte]
  BY <1>1, <1>2
<1>4. LittleEndian(v) \in Seq(Byte)
  BY <1>3, WordSize, SeqDef
<1>5. Len(LittleEndian(v)) = Word
  BY <1>3, <1>4, WordSize, LenProperties
<1>6. ASSUME NEW k \in 0 .. Word - 1 PROVE LittleEndian(v)[k + 1] = Shifted(v)[k] % Base
  <2>1. k + 1 \in 1 .. Word /\ (k + 1) - 1 = k
    BY WordSize
  <2> QED
    BY <1>2, <2>1
<1> QED
  BY <1>4, <1>5, <1>6

(* read_u32 puts the bytes back together.                                  *)
Unshifts(f, data, at) ==
    f = [k \in 0 .. Word |-> IF k = Word THEN 0 ELSE data[at + k] + Base * f[k + 1]]

(* Reading a word is a sum from its last byte.                             *)
LEMMA ReadWordStep ==
    ASSUME NEW data \in Seq(Byte), NEW at \in Nat, NEW v \in Nat, at + Word - 1 <= Len(data),
           Shifted(v)[Word] = 0,
           \A k \in 0 .. Word - 1 : data[at + k] = Shifted(v)[k] % Base
    PROVE  ReadWord(data, at) = [ok |-> TRUE, value |-> v]
<1> DEFINE f == [k \in 0 .. Word |-> Shifted(v)[k]]
<1>1. Unshifts(f, data, at)
  <2>1. ASSUME NEW k \in 0 .. Word
        PROVE  f[k] = IF k = Word THEN 0 ELSE data[at + k] + Base * f[k + 1]
    <3>1. CASE k = Word
      BY <3>1
    <3>2. CASE k # Word
      <4>1. k \in 0 .. Word - 1 /\ k + 1 \in 0 .. Word
        BY <3>2, WordSize
      <4>2. /\ f[k] = Shifted(v)[k] /\ f[k + 1] = Shifted(v)[k] \div Base
            /\ data[at + k] = Shifted(v)[k] % Base /\ Shifted(v)[k] \in Nat
        BY <4>1, ShiftedStep
      <4>3. \A n \in Nat : n = (n % Base) + Base * (n \div Base)
        BY WordSize
      <4> HIDE DEF f
      <4> QED
        BY <3>2, <4>2, <4>3
    <3> QED
      BY <3>1, <3>2
  <2>2. f = [k \in 0 .. Word |-> f[k]]
    OBVIOUS
  <2> HIDE DEF f
  <2> QED
    BY <2>1, <2>2 DEF Unshifts
<1> DEFINE g == CHOOSE h : Unshifts(h, data, at)
<1>2. Unshifts(g, data, at)
  BY <1>1, Zenon
<1>3. ReadWord(data, at) = [ok |-> TRUE, value |-> g[0]]
  <2>1. ~(at + Word - 1 > Len(data))
    BY WordSize, LenProperties
  <2> QED
    BY <2>1 DEF ReadWord, Unshifts, Base
<1>4. f[0] = v
  BY ShiftedStep, WordSize
<1> HIDE DEF f, g
<1> DEFINE Same == {m \in 0 .. Word : f[Word - m] = g[Word - m]}
<1>5. \A k \in 0 .. Word : /\ f[k] = IF k = Word THEN 0 ELSE data[at + k] + Base * f[k + 1]
                           /\ g[k] = IF k = Word THEN 0 ELSE data[at + k] + Base * g[k + 1]
  BY <1>1, <1>2 DEF Unshifts
<1>6. 0 \in Same
  <2>1. Word - 0 = Word /\ Word \in 0 .. Word
    BY WordSize
  <2> QED
    BY <1>5, <2>1
<1>7. ASSUME NEW m \in 0 .. Word - 1, m \in Same PROVE m + 1 \in Same
  <2> DEFINE k == Word - (m + 1)
  <2>1. k \in 0 .. Word /\ k # Word /\ k + 1 = Word - m /\ m + 1 \in 0 .. Word
    BY WordSize
  <2>2. f[k + 1] = g[k + 1]
    BY <1>7, <2>1
  <2> HIDE DEF k
  <2>3. f[k] = data[at + k] + Base * f[k + 1] /\ g[k] = data[at + k] + Base * g[k + 1]
    BY <1>5, <2>1
  <2>4. f[k] = g[k]
    BY <2>2, <2>3
  <2> QED
    BY <2>1, <2>4 DEF k
<1>8. Word \in Same
  <2> HIDE DEF Same
  <2>1. 0 .. Word \subseteq Same
    BY <1>6, <1>7, WordSize, UpTo
  <2> QED
    BY <2>1, WordSize
<1>9. f[0] = g[0]
  <2>1. Word - Word = 0
    BY WordSize
  <2> QED
    BY <1>8, <2>1
<1> QED
  BY <1>3, <1>4, <1>9

(* A prefix and its elements.                                              *)
LEMMA PrefixType ==
    ASSUME NEW X, NEW s \in Seq(X), NEW n \in Nat
    PROVE  /\ Prefix(s, n) \in Seq(X) /\ Len(Prefix(s, n)) = Shorter(n, Len(s))
           /\ \A i \in 1 .. Shorter(n, Len(s)) : Prefix(s, n)[i] = s[i]
           /\ n >= Len(s) => Prefix(s, n) = s
           /\ Prefix(s, n) = Prefix(s, Shorter(n, Len(s)))
<1> DEFINE m == Shorter(n, Len(s))
<1>1. Len(s) \in Nat /\ m \in 0 .. Len(s) /\ (n >= Len(s) => m = Len(s)) /\ Shorter(m, Len(s)) = m
  BY LenProperties DEF Shorter
<1>2. Prefix(s, n) = SubSeq(s, 1, m) /\ Prefix(s, m) = SubSeq(s, 1, m)
  BY <1>1 DEF Prefix
<1> HIDE DEF m
<1>3. \A i \in 1 .. m : i \in 1 .. Len(s) /\ s[i] \in X
  <2>1. \A i \in 1 .. m : i \in 1 .. Len(s)
    BY <1>1
  <2> QED
    BY <2>1, ElementOfSeq
<1>4. /\ SubSeq(s, 1, m) \in Seq(X) /\ Len(SubSeq(s, 1, m)) = IF 1 <= m THEN m - 1 + 1 ELSE 0
      /\ \A i \in 1 .. m - 1 + 1 : SubSeq(s, 1, m)[i] = s[1 + i - 1]
  BY <1>1, <1>3, SubSeqProperties
<1>5. Len(SubSeq(s, 1, m)) = m
  BY <1>1, <1>4
<1>6. ASSUME NEW i \in 1 .. m PROVE SubSeq(s, 1, m)[i] = s[i]
  <2>1. i \in 1 .. m - 1 + 1 /\ 1 + i - 1 = i
    BY <1>1
  <2> QED
    BY <1>4, <2>1
<1>7. n >= Len(s) => Prefix(s, n) = s
  BY <1>1, <1>2, SubSeqFull
<1> QED
  BY <1>2, <1>4, <1>5, <1>6, <1>7 DEF m

(* t begins with s.                                                        *)
Extends(t, s) == Len(s) <= Len(t) /\ \A i \in 1 .. Len(s) : t[i] = s[i]

(* read_str of a string that is there.                                     *)
LEMMA ReadStrStep ==
    ASSUME NEW data \in Seq(Byte), NEW s \in Seq(Byte), NEW at \in Nat \ {0},
           at + Len(s) <= Len(data), data[at] = Len(s),
           \A i \in 1 .. Len(s) : data[at + i] = s[i]
    PROVE  ReadStr(data, at) = [ok |-> TRUE, at |-> at + 1 + Len(s), value |-> Lossy(s)]
<1> DEFINE n == Len(s)
           piece == SubSeq(data, at + 1, at + n)
<1>1. n \in Nat /\ Len(data) \in Nat
  BY LenProperties
<1>2. ~(at > Len(data) \/ at + data[at] > Len(data))
  BY <1>1
<1>3. piece = s
  <2>1. \A i \in at + 1 .. at + n : i \in 1 .. Len(data)
    BY <1>1
  <2>2. at + 1 \in Int /\ at + n \in Int /\ \A i \in at + 1 .. at + n : data[i] \in Byte
    BY <1>1, <2>1, ElementOfSeq
  <2>3. /\ piece \in Seq(Byte)
        /\ Len(piece) = IF at + 1 <= at + n THEN (at + n) - (at + 1) + 1 ELSE 0
        /\ \A i \in 1 .. (at + n) - (at + 1) + 1 : piece[i] = data[(at + 1) + i - 1]
    BY <2>2, SubSeqProperties
  <2>4. Len(piece) = n
    BY <1>1, <2>3
  <2> HIDE DEF piece
  <2>5. ASSUME NEW i \in 1 .. n PROVE piece[i] = s[i]
    <3>1. i \in 1 .. (at + n) - (at + 1) + 1 /\ (at + 1) + i - 1 = at + i
      BY <1>1
    <3> QED
      BY <2>3, <3>1
  <2> QED
    BY <2>3, <2>4, <2>5, SeqEqual
<1>4. ReadStr(data, at) = [ok |-> TRUE, at |-> at + 1 + data[at],
                           value |-> Lossy(SubSeq(data, at + 1, at + data[at]))]
  BY <1>2 DEF ReadStr
<1> QED
  BY <1>3, <1>4

(* read_str goes forward.                                                  *)
LEMMA ReadStrMoves ==
    ASSUME NEW data \in Seq(Byte), NEW at \in Nat \ {0}
    PROVE  /\ ReadStr(data, at).at \in Nat \ {0} /\ ReadStr(data, at).ok \in BOOLEAN
           /\ ReadStr(data, at).ok => ReadStr(data, at).at > at
<1>1. Len(data) \in Nat
  BY LenProperties
<1>2. CASE at > Len(data) \/ at + data[at] > Len(data)
  <2>1. ReadStr(data, at) = [ok |-> FALSE, at |-> Len(data) + 1, value |-> <<>>]
    BY <1>2 DEF ReadStr
  <2> QED
    BY <1>1, <2>1
<1>3. CASE ~(at > Len(data) \/ at + data[at] > Len(data))
  <2>1. ReadStr(data, at) = [ok |-> TRUE, at |-> at + 1 + data[at],
                             value |-> Lossy(SubSeq(data, at + 1, at + data[at]))]
    BY <1>3 DEF ReadStr
  <2>2. data[at] \in Nat
    <3>1. data[at] \in Byte
      BY <1>1, <1>3, ElementOfSeq
    <3> QED
      BY <3>1, Sizes DEF Byte
  <2> QED
    BY <2>1, <2>2
<1> QED
  BY <1>2, <1>3

(* What a length byte can say of a string, and whether it has room.        *)
Kept(s) == Prefix(s, Full)
HasRoom(buf, s) == Len(buf) + 1 + Len(Kept(s)) <= BufSize

(* What a length byte can say of a string.                                 *)
LEMMA KeptType ==
    ASSUME NEW s \in Seq(Byte)
    PROVE  Kept(s) \in Seq(Byte) /\ Len(Kept(s)) \in Byte /\ Len(Kept(s)) = Shorter(Len(s), Full)
BY PrefixType, Sizes, LenProperties DEF Kept, Shorter, Byte

(* put_str appends length and string, or nothing.                          *)
LEMMA PutStrType ==
    ASSUME NEW buf \in Seq(Byte), NEW s \in Seq(Byte)
    PROVE  LET new == PutStr(buf, s)
           IN  /\ new \in Seq(Byte) /\ Extends(new, buf)
               /\ Len(buf) <= BufSize => Len(new) <= BufSize
               /\ ~HasRoom(buf, s) => new = buf
               /\ HasRoom(buf, s) =>
                     /\ Len(new) = Len(buf) + 1 + Len(Kept(s))
                     /\ new[Len(buf) + 1] = Len(Kept(s))
                     /\ \A i \in 1 .. Len(Kept(s)) : new[Len(buf) + 1 + i] = Kept(s)[i]
<1> DEFINE n == Len(Kept(s))
           room == Len(buf) + 1 + n <= BufSize
<1>1. Len(buf) \in Nat /\ n \in Nat /\ n \in Byte /\ BufSize \in Nat /\ Kept(s) \in Seq(Byte)
  BY KeptType, LenProperties, WireAssumption DEF WireAssumption
<1>2. PutStr(buf, s) = IF ~room THEN buf ELSE Append(buf, n) \o Kept(s)
  <2>1. n = Shorter(Len(s), Full)
    BY KeptType
  <2>2. Prefix(s, n) = Kept(s)
    <3>1. Kept(s) = Prefix(s, Shorter(Full, Len(s)))
      BY PrefixType, Sizes DEF Kept
    <3>2. Shorter(Full, Len(s)) = Shorter(Len(s), Full)
      BY Sizes, LenProperties DEF Shorter
    <3> QED
      BY <2>1, <3>1, <3>2
  <2>3. PutStr(buf, s) = IF Len(buf) + 1 + n > BufSize THEN buf ELSE Append(buf, n) \o Prefix(s, n)
    BY <2>1 DEF PutStr
  <2> HIDE DEF n
  <2> QED
    BY <1>1, <2>2, <2>3
<1>3. CASE ~room
  BY <1>1, <1>2, <1>3 DEF Extends, HasRoom
<1>4. CASE room
  <2>1. PICK long : long = Append(buf, n)
    OBVIOUS
  <2>2. PICK kept : kept = Kept(s)
    OBVIOUS
  <2>3. PICK new : new = long \o kept
    OBVIOUS
  <2>4. PutStr(buf, s) = new
    BY <1>2, <1>4, <2>1, <2>2, <2>3
  <2> HIDE DEF n
  <2>5. /\ long \in Seq(Byte) /\ Len(long) = Len(buf) + 1 /\ long[Len(buf) + 1] = n
        /\ \A i \in 1 .. Len(buf) : long[i] = buf[i]
    BY <1>1, <2>1, AppendProperties
  <2>6. kept \in Seq(Byte) /\ Len(kept) = n
    BY <1>1, <2>2 DEF n
  <2>7. /\ new \in Seq(Byte) /\ Len(new) = Len(long) + Len(kept)
        /\ \A i \in 1 .. Len(long) + Len(kept) :
              new[i] = IF i <= Len(long) THEN long[i] ELSE kept[i - Len(long)]
    BY <2>3, <2>5, <2>6, ConcatProperties
  <2>8. Len(new) = Len(buf) + 1 + n /\ new[Len(buf) + 1] = n
    BY <1>1, <2>5, <2>6, <2>7
  <2>9. ASSUME NEW i \in 1 .. Len(buf) PROVE new[i] = buf[i]
    BY <1>1, <2>5, <2>6, <2>7
  <2>10. ASSUME NEW i \in 1 .. n PROVE new[Len(buf) + 1 + i] = kept[i]
    <3>1. /\ Len(buf) + 1 + i \in 1 .. Len(long) + Len(kept) /\ ~(Len(buf) + 1 + i <= Len(long))
          /\ (Len(buf) + 1 + i) - Len(long) = i
      BY <1>1, <2>5, <2>6
    <3> QED
      BY <2>7, <3>1
  <2>11. Extends(new, buf)
    BY <1>1, <2>8, <2>9 DEF Extends
  <2>12. Len(new) <= BufSize
    BY <1>4, <2>8
  <2> QED
    BY <1>4, <2>2, <2>4, <2>7, <2>8, <2>10, <2>11, <2>12 DEF n, HasRoom
<1> QED
  BY <1>3, <1>4

(* What was put is read, and leaves the reader behind it.                  *)
LEMMA PutThenRead ==
    ASSUME NEW buf \in Seq(Byte), NEW s \in Seq(Byte), HasRoom(buf, s),
           NEW data \in Seq(Byte), Extends(data, PutStr(buf, s))
    PROVE  ReadStr(data, Len(buf) + 1) =
              [ok |-> TRUE, at |-> Len(PutStr(buf, s)) + 1, value |-> Lossy(Kept(s))]
<1> DEFINE kept == Kept(s)
           new == PutStr(buf, s)
           at == Len(buf) + 1
<1>1. Len(buf) \in Nat /\ kept \in Seq(Byte) /\ Len(kept) \in Nat /\ Len(data) \in Nat
  BY KeptType, LenProperties
<1>2. /\ Len(new) = Len(buf) + 1 + Len(kept) /\ new[at] = Len(kept)
      /\ \A i \in 1 .. Len(kept) : new[at + i] = kept[i]
  BY PutStrType
<1>3. Len(new) <= Len(data) /\ \A i \in 1 .. Len(new) : data[i] = new[i]
  BY DEF Extends
<1> HIDE DEF kept, new
<1>4. data[at] = Len(kept)
  BY <1>1, <1>2, <1>3
<1>5. ASSUME NEW i \in 1 .. Len(kept) PROVE data[at + i] = kept[i]
  <2>1. at + i \in 1 .. Len(new)
    BY <1>1, <1>2
  <2> QED
    BY <1>2, <1>3, <2>1
<1>6. ReadStr(data, at) = [ok |-> TRUE, at |-> at + 1 + Len(kept), value |-> Lossy(kept)]
  <2>1. at \in Nat \ {0} /\ at + Len(kept) <= Len(data)
    BY <1>1, <1>2, <1>3
  <2> QED
    BY <1>1, <1>4, <1>5, <2>1, ReadStrStep
<1>7. at + 1 + Len(kept) = Len(new) + 1
  BY <1>1, <1>2
<1> QED
  BY <1>6, <1>7 DEF kept, new

(* The fields of an event.                                                 *)
LEMMA MessageType ==
    ASSUME NEW m \in Messages
    PROVE  /\ m.type \in EventTypes /\ m.type \in 1 .. 7 /\ m.type \in Byte
           /\ m.suite \in Text /\ m.group \in Text /\ m.name \in Text
           /\ m.file \in Text /\ m.text \in Text
           /\ m.nums \in Seq(Nat) /\ Len(m.nums) = 3
           /\ \A k \in 1 .. 3 : m.nums[k] \in Nat /\ Shifted(m.nums[k])[Word] = 0
<1>1. m \in Message
  BY WireAssumption DEF WireAssumption
<1>2. /\ m.type \in EventTypes /\ m.suite \in Text /\ m.group \in Text /\ m.name \in Text
      /\ m.file \in Text /\ m.text \in Text /\ m.nums \in Seq(Nat)
  BY <1>1 DEF Message
<1>3. m.type \in 1 .. 7 /\ m.type \in Byte
  BY <1>2, Sizes DEF EventTypes, SuiteStartT, CaseStartT, AssertFailT, CaseEndT, SuiteEndT, DoneT
<1>4. Len(m.nums) = 3 /\ \A k \in 1 .. 3 : Shifted(m.nums[k])[Word] = 0
  BY WireAssumption DEF WireAssumption
<1>5. \A k \in 1 .. 3 : m.nums[k] \in Nat
  BY <1>2, <1>4, ElementOfSeq
<1> QED
  BY <1>2, <1>3, <1>4, <1>5

(* Names and texts are bytes.                                              *)
LEMMA TextIsBytes == ASSUME NEW s \in Text PROVE s \in Seq(Byte)
<1>1. 1 .. Full \subseteq Byte
  BY Sizes DEF Byte
<1> QED
  BY <1>1, SeqMonotonic DEF Text

(* "group.name"                                                            *)
LEMMA DottedType ==
    ASSUME NEW m \in Messages
    PROVE  /\ m.group \o <<Dot>> \o m.name \in Text
           /\ Len(m.group \o <<Dot>> \o m.name) = Len(m.group) + Len(m.name) + 1
           /\ Leaf(m) \in Text
<1>1. m.group \in Text /\ m.name \in Text /\ <<Dot>> \in Text
  BY MessageType, Sizes DEF Text, Dot
<1>2. Len(<<Dot>>) = 1
  OBVIOUS
<1>3. m.group \o <<Dot>> \in Text /\ Len(m.group \o <<Dot>>) = Len(m.group) + 1
  BY <1>1, <1>2, ConcatProperties DEF Text
<1>4. PICK whole : whole = (m.group \o <<Dot>>) \o m.name
  OBVIOUS
<1>5. whole \in Text /\ Len(whole) = Len(m.group) + 1 + Len(m.name)
  BY <1>1, <1>3, <1>4, ConcatProperties DEF Text
<1>6. Len(m.group) \in Nat /\ Len(m.name) \in Nat
  BY <1>1, LenProperties DEF Text
<1>7. LeafSize - 1 \in Nat
  BY WireAssumption DEF WireAssumption
<1>8. Leaf(m) \in Text
  <2>1. Leaf(m) = Prefix(whole, LeafSize - 1)
    BY <1>4 DEF Leaf
  <2>2. Prefix(whole, LeafSize - 1) \in Text
    BY <1>5, <1>7, PrefixType DEF Text
  <2> QED
    BY <2>1, <2>2
<1>9. Len(whole) = Len(m.group) + Len(m.name) + 1
  <2>1. PICK g, n : g = Len(m.group) /\ n = Len(m.name)
    OBVIOUS
  <2>2. g \in Nat /\ n \in Nat /\ Len(whole) = g + 1 + n
    BY <1>5, <1>6, <2>1
  <2>3. Len(whole) = g + n + 1
    BY <2>2
  <2> QED
    BY <2>1, <2>3
<1>10. m.group \o <<Dot>> \o m.name = whole
  BY <1>4
<1> QED
  BY <1>5, <1>8, <1>9, <1>10

(* So are the three strings of an event.                                   *)
LEMMA StringsType ==
    ASSUME NEW m \in Messages
    PROVE  \A k \in 1 .. 3 : Strings(m)[k] \in Text /\ Strings(m)[k] \in Seq(Byte)
<1>1. <<>> \in Text
  BY EmptySeq DEF Text
<1>2. /\ Strings(m)[1] = IF m.type = DoneT THEN <<>> ELSE m.suite
      /\ Strings(m)[2] = IF OfCase(m) THEN Leaf(m) ELSE <<>>
      /\ Strings(m)[3] = IF m.type = AssertFailT THEN m.text ELSE <<>>
  BY DEF Strings
<1>3. Strings(m)[1] \in Text /\ Strings(m)[2] \in Text /\ Strings(m)[3] \in Text
  BY <1>1, <1>2, MessageType, DottedType
<1>4. \A k \in 1 .. 3 : k = 1 \/ k = 2 \/ k = 3
  OBVIOUS
<1>5. \A k \in 1 .. 3 : Strings(m)[k] \in Text
  BY <1>3, <1>4
<1> QED
  BY <1>5, TextIsBytes

Header(m) == <<P, T, Version, m.type>>
Buf(m, k) ==
    CASE k = 0 -> Header(m)
      [] k = 1 -> PutStr(Header(m), Strings(m)[1])
      [] k = 2 -> PutStr(PutStr(Header(m), Strings(m)[1]), Strings(m)[2])
      [] k = 3 -> PutStr(PutStr(PutStr(Header(m), Strings(m)[1]), Strings(m)[2]), Strings(m)[3])

(* Whether emit_msg left out none of the strings.                          *)
Whole(m) == \A k \in 1 .. 3 : HasRoom(Buf(m, k - 1), Strings(m)[k])

(* emit_msg's buffer after each string.                                    *)
LEMMA BufType ==
    ASSUME NEW m \in Messages
    PROVE  /\ \A k \in 0 .. 3 : Buf(m, k) \in Seq(Byte) /\ Len(Buf(m, k)) <= BufSize
           /\ Buf(m, 0) = Header(m) /\ Len(Buf(m, 0)) = 4
           /\ \A k \in 1 .. 3 : /\ Buf(m, k) = PutStr(Buf(m, k - 1), Strings(m)[k])
                                /\ Extends(Buf(m, k), Buf(m, k - 1))
<1>1. /\ Buf(m, 0) = Header(m)
      /\ Buf(m, 1) = PutStr(Buf(m, 0), Strings(m)[1])
      /\ Buf(m, 2) = PutStr(Buf(m, 1), Strings(m)[2])
      /\ Buf(m, 3) = PutStr(Buf(m, 2), Strings(m)[3])
  BY DEF Buf
<1>2. Header(m) \in Seq(Byte) /\ Len(Header(m)) = 4
  BY MessageType, Sizes DEF Header, P, T, Version
<1>3. Buf(m, 0) \in Seq(Byte) /\ Len(Buf(m, 0)) <= BufSize
  BY <1>1, <1>2, WireAssumption DEF WireAssumption
<1>4. \A k \in 1 .. 3 : Strings(m)[k] \in Seq(Byte)
  BY StringsType
<1>5. Buf(m, 1) \in Seq(Byte) /\ Len(Buf(m, 1)) <= BufSize /\ Extends(Buf(m, 1), Buf(m, 0))
  BY <1>1, <1>3, <1>4, PutStrType
<1>6. Buf(m, 2) \in Seq(Byte) /\ Len(Buf(m, 2)) <= BufSize /\ Extends(Buf(m, 2), Buf(m, 1))
  BY <1>1, <1>5, <1>4, PutStrType
<1>7. Buf(m, 3) \in Seq(Byte) /\ Len(Buf(m, 3)) <= BufSize /\ Extends(Buf(m, 3), Buf(m, 2))
  BY <1>1, <1>6, <1>4, PutStrType
<1>8. \A k \in 1 .. 3 : k = 1 \/ k = 2 \/ k = 3
  OBVIOUS
<1>9. \A k \in 0 .. 3 : k = 0 \/ k = 1 \/ k = 2 \/ k = 3
  OBVIOUS
<1>10. ASSUME NEW k \in 1 .. 3
       PROVE  Buf(m, k) = PutStr(Buf(m, k - 1), Strings(m)[k]) /\ Extends(Buf(m, k), Buf(m, k - 1))
  <2>1. CASE k = 1
    BY <1>1, <1>5, <2>1
  <2>2. CASE k = 2
    BY <1>1, <1>6, <2>2
  <2>3. CASE k = 3
    BY <1>1, <1>7, <2>3
  <2> QED
    BY <1>8, <2>1, <2>2, <2>3
<1>11. ASSUME NEW k \in 0 .. 3 PROVE Buf(m, k) \in Seq(Byte) /\ Len(Buf(m, k)) <= BufSize
  BY <1>3, <1>5, <1>6, <1>7, <1>9
<1> QED
  BY <1>1, <1>2, <1>10, <1>11

(* An extension of an extension.                                           *)
LEMMA ExtendsThrough ==
    ASSUME NEW r \in Seq(Byte), NEW s \in Seq(Byte), NEW t \in Seq(Byte),
           Extends(t, s), Extends(s, r)
    PROVE  Extends(t, r)
<1>1. Len(r) \in Nat /\ Len(s) \in Nat /\ Len(t) \in Nat
  BY LenProperties
<1> QED
  BY <1>1 DEF Extends

(* Reading the three strings of what extends the buffer.                   *)
LEMMA ReadStrings ==
    ASSUME NEW m \in Messages, NEW data \in Seq(Byte), Extends(data, Buf(m, 3)),
           NEW a, a = ReadStr(data, 5), NEW b, b = ReadStr(data, a.at),
           NEW c, c = ReadStr(data, b.at)
    PROVE  /\ Whole(m) => /\ a.ok /\ b.ok /\ c.ok /\ c.at = Len(Buf(m, 3)) + 1
                          /\ a.value = Lossy(Kept(Strings(m)[1]))
                          /\ b.value = Lossy(Kept(Strings(m)[2]))
                          /\ c.value = Lossy(Kept(Strings(m)[3]))
           /\ ~Whole(m) /\ a.ok /\ b.ok /\ c.ok => c.at > Len(Buf(m, 3)) + 1
           /\ c.at \in Nat \ {0}
<1> DEFINE room(k) == HasRoom(Buf(m, k - 1), Strings(m)[k])
           end(k) == Len(Buf(m, k)) + 1
<1>1. \A k \in 0 .. 3 : Buf(m, k) \in Seq(Byte) /\ end(k) \in Nat \ {0}
  BY BufType, LenProperties
<1>2. \A k \in 1 .. 3 : Extends(data, Buf(m, k))
  <2>1. Extends(Buf(m, 2), Buf(m, 1)) /\ Extends(Buf(m, 3), Buf(m, 2))
    <3>1. 2 \in 1 .. 3 /\ 3 \in 1 .. 3 /\ 2 - 1 = 1 /\ 3 - 1 = 2
      OBVIOUS
    <3> QED
      BY <3>1, BufType
  <2>2. Extends(data, Buf(m, 2))
    BY <1>1, <2>1, ExtendsThrough
  <2>3. Extends(data, Buf(m, 1))
    BY <1>1, <2>1, <2>2, ExtendsThrough
  <2>4. \A k \in 1 .. 3 : k = 1 \/ k = 2 \/ k = 3
    OBVIOUS
  <2> QED
    BY <2>2, <2>3, <2>4
<1>3. ASSUME NEW k \in 1 .. 3
      PROVE  /\ room(k) => ReadStr(data, end(k - 1)) =
                              [ok |-> TRUE, at |-> end(k), value |-> Lossy(Kept(Strings(m)[k]))]
             /\ ~room(k) => end(k) = end(k - 1)
  <2>1. k - 1 \in 0 .. 3 /\ Buf(m, k - 1) \in Seq(Byte) /\ Strings(m)[k] \in Seq(Byte)
    BY <1>1, StringsType
  <2>2. Buf(m, k) = PutStr(Buf(m, k - 1), Strings(m)[k])
    BY BufType
  <2>3. PICK old, s : old = Buf(m, k - 1) /\ s = Strings(m)[k]
    OBVIOUS
  <2>4. Extends(data, Buf(m, k))
    BY <1>2
  <2>5. old \in Seq(Byte) /\ s \in Seq(Byte) /\ Buf(m, k) = PutStr(old, s)
    BY <2>1, <2>2, <2>3
  <2>6. Extends(data, PutStr(old, s))
    BY <2>4, <2>5
  <2>7. /\ HasRoom(old, s) => ReadStr(data, Len(old) + 1) =
                 [ok |-> TRUE, at |-> Len(PutStr(old, s)) + 1, value |-> Lossy(Kept(s))]
        /\ ~HasRoom(old, s) => PutStr(old, s) = old
    BY <2>5, <2>6, PutThenRead, PutStrType
  <2> QED
    BY <2>3, <2>5, <2>7
<1>4. end(0) = 5
  <2>1. PICK n : n = Len(Buf(m, 0))
    OBVIOUS
  <2>2. n = 4 /\ end(0) = n + 1
    BY <2>1, BufType
  <2> HIDE DEF end
  <2> QED
    BY <2>2
<1>5. Whole(m) <=> room(1) /\ room(2) /\ room(3)
  <2>1. \A k \in 1 .. 3 : k = 1 \/ k = 2 \/ k = 3
    OBVIOUS
  <2> QED
    BY <2>1 DEF Whole
<1>6. /\ end(0) \in Nat \ {0} /\ end(1) \in Nat \ {0} /\ end(2) \in Nat \ {0} /\ end(3) \in Nat \ {0}
  BY <1>1
<1> HIDE DEF room, end
<1>7. /\ room(1) => ReadStr(data, end(0)) =
                       [ok |-> TRUE, at |-> end(1), value |-> Lossy(Kept(Strings(m)[1]))]
      /\ ~room(1) => end(1) = end(0)
  <2>1. 1 \in 1 .. 3 /\ 1 - 1 = 0
    OBVIOUS
  <2> QED
    BY <1>3, <2>1
<1>8. /\ room(2) => ReadStr(data, end(1)) =
                       [ok |-> TRUE, at |-> end(2), value |-> Lossy(Kept(Strings(m)[2]))]
      /\ ~room(2) => end(2) = end(1)
  <2>1. 2 \in 1 .. 3 /\ 2 - 1 = 1
    OBVIOUS
  <2> QED
    BY <1>3, <2>1
<1>9. /\ room(3) => ReadStr(data, end(2)) =
                       [ok |-> TRUE, at |-> end(3), value |-> Lossy(Kept(Strings(m)[3]))]
      /\ ~room(3) => end(3) = end(2)
  <2>1. 3 \in 1 .. 3 /\ 3 - 1 = 2
    OBVIOUS
  <2> QED
    BY <1>3, <2>1
<1>10. /\ a.at \in Nat \ {0} /\ a.ok \in BOOLEAN /\ (a.ok => a.at > 5)
       /\ b.at \in Nat \ {0} /\ b.ok \in BOOLEAN /\ (b.ok => b.at > a.at)
       /\ c.at \in Nat \ {0} /\ c.ok \in BOOLEAN /\ (c.ok => c.at > b.at)
  <2>1. a.at \in Nat \ {0} /\ a.ok \in BOOLEAN /\ (a.ok => a.at > 5)
    BY ReadStrMoves
  <2>2. b.at \in Nat \ {0} /\ b.ok \in BOOLEAN /\ (b.ok => b.at > a.at)
    BY <2>1, ReadStrMoves
  <2>3. c.at \in Nat \ {0} /\ c.ok \in BOOLEAN /\ (c.ok => c.at > b.at)
    BY <2>2, ReadStrMoves
  <2> QED
    BY <2>1, <2>2, <2>3
<1>11. ASSUME Whole(m)
       PROVE  /\ a.ok /\ b.ok /\ c.ok /\ c.at = end(3)
              /\ a.value = Lossy(Kept(Strings(m)[1])) /\ b.value = Lossy(Kept(Strings(m)[2]))
              /\ c.value = Lossy(Kept(Strings(m)[3]))
  <2>1. a = [ok |-> TRUE, at |-> end(1), value |-> Lossy(Kept(Strings(m)[1]))]
    BY <1>4, <1>5, <1>7, <1>11
  <2>2. b = [ok |-> TRUE, at |-> end(2), value |-> Lossy(Kept(Strings(m)[2]))]
    <3>1. a.at = end(1)
      BY <2>1
    <3> QED
      BY <1>5, <1>8, <1>11, <3>1
  <2>3. c = [ok |-> TRUE, at |-> end(3), value |-> Lossy(Kept(Strings(m)[3]))]
    <3>1. b.at = end(2)
      BY <2>2
    <3> QED
      BY <1>5, <1>9, <1>11, <3>1
  <2> QED
    BY <2>1, <2>2, <2>3
<1>12. ASSUME ~Whole(m), a.ok, b.ok, c.ok PROVE c.at > end(3)
  <2>1. c.at > b.at /\ b.at > a.at /\ a.at > 5
    BY <1>10, <1>12
  <2>2. SUFFICES 5 = end(3) \/ a.at = end(3) \/ b.at = end(3)
    BY <1>6, <1>10, <2>1
  <2>3. (room(1) => a.at = end(1)) /\ (~room(1) => end(1) = 5)
    BY <1>4, <1>7
  <2>4. CASE room(1) /\ room(2)
    <3>1. b.at = end(2) /\ ~room(3)
      BY <1>5, <1>7, <1>8, <1>12, <2>3, <2>4
    <3> QED
      BY <1>9, <3>1
  <2>5. CASE ~(room(1) /\ room(2))
    <3>1. a.at = end(2) \/ end(2) = 5
      BY <1>4, <1>8, <2>3, <2>5
    <3>2. CASE room(3)
      BY <1>4, <1>9, <3>1, <3>2
    <3>3. CASE ~room(3)
      BY <1>9, <3>1, <3>3
    <3> QED
      BY <3>2, <3>3
  <2> QED
    BY <2>4, <2>5
<1> QED
  BY <1>10, <1>11, <1>12 DEF end

(* Concatenation extends.                                                  *)
LEMMA ConcatExtends ==
    ASSUME NEW X, NEW s \in Seq(X), NEW t \in Seq(X), NEW u, u = s ++ t, NEW n, n = Len(t)
    PROVE  /\ u \in Seq(X) /\ Len(u) = Len(s) + n /\ Extends(u, s)
           /\ \A i \in 1 .. n : u[Len(s) + i] = t[i]
<1>1. /\ s \o t \in Seq(X) /\ Len(s \o t) = Len(s) + Len(t)
      /\ \A i \in 1 .. Len(s) + Len(t) : (s \o t)[i] = IF i <= Len(s) THEN s[i] ELSE t[i - Len(s)]
  BY ConcatProperties
<1>2. /\ u \in Seq(X) /\ Len(u) = Len(s) + Len(t)
      /\ \A i \in 1 .. Len(s) + Len(t) : u[i] = IF i <= Len(s) THEN s[i] ELSE t[i - Len(s)]
  BY <1>1 DEF ++
<1>3. Len(s) \in Nat /\ Len(t) \in Nat
  BY LenProperties
<1>4. ASSUME NEW i \in 1 .. Len(s) PROVE u[i] = s[i]
  BY <1>2, <1>3
<1>5. ASSUME NEW i \in 1 .. Len(t) PROVE u[Len(s) + i] = t[i]
  <2>1. Len(s) + i \in 1 .. Len(s) + Len(t) /\ ~(Len(s) + i <= Len(s)) /\ (Len(s) + i) - Len(s) = i
    BY <1>3
  <2> QED
    BY <1>2, <2>1
<1>6. Len(s) <= Len(u)
  BY <1>2, <1>3
<1> QED
  BY <1>2, <1>4, <1>5, <1>6 DEF Extends

(* Where the integers are.                                                 *)
LEMMA PayloadType ==
    ASSUME NEW m \in Messages
    PROVE  /\ Len(Buf(m, 3)) + 3 * Word > BufSize => Payload(m) = <<>>
           /\ Len(Buf(m, 3)) + 3 * Word <= BufSize =>
                 /\ Payload(m) \in Seq(Byte) /\ Len(Payload(m)) = Len(Buf(m, 3)) + 3 * Word
                 /\ Extends(Payload(m), Buf(m, 3))
                 /\ \A k \in 1 .. 3 : \A j \in 0 .. Word - 1 :
                       Payload(m)[Len(Buf(m, 3)) + 1 + (k - 1) * Word + j]
                       = LittleEndian(m.nums[k])[j + 1]
<1>1. PICK old : old = Buf(m, 3)
  OBVIOUS
<1>2. PICK x, y, z : /\ x = LittleEndian(m.nums[1]) /\ y = LittleEndian(m.nums[2])
                     /\ z = LittleEndian(m.nums[3])
  OBVIOUS
<1>3. PICK one, two, all : one = old \o x /\ two = one \o y /\ all = two \o z
  OBVIOUS
<1>4. old \in Seq(Byte) /\ Len(old) \in Nat
  BY <1>1, BufType, LenProperties
<1>5. /\ x \in Seq(Byte) /\ y \in Seq(Byte) /\ z \in Seq(Byte)
      /\ Len(x) = Word /\ Len(y) = Word /\ Len(z) = Word
  BY <1>2, MessageType, LittleEndianType
<1>6. /\ one \in Seq(Byte) /\ Len(one) = Len(old) + Word /\ Extends(one, old)
      /\ \A i \in 1 .. Word : one[Len(old) + i] = x[i]
  <2>1. one = old ++ x /\ old \in Seq(Byte) /\ x \in Seq(Byte) /\ Len(x) = Word
    BY <1>3, <1>4, <1>5 DEF ++
  <2> QED
    BY <2>1, ConcatExtends
<1>7. /\ two \in Seq(Byte) /\ Len(two) = Len(one) + Word /\ Extends(two, one)
      /\ \A i \in 1 .. Word : two[Len(one) + i] = y[i]
  <2>1. two = one ++ y /\ one \in Seq(Byte) /\ y \in Seq(Byte) /\ Len(y) = Word
    BY <1>3, <1>5, <1>6 DEF ++
  <2> QED
    BY <2>1, ConcatExtends
<1>8. /\ all \in Seq(Byte) /\ Len(all) = Len(two) + Word /\ Extends(all, two)
      /\ \A i \in 1 .. Word : all[Len(two) + i] = z[i]
  <2>1. all = two ++ z /\ two \in Seq(Byte) /\ z \in Seq(Byte) /\ Len(z) = Word
    BY <1>3, <1>5, <1>7 DEF ++
  <2> QED
    BY <2>1, ConcatExtends
<1>9. PICK n : n = Len(old)
  OBVIOUS
<1>10. /\ n \in Nat /\ Len(old) = n /\ Len(one) = n + Word /\ Len(two) = n + 2 * Word
       /\ Len(all) = n + 3 * Word
  BY <1>4, <1>6, <1>7, <1>8, <1>9, WordSize
<1>11. /\ \A i \in 1 .. n : all[i] = old[i]
       /\ \A i \in 1 .. Word : all[n + i] = x[i]
       /\ \A i \in 1 .. Word : all[n + Word + i] = y[i]
       /\ \A i \in 1 .. Word : all[n + 2 * Word + i] = z[i]
  <2>1. /\ \A i \in 1 .. n : one[i] = old[i]
        /\ \A i \in 1 .. n + Word : two[i] = one[i]
        /\ \A i \in 1 .. n + 2 * Word : all[i] = two[i]
    BY <1>6, <1>7, <1>8, <1>10 DEF Extends
  <2>2. /\ \A i \in 1 .. Word : one[n + i] = x[i]
        /\ \A i \in 1 .. Word : two[n + Word + i] = y[i]
        /\ \A i \in 1 .. Word : all[n + 2 * Word + i] = z[i]
    BY <1>6, <1>7, <1>8, <1>10
  <2>3. ASSUME NEW i \in 1 .. n PROVE all[i] = old[i]
    BY <1>10, <2>1, WordSize
  <2>4. ASSUME NEW i \in 1 .. Word PROVE all[n + i] = x[i] /\ all[n + Word + i] = y[i]
    <3>1. /\ n + i \in 1 .. n + Word /\ n + i \in 1 .. n + 2 * Word
          /\ n + Word + i \in 1 .. n + 2 * Word
      BY <1>10, WordSize
    <3> QED
      BY <2>1, <2>2, <3>1
  <2> QED
    BY <2>2, <2>3, <2>4
<1>12. Payload(m) = IF n + 3 * Word > BufSize THEN <<>> ELSE all
  <2>1. Payload(m) = IF Len(old) + 3 * Word > BufSize THEN <<>>
                     ELSE old \o LittleEndian(m.nums[1]) \o LittleEndian(m.nums[2])
                              \o LittleEndian(m.nums[3])
    BY <1>1 DEF Payload, Buf, Header
  <2> QED
    BY <1>2, <1>3, <1>9, <2>1
<1>13. ASSUME NEW k \in 1 .. 3, NEW j \in 0 .. Word - 1
       PROVE  all[n + 1 + (k - 1) * Word + j] = LittleEndian(m.nums[k])[j + 1]
  <2>1. j + 1 \in 1 .. Word
    BY WordSize
  <2>2. CASE k = 1
    <3>1. n + 1 + (k - 1) * Word + j = n + (j + 1)
      BY <1>10, <2>2, WordSize
    <3> QED
      BY <1>2, <1>11, <2>1, <2>2, <3>1
  <2>3. CASE k = 2
    <3>1. n + 1 + (k - 1) * Word + j = n + Word + (j + 1)
      BY <1>10, <2>3, WordSize
    <3> QED
      BY <1>2, <1>11, <2>1, <2>3, <3>1
  <2>4. CASE k = 3
    <3>1. n + 1 + (k - 1) * Word + j = n + 2 * Word + (j + 1)
      BY <1>10, <2>4, WordSize
    <3> QED
      BY <1>2, <1>11, <2>1, <2>4, <3>1
  <2> QED
    BY <2>2, <2>3, <2>4
<1>14. Len(old) <= Len(all)
  BY <1>10, WordSize
<1>15. Extends(all, old)
  BY <1>9, <1>11, <1>14 DEF Extends
<1>16. BufSize \in Nat /\ n + 3 * Word \in Nat
  BY <1>10, WordSize, WireAssumption DEF WireAssumption
<1>17. CASE n + 3 * Word > BufSize
  <2>1. Payload(m) = <<>>
    BY <1>12, <1>17
  <2>2. ~(n + 3 * Word <= BufSize)
    BY <1>16, <1>17
  <2> QED
    BY <1>1, <1>9, <2>1, <2>2
<1>18. CASE n + 3 * Word <= BufSize
  <2>1. Payload(m) = all /\ ~(n + 3 * Word > BufSize)
    BY <1>12, <1>16, <1>18
  <2> QED
    BY <1>1, <1>8, <1>9, <1>10, <1>13, <1>15, <2>1
<1> QED
  BY <1>16, <1>17, <1>18

(* What the host makes of an event that is sent: with a string missing     *)
(* there are too few bytes, with all of them it reads what is kept of them.*)
LEMMA PayloadDecodes ==
    ASSUME NEW m \in Messages, Payload(m) # <<>>
    PROVE  DecodePayload(Payload(m)) =
              IF Whole(m)
              THEN Success(<<EventOf(m.type, Lossy(Kept(Strings(m)[1])),
                                     Lossy(Kept(Strings(m)[2])), Lossy(Kept(Strings(m)[3])),
                                     m.nums)>>)
              ELSE Failure
<1>1. PICK data, old : data = Payload(m) /\ old = Buf(m, 3)
  OBVIOUS
<1>2. PICK a : a = ReadStr(data, 5)
  OBVIOUS
<1>3. PICK b : b = ReadStr(data, a.at)
  OBVIOUS
<1>4. PICK c : c = ReadStr(data, b.at)
  OBVIOUS
<1>5. PICK at : at = c.at
  OBVIOUS
<1> DEFINE u == [k \in 1 .. 3 |-> ReadWord(data, at + (k - 1) * Word)]
<1>6. Len(old) \in Nat /\ old \in Seq(Byte) /\ 3 * Word \in Nat /\ BufSize \in Nat
  BY <1>1, BufType, LenProperties, WordSize, WireAssumption DEF WireAssumption
<1>7. Len(old) + 3 * Word <= BufSize
  <2>1. PICK n : n = Len(old)
    OBVIOUS
  <2>2. ~(n + 3 * Word > BufSize)
    BY <1>1, <2>1, PayloadType
  <2> QED
    BY <1>6, <2>1, <2>2
<1>8. /\ data \in Seq(Byte) /\ Len(data) = Len(old) + 3 * Word /\ Extends(data, old)
      /\ \A k \in 1 .. 3 : \A j \in 0 .. Word - 1 :
            data[Len(old) + 1 + (k - 1) * Word + j] = LittleEndian(m.nums[k])[j + 1]
  BY <1>1, <1>7, PayloadType
<1>9. /\ Whole(m) => /\ a.ok /\ b.ok /\ c.ok /\ at = Len(old) + 1
                     /\ a.value = Lossy(Kept(Strings(m)[1]))
                     /\ b.value = Lossy(Kept(Strings(m)[2]))
                     /\ c.value = Lossy(Kept(Strings(m)[3]))
      /\ ~Whole(m) /\ a.ok /\ b.ok /\ c.ok => at > Len(old) + 1
      /\ at \in Nat \ {0}
  BY <1>1, <1>2, <1>3, <1>4, <1>5, <1>8, ReadStrings
<1>10. Len(data) >= 4 /\ SubSeq(data, 1, 3) = <<P, T, Version>> /\ data[4] = m.type
  <2>1. PICK head : head = Buf(m, 0)
    OBVIOUS
  <2>2. head = <<P, T, Version, m.type>> /\ Len(head) = 4 /\ head \in Seq(Byte)
    BY <2>1, BufType DEF Header
  <2>3. Extends(data, head)
    <3>1. /\ Extends(Buf(m, 1), Buf(m, 0)) /\ Extends(Buf(m, 2), Buf(m, 1))
          /\ Extends(Buf(m, 3), Buf(m, 2))
      <4>1. 1 \in 1 .. 3 /\ 2 \in 1 .. 3 /\ 3 \in 1 .. 3 /\ 1 - 1 = 0 /\ 2 - 1 = 1 /\ 3 - 1 = 2
        OBVIOUS
      <4> QED
        BY <4>1, BufType
    <3>2. Buf(m, 1) \in Seq(Byte) /\ Buf(m, 2) \in Seq(Byte)
      BY BufType
    <3>3. PICK b1, b2 : b1 = Buf(m, 1) /\ b2 = Buf(m, 2)
      OBVIOUS
    <3>4. /\ Extends(b1, head) /\ Extends(b2, b1) /\ Extends(old, b2)
          /\ b1 \in Seq(Byte) /\ b2 \in Seq(Byte)
      BY <1>1, <2>1, <3>1, <3>2, <3>3
    <3>5. Extends(data, b2)
      BY <1>6, <1>8, <3>4, ExtendsThrough
    <3>6. Extends(data, b1)
      BY <1>8, <3>4, <3>5, ExtendsThrough
    <3> QED
      BY <1>8, <2>2, <3>4, <3>6, ExtendsThrough
  <2>4. Len(data) >= 4 /\ \A i \in 1 .. 4 : data[i] = head[i]
    BY <2>2, <2>3 DEF Extends
  <2>5. data[1] = P /\ data[2] = T /\ data[3] = Version /\ data[4] = m.type
    <3>1. 1 \in 1 .. 4 /\ 2 \in 1 .. 4 /\ 3 \in 1 .. 4 /\ 4 \in 1 .. 4
      OBVIOUS
    <3>2. head[1] = P /\ head[2] = T /\ head[3] = Version /\ head[4] = m.type
      BY <2>2
    <3> QED
      BY <2>4, <3>1, <3>2
  <2>6. SubSeq(data, 1, 3) = <<P, T, Version>>
    <3>1. \A i \in 1 .. 3 : data[i] \in Byte
      <4>1. Len(data) \in Nat /\ \A i \in 1 .. 3 : i \in 1 .. Len(data)
        BY <1>8, <2>4, LenProperties
      <4> QED
        BY <1>8, <4>1, ElementOfSeq
    <3>2. PICK s : s = SubSeq(data, 1, 3)
      OBVIOUS
    <3>3. s \in Seq(Byte) /\ Len(s) = 3 /\ \A i \in 1 .. 3 : s[i] = data[i]
      <4>1. /\ s \in Seq(Byte) /\ Len(s) = IF 1 <= 3 THEN 3 - 1 + 1 ELSE 0
            /\ \A i \in 1 .. 3 - 1 + 1 : s[i] = data[1 + i - 1]
        BY <3>1, <3>2, SubSeqProperties
      <4>2. Len(s) = 3 /\ \A i \in 1 .. 3 : i \in 1 .. 3 - 1 + 1 /\ 1 + i - 1 = i
        BY <4>1
      <4> QED
        BY <4>1, <4>2
    <3>4. s[1] = P /\ s[2] = T /\ s[3] = Version
      BY <2>5, <3>3
    <3>5. PICK t : t = <<P, T, Version>>
      OBVIOUS
    <3>6. t \in Seq(Byte) /\ Len(t) = 3 /\ t[1] = P /\ t[2] = T /\ t[3] = Version
      BY <3>5, Sizes DEF P, T, Version
    <3>7. \A i \in 1 .. 3 : s[i] = t[i]
      BY <3>4, <3>6
    <3>8. s = t
      BY <3>3, <3>6, <3>7, SeqEqual
    <3> QED
      BY <3>2, <3>5, <3>8
  <2> QED
    BY <2>4, <2>5, <2>6
<1>11. DecodePayload(data) =
          IF ~a.ok \/ ~b.ok \/ ~c.ok \/ ~u[3].ok THEN Failure
          ELSE Success(<<EventOf(m.type, a.value, b.value, c.value,
                                 [k \in 1 .. 3 |-> u[k].value])>>)
  <2>1. DecodePayload(data) =
          IF Len(data) < 4 THEN Success(<<>>)
          ELSE IF SubSeq(data, 1, 3) # <<P, T, Version>> THEN Success(<<>>)
          ELSE IF data[4] \notin 1 .. DoneT \/ ~a.ok \/ ~b.ok \/ ~c.ok \/ ~u[3].ok THEN Failure
          ELSE Success(<<EventOf(data[4], a.value, b.value, c.value,
                                 [k \in 1 .. 3 |-> u[k].value])>>)
    BY <1>2, <1>3, <1>4, <1>5 DEF DecodePayload
  <2>2. ~(Len(data) < 4) /\ m.type \in 1 .. DoneT
    <3>1. Len(data) \in Nat
      BY <1>8, LenProperties
    <3> QED
      BY <1>10, <3>1, MessageType DEF DoneT
  <2> HIDE DEF u
  <2> QED
    BY <1>10, <2>1, <2>2
<1>12. CASE Whole(m)
  <2>1. ASSUME NEW k \in 1 .. 3 PROVE u[k] = [ok |-> TRUE, value |-> m.nums[k]]
    <3>1. PICK v, from : v = m.nums[k] /\ from = at + (k - 1) * Word
      OBVIOUS
    <3>2. v \in Nat /\ Shifted(v)[Word] = 0
      BY <3>1, MessageType
    <3>3. /\ from \in Nat /\ from = Len(old) + 1 + (k - 1) * Word /\ from + Word - 1 <= Len(data)
      <4>1. PICK n : n = Len(old)
        OBVIOUS
      <4>2. n \in Nat /\ at = n + 1 /\ Len(data) = n + 3 * Word
        BY <1>6, <1>8, <1>9, <1>12, <4>1
      <4>3. k = 1 \/ k = 2 \/ k = 3
        OBVIOUS
      <4> QED
        BY <3>1, <4>1, <4>2, <4>3, WordSize
    <3>4. \A j \in 0 .. Word - 1 : data[from + j] = Shifted(v)[j] % Base
      <4>1. ASSUME NEW j \in 0 .. Word - 1 PROVE data[from + j] = Shifted(v)[j] % Base
        <5>1. from + j = Len(old) + 1 + (k - 1) * Word + j
          BY <3>3
        <5>2. data[from + j] = LittleEndian(v)[j + 1]
          BY <1>8, <3>1, <5>1
        <5> QED
          BY <3>2, <5>2, LittleEndianType
      <4> QED
        BY <4>1
    <3>5. ReadWord(data, from) = [ok |-> TRUE, value |-> v]
      BY <1>8, <3>2, <3>3, <3>4, ReadWordStep
    <3> QED
      BY <3>1, <3>5
  <2> HIDE DEF u
  <2>2. u[3].ok
    BY <2>1
  <2>3. [k \in 1 .. 3 |-> u[k].value] = m.nums
    <3>1. PICK nums : nums = m.nums
      OBVIOUS
    <3>2. nums \in Seq(Nat) /\ Len(nums) = 3
      BY <3>1, MessageType
    <3>3. nums = [k \in 1 .. 3 |-> nums[k]]
      BY <3>2, LenProperties
    <3>4. \A k \in 1 .. 3 : u[k].value = nums[k]
      BY <2>1, <3>1
    <3> QED
      BY <3>1, <3>3, <3>4
  <2> QED
    BY <1>1, <1>9, <1>11, <1>12, <2>2, <2>3
<1>13. CASE ~Whole(m)
  <2>1. ASSUME a.ok, b.ok, c.ok PROVE ~u[3].ok
    <3>1. PICK n, from : n = Len(old) /\ from = at + (3 - 1) * Word
      OBVIOUS
    <3>2. at > n + 1 /\ at \in Nat /\ n \in Nat /\ Len(data) = n + 3 * Word
      BY <1>6, <1>8, <1>9, <1>13, <2>1, <3>1
    <3>3. from + Word - 1 > Len(data)
      BY <3>1, <3>2, WordSize
    <3>4. ReadWord(data, from) = [ok |-> FALSE, value |-> 0]
      BY <3>3 DEF ReadWord
    <3> QED
      BY <3>1, <3>4
  <2> HIDE DEF u
  <2> QED
    BY <1>1, <1>11, <1>13, <2>1
<1> QED
  BY <1>12, <1>13

(* from_utf8_lossy keeps the length, in this alphabet.                     *)
LEMMA LossyType ==
    ASSUME NEW X, NEW s \in Seq(X)
    PROVE  Lossy(s) \in Seq(X \cup {Replacement}) /\ Len(Lossy(s)) = Len(s)
<1>1. Len(s) \in Nat /\ DOMAIN s = 1 .. Len(s) /\ \A k \in 1 .. Len(s) : s[k] \in X
  BY LenProperties, ElementOfSeq
<1>2. PICK n : n = Len(s)
  OBVIOUS
<1>3. PICK t : t = Lossy(s)
  OBVIOUS
<1>4. t \in [1 .. n -> X \cup {Replacement}]
  BY <1>1, <1>2, <1>3 DEF Lossy
<1>5. t \in Seq(X \cup {Replacement})
  BY <1>1, <1>2, <1>4, SeqDef
<1>6. Len(t) = n
  BY <1>1, <1>2, <1>4, <1>5, LenProperties
<1> QED
  BY <1>2, <1>3, <1>5, <1>6

(* Nothing is lost of nothing.                                             *)
LEMMA LossyEmpty == Lossy(<<>>) = <<>>
<1>1. <<>> \in Seq({}) /\ Len(<<>>) = 0
  BY EmptySeq
<1>2. Lossy(<<>>) \in Seq({} \cup {Replacement}) /\ Len(Lossy(<<>>)) = 0
  BY <1>1, LossyType
<1> QED
  BY <1>2, EmptySeq

(* What is cut and decoded is a beginning.                                 *)
LEMMA PrefixBegins ==
    ASSUME NEW X, NEW s \in Seq(X), NEW n \in Nat
    PROVE  Begins(Lossy(Prefix(s, n)), s) /\ Begins(<<>>, s)
<1>1. PICK t : t = Prefix(s, n)
  OBVIOUS
<1>2. t \in Seq(X) /\ Len(t) = Shorter(n, Len(s)) /\ t = Prefix(s, Shorter(n, Len(s)))
  BY <1>1, PrefixType
<1>3. Len(Lossy(t)) = Len(t)
  BY <1>2, LossyType
<1>4. Begins(Lossy(t), s)
  BY <1>2, <1>3 DEF Begins
<1>5. Len(s) \in Nat
  BY LenProperties
<1>6. Prefix(s, 0) = <<>>
  <2>1. Prefix(s, 0) = SubSeq(s, 1, 0)
    BY <1>5 DEF Prefix, Shorter
  <2> QED
    BY <2>1, SubSeqEmpty
<1>7. Begins(<<>>, s)
  <2>1. Len(<<>>) = 0
    BY EmptySeq
  <2> QED
    BY <1>6, <2>1, LossyEmpty DEF Begins
<1> QED
  BY <1>1, <1>4, <1>7

(* A prefix of a prefix is one.                                            *)
LEMMA PrefixOfPrefix ==
    ASSUME NEW X, NEW s \in Seq(X), NEW n \in Nat, NEW k \in Nat
    PROVE  Prefix(Prefix(s, n), k) = Prefix(s, Shorter(n, k))
<1>1. PICK t : t = Prefix(s, n)
  OBVIOUS
<1>2. PICK u : u = Prefix(t, k)
  OBVIOUS
<1>3. PICK l : l = Shorter(n, k)
  OBVIOUS
<1>4. PICK v : v = Prefix(s, l)
  OBVIOUS
<1>5. PICK len : len = Len(s)
  OBVIOUS
<1>6. len \in Nat /\ l \in Nat /\ Shorter(n, len) \in Nat
  BY <1>3, <1>5, LenProperties DEF Shorter
<1>7. t \in Seq(X) /\ Len(t) = Shorter(n, len) /\ \A i \in 1 .. Shorter(n, len) : t[i] = s[i]
  BY <1>1, <1>5, PrefixType
<1>8. u \in Seq(X) /\ Len(u) = Shorter(k, Len(t)) /\ \A i \in 1 .. Shorter(k, Len(t)) : u[i] = t[i]
  BY <1>2, <1>7, PrefixType
<1>9. v \in Seq(X) /\ Len(v) = Shorter(l, len) /\ \A i \in 1 .. Shorter(l, len) : v[i] = s[i]
  BY <1>4, <1>5, <1>6, PrefixType
<1>10. Len(u) = Shorter(k, Shorter(n, len))
  BY <1>7, <1>8
<1>11. Shorter(k, Shorter(n, len)) = Shorter(l, len)
  BY <1>3, <1>6 DEF Shorter
<1>12. \A i \in 1 .. Len(u) : u[i] = v[i]
  <2>1. PICK a, b : a = Shorter(n, len) /\ b = Shorter(l, len)
    OBVIOUS
  <2>2. Len(u) = b /\ b = Shorter(k, Len(t)) /\ b <= a /\ a \in Nat /\ b \in Nat
    BY <1>3, <1>6, <1>7, <1>8, <1>10, <1>11, <2>1 DEF Shorter
  <2>3. ASSUME NEW i \in 1 .. b PROVE u[i] = v[i]
    <3>1. i \in 1 .. a
      BY <2>2
    <3> QED
      BY <1>7, <1>8, <1>9, <2>1, <2>2, <3>1
  <2> QED
    BY <2>2, <2>3
<1>13. u = v
  BY <1>8, <1>9, <1>10, <1>11, <1>12, SeqEqual
<1> QED
  BY <1>1, <1>2, <1>3, <1>4, <1>13

NumsOf(type, u) == EventOf(type, <<>>, <<>>, <<>>, u).nums
CaseTypes == {CaseStartT, AssertFailT, CaseEndT}

(* What EventOf keeps of each type of event.                               *)
LEMMA EventIs ==
    ASSUME NEW type, type \in EventTypes, NEW u, NEW x, NEW y, NEW z
    PROVE  /\ type = SuiteStartT => EventOf(type, x, y, z, u) =
                 [type |-> type, suite |-> x, leaf |-> <<>>, text |-> <<>>, nums |-> <<>>]
           /\ type = CaseStartT => EventOf(type, x, y, z, u) =
                 [type |-> type, suite |-> x, leaf |-> y, text |-> <<>>, nums |-> <<>>]
           /\ type = AssertFailT => EventOf(type, x, y, z, u) =
                 [type |-> type, suite |-> x, leaf |-> y, text |-> z, nums |-> <<u[1]>>]
           /\ type = CaseEndT => EventOf(type, x, y, z, u) =
                 [type |-> type, suite |-> x, leaf |-> y, text |-> <<>>, nums |-> <<Status(u[1])>>]
           /\ type = SuiteEndT => EventOf(type, x, y, z, u) =
                 [type |-> type, suite |-> x, leaf |-> <<>>, text |-> <<>>, nums |-> u]
           /\ type = DoneT => EventOf(type, x, y, z, u) =
                 [type |-> type, suite |-> <<>>, leaf |-> <<>>, text |-> <<>>, nums |-> u]
<1>0. ASSUME NEW t, NEW s, NEW n
      PROVE  /\ [Nothing EXCEPT !.type = t, !.suite = s]
                = [type |-> t, suite |-> s, leaf |-> <<>>, text |-> <<>>, nums |-> <<>>]
             /\ [Nothing EXCEPT !.type = t, !.nums = n]
                = [type |-> t, suite |-> <<>>, leaf |-> <<>>, text |-> <<>>, nums |-> n]
  <2>1. PICK e : e = [Nothing EXCEPT !.type = t, !.suite = s]
    OBVIOUS
  <2>2. e = [type |-> t, suite |-> s, leaf |-> <<>>, text |-> <<>>, nums |-> <<>>]
    BY <2>1 DEF Nothing
  <2>3. PICK f : f = [Nothing EXCEPT !.type = t, !.nums = n]
    OBVIOUS
  <2>4. f = [type |-> t, suite |-> <<>>, leaf |-> <<>>, text |-> <<>>, nums |-> n]
    BY <2>3 DEF Nothing
  <2> QED
    BY <2>1, <2>2, <2>3, <2>4
<1> USE DEF SuiteStartT, CaseStartT, AssertFailT, CaseEndT, SuiteEndT, DoneT, LogT
<1>1. CASE type = SuiteStartT
  <2>1. PICK e : e = [Nothing EXCEPT !.type = type, !.suite = x]
    OBVIOUS
  <2>2. EventOf(type, x, y, z, u) = e
    BY <1>1, <2>1 DEF EventOf, NameEvent
  <2>3. e = [type |-> type, suite |-> x, leaf |-> <<>>, text |-> <<>>, nums |-> <<>>]
    BY <1>0, <2>1
  <2> QED
    BY <1>1, <2>2, <2>3
<1>2. CASE type \in CaseTypes
  BY <1>2 DEF EventOf, CaseEvent, CaseTypes
<1>3. CASE type = SuiteEndT
  <2>1. PICK f : f = NameEvent(type, x)
    OBVIOUS
  <2>2. PICK e : e = [f EXCEPT !.nums = u]
    OBVIOUS
  <2>3. EventOf(type, x, y, z, u) = e
    BY <1>3, <2>1, <2>2 DEF EventOf
  <2>4. f = [type |-> type, suite |-> x, leaf |-> <<>>, text |-> <<>>, nums |-> <<>>]
    BY <1>0, <2>1 DEF NameEvent
  <2>5. e = [type |-> type, suite |-> x, leaf |-> <<>>, text |-> <<>>, nums |-> u]
    BY <2>2, <2>4
  <2> QED
    BY <1>3, <2>3, <2>5
<1>4. CASE type = DoneT
  <2>1. PICK e : e = [Nothing EXCEPT !.type = DoneT, !.nums = u]
    OBVIOUS
  <2>2. EventOf(type, x, y, z, u) = e
    BY <1>4, <2>1 DEF EventOf
  <2>3. e = [type |-> DoneT, suite |-> <<>>, leaf |-> <<>>, text |-> <<>>, nums |-> u]
    BY <1>0, <2>1
  <2> QED
    BY <1>4, <2>2, <2>3
<1> QED
  BY <1>1, <1>2, <1>3, <1>4 DEF EventTypes, CaseTypes

(* The fields of a decoded event.                                          *)
LEMMA EventFields ==
    ASSUME NEW type \in EventTypes, NEW a, NEW b, NEW c, NEW u
    PROVE  EventOf(type, a, b, c, u) =
              [type |-> type, suite |-> IF type = DoneT THEN <<>> ELSE a,
               leaf |-> IF type \in CaseTypes THEN b ELSE <<>>,
               text |-> IF type = AssertFailT THEN c ELSE <<>>,
               nums |-> NumsOf(type, u)]
<1>3. ASSUME NEW x, NEW y, NEW z
      PROVE  /\ type = SuiteStartT => EventOf(type, x, y, z, u) =
                   [type |-> type, suite |-> x, leaf |-> <<>>, text |-> <<>>, nums |-> <<>>]
             /\ type = CaseStartT => EventOf(type, x, y, z, u) =
                   [type |-> type, suite |-> x, leaf |-> y, text |-> <<>>, nums |-> <<>>]
             /\ type = AssertFailT => EventOf(type, x, y, z, u) =
                   [type |-> type, suite |-> x, leaf |-> y, text |-> z, nums |-> <<u[1]>>]
             /\ type = CaseEndT => EventOf(type, x, y, z, u) =
                   [type |-> type, suite |-> x, leaf |-> y, text |-> <<>>, nums |-> <<Status(u[1])>>]
             /\ type = SuiteEndT => EventOf(type, x, y, z, u) =
                   [type |-> type, suite |-> x, leaf |-> <<>>, text |-> <<>>, nums |-> u]
             /\ type = DoneT => EventOf(type, x, y, z, u) =
                   [type |-> type, suite |-> <<>>, leaf |-> <<>>, text |-> <<>>, nums |-> u]
  BY EventIs
<1>4. EventOf(type, a, b, c, u).nums = NumsOf(type, u)
  BY <1>3 DEF NumsOf, EventTypes
<1> USE DEF SuiteStartT, CaseStartT, AssertFailT, CaseEndT, SuiteEndT, DoneT
<1>5. CASE type = SuiteStartT
  BY <1>3, <1>4, <1>5 DEF CaseTypes
<1>6. CASE type = CaseStartT
  BY <1>3, <1>4, <1>6 DEF CaseTypes
<1>7. CASE type = AssertFailT
  BY <1>3, <1>4, <1>7 DEF CaseTypes
<1>8. CASE type = CaseEndT
  BY <1>3, <1>4, <1>8 DEF CaseTypes
<1>9. CASE type = SuiteEndT
  BY <1>3, <1>4, <1>9 DEF CaseTypes
<1>10. CASE type = DoneT
  BY <1>3, <1>4, <1>10 DEF CaseTypes
<1> QED
  BY <1>5, <1>6, <1>7, <1>8, <1>9, <1>10 DEF EventTypes

(* The event the host makes of a frame from which no string is missing.    *)
Sent(m) == EventOf(m.type, Lossy(Kept(Strings(m)[1])), Lossy(Kept(Strings(m)[2])),
                   Lossy(Kept(Strings(m)[3])), m.nums)

MeantLeaf(m) == IF OfCase(m) THEN m.group \o <<Dot>> \o m.name ELSE <<>>

(* The strings each type of event has.                                     *)
LEMMA StringsAre ==
    ASSUME NEW m
    PROVE  /\ m.type # DoneT => Strings(m)[1] = m.suite
           /\ m.type \in CaseTypes => Strings(m)[2] = Leaf(m)
           /\ m.type = AssertFailT => Strings(m)[3] = m.text
BY DEF Strings, OfCase, CaseTypes

(* The fields of the event that was meant.                                 *)
LEMMA MeantFields ==
    ASSUME NEW m \in Messages, setup.format = "cobs"
    PROVE  Meant(m) =
              [type |-> m.type, suite |-> IF m.type = DoneT THEN <<>> ELSE m.suite,
               leaf |-> IF m.type \in CaseTypes THEN m.group \o <<Dot>> \o m.name ELSE <<>>,
               text |-> IF m.type = AssertFailT THEN m.text ELSE <<>>,
               nums |-> NumsOf(m.type, m.nums)]
<1>1. Meant(m) = EventOf(m.type, m.suite, MeantLeaf(m), m.text, m.nums)
  BY DEF Meant, MeantLeaf
<1>2. PICK whole : whole = m.group \o <<Dot>> \o m.name
  OBVIOUS
<1>3. m.type \in CaseTypes => MeantLeaf(m) = whole
  BY <1>2 DEF MeantLeaf, OfCase, CaseTypes
<1>4. PICK leaf : leaf = MeantLeaf(m)
  OBVIOUS
<1>5. Meant(m) =
         [type |-> m.type, suite |-> IF m.type = DoneT THEN <<>> ELSE m.suite,
          leaf |-> IF m.type \in CaseTypes THEN leaf ELSE <<>>,
          text |-> IF m.type = AssertFailT THEN m.text ELSE <<>>,
          nums |-> NumsOf(m.type, m.nums)]
  <2>1. m.type \in EventTypes
    BY MessageType
  <2> QED
    BY <1>1, <1>4, <2>1, EventFields
<1>6. (IF m.type \in CaseTypes THEN leaf ELSE <<>>)
      = (IF m.type \in CaseTypes THEN whole ELSE <<>>)
  BY <1>3, <1>4
<1> QED
  BY <1>2, <1>5, <1>6

(* The fields of the event that is sent when nothing is left out.          *)
LEMMA SentFields ==
    ASSUME NEW m \in Messages
    PROVE  Sent(m) =
              [type |-> m.type,
               suite |-> IF m.type = DoneT THEN <<>> ELSE Lossy(Kept(m.suite)),
               leaf |-> IF m.type \in CaseTypes THEN Lossy(Kept(Leaf(m))) ELSE <<>>,
               text |-> IF m.type = AssertFailT THEN Lossy(Kept(m.text)) ELSE <<>>,
               nums |-> NumsOf(m.type, m.nums)]
BY MessageType, EventFields, StringsAre DEF Sent

(* What is sent is the beginning of what was meant.                        *)
LEMMA SentBegins ==
    ASSUME NEW m \in Messages, setup.format = "cobs"
    PROVE  /\ Sent(m).type = Meant(m).type /\ Sent(m).nums = Meant(m).nums
           /\ Begins(Sent(m).suite, Meant(m).suite)
           /\ Begins(Sent(m).leaf, Meant(m).leaf)
           /\ Begins(Sent(m).text, Meant(m).text)
<1>1. PICK whole : whole = m.group \o <<Dot>> \o m.name
  OBVIOUS
<1>2. /\ whole \in Seq(1 .. Full) /\ m.suite \in Seq(1 .. Full) /\ m.text \in Seq(1 .. Full)
      /\ <<>> \in Seq(1 .. Full) /\ Full \in Nat
  BY <1>1, MessageType, DottedType, EmptySeq, Sizes DEF Text
<1>3. Begins(Lossy(Kept(m.suite)), m.suite) /\ Begins(Lossy(Kept(m.text)), m.text)
  BY <1>2, PrefixBegins DEF Kept
<1>4. Begins(Lossy(Kept(Leaf(m))), whole)
  <2>1. LeafSize - 1 \in Nat
    BY WireAssumption DEF WireAssumption
  <2>2. Leaf(m) = Prefix(whole, LeafSize - 1)
    BY <1>1 DEF Leaf
  <2>3. Kept(Leaf(m)) = Prefix(whole, Shorter(LeafSize - 1, Full))
    BY <1>2, <2>1, <2>2, PrefixOfPrefix DEF Kept
  <2>4. Shorter(LeafSize - 1, Full) \in Nat
    BY <1>2, <2>1 DEF Shorter
  <2> QED
    BY <1>2, <2>3, <2>4, PrefixBegins
<1>5. \A s \in Seq(1 .. Full) : Begins(<<>>, s)
  BY PrefixBegins, 0 \in Nat
<1>6. PICK e, f : e = Sent(m) /\ f = Meant(m)
  OBVIOUS
<1>7. f = [type |-> m.type, suite |-> IF m.type = DoneT THEN <<>> ELSE m.suite,
           leaf |-> IF m.type \in CaseTypes THEN whole ELSE <<>>,
           text |-> IF m.type = AssertFailT THEN m.text ELSE <<>>,
           nums |-> NumsOf(m.type, m.nums)]
  BY <1>1, <1>6, MeantFields
<1>8. e = [type |-> m.type, suite |-> IF m.type = DoneT THEN <<>> ELSE Lossy(Kept(m.suite)),
           leaf |-> IF m.type \in CaseTypes THEN Lossy(Kept(Leaf(m))) ELSE <<>>,
           text |-> IF m.type = AssertFailT THEN Lossy(Kept(m.text)) ELSE <<>>,
           nums |-> NumsOf(m.type, m.nums)]
  BY <1>6, SentFields
<1>9. e.type = f.type /\ e.nums = f.nums
  BY <1>7, <1>8
<1>10. Begins(e.suite, f.suite)
  BY <1>2, <1>3, <1>5, <1>7, <1>8
<1>11. Begins(e.leaf, f.leaf)
  BY <1>2, <1>4, <1>5, <1>7, <1>8
<1>12. Begins(e.text, f.text)
  BY <1>2, <1>3, <1>5, <1>7, <1>8
<1> QED
  BY <1>6, <1>9, <1>10, <1>11, <1>12

(* Events that fit are sent, with all their strings.                       *)
LEMMA FitsWhole ==
    ASSUME NEW m \in Messages, Fits(m)
    PROVE  Payload(m) # <<>> /\ Whole(m) /\ \A k \in 1 .. 3 : Kept(Strings(m)[k]) = Strings(m)[k]
<1>1. PICK s1, s2, s3 : s1 = Strings(m)[1] /\ s2 = Strings(m)[2] /\ s3 = Strings(m)[3]
  OBVIOUS
<1>2. PICK b0, b1, b2, b3 : b0 = Buf(m, 0) /\ b1 = Buf(m, 1) /\ b2 = Buf(m, 2) /\ b3 = Buf(m, 3)
  OBVIOUS
<1>3. s1 \in Seq(Byte) /\ s2 \in Seq(Byte) /\ s3 \in Seq(Byte)
  BY <1>1, StringsType
<1>4. b0 \in Seq(Byte) /\ b1 \in Seq(Byte) /\ b2 \in Seq(Byte) /\ b3 \in Seq(Byte) /\ Len(b0) = 4
  BY <1>2, BufType
<1>5. Len(s1) <= Full /\ Len(s2) <= Full /\ Len(s3) <= Full
  BY <1>1 DEF Fits
<1>6. Kept(s1) = s1 /\ Kept(s2) = s2 /\ Kept(s3) = s3
  <2>1. \A s \in Seq(Byte) : Len(s) <= Full => Prefix(s, Full) = s
    BY PrefixType, Sizes, LenProperties
  <2> QED
    BY <1>3, <1>5, <2>1 DEF Kept
<1>7. b1 = PutStr(b0, s1) /\ b2 = PutStr(b1, s2) /\ b3 = PutStr(b2, s3)
  BY <1>1, <1>2 DEF Buf
<1>8. Len(s1) \in Nat /\ Len(s2) \in Nat /\ Len(s3) \in Nat /\ BufSize \in Nat /\ 3 * Word \in Nat
  BY <1>3, LenProperties, WordSize, WireAssumption DEF WireAssumption
<1>9. 4 + 3 + Len(s1) + Len(s2) + Len(s3) + 3 * Word <= BufSize
  <2>1. PayloadSize(m) = 4 + 3 + Len(s1) + Len(s2) + Len(s3) + 3 * Word
    BY <1>1 DEF PayloadSize
  <2> QED
    BY <2>1 DEF Fits
<1>10. HasRoom(b0, s1) /\ Len(b1) = 5 + Len(s1)
  <2>1. HasRoom(b0, s1)
    BY <1>4, <1>6, <1>8, <1>9 DEF HasRoom
  <2>2. Len(b1) = Len(b0) + 1 + Len(Kept(s1))
    BY <1>3, <1>4, <1>7, <2>1, PutStrType
  <2> QED
    BY <1>4, <1>6, <1>8, <2>1, <2>2
<1>11. HasRoom(b1, s2) /\ Len(b2) = 6 + Len(s1) + Len(s2)
  <2>1. HasRoom(b1, s2)
    BY <1>6, <1>8, <1>9, <1>10 DEF HasRoom
  <2>2. Len(b2) = Len(b1) + 1 + Len(Kept(s2))
    BY <1>3, <1>4, <1>7, <2>1, PutStrType
  <2> QED
    BY <1>6, <1>8, <1>10, <2>1, <2>2
<1>12. HasRoom(b2, s3) /\ Len(b3) = 7 + Len(s1) + Len(s2) + Len(s3)
  <2>1. HasRoom(b2, s3)
    BY <1>6, <1>8, <1>9, <1>11 DEF HasRoom
  <2>2. Len(b3) = Len(b2) + 1 + Len(Kept(s3))
    BY <1>3, <1>4, <1>7, <2>1, PutStrType
  <2> QED
    BY <1>6, <1>8, <1>11, <2>1, <2>2
<1>13. Whole(m)
  <2>1. ASSUME NEW k \in 1 .. 3 PROVE HasRoom(Buf(m, k - 1), Strings(m)[k])
    <3>1. CASE k = 1
      BY <1>1, <1>2, <1>10, <3>1
    <3>2. CASE k = 2
      BY <1>1, <1>2, <1>11, <3>2
    <3>3. CASE k = 3
      BY <1>1, <1>2, <1>12, <3>3
    <3> QED
      BY <3>1, <3>2, <3>3
  <2> QED
    BY <2>1 DEF Whole
<1>14. Payload(m) # <<>>
  <2>1. Len(b3) + 3 * Word <= BufSize
    BY <1>8, <1>9, <1>12
  <2>2. Len(Payload(m)) = Len(b3) + 3 * Word
    BY <1>2, <2>1, PayloadType
  <2>3. Len(b3) + 3 * Word # 0
    BY <1>8, <1>12
  <2> QED
    BY <2>2, <2>3, EmptySeq
<1>15. \A k \in 1 .. 3 : k = 1 \/ k = 2 \/ k = 3
  OBVIOUS
<1> QED
  BY <1>1, <1>6, <1>13, <1>14, <1>15

(* What is sent of an event that fits is what was meant.                   *)
LEMMA SentWhole ==
    ASSUME NEW m \in Messages, setup.format = "cobs", Fits(m), Utf8(m)
    PROVE  Sent(m) = Meant(m)
<1>1. PICK whole : whole = m.group \o <<Dot>> \o m.name
  OBVIOUS
<1>2. /\ whole \in Seq(1 .. Full) /\ Len(whole) = Len(m.group) + Len(m.name) + 1
      /\ m.group \in Seq(1 .. Full) /\ m.name \in Seq(1 .. Full)
  BY <1>1, MessageType, DottedType DEF Text
<1>3. \A k \in 1 .. 3 : Kept(Strings(m)[k]) = Strings(m)[k] /\ Lossy(Strings(m)[k]) = Strings(m)[k]
  BY FitsWhole DEF Utf8
<1>4. /\ Lossy(Kept(Strings(m)[1])) = Strings(m)[1] /\ Lossy(Kept(Strings(m)[2])) = Strings(m)[2]
      /\ Lossy(Kept(Strings(m)[3])) = Strings(m)[3]
  BY <1>3
<1>5. m.type \in CaseTypes => Leaf(m) = whole
  <2>1. LeafSize - 1 \in Nat
    BY WireAssumption DEF WireAssumption
  <2>2. Leaf(m) = Prefix(whole, LeafSize - 1)
    BY <1>1 DEF Leaf
  <2>3. ASSUME m.type \in CaseTypes PROVE Len(whole) <= LeafSize - 1
    <3>1. PICK g, n, both : g = m.group /\ n = m.name /\ both = m.group \o m.name
      OBVIOUS
    <3>2. Len(both) + 1 < LeafSize
      BY <2>3, <3>1 DEF Fits, OfCase, CaseTypes
    <3>3. Len(g) \in Nat /\ Len(n) \in Nat /\ Len(both) = Len(g) + Len(n)
      <4>1. g \in Seq(1 .. Full) /\ n \in Seq(1 .. Full) /\ both = g \o n
        BY <1>2, <3>1
      <4> QED
        BY <4>1, LenProperties, ConcatProperties
    <3>4. Len(whole) = Len(g) + Len(n) + 1 /\ LeafSize \in Nat
      BY <1>2, <3>1, WireAssumption DEF WireAssumption
    <3> QED
      BY <3>2, <3>3, <3>4
  <2> QED
    BY <1>2, <2>1, <2>2, <2>3, PrefixType
<1>6. /\ m.type # DoneT => Lossy(Kept(m.suite)) = m.suite
      /\ m.type \in CaseTypes => Lossy(Kept(Leaf(m))) = whole
      /\ m.type = AssertFailT => Lossy(Kept(m.text)) = m.text
  BY <1>4, <1>5, StringsAre
<1>7. PICK e, f : e = Sent(m) /\ f = Meant(m)
  OBVIOUS
<1>8. f = [type |-> m.type, suite |-> IF m.type = DoneT THEN <<>> ELSE m.suite,
           leaf |-> IF m.type \in CaseTypes THEN whole ELSE <<>>,
           text |-> IF m.type = AssertFailT THEN m.text ELSE <<>>,
           nums |-> NumsOf(m.type, m.nums)]
  BY <1>1, <1>7, MeantFields
<1>9. e = [type |-> m.type, suite |-> IF m.type = DoneT THEN <<>> ELSE Lossy(Kept(m.suite)),
           leaf |-> IF m.type \in CaseTypes THEN Lossy(Kept(Leaf(m))) ELSE <<>>,
           text |-> IF m.type = AssertFailT THEN Lossy(Kept(m.text)) ELSE <<>>,
           nums |-> NumsOf(m.type, m.nums)]
  BY <1>7, SentFields
<1>10. e = f
  BY <1>6, <1>8, <1>9
<1> QED
  BY <1>7, <1>10

-----------------------------------------------------------------------------
(* What is cut at the delimiters of a stream.                              *)

(* What concatenation does, of anything, of symbols and of pieces.         *)
Concatenates(S) ==
    /\ \A a, b \in S : a ++ b \in S
    /\ \A a, b, c \in S : (a ++ b) ++ c = a ++ (b ++ c)
    /\ \A a \in S : a ++ <<>> = a /\ <<>> ++ a = a

(* Concatenation is associative and has a unit.                            *)
LEMMA JoinsOf == ASSUME NEW X PROVE Concatenates(Seq(X))
<1>1. \A a, b \in Seq(X) : a ++ b \in Seq(X)
  BY ConcatProperties DEF ++
<1>2. ASSUME NEW a \in Seq(X), NEW b \in Seq(X), NEW c \in Seq(X)
      PROVE  (a ++ b) ++ c = a ++ (b ++ c)
  BY ConcatAssociative DEF ++
<1>3. ASSUME NEW a \in Seq(X) PROVE a ++ <<>> = a /\ <<>> ++ a = a
  BY ConcatEmptySeq DEF ++
<1> QED
  BY <1>1, <1>2, <1>3 DEF Concatenates

(* Appending to a concatenation.                                           *)
LEMMA AppendJoins ==
    ASSUME NEW X
    PROVE  \A a, b \in Seq(X), e \in X : a ++ Append(b, e) = Append(a ++ b, e)
<1>1. Concatenates(Seq(X))
  BY JoinsOf
<1>2. ASSUME NEW a \in Seq(X), NEW b \in Seq(X), NEW e \in X
      PROVE  a ++ Append(b, e) = Append(a ++ b, e)
  <2>1. PICK one : one = <<e>>
    OBVIOUS
  <2>2. one \in Seq(X) /\ a ++ b \in Seq(X)
    BY <1>1, <2>1 DEF Concatenates
  <2>3. Append(b, e) = b ++ one /\ Append(a ++ b, e) = (a ++ b) ++ one
    BY <2>1, <2>2, AppendIsConcat DEF ++
  <2>4. (a ++ b) ++ one = a ++ (b ++ one)
    BY <1>1, <2>2 DEF Concatenates
  <2> QED
    BY <2>3, <2>4
<1> QED
  BY <1>2

(* The same for bytes and for pieces.                                      *)
LEMMA Joining ==
    /\ Concatenates(Seq(Nat)) /\ Concatenates(Seq(Seq(Nat)))
    /\ \A a, b \in Seq(Nat), e \in Nat : a ++ Append(b, e) = Append(a ++ b, e)
    /\ \A a, b \in Seq(Seq(Nat)), e \in Seq(Nat) : a ++ Append(b, e) = Append(a ++ b, e)
BY JoinsOf, AppendJoins

Unmarked(s, mark) == \A i \in 1 .. Len(s) : s[i] # mark

(* Pieces and rest are sequences of what was cut.                          *)
LEMMA CutType ==
    ASSUME NEW s \in Seq(Nat), NEW mark
    PROVE  /\ Cut(s, mark) = [done |-> Cut(s, mark).done, rest |-> Cut(s, mark).rest]
           /\ Cut(s, mark).done \in Seq(Seq(Nat)) /\ Cut(s, mark).rest \in Seq(Nat) /\ Unmarked(Cut(s, mark).rest, mark)
<1> DEFINE Typed(c) == /\ c = [done |-> c.done, rest |-> c.rest]
                       /\ c.done \in Seq(Seq(Nat)) /\ c.rest \in Seq(Nat) /\ Unmarked(c.rest, mark)
           Good == {t \in Seq(Nat) : Typed(Cut(t, mark))}
<1>1. <<>> \in Good
  <2>1. PICK c : c = Cut(<<>>, mark)
    OBVIOUS
  <2>2. c = [done |-> <<>>, rest |-> <<>>]
    BY <2>1, CutFirst
  <2>3. Typed(c)
    BY <2>2, EmptySeq DEF Unmarked
  <2> HIDE DEF Typed
  <2> QED
    BY <2>1, <2>3, EmptySeq
<1>2. ASSUME NEW t \in Seq(Nat), NEW e \in Nat, t \in Good PROVE Append(t, e) \in Good
  <2>1. PICK c : c = Cut(t, mark)
    OBVIOUS
  <2>2. Typed(c)
    BY <1>2, <2>1
  <2>3. PICK d : d = CutAt(c, e, mark)
    OBVIOUS
  <2>4. CASE e = mark
    <3>1. PICK more : more = Append(c.done, c.rest)
      OBVIOUS
    <3>2. more \in Seq(Seq(Nat))
      BY <2>2, <3>1, AppendProperties
    <3>3. d = [done |-> more, rest |-> <<>>]
      BY <2>3, <2>4, <3>1 DEF CutAt
    <3> QED
      <4>1. Typed(d)
        BY <3>2, <3>3, EmptySeq DEF Unmarked
      <4> HIDE DEF Typed
      <4> QED
        BY <2>1, <2>3, <4>1, CutStep, AppendProperties
  <2>5. CASE e # mark
    <3>1. PICK done, rest : done = c.done /\ rest = c.rest
      OBVIOUS
    <3>2. c = [done |-> done, rest |-> rest]
      BY <2>2, <3>1
    <3>3. PICK long : long = Append(rest, e)
      OBVIOUS
    <3>4. d = [c EXCEPT !.rest = Append(@, e)]
      BY <2>3, <2>5 DEF CutAt
    <3>5. d = [done |-> done, rest |-> long]
      BY <3>2, <3>3, <3>4
    <3>6. rest \in Seq(Nat) /\ Unmarked(rest, mark) /\ done \in Seq(Seq(Nat))
      BY <2>2, <3>1
    <3>7. /\ long \in Seq(Nat) /\ Len(long) = Len(rest) + 1 /\ Len(rest) \in Nat
          /\ \A i \in 1 .. Len(rest) : long[i] = rest[i]
          /\ long[Len(rest) + 1] = e
      BY <3>3, <3>6, AppendProperties, LenProperties
    <3>8. Unmarked(long, mark)
      <4>1. ASSUME NEW i \in 1 .. Len(long) PROVE long[i] # mark
        <5>1. i \in 1 .. Len(rest) \/ i = Len(rest) + 1
          BY <3>7
        <5> QED
          BY <2>5, <3>6, <3>7, <5>1 DEF Unmarked
      <4> QED
        BY <4>1 DEF Unmarked
    <3>9. Typed(d)
      BY <3>5, <3>6, <3>7, <3>8
    <3> HIDE DEF Typed
    <3> QED
      BY <2>1, <2>3, <3>9, CutStep, AppendProperties
  <2> QED
    BY <2>4, <2>5
<1> HIDE DEF Good
<1>3. s \in Good
  BY <1>1, <1>2, Sequences
<1> QED
  BY <1>3 DEF Good

(* Without a mark there is no piece.                                     *)
LEMMA CutPlain ==
    ASSUME NEW s \in Seq(Nat), NEW mark, Unmarked(s, mark)
    PROVE  Cut(s, mark) = [done |-> <<>>, rest |-> s]
<1> DEFINE Good == {t \in Seq(Nat) : Unmarked(t, mark) => Cut(t, mark) = [done |-> <<>>, rest |-> t]}
<1>1. <<>> \in Good
  BY EmptySeq, CutFirst
<1>2. ASSUME NEW t \in Seq(Nat), NEW e \in Nat, t \in Good PROVE Append(t, e) \in Good
  <2>1. PICK long : long = Append(t, e)
    OBVIOUS
  <2>2. /\ long \in Seq(Nat) /\ Len(long) = Len(t) + 1 /\ Len(t) \in Nat
        /\ \A i \in 1 .. Len(t) : long[i] = t[i]
        /\ long[Len(t) + 1] = e
    BY <2>1, AppendProperties, LenProperties
  <2>3. ASSUME Unmarked(long, mark) PROVE Cut(long, mark) = [done |-> <<>>, rest |-> long]
    <3>1. Unmarked(t, mark) /\ e # mark
      <4>1. /\ \A i \in 1 .. Len(t) : i \in 1 .. Len(long)
            /\ Len(t) + 1 \in 1 .. Len(long)
        BY <2>2
      <4> QED
        BY <2>2, <2>3, <4>1 DEF Unmarked
    <3>2. PICK c : c = Cut(t, mark)
      OBVIOUS
    <3>3. c = [done |-> <<>>, rest |-> t]
      BY <1>2, <3>1, <3>2
    <3>4. PICK d : d = CutAt(c, e, mark)
      OBVIOUS
    <3>5. d = [c EXCEPT !.rest = Append(@, e)]
      BY <3>1, <3>4 DEF CutAt
    <3>6. d = [done |-> <<>>, rest |-> long]
      BY <2>1, <3>3, <3>5
    <3> QED
      BY <2>1, <3>2, <3>4, <3>6, CutStep
  <2> QED
    BY <2>1, <2>2, <2>3
<1> HIDE DEF Good
<1>3. s \in Good
  BY <1>1, <1>2, Sequences
<1> QED
  BY <1>3 DEF Good

(* Going on with more from what was left.                                  *)
LEMMA CutResume ==
    ASSUME NEW s \in Seq(Nat), NEW t \in Seq(Nat), NEW mark
    PROVE  LET d == Cut(Cut(s, mark).rest ++ t, mark)
           IN  /\ Cut(s ++ t, mark).done = Cut(s, mark).done ++ d.done
               /\ Cut(s ++ t, mark).rest = d.rest
<1>1. PICK c : c = Cut(s, mark)
  OBVIOUS
<1> DEFINE Same(u) == /\ Cut(s ++ u, mark).done = c.done ++ Cut(c.rest ++ u, mark).done
                      /\ Cut(s ++ u, mark).rest = Cut(c.rest ++ u, mark).rest
           Good == {u \in Seq(Nat) : Same(u)}
<1>2. c.done \in Seq(Seq(Nat)) /\ c.rest \in Seq(Nat) /\ Unmarked(c.rest, mark)
  BY <1>1, CutType
<1>3. <<>> \in Good
  <2>1. s ++ <<>> = s /\ c.rest ++ <<>> = c.rest /\ c.done ++ <<>> = c.done
    BY <1>2, Joining DEF Concatenates
  <2>2. Cut(c.rest, mark) = [done |-> <<>>, rest |-> c.rest]
    BY <1>2, CutPlain
  <2>3. Cut(c.rest, mark).done = <<>> /\ Cut(c.rest, mark).rest = c.rest
    BY <2>2
  <2>4. Same(<<>>)
    BY <1>1, <2>1, <2>3
  <2> HIDE DEF Same
  <2> QED
    BY <2>4, EmptySeq
<1>4. ASSUME NEW u \in Seq(Nat), NEW e \in Nat, u \in Good PROVE Append(u, e) \in Good
  <2>1. PICK x, y : x = Cut(s ++ u, mark) /\ y = Cut(c.rest ++ u, mark)
    OBVIOUS
  <2>2. x.done = c.done ++ y.done /\ x.rest = y.rest
    BY <1>4, <2>1
  <2>3. s ++ u \in Seq(Nat) /\ c.rest ++ u \in Seq(Nat)
    BY <1>2, Joining DEF Concatenates
  <2>4. /\ x = [done |-> x.done, rest |-> x.rest] /\ y = [done |-> y.done, rest |-> y.rest]
        /\ y.done \in Seq(Seq(Nat)) /\ y.rest \in Seq(Nat)
    BY <2>1, <2>3, CutType
  <2>5. /\ s ++ Append(u, e) = Append(s ++ u, e)
        /\ c.rest ++ Append(u, e) = Append(c.rest ++ u, e)
    BY <1>2, Joining
  <2>6. PICK v, w : v = CutAt(x, e, mark) /\ w = CutAt(y, e, mark)
    OBVIOUS
  <2>7. Cut(s ++ Append(u, e), mark) = v /\ Cut(c.rest ++ Append(u, e), mark) = w
    BY <2>1, <2>3, <2>5, <2>6, CutStep
  <2>8. v.done = c.done ++ w.done /\ v.rest = w.rest
    <3>1. CASE e = mark
      <4>1. v = [done |-> Append(x.done, x.rest), rest |-> <<>>]
            /\ w = [done |-> Append(y.done, y.rest), rest |-> <<>>]
        BY <2>6, <3>1 DEF CutAt
      <4>2. c.done ++ Append(y.done, y.rest) = Append(c.done ++ y.done, y.rest)
        BY <1>2, <2>4, Joining
      <4> QED
        BY <2>2, <4>1, <4>2
    <3>2. CASE e # mark
      <4>1. PICK p, q, r : p = x.done /\ q = y.done /\ r = x.rest
        OBVIOUS
      <4>2. x = [done |-> p, rest |-> r] /\ y = [done |-> q, rest |-> r]
        BY <2>2, <2>4, <4>1
      <4>3. v = [x EXCEPT !.rest = Append(@, e)] /\ w = [y EXCEPT !.rest = Append(@, e)]
        BY <2>6, <3>2 DEF CutAt
      <4>4. v = [done |-> p, rest |-> Append(r, e)] /\ w = [done |-> q, rest |-> Append(r, e)]
        BY <4>2, <4>3
      <4> QED
        BY <2>2, <4>1, <4>4
    <3> QED
      BY <3>1, <3>2
  <2>9. Same(Append(u, e))
    BY <2>7, <2>8
  <2> HIDE DEF Same
  <2> QED
    BY <2>9, AppendProperties
<1> HIDE DEF Good
<1>5. t \in Good
  BY <1>3, <1>4, Sequences
<1>6. Same(t)
  BY <1>5 DEF Good
<1> QED
  BY <1>1, <1>6

(* A piece more.                                                           *)
LEMMA CutPiece ==
    ASSUME NEW mark \in Nat, NEW s \in Seq(Nat), Cut(s, mark).rest = <<>>,
           NEW piece \in Seq(Nat), Unmarked(piece, mark)
    PROVE  /\ Cut(s ++ Append(piece, mark), mark).done = Append(Cut(s, mark).done, piece)
           /\ Cut(s ++ Append(piece, mark), mark).rest = <<>>
<1>1. PICK t : t = Append(piece, mark)
  OBVIOUS
<1>2. mark \in Nat
  OBVIOUS
<1>3. t \in Seq(Nat) /\ <<>> ++ t = t
  <2>1. t \in Seq(Nat)
    BY <1>1, <1>2, AppendProperties
  <2> QED
    BY <2>1, Joining DEF Concatenates
<1>4. PICK d : d = Cut(t, mark)
  OBVIOUS
<1>5. d = CutAt(Cut(piece, mark), mark, mark)
  BY <1>1, <1>2, <1>4, CutStep
<1>6. Cut(piece, mark) = [done |-> <<>>, rest |-> piece]
  BY CutPlain
<1>7. d = [done |-> Append(<<>>, piece), rest |-> <<>>]
  BY <1>5, <1>6 DEF CutAt
<1>8. Cut(s ++ t, mark).done = Cut(s, mark).done ++ d.done /\ Cut(s ++ t, mark).rest = d.rest
  <2>1. Cut(s, mark).rest ++ t = t
    BY <1>3
  <2> QED
    BY <1>3, <1>4, <2>1, CutResume
<1>9. Cut(s, mark).done ++ Append(<<>>, piece) = Append(Cut(s, mark).done, piece)
  <2>1. PICK done : done = Cut(s, mark).done
    OBVIOUS
  <2>2. done \in Seq(Seq(Nat)) /\ <<>> \in Seq(Seq(Nat))
    BY <2>1, CutType, EmptySeq
  <2>3. done ++ Append(<<>>, piece) = Append(done ++ <<>>, piece)
    BY <2>2, Joining
  <2>4. done ++ <<>> = done
    BY <2>2, Joining DEF Concatenates
  <2> QED
    BY <2>1, <2>3, <2>4
<1> QED
  BY <1>1, <1>7, <1>8, <1>9

(* A frame, without its delimiter.                                         *)
Body(m) == Close(Encoder(Payload(m)))

BytesAreNumbers == \A s \in Seq(Byte) : s \in Seq(Nat)

(* Bytes are numbers.                                                      *)
LEMMA BytesNumbers == BytesAreNumbers
<1>1. Byte \subseteq Nat
  BY Sizes DEF Byte
<1> QED
  BY <1>1, SeqMonotonic DEF BytesAreNumbers

(* What emit_frame sends of an event and what the host makes of it.        *)
LEMMA FrameOf ==
    ASSUME NEW m \in Messages
    PROVE  /\ Payload(m) = <<>> => FrameCalls(m) = <<>>
           /\ Payload(m) # <<>> =>
                 /\ FrameCalls(m) = <<Append(Body(m), Delim)>>
                 /\ Body(m) \in Seq(Nat) /\ Unmarked(Body(m), Delim)
                 /\ DecodeFrame(Body(m)) = IF Whole(m) THEN Success(<<Sent(m)>>) ELSE Failure
<1>1. Payload(m) = <<>> => FrameCalls(m) = <<>>
  BY DEF FrameCalls
<1>2. ASSUME Payload(m) # <<>>
      PROVE  /\ FrameCalls(m) = <<Append(Body(m), Delim)>>
             /\ Body(m) \in Seq(Nat) /\ Unmarked(Body(m), Delim)
             /\ DecodeFrame(Body(m)) = IF Whole(m) THEN Success(<<Sent(m)>>) ELSE Failure
  <2>1. PICK p, old : p = Payload(m) /\ old = Buf(m, 3)
    OBVIOUS
  <2>2. /\ Len(old) + 3 * Word > BufSize => p = <<>>
        /\ Len(old) + 3 * Word <= BufSize => p \in Seq(Byte) /\ Len(p) = Len(old) + 3 * Word
    BY <2>1, PayloadType
  <2>3. Len(old) \in Nat /\ Word \in Nat /\ BufSize \in Nat
    BY <2>1, BufType, LenProperties, WireAssumption DEF WireAssumption
  <2>4. p \in Seq(Byte) /\ Len(p) <= BufSize
    BY <1>2, <2>1, <2>2, <2>3
  <2>5. PICK body : body = Body(m)
    OBVIOUS
  <2>6. body = Close(Encoder(p))
    BY <2>1, <2>5 DEF Body
  <2>7. /\ body \in Seq(Byte) /\ body # <<>>
        /\ \A i \in 1 .. Len(body) : body[i] # 0
        /\ CobsDecode(body) = Success(p)
        /\ Len(CobsEncode(p)) <= FrameSize
    BY <2>4, <2>6, CobsRoundTrip
  <2>8. CobsEncode(p) = Append(body, Delim)
    BY <2>6 DEF CobsEncode
  <2>9. PICK f : f = CobsEncode(p)
    OBVIOUS
  <2>10. body \in Seq(Nat) /\ f \in Seq(Nat) /\ Delim \in Nat
    BY <2>7, <2>8, <2>9, BytesNumbers, AppendProperties DEF BytesAreNumbers, Delim
  <2>11. FrameCalls(m) = <<f>>
    <3>1. Len(f) \in Nat /\ FrameSize \in Nat /\ Len(f) <= FrameSize
      BY <2>7, <2>9, <2>10, LenProperties, WireAssumption DEF WireAssumption
    <3>2. ~(Len(f) > FrameSize)
      BY <3>1
    <3> QED
      BY <1>2, <2>1, <2>9, <3>2 DEF FrameCalls
  <2>12. Unmarked(body, Delim)
    BY <2>7 DEF Unmarked, Delim
  <2>13. DecodeFrame(body) = DecodePayload(p)
    BY <2>7 DEF DecodeFrame, Success
  <2>14. DecodePayload(p) = IF Whole(m) THEN Success(<<Sent(m)>>) ELSE Failure
    BY <1>2, <2>1, PayloadDecodes DEF Sent
  <2> QED
    BY <2>5, <2>8, <2>9, <2>10, <2>11, <2>12, <2>13, <2>14
<1> QED
  BY <1>1, <1>2

(* The symbols of lines that stay whole.                                   *)
Symbols == Nat \ {Newline, Return}

(* Concatenation of symbols.                                               *)
LEMMA SymbolsJoin ==
    /\ Concatenates(Seq(Symbols)) /\ \A s \in Text : s \in Seq(Nat)
    /\ \A s \in Seq(Symbols) : s \in Seq(Nat) /\ Unmarked(s, Newline)
<1>1. Concatenates(Seq(Symbols))
  BY JoinsOf
<1>2. 1 .. Full \subseteq Nat /\ Symbols \subseteq Nat
  BY Sizes DEF Symbols
<1>3. \A s \in Text : s \in Seq(Nat)
  BY <1>2, SeqMonotonic DEF Text
<1>4. ASSUME NEW s \in Seq(Symbols) PROVE s \in Seq(Nat) /\ Unmarked(s, Newline)
  <2>1. s \in Seq(Nat)
    BY <1>2, SeqMonotonic
  <2>2. \A i \in 1 .. Len(s) : s[i] \in Symbols
    BY ElementOfSeq
  <2>3. Unmarked(s, Newline)
    BY <2>2 DEF Symbols, Unmarked
  <2> QED
    BY <2>1, <2>3
<1> QED
  BY <1>1, <1>3, <1>4

(* The symbols of a line beyond the bytes of names and texts.              *)
Alphabet(Y) ==
    /\ {Space, Location, Dot, PassK, SkipK, FailK} \subseteq Y
    /\ \A k \in 1 .. 7 : Keyword(k) \in Y
    /\ \A k \in 1 .. 3, n \in Nat : Counter(k, n) \in Y

(* They are no newline and no return.                                      *)
LEMMA SymbolsAlphabet == Alphabet(Symbols) /\ Alphabet(Nat)
<1>1. {Space, Location, Dot, PassK, SkipK, FailK} \subseteq Symbols
  BY Sizes DEF Symbols, Newline, Return, Space, Location, Dot, PassK, SkipK, FailK, Keyword,
               AssertFailT
<1>2. \A k \in 1 .. 7 : Keyword(k) \in Symbols
  BY Sizes DEF Symbols, Newline, Return, Keyword
<1>3. \A k \in 1 .. 3, n \in Nat : Counter(k, n) \in Symbols
  BY Sizes DEF Symbols, Newline, Return, Counter
<1>4. Symbols \subseteq Nat
  BY DEF Symbols
<1> QED
  BY <1>1, <1>2, <1>3, <1>4 DEF Alphabet

(* The counters of a line and their symbols.                               *)
LEMMA CountersType ==
    ASSUME NEW m \in Messages, NEW Y, Alphabet(Y)
    PROVE  /\ Counters(m.nums) \in Seq(Y) /\ Len(Counters(m.nums)) = 6
           /\ Tail(Counters(m.nums)) \in Seq(Y) /\ Len(Tail(Counters(m.nums))) = 5
<1>1. PICK a, b, c : a = m.nums[1] /\ b = m.nums[2] /\ c = m.nums[3]
  OBVIOUS
<1>2. a \in Nat /\ b \in Nat /\ c \in Nat
  <2>1. \A k \in 1 .. 3 : m.nums[k] \in Nat
    BY MessageType
  <2> QED
    BY <1>1, <2>1
<1>3. /\ Space \in Y /\ Counter(1, a) \in Y /\ Counter(2, b) \in Y
      /\ Counter(3, c) \in Y
  <2>1. 1 \in 1 .. 3 /\ 2 \in 1 .. 3 /\ 3 \in 1 .. 3
    OBVIOUS
  <2> QED
    BY <1>2, <2>1 DEF Alphabet
<1>4. PICK s : s = <<Space, Counter(1, a), Space, Counter(2, b), Space, Counter(3, c)>>
  OBVIOUS
<1>5. Counters(m.nums) = s
  BY <1>1, <1>4 DEF Counters
<1>6. s \in Seq(Y) /\ Len(s) = 6
  BY <1>3, <1>4
<1>7. Tail(s) \in Seq(Y) /\ Len(Tail(s)) = 5
  <2>1. s # <<>>
    <3>1. Len(<<>>) = 0 /\ Len(s) # 0
      BY <1>6, EmptySeq
    <3> QED
      BY <3>1
  <2>2. Tail(s) \in Seq(Y) /\ Len(Tail(s)) = Len(s) - 1
    BY <1>6, <2>1, HeadTailProperties
  <2> QED
    BY <1>6, <2>2
<1> QED
  BY <1>5, <1>6, <1>7

(* The alternatives of a CASE over the types of events.                    *)
OneOf(t, a, b, c, d, e, f) ==
    CASE t = SuiteStartT -> a [] t = CaseStartT -> b [] t = AssertFailT -> c
      [] t = CaseEndT -> d [] t = SuiteEndT -> e [] t = DoneT -> f

(* Types of events are distinct.                                           *)
LEMMA Distinct ==
    /\ SuiteStartT # CaseStartT /\ SuiteStartT # AssertFailT /\ SuiteStartT # CaseEndT
    /\ SuiteStartT # SuiteEndT /\ SuiteStartT # DoneT /\ CaseStartT # AssertFailT
    /\ CaseStartT # CaseEndT /\ CaseStartT # SuiteEndT /\ CaseStartT # DoneT
    /\ AssertFailT # CaseEndT /\ AssertFailT # SuiteEndT /\ AssertFailT # DoneT
    /\ CaseEndT # SuiteEndT /\ CaseEndT # DoneT /\ SuiteEndT # DoneT
BY DEF SuiteStartT, CaseStartT, AssertFailT, CaseEndT, SuiteEndT, DoneT

(* OneOf takes the alternative of its type.                                *)
LEMMA Alternatives ==
    ASSUME NEW t, NEW a, NEW b, NEW c, NEW d, NEW e, NEW f
    PROVE  /\ t = SuiteStartT => OneOf(t, a, b, c, d, e, f) = a
           /\ t = CaseStartT => OneOf(t, a, b, c, d, e, f) = b
           /\ t = AssertFailT => OneOf(t, a, b, c, d, e, f) = c
           /\ t = CaseEndT => OneOf(t, a, b, c, d, e, f) = d
           /\ t = SuiteEndT => OneOf(t, a, b, c, d, e, f) = e
           /\ t = DoneT => OneOf(t, a, b, c, d, e, f) = f
<1>1. t = SuiteStartT => OneOf(t, a, b, c, d, e, f) = a
  BY Distinct DEF OneOf
<1>2. t = CaseStartT => OneOf(t, a, b, c, d, e, f) = b
  BY Distinct DEF OneOf
<1>3. t = AssertFailT => OneOf(t, a, b, c, d, e, f) = c
  BY Distinct DEF OneOf
<1>4. t = CaseEndT => OneOf(t, a, b, c, d, e, f) = d
  BY Distinct DEF OneOf
<1>5. t = SuiteEndT => OneOf(t, a, b, c, d, e, f) = e
  BY Distinct DEF OneOf
<1>6. t = DoneT => OneOf(t, a, b, c, d, e, f) = f
  BY Distinct DEF OneOf
<1> QED
  BY <1>1, <1>2, <1>3, <1>4, <1>5, <1>6

EndKey(m) == IF m.nums[1] = PassedS THEN PassK ELSE IF m.nums[1] = SkippedS THEN SkipK ELSE FailK

(* The line of each type of event.                                         *)
LEMMA LineIs ==
    ASSUME NEW m
    PROVE  /\ m.type = SuiteStartT => Line(m) = <<Keyword(SuiteStartT)>> ++ m.suite
           /\ m.type = CaseStartT => Line(m) = <<Keyword(CaseStartT)>> ++ CaseId(m)
           /\ m.type = AssertFailT => 
                 Line(m) = ((((<<FailK>> ++ CaseId(m)) ++ <<Space>>) ++ m.file)
                             ++ <<Location, Space>>) ++ m.text
           /\ m.type = CaseEndT => Line(m) = <<EndKey(m)>> ++ CaseId(m)
           /\ m.type = SuiteEndT =>
                 Line(m) = (<<Keyword(SuiteEndT)>> ++ m.suite) ++ Counters(m.nums)
           /\ m.type = DoneT => Line(m) = <<Keyword(DoneT)>> ++ Tail(Counters(m.nums))
<1>1. PICK a, b, c, d, e, f :
        /\ a = <<Keyword(SuiteStartT)>> ++ m.suite
        /\ b = <<Keyword(CaseStartT)>> ++ CaseId(m)
        /\ c = ((((<<FailK>> ++ CaseId(m)) ++ <<Space>>) ++ m.file)
                 ++ <<Location, Space>>) ++ m.text
        /\ d = <<EndKey(m)>> ++ CaseId(m)
        /\ e = (<<Keyword(SuiteEndT)>> ++ m.suite) ++ Counters(m.nums)
        /\ f = <<Keyword(DoneT)>> ++ Tail(Counters(m.nums))
  OBVIOUS
<1>2. Line(m) = OneOf(m.type, a, b, c, d, e, f)
  BY <1>1, Zenon DEF Line, OneOf, ++, EndKey
<1> QED
  BY <1>1, <1>2, Alternatives

(* A line is made of what its names, texts and symbols are made of.        *)
LEMMA LineMadeOf ==
    ASSUME NEW m \in Messages, NEW Y, Alphabet(Y),
           m.suite \in Seq(Y), m.group \in Seq(Y), m.name \in Seq(Y), m.file \in Seq(Y),
           m.text \in Seq(Y)
    PROVE  Line(m) \in Seq(Y) /\ Len(Line(m)) > 0
<1> DEFINE Lines(s) == s \in Seq(Y)
<1>1. Lines(m.suite) /\ Lines(m.group) /\ Lines(m.name) /\ Lines(m.file)
      /\ Lines(m.text)
  OBVIOUS
<1>2. Lines(Counters(m.nums)) /\ Lines(Tail(Counters(m.nums)))
  BY CountersType
<1>3. /\ \A k \in {Space, Location, Dot, PassK, SkipK, FailK} : k \in Y
      /\ \A k \in 1 .. 7 : Keyword(k) \in Y
  BY DEF Alphabet
<1>4. /\ \A k \in {Space, Location, Dot, PassK, SkipK, FailK} : Lines(<<k>>) /\ Len(<<k>>) = 1
      /\ \A k \in 1 .. 7 : Lines(<<Keyword(k)>>) /\ Len(<<Keyword(k)>>) = 1
      /\ Lines(<<Location, Space>>)
  BY <1>3
<1>5. \A a, b \in Seq(Y) : a ++ b \in Seq(Y) /\ Len(a ++ b) = Len(a) + Len(b)
  BY ConcatProperties DEF ++
<1>6. \A a, b \in Seq(Y) : Len(a) = 1 => a ++ b \in Seq(Y) /\ Len(a ++ b) > 0
  <2>1. ASSUME NEW a \in Seq(Y), NEW b \in Seq(Y), Len(a) = 1
        PROVE  a ++ b \in Seq(Y) /\ Len(a ++ b) > 0
    <3>1. PICK c : c = a ++ b
      OBVIOUS
    <3>2. Len(b) \in Nat /\ c \in Seq(Y) /\ Len(c) = 1 + Len(b)
      BY <1>5, <2>1, <3>1, LenProperties
    <3> QED
      BY <3>1, <3>2
  <2> QED
    BY <2>1
<1>7. Lines(CaseId(m))
  <2>1. Lines(<<Dot>>)
    BY <1>4
  <2>2. PICK dot : dot = <<Dot>>
    OBVIOUS
  <2>3. PICK w, x, y, z : w = m.suite ++ dot /\ x = w ++ m.group /\ y = x ++ dot /\ z = y ++ m.name
    OBVIOUS
  <2>4. CaseId(m) = z
    BY <2>2, <2>3 DEF CaseId, ++
  <2>5. Lines(w) /\ Lines(x) /\ Lines(y) /\ Lines(z)
    BY <1>1, <1>5, <2>1, <2>2, <2>3
  <2> QED
    BY <2>4, <2>5
<1>8. m.type \in EventTypes
  BY MessageType
<1>9. CASE m.type = SuiteStartT
  <2>1. Line(m) = <<Keyword(SuiteStartT)>> ++ m.suite
    BY <1>9, LineIs
  <2>2. Lines(<<Keyword(SuiteStartT)>>) /\ Len(<<Keyword(SuiteStartT)>>) = 1
    BY <1>4 DEF SuiteStartT
  <2>3. Lines(Line(m)) /\ Len(Line(m)) > 0
    BY <1>1, <1>6, <2>1, <2>2
  <2> QED
    BY <2>3 DEF Lines
<1>10. CASE m.type = CaseStartT
  <2>1. Line(m) = <<Keyword(CaseStartT)>> ++ CaseId(m)
    BY <1>10, LineIs
  <2>2. Lines(<<Keyword(CaseStartT)>>) /\ Len(<<Keyword(CaseStartT)>>) = 1
    BY <1>4 DEF CaseStartT
  <2>3. Lines(Line(m)) /\ Len(Line(m)) > 0
    BY <1>6, <1>7, <2>1, <2>2
  <2> QED
    BY <2>3 DEF Lines
<1>11. CASE m.type = AssertFailT
  <2>1. Line(m) = ((((<<FailK>> ++ CaseId(m)) ++ <<Space>>) ++ m.file)
                    ++ <<Location, Space>>) ++ m.text
    BY <1>11, LineIs
  <2>2. \A a, b \in Seq(Y) : Len(a) > 0 => a ++ b \in Seq(Y) /\ Len(a ++ b) > 0
    <3>1. ASSUME NEW a \in Seq(Y), NEW b \in Seq(Y), Len(a) > 0
          PROVE  a ++ b \in Seq(Y) /\ Len(a ++ b) > 0
      <4>1. PICK c, i, j : c = a ++ b /\ i = Len(a) /\ j = Len(b)
        OBVIOUS
      <4>2. c \in Seq(Y) /\ Len(c) = i + j /\ i \in Nat /\ j \in Nat /\ i > 0
        BY <1>5, <3>1, <4>1, LenProperties
      <4> QED
        BY <4>1, <4>2
    <3> QED
      BY <3>1
  <2>3. PICK s, t, w, x, y, z, l :
          /\ s = <<Space>> /\ t = <<Location, Space>>
          /\ w = <<FailK>> ++ CaseId(m) /\ x = w ++ s /\ y = x ++ m.file /\ z = y ++ t
          /\ l = z ++ m.text
    OBVIOUS
  <2>4. w \in Seq(Y) /\ Len(w) > 0
    BY <1>4, <1>6, <1>7, <2>3
  <2>5. s \in Seq(Y) /\ t \in Seq(Y)
    BY <1>4, <2>3
  <2>6. x \in Seq(Y) /\ Len(x) > 0
    BY <2>2, <2>3, <2>4, <2>5
  <2>7. y \in Seq(Y) /\ Len(y) > 0
    BY <2>2, <2>3, <2>6
  <2>8. z \in Seq(Y) /\ Len(z) > 0
    BY <2>2, <2>3, <2>5, <2>7
  <2>9. l \in Seq(Y) /\ Len(l) > 0
    BY <2>2, <2>3, <2>8
  <2>10. Line(m) = l
    BY <2>1, <2>3
  <2> QED
    BY <2>9, <2>10
<1>12. CASE m.type = CaseEndT
  <2>1. PICK k : k = EndKey(m)
    OBVIOUS
  <2>2. Line(m) = <<k>> ++ CaseId(m)
    BY <1>12, <2>1, LineIs
  <2>3. k \in {Space, Location, Dot, PassK, SkipK, FailK}
    BY <2>1 DEF EndKey
  <2>4. Lines(Line(m)) /\ Len(Line(m)) > 0
    <3>1. Lines(<<k>>) /\ Len(<<k>>) = 1
      BY <1>4, <2>3
    <3> QED
      BY <1>6, <1>7, <2>2, <3>1
  <2> QED
    BY <2>4 DEF Lines
<1>13. CASE m.type = SuiteEndT
  <2>1. Line(m) = (<<Keyword(SuiteEndT)>> ++ m.suite) ++ Counters(m.nums)
    BY <1>13, LineIs
  <2>2. PICK x, y : x = <<Keyword(SuiteEndT)>> ++ m.suite /\ y = Counters(m.nums)
    OBVIOUS
  <2>3. Lines(<<Keyword(SuiteEndT)>>) /\ Len(<<Keyword(SuiteEndT)>>) = 1
    BY <1>4 DEF SuiteEndT
  <2>4. Lines(x) /\ Len(x) > 0 /\ Lines(y)
    BY <1>1, <1>2, <1>6, <2>2, <2>3
  <2>5. Lines(x ++ y) /\ Len(x ++ y) = Len(x) + Len(y)
    BY <1>5, <2>4
  <2>6. Len(x) \in Nat /\ Len(y) \in Nat
    BY <2>4, LenProperties DEF Lines
  <2> QED
    BY <2>1, <2>2, <2>4, <2>5, <2>6 DEF Lines
<1>14. CASE m.type = DoneT
  <2>1. Line(m) = <<Keyword(DoneT)>> ++ Tail(Counters(m.nums))
    BY <1>14, LineIs
  <2>2. Lines(<<Keyword(DoneT)>>) /\ Len(<<Keyword(DoneT)>>) = 1
    BY <1>4 DEF DoneT
  <2>3. Lines(Line(m)) /\ Len(Line(m)) > 0
    BY <1>2, <1>6, <2>1, <2>2
  <2> QED
    BY <2>3 DEF Lines
<1> QED
  BY <1>8, <1>9, <1>10, <1>11, <1>12, <1>13, <1>14 DEF EventTypes

(* No line is empty.                                                       *)
LEMMA LineType == ASSUME NEW m \in Messages PROVE Line(m) \in Seq(Nat) /\ Len(Line(m)) > 0
<1>1. /\ m.suite \in Seq(Nat) /\ m.group \in Seq(Nat) /\ m.name \in Seq(Nat)
      /\ m.file \in Seq(Nat) /\ m.text \in Seq(Nat)
  BY MessageType, SymbolsJoin
<1> QED
  BY <1>1, LineMadeOf, SymbolsAlphabet

(* A sequence of what its elements are.                                    *)
LEMMA Retype ==
    ASSUME NEW X, NEW Y, NEW s \in Seq(X), \A k \in DOMAIN s : s[k] \in Y
    PROVE  s \in Seq(Y)
<1>1. s \in [1 .. Len(s) -> X] /\ Len(s) \in Nat
  BY LenProperties, ElementOfSeq
<1>2. s \in [1 .. Len(s) -> Y]
  BY <1>1
<1> QED
  BY <1>1, <1>2, SeqDef

(* A plain line holds no newline and no return.                            *)
LEMMA PlainLine == ASSUME NEW m \in Messages, Plain(m) PROVE Line(m) \in Seq(Symbols)
<1>1. ASSUME NEW s \in {m.suite, m.group, m.name, m.file, m.text} PROVE s \in Seq(Symbols)
  <2>1. s \in Seq(1 .. Full)
    BY MessageType DEF Text
  <2>2. \A k \in DOMAIN s : s[k] \in 1 .. Full
    BY <2>1, LenProperties, ElementOfSeq
  <2>3. \A k \in DOMAIN s : s[k] \notin {Newline, Return}
    BY DEF Plain, Unprintable
  <2>4. \A k \in DOMAIN s : s[k] \in Symbols
    BY <2>2, <2>3, Sizes DEF Symbols
  <2> QED
    BY <2>1, <2>4, Retype
<1> QED
  BY <1>1, LineMadeOf, SymbolsAlphabet

(* emit_line                                                               *)
Printed(m) == Prefix(Line(m), LineSizes[m.type] - 1)

(* A printed line is a line or its beginning, and a newline.               *)
LEMMA LineOf ==
    ASSUME NEW m \in Messages
    PROVE  /\ LineCalls(m) = <<Printed(m), <<Newline>> >>
           /\ Printed(m) \in Seq(Nat) /\ Printed(m) # <<>>
           /\ Len(Line(m)) < LineSizes[m.type] => Printed(m) = Line(m)
<1>1. PICK n : n = LineSizes[m.type]
  OBVIOUS
<1>2. PICK l : l = Line(m)
  OBVIOUS
<1>3. n \in Nat \ {0, 1}
  BY <1>1, MessageType, WireAssumption DEF WireAssumption
<1>4. l \in Seq(Nat) /\ Len(l) > 0 /\ Len(l) \in Nat
  BY <1>2, LineType, LenProperties
<1>5. n - 1 \in Nat /\ n - 1 > 0
  BY <1>3
<1>6. PICK k, s : k = n - 1 /\ s = Prefix(l, k)
  OBVIOUS
<1>7. s \in Seq(Nat) /\ Len(s) = Shorter(k, Len(l)) /\ (k >= Len(l) => s = l)
  BY <1>4, <1>5, <1>6, PrefixType
<1>8. Len(s) > 0
  BY <1>4, <1>5, <1>6, <1>7 DEF Shorter
<1>9. s # <<>>
  BY <1>8, EmptySeq
<1>10. Printed(m) = s
  BY <1>1, <1>2, <1>6 DEF Printed
<1>11. LineCalls(m) = <<s, <<Newline>> >>
  BY <1>1, <1>2, <1>6 DEF LineCalls
<1>12. Len(l) < n => s = l
  BY <1>3, <1>4, <1>6, <1>7
<1> QED
  BY <1>1, <1>2, <1>7, <1>9, <1>10, <1>11, <1>12

-----------------------------------------------------------------------------
(* The harness: types, one call at a time, and what lines look like.       *)

TypeOK ==
    /\ setup \in Setups
    /\ thread \in [Threads -> [calls : Seq(Seq(Nat)), of : Messages \cup {0}, count : Nat]]
    /\ lock \in 0 .. 2
    /\ begun \in [Threads -> Seq(Nat)]
    /\ pipe \in Seq(Nat) /\ got \in 0 .. Len(pipe)
    /\ codec \in [buf : Seq(Nat), ok : BOOLEAN]
    /\ emitted \in Seq(Messages) /\ dropped \subseteq Messages

(* A thread is before, between or behind the calls of one event; nobody    *)
(* else calls, and who is in the middle of a call has the lock.            *)
CallsOK ==
    /\ \A t \in Threads :
         \/ thread[t].calls = <<>>
         \/ thread[t].of \in Messages /\ thread[t].calls = Calls(thread[t].of)
         \/ /\ thread[t].of \in Messages /\ setup.format = "text"
            /\ thread[t].calls = << <<Newline>> >>
    /\ \A t \in Threads \ setup.threads : thread[t].calls = <<>> /\ begun[t] = <<>>
    /\ setup.locks => \A t \in Threads : begun[t] # <<>> => lock = t

(* What is left out has no payload.                                        *)
DroppedOK == setup.format = "cobs" => \A m \in dropped : Payload(m) = <<>>

(* The fields of a setup.                                                  *)
LEMMA SetupIs ==
    ASSUME setup \in Setups
    PROVE  /\ setup.format \in {"cobs", "text"} /\ setup.threads \in {{1}, {1, 2}}
           /\ setup.locks \in BOOLEAN
BY WireAssumption DEF WireAssumption, Setup

(* The calls of an event.                                                  *)
LEMMA CallsType ==
    ASSUME NEW m \in Messages
    PROVE  /\ setup.format = "cobs" =>
                 Calls(m) = IF Payload(m) = <<>> THEN <<>> ELSE <<Append(Body(m), Delim)>>
           /\ setup.format # "cobs" => Calls(m) = <<Printed(m), <<Newline>> >>
           /\ Calls(m) \in Seq(Seq(Nat))
<1>1. Calls(m) = IF setup.format = "cobs" THEN FrameCalls(m) ELSE LineCalls(m)
  BY DEF Calls, FramesOf, LinesOf
<1>2. FrameCalls(m) = IF Payload(m) = <<>> THEN <<>> ELSE <<Append(Body(m), Delim)>>
  BY FrameOf
<1>3. LineCalls(m) = <<Printed(m), <<Newline>> >>
  BY LineOf
<1>4. <<Printed(m), <<Newline>> >> \in Seq(Seq(Nat))
  <2>1. Printed(m) \in Seq(Nat)
    BY LineOf
  <2>2. <<Newline>> \in Seq(Nat)
    BY DEF Newline
  <2> QED
    BY <2>1, <2>2
<1>5. (IF Payload(m) = <<>> THEN <<>> ELSE <<Append(Body(m), Delim)>>) \in Seq(Seq(Nat))
  <2>1. CASE Payload(m) = <<>>
    BY <2>1, EmptySeq
  <2>2. CASE Payload(m) # <<>>
    <3>1. PICK f : f = Append(Body(m), Delim)
      OBVIOUS
    <3>2. f \in Seq(Nat)
      BY <2>2, <3>1, FrameOf, AppendProperties DEF Delim
    <3> QED
      BY <2>2, <3>1, <3>2
  <2> QED
    BY <2>1, <2>2
<1> QED
  BY <1>1, <1>2, <1>3, <1>4, <1>5

(* Types are right at first.                                               *)
LEMMA InitTypeOK == Init => TypeOK
<1> SUFFICES ASSUME Init PROVE TypeOK
  OBVIOUS
<1>1. <<>> \in Seq(Nat) /\ <<>> \in Seq(Seq(Nat)) /\ <<>> \in Seq(Messages) /\ Len(<<>>) = 0
  BY EmptySeq
<1>2. [calls |-> <<>>, of |-> 0, count |-> 0]
         \in [calls : Seq(Seq(Nat)), of : Messages \cup {0}, count : Nat]
  BY <1>1
<1> QED
  BY <1>1, <1>2 DEF Init, TypeOK

(* A call is typed by what it leaves and what it takes away.               *)
LEMMA SplitAt ==
    ASSUME NEW X, NEW s \in Seq(X), NEW n \in 0 .. Len(s)
    PROVE  /\ SubSeq(s, 1, n) \in Seq(X) /\ SubSeq(s, n + 1, Len(s)) \in Seq(X)
           /\ Len(SubSeq(s, 1, n)) = n /\ Len(SubSeq(s, n + 1, Len(s))) = Len(s) - n
           /\ SubSeq(s, 1, n) ++ SubSeq(s, n + 1, Len(s)) = s
<1>1. PICK len : len = Len(s)
  OBVIOUS
<1>2. len \in Nat /\ n \in 0 .. len /\ \A i \in 1 .. len : s[i] \in X
  BY <1>1, LenProperties, ElementOfSeq
<1>3. PICK a, b : a = SubSeq(s, 1, n) /\ b = SubSeq(s, n + 1, len)
  OBVIOUS
<1>4. /\ a \in Seq(X) /\ Len(a) = (IF 1 <= n THEN n - 1 + 1 ELSE 0)
      /\ \A i \in 1 .. n - 1 + 1 : a[i] = s[1 + i - 1]
  BY <1>2, <1>3, SubSeqProperties
<1>5. /\ b \in Seq(X) /\ Len(b) = (IF n + 1 <= len THEN len - (n + 1) + 1 ELSE 0)
      /\ \A i \in 1 .. len - (n + 1) + 1 : b[i] = s[n + 1 + i - 1]
  BY <1>2, <1>3, SubSeqProperties
<1>6. Len(a) = n /\ Len(b) = len - n
  BY <1>2, <1>4, <1>5
<1>7. PICK c : c = a \o b
  OBVIOUS
<1>8. /\ c \in Seq(X) /\ Len(c) = len
      /\ \A i \in 1 .. len : c[i] = IF i <= n THEN a[i] ELSE b[i - n]
  BY <1>2, <1>4, <1>5, <1>6, <1>7, ConcatProperties
<1>9. ASSUME NEW i \in 1 .. len PROVE c[i] = s[i]
  <2>1. CASE i <= n
    <3>1. i \in 1 .. n - 1 + 1 /\ 1 + i - 1 = i
      BY <1>2, <2>1
    <3> QED
      BY <1>4, <1>8, <2>1, <3>1
  <2>2. CASE ~(i <= n)
    <3>1. PICK j : j = i - n
      OBVIOUS
    <3>2. j \in 1 .. len - (n + 1) + 1 /\ n + 1 + j - 1 = i
      BY <1>2, <2>2, <3>1
    <3> QED
      BY <1>5, <1>8, <2>2, <3>1, <3>2
  <2> QED
    BY <2>1, <2>2
<1>10. c = s
  BY <1>1, <1>8, <1>9, SeqEqual
<1> QED
  BY <1>1, <1>3, <1>4, <1>5, <1>6, <1>7, <1>10 DEF ++

(* from_utf8_lossy of any symbols.                                         *)
LEMMA LossyOfNumbers == ASSUME NEW s \in Seq(Nat) PROVE Lossy(s) \in Seq(Nat)
<1>1. Nat \cup {Replacement} = Nat
  BY Sizes DEF Replacement
<1> QED
  BY <1>1, LossyType

(* A thread changed in all its fields.                                     *)
LEMMA ThreadStep ==
    ASSUME TypeOK, NEW t \in Threads, NEW calls \in Seq(Seq(Nat)), NEW of \in Messages \cup {0},
           NEW count \in Nat
    PROVE  [thread EXCEPT ![t] = [calls |-> calls, of |-> of, count |-> count]]
              \in [Threads -> [calls : Seq(Seq(Nat)), of : Messages \cup {0}, count : Nat]]
BY DEF TypeOK

(* The fields of a thread.                                                 *)
LEMMA ThreadTyped ==
    ASSUME TypeOK, NEW t \in Threads
    PROVE  /\ thread[t] = [calls |-> thread[t].calls, of |-> thread[t].of, count |-> thread[t].count]
           /\ thread[t].calls \in Seq(Seq(Nat)) /\ thread[t].of \in Messages \cup {0}
           /\ thread[t].count \in Nat /\ begun[t] \in Seq(Nat)
BY DEF TypeOK

(* The three steps of a thread as new values.                              *)
LEMMA EmitSets ==
    ASSUME TypeOK, NEW t \in Threads, Emit(t)
    PROVE  /\ t \in setup.threads /\ thread[t].calls = <<>> /\ begun[t] = <<>>
           /\ \E m \in Messages :
                 /\ thread' = [thread EXCEPT ![t] = [calls |-> Calls(m), of |-> m,
                                                     count |-> thread[t].count + 1]]
                 /\ thread'[t].calls = Calls(m) /\ thread'[t].of = m
                 /\ dropped' = IF Calls(m) = <<>> THEN dropped \cup {m} ELSE dropped
           /\ \A u \in Threads : u # t => thread'[u] = thread[u]
           /\ UNCHANGED <<setup, lock, begun, pipe, got, codec, decoded, emitted>>
<1>1. PICK m \in Messages :
        /\ thread' = [thread EXCEPT ![t] = [calls |-> Calls(m), of |-> m, count |-> @.count + 1]]
        /\ dropped' = IF Calls(m) = <<>> THEN dropped \cup {m} ELSE dropped
  BY DEF Emit
<1>2. thread' = [thread EXCEPT ![t] = [calls |-> Calls(m), of |-> m,
                                       count |-> thread[t].count + 1]]
  BY <1>1
<1>3. t \in DOMAIN thread
  BY DEF TypeOK
<1>4. thread'[t] = [calls |-> Calls(m), of |-> m, count |-> thread[t].count + 1]
  BY <1>2, <1>3
<1>5. \A u \in Threads : u # t => thread'[u] = thread[u]
  BY <1>2 DEF TypeOK
<1>6. thread'[t].calls = Calls(m) /\ thread'[t].of = m
  BY <1>4
<1>7. /\ t \in setup.threads /\ thread[t].calls = <<>> /\ begun[t] = <<>>
      /\ UNCHANGED <<setup, lock, begun, pipe, got, codec, decoded, emitted>>
  BY DEF Emit
<1> QED
  BY <1>1, <1>2, <1>5, <1>6, <1>7

(* emit_raw: the next call is begun, with the lock where there is one.     *)
LEMMA EmitRawSets ==
    ASSUME TypeOK, NEW t \in Threads, EmitRaw(t)
    PROVE  /\ begun[t] = <<>> /\ thread[t].calls # <<>> /\ (setup.locks => lock = 0)
           /\ lock' = IF setup.locks THEN t ELSE lock
           /\ begun' = [begun EXCEPT ![t] = Head(thread[t].calls)]
           /\ begun'[t] = Head(thread[t].calls) /\ Head(thread[t].calls) \in Seq(Nat)
           /\ \A u \in Threads : u # t => begun'[u] = begun[u] /\ thread'[u] = thread[u]
           /\ thread' = [thread EXCEPT ![t] = [calls |-> Tail(thread[t].calls),
                                               of |-> thread[t].of, count |-> thread[t].count]]
           /\ thread'[t].calls = Tail(thread[t].calls) /\ thread'[t].of = thread[t].of
           /\ Tail(thread[t].calls) \in Seq(Seq(Nat))
           /\ emitted' = IF FirstCall(t) THEN Append(emitted, thread[t].of) ELSE emitted
           /\ UNCHANGED <<setup, pipe, got, codec, decoded, dropped>>
<1>1. PICK c, o, n : c = thread[t].calls /\ o = thread[t].of /\ n = thread[t].count
  OBVIOUS
<1>2. thread[t] = [calls |-> c, of |-> o, count |-> n] /\ c \in Seq(Seq(Nat))
  BY <1>1, ThreadTyped
<1>3. c # <<>> /\ begun' = [begun EXCEPT ![t] = Head(c)]
      /\ thread' = [thread EXCEPT ![t].calls = Tail(@)]
  BY <1>1 DEF EmitRaw
<1>4. Head(c) \in Seq(Nat) /\ Tail(c) \in Seq(Seq(Nat))
  BY <1>2, <1>3, HeadTailProperties
<1>5. PICK r : r = [calls |-> Tail(c), of |-> o, count |-> n]
  OBVIOUS
<1>6. thread' = [thread EXCEPT ![t] = r]
  <2>1. PICK k : k = [calls |-> c, of |-> o, count |-> n]
    OBVIOUS
  <2>2. [k EXCEPT !.calls = Tail(@)] = r
    <3>1. PICK d : d = Tail(c)
      OBVIOUS
    <3>2. r = [calls |-> d, of |-> o, count |-> n]
      BY <1>5, <3>1
    <3>3. k.calls = c
      BY <2>1
    <3>4. [k EXCEPT !.calls = Tail(@)] = [k EXCEPT !.calls = d]
      BY <3>1, <3>3
    <3> QED
      BY <2>1, <3>2, <3>4
  <2>3. k = thread[t]
    BY <1>2, <2>1
  <2> QED
    BY <1>3, <2>2, <2>3
<1>7. thread'[t] = r /\ begun'[t] = Head(c)
  BY <1>3, <1>6 DEF TypeOK
<1>8. \A u \in Threads : u # t => begun'[u] = begun[u] /\ thread'[u] = thread[u]
  BY <1>3, <1>6 DEF TypeOK
<1>9. /\ begun[t] = <<>> /\ (setup.locks => lock = 0)
      /\ lock' = IF setup.locks THEN t ELSE lock
      /\ emitted' = IF FirstCall(t) THEN Append(emitted, thread[t].of) ELSE emitted
      /\ UNCHANGED <<setup, pipe, got, codec, decoded, dropped>>
  BY DEF EmitRaw
<1>10. r.calls = Tail(c) /\ r.of = o
  BY <1>5
<1> QED
  BY <1>1, <1>3, <1>4, <1>5, <1>6, <1>7, <1>8, <1>9, <1>10

(* The writer: a part of the call moves to the pipe.                       *)
LEMMA WriterTakesSets ==
    ASSUME TypeOK, NEW t \in Threads, WriterTakes(t)
    PROVE  /\ begun[t] # <<>>
           /\ \E a, b \in Seq(Nat) :
                 /\ begun[t] = a ++ b /\ pipe' = pipe ++ a /\ begun' = [begun EXCEPT ![t] = b]
                 /\ begun'[t] = b /\ \A u \in Threads : u # t => begun'[u] = begun[u]
                 /\ lock' = IF b = <<>> /\ lock = t THEN 0 ELSE lock
           /\ pipe' \in Seq(Nat) /\ Len(pipe') >= Len(pipe)
           /\ SubSeq(pipe', 1, got) = SubSeq(pipe, 1, got)
           /\ UNCHANGED <<setup, thread, got, codec, decoded, emitted, dropped>>
<1>1. PICK s : s = begun[t]
  OBVIOUS
<1>2. s \in Seq(Nat) /\ s # <<>> /\ Len(s) \in Nat
  BY <1>1, ThreadTyped, LenProperties DEF WriterTakes
<1>3. PICK n \in {Len(s) \div 2, Len(s)} \ {0} :
        /\ pipe' = pipe \o SubSeq(s, 1, n)
        /\ begun' = [begun EXCEPT ![t] = SubSeq(@, n + 1, Len(@))]
        /\ lock' = IF n = Len(s) /\ lock = t THEN 0 ELSE lock
  BY <1>1 DEF WriterTakes
<1>4. n \in 0 .. Len(s)
  BY <1>2, <1>3
<1>5. PICK a, b : a = SubSeq(s, 1, n) /\ b = SubSeq(s, n + 1, Len(s))
  OBVIOUS
<1>6. a \in Seq(Nat) /\ b \in Seq(Nat) /\ a ++ b = s /\ Len(a) = n /\ Len(b) = Len(s) - n
  BY <1>2, <1>4, <1>5, SplitAt
<1>7. begun' = [begun EXCEPT ![t] = b]
  BY <1>1, <1>3, <1>5
<1>8. begun'[t] = b /\ \A u \in Threads : u # t => begun'[u] = begun[u]
  BY <1>7 DEF TypeOK
<1>9. b = <<>> <=> n = Len(s)
  BY <1>2, <1>4, <1>6, EmptySeq
<1>10. lock' = IF b = <<>> /\ lock = t THEN 0 ELSE lock
  BY <1>3, <1>9
<1>11. PICK p, q : p = pipe /\ q = p \o a
  OBVIOUS
<1>12. pipe' = q
  BY <1>3, <1>5, <1>11
<1>13. p \in Seq(Nat) /\ got \in 0 .. Len(p) /\ Len(p) \in Nat
  BY <1>11, LenProperties DEF TypeOK
<1>14. /\ q \in Seq(Nat) /\ Len(q) = Len(p) + n /\ n \in Nat
       /\ \A i \in 1 .. Len(q) : q[i] = IF i <= Len(p) THEN p[i] ELSE a[i - Len(p)]
  <2>1. n \in Nat
    BY <1>2, <1>4
  <2>2. a \in Seq(Nat) /\ p \in Seq(Nat)
    BY <1>6, <1>13
  <2>3. /\ q \in Seq(Nat) /\ Len(q) = Len(p) + Len(a)
        /\ \A i \in 1 .. Len(p) + Len(a) : q[i] = IF i <= Len(p) THEN p[i] ELSE a[i - Len(p)]
    BY <1>11, <2>2, ConcatProperties
  <2> QED
    BY <1>6, <2>1, <2>3
<1>15. Len(q) >= Len(p)
  BY <1>13, <1>14
<1>16. SubSeq(q, 1, got) = SubSeq(p, 1, got)
  <2>1. PICK x, y : x = SubSeq(q, 1, got) /\ y = SubSeq(p, 1, got)
    OBVIOUS
  <2>2. PICK len, more : len = Len(p) /\ more = Len(q)
    OBVIOUS
  <2>3. len \in Nat /\ more \in Nat /\ len <= more /\ got \in 0 .. len
    BY <1>13, <1>14, <1>15, <2>2
  <2>4. /\ \A i \in 1 .. got : i \in 1 .. more /\ i <= len
        /\ 1 + got - 1 = got /\ got \in Nat
    BY <2>3
  <2>5. \A i \in 1 .. got : q[i] = p[i]
    BY <1>14, <2>2, <2>4
  <2>6. x \in Seq(Nat) /\ Len(x) = got /\ \A i \in 1 .. got : x[i] = q[i]
    <3>1. got \in 0 .. Len(q)
      BY <2>2, <2>3
    <3>2. /\ \A i \in 1 .. Len(q) : q[i] \in Nat
          /\ \A i \in 1 .. got : i \in 1 .. Len(q)
      BY <1>14, <2>2, <2>4, ElementOfSeq
    <3>3. /\ x \in Seq(Nat) /\ Len(x) = (IF 1 <= got THEN got - 1 + 1 ELSE 0)
          /\ \A i \in 1 .. got - 1 + 1 : x[i] = q[1 + i - 1]
      BY <1>14, <2>1, <2>4, <3>2, SubSeqProperties
    <3> QED
      BY <2>4, <3>3
  <2>7. y \in Seq(Nat) /\ Len(y) = got /\ \A i \in 1 .. got : y[i] = p[i]
    <3>1. /\ \A i \in 1 .. Len(p) : p[i] \in Nat
          /\ \A i \in 1 .. got : i \in 1 .. Len(p)
      BY <1>13, <2>2, <2>3, ElementOfSeq
    <3>2. /\ y \in Seq(Nat) /\ Len(y) = (IF 1 <= got THEN got - 1 + 1 ELSE 0)
          /\ \A i \in 1 .. got - 1 + 1 : y[i] = p[1 + i - 1]
      BY <1>13, <2>1, <2>4, <3>1, SubSeqProperties
    <3> QED
      BY <2>4, <3>2
  <2> QED
    BY <2>1, <2>5, <2>6, <2>7, SeqEqual
<1>17. UNCHANGED <<setup, thread, got, codec, decoded, emitted, dropped>>
  BY DEF WriterTakes
<1>18. pipe' = pipe ++ a
  BY <1>11, <1>12 DEF ++
<1> QED
  BY <1>1, <1>2, <1>6, <1>7, <1>8, <1>10, <1>11, <1>12, <1>14, <1>15, <1>16, <1>17, <1>18

(* The host: codec, events and position change.                            *)
LEMMA ReadChunkSets ==
    ASSUME TypeOK, ReadChunk
    PROVE  /\ codec.ok /\ got' \in 0 .. Len(pipe)
           /\ codec' \in [buf : Seq(Nat), ok : BOOLEAN]
           /\ UNCHANGED <<setup, thread, lock, begun, pipe, emitted, dropped>>
<1>1. PICK upto, chunk :
        /\ upto \in got + 1 .. Len(pipe)
        /\ chunk = SubSeq(pipe, got + 1, upto)
        /\ IF setup.format = "cobs" THEN FeedCobs(chunk) ELSE FeedText(chunk)
        /\ got' = upto
  BY DEF ReadChunk
<1>2. Len(pipe) \in Nat /\ got \in 0 .. Len(pipe) /\ pipe \in Seq(Nat)
  BY LenProperties DEF TypeOK
<1>3. got' \in 0 .. Len(pipe)
  BY <1>1, <1>2
<1>4. chunk \in Seq(Nat)
  <2>1. /\ got + 1 \in Int /\ upto \in Int
        /\ \A i \in got + 1 .. upto : i \in 1 .. Len(pipe)
    BY <1>1, <1>2
  <2>2. \A i \in got + 1 .. upto : pipe[i] \in Nat
    BY <1>2, <2>1, ElementOfSeq
  <2> QED
    BY <1>1, <1>2, <2>1, <2>2, SubSeqProperties
<1>5. PICK buf, ok : buf = codec.buf /\ ok = codec.ok
  OBVIOUS
<1>6. codec = [buf |-> buf, ok |-> ok] /\ buf \in Seq(Nat) /\ ok \in BOOLEAN
  BY <1>5 DEF TypeOK
<1>7. \A s \in Seq(Nat), mark \in {Delim, Newline} : Cut(buf \o s, mark).rest \in Seq(Nat)
  BY <1>6, ConcatProperties, CutType
<1>8. codec' \in [buf : Seq(Nat), ok : BOOLEAN]
  <2>1. ASSUME NEW rest \in Seq(Nat) PROVE [codec EXCEPT !.buf = rest] \in [buf : Seq(Nat), ok : BOOLEAN]
    BY <1>6
  <2>2. [codec EXCEPT !.ok = FALSE] \in [buf : Seq(Nat), ok : BOOLEAN]
    BY <1>6
  <2>3. CASE setup.format = "cobs"
    <3>1. \/ codec' = [codec EXCEPT !.buf = Cut(buf \o chunk, Delim).rest]
          \/ codec' = [codec EXCEPT !.ok = FALSE]
      BY <1>1, <1>5, <2>3 DEF FeedCobs
    <3> QED
      BY <1>4, <1>7, <2>1, <2>2, <3>1
  <2>4. CASE setup.format # "cobs"
    <3>1. codec' = [codec EXCEPT !.buf = Cut(buf \o Lossy(chunk), Newline).rest]
      BY <1>1, <1>5, <2>4 DEF FeedText
    <3>2. Lossy(chunk) \in Seq(Nat)
      BY <1>4, LossyOfNumbers
    <3> QED
      BY <1>7, <2>1, <3>1, <3>2
  <2> QED
    BY <2>3, <2>4
<1> QED
  BY <1>3, <1>8 DEF ReadChunk

(* Every step keeps the types.                                             *)
LEMMA NextTypeOK == TypeOK /\ CallsOK /\ [Next]_vars => TypeOK'
<1> SUFFICES ASSUME TypeOK, CallsOK, [Next]_vars PROVE TypeOK'
  OBVIOUS
<1>0. Threads = {1, 2}
  BY DEF Threads
<1>1. ASSUME NEW t \in Threads, Emit(t) PROVE TypeOK'
  <2>1. PICK m \in Messages :
          /\ thread' = [thread EXCEPT ![t] = [calls |-> Calls(m), of |-> m,
                                              count |-> thread[t].count + 1]]
          /\ dropped' = IF Calls(m) = <<>> THEN dropped \cup {m} ELSE dropped
    BY <1>1, EmitSets
  <2>2. Calls(m) \in Seq(Seq(Nat)) /\ thread[t].count + 1 \in Nat
    <3>1. thread[t].count \in Nat
      BY ThreadTyped
    <3> QED
      BY <3>1, CallsType
  <2>3. thread' \in [Threads -> [calls : Seq(Seq(Nat)), of : Messages \cup {0}, count : Nat]]
    BY <2>1, <2>2, ThreadStep
  <2>4. UNCHANGED <<setup, lock, begun, pipe, got, codec, decoded, emitted>>
    BY <1>1, EmitSets
  <2>5. dropped' \subseteq Messages
    BY <2>1 DEF TypeOK
  <2> QED
    BY <2>3, <2>4, <2>5 DEF TypeOK
<1>2. ASSUME NEW t \in Threads, EmitRaw(t) PROVE TypeOK'
  <2>1. PICK h, c, o, n : h = Head(thread[t].calls) /\ c = Tail(thread[t].calls) /\ o = thread[t].of
                          /\ n = thread[t].count
    OBVIOUS
  <2>2. /\ thread' = [thread EXCEPT ![t] = [calls |-> c, of |-> o, count |-> n]]
        /\ begun' = [begun EXCEPT ![t] = h] /\ h \in Seq(Nat) /\ c \in Seq(Seq(Nat))
        /\ lock' = IF setup.locks THEN t ELSE lock
        /\ UNCHANGED <<setup, pipe, got, codec, decoded, dropped>>
    BY <1>2, <2>1, EmitRawSets
  <2>3. o \in Messages \cup {0} /\ n \in Nat
    BY <2>1, ThreadTyped
  <2>4. thread' \in [Threads -> [calls : Seq(Seq(Nat)), of : Messages \cup {0}, count : Nat]]
    BY <2>2, <2>3, ThreadStep
  <2>5. begun' \in [Threads -> Seq(Nat)] /\ lock' \in 0 .. 2
    BY <1>0, <2>2 DEF TypeOK
  <2>6. emitted' \in Seq(Messages)
    <3>1. emitted' = IF FirstCall(t) THEN Append(emitted, o) ELSE emitted
      BY <1>2, <2>1, EmitRawSets
    <3>2. thread[t].calls # <<>>
      BY <1>2, EmitRawSets
    <3>3. o \in Messages
      BY <2>1, <3>2 DEF CallsOK
    <3>4. emitted \in Seq(Messages)
      BY DEF TypeOK
    <3> QED
      BY <3>1, <3>3, <3>4, AppendProperties
  <2> QED
    BY <2>2, <2>4, <2>5, <2>6 DEF TypeOK
<1>3. ASSUME NEW t \in Threads, WriterTakes(t) PROVE TypeOK'
  <2>1. PICK b \in Seq(Nat) :
          begun' = [begun EXCEPT ![t] = b] /\ lock' = IF b = <<>> /\ lock = t THEN 0 ELSE lock
    BY <1>3, WriterTakesSets
  <2>2. /\ pipe' \in Seq(Nat) /\ Len(pipe') >= Len(pipe)
        /\ UNCHANGED <<setup, thread, got, codec, decoded, emitted, dropped>>
    BY <1>3, WriterTakesSets
  <2>3. got' \in 0 .. Len(pipe')
    <3>1. Len(pipe') \in Nat /\ Len(pipe) \in Nat /\ got \in 0 .. Len(pipe)
      BY <2>2, LenProperties DEF TypeOK
    <3> QED
      BY <2>2, <3>1
  <2>4. begun' \in [Threads -> Seq(Nat)] /\ lock' \in 0 .. 2
    BY <2>1 DEF TypeOK
  <2> QED
    BY <2>2, <2>3, <2>4 DEF TypeOK
<1>4. ASSUME ReadChunk PROVE TypeOK'
  BY <1>4, ReadChunkSets DEF TypeOK
<1>5. CASE UNCHANGED vars
  BY <1>5 DEF vars, TypeOK
<1> QED
  BY <1>1, <1>2, <1>3, <1>4, <1>5 DEF Next

(* Only what has no payload is left out.                                   *)
LEMMA NextDroppedOK == TypeOK /\ DroppedOK /\ [Next]_vars => DroppedOK'
<1> SUFFICES ASSUME TypeOK, DroppedOK, [Next]_vars PROVE DroppedOK'
  OBVIOUS
<1>1. ASSUME NEW t \in Threads, Emit(t) PROVE DroppedOK'
  <2>1. PICK m \in Messages : dropped' = IF Calls(m) = <<>> THEN dropped \cup {m} ELSE dropped
    BY <1>1, EmitSets
  <2>2. setup' = setup
    BY <1>1, EmitSets
  <2>3. ASSUME setup.format = "cobs", NEW d \in dropped' PROVE Payload(d) = <<>>
    <3>1. CASE d \in dropped
      BY <2>3, <3>1 DEF DroppedOK
    <3>2. CASE d \notin dropped
      <4>1. d = m /\ Calls(m) = <<>>
        BY <2>1, <2>3, <3>2
      <4>2. PICK f : f = Append(Body(m), Delim)
        OBVIOUS
      <4>3. Calls(m) = IF Payload(m) = <<>> THEN <<>> ELSE <<f>>
        BY <2>3, <4>2, CallsType
      <4>4. <<f>> # <<>>
        OBVIOUS
      <4> QED
        BY <4>1, <4>3, <4>4
    <3> QED
      BY <3>1, <3>2
  <2> QED
    BY <2>2, <2>3 DEF DroppedOK
<1>2. ASSUME UNCHANGED <<setup, dropped>> PROVE DroppedOK'
  BY <1>2 DEF DroppedOK
<1>3. ASSUME NEW t \in Threads, EmitRaw(t) PROVE DroppedOK'
  BY <1>2, <1>3, EmitRawSets
<1>4. ASSUME NEW t \in Threads, WriterTakes(t) PROVE DroppedOK'
  BY <1>2, <1>4, WriterTakesSets
<1>5. ASSUME ReadChunk PROVE DroppedOK'
  BY <1>2, <1>5, ReadChunkSets
<1>6. CASE UNCHANGED vars
  BY <1>2, <1>6 DEF vars
<1> QED
  BY <1>1, <1>3, <1>4, <1>5, <1>6 DEF Next

(* Nobody calls at first.                                                  *)
LEMMA InitCallsOK == Init => CallsOK
BY DEF Init, CallsOK

(* Every step keeps the calls one at a time.                               *)
LEMMA NextCallsOK == TypeOK /\ CallsOK /\ [Next]_vars => CallsOK'
<1> SUFFICES ASSUME TypeOK, CallsOK, [Next]_vars PROVE CallsOK'
  OBVIOUS
<1> DEFINE One(t) == \/ thread[t].calls = <<>>
                     \/ thread[t].of \in Messages /\ thread[t].calls = Calls(thread[t].of)
                     \/ /\ thread[t].of \in Messages /\ setup.format = "text"
                        /\ thread[t].calls = << <<Newline>> >>
           Out(t) == t \notin setup.threads => thread[t].calls = <<>> /\ begun[t] = <<>>
           Mine(t) == setup.locks => (begun[t] # <<>> => lock = t)
<1>0. Threads = {1, 2} /\ setup.format \in {"cobs", "text"}
  BY SetupIs DEF Threads, TypeOK
<1>00. SUFFICES ASSUME NEW t \in Threads PROVE One(t)' /\ Out(t)' /\ Mine(t)'
  BY DEF CallsOK
<1>01. One(t) /\ Out(t) /\ Mine(t)
  BY DEF CallsOK
<1>02. setup' = setup => \A m : Calls(m)' = Calls(m)
  BY DEF Calls
<1>1. ASSUME NEW u \in Threads, Emit(u) PROVE One(t)' /\ Out(t)' /\ Mine(t)'
  <2>1. PICK m \in Messages : thread'[u].calls = Calls(m) /\ thread'[u].of = m
    BY <1>1, EmitSets
  <2>2. /\ u \in setup.threads /\ setup' = setup /\ begun' = begun /\ lock' = lock
        /\ t # u => thread'[t] = thread[t]
    BY <1>1, EmitSets
  <2>3. CASE t = u
    BY <1>01, <1>02, <2>1, <2>2, <2>3
  <2>4. CASE t # u
    BY <1>01, <1>02, <2>2, <2>4
  <2> QED
    BY <2>3, <2>4
<1>2. ASSUME NEW u \in Threads, EmitRaw(u) PROVE One(t)' /\ Out(t)' /\ Mine(t)'
  <2>1. /\ begun[u] = <<>> /\ thread[u].calls # <<>> /\ (setup.locks => lock = 0)
        /\ lock' = IF setup.locks THEN u ELSE lock
        /\ thread'[u].calls = Tail(thread[u].calls) /\ thread'[u].of = thread[u].of
        /\ setup' = setup
        /\ t # u => thread'[t] = thread[t] /\ begun'[t] = begun[t]
    BY <1>2, EmitRawSets
  <2>2. CASE t # u
    <3>1. Mine(t)'
      <4>1. setup.locks => begun[t] = <<>>
        BY <1>0, <1>01, <2>1
      <4> QED
        BY <2>1, <2>2, <4>1
    <3> QED
      BY <1>01, <1>02, <2>1, <2>2, <3>1
  <2>3. CASE t = u
    <3>1. Mine(t)' /\ Out(t)'
      BY <1>01, <2>1, <2>3
    <3>2. PICK m, c : m = thread[u].of /\ c = thread[u].calls
      OBVIOUS
    <3>3. m \in Messages /\ (c = Calls(m) \/ (setup.format = "text" /\ c = << <<Newline>> >>))
      BY <1>01, <2>1, <2>3, <3>2
    <3>4. \/ Tail(c) = <<>>
          \/ setup.format = "text" /\ Tail(c) = << <<Newline>> >>
      <4>1. CASE c = << <<Newline>> >>
        BY <4>1
      <4>2. CASE c = Calls(m) /\ setup.format = "cobs"
        <5>1. c = <<Append(Body(m), Delim)>>
          BY <2>1, <3>2, <3>3, <4>2, CallsType
        <5> QED
          BY <5>1
      <4>3. CASE c = Calls(m) /\ setup.format = "text"
        <5>1. c = <<Printed(m), <<Newline>> >>
          BY <3>3, <4>3, CallsType
        <5> QED
          BY <4>3, <5>1
      <4> QED
        BY <1>0, <3>3, <4>1, <4>2, <4>3
    <3>5. One(t)'
      BY <2>1, <2>3, <3>2, <3>3, <3>4
    <3> QED
      BY <3>1, <3>5
  <2> QED
    BY <2>2, <2>3
<1>3. ASSUME NEW u \in Threads, WriterTakes(u) PROVE One(t)' /\ Out(t)' /\ Mine(t)'
  <2>1. PICK b \in Seq(Nat) :
          /\ begun'[u] = b /\ (t # u => begun'[t] = begun[t])
          /\ lock' = IF b = <<>> /\ lock = u THEN 0 ELSE lock
    BY <1>3, WriterTakesSets
  <2>2. begun[u] # <<>> /\ setup' = setup /\ thread' = thread
    BY <1>3, WriterTakesSets
  <2>3. setup.locks => lock = u
    BY <2>2 DEF CallsOK
  <2>4. CASE t = u
    BY <1>01, <1>02, <2>1, <2>2, <2>3, <2>4
  <2>5. CASE t # u
    BY <1>01, <1>02, <2>1, <2>2, <2>3, <2>5
  <2> QED
    BY <2>4, <2>5
<1>4. ASSUME ReadChunk PROVE One(t)' /\ Out(t)' /\ Mine(t)'
  BY <1>01, <1>02, <1>4, ReadChunkSets
<1>5. CASE UNCHANGED vars
  BY <1>01, <1>02, <1>5 DEF vars
<1> QED
  BY <1>1, <1>2, <1>3, <1>4, <1>5 DEF Next

-----------------------------------------------------------------------------
(* The stream: written, being written, and still to be written.            *)

(* What is written, being written, and still to be written of a line.      *)
Flow(p, b, n) == ((p ++ b[1]) ++ b[2]) ++ n
Ending ==
    IF setup.format = "text" /\ thread[1].calls = << <<Newline>> >> THEN <<Newline>> ELSE <<>>
Stream == Flow(pipe, begun, Ending)

(* What ends a piece: the zero of a frame, or the newline.                 *)
Limit == IF setup.format = "cobs" THEN Delim ELSE Newline

(* What the host finds of an event between two of them.                    *)
Piece(m) == IF setup.format = "cobs" THEN Body(m) ELSE Printed(m)
PiecesOf(ms) == [k \in 1 .. Len(ms) |-> Piece(ms[k])]
Sendable(m) == setup.format = "cobs" => Payload(m) # <<>>

Orderly ==
    \/ setup.format = "cobs" /\ CallsStayWhole
    \/ setup.format = "text" /\ setup.threads = {1}

(* Plain lines hold no newline but the last.                               *)
Clear ==
    /\ Orderly
    /\ setup.format = "text" => \A k \in 1 .. Len(emitted) : Plain(emitted[k])

(* Cut at its delimiters, the stream is the events, in order.              *)
StreamOK ==
    Clear => /\ \A k \in 1 .. Len(emitted) : Sendable(emitted[k])
             /\ Cut(Stream, Limit).done = PiecesOf(emitted)
             /\ Cut(Stream, Limit).rest = <<>>

(* Pieces are sequences of numbers.                                        *)
LEMMA PieceType ==
    ASSUME NEW m \in Messages, Sendable(m), setup.format \in {"cobs", "text"},
           setup.format = "text" => Plain(m)
    PROVE  Piece(m) \in Seq(Nat) /\ Unmarked(Piece(m), Limit) /\ Limit \in Nat
<1>1. CASE setup.format = "cobs"
  BY <1>1, FrameOf DEF Piece, Sendable, Limit, Delim
<1>2. CASE setup.format = "text"
  <2>1. Printed(m) = Line(m)
    BY <1>2, LineOf DEF Plain
  <2>2. Line(m) \in Seq(Symbols)
    BY <1>2, PlainLine
  <2>3. Printed(m) \in Seq(Nat) /\ Unmarked(Printed(m), Newline)
    BY <2>1, <2>2, SymbolsJoin
  <2>4. Piece(m) = Printed(m) /\ Limit = Newline
    BY <1>2 DEF Piece, Limit
  <2> QED
    BY <2>3, <2>4 DEF Newline
<1> QED
  BY <1>1, <1>2

(* A stream in which one thread is writing.                                *)
LEMMA FlowOne ==
    ASSUME NEW p \in Seq(Nat), NEW b, NEW n \in Seq(Nat), NEW t \in Threads, b[t] \in Seq(Nat),
           \A u \in Threads : u # t => b[u] = <<>>
    PROVE  Flow(p, b, n) = (p ++ b[t]) ++ n
<1>1. Concatenates(Seq(Nat))
  BY Joining
<1>2. CASE t = 1
  <2>1. b[2] = <<>>
    BY <1>2 DEF Threads
  <2>2. PICK q : q = p ++ b[1]
    OBVIOUS
  <2>3. q \in Seq(Nat) /\ q ++ <<>> = q
    BY <1>1, <1>2, <2>2 DEF Concatenates
  <2> QED
    BY <1>2, <2>1, <2>2, <2>3 DEF Flow
<1>3. CASE t = 2
  <2>1. b[1] = <<>>
    BY <1>3 DEF Threads
  <2>2. p ++ <<>> = p
    BY <1>1 DEF Concatenates
  <2> QED
    BY <1>3, <2>1, <2>2 DEF Flow
<1> QED
  BY <1>2, <1>3 DEF Threads

(* The newline still to come.                                              *)
LEMMA EndingType ==
    /\ Ending \in Seq(Nat) /\ Ending' \in Seq(Nat)
    /\ setup.format = "cobs" => Ending = <<>>
<1>1. <<>> \in Seq(Nat) /\ <<Newline>> \in Seq(Nat)
  BY EmptySeq DEF Newline
<1> QED
  BY <1>1 DEF Ending

(* The writer of an orderly program serves one thread at a time.           *)
LEMMA OneWriter ==
    ASSUME TypeOK, CallsOK, Orderly
    PROVE  /\ \A t, u \in Threads : t # u /\ begun[t] # <<>> => begun[u] = <<>>
           /\ \A t \in Threads : begun[t] = <<>> /\ thread[t].calls # <<>>
                 /\ (setup.locks => lock = 0) => \A u \in Threads : begun[u] = <<>>
           /\ setup.format = "text" => begun[2] = <<>> /\ thread[2].calls = <<>>
<1>1. Threads = {1, 2} /\ setup.format \in {"cobs", "text"}
  BY SetupIs DEF Threads, TypeOK
<1>2. CASE setup.threads = {1}
  <2>1. begun[2] = <<>> /\ thread[2].calls = <<>>
    BY <1>1, <1>2 DEF CallsOK
  <2> QED
    BY <1>1, <2>1
<1>3. CASE setup.threads # {1}
  <2>1. setup.locks /\ setup.format = "cobs"
    BY <1>3 DEF Orderly, CallsStayWhole
  <2>2. \A t \in Threads : begun[t] # <<>> => lock = t
    BY <2>1 DEF CallsOK
  <2>3. 0 \notin Threads
    BY <1>1
  <2> QED
    BY <2>1, <2>2, <2>3
<1> QED
  BY <1>2, <1>3

(* One more event is one more piece.                                       *)
LEMMA PiecesAppend ==
    ASSUME NEW ms \in Seq(Messages), NEW m \in Messages
    PROVE  PiecesOf(Append(ms, m)) = Append(PiecesOf(ms), Piece(m))
<1>1. PICK n, new, old : n = Len(ms) /\ new = Append(ms, m) /\ old = PiecesOf(ms)
  OBVIOUS
<1>2. /\ n \in Nat /\ Len(new) = n + 1 /\ new[n + 1] = m
      /\ \A k \in 1 .. n : new[k] = ms[k]
  BY <1>1, LenProperties, AppendProperties
<1>3. old = [k \in 1 .. n |-> Piece(ms[k])]
  BY <1>1 DEF PiecesOf
<1>4. PICK all : all = [k \in 1 .. n |-> Piece(ms[k])]
  OBVIOUS
<1> DEFINE Found == {Piece(ms[k]) : k \in 1 .. n} \cup {Piece(m)}
<1>5. old \in Seq(Found) /\ Len(old) = n /\ \A k \in 1 .. n : old[k] = Piece(ms[k])
  <2>1. old \in [1 .. n -> Found]
    BY <1>3
  <2>2. old \in Seq(Found)
    BY <1>2, <2>1, SeqDef
  <2>3. Len(old) = n
    BY <1>2, <2>1, <2>2, LenProperties
  <2> QED
    BY <1>3, <2>2, <2>3
<1>6. PICK more : more = Append(old, Piece(m))
  OBVIOUS
<1>7. /\ more \in Seq(Found) /\ Len(more) = n + 1 /\ more[n + 1] = Piece(m)
      /\ \A k \in 1 .. n : more[k] = old[k]
  <2>1. Piece(m) \in Found
    OBVIOUS
  <2> HIDE DEF Found
  <2> QED
    BY <1>5, <1>6, <2>1, AppendProperties
<1>8. PICK both : both = PiecesOf(new)
  OBVIOUS
<1>9. both = [k \in 1 .. n + 1 |-> Piece(new[k])]
  BY <1>2, <1>8 DEF PiecesOf
<1>10. more = [k \in 1 .. n + 1 |-> more[k]]
  <2> HIDE DEF Found
  <2> QED
    BY <1>2, <1>7, LenProperties
<1>11. ASSUME NEW k \in 1 .. n + 1 PROVE more[k] = Piece(new[k])
  <2>1. k \in 1 .. n \/ k = n + 1
    BY <1>2, <1>11
  <2> QED
    BY <1>2, <1>5, <1>7, <2>1
<1>12. more = both
  BY <1>9, <1>10, <1>11
<1> QED
  BY <1>1, <1>6, <1>8, <1>12

(* What is clear after a step was clear before it.                         *)
LEMMA ClearBefore ==
    ASSUME TypeOK, setup' = setup, Clear',
           emitted' = emitted \/ \E m \in Messages : emitted' = Append(emitted, m)
    PROVE  /\ Clear
           /\ \A m \in Messages : emitted' = Append(emitted, m) /\ setup.format = "text" => Plain(m)
<1>1. Orderly
  BY DEF Clear, Orderly, CallsStayWhole
<1>2. CASE setup.format # "text"
  BY <1>1, <1>2 DEF Clear
<1>3. CASE setup.format = "text"
  <2>1. PICK new : new = emitted'
    OBVIOUS
  <2>2. \A k \in 1 .. Len(new) : Plain(new[k])
    BY <1>3, <2>1, Zenon DEF Clear, Plain
  <2>3. emitted \in Seq(Messages) /\ Len(emitted) \in Nat
    BY LenProperties DEF TypeOK
  <2>4. ASSUME NEW m \in Messages, new = Append(emitted, m)
        PROVE  Plain(m) /\ \A k \in 1 .. Len(emitted) : Plain(emitted[k])
    <3>1. /\ Len(new) = Len(emitted) + 1 /\ new[Len(emitted) + 1] = m
          /\ \A k \in 1 .. Len(emitted) : new[k] = emitted[k]
      BY <2>3, <2>4, AppendProperties
    <3>2. /\ Len(emitted) + 1 \in 1 .. Len(new)
          /\ \A k \in 1 .. Len(emitted) : k \in 1 .. Len(new)
      BY <2>3, <3>1
    <3>3. Plain(new[Len(emitted) + 1])
      BY <2>2, <3>2
    <3>4. \A k \in 1 .. Len(emitted) : Plain(new[k])
      BY <2>2, <3>2
    <3> QED
      BY <3>1, <3>3, <3>4, Zenon
  <2> QED
    BY <1>1, <1>3, <2>1, <2>2, <2>4 DEF Clear
<1> QED
  BY <1>2, <1>3

(* A step that adds one event and its piece to the stream, and one that    *)
(* adds neither.                                                           *)
LEMMA StreamGrows ==
    ASSUME TypeOK, StreamOK, Stream \in Seq(Nat), setup' = setup,
           NEW m \in Messages, Sendable(m), emitted' = Append(emitted, m),
           Stream' = Stream ++ Append(Piece(m), Limit)
    PROVE  StreamOK'
<1>1. SUFFICES ASSUME Clear'
               PROVE  (/\ \A k \in 1 .. Len(emitted) : Sendable(emitted[k])
                       /\ Cut(Stream, Limit).done = PiecesOf(emitted)
                       /\ Cut(Stream, Limit).rest = <<>>)'
  BY DEF StreamOK
<1>2. Clear /\ (setup.format = "text" => Plain(m))
  BY <1>1, ClearBefore
<1>3. Piece(m) \in Seq(Nat) /\ Unmarked(Piece(m), Limit) /\ Limit \in Nat
  BY <1>2, PieceType, SetupIs DEF TypeOK
<1>4. PICK s, mark, t : s = Stream /\ mark = Limit /\ t = s ++ Append(Piece(m), mark)
  OBVIOUS
<1>5. s \in Seq(Nat) /\ Cut(s, mark).rest = <<>> /\ Cut(s, mark).done = PiecesOf(emitted)
  BY <1>2, <1>4 DEF StreamOK
<1>6. Cut(t, mark).done = Append(Cut(s, mark).done, Piece(m)) /\ Cut(t, mark).rest = <<>>
  <2>1. PICK piece : piece = Piece(m)
    OBVIOUS
  <2>2. piece \in Seq(Nat) /\ Unmarked(piece, mark) /\ mark \in Nat
    BY <1>3, <1>4, <2>1
  <2>3. /\ Cut(s ++ Append(piece, mark), mark).done = Append(Cut(s, mark).done, piece)
        /\ Cut(s ++ Append(piece, mark), mark).rest = <<>>
    BY <1>5, <2>2, CutPiece
  <2> QED
    BY <1>4, <2>1, <2>3
<1>7. Stream' = t /\ Limit' = mark
  BY <1>4 DEF Limit
<1>8. PICK new : new = Append(emitted, m)
  OBVIOUS
<1>9. PiecesOf(new) = Append(PiecesOf(emitted), Piece(m))
  BY <1>8, PiecesAppend DEF TypeOK
<1>10. PiecesOf(emitted)' = PiecesOf(new)
  BY <1>8 DEF PiecesOf, Piece
<1>11. /\ Len(emitted) \in Nat /\ Len(new) = Len(emitted) + 1 /\ new[Len(emitted) + 1] = m
       /\ \A k \in 1 .. Len(emitted) : new[k] = emitted[k]
  BY <1>8, LenProperties, AppendProperties DEF TypeOK
<1>12. ASSUME NEW k \in 1 .. Len(new) PROVE Sendable(new[k])
  <2>1. k \in 1 .. Len(emitted) \/ k = Len(emitted) + 1
    BY <1>11
  <2> QED
    BY <1>2, <1>11, <2>1 DEF StreamOK
<1>13. (\A k \in 1 .. Len(emitted) : Sendable(emitted[k]))'
  BY <1>8, <1>12 DEF Sendable
<1>14. (Cut(Stream, Limit))' = Cut(t, mark)
  BY <1>7
<1> QED
  BY <1>5, <1>6, <1>9, <1>10, <1>13, <1>14

(* What changes no part of the stream keeps it in order.                   *)
LEMMA StreamStays ==
    ASSUME StreamOK, setup' = setup, emitted' = emitted, Clear => Stream' = Stream
    PROVE  StreamOK'
<1>1. Clear' <=> Clear
  BY DEF Clear, Orderly, CallsStayWhole, Plain
<1>2. PiecesOf(emitted)' = PiecesOf(emitted) /\ Limit' = Limit
  BY DEF PiecesOf, Piece, Limit
<1>3. \A k : Sendable(emitted[k])' = Sendable(emitted[k])
  BY DEF Sendable
<1> QED
  BY <1>1, <1>2, <1>3 DEF StreamOK

(* The stream is empty at first.                                           *)
LEMMA InitStreamOK == Init => StreamOK
<1> SUFFICES ASSUME Init PROVE StreamOK
  OBVIOUS
<1>1. begun[1] = <<>> /\ begun[2] = <<>> /\ pipe = <<>> /\ emitted = <<>> /\ thread[1].calls = <<>>
  BY DEF Init, Threads
<1>2. Ending = <<>>
  BY <1>1 DEF Ending
<1>3. <<>> ++ <<>> = <<>>
  BY EmptySeq, Joining DEF Concatenates
<1>4. Stream = <<>>
  BY <1>1, <1>2, <1>3 DEF Stream, Flow
<1>5. PICK c : c = Cut(<<>>, Limit)
  OBVIOUS
<1>6. c.done = <<>> /\ c.rest = <<>>
  BY <1>5, CutFirst
<1>7. Len(emitted) = 0
  BY <1>1, EmptySeq
<1>8. PiecesOf(emitted) = <<>>
  BY <1>7 DEF PiecesOf
<1>9. \A k \in 1 .. 0 : FALSE
  OBVIOUS
<1> QED
  BY <1>4, <1>5, <1>6, <1>7, <1>8, <1>9 DEF StreamOK

(* The stream where nobody else is writing.                                *)
LEMMA StreamIs ==
    ASSUME TypeOK, CallsOK
    PROVE  /\ Stream \in Seq(Nat)
           /\ \A t \in Threads : (\A u \in Threads : u # t => begun[u] = <<>>)
                 => Stream = (pipe ++ begun[t]) ++ Ending
<1>1. pipe \in Seq(Nat) /\ begun[1] \in Seq(Nat) /\ begun[2] \in Seq(Nat) /\ Ending \in Seq(Nat)
  BY EndingType DEF TypeOK, Threads
<1>2. Stream \in Seq(Nat)
  <2>1. PICK a, b : a = pipe ++ begun[1] /\ b = a ++ begun[2]
    OBVIOUS
  <2>2. a \in Seq(Nat) /\ b \in Seq(Nat) /\ b ++ Ending \in Seq(Nat)
    BY <1>1, <2>1, Joining DEF Concatenates
  <2> QED
    BY <2>1, <2>2 DEF Stream, Flow
<1>3. ASSUME NEW t \in Threads, \A u \in Threads : u # t => begun[u] = <<>>
      PROVE  Stream = (pipe ++ begun[t]) ++ Ending
  <2>1. begun[t] \in Seq(Nat)
    BY ThreadTyped
  <2> QED
    BY <1>1, <1>3, <2>1, FlowOne DEF Stream
<1> QED
  BY <1>2, <1>3

(* Emit: an event that has not begun is no part of the stream.             *)
LEMMA EmitStream ==
    ASSUME TypeOK, CallsOK, StreamOK, NEW t \in Threads, Emit(t)
    PROVE  StreamOK'
<1>1. /\ t \in setup.threads /\ thread[t].calls = <<>>
      /\ \A u \in Threads : u # t => thread'[u] = thread[u]
      /\ UNCHANGED <<setup, lock, begun, pipe, got, codec, decoded, emitted>>
  BY EmitSets
<1>2. PICK m \in Messages : thread'[t].calls = Calls(m)
  BY EmitSets
<1>3. Ending' = Ending
  <2>1. CASE setup.format = "text"
    <3>1. Calls(m) = <<Printed(m), <<Newline>> >>
      BY <2>1, CallsType
    <3>2. Calls(m) # << <<Newline>> >> /\ thread[t].calls # << <<Newline>> >>
      BY <1>1, <3>1
    <3>3. thread'[1].calls = << <<Newline>> >> <=> thread[1].calls = << <<Newline>> >>
      BY <1>1, <1>2, <3>2 DEF Threads
    <3> QED
      BY <1>1, <3>3 DEF Ending
  <2>2. CASE setup.format # "text"
    BY <1>1, <2>2 DEF Ending
  <2> QED
    BY <2>1, <2>2
<1>4. Stream' = Stream
  BY <1>1, <1>3 DEF Stream
<1> QED
  BY <1>1, <1>4, StreamStays

(* emit_raw: the first call of an event adds a piece, the newline moves.   *)
LEMMA EmitRawStream ==
    ASSUME TypeOK, CallsOK, StreamOK, TypeOK', CallsOK', NEW t \in Threads, EmitRaw(t)
    PROVE  StreamOK'
<1>1. PICK h, c, m : h = Head(thread[t].calls) /\ c = thread[t].calls /\ m = thread[t].of
  OBVIOUS
<1>2. /\ begun[t] = <<>> /\ c # <<>> /\ (setup.locks => lock = 0)
      /\ begun'[t] = h /\ h \in Seq(Nat)
      /\ \A u \in Threads : u # t => begun'[u] = begun[u] /\ thread'[u] = thread[u]
      /\ thread'[t].calls = Tail(c)
      /\ emitted' = IF FirstCall(t) THEN Append(emitted, m) ELSE emitted
      /\ setup' = setup /\ pipe' = pipe
  BY <1>1, EmitRawSets
<1>3. /\ m \in Messages
      /\ \/ c = Calls(m)
         \/ setup.format = "text" /\ c = << <<Newline>> >>
  BY <1>1, <1>2 DEF CallsOK
<1>4. setup.format \in {"cobs", "text"} /\ Threads = {1, 2}
  BY SetupIs DEF TypeOK, Threads
<1>5. Orderly' = Orderly
  BY <1>2 DEF Orderly, CallsStayWhole
<1>6. ASSUME Orderly PROVE StreamOK'
  <2>1. \A u \in Threads : begun[u] = <<>>
    BY <1>1, <1>2, <1>6, OneWriter
  <2>2. PICK p, n, l : p = pipe /\ n = Ending /\ l = Ending'
    OBVIOUS
  <2>3. p \in Seq(Nat) /\ n \in Seq(Nat) /\ l \in Seq(Nat)
    BY <2>2, EndingType DEF TypeOK
  <2>4. Concatenates(Seq(Nat))
    BY Joining
  <2>5. Stream = p ++ n /\ Stream \in Seq(Nat)
    <3>1. Stream = (pipe ++ begun[t]) ++ Ending /\ Stream \in Seq(Nat)
      BY <2>1, StreamIs
    <3>2. p ++ <<>> = p
      BY <2>3, <2>4 DEF Concatenates
    <3> QED
      BY <2>1, <2>2, <3>1, <3>2
  <2>6. Stream' = (p ++ h) ++ l
    <3>1. PICK b : b = begun'
      OBVIOUS
    <3>2. b[t] = h /\ \A u \in Threads : u # t => b[u] = <<>>
      BY <1>2, <2>1, <3>1
    <3>3. Flow(p, b, l) = (p ++ h) ++ l
      <4>1. b[t] \in Seq(Nat)
        BY <1>2, <3>2
      <4>2. Flow(p, b, l) = (p ++ b[t]) ++ l
        <5>1. p \in Seq(Nat) /\ l \in Seq(Nat)
          BY <2>3
        <5>2. \A u \in Threads : u # t => b[u] = <<>>
          BY <3>2
        <5>3. t \in Threads /\ b[t] \in Seq(Nat)
          BY <4>1
        <5> QED
          BY <5>1, <5>2, <5>3, FlowOne
      <4> QED
        BY <3>2, <4>2
    <3>4. Stream' = Flow(p, b, l)
      BY <1>2, <2>2, <3>1 DEF Stream, Flow
    <3> QED
      BY <3>3, <3>4
  <2>7. CASE c = Calls(m) /\ setup.format = "cobs"
    <3>1. Payload(m) # <<>> /\ c = <<Append(Body(m), Delim)>>
      BY <1>2, <1>3, <2>7, CallsType
    <3>2. h = Append(Body(m), Delim)
      BY <1>1, <3>1
    <3>3. n = <<>> /\ l = <<>>
      BY <1>2, <2>2, <2>7 DEF Ending
    <3>4. p ++ n = p /\ (p ++ h) ++ l = p ++ h
      <4>1. p ++ h \in Seq(Nat)
        BY <1>2, <2>3, <2>4 DEF Concatenates
      <4> QED
        BY <2>3, <2>4, <3>3, <4>1 DEF Concatenates
    <3>5. emitted' = Append(emitted, m)
      BY <1>1, <1>2, <2>7 DEF FirstCall
    <3>6. Sendable(m) /\ Piece(m) = Body(m)
      BY <2>7, <3>1 DEF Sendable, Piece
    <3>7. Stream' = Stream ++ Append(Piece(m), Limit)
      BY <2>5, <2>6, <2>7, <3>2, <3>4, <3>6 DEF Limit
    <3> QED
      BY <1>2, <1>3, <2>5, <3>5, <3>6, <3>7, StreamGrows
  <2>8. CASE setup.format = "text"
    <3>1. t = 1
      BY <1>1, <1>2, <1>4, <1>6, <2>8, OneWriter
    <3>2. CASE c = Calls(m)
      <4>1. c = <<Printed(m), <<Newline>> >>
        BY <1>3, <2>8, <3>2, CallsType
      <4>2. h = Printed(m) /\ Tail(c) = << <<Newline>> >>
        BY <1>1, <4>1
      <4>3. c # << <<Newline>> >>
        BY <4>1
      <4>4. n = <<>> /\ l = <<Newline>>
        BY <1>1, <1>2, <2>2, <2>8, <3>1, <4>2, <4>3 DEF Ending
      <4>5. emitted' = Append(emitted, m)
        BY <1>1, <1>2, <3>2 DEF FirstCall
      <4>6. Sendable(m) /\ Piece(m) = h
        BY <2>8, <4>2 DEF Sendable, Piece
      <4>7. (p ++ h) ++ l = p ++ (h ++ l) /\ p ++ n = p
        <5>1. p ++ <<>> = p
          BY <2>3, <2>4 DEF Concatenates
        <5>2. (p ++ h) ++ l = p ++ (h ++ l)
          BY <1>2, <2>3, <2>4 DEF Concatenates
        <5> QED
          BY <4>4, <5>1, <5>2
      <4>8. h ++ l = Append(h, Newline)
        BY <1>2, <4>4, AppendIsConcat DEF ++, Newline
      <4>9. Stream' = Stream ++ Append(Piece(m), Limit)
        BY <2>5, <2>6, <2>8, <4>6, <4>7, <4>8 DEF Limit
      <4> QED
        BY <1>2, <1>3, <2>5, <4>5, <4>6, <4>9, StreamGrows
    <3>3. CASE c # Calls(m)
      <4>1. c = << <<Newline>> >> /\ ~FirstCall(t)
        BY <1>1, <1>3, <3>3 DEF FirstCall
      <4>2. h = <<Newline>> /\ Tail(c) = <<>>
        BY <1>1, <4>1
      <4>3. n = <<Newline>> /\ l = <<>>
        BY <1>1, <1>2, <2>2, <2>8, <3>1, <4>1, <4>2 DEF Ending
      <4>4. (p ++ h) ++ l = p ++ n
        <5>1. p ++ h \in Seq(Nat)
          BY <1>2, <2>3, <2>4 DEF Concatenates
        <5> QED
          BY <2>4, <4>2, <4>3, <5>1 DEF Concatenates
      <4>5. Stream' = Stream /\ emitted' = emitted
        BY <1>2, <2>5, <2>6, <4>1, <4>4
      <4> QED
        BY <1>2, <4>5, StreamStays
    <3> QED
      BY <3>2, <3>3
  <2> QED
    BY <1>3, <1>4, <2>7, <2>8
<1>7. ASSUME ~Orderly PROVE StreamOK'
  BY <1>5, <1>7 DEF StreamOK, Clear
<1> QED
  BY <1>6, <1>7

(* The writer: bytes move from one part of the stream to another.          *)
LEMMA WriterTakesStream ==
    ASSUME TypeOK, CallsOK, StreamOK, NEW t \in Threads, WriterTakes(t)
    PROVE  StreamOK'
<1>1. PICK a, b \in Seq(Nat) :
        /\ begun[t] = a ++ b /\ pipe' = pipe ++ a /\ begun'[t] = b
        /\ \A u \in Threads : u # t => begun'[u] = begun[u]
  BY WriterTakesSets
<1>2. begun[t] # <<>> /\ UNCHANGED <<setup, thread, got, codec, decoded, emitted>>
  BY WriterTakesSets
<1>3. ASSUME Orderly PROVE Stream' = Stream
  <2>1. \A u \in Threads : u # t => begun[u] = <<>>
    BY <1>2, <1>3, OneWriter
  <2>2. PICK p, n : p = pipe /\ n = Ending
    OBVIOUS
  <2>3. p \in Seq(Nat) /\ n \in Seq(Nat) /\ Ending' = n
    BY <1>2, <2>2, EndingType DEF TypeOK, Ending
  <2>4. Concatenates(Seq(Nat))
    BY Joining
  <2>5. Stream = (p ++ (a ++ b)) ++ n
    BY <1>1, <2>1, <2>2, StreamIs
  <2>6. PICK q, c : q = p ++ a /\ c = begun'
    OBVIOUS
  <2>7. q \in Seq(Nat) /\ q ++ b = p ++ (a ++ b)
    BY <2>3, <2>4, <2>6 DEF Concatenates
  <2>8. c[t] = b /\ \A u \in Threads : u # t => c[u] = <<>>
    BY <1>1, <2>1, <2>6
  <2>9. Flow(q, c, n) = (q ++ b) ++ n
    BY <2>3, <2>7, <2>8, FlowOne
  <2>10. Stream' = Flow(q, c, n)
    BY <1>1, <2>2, <2>3, <2>6 DEF Stream, Flow
  <2> QED
    BY <2>5, <2>7, <2>9, <2>10
<1> QED
  BY <1>2, <1>3, StreamStays DEF Clear

(* Every step keeps the stream in order.                                   *)
LEMMA NextStreamOK ==
    TypeOK /\ CallsOK /\ StreamOK /\ TypeOK' /\ CallsOK' /\ [Next]_vars => StreamOK'
<1> SUFFICES ASSUME TypeOK, CallsOK, StreamOK, TypeOK', CallsOK', [Next]_vars PROVE StreamOK'
  OBVIOUS
<1>1. ASSUME NEW t \in Threads, Emit(t) PROVE StreamOK'
  BY <1>1, EmitStream
<1>2. ASSUME NEW t \in Threads, EmitRaw(t) PROVE StreamOK'
  BY <1>2, EmitRawStream
<1>3. ASSUME NEW t \in Threads, WriterTakes(t) PROVE StreamOK'
  BY <1>3, WriterTakesStream
<1>4. ASSUME ReadChunk PROVE StreamOK'
  <2>1. UNCHANGED <<setup, thread, lock, begun, pipe, emitted>>
    BY <1>4, ReadChunkSets
  <2>2. Stream' = Stream
    BY <2>1 DEF Stream, Flow, Ending
  <2> QED
    BY <2>1, <2>2, StreamStays
<1>5. CASE UNCHANGED vars
  <2>1. Stream' = Stream /\ setup' = setup /\ emitted' = emitted
    BY <1>5 DEF vars, Stream, Flow, Ending
  <2> QED
    BY <2>1, StreamStays
<1> QED
  BY <1>1, <1>2, <1>3, <1>4, <1>5 DEF Next

-----------------------------------------------------------------------------
(* The host has decoded what it has read, and nothing else.                *)

(* What the host has read, cut at its delimiters.                          *)
Read(upto) == SubSeq(pipe, 1, upto)
Heard == Cut(Read(got), Limit)

(* The elements of a concatenation.                                        *)
Follows(c, a, b) ==
    /\ Len(c) = Len(a) + Len(b)
    /\ \A i \in 1 .. Len(a) : c[i] = a[i]
    /\ \A j \in 1 .. Len(b) : c[Len(a) + j] = b[j]

(* The elements of a concatenation.                                        *)
LEMMA JoinAt ==
    ASSUME NEW X, NEW a \in Seq(X), NEW b \in Seq(X)
    PROVE  a ++ b \in Seq(X) /\ Follows(a ++ b, a, b)
<1>1. PICK c, n : c = a \o b /\ n = Len(a)
  OBVIOUS
<1>2. /\ c \in Seq(X) /\ Len(c) = n + Len(b) /\ n \in Nat /\ Len(b) \in Nat
      /\ \A i \in 1 .. n + Len(b) : c[i] = IF i <= n THEN a[i] ELSE b[i - n]
  BY <1>1, ConcatProperties, LenProperties
<1>3. ASSUME NEW i \in 1 .. n PROVE c[i] = a[i]
  BY <1>2
<1>4. ASSUME NEW j \in 1 .. Len(b) PROVE c[n + j] = b[j]
  <2>1. PICK i : i = n + j
    OBVIOUS
  <2>2. i \in 1 .. n + Len(b) /\ ~(i <= n) /\ i - n = j
    BY <1>2, <2>1
  <2> QED
    BY <1>2, <2>1, <2>2
<1>5. c = a ++ b
  BY <1>1 DEF ++
<1>6. Follows(c, a, b)
  BY <1>1, <1>2, <1>3, <1>4 DEF Follows
<1> QED
  BY <1>2, <1>5, <1>6

(* The same, for pieces.                                                   *)
LEMMA JoinPieces ==
    \A a, b \in Seq(Seq(Nat)) : a ++ b \in Seq(Seq(Nat)) /\ Follows(a ++ b, a, b)
BY JoinAt

(* The pipe before, in and behind a chunk.                                 *)
LEMMA ReadOn ==
    ASSUME TypeOK, NEW upto \in got .. Len(pipe)
    PROVE  /\ Read(upto) \in Seq(Nat) /\ SubSeq(pipe, got + 1, upto) \in Seq(Nat)
           /\ SubSeq(pipe, upto + 1, Len(pipe)) \in Seq(Nat)
           /\ Read(upto) = Read(got) ++ SubSeq(pipe, got + 1, upto)
           /\ pipe = Read(upto) ++ SubSeq(pipe, upto + 1, Len(pipe))
<1>1. PICK p, len : p = pipe /\ len = Len(p)
  OBVIOUS
<1>2. p \in Seq(Nat) /\ len \in Nat /\ got \in 0 .. len /\ upto \in got .. len
  BY <1>1, LenProperties DEF TypeOK
<1>3. upto \in 0 .. len /\ got \in 0 .. upto
  BY <1>2
<1>4. PICK r, rest : r = SubSeq(p, 1, upto) /\ rest = SubSeq(p, upto + 1, len)
  OBVIOUS
<1>5. r \in Seq(Nat) /\ rest \in Seq(Nat) /\ r ++ rest = p /\ Len(r) = upto
  BY <1>1, <1>2, <1>3, <1>4, SplitAt
<1>6. \A i \in 1 .. upto : r[i] = p[i]
  <2>1. Follows(p, r, rest)
    BY <1>5, JoinAt
  <2> QED
    BY <1>5, <2>1 DEF Follows
<1>7. PICK a, b : a = SubSeq(r, 1, got) /\ b = SubSeq(r, got + 1, upto)
  OBVIOUS
<1>8. a \in Seq(Nat) /\ b \in Seq(Nat) /\ a ++ b = r
  BY <1>3, <1>5, <1>7, SplitAt
<1>9. a = SubSeq(p, 1, got)
  <2>1. PICK x : x = SubSeq(p, 1, got)
    OBVIOUS
  <2>2. /\ got \in Nat /\ (\A i \in 1 .. got : i \in 1 .. upto /\ i \in 1 .. len)
        /\ (1 <= got => got - 1 + 1 = got) /\ upto \in Nat /\ 1 .. got - 1 + 1 = 1 .. got
    BY <1>3, <1>2
  <2>3. /\ \A i \in 1 .. got : r[i] \in Nat /\ p[i] \in Nat
    BY <1>1, <1>2, <1>5, <2>2, ElementOfSeq
  <2>4. /\ x \in Seq(Nat) /\ Len(x) = (IF 1 <= got THEN got - 1 + 1 ELSE 0)
        /\ \A i \in 1 .. got - 1 + 1 : x[i] = p[1 + i - 1]
    BY <1>2, <2>1, <2>2, <2>3, SubSeqProperties
  <2>5. /\ a \in Seq(Nat) /\ Len(a) = (IF 1 <= got THEN got - 1 + 1 ELSE 0)
        /\ \A i \in 1 .. got - 1 + 1 : a[i] = r[1 + i - 1]
    BY <1>5, <1>7, <2>2, <2>3, SubSeqProperties
  <2>6. Len(x) = got /\ Len(a) = got
    BY <2>2, <2>4, <2>5
  <2>7. ASSUME NEW i \in 1 .. got PROVE a[i] = x[i]
    <3>1. i \in 1 .. got - 1 + 1 /\ 1 + i - 1 = i
      BY <2>2
    <3> QED
      BY <1>6, <2>2, <2>4, <2>5, <3>1
  <2> QED
    BY <2>1, <2>4, <2>5, <2>6, <2>7, SeqEqual
<1>10. b = SubSeq(p, got + 1, upto)
  <2>1. PICK x, n : x = SubSeq(p, got + 1, upto) /\ n = upto - (got + 1) + 1
    OBVIOUS
  <2>2. /\ got + 1 \in Int /\ upto \in Int
        /\ \A i \in got + 1 .. upto : i \in 1 .. upto /\ i \in 1 .. len
    BY <1>2, <1>3
  <2>3. \A i \in got + 1 .. upto : r[i] \in Nat /\ p[i] \in Nat
    BY <1>1, <1>2, <1>5, <2>2, ElementOfSeq
  <2>4. /\ x \in Seq(Nat) /\ Len(x) = (IF got + 1 <= upto THEN n ELSE 0)
        /\ \A i \in 1 .. n : x[i] = p[got + 1 + i - 1]
    BY <1>2, <2>1, <2>2, <2>3, SubSeqProperties
  <2>5. /\ b \in Seq(Nat) /\ Len(b) = (IF got + 1 <= upto THEN n ELSE 0)
        /\ \A i \in 1 .. n : b[i] = r[got + 1 + i - 1]
    BY <1>5, <1>7, <2>1, <2>2, <2>3, SubSeqProperties
  <2>6. Len(x) = n /\ Len(b) = n /\ n \in Nat
    BY <1>2, <1>3, <2>1, <2>4, <2>5
  <2>7. ASSUME NEW i \in 1 .. n PROVE b[i] = x[i]
    <3>1. got + 1 + i - 1 \in 1 .. upto
      BY <1>2, <1>3, <2>1
    <3> QED
      BY <1>6, <2>4, <2>5, <3>1
  <2> QED
    BY <2>1, <2>4, <2>5, <2>6, <2>7, SeqEqual
<1> QED
  BY <1>1, <1>4, <1>5, <1>7, <1>8, <1>9, <1>10 DEF Read

(* The pieces that a chunk completes are the next events.                  *)
LEMMA Hears ==
    ASSUME TypeOK, CallsOK, StreamOK, Clear, NEW upto \in got .. Len(pipe)
    PROVE  LET chunk == SubSeq(pipe, got + 1, upto)
               cut == Cut(Heard.rest ++ chunk, Limit)
               n == Len(Heard.done)
           IN  /\ n \in 0 .. Len(emitted) /\ Heard.done \in Seq(Seq(Nat)) /\ Heard.rest \in Seq(Nat)
               /\ cut.done \in Seq(Seq(Nat)) /\ chunk \in Seq(Nat)
               /\ n + Len(cut.done) <= Len(emitted)
               /\ \A j \in 1 .. Len(cut.done) : cut.done[j] = Piece(emitted[n + j])
               /\ Cut(Read(upto), Limit).rest = cut.rest
               /\ Len(Cut(Read(upto), Limit).done) = n + Len(cut.done)
<1>1. PICK r, chunk, more : /\ r = Read(got) /\ chunk = SubSeq(pipe, got + 1, upto)
                            /\ more = SubSeq(pipe, upto + 1, Len(pipe))
  OBVIOUS
<1>2. PICK s : s = Read(upto)
  OBVIOUS
<1>3. s \in Seq(Nat) /\ chunk \in Seq(Nat) /\ more \in Seq(Nat) /\ s = r ++ chunk /\ pipe = s ++ more
  BY <1>1, <1>2, ReadOn
<1>4. r \in Seq(Nat)
  <2>1. got \in got .. Len(pipe)
    BY LenProperties DEF TypeOK
  <2> QED
    BY <1>1, <2>1, ReadOn
<1>5. PICK old, rest : old = Heard.done /\ rest = Heard.rest
  OBVIOUS
<1>6. /\ old \in Seq(Seq(Nat)) /\ rest \in Seq(Nat) /\ old = Cut(r, Limit).done /\ rest = Cut(r, Limit).rest
  BY <1>1, <1>4, <1>5, CutType DEF Heard
<1>7. PICK cut : cut = Cut(rest ++ chunk, Limit)
  OBVIOUS
<1>8. rest ++ chunk \in Seq(Nat)
  BY <1>3, <1>6, Joining DEF Concatenates
<1>9. cut.done \in Seq(Seq(Nat)) /\ cut.rest \in Seq(Nat)
  BY <1>7, <1>8, CutType
<1>10. Cut(s, Limit).done = old ++ cut.done /\ Cut(s, Limit).rest = cut.rest
  BY <1>3, <1>4, <1>6, <1>7, CutResume
<1>11. \E t \in Seq(Nat) : Stream = s ++ t
  <2>1. PICK b1, b2, n : b1 = begun[1] /\ b2 = begun[2] /\ n = Ending
    OBVIOUS
  <2>2. b1 \in Seq(Nat) /\ b2 \in Seq(Nat) /\ n \in Seq(Nat)
    BY <2>1, EndingType DEF TypeOK, Threads
  <2>3. Concatenates(Seq(Nat))
    BY Joining
  <2>4. PICK t1, t2, t3 : t1 = more ++ b1 /\ t2 = t1 ++ b2 /\ t3 = t2 ++ n
    OBVIOUS
  <2>5. t1 \in Seq(Nat) /\ t2 \in Seq(Nat) /\ t3 \in Seq(Nat)
    BY <1>3, <2>2, <2>3, <2>4 DEF Concatenates
  <2>6. (s ++ more) ++ b1 = s ++ t1 /\ (s ++ t1) ++ b2 = s ++ t2 /\ (s ++ t2) ++ n = s ++ t3
    BY <1>3, <2>2, <2>3, <2>4, <2>5 DEF Concatenates
  <2>7. Stream = s ++ t3
    BY <1>3, <2>1, <2>6 DEF Stream, Flow
  <2> QED
    BY <2>5, <2>7, Zenon
<1>12. PICK t \in Seq(Nat) : Stream = s ++ t
  BY <1>11
<1>13. PICK d : d = Cut(Cut(s, Limit).rest ++ t, Limit).done
  OBVIOUS
<1>14. d \in Seq(Seq(Nat)) /\ PiecesOf(emitted) = (old ++ cut.done) ++ d
  <2>1. cut.rest ++ t \in Seq(Nat)
    BY <1>9, Joining DEF Concatenates
  <2>2. d \in Seq(Seq(Nat))
    BY <1>10, <1>13, <2>1, CutType
  <2>3. Cut(Stream, Limit).done = Cut(s, Limit).done ++ d
    BY <1>3, <1>12, <1>13, CutResume
  <2> QED
    BY <1>10, <2>2, <2>3 DEF StreamOK
<1>15. PICK new, all, n, k, l : /\ new = old ++ cut.done /\ all = new ++ d /\ n = Len(old)
                                /\ k = Len(cut.done) /\ l = Len(d)
  OBVIOUS
<1>16. /\ new \in Seq(Seq(Nat)) /\ Len(new) = n + k
       /\ \A j \in 1 .. k : new[n + j] = cut.done[j]
  <2>1. new \in Seq(Seq(Nat)) /\ Follows(new, old, cut.done)
    BY <1>6, <1>9, <1>15, JoinPieces
  <2> QED
    BY <1>15, <2>1 DEF Follows
<1>17. Len(all) = Len(new) + l /\ \A i \in 1 .. Len(new) : all[i] = new[i]
  <2>1. Follows(all, new, d)
    BY <1>14, <1>15, <1>16, JoinPieces
  <2> QED
    BY <1>15, <2>1 DEF Follows
<1>18. n \in Nat /\ k \in Nat /\ l \in Nat /\ Len(emitted) \in Nat
  BY <1>6, <1>9, <1>14, <1>15, LenProperties DEF TypeOK
<1>19. all = [i \in 1 .. Len(emitted) |-> Piece(emitted[i])]
  BY <1>14, <1>15 DEF PiecesOf
<1>20. Len(all) = Len(emitted)
  <2>1. all \in Seq(Seq(Nat))
    BY <1>14, <1>15, <1>16, JoinPieces
  <2>2. DOMAIN all = 1 .. Len(emitted) /\ DOMAIN all = 1 .. Len(all) /\ Len(all) \in Nat
    BY <1>19, <2>1, LenProperties
  <2> QED
    BY <1>18, <2>2
<1>21. n + k <= Len(emitted)
  BY <1>16, <1>17, <1>18, <1>20
<1>22. ASSUME NEW j \in 1 .. k PROVE cut.done[j] = Piece(emitted[n + j])
  <2>1. n + j \in 1 .. n + k /\ n + j \in 1 .. Len(emitted)
    BY <1>18, <1>21
  <2>2. new[n + j] = cut.done[j] /\ all[n + j] = new[n + j]
    BY <1>16, <1>17, <2>1
  <2>3. all[n + j] = Piece(emitted[n + j])
    BY <1>19, <2>1
  <2> QED
    BY <2>2, <2>3
<1>23. Len(Cut(s, Limit).done) = n + k
  BY <1>10, <1>15, <1>16
<1>24. n \in 0 .. Len(emitted)
  BY <1>18, <1>21
<1> QED
  BY <1>1, <1>2, <1>3, <1>5, <1>6, <1>7, <1>9, <1>10, <1>15, <1>21, <1>22, <1>23, <1>24

(* What the host makes of the first n events.                              *)
Arrives(m) == IF setup.format = "cobs" THEN Sent(m) ELSE Meant(m)
Arrivals(n) == [k \in 1 .. n |-> Arrives(emitted[k])]

(* The host has decoded the events whose pieces it has read; or it gave up *)
(* at a frame from which something is missing.                             *)
HostAt(n) ==
    /\ decoded = Arrivals(n)
    /\ codec.ok => codec.buf = Heard.rest /\ n = Len(Heard.done)
    /\ ~codec.ok => setup.format = "cobs" /\ \E k \in 1 .. Len(emitted) : ~Whole(emitted[k])

HostOK == Clear => \E n \in 0 .. Len(emitted) : HostAt(n)

(* What has arrived after more pieces.                                     *)
LEMMA ArrivalsGrow ==
    ASSUME NEW n \in Nat, NEW l \in Nat, NEW ss,
           ss = [j \in 1 .. l |-> <<Arrives(emitted[n + j])>>]
    PROVE  Arrivals(n) \o FlattenSeq(ss) = Arrivals(n + l)
<1> DEFINE X == {Arrives(emitted[k]) : k \in 1 .. n + l}
<1>1. PICK s, a, b : /\ s = [j \in 1 .. l |-> Arrives(emitted[n + j])]
                     /\ a = Arrivals(n) /\ b = Arrivals(n + l)
  OBVIOUS
<1>2. /\ a = [k \in 1 .. n |-> Arrives(emitted[k])]
      /\ b = [k \in 1 .. n + l |-> Arrives(emitted[k])]
  BY <1>1 DEF Arrivals
<1>3. /\ \A j \in 1 .. l : n + j \in 1 .. n + l /\ n + j \in Nat
      /\ \A k \in 1 .. n : k \in 1 .. n + l
      /\ n + l \in Nat
  OBVIOUS
<1>4. /\ \A j \in 1 .. l : Arrives(emitted[n + j]) \in X
      /\ \A k \in 1 .. n + l : Arrives(emitted[k]) \in X
  BY <1>3
<1> HIDE DEF X
<1>5. s \in [1 .. l -> X] /\ a \in [1 .. n -> X] /\ b \in [1 .. n + l -> X]
  BY <1>1, <1>2, <1>3, <1>4
<1>6. s \in Seq(X) /\ a \in Seq(X) /\ b \in Seq(X)
  BY <1>3, <1>5, SeqDef
<1>7. Len(s) = l /\ Len(a) = n /\ Len(b) = n + l
  BY <1>3, <1>5, <1>6, LenProperties
<1>8. /\ ss \in [1 .. l -> Seq(X)] /\ \A j \in 1 .. l : ss[j] = <<s[j]>>
  <2>1. \A j \in 1 .. l : ss[j] = <<s[j]>> /\ s[j] \in X
    BY <1>1, <1>5
  <2>2. \A j \in 1 .. l : <<s[j]>> \in Seq(X)
    BY <2>1
  <2> QED
    BY <2>1, <2>2
<1>9. ss \in Seq(Seq(X)) /\ Len(ss) = l
  <2>1. ss \in Seq(Seq(X))
    <3>1. PICK Y : Y = Seq(X)
      OBVIOUS
    <3>2. ss \in [1 .. l -> Y]
      BY <1>8, <3>1
    <3>3. ss \in Seq(Y)
      BY <3>2, SeqDef
    <3> QED
      BY <3>1, <3>3
  <2> QED
    BY <1>8, <2>1, LenProperties
<1>10. FlattenSeq(ss) = s
  BY <1>6, <1>7, <1>8, <1>9, FlattenOnes
<1>11. PICK c : c = a ++ s
  OBVIOUS
<1>12. c \in Seq(X) /\ Follows(c, a, s)
  BY <1>6, <1>11, JoinAt
<1>13. /\ Len(c) = n + l
       /\ \A i \in 1 .. n : c[i] = a[i]
       /\ \A j \in 1 .. l : c[n + j] = s[j]
  BY <1>7, <1>12 DEF Follows
<1>14. ASSUME NEW i \in 1 .. n + l PROVE c[i] = b[i]
  <2>1. CASE i \in 1 .. n
    BY <1>2, <1>3, <1>13, <2>1
  <2>2. CASE i \notin 1 .. n
    <3>1. PICK j : j = i - n
      OBVIOUS
    <3>2. j \in 1 .. l /\ i = n + j
      BY <2>2, <3>1
    <3>3. s[j] = Arrives(emitted[n + j])
      BY <1>1, <3>2
    <3>4. b[i] = Arrives(emitted[i])
      BY <1>2
    <3> QED
      BY <1>13, <3>2, <3>3, <3>4
  <2> QED
    BY <2>1, <2>2
<1>15. c = b
  BY <1>6, <1>7, <1>12, <1>13, <1>14, SeqEqual
<1> QED
  BY <1>1, <1>10, <1>11, <1>15 DEF ++

(* What the host does not read changes nothing for it.                     *)
LEMMA HostStays ==
    ASSUME TypeOK, HostOK, setup' = setup, codec' = codec, decoded' = decoded, Heard' = Heard,
           emitted' = emitted \/ \E m \in Messages : emitted' = Append(emitted, m)
    PROVE  HostOK'
<1>1. PICK old, new : old = emitted /\ new = emitted'
  OBVIOUS
<1>2. Len(old) \in Nat /\ Len(new) \in Nat /\ Len(old) <= Len(new)
      /\ \A k \in 1 .. Len(old) : new[k] = old[k]
  <2>1. old \in Seq(Messages) /\ Len(old) \in Nat
    BY <1>1, LenProperties DEF TypeOK
  <2>2. CASE new = old
    BY <2>1, <2>2
  <2>3. CASE \E m \in Messages : new = Append(old, m)
    <3>1. PICK m \in Messages : new = Append(old, m)
      BY <2>3
    <3>2. Len(new) = Len(old) + 1 /\ \A k \in 1 .. Len(old) : new[k] = old[k]
      BY <2>1, <3>1, AppendProperties
    <3> QED
      BY <2>1, <3>2
  <2> QED
    BY <1>1, <2>2, <2>3
<1>3. \A k \in 1 .. Len(old) : k \in 1 .. Len(new)
  BY <1>2
<1>4. ASSUME Clear' PROVE Clear
  <2>1. Orderly
    BY <1>4 DEF Clear, Orderly, CallsStayWhole
  <2>2. ASSUME setup.format = "text", NEW k \in 1 .. Len(old) PROVE Plain(old[k])
    <3>1. \A i \in 1 .. Len(new) : Plain(new[i])
      BY <1>1, <1>4, <2>2 DEF Clear
    <3> QED
      BY <1>2, <1>3, <3>1
  <2> QED
    BY <1>1, <2>1, <2>2 DEF Clear
<1>5. ASSUME Clear' PROVE (\E n \in 0 .. Len(emitted) : HostAt(n))'
  <2>1. PICK n \in 0 .. Len(emitted) : HostAt(n)
    BY <1>4, <1>5 DEF HostOK
  <2>2. n \in 0 .. Len(new) /\ \A k \in 1 .. n : k \in 1 .. Len(old)
    BY <1>1, <1>2
  <2>3. Arrivals(n)' = Arrivals(n)
    <3>1. Arrivals(n)' = [k \in 1 .. n |-> Arrives(new[k])]
      BY <1>1 DEF Arrivals, Arrives, Meant
    <3>2. Arrivals(n) = [k \in 1 .. n |-> Arrives(old[k])]
      BY <1>1 DEF Arrivals
    <3>3. \A k \in 1 .. n : Arrives(new[k]) = Arrives(old[k])
      BY <1>2, <2>2
    <3> QED
      BY <3>1, <3>2, <3>3
  <2>4. (\E k \in 1 .. Len(old) : ~Whole(old[k])) => \E k \in 1 .. Len(new) : ~Whole(new[k])
    BY <1>2, <1>3
  <2>5. HostAt(n)'
    BY <1>1, <2>1, <2>3, <2>4 DEF HostAt
  <2> QED
    BY <1>1, <2>2, <2>5
<1> QED
  BY <1>5 DEF HostOK

(* A chunk of frames keeps the host in step, or ends the decoding.         *)
LEMMA FeedCobsStep ==
    ASSUME TypeOK, CallsOK, StreamOK, HostOK, ReadChunk, setup.format = "cobs"
    PROVE  HostOK'
<1>1. PICK upto, chunk :
        /\ upto \in got + 1 .. Len(pipe)
        /\ chunk = SubSeq(pipe, got + 1, upto) /\ FeedCobs(chunk) /\ got' = upto
  BY DEF ReadChunk
<1>2. codec.ok /\ UNCHANGED <<setup, thread, lock, begun, pipe, emitted>>
  BY ReadChunkSets
<1>3. Clear' = Clear
  BY <1>2 DEF Clear, Orderly, CallsStayWhole
<1>4. SUFFICES ASSUME Clear PROVE \E n \in 0 .. Len(emitted) : HostAt(n)'
  BY <1>2, <1>3 DEF HostOK
<1>5. PICK n \in 0 .. Len(emitted) : HostAt(n)
  BY <1>4 DEF HostOK
<1>6. decoded = Arrivals(n) /\ codec.buf = Heard.rest /\ n = Len(Heard.done)
  BY <1>2, <1>5 DEF HostAt
<1>7. upto \in got .. Len(pipe)
  <2>1. Len(pipe) \in Nat /\ got \in 0 .. Len(pipe)
    BY LenProperties DEF TypeOK
  <2> QED
    BY <1>1, <2>1
<1>8. PICK cut, l : cut = Cut(Heard.rest ++ chunk, Limit) /\ l = Len(cut.done)
  OBVIOUS
<1>9. /\ cut.done \in Seq(Seq(Nat)) /\ n + l <= Len(emitted)
      /\ \A j \in 1 .. l : cut.done[j] = Piece(emitted[n + j])
      /\ Cut(Read(upto), Limit).rest = cut.rest
      /\ Len(Cut(Read(upto), Limit).done) = n + l
  BY <1>1, <1>4, <1>6, <1>7, <1>8, Hears DEF Clear
<1>10. l \in Nat /\ n \in Nat /\ DOMAIN cut.done = 1 .. l /\ Len(emitted) \in Nat
  BY <1>8, <1>9, LenProperties DEF TypeOK
<1>11. PICK results : results = [k \in 1 .. l |-> DecodeFrame(cut.done[k])]
  OBVIOUS
<1>12. \A j \in 1 .. l : n + j \in 1 .. Len(emitted)
  BY <1>9, <1>10
<1>13. \A j \in 1 .. l : results[j] = IF Whole(emitted[n + j])
                                      THEN Success(<<Sent(emitted[n + j])>>) ELSE Failure
  <2>1. SUFFICES ASSUME NEW j \in 1 .. l
                 PROVE  results[j] = IF Whole(emitted[n + j])
                                     THEN Success(<<Sent(emitted[n + j])>>) ELSE Failure
    OBVIOUS
  <2>2. PICK m : m = emitted[n + j]
    OBVIOUS
  <2>3. m \in Messages /\ Payload(m) # <<>>
    <3>1. m \in Messages
      BY <1>12, <2>2, ElementOfSeq DEF TypeOK
    <3>2. Sendable(m)
      BY <1>4, <1>12, <2>2 DEF StreamOK, Clear
    <3> QED
      BY <3>1, <3>2 DEF Sendable
  <2>4. results[j] = DecodeFrame(Body(m))
    BY <1>9, <1>11, <2>2 DEF Piece
  <2>5. DecodeFrame(Body(m)) = IF Whole(m) THEN Success(<<Sent(m)>>) ELSE Failure
    BY <2>3, FrameOf
  <2> QED
    BY <2>2, <2>4, <2>5
<1>14. codec.buf \o chunk = Heard.rest ++ chunk
  BY <1>6 DEF ++
<1>15. IF \A k \in 1 .. l : results[k].ok
       THEN /\ codec' = [codec EXCEPT !.buf = cut.rest]
            /\ decoded' = decoded \o FlattenSeq([k \in 1 .. l |-> results[k].data])
       ELSE codec' = [codec EXCEPT !.ok = FALSE] /\ decoded' = decoded
  <2>1. PICK c : c = codec.buf \o chunk
    OBVIOUS
  <2>2. cut = Cut(c, Delim)
    BY <1>8, <1>14, <2>1 DEF Limit
  <2>3. results = [k \in DOMAIN cut.done |-> DecodeFrame(cut.done[k])] /\ DOMAIN results = 1 .. l
    BY <1>10, <1>11
  <2> QED
    BY <1>1, <2>1, <2>2, <2>3 DEF FeedCobs
<1>16. PICK buf : codec = [buf |-> buf, ok |-> TRUE]
  <2>1. codec = [buf |-> codec.buf, ok |-> codec.ok]
    BY DEF TypeOK
  <2>2. codec.ok = TRUE
    BY <1>2 DEF TypeOK
  <2> QED
    BY <2>1, <2>2
<1>17. \A k : Arrivals(k)' = Arrivals(k)
  BY <1>2 DEF Arrivals, Arrives, Meant
<1>18. CASE \A k \in 1 .. l : results[k].ok
  <2>1. PICK ss : ss = [j \in 1 .. l |-> <<Arrives(emitted[n + j])>>]
    OBVIOUS
  <2>2. ASSUME NEW j \in 1 .. l PROVE results[j].data = <<Arrives(emitted[n + j])>>
    <3>1. PICK m, r : m = emitted[n + j] /\ r = results[j]
      OBVIOUS
    <3>2. r = IF Whole(m) THEN Success(<<Sent(m)>>) ELSE Failure
      BY <1>13, <3>1
    <3>3. r.ok
      BY <1>18, <3>1
    <3>4. ~Failure.ok
      BY DEF Failure
    <3>5. r = Success(<<Sent(m)>>)
      BY <3>2, <3>3, <3>4
    <3>6. r.data = <<Sent(m)>>
      BY <3>5 DEF Success
    <3> QED
      BY <3>1, <3>6 DEF Arrives
  <2>3. [k \in 1 .. l |-> results[k].data] = ss
    BY <2>1, <2>2
  <2>4. decoded' = Arrivals(n) \o FlattenSeq(ss)
    BY <1>6, <1>15, <1>18, <2>3
  <2>5. decoded' = Arrivals(n + l)
    BY <1>10, <2>1, <2>4, ArrivalsGrow
  <2>6. codec' = [buf |-> cut.rest, ok |-> TRUE]
    <3>1. codec' = [codec EXCEPT !.buf = cut.rest]
      BY <1>15, <1>18
    <3>2. PICK rest : rest = cut.rest
      OBVIOUS
    <3>3. codec' = [buf |-> rest, ok |-> TRUE]
      BY <1>16, <3>1, <3>2
    <3> QED
      BY <3>2, <3>3
  <2>7. codec'.ok = TRUE /\ codec'.buf = cut.rest
    BY <2>6
  <2>8. PICK h : h = Cut(Read(upto), Limit)
    OBVIOUS
  <2>9. Heard' = h
    BY <1>1, <1>2, <2>8 DEF Heard, Read, Limit
  <2>10. codec'.buf = h.rest /\ n + l = Len(h.done)
    BY <1>9, <2>7, <2>8
  <2>11. HostAt(n + l)'
    BY <1>17, <2>5, <2>7, <2>9, <2>10 DEF HostAt
  <2>12. n + l \in 0 .. Len(emitted)
    BY <1>9, <1>10
  <2> QED
    BY <2>11, <2>12
<1>19. CASE \E k \in 1 .. l : ~results[k].ok
  <2>1. PICK j \in 1 .. l : ~results[j].ok
    BY <1>19
  <2>2. ~Whole(emitted[n + j])
    <3>1. PICK m, r : m = emitted[n + j] /\ r = results[j]
      OBVIOUS
    <3>2. r = IF Whole(m) THEN Success(<<Sent(m)>>) ELSE Failure
      BY <1>13, <3>1
    <3>3. Success(<<Sent(m)>>).ok
      BY DEF Success
    <3> QED
      BY <2>1, <3>1, <3>2, <3>3
  <2>3. \E k \in 1 .. Len(emitted) : ~Whole(emitted[k])
    BY <1>12, <2>1, <2>2
  <2>4. codec' = [codec EXCEPT !.ok = FALSE] /\ decoded' = decoded
    BY <1>15, <1>19
  <2>5. codec' = [buf |-> buf, ok |-> FALSE]
    BY <1>16, <2>4
  <2>6. codec'.ok = FALSE
    BY <2>5
  <2>8. (\E k \in 1 .. Len(emitted) : ~Whole(emitted[k]))'
    BY <1>2, <2>3
  <2>9. HostAt(n)'
    BY <1>2, <1>6, <1>17, <2>4, <2>6, <2>8 DEF HostAt
  <2> QED
    BY <2>9
<1> QED
  BY <1>18, <1>19

-----------------------------------------------------------------------------
(* Lines: what the host's parser finds of what the harness printed.        *)

(* The least element of a set.                                             *)
LEMMA MinIs ==
    ASSUME NEW S, NEW n \in S, n \in Nat, \A k \in S : k \in Nat /\ n <= k
    PROVE  Min(S) = n
<1>1. \A k \in S : (\A y \in S : k <= y) => k = n
  <2>1. ASSUME NEW k \in S, \A y \in S : k <= y PROVE k = n
    <3>1. k <= n /\ n <= k /\ k \in Nat
      BY <2>1
    <3> QED
      BY <3>1
  <2> QED
    BY <2>1
<1> QED
  BY <1>1 DEF Min

(* The greatest element of a set.                                          *)
LEMMA MaxIs ==
    ASSUME NEW S, NEW n \in S, n \in Nat, \A k \in S : k \in Nat /\ k <= n
    PROVE  Max(S) = n
<1>1. \A k \in S : (\A y \in S : k >= y) => k = n
  <2>1. ASSUME NEW k \in S, \A y \in S : k >= y PROVE k = n
    <3>1. k <= n /\ k >= n /\ k \in Nat
      BY <2>1
    <3> QED
      BY <3>1
  <2> QED
    BY <2>1
<1>2. \A y \in S : n >= y
  OBVIOUS
<1> QED
  BY <1>1, <1>2 DEF Max

FirstDot(s, n) == n \in 1 .. Len(s) /\ s[n] = Dot /\ \A i \in 1 .. n - 1 : s[i] # Dot
FirstSpace(s, n) == n \in 1 .. Len(s) /\ s[n] = Space /\ \A i \in 1 .. n - 1 : ~White(s[i])

(* split_once at the first dot.                                            *)
LEMMA DotSplits ==
    ASSUME NEW s \in Seq(Nat), NEW n, FirstDot(s, n)
    PROVE  /\ HasDot(s) /\ SuiteOf(s) = SubSeq(s, 1, n - 1)
           /\ LeafOf(s) = SubSeq(s, n + 1, Len(s))
<1>1. PICK at : at = {k \in DOMAIN s : s[k] = Dot}
  OBVIOUS
<1>2. DOMAIN s = 1 .. Len(s) /\ Len(s) \in Nat
  BY LenProperties
<1>3. n \in at /\ n \in Nat
  BY <1>1, <1>2 DEF FirstDot
<1>4. ASSUME NEW k \in at PROVE k \in Nat /\ n <= k
  <2>1. k \in 1 .. Len(s) /\ s[k] = Dot
    BY <1>1, <1>2
  <2>2. k \notin 1 .. n - 1
    BY <2>1 DEF FirstDot
  <2> QED
    BY <1>2, <1>3, <2>1, <2>2
<1>5. Min(at) = n /\ at # {}
  BY <1>3, <1>4, MinIs
<1>6. SuiteOf(s) = SubSeq(s, 1, n - 1)
  BY <1>1, <1>5 DEF SuiteOf, First
<1>7. LeafOf(s) = SubSeq(s, n + 1, Len(s))
  BY <1>1, <1>5 DEF LeafOf, First
<1>8. HasDot(s)
  BY <1>1, <1>3 DEF HasDot
<1> QED
  BY <1>6, <1>7, <1>8

(* A blank that is no part of a keyword.                                   *)
LEMMA SpaceIs == Blank(Space) /\ White(Space) /\ Space \notin Keywords
BY Sizes DEF Blank, White, Space, Keywords, Keyword, PassK

(* split_once and split_whitespace at the first blank.                     *)
LEMMA SpaceSplits ==
    ASSUME NEW s \in Seq(Nat), NEW n, FirstSpace(s, n)
    PROVE  /\ First(s, Blank) = n /\ n # 0
           /\ Token(s, Blank) = SubSeq(s, 1, n - 1) /\ Token(s, White) = SubSeq(s, 1, n - 1)
           /\ AfterToken(s, Blank) = SubSeq(s, n + 1, Len(s))
           /\ AfterToken(s, White) = SubSeq(s, n + 1, Len(s))
<1>1. PICK blanks, whites : /\ blanks = {k \in DOMAIN s : Blank(s[k])}
                            /\ whites = {k \in DOMAIN s : White(s[k])}
  OBVIOUS
<1>2. DOMAIN s = 1 .. Len(s) /\ Len(s) \in Nat
  BY LenProperties
<1>3. n \in 1 .. Len(s) /\ s[n] = Space /\ \A i \in 1 .. n - 1 : ~White(s[i])
  BY DEF FirstSpace
<1>4. n \in blanks /\ n \in whites /\ n \in Nat
  BY <1>1, <1>2, <1>3, SpaceIs
<1>5. blanks \subseteq whites
  BY <1>1 DEF White
<1>6. ASSUME NEW k \in whites PROVE k \in Nat /\ n <= k
  <2>1. k \in 1 .. Len(s) /\ White(s[k])
    BY <1>1, <1>2
  <2>2. k \notin 1 .. n - 1
    BY <1>3, <2>1
  <2> QED
    BY <1>2, <1>3, <2>1, <2>2
<1>7. Min(blanks) = n /\ blanks # {} /\ Min(whites) = n /\ whites # {}
  BY <1>4, <1>5, <1>6, MinIs
<1>8. First(s, Blank) = n /\ First(s, White) = n
  BY <1>1, <1>7 DEF First
<1>9. n # 0 /\ s[n] \notin Keywords
  BY <1>2, <1>3, SpaceIs
<1>10. Token(s, Blank) = SubSeq(s, 1, n - 1) /\ Token(s, White) = SubSeq(s, 1, n - 1)
  BY <1>8, <1>9 DEF Token
<1>11. /\ AfterToken(s, Blank) = SubSeq(s, n + 1, Len(s))
       /\ AfterToken(s, White) = SubSeq(s, n + 1, Len(s))
  BY <1>8, <1>9 DEF AfterToken
<1> QED
  BY <1>8, <1>9, <1>10, <1>11

(* split_once where there is no blank.                                     *)
LEMMA NoBlank ==
    ASSUME NEW s \in Seq(Nat), \A i \in 1 .. Len(s) : ~Blank(s[i])
    PROVE  First(s, Blank) = 0
<1>1. PICK at : at = {k \in DOMAIN s : Blank(s[k])}
  OBVIOUS
<1>2. DOMAIN s = 1 .. Len(s)
  BY LenProperties
<1>3. at = {}
  BY <1>1, <1>2
<1> QED
  BY <1>1, <1>3 DEF First

(* Taking a concatenation apart.                                           *)
LEMMA JoinSplits ==
    ASSUME NEW X, NEW a \in Seq(X), NEW b \in Seq(X)
    PROVE  /\ SubSeq(a ++ b, 1, Len(a)) = a
           /\ SubSeq(a ++ b, Len(a) + 1, Len(a ++ b)) = b
<1>1. PICK c, n, l : c = a ++ b /\ n = Len(a) /\ l = Len(c)
  OBVIOUS
<1>2. c \in Seq(X) /\ Follows(c, a, b)
  BY <1>1, JoinAt
<1>3. n \in Nat /\ l \in Nat /\ Len(b) \in Nat /\ l = n + Len(b) /\ n \in 0 .. Len(c)
  BY <1>1, <1>2, LenProperties DEF Follows
<1>4. PICK x, y : x = SubSeq(c, 1, n) /\ y = SubSeq(c, n + 1, l)
  OBVIOUS
<1>5. x \in Seq(X) /\ y \in Seq(X) /\ Len(x) = n /\ Len(y) = l - n /\ x ++ y = c
  <2>1. y = SubSeq(c, n + 1, Len(c)) /\ l = Len(c)
    BY <1>1, <1>4
  <2> QED
    BY <1>2, <1>3, <1>4, <2>1, SplitAt
<1>6. Follows(c, x, y)
  BY <1>5, JoinAt
<1>7. Len(y) = Len(b)
  BY <1>3, <1>5
<1>8. \A i \in 1 .. n : x[i] = a[i]
  BY <1>1, <1>2, <1>5, <1>6 DEF Follows
<1>9. \A j \in 1 .. Len(b) : y[j] = b[j]
  BY <1>1, <1>2, <1>5, <1>6, <1>7 DEF Follows
<1>10. x = a
  BY <1>1, <1>5, <1>8, SeqEqual
<1>11. y = b
  BY <1>5, <1>7, <1>9, SeqEqual
<1> QED
  BY <1>1, <1>4, <1>10, <1>11

(* Head and tail of a line.                                                *)
LEMMA HeadJoin ==
    ASSUME NEW X, NEW e \in X, NEW s \in Seq(X)
    PROVE  /\ <<e>> ++ s \in Seq(X) /\ <<e>> ++ s # <<>>
           /\ Head(<<e>> ++ s) = e /\ Tail(<<e>> ++ s) = s
<1>1. PICK one, c : one = <<e>> /\ c = one ++ s
  OBVIOUS
<1>2. one \in Seq(X) /\ Len(one) = 1 /\ one[1] = e
  BY <1>1
<1>3. c \in Seq(X) /\ Follows(c, one, s) /\ Len(s) \in Nat
  BY <1>1, <1>2, JoinAt, LenProperties
<1>4. Len(c) = 1 + Len(s) /\ c[1] = e
  BY <1>2, <1>3 DEF Follows
<1>5. c # <<>>
  BY <1>3, <1>4, EmptySeq
<1>6. Head(c) = e /\ Tail(c) = SubSeq(c, 2, Len(c))
  BY <1>3, <1>4, <1>5, HeadTailProperties
<1>7. SubSeq(c, Len(one) + 1, Len(c)) = s
  BY <1>1, <1>2, JoinSplits
<1> QED
  BY <1>1, <1>2, <1>3, <1>5, <1>6, <1>7

Blanks == {Space} \cup Keywords
Letters == Symbols \ Blanks
Broken == {Lead, Cont}

(* What Plain says of the names and the text.                              *)
LEMMA PlainNames ==
    ASSUME NEW m \in Messages, Plain(m)
    PROVE  /\ m.suite \in Seq(Letters) /\ m.group \in Seq(Letters) /\ m.name \in Seq(Letters)
           /\ m.file \in Seq(Letters)
           /\ m.suite \in Seq(Symbols \ Broken) /\ m.group \in Seq(Symbols \ Broken)
           /\ m.name \in Seq(Symbols \ Broken) /\ m.file \in Seq(Symbols \ Broken)
           /\ m.text \in Seq(Symbols \ Broken) /\ m.text \in Seq(Symbols)
           /\ \A i \in 1 .. Len(m.suite) : m.suite[i] # Dot
<1>1. /\ m.suite \in Seq(1 .. Full) /\ m.group \in Seq(1 .. Full) /\ m.name \in Seq(1 .. Full)
      /\ m.file \in Seq(1 .. Full) /\ m.text \in Seq(1 .. Full)
  BY MessageType DEF Text
<1>2. \A c \in 1 .. Full :
         /\ c \notin Unprintable => c \in Symbols /\ c \notin Broken
         /\ c \notin Unprintable /\ c # Space /\ c # PassK => c \in Letters
  BY Sizes DEF Unprintable, Symbols, Letters, Blanks, Broken, Keywords, Keyword
<1>3. ASSUME NEW s \in {m.suite, m.group, m.name, m.file}
      PROVE  s \in Seq(Letters) /\ s \in Seq(Symbols \ Broken)
  <2>1. s \in Seq(1 .. Full)
    BY <1>1
  <2>2. \A k \in DOMAIN s : s[k] \in 1 .. Full /\ s[k] \notin Unprintable \cup {Space, PassK}
    <3>1. \A k \in DOMAIN s : s[k] \in 1 .. Full
      BY <2>1, LenProperties, ElementOfSeq
    <3> QED
      BY <3>1 DEF Plain
  <2>3. \A k \in DOMAIN s : s[k] \in Letters /\ s[k] \in Symbols \ Broken
    BY <1>2, <2>2
  <2> QED
    BY <2>1, <2>3, Retype
<1>4. m.text \in Seq(Symbols \ Broken) /\ m.text \in Seq(Symbols)
  <2>1. PICK s : s = m.text
    OBVIOUS
  <2>2. \A k \in DOMAIN s : s[k] \in 1 .. Full /\ s[k] \notin Unprintable
    <3>1. \A k \in DOMAIN s : s[k] \in 1 .. Full
      BY <1>1, <2>1, LenProperties, ElementOfSeq
    <3> QED
      BY <2>1, <3>1 DEF Plain
  <2>3. \A k \in DOMAIN s : s[k] \in Symbols \ Broken /\ s[k] \in Symbols
    BY <1>2, <2>2
  <2> QED
    BY <1>1, <2>1, <2>3, Retype
<1>5. \A i \in 1 .. Len(m.suite) : m.suite[i] # Dot
  <2>1. DOMAIN m.suite = 1 .. Len(m.suite)
    BY <1>1, LenProperties
  <2> QED
    BY <2>1 DEF Plain, HasDot
<1> QED
  BY <1>3, <1>4, <1>5

(* The symbols of plain names.                                             *)
LEMMA LettersAre ==
    /\ Dot \in Letters /\ Location \in Letters /\ Concatenates(Seq(Letters))
    /\ \A s \in Seq(Letters) : s \in Seq(Symbols) /\ s \in Seq(Nat)
    /\ \A x \in Letters : ~White(x) /\ ~Blank(x) /\ x \notin {Space, Return}
    /\ \A s \in Seq(Letters) : \A i \in 1 .. Len(s) : ~White(s[i]) /\ ~Blank(s[i])
<1>1. Dot \in Letters /\ Location \in Letters
  BY Sizes DEF Letters, Symbols, Blanks, Keywords, Keyword, PassK, Newline, Return, Dot, Space,
               Location
<1>2. Concatenates(Seq(Letters))
  BY JoinsOf
<1>3. Letters \subseteq Symbols /\ Letters \subseteq Nat
  BY DEF Letters, Symbols
<1>4. \A s \in Seq(Letters) : s \in Seq(Symbols) /\ s \in Seq(Nat)
  BY <1>3, SeqMonotonic
<1>5. \A x \in Letters : ~White(x) /\ ~Blank(x) /\ x \notin {Space, Return}
  BY DEF Letters, Symbols, Blanks, Blank, White
<1>6. \A s \in Seq(Letters) : \A i \in 1 .. Len(s) : ~White(s[i]) /\ ~Blank(s[i])
  BY <1>5, ElementOfSeq
<1> QED
  BY <1>1, <1>2, <1>4, <1>5, <1>6

(* split_once('.') finds the suite.                                        *)
LEMMA CaseIdSplits ==
    ASSUME NEW m \in Messages, Plain(m)
    PROVE  /\ CaseId(m) \in Seq(Letters) /\ HasDot(CaseId(m)) /\ SuiteOf(CaseId(m)) = m.suite
           /\ LeafOf(CaseId(m)) = m.group \o <<Dot>> \o m.name
<1>1. PICK su, gr, na, dot : su = m.suite /\ gr = m.group /\ na = m.name /\ dot = <<Dot>>
  OBVIOUS
<1>2. /\ su \in Seq(Letters) /\ gr \in Seq(Letters) /\ na \in Seq(Letters)
      /\ \A i \in 1 .. Len(su) : su[i] # Dot
  BY <1>1, PlainNames
<1>3. dot \in Seq(Letters) /\ Len(dot) = 1 /\ dot[1] = Dot
  BY <1>1, LettersAre
<1>4. Concatenates(Seq(Letters))
  BY LettersAre
<1>5. PICK w, x, y, z, v, leaf : /\ w = su ++ dot /\ x = w ++ gr /\ y = x ++ dot /\ z = y ++ na
                                 /\ v = gr ++ dot /\ leaf = v ++ na
  OBVIOUS
<1>6. CaseId(m) = z
  BY <1>1, <1>5 DEF CaseId, ++
<1>7. m.group \o <<Dot>> \o m.name = leaf
  BY <1>1, <1>5 DEF ++
<1>8. /\ w \in Seq(Letters) /\ x \in Seq(Letters) /\ y \in Seq(Letters) /\ z \in Seq(Letters)
      /\ v \in Seq(Letters) /\ leaf \in Seq(Letters)
  BY <1>2, <1>3, <1>4, <1>5 DEF Concatenates
<1>9. z = w ++ leaf
  <2>1. y = w ++ v
    BY <1>2, <1>3, <1>4, <1>5, <1>8 DEF Concatenates
  <2> QED
    BY <1>2, <1>4, <1>5, <1>8, <2>1 DEF Concatenates
<1>10. PICK tail : tail = dot ++ leaf
  OBVIOUS
<1>11. tail \in Seq(Letters) /\ z = su ++ tail
  BY <1>2, <1>3, <1>4, <1>5, <1>8, <1>9, <1>10 DEF Concatenates
<1>12. PICK n : n = Len(su)
  OBVIOUS
<1>13. n \in Nat /\ Len(w) = n + 1 /\ \A i \in 1 .. n : w[i] = su[i]
  <2>1. Follows(w, su, dot)
    BY <1>2, <1>3, <1>5, JoinAt
  <2> QED
    BY <1>2, <1>3, <1>12, <2>1, LenProperties DEF Follows
<1>14. w[n + 1] = Dot
  <2>1. Follows(w, su, dot)
    BY <1>2, <1>3, <1>5, JoinAt
  <2> QED
    BY <1>3, <1>12, <2>1 DEF Follows
<1>15. /\ Len(z) = n + 1 + Len(leaf) /\ Len(leaf) \in Nat
       /\ \A i \in 1 .. n + 1 : z[i] = w[i]
  <2>1. Follows(z, w, leaf)
    BY <1>8, <1>9, JoinAt
  <2> QED
    BY <1>8, <1>13, <2>1, LenProperties DEF Follows
<1>16. FirstDot(z, n + 1)
  <2>1. n + 1 \in 1 .. Len(z) /\ n + 1 \in 1 .. n + 1
    BY <1>13, <1>15
  <2>2. z[n + 1] = Dot
    BY <1>14, <1>15, <2>1
  <2>3. ASSUME NEW i \in 1 .. (n + 1) - 1 PROVE z[i] # Dot
    <3>1. i \in 1 .. n /\ i \in 1 .. n + 1
      BY <1>13
    <3> QED
      BY <1>2, <1>12, <1>13, <1>15, <3>1
  <2> QED
    BY <2>1, <2>2, <2>3 DEF FirstDot
<1>17. z \in Seq(Nat)
  BY <1>8, LettersAre
<1>18. HasDot(z) /\ SuiteOf(z) = SubSeq(z, 1, (n + 1) - 1) /\ LeafOf(z) = SubSeq(z, (n + 1) + 1, Len(z))
  BY <1>16, <1>17, DotSplits
<1>19. (n + 1) - 1 = Len(su) /\ n + 1 = Len(w)
  BY <1>12, <1>13
<1>20. SubSeq(z, 1, Len(su)) = su
  BY <1>2, <1>11, JoinSplits
<1>21. SubSeq(z, Len(w) + 1, Len(z)) = leaf
  BY <1>8, <1>9, JoinSplits
<1> QED
  BY <1>1, <1>6, <1>7, <1>8, <1>18, <1>19, <1>20, <1>21

(* parse_text_line, by keyword.                                            *)
ParseCase(type, id, text, nums) ==
    IF HasDot(id) THEN <<CaseEvent(type, SuiteOf(id), LeafOf(id), text, nums)>> ELSE <<>>
Ended(suite, nums) == [NameEvent(SuiteEndT, suite) EXCEPT !.nums = nums]
Finished(nums) == [Nothing EXCEPT !.type = DoneT, !.nums = nums]

(* Keywords are distinct.                                                  *)
LEMMA KeysApart ==
    LET a == Keyword(SuiteStartT)  b == Keyword(CaseStartT)  c == Keyword(SuiteEndT)
        d == Keyword(DoneT)
    IN  /\ a # b /\ a # c /\ a # d /\ b # c /\ b # d /\ c # d
        /\ PassK \notin {a, b, c, d, SkipK, FailK} /\ SkipK \notin {a, b, c, d, FailK}
        /\ FailK \notin {a, b, c, d}
<1>1. /\ Keyword(SuiteStartT) = Full + 1 /\ Keyword(CaseStartT) = Full + 2
      /\ Keyword(SuiteEndT) = Full + 5 /\ Keyword(DoneT) = Full + 7 /\ PassK = 7
      /\ SkipK = Full + 6 /\ FailK = Full + 3
  BY DEF Keyword, SuiteStartT, CaseStartT, SuiteEndT, DoneT, PassK, SkipK, FailK, AssertFailT
<1> QED
  BY <1>1, Sizes

(* parse_text_line by keyword.                                             *)
LEMMA ParseIs ==
    ASSUME NEW line, NEW key, NEW rest, line # <<>>, Head(line) = key, Tail(line) = rest
    PROVE  /\ key = Keyword(SuiteStartT) => ParseText(line) = <<NameEvent(SuiteStartT, rest)>>
           /\ key = Keyword(CaseStartT) =>
                 ParseText(line) = ParseCase(CaseStartT, rest, <<>>, <<>>)
           /\ key = Keyword(SuiteEndT) =>
                 ParseText(line) = ParseSuiteEnd(rest)
           /\ key = Keyword(DoneT) => ParseText(line) = <<Finished(CountersIn(rest))>>
           /\ key = PassK => ParseText(line) = ParseCase(CaseEndT, rest, <<>>, <<PassedS>>)
           /\ key = SkipK => ParseText(line) = ParseCase(CaseEndT, rest, <<>>, <<SkippedS>>)
           /\ key = FailK /\ First(rest, Blank) = 0 =>
                 ParseText(line) = ParseCase(CaseEndT, rest, <<>>, <<FailedS>>)
           /\ key = FailK /\ First(rest, Blank) # 0 =>
                 ParseText(line) = ParseCase(AssertFailT, Token(rest, Blank),
                                             AfterToken(AfterToken(rest, Blank), Blank), <<0>>)
<1>1. PICK a, b, c, d : /\ a = Keyword(SuiteStartT) /\ b = Keyword(CaseStartT)
                        /\ c = Keyword(SuiteEndT) /\ d = Keyword(DoneT)
  OBVIOUS
<1>2. /\ a # b /\ a # c /\ a # d /\ b # c /\ b # d /\ c # d
      /\ PassK \notin {a, b, c, d, SkipK, FailK} /\ SkipK \notin {a, b, c, d, FailK}
      /\ FailK \notin {a, b, c, d}
  BY <1>1, KeysApart
<1>3. PICK pa, pb, pc, pd, pp, ps, pf, pg :
        /\ pa = <<NameEvent(SuiteStartT, rest)>>
        /\ pb = ParseCase(CaseStartT, rest, <<>>, <<>>)
        /\ pc = ParseSuiteEnd(rest)
        /\ pd = <<Finished(CountersIn(rest))>>
        /\ pp = ParseCase(CaseEndT, rest, <<>>, <<PassedS>>)
        /\ ps = ParseCase(CaseEndT, rest, <<>>, <<SkippedS>>)
        /\ pf = ParseCase(CaseEndT, rest, <<>>, <<FailedS>>)
        /\ pg = ParseCase(AssertFailT, Token(rest, Blank),
                          AfterToken(AfterToken(rest, Blank), Blank), <<0>>)
  OBVIOUS
<1>4. ParseText(line) =
         IF key = a THEN pa ELSE IF key = b THEN pb ELSE IF key = c THEN pc
         ELSE IF key = d THEN pd ELSE IF key = PassK THEN pp ELSE IF key = SkipK THEN ps
         ELSE IF key = FailK THEN IF First(rest, Blank) = 0 THEN pf ELSE pg ELSE <<>>
  BY <1>1, <1>3, Zenon DEF ParseText, ParseCase, Finished
<1>5. PICK f : f = First(rest, Blank)
  OBVIOUS
<1> QED
  BY <1>1, <1>2, <1>3, <1>4

(* The number and the kind can be told from the symbol of a counter.       *)
LEMMA CounterTells ==
    ASSUME NEW k \in 1 .. 3, NEW n \in Nat
    PROVE  /\ Counter(k, n) \in Nat /\ Counter(k, n) > Full + 10
           /\ Held(Counter(k, n)) = n
           /\ \A l \in 1 .. 3, i \in Nat : Counter(k, n) = Counter(l, i) => k = l /\ n = i
<1>1. Full \in Nat
  BY Sizes
<1>2. PICK c : c = Counter(k, n)
  OBVIOUS
<1>3. c = Full + 10 + 3 * n + k
  BY <1>2 DEF Counter
<1>4. c \in Nat /\ c > Full + 10
  BY <1>1, <1>3
<1>5. (c - Full - 11) \div 3 = n
  BY <1>1, <1>3
<1>6. ASSUME NEW l \in 1 .. 3, NEW i \in Nat, c = Counter(l, i) PROVE k = l /\ n = i
  <2>1. Full + 10 + 3 * n + k = Full + 10 + 3 * i + l
    BY <1>3, <1>6 DEF Counter
  <2> QED
    BY <1>1, <2>1
<1> QED
  BY <1>2, <1>4, <1>5, <1>6 DEF Held

(* The one counter of its kind is found.                                   *)
LEMMA CounterFound ==
    ASSUME NEW s, NEW k \in 1 .. 3, NEW n \in Nat, NEW j \in DOMAIN s, j \in Nat,
           s[j] = Counter(k, n),
           \A i \in DOMAIN s : s[i] > Full + 10 /\ s[i] = Counter(k, Held(s[i])) => i = j
    PROVE  CounterIn(s, k) = n
<1>1. PICK at : at = {i \in DOMAIN s : s[i] > Full + 10 /\ s[i] = Counter(k, Held(s[i]))}
  OBVIOUS
<1>2. Held(s[j]) = n /\ s[j] > Full + 10
  BY CounterTells
<1>3. j \in at
  BY <1>1, <1>2
<1>4. at # {} /\ \A i \in at : i = j
  BY <1>1, <1>3
<1>5. Max(at) = j
  <2>1. \A i \in at : i \in Nat /\ i <= j
    BY <1>4
  <2> QED
    BY <1>3, <2>1, MaxIs
<1> QED
  BY <1>1, <1>2, <1>4, <1>5 DEF CounterIn

CounterOf(m, k) == Counter(k, m.nums[k])
Spaced(s, m) ==
    /\ s[2] = Space /\ s[4] = Space
    /\ s[1] = CounterOf(m, 1) /\ s[3] = CounterOf(m, 2) /\ s[5] = CounterOf(m, 3)

(* All three counters are read back.                                       *)
LEMMA CountersFound ==
    ASSUME NEW m \in Messages, NEW s, DOMAIN s = 1 .. 5, Spaced(s, m)
    PROVE  CountersIn(s) = m.nums
<1>1. \A k \in 1 .. 3 : m.nums[k] \in Nat
  BY MessageType
<1>2. ASSUME NEW i \in 1 .. 5
      PROVE  \/ i \in {2, 4} /\ s[i] = Space
             \/ \E l \in 1 .. 3 : i = 2 * l - 1 /\ s[i] = CounterOf(m, l)
  <2>1. 1 = 2 * 1 - 1 /\ 3 = 2 * 2 - 1 /\ 5 = 2 * 3 - 1
    OBVIOUS
  <2>2. i = 1 \/ i = 2 \/ i = 3 \/ i = 4 \/ i = 5
    OBVIOUS
  <2>3. 1 \in 1 .. 3 /\ 2 \in 1 .. 3 /\ 3 \in 1 .. 3
    OBVIOUS
  <2> QED
    BY <2>1, <2>2, <2>3 DEF Spaced
<1>3. ASSUME NEW k \in 1 .. 3 PROVE CounterIn(s, k) = m.nums[k]
  <2>1. PICK n \in Nat, j \in 1 .. 5 : n = m.nums[k] /\ j = 2 * k - 1
    <3>1. 2 * k - 1 \in 1 .. 5
      OBVIOUS
    <3> QED
      BY <1>1, <3>1
  <2>2. s[j] = Counter(k, n)
    <3>1. (k = 1 /\ j = 1) \/ (k = 2 /\ j = 3) \/ (k = 3 /\ j = 5)
      BY <2>1
    <3> QED
      BY <2>1, <3>1 DEF Spaced, CounterOf
  <2>3. ASSUME NEW i \in 1 .. 5, s[i] > Full + 10, s[i] = Counter(k, Held(s[i])) PROVE i = j
    <3>1. CASE s[i] = Space
      BY <2>3, <3>1, Sizes DEF Space
    <3>2. ASSUME NEW l \in 1 .. 3, i = 2 * l - 1, s[i] = CounterOf(m, l) PROVE i = j
      <4>1. PICK x \in Nat : x = m.nums[l]
        BY <1>1
      <4>2. s[i] = Counter(l, x)
        BY <3>2, <4>1 DEF CounterOf
      <4>3. Held(s[i]) = x
        BY <4>2, CounterTells
      <4>4. Counter(l, x) = Counter(k, x)
        BY <2>3, <4>2, <4>3
      <4>5. l = k
        BY <4>4, CounterTells
      <4> QED
        BY <2>1, <3>2, <4>5
    <3> QED
      BY <1>2, <3>1, <3>2
  <2> QED
    BY <2>1, <2>2, <2>3, CounterFound
<1>4. PICK u : u = m.nums
  OBVIOUS
<1>5. u = [k \in 1 .. 3 |-> u[k]]
  BY <1>4, MessageType, LenProperties
<1> QED
  BY <1>3, <1>4, <1>5 DEF CountersIn

(* Where the counters are in a line.                                       *)
LEMMA CountersAre ==
    ASSUME NEW m \in Messages
    PROVE  LET c == Counters(m.nums)
           IN  /\ c \in Seq(Nat) /\ Len(c) = 6 /\ c[1] = Space
               /\ Tail(c) \in Seq(Nat) /\ Len(Tail(c)) = 5
               /\ \A i \in 1 .. 5 : Tail(c)[i] = c[1 + i]
               /\ Spaced(Tail(c), m)
<1>1. PICK a, b, d : a = CounterOf(m, 1) /\ b = CounterOf(m, 2) /\ d = CounterOf(m, 3)
  OBVIOUS
<1>2. PICK c, t : c = <<Space, a, Space, b, Space, d>> /\ t = Tail(c)
  OBVIOUS
<1>3. Counters(m.nums) = c
  BY <1>1, <1>2 DEF Counters, CounterOf
<1>4. c \in Seq(Nat) /\ Len(c) = 6 /\ t \in Seq(Nat) /\ Len(t) = 5
  BY <1>2, <1>3, CountersType, SymbolsAlphabet
<1>5. c[1] = Space /\ c[2] = a /\ c[3] = Space /\ c[4] = b /\ c[5] = Space /\ c[6] = d
  BY <1>2
<1>6. c # <<>>
  <2>1. Len(<<>>) = 0 /\ Len(c) # 0
    BY <1>4, EmptySeq
  <2> QED
    BY <2>1
<1>7. \A i \in 1 .. 5 : t[i] = c[1 + i]
  <2>1. \A i \in 1 .. Len(t) : t[i] = c[i + 1]
    BY <1>2, <1>4, <1>6, HeadTailProperties
  <2> QED
    BY <1>4, <2>1
<1>8. t[1] = a /\ t[2] = Space /\ t[3] = b /\ t[4] = Space /\ t[5] = d
  BY <1>5, <1>7
<1>9. Spaced(t, m)
  BY <1>1, <1>8 DEF Spaced
<1> QED
  BY <1>2, <1>3, <1>4, <1>5, <1>7, <1>9

(* A suite's name and its counters.                                        *)
LEMMA SuiteCounters ==
    ASSUME NEW m \in Messages, Plain(m), m.type = SuiteEndT
    PROVE  ParseSuiteEnd(m.suite ++ Counters(m.nums)) = <<Ended(m.suite, m.nums)>>
<1>1. PICK su, c, rest : su = m.suite /\ c = Counters(m.nums) /\ rest = su ++ c
  OBVIOUS
<1>2. su \in Seq(Letters) /\ su \in Seq(Nat) /\ su # <<>>
  BY <1>1, PlainNames, LettersAre DEF Plain
<1>3. c \in Seq(Nat) /\ Len(c) = 6 /\ c[1] = Space
  BY <1>1, CountersAre
<1>4. rest \in Seq(Nat) /\ Follows(rest, su, c)
  BY <1>1, <1>2, <1>3, JoinAt
<1>5. PICK n : n = Len(su)
  OBVIOUS
<1>6. /\ n \in Nat /\ n > 0 /\ Len(rest) = n + 6
      /\ \A i \in 1 .. n : rest[i] = su[i]
      /\ \A j \in 1 .. 6 : rest[n + j] = c[j]
  <2>1. n \in Nat /\ n # 0
    BY <1>2, <1>5, LenProperties, EmptySeq
  <2> QED
    BY <1>3, <1>4, <1>5, <2>1 DEF Follows
<1>7. FirstSpace(rest, n + 1)
  <2>1. n + 1 \in 1 .. Len(rest) /\ rest[n + 1] = Space
    BY <1>3, <1>6
  <2>2. ASSUME NEW i \in 1 .. (n + 1) - 1 PROVE ~White(rest[i])
    <3>1. i \in 1 .. n
      BY <1>6
    <3>2. ~White(su[i])
      BY <1>2, <1>5, <3>1, LettersAre
    <3> QED
      BY <1>6, <3>1, <3>2
  <2> QED
    BY <2>1, <2>2 DEF FirstSpace
<1>8. Token(rest, White) = su
  <2>1. Token(rest, White) = SubSeq(rest, 1, n)
    <3>1. PICK k : k = n + 1
      OBVIOUS
    <3>2. k - 1 = n
      BY <1>6, <3>1
    <3>3. Token(rest, White) = SubSeq(rest, 1, k - 1)
      BY <1>4, <1>7, <3>1, SpaceSplits
    <3> QED
      BY <3>2, <3>3
  <2>2. SubSeq(rest, 1, n) = su
    BY <1>1, <1>2, <1>3, <1>5, JoinSplits
  <2> QED
    BY <2>1, <2>2
<1>9. AfterToken(rest, White) = Tail(c)
  <2>1. PICK t, x, y : /\ t = Tail(c) /\ x = SubSeq(rest, 1, n + 1)
                       /\ y = SubSeq(rest, (n + 1) + 1, Len(rest))
    OBVIOUS
  <2>2. AfterToken(rest, White) = y
    BY <1>4, <1>7, <2>1, SpaceSplits
  <2>3. n + 1 \in 0 .. Len(rest)
    BY <1>6
  <2>4. /\ x \in Seq(Nat) /\ y \in Seq(Nat) /\ Len(x) = n + 1
        /\ Len(y) = Len(rest) - (n + 1) /\ x ++ y = rest
    BY <1>4, <2>1, <2>3, SplitAt
  <2>5. Len(y) = 5
    BY <1>6, <2>4
  <2>6. \A j \in 1 .. 5 : rest[(n + 1) + j] = y[j]
    <3>1. Follows(rest, x, y)
      BY <2>4, JoinAt
    <3> QED
      BY <2>4, <2>5, <3>1 DEF Follows
  <2>7. t \in Seq(Nat) /\ Len(t) = 5 /\ \A i \in 1 .. 5 : t[i] = c[1 + i]
    BY <1>1, <2>1, CountersAre
  <2>8. ASSUME NEW j \in 1 .. 5 PROVE t[j] = y[j]
    <3>1. PICK i : i = 1 + j
      OBVIOUS
    <3>2. i \in 1 .. 6 /\ n + i = (n + 1) + j
      BY <1>6, <3>1
    <3>3. rest[n + i] = c[i] /\ rest[n + i] = y[j]
      BY <1>6, <2>6, <3>2
    <3> QED
      BY <2>7, <3>1, <3>3
  <2> QED
    BY <2>1, <2>2, <2>4, <2>5, <2>7, <2>8, SeqEqual
<1>10. CountersIn(Tail(c)) = m.nums
  <2>1. PICK t : t = Tail(c)
    OBVIOUS
  <2>2. DOMAIN t = 1 .. 5 /\ Spaced(t, m)
    BY <1>1, <2>1, CountersAre, LenProperties
  <2> QED
    BY <2>1, <2>2, CountersFound
<1>11. PICK at : at = {k \in DOMAIN rest : rest[k] \notin {Space, Return}}
  OBVIOUS
<1>12. Min(at) = 1 /\ at # {}
  <2>1. DOMAIN rest = 1 .. Len(rest) /\ 1 \in 1 .. Len(rest) /\ 1 \in 1 .. n
    BY <1>4, <1>6, LenProperties
  <2>2. su[1] \in Letters
    BY <1>2, <1>5, <2>1, ElementOfSeq
  <2>3. rest[1] \notin {Space, Return}
    BY <1>6, <2>1, <2>2, LettersAre
  <2>4. 1 \in at /\ \A k \in at : k \in Nat /\ 1 <= k
    BY <1>11, <2>1, <2>3
  <2> QED
    BY <2>4, MinIs
<1>13. PICK f, words : /\ f = (IF at = {} THEN 0 ELSE Min(at))
                       /\ words = SubSeq(rest, f, Len(rest))
  OBVIOUS
<1>14. f = 1 /\ words = rest
  BY <1>4, <1>12, <1>13, SubSeqFull
<1>15. ParseSuiteEnd(rest) =
          IF f = 0 THEN <<>>
          ELSE <<Ended(Token(words, White), CountersIn(AfterToken(words, White)))>>
  BY <1>11, <1>13 DEF ParseSuiteEnd, First, Ended
<1> QED
  BY <1>1, <1>8, <1>9, <1>10, <1>14, <1>15

(* The counters of a DONE line.                                            *)
LEMMA DoneCounters ==
    ASSUME NEW m \in Messages
    PROVE  CountersIn(Tail(Counters(m.nums))) = m.nums
<1>1. PICK t : t = Tail(Counters(m.nums))
  OBVIOUS
<1>2. DOMAIN t = 1 .. 5 /\ Spaced(t, m)
  BY <1>1, CountersAre, LenProperties
<1> QED
  BY <1>1, <1>2, CountersFound

(* What is behind the id of a failed case, and its line.                   *)
Behind(m) == (m.file ++ <<Location, Space>>) ++ m.text
Failed(m) == CaseId(m) ++ (<<Space>> ++ Behind(m))

(* The line of a failed case, from the left.                               *)
LEMMA FailureLine ==
    ASSUME NEW m \in Messages, Plain(m), m.type = AssertFailT
    PROVE  Line(m) = <<FailK>> ++ Failed(m) /\ Failed(m) \in Seq(Symbols)
<1>1. PICK key, id, one, file, two, text :
        /\ key = <<FailK>> /\ id = CaseId(m) /\ one = <<Space>> /\ file = m.file
        /\ two = <<Location, Space>> /\ text = m.text
  OBVIOUS
<1>2. /\ id \in Seq(Symbols) /\ file \in Seq(Symbols) /\ text \in Seq(Symbols)
  BY <1>1, CaseIdSplits, PlainNames, LettersAre
<1>3. key \in Seq(Symbols) /\ one \in Seq(Symbols) /\ two \in Seq(Symbols)
  <2>1. FailK \in Symbols /\ Space \in Symbols /\ Location \in Symbols
    BY SymbolsAlphabet DEF Alphabet
  <2> QED
    BY <1>1, <2>1
<1>4. Concatenates(Seq(Symbols))
  BY SymbolsJoin
<1>5. PICK a, b, c, d, e : /\ a = file ++ two /\ b = a ++ text /\ c = one ++ b /\ d = id ++ c
                           /\ e = key ++ id
  OBVIOUS
<1>6. a \in Seq(Symbols) /\ e \in Seq(Symbols)
  BY <1>2, <1>3, <1>4, <1>5 DEF Concatenates
<1>7. b \in Seq(Symbols)
  BY <1>2, <1>4, <1>5, <1>6 DEF Concatenates
<1>8. c \in Seq(Symbols)
  BY <1>3, <1>4, <1>5, <1>7 DEF Concatenates
<1>9. d \in Seq(Symbols)
  BY <1>2, <1>4, <1>5, <1>8 DEF Concatenates
<1>10. Line(m) = (((e ++ one) ++ file) ++ two) ++ text
  BY <1>1, <1>5, LineIs
<1>11. ((e ++ one) ++ file) ++ two = (e ++ one) ++ a
  <2>1. e ++ one \in Seq(Symbols)
    BY <1>3, <1>4, <1>6 DEF Concatenates
  <2> QED
    BY <1>2, <1>3, <1>4, <1>5, <2>1 DEF Concatenates
<1>12. ((e ++ one) ++ a) ++ text = (e ++ one) ++ b
  <2>1. e ++ one \in Seq(Symbols)
    BY <1>3, <1>4, <1>6 DEF Concatenates
  <2> QED
    BY <1>2, <1>4, <1>5, <1>6, <2>1 DEF Concatenates
<1>13. (e ++ one) ++ b = e ++ c
  BY <1>3, <1>4, <1>5, <1>6, <1>7 DEF Concatenates
<1>14. e ++ c = key ++ d
  BY <1>2, <1>3, <1>4, <1>5, <1>8 DEF Concatenates
<1>15. Failed(m) = d
  BY <1>1, <1>5 DEF Failed, Behind
<1> QED
  BY <1>1, <1>9, <1>10, <1>11, <1>12, <1>13, <1>14, <1>15

(* A blank behind letters is the first.                                    *)
LEMMA SpaceBehind ==
    ASSUME NEW a \in Seq(Letters), NEW b \in Seq(Nat)
    PROVE  LET s == a ++ (<<Space>> ++ b)
           IN  /\ First(s, Blank) # 0 /\ Token(s, Blank) = a /\ AfterToken(s, Blank) = b
<1>1. PICK one, c, w, s, n : /\ one = <<Space>> /\ c = one ++ b /\ w = a ++ one /\ s = a ++ c
                             /\ n = Len(a)
  OBVIOUS
<1>2. a \in Seq(Nat) /\ one \in Seq(Nat) /\ Len(one) = 1 /\ one[1] = Space
  BY <1>1, LettersAre DEF Space
<1>3. n \in Nat /\ c \in Seq(Nat) /\ Len(c) \in Nat /\ Len(c) > 0 /\ c[1] = Space
  <2>1. c \in Seq(Nat) /\ Follows(c, one, b)
    BY <1>1, <1>2, JoinAt
  <2>2. Len(c) = 1 + Len(b) /\ c[1] = Space /\ Len(b) \in Nat
    BY <1>2, <2>1, LenProperties DEF Follows
  <2> QED
    BY <1>1, <1>2, <2>1, <2>2, LenProperties
<1>4. /\ s \in Seq(Nat) /\ Len(s) = n + Len(c) /\ s[n + 1] = Space
      /\ \A i \in 1 .. n : s[i] = a[i]
  <2>1. s \in Seq(Nat) /\ Follows(s, a, c)
    BY <1>1, <1>2, <1>3, JoinAt
  <2>2. 1 \in 1 .. Len(c)
    BY <1>3
  <2> QED
    BY <1>1, <1>3, <2>1, <2>2 DEF Follows
<1>5. FirstSpace(s, n + 1)
  <2>1. n + 1 \in 1 .. Len(s)
    BY <1>3, <1>4
  <2>2. ASSUME NEW i \in 1 .. (n + 1) - 1 PROVE ~White(s[i])
    <3>1. i \in 1 .. n
      BY <1>3
    <3>2. ~White(a[i])
      BY <1>1, <3>1, LettersAre
    <3> QED
      BY <1>4, <3>1, <3>2
  <2> QED
    BY <1>4, <2>1, <2>2 DEF FirstSpace
<1>6. PICK k : k = n + 1
  OBVIOUS
<1>7. /\ First(s, Blank) = k /\ k # 0 /\ Token(s, Blank) = SubSeq(s, 1, k - 1)
      /\ AfterToken(s, Blank) = SubSeq(s, k + 1, Len(s))
  BY <1>4, <1>5, <1>6, SpaceSplits
<1>8. w \in Seq(Nat) /\ Len(w) = k
  <2>1. w \in Seq(Nat) /\ Follows(w, a, one)
    BY <1>1, <1>2, JoinAt
  <2> QED
    BY <1>1, <1>2, <1>6, <2>1 DEF Follows
<1>9. s = w ++ b
  <2>1. Concatenates(Seq(Nat))
    BY JoinsOf
  <2> QED
    BY <1>1, <1>2, <2>1 DEF Concatenates
<1>10. SubSeq(s, k + 1, Len(s)) = b
  BY <1>8, <1>9, JoinSplits
<1>11. SubSeq(s, 1, n) = a /\ k - 1 = n
  <2>1. SubSeq(a ++ c, 1, Len(a)) = a
    BY <1>2, <1>3, JoinSplits, Zenon
  <2>2. SubSeq(s, 1, n) = a
    BY <1>1, <2>1, Zenon
  <2>3. k - 1 = n
    BY <1>3, <1>6
  <2> QED
    BY <2>2, <2>3
<1> QED
  BY <1>1, <1>7, <1>10, <1>11

(* The id of a failed case and the text behind the location.               *)
LEMMA FailureSplits ==
    ASSUME NEW m \in Messages, Plain(m)
    PROVE  LET rest == Failed(m)
           IN  /\ First(rest, Blank) # 0 /\ Token(rest, Blank) = CaseId(m)
               /\ AfterToken(AfterToken(rest, Blank), Blank) = m.text
<1>1. PICK id, file, loc, one, two, text :
        /\ id = CaseId(m) /\ file = m.file /\ loc = <<Location>> /\ one = <<Space>>
        /\ two = <<Location, Space>> /\ text = m.text
  OBVIOUS
<1>2. /\ id \in Seq(Letters) /\ file \in Seq(Letters) /\ loc \in Seq(Letters)
      /\ id \in Seq(Nat) /\ file \in Seq(Nat) /\ loc \in Seq(Nat) /\ text \in Seq(Nat)
  <2>1. id \in Seq(Letters) /\ file \in Seq(Letters)
    BY <1>1, CaseIdSplits, PlainNames
  <2>2. loc \in Seq(Letters)
    BY <1>1, LettersAre
  <2>3. text \in Seq(Nat)
    BY <1>1, PlainNames, SymbolsJoin
  <2> QED
    BY <2>1, <2>2, <2>3, LettersAre
<1>3. one \in Seq(Nat) /\ two \in Seq(Nat) /\ two = loc ++ one
  <2>1. Location \in Nat /\ Space \in Nat
    BY SymbolsAlphabet DEF Alphabet
  <2>2. /\ one \in Seq(Nat) /\ two \in Seq(Nat) /\ Len(one) = 1 /\ Len(two) = 2 /\ Len(loc) = 1
        /\ one[1] = Space /\ loc[1] = Location /\ two[1] = Location /\ two[2] = Space
    BY <1>1, <2>1
  <2>3. PICK z : z = loc ++ one
    OBVIOUS
  <2>4. z \in Seq(Nat) /\ Follows(z, loc, one)
    BY <1>2, <2>2, <2>3, JoinAt
  <2>5. Len(z) = 2 /\ z[1] = Location /\ z[2] = Space
    BY <2>2, <2>4 DEF Follows
  <2>6. \A i \in 1 .. Len(z) : z[i] = two[i]
    <3>1. \A i \in 1 .. 2 : i = 1 \/ i = 2
      OBVIOUS
    <3> QED
      BY <2>2, <2>5, <3>1
  <2> QED
    BY <2>2, <2>3, <2>4, <2>5, <2>6, SeqEqual
<1>4. PICK x, b, c, d : /\ x = file ++ loc /\ b = (file ++ two) ++ text /\ c = one ++ b
                        /\ d = one ++ text
  OBVIOUS
<1>5. Concatenates(Seq(Nat))
  BY JoinsOf
<1>6. x \in Seq(Letters) /\ x \in Seq(Nat)
  <2>1. x \in Seq(Letters)
    <3>1. Concatenates(Seq(Letters))
      BY LettersAre
    <3> QED
      BY <1>2, <1>4, <3>1 DEF Concatenates
  <2> QED
    BY <2>1, LettersAre
<1>7. file ++ two = x ++ one
  BY <1>2, <1>3, <1>4, <1>5 DEF Concatenates
<1>8. b = x ++ d
  <2>1. (x ++ one) ++ text = x ++ (one ++ text)
    BY <1>2, <1>3, <1>5, <1>6 DEF Concatenates
  <2> QED
    BY <1>4, <1>7, <2>1
<1>9. b \in Seq(Nat)
  <2>1. d \in Seq(Nat)
    BY <1>2, <1>3, <1>4, <1>5 DEF Concatenates
  <2> QED
    BY <1>5, <1>6, <1>8, <2>1 DEF Concatenates
<1>10. AfterToken(b, Blank) = text
  BY <1>1, <1>2, <1>4, <1>6, <1>8, SpaceBehind
<1>11. PICK rest : rest = id ++ c
  OBVIOUS
<1>12. First(rest, Blank) # 0 /\ Token(rest, Blank) = id /\ AfterToken(rest, Blank) = b
  BY <1>1, <1>2, <1>4, <1>9, <1>11, SpaceBehind
<1>13. Failed(m) = rest
  BY <1>1, <1>4, <1>11 DEF Failed, Behind
<1> QED
  BY <1>1, <1>10, <1>12, <1>13

Event(type, suite, leaf, text, nums) ==
    [type |-> type, suite |-> suite, leaf |-> leaf, text |-> text, nums |-> nums]

(* What Meant says of an event in text form.                               *)
LEMMA MeantText ==
    ASSUME NEW m \in Messages, setup.format = "text", NEW leaf, leaf = m.group \o <<Dot>> \o m.name
    PROVE  /\ m.type = SuiteStartT => Meant(m) = Event(m.type, m.suite, <<>>, <<>>, <<>>)
           /\ m.type = CaseStartT => Meant(m) = Event(m.type, m.suite, leaf, <<>>, <<>>)
           /\ m.type = AssertFailT => Meant(m) = Event(m.type, m.suite, leaf, m.text, <<0>>)
           /\ m.type = CaseEndT =>
                 Meant(m) = Event(m.type, m.suite, leaf, <<>>, <<Status(m.nums[1])>>)
           /\ m.type = SuiteEndT => Meant(m) = Event(m.type, m.suite, <<>>, <<>>, m.nums)
           /\ m.type = DoneT => Meant(m) = Event(m.type, <<>>, <<>>, <<>>, m.nums)
<1>1. PICK l, u, line : /\ l = (IF OfCase(m) THEN leaf ELSE <<>>) /\ line = <<0, 0, 0>>
                        /\ u = IF m.type = AssertFailT THEN line ELSE m.nums
  OBVIOUS
<1>2. Meant(m) = EventOf(m.type, m.suite, l, m.text, u)
  <2>1. "text" # "cobs"
    OBVIOUS
  <2> QED
    BY <1>1, <2>1 DEF Meant
<1>3. m.type \in EventTypes
  BY MessageType
<1>4. m.type \in CaseTypes => l = leaf
  BY <1>1 DEF OfCase, CaseTypes
<1>5. (m.type = AssertFailT => u = line) /\ (m.type # AssertFailT => u = m.nums) /\ line[1] = 0
  BY <1>1
<1>6. PICK t, s, x, n : t = m.type /\ s = m.suite /\ x = m.text /\ n = m.nums
  OBVIOUS
<1>7. /\ t = SuiteStartT => EventOf(t, s, l, x, u) = Event(t, s, <<>>, <<>>, <<>>)
      /\ t = CaseStartT => EventOf(t, s, l, x, u) = Event(t, s, l, <<>>, <<>>)
      /\ t = AssertFailT => EventOf(t, s, l, x, u) = Event(t, s, l, x, <<u[1]>>)
      /\ t = CaseEndT => EventOf(t, s, l, x, u) = Event(t, s, l, <<>>, <<Status(u[1])>>)
      /\ t = SuiteEndT => EventOf(t, s, l, x, u) = Event(t, s, <<>>, <<>>, u)
      /\ t = DoneT => EventOf(t, s, l, x, u) = Event(t, <<>>, <<>>, <<>>, u)
  <2>1. t \in EventTypes
    BY <1>3, <1>6
  <2> QED
    BY <2>1, EventIs DEF Event
<1>8. Meant(m) = EventOf(t, s, l, x, u)
  BY <1>2, <1>6
<1>9. /\ t \in CaseTypes => l = leaf
      /\ t = AssertFailT => u[1] = 0
      /\ t # AssertFailT => u = n
  BY <1>4, <1>5, <1>6
<1>10. /\ t = SuiteStartT => Meant(m) = Event(t, s, <<>>, <<>>, <<>>)
       /\ t = CaseStartT => Meant(m) = Event(t, s, leaf, <<>>, <<>>)
       /\ t = AssertFailT => Meant(m) = Event(t, s, leaf, x, <<0>>)
       /\ t = CaseEndT => Meant(m) = Event(t, s, leaf, <<>>, <<Status(n[1])>>)
       /\ t = SuiteEndT => Meant(m) = Event(t, s, <<>>, <<>>, n)
       /\ t = DoneT => Meant(m) = Event(t, <<>>, <<>>, <<>>, n)
  BY <1>7, <1>8, <1>9, Distinct DEF CaseTypes
<1> QED
  BY <1>6, <1>10

(* The records that parse_text_line builds.                                *)
LEMMA NamedEvents ==
    ASSUME NEW t, NEW s, NEW n
    PROVE  /\ NameEvent(t, s) = Event(t, s, <<>>, <<>>, <<>>)
           /\ Ended(s, n) = Event(SuiteEndT, s, <<>>, <<>>, n)
           /\ Finished(n) = Event(DoneT, <<>>, <<>>, <<>>, n)
<1>1. PICK f : f = [Nothing EXCEPT !.type = t, !.suite = s]
  OBVIOUS
<1>2. f = [type |-> t, suite |-> s, leaf |-> <<>>, text |-> <<>>, nums |-> <<>>]
  BY <1>1 DEF Nothing
<1>3. PICK e, g : e = NameEvent(SuiteEndT, s) /\ g = [e EXCEPT !.nums = n]
  OBVIOUS
<1>4. e = [type |-> SuiteEndT, suite |-> s, leaf |-> <<>>, text |-> <<>>, nums |-> <<>>]
  BY <1>3 DEF NameEvent, Nothing
<1>5. g = [type |-> SuiteEndT, suite |-> s, leaf |-> <<>>, text |-> <<>>, nums |-> n]
  BY <1>3, <1>4
<1>6. PICK h : h = [Nothing EXCEPT !.type = DoneT, !.nums = n]
  OBVIOUS
<1>7. h = [type |-> DoneT, suite |-> <<>>, leaf |-> <<>>, text |-> <<>>, nums |-> n]
  BY <1>6 DEF Nothing
<1>8. f = NameEvent(t, s) /\ g = Ended(s, n) /\ h = Finished(n)
  BY <1>1, <1>3, <1>6 DEF NameEvent, Ended, Finished
<1> QED
  BY <1>2, <1>5, <1>7, <1>8 DEF Event

(* The id of a case is split into suite and leaf.                          *)
LEMMA ParsedCase ==
    ASSUME NEW m \in Messages, Plain(m), NEW t, NEW text, NEW nums
    PROVE  ParseCase(t, CaseId(m), text, nums) =
              <<Event(t, m.suite, m.group \o <<Dot>> \o m.name, text, nums)>>
BY CaseIdSplits DEF ParseCase, CaseEvent, Event

(* A line that is not cut is read as the event it was written for.         *)
LEMMA ParsePlain ==
    ASSUME NEW m \in Messages, Plain(m), setup.format = "text"
    PROVE  Printed(m) = Line(m) /\ ParseText(Line(m)) = <<Meant(m)>>
<1>1. Printed(m) = Line(m)
  BY LineOf DEF Plain
<1>2. PICK leaf, id, su, line : /\ leaf = m.group \o <<Dot>> \o m.name /\ id = CaseId(m)
                                /\ su = m.suite /\ line = Line(m)
  OBVIOUS
<1>3. id \in Seq(Symbols) /\ id \in Seq(Nat) /\ su \in Seq(Symbols) /\ m.text \in Seq(Symbols)
  BY <1>2, CaseIdSplits, PlainNames, LettersAre
<1>4. \A k \in 1 .. 7 : Keyword(k) \in Symbols
  BY SymbolsAlphabet DEF Alphabet
<1>5. PassK \in Symbols /\ SkipK \in Symbols /\ FailK \in Symbols
  BY SymbolsAlphabet DEF Alphabet
<1>6. \A t, text, nums : ParseCase(t, id, text, nums) = <<Event(t, su, leaf, text, nums)>>
  BY <1>2, ParsedCase
<1>7. CASE m.type = SuiteStartT
  <2>1. PICK k : k = Keyword(SuiteStartT)
    OBVIOUS
  <2>2. k \in Symbols
    BY <1>4, <2>1 DEF SuiteStartT
  <2>3. line = <<k>> ++ su
    BY <1>2, <1>7, <2>1, LineIs
  <2>4. line # <<>> /\ Head(line) = k /\ Tail(line) = su
    BY <1>3, <2>2, <2>3, HeadJoin
  <2>5. ParseText(line) = <<NameEvent(SuiteStartT, su)>>
    BY <2>1, <2>4, ParseIs
  <2>6. Meant(m) = Event(SuiteStartT, su, <<>>, <<>>, <<>>)
    BY <1>2, <1>7, MeantText
  <2> QED
    BY <1>1, <1>2, <2>5, <2>6, NamedEvents
<1>8. CASE m.type = CaseStartT
  <2>1. PICK k : k = Keyword(CaseStartT)
    OBVIOUS
  <2>2. k \in Symbols
    BY <1>4, <2>1 DEF CaseStartT
  <2>3. line = <<k>> ++ id
    BY <1>2, <1>8, <2>1, LineIs
  <2>4. line # <<>> /\ Head(line) = k /\ Tail(line) = id
    BY <1>3, <2>2, <2>3, HeadJoin
  <2>5. ParseText(line) = ParseCase(CaseStartT, id, <<>>, <<>>)
    BY <2>1, <2>4, ParseIs
  <2>6. Meant(m) = Event(CaseStartT, su, leaf, <<>>, <<>>)
    BY <1>2, <1>8, MeantText
  <2> QED
    BY <1>1, <1>2, <1>6, <2>5, <2>6
<1>9. CASE m.type = AssertFailT
  <2>1. PICK k, rest, text : k = FailK /\ rest = Failed(m) /\ text = m.text
    OBVIOUS
  <2>2. line = <<k>> ++ rest /\ rest \in Seq(Symbols) /\ k \in Symbols
    BY <1>2, <1>5, <1>9, <2>1, FailureLine
  <2>3. line # <<>> /\ Head(line) = k /\ Tail(line) = rest
    BY <2>2, HeadJoin
  <2>4. /\ First(rest, Blank) # 0 /\ Token(rest, Blank) = id
        /\ AfterToken(AfterToken(rest, Blank), Blank) = text
    BY <1>2, <2>1, FailureSplits
  <2>5. ParseText(line) = ParseCase(AssertFailT, id, text, <<0>>)
    BY <2>1, <2>3, <2>4, ParseIs
  <2>6. Meant(m) = Event(AssertFailT, su, leaf, text, <<0>>)
    BY <1>2, <1>9, <2>1, MeantText
  <2> QED
    BY <1>1, <1>2, <1>6, <2>5, <2>6
<1>10. CASE m.type = CaseEndT
  <2>1. PICK k, n, st : k = EndKey(m) /\ n = m.nums[1] /\ st = Status(n)
    OBVIOUS
  <2>2. \/ n = PassedS /\ k = PassK /\ st = PassedS
        \/ n = SkippedS /\ k = SkipK /\ st = SkippedS
        \/ k = FailK /\ st = FailedS
    BY <2>1 DEF EndKey, Status, PassedS, SkippedS, FailedS
  <2>3. k \in Symbols
    BY <1>5, <2>2
  <2>4. line = <<k>> ++ id
    BY <1>2, <1>10, <2>1, LineIs
  <2>5. line # <<>> /\ Head(line) = k /\ Tail(line) = id
    BY <1>3, <2>3, <2>4, HeadJoin
  <2>6. First(id, Blank) = 0
    BY <1>2, <1>3, CaseIdSplits, LettersAre, NoBlank
  <2>7. ParseText(line) = ParseCase(CaseEndT, id, <<>>, <<st>>)
    <3>1. CASE k = PassK /\ st = PassedS
      <4>1. line # <<>> /\ Head(line) = PassK /\ Tail(line) = id
        BY <2>5, <3>1
      <4>2. ParseText(line) = ParseCase(CaseEndT, id, <<>>, <<PassedS>>)
        BY <4>1, ParseIs
      <4> QED
        BY <3>1, <4>2
    <3>2. CASE k = SkipK /\ st = SkippedS
      <4>1. line # <<>> /\ Head(line) = SkipK /\ Tail(line) = id
        BY <2>5, <3>2
      <4>2. ParseText(line) = ParseCase(CaseEndT, id, <<>>, <<SkippedS>>)
        BY <4>1, ParseIs
      <4> QED
        BY <3>2, <4>2
    <3>3. CASE k = FailK /\ st = FailedS
      <4>1. line # <<>> /\ Head(line) = FailK /\ Tail(line) = id
        BY <2>5, <3>3
      <4>2. ParseText(line) = ParseCase(CaseEndT, id, <<>>, <<FailedS>>)
        BY <2>6, <4>1, ParseIs
      <4> QED
        BY <3>3, <4>2
    <3> QED
      BY <2>2, <3>1, <3>2, <3>3
  <2>8. Meant(m) = Event(CaseEndT, su, leaf, <<>>, <<st>>)
    BY <1>2, <1>10, <2>1, MeantText
  <2> QED
    BY <1>1, <1>2, <1>6, <2>7, <2>8
<1>11. CASE m.type = SuiteEndT
  <2>1. PICK k, c, rest, key : /\ k = Keyword(SuiteEndT) /\ c = Counters(m.nums)
                               /\ rest = su ++ c /\ key = <<k>>
    OBVIOUS
  <2>2. k \in Symbols /\ c \in Seq(Symbols) /\ key \in Seq(Symbols)
    <3>1. k \in Symbols
      BY <1>4, <2>1 DEF SuiteEndT
    <3>2. c \in Seq(Symbols)
      BY <2>1, CountersType, SymbolsAlphabet
    <3> QED
      BY <2>1, <3>1, <3>2
  <2>3. Concatenates(Seq(Symbols))
    BY SymbolsJoin
  <2>4. rest \in Seq(Symbols)
    BY <1>3, <2>1, <2>2, <2>3 DEF Concatenates
  <2>5. line = key ++ rest
    <3>1. line = (key ++ su) ++ c
      BY <1>2, <1>11, <2>1, LineIs
    <3>2. (key ++ su) ++ c = key ++ (su ++ c)
      BY <1>3, <2>2, <2>3 DEF Concatenates
    <3> QED
      BY <2>1, <3>1, <3>2
  <2>6. line # <<>> /\ Head(line) = k /\ Tail(line) = rest
    BY <2>1, <2>2, <2>4, <2>5, HeadJoin
  <2>7. ParseSuiteEnd(rest) = <<Ended(su, m.nums)>>
    BY <1>2, <1>11, <2>1, SuiteCounters
  <2>8. ParseText(line) = <<Event(SuiteEndT, su, <<>>, <<>>, m.nums)>>
    <3>1. ParseText(line) = <<Ended(su, m.nums)>>
      BY <2>1, <2>6, <2>7, ParseIs
    <3>2. Ended(su, m.nums) = Event(SuiteEndT, su, <<>>, <<>>, m.nums)
      BY NamedEvents
    <3> QED
      BY <3>1, <3>2
  <2>9. Meant(m) = Event(SuiteEndT, su, <<>>, <<>>, m.nums)
    BY <1>2, <1>11, MeantText
  <2> QED
    BY <1>1, <1>2, <2>8, <2>9
<1>12. CASE m.type = DoneT
  <2>1. PICK k, rest : k = Keyword(DoneT) /\ rest = Tail(Counters(m.nums))
    OBVIOUS
  <2>2. k \in Symbols
    BY <1>4, <2>1 DEF DoneT
  <2>3. rest \in Seq(Symbols)
    BY <2>1, CountersType, SymbolsAlphabet
  <2>4. line = <<k>> ++ rest
    BY <1>2, <1>12, <2>1, LineIs
  <2>5. line # <<>> /\ Head(line) = k /\ Tail(line) = rest
    BY <2>2, <2>3, <2>4, HeadJoin
  <2>6. CountersIn(rest) = m.nums
    BY <2>1, DoneCounters
  <2>7. ParseText(line) = <<Event(DoneT, <<>>, <<>>, <<>>, m.nums)>>
    <3>1. PICK b : b = CountersIn(rest)
      OBVIOUS
    <3>2. line # <<>> /\ Head(line) = k /\ Tail(line) = rest /\ k = Keyword(DoneT)
      BY <2>1, <2>5
    <3>3. ParseText(line) = <<Finished(CountersIn(rest))>>
      BY <3>2, ParseIs
    <3>4. Finished(b) = Event(DoneT, <<>>, <<>>, <<>>, b)
      BY NamedEvents
    <3> QED
      BY <2>6, <3>1, <3>3, <3>4
  <2>8. Meant(m) = Event(DoneT, <<>>, <<>>, <<>>, m.nums)
    BY <1>2, <1>12, MeantText
  <2> QED
    BY <1>1, <1>2, <2>7, <2>8
<1> QED
  BY <1>7, <1>8, <1>9, <1>10, <1>11, <1>12, MessageType DEF EventTypes

(* There is no return to trim.                                             *)
LEMMA TrimmedPlain == ASSUME NEW m \in Messages, Plain(m) PROVE Trimmed(Line(m)) = Line(m)
<1>1. PICK l, n : l = Line(m) /\ n = Len(l)
  OBVIOUS
<1>2. l \in Seq(Symbols) /\ n \in Nat /\ n > 0 /\ DOMAIN l = 1 .. n
  <2>1. l \in Seq(Symbols) /\ n > 0
    BY <1>1, PlainLine, LineType
  <2> QED
    BY <1>1, <2>1, LenProperties
<1>3. PICK at : at = {0} \cup {k \in DOMAIN l : l[k] # Return}
  OBVIOUS
<1>4. l[n] # Return
  <2>1. n \in 1 .. Len(l)
    BY <1>1, <1>2
  <2>2. l[n] \in Symbols
    BY <1>2, <2>1, ElementOfSeq
  <2> QED
    BY <2>2 DEF Symbols
<1>5. n \in at /\ \A k \in at : k \in Nat /\ k <= n
  BY <1>2, <1>3, <1>4
<1>6. Max(at) = n
  BY <1>2, <1>5, MaxIs
<1>7. SubSeq(l, 1, n) = l
  BY <1>1, <1>2, SubSeqFull
<1> QED
  BY <1>1, <1>3, <1>6, <1>7 DEF Trimmed

(* Lines of plain names hold no character of two bytes that a chunk could  *)
(* cut.                                                                    *)
Clean(s) == \A i \in 1 .. Len(s) : s[i] \notin Broken
AllClean(ss) == \A k \in 1 .. Len(ss) : Clean(ss[k])

(* A line is clean if its symbols are.                                     *)
LEMMA CleanAppends ==
    ASSUME NEW s \in Seq(Nat), NEW e \in Nat
    PROVE  Clean(Append(s, e)) <=> Clean(s) /\ e \notin Broken
<1>1. PICK long, n : long = Append(s, e) /\ n = Len(s)
  OBVIOUS
<1>2. /\ n \in Nat /\ Len(long) = n + 1 /\ long[n + 1] = e
      /\ \A i \in 1 .. n : long[i] = s[i]
  BY <1>1, AppendProperties, LenProperties
<1>3. /\ \A i \in 1 .. n + 1 : i \in 1 .. n \/ i = n + 1
      /\ \A i \in 1 .. n : i \in 1 .. n + 1
      /\ n + 1 \in 1 .. n + 1
  BY <1>2
<1> QED
  BY <1>1, <1>2, <1>3 DEF Clean

(* Lines are clean if each is.                                             *)
LEMMA AllCleanAppends ==
    ASSUME NEW ss \in Seq(Seq(Nat)), NEW s \in Seq(Nat)
    PROVE  AllClean(Append(ss, s)) <=> AllClean(ss) /\ Clean(s)
<1>1. PICK long, n, X : long = Append(ss, s) /\ n = Len(ss) /\ X = Seq(Nat)
  OBVIOUS
<1>2. ss \in Seq(X) /\ s \in X
  BY <1>1
<1>3. /\ n \in Nat /\ Len(long) = n + 1 /\ long[n + 1] = s
      /\ \A i \in 1 .. n : long[i] = ss[i]
  BY <1>1, <1>2, AppendProperties, LenProperties
<1>4. /\ \A i \in 1 .. n + 1 : i \in 1 .. n \/ i = n + 1
      /\ \A i \in 1 .. n : i \in 1 .. n + 1
      /\ n + 1 \in 1 .. n + 1
  BY <1>3
<1> QED
  BY <1>1, <1>3, <1>4 DEF AllClean

(* A concatenation is clean if both parts are.                             *)
LEMMA CleanJoins ==
    ASSUME NEW a \in Seq(Nat), NEW b \in Seq(Nat), Clean(a ++ b)
    PROVE  Clean(a) /\ Clean(b)
<1>1. PICK c, m, n : c = a ++ b /\ m = Len(a) /\ n = Len(b)
  OBVIOUS
<1>2. c \in Seq(Nat) /\ Follows(c, a, b) /\ m \in Nat /\ n \in Nat
  BY <1>1, JoinAt, LenProperties
<1>3. /\ Len(c) = m + n
      /\ \A i \in 1 .. m : c[i] = a[i]
      /\ \A j \in 1 .. n : c[m + j] = b[j]
  BY <1>1, <1>2 DEF Follows
<1>4. /\ \A i \in 1 .. m : i \in 1 .. m + n
      /\ \A j \in 1 .. n : m + j \in 1 .. m + n
  BY <1>2
<1>5. \A i \in 1 .. m + n : c[i] \notin Broken
  BY <1>1, <1>3 DEF Clean
<1>6. \A i \in 1 .. m : a[i] \notin Broken
  BY <1>3, <1>4, <1>5
<1>7. \A j \in 1 .. n : b[j] \notin Broken
  BY <1>3, <1>4, <1>5
<1> QED
  BY <1>1, <1>6, <1>7 DEF Clean

(* What is in no piece and not in the rest is not in the stream.           *)
LEMMA CleanPieces ==
    ASSUME NEW s \in Seq(Nat), NEW mark \in Nat \ Broken,
           AllClean(Cut(s, mark).done), Clean(Cut(s, mark).rest)
    PROVE  Clean(s)
<1> DEFINE Good == {t \in Seq(Nat) :
                   AllClean(Cut(t, mark).done) /\ Clean(Cut(t, mark).rest) => Clean(t)}
<1>1. <<>> \in Good
  BY EmptySeq DEF Clean
<1>2. ASSUME NEW t \in Seq(Nat), NEW e \in Nat, t \in Good PROVE Append(t, e) \in Good
  <2>1. PICK long, done, rest : /\ long = Append(t, e) /\ done = Cut(t, mark).done
                                /\ rest = Cut(t, mark).rest
    OBVIOUS
  <2>2. long \in Seq(Nat) /\ done \in Seq(Seq(Nat)) /\ rest \in Seq(Nat)
    BY <2>1, AppendProperties, CutType
  <2>3. PICK c : c = Cut(t, mark)
    OBVIOUS
  <2>4. c = [done |-> done, rest |-> rest]
    BY <2>1, <2>3, CutType
  <2>5. PICK d : d = CutAt(c, e, mark)
    OBVIOUS
  <2>6. Cut(long, mark) = d
    BY <2>1, <2>3, <2>5, CutStep
  <2>7. ASSUME AllClean(d.done), Clean(d.rest) PROVE Clean(long)
    <3>1. CASE e = mark
      <4>1. d = [done |-> Append(done, rest), rest |-> <<>>]
        BY <2>4, <2>5, <3>1 DEF CutAt
      <4>2. AllClean(Append(done, rest))
        BY <2>7, <4>1
      <4>3. AllClean(done) /\ Clean(rest)
        BY <2>2, <4>2, AllCleanAppends
      <4>4. Clean(t)
        BY <1>2, <2>1, <4>3
      <4>5. e \notin Broken
        BY <3>1
      <4> QED
        BY <2>1, <4>4, <4>5, CleanAppends
    <3>2. CASE e # mark
      <4>1. PICK r : r = Append(rest, e)
        OBVIOUS
      <4>2. d = [c EXCEPT !.rest = Append(@, e)]
        BY <2>5, <3>2 DEF CutAt
      <4>3. d = [done |-> done, rest |-> r]
        BY <2>4, <4>1, <4>2
      <4>4. AllClean(done) /\ Clean(r)
        BY <2>7, <4>3
      <4>5. Clean(rest) /\ e \notin Broken
        BY <2>2, <4>1, <4>4, CleanAppends
      <4>6. Clean(t)
        BY <1>2, <2>1, <4>4, <4>5
      <4> QED
        BY <2>1, <4>5, <4>6, CleanAppends
    <3> QED
      BY <3>1, <3>2
  <2> QED
    BY <2>1, <2>2, <2>6, <2>7
<1> HIDE DEF Good
<1>3. s \in Good
  BY <1>1, <1>2, Sequences
<1> QED
  BY <1>3 DEF Good

(* from_utf8_lossy changes nothing in a clean chunk.                       *)
LEMMA CleanLossy == ASSUME NEW s \in Seq(Nat), Clean(s) PROVE Lossy(s) = s
<1>1. DOMAIN s = 1 .. Len(s) /\ s = [k \in DOMAIN s |-> s[k]]
  BY LenProperties
<1>2. \A k \in DOMAIN s : s[k] # Lead /\ s[k] # Cont
  BY <1>1 DEF Clean, Broken
<1> QED
  BY <1>1, <1>2 DEF Lossy

(* The line of a plain event is clean.                                     *)
LEMMA LineClean ==
    ASSUME NEW m \in Messages, Plain(m)
    PROVE  Clean(Line(m))
<1>1. PICK Y : Y = Symbols \ Broken
  OBVIOUS
<1>2. Alphabet(Y)
  <2>1. \A x \in Nat : x > 6 => x \in Y
    BY <1>1 DEF Symbols, Broken, Newline, Return, Lead, Cont
  <2>2. {Space, Dot} \subseteq Y
    BY <1>1 DEF Symbols, Broken, Newline, Return, Lead, Cont, Space, Dot
  <2>3. {Location, PassK, SkipK, FailK} \subseteq Y
    BY <2>1, Sizes DEF Location, PassK, SkipK, FailK, Keyword, AssertFailT
  <2>4. \A k \in 1 .. 7 : Keyword(k) \in Y
    BY <2>1, Sizes DEF Keyword
  <2>5. ASSUME NEW k \in 1 .. 3, NEW n \in Nat PROVE Counter(k, n) \in Y
    BY <2>1, Sizes DEF Counter
  <2> QED
    BY <2>2, <2>3, <2>4, <2>5 DEF Alphabet
<1>3. /\ m.suite \in Seq(Y) /\ m.group \in Seq(Y) /\ m.name \in Seq(Y) /\ m.file \in Seq(Y)
      /\ m.text \in Seq(Y)
  BY <1>1, PlainNames
<1>4. PICK l : l = Line(m)
  OBVIOUS
<1>5. l \in Seq(Y)
  BY <1>2, <1>3, <1>4, LineMadeOf
<1>6. \A i \in 1 .. Len(l) : l[i] \in Y
  BY <1>5, ElementOfSeq
<1> QED
  BY <1>1, <1>4, <1>6 DEF Clean

(* Whatever the host reads of such lines is UTF-8 as it stands.            *)
LEMMA ChunkClean ==
    ASSUME TypeOK, CallsOK, StreamOK, Clear, setup.format = "text", NEW upto \in got .. Len(pipe)
    PROVE  Lossy(SubSeq(pipe, got + 1, upto)) = SubSeq(pipe, got + 1, upto)
<1>1. PICK pieces : pieces = PiecesOf(emitted)
  OBVIOUS
<1>2. /\ Cut(Stream, Limit).done = pieces /\ Cut(Stream, Limit).rest = <<>> /\ Stream \in Seq(Nat)
      /\ Limit = Newline /\ Limit \in Nat \ Broken
  <2>1. Limit = Newline
    BY DEF Limit
  <2> QED
    BY <1>1, <2>1, StreamIs DEF StreamOK, Newline, Broken, Lead, Cont
<1>3. AllClean(pieces)
  <2>1. pieces = [k \in 1 .. Len(emitted) |-> Piece(emitted[k])]
    BY <1>1 DEF PiecesOf
  <2>2. Len(pieces) = Len(emitted)
    <3>1. pieces \in Seq(Seq(Nat))
      BY <1>2, CutType
    <3>2. DOMAIN pieces = 1 .. Len(pieces) /\ Len(pieces) \in Nat /\ Len(emitted) \in Nat
      BY <3>1, LenProperties DEF TypeOK
    <3>3. DOMAIN pieces = 1 .. Len(emitted)
      BY <2>1
    <3> QED
      BY <3>2, <3>3
  <2>3. ASSUME NEW k \in 1 .. Len(emitted) PROVE Clean(pieces[k])
    <3>1. PICK m : m = emitted[k]
      OBVIOUS
    <3>2. m \in Messages /\ Plain(m)
      BY <3>1, ElementOfSeq DEF TypeOK, Clear
    <3>3. pieces[k] = Line(m)
      <4>1. Piece(m) = Printed(m)
        BY DEF Piece
      <4> QED
        BY <2>1, <3>1, <3>2, <4>1, ParsePlain
    <3> QED
      BY <3>2, <3>3, LineClean
  <2> QED
    BY <2>2, <2>3 DEF AllClean
<1>4. Clean(<<>>)
  BY EmptySeq DEF Clean
<1>5. Clean(Stream)
  BY <1>2, <1>3, <1>4, CleanPieces
<1>6. PICK p, b1, b2, n : p = pipe /\ b1 = begun[1] /\ b2 = begun[2] /\ n = Ending
  OBVIOUS
<1>7. p \in Seq(Nat) /\ b1 \in Seq(Nat) /\ b2 \in Seq(Nat) /\ n \in Seq(Nat)
  BY <1>6, EndingType DEF TypeOK, Threads
<1>8. PICK x, y : x = p ++ b1 /\ y = x ++ b2
  OBVIOUS
<1>9. x \in Seq(Nat) /\ y \in Seq(Nat)
  BY <1>7, <1>8, Joining DEF Concatenates
<1>10. Stream = y ++ n
  BY <1>6, <1>8 DEF Stream, Flow
<1>11. Clean(p)
  <2>1. Clean(y)
    BY <1>5, <1>7, <1>9, <1>10, CleanJoins
  <2>2. Clean(x)
    BY <1>7, <1>8, <1>9, <2>1, CleanJoins
  <2> QED
    BY <1>7, <1>8, <2>2, CleanJoins
<1>12. PICK r, chunk, more, old : /\ r = Read(upto) /\ chunk = SubSeq(pipe, got + 1, upto)
                                  /\ more = SubSeq(pipe, upto + 1, Len(pipe)) /\ old = Read(got)
  OBVIOUS
<1>13. r \in Seq(Nat) /\ chunk \in Seq(Nat) /\ more \in Seq(Nat) /\ r = old ++ chunk /\ p = r ++ more
  BY <1>6, <1>12, ReadOn
<1>14. old \in Seq(Nat)
  <2>1. got \in got .. Len(pipe)
    BY LenProperties DEF TypeOK
  <2> QED
    BY <1>12, <2>1, ReadOn
<1>15. Clean(chunk)
  <2>1. Clean(r)
    BY <1>11, <1>13, CleanJoins
  <2> QED
    BY <1>13, <1>14, <2>1, CleanJoins
<1> QED
  BY <1>12, <1>13, <1>15, CleanLossy

-----------------------------------------------------------------------------
(* The inductive invariant, and the theorems about what arrives.           *)

(* A chunk of text gives the events of the lines it completes.             *)
LEMMA FeedTextStep ==
    ASSUME TypeOK, CallsOK, StreamOK, HostOK, ReadChunk, setup.format = "text"
    PROVE  HostOK'
<1>1. PICK upto, chunk :
        /\ upto \in got + 1 .. Len(pipe)
        /\ chunk = SubSeq(pipe, got + 1, upto) /\ FeedText(chunk) /\ got' = upto
  <2>1. setup.format # "cobs"
    OBVIOUS
  <2> QED
    BY <2>1 DEF ReadChunk
<1>2. codec.ok /\ UNCHANGED <<setup, thread, lock, begun, pipe, emitted>>
  BY ReadChunkSets
<1>3. Clear' = Clear
  BY <1>2 DEF Clear, Orderly, CallsStayWhole
<1>4. SUFFICES ASSUME Clear PROVE \E n \in 0 .. Len(emitted) : HostAt(n)'
  BY <1>2, <1>3 DEF HostOK
<1>5. PICK n \in 0 .. Len(emitted) : HostAt(n)
  BY <1>4 DEF HostOK
<1>6. decoded = Arrivals(n) /\ codec.buf = Heard.rest /\ n = Len(Heard.done)
  BY <1>2, <1>5 DEF HostAt
<1>7. upto \in got .. Len(pipe)
  <2>1. Len(pipe) \in Nat /\ got \in 0 .. Len(pipe)
    BY LenProperties DEF TypeOK
  <2> QED
    BY <1>1, <2>1
<1>8. PICK cut, l : cut = Cut(Heard.rest ++ chunk, Limit) /\ l = Len(cut.done)
  OBVIOUS
<1>9. /\ cut.done \in Seq(Seq(Nat)) /\ n + l <= Len(emitted)
      /\ \A j \in 1 .. l : cut.done[j] = Piece(emitted[n + j])
      /\ Cut(Read(upto), Limit).rest = cut.rest
      /\ Len(Cut(Read(upto), Limit).done) = n + l
  BY <1>1, <1>4, <1>6, <1>7, <1>8, Hears DEF Clear
<1>10. l \in Nat /\ n \in Nat /\ DOMAIN cut.done = 1 .. l /\ Len(emitted) \in Nat
  BY <1>8, <1>9, LenProperties DEF TypeOK
<1>11. \A j \in 1 .. l : n + j \in 1 .. Len(emitted)
  BY <1>9, <1>10
<1>12. ASSUME NEW j \in 1 .. l
       PROVE  ParseText(Trimmed(cut.done[j])) = <<Arrives(emitted[n + j])>>
  <2>1. PICK m : m = emitted[n + j]
    OBVIOUS
  <2>2. m \in Messages /\ Plain(m)
    <3>1. n + j \in 1 .. Len(emitted)
      BY <1>11
    <3> QED
      BY <1>4, <2>1, <3>1, ElementOfSeq DEF TypeOK, Clear
  <2>3. Piece(m) = Printed(m) /\ Arrives(m) = Meant(m)
    BY DEF Piece, Arrives
  <2>4. ParseText(Trimmed(Piece(m))) = <<Arrives(m)>>
    <3>1. Piece(m) = Line(m) /\ ParseText(Line(m)) = <<Arrives(m)>>
      BY <2>2, <2>3, ParsePlain
    <3>2. Trimmed(Line(m)) = Line(m)
      BY <2>2, TrimmedPlain
    <3> QED
      BY <3>1, <3>2
  <2> QED
    BY <1>9, <2>1, <2>4
<1>13. Lossy(chunk) = chunk
  BY <1>1, <1>4, <1>7, ChunkClean
<1>14. PICK c : c = codec.buf \o Lossy(chunk)
  OBVIOUS
<1>15. cut = Cut(c, Newline)
  <2>1. c = Heard.rest ++ chunk
    BY <1>6, <1>13, <1>14 DEF ++
  <2> QED
    BY <1>8, <2>1 DEF Limit
<1>16. PICK ss : ss = [j \in 1 .. l |-> <<Arrives(emitted[n + j])>>]
  OBVIOUS
<1>17. ParsedLines(cut) = ss
  BY <1>10, <1>12, <1>16 DEF ParsedLines
<1>18. codec' = [codec EXCEPT !.buf = cut.rest] /\ decoded' = decoded \o FlattenSeq(ss)
  BY <1>1, <1>14, <1>15, <1>17 DEF FeedText
<1>19. PICK buf : codec = [buf |-> buf, ok |-> TRUE]
  <2>1. codec = [buf |-> codec.buf, ok |-> codec.ok]
    BY DEF TypeOK
  <2>2. codec.ok = TRUE
    BY <1>2 DEF TypeOK
  <2> QED
    BY <2>1, <2>2
<1>20. \A k : Arrivals(k)' = Arrivals(k)
  BY <1>2 DEF Arrivals, Arrives, Meant
<1>21. decoded' = Arrivals(n + l)
  <2>1. decoded' = Arrivals(n) \o FlattenSeq(ss)
    BY <1>6, <1>18
  <2> QED
    BY <1>10, <1>16, <2>1, ArrivalsGrow
<1>22. codec'.ok = TRUE /\ codec'.buf = cut.rest
  <2>1. PICK rest : rest = cut.rest
    OBVIOUS
  <2>2. codec' = [buf |-> rest, ok |-> TRUE]
    BY <1>18, <1>19, <2>1
  <2> QED
    BY <2>1, <2>2
<1>23. PICK h : h = Cut(Read(upto), Limit)
  OBVIOUS
<1>24. Heard' = h
  BY <1>1, <1>2, <1>23 DEF Heard, Read, Limit
<1>25. codec'.buf = h.rest /\ n + l = Len(h.done)
  BY <1>9, <1>22, <1>23
<1>26. HostAt(n + l)'
  BY <1>20, <1>21, <1>22, <1>24, <1>25 DEF HostAt
<1>27. n + l \in 0 .. Len(emitted)
  BY <1>9, <1>10
<1> QED
  BY <1>26, <1>27

(* The host has heard nothing at first.                                    *)
LEMMA InitHostOK == Init => HostOK
<1> SUFFICES ASSUME Init, Clear PROVE \E n \in 0 .. Len(emitted) : HostAt(n)
  BY DEF HostOK
<1>1. pipe = <<>> /\ got = 0 /\ decoded = <<>> /\ emitted = <<>> /\ codec = [buf |-> <<>>, ok |-> TRUE]
  BY DEF Init
<1>2. codec.ok = TRUE /\ codec.buf = <<>>
  BY <1>1
<1>3. Len(emitted) = 0 /\ 0 \in 0 .. Len(emitted)
  BY <1>1, EmptySeq
<1>4. Read(got) = <<>>
  BY <1>1, SubSeqEmpty DEF Read
<1>5. PICK h : h = Cut(<<>>, Limit)
  OBVIOUS
<1>6. h.done = <<>> /\ h.rest = <<>> /\ Heard = h
  BY <1>4, <1>5, CutFirst DEF Heard
<1>7. Len(Heard.done) = 0
  BY <1>6, EmptySeq
<1>8. Arrivals(0) = <<>>
  BY DEF Arrivals
<1>9. HostAt(0)
  BY <1>1, <1>2, <1>6, <1>7, <1>8 DEF HostAt
<1> QED
  BY <1>3, <1>9

(* Every step keeps the host in step with the stream.                      *)
LEMMA NextHostOK ==
    TypeOK /\ CallsOK /\ StreamOK /\ HostOK /\ [Next]_vars => HostOK'
<1> SUFFICES ASSUME TypeOK, CallsOK, StreamOK, HostOK, [Next]_vars PROVE HostOK'
  OBVIOUS
<1>1. ASSUME NEW t \in Threads, Emit(t) PROVE HostOK'
  <2>1. UNCHANGED <<setup, pipe, got, codec, decoded, emitted>>
    BY <1>1, EmitSets
  <2>2. Heard' = Heard
    BY <2>1 DEF Heard, Read, Limit
  <2> QED
    BY <2>1, <2>2, HostStays
<1>2. ASSUME NEW t \in Threads, EmitRaw(t) PROVE HostOK'
  <2>1. PICK m : m = thread[t].of
    OBVIOUS
  <2>2. /\ UNCHANGED <<setup, pipe, got, codec, decoded>> /\ thread[t].calls # <<>>
        /\ emitted' = IF FirstCall(t) THEN Append(emitted, m) ELSE emitted
    BY <1>2, <2>1, EmitRawSets
  <2>3. m \in Messages
    BY <2>1, <2>2 DEF CallsOK
  <2>4. Heard' = Heard
    BY <2>2 DEF Heard, Read, Limit
  <2>5. emitted' = emitted \/ \E x \in Messages : emitted' = Append(emitted, x)
    BY <2>2, <2>3
  <2> QED
    BY <2>2, <2>4, <2>5, HostStays
<1>3. ASSUME NEW t \in Threads, WriterTakes(t) PROVE HostOK'
  <2>1. /\ UNCHANGED <<setup, got, codec, decoded, emitted>>
        /\ SubSeq(pipe', 1, got) = SubSeq(pipe, 1, got)
    BY <1>3, WriterTakesSets
  <2>2. Heard' = Heard
    BY <2>1 DEF Heard, Read, Limit
  <2> QED
    BY <2>1, <2>2, HostStays
<1>4. ASSUME ReadChunk PROVE HostOK'
  <2>1. setup.format \in {"cobs", "text"}
    BY SetupIs DEF TypeOK
  <2> QED
    BY <1>4, <2>1, FeedCobsStep, FeedTextStep
<1>5. CASE UNCHANGED vars
  <2>1. UNCHANGED <<setup, pipe, got, codec, decoded, emitted>>
    BY <1>5 DEF vars
  <2>2. Heard' = Heard
    BY <2>1 DEF Heard, Read, Limit
  <2> QED
    BY <2>1, <2>2, HostStays
<1> QED
  BY <1>1, <1>2, <1>3, <1>4, <1>5 DEF Next

(* The inductive invariant.                                                *)
IInv == TypeOK /\ DroppedOK /\ CallsOK /\ StreamOK /\ HostOK

(* Whatever the threads and the chunks, the stream cut at its delimiters   *)
(* is the events in the order of emission, and the host has what it read.  *)
THEOREM HostFollowsStream == Spec => []IInv
<1>1. Init => IInv
  <2>1. Init => DroppedOK
    BY DEF Init, DroppedOK
  <2> QED
    BY <2>1, InitTypeOK, InitCallsOK, InitStreamOK, InitHostOK DEF IInv
<1>2. IInv /\ [Next]_vars => IInv'
  BY NextTypeOK, NextDroppedOK, NextCallsOK, NextStreamOK, NextHostOK DEF IInv
<1> QED
  BY <1>1, <1>2, PTL DEF Spec

-----------------------------------------------------------------------------
(* What follows of the events decoded.                                     *)
LEMMA ArrivalsAre ==
    ASSUME TypeOK, NEW n \in 0 .. Len(emitted)
    PROVE  /\ DOMAIN Arrivals(n) = 1 .. n /\ Len(Arrivals(n)) = n
           /\ (\A k \in 1 .. Len(emitted) : Arrives(emitted[k]) = Meant(emitted[k])) =>
                 IsPrefix(Arrivals(n), [k \in DOMAIN emitted |-> Meant(emitted[k])])
<1>1. PICK l, s : l = Len(emitted) /\ s = Arrivals(n)
  OBVIOUS
<1>2. l \in Nat /\ DOMAIN emitted = 1 .. l /\ n \in 0 .. l /\ n \in Nat /\ n <= l
  <2>1. l \in Nat /\ DOMAIN emitted = 1 .. l
    BY <1>1, LenProperties DEF TypeOK
  <2> QED
    BY <1>1, <2>1
<1>3. s = [k \in 1 .. n |-> Arrives(emitted[k])]
  BY <1>1 DEF Arrivals
<1> DEFINE X == {Arrives(emitted[k]) : k \in 1 .. l} \cup {Meant(emitted[k]) : k \in 1 .. l}
<1>4. \A k \in 1 .. n : k \in 1 .. l
  BY <1>2
<1>5. \A k \in 1 .. l : Arrives(emitted[k]) \in X /\ Meant(emitted[k]) \in X
  OBVIOUS
<1> HIDE DEF X
<1>6. s \in [1 .. n -> X]
  BY <1>3, <1>4, <1>5
<1>7. s \in Seq(X) /\ DOMAIN s = 1 .. n
  BY <1>2, <1>6, SeqDef
<1>8. Len(s) = n
  BY <1>2, <1>7, LenProperties
<1>9. ASSUME \A k \in 1 .. l : Arrives(emitted[k]) = Meant(emitted[k])
      PROVE  IsPrefix(s, [k \in DOMAIN emitted |-> Meant(emitted[k])])
  <2>1. PICK all : all = [k \in 1 .. l |-> Meant(emitted[k])]
    OBVIOUS
  <2>2. all \in [1 .. l -> X]
    BY <1>5, <2>1
  <2>3. all \in Seq(X) /\ DOMAIN all = 1 .. l
    BY <1>2, <2>2, SeqDef
  <2>4. Len(all) = l
    BY <1>2, <2>3, LenProperties
  <2>5. PICK p, r : p = SubSeq(all, 1, n) /\ r = SubSeq(all, n + 1, Len(all))
    OBVIOUS
  <2>6. p \in Seq(X) /\ r \in Seq(X) /\ Len(p) = n /\ p ++ r = all
    <3>1. n \in 0 .. Len(all)
      BY <1>2, <2>4
    <3> QED
      BY <2>3, <2>5, <3>1, SplitAt
  <2>7. \A i \in 1 .. n : all[i] = p[i]
    <3>1. Follows(all, p, r)
      BY <2>6, JoinAt
    <3> QED
      BY <2>6, <3>1 DEF Follows
  <2>8. \A i \in 1 .. n : s[i] = p[i]
    BY <1>3, <1>4, <1>9, <2>1, <2>7
  <2>9. s = p
    BY <1>7, <1>8, <2>6, <2>8, SeqEqual
  <2>10. SubSeq(s, 1, Len(s)) = s
    BY <1>7, SubSeqFull
  <2>11. IsPrefix(s, all)
    BY <1>2, <1>8, <2>4, <2>5, <2>9, <2>10 DEF IsPrefix
  <2> QED
    BY <1>2, <2>1, <2>11
<1> QED
  BY <1>1, <1>7, <1>8, <1>9

(* When all is written and read, the host has heard of every event.        *)
LEMMA AllHeard ==
    ASSUME TypeOK, CallsOK, StreamOK, Clear, got = Len(pipe),
           \A t \in Threads : begun[t] = <<>>, Ending = <<>>
    PROVE  Len(Heard.done) = Len(emitted)
<1>1. PICK p : p = pipe
  OBVIOUS
<1>2. p \in Seq(Nat)
  BY <1>1 DEF TypeOK
<1>3. Read(got) = p
  BY <1>1, <1>2, SubSeqFull DEF Read
<1>4. Stream = p
  <2>1. p ++ <<>> = p
    BY <1>2, Joining DEF Concatenates
  <2>2. begun[1] = <<>> /\ begun[2] = <<>>
    BY DEF Threads
  <2> QED
    BY <1>1, <2>1, <2>2 DEF Stream, Flow
<1>5. PICK pieces : pieces = PiecesOf(emitted)
  OBVIOUS
<1>6. Heard.done = pieces
  BY <1>3, <1>4, <1>5 DEF Heard, StreamOK
<1>7. pieces \in Seq(Seq(Nat))
  BY <1>2, <1>4, <1>5, CutType DEF StreamOK
<1>8. Len(pieces) = Len(emitted)
  <2>1. DOMAIN pieces = 1 .. Len(emitted)
    BY <1>5 DEF PiecesOf
  <2>2. DOMAIN pieces = 1 .. Len(pieces) /\ Len(pieces) \in Nat /\ Len(emitted) \in Nat
    BY <1>7, LenProperties DEF TypeOK
  <2> QED
    BY <2>1, <2>2
<1> QED
  BY <1>6, <1>8

(* The host's events are those meant, for frames that fit.                 *)
LEMMA FramesHold == IInv => FramesRoundTrip
<1> SUFFICES ASSUME IInv, setup.format = "cobs", CallsStayWhole,
                    \A k \in DOMAIN emitted : Fits(emitted[k]) /\ Utf8(emitted[k])
             PROVE  /\ codec.ok
                    /\ IsPrefix(decoded, [k \in DOMAIN emitted |-> Meant(emitted[k])])
                    /\ (got = Len(pipe) /\ lock = 0 /\ \A t \in Threads : begun[t] = <<>>)
                          => Len(decoded) = Len(emitted)
  BY DEF FramesRoundTrip
<1>1. TypeOK /\ CallsOK /\ StreamOK /\ HostOK
  BY DEF IInv
<1>2. Orderly /\ Clear
  BY DEF Orderly, Clear
<1>3. PICK n \in 0 .. Len(emitted) : HostAt(n)
  BY <1>1, <1>2 DEF HostOK
<1>4. DOMAIN emitted = 1 .. Len(emitted)
  BY <1>1, LenProperties DEF TypeOK
<1>5. ASSUME NEW k \in 1 .. Len(emitted)
      PROVE  Whole(emitted[k]) /\ Arrives(emitted[k]) = Meant(emitted[k])
  <2>1. PICK m : m = emitted[k]
    OBVIOUS
  <2>2. m \in Messages /\ Fits(m) /\ Utf8(m)
    BY <1>1, <1>4, <2>1, ElementOfSeq DEF TypeOK
  <2>3. Whole(m) /\ Sent(m) = Meant(m)
    BY <2>2, FitsWhole, SentWhole
  <2> QED
    BY <2>1, <2>3 DEF Arrives
<1>6. codec.ok
  BY <1>3, <1>5 DEF HostAt
<1>7. decoded = Arrivals(n) /\ n = Len(Heard.done)
  BY <1>3, <1>6 DEF HostAt
<1>8. IsPrefix(decoded, [k \in DOMAIN emitted |-> Meant(emitted[k])]) /\ Len(decoded) = n
  BY <1>1, <1>5, <1>7, ArrivalsAre
<1>9. ASSUME got = Len(pipe), \A t \in Threads : begun[t] = <<>>
      PROVE  Len(decoded) = Len(emitted)
  <2>1. Ending = <<>>
    BY EndingType
  <2>2. Len(Heard.done) = Len(emitted)
    BY <1>1, <1>2, <1>9, <2>1, AllHeard
  <2> QED
    BY <1>7, <1>8, <2>2
<1> QED
  BY <1>6, <1>8, <1>9

(* Any frame: what is left out did not fit, and the rest arrives in order. *)
LEMMA LongEventsHold == IInv => LongEventsOnlyGoMissing
<1> SUFFICES ASSUME IInv, setup.format = "cobs", CallsStayWhole
             PROVE  /\ \A m \in dropped : ~Fits(m)
                    /\ ~codec.ok => \E k \in DOMAIN emitted : ~Fits(emitted[k])
                    /\ Len(decoded) <= Len(emitted)
                    /\ \A d \in DOMAIN decoded : ArrivesAs(decoded[d], Meant(emitted[d]))
                    /\ (/\ codec.ok /\ got = Len(pipe) /\ lock = 0
                        /\ \A t \in Threads : begun[t] = <<>>)
                          => Len(decoded) = Len(emitted)
  BY DEF LongEventsOnlyGoMissing
<1>1. TypeOK /\ CallsOK /\ StreamOK /\ HostOK
  BY DEF IInv
<1>2. Orderly /\ Clear
  BY DEF Orderly, Clear
<1>3. PICK n \in 0 .. Len(emitted) : HostAt(n)
  BY <1>1, <1>2 DEF HostOK
<1>4. DOMAIN emitted = 1 .. Len(emitted) /\ Len(emitted) \in Nat
  BY <1>1, LenProperties DEF TypeOK
<1>5. ASSUME ~codec.ok PROVE \E k \in DOMAIN emitted : ~Fits(emitted[k])
  <2>1. PICK k \in 1 .. Len(emitted) : ~Whole(emitted[k])
    BY <1>3, <1>5 DEF HostAt
  <2>2. PICK m : m = emitted[k]
    OBVIOUS
  <2>3. m \in Messages /\ ~Whole(m)
    BY <1>1, <2>1, <2>2, ElementOfSeq DEF TypeOK
  <2>4. ~Fits(m)
    BY <2>3, FitsWhole
  <2> QED
    BY <1>4, <2>2, <2>4
<1>6. decoded = Arrivals(n) /\ DOMAIN decoded = 1 .. n /\ Len(decoded) = n
  BY <1>1, <1>3, ArrivalsAre DEF HostAt
<1>7. ASSUME NEW d \in DOMAIN decoded PROVE ArrivesAs(decoded[d], Meant(emitted[d]))
  <2>1. d \in 1 .. n /\ d \in 1 .. Len(emitted)
    BY <1>4, <1>6, <1>7
  <2>2. PICK m : m = emitted[d]
    OBVIOUS
  <2>3. m \in Messages
    BY <1>1, <2>1, <2>2, ElementOfSeq DEF TypeOK
  <2>4. decoded[d] = Sent(m)
    BY <1>6, <2>1, <2>2 DEF Arrivals, Arrives
  <2>5. ArrivesAs(Sent(m), Meant(m))
    BY <2>3, SentBegins DEF ArrivesAs
  <2> QED
    BY <2>2, <2>4, <2>5
<1>8. Len(decoded) <= Len(emitted)
  BY <1>4, <1>6
<1>9. ASSUME NEW m \in dropped PROVE ~Fits(m)
  <2>1. m \in Messages /\ Payload(m) = <<>>
    BY <1>9 DEF IInv, TypeOK, DroppedOK
  <2> QED
    BY <2>1, FitsWhole
<1>10. ASSUME codec.ok, got = Len(pipe), \A t \in Threads : begun[t] = <<>>
       PROVE  Len(decoded) = Len(emitted)
  <2>1. Ending = <<>>
    BY EndingType
  <2>2. Len(Heard.done) = Len(emitted)
    BY <1>1, <1>2, <1>10, <2>1, AllHeard
  <2>3. n = Len(Heard.done)
    BY <1>3, <1>10 DEF HostAt
  <2> QED
    BY <1>6, <2>2, <2>3
<1> QED
  BY <1>5, <1>7, <1>8, <1>9, <1>10

(* The host's events are those meant, for plain lines.                     *)
LEMMA LinesHold == IInv => LinesRoundTrip
<1> SUFFICES ASSUME IInv, setup.format = "text", setup.threads = {1},
                    \A k \in DOMAIN emitted : Plain(emitted[k])
             PROVE  /\ IsPrefix(decoded, [k \in DOMAIN emitted |-> Meant(emitted[k])])
                    /\ (got = Len(pipe)
                           /\ \A t \in Threads : begun[t] = <<>> /\ thread[t].calls = <<>>)
                          => Len(decoded) = Len(emitted)
  BY DEF LinesRoundTrip
<1>1. TypeOK /\ CallsOK /\ StreamOK /\ HostOK
  BY DEF IInv
<1>2. DOMAIN emitted = 1 .. Len(emitted)
  BY <1>1, LenProperties DEF TypeOK
<1>3. Orderly /\ Clear
  BY <1>2 DEF Orderly, Clear
<1>4. PICK n \in 0 .. Len(emitted) : HostAt(n)
  BY <1>1, <1>3 DEF HostOK
<1>5. "text" # "cobs"
  OBVIOUS
<1>6. codec.ok /\ \A m : Arrives(m) = Meant(m)
  BY <1>4, <1>5 DEF HostAt, Arrives
<1>7. decoded = Arrivals(n) /\ n = Len(Heard.done)
  BY <1>4, <1>6 DEF HostAt
<1>8. IsPrefix(decoded, [k \in DOMAIN emitted |-> Meant(emitted[k])]) /\ Len(decoded) = n
  BY <1>1, <1>6, <1>7, ArrivalsAre
<1>9. ASSUME got = Len(pipe), \A t \in Threads : begun[t] = <<>> /\ thread[t].calls = <<>>
      PROVE  Len(decoded) = Len(emitted)
  <2>1. thread[1].calls = <<>> /\ \A t \in Threads : begun[t] = <<>>
    BY <1>9 DEF Threads
  <2>2. Ending = <<>>
    BY <2>1 DEF Ending
  <2>3. Len(Heard.done) = Len(emitted)
    BY <1>1, <1>3, <1>9, <2>1, <2>2, AllHeard
  <2> QED
    BY <1>7, <1>8, <2>3
<1> QED
  BY <1>8, <1>9

(* Binary form: events that fit the buffer arrive as they were meant, in   *)
(* order, and all of them in the end.                                      *)
THEOREM FramesArrive == Spec => []FramesRoundTrip
BY HostFollowsStream, FramesHold, PTL

(* Binary form, any event: emit_msg leaves out, and the host gives up at,  *)
(* only what does not fit; all that is written arrives in order, as it was *)
(* meant but for ends of names and texts that are cut.                     *)
THEOREM LongEventsGoMissing == Spec => []LongEventsOnlyGoMissing
BY HostFollowsStream, LongEventsHold, PTL

(* Text form, one thread: lines that are not cut, with no newline, return  *)
(* or character of two bytes in them, no blank in a name or the file, no   *)
(* dot in the suite and a name where a suite ends, arrive as they were     *)
(* meant, in order, and all of them in the end.                            *)
THEOREM LinesArrive == Spec => []LinesRoundTrip
BY HostFollowsStream, LinesHold, PTL

=============================================================================
