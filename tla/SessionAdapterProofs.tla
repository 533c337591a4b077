------------------------ MODULE SessionAdapterProofs ------------------------
(***************************************************************************)
(* Facts about pages, about the limits of the codec and about rounds that  *)
(* the proofs about sessions with devices and with relays rest on.         *)
(***************************************************************************)
EXTENDS SessionAdapter, FiniteSetTheorems, SequenceTheorems, TLAPS

(***************************************************************************)
(* Pages.  The rank of an id is its position in digest order, from 0.      *)
(***************************************************************************)
Rank(ids, i) == Cardinality({j \in ids : j < i})

LEMMA RankIncreases ==
    ASSUME NEW ids \in SUBSET Nat, IsFiniteSet(ids), NEW i \in ids, NEW k \in ids, i < k
    PROVE  /\ Rank(ids, i) \in Nat /\ Rank(ids, k) \in Nat
           /\ Rank(ids, i) < Rank(ids, k)
  <1> DEFINE A == {j \in ids : j < i}
             B == {j \in ids : j < k}
  <1>1. IsFiniteSet(B)
    BY FS_Subset
  <1>2. A \in SUBSET B /\ i \in B /\ i \notin A
    <2>1. i \in Nat /\ k \in Nat /\ \A j \in ids : j \in Nat
      OBVIOUS
    <2>2. \A j \in ids : j < i => j < k
      BY <2>1
    <2>3. i \in B /\ i \notin A
      BY <2>1
    <2>4. A \subseteq B
      BY ZenonT(30), <2>2
    <2> QED BY <2>3, <2>4
  <1> HIDE DEF A, B
  <1>3. /\ IsFiniteSet(A) /\ Cardinality(A) <= Cardinality(B)
        /\ Cardinality(B) = Cardinality(A) => B = A
    BY ZenonT(30), <1>1, <1>2, FS_Subset
  <1>4. Cardinality(A) \in Nat /\ Cardinality(B) \in Nat
    BY <1>1, <1>3, FS_CardinalityType
  <1> QED BY <1>2, <1>3, <1>4 DEF Rank, A, B

\* No two ids have the same rank.
LEMMA RankIsInjective ==
    ASSUME NEW ids \in SUBSET Nat, IsFiniteSet(ids)
    PROVE  /\ \A i \in ids : Rank(ids, i) \in Nat
           /\ \A i, k \in ids : Rank(ids, i) = Rank(ids, k) => i = k
  <1>1. \A i \in ids : Rank(ids, i) \in Nat
    BY FS_Subset, FS_CardinalityType DEF Rank
  <1>2. ASSUME NEW i \in ids, NEW k \in ids, Rank(ids, i) = Rank(ids, k), i # k
        PROVE  FALSE
    <2>1. i < k \/ k < i
      BY <1>2
    <2> QED BY <1>2, <2>1, RankIncreases
  <1> QED BY <1>1, <1>2

\* A page has no more ids than its limit.
LEMMA PageWithinLimit ==
    ASSUME NEW ids \in SUBSET Nat, IsFiniteSet(ids), NEW limit \in Nat
    PROVE  /\ FirstOf(ids, limit) \subseteq ids
           /\ IsFiniteSet(FirstOf(ids, limit)) /\ Cardinality(FirstOf(ids, limit)) <= limit
  <1> DEFINE page == FirstOf(ids, limit)
             rank == [i \in page |-> Rank(ids, i)]
  <1>1. page \subseteq ids /\ \A i \in page : Rank(ids, i) < limit
    BY DEF FirstOf, Rank
  <1> HIDE DEF page
  <1>2. rank \in [page -> 0 .. limit - 1]
    BY <1>1, RankIsInjective
  <1>3. rank \in Injection(page, 0 .. limit - 1)
    BY <1>1, <1>2, RankIsInjective DEF Injection, IsInjective
  <1>4. IsFiniteSet(0 .. limit - 1) /\ Cardinality(0 .. limit - 1) = limit
    BY FS_Interval
  <1> HIDE DEF rank
  <1>5. IsFiniteSet(page) /\ Cardinality(page) <= limit
    BY <1>3, <1>4, FS_Injection
  <1> QED BY <1>1, <1>5 DEF page

\* What one more id adds to a page is one id at most.
LEMMA PageStep ==
    ASSUME NEW ids \in SUBSET Nat, IsFiniteSet(ids), NEW k \in Nat \ {0}
    PROVE  /\ FirstOf(ids, k) \ FirstOf(ids, k - 1) \subseteq ids
           /\ Cardinality(FirstOf(ids, k) \ FirstOf(ids, k - 1)) <= 1
  <1> DEFINE added == FirstOf(ids, k) \ FirstOf(ids, k - 1)
  <1>1. added \subseteq ids /\ \A i \in added : Rank(ids, i) < k /\ ~(Rank(ids, i) < k - 1)
    BY DEF FirstOf, Rank
  <1> HIDE DEF added
  <1>2. \A i \in added : Rank(ids, i) = k - 1
    BY <1>1, RankIsInjective
  <1>3. \A i, j \in added : i = j
    BY <1>1, <1>2, RankIsInjective
  <1>4. added = {} \/ \E i : added = {i}
    BY <1>3
  <1>5. Cardinality(added) = 0 \/ Cardinality(added) = 1
    BY ZenonT(30), <1>4, FS_EmptySet, FS_Singleton
  <1> QED BY <1>1, <1>5 DEF added

\* A frame of some type within its limit parses.
LEMMA ParsesFacts ==
    ASSUME NEW frame
    PROVE  /\ frame.type = "HELLO" => Parses(frame)
           /\ frame.type = "SUMMARY" =>
                 (Parses(frame) <=> Cardinality(frame.ids) <= MaxSummaryPreviewItems)
           /\ frame.type = "REQUEST" =>
                 (Parses(frame) <=> Cardinality(frame.ids) <= MaxWantItems)
           /\ frame.type \in {"TRANSFER", "RECEIPT"} =>
                 (Parses(frame) <=> Cardinality(frame.ids) <= MaxTransferItems)
  BY ZenonT(30) DEF Parses, ParsesSummary, ParsesRequest, ParsesTransfer, ParsesReceipt

-----------------------------------------------------------------------------
(***************************************************************************)
(* Rounds.  A relay that serves offers what it has (SUMMARY), is asked     *)
(* (REQUEST), sends (TRANSFER) and is told what was taken (RECEIPT); the   *)
(* HELLO of the other side asks for the first offer.  In a round at most   *)
(* one of these frames is under way, whatever else is, and what it lists   *)
(* is expected in the RECEIPT.                                             *)
(***************************************************************************)
Offers == {"SUMMARY", "TRANSFER"}
Asks   == {"HELLO", "REQUEST", "RECEIPT"}

Has(w, types)  == \E f \in Range(w) : f.type \in types
Once(w, types) == \A j, k \in 1 .. Len(w) : w[j].type \in types /\ w[k].type \in types => j = k

Expects(adapter, ids) == adapter.awaiting /\ ids \subseteq adapter.expected

\* served is what the serving relay has sent and asked what it was sent.
Round(served, asked, adapter) ==
    /\ Once(served, Offers) /\ Once(asked, Asks)
    /\ ~(Has(served, Offers) /\ Has(asked, Asks))
    /\ \A f \in Range(served) : f.type = "TRANSFER" => Expects(adapter, f.ids)
    /\ \A f \in Range(asked) : f.type = "RECEIPT" => Expects(adapter, f.ids)

LEMMA TupleOnce ==
    /\ \A types : Once(<<>>, types)
    /\ \A f, types : Once(<<f>>, types)
    /\ \A f, g : f.type \notin Offers \/ g.type \notin Offers => Once(<<f, g>>, Offers)
    /\ \A f, g : f.type \notin Asks \/ g.type \notin Asks => Once(<<f, g>>, Asks)
  BY DEF Once

\* What reading the first frame of a wire leaves behind.
LEMMA TailOnce ==
    ASSUME NEW S, NEW w \in Seq(S), w # <<>>, NEW types, Once(w, types)
    PROVE  /\ Once(Tail(w), types)
           /\ Has(Tail(w), types) => Has(w, types)
           /\ Head(w).type \in types => ~Has(Tail(w), types) /\ Has(w, types)
  <1>1. Len(w) \in Nat \ {0} /\ DOMAIN w = 1 .. Len(w) /\ 1 \in 1 .. Len(w)
    BY EmptySeq, LenProperties
  <1>2. Head(w) = w[1]
    OBVIOUS
  <1>3. /\ Tail(w) \in Seq(S) /\ Len(Tail(w)) = Len(w) - 1
        /\ \A k \in 1 .. Len(Tail(w)) : Tail(w)[k] = w[k + 1] /\ k + 1 \in 1 .. Len(w)
    BY <1>1, HeadTailProperties
  <1>4. DOMAIN Tail(w) = 1 .. Len(Tail(w))
    BY <1>3, LenProperties
  <1>5. Once(Tail(w), types)
    <2> SUFFICES ASSUME NEW j \in 1 .. Len(Tail(w)), NEW k \in 1 .. Len(Tail(w)),
                        Tail(w)[j].type \in types, Tail(w)[k].type \in types
                 PROVE  j = k
      BY DEF Once
    <2>1. j + 1 = k + 1
      BY <1>3 DEF Once
    <2> QED BY <2>1
  <1>6. Has(Tail(w), types) => \E k \in 1 .. Len(w) : k # 1 /\ w[k].type \in types
    <2> SUFFICES ASSUME NEW k \in 1 .. Len(Tail(w)), Tail(w)[k].type \in types
                 PROVE  \E n \in 1 .. Len(w) : n # 1 /\ w[n].type \in types
      BY <1>4 DEF Has, Range
    <2>1. k + 1 \in 1 .. Len(w) /\ k + 1 # 1 /\ w[k + 1].type \in types
      BY <1>3
    <2> QED BY <2>1
  <1>7. Has(Tail(w), types) => Has(w, types)
    BY <1>1, <1>6 DEF Has, Range
  <1>8. Head(w).type \in types => ~Has(Tail(w), types) /\ Has(w, types)
    BY <1>1, <1>2, <1>6 DEF Once, Has, Range
  <1> QED BY <1>5, <1>7, <1>8

LEMMA ConcatOnce ==
    ASSUME NEW S, NEW w \in Seq(S), NEW r \in Seq(S), NEW types,
           Once(w, types), Once(r, types), ~(Has(w, types) /\ Has(r, types))
    PROVE  Once(w \o r, types)
  <1>1. Len(w) \in Nat /\ Len(r) \in Nat /\ DOMAIN w = 1 .. Len(w) /\ DOMAIN r = 1 .. Len(r)
    BY LenProperties
  <1>2. /\ Len(w \o r) = Len(w) + Len(r)
        /\ \A k \in 1 .. Len(w) + Len(r) :
              (w \o r)[k] = IF k <= Len(w) THEN w[k] ELSE r[k - Len(w)]
    BY ConcatProperties
  <1> SUFFICES ASSUME NEW j \in 1 .. Len(w) + Len(r), NEW k \in 1 .. Len(w) + Len(r),
                      (w \o r)[j].type \in types, (w \o r)[k].type \in types
               PROVE  j = k
    BY <1>2 DEF Once
  <1>3. ASSUME NEW n \in 1 .. Len(w) + Len(r), (w \o r)[n].type \in types
        PROVE  \/ n \in 1 .. Len(w) /\ w[n].type \in types /\ Has(w, types)
               \/ n - Len(w) \in 1 .. Len(r) /\ r[n - Len(w)].type \in types /\ Has(r, types)
    <2>1. CASE n <= Len(w)
      <3>1. n \in DOMAIN w /\ w[n].type \in types
        BY <1>1, <1>2, <1>3, <2>1
      <3> QED BY <1>1, <3>1 DEF Has, Range
    <2>2. CASE ~(n <= Len(w))
      <3>1. n - Len(w) \in DOMAIN r /\ r[n - Len(w)].type \in types
        BY <1>1, <1>2, <1>3, <2>2
      <3> QED BY ZenonT(30), <1>1, <3>1 DEF Has, Range
    <2> QED BY <2>1, <2>2
  <1>4. CASE Has(w, types)
    <2>1. j \in 1 .. Len(w) /\ w[j].type \in types /\ k \in 1 .. Len(w) /\ w[k].type \in types
      BY <1>3, <1>4
    <2> QED BY <2>1 DEF Once
  <1>5. CASE ~Has(w, types)
    <2>1. /\ j - Len(w) \in 1 .. Len(r) /\ r[j - Len(w)].type \in types
          /\ k - Len(w) \in 1 .. Len(r) /\ r[k - Len(w)].type \in types
      BY <1>3, <1>5
    <2>2. j - Len(w) = k - Len(w)
      BY <2>1 DEF Once
    <2> QED BY <1>1, <2>2
  <1> QED BY <1>4, <1>5

LEMMA ConcatHas ==
    ASSUME NEW S, NEW w \in Seq(S), NEW r \in Seq(S), NEW types
    PROVE  Has(w \o r, types) <=> Has(w, types) \/ Has(r, types)
  BY RangeConcatenation DEF Has

LEMMA TailRange ==
    ASSUME NEW S, NEW w \in Seq(S), w # <<>>
    PROVE  /\ Tail(w) \in Seq(S) /\ Head(w) \in Range(w)
           /\ Range(Tail(w)) \subseteq Range(w)
  <1>1. Len(w) \in Nat \ {0} /\ DOMAIN w = 1 .. Len(w) /\ 1 \in 1 .. Len(w)
    BY EmptySeq, LenProperties
  <1>2. /\ Tail(w) \in Seq(S) /\ Head(w) = w[1]
        /\ \A k \in 1 .. Len(Tail(w)) : Tail(w)[k] = w[k + 1] /\ k + 1 \in 1 .. Len(w)
    BY <1>1, HeadTailProperties
  <1>3. DOMAIN Tail(w) = 1 .. Len(Tail(w))
    BY <1>2, LenProperties
  <1> QED BY <1>1, <1>2, <1>3 DEF Range

\* The serving relay reads a frame and answers with r.
LEMMA RoundServes ==
    ASSUME NEW S, NEW w \in Seq(S), NEW v \in Seq(S), v # <<>>, NEW r \in Seq(S),
           NEW adapter, NEW after, Round(w, v, adapter), Once(r, Offers),
           Has(r, Offers) \/ after # adapter => Head(v).type \in Asks,
           \A f \in Range(r) : f.type = "TRANSFER" => Expects(after, f.ids)
    PROVE  Round(w \o r, Tail(v), after)
  <1>1. /\ Once(Tail(v), Asks)
        /\ Has(Tail(v), Asks) => Has(v, Asks)
        /\ Head(v).type \in Asks => ~Has(Tail(v), Asks) /\ Has(v, Asks)
    BY TailOnce DEF Round
  <1>2. Has(w \o r, Offers) <=> Has(w, Offers) \/ Has(r, Offers)
    BY ConcatHas
  <1>3. Range(w \o r) = Range(w) \cup Range(r) /\ Range(Tail(v)) \subseteq Range(v)
    BY RangeConcatenation, TailRange
  <1>4. ~(Has(w, Offers) /\ Has(r, Offers)) /\ ~(Has(w \o r, Offers) /\ Has(Tail(v), Asks))
    BY ZenonT(30), <1>1, <1>2 DEF Round
  <1>5. Once(w \o r, Offers)
    BY <1>4, ConcatOnce DEF Round
  <1>6. \A f \in Range(w) : f.type = "TRANSFER" => Expects(after, f.ids)
    <2>1. CASE Head(v).type \in Asks
      <3>1. ~Has(w, Offers)
        BY <1>1, <2>1 DEF Round
      <3> QED BY <3>1 DEF Has, Offers
    <2>2. CASE Head(v).type \notin Asks
      BY <2>2 DEF Round
    <2> QED BY <2>1, <2>2
  <1>7. \A f \in Range(Tail(v)) : f.type = "RECEIPT" => Expects(after, f.ids)
    <2>1. CASE Head(v).type \in Asks
      <3>1. ~Has(Tail(v), Asks)
        BY <1>1, <2>1
      <3> QED BY <3>1 DEF Has, Asks
    <2>2. CASE Head(v).type \notin Asks
      BY <1>3, <2>2 DEF Round
    <2> QED BY <2>1, <2>2
  <1>8. \A f \in Range(w \o r) : f.type = "TRANSFER" => Expects(after, f.ids)
    BY <1>3, <1>6
  <1> QED BY ZenonT(30), <1>1, <1>4, <1>5, <1>7, <1>8 DEF Round

\* The other relay reads a frame and answers with r.
LEMMA RoundAsks ==
    ASSUME NEW S, NEW w \in Seq(S), w # <<>>, NEW v \in Seq(S), NEW r \in Seq(S),
           NEW adapter, Round(w, v, adapter), Once(r, Asks),
           Has(r, Asks) => \/ Head(w).type \in Offers
                           \/ ~Has(Tail(w), Offers) /\ ~Has(v, Asks),
           \A f \in Range(r) : f.type = "RECEIPT" =>
               Head(w).type = "TRANSFER" /\ f.ids \subseteq Head(w).ids
    PROVE  Round(Tail(w), v \o r, adapter)
  <1>1. /\ Once(Tail(w), Offers)
        /\ Has(Tail(w), Offers) => Has(w, Offers)
        /\ Head(w).type \in Offers => ~Has(Tail(w), Offers) /\ Has(w, Offers)
    BY TailOnce DEF Round
  <1>2. Has(v \o r, Asks) <=> Has(v, Asks) \/ Has(r, Asks)
    BY ConcatHas
  <1>3. /\ Range(v \o r) = Range(v) \cup Range(r) /\ Range(Tail(w)) \subseteq Range(w)
        /\ Head(w) \in Range(w)
    BY RangeConcatenation, TailRange
  <1>4. ~(Has(v, Asks) /\ Has(r, Asks)) /\ ~(Has(Tail(w), Offers) /\ Has(v \o r, Asks))
    BY ZenonT(30), <1>1, <1>2 DEF Round
  <1>5. Once(v \o r, Asks)
    BY <1>4, ConcatOnce DEF Round
  <1>6. \A f \in Range(Tail(w)) : f.type = "TRANSFER" => Expects(adapter, f.ids)
    BY <1>3 DEF Round
  <1>7. \A f \in Range(v \o r) : f.type = "RECEIPT" => Expects(adapter, f.ids)
    BY <1>3 DEF Round, Expects
  <1> QED BY ZenonT(30), <1>1, <1>4, <1>5, <1>6, <1>7 DEF Round

\* Frames that ask for nothing may follow what the serving relay was sent.
LEMMA RoundForwards ==
    ASSUME NEW S, NEW w \in Seq(S), NEW v \in Seq(S), NEW r \in Seq(S),
           NEW adapter, Round(w, v, adapter), \A f \in Range(r) : f.type = "SUMMARY"
    PROVE  Round(w, v \o r, adapter)
  <1>1. ~Has(r, Asks) /\ Range(v \o r) = Range(v) \cup Range(r)
    BY RangeConcatenation DEF Has, Asks
  <1>2. Once(r, Asks)
    BY <1>1, LenProperties DEF Once, Has, Range
  <1>3. Has(v \o r, Asks) <=> Has(v, Asks)
    BY <1>1, ConcatHas
  <1>4. Once(v \o r, Asks)
    BY <1>1, <1>2, ConcatOnce DEF Round
  <1> QED BY <1>1, <1>3, <1>4 DEF Round

\* Only the types of the frames count, and what a RECEIPT lists.
LEMMA RoundOfTypes ==
    ASSUME NEW S, NEW u \in Seq(S), NEW v \in Seq(S), Len(u) = Len(v),
           \A k \in 1 .. Len(u) : /\ v[k].type = u[k].type
                                  /\ u[k].type = "RECEIPT" => v[k].ids = u[k].ids
    PROVE  /\ \A types : Has(v, types) <=> Has(u, types)
           /\ \A w, adapter : Round(w, u, adapter) => Round(w, v, adapter)
  <1>1. DOMAIN u = 1 .. Len(u) /\ DOMAIN v = 1 .. Len(u)
    BY LenProperties
  <1>2. \A types : Has(v, types) <=> Has(u, types)
    BY <1>1 DEF Has, Range
  <1>3. Once(u, Asks) => Once(v, Asks)
    BY <1>1 DEF Once
  <1>4. \A f \in Range(v) : f.type = "RECEIPT" =>
           \E g \in Range(u) : g.type = "RECEIPT" /\ g.ids = f.ids
    BY <1>1 DEF Range
  <1> QED BY ZenonT(30), <1>2, <1>3, <1>4 DEF Round

LEMMA HeadOfConcat ==
    ASSUME NEW S, NEW s \in Seq(S), s # <<>>, NEW t \in Seq(S)
    PROVE  /\ s \o t \in Seq(S) /\ s \o t # <<>> /\ Head(s \o t) = Head(s)
           /\ Tail(s \o t) = Tail(s) \o t
  <1>1. Len(s) \in Nat \ {0} /\ Len(t) \in Nat
    BY EmptySeq, LenProperties
  <1>2. /\ s \o t \in Seq(S) /\ Len(s \o t) = Len(s) + Len(t)
        /\ \A i \in 1 .. Len(s) + Len(t) : (s \o t)[i] = IF i <= Len(s) THEN s[i] ELSE t[i - Len(s)]
    BY ConcatProperties
  <1>3. s \o t # <<>>
    BY <1>1, <1>2
  <1>4. Head(s \o t) = Head(s)
    BY <1>1, <1>2
  <1>5. /\ Tail(s) \in Seq(S) /\ Len(Tail(s)) = Len(s) - 1
        /\ \A i \in 1 .. Len(s) - 1 : Tail(s)[i] = s[i + 1]
    BY HeadTailProperties
  <1>6. /\ Tail(s \o t) \in Seq(S) /\ Len(Tail(s \o t)) = Len(s) + Len(t) - 1
        /\ \A i \in 1 .. Len(s) + Len(t) - 1 : Tail(s \o t)[i] = (s \o t)[i + 1]
    BY <1>2, <1>3, HeadTailProperties
  <1>7. /\ Tail(s) \o t \in Seq(S) /\ Len(Tail(s) \o t) = Len(s) - 1 + Len(t)
        /\ \A i \in 1 .. Len(s) - 1 + Len(t) :
              (Tail(s) \o t)[i] = IF i <= Len(s) - 1 THEN Tail(s)[i] ELSE t[i - (Len(s) - 1)]
    BY <1>5, ConcatProperties
  <1>8. ASSUME NEW i \in 1 .. Len(s) + Len(t) - 1
        PROVE  Tail(s \o t)[i] = (Tail(s) \o t)[i]
    <2>1. i + 1 \in 1 .. Len(s) + Len(t) /\ i \in 1 .. Len(s) - 1 + Len(t)
      BY <1>1
    <2>2. CASE i <= Len(s) - 1
      BY <1>1, <1>2, <1>5, <1>6, <1>7, <2>1, <2>2
    <2>3. CASE ~(i <= Len(s) - 1)
      BY <1>1, <1>2, <1>6, <1>7, <2>1, <2>3
    <2> QED BY <2>2, <2>3
  <1>9. Tail(s \o t) = Tail(s) \o t
    <2>1. Len(Tail(s \o t)) = Len(Tail(s) \o t)
      BY <1>1, <1>6, <1>7
    <2>2. \A i \in 1 .. Len(Tail(s \o t)) : Tail(s \o t)[i] = (Tail(s) \o t)[i]
      BY <1>6, <1>8
    <2> QED BY <1>6, <1>7, <2>1, <2>2, SeqEqual
  <1> QED BY <1>2, <1>3, <1>4, <1>9
=============================================================================
