------------------------- MODULE AutomaticWorldProofs -------------------------
(***************************************************************************)
(* Proofs about AutomaticWorld for any exchanges, receipts, policies,      *)
(* adapters and bounds.                                                    *)
(***************************************************************************)
EXTENDS AutomaticWorld, FiniteSetTheorems, FunctionTheorems,
        SequenceTheorems, TLAPS

--------------------------------------------------------------------------------
(* Subsequences *)

\* A place has fewer before it than a later one.
LEMMA RankGrows ==
    ASSUME NEW P \in SUBSET Int, IsFiniteSet(P),
           NEW i \in P, NEW j \in P, i < j
    PROVE  Cardinality(PlacesBefore(P, i)) < Cardinality(PlacesBefore(P, j))
<1>1. IsFiniteSet(PlacesBefore(P, j)) /\ IsFiniteSet(PlacesBefore(P, i))
  BY FS_Subset DEF PlacesBefore
<1>2. i \notin PlacesBefore(P, i) /\ PlacesBefore(P, i) \cup {i} \in SUBSET PlacesBefore(P, j)
  <2>1. i \in Int /\ j \in Int /\ \A x \in P : x \in Int
    OBVIOUS
  <2>2. i \notin PlacesBefore(P, i)
    BY <2>1 DEF PlacesBefore
  <2>3. ASSUME NEW x \in PlacesBefore(P, i) \cup {i} PROVE x \in PlacesBefore(P, j)
    BY <2>1, <2>3 DEF PlacesBefore
  <2> QED
    BY <2>2, <2>3
<1>3. Cardinality(PlacesBefore(P, i) \cup {i}) = Cardinality(PlacesBefore(P, i)) + 1
  BY <1>1, <1>2, FS_AddElement
<1>4. Cardinality(PlacesBefore(P, i) \cup {i}) <= Cardinality(PlacesBefore(P, j))
  BY <1>1, <1>2, FS_Subset
<1>5. Cardinality(PlacesBefore(P, i)) \in Nat /\ Cardinality(PlacesBefore(P, j)) \in Nat
  BY <1>1, FS_CardinalityType
<1> QED
  BY <1>3, <1>4, <1>5

\* A place has fewer before it than there are places.
LEMMA RankBound ==
    ASSUME NEW P \in SUBSET Int, IsFiniteSet(P), NEW i \in P
    PROVE  /\ Cardinality(P) \in Nat
           /\ Cardinality(PlacesBefore(P, i)) \in 0..(Cardinality(P) - 1)
<1>1. IsFiniteSet(PlacesBefore(P, i))
  BY FS_Subset DEF PlacesBefore
<1>2. i \notin PlacesBefore(P, i) /\ PlacesBefore(P, i) \cup {i} \in SUBSET P
  BY DEF PlacesBefore
<1>3. Cardinality(PlacesBefore(P, i) \cup {i}) = Cardinality(PlacesBefore(P, i)) + 1
  BY <1>1, <1>2, FS_AddElement
<1>4. Cardinality(PlacesBefore(P, i) \cup {i}) <= Cardinality(P)
  BY <1>2, FS_Subset
<1>5. Cardinality(PlacesBefore(P, i)) \in Nat /\ Cardinality(P) \in Nat
  BY <1>1, FS_CardinalityType
<1> QED
  BY <1>3, <1>4, <1>5

\* Two places do not have the same number before them.
LEMMA RankUnique ==
    ASSUME NEW P \in SUBSET Int, IsFiniteSet(P),
           NEW i \in P, NEW j \in P,
           Cardinality(PlacesBefore(P, i)) = Cardinality(PlacesBefore(P, j))
    PROVE  i = j
<1>1. Cardinality(PlacesBefore(P, i)) \in Int /\ Cardinality(PlacesBefore(P, j)) \in Int
  BY RankBound
<1>2. i \in Int /\ j \in Int
  OBVIOUS
<1>3. i < j => Cardinality(PlacesBefore(P, i)) < Cardinality(PlacesBefore(P, j))
  BY RankGrows
<1>4. j < i => Cardinality(PlacesBefore(P, j)) < Cardinality(PlacesBefore(P, i))
  BY RankGrows
<1>5. ~(i < j) /\ ~(j < i)
  BY <1>1, <1>3, <1>4
<1> QED
  BY <1>2, <1>5

\* Every number below the number of places is that of a place.
LEMMA RankOnto ==
    ASSUME NEW P \in SUBSET Int, IsFiniteSet(P),
           NEW k \in 1..Cardinality(P)
    PROVE  \E i \in P : Cardinality(PlacesBefore(P, i)) = k - 1
<1>1. PICK n \in Nat : n = Cardinality(P)
  BY FS_CardinalityType
<1>2. PICK f : f = [i \in P |-> Cardinality(PlacesBefore(P, i))]
  OBVIOUS
<1>3. PICK R : R = {Cardinality(PlacesBefore(P, i)) : i \in P}
  OBVIOUS
<1>4. f \in Bijection(P, R)
  <2>1. f \in [P -> R]
    BY <1>2, <1>3
  <2>2. ASSUME NEW i \in P, NEW j \in P, f[i] = f[j] PROVE i = j
    <3>1. Cardinality(PlacesBefore(P, i)) = Cardinality(PlacesBefore(P, j))
      BY <1>2, <2>2
    <3> QED
      BY <3>1, RankUnique
  <2>3. \A r \in R : \E i \in P : f[i] = r
    BY <1>2, <1>3
  <2> QED
    BY <2>1, <2>2, <2>3, Fun_IsBij
<1>5. IsFiniteSet(R) /\ Cardinality(R) = n
  BY <1>1, <1>4, FS_Bijection DEF ExistsBijection
<1>6. R \in SUBSET (0..(n - 1))
  BY <1>1, <1>3, RankBound
<1>7. IsFiniteSet(0..(n - 1)) /\ Cardinality(0..(n - 1)) = n
  BY FS_Interval
<1>8. R = 0..(n - 1)
  BY <1>5, <1>6, <1>7, FS_Subset
<1>9. k - 1 \in 0..(n - 1)
  BY <1>1
<1> QED
  BY <1>3, <1>8, <1>9

\* Nth finds the place it is asked for.
LEMMA NthPlace ==
    ASSUME NEW P \in SUBSET Int, IsFiniteSet(P),
           NEW k \in 1..Cardinality(P)
    PROVE  Nth(P, k) \in P /\ Cardinality(PlacesBefore(P, Nth(P, k))) = k - 1
<1>1. PICK i \in P : Cardinality(PlacesBefore(P, i)) = k - 1
  BY RankOnto
<1> QED
  BY <1>1, Zenon DEF Nth

\* Every place is the one that Nth finds for its number.
LEMMA NthOnto ==
    ASSUME NEW P \in SUBSET Int, IsFiniteSet(P), NEW i \in P
    PROVE  \E k \in 1..Cardinality(P) : Nth(P, k) = i
<1>1. PICK c \in 0..(Cardinality(P) - 1) : c = Cardinality(PlacesBefore(P, i))
  BY RankBound
<1>2. c + 1 \in 1..Cardinality(P)
  BY <1>1, RankBound
<1>3. PICK k \in 1..Cardinality(P) : k = c + 1
  BY <1>2
<1>4. Nth(P, k) \in P /\ Cardinality(PlacesBefore(P, Nth(P, k))) = k - 1
  BY NthPlace
<1>5. Cardinality(PlacesBefore(P, Nth(P, k))) = Cardinality(PlacesBefore(P, i))
  BY <1>1, <1>3, <1>4
<1>6. Nth(P, k) = i
  BY <1>4, <1>5, RankUnique
<1> QED
  BY <1>6

--------------------------------------------------------------------------------
(* Sequences of records *)

IsSeq(s) == s \in Seq(Range(s))

LEMMA SeqFacts ==
    ASSUME NEW s, IsSeq(s)
    PROVE  /\ Len(s) \in Nat
           /\ DOMAIN s = 1..Len(s)
           /\ \A i \in 1..Len(s) : s[i] \in Range(s)
           /\ \A x \in Range(s) : \E i \in 1..Len(s) : s[i] = x
  BY DEF IsSeq, Range

LEMMA TupleIsSeq ==
    ASSUME NEW S, NEW n \in Nat, NEW s \in [1..n -> S]
    PROVE  s \in Seq(S) /\ Len(s) = n
  OBVIOUS

LEMMA SeqIn ==
    ASSUME NEW S, NEW s \in Seq(S)
    PROVE  IsSeq(s) /\ Range(s) \in SUBSET S
<1>1. DOMAIN s = 1..Len(s) /\ Len(s) \in Nat /\ \A i \in 1..Len(s) : s[i] \in S
  OBVIOUS
<1>2. s \in Seq(Range(s))
  BY <1>1 DEF Range
<1> QED
  BY <1>1, <1>2 DEF IsSeq, Range

LEMMA HeadFirst ==
    ASSUME NEW s, IsSeq(s), Len(s) > 0
    PROVE  Head(s) = s[1]
  BY DEF IsSeq

LEMMA AppendFacts ==
    ASSUME NEW s, IsSeq(s), NEW e
    PROVE  /\ IsSeq(Append(s, e))
           /\ Len(Append(s, e)) = Len(s) + 1
           /\ \A i \in 1..Len(s) : Append(s, e)[i] = s[i]
           /\ Append(s, e)[Len(s) + 1] = e
<1>1. PICK S : S = Range(s) \cup {e}
  OBVIOUS
<1>2. s \in Seq(S)
  BY <1>1, SeqFacts DEF IsSeq
<1>3. Append(s, e) \in Seq(S)
  BY <1>1, <1>2
<1>4. IsSeq(Append(s, e))
  BY <1>3, SeqIn
<1> QED
  BY <1>2, <1>4

\* An appended record of another kind adds no place.
LEMMA PlacesAppend ==
    ASSUME NEW s, IsSeq(s), NEW e, NEW kind
    PROVE  Places(Append(s, e), kind) =
             IF e.kind = kind THEN Places(s, kind) \cup {Len(s) + 1} ELSE Places(s, kind)
<1>1. DOMAIN s = 1..Len(s) /\ Len(s) \in Nat
  BY SeqFacts
<1>2. DOMAIN Append(s, e) = 1..(Len(s) + 1)
  BY AppendFacts, SeqFacts
<1>3. ASSUME NEW i
      PROVE  i \in Places(Append(s, e), kind) <=>
             (i \in Places(s, kind) \/ (e.kind = kind /\ i = Len(s) + 1))
  <2>1. CASE i \in 1..Len(s)
    <3>1. Append(s, e)[i] = s[i] /\ i \in 1..(Len(s) + 1) /\ i # Len(s) + 1
      BY <2>1, <1>1, AppendFacts
    <3> QED
      BY <2>1, <3>1, <1>1, <1>2 DEF Places
  <2>2. CASE i = Len(s) + 1
    <3>1. Append(s, e)[i] = e /\ i \in 1..(Len(s) + 1) /\ i \notin 1..Len(s)
      BY <2>2, <1>1, AppendFacts
    <3> QED
      BY <2>2, <3>1, <1>1, <1>2 DEF Places
  <2>3. CASE i \notin 1..Len(s) /\ i # Len(s) + 1
    <3>1. i \notin 1..(Len(s) + 1)
      BY <2>3, <1>1
    <3> QED
      BY <2>3, <3>1, <1>1, <1>2 DEF Places
  <2> QED
    BY <2>1, <2>2, <2>3
<1> QED
  BY <1>3

LEMMA PlacesFinite ==
    ASSUME NEW s, IsSeq(s), NEW kind
    PROVE  /\ Places(s, kind) \in SUBSET Int
           /\ Places(s, kind) \in SUBSET (1..Len(s))
           /\ IsFiniteSet(Places(s, kind))
<1>1. DOMAIN s = 1..Len(s) /\ Len(s) \in Nat
  BY SeqFacts
<1>2. Places(s, kind) \in SUBSET (1..Len(s))
  BY <1>1 DEF Places
<1>3. IsFiniteSet(1..Len(s))
  BY <1>1, FS_Interval
<1>4. IsFiniteSet(Places(s, kind))
  BY <1>2, <1>3, FS_Subset
<1> QED
  BY <1>1, <1>2, <1>4

--------------------------------------------------------------------------------
(* The coverage *)

\* What a coverage that nothing has spoilt says of the calls made of it.
CoverInv ==
    /\ calls \in [Receipts \cup {NoOwner} -> Nat]
    /\ coverage \in [receipts : SUBSET Receipts, invalid : BOOLEAN]
    /\ IsFiniteSet(coverage.receipts)
    /\ ~coverage.invalid =>
         /\ calls[NoOwner] = 0
         /\ \A r \in Receipts : calls[r] = IF r \in coverage.receipts THEN 1 ELSE 0
         /\ \A r \in coverage.receipts : \E i \in DOMAIN Rules : Satisfies(Rules[i], r)
         /\ \A r, s \in coverage.receipts : r.boundary = s.boundary => r = s

\* A fence was cut over a coverage that closes.
FenceClosed ==
    /\ IsSeq(stream)
    /\ Places(stream, "fence") # {} => CoverageClose(Rules, coverage) # NoClosure

CoverageInv == CoverInv /\ FenceClosed

\* A receipt of the closure is one of the coverage.
LEMMA ClosureReceipts ==
    ASSUME CoverInv, NEW k \in 1..Len(InBoundaryOrder(coverage.receipts))
    PROVE  InBoundaryOrder(coverage.receipts)[k] \in coverage.receipts
<1>1. PICK R : R = coverage.receipts
  OBVIOUS
<1>2. PICK B : B = {r.boundary : r \in R}
  OBVIOUS
<1>3. R \in SUBSET Receipts /\ IsFiniteSet(R)
  BY <1>1 DEF CoverInv
<1>4. B \in SUBSET Int
  BY <1>2, <1>3, WorldAssumption
<1>5. IsFiniteSet(B)
  <2>1. PICK f : f = [r \in R |-> r.boundary]
    OBVIOUS
  <2>2. f \in [R -> B] /\ \A b \in B : \E r \in R : f[r] = b
    BY <2>1, <1>2
  <2>3. f \in Surjection(R, B)
    BY <2>2, Fun_IsSurj
  <2> QED
    BY <2>3, <1>3, FS_Surjection DEF ExistsSurjection
<1>6. Cardinality(B) \in Nat
  BY <1>5, FS_CardinalityType
<1>7. PICK order : order = InBoundaryOrder(R)
  OBVIOUS
<1>8. order = [j \in 1..Cardinality(B) |-> CHOOSE r \in R : r.boundary = Nth(B, j)]
  BY <1>2, <1>7 DEF InBoundaryOrder
<1>9. Len(order) = Cardinality(B)
  BY <1>6, <1>8
<1>10. k \in 1..Cardinality(B)
  BY <1>1, <1>7, <1>9
<1>11. order[k] = CHOOSE r \in R : r.boundary = Nth(B, k)
  BY <1>8, <1>10
<1>12. Nth(B, k) \in B
  BY <1>4, <1>5, <1>10, NthPlace
<1>13. \E r \in R : r.boundary = Nth(B, k)
  BY <1>2, <1>12
<1>14. order[k] \in R
  BY <1>11, <1>13, Zenon
<1> QED
  BY <1>1, <1>7, <1>14

\* A coverage that closes has one receipt for each rule of the policy.
LEMMA ClosedCovers ==
    ASSUME CoverInv, CoverageClose(Rules, coverage) # NoClosure
    PROVE  /\ calls[NoOwner] = 0
           /\ \A receipt \in Receipts : calls[receipt] > 0 =>
                /\ calls[receipt] = 1
                /\ \E i \in DOMAIN Rules : Satisfies(Rules[i], receipt)
           /\ \A i \in DOMAIN Rules :
                Cardinality({r \in Receipts : calls[r] > 0 /\ Satisfies(Rules[i], r)}) = 1
<1>1. PICK order : order = InBoundaryOrder(coverage.receipts)
  OBVIOUS
<1>2. /\ ~coverage.invalid
      /\ ClosesWorld(Rules, [policy |-> Rules, receipts |-> order])
  BY <1>1 DEF CoverageClose
<1>3. Len(order) = Len(Rules) /\ \A i \in DOMAIN Rules : Satisfies(Rules[i], order[i])
  BY <1>2 DEF ClosesWorld
<1>4. DOMAIN Rules = 1..Len(Rules)
  BY WorldAssumption
<1>5. /\ calls[NoOwner] = 0
      /\ \A r \in Receipts : calls[r] = IF r \in coverage.receipts THEN 1 ELSE 0
      /\ \A r \in coverage.receipts : \E i \in DOMAIN Rules : Satisfies(Rules[i], r)
      /\ \A r, s \in coverage.receipts : r.boundary = s.boundary => r = s
      /\ coverage.receipts \in SUBSET Receipts
  BY <1>2 DEF CoverInv
<1>6. \A r \in Receipts : calls[r] > 0 <=> r \in coverage.receipts
  BY <1>5
<1>7. ASSUME NEW i \in DOMAIN Rules
      PROVE  Cardinality({r \in Receipts : calls[r] > 0 /\ Satisfies(Rules[i], r)}) = 1
  <2>1. order[i] \in coverage.receipts
    BY <1>1, <1>3, <1>4, ClosureReceipts
  <2>2. order[i] \in Receipts /\ calls[order[i]] > 0 /\ Satisfies(Rules[i], order[i])
    BY <2>1, <1>3, <1>5, <1>6
  <2>3. ASSUME NEW r \in Receipts, calls[r] > 0, Satisfies(Rules[i], r)
        PROVE  r = order[i]
    <3>1. r \in coverage.receipts
      BY <2>3, <1>6
    <3>2. r.boundary = order[i].boundary
      BY <2>2, <2>3 DEF Satisfies
    <3> QED
      BY <3>1, <3>2, <2>1, <1>5
  <2>4. {r \in Receipts : calls[r] > 0 /\ Satisfies(Rules[i], r)} = {order[i]}
    BY <2>2, <2>3
  <2> QED
    BY <2>4, FS_Singleton
<1>8. ASSUME NEW receipt \in Receipts, calls[receipt] > 0
      PROVE  /\ calls[receipt] = 1
             /\ \E i \in DOMAIN Rules : Satisfies(Rules[i], receipt)
  BY <1>5, <1>6, <1>8
<1> QED
  BY <1>5, <1>7, <1>8

\* The stream begins with the begin record and the two baselines.
LEMMA InitStream ==
    ASSUME Init
    PROVE  /\ IsSeq(stream) /\ Len(stream) = 3
           /\ stream[1].kind = "begin"
           /\ "kind" \in DOMAIN stream[1] /\ "body" \in DOMAIN stream[1]
           /\ \A i \in 2..3 :
                stream[i] = Rec("observation",
                    Payload(Operation, i - 2, Baselines[i - 1], OwnerOf(Baselines[i - 1].class)))
           /\ stream[2].kind = "observation" /\ stream[3].kind = "observation"
           /\ stream[1].body = [campaign |-> NoContext, parents |-> {}]
<1>1. PICK b : b = Rec("begin", [campaign |-> NoContext, parents |-> {}])
  OBVIOUS
<1>2. PICK o : o = [i \in 1..2 |-> Rec("observation",
                    Payload(Operation, i - 1, Baselines[i], OwnerOf(Baselines[i].class)))]
  OBVIOUS
<1>3. stream = <<b>> \o o
  BY <1>1, <1>2, Zenon DEF Init
<1>4. PICK S : S = {b, o[1], o[2]}
  OBVIOUS
<1>5. DOMAIN o = 1..2
  BY <1>2
<1>6. o \in [1..2 -> S]
  BY <1>2, <1>4
<1>7. o \in Seq(S) /\ Len(o) = 2
  <2>1. PICK n \in Nat : n = 2
    OBVIOUS
  <2>2. o \in [1..n -> S]
    BY <2>1, <1>6
  <2>3. o \in Seq(S) /\ Len(o) = n
    BY <2>2, TupleIsSeq, Zenon
  <2> QED
    BY <2>1, <2>3
<1>8. <<b>> \in Seq(S) /\ Len(<<b>>) = 1 /\ <<b>>[1] = b
  BY <1>4
<1>9. /\ stream \in Seq(S) /\ Len(stream) = 3
      /\ stream[1] = b /\ stream[2] = o[1] /\ stream[3] = o[2]
  <2>1. PICK a \in Seq(S) : a = <<b>>
    BY <1>8
  <2>2. PICK c \in Seq(S) : c = o
    BY <1>7
  <2>3. Len(a) = 1 /\ Len(c) = 2 /\ a[1] = b /\ stream = a \o c
    BY <2>1, <2>2, <1>3, <1>7, <1>8
  <2>4. /\ a \o c \in Seq(S) /\ Len(a \o c) = Len(a) + Len(c)
        /\ \A i \in 1..(Len(a) + Len(c)) :
             (a \o c)[i] = IF i <= Len(a) THEN a[i] ELSE c[i - Len(a)]
    BY ConcatProperties
  <2>5. 1 \in 1..3 /\ 2 \in 1..3 /\ 3 \in 1..3
    OBVIOUS
  <2> QED
    BY <2>2, <2>3, <2>4, <2>5
<1>10. /\ stream[1].kind = "begin"
       /\ "kind" \in DOMAIN stream[1] /\ "body" \in DOMAIN stream[1]
       /\ stream[1].body = [campaign |-> NoContext, parents |-> {}]
  BY <1>1, <1>9 DEF Rec
<1>11. ASSUME NEW i \in 2..3
       PROVE  stream[i] = Rec("observation",
                    Payload(Operation, i - 2, Baselines[i - 1], OwnerOf(Baselines[i - 1].class)))
  <2>1. stream[i] = o[i - 1] /\ i - 1 \in 1..2 /\ (i - 1) - 1 = i - 2
    BY <1>9
  <2> QED
    BY <2>1, <1>2
<1>12. stream[2].kind = "observation" /\ stream[3].kind = "observation"
  BY <1>11 DEF Rec
<1>13. IsSeq(stream)
  BY <1>9, SeqIn
<1> QED
  BY <1>9, <1>10, <1>11, <1>12, <1>13

LEMMA CoverInit == Init => CoverageInv
<1> SUFFICES ASSUME Init PROVE CoverageInv
  OBVIOUS
<1>1. CoverInv
  <2>1. coverage = [receipts |-> {}, invalid |-> FALSE]
    BY DEF Init, NewCoverage
  <2>2. calls = [call \in Receipts \cup {NoOwner} |-> 0]
    BY DEF Init
  <2>3. IsFiniteSet({})
    BY FS_EmptySet
  <2> QED
    BY <2>1, <2>2, <2>3 DEF CoverInv
<1>2. /\ IsSeq(stream) /\ Len(stream) = 3
      /\ stream[1].kind = "begin" /\ stream[2].kind = "observation"
      /\ stream[3].kind = "observation"
  BY InitStream
<1>5. Places(stream, "fence") = {}
  BY <1>2, SeqFacts DEF Places
<1> QED
  BY <1>1, <1>2, <1>5 DEF CoverageInv, FenceClosed

\* While the operation runs there is no fence.
LEMMA RunningUnfenced ==
    ASSUME candidate = None, Phase = "running"
    PROVE  Places(stream, "fence") = {}
  BY DEF Phase

LEMMA CoverRecord ==
    ASSUME CoverageInv, NEW receipt \in Receipts, RecordReceipt(receipt)
    PROVE  CoverageInv'
<1>1. Places(stream, "fence") = {} /\ stream' = stream
  BY RunningUnfenced DEF RecordReceipt
<1>2. FenceClosed'
  BY <1>1 DEF CoverageInv, FenceClosed
<1>3. /\ calls \in [Receipts \cup {NoOwner} -> Nat]
      /\ coverage \in [receipts : SUBSET Receipts, invalid : BOOLEAN]
      /\ IsFiniteSet(coverage.receipts)
  BY DEF CoverageInv, CoverInv
<1>4. calls' = [calls EXCEPT ![receipt] = @ + 1]
  BY DEF RecordReceipt
<1>5. calls' \in [Receipts \cup {NoOwner} -> Nat]
  BY <1>3, <1>4
<1>6. coverage' = CoverageRecord(Rules, coverage, receipt)
  BY DEF RecordReceipt
<1>7. CASE ~CoverageAccepts(Rules, coverage, receipt)
  <2>1. coverage' = [coverage EXCEPT !.invalid = TRUE]
    BY <1>6, <1>7 DEF CoverageRecord
  <2>2. coverage'.receipts = coverage.receipts /\ coverage'.invalid
    BY <2>1, <1>3
  <2>3. coverage' \in [receipts : SUBSET Receipts, invalid : BOOLEAN]
    BY <2>1, <1>3
  <2> QED
    BY <1>2, <1>3, <1>5, <2>2, <2>3 DEF CoverageInv, CoverInv
<1>8. CASE CoverageAccepts(Rules, coverage, receipt)
  <2>1. coverage' = [coverage EXCEPT !.receipts = @ \cup {receipt}]
    BY <1>6, <1>8 DEF CoverageRecord
  <2>2. coverage'.receipts = coverage.receipts \cup {receipt}
        /\ coverage'.invalid = coverage.invalid
    BY <2>1, <1>3
  <2>3. coverage' \in [receipts : SUBSET Receipts, invalid : BOOLEAN]
    BY <2>1, <1>3
  <2>4. IsFiniteSet(coverage'.receipts)
    BY <2>2, <1>3, FS_AddElement
  <2>5. /\ \E i \in DOMAIN Rules : Satisfies(Rules[i], receipt)
        /\ \A known \in coverage.receipts : known.boundary # receipt.boundary
    BY <1>8 DEF CoverageAccepts
  <2>6. ASSUME ~coverage.invalid
        PROVE  /\ calls'[NoOwner] = 0
               /\ \A r \in Receipts : calls'[r] = IF r \in coverage'.receipts THEN 1 ELSE 0
               /\ \A r \in coverage'.receipts : \E i \in DOMAIN Rules : Satisfies(Rules[i], r)
               /\ \A r, s \in coverage'.receipts : r.boundary = s.boundary => r = s
    <3>1. /\ calls[NoOwner] = 0
          /\ \A r \in Receipts : calls[r] = IF r \in coverage.receipts THEN 1 ELSE 0
          /\ \A r \in coverage.receipts : \E i \in DOMAIN Rules : Satisfies(Rules[i], r)
          /\ \A r, s \in coverage.receipts : r.boundary = s.boundary => r = s
      BY <2>6 DEF CoverageInv, CoverInv
    <3>2. receipt \notin coverage.receipts
      BY <2>5
    <3>3. calls[receipt] = 0
      BY <3>1, <3>2
    <3>4. calls'[NoOwner] = 0
      BY <3>1, <1>3, <1>4, WorldAssumption
    <3>5. ASSUME NEW r \in Receipts
          PROVE  calls'[r] = IF r \in coverage'.receipts THEN 1 ELSE 0
      <4>1. CASE r = receipt
        BY <4>1, <3>3, <1>3, <1>4, <2>2
      <4>2. CASE r # receipt
        BY <4>2, <3>1, <1>3, <1>4, <2>2
      <4> QED
        BY <4>1, <4>2
    <3>6. \A r \in coverage'.receipts : \E i \in DOMAIN Rules : Satisfies(Rules[i], r)
      BY <3>1, <2>2, <2>5
    <3>7. \A r, s \in coverage'.receipts : r.boundary = s.boundary => r = s
      BY <3>1, <2>2, <2>5
    <3> QED
      BY <3>4, <3>5, <3>6, <3>7
  <2> QED
    BY <1>2, <1>5, <2>2, <2>3, <2>4, <2>6 DEF CoverageInv, CoverInv
<1> QED
  BY <1>7, <1>8

LEMMA CoverUnowned ==
    ASSUME CoverageInv, MarkUnowned
    PROVE  CoverageInv'
<1>1. Places(stream, "fence") = {} /\ stream' = stream
  BY RunningUnfenced DEF MarkUnowned
<1>2. FenceClosed'
  BY <1>1 DEF CoverageInv, FenceClosed
<1>3. /\ calls \in [Receipts \cup {NoOwner} -> Nat]
      /\ coverage \in [receipts : SUBSET Receipts, invalid : BOOLEAN]
      /\ IsFiniteSet(coverage.receipts)
  BY DEF CoverageInv, CoverInv
<1>4. calls' \in [Receipts \cup {NoOwner} -> Nat]
  BY <1>3 DEF MarkUnowned
<1>5. coverage' = [coverage EXCEPT !.invalid = TRUE]
  BY DEF MarkUnowned, CoverageUnowned
<1>6. /\ coverage'.receipts = coverage.receipts /\ coverage'.invalid
      /\ coverage' \in [receipts : SUBSET Receipts, invalid : BOOLEAN]
  BY <1>3, <1>5
<1> QED
  BY <1>2, <1>3, <1>4, <1>6 DEF CoverageInv, CoverInv

\* Every other step leaves the coverage alone, and adds a fence only over one
\* that closes.
LEMMA CoverOther ==
    ASSUME CoverageInv, UNCHANGED <<coverage, calls>>,
           \/ stream' = stream
           \/ \E e : /\ stream' = Append(stream, e)
                     /\ e.kind = "fence" => CoverageClose(Rules, coverage) # NoClosure
    PROVE  CoverageInv'
<1>1. CoverInv'
  BY DEF CoverageInv, CoverInv
<1>2. CASE stream' = stream
  BY <1>1, <1>2 DEF CoverageInv, FenceClosed
<1>3. ASSUME NEW e, stream' = Append(stream, e),
             e.kind = "fence" => CoverageClose(Rules, coverage) # NoClosure
      PROVE  FenceClosed'
  <2>1. IsSeq(stream)
    BY DEF CoverageInv, FenceClosed
  <2>2. IsSeq(stream')
    BY <2>1, <1>3, AppendFacts
  <2>3. Places(stream', "fence") =
          IF e.kind = "fence" THEN Places(stream, "fence") \cup {Len(stream) + 1}
                              ELSE Places(stream, "fence")
    BY <2>1, <1>3, PlacesAppend
  <2>4. (Places(stream, "fence") # {} \/ e.kind = "fence") =>
            CoverageClose(Rules, coverage) # NoClosure
    BY <1>3 DEF CoverageInv, FenceClosed
  <2> QED
    BY <2>2, <2>3, <2>4 DEF FenceClosed
<1> QED
  BY <1>1, <1>2, <1>3 DEF CoverageInv

LEMMA CoverStep ==
    ASSUME CoverageInv, [Next]_vars
    PROVE  CoverageInv'
<1>1. ASSUME NEW exchange, NEW owner, Observe(exchange, owner) PROVE CoverageInv'
  <2>1. UNCHANGED <<coverage, calls>>
    BY <1>1 DEF Observe
  <2>2. CASE stream' = stream
    BY <2>1, <2>2, CoverOther
  <2>3. CASE stream' # stream
    <3>1. PICK e : e = Rec("observation",
              Payload(Operation, Len(OfKind(stream, "observation")), exchange, owner))
      OBVIOUS
    <3>2. stream' = Append(stream, e)
      BY <1>1, <2>3, <3>1 DEF Observe
    <3>3. e.kind # "fence"
      BY <3>1 DEF Rec
    <3> QED
      BY <2>1, <3>2, <3>3, CoverOther
  <2> QED
    BY <2>2, <2>3
<1>2. ASSUME NEW receipt \in Receipts, RecordReceipt(receipt) PROVE CoverageInv'
  BY <1>2, CoverRecord
<1>3. CASE MarkUnowned
  BY <1>3, CoverUnowned
<1>4. CASE CutFence
  <2>1. UNCHANGED <<coverage, calls>> /\ CoverageClose(Rules, coverage) # NoClosure
    BY <1>4 DEF CutFence
  <2>2. \E e : stream' = Append(stream, e)
    BY <1>4, Zenon DEF CutFence
  <2> QED
    BY <2>1, <2>2, CoverOther
<1>5. CASE Fail
  <2>1. PICK e : e = Rec("failure", [identity |-> FailureRef.identity, reference |-> FailureRef])
    OBVIOUS
  <2>2. UNCHANGED <<coverage, calls>> /\ stream' = Append(stream, e)
    BY <1>5, <2>1 DEF Fail
  <2>3. e.kind # "fence"
    BY <2>1 DEF Rec
  <2> QED
    BY <2>2, <2>3, CoverOther
<1>6. CASE UNCHANGED <<coverage, calls, stream>>
  BY <1>6, CoverOther
<1>7. ASSUME NEW bodies, Deliver(bodies) PROVE UNCHANGED <<coverage, calls, stream>>
  BY <1>7 DEF Deliver
<1>8. Verify => UNCHANGED <<coverage, calls, stream>>
  BY DEF Verify
<1>9. ASSUME NEW positioned, Resolve(positioned) PROVE UNCHANGED <<coverage, calls, stream>>
  BY <1>9 DEF Resolve
<1>10. ASSUME NEW class, NEW position, NEW request, TakeResponse(class, position, request)
       PROVE  UNCHANGED <<coverage, calls, stream>>
  BY <1>10 DEF TakeResponse
<1>11. RequireComplete => UNCHANGED <<coverage, calls, stream>>
  BY DEF RequireComplete
<1>12. UNCHANGED vars => UNCHANGED <<coverage, calls, stream>>
  BY DEF vars
<1> QED
  BY <1>1, <1>2, <1>3, <1>4, <1>5, <1>6, <1>7, <1>8, <1>9, <1>10, <1>11, <1>12 DEF Next

\* The coverage and the calls made of it agree, and a fence was cut only over
\* one that closes (CaptureCoverage::record, mark_unowned and close).
THEOREM CoverageAgrees == Spec => []CoverageInv
  BY CoverInit, CoverStep, PTL DEF Spec

\* Whatever receipts a runtime records, in whatever order and however often,
\* a fence is cut only over a coverage in which each boundary of the policy
\* was recorded once with an allowed mechanism, and nothing was refused or
\* unowned (CaptureCoverage::close).
THEOREM FencesCoverPolicy == Spec => []FenceCoversPolicy
<1>1. CoverageInv => FenceCoversPolicy
  BY ClosedCovers DEF CoverageInv, FenceClosed, FenceCoversPolicy
<1> QED
  BY <1>1, CoverageAgrees, PTL

--------------------------------------------------------------------------------
(* The fence and what it saw *)

\* A fence that dropped nothing has a digest of the first n things seen.
FenceGood(body, things, n) ==
    /\ "digest" \in DOMAIN body /\ "dropped" \in DOMAIN body
    /\ body.dropped = 0 =>
         /\ DOMAIN body.digest = 1..n
         /\ \A i \in 1..n :
              /\ body.digest[i].evidence = things[i]
              /\ body.digest[i].owner \in {OwnerOf(things[i].class), NoOwner}

GoodRec(r, things, n) ==
    /\ "kind" \in DOMAIN r /\ "body" \in DOMAIN r
    /\ r.kind = "fence" => FenceGood(r.body, things, n)

GoodSeq(s, things, n) ==
    IsSeq(s) /\ \A i \in 1..Len(s) : GoodRec(s[i], things, n)

\* A change of one field of a record's body leaves what it digests.
LEMMA AlteredRecord ==
    ASSUME NEW r, NEW things, NEW n, GoodRec(r, things, n), NEW value,
           NEW field \in {"operation", "signer", "deployment"},
           NEW t, t = [r EXCEPT !.body = [r.body EXCEPT ![field] = value]]
    PROVE  GoodRec(t, things, n)
<1>1. "kind" \in DOMAIN r /\ "body" \in DOMAIN r
  BY DEF GoodRec
<1>2. /\ t.kind = r.kind /\ DOMAIN t = DOMAIN r
      /\ t.body = [r.body EXCEPT ![field] = value]
  BY <1>1
<1>3. ASSUME t.kind = "fence"
      PROVE  FenceGood(t.body, things, n)
  <2>1. FenceGood(r.body, things, n)
    BY <1>2, <1>3 DEF GoodRec
  <2>2. "digest" \in DOMAIN r.body /\ "dropped" \in DOMAIN r.body
    BY <2>1 DEF FenceGood
  <2>3. DOMAIN t.body = DOMAIN r.body
    BY <1>2
  <2>4. t.body.digest = r.body.digest /\ t.body.dropped = r.body.dropped
    BY <1>2, <2>2
  <2> QED
    BY <2>1, <2>3, <2>4 DEF FenceGood
<1> QED
  BY <1>1, <1>2, <1>3 DEF GoodRec

\* A sequence of the records of a good one is good.
LEMMA PartGood ==
    ASSUME NEW s, NEW things, NEW n, GoodSeq(s, things, n), NEW t \in Seq(Range(s))
    PROVE  GoodSeq(t, things, n)
<1>1. IsSeq(t) /\ Range(t) \in SUBSET Range(s)
  BY SeqIn
<1>2. ASSUME NEW i \in 1..Len(t)
      PROVE  GoodRec(t[i], things, n)
  <2>1. t[i] \in Range(s)
    BY <1>1, SeqFacts
  <2>2. PICK j \in 1..Len(s) : s[j] = t[i]
    BY <2>1, SeqFacts DEF GoodSeq
  <2> QED
    BY <2>2 DEF GoodSeq
<1> QED
  BY <1>1, <1>2 DEF GoodSeq

LEMMA SubSeqOf ==
    ASSUME NEW s, IsSeq(s), NEW m \in Int, NEW n \in Int, 1 <= m, n <= Len(s)
    PROVE  /\ SubSeq(s, m, n) \in Seq(Range(s))
           /\ Len(SubSeq(s, m, n)) = IF m <= n THEN n - m + 1 ELSE 0
           /\ \A i \in 1..(n - m + 1) : SubSeq(s, m, n)[i] = s[m + i - 1]
<1>1. Len(s) \in Nat /\ \A i \in 1..Len(s) : s[i] \in Range(s)
  BY SeqFacts
<1>2. \A i \in m..n : s[i] \in Range(s)
  BY <1>1
<1> QED
  BY <1>2, SubSeqProperties

LEMMA PrefixOf ==
    ASSUME NEW s, IsSeq(s), NEW n \in 0..Len(s)
    PROVE  /\ SubSeq(s, 1, n) \in Seq(Range(s))
           /\ Len(SubSeq(s, 1, n)) = n
           /\ \A i \in 1..n : SubSeq(s, 1, n)[i] = s[i]
<1>1. Len(s) \in Nat
  BY SeqFacts
<1>2. PICK one \in Int : one = 1
  OBVIOUS
<1>3. n \in Int /\ 1 <= one /\ n <= Len(s)
  BY <1>1, <1>2
<1>4. /\ SubSeq(s, one, n) \in Seq(Range(s))
      /\ Len(SubSeq(s, one, n)) = IF one <= n THEN n - one + 1 ELSE 0
      /\ \A i \in 1..(n - one + 1) : SubSeq(s, one, n)[i] = s[one + i - 1]
  BY <1>3, SubSeqOf
<1>5. \A i \in 1..n : i \in 1..(n - one + 1) /\ one + i - 1 = i
  BY <1>2, <1>3
<1> QED
  BY <1>1, <1>2, <1>3, <1>4, <1>5

LEMMA RemovePart ==
    ASSUME NEW s, IsSeq(s), NEW i \in DOMAIN s
    PROVE  RemoveAt(s, i) \in Seq(Range(s))
<1>1. i \in 1..Len(s) /\ Len(s) \in Nat
  BY SeqFacts
<1>2. SubSeq(s, 1, i - 1) \in Seq(Range(s)) /\ SubSeq(s, i + 1, Len(s)) \in Seq(Range(s))
  BY <1>1, SubSeqOf
<1>3. RemoveAt(s, i) \in Seq(Range(s))
  BY <1>2, ConcatProperties DEF RemoveAt
<1> QED
  BY <1>3

LEMMA InsertPart ==
    ASSUME NEW s, IsSeq(s), NEW i \in DOMAIN s
    PROVE  InsertAt(s, i, s[i]) \in Seq(Range(s))
<1>1. i \in 1..Len(s) /\ Len(s) \in Nat
  BY SeqFacts
<1>2. SubSeq(s, 1, i - 1) \in Seq(Range(s)) /\ SubSeq(s, i, Len(s)) \in Seq(Range(s))
  BY <1>1, SubSeqOf
<1>3. <<s[i]>> \in Seq(Range(s))
  BY <1>1, SeqFacts
<1>4. SubSeq(s, 1, i - 1) \o <<s[i]>> \in Seq(Range(s))
  BY <1>2, <1>3, ConcatProperties
<1>5. InsertAt(s, i, s[i]) \in Seq(Range(s))
  BY <1>2, <1>4, ConcatProperties DEF InsertAt
<1> QED
  BY <1>5

LEMMA SwapGood ==
    ASSUME NEW s, NEW things, NEW n, GoodSeq(s, things, n), NEW i \in 1..(Len(s) - 1)
    PROVE  GoodSeq([s EXCEPT ![i] = s[i + 1], ![i + 1] = s[i]], things, n)
<1>1. IsSeq(s) /\ Len(s) \in Nat /\ DOMAIN s = 1..Len(s)
      /\ \A j \in 1..Len(s) : s[j] \in Range(s)
  BY SeqFacts DEF GoodSeq
<1>2. i \in 1..Len(s) /\ i + 1 \in 1..Len(s)
  BY <1>1
<1>3. [s EXCEPT ![i] = s[i + 1], ![i + 1] = s[i]] \in [1..Len(s) -> Range(s)]
  BY <1>1, <1>2
<1>4. [s EXCEPT ![i] = s[i + 1], ![i + 1] = s[i]] \in Seq(Range(s))
  BY <1>1, <1>3, TupleIsSeq
<1> QED
  BY <1>4, PartGood

\* A sequence with one field of one body changed.
Altered(s, t, i, field, value) ==
    /\ DOMAIN t = DOMAIN s
    /\ \A j \in DOMAIN s :
         t[j] = IF j = i THEN [s[j] EXCEPT !.body = [s[j].body EXCEPT ![field] = value]]
                ELSE s[j]

LEMMA AlteredGood ==
    ASSUME NEW s, NEW things, NEW n, GoodSeq(s, things, n), NEW i, NEW value,
           NEW field \in {"operation", "signer", "deployment"},
           NEW t, IsSeq(t), Altered(s, t, i, field, value)
    PROVE  GoodSeq(t, things, n)
<1>0. /\ DOMAIN t = DOMAIN s
      /\ \A j \in DOMAIN s :
           t[j] = IF j = i THEN [s[j] EXCEPT !.body = [s[j].body EXCEPT ![field] = value]]
                  ELSE s[j]
  BY DEF Altered
<1>1. IsSeq(s) /\ Len(s) \in Nat /\ DOMAIN s = 1..Len(s)
  BY SeqFacts DEF GoodSeq
<1>2. DOMAIN t = 1..Len(t) /\ Len(t) \in Nat
  BY SeqFacts
<1>3. ASSUME NEW j \in 1..Len(t)
      PROVE  GoodRec(t[j], things, n)
  <2>1. j \in DOMAIN s /\ GoodRec(s[j], things, n)
    BY <1>0, <1>1, <1>2 DEF GoodSeq
  <2>2. CASE j # i
    BY <1>0, <2>1, <2>2
  <2>3. CASE j = i
    <3>1. t[j] = [s[j] EXCEPT !.body = [s[j].body EXCEPT ![field] = value]]
      BY <1>0, <2>1, <2>3
    <3> QED
      BY <2>1, <3>1, AlteredRecord
  <2> QED
    BY <2>2, <2>3
<1> QED
  BY <1>3 DEF GoodSeq

LEMMA DomainIsSeq ==
    ASSUME NEW t, NEW n \in Nat, t = [i \in 1..n |-> t[i]]
    PROVE  IsSeq(t) /\ Len(t) = n
<1>1. t \in [1..n -> Range(t)]
  BY DEF Range
<1> QED
  BY <1>1, TupleIsSeq DEF IsSeq

\* Whatever the spool did, a fence still digests what it digested.
LEMMA DamageGood ==
    ASSUME NEW s, NEW things, NEW n, GoodSeq(s, things, n), NEW bodies \in Damage(s)
    PROVE  GoodSeq(bodies, things, n)
<1>1. IsSeq(s) /\ Len(s) \in Nat /\ DOMAIN s = 1..Len(s)
  BY SeqFacts DEF GoodSeq
<1>2. ASSUME NEW i
      PROVE  GoodSeq([s EXCEPT ![i].body.operation = Foreign], things, n)
  <2>1. PICK t : t = [s EXCEPT ![i].body.operation = Foreign]
    OBVIOUS
  <2> PICK field \in {"operation", "signer", "deployment"} : field = "operation"
    OBVIOUS
  <2>3. Altered(s, t, i, field, Foreign)
    BY <2>1 DEF Altered
  <2>4. IsSeq(t)
    <3>1. t = [j \in 1..Len(s) |-> t[j]]
      BY <1>1, <2>1
    <3> QED
      BY <1>1, <3>1, DomainIsSeq
  <2>5. GoodSeq(t, things, n)
    BY <2>3, <2>4, AlteredGood
  <2> QED
    BY <2>1, <2>5
<1>3. ASSUME NEW i
      PROVE  GoodSeq([s EXCEPT ![i].body.signer = Other], things, n)
  <2>1. PICK t : t = [s EXCEPT ![i].body.signer = Other]
    OBVIOUS
  <2> PICK field \in {"operation", "signer", "deployment"} : field = "signer"
    OBVIOUS
  <2>3. Altered(s, t, i, field, Other)
    BY <2>1 DEF Altered
  <2>4. IsSeq(t)
    <3>1. t = [j \in 1..Len(s) |-> t[j]]
      BY <1>1, <2>1
    <3> QED
      BY <1>1, <3>1, DomainIsSeq
  <2>5. GoodSeq(t, things, n)
    BY <2>3, <2>4, AlteredGood
  <2> QED
    BY <2>1, <2>5
<1>4. ASSUME NEW i
      PROVE  GoodSeq([s EXCEPT ![i].body.deployment = Other], things, n)
  <2>1. PICK t : t = [s EXCEPT ![i].body.deployment = Other]
    OBVIOUS
  <2> PICK field \in {"operation", "signer", "deployment"} : field = "deployment"
    OBVIOUS
  <2>3. Altered(s, t, i, field, Other)
    BY <2>1 DEF Altered
  <2>4. IsSeq(t)
    <3>1. t = [j \in 1..Len(s) |-> t[j]]
      BY <1>1, <2>1
    <3> QED
      BY <1>1, <3>1, DomainIsSeq
  <2>5. GoodSeq(t, things, n)
    BY <2>3, <2>4, AlteredGood
  <2> QED
    BY <2>1, <2>5
<1>5. ASSUME NEW i \in DOMAIN s
      PROVE  GoodSeq(RemoveAt(s, i), things, n) /\ GoodSeq(InsertAt(s, i, s[i]), things, n)
  BY <1>1, RemovePart, InsertPart, PartGood
<1>6. ASSUME NEW i \in 1..(Len(s) - 1)
      PROVE  GoodSeq([s EXCEPT ![i] = s[i + 1], ![i + 1] = s[i]], things, n)
  BY SwapGood
<1> QED
  BY <1>2, <1>3, <1>4, <1>5, <1>6, Zenon DEF Damage

\* The records of the delivered candidate are those of the stream, numbered,
\* and the terminal record.
LEMMA NumberedGood ==
    ASSUME NEW s, NEW things, NEW n, GoodSeq(s, things, n), NEW body
    PROVE  GoodSeq(Numbered(Append(s, Rec("terminal", body))), things, n)
<1>1. PICK e : e = Rec("terminal", body)
  OBVIOUS
<1>2. PICK t : t = Append(s, e)
  OBVIOUS
<1>3. IsSeq(s) /\ Len(s) \in Nat
  BY SeqFacts DEF GoodSeq
<1>4. /\ IsSeq(t) /\ Len(t) = Len(s) + 1
      /\ \A i \in 1..Len(s) : t[i] = s[i]
      /\ t[Len(s) + 1] = e
  BY <1>2, <1>3, AppendFacts
<1>5. DOMAIN t = 1..Len(t) /\ Len(t) \in Nat
  BY <1>4, SeqFacts
<1>6. \A i \in 1..Len(t) : "kind" \in DOMAIN t[i] /\ "body" \in DOMAIN t[i] /\
                            (t[i].kind = "fence" => FenceGood(t[i].body, things, n))
  <2>1. "kind" \in DOMAIN e /\ "body" \in DOMAIN e /\ e.kind # "fence"
    BY <1>1 DEF Rec
  <2>2. \A i \in 1..Len(t) : i \in 1..Len(s) \/ i = Len(s) + 1
    BY <1>3, <1>4
  <2>3. \A i \in 1..Len(s) : GoodRec(s[i], things, n)
    BY DEF GoodSeq
  <2> QED
    BY <2>1, <2>2, <2>3, <1>4 DEF GoodRec
<1>7. PICK u : u = Numbered(t)
  OBVIOUS
<1>8. u = [i \in 1..Len(t) |-> [kind |-> t[i].kind, body |-> t[i].body, sequence |-> i - 1]]
  BY <1>5, <1>7 DEF Numbered
<1>9. u = [i \in 1..Len(t) |-> u[i]]
  BY <1>8
<1>10. IsSeq(u) /\ Len(u) = Len(t)
  BY <1>5, <1>9, DomainIsSeq
<1>11. ASSUME NEW i \in 1..Len(u)
       PROVE  GoodRec(u[i], things, n)
  <2>1. u[i] = [kind |-> t[i].kind, body |-> t[i].body, sequence |-> i - 1]
    BY <1>8, <1>10
  <2>2. "kind" \in DOMAIN u[i] /\ "body" \in DOMAIN u[i] /\ u[i].kind = t[i].kind
        /\ u[i].body = t[i].body
    BY <2>1
  <2>3. t[i].kind = "fence" => FenceGood(t[i].body, things, n)
    BY <1>6, <1>10
  <2> QED
    BY <2>2, <2>3 DEF GoodRec
<1>12. GoodSeq(u, things, n)
  BY <1>10, <1>11 DEF GoodSeq
<1> QED
  BY <1>1, <1>2, <1>7, <1>12

\* The number of records of a kind is the number of their places.
LEMMA KindLength ==
    ASSUME NEW s, IsSeq(s), NEW kind
    PROVE  /\ Cardinality(Places(s, kind)) \in Nat
           /\ DOMAIN OfKind(s, kind) = 1..Cardinality(Places(s, kind))
           /\ Len(OfKind(s, kind)) = Cardinality(Places(s, kind))
<1>1. Cardinality(Places(s, kind)) \in Nat
  BY PlacesFinite, FS_CardinalityType
<1>2. PICK t : t = OfKind(s, kind)
  OBVIOUS
<1>3. DOMAIN t = 1..Cardinality(Places(s, kind))
  BY <1>2 DEF OfKind, Selected
<1>4. t = [k \in 1..Cardinality(Places(s, kind)) |-> t[k]]
  BY <1>2 DEF OfKind, Selected
<1>5. Len(t) = Cardinality(Places(s, kind))
  BY <1>1, <1>4, DomainIsSeq
<1> QED
  BY <1>1, <1>2, <1>3, <1>5

\* Nothing is observed between the fence and the end of the records.
LEMMA ObservedBefore ==
    ASSUME NEW records, IsSeq(records), FencePlaced(records),
           Last(records).kind = "terminal"
    PROVE  /\ FenceIndex(records) \in 1..Len(records)
           /\ records[FenceIndex(records)].kind = "fence"
           /\ IsSeq(SubSeq(records, 1, FenceIndex(records) - 1))
           /\ Places(SubSeq(records, 1, FenceIndex(records) - 1), "observation") =
                Places(records, "observation")
<1>1. PICK P : P = Places(records, "fence")
  OBVIOUS
<1>2. P \in SUBSET Int /\ P \in SUBSET (1..Len(records)) /\ IsFiniteSet(P)
  BY <1>1, PlacesFinite
<1>3. Cardinality(P) = 1
  BY <1>1, KindLength DEF FencePlaced
<1>4. PICK one \in 1..Cardinality(P) : one = 1
  BY <1>3
<1>5. Nth(P, one) \in P
  BY <1>2, NthPlace
<1>6. PICK f : f = FenceIndex(records)
  OBVIOUS
<1>7. f \in P
  BY <1>1, <1>4, <1>5, <1>6 DEF FenceIndex
<1>8. DOMAIN records = 1..Len(records) /\ Len(records) \in Nat
  BY SeqFacts
<1>9. f \in 1..Len(records) /\ records[f].kind = "fence"
  BY <1>1, <1>2, <1>7 DEF Places
<1>10. f + 2 = Len(records) /\ records[f + 1].kind = "failure"
  BY <1>6 DEF FencePlaced
<1>11. records[f + 2].kind = "terminal"
  BY <1>10 DEF Last
<1>12. PICK t : t = SubSeq(records, 1, f - 1)
  OBVIOUS
<1>13. /\ t \in Seq(Range(records)) /\ Len(t) = f - 1
       /\ \A i \in 1..(f - 1) : t[i] = records[i]
  <2>1. PICK m \in 0..Len(records) : m = f - 1
    BY <1>8, <1>9
  <2>2. /\ SubSeq(records, 1, m) \in Seq(Range(records)) /\ Len(SubSeq(records, 1, m)) = m
        /\ \A i \in 1..m : SubSeq(records, 1, m)[i] = records[i]
    BY PrefixOf
  <2> QED
    BY <2>1, <2>2, <1>12
<1>14. IsSeq(t)
  BY <1>13, SeqIn
<1>15. DOMAIN t = 1..(f - 1)
  BY <1>13, <1>14, SeqFacts
<1>16. ASSUME NEW i PROVE i \in Places(t, "observation") <=> i \in Places(records, "observation")
  <2>1. CASE i \in 1..(f - 1)
    <3>1. i \in 1..Len(records) /\ t[i] = records[i]
      BY <2>1, <1>8, <1>9, <1>13
    <3> QED
      BY <2>1, <3>1, <1>8, <1>15 DEF Places
  <2>2. CASE i \notin 1..(f - 1) /\ i \in 1..Len(records)
    <3>1. i = f \/ i = f + 1 \/ i = f + 2
      BY <2>2, <1>8, <1>9, <1>10
    <3>2. records[i].kind # "observation"
      BY <3>1, <1>9, <1>10, <1>11
    <3> QED
      BY <2>2, <3>2, <1>15 DEF Places
  <2>3. CASE i \notin 1..(f - 1) /\ i \notin 1..Len(records)
    BY <2>3, <1>8, <1>15 DEF Places
  <2> QED
    BY <2>1, <2>2, <2>3
<1>17. Places(t, "observation") = Places(records, "observation")
  BY <1>16
<1> QED
  BY <1>6, <1>9, <1>12, <1>14, <1>17

\* What AcceptedIsWhatHappened says of a candidate.
Accepted(c, things, n) ==
    LET observations == Observations(c.records) IN
    /\ [i \in DOMAIN observations |-> observations[i].evidence] = SubSeq(things, 1, n)
    /\ \A i \in DOMAIN observations : observations[i].owner = OwnerOf(things[i].class)
    /\ Len(OfKind(c.records, "observation")) = n

LEMMA VerifiedAccepted ==
    ASSUME NEW c, NEW things, IsSeq(things), NEW n \in 0..Len(things),
           GoodSeq(c.records, things, n),
           AutomaticCaptureVerified(c, Rules, Signer)
    PROVE  Accepted(c, things, n)
<1>1. PICK records : records = c.records
  OBVIOUS
<1>2. PICK observations : observations = Observations(records)
  OBVIOUS
<1>3. PICK fence : fence = records[FenceIndex(records)].body
  OBVIOUS
<1>4. /\ ValidCandidate(c) /\ FencePlaced(records)
      /\ FenceBinds(c, observations, fence)
  BY <1>1, <1>2, <1>3 DEF AutomaticCaptureVerified
<1>5. IsSeq(records) /\ Last(records).kind = "terminal"
  BY <1>1, <1>4 DEF ValidCandidate, GoodSeq
<1>6. PICK before : before = SubSeq(records, 1, FenceIndex(records) - 1)
  OBVIOUS
<1>7. /\ FenceIndex(records) \in 1..Len(records)
      /\ records[FenceIndex(records)].kind = "fence"
      /\ IsSeq(before)
      /\ Places(before, "observation") = Places(records, "observation")
  BY <1>4, <1>5, <1>6, ObservedBefore
<1>8. FenceGood(fence, things, n)
  BY <1>1, <1>3, <1>7 DEF GoodSeq, GoodRec
<1>9. /\ fence.digest = observations /\ fence.dropped = 0
      /\ Unowned(observations) = 0
  BY <1>4 DEF FenceBinds
<1>10. /\ DOMAIN observations = 1..n
       /\ \A i \in 1..n :
            /\ observations[i].evidence = things[i]
            /\ observations[i].owner \in {OwnerOf(things[i].class), NoOwner}
  BY <1>8, <1>9 DEF FenceGood
<1>11. n \in Nat /\ Len(things) \in Nat /\ n <= Len(things)
  BY SeqFacts
<1>12. \A i \in 1..n : observations[i].owner # NoOwner
  <2>1. PICK U : U = {i \in DOMAIN observations : observations[i].owner = NoOwner}
    OBVIOUS
  <2>2. Cardinality(U) = 0
    BY <1>9, <2>1 DEF Unowned
  <2>3. U \in SUBSET (1..n)
    BY <1>10, <2>1
  <2>4. IsFiniteSet(U)
    <3>1. IsFiniteSet(1..n)
      BY <1>11, FS_Interval
    <3> QED
      BY <2>3, <3>1, FS_Subset
  <2>5. U = {}
    BY <2>2, <2>4, FS_EmptySet
  <2> QED
    BY <2>1, <2>5, <1>10
<1>13. [i \in DOMAIN observations |-> observations[i].evidence] = SubSeq(things, 1, n)
  <2>1. PICK t : t = SubSeq(things, 1, n)
    OBVIOUS
  <2>2. t \in Seq(Range(things))
    BY <2>1, PrefixOf
  <2>3. Len(t) = n /\ \A i \in 1..n : t[i] = things[i]
    BY <2>1, PrefixOf
  <2>4. t = [i \in 1..n |-> t[i]]
    BY <2>2, <2>3
  <2>5. t = [i \in 1..n |-> observations[i].evidence]
    BY <2>3, <2>4, <1>10
  <2> QED
    BY <2>1, <2>5, <1>10
<1>14. Len(OfKind(records, "observation")) = n
  <2>1. Cardinality(Places(records, "observation")) \in Nat
        /\ Len(OfKind(records, "observation")) = Cardinality(Places(records, "observation"))
    BY <1>5, KindLength
  <2>2. DOMAIN OfKind(before, "observation") = 1..Cardinality(Places(before, "observation"))
    BY <1>7, KindLength
  <2>3. DOMAIN observations = DOMAIN OfKind(before, "observation")
    BY <1>2, <1>6 DEF Observations
  <2>4. 1..n = 1..Cardinality(Places(records, "observation"))
    BY <2>2, <2>3, <1>7, <1>10
  <2>5. n = Cardinality(Places(records, "observation"))
    BY <2>1, <2>4, <1>11
  <2> QED
    BY <2>1, <2>5
<1> QED
  BY <1>1, <1>2, <1>10, <1>12, <1>13, <1>14 DEF Accepted

--------------------------------------------------------------------------------
(* The recorder *)

\* While nothing was dropped the stream is the begin record and a record of
\* everything seen.
Keeps ==
    /\ Len(stream) = Len(seen) + 1
    /\ stream[1].kind = "begin"
    /\ \A i \in 2..Len(stream) :
         /\ stream[i].kind = "observation"
         /\ stream[i].body.evidence = seen[i - 1]
         /\ stream[i].body.owner \in {OwnerOf(seen[i - 1].class), NoOwner}

RecorderInv ==
    /\ IsSeq(seen)
    /\ cut \in [dropped : Nat, overflowed : BOOLEAN, fenced : Nat]
    /\ cut.fenced \in 0..Len(seen)
    /\ GoodSeq(stream, seen, cut.fenced)
    /\ Places(stream, "fence") = {} /\ cut.dropped = 0 => Keeps
    /\ candidate # None => GoodSeq(candidate.records, seen, cut.fenced)
    /\ verdict # "none" => candidate # None
    /\ Verified => Accepted(candidate, seen, cut.fenced)

\* In an interval each place is the one its number names.
LEMMA NthInterval ==
    ASSUME NEW n \in Nat, NEW k \in 1..n
    PROVE  /\ Cardinality(2..(n + 1)) = n
           /\ Nth(2..(n + 1), k) = k + 1
<1>1. PICK P : P = 2..(n + 1)
  OBVIOUS
<1>2. P \in SUBSET Int
  BY <1>1
<1>3. IsFiniteSet(P) /\ Cardinality(P) = n
  <2>1. PICK a \in Int, b \in Int : a = 2 /\ b = n + 1
    OBVIOUS
  <2>2. IsFiniteSet(a..b) /\ Cardinality(a..b) = IF a > b THEN 0 ELSE b - a + 1
    BY FS_Interval
  <2> QED
    BY <1>1, <2>1, <2>2
<1>4. PICK i \in P : i = k + 1
  BY <1>1
<1>5. PlacesBefore(P, i) = 2..k
  BY <1>1, <1>4 DEF PlacesBefore
<1>6. Cardinality(2..k) = k - 1
  <2>1. PICK a \in Int : a = 2
    OBVIOUS
  <2>2. k \in Int
    OBVIOUS
  <2>3. Cardinality(a..k) = IF a > k THEN 0 ELSE k - a + 1
    BY <2>2, FS_Interval
  <2> QED
    BY <2>1, <2>3
<1>7. k \in 1..Cardinality(P)
  BY <1>3
<1>8. Nth(P, k) \in P /\ Cardinality(PlacesBefore(P, Nth(P, k))) = k - 1
  BY <1>2, <1>3, <1>7, NthPlace
<1>9. Cardinality(PlacesBefore(P, Nth(P, k))) = Cardinality(PlacesBefore(P, i))
  BY <1>5, <1>6, <1>8
<1>10. Nth(P, k) = i
  BY <1>2, <1>3, <1>8, <1>9, RankUnique
<1> QED
  BY <1>1, <1>3, <1>4, <1>10

\* The observations kept are what was seen.
LEMMA KeptSeen ==
    ASSUME IsSeq(seen), IsSeq(stream), Keeps
    PROVE  /\ DOMAIN OfKind(stream, "observation") = 1..Len(seen)
           /\ \A i \in 1..Len(seen) :
                LET body == OfKind(stream, "observation")[i].body IN
                /\ body.evidence = seen[i]
                /\ body.owner \in {OwnerOf(seen[i].class), NoOwner}
<1>1. PICK n \in Nat : n = Len(seen)
  BY SeqFacts
<1>2. DOMAIN stream = 1..(n + 1)
  BY <1>1, SeqFacts DEF Keeps
<1>3. PICK P : P = Places(stream, "observation")
  OBVIOUS
<1>4. P = 2..(n + 1)
  <2>1. \A i \in 2..(n + 1) : i \in 1..(n + 1) /\ stream[i].kind = "observation"
    BY <1>1 DEF Keeps
  <2>2. \A i \in 1..(n + 1) : i = 1 \/ i \in 2..(n + 1)
    OBVIOUS
  <2>3. stream[1].kind # "observation"
    BY DEF Keeps
  <2> QED
    BY <2>1, <2>2, <2>3, <1>2, <1>3 DEF Places
<1>5. Cardinality(P) = n
  <2>1. PICK a \in Int, b \in Int : a = 2 /\ b = n + 1
    OBVIOUS
  <2>2. Cardinality(a..b) = IF a > b THEN 0 ELSE b - a + 1
    BY FS_Interval
  <2> QED
    BY <1>4, <2>1, <2>2
<1>6. PICK kept : kept = OfKind(stream, "observation")
  OBVIOUS
<1>7. kept = [k \in 1..n |-> stream[Nth(P, k)]]
  BY <1>3, <1>5, <1>6 DEF OfKind, Selected
<1>8. ASSUME NEW i \in 1..n
      PROVE  /\ kept[i].body.evidence = seen[i]
             /\ kept[i].body.owner \in {OwnerOf(seen[i].class), NoOwner}
  <2>1. Nth(P, i) = i + 1
    BY <1>4, NthInterval
  <2>2. kept[i] = stream[i + 1]
    BY <1>7, <2>1
  <2>3. i + 1 \in 2..Len(stream) /\ (i + 1) - 1 = i
    BY <1>1 DEF Keeps
  <2>4. /\ stream[i + 1].body.evidence = seen[(i + 1) - 1]
        /\ stream[i + 1].body.owner \in {OwnerOf(seen[(i + 1) - 1].class), NoOwner}
    BY <2>3 DEF Keeps
  <2> QED
    BY <2>2, <2>3, <2>4
<1> QED
  BY <1>1, <1>6, <1>7, <1>8

LEMMA GrowGood ==
    ASSUME NEW s, NEW things, IsSeq(things), NEW n \in 0..Len(things),
           GoodSeq(s, things, n), NEW x
    PROVE  GoodSeq(s, Append(things, x), n)
<1>1. \A i \in 1..n : Append(things, x)[i] = things[i]
  BY AppendFacts, SeqFacts
<1>2. ASSUME NEW body, FenceGood(body, things, n)
      PROVE  FenceGood(body, Append(things, x), n)
  BY <1>1, <1>2 DEF FenceGood
<1> QED
  BY <1>2 DEF GoodSeq, GoodRec

LEMMA AppendGood ==
    ASSUME NEW s, NEW things, NEW n, GoodSeq(s, things, n), NEW e, GoodRec(e, things, n)
    PROVE  GoodSeq(Append(s, e), things, n)
<1>1. IsSeq(s) /\ Len(s) \in Nat
  BY SeqFacts DEF GoodSeq
<1>2. /\ IsSeq(Append(s, e))
      /\ Len(Append(s, e)) = Len(s) + 1
      /\ \A i \in 1..Len(s) : Append(s, e)[i] = s[i]
      /\ Append(s, e)[Len(s) + 1] = e
  BY <1>1, AppendFacts
<1>3. \A i \in 1..(Len(s) + 1) : i \in 1..Len(s) \/ i = Len(s) + 1
  BY <1>1
<1> QED
  BY <1>2, <1>3 DEF GoodSeq

LEMMA UnfencedGood ==
    ASSUME NEW s, NEW things, NEW n, GoodSeq(s, things, n), Places(s, "fence") = {}, NEW m
    PROVE  GoodSeq(s, things, m)
<1>1. \A i \in 1..Len(s) : s[i].kind # "fence"
  BY SeqFacts DEF GoodSeq, Places
<1> QED
  BY <1>1 DEF GoodSeq, GoodRec

LEMMA RecorderInit == Init => RecorderInv
<1> SUFFICES ASSUME Init PROVE RecorderInv
  OBVIOUS
<1>1. /\ IsSeq(stream) /\ Len(stream) = 3
      /\ stream[1].kind = "begin"
      /\ \A i \in 2..3 :
           stream[i] = Rec("observation",
               Payload(Operation, i - 2, Baselines[i - 1], OwnerOf(Baselines[i - 1].class)))
      /\ stream[2].kind = "observation" /\ stream[3].kind = "observation"
  BY InitStream
<1>2. seen = Baselines /\ IsSeq(seen) /\ Len(seen) = 2
  <2>1. PICK a, b : Baselines = <<a, b>>
    BY DEF Baselines
  <2>2. <<a, b>> \in Seq({a, b}) /\ Len(<<a, b>>) = 2
    OBVIOUS
  <2> QED
    BY <2>1, <2>2, SeqIn DEF Init
<1>3. cut = [dropped |-> 0, overflowed |-> FALSE, fenced |-> 0]
      /\ candidate = None /\ verdict = "none"
  BY DEF Init
<1>4. Keeps
  <2>1. ASSUME NEW i \in 2..3
        PROVE  /\ stream[i].kind = "observation"
               /\ stream[i].body.evidence = seen[i - 1]
               /\ stream[i].body.owner \in {OwnerOf(seen[i - 1].class), NoOwner}
    <3>1. PICK p : p = Payload(Operation, i - 2, seen[i - 1], OwnerOf(seen[i - 1].class))
      OBVIOUS
    <3>2. stream[i] = Rec("observation", p)
      BY <1>1, <1>2, <3>1
    <3>3. p.evidence = seen[i - 1] /\ p.owner = OwnerOf(seen[i - 1].class)
      BY <3>1 DEF Payload
    <3> QED
      BY <3>2, <3>3 DEF Rec
  <2> QED
    BY <1>1, <1>2, <2>1 DEF Keeps
<1>5. GoodSeq(stream, seen, cut.fenced)
  <2>1. "kind" \in DOMAIN stream[1] /\ "body" \in DOMAIN stream[1]
    BY InitStream
  <2>2. \A i \in 2..3 : "kind" \in DOMAIN stream[i] /\ "body" \in DOMAIN stream[i]
    BY <1>1 DEF Rec
  <2>3. \A i \in 1..3 : i = 1 \/ i \in 2..3
    OBVIOUS
  <2>4. \A i \in 1..3 : stream[i].kind # "fence"
    BY <1>1, <1>4, <2>3 DEF Keeps
  <2> QED
    BY <1>1, <2>1, <2>2, <2>3, <2>4 DEF GoodSeq, GoodRec
<1> QED
  BY <1>2, <1>3, <1>4, <1>5 DEF RecorderInv, Verified

LEMMA RecorderObserve ==
    ASSUME RecorderInv, NEW exchange, NEW owner \in {OwnerOf(exchange.class), NoOwner},
           Observe(exchange, owner)
    PROVE  RecorderInv'
<1>1. /\ IsSeq(seen) /\ Len(seen) \in Nat
      /\ cut \in [dropped : Nat, overflowed : BOOLEAN, fenced : Nat]
      /\ cut.fenced \in 0..Len(seen)
      /\ GoodSeq(stream, seen, cut.fenced)
      /\ verdict # "none" => candidate # None
  BY SeqFacts DEF RecorderInv
<1>2. seen' = Append(seen, exchange) /\ candidate = None /\ candidate' = candidate
      /\ verdict' = verdict
  BY DEF Observe
<1>3. verdict' = "none" /\ ~Verified' /\ candidate' = None
  BY <1>1, <1>2 DEF Verified
<1>4. /\ IsSeq(seen') /\ Len(seen') = Len(seen) + 1
      /\ \A i \in 1..Len(seen) : seen'[i] = seen[i]
      /\ seen'[Len(seen) + 1] = exchange
  BY <1>1, <1>2, AppendFacts
<1>5. GoodSeq(stream, seen', cut.fenced)
  BY <1>1, <1>2, GrowGood
<1>6. CASE Len(OfKind(stream, "observation")) < RecorderSlots
  <2>1. PICK p : p = Payload(Operation, Len(OfKind(stream, "observation")), exchange, owner)
    OBVIOUS
  <2>2. PICK e : e = Rec("observation", p)
    OBVIOUS
  <2>3. stream' = Append(stream, e) /\ cut' = cut
    BY <1>6, <2>1, <2>2 DEF Observe
  <2>4. e.kind = "observation" /\ e.body = p /\ "kind" \in DOMAIN e /\ "body" \in DOMAIN e
    BY <2>2 DEF Rec
  <2>5. p.evidence = exchange /\ p.owner = owner
    BY <2>1 DEF Payload
  <2>6. GoodSeq(stream', seen', cut'.fenced)
    <3>1. GoodRec(e, seen', cut.fenced)
      BY <2>4 DEF GoodRec
    <3> QED
      BY <3>1, <2>3, <1>5, AppendGood
  <2>7. IsSeq(stream) /\ Len(stream) \in Nat
    BY <1>1, SeqFacts DEF GoodSeq
  <2>8. /\ Len(stream') = Len(stream) + 1
        /\ \A i \in 1..Len(stream) : stream'[i] = stream[i]
        /\ stream'[Len(stream) + 1] = e
    BY <2>3, <2>7, AppendFacts
  <2>9. ASSUME Places(stream', "fence") = {}, cut'.dropped = 0
        PROVE  Keeps'
    <3>1. Places(stream, "fence") = {}
      <4>1. Places(stream', "fence") = IF e.kind = "fence" THEN Places(stream, "fence") \cup {Len(stream) + 1} ELSE Places(stream, "fence")
        BY <2>3, <2>7, PlacesAppend
      <4> QED
        BY <4>1, <2>4, <2>9
    <3>2. Keeps
      BY <3>1, <2>3, <2>9 DEF RecorderInv
    <3>3. Len(stream) = Len(seen) + 1 /\ Len(stream') = Len(seen') + 1
      BY <3>2, <2>8, <1>4 DEF Keeps
    <3>4. stream'[1].kind = "begin"
      BY <3>2, <3>3, <2>8, <1>1 DEF Keeps
    <3>5. ASSUME NEW i \in 2..Len(stream')
          PROVE  /\ stream'[i].kind = "observation"
                 /\ stream'[i].body.evidence = seen'[i - 1]
                 /\ stream'[i].body.owner \in {OwnerOf(seen'[i - 1].class), NoOwner}
      <4>1. CASE i \in 2..Len(stream)
        <5>1. i \in 1..Len(stream) /\ i - 1 \in 1..Len(seen)
          BY <4>1, <3>3, <2>7, <1>1
        <5>2. stream'[i] = stream[i] /\ seen'[i - 1] = seen[i - 1]
          BY <5>1, <2>8, <1>4
        <5> QED
          BY <4>1, <5>2, <3>2 DEF Keeps
      <4>2. CASE i = Len(stream) + 1
        <5>1. i - 1 = Len(seen) + 1
          BY <4>2, <3>3, <1>1
        <5>2. stream'[i] = e /\ seen'[i - 1] = exchange
          BY <4>2, <5>1, <2>8, <1>4
        <5> QED
          BY <5>2, <2>4, <2>5
      <4> QED
        BY <4>1, <4>2, <2>7, <2>8
    <3> QED
      BY <3>3, <3>4, <3>5 DEF Keeps
  <2>10. cut' \in [dropped : Nat, overflowed : BOOLEAN, fenced : Nat] /\ cut'.fenced \in 0..Len(seen')
    BY <1>1, <1>4, <2>3
  <2> QED
    BY <1>3, <1>4, <2>6, <2>9, <2>10 DEF RecorderInv
<1>7. CASE ~(Len(OfKind(stream, "observation")) < RecorderSlots)
  <2>1. stream' = stream /\ cut' = [cut EXCEPT !.dropped = @ + 1, !.overflowed = TRUE]
    BY <1>7 DEF Observe
  <2>2. /\ cut' \in [dropped : Nat, overflowed : BOOLEAN, fenced : Nat]
        /\ cut'.fenced = cut.fenced /\ cut'.dropped = cut.dropped + 1
    <3>1. PICK d \in Nat : d = cut.dropped
      BY <1>1
    <3>2. PICK f \in Nat : f = cut.fenced
      BY <1>1
    <3>3. cut = [dropped |-> d, overflowed |-> cut.overflowed, fenced |-> f]
      BY <3>1, <3>2, <1>1
    <3>4. cut' = [dropped |-> d + 1, overflowed |-> TRUE, fenced |-> f]
      <4>1. PICK one : one = [cut EXCEPT !.dropped = d + 1]
        OBVIOUS
      <4>2. one = [dropped |-> d + 1, overflowed |-> cut.overflowed, fenced |-> f]
        BY <4>1, <3>3
      <4>3. cut' = [one EXCEPT !.overflowed = TRUE]
        BY <4>1, <3>1, <2>1, Zenon
      <4> QED
        BY <4>2, <4>3
    <3> QED
      BY <3>1, <3>2, <3>4
  <2>3. cut'.fenced \in 0..Len(seen') /\ cut'.dropped # 0
    BY <2>2, <1>1, <1>4
  <2>4. GoodSeq(stream', seen', cut'.fenced)
    BY <2>1, <2>2, <1>5
  <2> QED
    BY <1>3, <1>4, <2>2, <2>3, <2>4 DEF RecorderInv
<1> QED
  BY <1>6, <1>7

LEMMA RecorderCut ==
    ASSUME RecorderInv, CutFence
    PROVE  RecorderInv'
<1>1. /\ IsSeq(seen) /\ Len(seen) \in Nat
      /\ cut \in [dropped : Nat, overflowed : BOOLEAN, fenced : Nat]
      /\ GoodSeq(stream, seen, cut.fenced)
      /\ verdict # "none" => candidate # None
  BY SeqFacts DEF RecorderInv
<1>2. candidate = None /\ Phase = "running" /\ candidate' = candidate
      /\ verdict' = verdict /\ seen' = seen
  BY DEF CutFence
<1>3. verdict' = "none" /\ ~Verified' /\ candidate' = None
  BY <1>1, <1>2 DEF Verified
<1>4. Places(stream, "fence") = {}
  BY <1>2, RunningUnfenced
<1>5. cut' = [cut EXCEPT !.fenced = Len(seen)]
  BY DEF CutFence
<1>6. /\ cut' \in [dropped : Nat, overflowed : BOOLEAN, fenced : Nat]
      /\ cut'.fenced = Len(seen) /\ cut'.dropped = cut.dropped
  BY <1>1, <1>5
<1>7. PICK kept : kept = OfKind(stream, "observation")
  OBVIOUS
<1>8. PICK digest : digest = [i \in DOMAIN kept |-> kept[i].body]
  OBVIOUS
<1>9. PICK body : body =
          [closure |-> CoverageClose(Rules, coverage), count |-> Len(kept),
           deployment |-> Deployment, digest |-> digest, dropped |-> cut.dropped,
           operation |-> Operation, overflowed |-> cut.overflowed,
           ownership |-> Ownership, signer |-> Signer, subject |-> Deployment.subject,
           unowned |-> Unowned(digest)]
  OBVIOUS
<1>10. PICK e : e = Rec("fence", body)
  OBVIOUS
<1>11. stream' = Append(stream, e)
  BY <1>7, <1>8, <1>9, <1>10, Zenon DEF CutFence
<1>12. /\ e.kind = "fence" /\ e.body = body /\ "kind" \in DOMAIN e /\ "body" \in DOMAIN e
       /\ "digest" \in DOMAIN body /\ "dropped" \in DOMAIN body
       /\ body.digest = digest /\ body.dropped = cut.dropped
  BY <1>9, <1>10 DEF Rec
<1>13. ASSUME cut.dropped = 0
       PROVE  /\ DOMAIN digest = 1..Len(seen)
              /\ \A i \in 1..Len(seen) :
                   /\ digest[i].evidence = seen[i]
                   /\ digest[i].owner \in {OwnerOf(seen[i].class), NoOwner}
  <2>1. Keeps
    BY <1>4, <1>13 DEF RecorderInv
  <2>2. IsSeq(stream)
    BY <1>1 DEF GoodSeq
  <2>3. /\ DOMAIN kept = 1..Len(seen)
        /\ \A i \in 1..Len(seen) :
             /\ kept[i].body.evidence = seen[i]
             /\ kept[i].body.owner \in {OwnerOf(seen[i].class), NoOwner}
    BY <2>1, <2>2, <1>1, <1>7, KeptSeen
  <2> QED
    BY <2>3, <1>8
<1>14. GoodRec(e, seen, Len(seen))
  BY <1>12, <1>13 DEF GoodRec, FenceGood
<1>15. GoodSeq(stream, seen, Len(seen))
  BY <1>1, <1>4, UnfencedGood
<1>16. GoodSeq(stream', seen', cut'.fenced)
  BY <1>2, <1>6, <1>11, <1>14, <1>15, AppendGood
<1>17. Places(stream', "fence") # {}
  <2>1. IsSeq(stream)
    BY <1>1 DEF GoodSeq
  <2>2. Places(stream', "fence") = IF e.kind = "fence" THEN Places(stream, "fence") \cup {Len(stream) + 1} ELSE Places(stream, "fence")
    BY <2>1, <1>11, PlacesAppend
  <2> QED
    BY <2>2, <1>12
<1>18. cut'.fenced \in 0..Len(seen') /\ IsSeq(seen')
  BY <1>1, <1>2, <1>6
<1> QED
  BY <1>3, <1>6, <1>16, <1>17, <1>18 DEF RecorderInv

LEMMA RecorderFail ==
    ASSUME RecorderInv, Fail
    PROVE  RecorderInv'
<1>1. PICK body : body = [identity |-> FailureRef.identity, reference |-> FailureRef]
  OBVIOUS
<1>2. PICK e : e = Rec("failure", body)
  OBVIOUS
<1>3. /\ stream' = Append(stream, e) /\ candidate = None /\ Phase = "fenced"
      /\ UNCHANGED <<seen, cut, candidate, verdict>>
  BY <1>1, <1>2 DEF Fail
<1>4. e.kind = "failure" /\ "kind" \in DOMAIN e /\ "body" \in DOMAIN e
  BY <1>2 DEF Rec
<1>5. GoodRec(e, seen, cut.fenced)
  BY <1>4 DEF GoodRec
<1>6. GoodSeq(stream', seen', cut'.fenced)
  BY <1>3, <1>5, AppendGood DEF RecorderInv
<1>7. Places(stream, "fence") # {}
  BY <1>3 DEF Phase
<1>8. Places(stream', "fence") # {}
  <2>1. IsSeq(stream)
    BY DEF RecorderInv, GoodSeq
  <2>2. Places(stream', "fence") = IF e.kind = "fence" THEN Places(stream, "fence") \cup {Len(stream) + 1} ELSE Places(stream, "fence")
    BY <2>1, <1>3, PlacesAppend
  <2> QED
    BY <2>2, <1>4, <1>7
<1> QED
  BY <1>3, <1>6, <1>8 DEF RecorderInv, Verified, Accepted

LEMMA RecorderDeliver ==
    ASSUME RecorderInv,
           NEW bodies \in {stream} \cup (IF Phase = "failed" THEN Damage(stream) ELSE {}),
           Deliver(bodies)
    PROVE  RecorderInv'
<1>1. /\ candidate = None /\ UNCHANGED <<seen, stream, cut, verdict>>
      /\ candidate'.records = Numbered(Append(bodies, Rec("terminal",
                                 [complete |-> TRUE, count |-> Len(bodies)])))
      /\ verdict = "none"
  BY DEF Deliver, RecorderInv
<1>2. GoodSeq(stream, seen, cut.fenced)
  BY DEF RecorderInv
<1>3. bodies = stream \/ bodies \in Damage(stream)
  OBVIOUS
<1>4. GoodSeq(bodies, seen, cut.fenced)
  BY <1>2, <1>3, DamageGood
<1>5. GoodSeq(candidate'.records, seen', cut'.fenced)
  BY <1>1, <1>4, NumberedGood
<1> QED
  BY <1>1, <1>5 DEF RecorderInv, Verified, Keeps

LEMMA RecorderVerify ==
    ASSUME RecorderInv, Verify
    PROVE  RecorderInv'
<1>1. /\ candidate # None /\ UNCHANGED <<seen, stream, cut, candidate>>
      /\ verdict' = IF AutomaticCaptureVerified(candidate, Rules, Signer)
                    THEN "accepted" ELSE "rejected"
  BY DEF Verify
<1>2. /\ IsSeq(seen) /\ cut.fenced \in 0..Len(seen)
      /\ GoodSeq(candidate.records, seen, cut.fenced)
  BY <1>1 DEF RecorderInv
<1>3. ASSUME Verified' PROVE Accepted(candidate, seen, cut.fenced)
  <2>1. AutomaticCaptureVerified(candidate, Rules, Signer)
    BY <1>1, <1>3 DEF Verified
  <2> QED
    BY <2>1, <1>2, VerifiedAccepted
<1> QED
  BY <1>1, <1>3 DEF RecorderInv, Keeps

\* A step that leaves the capture alone and gives no verdict of its own.
LEMMA RecorderOther ==
    ASSUME RecorderInv, UNCHANGED <<seen, stream, cut, candidate>>,
           verdict' = verdict \/ Verified
    PROVE  RecorderInv'
<1>1. Verified' => Verified
  BY DEF Verified
<1>2. verdict' # "none" => candidate # None
  BY DEF RecorderInv, Verified
<1> QED
  BY <1>1, <1>2 DEF RecorderInv, Keeps

LEMMA RecorderStep ==
    ASSUME RecorderInv, [Next]_vars
    PROVE  RecorderInv'
<1>1. ASSUME NEW exchange, NEW owner \in {OwnerOf(exchange.class), NoOwner},
             Observe(exchange, owner)
      PROVE  RecorderInv'
  BY <1>1, RecorderObserve
<1>2. CASE CutFence
  BY <1>2, RecorderCut
<1>3. CASE Fail
  BY <1>3, RecorderFail
<1>4. ASSUME NEW bodies \in {stream} \cup (IF Phase = "failed" THEN Damage(stream) ELSE {}),
             Deliver(bodies)
      PROVE  RecorderInv'
  BY <1>4, RecorderDeliver
<1>5. CASE Verify
  BY <1>5, RecorderVerify
<1>6. CASE /\ UNCHANGED <<seen, stream, cut, candidate>>
           /\ verdict' = verdict \/ Verified
  BY <1>6, RecorderOther
<1>7. ASSUME NEW receipt, RecordReceipt(receipt)
      PROVE  UNCHANGED <<seen, stream, cut, candidate>> /\ (verdict' = verdict \/ Verified)
  BY <1>7 DEF RecordReceipt
<1>8. MarkUnowned => UNCHANGED <<seen, stream, cut, candidate>> /\ (verdict' = verdict \/ Verified)
  BY DEF MarkUnowned
<1>9. ASSUME NEW positioned, Resolve(positioned)
      PROVE  UNCHANGED <<seen, stream, cut, candidate>> /\ (verdict' = verdict \/ Verified)
  BY <1>9 DEF Resolve, Verified
<1>10. ASSUME NEW class, NEW position, NEW request, TakeResponse(class, position, request)
       PROVE  UNCHANGED <<seen, stream, cut, candidate>> /\ (verdict' = verdict \/ Verified)
  BY <1>10 DEF TakeResponse
<1>11. RequireComplete => UNCHANGED <<seen, stream, cut, candidate>> /\ (verdict' = verdict \/ Verified)
  BY DEF RequireComplete, Verified
<1>12. UNCHANGED vars => UNCHANGED <<seen, stream, cut, candidate>> /\ (verdict' = verdict \/ Verified)
  BY DEF vars
<1> QED
  BY <1>1, <1>2, <1>3, <1>4, <1>5, <1>6, <1>7, <1>8, <1>9, <1>10, <1>11, <1>12 DEF Next

\* While it has room the recorder keeps what the program saw in order, a
\* fence that dropped nothing has the digest of all of it, and no fault of
\* the spool changes what a fence digests.
THEOREM RecorderKeeps == Spec => []RecorderInv
  BY RecorderInit, RecorderStep, PTL DEF Spec

\* A candidate that verify_automatic_capture accepts holds every observation
\* made before the fence, in order, each with its owner, whatever the spool
\* lost, repeated, moved or altered (validate_fence_binding).
THEOREM AcceptedHappened == Spec => []AcceptedIsWhatHappened
<1>1. RecorderInv => AcceptedIsWhatHappened
  BY DEF RecorderInv, AcceptedIsWhatHappened, Accepted, Captured, Happened
<1> QED
  BY <1>1, RecorderKeeps, PTL

--------------------------------------------------------------------------------
(* The capsule and its table *)

\* A selection has the elements at its places.
LEMMA SelectedFacts ==
    ASSUME NEW s, NEW P \in SUBSET Int, IsFiniteSet(P)
    PROVE  /\ DOMAIN Selected(s, P) = 1..Cardinality(P)
           /\ Cardinality(P) \in Nat
           /\ \A k \in DOMAIN Selected(s, P) : \E i \in P : Selected(s, P)[k] = s[i]
           /\ \A i \in P : \E k \in DOMAIN Selected(s, P) : Selected(s, P)[k] = s[i]
<1>1. PICK t : t = Selected(s, P)
  OBVIOUS
<1>2. t = [k \in 1..Cardinality(P) |-> s[Nth(P, k)]]
  BY <1>1 DEF Selected
<1>3. ASSUME NEW k \in 1..Cardinality(P)
      PROVE  \E i \in P : t[k] = s[i]
  <2>1. Nth(P, k) \in P
    BY NthPlace
  <2> QED
    BY <2>1, <1>2
<1>4. ASSUME NEW i \in P
      PROVE  \E k \in 1..Cardinality(P) : t[k] = s[i]
  <2>1. PICK k \in 1..Cardinality(P) : Nth(P, k) = i
    BY NthOnto
  <2>2. t[k] = s[i]
    BY <2>1, <1>2
  <2> QED
    BY <2>2
<1>5. Cardinality(P) \in Nat
  BY FS_CardinalityType
<1>6. DOMAIN t = 1..Cardinality(P)
  BY <1>2
<1> QED
  BY <1>1, <1>3, <1>4, <1>5, <1>6

IsState(class) == class \in {"environment", "filesystem"}

\* The entry a sealed observation has in the table.
EntryOf(p) ==
    Entry(p.exchange.class, p.position, p.exchange.request,
          OutcomeOf(p.exchange.response), p.exchange.response)

EntriesOf(positioned) == {EntryOf(p) : p \in Range(positioned)}

\* An interaction's request tells its class.
ClassTold(exchange) == IsState(exchange.class) \/ InteractionClass(exchange) = exchange.class

LEMMA SealedEntry ==
    ASSUME NEW p, ClassTold(p.exchange)
    PROVE  LET a == Sealed(p) IN
           /\ Entry(a.class, a.position, a.request, a.outcome, a.response) = EntryOf(p)
           /\ ~IsState(p.exchange.class) =>
                Entry(InteractionClass(a), a.position, a.request, a.outcome, a.response) =
                    EntryOf(p)
<1>1. PICK a : a = Sealed(p)
  OBVIOUS
<1>2. /\ a.class = p.exchange.class /\ a.position = p.position
      /\ a.request = p.exchange.request /\ a.response = p.exchange.response
      /\ a.outcome = OutcomeOf(p.exchange.response)
  BY <1>1 DEF Sealed
<1>3. InteractionClass(a) = InteractionClass(p.exchange)
  BY <1>2 DEF InteractionClass
<1> QED
  BY <1>1, <1>2, <1>3 DEF EntryOf, ClassTold

\* Whatever was kept of the observations, the table has their entries.
LEMMA TableEntries ==
    ASSUME NEW positioned, IsSeq(positioned),
           \A p \in Range(positioned) : ClassTold(p.exchange)
    PROVE  Table(Capsule(positioned)) = EntriesOf(positioned)
<1>1. /\ DOMAIN positioned = 1..Len(positioned) /\ Len(positioned) \in Nat
      /\ \A i \in 1..Len(positioned) : positioned[i] \in Range(positioned)
      /\ \A x \in Range(positioned) : \E i \in 1..Len(positioned) : positioned[i] = x
  BY SeqFacts
<1>2. IsFiniteSet(1..Len(positioned))
  BY <1>1, FS_Interval
<1>3. PICK S : S = {i \in DOMAIN positioned :
                      positioned[i].exchange.class \in {"environment", "filesystem"}}
  OBVIOUS
<1>4. PICK O : O = DOMAIN positioned \ S
  OBVIOUS
<1>5. S \in SUBSET Int /\ O \in SUBSET Int /\ S \in SUBSET (1..Len(positioned))
      /\ O \in SUBSET (1..Len(positioned))
  BY <1>1, <1>3, <1>4
<1>6. IsFiniteSet(S) /\ IsFiniteSet(O)
  BY <1>2, <1>5, FS_Subset
<1>7. PICK states : states = Selected(positioned, S)
  OBVIOUS
<1>8. PICK others : others = Selected(positioned, O)
  OBVIOUS
<1>9. PICK capsule : capsule = Capsule(positioned)
  OBVIOUS
<1>10. /\ capsule.artifacts = [i \in DOMAIN states |-> Sealed(states[i])]
       /\ capsule.interactions = [i \in DOMAIN others |-> Sealed(others[i])]
  BY <1>3, <1>4, <1>7, <1>8, <1>9 DEF Capsule
<1>11. /\ \A k \in DOMAIN states : \E i \in S : states[k] = positioned[i]
       /\ \A i \in S : \E k \in DOMAIN states : states[k] = positioned[i]
  BY <1>5, <1>6, <1>7, SelectedFacts
<1>12. /\ \A k \in DOMAIN others : \E i \in O : others[k] = positioned[i]
       /\ \A i \in O : \E k \in DOMAIN others : others[k] = positioned[i]
  BY <1>5, <1>6, <1>8, SelectedFacts
<1>13. Range(capsule.artifacts) = {Sealed(positioned[i]) : i \in S}
  BY <1>10, <1>11 DEF Range
<1>14. Range(capsule.interactions) = {Sealed(positioned[i]) : i \in O}
  BY <1>10, <1>12 DEF Range
<1>15. \A i \in S : /\ positioned[i] \in Range(positioned)
                    /\ IsState(positioned[i].exchange.class)
  BY <1>1, <1>3 DEF IsState
<1>16. \A i \in O : /\ positioned[i] \in Range(positioned)
                    /\ ~IsState(positioned[i].exchange.class)
  BY <1>1, <1>3, <1>4 DEF IsState
<1>17. PICK T1 : T1 = {Entry(a.class, a.position, a.request, a.outcome, a.response) :
                         a \in Range(capsule.artifacts)}
  OBVIOUS
<1>18. PICK T2 : T2 = {Entry(InteractionClass(i), i.position, i.request, i.outcome, i.response) :
                         i \in Range(capsule.interactions)}
  OBVIOUS
<1>19. T1 = {EntryOf(positioned[i]) : i \in S}
  <2>1. \A i \in S : LET a == Sealed(positioned[i]) IN
          Entry(a.class, a.position, a.request, a.outcome, a.response) = EntryOf(positioned[i])
    BY <1>15, SealedEntry
  <2> QED
    BY <2>1, <1>13, <1>17
<1>20. T2 = {EntryOf(positioned[i]) : i \in O}
  <2>1. \A i \in O : LET a == Sealed(positioned[i]) IN
          Entry(InteractionClass(a), a.position, a.request, a.outcome, a.response) =
              EntryOf(positioned[i])
    BY <1>16, SealedEntry
  <2> QED
    BY <2>1, <1>14, <1>18
<1>21. Table(capsule) = T1 \cup T2
  BY <1>17, <1>18 DEF Table
<1>22. S \cup O = 1..Len(positioned)
  BY <1>1, <1>3, <1>4
<1>23. EntriesOf(positioned) = {EntryOf(positioned[i]) : i \in 1..Len(positioned)}
  <2>1. PICK R : R = Range(positioned)
    OBVIOUS
  <2>2. ASSUME NEW e \in {EntryOf(p) : p \in R}
        PROVE  e \in {EntryOf(positioned[i]) : i \in 1..Len(positioned)}
    <3>1. PICK p \in R : e = EntryOf(p)
      BY <2>2
    <3>2. PICK i \in 1..Len(positioned) : positioned[i] = p
      BY <1>1, <2>1
    <3> QED
      BY <3>1, <3>2
  <2>3. ASSUME NEW e \in {EntryOf(positioned[i]) : i \in 1..Len(positioned)}
        PROVE  e \in {EntryOf(p) : p \in R}
    <3>1. PICK i \in 1..Len(positioned) : e = EntryOf(positioned[i])
      BY <2>3
    <3>2. positioned[i] \in R
      BY <1>1, <2>1
    <3> QED
      BY <3>1, <3>2
  <2> QED
    BY <2>1, <2>2, <2>3 DEF EntriesOf
<1> QED
  BY <1>9, <1>19, <1>20, <1>21, <1>22, <1>23

\* The n-th of a class has a position of its own.
LEMMA PositionUnique ==
    ASSUME NEW exchanges, IsSeq(exchanges),
           NEW i \in 1..Len(exchanges), NEW j \in 1..Len(exchanges),
           exchanges[i].class = exchanges[j].class,
           Positioned(exchanges)[i].position = Positioned(exchanges)[j].position
    PROVE  i = j
<1>1. DOMAIN exchanges = 1..Len(exchanges) /\ Len(exchanges) \in Nat
  BY SeqFacts
<1>2. PICK P : P = {k \in 1..Len(exchanges) : exchanges[k].class = exchanges[i].class}
  OBVIOUS
<1>3. P \in SUBSET Int /\ P \in SUBSET (1..Len(exchanges)) /\ i \in P /\ j \in P
  BY <1>1, <1>2
<1>4. IsFiniteSet(P)
  <2>1. IsFiniteSet(1..Len(exchanges))
    BY <1>1, FS_Interval
  <2> QED
    BY <2>1, <1>3, FS_Subset
<1>5. PlacesBefore(P, i) = {k \in 1..(i - 1) : exchanges[k].class = exchanges[i].class}
  BY <1>1, <1>2 DEF PlacesBefore
<1>6. PlacesBefore(P, j) = {k \in 1..(j - 1) : exchanges[k].class = exchanges[j].class}
  BY <1>1, <1>2 DEF PlacesBefore
<1>7. /\ Positioned(exchanges)[i].position = Cardinality(PlacesBefore(P, i))
      /\ Positioned(exchanges)[j].position = Cardinality(PlacesBefore(P, j))
  BY <1>1, <1>5, <1>6 DEF Positioned
<1>8. Cardinality(PlacesBefore(P, i)) = Cardinality(PlacesBefore(P, j))
  BY <1>7
<1> QED
  BY <1>3, <1>4, <1>8, RankUnique

LEMMA PositionedFacts ==
    ASSUME NEW exchanges, IsSeq(exchanges)
    PROVE  /\ IsSeq(Positioned(exchanges))
           /\ Len(Positioned(exchanges)) = Len(exchanges)
           /\ \A i \in 1..Len(exchanges) :
                /\ Positioned(exchanges)[i].exchange = exchanges[i]
                /\ Positioned(exchanges)[i].position \in Nat
<1>1. DOMAIN exchanges = 1..Len(exchanges) /\ Len(exchanges) \in Nat
  BY SeqFacts
<1>2. PICK t : t = Positioned(exchanges)
  OBVIOUS
<1>3. t = [i \in 1..Len(exchanges) |->
             [exchange |-> exchanges[i],
              position |-> Cardinality({j \in 1..(i - 1) : exchanges[j].class = exchanges[i].class})]]
  BY <1>1, <1>2 DEF Positioned
<1>4. t = [i \in 1..Len(exchanges) |-> t[i]]
  BY <1>3
<1>5. IsSeq(t) /\ Len(t) = Len(exchanges)
  BY <1>1, <1>4, DomainIsSeq
<1>6. ASSUME NEW i \in 1..Len(exchanges)
      PROVE  t[i].exchange = exchanges[i] /\ t[i].position \in Nat
  <2>1. PICK B : B = {j \in 1..(i - 1) : exchanges[j].class = exchanges[i].class}
    OBVIOUS
  <2>2. PICK m \in Nat : m = i - 1
    BY <1>1
  <2>3. IsFiniteSet(1..m)
    BY FS_Interval
  <2>4. B \in SUBSET (1..m)
    BY <2>1, <2>2
  <2>5. Cardinality(B) \in Nat
    BY <2>3, <2>4, FS_Subset, FS_CardinalityType
  <2>6. t[i] = [exchange |-> exchanges[i], position |-> Cardinality(B)]
    BY <1>3, <2>1
  <2> QED
    BY <2>5, <2>6
<1> QED
  BY <1>2, <1>5, <1>6

\* Two entries of one class and position are the same.
LEMMA EntriesUnique ==
    ASSUME NEW exchanges, IsSeq(exchanges),
           NEW e \in EntriesOf(Positioned(exchanges)), NEW f \in EntriesOf(Positioned(exchanges)),
           e.class = f.class, e.position = f.position
    PROVE  e = f
<1>1. PICK t : t = Positioned(exchanges)
  OBVIOUS
<1>2. IsSeq(t) /\ Len(t) = Len(exchanges)
      /\ \A i \in 1..Len(exchanges) : t[i].exchange = exchanges[i]
  BY <1>1, PositionedFacts
<1>3. PICK p \in Range(t), q \in Range(t) : e = EntryOf(p) /\ f = EntryOf(q)
  BY <1>1 DEF EntriesOf
<1>4. PICK i \in 1..Len(exchanges), j \in 1..Len(exchanges) : t[i] = p /\ t[j] = q
  BY <1>2, SeqFacts
<1>5. /\ e.class = p.exchange.class /\ e.position = p.position
      /\ f.class = q.exchange.class /\ f.position = q.position
  BY <1>3 DEF EntryOf, Entry
<1>6. exchanges[i].class = exchanges[j].class /\ t[i].position = t[j].position
  BY <1>2, <1>4, <1>5
<1>7. i = j
  BY <1>1, <1>6, PositionUnique
<1> QED
  BY <1>3, <1>4, <1>7

--------------------------------------------------------------------------------
(* The replay *)

\* What was given out and what is left are the replayable entries of the
\* capsule that was resolved.
Served(positioned) ==
    /\ Resolves(Capsule(positioned))
    /\ Range(answers) \cup table = Replayable(Capsule(positioned))
    /\ Range(answers) \cap table = {}
    /\ IsInjective(answers)
    /\ ~damaged => positioned = Positioned(Captured)

ReplayInv ==
    /\ IsSeq(answers)
    /\ \A i \in 1..Len(seen) : ClassTold(seen[i])
    /\ verdict \in {"none", "accepted"} => answers = <<>>
    /\ verdict \in {"replaying", "complete"} => \E positioned \in CapsuleInputs : Served(positioned)
    /\ verdict = "complete" => table = {}

LEMMA ReplayInit == Init => ReplayInv
<1> SUFFICES ASSUME Init PROVE ReplayInv
  OBVIOUS
<1>1. answers = <<>> /\ verdict = "none" /\ seen = Baselines
  BY DEF Init
<1>2. IsSeq(answers)
  <2>1. <<>> \in Seq({})
    OBVIOUS
  <2> QED
    BY <1>1, <2>1, SeqIn
<1>3. PICK a, b : /\ Baselines = <<a, b>> /\ a.class = "environment" /\ b.class = "clock"
                  /\ b.request = ClockRequest
  <2>1. PICK a : a = [class |-> "environment", request |-> EnvironmentRequest,
                      response |-> EnvironmentImage]
    OBVIOUS
  <2>2. PICK b : b = [class |-> "clock", request |-> ClockRequest, response |-> ClockImage]
    OBVIOUS
  <2>3. Baselines = <<a, b>>
    BY <2>1, <2>2 DEF Baselines
  <2>4. a.class = "environment" /\ b.class = "clock" /\ b.request = ClockRequest
    BY <2>1, <2>2
  <2> QED
    BY <2>3, <2>4
<1>4. ClassTold(a) /\ ClassTold(b)
  BY <1>3 DEF ClassTold, IsState, InteractionClass
<1>5. \A i \in 1..Len(seen) : ClassTold(seen[i])
  <2>1. Len(<<a, b>>) = 2 /\ <<a, b>>[1] = a /\ <<a, b>>[2] = b
    OBVIOUS
  <2>2. \A i \in 1..2 : i = 1 \/ i = 2
    OBVIOUS
  <2> QED
    BY <1>1, <1>3, <1>4, <2>1, <2>2
<1> QED
  BY <1>1, <1>2, <1>5 DEF ReplayInv

\* A step that leaves the replay alone.
LEMMA ReplayOther ==
    ASSUME ReplayInv, UNCHANGED <<candidate, damaged, verdict, table, answers>>,
           \A i \in 1..Len(seen') : ClassTold(seen'[i])
    PROVE  ReplayInv'
<1>1. CapsuleInputs' = CapsuleInputs /\ Captured' = Captured
  BY DEF CapsuleInputs, Captured
<1>2. ASSUME NEW positioned, Served(positioned) PROVE Served(positioned)'
  BY <1>1, <1>2 DEF Served
<1> QED
  BY <1>1, <1>2 DEF ReplayInv

\* The request of an exchange is not the raw one of the clock baseline.
LEMMA ExchangeTold ==
    ASSUME NEW exchange \in Exchanges
    PROVE  exchange.request # ClockRequest /\ ClassTold(exchange)
<1>1. "operation" \in DOMAIN exchange.request /\ exchange.class = PairClass(exchange.request)
  BY WorldAssumption
<1>2. "operation" \notin DOMAIN ClockRequest
  BY DEF ClockRequest
<1> QED
  BY <1>1, <1>2 DEF ClassTold, InteractionClass

LEMMA ReplayObserve ==
    ASSUME ReplayInv, RecorderInv, NEW exchange \in Exchanges, NEW owner,
           Observe(exchange, owner)
    PROVE  ReplayInv'
<1>1. /\ UNCHANGED <<candidate, damaged, verdict, table, answers>>
      /\ seen' = Append(seen, exchange)
  BY DEF Observe
<1>2. IsSeq(seen) /\ Len(seen) \in Nat
  BY SeqFacts DEF RecorderInv
<1>3. /\ Len(seen') = Len(seen) + 1
      /\ \A i \in 1..Len(seen) : seen'[i] = seen[i]
      /\ seen'[Len(seen) + 1] = exchange
  BY <1>1, <1>2, AppendFacts
<1>4. ClassTold(exchange)
  BY ExchangeTold
<1>5. \A i \in 1..Len(seen') : i \in 1..Len(seen) \/ i = Len(seen) + 1
  BY <1>2, <1>3
<1>6. \A i \in 1..Len(seen') : ClassTold(seen'[i])
  BY <1>3, <1>4, <1>5 DEF ReplayInv
<1> QED
  BY <1>1, <1>6, ReplayOther

LEMMA ReplayResolve ==
    ASSUME ReplayInv, NEW positioned \in CapsuleInputs, Resolve(positioned)
    PROVE  ReplayInv'
<1>1. /\ verdict = "accepted" /\ answers' = answers /\ seen' = seen /\ candidate' = candidate
      /\ damaged' = (damaged \/ positioned # Positioned(Captured))
  BY DEF Resolve
<1>2. answers = <<>> /\ IsSeq(answers)
  BY <1>1 DEF ReplayInv
<1>3. Range(answers) = {} /\ IsInjective(answers)
  BY <1>2 DEF Range, IsInjective
<1>4. CapsuleInputs' = CapsuleInputs /\ Captured' = Captured
  BY <1>1 DEF CapsuleInputs, Captured
<1>5. CASE Resolves(Capsule(positioned))
  <2>1. verdict' = "replaying" /\ table' = Replayable(Capsule(positioned))
    BY <1>5 DEF Resolve
  <2>2. Served(positioned)'
    BY <1>1, <1>3, <1>4, <1>5, <2>1 DEF Served
  <2> QED
    BY <1>1, <1>2, <1>4, <2>1, <2>2 DEF ReplayInv
<1>6. CASE ~Resolves(Capsule(positioned))
  <2>1. verdict' = "unresolved"
    BY <1>6 DEF Resolve
  <2> QED
    BY <1>1, <1>2, <2>1 DEF ReplayInv
<1> QED
  BY <1>5, <1>6

LEMMA ReplayTake ==
    ASSUME ReplayInv, NEW class, NEW position, NEW request,
           TakeResponse(class, position, request)
    PROVE  ReplayInv'
<1>1. PICK taken \in Taken(table, class, position, request) :
         table' = table \ {taken} /\ answers' = Append(answers, taken)
  BY DEF TakeResponse
<1>2. /\ verdict = "replaying" /\ verdict' = verdict /\ seen' = seen
      /\ candidate' = candidate /\ damaged' = damaged
  BY DEF TakeResponse
<1>3. taken \in table
  BY DEF Taken
<1>4. PICK positioned \in CapsuleInputs : Served(positioned)
  BY <1>2 DEF ReplayInv
<1>5. IsSeq(answers) /\ Len(answers) \in Nat /\ DOMAIN answers = 1..Len(answers)
  BY SeqFacts DEF ReplayInv
<1>6. /\ IsSeq(answers') /\ Len(answers') = Len(answers) + 1
      /\ \A i \in 1..Len(answers) : answers'[i] = answers[i]
      /\ answers'[Len(answers) + 1] = taken
  BY <1>1, <1>5, AppendFacts
<1>7. DOMAIN answers' = 1..(Len(answers) + 1)
  BY <1>6, SeqFacts
<1>8. \A i \in 1..(Len(answers) + 1) : i \in 1..Len(answers) \/ i = Len(answers) + 1
  BY <1>5
<1>9. Len(answers) + 1 \in 1..(Len(answers) + 1)
      /\ \A i \in 1..Len(answers) : i \in 1..(Len(answers) + 1)
  BY <1>5
<1>10. Range(answers') = Range(answers) \cup {taken}
  BY <1>5, <1>6, <1>7, <1>8, <1>9 DEF Range
<1>11. taken \notin Range(answers)
  BY <1>3, <1>4 DEF Served
<1>12. IsInjective(answers')
  <2>1. \A i \in 1..Len(answers) : answers[i] # taken
    BY <1>5, <1>11 DEF Range
  <2>2. \A i, j \in 1..Len(answers) : answers[i] = answers[j] => i = j
    BY <1>4, <1>5 DEF Served, IsInjective
  <2>3. ASSUME NEW i \in 1..(Len(answers) + 1), NEW j \in 1..(Len(answers) + 1),
               answers'[i] = answers'[j]
        PROVE  i = j
    BY <2>1, <2>2, <2>3, <1>6, <1>8
  <2> QED
    BY <2>3, <1>7 DEF IsInjective
<1>13. CapsuleInputs' = CapsuleInputs /\ Captured' = Captured
  BY <1>2 DEF CapsuleInputs, Captured
<1>14. /\ Range(answers') \cup table' = Replayable(Capsule(positioned))
       /\ Range(answers') \cap table' = {}
  BY <1>1, <1>3, <1>4, <1>10 DEF Served
<1>15. Served(positioned)'
  BY <1>2, <1>4, <1>12, <1>13, <1>14 DEF Served
<1> QED
  BY <1>2, <1>6, <1>13, <1>15 DEF ReplayInv

LEMMA ReplayComplete ==
    ASSUME ReplayInv, RequireComplete
    PROVE  ReplayInv'
<1>1. /\ verdict = "replaying" /\ verdict' = IF table = {} THEN "complete" ELSE "incomplete"
      /\ UNCHANGED <<seen, candidate, damaged, table, answers>>
  BY DEF RequireComplete
<1>2. CapsuleInputs' = CapsuleInputs /\ Captured' = Captured
  BY <1>1 DEF CapsuleInputs, Captured
<1>3. PICK positioned \in CapsuleInputs : Served(positioned)
  BY <1>1 DEF ReplayInv
<1>4. Served(positioned)'
  BY <1>1, <1>2, <1>3 DEF Served
<1> QED
  BY <1>1, <1>2, <1>3, <1>4 DEF ReplayInv

LEMMA ReplayStep ==
    ASSUME ReplayInv, RecorderInv, [Next]_vars
    PROVE  ReplayInv'
<1>1. ASSUME NEW exchange \in Exchanges, NEW owner, Observe(exchange, owner)
      PROVE  ReplayInv'
  BY <1>1, ReplayObserve
<1>2. ASSUME NEW bodies, Deliver(bodies) PROVE ReplayInv'
  <2>1. candidate = None /\ UNCHANGED <<verdict, answers, seen>>
    BY <1>2 DEF Deliver
  <2>2. verdict = "none"
    BY <2>1 DEF RecorderInv
  <2> QED
    BY <2>1, <2>2 DEF ReplayInv
<1>3. CASE Verify
  <2>1. verdict = "none" /\ verdict' \in {"accepted", "rejected"} /\ UNCHANGED <<answers, seen>>
    BY <1>3 DEF Verify
  <2> QED
    BY <2>1 DEF ReplayInv
<1>4. ASSUME NEW positioned \in CapsuleInputs, Resolve(positioned) PROVE ReplayInv'
  BY <1>4, ReplayResolve
<1>5. ASSUME NEW class, NEW position, NEW request, TakeResponse(class, position, request)
      PROVE  ReplayInv'
  BY <1>5, ReplayTake
<1>6. CASE RequireComplete
  BY <1>6, ReplayComplete
<1>7. CASE UNCHANGED <<seen, candidate, damaged, verdict, table, answers>>
  BY <1>7, ReplayOther DEF ReplayInv
<1>8. ASSUME NEW receipt, RecordReceipt(receipt)
      PROVE  UNCHANGED <<seen, candidate, damaged, verdict, table, answers>>
  BY <1>8 DEF RecordReceipt
<1>9. MarkUnowned => UNCHANGED <<seen, candidate, damaged, verdict, table, answers>>
  BY DEF MarkUnowned
<1>10. CutFence => UNCHANGED <<seen, candidate, damaged, verdict, table, answers>>
  BY DEF CutFence
<1>11. Fail => UNCHANGED <<seen, candidate, damaged, verdict, table, answers>>
  BY DEF Fail
<1>12. UNCHANGED vars => UNCHANGED <<seen, candidate, damaged, verdict, table, answers>>
  BY DEF vars
<1> QED
  BY <1>1, <1>2, <1>3, <1>4, <1>5, <1>6, <1>7, <1>8, <1>9, <1>10, <1>11, <1>12 DEF Next

\* What a replay has given out and what it has left are, without overlap, the
\* entries of the capsule it was resolved from (take_response).
THEOREM ReplayServes == Spec => []ReplayInv
<1>1. Init => ReplayInv
  BY ReplayInit
<1>2. ReplayInv /\ RecorderInv /\ [Next]_vars => ReplayInv'
  BY ReplayStep
<1> QED
  BY <1>1, <1>2, RecorderKeeps, PTL DEF Spec

\* Both tables have the same entry at the first position of a class.
LEMMA BaselineSame ==
    ASSUME NEW exchanges, IsSeq(exchanges), NEW T, T \in SUBSET EntriesOf(Positioned(exchanges)),
           NEW class, \E e \in T : e.class = class /\ e.position = 0
    PROVE  /\ Baseline(EntriesOf(Positioned(exchanges)), class) = Baseline(T, class)
           /\ Baseline(T, class) \in T
           /\ Baseline(T, class).class = class /\ Baseline(T, class).position = 0
<1>1. PICK W : W = EntriesOf(Positioned(exchanges))
  OBVIOUS
<1>2. PICK a : a = Baseline(T, class)
  OBVIOUS
<1>3. PICK b : b = Baseline(W, class)
  OBVIOUS
<1>4. a \in T /\ a.class = class /\ a.position = 0
  BY <1>2, Zenon DEF Baseline
<1>5. \E e \in W : e.class = class /\ e.position = 0
  BY <1>1, <1>4
<1>6. b \in W /\ b.class = class /\ b.position = 0
  BY <1>3, <1>5, Zenon DEF Baseline
<1>7. a = b
  BY <1>1, <1>4, <1>6, EntriesUnique
<1> QED
  BY <1>1, <1>2, <1>3, <1>4, <1>7

\* Sealing keeps only what it was given.
LEMMA InputsPart ==
    ASSUME NEW positioned \in CapsuleInputs, IsSeq(Positioned(Captured))
    PROVE  IsSeq(positioned) /\ Range(positioned) \in SUBSET Range(Positioned(Captured))
<1>1. PICK whole : whole = Positioned(Captured)
  OBVIOUS
<1>2. IsSeq(whole) /\ DOMAIN whole = 1..Len(whole) /\ Len(whole) \in Nat
  BY <1>1, SeqFacts
<1>3. ASSUME NEW i \in DOMAIN whole
      PROVE  RemoveAt(whole, i) \in Seq(Range(whole)) /\ InsertAt(whole, i, whole[i]) \in Seq(Range(whole))
  BY <1>2, RemovePart, InsertPart
<1>4. positioned \in Seq(Range(whole))
  <2>1. \/ positioned = whole
        \/ \E i \in DOMAIN whole : positioned = RemoveAt(whole, i)
        \/ \E i \in DOMAIN whole : positioned = InsertAt(whole, i, whole[i])
    BY <1>1, Zenon DEF CapsuleInputs
  <2> QED
    BY <2>1, <1>2, <1>3 DEF IsSeq
<1> QED
  BY <1>1, <1>4, SeqIn

\* A replay that require_complete passes gave out, once each, recorded
\* answers at the positions they were recorded at, without a gap in a class,
\* and all of them when sealing kept every observation
\* (automatic_replay.rs, require_contiguous_positions and take_response).
THEOREM CompleteHappened == Spec => []CompleteIsWhatHappened
<1>1. RecorderInv /\ ReplayInv => CompleteIsWhatHappened
  <2> SUFFICES ASSUME RecorderInv, ReplayInv, verdict = "complete"
               PROVE  /\ Range(answers) \subseteq Expected
                      /\ IsInjective(answers)
                      /\ \A e \in Range(answers) : \A p \in first_position(e.class)..e.position :
                           \E other \in Range(answers) : other.class = e.class /\ other.position = p
                      /\ ~damaged => Range(answers) = Expected
    BY DEF CompleteIsWhatHappened
  <2>1. Captured = Happened
    BY DEF RecorderInv, Verified, Accepted, Captured, Happened
  <2>2. PICK happened : happened = Happened
    OBVIOUS
  <2>3. /\ IsSeq(happened)
        /\ \A i \in 1..Len(happened) : ClassTold(happened[i])
    <3>1. IsSeq(seen) /\ cut.fenced \in 0..Len(seen) /\ Len(seen) \in Nat
      BY SeqFacts DEF RecorderInv
    <3>2. /\ happened \in Seq(Range(seen)) /\ Len(happened) = cut.fenced
          /\ \A i \in 1..cut.fenced : happened[i] = seen[i]
      BY <2>2, <3>1, PrefixOf DEF Happened
    <3>3. \A i \in 1..cut.fenced : i \in 1..Len(seen)
      BY <3>1
    <3>4. IsSeq(happened)
      BY <3>2, SeqIn
    <3> QED
      BY <3>2, <3>3, <3>4 DEF ReplayInv
  <2>4. PICK whole : whole = Positioned(happened)
    OBVIOUS
  <2>5. /\ IsSeq(whole) /\ Len(whole) = Len(happened)
        /\ \A i \in 1..Len(happened) : whole[i].exchange = happened[i] /\ whole[i].position \in Nat
    BY <2>3, <2>4, PositionedFacts
  <2>6. \A p \in Range(whole) : ClassTold(p.exchange) /\ p.position \in Nat
    <3>1. ASSUME NEW p \in Range(whole) PROVE ClassTold(p.exchange) /\ p.position \in Nat
      <4>1. PICK i \in 1..Len(whole) : whole[i] = p
        BY <2>5, SeqFacts
      <4> QED
        BY <4>1, <2>3, <2>5
    <3> QED
      BY <3>1
  <2>7. PICK positioned \in CapsuleInputs : Served(positioned)
    BY DEF ReplayInv
  <2>8. IsSeq(positioned) /\ Range(positioned) \in SUBSET Range(whole)
    BY <2>1, <2>2, <2>4, <2>5, InputsPart
  <2>9. PICK T : T = Table(Capsule(positioned))
    OBVIOUS
  <2>10. PICK W : W = Table(Capsule(whole))
    OBVIOUS
  <2>11. T = EntriesOf(positioned) /\ W = EntriesOf(whole)
    BY <2>5, <2>6, <2>8, <2>9, <2>10, TableEntries
  <2>12. T \in SUBSET W
    BY <2>8, <2>11 DEF EntriesOf
  <2>13. PICK B : B = {Baseline(W, "environment"), Baseline(W, "clock")}
    OBVIOUS
  <2>14. Expected = W \ B
    <3>1. {EntryOf(p) : p \in Range(whole)} = W
      BY <2>11 DEF EntriesOf
    <3>2. {Baseline(W, c) : c \in {"environment", "clock"}} = B
      BY <2>13
    <3>3. Expected = {EntryOf(p) : p \in Range(whole)} \
                         {Baseline(W, c) : c \in {"environment", "clock"}}
      BY <2>2, <2>4, <2>10 DEF Expected, EntryOf
    <3> QED
      BY <3>1, <3>2, <3>3
  <2>15. /\ \E e \in T : e.class = "environment" /\ e.position = 0
         /\ \E e \in T : e.class = "clock" /\ e.position = 0
         /\ Contiguous(T)
    <3>1. /\ BaselineTaken(T, "environment", EnvironmentRequest)
          /\ BaselineTaken(T, "clock", ClockRequest)
          /\ Contiguous(T)
      BY <2>7, <2>9 DEF Served, Resolves
    <3> QED
      BY <3>1 DEF BaselineTaken
  <2>16. /\ Baseline(W, "environment") = Baseline(T, "environment")
         /\ Baseline(W, "clock") = Baseline(T, "clock")
         /\ Baseline(T, "environment").class = "environment"
         /\ Baseline(T, "environment").position = 0
         /\ Baseline(T, "clock").class = "clock"
         /\ Baseline(T, "clock").position = 0
    BY <2>3, <2>4, <2>11, <2>12, <2>15, BaselineSame
  <2>17. Range(answers) = T \ B
    <3>1. table = {}
      BY DEF ReplayInv
    <3>2. Range(answers) = Replayable(Capsule(positioned))
      BY <2>7, <3>1 DEF Served
    <3> QED
      BY <3>2, <2>9, <2>13, <2>16 DEF Replayable
  <2>18. Range(answers) \subseteq Expected
    BY <2>12, <2>14, <2>17
  <2>19. IsInjective(answers)
    BY <2>7 DEF Served
  <2>20. ASSUME NEW e \in Range(answers), NEW p \in first_position(e.class)..e.position
         PROVE  \E other \in Range(answers) : other.class = e.class /\ other.position = p
    <3>1. e \in T /\ e.position \in Nat
      <4>1. PICK q \in Range(whole) : e = EntryOf(q)
        BY <2>11, <2>12, <2>17 DEF EntriesOf
      <4>2. e.position = q.position
        BY <4>1 DEF EntryOf, Entry
      <4> QED
        BY <4>2, <2>6, <2>17
    <3>2. <<e.class, e.position>> \in Keys(T)
      BY <3>1 DEF Keys
    <3>3. p \in 0..e.position
      BY <3>1 DEF first_position
    <3>4. <<e.class, p>> \in Keys(T)
      <4>1. \A key \in Keys(T) : \A r \in 0..key[2] : <<key[1], r>> \in Keys(T)
        BY <2>15 DEF Contiguous
      <4>2. PICK key \in Keys(T) : key[1] = e.class /\ key[2] = e.position
        BY <3>2
      <4> QED
        BY <4>1, <4>2, <3>3
    <3>5. PICK other \in T : other.class = e.class /\ other.position = p
      BY <3>4 DEF Keys
    <3>6. other \notin B
      <4>1. ASSUME other.class \in {"environment", "clock"} PROVE other.position # 0
        BY <4>1, <3>1, <3>5 DEF first_position
      <4> QED
        BY <4>1, <2>13, <2>16
    <3> QED
      BY <3>5, <3>6, <2>17
  <2>21. ASSUME ~damaged PROVE Range(answers) = Expected
    <3>1. positioned = whole
      BY <2>1, <2>2, <2>4, <2>7, <2>21 DEF Served
    <3> QED
      BY <3>1, <2>9, <2>10, <2>14, <2>17
  <2> QED
    BY <2>18, <2>19, <2>20, <2>21
<1> QED
  BY <1>1, RecorderKeeps, ReplayServes, PTL

--------------------------------------------------------------------------------
(* A whole capture *)

\* What the recorder writes first: the begin record and m observations.
Prefix(s, things, m) ==
    /\ m + 1 <= Len(s)
    /\ s[1].kind = "begin" /\ s[1].body = [campaign |-> NoContext, parents |-> {}]
    /\ \A i \in 1..m :
         /\ s[i + 1].kind = "observation"
         /\ \E owner \in {OwnerOf(things[i].class), NoOwner} :
              s[i + 1].body = Payload(Operation, i - 1, things[i], owner)

\* The fence over m observations of which none was dropped.
FenceAt(s, m) ==
    /\ m + 2 <= Len(s)
    /\ s[m + 2].kind = "fence"
    /\ LET body == s[m + 2].body IN
       /\ body.count = m /\ body.dropped = 0 /\ ~body.overflowed
       /\ body.digest = [i \in 1..m |-> s[i + 1].body]
       /\ body.unowned = Unowned(body.digest)
       /\ body.deployment = Deployment /\ body.subject = Deployment.subject
       /\ body.operation = Operation /\ body.signer = Signer
       /\ body.ownership = Ownership
       /\ ClosesWorld(Rules, body.closure)

IsFailure(r) ==
    /\ r.kind = "failure"
    /\ r.body = [identity |-> FailureRef.identity, reference |-> FailureRef]

Terminal(s) == Rec("terminal", [complete |-> TRUE, count |-> Len(s)])

CandidateFor(s) ==
    [operation |-> Operation, mode |-> Deployment.mode, deployment |-> Deployment,
     failure |-> FailureRef, context |-> NoContext, source |-> "production",
     records |-> Numbered(Append(s, Terminal(s)))]

\* What is written when nothing was dropped, and delivered when nothing was
\* lost, repeated or moved.
WroteInv ==
    /\ Len(seen) <= ObservationBound
    /\ cut.dropped = 0 =>
         /\ ~cut.overflowed
         /\ Places(stream, "fence") = {} =>
              Prefix(stream, seen, Len(seen)) /\ Len(stream) = Len(seen) + 1
         /\ Places(stream, "fence") # {} =>
              /\ Prefix(stream, seen, cut.fenced) /\ FenceAt(stream, cut.fenced)
              /\ Places(stream, "fence") = {cut.fenced + 2}
              /\ cut.fenced = Len(seen) =>
                   \/ Len(stream) = cut.fenced + 2
                   \/ Len(stream) = cut.fenced + 3 /\ IsFailure(stream[cut.fenced + 3])
    /\ candidate # None /\ ~damaged =>
         /\ candidate = CandidateFor(stream)
         /\ stream # <<>> /\ Last(stream).kind = "failure"

LEMMA PrefixAppends ==
    ASSUME NEW s, IsSeq(s), NEW things, IsSeq(things), NEW m \in 0..Len(things),
           Prefix(s, things, m), NEW e, NEW x
    PROVE  /\ Prefix(Append(s, e), things, m)
           /\ Prefix(s, Append(things, x), m)
           /\ Prefix(Append(s, e), Append(things, x), m)
<1>1. Len(s) \in Nat /\ Len(things) \in Nat /\ m \in Nat /\ m + 1 <= Len(s)
  BY SeqFacts DEF Prefix
<1>2. /\ Len(Append(s, e)) = Len(s) + 1
      /\ \A i \in 1..Len(s) : Append(s, e)[i] = s[i]
  BY AppendFacts
<1>3. \A i \in 1..Len(things) : Append(things, x)[i] = things[i]
  BY AppendFacts
<1>4. PICK t, w : t = Append(s, e) /\ w = Append(things, x)
  OBVIOUS
<1>5. \A i \in 1..m : t[i + 1] = s[i + 1] /\ w[i] = things[i]
  <2>1. \A i \in 1..m : i + 1 \in 1..Len(s) /\ i \in 1..Len(things)
    BY <1>1
  <2> QED
    BY <2>1, <1>2, <1>3, <1>4
<1>6. t[1] = s[1] /\ m + 1 <= Len(t)
  BY <1>1, <1>2, <1>4
<1>7. Prefix(t, things, m)
  BY <1>5, <1>6 DEF Prefix
<1>8. Prefix(s, w, m)
  <2>1. ASSUME NEW i \in 1..m
        PROVE  /\ s[i + 1].kind = "observation"
               /\ \E owner \in {OwnerOf(w[i].class), NoOwner} :
                    s[i + 1].body = Payload(Operation, i - 1, w[i], owner)
    <3>1. w[i] = things[i]
      BY <1>5
    <3> QED
      BY <3>1 DEF Prefix
  <2> QED
    BY <2>1 DEF Prefix
<1>9. Prefix(t, w, m)
  BY <1>7, <1>5 DEF Prefix
<1> QED
  BY <1>4, <1>7, <1>8, <1>9

LEMMA FenceAppends ==
    ASSUME NEW s, IsSeq(s), NEW m \in Nat, FenceAt(s, m), NEW e
    PROVE  FenceAt(Append(s, e), m)
<1>1. Len(s) \in Nat /\ m + 2 <= Len(s)
  BY SeqFacts DEF FenceAt
<1>2. PICK t : t = Append(s, e)
  OBVIOUS
<1>3. Len(t) = Len(s) + 1 /\ \A i \in 1..Len(s) : t[i] = s[i]
  BY <1>2, AppendFacts
<1>4. t[m + 2] = s[m + 2] /\ m + 2 <= Len(t)
  BY <1>1, <1>3
<1>5. \A i \in 1..m : t[i + 1] = s[i + 1]
  BY <1>1, <1>3
<1>6. [i \in 1..m |-> t[i + 1].body] = [i \in 1..m |-> s[i + 1].body]
  BY <1>5
<1> QED
  BY <1>2, <1>4, <1>6 DEF FenceAt

\* The observations of a prefix without a fence.
LEMMA PrefixKept ==
    ASSUME NEW s, IsSeq(s), NEW things, NEW m \in Nat, Prefix(s, things, m), Len(s) = m + 1
    PROVE  /\ Len(OfKind(s, "observation")) = m
           /\ DOMAIN OfKind(s, "observation") = 1..m
           /\ \A i \in 1..m : OfKind(s, "observation")[i] = s[i + 1]
<1>1. DOMAIN s = 1..(m + 1)
  BY SeqFacts
<1>2. PICK P : P = Places(s, "observation")
  OBVIOUS
<1>3. P = 2..(m + 1)
  <2>1. \A i \in 2..(m + 1) : i \in 1..(m + 1) /\ i - 1 \in 1..m /\ (i - 1) + 1 = i
    OBVIOUS
  <2>2. \A i \in 2..(m + 1) : s[i].kind = "observation"
    BY <2>1 DEF Prefix
  <2>3. \A i \in 1..(m + 1) : i = 1 \/ i \in 2..(m + 1)
    OBVIOUS
  <2>4. s[1].kind # "observation"
    BY DEF Prefix
  <2> QED
    BY <2>1, <2>2, <2>3, <2>4, <1>1, <1>2 DEF Places
<1>4. Cardinality(P) = m
  <2>1. PICK a \in Int, b \in Int : a = 2 /\ b = m + 1
    OBVIOUS
  <2>2. Cardinality(a..b) = IF a > b THEN 0 ELSE b - a + 1
    BY FS_Interval
  <2> QED
    BY <1>3, <2>1, <2>2
<1>5. PICK kept : kept = OfKind(s, "observation")
  OBVIOUS
<1>6. kept = [k \in 1..m |-> s[Nth(P, k)]]
  BY <1>2, <1>4, <1>5 DEF OfKind, Selected
<1>7. \A i \in 1..m : Nth(P, i) = i + 1
  BY <1>3, NthInterval
<1>8. Len(kept) = m
  BY <1>2, <1>4, <1>5, KindLength
<1> QED
  BY <1>5, <1>6, <1>7, <1>8

LEMMA WroteInit == Init => WroteInv
<1> SUFFICES ASSUME Init PROVE WroteInv
  OBVIOUS
<1>1. /\ IsSeq(stream) /\ Len(stream) = 3
      /\ stream[1].kind = "begin"
      /\ \A i \in 2..3 :
           stream[i] = Rec("observation",
               Payload(Operation, i - 2, Baselines[i - 1], OwnerOf(Baselines[i - 1].class)))
      /\ stream[2].kind = "observation" /\ stream[3].kind = "observation"
      /\ stream[1].body = [campaign |-> NoContext, parents |-> {}]
  BY InitStream
<1>2. seen = Baselines /\ cut = [dropped |-> 0, overflowed |-> FALSE, fenced |-> 0]
      /\ candidate = None
  BY DEF Init
<1>3. Len(seen) = 2
  BY <1>2 DEF Baselines
<1>4. Places(stream, "fence") = {}
  BY <1>1, SeqFacts DEF Places
<1>5. ASSUME NEW i \in 1..2
      PROVE  /\ stream[i + 1].kind = "observation"
             /\ \E owner \in {OwnerOf(seen[i].class), NoOwner} :
                  stream[i + 1].body = Payload(Operation, i - 1, seen[i], owner)
  <2>1. PICK p : p = Payload(Operation, i - 1, seen[i], OwnerOf(seen[i].class))
    OBVIOUS
  <2>2. i + 1 \in 2..3 /\ (i + 1) - 2 = i - 1 /\ (i + 1) - 1 = i
    OBVIOUS
  <2>3. stream[i + 1] = Rec("observation", p)
    BY <2>1, <2>2, <1>1, <1>2
  <2>4. stream[i + 1].kind = "observation" /\ stream[i + 1].body = p
    BY <2>3 DEF Rec
  <2> QED
    BY <2>1, <2>4
<1>6. Prefix(stream, seen, Len(seen))
  BY <1>1, <1>3, <1>5 DEF Prefix
<1>7. Len(seen) <= ObservationBound
  BY <1>3, CaptureAssumption
<1> QED
  BY <1>1, <1>2, <1>3, <1>4, <1>6, <1>7 DEF WroteInv

LEMMA WroteObserve ==
    ASSUME WroteInv, RecorderInv, NEW exchange, NEW owner \in {OwnerOf(exchange.class), NoOwner},
           Observe(exchange, owner)
    PROVE  WroteInv'
<1>1. /\ IsSeq(seen) /\ Len(seen) \in Nat
      /\ cut \in [dropped : Nat, overflowed : BOOLEAN, fenced : Nat]
      /\ cut.fenced \in 0..Len(seen)
      /\ IsSeq(stream) /\ Len(stream) \in Nat
  BY SeqFacts DEF RecorderInv, GoodSeq
<1>2. /\ seen' = Append(seen, exchange) /\ candidate = None /\ candidate' = candidate
      /\ Len(seen) < ObservationBound
  BY DEF Observe
<1>3. /\ IsSeq(seen') /\ Len(seen') = Len(seen) + 1
      /\ \A i \in 1..Len(seen) : seen'[i] = seen[i]
      /\ seen'[Len(seen) + 1] = exchange
  BY <1>1, <1>2, AppendFacts
<1>4. Len(seen') <= ObservationBound
  BY <1>1, <1>2, <1>3, CaptureAssumption
<1>5. CASE ~(Len(OfKind(stream, "observation")) < RecorderSlots)
  <2>1. cut' = [cut EXCEPT !.dropped = @ + 1, !.overflowed = TRUE]
    BY <1>5 DEF Observe
  <2>2. cut'.dropped = cut.dropped + 1
    BY <2>1, <1>1
  <2>3. cut'.dropped # 0
    BY <2>2, <1>1
  <2> QED
    BY <1>2, <1>4, <2>3 DEF WroteInv
<1>6. CASE Len(OfKind(stream, "observation")) < RecorderSlots
  <2>1. PICK p : p = Payload(Operation, Len(OfKind(stream, "observation")), exchange, owner)
    OBVIOUS
  <2>2. PICK e : e = Rec("observation", p)
    OBVIOUS
  <2>3. stream' = Append(stream, e) /\ cut' = cut
    BY <1>6, <2>1, <2>2 DEF Observe
  <2>4. e.kind = "observation" /\ e.body = p
    BY <2>2 DEF Rec
  <2>5. /\ Len(stream') = Len(stream) + 1
        /\ \A i \in 1..Len(stream) : stream'[i] = stream[i]
        /\ stream'[Len(stream) + 1] = e
    BY <2>3, <1>1, AppendFacts
  <2>6. Places(stream', "fence") = Places(stream, "fence")
    <3>1. Places(stream', "fence") =
            IF e.kind = "fence" THEN Places(stream, "fence") \cup {Len(stream) + 1}
                                ELSE Places(stream, "fence")
      BY <2>3, <1>1, PlacesAppend
    <3> QED
      BY <3>1, <2>4
  <2>7. ASSUME cut.dropped = 0, Places(stream, "fence") = {}
        PROVE  Prefix(stream', seen', Len(seen')) /\ Len(stream') = Len(seen') + 1
    <3>1. Prefix(stream, seen, Len(seen)) /\ Len(stream) = Len(seen) + 1
      BY <2>7 DEF WroteInv
    <3>2. p = Payload(Operation, Len(seen), exchange, owner)
      BY <3>1, <2>1, <1>1, PrefixKept
    <3>3. Prefix(stream', seen', Len(seen))
      <4>1. Len(seen) \in 0..Len(seen)
        BY <1>1
      <4> QED
        BY <4>1, <3>1, <2>3, <1>1, <1>2, PrefixAppends
    <3>4. Len(stream') = Len(seen') + 1
      BY <3>1, <2>5, <1>1, <1>3
    <3>5. ASSUME NEW i \in 1..Len(seen')
          PROVE  /\ stream'[i + 1].kind = "observation"
                 /\ \E o \in {OwnerOf(seen'[i].class), NoOwner} :
                      stream'[i + 1].body = Payload(Operation, i - 1, seen'[i], o)
      <4>1. CASE i \in 1..Len(seen)
        BY <4>1, <3>3 DEF Prefix
      <4>2. CASE i = Len(seen) + 1
        <5>1. stream'[i + 1] = e /\ seen'[i] = exchange /\ i - 1 = Len(seen)
          BY <4>2, <3>1, <2>5, <1>1, <1>3
        <5> QED
          BY <5>1, <3>2, <2>4
      <4> QED
        BY <4>1, <4>2, <1>1, <1>3
    <3> QED
      BY <3>3, <3>4, <3>5, <1>3 DEF Prefix
  <2>8. ASSUME cut.dropped = 0, Places(stream, "fence") # {}
        PROVE  /\ Prefix(stream', seen', cut.fenced) /\ FenceAt(stream', cut.fenced)
               /\ Places(stream', "fence") = {cut.fenced + 2}
               /\ cut.fenced # Len(seen')
    <3>1. /\ Prefix(stream, seen, cut.fenced) /\ FenceAt(stream, cut.fenced)
          /\ Places(stream, "fence") = {cut.fenced + 2}
      BY <2>8 DEF WroteInv
    <3>2. Prefix(stream', seen', cut.fenced)
      BY <3>1, <2>3, <1>1, <1>2, PrefixAppends
    <3>3. FenceAt(stream', cut.fenced)
      BY <3>1, <2>3, <1>1, FenceAppends
    <3>4. cut.fenced # Len(seen')
      BY <1>1, <1>3
    <3> QED
      BY <3>1, <3>2, <3>3, <3>4, <2>6
  <2>9. cut.dropped = 0 => ~cut.overflowed
    BY DEF WroteInv
  <2> QED
    BY <1>2, <1>4, <2>3, <2>6, <2>7, <2>8, <2>9 DEF WroteInv
<1> QED
  BY <1>5, <1>6

LEMMA WroteCut ==
    ASSUME WroteInv, RecorderInv, CutFence
    PROVE  WroteInv'
<1>1. /\ IsSeq(seen) /\ Len(seen) \in Nat
      /\ cut \in [dropped : Nat, overflowed : BOOLEAN, fenced : Nat]
      /\ IsSeq(stream) /\ Len(stream) \in Nat
  BY SeqFacts DEF RecorderInv, GoodSeq
<1>2. /\ candidate = None /\ Phase = "running" /\ candidate' = candidate /\ seen' = seen
      /\ CoverageClose(Rules, coverage) # NoClosure
      /\ cut' = [cut EXCEPT !.fenced = Len(seen)]
  BY DEF CutFence
<1>3. Places(stream, "fence") = {}
  BY <1>2, RunningUnfenced
<1>4. cut'.fenced = Len(seen) /\ cut'.dropped = cut.dropped /\ cut'.overflowed = cut.overflowed
  BY <1>1, <1>2
<1>5. PICK kept : kept = OfKind(stream, "observation")
  OBVIOUS
<1>6. PICK digest : digest = [i \in DOMAIN kept |-> kept[i].body]
  OBVIOUS
<1>7. PICK closure : closure = CoverageClose(Rules, coverage)
  OBVIOUS
<1>8. PICK body : body =
          [closure |-> closure, count |-> Len(kept),
           deployment |-> Deployment, digest |-> digest, dropped |-> cut.dropped,
           operation |-> Operation, overflowed |-> cut.overflowed,
           ownership |-> Ownership, signer |-> Signer, subject |-> Deployment.subject,
           unowned |-> Unowned(digest)]
  OBVIOUS
<1>9. PICK e : e = Rec("fence", body)
  OBVIOUS
<1>10. stream' = Append(stream, e)
  BY <1>5, <1>6, <1>7, <1>8, <1>9, Zenon DEF CutFence
<1>11. e.kind = "fence" /\ e.body = body
  BY <1>9 DEF Rec
<1>12. /\ Len(stream') = Len(stream) + 1
       /\ \A i \in 1..Len(stream) : stream'[i] = stream[i]
       /\ stream'[Len(stream) + 1] = e
  BY <1>1, <1>10, AppendFacts
<1>13. Places(stream', "fence") = {Len(stream) + 1}
  <2>1. Places(stream', "fence") =
          IF e.kind = "fence" THEN Places(stream, "fence") \cup {Len(stream) + 1}
                              ELSE Places(stream, "fence")
    BY <1>1, <1>10, PlacesAppend
  <2> QED
    BY <2>1, <1>3, <1>11
<1>14. ClosesWorld(Rules, closure)
  BY <1>2, <1>7 DEF CoverageClose
<1>15. ASSUME cut.dropped = 0
       PROVE  /\ ~cut.overflowed
              /\ Prefix(stream', seen, Len(seen)) /\ FenceAt(stream', Len(seen))
              /\ Len(stream) + 1 = Len(seen) + 2
              /\ Len(stream') = Len(seen) + 2
  <2>1. /\ ~cut.overflowed /\ Prefix(stream, seen, Len(seen)) /\ Len(stream) = Len(seen) + 1
    BY <1>3, <1>15 DEF WroteInv
  <2>2. Len(seen) \in 0..Len(seen)
    BY <1>1
  <2>3. Prefix(stream', seen, Len(seen))
    BY <2>1, <2>2, <1>1, <1>10, PrefixAppends
  <2>4. /\ Len(kept) = Len(seen) /\ DOMAIN kept = 1..Len(seen)
        /\ \A i \in 1..Len(seen) : kept[i] = stream[i + 1]
    BY <2>1, <1>1, <1>5, PrefixKept
  <2>5. \A i \in 1..Len(seen) : stream'[i + 1] = stream[i + 1]
    BY <2>1, <1>1, <1>12
  <2>6. digest = [i \in 1..Len(seen) |-> stream'[i + 1].body]
    BY <2>4, <2>5, <1>6
  <2>7. stream'[Len(seen) + 2] = e /\ Len(stream') = Len(seen) + 2 /\ Len(stream) + 1 = Len(seen) + 2
    BY <2>1, <1>1, <1>12
  <2>8. /\ body.count = Len(seen) /\ body.dropped = 0 /\ body.overflowed = cut.overflowed
        /\ body.digest = digest /\ body.unowned = Unowned(digest)
        /\ body.deployment = Deployment /\ body.subject = Deployment.subject
        /\ body.operation = Operation /\ body.signer = Signer
        /\ body.ownership = Ownership /\ body.closure = closure
    BY <2>4, <1>8, <1>15
  <2>9. FenceAt(stream', Len(seen))
    BY <2>1, <2>6, <2>7, <2>8, <1>1, <1>11, <1>14 DEF FenceAt
  <2> QED
    BY <2>1, <2>3, <2>7, <2>9
<1>16. Len(seen') <= ObservationBound
  BY <1>2 DEF WroteInv
<1> QED
  BY <1>2, <1>4, <1>13, <1>15, <1>16 DEF WroteInv

LEMMA WroteFail ==
    ASSUME WroteInv, RecorderInv, Fail
    PROVE  WroteInv'
<1>1. /\ IsSeq(seen) /\ Len(seen) \in Nat
      /\ cut.fenced \in 0..Len(seen)
      /\ IsSeq(stream) /\ Len(stream) \in Nat
  BY SeqFacts DEF RecorderInv, GoodSeq
<1>2. PICK body : body = [identity |-> FailureRef.identity, reference |-> FailureRef]
  OBVIOUS
<1>3. PICK e : e = Rec("failure", body)
  OBVIOUS
<1>4. /\ stream' = Append(stream, e) /\ candidate = None /\ Phase = "fenced"
      /\ UNCHANGED <<seen, cut, candidate>>
  BY <1>2, <1>3 DEF Fail
<1>5. e.kind = "failure" /\ e.body = body
  BY <1>3 DEF Rec
<1>6. IsFailure(e)
  BY <1>2, <1>5 DEF IsFailure
<1>7. /\ Len(stream') = Len(stream) + 1
      /\ \A i \in 1..Len(stream) : stream'[i] = stream[i]
      /\ stream'[Len(stream) + 1] = e
  BY <1>1, <1>4, AppendFacts
<1>8. Places(stream, "fence") # {} /\ ~(stream # <<>> /\ Last(stream).kind = "failure")
  BY <1>4 DEF Phase
<1>9. Places(stream', "fence") = Places(stream, "fence")
  <2>1. Places(stream', "fence") =
          IF e.kind = "fence" THEN Places(stream, "fence") \cup {Len(stream) + 1}
                              ELSE Places(stream, "fence")
    BY <1>1, <1>4, PlacesAppend
  <2> QED
    BY <2>1, <1>5
<1>10. ASSUME cut.dropped = 0
       PROVE  /\ ~cut.overflowed
              /\ Prefix(stream', seen, cut.fenced) /\ FenceAt(stream', cut.fenced)
              /\ Places(stream', "fence") = {cut.fenced + 2}
              /\ cut.fenced = Len(seen) =>
                   Len(stream') = cut.fenced + 3 /\ IsFailure(stream'[cut.fenced + 3])
  <2>1. /\ ~cut.overflowed
        /\ Prefix(stream, seen, cut.fenced) /\ FenceAt(stream, cut.fenced)
        /\ Places(stream, "fence") = {cut.fenced + 2}
        /\ cut.fenced = Len(seen) =>
             \/ Len(stream) = cut.fenced + 2
             \/ Len(stream) = cut.fenced + 3 /\ IsFailure(stream[cut.fenced + 3])
    BY <1>8, <1>10 DEF WroteInv
  <2>2. Prefix(stream', seen, cut.fenced)
    BY <2>1, <1>1, <1>4, PrefixAppends
  <2>3. FenceAt(stream', cut.fenced)
    BY <2>1, <1>1, <1>4, FenceAppends
  <2>4. ASSUME Len(stream) = cut.fenced + 3, IsFailure(stream[cut.fenced + 3])
        PROVE  FALSE
    <3>1. Last(stream).kind = "failure"
      BY <2>4 DEF Last, IsFailure
    <3>2. stream # <<>>
      BY <2>4, <1>1
    <3> QED
      BY <3>1, <3>2, <1>8
  <2>5. ASSUME Len(stream) = cut.fenced + 2
        PROVE  Len(stream') = cut.fenced + 3 /\ IsFailure(stream'[cut.fenced + 3])
    <3>1. Len(stream) + 1 = cut.fenced + 3
      BY <2>5, <1>1
    <3> QED
      BY <3>1, <1>6, <1>7
  <2> QED
    BY <2>1, <2>2, <2>3, <2>4, <2>5, <1>9
<1>11. Len(seen') <= ObservationBound
  BY <1>4 DEF WroteInv
<1> QED
  BY <1>4, <1>8, <1>9, <1>10, <1>11 DEF WroteInv

LEMMA WroteDeliver ==
    ASSUME WroteInv, RecorderInv, NEW bodies, Deliver(bodies)
    PROVE  WroteInv'
<1>1. /\ candidate = None /\ Phase = "failed" /\ UNCHANGED <<seen, stream, cut>>
      /\ damaged' = (bodies # stream)
  BY DEF Deliver
<1>2. stream # <<>> /\ Last(stream).kind = "failure"
  BY <1>1 DEF Phase
<1>3. ASSUME ~damaged' PROVE candidate' = CandidateFor(stream)
  <2>1. bodies = stream
    BY <1>1, <1>3
  <2> QED
    BY <2>1 DEF Deliver, CandidateFor, Terminal
<1> QED
  BY <1>1, <1>2, <1>3 DEF WroteInv

LEMMA WroteStep ==
    ASSUME WroteInv, RecorderInv, [Next]_vars
    PROVE  WroteInv'
<1>1. ASSUME NEW exchange, NEW owner \in {OwnerOf(exchange.class), NoOwner},
             Observe(exchange, owner)
      PROVE  WroteInv'
  BY <1>1, WroteObserve
<1>2. CASE CutFence
  BY <1>2, WroteCut
<1>3. CASE Fail
  BY <1>3, WroteFail
<1>4. ASSUME NEW bodies, Deliver(bodies) PROVE WroteInv'
  BY <1>4, WroteDeliver
<1>5. CASE UNCHANGED <<seen, stream, cut, candidate>> /\ (~damaged' => ~damaged)
  BY <1>5 DEF WroteInv
<1>6. ASSUME NEW receipt, RecordReceipt(receipt)
      PROVE  UNCHANGED <<seen, stream, cut, candidate>> /\ (~damaged' => ~damaged)
  BY <1>6 DEF RecordReceipt
<1>7. MarkUnowned => UNCHANGED <<seen, stream, cut, candidate>> /\ (~damaged' => ~damaged)
  BY DEF MarkUnowned
<1>8. Verify => UNCHANGED <<seen, stream, cut, candidate>> /\ (~damaged' => ~damaged)
  BY DEF Verify
<1>9. ASSUME NEW positioned, Resolve(positioned)
      PROVE  UNCHANGED <<seen, stream, cut, candidate>> /\ (~damaged' => ~damaged)
  BY <1>9 DEF Resolve
<1>10. ASSUME NEW class, NEW position, NEW request, TakeResponse(class, position, request)
       PROVE  UNCHANGED <<seen, stream, cut, candidate>> /\ (~damaged' => ~damaged)
  BY <1>10 DEF TakeResponse
<1>11. RequireComplete => UNCHANGED <<seen, stream, cut, candidate>> /\ (~damaged' => ~damaged)
  BY DEF RequireComplete
<1>12. UNCHANGED vars => UNCHANGED <<seen, stream, cut, candidate>> /\ (~damaged' => ~damaged)
  BY DEF vars
<1> QED
  BY <1>1, <1>2, <1>3, <1>4, <1>5, <1>6, <1>7, <1>8, <1>9, <1>10, <1>11, <1>12 DEF Next

\* The number of records of a kind that one place has.
LEMMA OnePlace ==
    ASSUME NEW s, IsSeq(s), NEW kind, NEW f \in Int, Places(s, kind) = {f}
    PROVE  Len(OfKind(s, kind)) = 1 /\ Nth(Places(s, kind), 1) = f
<1>1. PICK P : P = Places(s, kind)
  OBVIOUS
<1>2. P \in SUBSET Int /\ IsFiniteSet(P)
  BY <1>1, PlacesFinite
<1>3. Cardinality(P) = 1
  BY <1>1, FS_Singleton
<1>4. PICK one \in 1..Cardinality(P) : one = 1
  BY <1>3
<1>5. Nth(P, one) \in P
  BY <1>2, NthPlace
<1>6. Nth(P, 1) = f
  BY <1>1, <1>4, <1>5
<1> QED
  BY <1>1, <1>3, <1>6, KindLength

\* The observations before a fence that follows m of them.
LEMMA ObservationsShape ==
    ASSUME NEW s, IsSeq(s), NEW m \in Nat, m + 2 <= Len(s),
           Places(s, "fence") = {m + 2}, s[1].kind = "begin",
           \A i \in 1..m : s[i + 1].kind = "observation"
    PROVE  /\ FenceIndex(s) = m + 2
           /\ Observations(s) = [i \in 1..m |-> s[i + 1].body]
<1>1. FenceIndex(s) = m + 2
  <2>1. PICK f \in Int : f = m + 2
    OBVIOUS
  <2> QED
    BY <2>1, OnePlace DEF FenceIndex
<1>2. PICK n \in 0..Len(s) : n = m + 1
  BY SeqFacts
<1>3. n = FenceIndex(s) - 1
  BY <1>1, <1>2
<1>4. PICK t : t = SubSeq(s, 1, n)
  OBVIOUS
<1>5. t \in Seq(Range(s)) /\ Len(t) = n /\ \A i \in 1..n : t[i] = s[i]
  BY <1>4, PrefixOf
<1>6. IsSeq(t)
  BY <1>5, SeqIn
<1>7. DOMAIN t = 1..(m + 1)
  BY <1>2, <1>5, <1>6, SeqFacts
<1>8. PICK P : P = Places(t, "observation")
  OBVIOUS
<1>9. P = 2..(m + 1)
  <2>1. ASSUME NEW i \in 2..(m + 1) PROVE i \in 1..n /\ i - 1 \in 1..m /\ (i - 1) + 1 = i
    BY <1>2
  <2>2. ASSUME NEW i \in 2..(m + 1) PROVE t[i].kind = "observation"
    <3>1. t[i] = s[i]
      BY <2>1, <1>5
    <3>2. s[(i - 1) + 1].kind = "observation"
      BY <2>1
    <3> QED
      BY <3>1, <3>2, <2>1
  <2>3. \A i \in 1..(m + 1) : i = 1 \/ i \in 2..(m + 1)
    OBVIOUS
  <2>4. t[1].kind # "observation"
    BY <1>2, <1>5
  <2>5. \A i \in 2..(m + 1) : i \in 1..(m + 1)
    OBVIOUS
  <2> QED
    BY <2>2, <2>3, <2>4, <2>5, <1>7, <1>8 DEF Places
<1>10. Cardinality(P) = m
  <2>1. PICK a \in Int, b \in Int : a = 2 /\ b = m + 1
    OBVIOUS
  <2>2. Cardinality(a..b) = IF a > b THEN 0 ELSE b - a + 1
    BY FS_Interval
  <2> QED
    BY <1>9, <2>1, <2>2
<1>11. PICK kept : kept = OfKind(t, "observation")
  OBVIOUS
<1>12. kept = [k \in 1..m |-> t[Nth(P, k)]]
  BY <1>8, <1>10, <1>11 DEF OfKind, Selected
<1>13. ASSUME NEW i \in 1..m
       PROVE  Nth(P, i) = i + 1 /\ i + 1 \in 1..n
  <2>1. Nth(P, i) = i + 1
    BY <1>9, NthInterval
  <2> QED
    BY <2>1, <1>2
<1>14. DOMAIN kept = 1..m /\ \A i \in 1..m : kept[i] = s[i + 1]
  BY <1>5, <1>12, <1>13
<1>15. Observations(s) = [i \in DOMAIN kept |-> kept[i].body]
  BY <1>3, <1>4, <1>11 DEF Observations
<1> QED
  BY <1>1, <1>14, <1>15

LEMMA NumberedFacts ==
    ASSUME NEW s, IsSeq(s)
    PROVE  /\ IsSeq(Numbered(s)) /\ Len(Numbered(s)) = Len(s)
           /\ \A i \in 1..Len(s) :
                /\ Numbered(s)[i].kind = s[i].kind
                /\ Numbered(s)[i].body = s[i].body
                /\ Numbered(s)[i].sequence = i - 1
<1>1. DOMAIN s = 1..Len(s) /\ Len(s) \in Nat
  BY SeqFacts
<1>2. PICK u : u = Numbered(s)
  OBVIOUS
<1>3. u = [i \in 1..Len(s) |-> [kind |-> s[i].kind, body |-> s[i].body, sequence |-> i - 1]]
  BY <1>1, <1>2 DEF Numbered
<1>4. u = [i \in 1..Len(s) |-> u[i]]
  BY <1>3
<1>5. IsSeq(u) /\ Len(u) = Len(s)
  BY <1>1, <1>4, DomainIsSeq
<1>6. \A i \in 1..Len(s) : u[i].kind = s[i].kind /\ u[i].body = s[i].body /\ u[i].sequence = i - 1
  BY <1>3
<1> QED
  BY <1>2, <1>5, <1>6

\* An adapter that the recorder found for a class owns its observations.
LEMMA OwnerOwns ==
    ASSUME NEW exchange, NEW sequence, NEW owner, owner # NoOwner,
           owner \in {OwnerOf(exchange.class), NoOwner}
    PROVE  Owned(Payload(Operation, sequence, exchange, owner), Ownership)
<1>1. owner = OwnerOf(exchange.class)
  OBVIOUS
<1>2. PICK owners : owners = {i \in DOMAIN Ownership : Ownership[i].class = exchange.class}
  OBVIOUS
<1>3. owners # {}
  BY <1>1, <1>2 DEF OwnerOf
<1>4. PICK k : k = CHOOSE i \in owners : TRUE
  OBVIOUS
<1>5. k \in owners
  BY <1>3, <1>4, Zenon
<1>6. owner = Ownership[k].adapter
  BY <1>1, <1>2, <1>3, <1>4 DEF OwnerOf
<1>7. k \in DOMAIN Ownership /\ Ownership[k].class = exchange.class
  BY <1>2, <1>5
<1>8. Ownership[k].boundary = boundary_id(Ownership[k].class)
  BY <1>7, CaptureAssumption DEF ValidOwnership
<1>9. PICK p : p = Payload(Operation, sequence, exchange, owner)
  OBVIOUS
<1>10. p.owner = owner /\ p.class = exchange.class /\ p.boundary = boundary_id(exchange.class)
  BY <1>9 DEF Payload
<1>11. Owned(p, Ownership)
  BY <1>6, <1>7, <1>8, <1>10 DEF Owned
<1> QED
  BY <1>9, <1>11

\* The adapters fit every closure of the policy.
LEMMA OwnershipFits ==
    ASSUME NEW closure, ClosesWorld(Rules, closure)
    PROVE  ValidOwnership(Ownership, closure)
<1>1. ValidOwnership(Ownership, [receipts |-> Rules])
  BY CaptureAssumption
<1>2. /\ Len(closure.receipts) = Len(Rules)
      /\ \A i \in DOMAIN Rules : /\ closure.receipts[i].boundary = Rules[i].boundary
                                 /\ closure.receipts[i].class = Rules[i].class
  BY DEF ClosesWorld, Satisfies
<1>3. /\ Len(Rules) = Len(Ownership)
      /\ \A i \in DOMAIN Ownership :
           /\ Ownership[i].boundary = Rules[i].boundary
           /\ closure_class(Ownership[i].class) = Rules[i].class
  BY <1>1 DEF ValidOwnership
<1>4. DOMAIN Rules = 1..Len(Rules)
  BY WorldAssumption
<1>5. DOMAIN Ownership = DOMAIN Rules
  BY <1>3, <1>4, CaptureAssumption
<1>6. \A i \in DOMAIN Ownership :
         /\ Ownership[i].boundary = closure.receipts[i].boundary
         /\ closure_class(Ownership[i].class) = closure.receipts[i].class
  BY <1>2, <1>3, <1>5
<1> QED
  BY <1>1, <1>2, <1>3, <1>6 DEF ValidOwnership

\* The records of a candidate delivered as its stream was written.
WholeShape(records, s, m) ==
    /\ IsSeq(records) /\ Len(records) = m + 4
    /\ \A i \in 1..(m + 4) : records[i].sequence = i - 1
    /\ records[1].kind = "begin"
    /\ records[1].body = [campaign |-> NoContext, parents |-> {}]
    /\ \A i \in 1..m : /\ records[i + 1].kind = "observation"
                       /\ records[i + 1].body = s[i + 1].body
    /\ records[m + 2].kind = "fence" /\ records[m + 2].body = s[m + 2].body
    /\ records[m + 3].kind = "failure" /\ records[m + 3].body = s[m + 3].body
    /\ records[m + 4].kind = "terminal"
    /\ records[m + 4].body = [complete |-> TRUE, count |-> m + 3]

LEMMA WholeRecords ==
    ASSUME NEW s, IsSeq(s), NEW things, NEW m \in Nat, Prefix(s, things, m), FenceAt(s, m),
           Len(s) = m + 3, IsFailure(s[m + 3])
    PROVE  WholeShape(Numbered(Append(s, Terminal(s))), s, m)
<1>0. PICK records : records = Numbered(Append(s, Terminal(s)))
  OBVIOUS
<1>1. PICK e : e = Terminal(s)
  OBVIOUS
<1>2. e.kind = "terminal" /\ e.body = [complete |-> TRUE, count |-> m + 3]
  BY <1>1 DEF Terminal, Rec
<1>3. PICK t : t = Append(s, e)
  OBVIOUS
<1>4. /\ IsSeq(t) /\ Len(t) = m + 4 /\ \A i \in 1..(m + 3) : t[i] = s[i]
      /\ t[m + 4] = e
  <2>1. /\ IsSeq(t) /\ Len(t) = Len(s) + 1 /\ \A i \in 1..Len(s) : t[i] = s[i]
        /\ t[Len(s) + 1] = e
    BY <1>3, AppendFacts
  <2>2. Len(s) + 1 = m + 4
    OBVIOUS
  <2> QED
    BY <2>1, <2>2
<1>5. /\ IsSeq(records) /\ Len(records) = m + 4
      /\ \A i \in 1..(m + 4) :
           /\ records[i].kind = t[i].kind /\ records[i].body = t[i].body
           /\ records[i].sequence = i - 1
  BY <1>0, <1>1, <1>3, <1>4, NumberedFacts
<1>6. \A i \in 1..(m + 3) : i \in 1..(m + 4)
  OBVIOUS
<1>7. \A i \in 1..(m + 3) : records[i].kind = s[i].kind /\ records[i].body = s[i].body
  BY <1>4, <1>5, <1>6
<1>8. /\ 1 \in 1..(m + 3) /\ m + 2 \in 1..(m + 3) /\ m + 3 \in 1..(m + 3)
      /\ m + 4 \in 1..(m + 4) /\ \A i \in 1..m : i + 1 \in 1..(m + 3)
  OBVIOUS
<1>9. /\ s[1].kind = "begin" /\ s[1].body = [campaign |-> NoContext, parents |-> {}]
      /\ \A i \in 1..m : s[i + 1].kind = "observation"
      /\ s[m + 2].kind = "fence" /\ s[m + 3].kind = "failure"
  BY DEF Prefix, FenceAt, IsFailure
<1>10. records[m + 4].kind = "terminal"
       /\ records[m + 4].body = [complete |-> TRUE, count |-> m + 3]
  BY <1>2, <1>4, <1>5, <1>8
<1> QED
  BY <1>0, <1>5, <1>7, <1>8, <1>9, <1>10 DEF WholeShape

\* verify_automatic_capture accepts a capture of which nothing is missing and
\* every observation has an owner.
LEMMA WholeVerified ==
    ASSUME NEW s, IsSeq(s), NEW things, NEW m \in Nat, m <= ObservationBound,
           Prefix(s, things, m), FenceAt(s, m), Len(s) = m + 3, IsFailure(s[m + 3]),
           \A i \in 1..m : s[i + 1].body.owner # NoOwner
    PROVE  AutomaticCaptureVerified(CandidateFor(s), Rules, Signer)
<1>1. PICK c : c = CandidateFor(s)
  OBVIOUS
<1>2. PICK records : records = Numbered(Append(s, Terminal(s)))
  OBVIOUS
<1>3. /\ c.operation = Operation /\ c.mode = Deployment.mode /\ c.deployment = Deployment
      /\ c.failure = FailureRef /\ c.context = NoContext /\ c.records = records
  BY <1>1, <1>2 DEF CandidateFor
<1>4. /\ IsSeq(records) /\ Len(records) = m + 4
      /\ \A i \in 1..(m + 4) : records[i].sequence = i - 1
      /\ records[1].kind = "begin"
      /\ records[1].body = [campaign |-> NoContext, parents |-> {}]
      /\ \A i \in 1..m : /\ records[i + 1].kind = "observation"
                         /\ records[i + 1].body = s[i + 1].body
      /\ records[m + 2].kind = "fence" /\ records[m + 2].body = s[m + 2].body
      /\ records[m + 3].kind = "failure" /\ records[m + 3].body = s[m + 3].body
      /\ records[m + 4].kind = "terminal"
      /\ records[m + 4].body = [complete |-> TRUE, count |-> m + 3]
  <2>1. WholeShape(records, s, m)
    BY <1>2, WholeRecords
  <2> QED
    BY <2>1 DEF WholeShape
<1>5. DOMAIN records = 1..(m + 4)
  BY <1>4, SeqFacts
<1>6. ASSUME NEW i \in 1..(m + 4)
      PROVE  \/ i = 1
             \/ \E j \in 1..m : i = j + 1
             \/ i = m + 2 \/ i = m + 3 \/ i = m + 4
  <2>1. CASE i \in 2..(m + 1)
    <3>1. PICK j \in 1..m : j = i - 1
      BY <2>1
    <3>2. i = j + 1
      BY <3>1
    <3> QED
      BY <3>2
  <2>2. CASE i \notin 2..(m + 1)
    BY <2>2
  <2> QED
    BY <2>1, <2>2
<1>7. \A i \in 1..(m + 4) :
        \/ i = m + 2 \/ i = m + 3 \/ i = m + 4
        \/ records[i].kind \in {"begin", "observation"}
  BY <1>4, <1>6
<1>8. /\ Places(records, "fence") = {m + 2}
      /\ Places(records, "failure") = {m + 3}
      /\ Places(records, "terminal") = {m + 4}
  <2>1. m + 2 \in 1..(m + 4) /\ m + 3 \in 1..(m + 4) /\ m + 4 \in 1..(m + 4)
    OBVIOUS
  <2> QED
    BY <2>1, <1>4, <1>5, <1>7 DEF Places
<1>9. Len(OfKind(records, "fence")) = 1 /\ FenceIndex(records) = m + 2
  <2>1. PICK f \in Int : f = m + 2
    OBVIOUS
  <2> QED
    BY <2>1, <1>4, <1>8, OnePlace DEF FenceIndex
<1>10. Len(OfKind(records, "failure")) = 1
  <2>1. PICK f \in Int : f = m + 3
    OBVIOUS
  <2> QED
    BY <2>1, <1>4, <1>8, OnePlace
<1>11. Len(OfKind(records, "terminal")) = 1
  <2>1. PICK f \in Int : f = m + 4
    OBVIOUS
  <2> QED
    BY <2>1, <1>4, <1>8, OnePlace
<1>12. PICK observations : observations = [i \in 1..m |-> s[i + 1].body]
  OBVIOUS
<1>13. Observations(records) = observations
  <2>1. \A i \in 1..m : records[i + 1].kind = "observation"
    BY <1>4
  <2>2. m + 2 <= Len(records)
    BY <1>4
  <2>3. Observations(records) = [i \in 1..m |-> records[i + 1].body]
    BY <2>1, <2>2, <1>4, <1>8, ObservationsShape
  <2>4. [i \in 1..m |-> records[i + 1].body] = [i \in 1..m |-> s[i + 1].body]
    BY <1>4
  <2> QED
    BY <2>3, <2>4, <1>12
<1>14. PICK fence : fence = s[m + 2].body
  OBVIOUS
<1>15. /\ fence.count = m /\ fence.dropped = 0 /\ ~fence.overflowed
       /\ fence.digest = observations /\ fence.unowned = Unowned(observations)
       /\ fence.deployment = Deployment /\ fence.subject = Deployment.subject
       /\ fence.operation = Operation /\ fence.signer = Signer
       /\ fence.ownership = Ownership /\ ClosesWorld(Rules, fence.closure)
  BY <1>12, <1>14 DEF FenceAt
<1>16. Unowned(observations) = 0
  <2>1. {i \in DOMAIN observations : observations[i].owner = NoOwner} = {}
    BY <1>12
  <2> QED
    BY <2>1, FS_EmptySet DEF Unowned
<1>17. Len(observations) = m /\ DOMAIN observations = 1..m
  <2>1. observations = [i \in 1..m |-> observations[i]]
    BY <1>12
  <2> QED
    BY <2>1, DomainIsSeq
<1>18. ASSUME NEW i \in 1..m
       PROVE  /\ observations[i].sequence = i - 1
              /\ observations[i].operation = Operation
              /\ observations[i].parent = NoParent
              /\ Owned(observations[i], Ownership)
  <2>1. PICK owner \in {OwnerOf(things[i].class), NoOwner} :
           s[i + 1].body = Payload(Operation, i - 1, things[i], owner)
    BY DEF Prefix
  <2>2. observations[i] = Payload(Operation, i - 1, things[i], owner)
    BY <2>1, <1>12
  <2>3. /\ observations[i].sequence = i - 1 /\ observations[i].operation = Operation
        /\ observations[i].parent = NoParent /\ observations[i].owner = owner
    BY <2>2 DEF Payload
  <2>4. owner # NoOwner
    BY <2>3, <1>12
  <2>5. Owned(observations[i], Ownership)
    BY <2>2, <2>4, OwnerOwns
  <2> QED
    BY <2>3, <2>5
<1>19. /\ m <= MaxObservations /\ 0 <= MaxObservations /\ m + 4 <= MaxRecords
       /\ MaxObservations \in Nat /\ MaxRecords \in Nat
  BY CaptureAssumption
<1>20. ValidFence(fence)
  BY <1>15, <1>16, <1>19, OwnershipFits DEF ValidFence, ClosesWorld
<1>21. ScopeHolds(c, observations)
  BY <1>3, <1>17, <1>18 DEF ScopeHolds
<1>22. FenceBinds(c, observations, fence)
  BY <1>3, <1>15, <1>16, <1>17, <1>18, <1>20 DEF FenceBinds
<1>23. FencePlaced(records)
  <2>1. FenceIndex(records) + 2 = Len(records) /\ FenceIndex(records) + 1 = m + 3
    BY <1>4, <1>9
  <2> QED
    BY <2>1, <1>4, <1>9 DEF FencePlaced
<1>24. ASSUME NEW i \in 1..(m + 4) PROVE ValidRecord(c, records[i])
  <2>1. CASE i = 1
    BY <2>1, <1>4 DEF ValidRecord
  <2>2. ASSUME NEW j \in 1..m, i = j + 1 PROVE ValidRecord(c, records[i])
    <3>1. records[i].kind = "observation" /\ records[i].body = observations[j]
      BY <2>2, <1>4, <1>12
    <3>2. records[i].body.sequence < MaxObservations
      BY <3>1, <1>18, <1>19
    <3> QED
      BY <3>1, <3>2 DEF ValidRecord
  <2>3. CASE i = m + 2
    <3>1. records[i].kind = "fence" /\ records[i].body = fence
      BY <2>3, <1>4, <1>14
    <3> QED
      BY <3>1, <1>20 DEF ValidRecord
  <2>4. CASE i = m + 3
    <3>1. /\ records[i].kind = "failure"
          /\ records[i].body = [identity |-> FailureRef.identity, reference |-> FailureRef]
      BY <2>4, <1>4 DEF IsFailure
    <3>2. records[i].body.identity = FailureRef.identity /\ records[i].body.reference = FailureRef
      BY <3>1
    <3> QED
      BY <3>1, <3>2, <1>3, CaptureAssumption DEF ValidRecord
  <2>5. CASE i = m + 4
    <3>1. /\ records[i].kind = "terminal" /\ records[i].body.complete
          /\ records[i].body.count = m + 3
      BY <2>5, <1>4
    <3>2. records[i].body.count = Len(c.records) - 1
      BY <3>1, <1>3, <1>4
    <3> QED
      BY <3>1, <3>2 DEF ValidRecord
  <2> QED
    BY <2>1, <2>2, <2>3, <2>4, <2>5, <1>6
<1>25. ContextMatches(c)
  <2>1. Head(records) = records[1]
    BY <1>4, HeadFirst
  <2> QED
    BY <2>1, <1>3, <1>4 DEF ContextMatches
<1>26. ValidCandidate(c)
  <2>1. Len(records) \in 2..MaxRecords
    BY <1>4, <1>19
  <2>2. Head(records).kind = "begin" /\ Last(records).kind = "terminal"
    BY <1>4, HeadFirst DEF Last
  <2>3. c.mode = c.deployment.mode /\ ValidReference(c.failure)
    BY <1>3, CaptureAssumption
  <2>4. \A i \in DOMAIN records : records[i].sequence = i - 1 /\ ValidRecord(c, records[i])
    BY <1>4, <1>5, <1>24
  <2> QED
    BY <2>1, <2>2, <2>3, <2>4, <1>3, <1>10, <1>11, <1>25 DEF ValidCandidate
<1>27. AutomaticCaptureVerified(c, Rules, Signer)
  <2>1. records[FenceIndex(records)].body = fence
    BY <1>4, <1>9, <1>14
  <2> QED
    BY <2>1, <1>3, <1>13, <1>15, <1>21, <1>22, <1>23, <1>26 DEF AutomaticCaptureVerified
<1> QED
  BY <1>1, <1>27

--------------------------------------------------------------------------------
(* The capsule of a whole capture *)

\* Something observed that can be sealed and replayed.
Replays(exchange, n) ==
    \/ n = 1 /\ exchange = Baselines[1]
    \/ n = 2 /\ exchange = Baselines[2]
    \/ /\ n > 2
       /\ ValidPair(exchange.request, exchange.response)
       /\ exchange \in Exchanges

\* The positions in a class are all the numbers up to the last.
LEMMA PositionsContiguous ==
    ASSUME NEW exchanges, IsSeq(exchanges), NEW i \in 1..Len(exchanges),
           NEW p \in 0..Positioned(exchanges)[i].position
    PROVE  \E j \in 1..Len(exchanges) :
             exchanges[j].class = exchanges[i].class /\ Positioned(exchanges)[j].position = p
<1>1. DOMAIN exchanges = 1..Len(exchanges) /\ Len(exchanges) \in Nat
  BY SeqFacts
<1>2. PICK P : P = {k \in 1..Len(exchanges) : exchanges[k].class = exchanges[i].class}
  OBVIOUS
<1>3. P \in SUBSET Int /\ P \in SUBSET (1..Len(exchanges)) /\ i \in P
  BY <1>1, <1>2
<1>4. IsFiniteSet(P)
  <2>1. IsFiniteSet(1..Len(exchanges))
    BY <1>1, FS_Interval
  <2> QED
    BY <2>1, <1>3, FS_Subset
<1>5. ASSUME NEW j \in P
      PROVE  Positioned(exchanges)[j].position = Cardinality(PlacesBefore(P, j))
  <2>1. j \in 1..Len(exchanges) /\ exchanges[j].class = exchanges[i].class
    BY <1>2
  <2>2. PlacesBefore(P, j) = {k \in 1..(j - 1) : exchanges[k].class = exchanges[j].class}
    BY <2>1, <1>1, <1>2 DEF PlacesBefore
  <2> QED
    BY <2>1, <2>2, <1>1 DEF Positioned
<1>6. /\ Cardinality(P) \in Nat
      /\ Cardinality(PlacesBefore(P, i)) \in 0..(Cardinality(P) - 1)
  BY <1>3, <1>4, RankBound
<1>7. p \in 0..Cardinality(PlacesBefore(P, i))
  BY <1>3, <1>5
<1>8. PICK k \in 1..Cardinality(P) : k - 1 = p
  <2>1. p + 1 \in 1..Cardinality(P) /\ (p + 1) - 1 = p
    BY <1>6, <1>7
  <2> QED
    BY <2>1
<1>9. PICK j \in P : Cardinality(PlacesBefore(P, j)) = k - 1
  BY <1>3, <1>4, RankOnto
<1>10. j \in 1..Len(exchanges) /\ exchanges[j].class = exchanges[i].class
  BY <1>2
<1>11. Positioned(exchanges)[j].position = p
  BY <1>5, <1>8, <1>9
<1> QED
  BY <1>10, <1>11

\* The first of a class is at position zero, and only it.
LEMMA FirstPosition ==
    ASSUME NEW exchanges, IsSeq(exchanges), NEW i \in 1..Len(exchanges),
           \A j \in 1..(i - 1) : exchanges[j].class # exchanges[i].class
    PROVE  Positioned(exchanges)[i].position = 0
<1>1. DOMAIN exchanges = 1..Len(exchanges)
  BY SeqFacts
<1>2. {j \in 1..(i - 1) : exchanges[j].class = exchanges[i].class} = {}
  OBVIOUS
<1> QED
  BY <1>1, <1>2, FS_EmptySet DEF Positioned

\* A position is smaller than the number of observations.
LEMMA PositionBound ==
    ASSUME NEW exchanges, IsSeq(exchanges), NEW i \in 1..Len(exchanges)
    PROVE  Positioned(exchanges)[i].position < Len(exchanges)
<1>1. DOMAIN exchanges = 1..Len(exchanges) /\ Len(exchanges) \in Nat
  BY SeqFacts
<1>2. PICK B : B = {j \in 1..(i - 1) : exchanges[j].class = exchanges[i].class}
  OBVIOUS
<1>3. PICK n \in Nat : n = i - 1
  BY <1>1
<1>4. IsFiniteSet(1..n) /\ Cardinality(1..n) = n
  BY FS_Interval
<1>5. B \in SUBSET (1..n)
  BY <1>2, <1>3
<1>6. IsFiniteSet(B) /\ Cardinality(B) <= n
  BY <1>4, <1>5, FS_Subset
<1>7. Cardinality(B) \in Nat
  BY <1>6, FS_CardinalityType
<1>8. Positioned(exchanges)[i].position = Cardinality(B)
  BY <1>1, <1>2 DEF Positioned
<1> QED
  BY <1>1, <1>3, <1>6, <1>7, <1>8

\* Each observation is either an artifact or an interaction of the capsule.
LEMMA CapsuleParts ==
    ASSUME NEW positioned, IsSeq(positioned)
    PROVE  /\ Capsule(positioned).operation = Operation
           /\ \A a \in Range(Capsule(positioned).artifacts) :
                \E i \in 1..Len(positioned) :
                  a = Sealed(positioned[i]) /\ IsState(positioned[i].exchange.class)
           /\ \A a \in Range(Capsule(positioned).interactions) :
                \E i \in 1..Len(positioned) :
                  a = Sealed(positioned[i]) /\ ~IsState(positioned[i].exchange.class)
           /\ Len(Capsule(positioned).artifacts) + Len(Capsule(positioned).interactions) =
                Len(positioned)
           /\ (\E i \in 1..Len(positioned) : ~IsState(positioned[i].exchange.class)) =>
                Capsule(positioned).interactions # <<>>
<1>1. DOMAIN positioned = 1..Len(positioned) /\ Len(positioned) \in Nat
  BY SeqFacts
<1>2. IsFiniteSet(1..Len(positioned)) /\ Cardinality(1..Len(positioned)) = Len(positioned)
  <2>0. 1 \in Int /\ Len(positioned) \in Int
    BY <1>1
  <2>1. PICK lo \in Int, hi \in Int : lo = 1 /\ hi = Len(positioned)
    BY <2>0, Zenon
  <2>2. IsFiniteSet(lo..hi) /\ Cardinality(lo..hi) = IF lo > hi THEN 0 ELSE hi - lo + 1
    BY FS_Interval
  <2> QED
    BY <2>1, <2>2, <1>1
<1>3. PICK S : S = {i \in DOMAIN positioned :
                      positioned[i].exchange.class \in {"environment", "filesystem"}}
  OBVIOUS
<1>4. PICK O : O = DOMAIN positioned \ S
  OBVIOUS
<1>5. /\ S \in SUBSET Int /\ O \in SUBSET Int
      /\ S \in SUBSET (1..Len(positioned)) /\ O \in SUBSET (1..Len(positioned))
      /\ S \cup O = 1..Len(positioned) /\ S \cap O = {}
  BY <1>1, <1>3, <1>4
<1>6. IsFiniteSet(S) /\ IsFiniteSet(O)
  BY <1>2, <1>5, FS_Subset
<1>7. PICK states : states = Selected(positioned, S)
  OBVIOUS
<1>8. PICK others : others = Selected(positioned, O)
  OBVIOUS
<1>9. PICK capsule : capsule = Capsule(positioned)
  OBVIOUS
<1>10. /\ capsule.operation = Operation
       /\ capsule.artifacts = [i \in DOMAIN states |-> Sealed(states[i])]
       /\ capsule.interactions = [i \in DOMAIN others |-> Sealed(others[i])]
  BY <1>3, <1>4, <1>7, <1>8, <1>9 DEF Capsule
<1>11. /\ DOMAIN states = 1..Cardinality(S) /\ Cardinality(S) \in Nat
       /\ \A k \in DOMAIN states : \E i \in S : states[k] = positioned[i]
  BY <1>5, <1>6, <1>7, SelectedFacts
<1>12. /\ DOMAIN others = 1..Cardinality(O) /\ Cardinality(O) \in Nat
       /\ \A k \in DOMAIN others : \E i \in O : others[k] = positioned[i]
  BY <1>5, <1>6, <1>8, SelectedFacts
<1>13. ASSUME NEW a \in Range(capsule.artifacts)
       PROVE  \E i \in 1..Len(positioned) :
                a = Sealed(positioned[i]) /\ IsState(positioned[i].exchange.class)
  <2>1. PICK k \in DOMAIN states : a = Sealed(states[k])
    BY <1>10, <1>13 DEF Range
  <2>2. PICK i \in S : states[k] = positioned[i]
    BY <1>11
  <2> QED
    BY <2>1, <2>2, <1>1, <1>3 DEF IsState
<1>14. ASSUME NEW a \in Range(capsule.interactions)
       PROVE  \E i \in 1..Len(positioned) :
                a = Sealed(positioned[i]) /\ ~IsState(positioned[i].exchange.class)
  <2>1. PICK k \in DOMAIN others : a = Sealed(others[k])
    BY <1>10, <1>14 DEF Range
  <2>2. PICK i \in O : others[k] = positioned[i]
    BY <1>12
  <2> QED
    BY <2>1, <2>2, <1>1, <1>3, <1>4 DEF IsState
<1>15. Len(capsule.artifacts) = Cardinality(S)
  <2>1. PICK t : t = capsule.artifacts
    OBVIOUS
  <2>2. t = [i \in 1..Cardinality(S) |-> t[i]]
    BY <2>1, <1>10, <1>11
  <2> QED
    BY <2>1, <2>2, <1>11, DomainIsSeq
<1>16. Len(capsule.interactions) = Cardinality(O)
  <2>1. PICK t : t = capsule.interactions
    OBVIOUS
  <2>2. t = [i \in 1..Cardinality(O) |-> t[i]]
    BY <2>1, <1>10, <1>12
  <2> QED
    BY <2>1, <2>2, <1>12, DomainIsSeq
<1>17. Cardinality(S) + Cardinality(O) = Len(positioned)
  <2>1. Cardinality(S \cup O) = Cardinality(S) + Cardinality(O) - Cardinality(S \cap O)
    BY <1>6, FS_Union
  <2>2. Cardinality(S \cap O) = 0
    BY <1>5, FS_EmptySet
  <2>3. PICK p \in Nat, q \in Nat : p = Cardinality(S) /\ q = Cardinality(O)
    BY <1>11, <1>12
  <2>4. Cardinality(S \cup O) = Len(positioned)
    BY <1>2, <1>5
  <2>5. Len(positioned) = p + q - 0
    BY <2>1, <2>2, <2>3, <2>4
  <2>6. p + q - 0 = p + q
    OBVIOUS
  <2> QED
    BY <2>3, <2>5, <2>6
<1>18. ASSUME NEW i \in 1..Len(positioned), ~IsState(positioned[i].exchange.class)
       PROVE  capsule.interactions # <<>>
  <2>1. i \in O
    BY <1>1, <1>3, <1>4, <1>18 DEF IsState
  <2>2. Cardinality(O) # 0
    BY <2>1, <1>6, FS_EmptySet
  <2>3. Len(<<>>) = 0
    OBVIOUS
  <2> QED
    BY <2>2, <2>3, <1>16
<1> QED
  BY <1>9, <1>10, <1>13, <1>14, <1>15, <1>16, <1>17, <1>18

\* A state observation that is no baseline reads back.
LEMMA PairState ==
    ASSUME NEW x \in Exchanges, ValidPair(x.request, x.response), IsState(x.class)
    PROVE  /\ "operation" \in DOMAIN x.response /\ ValidResponse(x.response)
           /\ IsObservation(x.response)
           /\ observation_class[x.response.operation] = x.class
           /\ x.response.answers = x.request
           /\ x.response.outcome = OutcomeOf(x.response)
<1>1. /\ "operation" \in DOMAIN x.response /\ "outcome" \in DOMAIN x.response
      /\ x.class = PairClass(x.request)
  BY WorldAssumption
<1>2. /\ ValidRequest(x.request) /\ ValidResponse(x.response)
      /\ x.response.operation = x.request.operation
      /\ x.response.answers = x.request
  BY DEF ValidPair
<1>3. IsObservation(x.request)
  <2>1. SUFFICES ASSUME ~IsObservation(x.request) PROVE FALSE
    OBVIOUS
  <2>2. ClassMatches(x.request)
    BY <2>1, <1>2 DEF ValidRequest
  <2>3. x.request.class \in {"database", "outbound-http", "queue"}
    BY <2>2 DEF ClassMatches, ClassOperations
  <2>4. x.class = x.request.class
    BY <2>1, <1>1 DEF PairClass
  <2> QED
    BY <2>3, <2>4 DEF IsState
<1>4. IsObservation(x.response) /\ observation_class[x.response.operation] = x.class
  BY <1>1, <1>2, <1>3 DEF IsObservation, PairClass
<1>5. x.response.outcome = OutcomeOf(x.response)
  BY <1>1 DEF OutcomeOf
<1> QED
  BY <1>1, <1>2, <1>4, <1>5

LEMMA BaselineFacts ==
    /\ Baselines[1].class = "environment" /\ Baselines[1].request = EnvironmentRequest
    /\ Baselines[1].response = EnvironmentImage
    /\ Baselines[2].class = "clock" /\ Baselines[2].request = ClockRequest
    /\ Baselines[2].response = ClockImage
    /\ OutcomeOf(EnvironmentImage) = "response" /\ OutcomeOf(ClockImage) = "response"
<1>1. PICK a : a = [class |-> "environment", request |-> EnvironmentRequest,
                    response |-> EnvironmentImage]
  OBVIOUS
<1>2. PICK b : b = [class |-> "clock", request |-> ClockRequest, response |-> ClockImage]
  OBVIOUS
<1>3. Baselines[1] = a /\ Baselines[2] = b
  BY <1>1, <1>2 DEF Baselines
<1>4. "outcome" \notin DOMAIN EnvironmentImage /\ "outcome" \notin DOMAIN ClockImage
  BY DEF EnvironmentImage, ClockImage
<1> QED
  BY <1>1, <1>2, <1>3, <1>4 DEF OutcomeOf

\* resolve_automatic_replay resolves the capsule of a whole capture.
LEMMA WholeResolves ==
    ASSUME NEW things, IsSeq(things), 2 <= Len(things), Len(things) <= ObservationBound,
           \A n \in 1..Len(things) : Replays(things[n], n),
           DistinctContent(Capsule(Positioned(things)).artifacts)
    PROVE  Resolves(Capsule(Positioned(things)))
<1>1. PICK whole : whole = Positioned(things)
  OBVIOUS
<1>2. PICK N \in Nat : N = Len(things)
  BY SeqFacts
<1>3. /\ IsSeq(whole) /\ Len(whole) = N
      /\ \A i \in 1..N : whole[i].exchange = things[i] /\ whole[i].position \in Nat
  BY <1>1, <1>2, PositionedFacts
<1>4. 1 \in 1..N /\ 2 \in 1..N /\ N <= MaxReplayed
  BY <1>2, CaptureAssumption
<1>5. things[1] = Baselines[1] /\ things[2] = Baselines[2]
  BY <1>2, <1>4 DEF Replays
<1>6. whole[1].position = 0 /\ whole[2].position = 0
  <2>1. \A j \in 1..(1 - 1) : things[j].class # things[1].class
    OBVIOUS
  <2>2. \A j \in 1..(2 - 1) : things[j].class # things[2].class
    BY <1>5, BaselineFacts
  <2>3. PICK a \in 1..Len(things), b \in 1..Len(things) : a = 1 /\ b = 2
    BY <1>2, <1>4
  <2>4. Positioned(things)[a].position = 0
    BY <2>1, <2>3, FirstPosition
  <2>5. Positioned(things)[b].position = 0
    BY <2>2, <2>3, FirstPosition
  <2> QED
    BY <2>3, <2>4, <2>5, <1>1
<1>7. PICK capsule : capsule = Capsule(whole)
  OBVIOUS
<1>8. /\ capsule.operation = Operation
      /\ \A a \in Range(capsule.artifacts) :
           \E i \in 1..N : a = Sealed(whole[i]) /\ IsState(whole[i].exchange.class)
      /\ \A a \in Range(capsule.interactions) :
           \E i \in 1..N : a = Sealed(whole[i]) /\ ~IsState(whole[i].exchange.class)
      /\ Len(capsule.artifacts) + Len(capsule.interactions) = N
      /\ (\E i \in 1..N : ~IsState(whole[i].exchange.class)) => capsule.interactions # <<>>
  BY <1>3, <1>7, CapsuleParts
<1>9. capsule.interactions # <<>>
  BY <1>3, <1>4, <1>5, <1>8, BaselineFacts DEF IsState
<1>10. ASSUME NEW a \in Range(capsule.artifacts) PROVE StateReadable(a)
  <2>1. PICK i \in 1..N : a = Sealed(whole[i]) /\ IsState(whole[i].exchange.class)
    BY <1>8
  <2>2. PICK x : x = things[i]
    OBVIOUS
  <2>3. /\ a.class = x.class /\ a.position = whole[i].position
        /\ a.request = x.request /\ a.response = x.response
        /\ a.outcome = OutcomeOf(x.response)
    BY <2>1, <2>2, <1>3 DEF Sealed
  <2>4. a.class \in {"environment", "filesystem"} /\ IsState(x.class)
    BY <2>1, <2>2, <2>3, <1>3 DEF IsState
  <2>5. a.position < MaxReplayed
    <3>1. whole[i].position < Len(things)
      BY <1>1, <1>2, PositionBound
    <3>2. whole[i].position \in Nat
      BY <1>3
    <3> QED
      BY <3>1, <3>2, <2>3, <1>2, <1>4, CaptureAssumption
  <2>6. ASSUME ~IsBaseline(a)
        PROVE  /\ "operation" \in DOMAIN a.response
               /\ ValidResponse(a.response)
               /\ IsObservation(a.response)
               /\ observation_class[a.response.operation] = a.class
               /\ a.response.answers = a.request
               /\ a.response.outcome = a.outcome
    <3>1. i # 1
      BY <2>2, <2>3, <2>6, <1>5, <1>6, BaselineFacts DEF IsBaseline
    <3>2. i # 2
      BY <2>2, <2>4, <1>5, BaselineFacts DEF IsState
    <3>3. x \in Exchanges /\ ValidPair(x.request, x.response)
      BY <3>1, <3>2, <2>2, <1>2 DEF Replays
    <3> QED
      BY <3>3, <2>3, <2>4, PairState
  <2> QED
    BY <2>4, <2>5, <2>6 DEF StateReadable
<1>11. ASSUME NEW a \in Range(capsule.interactions) PROVE InteractionReadable(a, capsule.operation)
  <2>1. PICK i \in 1..N : a = Sealed(whole[i]) /\ ~IsState(whole[i].exchange.class)
    BY <1>8
  <2>2. PICK x : x = things[i]
    OBVIOUS
  <2>3. /\ a.class = x.class /\ a.position = whole[i].position
        /\ a.request = x.request /\ a.response = x.response
        /\ a.outcome = OutcomeOf(x.response) /\ a.operation = Operation
    BY <2>1, <2>2, <1>3 DEF Sealed
  <2>4. ~IsState(x.class)
    BY <2>1, <2>2, <1>3
  <2>5. i # 1
    BY <2>2, <2>4, <1>5, BaselineFacts DEF IsState
  <2>6. CASE i = 2
    <3>1. a.request = ClockRequest /\ a.position = 0 /\ a.outcome = "response"
      BY <2>2, <2>3, <2>6, <1>5, <1>6, BaselineFacts
    <3> QED
      BY <3>1, <2>3, <1>8 DEF InteractionReadable
  <2>7. CASE i # 2
    <3>1. x \in Exchanges /\ ValidPair(x.request, x.response)
      BY <2>2, <2>5, <2>7, <1>2 DEF Replays
    <3>2. x.request # ClockRequest
      BY <3>1, ExchangeTold
    <3>3. /\ "operation" \in DOMAIN x.request /\ "operation" \in DOMAIN x.response
          /\ "outcome" \in DOMAIN x.response /\ x.class = PairClass(x.request)
      BY <3>1, WorldAssumption
    <3>4. x.response.outcome = OutcomeOf(x.response)
      BY <3>3 DEF OutcomeOf
    <3>5. PairClass(x.request) \notin {"environment", "filesystem"}
      BY <3>3, <2>4 DEF IsState
    <3> QED
      BY <3>1, <3>2, <3>3, <3>4, <3>5, <2>3, <1>8 DEF InteractionReadable
  <2> QED
    BY <2>6, <2>7
<1>12. \A p \in Range(whole) : ClassTold(p.exchange)
  <2>1. ASSUME NEW p \in Range(whole) PROVE ClassTold(p.exchange)
    <3>1. PICK i \in 1..N : whole[i] = p
      BY <1>3, SeqFacts
    <3>2. p.exchange = things[i]
      BY <3>1, <1>3
    <3>3. CASE i = 1
      BY <3>2, <3>3, <1>5, BaselineFacts DEF ClassTold, IsState
    <3>4. CASE i = 2
      BY <3>2, <3>4, <1>5, BaselineFacts DEF ClassTold, InteractionClass
    <3>5. CASE i # 1 /\ i # 2
      <4>1. things[i] \in Exchanges
        BY <3>5, <1>2 DEF Replays
      <4> QED
        BY <4>1, <3>2, ExchangeTold
    <3> QED
      BY <3>3, <3>4, <3>5
  <2> QED
    BY <2>1
<1>13. PICK T : T = Table(capsule)
  OBVIOUS
<1>14. T = EntriesOf(whole)
  BY <1>3, <1>7, <1>12, <1>13, TableEntries
<1>15. /\ \A e \in T : \E i \in 1..N :
            /\ e = EntryOf(whole[i])
            /\ e.class = things[i].class /\ e.position = whole[i].position
       /\ \A i \in 1..N : /\ EntryOf(whole[i]) \in T
                          /\ EntryOf(whole[i]).class = things[i].class
                          /\ EntryOf(whole[i]).position = whole[i].position
  <2>1. \A i \in 1..N : /\ EntryOf(whole[i]).class = things[i].class
                        /\ EntryOf(whole[i]).position = whole[i].position
    BY <1>3 DEF EntryOf, Entry
  <2>2. /\ \A i \in 1..N : whole[i] \in Range(whole)
        /\ \A p \in Range(whole) : \E i \in 1..N : whole[i] = p
    BY <1>3, SeqFacts
  <2>3. \A i \in 1..N : EntryOf(whole[i]) \in T
    BY <2>2, <1>14 DEF EntriesOf
  <2>4. \A e \in T : \E i \in 1..N : e = EntryOf(whole[i])
    BY <2>2, <1>14 DEF EntriesOf
  <2> QED
    BY <2>1, <2>3, <2>4
<1>16. Cardinality(Keys(T)) = N
  <2>1. PICK f : f = [i \in 1..N |-> <<things[i].class, whole[i].position>>]
    OBVIOUS
  <2>2. f \in [1..N -> Keys(T)]
    <3>1. \A i \in 1..N : <<things[i].class, whole[i].position>> \in Keys(T)
      BY <1>15 DEF Keys
    <3> QED
      BY <2>1, <3>1
  <2>3. ASSUME NEW i \in 1..N, NEW j \in 1..N, f[i] = f[j] PROVE i = j
    <3>1. things[i].class = things[j].class /\ whole[i].position = whole[j].position
      BY <2>1, <2>3
    <3> QED
      BY <3>1, <1>1, <1>2, PositionUnique
  <2>4. ASSUME NEW k \in Keys(T) PROVE \E i \in 1..N : f[i] = k
    <3>1. PICK e \in T : k = <<e.class, e.position>>
      BY <2>4 DEF Keys
    <3>2. PICK i \in 1..N : e.class = things[i].class /\ e.position = whole[i].position
      BY <1>15
    <3> QED
      BY <3>1, <3>2, <2>1
  <2>5. f \in Bijection(1..N, Keys(T))
    BY <2>2, <2>3, <2>4, Fun_IsBij
  <2>6. IsFiniteSet(1..N) /\ Cardinality(1..N) = N
    BY FS_Interval
  <2> QED
    BY <2>5, <2>6, FS_Bijection DEF ExistsBijection
<1>17. Contiguous(T)
  <2>1. ASSUME NEW key \in Keys(T), NEW p \in 0..key[2]
        PROVE  <<key[1], p>> \in Keys(T)
    <3>1. PICK e \in T : key = <<e.class, e.position>>
      BY <2>1 DEF Keys
    <3>2. PICK i \in 1..N : e.class = things[i].class /\ e.position = whole[i].position
      BY <1>15
    <3>3. p \in 0..Positioned(things)[i].position
      BY <3>1, <3>2, <1>1
    <3>4. PICK j \in 1..N : things[j].class = things[i].class /\ Positioned(things)[j].position = p
      BY <3>3, <1>2, PositionsContiguous
    <3>5. EntryOf(whole[j]) \in T /\ EntryOf(whole[j]).class = key[1]
          /\ EntryOf(whole[j]).position = p
      BY <3>1, <3>2, <3>4, <1>1, <1>15
    <3> QED
      BY <3>5 DEF Keys
  <2> QED
    BY <2>1 DEF Contiguous
<1>18. PICK a : a = EntryOf(whole[1])
  OBVIOUS
<1>19. PICK b : b = EntryOf(whole[2])
  OBVIOUS
<1>20. /\ a \in T /\ a.class = "environment" /\ a.position = 0
       /\ a.request = EnvironmentRequest /\ a.outcome = "response"
       /\ a.response = EnvironmentImage
  <2>1. a \in T
    BY <1>4, <1>15, <1>18
  <2>2. whole[1].exchange = Baselines[1]
    BY <1>3, <1>4, <1>5
  <2> QED
    BY <2>1, <2>2, <1>6, <1>18, BaselineFacts DEF EntryOf, Entry
<1>21. /\ b \in T /\ b.class = "clock" /\ b.position = 0
       /\ b.request = ClockRequest /\ b.outcome = "response"
       /\ b.response = ClockImage
  <2>1. b \in T
    BY <1>4, <1>15, <1>19
  <2>2. whole[2].exchange = Baselines[2]
    BY <1>3, <1>4, <1>5
  <2> QED
    BY <2>1, <2>2, <1>6, <1>19, BaselineFacts DEF EntryOf, Entry
<1>22. /\ BaselineTaken(T, "environment", EnvironmentRequest)
       /\ BaselineTaken(T, "clock", ClockRequest)
  BY <1>20, <1>21 DEF BaselineTaken
<1>23. Baseline(T, "environment") = a /\ Baseline(T, "clock") = b
  <2>1. T \in SUBSET EntriesOf(Positioned(things))
    BY <1>1, <1>14
  <2>2. ASSUME NEW class, NEW e \in T, e.class = class, e.position = 0
        PROVE  Baseline(T, class) = e
    <3>1. /\ Baseline(T, class) \in T /\ Baseline(T, class).class = class
          /\ Baseline(T, class).position = 0
      BY <2>1, <2>2, BaselineSame
    <3> QED
      BY <3>1, <2>1, <2>2, EntriesUnique
  <2> QED
    BY <2>2, <1>20, <1>21
<1>24. Resolves(capsule)
  <2>1. DistinctContent(capsule.artifacts)
    BY <1>1, <1>7
  <2>2. Len(capsule.artifacts) + Len(capsule.interactions) <= MaxReplayed
    BY <1>4, <1>8
  <2>3. /\ Baseline(T, "environment").response = EnvironmentImage
        /\ Baseline(T, "clock").response = ClockImage
    BY <1>20, <1>21, <1>23
  <2>4. Cardinality(Keys(T)) = Len(capsule.artifacts) + Len(capsule.interactions)
    BY <1>8, <1>16
  <2> QED
    BY <2>1, <2>2, <2>3, <2>4, <1>9, <1>10, <1>11, <1>13, <1>17, <1>22, Zenon DEF Resolves
<1> QED
  BY <1>1, <1>7, <1>24

(***************************************************************************)
(* What the program observed begins with the baselines.                    *)
(***************************************************************************)
SeenInv ==
    /\ 2 <= Len(seen) /\ seen[1] = Baselines[1] /\ seen[2] = Baselines[2]
    /\ \A n \in 3..Len(seen) : seen[n] \in Exchanges

LEMMA SeenInit == Init => SeenInv
<1>1. SUFFICES ASSUME Init PROVE SeenInv
  OBVIOUS
<1>2. seen = Baselines
  BY <1>1 DEF Init
<1>3. Len(Baselines) = 2
  <2>1. PICK a, b : Baselines = <<a, b>>
    BY DEF Baselines
  <2> QED
    BY <2>1
<1>4. 3..2 = {}
  OBVIOUS
<1> QED
  BY <1>2, <1>3, <1>4 DEF SeenInv

LEMMA SeenStep ==
    ASSUME SeenInv, RecorderInv, [Next]_vars
    PROVE  SeenInv'
<1>1. ASSUME NEW exchange \in Exchanges, NEW owner, Observe(exchange, owner)
      PROVE  SeenInv'
  <2>1. IsSeq(seen) /\ seen' = Append(seen, exchange)
    BY <1>1 DEF RecorderInv, Observe
  <2>2. PICK L \in Nat : L = Len(seen)
    BY <2>1, SeqFacts
  <2>3. PICK t : t = Append(seen, exchange)
    OBVIOUS
  <2>4. /\ Len(t) = L + 1 /\ t[L + 1] = exchange
        /\ \A i \in 1..L : t[i] = seen[i]
    BY <2>1, <2>2, <2>3, AppendFacts
  <2>5. 2 <= L /\ seen[1] = Baselines[1] /\ seen[2] = Baselines[2]
    BY <2>2 DEF SeenInv
  <2>6. 2 <= Len(t) /\ t[1] = Baselines[1] /\ t[2] = Baselines[2]
    BY <2>4, <2>5
  <2>7. ASSUME NEW n \in 3..Len(t) PROVE t[n] \in Exchanges
    <3>1. CASE n = L + 1
      BY <3>1, <2>4
    <3>2. CASE n # L + 1
      <4>1. n \in 1..L /\ n \in 3..L
        BY <3>2, <2>4
      <4> QED
        BY <4>1, <2>2, <2>4 DEF SeenInv
    <3> QED
      BY <3>1, <3>2
  <2> QED
    BY <2>1, <2>3, <2>6, <2>7 DEF SeenInv
<1>2. seen' = seen => SeenInv'
  BY DEF SeenInv
<1>3. ASSUME NEW receipt, RecordReceipt(receipt) PROVE seen' = seen
  BY <1>3 DEF RecordReceipt
<1>4. MarkUnowned \/ CutFence \/ Fail \/ Verify \/ RequireComplete => seen' = seen
  BY DEF MarkUnowned, CutFence, Fail, Verify, RequireComplete
<1>5. ASSUME NEW bodies, Deliver(bodies) PROVE seen' = seen
  BY <1>5 DEF Deliver
<1>6. ASSUME NEW positioned, Resolve(positioned) PROVE seen' = seen
  BY <1>6 DEF Resolve
<1>7. ASSUME NEW class, NEW position, NEW request, TakeResponse(class, position, request)
      PROVE  seen' = seen
  BY <1>7 DEF TakeResponse
<1>8. UNCHANGED vars => seen' = seen
  BY DEF vars
<1> QED
  BY <1>1, <1>2, <1>3, <1>4, <1>5, <1>6, <1>7, <1>8 DEF Next

(***************************************************************************)
(* The hypothesis of WholeCaptureReplays: an operation captured whole.     *)
(***************************************************************************)
IsWhole ==
    /\ candidate # None /\ ~damaged
    /\ cut.dropped = 0
    /\ Len(Observations(Numbered(stream))) = Len(seen)
    /\ \A o \in Range(Observations(Numbered(stream))) : o.owner # NoOwner
    /\ \A i \in 3..Len(seen) : ValidPair(seen[i].request, seen[i].response)
    /\ DistinctContent(Capsule(Positioned(seen)).artifacts)

\* The stream of an operation captured whole: begin, every observation, the
\* fence, the failure; and the candidate is delivered from it.
LEMMA WholeStream ==
    ASSUME RecorderInv, WroteInv, SeenInv, IsWhole
    PROVE  /\ cut.fenced = Len(seen)
           /\ Prefix(stream, seen, Len(seen)) /\ FenceAt(stream, Len(seen))
           /\ Len(stream) = Len(seen) + 3 /\ IsFailure(stream[Len(seen) + 3])
           /\ \A i \in 1..Len(seen) : stream[i + 1].body.owner # NoOwner
           /\ candidate = CandidateFor(stream)
<1>1. IsSeq(seen) /\ IsSeq(stream) /\ cut.fenced \in Nat
  BY DEF RecorderInv, GoodSeq
<1>2. PICK L \in Nat : L = Len(seen)
  BY <1>1, SeqFacts
<1>3. PICK m \in Nat : m = cut.fenced
  BY <1>1
<1>4. 2 <= L
  BY <1>2 DEF SeenInv
<1>5. candidate # None /\ ~damaged /\ cut.dropped = 0
  BY DEF IsWhole
<1>6. candidate = CandidateFor(stream) /\ Last(stream).kind = "failure"
  BY <1>5 DEF WroteInv
<1>7. Last(stream) = stream[Len(stream)]
  BY DEF Last
<1>8. Places(stream, "fence") # {}
  <2>1. SUFFICES ASSUME Places(stream, "fence") = {} PROVE FALSE
    OBVIOUS
  <2>2. Prefix(stream, seen, L) /\ Len(stream) = L + 1
    BY <2>1, <1>2, <1>5 DEF WroteInv
  <2>3. L \in 1..L
    BY <1>4
  <2>4. stream[L + 1].kind = "observation"
    BY <2>2, <2>3 DEF Prefix
  <2> QED
    BY <2>2, <2>4, <1>6, <1>7
<1>9. /\ Prefix(stream, seen, m) /\ FenceAt(stream, m)
      /\ Places(stream, "fence") = {m + 2}
      /\ m = L => \/ Len(stream) = m + 2
                  \/ Len(stream) = m + 3 /\ IsFailure(stream[m + 3])
  BY <1>2, <1>3, <1>5, <1>8 DEF WroteInv
<1>10. PICK s : s = Numbered(stream)
  OBVIOUS
<1>11. /\ IsSeq(s) /\ Len(s) = Len(stream)
       /\ \A i \in 1..Len(stream) : s[i].kind = stream[i].kind /\ s[i].body = stream[i].body
  BY <1>1, <1>10, NumberedFacts
<1>12. PICK N \in Nat : N = Len(stream)
  BY <1>1, SeqFacts
<1>13. DOMAIN s = 1..N /\ DOMAIN stream = 1..N
  BY <1>1, <1>11, <1>12, SeqFacts
<1>14. Places(s, "fence") = {m + 2}
  BY <1>9, <1>11, <1>12, <1>13 DEF Places
<1>15. m + 2 <= N
  BY <1>9, <1>12 DEF FenceAt
<1>16. \A i \in 1..m : /\ s[i + 1].kind = "observation"
                       /\ s[i + 1].body = stream[i + 1].body
  <2>1. \A i \in 1..m : i + 1 \in 1..N
    BY <1>15
  <2>2. \A i \in 1..m : stream[i + 1].kind = "observation"
    BY <1>9 DEF Prefix
  <2> QED
    BY <2>1, <2>2, <1>11, <1>12
<1>17. s[1].kind = "begin"
  <2>1. stream[1].kind = "begin" /\ 1 \in 1..N
    BY <1>9, <1>15 DEF Prefix
  <2> QED
    BY <2>1, <1>11, <1>12
<1>18. PICK o : o = Observations(s)
  OBVIOUS
<1>19. o = [i \in 1..m |-> s[i + 1].body]
  <2>1. m + 2 <= Len(s)
    BY <1>11, <1>12, <1>15
  <2> QED
    BY <2>1, <1>11, <1>14, <1>16, <1>17, <1>18, ObservationsShape
<1>20. DOMAIN o = 1..m /\ \A i \in 1..m : o[i] = stream[i + 1].body
  BY <1>16, <1>19
<1>21. Len(o) = m
  <2>1. o = [i \in 1..m |-> o[i]]
    BY <1>19
  <2> QED
    BY <2>1, DomainIsSeq
<1>22. m = L
  BY <1>2, <1>10, <1>18, <1>21 DEF IsWhole
<1>23. \A i \in 1..L : stream[i + 1].body.owner # NoOwner
  <2>1. \A i \in 1..m : o[i] \in Range(o)
    BY <1>20 DEF Range
  <2>2. \A x \in Range(o) : x.owner # NoOwner
    BY <1>10, <1>18 DEF IsWhole
  <2> QED
    BY <2>1, <2>2, <1>20, <1>22
<1>24. Len(stream) = L + 3 /\ IsFailure(stream[L + 3])
  <2>1. SUFFICES ASSUME Len(stream) = m + 2 PROVE FALSE
    BY <1>9, <1>22
  <2>2. stream[m + 2].kind = "fence"
    BY <1>9 DEF FenceAt
  <2> QED
    BY <2>1, <2>2, <1>6, <1>7
<1> QED
  BY <1>2, <1>3, <1>6, <1>9, <1>22, <1>23, <1>24

\* verify_automatic_capture accepts an operation captured whole.
LEMMA WholeVerify ==
    ASSUME RecorderInv, WroteInv, SeenInv, WholeCaptureReplays, Verify
    PROVE  WholeCaptureReplays'
<1>1. UNCHANGED <<seen, stream, cut, candidate, damaged>>
  BY DEF Verify
<1>2. IsWhole' => IsWhole
  BY <1>1 DEF IsWhole
<1>3. SUFFICES ASSUME IsWhole PROVE verdict' \notin {"rejected", "unresolved"}
  BY <1>2 DEF WholeCaptureReplays, IsWhole
<1>4. IsSeq(seen) /\ IsSeq(stream)
  BY DEF RecorderInv, GoodSeq
<1>5. PICK L \in Nat : L = Len(seen)
  BY <1>4, SeqFacts
<1>6. L <= ObservationBound
  BY <1>5 DEF WroteInv
<1>7. /\ Prefix(stream, seen, L) /\ FenceAt(stream, L)
      /\ Len(stream) = L + 3 /\ IsFailure(stream[L + 3])
      /\ \A i \in 1..L : stream[i + 1].body.owner # NoOwner
      /\ candidate = CandidateFor(stream)
  BY <1>3, <1>5, WholeStream
<1>8. AutomaticCaptureVerified(candidate, Rules, Signer)
  BY <1>4, <1>6, <1>7, WholeVerified
<1> QED
  BY <1>8 DEF Verify

\* Its capsule, sealed without loss, resolves.
LEMMA WholeResolve ==
    ASSUME RecorderInv, WroteInv, SeenInv, WholeCaptureReplays,
           NEW positioned, Resolve(positioned)
    PROVE  WholeCaptureReplays'
<1>1. UNCHANGED <<seen, stream, cut, candidate>> /\ verdict = "accepted"
  BY DEF Resolve
<1>2. damaged' = (damaged \/ positioned # Positioned(Captured))
  BY DEF Resolve
<1>3. SUFFICES ASSUME IsWhole, positioned = Positioned(Captured)
               PROVE  verdict' \notin {"rejected", "unresolved"}
  <2>1. SUFFICES ASSUME IsWhole' PROVE verdict' \notin {"rejected", "unresolved"}
    BY DEF WholeCaptureReplays, IsWhole
  <2>2. ~damaged'
    BY <2>1 DEF IsWhole
  <2>3. ~damaged /\ positioned = Positioned(Captured)
    BY <1>2, <2>2
  <2>4. IsWhole
    BY <1>1, <2>1, <2>3 DEF IsWhole
  <2> QED
    BY <1>3, <2>3, <2>4
<1>4. IsSeq(seen)
  BY DEF RecorderInv
<1>5. PICK L \in Nat : L = Len(seen)
  BY <1>4, SeqFacts
<1>6. cut.fenced = L
  BY <1>3, <1>5, WholeStream
<1>7. Captured = SubSeq(seen, 1, L)
  <2>1. Verified
    BY <1>1 DEF Verified
  <2> QED
    BY <2>1, <1>6 DEF RecorderInv, Accepted, Captured
<1>8. SubSeq(seen, 1, L) = seen
  <2>1. PICK p : p = SubSeq(seen, 1, L)
    OBVIOUS
  <2>2. L \in 0..Len(seen)
    BY <1>5
  <2>3. p \in Seq(Range(seen)) /\ Len(p) = L /\ \A i \in 1..L : p[i] = seen[i]
    BY <1>4, <2>1, <2>2, PrefixOf
  <2>4. seen \in Seq(Range(seen))
    BY <1>4 DEF IsSeq
  <2> QED
    BY <2>1, <2>3, <2>4, <1>5
<1>9. positioned = Positioned(seen)
  BY <1>3, <1>7, <1>8
<1>10. \A n \in 1..Len(seen) : Replays(seen[n], n)
  <2>1. ASSUME NEW n \in 1..L PROVE Replays(seen[n], n)
    <3>1. CASE n = 1
      BY <3>1 DEF SeenInv, Replays
    <3>2. CASE n = 2
      BY <3>2 DEF SeenInv, Replays
    <3>3. CASE n \in 3..L
      BY <1>3, <1>5, <3>3 DEF SeenInv, IsWhole, Replays
    <3> QED
      BY <3>1, <3>2, <3>3
  <2> QED
    BY <2>1, <1>5
<1>11. /\ 2 <= Len(seen) /\ Len(seen) <= ObservationBound
       /\ DistinctContent(Capsule(Positioned(seen)).artifacts)
  BY <1>3 DEF SeenInv, WroteInv, IsWhole
<1>12. Resolves(Capsule(positioned))
  BY <1>4, <1>9, <1>10, <1>11, WholeResolves
<1> QED
  BY <1>12 DEF Resolve

LEMMA WholeStep ==
    ASSUME RecorderInv, WroteInv, SeenInv, WholeCaptureReplays, [Next]_vars
    PROVE  WholeCaptureReplays'
<1>1. CASE candidate' = None
  BY <1>1 DEF WholeCaptureReplays
<1>2. ASSUME NEW exchange, NEW owner, Observe(exchange, owner) PROVE candidate' = None
  BY <1>2 DEF Observe
<1>3. ASSUME NEW receipt, RecordReceipt(receipt) PROVE candidate' = None
  BY <1>3 DEF RecordReceipt
<1>4. MarkUnowned \/ CutFence \/ Fail => candidate' = None
  BY DEF MarkUnowned, CutFence, Fail
<1>5. CASE verdict' \notin {"rejected", "unresolved"}
  BY <1>5 DEF WholeCaptureReplays
<1>6. ASSUME NEW bodies, Deliver(bodies) PROVE verdict' \notin {"rejected", "unresolved"}
  <2>1. candidate = None /\ verdict' = verdict
    BY <1>6 DEF Deliver
  <2> QED
    BY <2>1 DEF RecorderInv
<1>7. CASE Verify
  BY <1>7, WholeVerify
<1>8. ASSUME NEW positioned, Resolve(positioned) PROVE WholeCaptureReplays'
  BY <1>8, WholeResolve
<1>9. ASSUME NEW class, NEW position, NEW request, TakeResponse(class, position, request)
      PROVE  verdict' \notin {"rejected", "unresolved"}
  BY <1>9 DEF TakeResponse
<1>10. RequireComplete => verdict' \notin {"rejected", "unresolved"}
  BY DEF RequireComplete
<1>11. UNCHANGED vars => WholeCaptureReplays'
  BY DEF vars, WholeCaptureReplays
<1> QED
  BY <1>1, <1>2, <1>3, <1>4, <1>5, <1>6, <1>7, <1>8, <1>9, <1>10, <1>11 DEF Next

\* An operation captured whole is neither rejected nor left without a replay:
\* verify_automatic_capture accepts the candidate delivered from its records
\* and resolve_automatic_replay the capsule sealed from its observations.
THEOREM WholeReplays == Spec => []WholeCaptureReplays
<1>1. Init => WholeCaptureReplays
  BY DEF Init, WholeCaptureReplays
<1> QED
  BY <1>1, RecorderInit, WroteInit, SeenInit, RecorderStep, WroteStep, SeenStep, WholeStep,
     PTL DEF Spec
================================================================================
