---------------------- MODULE DistributedRankingProofs ----------------------
(***************************************************************************)
(* The page of a merged ranking is the page of the whole collection, for   *)
(* every set of servers, every finite set of documents, every number of    *)
(* ranks and every order the results come in.                              *)
(*                                                                         *)
(* The argument is about the documents a server left out of its result.    *)
(* Were one of them better than a document of the merged page, the best    *)
(* such one would have as many documents of its own server above it as the *)
(* server was asked for, all of them in the merged result, and the         *)
(* document of the page would be behind the page.                          *)
(***************************************************************************)
EXTENDS DistributedRanking, FiniteSetTheorems, TLAPS

(* A document that is not in a set of documents has a best one in it.      *)
LEMMA BestDocument ==
    ASSUME NEW D, D \subseteq Nat, D # {}
    PROVE  \E y \in D : \A z \in D : y <= z
<1>1. PICK y \in D : \A z \in D : ~(<<z, y>> \in OpToRel(<, Nat))
      BY NatLessThanWellFounded, WFMin, Zenon
<1>2. ASSUME NEW z \in D  PROVE y <= z
  <2>1. z \in Nat /\ y \in Nat
        OBVIOUS
  <2>2. <<z, y>> \in Nat \X Nat /\ <<z, y>>[1] = z /\ <<z, y>>[2] = y
        BY <2>1
  <2>3. ~(z < y)
        BY <1>1, <2>2 DEF OpToRel
  <2> QED BY <2>1, <2>3
<1> QED BY <1>2

(* The documents better than one are finitely many.                        *)
LEMMA BetterFinite ==
    ASSUME NEW docs, IsFiniteSet(docs), NEW x
    PROVE  /\ Better(docs, x) \subseteq docs
           /\ IsFiniteSet(Better(docs, x))
           /\ Cardinality(Better(docs, x)) \in Nat
<1>1. Better(docs, x) \in SUBSET docs
      BY DEF Better
<1>2. IsFiniteSet(Better(docs, x))
      BY <1>1, FS_Subset
<1> QED BY <1>1, <1>2, FS_CardinalityType

-----------------------------------------------------------------------------
(* A page of the merged top lists is the page of everything, if every list *)
(* is at least as long as the page ends at.                                *)
LEMMA MergedPage ==
    ASSUME NEW I, NEW U \in SUBSET Nat, IsFiniteSet(U),
           NEW docs \in [I -> SUBSET U],
           \A x \in U : \E i \in I : x \in docs[i],
           NEW limit \in [I -> Nat],
           NEW M, \A x : x \in M <=> \E i \in I : x \in Ranked(docs[i], 0, limit[i]),
           NEW first \in Nat, NEW n \in Nat,
           \A i \in I : limit[i] >= first + n
    PROVE  Ranked(M, first, n) = Ranked(U, first, n)
<1>1. M \in SUBSET U
      BY DEF Ranked
<1>2. IsFiniteSet(M)
      BY <1>1, FS_Subset
<1>3. \A i \in I : docs[i] \in SUBSET U /\ IsFiniteSet(docs[i]) /\ limit[i] \in Nat
      BY FS_Subset
<1> DEFINE rank(x) == Cardinality(Better(U, x))
           seen(x) == Cardinality(Better(M, x))
<1>4. \A x : rank(x) \in Nat /\ seen(x) \in Nat
      BY <1>2, BetterFinite
<1> HIDE DEF rank, seen
(* What is above the end of the page is in the merged result, with         *)
(* everything that is better.                                              *)
<1>5. ASSUME NEW y \in U, rank(y) < first + n  PROVE y \in M
  <2>1. PICK i \in I : y \in docs[i]
        OBVIOUS
  <2>2. Better(docs[i], y) \in SUBSET Better(U, y)
        BY <1>3, <2>1 DEF Better
  <2>3. Cardinality(Better(docs[i], y)) <= rank(y)
        BY <2>2, BetterFinite, FS_Subset DEF rank
  <2>4. Cardinality(Better(docs[i], y)) \in Nat
        BY <1>3, BetterFinite
  <2>5. Cardinality(Better(docs[i], y)) < limit[i]
        BY <1>3, <1>4, <1>5, <2>3, <2>4
  <2>6. y \in Ranked(docs[i], 0, limit[i])
        BY <1>3, <2>1, <2>4, <2>5 DEF Ranked
  <2> QED BY <2>6
<1>6. ASSUME NEW x \in U, NEW y \in Better(U, x)  PROVE rank(y) <= rank(x)
  <2>1. ASSUME NEW z \in Better(U, y)  PROVE z \in Better(U, x)
    <3>1. z \in U /\ z \in Nat /\ y \in Nat /\ x \in Nat /\ z < y /\ y < x
          BY <1>6, <2>1 DEF Better
    <3> QED BY <3>1 DEF Better
  <2>2. Better(U, y) \in SUBSET Better(U, x)
        BY <2>1
  <2> QED BY <2>2, BetterFinite, FS_Subset DEF rank
<1>7. ASSUME NEW x \in U, rank(x) < first + n
      PROVE  x \in M /\ seen(x) = rank(x)
  <2>1. Better(U, x) \subseteq M
    <3>1. SUFFICES ASSUME NEW y \in Better(U, x)  PROVE y \in M
          OBVIOUS
    <3>2. rank(y) < first + n
          BY <1>4, <1>6, <1>7
    <3> QED BY <1>5, <3>2 DEF Better
  <2>2. Better(M, x) = Better(U, x)
        BY <1>1, <2>1 DEF Better
  <2> QED BY <1>5, <1>7, <2>2 DEF rank, seen
(* What is behind the page is behind it in the merged result.              *)
<1>8. ASSUME NEW x \in M, rank(x) >= first + n  PROVE seen(x) >= first + n
  <2>1. CASE Better(U, x) \subseteq M
    <3>1. Better(M, x) = Better(U, x)
          BY <1>1, <2>1 DEF Better
    <3> QED BY <1>8, <3>1 DEF rank, seen
  <2>2. CASE ~(Better(U, x) \subseteq M)
    <3>1. PICK y \in Better(U, x) \ M : \A z \in Better(U, x) \ M : y <= z
      <4>1. Better(U, x) \ M \subseteq Nat /\ Better(U, x) \ M # {}
            BY <2>2 DEF Better
      <4> QED BY <4>1, BestDocument
    <3>2. PICK i \in I : y \in docs[i]
          BY DEF Better
    <3>3. Cardinality(Better(docs[i], y)) \in Nat
          BY <1>3, BetterFinite
    <3>4. y \notin Ranked(docs[i], 0, limit[i])
          BY <3>1
    <3>5. Cardinality(Better(docs[i], y)) >= limit[i]
          BY <1>3, <3>2, <3>3, <3>4 DEF Ranked
    <3>6. ASSUME NEW z \in Better(docs[i], y)  PROVE z \in Better(M, x)
      <4>1. z \in U /\ z < y /\ y < x /\ x \in Nat /\ y \in Nat /\ z \in Nat
            BY <1>1, <1>3, <3>6 DEF Better
      <4>2. z \in Better(U, x)
            BY <4>1 DEF Better
      <4>3. z \in M
            BY <3>1, <4>1, <4>2
      <4> QED BY <4>1, <4>3 DEF Better
    <3>7. Better(docs[i], y) \in SUBSET Better(M, x)
          BY <3>6
    <3>8. Cardinality(Better(docs[i], y)) <= seen(x)
          BY <1>2, <3>7, BetterFinite, FS_Subset DEF seen
    <3> QED BY <1>3, <1>4, <3>3, <3>5, <3>8
  <2> QED BY <2>1, <2>2
<1>9. ASSUME NEW x  PROVE x \in Ranked(M, first, n) <=> x \in Ranked(U, first, n)
  <2>1. ASSUME x \in Ranked(M, first, n)  PROVE x \in Ranked(U, first, n)
    <3>1. x \in M /\ first <= seen(x) /\ seen(x) < first + n
          BY <2>1 DEF Ranked, seen
    <3>2. rank(x) < first + n
          BY <1>4, <1>8, <3>1
    <3>3. x \in U /\ seen(x) = rank(x)
          BY <1>1, <1>7, <3>1, <3>2
    <3> QED BY <3>1, <3>2, <3>3 DEF Ranked, rank
  <2>2. ASSUME x \in Ranked(U, first, n)  PROVE x \in Ranked(M, first, n)
    <3>1. x \in U /\ first <= rank(x) /\ rank(x) < first + n
          BY <2>2 DEF Ranked, rank
    <3>2. x \in M /\ seen(x) = rank(x)
          BY <1>7, <3>1
    <3> QED BY <3>1, <3>2 DEF Ranked, seen
  <2> QED BY <2>1, <2>2
<1> QED BY <1>9

-----------------------------------------------------------------------------
(* The inductive invariant.                                                *)
RankingInv == TypeOK /\ ResultsEvaluated

LEMMA EvaluateInPlaces ==
    ASSUME NEW docs \in SUBSET Places, NEW q
    PROVE  Evaluate(docs, q) \in SUBSET Places
BY DEF Evaluate, Ranked

LEMMA InitRanking == Init => RankingInv
<1> SUFFICES ASSUME Init  PROVE RankingInv
    OBVIOUS
<1>1. TypeOK
      BY RankingAssumption DEF Init, TypeOK, Defaults, Settings
<1>2. ResultsEvaluated
      BY DEF Init, ResultsEvaluated
<1> QED BY <1>1, <1>2 DEF RankingInv

(* Setting a query up leaves the results alone.                            *)
LEMMA SetQueryKeeps ==
    ASSUME RankingInv, NEW s \in Servers, NEW settings \in Settings,
           SetQuery(s, settings)
    PROVE  RankingInv'
<1>1. TypeOK'
      BY DEF RankingInv, TypeOK, SetQuery
<1>2. ResultsEvaluated'
      BY DEF RankingInv, ResultsEvaluated, SetQuery, IsEvaluated
<1> QED BY <1>1, <1>2 DEF RankingInv

LEMMA EvaluateQueryKeeps ==
    ASSUME RankingInv, NEW s \in Servers, EvaluateQuery(s)
    PROVE  RankingInv'
<1> DEFINE r == [server |-> s, query |-> query[s], docs |-> held[s],
                 ranks |-> Evaluate(held[s], query[s])]
<1>1. r \in Results
  <2>1. held[s] \in SUBSET Places /\ query[s] \in Settings
        BY DEF RankingInv, TypeOK
  <2>2. Evaluate(held[s], query[s]) \in SUBSET Places
        BY <2>1, EvaluateInPlaces
  <2> QED BY <2>1, <2>2 DEF Results
<1>2. IsEvaluated(r)
      BY DEF IsEvaluated
<1>3. sent' = sent \cup {r} /\ UNCHANGED <<held, query, merger, ar>>
      BY DEF EvaluateQuery
<1> HIDE DEF r
<1>4. TypeOK'
      BY <1>1, <1>3 DEF RankingInv, TypeOK
<1>5. ResultsEvaluated'
      BY <1>2, <1>3 DEF RankingInv, ResultsEvaluated, IsEvaluated
<1> QED BY <1>4, <1>5 DEF RankingInv

LEMMA AddQueryResultKeeps ==
    ASSUME RankingInv, NEW r \in sent, AddQueryResult(r)
    PROVE  RankingInv'
<1>1. r \in Results /\ IsEvaluated(r) /\ ar \in Seq(Results)
      BY DEF RankingInv, TypeOK, ResultsEvaluated
<1>2. ar' \in Seq(Results)
      BY <1>1 DEF AddQueryResult
<1>3. TypeOK'
      BY <1>2 DEF RankingInv, TypeOK, AddQueryResult
<1>4. ASSUME NEW i \in DOMAIN ar'  PROVE IsEvaluated(ar'[i])
  <2>1. CASE i \in DOMAIN ar
    <3>1. ar'[i] = ar[i]
          BY <1>1, <2>1 DEF AddQueryResult
    <3> QED BY <2>1, <3>1 DEF RankingInv, ResultsEvaluated
  <2>2. CASE i \notin DOMAIN ar
    <3>1. ar'[i] = r
          BY <1>1, <1>4, <2>2 DEF AddQueryResult
    <3> QED BY <1>1, <3>1
  <2> QED BY <2>1, <2>2
<1>5. \A t \in sent' : IsEvaluated(t)
      BY DEF RankingInv, ResultsEvaluated, AddQueryResult
<1>6. ResultsEvaluated'
      BY <1>4, <1>5 DEF ResultsEvaluated, IsEvaluated
<1> QED BY <1>3, <1>6 DEF RankingInv

LEMMA NextKeeps == RankingInv /\ [Next]_vars => RankingInv'
<1> SUFFICES ASSUME RankingInv, [Next]_vars  PROVE RankingInv'
    OBVIOUS
<1> USE DEF RankingInv
<1>1. ASSUME NEW s \in Servers, NEW x \in Places, InsertDocument(s, x)
      PROVE  RankingInv'
  <2>1. TypeOK'
        BY <1>1 DEF TypeOK, InsertDocument
  <2>2. ResultsEvaluated'
        BY <1>1 DEF ResultsEvaluated, InsertDocument, IsEvaluated
  <2> QED BY <2>1, <2>2
<1>2. ASSUME NEW s \in Servers, NEW n \in Ranks, SetMinRank(s, n) \/ SetMaxNofRanks(s, n)
      PROVE  RankingInv'
  <2>1. query[s] \in Settings /\ n \in Nat
        BY RankingAssumption DEF TypeOK
  <2>2. /\ [query[s] EXCEPT !.minRank = n] \in Settings
        /\ [query[s] EXCEPT !.maxNofRanks = n] \in Settings
        BY <2>1 DEF Settings
  <2> QED BY <1>2, <2>2, SetQueryKeeps DEF SetMinRank, SetMaxNofRanks
<1>3. ASSUME NEW s \in Servers, NEW yes \in BOOLEAN, UseMergeResult(s, yes)
      PROVE  RankingInv'
  <2>1. [query[s] EXCEPT !.useMergeResult = yes] \in Settings
        BY DEF TypeOK, Settings
  <2> QED BY <1>3, <2>1, SetQueryKeeps DEF UseMergeResult
<1>4. ASSUME NEW s \in Servers, EvaluateQuery(s)  PROVE RankingInv'
      BY <1>4, EvaluateQueryKeeps
<1>5. ASSUME NEW n \in Ranks, MergerSetMinRank(n) \/ MergerSetMaxNofRanks(n)
      PROVE  RankingInv'
  <2>1. TypeOK'
        BY <1>5, RankingAssumption
        DEF TypeOK, Settings, MergerSetMinRank, MergerSetMaxNofRanks
  <2>2. ResultsEvaluated'
        BY <1>5
        DEF ResultsEvaluated, IsEvaluated, MergerSetMinRank, MergerSetMaxNofRanks
  <2> QED BY <2>1, <2>2
<1>6. ASSUME NEW r \in sent, AddQueryResult(r)  PROVE RankingInv'
      BY <1>6, AddQueryResultKeeps
<1>7. ASSUME UNCHANGED vars  PROVE RankingInv'
      BY <1>7 DEF vars, TypeOK, ResultsEvaluated, IsEvaluated
<1> QED BY <1>1, <1>2, <1>3, <1>4, <1>5, <1>6, <1>7 DEF Next

(* The settings, the documents and the results are well-formed: no order   *)
(* of insertions, settings, evaluations and deliveries leaves a result     *)
(* that is not the evaluation of its query on the documents its server had *)
(* at that moment.                                                         *)
THEOREM ResultsAreEvaluated == Spec => [](TypeOK /\ ResultsEvaluated)
<1>1. Init => RankingInv
      BY InitRanking
<1>2. RankingInv /\ [Next]_vars => RankingInv'
      BY NextKeeps
<1>3. RankingInv => TypeOK /\ ResultsEvaluated
      BY DEF RankingInv
<1> QED BY <1>1, <1>2, <1>3, PTL DEF Spec

-----------------------------------------------------------------------------
LEMMA InvariantGivesPage == RankingInv => PageIsGlobal
<1> SUFFICES ASSUME RankingInv, \A i \in DOMAIN ar : Reaches(ar[i].query)
             PROVE  EvaluateMerger
                      = Ranked(Collection, merger.minRank, merger.maxNofRanks)
    BY DEF PageIsGlobal
<1> DEFINE docs  == [i \in DOMAIN ar |-> ar[i].docs]
           limit == [i \in DOMAIN ar |-> ar[i].query.minRank + ar[i].query.maxNofRanks]
<1>1. \A i \in DOMAIN ar : ar[i] \in Results
      BY DEF RankingInv, TypeOK
<1>2. \A i \in DOMAIN ar : /\ ar[i].docs \in SUBSET Places
                           /\ ar[i].query \in Settings
      BY <1>1 DEF Results
<1>3. \A i \in DOMAIN ar : limit[i] \in Nat
      BY <1>2 DEF Settings
<1>4. \A i \in DOMAIN ar : ar[i].ranks = Ranked(docs[i], 0, limit[i])
      BY DEF RankingInv, ResultsEvaluated, IsEvaluated, Evaluate, Reaches
<1>5. Collection \in SUBSET Places
      BY <1>2 DEF Collection
<1>6. Collection \in SUBSET Nat /\ IsFiniteSet(Collection)
      BY <1>5, RankingAssumption, FS_Subset
<1>7. docs \in [DOMAIN ar -> SUBSET Collection] /\ limit \in [DOMAIN ar -> Nat]
      BY <1>3 DEF Collection
<1>8. \A x \in Collection : \E i \in DOMAIN ar : x \in docs[i]
      BY DEF Collection
<1>9. \A x : x \in Merged <=> \E i \in DOMAIN ar : x \in Ranked(docs[i], 0, limit[i])
      BY <1>4 DEF Merged
<1>10. merger.minRank \in Nat /\ merger.maxNofRanks \in Nat
      BY DEF RankingInv, TypeOK, Settings
<1>11. \A i \in DOMAIN ar : limit[i] >= merger.minRank + merger.maxNofRanks
      BY DEF Reaches
<1> DEFINE servers == DOMAIN ar
           first == merger.minRank
           n == merger.maxNofRanks
<1>12. /\ first \in Nat /\ n \in Nat
       /\ Collection \in SUBSET Nat /\ IsFiniteSet(Collection)
       /\ docs \in [servers -> SUBSET Collection]
       /\ \A x \in Collection : \E i \in servers : x \in docs[i]
       /\ limit \in [servers -> Nat]
       /\ \A x : x \in Merged <=> \E i \in servers : x \in Ranked(docs[i], 0, limit[i])
       /\ \A i \in servers : limit[i] >= first + n
      BY <1>6, <1>7, <1>8, <1>9, <1>10, <1>11
<1> HIDE DEF docs, limit, servers, first, n
<1>13. Ranked(Merged, first, n) = Ranked(Collection, first, n)
      BY <1>12, MergedPage
<1>14. Ranked(Merged, merger.minRank, merger.maxNofRanks)
         = Ranked(Collection, merger.minRank, merger.maxNofRanks)
      BY <1>13 DEF first, n
<1> QED BY <1>14 DEF EvaluateMerger

(* The page the merger evaluates is the page of the whole collection: the  *)
(* servers that evaluate a query to be merged from the first rank on, up   *)
(* to the end of the page at least, leave nothing out that belongs on it.  *)
THEOREM MergedPageIsGlobal == Spec => []PageIsGlobal
<1>1. Init => RankingInv
      BY InitRanking
<1>2. RankingInv /\ [Next]_vars => RankingInv'
      BY NextKeeps
<1>3. RankingInv => PageIsGlobal
      BY InvariantGivesPage
<1> QED BY <1>1, <1>2, <1>3, PTL DEF Spec

=============================================================================
