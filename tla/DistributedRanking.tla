------------------------- MODULE DistributedRanking -------------------------
(***************************************************************************)
(* A query to a collection that is distributed over servers: every server  *)
(* evaluates the query on the documents it has (QueryImpl of query.cpp),   *)
(* the results travel to the merger in any order, and the merger evaluates *)
(* the page that was asked for from the results it got                     *)
(* (QueryResultMergerImpl).  A query whose result is to be merged evaluates *)
(* from the first rank on, whatever page was asked for.                    *)
(*                                                                         *)
(* A document stands for its place in the ranking: the smaller the better. *)
(* Documents may be inserted while the query is under way.                 *)
(***************************************************************************)
EXTENDS Integers, Sequences, FiniteSets

CONSTANTS Servers, Places,
          DefaultMaxNofRanks,   \* of a query or a merger nobody set a limit for
          Ranks                 \* the values minRank and maxNofRanks are set to

ASSUME RankingAssumption ==
  /\ Places \subseteq Nat /\ IsFiniteSet(Places)
  /\ DefaultMaxNofRanks \in Nat
  /\ Ranks \subseteq Nat

VARIABLES held,     \* the documents each server has
          query,    \* the settings of the query at each server
          merger,   \* the settings of the merger
          sent,     \* the results on their way to the merger
          ar        \* m_ar: the results the merger got

vars == <<held, query, merger, sent, ar>>

---------------------------------------------------------------------------
(* Ranked lists: as many documents as asked for from a rank on.            *)

Better(docs, x) == {y \in docs : y < x}
Ranked(docs, minRank, maxNofRanks) ==
  {x \in docs : /\ minRank <= Cardinality(Better(docs, x))
                /\ Cardinality(Better(docs, x)) < minRank + maxNofRanks}

EvaluatePage(docs, q) == Ranked(docs, q.minRank, q.maxNofRanks)  \* mutant: for no merge
Evaluate(docs, q) ==
  IF q.useMergeResult THEN Ranked(docs, 0, q.minRank + q.maxNofRanks)
  ELSE Ranked(docs, q.minRank, q.maxNofRanks)

Merged == UNION {ar[i].ranks : i \in DOMAIN ar}
EvaluateMerger == Ranked(Merged, merger.minRank, merger.maxNofRanks)

---------------------------------------------------------------------------
Settings == [minRank : Nat, maxNofRanks : Nat, useMergeResult : BOOLEAN]
Defaults == [minRank |-> 0, maxNofRanks |-> DefaultMaxNofRanks, useMergeResult |-> FALSE]
Results  == [server : Servers, query : Settings, docs : SUBSET Places, ranks : SUBSET Places]

Init ==
  /\ held = [s \in Servers |-> {}]
  /\ query = [s \in Servers |-> Defaults]
  /\ merger = Defaults
  /\ sent = {}
  /\ ar = << >>

(* A document belongs to one server.                                       *)
InsertDocument(s, x) ==
  /\ \A t \in Servers : x \notin held[t]
  /\ held' = [held EXCEPT ![s] = @ \cup {x}]
  /\ UNCHANGED <<query, merger, sent, ar>>

(* A query is set up, and then evaluated.                                  *)
Evaluated(s) ==
  (\E r \in sent : r.server = s) \/ (\E i \in DOMAIN ar : ar[i].server = s)
SetQuery(s, settings) ==
  /\ ~Evaluated(s)
  /\ query' = [query EXCEPT ![s] = settings]
  /\ UNCHANGED <<held, merger, sent, ar>>
SetMinRank(s, n)     == SetQuery(s, [query[s] EXCEPT !.minRank = n])
SetMaxNofRanks(s, n) == SetQuery(s, [query[s] EXCEPT !.maxNofRanks = n])
UseMergeResult(s, yes) == SetQuery(s, [query[s] EXCEPT !.useMergeResult = yes])

EvaluateQuery(s) ==
  /\ ~Evaluated(s)
  /\ sent' = sent \cup {[server |-> s, query |-> query[s], docs |-> held[s],
                         ranks |-> Evaluate(held[s], query[s])]}
  /\ UNCHANGED <<held, query, merger, ar>>

MergerSetMinRank(n) ==
  /\ merger' = [merger EXCEPT !.minRank = n]
  /\ UNCHANGED <<held, query, sent, ar>>
MergerSetMaxNofRanks(n) ==
  /\ merger' = [merger EXCEPT !.maxNofRanks = n]
  /\ UNCHANGED <<held, query, sent, ar>>
AddQueryResult(r) ==
  /\ ar' = Append(ar, r)
  /\ sent' = sent \ {r}
  /\ UNCHANGED <<held, query, merger>>

Next ==
  \/ \E s \in Servers, x \in Places : InsertDocument(s, x)
  \/ \E s \in Servers, n \in Ranks : SetMinRank(s, n) \/ SetMaxNofRanks(s, n)
  \/ \E s \in Servers, yes \in BOOLEAN : UseMergeResult(s, yes)
  \/ \E s \in Servers : EvaluateQuery(s)
  \/ \E n \in Ranks : MergerSetMinRank(n) \/ MergerSetMaxNofRanks(n)
  \/ \E r \in sent : AddQueryResult(r)

Spec == Init /\ [][Next]_vars

---------------------------------------------------------------------------
(* The state is well-formed, and a result is what its server evaluated.    *)
TypeOK ==
  /\ held \in [Servers -> SUBSET Places]
  /\ query \in [Servers -> Settings]
  /\ merger \in Settings
  /\ sent \subseteq Results
  /\ ar \in Seq(Results)

IsEvaluated(r) == r.ranks = Evaluate(r.docs, r.query)
ResultsEvaluated ==
  /\ \A r \in sent : IsEvaluated(r)
  /\ \A i \in DOMAIN ar : IsEvaluated(ar[i])

(* The page of the merger is the page of the whole collection: when every  *)
(* result it got was evaluated to be merged, and for as many ranks as the  *)
(* page ends at, the ranks are those the documents have in the ranking of  *)
(* everything the servers had when they evaluated, however the documents   *)
(* are distributed and in whatever order the results came in.              *)
Reaches(q) ==
  q.useMergeResult /\ q.minRank + q.maxNofRanks >= merger.minRank + merger.maxNofRanks
Collection == UNION {ar[i].docs : i \in DOMAIN ar}
PageIsGlobal ==
  (\A i \in DOMAIN ar : Reaches(ar[i].query)) =>
    EvaluateMerger = Ranked(Collection, merger.minRank, merger.maxNofRanks)

=============================================================================
