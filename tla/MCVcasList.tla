----------------------------- MODULE MCVcasList ------------------------------
(***************************************************************************)
(* Small instances of VcasList: keys 1 to 3, three processes.              *)
(***************************************************************************)
EXTENDS VcasList, TLC

MCKeys == {1, 2, 3}
MCNodes == 1 .. 6

\* The constructor has made the nodes 1 (head) and 5 (max), at time 1, and key 2
\* has been inserted with node 2.
MCKeysOf == [n \in MCNodes |-> CASE n = 2 -> 2 [] n = 5 -> 4 [] OTHER -> 0]
MCLink(n) == CASE n = 1 -> 2 [] n = 2 -> 5 [] OTHER -> 0
MCObjects == MCNodes \X {"next", "marked"}
MCVersions ==
  [o \in MCObjects |->
     IF o[1] \notin {1, 2, 5} THEN <<>>
     ELSE <<[val |-> IF o[2] = "next" THEN MCLink(o[1]) ELSE 0, ts |-> 1]>>]

Insert(k) == [type |-> "insert", lo |-> k, hi |-> k]
Erase(k) == [type |-> "erase", lo |-> k, hi |-> k]
Find(k) == [type |-> "contains", lo |-> k, hi |-> k]
RangeQuery(a, b) == [type |-> "range", lo |-> a, hi |-> b]
Jobs(a, b, c) == (1 :> a) @@ (2 :> b) @@ (3 :> c)

\* An erase, next to a lookup of the same key that is followed by a query.
MarkedWorkloads == { Jobs(<<Erase(2)>>, <<Find(2), RangeQuery(1, 3)>>, <<>>) }

\* Inserts and erases of neighbours and of the same key, next to queries and
\* lookups of both, and two queries at once, that can be of the same time.
MCWorkloads ==
  { Jobs(<<Insert(3)>>, <<Erase(2), Insert(2)>>, <<RangeQuery(2, 3)>>),
    Jobs(<<Insert(1), Erase(1)>>, <<Erase(2)>>, <<RangeQuery(1, 2)>>),
    Jobs(<<Erase(2)>>, <<Erase(2), Insert(2)>>, <<Find(2), RangeQuery(2, 3)>>),
    Jobs(<<Insert(1)>>, <<RangeQuery(1, 2), Find(1)>>, <<RangeQuery(1, 2), Erase(2)>>) }
=============================================================================
