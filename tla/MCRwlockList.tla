---------------------------- MODULE MCRwlockList -----------------------------
(***************************************************************************)
(* A small instance of RwlockList: keys 1 to 3, three processes.           *)
(***************************************************************************)
EXTENDS RwlockList, TLC

MCKeys == {1, 2, 3}
MCNodes == 1 .. 6

\* The constructor has made the nodes 1 (head) and 5 (max), and key 2 has been
\* inserted with node 2 at time 1.
MCKeysOf == [n \in MCNodes |-> CASE n = 2 -> 2 [] n = 5 -> 4 [] OTHER -> 0]
MCNext == [n \in MCNodes |-> CASE n = 1 -> 2 [] n = 2 -> 5 [] OTHER -> 0]
MCTimes == [n \in MCNodes |-> IF n = 2 THEN 1 ELSE NotSet]

Insert(k) == [type |-> "insert", lo |-> k, hi |-> k]
Erase(k) == [type |-> "erase", lo |-> k, hi |-> k]
Find(k) == [type |-> "contains", lo |-> k, hi |-> k]
RangeQuery(a, b) == [type |-> "range", lo |-> a, hi |-> b]
Jobs(a, b, c) == (1 :> a) @@ (2 :> b) @@ (3 :> c)

\* A process that inserts and then erases, next to a query that must not miss only
\* the insertion; updates of neighbours and of one key next to a query; two queries
\* at once, of different times; and a query that has to find its way to its range.
MCWorkloads ==
  { Jobs(<<Insert(3), Erase(2)>>, <<RangeQuery(2, 3)>>, <<Find(2)>>),
    Jobs(<<Insert(1)>>, <<Erase(2)>>, <<RangeQuery(1, 2)>>),
    Jobs(<<Erase(2)>>, <<Insert(2), Erase(2)>>, <<RangeQuery(1, 2)>>),
    Jobs(<<Erase(2)>>, <<RangeQuery(1, 2)>>, <<RangeQuery(2, 3)>>),
    Jobs(<<Insert(3)>>, <<RangeQuery(3, 3)>>, <<>>) }
=============================================================================
