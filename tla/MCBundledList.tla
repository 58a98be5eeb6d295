--------------------------- MODULE MCBundledList ----------------------------
(***************************************************************************)
(* Small instances of BundledList: keys 1 to 3, three processes.           *)
(***************************************************************************)
EXTENDS BundledList, TLC

MCKeys == {1, 2, 3}
MCNodes == 1 .. 6

\* The constructor has made the nodes 1 (head) and 5 (max), and key 2 has been
\* inserted with node 2.
Linked(t, n) == [ts |-> t, ptr |-> n]
ListOf2 ==
  [n \in MCNodes |->
     CASE n = 1 -> [EmptyBundle EXCEPT !.entries = <<Linked(2, 5), Linked(3, 2)>>]
       [] n = 2 -> [EmptyBundle EXCEPT !.entries = <<Linked(3, 5)>>]
       [] OTHER -> EmptyBundle]
KeysOf2 == [n \in MCNodes |-> CASE n = 2 -> 2 [] n = 5 -> 4 [] OTHER -> 0]

Insert(k) == [type |-> "insert", lo |-> k, hi |-> k]
Erase(k) == [type |-> "erase", lo |-> k, hi |-> k]
Find(k) == [type |-> "contains", lo |-> k, hi |-> k]
RangeQuery(a, b) == [type |-> "range", lo |-> a, hi |-> b]

\* Two inserts in different places, the second followed by an erase that finds
\* nothing, and a query of the whole list.
AbsentWorkloads ==
  { (1 :> <<Insert(1)>>) @@ (2 :> <<Insert(3), Erase(1)>>) @@ (3 :> <<RangeQuery(1, 3)>>) }

\* Inserts and erases of neighbours and of the same key, next to queries and
\* lookups of both: an insert whose predecessor is being erased, an erased key
\* that comes back, two erases and two inserts of one key.
Jobs(a, b, c) == (1 :> a) @@ (2 :> b) @@ (3 :> c)
ListWorkloads ==
  { Jobs(<<Insert(3)>>, <<Erase(2), Insert(2)>>, <<RangeQuery(2, 3)>>),
    Jobs(<<Insert(1), Erase(1)>>, <<Erase(2)>>, <<RangeQuery(2, 2)>>),
    Jobs(<<Erase(2)>>, <<Erase(2), Insert(2)>>, <<Find(2), RangeQuery(2, 3)>>),
    Jobs(<<Insert(3)>>, <<Insert(3), Erase(3)>>, <<Find(3), RangeQuery(3, 3)>>) }

MCUpdates ==
  {w \in {<<Write(a, b), Write(c, d)>> : a, b, c, d \in MCNodes} : w[1].bundle # w[2].bundle}
=============================================================================
