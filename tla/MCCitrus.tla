------------------------------ MODULE MCCitrus ------------------------------
(***************************************************************************)
(* Small instances of CitrusTree: keys 1 to 7.                             *)
(***************************************************************************)
EXTENDS CitrusTree, TLC

MCKeys == 1 .. 7
MCNodes == 1 .. 10
MCNull == 0
MCBundles == MCNodes \X {0, 1}
MCPtrs == MCNodes \cup {MCNull}

\* Trees by their links: the constructor has made nodes 8 (root) and 9
\* (rootchild), and keys have been inserted with the nodes of the same number.
\* The keys of nodes that are not in use mean nothing.
Entries(s) == [EmptyBundle EXCEPT !.entries = s]
At(t, n) == [ts |-> t, ptr |-> n]
TreeOf(links) ==
  [b \in MCBundles |->
     CASE b = <<8, 0>> -> Entries(<<At(2, 9)>>)
       [] b = <<9, 0>> -> Entries(<<At(2, MCNull), At(3, links[b])>>)
       [] b \in {<<8, 1>>, <<9, 1>>} -> Entries(<<At(2, MCNull)>>)
       [] \E l \in DOMAIN links : links[l] = b[1] ->
            Entries(<<At(3, IF b \in DOMAIN links THEN links[b] ELSE MCNull)>>)
       [] OTHER -> EmptyBundle]

\* 2 with children 1 and 6, 6 with children 5 and 7: erase(2) moves 5 up from
\* below 6, erase(6) moves its own child 7 up.
BushyTree ==
  TreeOf((<<9, 0>> :> 2) @@ (<<2, 0>> :> 1) @@ (<<2, 1>> :> 6) @@ (<<6, 0>> :> 5) @@ (<<6, 1>> :> 7))
\* 5, 3, 1 to the left, 2 to the right of 1.
Chain ==
  TreeOf((<<9, 0>> :> 5) @@ (<<5, 0>> :> 3) @@ (<<3, 0>> :> 1) @@ (<<1, 1>> :> 2))
MCKey == [n \in MCNodes |-> IF n \in MCKeys THEN n ELSE 8]

Insert(k) == [type |-> "insert", lo |-> k, hi |-> k]
Erase(k) == [type |-> "erase", lo |-> k, hi |-> k]
Find(k) == [type |-> "contains", lo |-> k, hi |-> k]
RangeQuery(a, b) == [type |-> "range", lo |-> a, hi |-> b]

Jobs(a, b, c) == (1 :> a) @@ (2 :> b) @@ (3 :> c)

CitrusWorkloads ==
  { Jobs(<<Insert(3)>>, <<Insert(4), Erase(2)>>, <<>>),
    Jobs(<<Insert(3)>>, <<>>, <<RangeQuery(4, 4)>>),
    Jobs(<<Erase(2)>>, <<>>, <<RangeQuery(1, 5)>>),
    Jobs(<<Erase(2)>>, <<Erase(5)>>, <<Find(6)>>),
    Jobs(<<Erase(6)>>, <<>>, <<Find(7), RangeQuery(5, 7)>>),
    Jobs(<<Erase(6)>>, <<Erase(7)>>, <<Find(7)>>),
    Jobs(<<Erase(1)>>, <<Insert(1)>>, <<RangeQuery(1, 2), Find(1)>>),
    Jobs(<<Erase(2)>>, <<Erase(6)>>, <<Find(7)>>) }
MovedWorkloads == { Jobs(<<Erase(2)>>, <<Find(5)>>, <<>>) }
RangeWorkloads == { Jobs(<<Erase(3)>>, <<RangeQuery(2, 3)>>, <<>>) }
=============================================================================
