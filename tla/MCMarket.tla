----------------------------- MODULE MCMarket -----------------------------
(* A seller with the one item and two who bid; together they have more coins than
   one purse holds. *)
EXTENDS Market, TLC

CONSTANTS s, b1, b2, i1, lot, m1, m2

MCGold == s :> 1 @@ b1 :> 1 @@ b2 :> 2
MCBag == s :> {i1} @@ b1 :> {} @@ b2 :> {}

MCContents == {<<i1, 0, 1>>, <<i1, 1, 0>>, <<NoItem, 1, 0>>}

Symmetry == Permutations(MailIds)

\* The states whose successors are looked at: no two handlers have met, nor the sweep a
\* player between, and, after a restart, no one has begun to log in.
Followed ==
    /\ ~raced
    /\ crashes > 0 => \A p \in Players : status[p] = "offline"

=============================================================================
