------------------------------ MODULE MCTrade ------------------------------
(***************************************************************************)
(* Two players with two items, so that items go both ways while one of     *)
(* them casts a spell; purses that one payment fills.  The items start out *)
(* with nobody: any of them may gain them first.                           *)
(***************************************************************************)
EXTENDS Trade, TLC

BagsAtStart == [p \in Players |-> {}]
GoldAtStart == [p \in Players |-> MaxMoney]

Symmetry == Permutations(Players) \cup Permutations(Items) \cup Permutations(Maps)
=============================================================================
