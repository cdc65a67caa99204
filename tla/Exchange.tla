------------------------------ MODULE Exchange ------------------------------
(***************************************************************************)
(* What a trade promises (src/src/game/Trade): goods change hands only in  *)
(* one step for both sides, and only as the other side has consented to.   *)
(* Consent names what each side puts up; a thing its owner no longer has   *)
(* does not move.                                                          *)
(***************************************************************************)
EXTENDS Integers

CONSTANTS
    Players, Items,
    MaxMoney,       \* what a purse can hold
    NoConsent

VARIABLES
    bag,            \* per player: the items
    gold,
    consent         \* per player: the terms consented to, or NoConsent

vars == <<bag, gold, consent>>

Purse == 0..MaxMoney
Terms == [with : Players, give : SUBSET Items, take : SUBSET Items, pay : Purse, price : Purse]

Init ==
    /\ bag \in [Players -> SUBSET Items]
    /\ gold \in [Players -> Purse]
    /\ consent = [p \in Players |-> NoConsent]

\* p consents to terms, or to none; anybody's consent may lapse at that.
Decide(p) ==
    /\ consent' \in [Players -> Terms \cup {NoConsent}]
    /\ \A q \in Players \ {p} : consent'[q] \in {consent[q], NoConsent}
    /\ UNCHANGED <<bag, gold>>

\* A purse after paying one sum and then receiving another: what would go over
\* the top is lost.
Settled(purse, pay, price) ==
    LET left == IF purse > pay THEN purse - pay ELSE 0
    IN  IF left + price < MaxMoney THEN left + price ELSE MaxMoney

\* p takes the offer that q has consented to.
Swap(p, q) ==
    /\ p # q
    /\ consent[q] # NoConsent
    /\ consent[q].with = p
    /\ LET t == consent[q]
           fromQ == t.give \cap bag[q]
           fromP == t.take \cap bag[p]
       IN /\ bag' = [bag EXCEPT ![p] = (@ \ fromP) \cup fromQ, ![q] = (@ \ fromQ) \cup fromP]
          /\ t.pay <= gold[q] /\ t.price <= gold[p]
          /\ gold' = [gold EXCEPT ![p] = Settled(@, t.price, t.pay),
                                  ![q] = Settled(@, t.pay, t.price)]
    /\ consent' = [consent EXCEPT ![p] = NoConsent, ![q] = NoConsent]

\* Outside the trade p uses, loses, finds and earns things; nobody else's.
Elsewhere(p) ==
    /\ bag' \in [Players -> SUBSET Items] /\ gold' \in [Players -> Purse]
    /\ \A q \in Players \ {p} : bag'[q] = bag[q] /\ gold'[q] = gold[q]
    /\ \A q \in Players \ {p} : bag'[p] \cap bag[q] \subseteq bag[p]
    /\ UNCHANGED consent

Next ==
    \E p \in Players :
        \/ Decide(p)
        \/ \E q \in Players : Swap(p, q)
        \/ Elsewhere(p)

Spec == Init /\ [][Next]_vars
=============================================================================
