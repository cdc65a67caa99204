------------------------------- MODULE Trade -------------------------------
(***************************************************************************)
(* Trade between players: TradeData and TradeCancel (Player.cpp) and the   *)
(* handlers of the trade opcodes (TradeHandler.cpp).                       *)
(*                                                                         *)
(* Map::Update runs the handlers of the players on a map, one at a time,   *)
(* in a thread of its pool; the world thread runs those of a player on its *)
(* way to another map, while no map is updated.  A far teleport leaves a   *)
(* trade open.  So the handlers of two partners can run at once when they  *)
(* are on different maps, with no lock: that is a step of its own, what    *)
(* they leave is any of the two TradeData deleted and any not, and the     *)
(* model goes no further.                                                  *)
(*                                                                         *)
(* An offer holds GUIDs: the item behind one is looked up in its owner's   *)
(* inventory whenever it is needed, and may be gone by then.  Distance,    *)
(* CanBeTraded, CheckCast, CanStoreItems and the conditions for opening a  *)
(* trade depend on the rest of the game: either outcome is possible.       *)
(* moveItems' branch for a disagreement of CanStoreItem with CanStoreItems *)
(* and what the spells do to the items are left out.                       *)
(***************************************************************************)
EXTENDS Integers

CONSTANTS
    Players, Items, Maps,
    TradedSlots, NonTraded,     \* slots of a trade; an item in NonTraded stays
    Spells,
    None,                       \* no item
    NoTrade,                    \* a null m_trade
    NoMap,                      \* of a player who is not IsInWorld()
    MaxMoney,                   \* MAX_MONEY_AMOUNT
    InitialBag, InitialGold

ASSUME NullAssumption ==
    None \notin Items \cup Spells /\ NonTraded \notin TradedSlots /\ NoMap \notin Maps
ASSUME MoneyAssumption == MaxMoney \in Nat \ {0}
ASSUME StartAssumption ==
    /\ InitialGold \in [Players -> 0..MaxMoney]
    /\ InitialBag \in [Players -> SUBSET Items]
    /\ \A p, q \in Players : p # q => InitialBag[p] \cap InitialBag[q] = {}

VARIABLES
    online,         \* players whose Player object exists
    place,          \* per player: its map, or NoMap between two maps or without a Player
    m_trade,        \* per player: its TradeData, or NoTrade
    bag, gold,      \* per player: inventory, money
    seen,           \* history: the offers before a player who accepted, or NoTrade
    aimed,          \* history: the item under the partner's slot when a spell was set
    raced           \* history: two partners' handlers have run at once

goods == <<bag, gold>>
whereabouts == <<online, place, raced>>
vars == <<whereabouts, m_trade, goods, seen, aimed>>

Slots == TradedSlots \cup {NonTraded}
Purse == 0..MaxMoney
NoSpell == [id |-> None, castItem |-> None]
Cast == [id : Spells, castItem : Items \cup {None}] \cup {NoSpell}
TradeData ==
    [trader : Players, accepted : BOOLEAN, money : Purse, spell : Cast,
     items : [Slots -> Items \cup {None}]]

ASSUME NoTradeAssumption == NoTrade \notin TradeData

NewTradeData(q) ==
    [trader |-> q, accepted |-> FALSE, money |-> 0, spell |-> NoSpell,
     items |-> [s \in Slots |-> None]]

Init ==
    /\ online = Players
    /\ place \in [Players -> Maps]
    /\ m_trade = [p \in Players |-> NoTrade]
    /\ bag = InitialBag
    /\ gold = InitialGold
    /\ seen = [p \in Players |-> NoTrade]
    /\ aimed = [p \in Players |-> None]
    /\ raced = FALSE

-----------------------------------------------------------------------------
InWorld(p) == place[p] # NoMap
Trading(p) == m_trade[p] # NoTrade
Trader(p) == m_trade[p].trader
IsAccepted(p) == m_trade[p].accepted

\* TradeData::GetItem: the item, if its owner still has it.
GetItem(p, s) == IF m_trade[p].items[s] \in bag[p] THEN m_trade[p].items[s] ELSE None

\* The GUIDs p has put up, and the items among them that p still has.
Offered(p) == {m_trade[p].items[s] : s \in TradedSlots} \ {None}
Held(p) == Offered(p) \cap bag[p]

\* What p sees on the two sides of the window: how the terms are agreed on.
Window(p) ==
    LET q == Trader(p) IN
    [with |-> q, give |-> Offered(p), take |-> Offered(q),
     pay |-> m_trade[p].money, price |-> m_trade[q].money,
     spells |-> <<m_trade[p].spell, m_trade[q].spell>>,
     nonTraded |-> <<m_trade[p].items[NonTraded], m_trade[q].items[NonTraded]>>]

\* SetAccepted(false) of the players ps, and the history with it.
Forget(ps) ==
    seen' = [p \in Players |-> IF p \in ps THEN NoTrade ELSE seen[p]]

-----------------------------------------------------------------------------
(* Opening and cancelling. *)

\* HandleInitiateTradeOpcode, once nothing speaks against it; IsWithinDistInMap
\* asks for one map.
Initiate(p, q) ==
    /\ InWorld(p) /\ ~Trading(p)
    /\ q # p /\ ~Trading(q)
    /\ place[q] = place[p]
    /\ m_trade' = [m_trade EXCEPT ![p] = NewTradeData(q), ![q] = NewTradeData(p)]
    /\ UNCHANGED <<whereabouts, goods, seen, aimed>>

\* Mutant: the partner's side stays.
CloseBoth_OneSide(p) ==
    m_trade' = [m_trade EXCEPT ![p] = NoTrade]

\* Both TradeData are deleted.
CloseBoth(p) ==
    m_trade' = [m_trade EXCEPT ![p] = NoTrade, ![Trader(p)] = NoTrade]

\* Player::TradeCancel, from the opcode or the start of a taxi flight.
TradeCancel(p) ==
    /\ Trading(p)
    /\ CloseBoth(p)
    /\ Forget({p, Trader(p)})
    /\ aimed' = [aimed EXCEPT ![p] = None, ![Trader(p)] = None]
    /\ UNCHANGED <<whereabouts, goods>>

\* CleanupsBeforeDelete cancels, then the Player is deleted.
Leave(p) ==
    /\ p \in online
    /\ online' = online \ {p}
    /\ place' = [place EXCEPT ![p] = NoMap]
    /\ IF Trading(p)
       THEN /\ CloseBoth(p)
            /\ Forget({p, Trader(p)})
            /\ aimed' = [aimed EXCEPT ![p] = None, ![Trader(p)] = None]
       ELSE UNCHANGED <<m_trade, seen, aimed>>
    /\ UNCHANGED <<goods, raced>>

Enter(p) ==
    /\ p \notin online
    /\ online' = online \cup {p}
    /\ \E map \in Maps : place' = [place EXCEPT ![p] = map]
    /\ UNCHANGED <<m_trade, goods, seen, aimed, raced>>

\* Player::TeleportTo another map: the trade stays.
FarTeleport(p) ==
    /\ InWorld(p)
    /\ place' = [place EXCEPT ![p] = NoMap]
    /\ UNCHANGED <<online, m_trade, goods, seen, aimed, raced>>

\* HandleMoveWorldportAckOpcode.
Arrive(p) ==
    /\ p \in online /\ ~InWorld(p)
    /\ \E map \in Maps : place' = [place EXCEPT ![p] = map]
    /\ UNCHANGED <<online, m_trade, goods, seen, aimed, raced>>

\* Handlers of two partners in the threads of two maps.
Collide(p) ==
    /\ Trading(p)
    /\ InWorld(p) /\ InWorld(Trader(p)) /\ place[p] # place[Trader(p)]
    /\ \E gone \in SUBSET {p, Trader(p)} :
          m_trade' = [r \in Players |-> IF r \in gone THEN NoTrade ELSE m_trade[r]]
    /\ raced' = TRUE
    /\ UNCHANGED <<online, place, goods, seen, aimed>>

-----------------------------------------------------------------------------
(* The offers.  Every change takes back both acceptances. *)

\* Mutant: only the one who changes the offer has to accept again.
Unaccepted_Own(p) == {p}

\* A trade opcode of p finds its TradeData; all but HandleCancelTradeOpcode are
\* STATUS_LOGGEDIN, which asks for IsInWorld().
Handles(p) == Trading(p) /\ InWorld(p)

\* SetAccepted(false) of one's own side and the trader's.
Unaccepted(p) == {p, Trader(p)}

\* Mutant: a spell stays when the item it is meant for is exchanged.
LosesSpell_Own(p, s, r) == r = p

\* SetItem drops the player's own spell, and the trader's if the item it is for
\* has changed.
LosesSpell(p, s, r) == r = p \/ (r = Trader(p) /\ s = NonTraded)

SetItem(p, s, item) ==
    /\ m_trade[p].items[s] # item
    /\ m_trade' = [r \in Players |->
         IF r \notin {p, Trader(p)} THEN m_trade[r]
         ELSE [m_trade[r] EXCEPT
                 !.items = IF r = p THEN [@ EXCEPT ![s] = item] ELSE @,
                 !.accepted = @ /\ r \notin Unaccepted(p),
                 !.spell = IF LosesSpell(p, s, r) THEN NoSpell ELSE @]]
    /\ Forget(Unaccepted(p))
    /\ aimed' = [r \in Players |->
         IF r \in {p, Trader(p)} /\ LosesSpell(p, s, r) THEN None ELSE aimed[r]]
    /\ UNCHANGED <<whereabouts, goods>>

\* HandleSetTradeItemOpcode: an item of the inventory that is in no slot yet.
SetTradeItem(p, s, item) ==
    /\ Handles(p)
    /\ item \in bag[p]
    /\ \A t \in Slots : m_trade[p].items[t] # item
    /\ SetItem(p, s, item)

ClearTradeItem(p, s) ==
    /\ Handles(p)
    /\ SetItem(p, s, None)

\* HandleSetTradeGoldOpcode and TradeData::SetMoney.
SetMoney(p, money) ==
    /\ Handles(p)
    /\ m_trade[p].money # money
    /\ money <= gold[p]
    /\ m_trade' = [r \in Players |->
         IF r \notin {p, Trader(p)} THEN m_trade[r]
         ELSE [m_trade[r] EXCEPT !.money = IF r = p THEN money ELSE @,
                                 !.accepted = @ /\ r \notin Unaccepted(p)]]
    /\ Forget(Unaccepted(p))
    /\ UNCHANGED <<whereabouts, goods, aimed>>

\* TradeData::SetSpell with p's side ready to be changed.
SetSpell(p, spell) ==
    /\ m_trade[p].spell # spell
    /\ m_trade' = [r \in Players |->
         IF r \notin {p, Trader(p)} THEN m_trade[r]
         ELSE [m_trade[r] EXCEPT !.spell = IF r = p THEN spell ELSE @,
                                 !.accepted = @ /\ r \notin Unaccepted(p)]]
    /\ Forget(Unaccepted(p))
    /\ aimed' = [aimed EXCEPT ![p] =
                    IF spell = NoSpell THEN None ELSE m_trade[Trader(p)].items[NonTraded]]
    /\ UNCHANGED <<whereabouts, goods>>

\* Spell::CheckCast of a spell, perhaps an item's, at the trader's NonTraded slot.
CastInTrade(p, id, castItem) ==
    /\ Handles(p)
    /\ castItem \in bag[p] \cup {None}
    /\ SetSpell(p, [id |-> id, castItem |-> castItem])

-----------------------------------------------------------------------------
(* HandleAcceptTradeOpcode: the flag is set before the checks. *)

\* Not refused by the distance check: on one map, so in one thread.
Near(p) == Handles(p) /\ place[Trader(p)] = place[p]

MoneyOK(p) == m_trade[p].money <= gold[p]

\* The acceptances become those of yes; p has what it sees before its eyes.
SetAccepted(p, yes) ==
    /\ m_trade' = [r \in Players |->
         IF r \in {p, Trader(p)} THEN [m_trade[r] EXCEPT !.accepted = r \in yes] ELSE m_trade[r]]
    /\ seen' = [r \in Players |->
         IF r \notin {p, Trader(p)} THEN seen[r]
         ELSE IF r \notin yes THEN NoTrade
         ELSE IF r = p THEN Window(p) ELSE seen[r]]

Standing(p) == IF IsAccepted(Trader(p)) THEN {Trader(p)} ELSE {}

\* Too far away, or p does not have the money it offers.
AcceptUndone(p) ==
    /\ Handles(p)
    /\ SetAccepted(p, Standing(p))
    /\ UNCHANGED <<whereabouts, goods, aimed>>

\* The trader does not have the money: its acceptance goes, p's stays.
PartnerLacksMoney(p) ==
    /\ Near(p)
    /\ MoneyOK(p)
    /\ ~MoneyOK(Trader(p))
    /\ SetAccepted(p, {p})
    /\ UNCHANGED <<whereabouts, goods, aimed>>

\* Something offered can not be traded now: nothing happens, the flag stays.
NotTradable(p) ==
    /\ Near(p)
    /\ MoneyOK(p) /\ MoneyOK(Trader(p))
    /\ Held(p) \cup Held(Trader(p)) # {}
    /\ SetAccepted(p, {p} \cup Standing(p))
    /\ UNCHANGED <<whereabouts, goods, aimed>>

\* The trader has not accepted yet.
AcceptFirst(p) ==
    /\ Near(p)
    /\ MoneyOK(p) /\ MoneyOK(Trader(p))
    /\ ~IsAccepted(Trader(p))
    /\ SetAccepted(p, {p})
    /\ UNCHANGED <<whereabouts, goods, aimed>>

\* Mutant: it is not asked whether the other side has accepted.
BothAccept_NotAsked(p) ==
    /\ Near(p)
    /\ MoneyOK(p) /\ MoneyOK(Trader(p))

BothAccept(p) ==
    /\ Near(p)
    /\ MoneyOK(p) /\ MoneyOK(Trader(p))
    /\ IsAccepted(Trader(p))

\* A spell of p whose target or casting item is gone.
SpellVoid(p) ==
    /\ m_trade[p].spell # NoSpell
    /\ \/ GetItem(Trader(p), NonTraded) = None
       \/ m_trade[p].spell.castItem \notin bag[p] \cup {None}

\* The spell of p or, if that one is all right, of the trader can not be cast: it
\* is taken back, and with it both acceptances.
SpellFails(p, w) ==
    /\ BothAccept(p)
    /\ w \in {p, Trader(p)}
    /\ w # p => ~SpellVoid(p)
    /\ m_trade[w].spell # NoSpell
    /\ SetSpell(w, NoSpell)

\* One of the inventories has no room.
NoRoom(p) ==
    /\ BothAccept(p)
    /\ ~SpellVoid(p) /\ ~SpellVoid(Trader(p))
    /\ SetAccepted(p, {})
    /\ UNCHANGED <<whereabouts, goods, aimed>>

\* Mutant: only the lower end is looked at.
ModifyMoney_NoTop(purse, d) ==
    IF d < 0 /\ purse <= -d THEN 0 ELSE purse + d

\* Player::ModifyMoney.
ModifyMoney(purse, d) ==
    IF d < 0 THEN IF purse > -d THEN purse + d ELSE 0
    ELSE IF purse < MaxMoney - d THEN purse + d ELSE MaxMoney

\* Mutant: the trader's items are stored before they are removed.
Exchanged_Kept(p, q) ==
    [bag EXCEPT ![p] = (@ \ Held(p)) \cup Held(q), ![q] = @ \cup Held(p)]

\* First all items are removed, then stored with the other side.
Exchanged(p, q) ==
    [bag EXCEPT ![p] = (@ \ Held(p)) \cup Held(q), ![q] = (@ \ Held(q)) \cup Held(p)]

\* Nothing is in the way: the exchange, then both TradeData are deleted.
Complete(p) ==
    LET q == Trader(p) IN
    /\ BothAccept(p)
    /\ ~SpellVoid(p) /\ ~SpellVoid(q)
    /\ bag' = Exchanged(p, q)
    /\ gold' = [gold EXCEPT
         ![p] = ModifyMoney(ModifyMoney(@, -m_trade[p].money), m_trade[q].money),
         ![q] = ModifyMoney(ModifyMoney(@, -m_trade[q].money), m_trade[p].money)]
    /\ CloseBoth(p)
    /\ Forget({p, q})
    /\ aimed' = [aimed EXCEPT ![p] = None, ![q] = None]
    /\ UNCHANGED whereabouts

\* HandleUnacceptTradeOpcode.
Unaccept(p) ==
    /\ Handles(p)
    /\ SetAccepted(p, Standing(p))
    /\ UNCHANGED <<whereabouts, goods, aimed>>

-----------------------------------------------------------------------------
(* The rest of the game: it does not know of the trade. *)

Spend(p, left) ==
    /\ gold' = [gold EXCEPT ![p] = left]
    /\ UNCHANGED <<whereabouts, m_trade, bag, seen, aimed>>

\* An item is destroyed, used up, mailed, auctioned.
LoseItem(p, item) ==
    /\ item \in bag[p]
    /\ bag' = [bag EXCEPT ![p] = @ \ {item}]
    /\ UNCHANGED <<whereabouts, m_trade, gold, seen, aimed>>

\* One that nobody has comes back, out of the mail for instance.
GainItem(p, item) ==
    /\ \A q \in Players : item \notin bag[q]
    /\ bag' = [bag EXCEPT ![p] = @ \cup {item}]
    /\ UNCHANGED <<whereabouts, m_trade, gold, seen, aimed>>

-----------------------------------------------------------------------------
Act(p) ==
    \/ \E q \in Players : Initiate(p, q)
    \/ TradeCancel(p) \/ Leave(p) \/ Enter(p) \/ FarTeleport(p) \/ Arrive(p)
    \/ \E s \in Slots : ClearTradeItem(p, s) \/ \E i \in Items : SetTradeItem(p, s, i)
    \/ \E g \in Purse : SetMoney(p, g)
    \/ \E id \in Spells, c \in Items \cup {None} : CastInTrade(p, id, c)
    \/ AcceptUndone(p) \/ PartnerLacksMoney(p) \/ NotTradable(p) \/ AcceptFirst(p)
    \/ \E w \in Players : SpellFails(p, w)
    \/ NoRoom(p) \/ Complete(p) \/ Unaccept(p)
    \/ \E g \in Purse : Spend(p, g)
    \/ \E i \in Items : LoseItem(p, i) \/ GainItem(p, i)

Next == ~raced /\ \E p \in Players : Act(p) \/ Collide(p)

Spec == Init /\ [][Next]_vars

-----------------------------------------------------------------------------
(* Properties. *)

Seen ==
    [with : Players, give : SUBSET Items, take : SUBSET Items, pay : Purse, price : Purse,
     spells : Cast \X Cast, nonTraded : (Items \cup {None}) \X (Items \cup {None})]

\* The types of the variables; no purse is ever beyond MAX_MONEY_AMOUNT or below zero.
TypeOK ==
    /\ online \subseteq Players
    /\ place \in [Players -> Maps \cup {NoMap}]
    /\ m_trade \in [Players -> TradeData \cup {NoTrade}]
    /\ bag \in [Players -> SUBSET Items]
    /\ gold \in [Players -> Purse]
    /\ seen \in [Players -> Seen \cup {NoTrade}]
    /\ aimed \in [Players -> Items \cup {None}]
    /\ raced \in BOOLEAN

\* Until handlers of two partners run at once, the TradeData of the two traders point
\* at each other, and at a Player that has not been deleted: GetTrader() and
\* GetTraderData() are used without a check, over far teleports and logouts too.
Paired ==
    ~raced => \A p \in Players : Trading(p) =>
        /\ Trader(p) # p
        /\ {p, Trader(p)} \subseteq online
        /\ Trading(Trader(p))
        /\ Trader(Trader(p)) = p

\* A standing acceptance is of the offers as they are now: the handlers that return
\* after the flag was set, and every change of either side, leave none behind.
AcceptedAsSeen ==
    ~raced => \A p \in Players : (Trading(p) /\ IsAccepted(p)) => seen[p] = Window(p)

\* The spell that will be cast when the trade is completed is cast at the item that lay
\* in the trader's NonTraded slot when it was chosen.
SpellTargetKept ==
    ~raced => \A p \in Players : (Trading(p) /\ m_trade[p].spell # NoSpell) =>
        aimed[p] = m_trade[Trader(p)].items[NonTraded]

\* No item is in two inventories, whatever was offered, lost or exchanged.
OneOwner ==
    \A p, q \in Players : p # q => bag[p] \cap bag[q] = {}

\* What a player has consented to.
Consent ==
    [p \in Players |->
        IF Trading(p) /\ IsAccepted(p)
        THEN [with |-> seen[p].with, give |-> seen[p].give, take |-> seen[p].take,
              pay |-> seen[p].pay, price |-> seen[p].price]
        ELSE NoTrade]

Promise == INSTANCE Exchange WITH consent <- Consent, NoConsent <- NoTrade

ASSUME NoConsentAssumption == NoTrade \notin Promise!Terms

\* Goods pass between players only in one step for both sides and only as the side that
\* accepted first has seen them.
ExchangeSpec == Promise!Spec

=============================================================================
