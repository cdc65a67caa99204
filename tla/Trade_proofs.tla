---------------------------- MODULE Trade_proofs ----------------------------
(***************************************************************************)
(* Proofs about Trade, for any players, items, slots and spells.           *)
(***************************************************************************)
EXTENDS Trade, TLAPS

\* The part of the invariant that every other part needs: without Paired a handler
\* would change the fields of a TradeData that is not there.
Sound ==
    /\ ~raced
    /\ TypeOK
    /\ \A p \in Players : InWorld(p) => p \in online
    /\ Paired

-----------------------------------------------------------------------------
(* What a handler may rely on once it has found its player's TradeData. *)

LEMMA Traders ==
    ASSUME Sound, NEW p \in Players, Trading(p)
    PROVE  /\ m_trade[p] \in TradeData
           /\ Trader(p) \in Players /\ Trader(p) # p
           /\ Trading(Trader(p))
           /\ m_trade[Trader(p)] \in TradeData
           /\ Trader(Trader(p)) = p
           /\ {p, Trader(p)} \subseteq online
<1>1. m_trade[p] \in TradeData
  BY DEF Sound, TypeOK, Trading
<1>2. Trader(p) \in Players
  BY <1>1 DEF TradeData, Trader
<1>3. /\ Trader(p) # p /\ Trading(Trader(p)) /\ Trader(Trader(p)) = p
      /\ {p, Trader(p)} \subseteq online
  BY DEF Sound, Paired
<1>4. m_trade[Trader(p)] \in TradeData
  BY <1>2, <1>3 DEF Sound, TypeOK, Trading
<1> QED  BY <1>1, <1>2, <1>3, <1>4

\* No third player is at the same time in a trade with one of the two.
LEMMA Apart ==
    ASSUME Sound, NEW p \in Players, Trading(p),
           NEW r \in Players, Trading(r), r \notin {p, Trader(p)}
    PROVE  Trader(r) \notin {p, Trader(p)}
BY Traders

\* A step that opens and closes no trade and changes no partner keeps the pairs.
LEMMA PairsKept ==
    ASSUME Sound, UNCHANGED whereabouts,
           \A r \in Players : /\ Trading(r)' <=> Trading(r)
                              /\ Trading(r) => Trader(r)' = Trader(r)
    PROVE  Paired'
<1> SUFFICES ASSUME NEW p \in Players, Trading(p)'
             PROVE  /\ m_trade'[p].trader \in online \ {p}
                    /\ p \in online
                    /\ m_trade'[m_trade'[p].trader] # NoTrade
                    /\ m_trade'[m_trade'[p].trader].trader = p
  BY DEF Paired, Trading, Trader, whereabouts
<1>1. Trading(p) /\ m_trade'[p].trader = Trader(p)
  BY DEF Trader
<1>2. /\ Trader(p) \in Players /\ Trader(p) # p /\ Trading(Trader(p))
      /\ Trader(Trader(p)) = p /\ p \in online /\ Trader(p) \in online
  BY <1>1, Traders
<1>3. m_trade'[Trader(p)] # NoTrade /\ m_trade'[Trader(p)].trader = p
  BY <1>1, <1>2 DEF Trading, Trader
<1> QED  BY <1>1, <1>2, <1>3

\* A handler that changes nothing but the fields of the two TradeData, trader aside.
LEMMA Amended ==
    ASSUME Sound, NEW p \in Players, Trading(p), UNCHANGED whereabouts,
           m_trade' = [r \in Players |-> m_trade'[r]],
           \A r \in Players \ {p, Trader(p)} : m_trade'[r] = m_trade[r],
           \A r \in {p, Trader(p)} : /\ m_trade'[r] \in TradeData
                                     /\ m_trade'[r].trader = m_trade[r].trader
    PROVE  /\ m_trade' \in [Players -> TradeData \cup {NoTrade}]
           /\ Paired'
           /\ \A r \in Players : /\ Trading(r)' <=> Trading(r)
                                 /\ Trading(r) => Trader(r)' = Trader(r)
<1>1. m_trade' \in [Players -> TradeData \cup {NoTrade}]
  <2> SUFFICES ASSUME NEW r \in Players PROVE m_trade'[r] \in TradeData \cup {NoTrade}
    OBVIOUS
  <2> QED  BY DEF Sound, TypeOK
<1>2. ASSUME NEW r \in Players
      PROVE  /\ Trading(r)' <=> Trading(r)
             /\ Trading(r) => Trader(r)' = Trader(r)
  <2>1. CASE r \in {p, Trader(p)}
    BY <2>1, Traders, NoTradeAssumption DEF Trading, Trader
  <2>2. CASE r \notin {p, Trader(p)}
    BY <2>2 DEF Trading, Trader
  <2> QED  BY <2>1, <2>2
<1> QED  BY <1>1, <1>2, PairsKept

-----------------------------------------------------------------------------
(* The invariant, as long as no two partners' handlers have run at once. *)

Orderly == Sound /\ AcceptedAsSeen /\ SpellTargetKept

LEMMA WindowType ==
    ASSUME Sound, NEW p \in Players, Trading(p)
    PROVE  Window(p) \in Seen
<1> DEFINE q == Trader(p)
<1>1. m_trade[p] \in TradeData /\ m_trade[q] \in TradeData /\ q \in Players
  BY Traders
<1>2. Offered(p) \in SUBSET Items /\ Offered(q) \in SUBSET Items
  BY <1>1 DEF Offered, TradeData, Slots
<1>3. NonTraded \in Slots
  BY DEF Slots
<1> QED  BY <1>1, <1>2, <1>3 DEF Window, Seen, TradeData

\* What remains to be shown of such a handler when it does not touch the goods.
LEMMA AmendedInv ==
    ASSUME Orderly, NEW p \in Players, Trading(p), UNCHANGED <<whereabouts, goods>>,
           m_trade' = [r \in Players |-> m_trade'[r]],
           seen' \in [Players -> Seen \cup {NoTrade}],
           aimed' \in [Players -> Items \cup {None}],
           \A r \in Players \ {p, Trader(p)} :
               m_trade'[r] = m_trade[r] /\ seen'[r] = seen[r] /\ aimed'[r] = aimed[r],
           \A r \in {p, Trader(p)} :
               /\ m_trade'[r] \in TradeData
               /\ m_trade'[r].trader = m_trade[r].trader
               /\ m_trade'[r].accepted => seen'[r] = Window(r)'
               /\ m_trade'[r].spell # NoSpell =>
                     aimed'[r] = m_trade'[m_trade[r].trader].items[NonTraded]
    PROVE  Orderly'
<1> USE DEF Orderly
<1>1. /\ m_trade' \in [Players -> TradeData \cup {NoTrade}]
      /\ Paired'
      /\ \A r \in Players : /\ Trading(r)' <=> Trading(r)
                            /\ Trading(r) => Trader(r)' = Trader(r)
  BY Amended
<1>2. TypeOK'
  BY <1>1 DEF Sound, TypeOK, goods, whereabouts
<1>3. ASSUME NEW r \in Players, Trading(r)', IsAccepted(r)' PROVE seen'[r] = Window(r)'
  <2>1. CASE r \in {p, Trader(p)}
    BY <2>1, <1>3 DEF IsAccepted
  <2>2. CASE r \notin {p, Trader(p)}
    <3>1. Trading(r) /\ IsAccepted(r) /\ m_trade'[r] = m_trade[r] /\ Trader(r) \in Players
      BY <2>2, <1>1, <1>3, Traders DEF IsAccepted
    <3>2. m_trade'[Trader(r)] = m_trade[Trader(r)]
      BY <3>1, <2>2, Apart
    <3>3. Window(r)' = Window(r)
      <4>1. Offered(r)' = Offered(r)
        BY <3>1 DEF Offered
      <4>2. Trader(r)' = Trader(r)
        BY <3>1 DEF Trader
      <4>3. Offered(Trader(r))' = Offered(Trader(r))
        BY <3>2, <4>2 DEF Offered
      <4> QED  BY <3>1, <3>2, <4>1, <4>2, <4>3 DEF Window
    <3> QED  BY <3>1, <3>3, <2>2 DEF AcceptedAsSeen, Sound
  <2> QED  BY <2>1, <2>2
<1>4. ASSUME NEW r \in Players, Trading(r)', m_trade'[r].spell # NoSpell
      PROVE  aimed'[r] = m_trade'[m_trade'[r].trader].items[NonTraded]
  <2>1. CASE r \in {p, Trader(p)}
    BY <2>1, <1>4
  <2>2. CASE r \notin {p, Trader(p)}
    <3>1. Trading(r) /\ m_trade'[r] = m_trade[r] /\ Trader(r) \in Players
      BY <2>2, <1>1, <1>4, Traders
    <3>2. m_trade'[Trader(r)] = m_trade[Trader(r)]
      BY <3>1, <2>2, Apart
    <3> QED  BY <1>4, <3>1, <3>2, <2>2 DEF SpellTargetKept, Trader, Sound
  <2> QED  BY <2>1, <2>2
<1>5. AcceptedAsSeen'
  BY <1>3 DEF AcceptedAsSeen
<1>6. SpellTargetKept'
  BY <1>4 DEF SpellTargetKept, Trader
<1> QED  BY <1>1, <1>2, <1>5, <1>6 DEF Sound, whereabouts, InWorld

-----------------------------------------------------------------------------
(* The handlers that change the offers or the acceptances. *)

LEMMA SetItemStep ==
    ASSUME Orderly, NEW p \in Players, Trading(p), NEW s \in Slots,
           NEW item \in Items \cup {None}, SetItem(p, s, item)
    PROVE  Orderly'
<1> DEFINE q == Trader(p)
<1>1. /\ m_trade[p] \in TradeData /\ m_trade[q] \in TradeData
      /\ q \in Players /\ q # p /\ Trader(q) = p
  BY Traders DEF Orderly
<1>2. NoSpell \in Cast
  BY DEF Cast
<1>3. NonTraded \in Slots
  BY DEF Slots
<1>4. /\ seen' = [r \in Players |-> IF r \in {p, q} THEN NoTrade ELSE seen[r]]
      /\ UNCHANGED <<whereabouts, goods>>
  BY DEF SetItem, Forget, Unaccepted
<1>5. m_trade'[p] = [m_trade[p] EXCEPT !.items = [@ EXCEPT ![s] = item],
                                       !.accepted = FALSE, !.spell = NoSpell]
  BY <1>1 DEF SetItem, Unaccepted, LosesSpell, TradeData
<1>6. m_trade'[q] = [m_trade[q] EXCEPT !.accepted = FALSE,
                                       !.spell = IF s = NonTraded THEN NoSpell ELSE @]
  BY <1>1 DEF SetItem, Unaccepted, LosesSpell, TradeData
<1>7. aimed' = [r \in Players |->
                  IF r = p \/ (r = q /\ s = NonTraded) THEN None ELSE aimed[r]]
  BY <1>1 DEF SetItem, LosesSpell
<1>8. \A r \in Players \ {p, q} :
        m_trade'[r] = m_trade[r] /\ seen'[r] = seen[r] /\ aimed'[r] = aimed[r]
  BY <1>4, <1>7 DEF SetItem
<1>9. m_trade'[p] \in TradeData /\ m_trade'[q] \in TradeData
  <2>1. [m_trade[p].items EXCEPT ![s] = item] \in [Slots -> Items \cup {None}]
    BY <1>1 DEF TradeData
  <2>2. m_trade'[p] \in TradeData
    BY <1>1, <1>2, <1>5, <2>1 DEF TradeData
  <2>3. m_trade'[q] \in TradeData
    BY <1>1, <1>2, <1>6 DEF TradeData
  <2> QED  BY <2>2, <2>3
<1>10. m_trade'[q].spell # NoSpell =>
         aimed'[q] = m_trade'[m_trade[q].trader].items[NonTraded]
  <2> SUFFICES ASSUME m_trade'[q].spell # NoSpell
               PROVE  aimed'[q] = m_trade'[p].items[NonTraded]
    BY <1>1 DEF Trader
  <2>1. s # NonTraded /\ m_trade[q].spell # NoSpell
    BY <1>1, <1>6 DEF TradeData
  <2>2. aimed[q] = m_trade[p].items[NonTraded]
    BY <2>1, <1>1, NoTradeAssumption DEF Orderly, Sound, SpellTargetKept, Trading
  <2>3. m_trade'[p].items[NonTraded] = m_trade[p].items[NonTraded]
    BY <2>1, <1>1, <1>3, <1>5 DEF TradeData
  <2> QED  BY <1>1, <1>7, <2>1, <2>2, <2>3
<1>11. /\ m_trade'[p].trader = m_trade[p].trader /\ m_trade'[q].trader = m_trade[q].trader
       /\ ~m_trade'[p].accepted /\ ~m_trade'[q].accepted
       /\ m_trade'[p].spell = NoSpell
  BY <1>1, <1>5, <1>6 DEF TradeData
<1>12. /\ seen' \in [Players -> Seen \cup {NoTrade}]
       /\ aimed' \in [Players -> Items \cup {None}]
  BY <1>4, <1>7 DEF Orderly, Sound, TypeOK
<1>13. m_trade' = [r \in Players |-> m_trade'[r]]
  BY DEF SetItem
<1> QED  BY <1>4, <1>8, <1>9, <1>10, <1>11, <1>12, <1>13, AmendedInv

LEMMA SetMoneyStep ==
    ASSUME Orderly, NEW p \in Players, NEW money \in Purse, SetMoney(p, money)
    PROVE  Orderly'
<1> DEFINE q == Trader(p)
<1>1. /\ m_trade[p] \in TradeData /\ m_trade[q] \in TradeData /\ Trading(p)
      /\ q \in Players /\ q # p /\ Trader(q) = p /\ Trading(q)
  BY Traders DEF Orderly, SetMoney, Handles
<1>2. /\ seen' = [r \in Players |-> IF r \in {p, q} THEN NoTrade ELSE seen[r]]
      /\ UNCHANGED <<whereabouts, goods, aimed>>
  BY DEF SetMoney, Forget, Unaccepted
<1>3. /\ m_trade'[p] = [m_trade[p] EXCEPT !.money = money, !.accepted = FALSE]
      /\ m_trade'[q] = [m_trade[q] EXCEPT !.accepted = FALSE]
  BY <1>1 DEF SetMoney, Unaccepted, TradeData
<1>4. \A r \in Players \ {p, q} :
        m_trade'[r] = m_trade[r] /\ seen'[r] = seen[r] /\ aimed'[r] = aimed[r]
  BY <1>2 DEF SetMoney
<1>5. \A r \in {p, q} :
        /\ m_trade'[r] \in TradeData
        /\ m_trade'[r].trader = m_trade[r].trader
        /\ ~m_trade'[r].accepted
        /\ m_trade'[r].spell = m_trade[r].spell
        /\ m_trade'[r].items = m_trade[r].items
  <2>1. m_trade'[p] \in TradeData
    BY <1>1, <1>3 DEF TradeData
  <2>2. m_trade'[q] \in TradeData
    BY <1>1, <1>3 DEF TradeData
  <2>3. /\ m_trade'[p].trader = m_trade[p].trader /\ ~m_trade'[p].accepted
        /\ m_trade'[p].spell = m_trade[p].spell /\ m_trade'[p].items = m_trade[p].items
    BY <1>1, <1>3 DEF TradeData
  <2>4. /\ m_trade'[q].trader = m_trade[q].trader /\ ~m_trade'[q].accepted
        /\ m_trade'[q].spell = m_trade[q].spell /\ m_trade'[q].items = m_trade[q].items
    BY <1>1, <1>3 DEF TradeData
  <2> QED  BY <2>1, <2>2, <2>3, <2>4
<1>6. ASSUME NEW r \in {p, q}, m_trade'[r].spell # NoSpell
      PROVE  aimed'[r] = m_trade'[m_trade[r].trader].items[NonTraded]
  <2>1. aimed[r] = m_trade[m_trade[r].trader].items[NonTraded]
    BY <1>1, <1>5, <1>6 DEF Orderly, Sound, SpellTargetKept, Trader
  <2>2. m_trade[r].trader \in {p, q}
    BY <1>1 DEF Trader
  <2> QED  BY <1>2, <1>5, <2>1, <2>2
<1>7. /\ seen' \in [Players -> Seen \cup {NoTrade}]
      /\ aimed' \in [Players -> Items \cup {None}]
  BY <1>2 DEF Orderly, Sound, TypeOK
<1>8. m_trade' = [r \in Players |-> m_trade'[r]]
  BY DEF SetMoney
<1> QED  BY <1>1, <1>2, <1>4, <1>5, <1>6, <1>7, <1>8, AmendedInv

LEMMA SetSpellStep ==
    ASSUME Orderly, NEW p \in Players, Trading(p), NEW spell \in Cast, SetSpell(p, spell)
    PROVE  Orderly'
<1> DEFINE q == Trader(p)
<1>1. /\ m_trade[p] \in TradeData /\ m_trade[q] \in TradeData
      /\ q \in Players /\ q # p /\ Trader(q) = p /\ Trading(q)
  BY Traders DEF Orderly
<1>2. /\ seen' = [r \in Players |-> IF r \in {p, q} THEN NoTrade ELSE seen[r]]
      /\ UNCHANGED <<whereabouts, goods>>
  BY DEF SetSpell, Forget, Unaccepted
<1>3. /\ m_trade'[p] = [m_trade[p] EXCEPT !.spell = spell, !.accepted = FALSE]
      /\ m_trade'[q] = [m_trade[q] EXCEPT !.accepted = FALSE]
  BY <1>1 DEF SetSpell, Unaccepted, TradeData
<1>4. aimed' = [r \in Players |->
                  IF r # p THEN aimed[r]
                  ELSE IF spell = NoSpell THEN None ELSE m_trade[q].items[NonTraded]]
  BY <1>1 DEF SetSpell, Orderly, Sound, TypeOK
<1>5. \A r \in Players \ {p, q} :
        m_trade'[r] = m_trade[r] /\ seen'[r] = seen[r] /\ aimed'[r] = aimed[r]
  BY <1>2, <1>4 DEF SetSpell
<1>6. m_trade'[p] \in TradeData
  BY <1>1, <1>3 DEF TradeData
<1>7. m_trade'[q] \in TradeData
  BY <1>1, <1>3 DEF TradeData
<1>8. /\ \A r \in {p, q} : /\ m_trade'[r].trader = m_trade[r].trader
                           /\ ~m_trade'[r].accepted
                           /\ m_trade'[r].items = m_trade[r].items
      /\ m_trade'[p].spell = spell
      /\ m_trade'[q].spell = m_trade[q].spell
  <2>1. /\ m_trade'[p].trader = m_trade[p].trader /\ ~m_trade'[p].accepted
        /\ m_trade'[p].items = m_trade[p].items /\ m_trade'[p].spell = spell
    BY <1>1, <1>3 DEF TradeData
  <2>2. /\ m_trade'[q].trader = m_trade[q].trader /\ ~m_trade'[q].accepted
        /\ m_trade'[q].items = m_trade[q].items /\ m_trade'[q].spell = m_trade[q].spell
    BY <1>1, <1>3 DEF TradeData
  <2> QED  BY <2>1, <2>2
<1>9. ASSUME m_trade'[p].spell # NoSpell
      PROVE  aimed'[p] = m_trade'[m_trade[p].trader].items[NonTraded]
  BY <1>1, <1>4, <1>8, <1>9 DEF Trader
<1>10. ASSUME m_trade'[q].spell # NoSpell
       PROVE  aimed'[q] = m_trade'[m_trade[q].trader].items[NonTraded]
  <2>1. aimed[q] = m_trade[p].items[NonTraded]
    BY <1>1, <1>8, <1>10 DEF Orderly, Sound, SpellTargetKept
  <2> QED  BY <1>1, <1>4, <1>8, <2>1 DEF Trader
<1>11. m_trade[q].items[NonTraded] \in Items \cup {None}
  BY <1>1 DEF TradeData, Slots
<1>12. /\ seen' \in [Players -> Seen \cup {NoTrade}]
       /\ aimed' \in [Players -> Items \cup {None}]
  BY <1>2, <1>4, <1>11 DEF Orderly, Sound, TypeOK
<1>13. m_trade' = [r \in Players |-> m_trade'[r]]
  BY DEF SetSpell
<1> QED  BY <1>2, <1>5, <1>6, <1>7, <1>8, <1>9, <1>10, <1>12, <1>13, AmendedInv

\* The trader's acceptance may stand, as Standing(p) has it, but never come to be.
LEMMA SetAcceptedStep ==
    ASSUME Orderly, NEW p \in Players, Trading(p), NEW yes \in SUBSET ({p} \cup Standing(p)),
           SetAccepted(p, yes), UNCHANGED <<whereabouts, goods, aimed>>
    PROVE  Orderly'
<1> PICK q \in Players : q = Trader(p)
  BY Traders DEF Orderly
<1>1. /\ m_trade[p] \in TradeData /\ m_trade[q] \in TradeData
      /\ q \in Players /\ q # p /\ Trader(q) = p /\ Trading(q)
  BY Traders DEF Orderly
<1> PICK a \in BOOLEAN, b \in BOOLEAN : (a <=> p \in yes) /\ (b <=> q \in yes)
  OBVIOUS
<1>2. /\ m_trade'[p] = [m_trade[p] EXCEPT !.accepted = a]
      /\ m_trade'[q] = [m_trade[q] EXCEPT !.accepted = b]
  BY <1>1 DEF SetAccepted
<1>3. m_trade'[p] \in TradeData
  BY <1>1, <1>2 DEF TradeData
<1>4. m_trade'[q] \in TradeData
  BY <1>1, <1>2 DEF TradeData
<1>5. /\ \A r \in {p, q} : /\ m_trade'[r].trader = m_trade[r].trader
                           /\ m_trade'[r].money = m_trade[r].money
                           /\ m_trade'[r].spell = m_trade[r].spell
                           /\ m_trade'[r].items = m_trade[r].items
      /\ m_trade'[p].accepted = a
      /\ m_trade'[q].accepted = b
  BY <1>1, <1>2 DEF TradeData
<1>6. \A r \in {p, q} : Window(r)' = Window(r)
  <2> TAKE r \in {p, q}
  <2>1. Trader(r)' = Trader(r) /\ Trader(r) \in {p, q}
    BY <1>1, <1>5 DEF Trader
  <2>2. Offered(r)' = Offered(r)
    BY <1>5 DEF Offered
  <2>3. Offered(Trader(r))' = Offered(Trader(r))
    BY <1>5, <2>1 DEF Offered
  <2> QED  BY <1>5, <2>1, <2>2, <2>3 DEF Window
<1>7. seen' = [r \in Players |-> IF r \notin {p, q} THEN seen[r]
                                 ELSE IF r \notin yes THEN NoTrade
                                 ELSE IF r = p THEN Window(p) ELSE seen[r]]
  BY DEF SetAccepted
<1>8. m_trade'[p].accepted => seen'[p] = Window(p)'
  BY <1>5, <1>6, <1>7
<1>9. ASSUME m_trade'[q].accepted PROVE seen'[q] = Window(q)'
  <2>1. IsAccepted(q) /\ seen'[q] = seen[q]
    BY <1>1, <1>5, <1>7, <1>9 DEF Standing
  <2>2. seen[q] = Window(q)
    BY <1>1, <2>1 DEF Orderly, Sound, AcceptedAsSeen
  <2>3. Window(q)' = Window(q)
    BY <1>6
  <2> QED  BY <2>1, <2>2, <2>3
<1>10. \A r \in Players \ {p, q} :
         m_trade'[r] = m_trade[r] /\ seen'[r] = seen[r] /\ aimed'[r] = aimed[r]
  BY <1>7 DEF SetAccepted
<1>11. ASSUME NEW r \in {p, q}, m_trade'[r].spell # NoSpell
       PROVE  aimed'[r] = m_trade'[m_trade[r].trader].items[NonTraded]
  <2>1. aimed[r] = m_trade[m_trade[r].trader].items[NonTraded]
    BY <1>1, <1>5, <1>11 DEF Orderly, Sound, SpellTargetKept, Trader
  <2>2. m_trade[r].trader \in {p, q}
    BY <1>1 DEF Trader
  <2> QED  BY <1>5, <2>1, <2>2
<1>12. /\ seen' \in [Players -> Seen \cup {NoTrade}]
       /\ aimed' \in [Players -> Items \cup {None}]
  BY <1>7, WindowType DEF Orderly, Sound, TypeOK
<1>13. m_trade' = [r \in Players |-> m_trade'[r]]
  BY DEF SetAccepted
<1> QED  BY <1>3, <1>4, <1>5, <1>8, <1>9, <1>10, <1>11, <1>12, <1>13, AmendedInv

-----------------------------------------------------------------------------
(* Opening and closing; changes of the goods. *)

\* Steps that touch neither a trade nor the world.
LEMMA GoodsStep ==
    ASSUME Orderly, UNCHANGED <<whereabouts, m_trade, seen, aimed>>,
           bag' \in [Players -> SUBSET Items], gold' \in [Players -> Purse]
    PROVE  Orderly'
<1> USE DEF whereabouts
<1>1. TypeOK'
  BY DEF Orderly, Sound, TypeOK
<1>2. Paired'
  BY DEF Orderly, Sound, Paired, Trading, Trader
<1>3. \A p \in Players : Window(p)' = Window(p)
  BY DEF Window, Offered, Trader
<1>4. AcceptedAsSeen'
  BY <1>3 DEF Orderly, Sound, AcceptedAsSeen, Trading, IsAccepted
<1>5. SpellTargetKept'
  BY DEF Orderly, Sound, SpellTargetKept, Trading, Trader
<1> QED  BY <1>1, <1>2, <1>4, <1>5 DEF Orderly, Sound, InWorld

\* Players come and go, and the offers stay.
LEMMA OffersStand ==
    ASSUME Orderly, UNCHANGED <<m_trade, seen, aimed, raced>>, TypeOK', Paired',
           \A r \in Players : InWorld(r)' => r \in online'
    PROVE  Orderly'
<1>1. \A r \in Players : Window(r)' = Window(r)
  BY DEF Window, Offered, Trader
<1>2. AcceptedAsSeen'
  BY <1>1 DEF Orderly, Sound, AcceptedAsSeen, Trading, IsAccepted
<1>3. SpellTargetKept'
  BY DEF Orderly, Sound, SpellTargetKept, Trading, Trader
<1> QED  BY <1>2, <1>3 DEF Orderly, Sound

\* A trade ends for both sides, whatever becomes of the goods; a player may leave.
LEMMA CloseStep ==
    ASSUME Orderly, NEW p \in Players, Trading(p), CloseBoth(p), Forget({p, Trader(p)}),
           aimed' = [aimed EXCEPT ![p] = None, ![Trader(p)] = None],
           \/ UNCHANGED whereabouts
           \/ /\ online' = online \ {p} /\ place' = [place EXCEPT ![p] = NoMap]
              /\ UNCHANGED raced,
           bag' \in [Players -> SUBSET Items], gold' \in [Players -> Purse]
    PROVE  Orderly'
<1> PICK q \in Players : q = Trader(p)
  BY Traders DEF Orderly
<1>1. /\ m_trade' = [m_trade EXCEPT ![p] = NoTrade, ![q] = NoTrade]
      /\ seen' = [r \in Players |-> IF r \in {p, q} THEN NoTrade ELSE seen[r]]
      /\ aimed' = [aimed EXCEPT ![p] = None, ![q] = None]
  BY DEF CloseBoth, Forget
<1>2. TypeOK' /\ UNCHANGED raced
  BY <1>1 DEF Orderly, Sound, TypeOK, whereabouts
<1>3. ASSUME NEW r \in Players, Trading(r)'
      PROVE  /\ r \notin {p, q} /\ Trading(r)
             /\ Trader(r) \in Players /\ Trader(r) # r /\ Trader(r) \notin {p, q}
             /\ Trading(Trader(r)) /\ Trader(Trader(r)) = r
             /\ r \in online' /\ Trader(r) \in online'
             /\ m_trade'[r] = m_trade[r] /\ m_trade'[Trader(r)] = m_trade[Trader(r)]
             /\ seen'[r] = seen[r] /\ aimed'[r] = aimed[r]
  <2>1. r \notin {p, q} /\ Trading(r)
    BY <1>1, <1>3 DEF Trading, Orderly, Sound, TypeOK
  <2>2. Trader(r) \notin {p, q}
    BY <2>1, Apart DEF Orderly
  <2>3. /\ Trader(r) \in Players /\ Trader(r) # r /\ Trading(Trader(r))
        /\ Trader(Trader(r)) = r /\ r \in online /\ Trader(r) \in online
    BY <2>1, Traders DEF Orderly
  <2> QED  BY <1>1, <2>1, <2>2, <2>3 DEF Orderly, Sound, TypeOK, whereabouts
<1>4. Paired'
  BY <1>3 DEF Paired, Trading, Trader
<1>5. ASSUME NEW r \in Players, Trading(r)', IsAccepted(r)' PROVE seen'[r] = Window(r)'
  <2>1. Trader(r)' = Trader(r) /\ Offered(r)' = Offered(r)
    BY <1>3, <1>5 DEF Trader, Offered
  <2>2. Offered(Trader(r))' = Offered(Trader(r))
    BY <1>3, <1>5, <2>1 DEF Offered
  <2>3. Window(r)' = Window(r)
    BY <1>3, <1>5, <2>1, <2>2 DEF Window
  <2> QED  BY <1>3, <1>5, <2>3 DEF Orderly, Sound, AcceptedAsSeen, IsAccepted
<1>6. AcceptedAsSeen'
  BY <1>5 DEF AcceptedAsSeen
<1>7. SpellTargetKept'
  <2> SUFFICES ASSUME NEW r \in Players, Trading(r)', m_trade'[r].spell # NoSpell
               PROVE  aimed'[r] = m_trade'[m_trade'[r].trader].items[NonTraded]
    BY DEF SpellTargetKept, Trader
  <2>1. aimed[r] = m_trade[Trader(r)].items[NonTraded]
    BY <1>3 DEF Orderly, Sound, SpellTargetKept
  <2> QED  BY <1>3, <2>1 DEF Trader
<1>8. \A r \in Players : InWorld(r)' => r \in online'
  BY DEF Orderly, Sound, TypeOK, InWorld, whereabouts
<1> QED  BY <1>2, <1>4, <1>6, <1>7, <1>8 DEF Orderly, Sound

LEMMA InitiateStep ==
    ASSUME Orderly, NEW p \in Players, NEW q \in Players, Initiate(p, q)
    PROVE  Orderly'
<1>1. NewTradeData(q) \in TradeData /\ NewTradeData(p) \in TradeData
  BY MoneyAssumption DEF NewTradeData, TradeData, Purse, Cast
<1>2. /\ m_trade' = [m_trade EXCEPT ![p] = NewTradeData(q), ![q] = NewTradeData(p)]
      /\ p # q /\ p \in online /\ q \in online
      /\ UNCHANGED <<online, place, raced, bag, gold, seen, aimed>>
  BY DEF Initiate, goods, whereabouts, InWorld, Orderly, Sound
<1>3. TypeOK'
  BY <1>1, <1>2 DEF Orderly, Sound, TypeOK
<1>4. m_trade'[p] = NewTradeData(q) /\ m_trade'[q] = NewTradeData(p)
  BY <1>2 DEF Orderly, Sound, TypeOK
<1>5. \A r \in {p, q} : /\ m_trade'[r] # NoTrade
                        /\ ~m_trade'[r].accepted /\ m_trade'[r].spell = NoSpell
  BY <1>1, <1>4, NoTradeAssumption DEF NewTradeData
<1>6. m_trade'[p].trader = q /\ m_trade'[q].trader = p
  BY <1>4 DEF NewTradeData
<1>7. ASSUME NEW r \in Players \ {p, q}, Trading(r)'
      PROVE  /\ Trading(r) /\ Trader(r) \in Players \ {p, q} /\ Trader(r) # r
             /\ Trading(Trader(r)) /\ Trader(Trader(r)) = r
             /\ r \in online /\ Trader(r) \in online
             /\ m_trade'[r] = m_trade[r] /\ m_trade'[Trader(r)] = m_trade[Trader(r)]
  <2>1. m_trade'[r] = m_trade[r] /\ Trading(r)
    BY <1>2, <1>7 DEF Trading, Orderly, Sound, TypeOK
  <2>2. /\ Trader(r) \in Players /\ Trader(r) # r /\ Trading(Trader(r))
        /\ Trader(Trader(r)) = r /\ r \in online /\ Trader(r) \in online
    BY <2>1, Traders DEF Orderly
  <2>3. Trader(r) \notin {p, q}
    BY <2>2 DEF Initiate
  <2> QED  BY <1>2, <2>1, <2>2, <2>3 DEF Orderly, Sound, TypeOK
<1>8. Paired'
  <2> SUFFICES ASSUME NEW r \in Players, Trading(r)'
               PROVE  /\ m_trade'[r].trader \in online \ {r}
                      /\ r \in online
                      /\ m_trade'[m_trade'[r].trader] # NoTrade
                      /\ m_trade'[m_trade'[r].trader].trader = r
    BY <1>2 DEF Paired, Trading, Trader
  <2>1. CASE r \in {p, q}
    BY <2>1, <1>2, <1>5, <1>6
  <2>2. CASE r \notin {p, q}
    BY <2>2, <1>7 DEF Trading, Trader
  <2> QED  BY <2>1, <2>2
<1>9. ASSUME NEW r \in Players, Trading(r)', IsAccepted(r)' PROVE seen'[r] = Window(r)'
  <2>1. r \in Players \ {p, q}
    BY <1>5, <1>9 DEF IsAccepted
  <2>2. Trader(r)' = Trader(r) /\ Offered(r)' = Offered(r)
    BY <1>7, <1>9, <2>1 DEF Trader, Offered
  <2>3. Offered(Trader(r))' = Offered(Trader(r))
    BY <1>7, <1>9, <2>1, <2>2 DEF Offered
  <2>4. Window(r)' = Window(r)
    BY <1>7, <1>9, <2>1, <2>2, <2>3 DEF Window
  <2> QED  BY <1>2, <1>7, <1>9, <2>1, <2>4 DEF Orderly, Sound, AcceptedAsSeen, IsAccepted
<1>10. AcceptedAsSeen'
  BY <1>9 DEF AcceptedAsSeen
<1>11. SpellTargetKept'
  <2> SUFFICES ASSUME NEW r \in Players, Trading(r)', m_trade'[r].spell # NoSpell
               PROVE  aimed'[r] = m_trade'[m_trade'[r].trader].items[NonTraded]
    BY DEF SpellTargetKept, Trader
  <2>1. r \in Players \ {p, q}
    BY <1>5
  <2>2. aimed[r] = m_trade[Trader(r)].items[NonTraded]
    BY <1>7, <2>1 DEF Orderly, Sound, SpellTargetKept
  <2> QED  BY <1>2, <1>7, <2>1, <2>2 DEF Trader
<1> QED  BY <1>2, <1>3, <1>8, <1>10, <1>11 DEF Orderly, Sound, InWorld

\* ModifyMoney stays within what a purse can hold.
LEMMA ModifyMoneyBounds ==
    ASSUME NEW purse \in Purse, NEW d \in Int, -MaxMoney <= d, d <= MaxMoney
    PROVE  ModifyMoney(purse, d) \in Purse
BY MoneyAssumption DEF ModifyMoney, Purse

LEMMA CompleteGoods ==
    ASSUME Orderly, NEW p \in Players, Complete(p)
    PROVE  /\ bag' \in [Players -> SUBSET Items]
           /\ gold' \in [Players -> Purse]
<1> PICK q \in Players : q = Trader(p)
  BY Traders DEF Orderly, Complete, BothAccept, Near, Handles
<1>1. m_trade[p] \in TradeData /\ m_trade[q] \in TradeData
  BY Traders DEF Orderly, Complete, BothAccept, Near, Handles
<1>2. bag' = Exchanged(p, q)
  BY DEF Complete
<1>3. bag' \in [Players -> SUBSET Items]
  <2>1. Held(p) \in SUBSET Items /\ Held(q) \in SUBSET Items
    BY DEF Held, Orderly, Sound, TypeOK
  <2> QED  BY <1>2, <2>1 DEF Exchanged, Orderly, Sound, TypeOK
<1>4. PICK x \in Purse, y \in Purse : x = m_trade[p].money /\ y = m_trade[q].money
  BY <1>1 DEF TradeData
<1>5. gold' = [gold EXCEPT ![p] = ModifyMoney(ModifyMoney(@, -x), y),
                           ![q] = ModifyMoney(ModifyMoney(@, -y), x)]
  BY <1>4 DEF Complete
<1>6. \A g \in Purse : /\ ModifyMoney(ModifyMoney(g, -x), y) \in Purse
                       /\ ModifyMoney(ModifyMoney(g, -y), x) \in Purse
  <2>1. /\ x \in Int /\ y \in Int /\ -x \in Int /\ -y \in Int
        /\ -MaxMoney <= x /\ x <= MaxMoney /\ -MaxMoney <= y /\ y <= MaxMoney
        /\ -MaxMoney <= -x /\ -x <= MaxMoney /\ -MaxMoney <= -y /\ -y <= MaxMoney
    BY MoneyAssumption DEF Purse
  <2> QED  BY <2>1, ModifyMoneyBounds
<1>7. gold' \in [Players -> Purse]
  BY <1>5, <1>6 DEF Orderly, Sound, TypeOK
<1> QED  BY <1>3, <1>7

-----------------------------------------------------------------------------
(* The theorems. *)

Inv == TypeOK /\ (raced \/ Orderly)

LEMMA InvInit == Init => Inv
<1> SUFFICES ASSUME Init PROVE Inv
  OBVIOUS
<1>1. TypeOK
  BY StartAssumption DEF Init, TypeOK, Purse
<1>2. \A p \in Players : ~Trading(p)
  BY DEF Init, Trading
<1>3. ~raced /\ \A p \in Players : p \in online
  BY DEF Init
<1> QED
  BY <1>1, <1>2, <1>3 DEF Inv, Orderly, Sound, Paired, AcceptedAsSeen, SpellTargetKept

\* A handler, or a step of the rest of the game, that no partner's handler overlaps.
LEMMA OrderlyNext ==
    ASSUME Orderly, NEW p \in Players, Act(p)
    PROVE  Orderly'
<1> USE DEF goods
<1>0. TypeOK /\ Sound
  BY DEF Orderly, Sound
<1>1. CASE \E q \in Players : Initiate(p, q)
  BY <1>1, InitiateStep
<1>2. CASE TradeCancel(p)
  BY <1>0, <1>2, CloseStep DEF TradeCancel, TypeOK
<1>3. CASE Leave(p)
  <2>1. CASE Trading(p)
    BY <1>0, <1>3, <2>1, CloseStep DEF Leave, TypeOK
  <2>2. CASE ~Trading(p)
    <3>1. /\ online' = online \ {p} /\ place' = [place EXCEPT ![p] = NoMap]
          /\ UNCHANGED <<m_trade, seen, aimed, bag, gold, raced>>
      BY <1>3, <2>2 DEF Leave
    <3>2. TypeOK'
      BY <1>0, <3>1 DEF TypeOK
    <3>3. \A r \in Players : Trading(r) => r # p /\ Trader(r) # p
      BY <1>0, <2>2, Traders
    <3>4. Paired'
      BY <1>0, <3>1, <3>3 DEF Sound, Paired, Trading, Trader
    <3>5. \A r \in Players : InWorld(r)' => r \in online'
      BY <1>0, <3>1 DEF Sound, TypeOK, InWorld
    <3> QED  BY <3>1, <3>2, <3>4, <3>5, OffersStand
  <2> QED  BY <2>1, <2>2
<1>4. CASE Enter(p) \/ FarTeleport(p) \/ Arrive(p)
  <2>1. /\ online \subseteq online' /\ online' \subseteq Players
        /\ p \in online' \/ place'[p] = NoMap
        /\ place' \in [Players -> Maps \cup {NoMap}]
        /\ \A r \in Players \ {p} : place'[r] = place[r]
        /\ UNCHANGED <<m_trade, seen, aimed, bag, gold, raced>>
    BY <1>0, <1>4 DEF Enter, FarTeleport, Arrive, TypeOK
  <2>2. TypeOK'
    BY <1>0, <2>1 DEF TypeOK
  <2>3. Paired'
    BY <1>0, <2>1 DEF Sound, Paired, Trading, Trader
  <2>4. \A r \in Players : InWorld(r)' => r \in online'
    BY <1>0, <2>1 DEF Sound, InWorld
  <2> QED  BY <2>1, <2>2, <2>3, <2>4, OffersStand
<1>5. CASE \E s \in Slots : ClearTradeItem(p, s)
  BY <1>5, SetItemStep DEF ClearTradeItem, Handles
<1>6. CASE \E s \in Slots, i \in Items : SetTradeItem(p, s, i)
  BY <1>6, SetItemStep DEF SetTradeItem, Handles
<1>7. CASE \E g \in Purse : SetMoney(p, g)
  BY <1>7, SetMoneyStep
<1>8. ASSUME NEW id \in Spells, NEW c \in Items \cup {None}, CastInTrade(p, id, c)
      PROVE  Orderly'
  <2>1. [id |-> id, castItem |-> c] \in Cast
    BY DEF Cast
  <2> QED  BY <1>8, <2>1, SetSpellStep DEF CastInTrade, Handles
<1>9. CASE AcceptUndone(p) \/ Unaccept(p)
  BY <1>9, SetAcceptedStep DEF AcceptUndone, Unaccept, Handles
<1>10. CASE PartnerLacksMoney(p) \/ NotTradable(p) \/ AcceptFirst(p)
  BY <1>10, SetAcceptedStep DEF PartnerLacksMoney, NotTradable, AcceptFirst, Near, Handles
<1>11. ASSUME NEW w \in Players, SpellFails(p, w) PROVE Orderly'
  <2>1. Trading(w) /\ NoSpell \in Cast
    BY <1>0, <1>11, Traders DEF SpellFails, BothAccept, Near, Handles, Cast
  <2> QED  BY <1>11, <2>1, SetSpellStep DEF SpellFails
<1>12. CASE NoRoom(p)
  BY <1>12, SetAcceptedStep DEF NoRoom, BothAccept, Near, Handles
<1>13. CASE Complete(p)
  BY <1>13, CompleteGoods, CloseStep DEF Complete, BothAccept, Near, Handles
<1>14. CASE \E g \in Purse : Spend(p, g)
  BY <1>0, <1>14, GoodsStep DEF Spend, TypeOK
<1>15. CASE \E i \in Items : LoseItem(p, i) \/ GainItem(p, i)
  BY <1>0, <1>15, GoodsStep DEF LoseItem, GainItem, TypeOK
<1> QED
  BY <1>1, <1>2, <1>3, <1>4, <1>5, <1>6, <1>7, <1>8, <1>9, <1>10, <1>11, <1>12, <1>13,
     <1>14, <1>15 DEF Act

LEMMA InvNext == Inv /\ [Next]_vars => Inv'
<1> SUFFICES ASSUME Inv, [Next]_vars PROVE Inv'
  OBVIOUS
<1>1. CASE UNCHANGED vars
  <2>1. TypeOK'
    BY <1>1 DEF Inv, TypeOK, vars, goods, whereabouts
  <2>2. ASSUME ~raced PROVE Orderly'
    BY <1>1, <2>2, GoodsStep DEF Inv, TypeOK, vars, goods
  <2> QED  BY <1>1, <2>1, <2>2 DEF Inv, vars, whereabouts
<1>2. ASSUME NEW p \in Players, Act(p), ~raced PROVE Inv'
  BY <1>2, OrderlyNext DEF Inv, Orderly, Sound
<1>3. ASSUME NEW p \in Players, Collide(p) PROVE Inv'
  BY <1>3 DEF Inv, Collide, TypeOK, goods
<1> QED  BY <1>1, <1>2, <1>3 DEF Next

\* For any players, items and money: the types hold, and as long as no handlers of two
\* partners have run at once, each conjunct of Orderly.
THEOREM TradeInvariant == Spec => []Inv
BY InvInit, InvNext, PTL DEF Spec

\* The variables keep their types: a purse stays between nothing and MaxMoney.
THEOREM TypeCorrect == Spec => []TypeOK
<1>1. Inv => TypeOK
  BY DEF Inv
<1> QED  BY <1>1, TradeInvariant, PTL

\* Until handlers of two partners run at once, the two TradeData of a trade point at each
\* other and at players that are there, wherever far teleports take them.
THEOREM TradersPaired == Spec => []Paired
<1>1. Inv => Paired
  BY DEF Inv, Orderly, Sound, Paired
<1> QED  BY <1>1, TradeInvariant, PTL

\* A player that counts as having accepted has accepted the offers of this moment.
THEOREM AcceptanceHolds == Spec => []AcceptedAsSeen
<1>1. Inv => AcceptedAsSeen
  BY DEF Inv, Orderly, AcceptedAsSeen
<1> QED  BY <1>1, TradeInvariant, PTL

\* A spell put into the trade is never left for an item it was not meant for.
THEOREM SpellTargetHolds == Spec => []SpellTargetKept
<1>1. Inv => SpellTargetKept
  BY DEF Inv, Orderly, SpellTargetKept
<1> QED  BY <1>1, TradeInvariant, PTL

-----------------------------------------------------------------------------
(* Goods. *)

LEMMA OneOwnerNext == Inv /\ OneOwner /\ [Next]_vars => OneOwner'
<1> SUFFICES ASSUME Inv, OneOwner, [Next]_vars PROVE OneOwner'
  OBVIOUS
<1>0. TypeOK
  BY DEF Inv
<1>1. CASE UNCHANGED bag
  BY <1>1 DEF OneOwner
<1>2. ASSUME NEW p \in Players, Complete(p), ~raced PROVE OneOwner'
  <2> PICK q \in Players : q = Trader(p)
    BY <1>2, Traders DEF Inv, Orderly, Complete, BothAccept, Near, Handles
  <2>1. bag' = Exchanged(p, q) /\ p # q
    BY <1>2, Traders DEF Inv, Orderly, Complete, BothAccept, Near, Handles
  <2>2. /\ bag'[p] = (bag[p] \ Held(p)) \cup Held(q)
        /\ bag'[q] = (bag[q] \ Held(q)) \cup Held(p)
        /\ \A r \in Players \ {p, q} : bag'[r] = bag[r]
    BY <1>0, <2>1 DEF Exchanged, TypeOK
  <2>3. Held(p) \subseteq bag[p] /\ Held(q) \subseteq bag[q]
    BY DEF Held
  <2>4. bag[p] \cap bag[q] = {}
    BY <2>1 DEF OneOwner
  <2>5. bag'[p] \cap bag'[q] = {}
    BY <2>2, <2>3, <2>4
  <2>6. \A r \in Players \ {p, q} : bag'[r] \cap (bag'[p] \cup bag'[q]) = {}
    BY <2>2, <2>3 DEF OneOwner
  <2>7. \A r, s \in Players \ {p, q} : r # s => bag'[r] \cap bag'[s] = {}
    BY <2>2 DEF OneOwner
  <2> QED  BY <2>5, <2>6, <2>7 DEF OneOwner
<1>3. ASSUME NEW p \in Players, NEW i \in Items, LoseItem(p, i) PROVE OneOwner'
  BY <1>0, <1>3 DEF LoseItem, OneOwner, TypeOK
<1>4. ASSUME NEW p \in Players, NEW i \in Items, GainItem(p, i) PROVE OneOwner'
  BY <1>0, <1>4 DEF GainItem, OneOwner, TypeOK
<1>5. ASSUME NEW p \in Players, Collide(p) PROVE UNCHANGED bag
  BY <1>5 DEF Collide, goods
<1>6. ASSUME NEW p \in Players, Act(p), ~Complete(p),
             ~ \E i \in Items : LoseItem(p, i) \/ GainItem(p, i)
      PROVE  UNCHANGED bag
  <2>1. \/ \E q \in Players : Initiate(p, q)
        \/ TradeCancel(p) \/ Leave(p) \/ Enter(p) \/ FarTeleport(p) \/ Arrive(p)
        \/ \E g \in Purse : SetMoney(p, g) \/ Spend(p, g)
        \/ AcceptUndone(p) \/ PartnerLacksMoney(p) \/ NotTradable(p) \/ AcceptFirst(p)
        \/ NoRoom(p) \/ Unaccept(p)
        \/ \E s \in Slots : ClearTradeItem(p, s) \/ \E i \in Items : SetTradeItem(p, s, i)
        \/ \E id \in Spells, c \in Items \cup {None} : CastInTrade(p, id, c)
        \/ \E w \in Players : SpellFails(p, w)
    BY <1>6 DEF Act
  <2>2. ASSUME \E q \in Players : Initiate(p, q) PROVE UNCHANGED bag
    BY <2>2 DEF Initiate, goods
  <2>3. ASSUME TradeCancel(p) \/ Leave(p) \/ Enter(p) \/ FarTeleport(p) \/ Arrive(p)
        PROVE  UNCHANGED bag
    BY <2>3 DEF TradeCancel, Leave, Enter, FarTeleport, Arrive, goods
  <2>4. ASSUME \E g \in Purse : SetMoney(p, g) \/ Spend(p, g) PROVE UNCHANGED bag
    BY <2>4 DEF SetMoney, Spend, goods
  <2>5. ASSUME \/ AcceptUndone(p) \/ PartnerLacksMoney(p) \/ NotTradable(p) \/ AcceptFirst(p)
               \/ NoRoom(p) \/ Unaccept(p)
        PROVE  UNCHANGED bag
    BY <2>5 DEF AcceptUndone, PartnerLacksMoney, NotTradable, AcceptFirst, NoRoom, Unaccept, goods
  <2>6. ASSUME NEW s \in Slots, ClearTradeItem(p, s) \/ \E i \in Items : SetTradeItem(p, s, i)
        PROVE  UNCHANGED bag
    BY <2>6 DEF ClearTradeItem, SetTradeItem, SetItem, goods
  <2>7. ASSUME NEW id \in Spells, NEW c \in Items \cup {None}, CastInTrade(p, id, c)
        PROVE  UNCHANGED bag
    BY <2>7 DEF CastInTrade, SetSpell, goods
  <2>8. ASSUME NEW w \in Players, SpellFails(p, w) PROVE UNCHANGED bag
    BY <2>8 DEF SpellFails, SetSpell, goods
  <2> QED  BY <2>1, <2>2, <2>3, <2>4, <2>5, <2>6, <2>7, <2>8
<1>7. CASE UNCHANGED vars
  BY <1>1, <1>7 DEF vars, goods
<1> QED  BY <1>1, <1>2, <1>3, <1>4, <1>5, <1>6, <1>7 DEF Next

\* An item is in at most one inventory, however many exchanges are completed.
THEOREM OneOwnerHolds == Spec => []OneOwner
<1>1. Init => OneOwner
  BY StartAssumption DEF Init, OneOwner
<1> QED  BY <1>1, InvInit, InvNext, OneOwnerNext, PTL DEF Spec

-----------------------------------------------------------------------------
(* The refinement. *)

\* The offers p has before it, as terms.
Offer(p) ==
    [with |-> Trader(p), give |-> Offered(p), take |-> Offered(Trader(p)),
     pay |-> m_trade[p].money, price |-> m_trade[Trader(p)].money]

\* What was consented to is what stands: this is where AcceptedAsSeen is needed.
LEMMA ConsentIs ==
    ASSUME Orderly, NEW p \in Players
    PROVE  /\ Consent[p] = IF Trading(p) /\ IsAccepted(p) THEN Offer(p) ELSE NoTrade
           /\ Trading(p) => Offer(p) \in Promise!Terms
           /\ Consent[p] \in Promise!Terms \cup {NoTrade}
<1>1. ASSUME Trading(p) PROVE Offer(p) \in Promise!Terms
  <2>1. Window(p) \in Seen
    BY <1>1, WindowType DEF Orderly
  <2> QED  BY <2>1 DEF Window, Seen, Offer, Promise!Terms, Purse, Promise!Purse
<1>2. CASE Trading(p) /\ IsAccepted(p)
  <2>1. seen[p] = Window(p)
    BY <1>2 DEF Orderly, Sound, AcceptedAsSeen
  <2>2. Consent[p] = Offer(p)
    BY <1>2, <2>1 DEF Consent, Window, Offer
  <2> QED  BY <1>1, <1>2, <2>2
<1>3. CASE ~(Trading(p) /\ IsAccepted(p))
  <2>1. Consent[p] = NoTrade
    BY <1>3 DEF Consent
  <2> QED  BY <1>1, <1>3, <2>1
<1> QED  BY <1>2, <1>3

LEMMA ConsentType == Orderly => Consent \in [Players -> Promise!Terms \cup {NoTrade}]
<1> SUFFICES ASSUME Orderly PROVE Consent \in [Players -> Promise!Terms \cup {NoTrade}]
  OBVIOUS
<1>1. \A p \in Players : Consent[p] \in Promise!Terms \cup {NoTrade}
  BY ConsentIs
<1>2. Consent = [p \in Players |-> Consent[p]]
  BY DEF Consent
<1> QED  BY <1>1, <1>2

LEMMA ConsentTypeNext == (Orderly => Consent \in [Players -> Promise!Terms \cup {NoTrade}])'
BY ConsentType, PTL

\* A step of p alone: others may lose their acceptance, and keep what they have seen.
LEMMA Decides ==
    ASSUME Orderly, Orderly', NEW p \in Players, UNCHANGED goods,
           \A r \in Players \ {p} :
               Trading(r)' /\ IsAccepted(r)' =>
                   Trading(r) /\ IsAccepted(r) /\ seen'[r] = seen[r]
    PROVE  Promise!Decide(p)
<1>1. Consent' \in [Players -> Promise!Terms \cup {NoTrade}]
  BY ConsentTypeNext
<1>2. ASSUME NEW r \in Players \ {p} PROVE Consent'[r] \in {Consent[r], NoTrade}
  BY <1>2 DEF Consent
<1> QED  BY <1>1, <1>2 DEF Promise!Decide, goods

\* A handler of p that leaves the trader's acceptance as it was, or takes it back.
LEMMA HandlerDecides ==
    ASSUME Orderly, Orderly', NEW p \in Players, Trading(p), UNCHANGED goods,
           \A r \in Players \ {p, Trader(p)} :
               m_trade'[r] = m_trade[r] /\ seen'[r] = seen[r],
           \/ IsAccepted(Trader(p)) /\ seen'[Trader(p)] = seen[Trader(p)]
           \/ m_trade'[Trader(p)] = NoTrade
           \/ ~m_trade'[Trader(p)].accepted
    PROVE  Promise!Decide(p)
<1>1. ASSUME NEW r \in Players \ {p}, Trading(r)', IsAccepted(r)'
      PROVE  Trading(r) /\ IsAccepted(r) /\ seen'[r] = seen[r]
  <2>1. CASE r = Trader(p)
    BY <1>1, <2>1, Traders DEF Orderly, Trading, IsAccepted
  <2>2. CASE r # Trader(p)
    BY <1>1, <2>2 DEF Trading, IsAccepted
  <2> QED  BY <2>1, <2>2
<1> QED  BY <1>1, Decides

LEMMA SetItemDecides ==
    ASSUME Orderly, Orderly', NEW p \in Players, Trading(p), NEW s \in Slots,
           NEW item \in Items \cup {None}, SetItem(p, s, item)
    PROVE  Promise!Decide(p)
<1>1. m_trade[Trader(p)] \in TradeData /\ Trader(p) \in Players /\ Trader(p) # p
  BY Traders DEF Orderly
<1>2. ~m_trade'[Trader(p)].accepted
  BY <1>1 DEF SetItem, Unaccepted, TradeData
<1> QED  BY <1>2, HandlerDecides DEF SetItem, Forget, Unaccepted

LEMMA SetMoneyDecides ==
    ASSUME Orderly, Orderly', NEW p \in Players, NEW money \in Purse, SetMoney(p, money)
    PROVE  Promise!Decide(p)
<1>1. /\ m_trade[Trader(p)] \in TradeData /\ Trader(p) \in Players /\ Trader(p) # p
      /\ Trading(p)
  BY Traders DEF Orderly, SetMoney, Handles
<1>2. ~m_trade'[Trader(p)].accepted
  BY <1>1 DEF SetMoney, Unaccepted, TradeData
<1> QED  BY <1>1, <1>2, HandlerDecides DEF SetMoney, Forget, Unaccepted

LEMMA SetSpellDecides ==
    ASSUME Orderly, Orderly', NEW p \in Players, Trading(p), NEW spell \in Cast, SetSpell(p, spell)
    PROVE  Promise!Decide(p)
<1>1. m_trade[Trader(p)] \in TradeData /\ Trader(p) \in Players /\ Trader(p) # p
  BY Traders DEF Orderly
<1>2. ~m_trade'[Trader(p)].accepted
  BY <1>1 DEF SetSpell, Unaccepted, TradeData
<1> QED  BY <1>2, HandlerDecides DEF SetSpell, Forget, Unaccepted

LEMMA SetAcceptedDecides ==
    ASSUME Orderly, Orderly', NEW p \in Players, Trading(p), NEW yes \in SUBSET ({p} \cup Standing(p)),
           SetAccepted(p, yes), UNCHANGED goods
    PROVE  Promise!Decide(p)
<1> PICK q \in Players : q = Trader(p)
  BY Traders DEF Orderly
<1>1. m_trade[q] \in TradeData /\ q # p
  BY Traders DEF Orderly
<1>2. CASE q \in yes
  BY <1>1, <1>2, HandlerDecides DEF SetAccepted, Standing
<1>3. CASE q \notin yes
  <2> PICK b \in BOOLEAN : b <=> q \in yes
    OBVIOUS
  <2>1. m_trade'[q] = [m_trade[q] EXCEPT !.accepted = b]
    BY <1>1 DEF SetAccepted
  <2>2. ~m_trade'[q].accepted
    BY <1>1, <1>3, <2>1 DEF TradeData
  <2> QED  BY <2>2, HandlerDecides DEF SetAccepted
<1> QED  BY <1>2, <1>3

LEMMA CloseDecides ==
    ASSUME Orderly, Orderly', NEW p \in Players, Trading(p), CloseBoth(p), Forget({p, Trader(p)}),
           UNCHANGED goods
    PROVE  Promise!Decide(p)
<1>1. m_trade'[Trader(p)] = NoTrade
  BY Traders DEF Orderly, Sound, TypeOK, CloseBoth
<1>2. \A r \in Players \ {p, Trader(p)} : m_trade'[r] = m_trade[r] /\ seen'[r] = seen[r]
  BY DEF Orderly, Sound, TypeOK, CloseBoth, Forget
<1> QED  BY <1>1, <1>2, HandlerDecides

LEMMA InitiateDecides ==
    ASSUME Orderly, Orderly', NEW p \in Players, NEW q \in Players, Initiate(p, q)
    PROVE  Promise!Decide(p)
<1>1. /\ m_trade' = [m_trade EXCEPT ![p] = NewTradeData(q), ![q] = NewTradeData(p)]
      /\ UNCHANGED <<seen, goods>> /\ q # p
  BY DEF Initiate
<1>2. ~m_trade'[q].accepted
  BY <1>1 DEF Orderly, Sound, TypeOK, NewTradeData
<1>3. \A r \in Players \ {p, q} : m_trade'[r] = m_trade[r]
  BY <1>1 DEF Orderly, Sound, TypeOK
<1>4. ASSUME NEW r \in Players \ {p}, Trading(r)', IsAccepted(r)'
      PROVE  Trading(r) /\ IsAccepted(r) /\ seen'[r] = seen[r]
  BY <1>1, <1>2, <1>3, <1>4 DEF Trading, IsAccepted
<1> QED  BY <1>1, <1>4, Decides

\* Money over the top is lost in the same way.
LEMMA SettledIs ==
    ASSUME NEW purse \in Purse, NEW pay \in Purse, NEW price \in Purse
    PROVE  ModifyMoney(ModifyMoney(purse, -pay), price) = Promise!Settled(purse, pay, price)
<1>1. ModifyMoney(purse, -pay) = IF purse > pay THEN purse - pay ELSE 0
  BY MoneyAssumption DEF ModifyMoney, Purse
<1> DEFINE left == IF purse > pay THEN purse - pay ELSE 0
<1>2. left \in Purse
  BY MoneyAssumption DEF Purse
<1> HIDE DEF left
<1>3. ModifyMoney(left, price) = IF left + price < MaxMoney THEN left + price ELSE MaxMoney
  BY <1>2, MoneyAssumption DEF ModifyMoney, Purse
<1> QED  BY <1>1, <1>3 DEF Promise!Settled, left

\* The exchange takes place on the terms the trader has accepted.
LEMMA CompleteSwaps ==
    ASSUME Orderly, NEW p \in Players, Complete(p)
    PROVE  Promise!Swap(p, Trader(p))
<1> PICK q \in Players : q = Trader(p)
  BY Traders DEF Orderly, Complete, BothAccept, Near, Handles
<1>1. /\ m_trade[p] \in TradeData /\ m_trade[q] \in TradeData
      /\ Trading(p) /\ Trading(q) /\ Trader(q) = p /\ p # q /\ IsAccepted(q)
      /\ MoneyOK(p) /\ MoneyOK(q)
  BY Traders DEF Orderly, Complete, BothAccept, Near, Handles
<1>2. Consent[q] = Offer(q) /\ Offer(q) \in Promise!Terms
  BY <1>1, ConsentIs
<1>3. Consent[q] # NoTrade
  BY <1>2, NoConsentAssumption
<1>4. /\ Consent[q].with = p
      /\ Consent[q].give \cap bag[q] = Held(q)
      /\ Consent[q].take \cap bag[p] = Held(p)
      /\ Consent[q].pay = m_trade[q].money
      /\ Consent[q].price = m_trade[p].money
  BY <1>1, <1>2 DEF Offer, Held
<1>5. bag' = [bag EXCEPT ![p] = (@ \ Held(p)) \cup Held(q), ![q] = (@ \ Held(q)) \cup Held(p)]
  BY DEF Complete, Exchanged
<1>6. PICK x \in Purse, y \in Purse : x = m_trade[p].money /\ y = m_trade[q].money
  BY <1>1 DEF TradeData
<1>7. gold' = [gold EXCEPT ![p] = Promise!Settled(@, x, y), ![q] = Promise!Settled(@, y, x)]
  <2>1. gold' = [gold EXCEPT ![p] = ModifyMoney(ModifyMoney(@, -x), y),
                             ![q] = ModifyMoney(ModifyMoney(@, -y), x)]
    BY <1>6 DEF Complete
  <2>2. gold[p] \in Purse /\ gold[q] \in Purse
    BY DEF Orderly, Sound, TypeOK
  <2>3. /\ ModifyMoney(ModifyMoney(gold[p], -x), y) = Promise!Settled(gold[p], x, y)
        /\ ModifyMoney(ModifyMoney(gold[q], -y), x) = Promise!Settled(gold[q], y, x)
    BY <2>2, SettledIs
  <2> QED  BY <1>1, <2>1, <2>3 DEF Orderly, Sound, TypeOK
<1>8. y <= gold[q] /\ x <= gold[p]
  BY <1>1, <1>6 DEF MoneyOK
<1>9. Consent' = [Consent EXCEPT ![p] = NoTrade, ![q] = NoTrade]
  <2>1. /\ m_trade' = [m_trade EXCEPT ![p] = NoTrade, ![q] = NoTrade]
        /\ seen' = [r \in Players |-> IF r \in {p, q} THEN NoTrade ELSE seen[r]]
    BY DEF Complete, CloseBoth, Forget
  <2>2. \A r \in {p, q} : m_trade'[r] = NoTrade
    BY <2>1 DEF Orderly, Sound, TypeOK
  <2>3. \A r \in Players \ {p, q} : m_trade'[r] = m_trade[r] /\ seen'[r] = seen[r]
    BY <2>1 DEF Orderly, Sound, TypeOK
  <2>4. \A r \in {p, q} : Consent'[r] = NoTrade
    BY <2>2 DEF Consent, Trading
  <2>5. \A r \in Players \ {p, q} : Consent'[r] = Consent[r]
    BY <2>3 DEF Consent, Trading, IsAccepted
  <2>6. Consent' = [r \in Players |-> Consent'[r]] /\ Consent = [r \in Players |-> Consent[r]]
    BY DEF Consent
  <2> QED  BY <2>4, <2>5, <2>6
<1> QED  BY <1>1, <1>3, <1>4, <1>5, <1>6, <1>7, <1>8, <1>9 DEF Promise!Swap

\* The rest of the game moves nothing from one player to another.
LEMMA GoodsElsewhere ==
    ASSUME Orderly, NEW p \in Players,
           \/ \E g \in Purse : Spend(p, g)
           \/ \E i \in Items : LoseItem(p, i) \/ GainItem(p, i)
    PROVE  Promise!Elsewhere(p)
<1>1. Consent' = Consent
  BY DEF Consent, Trading, IsAccepted, Spend, LoseItem, GainItem
<1>2. bag' \in [Players -> SUBSET Items] /\ gold' \in [Players -> Promise!Purse]
  BY DEF Orderly, Sound, TypeOK, Spend, LoseItem, GainItem, Purse, Promise!Purse
<1>3. \A q \in Players \ {p} :
        /\ bag'[q] = bag[q] /\ gold'[q] = gold[q]
        /\ bag'[p] \cap bag[q] \subseteq bag[p]
  BY DEF Orderly, Sound, TypeOK, Spend, LoseItem, GainItem
<1> QED  BY <1>1, <1>2, <1>3 DEF Promise!Elsewhere

LEMMA ActRefines ==
    ASSUME Orderly, NEW p \in Players, Act(p)
    PROVE  Promise!Next \/ UNCHANGED <<bag, gold, Consent>>
<1>0. Orderly'
  BY OrderlyNext
<1>1. CASE \E q \in Players : Initiate(p, q)
  BY <1>0, <1>1, InitiateDecides DEF Promise!Next
<1>2. CASE TradeCancel(p)
  BY <1>0, <1>2, CloseDecides DEF TradeCancel, Promise!Next
<1>3. CASE Leave(p)
  <2>1. CASE Trading(p)
    BY <1>0, <1>3, <2>1, CloseDecides DEF Leave, Promise!Next
  <2>2. CASE ~Trading(p)
    BY <1>3, <2>2 DEF Leave, goods, Consent, Trading, IsAccepted
  <2> QED  BY <2>1, <2>2
<1>4. CASE Enter(p) \/ FarTeleport(p) \/ Arrive(p)
  BY <1>4 DEF Enter, FarTeleport, Arrive, goods, Consent, Trading, IsAccepted
<1>5. CASE \E s \in Slots : ClearTradeItem(p, s)
  BY <1>0, <1>5, SetItemDecides DEF ClearTradeItem, Handles, Promise!Next
<1>6. CASE \E s \in Slots, i \in Items : SetTradeItem(p, s, i)
  BY <1>0, <1>6, SetItemDecides DEF SetTradeItem, Handles, Promise!Next
<1>7. CASE \E g \in Purse : SetMoney(p, g)
  BY <1>0, <1>7, SetMoneyDecides DEF Promise!Next
<1>8. ASSUME NEW id \in Spells, NEW c \in Items \cup {None}, CastInTrade(p, id, c)
      PROVE  Promise!Next
  <2>1. [id |-> id, castItem |-> c] \in Cast
    BY DEF Cast
  <2> QED  BY <1>0, <1>8, <2>1, SetSpellDecides DEF CastInTrade, Handles, Promise!Next
<1>9. CASE AcceptUndone(p) \/ Unaccept(p)
  BY <1>0, <1>9, SetAcceptedDecides DEF AcceptUndone, Unaccept, Handles, Promise!Next
<1>10. CASE PartnerLacksMoney(p) \/ NotTradable(p) \/ AcceptFirst(p)
  BY <1>0, <1>10, SetAcceptedDecides
     DEF PartnerLacksMoney, NotTradable, AcceptFirst, Near, Handles, Promise!Next
<1>11. ASSUME NEW w \in Players, SpellFails(p, w) PROVE Promise!Next
  <2>1. Trading(w) /\ NoSpell \in Cast
    BY <1>11, Traders DEF Orderly, SpellFails, BothAccept, Near, Handles, Cast
  <2> QED  BY <1>0, <1>11, <2>1, SetSpellDecides DEF SpellFails, Promise!Next
<1>12. CASE NoRoom(p)
  BY <1>0, <1>12, SetAcceptedDecides DEF NoRoom, BothAccept, Near, Handles, Promise!Next
<1>13. CASE Complete(p)
  <2>1. Trader(p) \in Players
    BY <1>13, Traders DEF Orderly, Complete, BothAccept, Near, Handles
  <2> QED  BY <1>13, <2>1, CompleteSwaps DEF Promise!Next
<1>14. CASE \E g \in Purse : Spend(p, g)
  BY <1>14, GoodsElsewhere DEF Promise!Next
<1>15. CASE \E i \in Items : LoseItem(p, i) \/ GainItem(p, i)
  BY <1>15, GoodsElsewhere DEF Promise!Next
<1> QED
  BY <1>1, <1>2, <1>3, <1>4, <1>5, <1>6, <1>7, <1>8, <1>9, <1>10, <1>11, <1>12, <1>13,
     <1>14, <1>15 DEF Act

\* Handlers at once: whatever is deleted, what was consented to lapses and nothing moves.
LEMMA CollideDecides ==
    ASSUME Orderly, NEW p \in Players, Collide(p)
    PROVE  Promise!Decide(p)
<1>1. \A r \in Players : m_trade'[r] \in {m_trade[r], NoTrade}
  BY DEF Collide
<1>2. \A r \in Players : Consent'[r] \in {Consent[r], NoTrade}
  BY <1>1 DEF Collide, Consent, Trading, IsAccepted
<1>3. \A r \in Players : Consent[r] \in Promise!Terms \cup {NoTrade}
  BY ConsentIs
<1>4. Consent' = [r \in Players |-> Consent'[r]]
  BY DEF Consent
<1>5. Consent' \in [Players -> Promise!Terms \cup {NoTrade}]
  BY <1>2, <1>3, <1>4
<1> QED  BY <1>2, <1>5 DEF Collide, goods, Promise!Decide

LEMMA Refines == Inv /\ [Next]_vars => [Promise!Next]_(Promise!vars)
<1> SUFFICES ASSUME Inv, [Next]_vars
             PROVE  Promise!Next \/ UNCHANGED <<bag, gold, Consent>>
  BY DEF Promise!vars
<1>1. CASE UNCHANGED vars
  BY <1>1 DEF vars, goods, Consent, Trading, IsAccepted
<1>2. ASSUME NEW p \in Players, Act(p), ~raced
      PROVE  Promise!Next \/ UNCHANGED <<bag, gold, Consent>>
  BY <1>2, ActRefines DEF Inv
<1>3. ASSUME NEW p \in Players, Collide(p), ~raced PROVE Promise!Next
  BY <1>3, CollideDecides DEF Inv, Promise!Next
<1> QED  BY <1>1, <1>2, <1>3 DEF Next

\* Trade implements Exchange: goods pass between players in one step for both sides, on
\* the terms the one who accepted first has seen.
THEOREM TradeIsExchange == Spec => ExchangeSpec
<1>1. Init => Promise!Init
  BY StartAssumption DEF Init, Promise!Init, Promise!Purse, Consent, Trading
<1> QED  BY <1>1, InvInit, InvNext, Refines, PTL DEF Spec, ExchangeSpec, Promise!Spec

=============================================================================
