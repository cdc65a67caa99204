------------------------------ MODULE Market ------------------------------
(***************************************************************************)
(* Mail and auction house together, with players who come and go and a     *)
(* server that may die between any two transactions: what becomes of the   *)
(* money and the items.                                                    *)
(*                                                                         *)
(* But for TypeOK and PendingHoldsNoItem, the properties are about the     *)
(* time before two handlers meet (raced): nothing in the code keeps them   *)
(* apart, and after BidsAtOnce, CancelAtOnce or SendAtOnce none of them    *)
(* need hold.                                                              *)
(***************************************************************************)
EXTENDS Mail, Auction

Next ==
    \/ MailStep
    \/ AuctionStep
    \/ \E p \in Players : LoginRequest(p) \/ EnterWorld(p) \/ TeleportTo(p) \/ Logout(p)
    \/ Crash

Spec == Init /\ [][Next]_vars

-----------------------------------------------------------------------------
(* Properties. *)

\* The types of the variables: no purse, bid or COD is beyond MAX_MONEY_AMOUNT.
TypeOK ==
    /\ status \in [Players -> {"offline", "between", "online"}]
    /\ gold \in [Players -> Money]
    /\ bag \in [Players -> SUBSET Items]
    /\ \A p \in Players : m_mail[p] \subseteq Mail /\ \A m \in m_mail[p] : m.to = p
    /\ house \in [Lots -> AuctionEntry \cup {NoLot}]
    /\ db.gold \in [Players -> Money] /\ db.bag \in [Players -> SUBSET Items]
    /\ db.mail \subseteq Mail
    /\ db.auction \in [Lots -> AuctionEntry \cup {NoLot}]
    /\ crashes \in 0..MaxCrashes /\ raced \in BOOLEAN

\* The same but for the item, which a crash may have left in two places: it is deleted
\* in the database once one of them is.
SameRow(row, entry) ==
    row = entry \/ (crashes > 0 /\ row = [entry EXCEPT !.item = NoItem])

\* As long as no two handlers have met, each leaves the database, once it has caught up,
\* with what is in memory, so that the next login or restart finds the same purse, bags,
\* mails and auctions.
WrittenThrough ==
    ~raced =>
        /\ \A p \in Players : status[p] # "offline" =>
             /\ db.gold[p] = gold[p]
             /\ crashes = 0 => db.bag[p] = bag[p]
             /\ \A m \in m_mail[p] : \E row \in db.mail : SameRow(row, [m EXCEPT !.deleted = FALSE])
        /\ \A l \in Lots :
             IF house[l] = NoLot THEN db.auction[l] = NoLot ELSE SameRow(db.auction[l], house[l])

\* Where an item is, in the database.
Holders(i) ==
    {<<"bag", p>> : p \in {q \in Players : i \in db.bag[q]}}
    \cup {<<"mail", m.id>> : m \in {n \in db.mail : n.item = i}}
    \cup {<<"lot", l>> : l \in {k \in Lots : db.auction[k] # NoLot /\ db.auction[k].item = i}}

\* Without crashes and handlers that meet, no item is in two places, whoever sends, returns,
\* sells or wins it.
OneHolder ==
    (crashes = 0 /\ ~raced) => \A i \in Items : Cardinality(Holders(i)) <= 1

Wealth ==
    LET LotMoney(l) ==
            IF db.auction[l] = NoLot THEN 0 ELSE db.auction[l].bid + db.auction[l].deposit
    IN MapThenSumSet(LAMBDA p : db.gold[p], Players) + MailMoney(db.mail)
       + MapThenSumSet(LotMoney, Lots)

InitialWealth == MapThenSumSet(LAMBDA p : InitialGold[p], Players)

\* Without crashes and handlers that meet, every coin is in a purse, a mail, a bid or a
\* deposit, or was burned: as postage, cut, lost deposit, in a deleted mail or above
\* MAX_MONEY_AMOUNT.  (That it may be lost there is taken from the code.)
MoneyConserved ==
    (crashes = 0 /\ ~raced) => Wealth + db.burned = InitialWealth

\* Handlers that do not meet give before they take: a crash may leave money twice, and
\* loses none but that of a mail on its way back to the sender.
CrashLosesNoMoney ==
    (crashes <= 1 /\ ~raced) => Wealth + db.burned + db.limbo >= InitialWealth

\* An auction that waits for its money to be delivered has no item, as Update asserts;
\* any other has one, so that it can still be won, cancelled or returned.  Handlers that
\* meet do not change that.
PendingHoldsNoItem ==
    \A l \in Lots : Listed(l) => (house[l].pending <=> house[l].item = NoItem)

New(m) == m \in db'.mail \ db.mail

\* Whoever gets the item of a COD mail, even if the server dies in between, has paid: the
\* payment is in the database no later than the item.  (After a crash, or when handlers
\* have met, an item may be in two places, and is no longer one sender's to sell.)
CodPaid ==
    [][(crashes = 0 /\ ~raced') => \A m \in db.mail :
        (m.cod > 0 /\ \E p \in Players : m.item \in db'.bag[p]) =>
            \E n \in db'.mail : /\ New(n)
                                /\ n.to = m.from /\ n.money = m.cod /\ n.checked = "codPayment"]_vars

\* Handlers that do not meet never forget a bid, even if the server dies for the first time:
\* as long as the auction is active, a bidder remains the bidder, wins the item, or gets the
\* bid back by mail.  (A crash that has left an item in two places may let the next one lose
\* an auction.)
BidSettled ==
    [][(~raced' /\ (crashes' = crashes \/ crashes = 0)) =>
        \A l \in Lots : (Listed(l) /\ ~house[l].pending /\ house[l].bid > 0) =>
            \/ house'[l] # NoLot /\ house'[l].bidder = house[l].bidder
                  /\ (house'[l].pending /\ crashes' = crashes =>
                        \E m \in db'.mail : /\ New(m)
                                            /\ m.to = house[l].bidder /\ m.item = house[l].item)
            \/ \E m \in db'.mail : New(m) /\ m.to = house[l].bidder /\ m.money = house[l].bid]_vars

=============================================================================
