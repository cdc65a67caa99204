------------------------------ MODULE Auction ------------------------------
(***************************************************************************)
(* The auction house: the handlers that list, bid and cancel               *)
(* (AuctionHouseHandler.cpp), AuctionEntry and the update of the world     *)
(* tick (AuctionHouseMgr.cpp), over CharacterStore.  A handler is written  *)
(* as in Mail.  An auction is active until it is won, then pending until   *)
(* its owner gets the money.                                               *)
(*                                                                         *)
(* Accounts are left out: each player has its own.                         *)
(***************************************************************************)
EXTENDS CharacterStore

CONSTANTS
    Deposit,        \* GetAuctionDeposit, the same for all items
    CutPercent,
    StartBids, Buyouts      \* bound: what owners ask; 0 is no buyout

ASSUME AuctionAssumption ==
    /\ Deposit \in Nat /\ CutPercent \in 0..100
    /\ StartBids \subseteq Money /\ Buyouts \subseteq Money

Listed(l) == house[l] # NoLot

GetAuctionCut(e) == (CutPercent * e.bid) \div 100

GetAuctionOutBid(e) == LET outbid == (e.bid \div 100) * 5 IN IF outbid = 0 THEN 1 ELSE outbid

SaveAuction(img, l, e) == [img EXCEPT !.auction[l] = e]

DeleteAuction(img, l) == [img EXCEPT !.auction[l] = NoLot]

-----------------------------------------------------------------------------
\* HandleAuctionSellItem and AddAuction: one transaction.
SellItem(p, l, item, startbid, buyout) ==
    LET left == Pay(gold[p], Deposit)
        entry == [item |-> item, owner |-> p, startbid |-> startbid, buyout |-> buyout, bid |-> 0,
                  bidder |-> NoBidder, deposit |-> Deposit, pending |-> FALSE]
    IN
    /\ MayAct(p) /\ ~Listed(l)
    /\ startbid > 0
    /\ item \in bag[p]
    /\ \A k \in Lots : Listed(k) => house[k].item # item
    /\ gold[p] >= Deposit
    /\ Commit(<<SaveInventoryAndGold(SaveAuction(db, l, entry), p, left, bag[p] \ {item})>>)
    /\ house' = [house EXCEPT ![l] = entry]
    /\ gold' = [gold EXCEPT ![p] = left]
    /\ bag' = [bag EXCEPT ![p] = @ \ {item}]
    /\ UNCHANGED <<status, m_mail, raced>>

-----------------------------------------------------------------------------
(* Bids. *)

\* Mutant: the item stays listed.
Won_ItemStays(e) == [e EXCEPT !.pending = TRUE]

\* AuctionBidWinning and SendAuctionWonMail: the entry waits for its money to be
\* delivered, without the item.
Won(e) == [e EXCEPT !.pending = TRUE, !.item = NoItem]

\* SendAuctionWonMail, of an auction whose item has not been sent before.
WonMails(id, e) ==
    IF e.item = NoItem THEN {} ELSE {AuctionMail(id, e.bidder, 0, e.item)}

\* Mutant: the entry has the new bidder already when the mail is sent.
Outbidden_New(id, e, p) ==
    IF e.bidder \in {p, NoBidder} THEN {} ELSE {AuctionMail(id, p, e.bid, NoItem)}

\* SendAuctionOutbiddedMail.
Outbidden(id, e, p) ==
    IF e.bidder \in {p, NoBidder} THEN {} ELSE {AuctionMail(id, e.bidder, e.bid, NoItem)}

\* The checks of HandleAuctionPlaceBid.  Whether the auction is pending is not asked.
CanBid(p, l, price) ==
    LET e == house[l] IN
    /\ MayAct(p) /\ Listed(l) /\ e.owner # p
    /\ price > e.bid
    /\ price < e.buyout \/ e.buyout = 0 => price >= e.bid + GetAuctionOutBid(e)
    /\ price <= gold[p]
    /\ price >= e.startbid

\* UpdateBid: the bid is no more than the buyout; a bidder pays the difference.
NewBid(e, price) == IF e.buyout # 0 /\ price > e.buyout THEN e.buyout ELSE price

IsBuyout(e, newbid) == e.buyout # 0 /\ newbid >= e.buyout

LeftAfterBid(e, p, newbid) == Pay(gold[p], IF e.bidder = p THEN newbid - e.bid ELSE newbid)

BidOf(e, p, newbid) == [e EXCEPT !.bidder = p, !.bid = newbid]

BidWonMails(id, e, p, newbid) ==
    IF IsBuyout(e, newbid) THEN WonMails(id, BidOf(e, p, newbid)) ELSE {}

\* HandleAuctionPlaceBid and UpdateBid.
PlaceBid(p, l, price, id, wonId) ==
    LET e == house[l]
        newbid == NewBid(e, price)
        left == LeftAfterBid(e, p, newbid)
        entry == BidOf(e, p, newbid)
        after == IF IsBuyout(e, newbid) THEN Won(entry) ELSE entry
        refund == Outbidden(id, e, p)
        won == BidWonMails(wonId, e, p, newbid)
        refunded == InsertMails(db, refund)
        saved == SaveInventoryAndGold(SaveAuction(refunded, l, after), p, left, bag[p])
        images == <<refunded, saved, InsertMails(saved, won)>>
    IN
    /\ CanBid(p, l, price)
    /\ id # wonId /\ Fresh(refund \cup won)
    /\ \/ /\ Commit(images)
          /\ house' = [house EXCEPT ![l] = after]
          /\ gold' = [gold EXCEPT ![p] = left]
          /\ m_mail' = Received(m_mail, refund \cup won)
          /\ UNCHANGED <<status, bag, raced>>
       \/ DiesIn(images)

\* The checks of HandleAuctionRemoveItem.
CanCancel(p, l) ==
    LET e == house[l] IN
    /\ MayAct(p) /\ Listed(l) /\ e.owner = p
    /\ e.item # NoItem
    /\ gold[p] >= GetAuctionCut(e)

CancelRefund(id, e) == IF e.bid = 0 THEN {} ELSE {AuctionMail(id, e.bidder, e.bid, NoItem)}

\* HandleAuctionRemoveItem: the bidder gets the bid back, the owner the item; the
\* deposit is kept, and of a bid the cut is paid.
CancelAuction(p, l, id, itemId) ==
    LET e == house[l]
        left == Pay(gold[p], GetAuctionCut(e))
        refund == CancelRefund(id, e)
        item == AuctionMail(itemId, p, 0, e.item)
        refunded == InsertMails(db, refund)
        returned == InsertMails(refunded, {item})
        removed == SaveInventoryAndGold(DeleteAuction(returned, l), p, left, bag[p])
        images == <<refunded, returned, Burn(removed, e.deposit + GetAuctionCut(e))>>
    IN
    /\ CanCancel(p, l)
    /\ id # itemId /\ Fresh(refund \cup {item})
    /\ \/ /\ Commit(images)
          /\ house' = [house EXCEPT ![l] = NoLot]
          /\ gold' = [gold EXCEPT ![p] = left]
          /\ m_mail' = Received(m_mail, refund \cup {item})
          /\ UNCHANGED <<status, bag, raced>>
       \/ DiesIn(images)

-----------------------------------------------------------------------------
(* Handlers on two maps at one auction: both have read the entry before either *)
(* writes it.  Two mails that are given one id are one. *)

\* What both have delayed, and what they have done to purses and mailboxes.
BothDone(p, leftP, q, leftQ, row, l, burned, mails) ==
    LET savedP == SaveInventoryAndGold([db EXCEPT !.auction[l] = row], p, leftP, bag[p])
        savedQ == SaveInventoryAndGold(savedP, q, leftQ, bag[q])
    IN
    /\ \A m, n \in mails : m.id = n.id => m = n
    /\ Fresh(mails)
    /\ db' = Burn(InsertMails(savedQ, mails), burned)
    /\ gold' = [gold EXCEPT ![p] = leftP, ![q] = leftQ]
    /\ m_mail' = Received(m_mail, mails)
    /\ raced' = TRUE
    /\ UNCHANGED <<status, bag, crashes>>

\* bidder and bid are written one after the other: whose is the later one?
MixedBids(e, p, bidP, q, bidQ) == {BidOf(e, r, bid) : r \in {p, q}, bid \in {bidP, bidQ}}

\* Two bids: both give the old bidder the money back, and both may find the item; the row
\* has what was in the entry when the last UPDATE was built.
BidsAtOnce(l, p, priceP, q, priceQ) ==
    LET e == house[l]
        bidP == NewBid(e, priceP)
        bidQ == NewBid(e, priceQ)
        written == MixedBids(e, p, bidP, q, bidQ)
        After(w) == IF IsBuyout(e, bidP) \/ IsBuyout(e, bidQ) THEN Won(w) ELSE w
    IN
    /\ p # q /\ CanBid(p, l, priceP) /\ CanBid(q, l, priceQ)
    /\ \E inMemory, inRow \in written, i, j, k, n \in MailIds :
         /\ house' = [house EXCEPT ![l] = After(inMemory)]
         /\ BothDone(p, LeftAfterBid(e, p, bidP), q, LeftAfterBid(e, q, bidQ), After(inRow), l, 0,
              Outbidden(i, e, p) \cup Outbidden(j, e, q)
              \cup BidWonMails(k, e, p, bidP) \cup BidWonMails(n, e, q, bidQ))

\* The owner p cancels while q bids: the entry is deleted under the bid.
CancelAtOnce(l, p, q, price) ==
    LET e == house[l]
        bid == NewBid(e, price)
    IN
    /\ CanCancel(p, l) /\ CanBid(q, l, price)
    /\ house' = [house EXCEPT ![l] = NoLot]
    /\ \E i, j, k, n \in MailIds :
         BothDone(p, Pay(gold[p], GetAuctionCut(e)), q, LeftAfterBid(e, q, bid), NoLot, l,
              e.deposit + GetAuctionCut(e),
              CancelRefund(i, e) \cup {AuctionMail(j, p, 0, e.item)}
              \cup Outbidden(k, e, q) \cup BidWonMails(n, e, q, bid))

-----------------------------------------------------------------------------
(* AuctionHouseObject::Update, from the world tick. *)

\* Mutant: the auction is deleted before the mail is sent.
MailThenDelete_Swapped(mail, l, burned) ==
    <<Burn(DeleteAuction(db, l), burned), InsertMails(Burn(DeleteAuction(db, l), burned), {mail})>>

\* The mail is sent, then the auction is deleted.
MailThenDelete(mail, l, burned) ==
    <<InsertMails(db, {mail}), Burn(DeleteAuction(InsertMails(db, {mail}), l), burned)>>

\* The end of an auction that is pending, or that no one has bid on.
End(l, mail, burned) ==
    LET images == MailThenDelete(mail, l, burned) IN
    /\ Fresh({mail})
    /\ \/ /\ Commit(images)
          /\ house' = [house EXCEPT ![l] = NoLot]
          /\ m_mail' = Received(m_mail, {mail})
          /\ UNCHANGED <<status, gold, bag, raced>>
       \/ DiesIn(images)

\* SendAuctionSuccessfulMail: the owner gets the bid less the cut, and the deposit.
DeliverMoney(l, id) ==
    LET e == house[l]
        profit == e.bid + e.deposit - GetAuctionCut(e) IN
    /\ Listed(l) /\ e.pending
    /\ End(l, AuctionMail(id, e.owner, profit, NoItem), GetAuctionCut(e))

\* SendAuctionExpiredMail.
Expire(l, id) ==
    LET e == house[l] IN
    /\ Listed(l) /\ ~e.pending /\ e.bid = 0
    /\ End(l, AuctionMail(id, e.owner, 0, e.item), e.deposit)

\* AuctionBidWinning of the last bidder.
ExpireWon(l, id) ==
    LET e == house[l]
        saved == SaveAuction(db, l, Won(e))
        mails == WonMails(id, e)
        images == <<saved, InsertMails(saved, mails)>> IN
    /\ Listed(l) /\ ~e.pending /\ e.bid > 0
    /\ Fresh(mails)
    /\ \/ /\ Commit(images)
          /\ house' = [house EXCEPT ![l] = Won(e)]
          /\ m_mail' = Received(m_mail, mails)
          /\ UNCHANGED <<status, gold, bag, raced>>
       \/ DiesIn(images)

AuctionStep ==
    \E l \in Lots :
        \/ \E id \in MailIds :
            \/ \E p \in Players, id2 \in MailIds :
                CancelAuction(p, l, id, id2) \/ \E price \in Money : PlaceBid(p, l, price, id, id2)
            \/ DeliverMoney(l, id) \/ Expire(l, id) \/ ExpireWon(l, id)
        \/ \E p, q \in Players, price \in Money :
            \/ CancelAtOnce(l, p, q, price)
            \/ \E other \in Money : BidsAtOnce(l, p, price, q, other)
        \/ \E p \in Players, i \in Items, s \in StartBids, b \in Buyouts : SellItem(p, l, i, s, b)

=============================================================================
