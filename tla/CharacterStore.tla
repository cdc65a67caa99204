--------------------------- MODULE CharacterStore ---------------------------
(***************************************************************************)
(* What the server keeps in memory of money, items, mails and auctions,    *)
(* and what the characters database has of them.                           *)
(*                                                                         *)
(* The handlers of the players on a map run one after another, in a thread *)
(* of the pool; the update of the auctions, the mail sweep, logins and     *)
(* logouts are the world thread's, while no map is updated.  Handlers on   *)
(* two maps run at once.  If they meet, in one auction, one mailbox or the *)
(* counter of mail ids, nothing keeps them apart: that is a step of its    *)
(* own, and raced tells so.  If not, they change different rows, and are   *)
(* two steps, in either order.                                             *)
(*                                                                         *)
(* They delay transactions, which one thread executes in order (SqlDelay). *)
(* So what a crash leaves is the database after some of the transactions,  *)
(* and everything else is lost: a handler either runs to its end, and then *)
(* all its transactions count, or the server dies and restarts from the    *)
(* image after one of them.  A crash that cuts the handlers of several     *)
(* maps is left out.                                                       *)
(*                                                                         *)
(* Stacks, several items in a mail, accounts and distances are left out,   *)
(* and so is time: an auction may have expired, a mail be old, at any      *)
(* time.  A player who is loading or between two maps exists and is not    *)
(* found: the mail sweep may take a mail such a player has, and raced      *)
(* tells so.                                                               *)
(***************************************************************************)
EXTENDS Integers, Sequences, FiniteSetsExt

CONSTANTS
    Players, Items,
    Lots,           \* bound: auctions at a time
    MaxMoney,       \* MAX_MONEY_AMOUNT
    MailIds,        \* bound: as many mails at a time
    MaxAway,        \* bound: players not in the world while others act
    MaxCrashes,     \* bound
    NoItem, NoBidder, NoLot,
    InitialGold,
    InitialBag

ASSUME StoreAssumption ==
    /\ MaxMoney \in Nat /\ MaxAway \in Nat /\ MaxCrashes \in Nat
    /\ NoItem \notin Items /\ NoBidder \notin Players
    /\ InitialGold \in [Players -> 0..MaxMoney]
    /\ InitialBag \in [Players -> SUBSET Items]
    /\ \A p, q \in Players : p # q => InitialBag[p] \cap InitialBag[q] = {}

ASSUME FiniteAssumption == IsFiniteSet(Players) /\ IsFiniteSet(Lots) /\ IsFiniteSet(MailIds)

VARIABLES
    status,         \* per player: "offline", "online", or "between": in no map
    gold, bag,      \* of the Player object
    m_mail,         \* its mailbox
    house,          \* AuctionsMap: per lot its AuctionEntry, or NoLot
    db,             \* the database once all transactions are executed
    crashes,        \* how many there have been
    raced           \* history: two handlers met, or the sweep a player between

player == <<status, gold, bag, m_mail>>
vars == <<status, gold, bag, m_mail, house, db, crashes, raced>>

Online(p) == status[p] = "online"

Away == {p \in Players : ~Online(p)}

\* Only a player in the world sends packets that are handled here.
MayAct(p) == Online(p) /\ Cardinality(Away) <= MaxAway

Money == 0..MaxMoney

\* kind: messageType; checked: the bits of the mask that matter; deleted: the state
\* MAIL_STATE_DELETED, in memory only.  CHANGED is not told from UNCHANGED: a handler
\* that changes what the model has of a mail saves it at once.  No mail has two items.
Mail ==
    [id : MailIds, kind : {"normal", "auction"}, from : Players \cup {NoBidder},
     to : Players, money : Nat, cod : Money,
     item : Items \cup {NoItem}, checked : {"", "returned", "codPayment"}, deleted : BOOLEAN]

\* item: itemGuidLow; pending: moneyDeliveryTime is set.
AuctionEntry ==
    [item : Items \cup {NoItem}, owner : Players, startbid : Money, buyout : Money,
     bid : Money, bidder : Players \cup {NoBidder}, deposit : Money, pending : BOOLEAN]

ASSUME NoLotAssumption == NoLot \notin AuctionEntry

\* burned and limbo are no data: the money that has left the game so far, and that of
\* mails on their way back to the sender.
Image ==
    [gold : [Players -> Money], bag : [Players -> SUBSET Items], mail : SUBSET Mail,
     auction : [Lots -> AuctionEntry \cup {NoLot}], burned : Nat, limbo : Nat]

Init ==
    /\ status = [p \in Players |-> "offline"]
    /\ gold = [p \in Players |-> 0]
    /\ bag = [p \in Players |-> {}]
    /\ m_mail = [p \in Players |-> {}]
    /\ house = [l \in Lots |-> NoLot]
    /\ db = [gold |-> InitialGold, bag |-> InitialBag, mail |-> {},
             auction |-> [l \in Lots |-> NoLot], burned |-> 0, limbo |-> 0]
    /\ crashes = 0
    /\ raced = FALSE

-----------------------------------------------------------------------------
(* Statements: what they make of an image. *)

SaveGold(img, p, g) == [img EXCEPT !.gold[p] = g]

\* Mutant: the purse is left to the next full save.
SaveInventoryAndGold_NoGold(img, p, g, b) == [img EXCEPT !.bag[p] = b]

SaveInventoryAndGold(img, p, g, b) == [img EXCEPT !.gold[p] = g, !.bag[p] = b]

Burn(img, n) == [img EXCEPT !.burned = @ + n]

\* DELETE FROM item_instance: what refers to the item no longer finds it.
DestroyItems(img, items) ==
    [img EXCEPT !.bag = [p \in Players |-> @[p] \ items],
                !.mail = {IF m.item \in items THEN [m EXCEPT !.item = NoItem] ELSE m : m \in @},
                !.auction = [l \in Lots |->
                    IF @[l] # NoLot /\ @[l].item \in items THEN [@[l] EXCEPT !.item = NoItem]
                    ELSE @[l]]]

InsertMails(img, mails) == [img EXCEPT !.mail = @ \cup mails]

DeleteMail(img, id) == [img EXCEPT !.mail = {m \in @ : m.id # id}]

MailMoney(mails) == MapThenSumSet(LAMBDA m : m.money, mails)

MailItems(mails) == {m.item : m \in mails} \ {NoItem}

Kept(box) == {m \in box : ~m.deleted}

\* Player::_SaveMail of a mailbox: DELETED mails go with all they hold, the rows of the
\* others get what the mailbox has.
SaveMail(img, box) ==
    LET gone == {m \in box : m.deleted}
        others == {m \in img.mail : \A k \in box : k.id # m.id}
        rows == {k \in Kept(box) : \E m \in img.mail : m.id = k.id}
    IN Burn(DestroyItems([img EXCEPT !.mail = others \cup rows], MailItems(gone)), MailMoney(gone))

-----------------------------------------------------------------------------
(* Crash and restart. *)

\* AuctionHouseMgr::LoadAuctions: a pending auction has no item; one that should have
\* an item, and has none, is deleted.
LoadAuctions(img) ==
    [l \in Lots |->
        IF img.auction[l] = NoLot THEN NoLot
        ELSE IF img.auction[l].pending THEN [img.auction[l] EXCEPT !.item = NoItem]
        ELSE IF img.auction[l].item = NoItem THEN NoLot
        ELSE img.auction[l]]

Restart(img) ==
    /\ crashes < MaxCrashes
    /\ crashes' = crashes + 1
    /\ status' = [p \in Players |-> "offline"]
    /\ gold' = [p \in Players |-> 0]
    /\ bag' = [p \in Players |-> {}]
    /\ m_mail' = [p \in Players |-> {}]
    /\ house' = LoadAuctions(img)
    /\ db' = [img EXCEPT !.auction =
                [l \in Lots |-> IF house'[l] = NoLot THEN NoLot ELSE img.auction[l]]]
    /\ UNCHANGED raced

\* A handler has delayed the transactions that lead from one image to the next; those
\* of handlers it does not meet, in between, are about other rows.
Commit(images) == db' = images[Len(images)] /\ UNCHANGED crashes

DiesIn(images) == \E k \in 1..Len(images) - 1 : Restart(images[k])

Crash == Restart(db)

-----------------------------------------------------------------------------
(* Login and logout. *)

\* The query holder of a login is executed behind all transactions delayed before it.
LoginRequest(p) ==
    /\ status[p] = "offline"
    /\ status' = [status EXCEPT ![p] = "between"]
    /\ gold' = [gold EXCEPT ![p] = db.gold[p]]
    /\ bag' = [bag EXCEPT ![p] = db.bag[p]]
    /\ m_mail' = [m_mail EXCEPT ![p] = {m \in db.mail : m.to = p}]
    /\ UNCHANGED <<house, db, crashes, raced>>

\* A far teleport: the Player stays, and is in the world again when the client answers.
TeleportTo(p) ==
    /\ Online(p)
    /\ Cardinality(Away) < MaxAway
    /\ status' = [status EXCEPT ![p] = "between"]
    /\ UNCHANGED <<gold, bag, m_mail, house, db, crashes, raced>>

\* The login's callback, or HandleMoveWorldportAckOpcode: the player enters the world with
\* what was read, or kept.
EnterWorld(p) ==
    /\ status[p] = "between"
    /\ status' = [status EXCEPT ![p] = "online"]
    /\ UNCHANGED <<gold, bag, m_mail, house, db, crashes, raced>>

\* Player::SaveToDB, then the Player is deleted.
Logout(p) ==
    /\ Online(p)
    /\ Cardinality(Away) < MaxAway
    /\ Commit(<<SaveMail(SaveInventoryAndGold(db, p, gold[p], bag[p]), m_mail[p])>>)
    /\ status' = [status EXCEPT ![p] = "offline"]
    /\ gold' = [gold EXCEPT ![p] = 0]
    /\ bag' = [bag EXCEPT ![p] = {}]
    /\ m_mail' = [m_mail EXCEPT ![p] = {}]
    /\ UNCHANGED <<house, raced>>

-----------------------------------------------------------------------------
(* MailDraft::SendMailTo. *)

\* GenerateMailID: the ids of new mails are in no use.
Fresh(mails) ==
    \A m \in mails : /\ \A row \in db.mail : row.id # m.id
                     /\ \A p \in Players : \A k \in m_mail[p] : k.id # m.id

AuctionMail(id, to, money, item) ==
    [id |-> id, kind |-> "auction", from |-> NoBidder, to |-> to, money |-> money, cod |-> 0,
     item |-> item, checked |-> "", deleted |-> FALSE]

\* A receiver who is in the world gets a Mail object; any other will load the row.
Received(boxes, mails) ==
    [p \in Players |->
        IF Online(p) THEN boxes[p] \cup {m \in mails : m.to = p} ELSE boxes[p]]

\* Mutant: no upper end.
Earn_NoTop(purse, n) == purse + n

\* Player::ModifyMoney.
Earn(purse, n) == IF purse < MaxMoney - n THEN purse + n ELSE MaxMoney
Pay(purse, n) == IF purse > n THEN purse - n ELSE 0

=============================================================================
