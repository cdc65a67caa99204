-------------------------------- MODULE Mail --------------------------------
(***************************************************************************)
(* The handlers of a player's mailbox (MailHandler.cpp) and the daily      *)
(* sweep of old mails (ObjectMgr::ReturnOrDeleteOldMails), over            *)
(* CharacterStore.  A handler is written as the images of the database     *)
(* after each of its transactions and what it makes of the memory.         *)
(*                                                                         *)
(* Whether an item may be sent or stored, the cap of a mailbox and teams   *)
(* depend on the rest of the game: either outcome is possible, and the     *)
(* bad one changes nothing.  A client takes an item out of the mail that   *)
(* has it.  No player is deleted.                                          *)
(***************************************************************************)
EXTENDS CharacterStore

CONSTANTS
    Postage,        \* the price of a mail
    Contents        \* bound: what players send, <<item, money, cod>>

ASSUME MailAssumption ==
    Postage \in Nat /\ Contents \subseteq (Items \cup {NoItem}) \X Money \X Money

InBox(p, m) == MayAct(p) /\ m \in m_mail[p]

PlayerMail(id, from, to, money, cod, item, checked) ==
    [id |-> id, kind |-> "normal", from |-> from, to |-> to, money |-> money, cod |-> cod,
     item |-> item, checked |-> checked, deleted |-> FALSE]

-----------------------------------------------------------------------------
CanSend(p, q, item, money, cod) ==
    /\ MayAct(p) /\ q # p
    /\ ~(money > 0 /\ cod > 0)
    /\ gold[p] >= Postage + money
    /\ item \in bag[p] \cup {NoItem}

\* HandleSendMail: the item leaves the inventory, the mail is sent, and only then the
\* purse is saved.
SendMail(p, q, item, money, cod, id) ==
    LET mail == PlayerMail(id, p, q, money, cod, item, "")
        left == Pay(gold[p], Postage + money)
        taken == [db EXCEPT !.bag[p] = @ \ {item}]
        sent == InsertMails(taken, {mail})
        saved == Burn(SaveInventoryAndGold(sent, p, left, bag[p] \ {item}), Postage)
        images == <<taken, sent, saved>>
    IN
    /\ CanSend(p, q, item, money, cod)
    /\ Fresh({mail})
    /\ \/ /\ Commit(images)
          /\ gold' = [gold EXCEPT ![p] = left]
          /\ bag' = [bag EXCEPT ![p] = @ \ {item}]
          /\ m_mail' = Received(m_mail, {mail})
          /\ UNCHANGED <<status, house, raced>>
       \/ DiesIn(images)

\* The same while another map's handler sends or reads a mail: the two are given one id,
\* and the second INSERT is refused, or the Mail object does not survive in the deque of
\* a receiver whose own handler is there.  Other handlers that send mails meet alike.
SendAtOnce(p, q, item, money, cod, id) ==
    LET mail == PlayerMail(id, p, q, money, cod, item, "")
        left == Pay(gold[p], Postage + money)
        paid == Burn(SaveInventoryAndGold(db, p, left, bag[p] \ {item}), Postage)
    IN
    /\ CanSend(p, q, item, money, cod)
    /\ \/ /\ ~Fresh({mail})
          /\ \E other \in Players \ {p} : MayAct(other)
          /\ db' = paid
          /\ m_mail' = Received(m_mail, {mail})
       \/ /\ Fresh({mail})
          /\ MayAct(q)
          /\ db' = InsertMails(paid, {mail})
          /\ UNCHANGED m_mail
    /\ gold' = [gold EXCEPT ![p] = left]
    /\ bag' = [bag EXCEPT ![p] = @ \ {item}]
    /\ raced' = TRUE
    /\ UNCHANGED <<status, house, crashes>>

\* HandleMailMarkAsRead: the state becomes CHANGED, whatever it was.
MailMarkAsRead(p, m) ==
    /\ InBox(p, m)
    /\ m_mail' = [m_mail EXCEPT ![p] = (@ \ {m}) \cup {[m EXCEPT !.deleted = FALSE]}]
    /\ UNCHANGED <<status, gold, bag, house, db, crashes, raced>>

\* HandleMailDelete: the mail stays in the box until the next _SaveMail.
MailDelete(p, m) ==
    /\ InBox(p, m)
    /\ m.cod = 0
    /\ m_mail' = [m_mail EXCEPT ![p] = (@ \ {m}) \cup {[m EXCEPT !.deleted = TRUE]}]
    /\ UNCHANGED <<status, gold, bag, house, db, crashes, raced>>

\* HandleMailReturnToSender: the mail is deleted, then a new one goes back.  The money
\* and the item of a mail that is not a player's are lost.
MailReturnToSender(p, m, id) ==
    LET isNormal == m.kind = "normal"
        back == IF isNormal
                THEN {PlayerMail(id, p, m.from, m.money, 0, m.item, "returned")} ELSE {}
        deleted == DeleteMail(db, m.id)
        images == IF isNormal
                  THEN <<[deleted EXCEPT !.limbo = @ + m.money],
                         InsertMails(deleted, back)>>
                  ELSE <<Burn(deleted, m.money)>>
    IN
    /\ InBox(p, m) /\ ~m.deleted
    /\ Fresh(back)
    /\ \/ /\ Commit(images)
          /\ m_mail' = Received([m_mail EXCEPT ![p] = @ \ {m}], back)
          /\ UNCHANGED <<status, gold, bag, house, raced>>
       \/ DiesIn(images)

-----------------------------------------------------------------------------
(* Taking. *)

\* Mutant: the mail keeps what was taken.
ItemTaken_Kept(m) == [m EXCEPT !.cod = 0]

ItemTaken(m) == [m EXCEPT !.cod = 0, !.item = NoItem]

\* Mutant: the mail keeps what was taken.
MoneyTaken_Kept(m) == m

MoneyTaken(m) == [m EXCEPT !.money = 0]

\* Mutant: the buyer's things are saved before the payment is sent.
TakeImages_SavedFirst(paid, saved) == <<[saved EXCEPT !.mail = @ \ (paid.mail \ db.mail)], saved>>

\* The payment is sent in a transaction of its own.
TakeImages(paid, saved) == <<paid, saved>>

\* HandleMailTakeItem, for an item that can be stored.
MailTakeItem(p, m, id) ==
    LET payment == IF m.cod > 0
                   THEN {PlayerMail(id, p, m.from, m.cod, 0, NoItem, "codPayment")} ELSE {}
        paid == InsertMails(db, payment)
        left == Pay(gold[p], m.cod)
        got == bag[p] \cup {m.item}
        box == (m_mail[p] \ {m}) \cup {ItemTaken(m)}
        saved == SaveMail(SaveInventoryAndGold(paid, p, left, got), box)
        images == TakeImages(paid, saved)
    IN
    /\ InBox(p, m) /\ ~m.deleted
    /\ m.item # NoItem
    /\ gold[p] >= m.cod
    /\ Fresh(payment)
    /\ \/ /\ Commit(images)
          /\ gold' = [gold EXCEPT ![p] = left]
          /\ bag' = [bag EXCEPT ![p] = got]
          /\ m_mail' = Received([m_mail EXCEPT ![p] = Kept(box)], payment)
          /\ UNCHANGED <<status, house, raced>>
       \/ DiesIn(images)

\* HandleMailTakeMoney: what the purse does not hold is lost.
MailTakeMoney(p, m) ==
    LET now == Earn(gold[p], m.money)
        box == (m_mail[p] \ {m}) \cup {MoneyTaken(m)}
    IN
    /\ InBox(p, m) /\ ~m.deleted
    /\ Commit(<<Burn(SaveMail(SaveGold(db, p, now), box), gold[p] + m.money - now)>>)
    /\ gold' = [gold EXCEPT ![p] = now]
    /\ m_mail' = [m_mail EXCEPT ![p] = Kept(box)]
    /\ UNCHANGED <<status, bag, house, raced>>

-----------------------------------------------------------------------------
\* ReturnOrDeleteOldMails, one of the mails it finds: that of a player in the world is
\* left alone; an item goes back once, if a player sent it.
SweepMail(m) ==
    LET returns == m.item # NoItem /\ m.kind = "normal" /\ m.checked = ""
        deleted == DeleteMail(db, m.id)
        destroyed == DestroyItems(db, {m.item})
        images == IF returns
                  THEN <<InsertMails(deleted, {[m EXCEPT !.from = m.to, !.to = m.from, !.cod = 0,
                                                         !.checked = "returned"]})>>
                  ELSE <<destroyed, Burn(DeleteMail(destroyed, m.id), m.money)>>
    IN
    /\ m \in db.mail
    /\ ~Online(m.to)
    /\ \/ /\ Commit(images)
          /\ raced' = (raced \/ \E k \in m_mail[m.to] : k.id = m.id)
          /\ UNCHANGED <<player, house>>
       \/ DiesIn(images)

MailStep ==
    \/ \E p \in Players :
        \/ \E q \in Players, c \in Contents, id \in MailIds :
             SendMail(p, q, c[1], c[2], c[3], id) \/ SendAtOnce(p, q, c[1], c[2], c[3], id)
        \/ \E m \in m_mail[p] :
             \/ MailMarkAsRead(p, m) \/ MailDelete(p, m) \/ MailTakeMoney(p, m)
             \/ \E id \in MailIds : MailReturnToSender(p, m, id) \/ MailTakeItem(p, m, id)
    \/ \E m \in db.mail : SweepMail(m)

=============================================================================
