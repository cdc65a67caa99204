---------------------------- MODULE Market_proofs ----------------------------
(***************************************************************************)
(* Theorems about mail and auction house, in this order: types, and what   *)
(* they rest on (Sound); memory and database agree, and without crashes no *)
(* item is in two places (Holding); bids and payments through the first    *)
(* crash; what an image is worth, and that the books are kept (Ledger).    *)
(***************************************************************************)
EXTENDS Market, DataLemmas, TLAPS

-----------------------------------------------------------------------------
(* Sound mails, auctions and images. *)

\* Only a player sends a mail that can go back or must be paid for.
SoundMail == {m \in Mail : m.kind = "normal" \/ m.cod > 0 => m.from \in Players}

\* No bid is above the buyout or without a bidder; a pending auction has no item.
SoundEntry == {e \in AuctionEntry : /\ e.buyout # 0 => e.bid <= e.buyout
                                    /\ e.bid > 0 => e.bidder \in Players
                                    /\ e.pending => e.item = NoItem}

SoundImage(img) ==
    img \in [gold : [Players -> Money], bag : [Players -> SUBSET Items],
             mail : SUBSET SoundMail, auction : [Lots -> SoundEntry \cup {NoLot}],
             burned : {img.burned}, limbo : {img.limbo}]

Sound ==
    /\ status \in [Players -> {"offline", "between", "online"}]
    /\ gold \in [Players -> Money] /\ bag \in [Players -> SUBSET Items]
    /\ m_mail \in [Players -> SUBSET SoundMail]
    /\ \A p \in Players : \A m \in m_mail[p] : m.to = p
    /\ house \in [Lots -> SoundEntry \cup {NoLot}]
    /\ PendingHoldsNoItem
    /\ SoundImage(db)
    /\ crashes \in 0..MaxCrashes /\ raced \in BOOLEAN

LEMMA Coins ==
    /\ 0 \in Money
    /\ \A purse \in Money, n \in Nat : Pay(purse, n) \in Money /\ Earn(purse, n) \in Money
    /\ \A e \in AuctionEntry : GetAuctionCut(e) \in Nat /\ GetAuctionCut(e) <= e.bid
<1>1. MaxMoney \in Nat
  BY StoreAssumption
<1>2. ASSUME NEW purse \in Money, NEW n \in Nat
      PROVE  Pay(purse, n) \in Money /\ Earn(purse, n) \in Money
  BY <1>1 DEF Money, Pay, Earn
<1>3. ASSUME NEW e \in AuctionEntry
      PROVE  GetAuctionCut(e) \in Nat /\ GetAuctionCut(e) <= e.bid
  <2>1. e.bid \in Nat /\ CutPercent \in 0..100
    BY AuctionAssumption, <1>1 DEF AuctionEntry, Money
  <2>2. \A c \in 0..100, b \in Nat : c * b \in Nat /\ c * b <= 100 * b
    OBVIOUS
  <2>3. \A x, b \in Nat : x <= 100 * b => x \div 100 \in Nat /\ x \div 100 <= b
    OBVIOUS
  <2> QED  BY <2>1, <2>2, <2>3 DEF GetAuctionCut
<1> QED  BY <1>1, <1>2, <1>3 DEF Money

LEMMA SaveGoldSound ==
    ASSUME NEW img, SoundImage(img), NEW p \in Players, NEW g \in Money
    PROVE  SoundImage(SaveGold(img, p, g))
  BY DEF SoundImage, SaveGold

LEMMA SaveInventoryAndGoldSound ==
    ASSUME NEW img, SoundImage(img), NEW p \in Players, NEW g \in Money, NEW b \in SUBSET Items
    PROVE  SoundImage(SaveInventoryAndGold(img, p, g, b))
  BY DEF SoundImage, SaveInventoryAndGold

LEMMA BurnSound ==
    ASSUME NEW img, SoundImage(img), NEW n
    PROVE  SoundImage(Burn(img, n))
  BY DEF SoundImage, Burn

LEMMA InsertMailsSound ==
    ASSUME NEW img, SoundImage(img), NEW mails \in SUBSET SoundMail
    PROVE  SoundImage(InsertMails(img, mails))
  BY DEF SoundImage, InsertMails

LEMMA DeleteMailSound ==
    ASSUME NEW img, SoundImage(img), NEW id
    PROVE  SoundImage(DeleteMail(img, id))
  BY DEF SoundImage, DeleteMail

LEMMA SaveAuctionSound ==
    ASSUME NEW img, SoundImage(img), NEW l \in Lots, NEW e \in SoundEntry
    PROVE  SoundImage(SaveAuction(img, l, e))
  BY DEF SoundImage, SaveAuction

LEMMA DeleteAuctionSound ==
    ASSUME NEW img, SoundImage(img), NEW l \in Lots
    PROVE  SoundImage(DeleteAuction(img, l))
  BY DEF SoundImage, DeleteAuction

LEMMA WithoutItem ==
    /\ \A m \in SoundMail : [m EXCEPT !.item = NoItem] \in SoundMail
    /\ \A e \in SoundEntry : [e EXCEPT !.item = NoItem] \in SoundEntry
<1>1. ASSUME NEW m \in SoundMail PROVE [m EXCEPT !.item = NoItem] \in SoundMail
  BY DEF SoundMail, Mail
<1>2. ASSUME NEW e \in SoundEntry PROVE [e EXCEPT !.item = NoItem] \in SoundEntry
  BY DEF SoundEntry, AuctionEntry
<1> QED  BY <1>1, <1>2

LEMMA DestroyItemsSound ==
    ASSUME NEW img, SoundImage(img), NEW items
    PROVE  SoundImage(DestroyItems(img, items))
<1> DEFINE b == [p \in Players |-> img.bag[p] \ items]
           ms == {IF m.item \in items THEN [m EXCEPT !.item = NoItem] ELSE m : m \in img.mail}
           a == [l \in Lots |->
                    IF img.auction[l] # NoLot /\ img.auction[l].item \in items
                    THEN [img.auction[l] EXCEPT !.item = NoItem] ELSE img.auction[l]]
<1>1. b \in [Players -> SUBSET Items]
  BY DEF SoundImage
<1>2. ms \subseteq SoundMail
  BY WithoutItem DEF SoundImage
<1>3. a \in [Lots -> SoundEntry \cup {NoLot}]
  BY WithoutItem DEF SoundImage
<1>4. DestroyItems(img, items) = [img EXCEPT !.bag = b, !.mail = ms, !.auction = a]
  BY DEF DestroyItems, SoundImage
<1> HIDE DEF b, ms, a
<1> QED  BY <1>1, <1>2, <1>3, <1>4 DEF SoundImage

LEMMA SaveMailSound ==
    ASSUME NEW img, SoundImage(img), NEW box \in SUBSET SoundMail
    PROVE  SoundImage(SaveMail(img, box))
<1> DEFINE gone == {m \in box : m.deleted}
           others == {m \in img.mail : \A k \in box : k.id # m.id}
           rows == {k \in Kept(box) : \E m \in img.mail : m.id = k.id}
<1>1. others \cup rows \subseteq SoundMail
  BY DEF SoundImage, Kept
<1>2. SoundImage([img EXCEPT !.mail = others \cup rows])
  <2> HIDE DEF others, rows
  <2> QED  BY <1>1 DEF SoundImage
<1>3. SaveMail(img, box) = Burn(DestroyItems([img EXCEPT !.mail = others \cup rows], MailItems(gone)),
                                MailMoney(gone))
  BY DEF SaveMail
<1> HIDE DEF gone, others, rows
<1> QED  BY <1>2, <1>3, DestroyItemsSound, BurnSound

-----------------------------------------------------------------------------
(* Restart, and the frame of a handler. *)

LEMMA LoadSound ==
    ASSUME NEW img, SoundImage(img)
    PROVE  /\ LoadAuctions(img) \in [Lots -> SoundEntry \cup {NoLot}]
           /\ \A l \in Lots : LoadAuctions(img)[l] # NoLot =>
                (LoadAuctions(img)[l].pending <=> LoadAuctions(img)[l].item = NoItem)
<1>1. ASSUME NEW l \in Lots
      PROVE  /\ LoadAuctions(img)[l] \in SoundEntry \cup {NoLot}
             /\ LoadAuctions(img)[l] # NoLot =>
                  (LoadAuctions(img)[l].pending <=> LoadAuctions(img)[l].item = NoItem)
  <2> DEFINE row == img.auction[l]
  <2>1. row \in SoundEntry \cup {NoLot}
    BY DEF SoundImage
  <2>2. LoadAuctions(img)[l] =
          IF row = NoLot THEN NoLot
          ELSE IF row.pending THEN [row EXCEPT !.item = NoItem]
          ELSE IF row.item = NoItem THEN NoLot ELSE row
    BY DEF LoadAuctions
  <2> HIDE DEF row
  <2>3. row # NoLot => /\ [row EXCEPT !.item = NoItem] \in SoundEntry
                       /\ [row EXCEPT !.item = NoItem].item = NoItem
                       /\ [row EXCEPT !.item = NoItem].pending = row.pending
                       /\ row.pending \in BOOLEAN
    BY <2>1, WithoutItem DEF SoundEntry, AuctionEntry
  <2> QED  BY <2>1, <2>2, <2>3
<1>2. LoadAuctions(img) = [l \in Lots |-> LoadAuctions(img)[l]]
  BY DEF LoadAuctions
<1> QED  BY <1>1, <1>2

LEMMA RestartSound ==
    ASSUME Sound, NEW img, SoundImage(img), Restart(img)
    PROVE  Sound'
<1>1. /\ status' \in [Players -> {"offline", "between", "online"}]
      /\ gold' \in [Players -> Money] /\ bag' \in [Players -> SUBSET Items]
      /\ m_mail' \in [Players -> SUBSET SoundMail]
      /\ \A p \in Players : \A m \in m_mail'[p] : m.to = p
  BY Coins DEF Restart
<1>2. house' \in [Lots -> SoundEntry \cup {NoLot}] /\ PendingHoldsNoItem'
  BY LoadSound DEF Restart, PendingHoldsNoItem, Listed
<1>3. SoundImage(db')
  <2> DEFINE a == [l \in Lots |-> IF house'[l] = NoLot THEN NoLot ELSE img.auction[l]]
  <2>1. a \in [Lots -> SoundEntry \cup {NoLot}]
    BY DEF SoundImage
  <2>2. db' = [img EXCEPT !.auction = a]
    BY DEF Restart
  <2> HIDE DEF a
  <2> QED  BY <2>1, <2>2 DEF SoundImage
<1>4. crashes' \in 0..MaxCrashes /\ raced' \in BOOLEAN
  BY StoreAssumption DEF Sound, Restart
<1> QED  BY <1>1, <1>2, <1>3, <1>4 DEF Sound, SoundImage

LEMMA DiesSound ==
    ASSUME Sound, NEW images, DiesIn(images),
           \A k \in 1..Len(images) - 1 : SoundImage(images[k])
    PROVE  Sound'
  BY RestartSound DEF DiesIn

\* Mails of these two kinds are sound.
LEMMA MailsSound ==
    /\ \A id \in MailIds, from, to \in Players, money \in Nat, cod \in Money,
          item \in Items \cup {NoItem}, checked \in {"", "returned", "codPayment"} :
          PlayerMail(id, from, to, money, cod, item, checked) \in SoundMail
    /\ \A id \in MailIds, to \in Players, money \in Nat, item \in Items \cup {NoItem} :
          AuctionMail(id, to, money, item) \in SoundMail
<1>1. ASSUME NEW id \in MailIds, NEW from \in Players, NEW to \in Players, NEW money \in Nat,
             NEW cod \in Money, NEW item \in Items \cup {NoItem},
             NEW checked \in {"", "returned", "codPayment"}
      PROVE  PlayerMail(id, from, to, money, cod, item, checked) \in SoundMail
  <2>1. PlayerMail(id, from, to, money, cod, item, checked) \in Mail
    BY DEF Mail, PlayerMail
  <2> QED  BY <2>1 DEF SoundMail, PlayerMail
<1>2. ASSUME NEW id \in MailIds, NEW to \in Players, NEW money \in Nat,
             NEW item \in Items \cup {NoItem}
      PROVE  AuctionMail(id, to, money, item) \in SoundMail
  <2>1. AuctionMail(id, to, money, item) \in Mail
    BY Coins DEF Mail, AuctionMail
  <2>2. AuctionMail(id, to, money, item).kind = "auction"
        /\ AuctionMail(id, to, money, item).cod = 0
    BY DEF AuctionMail
  <2> QED  BY <2>1, <2>2 DEF SoundMail
<1> QED  BY <1>1, <1>2

LEMMA ReceivedSound ==
    ASSUME NEW boxes \in [Players -> SUBSET SoundMail], NEW mails \in SUBSET SoundMail,
           \A p \in Players : \A m \in boxes[p] : m.to = p
    PROVE  /\ Received(boxes, mails) \in [Players -> SUBSET SoundMail]
           /\ \A p \in Players : \A m \in Received(boxes, mails)[p] : m.to = p
<1>1. \A p \in Players : Received(boxes, mails)[p] =
        IF Online(p) THEN boxes[p] \cup {m \in mails : m.to = p} ELSE boxes[p]
  BY DEF Received
<1>2. \A p \in Players : Received(boxes, mails)[p] \subseteq SoundMail
  BY <1>1
<1>3. Received(boxes, mails) \in [Players -> SUBSET SoundMail]
  BY <1>2 DEF Received
<1> QED  BY <1>1, <1>3

\* A mail in a box, changed in one of these ways.
LEMMA ChangedSound ==
    ASSUME NEW m \in SoundMail
    PROVE  /\ \A d \in BOOLEAN : /\ [m EXCEPT !.deleted = d] \in SoundMail
                                 /\ [m EXCEPT !.deleted = d].to = m.to
                                 /\ [m EXCEPT !.deleted = d].id = m.id
           /\ ItemTaken(m) \in SoundMail /\ ItemTaken(m).to = m.to /\ ItemTaken(m).id = m.id
           /\ MoneyTaken(m) \in SoundMail /\ MoneyTaken(m).to = m.to /\ MoneyTaken(m).id = m.id
<1>1. ASSUME NEW d \in BOOLEAN
      PROVE  /\ [m EXCEPT !.deleted = d] \in SoundMail
             /\ [m EXCEPT !.deleted = d].to = m.to /\ [m EXCEPT !.deleted = d].id = m.id
  BY DEF SoundMail, Mail
<1>2. ItemTaken(m) \in SoundMail /\ ItemTaken(m).to = m.to /\ ItemTaken(m).id = m.id
  <2>1. ItemTaken(m) \in Mail /\ ItemTaken(m).to = m.to /\ ItemTaken(m).id = m.id
    BY Coins DEF SoundMail, Mail, ItemTaken
  <2>2. /\ ItemTaken(m).kind = m.kind /\ ItemTaken(m).cod = 0
        /\ ItemTaken(m).from = m.from
    BY DEF SoundMail, Mail, ItemTaken
  <2> QED  BY <2>1, <2>2 DEF SoundMail
<1>3. MoneyTaken(m) \in SoundMail /\ MoneyTaken(m).to = m.to /\ MoneyTaken(m).id = m.id
  BY Coins DEF SoundMail, Mail, MoneyTaken
<1> QED  BY <1>1, <1>2, <1>3

LEMMA MailFields ==
    \A m \in SoundMail :
        /\ m.cod \in Money /\ m.cod \in Nat /\ m.money \in Nat
        /\ m.item \in Items \cup {NoItem} /\ m.to \in Players
        /\ m.kind = "normal" \/ m.cod > 0 => m.from \in Players
<1> TAKE m \in SoundMail
<1>1. m \in Mail /\ (m.kind = "normal" \/ m.cod > 0 => m.from \in Players)
  BY DEF SoundMail
<1>2. /\ m.cod \in Money /\ m.money \in Nat
      /\ m.item \in Items \cup {NoItem} /\ m.to \in Players
  BY <1>1 DEF Mail
<1>3. m.cod \in Nat
  BY <1>2, StoreAssumption DEF Money
<1> QED  BY <1>1, <1>2, <1>3

\* The mailbox of p, with m2 for m.
Replaced(p, m, m2) == (m_mail[p] \ {m}) \cup {m2}

LEMMA BoxSound ==
    ASSUME Sound, NEW p \in Players, NEW m \in m_mail[p], NEW m2 \in SoundMail, m2.to = p
    PROVE  /\ Replaced(p, m, m2) \in SUBSET SoundMail
           /\ \A k \in Replaced(p, m, m2) : k.to = p
           /\ [m_mail EXCEPT ![p] = Replaced(p, m, m2)] \in [Players -> SUBSET SoundMail]
           /\ \A q \in Players : \A k \in [m_mail EXCEPT ![p] = Replaced(p, m, m2)][q] : k.to = q
           /\ [m_mail EXCEPT ![p] = Kept(Replaced(p, m, m2))] \in [Players -> SUBSET SoundMail]
           /\ \A q \in Players :
                \A k \in [m_mail EXCEPT ![p] = Kept(Replaced(p, m, m2))][q] : k.to = q
<1> DEFINE box == Replaced(p, m, m2)
<1>1. box \in SUBSET SoundMail /\ \A k \in box : k.to = p
  BY DEF Sound, Replaced
<1>2. Kept(box) \in SUBSET SoundMail /\ \A k \in Kept(box) : k.to = p
  BY <1>1 DEF Kept
<1> HIDE DEF box
<1>3. /\ [m_mail EXCEPT ![p] = box] \in [Players -> SUBSET SoundMail]
      /\ \A q \in Players : \A k \in [m_mail EXCEPT ![p] = box][q] : k.to = q
  BY <1>1 DEF Sound
<1>4. /\ [m_mail EXCEPT ![p] = Kept(box)] \in [Players -> SUBSET SoundMail]
      /\ \A q \in Players : \A k \in [m_mail EXCEPT ![p] = Kept(box)][q] : k.to = q
  BY <1>2 DEF Sound
<1> QED  BY <1>1, <1>3, <1>4 DEF box

-----------------------------------------------------------------------------
(* The mailbox. *)

LEMMA SendMailSound ==
    ASSUME Sound, NEW p \in Players, NEW q \in Players, NEW c \in Contents, NEW id \in MailIds,
           SendMail(p, q, c[1], c[2], c[3], id)
    PROVE  Sound'
<1> DEFINE item == c[1]
           money == c[2]
           cod == c[3]
           cost == Postage + money
           mail == PlayerMail(id, p, q, money, cod, item, "")
           left == Pay(gold[p], cost)
           taken == [db EXCEPT !.bag[p] = @ \ {item}]
           sent == InsertMails(taken, {mail})
           saved == Burn(SaveInventoryAndGold(sent, p, left, bag[p] \ {item}), Postage)
<1>1. item \in Items \cup {NoItem} /\ money \in Nat /\ cod \in Money /\ cost \in Nat
  BY MailAssumption, StoreAssumption DEF Money
<1>2. \/ /\ Commit(<<taken, sent, saved>>)
         /\ gold' = [gold EXCEPT ![p] = left]
         /\ bag' = [bag EXCEPT ![p] = @ \ {item}]
         /\ m_mail' = Received(m_mail, {mail})
         /\ UNCHANGED <<status, house, raced>>
      \/ DiesIn(<<taken, sent, saved>>)
  BY DEF SendMail
<1> HIDE DEF item, money, cod, cost
<1>3. mail \in SoundMail
  BY <1>1, MailsSound
<1>4. left \in Money /\ bag[p] \ {item} \in SUBSET Items
  BY <1>1, Coins DEF Sound
<1> HIDE DEF mail, left
<1>5. SoundImage(taken)
  BY DEF Sound, SoundImage
<1> HIDE DEF taken
<1>6. SoundImage(sent)
  BY <1>3, <1>5, InsertMailsSound
<1> HIDE DEF sent
<1>7. SoundImage(saved)
  BY <1>4, <1>6, SaveInventoryAndGoldSound, BurnSound
<1> HIDE DEF saved
<1>8. ASSUME DiesIn(<<taken, sent, saved>>) PROVE Sound'
  BY <1>5, <1>6, <1>7, <1>8, DiesSound
<1>9. ASSUME db' = saved, UNCHANGED crashes,
             gold' = [gold EXCEPT ![p] = left], bag' = [bag EXCEPT ![p] = @ \ {item}],
             m_mail' = Received(m_mail, {mail}), UNCHANGED <<status, house, raced>>
      PROVE  Sound'
  BY <1>3, <1>4, <1>7, <1>9, ReceivedSound DEF Sound, SoundImage, PendingHoldsNoItem, Listed
<1> QED  BY <1>2, <1>8, <1>9 DEF Commit

LEMMA SendAtOnceSound ==
    ASSUME Sound, NEW p \in Players, NEW q \in Players, NEW c \in Contents, NEW id \in MailIds,
           SendAtOnce(p, q, c[1], c[2], c[3], id)
    PROVE  Sound'
<1> DEFINE item == c[1]
           money == c[2]
           cod == c[3]
           mail == PlayerMail(id, p, q, money, cod, item, "")
           left == Pay(gold[p], Postage + money)
           paid == Burn(SaveInventoryAndGold(db, p, left, bag[p] \ {item}), Postage)
<1>1. item \in Items \cup {NoItem} /\ money \in Nat /\ cod \in Money /\ Postage + money \in Nat
  BY MailAssumption, StoreAssumption DEF Money
<1>2. /\ db' = paid \/ db' = InsertMails(paid, {mail})
      /\ m_mail' = Received(m_mail, {mail}) \/ UNCHANGED m_mail
      /\ gold' = [gold EXCEPT ![p] = left]
      /\ bag' = [bag EXCEPT ![p] = @ \ {item}]
      /\ raced' = TRUE /\ UNCHANGED <<status, house, crashes>>
  BY DEF SendAtOnce
<1> HIDE DEF item, money, cod
<1>3. mail \in SoundMail
  BY <1>1, MailsSound
<1>4. left \in Money /\ bag[p] \ {item} \in SUBSET Items
  BY <1>1, Coins DEF Sound
<1> HIDE DEF mail, left
<1>5. SoundImage(paid)
  BY <1>4, SaveInventoryAndGoldSound, BurnSound DEF Sound
<1> HIDE DEF paid
<1>6. SoundImage(InsertMails(paid, {mail}))
  BY <1>3, <1>5, InsertMailsSound
<1>7. SoundImage(db')
  BY <1>2, <1>5, <1>6 DEF SoundImage
<1>8. /\ m_mail' \in [Players -> SUBSET SoundMail]
      /\ \A r \in Players : \A m \in m_mail'[r] : m.to = r
  BY <1>2, <1>3, ReceivedSound DEF Sound
<1> QED  BY <1>2, <1>4, <1>7, <1>8 DEF Sound, SoundImage, PendingHoldsNoItem, Listed

LEMMA MarkSound ==
    ASSUME Sound, NEW p \in Players, NEW m \in m_mail[p], MailMarkAsRead(p, m) \/ MailDelete(p, m)
    PROVE  Sound'
<1>1. m \in SoundMail /\ m.to = p
  BY DEF Sound
<1>2. PICK d \in BOOLEAN : m_mail' = [m_mail EXCEPT ![p] = (@ \ {m}) \cup {[m EXCEPT !.deleted = d]}]
  BY DEF MailMarkAsRead, MailDelete
<1> DEFINE m2 == [m EXCEPT !.deleted = d]
           box == Replaced(p, m, m2)
<1>3. m2 \in SoundMail /\ m2.to = p
  BY <1>1, ChangedSound
<1> HIDE DEF m2
<1>4. /\ [m_mail EXCEPT ![p] = box] \in [Players -> SUBSET SoundMail]
      /\ \A q \in Players : \A k \in [m_mail EXCEPT ![p] = box][q] : k.to = q
  BY <1>3, BoxSound
<1>5. m_mail' = [m_mail EXCEPT ![p] = box]
  BY <1>2 DEF Replaced, m2
<1> HIDE DEF box
<1>6. UNCHANGED <<status, gold, bag, house, db, crashes, raced>>
  BY DEF MailMarkAsRead, MailDelete
<1> QED  BY <1>4, <1>5, <1>6 DEF Sound, SoundImage, PendingHoldsNoItem, Listed

LEMMA MailReturnToSenderSound ==
    ASSUME Sound, NEW p \in Players, NEW m \in m_mail[p], NEW id \in MailIds,
           MailReturnToSender(p, m, id)
    PROVE  Sound'
<1> DEFINE isNormal == m.kind = "normal"
           back == IF isNormal
                   THEN {PlayerMail(id, p, m.from, m.money, 0, m.item, "returned")} ELSE {}
           deleted == DeleteMail(db, m.id)
           limbo == [deleted EXCEPT !.limbo = @ + m.money]
           inserted == InsertMails(deleted, back)
           burned == Burn(deleted, m.money)
           images == IF isNormal THEN <<limbo, inserted>> ELSE <<burned>>
<1>1. /\ \/ /\ Commit(images)
            /\ m_mail' = Received([m_mail EXCEPT ![p] = @ \ {m}], back)
            /\ UNCHANGED <<status, gold, bag, house, raced>>
         \/ DiesIn(images)
  BY DEF MailReturnToSender
<1>2. m \in SoundMail /\ m.to = p
  BY DEF Sound
<1>3. isNormal => /\ m.from \in Players /\ m.money \in Nat /\ m.item \in Items \cup {NoItem}
                  /\ PlayerMail(id, p, m.from, m.money, 0, m.item, "returned") \in SoundMail
  <2>1. isNormal => m.from \in Players /\ m.money \in Nat /\ m.item \in Items \cup {NoItem}
    BY <1>2 DEF SoundMail, Mail
  <2> QED  BY <2>1, MailsSound, Coins
<1>4. back \in SUBSET SoundMail
  BY <1>3
<1> HIDE DEF back, isNormal
<1>5. SoundImage(deleted)
  BY DeleteMailSound DEF Sound
<1> HIDE DEF deleted
<1>6. SoundImage(limbo)
  BY <1>5 DEF SoundImage
<1>7. SoundImage(inserted) /\ SoundImage(burned)
  BY <1>4, <1>5, InsertMailsSound, BurnSound
<1> HIDE DEF limbo, inserted, burned
<1>8. \A k \in 1..Len(images) : SoundImage(images[k])
  BY <1>6, <1>7
<1>9. Len(images) \in Nat /\ Len(images) > 0
  OBVIOUS
<1> HIDE DEF images
<1>10. ASSUME DiesIn(images) PROVE Sound'
  BY <1>8, <1>9, <1>10, DiesSound
<1>11. ASSUME Commit(images), m_mail' = Received([m_mail EXCEPT ![p] = @ \ {m}], back),
              UNCHANGED <<status, gold, bag, house, raced>>
       PROVE  Sound'
  <2>1. SoundImage(db') /\ UNCHANGED crashes
    BY <1>8, <1>9, <1>11 DEF Commit
  <2>2. /\ m_mail' \in [Players -> SUBSET SoundMail]
        /\ \A q \in Players : \A k \in m_mail'[q] : k.to = q
    <3> DEFINE boxes == [m_mail EXCEPT ![p] = @ \ {m}]
    <3>1. boxes \in [Players -> SUBSET SoundMail] /\ \A q \in Players : \A k \in boxes[q] : k.to = q
      BY DEF Sound
    <3>2. m_mail' = Received(boxes, back)
      BY <1>11
    <3> HIDE DEF boxes
    <3> QED  BY <1>4, <3>1, <3>2, ReceivedSound
  <2> QED  BY <1>11, <2>1, <2>2 DEF Sound, SoundImage, PendingHoldsNoItem, Listed
<1> QED  BY <1>1, <1>10, <1>11

LEMMA MailTakeItemSound ==
    ASSUME Sound, NEW p \in Players, NEW m \in m_mail[p], NEW id \in MailIds, MailTakeItem(p, m, id)
    PROVE  Sound'
<1> DEFINE payment == IF m.cod > 0
                      THEN {PlayerMail(id, p, m.from, m.cod, 0, NoItem, "codPayment")} ELSE {}
           paid == InsertMails(db, payment)
           left == Pay(gold[p], m.cod)
           got == bag[p] \cup {m.item}
           box == Replaced(p, m, ItemTaken(m))
           saved == SaveMail(SaveInventoryAndGold(paid, p, left, got), box)
<1>1. /\ \/ /\ Commit(<<paid, saved>>)
            /\ gold' = [gold EXCEPT ![p] = left] /\ bag' = [bag EXCEPT ![p] = got]
            /\ m_mail' = Received([m_mail EXCEPT ![p] = Kept(box)], payment)
            /\ UNCHANGED <<status, house, raced>>
         \/ DiesIn(<<paid, saved>>)
      /\ m.item # NoItem
  BY DEF MailTakeItem, TakeImages, Replaced
<1>2. m \in SoundMail /\ m.to = p
  BY DEF Sound
<1>3. m.cod \in Money /\ m.cod \in Nat /\ m.item \in Items
  BY <1>1, <1>2, MailFields
<1>4. payment \in SUBSET SoundMail
  <2>1. m.cod > 0 => m.from \in Players
    BY <1>2, MailFields
  <2>2. m.cod > 0 => PlayerMail(id, p, m.from, m.cod, 0, NoItem, "codPayment") \in SoundMail
    BY <1>3, <2>1, MailsSound, Coins
  <2> QED  BY <2>2
<1>5. left \in Money /\ got \in SUBSET Items
  BY <1>3, Coins DEF Sound
<1>6. /\ box \in SUBSET SoundMail
      /\ [m_mail EXCEPT ![p] = Kept(box)] \in [Players -> SUBSET SoundMail]
      /\ \A q \in Players : \A k \in [m_mail EXCEPT ![p] = Kept(box)][q] : k.to = q
  <2>1. ItemTaken(m) \in SoundMail /\ ItemTaken(m).to = p
    BY <1>2, ChangedSound
  <2> QED  BY <2>1, BoxSound
<1> HIDE DEF payment, left, got, box
<1>7. SoundImage(paid)
  BY <1>4, InsertMailsSound DEF Sound
<1> HIDE DEF paid
<1>8. SoundImage(saved)
  BY <1>5, <1>6, <1>7, SaveInventoryAndGoldSound, SaveMailSound
<1> HIDE DEF saved
<1>9. ASSUME DiesIn(<<paid, saved>>) PROVE Sound'
  BY <1>7, <1>8, <1>9, DiesSound
<1>10. ASSUME db' = saved, UNCHANGED crashes,
              gold' = [gold EXCEPT ![p] = left], bag' = [bag EXCEPT ![p] = got],
              m_mail' = Received([m_mail EXCEPT ![p] = Kept(box)], payment),
              UNCHANGED <<status, house, raced>>
       PROVE  Sound'
  <2> DEFINE boxes == [m_mail EXCEPT ![p] = Kept(box)]
  <2>1. boxes \in [Players -> SUBSET SoundMail] /\ \A q \in Players : \A k \in boxes[q] : k.to = q
    BY <1>6
  <2>2. m_mail' = Received(boxes, payment)
    BY <1>10
  <2> HIDE DEF boxes
  <2>3. /\ m_mail' \in [Players -> SUBSET SoundMail]
        /\ \A q \in Players : \A k \in m_mail'[q] : k.to = q
    BY <1>4, <2>1, <2>2, ReceivedSound
  <2> QED  BY <1>5, <1>8, <1>10, <2>3 DEF Sound, SoundImage, PendingHoldsNoItem, Listed
<1> QED  BY <1>1, <1>9, <1>10 DEF Commit

LEMMA MailTakeMoneySound ==
    ASSUME Sound, NEW p \in Players, NEW m \in m_mail[p], MailTakeMoney(p, m)
    PROVE  Sound'
<1> DEFINE now == Earn(gold[p], m.money)
           box == Replaced(p, m, MoneyTaken(m))
           burned == gold[p] + m.money - now
           saved == Burn(SaveMail(SaveGold(db, p, now), box), burned)
<1>1. /\ db' = saved /\ UNCHANGED crashes
      /\ gold' = [gold EXCEPT ![p] = now] /\ m_mail' = [m_mail EXCEPT ![p] = Kept(box)]
      /\ UNCHANGED <<status, bag, house, raced>>
  BY DEF MailTakeMoney, Commit, Replaced
<1>2. m \in SoundMail /\ m.to = p /\ m.money \in Nat
  BY MailFields DEF Sound
<1>3. now \in Money
  BY <1>2, Coins DEF Sound
<1>4. /\ box \in SUBSET SoundMail
      /\ [m_mail EXCEPT ![p] = Kept(box)] \in [Players -> SUBSET SoundMail]
      /\ \A q \in Players : \A k \in [m_mail EXCEPT ![p] = Kept(box)][q] : k.to = q
  <2>1. MoneyTaken(m) \in SoundMail /\ MoneyTaken(m).to = p
    BY <1>2, ChangedSound
  <2> QED  BY <2>1, BoxSound
<1> HIDE DEF now, box, burned
<1>5. SoundImage(saved)
  BY <1>3, <1>4, SaveGoldSound, SaveMailSound, BurnSound DEF Sound
<1> HIDE DEF saved
<1> QED  BY <1>1, <1>3, <1>4, <1>5 DEF Sound, SoundImage, PendingHoldsNoItem, Listed

LEMMA SweepMailSound ==
    ASSUME Sound, NEW m \in db.mail, SweepMail(m)
    PROVE  Sound'
<1> DEFINE returns == m.item # NoItem /\ m.kind = "normal" /\ m.checked = ""
           deleted == DeleteMail(db, m.id)
           destroyed == DestroyItems(db, {m.item})
           back == [m EXCEPT !.from = m.to, !.to = m.from, !.cod = 0, !.checked = "returned"]
           inserted == InsertMails(deleted, {back})
           burned == Burn(DeleteMail(destroyed, m.id), m.money)
           images == IF returns THEN <<inserted>> ELSE <<destroyed, burned>>
<1>1. /\ \/ /\ Commit(images)
            /\ raced' \in BOOLEAN /\ UNCHANGED <<player, house>>
         \/ DiesIn(images)
  BY DEF SweepMail, Sound
<1>2. m \in SoundMail
  BY DEF Sound, SoundImage
<1>3. returns => back \in SoundMail
  BY <1>2, Coins DEF SoundMail, Mail
<1> HIDE DEF back
<1>4. SoundImage(deleted) /\ SoundImage(destroyed)
  BY DeleteMailSound, DestroyItemsSound DEF Sound
<1> HIDE DEF deleted, destroyed
<1>5. SoundImage(burned)
  BY <1>4, DeleteMailSound, BurnSound
<1>6. returns => SoundImage(inserted)
  BY <1>3, <1>4, InsertMailsSound
<1> HIDE DEF inserted, burned, returns
<1>7. \A k \in 1..Len(images) : SoundImage(images[k])
  BY <1>4, <1>5, <1>6
<1>8. Len(images) \in Nat /\ Len(images) > 0
  OBVIOUS
<1> HIDE DEF images
<1>9. ASSUME DiesIn(images) PROVE Sound'
  BY <1>7, <1>8, <1>9, DiesSound
<1>10. ASSUME Commit(images), raced' \in BOOLEAN, UNCHANGED <<player, house>> PROVE Sound'
  <2>1. SoundImage(db') /\ UNCHANGED crashes
    BY <1>7, <1>8, <1>10 DEF Commit
  <2> QED  BY <1>10, <2>1 DEF Sound, SoundImage, PendingHoldsNoItem, Listed, player
<1> QED  BY <1>1, <1>9, <1>10

-----------------------------------------------------------------------------
(* The auction house. *)

LEMMA EntryFields ==
    \A e \in SoundEntry :
        /\ e.item \in Items \cup {NoItem} /\ e.owner \in Players
        /\ e.startbid \in Money /\ e.buyout \in Money /\ e.bid \in Money /\ e.deposit \in Money
        /\ e.startbid \in Nat /\ e.buyout \in Nat /\ e.bid \in Nat /\ e.deposit \in Nat
        /\ e.bidder \in Players \cup {NoBidder} /\ e.pending \in BOOLEAN
        /\ e.buyout # 0 => e.bid <= e.buyout
        /\ e.bid > 0 => e.bidder \in Players
        /\ e.pending => e.item = NoItem
        /\ GetAuctionCut(e) \in Nat /\ GetAuctionCut(e) <= e.bid
<1> TAKE e \in SoundEntry
<1>1. /\ e \in AuctionEntry
      /\ e.buyout # 0 => e.bid <= e.buyout
      /\ e.bid > 0 => e.bidder \in Players
      /\ e.pending => e.item = NoItem
  BY DEF SoundEntry
<1>2. /\ e.item \in Items \cup {NoItem} /\ e.owner \in Players
      /\ e.startbid \in Money /\ e.buyout \in Money /\ e.bid \in Money /\ e.deposit \in Money
      /\ e.bidder \in Players \cup {NoBidder} /\ e.pending \in BOOLEAN
  BY <1>1 DEF AuctionEntry
<1>3. \A n \in Money : n \in Nat
  BY StoreAssumption DEF Money
<1>4. GetAuctionCut(e) \in Nat /\ GetAuctionCut(e) <= e.bid
  BY <1>1, Coins
<1> QED  BY <1>1, <1>2, <1>3, <1>4

LEMMA WonSound ==
    ASSUME NEW e \in SoundEntry
    PROVE  LET d == Won(e) IN
           /\ d \in SoundEntry /\ d.pending /\ d.item = NoItem
           /\ d.bidder = e.bidder /\ d.bid = e.bid /\ d.buyout = e.buyout
  BY DEF SoundEntry, AuctionEntry, Won

\* The mails of a bid.
LEMMA BidMailsSound ==
    ASSUME NEW e \in SoundEntry, NEW id \in MailIds, NEW p
    PROVE  /\ Outbidden(id, e, p) \in SUBSET SoundMail
           /\ e.bidder \in Players => WonMails(id, e) \in SUBSET SoundMail
<1>1. /\ e.bidder \in Players \cup {NoBidder} /\ e.bid \in Nat
      /\ e.item \in Items \cup {NoItem}
  BY EntryFields
<1>2. e.bidder \in Players => /\ AuctionMail(id, e.bidder, e.bid, NoItem) \in SoundMail
                              /\ AuctionMail(id, e.bidder, 0, e.item) \in SoundMail
  BY <1>1, MailsSound
<1> QED  BY <1>1, <1>2 DEF Outbidden, WonMails

\* A handler of the auction house changes one lot and sends mails.
LEMMA LotSound ==
    ASSUME Sound, NEW l \in Lots, NEW e \in SoundEntry \cup {NoLot},
           e # NoLot => (e.pending <=> e.item = NoItem),
           SoundImage(db'), UNCHANGED <<crashes, status>>, raced' \in BOOLEAN,
           gold' \in [Players -> Money], bag' \in [Players -> SUBSET Items],
           house' = [house EXCEPT ![l] = e],
           NEW mails \in SUBSET SoundMail, m_mail' = Received(m_mail, mails)
    PROVE  Sound'
<1>1. /\ m_mail' \in [Players -> SUBSET SoundMail]
      /\ \A q \in Players : \A k \in m_mail'[q] : k.to = q
  BY ReceivedSound DEF Sound
<1>2. house' \in [Lots -> SoundEntry \cup {NoLot}]
  BY DEF Sound
<1>3. PendingHoldsNoItem'
  <2> SUFFICES ASSUME NEW k \in Lots, house'[k] # NoLot
               PROVE  house'[k].pending <=> house'[k].item = NoItem
    BY DEF PendingHoldsNoItem, Listed
  <2>1. CASE k = l
    BY <2>1 DEF Sound
  <2>2. CASE k # l
    BY <2>2 DEF Sound, PendingHoldsNoItem, Listed
  <2> QED  BY <2>1, <2>2
<1> QED  BY <1>1, <1>2, <1>3 DEF Sound, SoundImage

LEMMA SellItemSound ==
    ASSUME Sound, NEW p \in Players, NEW l \in Lots, NEW item \in Items,
           NEW startbid \in StartBids, NEW buyout \in Buyouts, SellItem(p, l, item, startbid, buyout)
    PROVE  Sound'
<1> DEFINE left == Pay(gold[p], Deposit)
           entry == [item |-> item, owner |-> p, startbid |-> startbid, buyout |-> buyout,
                     bid |-> 0, bidder |-> NoBidder, deposit |-> Deposit, pending |-> FALSE]
           saved == SaveInventoryAndGold(SaveAuction(db, l, entry), p, left, bag[p] \ {item})
<1>1. /\ db' = saved /\ UNCHANGED crashes
      /\ house' = [house EXCEPT ![l] = entry]
      /\ gold' = [gold EXCEPT ![p] = left] /\ bag' = [bag EXCEPT ![p] = @ \ {item}]
      /\ UNCHANGED <<status, m_mail, raced>>
      /\ gold[p] >= Deposit
  BY DEF SellItem, Commit
<1>2. Deposit \in Nat /\ startbid \in Money /\ buyout \in Money
  BY AuctionAssumption
<1>3. Deposit \in Money
  BY <1>1, <1>2, StoreAssumption DEF Sound, Money
<1>4. entry \in SoundEntry
  <2>1. entry \in AuctionEntry
    BY <1>2, <1>3, Coins DEF AuctionEntry
  <2>2. buyout \in Nat
    BY <1>2, StoreAssumption DEF Money
  <2> QED  BY <2>1, <2>2 DEF SoundEntry
<1>5. ~entry.pending /\ entry.item # NoItem
  BY StoreAssumption
<1>6. left \in Money /\ bag[p] \ {item} \in SUBSET Items
  BY <1>2, Coins DEF Sound
<1> HIDE DEF left, entry
<1>7. SoundImage(saved)
  BY <1>4, <1>6, SaveAuctionSound, SaveInventoryAndGoldSound DEF Sound
<1> HIDE DEF saved
<1>8. house' \in [Lots -> SoundEntry \cup {NoLot}]
  BY <1>1, <1>4 DEF Sound
<1>9. PendingHoldsNoItem'
  <2> SUFFICES ASSUME NEW k \in Lots, house'[k] # NoLot
               PROVE  house'[k].pending <=> house'[k].item = NoItem
    BY DEF PendingHoldsNoItem, Listed
  <2>1. CASE k = l
    BY <1>1, <1>5, <2>1 DEF Sound
  <2>2. CASE k # l
    BY <1>1, <2>2 DEF Sound, PendingHoldsNoItem, Listed
  <2> QED  BY <2>1, <2>2
<1> QED  BY <1>1, <1>6, <1>7, <1>8, <1>9 DEF Sound, SoundImage

LEMMA PlaceBidSound ==
    ASSUME Sound, NEW p \in Players, NEW l \in Lots, NEW price \in Money,
           NEW id \in MailIds, NEW wonId \in MailIds, PlaceBid(p, l, price, id, wonId)
    PROVE  Sound'
<1> DEFINE e == house[l]
           newbid == IF e.buyout # 0 /\ price > e.buyout THEN e.buyout ELSE price
           cost == IF e.bidder = p THEN newbid - e.bid ELSE newbid
           left == Pay(gold[p], cost)
           entry == [e EXCEPT !.bidder = p, !.bid = newbid]
           isBuyout == e.buyout # 0 /\ newbid >= e.buyout
           after == IF isBuyout THEN Won(entry) ELSE entry
           refund == Outbidden(id, e, p)
           won == IF isBuyout THEN WonMails(wonId, entry) ELSE {}
           refunded == InsertMails(db, refund)
           saved == SaveInventoryAndGold(SaveAuction(refunded, l, after), p, left, bag[p])
           sent == InsertMails(saved, won)
<1>1. /\ Listed(l) /\ price > e.bid
      /\ \/ /\ Commit(<<refunded, saved, sent>>)
            /\ house' = [house EXCEPT ![l] = after]
            /\ gold' = [gold EXCEPT ![p] = left]
            /\ m_mail' = Received(m_mail, refund \cup won)
            /\ UNCHANGED <<status, bag, raced>>
         \/ DiesIn(<<refunded, saved, sent>>)
  BY DEF PlaceBid, CanBid, NewBid, IsBuyout, LeftAfterBid, BidOf, BidWonMails
<1>2. e \in SoundEntry /\ (e.pending <=> e.item = NoItem)
  BY <1>1 DEF Sound, Listed, PendingHoldsNoItem
<1> HIDE DEF e
<1>3. /\ newbid \in Money /\ newbid \in Nat /\ newbid >= e.bid
      /\ (e.buyout # 0 => newbid <= e.buyout) /\ newbid > 0
  <2>1. e.buyout \in Money /\ e.buyout \in Nat /\ e.bid \in Nat /\ (e.buyout # 0 => e.bid <= e.buyout)
    BY <1>2, EntryFields
  <2>2. price \in Nat
    BY StoreAssumption DEF Money
  <2> QED  BY <1>1, <2>1, <2>2
<1> HIDE DEF newbid
<1>4. cost \in Nat
  BY <1>2, <1>3, EntryFields
<1>5. /\ entry \in SoundEntry /\ entry.bidder = p /\ entry.pending = e.pending
      /\ entry.item = e.item
  <2>1. /\ entry \in AuctionEntry /\ entry.bidder = p /\ entry.bid = newbid
        /\ entry.pending = e.pending /\ entry.item = e.item /\ entry.buyout = e.buyout
    BY <1>2, <1>3 DEF SoundEntry, AuctionEntry
  <2>2. e.pending => e.item = NoItem
    BY <1>2
  <2> HIDE DEF entry
  <2> QED  BY <1>3, <2>1, <2>2 DEF SoundEntry
<1>6. left \in Money /\ bag[p] \in SUBSET Items
  BY <1>4, Coins DEF Sound
<1> HIDE DEF cost, left, entry
<1>7. after \in SoundEntry /\ (after.pending <=> after.item = NoItem)
  BY <1>2, <1>5, WonSound
<1>8. refund \in SUBSET SoundMail /\ won \in SUBSET SoundMail
  BY <1>2, <1>5, BidMailsSound
<1> HIDE DEF isBuyout, after, refund, won
<1>9. SoundImage(refunded)
  BY <1>8, InsertMailsSound DEF Sound
<1> HIDE DEF refunded
<1>10. SoundImage(saved)
  BY <1>6, <1>7, <1>9, SaveAuctionSound, SaveInventoryAndGoldSound
<1> HIDE DEF saved
<1>11. SoundImage(sent)
  BY <1>8, <1>10, InsertMailsSound
<1> HIDE DEF sent
<1>12. ASSUME DiesIn(<<refunded, saved, sent>>) PROVE Sound'
  BY <1>9, <1>10, <1>11, <1>12, DiesSound
<1>13. ASSUME db' = sent, UNCHANGED crashes, house' = [house EXCEPT ![l] = after],
              gold' = [gold EXCEPT ![p] = left], m_mail' = Received(m_mail, refund \cup won),
              UNCHANGED <<status, bag, raced>>
       PROVE  Sound'
  <2>1. gold' \in [Players -> Money] /\ bag' \in [Players -> SUBSET Items]
    BY <1>6, <1>13 DEF Sound
  <2>2. refund \cup won \in SUBSET SoundMail
    BY <1>8
  <2>3. SoundImage(db')
    BY <1>11, <1>13 DEF SoundImage
  <2>4. raced' \in BOOLEAN
    BY <1>13 DEF Sound
  <2> QED  BY <1>7, <1>13, <2>1, <2>2, <2>3, <2>4, LotSound
<1> QED  BY <1>1, <1>12, <1>13 DEF Commit

LEMMA CancelAuctionSound ==
    ASSUME Sound, NEW p \in Players, NEW l \in Lots, NEW id \in MailIds, NEW itemId \in MailIds,
           CancelAuction(p, l, id, itemId)
    PROVE  Sound'
<1> DEFINE e == house[l]
           left == Pay(gold[p], GetAuctionCut(e))
           refund == IF e.bid = 0 THEN {} ELSE {AuctionMail(id, e.bidder, e.bid, NoItem)}
           item == AuctionMail(itemId, p, 0, e.item)
           refunded == InsertMails(db, refund)
           returned == InsertMails(refunded, {item})
           removed == SaveInventoryAndGold(DeleteAuction(returned, l), p, left, bag[p])
           burned == Burn(removed, e.deposit + GetAuctionCut(e))
<1>1. /\ Listed(l)
      /\ \/ /\ Commit(<<refunded, returned, burned>>)
            /\ house' = [house EXCEPT ![l] = NoLot]
            /\ gold' = [gold EXCEPT ![p] = left]
            /\ m_mail' = Received(m_mail, refund \cup {item})
            /\ UNCHANGED <<status, bag, raced>>
         \/ DiesIn(<<refunded, returned, burned>>)
  BY DEF CancelAuction, CanCancel, CancelRefund
<1>2. e \in SoundEntry
  BY <1>1 DEF Sound, Listed
<1> HIDE DEF e
<1>3. left \in Money /\ bag[p] \in SUBSET Items
  BY <1>2, EntryFields, Coins DEF Sound
<1>4. refund \in SUBSET SoundMail
  <2>1. e.bid # 0 => e.bidder \in Players /\ e.bid \in Nat
    BY <1>2, EntryFields
  <2> QED  BY <2>1, MailsSound
<1>5. item \in SoundMail
  <2>1. e.item \in Items \cup {NoItem}
    BY <1>2, EntryFields
  <2> QED  BY <2>1, MailsSound
<1> HIDE DEF left, refund, item
<1>6. SoundImage(refunded)
  BY <1>4, InsertMailsSound DEF Sound
<1> HIDE DEF refunded
<1>7. SoundImage(returned)
  BY <1>5, <1>6, InsertMailsSound
<1> HIDE DEF returned
<1>8. SoundImage(burned)
  BY <1>3, <1>7, DeleteAuctionSound, SaveInventoryAndGoldSound, BurnSound
<1> HIDE DEF removed, burned
<1>9. ASSUME DiesIn(<<refunded, returned, burned>>) PROVE Sound'
  BY <1>6, <1>7, <1>8, <1>9, DiesSound
<1>10. ASSUME db' = burned, UNCHANGED crashes, house' = [house EXCEPT ![l] = NoLot],
              gold' = [gold EXCEPT ![p] = left], m_mail' = Received(m_mail, refund \cup {item}),
              UNCHANGED <<status, bag, raced>>
       PROVE  Sound'
  <2>1. gold' \in [Players -> Money] /\ bag' \in [Players -> SUBSET Items]
    BY <1>3, <1>10 DEF Sound
  <2>2. refund \cup {item} \in SUBSET SoundMail
    BY <1>4, <1>5
  <2>3. SoundImage(db')
    BY <1>8, <1>10 DEF SoundImage
  <2>4. raced' \in BOOLEAN
    BY <1>10 DEF Sound
  <2> QED  BY <1>10, <2>1, <2>2, <2>3, <2>4, LotSound
<1> QED  BY <1>1, <1>9, <1>10 DEF Commit

LEMMA BidOfSound ==
    ASSUME NEW e \in SoundEntry, NEW r \in Players, NEW bid \in Money, bid > 0,
           e.buyout # 0 => bid <= e.buyout
    PROVE  LET d == BidOf(e, r, bid) IN
           /\ d \in SoundEntry /\ d.bidder = r /\ d.pending = e.pending /\ d.item = e.item
<1> DEFINE d == BidOf(e, r, bid)
<1>1. /\ d \in AuctionEntry /\ d.bidder = r /\ d.bid = bid
      /\ d.pending = e.pending /\ d.item = e.item /\ d.buyout = e.buyout
  BY DEF SoundEntry, AuctionEntry, BidOf
<1>2. e.pending => e.item = NoItem
  BY DEF SoundEntry
<1> HIDE DEF d
<1>3. d \in SoundEntry
  BY <1>1, <1>2 DEF SoundEntry
<1> QED  BY <1>1, <1>3 DEF d

\* A bid that passes the checks, before either of two handlers has written it.
LEMMA BidSound ==
    ASSUME Sound, NEW p \in Players, NEW l \in Lots, NEW price \in Money, CanBid(p, l, price)
    PROVE  LET e == house[l]
               bid == NewBid(e, price)
           IN
           /\ e \in SoundEntry /\ (e.pending <=> e.item = NoItem)
           /\ bid \in Money /\ bid > 0 /\ (e.buyout # 0 => bid <= e.buyout)
           /\ LeftAfterBid(e, p, bid) \in Money
           /\ \A id \in MailIds : /\ Outbidden(id, e, p) \in SUBSET SoundMail
                                  /\ BidWonMails(id, e, p, bid) \in SUBSET SoundMail
<1> DEFINE e == house[l]
           bid == NewBid(e, price)
<1>1. Listed(l) /\ price > e.bid
  BY DEF CanBid
<1>2. e \in SoundEntry /\ (e.pending <=> e.item = NoItem)
  BY <1>1 DEF Sound, Listed, PendingHoldsNoItem
<1> HIDE DEF e
<1>3. /\ bid \in Money /\ bid \in Nat /\ bid >= e.bid /\ bid > 0
      /\ (e.buyout # 0 => bid <= e.buyout)
  <2>1. e.buyout \in Money /\ e.buyout \in Nat /\ e.bid \in Nat /\ (e.buyout # 0 => e.bid <= e.buyout)
    BY <1>2, EntryFields
  <2>2. price \in Nat
    BY StoreAssumption DEF Money
  <2> QED  BY <1>1, <2>1, <2>2 DEF NewBid
<1> HIDE DEF bid
<1>4. LeftAfterBid(e, p, bid) \in Money
  <2>1. e.bid \in Nat /\ gold[p] \in Money
    BY <1>2, EntryFields DEF Sound
  <2> DEFINE cost == IF e.bidder = p THEN bid - e.bid ELSE bid
  <2>2. cost \in Nat
    BY <1>3, <2>1
  <2>3. LeftAfterBid(e, p, bid) = Pay(gold[p], cost)
    BY DEF LeftAfterBid
  <2> HIDE DEF cost
  <2> QED  BY <2>1, <2>2, <2>3, Coins
<1>5. BidOf(e, p, bid) \in SoundEntry /\ BidOf(e, p, bid).bidder \in Players
  BY <1>2, <1>3, BidOfSound
<1>6. ASSUME NEW id \in MailIds
      PROVE  /\ Outbidden(id, e, p) \in SUBSET SoundMail
             /\ BidWonMails(id, e, p, bid) \in SUBSET SoundMail
  BY <1>2, <1>5, BidMailsSound DEF BidWonMails
<1> QED  BY <1>2, <1>3, <1>4, <1>6 DEF e, bid

LEMMA BothDoneSound ==
    ASSUME Sound, NEW p \in Players, NEW q \in Players, NEW leftP \in Money, NEW leftQ \in Money,
           NEW l \in Lots, NEW row \in SoundEntry \cup {NoLot}, NEW burned,
           NEW mails \in SUBSET SoundMail, BothDone(p, leftP, q, leftQ, row, l, burned, mails),
           NEW e \in SoundEntry \cup {NoLot}, e # NoLot => (e.pending <=> e.item = NoItem),
           house' = [house EXCEPT ![l] = e]
    PROVE  Sound'
<1> DEFINE written == [db EXCEPT !.auction[l] = row]
           savedP == SaveInventoryAndGold(written, p, leftP, bag[p])
           savedQ == SaveInventoryAndGold(savedP, q, leftQ, bag[q])
           done == Burn(InsertMails(savedQ, mails), burned)
<1>1. /\ db' = done /\ gold' = [gold EXCEPT ![p] = leftP, ![q] = leftQ]
      /\ m_mail' = Received(m_mail, mails) /\ raced' = TRUE
      /\ UNCHANGED <<status, bag, crashes>>
  BY DEF BothDone
<1>2. SoundImage(written)
  BY DEF Sound, SoundImage
<1> HIDE DEF written
<1>3. SoundImage(savedP)
  BY <1>2, SaveInventoryAndGoldSound DEF Sound
<1> HIDE DEF savedP
<1>4. SoundImage(savedQ)
  BY <1>3, SaveInventoryAndGoldSound DEF Sound
<1> HIDE DEF savedQ
<1>5. SoundImage(done)
  BY <1>4, InsertMailsSound, BurnSound
<1> HIDE DEF done
<1>6. SoundImage(db')
  BY <1>1, <1>5 DEF SoundImage
<1>7. gold' \in [Players -> Money] /\ bag' \in [Players -> SUBSET Items] /\ raced' \in BOOLEAN
  BY <1>1 DEF Sound
<1> QED  BY <1>1, <1>6, <1>7, LotSound

LEMMA BidsAtOnceSound ==
    ASSUME Sound, NEW l \in Lots, NEW p \in Players, NEW q \in Players, NEW priceP \in Money,
           NEW priceQ \in Money, BidsAtOnce(l, p, priceP, q, priceQ)
    PROVE  Sound'
<1> DEFINE e == house[l]
           bidP == NewBid(e, priceP)
           bidQ == NewBid(e, priceQ)
           written == MixedBids(e, p, bidP, q, bidQ)
           Later(w) == IF IsBuyout(e, bidP) \/ IsBuyout(e, bidQ) THEN Won(w) ELSE w
           Mails(i, j, k, n) == Outbidden(i, e, p) \cup Outbidden(j, e, q)
              \cup BidWonMails(k, e, p, bidP) \cup BidWonMails(n, e, q, bidQ)
<1>1. CanBid(p, l, priceP) /\ CanBid(q, l, priceQ)
  BY DEF BidsAtOnce
<1>2. \E inMemory, inRow \in written, i, j, k, n \in MailIds :
        /\ house' = [house EXCEPT ![l] = Later(inMemory)]
        /\ BothDone(p, LeftAfterBid(e, p, bidP), q, LeftAfterBid(e, q, bidQ), Later(inRow), l, 0,
             Mails(i, j, k, n))
  BY ONLY BidsAtOnce(l, p, priceP, q, priceQ) DEF BidsAtOnce
<1>3. /\ e \in SoundEntry /\ (e.pending <=> e.item = NoItem)
      /\ LeftAfterBid(e, p, bidP) \in Money /\ LeftAfterBid(e, q, bidQ) \in Money
      /\ \A i, j, k, n \in MailIds : Mails(i, j, k, n) \in SUBSET SoundMail
  BY <1>1, BidSound
<1>4. \A bid \in {bidP, bidQ} : bid \in Money /\ bid > 0 /\ (e.buyout # 0 => bid <= e.buyout)
  BY <1>1, BidSound
<1> HIDE DEF e, bidP, bidQ, Mails
<1>5. \A w \in written : w \in SoundEntry /\ (w.pending <=> w.item = NoItem)
  BY <1>3, <1>4, BidOfSound DEF MixedBids
<1> HIDE DEF written
<1>6. \A w \in written : Later(w) \in SoundEntry /\ (Later(w).pending <=> Later(w).item = NoItem)
  BY <1>5, WonSound
<1> HIDE DEF Later
<1> QED  BY <1>2, <1>3, <1>6, BothDoneSound

LEMMA CancelAtOnceSound ==
    ASSUME Sound, NEW l \in Lots, NEW p \in Players, NEW q \in Players, NEW price \in Money,
           CancelAtOnce(l, p, q, price)
    PROVE  Sound'
<1> DEFINE e == house[l]
           bid == NewBid(e, price)
           cut == GetAuctionCut(e)
           Mails(i, j, k, n) == CancelRefund(i, e) \cup {AuctionMail(j, p, 0, e.item)}
              \cup Outbidden(k, e, q) \cup BidWonMails(n, e, q, bid)
<1>1. CanBid(q, l, price) /\ house' = [house EXCEPT ![l] = NoLot]
  BY DEF CancelAtOnce
<1>2. PICK i \in MailIds, j \in MailIds, k \in MailIds, n \in MailIds :
        BothDone(p, Pay(gold[p], cut), q, LeftAfterBid(e, q, bid), NoLot, l, e.deposit + cut,
             Mails(i, j, k, n))
  BY Zenon DEF CancelAtOnce
<1>3. /\ e \in SoundEntry /\ LeftAfterBid(e, q, bid) \in Money
      /\ Outbidden(k, e, q) \in SUBSET SoundMail /\ BidWonMails(n, e, q, bid) \in SUBSET SoundMail
  BY <1>1, BidSound
<1> HIDE DEF e, bid
<1>4. /\ cut \in Nat /\ e.item \in Items \cup {NoItem} /\ e.bid \in Nat
      /\ e.bid > 0 => e.bidder \in Players
  BY <1>3, EntryFields
<1>5. Pay(gold[p], cut) \in Money
  BY <1>4, Coins DEF Sound
<1>6. CancelRefund(i, e) \in SUBSET SoundMail /\ {AuctionMail(j, p, 0, e.item)} \in SUBSET SoundMail
  <2>1. AuctionMail(j, p, 0, e.item) \in SoundMail
    <3>1. 0 \in Nat
      OBVIOUS
    <3> QED  BY <1>4, <3>1, MailsSound, Zenon
  <2>2. ASSUME e.bid # 0 PROVE AuctionMail(i, e.bidder, e.bid, NoItem) \in SoundMail
    <3>1. e.bidder \in Players /\ e.bid \in Nat /\ NoItem \in Items \cup {NoItem}
      BY <1>4, <2>2
    <3> QED  BY <3>1, MailsSound, Zenon
  <2> QED  BY <2>1, <2>2 DEF CancelRefund
<1>7. Mails(i, j, k, n) \in SUBSET SoundMail
  BY <1>3, <1>6
<1> HIDE DEF cut, Mails
<1> QED  BY <1>1, <1>2, <1>3, <1>5, <1>7, BothDoneSound

LEMMA EndSound ==
    ASSUME Sound, NEW l \in Lots, NEW mail \in SoundMail, NEW burned, End(l, mail, burned)
    PROVE  Sound'
<1> DEFINE sent == InsertMails(db, {mail})
           ended == Burn(DeleteAuction(sent, l), burned)
<1>1. \/ /\ Commit(<<sent, ended>>)
         /\ house' = [house EXCEPT ![l] = NoLot]
         /\ m_mail' = Received(m_mail, {mail})
         /\ UNCHANGED <<status, gold, bag, raced>>
      \/ DiesIn(<<sent, ended>>)
  BY DEF End, MailThenDelete
<1>2. SoundImage(sent)
  BY InsertMailsSound DEF Sound
<1> HIDE DEF sent
<1>3. SoundImage(ended)
  BY <1>2, DeleteAuctionSound, BurnSound
<1> HIDE DEF ended
<1>4. ASSUME DiesIn(<<sent, ended>>) PROVE Sound'
  BY <1>2, <1>3, <1>4, DiesSound
<1>5. ASSUME db' = ended, UNCHANGED crashes, house' = [house EXCEPT ![l] = NoLot],
             m_mail' = Received(m_mail, {mail}), UNCHANGED <<status, gold, bag, raced>>
      PROVE  Sound'
  <2>1. gold' \in [Players -> Money] /\ bag' \in [Players -> SUBSET Items]
    BY <1>5 DEF Sound
  <2>2. {mail} \in SUBSET SoundMail
    OBVIOUS
  <2>3. SoundImage(db')
    BY <1>3, <1>5 DEF SoundImage
  <2>4. raced' \in BOOLEAN
    BY <1>5 DEF Sound
  <2> QED  BY <1>5, <2>1, <2>2, <2>3, <2>4, LotSound
<1> QED  BY <1>1, <1>4, <1>5 DEF Commit

LEMMA ExpireSound ==
    ASSUME Sound, NEW l \in Lots, NEW id \in MailIds, DeliverMoney(l, id) \/ Expire(l, id)
    PROVE  Sound'
<1> DEFINE e == house[l]
<1>1. e \in SoundEntry
  BY DEF Sound, DeliverMoney, Expire, Listed
<1>2. /\ e.owner \in Players /\ e.item \in Items \cup {NoItem}
      /\ e.bid + e.deposit - GetAuctionCut(e) \in Nat
  BY <1>1, EntryFields
<1>3. CASE DeliverMoney(l, id)
  <2>1. AuctionMail(id, e.owner, e.bid + e.deposit - GetAuctionCut(e), NoItem) \in SoundMail
    BY <1>2, MailsSound
  <2> QED  BY <1>3, <2>1, EndSound DEF DeliverMoney
<1>4. CASE Expire(l, id)
  <2>1. AuctionMail(id, e.owner, 0, e.item) \in SoundMail
    BY <1>2, MailsSound
  <2> QED  BY <1>4, <2>1, EndSound DEF Expire
<1> QED  BY <1>3, <1>4

LEMMA ExpireWonSound ==
    ASSUME Sound, NEW l \in Lots, NEW id \in MailIds, ExpireWon(l, id)
    PROVE  Sound'
<1> DEFINE e == house[l]
           saved == SaveAuction(db, l, Won(e))
           mails == WonMails(id, e)
           sent == InsertMails(saved, mails)
<1>1. /\ Listed(l) /\ e.bid > 0
      /\ \/ /\ Commit(<<saved, sent>>)
            /\ house' = [house EXCEPT ![l] = Won(e)]
            /\ m_mail' = Received(m_mail, mails)
            /\ UNCHANGED <<status, gold, bag, raced>>
         \/ DiesIn(<<saved, sent>>)
  BY DEF ExpireWon
<1>2. e \in SoundEntry
  BY <1>1 DEF Sound, Listed
<1>3. e.bidder \in Players
  BY <1>1, <1>2, EntryFields
<1> HIDE DEF e
<1>4. mails \in SUBSET SoundMail /\ Won(e) \in SoundEntry
      /\ (Won(e).pending <=> Won(e).item = NoItem)
  BY <1>2, <1>3, BidMailsSound, WonSound
<1>5. SoundImage(saved)
  BY <1>4, SaveAuctionSound DEF Sound
<1> HIDE DEF mails, saved
<1>6. SoundImage(sent)
  BY <1>4, <1>5, InsertMailsSound
<1> HIDE DEF sent
<1>7. ASSUME DiesIn(<<saved, sent>>) PROVE Sound'
  BY <1>5, <1>6, <1>7, DiesSound
<1>8. ASSUME db' = sent, UNCHANGED crashes, house' = [house EXCEPT ![l] = Won(e)],
             m_mail' = Received(m_mail, mails), UNCHANGED <<status, gold, bag, raced>>
      PROVE  Sound'
  <2>1. gold' \in [Players -> Money] /\ bag' \in [Players -> SUBSET Items]
    BY <1>8 DEF Sound
  <2>2. SoundImage(db')
    BY <1>6, <1>8 DEF SoundImage
  <2>3. raced' \in BOOLEAN
    BY <1>8 DEF Sound
  <2> QED  BY <1>4, <1>8, <2>1, <2>2, <2>3, LotSound
<1> QED  BY <1>1, <1>7, <1>8 DEF Commit

-----------------------------------------------------------------------------
(* Login and logout, and the whole. *)

LEMMA ComeAndGoSound ==
    ASSUME Sound, NEW p \in Players,
           LoginRequest(p) \/ EnterWorld(p) \/ TeleportTo(p) \/ Logout(p)
    PROVE  Sound'
<1>1. CASE LoginRequest(p)
  <2>1. /\ db.gold[p] \in Money /\ db.bag[p] \in SUBSET Items
        /\ {m \in db.mail : m.to = p} \in SUBSET SoundMail
    BY DEF Sound, SoundImage
  <2> QED  BY <1>1, <2>1 DEF LoginRequest, Sound, SoundImage, PendingHoldsNoItem, Listed
<1>2. CASE EnterWorld(p)
  BY <1>2 DEF EnterWorld, Sound, SoundImage, PendingHoldsNoItem, Listed
<1>3. CASE TeleportTo(p)
  BY <1>3 DEF TeleportTo, Sound, SoundImage, PendingHoldsNoItem, Listed
<1>4. CASE Logout(p)
  <2>1. SoundImage(db')
    <3>1. gold[p] \in Money /\ bag[p] \in SUBSET Items /\ m_mail[p] \in SUBSET SoundMail
      BY DEF Sound
    <3>2. SoundImage(SaveMail(SaveInventoryAndGold(db, p, gold[p], bag[p]), m_mail[p]))
      BY <3>1, SaveInventoryAndGoldSound, SaveMailSound DEF Sound
    <3>3. db' = SaveMail(SaveInventoryAndGold(db, p, gold[p], bag[p]), m_mail[p])
      BY <1>4 DEF Logout, Commit
    <3> QED  BY <3>2, <3>3 DEF SoundImage
  <2>2. UNCHANGED <<crashes, house, raced>> /\ m_mail' = [m_mail EXCEPT ![p] = {}]
        /\ gold' = [gold EXCEPT ![p] = 0] /\ bag' = [bag EXCEPT ![p] = {}]
        /\ status' = [status EXCEPT ![p] = "offline"]
    BY <1>4 DEF Logout, Commit
  <2> QED  BY <2>1, <2>2, Coins DEF Sound, PendingHoldsNoItem, Listed
<1> QED  BY <1>1, <1>2, <1>3, <1>4

LEMMA SoundInit == Init => Sound
<1> SUFFICES ASSUME Init PROVE Sound
  OBVIOUS
<1>1. SoundImage(db)
  BY StoreAssumption DEF Init, SoundImage, Money
<1>2. gold \in [Players -> Money]
  BY Coins DEF Init
<1>3. bag \in [Players -> SUBSET Items] /\ m_mail \in [Players -> SUBSET SoundMail]
      /\ \A p \in Players : \A m \in m_mail[p] : m.to = p
  BY DEF Init
<1>4. house \in [Lots -> SoundEntry \cup {NoLot}] /\ PendingHoldsNoItem
  BY DEF Init, PendingHoldsNoItem, Listed
<1>5. status \in [Players -> {"offline", "between", "online"}]
  BY DEF Init
<1>6. crashes \in 0..MaxCrashes
  BY StoreAssumption DEF Init
<1>7. raced \in BOOLEAN
  BY DEF Init
<1> QED  BY <1>1, <1>2, <1>3, <1>4, <1>5, <1>6, <1>7 DEF Sound

LEMMA SoundNext == Sound /\ [Next]_vars => Sound'
<1> SUFFICES ASSUME Sound, [Next]_vars PROVE Sound'
  OBVIOUS
<1>1. CASE UNCHANGED vars
  BY <1>1 DEF vars, Sound, SoundImage, PendingHoldsNoItem, Listed
<1>2. CASE MailStep
  <2>1. \A m \in db.mail : SweepMail(m) => Sound'
    BY SweepMailSound
  <2>2. \A p, q \in Players, c \in Contents, id \in MailIds :
          SendMail(p, q, c[1], c[2], c[3], id) => Sound'
    BY SendMailSound
  <2>3. \A p \in Players : \A m \in m_mail[p] :
          MailMarkAsRead(p, m) \/ MailDelete(p, m) \/ MailTakeMoney(p, m) => Sound'
    BY MarkSound, MailTakeMoneySound
  <2>4. \A p \in Players : \A m \in m_mail[p] : \A id \in MailIds :
          MailReturnToSender(p, m, id) \/ MailTakeItem(p, m, id) => Sound'
    BY MailReturnToSenderSound, MailTakeItemSound
  <2>5. \A p, q \in Players, c \in Contents, id \in MailIds :
          SendAtOnce(p, q, c[1], c[2], c[3], id) => Sound'
    BY SendAtOnceSound
  <2> QED  BY <1>2, <2>1, <2>2, <2>3, <2>4, <2>5 DEF MailStep
<1>3. CASE AuctionStep
  <2>1. \A l \in Lots, id, id2 \in MailIds, p \in Players : CancelAuction(p, l, id, id2) => Sound'
    BY CancelAuctionSound
  <2>2. \A l \in Lots, id, id2 \in MailIds, p \in Players, price \in Money :
          PlaceBid(p, l, price, id, id2) => Sound'
    BY PlaceBidSound
  <2>3. \A l \in Lots, id \in MailIds :
          DeliverMoney(l, id) \/ Expire(l, id) \/ ExpireWon(l, id) => Sound'
    BY ExpireSound, ExpireWonSound
  <2>4. \A l \in Lots, p \in Players, i \in Items, s \in StartBids, b \in Buyouts :
          SellItem(p, l, i, s, b) => Sound'
    BY SellItemSound
  <2>5. \A l \in Lots, p, q \in Players, price \in Money : CancelAtOnce(l, p, q, price) => Sound'
    BY CancelAtOnceSound
  <2>6. \A l \in Lots, p, q \in Players, price, other \in Money :
          BidsAtOnce(l, p, price, q, other) => Sound'
    BY BidsAtOnceSound
  <2> QED  BY <1>3, <2>1, <2>2, <2>3, <2>4, <2>5, <2>6 DEF AuctionStep
<1>4. ASSUME NEW p \in Players, LoginRequest(p) \/ EnterWorld(p) \/ TeleportTo(p) \/ Logout(p)
      PROVE  Sound'
  BY <1>4, ComeAndGoSound
<1>5. CASE Crash
  BY <1>5, RestartSound DEF Crash, Sound
<1> QED  BY <1>1, <1>2, <1>3, <1>4, <1>5 DEF Next

\* The inductive invariant holds in every reachable state, with any players, items and
\* auctions, and whatever the server loses when it dies.
THEOREM Invariance == Spec => []Sound
  BY SoundInit, SoundNext, PTL DEF Spec

\* No purse, bid or COD is ever beyond MAX_MONEY_AMOUNT or below zero, in memory or in
\* the database, whatever is sent, bid, taken and lost.
THEOREM TypeCorrect == Spec => []TypeOK
<1>1. Sound => TypeOK
  <2> SUFFICES ASSUME Sound PROVE TypeOK
    OBVIOUS
  <2>1. SoundMail \subseteq Mail /\ SoundEntry \subseteq AuctionEntry
    BY DEF SoundMail, SoundEntry
  <2> QED  BY <2>1 DEF Sound, SoundImage, TypeOK
<1> QED  BY <1>1, Invariance, PTL

\* An auction is pending exactly while it has no item: what Update asserts when it
\* delivers the money, and when it finds an auction expired.
THEOREM PendingCorrect == Spec => []PendingHoldsNoItem
<1>1. Sound => PendingHoldsNoItem
  BY DEF Sound
<1> QED  BY <1>1, Invariance, PTL

-----------------------------------------------------------------------------
(* Mails in memory and their rows.  n: the crashes so far.  *)

Shorn(r) == [r EXCEPT !.item = NoItem]

RowOf(r, m, n) ==
    \/ r = [m EXCEPT !.deleted = FALSE]
    \/ n > 0 /\ r = Shorn([m EXCEPT !.deleted = FALSE])

RowsFit(rows) ==
    /\ \A r \in rows : ~r.deleted
    /\ \A r1, r2 \in rows : r1.id = r2.id => r1 = r2

BoxesFit(boxes, rows, n) ==
    \A p \in Players :
        /\ \A m \in boxes[p] : \E r \in rows : RowOf(r, m, n)
        /\ \A m1, m2 \in boxes[p] : m1.id = m2.id => m1 = m2

Boxes == {boxes \in [Players -> SUBSET SoundMail] : \A p \in Players : \A m \in boxes[p] : m.to = p}

\* f2 is f but for player p.
Updated(f2, f, p, v) == \A q \in Players : f2[q] = IF q = p THEN v ELSE f[q]

LEMMA RowFacts ==
    ASSUME NEW m \in SoundMail, NEW n \in Nat, NEW r, RowOf(r, m, n)
    PROVE  /\ r \in SoundMail /\ r.id = m.id /\ r.to = m.to /\ ~r.deleted
           /\ r.item \in {m.item, NoItem} /\ (n = 0 => r.item = m.item)
<1> DEFINE k == [m EXCEPT !.deleted = FALSE]
<1>1. k \in SoundMail /\ k.id = m.id /\ k.to = m.to /\ ~k.deleted /\ k.item = m.item
  BY DEF SoundMail, Mail
<1> HIDE DEF k
<1>2. /\ Shorn(k) \in SoundMail /\ Shorn(k).id = k.id /\ Shorn(k).to = k.to
      /\ Shorn(k).deleted = k.deleted /\ Shorn(k).item = NoItem
  BY <1>1 DEF SoundMail, Mail, Shorn
<1>3. r = k \/ (n > 0 /\ r = Shorn(k))
  BY DEF RowOf, k
<1> QED  BY <1>1, <1>2, <1>3

\* A row that loses its item is still the row of that mail, after a crash.
LEMMA ShornRow ==
    ASSUME NEW r \in SoundMail
    PROVE  /\ Shorn(r) \in SoundMail /\ Shorn(r).id = r.id /\ Shorn(r).to = r.to
           /\ Shorn(r).deleted = r.deleted /\ Shorn(r).item = NoItem
           /\ r.item = NoItem => Shorn(r) = r
           /\ Shorn(Shorn(r)) = Shorn(r)
  BY DEF SoundMail, Mail, Shorn

LEMMA UndeletedRow ==
    ASSUME NEW m \in SoundMail, ~m.deleted, NEW n \in Nat
    PROVE  /\ [m EXCEPT !.deleted = FALSE] = m
           /\ RowOf(m, m, n) /\ (n > 0 => RowOf(Shorn(m), m, n))
<1>1. [m EXCEPT !.deleted = FALSE] = m
  BY DEF SoundMail, Mail
<1> QED  BY <1>1 DEF RowOf

\* The mail of a row is unique among all mailboxes.
LEMMA OneMailbox ==
    ASSUME NEW boxes \in Boxes, NEW rows, NEW n \in Nat,
           RowsFit(rows), BoxesFit(boxes, rows, n),
           NEW p \in Players, NEW q \in Players, NEW m1 \in boxes[p], NEW m2 \in boxes[q],
           m1.id = m2.id
    PROVE  p = q /\ m1 = m2
<1>1. m1 \in SoundMail /\ m1.to = p /\ m2 \in SoundMail /\ m2.to = q
  BY DEF Boxes
<1>2. PICK r1 \in rows : RowOf(r1, m1, n)
  BY DEF BoxesFit
<1>3. PICK r2 \in rows : RowOf(r2, m2, n)
  BY DEF BoxesFit
<1>4. r1.id = m1.id /\ r1.to = m1.to /\ r2.id = m2.id /\ r2.to = m2.to
  BY <1>1, <1>2, <1>3, RowFacts
<1>5. r1 = r2
  BY <1>4 DEF RowsFit
<1>6. p = q
  BY <1>1, <1>4, <1>5
<1> QED  BY <1>6 DEF BoxesFit

\* Rows are added, mails with rows are delivered, boxes lose mails.
LEMMA InsertFits ==
    ASSUME NEW boxes \in Boxes, NEW rows, NEW n \in Nat,
           RowsFit(rows), BoxesFit(boxes, rows, n),
           NEW mails, RowsFit(mails), \A m \in mails : \A r \in rows : r.id # m.id
    PROVE  RowsFit(rows \cup mails) /\ BoxesFit(boxes, rows \cup mails, n)
<1>1. RowsFit(rows \cup mails)
  BY DEF RowsFit
<1>2. BoxesFit(boxes, rows \cup mails, n)
  BY DEF BoxesFit
<1> QED  BY <1>1, <1>2

LEMMA DeliverFits ==
    ASSUME NEW boxes \in Boxes, NEW rows, NEW n \in Nat,
           BoxesFit(boxes, rows, n), NEW mails \in SUBSET SoundMail, mails \subseteq rows,
           RowsFit(mails), \A m \in mails : \A p \in Players : \A k \in boxes[p] : k.id # m.id
    PROVE  BoxesFit(Received(boxes, mails), rows, n)
<1> SUFFICES ASSUME NEW p \in Players
             PROVE  /\ \A m \in Received(boxes, mails)[p] : \E r \in rows : RowOf(r, m, n)
                    /\ \A m1, m2 \in Received(boxes, mails)[p] : m1.id = m2.id => m1 = m2
  BY DEF BoxesFit
<1>1. Received(boxes, mails)[p] \subseteq boxes[p] \cup mails
  BY DEF Received
<1>2. \A m \in mails : RowOf(m, m, n) /\ m \in rows
  BY UndeletedRow DEF RowsFit
<1>3. ASSUME NEW m \in Received(boxes, mails)[p] PROVE \E r \in rows : RowOf(r, m, n)
  BY <1>1, <1>2, <1>3 DEF BoxesFit
<1>4. ASSUME NEW m1 \in Received(boxes, mails)[p], NEW m2 \in Received(boxes, mails)[p],
             m1.id = m2.id
      PROVE  m1 = m2
  BY <1>1, <1>4 DEF BoxesFit, RowsFit
<1> QED  BY <1>3, <1>4

LEMMA FewerFit ==
    ASSUME NEW boxes, NEW fewer, NEW rows, NEW n, BoxesFit(boxes, rows, n),
           \A p \in Players : fewer[p] \subseteq boxes[p]
    PROVE  BoxesFit(fewer, rows, n)
  BY DEF BoxesFit

\* A mail is taken out of its box and its row is deleted.
LEMMA DropFits ==
    ASSUME NEW boxes \in Boxes, NEW rows, NEW n \in Nat,
           RowsFit(rows), BoxesFit(boxes, rows, n),
           NEW id, NEW rows2 \in SUBSET rows, \A r \in rows : r.id # id => r \in rows2,
           NEW fewer, \A p \in Players : fewer[p] \subseteq boxes[p],
           \A p \in Players : \A m \in fewer[p] : m.id # id
    PROVE  RowsFit(rows2) /\ BoxesFit(fewer, rows2, n)
<1>1. RowsFit(rows2)
  BY DEF RowsFit
<1>2. ASSUME NEW p \in Players, NEW m \in fewer[p]
      PROVE  \E r \in rows2 : RowOf(r, m, n)
  <2>1. m \in boxes[p] /\ m.id # id /\ m \in SoundMail
    BY <1>2 DEF Boxes
  <2>2. PICK r \in rows : RowOf(r, m, n)
    BY <2>1 DEF BoxesFit
  <2>3. r.id = m.id
    BY <2>1, <2>2, RowFacts
  <2> QED  BY <2>1, <2>2, <2>3
<1>3. \A p \in Players : \A m1, m2 \in fewer[p] : m1.id = m2.id => m1 = m2
  BY DEF BoxesFit
<1> QED  BY <1>1, <1>2, <1>3 DEF BoxesFit

\* Items are destroyed: without crashes, items that no row has.
Sheared(rows, items) == {IF r.item \in items THEN Shorn(r) ELSE r : r \in rows}

LEMMA ShearFits ==
    ASSUME NEW boxes \in Boxes, NEW rows \in SUBSET SoundMail, NEW n \in Nat,
           RowsFit(rows), BoxesFit(boxes, rows, n), NEW items,
           n > 0 \/ \A r \in rows : r.item \in items => r.item = NoItem
    PROVE  RowsFit(Sheared(rows, items)) /\ BoxesFit(boxes, Sheared(rows, items), n)
<1>1. ASSUME NEW r \in rows
      PROVE  Shorn(r).id = r.id /\ Shorn(r).deleted = r.deleted
  BY ShornRow
<1>2. RowsFit(Sheared(rows, items))
  BY <1>1 DEF RowsFit, Sheared
<1>3. ASSUME NEW p \in Players, NEW m \in boxes[p]
      PROVE  \E r \in Sheared(rows, items) : RowOf(r, m, n)
  <2>1. PICK r \in rows : RowOf(r, m, n)
    BY DEF BoxesFit
  <2>2. CASE r.item \notin items
    BY <2>1, <2>2 DEF Sheared
  <2>3. CASE r.item \in items
    <3>1. Shorn(r) \in Sheared(rows, items)
      BY <2>3 DEF Sheared
    <3>2. RowOf(Shorn(r), m, n)
      <4>1. CASE r.item = NoItem
        BY <2>1, <4>1, ShornRow
      <4>2. CASE r.item # NoItem
        <5>1. n > 0
          BY <2>3, <4>2
        <5>2. m \in SoundMail /\ [m EXCEPT !.deleted = FALSE] \in SoundMail
          BY ChangedSound DEF Boxes
        <5> QED  BY <2>1, <5>1, <5>2, ShornRow DEF RowOf
      <4> QED  BY <4>1, <4>2
    <3> QED  BY <3>1, <3>2
  <2> QED  BY <2>2, <2>3
<1> QED  BY <1>2, <1>3 DEF BoxesFit

\* A mailbox is saved: what _SaveMail makes of the rows, but for the items destroyed.
Rewritten(rows, box) ==
    {r \in rows : \A k \in box : k.id # r.id} \cup {k \in Kept(box) : \E r \in rows : r.id = k.id}

LEMMA RewriteFits ==
    ASSUME NEW boxes \in Boxes, NEW rows \in SUBSET SoundMail, NEW n \in Nat,
           RowsFit(rows), BoxesFit(boxes, rows, n),
           NEW p \in Players, NEW box \in SUBSET SoundMail,
           \A k \in box : \E m \in boxes[p] : m.id = k.id,
           \A k1, k2 \in box : k1.id = k2.id => k1 = k2,
           NEW new, Updated(new, boxes, p, Kept(box))
    PROVE  /\ Rewritten(rows, box) \in SUBSET SoundMail
           /\ RowsFit(Rewritten(rows, box))
           /\ BoxesFit(new, Rewritten(rows, box), n)
<1>1. Rewritten(rows, box) \in SUBSET SoundMail
  BY DEF Rewritten, Kept
<1>2. RowsFit(Rewritten(rows, box))
  BY DEF RowsFit, Rewritten, Kept
<1>3. new[p] = Kept(box) /\ \A q \in Players \ {p} : new[q] = boxes[q]
  BY DEF Updated
<1>4. ASSUME NEW k \in Kept(box) PROVE k \in Rewritten(rows, box) /\ RowOf(k, k, n)
  <2>1. k \in box /\ ~k.deleted /\ k \in SoundMail
    BY DEF Kept
  <2>2. PICK m \in boxes[p] : m.id = k.id
    BY <2>1
  <2>3. PICK r \in rows : RowOf(r, m, n)
    BY DEF BoxesFit
  <2>4. r.id = k.id
    BY <2>2, <2>3, RowFacts DEF Boxes
  <2> QED  BY <2>1, <2>4, UndeletedRow DEF Rewritten
<1>5. ASSUME NEW q \in Players \ {p}, NEW m \in boxes[q]
      PROVE  \E r \in Rewritten(rows, box) : RowOf(r, m, n)
  <2>1. PICK r \in rows : RowOf(r, m, n)
    BY DEF BoxesFit
  <2>2. r.id = m.id
    BY <2>1, RowFacts DEF Boxes
  <2>3. ASSUME NEW k \in box PROVE k.id # r.id
    <3>1. PICK m1 \in boxes[p] : m1.id = k.id
      OBVIOUS
    <3> QED  BY <2>2, <3>1, OneMailbox
  <2> QED  BY <2>1, <2>3 DEF Rewritten
<1>6. \A q \in Players : \A m1, m2 \in new[q] : m1.id = m2.id => m1 = m2
  BY <1>3 DEF BoxesFit, Kept
<1> QED  BY <1>1, <1>2, <1>3, <1>4, <1>5, <1>6 DEF BoxesFit

-----------------------------------------------------------------------------
(* Auctions in memory and their rows; where items are. *)

LotsFit(entries, lots, n) ==
    \A l \in Lots :
        IF entries[l] = NoLot THEN lots[l] = NoLot
        ELSE lots[l] = entries[l] \/ (n > 0 /\ lots[l] = [entries[l] EXCEPT !.item = NoItem])

InLot(lots, l, i) == lots[l] # NoLot /\ lots[l].item = i

\* Item i is in one place at most.
SingleItem(i, bags, rows, lots) ==
    /\ \A p, q \in Players : i \in bags[p] /\ i \in bags[q] => p = q
    /\ \A r1, r2 \in rows : r1.item = i /\ r2.item = i => r1 = r2
    /\ \A l1, l2 \in Lots : InLot(lots, l1, i) /\ InLot(lots, l2, i) => l1 = l2
    /\ \A p \in Players, r \in rows : ~(i \in bags[p] /\ r.item = i)
    /\ \A p \in Players, l \in Lots : ~(i \in bags[p] /\ InLot(lots, l, i))
    /\ \A r \in rows, l \in Lots : ~(r.item = i /\ InLot(lots, l, i))

Single(bags, rows, lots) == \A i \in Items : SingleItem(i, bags, rows, lots)

\* At most one item moves.
LEMMA Moves ==
    ASSUME NEW bags, NEW rows, NEW lots, Single(bags, rows, lots),
           NEW bags2, NEW rows2, NEW lots2, NEW x,
           \A p \in Players : bags2[p] \subseteq bags[p] \cup {x},
           \A r \in rows2 : r \in rows \/ r.item = x \/ r.item \notin Items,
           \A l \in Lots, i \in Items : InLot(lots2, l, i) => InLot(lots, l, i) \/ i = x,
           x \in Items => SingleItem(x, bags2, rows2, lots2)
    PROVE  Single(bags2, rows2, lots2)
<1> SUFFICES ASSUME NEW i \in Items, i # x PROVE SingleItem(i, bags2, rows2, lots2)
  BY DEF Single
<1>1. SingleItem(i, bags, rows, lots)
  BY DEF Single
<1>2. \A p \in Players : i \in bags2[p] => i \in bags[p]
  OBVIOUS
<1>3. \A r \in rows2 : r.item = i => r \in rows
  OBVIOUS
<1>4. \A l \in Lots : InLot(lots2, l, i) => InLot(lots, l, i)
  OBVIOUS
<1> QED  BY <1>1, <1>2, <1>3, <1>4 DEF SingleItem

\* An item is where it was before, or nowhere.
LEMMA Stays ==
    ASSUME NEW bags, NEW rows, NEW lots, Single(bags, rows, lots),
           NEW bags2, NEW rows2, NEW lots2,
           \A p \in Players : bags2[p] \subseteq bags[p],
           \A r \in rows2 : r \in rows \/ r.item = NoItem,
           \A l \in Lots, i \in Items : InLot(lots2, l, i) => InLot(lots, l, i)
    PROVE  Single(bags2, rows2, lots2)
<1> SUFFICES ASSUME NEW i \in Items PROVE SingleItem(i, bags2, rows2, lots2)
  BY DEF Single
<1>1. SingleItem(i, bags, rows, lots) /\ i # NoItem
  BY StoreAssumption DEF Single
<1>2. \A p \in Players : i \in bags2[p] => i \in bags[p]
  OBVIOUS
<1>3. \A r \in rows2 : r.item = i => r \in rows
  BY <1>1
<1>4. \A l \in Lots : InLot(lots2, l, i) => InLot(lots, l, i)
  OBVIOUS
<1> QED  BY <1>1, <1>2, <1>3, <1>4 DEF SingleItem

LEMMA BagToMail ==
    ASSUME NEW bags, NEW rows, NEW lots, Single(bags, rows, lots),
           NEW p \in Players, NEW item, item \in Items => item \in bags[p],
           NEW mail, mail.item = item,
           NEW bags2, Updated(bags2, bags, p, bags[p] \ {item})
    PROVE  Single(bags2, rows \cup {mail}, lots)
<1>1. \A q \in Players : bags2[q] \subseteq bags[q] /\ item \notin bags2[p]
  BY DEF Updated
<1>2. ASSUME item \in Items PROVE SingleItem(item, bags2, rows \cup {mail}, lots)
  <2>1. SingleItem(item, bags, rows, lots) /\ item \in bags[p]
    BY <1>2 DEF Single
  <2>2. \A q \in Players : item \notin bags2[q]
    BY <1>1, <2>1 DEF SingleItem
  <2>3. (\A r \in rows : r.item # item) /\ (\A l \in Lots : ~InLot(lots, l, item))
    BY <2>1 DEF SingleItem
  <2> QED  BY <2>2, <2>3 DEF SingleItem
<1> QED  BY <1>1, <1>2, Moves

LEMMA BagToLot ==
    ASSUME NEW bags, NEW rows, NEW lots, Single(bags, rows, lots),
           NEW p \in Players, NEW item \in Items, item \in bags[p],
           NEW bags2, Updated(bags2, bags, p, bags[p] \ {item}),
           NEW l \in Lots, NEW lots2, lots2[l].item = item, \A k \in Lots \ {l} : lots2[k] = lots[k]
    PROVE  Single(bags2, rows, lots2)
<1>1. \A q \in Players : bags2[q] \subseteq bags[q] /\ item \notin bags2[p]
  BY DEF Updated
<1>2. SingleItem(item, bags, rows, lots)
  BY DEF Single
<1>3. \A q \in Players : item \notin bags2[q]
  BY <1>1, <1>2 DEF SingleItem
<1>4. (\A r \in rows : r.item # item) /\ (\A k \in Lots : ~InLot(lots, k, item))
  BY <1>2 DEF SingleItem
<1>5. \A k \in Lots, i \in Items : InLot(lots2, k, i) => InLot(lots, k, i) \/ (i = item /\ k = l)
  BY DEF InLot
<1>6. SingleItem(item, bags2, rows, lots2)
  BY <1>3, <1>4, <1>5 DEF SingleItem
<1> QED  BY <1>1, <1>5, <1>6, Moves

\* Lot l is left without its item, which one of the mails may have.
LEMMA LotToMails ==
    ASSUME NEW bags, NEW rows, NEW lots, Single(bags, rows, lots),
           NEW l \in Lots, lots[l] # NoLot,
           NEW mails, \A m \in mails : m.item \in {lots[l].item, NoItem},
           \A m1, m2 \in mails : m1.item # NoItem /\ m2.item # NoItem => m1 = m2,
           NEW lots2, \A k \in Lots \ {l} : lots2[k] = lots[k],
           lots2[l] = NoLot \/ lots2[l].item = NoItem
    PROVE  Single(bags, rows \cup mails, lots2)
<1> SUFFICES ASSUME NEW i \in Items PROVE SingleItem(i, bags, rows \cup mails, lots2)
  BY DEF Single
<1>1. SingleItem(i, bags, rows, lots) /\ i # NoItem
  BY StoreAssumption DEF Single
<1>2. \A k \in Lots : InLot(lots2, k, i) => InLot(lots, k, i) /\ k # l
  BY <1>1 DEF InLot
<1>3. CASE lots[l].item = i
  <2>1. InLot(lots, l, i)
    BY <1>3 DEF InLot
  <2>2. \A k \in Lots : ~InLot(lots2, k, i)
    BY <1>1, <1>2, <2>1 DEF SingleItem
  <2>3. (\A q \in Players : i \notin bags[q]) /\ (\A r \in rows : r.item # i)
    BY <1>1, <2>1 DEF SingleItem
  <2> QED  BY <1>1, <2>2, <2>3 DEF SingleItem
<1>4. CASE lots[l].item # i
  <2>1. \A m \in mails : m.item # i
    BY <1>1, <1>4
  <2> QED  BY <1>1, <1>2, <2>1 DEF SingleItem
<1> QED  BY <1>3, <1>4

\* The row of a mail is deleted and another has its item.
LEMMA MailToMails ==
    ASSUME NEW bags, NEW rows, NEW lots, Single(bags, rows, lots),
           NEW row \in rows,
           NEW mails, \A m \in mails : m.item = row.item, \A m1, m2 \in mails : m1 = m2,
           NEW rows2, \A r \in rows2 : (r \in rows /\ r # row) \/ r \in mails
    PROVE  Single(bags, rows2, lots)
<1> DEFINE x == row.item
<1>1. ASSUME x \in Items PROVE SingleItem(x, bags, rows2, lots)
  <2>1. SingleItem(x, bags, rows, lots)
    BY <1>1 DEF Single
  <2>2. (\A q \in Players : x \notin bags[q]) /\ (\A l \in Lots : ~InLot(lots, l, x))
    BY <2>1 DEF SingleItem
  <2>3. \A r \in rows2 : r.item = x => r \in mails
    BY <2>1 DEF SingleItem
  <2> HIDE DEF x
  <2> QED  BY <2>2, <2>3 DEF SingleItem
<1>2. \A r \in rows2 : r \in rows \/ r.item = x
  OBVIOUS
<1> HIDE DEF x
<1> QED  BY <1>1, <1>2, Moves

LEMMA MailToBag ==
    ASSUME NEW bags, NEW rows, NEW lots, Single(bags, rows, lots),
           NEW row \in rows, row.item \in Items,
           NEW rows2, \A r \in rows2 : (r \in rows /\ r # row) \/ r.item = NoItem,
           NEW p \in Players, NEW bags2, Updated(bags2, bags, p, bags[p] \cup {row.item})
    PROVE  Single(bags2, rows2, lots)
<1> DEFINE x == row.item
<1>1. SingleItem(x, bags, rows, lots)
  BY DEF Single
<1>2. (\A q \in Players : x \notin bags[q]) /\ (\A l \in Lots : ~InLot(lots, l, x))
  BY <1>1 DEF SingleItem
<1>3. \A r \in rows2 : r.item # x
  BY <1>1, StoreAssumption DEF SingleItem
<1>4. \A q \in Players : x \in bags2[q] => q = p
  BY <1>2 DEF Updated
<1>5. \A q \in Players : bags2[q] \subseteq bags[q] \cup {x}
  BY DEF Updated
<1>6. \A r \in rows2 : r \in rows \/ r.item \notin Items
  BY StoreAssumption
<1> HIDE DEF x
<1>7. SingleItem(x, bags2, rows2, lots)
  BY <1>2, <1>3, <1>4 DEF SingleItem
<1> QED  BY <1>5, <1>6, <1>7, Moves

-----------------------------------------------------------------------------
(* Agreement, and the statements. *)

Agreed ==
    /\ \A p \in Players : status[p] # "offline" => db.gold[p] = gold[p]
    /\ \A p \in Players : status[p] = "offline" => m_mail[p] = {}
    /\ RowsFit(db.mail) /\ BoxesFit(m_mail, db.mail, crashes)
    /\ LotsFit(house, db.auction, crashes)
    /\ crashes = 0 => /\ \A p \in Players : status[p] # "offline" => db.bag[p] = bag[p]
                      /\ Single(db.bag, db.mail, db.auction)

LEMMA RestartAgreed ==
    ASSUME Sound, NEW img, SoundImage(img), RowsFit(img.mail), Restart(img)
    PROVE  Agreed'
<1>1. /\ status' = [p \in Players |-> "offline"] /\ m_mail' = [p \in Players |-> {}]
      /\ crashes' > 0 /\ house' = LoadAuctions(img)
      /\ db'.mail = img.mail
      /\ db'.auction = [l \in Lots |-> IF house'[l] = NoLot THEN NoLot ELSE img.auction[l]]
  BY StoreAssumption DEF Restart, Sound, SoundImage
<1>2. RowsFit(db'.mail) /\ BoxesFit(m_mail', db'.mail, crashes')
  BY <1>1 DEF BoxesFit
<1>3. ASSUME NEW l \in Lots, house'[l] # NoLot PROVE db'.auction[l] = house'[l]
  <2> DEFINE row == img.auction[l]
  <2>1. /\ row \in SoundEntry \cup {NoLot} /\ db'.auction[l] = row
        /\ house'[l] = IF row = NoLot THEN NoLot
                       ELSE IF row.pending THEN [row EXCEPT !.item = NoItem]
                       ELSE IF row.item = NoItem THEN NoLot ELSE row
    BY <1>1, <1>3 DEF LoadAuctions, SoundImage
  <2> HIDE DEF row
  <2>2. CASE row.pending
    <3>1. row \in AuctionEntry /\ row.item = NoItem
      BY <1>3, <2>1, <2>2 DEF SoundEntry
    <3>2. [row EXCEPT !.item = NoItem] = row
      BY <3>1 DEF AuctionEntry
    <3> QED  BY <1>3, <2>1, <2>2, <3>2
  <2> QED  BY <1>3, <2>1, <2>2
<1>4. LotsFit(house', db'.auction, crashes')
  BY <1>1, <1>3 DEF LotsFit
<1> QED  BY <1>1, <1>2, <1>4 DEF Agreed

LEMMA DiesInNone == \A a : ~DiesIn(<<a>>)
  BY DEF DiesIn

\* The server dies after the first transaction of two, or after one of the first of three.
LEMMA DiesInOne ==
    ASSUME Sound, NEW a, NEW b, SoundImage(a), RowsFit(a.mail), DiesIn(<<a, b>>)
    PROVE  Agreed'
<1>1. PICK k \in 1..Len(<<a, b>>) - 1 : Restart(<<a, b>>[k])
  BY DEF DiesIn
<1>2. k = 1
  OBVIOUS
<1>3. Restart(a)
  BY <1>1, <1>2
<1> QED  BY <1>3, RestartAgreed

LEMMA DiesInTwo ==
    ASSUME Sound, NEW a, NEW b, NEW c, SoundImage(a), RowsFit(a.mail),
           SoundImage(b), RowsFit(b.mail), DiesIn(<<a, b, c>>)
    PROVE  Agreed'
<1>1. PICK k \in 1..Len(<<a, b, c>>) - 1 : Restart(<<a, b, c>>[k])
  BY DEF DiesIn
<1>2. k = 1 \/ k = 2
  OBVIOUS
<1>3. Restart(a) \/ Restart(b)
  BY <1>1, <1>2
<1> QED  BY <1>3, RestartAgreed

\* Image s differs from img in what is said, and in burned and limbo.
SavedOf(s, img, p, g, b) ==
    /\ Updated(s.gold, img.gold, p, g) /\ Updated(s.bag, img.bag, p, b)
    /\ s.mail = img.mail /\ s.auction = img.auction

LEMMA SaveInventoryAndGoldFields ==
    ASSUME NEW img, SoundImage(img), NEW p \in Players, NEW g, NEW b
    PROVE  SavedOf(SaveInventoryAndGold(img, p, g, b), img, p, g, b)
<1>1. /\ img.gold \in [Players -> Money] /\ img.bag \in [Players -> SUBSET Items]
      /\ img = [gold |-> img.gold, bag |-> img.bag, mail |-> img.mail, auction |-> img.auction,
                burned |-> img.burned, limbo |-> img.limbo]
  BY DEF SoundImage
<1> DEFINE s == SaveInventoryAndGold(img, p, g, b)
<1>2. /\ s.gold = [img.gold EXCEPT ![p] = g] /\ s.bag = [img.bag EXCEPT ![p] = b]
      /\ s.mail = img.mail /\ s.auction = img.auction
  BY <1>1 DEF SaveInventoryAndGold
<1> HIDE DEF s
<1> QED  BY <1>1, <1>2 DEF SavedOf, Updated, s

LEMMA SaveGoldFields ==
    ASSUME NEW img, SoundImage(img), NEW p \in Players, NEW g
    PROVE  SavedOf(SaveGold(img, p, g), img, p, g, img.bag[p])
<1>1. /\ img.gold \in [Players -> Money]
      /\ img = [gold |-> img.gold, bag |-> img.bag, mail |-> img.mail, auction |-> img.auction,
                burned |-> img.burned, limbo |-> img.limbo]
  BY DEF SoundImage
<1> DEFINE s == SaveGold(img, p, g)
<1>2. /\ s.gold = [img.gold EXCEPT ![p] = g] /\ s.bag = img.bag
      /\ s.mail = img.mail /\ s.auction = img.auction
  BY <1>1 DEF SaveGold
<1> HIDE DEF s
<1> QED  BY <1>1, <1>2 DEF SavedOf, Updated, s

LEMMA BurnFields ==
    ASSUME NEW img, SoundImage(img), NEW n
    PROVE  LET s == Burn(img, n) IN
           /\ s.gold = img.gold /\ s.bag = img.bag
           /\ s.mail = img.mail /\ s.auction = img.auction
  BY DEF SoundImage, Burn

LEMMA InsertMailsFields ==
    ASSUME NEW img, SoundImage(img), NEW mails
    PROVE  LET s == InsertMails(img, mails) IN
           /\ s.gold = img.gold /\ s.bag = img.bag
           /\ s.mail = img.mail \cup mails /\ s.auction = img.auction
  BY DEF SoundImage, InsertMails

LEMMA DeleteMailFields ==
    ASSUME NEW img, SoundImage(img), NEW id
    PROVE  LET s == DeleteMail(img, id) IN
           /\ s.gold = img.gold /\ s.bag = img.bag
           /\ s.mail = {m \in img.mail : m.id # id} /\ s.auction = img.auction
  BY DEF SoundImage, DeleteMail

\* Image s has entry e for lot l.
LotOf(s, img, l, e) ==
    /\ s.gold = img.gold /\ s.bag = img.bag /\ s.mail = img.mail
    /\ s.auction[l] = e /\ \A k \in Lots \ {l} : s.auction[k] = img.auction[k]

LEMMA SaveAuctionFields ==
    ASSUME NEW img, SoundImage(img), NEW l \in Lots, NEW e
    PROVE  LotOf(SaveAuction(img, l, e), img, l, e)
<1>1. /\ img.auction \in [Lots -> SoundEntry \cup {NoLot}]
      /\ img = [gold |-> img.gold, bag |-> img.bag, mail |-> img.mail, auction |-> img.auction,
                burned |-> img.burned, limbo |-> img.limbo]
  BY DEF SoundImage
<1> DEFINE s == SaveAuction(img, l, e)
<1>2. /\ s.gold = img.gold /\ s.bag = img.bag
      /\ s.mail = img.mail /\ s.auction = [img.auction EXCEPT ![l] = e]
  BY <1>1 DEF SaveAuction
<1> HIDE DEF s
<1> QED  BY <1>1, <1>2 DEF LotOf, s

LEMMA DeleteAuctionFields ==
    ASSUME NEW img, SoundImage(img), NEW l \in Lots
    PROVE  LotOf(DeleteAuction(img, l), img, l, NoLot)
  BY SaveAuctionFields DEF DeleteAuction, SaveAuction

\* Mails are sent and nothing else becomes of mailboxes and rows.
LEMMA SentFits ==
    ASSUME Sound, Agreed, NEW mails \in SUBSET SoundMail, RowsFit(mails), Fresh(mails)
    PROVE  /\ RowsFit(db.mail \cup mails)
           /\ BoxesFit(Received(m_mail, mails), db.mail \cup mails, crashes)
           /\ \A p \in Players : status[p] = "offline" => Received(m_mail, mails)[p] = {}
<1>1. m_mail \in Boxes /\ crashes \in Nat
  BY StoreAssumption DEF Sound, Boxes
<1>2. /\ \A m \in mails : \A r \in db.mail : r.id # m.id
      /\ \A m \in mails : \A p \in Players : \A k \in m_mail[p] : k.id # m.id
  BY DEF Fresh
<1>3. RowsFit(db.mail \cup mails) /\ BoxesFit(m_mail, db.mail \cup mails, crashes)
  BY <1>1, <1>2, InsertFits DEF Agreed
<1>4. BoxesFit(Received(m_mail, mails), db.mail \cup mails, crashes)
  BY <1>1, <1>2, <1>3, DeliverFits
<1>5. \A p \in Players : status[p] = "offline" => Received(m_mail, mails)[p] = {}
  BY DEF Received, Agreed, Online
<1> QED  BY <1>3, <1>4, <1>5

LEMMA AuctionMailFields ==
    \A id, to, money, item :
        LET m == AuctionMail(id, to, money, item) IN
        m.id = id /\ m.to = to /\ m.item = item /\ ~m.deleted
  BY DEF AuctionMail

LEMMA OneRow == \A m : ~m.deleted => RowsFit({m})
  BY DEF RowsFit

\* What of an agreement does not depend on where the items are.
LEMMA Fits ==
    ASSUME Sound, Agreed
    PROVE  /\ RowsFit(db.mail) /\ BoxesFit(m_mail, db.mail, crashes)
           /\ m_mail \in Boxes /\ crashes \in Nat /\ db.mail \in SUBSET SoundMail
           /\ gold \in [Players -> Money] /\ db.gold \in [Players -> Money]
           /\ bag \in [Players -> SUBSET Items] /\ db.bag \in [Players -> SUBSET Items]
           /\ status \in [Players -> {"offline", "between", "online"}]
           /\ house \in [Lots -> SoundEntry \cup {NoLot}]
           /\ db.auction \in [Lots -> SoundEntry \cup {NoLot}]
           /\ SoundImage(db)
<1>1. RowsFit(db.mail) /\ BoxesFit(m_mail, db.mail, crashes)
  BY DEF Agreed
<1>2. m_mail \in Boxes /\ crashes \in Nat
  BY StoreAssumption DEF Sound, Boxes
<1>3. SoundImage(db) /\ db.mail \in SUBSET SoundMail /\ db.gold \in [Players -> Money]
      /\ db.bag \in [Players -> SUBSET Items] /\ db.auction \in [Lots -> SoundEntry \cup {NoLot}]
  BY DEF Sound, SoundImage
<1> QED  BY <1>1, <1>2, <1>3 DEF Sound

\* The frame of a handler that sends mails, for purse and bag of player p.
LEMMA HandlerAgreed ==
    ASSUME Sound, Agreed, NEW mails \in SUBSET SoundMail, RowsFit(mails), Fresh(mails),
           NEW img, db' = img, NEW p \in Players, NEW g, NEW b,
           Updated(img.gold, db.gold, p, g), Updated(gold', gold, p, g), Updated(bag', bag, p, b),
           crashes = 0 => /\ Updated(img.bag, db.bag, p, b)
                          /\ Single(img.bag, img.mail, img.auction),
           img.mail = db.mail \cup mails, LotsFit(house', img.auction, crashes),
           m_mail' = Received(m_mail, mails), UNCHANGED <<status, crashes>>
    PROVE  Agreed'
<1>1. /\ RowsFit(db'.mail) /\ BoxesFit(m_mail', db'.mail, crashes')
      /\ \A q \in Players : status'[q] = "offline" => m_mail'[q] = {}
  BY SentFits
<1>2. \A q \in Players : status'[q] # "offline" => db'.gold[q] = gold'[q]
  BY DEF Agreed, Updated
<1>3. crashes' = 0 => \A q \in Players : status'[q] # "offline" => db'.bag[q] = bag'[q]
  BY DEF Agreed, Updated
<1>4. LotsFit(house', db'.auction, crashes')
  OBVIOUS
<1>5. crashes' = 0 => Single(db'.bag, db'.mail, db'.auction)
  OBVIOUS
<1> QED  BY <1>1, <1>2, <1>3, <1>4, <1>5 DEF Agreed

\* Items are gone.
Nowhere(items, bags, rows, lots) ==
    \A i \in items \ {NoItem} : /\ \A p \in Players : i \notin bags[p]
                                /\ \A r \in rows : r.item # i
                                /\ \A l \in Lots : ~InLot(lots, l, i)

ImageFits(img, boxes, entries, n) ==
    RowsFit(img.mail) /\ BoxesFit(boxes, img.mail, n) /\ LotsFit(entries, img.auction, n)

\* Image s has these rows and is otherwise as img, but for money.
SameItems(s, img, rows) ==
    /\ s.mail = rows
    /\ \A p \in Players : s.bag[p] = img.bag[p]
    /\ \A l \in Lots : s.auction[l] = img.auction[l]

LEMMA DestroyItemsFields ==
    ASSUME NEW img, SoundImage(img), NEW items
    PROVE  LET s == DestroyItems(img, items) IN
           /\ s.gold = img.gold /\ s.mail = Sheared(img.mail, items)
           /\ \A p \in Players : s.bag[p] = img.bag[p] \ items
           /\ \A l \in Lots :
                s.auction[l] = IF InLot(img.auction, l, img.auction[l].item) /\ img.auction[l].item \in items
                               THEN [img.auction[l] EXCEPT !.item = NoItem] ELSE img.auction[l]
<1> DEFINE b == [p \in Players |-> img.bag[p] \ items]
           ms == {IF m.item \in items THEN [m EXCEPT !.item = NoItem] ELSE m : m \in img.mail}
           a == [l \in Lots |->
                    IF img.auction[l] # NoLot /\ img.auction[l].item \in items
                    THEN [img.auction[l] EXCEPT !.item = NoItem] ELSE img.auction[l]]
           s == DestroyItems(img, items)
<1>1. s = [img EXCEPT !.bag = b, !.mail = ms, !.auction = a]
  BY DEF DestroyItems, SoundImage
<1>2. s.gold = img.gold /\ s.bag = b /\ s.mail = ms /\ s.auction = a
  <2> HIDE DEF s, b, ms, a
  <2> QED  BY <1>1 DEF SoundImage
<1>3. ms = Sheared(img.mail, items)
  BY DEF Sheared, Shorn
<1> HIDE DEF s, ms
<1> QED  BY <1>2, <1>3 DEF InLot, s

LEMMA DestroyFits ==
    ASSUME NEW img, SoundImage(img), NEW boxes \in Boxes, NEW n \in Nat,
           NEW entries \in [Lots -> SoundEntry \cup {NoLot}],
           ImageFits(img, boxes, entries, n),
           NEW items, n = 0 => Nowhere(items, img.bag, img.mail, img.auction)
    PROVE  /\ DestroyItems(img, items).gold = img.gold
           /\ ImageFits(DestroyItems(img, items), boxes, entries, n)
           /\ n = 0 => SameItems(DestroyItems(img, items), img, img.mail)
           /\ \A r \in img.mail : r.item \notin items => r \in DestroyItems(img, items).mail
<1> DEFINE s == DestroyItems(img, items)
<1>1. /\ s.gold = img.gold /\ s.mail = Sheared(img.mail, items)
      /\ \A p \in Players : s.bag[p] = img.bag[p] \ items
      /\ \A l \in Lots :
           s.auction[l] = IF InLot(img.auction, l, img.auction[l].item) /\ img.auction[l].item \in items
                          THEN [img.auction[l] EXCEPT !.item = NoItem] ELSE img.auction[l]
  BY DestroyItemsFields
<1> HIDE DEF s
<1>2. img.mail \in SUBSET SoundMail /\ img.bag \in [Players -> SUBSET Items]
      /\ img.auction \in [Lots -> SoundEntry \cup {NoLot}]
  BY DEF SoundImage
<1>3. n > 0 \/ \A r \in img.mail : r.item \in items => r.item = NoItem
  BY DEF Nowhere
<1>4. RowsFit(s.mail) /\ BoxesFit(boxes, s.mail, n)
  BY <1>1, <1>2, <1>3, ShearFits DEF ImageFits
<1>5. \A e \in SoundEntry : e.item = NoItem => [e EXCEPT !.item = NoItem] = e
  BY DEF SoundEntry, AuctionEntry
<1>6. \A e \in SoundEntry : [[e EXCEPT !.item = NoItem] EXCEPT !.item = NoItem] = [e EXCEPT !.item = NoItem]
  BY DEF SoundEntry, AuctionEntry
<1>7. LotsFit(entries, s.auction, n)
  <2> SUFFICES ASSUME NEW l \in Lots
               PROVE  IF entries[l] = NoLot THEN s.auction[l] = NoLot
                      ELSE s.auction[l] = entries[l]
                           \/ (n > 0 /\ s.auction[l] = [entries[l] EXCEPT !.item = NoItem])
    BY DEF LotsFit
  <2> DEFINE row == img.auction[l]
             e == entries[l]
  <2>1. /\ row \in SoundEntry \cup {NoLot} /\ e \in SoundEntry \cup {NoLot}
        /\ IF e = NoLot THEN row = NoLot
           ELSE row = e \/ (n > 0 /\ row = [e EXCEPT !.item = NoItem])
    BY <1>2 DEF ImageFits, LotsFit
  <2>2. s.auction[l] = row \/ (/\ row # NoLot /\ row.item \in items
                               /\ s.auction[l] = [row EXCEPT !.item = NoItem])
    BY <1>1 DEF InLot
  <2>3. n = 0 /\ row # NoLot /\ row.item \in items => row.item = NoItem
    BY DEF Nowhere, InLot
  <2> HIDE DEF row, e
  <2>4. n = 0 => s.auction[l] = row
    BY <1>5, <2>1, <2>2, <2>3
  <2>5. s.auction[l] = row \/ (row # NoLot /\ s.auction[l] = [row EXCEPT !.item = NoItem])
    BY <2>2
  <2>6. CASE e = NoLot
    BY <2>1, <2>5, <2>6 DEF e
  <2>7. CASE e # NoLot /\ n = 0
    BY <2>1, <2>4, <2>7 DEF e
  <2>8. CASE e # NoLot /\ n > 0
    <3>1. s.auction[l] = e \/ s.auction[l] = [e EXCEPT !.item = NoItem]
      BY <1>6, <2>1, <2>5, <2>8
    <3> QED  BY <2>8, <3>1 DEF e
  <2> QED  BY <2>6, <2>7, <2>8
<1>8. ASSUME n = 0 PROVE /\ s.mail = img.mail
                         /\ \A p \in Players : s.bag[p] = img.bag[p]
                         /\ \A l \in Lots : s.auction[l] = img.auction[l]
  <2>1. \A r \in img.mail : r \in SoundMail /\ (r.item \in items => Shorn(r) = r)
    BY <1>2, <1>3, <1>8, ShornRow
  <2>2. s.mail = img.mail
    BY <1>1, <2>1 DEF Sheared
  <2>3. ASSUME NEW p \in Players PROVE s.bag[p] = img.bag[p]
    <3>1. img.bag[p] \subseteq Items /\ NoItem \notin Items
      BY <1>2, StoreAssumption
    <3>2. \A i \in items \ {NoItem} : i \notin img.bag[p]
      BY <1>8 DEF Nowhere
    <3>3. img.bag[p] \ items = img.bag[p]
      BY <3>1, <3>2
    <3> QED  BY <1>1, <3>3
  <2>4. ASSUME NEW l \in Lots, InLot(img.auction, l, img.auction[l].item), img.auction[l].item \in items
        PROVE  [img.auction[l] EXCEPT !.item = NoItem] = img.auction[l]
    <3>1. img.auction[l].item = NoItem /\ img.auction[l] \in SoundEntry
      BY <1>2, <1>8, <2>4 DEF Nowhere, InLot
    <3> QED  BY <1>5, <3>1
  <2> QED  BY <1>1, <2>2, <2>3, <2>4
<1>9. \A r \in img.mail : r.item \notin items => r \in s.mail
  BY <1>1 DEF Sheared
<1> QED  BY <1>1, <1>4, <1>7, <1>8, <1>9 DEF s, ImageFits, SameItems

\* The mailbox of player p is saved.
LEMMA SaveMailFits ==
    ASSUME NEW img, SoundImage(img), NEW boxes \in Boxes, NEW n \in Nat,
           NEW entries \in [Lots -> SoundEntry \cup {NoLot}],
           ImageFits(img, boxes, entries, n),
           NEW p \in Players, NEW box \in SUBSET SoundMail, \A k \in box : k.to = p,
           \A k \in box : \E m \in boxes[p] : m.id = k.id,
           \A k1, k2 \in box : k1.id = k2.id => k1 = k2,
           n = 0 => Nowhere(MailItems({m \in box : m.deleted}), img.bag,
                            Rewritten(img.mail, box), img.auction),
           NEW new \in Boxes, Updated(new, boxes, p, Kept(box))
    PROVE  /\ SaveMail(img, box).gold = img.gold
           /\ ImageFits(SaveMail(img, box), new, entries, n)
           /\ n = 0 => SameItems(SaveMail(img, box), img, Rewritten(img.mail, box))
           /\ \A r \in img.mail : r.item = NoItem /\ (\A k \in box : k.id # r.id) =>
                r \in SaveMail(img, box).mail
<1> DEFINE gone == {m \in box : m.deleted}
           rows == Rewritten(img.mail, box)
           mid == [img EXCEPT !.mail = rows]
           items == MailItems(gone)
           money == MailMoney(gone)
<1>1. SaveMail(img, box) = Burn(DestroyItems(mid, items), money)
  BY DEF SaveMail, Rewritten
<1>2. img.mail \in SUBSET SoundMail /\ RowsFit(img.mail) /\ BoxesFit(boxes, img.mail, n)
      /\ LotsFit(entries, img.auction, n)
  BY DEF SoundImage, ImageFits
<1>3. rows \in SUBSET SoundMail /\ RowsFit(rows) /\ BoxesFit(new, rows, n)
  BY <1>2, RewriteFits
<1>4. n = 0 => Nowhere(items, img.bag, rows, img.auction)
  OBVIOUS
<1>5. NoItem \notin items /\ \A r \in img.mail : (\A k \in box : k.id # r.id) => r \in rows
  BY DEF MailItems, Rewritten
<1> HIDE DEF gone, rows, items, money
<1>6. SoundImage(mid) /\ mid.mail = rows /\ mid.gold = img.gold /\ mid.bag = img.bag
      /\ mid.auction = img.auction
  BY <1>3 DEF SoundImage
<1> HIDE DEF mid
<1>7. ImageFits(mid, new, entries, n)
  BY <1>2, <1>3, <1>6 DEF ImageFits
<1>8. n = 0 => Nowhere(items, mid.bag, mid.mail, mid.auction)
  BY <1>4, <1>6
<1> DEFINE d == DestroyItems(mid, items)
<1>9. d.gold = mid.gold /\ ImageFits(d, new, entries, n) /\ (n = 0 => SameItems(d, mid, mid.mail))
      /\ \A r \in mid.mail : r.item \notin items => r \in d.mail
  <2>1. SoundImage(mid)
    BY <1>6
  <2> QED  BY <1>7, <1>8, <2>1, DestroyFits
<1>10. SoundImage(d)
  BY <1>6, DestroyItemsSound
<1> HIDE DEF d
<1> DEFINE s == Burn(d, money)
<1>11. s.gold = d.gold /\ s.bag = d.bag /\ s.mail = d.mail /\ s.auction = d.auction
  BY <1>10, BurnFields
<1> HIDE DEF s
<1>12. s.gold = img.gold /\ ImageFits(s, new, entries, n) /\ (n = 0 => SameItems(s, img, rows))
  BY <1>6, <1>9, <1>11 DEF ImageFits, SameItems
<1>13. \A r \in img.mail : r.item = NoItem /\ (\A k \in box : k.id # r.id) => r \in s.mail
  BY <1>5, <1>6, <1>9, <1>11
<1> QED  BY <1>1, <1>12, <1>13 DEF d, s, mid, rows

\* Without crashes, what the deleted mails of a box hold is nowhere else.
LEMMA GoneNowhere ==
    ASSUME NEW boxes \in Boxes, NEW rows \in SUBSET SoundMail,
           RowsFit(rows), BoxesFit(boxes, rows, 0),
           NEW bags, NEW lots, Single(bags, rows, lots),
           NEW p \in Players, NEW box \in SUBSET SoundMail,
           \A k \in box : k.deleted => k \in boxes[p],
           \A k \in box : k.item = NoItem \/ \E m \in boxes[p] : m.id = k.id /\ m.item = k.item,
           \A k1, k2 \in box : k1.id = k2.id => k1 = k2
    PROVE  /\ Nowhere(MailItems({k \in box : k.deleted}), bags, Rewritten(rows, box), lots)
           /\ \A m \in boxes[p] : ~m.deleted => m.item \notin MailItems({k \in box : k.deleted})
<1> SUFFICES ASSUME NEW k \in box, k.deleted, k.item # NoItem
             PROVE  /\ \A q \in Players : k.item \notin bags[q]
                    /\ \A r \in Rewritten(rows, box) : r.item # k.item
                    /\ \A l \in Lots : ~InLot(lots, l, k.item)
                    /\ \A m \in boxes[p] : ~m.deleted => m.item # k.item
  BY DEF Nowhere, MailItems
<1>1. k \in boxes[p] /\ \A m \in boxes[p] : m \in SoundMail
  BY DEF Boxes
<1>2. PICK r \in rows : RowOf(r, k, 0)
  BY <1>1 DEF BoxesFit
<1>3. r.id = k.id /\ r.item = k.item
  BY <1>1, <1>2, RowFacts
<1>4. k.item \in Items
  BY <1>1, MailFields
<1>5. SingleItem(k.item, bags, rows, lots)
  BY <1>4 DEF Single
<1>6. (\A q \in Players : k.item \notin bags[q]) /\ (\A l \in Lots : ~InLot(lots, l, k.item))
  BY <1>3, <1>5 DEF SingleItem
<1>7. \A x \in rows : x.item = k.item => x.id = k.id
  BY <1>3, <1>5 DEF SingleItem
<1>8. ASSUME NEW m \in boxes[p], m.item = k.item PROVE m.id = k.id
  <2>1. PICK x \in rows : RowOf(x, m, 0)
    BY DEF BoxesFit
  <2>2. x.id = m.id /\ x.item = m.item
    BY <1>1, <2>1, RowFacts
  <2> QED  BY <1>7, <1>8, <2>2
<1>9. ASSUME NEW m \in boxes[p], ~m.deleted PROVE m.item # k.item
  BY <1>1, <1>8, <1>9 DEF BoxesFit
<1>10. ASSUME NEW x \in Rewritten(rows, box), x.item = k.item PROVE FALSE
  <2>1. CASE x \in rows /\ \A j \in box : j.id # x.id
    BY <1>7, <1>10, <2>1
  <2>2. CASE x \in box /\ ~x.deleted
    <3>1. PICK m \in boxes[p] : m.id = x.id /\ m.item = x.item
      BY <1>10, <2>2
    <3>2. x.id = k.id
      BY <1>8, <1>10, <3>1
    <3> QED  BY <2>2, <3>2
  <2> QED  BY <1>10, <2>1, <2>2 DEF Rewritten, Kept
<1> QED  BY <1>6, <1>9, <1>10

\* Without crashes, a mail that is not deleted is its own row.
LEMMA OwnRow ==
    ASSUME NEW boxes \in Boxes, NEW rows, BoxesFit(boxes, rows, 0),
           NEW p \in Players, NEW k \in boxes[p], ~k.deleted
    PROVE  k \in rows
<1>1. k \in SoundMail
  BY DEF Boxes
<1>2. PICK r \in rows : RowOf(r, k, 0)
  BY DEF BoxesFit
<1>3. [k EXCEPT !.deleted = FALSE] = k
  BY <1>1 DEF SoundMail, Mail
<1>4. r = [k EXCEPT !.deleted = FALSE]
  BY <1>2 DEF RowOf
<1> QED  BY <1>3, <1>4

-----------------------------------------------------------------------------
(* The mailbox. *)

LEMMA SendMailAgreed ==
    ASSUME Sound, Agreed, NEW p \in Players, NEW q \in Players, NEW c \in Contents,
           NEW id \in MailIds, SendMail(p, q, c[1], c[2], c[3], id)
    PROVE  Agreed'
<1> DEFINE item == c[1]
           money == c[2]
           cod == c[3]
           cost == Postage + money
           mail == PlayerMail(id, p, q, money, cod, item, "")
           left == Pay(gold[p], cost)
           rest == bag[p] \ {item}
           taken == [db EXCEPT !.bag[p] = @ \ {item}]
           sent == InsertMails(taken, {mail})
           inv == SaveInventoryAndGold(sent, p, left, rest)
           saved == Burn(inv, Postage)
<1>1. item \in Items \cup {NoItem} /\ money \in Nat /\ cod \in Money /\ cost \in Nat
  BY MailAssumption, StoreAssumption DEF Money
<1>2. /\ Online(p) /\ item \in bag[p] \cup {NoItem} /\ Fresh({mail})
      /\ \/ /\ Commit(<<taken, sent, saved>>)
            /\ gold' = [gold EXCEPT ![p] = left]
            /\ bag' = [bag EXCEPT ![p] = rest]
            /\ m_mail' = Received(m_mail, {mail})
            /\ UNCHANGED <<status, house>>
         \/ DiesIn(<<taken, sent, saved>>)
  BY DEF SendMail, CanSend, MayAct
<1> HIDE DEF item, money, cod, cost
<1>3. {mail} \in SUBSET SoundMail /\ mail.item = item /\ RowsFit({mail})
  <2>1. mail \in SoundMail
    BY <1>1, MailsSound
  <2>2. mail.item = item /\ ~mail.deleted
    BY DEF PlayerMail
  <2> HIDE DEF mail
  <2> QED  BY <2>1, <2>2, OneRow
<1>4. left \in Money /\ rest \in SUBSET Items
  BY <1>1, Coins DEF Sound
<1> HIDE DEF mail, left
<1>5. SoundImage(taken) /\ taken.mail = db.mail /\ taken.auction = db.auction
      /\ taken.gold = db.gold
      /\ \A r \in Players : taken.bag[r] = IF r = p THEN db.bag[p] \ {item} ELSE db.bag[r]
  BY DEF Sound, SoundImage
<1> HIDE DEF taken
<1>6. SoundImage(sent) /\ sent.mail = db.mail \cup {mail} /\ sent.auction = db.auction
      /\ sent.gold = db.gold /\ sent.bag = taken.bag
  BY <1>3, <1>5, InsertMailsSound, InsertMailsFields
<1> HIDE DEF sent
<1>7. SavedOf(inv, sent, p, left, rest) /\ SoundImage(inv)
  BY <1>4, <1>6, SaveInventoryAndGoldFields, SaveInventoryAndGoldSound
<1> HIDE DEF inv
<1>8. saved.gold = inv.gold /\ saved.bag = inv.bag /\ saved.mail = inv.mail
      /\ saved.auction = inv.auction
  BY <1>7, BurnFields
<1> HIDE DEF saved
<1>9. ASSUME DiesIn(<<taken, sent, saved>>) PROVE Agreed'
  <2>1. RowsFit(taken.mail) /\ RowsFit(sent.mail)
    BY <1>2, <1>3, <1>5, <1>6, SentFits, Fits
  <2> QED  BY <1>5, <1>6, <1>9, <2>1, DiesInTwo
<1>10. ASSUME db' = saved, UNCHANGED crashes,
              gold' = [gold EXCEPT ![p] = left], bag' = [bag EXCEPT ![p] = rest],
              m_mail' = Received(m_mail, {mail}), UNCHANGED <<status, house>>
       PROVE  Agreed'
  <2>1. Updated(saved.gold, db.gold, p, left)
    BY <1>6, <1>7, <1>8 DEF SavedOf
  <2>2. Updated(gold', gold, p, left) /\ Updated(bag', bag, p, rest)
    BY <1>10, Fits DEF Updated
  <2>3. Updated(saved.bag, db.bag, p, rest)
    BY <1>5, <1>6, <1>7, <1>8 DEF SavedOf, Updated
  <2>4. saved.mail = db.mail \cup {mail} /\ saved.auction = db.auction
    BY <1>6, <1>7, <1>8 DEF SavedOf
  <2>5. ASSUME crashes = 0 PROVE Single(saved.bag, saved.mail, saved.auction)
    <3>1. db.bag[p] = bag[p] /\ Single(db.bag, db.mail, db.auction)
      BY <1>2, <2>5 DEF Agreed, Online
    <3>2. item \in Items => item \in db.bag[p]
      BY <1>2, <3>1, StoreAssumption
    <3>3. Updated(saved.bag, db.bag, p, db.bag[p] \ {item})
      BY <2>3, <3>1
    <3> QED  BY <1>3, <2>4, <3>1, <3>2, <3>3, BagToMail
  <2>6. LotsFit(house', saved.auction, crashes)
    BY <1>10, <2>4 DEF Agreed
  <2> HIDE DEF rest
  <2> QED  BY <1>2, <1>3, <1>10, <2>1, <2>2, <2>3, <2>4, <2>5, <2>6, HandlerAgreed
<1> QED  BY <1>2, <1>9, <1>10 DEF Commit

LEMMA MarkAgreed ==
    ASSUME Sound, Agreed, NEW p \in Players, NEW m \in m_mail[p],
           MailMarkAsRead(p, m) \/ MailDelete(p, m)
    PROVE  Agreed'
<1>1. m \in SoundMail
  BY DEF Sound
<1>2. PICK d \in BOOLEAN : m_mail' = [m_mail EXCEPT ![p] = (@ \ {m}) \cup {[m EXCEPT !.deleted = d]}]
  BY DEF MailMarkAsRead, MailDelete
<1> DEFINE m2 == [m EXCEPT !.deleted = d]
<1>3. m2.id = m.id /\ [m2 EXCEPT !.deleted = FALSE] = [m EXCEPT !.deleted = FALSE]
  BY <1>1 DEF SoundMail, Mail
<1>4. Updated(m_mail', m_mail, p, (m_mail[p] \ {m}) \cup {m2})
  BY <1>2 DEF Sound, Updated
<1>5. \A r, n : RowOf(r, m, n) => RowOf(r, m2, n)
  <2> DEFINE k == [m EXCEPT !.deleted = FALSE]
             k2 == [m2 EXCEPT !.deleted = FALSE]
  <2>1. k = k2
    BY <1>3
  <2>2. \A r, n : /\ RowOf(r, m, n) <=> r = k \/ (n > 0 /\ r = Shorn(k))
                  /\ RowOf(r, m2, n) <=> r = k2 \/ (n > 0 /\ r = Shorn(k2))
    BY DEF RowOf
  <2> HIDE DEF k, k2, m2
  <2> QED  BY <2>1, <2>2
<1> HIDE DEF m2
<1>6. UNCHANGED <<status, gold, bag, house, db, crashes>>
  BY DEF MailMarkAsRead, MailDelete
<1>7. BoxesFit(m_mail', db.mail, crashes)
  <2>1. BoxesFit(m_mail, db.mail, crashes)
    BY DEF Agreed
  <2>2. ASSUME NEW q \in Players, NEW k \in m_mail'[q]
        PROVE  \E r \in db.mail : RowOf(r, k, crashes)
    <3>1. CASE k \in m_mail[q]
      BY <2>1, <3>1 DEF BoxesFit
    <3>2. CASE q = p /\ k = m2
      BY <1>5, <2>1, <3>2 DEF BoxesFit
    <3> QED  BY <1>4, <2>2, <3>1, <3>2 DEF Updated
  <2>3. ASSUME NEW q \in Players, NEW k1 \in m_mail'[q], NEW k2 \in m_mail'[q], k1.id = k2.id
        PROVE  k1 = k2
    <3>1. \A j1, j2 \in m_mail[q] : j1.id = j2.id => j1 = j2
      BY <2>1 DEF BoxesFit
    <3>2. CASE q = p
      <4>1. m2.id = m.id
        BY <1>3
      <4>2. k1 \in (m_mail[p] \ {m}) \cup {m2} /\ k2 \in (m_mail[p] \ {m}) \cup {m2}
        BY <1>4, <2>3, <3>2 DEF Updated
      <4>3. \A j \in m_mail[p] : j.id = m.id => j = m
        BY <3>1, <3>2
      <4> QED  BY <2>3, <3>1, <3>2, <4>1, <4>2, <4>3
    <3>3. CASE q # p
      BY <1>4, <2>3, <3>1, <3>3 DEF Updated
    <3> QED  BY <3>2, <3>3
  <2> QED  BY <2>2, <2>3 DEF BoxesFit
<1>8. \A q \in Players : status[q] = "offline" => m_mail'[q] = {}
  BY <1>4 DEF Agreed, Updated
<1> QED  BY <1>6, <1>7, <1>8 DEF Agreed

LEMMA MailReturnToSenderAgreed ==
    ASSUME Sound, Agreed, NEW p \in Players, NEW m \in m_mail[p], NEW id \in MailIds,
           MailReturnToSender(p, m, id)
    PROVE  Agreed'
<1> DEFINE isNormal == m.kind = "normal"
           back == IF isNormal
                   THEN {PlayerMail(id, p, m.from, m.money, 0, m.item, "returned")} ELSE {}
           deleted == DeleteMail(db, m.id)
           limbo == [deleted EXCEPT !.limbo = @ + m.money]
           inserted == InsertMails(deleted, back)
           burned == Burn(deleted, m.money)
           images == IF isNormal THEN <<limbo, inserted>> ELSE <<burned>>
           boxes == [m_mail EXCEPT ![p] = @ \ {m}]
           rows == {r \in db.mail : r.id # m.id}
<1>1. /\ Fresh(back)
      /\ \/ /\ Commit(images)
            /\ m_mail' = Received(boxes, back)
            /\ UNCHANGED <<status, gold, bag, house>>
         \/ DiesIn(images)
  BY DEF MailReturnToSender
<1>2. m \in SoundMail /\ m.to = p
  BY DEF Sound
<1>3. isNormal => /\ m.from \in Players /\ m.money \in Nat /\ m.item \in Items \cup {NoItem}
                  /\ PlayerMail(id, p, m.from, m.money, 0, m.item, "returned") \in SoundMail
  <2>1. isNormal => m.from \in Players /\ m.money \in Nat /\ m.item \in Items \cup {NoItem}
    BY <1>2, MailFields
  <2> QED  BY <2>1, MailsSound, Coins
<1>4. /\ back \in SUBSET SoundMail
      /\ \A b \in back : b.item = m.item /\ ~b.deleted
      /\ \A b1, b2 \in back : b1 = b2
      /\ ~isNormal => back = {}
  <2> DEFINE b0 == PlayerMail(id, p, m.from, m.money, 0, m.item, "returned")
  <2>1. b0.item = m.item /\ ~b0.deleted
    BY DEF PlayerMail
  <2>2. (isNormal => b0 \in SoundMail) /\ back = IF isNormal THEN {b0} ELSE {}
    BY <1>3
  <2> HIDE DEF b0, back, isNormal
  <2> QED  BY <2>1, <2>2
<1>5. RowsFit(back)
  BY <1>4 DEF RowsFit
<1> HIDE DEF back, isNormal
<1>6. SoundImage(deleted) /\ deleted.gold = db.gold /\ deleted.bag = db.bag
      /\ deleted.mail = rows /\ deleted.auction = db.auction
  BY DeleteMailSound, DeleteMailFields DEF Sound
<1> HIDE DEF deleted
<1>7. SoundImage(limbo) /\ limbo.mail = rows
  BY <1>6 DEF SoundImage
<1>8. SoundImage(inserted) /\ inserted.gold = db.gold /\ inserted.bag = db.bag
      /\ inserted.mail = rows \cup back /\ inserted.auction = db.auction
  BY <1>4, <1>6, InsertMailsSound, InsertMailsFields
<1>9. burned.gold = db.gold /\ burned.bag = db.bag
      /\ burned.mail = rows /\ burned.auction = db.auction
  BY <1>6, BurnFields
<1> HIDE DEF limbo, inserted, burned
<1>10. boxes \in Boxes /\ Updated(boxes, m_mail, p, m_mail[p] \ {m})
       /\ \A q \in Players : boxes[q] \subseteq m_mail[q]
  BY DEF Sound, Boxes, Updated
<1> HIDE DEF boxes
<1>11. \A q \in Players : \A k \in boxes[q] : k.id # m.id
  <2> SUFFICES ASSUME NEW q \in Players, NEW k \in boxes[q], k.id = m.id PROVE FALSE
    OBVIOUS
  <2>1. q = p /\ k = m
    BY <1>10, OneMailbox, Fits
  <2> QED  BY <1>10, <2>1 DEF Updated
<1>12. rows \in SUBSET db.mail /\ \A r \in db.mail : r.id # m.id => r \in rows
  OBVIOUS
<1>13. RowsFit(rows) /\ BoxesFit(boxes, rows, crashes)
  <2> DEFINE gone == m.id
  <2>1. \A r \in db.mail : r.id # gone => r \in rows
    BY <1>12
  <2>2. \A q \in Players : \A k \in boxes[q] : k.id # gone
    BY <1>11
  <2>3. /\ RowsFit(db.mail) /\ BoxesFit(m_mail, db.mail, crashes)
        /\ m_mail \in Boxes /\ crashes \in Nat
    BY Fits
  <2>4. \A q \in Players : boxes[q] \subseteq m_mail[q]
    BY <1>10
  <2> HIDE DEF rows, gone
  <2> QED  BY <1>12, <2>1, <2>2, <2>3, <2>4, DropFits
<1>14. ASSUME crashes = 0
       PROVE  \E row \in db.mail : row.item = m.item /\ row \notin rows
  <2>1. PICK row \in db.mail : RowOf(row, m, crashes)
    BY DEF Agreed, BoxesFit
  <2>2. row.id = m.id /\ row.item = m.item
    BY <1>2, <1>14, <2>1, RowFacts
  <2> QED  BY <2>2
<1> HIDE DEF rows
<1>15. /\ \A b \in back : \A r \in rows : r.id # b.id
       /\ \A b \in back : \A q \in Players : \A k \in boxes[q] : k.id # b.id
  BY <1>1, <1>10, <1>12 DEF Fresh
<1>16. RowsFit(rows \cup back) /\ BoxesFit(boxes, rows \cup back, crashes)
  BY <1>5, <1>10, <1>13, <1>15, InsertFits, Fits
<1>17. BoxesFit(Received(boxes, back), rows \cup back, crashes)
  BY <1>4, <1>5, <1>10, <1>15, <1>16, DeliverFits, Fits
<1>18. ASSUME DiesIn(images) PROVE Agreed'
  <2>1. isNormal
    BY <1>18, DiesInNone DEF images
  <2>2. DiesIn(<<limbo, inserted>>)
    BY <1>18, <2>1 DEF images
  <2> QED  BY <1>7, <1>13, <2>2, DiesInOne
<1>19. ASSUME Commit(images), m_mail' = Received(boxes, back),
              UNCHANGED <<status, gold, bag, house>>
       PROVE  Agreed'
  <2>1. /\ db'.gold = db.gold /\ db'.bag = db.bag /\ db'.mail = rows \cup back
        /\ db'.auction = db.auction /\ UNCHANGED crashes
    <3>1. CASE isNormal
      BY <1>8, <1>19, <3>1 DEF Commit
    <3>2. CASE ~isNormal
      BY <1>4, <1>9, <1>19, <3>2 DEF Commit
    <3> QED  BY <3>1, <3>2
  <2>2. \A q \in Players : status[q] = "offline" => m_mail'[q] = {}
    BY <1>10, <1>19 DEF Agreed, Received, Online
  <2>3. ASSUME crashes = 0 PROVE Single(db'.bag, db'.mail, db'.auction)
    <3>1. PICK row \in db.mail : row.item = m.item /\ row \notin rows
      BY <1>14, <2>3
    <3>2. Single(db.bag, db.mail, db.auction)
      BY <2>3 DEF Agreed
    <3>3. \A r \in db'.mail : (r \in db.mail /\ r # row) \/ r \in back
      BY <1>12, <2>1, <3>1
    <3>4. Single(db.bag, db'.mail, db.auction)
      BY <1>4, <3>1, <3>2, <3>3, MailToMails
    <3> QED  BY <2>1, <3>4
  <2> QED  BY <1>16, <1>17, <1>19, <2>1, <2>2, <2>3 DEF Agreed
<1> QED  BY <1>1, <1>18, <1>19

\* The mailbox of p with m2, which has the id of m, for m.
LEMMA ReplacedFits ==
    ASSUME Sound, Agreed, NEW p \in Players, NEW m \in m_mail[p],
           NEW m2 \in SoundMail, m2.id = m.id, m2.to = p
    PROVE  /\ Replaced(p, m, m2) \in SUBSET SoundMail
           /\ \A k \in Replaced(p, m, m2) : k.to = p /\ (k = m2 \/ (k \in m_mail[p] /\ k # m))
           /\ \A k \in Replaced(p, m, m2) : \E j \in m_mail[p] : j.id = k.id
           /\ \A k1, k2 \in Replaced(p, m, m2) : k1.id = k2.id => k1 = k2
           /\ [m_mail EXCEPT ![p] = Kept(Replaced(p, m, m2))] \in Boxes
<1> DEFINE box == Replaced(p, m, m2)
<1>1. /\ box \in SUBSET SoundMail /\ \A k \in box : k.to = p
      /\ [m_mail EXCEPT ![p] = Kept(box)] \in Boxes
  BY BoxSound DEF Boxes
<1>2. \A k \in box : k = m2 \/ (k \in m_mail[p] /\ k # m)
  BY DEF Replaced
<1>3. \A k1, k2 \in m_mail[p] : k1.id = k2.id => k1 = k2
  BY DEF Agreed, BoxesFit
<1> HIDE DEF box
<1>4. \A k \in box : \E j \in m_mail[p] : j.id = k.id
  BY <1>2
<1>5. \A k1, k2 \in box : k1.id = k2.id => k1 = k2
  BY <1>2, <1>3
<1> QED  BY <1>1, <1>2, <1>4, <1>5 DEF box

\* The saved mailbox: what becomes of the rows without crashes.
LEMMA RewrittenRows ==
    ASSUME NEW boxes \in Boxes, NEW rows \in SUBSET SoundMail, BoxesFit(boxes, rows, 0),
           NEW p \in Players, NEW m \in boxes[p], NEW m2, m2.id = m.id,
           NEW box, m2 \in box, \A k \in box : k = m2 \/ (k \in boxes[p] /\ k # m)
    PROVE  \E row \in rows :
             /\ row.item = m.item
             /\ \A r \in Rewritten(rows, box) : (r \in rows /\ r # row) \/ r = m2
<1>1. PICK row \in rows : RowOf(row, m, 0)
  BY DEF BoxesFit
<1>2. m \in SoundMail /\ row.id = m.id /\ row.item = m.item
  BY <1>1, RowFacts DEF Boxes
<1>3. ASSUME NEW r \in Rewritten(rows, box), r # m2 PROVE r \in rows /\ r # row
  <2>1. CASE r \in rows /\ \A k \in box : k.id # r.id
    BY <1>2, <2>1
  <2>2. CASE r \in box /\ ~r.deleted
    <3>1. r \in boxes[p] /\ r # m
      BY <1>3, <2>2
    <3>2. r \in rows
      BY <2>2, <3>1, OwnRow
    <3>3. r.id # m.id
      BY <3>1 DEF BoxesFit
    <3> QED  BY <1>2, <3>2, <3>3
  <2> QED  BY <2>1, <2>2 DEF Rewritten, Kept
<1> QED  BY <1>2, <1>3

LEMMA MailTakeItemAgreed ==
    ASSUME Sound, Agreed, NEW p \in Players, NEW m \in m_mail[p], NEW id \in MailIds,
           MailTakeItem(p, m, id)
    PROVE  Agreed'
<1> DEFINE payment == IF m.cod > 0
                      THEN {PlayerMail(id, p, m.from, m.cod, 0, NoItem, "codPayment")} ELSE {}
           paid == InsertMails(db, payment)
           left == Pay(gold[p], m.cod)
           got == bag[p] \cup {m.item}
           m2 == ItemTaken(m)
           box == Replaced(p, m, m2)
           inv == SaveInventoryAndGold(paid, p, left, got)
           saved == SaveMail(inv, box)
           boxes == [m_mail EXCEPT ![p] = Kept(box)]
<1>1. /\ \/ /\ Commit(<<paid, saved>>)
            /\ gold' = [gold EXCEPT ![p] = left] /\ bag' = [bag EXCEPT ![p] = got]
            /\ m_mail' = Received(boxes, payment)
            /\ UNCHANGED <<status, house>>
         \/ DiesIn(<<paid, saved>>)
      /\ Online(p) /\ ~m.deleted /\ m.item # NoItem /\ Fresh(payment)
  BY DEF MailTakeItem, TakeImages, Replaced, InBox, MayAct
<1>2. m \in SoundMail /\ m.to = p
  BY DEF Sound
<1>3. m.cod \in Money /\ m.cod \in Nat /\ m.item \in Items
  BY <1>1, <1>2, MailFields
<1>4. /\ payment \in SUBSET SoundMail /\ RowsFit(payment)
      /\ \A k \in payment : k.item = NoItem
  <2> DEFINE k0 == PlayerMail(id, p, m.from, m.cod, 0, NoItem, "codPayment")
  <2>1. m.cod > 0 => m.from \in Players
    BY <1>2, MailFields
  <2>2. m.cod > 0 => k0 \in SoundMail
    BY <1>3, <2>1, MailsSound, Coins
  <2>3. k0.item = NoItem /\ ~k0.deleted
    BY DEF PlayerMail
  <2>4. payment = IF m.cod > 0 THEN {k0} ELSE {}
    OBVIOUS
  <2> HIDE DEF k0, payment
  <2> QED  BY <2>2, <2>3, <2>4 DEF RowsFit
<1>5. left \in Money /\ got \in SUBSET Items
  BY <1>3, Coins DEF Sound
<1> HIDE DEF payment, left
<1>6. m2 \in SoundMail /\ m2.to = p /\ m2.id = m.id /\ m2.item = NoItem /\ m2.deleted = m.deleted
  <2>1. m2.item = NoItem /\ m2.deleted = m.deleted
    BY <1>2 DEF ItemTaken, SoundMail, Mail
  <2> QED  BY <1>2, <2>1, ChangedSound
<1> HIDE DEF m2
<1>7. m2 \in box
  BY DEF Replaced
<1> HIDE DEF box
<1>8. /\ box \in SUBSET SoundMail
      /\ \A k \in box : k.to = p /\ (k = m2 \/ (k \in m_mail[p] /\ k # m))
      /\ \A k \in box : \E j \in m_mail[p] : j.id = k.id
      /\ \A k1, k2 \in box : k1.id = k2.id => k1 = k2
      /\ boxes \in Boxes
  BY <1>6, ReplacedFits DEF box
<1>9. SoundImage(paid) /\ paid.gold = db.gold /\ paid.bag = db.bag
      /\ paid.mail = db.mail \cup payment /\ paid.auction = db.auction
  BY <1>4, InsertMailsSound, InsertMailsFields DEF Sound
<1> HIDE DEF paid
<1>10. SoundImage(inv) /\ SavedOf(inv, paid, p, left, got)
  BY <1>5, <1>9, SaveInventoryAndGoldSound, SaveInventoryAndGoldFields
<1> HIDE DEF inv
<1>11. inv.mail = db.mail \cup payment /\ inv.auction = db.auction
       /\ Updated(inv.gold, db.gold, p, left) /\ Updated(inv.bag, db.bag, p, got)
  BY <1>9, <1>10 DEF SavedOf
<1>12. RowsFit(inv.mail) /\ BoxesFit(m_mail, inv.mail, crashes)
  <2>1. \A k \in payment : \A r \in db.mail : r.id # k.id
    BY <1>1 DEF Fresh
  <2> QED  BY <1>4, <1>11, <2>1, InsertFits, Fits
<1>13. ImageFits(inv, m_mail, house, crashes)
  BY <1>11, <1>12 DEF Agreed, ImageFits
<1>14. ASSUME crashes = 0
       PROVE  /\ Single(db.bag, inv.mail, inv.auction) /\ db.bag[p] = bag[p]
              /\ Nowhere(MailItems({k \in box : k.deleted}), inv.bag, Rewritten(inv.mail, box),
                         inv.auction)
  <2>1. Single(db.bag, db.mail, db.auction) /\ db.bag[p] = bag[p]
    BY <1>1, <1>14 DEF Agreed, Online
  <2>2. Single(db.bag, inv.mail, inv.auction)
    BY <1>4, <1>11, <2>1, Stays
  <2>3. /\ inv.mail \in SUBSET SoundMail
        /\ BoxesFit(m_mail, inv.mail, 0)
        /\ \A k \in box : k.deleted => k \in m_mail[p]
        /\ \A k \in box : k.item = NoItem \/ \E j \in m_mail[p] : j.id = k.id /\ j.item = k.item
    BY <1>1, <1>6, <1>8, <1>10, <1>12, <1>14 DEF SoundImage
  <2>4. /\ Nowhere(MailItems({k \in box : k.deleted}), db.bag, Rewritten(inv.mail, box), inv.auction)
        /\ m.item \notin MailItems({k \in box : k.deleted})
    BY <1>1, <1>8, <1>12, <2>2, <2>3, GoneNowhere, Fits
  <2>5. \A q \in Players : inv.bag[q] \subseteq db.bag[q] \cup {m.item}
    BY <1>11, <2>1 DEF Updated
  <2> QED  BY <2>1, <2>2, <2>4, <2>5 DEF Nowhere
<1>15. /\ saved.gold = inv.gold /\ ImageFits(saved, boxes, house, crashes)
       /\ crashes = 0 => SameItems(saved, inv, Rewritten(inv.mail, box))
       /\ \A r \in inv.mail : r.item = NoItem /\ (\A k \in box : k.id # r.id) => r \in saved.mail
  <2>1. /\ box \in SUBSET SoundMail /\ \A k \in box : k.to = p
        /\ \A k \in box : \E j \in m_mail[p] : j.id = k.id
        /\ \A k1, k2 \in box : k1.id = k2.id => k1 = k2
    BY <1>8
  <2>2. crashes = 0 => Nowhere(MailItems({k \in box : k.deleted}), inv.bag,
                               Rewritten(inv.mail, box), inv.auction)
    BY <1>14
  <2>3. /\ m_mail \in Boxes /\ crashes \in Nat
        /\ house \in [Lots -> SoundEntry \cup {NoLot}]
    BY Fits
  <2>4. SoundImage(inv) /\ boxes \in Boxes
    BY <1>8, <1>10
  <2>5. Updated(boxes, m_mail, p, Kept(box))
    BY Fits DEF Boxes, Updated
  <2> HIDE DEF boxes
  <2> QED  BY <1>13, <2>1, <2>2, <2>3, <2>4, <2>5, SaveMailFits
<1> HIDE DEF saved, boxes
<1>16. /\ payment \subseteq saved.mail
       /\ \A k \in payment : \A q \in Players : \A j \in boxes[q] : j.id # k.id
  <2>1. \A k \in payment : \A q \in Players : \A j \in m_mail[q] : j.id # k.id
    BY <1>1 DEF Fresh
  <2>2. \A k \in payment : \A j \in box : j.id # k.id
    BY <1>8, <2>1
  <2>3. \A q \in Players : boxes[q] \subseteq m_mail[q] \cup box
    BY Fits DEF boxes, Kept, Boxes
  <2> QED  BY <1>4, <1>11, <1>15, <2>1, <2>2, <2>3
<1>17. RowsFit(saved.mail) /\ BoxesFit(Received(boxes, payment), saved.mail, crashes)
  BY <1>4, <1>8, <1>15, <1>16, DeliverFits, Fits DEF ImageFits
<1>18. ASSUME DiesIn(<<paid, saved>>) PROVE Agreed'
  <2>1. SoundImage(paid) /\ RowsFit(paid.mail)
    BY <1>9, <1>11, <1>12
  <2> QED  BY <1>18, <2>1, DiesInOne
<1>19. ASSUME db' = saved, UNCHANGED crashes,
              gold' = [gold EXCEPT ![p] = left], bag' = [bag EXCEPT ![p] = got],
              m_mail' = Received(boxes, payment), UNCHANGED <<status, house>>
       PROVE  Agreed'
  <2>1. Updated(gold', gold, p, left) /\ Updated(bag', bag, p, got)
    BY <1>19, Fits DEF Updated
  <2>2. \A q \in Players : status[q] # "offline" => db'.gold[q] = gold'[q]
    BY <1>11, <1>15, <1>19, <2>1 DEF Agreed, Updated
  <2>3. \A q \in Players : status[q] = "offline" => m_mail'[q] = {}
    <3>1. status[p] # "offline" /\ \A q \in Players \ {p} : boxes[q] = m_mail[q]
      BY <1>1, Fits DEF boxes, Online, Boxes
    <3> QED  BY <1>19, <3>1 DEF Agreed, Received, Online
  <2>4. ASSUME crashes = 0
        PROVE  /\ \A q \in Players : status[q] # "offline" => db'.bag[q] = bag'[q]
               /\ Single(db'.bag, db'.mail, db'.auction)
    <3>1. /\ saved.mail = Rewritten(inv.mail, box)
          /\ \A q \in Players : saved.bag[q] = inv.bag[q]
          /\ \A l \in Lots : saved.auction[l] = inv.auction[l]
      BY <1>15, <2>4 DEF SameItems
    <3>2. \A q \in Players : status[q] # "offline" => db'.bag[q] = bag'[q]
      <4>1. db'.bag = saved.bag
        BY <1>19
      <4>2. \A q \in Players : status[q] # "offline" => db.bag[q] = bag[q]
        BY <2>4 DEF Agreed
      <4>3. Updated(inv.bag, db.bag, p, got)
        BY <1>11
      <4> HIDE DEF got
      <4> QED  BY <2>1, <3>1, <4>1, <4>2, <4>3 DEF Updated
    <3>3. PICK row \in inv.mail :
            /\ row.item = m.item
            /\ \A r \in Rewritten(inv.mail, box) : (r \in inv.mail /\ r # row) \/ r = m2
      <4>1. inv.mail \in SUBSET SoundMail /\ BoxesFit(m_mail, inv.mail, 0)
        BY <1>10, <1>12, <2>4 DEF SoundImage
      <4> QED  BY <1>6, <1>7, <1>8, <4>1, RewrittenRows, Fits
    <3>4. Updated(inv.bag, db.bag, p, db.bag[p] \cup {row.item})
      BY <1>11, <1>14, <2>4, <3>3
    <3>5. \A r \in saved.mail : (r \in inv.mail /\ r # row) \/ r.item = NoItem
      BY <1>6, <3>1, <3>3
    <3>6. Single(inv.bag, saved.mail, inv.auction)
      BY <1>3, <1>14, <2>4, <3>3, <3>4, <3>5, MailToBag
    <3>7. Single(saved.bag, saved.mail, saved.auction)
      BY <3>1, <3>6, Stays DEF InLot
    <3> QED  BY <1>19, <3>2, <3>7
  <2> QED  BY <1>15, <1>17, <1>19, <2>2, <2>3, <2>4 DEF Agreed, ImageFits
<1> QED  BY <1>1, <1>18, <1>19 DEF Commit

LEMMA MailTakeMoneyAgreed ==
    ASSUME Sound, Agreed, NEW p \in Players, NEW m \in m_mail[p], MailTakeMoney(p, m)
    PROVE  Agreed'
<1> DEFINE now == Earn(gold[p], m.money)
           m2 == MoneyTaken(m)
           box == Replaced(p, m, m2)
           lost == gold[p] + m.money - now
           inv == SaveGold(db, p, now)
           sent == SaveMail(inv, box)
           saved == Burn(sent, lost)
           boxes == [m_mail EXCEPT ![p] = Kept(box)]
<1>1. /\ db' = saved /\ UNCHANGED crashes
      /\ gold' = [gold EXCEPT ![p] = now] /\ m_mail' = boxes
      /\ UNCHANGED <<status, bag, house>>
      /\ Online(p) /\ ~m.deleted
  BY DEF MailTakeMoney, Commit, Replaced, InBox, MayAct
<1>2. m \in SoundMail /\ m.to = p /\ m.money \in Nat
  BY MailFields DEF Sound
<1>3. now \in Money
  BY <1>2, Coins DEF Sound
<1> HIDE DEF now, lost
<1>4. m2 \in SoundMail /\ m2.to = p /\ m2.id = m.id /\ m2.item = m.item /\ m2.deleted = m.deleted
  <2>1. m2.item = m.item /\ m2.deleted = m.deleted
    BY <1>2 DEF MoneyTaken, SoundMail, Mail
  <2> QED  BY <1>2, <2>1, ChangedSound
<1> HIDE DEF m2
<1>5. m2 \in box
  BY DEF Replaced
<1> HIDE DEF box
<1>6. /\ box \in SUBSET SoundMail
      /\ \A k \in box : k.to = p /\ (k = m2 \/ (k \in m_mail[p] /\ k # m))
      /\ \A k \in box : \E j \in m_mail[p] : j.id = k.id
      /\ \A k1, k2 \in box : k1.id = k2.id => k1 = k2
      /\ boxes \in Boxes
  BY <1>4, ReplacedFits DEF box
<1>7. SoundImage(inv) /\ SavedOf(inv, db, p, now, db.bag[p])
  BY <1>3, SaveGoldSound, SaveGoldFields DEF Sound
<1> HIDE DEF inv
<1>8. inv.mail = db.mail /\ inv.auction = db.auction
      /\ Updated(inv.gold, db.gold, p, now) /\ \A q \in Players : inv.bag[q] = db.bag[q]
  BY <1>7 DEF SavedOf, Updated
<1>9. ImageFits(inv, m_mail, house, crashes)
  BY <1>8 DEF Agreed, ImageFits
<1>10. ASSUME crashes = 0
       PROVE  /\ Single(inv.bag, db.mail, db.auction)
              /\ Nowhere(MailItems({k \in box : k.deleted}), inv.bag, Rewritten(inv.mail, box),
                         inv.auction)
  <2>1. Single(db.bag, db.mail, db.auction)
    BY <1>10 DEF Agreed
  <2>2. Single(inv.bag, db.mail, db.auction)
    BY <1>8, <2>1, Stays
  <2>3. /\ db.mail \in SUBSET SoundMail /\ RowsFit(db.mail) /\ BoxesFit(m_mail, db.mail, 0)
        /\ m_mail \in Boxes
    BY <1>10, Fits
  <2>4. /\ \A k \in box : k.deleted => k \in m_mail[p]
        /\ \A k \in box : k.item = NoItem \/ \E j \in m_mail[p] : j.id = k.id /\ j.item = k.item
    BY <1>1, <1>4, <1>6
  <2>5. Nowhere(MailItems({k \in box : k.deleted}), inv.bag, Rewritten(db.mail, box), db.auction)
    BY <1>6, <2>2, <2>3, <2>4, GoneNowhere
  <2> QED  BY <1>8, <2>2, <2>5
<1>11. /\ sent.gold = inv.gold /\ ImageFits(sent, boxes, house, crashes)
       /\ crashes = 0 => SameItems(sent, inv, Rewritten(inv.mail, box))
       /\ SoundImage(sent)
  <2>1. /\ box \in SUBSET SoundMail /\ \A k \in box : k.to = p
        /\ \A k \in box : \E j \in m_mail[p] : j.id = k.id
        /\ \A k1, k2 \in box : k1.id = k2.id => k1 = k2
    BY <1>6
  <2>2. crashes = 0 => Nowhere(MailItems({k \in box : k.deleted}), inv.bag,
                               Rewritten(inv.mail, box), inv.auction)
    BY <1>10
  <2>3. /\ m_mail \in Boxes /\ crashes \in Nat
        /\ house \in [Lots -> SoundEntry \cup {NoLot}]
    BY Fits
  <2>4. SoundImage(inv) /\ boxes \in Boxes
    BY <1>6, <1>7
  <2>5. Updated(boxes, m_mail, p, Kept(box))
    BY Fits DEF Boxes, Updated
  <2> HIDE DEF boxes
  <2> QED  BY <1>9, <2>1, <2>2, <2>3, <2>4, <2>5, SaveMailFits, SaveMailSound
<1> HIDE DEF sent
<1>12. saved.gold = sent.gold /\ saved.bag = sent.bag /\ saved.mail = sent.mail
       /\ saved.auction = sent.auction
  BY <1>11, BurnFields
<1> HIDE DEF saved
<1>13. \A q \in Players : status[q] # "offline" => db'.gold[q] = gold'[q]
  <2>1. Updated(gold', gold, p, now) /\ db'.gold = inv.gold
    BY <1>1, <1>11, <1>12, Fits DEF Updated
  <2> QED  BY <1>8, <2>1 DEF Agreed, Updated
<1>14. \A q \in Players : status[q] = "offline" => m_mail'[q] = {}
  <2>1. status[p] # "offline" /\ \A q \in Players \ {p} : boxes[q] = m_mail[q]
    BY <1>1, Fits DEF Online, Boxes
  <2> QED  BY <1>1, <2>1 DEF Agreed
<1> HIDE DEF boxes
<1>15. ASSUME crashes = 0
       PROVE  /\ \A q \in Players : status[q] # "offline" => db'.bag[q] = bag'[q]
              /\ Single(db'.bag, db'.mail, db'.auction)
  <2>1. /\ saved.mail = Rewritten(db.mail, box)
        /\ \A q \in Players : saved.bag[q] = inv.bag[q]
        /\ \A l \in Lots : saved.auction[l] = db.auction[l]
    BY <1>8, <1>11, <1>12, <1>15 DEF SameItems
  <2>2. \A q \in Players : status[q] # "offline" => saved.bag[q] = bag[q]
    BY <1>8, <1>15, <2>1 DEF Agreed
  <2>3. PICK row \in db.mail :
          /\ row.item = m.item
          /\ \A r \in Rewritten(db.mail, box) : (r \in db.mail /\ r # row) \/ r = m2
    <3>1. db.mail \in SUBSET SoundMail /\ BoxesFit(m_mail, db.mail, 0) /\ m_mail \in Boxes
      BY <1>15, Fits
    <3> QED  BY <1>4, <1>5, <1>6, <3>1, RewrittenRows
  <2>4. Single(inv.bag, saved.mail, db.auction)
    <3> DEFINE mails == {m2}
    <3>1. /\ \A k \in mails : k.item = row.item
          /\ \A k1, k2 \in mails : k1 = k2
          /\ \A r \in saved.mail : (r \in db.mail /\ r # row) \/ r \in mails
      BY <1>4, <2>1, <2>3
    <3> HIDE DEF mails
    <3> QED  BY <1>10, <1>15, <3>1, MailToMails
  <2>5. Single(saved.bag, saved.mail, saved.auction)
    BY <2>1, <2>4, Stays DEF InLot
  <2> QED  BY <1>1, <2>2, <2>5
<1> QED  BY <1>1, <1>11, <1>12, <1>13, <1>14, <1>15 DEF Agreed, ImageFits

\* The sweep, when it takes no mail that a player has in the box.
LEMMA SweepMailAgreed ==
    ASSUME Sound, Agreed, NEW m \in db.mail, SweepMail(m), ~raced'
    PROVE  Agreed'
<1> DEFINE returns == m.item # NoItem /\ m.kind = "normal" /\ m.checked = ""
           back == [m EXCEPT !.from = m.to, !.to = m.from, !.cod = 0, !.checked = "returned"]
           mails == IF returns THEN {back} ELSE {}
           deleted == DeleteMail(db, m.id)
           inserted == InsertMails(deleted, {back})
           destroyed == DestroyItems(db, {m.item})
           dropped == DeleteMail(destroyed, m.id)
           burned == Burn(dropped, m.money)
           images == IF returns THEN <<inserted>> ELSE <<destroyed, burned>>
           rows == {r \in db.mail : r.id # m.id}
<1>1. \/ /\ Commit(images) /\ UNCHANGED <<player, house>>
         /\ \A k \in m_mail[m.to] : k.id # m.id
      \/ DiesIn(images)
  BY DEF SweepMail
<1>2. m \in SoundMail /\ ~m.deleted /\ SoundImage(db)
  BY Fits DEF RowsFit
<1>3. returns => back \in SoundMail /\ back.id = m.id /\ back.item = m.item /\ ~back.deleted
  BY <1>2, Coins DEF SoundMail, Mail
<1>4. /\ mails \in SUBSET SoundMail /\ RowsFit(mails)
      /\ \A k \in mails : k.item = m.item /\ k.id = m.id
      /\ \A k1, k2 \in mails : k1 = k2
      /\ (returns => mails = {back}) /\ (~returns => mails = {})
  <2> HIDE DEF back, returns
  <2> QED  BY <1>3 DEF RowsFit
<1> HIDE DEF mails, back, returns
<1>5. rows \in SUBSET db.mail /\ (\A r \in db.mail : r.id # m.id => r \in rows)
      /\ \A r \in rows : r.id # m.id
  OBVIOUS
<1>6. SoundImage(deleted) /\ deleted.gold = db.gold /\ deleted.bag = db.bag
      /\ deleted.mail = rows /\ deleted.auction = db.auction
  BY <1>2, DeleteMailSound, DeleteMailFields
<1> HIDE DEF deleted
<1>7. inserted.gold = db.gold /\ inserted.bag = db.bag
      /\ inserted.mail = rows \cup {back} /\ inserted.auction = db.auction
  BY <1>6, InsertMailsFields
<1> HIDE DEF inserted
<1>8. /\ SoundImage(destroyed) /\ destroyed.gold = db.gold
      /\ destroyed.mail = Sheared(db.mail, {m.item})
      /\ \A p \in Players : destroyed.bag[p] = db.bag[p] \ {m.item}
      /\ \A l \in Lots : destroyed.auction[l] =
            IF InLot(db.auction, l, db.auction[l].item) /\ db.auction[l].item \in {m.item}
            THEN [db.auction[l] EXCEPT !.item = NoItem] ELSE db.auction[l]
  BY <1>2, DestroyItemsSound, DestroyItemsFields
<1> HIDE DEF destroyed, rows
<1>9. ASSUME crashes = 0
      PROVE  /\ Single(db.bag, rows \cup mails, db.auction)
             /\ Nowhere({m.item}, db.bag, rows, db.auction)
  <2>1. Single(db.bag, db.mail, db.auction)
    BY <1>9 DEF Agreed
  <2>2. \A r \in rows \cup mails : (r \in db.mail /\ r # m) \/ r \in mails
    BY <1>5
  <2>3. Single(db.bag, rows \cup mails, db.auction)
    BY <1>4, <2>1, <2>2, MailToMails
  <2>4. m.item # NoItem => SingleItem(m.item, db.bag, db.mail, db.auction)
    BY <1>2, <2>1, MailFields DEF Single
  <2>5. m.item # NoItem => /\ \A p \in Players : m.item \notin db.bag[p]
                           /\ \A r \in rows : r.item # m.item
                           /\ \A l \in Lots : ~InLot(db.auction, l, m.item)
    BY <1>5, <2>4 DEF SingleItem
  <2> QED  BY <2>3, <2>5 DEF Nowhere
<1>10. Commit(images) /\ ~returns => db' = burned /\ UNCHANGED crashes
  BY DEF Commit
<1>11. Commit(images) /\ returns => db' = inserted /\ UNCHANGED crashes
  BY DEF Commit
<1>12. ASSUME DiesIn(images) PROVE Agreed'
  <2>1. \A r \in db.mail : Shorn(r).id = r.id /\ Shorn(r).deleted = r.deleted
    BY Fits, ShornRow
  <2>2. RowsFit(destroyed.mail)
    BY <1>8, <2>1, Fits DEF RowsFit, Sheared
  <2>3. DiesIn(<<destroyed, burned>>)
    BY <1>12, DiesInNone
  <2> QED  BY <1>8, <2>2, <2>3, DiesInOne
<1> HIDE DEF images
<1>13. ASSUME Commit(images), UNCHANGED <<player, house>>, \A k \in m_mail[m.to] : k.id # m.id
       PROVE  /\ ImageFits(deleted, m_mail, house, crashes)
              /\ \A p \in Players : \A k \in m_mail[p] : k.id # m.id
  <2>1. ASSUME NEW p \in Players, NEW k \in m_mail[p] PROVE k.id # m.id
    <3>1. k \in SoundMail /\ k.to = p
      BY Fits DEF Boxes
    <3>2. PICK r \in db.mail : RowOf(r, k, crashes)
      BY Fits DEF BoxesFit
    <3>3. r.id = k.id /\ r.to = p
      BY <3>1, <3>2, Fits, RowFacts
    <3>4. CASE k.id = m.id
      <4>1. r = m
        BY <3>3, <3>4, Fits DEF RowsFit
      <4> QED  BY <1>13, <3>3, <4>1
    <3> QED  BY <3>4
  <2> DEFINE id == m.id
  <2>2. /\ m_mail \in Boxes /\ crashes \in Nat
        /\ RowsFit(db.mail) /\ BoxesFit(m_mail, db.mail, crashes)
    BY Fits
  <2>3. rows \in SUBSET db.mail /\ (\A r \in db.mail : r.id # id => r \in rows)
    BY <1>5
  <2>4. \A p \in Players : \A k \in m_mail[p] : k.id # id
    BY <2>1
  <2> HIDE DEF id
  <2>5. RowsFit(rows) /\ BoxesFit(m_mail, rows, crashes)
    BY <2>2, <2>3, <2>4, DropFits
  <2> QED  BY <1>6, <2>1, <2>5 DEF Agreed, ImageFits
<1>14. ASSUME Commit(images), UNCHANGED <<player, house>>, \A k \in m_mail[m.to] : k.id # m.id,
              returns
       PROVE  Agreed'
  <2>1. /\ db' = inserted /\ UNCHANGED crashes /\ UNCHANGED <<status, gold, bag, m_mail, house>>
        /\ mails = {back}
    BY <1>4, <1>11, <1>14 DEF player
  <2>2. m_mail \in Boxes /\ crashes \in Nat /\ RowsFit(rows) /\ BoxesFit(m_mail, rows, crashes)
    BY <1>6, <1>13, <1>14, Fits DEF ImageFits
  <2>3. RowsFit(mails) /\ \A k \in mails : \A r \in rows : r.id # k.id
    BY <1>4, <1>5
  <2>4. RowsFit(rows \cup mails) /\ BoxesFit(m_mail, rows \cup mails, crashes)
    BY <2>2, <2>3, InsertFits
  <2> QED  BY <1>7, <1>9, <2>1, <2>4 DEF Agreed
<1>15. ASSUME Commit(images), UNCHANGED <<player, house>>, \A k \in m_mail[m.to] : k.id # m.id,
              ~returns
       PROVE  Agreed'
  <2> DEFINE gone == DestroyItems(deleted, {m.item})
             items == {m.item}
  <2>1. /\ db' = burned /\ UNCHANGED crashes /\ UNCHANGED <<status, gold, bag, m_mail, house>>
        /\ mails = {}
    BY <1>4, <1>10, <1>15 DEF player
  <2>2. /\ dropped.gold = destroyed.gold /\ dropped.bag = destroyed.bag
        /\ dropped.mail = {r \in destroyed.mail : r.id # m.id}
        /\ dropped.auction = destroyed.auction /\ SoundImage(dropped)
    BY <1>8, DeleteMailFields, DeleteMailSound
  <2> HIDE DEF dropped
  <2>3. burned.gold = dropped.gold /\ burned.bag = dropped.bag /\ burned.mail = dropped.mail
        /\ burned.auction = dropped.auction
    BY <2>2, BurnFields
  <2> HIDE DEF burned
  <2>4. /\ gone.mail = Sheared(rows, {m.item})
        /\ \A p \in Players : gone.bag[p] = db.bag[p] \ {m.item}
        /\ \A l \in Lots : gone.auction[l] =
              IF InLot(db.auction, l, db.auction[l].item) /\ db.auction[l].item \in {m.item}
              THEN [db.auction[l] EXCEPT !.item = NoItem] ELSE db.auction[l]
    <3>1. /\ gone.mail = Sheared(deleted.mail, {m.item})
          /\ \A p \in Players : gone.bag[p] = deleted.bag[p] \ {m.item}
          /\ \A l \in Lots : gone.auction[l] =
                IF InLot(deleted.auction, l, deleted.auction[l].item)
                     /\ deleted.auction[l].item \in {m.item}
                THEN [deleted.auction[l] EXCEPT !.item = NoItem] ELSE deleted.auction[l]
      BY <1>6, DestroyItemsFields
    <3> HIDE DEF gone
    <3> QED  BY <1>6, <3>1
  <2>5. burned.mail = gone.mail
    <3>1. \A r \in db.mail : Shorn(r).id = r.id
      BY Fits, ShornRow
    <3>2. rows = {r \in db.mail : r.id # m.id}
      BY DEF rows
    <3> HIDE DEF gone
    <3> QED  BY <1>8, <2>2, <2>3, <2>4, <3>1, <3>2 DEF Sheared
  <2>6. /\ \A p \in Players : burned.bag[p] = gone.bag[p]
        /\ \A l \in Lots : burned.auction[l] = gone.auction[l]
    <3> HIDE DEF gone, items
    <3>1. burned.bag = destroyed.bag /\ burned.auction = destroyed.auction
      BY <2>2, <2>3
    <3>2. \A p \in Players : destroyed.bag[p] = gone.bag[p]
      BY <1>8, <2>4
    <3>3. ASSUME NEW l \in Lots PROVE destroyed.auction[l] = gone.auction[l]
      BY <1>8, <2>4
    <3> QED  BY <3>1, <3>2, <3>3
  <2>7. /\ ImageFits(gone, m_mail, house, crashes)
        /\ crashes = 0 => SameItems(gone, deleted, rows)
    <3>1. crashes = 0 => Nowhere(items, deleted.bag, deleted.mail, deleted.auction)
      BY <1>6, <1>9
    <3>2. ImageFits(deleted, m_mail, house, crashes) /\ SoundImage(deleted) /\ deleted.mail = rows
      BY <1>6, <1>13, <1>15
    <3>3. /\ m_mail \in Boxes /\ crashes \in Nat
          /\ house \in [Lots -> SoundEntry \cup {NoLot}]
      BY Fits
    <3> HIDE DEF items
    <3>4. /\ ImageFits(DestroyItems(deleted, items), m_mail, house, crashes)
          /\ crashes = 0 => SameItems(DestroyItems(deleted, items), deleted, deleted.mail)
      BY <3>1, <3>2, <3>3, DestroyFits
    <3> QED  BY <3>2, <3>4 DEF items
  <2> HIDE DEF gone
  <2>8. RowsFit(burned.mail) /\ BoxesFit(m_mail, burned.mail, crashes)
        /\ LotsFit(house, burned.auction, crashes)
    BY <2>5, <2>6, <2>7 DEF ImageFits, LotsFit
  <2>9. ASSUME crashes = 0
        PROVE  /\ \A p \in Players : status[p] # "offline" => burned.bag[p] = bag[p]
               /\ Single(burned.bag, burned.mail, burned.auction)
    <3>1. /\ burned.mail = rows /\ \A p \in Players : burned.bag[p] = db.bag[p]
          /\ \A l \in Lots : burned.auction[l] = db.auction[l]
      BY <1>6, <2>5, <2>6, <2>7, <2>9 DEF SameItems
    <3>2. Single(db.bag, rows, db.auction)
      <4>1. rows \cup mails = rows
        BY <2>1
      <4> QED  BY <1>9, <2>9, <4>1
    <3>3. Single(burned.bag, burned.mail, burned.auction)
      BY <3>1, <3>2, Stays DEF InLot
    <3> QED  BY <2>9, <3>1, <3>3 DEF Agreed
  <2>10. burned.gold = db.gold
    BY <1>8, <2>2, <2>3
  <2> QED  BY <2>1, <2>8, <2>9, <2>10 DEF Agreed
<1> QED  BY <1>1, <1>12, <1>14, <1>15

-----------------------------------------------------------------------------
(* The auction house. *)

\* At most one mail, of this id and item.
OneMail(mails, id, item) ==
    /\ \A m \in mails : ~m.deleted /\ m.id = id /\ m.item = item
    /\ \A m1, m2 \in mails : m1 = m2

\* New mails, of which one at most has the item.
LotMails(mails, item) ==
    /\ RowsFit(mails)
    /\ \A m \in mails : m.item \in {item, NoItem}
    /\ \A m1, m2 \in mails : m1.item # NoItem /\ m2.item # NoItem => m1 = m2

\* Entry e has the item that lot l has so far, unless it is in a mail, or has none.
LotEntry(e, l, mails) ==
    \/ e = NoLot \/ e.item = NoItem
    \/ e.item = house[l].item /\ \A m \in mails : m.item = NoItem

\* What image img makes of the database.
LotImage(img, l, e, mails) ==
    /\ img.mail = db.mail \cup mails
    /\ img.auction[l] = e /\ \A k \in Lots \ {l} : img.auction[k] = db.auction[k]
    /\ crashes = 0 => \A q \in Players : img.bag[q] = db.bag[q]

LEMMA TwoMails ==
    ASSUME NEW refund, NEW won, NEW id1, NEW id2, id1 # id2, NEW item,
           OneMail(refund, id1, NoItem), OneMail(won, id2, item)
    PROVE  LotMails(refund, item) /\ LotMails(won, item) /\ LotMails(refund \cup won, item)
<1>1. RowsFit(refund) /\ RowsFit(won) /\ RowsFit(refund \cup won)
  BY DEF OneMail, RowsFit
<1>2. \A m \in refund \cup won : m.item \in {item, NoItem}
  BY DEF OneMail
<1>3. \A m1, m2 \in refund \cup won : m1.item # NoItem /\ m2.item # NoItem => m1 = m2
  BY DEF OneMail
<1> QED  BY <1>1, <1>2, <1>3 DEF LotMails

LEMMA AuctionMails ==
    /\ \A id, to, money, item : OneMail({AuctionMail(id, to, money, item)}, id, item)
    /\ \A id, e, p : OneMail(Outbidden(id, e, p), id, NoItem)
    /\ \A id, e : OneMail(WonMails(id, e), id, e.item)
    /\ \A id, item : OneMail({}, id, item)
<1>1. ASSUME NEW id, NEW to, NEW money, NEW item
      PROVE  OneMail({AuctionMail(id, to, money, item)}, id, item)
  <2> DEFINE m == AuctionMail(id, to, money, item)
  <2>1. m.id = id /\ m.item = item /\ ~m.deleted
    BY AuctionMailFields
  <2> HIDE DEF m
  <2> QED  BY <2>1 DEF OneMail, m
<1>2. \A id, item : OneMail({}, id, item)
  BY DEF OneMail
<1>3. ASSUME NEW id, NEW e, NEW p PROVE OneMail(Outbidden(id, e, p), id, NoItem)
  BY <1>1, <1>2 DEF Outbidden
<1>4. ASSUME NEW id, NEW e PROVE OneMail(WonMails(id, e), id, e.item)
  BY <1>1, <1>2 DEF WonMails
<1> QED  BY <1>1, <1>2, <1>3, <1>4

\* The frame of a handler that turns the auction of lot l into e, which has the item
\* still, or no longer, and sends mails, of which one may have it.
LEMMA LotAgreed ==
    ASSUME Sound, Agreed, NEW l \in Lots, Listed(l), NEW e,
           NEW mails \in SUBSET SoundMail, Fresh(mails), LotMails(mails, house[l].item),
           LotEntry(e, l, mails),
           NEW img, db' = img, LotImage(img, l, e, mails),
           \A q \in Players : status[q] # "offline" => img.gold[q] = gold'[q],
           house' = [house EXCEPT ![l] = e], m_mail' = Received(m_mail, mails),
           UNCHANGED <<status, bag, crashes>>
    PROVE  Agreed'
<1>1. /\ RowsFit(db'.mail) /\ BoxesFit(m_mail', db'.mail, crashes')
      /\ \A q \in Players : status'[q] = "offline" => m_mail'[q] = {}
  BY SentFits DEF LotImage, LotMails
<1>2. house'[l] = e /\ \A k \in Lots \ {l} : house'[k] = house[k]
  BY Fits
<1>3. LotsFit(house', db'.auction, crashes')
  BY <1>2 DEF Agreed, LotsFit, LotImage
<1>4. ASSUME crashes = 0
      PROVE  /\ \A q \in Players : status[q] # "offline" => img.bag[q] = bag[q]
             /\ Single(img.bag, img.mail, img.auction)
  <2>1. Single(db.bag, db.mail, db.auction) /\ db.auction[l] = house[l] /\ db.auction[l] # NoLot
    BY <1>4 DEF Agreed, LotsFit, Listed
  <2> DEFINE lots == db.auction
             lots2 == img.auction
             rows == db.mail \cup mails
  <2>2. Single(db.bag, rows, lots2)
    <3>1. CASE e = NoLot \/ e.item = NoItem
      <4>1. /\ \A m \in mails : m.item \in {lots[l].item, NoItem}
            /\ \A m1, m2 \in mails : m1.item # NoItem /\ m2.item # NoItem => m1 = m2
        BY <2>1 DEF LotMails
      <4>2. /\ lots2[l] = NoLot \/ lots2[l].item = NoItem
            /\ \A k \in Lots \ {l} : lots2[k] = lots[k]
        BY <3>1 DEF LotImage
      <4>3. Single(db.bag, db.mail, lots) /\ lots[l] # NoLot
        BY <2>1
      <4> HIDE DEF lots, lots2
      <4> QED  BY <4>1, <4>2, <4>3, LotToMails
    <3>2. CASE ~(e = NoLot \/ e.item = NoItem)
      <4>1. e.item = house[l].item /\ \A r \in rows : r \in db.mail \/ r.item = NoItem
        BY <3>2 DEF LotEntry
      <4>2. \A k \in Lots, i \in Items : InLot(lots2, k, i) => InLot(lots, k, i)
        BY <2>1, <4>1 DEF InLot, LotImage
      <4>3. Single(db.bag, db.mail, lots)
        BY <2>1
      <4> HIDE DEF lots, lots2, rows
      <4> QED  BY <4>1, <4>2, <4>3, Stays
    <3> QED  BY <3>1, <3>2
  <2>3. Single(img.bag, img.mail, img.auction)
    <3>1. /\ img.mail = rows /\ lots2 = img.auction
          /\ \A q \in Players : img.bag[q] = db.bag[q]
      BY <1>4 DEF LotImage
    <3> HIDE DEF rows, lots2
    <3> QED  BY <2>2, <3>1, Stays
  <2> QED  BY <1>4, <2>3 DEF Agreed, LotImage
<1> QED  BY <1>1, <1>3, <1>4 DEF Agreed

LEMMA SellItemAgreed ==
    ASSUME Sound, Agreed, NEW p \in Players, NEW l \in Lots, NEW item \in Items,
           NEW startbid \in StartBids, NEW buyout \in Buyouts, SellItem(p, l, item, startbid, buyout)
    PROVE  Agreed'
<1> DEFINE left == Pay(gold[p], Deposit)
           rest == bag[p] \ {item}
           entry == [item |-> item, owner |-> p, startbid |-> startbid, buyout |-> buyout,
                     bid |-> 0, bidder |-> NoBidder, deposit |-> Deposit, pending |-> FALSE]
           listed == SaveAuction(db, l, entry)
           saved == SaveInventoryAndGold(listed, p, left, rest)
<1>1. /\ db' = saved /\ UNCHANGED crashes
      /\ house' = [house EXCEPT ![l] = entry]
      /\ gold' = [gold EXCEPT ![p] = left] /\ bag' = [bag EXCEPT ![p] = rest]
      /\ UNCHANGED <<status, m_mail>>
      /\ gold[p] >= Deposit /\ Online(p) /\ item \in bag[p]
  BY DEF SellItem, Commit, MayAct
<1>2. entry.item = item /\ entry \in SoundEntry
  <2>1. Deposit \in Nat /\ startbid \in Money /\ buyout \in Money /\ buyout \in Nat
    BY AuctionAssumption, StoreAssumption DEF Money
  <2>2. Deposit \in Money
    BY <1>1, <2>1, StoreAssumption DEF Sound, Money
  <2>3. entry \in AuctionEntry
    BY <2>1, <2>2, Coins DEF AuctionEntry
  <2> QED  BY <2>1, <2>3 DEF SoundEntry
<1> HIDE DEF left, entry
<1>3. LotOf(listed, db, l, entry) /\ SoundImage(listed)
  BY <1>2, Fits, SaveAuctionFields, SaveAuctionSound
<1> HIDE DEF listed
<1>4. SavedOf(saved, listed, p, left, rest)
  BY <1>3, SaveInventoryAndGoldFields
<1> HIDE DEF saved
<1>5. /\ saved.mail = db.mail /\ saved.auction[l] = entry
      /\ \A k \in Lots \ {l} : saved.auction[k] = db.auction[k]
      /\ Updated(saved.gold, db.gold, p, left) /\ Updated(saved.bag, db.bag, p, rest)
  BY <1>3, <1>4 DEF LotOf, SavedOf
<1>6. Updated(gold', gold, p, left) /\ Updated(bag', bag, p, rest)
  BY <1>1, Fits DEF Updated
<1>7. \A q \in Players : status[q] # "offline" => saved.gold[q] = gold'[q]
  BY <1>5, <1>6 DEF Agreed, Updated
<1>8. LotsFit(house', saved.auction, crashes)
  <2>1. house'[l] = entry /\ \A k \in Lots \ {l} : house'[k] = house[k]
    BY <1>1, Fits
  <2> QED  BY <1>5, <2>1 DEF Agreed, LotsFit
<1>9. ASSUME crashes = 0
      PROVE  /\ \A q \in Players : status[q] # "offline" => saved.bag[q] = bag'[q]
             /\ Single(saved.bag, saved.mail, saved.auction)
  <2>1. Single(db.bag, db.mail, db.auction) /\ db.bag[p] = bag[p]
    BY <1>1, <1>9 DEF Agreed, Online
  <2>2. Updated(saved.bag, db.bag, p, db.bag[p] \ {item}) /\ item \in db.bag[p]
        /\ saved.auction[l].item = item
    BY <1>1, <1>2, <1>5, <2>1
  <2> DEFINE bags2 == saved.bag
             lots == db.auction
             lots2 == saved.auction
  <2>3. /\ Single(db.bag, db.mail, lots) /\ Updated(bags2, db.bag, p, db.bag[p] \ {item})
        /\ lots2[l].item = item /\ \A k \in Lots \ {l} : lots2[k] = lots[k]
    BY <1>5, <2>1, <2>2
  <2> HIDE DEF bags2, lots, lots2
  <2>4. Single(bags2, db.mail, lots2)
    BY <2>2, <2>3, BagToLot
  <2>5. \A q \in Players : status[q] # "offline" => saved.bag[q] = bag'[q]
    BY <1>5, <1>6, <1>9 DEF Agreed, Updated
  <2> QED  BY <1>5, <2>4, <2>5 DEF bags2, lots2
<1> QED  BY <1>1, <1>5, <1>7, <1>8, <1>9 DEF Agreed

LEMMA PlaceBidAgreed ==
    ASSUME Sound, Agreed, NEW p \in Players, NEW l \in Lots, NEW price \in Money,
           NEW id \in MailIds, NEW wonId \in MailIds, PlaceBid(p, l, price, id, wonId)
    PROVE  Agreed'
<1> DEFINE e == house[l]
           newbid == IF e.buyout # 0 /\ price > e.buyout THEN e.buyout ELSE price
           cost == IF e.bidder = p THEN newbid - e.bid ELSE newbid
           left == Pay(gold[p], cost)
           entry == [e EXCEPT !.bidder = p, !.bid = newbid]
           isBuyout == e.buyout # 0 /\ newbid >= e.buyout
           after == IF isBuyout THEN Won(entry) ELSE entry
           refund == Outbidden(id, e, p)
           won == IF isBuyout THEN WonMails(wonId, entry) ELSE {}
           mails == refund \cup won
           refunded == InsertMails(db, refund)
           placed == SaveAuction(refunded, l, after)
           saved == SaveInventoryAndGold(placed, p, left, bag[p])
           sent == InsertMails(saved, won)
           images == <<refunded, saved, sent>>
<1>1. /\ Listed(l) /\ price > e.bid /\ Online(p) /\ id # wonId /\ Fresh(mails)
      /\ \/ /\ Commit(images)
            /\ house' = [house EXCEPT ![l] = after]
            /\ gold' = [gold EXCEPT ![p] = left]
            /\ m_mail' = Received(m_mail, mails)
            /\ UNCHANGED <<status, bag>>
         \/ DiesIn(images)
  BY DEF PlaceBid, CanBid, NewBid, IsBuyout, LeftAfterBid, BidOf, BidWonMails, MayAct
<1>2. e \in SoundEntry
  BY <1>1 DEF Sound, Listed
<1>3. house[l] = e
  OBVIOUS
<1> HIDE DEF e
<1>4. /\ newbid \in Money /\ newbid \in Nat /\ newbid >= e.bid
      /\ (e.buyout # 0 => newbid <= e.buyout)
  <2>1. e.buyout \in Money /\ e.buyout \in Nat /\ e.bid \in Nat /\ (e.buyout # 0 => e.bid <= e.buyout)
    BY <1>2, EntryFields
  <2>2. price \in Nat
    BY StoreAssumption DEF Money
  <2> QED  BY <1>1, <2>1, <2>2
<1> HIDE DEF newbid
<1>5. left \in Money /\ bag[p] \in SUBSET Items
  <2>1. cost \in Nat
    BY <1>2, <1>4, EntryFields
  <2> HIDE DEF cost
  <2> QED  BY <2>1, Coins DEF Sound
<1> HIDE DEF cost, left
<1>6. entry \in SoundEntry /\ entry.bidder = p /\ entry.item = e.item
  <2>1. /\ entry \in AuctionEntry /\ entry.bidder = p /\ entry.bid = newbid
        /\ entry.pending = e.pending /\ entry.item = e.item /\ entry.buyout = e.buyout
    BY <1>2, <1>4 DEF SoundEntry, AuctionEntry
  <2>2. e.pending => e.item = NoItem
    BY <1>2 DEF SoundEntry
  <2> HIDE DEF entry
  <2> QED  BY <1>4, <2>1, <2>2 DEF SoundEntry
<1> HIDE DEF entry
<1>7. /\ after \in SoundEntry
      /\ after.item = NoItem \/ (after.item = e.item /\ won = {})
  BY <1>6, WonSound
<1>8. refund \in SUBSET SoundMail /\ won \in SUBSET SoundMail
  BY <1>2, <1>6, BidMailsSound
<1>9. OneMail(refund, id, NoItem) /\ OneMail(won, wonId, e.item)
  BY <1>6, AuctionMails
<1> HIDE DEF isBuyout, after, refund, won
<1>10. /\ LotMails(refund, e.item) /\ LotMails(mails, e.item) /\ mails \in SUBSET SoundMail
       /\ won = {} => \A m \in mails : m.item = NoItem
  <2>1. won = {} => \A m \in mails : m.item = NoItem
    BY <1>9 DEF OneMail
  <2> DEFINE item == e.item
  <2>2. OneMail(won, wonId, item)
    BY <1>9
  <2> HIDE DEF item
  <2>3. LotMails(refund, item) /\ LotMails(mails, item)
    BY <1>1, <1>9, <2>2, TwoMails
  <2> QED  BY <1>8, <2>1, <2>3 DEF item
<1>11. RowsFit(db.mail \cup refund)
  <2>1. Fresh(refund)
    BY <1>1 DEF Fresh
  <2>2. RowsFit(refund)
    BY <1>10 DEF LotMails
  <2> QED  BY <1>8, <2>1, <2>2, SentFits
<1>12. mails = refund \cup won
  OBVIOUS
<1> HIDE DEF mails
<1>13. /\ SoundImage(refunded) /\ refunded.gold = db.gold /\ refunded.bag = db.bag
       /\ refunded.mail = db.mail \cup refund /\ refunded.auction = db.auction
  BY <1>8, Fits, InsertMailsSound, InsertMailsFields
<1> HIDE DEF refunded
<1>14. LotOf(placed, refunded, l, after) /\ SoundImage(placed)
  BY <1>7, <1>13, SaveAuctionFields, SaveAuctionSound
<1> HIDE DEF placed
<1>15. SavedOf(saved, placed, p, left, bag[p]) /\ SoundImage(saved)
  BY <1>5, <1>14, SaveInventoryAndGoldFields, SaveInventoryAndGoldSound
<1> HIDE DEF saved
<1>16. /\ sent.gold = saved.gold /\ sent.bag = saved.bag
       /\ sent.mail = saved.mail \cup won /\ sent.auction = saved.auction
  BY <1>15, InsertMailsFields
<1> HIDE DEF sent
<1>17. saved.mail = db.mail \cup refund
  BY <1>13, <1>14, <1>15 DEF LotOf, SavedOf
<1>18. ASSUME DiesIn(images) PROVE Agreed'
  <2>1. RowsFit(refunded.mail) /\ RowsFit(saved.mail)
    BY <1>11, <1>13, <1>17
  <2> QED  BY <1>13, <1>15, <1>18, <2>1, DiesInTwo
<1>19. ASSUME db' = sent, UNCHANGED crashes, house' = [house EXCEPT ![l] = after],
              gold' = [gold EXCEPT ![p] = left], m_mail' = Received(m_mail, mails),
              UNCHANGED <<status, bag>>
       PROVE  Agreed'
  <2>1. sent.mail = db.mail \cup mails
    BY <1>12, <1>16, <1>17
  <2>2. sent.auction[l] = after /\ \A k \in Lots \ {l} : sent.auction[k] = db.auction[k]
    BY <1>13, <1>14, <1>15, <1>16 DEF LotOf, SavedOf
  <2>3. Updated(sent.gold, db.gold, p, left) /\ Updated(sent.bag, db.bag, p, bag[p])
    BY <1>13, <1>14, <1>15, <1>16 DEF LotOf, SavedOf
  <2>4. \A q \in Players : status[q] # "offline" => sent.gold[q] = gold'[q]
    <3>1. Updated(gold', gold, p, left)
      BY <1>19, Fits DEF Updated
    <3> QED  BY <2>3, <3>1 DEF Agreed, Updated
  <2>5. crashes = 0 => \A q \in Players : sent.bag[q] = db.bag[q]
    BY <1>1, <2>3 DEF Agreed, Updated, Online
  <2>6. LotMails(mails, house[l].item) /\ LotEntry(after, l, mails)
    BY <1>3, <1>7, <1>10 DEF LotEntry
  <2>7. LotImage(sent, l, after, mails)
    BY <2>1, <2>2, <2>5 DEF LotImage
  <2> QED  BY <1>1, <1>10, <1>19, <2>4, <2>6, <2>7, LotAgreed
<1> QED  BY <1>1, <1>18, <1>19 DEF Commit

LEMMA CancelAuctionAgreed ==
    ASSUME Sound, Agreed, NEW p \in Players, NEW l \in Lots, NEW id \in MailIds,
           NEW itemId \in MailIds, CancelAuction(p, l, id, itemId)
    PROVE  Agreed'
<1> DEFINE e == house[l]
           left == Pay(gold[p], GetAuctionCut(e))
           refund == IF e.bid = 0 THEN {} ELSE {AuctionMail(id, e.bidder, e.bid, NoItem)}
           item == {AuctionMail(itemId, p, 0, e.item)}
           mails == refund \cup item
           refunded == InsertMails(db, refund)
           returned == InsertMails(refunded, item)
           deleted == DeleteAuction(returned, l)
           removed == SaveInventoryAndGold(deleted, p, left, bag[p])
           burned == Burn(removed, e.deposit + GetAuctionCut(e))
           images == <<refunded, returned, burned>>
<1>1. /\ Listed(l) /\ Online(p) /\ id # itemId /\ Fresh(mails)
      /\ \/ /\ Commit(images)
            /\ house' = [house EXCEPT ![l] = NoLot]
            /\ gold' = [gold EXCEPT ![p] = left]
            /\ m_mail' = Received(m_mail, mails)
            /\ UNCHANGED <<status, bag>>
         \/ DiesIn(images)
  BY DEF CancelAuction, CanCancel, CancelRefund, MayAct
<1>2. e \in SoundEntry
  BY <1>1 DEF Sound, Listed
<1>3. house[l] = e
  OBVIOUS
<1> HIDE DEF e
<1>4. left \in Money /\ bag[p] \in SUBSET Items
  BY <1>2, EntryFields, Coins DEF Sound
<1>5. refund \in SUBSET SoundMail /\ item \in SUBSET SoundMail
  <2>1. e.bid # 0 => e.bidder \in Players /\ e.bid \in Nat
    BY <1>2, EntryFields
  <2>2. e.item \in Items \cup {NoItem}
    BY <1>2, EntryFields
  <2>3. e.bid # 0 => AuctionMail(id, e.bidder, e.bid, NoItem) \in SoundMail
    BY <2>1, MailsSound
  <2>4. AuctionMail(itemId, p, 0, e.item) \in SoundMail
    BY <2>2, MailsSound
  <2> QED  BY <2>3, <2>4
<1>6. OneMail(refund, id, NoItem) /\ OneMail(item, itemId, e.item)
  BY AuctionMails
<1> HIDE DEF left, refund, item
<1>7. LotMails(refund, e.item) /\ LotMails(mails, e.item) /\ mails \in SUBSET SoundMail
  <2> DEFINE i == e.item
  <2>1. OneMail(item, itemId, i)
    BY <1>6
  <2> HIDE DEF i
  <2>2. LotMails(refund, i) /\ LotMails(mails, i)
    BY <1>1, <1>6, <2>1, TwoMails
  <2> QED  BY <1>5, <2>2 DEF i
<1>8. RowsFit(db.mail \cup refund) /\ RowsFit(db.mail \cup mails)
  <2>1. Fresh(refund) /\ Fresh(mails)
    BY <1>1 DEF Fresh
  <2>2. RowsFit(refund) /\ RowsFit(mails)
    BY <1>7 DEF LotMails
  <2> HIDE DEF mails
  <2> QED  BY <1>5, <1>7, <2>1, <2>2, SentFits
<1>9. mails = refund \cup item
  OBVIOUS
<1> HIDE DEF mails
<1>10. /\ SoundImage(refunded) /\ refunded.gold = db.gold /\ refunded.bag = db.bag
       /\ refunded.mail = db.mail \cup refund /\ refunded.auction = db.auction
  BY <1>5, Fits, InsertMailsSound, InsertMailsFields
<1> HIDE DEF refunded
<1>11. /\ SoundImage(returned) /\ returned.gold = db.gold /\ returned.bag = db.bag
       /\ returned.mail = db.mail \cup mails /\ returned.auction = db.auction
  <2>1. /\ SoundImage(returned) /\ returned.gold = refunded.gold
        /\ returned.bag = refunded.bag /\ returned.mail = refunded.mail \cup item
        /\ returned.auction = refunded.auction
    BY <1>5, <1>10, InsertMailsSound, InsertMailsFields
  <2> HIDE DEF returned
  <2> QED  BY <1>9, <1>10, <2>1
<1> HIDE DEF returned
<1>12. LotOf(deleted, returned, l, NoLot) /\ SoundImage(deleted)
  BY <1>11, DeleteAuctionFields, DeleteAuctionSound
<1> HIDE DEF deleted
<1>13. SavedOf(removed, deleted, p, left, bag[p]) /\ SoundImage(removed)
  BY <1>4, <1>12, SaveInventoryAndGoldFields, SaveInventoryAndGoldSound
<1> HIDE DEF removed
<1>14. /\ burned.gold = removed.gold /\ burned.bag = removed.bag
       /\ burned.mail = removed.mail /\ burned.auction = removed.auction
  BY <1>13, BurnFields
<1> HIDE DEF burned
<1>15. ASSUME DiesIn(images) PROVE Agreed'
  <2>1. RowsFit(refunded.mail) /\ RowsFit(returned.mail)
    BY <1>8, <1>10, <1>11
  <2> QED  BY <1>10, <1>11, <1>15, <2>1, DiesInTwo
<1>16. ASSUME db' = burned, UNCHANGED crashes, house' = [house EXCEPT ![l] = NoLot],
              gold' = [gold EXCEPT ![p] = left], m_mail' = Received(m_mail, mails),
              UNCHANGED <<status, bag>>
       PROVE  Agreed'
  <2>1. /\ burned.mail = db.mail \cup mails
        /\ burned.auction[l] = NoLot
        /\ \A k \in Lots \ {l} : burned.auction[k] = db.auction[k]
    BY <1>11, <1>12, <1>13, <1>14 DEF LotOf, SavedOf
  <2>2. Updated(burned.gold, db.gold, p, left) /\ Updated(burned.bag, db.bag, p, bag[p])
    BY <1>11, <1>12, <1>13, <1>14 DEF LotOf, SavedOf
  <2>3. \A q \in Players : status[q] # "offline" => burned.gold[q] = gold'[q]
    <3>1. Updated(gold', gold, p, left)
      BY <1>16, Fits DEF Updated
    <3> QED  BY <2>2, <3>1 DEF Agreed, Updated
  <2>4. crashes = 0 => \A q \in Players : burned.bag[q] = db.bag[q]
    BY <1>1, <2>2 DEF Agreed, Updated, Online
  <2>5. LotMails(mails, house[l].item) /\ LotEntry(NoLot, l, mails)
    BY <1>3, <1>7 DEF LotEntry
  <2>6. LotImage(burned, l, NoLot, mails)
    BY <2>1, <2>4 DEF LotImage
  <2> QED  BY <1>1, <1>7, <1>16, <2>3, <2>5, <2>6, LotAgreed
<1> QED  BY <1>1, <1>15, <1>16 DEF Commit

LEMMA EndAgreed ==
    ASSUME Sound, Agreed, NEW l \in Lots, Listed(l), NEW mail \in SoundMail, NEW id,
           OneMail({mail}, id, house[l].item) \/ OneMail({mail}, id, NoItem),
           NEW burned, End(l, mail, burned)
    PROVE  Agreed'
<1> DEFINE mails == {mail}
           sent == InsertMails(db, mails)
           deleted == DeleteAuction(sent, l)
           ended == Burn(deleted, burned)
           images == <<sent, ended>>
<1>1. /\ Fresh(mails)
      /\ \/ /\ Commit(images)
            /\ house' = [house EXCEPT ![l] = NoLot]
            /\ m_mail' = Received(m_mail, mails)
            /\ UNCHANGED <<status, gold, bag>>
         \/ DiesIn(images)
  BY DEF End, MailThenDelete
<1>2. mails \in SUBSET SoundMail /\ RowsFit(mails) /\ LotMails(mails, house[l].item)
  BY DEF OneMail, LotMails, RowsFit
<1> HIDE DEF mails
<1>3. /\ SoundImage(sent) /\ sent.gold = db.gold /\ sent.bag = db.bag
      /\ sent.mail = db.mail \cup mails /\ sent.auction = db.auction
  BY <1>2, Fits, InsertMailsSound, InsertMailsFields
<1> HIDE DEF sent
<1>4. LotOf(deleted, sent, l, NoLot) /\ SoundImage(deleted)
  BY <1>3, DeleteAuctionFields, DeleteAuctionSound
<1> HIDE DEF deleted
<1>5. /\ ended.gold = deleted.gold /\ ended.bag = deleted.bag
      /\ ended.mail = deleted.mail /\ ended.auction = deleted.auction
  BY <1>4, BurnFields
<1> HIDE DEF ended
<1>6. ASSUME DiesIn(images) PROVE Agreed'
  <2>1. RowsFit(sent.mail)
    BY <1>1, <1>2, <1>3, SentFits
  <2> QED  BY <1>3, <1>6, <2>1, DiesInOne
<1>7. ASSUME db' = ended, UNCHANGED crashes, house' = [house EXCEPT ![l] = NoLot],
             m_mail' = Received(m_mail, mails), UNCHANGED <<status, gold, bag>>
      PROVE  Agreed'
  <2>1. ended.gold = db.gold /\ LotImage(ended, l, NoLot, mails)
    BY <1>3, <1>4, <1>5 DEF LotOf, LotImage
  <2>2. \A q \in Players : status[q] # "offline" => ended.gold[q] = gold'[q]
    BY <1>7, <2>1 DEF Agreed
  <2>3. LotEntry(NoLot, l, mails)
    BY DEF LotEntry
  <2> QED  BY <1>1, <1>2, <1>7, <2>1, <2>2, <2>3, LotAgreed
<1> QED  BY <1>1, <1>6, <1>7 DEF Commit

LEMMA ExpireAgreed ==
    ASSUME Sound, Agreed, NEW l \in Lots, NEW id \in MailIds, DeliverMoney(l, id) \/ Expire(l, id)
    PROVE  Agreed'
<1> DEFINE e == house[l]
           profit == e.bid + e.deposit - GetAuctionCut(e)
<1>1. e \in SoundEntry /\ Listed(l)
  BY DEF Sound, DeliverMoney, Expire, Listed
<1>2. e.owner \in Players /\ e.item \in Items \cup {NoItem} /\ profit \in Nat
  BY <1>1, EntryFields
<1>3. CASE DeliverMoney(l, id)
  <2> DEFINE mail == AuctionMail(id, e.owner, profit, NoItem)
  <2>1. mail \in SoundMail /\ OneMail({mail}, id, NoItem)
    BY <1>2, MailsSound, AuctionMails
  <2>2. End(l, mail, GetAuctionCut(e))
    BY <1>3 DEF DeliverMoney
  <2> HIDE DEF mail, e
  <2> QED  BY <1>1, <2>1, <2>2, EndAgreed
<1>4. CASE Expire(l, id)
  <2> DEFINE mail == AuctionMail(id, e.owner, 0, e.item)
  <2>1. mail \in SoundMail /\ OneMail({mail}, id, house[l].item)
    BY <1>2, MailsSound, AuctionMails
  <2>2. End(l, mail, e.deposit)
    BY <1>4 DEF Expire
  <2> HIDE DEF mail, e
  <2> QED  BY <1>1, <2>1, <2>2, EndAgreed
<1> QED  BY <1>3, <1>4

LEMMA ExpireWonAgreed ==
    ASSUME Sound, Agreed, NEW l \in Lots, NEW id \in MailIds, ExpireWon(l, id)
    PROVE  Agreed'
<1> DEFINE e == house[l]
           after == Won(e)
           saved == SaveAuction(db, l, after)
           mails == WonMails(id, e)
           sent == InsertMails(saved, mails)
           images == <<saved, sent>>
<1>1. /\ Listed(l) /\ e.bid > 0 /\ Fresh(mails)
      /\ \/ /\ Commit(images)
            /\ house' = [house EXCEPT ![l] = after]
            /\ m_mail' = Received(m_mail, mails)
            /\ UNCHANGED <<status, gold, bag>>
         \/ DiesIn(images)
  BY DEF ExpireWon
<1>2. e \in SoundEntry /\ house[l] = e
  BY <1>1 DEF Sound, Listed
<1> HIDE DEF e
<1>3. mails \in SUBSET SoundMail /\ after \in SoundEntry /\ after.item = NoItem
  BY <1>1, <1>2, EntryFields, BidMailsSound, WonSound
<1>4. OneMail(mails, id, e.item)
  BY AuctionMails
<1> HIDE DEF mails, after
<1>5. LotMails(mails, house[l].item) /\ LotEntry(after, l, mails)
  BY <1>2, <1>3, <1>4 DEF OneMail, LotMails, RowsFit, LotEntry
<1>6. LotOf(saved, db, l, after) /\ SoundImage(saved)
  BY <1>3, Fits, SaveAuctionFields, SaveAuctionSound
<1> HIDE DEF saved
<1>7. /\ sent.gold = saved.gold /\ sent.bag = saved.bag
      /\ sent.mail = saved.mail \cup mails /\ sent.auction = saved.auction
  BY <1>6, InsertMailsFields
<1> HIDE DEF sent
<1>8. ASSUME DiesIn(images) PROVE Agreed'
  <2>1. RowsFit(saved.mail)
    BY <1>6, Fits DEF LotOf
  <2> QED  BY <1>6, <1>8, <2>1, DiesInOne
<1>9. ASSUME db' = sent, UNCHANGED crashes, house' = [house EXCEPT ![l] = after],
             m_mail' = Received(m_mail, mails), UNCHANGED <<status, gold, bag>>
      PROVE  Agreed'
  <2>1. sent.gold = db.gold /\ LotImage(sent, l, after, mails)
    BY <1>6, <1>7 DEF LotOf, LotImage
  <2>2. \A q \in Players : status[q] # "offline" => sent.gold[q] = gold'[q]
    BY <1>9, <2>1 DEF Agreed
  <2> QED  BY <1>1, <1>3, <1>5, <1>9, <2>1, <2>2, LotAgreed
<1> QED  BY <1>1, <1>8, <1>9 DEF Commit

-----------------------------------------------------------------------------
(* Login and logout. *)

LEMMA LoginRequestAgreed ==
    ASSUME Sound, Agreed, NEW p \in Players, LoginRequest(p)
    PROVE  Agreed'
<1> DEFINE mine == {m \in db.mail : m.to = p}
<1>1. /\ status[p] = "offline" /\ status' = [status EXCEPT ![p] = "between"]
      /\ gold' = [gold EXCEPT ![p] = db.gold[p]] /\ bag' = [bag EXCEPT ![p] = db.bag[p]]
      /\ m_mail' = [m_mail EXCEPT ![p] = mine]
      /\ UNCHANGED <<house, db, crashes>>
  BY DEF LoginRequest
<1>2. \A q \in Players : /\ status'[q] # "offline" => status[q] # "offline" \/ q = p
                         /\ status'[q] = "offline" => status[q] = "offline" /\ q # p
                         /\ gold'[q] = IF q = p THEN db.gold[p] ELSE gold[q]
                         /\ bag'[q] = IF q = p THEN db.bag[p] ELSE bag[q]
                         /\ m_mail'[q] = IF q = p THEN mine ELSE m_mail[q]
  BY <1>1 DEF Sound
<1>3. \A m \in db.mail : RowOf(m, m, crashes)
  BY Fits, UndeletedRow DEF RowsFit
<1>4. mine \subseteq db.mail
  OBVIOUS
<1> HIDE DEF mine
<1>5. \A m1, m2 \in mine : m1.id = m2.id => m1 = m2
  BY <1>4, Fits DEF RowsFit
<1>6. BoxesFit(m_mail', db.mail, crashes)
  BY <1>2, <1>3, <1>4, <1>5, Fits DEF BoxesFit
<1> QED  BY <1>1, <1>2, <1>6 DEF Agreed

LEMMA TravelAgreed ==
    ASSUME Sound, Agreed, NEW p \in Players, EnterWorld(p) \/ TeleportTo(p)
    PROVE  Agreed'
<1>1. /\ \A q \in Players : status'[q] = "offline" <=> status[q] = "offline"
      /\ UNCHANGED <<gold, bag, m_mail, house, db, crashes>>
  BY DEF EnterWorld, TeleportTo, Online, Sound
<1> QED  BY <1>1 DEF Agreed

LEMMA LogoutAgreed ==
    ASSUME Sound, Agreed, NEW p \in Players, Logout(p)
    PROVE  Agreed'
<1> DEFINE box == m_mail[p]
           inv == SaveInventoryAndGold(db, p, gold[p], bag[p])
           saved == SaveMail(inv, box)
           boxes == [m_mail EXCEPT ![p] = Kept(box)]
<1>1. /\ db' = saved /\ UNCHANGED <<crashes, house>> /\ Online(p)
      /\ status' = [status EXCEPT ![p] = "offline"]
      /\ gold' = [gold EXCEPT ![p] = 0] /\ bag' = [bag EXCEPT ![p] = {}]
      /\ m_mail' = [m_mail EXCEPT ![p] = {}]
  BY DEF Logout, Commit
<1>2. \A q \in Players : /\ status'[q] # "offline" => status[q] # "offline" /\ q # p
                         /\ status'[q] = "offline" => status[q] = "offline" \/ q = p
                         /\ q # p => gold'[q] = gold[q] /\ bag'[q] = bag[q]
                         /\ m_mail'[q] = IF q = p THEN {} ELSE m_mail[q]
  BY <1>1 DEF Sound
<1>3. /\ box \in SUBSET SoundMail /\ \A k \in box : k.to = p
      /\ \A k1, k2 \in box : k1.id = k2.id => k1 = k2
      /\ gold[p] \in Money /\ bag[p] \in SUBSET Items
  BY Fits DEF Boxes, BoxesFit
<1>4. boxes \in Boxes /\ Updated(boxes, m_mail, p, Kept(box))
  <2>1. Kept(box) \subseteq box
    BY DEF Kept
  <2> QED  BY <1>3, <2>1, Fits DEF Boxes, Updated
<1>5. SoundImage(inv) /\ SavedOf(inv, db, p, gold[p], bag[p])
  BY <1>3, Fits, SaveInventoryAndGoldSound, SaveInventoryAndGoldFields
<1> HIDE DEF inv, boxes
<1>6. /\ inv.mail = db.mail /\ inv.auction = db.auction
      /\ Updated(inv.gold, db.gold, p, gold[p]) /\ Updated(inv.bag, db.bag, p, bag[p])
  BY <1>5 DEF SavedOf
<1>7. ImageFits(inv, m_mail, house, crashes)
  BY <1>6 DEF Agreed, ImageFits
<1>8. ASSUME crashes = 0
      PROVE  /\ Single(db.bag, db.mail, db.auction)
             /\ \A q \in Players : inv.bag[q] = db.bag[q]
             /\ \A r \in Rewritten(db.mail, box) : r \in db.mail
             /\ Nowhere(MailItems({k \in box : k.deleted}), inv.bag, Rewritten(inv.mail, box),
                        inv.auction)
  <2>1. Single(db.bag, db.mail, db.auction) /\ \A q \in Players : inv.bag[q] = db.bag[q]
    BY <1>1, <1>6, <1>8 DEF Agreed, Online, Updated
  <2>2. Single(inv.bag, db.mail, db.auction)
    BY <2>1, Stays
  <2>3. /\ db.mail \in SUBSET SoundMail /\ RowsFit(db.mail) /\ BoxesFit(m_mail, db.mail, 0)
        /\ m_mail \in Boxes
    BY <1>8, Fits
  <2>4. \A k \in box : ~k.deleted => k \in db.mail
    BY <2>3, OwnRow
  <2>5. \A r \in Rewritten(db.mail, box) : r \in db.mail
    BY <2>4 DEF Rewritten, Kept
  <2>6. /\ \A k \in box : k.deleted => k \in m_mail[p]
        /\ \A k \in box : k.item = NoItem \/ \E j \in m_mail[p] : j.id = k.id /\ j.item = k.item
    OBVIOUS
  <2> HIDE DEF box
  <2>7. Nowhere(MailItems({k \in box : k.deleted}), inv.bag, Rewritten(db.mail, box), db.auction)
    BY <1>3, <2>2, <2>3, <2>6, GoneNowhere
  <2> QED  BY <1>6, <2>1, <2>5, <2>7
<1>9. /\ saved.gold = inv.gold /\ ImageFits(saved, boxes, house, crashes)
      /\ crashes = 0 => SameItems(saved, inv, Rewritten(inv.mail, box))
  <2>1. /\ box \in SUBSET SoundMail /\ \A k \in box : k.to = p
        /\ \A k \in box : \E j \in m_mail[p] : j.id = k.id
        /\ \A k1, k2 \in box : k1.id = k2.id => k1 = k2
    BY <1>3
  <2>2. crashes = 0 => Nowhere(MailItems({k \in box : k.deleted}), inv.bag,
                               Rewritten(inv.mail, box), inv.auction)
    BY <1>8
  <2>3. /\ m_mail \in Boxes /\ crashes \in Nat
        /\ house \in [Lots -> SoundEntry \cup {NoLot}]
    BY Fits
  <2> HIDE DEF box
  <2> QED  BY <1>4, <1>5, <1>7, <2>1, <2>2, <2>3, SaveMailFits
<1> HIDE DEF saved, box
<1>10. BoxesFit(m_mail', saved.mail, crashes)
  <2>1. BoxesFit(boxes, saved.mail, crashes)
    BY <1>9 DEF ImageFits
  <2>2. \A q \in Players : m_mail'[q] \subseteq boxes[q]
    BY <1>2, <1>4 DEF Updated
  <2> QED  BY <2>1, <2>2, FewerFit
<1>11. \A q \in Players : /\ status'[q] # "offline" => saved.gold[q] = gold'[q]
                          /\ status'[q] = "offline" => m_mail'[q] = {}
  BY <1>2, <1>6, <1>9 DEF Agreed, Updated
<1>12. ASSUME crashes = 0
       PROVE  /\ \A q \in Players : status'[q] # "offline" => saved.bag[q] = bag'[q]
              /\ Single(saved.bag, saved.mail, saved.auction)
  <2>1. /\ saved.mail = Rewritten(db.mail, box)
        /\ \A q \in Players : saved.bag[q] = db.bag[q]
        /\ \A l \in Lots : saved.auction[l] = db.auction[l]
    BY <1>6, <1>8, <1>9, <1>12 DEF SameItems
  <2>2. Single(saved.bag, saved.mail, saved.auction)
    BY <1>8, <1>12, <2>1, Stays DEF InLot
  <2> QED  BY <1>2, <1>12, <2>1, <2>2 DEF Agreed
<1> QED  BY <1>1, <1>9, <1>10, <1>11, <1>12 DEF Agreed, ImageFits

-----------------------------------------------------------------------------
(* The invariant. *)

Holding == Sound /\ (~raced => Agreed)

LEMMA MeetingsRace ==
    /\ \A p, q, item, money, cod, id : SendAtOnce(p, q, item, money, cod, id) => raced'
    /\ \A l, p, priceP, q, priceQ : BidsAtOnce(l, p, priceP, q, priceQ) => raced'
    /\ \A l, p, q, price : CancelAtOnce(l, p, q, price) => raced'
<1>1. \A p, leftP, q, leftQ, row, l, burned, mails :
        BothDone(p, leftP, q, leftQ, row, l, burned, mails) => raced'
  BY DEF BothDone
<1>2. ASSUME NEW p, NEW q, NEW item, NEW money, NEW cod, NEW id,
             SendAtOnce(p, q, item, money, cod, id)
      PROVE  raced'
  BY <1>2 DEF SendAtOnce
<1>3. ASSUME NEW l, NEW p, NEW priceP, NEW q, NEW priceQ, BidsAtOnce(l, p, priceP, q, priceQ)
      PROVE  raced'
  BY <1>1, <1>3 DEF BidsAtOnce
<1>4. ASSUME NEW l, NEW p, NEW q, NEW price, CancelAtOnce(l, p, q, price)
      PROVE  raced'
  BY <1>1, <1>4, Zenon DEF CancelAtOnce
<1> QED  BY <1>2, <1>3, <1>4

LEMMA RacedStays ==
    ASSUME [Next]_vars, raced
    PROVE  raced'
<1>1. \A img : Restart(img) => UNCHANGED raced
  BY DEF Restart
<1>2. \A images : DiesIn(images) => UNCHANGED raced
  BY <1>1 DEF DiesIn
<1>3. CASE UNCHANGED vars
  BY <1>3 DEF vars
<1>4. CASE MailStep
  <2>1. ASSUME NEW m \in db.mail, SweepMail(m) PROVE raced'
    BY <1>2, <2>1 DEF SweepMail
  <2>2. ASSUME NEW p \in Players, NEW q \in Players, NEW c \in Contents, NEW id \in MailIds,
               SendMail(p, q, c[1], c[2], c[3], id)
        PROVE  UNCHANGED raced
    BY <1>2, <2>2 DEF SendMail
  <2>3. ASSUME NEW p \in Players, NEW m \in m_mail[p],
               MailMarkAsRead(p, m) \/ MailDelete(p, m) \/ MailTakeMoney(p, m)
        PROVE  UNCHANGED raced
    BY <2>3 DEF MailMarkAsRead, MailDelete, MailTakeMoney
  <2>4. ASSUME NEW p \in Players, NEW m \in m_mail[p], NEW id \in MailIds,
               MailReturnToSender(p, m, id) \/ MailTakeItem(p, m, id)
        PROVE  UNCHANGED raced
    BY <1>2, <2>4 DEF MailReturnToSender, MailTakeItem
  <2> QED  BY <1>4, <2>1, <2>2, <2>3, <2>4, MeetingsRace DEF MailStep
<1>5. CASE AuctionStep
  <2>1. ASSUME NEW l, NEW mail, NEW burned, End(l, mail, burned) PROVE UNCHANGED raced
    BY <1>2, <2>1 DEF End
  <2>2. \A l, id : DeliverMoney(l, id) \/ Expire(l, id) => UNCHANGED raced
    BY <2>1 DEF DeliverMoney, Expire
  <2>3. \A l, id : ExpireWon(l, id) => UNCHANGED raced
    BY <1>2 DEF ExpireWon
  <2>4. ASSUME NEW p, NEW l, NEW id, NEW id2, CancelAuction(p, l, id, id2) PROVE UNCHANGED raced
    <3>1. UNCHANGED raced \/ \E images : DiesIn(images)
      BY <2>4, Zenon DEF CancelAuction
    <3> QED  BY <1>2, <3>1
  <2>5. ASSUME NEW p, NEW l, NEW price, NEW id, NEW id2, PlaceBid(p, l, price, id, id2)
        PROVE  UNCHANGED raced
    <3>1. UNCHANGED raced \/ \E images : DiesIn(images)
      BY <2>5, Zenon DEF PlaceBid
    <3> QED  BY <1>2, <3>1
  <2>6. \A p, l, i, s, b : SellItem(p, l, i, s, b) => UNCHANGED raced
    BY DEF SellItem
  <2> QED  BY <1>5, <2>2, <2>3, <2>4, <2>5, <2>6, MeetingsRace DEF AuctionStep
<1>6. ASSUME NEW p \in Players, LoginRequest(p) \/ EnterWorld(p) \/ TeleportTo(p) \/ Logout(p)
      PROVE  UNCHANGED raced
  BY <1>6 DEF LoginRequest, EnterWorld, TeleportTo, Logout
<1>7. CASE Crash
  BY <1>1, <1>7 DEF Crash
<1> QED  BY <1>3, <1>4, <1>5, <1>6, <1>7 DEF Next

LEMMA AgreedNext ==
    ASSUME Sound, Agreed, [Next]_vars, ~raced'
    PROVE  Agreed'
<1>1. CASE UNCHANGED vars
  BY <1>1 DEF vars, Agreed
<1>2. CASE MailStep
  <2>1. \A m \in db.mail : SweepMail(m) => Agreed'
    BY SweepMailAgreed
  <2>2. \A p, q \in Players, c \in Contents, id \in MailIds :
          SendMail(p, q, c[1], c[2], c[3], id) => Agreed'
    BY SendMailAgreed
  <2>3. \A p \in Players : \A m \in m_mail[p] :
          MailMarkAsRead(p, m) \/ MailDelete(p, m) \/ MailTakeMoney(p, m) => Agreed'
    BY MarkAgreed, MailTakeMoneyAgreed
  <2>4. \A p \in Players : \A m \in m_mail[p] : \A id \in MailIds :
          MailReturnToSender(p, m, id) \/ MailTakeItem(p, m, id) => Agreed'
    BY MailReturnToSenderAgreed, MailTakeItemAgreed
  <2> QED  BY <1>2, <2>1, <2>2, <2>3, <2>4, MeetingsRace DEF MailStep
<1>3. CASE AuctionStep
  <2>1. \A l \in Lots, id, id2 \in MailIds, p \in Players : CancelAuction(p, l, id, id2) => Agreed'
    BY CancelAuctionAgreed
  <2>2. \A l \in Lots, id, id2 \in MailIds, p \in Players, price \in Money :
          PlaceBid(p, l, price, id, id2) => Agreed'
    BY PlaceBidAgreed
  <2>3. \A l \in Lots, id \in MailIds :
          DeliverMoney(l, id) \/ Expire(l, id) \/ ExpireWon(l, id) => Agreed'
    BY ExpireAgreed, ExpireWonAgreed
  <2>4. \A l \in Lots, p \in Players, i \in Items, s \in StartBids, b \in Buyouts :
          SellItem(p, l, i, s, b) => Agreed'
    BY SellItemAgreed
  <2> QED  BY <1>3, <2>1, <2>2, <2>3, <2>4, MeetingsRace DEF AuctionStep
<1>4. ASSUME NEW p \in Players, LoginRequest(p) \/ EnterWorld(p) \/ TeleportTo(p) \/ Logout(p)
      PROVE  Agreed'
  BY <1>4, LoginRequestAgreed, TravelAgreed, LogoutAgreed
<1>5. CASE Crash
  BY <1>5, RestartAgreed, Fits DEF Crash
<1> QED  BY <1>1, <1>2, <1>3, <1>4, <1>5 DEF Next

LEMMA AgreedInit == Init => Agreed
<1> SUFFICES ASSUME Init PROVE Agreed
  OBVIOUS
<1>1. /\ \A p \in Players : status[p] = "offline" /\ m_mail[p] = {}
      /\ \A l \in Lots : house[l] = NoLot /\ db.auction[l] = NoLot
      /\ db.mail = {} /\ db.bag = InitialBag
  BY DEF Init
<1>2. RowsFit(db.mail) /\ BoxesFit(m_mail, db.mail, crashes) /\ LotsFit(house, db.auction, crashes)
  BY <1>1 DEF RowsFit, BoxesFit, LotsFit
<1>3. Single(db.bag, db.mail, db.auction)
  BY <1>1, StoreAssumption DEF Single, SingleItem, InLot
<1> QED  BY <1>1, <1>2, <1>3 DEF Agreed

\* As long as no two handlers have met, nor the mail sweep a player between, what is in
\* memory and what the database has agree, and without crashes no item is in two places.
THEOREM Agreement == Spec => []Holding
<1>1. Init => Holding
  BY SoundInit, AgreedInit DEF Holding
<1>2. Holding /\ [Next]_vars => Holding'
  BY SoundNext, AgreedNext, RacedStays DEF Holding
<1> QED  BY <1>1, <1>2, PTL DEF Spec

\* Until handlers of two maps meet, or the mail sweep a player between, whoever logs in
\* after any handler, or after a restart, finds in the database the purse, the mails and the
\* auctions that are in memory, with any players, items and mails.
THEOREM WrittenThroughHolds == Spec => []WrittenThrough
<1>1. Holding => WrittenThrough
  <2> SUFFICES ASSUME Sound, Agreed PROVE WrittenThrough
    BY DEF Holding, WrittenThrough
  <2>1. \A p \in Players : status[p] # "offline" =>
          db.gold[p] = gold[p] /\ (crashes = 0 => db.bag[p] = bag[p])
    BY DEF Agreed
  <2>2. \A r, k : RowOf(r, k, crashes) => SameRow(r, [k EXCEPT !.deleted = FALSE])
    BY DEF RowOf, SameRow, Shorn
  <2>3. \A p \in Players : \A m \in m_mail[p] :
          \E row \in db.mail : SameRow(row, [m EXCEPT !.deleted = FALSE])
    BY <2>2 DEF Agreed, BoxesFit
  <2>4. \A l \in Lots : IF house[l] = NoLot THEN db.auction[l] = NoLot
                        ELSE SameRow(db.auction[l], house[l])
    BY DEF Agreed, LotsFit, SameRow
  <2> QED  BY <2>1, <2>3, <2>4 DEF WrittenThrough
<1> QED  BY <1>1, Agreement, PTL

\* Whoever mails, returns, sells, wins or takes an item, in whatever order: as long as
\* the server does not die and no two handlers meet, no item is ever in two places.
THEOREM OneHolderHolds == Spec => []OneHolder
<1>1. Holding => OneHolder
  <2> SUFFICES ASSUME Agreed, crashes = 0, NEW i \in Items PROVE Cardinality(Holders(i)) <= 1
    BY DEF Holding, OneHolder
  <2>1. SingleItem(i, db.bag, db.mail, db.auction)
    BY DEF Agreed, Single
  <2> DEFINE InBag(x) == \E p \in Players : x = <<"bag", p>> /\ i \in db.bag[p]
             InMail(x) == \E m \in db.mail : x = <<"mail", m.id>> /\ m.item = i
             OnSale(x) == \E l \in Lots : x = <<"lot", l>> /\ InLot(db.auction, l, i)
  <2>2. \A x \in Holders(i) : InBag(x) \/ InMail(x) \/ OnSale(x)
    BY DEF Holders, InLot
  <2>3. ASSUME NEW x \in Holders(i), NEW y \in Holders(i) PROVE x = y
    <3>1. CASE InBag(x)
      <4>1. InBag(y)
        BY <2>1, <2>2, <3>1 DEF SingleItem
      <4> QED  BY <2>1, <3>1, <4>1 DEF SingleItem
    <3>2. CASE InMail(x)
      <4>1. InMail(y)
        BY <2>1, <2>2, <3>2 DEF SingleItem
      <4> QED  BY <2>1, <3>2, <4>1 DEF SingleItem
    <3>3. CASE OnSale(x)
      <4>1. OnSale(y)
        BY <2>1, <2>2, <3>3 DEF SingleItem
      <4> QED  BY <2>1, <3>3, <4>1 DEF SingleItem
    <3> QED  BY <2>2, <3>1, <3>2, <3>3
  <2> HIDE DEF InBag, InMail, OnSale
  <2>4. CASE Holders(i) = {}
    BY <2>4, FS_EmptySet
  <2>5. CASE Holders(i) # {}
    <3>1. PICK x \in Holders(i) : TRUE
      BY <2>5
    <3>2. Holders(i) = {x}
      BY <2>3
    <3>3. Cardinality({x}) = 1
      BY FS_Singleton
    <3> QED  BY <3>2, <3>3
  <2> QED  BY <2>4, <2>5
<1> QED  BY <1>1, Agreement, PTL

-----------------------------------------------------------------------------
(* Bids and payments: what a handler, or a crash in it, makes of them. *)

Active(l) == Listed(l) /\ ~house[l].pending /\ house[l].bid > 0

\* The bid of lot l has been sent back.
Refunded(rows, l) ==
    \E m \in rows \ db.mail : m.to = house[l].bidder /\ m.money = house[l].bid

BidSafe(l) ==
    \/ house'[l] # NoLot /\ house'[l].bidder = house[l].bidder
          /\ (house'[l].pending /\ crashes' = crashes =>
                \E m \in db'.mail : New(m) /\ m.to = house[l].bidder /\ m.item = house[l].item)
    \/ Refunded(db'.mail, l)

\* Nobody gets an item.
NoGain(bags) == \A p \in Players : bags[p] \subseteq db.bag[p]

\* A restart from this image forgets no bid and gives nobody an item.
Harmless(img) ==
    /\ NoGain(img.bag)
    /\ \A l \in Lots : Active(l) =>
         \/ Refunded(img.mail, l)
         \/ LET row == img.auction[l] IN
            row # NoLot /\ row.bidder = house[l].bidder /\ (row.pending \/ row.item # NoItem)

\* As long as memory and database agree and there has been no crash.
Reliable == Agreed /\ crashes = 0

Died == \E img : SoundImage(img) /\ (Reliable => Harmless(img)) /\ Restart(img)

Went(paid) ==
    /\ UNCHANGED crashes
    /\ \A l \in Lots : Active(l) => BidSafe(l)
    /\ Reliable => NoGain(db'.bag) \/ paid

LEMMA DiedSafe ==
    ASSUME Sound, Reliable, Died
    PROVE  NoGain(db'.bag) /\ \A l \in Lots : Active(l) => BidSafe(l)
<1>1. PICK img : SoundImage(img) /\ Harmless(img) /\ Restart(img)
  BY DEF Died
<1>2. /\ db'.bag = img.bag /\ db'.mail = img.mail /\ house' = LoadAuctions(img)
      /\ crashes' # crashes
  BY <1>1, StoreAssumption DEF Restart, SoundImage, Sound
<1>3. NoGain(db'.bag)
  BY <1>1, <1>2 DEF Harmless
<1>4. ASSUME NEW l \in Lots, Active(l) PROVE BidSafe(l)
  <2> DEFINE row == img.auction[l]
             bidder == house[l].bidder
  <2>1. CASE Refunded(img.mail, l)
    BY <1>2, <2>1 DEF BidSafe
  <2>2. CASE row # NoLot /\ row.bidder = bidder /\ (row.pending \/ row.item # NoItem)
    <3>1. row \in AuctionEntry /\ (row.pending => row.item = NoItem)
      BY <1>1, <2>2 DEF SoundImage, SoundEntry
    <3>2. row.item = NoItem => [row EXCEPT !.item = NoItem] = row
      <4> HIDE DEF row
      <4> QED  BY <3>1 DEF AuctionEntry
    <3>3. house'[l] = row
      BY <1>2, <2>2, <3>1, <3>2 DEF LoadAuctions
    <3> QED  BY <1>2, <2>2, <3>3 DEF BidSafe
  <2> QED  BY <1>1, <1>4, <2>1, <2>2 DEF Harmless
<1> QED  BY <1>3, <1>4

LEMMA DiedInOne ==
    ASSUME NEW a, NEW b, SoundImage(a), Reliable => Harmless(a), DiesIn(<<a, b>>)
    PROVE  Died
<1>1. PICK k \in 1..Len(<<a, b>>) - 1 : Restart(<<a, b>>[k])
  BY DEF DiesIn
<1>2. k = 1
  OBVIOUS
<1>3. Restart(a)
  BY <1>1, <1>2
<1> QED  BY <1>3 DEF Died

LEMMA DiedInTwo ==
    ASSUME NEW a, NEW b, NEW c, SoundImage(a), Reliable => Harmless(a),
           SoundImage(b), Reliable => Harmless(b), DiesIn(<<a, b, c>>)
    PROVE  Died
<1>1. PICK k \in 1..Len(<<a, b, c>>) - 1 : Restart(<<a, b, c>>[k])
  BY DEF DiesIn
<1>2. k = 1 \/ k = 2
  OBVIOUS
<1>3. Restart(a) \/ Restart(b)
  BY <1>1, <1>2
<1> QED  BY <1>3 DEF Died

\* Without crashes, the row of an active auction is its entry, with the item.
LEMMA ActiveRow ==
    ASSUME Sound, Reliable, NEW l \in Lots, Active(l)
    PROVE  db.auction[l] = house[l] /\ house[l] # NoLot /\ house[l].item # NoItem
<1>1. house[l] # NoLot /\ ~house[l].pending /\ Listed(l)
  BY DEF Active, Listed
<1>2. house[l].item # NoItem
  BY <1>1 DEF Sound, PendingHoldsNoItem
<1>3. db.auction[l] = house[l]
  BY <1>1 DEF Reliable, Agreed, LotsFit
<1> QED  BY <1>1, <1>2, <1>3

LEMMA SameHarmless ==
    ASSUME Sound, NEW img, Reliable => NoGain(img.bag), NEW l \in Lots,
           \A k \in Lots : k = l \/ img.auction[k] = db.auction[k],
           Reliable /\ Active(l) => img.auction[l] = db.auction[l] \/ Refunded(img.mail, l)
    PROVE  Reliable => Harmless(img)
<1> SUFFICES ASSUME Reliable PROVE Harmless(img)
  OBVIOUS
<1>1. ASSUME NEW k \in Lots, Active(k), img.auction[k] = db.auction[k]
      PROVE  LET row == img.auction[k] IN
             row # NoLot /\ row.bidder = house[k].bidder /\ (row.pending \/ row.item # NoItem)
  BY <1>1, ActiveRow
<1> QED  BY <1>1 DEF Harmless

LEMMA NoHouseHarmless ==
    ASSUME Sound, NEW img, Reliable => NoGain(img.bag),
           \A k \in Lots : Reliable /\ Active(k) => img.auction[k] = db.auction[k]
    PROVE  Reliable => Harmless(img)
  BY ActiveRow DEF Harmless

LEMMA SameHouse ==
    ASSUME UNCHANGED house
    PROVE  \A l \in Lots : Active(l) => BidSafe(l)
  BY DEF Active, Listed, BidSafe

\* _SaveMail gives nobody an item, and leaves alone the rows without items of other boxes.
LEMMA SaveMailKeeps ==
    ASSUME NEW img, SoundImage(img), NEW box \in SUBSET SoundMail
    PROVE  /\ \A q \in Players : SaveMail(img, box).bag[q] \subseteq img.bag[q]
           /\ \A r \in img.mail : r.item = NoItem /\ (\A k \in box : k.id # r.id) =>
                r \in SaveMail(img, box).mail
<1> DEFINE rows == Rewritten(img.mail, box)
           mid == [img EXCEPT !.mail = rows]
           items == MailItems({m \in box : m.deleted})
           money == MailMoney({m \in box : m.deleted})
<1>1. SaveMail(img, box) = Burn(DestroyItems(mid, items), money)
  BY DEF SaveMail, Rewritten
<1>2. rows \in SUBSET SoundMail
  BY DEF SoundImage, Rewritten, Kept
<1>3. NoItem \notin items /\ \A r \in img.mail : (\A k \in box : k.id # r.id) => r \in rows
  BY DEF MailItems, Rewritten
<1> HIDE DEF rows, items, money
<1>4. SoundImage(mid) /\ mid.bag = img.bag /\ mid.mail = rows
  BY <1>2 DEF SoundImage
<1> HIDE DEF mid
<1> DEFINE d == DestroyItems(mid, items)
<1>5. /\ SoundImage(d) /\ \A q \in Players : d.bag[q] = mid.bag[q] \ items
      /\ d.mail = Sheared(mid.mail, items)
  BY <1>4, DestroyItemsSound, DestroyItemsFields
<1>6. \A r \in rows : r.item = NoItem => r \in d.mail
  BY <1>3, <1>4, <1>5 DEF Sheared
<1> HIDE DEF d
<1>7. Burn(d, money).bag = d.bag /\ Burn(d, money).mail = d.mail
  BY <1>5, BurnFields
<1>8. \A q \in Players : SaveMail(img, box).bag[q] \subseteq img.bag[q]
  BY <1>1, <1>4, <1>5, <1>7 DEF d
<1>9. \A r \in img.mail : r.item = NoItem /\ (\A k \in box : k.id # r.id) =>
        r \in SaveMail(img, box).mail
  BY <1>1, <1>3, <1>6, <1>7 DEF d
<1> QED  BY <1>8, <1>9

\* What is left of a bag, or the bag that the database has anyway.
LEMMA UpdatedBags ==
    ASSUME NEW bags, NEW p \in Players, NEW b, Online(p), Updated(bags, db.bag, p, b),
           b \subseteq bag[p]
    PROVE  Reliable => NoGain(bags)
<1> SUFFICES ASSUME Reliable PROVE NoGain(bags)
  OBVIOUS
<1>1. db.bag[p] = bag[p]
  BY DEF Reliable, Agreed, Online
<1> QED  BY <1>1 DEF Updated, NoGain

LEMMA SendMailWent ==
    ASSUME Sound, NEW p \in Players, NEW q \in Players, NEW c \in Contents,
           NEW id \in MailIds, SendMail(p, q, c[1], c[2], c[3], id)
    PROVE  Died \/ Went(FALSE)
<1> DEFINE item == c[1]
           money == c[2]
           cod == c[3]
           cost == Postage + money
           mail == PlayerMail(id, p, q, money, cod, item, "")
           left == Pay(gold[p], cost)
           rest == bag[p] \ {item}
           taken == [db EXCEPT !.bag[p] = @ \ {item}]
           sent == InsertMails(taken, {mail})
           inv == SaveInventoryAndGold(sent, p, left, rest)
           saved == Burn(inv, Postage)
<1>1. item \in Items \cup {NoItem} /\ money \in Nat /\ cod \in Money /\ cost \in Nat
  BY MailAssumption, StoreAssumption DEF Money
<1>2. /\ Online(p)
      /\ \/ Commit(<<taken, sent, saved>>) /\ UNCHANGED house
         \/ DiesIn(<<taken, sent, saved>>)
  BY DEF SendMail, CanSend, MayAct
<1> HIDE DEF item, money, cod, cost
<1>3. mail \in SoundMail
  BY <1>1, MailsSound
<1>4. left \in Money /\ rest \in SUBSET Items
  BY <1>1, Coins DEF Sound
<1> HIDE DEF mail, left
<1>5. SoundImage(taken) /\ taken.auction = db.auction
      /\ \A r \in Players : taken.bag[r] = IF r = p THEN db.bag[p] \ {item} ELSE db.bag[r]
  BY DEF Sound, SoundImage
<1> HIDE DEF taken
<1>6. SoundImage(sent) /\ sent.auction = db.auction /\ sent.bag = taken.bag
  BY <1>3, <1>5, InsertMailsSound, InsertMailsFields
<1> HIDE DEF sent
<1>7. SavedOf(inv, sent, p, left, rest) /\ SoundImage(inv)
  BY <1>4, <1>6, SaveInventoryAndGoldFields, SaveInventoryAndGoldSound
<1> HIDE DEF inv
<1>8. saved.bag = inv.bag
  BY <1>7, BurnFields
<1> HIDE DEF saved
<1>9. NoGain(taken.bag) /\ NoGain(sent.bag)
  BY <1>5, <1>6 DEF NoGain
<1>10. (Reliable => Harmless(taken)) /\ (Reliable => Harmless(sent))
  BY <1>5, <1>6, <1>9, NoHouseHarmless
<1>11. Updated(saved.bag, db.bag, p, rest)
  BY <1>5, <1>6, <1>7, <1>8 DEF SavedOf, Updated
<1>12. Reliable => NoGain(saved.bag)
  BY <1>2, <1>11, UpdatedBags
<1>13. CASE DiesIn(<<taken, sent, saved>>)
  BY <1>5, <1>6, <1>10, <1>13, DiedInTwo
<1>14. CASE db' = saved /\ UNCHANGED <<crashes, house>>
  BY <1>12, <1>14, SameHouse DEF Went
<1> QED  BY <1>2, <1>13, <1>14 DEF Commit

LEMMA MarkWent ==
    ASSUME Sound, NEW p \in Players, NEW m \in m_mail[p],
           MailMarkAsRead(p, m) \/ MailDelete(p, m)
    PROVE  Went(FALSE)
  BY SameHouse DEF MailMarkAsRead, MailDelete, Went, NoGain

LEMMA MailReturnToSenderWent ==
    ASSUME Sound, NEW p \in Players, NEW m \in m_mail[p], NEW id \in MailIds,
           MailReturnToSender(p, m, id)
    PROVE  Died \/ Went(FALSE)
<1> DEFINE isNormal == m.kind = "normal"
           back == IF isNormal
                   THEN {PlayerMail(id, p, m.from, m.money, 0, m.item, "returned")} ELSE {}
           deleted == DeleteMail(db, m.id)
           limbo == [deleted EXCEPT !.limbo = @ + m.money]
           inserted == InsertMails(deleted, back)
           burned == Burn(deleted, m.money)
           images == IF isNormal THEN <<limbo, inserted>> ELSE <<burned>>
<1>1. \/ Commit(images) /\ UNCHANGED house
      \/ DiesIn(images)
  BY DEF MailReturnToSender
<1> HIDE DEF back, isNormal
<1>2. SoundImage(deleted) /\ deleted.bag = db.bag /\ deleted.auction = db.auction
  BY DeleteMailSound, DeleteMailFields DEF Sound
<1> HIDE DEF deleted
<1>3. SoundImage(limbo) /\ limbo.bag = db.bag /\ limbo.auction = db.auction
  BY <1>2 DEF SoundImage
<1>4. inserted.bag = db.bag /\ burned.bag = db.bag
  BY <1>2, InsertMailsFields, BurnFields
<1> HIDE DEF limbo, inserted, burned
<1>5. Reliable => Harmless(limbo)
  BY <1>3, NoHouseHarmless DEF NoGain
<1>6. ASSUME DiesIn(images) PROVE Died
  <2>1. DiesIn(<<limbo, inserted>>)
    BY <1>6, DiesInNone
  <2> QED  BY <1>3, <1>5, <2>1, DiedInOne
<1>7. ASSUME Commit(images), UNCHANGED house PROVE Went(FALSE)
  <2>1. db'.bag = db.bag /\ UNCHANGED crashes
    <3>1. CASE isNormal
      BY <1>4, <1>7, <3>1 DEF Commit
    <3>2. CASE ~isNormal
      BY <1>4, <1>7, <3>2 DEF Commit
    <3> QED  BY <3>1, <3>2
  <2> QED  BY <1>7, <2>1, SameHouse DEF Went, NoGain
<1> QED  BY <1>1, <1>6, <1>7

\* Player p has taken the item of mail m, and the payment, if any, has been sent.
Taken(p, m) ==
    /\ ~m.deleted
    /\ \A q \in Players : db'.bag[q] \subseteq db.bag[q] \cup {m.item}
    /\ m.cod > 0 => \E n \in db'.mail :
         New(n) /\ n.to = m.from /\ n.money = m.cod /\ n.checked = "codPayment"

LEMMA MailTakeItemWent ==
    ASSUME Sound, NEW p \in Players, NEW m \in m_mail[p], NEW id \in MailIds,
           MailTakeItem(p, m, id)
    PROVE  Died \/ Went(Taken(p, m))
<1> DEFINE mail == PlayerMail(id, p, m.from, m.cod, 0, NoItem, "codPayment")
           payment == IF m.cod > 0 THEN {mail} ELSE {}
           paid == InsertMails(db, payment)
           left == Pay(gold[p], m.cod)
           got == bag[p] \cup {m.item}
           m2 == ItemTaken(m)
           box == Replaced(p, m, m2)
           inv == SaveInventoryAndGold(paid, p, left, got)
           saved == SaveMail(inv, box)
           boxes == [m_mail EXCEPT ![p] = Kept(box)]
<1>1. /\ \/ Commit(<<paid, saved>>) /\ UNCHANGED house
         \/ DiesIn(<<paid, saved>>)
      /\ Online(p) /\ ~m.deleted /\ m.item # NoItem /\ Fresh(payment)
  BY DEF MailTakeItem, TakeImages, Replaced, InBox, MayAct
<1>2. m \in SoundMail /\ m.to = p
  BY DEF Sound
<1>3. m.cod \in Money /\ m.cod \in Nat /\ m.item \in Items
  BY <1>1, <1>2, MailFields
<1>4. /\ payment \in SUBSET SoundMail /\ RowsFit(payment) /\ \A k \in payment : k.item = NoItem
      /\ m.cod > 0 => payment = {mail}
      /\ mail.to = m.from /\ mail.money = m.cod /\ mail.checked = "codPayment"
  <2>1. m.cod > 0 => m.from \in Players
    BY <1>2, MailFields
  <2>2. m.cod > 0 => mail \in SoundMail
    BY <1>3, <2>1, MailsSound, Coins
  <2>3. mail.item = NoItem /\ ~mail.deleted /\ mail.to = m.from /\ mail.money = m.cod
        /\ mail.checked = "codPayment"
    BY DEF PlayerMail
  <2>4. payment = IF m.cod > 0 THEN {mail} ELSE {}
    OBVIOUS
  <2> HIDE DEF mail, payment
  <2> QED  BY <2>2, <2>3, <2>4 DEF RowsFit
<1>5. left \in Money /\ got \in SUBSET Items
  BY <1>3, Coins DEF Sound
<1> HIDE DEF mail, payment, left
<1>6. m2 \in SoundMail /\ m2.to = p /\ m2.id = m.id
  BY <1>2, ChangedSound
<1> HIDE DEF m2, box
<1>7. /\ box \in SUBSET SoundMail
      /\ \A k \in box : \E j \in m_mail[p] : j.id = k.id
  BY <1>6, BoxSound DEF Replaced, box
<1>8. SoundImage(paid) /\ paid.bag = db.bag
      /\ paid.mail = db.mail \cup payment /\ paid.auction = db.auction
  BY <1>4, InsertMailsSound, InsertMailsFields DEF Sound
<1> HIDE DEF paid
<1>9. SoundImage(inv) /\ SavedOf(inv, paid, p, left, got)
  BY <1>5, <1>8, SaveInventoryAndGoldSound, SaveInventoryAndGoldFields
<1> HIDE DEF inv
<1>10. Reliable => Harmless(paid)
  BY <1>8, NoHouseHarmless DEF NoGain
<1>11. /\ \A q \in Players : saved.bag[q] \subseteq inv.bag[q]
       /\ \A r \in inv.mail : r.item = NoItem /\ (\A k \in box : k.id # r.id) => r \in saved.mail
  BY <1>7, <1>9, SaveMailKeeps
<1> HIDE DEF saved
<1>12. \A n \in payment : n \in saved.mail /\ n \notin db.mail
  <2>1. \A n \in payment : /\ \A r \in db.mail : r.id # n.id
                           /\ \A j \in m_mail[p] : j.id # n.id
    BY <1>1 DEF Fresh
  <2>2. \A n \in payment : n.item = NoItem /\ n \in inv.mail /\ \A k \in box : k.id # n.id
    BY <1>4, <1>7, <1>8, <1>9, <2>1 DEF SavedOf
  <2> QED  BY <1>11, <2>1, <2>2
<1>13. CASE DiesIn(<<paid, saved>>)
  BY <1>8, <1>10, <1>13, DiedInOne
<1>14. ASSUME db' = saved, UNCHANGED <<crashes, house>> PROVE Went(Taken(p, m))
  <2>1. ASSUME Reliable PROVE \A q \in Players : db'.bag[q] \subseteq db.bag[q] \cup {m.item}
    <3>1. db.bag[p] = bag[p]
      BY <1>1, <2>1 DEF Reliable, Agreed, Online
    <3>2. Updated(inv.bag, db.bag, p, got)
      BY <1>8, <1>9 DEF SavedOf
    <3> QED  BY <1>11, <1>14, <3>1, <3>2 DEF Updated
  <2>2. m.cod > 0 => \E n \in db'.mail :
          New(n) /\ n.to = m.from /\ n.money = m.cod /\ n.checked = "codPayment"
    BY <1>4, <1>12, <1>14 DEF New
  <2> QED  BY <1>1, <1>14, <2>1, <2>2, SameHouse DEF Went, Taken
<1> QED  BY <1>1, <1>13, <1>14 DEF Commit

LEMMA MailTakeMoneyWent ==
    ASSUME Sound, NEW p \in Players, NEW m \in m_mail[p], MailTakeMoney(p, m)
    PROVE  Went(FALSE)
<1> DEFINE now == Earn(gold[p], m.money)
           m2 == MoneyTaken(m)
           box == Replaced(p, m, m2)
           lost == gold[p] + m.money - now
           inv == SaveGold(db, p, now)
           sent == SaveMail(inv, box)
           saved == Burn(sent, lost)
<1>1. db' = saved /\ UNCHANGED <<crashes, house>>
  BY DEF MailTakeMoney, Commit, Replaced
<1>2. m \in SoundMail /\ m.to = p /\ m.money \in Nat
  BY MailFields DEF Sound
<1>3. now \in Money
  BY <1>2, Coins DEF Sound
<1> HIDE DEF now, lost
<1>4. box \in SUBSET SoundMail
  BY <1>2, ChangedSound, BoxSound
<1> HIDE DEF box
<1>5. SoundImage(inv) /\ \A q \in Players : inv.bag[q] = db.bag[q]
  BY <1>3, SaveGoldSound, SaveGoldFields DEF Sound, SavedOf, Updated
<1> HIDE DEF inv
<1>6. SoundImage(sent) /\ \A q \in Players : sent.bag[q] \subseteq inv.bag[q]
  BY <1>4, <1>5, SaveMailKeeps, SaveMailSound
<1> HIDE DEF sent
<1>7. saved.bag = sent.bag
  BY <1>6, BurnFields
<1> HIDE DEF saved
<1> QED  BY <1>1, <1>5, <1>6, <1>7, SameHouse DEF Went, NoGain

LEMMA SweepMailWent ==
    ASSUME Sound, NEW m \in db.mail, SweepMail(m)
    PROVE  Died \/ Went(FALSE)
<1> DEFINE returns == m.item # NoItem /\ m.kind = "normal" /\ m.checked = ""
           back == [m EXCEPT !.from = m.to, !.to = m.from, !.cod = 0, !.checked = "returned"]
           deleted == DeleteMail(db, m.id)
           inserted == InsertMails(deleted, {back})
           destroyed == DestroyItems(db, {m.item})
           dropped == DeleteMail(destroyed, m.id)
           burned == Burn(dropped, m.money)
           images == IF returns THEN <<inserted>> ELSE <<destroyed, burned>>
<1>1. \/ Commit(images) /\ UNCHANGED house
      \/ DiesIn(images)
  BY DEF SweepMail
<1> HIDE DEF back, returns
<1>2. SoundImage(db) /\ m \in SoundMail
  BY DEF Sound, SoundImage
<1>3. SoundImage(deleted) /\ deleted.bag = db.bag
  BY <1>2, DeleteMailSound, DeleteMailFields
<1> HIDE DEF deleted
<1>4. inserted.bag = db.bag
  BY <1>3, InsertMailsFields
<1> HIDE DEF inserted
<1>5. /\ SoundImage(destroyed)
      /\ \A p \in Players : destroyed.bag[p] = db.bag[p] \ {m.item}
      /\ \A l \in Lots : destroyed.auction[l] =
            IF InLot(db.auction, l, db.auction[l].item) /\ db.auction[l].item \in {m.item}
            THEN [db.auction[l] EXCEPT !.item = NoItem] ELSE db.auction[l]
  BY <1>2, DestroyItemsSound, DestroyItemsFields
<1> HIDE DEF destroyed
<1>6. NoGain(destroyed.bag)
  BY <1>5 DEF NoGain
<1>7. NoGain(burned.bag)
  <2>1. SoundImage(dropped) /\ dropped.bag = destroyed.bag
    BY <1>5, DeleteMailSound, DeleteMailFields
  <2> HIDE DEF dropped
  <2>2. burned.bag = dropped.bag
    BY <2>1, BurnFields
  <2> QED  BY <1>6, <2>1, <2>2
<1> HIDE DEF burned, dropped
<1>8. Reliable => Harmless(destroyed)
  <2>1. ASSUME NEW l \in Lots, Reliable, Active(l) PROVE destroyed.auction[l] = db.auction[l]
    <3>1. db.auction[l] = house[l] /\ db.auction[l] # NoLot /\ db.auction[l].item # NoItem
      BY <2>1, ActiveRow
    <3>2. CASE db.auction[l].item = m.item
      <4>1. m.item \in Items
        BY <1>2, <3>1, <3>2, MailFields
      <4>2. SingleItem(m.item, db.bag, db.mail, db.auction)
        BY <2>1, <4>1 DEF Reliable, Agreed, Single
      <4> QED  BY <3>1, <3>2, <4>2 DEF SingleItem, InLot
    <3> QED  BY <1>5, <3>2
  <2> QED  BY <1>6, <2>1, NoHouseHarmless
<1>9. ASSUME DiesIn(images) PROVE Died
  <2>1. DiesIn(<<destroyed, burned>>)
    BY <1>9, DiesInNone
  <2> QED  BY <1>5, <1>8, <2>1, DiedInOne
<1>10. ASSUME Commit(images), UNCHANGED house PROVE Went(FALSE)
  <2>1. UNCHANGED crashes /\ NoGain(db'.bag)
    <3>1. CASE returns
      BY <1>4, <1>10, <3>1 DEF Commit, NoGain
    <3>2. CASE ~returns
      BY <1>7, <1>10, <3>2 DEF Commit
    <3> QED  BY <3>1, <3>2
  <2> QED  BY <1>10, <2>1, SameHouse DEF Went
<1> QED  BY <1>1, <1>9, <1>10

LEMMA TravelWent ==
    ASSUME Sound, NEW p \in Players, LoginRequest(p) \/ EnterWorld(p) \/ TeleportTo(p)
    PROVE  Went(FALSE)
<1>1. UNCHANGED <<house, db, crashes>>
  BY DEF LoginRequest, EnterWorld, TeleportTo
<1> QED  BY <1>1, SameHouse DEF Went, NoGain

LEMMA LogoutWent ==
    ASSUME Sound, NEW p \in Players, Logout(p)
    PROVE  Went(FALSE)
<1> DEFINE inv == SaveInventoryAndGold(db, p, gold[p], bag[p])
<1>1. db' = SaveMail(inv, m_mail[p]) /\ UNCHANGED <<crashes, house>> /\ Online(p)
  BY DEF Logout, Commit
<1>2. SoundImage(inv) /\ Updated(inv.bag, db.bag, p, bag[p])
  BY SaveInventoryAndGoldSound, SaveInventoryAndGoldFields DEF Sound, SavedOf
<1> HIDE DEF inv
<1>3. \A q \in Players : db'.bag[q] \subseteq inv.bag[q]
  BY <1>1, <1>2, SaveMailKeeps DEF Sound
<1>4. Reliable => NoGain(inv.bag)
  BY <1>1, <1>2, UpdatedBags
<1> QED  BY <1>1, <1>3, <1>4, SameHouse DEF Went, NoGain

\* One of the mails pays back the bid on lot l, or has the item for its bidder.
Pays(mails, l) == \E m \in mails : m.to = house[l].bidder /\ m.money = house[l].bid
Gives(mails, l) == \E m \in mails : m.to = house[l].bidder /\ m.item = house[l].item

LEMMA FreshMails ==
    ASSUME NEW mails, Fresh(mails)
    PROVE  /\ \A m \in mails : m \notin db.mail
           /\ \A l \in Lots : \A rows : mails \subseteq rows /\ Pays(mails, l) => Refunded(rows, l)
  BY DEF Fresh, Pays, Refunded

LEMMA LotSafe ==
    ASSUME Sound, NEW l \in Lots, NEW e, house' = [house EXCEPT ![l] = e],
           NEW mails, Fresh(mails), mails \subseteq db'.mail,
           Active(l) => \/ Pays(mails, l)
                        \/ e # NoLot /\ e.bidder = house[l].bidder /\ (e.pending => Gives(mails, l))
    PROVE  \A k \in Lots : Active(k) => BidSafe(k)
<1> SUFFICES ASSUME NEW k \in Lots, Active(k) PROVE BidSafe(k)
  OBVIOUS
<1>1. house'[l] = e /\ (k # l => house'[k] = house[k])
  BY DEF Sound
<1>2. CASE k # l
  BY <1>1, <1>2 DEF Active, Listed, BidSafe
<1>3. CASE k = l
  <2>1. CASE Pays(mails, l)
    BY <1>3, <2>1, FreshMails DEF BidSafe
  <2>2. CASE e # NoLot /\ e.bidder = house[l].bidder /\ (e.pending => Gives(mails, l))
    <3>1. e.pending => \E m \in db'.mail : New(m) /\ m.to = house[l].bidder /\ m.item = house[l].item
      BY <2>2, FreshMails DEF Gives, New
    <3> QED  BY <1>1, <1>3, <2>2, <3>1 DEF BidSafe
  <2> QED  BY <1>3, <2>1, <2>2
<1> QED  BY <1>2, <1>3

LEMMA SellItemWent ==
    ASSUME Sound, NEW p \in Players, NEW l \in Lots, NEW item \in Items,
           NEW startbid \in StartBids, NEW buyout \in Buyouts, SellItem(p, l, item, startbid, buyout)
    PROVE  Went(FALSE)
<1> DEFINE left == Pay(gold[p], Deposit)
           rest == bag[p] \ {item}
           entry == [item |-> item, owner |-> p, startbid |-> startbid, buyout |-> buyout,
                     bid |-> 0, bidder |-> NoBidder, deposit |-> Deposit, pending |-> FALSE]
           listed == SaveAuction(db, l, entry)
           saved == SaveInventoryAndGold(listed, p, left, rest)
<1>1. /\ db' = saved /\ UNCHANGED crashes
      /\ house' = [house EXCEPT ![l] = entry]
      /\ gold[p] >= Deposit /\ Online(p) /\ ~Listed(l)
  BY DEF SellItem, Commit, MayAct
<1>2. entry \in SoundEntry
  <2>1. Deposit \in Nat /\ startbid \in Money /\ buyout \in Money /\ buyout \in Nat
    BY AuctionAssumption, StoreAssumption DEF Money
  <2>2. Deposit \in Money
    BY <1>1, <2>1, StoreAssumption DEF Sound, Money
  <2>3. entry \in AuctionEntry
    BY <2>1, <2>2, Coins DEF AuctionEntry
  <2> QED  BY <2>1, <2>3 DEF SoundEntry
<1> HIDE DEF left, entry
<1>3. LotOf(listed, db, l, entry) /\ SoundImage(listed)
  BY <1>2, SaveAuctionFields, SaveAuctionSound DEF Sound
<1> HIDE DEF listed
<1>4. SavedOf(saved, listed, p, left, rest)
  BY <1>3, SaveInventoryAndGoldFields
<1> HIDE DEF saved
<1>5. Reliable => NoGain(saved.bag)
  <2>1. Updated(saved.bag, db.bag, p, rest)
    BY <1>3, <1>4 DEF LotOf, SavedOf
  <2> QED  BY <1>1, <2>1, UpdatedBags
<1>6. \A k \in Lots : Active(k) => BidSafe(k)
  <2>1. Fresh({}) /\ ~Active(l)
    BY <1>1 DEF Fresh, Active
  <2> QED  BY <1>1, <2>1, LotSafe
<1> QED  BY <1>1, <1>5, <1>6 DEF Went

LEMMA PlaceBidWent ==
    ASSUME Sound, NEW p \in Players, NEW l \in Lots, NEW price \in Money,
           NEW id \in MailIds, NEW wonId \in MailIds, PlaceBid(p, l, price, id, wonId)
    PROVE  Died \/ Went(FALSE)
<1> DEFINE e == house[l]
           newbid == IF e.buyout # 0 /\ price > e.buyout THEN e.buyout ELSE price
           cost == IF e.bidder = p THEN newbid - e.bid ELSE newbid
           left == Pay(gold[p], cost)
           entry == [e EXCEPT !.bidder = p, !.bid = newbid]
           isBuyout == e.buyout # 0 /\ newbid >= e.buyout
           after == IF isBuyout THEN Won(entry) ELSE entry
           refund == Outbidden(id, e, p)
           won == IF isBuyout THEN WonMails(wonId, entry) ELSE {}
           mails == refund \cup won
           refunded == InsertMails(db, refund)
           placed == SaveAuction(refunded, l, after)
           saved == SaveInventoryAndGold(placed, p, left, bag[p])
           sent == InsertMails(saved, won)
           images == <<refunded, saved, sent>>
<1>1. /\ Listed(l) /\ price > e.bid /\ Online(p) /\ Fresh(mails)
      /\ \/ Commit(images) /\ house' = [house EXCEPT ![l] = after]
         \/ DiesIn(images)
  BY DEF PlaceBid, CanBid, NewBid, IsBuyout, LeftAfterBid, BidOf, BidWonMails, MayAct
<1>2. e \in SoundEntry /\ house[l] = e
  BY <1>1 DEF Sound, Listed
<1> HIDE DEF e
<1>3. /\ newbid \in Money /\ newbid \in Nat /\ newbid >= e.bid
      /\ (e.buyout # 0 => newbid <= e.buyout)
  <2>1. e.buyout \in Money /\ e.buyout \in Nat /\ e.bid \in Nat /\ (e.buyout # 0 => e.bid <= e.buyout)
    BY <1>2, EntryFields
  <2>2. price \in Nat
    BY StoreAssumption DEF Money
  <2> QED  BY <1>1, <2>1, <2>2
<1> HIDE DEF newbid
<1>4. left \in Money /\ bag[p] \in SUBSET Items
  <2>1. cost \in Nat
    BY <1>2, <1>3, EntryFields
  <2> HIDE DEF cost
  <2> QED  BY <2>1, Coins DEF Sound
<1> HIDE DEF cost, left
<1>5. entry \in SoundEntry /\ entry.bidder = p /\ entry.item = e.item /\ entry.pending = e.pending
  <2>1. /\ entry \in AuctionEntry /\ entry.bidder = p /\ entry.bid = newbid
        /\ entry.pending = e.pending /\ entry.item = e.item /\ entry.buyout = e.buyout
    BY <1>2, <1>3 DEF SoundEntry, AuctionEntry
  <2>2. e.pending => e.item = NoItem
    BY <1>2 DEF SoundEntry
  <2> HIDE DEF entry
  <2> QED  BY <1>3, <2>1, <2>2 DEF SoundEntry
<1> HIDE DEF entry
<1>6. /\ after \in SoundEntry /\ after.bidder = p
      /\ after.pending \/ after.item = e.item
      /\ after.pending /\ ~e.pending => isBuyout
  BY <1>5, WonSound
<1>7. after # NoLot
  BY <1>6, NoLotAssumption DEF SoundEntry
<1>8. refund \in SUBSET SoundMail /\ won \in SUBSET SoundMail
  BY <1>2, <1>5, BidMailsSound
\* Who has bid before and is not p is paid back.
<1>9. Active(l) => e.bidder = p \/ Pays(refund, l)
  <2> DEFINE mail == AuctionMail(id, e.bidder, e.bid, NoItem)
  <2>1. Active(l) => e.bidder \in Players
    BY <1>2, EntryFields DEF Active
  <2>2. mail.to = e.bidder /\ mail.money = e.bid
    BY DEF AuctionMail
  <2>3. e.bidder \notin {p, NoBidder} => mail \in refund
    BY DEF Outbidden
  <2> HIDE DEF mail
  <2> QED  BY <1>2, <2>1, <2>2, <2>3, StoreAssumption DEF Pays
<1>10. Active(l) /\ after.pending /\ e.bidder = p => Gives(won, l)
  <2> DEFINE mail == AuctionMail(wonId, p, 0, e.item)
  <2>1. mail.to = p /\ mail.item = e.item
    BY DEF AuctionMail
  <2>2. Active(l) => ~e.pending /\ e.item # NoItem
    BY <1>2 DEF Active, Sound, PendingHoldsNoItem
  <2>3. isBuyout /\ e.item # NoItem => mail \in won
    BY <1>5 DEF WonMails
  <2> HIDE DEF mail, won, after, isBuyout
  <2> QED  BY <1>2, <1>6, <2>1, <2>2, <2>3 DEF Gives
<1> HIDE DEF isBuyout, after, refund, won
<1>11. Fresh(refund) /\ (Pays(refund, l) => Pays(mails, l))
  BY <1>1 DEF Fresh, Pays
<1>12. Gives(won, l) => Gives(mails, l)
  BY DEF Gives
<1>13. mails = refund \cup won
  OBVIOUS
<1> HIDE DEF mails
<1>14. /\ SoundImage(refunded) /\ refunded.bag = db.bag
       /\ refunded.mail = db.mail \cup refund /\ refunded.auction = db.auction
  BY <1>8, InsertMailsSound, InsertMailsFields DEF Sound
<1> HIDE DEF refunded
<1>15. LotOf(placed, refunded, l, after) /\ SoundImage(placed)
  BY <1>6, <1>14, SaveAuctionFields, SaveAuctionSound
<1> HIDE DEF placed
<1>16. SavedOf(saved, placed, p, left, bag[p]) /\ SoundImage(saved)
  BY <1>4, <1>15, SaveInventoryAndGoldFields, SaveInventoryAndGoldSound
<1> HIDE DEF saved
<1>17. sent.bag = saved.bag /\ sent.mail = saved.mail \cup won
  BY <1>16, InsertMailsFields
<1> HIDE DEF sent
<1>18. /\ saved.mail = db.mail \cup refund /\ saved.auction[l] = after
       /\ \A k \in Lots \ {l} : saved.auction[k] = db.auction[k]
       /\ Updated(saved.bag, db.bag, p, bag[p])
  BY <1>14, <1>15, <1>16 DEF LotOf, SavedOf
<1>19. Reliable => NoGain(saved.bag)
  BY <1>1, <1>18, UpdatedBags
<1>20. Reliable => Harmless(refunded)
  BY <1>14, NoHouseHarmless DEF NoGain
<1>21. ASSUME Reliable PROVE Harmless(saved)
  <2>1. ASSUME NEW k \in Lots, Active(k)
        PROVE  \/ Refunded(saved.mail, k)
               \/ LET row == saved.auction[k] IN
                  row # NoLot /\ row.bidder = house[k].bidder /\ (row.pending \/ row.item # NoItem)
    <3>1. CASE k # l
      BY <1>18, <1>21, <2>1, <3>1, ActiveRow
    <3>2. CASE k = l /\ Pays(refund, l)
      BY <1>11, <1>18, <3>2, FreshMails
    <3>3. CASE k = l /\ ~Pays(refund, l)
      <4>1. house[l].bidder = p /\ house[l].item # NoItem
        BY <1>2, <1>9, <1>21, <2>1, <3>3, ActiveRow
      <4> QED  BY <1>2, <1>6, <1>7, <1>18, <3>3, <4>1
    <3> QED  BY <3>1, <3>2, <3>3
  <2> QED  BY <1>19, <1>21, <2>1 DEF Harmless
<1>22. ASSUME DiesIn(images) PROVE Died
  BY <1>14, <1>16, <1>20, <1>21, <1>22, DiedInTwo
<1>23. ASSUME db' = sent, UNCHANGED crashes, house' = [house EXCEPT ![l] = after]
       PROVE  Went(FALSE)
  <2>1. mails \subseteq db'.mail
    BY <1>13, <1>17, <1>18, <1>23
  <2>2. Active(l) => \/ Pays(mails, l)
                     \/ /\ after # NoLot /\ after.bidder = house[l].bidder
                        /\ after.pending => Gives(mails, l)
    BY <1>2, <1>6, <1>7, <1>9, <1>10, <1>11, <1>12
  <2>3. \A k \in Lots : Active(k) => BidSafe(k)
    BY <1>1, <1>23, <2>1, <2>2, LotSafe
  <2> QED  BY <1>17, <1>19, <1>23, <2>3 DEF Went
<1> QED  BY <1>1, <1>22, <1>23 DEF Commit

LEMMA CancelAuctionWent ==
    ASSUME Sound, NEW p \in Players, NEW l \in Lots, NEW id \in MailIds,
           NEW itemId \in MailIds, CancelAuction(p, l, id, itemId)
    PROVE  Died \/ Went(FALSE)
<1> DEFINE e == house[l]
           left == Pay(gold[p], GetAuctionCut(e))
           refund == IF e.bid = 0 THEN {} ELSE {AuctionMail(id, e.bidder, e.bid, NoItem)}
           item == {AuctionMail(itemId, p, 0, e.item)}
           mails == refund \cup item
           refunded == InsertMails(db, refund)
           returned == InsertMails(refunded, item)
           deleted == DeleteAuction(returned, l)
           removed == SaveInventoryAndGold(deleted, p, left, bag[p])
           burned == Burn(removed, e.deposit + GetAuctionCut(e))
           images == <<refunded, returned, burned>>
<1>1. /\ Listed(l) /\ Online(p) /\ Fresh(mails)
      /\ \/ Commit(images) /\ house' = [house EXCEPT ![l] = NoLot]
         \/ DiesIn(images)
  BY DEF CancelAuction, CanCancel, CancelRefund, MayAct
<1>2. e \in SoundEntry /\ house[l] = e
  BY <1>1 DEF Sound, Listed
<1> HIDE DEF e
<1>3. left \in Money /\ bag[p] \in SUBSET Items
  BY <1>2, EntryFields, Coins DEF Sound
<1>4. refund \in SUBSET SoundMail /\ item \in SUBSET SoundMail
  <2>1. e.bid # 0 => e.bidder \in Players /\ e.bid \in Nat
    BY <1>2, EntryFields
  <2>2. e.item \in Items \cup {NoItem}
    BY <1>2, EntryFields
  <2>3. e.bid # 0 => AuctionMail(id, e.bidder, e.bid, NoItem) \in SoundMail
    BY <2>1, MailsSound
  <2>4. AuctionMail(itemId, p, 0, e.item) \in SoundMail
    BY <2>2, MailsSound
  <2> QED  BY <2>3, <2>4
<1>5. Active(l) => Pays(refund, l)
  <2> DEFINE mail == AuctionMail(id, e.bidder, e.bid, NoItem)
  <2>1. mail.to = e.bidder /\ mail.money = e.bid
    BY DEF AuctionMail
  <2>2. Active(l) => mail \in refund
    BY <1>2 DEF Active
  <2> HIDE DEF mail, refund
  <2> QED  BY <1>2, <2>1, <2>2 DEF Pays
<1> HIDE DEF left, refund, item
<1>6. mails = refund \cup item /\ (Active(l) => Pays(mails, l))
  BY <1>5 DEF Pays
<1> HIDE DEF mails
<1>7. /\ SoundImage(refunded) /\ refunded.bag = db.bag
      /\ refunded.mail = db.mail \cup refund /\ refunded.auction = db.auction
  BY <1>4, InsertMailsSound, InsertMailsFields DEF Sound
<1> HIDE DEF refunded
<1>8. /\ SoundImage(returned) /\ returned.bag = db.bag
      /\ returned.mail = db.mail \cup mails /\ returned.auction = db.auction
  BY <1>4, <1>6, <1>7, InsertMailsSound, InsertMailsFields
<1> HIDE DEF returned
<1>9. LotOf(deleted, returned, l, NoLot) /\ SoundImage(deleted)
  BY <1>8, DeleteAuctionFields, DeleteAuctionSound
<1> HIDE DEF deleted
<1>10. SavedOf(removed, deleted, p, left, bag[p]) /\ SoundImage(removed)
  BY <1>3, <1>9, SaveInventoryAndGoldFields, SaveInventoryAndGoldSound
<1> HIDE DEF removed
<1>11. burned.bag = removed.bag /\ burned.mail = removed.mail
  BY <1>10, BurnFields
<1> HIDE DEF burned
<1>12. (Reliable => Harmless(refunded)) /\ (Reliable => Harmless(returned))
  BY <1>7, <1>8, NoHouseHarmless DEF NoGain
<1>13. ASSUME DiesIn(images) PROVE Died
  BY <1>7, <1>8, <1>12, <1>13, DiedInTwo
<1>14. ASSUME db' = burned, UNCHANGED crashes, house' = [house EXCEPT ![l] = NoLot]
       PROVE  Went(FALSE)
  <2>1. mails \subseteq db'.mail /\ Updated(burned.bag, db.bag, p, bag[p])
    BY <1>8, <1>9, <1>10, <1>11, <1>14 DEF LotOf, SavedOf
  <2>2. Reliable => NoGain(burned.bag)
    BY <1>1, <2>1, UpdatedBags
  <2>3. \A k \in Lots : Active(k) => BidSafe(k)
    BY <1>1, <1>6, <1>14, <2>1, LotSafe
  <2> QED  BY <1>14, <2>2, <2>3 DEF Went
<1> QED  BY <1>1, <1>13, <1>14 DEF Commit

LEMMA EndWent ==
    ASSUME Sound, NEW l \in Lots, ~Active(l), NEW mail \in SoundMail, NEW burned,
           End(l, mail, burned)
    PROVE  Died \/ Went(FALSE)
<1> DEFINE mails == {mail}
           sent == InsertMails(db, mails)
           deleted == DeleteAuction(sent, l)
           ended == Burn(deleted, burned)
           images == <<sent, ended>>
<1>1. /\ Fresh(mails)
      /\ \/ Commit(images) /\ house' = [house EXCEPT ![l] = NoLot]
         \/ DiesIn(images)
  BY DEF End, MailThenDelete
<1>2. mails \in SUBSET SoundMail
  OBVIOUS
<1> HIDE DEF mails
<1>3. /\ SoundImage(sent) /\ sent.bag = db.bag
      /\ sent.mail = db.mail \cup mails /\ sent.auction = db.auction
  BY <1>2, InsertMailsSound, InsertMailsFields DEF Sound
<1> HIDE DEF sent
<1>4. LotOf(deleted, sent, l, NoLot) /\ SoundImage(deleted)
  BY <1>3, DeleteAuctionFields, DeleteAuctionSound
<1> HIDE DEF deleted
<1>5. ended.bag = deleted.bag /\ ended.mail = deleted.mail
  BY <1>4, BurnFields
<1> HIDE DEF ended
<1>6. Reliable => Harmless(sent)
  BY <1>3, NoHouseHarmless DEF NoGain
<1>7. ASSUME DiesIn(images) PROVE Died
  BY <1>3, <1>6, <1>7, DiedInOne
<1>8. ASSUME db' = ended, UNCHANGED crashes, house' = [house EXCEPT ![l] = NoLot]
      PROVE  Went(FALSE)
  <2>1. mails \subseteq db'.mail /\ db'.bag = db.bag
    BY <1>3, <1>4, <1>5, <1>8 DEF LotOf
  <2>2. \A k \in Lots : Active(k) => BidSafe(k)
    BY <1>1, <1>8, <2>1, LotSafe
  <2> QED  BY <1>8, <2>1, <2>2 DEF Went, NoGain
<1> QED  BY <1>1, <1>7, <1>8 DEF Commit

LEMMA ExpireWent ==
    ASSUME Sound, NEW l \in Lots, NEW id \in MailIds, DeliverMoney(l, id) \/ Expire(l, id)
    PROVE  Died \/ Went(FALSE)
<1> DEFINE e == house[l]
           profit == e.bid + e.deposit - GetAuctionCut(e)
<1>1. e \in SoundEntry /\ ~Active(l)
  BY DEF Sound, DeliverMoney, Expire, Listed, Active
<1>2. e.owner \in Players /\ e.item \in Items \cup {NoItem} /\ profit \in Nat
  BY <1>1, EntryFields
<1>3. CASE DeliverMoney(l, id)
  <2> DEFINE mail == AuctionMail(id, e.owner, profit, NoItem)
  <2>1. mail \in SoundMail
    BY <1>2, MailsSound
  <2>2. End(l, mail, GetAuctionCut(e))
    BY <1>3 DEF DeliverMoney
  <2> HIDE DEF mail, e
  <2> QED  BY <1>1, <2>1, <2>2, EndWent
<1>4. CASE Expire(l, id)
  <2> DEFINE mail == AuctionMail(id, e.owner, 0, e.item)
  <2>1. mail \in SoundMail
    BY <1>2, MailsSound
  <2>2. End(l, mail, e.deposit)
    BY <1>4 DEF Expire
  <2> HIDE DEF mail, e
  <2> QED  BY <1>1, <2>1, <2>2, EndWent
<1> QED  BY <1>3, <1>4

LEMMA ExpireWonWent ==
    ASSUME Sound, NEW l \in Lots, NEW id \in MailIds, ExpireWon(l, id)
    PROVE  Died \/ Went(FALSE)
<1> DEFINE e == house[l]
           after == Won(e)
           saved == SaveAuction(db, l, after)
           mails == WonMails(id, e)
           sent == InsertMails(saved, mails)
           images == <<saved, sent>>
<1>1. /\ Listed(l) /\ e.bid > 0 /\ Fresh(mails)
      /\ \/ Commit(images) /\ house' = [house EXCEPT ![l] = after]
         \/ DiesIn(images)
  BY DEF ExpireWon
<1>2. e \in SoundEntry /\ house[l] = e
  BY <1>1 DEF Sound, Listed
<1> HIDE DEF e
<1>3. /\ mails \in SUBSET SoundMail
      /\ after \in SoundEntry /\ after.pending /\ after.bidder = e.bidder
  BY <1>1, <1>2, EntryFields, BidMailsSound, WonSound
<1>4. after # NoLot
  BY <1>3, NoLotAssumption DEF SoundEntry
<1>5. Active(l) => Gives(mails, l)
  <2> DEFINE mail == AuctionMail(id, e.bidder, 0, e.item)
  <2>1. mail.to = e.bidder /\ mail.item = e.item
    BY DEF AuctionMail
  <2>2. Active(l) => e.item # NoItem
    BY <1>2 DEF Active, Sound, PendingHoldsNoItem
  <2>3. e.item # NoItem => mail \in mails
    BY DEF WonMails
  <2> HIDE DEF mail, mails
  <2> QED  BY <1>2, <2>1, <2>2, <2>3 DEF Gives
<1> HIDE DEF mails, after
<1>6. LotOf(saved, db, l, after) /\ SoundImage(saved)
  BY <1>3, SaveAuctionFields, SaveAuctionSound DEF Sound
<1> HIDE DEF saved
<1>7. sent.bag = saved.bag /\ sent.mail = saved.mail \cup mails
  BY <1>6, InsertMailsFields
<1> HIDE DEF sent
<1>8. ASSUME Reliable PROVE Harmless(saved)
  <2>1. saved.bag = db.bag /\ saved.auction[l] = after
        /\ \A k \in Lots \ {l} : saved.auction[k] = db.auction[k]
    BY <1>6 DEF LotOf
  <2>2. ASSUME NEW k \in Lots, Active(k)
        PROVE  LET row == saved.auction[k] IN
               row # NoLot /\ row.bidder = house[k].bidder /\ (row.pending \/ row.item # NoItem)
    BY <1>2, <1>3, <1>4, <1>8, <2>1, <2>2, ActiveRow
  <2> QED  BY <2>1, <2>2 DEF Harmless, NoGain
<1>9. ASSUME DiesIn(images) PROVE Died
  BY <1>6, <1>8, <1>9, DiedInOne
<1>10. ASSUME db' = sent, UNCHANGED crashes, house' = [house EXCEPT ![l] = after]
       PROVE  Went(FALSE)
  <2>1. mails \subseteq db'.mail /\ db'.bag = db.bag
    BY <1>6, <1>7, <1>10 DEF LotOf
  <2>2. \A k \in Lots : Active(k) => BidSafe(k)
    BY <1>1, <1>2, <1>3, <1>4, <1>5, <1>10, <2>1, LotSafe
  <2> QED  BY <1>10, <2>1, <2>2 DEF Went, NoGain
<1> QED  BY <1>1, <1>9, <1>10 DEF Commit

LEMMA StepWent ==
    ASSUME Sound, [Next]_vars, ~raced'
    PROVE  \/ Died \/ Went(FALSE)
           \/ \E p \in Players : \E m \in m_mail[p] : Went(Taken(p, m))
<1>1. CASE UNCHANGED vars
  BY <1>1, SameHouse DEF vars, Went, NoGain
<1>2. CASE MailStep
  <2>1. \A m \in db.mail : SweepMail(m) => Died \/ Went(FALSE)
    BY SweepMailWent
  <2>2. \A p, q \in Players, c \in Contents, id \in MailIds :
          SendMail(p, q, c[1], c[2], c[3], id) => Died \/ Went(FALSE)
    BY SendMailWent
  <2>3. \A p \in Players : \A m \in m_mail[p] :
          MailMarkAsRead(p, m) \/ MailDelete(p, m) \/ MailTakeMoney(p, m) => Went(FALSE)
    BY MarkWent, MailTakeMoneyWent
  <2>4. \A p \in Players : \A m \in m_mail[p] : \A id \in MailIds :
          MailReturnToSender(p, m, id) => Died \/ Went(FALSE)
    BY MailReturnToSenderWent
  <2>5. \A p \in Players : \A m \in m_mail[p] : \A id \in MailIds :
          MailTakeItem(p, m, id) => Died \/ Went(Taken(p, m))
    BY MailTakeItemWent
  <2> QED  BY <1>2, <2>1, <2>2, <2>3, <2>4, <2>5, MeetingsRace DEF MailStep
<1>3. CASE AuctionStep
  <2>1. \A l \in Lots, id, id2 \in MailIds, p \in Players :
          CancelAuction(p, l, id, id2) => Died \/ Went(FALSE)
    BY CancelAuctionWent
  <2>2. \A l \in Lots, id, id2 \in MailIds, p \in Players, price \in Money :
          PlaceBid(p, l, price, id, id2) => Died \/ Went(FALSE)
    BY PlaceBidWent
  <2>3. \A l \in Lots, id \in MailIds :
          DeliverMoney(l, id) \/ Expire(l, id) \/ ExpireWon(l, id) => Died \/ Went(FALSE)
    BY ExpireWent, ExpireWonWent
  <2>4. \A l \in Lots, p \in Players, i \in Items, s \in StartBids, b \in Buyouts :
          SellItem(p, l, i, s, b) => Went(FALSE)
    BY SellItemWent
  <2> QED  BY <1>3, <2>1, <2>2, <2>3, <2>4, MeetingsRace DEF AuctionStep
<1>4. ASSUME NEW p \in Players, LoginRequest(p) \/ EnterWorld(p) \/ TeleportTo(p) \/ Logout(p)
      PROVE  Went(FALSE)
  BY <1>4, TravelWent, LogoutWent
<1>5. CASE Crash
  <2>1. Reliable => Harmless(db)
    BY NoHouseHarmless DEF NoGain
  <2> QED  BY <1>5, <2>1 DEF Crash, Died, Sound
<1> QED  BY <1>1, <1>2, <1>3, <1>4, <1>5 DEF Next

\* Whatever happens in the market, the first crash included, but for two handlers at one
\* auction at once: a bid is kept, won or sent back.
THEOREM BidSettledHolds == Spec => BidSettled
<1>1. ASSUME Holding, [Next]_vars, ~raced', crashes' = crashes \/ crashes = 0
      PROVE  \A l \in Lots : Active(l) => BidSafe(l)
  <2>1. CASE Died
    <3>1. crashes' # crashes
      BY <2>1, StoreAssumption, <1>1 DEF Died, Restart, Holding, Sound
    <3>2. Reliable
      BY <1>1, <3>1, RacedStays DEF Holding, Reliable
    <3> QED  BY <1>1, <2>1, <3>2, DiedSafe DEF Holding
  <2>2. CASE \E paid : Went(paid)
    BY <2>2 DEF Went
  <2> QED  BY <1>1, <2>1, <2>2, StepWent DEF Holding
<1>2. Holding /\ [Next]_vars =>
        ((~raced' /\ (crashes' = crashes \/ crashes = 0)) =>
          \A l \in Lots : (Listed(l) /\ ~house[l].pending /\ house[l].bid > 0) =>
            \/ house'[l] # NoLot /\ house'[l].bidder = house[l].bidder
                  /\ (house'[l].pending /\ crashes' = crashes =>
                        \E m \in db'.mail : /\ New(m)
                                            /\ m.to = house[l].bidder /\ m.item = house[l].item)
            \/ \E m \in db'.mail : New(m) /\ m.to = house[l].bidder /\ m.money = house[l].bid)
  BY <1>1 DEF Active, BidSafe, Refunded, New
<1> QED  BY <1>2, Agreement, PTL DEF Spec, BidSettled

\* As long as no item is in two places and no two handlers have met, the item of a COD mail
\* is in nobody's bag before the payment has been sent, not even after a crash.
THEOREM CodPaidHolds == Spec => CodPaid
<1>1. ASSUME Holding, [Next]_vars, crashes = 0, ~raced', NEW m \in db.mail, m.cod > 0,
             NEW p \in Players, m.item \in db'.bag[p]
      PROVE  \E n \in db'.mail : New(n) /\ n.to = m.from /\ n.money = m.cod /\ n.checked = "codPayment"
  <2>1. Sound /\ Reliable /\ Agreed
    BY <1>1, RacedStays DEF Holding, Reliable
  <2>2. m.item \in Items
    <3>1. Sound'
      BY <1>1, <2>1, SoundNext
    <3> QED  BY <1>1, <3>1 DEF Sound, SoundImage
  <2>3. SingleItem(m.item, db.bag, db.mail, db.auction)
    BY <2>1, <2>2 DEF Reliable, Agreed, Single
  <2>4. \A q \in Players : m.item \notin db.bag[q]
    BY <2>3 DEF SingleItem
  <2>5. ~NoGain(db'.bag)
    BY <1>1, <2>4 DEF NoGain
  <2>6. ~Died
    BY <2>1, <2>5, DiedSafe
  <2>7. PICK q \in Players : \E k \in m_mail[q] : Taken(q, k)
    BY <1>1, <2>1, <2>5, <2>6, StepWent DEF Went
  <2>8. PICK k \in m_mail[q] : Taken(q, k)
    BY <2>7
  <2>9. k.item = m.item
    BY <1>1, <2>4, <2>8 DEF Taken
  <2>10. k \in db.mail
    <3>1. m_mail \in Boxes /\ BoxesFit(m_mail, db.mail, 0)
      BY <1>1, <2>1, Fits
    <3> QED  BY <2>8, <3>1, OwnRow DEF Taken
  <2>11. k = m
    BY <2>3, <2>9, <2>10 DEF SingleItem
  <2> QED  BY <1>1, <2>8, <2>11 DEF Taken
<1>2. Holding /\ [Next]_vars =>
        ((crashes = 0 /\ ~raced') => \A m \in db.mail :
          (m.cod > 0 /\ \E p \in Players : m.item \in db'.bag[p]) =>
            \E n \in db'.mail : /\ New(n)
                                /\ n.to = m.from /\ n.money = m.cod /\ n.checked = "codPayment")
  BY <1>1
<1> QED  BY <1>2, Agreement, PTL DEF Spec, CodPaid

-----------------------------------------------------------------------------
(* What an image is worth: sums over players, mail ids and lots. *)

Sum(f, S) == SumFunctionOnSet(f, S)

IdsDiffer(rows) == \A r1, r2 \in rows : r1.id = r2.id => r1 = r2

\* The money of the mail with each id.
Letters(rows) ==
    [i \in MailIds |->
        IF \E r \in rows : r.id = i THEN (CHOOSE r \in rows : r.id = i).money ELSE 0]

Stake(e) == IF e = NoLot THEN 0 ELSE e.bid + e.deposit

Stakes(lots) == [l \in Lots |-> Stake(lots[l])]

Worth(img) ==
    Sum(img.gold, Players) + Sum(Letters(img.mail), MailIds) + Sum(Stakes(img.auction), Lots)
    + img.burned

Counted(img) ==
    SoundImage(img) /\ RowsFit(img.mail) /\ img.burned \in Int /\ img.limbo \in Nat

LEMMA Letter ==
    ASSUME NEW rows \in SUBSET SoundMail, IdsDiffer(rows)
    PROVE  /\ Letters(rows) \in [MailIds -> Nat]
           /\ \A r \in rows : r.id \in MailIds /\ Letters(rows)[r.id] = r.money
           /\ \A i \in MailIds : (\A r \in rows : r.id # i) => Letters(rows)[i] = 0
<1>1. \A r \in rows : r.id \in MailIds /\ r.money \in Nat
  BY DEF SoundMail, Mail
<1>2. ASSUME NEW i \in MailIds, NEW r \in rows, r.id = i
      PROVE  Letters(rows)[i] = r.money
  <2> DEFINE c == CHOOSE x \in rows : x.id = i
  <2>1. c \in rows /\ c.id = i
    BY <1>2
  <2>2. c = r
    BY <1>2, <2>1 DEF IdsDiffer
  <2>3. Letters(rows)[i] = c.money
    BY <1>2 DEF Letters
  <2> QED  BY <2>2, <2>3
<1>3. \A i \in MailIds : (\A r \in rows : r.id # i) => Letters(rows)[i] = 0
  BY DEF Letters
<1>4. \A i \in MailIds : Letters(rows)[i] \in Nat
  BY <1>1, <1>2, <1>3
<1>5. Letters(rows) \in [MailIds -> Nat]
  BY <1>4 DEF Letters
<1> QED  BY <1>1, <1>2, <1>3, <1>5

LEMMA FewMails ==
    ASSUME NEW rows \in SUBSET SoundMail, IdsDiffer(rows)
    PROVE  IsFiniteSet(rows)
<1> DEFINE ids == {r.id : r \in rows}
           f == [i \in ids |-> CHOOSE r \in rows : r.id = i]
<1>1. IsFiniteSet(ids)
  <2>1. ids \subseteq MailIds
    BY DEF SoundMail, Mail
  <2> QED  BY <2>1, FS_Subset, FiniteAssumption
<1>2. \A r \in rows : f[r.id] = r /\ r.id \in ids
  BY DEF IdsDiffer
<1>3. f \in [ids -> rows]
  BY <1>2
<1>4. f \in Surjection(ids, rows)
  BY <1>2, <1>3 DEF Surjection
<1> QED  BY <1>1, <1>4, FS_Surjection

\* MailMoney, the sum over the mails, as a sum of a function.
LEMMA MailMoneySum ==
    ASSUME NEW rows \in SUBSET SoundMail, IsFiniteSet(rows)
    PROVE  MailMoney(rows) = Sum([m \in SoundMail |-> m.money], rows)
<1> DEFINE f == [m \in SoundMail |-> m.money]
<1>1. \A m \in rows : f[m] = m.money /\ f[m] \in Int
  BY MailFields
<1>2. \E g : SumsUp(g, f, rows) /\ MailMoney(rows) = g[rows]
  <2>1. \E g : g = [s \in SUBSET rows |->
                      IF s = {} THEN 0
                      ELSE (CHOOSE x \in s : TRUE).money + g[s \ {CHOOSE x \in s : TRUE}]]
    <3>1. PICK g : SumsUp(g, f, rows)
      BY <1>1, SumsExist
    <3>2. \A s \in SUBSET rows : s # {} => f[CHOOSE x \in s : TRUE] = (CHOOSE x \in s : TRUE).money
      BY <1>1
    <3>3. g = [s \in SUBSET rows |->
                 IF s = {} THEN 0
                 ELSE f[CHOOSE x \in s : TRUE] + g[s \ {CHOOSE x \in s : TRUE}]]
      BY <3>1 DEF SumsUp, Chosen
    <3> HIDE DEF f
    <3>4. g = [s \in SUBSET rows |->
                 IF s = {} THEN 0
                 ELSE (CHOOSE x \in s : TRUE).money + g[s \ {CHOOSE x \in s : TRUE}]]
      BY <3>2, <3>3
    <3> QED  BY <3>4
  <2>2. \E g : /\ g = [s \in SUBSET rows |->
                         IF s = {} THEN 0
                         ELSE (CHOOSE x \in s : TRUE).money + g[s \ {CHOOSE x \in s : TRUE}]]
               /\ MailMoney(rows) = g[rows]
    BY <2>1 DEF MailMoney, MapThenSumSet, MapThenFoldSet
  <2>3. PICK g : /\ g = [s \in SUBSET rows |->
                         IF s = {} THEN 0
                         ELSE (CHOOSE x \in s : TRUE).money + g[s \ {CHOOSE x \in s : TRUE}]]
               /\ MailMoney(rows) = g[rows]
    BY <2>2
  <2>4. \A s \in SUBSET rows : s # {} => f[CHOOSE x \in s : TRUE] = (CHOOSE x \in s : TRUE).money
    BY <1>1
  <2> HIDE DEF f
  <2>5. g = [s \in SUBSET rows |->
               IF s = {} THEN 0
               ELSE f[CHOOSE x \in s : TRUE] + g[s \ {CHOOSE x \in s : TRUE}]]
    BY <2>3, <2>4
  <2> QED  BY <2>3, <2>5 DEF SumsUp, Chosen
<1>3. PICK g : SumsUp(g, f, rows) /\ MailMoney(rows) = g[rows]
  BY <1>2
<1>4. PICK h \in [SUBSET rows -> Int] : SumsUp(h, f, rows) /\ SumFunctionOnSet(f, rows) = h[rows]
  BY <1>1, SumIs
<1>5. \A s \in SUBSET rows : g[s] = h[s]
  BY <1>3, <1>4, SumsUnique
<1> QED  BY <1>3, <1>4, <1>5 DEF Sum

\* ... and as a sum over the ids.
LEMMA MailMoneyIs ==
    ASSUME NEW rows \in SUBSET SoundMail, IdsDiffer(rows)
    PROVE  MailMoney(rows) = Sum(Letters(rows), MailIds)
<1> DEFINE f == [m \in SoundMail |-> m.money]
           Q == {s \in SUBSET rows : SumFunctionOnSet(f, s) = SumFunctionOnSet(Letters(s), MailIds)}
<1>1. IsFiniteSet(rows) /\ IsFiniteSet(MailIds)
  BY FewMails, FiniteAssumption
<1>2. ASSUME NEW s \in SUBSET rows, \A x \in s : s \ {x} \in Q
      PROVE  s \in Q
  <2>0. IsFiniteSet(s) /\ s \in SUBSET SoundMail /\ IdsDiffer(s)
    BY <1>1, FS_Subset DEF IdsDiffer
  <2>1. CASE s = {}
    <3>1. Letters(s) \in [MailIds -> Nat] /\ \A i \in MailIds : Letters(s)[i] = 0
      BY <2>0, <2>1, Letter
    <3> DEFINE z == [i \in MailIds |-> 0]
               a == SumFunctionOnSet(z, MailIds)
    <3>2. a \in Int /\ a = a + a
      <4>1. \A i \in MailIds : z[i] \in Int /\ z[i] = z[i] + z[i]
        OBVIOUS
      <4> HIDE DEF z
      <4> QED  BY <1>1, <4>1, SumAdd, SumSame
    <3>3. a = 0
      <4> HIDE DEF a
      <4> QED  BY <3>2
    <3>4. SumFunctionOnSet(Letters(s), MailIds) = a
      <4>1. \A i \in MailIds : Letters(s)[i] = z[i] /\ z[i] \in Int
        BY <3>1
      <4> HIDE DEF z
      <4> QED  BY <1>1, <4>1, SumSame
    <3> QED  BY <2>1, <3>3, <3>4, SumEmpty
  <2>2. CASE s # {}
    <3>1. PICK x \in s : TRUE
      BY <2>2
    <3> DEFINE t == s \ {x}
               ls == Letters(s)
               lt == Letters(t)
    <3>2. t \in SUBSET SoundMail /\ IdsDiffer(t)
      BY <2>0 DEF IdsDiffer
    <3>3. /\ ls \in [MailIds -> Nat] /\ lt \in [MailIds -> Nat] /\ x.id \in MailIds
          /\ ls[x.id] = x.money /\ lt[x.id] = 0
      <4>1. \A r \in t : r.id # x.id
        BY <2>0 DEF IdsDiffer
      <4> QED  BY <2>0, <3>1, <3>2, <4>1, Letter
    <3>4. \A i \in MailIds \ {x.id} : ls[i] = lt[i]
      <4> SUFFICES ASSUME NEW i \in MailIds, i # x.id
                   PROVE  ls[i] = lt[i]
        OBVIOUS
      <4>1. CASE \E r \in t : r.id = i
        BY <2>0, <3>2, <4>1, Letter
      <4>2. CASE ~\E r \in t : r.id = i
        <5>1. \A r \in s : r.id # i
          BY <4>2
        <5> QED  BY <2>0, <3>2, <4>2, <5>1, Letter
      <4> QED  BY <4>1, <4>2
    <3> HIDE DEF ls, lt
    <3>5. SumFunctionOnSet(ls, MailIds) = SumFunctionOnSet(lt, MailIds) + ls[x.id] - lt[x.id]
      <4>1. \A i \in MailIds : ls[i] \in Int /\ lt[i] \in Int
        BY <3>3
      <4>2. \A i \in MailIds \ {x.id} : lt[i] = ls[i]
        BY <3>4
      <4> QED  BY <1>1, <3>3, <4>1, <4>2, SumChange
    <3>6. SumFunctionOnSet(f, s) = x.money + SumFunctionOnSet(f, t)
      <4>1. \A m \in s : f[m] \in Int /\ f[m] = m.money
        BY <2>0, MailFields
      <4> HIDE DEF f
      <4>2. SumFunctionOnSet(f, s) = f[x] + SumFunctionOnSet(f, t)
        BY <2>0, <4>1, SumRemove
      <4> QED  BY <4>1, <4>2
    <3>7. SumFunctionOnSet(f, t) = SumFunctionOnSet(lt, MailIds)
      BY <1>2 DEF lt
    <3>8. SumFunctionOnSet(lt, MailIds) \in Int /\ x.money \in Int
      <4>1. \A i \in MailIds : lt[i] \in Int
        BY <3>3
      <4>2. x.money \in Int
        BY <2>0, MailFields
      <4> QED  BY <1>1, <4>1, <4>2, SumSame
    <3>9. SumFunctionOnSet(f, s) = SumFunctionOnSet(ls, MailIds)
      <4> DEFINE a == SumFunctionOnSet(lt, MailIds)
      <4> HIDE DEF a
      <4>1. a \in Int /\ x.money \in Int /\ SumFunctionOnSet(ls, MailIds) = a + x.money - 0
        BY <3>3, <3>5, <3>8 DEF a
      <4>2. SumFunctionOnSet(f, s) = x.money + a
        BY <3>6, <3>7 DEF a
      <4> QED  BY <4>1, <4>2
    <3> QED  BY <3>9 DEF ls
  <2> QED  BY <2>1, <2>2
<1>3. SUBSET rows \subseteq Q
  <2> HIDE DEF Q
  <2>1. \A s \in SUBSET rows : (\A y \in s : s \ {y} \in Q) => s \in Q
    BY <1>2
  <2> QED  BY <1>1, <2>1, SubsetInduct
<1>4. SumFunctionOnSet(f, rows) = SumFunctionOnSet(Letters(rows), MailIds)
  BY <1>3
<1> QED  BY <1>1, <1>4, MailMoneySum DEF Sum

-----------------------------------------------------------------------------
(* What changes the worth of an image. *)

\* The summands are numbers.
LEMMA Sums ==
    ASSUME NEW img, Counted(img)
    PROVE  /\ Sum(img.gold, Players) \in Int /\ Sum(Letters(img.mail), MailIds) \in Int
           /\ Sum(Stakes(img.auction), Lots) \in Int /\ img.burned \in Int /\ Worth(img) \in Int
           /\ \A p \in Players : img.gold[p] \in Int
           /\ \A i \in MailIds : Letters(img.mail)[i] \in Int
           /\ \A l \in Lots : Stake(img.auction[l]) \in Int /\ Stakes(img.auction)[l] = Stake(img.auction[l])
           /\ img.mail \in SUBSET SoundMail /\ IdsDiffer(img.mail)
<1>1. /\ img.gold \in [Players -> Money] /\ img.mail \in SUBSET SoundMail
      /\ img.auction \in [Lots -> SoundEntry \cup {NoLot}]
      /\ img.burned \in Int /\ IdsDiffer(img.mail)
  BY DEF Counted, SoundImage, RowsFit, IdsDiffer
<1>2. \A p \in Players : img.gold[p] \in Int
  BY <1>1, StoreAssumption DEF Money
<1>3. \A i \in MailIds : Letters(img.mail)[i] \in Int
  BY <1>1, Letter
<1>4. \A l \in Lots : Stake(img.auction[l]) \in Int /\ Stakes(img.auction)[l] = Stake(img.auction[l])
  <2> TAKE l \in Lots
  <2>1. img.auction[l] \in SoundEntry \cup {NoLot}
    BY <1>1
  <2>2. \A e \in SoundEntry : e.bid \in Int /\ e.deposit \in Int
    BY StoreAssumption DEF SoundEntry, AuctionEntry, Money
  <2> QED  BY <2>1, <2>2 DEF Stake, Stakes
<1>5. /\ Sum(img.gold, Players) \in Int /\ Sum(Letters(img.mail), MailIds) \in Int
      /\ Sum(Stakes(img.auction), Lots) \in Int
  BY <1>2, <1>3, <1>4, FiniteAssumption, SumSame DEF Sum
<1> QED  BY <1>1, <1>2, <1>3, <1>4, <1>5 DEF Worth

SameGold(a, b) == \A p \in Players : b.gold[p] = a.gold[p]

SameMoney(rows, rows2) == \A i \in MailIds : Letters(rows2)[i] = Letters(rows)[i]

SameStakes(a, b) == \A l \in Lots : Stake(b.auction[l]) = Stake(a.auction[l])

LEMMA SameSums ==
    ASSUME NEW a, Counted(a), NEW b, Counted(b)
    PROVE  /\ SameGold(a, b) => Sum(b.gold, Players) = Sum(a.gold, Players)
           /\ SameMoney(a.mail, b.mail) =>
                Sum(Letters(b.mail), MailIds) = Sum(Letters(a.mail), MailIds)
           /\ SameStakes(a, b) => Sum(Stakes(b.auction), Lots) = Sum(Stakes(a.auction), Lots)
<1>1. ASSUME SameGold(a, b)
      PROVE  Sum(b.gold, Players) = Sum(a.gold, Players)
  <2>1. \A p \in Players : a.gold[p] \in Int /\ a.gold[p] = b.gold[p]
    BY <1>1, Sums DEF SameGold
  <2> QED  BY <2>1, FiniteAssumption, SumSame DEF Sum
<1>2. ASSUME SameMoney(a.mail, b.mail)
      PROVE  Sum(Letters(b.mail), MailIds) = Sum(Letters(a.mail), MailIds)
  <2>1. \A i \in MailIds : Letters(a.mail)[i] \in Int /\ Letters(a.mail)[i] = Letters(b.mail)[i]
    BY <1>2, Sums DEF SameMoney
  <2> QED  BY <2>1, FiniteAssumption, SumSame DEF Sum
<1>3. ASSUME SameStakes(a, b)
      PROVE  Sum(Stakes(b.auction), Lots) = Sum(Stakes(a.auction), Lots)
  <2>1. \A l \in Lots : Stakes(a.auction)[l] \in Int /\ Stakes(a.auction)[l] = Stakes(b.auction)[l]
    BY <1>3, Sums DEF SameStakes
  <2> QED  BY <2>1, FiniteAssumption, SumSame DEF Sum
<1> QED  BY <1>1, <1>2, <1>3

\* The same purses, mails and stakes.
LEMMA SameWorth ==
    ASSUME NEW a, Counted(a), NEW b, Counted(b),
           SameGold(a, b), SameMoney(a.mail, b.mail), SameStakes(a, b)
    PROVE  Worth(b) = Worth(a) + b.burned - a.burned
<1> DEFINE x == Sum(a.gold, Players)
           y == Sum(Letters(a.mail), MailIds)
           z == Sum(Stakes(a.auction), Lots)
<1>1. x \in Int /\ y \in Int /\ z \in Int /\ a.burned \in Int /\ b.burned \in Int
  BY Sums
<1>2. Worth(a) = x + y + z + a.burned /\ Worth(b) = x + y + z + b.burned
  BY SameSums DEF Worth
<1> HIDE DEF x, y, z
<1> QED  BY <1>1, <1>2

\* One purse changes.
LEMMA PurseWorth ==
    ASSUME NEW a, Counted(a), NEW b, Counted(b), NEW p \in Players,
           \A q \in Players \ {p} : b.gold[q] = a.gold[q],
           SameMoney(a.mail, b.mail), SameStakes(a, b), b.burned = a.burned
    PROVE  Worth(b) = Worth(a) + b.gold[p] - a.gold[p]
<1> DEFINE x == Sum(a.gold, Players)
           y == Sum(Letters(a.mail), MailIds)
           z == Sum(Stakes(a.auction), Lots)
<1>1. Sum(b.gold, Players) = x + b.gold[p] - a.gold[p]
  <2>1. \A q \in Players : a.gold[q] \in Int /\ b.gold[q] \in Int
    BY Sums
  <2>2. \A q \in Players \ {p} : a.gold[q] = b.gold[q]
    OBVIOUS
  <2> QED  BY <2>1, <2>2, FiniteAssumption, SumChange DEF Sum
<1>2. x \in Int /\ y \in Int /\ z \in Int /\ a.burned \in Int /\ b.gold[p] \in Int /\ a.gold[p] \in Int
  BY Sums
<1>3. Worth(a) = x + y + z + a.burned /\ Worth(b) = (x + b.gold[p] - a.gold[p]) + y + z + a.burned
  BY <1>1, SameSums DEF Worth
<1> HIDE DEF x, y, z
<1> QED  BY <1>2, <1>3

\* The money under one mail id changes.
LEMMA LetterWorth ==
    ASSUME NEW a, Counted(a), NEW b, Counted(b), NEW id \in MailIds,
           \A i \in MailIds \ {id} : Letters(b.mail)[i] = Letters(a.mail)[i],
           SameGold(a, b), SameStakes(a, b), b.burned = a.burned
    PROVE  Worth(b) = Worth(a) + Letters(b.mail)[id] - Letters(a.mail)[id]
<1> DEFINE x == Sum(a.gold, Players)
           y == Sum(Letters(a.mail), MailIds)
           z == Sum(Stakes(a.auction), Lots)
           m == Letters(a.mail)[id]
           n == Letters(b.mail)[id]
<1>1. Sum(Letters(b.mail), MailIds) = y + n - m
  <2>1. \A i \in MailIds : Letters(a.mail)[i] \in Int /\ Letters(b.mail)[i] \in Int
    BY Sums
  <2>2. \A i \in MailIds \ {id} : Letters(a.mail)[i] = Letters(b.mail)[i]
    OBVIOUS
  <2> QED  BY <2>1, <2>2, FiniteAssumption, SumChange DEF Sum
<1>2. x \in Int /\ y \in Int /\ z \in Int /\ a.burned \in Int /\ m \in Int /\ n \in Int
  BY Sums
<1>3. Worth(a) = x + y + z + a.burned /\ Worth(b) = x + (y + n - m) + z + a.burned
  BY <1>1, SameSums DEF Worth
<1> HIDE DEF x, y, z, m, n
<1>4. Worth(b) = Worth(a) + n - m
  BY <1>2, <1>3
<1> QED  BY <1>4 DEF m, n

\* The money staked in one lot changes.
LEMMA StakeWorth ==
    ASSUME NEW a, Counted(a), NEW b, Counted(b), NEW l \in Lots,
           \A k \in Lots \ {l} : b.auction[k] = a.auction[k],
           SameGold(a, b), SameMoney(a.mail, b.mail), b.burned = a.burned
    PROVE  Worth(b) = Worth(a) + Stake(b.auction[l]) - Stake(a.auction[l])
<1> DEFINE x == Sum(a.gold, Players)
           y == Sum(Letters(a.mail), MailIds)
           z == Sum(Stakes(a.auction), Lots)
           m == Stake(a.auction[l])
           n == Stake(b.auction[l])
<1>1. Sum(Stakes(b.auction), Lots) = z + n - m
  <2>1. \A k \in Lots : Stakes(a.auction)[k] \in Int /\ Stakes(b.auction)[k] \in Int
    BY Sums
  <2>2. \A k \in Lots \ {l} : Stakes(a.auction)[k] = Stakes(b.auction)[k]
    BY Sums
  <2>3. Stakes(a.auction)[l] = m /\ Stakes(b.auction)[l] = n
    BY Sums
  <2> QED  BY <2>1, <2>2, <2>3, FiniteAssumption, SumChange DEF Sum
<1>2. x \in Int /\ y \in Int /\ z \in Int /\ a.burned \in Int /\ m \in Int /\ n \in Int
  BY Sums
<1>3. Worth(a) = x + y + z + a.burned /\ Worth(b) = x + y + (z + n - m) + a.burned
  BY <1>1, SameSums DEF Worth
<1> HIDE DEF x, y, z, m, n
<1>4. Worth(b) = Worth(a) + n - m
  BY <1>2, <1>3
<1> QED  BY <1>4 DEF m, n

-----------------------------------------------------------------------------
(* What the statements are worth. *)

\* Image b is worth n more than a.
Becomes(a, b, n) == Counted(b) /\ Worth(b) = Worth(a) + n /\ b.limbo = a.limbo

LEMMA GoldSaved ==
    ASSUME NEW img, Counted(img), NEW p \in Players, NEW g \in Money, NEW b \in SUBSET Items
    PROVE  /\ Becomes(img, SaveGold(img, p, g), g - img.gold[p])
           /\ Becomes(img, SaveInventoryAndGold(img, p, g, b), g - img.gold[p])
<1> SUFFICES ASSUME NEW s, s \in {SaveGold(img, p, g), SaveInventoryAndGold(img, p, g, b)}
             PROVE  Becomes(img, s, g - img.gold[p])
  OBVIOUS
<1>1. SoundImage(img) /\ img.gold \in [Players -> Money]
      /\ img = [gold |-> img.gold, bag |-> img.bag, mail |-> img.mail, auction |-> img.auction,
                burned |-> img.burned, limbo |-> img.limbo]
  BY DEF Counted, SoundImage
<1>2. /\ s.gold = [img.gold EXCEPT ![p] = g] /\ s.mail = img.mail /\ s.auction = img.auction
      /\ s.burned = img.burned /\ s.limbo = img.limbo
  BY <1>1 DEF SaveGold, SaveInventoryAndGold
<1>3. SoundImage(s)
  BY <1>1, SaveGoldSound, SaveInventoryAndGoldSound
<1>4. Counted(s)
  BY <1>2, <1>3 DEF Counted
<1>5. Worth(s) = Worth(img) + s.gold[p] - img.gold[p] /\ s.gold[p] = g
  <2>1. (\A q \in Players \ {p} : s.gold[q] = img.gold[q]) /\ s.gold[p] = g
    BY <1>1, <1>2
  <2>2. SameMoney(img.mail, s.mail) /\ SameStakes(img, s) /\ s.burned = img.burned
    BY <1>2 DEF SameMoney, SameStakes
  <2>3. Worth(s) = Worth(img) + s.gold[p] - img.gold[p]
    BY <1>4, <2>1, <2>2, PurseWorth
  <2> QED  BY <2>1, <2>3
<1>6. Worth(img) \in Int /\ img.gold[p] \in Int /\ g \in Int
  BY Sums, StoreAssumption DEF Money
<1> QED  BY <1>2, <1>4, <1>5, <1>6 DEF Becomes

LEMMA Burned ==
    ASSUME NEW img, Counted(img), NEW n \in Int
    PROVE  Becomes(img, Burn(img, n), n)
<1> DEFINE s == Burn(img, n)
<1>1. SoundImage(img) /\ img.burned \in Int
      /\ img = [gold |-> img.gold, bag |-> img.bag, mail |-> img.mail, auction |-> img.auction,
                burned |-> img.burned, limbo |-> img.limbo]
  BY DEF Counted, SoundImage
<1>2. /\ s.gold = img.gold /\ s.mail = img.mail /\ s.auction = img.auction
      /\ s.burned = img.burned + n /\ s.limbo = img.limbo
  BY <1>1 DEF Burn
<1>3. SoundImage(s)
  BY <1>1, BurnSound
<1> HIDE DEF s
<1>4. Counted(s)
  BY <1>1, <1>2, <1>3 DEF Counted
<1>5. Worth(s) = Worth(img) + s.burned - img.burned
  BY <1>2, <1>4, SameWorth DEF SameGold, SameMoney, SameStakes
<1>6. Worth(img) \in Int
  BY Sums
<1> QED  BY <1>1, <1>2, <1>4, <1>5, <1>6 DEF Becomes, s

\* Rows differ in the mails of one id.
LEMMA OtherLetters ==
    ASSUME NEW rows \in SUBSET SoundMail, IdsDiffer(rows),
           NEW rows2 \in SUBSET SoundMail, IdsDiffer(rows2), NEW id,
           \A r \in rows : r.id # id => r \in rows2, \A r \in rows2 : r.id # id => r \in rows
    PROVE  \A i \in MailIds \ {id} : Letters(rows2)[i] = Letters(rows)[i]
<1> TAKE i \in MailIds \ {id}
<1>1. CASE \E r \in rows : r.id = i
  BY <1>1, Letter
<1>2. CASE ~\E r \in rows : r.id = i
  <2>1. \A r \in rows2 : r.id # i
    BY <1>2
  <2> QED  BY <1>2, <2>1, Letter
<1> QED  BY <1>1, <1>2

LEMMA Inserted ==
    ASSUME NEW img, Counted(img), NEW m \in SoundMail, ~m.deleted, \A r \in img.mail : r.id # m.id
    PROVE  Becomes(img, InsertMails(img, {m}), m.money)
<1> DEFINE s == InsertMails(img, {m})
<1>1. SoundImage(img) /\ RowsFit(img.mail)
      /\ img = [gold |-> img.gold, bag |-> img.bag, mail |-> img.mail, auction |-> img.auction,
                burned |-> img.burned, limbo |-> img.limbo]
  BY DEF Counted, SoundImage
<1>2. /\ s.gold = img.gold /\ s.mail = img.mail \cup {m} /\ s.auction = img.auction
      /\ s.burned = img.burned /\ s.limbo = img.limbo
  BY <1>1 DEF InsertMails
<1>3. SoundImage(s)
  BY <1>1, InsertMailsSound
<1> HIDE DEF s
<1>4. RowsFit(s.mail)
  BY <1>1, <1>2 DEF RowsFit
<1>5. Counted(s)
  BY <1>2, <1>3, <1>4 DEF Counted
<1>6. Letters(s.mail)[m.id] = m.money /\ Letters(img.mail)[m.id] = 0 /\ m.id \in MailIds
  <2>1. m \in s.mail /\ s.mail \in SUBSET SoundMail /\ IdsDiffer(s.mail)
    BY <1>2, <1>5, Sums
  <2>2. Letters(s.mail)[m.id] = m.money /\ m.id \in MailIds
    BY <2>1, Letter
  <2> QED  BY <2>2, Sums, Letter
<1>7. \A i \in MailIds \ {m.id} : Letters(s.mail)[i] = Letters(img.mail)[i]
  <2>1. /\ img.mail \in SUBSET SoundMail /\ IdsDiffer(img.mail)
        /\ s.mail \in SUBSET SoundMail /\ IdsDiffer(s.mail)
    BY <1>5, Sums
  <2> QED  BY <1>2, <2>1, OtherLetters
<1>8. Worth(s) = Worth(img) + Letters(s.mail)[m.id] - Letters(img.mail)[m.id]
  <2>1. SameGold(img, s) /\ SameStakes(img, s) /\ s.burned = img.burned
    BY <1>2 DEF SameGold, SameStakes
  <2>2. m.id \in MailIds
    BY <1>6
  <2> QED  BY <1>5, <1>7, <2>1, <2>2, LetterWorth
<1>9. Worth(img) \in Int /\ m.money \in Int
  BY Sums, MailFields
<1> QED  BY <1>2, <1>5, <1>6, <1>8, <1>9 DEF Becomes, s

LEMMA NothingInserted ==
    ASSUME NEW img, Counted(img)
    PROVE  InsertMails(img, {}) = img
  BY DEF InsertMails, Counted, SoundImage

LEMMA MailDeleted ==
    ASSUME NEW img, Counted(img), NEW m \in img.mail
    PROVE  Becomes(img, DeleteMail(img, m.id), 0 - m.money)
<1> DEFINE s == DeleteMail(img, m.id)
<1>1. SoundImage(img) /\ RowsFit(img.mail)
      /\ img = [gold |-> img.gold, bag |-> img.bag, mail |-> img.mail, auction |-> img.auction,
                burned |-> img.burned, limbo |-> img.limbo]
  BY DEF Counted, SoundImage
<1>2. /\ s.gold = img.gold /\ s.mail = {r \in img.mail : r.id # m.id} /\ s.auction = img.auction
      /\ s.burned = img.burned /\ s.limbo = img.limbo
  BY <1>1 DEF DeleteMail
<1>3. SoundImage(s)
  BY <1>1, DeleteMailSound
<1> HIDE DEF s
<1>4. RowsFit(s.mail)
  BY <1>1, <1>2 DEF RowsFit
<1>5. Counted(s)
  BY <1>2, <1>3, <1>4 DEF Counted, RowsFit
<1>6. /\ img.mail \in SUBSET SoundMail /\ IdsDiffer(img.mail)
      /\ s.mail \in SUBSET SoundMail /\ IdsDiffer(s.mail)
  BY <1>5, Sums
<1>7. Letters(s.mail)[m.id] = 0 /\ Letters(img.mail)[m.id] = m.money /\ m.id \in MailIds
  <2>1. m.id \in MailIds /\ Letters(img.mail)[m.id] = m.money
    BY <1>6, Letter
  <2>2. \A r \in s.mail : r.id # m.id
    BY <1>2
  <2> QED  BY <1>6, <2>1, <2>2, Letter
<1>8. \A i \in MailIds \ {m.id} : Letters(s.mail)[i] = Letters(img.mail)[i]
  BY <1>2, <1>6, OtherLetters
<1>9. Worth(s) = Worth(img) + Letters(s.mail)[m.id] - Letters(img.mail)[m.id]
  <2>1. SameGold(img, s) /\ SameStakes(img, s) /\ s.burned = img.burned
    BY <1>2 DEF SameGold, SameStakes
  <2>2. m.id \in MailIds
    BY <1>7
  <2> QED  BY <1>5, <1>8, <2>1, <2>2, LetterWorth
<1>10. Worth(img) \in Int /\ m.money \in Int
  BY <1>6, Sums, MailFields
<1> QED  BY <1>2, <1>5, <1>7, <1>9, <1>10 DEF Becomes, s

LEMMA LotSaved ==
    ASSUME NEW img, Counted(img), NEW l \in Lots, NEW row \in SoundEntry \cup {NoLot}
    PROVE  Becomes(img, [img EXCEPT !.auction[l] = row], Stake(row) - Stake(img.auction[l]))
<1> DEFINE s == [img EXCEPT !.auction[l] = row]
<1>1. SoundImage(img) /\ RowsFit(img.mail) /\ img.auction \in [Lots -> SoundEntry \cup {NoLot}]
      /\ img = [gold |-> img.gold, bag |-> img.bag, mail |-> img.mail, auction |-> img.auction,
                burned |-> img.burned, limbo |-> img.limbo]
  BY DEF Counted, SoundImage
<1>2. /\ s.gold = img.gold /\ s.mail = img.mail /\ s.auction = [img.auction EXCEPT ![l] = row]
      /\ s.burned = img.burned /\ s.limbo = img.limbo
  BY <1>1
<1>3. SoundImage(s)
  BY <1>1 DEF SoundImage
<1> HIDE DEF s
<1>4. Counted(s)
  BY <1>2, <1>3 DEF Counted
<1>5. s.auction[l] = row /\ \A k \in Lots \ {l} : s.auction[k] = img.auction[k]
  BY <1>1, <1>2
<1>6. Worth(s) = Worth(img) + Stake(s.auction[l]) - Stake(img.auction[l])
  <2>1. SameGold(img, s) /\ SameMoney(img.mail, s.mail) /\ s.burned = img.burned
    BY <1>2 DEF SameGold, SameMoney
  <2>2. \A k \in Lots \ {l} : s.auction[k] = img.auction[k]
    BY <1>5
  <2> QED  BY <1>4, <2>1, <2>2, StakeWorth
<1>7. Worth(img) \in Int /\ Stake(img.auction[l]) \in Int /\ Stake(s.auction[l]) \in Int
  BY <1>4, Sums
<1> QED  BY <1>2, <1>4, <1>5, <1>6, <1>7 DEF Becomes, s

LEMMA AuctionSaved ==
    ASSUME NEW img, Counted(img), NEW l \in Lots, NEW e \in SoundEntry
    PROVE  /\ Becomes(img, SaveAuction(img, l, e), (e.bid + e.deposit) - Stake(img.auction[l]))
           /\ Becomes(img, DeleteAuction(img, l), 0 - Stake(img.auction[l]))
<1>1. e # NoLot
  BY NoLotAssumption DEF SoundEntry
<1>2. Stake(e) = e.bid + e.deposit /\ Stake(NoLot) = 0
  BY <1>1 DEF Stake
<1> DEFINE a == SaveAuction(img, l, e)
           b == DeleteAuction(img, l)
<1>3. Becomes(img, a, Stake(e) - Stake(img.auction[l]))
  BY LotSaved DEF SaveAuction
<1>4. Becomes(img, b, Stake(NoLot) - Stake(img.auction[l]))
  BY LotSaved DEF DeleteAuction
<1> HIDE DEF a, b
<1>5. Becomes(img, a, (e.bid + e.deposit) - Stake(img.auction[l]))
  BY <1>2, <1>3
<1>6. Becomes(img, b, 0 - Stake(img.auction[l]))
  BY <1>2, <1>4 DEF Becomes
<1> QED  BY <1>5, <1>6 DEF a, b

\* The rows keep their ids and money, whatever items are destroyed.
LEMMA ItemsDestroyed ==
    ASSUME NEW img, Counted(img), NEW items
    PROVE  Becomes(img, DestroyItems(img, items), 0)
<1> DEFINE s == DestroyItems(img, items)
<1>1. SoundImage(img) /\ RowsFit(img.mail) /\ img.auction \in [Lots -> SoundEntry \cup {NoLot}]
      /\ img.mail \in SUBSET SoundMail
      /\ img = [gold |-> img.gold, bag |-> img.bag, mail |-> img.mail, auction |-> img.auction,
                burned |-> img.burned, limbo |-> img.limbo]
  BY DEF Counted, SoundImage
<1>2. s.burned = img.burned /\ s.limbo = img.limbo
  BY <1>1 DEF DestroyItems
<1>3. SoundImage(s) /\ s.gold = img.gold /\ s.mail = Sheared(img.mail, items)
  BY <1>1, DestroyItemsSound, DestroyItemsFields
<1>4. \A l \in Lots : Stake(s.auction[l]) = Stake(img.auction[l])
  <2> TAKE l \in Lots
  <2> DEFINE e == img.auction[l]
  <2>1. s.auction[l] = IF InLot(img.auction, l, e.item) /\ e.item \in items
                       THEN [e EXCEPT !.item = NoItem] ELSE e
    BY <1>1, DestroyItemsFields
  <2>2. CASE e = NoLot
    BY <2>1, <2>2 DEF InLot
  <2>3. CASE e # NoLot
    <3>1. e \in SoundEntry /\ [e EXCEPT !.item = NoItem] \in SoundEntry
      BY <1>1, <2>3, WithoutItem
    <3>2. [e EXCEPT !.item = NoItem] # NoLot
      BY <3>1, NoLotAssumption DEF SoundEntry
    <3>3. [e EXCEPT !.item = NoItem].bid = e.bid /\ [e EXCEPT !.item = NoItem].deposit = e.deposit
      BY <3>1 DEF SoundEntry, AuctionEntry
    <3> QED  BY <2>1, <2>3, <3>2, <3>3 DEF Stake
  <2> QED  BY <2>2, <2>3
<1> HIDE DEF s
<1>5. \A r \in img.mail : Shorn(r).id = r.id /\ Shorn(r).money = r.money /\ Shorn(r).deleted = r.deleted
  BY <1>1 DEF Shorn, SoundMail, Mail
<1>6. RowsFit(s.mail)
  BY <1>1, <1>3, <1>5 DEF RowsFit, Sheared
<1>7. Counted(s)
  BY <1>2, <1>3, <1>6 DEF Counted
<1>8. SameMoney(img.mail, s.mail)
  <2>1. /\ img.mail \in SUBSET SoundMail /\ IdsDiffer(img.mail)
        /\ s.mail \in SUBSET SoundMail /\ IdsDiffer(s.mail)
    BY <1>7, Sums
  <2>2. \A r \in img.mail : \E x \in s.mail : x.id = r.id /\ x.money = r.money
    BY <1>3, <1>5 DEF Sheared
  <2>3. \A x \in s.mail : \E r \in img.mail : x.id = r.id
    BY <1>3, <1>5 DEF Sheared
  <2> SUFFICES ASSUME NEW i \in MailIds PROVE Letters(s.mail)[i] = Letters(img.mail)[i]
    BY DEF SameMoney
  <2>4. CASE \E r \in img.mail : r.id = i
    BY <2>1, <2>2, <2>4, Letter
  <2>5. CASE ~\E r \in img.mail : r.id = i
    <3>1. \A x \in s.mail : x.id # i
      BY <2>3, <2>5
    <3> QED  BY <2>1, <2>5, <3>1, Letter
  <2> QED  BY <2>4, <2>5
<1>9. Worth(s) = Worth(img) + s.burned - img.burned
  <2>1. SameGold(img, s) /\ SameStakes(img, s)
    BY <1>3, <1>4 DEF SameGold, SameStakes
  <2> QED  BY <1>7, <1>8, <2>1, SameWorth
<1>10. Worth(img) \in Int /\ img.burned \in Int
  BY Sums
<1> QED  BY <1>2, <1>7, <1>9, <1>10 DEF Becomes, s

LEMMA BagSaved ==
    ASSUME NEW img, Counted(img), NEW p \in Players, NEW b \in SUBSET Items
    PROVE  Becomes(img, [img EXCEPT !.bag[p] = b], 0)
<1> DEFINE s == [img EXCEPT !.bag[p] = b]
<1>1. SoundImage(img)
      /\ img = [gold |-> img.gold, bag |-> img.bag, mail |-> img.mail, auction |-> img.auction,
                burned |-> img.burned, limbo |-> img.limbo]
  BY DEF Counted, SoundImage
<1>2. /\ s.gold = img.gold /\ s.mail = img.mail /\ s.auction = img.auction
      /\ s.burned = img.burned /\ s.limbo = img.limbo
  BY <1>1
<1>3. SoundImage(s)
  BY <1>1 DEF SoundImage
<1> HIDE DEF s
<1>4. Counted(s)
  BY <1>2, <1>3 DEF Counted
<1>5. Worth(s) = Worth(img) + s.burned - img.burned
  BY <1>2, <1>4, SameWorth DEF SameGold, SameMoney, SameStakes
<1>6. Worth(img) \in Int /\ img.burned \in Int
  BY Sums
<1> QED  BY <1>2, <1>4, <1>5, <1>6 DEF Becomes, s

-----------------------------------------------------------------------------
(* A mailbox is saved: the money of each of its mails is in the row or burned. *)

Written(rows, box) ==
    [i \in MailIds |-> IF \E k \in box : k.id = i THEN Letters(box)[i] ELSE Letters(rows)[i]]

LEMMA WrittenLetters ==
    ASSUME NEW rows \in SUBSET SoundMail, RowsFit(rows),
           NEW box \in SUBSET SoundMail, IdsDiffer(box), \A k \in box : \E r \in rows : r.id = k.id
    PROVE  /\ Rewritten(rows, box) \in SUBSET SoundMail /\ RowsFit(Rewritten(rows, box))
           /\ \A i \in MailIds :
                Written(rows, box)[i] = Letters(Rewritten(rows, box))[i]
                                        + Letters({k \in box : k.deleted})[i]
<1> DEFINE rows2 == Rewritten(rows, box)
           gone == {k \in box : k.deleted}
<1>1. /\ \A r \in rows2 : \/ r \in rows /\ \A k \in box : k.id # r.id
                          \/ r \in box /\ ~r.deleted
      /\ \A r \in rows : (\A k \in box : k.id # r.id) => r \in rows2
      /\ \A k \in box : ~k.deleted => k \in rows2
  BY DEF Rewritten, Kept
<1>2. \A k \in gone : k \in box /\ k.deleted
  OBVIOUS
<1>3. \A k \in box : k.deleted => k \in gone
  OBVIOUS
<1> HIDE DEF rows2, gone
<1>4. IdsDiffer(rows) /\ rows2 \in SUBSET SoundMail /\ RowsFit(rows2) /\ IdsDiffer(rows2)
      /\ gone \in SUBSET SoundMail /\ IdsDiffer(gone)
  BY <1>1, <1>2 DEF RowsFit, IdsDiffer
<1>5. ASSUME NEW i \in MailIds
      PROVE  Written(rows, box)[i] = Letters(rows2)[i] + Letters(gone)[i]
  <2>1. CASE \E k \in box : k.id = i
    <3>1. PICK k \in box : k.id = i
      BY <2>1
    <3>2. Written(rows, box)[i] = k.money /\ k.money \in Nat
      BY <2>1, <3>1, Letter, MailFields DEF Written
    <3>3. CASE k.deleted
      <4>1. Letters(gone)[i] = k.money
        BY <1>3, <1>4, <3>1, <3>3, Letter
      <4>2. \A r \in rows2 : r.id # i
        BY <1>1, <3>1, <3>3 DEF IdsDiffer
      <4>3. Letters(rows2)[i] = 0
        BY <1>4, <4>2, Letter
      <4> QED  BY <3>2, <4>1, <4>3
    <3>4. CASE ~k.deleted
      <4>1. Letters(rows2)[i] = k.money
        BY <1>1, <1>4, <3>1, <3>4, Letter
      <4>2. \A r \in gone : r.id # i
        BY <1>2, <3>1, <3>4 DEF IdsDiffer
      <4>3. Letters(gone)[i] = 0
        BY <1>4, <4>2, Letter
      <4> QED  BY <3>2, <4>1, <4>3
    <3> QED  BY <3>3, <3>4
  <2>2. CASE ~\E k \in box : k.id = i
    <3>1. Written(rows, box)[i] = Letters(rows)[i] /\ Letters(rows)[i] \in Nat
      BY <1>4, <2>2, Letter DEF Written
    <3>2. \A r \in gone : r.id # i
      BY <1>2, <2>2
    <3>3. Letters(gone)[i] = 0
      BY <1>4, <3>2, Letter
    <3>4. Letters(rows2)[i] = Letters(rows)[i]
      <4>1. CASE \E r \in rows : r.id = i
        <5>1. PICK r \in rows : r.id = i
          BY <4>1
        <5>2. r \in rows2
          BY <1>1, <2>2, <5>1
        <5> QED  BY <1>4, <5>1, <5>2, Letter
      <4>2. CASE ~\E r \in rows : r.id = i
        <5>1. \A r \in rows2 : r.id # i
          BY <1>1, <2>2, <4>2
        <5> QED  BY <1>4, <4>2, <5>1, Letter
      <4> QED  BY <4>1, <4>2
    <3> QED  BY <3>1, <3>3, <3>4
  <2> QED  BY <2>1, <2>2
<1> QED  BY <1>4, <1>5 DEF rows2, gone

LEMMA MailSaved ==
    ASSUME NEW img, Counted(img),
           NEW box \in SUBSET SoundMail, IdsDiffer(box), \A k \in box : \E r \in img.mail : r.id = k.id
    PROVE  Becomes(img, SaveMail(img, box),
                   Sum(Written(img.mail, box), MailIds) - Sum(Letters(img.mail), MailIds))
<1> DEFINE gone == {k \in box : k.deleted}
           rows == Rewritten(img.mail, box)
           mid == [img EXCEPT !.mail = rows]
           d == DestroyItems(mid, MailItems(gone))
           s == Burn(d, MailMoney(gone))
           written == Sum(Written(img.mail, box), MailIds)
           old == Sum(Letters(img.mail), MailIds)
           new == Sum(Letters(rows), MailIds)
           burned == MailMoney(gone)
<1>1. SaveMail(img, box) = s
  BY DEF SaveMail, Rewritten
<1>2. /\ SoundImage(img) /\ img.mail \in SUBSET SoundMail /\ RowsFit(img.mail)
      /\ img = [gold |-> img.gold, bag |-> img.bag, mail |-> img.mail, auction |-> img.auction,
                burned |-> img.burned, limbo |-> img.limbo]
  BY DEF Counted, SoundImage
<1>3. rows \in SUBSET SoundMail /\ RowsFit(rows)
      /\ \A i \in MailIds : Written(img.mail, box)[i] = Letters(rows)[i] + Letters(gone)[i]
  BY <1>2, WrittenLetters
<1>4. gone \in SUBSET SoundMail /\ IdsDiffer(gone)
  BY DEF IdsDiffer
<1> HIDE DEF gone, rows
<1>5. /\ mid.gold = img.gold /\ mid.mail = rows /\ mid.auction = img.auction
      /\ mid.burned = img.burned /\ mid.limbo = img.limbo /\ SoundImage(mid)
  BY <1>2, <1>3 DEF SoundImage
<1> HIDE DEF mid
<1>6. Counted(mid)
  BY <1>3, <1>5 DEF Counted
<1>7. burned = Sum(Letters(gone), MailIds) /\ burned \in Int
  <2>1. \A i \in MailIds : Letters(gone)[i] \in Int
    BY <1>4, Letter
  <2>2. burned = Sum(Letters(gone), MailIds)
    BY <1>4, MailMoneyIs
  <2> QED  BY <2>1, <2>2, FiniteAssumption, SumSame DEF Sum
<1>8. new \in Int /\ old \in Int /\ Worth(mid) = Worth(img) + (new - old) /\ Worth(img) \in Int
  <2> DEFINE x == Sum(img.gold, Players)
             z == Sum(Stakes(img.auction), Lots)
  <2>1. x \in Int /\ old \in Int /\ z \in Int /\ img.burned \in Int /\ Worth(img) \in Int
    BY Sums
  <2>2. Sum(Letters(mid.mail), MailIds) \in Int
    BY <1>6, Sums
  <2>3. Worth(mid) = x + new + z + img.burned
    BY <1>5 DEF Worth
  <2>4. Worth(img) = x + old + z + img.burned
    BY DEF Worth
  <2>5. new \in Int
    BY <1>5, <2>2
  <2> HIDE DEF x, z, old, new
  <2> QED  BY <2>1, <2>3, <2>4, <2>5
<1>9. written = new + burned
  <2>1. \A i \in MailIds : Letters(rows)[i] \in Int /\ Letters(gone)[i] \in Int
    BY <1>3, <1>4, Letter DEF RowsFit, IdsDiffer
  <2> QED  BY <1>3, <1>7, <2>1, FiniteAssumption, SumAdd DEF Sum
<1>10. Counted(d) /\ Worth(d) = Worth(mid) /\ d.limbo = img.limbo
  <2>1. Becomes(mid, d, 0) /\ Worth(mid) \in Int
    BY <1>6, ItemsDestroyed, Sums
  <2> QED  BY <1>5, <2>1 DEF Becomes
<1> HIDE DEF d, burned, written, old, new
<1>11. Becomes(d, Burn(d, burned), burned)
  BY <1>7, <1>10, Burned
<1>12. Becomes(img, s, written - old)
  BY <1>7, <1>8, <1>9, <1>10, <1>11 DEF Becomes, burned
<1> QED  BY <1>1, <1>12 DEF written, old

-----------------------------------------------------------------------------
(* The sums of Wealth and InitialWealth. *)

Purses(f) == MapThenSumSet(LAMBDA p : f[p], Players)

LEMMA PursesIs ==
    ASSUME NEW f, \A p \in Players : f[p] \in Int
    PROVE  Purses(f) = Sum(f, Players)
<1>1. PICK g : SumsUp(g, f, Players)
  BY FiniteAssumption, SumsExist
<1>2. \E g2 : /\ g2 = [s \in SUBSET Players |->
                         IF s = {} THEN 0
                         ELSE f[CHOOSE x \in s : TRUE] + g2[s \ {CHOOSE x \in s : TRUE}]]
              /\ Purses(f) = g2[Players]
  BY <1>1 DEF SumsUp, Chosen, Purses, MapThenSumSet, MapThenFoldSet
<1>3. PICK g2 : SumsUp(g2, f, Players) /\ Purses(f) = g2[Players]
  BY <1>2 DEF SumsUp, Chosen
<1>4. PICK h \in [SUBSET Players -> Int] : SumsUp(h, f, Players) /\ SumFunctionOnSet(f, Players) = h[Players]
  BY FiniteAssumption, SumIs
<1>5. \A s \in SUBSET Players : g2[s] = h[s]
  BY <1>3, <1>4, FiniteAssumption, SumsUnique
<1> QED  BY <1>3, <1>4, <1>5 DEF Sum

LotMoneys(lots) ==
    LET LotMoney(l) == IF lots[l] = NoLot THEN 0 ELSE lots[l].bid + lots[l].deposit
    IN MapThenSumSet(LotMoney, Lots)

LEMMA LotMoneysIs ==
    ASSUME NEW lots, \A l \in Lots : Stakes(lots)[l] \in Int
    PROVE  LotMoneys(lots) = Sum(Stakes(lots), Lots)
<1> DEFINE f == Stakes(lots)
<1>1. PICK g : SumsUp(g, f, Lots)
  BY FiniteAssumption, SumsExist
<1>2. \A s \in SUBSET Lots : s # {} =>
        f[CHOOSE x \in s : TRUE]
          = IF lots[CHOOSE x \in s : TRUE] = NoLot THEN 0
            ELSE lots[CHOOSE x \in s : TRUE].bid + lots[CHOOSE x \in s : TRUE].deposit
  BY DEF Stakes, Stake
<1> HIDE DEF f
<1>3. g = [s \in SUBSET Lots |->
             IF s = {} THEN 0
             ELSE (IF lots[CHOOSE x \in s : TRUE] = NoLot THEN 0
                   ELSE lots[CHOOSE x \in s : TRUE].bid + lots[CHOOSE x \in s : TRUE].deposit)
                  + g[s \ {CHOOSE x \in s : TRUE}]]
  <2>1. g = [s \in SUBSET Lots |->
               IF s = {} THEN 0
               ELSE f[CHOOSE x \in s : TRUE] + g[s \ {CHOOSE x \in s : TRUE}]]
    BY <1>1 DEF SumsUp, Chosen
  <2> QED  BY <1>2, <2>1
<1>4. PICK g2 : /\ g2 = [s \in SUBSET Lots |->
                           IF s = {} THEN 0
                           ELSE (IF lots[CHOOSE x \in s : TRUE] = NoLot THEN 0
                                 ELSE lots[CHOOSE x \in s : TRUE].bid
                                      + lots[CHOOSE x \in s : TRUE].deposit)
                                + g2[s \ {CHOOSE x \in s : TRUE}]]
                /\ LotMoneys(lots) = g2[Lots]
  <2>1. \E g2 : g2 = [s \in SUBSET Lots |->
                        IF s = {} THEN 0
                        ELSE (IF lots[CHOOSE x \in s : TRUE] = NoLot THEN 0
                              ELSE lots[CHOOSE x \in s : TRUE].bid
                                   + lots[CHOOSE x \in s : TRUE].deposit)
                             + g2[s \ {CHOOSE x \in s : TRUE}]]
    BY <1>3, Zenon
  <2> QED  BY <2>1, Zenon DEF LotMoneys, MapThenSumSet, MapThenFoldSet
<1>5. g2 = [s \in SUBSET Lots |->
              IF s = {} THEN 0
              ELSE f[CHOOSE x \in s : TRUE] + g2[s \ {CHOOSE x \in s : TRUE}]]
  BY <1>2, <1>4
<1>6. SumsUp(g2, f, Lots)
  BY <1>5 DEF SumsUp, Chosen
<1>7. PICK h \in [SUBSET Lots -> Int] : SumsUp(h, f, Lots) /\ SumFunctionOnSet(f, Lots) = h[Lots]
  <2>1. \A l \in Lots : f[l] \in Int
    BY DEF f
  <2> QED  BY <2>1, FiniteAssumption, SumIs
<1>8. \A s \in SUBSET Lots : g2[s] = h[s]
  BY <1>6, <1>7, FiniteAssumption, SumsUnique
<1> QED  BY <1>4, <1>7, <1>8 DEF Sum, f

LEMMA WealthIs ==
    /\ Counted(db) => Wealth + db.burned = Worth(db)
    /\ InitialWealth = Sum(InitialGold, Players)
<1>1. InitialWealth = Sum(InitialGold, Players)
  <2>1. \A p \in Players : InitialGold[p] \in Int
    BY StoreAssumption
  <2>2. InitialWealth = Purses(InitialGold)
    BY DEF InitialWealth, Purses
  <2> QED  BY <2>1, <2>2, PursesIs
<1>2. ASSUME Counted(db) PROVE Wealth + db.burned = Worth(db)
  <2>1. Wealth = Purses(db.gold) + MailMoney(db.mail) + LotMoneys(db.auction)
    BY DEF Wealth, Purses, LotMoneys
  <2>2. Purses(db.gold) = Sum(db.gold, Players)
    BY <1>2, Sums, PursesIs
  <2>3. MailMoney(db.mail) = Sum(Letters(db.mail), MailIds)
    BY <1>2, Sums, MailMoneyIs
  <2>4. LotMoneys(db.auction) = Sum(Stakes(db.auction), Lots)
    BY <1>2, Sums, LotMoneysIs
  <2> QED  BY <2>1, <2>2, <2>3, <2>4 DEF Worth
<1> QED  BY <1>1, <1>2

-----------------------------------------------------------------------------
(* What a handler, or a crash in it, makes of the money. *)

\* LoadAuctions drops no auction of this image.
Whole(img) ==
    \A l \in Lots : LET row == img.auction[l] IN row # NoLot => row.pending \/ row.item # NoItem

\* A restart from this image loses no money.
Ample(img) ==
    /\ Counted(img)
    /\ Worth(img) + img.limbo >= Worth(db) + db.limbo
    /\ crashes = 0 => Whole(img)

Balanced ==
    \/ UNCHANGED crashes /\ Becomes(db, db', 0)
    \/ \E img : Ample(img) /\ Restart(img)

\* The lots of img are the database's, but for those whose auction is not dropped.
WholeIn(img) ==
    \A l \in Lots : \/ img.auction[l] = db.auction[l]
                    \/ img.auction[l].pending \/ img.auction[l].item # NoItem

LEMMA DbWhole ==
    ASSUME Sound, Agreed, crashes = 0
    PROVE  Whole(db)
<1> SUFFICES ASSUME NEW l \in Lots, db.auction[l] # NoLot
             PROVE  db.auction[l].pending \/ db.auction[l].item # NoItem
  BY DEF Whole
<1>1. db.auction[l] = house[l]
  BY Fits DEF Agreed, LotsFit
<1> QED  BY <1>1 DEF Sound, PendingHoldsNoItem, Listed

LEMMA AmpleIf ==
    ASSUME Sound, Agreed, NEW img, Counted(img), WholeIn(img),
           Worth(img) + img.limbo >= Worth(db) + db.limbo
    PROVE  Ample(img)
<1>1. ASSUME crashes = 0 PROVE Whole(img)
  BY <1>1, DbWhole DEF Whole, WholeIn
<1> QED  BY <1>1 DEF Ample

\* The usual case: more money, the same lots.
LEMMA AmpleMore ==
    ASSUME Sound, Agreed, Counted(db), NEW img, NEW n \in Nat, Becomes(db, img, n), WholeIn(img)
    PROVE  Ample(img)
<1>1. Counted(img) /\ Worth(img) = Worth(db) + n /\ img.limbo = db.limbo
  BY DEF Becomes
<1>2. Worth(db) \in Int /\ db.limbo \in Int
  BY Sums DEF Counted
<1>3. Worth(img) + img.limbo >= Worth(db) + db.limbo
  BY <1>1, <1>2
<1> QED  BY <1>1, <1>3, AmpleIf

LEMMA BalancedInOne ==
    ASSUME NEW a, NEW b, Ample(a), DiesIn(<<a, b>>)
    PROVE  Balanced
<1>1. PICK k \in 1..Len(<<a, b>>) - 1 : Restart(<<a, b>>[k])
  BY DEF DiesIn
<1>2. k = 1
  OBVIOUS
<1>3. Restart(a)
  BY <1>1, <1>2
<1> QED  BY <1>3 DEF Balanced

LEMMA BalancedInTwo ==
    ASSUME NEW a, NEW b, NEW c, Ample(a), Ample(b), DiesIn(<<a, b, c>>)
    PROVE  Balanced
<1>1. PICK k \in 1..Len(<<a, b, c>>) - 1 : Restart(<<a, b, c>>[k])
  BY DEF DiesIn
<1>2. k = 1 \/ k = 2
  OBVIOUS
<1>3. Restart(a) \/ Restart(b)
  BY <1>1, <1>2
<1> QED  BY <1>3 DEF Balanced

\* One mail is inserted, or none.
LEMMA Posted ==
    ASSUME NEW img, Counted(img), NEW mails \in SUBSET SoundMail, NEW n,
           \/ mails = {} /\ n = 0
           \/ \E m \in SoundMail : mails = {m} /\ ~m.deleted /\ n = m.money,
           \A m \in mails : \A r \in img.mail : r.id # m.id
    PROVE  /\ Becomes(img, InsertMails(img, mails), n)
           /\ n \in Nat
<1>1. CASE mails = {} /\ n = 0
  <2>1. InsertMails(img, mails) = img
    BY <1>1, NothingInserted
  <2>2. Worth(img) \in Int
    BY Sums
  <2> QED  BY <1>1, <2>1, <2>2 DEF Becomes
<1>2. CASE \E m \in SoundMail : mails = {m} /\ ~m.deleted /\ n = m.money
  <2>1. PICK m \in SoundMail : mails = {m} /\ ~m.deleted /\ n = m.money
    BY <1>2
  <2>2. Becomes(img, InsertMails(img, {m}), m.money)
    BY <2>1, Inserted
  <2> QED  BY <2>1, <2>2, MailFields
<1> QED  BY <1>1, <1>2

\* What a player pays or earns goes from or to the row.
LEMMA Purse ==
    ASSUME Sound, Agreed, NEW p \in Players, Online(p)
    PROVE  /\ db.gold[p] = gold[p] /\ gold[p] \in Nat
           /\ \A n \in Nat : gold[p] >= n => Pay(gold[p], n) = gold[p] - n
<1>1. db.gold[p] = gold[p] /\ gold[p] \in Nat
  BY StoreAssumption DEF Agreed, Online, Sound, Money
<1> QED  BY <1>1 DEF Pay

-----------------------------------------------------------------------------
(* The mailbox. *)

LEMMA SendMailBalanced ==
    ASSUME Sound, Agreed, Counted(db), NEW p \in Players, NEW q \in Players, NEW c \in Contents,
           NEW id \in MailIds, SendMail(p, q, c[1], c[2], c[3], id)
    PROVE  Balanced
<1> DEFINE item == c[1]
           money == c[2]
           cod == c[3]
           cost == Postage + money
           mail == PlayerMail(id, p, q, money, cod, item, "")
           left == Pay(gold[p], cost)
           rest == bag[p] \ {item}
           fewer == db.bag[p] \ {item}
           taken == [db EXCEPT !.bag[p] = fewer]
           sent == InsertMails(taken, {mail})
           inv == SaveInventoryAndGold(sent, p, left, rest)
           saved == Burn(inv, Postage)
<1>1. item \in Items \cup {NoItem} /\ money \in Nat /\ cod \in Money /\ cost \in Nat /\ Postage \in Nat
  BY MailAssumption, StoreAssumption DEF Money
<1>2. taken = [db EXCEPT !.bag[p] = @ \ {item}]
  BY DEF Sound, SoundImage
<1>3. /\ Online(p) /\ Fresh({mail}) /\ gold[p] >= cost
      /\ \/ Commit(<<taken, sent, saved>>)
         \/ DiesIn(<<taken, sent, saved>>)
  BY <1>2 DEF SendMail, CanSend, MayAct
<1>4. cost = Postage + money
  OBVIOUS
<1> HIDE DEF item, money, cod, cost
<1>5. {mail} \in SUBSET SoundMail /\ ~mail.deleted /\ mail.money = money /\ mail \in SoundMail
  <2>1. mail \in SoundMail
    BY <1>1, MailsSound
  <2>2. ~mail.deleted /\ mail.money = money
    BY DEF PlayerMail
  <2> HIDE DEF mail
  <2> QED  BY <2>1, <2>2
<1>6. left \in Money /\ rest \in SUBSET Items /\ left = db.gold[p] - cost /\ db.gold[p] \in Nat
  BY <1>1, <1>3, Coins, Purse DEF Sound
<1> HIDE DEF mail, left
<1>7. Becomes(db, taken, 0)
  <2>1. fewer \in SUBSET Items
    BY DEF Sound, SoundImage
  <2> HIDE DEF fewer
  <2> QED  BY <2>1, BagSaved
<1>8. taken.mail = db.mail /\ taken.auction = db.auction /\ taken.gold = db.gold
  BY DEF Sound, SoundImage
<1> HIDE DEF taken, rest
<1>9. Counted(taken) /\ SoundImage(taken)
  BY <1>7 DEF Becomes, Counted
<1>10. Becomes(taken, sent, money)
  BY <1>3, <1>5, <1>8, <1>9, Posted DEF Fresh
<1>11. sent.auction = db.auction /\ sent.gold = db.gold
  BY <1>8, <1>9, InsertMailsFields
<1> HIDE DEF sent
<1>12. Becomes(db, sent, money)
  <2>1. Worth(db) \in Int
    BY Sums
  <2> QED  BY <1>1, <1>7, <1>10, <2>1 DEF Becomes
<1>13. Becomes(sent, inv, left - db.gold[p])
  <2>1. Counted(sent)
    BY <1>10 DEF Becomes
  <2> QED  BY <1>6, <1>11, <2>1, GoldSaved
<1> HIDE DEF inv
<1>14. Becomes(inv, saved, Postage)
  BY <1>1, <1>13, Burned DEF Becomes
<1> HIDE DEF saved
<1>15. Becomes(db, saved, 0)
  <2>1. Worth(db) \in Int
    BY Sums
  <2> QED  BY <1>1, <1>4, <1>6, <1>12, <1>13, <1>14, <2>1 DEF Becomes
<1>16. Ample(taken) /\ Ample(sent)
  <2>1. WholeIn(taken) /\ WholeIn(sent)
    BY <1>8, <1>11 DEF WholeIn
  <2> QED  BY <1>1, <1>7, <1>12, <2>1, AmpleMore
<1>17. CASE DiesIn(<<taken, sent, saved>>)
  BY <1>16, <1>17, BalancedInTwo
<1>18. CASE db' = saved /\ UNCHANGED crashes
  BY <1>15, <1>18 DEF Balanced
<1> QED  BY <1>3, <1>17, <1>18 DEF Commit

\* The row of a mail in a box.
LEMMA ItsRow ==
    ASSUME Sound, Agreed, NEW p \in Players, NEW m \in m_mail[p]
    PROVE  /\ \E r \in db.mail : r.id = m.id /\ r.money = m.money
           /\ \A r \in db.mail : r.id = m.id => r.money = m.money
           /\ m \in SoundMail /\ m.id \in MailIds /\ m.money \in Nat
<1>1. PICK r \in db.mail : RowOf(r, m, crashes)
  BY DEF Agreed, BoxesFit
<1>2. m \in SoundMail
  BY DEF Sound
<1>3. r.id = m.id /\ r.money = m.money
  BY <1>1, <1>2 DEF RowOf, Shorn, SoundMail, Mail
<1>4. \A x \in db.mail : x.id = m.id => x = r
  BY <1>1, <1>3 DEF Agreed, RowsFit
<1>5. m.id \in MailIds /\ m.money \in Nat
  BY <1>2 DEF SoundMail, Mail
<1> QED  BY <1>1, <1>2, <1>3, <1>4, <1>5

LEMMA MailReturnToSenderBalanced ==
    ASSUME Sound, Agreed, Counted(db), NEW p \in Players, NEW m \in m_mail[p], NEW id \in MailIds,
           MailReturnToSender(p, m, id)
    PROVE  Balanced
<1> DEFINE isNormal == m.kind = "normal"
           mail == PlayerMail(id, p, m.from, m.money, 0, m.item, "returned")
           back == IF isNormal THEN {mail} ELSE {}
           deleted == DeleteMail(db, m.id)
           limbo == [deleted EXCEPT !.limbo = @ + m.money]
           inserted == InsertMails(deleted, back)
           burned == Burn(deleted, m.money)
           images == IF isNormal THEN <<limbo, inserted>> ELSE <<burned>>
<1>1. /\ Fresh(back)
      /\ Commit(images) \/ DiesIn(images)
  BY DEF MailReturnToSender
<1>2. m \in SoundMail /\ m.money \in Nat
  BY ItsRow
<1>3. isNormal => mail \in SoundMail /\ ~mail.deleted /\ mail.money = m.money
  <2>1. isNormal => m.from \in Players /\ m.item \in Items \cup {NoItem}
    BY <1>2, MailFields
  <2>2. isNormal => mail \in SoundMail
    BY <1>2, <2>1, MailsSound, Coins
  <2>3. ~mail.deleted /\ mail.money = m.money
    BY DEF PlayerMail
  <2> HIDE DEF mail
  <2> QED  BY <2>2, <2>3
<1>4. isNormal => back = {mail}
  OBVIOUS
<1> HIDE DEF mail, isNormal, back
<1>5. Becomes(db, deleted, 0 - m.money)
  <2>1. PICK r \in db.mail : r.id = m.id /\ r.money = m.money
    BY ItsRow
  <2>2. Becomes(db, DeleteMail(db, r.id), 0 - r.money)
    BY <2>1, MailDeleted
  <2> QED  BY <2>1, <2>2
<1>6. Counted(deleted) /\ SoundImage(deleted) /\ Worth(db) \in Int /\ db.limbo \in Nat
  BY <1>5, Sums DEF Becomes, Counted
<1>7. deleted.auction = db.auction /\ deleted.mail = {r \in db.mail : r.id # m.id}
  BY DeleteMailFields DEF Sound
<1> HIDE DEF deleted
<1>8. Counted(limbo) /\ Worth(limbo) = Worth(deleted) /\ limbo.limbo = deleted.limbo + m.money
      /\ limbo.auction = deleted.auction
  <2>1. /\ limbo.gold = deleted.gold /\ limbo.mail = deleted.mail /\ limbo.auction = deleted.auction
        /\ limbo.burned = deleted.burned /\ limbo.limbo = deleted.limbo + m.money
        /\ SoundImage(limbo)
    BY <1>6 DEF SoundImage
  <2> HIDE DEF limbo
  <2>2. Counted(limbo)
    BY <1>2, <1>6, <2>1 DEF Counted
  <2>3. Worth(limbo) = Worth(deleted)
    BY <2>1 DEF Worth
  <2> QED  BY <2>1, <2>2, <2>3
<1> HIDE DEF limbo
<1>9. Ample(limbo)
  <2>1. WholeIn(limbo)
    BY <1>7, <1>8 DEF WholeIn
  <2>2. Worth(limbo) + limbo.limbo >= Worth(db) + db.limbo
    BY <1>2, <1>5, <1>6, <1>8 DEF Becomes
  <2> QED  BY <1>8, <2>1, <2>2, AmpleIf
<1>10. isNormal => Becomes(db, inserted, 0)
  <2>1. ASSUME isNormal PROVE Becomes(deleted, inserted, m.money)
    <3>1. \A k \in back : \A r \in deleted.mail : r.id # k.id
      BY <1>1, <1>7 DEF Fresh
    <3>2. back \in SUBSET SoundMail
          /\ \E k \in SoundMail : back = {k} /\ ~k.deleted /\ m.money = k.money
      BY <1>3, <1>4, <2>1
    <3> QED  BY <1>6, <3>1, <3>2, Posted
  <2> QED  BY <1>2, <1>5, <1>6, <2>1 DEF Becomes
<1>11. Becomes(db, burned, 0)
  <2>1. Becomes(deleted, burned, m.money)
    BY <1>2, <1>6, Burned
  <2> QED  BY <1>2, <1>5, <1>6, <2>1 DEF Becomes
<1> HIDE DEF inserted, burned
<1>12. ASSUME DiesIn(images) PROVE Balanced
  <2>1. DiesIn(<<limbo, inserted>>)
    BY <1>12, DiesInNone
  <2> QED  BY <1>9, <2>1, BalancedInOne
<1>13. ASSUME Commit(images) PROVE Balanced
  <2>1. CASE isNormal
    BY <1>10, <1>13, <2>1 DEF Commit, Balanced
  <2>2. CASE ~isNormal
    BY <1>11, <1>13, <2>2 DEF Commit, Balanced
  <2> QED  BY <2>1, <2>2
<1> QED  BY <1>1, <1>12, <1>13

\* A box in which one mail may have other money than its row.
LEMMA BoxSaved ==
    ASSUME NEW img, Counted(img),
           NEW box \in SUBSET SoundMail, IdsDiffer(box), \A k \in box : \E r \in img.mail : r.id = k.id,
           NEW id \in MailIds, \A k \in box : k.id # id => Letters(img.mail)[k.id] = k.money,
           NEW n \in Int, NEW m \in box, m.id = id, n = m.money - Letters(img.mail)[id]
    PROVE  Becomes(img, SaveMail(img, box), n)
<1> DEFINE w == Written(img.mail, box)
           o == Letters(img.mail)
<1>1. m.money \in Int /\ (\A i \in MailIds : o[i] \in Int) /\ w[id] = m.money
      /\ \A i \in MailIds : w[i] \in Int
  <2>1. \A i \in MailIds : Letters(box)[i] \in Int /\ o[i] \in Int
    BY Letter, Sums
  <2>2. Letters(box)[id] = m.money /\ m.money \in Int
    BY Letter, MailFields
  <2>3. \A i \in MailIds : w[i] \in {Letters(box)[i], o[i]}
    BY DEF Written
  <2>4. w[id] = Letters(box)[id]
    BY DEF Written
  <2> HIDE DEF w, o
  <2> QED  BY <2>1, <2>2, <2>3, <2>4
<1>2. \A i \in MailIds \ {id} : o[i] = w[i]
  <2> TAKE i \in MailIds \ {id}
  <2>1. CASE \E k \in box : k.id = i
    <3>1. PICK k \in box : k.id = i
      BY <2>1
    <3>2. Letters(box)[i] = k.money
      BY <3>1, Letter
    <3> QED  BY <2>1, <3>1, <3>2 DEF Written
  <2>2. CASE ~\E k \in box : k.id = i
    BY <2>2 DEF Written
  <2> QED  BY <2>1, <2>2
<1> HIDE DEF w, o
<1>3. Sum(w, MailIds) = Sum(o, MailIds) + w[id] - o[id] /\ Sum(o, MailIds) \in Int
  BY <1>1, <1>2, FiniteAssumption, SumChange, SumSame DEF Sum
<1>4. Becomes(img, SaveMail(img, box), Sum(w, MailIds) - Sum(o, MailIds))
  BY MailSaved DEF w, o
<1>5. Sum(w, MailIds) - Sum(o, MailIds) = n
  <2>1. o[id] \in Int /\ m.money \in Int /\ w[id] = m.money /\ n = m.money - o[id]
    BY <1>1 DEF o
  <2> QED  BY <1>3, <2>1
<1> QED  BY <1>4, <1>5

\* The box of a player, with one mail replaced.
LEMMA ReplacedSaved ==
    ASSUME Sound, Agreed, NEW img, Counted(img), db.mail \subseteq img.mail,
           NEW p \in Players, NEW m \in m_mail[p],
           NEW m2 \in SoundMail, m2.id = m.id, m2.to = p
    PROVE  Becomes(img, SaveMail(img, Replaced(p, m, m2)), m2.money - m.money)
<1> DEFINE box == Replaced(p, m, m2)
           n == m2.money - m.money
<1>1. /\ box \in SUBSET SoundMail /\ IdsDiffer(box) /\ m2 \in box
      /\ \A k \in box : k = m2 \/ k \in m_mail[p]
      /\ \A k \in box : \E j \in m_mail[p] : j.id = k.id
  <2>1. m2 \in box
    BY DEF Replaced
  <2> QED  BY <2>1, ReplacedFits DEF IdsDiffer
<1> HIDE DEF box
<1>2. img.mail \in SUBSET SoundMail /\ IdsDiffer(img.mail)
  BY Sums
<1>3. ASSUME NEW j \in m_mail[p]
      PROVE  (\E r \in img.mail : r.id = j.id) /\ Letters(img.mail)[j.id] = j.money
  <2>1. PICK r \in db.mail : r.id = j.id /\ r.money = j.money
    BY ItsRow
  <2>2. r \in img.mail
    BY <2>1
  <2> QED  BY <1>2, <2>1, <2>2, Letter
<1>4. m.id \in MailIds /\ m.money \in Nat /\ m2.money \in Nat
  BY ItsRow, MailFields
<1>5. n \in Int /\ n = m2.money - Letters(img.mail)[m.id]
  BY <1>3, <1>4
<1> HIDE DEF n
<1>6. \A k \in box : k.id # m.id => Letters(img.mail)[k.id] = k.money
  BY <1>1, <1>3
<1>7. \A k \in box : \E r \in img.mail : r.id = k.id
  BY <1>1, <1>3
<1>8. Becomes(img, SaveMail(img, box), n)
  BY <1>1, <1>4, <1>5, <1>6, <1>7, BoxSaved
<1> QED  BY <1>8 DEF box, n

LEMMA MailTakeItemBalanced ==
    ASSUME Sound, Agreed, Counted(db), NEW p \in Players, NEW m \in m_mail[p], NEW id \in MailIds,
           MailTakeItem(p, m, id)
    PROVE  Balanced
<1> DEFINE mail == PlayerMail(id, p, m.from, m.cod, 0, NoItem, "codPayment")
           payment == IF m.cod > 0 THEN {mail} ELSE {}
           paid == InsertMails(db, payment)
           left == Pay(gold[p], m.cod)
           got == bag[p] \cup {m.item}
           m2 == ItemTaken(m)
           box == Replaced(p, m, m2)
           inv == SaveInventoryAndGold(paid, p, left, got)
           saved == SaveMail(inv, box)
<1>1. /\ Commit(<<paid, saved>>) \/ DiesIn(<<paid, saved>>)
      /\ Online(p) /\ m.item # NoItem /\ gold[p] >= m.cod /\ Fresh(payment)
  BY DEF MailTakeItem, TakeImages, Replaced, InBox, MayAct
<1>2. m \in SoundMail /\ m.to = p /\ m.money \in Nat
  BY ItsRow DEF Sound
<1>3. m.cod \in Money /\ m.cod \in Nat /\ m.item \in Items
  BY <1>1, <1>2, MailFields
<1>4. /\ payment \in SUBSET SoundMail
      /\ \/ payment = {} /\ m.cod = 0
         \/ \E k \in SoundMail : payment = {k} /\ ~k.deleted /\ m.cod = k.money
  <2>1. m.cod > 0 => m.from \in Players
    BY <1>2, MailFields
  <2>2. m.cod > 0 => mail \in SoundMail
    BY <1>3, <2>1, MailsSound, Coins
  <2>3. ~mail.deleted /\ mail.money = m.cod
    BY DEF PlayerMail
  <2>4. payment = IF m.cod > 0 THEN {mail} ELSE {}
    OBVIOUS
  <2> HIDE DEF mail, payment
  <2> QED  BY <1>3, <2>2, <2>3, <2>4
<1>5. left \in Money /\ got \in SUBSET Items /\ left = db.gold[p] - m.cod /\ db.gold[p] \in Nat
  BY <1>1, <1>3, Coins, Purse DEF Sound
<1> HIDE DEF mail, payment, left, got
<1>6. m2 \in SoundMail /\ m2.to = p /\ m2.id = m.id /\ m2.money = m.money
  <2>1. m2.money = m.money
    BY <1>2 DEF ItemTaken, SoundMail, Mail
  <2> QED  BY <1>2, <2>1, ChangedSound
<1> HIDE DEF m2
<1>7. Becomes(db, paid, m.cod) /\ m.cod \in Nat
  <2>1. \A k \in payment : \A r \in db.mail : r.id # k.id
    BY <1>1 DEF Fresh
  <2> QED  BY <1>4, <2>1, Posted
<1>8. paid.auction = db.auction /\ paid.gold = db.gold /\ paid.mail = db.mail \cup payment
      /\ Counted(paid)
  BY <1>7, InsertMailsFields DEF Sound, Becomes
<1> HIDE DEF paid
<1>9. Becomes(paid, inv, left - db.gold[p])
  BY <1>5, <1>8, GoldSaved
<1>10. Counted(inv) /\ inv.mail = paid.mail
  <2>1. SoundImage(paid)
    BY <1>8 DEF Counted
  <2>2. inv.mail = paid.mail
    BY <2>1, SaveInventoryAndGoldFields DEF SavedOf
  <2> QED  BY <1>9, <2>2 DEF Becomes
<1> HIDE DEF inv
<1>11. Becomes(inv, saved, m2.money - m.money)
  BY <1>6, <1>8, <1>10, ReplacedSaved
<1> HIDE DEF saved
<1>12. Becomes(db, saved, 0)
  <2>1. Worth(db) \in Int
    BY Sums
  <2> QED  BY <1>2, <1>5, <1>6, <1>7, <1>9, <1>11, <2>1 DEF Becomes
<1>13. Ample(paid)
  <2>1. WholeIn(paid)
    BY <1>8 DEF WholeIn
  <2> QED  BY <1>7, <2>1, AmpleMore
<1>14. CASE DiesIn(<<paid, saved>>)
  BY <1>13, <1>14, BalancedInOne
<1>15. CASE db' = saved /\ UNCHANGED crashes
  BY <1>12, <1>15 DEF Balanced
<1> QED  BY <1>1, <1>14, <1>15 DEF Commit

\* What is above MAX_MONEY_AMOUNT is burned.
LEMMA MailTakeMoneyBalanced ==
    ASSUME Sound, Agreed, Counted(db), NEW p \in Players, NEW m \in m_mail[p], MailTakeMoney(p, m)
    PROVE  Balanced
<1> DEFINE now == Earn(gold[p], m.money)
           m2 == MoneyTaken(m)
           box == Replaced(p, m, m2)
           lost == gold[p] + m.money - now
           inv == SaveGold(db, p, now)
           sent == SaveMail(inv, box)
           saved == Burn(sent, lost)
<1>1. db' = saved /\ UNCHANGED crashes /\ Online(p)
  BY DEF MailTakeMoney, Commit, Replaced, InBox, MayAct
<1>2. m \in SoundMail /\ m.to = p /\ m.money \in Nat
  BY ItsRow DEF Sound
<1>3. now \in Money /\ now \in Nat /\ db.gold[p] = gold[p] /\ gold[p] \in Nat
  <2>1. now \in Money /\ db.gold[p] = gold[p] /\ gold[p] \in Nat
    BY <1>1, <1>2, Coins, Purse DEF Sound
  <2> HIDE DEF now
  <2> QED  BY <2>1, StoreAssumption DEF Money
<1>4. lost \in Int /\ lost = gold[p] + m.money - now
  BY <1>2, <1>3
<1> HIDE DEF now, lost
<1>5. m2 \in SoundMail /\ m2.to = p /\ m2.id = m.id /\ m2.money = 0
  <2>1. m2.money = 0
    BY <1>2 DEF MoneyTaken, SoundMail, Mail
  <2> QED  BY <1>2, <2>1, ChangedSound
<1> HIDE DEF m2
<1>6. Becomes(db, inv, now - db.gold[p])
  <2>1. {} \in SUBSET Items
    OBVIOUS
  <2> QED  BY <1>3, <2>1, GoldSaved
<1>7. Counted(inv) /\ inv.mail = db.mail
  <2>1. inv.mail = db.mail
    BY SaveGoldFields DEF Sound, SavedOf
  <2> QED  BY <1>6, <2>1 DEF Becomes
<1> HIDE DEF inv
<1>8. Becomes(inv, sent, m2.money - m.money)
  BY <1>5, <1>7, ReplacedSaved
<1> HIDE DEF sent
<1>9. Becomes(sent, saved, lost)
  BY <1>4, <1>8, Burned DEF Becomes
<1> HIDE DEF saved
<1>10. Becomes(db, saved, 0)
  <2>1. Worth(db) \in Int
    BY Sums
  <2> QED  BY <1>2, <1>3, <1>4, <1>5, <1>6, <1>8, <1>9, <2>1 DEF Becomes
<1> QED  BY <1>1, <1>10 DEF Balanced

LEMMA LogoutBalanced ==
    ASSUME Sound, Agreed, Counted(db), NEW p \in Players, Logout(p)
    PROVE  Balanced
<1> DEFINE inv == SaveInventoryAndGold(db, p, gold[p], bag[p])
           box == m_mail[p]
           saved == SaveMail(inv, box)
           w == Written(inv.mail, box)
           o == Letters(inv.mail)
<1>1. db' = saved /\ UNCHANGED crashes /\ Online(p)
  BY DEF Logout, Commit
<1>2. gold[p] \in Money /\ bag[p] \in SUBSET Items /\ gold[p] \in Nat /\ db.gold[p] = gold[p]
  BY <1>1, Purse DEF Sound
<1>3. Becomes(db, inv, gold[p] - db.gold[p])
  BY <1>2, GoldSaved
<1>4. inv.mail = db.mail /\ Counted(inv)
  <2>1. inv.mail = db.mail
    BY SaveInventoryAndGoldFields DEF Sound, SavedOf
  <2> QED  BY <1>3, <2>1 DEF Becomes
<1> HIDE DEF inv
<1>5. box \in SUBSET SoundMail /\ IdsDiffer(box) /\ \A k \in box : \E r \in inv.mail : r.id = k.id
  BY <1>4, ItsRow DEF Sound, Agreed, BoxesFit, IdsDiffer
<1>6. ASSUME NEW i \in MailIds PROVE o[i] = w[i] /\ o[i] \in Int
  <2>1. CASE \E k \in box : k.id = i
    <3>1. PICK k \in box : k.id = i
      BY <2>1
    <3>2. PICK r \in inv.mail : r.id = i /\ r.money = k.money
      BY <1>4, <3>1, ItsRow
    <3>3. inv.mail \in SUBSET SoundMail /\ IdsDiffer(inv.mail)
      BY <1>4, Sums
    <3>4. Letters(box)[i] = k.money /\ o[i] = k.money
      BY <1>5, <3>1, <3>2, <3>3, Letter
    <3> QED  BY <1>4, <2>1, <3>4, Sums DEF Written
  <2>2. CASE ~\E k \in box : k.id = i
    BY <1>4, <2>2, Sums DEF Written
  <2> QED  BY <2>1, <2>2
<1>7. Becomes(inv, saved, Sum(w, MailIds) - Sum(o, MailIds))
  BY <1>4, <1>5, MailSaved
<1> HIDE DEF w, o, saved
<1>8. Sum(o, MailIds) \in Int /\ Sum(o, MailIds) = Sum(w, MailIds)
  BY <1>6, FiniteAssumption, SumSame DEF Sum
<1>9. Becomes(db, saved, 0)
  <2>1. Worth(db) \in Int
    BY Sums
  <2> QED  BY <1>2, <1>3, <1>7, <1>8, <2>1 DEF Becomes
<1> QED  BY <1>1, <1>9 DEF Balanced

LEMMA SweepMailBalanced ==
    ASSUME Sound, Agreed, Counted(db), NEW m \in db.mail, SweepMail(m)
    PROVE  Balanced
<1> DEFINE returns == m.item # NoItem /\ m.kind = "normal" /\ m.checked = ""
           back == [m EXCEPT !.from = m.to, !.to = m.from, !.cod = 0, !.checked = "returned"]
           deleted == DeleteMail(db, m.id)
           inserted == InsertMails(deleted, {back})
           destroyed == DestroyItems(db, {m.item})
           dropped == DeleteMail(destroyed, m.id)
           burned == Burn(dropped, m.money)
           images == IF returns THEN <<inserted>> ELSE <<destroyed, burned>>
<1>1. Commit(images) \/ DiesIn(images)
  BY DEF SweepMail
<1>2. m \in SoundMail /\ ~m.deleted /\ SoundImage(db) /\ m.money \in Nat /\ Worth(db) \in Int
  BY Fits, MailFields, Sums DEF RowsFit
<1>3. returns => back \in SoundMail /\ back.id = m.id /\ back.money = m.money /\ ~back.deleted
  BY <1>2, Coins DEF SoundMail, Mail
<1> HIDE DEF back, returns
<1>4. Becomes(db, deleted, 0 - m.money)
  BY MailDeleted
<1>5. deleted.mail = {r \in db.mail : r.id # m.id} /\ Counted(deleted)
  BY <1>2, <1>4, DeleteMailFields DEF Becomes
<1> HIDE DEF deleted
<1>6. returns => Becomes(db, inserted, 0)
  <2>1. ASSUME returns PROVE Becomes(deleted, inserted, m.money)
    <3>1. \A r \in deleted.mail : r.id # back.id
      BY <1>3, <1>5, <2>1
    <3>2. Becomes(deleted, InsertMails(deleted, {back}), back.money)
      BY <1>3, <1>5, <2>1, <3>1, Inserted
    <3> QED  BY <1>3, <2>1, <3>2
  <2> QED  BY <1>2, <1>4, <2>1 DEF Becomes
<1> HIDE DEF inserted
<1>7. Becomes(db, destroyed, 0)
  BY ItemsDestroyed
<1>8. /\ Counted(destroyed) /\ destroyed.mail = Sheared(db.mail, {m.item})
      /\ \A l \in Lots : destroyed.auction[l] =
            IF InLot(db.auction, l, db.auction[l].item) /\ db.auction[l].item \in {m.item}
            THEN [db.auction[l] EXCEPT !.item = NoItem] ELSE db.auction[l]
  BY <1>2, <1>7, DestroyItemsFields DEF Becomes
<1> HIDE DEF destroyed
<1>9. Becomes(destroyed, dropped, 0 - m.money)
  <2>1. PICK r \in destroyed.mail : r.id = m.id /\ r.money = m.money
    <3>1. Shorn(m).id = m.id /\ Shorn(m).money = m.money
      BY <1>2 DEF Shorn, SoundMail, Mail
    <3> QED  BY <1>8, <3>1 DEF Sheared
  <2>2. Becomes(destroyed, DeleteMail(destroyed, r.id), 0 - r.money)
    BY <1>8, <2>1, MailDeleted
  <2> QED  BY <2>1, <2>2
<1> HIDE DEF dropped
<1>10. Becomes(dropped, burned, m.money)
  <2>1. Counted(dropped) /\ m.money \in Int
    BY <1>2, <1>9 DEF Becomes
  <2> QED  BY <2>1, Burned
<1> HIDE DEF burned
<1>11. Becomes(db, burned, 0)
  BY <1>2, <1>7, <1>9, <1>10 DEF Becomes
<1>12. Ample(destroyed)
  <2>1. ASSUME crashes = 0 PROVE Whole(destroyed)
    <3>1. ASSUME NEW l \in Lots PROVE destroyed.auction[l] = db.auction[l]
      <4>1. CASE InLot(db.auction, l, m.item) /\ m.item \in Items
        <5>1. SingleItem(m.item, db.bag, db.mail, db.auction)
          BY <2>1, <4>1 DEF Agreed, Single
        <5> QED  BY <4>1, <5>1 DEF SingleItem
      <4>2. CASE InLot(db.auction, l, m.item) /\ m.item \notin Items
        <5>1. m.item = NoItem
          BY <1>2, <4>2, MailFields
        <5>2. db.auction[l] \in AuctionEntry /\ db.auction[l].item = NoItem
          BY <1>2, <4>2, <5>1 DEF InLot, SoundImage, SoundEntry
        <5>3. [db.auction[l] EXCEPT !.item = NoItem] = db.auction[l]
          BY <5>2 DEF AuctionEntry
        <5> QED  BY <1>8, <5>3
      <4>3. CASE ~InLot(db.auction, l, m.item)
        BY <1>8, <4>3 DEF InLot
      <4> QED  BY <4>1, <4>2, <4>3
    <3> QED  BY <2>1, <3>1, DbWhole DEF Whole
  <2>2. Worth(destroyed) + destroyed.limbo >= Worth(db) + db.limbo
    <3>1. Worth(destroyed) = Worth(db) /\ destroyed.limbo = db.limbo /\ db.limbo \in Nat
      BY <1>2, <1>7 DEF Becomes, Counted
    <3> QED  BY <1>2, <3>1
  <2> QED  BY <1>8, <2>1, <2>2 DEF Ample
<1>13. ASSUME DiesIn(images) PROVE Balanced
  <2>1. DiesIn(<<destroyed, burned>>)
    BY <1>13, DiesInNone
  <2> QED  BY <1>12, <2>1, BalancedInOne
<1>14. ASSUME Commit(images) PROVE Balanced
  <2>1. CASE returns
    BY <1>6, <1>14, <2>1 DEF Commit, Balanced
  <2>2. CASE ~returns
    BY <1>11, <1>14, <2>2 DEF Commit, Balanced
  <2> QED  BY <2>1, <2>2
<1> QED  BY <1>1, <1>13, <1>14

-----------------------------------------------------------------------------
(* The auction house. *)

\* Whatever a crash has made of its item, the row has the stake of the auction.
LEMMA RowStake ==
    ASSUME Sound, Agreed, NEW l \in Lots
    PROVE  /\ ~Listed(l) => Stake(db.auction[l]) = 0
           /\ Listed(l) => /\ Stake(db.auction[l]) = house[l].bid + house[l].deposit
                           /\ house[l] \in SoundEntry
                           /\ house[l].pending \/ house[l].item # NoItem
<1>1. CASE ~Listed(l)
  <2>1. db.auction[l] = NoLot
    BY <1>1 DEF Listed, Agreed, LotsFit
  <2> QED  BY <1>1, <2>1 DEF Stake
<1>2. CASE Listed(l)
  <2> DEFINE e == house[l]
  <2>1. e \in SoundEntry /\ (e.pending \/ e.item # NoItem)
    BY <1>2 DEF Sound, Listed, PendingHoldsNoItem
  <2>2. db.auction[l] = e \/ db.auction[l] = [e EXCEPT !.item = NoItem]
    BY <1>2 DEF Listed, Agreed, LotsFit
  <2> HIDE DEF e
  <2>3. [e EXCEPT !.item = NoItem] \in SoundEntry
    BY <2>1, WithoutItem
  <2>4. [e EXCEPT !.item = NoItem].bid = e.bid /\ [e EXCEPT !.item = NoItem].deposit = e.deposit
    BY <2>1 DEF SoundEntry, AuctionEntry
  <2>5. e # NoLot /\ [e EXCEPT !.item = NoItem] # NoLot
    BY <2>1, <2>3, NoLotAssumption DEF SoundEntry
  <2>6. Stake(db.auction[l]) = e.bid + e.deposit
    BY <2>2, <2>4, <2>5 DEF Stake
  <2> QED  BY <1>2, <2>1, <2>6 DEF e
<1> QED  BY <1>1, <1>2

LEMMA SellItemBalanced ==
    ASSUME Sound, Agreed, Counted(db), NEW p \in Players, NEW l \in Lots, NEW item \in Items,
           NEW startbid \in StartBids, NEW buyout \in Buyouts, SellItem(p, l, item, startbid, buyout)
    PROVE  Balanced
<1> DEFINE left == Pay(gold[p], Deposit)
           rest == bag[p] \ {item}
           entry == [item |-> item, owner |-> p, startbid |-> startbid, buyout |-> buyout,
                     bid |-> 0, bidder |-> NoBidder, deposit |-> Deposit, pending |-> FALSE]
           listed == SaveAuction(db, l, entry)
           saved == SaveInventoryAndGold(listed, p, left, rest)
<1>1. /\ db' = saved /\ UNCHANGED crashes
      /\ gold[p] >= Deposit /\ Online(p) /\ ~Listed(l)
  BY DEF SellItem, Commit, MayAct
<1>2. entry \in SoundEntry /\ entry.bid = 0 /\ entry.deposit = Deposit /\ Deposit \in Nat
  <2>1. Deposit \in Nat /\ startbid \in Money /\ buyout \in Money /\ buyout \in Nat
    BY AuctionAssumption, StoreAssumption DEF Money
  <2>2. Deposit \in Money
    BY <1>1, <2>1, StoreAssumption DEF Sound, Money
  <2>3. entry \in AuctionEntry
    BY <2>1, <2>2, Coins DEF AuctionEntry
  <2> QED  BY <2>1, <2>3 DEF SoundEntry
<1>3. left \in Money /\ rest \in SUBSET Items /\ left = db.gold[p] - Deposit /\ db.gold[p] \in Nat
  BY <1>1, <1>2, Coins, Purse DEF Sound
<1> HIDE DEF left, entry, rest
<1>4. Becomes(db, listed, Deposit)
  <2>1. Becomes(db, listed, (entry.bid + entry.deposit) - Stake(db.auction[l]))
    BY <1>2, AuctionSaved
  <2>2. Stake(db.auction[l]) = 0
    BY <1>1, RowStake
  <2>3. (entry.bid + entry.deposit) - Stake(db.auction[l]) = Deposit
    BY <1>2, <2>2
  <2> QED  BY <2>1, <2>3
<1>5. listed.gold = db.gold /\ Counted(listed)
  BY <1>4, SaveAuctionFields DEF Sound, LotOf, Becomes
<1> HIDE DEF listed
<1>6. Becomes(listed, saved, left - db.gold[p])
  BY <1>3, <1>5, GoldSaved
<1> HIDE DEF saved
<1>7. Becomes(db, saved, 0)
  <2>1. Worth(db) \in Int
    BY Sums
  <2> QED  BY <1>2, <1>3, <1>4, <1>6, <2>1 DEF Becomes
<1> QED  BY <1>1, <1>7 DEF Balanced

\* The stake changes from bidder to bidder; p pays the difference, or the bid, and then
\* who has bid before gets the former bid.
LEMMA PlaceBidBalanced ==
    ASSUME Sound, Agreed, Counted(db), NEW p \in Players, NEW l \in Lots, NEW price \in Money,
           NEW id \in MailIds, NEW wonId \in MailIds, PlaceBid(p, l, price, id, wonId)
    PROVE  Balanced
<1> DEFINE e == house[l]
           newbid == IF e.buyout # 0 /\ price > e.buyout THEN e.buyout ELSE price
           cost == IF e.bidder = p THEN newbid - e.bid ELSE newbid
           left == Pay(gold[p], cost)
           entry == [e EXCEPT !.bidder = p, !.bid = newbid]
           isBuyout == e.buyout # 0 /\ newbid >= e.buyout
           after == IF isBuyout THEN Won(entry) ELSE entry
           refund == Outbidden(id, e, p)
           back == IF e.bidder \in {p, NoBidder} THEN 0 ELSE e.bid
           won == IF isBuyout THEN WonMails(wonId, entry) ELSE {}
           refunded == InsertMails(db, refund)
           placed == SaveAuction(refunded, l, after)
           saved == SaveInventoryAndGold(placed, p, left, bag[p])
           sent == InsertMails(saved, won)
           images == <<refunded, saved, sent>>
<1>1. /\ Listed(l) /\ price > e.bid /\ price <= gold[p] /\ Online(p) /\ Fresh(refund \cup won)
      /\ id # wonId
      /\ Commit(images) \/ DiesIn(images)
  BY DEF PlaceBid, CanBid, NewBid, IsBuyout, LeftAfterBid, BidOf, BidWonMails, MayAct
<1>2. /\ e \in SoundEntry /\ (e.pending \/ e.item # NoItem)
      /\ Stake(db.auction[l]) = e.bid + e.deposit
  BY <1>1, RowStake
<1> HIDE DEF e
<1>3. e.bid \in Nat /\ e.deposit \in Nat /\ (e.bidder = NoBidder => e.bid = 0) /\ gold[p] \in Nat
      /\ e.bidder \in Players \cup {NoBidder}
  BY <1>1, <1>2, EntryFields, Purse, StoreAssumption
<1>4. /\ newbid \in Money /\ newbid \in Nat /\ newbid >= e.bid /\ newbid <= gold[p]
      /\ (e.buyout # 0 => newbid <= e.buyout)
  <2>1. e.buyout \in Money /\ e.buyout \in Nat /\ (e.buyout # 0 => e.bid <= e.buyout)
    BY <1>2, EntryFields
  <2>2. price \in Nat
    BY StoreAssumption DEF Money
  <2> QED  BY <1>1, <1>3, <2>1, <2>2
<1> HIDE DEF newbid
<1>5. cost \in Nat /\ cost <= gold[p] /\ back \in Nat /\ (back + newbid) - e.bid = cost
  BY <1>3, <1>4
<1> HIDE DEF cost, back
<1>6. left \in Money /\ bag[p] \in SUBSET Items /\ left = db.gold[p] - cost /\ db.gold[p] \in Nat
  BY <1>1, <1>5, Coins, Purse DEF Sound
<1> HIDE DEF left
<1>7. /\ entry \in SoundEntry /\ entry.bidder = p /\ entry.pending = e.pending /\ entry.item = e.item
      /\ entry.bid = newbid /\ entry.deposit = e.deposit
  <2>1. /\ entry \in AuctionEntry /\ entry.bidder = p /\ entry.bid = newbid
        /\ entry.pending = e.pending /\ entry.item = e.item /\ entry.buyout = e.buyout
        /\ entry.deposit = e.deposit
    BY <1>2, <1>4 DEF SoundEntry, AuctionEntry
  <2>2. e.pending => e.item = NoItem
    BY <1>2 DEF SoundEntry
  <2> HIDE DEF entry
  <2> QED  BY <1>4, <2>1, <2>2 DEF SoundEntry
<1> HIDE DEF entry
<1>8. /\ after \in SoundEntry /\ (after.pending \/ after.item # NoItem)
      /\ after.bid = newbid /\ after.deposit = e.deposit
  <2>1. Won(entry) \in SoundEntry /\ Won(entry).pending /\ Won(entry).bid = entry.bid
        /\ Won(entry).deposit = entry.deposit
    BY <1>7, WonSound DEF Won, SoundEntry, AuctionEntry
  <2> QED  BY <1>2, <1>7, <2>1
<1>9. /\ refund \in SUBSET SoundMail /\ won \in SUBSET SoundMail
      /\ \/ refund = {} /\ back = 0
         \/ \E k \in SoundMail : refund = {k} /\ ~k.deleted /\ back = k.money
      /\ \/ won = {}
         \/ \E k \in SoundMail : won = {k} /\ ~k.deleted /\ 0 = k.money
      /\ \A k \in refund : k.id = id
      /\ \A k \in won : k.id = wonId
  <2>1. refund \in SUBSET SoundMail /\ won \in SUBSET SoundMail
    BY <1>2, <1>7, BidMailsSound
  <2> DEFINE m1 == AuctionMail(id, e.bidder, e.bid, NoItem)
             m2 == AuctionMail(wonId, entry.bidder, 0, entry.item)
  <2>2. ~m1.deleted /\ m1.money = e.bid /\ m1.id = id /\ ~m2.deleted /\ m2.money = 0 /\ m2.id = wonId
    BY DEF AuctionMail
  <2>3. (refund = {} /\ back = 0) \/ (refund = {m1} /\ back = e.bid)
    BY DEF Outbidden, back
  <2>4. won = {} \/ won = {m2}
    BY DEF WonMails
  <2> HIDE DEF m1, m2, refund, won
  <2> QED  BY <2>1, <2>2, <2>3, <2>4
<1> HIDE DEF after, refund, won
<1>10. Becomes(db, refunded, back)
  <2>1. \A k \in refund : \A r \in db.mail : r.id # k.id
    BY <1>1 DEF Fresh
  <2> QED  BY <1>9, <2>1, Posted
<1>11. /\ refunded.mail = db.mail \cup refund /\ refunded.auction = db.auction
       /\ refunded.gold = db.gold /\ Counted(refunded) /\ SoundImage(refunded)
  BY <1>10, InsertMailsFields DEF Sound, Becomes, Counted
<1> HIDE DEF refunded
<1>12. Becomes(refunded, placed, newbid - e.bid)
  <2>1. Becomes(refunded, placed, (after.bid + after.deposit) - Stake(refunded.auction[l]))
    BY <1>8, <1>11, AuctionSaved
  <2>2. (after.bid + after.deposit) - Stake(refunded.auction[l]) = newbid - e.bid
    BY <1>2, <1>3, <1>4, <1>8, <1>11
  <2> QED  BY <2>1, <2>2
<1>13. LotOf(placed, refunded, l, after) /\ Counted(placed) /\ SoundImage(placed)
  BY <1>11, <1>12, SaveAuctionFields DEF Becomes, Counted
<1> HIDE DEF placed
<1>14. Becomes(placed, saved, left - db.gold[p])
  <2>1. placed.gold = db.gold
    BY <1>11, <1>13 DEF LotOf
  <2> QED  BY <1>6, <1>13, <2>1, GoldSaved
<1>15. SavedOf(saved, placed, p, left, bag[p]) /\ Counted(saved)
  BY <1>13, <1>14, SaveInventoryAndGoldFields DEF Becomes
<1> HIDE DEF saved
<1>16. Becomes(db, saved, 0)
  <2>1. Worth(db) \in Int
    BY Sums
  <2> QED  BY <1>3, <1>4, <1>5, <1>6, <1>10, <1>12, <1>14, <2>1 DEF Becomes
<1>17. /\ saved.mail = db.mail \cup refund /\ saved.auction[l] = after
       /\ \A k \in Lots \ {l} : saved.auction[k] = db.auction[k]
  BY <1>11, <1>13, <1>15 DEF LotOf, SavedOf
<1>18. Becomes(saved, sent, 0)
  <2>1. \A k \in won : \A r \in saved.mail : r.id # k.id
    BY <1>1, <1>9, <1>17 DEF Fresh
  <2>2. \/ won = {} /\ 0 = 0
        \/ \E k \in SoundMail : won = {k} /\ ~k.deleted /\ 0 = k.money
    BY <1>9
  <2> QED  BY <1>9, <1>15, <2>1, <2>2, Posted
<1> HIDE DEF sent
<1>19. Becomes(db, sent, 0)
  <2>1. Worth(db) \in Int
    BY Sums
  <2> QED  BY <1>16, <1>18, <2>1 DEF Becomes
<1>20. Ample(refunded) /\ Ample(saved)
  <2>1. WholeIn(refunded) /\ WholeIn(saved)
    BY <1>8, <1>11, <1>17 DEF WholeIn
  <2> QED  BY <1>5, <1>10, <1>16, <2>1, AmpleMore
<1>21. CASE DiesIn(images)
  BY <1>20, <1>21, BalancedInTwo
<1>22. CASE db' = sent /\ UNCHANGED crashes
  BY <1>19, <1>22 DEF Balanced
<1> QED  BY <1>1, <1>21, <1>22 DEF Commit

LEMMA CancelAuctionBalanced ==
    ASSUME Sound, Agreed, Counted(db), NEW p \in Players, NEW l \in Lots, NEW id \in MailIds,
           NEW itemId \in MailIds, CancelAuction(p, l, id, itemId)
    PROVE  Balanced
<1> DEFINE e == house[l]
           cut == GetAuctionCut(e)
           left == Pay(gold[p], cut)
           m1 == AuctionMail(id, e.bidder, e.bid, NoItem)
           m2 == AuctionMail(itemId, p, 0, e.item)
           refund == IF e.bid = 0 THEN {} ELSE {m1}
           item == {m2}
           refunded == InsertMails(db, refund)
           returned == InsertMails(refunded, item)
           deleted == DeleteAuction(returned, l)
           removed == SaveInventoryAndGold(deleted, p, left, bag[p])
           kept == e.deposit + cut
           burned == Burn(removed, kept)
           images == <<refunded, returned, burned>>
<1>1. /\ Listed(l) /\ Online(p) /\ gold[p] >= cut /\ Fresh(refund \cup item) /\ id # itemId
      /\ Commit(images) \/ DiesIn(images)
  BY DEF CancelAuction, CanCancel, CancelRefund, MayAct
<1>2. /\ e \in SoundEntry /\ Stake(db.auction[l]) = e.bid + e.deposit
  BY <1>1, RowStake
<1> HIDE DEF e
<1>3. e.bid \in Nat /\ e.deposit \in Nat /\ cut \in Nat /\ kept = e.deposit + cut /\ kept \in Nat
  BY <1>2, EntryFields
<1> HIDE DEF cut, kept
<1>4. left \in Money /\ bag[p] \in SUBSET Items /\ left = db.gold[p] - cut /\ db.gold[p] \in Nat
  BY <1>1, <1>3, Coins, Purse DEF Sound
<1> HIDE DEF left
<1>5. /\ refund \in SUBSET SoundMail /\ item \in SUBSET SoundMail
      /\ \/ refund = {} /\ e.bid = 0
         \/ \E k \in SoundMail : refund = {k} /\ ~k.deleted /\ e.bid = k.money
      /\ \E k \in SoundMail : item = {k} /\ ~k.deleted /\ 0 = k.money
      /\ \A k \in refund : k.id = id
      /\ \A k \in item : k.id = itemId
  <2>1. (e.bid # 0 => e.bidder \in Players /\ e.bid \in Nat) /\ e.item \in Items \cup {NoItem}
    BY <1>2, EntryFields
  <2>2. (e.bid # 0 => m1 \in SoundMail) /\ m2 \in SoundMail
    BY <2>1, MailsSound
  <2>3. ~m1.deleted /\ m1.money = e.bid /\ m1.id = id /\ ~m2.deleted /\ m2.money = 0 /\ m2.id = itemId
    BY DEF AuctionMail
  <2>4. refund = (IF e.bid = 0 THEN {} ELSE {m1}) /\ item = {m2}
    OBVIOUS
  <2> HIDE DEF m1, m2, refund, item
  <2> QED  BY <2>2, <2>3, <2>4
<1> HIDE DEF refund, item
<1>6. Becomes(db, refunded, e.bid)
  <2>1. \A k \in refund : \A r \in db.mail : r.id # k.id
    BY <1>1 DEF Fresh
  <2> QED  BY <1>5, <2>1, Posted
<1>7. /\ refunded.mail = db.mail \cup refund /\ refunded.auction = db.auction
      /\ refunded.gold = db.gold /\ Counted(refunded) /\ SoundImage(refunded)
  BY <1>6, InsertMailsFields DEF Sound, Becomes, Counted
<1> HIDE DEF refunded
<1>8. Becomes(refunded, returned, 0)
  <2>1. \A k \in item : \A r \in refunded.mail : r.id # k.id
    BY <1>1, <1>5, <1>7 DEF Fresh
  <2> QED  BY <1>5, <1>7, <2>1, Posted
<1>9. returned.auction = db.auction /\ returned.gold = db.gold /\ Counted(returned)
      /\ SoundImage(returned)
  BY <1>7, <1>8, InsertMailsFields DEF Becomes, Counted
<1> HIDE DEF returned
<1>10. Becomes(db, returned, e.bid)
  <2>1. Worth(db) \in Int
    BY Sums
  <2> QED  BY <1>3, <1>6, <1>8, <2>1 DEF Becomes
<1>11. Becomes(returned, deleted, 0 - (e.bid + e.deposit))
  <2>1. Becomes(returned, deleted, 0 - Stake(returned.auction[l]))
    BY <1>2, <1>9, AuctionSaved
  <2> QED  BY <1>2, <1>9, <2>1
<1>12. deleted.gold = db.gold /\ Counted(deleted)
  BY <1>9, <1>11, DeleteAuctionFields DEF LotOf, Becomes
<1> HIDE DEF deleted
<1>13. Becomes(deleted, removed, left - db.gold[p])
  BY <1>4, <1>12, GoldSaved
<1> HIDE DEF removed
<1>14. Becomes(removed, burned, kept)
  <2>1. Counted(removed) /\ kept \in Int
    BY <1>3, <1>13 DEF Becomes
  <2> QED  BY <2>1, Burned
<1> HIDE DEF burned
<1>15. Becomes(db, burned, 0)
  <2>1. Worth(db) \in Int
    BY Sums
  <2> QED  BY <1>3, <1>4, <1>10, <1>11, <1>13, <1>14, <2>1 DEF Becomes
<1>16. Ample(refunded) /\ Ample(returned)
  <2>1. WholeIn(refunded) /\ WholeIn(returned)
    BY <1>7, <1>9 DEF WholeIn
  <2> QED  BY <1>3, <1>6, <1>10, <2>1, AmpleMore
<1>17. CASE DiesIn(images)
  BY <1>16, <1>17, BalancedInTwo
<1>18. CASE db' = burned /\ UNCHANGED crashes
  BY <1>15, <1>18 DEF Balanced
<1> QED  BY <1>1, <1>17, <1>18 DEF Commit

LEMMA EndBalanced ==
    ASSUME Sound, Agreed, Counted(db), NEW l \in Lots, NEW mail \in SoundMail, ~mail.deleted,
           NEW burned \in Nat, mail.money + burned = Stake(db.auction[l]), End(l, mail, burned)
    PROVE  Balanced
<1> DEFINE sent == InsertMails(db, {mail})
           deleted == DeleteAuction(sent, l)
           ended == Burn(deleted, burned)
<1>1. /\ Fresh({mail})
      /\ Commit(<<sent, ended>>) \/ DiesIn(<<sent, ended>>)
  BY DEF End, MailThenDelete
<1>2. Becomes(db, sent, mail.money) /\ mail.money \in Nat
  <2>1. \A r \in db.mail : r.id # mail.id
    BY <1>1 DEF Fresh
  <2> QED  BY <2>1, Inserted, MailFields
<1>3. sent.auction = db.auction /\ Counted(sent)
  BY <1>2, InsertMailsFields DEF Sound, Becomes
<1> HIDE DEF sent
<1>4. Becomes(sent, deleted, 0 - Stake(db.auction[l]))
  <2>1. Becomes(sent, DeleteAuction(sent, l), 0 - Stake(sent.auction[l]))
    <3>1. Becomes(sent, [sent EXCEPT !.auction[l] = NoLot], Stake(NoLot) - Stake(sent.auction[l]))
      BY <1>3, LotSaved
    <3>2. Stake(NoLot) = 0
      BY DEF Stake
    <3> QED  BY <3>1, <3>2 DEF DeleteAuction
  <2> QED  BY <1>3, <2>1
<1> HIDE DEF deleted
<1>5. Becomes(deleted, ended, burned)
  BY <1>4, Burned DEF Becomes
<1> HIDE DEF ended
<1>6. Becomes(db, ended, 0)
  <2>1. Worth(db) \in Int /\ Stake(db.auction[l]) \in Int
    BY Sums
  <2> QED  BY <1>2, <1>4, <1>5, <2>1 DEF Becomes
<1>7. Ample(sent)
  <2>1. WholeIn(sent)
    BY <1>3 DEF WholeIn
  <2> QED  BY <1>2, <2>1, AmpleMore
<1>8. CASE DiesIn(<<sent, ended>>)
  BY <1>7, <1>8, BalancedInOne
<1>9. CASE db' = ended /\ UNCHANGED crashes
  BY <1>6, <1>9 DEF Balanced
<1> QED  BY <1>1, <1>8, <1>9 DEF Commit

LEMMA ExpireBalanced ==
    ASSUME Sound, Agreed, Counted(db), NEW l \in Lots, NEW id \in MailIds,
           DeliverMoney(l, id) \/ Expire(l, id)
    PROVE  Balanced
<1> DEFINE e == house[l]
           cut == GetAuctionCut(e)
           profit == e.bid + e.deposit - cut
<1>1. e \in SoundEntry /\ Stake(db.auction[l]) = e.bid + e.deposit
  BY RowStake DEF DeliverMoney, Expire
<1>2. /\ e.owner \in Players /\ e.item \in Items \cup {NoItem} /\ profit \in Nat
      /\ e.bid \in Nat /\ e.deposit \in Nat /\ cut \in Nat /\ profit + cut = e.bid + e.deposit
  <2>1. /\ e.owner \in Players /\ e.item \in Items \cup {NoItem}
        /\ e.bid \in Nat /\ e.deposit \in Nat /\ cut \in Nat /\ cut <= e.bid
    BY <1>1, EntryFields
  <2> HIDE DEF e, cut
  <2> QED  BY <2>1
<1>3. CASE DeliverMoney(l, id)
  <2> DEFINE mail == AuctionMail(id, e.owner, profit, NoItem)
  <2>1. End(l, mail, cut)
    BY <1>3 DEF DeliverMoney
  <2> HIDE DEF profit, cut, e
  <2>2. mail \in SoundMail /\ ~mail.deleted /\ mail.money = profit
    BY <1>2, MailsSound DEF AuctionMail
  <2> HIDE DEF mail
  <2>3. mail.money + cut = Stake(db.auction[l])
    BY <1>1, <1>2, <2>2
  <2> QED  BY <1>2, <2>1, <2>2, <2>3, EndBalanced
<1>4. CASE Expire(l, id)
  <2> DEFINE mail == AuctionMail(id, e.owner, 0, e.item)
  <2>1. End(l, mail, e.deposit) /\ e.bid = 0
    BY <1>4 DEF Expire
  <2> HIDE DEF e
  <2>2. mail \in SoundMail /\ ~mail.deleted /\ mail.money = 0
    BY <1>2, MailsSound DEF AuctionMail
  <2> HIDE DEF mail
  <2>3. mail.money + e.deposit = Stake(db.auction[l])
    BY <1>1, <1>2, <2>1, <2>2
  <2> QED  BY <1>2, <2>1, <2>2, <2>3, EndBalanced
<1> QED  BY <1>3, <1>4

LEMMA ExpireWonBalanced ==
    ASSUME Sound, Agreed, Counted(db), NEW l \in Lots, NEW id \in MailIds, ExpireWon(l, id)
    PROVE  Balanced
<1> DEFINE e == house[l]
           after == Won(e)
           saved == SaveAuction(db, l, after)
           mails == WonMails(id, e)
           sent == InsertMails(saved, mails)
<1>1. /\ Listed(l) /\ e.bid > 0 /\ Fresh(mails)
      /\ Commit(<<saved, sent>>) \/ DiesIn(<<saved, sent>>)
  BY DEF ExpireWon
<1>2. e \in SoundEntry /\ Stake(db.auction[l]) = e.bid + e.deposit
  BY <1>1, RowStake
<1> HIDE DEF e
<1>3. e.bid \in Nat /\ e.deposit \in Nat /\ e.bidder \in Players
  BY <1>1, <1>2, EntryFields
<1>4. after \in SoundEntry /\ after.pending /\ after.bid = e.bid /\ after.deposit = e.deposit
  BY <1>2, WonSound DEF Won, SoundEntry, AuctionEntry
<1>5. /\ mails \in SUBSET SoundMail
      /\ \/ mails = {} /\ 0 = 0
         \/ \E k \in SoundMail : mails = {k} /\ ~k.deleted /\ 0 = k.money
  <2> DEFINE m == AuctionMail(id, e.bidder, 0, e.item)
  <2>1. mails \in SUBSET SoundMail
    BY <1>2, <1>3, BidMailsSound
  <2>2. ~m.deleted /\ m.money = 0
    BY DEF AuctionMail
  <2>3. mails = {} \/ mails = {m}
    BY DEF WonMails
  <2> HIDE DEF m, mails
  <2> QED  BY <2>1, <2>2, <2>3
<1> HIDE DEF after, mails
<1>6. Becomes(db, saved, 0)
  <2>1. Becomes(db, saved, (after.bid + after.deposit) - Stake(db.auction[l]))
    BY <1>4, AuctionSaved
  <2>2. (after.bid + after.deposit) - Stake(db.auction[l]) = 0
    BY <1>2, <1>3, <1>4
  <2> QED  BY <2>1, <2>2
<1>7. LotOf(saved, db, l, after) /\ Counted(saved)
  BY <1>6, SaveAuctionFields DEF Sound, Becomes
<1> HIDE DEF saved
<1>8. Becomes(saved, sent, 0)
  <2>1. \A k \in mails : \A r \in saved.mail : r.id # k.id
    BY <1>1, <1>7 DEF Fresh, LotOf
  <2> QED  BY <1>5, <1>7, <2>1, Posted
<1> HIDE DEF sent
<1>9. Becomes(db, sent, 0)
  <2>1. Worth(db) \in Int
    BY Sums
  <2> QED  BY <1>6, <1>8, <2>1 DEF Becomes
<1>10. Ample(saved)
  <2>1. WholeIn(saved)
    BY <1>4, <1>7 DEF WholeIn, LotOf
  <2> QED  BY <1>6, <2>1, AmpleMore
<1>11. CASE DiesIn(<<saved, sent>>)
  BY <1>10, <1>11, BalancedInOne
<1>12. CASE db' = sent /\ UNCHANGED crashes
  BY <1>9, <1>12 DEF Balanced
<1> QED  BY <1>1, <1>11, <1>12 DEF Commit

\* No statement, no crash.
LEMMA NothingBalanced ==
    ASSUME Counted(db), UNCHANGED <<db, crashes>>
    PROVE  Balanced
<1>1. Worth(db) \in Int
  BY Sums
<1>2. db' = db /\ crashes' = crashes
  OBVIOUS
<1>3. Becomes(db, db, 0)
  BY <1>1 DEF Becomes
<1> QED  BY <1>2, <1>3 DEF Balanced

LEMMA StepBalanced ==
    ASSUME Sound, Agreed, Counted(db), [Next]_vars, ~raced'
    PROVE  Balanced
<1>1. CASE UNCHANGED vars
  BY <1>1, NothingBalanced DEF vars
<1>2. CASE MailStep
  <2>1. \A m \in db.mail : SweepMail(m) => Balanced
    BY SweepMailBalanced
  <2>2. \A p, q \in Players, c \in Contents, id \in MailIds :
          SendMail(p, q, c[1], c[2], c[3], id) => Balanced
    BY SendMailBalanced
  <2>3. \A p \in Players : \A m \in m_mail[p] :
          MailMarkAsRead(p, m) \/ MailDelete(p, m) => Balanced
    BY NothingBalanced DEF MailMarkAsRead, MailDelete
  <2>4. \A p \in Players : \A m \in m_mail[p] : MailTakeMoney(p, m) => Balanced
    BY MailTakeMoneyBalanced
  <2>5. \A p \in Players : \A m \in m_mail[p] : \A id \in MailIds :
          MailReturnToSender(p, m, id) \/ MailTakeItem(p, m, id) => Balanced
    BY MailReturnToSenderBalanced, MailTakeItemBalanced
  <2> QED  BY <1>2, <2>1, <2>2, <2>3, <2>4, <2>5, MeetingsRace DEF MailStep
<1>3. CASE AuctionStep
  <2>1. \A l \in Lots, id, id2 \in MailIds, p \in Players :
          CancelAuction(p, l, id, id2) => Balanced
    BY CancelAuctionBalanced
  <2>2. \A l \in Lots, id, id2 \in MailIds, p \in Players, price \in Money :
          PlaceBid(p, l, price, id, id2) => Balanced
    BY PlaceBidBalanced
  <2>3. \A l \in Lots, id \in MailIds :
          DeliverMoney(l, id) \/ Expire(l, id) \/ ExpireWon(l, id) => Balanced
    BY ExpireBalanced, ExpireWonBalanced
  <2>4. \A l \in Lots, p \in Players, i \in Items, s \in StartBids, b \in Buyouts :
          SellItem(p, l, i, s, b) => Balanced
    BY SellItemBalanced
  <2> QED  BY <1>3, <2>1, <2>2, <2>3, <2>4, MeetingsRace DEF AuctionStep
<1>4. ASSUME NEW p \in Players, LoginRequest(p) \/ EnterWorld(p) \/ TeleportTo(p) \/ Logout(p)
      PROVE  Balanced
  BY <1>4, NothingBalanced, LogoutBalanced DEF LoginRequest, EnterWorld, TeleportTo
<1>5. CASE Crash
  <2>1. Worth(db) \in Int /\ db.limbo \in Int
    BY Sums DEF Counted
  <2>2. Worth(db) + db.limbo >= Worth(db) + db.limbo
    BY <2>1
  <2>3. Ample(db)
    BY <2>2, DbWhole DEF Ample
  <2> QED  BY <1>5, <2>3 DEF Crash, Balanced
<1> QED  BY <1>1, <1>2, <1>3, <1>4, <1>5 DEF Next

-----------------------------------------------------------------------------
(* The books are kept. *)

Total == Sum(InitialGold, Players)

Books ==
    /\ Counted(db)
    /\ crashes = 0 => Worth(db) = Total
    /\ crashes <= 1 => Worth(db) + db.limbo >= Total

\* A restart from a whole image has what the image had.
LEMMA RestartKeeps ==
    ASSUME Sound, NEW img, Counted(img), Restart(img)
    PROVE  /\ Counted(db') /\ db'.limbo = img.limbo
           /\ Whole(img) => Worth(db') = Worth(img)
<1>1. /\ SoundImage(img) /\ img.auction \in [Lots -> SoundEntry \cup {NoLot}]
      /\ img = [gold |-> img.gold, bag |-> img.bag, mail |-> img.mail, auction |-> img.auction,
                burned |-> img.burned, limbo |-> img.limbo]
  BY DEF Counted, SoundImage
<1>2. /\ db'.gold = img.gold /\ db'.mail = img.mail
      /\ db'.burned = img.burned /\ db'.limbo = img.limbo
      /\ db'.auction = [l \in Lots |-> IF house'[l] = NoLot THEN NoLot ELSE img.auction[l]]
      /\ house' = LoadAuctions(img)
  BY <1>1 DEF Restart
<1>3. SoundImage(db')
  <2>1. Sound'
    BY <1>1, RestartSound
  <2> QED  BY <2>1 DEF Sound, SoundImage
<1>4. Counted(db')
  BY <1>2, <1>3 DEF Counted
<1>5. ASSUME Whole(img) PROVE Worth(db') = Worth(img)
  <2>1. ASSUME NEW l \in Lots PROVE db'.auction[l] = img.auction[l]
    <3> DEFINE row == img.auction[l]
    <3>1. /\ row \in SoundEntry \cup {NoLot}
          /\ db'.auction[l] = IF house'[l] = NoLot THEN NoLot ELSE row
          /\ house'[l] = IF row = NoLot THEN NoLot
                         ELSE IF row.pending THEN [row EXCEPT !.item = NoItem]
                         ELSE IF row.item = NoItem THEN NoLot ELSE row
      BY <1>1, <1>2 DEF LoadAuctions
    <3>2. row # NoLot => row.pending \/ row.item # NoItem
      BY <1>5 DEF Whole
    <3> HIDE DEF row
    <3>3. row # NoLot => [row EXCEPT !.item = NoItem] # NoLot
      BY <3>1, WithoutItem, NoLotAssumption DEF SoundEntry
    <3>4. ASSUME row = NoLot PROVE db'.auction[l] = row
      BY <3>1, <3>4
    <3>5. ASSUME row # NoLot PROVE db'.auction[l] = row
      <4>1. house'[l] # NoLot
        BY <3>1, <3>2, <3>3, <3>5
      <4> QED  BY <3>1, <4>1
    <3>6. db'.auction[l] = row
      BY <3>4, <3>5
    <3> QED  BY <3>6 DEF row
  <2>2. SameGold(img, db') /\ SameMoney(img.mail, db'.mail) /\ SameStakes(img, db')
    BY <1>2, <2>1 DEF SameGold, SameMoney, SameStakes
  <2>3. Worth(db') = Worth(img) + db'.burned - img.burned
    BY <1>4, <2>2, SameWorth
  <2>4. Worth(img) \in Int /\ img.burned \in Int
    BY Sums
  <2> QED  BY <1>2, <2>3, <2>4
<1> QED  BY <1>2, <1>4, <1>5

LEMMA BooksNext ==
    ASSUME Sound, Agreed, Books, [Next]_vars, ~raced'
    PROVE  Books'
<1>1. Counted(db) /\ Worth(db) \in Int /\ db.limbo \in Nat
  BY Sums DEF Books, Counted
<1>2. Total \in Int
  <2>1. \A p \in Players : InitialGold[p] \in Int
    BY StoreAssumption
  <2> QED  BY <2>1, FiniteAssumption, SumSame DEF Sum, Total
<1>3. crashes \in Nat
  BY StoreAssumption DEF Sound
<1>4. CASE UNCHANGED crashes /\ Becomes(db, db', 0)
  <2>1. Counted(db') /\ Worth(db') = Worth(db) /\ db'.limbo = db.limbo /\ crashes' = crashes
    BY <1>1, <1>4 DEF Becomes
  <2> QED  BY <2>1 DEF Books, Total, Counted, SoundImage, RowsFit, Worth
<1>5. ASSUME NEW img, Ample(img), Restart(img) PROVE Books'
  <2>1. /\ Counted(img) /\ Worth(img) + img.limbo >= Worth(db) + db.limbo
        /\ crashes = 0 => Whole(img)
        /\ crashes' = crashes + 1
    BY <1>5 DEF Ample, Restart
  <2>2. Counted(db') /\ db'.limbo = img.limbo /\ (Whole(img) => Worth(db') = Worth(img))
    BY <1>5, <2>1, RestartKeeps
  <2>3. crashes' # 0 /\ (crashes' <= 1 => crashes = 0)
    BY <1>3, <2>1
  <2>4. ASSUME crashes = 0 PROVE Worth(db') + db'.limbo >= Total
    <3>1. Worth(db) + db.limbo >= Total
      BY <2>4 DEF Books
    <3>2. Worth(db') + db'.limbo >= Worth(db) + db.limbo
      BY <2>1, <2>2, <2>4
    <3>3. Worth(db') \in Int /\ db'.limbo \in Int
      BY <2>2, Sums DEF Counted
    <3> QED  BY <1>1, <1>2, <3>1, <3>2, <3>3
  <2> QED  BY <2>2, <2>3, <2>4 DEF Books, Total, Counted, SoundImage, RowsFit, Worth
<1> QED  BY <1>1, <1>4, <1>5, StepBalanced DEF Balanced

LEMMA BooksInit == Init => Books
<1> SUFFICES ASSUME Init PROVE Books
  OBVIOUS
<1>1. /\ db.gold = InitialGold /\ db.mail = {} /\ db.burned = 0 /\ db.limbo = 0
      /\ \A l \in Lots : db.auction[l] = NoLot
  BY DEF Init
<1>2. Counted(db)
  BY <1>1, SoundInit DEF Counted, Sound, RowsFit
<1>3. ASSUME NEW S, IsFiniteSet(S), NEW f, \A x \in S : f[x] = 0 PROVE Sum(f, S) = 0
  <2> DEFINE a == SumFunctionOnSet(f, S)
  <2>1. (\A x \in S : f[x] \in Int) /\ \A x \in S : f[x] = f[x] + f[x]
    BY <1>3
  <2>2. a \in Int /\ a = a + a
    BY <1>3, <2>1, SumAdd, SumSame
  <2>3. a = 0
    <3> HIDE DEF a
    <3> QED  BY <2>2
  <2> QED  BY <2>3 DEF Sum
<1>4. Sum(Letters(db.mail), MailIds) = 0
  <2>1. \A i \in MailIds : Letters(db.mail)[i] = 0
    BY <1>1 DEF Letters
  <2> QED  BY <1>3, <2>1, FiniteAssumption
<1>5. Sum(Stakes(db.auction), Lots) = 0
  <2>1. \A l \in Lots : Stakes(db.auction)[l] = 0
    BY <1>1 DEF Stakes, Stake
  <2> QED  BY <1>3, <2>1, FiniteAssumption
<1>6. Sum(db.gold, Players) \in Int /\ Sum(db.gold, Players) = Total
  BY <1>1, <1>2, Sums DEF Total
<1>7. Worth(db) = Total /\ Total \in Int
  <2>1. Worth(db) = Sum(db.gold, Players) + 0 + 0 + 0
    BY <1>1, <1>4, <1>5 DEF Worth
  <2> QED  BY <1>6, <2>1
<1>8. Worth(db) + db.limbo >= Total
  BY <1>1, <1>7
<1> QED  BY <1>2, <1>7, <1>8 DEF Books

Ledger == Holding /\ (~raced => Books)

\* As long as no two handlers meet and the mail sweep does not race: no handler makes or
\* loses a coin, and a crash in one loses none for the first time, but that of a mail on its
\* way back.
THEOREM Bookkeeping == Spec => []Ledger
<1>1. Init => Ledger
  BY SoundInit, AgreedInit, BooksInit DEF Ledger, Holding
<1>2. Ledger /\ [Next]_vars => Ledger'
  BY SoundNext, AgreedNext, RacedStays, BooksNext DEF Ledger, Holding
<1> QED  BY <1>1, <1>2, PTL DEF Spec

\* Whatever players send, take, sell, bid and win, with any players, lots, mails, prices
\* and purses: without crashes, and as long as no two handlers meet, the coins in purses,
\* mails, bids and deposits and those burned are the coins there were.
THEOREM MoneyConservedHolds == Spec => []MoneyConserved
<1>1. Ledger => MoneyConserved
  BY WealthIs DEF Ledger, Books, Total, MoneyConserved
<1> QED  BY <1>1, Bookkeeping, PTL

\* A server that dies once between any two transactions of any handler, none of which meets
\* another, may leave money twice, and loses none but that of mails on their way back.
THEOREM CrashLosesNoMoneyHolds == Spec => []CrashLosesNoMoney
<1>1. Ledger => CrashLosesNoMoney
  BY WealthIs DEF Ledger, Books, Total, CrashLosesNoMoney
<1> QED  BY <1>1, Bookkeeping, PTL

=============================================================================
