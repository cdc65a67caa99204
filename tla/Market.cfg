CONSTANTS
    s = s
    b1 = b1
    b2 = b2
    i1 = i1
    lot = lot
    m1 = m1
    m2 = m2
    Players = {s, b1, b2}
    Items = {i1}
    Lots = {lot}
    MaxMoney = 2
    MailIds = {m1, m2}
    MaxAway = 1
    MaxCrashes = 1
    NoItem = NoItem
    NoBidder = NoBidder
    NoLot = NoLot
    InitialGold <- MCGold
    InitialBag <- MCBag
    Postage = 1
    Contents <- MCContents
    Deposit = 1
    CutPercent = 50
    StartBids = {1}
    Buyouts = {0, 2}
SPECIFICATION Spec
SYMMETRY Symmetry
CONSTRAINT Followed
INVARIANTS
    TypeOK
    WrittenThrough
    OneHolder
    MoneyConserved
    CrashLosesNoMoney
    PendingHoldsNoItem
PROPERTIES
    CodPaid
    BidSettled
