SPECIFICATION Spec
CONSTANTS
    Players = {ann, bob}
    Items = {sword, ring}
    Maps = {kalimdor, outland}
    TradedSlots = {first}
    NonTraded = nonTraded
    Spells = {enchant}
    None = none
    NoTrade = noTrade
    NoMap = noMap
    MaxMoney = 1
    InitialBag <- BagsAtStart
    InitialGold <- GoldAtStart
SYMMETRY Symmetry
CHECK_DEADLOCK FALSE
INVARIANTS
    TypeOK
    Paired
    AcceptedAsSeen
    SpellTargetKept
    OneOwner
PROPERTIES
    ExchangeSpec
