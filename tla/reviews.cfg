CONSTANTS
    Hashes = {"w1", "w2", "w3"}
    Tags = {"t1", "t2"}
    Behaviours <- MCBehaviours
    Functions <- MCFunctions
    MaxUpgrades = 3
    Definitions <- MCDefinitions
    InputTypes <- MCTypes
    Depth <- MCDepth
    MaxDepth = 2
    GuidedCalls <- MCGuidedCalls
    AddressNames <- MCAddressNames
    Spelling <- MCSpelling
    ReadText <- MCReadText
    ReadJson <- MCReadJson
    Fits <- MCFits
    Show <- MCShow
    Ordered <- MCSorted
    TokenCodes <- MCTokenCodes
    AssetToken <- MCAssetToken
    TokenCalls = {"balance", "transfer"}
    TokenAmounts <- MCTokenAmounts
    MaxRaw = 20000
    Networks = {"public", "test"}
    Addresses = {"A", "B"}
    Wallets <- MCWallets
    Contracts = {"C", "D"}
    Base = 2
    Int32Max = 100
    Int64Max = 1000
    Scale = 10
    Reserve = 1
    Fee = 1
    DefaultLimit = 3
    Worlds <- MCWorlds
    Requests <- MCRequests
    RacedWorlds <- MCRaced
    Updates <- MCUpdates
    MaxChanges = 3
    TermBound = 23
    AmountBound = 40
    PriceScale = 10
    Requested <- MCRequested
    OfferAmounts <- MCOfferAmounts
    MaxTerm = 7
    ViewScale = 3
    Trader = "me"
    NoId = "none"
    ViewAmounts = {0, 1, 2, 3, 7, 15}
    ViewTerm = 14
    MaxTrades = 3
SPECIFICATION MCSpec
INVARIANTS
    GuidedCallIsHonest
    ReviewIsExact
    TransferIsRequested
    OfferIsExact
    PreflightIsExact
    OldLiabilitiesCountedOnce
    MarketIsShown
\* Calls, questions and views end.
CHECK_DEADLOCK FALSE
