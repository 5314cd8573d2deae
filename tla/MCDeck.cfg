SPECIFICATION Spec
CONSTANTS
    Setups <- MCSetups
    Approved = {"s", "t"}
    Planes = {"cp-api", "cp-tp"}
    ConfigName <- MCConfigName
    Manifests <- MCManifests
    GoodManifest <- MCGood
    GoodNames <- MCGoodNames
    States <- MCStates
    None = None
CHECK_DEADLOCK FALSE
INVARIANTS WithinReview CompletedIsExact WritesAtHome FoundationOnly
