SPECIFICATION FairSpec
CONSTANTS
    Tabs = {"A", "B"}
    Calls = {1, 2}
    TabOf <- TwoCalls
    None = None
    MaxEvents = 2
INVARIANTS
    ReplayNeedsLostAnswer
    RotationsHaveReasons
    SignedOutTokensAreForgotten
PROPERTIES
    SignOutIsReal
    TabsSettle
