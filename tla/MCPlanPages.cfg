SPECIFICATION SpecPages
CONSTANTS
    u = u
    o = o
    Accounts = {u, o}
    Owners = {o}
    Nobody = Nobody
    Garbled = Garbled
    PlanIds = {"fixed", "missing"}
    MaxOrders = 1
INVARIANTS
    FeaturesOfTheSignedIn
    BusyWhileOrdering
    OrdersAreOfTheSignedIn
PROPERTIES
    ComesToRest
    CheckoutEnds
