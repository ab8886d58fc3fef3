SPECIFICATION SpecCheckout
CONSTANTS
    MaxNow = 6
    Quote <- QuoteTable
    TopupRequests <- Topups
    Plans <- PlanRows
    Durations = {0, 6, 12, 24}
INVARIANTS
    FreshRate
    TopupAsBillingPageSays
PROPERTIES
    RowKeepsItsRate
    ChargedAsShown
