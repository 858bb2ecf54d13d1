CONSTANTS
    A = A
    B = B
    S1 = S1
    S2 = S2
    Sources = {S1, S2}
    Manifests = {m1, m2}
    Tickers = {A, B}
    LastCycle = 2
    Reports <- MCReports
    Policies <- MCPolicies
    Terms <- MCTerms
    MaxRows = 2
    None = None
SYMMETRY Symmetry
SPECIFICATION Spec
INVARIANTS TypeOK GrossExposureCapped OneExposurePerTicker DirectBuysPerCycle AnswerAccountsForOrders PlanIsFirstThatFit OrdersAreOnRecord
CHECK_DEADLOCK FALSE
