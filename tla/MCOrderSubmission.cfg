SPECIFICATION Spec
CONSTANTS
    screws = screws
    nuts = nuts
    Sku <- MCSku
    Qty <- MCQty
    Recommended = 1
    MaxEdit = 3
    MaxSubmit = 3
    MaxOther = 1
SYMMETRY Articles
INVARIANTS
    TypeOK
    OneOrderPerIntent
    EachDecisionLoggedOnce
    MissingLinesWereReopened
CHECK_DEADLOCK FALSE
