SPECIFICATION Spec
CONSTANTS
    p1 = p1
    screws = screws
    Phone <- MCPhone
    Sku <- MCSku
    Amount = {}
    InStock <- MCInStock
    MaxScan = 2
    MaxMove = 0
    MaxReload = 1
    MaxLeave = 1
INVARIANTS
    NothingDropped
    EachScanCountedOnce
CHECK_DEADLOCK FALSE
