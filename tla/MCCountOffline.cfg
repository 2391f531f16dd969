SPECIFICATION Spec
CONSTANTS
    p1 = p1
    screws = screws
    Phone <- MCPhone
    Sku <- MCSku
    Amount <- MCAmount
    InStock <- MCInStock
    MaxScan = 2
    MaxMove = 1
    MaxReload = 0
    MaxLeave = 0
PROPERTY ReceptionSurvivesCount
CHECK_DEADLOCK FALSE
