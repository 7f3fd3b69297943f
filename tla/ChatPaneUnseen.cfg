SPECIFICATION ChatPaneSpec
CONSTANTS
    Parts = {t1}
    NoPart = NoPart
    MaxLog = 5
    MaxPartTries = 1
    MaxReports = 0
    PageRows = 3
    MaxPages = 1
PROPERTY UnseenKeepsOpen
CHECK_DEADLOCK FALSE
