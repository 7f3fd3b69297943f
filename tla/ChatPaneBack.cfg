SPECIFICATION ChatPaneSpec
CONSTANTS
    Parts = {t1}
    NoPart = NoPart
    MaxLog = 3
    MaxPartTries = 1
    MaxReports = 0
    PageRows = 1
    MaxPages = 1
PROPERTY HandedBackDidNotGo
CHECK_DEADLOCK FALSE
