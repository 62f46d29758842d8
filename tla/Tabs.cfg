\* A user who clicks four times, on tabs, buttons and items.
SPECIFICATION FairSpec
CONSTANT MaxClicks = 4
CHECK_DEADLOCK FALSE
INVARIANTS
    TypeOK
    NobodyPlaysOn
    TabsAnswer
PROPERTIES
    TabIsShown
