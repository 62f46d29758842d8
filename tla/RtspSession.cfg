\* Four requests of any kind, with the fairness of the receiver and the timers.
SPECIFICATION FairSpec
CHECK_DEADLOCK FALSE
CONSTANTS
    MaxRequests = 4
    mStartTimeOut = 60000
    mRtpTimeOut = 30000
INVARIANTS
    TypeOK
    Watched
PROPERTIES
    VanishedIsNoticed
    ComesToRest
