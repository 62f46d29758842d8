\* Refuted by what the code does.
SPECIFICATION Spec
CHECK_DEADLOCK FALSE
CONSTANTS
    MaxRequests = 4
    mStartTimeOut = 60000
    mRtpTimeOut = 30000
INVARIANTS
    PublicIsAnswered
