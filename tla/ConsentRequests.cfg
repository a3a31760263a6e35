SPECIFICATION RequestSpec
CONSTANTS
    Calls = {p1, p2}
    Nobody = nobody
    Files = {form, copy, photo}
    Forms = {form, copy}
    Logins = {l1}
    MaxFiles = 2
    AuthEnabled = TRUE
INVARIANTS
    SubmittedIsBacked
    StaffConsentIsBacked
    UploadedHasBytes
    NoConsentUnlessDecided
    StaffApproveOnce
    OneCallbackPerLogin
PROPERTIES
    EvidenceIsFrozen
    RequestRefined
CHECK_DEADLOCK FALSE
