SPECIFICATION Spec
CONSTANTS
    None = None
INVARIANTS
    TypeOK
    OnlyAdminsAreAsked
    WaitingIsTimed
PROPERTIES
    SilenceEndsConversations
    CancelEndsConversations
CHECK_DEADLOCK TRUE
