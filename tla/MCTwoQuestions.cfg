SPECIFICATION Spec
CONSTANTS
    None = None
INVARIANTS
    TextAnswersLastQuestion
CHECK_DEADLOCK TRUE
