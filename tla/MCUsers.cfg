SPECIFICATION Spec
CONSTANTS
    Ids = {u1, u2}
    SuperAdmin = u1
    Names = {n1}
    Processes = {p1, p2}
    None = None
SYMMETRY Symmetry
INVARIANTS
    TypeOK
    GrantsAreKept
    CommandsRunForAdmins
    ContactsAreRegistered
PROPERTIES
    ImplementsAdminRights
CHECK_DEADLOCK TRUE
