\* Clients with tokens who may have chosen the same password; nothing fails.
SPECIFICATION Spec
CONSTANTS
    Calls = {c1, c2}
    Clients = {anna, bert}
    Names = {"Annabell", "Ann"}
    Emails = {"anna@x.y", "bert@x.y", "annabell@example.com.au"}
    Passwords = {"Password", "Passwort"}
    Length <- MCLength
    Upper <- MCUpper
    Public <- DeployedPublic
    Invited = {anna, bert}
    DatabaseErrors = FALSE
    NoCall = NoCall
SYMMETRY MCSymmetry
INVARIANT EmailExistsMeansHisEmail
CHECK_DEADLOCK FALSE
