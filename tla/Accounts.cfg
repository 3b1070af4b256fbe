\* Three calls, of one client with a token and one without; two e-mails fit their column.
SPECIFICATION Spec
CONSTANTS
    Calls = {c1, c2, c3}
    Clients = {anna, bert}
    Names = {"Annabell", "Ann"}
    Emails = {"anna@x.y", "bert@x.y", "annabell@example.com.au"}
    Passwords = {"Password", "Passwort"}
    Length <- MCLength
    Upper <- MCUpper
    Public <- DeployedPublic
    Invited = {anna}
    DatabaseErrors = TRUE
    NoCall = NoCall
SYMMETRY MCSymmetry
INVARIANTS AccountsTypeOK AccountsAreDistinct AnswersHaveTheirReason LoginMatchesARegistration
CHECK_DEADLOCK FALSE
