\* Two logins and two more calls, of tokens that live a second or two.
SPECIFICATION Spec
CONSTANTS
    Users = {alice}
    Calls = {c1, c2, c3, c4}
    TokenTTL = 3
    Second = 2
    MaxTime = 4
    StoreErrors = TRUE
    NoCall = NoCall
SYMMETRY MCCalls
INVARIANTS SessionsTypeOK BlacklistOutlivesToken RevokedStaysOut LogoutIsComplete
CHECK_DEADLOCK FALSE
