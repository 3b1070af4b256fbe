------------------------------ MODULE Accounts ------------------------------
(***************************************************************************)
(* Accounts: the gRPC service of src/internal/delivery/grpc/auth, behind   *)
(* its interceptor, and the table of the users.                            *)
(*                                                                         *)
(*   any call  a public method, or a token that parses?                    *)
(*   register  password fit? --> name taken? --> e-mail taken? --> insert  *)
(*   login     read the row, compare the password --> save refresh token   *)
(*                                                                         *)
(* The handlers pass what they were sent in an order of their own: the     *)
(* e-mail becomes the name, the password becomes the e-mail, and the name  *)
(* is hashed as the password.  Login looks for the e-mail among the names. *)
(*                                                                         *)
(* Strings are told apart by their first 72 bytes, as bcrypt does.         *)
(***************************************************************************)
EXTENDS Naturals

CONSTANTS
    Calls,           \* call processes
    Clients,
    Names, Emails, Passwords,
    Length,          \* Length[s], of a string
    Upper,           \* the strings with an upper-case letter
    Public,          \* the kinds of calls the interceptor lets through
    Invited,         \* the clients with a token from elsewhere
    DatabaseErrors,  \* whether PostgreSQL may fail
    NoCall

Strings == Names \cup Emails \cup Passwords

ASSUME AccountsAssumption ==
    /\ Length \in [Strings -> Nat] /\ Upper \subseteq Strings
    /\ Public \subseteq {"register", "login"}
    /\ Invited \subseteq Clients /\ DatabaseErrors \in BOOLEAN

Registration == [kind : {"register"}, from : Clients, name : Names, email : Emails,
                 password : Passwords]
Login == [kind : {"login"}, from : Clients, email : Emails, password : Strings]

User == [username : Strings, email : Strings, secret : Strings]

VARIABLES
    users,    \* the table: each row with the call that inserted it
    call,     \* call[c]: what c asks for
    step,     \* step[c]: its next step
    answer,   \* answer[c]
    holders   \* the clients with a token that still parses

vars == <<users, call, step, answer, holders>>

AccountsTypeOK ==
    /\ users \subseteq [by : Calls, row : User]
    /\ call \in [Calls -> Registration \cup Login \cup {NoCall}]
    /\ step \in [Calls -> {"idle", "name", "email", "insert", "read", "save", "done"}]
    /\ answer \in [Calls -> {"none", "unauthenticated", "invalid", "nameTaken",
                             "emailTaken", "unknown", "error", "ok"}]
    /\ holders \subseteq Clients
    /\ \A c \in Calls : step[c] \in {"name", "email", "insert"} => call[c] \in Registration
    /\ \A c \in Calls : step[c] \in {"read", "save"} => call[c] \in Login
    /\ \A c \in Calls : answer[c] # "none" <=> step[c] = "done"

Init ==
    /\ users = {}
    /\ call = [c \in Calls |-> NoCall]
    /\ step = [c \in Calls |-> "idle"]
    /\ answer = [c \in Calls |-> "none"]
    /\ holders = Invited
-----------------------------------------------------------------------------
Return(c, a) ==
    /\ step' = [step EXCEPT ![c] = "done"]
    /\ answer' = [answer EXCEPT ![c] = a]

Continue(c, s) ==
    /\ step' = [step EXCEPT ![c] = s]
    /\ UNCHANGED answer

(* What becomes of a registration.                                         *)
RowOf(q) == [username |-> q.email, email |-> q.password, secret |-> q.name]

(* AuthInterceptor: it does not ask for the blacklist.                     *)
Admits(q) == q.kind \in Public \/ q.from \in holders

(* ValidatePassword, and what bcrypt takes.                                *)
FitPassword(s) == Length[s] \in 8..72 /\ s \in Upper

Arrive(c) ==
    /\ step[c] = "idle"
    /\ \E q \in Registration \cup Login :
          /\ call' = [call EXCEPT ![c] = q]
          /\ IF ~Admits(q) THEN Return(c, "unauthenticated")
             ELSE IF q.kind = "login" THEN Continue(c, "read")
             ELSE IF FitPassword(RowOf(q).secret) THEN Continue(c, "name")
             ELSE Return(c, "invalid")
    /\ UNCHANGED <<users, holders>>

(* A token expires.                                                        *)
Expire(client) ==
    /\ client \in holders
    /\ holders' = holders \ {client}
    /\ UNCHANGED <<users, call, step, answer>>
-----------------------------------------------------------------------------
Rows == {u.row : u \in users}

NameTaken(c) == \E row \in Rows : row.username = RowOf(call[c]).username

EmailTaken(c) == \E row \in Rows : row.email = RowOf(call[c]).email

(* Faulty: a name that cannot be looked up is said to be taken.            *)
ErrorMeansTaken(c) ==
    /\ step[c] = "name"
    /\ \/ (NameTaken(c) \/ DatabaseErrors) /\ Return(c, "nameTaken")
       \/ ~NameTaken(c) /\ Continue(c, "email")
    /\ UNCHANGED <<users, call, holders>>

(* Faulty: the return is missing where the name is taken.                  *)
GoesOnAnyway(c) ==
    /\ step[c] = "name"
    /\ step' = [step EXCEPT ![c] = "email"]
    /\ answer' = IF NameTaken(c) THEN [answer EXCEPT ![c] = "nameTaken"] ELSE answer
    /\ UNCHANGED <<users, call, holders>>

(* CheckUsernameExists: if it fails, the name passes for free.             *)
CheckName(c) ==
    /\ step[c] = "name"
    /\ \/ NameTaken(c) /\ Return(c, "nameTaken")
       \/ (~NameTaken(c) \/ DatabaseErrors) /\ Continue(c, "email")
    /\ UNCHANGED <<users, call, holders>>

CheckEmail(c) ==
    /\ step[c] = "email"
    /\ \/ EmailTaken(c) /\ Return(c, "emailTaken")
       \/ (~EmailTaken(c) \/ DatabaseErrors) /\ Continue(c, "insert")
    /\ UNCHANGED <<users, call, holders>>

(* Faulty: the column username is not UNIQUE, or the column email.         *)
NotUniqueUsername(c) ==
    LET row == RowOf(call[c]) IN
    ~EmailTaken(c) /\ Length[row.username] <= 20 /\ Length[row.email] <= 255

NotUniqueEmail(c) ==
    LET row == RowOf(call[c]) IN
    ~NameTaken(c) /\ Length[row.username] <= 20 /\ Length[row.email] <= 255

(* The constraints of the table.                                           *)
RowFits(c) ==
    LET row == RowOf(call[c]) IN
    /\ ~NameTaken(c) /\ ~EmailTaken(c)
    /\ Length[row.username] <= 20 /\ Length[row.email] <= 255

Insert(c) ==
    /\ step[c] = "insert"
    /\ LET row == [by |-> c, row |-> RowOf(call[c])] IN
       \/ RowFits(c) /\ users' = users \cup {row} /\ Return(c, "ok")
       \/ RowFits(c) /\ DatabaseErrors /\ users' = users \cup {row} /\ Return(c, "error")
       \/ (~RowFits(c) \/ DatabaseErrors) /\ UNCHANGED users /\ Return(c, "error")
    /\ UNCHANGED <<call, holders>>
-----------------------------------------------------------------------------
(* Faulty: whoever has an account is let in.                               *)
AnyPassword(c, row) == row.username = call[c].email

(* GetCredentialsByUsername, and the password compared.                    *)
Matches(c, row) == row.username = call[c].email /\ row.secret = call[c].password

ReadCredentials(c) ==
    /\ step[c] = "read"
    /\ \/ /\ ~ \E row \in Rows : row.username = call[c].email
          /\ Return(c, "unknown")
       \/ /\ \E row \in Rows : Matches(c, row)
          /\ Continue(c, "save")
       \/ /\ \E row \in Rows : row.username = call[c].email /\ ~Matches(c, row)
          /\ Return(c, "invalid")
       \/ DatabaseErrors /\ Return(c, "error")
    /\ UNCHANGED <<users, call, holders>>

(* SaveRefreshToken (see Sessions); the client has an access token.        *)
SaveRefreshToken(c) ==
    /\ step[c] = "save"
    /\ \/ Return(c, "ok") /\ holders' = holders \cup {call[c].from}
       \/ DatabaseErrors /\ Return(c, "error") /\ UNCHANGED holders
    /\ UNCHANGED <<users, call>>

Next ==
    \/ \E c \in Calls :
          \/ Arrive(c) \/ CheckName(c) \/ CheckEmail(c) \/ Insert(c)
          \/ ReadCredentials(c) \/ SaveRefreshToken(c)
    \/ \E client \in Clients : Expire(client)

Spec == Init /\ [][Next]_vars
-----------------------------------------------------------------------------
Registered(c) == call[c] \in Registration /\ answer[c] = "ok"

(* The properties are about what the clients sent, not about the columns   *)
(* it ended up in.                                                         *)

(* Two registrations that succeed have sent different e-mails, though both *)
(* may have found theirs free before either was inserted; and different    *)
(* passwords, which are what the UNIQUE column email holds.  Their names   *)
(* may be the same.                                                        *)
AccountsAreDistinct ==
    \A c, d \in Calls :
        c # d /\ Registered(c) /\ Registered(d) =>
            /\ call[c].email # call[d].email
            /\ call[c].password # call[d].password

(* A registration that succeeds has left its row, whatever fails.  One     *)
(* that is told "username already exists" sent the e-mail of an account    *)
(* that is there, and one that is told "email already exists" sent the     *)
(* password of one: the answers are about the columns, and a client who    *)
(* takes them for what they say is misled (EmailExistsMeansHisEmail).      *)
AnswersHaveTheirReason ==
    \A c \in Calls :
        /\ Registered(c) => [by |-> c, row |-> RowOf(call[c])] \in users
        /\ answer[c] = "nameTaken" => \E u \in users : call[u.by].email = call[c].email
        /\ answer[c] = "emailTaken" => \E u \in users : call[u.by].password = call[c].password

(* "email already exists" (pkg/customerrors/err.go): a client who is told  *)
(* so has sent the e-mail of an account that is there.  The handler hands  *)
(* his password to RegisterUser as the e-mail, and so this does not hold.  *)
EmailExistsMeansHisEmail ==
    \A c \in Calls :
        answer[c] = "emailTaken" => \E u \in users : call[u.by].email = call[c].email

(* A client who is let in has sent the e-mail of a registration that made  *)
(* an account, and as his password the name it was made with: of the       *)
(* password itself the two handlers make nothing that opens an account.    *)
LoginMatchesARegistration ==
    \A c \in Calls :
        call[c] \in Login /\ answer[c] = "ok" =>
            \E u \in users :
                /\ call[u.by] \in Registration
                /\ call[u.by].email = call[c].email
                /\ call[u.by].name = call[c].password
=============================================================================
