--------------------------- MODULE AccountsProofs ---------------------------
(***************************************************************************)
(* Proofs about module Accounts, for every number of calls and clients,    *)
(* every set of strings and every choice of public methods.  The argument: *)
(* a row is inserted once, by a registration that then returns, and is     *)
(* never changed; the constraints of the table keep any two rows apart;    *)
(* and a login goes on only from a row that matches it.                    *)
(***************************************************************************)
EXTENDS Accounts, TLAPS

(* Each row is what a registration that has returned made of its request.  *)
RowsAreOfRegistrations ==
    \A u \in users :
        /\ step[u.by] = "done"
        /\ call[u.by] \in Registration
        /\ u.row = RowOf(call[u.by])

(* No two rows share a column username or a column email.                  *)
RowsDiffer ==
    \A u, v \in users :
        u # v => u.row.username # v.row.username /\ u.row.email # v.row.email

(* A login that has got past the password has found its row.               *)
LoginsMatch ==
    \A c \in Calls :
        call[c] \in Login /\ (step[c] = "save" \/ answer[c] = "ok") =>
            \E u \in users : Matches(c, u.row)

(* A registration that succeeds has left its row, and "taken" is said of   *)
(* what a column of the table holds.                                       *)
AnswersFitColumns ==
    \A c \in Calls :
        /\ Registered(c) => [by |-> c, row |-> RowOf(call[c])] \in users
        /\ answer[c] = "nameTaken" => NameTaken(c)
        /\ answer[c] = "emailTaken" => EmailTaken(c)

AccountsInv ==
    /\ AccountsTypeOK
    /\ RowsAreOfRegistrations
    /\ RowsDiffer
    /\ AnswersFitColumns
    /\ LoginsMatch
-----------------------------------------------------------------------------
(* What becomes of a registration is a row of the table.                   *)
LEMMA RowOfIsUser ==
    ASSUME NEW q \in Registration PROVE  RowOf(q) \in User
BY DEF RowOf, Registration, User, Strings

(* Where the handler puts what it was sent.                                *)
LEMMA RowOfFields ==
    ASSUME NEW q
    PROVE  /\ RowOf(q).username = q.email /\ RowOf(q).email = q.password
           /\ RowOf(q).secret = q.name
BY DEF RowOf

(* A registration is no login.                                             *)
LEMMA KindsDiffer == Registration \cap Login = {}
BY DEF Registration, Login

(* Before the first call there is no row.                                  *)
LEMMA AccountsInitInv == Init => AccountsInv
BY AccountsAssumption, Zenon
DEF Init, AccountsInv, AccountsTypeOK, RowsAreOfRegistrations, RowsDiffer, AnswersFitColumns,
    Registered, LoginsMatch

(* A call that has not returned has inserted nothing, and what holds of    *)
(* the others is not disturbed by a step of c that leaves the table and    *)
(* the requests as they are and returns no answer that says something.     *)
LEMMA QuietStepKeepsInv ==
    ASSUME AccountsInv, NEW c \in Calls, step[c] # "done",
           UNCHANGED <<users, call>>, AccountsTypeOK',
           \A d \in Calls \ {c} : step'[d] = step[d] /\ answer'[d] = answer[d],
           Registered(c)' => FALSE,
           answer'[c] = "nameTaken" => NameTaken(c),
           answer'[c] = "emailTaken" => EmailTaken(c),
           call[c] \in Login /\ (step'[c] = "save" \/ answer'[c] = "ok") =>
               \E u \in users : Matches(c, u.row)
    PROVE  AccountsInv'
<1>1. RowsAreOfRegistrations' /\ RowsDiffer'
  BY DEF AccountsInv, AccountsTypeOK, RowsAreOfRegistrations, RowsDiffer, RowOf
<1>2. AnswersFitColumns'
  BY DEF AccountsInv, AnswersFitColumns, Registered, NameTaken, EmailTaken, Rows, RowOf
<1>3. LoginsMatch'
  BY DEF AccountsInv, LoginsMatch, Matches
<1> QED  BY <1>1, <1>2, <1>3 DEF AccountsInv

(* A call arrives, and says nothing of the table.                          *)
LEMMA ArriveKeepsInv ==
    ASSUME AccountsInv, NEW c \in Calls, Arrive(c) PROVE  AccountsInv'
<1>1. PICK q \in Registration \cup Login :
         /\ call' = [call EXCEPT ![c] = q]
         /\ IF ~Admits(q) THEN Return(c, "unauthenticated")
            ELSE IF q.kind = "login" THEN Continue(c, "read")
            ELSE IF FitPassword(RowOf(q).secret) THEN Continue(c, "name")
            ELSE Return(c, "invalid")
  BY DEF Arrive
<1>2. UNCHANGED <<users, holders>> /\ step[c] = "idle"
  BY DEF Arrive
<1>3. AccountsTypeOK
  BY DEF AccountsInv
<1>4. \/ q \in Login /\ Continue(c, "read")
      \/ q \in Registration /\ Continue(c, "name")
      \/ Return(c, "unauthenticated") \/ Return(c, "invalid")
  BY <1>1 DEF Registration, Login
<1>5. /\ \A d \in Calls \ {c} : call'[d] = call[d] /\ step'[d] = step[d]
                                /\ answer'[d] = answer[d]
      /\ call'[c] = q
      /\ answer'[c] \in {"none", "unauthenticated", "invalid"} /\ step'[c] # "save"
  BY <1>1, <1>3, <1>4, <1>2 DEF Return, Continue, AccountsTypeOK
<1>6. AccountsTypeOK'
  BY <1>1, <1>2, <1>3, <1>4, KindsDiffer DEF AccountsTypeOK, Return, Continue
<1>7. RowsAreOfRegistrations' /\ RowsDiffer'
  <2>1. \A u \in users : u.by \in Calls \ {c}
    BY <1>2, <1>3 DEF AccountsInv, AccountsTypeOK, RowsAreOfRegistrations
  <2>2. RowsAreOfRegistrations'
    BY <1>2, <1>5, <2>1 DEF AccountsInv, RowsAreOfRegistrations, RowOf
  <2> QED  BY <1>2, <2>2 DEF AccountsInv, RowsDiffer
<1>8. AnswersFitColumns'
  BY <1>2, <1>5 DEF AccountsInv, AnswersFitColumns, Registered, NameTaken, EmailTaken, Rows, RowOf
<1>9. LoginsMatch'
  BY <1>2, <1>5 DEF AccountsInv, LoginsMatch, Matches
<1> QED  BY <1>6, <1>7, <1>8, <1>9 DEF AccountsInv

(* A check says "taken" of a name or an e-mail that has a row.             *)
LEMMA ChecksKeepInv ==
    ASSUME AccountsInv, NEW c \in Calls, CheckName(c) \/ CheckEmail(c) PROVE  AccountsInv'
<1>1. AccountsTypeOK
  BY DEF AccountsInv
<1>2. UNCHANGED <<users, call, holders>> /\ step[c] \in {"name", "email"}
  BY DEF CheckName, CheckEmail
<1>3. \/ NameTaken(c) /\ Return(c, "nameTaken")
      \/ EmailTaken(c) /\ Return(c, "emailTaken")
      \/ step[c] = "name" /\ Continue(c, "email")
      \/ step[c] = "email" /\ Continue(c, "insert")
  BY DEF CheckName, CheckEmail
<1>4. AccountsTypeOK'
  BY <1>1, <1>2, <1>3 DEF AccountsTypeOK, Return, Continue
<1>5. /\ \A d \in Calls \ {c} : step'[d] = step[d] /\ answer'[d] = answer[d]
      /\ answer'[c] = "nameTaken" => NameTaken(c)
      /\ answer'[c] = "emailTaken" => EmailTaken(c)
      /\ answer'[c] # "ok" /\ step'[c] # "save"
  BY <1>1, <1>2, <1>3 DEF AccountsTypeOK, Return, Continue
<1> QED  BY <1>2, <1>4, <1>5, QuietStepKeepsInv DEF Registered

(* The constraints of the table keep the new row apart from the others.    *)
LEMMA InsertKeepsInv ==
    ASSUME AccountsInv, NEW c \in Calls, Insert(c) PROVE  AccountsInv'
<1> DEFINE new == [by |-> c, row |-> RowOf(call[c])]
<1>1. /\ AccountsTypeOK /\ step[c] = "insert" /\ call[c] \in Registration
      /\ UNCHANGED <<call, holders>>
  BY DEF AccountsInv, AccountsTypeOK, Insert
<1>2. \E a \in {"ok", "error"} : Return(c, a)
  BY DEF Insert
<1>3. \/ users' = users \cup {new} /\ RowFits(c)
      \/ users' = users /\ Return(c, "error")
  BY DEF Insert
<1>4. /\ \A d \in Calls \ {c} : step'[d] = step[d] /\ answer'[d] = answer[d]
      /\ step'[c] = "done" /\ answer'[c] \in {"ok", "error"}
  BY <1>1, <1>2 DEF Return, AccountsTypeOK
<1>5. new \in [by : Calls, row : User]
  BY <1>1, RowOfIsUser
<1>6. AccountsTypeOK'
  BY <1>1, <1>2, <1>3, <1>5 DEF AccountsTypeOK, Return
<1>7. CASE users' = users /\ Return(c, "error")
  BY <1>1, <1>4, <1>6, <1>7, QuietStepKeepsInv DEF Registered, AccountsTypeOK, Return
<1>8. CASE users' = users \cup {new} /\ RowFits(c)
  <2>1. RowsAreOfRegistrations'
    BY <1>1, <1>4, <1>8 DEF AccountsInv, AccountsTypeOK, RowsAreOfRegistrations, RowOf
  <2>2. \A u \in users : /\ u.row.username # new.row.username
                         /\ u.row.email # new.row.email
    BY <1>8 DEF RowFits, NameTaken, EmailTaken, Rows
  <2>3. RowsDiffer'
    BY <1>8, <2>2 DEF AccountsInv, RowsDiffer
  <2>4. \A row \in Rows : row \in Rows'
    BY <1>8 DEF Rows
  <2>5. AnswersFitColumns'
    <3>1. Registered(c)' => new \in users'
      BY <1>8
    <3>2. answer'[c] # "nameTaken" /\ answer'[c] # "emailTaken"
      BY <1>4
    <3>3. ASSUME NEW d \in Calls \ {c}
          PROVE  /\ Registered(d)' => [by |-> d, row |-> RowOf(call'[d])] \in users'
                 /\ answer'[d] = "nameTaken" => NameTaken(d)'
                 /\ answer'[d] = "emailTaken" => EmailTaken(d)'
      BY <1>1, <1>4, <1>8, <2>4
      DEF AccountsInv, AnswersFitColumns, Registered, NameTaken, EmailTaken, RowOf
    <3> QED  BY <1>1, <3>1, <3>2, <3>3 DEF AnswersFitColumns
  <2>6. LoginsMatch'
    BY <1>1, <1>4, <1>8, KindsDiffer DEF AccountsInv, LoginsMatch, Matches
  <2> QED  BY <1>6, <2>1, <2>3, <2>5, <2>6 DEF AccountsInv
<1> QED  BY <1>3, <1>7, <1>8

(* A login goes on from the row that matches it, and to the end.           *)
LEMMA LoginKeepsInv ==
    ASSUME AccountsInv, NEW c \in Calls, ReadCredentials(c) \/ SaveRefreshToken(c)
    PROVE  AccountsInv'
<1>1. /\ AccountsTypeOK /\ step[c] \in {"read", "save"} /\ call[c] \in Login
      /\ UNCHANGED <<users, call>>
  BY DEF AccountsInv, AccountsTypeOK, ReadCredentials, SaveRefreshToken
<1>2. call[c] \notin Registration
  BY <1>1, KindsDiffer
<1>3. \/ \E a \in {"unknown", "invalid", "error"} : Return(c, a)
      \/ Continue(c, "save") /\ \E row \in Rows : Matches(c, row)
      \/ Return(c, "ok") /\ step[c] = "save"
  BY DEF ReadCredentials, SaveRefreshToken
<1>4. holders' \subseteq Clients
  <2>1. call[c].from \in Clients
    BY <1>1 DEF Login
  <2> QED  BY <1>1, <2>1 DEF ReadCredentials, SaveRefreshToken, AccountsTypeOK
<1>5. AccountsTypeOK'
  BY <1>1, <1>3, <1>4 DEF AccountsTypeOK, Return, Continue
<1>6. /\ \A d \in Calls \ {c} : step'[d] = step[d] /\ answer'[d] = answer[d]
      /\ answer'[c] # "nameTaken" /\ answer'[c] # "emailTaken"
  BY <1>1, <1>3 DEF AccountsTypeOK, Return, Continue
<1>7. step'[c] = "save" \/ answer'[c] = "ok" => \E u \in users : Matches(c, u.row)
  BY <1>1, <1>3 DEF AccountsInv, AccountsTypeOK, LoginsMatch, Rows, Return, Continue
<1> QED  BY <1>1, <1>2, <1>5, <1>6, <1>7, QuietStepKeepsInv DEF Registered

(* A token that expires changes nothing but who holds one.                 *)
LEMMA ExpireKeepsInv ==
    ASSUME AccountsInv, NEW client \in Clients, Expire(client) PROVE  AccountsInv'
BY DEF Expire, AccountsInv, AccountsTypeOK, RowsAreOfRegistrations, RowsDiffer, AnswersFitColumns,
       Registered, NameTaken, EmailTaken, Rows, RowOf, LoginsMatch, Matches

(* The invariant is about the variables only.                              *)
LEMMA StutterKeepsInv == ASSUME AccountsInv, UNCHANGED vars PROVE  AccountsInv'
BY DEF vars, AccountsInv, AccountsTypeOK, RowsAreOfRegistrations, RowsDiffer, AnswersFitColumns,
       Registered, NameTaken, EmailTaken, Rows, RowOf, LoginsMatch, Matches

(* The invariant holds throughout.                                         *)
THEOREM AccountsInvariant == Spec => []AccountsInv
<1>1. AccountsInv /\ [Next]_vars => AccountsInv'
  <2> SUFFICES ASSUME AccountsInv, [Next]_vars PROVE  AccountsInv'
    OBVIOUS
  <2>1. ASSUME NEW c \in Calls, Arrive(c) PROVE  AccountsInv'
    BY <2>1, ArriveKeepsInv
  <2>2. ASSUME NEW c \in Calls, CheckName(c) \/ CheckEmail(c) PROVE  AccountsInv'
    BY <2>2, ChecksKeepInv
  <2>3. ASSUME NEW c \in Calls, Insert(c) PROVE  AccountsInv'
    BY <2>3, InsertKeepsInv
  <2>4. ASSUME NEW c \in Calls, ReadCredentials(c) \/ SaveRefreshToken(c)
        PROVE  AccountsInv'
    BY <2>4, LoginKeepsInv
  <2>5. ASSUME NEW client \in Clients, Expire(client) PROVE  AccountsInv'
    BY <2>5, ExpireKeepsInv
  <2>6. CASE UNCHANGED vars
    BY <2>6, StutterKeepsInv
  <2> QED  BY <2>1, <2>2, <2>3, <2>4, <2>5, <2>6 DEF Next
<1> QED  BY <1>1, AccountsInitInv, PTL DEF Spec
-----------------------------------------------------------------------------
(* Every row, call, answer and token is what the declarations say.         *)
THEOREM AccountsTypeCorrect == Spec => []AccountsTypeOK
<1>1. AccountsInv => AccountsTypeOK
  BY DEF AccountsInv
<1> QED  BY <1>1, AccountsInvariant, PTL

(* A registration that succeeds has its row; one that is refused because a *)
(* name exists has sent the e-mail of an account, and because an e-mail    *)
(* exists, the password of one, whatever fails and however many others run *)
(* at the same time.                                                       *)
THEOREM AccountsAnswers == Spec => []AnswersHaveTheirReason
<1>1. AccountsInv => AnswersHaveTheirReason
  <2> SUFFICES ASSUME AccountsInv, NEW c \in Calls
               PROVE  /\ Registered(c) => [by |-> c, row |-> RowOf(call[c])] \in users
                      /\ answer[c] = "nameTaken" =>
                             \E u \in users : call[u.by].email = call[c].email
                      /\ answer[c] = "emailTaken" =>
                             \E u \in users : call[u.by].password = call[c].password
    BY DEF AnswersHaveTheirReason
  <2>1. \A u \in users : /\ u.row.username = call[u.by].email
                         /\ u.row.email = call[u.by].password
    BY RowOfFields DEF AccountsInv, RowsAreOfRegistrations
  <2>2. /\ RowOf(call[c]).username = call[c].email
        /\ RowOf(call[c]).email = call[c].password
    BY RowOfFields
  <2>3. /\ answer[c] = "nameTaken" => \E u \in users : u.row.username = RowOf(call[c]).username
        /\ answer[c] = "emailTaken" => \E u \in users : u.row.email = RowOf(call[c]).email
    BY DEF AccountsInv, AnswersFitColumns, NameTaken, EmailTaken, Rows
  <2>4. Registered(c) => [by |-> c, row |-> RowOf(call[c])] \in users
    BY DEF AccountsInv, AnswersFitColumns
  <2> QED  BY <2>1, <2>2, <2>3, <2>4
<1> QED  BY <1>1, AccountsInvariant, PTL

(* Registrations that succeed have sent different e-mails and different    *)
(* passwords, although the checks and the insertion are steps of their own.*)
THEOREM AccountsAreApart == Spec => []AccountsAreDistinct
<1>1. AccountsInv => AccountsAreDistinct
  <2> SUFFICES ASSUME AccountsInv, NEW c \in Calls, NEW d \in Calls, c # d,
                      Registered(c), Registered(d)
               PROVE  call[c].email # call[d].email /\ call[c].password # call[d].password
    BY DEF AccountsAreDistinct
  <2> DEFINE u == [by |-> c, row |-> RowOf(call[c])]
             v == [by |-> d, row |-> RowOf(call[d])]
  <2>1. u \in users /\ v \in users
    BY DEF AccountsInv, AnswersFitColumns
  <2>2. u # v
    OBVIOUS
  <2>3. /\ u.row.username = call[c].email /\ u.row.email = call[c].password
        /\ v.row.username = call[d].email /\ v.row.email = call[d].password
    BY RowOfFields
  <2> HIDE DEF u, v
  <2> QED  BY <2>1, <2>2, <2>3 DEF AccountsInv, RowsDiffer
<1> QED  BY <1>1, AccountsInvariant, PTL

(* Whoever is let in has sent the e-mail of an account and, as his         *)
(* password, the name that was sent to register it.                        *)
THEOREM AccountsLogins == Spec => []LoginMatchesARegistration
<1>1. AccountsInv => LoginMatchesARegistration
  <2> SUFFICES ASSUME AccountsInv, NEW c \in Calls, call[c] \in Login, answer[c] = "ok"
               PROVE  \E u \in users : /\ call[u.by] \in Registration
                                       /\ call[u.by].email = call[c].email
                                       /\ call[u.by].name = call[c].password
    BY DEF LoginMatchesARegistration
  <2>1. PICK u \in users : Matches(c, u.row)
    BY DEF AccountsInv, LoginsMatch
  <2>2. call[u.by] \in Registration /\ u.row = RowOf(call[u.by])
    BY DEF AccountsInv, RowsAreOfRegistrations
  <2> QED  BY <2>1, <2>2, RowOfFields DEF Matches
<1> QED  BY <1>1, AccountsInvariant, PTL
-----------------------------------------------------------------------------
(* With no public method and no token from elsewhere, nobody has an        *)
(* account, and nobody a token.                                            *)
NobodyGetsIn ==
    /\ users = {} /\ holders = {}
    /\ \A c \in Calls : step[c] \in {"idle", "done"}
    /\ \A c \in Calls : answer[c] \in {"none", "unauthenticated"}

(* That is the interceptor as it is deployed (assumption DeployedIsClosed  *)
(* of module MCAccounts): the two methods are called by other names than   *)
(* it lists, so that to register takes the token that only a login gives.  *)
THEOREM ClosedServiceStaysEmpty ==
    ASSUME Public = {}, Invited = {} PROVE  Spec => []NobodyGetsIn
<1>1. Init => NobodyGetsIn
  BY DEF Init, NobodyGetsIn
<1>2. AccountsTypeOK /\ NobodyGetsIn /\ [Next]_vars => NobodyGetsIn'
  <2> SUFFICES ASSUME AccountsTypeOK, NobodyGetsIn, [Next]_vars PROVE  NobodyGetsIn'
    OBVIOUS
  <2>1. ASSUME NEW c \in Calls, Arrive(c) PROVE  NobodyGetsIn'
    <3>1. Return(c, "unauthenticated") /\ UNCHANGED <<users, holders>>
      BY <2>1 DEF Arrive, Admits, NobodyGetsIn
    <3> QED  BY <3>1 DEF NobodyGetsIn, Return, AccountsTypeOK
  <2>2. \A c \in Calls : ~(\/ CheckName(c) \/ CheckEmail(c) \/ Insert(c)
                           \/ ReadCredentials(c) \/ SaveRefreshToken(c))
    BY DEF NobodyGetsIn, CheckName, CheckEmail, Insert, ReadCredentials, SaveRefreshToken
  <2>3. \A client \in Clients : ~Expire(client)
    BY DEF NobodyGetsIn, Expire
  <2>4. CASE UNCHANGED vars
    BY <2>4 DEF NobodyGetsIn, vars
  <2> QED  BY <2>1, <2>2, <2>3, <2>4 DEF Next
<1> QED  BY <1>1, <1>2, AccountsTypeCorrect, PTL DEF Spec
=============================================================================
