------------------------------ MODULE Sessions ------------------------------
(***************************************************************************)
(* Access tokens: LoginUser and LogoutUser of                              *)
(* src/internal/usecase/auth/auth_usecase.go, and the middleware JWTAuth   *)
(* that stands before the HTTP routes.                                     *)
(*                                                                         *)
(*   login     credentials, tokens --> save refresh token                  *)
(*   logout    parse --> remaining life --> blacklist --> delete refresh   *)
(*   request   blacklisted? --> parse --> handler                          *)
(*                                                                         *)
(* A call is a process, and each access to Redis or PostgreSQL and each    *)
(* reading of the clock is a step.  A call that dies with the process      *)
(* takes no further step.                                                  *)
(*                                                                         *)
(* Time is counted in ticks.  A token knows whole seconds only, so that a  *)
(* user who logs in twice within a second is given the same token twice.   *)
(***************************************************************************)
EXTENDS Naturals

CONSTANTS
    Users,
    Calls,        \* call processes
    TokenTTL,     \* the configured life of an access token, in ticks
    Second,       \* ticks in a second
    MaxTime,      \* bound: the clock
    StoreErrors,  \* whether Redis and PostgreSQL may fail
    NoCall

ASSUME SessionsAssumption ==
    /\ TokenTTL \in Nat /\ Second \in Nat \ {0} /\ MaxTime \in Nat
    /\ StoreErrors \in BOOLEAN

Seconds == 0 .. ((MaxTime + TokenTTL) \div Second)

Token == [sub : Users, iat : Seconds, exp : Seconds]

LoginCalls == [kind : {"login"}, user : Users]
TokenCalls == [kind : {"logout", "request"}, token : Token]

VARIABLES
    now,        \* the clock of the application and of Redis
    call,       \* call[c]: what c asks for
    step,       \* step[c]: its next step
    given,      \* given[c]: the token c has made; {} or one token
    left,       \* left[c]: the remaining life c has computed
    answer,     \* answer[c]
    until,      \* until[t]: when the blacklist entry of t expires, 0 if none
    rows,       \* the table refresh_tokens: the login that made each row
    revoked,    \* history: the tokens that were ever blacklisted
    barred,     \* history: barred[c], the token of c was blacklisted before c
    earlier     \* history: earlier[c], the rows of the user before logout c

vars == <<now, call, step, given, left, answer, until, rows, revoked, barred, earlier>>

SessionsTypeOK ==
    /\ now \in 0..MaxTime
    /\ call \in [Calls -> LoginCalls \cup TokenCalls \cup {NoCall}]
    /\ step \in [Calls -> {"idle", "credentials", "save", "parse", "until", "blacklist",
                           "delete", "exists", "verify", "done"}]
    /\ given \in [Calls -> SUBSET Token]
    /\ left \in [Calls -> Nat]
    /\ answer \in [Calls -> {"none", "ok", "refused", "error"}]
    /\ until \in [Token -> Nat]
    /\ rows \subseteq Calls
    /\ revoked \subseteq Token
    /\ barred \in [Calls -> BOOLEAN]
    /\ earlier \in [Calls -> SUBSET Calls]

Init ==
    /\ now = 0
    /\ call = [c \in Calls |-> NoCall]
    /\ step = [c \in Calls |-> "idle"]
    /\ given = [c \in Calls |-> {}]
    /\ left = [c \in Calls |-> 0]
    /\ answer = [c \in Calls |-> "none"]
    /\ until = [t \in Token |-> 0]
    /\ rows = {}
    /\ revoked = {}
    /\ barred = [c \in Calls |-> FALSE]
    /\ earlier = [c \in Calls |-> {}]
-----------------------------------------------------------------------------
Return(c, a) ==
    /\ step' = [step EXCEPT ![c] = "done"]
    /\ answer' = [answer EXCEPT ![c] = a]

Continue(c, s) ==
    /\ step' = [step EXCEPT ![c] = s]
    /\ UNCHANGED answer

(* The tokens that clients were given and can send.                        *)
Issued == UNION {given[c] : c \in {d \in Calls : answer[d] = "ok"}}

RowsOf(user) == {d \in rows : call[d].user = user}

Start(c, q, s) ==
    /\ step[c] = "idle"
    /\ call' = [call EXCEPT ![c] = q]
    /\ Continue(c, s)
    /\ UNCHANGED <<now, given, left, until, rows, revoked>>

ArriveLogin(c) ==
    \E q \in LoginCalls :
        /\ Start(c, q, "credentials")
        /\ UNCHANGED <<barred, earlier>>

ArriveLogout(c) ==
    \E t \in Issued :
        /\ Start(c, [kind |-> "logout", token |-> t], "parse")
        /\ earlier' = [earlier EXCEPT ![c] = RowsOf(t.sub)]
        /\ UNCHANGED barred

ArriveRequest(c) ==
    \E t \in Issued :
        /\ Start(c, [kind |-> "request", token |-> t], "exists")
        /\ barred' = [barred EXCEPT ![c] = t \in revoked]
        /\ UNCHANGED earlier

(* Faulty: the expiry is not converted to seconds.                         *)
ExpiryInTicks(user) ==
    [sub |-> user, iat |-> now \div Second, exp |-> now + TokenTTL]

(* NewAccessToken: the claims are in whole seconds.                        *)
NewAccessToken(user) ==
    [sub |-> user, iat |-> now \div Second, exp |-> (now + TokenTTL) \div Second]

(* Parse: the token is taken until the second it expires has come.         *)
Parses(t) == now < t.exp * Second

(* GetCredentialsByUsername and the password, then the two new tokens.     *)
CheckCredentials(c) ==
    /\ step[c] = "credentials"
    /\ \/ /\ given' = [given EXCEPT ![c] = {NewAccessToken(call[c].user)}]
          /\ Continue(c, "save")
       \/ /\ Return(c, "refused")
          /\ UNCHANGED given
    /\ UNCHANGED <<now, call, left, until, rows, revoked, barred, earlier>>

(* SaveRefreshToken: one more row, whatever rows the user has.             *)
SaveRefreshToken(c) ==
    /\ step[c] = "save"
    /\ \/ /\ rows' = rows \cup {c}
          /\ Return(c, "ok")
       \/ /\ StoreErrors
          /\ rows' \in {rows, rows \cup {c}}
          /\ Return(c, "error")
    /\ UNCHANGED <<now, call, given, left, until, revoked, barred, earlier>>
-----------------------------------------------------------------------------
(* LogoutUser parses the token; it does not ask for the blacklist.         *)
ParseForLogout(c) ==
    /\ step[c] = "parse"
    /\ IF Parses(call[c].token) THEN Continue(c, "until") ELSE Return(c, "refused")
    /\ UNCHANGED <<now, call, given, left, until, rows, revoked, barred, earlier>>

(* Faulty: the remaining life in whole seconds.                            *)
WholeSeconds(t) == ((t.exp * Second - now) \div Second) * Second

Remaining(t) == t.exp * Second - now

(* A token that has expired in the meantime need not be blacklisted.       *)
ComputeLife(c) ==
    /\ step[c] = "until"
    /\ IF Parses(call[c].token)
       THEN /\ left' = [left EXCEPT ![c] = Remaining(call[c].token)]
            /\ Continue(c, "blacklist")
       ELSE /\ Continue(c, "delete")
            /\ UNCHANGED left
    /\ UNCHANGED <<now, call, given, until, rows, revoked, barred, earlier>>

(* SET with the time to live, which Redis counts from when it is told.     *)
Set(c) ==
    /\ until' = [until EXCEPT ![call[c].token] = now + left[c]]
    /\ revoked' = revoked \cup {call[c].token}

Blacklist(c) ==
    /\ step[c] = "blacklist"
    /\ \/ /\ Set(c)
          /\ Continue(c, "delete")
       \/ /\ StoreErrors
          /\ Set(c) \/ UNCHANGED <<until, revoked>>
          /\ Return(c, "error")
    /\ UNCHANGED <<now, call, given, left, rows, barred, earlier>>

(* Faulty: only one of the rows, as if a user had no more than one.        *)
DeleteOneRow(c) ==
    /\ step[c] = "delete"
    /\ \E d \in RowsOf(call[c].token.sub) : rows' = rows \ {d}
    /\ Return(c, "ok")
    /\ UNCHANGED <<now, call, given, left, until, revoked, barred, earlier>>

(* DeleteRefreshToken: all the rows of the user.                           *)
DeleteRefreshToken(c) ==
    /\ step[c] = "delete"
    /\ \/ /\ rows' = rows \ RowsOf(call[c].token.sub)
          /\ Return(c, "ok")
       \/ /\ StoreErrors
          /\ rows' \in {rows, rows \ RowsOf(call[c].token.sub)}
          /\ Return(c, "error")
    /\ UNCHANGED <<now, call, given, left, until, revoked, barred, earlier>>
-----------------------------------------------------------------------------
(* Faulty: the token is parsed first and looked up in the blacklist last.  *)
VerifyFirst(c) ==
    /\ step[c] = "exists"
    /\ IF Parses(call[c].token) THEN Continue(c, "verify") ELSE Return(c, "refused")
    /\ UNCHANGED <<now, call, given, left, until, rows, revoked, barred, earlier>>

BlacklistedLast(c) ==
    /\ step[c] = "verify"
    /\ Return(c, IF now < until[call[c].token] THEN "refused" ELSE "ok")
    /\ UNCHANGED <<now, call, given, left, until, rows, revoked, barred, earlier>>

Swapped(c) == VerifyFirst(c) \/ BlacklistedLast(c)

(* Exists: an error stops the request too.                                 *)
LookUp(c) ==
    /\ step[c] = "exists"
    /\ \/ /\ StoreErrors
          /\ Return(c, "error")
       \/ /\ now < until[call[c].token]
          /\ Return(c, "refused")
       \/ /\ now >= until[call[c].token]
          /\ Continue(c, "verify")
    /\ UNCHANGED <<now, call, given, left, until, rows, revoked, barred, earlier>>

(* Parse, and on to the handler.                                           *)
Verify(c) ==
    /\ step[c] = "verify"
    /\ Return(c, IF Parses(call[c].token) THEN "ok" ELSE "refused")
    /\ UNCHANGED <<now, call, given, left, until, rows, revoked, barred, earlier>>

(* JWTAuth.                                                                *)
JWTAuth(c) == LookUp(c) \/ Verify(c)

Tick ==
    /\ now < MaxTime
    /\ now' = now + 1
    /\ UNCHANGED <<call, step, given, left, answer, until, rows, revoked, barred, earlier>>

Login(c) == CheckCredentials(c) \/ SaveRefreshToken(c)

Logout(c) ==
    \/ ParseForLogout(c)
    \/ ComputeLife(c)
    \/ Blacklist(c)
    \/ DeleteRefreshToken(c)

Arrive(c) == ArriveLogin(c) \/ ArriveLogout(c) \/ ArriveRequest(c)

Next ==
    \/ \E c \in Calls : Arrive(c) \/ Login(c) \/ Logout(c) \/ JWTAuth(c)
    \/ Tick

Spec == Init /\ [][Next]_vars
-----------------------------------------------------------------------------
(* A blacklist entry is there for as long as its token can be parsed,      *)
(* however long LogoutUser took between reading the clock and telling      *)
(* Redis, and however many logouts of the token overlap.                   *)
BlacklistOutlivesToken ==
    \A t \in revoked : now < until[t] \/ ~Parses(t)

(* JWTAuth lets no request in that came after its token was blacklisted,   *)
(* not even when the entry expires between its two checks.  (The upgrade   *)
(* to a web socket and the gRPC interceptor only parse a token, and never  *)
(* look it up in the blacklist; they are not part of this.)                *)
RevokedStaysOut ==
    \A c \in Calls : barred[c] /\ call[c].kind = "request" => answer[c] # "ok"

(* A logout that succeeds leaves none of the refresh tokens of its user    *)
(* that were there before it, and the access token it was made with is in  *)
(* the blacklist for as long as it parses.  Other access tokens of the     *)
(* user stay as they are.                                                  *)
LogoutIsComplete ==
    \A c \in Calls :
        call[c] # NoCall /\ call[c].kind = "logout" /\ answer[c] = "ok" =>
            /\ earlier[c] \cap rows = {}
            /\ now < until[call[c].token] \/ ~Parses(call[c].token)
=============================================================================
