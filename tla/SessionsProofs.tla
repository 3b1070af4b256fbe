--------------------------- MODULE SessionsProofs ---------------------------
(***************************************************************************)
(* Proofs about module Sessions, for every life of a token, length of a    *)
(* second and number of calls.  The argument: what LogoutUser computes     *)
(* reaches the expiry at the time it was computed, and the clock only      *)
(* moves on; a request that misses the blacklist entry of a revoked token  *)
(* is so late that it finds the token expired.                             *)
(***************************************************************************)
EXTENDS Sessions, TLAPS

Expiry(t) == t.exp * Second

(* A life that was computed still reaches the expiry of the token.         *)
LifeReachesExpiry ==
    \A c \in Calls :
        step[c] = "blacklist" => /\ call[c] \in TokenCalls
                                 /\ now + left[c] >= Expiry(call[c].token)

(* So does every entry of the blacklist.                                   *)
EntriesReachExpiry == \A t \in revoked : until[t] >= Expiry(t)

(* A request with a revoked token gets past the blacklist too late.        *)
BarredComeLate ==
    \A c \in Calls :
        barred[c] =>
            /\ step[c] # "idle"
            /\ call[c] \in TokenCalls
            /\ call[c].token \in revoked
            /\ call[c].kind = "request"
            /\ step[c] \in {"exists", "verify", "done"}
            /\ step[c] = "verify" => ~Parses(call[c].token)
            /\ answer[c] # "ok"

(* What a call is for at each of its steps; only then is it answered.      *)
CallsFitSteps ==
    \A c \in Calls :
        /\ step[c] # "done" => answer[c] = "none"
        /\ step[c] = "credentials" => call[c] \in LoginCalls
        /\ step[c] \in {"parse", "until", "blacklist", "delete", "exists", "verify"} =>
               call[c] \in TokenCalls

SessionsInv ==
    /\ SessionsTypeOK
    /\ CallsFitSteps
    /\ LifeReachesExpiry
    /\ EntriesReachExpiry
    /\ BarredComeLate
-----------------------------------------------------------------------------
(* The expiry of a token is a time.                                        *)
LEMMA ExpiryIsATime ==
    ASSUME NEW t \in Token PROVE  Expiry(t) \in Nat
<1>1. t.exp \in Nat
  BY SessionsAssumption DEF Token, Seconds
<1> QED  BY <1>1, SessionsAssumption DEF Expiry

(* Only the clock makes a token unparseable, and it does so for good.      *)
LEMMA ExpiredStaysExpired ==
    ASSUME NEW t \in Token, now \in Nat, now' \in Nat, now' >= now, ~Parses(t)
    PROVE  ~Parses(t)'
BY ExpiryIsATime DEF Parses, Expiry

(* The tokens that clients send were made by NewAccessToken.               *)
LEMMA IssuedAreTokens ==
    ASSUME SessionsTypeOK PROVE  Issued \subseteq Token
BY DEF SessionsTypeOK, Issued

(* What NewAccessToken makes is a token.                                   *)
LEMMA NewTokensAreTokens ==
    ASSUME SessionsTypeOK, NEW user \in Users PROVE  NewAccessToken(user) \in Token
<1>1. \A m, n \in Nat : m <= n => m \div Second \in 0..(n \div Second)
  BY SessionsAssumption
<1>2. now \in Nat /\ now + TokenTTL \in Nat /\ MaxTime + TokenTTL \in Nat /\ now <= MaxTime
  BY SessionsAssumption DEF SessionsTypeOK
<1>3. now \div Second \in Seconds /\ (now + TokenTTL) \div Second \in Seconds
  BY <1>1, <1>2, SessionsAssumption DEF Seconds
<1> QED  BY <1>3 DEF NewAccessToken, Token

(* Nothing is known of the first call yet.                                 *)
LEMMA SessionsInitInv == Init => SessionsInv
BY SessionsAssumption
DEF Init, SessionsInv, SessionsTypeOK, CallsFitSteps, LifeReachesExpiry, EntriesReachExpiry,
    BarredComeLate

(* A request that arrives with a revoked token is barred.                  *)
LEMMA ArriveKeepsInv ==
    ASSUME SessionsInv, NEW c \in Calls, Arrive(c)
    PROVE  SessionsInv'
<1> USE DEF SessionsInv
<1>1. now' = now /\ given' = given /\ left' = left /\ until' = until /\ rows' = rows
      /\ revoked' = revoked /\ answer' = answer /\ step[c] = "idle"
  BY DEF Arrive, ArriveLogin, ArriveLogout, ArriveRequest, Start, Continue
<1>2. \A t \in Issued : t \in Token /\ RowsOf(t.sub) \subseteq Calls
  BY IssuedAreTokens DEF RowsOf, SessionsTypeOK
<1>3. CASE ArriveLogin(c)
  <2>1. PICK q \in LoginCalls :
            /\ call' = [call EXCEPT ![c] = q]
            /\ step' = [step EXCEPT ![c] = "credentials"]
            /\ barred' = barred
            /\ earlier' = earlier
    BY <1>3 DEF ArriveLogin, Start, Continue
  <2>2. SessionsTypeOK'
    BY <1>1, <2>1 DEF SessionsTypeOK
  <2>3. CallsFitSteps'
    BY <1>1, <2>1 DEF CallsFitSteps, SessionsTypeOK
  <2>4. LifeReachesExpiry' /\ EntriesReachExpiry'
    BY <1>1, <2>1 DEF LifeReachesExpiry, EntriesReachExpiry, SessionsTypeOK, Expiry
  <2>5. BarredComeLate'
    BY <1>1, <2>1 DEF BarredComeLate, SessionsTypeOK, Parses
  <2> QED  BY <2>2, <2>3, <2>4, <2>5
<1>4. CASE ArriveLogout(c)
  <2>1. PICK t \in Issued :
            /\ call' = [call EXCEPT ![c] = [kind |-> "logout", token |-> t]]
            /\ step' = [step EXCEPT ![c] = "parse"]
            /\ barred' = barred
            /\ earlier' = [earlier EXCEPT ![c] = RowsOf(t.sub)]
    BY <1>4 DEF ArriveLogout, Start, Continue
  <2>2. [kind |-> "logout", token |-> t] \in TokenCalls
    BY <1>2 DEF TokenCalls
  <2>3. SessionsTypeOK'
    BY <1>1, <1>2, <2>1, <2>2 DEF SessionsTypeOK
  <2>4. CallsFitSteps'
    BY <1>1, <2>1, <2>2 DEF CallsFitSteps, SessionsTypeOK
  <2>5. LifeReachesExpiry' /\ EntriesReachExpiry'
    BY <1>1, <2>1 DEF LifeReachesExpiry, EntriesReachExpiry, SessionsTypeOK, Expiry
  <2>6. BarredComeLate'
    BY <1>1, <2>1 DEF BarredComeLate, SessionsTypeOK, Parses
  <2> QED  BY <2>3, <2>4, <2>5, <2>6
<1>5. CASE ArriveRequest(c)
  <2>1. PICK t \in Issued :
            /\ call' = [call EXCEPT ![c] = [kind |-> "request", token |-> t]]
            /\ step' = [step EXCEPT ![c] = "exists"]
            /\ barred' = [barred EXCEPT ![c] = t \in revoked]
            /\ earlier' = earlier
    BY <1>5 DEF ArriveRequest, Start, Continue
  <2>2. [kind |-> "request", token |-> t] \in TokenCalls
    BY <1>2 DEF TokenCalls
  <2>3. SessionsTypeOK'
    BY <1>1, <1>2, <2>1, <2>2 DEF SessionsTypeOK
  <2>4. CallsFitSteps'
    BY <1>1, <2>1, <2>2 DEF CallsFitSteps, SessionsTypeOK
  <2>5. LifeReachesExpiry' /\ EntriesReachExpiry'
    BY <1>1, <2>1 DEF LifeReachesExpiry, EntriesReachExpiry, SessionsTypeOK, Expiry
  <2>6. answer[c] # "ok"
    BY <1>1 DEF CallsFitSteps
  <2>7. BarredComeLate'
    BY <1>1, <2>1, <2>2, <2>6 DEF BarredComeLate, SessionsTypeOK, Parses
  <2> QED  BY <2>3, <2>4, <2>5, <2>7
<1> QED  BY <1>3, <1>4, <1>5 DEF Arrive

(* A call that returns or goes on to a step where nothing is claimed of    *)
(* it, and leaves the clock, the calls and the blacklist as they are.      *)
LEMMA MovingOnKeepsInv ==
    ASSUME SessionsInv, SessionsTypeOK', NEW c \in Calls, NEW s, NEW a,
           now' = now, call' = call, left' = left, until' = until, revoked' = revoked,
           barred' = barred,
           step[c] \notin {"idle", "done"},
           step' = [step EXCEPT ![c] = s],
           answer' = [answer EXCEPT ![c] = a],
           s = "done" \/ a = "none",
           s \in {"done", "save", "until", "delete", "verify"},
           s \in {"until", "delete", "verify"} => call[c] \in TokenCalls,
           s \in {"save", "until", "delete"} =>
               step[c] \in {"credentials", "parse", "until", "blacklist"},
           s = "verify" => step[c] = "exists" /\ now >= until[call[c].token],
           a = "ok" /\ barred[c] => step[c] = "verify" /\ Parses(call[c].token)
    PROVE  SessionsInv'
<1> USE DEF SessionsInv
<1>1. CallsFitSteps'
  <2>1. ASSUME NEW d \in Calls
        PROVE  /\ step'[d] # "done" => answer'[d] = "none"
               /\ step'[d] = "credentials" => call[d] \in LoginCalls
               /\ step'[d] \in {"parse", "until", "blacklist", "delete", "exists", "verify"} =>
                      call[d] \in TokenCalls
    <3>1. CASE d = c
      <4>1. step'[d] = s /\ answer'[d] = a
        BY <3>1 DEF SessionsTypeOK
      <4> QED  BY <3>1, <4>1
    <3>2. CASE d # c
      <4>1. step'[d] = step[d] /\ answer'[d] = answer[d]
        BY <3>2 DEF SessionsTypeOK
      <4> QED  BY <4>1 DEF CallsFitSteps
    <3> QED  BY <3>1, <3>2
  <2> QED  BY <2>1 DEF CallsFitSteps
<1>2. LifeReachesExpiry' /\ EntriesReachExpiry'
  BY DEF LifeReachesExpiry, EntriesReachExpiry, SessionsTypeOK, Expiry
<1>3. ASSUME NEW d \in Calls, barred'[d]
      PROVE  /\ step'[d] # "idle"
             /\ call'[d] \in TokenCalls
             /\ call'[d].token \in revoked'
             /\ call'[d].kind = "request"
             /\ step'[d] \in {"exists", "verify", "done"}
             /\ step'[d] = "verify" => ~Parses(call[d].token)
             /\ answer'[d] # "ok"
  <2>1. barred[d] /\ call[d].token \in Token
    BY <1>3 DEF BarredComeLate, TokenCalls
  <2>2. ~Parses(call[d].token) <=> now >= Expiry(call[d].token)
    BY <2>1, ExpiryIsATime DEF Parses, Expiry, SessionsTypeOK
  <2>3. until[call[d].token] >= Expiry(call[d].token)
    BY <2>1 DEF BarredComeLate, EntriesReachExpiry
  <2>4. until[call[d].token] \in Nat /\ now \in Nat /\ Expiry(call[d].token) \in Nat
    BY <2>1, ExpiryIsATime DEF SessionsTypeOK
  <2>5. d = c /\ s = "verify" => ~Parses(call[d].token)
    BY <2>2, <2>3, <2>4
  <2>6. CASE d # c
    <3>1. step'[d] = step[d] /\ answer'[d] = answer[d]
      BY <2>6 DEF SessionsTypeOK
    <3> QED  BY <2>1, <3>1 DEF BarredComeLate
  <2>7. CASE d = c
    <3>1. step'[d] = s /\ answer'[d] = a
      BY <2>7 DEF SessionsTypeOK
    <3>2. step[d] \in {"exists", "verify"}
      BY <2>1, <2>7 DEF BarredComeLate
    <3>3. step[d] = "verify" => ~Parses(call[d].token)
      BY <2>1 DEF BarredComeLate
    <3>4. /\ call[d] \in TokenCalls
          /\ call[d].token \in revoked
          /\ call[d].kind = "request"
      BY <2>1 DEF BarredComeLate
    <3> QED  BY <2>1, <2>5, <2>7, <3>1, <3>2, <3>3, <3>4
  <2> QED  BY <2>6, <2>7
<1>4. BarredComeLate'
  BY <1>3 DEF BarredComeLate, Parses
<1> QED  BY <1>1, <1>2, <1>4

(* A login claims nothing of the blacklist.                                *)
LEMMA LoginKeepsInv ==
    ASSUME SessionsInv, NEW c \in Calls, Login(c)
    PROVE  SessionsInv'
<1> USE DEF SessionsInv
<1>1. ~barred[c]
  BY DEF BarredComeLate, Login, CheckCredentials, SaveRefreshToken
<1>2. CASE CheckCredentials(c)
  <2>1. call[c].user \in Users
    BY <1>2 DEF CheckCredentials, CallsFitSteps, LoginCalls
  <2>2. given' \in [Calls -> SUBSET Token]
    BY <1>2, <2>1, NewTokensAreTokens DEF CheckCredentials, SessionsTypeOK
  <2>3. SessionsTypeOK'
    BY <1>2, <2>2 DEF CheckCredentials, SessionsTypeOK, Return, Continue
  <2>4. CASE Continue(c, "save")
    <3>1. answer' = [answer EXCEPT ![c] = "none"]
      BY <1>2, <2>4 DEF CheckCredentials, CallsFitSteps, Continue, SessionsTypeOK
    <3> QED  BY <1>1, <1>2, <2>3, <2>4, <3>1, MovingOnKeepsInv DEF CheckCredentials, Continue
  <2>5. CASE Return(c, "refused")
    BY <1>2, <2>3, <2>5, MovingOnKeepsInv DEF CheckCredentials, Return
  <2> QED  BY <1>2, <2>4, <2>5 DEF CheckCredentials
<1>3. CASE SaveRefreshToken(c)
  <2>1. rows' \subseteq Calls
    BY <1>3 DEF SaveRefreshToken, SessionsTypeOK
  <2>2. PICK a \in {"ok", "error"} : Return(c, a)
    BY <1>3 DEF SaveRefreshToken
  <2>3. SessionsTypeOK'
    BY <1>3, <2>1, <2>2 DEF SaveRefreshToken, SessionsTypeOK, Return
  <2> QED  BY <1>1, <1>3, <2>2, <2>3, MovingOnKeepsInv DEF SaveRefreshToken, Return
<1> QED  BY <1>2, <1>3 DEF Login
-----------------------------------------------------------------------------
(* The first step of a logout.                                             *)
LEMMA ParseForLogoutKeepsInv ==
    ASSUME SessionsInv, NEW c \in Calls, ParseForLogout(c)
    PROVE  SessionsInv'
<1> USE DEF SessionsInv
<1>1. /\ step[c] = "parse" /\ answer[c] = "none" /\ call[c] \in TokenCalls /\ ~barred[c]
      /\ now' = now /\ call' = call /\ left' = left /\ until' = until
      /\ revoked' = revoked /\ barred' = barred /\ given' = given /\ rows' = rows
      /\ earlier' = earlier
  BY DEF ParseForLogout, CallsFitSteps, BarredComeLate
<1>2. PICK s \in {"until", "done"}, a \in {"none", "refused"} :
          /\ step' = [step EXCEPT ![c] = s]
          /\ answer' = [answer EXCEPT ![c] = a]
          /\ s = "done" \/ a = "none"
  <2>1. CASE Continue(c, "until")
    <3>1. answer' = [answer EXCEPT ![c] = "none"]
      BY <1>1, <2>1 DEF Continue, SessionsTypeOK
    <3> QED  BY <2>1, <3>1 DEF Continue
  <2>2. CASE Return(c, "refused")
    BY <2>2 DEF Return
  <2> QED  BY <2>1, <2>2 DEF ParseForLogout
<1>3. SessionsTypeOK'
  BY <1>1, <1>2 DEF SessionsTypeOK
<1> QED  BY <1>1, <1>2, <1>3, MovingOnKeepsInv

(* The life that is computed reaches the expiry when it is computed.       *)
LEMMA ComputeLifeKeepsInv ==
    ASSUME SessionsInv, NEW c \in Calls, ComputeLife(c)
    PROVE  SessionsInv'
<1> USE DEF SessionsInv
<1>1. /\ step[c] = "until" /\ answer[c] = "none" /\ call[c] \in TokenCalls /\ ~barred[c]
      /\ now' = now /\ call' = call /\ until' = until /\ answer' = answer
      /\ revoked' = revoked /\ barred' = barred /\ given' = given /\ rows' = rows
      /\ earlier' = earlier
  BY DEF ComputeLife, CallsFitSteps, BarredComeLate, Continue
<1>2. call[c].token \in Token /\ now \in Nat /\ Expiry(call[c].token) \in Nat
  BY <1>1, ExpiryIsATime DEF TokenCalls, SessionsTypeOK
<1>3. CASE Parses(call[c].token)
  <2>1. /\ step' = [step EXCEPT ![c] = "blacklist"]
        /\ left' = [left EXCEPT ![c] = Expiry(call[c].token) - now]
    BY <1>3 DEF ComputeLife, Continue, Remaining, Expiry
  <2>2. Expiry(call[c].token) - now \in Nat
    BY <1>2, <1>3 DEF Parses, Expiry
  <2>3. SessionsTypeOK'
    BY <1>1, <2>1, <2>2 DEF SessionsTypeOK
  <2>4. CallsFitSteps'
    BY <1>1, <2>1 DEF CallsFitSteps, SessionsTypeOK
  <2>5. ASSUME NEW d \in Calls, step'[d] = "blacklist"
        PROVE  call[d] \in TokenCalls /\ now + left'[d] >= Expiry(call[d].token)
    <3>1. CASE d = c
      <4>1. left'[d] = Expiry(call[c].token) - now
        BY <2>1, <3>1 DEF SessionsTypeOK
      <4> QED  BY <1>1, <1>2, <3>1, <4>1
    <3>2. CASE d # c
      <4>1. step[d] = "blacklist" /\ left'[d] = left[d]
        BY <2>1, <2>5, <3>2 DEF SessionsTypeOK
      <4> QED  BY <4>1 DEF LifeReachesExpiry
    <3> QED  BY <3>1, <3>2
  <2>6. LifeReachesExpiry'
    BY <1>1, <2>5 DEF LifeReachesExpiry, Expiry
  <2>7. EntriesReachExpiry'
    BY <1>1 DEF EntriesReachExpiry, Expiry
  <2>8. BarredComeLate'
    BY <1>1, <2>1 DEF BarredComeLate, SessionsTypeOK, Parses
  <2> QED  BY <2>3, <2>4, <2>6, <2>7, <2>8
<1>4. CASE ~Parses(call[c].token)
  <2>1. step' = [step EXCEPT ![c] = "delete"] /\ left' = left
    BY <1>4 DEF ComputeLife, Continue
  <2>2. answer' = [answer EXCEPT ![c] = "none"]
    BY <1>1 DEF SessionsTypeOK
  <2>3. SessionsTypeOK'
    BY <1>1, <2>1 DEF SessionsTypeOK
  <2> QED  BY <1>1, <2>1, <2>2, <2>3, MovingOnKeepsInv
<1> QED  BY <1>3, <1>4

(* The entry that is made reaches the expiry, since the clock has not      *)
(* gone back; entries of other tokens stay.                                *)
LEMMA SetKeepsInv ==
    ASSUME SessionsInv, SessionsTypeOK', NEW c \in Calls, NEW s, NEW a, Set(c),
           step[c] = "blacklist",
           now' = now, call' = call, left' = left, barred' = barred,
           step' = [step EXCEPT ![c] = s],
           answer' = [answer EXCEPT ![c] = a],
           <<s, a>> \in {<<"delete", "none">>, <<"done", "error">>}
    PROVE  SessionsInv'
<1> USE DEF SessionsInv
<1>1. /\ call[c] \in TokenCalls /\ call[c].token \in Token /\ ~barred[c]
      /\ now + left[c] >= Expiry(call[c].token)
  BY DEF LifeReachesExpiry, TokenCalls, BarredComeLate
<1>2. /\ until' = [until EXCEPT ![call[c].token] = now + left[c]]
      /\ revoked' = revoked \cup {call[c].token}
  BY DEF Set
<1>3. CallsFitSteps'
  BY <1>1 DEF CallsFitSteps, SessionsTypeOK
<1>4. LifeReachesExpiry'
  BY DEF LifeReachesExpiry, SessionsTypeOK, Expiry
<1>5. ASSUME NEW t \in revoked' PROVE  until'[t] >= Expiry(t)
  <2>1. CASE t = call[c].token
    BY <1>1, <1>2, <2>1 DEF SessionsTypeOK
  <2>2. CASE t # call[c].token
    <3>1. t \in revoked /\ until'[t] = until[t]
      BY <1>2, <1>5, <2>2 DEF SessionsTypeOK
    <3> QED  BY <3>1 DEF EntriesReachExpiry
  <2> QED  BY <2>1, <2>2
<1>6. EntriesReachExpiry'
  BY <1>5 DEF EntriesReachExpiry, Expiry
<1>7. BarredComeLate'
  BY <1>1, <1>2 DEF BarredComeLate, SessionsTypeOK, Parses
<1> QED  BY <1>3, <1>4, <1>6, <1>7

(* The blacklist step, with or without an error.                           *)
LEMMA BlacklistKeepsInv ==
    ASSUME SessionsInv, NEW c \in Calls, Blacklist(c)
    PROVE  SessionsInv'
<1> USE DEF SessionsInv
<1>1. /\ step[c] = "blacklist" /\ answer[c] = "none" /\ call[c] \in TokenCalls /\ ~barred[c]
      /\ now' = now /\ call' = call /\ left' = left
      /\ barred' = barred /\ given' = given /\ rows' = rows /\ earlier' = earlier
  BY DEF Blacklist, CallsFitSteps, BarredComeLate
<1>2. call[c].token \in Token /\ now + left[c] \in Nat
  BY <1>1 DEF TokenCalls, SessionsTypeOK
<1>3. Continue(c, "delete") => answer' = [answer EXCEPT ![c] = "none"]
  BY <1>1 DEF Continue, SessionsTypeOK
<1>4. PICK s \in {"delete", "done"}, a \in {"none", "error"} :
          /\ step' = [step EXCEPT ![c] = s]
          /\ answer' = [answer EXCEPT ![c] = a]
          /\ <<s, a>> \in {<<"delete", "none">>, <<"done", "error">>}
  <2>1. CASE Continue(c, "delete")
    BY <1>3, <2>1 DEF Continue
  <2>2. CASE Return(c, "error")
    BY <2>2 DEF Return
  <2> QED  BY <2>1, <2>2 DEF Blacklist
<1>5. CASE Set(c)
  <2>1. until' \in [Token -> Nat] /\ revoked' \subseteq Token
    BY <1>2, <1>5 DEF Set, SessionsTypeOK
  <2>2. SessionsTypeOK'
    BY <1>1, <1>4, <2>1 DEF SessionsTypeOK
  <2> QED  BY <1>1, <1>4, <1>5, <2>2, SetKeepsInv
<1>6. CASE until' = until /\ revoked' = revoked
  <2>1. SessionsTypeOK'
    BY <1>1, <1>4, <1>6 DEF SessionsTypeOK
  <2> QED  BY <1>1, <1>4, <1>6, <2>1, MovingOnKeepsInv
<1> QED  BY <1>5, <1>6 DEF Blacklist

(* The last step of a logout.                                              *)
LEMMA DeleteRefreshTokenKeepsInv ==
    ASSUME SessionsInv, NEW c \in Calls, DeleteRefreshToken(c)
    PROVE  SessionsInv'
<1> USE DEF SessionsInv
<1>1. /\ step[c] = "delete" /\ ~barred[c]
      /\ now' = now /\ call' = call /\ left' = left /\ until' = until
      /\ revoked' = revoked /\ barred' = barred /\ given' = given /\ earlier' = earlier
  BY DEF DeleteRefreshToken, BarredComeLate
<1>2. rows' \subseteq Calls
  BY DEF DeleteRefreshToken, SessionsTypeOK
<1>3. PICK a \in {"ok", "error"} : Return(c, a)
  BY DEF DeleteRefreshToken
<1>4. SessionsTypeOK'
  BY <1>1, <1>2, <1>3 DEF SessionsTypeOK, Return
<1> QED  BY <1>1, <1>3, <1>4, MovingOnKeepsInv DEF Return
-----------------------------------------------------------------------------
(* A request that misses an entry has come after the expiry.               *)
LEMMA LookUpKeepsInv ==
    ASSUME SessionsInv, NEW c \in Calls, LookUp(c)
    PROVE  SessionsInv'
<1> USE DEF SessionsInv
<1>1. /\ step[c] = "exists" /\ answer[c] = "none" /\ call[c] \in TokenCalls
      /\ now' = now /\ call' = call /\ left' = left /\ until' = until
      /\ revoked' = revoked /\ barred' = barred /\ given' = given /\ rows' = rows
      /\ earlier' = earlier
  BY DEF LookUp, CallsFitSteps
<1>2. CASE now >= until[call[c].token] /\ Continue(c, "verify")
  <2>1. step' = [step EXCEPT ![c] = "verify"] /\ answer' = [answer EXCEPT ![c] = "none"]
    BY <1>1, <1>2 DEF Continue, SessionsTypeOK
  <2>2. SessionsTypeOK'
    BY <1>1, <2>1 DEF SessionsTypeOK
  <2> QED  BY <1>1, <1>2, <2>1, <2>2, MovingOnKeepsInv
<1>3. ASSUME NEW a \in {"error", "refused"}, Return(c, a) PROVE  SessionsInv'
  <2>1. SessionsTypeOK'
    BY <1>1, <1>3 DEF SessionsTypeOK, Return
  <2> QED  BY <1>1, <1>3, <2>1, MovingOnKeepsInv DEF Return
<1> QED  BY <1>2, <1>3 DEF LookUp

(* A request is let in only with a token that has not expired.             *)
LEMMA VerifyKeepsInv ==
    ASSUME SessionsInv, NEW c \in Calls, Verify(c)
    PROVE  SessionsInv'
<1> USE DEF SessionsInv
<1>1. /\ step[c] = "verify"
      /\ now' = now /\ call' = call /\ left' = left /\ until' = until
      /\ revoked' = revoked /\ barred' = barred /\ given' = given /\ rows' = rows
      /\ earlier' = earlier
  BY DEF Verify
<1>2. PICK a \in {"ok", "refused"} :
          /\ step' = [step EXCEPT ![c] = "done"]
          /\ answer' = [answer EXCEPT ![c] = a]
          /\ a = "ok" => Parses(call[c].token)
  BY DEF Verify, Return
<1>3. SessionsTypeOK'
  BY <1>1, <1>2 DEF SessionsTypeOK
<1> QED  BY <1>1, <1>2, <1>3, MovingOnKeepsInv

(* Time passes: what has expired stays expired.                            *)
LEMMA TickKeepsInv ==
    ASSUME SessionsInv, Tick
    PROVE  SessionsInv'
<1> USE DEF SessionsInv
<1>1. /\ now < MaxTime /\ now' = now + 1 /\ call' = call /\ step' = step /\ given' = given
      /\ left' = left /\ answer' = answer /\ until' = until /\ rows' = rows
      /\ revoked' = revoked /\ barred' = barred /\ earlier' = earlier
  BY DEF Tick
<1>2. now \in Nat /\ now' \in Nat /\ now' >= now /\ now' \in 0..MaxTime
  BY <1>1, SessionsAssumption DEF SessionsTypeOK
<1>3. SessionsTypeOK'
  BY <1>1, <1>2 DEF SessionsTypeOK
<1>4. CallsFitSteps' /\ EntriesReachExpiry'
  BY <1>1 DEF CallsFitSteps, EntriesReachExpiry, Expiry
<1>5. ASSUME NEW c \in Calls, step[c] = "blacklist"
      PROVE  call[c] \in TokenCalls /\ now' + left[c] >= Expiry(call[c].token)
  <2>1. call[c] \in TokenCalls /\ now + left[c] >= Expiry(call[c].token)
    BY <1>5 DEF LifeReachesExpiry
  <2>2. left[c] \in Nat /\ Expiry(call[c].token) \in Nat
    BY <2>1, ExpiryIsATime DEF SessionsTypeOK, TokenCalls
  <2> QED  BY <1>1, <1>2, <2>1, <2>2
<1>6. LifeReachesExpiry'
  BY <1>1, <1>5 DEF LifeReachesExpiry, Expiry
<1>7. ASSUME NEW c \in Calls, barred[c], step[c] = "verify"
      PROVE  ~Parses(call[c].token)'
  <2>1. ~Parses(call[c].token) /\ call[c].token \in Token
    BY <1>7 DEF BarredComeLate, TokenCalls
  <2>2. Expiry(call[c].token) \in Nat /\ now >= Expiry(call[c].token)
    BY <1>2, <2>1, ExpiryIsATime DEF Parses, Expiry
  <2> QED  BY <1>1, <1>2, <2>2 DEF Parses, Expiry
<1>8. BarredComeLate'
  BY <1>1, <1>7 DEF BarredComeLate, Parses
<1> QED  BY <1>3, <1>4, <1>6, <1>8
-----------------------------------------------------------------------------
(* Every step keeps the invariant.                                         *)
LEMMA SessionsNextKeepsInv == SessionsInv /\ [Next]_vars => SessionsInv'
<1> SUFFICES ASSUME SessionsInv, [Next]_vars PROVE  SessionsInv'
  OBVIOUS
<1>1. ASSUME NEW c \in Calls, Arrive(c) PROVE  SessionsInv'
  BY <1>1, ArriveKeepsInv
<1>2. ASSUME NEW c \in Calls, Login(c) PROVE  SessionsInv'
  BY <1>2, LoginKeepsInv
<1>3. ASSUME NEW c \in Calls, Logout(c) PROVE  SessionsInv'
  BY <1>3, ParseForLogoutKeepsInv, ComputeLifeKeepsInv, BlacklistKeepsInv,
     DeleteRefreshTokenKeepsInv
  DEF Logout
<1>4. ASSUME NEW c \in Calls, JWTAuth(c) PROVE  SessionsInv'
  BY <1>4, LookUpKeepsInv, VerifyKeepsInv DEF JWTAuth
<1>5. CASE Tick
  BY <1>5, TickKeepsInv
<1>6. CASE UNCHANGED vars
  BY <1>6
  DEF vars, SessionsInv, SessionsTypeOK, CallsFitSteps, LifeReachesExpiry,
      EntriesReachExpiry, BarredComeLate, Parses, Expiry
<1> QED  BY <1>1, <1>2, <1>3, <1>4, <1>5, <1>6 DEF Next

(* The invariant of the access tokens.                                     *)
THEOREM SessionsInvariant == Spec => []SessionsInv
BY SessionsInitInv, SessionsNextKeepsInv, PTL DEF Spec

(* The variables have their types, the claims of a token included: the     *)
(* second of its expiry is one that the clock and its life allow.          *)
THEOREM SessionsTypeCorrect == Spec => []SessionsTypeOK
<1>1. SessionsInv => SessionsTypeOK
  BY DEF SessionsInv
<1> QED  BY <1>1, SessionsInvariant, PTL

(* A token that LogoutUser blacklisted stays in the blacklist for as long  *)
(* as it can be parsed, whatever time passes before Redis is told.         *)
THEOREM BlacklistOutlives == Spec => []BlacklistOutlivesToken
<1>1. SessionsInv => BlacklistOutlivesToken
  <2> SUFFICES ASSUME SessionsInv, NEW t \in revoked
               PROVE  now < until[t] \/ ~Parses(t)
    BY DEF BlacklistOutlivesToken
  <2>1. t \in Token /\ now \in Nat /\ until[t] \in Nat /\ until[t] >= Expiry(t)
    BY DEF SessionsInv, SessionsTypeOK, EntriesReachExpiry
  <2> QED  BY <2>1, ExpiryIsATime DEF Parses, Expiry
<1> QED  BY <1>1, SessionsInvariant, PTL

(* JWTAuth lets no request in that came after its token was blacklisted.   *)
THEOREM RevokedTokensStayOut == Spec => []RevokedStaysOut
<1>1. SessionsInv => RevokedStaysOut
  BY DEF SessionsInv, BarredComeLate, RevokedStaysOut
<1> QED  BY <1>1, SessionsInvariant, PTL
-----------------------------------------------------------------------------
(* Each step belongs to one kind of call.                                  *)
StepsFitKinds ==
    \A c \in Calls :
        /\ step[c] \in {"credentials", "save"} => call[c] \in LoginCalls
        /\ step[c] \in {"parse", "until", "blacklist", "delete"} => call[c].kind = "logout"
        /\ step[c] \in {"exists", "verify"} => call[c].kind = "request"

(* A row was made by a login that is over, and that makes no other.        *)
RowsAreOfLogins ==
    \A d \in rows : step[d] = "done" /\ call[d] \in LoginCalls

(* So are the rows a logout has to remove, for good: all were of its user. *)
EarlierAreOfTheUser ==
    \A c \in Calls : \A d \in earlier[c] :
        /\ step[d] = "done" /\ call[d] \in LoginCalls
        /\ step[c] # "idle"
        /\ call[c] \in TokenCalls /\ call[d].user = call[c].token.sub

IsLogout(c) == call[c] # NoCall /\ call[c].kind = "logout"

(* A logout that gets as far as the rows leaves a token of no use.         *)
TokenIsSpent(c) == call[c].token \in revoked \/ ~Parses(call[c].token)

LogoutsSpendTokens ==
    \A c \in Calls : IsLogout(c) /\ (step[c] = "delete" \/ answer[c] = "ok") => TokenIsSpent(c)

LogoutsRemoveRows ==
    \A c \in Calls : IsLogout(c) /\ answer[c] = "ok" => earlier[c] \cap rows = {}

LogoutInv ==
    /\ StepsFitKinds
    /\ RowsAreOfLogins
    /\ EarlierAreOfTheUser
    /\ LogoutsSpendTokens
    /\ LogoutsRemoveRows

(* A token that is spent stays so.                                         *)
LEMMA SpentStaysSpent ==
    ASSUME SessionsInv, SessionsInv', NEW c \in Calls, call[c] \in TokenCalls,
           call'[c] = call[c], now' >= now, revoked \subseteq revoked', TokenIsSpent(c)
    PROVE  TokenIsSpent(c)'
<1>1. call[c].token \in Token /\ now \in Nat /\ now' \in Nat
  BY DEF TokenCalls, SessionsInv, SessionsTypeOK
<1>2. Expiry(call[c].token) \in Nat
  BY <1>1, ExpiryIsATime
<1> QED  BY <1>1, <1>2 DEF TokenIsSpent, Parses, Expiry

(* The record of a logout is one of a call with a token.                   *)
LEMMA LogoutsHaveTokens ==
    ASSUME SessionsTypeOK, NEW c \in Calls, IsLogout(c)
    PROVE  call[c] \in TokenCalls
BY DEF SessionsTypeOK, IsLogout, LoginCalls

(* Nothing is known of logouts before the first call.                      *)
LEMMA LogoutInitInv == Init => LogoutInv
BY DEF Init, LogoutInv, StepsFitKinds, RowsAreOfLogins, EarlierAreOfTheUser, IsLogout,
       LogoutsSpendTokens, LogoutsRemoveRows

(* A logout notes the rows its user has when it arrives.                   *)
LEMMA ArriveKeepsLogouts ==
    ASSUME SessionsInv, SessionsInv', LogoutInv, NEW c \in Calls, Arrive(c)
    PROVE  LogoutInv'
<1> USE DEF SessionsInv, LogoutInv
<1>1. /\ step[c] = "idle" /\ answer[c] = "none" /\ c \notin rows
      /\ now' = now /\ answer' = answer /\ rows' = rows /\ revoked' = revoked
  BY DEF Arrive, ArriveLogin, ArriveLogout, ArriveRequest, Start, Continue, CallsFitSteps,
         RowsAreOfLogins
<1>2. PICK q \in LoginCalls \cup TokenCalls,
           s \in {"credentials", "parse", "exists"}, e \in SUBSET Calls :
          /\ call' = [call EXCEPT ![c] = q]
          /\ step' = [step EXCEPT ![c] = s]
          /\ earlier' = [earlier EXCEPT ![c] = e]
          /\ \/ s = "credentials" /\ q \in LoginCalls /\ e = earlier[c]
             \/ s = "parse" /\ q \in TokenCalls /\ q.kind = "logout" /\ e = RowsOf(q.token.sub)
             \/ s = "exists" /\ q \in TokenCalls /\ q.kind = "request" /\ e = earlier[c]
  <2>1. earlier[c] \in SUBSET Calls /\ earlier = [earlier EXCEPT ![c] = earlier[c]]
    BY DEF SessionsTypeOK
  <2>2. CASE ArriveLogin(c)
    BY <2>1, <2>2 DEF ArriveLogin, Start, Continue
  <2>3. CASE ArriveLogout(c)
    <3>1. PICK t \in Issued : /\ Start(c, [kind |-> "logout", token |-> t], "parse")
                              /\ earlier' = [earlier EXCEPT ![c] = RowsOf(t.sub)]
      BY <2>3 DEF ArriveLogout
    <3> DEFINE u == [kind |-> "logout", token |-> t]
    <3>2. u \in TokenCalls /\ u.kind = "logout" /\ u.token = t /\ RowsOf(t.sub) \in SUBSET Calls
      BY IssuedAreTokens DEF TokenCalls, RowsOf, SessionsTypeOK
    <3>3. /\ call' = [call EXCEPT ![c] = u] /\ step' = [step EXCEPT ![c] = "parse"]
          /\ earlier' = [earlier EXCEPT ![c] = RowsOf(u.token.sub)]
      BY <3>1, <3>2 DEF Start, Continue
    <3> HIDE DEF u
    <3> QED  BY <3>2, <3>3
  <2>4. CASE ArriveRequest(c)
    <3>1. PICK t \in Issued : Start(c, [kind |-> "request", token |-> t], "exists")
      BY <2>4 DEF ArriveRequest
    <3> DEFINE u == [kind |-> "request", token |-> t]
    <3>2. u \in TokenCalls /\ u.kind = "request"
      BY IssuedAreTokens DEF TokenCalls
    <3>3. /\ call' = [call EXCEPT ![c] = u] /\ step' = [step EXCEPT ![c] = "exists"]
          /\ earlier' = earlier
      BY <2>4, <3>1 DEF ArriveRequest, Start, Continue
    <3> HIDE DEF u
    <3> QED  BY <2>1, <3>2, <3>3
  <2> QED  BY <2>2, <2>3, <2>4 DEF Arrive
<1>3. /\ call'[c] = q /\ step'[c] = s /\ earlier'[c] = e
      /\ \A d \in Calls \ {c} : call'[d] = call[d] /\ step'[d] = step[d] /\ earlier'[d] = earlier[d]
  BY <1>2 DEF SessionsTypeOK
<1>4. StepsFitKinds' /\ RowsAreOfLogins'
  BY <1>1, <1>2, <1>3 DEF StepsFitKinds, RowsAreOfLogins, SessionsTypeOK
<1>5. earlier[c] = {}
  BY <1>1 DEF EarlierAreOfTheUser
<1>6. ASSUME NEW b \in Calls, NEW d \in earlier'[b]
      PROVE  /\ step'[d] = "done" /\ call'[d] \in LoginCalls
             /\ step'[b] # "idle"
             /\ call'[b] \in TokenCalls /\ call'[d].user = call'[b].token.sub
  <2>1. CASE b = c
    <3>1. d \in RowsOf(q.token.sub) /\ s = "parse" /\ q \in TokenCalls
      BY <1>2, <1>3, <1>5, <1>6, <2>1
    <3>2. d \in rows /\ call[d].user = q.token.sub /\ d # c
      BY <1>1, <3>1 DEF RowsOf
    <3> QED  BY <1>3, <2>1, <3>1, <3>2 DEF RowsAreOfLogins, SessionsTypeOK
  <2>2. CASE b # c
    <3>1. d \in earlier[b] /\ d \in Calls
      BY <1>3, <1>6, <2>2 DEF SessionsTypeOK
    <3>2. d # c
      BY <1>1, <3>1 DEF EarlierAreOfTheUser
    <3> QED  BY <1>3, <2>2, <3>1, <3>2 DEF EarlierAreOfTheUser
  <2> QED  BY <2>1, <2>2
<1>7. EarlierAreOfTheUser'
  BY <1>6 DEF EarlierAreOfTheUser
<1>8. LogoutsSpendTokens' /\ LogoutsRemoveRows'
  BY <1>1, <1>2, <1>3
  DEF LogoutsSpendTokens, LogoutsRemoveRows, IsLogout, TokenIsSpent, Parses
<1> QED  BY <1>4, <1>7, <1>8

(* What a call may do to rows and tokens as it moves on or returns.        *)
LEMMA MovingOnKeepsLogouts ==
    ASSUME SessionsInv, SessionsInv', LogoutInv, NEW c \in Calls, NEW s, NEW a,
           step[c] \notin {"idle", "done"}, s # "idle",
           now' = now, call' = call, earlier' = earlier, revoked \subseteq revoked',
           step' = [step EXCEPT ![c] = s],
           answer' = [answer EXCEPT ![c] = a],
           s \in {"credentials", "save"} => call[c] \in LoginCalls,
           s \in {"parse", "until", "blacklist", "delete"} => call[c].kind = "logout",
           s \in {"exists", "verify"} => call[c].kind = "request",
           rows' \subseteq rows \cup {c},
           c \in rows' => s = "done" /\ call[c] \in LoginCalls,
           IsLogout(c) /\ (s = "delete" \/ a = "ok") => TokenIsSpent(c)',
           IsLogout(c) /\ a = "ok" => earlier[c] \cap rows' = {}
    PROVE  LogoutInv'
<1> USE DEF SessionsInv, LogoutInv
<1>1. /\ step'[c] = s /\ answer'[c] = a
      /\ \A d \in Calls \ {c} : step'[d] = step[d] /\ answer'[d] = answer[d]
  BY DEF SessionsTypeOK
<1>2. StepsFitKinds' /\ RowsAreOfLogins'
  BY <1>1 DEF StepsFitKinds, RowsAreOfLogins, SessionsTypeOK
<1>3. EarlierAreOfTheUser'
  <2> SUFFICES ASSUME NEW b \in Calls, NEW d \in earlier[b]
               PROVE  /\ step'[d] = "done" /\ call[d] \in LoginCalls
                      /\ step'[b] # "idle"
                      /\ call[b] \in TokenCalls /\ call[d].user = call[b].token.sub
    BY DEF EarlierAreOfTheUser
  <2>1. /\ d \in Calls /\ step[d] = "done" /\ call[d] \in LoginCalls /\ step[b] # "idle"
        /\ call[b] \in TokenCalls /\ call[d].user = call[b].token.sub
    BY DEF EarlierAreOfTheUser, SessionsTypeOK
  <2> QED  BY <1>1, <2>1
<1>4. ASSUME NEW d \in Calls, IsLogout(d), step'[d] = "delete" \/ answer'[d] = "ok"
      PROVE  TokenIsSpent(d)'
  <2>1. CASE d = c
    BY <1>1, <1>4, <2>1
  <2>2. CASE d # c
    <3>1. TokenIsSpent(d) /\ call[d] \in TokenCalls
      BY <1>1, <1>4, <2>2, LogoutsHaveTokens DEF LogoutsSpendTokens
    <3>2. now' >= now
      BY DEF SessionsTypeOK
    <3> QED  BY <3>1, <3>2, SpentStaysSpent
  <2> QED  BY <2>1, <2>2
<1>5. LogoutsSpendTokens'
  BY <1>4 DEF LogoutsSpendTokens, IsLogout
<1>6. ASSUME NEW d \in Calls, IsLogout(d), answer'[d] = "ok" PROVE earlier[d] \cap rows' = {}
  <2>1. CASE d = c
    BY <1>1, <1>6, <2>1
  <2>2. CASE d # c
    <3>1. earlier[d] \cap rows = {}
      BY <1>1, <1>6, <2>2 DEF LogoutsRemoveRows
    <3>2. c \notin earlier[d]
      BY DEF EarlierAreOfTheUser
    <3> QED  BY <3>1, <3>2
  <2> QED  BY <2>1, <2>2
<1>7. LogoutsRemoveRows'
  BY <1>6 DEF LogoutsRemoveRows, IsLogout
<1> QED  BY <1>2, <1>3, <1>5, <1>7
(* A login makes a row at most, of its own, when it ends.                  *)
LEMMA LoginKeepsLogouts ==
    ASSUME SessionsInv, SessionsInv', LogoutInv, NEW c \in Calls, Login(c)
    PROVE  LogoutInv'
<1>1. /\ now' = now /\ call' = call /\ earlier' = earlier /\ revoked' = revoked
      /\ call[c] \in LoginCalls /\ step[c] \notin {"idle", "done"} /\ c \notin rows
      /\ answer = [answer EXCEPT ![c] = "none"]
  BY DEF Login, CheckCredentials, SaveRefreshToken, LogoutInv, StepsFitKinds, RowsAreOfLogins,
         SessionsInv, CallsFitSteps, SessionsTypeOK
<1>2. ~IsLogout(c)
  BY <1>1 DEF IsLogout, LoginCalls
<1>3. CASE CheckCredentials(c)
  <2>1. rows' = rows
    BY <1>3 DEF CheckCredentials
  <2>2. CASE Continue(c, "save")
    BY <1>1, <1>2, <2>1, <2>2, MovingOnKeepsLogouts DEF Continue
  <2>3. CASE Return(c, "refused")
    BY <1>1, <1>2, <2>1, <2>3, MovingOnKeepsLogouts DEF Return
  <2> QED  BY <1>3, <2>2, <2>3 DEF CheckCredentials
<1>4. CASE SaveRefreshToken(c)
  <2>1. rows' \subseteq rows \cup {c}
    BY <1>4 DEF SaveRefreshToken
  <2>2. PICK a \in {"ok", "error"} : Return(c, a)
    BY <1>4 DEF SaveRefreshToken
  <2> QED  BY <1>1, <1>2, <2>1, <2>2, MovingOnKeepsLogouts DEF Return
<1> QED  BY <1>3, <1>4 DEF Login

(* A logout does without the blacklist for an expired token only, and      *)
(* returns once the rows of the user are gone.                             *)
LEMMA LogoutKeepsLogouts ==
    ASSUME SessionsInv, SessionsInv', LogoutInv, NEW c \in Calls, Logout(c)
    PROVE  LogoutInv'
<1>1. /\ now' = now /\ call' = call /\ earlier' = earlier /\ revoked \subseteq revoked'
      /\ call[c] \in TokenCalls /\ call[c].kind = "logout"
      /\ step[c] \in {"parse", "until", "blacklist", "delete"} /\ c \notin rows
      /\ answer = [answer EXCEPT ![c] = "none"]
  BY DEF Logout, ParseForLogout, ComputeLife, Blacklist, DeleteRefreshToken, Set, LogoutInv,
         StepsFitKinds, RowsAreOfLogins, SessionsInv, CallsFitSteps, SessionsTypeOK
<1>2. ASSUME NEW s \in {"until", "blacklist", "delete"}, Continue(c, s), rows' = rows,
             s = "delete" => TokenIsSpent(c)'
      PROVE  LogoutInv'
  BY <1>1, <1>2, MovingOnKeepsLogouts DEF Continue
<1>3. ASSUME NEW a \in {"refused", "error"}, Return(c, a), rows' \subseteq rows
      PROVE  LogoutInv'
  BY <1>1, <1>3, MovingOnKeepsLogouts DEF Return
<1>4. CASE ParseForLogout(c)
  BY <1>2, <1>3, <1>4 DEF ParseForLogout
<1>5. CASE ComputeLife(c)
  <2>1. ~Parses(call[c].token) => TokenIsSpent(c)'
    BY <1>1 DEF TokenIsSpent, Parses
  <2> QED  BY <1>2, <1>5, <2>1 DEF ComputeLife
<1>6. CASE Blacklist(c)
  <2>1. Set(c) => TokenIsSpent(c)'
    BY <1>1 DEF TokenIsSpent, Set
  <2> QED  BY <1>2, <1>3, <1>6, <2>1 DEF Blacklist
<1>7. CASE DeleteRefreshToken(c)
  <2>1. step[c] = "delete" /\ revoked' = revoked
    BY <1>7 DEF DeleteRefreshToken
  <2>2. CASE rows' = rows \ RowsOf(call[c].token.sub) /\ Return(c, "ok")
    <3>1. earlier[c] \cap rows \subseteq RowsOf(call[c].token.sub)
      BY DEF LogoutInv, EarlierAreOfTheUser, RowsOf
    <3>2. IsLogout(c) => TokenIsSpent(c)
      BY <2>1 DEF LogoutInv, LogoutsSpendTokens
    <3>3. IsLogout(c) => TokenIsSpent(c)'
      BY <1>1, <2>1, <3>2 DEF TokenIsSpent, Parses
    <3> QED  BY <1>1, <2>2, <3>1, <3>3, MovingOnKeepsLogouts DEF Return
  <2>3. CASE rows' \in {rows, rows \ RowsOf(call[c].token.sub)} /\ Return(c, "error")
    BY <1>3, <2>3
  <2> QED  BY <1>7, <2>2, <2>3 DEF DeleteRefreshToken
<1> QED  BY <1>4, <1>5, <1>6, <1>7 DEF Logout

(* A request has no part in it.                                            *)
LEMMA RequestKeepsLogouts ==
    ASSUME SessionsInv, SessionsInv', LogoutInv, NEW c \in Calls, JWTAuth(c)
    PROVE  LogoutInv'
<1>1. /\ now' = now /\ call' = call /\ earlier' = earlier /\ revoked' = revoked
      /\ rows' = rows /\ call[c].kind = "request"
      /\ step[c] \in {"exists", "verify"} /\ c \notin rows
      /\ answer = [answer EXCEPT ![c] = "none"]
  BY DEF JWTAuth, LookUp, Verify, LogoutInv, StepsFitKinds, RowsAreOfLogins, SessionsInv,
         CallsFitSteps, SessionsTypeOK
<1>2. ~IsLogout(c)
  BY <1>1 DEF IsLogout
<1>3. Continue(c, "verify") \/ \E a \in {"ok", "refused", "error"} : Return(c, a)
  BY DEF JWTAuth, LookUp, Verify
<1>4. CASE Continue(c, "verify")
  BY <1>1, <1>2, <1>4, MovingOnKeepsLogouts DEF Continue
<1>5. ASSUME NEW a \in {"ok", "refused", "error"}, Return(c, a) PROVE LogoutInv'
  BY <1>1, <1>2, <1>5, MovingOnKeepsLogouts DEF Return
<1> QED  BY <1>3, <1>4, <1>5

(* Time passes: a spent token stays spent.                                 *)
LEMMA TickKeepsLogouts ==
    ASSUME SessionsInv, SessionsInv', LogoutInv, Tick
    PROVE  LogoutInv'
<1> USE DEF LogoutInv
<1>1. /\ now' = now + 1 /\ call' = call /\ step' = step /\ answer' = answer /\ rows' = rows
      /\ revoked' = revoked /\ earlier' = earlier /\ now \in Nat
  BY DEF Tick, SessionsInv, SessionsTypeOK
<1>2. StepsFitKinds' /\ RowsAreOfLogins' /\ EarlierAreOfTheUser' /\ LogoutsRemoveRows'
  BY <1>1 DEF StepsFitKinds, RowsAreOfLogins, EarlierAreOfTheUser, LogoutsRemoveRows, IsLogout
<1>3. ASSUME NEW c \in Calls, IsLogout(c), step[c] = "delete" \/ answer[c] = "ok"
      PROVE  TokenIsSpent(c)'
  <2>1. TokenIsSpent(c) /\ call[c] \in TokenCalls
    BY <1>3, LogoutsHaveTokens DEF LogoutsSpendTokens, SessionsInv
  <2> QED  BY <1>1, <2>1, SpentStaysSpent
<1>4. LogoutsSpendTokens'
  BY <1>1, <1>3 DEF LogoutsSpendTokens, IsLogout
<1> QED  BY <1>2, <1>4

(* Every step keeps what is claimed of logouts.                            *)
LEMMA LogoutNextKeepsInv ==
    ASSUME SessionsInv, SessionsInv', LogoutInv, [Next]_vars
    PROVE  LogoutInv'
<1>1. CASE UNCHANGED vars
  BY <1>1
  DEF vars, LogoutInv, StepsFitKinds, RowsAreOfLogins, EarlierAreOfTheUser, IsLogout,
      LogoutsSpendTokens, LogoutsRemoveRows, TokenIsSpent, Parses
<1> QED
  BY <1>1, ArriveKeepsLogouts, LoginKeepsLogouts, LogoutKeepsLogouts, RequestKeepsLogouts,
     TickKeepsLogouts
  DEF Next

(* A logout that LogoutUser reports as done leaves none of the refresh     *)
(* tokens the user had when it began, and its own access token is either   *)
(* in the blacklist or no longer parsed, then and for ever.                *)
THEOREM LogoutsAreComplete == Spec => []LogoutIsComplete
<1>1. SessionsInv /\ LogoutInv => LogoutIsComplete
  <2> SUFFICES ASSUME SessionsInv, LogoutInv,
                      NEW c \in Calls, IsLogout(c), answer[c] = "ok"
               PROVE  /\ earlier[c] \cap rows = {}
                      /\ now < until[call[c].token] \/ ~Parses(call[c].token)
    BY DEF LogoutIsComplete, IsLogout
  <2>1. earlier[c] \cap rows = {} /\ TokenIsSpent(c)
    BY DEF LogoutInv, LogoutsRemoveRows, LogoutsSpendTokens
  <2>2. call[c].token \in Token /\ now \in Nat /\ until[call[c].token] \in Nat
    BY LogoutsHaveTokens DEF SessionsInv, SessionsTypeOK, TokenCalls
  <2>3. call[c].token \in revoked => until[call[c].token] >= Expiry(call[c].token)
    BY DEF SessionsInv, EntriesReachExpiry
  <2> QED  BY <2>1, <2>2, <2>3, ExpiryIsATime DEF TokenIsSpent, Parses, Expiry
<1>2. SessionsInv /\ SessionsInv' /\ LogoutInv /\ [Next]_vars => LogoutInv'
  BY LogoutNextKeepsInv
<1> QED  BY <1>1, <1>2, LogoutInitInv, SessionsInvariant, PTL DEF Spec
=============================================================================
