----------------------------- MODULE CloudSession -----------------------------
(***************************************************************************)
(* The signed-in session of the cloud account (cloud_auth.rs): calls that  *)
(* refresh the access token when they get a 401, the loop that refreshes   *)
(* it beforehand, sign-in and sign-out.  The tokens are files that each of *)
(* them reads and writes; refresh_lock covers a refresh and nothing else.  *)
(*                                                                         *)
(* A token is the session it belongs to and its number in it.  The server, *)
(* known from its use, rotates: a refresh token works once, and another    *)
(* one comes with the next access token.                                   *)
(***************************************************************************)
EXTENDS Naturals

CONSTANTS
  Clients,      \* tasks that call the cloud API
  Loop,         \* start_sync_token_refresh_loop
  Nothing,      \* no holder of refresh_lock
  MaxSessions,  \* bound: sign-ins
  MaxRotations, \* bound: rotations of a session
  MaxTroubles   \* bound: lost responses and crashes

ASSUME SessionAssumption ==
  /\ Loop \notin Clients /\ Nothing \notin Clients \cup {Loop}
  /\ MaxSessions \in Nat /\ MaxRotations \in Nat /\ MaxTroubles \in Nat

Actors == Clients \cup {Loop}
Sessions == 1 .. MaxSessions
NoSession == 0
Tokens == [session : Sessions, number : 0 .. MaxRotations]
NoToken == [session |-> NoSession, number |-> 0]
MaybeToken == Tokens \cup {NoToken}

VARIABLES
  opened, closed, \* the server: sessions opened so far, and those that are closed
  current,        \* the number of each session's refresh token
  accepts,        \* the least number of an access token that has not expired
  access, refresh, syncToken, \* the files of the tokens; of the third only whose it is
  authFile,       \* cloud_auth_state.json: the session signed in to, and whose profile it shows
  auth,           \* the same in memory
  act,            \* what each actor is doing
  refreshLock,
  user,           \* the sign-in or sign-out under way
  troubles,       \* counter of the bound
  flaws           \* history: what the properties leave out

serverVars == <<opened, closed, current, accepts>>
tokenFiles == <<access, refresh, syncToken, authFile>>
sessionVars == <<serverVars, tokenFiles, auth, act, refreshLock, user, troubles, flaws>>

NoAuth == [session |-> NoSession, profile |-> NoSession]
Auths == [session : Sessions, profile : Sessions] \cup {NoAuth}
Idle == [step |-> "idle", kind |-> "sync", token |-> NoToken]
Nowhere == [step |-> "none", token |-> NoToken]

\* The steps at which an actor has a token in hand.
Carrying == {"request", "again", "sent", "answered", "stored", "accepted"}

SessionTypeOK ==
  /\ opened \in 0 .. MaxSessions /\ closed \subseteq Sessions
  /\ current \in [Sessions -> 0 .. MaxRotations]
  /\ accepts \in [Sessions -> 0 .. MaxRotations + 1]
  /\ access \in MaybeToken /\ refresh \in MaybeToken
  /\ syncToken \in Sessions \cup {NoSession}
  /\ authFile \in Auths /\ auth \in Auths
  /\ act \in [Actors -> [step : {"idle", "request", "again", "compare", "lock", "load", "sent",
                                 "answered", "stored", "retry", "accepted", "invalidate"},
                         kind : {"sync", "profile"}, token : MaybeToken]]
  /\ \A c \in Actors : act[c].step \in Carrying => act[c].token # NoToken
  /\ refreshLock \in Actors \cup {Nothing}
  /\ user \in [step : {"none", "exchanged", "kept", "filed", "leaving"},
               token : MaybeToken]
  /\ user.step \in {"exchanged", "kept", "filed"} => user.token # NoToken
  /\ troubles \in 0 .. MaxTroubles
  /\ flaws \subseteq {"inFlight", "lost", "crashed"}

SessionInit ==
  /\ opened = 0 /\ closed = {}
  /\ current = [s \in Sessions |-> 0] /\ accepts = [s \in Sessions |-> 0]
  /\ access = NoToken /\ refresh = NoToken /\ syncToken = NoSession
  /\ authFile = NoAuth /\ auth = NoAuth
  /\ act = [c \in Actors |-> Idle]
  /\ refreshLock = Nothing /\ user = Nowhere
  /\ troubles = 0 /\ flaws = {}

Doing(c, step) == act[c].step = step
Does(c, step) == act' = [act EXCEPT ![c].step = step]
Rests(c) == act' = [act EXCEPT ![c] = Idle]
Trouble == troubles < MaxTroubles /\ troubles' = troubles + 1
Flaw(condition, name) == flaws' = IF condition THEN flaws \cup {name} ELSE flaws
IsOpen(s) == s \in 1 .. opened \ closed
Accepted(token) == IsOpen(token.session) /\ token.number >= accepts[token.session]

(***************************************************************************)
(* api_call_with_retry.                                                    *)
(***************************************************************************)
\* The call of a sync token (get_or_refresh_sync_token) or of the profile (fetch_profile).
CallApi(c, kind) ==
  /\ c \in Clients /\ Doing(c, "idle")
  /\ kind = "sync" => auth # NoAuth
  /\ access # NoToken
  /\ act' = [act EXCEPT ![c] = [step |-> "request", kind |-> kind, token |-> access]]
  /\ UNCHANGED <<serverVars, tokenFiles, auth, refreshLock, user, troubles, flaws>>

\* The server answers, the second time for good.
AnswerCall(c) ==
  /\ Doing(c, "request") \/ Doing(c, "again")
  /\ IF Accepted(act[c].token) THEN Does(c, "accepted")
     ELSE IF Doing(c, "request") THEN Does(c, "compare")
     ELSE Rests(c)
  /\ UNCHANGED <<serverVars, tokenFiles, auth, refreshLock, user, troubles, flaws>>

\* What came back is kept: the sync token in any case, the profile if somebody is signed in.
KeepAnswer(c) ==
  /\ Doing(c, "accepted")
  /\ Rests(c)
  /\ LET of == act[c].token.session
         profile == IF auth = NoAuth THEN auth ELSE [auth EXCEPT !.profile = of]
     IN IF act[c].kind = "sync" THEN syncToken' = of /\ UNCHANGED <<auth, authFile>>
        ELSE /\ auth' = profile
             /\ authFile' = IF auth = NoAuth THEN authFile ELSE profile
             /\ UNCHANGED syncToken
  /\ UNCHANGED <<serverVars, access, refresh, refreshLock, user, troubles, flaws>>

\* Mutant: an empty token passes for a new one.
CompareTokenEmpty(c) ==
  /\ Doing(c, "compare")
  /\ IF access # act[c].token
     THEN act' = [act EXCEPT ![c].step = "again", ![c].token = access]
     ELSE Does(c, "lock")
  /\ UNCHANGED <<serverVars, tokenFiles, auth, refreshLock, user, troubles, flaws>>

\* A 401: another caller's new token is used if there is one, else a refresh is asked for.
CompareToken(c) ==
  /\ Doing(c, "compare")
  /\ IF access \notin {act[c].token, NoToken}
     THEN act' = [act EXCEPT ![c].step = "again", ![c].token = access]
     ELSE Does(c, "lock")
  /\ UNCHANGED <<serverVars, tokenFiles, auth, refreshLock, user, troubles, flaws>>

\* The loop finds the access token to expire soon, or expired.
WakeUp ==
  /\ Doing(Loop, "idle") /\ auth # NoAuth /\ access # NoToken
  /\ Does(Loop, "lock")
  /\ UNCHANGED <<serverVars, tokenFiles, auth, refreshLock, user, troubles, flaws>>

(***************************************************************************)
(* refresh_access_token.                                                   *)
(***************************************************************************)
\* Mutant: refreshes are not serialised.
LockRefreshAnyway(c) ==
  /\ Doing(c, "lock")
  /\ refreshLock' = c
  /\ Does(c, "load")
  /\ UNCHANGED <<serverVars, tokenFiles, auth, user, troubles, flaws>>

LockRefresh(c) ==
  /\ Doing(c, "lock") /\ refreshLock = Nothing
  /\ refreshLock' = c
  /\ Does(c, "load")
  /\ UNCHANGED <<serverVars, tokenFiles, auth, user, troubles, flaws>>

LoadRefresh(c) ==
  /\ Doing(c, "load")
  /\ IF refresh = NoToken THEN Rests(c) /\ refreshLock' = Nothing
     ELSE /\ act' = [act EXCEPT ![c].step = "sent", ![c].token = refresh]
          /\ UNCHANGED refreshLock
  /\ UNCHANGED <<serverVars, tokenFiles, auth, user, troubles, flaws>>

Valid(token) == IsOpen(token.session) /\ token.number = current[token.session]

RotateToken(c) ==
  /\ Doing(c, "sent")
  /\ LET s == act[c].token.session IN
     \/ /\ Valid(act[c].token) /\ current[s] < MaxRotations
        /\ current' = [current EXCEPT ![s] = @ + 1]
        /\ \/ /\ act' = [act EXCEPT ![c].step = "answered", ![c].token.number = @ + 1]
              /\ UNCHANGED <<refreshLock, troubles, flaws>>
           \/ /\ Trouble /\ Flaw(TRUE, "lost")
              /\ Rests(c) /\ refreshLock' = Nothing
     \/ /\ ~Valid(act[c].token)
        /\ IF c = Loop THEN Does(c, "invalidate") ELSE Rests(c)
        /\ refreshLock' = Nothing
        /\ UNCHANGED <<current, troubles, flaws>>
  /\ UNCHANGED <<opened, closed, accepts, tokenFiles, auth, user>>

StoreAccess(c) ==
  /\ Doing(c, "answered")
  /\ access' = act[c].token
  /\ Does(c, "stored")
  /\ UNCHANGED <<serverVars, refresh, syncToken, authFile, auth, refreshLock, user, troubles, flaws>>

StoreRefresh(c) ==
  /\ Doing(c, "stored")
  /\ refresh' = act[c].token
  /\ refreshLock' = Nothing
  /\ IF c = Loop THEN Rests(c) ELSE Does(c, "retry")
  /\ UNCHANGED <<serverVars, access, syncToken, authFile, auth, user, troubles, flaws>>

RetryCall(c) ==
  /\ Doing(c, "retry")
  /\ IF access = NoToken THEN Rests(c)
     ELSE act' = [act EXCEPT ![c].step = "again", ![c].token = access]
  /\ UNCHANGED <<serverVars, tokenFiles, auth, refreshLock, user, troubles, flaws>>

(***************************************************************************)
(* Sign-out, by the user or by the loop, and sign-in.                      *)
(***************************************************************************)
\* Somebody has an answer of the server, or awaits one, that he will store.
InFlight(others) == \E c \in others : act[c].step \in {"request", "again", "sent", "answered",
                                                       "stored", "accepted", "invalidate"}

\* Mutant: the sync token is kept.
ClearAuthKeepsSyncToken(others) ==
  /\ auth' = NoAuth /\ authFile' = NoAuth
  /\ access' = NoToken /\ refresh' = NoToken /\ UNCHANGED syncToken
  /\ Flaw(InFlight(others) \/ user.step \notin {"none", "leaving"}, "inFlight")

\* clear_auth: memory first, then the files, while the state is locked.
ClearAuth(others) ==
  /\ auth' = NoAuth /\ authFile' = NoAuth
  /\ access' = NoToken /\ refresh' = NoToken /\ syncToken' = NoSession
  /\ Flaw(InFlight(others) \/ user.step \notin {"none", "leaving"}, "inFlight")

InvalidateSession ==
  /\ Doing(Loop, "invalidate")
  /\ ClearAuth(Clients)
  /\ Rests(Loop)
  /\ UNCHANGED <<serverVars, refreshLock, user, troubles>>

\* The server closes the session of the tokens it is shown, or is not reached.
Logout ==
  /\ auth # NoAuth /\ user.step = "none"
  /\ user' = [step |-> "leaving", token |-> refresh]
  /\ \/ /\ access # NoToken /\ Accepted(access)
        /\ closed' = closed \cup {access.session}
     \/ UNCHANGED closed
  /\ Flaw(InFlight(Actors), "inFlight")
  /\ UNCHANGED <<opened, current, accepts, tokenFiles, auth, act, refreshLock, troubles>>

ClearAtLogout ==
  /\ user.step = "leaving"
  /\ ClearAuth(Actors)
  /\ user' = Nowhere
  /\ UNCHANGED <<serverVars, act, refreshLock, troubles>>

\* exchange_device_code, offered when nobody is signed in: the tokens are stored one by one,
\* then the state file and the state.
ExchangeCode ==
  /\ auth = NoAuth /\ user.step = "none" /\ opened < MaxSessions
  /\ opened' = opened + 1
  /\ user' = [step |-> "exchanged", token |-> [session |-> opened + 1, number |-> 0]]
  /\ UNCHANGED <<closed, current, accepts, tokenFiles, auth, act, refreshLock, troubles, flaws>>

SignIn ==
  /\ LET mine == [session |-> user.token.session, profile |-> user.token.session] IN
     \/ /\ user.step = "exchanged" /\ user' = [user EXCEPT !.step = "kept"]
        /\ access' = user.token /\ UNCHANGED <<refresh, authFile, auth>>
     \/ /\ user.step = "kept" /\ user' = [user EXCEPT !.step = "filed"]
        /\ refresh' = user.token /\ UNCHANGED <<access, authFile, auth>>
     \/ /\ user.step = "filed" /\ user' = Nowhere
        /\ authFile' = mine /\ auth' = mine /\ UNCHANGED <<access, refresh>>
  /\ UNCHANGED <<serverVars, syncToken, act, refreshLock, troubles, flaws>>

ExpireAccess(s) ==
  /\ IsOpen(s) /\ accepts[s] <= current[s]
  /\ accepts' = [accepts EXCEPT ![s] = current[s] + 1]
  /\ UNCHANGED <<opened, closed, current, tokenFiles, auth, act, refreshLock, user, troubles, flaws>>

\* The application goes down and comes up with what the files say.
RestartSession ==
  /\ Trouble
  /\ auth' = authFile
  /\ act' = [c \in Actors |-> Idle]
  /\ refreshLock' = Nothing /\ user' = Nowhere
  /\ Flaw(user # Nowhere \/ InFlight(Actors), "crashed")
  /\ UNCHANGED <<serverVars, tokenFiles>>

SessionNext ==
  \/ \E c \in Actors :
       \/ \E kind \in {"sync", "profile"} : CallApi(c, kind)
       \/ AnswerCall(c) \/ KeepAnswer(c) \/ CompareToken(c)
       \/ LockRefresh(c) \/ LoadRefresh(c) \/ RotateToken(c)
       \/ StoreAccess(c) \/ StoreRefresh(c) \/ RetryCall(c)
  \/ WakeUp \/ InvalidateSession
  \/ Logout \/ ClearAtLogout \/ ExchangeCode \/ SignIn
  \/ \E s \in Sessions : ExpireAccess(s)
  \/ RestartSession

SessionSpec == SessionInit /\ [][SessionNext]_sessionVars

(***************************************************************************)
(* Properties.                                                             *)
(***************************************************************************)
\* The session of somebody signed in can be renewed: the refresh token on disk is the one
\* the server accepts, or the holder of refresh_lock carries it ("Uses refresh_lock to
\* prevent concurrent token rotations from racing").  So no refresh is rejected and the
\* loop signs nobody out, unless the response to a rotation is lost, the application
\* crashes meanwhile, or a request was under way when somebody signed out.
SessionRenewable ==
  auth # NoAuth /\ user.step = "none" /\ flaws = {} =>
    \/ Valid(refresh)
    \/ \E c \in Actors : refreshLock = c /\ (Doing(c, "answered") \/ Doing(c, "stored"))
                         /\ Valid(act[c].token)

\* Signing out leaves no token behind, and what is signed in shows its own account, unless
\* a request was under way then: its answer is stored whoever is signed in by now.
NothingLeftBehind ==
  user.step = "none" /\ flaws \cap {"inFlight", "crashed"} = {} =>
    /\ auth = NoAuth => access = NoToken /\ refresh = NoToken /\ syncToken = NoSession
    /\ auth # NoAuth => /\ auth.profile = auth.session
                        /\ access.session = auth.session
                        /\ syncToken \in {NoSession, auth.session}

===============================================================================
