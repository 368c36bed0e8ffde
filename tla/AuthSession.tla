---------------------------- MODULE AuthSession ----------------------------
(***************************************************************************)
(* The stored Twitch session: calls of ensure_valid_stored_auth and        *)
(* refresh_stored_auth (session.rs) that load the stored login, ask Twitch *)
(* about its tokens (native.rs) and write the outcome back, while the      *)
(* application logs in and out and the token service expires, revokes and  *)
(* rotates tokens.  Every await of the code is a point where other steps   *)
(* interleave, where a reply or a store write may fail, and where the      *)
(* caller may drop the future.                                             *)
(***************************************************************************)
EXTENDS Naturals, FiniteSets

CONSTANTS
    Callers,     \* tasks that may call the session functions concurrently
    Users,       \* Twitch accounts the application logs in with
    NoAuth,      \* the store's None
    OneTime,     \* TRUE: a refresh token is accepted once and replaced
    Durable,     \* TRUE: the store outlives the process
    Exclusive,   \* TRUE: the application runs one session operation at a time
    MaxTokens,   \* bound on the token pairs the service issues
    MaxFaults    \* bound on failures, cancellations and crashes

Token == [owner : Users, login : Nat, n : Nat]
Auth == [identity : Users, access : Token, refresh : Token, scopes : BOOLEAN]

ASSUME ConstantsAssumption ==
    /\ NoAuth \notin Auth
    /\ OneTime \in BOOLEAN
    /\ Durable \in BOOLEAN
    /\ Exclusive \in BOOLEAN
    /\ MaxTokens \in Nat
    /\ MaxFaults \in Nat

VARIABLES
    store,       \* what TwitchAuthStore holds
    pc,          \* where each caller's current call stands
    auth,        \* the auth a call has in hand, then the one it returned
    loaded,      \* history: the auth that call had loaded
    deadAtLoad,  \* history: its access token was already dead when loaded
    live,        \* service: access tokens that validate
    usable,      \* service: refresh tokens that are accepted
    spent,       \* service: refresh tokens consumed by a rotation
    lost,        \* history: spent tokens whose replacement was dropped
    issued,      \* number of token pairs issued so far
    current,     \* the login the application last saved, 0 when logged out
    straddled,   \* history: a login or logout happened during a call
    faults       \* failures so far

storeVars == <<store, current, straddled>>
callVars == <<pc, auth, loaded, deadAtLoad>>
serviceVars == <<live, usable, spent, issued>>
vars == <<storeVars, callVars, serviceVars, lost, faults>>

Resting == {"idle", "some", "none", "error"}
Running == {"validate", "refresh", "save", "clear"}

TypeOK ==
    /\ store \in Auth \cup {NoAuth}
    /\ pc \in [Callers -> Resting \cup Running]
    /\ auth \in [Callers -> Auth \cup {NoAuth}]
    /\ loaded \in [Callers -> Auth \cup {NoAuth}]
    /\ deadAtLoad \in [Callers -> BOOLEAN]
    /\ live \in SUBSET Token
    /\ usable \in SUBSET Token
    /\ spent \in SUBSET Token
    /\ lost \in SUBSET Token
    /\ issued \in Nat
    /\ current \in Nat
    /\ straddled \in BOOLEAN
    /\ faults \in Nat

InFlight == {c \in Callers : pc[c] \in Running}

Init ==
    /\ store = NoAuth
    /\ pc = [c \in Callers |-> "idle"]
    /\ auth = [c \in Callers |-> NoAuth]
    /\ loaded = [c \in Callers |-> NoAuth]
    /\ deadAtLoad = [c \in Callers |-> FALSE]
    /\ live = {}
    /\ usable = {}
    /\ spent = {}
    /\ lost = {}
    /\ issued = 0
    /\ current = 0
    /\ straddled = FALSE
    /\ faults = 0

----------------------------------------------------------------------------
(* Helpers.                                                                *)

\* One more failure, within the bound.
Fault == faults < MaxFaults /\ faults' = faults + 1

\* Caller c moves to state s with auth a in hand.
Goto(c, s, a) ==
    /\ pc' = [pc EXCEPT ![c] = s]
    /\ auth' = [auth EXCEPT ![c] = a]

\* Caller c's call ends without an auth: Ok(None), Err, or a dropped future.
Finish(c, s) == Goto(c, s, NoAuth)

\* A replacement that will never be saved is lost when the refresh token it
\* replaced is spent.
Drop(dropped) == lost' = lost \cup (dropped \cap spent')

\* Mutants of Refreshed.  One forgets the fallback for an omitted refresh
\* token, one keeps the old refresh token whatever the reply says.
RefreshedForgetsFallback(a, scopesSent) ==
    LET fresh == [a.refresh EXCEPT !.n = issued + 1] IN
    [a EXCEPT !.access = fresh,
              !.refresh = IF OneTime THEN fresh ELSE NoAuth,
              !.scopes = scopesSent]

RefreshedKeepsOldToken(a, scopesSent) ==
    [a EXCEPT !.access = [a.refresh EXCEPT !.n = issued + 1],
              !.scopes = scopesSent]

\* The auth after a successful refresh.  The tokens are replaced as a whole:
\* an omitted refresh token falls back to the one presented, an omitted scope
\* list to the empty list.
Refreshed(a, scopesSent) ==
    LET fresh == [a.refresh EXCEPT !.n = issued + 1] IN
    [a EXCEPT !.access = fresh,
              !.refresh = IF OneTime THEN fresh ELSE a.refresh,
              !.scopes = scopesSent]

\* The outcome of a new login of user u: one identity, one fresh token pair.
LoginAuth(u) ==
    LET fresh == [owner |-> u, login |-> issued + 1, n |-> issued + 1] IN
    [identity |-> u, access |-> fresh, refresh |-> fresh, scopes |-> TRUE]

----------------------------------------------------------------------------
(* The calls.                                                              *)

\* Mutant of Start: it goes on with the auth its last call returned.
StartFromCache(c, first) ==
    /\ pc[c] \in Resting
    /\ Exclusive => InFlight = {}
    /\ LET a == IF auth[c] # NoAuth THEN auth[c] ELSE store IN
       IF a = NoAuth
       THEN /\ Finish(c, "none")
            /\ UNCHANGED <<loaded, deadAtLoad>>
       ELSE /\ Goto(c, first, a)
            /\ loaded' = [loaded EXCEPT ![c] = a]
            /\ deadAtLoad' = [deadAtLoad EXCEPT ![c] = a.access \notin live]
    /\ UNCHANGED <<storeVars, serviceVars, lost, faults>>

\* The call begins and loads the store: None ends it; otherwise
\* ensure_valid_stored_auth goes on to validate the access token and
\* refresh_stored_auth goes straight to the refresh.
Start(c, first) ==
    /\ pc[c] \in Resting
    /\ Exclusive => InFlight = {}
    /\ IF store = NoAuth
       THEN /\ Finish(c, "none")
            /\ UNCHANGED <<loaded, deadAtLoad>>
       ELSE /\ Goto(c, first, store)
            /\ loaded' = [loaded EXCEPT ![c] = store]
            /\ deadAtLoad' = [deadAtLoad EXCEPT ![c] = store.access \notin live]
    /\ UNCHANGED <<storeVars, serviceVars, lost, faults>>

\* load_auth fails.
LoadFails(c) ==
    /\ pc[c] \in Resting
    /\ Exclusive => InFlight = {}
    /\ Fault
    /\ Finish(c, "error")
    /\ UNCHANGED <<storeVars, loaded, deadAtLoad, serviceVars, lost>>

\* Status 200 on validation: the loaded auth is returned as it is.
ValidateAccepted(c) ==
    /\ pc[c] = "validate"
    /\ auth[c].access \in live
    /\ Goto(c, "some", auth[c])
    /\ UNCHANGED <<storeVars, loaded, deadAtLoad, serviceVars, lost, faults>>

\* Mutant of ValidateRejected: the auth is returned whatever Twitch says.
ValidateRejectedReturns(c) ==
    /\ pc[c] = "validate"
    /\ auth[c].access \notin live
    /\ Goto(c, "some", auth[c])
    /\ UNCHANGED <<storeVars, loaded, deadAtLoad, serviceVars, lost, faults>>

\* Status 401 on validation: go on to refresh_and_persist.
ValidateRejected(c) ==
    /\ pc[c] = "validate"
    /\ auth[c].access \notin live
    /\ Goto(c, "refresh", auth[c])
    /\ UNCHANGED <<storeVars, loaded, deadAtLoad, serviceVars, lost, faults>>

\* Mutant of RequestFails: every failed request counts as a rejection.
RequestFailsClears(c) ==
    /\ pc[c] \in {"validate", "refresh"}
    /\ Fault
    /\ Goto(c, "clear", auth[c])
    /\ UNCHANGED <<storeVars, loaded, deadAtLoad, serviceVars, lost>>

\* A transport error or another status on either request: Err, with the store
\* untouched and nothing done at the service.
RequestFails(c) ==
    /\ pc[c] \in {"validate", "refresh"}
    /\ Fault
    /\ Finish(c, "error")
    /\ UNCHANGED <<storeVars, loaded, deadAtLoad, serviceVars, lost>>

\* The service accepts a refresh token and issues the next access token.
ServiceRefresh(a) ==
    /\ a.refresh \in usable
    /\ issued < MaxTokens
    /\ issued' = issued + 1
    /\ live' = live \cup {Refreshed(a, TRUE).access}
    /\ IF OneTime
       THEN /\ usable' = (usable \ {a.refresh}) \cup {Refreshed(a, TRUE).refresh}
            /\ spent' = spent \cup {a.refresh}
       ELSE UNCHANGED <<usable, spent>>

\* Status 200 on refresh: the new tokens are in hand, not yet saved.
RefreshGranted(c) ==
    /\ pc[c] = "refresh"
    /\ ServiceRefresh(auth[c])
    /\ \E scopesSent \in BOOLEAN : Goto(c, "save", Refreshed(auth[c], scopesSent))
    /\ UNCHANGED <<storeVars, loaded, deadAtLoad, lost, faults>>

\* The service answered 200 but the caller never gets usable tokens out of it:
\* the connection broke, or the body did not parse.
RefreshReplyLost(c) ==
    /\ pc[c] = "refresh"
    /\ Fault
    /\ ServiceRefresh(auth[c])
    /\ Drop({auth[c].refresh})
    /\ Finish(c, "error")
    /\ UNCHANGED <<storeVars, loaded, deadAtLoad>>

\* At the bound the service answers with an error status instead of a token,
\* so that no call waits for ever on the bound.
RefreshRefused(c) ==
    /\ pc[c] = "refresh"
    /\ auth[c].refresh \in usable
    /\ issued >= MaxTokens
    /\ Finish(c, "error")
    /\ UNCHANGED <<storeVars, loaded, deadAtLoad, serviceVars, lost, faults>>

\* Mutant of RefreshRejected: the call returns None without clearing.
RefreshRejectedKeeps(c) ==
    /\ pc[c] = "refresh"
    /\ auth[c].refresh \notin usable
    /\ Finish(c, "none")
    /\ UNCHANGED <<storeVars, loaded, deadAtLoad, serviceVars, lost, faults>>

\* Status 400 or 401 on refresh.
RefreshRejected(c) ==
    /\ pc[c] = "refresh"
    /\ auth[c].refresh \notin usable
    /\ Goto(c, "clear", auth[c])
    /\ UNCHANGED <<storeVars, loaded, deadAtLoad, serviceVars, lost, faults>>

\* Mutants of Save.  One updates the tokens of whatever is stored by now, one
\* returns the refreshed auth without storing it.
SaveIntoStored(c) ==
    /\ pc[c] = "save"
    /\ store' = IF store = NoAuth THEN auth[c]
                ELSE [store EXCEPT !.access = auth[c].access,
                                   !.refresh = auth[c].refresh]
    /\ Goto(c, "some", auth[c])
    /\ UNCHANGED <<current, straddled, loaded, deadAtLoad, serviceVars, lost, faults>>

SaveForgotten(c) ==
    /\ pc[c] = "save"
    /\ Goto(c, "some", auth[c])
    /\ UNCHANGED <<storeVars, loaded, deadAtLoad, serviceVars, lost, faults>>

\* save_auth succeeds: the refreshed auth is stored and returned.
Save(c) ==
    /\ pc[c] = "save"
    /\ store' = auth[c]
    /\ Goto(c, "some", auth[c])
    /\ UNCHANGED <<current, straddled, loaded, deadAtLoad, serviceVars, lost, faults>>

\* save_auth fails: Err, and the refreshed tokens go with the frame.
SaveFails(c) ==
    /\ pc[c] = "save"
    /\ Fault
    /\ Finish(c, "error")
    /\ UNCHANGED <<storeVars, loaded, deadAtLoad, serviceVars>>
    /\ Drop({loaded[c].refresh})

\* clear_auth succeeds after a rejected refresh: the call returns None.
Clear(c) ==
    /\ pc[c] = "clear"
    /\ store' = NoAuth
    /\ Finish(c, "none")
    /\ UNCHANGED <<current, straddled, loaded, deadAtLoad, serviceVars, lost, faults>>

\* clear_auth fails: Err, and the rejected auth stays stored.
ClearFails(c) ==
    /\ pc[c] = "clear"
    /\ Fault
    /\ Finish(c, "error")
    /\ UNCHANGED <<storeVars, loaded, deadAtLoad, serviceVars, lost>>

\* The task drops the future at one of its awaits.
Cancel(c) ==
    /\ pc[c] \in Running
    /\ Fault
    /\ Finish(c, "idle")
    /\ UNCHANGED <<storeVars, loaded, deadAtLoad, serviceVars>>
    /\ Drop(IF pc[c] = "save" THEN {loaded[c].refresh} ELSE {})

----------------------------------------------------------------------------
(* The application, the process and the token service.                     *)

\* The application completes a device-code login and saves its outcome.
Login(u) ==
    /\ Exclusive => InFlight = {}
    /\ issued < MaxTokens
    /\ store' = LoginAuth(u)
    /\ live' = live \cup {LoginAuth(u).access}
    /\ usable' = usable \cup {LoginAuth(u).refresh}
    /\ issued' = issued + 1
    /\ current' = issued + 1
    /\ straddled' = (straddled \/ InFlight # {})
    /\ UNCHANGED <<callVars, spent, lost, faults>>

\* The application logs out: clear_auth.
Logout ==
    /\ Exclusive => InFlight = {}
    /\ store' = NoAuth
    /\ current' = 0
    /\ straddled' = (straddled \/ InFlight # {})
    /\ UNCHANGED <<callVars, serviceVars, lost, faults>>

\* The process dies in the middle of whatever was going on; only a durable
\* store survives it.
Crash ==
    /\ Fault
    /\ pc' = [c \in Callers |-> "idle"]
    /\ auth' = [c \in Callers |-> NoAuth]
    /\ store' = IF Durable THEN store ELSE NoAuth
    /\ current' = IF Durable THEN current ELSE 0
    /\ UNCHANGED <<straddled, loaded, deadAtLoad, serviceVars>>
    /\ Drop({loaded[c].refresh : c \in {d \in Callers : pc[d] = "save"}})

\* An access token reaches the end of its life.
AccessExpires(t) ==
    /\ t \in live
    /\ live' = live \ {t}
    /\ UNCHANGED <<storeVars, callVars, usable, spent, issued, lost, faults>>

\* The user disconnects the application: the whole login is revoked.
Revoke(l) ==
    /\ live' = {t \in live : t.login # l}
    /\ usable' = {t \in usable : t.login # l}
    /\ UNCHANGED <<storeVars, callVars, spent, issued, lost, faults>>

----------------------------------------------------------------------------
\* The steps of a call that is not disturbed.
Advance(c) ==
    \/ ValidateAccepted(c) \/ ValidateRejected(c)
    \/ RefreshGranted(c) \/ RefreshRefused(c) \/ RefreshRejected(c)
    \/ Save(c) \/ Clear(c)

Disturb(c) ==
    \/ LoadFails(c) \/ RequestFails(c) \/ RefreshReplyLost(c)
    \/ SaveFails(c) \/ ClearFails(c) \/ Cancel(c)

Next ==
    \/ \E c \in Callers :
          \/ \E first \in {"validate", "refresh"} : Start(c, first)
          \/ Advance(c)
          \/ Disturb(c)
    \/ \E u \in Users : Login(u)
    \/ Logout
    \/ Crash
    \/ \E t \in live : AccessExpires(t)
    \/ \E l \in {t.login : t \in live \cup usable} : Revoke(l)

Spec == Init /\ [][Next]_vars

\* The application keeps asking for a valid session, access tokens do expire,
\* and calls that began go on.  The last is required of the caller: the client
\* it passes in has a timeout, and its store answers or fails.
Fairness ==
    /\ \A c \in Callers : WF_vars(Advance(c))
    /\ WF_vars(\E c \in Callers : Start(c, "validate"))
    /\ WF_vars(\E t \in live : AccessExpires(t))

FairSpec == Spec /\ Fairness

----------------------------------------------------------------------------
(* Properties.                                                             *)

\* The auths that can still be returned or written: the stored one and those
\* in the hands of calls.
Held == ({store} \cup {auth[c] : c \in Callers}) \ {NoAuth}

\* Whatever the interleaving of refreshes and logins, an auth never pairs one
\* account's identity with another account's tokens: refresh_and_persist
\* writes back the identity it loaded with the tokens it got for that login.
IdentityMatchesTokens ==
    \A a \in Held :
        /\ a.identity = a.access.owner
        /\ a.identity = a.refresh.owner
        /\ a.access.login = a.refresh.login

\* The stored refresh token may be one the service already consumed only
\* while the call that consumed it still holds the replacement, or after that
\* replacement was dropped by a lost reply, a failed save, a cancellation or a
\* crash.  No interleaving of calls alone strands the session.
SpentTokenAccounted ==
    (store # NoAuth /\ store.refresh \in spent) =>
        \/ store.refresh \in lost
        \/ \E c \in Callers : pc[c] = "save" /\ loaded[c].refresh = store.refresh

\* A call never hands out the access token it loaded when that token was
\* already dead at the load: it was validated in between, or replaced.
NeverReturnsDeadAuth ==
    \A c \in Callers :
        pc[c] = "some" /\ deadAtLoad[c] => auth[c].access # loaded[c].access

\* The store holds another login than the one the application last saved (or
\* holds one after a logout) only if a login or a logout was made while a call
\* was running: concurrent calls alone never mix logins up.
OnlyStraddlingCallsMixLogins ==
    store # NoAuth /\ store.refresh.login # current => straddled

\* The auth that refresh_and_persist clears is the rejected one: a call never
\* empties the store while it holds a login that can still be refreshed.
ClearIsRejection ==
    \A c \in Callers :
        pc[c] = "clear" /\ pc'[c] = "none" /\ store # NoAuth
            => store.refresh \notin usable

ClearsOnlyRejectedAuth == [][ClearIsRejection]_vars

\* With refresh tokens that are not rotated, a call can empty the store of a
\* login that can still be refreshed only after a login or logout was made
\* while a call was running: the concurrency of calls alone is harmless.
UndisturbedClearIsRejection == [][~straddled => ClearIsRejection]_vars

\* What a call returns is what the store holds at that moment.
ReturnIsStored ==
    \A c \in Callers : pc[c] \in Running /\ pc'[c] = "some" => store' = auth'[c]

ReturnedIsStored == [][ReturnIsStored]_vars

\* Granted scopes are kept over a refresh.
ScopesSurviveRefresh == store # NoAuth => store.scopes

\* A stored login that can no longer be refreshed does not stay stored for
\* ever: the calls notice and clear it, or a new login replaces it.
DeadSessionIsCleared ==
    (store # NoAuth /\ store.refresh \notin usable)
        ~> (store = NoAuth \/ store.refresh \in usable)
============================================================================
