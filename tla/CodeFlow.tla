------------------------------ MODULE CodeFlow -----------------------------
(***************************************************************************)
(* The authorization code flow of the worker client: an authorize URL with *)
(* a signed state (oauth.rs, signing.rs), the browser's redirect back with *)
(* a code, the exchange of the code and the user lookup (client.rs), and   *)
(* the life of the tokens kept afterwards.  The browser may come back      *)
(* late, twice, with the state of another login, or with one that the      *)
(* application did not sign; the handlers of two redirects run side by     *)
(* side; the clock runs during every request.                              *)
(***************************************************************************)
EXTENDS Integers, FiniteSets

CONSTANTS
    Logins,      \* login attempts, each with its own state and its own code
    Handlers,    \* redirects handled at one time
    StateLife,   \* life the application gives to a signed state
    TokenLife,   \* life the service gives to an access token
    Skew,        \* TOKEN_REFRESH_SKEW_MS
    MaxLag,      \* longest time a token answer is under way
    MaxTime,     \* bound on the clock
    MaxApproved, \* bound on the logins that are approved
    MaxRenewals  \* bound on the renewals of a session

ASSUME CodeAssumption ==
    /\ {StateLife, TokenLife, Skew} \subseteq Nat \ {0}
    /\ {MaxLag, MaxTime, MaxApproved, MaxRenewals} \subseteq Nat
    /\ MaxLag < Skew

VARIABLES
    now,         \* the clock
    configured,  \* client id and client secret are not empty
    expiresAt,   \* expiry in the state the application signed, or Never
    code,        \* service: the login's authorization code
    handler,     \* the redirects being handled
    session,     \* the tokens kept for a login, or NoSession
    renewal,     \* the refresh request of a session
    renewals,    \* refresh requests made for a session
    lost         \* history: logins whose token answer was lost or unusable

vars == <<now, configured, expiresAt, code, handler, session, renewal,
          renewals, lost>>

Never == -1
NoSession == [linkedAt |-> Never]
Idle == [at |-> "idle"]
Malformed == [text |-> "malformed"]
NoRenewal == [at |-> "none"]

\* The answer to a token request: when it was issued, and which optional
\* fields it has.
Tokens(t) == [issuedAt : {t}, expires : BOOLEAN, refresh : BOOLEAN]

(***************************************************************************)
(* Signed states.  A signature is the secret and the payload it was        *)
(* computed from; a malformed one does not split or is not hexadecimal.    *)
(***************************************************************************)
SignPayload(secret, payload) == [payload |-> payload, mac |-> <<secret, payload>>]

\* Mutant: the payload is trusted without its signature.
VerifySignedPayloadUnsigned(secret, token) ==
    IF token = Malformed THEN "MalformedToken" ELSE "ok"

VerifySignedPayload(secret, token) ==
    IF token = Malformed THEN "MalformedToken"
    ELSE IF token.mac = <<secret, token.payload>> THEN "ok"
    ELSE "InvalidSignature"

VerifyOauthState(secret, token, t) ==
    LET verdict == VerifySignedPayload(secret, token)
    IN  IF verdict # "ok" THEN verdict
        ELSE IF t > token.payload.expires THEN "Expired"
        ELSE "ok"

\* The payloads the application signed so far.
Signed == {[login |-> l, expires |-> expiresAt[l]] :
               l \in {k \in Logins : expiresAt[k] # Never}}

Longer(payload) == [payload EXCEPT !.expires = MaxTime]

\* What a browser may bring back, with the code of any login: a state that
\* the application signed for any login, one whose expiry was changed, one
\* signed elsewhere, or a malformed one.
States ==
    {SignPayload("secret", payload) : payload \in Signed}
    \cup {[SignPayload("secret", payload) EXCEPT !.payload = Longer(payload)] :
              payload \in Signed}
    \cup {SignPayload("other", Longer(payload)) : payload \in Signed}
    \cup {Malformed}

\* Mutant: a token is refreshed when it expires and no sooner.
ShouldRefreshLate(tokens, t) ==
    tokens.expires /\ t >= tokens.linkedAt + TokenLife

ShouldRefresh(tokens, t) ==
    tokens.expires /\ t >= tokens.linkedAt + TokenLife - Skew

\* Mutant: an answer without expires_in is refused, like one without a
\* refresh token.
BuildAuthOutcomeStrict(h) ==
    IF ~h.tokens.refresh \/ ~h.tokens.expires THEN NoSession
    ELSE [linkedAt |-> h.startedAt, expires |-> TRUE,
          issuedAt |-> h.tokens.issuedAt]

BuildAuthOutcome(h) ==
    IF ~h.tokens.refresh THEN NoSession
    ELSE [linkedAt |-> h.startedAt, expires |-> h.tokens.expires,
          issuedAt |-> h.tokens.issuedAt]

RefreshedTokenState(tokens, t) ==
    [linkedAt |-> t, expires |-> tokens.expires, issuedAt |-> tokens.issuedAt]

Init ==
    /\ now = 0
    /\ configured \in BOOLEAN
    /\ expiresAt = [l \in Logins |-> Never]
    /\ code = [l \in Logins |-> "none"]
    /\ handler = [h \in Handlers |-> Idle]
    /\ session = [l \in Logins |-> NoSession]
    /\ renewal = [l \in Logins |-> NoRenewal]
    /\ renewals = [l \in Logins |-> 0]
    /\ lost = {}

----------------------------------------------------------------------------
(***************************************************************************)
(* The login.                                                              *)
(***************************************************************************)
Authorize(l) ==
    /\ expiresAt[l] = Never
    /\ expiresAt' = [expiresAt EXCEPT ![l] = now + StateLife]
    /\ UNCHANGED <<now, configured, code, handler, session, renewal, renewals, lost>>

Approve(l) ==
    /\ expiresAt[l] # Never /\ code[l] = "none"
    /\ Cardinality({k \in Logins : code[k] # "none"}) < MaxApproved
    /\ code' = [code EXCEPT ![l] = "fresh"]
    /\ UNCHANGED <<now, configured, expiresAt, handler, session, renewal, renewals, lost>>

\* A redirect with the code of l is taken up: the clock is read, the state
\* verified, and the token request sent, all before the first await.
\* Nothing ties the claims of the state to the code.
Redirect(h, l) ==
    \E token \in States :
        /\ handler[h] = Idle
        /\ code[l] # "none"
        /\ VerifyOauthState("secret", token, now) = "ok"
        /\ configured
        /\ handler' = [handler EXCEPT
               ![h] = [at |-> "exchange", login |-> l, claims |-> token.payload,
                       startedAt |-> now]]
        /\ UNCHANGED <<now, configured, expiresAt, code, session, renewal, renewals, lost>>

\* The service answers the token request: a code is good for one answer.
ExchangeCode(h) ==
    /\ handler[h].at = "exchange"
    /\ LET l == handler[h].login IN
       IF code[l] = "fresh"
       THEN /\ code' = [code EXCEPT ![l] = "spent"]
            /\ \E tokens \in Tokens(now) :
                   handler' = [handler EXCEPT
                       ![h] = [at |-> "exchanged", login |-> l, claims |-> @.claims,
                               startedAt |-> @.startedAt, tokens |-> tokens]]
       ELSE /\ handler' = [handler EXCEPT ![h] = Idle]
            /\ UNCHANGED code
    /\ UNCHANGED <<now, configured, expiresAt, session, renewal, renewals, lost>>

\* The token answer is parsed and the user looked up with the new token.
Exchanged(h) ==
    /\ handler[h].at = "exchanged"
    /\ handler' = [handler EXCEPT ![h].at = "lookup"]
    /\ UNCHANGED <<now, configured, expiresAt, code, session, renewal, renewals, lost>>

\* The user is known: the outcome, or MissingRefreshToken.
LookedUp(h) ==
    /\ handler[h].at = "lookup"
    /\ LET l == handler[h].login
           outcome == BuildAuthOutcome(handler[h]) IN
       /\ session' = [session EXCEPT ![l] = outcome]
       /\ lost' = IF handler[h].tokens.refresh THEN lost ELSE lost \cup {l}
    /\ handler' = [handler EXCEPT ![h] = Idle]
    /\ UNCHANGED <<now, configured, expiresAt, code, renewal, renewals>>

\* A request or its answer is lost, or the lookup finds no user: the
\* handler returns the error and what it held is gone.
HandlerFails(h) ==
    /\ handler[h] # Idle
    /\ lost' = IF handler[h].at = "exchange" THEN lost
               ELSE lost \cup {handler[h].login}
    /\ handler' = [handler EXCEPT ![h] = Idle]
    /\ UNCHANGED <<now, configured, expiresAt, code, session, renewal, renewals>>

----------------------------------------------------------------------------
(***************************************************************************)
(* Afterwards: a session whose token is due is refreshed.  The caller of   *)
(* refreshed_twitch_token_state reads the clock at any moment of it.       *)
(***************************************************************************)
RefreshAccessToken(l) ==
    /\ session[l] # NoSession /\ renewal[l] = NoRenewal
    /\ ShouldRefresh(session[l], now)
    /\ renewals[l] < MaxRenewals
    /\ renewals' = [renewals EXCEPT ![l] = @ + 1]
    /\ renewal' = [renewal EXCEPT ![l] = [at |-> "sent", startedAt |-> now]]
    /\ UNCHANGED <<now, configured, expiresAt, code, handler, session, lost>>

RefreshServed(l) ==
    /\ renewal[l].at = "sent"
    /\ \E tokens \in Tokens(now) :
           renewal' = [renewal EXCEPT
               ![l] = [at |-> "answered", startedAt |-> @.startedAt, tokens |-> tokens]]
    /\ UNCHANGED <<now, configured, expiresAt, code, handler, session, renewals, lost>>

Refreshed(l) ==
    /\ renewal[l].at = "answered"
    /\ \E t \in renewal[l].startedAt .. now :
           session' = [session EXCEPT ![l] = RefreshedTokenState(renewal[l].tokens, t)]
    /\ renewal' = [renewal EXCEPT ![l] = NoRenewal]
    /\ UNCHANGED <<now, configured, expiresAt, code, handler, renewals, lost>>

RefreshFails(l) ==
    /\ renewal[l] # NoRenewal
    /\ renewal' = [renewal EXCEPT ![l] = NoRenewal]
    /\ UNCHANGED <<now, configured, expiresAt, code, handler, session, renewals, lost>>

\* Assumed of the connection: the answer to a renewal is not under way for
\* longer than MaxLag.  The fetch of a worker has no timeout of its own.
Tick ==
    /\ now < MaxTime
    /\ \A l \in Logins :
           renewal[l].at = "answered" => now < renewal[l].tokens.issuedAt + MaxLag
    /\ now' = now + 1
    /\ UNCHANGED <<configured, expiresAt, code, handler, session, renewal, renewals, lost>>

Next ==
    \/ Tick
    \/ \E l \in Logins :
           \/ Authorize(l) \/ Approve(l)
           \/ RefreshAccessToken(l) \/ RefreshServed(l) \/ Refreshed(l) \/ RefreshFails(l)
    \/ \E h \in Handlers :
           \/ \E l \in Logins : Redirect(h, l)
           \/ ExchangeCode(h) \/ Exchanged(h) \/ LookedUp(h) \/ HandlerFails(h)

Spec == Init /\ [][Next]_vars

----------------------------------------------------------------------------
InFlight(l) == {h \in Handlers :
    handler[h].at \in {"exchanged", "lookup"} /\ handler[h].login = l}

Claims == [login : Logins, expires : 0 .. MaxTime + StateLife]

HandlerStates ==
    {Idle}
    \cup [at : {"exchange"}, login : Logins, claims : Claims, startedAt : 0 .. now]
    \cup [at : {"exchanged", "lookup"}, login : Logins, claims : Claims,
          startedAt : 0 .. now, tokens : UNION {Tokens(t) : t \in 0 .. now}]

Sessions == {NoSession} \cup
    [linkedAt : 0 .. now, expires : BOOLEAN, issuedAt : 0 .. now]

Renewals ==
    {NoRenewal}
    \cup [at : {"sent"}, startedAt : 0 .. now]
    \cup [at : {"answered"}, startedAt : 0 .. now,
          tokens : UNION {Tokens(t) : t \in 0 .. now}]

TypeOK ==
    /\ now \in 0 .. MaxTime
    /\ configured \in BOOLEAN
    /\ expiresAt \in [Logins -> {Never} \cup 0 .. MaxTime + StateLife]
    /\ code \in [Logins -> {"none", "fresh", "spent"}]
    /\ handler \in [Handlers -> HandlerStates]
    /\ session \in [Logins -> Sessions]
    /\ renewal \in [Logins -> Renewals]
    /\ renewals \in [Logins -> 0 .. MaxRenewals]
    /\ lost \subseteq Logins

(***************************************************************************)
(* A redirect is taken up only with claims that the application signed,    *)
(* and not after the expiry it signed into them: changing the expiry, or   *)
(* signing with another secret, gains nothing (verify_oauth_state,         *)
(* verify_signed_payload).  The claims may be those of another login than  *)
(* the one of the code: comparing the two is left to the application.      *)
(***************************************************************************)
LoginIsInTime ==
    \A h \in Handlers : handler[h] # Idle =>
        LET claims == handler[h].claims IN
        /\ expiresAt[claims.login] # Never
        /\ expiresAt[claims.login] = claims.expires
        /\ handler[h].startedAt <= claims.expires

(***************************************************************************)
(* A redirect handled twice never costs the user the login: when the code  *)
(* is spent, exactly one handler holds its tokens, or the session exists,  *)
(* or an answer of the service was lost or lacked the refresh token.  The  *)
(* handlers agree on nothing but the code (exchange_twitch_code).          *)
(***************************************************************************)
SpentCodeIsKept ==
    \A l \in Logins : code[l] = "spent" =>
        \/ l \in lost
        \/ session[l] # NoSession /\ InFlight(l) = {}
        \/ session[l] = NoSession /\ \E h \in Handlers : InFlight(l) = {h}

(***************************************************************************)
(* A token that should_refresh_twitch_token lets pass is still accepted by *)
(* the service: dating it from before the request that brought it errs on  *)
(* the safe side, and the skew covers a clock read after the answer.  It   *)
(* is silent on a token whose answer had no expires_in, which is never     *)
(* due (token_expires_at_ms), and on tokens revoked before their time, and *)
(* it rests on MaxLag < Skew.                                              *)
(***************************************************************************)
UndueTokenIsAlive ==
    \A l \in Logins :
        session[l] # NoSession /\ session[l].expires /\ ~ShouldRefresh(session[l], now)
            => now < session[l].issuedAt + TokenLife

============================================================================
