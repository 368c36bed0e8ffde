-------------------------- MODULE CodeFlowProofs ---------------------------
(***************************************************************************)
(* Proofs about CodeFlow: types, the claims of a signed state, what        *)
(* becomes of a spent code, and the life of an undue token.                *)
(***************************************************************************)
EXTENDS CodeFlow, TLAPS

\* What a handler and a renewal may be only grows with the clock.
LEMMA StatesGrow ==
    ASSUME now \in Nat, now' \in Nat, now <= now'
    PROVE  /\ HandlerStates \subseteq HandlerStates'
           /\ Sessions \subseteq Sessions'
           /\ Renewals \subseteq Renewals'
<1>1. 0 .. now \subseteq 0 .. now'
  OBVIOUS
<1>2. UNION {Tokens(t) : t \in 0 .. now} \subseteq UNION {Tokens(t) : t \in 0 .. now'}
  BY <1>1
<1>3. HandlerStates \subseteq HandlerStates'
  BY <1>1, <1>2 DEF HandlerStates
<1>4. Sessions \subseteq Sessions'
  BY <1>1 DEF Sessions
<1>5. Renewals \subseteq Renewals'
  BY <1>1, <1>2 DEF Renewals
<1> QED
  BY <1>3, <1>4, <1>5

\* Only a state the application signed passes, as it was signed: whatever
\* the browser made of the payload, the signature fixes it.
LEMMA StateIsSigned ==
    ASSUME NEW token \in States, VerifyOauthState("secret", token, now) = "ok"
    PROVE  token.payload \in Signed /\ ~(now > token.payload.expires)
<1>1. /\ token # Malformed
      /\ token.mac = <<"secret", token.payload>>
      /\ ~(now > token.payload.expires)
  BY DEF VerifyOauthState, VerifySignedPayload
<1>2. PICK payload \in Signed :
          \/ token = SignPayload("secret", payload)
          \/ token = [SignPayload("secret", payload) EXCEPT !.payload = Longer(payload)]
          \/ token = SignPayload("other", Longer(payload))
  BY <1>1 DEF States
<1>3. token.mac = <<"secret", payload>> \/ token.mac[1] = "other"
  BY <1>2 DEF SignPayload
<1>4. token.payload = payload
  BY <1>1, <1>3
<1> QED
  BY <1>1, <1>4

\* What the application signs is a login and an expiry.
LEMMA SignedIsTyped ==
    ASSUME TypeOK, NEW claims \in Signed
    PROVE  /\ claims \in Claims
           /\ expiresAt[claims.login] # Never
           /\ expiresAt[claims.login] = claims.expires
<1>1. PICK l \in Logins : /\ expiresAt[l] # Never
                          /\ claims = [login |-> l, expires |-> expiresAt[l]]
  BY DEF Signed
<1>2. expiresAt[l] \in 0 .. MaxTime + StateLife
  BY <1>1 DEF TypeOK
<1> QED
  BY <1>1, <1>2 DEF Claims

\* The variables and the constants keep their types.
LEMMA TypeStep ==
    ASSUME TypeOK, [Next]_vars
    PROVE  TypeOK'
<1> USE CodeAssumption DEF TypeOK
<1>1. CASE Tick
  <2>1. now' \in 0 .. MaxTime /\ now <= now'
    BY <1>1 DEF Tick
  <2>2. /\ HandlerStates \subseteq HandlerStates'
        /\ Sessions \subseteq Sessions'
        /\ Renewals \subseteq Renewals'
    BY <2>1, StatesGrow
  <2>3. /\ handler' \in [Handlers -> HandlerStates']
        /\ session' \in [Logins -> Sessions']
        /\ renewal' \in [Logins -> Renewals']
    BY <1>1, <2>2 DEF Tick
  <2> QED
    BY <1>1, <2>1, <2>3 DEF Tick
<1>2. ASSUME NEW l \in Logins, Authorize(l)
      PROVE  TypeOK'
  BY <1>2 DEF Authorize, HandlerStates, Sessions, Renewals
<1>3. ASSUME NEW l \in Logins, Approve(l)
      PROVE  TypeOK'
  BY <1>3 DEF Approve, HandlerStates, Sessions, Renewals
<1>4. ASSUME NEW h \in Handlers, NEW l \in Logins, Redirect(h, l)
      PROVE  TypeOK'
  <2>1. PICK token \in States :
          /\ VerifyOauthState("secret", token, now) = "ok"
          /\ handler' = [handler EXCEPT
                 ![h] = [at |-> "exchange", login |-> l, claims |-> token.payload,
                         startedAt |-> now]]
    BY <1>4 DEF Redirect
  <2>2. token.payload \in Claims
    BY <2>1, StateIsSigned, SignedIsTyped
  <2>3. [at |-> "exchange", login |-> l, claims |-> token.payload,
         startedAt |-> now] \in HandlerStates
    BY <2>2 DEF HandlerStates
  <2>4. handler' \in [Handlers -> HandlerStates]
    BY <2>1, <2>3
  <2> QED
    BY <1>4, <2>4 DEF Redirect, HandlerStates, Sessions, Renewals
<1>5. ASSUME NEW h \in Handlers, ExchangeCode(h)
      PROVE  TypeOK'
  <2>1. /\ handler[h].login \in Logins
        /\ handler[h].claims \in Claims
        /\ handler[h].startedAt \in 0 .. now
    BY <1>5 DEF ExchangeCode, HandlerStates, Idle
  <2>2. ASSUME NEW tokens \in Tokens(now)
        PROVE  [at |-> "exchanged", login |-> handler[h].login,
                claims |-> handler[h].claims, startedAt |-> handler[h].startedAt, tokens |-> tokens] \in HandlerStates
    BY <2>1, <2>2 DEF HandlerStates
  <2>3. handler' \in [Handlers -> HandlerStates]
    <3>1. CASE code[handler[h].login] = "fresh"
      BY <1>5, <2>2, <3>1 DEF ExchangeCode
    <3>2. CASE code[handler[h].login] # "fresh"
      BY <1>5, <3>2 DEF ExchangeCode, HandlerStates
    <3> QED
      BY <3>1, <3>2
  <2>4. code' \in [Logins -> {"none", "fresh", "spent"}]
    BY <1>5 DEF ExchangeCode
  <2> QED
    BY <1>5, <2>3, <2>4 DEF ExchangeCode, HandlerStates, Sessions, Renewals
<1>6. ASSUME NEW h \in Handlers, Exchanged(h)
      PROVE  TypeOK'
  <2>1. [handler[h] EXCEPT !.at = "lookup"] \in HandlerStates
    BY <1>6 DEF Exchanged, HandlerStates, Idle
  <2>2. handler' \in [Handlers -> HandlerStates]
    BY <1>6, <2>1 DEF Exchanged
  <2> QED
    BY <1>6, <2>2 DEF Exchanged, HandlerStates, Sessions, Renewals
<1>7. ASSUME NEW h \in Handlers, LookedUp(h)
      PROVE  TypeOK'
  <2>1. /\ handler[h].login \in Logins
        /\ handler[h].startedAt \in 0 .. now
        /\ handler[h].tokens \in UNION {Tokens(t) : t \in 0 .. now}
    BY <1>7 DEF LookedUp, HandlerStates, Idle
  <2>2. /\ handler[h].tokens.issuedAt \in 0 .. now
        /\ handler[h].tokens.expires \in BOOLEAN
    BY <2>1 DEF Tokens
  <2>3. BuildAuthOutcome(handler[h]) \in Sessions
    BY <2>1, <2>2 DEF BuildAuthOutcome, Sessions
  <2>4. session' \in [Logins -> Sessions] /\ handler' \in [Handlers -> HandlerStates]
    BY <1>7, <2>3 DEF LookedUp, HandlerStates
  <2>5. lost' \subseteq Logins
    BY <1>7, <2>1 DEF LookedUp
  <2> QED
    BY <1>7, <2>4, <2>5 DEF LookedUp, HandlerStates, Sessions, Renewals
<1>8. ASSUME NEW h \in Handlers, HandlerFails(h)
      PROVE  TypeOK'
  <2>1. handler[h].login \in Logins
    BY <1>8 DEF HandlerFails, HandlerStates
  <2>2. handler' \in [Handlers -> HandlerStates] /\ lost' \subseteq Logins
    BY <1>8, <2>1 DEF HandlerFails, HandlerStates
  <2> QED
    BY <1>8, <2>2 DEF HandlerFails, HandlerStates, Sessions, Renewals
<1>9. ASSUME NEW l \in Logins,
             RefreshAccessToken(l) \/ RefreshServed(l) \/ Refreshed(l) \/ RefreshFails(l)
      PROVE  TypeOK'
  <2>1. CASE RefreshAccessToken(l)
    <3>1. renewal' \in [Logins -> Renewals]
      BY <2>1 DEF RefreshAccessToken, Renewals
    <3> QED
      BY <2>1, <3>1 DEF RefreshAccessToken, HandlerStates, Sessions, Renewals
  <2>2. CASE RefreshServed(l)
    <3>1. renewal[l].startedAt \in 0 .. now
      BY <2>2 DEF RefreshServed, Renewals, NoRenewal
    <3>2. ASSUME NEW tokens \in Tokens(now)
          PROVE  [at |-> "answered", startedAt |-> renewal[l].startedAt,
                  tokens |-> tokens] \in Renewals
      BY <3>1, <3>2 DEF Renewals
    <3>3. renewal' \in [Logins -> Renewals]
      BY <2>2, <3>2 DEF RefreshServed
    <3> QED
      BY <2>2, <3>3 DEF RefreshServed, HandlerStates, Sessions, Renewals
  <2>3. CASE Refreshed(l)
    <3>1. /\ renewal[l].startedAt \in 0 .. now
          /\ renewal[l].tokens \in UNION {Tokens(t) : t \in 0 .. now}
      BY <2>3 DEF Refreshed, Renewals, NoRenewal
    <3>2. /\ renewal[l].tokens.issuedAt \in 0 .. now
          /\ renewal[l].tokens.expires \in BOOLEAN
      BY <3>1 DEF Tokens
    <3>3. ASSUME NEW t \in renewal[l].startedAt .. now
          PROVE  RefreshedTokenState(renewal[l].tokens, t) \in Sessions
      BY <3>1, <3>2 DEF RefreshedTokenState, Sessions
    <3>4. session' \in [Logins -> Sessions] /\ renewal' \in [Logins -> Renewals]
      BY <2>3, <3>3 DEF Refreshed, Renewals
    <3> QED
      BY <2>3, <3>4 DEF Refreshed, HandlerStates, Sessions, Renewals
  <2>4. CASE RefreshFails(l)
    <3>1. renewal' \in [Logins -> Renewals]
      BY <2>4 DEF RefreshFails, Renewals
    <3> QED
      BY <2>4, <3>1 DEF RefreshFails, HandlerStates, Sessions, Renewals
  <2> QED
    BY <1>9, <2>1, <2>2, <2>3, <2>4
<1>10. CASE UNCHANGED vars
  BY <1>10 DEF vars, HandlerStates, Sessions, Renewals
<1> QED
  BY <1>1, <1>2, <1>3, <1>4, <1>5, <1>6, <1>7, <1>8, <1>9, <1>10 DEF Next

\* Every state of the flow is well typed.
THEOREM TypeCorrect == Spec => []TypeOK
<1>1. Init => TypeOK
  BY CodeAssumption DEF Init, TypeOK, HandlerStates, Sessions, Renewals
<1>2. TypeOK /\ [Next]_vars => TypeOK'
  BY TypeStep
<1> QED
  BY <1>1, <1>2, PTL DEF Spec

----------------------------------------------------------------------------
(* The claims of a signed state.                                           *)

\* A redirect is taken up with signed claims and in time, and what was
\* signed for a login never changes.
LEMMA InTimeStep ==
    ASSUME TypeOK, LoginIsInTime, [Next]_vars
    PROVE  LoginIsInTime'
<1> USE DEF TypeOK
<1>1. ASSUME NEW l \in Logins, Authorize(l)
      PROVE  LoginIsInTime'
  <2>1. ASSUME NEW h \in Handlers, handler[h] # Idle
        PROVE  handler[h].claims.login \in Logins /\ handler[h].claims.login # l
    BY <1>1, <2>1 DEF Authorize, LoginIsInTime, HandlerStates, Claims
  <2> QED
    BY <1>1, <2>1 DEF Authorize, LoginIsInTime
<1>2. ASSUME NEW h \in Handlers, NEW l \in Logins, Redirect(h, l)
      PROVE  LoginIsInTime'
  <2>1. PICK token \in States :
          /\ VerifyOauthState("secret", token, now) = "ok"
          /\ handler' = [handler EXCEPT
                 ![h] = [at |-> "exchange", login |-> l, claims |-> token.payload,
                         startedAt |-> now]]
    BY <1>2 DEF Redirect
  <2> DEFINE claims == token.payload
  <2>2. claims \in Signed /\ ~(now > claims.expires)
    BY <2>1, StateIsSigned
  <2>3. /\ claims \in Claims
        /\ expiresAt[claims.login] # Never
        /\ expiresAt[claims.login] = claims.expires
    BY <2>2, SignedIsTyped
  <2> HIDE DEF claims
  <2>4. claims.expires \in Int /\ now <= claims.expires
    BY <2>2, <2>3, CodeAssumption DEF Claims
  <2>5. handler' = [handler EXCEPT
            ![h] = [at |-> "exchange", login |-> l, claims |-> claims,
                    startedAt |-> now]]
    BY <2>1 DEF claims
  <2>6. UNCHANGED expiresAt
    BY <1>2 DEF Redirect
  <2> QED
    BY <2>3, <2>4, <2>5, <2>6 DEF LoginIsInTime
<1>3. ASSUME NEW h \in Handlers, ExchangeCode(h)
      PROVE  LoginIsInTime'
  <2>1. handler[h] # Idle
    BY <1>3 DEF ExchangeCode, Idle
  <2>2. CASE code[handler[h].login] = "fresh"
    BY <1>3, <2>1, <2>2 DEF ExchangeCode, LoginIsInTime
  <2>3. CASE code[handler[h].login] # "fresh"
    BY <1>3, <2>3 DEF ExchangeCode, LoginIsInTime
  <2> QED
    BY <2>2, <2>3
<1>4. ASSUME NEW h \in Handlers, Exchanged(h)
      PROVE  LoginIsInTime'
  <2>1. /\ handler[h] # Idle
        /\ handler[h]' = [handler[h] EXCEPT !.at = "lookup"]
    BY <1>4 DEF Exchanged, Idle
  <2>2. /\ handler[h]'.claims = handler[h].claims
        /\ handler[h]'.startedAt = handler[h].startedAt
    BY <1>4, <2>1 DEF Exchanged, HandlerStates
  <2> QED
    BY <1>4, <2>1, <2>2 DEF Exchanged, LoginIsInTime
<1>5. ASSUME NEW h \in Handlers, LookedUp(h) \/ HandlerFails(h)
      PROVE  LoginIsInTime'
  BY <1>5 DEF LookedUp, HandlerFails, LoginIsInTime
<1>6. ASSUME NEW l \in Logins,
             \/ Approve(l) \/ RefreshAccessToken(l) \/ RefreshServed(l)
             \/ Refreshed(l) \/ RefreshFails(l)
      PROVE  LoginIsInTime'
  BY <1>6 DEF Approve, RefreshAccessToken, RefreshServed, Refreshed, RefreshFails,
     LoginIsInTime
<1>7. CASE Tick \/ UNCHANGED vars
  BY <1>7 DEF Tick, vars, LoginIsInTime
<1> QED
  BY <1>1, <1>2, <1>3, <1>4, <1>5, <1>6, <1>7 DEF Next

\* Every redirect that is taken up has claims the application signed, inside
\* the life it signed into them, whichever login they are of and whatever the
\* browser tampered with, for every number of logins and redirects and every
\* life of a state.
THEOREM LoginIsInTimeTheorem == Spec => []LoginIsInTime
<1>1. Init => LoginIsInTime
  BY DEF Init, LoginIsInTime
<1>2. TypeOK /\ LoginIsInTime /\ [Next]_vars => LoginIsInTime'
  BY InTimeStep
<1> QED
  BY <1>1, <1>2, TypeCorrect, PTL DEF Spec

----------------------------------------------------------------------------
(* What becomes of a spent code.                                           *)

\* Handler h holds the tokens of login l.
Holds(h, l) == handler[h].at \in {"exchanged", "lookup"} /\ handler[h].login = l

(***************************************************************************)
(* One handler at most holds the tokens of a login, and only while there   *)
(* is nothing else to show for its spent code; a session came from one,    *)
(* and is only replaced by a refresh of its own.                           *)
(***************************************************************************)
CodeInv ==
    /\ \A l \in Logins : \A h, g \in Handlers : Holds(h, l) /\ Holds(g, l) => h = g
    /\ \A l \in Logins : \A h \in Handlers : Holds(h, l) =>
           code[l] = "spent" /\ session[l] = NoSession /\ l \notin lost
    /\ \A l \in Logins : session[l] # NoSession \/ l \in lost => code[l] = "spent"
    /\ \A l \in Logins : renewal[l] # NoRenewal => session[l] # NoSession
    /\ \A l \in Logins : code[l] = "spent" =>
           l \in lost \/ session[l] # NoSession \/ \E h \in Handlers : Holds(h, l)

\* The steps of a login keep what is known of its code.
LEMMA CodeStep ==
    ASSUME TypeOK, CodeInv, [Next]_vars
    PROVE  CodeInv'
<1> USE DEF TypeOK
<1>1. CASE Tick \/ UNCHANGED vars
  BY <1>1 DEF Tick, vars, CodeInv, Holds
<1>2. ASSUME NEW l \in Logins, Authorize(l)
      PROVE  CodeInv'
  BY <1>2 DEF Authorize, CodeInv, Holds
<1>3. ASSUME NEW l \in Logins, Approve(l)
      PROVE  CodeInv'
  BY <1>3 DEF Approve, CodeInv, Holds
<1>4. ASSUME NEW h \in Handlers, NEW l \in Logins, Redirect(h, l)
      PROVE  CodeInv'
  <2>1. handler[h] = Idle /\ handler'[h].at = "exchange"
    BY <1>4 DEF Redirect
  <2>2. \A g \in Handlers, k \in Logins : Holds(g, k)' <=> Holds(g, k)
    BY <1>4, <2>1 DEF Redirect, Holds, Idle
  <2> QED
    BY <1>4, <2>2 DEF Redirect, CodeInv
<1>5. ASSUME NEW h \in Handlers, ExchangeCode(h)
      PROVE  CodeInv'
  <2> DEFINE l == handler[h].login
  <2>1. l \in Logins
    BY <1>5 DEF ExchangeCode, HandlerStates, Idle
  <2>2. CASE code[l] = "fresh"
    <3>1. \A k \in Logins : Holds(h, k)' <=> k = l
      BY <1>5, <2>2 DEF ExchangeCode, Holds
    <3>2. \A g \in Handlers, k \in Logins : g # h => (Holds(g, k)' <=> Holds(g, k))
      BY <1>5, <2>2 DEF ExchangeCode, Holds
    <3>3. \A k \in Logins : ~Holds(h, k)
      BY <1>5 DEF ExchangeCode, Holds
    <3>4. \A g \in Handlers : ~Holds(g, l)
      BY <2>1, <2>2 DEF CodeInv
    <3>5. /\ code' = [code EXCEPT ![l] = "spent"]
          /\ UNCHANGED <<session, lost, renewal>>
      BY <1>5, <2>2 DEF ExchangeCode
    <3>6. session[l] = NoSession /\ l \notin lost
      BY <2>1, <2>2 DEF CodeInv
    <3> HIDE DEF l
    <3> QED
      BY <2>1, <2>2, <3>1, <3>2, <3>3, <3>4, <3>5, <3>6 DEF CodeInv
  <2>3. CASE code[l] # "fresh"
    <3>1. \A g \in Handlers, k \in Logins : Holds(g, k)' <=> Holds(g, k)
      BY <1>5, <2>3 DEF ExchangeCode, Holds, Idle
    <3> QED
      BY <1>5, <2>3, <3>1 DEF ExchangeCode, CodeInv
  <2> QED
    BY <2>2, <2>3
<1>6. ASSUME NEW h \in Handlers, Exchanged(h)
      PROVE  CodeInv'
  <2>1. handler'[h] = [handler[h] EXCEPT !.at = "lookup"]
    BY <1>6 DEF Exchanged
  <2>2. handler'[h].at = "lookup" /\ handler'[h].login = handler[h].login
    BY <1>6, <2>1 DEF Exchanged, HandlerStates, Idle
  <2>3. \A g \in Handlers, k \in Logins : Holds(g, k)' <=> Holds(g, k)
    BY <1>6, <2>2 DEF Exchanged, Holds
  <2> QED
    BY <1>6, <2>3 DEF Exchanged, CodeInv
<1>7. ASSUME NEW h \in Handlers, LookedUp(h)
      PROVE  CodeInv'
  <2> DEFINE l == handler[h].login
  <2>1. l \in Logins /\ Holds(h, l)
    BY <1>7 DEF LookedUp, HandlerStates, Idle, Holds
  <2>2. \A k \in Logins : ~Holds(h, k)'
    BY <1>7 DEF LookedUp, Holds, Idle
  <2>3. \A g \in Handlers, k \in Logins : g # h => (Holds(g, k)' <=> Holds(g, k))
    BY <1>7 DEF LookedUp, Holds
  <2>4. \A k \in Logins : k # l => ~Holds(h, k)
    BY DEF Holds
  <2>5. /\ \A k \in Logins : k # l => session'[k] = session[k]
        /\ \/ l \in lost' /\ session'[l] = NoSession
           \/ lost' = lost /\ session'[l] # NoSession
        /\ \A k \in Logins : k # l => (k \in lost' <=> k \in lost)
        /\ UNCHANGED <<code, renewal>>
    <3>1. handler[h].startedAt # Never
      BY <1>7 DEF LookedUp, HandlerStates, Idle, Never
    <3>2. handler[h].tokens.refresh => BuildAuthOutcome(handler[h]) # NoSession
      BY <3>1 DEF BuildAuthOutcome, NoSession
    <3>3. ~handler[h].tokens.refresh => BuildAuthOutcome(handler[h]) = NoSession
      BY DEF BuildAuthOutcome
    <3> QED
      BY <1>7, <2>1, <3>2, <3>3 DEF LookedUp
  <2>6. /\ code[l] = "spent" /\ session[l] = NoSession /\ l \notin lost
        /\ \A g \in Handlers : Holds(g, l) => g = h
        /\ renewal[l] = NoRenewal
    BY <2>1 DEF CodeInv
  <2> HIDE DEF l
  <2> QED
    BY <2>1, <2>2, <2>3, <2>4, <2>5, <2>6 DEF CodeInv
<1>8. ASSUME NEW h \in Handlers, HandlerFails(h)
      PROVE  CodeInv'
  <2>1. \A k \in Logins : ~Holds(h, k)'
    BY <1>8 DEF HandlerFails, Holds, Idle
  <2>2. \A g \in Handlers, k \in Logins : g # h => (Holds(g, k)' <=> Holds(g, k))
    BY <1>8 DEF HandlerFails, Holds
  <2>3. UNCHANGED <<code, session, renewal>>
    BY <1>8 DEF HandlerFails
  <2>4. CASE handler[h].at = "exchange"
    <3>1. lost' = lost /\ \A k \in Logins : ~Holds(h, k)
      BY <1>8, <2>4 DEF HandlerFails, Holds
    <3> QED
      BY <2>1, <2>2, <2>3, <3>1 DEF CodeInv
  <2>5. CASE handler[h].at # "exchange"
    <3> DEFINE l == handler[h].login
    <3>1. l \in Logins /\ Holds(h, l) /\ lost' = lost \cup {l}
      BY <1>8, <2>5 DEF HandlerFails, HandlerStates, Holds
    <3>2. \A k \in Logins : k # l => ~Holds(h, k)
      BY DEF Holds
    <3>3. \A g \in Handlers : Holds(g, l) => g = h
      BY <3>1 DEF CodeInv
    <3> HIDE DEF l
    <3> QED
      BY <2>1, <2>2, <2>3, <3>1, <3>2, <3>3 DEF CodeInv
  <2> QED
    BY <2>4, <2>5
<1>9. ASSUME NEW l \in Logins,
             RefreshAccessToken(l) \/ RefreshServed(l) \/ Refreshed(l) \/ RefreshFails(l)
      PROVE  CodeInv'
  <2>1. \A g \in Handlers, k \in Logins : Holds(g, k)' <=> Holds(g, k)
    BY <1>9 DEF RefreshAccessToken, RefreshServed, Refreshed, RefreshFails, Holds
  <2>2. /\ UNCHANGED <<code, lost>>
        /\ \A k \in Logins : k # l => renewal'[k] = renewal[k] /\ session'[k] = session[k]
    BY <1>9 DEF RefreshAccessToken, RefreshServed, Refreshed, RefreshFails
  <2>3. session[l] # NoSession
    BY <1>9 DEF RefreshAccessToken, RefreshServed, Refreshed, RefreshFails, CodeInv, NoRenewal
  <2>4. session'[l] # NoSession
    <3>1. CASE Refreshed(l)
      <4>1. renewal[l].startedAt \in 0 .. now
        BY <3>1 DEF Refreshed, Renewals, NoRenewal
      <4>2. PICK t \in renewal[l].startedAt .. now :
              session'[l] = RefreshedTokenState(renewal[l].tokens, t)
        BY <3>1 DEF Refreshed
      <4> QED
        BY <4>1, <4>2 DEF RefreshedTokenState, NoSession, Never
    <3>2. CASE ~Refreshed(l)
      BY <1>9, <2>3, <3>2 DEF RefreshAccessToken, RefreshServed, RefreshFails
    <3> QED
      BY <3>1, <3>2
  <2> QED
    BY <2>1, <2>2, <2>3, <2>4 DEF CodeInv
<1> QED
  BY <1>1, <1>2, <1>3, <1>4, <1>5, <1>6, <1>7, <1>8, <1>9 DEF Next

\* However often the redirect is handled, a spent code ends as a session, as
\* tokens in exactly one handler, or as a recorded loss.
THEOREM SpentCodeTheorem == Spec => []SpentCodeIsKept
<1>1. Init => CodeInv
  BY DEF Init, CodeInv, Holds, Idle
<1>2. TypeOK /\ CodeInv /\ [Next]_vars => CodeInv'
  BY CodeStep
<1>3. CodeInv => SpentCodeIsKept
  <2> SUFFICES ASSUME CodeInv, NEW l \in Logins, code[l] = "spent", l \notin lost
               PROVE  \/ session[l] # NoSession /\ InFlight(l) = {}
                      \/ /\ session[l] = NoSession
                         /\ \E h \in Handlers : InFlight(l) = {h}
    BY DEF SpentCodeIsKept
  <2>1. InFlight(l) = {h \in Handlers : Holds(h, l)}
    BY DEF InFlight, Holds
  <2>2. CASE session[l] # NoSession
    BY <2>1, <2>2 DEF CodeInv
  <2>3. CASE session[l] = NoSession
    <3>1. PICK h \in Handlers : Holds(h, l)
      BY <2>3 DEF CodeInv
    <3>2. InFlight(l) = {h}
      BY <2>1, <3>1 DEF CodeInv
    <3> QED
      BY <2>3, <3>2
  <2> QED
    BY <2>2, <2>3
<1> QED
  BY <1>1, <1>2, <1>3, TypeCorrect, PTL DEF Spec

----------------------------------------------------------------------------
(* The life of a token.                                                    *)

(***************************************************************************)
(* A session is dated from before its token was issued, or from at most    *)
(* MaxLag after; so is what will become a session.                         *)
(***************************************************************************)
DatedInTime ==
    /\ \A h \in Handlers : handler[h].at \in {"exchanged", "lookup"} =>
           handler[h].startedAt <= handler[h].tokens.issuedAt
    /\ \A l \in Logins : session[l] # NoSession =>
           session[l].linkedAt <= session[l].issuedAt + MaxLag
    /\ \A l \in Logins : renewal[l].at = "answered" =>
           now <= renewal[l].tokens.issuedAt + MaxLag

\* The clock, the answers and what is made of them keep the dates in time.
LEMMA DatedStep ==
    ASSUME TypeOK, DatedInTime, [Next]_vars
    PROVE  DatedInTime'
<1> USE CodeAssumption DEF TypeOK
<1>1. CASE Tick
  <2>1. ASSUME NEW l \in Logins, renewal[l].at = "answered"
        PROVE  now + 1 <= renewal[l].tokens.issuedAt + MaxLag
    <3>1. renewal[l].tokens \in UNION {Tokens(t) : t \in 0 .. now}
      BY <2>1 DEF Renewals, NoRenewal
    <3>2. renewal[l].tokens.issuedAt \in 0 .. now
      BY <3>1 DEF Tokens
    <3>3. now < renewal[l].tokens.issuedAt + MaxLag
      BY <1>1, <2>1 DEF Tick
    <3> QED
      BY <3>2, <3>3
  <2> QED
    BY <1>1, <2>1 DEF Tick, DatedInTime
<1>2. ASSUME NEW l \in Logins,
             \/ Authorize(l) \/ Approve(l) \/ RefreshAccessToken(l) \/ RefreshFails(l)
      PROVE  DatedInTime'
  BY <1>2 DEF Authorize, Approve, RefreshAccessToken, RefreshFails, DatedInTime, NoRenewal
<1>3. ASSUME NEW h \in Handlers, NEW l \in Logins, Redirect(h, l)
      PROVE  DatedInTime'
  BY <1>3 DEF Redirect, DatedInTime
<1>4. ASSUME NEW h \in Handlers, ExchangeCode(h)
      PROVE  DatedInTime'
  <2>1. handler[h].startedAt \in 0 .. now
    BY <1>4 DEF ExchangeCode, HandlerStates, Idle
  <2>2. CASE code[handler[h].login] = "fresh"
    <3>1. PICK tokens \in Tokens(now) : handler' = [handler EXCEPT
              ![h] = [at |-> "exchanged", login |-> handler[h].login,
                      claims |-> @.claims, startedAt |-> @.startedAt, tokens |-> tokens]]
      BY <1>4, <2>2 DEF ExchangeCode
    <3>2. tokens.issuedAt = now
      BY DEF Tokens
    <3>3. /\ handler'[h].startedAt = handler[h].startedAt
          /\ handler'[h].tokens.issuedAt = now
      BY <3>1, <3>2
    <3>4. UNCHANGED <<now, session, renewal>>
      BY <1>4 DEF ExchangeCode
    <3> QED
      BY <2>1, <3>1, <3>3, <3>4 DEF DatedInTime
  <2>3. CASE code[handler[h].login] # "fresh"
    BY <1>4, <2>3 DEF ExchangeCode, DatedInTime, Idle
  <2> QED
    BY <2>2, <2>3
<1>5. ASSUME NEW h \in Handlers, Exchanged(h)
      PROVE  DatedInTime'
  <2>1. handler'[h] = [handler[h] EXCEPT !.at = "lookup"]
    BY <1>5 DEF Exchanged
  <2>2. /\ handler'[h].startedAt = handler[h].startedAt
        /\ handler'[h].tokens = handler[h].tokens
    BY <1>5, <2>1 DEF Exchanged, HandlerStates, Idle
  <2> QED
    BY <1>5, <2>2 DEF Exchanged, DatedInTime
<1>6. ASSUME NEW h \in Handlers, LookedUp(h)
      PROVE  DatedInTime'
  <2>1. /\ handler[h].startedAt \in 0 .. now
        /\ handler[h].tokens \in UNION {Tokens(t) : t \in 0 .. now}
    BY <1>6 DEF LookedUp, HandlerStates, Idle
  <2>2. handler[h].tokens.issuedAt \in 0 .. now
    BY <2>1 DEF Tokens
  <2>3. handler[h].startedAt <= handler[h].tokens.issuedAt + MaxLag
    BY <1>6, <2>1, <2>2 DEF LookedUp, DatedInTime
  <2>4. BuildAuthOutcome(handler[h]) # NoSession =>
            BuildAuthOutcome(handler[h]).linkedAt
                <= BuildAuthOutcome(handler[h]).issuedAt + MaxLag
    BY <2>3 DEF BuildAuthOutcome
  <2> QED
    BY <1>6, <2>4 DEF LookedUp, DatedInTime, Idle
<1>7. ASSUME NEW h \in Handlers, HandlerFails(h)
      PROVE  DatedInTime'
  BY <1>7 DEF HandlerFails, DatedInTime, Idle
<1>8. ASSUME NEW l \in Logins, RefreshServed(l)
      PROVE  DatedInTime'
  <2>1. PICK tokens \in Tokens(now) : renewal' = [renewal EXCEPT
            ![l] = [at |-> "answered", startedAt |-> @.startedAt, tokens |-> tokens]]
    BY <1>8 DEF RefreshServed
  <2>2. tokens.issuedAt = now
    BY DEF Tokens
  <2>3. now <= renewal'[l].tokens.issuedAt + MaxLag
    BY <2>1, <2>2
  <2> QED
    BY <1>8, <2>1, <2>3 DEF RefreshServed, DatedInTime
<1>9. ASSUME NEW l \in Logins, Refreshed(l)
      PROVE  DatedInTime'
  <2>1. /\ renewal[l].startedAt \in 0 .. now
        /\ renewal[l].tokens \in UNION {Tokens(t) : t \in 0 .. now}
    BY <1>9 DEF Refreshed, Renewals, NoRenewal
  <2>2. renewal[l].tokens.issuedAt \in 0 .. now
    BY <2>1 DEF Tokens
  <2>3. PICK t \in renewal[l].startedAt .. now :
            session' = [session EXCEPT ![l] = RefreshedTokenState(renewal[l].tokens, t)]
    BY <1>9 DEF Refreshed
  <2>4. t <= renewal[l].tokens.issuedAt + MaxLag
    BY <1>9, <2>1, <2>2 DEF Refreshed, DatedInTime
  <2>5. session'[l].linkedAt <= session'[l].issuedAt + MaxLag
    BY <2>3, <2>4 DEF RefreshedTokenState
  <2> QED
    BY <1>9, <2>3, <2>5 DEF Refreshed, DatedInTime, NoRenewal
<1>10. CASE UNCHANGED vars
  BY <1>10 DEF vars, DatedInTime
<1> QED
  BY <1>1, <1>2, <1>3, <1>4, <1>5, <1>6, <1>7, <1>8, <1>9, <1>10 DEF Next

\* A token that is not due is alive, whatever the lives of tokens and the
\* skew, as long as no answer takes as long as the skew.
THEOREM UndueTokenTheorem == Spec => []UndueTokenIsAlive
<1>1. Init => DatedInTime
  BY DEF Init, DatedInTime, Idle, NoRenewal
<1>2. TypeOK /\ DatedInTime /\ [Next]_vars => DatedInTime'
  BY DatedStep
<1>3. TypeOK /\ DatedInTime => UndueTokenIsAlive
  <2> SUFFICES ASSUME TypeOK, DatedInTime, NEW l \in Logins, session[l] # NoSession,
                      session[l].expires, ~ShouldRefresh(session[l], now)
               PROVE  now < session[l].issuedAt + TokenLife
    BY DEF UndueTokenIsAlive
  <2>1. now \in Nat /\ session[l].linkedAt \in Nat /\ session[l].issuedAt \in Nat
    BY CodeAssumption DEF TypeOK, Sessions
  <2>2. session[l].linkedAt <= session[l].issuedAt + MaxLag
    BY DEF DatedInTime
  <2>3. ~(now >= session[l].linkedAt + TokenLife - Skew)
    BY DEF ShouldRefresh
  <2> QED
    BY <2>1, <2>2, <2>3, CodeAssumption
<1> QED
  BY <1>1, <1>2, <1>3, TypeCorrect, PTL DEF Spec
============================================================================
