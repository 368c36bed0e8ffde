------------------------- MODULE AuthSessionProofs -------------------------
(***************************************************************************)
(* Theorems about AuthSession for every set of callers and accounts, every *)
(* bound and either kind of refresh token.                                 *)
(***************************************************************************)
EXTENDS AuthSession, TLAPS

USE ConstantsAssumption

\* What the shared tuples of variables and the helpers of a call stand for.
USE DEF storeVars, callVars, serviceVars, vars, Goto, Finish, Fault, Drop,
        Resting, Running

\* A refresh keeps an auth well typed: all three of its replacements are
\* tokens again.
LEMMA RefreshedType ==
    ASSUME NEW a \in Auth, NEW s \in BOOLEAN, issued \in Nat
    PROVE  /\ Refreshed(a, s) \in Auth
           /\ Refreshed(a, s).access \in Token
           /\ Refreshed(a, s).refresh \in Token
<1> DEFINE fresh == [a.refresh EXCEPT !.n = issued + 1]
<1>1. a.refresh \in Token
  BY DEF Auth
<1>2. fresh \in Token
  BY <1>1 DEF Token
<1>3. Refreshed(a, s) = [a EXCEPT !.access = fresh,
                                  !.refresh = IF OneTime THEN fresh ELSE a.refresh,
                                  !.scopes = s]
  BY DEF Refreshed
<1> HIDE DEF fresh
<1>4. Refreshed(a, s) \in Auth
  BY <1>1, <1>2, <1>3 DEF Auth
<1> QED
  BY <1>4 DEF Auth

\* A login makes a well-typed auth and well-typed tokens.
LEMMA LoginAuthType ==
    ASSUME NEW u \in Users, issued \in Nat
    PROVE  /\ LoginAuth(u) \in Auth
           /\ LoginAuth(u).access \in Token
           /\ LoginAuth(u).refresh \in Token
BY DEF LoginAuth, Auth, Token

\* Whatever a refresh does at the service keeps the service's sets well typed.
LEMMA ServiceRefreshType ==
    ASSUME NEW a \in Auth, TypeOK, ServiceRefresh(a)
    PROVE  /\ live' \in SUBSET Token
           /\ usable' \in SUBSET Token
           /\ spent' \in SUBSET Token
           /\ issued' \in Nat
<1>1. /\ Refreshed(a, TRUE).access \in Token
      /\ Refreshed(a, TRUE).refresh \in Token
  BY RefreshedType DEF TypeOK
<1>2. a.refresh \in Token
  BY DEF Auth
<1>3. live' \in SUBSET Token /\ issued' \in Nat
  <2>1. issued' \in Nat
    BY DEF ServiceRefresh, TypeOK
  <2>2. live' = live \cup {Refreshed(a, TRUE).access}
    BY DEF ServiceRefresh
  <2> QED
    BY <1>1, <2>1, <2>2 DEF TypeOK
<1>4. CASE OneTime
  BY <1>1, <1>2, <1>3, <1>4 DEF ServiceRefresh, TypeOK
<1>5. CASE ~OneTime
  BY <1>3, <1>5 DEF ServiceRefresh, TypeOK
<1> QED
  BY <1>4, <1>5

\* While a call is running it has an auth in hand: the early return on an
\* empty store keeps None away from the requests.
RunningHasAuth ==
    \A c \in Callers : pc[c] \in Running => auth[c] \in Auth /\ loaded[c] \in Auth

\* The session is type correct: the store holds an auth or None, and no call
\* goes to the token service or the store without the auth it loaded.
THEOREM TypeCorrect == Spec => [](TypeOK /\ RunningHasAuth)
<1>1. Init => TypeOK /\ RunningHasAuth
  <2> SUFFICES ASSUME Init PROVE TypeOK /\ RunningHasAuth
    OBVIOUS
  <2>1. TypeOK
    BY DEF Init, TypeOK
  <2>2. RunningHasAuth
    BY DEF Init, RunningHasAuth
  <2> QED
    BY <2>1, <2>2
<1>2. TypeOK /\ RunningHasAuth /\ [Next]_vars => TypeOK' /\ RunningHasAuth'
  <2> SUFFICES ASSUME TypeOK, RunningHasAuth, [Next]_vars
               PROVE  TypeOK' /\ RunningHasAuth'
    OBVIOUS
  <2> USE DEF TypeOK, RunningHasAuth
  <2>1. ASSUME NEW c \in Callers, NEW first \in {"validate", "refresh"},
               Start(c, first)
        PROVE  TypeOK' /\ RunningHasAuth'
    BY <2>1 DEF Start
  <2>2. ASSUME NEW c \in Callers, ValidateAccepted(c) \/ ValidateRejected(c)
                  \/ RefreshRefused(c) \/ RefreshRejected(c)
        PROVE  TypeOK' /\ RunningHasAuth'
    BY <2>2 DEF ValidateAccepted, ValidateRejected, RefreshRefused, RefreshRejected
  <2>3. ASSUME NEW c \in Callers, RefreshGranted(c)
        PROVE  TypeOK' /\ RunningHasAuth'
    <3>1. auth[c] \in Auth /\ auth[c].refresh \in Token
      BY <2>3 DEF RefreshGranted, Auth
    <3>2. PICK s \in BOOLEAN : Goto(c, "save", Refreshed(auth[c], s))
      BY <2>3 DEF RefreshGranted
    <3>3. Refreshed(auth[c], s) \in Auth
      BY <3>1, RefreshedType
    <3>4. /\ live' \in SUBSET Token /\ usable' \in SUBSET Token
          /\ spent' \in SUBSET Token /\ issued' \in Nat
      BY <2>3, <3>1, ServiceRefreshType DEF RefreshGranted
    <3> QED
      BY <2>3, <3>2, <3>3, <3>4 DEF RefreshGranted
  <2>4. ASSUME NEW c \in Callers, RefreshReplyLost(c)
        PROVE  TypeOK' /\ RunningHasAuth'
    <3>1. auth[c] \in Auth /\ auth[c].refresh \in Token
      BY <2>4 DEF RefreshReplyLost, Auth
    <3>3. /\ live' \in SUBSET Token /\ usable' \in SUBSET Token
          /\ spent' \in SUBSET Token /\ issued' \in Nat
      BY <2>4, <3>1, ServiceRefreshType DEF RefreshReplyLost
    <3> QED
      BY <2>4, <3>1, <3>3 DEF RefreshReplyLost
  <2>5. ASSUME NEW c \in Callers, Save(c) \/ Clear(c)
        PROVE  TypeOK' /\ RunningHasAuth'
    BY <2>5 DEF Save, Clear
  <2>6. ASSUME NEW c \in Callers, LoadFails(c) \/ RequestFails(c) \/ ClearFails(c)
        PROVE  TypeOK' /\ RunningHasAuth'
    BY <2>6 DEF LoadFails, RequestFails, ClearFails
  <2>7. ASSUME NEW c \in Callers, SaveFails(c) \/ Cancel(c)
        PROVE  TypeOK' /\ RunningHasAuth'
    BY <2>7 DEF SaveFails, Cancel
  <2>8. ASSUME NEW u \in Users, Login(u)
        PROVE  TypeOK' /\ RunningHasAuth'
    BY <2>8, LoginAuthType DEF Login
  <2>9. CASE Logout
    BY <2>9 DEF Logout
  <2>10. CASE Crash
    BY <2>10 DEF Crash
  <2>11. ASSUME NEW t \in live, AccessExpires(t)
         PROVE  TypeOK' /\ RunningHasAuth'
    BY <2>11 DEF AccessExpires
  <2>12. ASSUME NEW l, Revoke(l)
         PROVE  TypeOK' /\ RunningHasAuth'
    BY <2>12 DEF Revoke
  <2>13. CASE UNCHANGED vars
    BY <2>13
  <2> QED
    BY <2>1, <2>2, <2>3, <2>4, <2>5, <2>6, <2>7, <2>8, <2>9, <2>10, <2>11,
       <2>12, <2>13 DEF Next, Advance, Disturb
<1> QED
  BY <1>1, <1>2, PTL DEF Spec

----------------------------------------------------------------------------
(* Where auths and tokens come from.                                       *)

\* A step that mints nothing: no auth appears, no token becomes good.
Quiet ==
    /\ Held' \subseteq Held
    /\ live' \subseteq live
    /\ usable' \subseteq usable
    /\ spent' = spent
    /\ issued' = issued

\* A step that refreshes a held auth b at the service.
Refreshes(b) ==
    /\ ServiceRefresh(b)
    /\ Held' \subseteq Held \cup {Refreshed(b, s) : s \in BOOLEAN}

\* A step that logs user u in.
LogsIn(u) ==
    /\ Login(u)
    /\ Held' \subseteq Held \cup {LoginAuth(u)}

\* Every step is of one of these three kinds.
LEMMA StepKinds ==
    ASSUME TypeOK, RunningHasAuth, [Next]_vars
    PROVE  \/ Quiet
           \/ \E b \in Held : Refreshes(b)
           \/ \E u \in Users : LogsIn(u)
<1> USE DEF TypeOK
<1>1. ASSUME NEW c \in Callers, NEW first \in {"validate", "refresh"},
             Start(c, first)
      PROVE  Quiet
  <2>1. \A d \in Callers : auth'[d] \in {auth[d], store, NoAuth}
    BY <1>1 DEF Start
  <2> QED
    BY <1>1, <2>1 DEF Start, Quiet, Held
<1>2. ASSUME NEW c \in Callers, ValidateAccepted(c) \/ ValidateRejected(c)
                \/ RefreshRefused(c) \/ RefreshRejected(c) \/ Save(c) \/ Clear(c)
                \/ LoadFails(c) \/ RequestFails(c) \/ ClearFails(c)
                \/ SaveFails(c) \/ Cancel(c)
      PROVE  Quiet
  <2>1. \A d \in Callers : auth'[d] \in {auth[d], NoAuth}
    BY <1>2 DEF ValidateAccepted, ValidateRejected, RefreshRefused, RefreshRejected,
         Save, Clear, LoadFails, RequestFails, ClearFails, SaveFails, Cancel
  <2>2. store' \in {store, NoAuth, auth[c]}
    BY <1>2 DEF ValidateAccepted, ValidateRejected, RefreshRefused, RefreshRejected,
         Save, Clear, LoadFails, RequestFails, ClearFails, SaveFails, Cancel
  <2>3. live' = live /\ usable' = usable /\ spent' = spent /\ issued' = issued
    BY <1>2 DEF ValidateAccepted, ValidateRejected, RefreshRefused, RefreshRejected,
         Save, Clear, LoadFails, RequestFails, ClearFails, SaveFails, Cancel
  <2> QED
    BY <2>1, <2>2, <2>3 DEF Quiet, Held
<1>3. ASSUME NEW c \in Callers, RefreshGranted(c)
      PROVE  \E b \in Held : Refreshes(b)
  <2>1. auth[c] \in Held
    BY <1>3 DEF RefreshGranted, RunningHasAuth, Held
  <2>2. PICK s \in BOOLEAN : Goto(c, "save", Refreshed(auth[c], s))
    BY <1>3 DEF RefreshGranted
  <2>3. \A d \in Callers : auth'[d] \in {auth[d], Refreshed(auth[c], s)}
    BY <2>2
  <2>4. store' = store /\ ServiceRefresh(auth[c])
    BY <1>3 DEF RefreshGranted
  <2> QED
    BY <2>1, <2>3, <2>4 DEF Refreshes, Held
<1>4. ASSUME NEW c \in Callers, RefreshReplyLost(c)
      PROVE  \E b \in Held : Refreshes(b)
  <2>1. auth[c] \in Held
    BY <1>4 DEF RefreshReplyLost, RunningHasAuth, Held
  <2>2. \A d \in Callers : auth'[d] \in {auth[d], NoAuth}
    BY <1>4 DEF RefreshReplyLost
  <2>3. store' = store /\ ServiceRefresh(auth[c])
    BY <1>4 DEF RefreshReplyLost
  <2> QED
    BY <2>1, <2>2, <2>3 DEF Refreshes, Held
<1>5. ASSUME NEW u \in Users, Login(u)
      PROVE  LogsIn(u)
  BY <1>5 DEF Login, LogsIn, Held
<1>6. CASE Logout
  BY <1>6 DEF Logout, Quiet, Held
<1>7. CASE Crash
  <2>1. \A d \in Callers : auth'[d] = NoAuth
    BY <1>7 DEF Crash
  <2>2. store' \in {store, NoAuth}
    BY <1>7 DEF Crash
  <2> QED
    BY <1>7, <2>1, <2>2 DEF Crash, Quiet, Held
<1>8. ASSUME NEW t \in live, AccessExpires(t)
      PROVE  Quiet
  BY <1>8 DEF AccessExpires, Quiet, Held
<1>9. ASSUME NEW l, Revoke(l)
      PROVE  Quiet
  BY <1>9 DEF Revoke, Quiet, Held
<1>10. CASE UNCHANGED vars
  BY <1>10 DEF Quiet, Held
<1> QED
  BY <1>1, <1>2, <1>3, <1>4, <1>5, <1>6, <1>7, <1>8, <1>9, <1>10
  DEF Next, Advance, Disturb

----------------------------------------------------------------------------
(* Identity and freshness of the held auths.                               *)

\* What a refresh makes of each field: the identity is the one loaded, the
\* tokens belong to the refreshed login and carry the next serial number.
LEMMA RefreshedFields ==
    ASSUME NEW a \in Auth, NEW s \in BOOLEAN, issued \in Nat
    PROVE  /\ Refreshed(a, s).identity = a.identity
           /\ Refreshed(a, s).access.owner = a.refresh.owner
           /\ Refreshed(a, s).access.login = a.refresh.login
           /\ Refreshed(a, s).access.n = issued + 1
           /\ OneTime => Refreshed(a, s).refresh = Refreshed(a, s).access
           /\ ~OneTime => Refreshed(a, s).refresh = a.refresh
<1> DEFINE fresh == [a.refresh EXCEPT !.n = issued + 1]
<1>1. a.refresh \in Token
  BY DEF Auth
<1>2. /\ fresh.owner = a.refresh.owner
      /\ fresh.login = a.refresh.login
      /\ fresh.n = issued + 1
  BY <1>1 DEF Token
<1>3. Refreshed(a, s) = [a EXCEPT !.access = fresh,
                                  !.refresh = IF OneTime THEN fresh ELSE a.refresh,
                                  !.scopes = s]
  BY DEF Refreshed
<1> HIDE DEF fresh
<1>4. /\ Refreshed(a, s).identity = a.identity
      /\ Refreshed(a, s).access = fresh
      /\ Refreshed(a, s).refresh = IF OneTime THEN fresh ELSE a.refresh
  BY <1>3 DEF Auth
<1> QED
  BY <1>2, <1>4

\* What a login makes of each field: one fresh token pair for one account.
LEMMA LoginAuthFields ==
    ASSUME NEW u \in Users, issued \in Nat
    PROVE  /\ LoginAuth(u).identity = u
           /\ LoginAuth(u).access = LoginAuth(u).refresh
           /\ LoginAuth(u).refresh.owner = u
           /\ LoginAuth(u).refresh.login = issued + 1
           /\ LoginAuth(u).refresh.n = issued + 1
BY DEF LoginAuth

\* What is stored or in the hands of a call is an auth.
LEMMA HeldIsAuth == TypeOK => Held \subseteq Auth
BY DEF TypeOK, Held

\* Nothing held or known to the service carries a serial number yet to come.
Fresh ==
    /\ \A a \in Held : a.access.n \leq issued /\ a.refresh.n \leq issued
                       /\ a.refresh.login \leq issued
    /\ \A t \in live \cup usable \cup spent : t.n \leq issued

\* Refresh tokens of one login belong to one account; when refresh tokens are
\* not rotated a login has only the one it started with, and none is spent.
OneAccountPerLogin ==
    /\ \A a, b \in Held : a.refresh.login = b.refresh.login
                             => a.refresh.owner = b.refresh.owner
    /\ ~OneTime => /\ \A a \in Held : a.refresh.n = a.refresh.login
                   /\ spent = {}

Provenance == IdentityMatchesTokens /\ Fresh /\ OneAccountPerLogin

\* Every step - a refresh, a login or one that mints nothing - keeps identity
\* and tokens together and the serial numbers in order.
LEMMA ProvenanceStep ==
    ASSUME TypeOK, RunningHasAuth, TypeOK', Provenance, [Next]_vars
    PROVE  Provenance'
<1> USE DEF Provenance
<1>0. issued \in Nat /\ Held \subseteq Auth
  BY HeldIsAuth DEF TypeOK
<1>1. CASE Quiet
  <2>1. IdentityMatchesTokens'
    BY <1>1 DEF Quiet, IdentityMatchesTokens
  <2>2. Fresh'
    BY <1>1 DEF Quiet, Fresh
  <2>3. OneAccountPerLogin'
    BY <1>1 DEF Quiet, OneAccountPerLogin
  <2> QED
    BY <2>1, <2>2, <2>3
<1>2. ASSUME NEW b \in Held, Refreshes(b)
      PROVE  Provenance'
  <2>0. b \in Auth
    BY <1>0
  <2>1. \A a \in Held' : a \in Held \/ \E s \in BOOLEAN : a = Refreshed(b, s)
    BY <1>2 DEF Refreshes
  <2>2. /\ issued' = issued + 1
        /\ live' = live \cup {Refreshed(b, TRUE).access}
        /\ b.refresh \in usable
    BY <1>2 DEF Refreshes, ServiceRefresh
  <2>3. /\ OneTime => /\ usable' \subseteq usable \cup {Refreshed(b, TRUE).refresh}
                      /\ spent' = spent \cup {b.refresh}
        /\ ~OneTime => usable' = usable /\ spent' = spent
    BY <1>2 DEF Refreshes, ServiceRefresh
  <2>4. IdentityMatchesTokens'
    <3> SUFFICES ASSUME NEW a \in Held'
                 PROVE  /\ a.identity = a.access.owner
                        /\ a.identity = a.refresh.owner
                        /\ a.access.login = a.refresh.login
      BY DEF IdentityMatchesTokens
    <3>1. CASE a \in Held
      BY <3>1 DEF IdentityMatchesTokens
    <3>2. CASE \E s \in BOOLEAN : a = Refreshed(b, s)
      BY <3>2, <1>0, <2>0, RefreshedFields DEF IdentityMatchesTokens
    <3> QED
      BY <2>1, <3>1, <3>2
  <2>5. Fresh'
    <3>1. ASSUME NEW a \in Held'
          PROVE  /\ a.access.n \leq issued' /\ a.refresh.n \leq issued'
                 /\ a.refresh.login \leq issued'
      <4>1. /\ b.access.n \in Nat /\ b.refresh.n \in Nat /\ b.refresh.login \in Nat
            /\ b.refresh.n \leq issued /\ b.refresh.login \leq issued
        BY <2>0 DEF Fresh, Auth, Token
      <4>2. CASE a \in Held
        <5>1. /\ a.access.n \in Nat /\ a.refresh.n \in Nat
              /\ a.refresh.login \in Nat
          BY <1>0, <4>2 DEF Auth, Token
        <5> QED
          BY <1>0, <2>2, <4>2, <5>1 DEF Fresh
      <4>3. CASE \E s \in BOOLEAN : a = Refreshed(b, s)
        <5>1. PICK s \in BOOLEAN : a = Refreshed(b, s)
          BY <4>3
        <5>2. /\ a.access.n = issued + 1
              /\ a.access.login = b.refresh.login
              /\ a.refresh = a.access \/ a.refresh = b.refresh
          BY <1>0, <2>0, <5>1, RefreshedFields
        <5> QED
          BY <1>0, <2>2, <4>1, <5>2
      <4> QED
        BY <2>1, <4>2, <4>3
    <3>2. ASSUME NEW t \in live' \cup usable' \cup spent'
          PROVE  t.n \leq issued'
      <4>1. t \in live \cup usable \cup spent \/ t = Refreshed(b, TRUE).access
        BY <2>2, <2>3, <1>0, <2>0, RefreshedFields
      <4>2. CASE t \in live \cup usable \cup spent
        <5>1. t.n \in Nat
          BY <4>2 DEF TypeOK, Token
        <5> QED
          BY <1>0, <2>2, <4>2, <5>1 DEF Fresh
      <4>3. CASE t = Refreshed(b, TRUE).access
        <5>1. t.n = issued + 1
          BY <1>0, <2>0, <4>3, RefreshedFields
        <5> QED
          BY <1>0, <2>2, <5>1
      <4> QED
        BY <4>1, <4>2, <4>3
    <3> QED
      BY <3>1, <3>2 DEF Fresh
  <2>6. OneAccountPerLogin'
    <3>1. \A a \in Held' : \E c \in Held :
             /\ a.refresh.login = c.refresh.login
             /\ a.refresh.owner = c.refresh.owner
             /\ ~OneTime => a.refresh.n = c.refresh.n
      BY <1>0, <2>0, <2>1, RefreshedFields
    <3> QED
      BY <2>3, <3>1 DEF OneAccountPerLogin
  <2> QED
    BY <2>4, <2>5, <2>6
<1>3. ASSUME NEW u \in Users, LogsIn(u)
      PROVE  Provenance'
  <2>1. \A a \in Held' : a \in Held \/ a = LoginAuth(u)
    BY <1>3 DEF LogsIn
  <2>2. /\ issued' = issued + 1
        /\ live' = live \cup {LoginAuth(u).access}
        /\ usable' = usable \cup {LoginAuth(u).refresh}
        /\ spent' = spent
    BY <1>3 DEF LogsIn, Login
  <2>3. IdentityMatchesTokens'
    BY <1>0, <2>1, LoginAuthFields DEF IdentityMatchesTokens
  <2>4. \A a \in Held : /\ a.access.n \in Nat /\ a.refresh.n \in Nat
                        /\ a.refresh.login \in Nat
    BY <1>0 DEF Auth, Token
  <2>5. Fresh'
    <3>1. \A a \in Held' : /\ a.access.n \leq issued' /\ a.refresh.n \leq issued'
                           /\ a.refresh.login \leq issued'
      BY <1>0, <2>1, <2>2, <2>4, LoginAuthFields DEF Fresh
    <3>2. \A t \in live \cup usable \cup spent : t.n \in Nat
      BY DEF TypeOK, Token
    <3>3. \A t \in live' \cup usable' \cup spent' : t.n \leq issued'
      BY <1>0, <2>2, <3>2, LoginAuthFields DEF Fresh
    <3> QED
      BY <3>1, <3>3 DEF Fresh
  <2>6. OneAccountPerLogin'
    <3>1. \A a \in Held : a.refresh.login # LoginAuth(u).refresh.login
      BY <1>0, <2>4, LoginAuthFields DEF Fresh
    <3> QED
      BY <1>0, <2>1, <2>2, <3>1, LoginAuthFields DEF OneAccountPerLogin
  <2> QED
    BY <2>3, <2>5, <2>6
<1> QED
  BY <1>1, <1>2, <1>3, StepKinds

\* Held auths have one owner, tokens are never older than their serial number
\* allows, and a login belongs to one account.
THEOREM ProvenanceHolds == Spec => []Provenance
<1>1. Init => Provenance
  <2> SUFFICES ASSUME Init PROVE Provenance
    OBVIOUS
  <2>1. Held = {} /\ live = {} /\ usable = {} /\ spent = {}
    BY DEF Init, Held
  <2> QED
    BY <2>1 DEF Provenance, IdentityMatchesTokens, Fresh, OneAccountPerLogin
<1>2. TypeOK /\ RunningHasAuth /\ TypeOK' /\ Provenance /\ [Next]_vars => Provenance'
  BY ProvenanceStep
<1> QED
  BY <1>1, <1>2, TypeCorrect, PTL DEF Spec

\* An auth never pairs one account's identity with another account's tokens.
THEOREM IdentityTheorem == Spec => []IdentityMatchesTokens
<1>1. Provenance => IdentityMatchesTokens
  BY DEF Provenance
<1> QED
  BY <1>1, ProvenanceHolds, PTL

----------------------------------------------------------------------------
(* Rotation: who holds the replacement of a spent refresh token.           *)

\* Until its tokens are replaced, a call has the auth it loaded in hand.
InHand ==
    \A c \in Callers :
        pc[c] \in {"validate", "refresh", "clear"} => auth[c] = loaded[c]

\* A replacement not yet saved is known to nobody but the call that holds it.
SoleHolder ==
    OneTime =>
        \A c \in Callers : pc[c] = "save" =>
            /\ \A d \in Callers \ {c} :
                  pc[d] \in Running => auth[d].refresh # auth[c].refresh
            /\ store # NoAuth => store.refresh # auth[c].refresh
            /\ auth[c].refresh \notin spent

Rotation == InHand /\ SoleHolder /\ SpentTokenAccounted

\* Nothing that running calls hold, and nothing stored, is a fresh token.
LEMMA FreshIsNew ==
    ASSUME TypeOK, RunningHasAuth, Provenance, NEW t, t.n = issued + 1
    PROVE  /\ \A c \in Callers : pc[c] \in Running => auth[c].refresh # t
           /\ store # NoAuth => store.refresh # t
           /\ t \notin usable /\ t \notin spent
<1>1. \A a \in Held : a.refresh.n \in Nat /\ a.refresh.n \leq issued
  BY HeldIsAuth DEF Provenance, Fresh, Auth, Token
<1>2. \A c \in Callers : pc[c] \in Running => auth[c] \in Held
  BY DEF RunningHasAuth, Held
<1>3. store # NoAuth => store \in Held
  BY DEF Held
<1>4. \A x \in usable \cup spent : x.n \in Nat /\ x.n \leq issued
  BY DEF Provenance, Fresh, TypeOK, Token
<1> QED
  BY <1>1, <1>2, <1>3, <1>4 DEF TypeOK

\* Every step keeps a replacement unsaved by its call out of everybody else's
\* hands, and accounts for the token it replaced.
LEMMA RotationStep ==
    ASSUME TypeOK, RunningHasAuth, Provenance, TypeOK', Provenance',
           Rotation, [Next]_vars
    PROVE  Rotation'
<1> USE DEF Rotation, TypeOK
<1>1. ASSUME NEW c \in Callers, NEW first \in {"validate", "refresh"},
             Start(c, first)
      PROVE  Rotation'
  <2>1. InHand'
    BY <1>1 DEF Start, InHand
  <2>2. SoleHolder'
    BY <1>1 DEF Start, SoleHolder
  <2>3. SpentTokenAccounted'
    BY <1>1 DEF Start, SpentTokenAccounted
  <2> QED
    BY <2>1, <2>2, <2>3
<1>2. ASSUME NEW c \in Callers, ValidateAccepted(c) \/ ValidateRejected(c)
                \/ RefreshRefused(c) \/ RefreshRejected(c)
                \/ LoadFails(c) \/ RequestFails(c) \/ ClearFails(c)
      PROVE  Rotation'
  <2> USE DEF ValidateAccepted, ValidateRejected, RefreshRefused, RefreshRejected,
              LoadFails, RequestFails, ClearFails
  <2>1. InHand'
    BY <1>2 DEF InHand
  <2>2. SoleHolder'
    BY <1>2 DEF SoleHolder
  <2>3. SpentTokenAccounted'
    BY <1>2 DEF SpentTokenAccounted
  <2> QED
    BY <2>1, <2>2, <2>3
<1>3. ASSUME NEW c \in Callers, RefreshGranted(c)
      PROVE  Rotation'
  <2>1. PICK s \in BOOLEAN : Goto(c, "save", Refreshed(auth[c], s))
    BY <1>3 DEF RefreshGranted
  <2>2. InHand'
    BY <1>3, <2>1 DEF RefreshGranted, InHand
  <2> DEFINE new == Refreshed(auth[c], s)
  <2>3. /\ auth[c] \in Auth /\ pc[c] = "refresh" /\ loaded[c] = auth[c]
        /\ store' = store /\ loaded' = loaded /\ lost' = lost
    BY <1>3 DEF RefreshGranted, RunningHasAuth, InHand
  <2>4. OneTime => /\ new.refresh.n = issued + 1
                   /\ spent' = spent \cup {auth[c].refresh}
    BY <1>3, <2>3, RefreshedFields DEF RefreshGranted, ServiceRefresh
  <2>5. auth' = [auth EXCEPT ![c] = new] /\ pc' = [pc EXCEPT ![c] = "save"]
    BY <2>1
  <2> HIDE DEF new
  <2>6. SoleHolder'
    <3> SUFFICES ASSUME OneTime, NEW d \in Callers, pc'[d] = "save"
                 PROVE  /\ \A e \in Callers \ {d} :
                              pc'[e] \in Running => auth'[e].refresh # auth'[d].refresh
                        /\ store' # NoAuth => store'.refresh # auth'[d].refresh
                        /\ auth'[d].refresh \notin spent'
      BY DEF SoleHolder
    <3>1. /\ \A e \in Callers : pc[e] \in Running => auth[e].refresh # new.refresh
          /\ store # NoAuth => store.refresh # new.refresh
          /\ new.refresh \notin spent
      BY <2>4, FreshIsNew
    <3>2. CASE d = c
      BY <2>3, <2>4, <2>5, <3>1, <3>2
    <3>3. CASE d # c
      <4>1. pc[d] = "save" /\ auth'[d] = auth[d]
        BY <2>5, <3>3
      <4>2. auth[c].refresh # auth[d].refresh
        BY <2>3, <3>3, <4>1 DEF SoleHolder
      <4>3. \A e \in Callers \ {d} :
               pc'[e] \in Running => auth'[e].refresh # auth'[d].refresh
        BY <2>5, <3>1, <4>1 DEF SoleHolder
      <4> QED
        BY <2>3, <2>4, <4>1, <4>2, <4>3 DEF SoleHolder
    <3> QED
      BY <3>2, <3>3
  <2>7. SpentTokenAccounted'
    <3>1. CASE OneTime
      BY <2>3, <2>4, <2>5, <3>1 DEF SpentTokenAccounted
    <3>2. CASE ~OneTime
      BY <3>2 DEF SpentTokenAccounted, Provenance, OneAccountPerLogin
    <3> QED
      BY <3>1, <3>2
  <2> QED
    BY <2>2, <2>6, <2>7
<1>4. ASSUME NEW c \in Callers, RefreshReplyLost(c)
      PROVE  Rotation'
  <2>1. InHand'
    BY <1>4 DEF RefreshReplyLost, InHand
  <2>2. /\ auth[c] \in Auth /\ pc[c] = "refresh"
        /\ auth' = [auth EXCEPT ![c] = NoAuth] /\ pc' = [pc EXCEPT ![c] = "error"]
        /\ store' = store /\ loaded' = loaded
        /\ lost' = lost \cup ({auth[c].refresh} \cap spent')
    BY <1>4 DEF RefreshReplyLost, RunningHasAuth
  <2>3. OneTime => spent' = spent \cup {auth[c].refresh}
    BY <1>4 DEF RefreshReplyLost, ServiceRefresh
  <2>4. SoleHolder'
    BY <2>2, <2>3 DEF SoleHolder
  <2>5. SpentTokenAccounted'
    <3>1. CASE OneTime
      BY <2>2, <2>3, <3>1 DEF SpentTokenAccounted
    <3>2. CASE ~OneTime
      BY <3>2 DEF SpentTokenAccounted, Provenance, OneAccountPerLogin
    <3> QED
      BY <3>1, <3>2
  <2> QED
    BY <2>1, <2>4, <2>5
<1>5. ASSUME NEW c \in Callers, Save(c)
      PROVE  Rotation'
  <2>1. InHand'
    BY <1>5 DEF Save, InHand
  <2>2. SoleHolder'
    BY <1>5 DEF Save, SoleHolder
  <2>3. SpentTokenAccounted'
    <3>1. CASE OneTime
      BY <1>5, <3>1 DEF Save, SoleHolder, SpentTokenAccounted
    <3>2. CASE ~OneTime
      BY <3>2 DEF SpentTokenAccounted, Provenance, OneAccountPerLogin
    <3> QED
      BY <3>1, <3>2
  <2> QED
    BY <2>1, <2>2, <2>3
<1>6. ASSUME NEW c \in Callers, SaveFails(c) \/ Cancel(c)
      PROVE  Rotation'
  <2>1. InHand'
    BY <1>6 DEF SaveFails, Cancel, InHand
  <2>2. SoleHolder'
    BY <1>6 DEF SaveFails, Cancel, SoleHolder
  <2>3. SpentTokenAccounted'
    BY <1>6 DEF SaveFails, Cancel, SpentTokenAccounted
  <2> QED
    BY <2>1, <2>2, <2>3
<1>7. ASSUME NEW c \in Callers, Clear(c)
      PROVE  Rotation'
  BY <1>7 DEF Clear, InHand, SoleHolder, SpentTokenAccounted
<1>8. ASSUME NEW u \in Users, Login(u)
      PROVE  Rotation'
  <2>1. InHand'
    BY <1>8 DEF Login, InHand
  <2>2. LoginAuth(u).refresh.n = issued + 1
    BY LoginAuthFields
  <2>3. /\ \A c \in Callers : pc[c] \in Running => auth[c].refresh # LoginAuth(u).refresh
        /\ LoginAuth(u).refresh \notin spent
    BY <2>2, FreshIsNew
  <2>4. SoleHolder'
    BY <1>8, <2>3 DEF Login, SoleHolder
  <2>5. SpentTokenAccounted'
    BY <1>8, <2>3 DEF Login, SpentTokenAccounted
  <2> QED
    BY <2>1, <2>4, <2>5
<1>9. CASE Logout
  BY <1>9 DEF Logout, InHand, SoleHolder, SpentTokenAccounted
<1>10. CASE Crash
  <2>1. InHand' /\ SoleHolder'
    BY <1>10 DEF Crash, InHand, SoleHolder
  <2>2. SpentTokenAccounted'
    BY <1>10 DEF Crash, SpentTokenAccounted
  <2> QED
    BY <2>1, <2>2
<1>11. ASSUME NEW t \in live, AccessExpires(t)
       PROVE  Rotation'
  BY <1>11 DEF AccessExpires, InHand, SoleHolder, SpentTokenAccounted
<1>12. ASSUME NEW l, Revoke(l)
       PROVE  Rotation'
  BY <1>12 DEF Revoke, InHand, SoleHolder, SpentTokenAccounted
<1>13. CASE UNCHANGED vars
  BY <1>13 DEF InHand, SoleHolder, SpentTokenAccounted
<1> QED
  BY <1>1, <1>2, <1>3, <1>4, <1>5, <1>6, <1>7, <1>8, <1>9, <1>10, <1>11,
     <1>12, <1>13 DEF Next, Advance, Disturb

\* The replacement of a spent refresh token is in one pair of hands until it is
\* saved.
THEOREM RotationHolds == Spec => []Rotation
<1>1. Init => Rotation
  BY DEF Init, Rotation, InHand, SoleHolder, SpentTokenAccounted
<1>2. /\ TypeOK /\ RunningHasAuth /\ Provenance /\ TypeOK' /\ Provenance'
      /\ Rotation /\ [Next]_vars
      => Rotation'
  BY RotationStep
<1> QED
  BY <1>1, <1>2, TypeCorrect, ProvenanceHolds, PTL DEF Spec

\* No interleaving of calls alone strands the session on a spent token.
THEOREM SpentTokenTheorem == Spec => []SpentTokenAccounted
<1>1. Rotation => SpentTokenAccounted
  BY DEF Rotation
<1> QED
  BY <1>1, RotationHolds, PTL

----------------------------------------------------------------------------
(* The application's discipline: logins and logouts outside calls.         *)

\* As long as no login or logout fell into a call, everything stored or in
\* the hands of a running call belongs to the application's current login.
OneLogin ==
    ~straddled =>
        /\ store # NoAuth => store.refresh.login = current
        /\ \A c \in Callers : pc[c] \in Running => auth[c].refresh.login = current

\* A step other than a login or logout during a call keeps the store and all
\* running calls on one login.
LEMMA OneLoginStep ==
    ASSUME TypeOK, RunningHasAuth, OneLogin, [Next]_vars
    PROVE  OneLogin'
<1> USE DEF TypeOK
<1>1. ASSUME NEW c \in Callers, NEW first \in {"validate", "refresh"},
             Start(c, first)
      PROVE  OneLogin'
  BY <1>1 DEF Start, OneLogin
<1>2. ASSUME NEW c \in Callers, ValidateAccepted(c) \/ ValidateRejected(c)
                \/ RefreshRefused(c) \/ RefreshRejected(c)
                \/ LoadFails(c) \/ RequestFails(c) \/ ClearFails(c)
                \/ SaveFails(c) \/ Cancel(c)
      PROVE  OneLogin'
  BY <1>2 DEF ValidateAccepted, ValidateRejected, RefreshRefused, RefreshRejected,
              LoadFails, RequestFails, ClearFails, SaveFails, Cancel, OneLogin
<1>3. ASSUME NEW c \in Callers, RefreshGranted(c)
      PROVE  OneLogin'
  <2>1. PICK s \in BOOLEAN : Goto(c, "save", Refreshed(auth[c], s))
    BY <1>3 DEF RefreshGranted
  <2>2. auth[c] \in Auth /\ pc[c] = "refresh"
    BY <1>3 DEF RefreshGranted, RunningHasAuth
  <2>3. Refreshed(auth[c], s).refresh.login = auth[c].refresh.login
    BY <2>2, RefreshedFields
  <2> QED
    BY <1>3, <2>1, <2>2, <2>3 DEF RefreshGranted, OneLogin
<1>4. ASSUME NEW c \in Callers, RefreshReplyLost(c)
      PROVE  OneLogin'
  BY <1>4 DEF RefreshReplyLost, OneLogin
<1>5. ASSUME NEW c \in Callers, Save(c) \/ Clear(c)
      PROVE  OneLogin'
  BY <1>5 DEF Save, Clear, OneLogin
<1>6. ASSUME NEW u \in Users, Login(u)
      PROVE  OneLogin'
  BY <1>6, LoginAuthFields DEF Login, InFlight, OneLogin
<1>7. CASE Logout
  BY <1>7 DEF Logout, InFlight, OneLogin
<1>8. CASE Crash
  BY <1>8 DEF Crash, OneLogin
<1>9. ASSUME NEW t \in live, AccessExpires(t)
      PROVE  OneLogin'
  BY <1>9 DEF AccessExpires, OneLogin
<1>10. ASSUME NEW l, Revoke(l)
       PROVE  OneLogin'
  BY <1>10 DEF Revoke, OneLogin
<1>11. CASE UNCHANGED vars
  BY <1>11 DEF OneLogin
<1> QED
  BY <1>1, <1>2, <1>3, <1>4, <1>5, <1>6, <1>7, <1>8, <1>9, <1>10, <1>11
  DEF Next, Advance, Disturb

\* Until a login or logout is made while a call runs, the store and all running
\* calls are on the login the application last saved.
THEOREM OneLoginHolds == Spec => []OneLogin
<1>1. Init => OneLogin
  BY DEF Init, OneLogin
<1>2. TypeOK /\ RunningHasAuth /\ OneLogin /\ [Next]_vars => OneLogin'
  BY OneLoginStep
<1> QED
  BY <1>1, <1>2, TypeCorrect, PTL DEF Spec

\* Concurrent calls alone never mix logins up.
THEOREM StraddlingTheorem == Spec => []OnlyStraddlingCallsMixLogins
<1>1. OneLogin => OnlyStraddlingCallsMixLogins
  BY DEF OneLogin, OnlyStraddlingCallsMixLogins
<1> QED
  BY <1>1, OneLoginHolds, PTL

----------------------------------------------------------------------------
(* Dead access tokens.                                                     *)

\* A token found dead at the load stays dead while it is validated - the
\* service never revives one - and what replaces it is another token.
DeadStaysDead ==
    \A c \in Callers : deadAtLoad[c] =>
        /\ pc[c] = "validate" => loaded[c].access \notin live
        /\ pc[c] \in {"save", "some"} => auth[c].access # loaded[c].access

\* No step makes a held access token valid again.
LEMMA NoRevival ==
    ASSUME TypeOK, RunningHasAuth, Provenance, [Next]_vars,
           NEW a \in Held, a.access \notin live
    PROVE  a.access \notin live'
<1>1. a.access.n \in Nat /\ a.access.n \leq issued /\ issued \in Nat
  BY HeldIsAuth DEF Provenance, Fresh, Auth, Token, TypeOK
<1>2. CASE Quiet
  BY <1>2 DEF Quiet
<1>3. \A t : t.n = issued + 1 => a.access # t
  BY <1>1
<1>4. ASSUME NEW b \in Held, Refreshes(b)
      PROVE  a.access \notin live'
  <2>1. b \in Auth
    BY HeldIsAuth
  <2>2. Refreshed(b, TRUE).access.n = issued + 1
    BY <1>1, <2>1, RefreshedFields
  <2>3. live' = live \cup {Refreshed(b, TRUE).access}
    BY <1>4 DEF Refreshes, ServiceRefresh
  <2>4. a.access # Refreshed(b, TRUE).access
    BY <1>3, <2>2, Zenon
  <2> QED
    BY <2>3, <2>4
<1>5. ASSUME NEW u \in Users, LogsIn(u)
      PROVE  a.access \notin live'
  <2>1. LoginAuth(u).access.n = issued + 1
    BY <1>1, LoginAuthFields
  <2>2. live' = live \cup {LoginAuth(u).access}
    BY <1>5 DEF LogsIn, Login
  <2>3. a.access # LoginAuth(u).access
    BY <1>3, <2>1, Zenon
  <2> QED
    BY <2>2, <2>3
<1> QED
  BY <1>2, <1>4, <1>5, StepKinds

\* A step keeps every dead token from coming back to a caller.
LEMMA DeadStaysDeadStep ==
    ASSUME TypeOK, RunningHasAuth, Provenance, InHand, DeadStaysDead, [Next]_vars
    PROVE  DeadStaysDead'
<1> USE DEF TypeOK
<1>0. \A c \in Callers :
         pc[c] = "validate" /\ loaded[c].access \notin live => loaded[c].access \notin live'
  <2> SUFFICES ASSUME NEW c \in Callers, pc[c] = "validate", loaded[c].access \notin live
               PROVE  loaded[c].access \notin live'
    OBVIOUS
  <2>1. auth[c] \in Held /\ auth[c] = loaded[c]
    BY DEF RunningHasAuth, Held, InHand
  <2> QED
    BY <2>1, NoRevival
<1>1. ASSUME NEW c \in Callers, NEW first \in {"validate", "refresh"},
             Start(c, first)
      PROVE  DeadStaysDead'
  <2>1. \A d \in Callers \ {c} :
           /\ pc'[d] = pc[d] /\ auth'[d] = auth[d]
           /\ loaded'[d] = loaded[d] /\ deadAtLoad'[d] = deadAtLoad[d]
    BY <1>1 DEF Start
  <2>2. live' = live
    BY <1>1 DEF Start
  <2>3. \/ pc'[c] = "none"
        \/ /\ pc'[c] \in {"validate", "refresh"}
           /\ loaded'[c] = store
           /\ deadAtLoad'[c] = (store.access \notin live)
    BY <1>1 DEF Start
  <2> QED
    BY <2>1, <2>2, <2>3 DEF DeadStaysDead
<1>2. ASSUME NEW c \in Callers, ValidateAccepted(c)
      PROVE  DeadStaysDead'
  BY <1>0, <1>2 DEF ValidateAccepted, DeadStaysDead, InHand
<1>3. ASSUME NEW c \in Callers, RefreshGranted(c)
      PROVE  DeadStaysDead'
  <2>1. PICK s \in BOOLEAN : Goto(c, "save", Refreshed(auth[c], s))
    BY <1>3 DEF RefreshGranted
  <2>2. auth[c] \in Held /\ auth[c] \in Auth /\ auth[c] = loaded[c]
    BY <1>3 DEF RefreshGranted, RunningHasAuth, Held, InHand
  <2>3. Refreshed(auth[c], s).access.n = issued + 1
    BY <2>2, RefreshedFields
  <2>4. loaded[c].access.n \in Nat /\ loaded[c].access.n \leq issued
    BY <2>2 DEF Provenance, Fresh, Auth, Token
  <2>5. Refreshed(auth[c], s).access # loaded[c].access
    BY <2>3, <2>4
  <2> QED
    BY <1>0, <1>3, <2>1, <2>5 DEF RefreshGranted, DeadStaysDead
<1>4. ASSUME NEW c \in Callers, ValidateRejected(c) \/ RefreshRefused(c)
                \/ RefreshRejected(c) \/ Save(c) \/ Clear(c) \/ LoadFails(c)
                \/ RequestFails(c) \/ RefreshReplyLost(c) \/ SaveFails(c)
                \/ ClearFails(c) \/ Cancel(c)
      PROVE  DeadStaysDead'
  BY <1>0, <1>4 DEF ValidateRejected, RefreshRefused, RefreshRejected, Save, Clear,
     LoadFails, RequestFails, RefreshReplyLost, SaveFails, ClearFails, Cancel,
     DeadStaysDead
<1>5. ASSUME NEW u \in Users, Login(u)
      PROVE  DeadStaysDead'
  BY <1>0, <1>5 DEF Login, DeadStaysDead
<1>6. CASE Logout \/ Crash \/ UNCHANGED vars
  BY <1>0, <1>6 DEF Logout, Crash, DeadStaysDead
<1>7. ASSUME NEW t \in live, AccessExpires(t)
      PROVE  DeadStaysDead'
  BY <1>0, <1>7 DEF AccessExpires, DeadStaysDead
<1>8. ASSUME NEW l, Revoke(l)
      PROVE  DeadStaysDead'
  BY <1>0, <1>8 DEF Revoke, DeadStaysDead
<1> QED
  BY <1>1, <1>2, <1>3, <1>4, <1>5, <1>6, <1>7, <1>8 DEF Next, Advance, Disturb

\* A call never hands out an access token that was already dead when it was
\* loaded, whatever else refreshes, logs in or fails meanwhile.
THEOREM DeadAuthTheorem == Spec => []NeverReturnsDeadAuth
<1>1. Init => DeadStaysDead
  BY DEF Init, DeadStaysDead
<1>2. /\ TypeOK /\ RunningHasAuth /\ Provenance /\ Rotation
      /\ DeadStaysDead /\ [Next]_vars
      => DeadStaysDead'
  BY DeadStaysDeadStep DEF Rotation
<1>3. DeadStaysDead => NeverReturnsDeadAuth
  BY DEF DeadStaysDead, NeverReturnsDeadAuth
<1> QED
  BY <1>1, <1>2, <1>3, TypeCorrect, ProvenanceHolds, RotationHolds, PTL DEF Spec

----------------------------------------------------------------------------
(* Clearing: only what the service rejected.                               *)

\* What a call is about to clear was rejected, and stays rejected: a refresh
\* token that is not accepted is never accepted again.
Rejected == \A c \in Callers : pc[c] = "clear" => auth[c].refresh \notin usable

\* A rejected refresh token stays rejected: no step makes it acceptable again.
LEMMA RejectedStep ==
    ASSUME TypeOK, RunningHasAuth, Provenance, Rejected, [Next]_vars
    PROVE  Rejected'
<1>1. ASSUME NEW c \in Callers, pc[c] = "clear"
      PROVE  auth[c].refresh \notin usable'
  <2>1. auth[c].refresh \notin usable
    BY <1>1 DEF Rejected
  <2>2. CASE Quiet
    BY <2>1, <2>2 DEF Quiet
  <2>3. ASSUME NEW b \in Held, Refreshes(b)
        PROVE  auth[c].refresh \notin usable'
    <3>1. b \in Auth /\ issued \in Nat
      BY HeldIsAuth DEF TypeOK
    <3>2. CASE OneTime
      <4>1. Refreshed(b, TRUE).refresh.n = issued + 1
        BY <3>1, <3>2, RefreshedFields
      <4>2. auth[c].refresh # Refreshed(b, TRUE).refresh
        BY <1>1, <4>1, FreshIsNew
      <4> QED
        BY <2>1, <2>3, <3>2, <4>2 DEF Refreshes, ServiceRefresh
    <3>3. CASE ~OneTime
      BY <2>1, <2>3, <3>3 DEF Refreshes, ServiceRefresh
    <3> QED
      BY <3>2, <3>3
  <2>4. ASSUME NEW u \in Users, LogsIn(u)
        PROVE  auth[c].refresh \notin usable'
    <3>1. LoginAuth(u).refresh.n = issued + 1
      BY LoginAuthFields DEF TypeOK
    <3>2. auth[c].refresh # LoginAuth(u).refresh
      BY <1>1, <3>1, FreshIsNew
    <3> QED
      BY <2>1, <2>4, <3>2 DEF LogsIn, Login
  <2> QED
    BY <2>2, <2>3, <2>4, StepKinds
<1>2. ASSUME NEW c \in Callers, pc'[c] = "clear"
      PROVE  auth'[c].refresh \notin usable'
  <2>1. CASE pc[c] = "clear" /\ auth'[c] = auth[c]
    BY <1>1, <2>1
  <2>2. CASE RefreshRejected(c)
    BY <1>2, <2>2 DEF RefreshRejected, TypeOK
  <2>3. (pc[c] = "clear" /\ auth'[c] = auth[c]) \/ RefreshRejected(c)
    <3> USE DEF TypeOK
    <3>1. ASSUME NEW d \in Callers, NEW first \in {"validate", "refresh"},
                 Start(d, first)
          PROVE  pc[c] = "clear" /\ auth'[c] = auth[c]
      BY <1>2, <3>1 DEF Start
    <3>2. ASSUME NEW d \in Callers, Advance(d)
          PROVE  (pc[c] = "clear" /\ auth'[c] = auth[c]) \/ RefreshRejected(c)
      BY <1>2, <3>2 DEF Advance, ValidateAccepted, ValidateRejected, RefreshGranted,
           RefreshRefused, RefreshRejected, Save, Clear
    <3>3. ASSUME NEW d \in Callers, Disturb(d)
          PROVE  pc[c] = "clear" /\ auth'[c] = auth[c]
      BY <1>2, <3>3 DEF Disturb, LoadFails, RequestFails, RefreshReplyLost, SaveFails,
           ClearFails, Cancel
    <3>4. ASSUME NEW u \in Users, Login(u)
          PROVE  pc[c] = "clear" /\ auth'[c] = auth[c]
      BY <1>2, <3>4 DEF Login
    <3>5. ASSUME NEW t \in live, AccessExpires(t)
          PROVE  pc[c] = "clear" /\ auth'[c] = auth[c]
      BY <1>2, <3>5 DEF AccessExpires
    <3>6. ASSUME NEW l, Revoke(l)
          PROVE  pc[c] = "clear" /\ auth'[c] = auth[c]
      BY <1>2, <3>6 DEF Revoke
    <3>7. CASE Logout \/ Crash \/ UNCHANGED vars
      BY <1>2, <3>7 DEF Logout, Crash
    <3> QED
      BY <3>1, <3>2, <3>3, <3>4, <3>5, <3>6, <3>7 DEF Next
  <2> QED
    BY <2>1, <2>2, <2>3
<1> QED
  BY <1>2 DEF Rejected

\* A call about to clear the store has in hand an auth whose refresh token is
\* not accepted.
THEOREM RejectedHolds == Spec => []Rejected
<1>1. Init => Rejected
  BY DEF Init, Rejected
<1>2. TypeOK /\ RunningHasAuth /\ Provenance /\ Rejected /\ [Next]_vars => Rejected'
  BY RejectedStep
<1> QED
  BY <1>1, <1>2, TypeCorrect, ProvenanceHolds, PTL DEF Spec

\* With reusable refresh tokens, two refresh tokens of one login are the same
\* token, so an undisturbed clear hits the login that was rejected.
THEOREM UndisturbedClearTheorem ==
    ASSUME ~OneTime
    PROVE  Spec => UndisturbedClearIsRejection
<1>1. ASSUME TypeOK, RunningHasAuth, Provenance, OneLogin, Rejected, [Next]_vars,
             NEW c \in Callers, pc[c] = "clear", store # NoAuth, ~straddled
      PROVE  store.refresh \notin usable
  <2>1. store \in Held /\ auth[c] \in Held
    BY <1>1 DEF Held, RunningHasAuth
  <2>2. store.refresh \in Token /\ auth[c].refresh \in Token
    BY <2>1, <1>1, HeldIsAuth DEF Auth
  <2>3. store.refresh.login = auth[c].refresh.login
    BY <1>1 DEF OneLogin
  <2>4. /\ store.refresh.n = auth[c].refresh.n
        /\ store.refresh.owner = auth[c].refresh.owner
    BY <1>1, <2>1, <2>3 DEF Provenance, OneAccountPerLogin
  <2>5. store.refresh = auth[c].refresh
    BY <2>2, <2>3, <2>4 DEF Token
  <2> QED
    BY <1>1, <2>5 DEF Rejected
<1>2. TypeOK /\ RunningHasAuth /\ Provenance /\ OneLogin /\ Rejected /\ [Next]_vars
         => [~straddled => ClearIsRejection]_vars
  BY <1>1 DEF ClearIsRejection
<1> QED
  BY <1>2, TypeCorrect, ProvenanceHolds, OneLoginHolds, RejectedHolds, PTL
  DEF Spec, UndisturbedClearIsRejection

----------------------------------------------------------------------------
(* One session operation at a time.                                        *)

\* When the application runs one session operation at a time, the store does
\* not change under a running call.
StoreIsLoaded ==
    Exclusive =>
        \A c \in Callers : pc[c] \in Running =>
            /\ store = loaded[c]
            /\ \A d \in Callers : pc[d] \in Running => d = c

\* A step keeps the store and the only running call in agreement when the
\* application runs one operation at a time.
LEMMA StoreIsLoadedStep ==
    ASSUME TypeOK, StoreIsLoaded, [Next]_vars
    PROVE  StoreIsLoaded'
<1> USE DEF TypeOK
<1>1. ASSUME NEW c \in Callers, NEW first \in {"validate", "refresh"},
             Start(c, first)
      PROVE  StoreIsLoaded'
  BY <1>1 DEF Start, InFlight, StoreIsLoaded
<1>2. ASSUME NEW c \in Callers, Advance(c)
      PROVE  StoreIsLoaded'
  BY <1>2 DEF Advance, ValidateAccepted, ValidateRejected, RefreshGranted,
       RefreshRefused, RefreshRejected, Save, Clear, StoreIsLoaded
<1>3. ASSUME NEW c \in Callers, Disturb(c)
      PROVE  StoreIsLoaded'
  BY <1>3 DEF Disturb, LoadFails, RequestFails, RefreshReplyLost, SaveFails,
       ClearFails, Cancel, StoreIsLoaded
<1>4. ASSUME NEW u \in Users, Login(u)
      PROVE  StoreIsLoaded'
  BY <1>4 DEF Login, InFlight, StoreIsLoaded
<1>5. CASE Logout
  BY <1>5 DEF Logout, InFlight, StoreIsLoaded
<1>6. CASE Crash
  BY <1>6 DEF Crash, StoreIsLoaded
<1>7. ASSUME NEW t \in live, AccessExpires(t)
      PROVE  StoreIsLoaded'
  BY <1>7 DEF AccessExpires, StoreIsLoaded
<1>8. ASSUME NEW l, Revoke(l)
      PROVE  StoreIsLoaded'
  BY <1>8 DEF Revoke, StoreIsLoaded
<1>9. CASE UNCHANGED vars
  BY <1>9 DEF StoreIsLoaded
<1> QED
  BY <1>1, <1>2, <1>3, <1>4, <1>5, <1>6, <1>7, <1>8, <1>9 DEF Next

\* With one operation at a time, the store does not change between the load of
\* a call and its write.
THEOREM StoreIsLoadedHolds == Spec => []StoreIsLoaded
<1>1. Init => StoreIsLoaded
  BY DEF Init, StoreIsLoaded
<1>2. TypeOK /\ StoreIsLoaded /\ [Next]_vars => StoreIsLoaded'
  BY StoreIsLoadedStep
<1> QED
  BY <1>1, <1>2, TypeCorrect, PTL DEF Spec

\* One operation at a time: a call clears only a login the service rejected,
\* with either kind of refresh token.
THEOREM ExclusiveClearTheorem ==
    ASSUME Exclusive
    PROVE  Spec => ClearsOnlyRejectedAuth
<1>1. ASSUME Rotation, StoreIsLoaded, Rejected,
             NEW c \in Callers, pc[c] = "clear"
      PROVE  store.refresh \notin usable
  <2>1. store = loaded[c] /\ auth[c] = loaded[c]
    BY <1>1 DEF StoreIsLoaded, Rotation, InHand
  <2> QED
    BY <1>1, <2>1 DEF Rejected
<1>2. Rotation /\ StoreIsLoaded /\ Rejected /\ [Next]_vars => [ClearIsRejection]_vars
  BY <1>1 DEF ClearIsRejection
<1> QED
  BY <1>2, RotationHolds, StoreIsLoadedHolds, RejectedHolds, PTL
  DEF Spec, ClearsOnlyRejectedAuth

\* One operation at a time: what a call returns is what the store holds.
THEOREM ExclusiveReturnTheorem ==
    ASSUME Exclusive
    PROVE  Spec => ReturnedIsStored
<1>1. ASSUME TypeOK, Rotation, StoreIsLoaded, [Next]_vars,
             NEW c \in Callers, pc[c] \in Running, pc'[c] = "some"
      PROVE  store' = auth'[c]
  <2> USE DEF TypeOK
  <2>1. CASE ValidateAccepted(c)
    BY <1>1, <2>1 DEF ValidateAccepted, StoreIsLoaded, Rotation, InHand
  <2>2. CASE Save(c)
    BY <1>1, <2>2 DEF Save
  <2>3. ValidateAccepted(c) \/ Save(c)
    <3>1. ASSUME NEW d \in Callers, NEW first \in {"validate", "refresh"},
                 Start(d, first)
          PROVE  FALSE
      BY <1>1, <3>1 DEF Start
    <3>2. ASSUME NEW d \in Callers, Advance(d)
          PROVE  ValidateAccepted(c) \/ Save(c)
      BY <1>1, <3>2 DEF Advance, ValidateAccepted, ValidateRejected, RefreshGranted,
           RefreshRefused, RefreshRejected, Save, Clear
    <3>3. ASSUME NEW d \in Callers, Disturb(d)
          PROVE  FALSE
      BY <1>1, <3>3 DEF Disturb, LoadFails, RequestFails, RefreshReplyLost,
           SaveFails, ClearFails, Cancel
    <3>4. ASSUME NEW u \in Users, Login(u)
          PROVE  FALSE
      BY <1>1, <3>4 DEF Login
    <3>5. ASSUME NEW t \in live, AccessExpires(t)
          PROVE  FALSE
      BY <1>1, <3>5 DEF AccessExpires
    <3>6. ASSUME NEW l, Revoke(l)
          PROVE  FALSE
      BY <1>1, <3>6 DEF Revoke
    <3>7. CASE Logout \/ Crash \/ UNCHANGED vars
      BY <1>1, <3>7 DEF Logout, Crash
    <3> QED
      BY <1>1, <3>1, <3>2, <3>3, <3>4, <3>5, <3>6, <3>7 DEF Next
  <2> QED
    BY <2>1, <2>2, <2>3
<1>2. TypeOK /\ Rotation /\ StoreIsLoaded /\ [Next]_vars => [ReturnIsStored]_vars
  BY <1>1 DEF ReturnIsStored
<1> QED
  BY <1>2, TypeCorrect, RotationHolds, StoreIsLoadedHolds, PTL
  DEF Spec, ReturnedIsStored

============================================================================
