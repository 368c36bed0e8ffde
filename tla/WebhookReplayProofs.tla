------------------------ MODULE WebhookReplayProofs ------------------------
(***************************************************************************)
(* Proofs about WebhookReplay: types, the freshness window, which ids may  *)
(* enter the replay store, and what the store promises, for any number of  *)
(* messages and handlers, with a store or without one, over any number of  *)
(* failures and restarts.                                                  *)
(***************************************************************************)
EXTENDS WebhookReplay, TLAPS

\* The variables keep their types.
LEMMA TypeStep ==
    ASSUME TypeOK, [Next]_vars
    PROVE  TypeOK'
<1> USE WebhookAssumption DEF TypeOK, Outcomes, Stages
<1>1. CASE Tick \/ Restart
  BY <1>1 DEF Tick, Restart, handlerVars, historyVars
<1>2. ASSUME NEW m \in Messages, Send(m)
      PROVE  TypeOK'
  BY <1>2 DEF Send, handlerVars, historyVars
<1>3. ASSUME NEW h \in Handlers, NEW m \in Messages, NEW c \in Copies, Receive(h, m, c)
      PROVE  TypeOK'
  BY <1>3 DEF Receive
<1>4. ASSUME NEW h \in Handlers, Verify(h)
      PROVE  TypeOK'
  BY <1>4 DEF Verify, historyVars
<1>5. ASSUME NEW h \in Handlers, Remember(h) \/ StoreFails(h)
      PROVE  TypeOK'
  BY <1>5 DEF Remember, StoreFails, historyVars
<1>6. ASSUME NEW h \in Handlers, Decode(h)
      PROVE  TypeOK'
  BY <1>6 DEF Decode, Spoil
<1>7. ASSUME NEW h \in Handlers, Handle(h) \/ HandleFails(h)
      PROVE  TypeOK'
  BY <1>7 DEF Handle, HandleFails, Spoil
<1>8. CASE UNCHANGED vars
  BY <1>8 DEF vars, handlerVars, historyVars
<1> QED
  BY <1>1, <1>2, <1>3, <1>4, <1>5, <1>6, <1>7, <1>8 DEF Next, Advance

\* Every state of the handlers, the store and the history is well typed.
THEOREM TypeCorrect == Spec => []TypeOK
<1>1. Init => TypeOK
  BY WebhookAssumption DEF Init, TypeOK, Outcomes, Stages, Copies
<1>2. TypeOK /\ [Next]_vars => TypeOK'
  BY TypeStep
<1> QED
  BY <1>1, <1>2, PTL DEF Spec

----------------------------------------------------------------------------
(* The freshness window.                                                   *)

Passed == {"verified", "remembered", "processing", "acknowledged"}

(***************************************************************************)
(* A handler that is not at rest from the start handles a message that was *)
(* sent, and what it made of its age follows from the time it noted.       *)
(***************************************************************************)
WindowInv ==
    \A h \in Handlers :
        /\ pc[h] # "idle" => stamp[msg[h]] # Unsent
        /\ pc[h] = "stale" => ~IsFresh(msg[h], at[h])
        /\ pc[h] \in Passed => IsFresh(msg[h], at[h])

\* A stamp never changes once it is given, and a verdict on it stands.
LEMMA WindowStep ==
    ASSUME TypeOK, WindowInv, [Next]_vars
    PROVE  WindowInv'
<1> USE DEF WindowInv, IsFresh, Passed
<1>1. CASE Tick \/ Restart \/ UNCHANGED vars
  BY <1>1 DEF Tick, Restart, vars, handlerVars, historyVars
<1>2. ASSUME NEW m \in Messages, Send(m)
      PROVE  WindowInv'
  <2>1. UNCHANGED <<pc, msg, at>>
    BY <1>2 DEF Send, handlerVars
  <2>2. ASSUME NEW h \in Handlers, pc[h] # "idle"
        PROVE  stamp'[msg[h]] = stamp[msg[h]] /\ stamp[msg[h]] # Unsent
    BY <1>2, <2>2 DEF Send, TypeOK
  <2> QED
    BY <2>1, <2>2
<1>3. ASSUME NEW h \in Handlers, NEW m \in Messages, NEW c \in Copies, Receive(h, m, c)
      PROVE  WindowInv'
  BY <1>3 DEF Receive, TypeOK
<1>4. ASSUME NEW h \in Handlers, Verify(h)
      PROVE  WindowInv'
  BY <1>4 DEF Verify, historyVars, TypeOK
<1>5. ASSUME NEW h \in Handlers,
             Remember(h) \/ StoreFails(h) \/ Decode(h) \/ Handle(h) \/ HandleFails(h)
      PROVE  WindowInv'
  BY <1>5 DEF Remember, StoreFails, Decode, Handle, HandleFails, historyVars, TypeOK
<1> QED
  BY <1>1, <1>2, <1>3, <1>4, <1>5 DEF Next, Advance

LEMMA WindowHolds == Spec => []WindowInv
<1>1. Init => WindowInv
  BY DEF Init, WindowInv, Passed
<1>2. TypeOK /\ WindowInv /\ [Next]_vars => WindowInv'
  BY WindowStep
<1> QED
  BY <1>1, <1>2, TypeCorrect, PTL DEF Spec

\* A message is turned away as stale only outside the window, and none from
\* outside gets through, whatever the window and the sender's clock.
THEOREM WindowTheorem == Spec => []WindowIsExact
<1>1. TypeOK /\ WindowInv => WindowIsExact
  <2> SUFFICES ASSUME TypeOK, WindowInv, NEW h \in Handlers, pc[h] # "idle"
               PROVE  /\ pc[h] = "stale" =>
                          at[h] < stamp[msg[h]] \/ at[h] > stamp[msg[h]] + MaxAge
                      /\ pc[h] \in Passed =>
                          stamp[msg[h]] <= at[h] /\ at[h] <= stamp[msg[h]] + MaxAge
    BY DEF WindowIsExact, Passed
  <2>1. stamp[msg[h]] \in Nat /\ at[h] \in Nat /\ MaxAge \in Nat
    BY WebhookAssumption DEF TypeOK, WindowInv
  <2> QED
    BY <2>1 DEF WindowInv, IsFresh
<1> QED
  BY <1>1, TypeCorrect, WindowHolds, PTL

----------------------------------------------------------------------------
(* The replay store.                                                       *)

(***************************************************************************)
(* What lets an id into the store: an intact delivery inside the window.   *)
(* It is noted when the delivery arrives, and verified later.              *)
(***************************************************************************)
GenuineInv ==
    /\ seen \subseteq arrived
    /\ \A h \in Handlers :
           /\ pc[h] = "received" /\ copy[h] = "intact" /\ IsFresh(msg[h], at[h])
                  => msg[h] \in arrived
           /\ pc[h] = "verified" => msg[h] \in arrived

\* What is remembered was verified, what is verified arrived intact.
LEMMA GenuineStep ==
    ASSUME TypeOK, WindowInv, GenuineInv, [Next]_vars
    PROVE  GenuineInv'
<1> USE DEF GenuineInv
<1>1. CASE Tick \/ Restart \/ UNCHANGED vars
  BY <1>1 DEF Tick, Restart, vars, handlerVars, historyVars, IsFresh
<1>2. ASSUME NEW m \in Messages, Send(m)
      PROVE  GenuineInv'
  <2>1. UNCHANGED <<pc, msg, at, copy, seen, arrived>>
    BY <1>2 DEF Send, handlerVars, historyVars
  <2>2. ASSUME NEW h \in Handlers, pc[h] # "idle"
        PROVE  stamp'[msg[h]] = stamp[msg[h]]
    BY <1>2, <2>2 DEF Send, TypeOK, WindowInv
  <2> QED
    BY <2>1, <2>2 DEF IsFresh
<1>3. ASSUME NEW h \in Handlers, NEW m \in Messages, NEW c \in Copies, Receive(h, m, c)
      PROVE  GenuineInv'
  <2>1. /\ pc' = [pc EXCEPT ![h] = "received"]
        /\ msg' = [msg EXCEPT ![h] = m]
        /\ copy' = [copy EXCEPT ![h] = c]
        /\ at' = [at EXCEPT ![h] = now]
        /\ arrived \subseteq arrived'
        /\ c = "intact" /\ IsFresh(m, now) => m \in arrived'
        /\ UNCHANGED <<seen, stamp>>
    BY <1>3 DEF Receive
  <2> QED
    BY <2>1 DEF TypeOK, IsFresh
<1>4. ASSUME NEW h \in Handlers, Verify(h)
      PROVE  GenuineInv'
  <2>1. /\ pc'[h] # "received"
        /\ pc'[h] = "verified" => copy[h] = "intact" /\ IsFresh(msg[h], at[h])
        /\ pc[h] = "received"
        /\ \A g \in Handlers : g # h => pc'[g] = pc[g]
        /\ UNCHANGED <<seen, arrived, msg, copy, at, stamp>>
    BY <1>4 DEF Verify, historyVars, TypeOK, Copies
  <2> QED
    BY <2>1 DEF IsFresh
<1>5. ASSUME NEW h \in Handlers,
             Remember(h) \/ StoreFails(h) \/ Decode(h) \/ Handle(h) \/ HandleFails(h)
      PROVE  GenuineInv'
  <2>1. /\ pc'[h] \notin {"received", "verified"}
        /\ \A g \in Handlers : g # h => pc'[g] = pc[g]
        /\ UNCHANGED <<arrived, msg, copy, at, stamp>>
    BY <1>5 DEF Remember, StoreFails, Decode, Handle, HandleFails, historyVars, TypeOK
  <2>2. seen' \subseteq arrived
    BY <1>5 DEF Remember, StoreFails, Decode, Handle, HandleFails
  <2> QED
    BY <2>1, <2>2 DEF IsFresh
<1> QED
  BY <1>1, <1>2, <1>3, <1>4, <1>5 DEF Next, Advance

\* No number of late copies, or of copies changed in their signed parts, puts
\* an id into the store.
THEOREM GenuineTheorem == Spec => []OnlyGenuineIsRemembered
<1>1. Init => GenuineInv
  BY DEF Init, GenuineInv
<1>2. TypeOK /\ WindowInv /\ GenuineInv /\ [Next]_vars => GenuineInv'
  BY GenuineStep
<1>3. GenuineInv => OnlyGenuineIsRemembered
  BY DEF GenuineInv, OnlyGenuineIsRemembered
<1> QED
  BY <1>1, <1>2, <1>3, TypeCorrect, WindowHolds, PTL DEF Spec

(***************************************************************************)
(* With a store, an id on its way to the application is in the store, on   *)
(* its way once, and not yet accepted; what was accepted is in the store.  *)
(***************************************************************************)
OnceInv ==
    hasStore =>
        /\ twice = {}
        /\ accepted \subseteq seen
        /\ \A h \in Handlers : pc[h] = "remembered" =>
               msg[h] \in seen /\ msg[h] \notin accepted
        /\ \A h, g \in Handlers :
               pc[h] = "remembered" /\ pc[g] = "remembered" /\ msg[h] = msg[g] => h = g

\* Only the insert of Remember starts an id on its way.
LEMMA OnceStep ==
    ASSUME TypeOK, OnceInv, [Next]_vars
    PROVE  OnceInv'
<1> USE DEF OnceInv
<1>1. CASE Tick \/ Restart \/ UNCHANGED vars
  BY <1>1 DEF Tick, Restart, vars, handlerVars, historyVars
<1>2. ASSUME NEW m \in Messages, Send(m)
      PROVE  OnceInv'
  BY <1>2 DEF Send, handlerVars, historyVars
<1>3. ASSUME NEW h \in Handlers, NEW m \in Messages, NEW c \in Copies, Receive(h, m, c)
      PROVE  OnceInv'
  BY <1>3 DEF Receive, TypeOK
<1>4. ASSUME NEW h \in Handlers, Verify(h) \/ StoreFails(h) \/ Handle(h) \/ HandleFails(h)
      PROVE  OnceInv'
  <2>1. /\ pc'[h] # "remembered"
        /\ \A g \in Handlers : g # h => pc'[g] = pc[g]
        /\ UNCHANGED <<hasStore, twice, accepted, seen, msg>>
    BY <1>4 DEF Verify, StoreFails, Handle, HandleFails, historyVars, TypeOK
  <2> QED
    BY <2>1
<1>5. ASSUME NEW h \in Handlers, Remember(h)
      PROVE  OnceInv'
  BY <1>5 DEF Remember, historyVars, TypeOK
<1>6. ASSUME NEW h \in Handlers, Decode(h)
      PROVE  OnceInv'
  BY <1>6 DEF Decode, TypeOK
<1> QED
  BY <1>1, <1>2, <1>3, <1>4, <1>5, <1>6 DEF Next, Advance

\* The application gets an id at most once in the lifetime of a store.
THEOREM OnceTheorem == Spec => []AcceptedOncePerLifetime
<1>1. Init => OnceInv
  BY DEF Init, OnceInv
<1>2. TypeOK /\ OnceInv /\ [Next]_vars => OnceInv'
  BY OnceStep
<1>3. OnceInv => AcceptedOncePerLifetime
  BY DEF OnceInv, AcceptedOncePerLifetime
<1> QED
  BY <1>1, <1>2, <1>3, TypeCorrect, PTL DEF Spec

----------------------------------------------------------------------------
(* Duplicates.                                                             *)

\* Some handler is on its way to the application with m.
UnderWay(m) == \E g \in Handlers : msg[g] = m /\ pc[g] \in {"remembered", "processing"}

(***************************************************************************)
(* Every id in the store is under way, was handled, or is marked as        *)
(* spoiled, and a duplicate is in the store.                               *)
(***************************************************************************)
OriginalInv ==
    /\ \A m \in seen : m \in handled \cup spoiled \/ UnderWay(m)
    /\ \A h \in Handlers : pc[h] = "duplicate" => msg[h] \in seen

\* A handler leaves the way to the application by handling or by spoiling.
LEMMA OriginalStep ==
    ASSUME TypeOK, OriginalInv, [Next]_vars
    PROVE  OriginalInv'
<1> USE DEF OriginalInv, UnderWay
<1>1. CASE Tick \/ Restart \/ UNCHANGED vars
  BY <1>1 DEF Tick, Restart, vars, handlerVars, historyVars
<1>2. ASSUME NEW m \in Messages, Send(m)
      PROVE  OriginalInv'
  BY <1>2 DEF Send, handlerVars, historyVars
<1>3. ASSUME NEW h \in Handlers, NEW m \in Messages, NEW c \in Copies, Receive(h, m, c)
      PROVE  OriginalInv'
  BY <1>3 DEF Receive, TypeOK, Outcomes
<1>4. ASSUME NEW h \in Handlers, Verify(h) \/ StoreFails(h)
      PROVE  OriginalInv'
  BY <1>4 DEF Verify, StoreFails, historyVars, TypeOK
<1>5. ASSUME NEW h \in Handlers, Remember(h)
      PROVE  OriginalInv'
  BY <1>5 DEF Remember, historyVars, TypeOK
<1>6. ASSUME NEW h \in Handlers, Decode(h) \/ Handle(h) \/ HandleFails(h)
      PROVE  OriginalInv'
  <2>1. /\ pc'[h] # "duplicate"
        /\ \A g \in Handlers : g # h => pc'[g] = pc[g]
        /\ UNCHANGED <<seen, msg>>
        /\ handled \cup spoiled \subseteq handled' \cup spoiled'
    BY <1>6 DEF Decode, Handle, HandleFails, Spoil, TypeOK
  <2>2. \/ pc'[h] = "processing"
        \/ msg[h] \in seen => msg[h] \in handled' \cup spoiled'
    BY <1>6 DEF Decode, Handle, HandleFails, Spoil, TypeOK
  <2> QED
    BY <2>1, <2>2
<1> QED
  BY <1>1, <1>2, <1>3, <1>4, <1>5, <1>6 DEF Next, Advance

\* A message rejected as a duplicate always has an original.
THEOREM DuplicateTheorem == Spec => []DuplicateHasOriginal
<1>1. Init => OriginalInv
  BY DEF Init, OriginalInv
<1>2. TypeOK /\ OriginalInv /\ [Next]_vars => OriginalInv'
  BY OriginalStep
<1>3. OriginalInv => DuplicateHasOriginal
  BY DEF OriginalInv, UnderWay, DuplicateHasOriginal
<1> QED
  BY <1>1, <1>2, <1>3, TypeCorrect, PTL DEF Spec
============================================================================
