--------------------------- MODULE WebhookReplay ---------------------------
(***************************************************************************)
(* Webhook deliveries: verify_and_decode_webhook_message (eventsub.rs)     *)
(* called by concurrent handlers for the deliveries, redeliveries and      *)
(* damaged copies of messages, with the shared replay store, a clock, the  *)
(* application's own processing, and restarts that lose the in-memory      *)
(* store.  The sender redelivers a message for as long as it is not        *)
(* acknowledged, under the same id and timestamp.                          *)
(***************************************************************************)
EXTENDS Integers, FiniteSets

CONSTANTS
    Messages,     \* message ids
    Undecodable,  \* messages whose signed body does not decode
    Handlers,     \* concurrent request handlers
    Stores,       \* whether the application passes a replay store, or may
    MaxAge,       \* the freshness window it passes
    Skew,         \* how far the sender's clock may be ahead
    MaxTime,      \* bound on the receiver's clock
    MaxFailures,  \* bound on failures of the store and of the application
    MaxRestarts   \* bound on restarts

ASSUME WebhookAssumption ==
    /\ Undecodable \subseteq Messages
    /\ Messages # {}
    /\ Stores \subseteq BOOLEAN
    /\ {MaxAge, Skew, MaxTime, MaxFailures, MaxRestarts} \subseteq Nat

VARIABLES
    hasStore,   \* the application passes a replay store
    now,        \* the receiver's clock
    stamp,      \* timestamp of each message, or Unsent
    seen,       \* ids in the replay store
    pc,         \* where each handler is; it rests in its last outcome
    msg,        \* id in the headers it is handling
    copy,       \* what became of the message on the way
    at,         \* the time the handler passes as now
    arrived,    \* history: ids of which an intact copy arrived in the window
    accepted,   \* history: ids decoded for the application since a restart
    twice,      \* history: ids decoded more than once since a restart
    spoiled,    \* history: ids remembered whose handling then failed
    handled,    \* ids the application processed and acknowledged
    failures,
    restarts

handlerVars == <<pc, msg, copy, at>>
historyVars == <<arrived, accepted, twice, spoiled, handled>>
vars == <<hasStore, now, stamp, seen, handlerVars, historyVars, failures, restarts>>

Unsent == -1
\* "tampered": the id, the timestamp, the body or the signature was changed.  The
\* other headers (type, subscription) are not signed: a copy in which only they
\* were changed is verified, and remembered, like an intact one.
Copies == {"intact", "tampered", "headerless"}
Outcomes == {"idle", "badHeaders", "badSignature", "stale", "duplicate", "storeError",
             "undecodable", "appFailed", "acknowledged"}
Stages == {"received", "verified", "remembered", "processing"}

TypeOK ==
    /\ hasStore \in BOOLEAN
    /\ now \in 0 .. MaxTime
    /\ stamp \in [Messages -> Nat \cup {Unsent}]
    /\ seen \subseteq Messages
    /\ pc \in [Handlers -> Outcomes \cup Stages]
    /\ msg \in [Handlers -> Messages]
    /\ copy \in [Handlers -> Copies]
    /\ at \in [Handlers -> 0 .. MaxTime]
    /\ arrived \subseteq Messages
    /\ accepted \subseteq Messages
    /\ twice \subseteq Messages
    /\ spoiled \subseteq Messages
    /\ handled \subseteq Messages
    /\ failures \in Nat
    /\ restarts \in Nat

Init ==
    /\ hasStore \in Stores
    /\ now = 0
    /\ stamp = [m \in Messages |-> Unsent]
    /\ seen = {}
    /\ pc = [h \in Handlers |-> "idle"]
    /\ msg = [h \in Handlers |-> CHOOSE m \in Messages : TRUE]
    /\ copy = [h \in Handlers |-> "intact"]
    /\ at = [h \in Handlers |-> 0]
    /\ arrived = {} /\ accepted = {} /\ twice = {} /\ spoiled = {} /\ handled = {}
    /\ failures = 0
    /\ restarts = 0

----------------------------------------------------------------------------
(* webhook_timestamp_is_fresh: not from the future, and at most MaxAge old. *)
\* Mutant of IsFresh: off by one at the old end.
IsFreshShort(m, time) == time >= stamp[m] /\ time - stamp[m] < MaxAge

IsFresh(m, time) == time >= stamp[m] /\ time - stamp[m] <= MaxAge

Tick ==
    /\ now < MaxTime
    /\ now' = now + 1
    /\ UNCHANGED <<hasStore, stamp, seen, handlerVars, historyVars, failures, restarts>>

\* The sender signs a message under its own clock.
Send(m) ==
    /\ stamp[m] = Unsent
    /\ \E t \in now .. now + Skew :
          /\ t <= MaxTime
          /\ stamp' = [stamp EXCEPT ![m] = t]
    /\ UNCHANGED <<hasStore, now, seen, handlerVars, historyVars, failures, restarts>>

\* A delivery reaches a free handler, which notes the time.
Receive(h, m, c) ==
    /\ pc[h] \in Outcomes
    /\ stamp[m] # Unsent
    /\ pc' = [pc EXCEPT ![h] = "received"]
    /\ msg' = [msg EXCEPT ![h] = m]
    /\ copy' = [copy EXCEPT ![h] = c]
    /\ at' = [at EXCEPT ![h] = now]
    /\ arrived' = IF c = "intact" /\ IsFresh(m, now) THEN arrived \cup {m} ELSE arrived
    /\ UNCHANGED <<hasStore, now, stamp, seen, accepted, twice, spoiled, handled,
                   failures, restarts>>

\* Mutant of Verify: the signature is not checked.
VerifyNoSignature(h) ==
    /\ pc[h] = "received"
    /\ pc' = [pc EXCEPT ![h] =
                  IF copy[h] = "headerless" THEN "badHeaders"
                  ELSE IF ~IsFresh(msg[h], at[h]) THEN "stale"
                  ELSE "verified"]
    /\ UNCHANGED <<hasStore, now, stamp, seen, msg, copy, at, historyVars, failures, restarts>>

\* Headers, signature and timestamp, in this order; none of it leaves a trace.
Verify(h) ==
    /\ pc[h] = "received"
    /\ pc' = [pc EXCEPT ![h] =
                  IF copy[h] = "headerless" THEN "badHeaders"
                  ELSE IF copy[h] = "tampered" THEN "badSignature"
                  ELSE IF ~IsFresh(msg[h], at[h]) THEN "stale"
                  ELSE "verified"]
    /\ UNCHANGED <<hasStore, now, stamp, seen, msg, copy, at, historyVars, failures, restarts>>

\* Mutant of Remember: the id is looked up and not inserted.
RememberNothing(h) ==
    /\ pc[h] = "verified"
    /\ pc' = [pc EXCEPT ![h] = IF hasStore /\ msg[h] \in seen THEN "duplicate"
                               ELSE "remembered"]
    /\ UNCHANGED <<hasStore, now, stamp, seen, msg, copy, at, historyVars, failures, restarts>>

\* Mutant of Remember: the store keeps the timestamp in place of the id.
RememberTimestamp(h) ==
    /\ pc[h] = "verified"
    /\ \/ /\ ~hasStore \/ stamp[msg[h]] \notin seen
          /\ pc' = [pc EXCEPT ![h] = "remembered"]
          /\ seen' = IF hasStore THEN seen \cup {stamp[msg[h]]} ELSE seen
       \/ /\ hasStore /\ stamp[msg[h]] \in seen
          /\ pc' = [pc EXCEPT ![h] = "duplicate"]
          /\ UNCHANGED seen
    /\ UNCHANGED <<hasStore, now, stamp, msg, copy, at, historyVars, failures, restarts>>

\* remember_message: one atomic insert tells new ids from known ones.  Without
\* a store every verified message goes on.
Remember(h) ==
    /\ pc[h] = "verified"
    /\ \/ /\ ~hasStore \/ msg[h] \notin seen
          /\ pc' = [pc EXCEPT ![h] = "remembered"]
          /\ seen' = IF hasStore THEN seen \cup {msg[h]} ELSE seen
       \/ /\ hasStore /\ msg[h] \in seen
          /\ pc' = [pc EXCEPT ![h] = "duplicate"]
          /\ UNCHANGED seen
    /\ UNCHANGED <<hasStore, now, stamp, msg, copy, at, historyVars, failures, restarts>>

\* Mutant of StoreFails: the id is inserted although the call fails.
StoreFailsInserted(h) ==
    /\ pc[h] = "verified"
    /\ hasStore
    /\ failures < MaxFailures
    /\ failures' = failures + 1
    /\ pc' = [pc EXCEPT ![h] = "storeError"]
    /\ seen' = seen \cup {msg[h]}
    /\ UNCHANGED <<hasStore, now, stamp, msg, copy, at, historyVars, restarts>>

\* The store fails; the message is not remembered and not decoded.
StoreFails(h) ==
    /\ pc[h] = "verified"
    /\ hasStore
    /\ failures < MaxFailures
    /\ failures' = failures + 1
    /\ pc' = [pc EXCEPT ![h] = "storeError"]
    /\ UNCHANGED <<hasStore, now, stamp, seen, msg, copy, at, historyVars, restarts>>

\* A message that has been remembered will not get past the store again.
Spoil(m) == spoiled' = IF m \in seen THEN spoiled \cup {m} ELSE spoiled

\* decode_eventsub_webhook_message, after the message was remembered.
Decode(h) ==
    /\ pc[h] = "remembered"
    /\ IF msg[h] \in Undecodable
       THEN /\ pc' = [pc EXCEPT ![h] = "undecodable"]
            /\ Spoil(msg[h])
            /\ UNCHANGED <<accepted, twice>>
       ELSE /\ pc' = [pc EXCEPT ![h] = "processing"]
            /\ twice' = twice \cup ({msg[h]} \cap accepted)
            /\ accepted' = accepted \cup {msg[h]}
            /\ UNCHANGED spoiled
    /\ UNCHANGED <<hasStore, now, stamp, seen, msg, copy, at, arrived, handled, failures,
                   restarts>>

\* The application processes the message and acknowledges the delivery.
Handle(h) ==
    /\ pc[h] = "processing"
    /\ pc' = [pc EXCEPT ![h] = "acknowledged"]
    /\ handled' = handled \cup {msg[h]}
    /\ UNCHANGED <<hasStore, now, stamp, seen, msg, copy, at, arrived, accepted, twice, spoiled,
                   failures, restarts>>

\* The application fails to, and the delivery is answered with an error.
HandleFails(h) ==
    /\ pc[h] = "processing"
    /\ failures < MaxFailures
    /\ failures' = failures + 1
    /\ pc' = [pc EXCEPT ![h] = "appFailed"]
    /\ Spoil(msg[h])
    /\ UNCHANGED <<hasStore, now, stamp, seen, msg, copy, at, arrived, accepted, twice, handled,
                   restarts>>

\* The process restarts: handlers and the in-memory store are gone.
Restart ==
    /\ restarts < MaxRestarts
    /\ restarts' = restarts + 1
    /\ pc' = [h \in Handlers |-> "idle"]
    /\ seen' = {} /\ accepted' = {} /\ twice' = {} /\ spoiled' = {} /\ arrived' = {}
    /\ UNCHANGED <<hasStore, now, stamp, msg, copy, at, handled, failures>>

Advance(h) == Verify(h) \/ Remember(h) \/ Decode(h) \/ Handle(h)

Next ==
    \/ Tick
    \/ \E m \in Messages : Send(m)
    \/ \E h \in Handlers : \/ \E m \in Messages, c \in Copies : Receive(h, m, c)
                           \/ Advance(h)
                           \/ StoreFails(h)
                           \/ HandleFails(h)
    \/ Restart

Spec == Init /\ [][Next]_vars

\* The sender redelivers what was not acknowledged.
Redeliver(m) == m \notin handled /\ \E h \in Handlers : Receive(h, m, "intact")

\* Handlers run to their end, the clock runs, and the sender redelivers.
Fairness ==
    /\ WF_vars(Tick)
    /\ \A h \in Handlers : WF_vars(Advance(h))
    /\ \A m \in Messages : SF_vars(Redeliver(m))

FairSpec == Spec /\ Fairness

----------------------------------------------------------------------------
(* Properties.                                                             *)

\* However deliveries of one id interleave, the application gets it at most
\* once in the lifetime of the store.
AcceptedOncePerLifetime == hasStore => twice = {}

\* An id enters the store only by a delivery inside the window whose signed
\* parts are intact: copies that are late, or changed in id, timestamp, body or
\* signature, cannot make the genuine message a duplicate.
OnlyGenuineIsRemembered == seen \subseteq arrived

\* The window is exact: a handler calls a message stale only outside it, and
\* lets none from outside through, the boundary included.
WindowIsExact ==
    \A h \in Handlers :
        /\ pc[h] = "stale" => at[h] < stamp[msg[h]] \/ at[h] > stamp[msg[h]] + MaxAge
        /\ pc[h] \in {"verified", "remembered", "processing", "acknowledged"}
              => stamp[msg[h]] <= at[h] /\ at[h] <= stamp[msg[h]] + MaxAge

\* Redelivery gets a message handled unless it grew too old, or it was
\* remembered by a handling that then failed.  (The store remembers a message
\* before it is decoded and processed, so such a failure is final.)
HandledUnlessSpoiled ==
    \A m \in Messages \ Undecodable :
        stamp[m] # Unsent ~> (m \in handled \cup spoiled \/ now > stamp[m] + MaxAge)

\* A message rejected as a duplicate is one the store let through before: the
\* delivery that took its id is being handled, was handled, or failed.
DuplicateHasOriginal ==
    \A h \in Handlers : pc[h] = "duplicate" =>
        \/ msg[h] \in handled \cup spoiled
        \/ \E g \in Handlers : msg[g] = msg[h] /\ pc[g] \in {"remembered", "processing"}
============================================================================
