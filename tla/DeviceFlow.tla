----------------------------- MODULE DeviceFlow ----------------------------
(***************************************************************************)
(* complete_device_code_flow (native.rs): the client polls the token       *)
(* endpoint until the user has decided or the code has expired, sleeping   *)
(* between polls and slowing down when told to.  The clock runs while      *)
(* requests are under way and while the client sleeps; the user decides at *)
(* any moment; the service stops accepting the code at its own expiry.     *)
(***************************************************************************)
EXTENDS Integers

CONSTANTS
    Interval,      \* poll interval of the authorization
    SlowDownStep,  \* added to the delay by each slow_down (5 s)
    ExpiresIn,     \* life of the device code
    MaxLag,        \* age of the code when the client notes its expiry
    Timeout,       \* longest time a request takes before the client gives up
    MaxSlowDowns   \* bound on the slow_down answers

ASSUME DeviceAssumption ==
    /\ {Interval, SlowDownStep, ExpiresIn, Timeout} \subseteq Nat \ {0}
    /\ {MaxLag, MaxSlowDowns} \subseteq Nat

VARIABLES
    now,         \* the clock, 0 when the service issued the code
    pc,          \* where the client is; it ends in an outcome
    delay,       \* current sleep between polls
    due,         \* when the sleep ends or the request times out
    expiresAt,   \* the expiry the client computed
    answer,      \* the service's answer on its way to the client
    grant,       \* service: what became of the code
    approvedAt,  \* history: when the user approved, or Never
    lastPoll,    \* history: when a poll last reached the service, or Never
    slowDowns    \* slow_down answers given

clientVars == <<pc, delay, due, expiresAt>>
serviceVars == <<answer, grant, lastPoll, slowDowns>>
vars == <<now, clientVars, serviceVars, approvedAt>>

Never == -1
Outcomes == {"ok", "denied", "expired", "failed"}
Waiting == {"asking", "sleeping", "lookup"}
Answers == {"none", "tokens", "pending", "slowDown", "denied", "expired"}

MaxDelay == Interval + SlowDownStep * MaxSlowDowns
\* The flow is over by then; see EndsAfterExpiry.
MaxTime == MaxLag + ExpiresIn + MaxDelay + 2 * Timeout

TypeOK ==
    /\ now \in 0 .. MaxTime
    /\ pc \in {"check", "answered"} \cup Waiting \cup Outcomes
    /\ delay \in Interval .. MaxDelay
    /\ due \in 0 .. MaxTime
    /\ expiresAt \in ExpiresIn .. ExpiresIn + MaxLag
    /\ answer \in Answers
    /\ grant \in {"pending", "approved", "denied", "consumed"}
    /\ approvedAt \in {Never} \cup 0 .. MaxTime
    /\ lastPoll \in {Never} \cup 0 .. MaxTime
    /\ slowDowns \in 0 .. MaxSlowDowns

Init ==
    /\ now \in 0 .. MaxLag
    /\ pc = "check"
    /\ delay = Interval
    /\ due = 0
    /\ expiresAt = now + ExpiresIn
    /\ answer = "none"
    /\ grant = "pending"
    /\ approvedAt = Never
    /\ lastPoll = Never
    /\ slowDowns = 0

----------------------------------------------------------------------------
(* Time, the user and the service.                                         *)

\* Time passes while the client waits, and not past the moment its wait ends.
Tick ==
    /\ pc \in Waiting
    /\ now < due
    /\ now' = now + 1
    /\ UNCHANGED <<clientVars, serviceVars, approvedAt>>

\* The user opens the verification page and decides while the code is valid.
Decide ==
    /\ pc \notin Outcomes
    /\ grant = "pending"
    /\ now < ExpiresIn
    /\ \/ grant' = "approved" /\ approvedAt' = now
       \/ grant' = "denied" /\ UNCHANGED approvedAt
    /\ UNCHANGED <<now, clientVars, answer, lastPoll, slowDowns>>

\* The service answers a poll; tokens are issued once.
Answer ==
    /\ pc = "asking"
    /\ answer = "none"
    /\ lastPoll' = now
    /\ \/ /\ now >= ExpiresIn
          /\ answer' = "expired"
          /\ UNCHANGED <<grant, slowDowns>>
       \/ /\ now < ExpiresIn /\ grant = "approved"
          /\ answer' = "tokens" /\ grant' = "consumed"
          /\ UNCHANGED slowDowns
       \/ /\ now < ExpiresIn /\ grant = "denied"
          /\ answer' = "denied"
          /\ UNCHANGED <<grant, slowDowns>>
       \/ /\ now < ExpiresIn /\ grant = "pending"
          /\ answer' = "pending"
          /\ UNCHANGED <<grant, slowDowns>>
       \/ /\ now < ExpiresIn /\ grant = "pending"
          /\ slowDowns < MaxSlowDowns
          /\ answer' = "slowDown" /\ slowDowns' = slowDowns + 1
          /\ UNCHANGED grant
    /\ UNCHANGED <<now, clientVars, approvedAt>>

----------------------------------------------------------------------------
(* The client.                                                             *)

\* The loop's head: the local expiry, then the next poll.
Check ==
    /\ pc = "check"
    /\ IF now >= expiresAt
       THEN pc' = "expired" /\ UNCHANGED due
       ELSE pc' = "asking" /\ due' = now + Timeout
    /\ answer' = "none"
    /\ UNCHANGED <<now, delay, expiresAt, grant, lastPoll, slowDowns, approvedAt>>

\* The answer arrives.
Arrives ==
    /\ pc = "asking"
    /\ answer # "none"
    /\ pc' = "answered"
    /\ UNCHANGED <<now, delay, due, expiresAt, serviceVars, approvedAt>>

\* Mutant of RequestFails: a poll without a timeout.
RequestFailsNoTimeout ==
    /\ pc = "lookup"
    /\ pc' = "failed"
    /\ UNCHANGED <<now, delay, due, expiresAt, serviceVars, approvedAt>>

\* A poll or the user lookup fails or times out, or the answer is none the
\* code knows: Err.
RequestFails ==
    /\ pc \in {"asking", "lookup"}
    /\ pc' = "failed"
    /\ UNCHANGED <<now, delay, due, expiresAt, serviceVars, approvedAt>>

\* Mutant of Pending: the sleep lasts until the code expires.
PendingSleepsOut ==
    /\ pc = "answered" /\ answer = "pending"
    /\ pc' = "sleeping"
    /\ due' = expiresAt
    /\ UNCHANGED <<now, delay, expiresAt, serviceVars, approvedAt>>

\* authorization_pending: sleep and try again.
Pending ==
    /\ pc = "answered" /\ answer = "pending"
    /\ pc' = "sleeping"
    /\ due' = now + delay
    /\ UNCHANGED <<now, delay, expiresAt, serviceVars, approvedAt>>

\* Mutants of SlowDown: the delay stays as it was; it is multiplied; the sleep
\* is done twice.
SlowDownKeepsDelay ==
    /\ pc = "answered" /\ answer = "slowDown"
    /\ pc' = "sleeping"
    /\ due' = now + delay
    /\ UNCHANGED <<now, delay, expiresAt, serviceVars, approvedAt>>

SlowDownMultiplies ==
    /\ pc = "answered" /\ answer = "slowDown"
    /\ pc' = "sleeping"
    /\ delay' = delay * SlowDownStep
    /\ due' = now + delay'
    /\ UNCHANGED <<now, expiresAt, serviceVars, approvedAt>>

SlowDownSleepsTwice ==
    /\ pc = "answered" /\ answer = "slowDown"
    /\ pc' = "sleeping"
    /\ delay' = delay + SlowDownStep
    /\ due' = now + delay + delay'
    /\ UNCHANGED <<now, expiresAt, serviceVars, approvedAt>>

\* slow_down: the delay grows for good before the sleep.
SlowDown ==
    /\ pc = "answered" /\ answer = "slowDown"
    /\ pc' = "sleeping"
    /\ delay' = delay + SlowDownStep
    /\ due' = now + delay'
    /\ UNCHANGED <<now, expiresAt, serviceVars, approvedAt>>

WakeUp ==
    /\ pc = "sleeping"
    /\ now >= due
    /\ pc' = "check"
    /\ UNCHANGED <<now, delay, due, expiresAt, serviceVars, approvedAt>>

\* Mutant of Refused: an expired code is reported as a denial.
RefusedAsDenied ==
    /\ pc = "answered" /\ answer \in {"denied", "expired"}
    /\ pc' = "denied"
    /\ UNCHANGED <<now, delay, due, expiresAt, serviceVars, approvedAt>>

\* access_denied and expired_token end the flow.
Refused ==
    /\ pc = "answered" /\ answer \in {"denied", "expired"}
    /\ pc' = answer
    /\ UNCHANGED <<now, delay, due, expiresAt, serviceVars, approvedAt>>

\* Tokens: the body must parse, then the user is looked up.
Tokens ==
    /\ pc = "answered" /\ answer = "tokens"
    /\ \/ pc' = "lookup" /\ due' = now + Timeout
       \/ pc' = "failed" /\ UNCHANGED due
    /\ UNCHANGED <<now, delay, expiresAt, serviceVars, approvedAt>>

\* The lookup succeeds; build_auth_outcome needs a refresh token.
Outcome ==
    /\ pc = "lookup"
    /\ pc' \in {"ok", "failed"}
    /\ UNCHANGED <<now, delay, due, expiresAt, serviceVars, approvedAt>>

Client ==
    \/ Check \/ Arrives \/ RequestFails \/ Pending \/ SlowDown \/ WakeUp
    \/ Refused \/ Tokens \/ Outcome

Next == Tick \/ Decide \/ Answer \/ Client

Spec == Init /\ [][Next]_vars

\* The clock runs, and the client goes on: a request that got no answer times
\* out when it is due.
Fairness == WF_vars(Tick) /\ WF_vars(Client)

FairSpec == Spec /\ Fairness

----------------------------------------------------------------------------
(* Properties.                                                             *)

\* The service never sees a poll before the interval has passed since the one
\* before, nor, after slow_down answers, before the longer interval they
\* asked for, however long requests take.
PollsAreSpaced ==
    [][lastPoll' # lastPoll /\ lastPoll # Never
          => lastPoll' - lastPoll >= Interval + SlowDownStep * slowDowns]_vars

\* A flow that ends as expired did not sit on an approval: the user approved,
\* if at all, within one sleep and two requests of the code's end.
ExpiredDidNotMissApproval ==
    pc = "expired" /\ approvedAt # Never
        => approvedAt + delay + 2 * Timeout >= ExpiresIn

\* The flow outlives the code's expiry by less than one request and the sleep
\* or the lookup that follows it.
EndsAfterExpiry ==
    pc \notin Outcomes
        => now < expiresAt + Timeout + (IF delay > Timeout THEN delay ELSE Timeout)

\* The user's word is final: success needs an approval, and a refusal cannot
\* be turned into tokens.
OutcomeFollowsDecision ==
    /\ pc = "ok" => grant = "consumed" /\ approvedAt # Never
    /\ pc = "denied" => grant = "denied"

\* However often it is told to wait, the flow ends.
FlowEnds == <>(pc \in Outcomes)
============================================================================
