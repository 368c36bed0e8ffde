------------------------- MODULE DeviceFlowProofs --------------------------
(***************************************************************************)
(* Proofs about DeviceFlow: types and the end of the flow, the spacing of  *)
(* the polls, what an outcome says of the user's decision, and what an     *)
(* expiry may have missed, for every interval, step, life and timeout.     *)
(***************************************************************************)
EXTENDS DeviceFlow, TLAPS

\* The delay after k slow_down answers.
Delay(k) == Interval + SlowDownStep * k

\* Each answer adds one step, and the last one allowed reaches MaxDelay.
LEMMA DelayFacts ==
    /\ Delay(0) = Interval
    /\ MaxDelay \in Nat
    /\ \A k \in Nat :
           /\ Delay(k) \in Nat /\ Delay(k) >= Interval
           /\ Delay(k + 1) = Delay(k) + SlowDownStep
           /\ k <= MaxSlowDowns => Delay(k) <= MaxDelay
<1>1. SlowDownStep \in Nat /\ Interval \in Nat /\ MaxSlowDowns \in Nat
  BY DeviceAssumption
<1>2. \A a, b \in Nat : a * b \in Nat
  OBVIOUS
<1>3. \A a, b, c \in Nat : b <= c => a * b <= a * c
  <2> SUFFICES ASSUME NEW a \in Nat, NEW b \in Nat, NEW c \in Nat, b <= c
               PROVE  a * b <= a * c
    OBVIOUS
  <2>1. a * (c - b) >= 0 /\ a * c = a * b + a * (c - b)
    OBVIOUS
  <2> QED
    BY <2>1, <1>2
<1>4. \A k \in Nat : SlowDownStep * (k + 1) = SlowDownStep * k + SlowDownStep
  BY <1>1
<1>5. MaxDelay \in Nat
  BY <1>1, <1>2 DEF MaxDelay
<1>6. ASSUME NEW k \in Nat
      PROVE  /\ Delay(k) \in Nat /\ Delay(k) >= Interval
             /\ Delay(k + 1) = Delay(k) + SlowDownStep
             /\ k <= MaxSlowDowns => Delay(k) <= MaxDelay
  <2>1. SlowDownStep * k \in Nat /\ SlowDownStep * MaxSlowDowns \in Nat
    BY <1>1, <1>2
  <2>2. k <= MaxSlowDowns => SlowDownStep * k <= SlowDownStep * MaxSlowDowns
    BY <1>1, <1>3
  <2> QED
    BY <1>1, <1>4, <2>1, <2>2 DEF Delay, MaxDelay
<1>7. Delay(0) = Interval
  BY <1>1 DEF Delay
<1> QED
  BY <1>5, <1>6, <1>7

----------------------------------------------------------------------------
(* Types, the delay and the end of the flow.                               *)

Types ==
    /\ now \in Nat
    /\ pc \in {"check", "answered"} \cup Waiting \cup Outcomes
    /\ delay \in Nat
    /\ due \in Nat
    /\ expiresAt \in ExpiresIn .. ExpiresIn + MaxLag
    /\ answer \in Answers
    /\ grant \in {"pending", "approved", "denied", "consumed"}
    /\ approvedAt \in {Never} \cup 0 .. now
    /\ lastPoll \in {Never} \cup 0 .. now
    /\ slowDowns \in 0 .. MaxSlowDowns

\* The delay has grown by every slow_down, but for one that has not been
\* acted upon.
DelayInv ==
    /\ IF answer = "slowDown" /\ pc \in {"asking", "answered", "failed"}
       THEN delay + SlowDownStep = Delay(slowDowns) /\ delay >= Interval
       ELSE delay = Delay(slowDowns)
    /\ pc = "lookup" => answer = "tokens"

\* A request starts before the expiry, and a sleep before a request's end.
TimeInv ==
    /\ pc = "check" => now < expiresAt + Timeout + delay
    /\ pc \in Waiting => now <= due
    /\ pc = "asking" => due < expiresAt + Timeout
    /\ pc = "answered" => now < expiresAt + Timeout
    /\ pc = "sleeping" => due < expiresAt + Timeout + delay
    /\ pc = "lookup" => due < expiresAt + 2 * Timeout
    /\ now < expiresAt + delay + 2 * Timeout
    /\ due < expiresAt + delay + 2 * Timeout

BoundInv == Types /\ DelayInv /\ TimeInv

\* Every step keeps the flow inside its time.
LEMMA BoundStep ==
    ASSUME BoundInv, [Next]_vars
    PROVE  BoundInv'
<1> USE DeviceAssumption DEF BoundInv, Types, TimeInv, Waiting, Outcomes, Answers, Never,
        clientVars, serviceVars
<1>0. /\ slowDowns \in Nat /\ Delay(slowDowns) \in Nat /\ Delay(slowDowns) >= Interval
      /\ Delay(slowDowns + 1) = Delay(slowDowns) + SlowDownStep
      /\ Delay(slowDowns + 1) \in Nat
  BY DelayFacts
<1>1. CASE Tick
  BY <1>0, <1>1 DEF Tick, DelayInv
<1>2. CASE Decide
  BY <1>0, <1>2 DEF Decide, DelayInv
<1>3. CASE Answer
  <2>1. /\ UNCHANGED <<now, pc, delay, due, expiresAt, approvedAt>>
        /\ pc = "asking" /\ answer = "none" /\ lastPoll' = now
        /\ answer' \in Answers
        /\ grant' \in {"pending", "approved", "denied", "consumed"}
        /\ IF answer' = "slowDown"
           THEN slowDowns' = slowDowns + 1 /\ slowDowns < MaxSlowDowns
           ELSE slowDowns' = slowDowns
    BY <1>3 DEF Answer
  <2>2. DelayInv'
    BY <1>0, <2>1 DEF DelayInv
  <2> QED
    BY <2>1, <2>2
<1>4. CASE Check
  BY <1>0, <1>4 DEF Check, DelayInv
<1>5. CASE Arrives \/ RequestFails
  BY <1>0, <1>5 DEF Arrives, RequestFails, DelayInv
<1>6. CASE Pending
  BY <1>0, <1>6 DEF Pending, DelayInv
<1>7. CASE SlowDown
  BY <1>0, <1>7 DEF SlowDown, DelayInv
<1>8. CASE WakeUp
  BY <1>0, <1>8 DEF WakeUp, DelayInv
<1>9. CASE Refused \/ Tokens \/ Outcome
  BY <1>0, <1>9 DEF Refused, Tokens, Outcome, DelayInv
<1>10. CASE UNCHANGED vars
  BY <1>10 DEF vars, DelayInv
<1> QED
  BY <1>1, <1>2, <1>3, <1>4, <1>5, <1>6, <1>7, <1>8, <1>9, <1>10 DEF Next, Client

LEMMA BoundHolds == Spec => []BoundInv
<1>1. Init => BoundInv
  BY DeviceAssumption, DelayFacts DEF Init, BoundInv, Types, DelayInv, TimeInv, Waiting,
     Outcomes, Answers
<1>2. BoundInv /\ [Next]_vars => BoundInv'
  BY BoundStep
<1> QED
  BY <1>1, <1>2, PTL DEF Spec

\* Every state is well typed; the clock never passes MaxTime.
THEOREM TypeCorrect == Spec => []TypeOK
<1>1. BoundInv => TypeOK
  <2> SUFFICES ASSUME BoundInv
               PROVE  TypeOK
    OBVIOUS
  <2>1. delay >= Interval /\ delay <= MaxDelay
    <3>1. slowDowns \in Nat /\ slowDowns <= MaxSlowDowns
      BY DeviceAssumption DEF BoundInv, Types
    <3>2. Delay(slowDowns) <= MaxDelay /\ Delay(slowDowns) >= Interval
      BY <3>1, DelayFacts
    <3>3. MaxDelay \in Nat /\ Delay(slowDowns) \in Nat /\ delay \in Nat
      BY <3>1, DelayFacts DEF BoundInv, Types
    <3> QED
      BY <3>2, <3>3, DeviceAssumption DEF BoundInv, DelayInv
  <2>2. MaxDelay \in Nat
    BY DelayFacts
  <2> QED
    BY <2>1, <2>2, DeviceAssumption
    DEF BoundInv, Types, TimeInv, TypeOK, MaxTime, Waiting, Outcomes, Never
<1> QED
  BY <1>1, BoundHolds, PTL

\* The flow outlives the code by less than a request and what follows it.
THEOREM EndsTheorem == Spec => []EndsAfterExpiry
<1>1. BoundInv => EndsAfterExpiry
  BY DeviceAssumption DEF BoundInv, Types, TimeInv, EndsAfterExpiry, Waiting, Outcomes
<1> QED
  BY <1>1, BoundHolds, PTL

----------------------------------------------------------------------------
(* The decision.                                                           *)

(***************************************************************************)
(* Tokens are given for an approval and consume it; a refusal is final;    *)
(* the service calls a code expired only when it is.                       *)
(***************************************************************************)
GrantInv ==
    /\ grant \in {"approved", "consumed"} <=> approvedAt # Never
    /\ answer = "tokens" <=> grant = "consumed"
    /\ answer = "denied" => grant = "denied"
    /\ answer = "expired" => now >= ExpiresIn
    /\ pc \in {"lookup", "ok"} => answer = "tokens"
    /\ pc = "check" => answer # "tokens"
    /\ pc = "sleeping" => answer \in {"pending", "slowDown"}
    /\ pc = "denied" => grant = "denied"
    /\ pc = "expired" => answer # "tokens"

\* What the service answers agrees with the user's decision.
LEMMA GrantStep ==
    ASSUME BoundInv, GrantInv, [Next]_vars
    PROVE  GrantInv'
<1> USE DeviceAssumption DEF GrantInv, BoundInv, Types, Waiting, Outcomes, Answers, Never,
        clientVars, serviceVars
<1>1. CASE Tick \/ UNCHANGED vars
  BY <1>1 DEF Tick, vars
<1>2. CASE Decide
  BY <1>2 DEF Decide
<1>3. CASE Answer
  BY <1>3 DEF Answer
<1>4. CASE Check
  BY <1>4 DEF Check
<1>5. CASE Arrives \/ RequestFails \/ WakeUp
  BY <1>5 DEF Arrives, RequestFails, WakeUp
<1>6. CASE Pending \/ SlowDown
  BY <1>6 DEF Pending, SlowDown
<1>7. CASE Refused \/ Tokens \/ Outcome
  BY <1>7 DEF Refused, Tokens, Outcome
<1> QED
  BY <1>1, <1>2, <1>3, <1>4, <1>5, <1>6, <1>7 DEF Next, Client

LEMMA GrantHolds == Spec => []GrantInv
<1>1. Init => GrantInv
  BY DEF Init, GrantInv
<1>2. BoundInv /\ GrantInv /\ [Next]_vars => GrantInv'
  BY GrantStep
<1> QED
  BY <1>1, <1>2, BoundHolds, PTL DEF Spec

\* Success needs an approval, and a refusal is never turned into tokens.
THEOREM OutcomeTheorem == Spec => []OutcomeFollowsDecision
<1>1. GrantInv => OutcomeFollowsDecision
  BY DEF GrantInv, OutcomeFollowsDecision
<1> QED
  BY <1>1, GrantHolds, PTL

----------------------------------------------------------------------------
(* The spacing of the polls.                                               *)

\* A wait is no longer than its delay or timeout, and the next poll is a
\* delay away from the last one.
SpacingInv ==
    /\ pc \in {"asking", "lookup"} => due <= now + Timeout
    /\ pc = "sleeping" => due <= now + delay
    /\ lastPoll # Never =>
           /\ pc = "check" => now >= lastPoll + delay
           /\ pc = "asking" /\ answer = "none" => now >= lastPoll + delay
           /\ pc = "sleeping" => due >= lastPoll + delay

\* The steps between two polls take at least the delay.
LEMMA SpacingStep ==
    ASSUME BoundInv, SpacingInv, [Next]_vars
    PROVE  SpacingInv'
<1> USE DeviceAssumption DEF SpacingInv, BoundInv, Types, Waiting, Outcomes, Never,
        clientVars, serviceVars
<1>1. CASE Tick \/ Decide \/ UNCHANGED vars
  BY <1>1 DEF Tick, Decide, vars
<1>2. CASE Answer
  <2>1. pc = "asking" /\ answer' # "none" /\ UNCHANGED <<now, pc, delay, due>>
    BY <1>2 DEF Answer
  <2> QED
    BY <2>1
<1>3. CASE Check
  BY <1>3 DEF Check
<1>4. CASE Arrives \/ RequestFails \/ WakeUp
  BY <1>4 DEF Arrives, RequestFails, WakeUp
<1>5. CASE Pending \/ SlowDown
  BY <1>5 DEF Pending, SlowDown
<1>6. CASE Refused \/ Tokens \/ Outcome
  BY <1>6 DEF Refused, Tokens, Outcome
<1> QED
  BY <1>1, <1>2, <1>3, <1>4, <1>5, <1>6 DEF Next, Client

LEMMA SpacingHolds == Spec => []SpacingInv
<1>1. Init => SpacingInv
  BY DEF Init, SpacingInv
<1>2. BoundInv /\ SpacingInv /\ [Next]_vars => SpacingInv'
  BY SpacingStep
<1> QED
  BY <1>1, <1>2, BoundHolds, PTL DEF Spec

\* No poll reaches the service before the interval it asked for has passed,
\* for any interval, any step and any number of slow_down answers.
THEOREM PollsTheorem == Spec => PollsAreSpaced
<1>1. BoundInv /\ SpacingInv /\ [Next]_vars
          => [lastPoll' # lastPoll /\ lastPoll # Never
                  => lastPoll' - lastPoll >= Interval + SlowDownStep * slowDowns]_vars
  <2> SUFFICES ASSUME BoundInv, SpacingInv, [Next]_vars,
                      lastPoll' # lastPoll, lastPoll # Never
               PROVE  lastPoll' - lastPoll >= Delay(slowDowns)
    BY DEF Delay
  <2>1. Answer
    BY DEF Next, Client, vars, Tick, Decide, Check, Arrives, RequestFails, Pending,
       SlowDown, WakeUp, Refused, Tokens, Outcome, clientVars, serviceVars
  <2>2. pc = "asking" /\ answer = "none" /\ lastPoll' = now
    BY <2>1 DEF Answer
  <2>3. delay = Delay(slowDowns)
    BY <2>2 DEF BoundInv, DelayInv
  <2>4. now \in Nat /\ lastPoll \in Nat /\ delay \in Nat
    BY DEF BoundInv, Types
  <2> QED
    BY <2>2, <2>3, <2>4 DEF SpacingInv
<1> QED
  BY <1>1, BoundHolds, SpacingHolds, PTL DEF Spec, PollsAreSpaced

----------------------------------------------------------------------------
(* What an expiry may have missed.                                         *)

Reach == delay + 2 * Timeout

(***************************************************************************)
(* While an approval waits to be seen, the client is at most one request,  *)
(* one sleep and one more request behind it.                               *)
(***************************************************************************)
ApprovalInv ==
    grant = "approved" =>
        /\ pc = "check" => now <= approvedAt + Timeout + delay
        /\ pc = "asking" => due <= approvedAt + Reach
        /\ pc = "asking" /\ answer \in {"pending", "slowDown"} => due <= approvedAt + Timeout
        /\ pc = "answered" => now <= approvedAt + Reach
        /\ pc = "answered" /\ answer \in {"pending", "slowDown"}
               => now <= approvedAt + Timeout
        /\ pc = "sleeping" => due <= approvedAt + Timeout + delay
        /\ pc = "expired" => ExpiresIn <= approvedAt + Reach

\* A poll after the approval either takes the tokens or comes too late.
LEMMA ApprovalStep ==
    ASSUME BoundInv, GrantInv, SpacingInv, ApprovalInv, [Next]_vars
    PROVE  ApprovalInv'
<1> USE DeviceAssumption DEF ApprovalInv, BoundInv, Types, Waiting, Outcomes, Answers,
        Never, Reach, clientVars, serviceVars
<1>0. grant = "approved" => approvedAt \in Nat
  BY DEF GrantInv
<1>1. CASE Tick \/ UNCHANGED vars
  BY <1>0, <1>1 DEF Tick, vars
<1>2. CASE Decide
  BY <1>2 DEF Decide, SpacingInv, GrantInv, TimeInv
<1>3. CASE Answer
  BY <1>0, <1>3 DEF Answer
<1>4. CASE Check
  BY <1>0, <1>4 DEF Check
<1>5. CASE Arrives
  BY <1>0, <1>5 DEF Arrives, TimeInv
<1>6. CASE Pending \/ SlowDown
  BY <1>0, <1>6 DEF Pending, SlowDown
<1>7. CASE RequestFails \/ Tokens \/ Outcome
  BY <1>0, <1>7 DEF RequestFails, Tokens, Outcome
<1>8. CASE WakeUp
  BY <1>0, <1>8 DEF WakeUp, TimeInv
<1>9. CASE Refused
  BY <1>0, <1>9 DEF Refused, GrantInv
<1> QED
  BY <1>1, <1>2, <1>3, <1>4, <1>5, <1>6, <1>7, <1>8, <1>9 DEF Next, Client

\* A flow that expired can have missed only an approval of the last sleep and
\* two requests before the code's end.
THEOREM ExpiryTheorem == Spec => []ExpiredDidNotMissApproval
<1>1. Init => ApprovalInv
  BY DEF Init, ApprovalInv
<1>2. BoundInv /\ GrantInv /\ SpacingInv /\ ApprovalInv /\ [Next]_vars => ApprovalInv'
  BY ApprovalStep
<1>3. BoundInv /\ GrantInv /\ ApprovalInv => ExpiredDidNotMissApproval
  BY DeviceAssumption
  DEF BoundInv, Types, GrantInv, ApprovalInv, Reach, ExpiredDidNotMissApproval
<1> QED
  BY <1>1, <1>2, <1>3, BoundHolds, GrantHolds, SpacingHolds, PTL DEF Spec
============================================================================
