------------------------ MODULE EventSubStreamProofs ------------------------
(***************************************************************************)
(* Proofs about EventSubStream: types, the subscription requests of a      *)
(* connect, and the delivery of chat frames, for every set of frame kinds  *)
(* and any number of frames and dropped futures.                           *)
(***************************************************************************)
EXTENDS EventSubStream, SequenceFacts

----------------------------------------------------------------------------
(* The subscription requests.                                              *)

Opening == {"connect", "welcome", "welcomePong"}

\* Before the welcome nothing is requested, subscribed or on the wire; a
\* request is in flight only while the connect waits for it; and a stream in
\* use has its message request answered with success.
RequestInv ==
    /\ pc \in Opening => /\ subs = {}
                         /\ \A r \in Requests : req[r] = "none"
                         /\ \A i \in 1 .. Len(sent) : ~IsChat(sent[i])
    /\ req["message"] \in {"created", "ok"} => granted
    /\ pc \in Reading \cup {"ready"} => req["message"] = "ok"

Inv ==
    /\ TypeOK
    /\ RequestInv
    /\ NoRequestLeftRunning
    /\ DeleteIsBestEffort
    /\ ChatComplete

\* The states and values a request or a frame may have.
USE DEF Requests, Connecting, Reading, Gone, Opening

LEMMA InitInv == Init => Inv
<1> SUFFICES ASSUME Init
             PROVE  Inv
  OBVIOUS
<1> USE DEF Init
<1>1. << >> \in Seq(Kinds) /\ << >> \in Seq(1 .. 0) /\ Len(<< >>) = 0
  OBVIOUS
<1>2. TypeOK
  <2>1. /\ sent \in Seq(Kinds) /\ delivered \in Seq(1 .. read)
        /\ read \in 0 .. Len(sent)
    BY <1>1
  <2>2. req \in [Requests -> {"none", "pending", "created", "ok", "err"}]
    OBVIOUS
  <2>3. granted \in BOOLEAN /\ closing \in BOOLEAN
    OBVIOUS
  <2> QED
    BY <2>1, <2>2, <2>3 DEF TypeOK
<1>3. RequestInv /\ NoRequestLeftRunning /\ DeleteIsBestEffort
  BY DEF RequestInv, NoRequestLeftRunning, DeleteIsBestEffort
<1>4. ChatComplete
  BY DEF ChatComplete
<1> QED
  BY <1>2, <1>3, <1>4 DEF Inv

\* A frame the server sends changes no request, and is no chat frame before
\* the welcome.
LEMMA ServerSendsStep ==
    ASSUME Inv, NEW k \in Kinds, ServerSends(k)
    PROVE  Inv'
<1> USE DEF ServerSends, Inv
<1>1. /\ Append(sent, k) \in Seq(Kinds)
      /\ Len(sent') = Len(sent) + 1
      /\ \A i \in 1 .. Len(sent) : sent'[i] = sent[i]
      /\ sent'[Len(sent) + 1] = k
      /\ Len(sent) \in Nat
  BY AppendFacts DEF TypeOK
<1>2. TypeOK'
  BY <1>1 DEF TypeOK
<1>3. RequestInv'
  <2>1. pc \in Opening => ~IsChat(k) /\ subs' = {}
    BY DEF RequestInv, IsChat, ChatKinds
  <2>2. pc \in Opening => \A i \in 1 .. Len(sent') : ~IsChat(sent'[i])
    BY <1>1, <2>1 DEF RequestInv, IsChat
  <2> QED
    BY <2>1, <2>2 DEF RequestInv, IsChat
<1>4. NoRequestLeftRunning' /\ DeleteIsBestEffort'
  BY DEF NoRequestLeftRunning, DeleteIsBestEffort
<1>5. ChatComplete'
  <2>1. \A i \in 1 .. read : sent'[i] = sent[i]
    BY <1>1 DEF TypeOK
  <2> QED
    BY <2>1 DEF ChatComplete, IsChat
<1> QED
  BY <1>2, <1>3, <1>4, <1>5

\* A request the server grants is one the connect waits for.
LEMMA ServerGrantsStep ==
    ASSUME Inv, NEW r \in Requests, ServerGrants(r)
    PROVE  Inv'
<1> USE DEF ServerGrants, Inv
<1>1. pc = "subscribe"
  BY DEF NoRequestLeftRunning
<1>2. TypeOK'
  BY DEF TypeOK
<1>3. RequestInv' /\ NoRequestLeftRunning' /\ DeleteIsBestEffort'
  BY <1>1 DEF RequestInv, NoRequestLeftRunning, DeleteIsBestEffort, TypeOK
<1>4. ChatComplete'
  BY DEF ChatComplete, IsChat
<1> QED
  BY <1>2, <1>3, <1>4

LEMMA RequestEndsStep ==
    ASSUME Inv, NEW r \in Requests, RequestEnds(r)
    PROVE  Inv'
<1> USE DEF RequestEnds, Inv
<1>1. pc = "subscribe"
  BY DEF NoRequestLeftRunning
<1>2. TypeOK'
  BY DEF TypeOK
<1>3. RequestInv' /\ NoRequestLeftRunning' /\ DeleteIsBestEffort'
  BY <1>1 DEF RequestInv, NoRequestLeftRunning, DeleteIsBestEffort, TypeOK
<1>4. ChatComplete'
  BY DEF ChatComplete, IsChat
<1> QED
  BY <1>2, <1>3, <1>4

\* Reading over a frame that is not chat keeps what was delivered complete.
LEMMA SkipFrame ==
    ASSUME TypeOK, ChatComplete, Take, ~IsChat(Frame),
           UNCHANGED <<sent, delivered>>
    PROVE  /\ ChatComplete'
           /\ read' \in 0 .. Len(sent)
           /\ delivered \in Seq(1 .. read')
<1>1. read \in Nat /\ read' = read + 1 /\ read' \in 0 .. Len(sent)
  BY DEF TypeOK, Take, Unread
<1>2. delivered \in Seq(1 .. read')
  BY <1>1, SeqMonotonic DEF TypeOK
<1>3. \A i \in 1 .. read' : IsChat(sent[i]) => i \in 1 .. read
  BY <1>1 DEF Frame
<1>4. ChatComplete'
  BY <1>3 DEF ChatComplete, IsChat
<1> QED
  BY <1>1, <1>2, <1>4

LEMMA AwaitWelcomeStep ==
    ASSUME Inv, AwaitWelcome
    PROVE  Inv'
<1> USE DEF AwaitWelcome, Inv
<1>1. ~IsChat(Frame)
  BY DEF TypeOK, RequestInv, Take, Unread, Frame
<1>2. /\ ChatComplete'
      /\ read' \in 0 .. Len(sent)
      /\ delivered \in Seq(1 .. read')
  BY <1>1, SkipFrame
<1>3. TypeOK'
  BY <1>2 DEF TypeOK
<1>4. RequestInv' /\ NoRequestLeftRunning' /\ DeleteIsBestEffort'
  BY DEF RequestInv, NoRequestLeftRunning, DeleteIsBestEffort, TypeOK, IsChat
<1> QED
  BY <1>2, <1>3, <1>4

\* An event is delivered behind all those before it.
LEMMA ReadEventStep ==
    ASSUME Inv, ReadEvent
    PROVE  Inv'
<1> USE DEF ReadEvent, Inv
<1>1. /\ read \in Nat /\ read' = read + 1 /\ read' \in 0 .. Len(sent)
      /\ delivered' = Append(delivered, read + 1)
  BY DEF TypeOK, Take, Unread
<1>2. delivered \in Seq(1 .. read')
  BY <1>1, SeqMonotonic DEF TypeOK
<1>3. read + 1 \in 1 .. read'
  BY <1>1
<1>4. /\ delivered' \in Seq(1 .. read')
      /\ DOMAIN delivered = 1 .. Len(delivered)
      /\ DOMAIN delivered' = 1 .. Len(delivered) + 1
      /\ \A j \in 1 .. Len(delivered) : delivered'[j] = delivered[j]
      /\ delivered'[Len(delivered) + 1] = read + 1
      /\ Len(delivered) \in Nat
  BY <1>1, <1>2, <1>3, AppendFacts
<1>5. TypeOK'
  BY <1>1, <1>4 DEF TypeOK, Return
<1>6. RequestInv' /\ NoRequestLeftRunning' /\ DeleteIsBestEffort'
  BY DEF RequestInv, NoRequestLeftRunning, DeleteIsBestEffort, Return, IsChat
<1>7. ChatComplete'
  <2>1. ASSUME NEW i \in 1 .. read', IsChat(sent[i])
        PROVE  \E j \in DOMAIN delivered' : delivered'[j] = i
    <3>1. CASE i = read + 1
      BY <3>1, <1>4
    <3>2. CASE i # read + 1
      <4>1. i \in 1 .. read
        BY <3>2, <1>1
      <4>2. PICK j \in DOMAIN delivered : delivered[j] = i
        BY <4>1, <2>1 DEF ChatComplete
      <4> QED
        BY <4>2, <1>4
    <3> QED
      BY <3>1, <3>2
  <2>2. ASSUME NEW i \in DOMAIN delivered', NEW j \in DOMAIN delivered', i < j
        PROVE  delivered'[i] < delivered'[j]
    <3>1. i \in DOMAIN delivered /\ delivered'[i] = delivered[i]
      BY <2>2, <1>4
    <3>2. delivered[i] \in 1 .. read
      BY <3>1 DEF TypeOK
    <3>3. CASE j = Len(delivered) + 1
      BY <3>1, <3>2, <3>3, <1>1, <1>4
    <3>4. CASE j # Len(delivered) + 1
      BY <2>2, <3>1, <3>4, <1>4 DEF ChatComplete
    <3> QED
      BY <3>3, <3>4
  <2> QED
    BY <2>1, <2>2 DEF ChatComplete, IsChat
<1> QED
  BY <1>5, <1>6, <1>7

\* The other steps of the reader take no frame that is chat.
LEMMA ReadStep ==
    ASSUME Inv, ReadSilent \/ ReadEnd \/ ReadPing
    PROVE  Inv'
<1> USE DEF ReadSilent, ReadEnd, ReadPing, Inv
<1>1. ~IsChat(Frame) /\ Take /\ UNCHANGED <<sent, delivered>>
  BY DEF IsChat, ChatKinds, SilentKinds
<1>2. /\ ChatComplete'
      /\ read' \in 0 .. Len(sent)
      /\ delivered \in Seq(1 .. read')
  BY <1>1, SkipFrame
<1>3. TypeOK'
  BY <1>2 DEF TypeOK, Return
<1>4. RequestInv' /\ NoRequestLeftRunning' /\ DeleteIsBestEffort'
  BY DEF RequestInv, NoRequestLeftRunning, DeleteIsBestEffort, Return, IsChat
<1> QED
  BY <1>2, <1>3, <1>4

\* What is left takes no frame: the owner's own steps and the ends of awaits.
LEMMA OwnerStep ==
    ASSUME Inv,
           \/ Connect \/ WelcomePong \/ Joined \/ Poll \/ Close
           \/ ReadPastEnd \/ SendPong \/ CancelPoll \/ DropStream
    PROVE  Inv'
<1> USE DEF Inv
<1>1. ChatComplete'
  BY DEF Connect, WelcomePong, Joined, Poll, Close, ReadPastEnd, SendPong,
         CancelPoll, DropStream, ChatComplete, IsChat
<1>2. TypeOK'
  <2>1. UNCHANGED <<sent, read, delivered, granted>>
    BY DEF Connect, WelcomePong, Joined, Poll, Close, ReadPastEnd, SendPong,
           CancelPoll, DropStream
  <2>2. /\ pc' \in Connecting \cup Reading \cup {"ready"} \cup Gone
        /\ result' \in {"nothing", "event", "none", "error"}
    <3>1. result \in {"nothing", "event", "none", "error"}
      BY DEF TypeOK
    <3> QED
      BY <3>1 DEF Connect, WelcomePong, Joined, Poll, Close, ReadPastEnd,
                  SendPong, CancelPoll, DropStream, Return
  <2>3. cancels' \in Nat /\ subs' \subseteq Requests
    <3>1. cancels' = cancels \/ cancels' = cancels + 1
      BY DEF Connect, WelcomePong, Joined, Poll, Close, ReadPastEnd,
             SendPong, CancelPoll, DropStream
    <3>2. subs' = subs \/ subs' = {}
      BY DEF Connect, WelcomePong, Joined, Poll, Close, ReadPastEnd,
             SendPong, CancelPoll, DropStream
    <3>3. cancels \in Nat /\ subs \subseteq Requests
      BY DEF TypeOK
    <3>4. cancels' \in Nat
      BY <3>1, <3>3
    <3>5. subs' \subseteq Requests
      BY <3>2, <3>3
    <3> QED
      BY <3>4, <3>5
  <2>4. req' \in [Requests -> {"none", "pending", "created", "ok", "err"}]
    BY DEF Connect, WelcomePong, Joined, Poll, Close, ReadPastEnd, SendPong,
           CancelPoll, DropStream, TypeOK
  <2>5. closing' \in BOOLEAN
    <3>1. CASE Close
      BY <3>1, Zenon DEF Close
    <3>2. CASE \/ Connect \/ WelcomePong \/ Joined \/ Poll
               \/ ReadPastEnd \/ SendPong \/ CancelPoll \/ DropStream
      <4>1. UNCHANGED closing
        BY <3>2 DEF Connect, WelcomePong, Joined, Poll, ReadPastEnd, SendPong,
                    CancelPoll, DropStream
      <4> QED
        BY <4>1 DEF TypeOK
    <3> QED
      BY <3>1, <3>2
  <2> QED
    BY <2>1, <2>2, <2>3, <2>4, <2>5 DEF TypeOK
<1>3. CASE DropStream
  <2>1. /\ \A r \in Requests : req'[r] \notin {"pending", "created"}
        /\ req'["message"] = "ok" => req["message"] = "ok"
        /\ pc' = "dropped"
    BY <1>3 DEF DropStream, TypeOK
  <2> QED
    BY <1>1, <1>2, <1>3, <2>1
    DEF DropStream, RequestInv, NoRequestLeftRunning, DeleteIsBestEffort
<1>4. CASE Joined
  <2>1. RequestInv' /\ NoRequestLeftRunning' /\ DeleteIsBestEffort'
    BY <1>4 DEF Joined, RequestInv, NoRequestLeftRunning, DeleteIsBestEffort, IsChat
  <2> QED
    BY <1>1, <1>2, <2>1
<1>5. CASE \/ Connect \/ WelcomePong \/ Poll \/ Close
           \/ ReadPastEnd \/ SendPong \/ CancelPoll
  <2>1. /\ UNCHANGED <<req, subs, sent, granted>>
        /\ pc # "subscribe" /\ pc' # "subscribe"
    BY <1>5 DEF Connect, WelcomePong, Poll, Close, ReadPastEnd, SendPong,
                CancelPoll, Return, RequestInv, NoRequestLeftRunning
  <2>2. RequestInv' /\ NoRequestLeftRunning' /\ DeleteIsBestEffort'
    BY <1>5, <2>1
    DEF Connect, WelcomePong, Poll, Close, ReadPastEnd, SendPong, CancelPoll,
        Return, RequestInv, NoRequestLeftRunning, DeleteIsBestEffort, IsChat
  <2> QED
    BY <1>1, <1>2, <2>2
<1> QED
  BY <1>3, <1>4, <1>5

LEMMA NextInv == Inv /\ [Next]_vars => Inv'
<1> SUFFICES ASSUME Inv, [Next]_vars
             PROVE  Inv'
  OBVIOUS
<1>1. CASE UNCHANGED vars
  BY <1>1 DEF vars, Inv, TypeOK, RequestInv, NoRequestLeftRunning,
              DeleteIsBestEffort, ChatComplete, IsChat
<1>2. CASE \E k \in Kinds : ServerSends(k)
  BY <1>2, ServerSendsStep
<1>3. CASE \E r \in Requests : ServerGrants(r) \/ RequestEnds(r)
  BY <1>3, ServerGrantsStep, RequestEndsStep
<1>4. CASE AwaitWelcome \/ ReadEvent
  BY <1>4, AwaitWelcomeStep, ReadEventStep
<1>5. CASE ReadSilent \/ ReadEnd \/ ReadPing
  BY <1>5, ReadStep
<1>6. CASE \/ Connect \/ WelcomePong \/ Joined \/ Poll \/ Close
           \/ ReadPastEnd \/ SendPong \/ CancelPoll \/ DropStream
  BY <1>6, OwnerStep
<1> QED
  BY <1>1, <1>2, <1>3, <1>4, <1>5, <1>6 DEF Next, Client

LEMMA Invariant == Spec => []Inv
<1> QED
  BY InitInv, NextInv, PTL DEF Spec

\* Every variable keeps its type; in particular an event is only delivered
\* for a frame the client has taken.
THEOREM TypeCorrect == Spec => []TypeOK
<1>1. Inv => TypeOK
  BY DEF Inv
<1> QED
  BY <1>1, Invariant, PTL

\* connect_chat_stream hands a stream out only after the server created the
\* chat message subscription of its session.
THEOREM SubscribedTheorem == Spec => []ReadyMeansSubscribed
<1>1. Inv => ReadyMeansSubscribed
  BY DEF Inv, RequestInv, ReadyMeansSubscribed
<1> QED
  BY <1>1, Invariant, PTL

\* connect_chat_stream leaves none of its two requests running, whichever
\* way it ends.
THEOREM NoRequestTheorem == Spec => []NoRequestLeftRunning
<1>1. Inv => NoRequestLeftRunning
  BY DEF Inv
<1> QED
  BY <1>1, Invariant, PTL

\* A refused delete subscription never costs the caller the stream.
THEOREM BestEffortTheorem == Spec => []DeleteIsBestEffort
<1>1. Inv => DeleteIsBestEffort
  BY DEF Inv
<1> QED
  BY <1>1, Invariant, PTL

\* Every chat frame the client has taken from the connection was returned to
\* the reader, once and in the order of the wire.
THEOREM CompleteTheorem == Spec => []ChatComplete
<1>1. Inv => ChatComplete
  BY DEF Inv
<1> QED
  BY <1>1, Invariant, PTL

----------------------------------------------------------------------------
(* Filter, by induction over the prefixes of a sequence.                   *)

\* f holds what is kept of the first n elements of s, for n up to k.
IsKept(f, s, S, k) ==
    f = [n \in 0 .. k |->
            IF n = 0 THEN << >>
            ELSE IF s[n] \in S THEN Append(f[n - 1], s[n])
            ELSE f[n - 1]]

\* The equation of such a function, at 0 and at every later number.
LEMMA KeptFacts ==
    ASSUME NEW f, NEW s, NEW S, NEW k \in Nat, IsKept(f, s, S, k)
    PROVE  /\ f[0] = << >>
           /\ \A n \in 0 .. k - 1 :
                  f[n + 1] = IF s[n + 1] \in S THEN Append(f[n], s[n + 1]) ELSE f[n]
<1>1. \A n \in 0 .. k : f[n] = IF n = 0 THEN << >>
                               ELSE IF s[n] \in S THEN Append(f[n - 1], s[n])
                               ELSE f[n - 1]
  BY DEF IsKept
<1>2. f[0] = << >>
  <2>1. 0 \in 0 .. k
    OBVIOUS
  <2> QED
    BY <1>1, <2>1
<1>3. ASSUME NEW n \in 0 .. k - 1
      PROVE  f[n + 1] = IF s[n + 1] \in S THEN Append(f[n], s[n + 1]) ELSE f[n]
  <2>1. n + 1 \in 0 .. k /\ n + 1 # 0 /\ (n + 1) - 1 = n
    OBVIOUS
  <2> QED
    BY <1>1, <2>1
<1> QED
  BY <1>2, <1>3

\* There is such a function for every number.
LEMMA KeptExists ==
    ASSUME NEW s, NEW S
    PROVE  \A k \in Nat : \E f : IsKept(f, s, S, k)
<1> DEFINE T == {k \in Nat : \E f : IsKept(f, s, S, k)}
<1>1. 0 \in T
  <2> DEFINE f == [n \in 0 .. 0 |-> << >>]
  <2>1. IsKept(f, s, S, 0)
    BY DEF IsKept
  <2> QED
    BY <2>1
<1>2. ASSUME NEW k \in Nat, k \in T
      PROVE  k + 1 \in T
  <2>1. PICK f : IsKept(f, s, S, k)
    BY <1>2
  <2> DEFINE more == IF s[k + 1] \in S THEN Append(f[k], s[k + 1]) ELSE f[k]
             g == [n \in 0 .. k + 1 |-> IF n = k + 1 THEN more ELSE f[n]]
  <2>2. \A n \in 0 .. k : g[n] = f[n]
    OBVIOUS
  <2>3. ASSUME NEW n \in 0 .. k + 1
        PROVE  g[n] = IF n = 0 THEN << >>
                      ELSE IF s[n] \in S THEN Append(g[n - 1], s[n])
                      ELSE g[n - 1]
    <3>1. CASE n = k + 1
      <4>1. n # 0 /\ n - 1 = k /\ g[n - 1] = f[k] /\ g[n] = more
        BY <3>1, <2>2
      <4> QED
        BY <4>1, <3>1
    <3>2. CASE n # k + 1
      <4>1. n \in 0 .. k /\ (n # 0 => n - 1 \in 0 .. k)
        BY <3>2
      <4>2. f[n] = IF n = 0 THEN << >>
                   ELSE IF s[n] \in S THEN Append(f[n - 1], s[n])
                   ELSE f[n - 1]
        BY <2>1, <4>1 DEF IsKept
      <4> QED
        BY <4>1, <4>2, <2>2
    <3> QED
      BY <3>1, <3>2
  <2>4. IsKept(g, s, S, k + 1)
    BY <2>3 DEF IsKept
  <2> QED
    BY <2>4
<1>3. Nat \subseteq T
  <2> HIDE DEF T
  <2> QED
    BY <1>1, <1>2, SetInduction
<1> QED
  BY <1>3

\* What is kept depends on the elements alone.
LEMMA KeptAgree ==
    ASSUME NEW f, NEW s, NEW S, NEW j \in Nat, IsKept(f, s, S, j),
           NEW g, NEW t, NEW R, NEW k \in Nat, IsKept(g, t, R, k),
           k <= j,
           \A i \in 1 .. k : s[i] = t[i] /\ (s[i] \in S <=> t[i] \in R)
    PROVE  f[k] = g[k]
<1> DEFINE T == {n \in Nat : n <= k => f[n] = g[n]}
<1>1. 0 \in T
  BY KeptFacts
<1>2. ASSUME NEW n \in Nat, n \in T
      PROVE  n + 1 \in T
  <2>1. SUFFICES ASSUME n + 1 <= k
                 PROVE  f[n + 1] = g[n + 1]
    OBVIOUS
  <2>2. n \in 0 .. j - 1 /\ n \in 0 .. k - 1 /\ n + 1 \in 1 .. k
    BY <2>1
  <2>3. f[n + 1] = IF s[n + 1] \in S THEN Append(f[n], s[n + 1]) ELSE f[n]
    BY <2>2, KeptFacts
  <2>4. g[n + 1] = IF t[n + 1] \in R THEN Append(g[n], t[n + 1]) ELSE g[n]
    BY <2>2, KeptFacts
  <2>5. f[n] = g[n]
    BY <1>2, <2>1
  <2>6. s[n + 1] = t[n + 1] /\ (s[n + 1] \in S <=> t[n + 1] \in R)
    BY <2>2
  <2> QED
    BY <2>3, <2>4, <2>5, <2>6
<1>3. Nat \subseteq T
  <2> HIDE DEF T
  <2> QED
    BY <1>1, <1>2, SetInduction
<1>4. k \in T
  BY <1>3
<1> QED
  BY <1>4

\* Filter is what is kept of the whole sequence.
LEMMA FilterIsKept ==
    ASSUME NEW s, NEW S, Len(s) \in Nat
    PROVE  \E f : IsKept(f, s, S, Len(s)) /\ Filter(s, S) = f[Len(s)]
<1>1. \E f : IsKept(f, s, S, Len(s))
  BY KeptExists
<1>2. Filter(s, S) = (CHOOSE f : IsKept(f, s, S, Len(s)))[Len(s)]
  BY DEF Filter, IsKept
<1> QED
  BY <1>1, <1>2

LEMMA FilterEmpty ==
    ASSUME NEW S
    PROVE  Filter(<< >>, S) = << >>
<1>1. Len(<< >>) = 0 /\ 0 \in Nat
  OBVIOUS
<1>2. PICK f : IsKept(f, << >>, S, 0) /\ Filter(<< >>, S) = f[0]
  BY <1>1, FilterIsKept
<1> QED
  BY <1>1, <1>2, KeptFacts

\* Only whether the elements are in the set matters.
LEMMA FilterAgree ==
    ASSUME NEW s, NEW S, NEW R, Len(s) \in Nat,
           \A i \in 1 .. Len(s) : s[i] \in S <=> s[i] \in R
    PROVE  Filter(s, S) = Filter(s, R)
<1>1. PICK f : IsKept(f, s, S, Len(s)) /\ Filter(s, S) = f[Len(s)]
  BY FilterIsKept
<1>2. PICK g : IsKept(g, s, R, Len(s)) /\ Filter(s, R) = g[Len(s)]
  BY FilterIsKept
<1>3. f[Len(s)] = g[Len(s)]
  BY <1>1, <1>2, KeptAgree
<1> QED
  BY <1>1, <1>2, <1>3

\* One more element is kept or not.
LEMMA FilterAppend ==
    ASSUME NEW A, NEW s \in Seq(A), NEW e \in A, NEW S
    PROVE  Filter(Append(s, e), S) =
               IF e \in S THEN Append(Filter(s, S), e) ELSE Filter(s, S)
<1> DEFINE t == Append(s, e)
           n == Len(s)
<1>1. /\ n \in Nat /\ Len(t) = n + 1 /\ t[n + 1] = e
      /\ \A i \in 1 .. n : t[i] = s[i]
  BY AppendFacts
<1> HIDE DEF t
<1>2. PICK f : IsKept(f, s, S, n) /\ Filter(s, S) = f[n]
  BY <1>1, FilterIsKept
<1>3. PICK g : IsKept(g, t, S, n + 1) /\ Filter(t, S) = g[n + 1]
  <2>1. Len(t) \in Nat
    BY <1>1
  <2> QED
    BY <1>1, <2>1, FilterIsKept
<1>4. g[n + 1] = IF t[n + 1] \in S THEN Append(g[n], t[n + 1]) ELSE g[n]
  <2>1. n \in 0 .. (n + 1) - 1 /\ n + 1 \in Nat
    BY <1>1
  <2> QED
    BY <1>3, <2>1, KeptFacts
<1>5. g[n] = f[n]
  <2>1. n <= n + 1 /\ n + 1 \in Nat
    BY <1>1
  <2> HIDE DEF n
  <2> QED
    BY <1>1, <1>2, <1>3, <2>1, KeptAgree
<1>6. Filter(t, S) = IF e \in S THEN Append(Filter(s, S), e) ELSE Filter(s, S)
  BY <1>1, <1>2, <1>3, <1>4, <1>5
<1> QED
  BY <1>6 DEF t

\* The kept elements are elements of the sequence's set.
LEMMA FilterType ==
    ASSUME NEW A, NEW s \in Seq(A), NEW S
    PROVE  Filter(s, S) \in Seq(A)
<1> DEFINE k == Len(s)
<1>1. k \in Nat /\ \A i \in 1 .. k : s[i] \in A
  BY ElementOfSeq
<1>2. PICK f : IsKept(f, s, S, k) /\ Filter(s, S) = f[k]
  BY <1>1, FilterIsKept
<1> HIDE DEF k
<1> DEFINE T == {n \in Nat : n <= k => f[n] \in Seq(A)}
<1>3. 0 \in T
  <2>1. f[0] = << >>
    BY <1>1, <1>2, KeptFacts
  <2>2. << >> \in Seq(A)
    OBVIOUS
  <2> QED
    BY <2>1, <2>2
<1>4. ASSUME NEW n \in Nat, n \in T
      PROVE  n + 1 \in T
  <2>1. SUFFICES ASSUME n + 1 <= k
                 PROVE  f[n + 1] \in Seq(A)
    OBVIOUS
  <2>2. n \in 0 .. k - 1 /\ s[n + 1] \in A
    BY <1>1, <2>1
  <2>3. f[n + 1] = IF s[n + 1] \in S THEN Append(f[n], s[n + 1]) ELSE f[n]
    BY <1>1, <1>2, <2>2, KeptFacts
  <2>4. f[n] \in Seq(A)
    BY <1>1, <1>4, <2>1
  <2> QED
    BY <2>2, <2>3, <2>4
<1>5. Nat \subseteq T
  <2> HIDE DEF T
  <2> QED
    BY <1>3, <1>4, SetInduction
<1>6. k \in T
  BY <1>1, <1>5
<1> QED
  BY <1>2, <1>6

----------------------------------------------------------------------------
(* The stream implements ChatFeed.                                         *)

UpTo(n) == [i \in 1 .. n |-> i]

LEMMA UpToFacts ==
    ASSUME NEW n \in Nat
    PROVE  /\ UpTo(n) \in Seq(Nat) /\ Len(UpTo(n)) = n
           /\ \A i \in 1 .. n : UpTo(n)[i] = i
           /\ UpTo(n + 1) = Append(UpTo(n), n + 1)
<1>1. \A m \in Nat : /\ UpTo(m) \in Seq(Nat) /\ Len(UpTo(m)) = m
                     /\ \A i \in 1 .. m : UpTo(m)[i] = i
  BY DEF UpTo
<1>2. /\ Append(UpTo(n), n + 1) \in Seq(Nat)
      /\ Len(Append(UpTo(n), n + 1)) = n + 1
      /\ \A i \in 1 .. n + 1 : Append(UpTo(n), n + 1)[i] = i
  BY <1>1, AppendFacts
<1>3. UpTo(n + 1) = Append(UpTo(n), n + 1)
  <2>1. n + 1 \in Nat
    OBVIOUS
  <2> HIDE DEF UpTo
  <2>2. /\ UpTo(n + 1) \in Seq(Nat) /\ Len(UpTo(n + 1)) = n + 1
        /\ \A i \in 1 .. n + 1 : UpTo(n + 1)[i] = i
    BY <1>1, <2>1
  <2> QED
    BY <1>2, <2>2, SeqEqual
<1> QED
  BY <1>1, <1>3

\* The members of C among the first n numbers.
FirstOf(n, C) == Filter(UpTo(n), C)

LEMMA FirstOfNext ==
    ASSUME NEW n \in Nat, NEW C
    PROVE  /\ FirstOf(n, C) \in Seq(Nat)
           /\ FirstOf(n + 1, C) = IF n + 1 \in C THEN Append(FirstOf(n, C), n + 1)
                                  ELSE FirstOf(n, C)
<1> HIDE DEF UpTo
<1>0. n + 1 \in Nat
  OBVIOUS
<1>1. UpTo(n) \in Seq(Nat) /\ UpTo(n + 1) = Append(UpTo(n), n + 1) /\ n + 1 \in Nat
  BY <1>0, UpToFacts
<1>2. FirstOf(n, C) \in Seq(Nat)
  BY <1>1, FilterType DEF FirstOf
<1>3. Filter(Append(UpTo(n), n + 1), C) =
          IF n + 1 \in C THEN Append(Filter(UpTo(n), C), n + 1) ELSE Filter(UpTo(n), C)
  BY <1>1, FilterAppend
<1> QED
  BY <1>1, <1>2, <1>3 DEF FirstOf

\* Of two sets that agree on the first n numbers the same is kept.
LEMMA FirstOfAgree ==
    ASSUME NEW n \in Nat, NEW C, NEW D, \A i \in 1 .. n : i \in C <=> i \in D
    PROVE  FirstOf(n, C) = FirstOf(n, D)
<1>1. Len(UpTo(n)) = n /\ \A i \in 1 .. n : UpTo(n)[i] = i
  BY UpToFacts
<1> HIDE DEF UpTo
<1>2. /\ Len(UpTo(n)) \in Nat
      /\ \A i \in 1 .. Len(UpTo(n)) : UpTo(n)[i] \in C <=> UpTo(n)[i] \in D
  BY <1>1
<1> QED
  BY <1>2, FilterAgree DEF FirstOf

\* What is kept of the first m numbers is a prefix of what is kept of more.
LEMMA FirstOfPrefix ==
    ASSUME NEW m \in Nat, NEW n \in Nat, m <= n, NEW C
    PROVE  /\ Len(FirstOf(m, C)) <= Len(FirstOf(n, C))
           /\ \A i \in 1 .. Len(FirstOf(m, C)) : FirstOf(n, C)[i] = FirstOf(m, C)[i]
<1> DEFINE c == FirstOf(m, C)
           d(k) == FirstOf(m + k, C)
           T == {k \in Nat : /\ Len(c) <= Len(d(k))
                             /\ \A i \in 1 .. Len(c) : d(k)[i] = c[i]}
<1>1. c \in Seq(Nat) /\ Len(c) \in Nat
  BY FirstOfNext
<1>2. 0 \in T
  <2>1. m + 0 = m
    OBVIOUS
  <2> QED
    BY <1>1, <2>1
<1>3. ASSUME NEW k \in Nat, k \in T
      PROVE  k + 1 \in T
  <2>1. m + k \in Nat /\ m + (k + 1) = (m + k) + 1 /\ (m + k) + 1 \in Nat
    OBVIOUS
  <2>2. d(k) \in Seq(Nat) /\ (d(k + 1) = Append(d(k), (m + k) + 1) \/ d(k + 1) = d(k))
    BY <2>1, FirstOfNext
  <2>3. Len(c) <= Len(d(k)) /\ \A i \in 1 .. Len(c) : d(k)[i] = c[i]
    BY <1>3
  <2> HIDE DEF c, d
  <2>4. /\ Len(d(k)) \in Nat
        /\ Len(d(k)) <= Len(d(k + 1))
        /\ \A i \in 1 .. Len(d(k)) : d(k + 1)[i] = d(k)[i]
    BY <2>1, <2>2, AppendFacts
  <2> QED
    BY <1>1, <2>3, <2>4
<1>4. Nat \subseteq T
  <2> HIDE DEF T
  <2> QED
    BY <1>2, <1>3, SetInduction
<1>5. n - m \in Nat /\ m + (n - m) = n
  OBVIOUS
<1>6. n - m \in T
  BY <1>4, <1>5
<1> QED
  BY <1>5, <1>6

\* What was handed out are the chat frames among those taken.
FeedInv == Filter(delivered, Chats) = FirstOf(read, Chats)

\* What a step does to the connection: the server adds a frame, the reader
\* takes one and returns it or, if it is not chat, reads over it.
LEMMA FrameSteps ==
    ASSUME Inv, [Next]_vars
    PROVE  \/ \E k \in Kinds : ServerSends(k)
           \/ ReadEvent
           \/ Take /\ ~IsChat(Frame) /\ UNCHANGED <<sent, delivered>>
           \/ UNCHANGED <<sent, read, delivered>>
<1>1. CASE AwaitWelcome
  <2>1. ~IsChat(Frame)
    BY <1>1 DEF AwaitWelcome, Inv, TypeOK, RequestInv, Take, Unread, Frame
  <2> QED
    BY <1>1, <2>1 DEF AwaitWelcome
<1>2. CASE ReadSilent \/ ReadEnd \/ ReadPing
  BY <1>2 DEF ReadSilent, ReadEnd, ReadPing, IsChat, ChatKinds, SilentKinds
<1>3. CASE \/ \E r \in Requests : ServerGrants(r) \/ RequestEnds(r)
           \/ Connect \/ WelcomePong \/ Joined \/ Poll \/ Close
           \/ ReadPastEnd \/ SendPong \/ CancelPoll \/ DropStream
           \/ UNCHANGED vars
  BY <1>3 DEF ServerGrants, RequestEnds, Connect, WelcomePong, Joined, Poll, Close,
              ReadPastEnd, SendPong, CancelPoll, DropStream, vars
<1> QED
  BY <1>1, <1>2, <1>3 DEF Next, Client

\* A frame the server adds changes nothing about those before it.
LEMMA ChatsStay ==
    ASSUME Inv, NEW k \in Kinds, ServerSends(k)
    PROVE  /\ Len(sent) \in Nat /\ Len(sent') = Len(sent) + 1
           /\ \A i \in 1 .. Len(sent) : i \in Chats <=> i \in Chats'
           /\ Filter(delivered, Chats') = Filter(delivered, Chats)
<1>1. /\ sent \in Seq(Kinds) /\ sent' = Append(sent, k)
      /\ read \in 0 .. Len(sent) /\ delivered \in Seq(1 .. read)
  BY DEF Inv, TypeOK, ServerSends
<1>2. /\ Len(sent) \in Nat /\ Len(sent') = Len(sent) + 1
      /\ DOMAIN sent = 1 .. Len(sent) /\ DOMAIN sent' = 1 .. Len(sent) + 1
      /\ \A i \in 1 .. Len(sent) : sent'[i] = sent[i]
  BY <1>1, AppendFacts
<1>3. \A i \in 1 .. Len(sent) : i \in Chats <=> i \in Chats'
  BY <1>2 DEF Chats, IsChat
<1>4. /\ Len(delivered) \in Nat
      /\ \A j \in 1 .. Len(delivered) : delivered[j] \in 1 .. Len(sent)
  BY <1>1, <1>2, ElementOfSeq
<1>5. Filter(delivered, Chats') = Filter(delivered, Chats)
  BY <1>3, <1>4, FilterAgree
<1> QED
  BY <1>2, <1>3, <1>5

\* The next frame is chat or it is not.
LEMMA NextFrame ==
    ASSUME Inv, Take
    PROVE  /\ read \in Nat /\ read' = read + 1
           /\ read + 1 \in 1 .. Len(sent)
           /\ read + 1 \in Chats <=> IsChat(Frame)
<1>1. sent \in Seq(Kinds) /\ read \in 0 .. Len(sent) /\ read < Len(sent)
  BY DEF Inv, TypeOK, Take, Unread
<1>2. DOMAIN sent = 1 .. Len(sent) /\ Len(sent) \in Nat
  BY <1>1
<1> QED
  BY <1>1, <1>2 DEF Take, Chats, Frame

LEMMA FeedStep ==
    ASSUME Inv, FeedInv, [Next]_vars
    PROVE  FeedInv'
<1>1. ASSUME NEW k \in Kinds, ServerSends(k)
      PROVE  FeedInv'
  <2>1. read' = read /\ delivered' = delivered /\ read \in 0 .. Len(sent)
    BY <1>1 DEF ServerSends, Inv, TypeOK
  <2>2. FirstOf(read, Chats') = FirstOf(read, Chats)
    <3>1. read \in Nat /\ \A i \in 1 .. read : i \in Chats <=> i \in Chats'
      BY <1>1, <2>1, ChatsStay
    <3> QED
      BY <3>1, FirstOfAgree
  <2>3. Filter(delivered, Chats') = Filter(delivered, Chats)
    BY <1>1, ChatsStay
  <2> QED
    BY <2>1, <2>2, <2>3 DEF FeedInv
<1>2. CASE ReadEvent
  <2>1. /\ read \in Nat /\ read' = read + 1
        /\ sent' = sent /\ delivered' = Append(delivered, read + 1)
        /\ delivered \in Seq(Nat)
    <3>1. delivered \in Seq(1 .. read) /\ 1 .. read \subseteq Nat
      BY DEF Inv, TypeOK
    <3>2. delivered \in Seq(Nat)
      BY <3>1, SeqMonotonic
    <3> QED
      BY <1>2, <3>2, NextFrame DEF ReadEvent
  <2>2. Chats' = Chats
    BY <2>1 DEF Chats, IsChat
  <2>3. Filter(delivered', Chats) =
            IF read + 1 \in Chats THEN Append(Filter(delivered, Chats), read + 1)
            ELSE Filter(delivered, Chats)
    <3>1. read + 1 \in Nat
      BY <2>1
    <3> QED
      BY <2>1, <3>1, FilterAppend
  <2> QED
    BY <2>1, <2>2, <2>3, FirstOfNext DEF FeedInv
<1>3. CASE Take /\ ~IsChat(Frame) /\ UNCHANGED <<sent, delivered>>
  <2>1. Chats' = Chats
    BY <1>3 DEF Chats, IsChat
  <2>2. read \in Nat /\ read' = read + 1 /\ read + 1 \notin Chats
    BY <1>3, NextFrame
  <2>3. FirstOf(read + 1, Chats) = FirstOf(read, Chats)
    BY <2>2, FirstOfNext
  <2> QED
    BY <1>3, <2>1, <2>2, <2>3 DEF FeedInv
<1>4. CASE UNCHANGED <<sent, read, delivered>>
  <2>1. Chats' = Chats
    BY <1>4 DEF Chats, IsChat
  <2> QED
    BY <1>4, <2>1 DEF FeedInv
<1> QED
  BY <1>1, <1>2, <1>3, <1>4, FrameSteps

\* The two sequences the stream is mapped to.
feed == Filter([i \in 1 .. Len(sent) |-> i], Chats)
out == Filter(delivered, Chats)

LEMMA FeedIsFirstOf == feed = FirstOf(Len(sent), Chats)
BY DEF feed, FirstOf, UpTo

\* Every step publishes, delivers, or is none of the reader's business.
LEMMA FeedNext ==
    ASSUME Inv, FeedInv, [Next]_vars
    PROVE  [Feed!Next]_<<feed, out>>
<1> DEFINE n == Len(sent)
<1>1. ASSUME NEW k \in Kinds, ServerSends(k)
      PROVE  Feed!Publish \/ UNCHANGED <<feed, out>>
  <2>1. n \in Nat /\ Len(sent') = n + 1
    BY <1>1, ChatsStay
  <2>2. out' = out
    <3>1. delivered' = delivered
      BY <1>1 DEF ServerSends
    <3> QED
      BY <1>1, <3>1, ChatsStay DEF out
  <2>3. FirstOf(n, Chats') = feed
    BY <1>1, <2>1, ChatsStay, FirstOfAgree, FeedIsFirstOf
  <2>4. feed' = FirstOf(n + 1, Chats')
    BY <2>1 DEF feed, FirstOf, UpTo
  <2>5. feed \in Seq(Nat)
    BY <2>1, <2>3, FirstOfNext
  <2> HIDE DEF n
  <2>6. feed' = Append(feed, n + 1) \/ feed' = feed
    BY <2>1, <2>3, <2>4, FirstOfNext
  <2>7. CASE feed' = Append(feed, n + 1)
    <3>1. Len(feed') = Len(feed) + 1 /\ SubSeq(feed', 1, Len(feed)) = feed
      BY <2>1, <2>5, <2>7
    <3> QED
      BY <2>2, <3>1 DEF Feed!Publish, feed, out
  <2> QED
    BY <2>2, <2>6, <2>7
<1>2. CASE ReadEvent
  <2>1. Chats' = Chats /\ sent' = sent
    BY <1>2 DEF ReadEvent, Chats, IsChat
  <2>2. feed' = feed
    BY <2>1 DEF feed
  <2>3. out = FirstOf(read, Chats) /\ out' = FirstOf(read + 1, Chats)
    <3>1. FeedInv'
      BY FeedStep
    <3>2. read' = read + 1
      BY <1>2, NextFrame DEF ReadEvent
    <3> QED
      BY <2>1, <3>1, <3>2 DEF out, FeedInv
  <2>4. read \in Nat /\ read + 1 \in 1 .. n /\ n \in Nat
    BY <1>2, NextFrame DEF ReadEvent, Inv, TypeOK
  <2>5. CASE read + 1 \notin Chats
    <3>1. out' = out
      BY <2>3, <2>4, <2>5, FirstOfNext
    <3> QED
      BY <2>2, <3>1
  <2>6. CASE read + 1 \in Chats
    <3>1. out \in Seq(Nat) /\ out' = Append(out, read + 1)
      BY <2>3, <2>4, <2>6, FirstOfNext
    <3>2. /\ Len(out') <= Len(feed)
          /\ \A i \in 1 .. Len(out') : feed[i] = out'[i]
      <4>1. read + 1 \in Nat /\ read + 1 <= n /\ n \in Nat
        BY <2>4
      <4>2. feed = FirstOf(n, Chats)
        BY <2>4, FeedIsFirstOf
      <4> HIDE DEF n
      <4>3. /\ Len(FirstOf(read + 1, Chats)) <= Len(FirstOf(n, Chats))
            /\ \A i \in 1 .. Len(FirstOf(read + 1, Chats)) :
                  FirstOf(n, Chats)[i] = FirstOf(read + 1, Chats)[i]
        BY <4>1, FirstOfPrefix
      <4> QED
        BY <2>3, <4>2, <4>3
    <3>3. feed \in Seq(Nat)
      BY <2>4, FirstOfNext, FeedIsFirstOf
    <3>4. /\ Len(out) \in Nat /\ Len(out') = Len(out) + 1
          /\ out'[Len(out) + 1] = read + 1
      BY <2>4, <3>1, AppendFacts
    <3>5. Len(out) < Len(feed) /\ feed[Len(out) + 1] = read + 1
      BY <3>2, <3>3, <3>4
    <3>6. Feed!Deliver
      BY <2>2, <3>1, <3>5 DEF Feed!Deliver, feed, out
    <3> QED
      BY <3>6 DEF Feed!Next
  <2> QED
    BY <2>5, <2>6 DEF Feed!Next
<1>3. CASE \/ Take /\ ~IsChat(Frame) /\ UNCHANGED <<sent, delivered>>
           \/ UNCHANGED <<sent, read, delivered>>
  BY <1>3 DEF feed, out, Chats, IsChat
<1> QED
  BY <1>1, <1>2, <1>3, FrameSteps DEF Feed!Next

\* The stream implements the abstract feed: the chat notifications of the
\* session come out in the order they were published, each once and none
\* skipped, whatever else connect_chat_stream and next_event go through.
THEOREM FeedTheorem == Spec => ImplementsFeed
<1>1. Init => FeedInv /\ Feed!Init
  <2> SUFFICES ASSUME Init
               PROVE  FeedInv /\ Feed!Init
    OBVIOUS
  <2>1. delivered = << >> /\ sent = << >> /\ read = 0 /\ Len(sent) = 0
    BY DEF Init
  <2>2. UpTo(0) = << >>
    BY DEF UpTo
  <2>3. FirstOf(0, Chats) = << >> /\ Filter(delivered, Chats) = << >>
    BY <2>1, <2>2, FilterEmpty DEF FirstOf
  <2>4. feed = << >>
    BY <2>1, <2>3, FeedIsFirstOf
  <2> QED
    BY <2>1, <2>3, <2>4 DEF FeedInv, Feed!Init, feed
<1>2. Inv /\ FeedInv /\ [Next]_vars => FeedInv'
  BY FeedStep
<1>3. Inv /\ FeedInv /\ [Next]_vars => [Feed!Next]_<<feed, out>>
  BY FeedNext
<1> QED
  BY <1>1, <1>2, <1>3, Invariant, PTL DEF Spec, ImplementsFeed, Feed!Spec, feed, out
=============================================================================
