--------------------------- MODULE EventSubStream --------------------------
(***************************************************************************)
(* One EventSub chat stream, from connect_chat_stream to the last          *)
(* next_event (native.rs, with the frame decoding of eventsub.rs): the     *)
(* websocket handshake, the wait for the session welcome, the two          *)
(* subscription requests made concurrently, and the reader's loop.  The    *)
(* server sends frames, grants or refuses subscriptions, closes or breaks  *)
(* the connection at any moment; the task that owns the stream may drop    *)
(* any of these futures at an await.                                       *)
(***************************************************************************)
EXTENDS Naturals, Sequences, FiniteSets

CONSTANTS
    Kinds,       \* frame kinds the server uses
    MaxFrames,   \* bound on frames, the welcome and the last one not counted
    MaxCancels   \* bound on dropped futures

\* Text frames that next_event turns into an event of the stream.
EventKinds == {"chat", "delete", "keepalive", "reconnect", "disconnect", "revocation"}
\* Text frames it reads over: a second welcome, a reconnect without URL, a
\* notification of another type or whose event does not deserialize.
SilentKinds == {"welcome", "badWelcome", "reconnectNoUrl", "garbled"}
\* "unknown": a text frame that does not parse, or of an unsupported type.
\* "other": pong, binary and raw frames.
ControlKinds == {"ping", "other", "unknown"}
\* The last frame of a connection: a close frame, or a transport error.
FinalKinds == {"close", "reset"}
ChatKinds == {"chat", "delete"}
AllKinds == EventKinds \cup SilentKinds \cup ControlKinds \cup FinalKinds

ASSUME StreamAssumption ==
    /\ Kinds \subseteq AllKinds
    /\ {"welcome", "close"} \subseteq Kinds
    /\ MaxFrames \in Nat
    /\ MaxCancels \in Nat

VARIABLES
    pc,          \* where the owner of the stream is
    sent,        \* every frame the connection yields, oldest first
    read,        \* how many of them the client has taken
    delivered,   \* indices of the frames returned as events
    req,         \* the two subscription requests
    subs,        \* server: subscriptions of the session
    granted,     \* history: the chat message subscription was created
    result,      \* what the last next_event returned
    closing,     \* the owner has sent a close frame
    cancels      \* futures dropped so far

vars == <<pc, sent, read, delivered, req, subs, granted, result, closing, cancels>>

Requests == {"message", "delete"}
Connecting == {"connect", "welcome", "welcomePong", "subscribe"}
Reading == {"polling", "pong"}
Gone == {"failed", "dropped"}

TypeOK ==
    /\ pc \in Connecting \cup Reading \cup {"ready"} \cup Gone
    /\ sent \in Seq(Kinds)
    /\ read \in 0 .. Len(sent)
    /\ delivered \in Seq(1 .. read)
    /\ req \in [Requests -> {"none", "pending", "created", "ok", "err"}]
    /\ subs \subseteq Requests
    /\ granted \in BOOLEAN
    /\ result \in {"nothing", "event", "none", "error"}
    /\ closing \in BOOLEAN
    /\ cancels \in Nat

Init ==
    /\ pc = "connect"
    /\ sent = << >>
    /\ read = 0
    /\ delivered = << >>
    /\ req = [r \in Requests |-> "none"]
    /\ subs = {}
    /\ granted = FALSE
    /\ result = "nothing"
    /\ closing = FALSE
    /\ cancels = 0

----------------------------------------------------------------------------
(* The server.                                                             *)

\* The connection has yielded its last frame.
Finished == sent # << >> /\ sent[Len(sent)] \in FinalKinds

Count(k) == Cardinality({i \in DOMAIN sent : sent[i] = k})

\* The server sends a frame while the client holds the connection.  It greets
\* a session once, and notifies only the subscriptions the session has.
ServerSends(k) ==
    /\ pc \notin Gone \cup {"connect"}
    /\ ~Finished
    /\ k = "welcome" => Count("welcome") = 0
    /\ k \notin FinalKinds \cup {"welcome"} => Len(sent) < MaxFrames + Count("welcome")
    /\ k = "chat" => "message" \in subs
    /\ k = "delete" => "delete" \in subs
    /\ k = "revocation" => "message" \in subs
    /\ sent' = Append(sent, k)
    /\ subs' = IF k = "revocation" THEN subs \ {"message"} ELSE subs
    /\ UNCHANGED <<pc, read, delivered, req, granted, result, cancels, closing>>

\* The server creates a requested subscription (status 202).
ServerGrants(r) ==
    /\ req[r] = "pending"
    /\ ~Finished
    /\ req' = [req EXCEPT ![r] = "created"]
    /\ subs' = subs \cup {r}
    /\ granted' = (granted \/ r = "message")
    /\ UNCHANGED <<pc, sent, read, delivered, result, cancels, closing>>

----------------------------------------------------------------------------
(* connect_chat_stream.                                                    *)

\* connect_eventsub_websocket opens the connection, or fails.
Connect ==
    /\ pc = "connect"
    /\ pc' \in {"welcome", "failed"}
    /\ UNCHANGED <<sent, read, delivered, req, subs, granted, result, cancels, closing>>

\* The next frame, if the connection has one.
Unread == read < Len(sent)
Frame == sent[read + 1]
Take == Unread /\ read' = read + 1

\* wait_for_session_welcome takes one frame: the welcome starts the two
\* requests of create_chat_subscription, a reconnect, a disconnect, a frame
\* that does not decode or the end of the connection fails the connect, and
\* any other frame is read over.
AwaitWelcome ==
    /\ pc = "welcome"
    /\ Take
    /\ \/ /\ Frame = "welcome"
          /\ pc' = "subscribe"
          /\ req' = [r \in Requests |-> "pending"]
       \/ /\ Frame \in {"badWelcome", "reconnect", "reconnectNoUrl", "disconnect",
                        "unknown", "close", "reset"}
          /\ pc' = "failed"
          /\ UNCHANGED req
       \/ /\ Frame = "ping"
          /\ pc' = "welcomePong"
          /\ UNCHANGED req
       \/ /\ Frame \in {"keepalive", "chat", "delete", "revocation", "garbled", "other"}
          /\ UNCHANGED <<pc, req>>
    /\ UNCHANGED <<sent, delivered, subs, granted, result, cancels, closing>>

\* The Pong that answers a Ping before the welcome, or its failure.
WelcomePong ==
    /\ pc = "welcomePong"
    /\ pc' \in {"welcome", "failed"}
    /\ UNCHANGED <<sent, read, delivered, req, subs, granted, result, cancels, closing>>

\* Mutant of RequestEnds: a request that failed is sent again, without end.
RequestEndsRetried(r) ==
    /\ \/ req[r] = "created" /\ req' = [req EXCEPT ![r] = "ok"]
       \/ req[r] \in {"pending", "created"} /\ req' = [req EXCEPT ![r] = "pending"]
    /\ UNCHANGED <<pc, sent, read, delivered, subs, granted, result, cancels, closing>>

\* One of the two create_subscription calls ends: with the 202 it was sent,
\* or with an error - another status, or a request or reply that was lost.
RequestEnds(r) ==
    /\ \/ req[r] = "created" /\ req' = [req EXCEPT ![r] = "ok"]
       \/ req[r] \in {"pending", "created"} /\ req' = [req EXCEPT ![r] = "err"]
    /\ UNCHANGED <<pc, sent, read, delivered, subs, granted, result, cancels, closing>>

\* Mutants of Joined: any request suffices; try_join, which gives up at the
\* first error; both requests are needed.
JoinedOnAny ==
    /\ pc = "subscribe"
    /\ \A r \in Requests : req[r] \in {"ok", "err"}
    /\ pc' = IF \E r \in Requests : req[r] = "ok" THEN "ready" ELSE "failed"
    /\ UNCHANGED <<sent, read, delivered, req, subs, granted, result, cancels, closing>>

JoinedEarly ==
    /\ pc = "subscribe"
    /\ \/ req["message"] = "err" /\ pc' = "failed"
       \/ \A r \in Requests : req[r] \in {"ok", "err"} /\ pc' = "ready"
    /\ UNCHANGED <<sent, read, delivered, req, subs, granted, result, cancels, closing>>

JoinedOnBoth ==
    /\ pc = "subscribe"
    /\ \A r \in Requests : req[r] \in {"ok", "err"}
    /\ pc' = IF \A r \in Requests : req[r] = "ok" THEN "ready" ELSE "failed"
    /\ UNCHANGED <<sent, read, delivered, req, subs, granted, result, cancels, closing>>

\* tokio::join! has both results: the message subscription decides, a failed
\* delete subscription is only logged.
Joined ==
    /\ pc = "subscribe"
    /\ \A r \in Requests : req[r] \in {"ok", "err"}
    /\ pc' = IF req["message"] = "ok" THEN "ready" ELSE "failed"
    /\ UNCHANGED <<sent, read, delivered, req, subs, granted, result, cancels, closing>>

----------------------------------------------------------------------------
(* next_event.                                                             *)

Return(res) == pc' = "ready" /\ result' = res

\* The reader asks for the next event.
Poll ==
    /\ pc = "ready"
    /\ pc' = "polling"
    /\ UNCHANGED <<sent, read, delivered, req, subs, granted, result, cancels, closing>>

\* Mutant of ReadEvent: the frame is looked at and left in the connection.
ReadEventPeeks ==
    /\ pc = "polling"
    /\ Unread
    /\ Frame \in EventKinds
    /\ delivered' = Append(delivered, read + 1)
    /\ Return("event")
    /\ UNCHANGED <<sent, read, req, subs, granted, cancels, closing>>

\* A text frame that is an event is returned.
ReadEvent ==
    /\ pc = "polling"
    /\ Take
    /\ Frame \in EventKinds
    /\ delivered' = Append(delivered, read + 1)
    /\ Return("event")
    /\ UNCHANGED <<sent, req, subs, granted, cancels, closing>>

\* A frame that is no event is read over and the loop goes on.
ReadSilent ==
    /\ pc = "polling"
    /\ Take
    /\ Frame \in SilentKinds \cup {"other"}
    /\ UNCHANGED <<pc, sent, delivered, req, subs, granted, result, cancels, closing>>

\* Mutant of ReadEnd: after an error the frames received so far are dropped.
ReadEndDiscards ==
    /\ pc = "polling"
    /\ Unread
    /\ \/ Frame \in {"unknown", "reset"} /\ Return("error") /\ read' = Len(sent)
       \/ Frame = "close" /\ Return("none") /\ read' = read + 1
    /\ UNCHANGED <<sent, delivered, req, subs, granted, cancels, closing>>

\* A text frame that does not decode, or a transport error, ends the call
\* with Err; a close frame ends it with None.
ReadEnd ==
    /\ pc = "polling"
    /\ Take
    /\ \/ Frame \in {"unknown", "reset"} /\ Return("error")
       \/ Frame = "close" /\ Return("none")
    /\ UNCHANGED <<sent, delivered, req, subs, granted, cancels, closing>>

\* Mutant of ReadPastEnd: the end of the stream is an error.
ReadPastEndFails ==
    /\ pc = "polling"
    /\ Finished /\ ~Unread
    /\ Return("error")
    /\ UNCHANGED <<sent, read, delivered, req, subs, granted, cancels, closing>>

\* Past its last frame the connection yields nothing any more.
ReadPastEnd ==
    /\ pc = "polling"
    /\ Finished /\ ~Unread
    /\ Return("none")
    /\ UNCHANGED <<sent, read, delivered, req, subs, granted, cancels, closing>>

\* Mutant of ReadPing: the Ping stays in front.
ReadPingAgain ==
    /\ pc = "polling"
    /\ Unread
    /\ Frame = "ping"
    /\ pc' = "pong"
    /\ UNCHANGED <<sent, read, delivered, req, subs, granted, result, cancels, closing>>

\* A Ping is answered before the next frame is read.
ReadPing ==
    /\ pc = "polling"
    /\ Take
    /\ Frame = "ping"
    /\ pc' = "pong"
    /\ UNCHANGED <<sent, delivered, req, subs, granted, result, cancels, closing>>

\* The Pong is sent and the loop goes on, or it cannot be sent - as always
\* after a close frame.
SendPong ==
    /\ pc = "pong"
    /\ \/ ~closing /\ pc' = "polling" /\ UNCHANGED result
       \/ Return("error")
    /\ UNCHANGED <<sent, read, delivered, req, subs, granted, cancels, closing>>

\* close sends a close frame; the stream can still be read.  A second close,
\* or one on an ended connection, fails without effect.
Close ==
    /\ pc = "ready"
    /\ ~closing /\ ~(Finished /\ ~Unread)
    /\ closing' = TRUE
    /\ UNCHANGED <<pc, sent, read, delivered, req, subs, granted, result, cancels>>

----------------------------------------------------------------------------
(* Dropped futures.                                                        *)

\* Mutant of CancelPoll: a frame already taken is lost with the future.
CancelPollLosesFrame ==
    /\ pc \in Reading
    /\ cancels < MaxCancels
    /\ cancels' = cancels + 1
    /\ pc' = "ready"
    /\ read' = IF Unread THEN read + 1 ELSE read
    /\ UNCHANGED <<sent, delivered, req, subs, granted, result, closing>>

\* The reader drops next_event at one of its awaits, as a select does.
CancelPoll ==
    /\ pc \in Reading
    /\ cancels < MaxCancels
    /\ cancels' = cancels + 1
    /\ pc' = "ready"
    /\ UNCHANGED <<sent, read, delivered, req, subs, granted, result, closing>>

\* The owner drops connect_chat_stream, or the stream: the websocket goes, and
\* with it the subscriptions of the session.
DropStream ==
    /\ pc \notin Gone \cup {"connect"}
    /\ cancels < MaxCancels
    /\ cancels' = cancels + 1
    /\ pc' = "dropped"
    /\ req' = [r \in Requests |-> IF req[r] \in {"pending", "created"} THEN "err"
                                  ELSE req[r]]
    /\ subs' = {}
    /\ UNCHANGED <<sent, read, delivered, granted, result, closing>>

----------------------------------------------------------------------------
Client ==
    \/ Connect \/ AwaitWelcome \/ WelcomePong \/ Joined
    \/ \E r \in Requests : RequestEnds(r)
    \/ ReadEvent \/ ReadSilent \/ ReadEnd \/ ReadPastEnd \/ ReadPing \/ SendPong

Next ==
    \/ \E k \in Kinds : ServerSends(k)
    \/ \E r \in Requests : ServerGrants(r)
    \/ Client
    \/ Poll \/ Close
    \/ CancelPoll
    \/ DropStream

Spec == Init /\ [][Next]_vars

\* Assumed of the server: it greets a session or closes it, and answers a
\* close frame.
ServerGreets == Count("welcome") = 0 /\ (ServerSends("welcome") \/ ServerSends("close"))
ServerIsLive == WF_vars(ServerGreets) /\ WF_vars(closing /\ ServerSends("close"))

\* Required of the caller: the Client it passes to connect_chat_stream has a
\* timeout, so that both requests end.  connect_chat_stream sets none, and
\* neither does Client::new().
ClientHasTimeout == \A r \in Requests : WF_vars(RequestEnds(r))

\* The runtime polls what is ready and the reader keeps asking.  Opening the
\* websocket is not fair: connect_async has no timeout.
RuntimePolls ==
    /\ WF_vars(AwaitWelcome) /\ WF_vars(WelcomePong) /\ WF_vars(Joined)
    /\ WF_vars(ReadEvent \/ ReadSilent \/ ReadEnd \/ ReadPastEnd \/ ReadPing)
    /\ WF_vars(SendPong)
    /\ WF_vars(Poll)

Fairness == RuntimePolls /\ ServerIsLive /\ ClientHasTimeout

FairSpec == Spec /\ Fairness

----------------------------------------------------------------------------
(* Properties.                                                             *)

IsChat(k) == k \in ChatKinds

\* Every chat notification the client has read has been delivered, none
\* twice, in the order they were sent: neither the wait for the welcome, nor
\* the subscription requests, nor pings, errors and dropped calls lose one.
ChatComplete ==
    /\ \A i \in 1 .. read : IsChat(sent[i]) => \E j \in DOMAIN delivered : delivered[j] = i
    /\ \A i, j \in DOMAIN delivered : i < j => delivered[i] < delivered[j]

\* A stream is handed out only after the server created the chat message
\* subscription for its session.
ReadyMeansSubscribed == pc \in Reading \cup {"ready"} => granted

\* connect_chat_stream returns only when both requests have ended, whatever
\* the first one's result: no request is left running behind the caller.
NoRequestLeftRunning ==
    pc # "subscribe" => \A r \in Requests : req[r] \notin {"pending", "created"}

\* A chat message subscription that succeeded is never given up because of
\* the delete subscription.
DeleteIsBestEffort == pc = "failed" => req["message"] # "ok"

\* A connect whose websocket is open ends: with a stream, an error, or dropped.
\* It waits for the welcome only as long as the server neither greets nor
\* closes, and for its two requests as long as the caller's client lets them
\* run: it rests on ServerIsLive and ClientHasTimeout.
ConnectSettles == pc \in Connecting \ {"connect"} ~> pc \notin Connecting

\* A chat notification on the wire reaches the reader, past whatever pings,
\* unknown frames and dropped calls, unless the owner gives the stream up.  For
\* one that arrives while the delete request is under way this rests on
\* ClientHasTimeout.
ChatReachesReader ==
    \A i \in 1 .. MaxFrames + 1 :
        (i \in DOMAIN sent /\ IsChat(sent[i]))
            ~> (pc \in Gone \/ \E j \in DOMAIN delivered : delivered[j] = i)

\* After close the reader gets to the end of the stream: None, past whatever
\* was still on the wire.
CloseDrains == closing ~> (result = "none" \/ pc \in Gone)

\* The elements of a sequence that are in S, in their order: SelectSeq, as a
\* recursive function that can be proved about.
Filter(s, S) ==
    LET kept[n \in 0 .. Len(s)] ==
            IF n = 0 THEN << >>
            ELSE IF s[n] \in S THEN Append(kept[n - 1], s[n])
            ELSE kept[n - 1]
    IN  kept[Len(s)]

\* The stream implements the abstract feed: published are the chat frames
\* sent, handed out the chat frames returned.
Chats == {i \in DOMAIN sent : IsChat(sent[i])}
Feed == INSTANCE ChatFeed WITH
            feed <- Filter([i \in 1 .. Len(sent) |-> i], Chats),
            out <- Filter(delivered, Chats)
ImplementsFeed == Feed!Spec
============================================================================
