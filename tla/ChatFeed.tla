----------------------------- MODULE ChatFeed ------------------------------
(***************************************************************************)
(* What a connected EventSubChatStream promises its reader: the chat       *)
(* notifications the server published to the session come out in the order *)
(* they were published, each once.  Nothing is skipped.  Frames,           *)
(* subscriptions, pings and errors do not appear.                          *)
(***************************************************************************)
EXTENDS Naturals, Sequences

VARIABLES
    feed,   \* notifications published to the session, oldest first
    out     \* notifications handed to the reader

Init == feed = << >> /\ out = << >>

\* The server publishes one more notification.
Publish ==
    /\ Len(feed') = Len(feed) + 1
    /\ SubSeq(feed', 1, Len(feed)) = feed
    /\ UNCHANGED out

\* The reader gets the oldest notification it has not had.
Deliver ==
    /\ Len(out) < Len(feed)
    /\ out' = Append(out, feed[Len(out) + 1])
    /\ UNCHANGED feed

Next == Publish \/ Deliver

Spec == Init /\ [][Next]_<<feed, out>>
============================================================================
