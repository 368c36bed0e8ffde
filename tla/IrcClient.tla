----------------------------- MODULE IrcClient -----------------------------
(***************************************************************************)
(* A Twitch IRC client (irc.rs), from connect to close, over the two       *)
(* implementations of TwitchIrcApi: TwitchIrcClient on a TCP connection,   *)
(* whose every await is a step, and InMemoryTwitchIrcClient, whose         *)
(* operations are atomic.  A write may stop in the middle of a line,       *)
(* because it fails or because its future is dropped, and a read may be    *)
(* dropped in the middle of a line; what was read of it is then lost.  The *)
(* server may close the connection in the middle of a line as well.        *)
(***************************************************************************)
EXTENDS Naturals, Sequences, FiniteSets

CONSTANTS
    Capabilities,  \* request_capabilities of the configuration
    MaxLines,      \* bound on lines the server sends
    MaxRaws,       \* bound on send_raw calls
    MaxCloses,     \* bound on close calls
    MaxCancels     \* bound on dropped futures

ASSUME IrcAssumption ==
    /\ Capabilities \in BOOLEAN
    /\ {MaxLines, MaxRaws, MaxCloses, MaxCancels} \subseteq Nat

VARIABLES
    client,    \* which implementation this is
    inbound,   \* lines the server sent, oldest first
    ended,     \* how the server's side of the connection stands
    taken,     \* how many of the lines the client has taken
    buffer,    \* "head": the pending read holds the head of the next line
    torn,      \* history: lines whose head was lost with a dropped read
    events,    \* events returned by next_event
    wire,      \* lines the client sent: each a sequence of pieces
    partial,   \* pieces sent since the last end of line
    pc,        \* where the owner of the client is
    op,        \* the operation that writes
    todo,      \* commands it still has to write, the current one first
    half,      \* how far the current command is written
    broken,    \* a write has failed: the connection takes no more
    closed,    \* the client's own flag
    raws,      \* send_raw calls so far
    closes,    \* close calls so far
    cancels    \* futures dropped so far

inVars == <<inbound, ended>>
readVars == <<taken, buffer, torn, events>>
outVars == <<wire, partial, half, broken>>
callVars == <<pc, op, todo>>
countVars == <<raws, closes, cancels>>
vars == <<client, inVars, readVars, outVars, callVars, closed, countVars>>

\* What parse_line tells apart: PING comes first, also in raw mode; privmsg
\* stands for every other event.  A blank line is read over, and a garbled one,
\* which is not UTF-8, is an error of read_line.
Kinds == {"privmsg", "ping", "blank", "garbled"}
Commands == {"PASS", "NICK", "CAP", "JOIN", "RAW", "PART", "QUIT"}

Pong(i) == [cmd |-> "PONG", of |-> i]
Say(c) == [cmd |-> c, of |-> 0]
Piece(c, w) == [text |-> c, whole |-> w]

Messages == [cmd : Commands \cup {"PONG"}, of : Nat]
Pieces == [text : Messages, whole : BOOLEAN]
Events == [line : Nat, kind : Kinds]

InTypes ==
    /\ client \in {"tcp", "memory"}
    /\ inbound \in Seq(Kinds)
    /\ ended \in {"open", "eof", "reset"}
    /\ taken \in 0 .. Len(inbound)
    /\ buffer \in {"none", "head"}
    /\ torn \subseteq 1 .. Len(inbound)
    /\ events \in Seq(Events)

OutTypes ==
    /\ wire \in Seq(Seq(Pieces))
    /\ partial \in Seq(Pieces)
    /\ half \in {"none", "part", "text"}
    /\ broken \in BOOLEAN
    /\ pc \in {"idle", "reading", "writing", "shutdown", "gone"}
    /\ op \in {"none", "connect", "pong", "raw", "close"}
    /\ todo \in Seq(Messages)
    /\ closed \in BOOLEAN
    /\ {raws, closes, cancels} \subseteq Nat

TypeOK == InTypes /\ OutTypes

connect_commands ==
    <<Say("PASS"), Say("NICK")>> \o (IF Capabilities THEN <<Say("CAP")>> ELSE << >>)
        \o <<Say("JOIN")>>

disconnect_commands == <<Say("PART"), Say("QUIT")>>

\* Lines as sent whole.
Whole(cs) == [i \in 1 .. Len(cs) |-> <<Piece(cs[i], TRUE)>>]

Init ==
    /\ inbound = << >> /\ ended = "open"
    /\ taken = 0 /\ buffer = "none" /\ torn = {} /\ events = << >>
    /\ partial = << >> /\ half = "none" /\ broken = FALSE
    /\ closed = FALSE
    /\ raws = 0 /\ closes = 0 /\ cancels = 0
    /\ \/ /\ client = "tcp"
          /\ wire = << >>
          /\ pc = "writing" /\ op = "connect" /\ todo = connect_commands
       \/ /\ client = "memory"
          /\ wire = Whole(connect_commands)
          /\ pc = "idle" /\ op = "none" /\ todo = << >>

----------------------------------------------------------------------------
(* The server, and the test that feeds the in-memory client.               *)

Joined == pc \notin {"gone"} /\ op # "connect"

\* The in-memory client is fed strings, which are UTF-8.
ServerSends(k) ==
    /\ Joined
    /\ ended = "open"
    /\ k = "garbled" => client = "tcp"
    /\ Len(inbound) < MaxLines
    /\ inbound' = Append(inbound, k)
    /\ UNCHANGED <<client, ended, readVars, outVars, callVars, closed, countVars>>

\* The server closes its side in the middle of a line.  read_line yields what
\* there is of it like any other line, and k is what that looks like.
ServerCuts(k) ==
    /\ Joined
    /\ client = "tcp"
    /\ ended = "open"
    /\ Len(inbound) < MaxLines
    /\ inbound' = Append(inbound, k)
    /\ ended' = "eof"
    /\ UNCHANGED <<client, readVars, outVars, callVars, closed, countVars>>

\* The server closes its side after a whole line, or the connection is reset.
ServerEnds(how) ==
    /\ Joined
    /\ client = "tcp"
    /\ ended = "open"
    /\ ended' = how
    /\ UNCHANGED <<client, inbound, readVars, outVars, callVars, closed, countVars>>

----------------------------------------------------------------------------
(* next_event over TCP.                                                    *)

\* A closed client returns None and reads nothing: then there is no step.
Poll ==
    /\ client = "tcp" /\ pc = "idle" /\ ~closed
    /\ pc' = "reading"
    /\ UNCHANGED <<client, inVars, readVars, outVars, op, todo, closed, countVars>>

Unread == taken < Len(inbound)
Next1 == taken + 1

\* read_line has the head of a line and waits for the rest.
ReadHead ==
    /\ client = "tcp" /\ pc = "reading" /\ buffer = "none" /\ Unread
    /\ buffer' = "head"
    /\ UNCHANGED <<client, inVars, taken, torn, events, outVars, callVars, closed,
                   countVars>>

\* What the rest of a line looks like once its head is lost: its text may be
\* torn anywhere, inside a character too.
Tails(k) == IF k = "blank" THEN {"blank"} ELSE Kinds

Seen(i) == IF i \in torn THEN Tails(inbound[i]) ELSE {inbound[i]}

Event(i, k) == [line |-> i, kind |-> k]

\* Mutants of ReadLine: a PING is returned without a PONG; a blank line takes
\* the line after it along.
ReadLineNoPong ==
    /\ client = "tcp" /\ pc = "reading" /\ Unread
    /\ taken' = Next1
    /\ buffer' = "none"
    /\ \E k \in Seen(Next1) :
          \/ /\ k = "blank"
             /\ UNCHANGED <<events, callVars>>
          \/ /\ k = "garbled"
             /\ pc' = "idle"
             /\ UNCHANGED <<events, op, todo>>
          \/ /\ k \in {"privmsg", "ping"}
             /\ events' = Append(events, Event(Next1, k))
             /\ pc' = "idle"
             /\ UNCHANGED <<op, todo>>
    /\ UNCHANGED <<client, inVars, torn, outVars, closed, countVars>>

ReadLineSkipsNext ==
    /\ client = "tcp" /\ pc = "reading" /\ Unread
    /\ buffer' = "none"
    /\ \E k \in Seen(Next1) :
          \/ /\ k = "blank"
             /\ taken' = IF Next1 < Len(inbound) THEN Next1 + 1 ELSE Next1
             /\ UNCHANGED <<events, callVars>>
          \/ /\ k = "garbled"
             /\ taken' = Next1
             /\ pc' = "idle"
             /\ UNCHANGED <<events, op, todo>>
          \/ /\ k = "privmsg"
             /\ taken' = Next1
             /\ events' = Append(events, Event(Next1, k))
             /\ pc' = "idle"
             /\ UNCHANGED <<op, todo>>
          \/ /\ k = "ping"
             /\ taken' = Next1
             /\ pc' = "writing" /\ op' = "pong" /\ todo' = <<Pong(Next1)>>
             /\ UNCHANGED events
    /\ UNCHANGED <<client, inVars, torn, outVars, closed, countVars>>

\* read_line has a whole line, the whole rest of it, or an unfinished line at
\* the end: a blank one is read over, one that is not UTF-8 is lost with an
\* error, a PING is answered before its event is returned, and anything else
\* is returned as an event.
ReadLine ==
    /\ client = "tcp" /\ pc = "reading" /\ Unread
    /\ taken' = Next1
    /\ buffer' = "none"
    /\ \E k \in Seen(Next1) :
          \/ /\ k = "blank"
             /\ UNCHANGED <<events, callVars>>
          \/ /\ k = "garbled"
             /\ pc' = "idle"
             /\ UNCHANGED <<events, op, todo>>
          \/ /\ k = "privmsg"
             /\ events' = Append(events, Event(Next1, k))
             /\ pc' = "idle"
             /\ UNCHANGED <<op, todo>>
          \/ /\ k = "ping"
             /\ pc' = "writing" /\ op' = "pong" /\ todo' = <<Pong(Next1)>>
             /\ UNCHANGED events
    /\ UNCHANGED <<client, inVars, torn, outVars, closed, countVars>>

\* Past the last line the call returns None, or the error of a reset.
ReadEnd ==
    /\ client = "tcp" /\ pc = "reading" /\ ~Unread /\ ended \in {"eof", "reset"}
    /\ pc' = "idle"
    /\ UNCHANGED <<client, inVars, readVars, outVars, op, todo, closed, countVars>>

----------------------------------------------------------------------------
(* send_line: the text, which may go out in parts, then the line end.      *)

SendRaw ==
    /\ client = "tcp" /\ pc = "idle" /\ ~closed
    /\ raws < MaxRaws
    /\ raws' = raws + 1
    /\ pc' = "writing" /\ op' = "raw" /\ todo' = <<Say("RAW")>>
    /\ UNCHANGED <<client, inVars, readVars, outVars, closed, closes, cancels>>

Close ==
    /\ client = "tcp" /\ pc = "idle" /\ ~closed
    /\ closes < MaxCloses
    /\ closes' = closes + 1
    /\ pc' = "writing" /\ op' = "close" /\ todo' = disconnect_commands
    /\ UNCHANGED <<client, inVars, readVars, outVars, closed, raws, cancels>>

WriteText ==
    /\ pc = "writing" /\ half = "none" /\ ~broken
    /\ \E w \in BOOLEAN :
          /\ partial' = Append(partial, Piece(Head(todo), w))
          /\ half' = IF w THEN "text" ELSE "part"
    /\ UNCHANGED <<client, inVars, readVars, wire, broken, callVars, closed, countVars>>

WriteRest ==
    /\ pc = "writing" /\ half = "part" /\ ~broken
    /\ partial' = [partial EXCEPT ![Len(partial)].whole = TRUE]
    /\ half' = "text"
    /\ UNCHANGED <<client, inVars, readVars, wire, broken, callVars, closed, countVars>>

\* Mutant of Written: an answered PING is read over, as a blank line is.
WrittenReadsOn ==
    /\ todo' = Tail(todo)
    /\ pc' = IF Len(todo) > 1 THEN "writing"
             ELSE CASE op = "close" -> "shutdown" [] op = "pong" -> "reading"
                    [] OTHER -> "idle"
    /\ op' = IF pc' \in {"idle", "reading"} THEN "none" ELSE op
    /\ UNCHANGED events

\* What follows a line: the next command, the shutdown after QUIT, or the end
\* of the operation, which for a PONG returns the event of its PING.
Written ==
    /\ todo' = Tail(todo)
    /\ pc' = IF Len(todo) > 1 THEN "writing"
             ELSE IF op = "close" THEN "shutdown" ELSE "idle"
    /\ op' = IF pc' = "idle" THEN "none" ELSE op
    /\ events' = IF op = "pong" THEN Append(events, Event(Head(todo).of, "ping")) ELSE events

WriteEnd ==
    /\ pc = "writing" /\ half = "text" /\ ~broken
    /\ wire' = Append(wire, partial)
    /\ partial' = << >>
    /\ half' = "none"
    /\ Written
    /\ UNCHANGED <<client, inVars, taken, buffer, torn, broken, closed, countVars>>

\* Where an operation that fails or is dropped leaves its owner: without a
\* client if it was connect, else with one whose flag close has not set.
Abandoned ==
    /\ pc' = IF op = "connect" THEN "gone" ELSE "idle"
    /\ op' = "none"
    /\ todo' = << >>
    /\ half' = "none"

\* Mutant of WriteFails: a close that fails sets the flag nevertheless.
WriteFailsClosed ==
    /\ pc = "writing"
    /\ broken' = TRUE
    /\ Abandoned
    /\ closed' = (op = "close")
    /\ UNCHANGED <<client, inVars, readVars, wire, partial, countVars>>

\* A write fails, and the operation returns its error.
WriteFails ==
    /\ pc = "writing"
    /\ broken' = TRUE
    /\ Abandoned
    /\ UNCHANGED <<client, inVars, readVars, wire, partial, closed, countVars>>

\* close shuts the writing side down and only then sets its flag.
Shutdown ==
    /\ pc = "shutdown"
    /\ closed' = TRUE
    /\ pc' = "idle" /\ op' = "none"
    /\ UNCHANGED <<client, inVars, readVars, outVars, todo, countVars>>

ShutdownFails ==
    /\ pc = "shutdown"
    /\ broken' = TRUE
    /\ Abandoned
    /\ UNCHANGED <<client, inVars, readVars, wire, partial, closed, countVars>>

----------------------------------------------------------------------------
(* Dropped futures.                                                        *)

\* The buffer belongs to the call: the head of a line goes with it.
CancelRead ==
    /\ pc = "reading"
    /\ cancels < MaxCancels
    /\ cancels' = cancels + 1
    /\ pc' = "idle"
    /\ torn' = IF buffer = "head" THEN torn \cup {Next1} ELSE torn
    /\ buffer' = "none"
    /\ UNCHANGED <<client, inVars, taken, events, outVars, op, todo, closed, raws,
                   closes>>

\* A write stops where it is.
CancelWrite ==
    /\ pc \in {"writing", "shutdown"}
    /\ cancels < MaxCancels
    /\ cancels' = cancels + 1
    /\ Abandoned
    /\ UNCHANGED <<client, inVars, readVars, wire, partial, broken, closed, raws,
                   closes>>

----------------------------------------------------------------------------
(* The in-memory client.                                                   *)

\* next_event takes a line if there is one, closed or not.
MemoryNext ==
    /\ client = "memory" /\ Unread
    /\ taken' = Next1
    /\ events' = Append(events, Event(Next1, inbound[Next1]))
    /\ wire' = IF inbound[Next1] = "ping" THEN Append(wire, <<Piece(Pong(Next1), TRUE)>>)
               ELSE wire
    /\ UNCHANGED <<client, inVars, buffer, torn, partial, half, broken, callVars, closed,
                   countVars>>

MemorySendRaw ==
    /\ client = "memory" /\ ~closed
    /\ raws < MaxRaws
    /\ raws' = raws + 1
    /\ wire' = Append(wire, <<Piece(Say("RAW"), TRUE)>>)
    /\ UNCHANGED <<client, inVars, readVars, partial, half, broken, callVars, closed,
                   closes, cancels>>

MemoryClose ==
    /\ client = "memory" /\ ~closed
    /\ closes < MaxCloses
    /\ closes' = closes + 1
    /\ wire' = wire \o Whole(disconnect_commands)
    /\ closed' = TRUE
    /\ UNCHANGED <<client, inVars, readVars, partial, half, broken, callVars, raws,
                   cancels>>

----------------------------------------------------------------------------
Reading == ReadHead \/ ReadLine \/ ReadEnd
Writing == WriteText \/ WriteRest \/ WriteEnd \/ WriteFails \/ Shutdown \/ ShutdownFails

Next ==
    \/ \E k \in Kinds : ServerSends(k) \/ ServerCuts(k)
    \/ \E how \in {"eof", "reset"} : ServerEnds(how)
    \/ Poll \/ SendRaw \/ Close
    \/ Reading \/ Writing
    \/ CancelRead \/ CancelWrite
    \/ MemoryNext \/ MemorySendRaw \/ MemoryClose

Spec == Init /\ [][Next]_vars

\* The reader keeps asking, the runtime polls what is ready, and a socket
\* takes what is written or fails.
Fairness ==
    /\ WF_vars(Poll)
    /\ WF_vars(ReadLine \/ ReadEnd)
    /\ WF_vars(WriteText) /\ WF_vars(WriteRest \/ WriteEnd \/ WriteFails)
    /\ WF_vars(Shutdown \/ ShutdownFails)
    /\ WF_vars(MemoryNext)

FairSpec == Spec /\ Fairness

----------------------------------------------------------------------------
(* Properties.                                                             *)

Sent(c) == \E j \in DOMAIN wire : \E p \in DOMAIN wire[j] : wire[j][p] = Piece(c, TRUE)
Damaged == {j \in DOMAIN wire : ~(Len(wire[j]) = 1 /\ wire[j][1].whole)}
Ends(j, c) == wire[j][Len(wire[j])] = Piece(Say(c), TRUE)
Leaves(j) == wire[j][1].text.cmd \in {"PART", "QUIT"}

Returned(i) == \E j \in DOMAIN events : events[j] = Event(i, inbound[i])
Answering(i) == op = "pong" /\ Head(todo).of = i

\* The messages and PINGs the client took that are no events and will not be.
Missing ==
    {i \in 1 .. taken :
        inbound[i] \in {"privmsg", "ping"} /\ ~Returned(i) /\ ~Answering(i)}

\* Every message and every PING the client took is returned as an event, once
\* and in the order of the lines.  A message is lost only if a dropped read tore
\* its line; a PING also if its PONG cannot be written any more.  But for those,
\* a dropped call loses, or tears, one line at most, and the server sees one
\* damaged line for it at most.
LinesBecomeEvents ==
    /\ \A j, k \in DOMAIN events : j < k => events[j].line < events[k].line
    /\ \A i \in Missing : inbound[i] = "privmsg" => i \in torn
    /\ ~broken => Cardinality(torn \cup Missing) <= cancels
    /\ Cardinality(torn) + Cardinality(Damaged) <= cancels

\* The event of a PING comes after its PONG is on the wire, whole; and only a
\* PING is answered, or a torn line that looks like one.
PongBeforePing ==
    /\ \A j \in DOMAIN events : events[j].kind = "ping" => Sent(Pong(events[j].line))
    /\ \A i \in 1 .. taken : Sent(Pong(i)) => inbound[i] = "ping" \/ i \in torn

\* A closed client has said goodbye: PART and QUIT are on the wire, one after
\* the other, and nothing but the in-memory client's PONGs comes after.  Without
\* dropped calls no line before them says either.
CloseSaysGoodbye ==
    closed =>
        \E q \in 2 .. Len(wire) :
            /\ Ends(q - 1, "PART") /\ Ends(q, "QUIT")
            /\ \A j \in q + 1 .. Len(wire) :
                  client = "memory" /\ wire[j][1].text.cmd = "PONG"
            /\ cancels = 0 => \A j \in 1 .. q - 2 : ~Leaves(j)

\* With a reader that keeps asking, a PING is answered, unless the connection
\* breaks, the client closes or the call that read it is dropped.
PingIsAnswered ==
    \A i \in 1 .. MaxLines :
        (i \in DOMAIN inbound /\ inbound[i] = "ping")
            ~> (Sent(Pong(i)) \/ broken \/ closed \/ cancels > 0)
============================================================================
