--------------------------- MODULE IrcClientProofs --------------------------
(***************************************************************************)
(* Proofs about IrcClient: types, the PONG before the event of a PING, and *)
(* what becomes of the lines of the server, for any number of lines, calls *)
(* and dropped futures.                                                    *)
(***************************************************************************)
EXTENDS IrcClient, SequenceFacts, FiniteSetTheorems

----------------------------------------------------------------------------
(* The inductive invariant.                                                *)

\* A command is written only while one is left to write, and the end of the
\* pending line is that command, whole once its text is out.  A PONG is
\* written for the line just taken.  The in-memory client's operations are
\* done when they return.
WriteInv ==
    /\ pc = "writing" => todo # << >>
    /\ pc # "writing" => half = "none"
    /\ half # "none" => partial # << >> /\ partial[Len(partial)].text = Head(todo)
    /\ half = "text" => partial[Len(partial)].whole
    /\ op = "pong" /\ pc = "writing" => todo = <<Pong(taken)>> /\ taken # 0
    /\ client = "memory" => pc = "idle" /\ ended = "open"

\* The head of a line is held only while the line is there to be read.
ReadInv == buffer = "head" => Unread /\ client = "tcp"

\* A PONG, wherever it is on its way, is for a PING or a torn line.
Answerable == {i \in 1 .. taken : inbound[i] = "ping" \/ i \in torn}
Honest(m) == m.cmd = "PONG" => m.of \in Answerable

HonestWire ==
    \A j \in 1 .. Len(wire) : \A p \in 1 .. Len(wire[j]) : Honest(wire[j][p].text)
HonestPartial == \A p \in 1 .. Len(partial) : Honest(partial[p].text)
HonestTodo == \A j \in 1 .. Len(todo) : Honest(todo[j])
HonestInv == HonestWire /\ HonestPartial /\ HonestTodo

\* The event of a PING comes after its PONG.
PongInv == \A j \in DOMAIN events : events[j].kind = "ping" => Sent(Pong(events[j].line))

\* Events are in the order of their lines; the line being answered is not yet
\* among them.
OrderInv ==
    /\ \A j, k \in DOMAIN events : j < k => events[j].line < events[k].line
    /\ \A j \in DOMAIN events : events[j].line <= taken
    /\ op = "pong" /\ pc = "writing" =>
          \A j \in DOMAIN events : events[j].line < taken

\* No message is lost but with its head, and a line that is lost or torn is paid
\* for by a dropped call while the connection takes what is written.  A PONG is
\* written only while its call runs.
MissingInv ==
    /\ op = "pong" => pc = "writing"
    /\ \A i \in Missing : inbound[i] = "privmsg" => i \in torn
    /\ ~broken => Cardinality(torn \cup Missing) <= cancels

\* Each torn or damaged line is paid for by a dropped call, the line that
\* will be damaged when it ends included.
Spoiled == IF ~broken /\ partial # << >> /\ (half = "none" \/ Len(partial) > 1)
           THEN 1 ELSE 0

DamageInv == Cardinality(torn) + Cardinality(Damaged) + Spoiled <= cancels

Inv == /\ TypeOK /\ ReadInv /\ WriteInv /\ HonestInv /\ PongInv /\ OrderInv
       /\ MissingInv /\ DamageInv

----------------------------------------------------------------------------
(* Types and writing.                                                      *)

Base == TypeOK /\ WriteInv

LEMMA MessageTypes ==
    /\ \A c \in Commands : Say(c) \in Messages
    /\ \A i \in Nat : Pong(i) \in Messages
    /\ \A i \in Nat, k \in Kinds : Event(i, k) \in Events
    /\ \A k \in Kinds : Tails(k) \subseteq Kinds
<1>1. \A c \in Commands : Say(c) \in Messages
  BY DEF Say, Messages
<1>2. \A i \in Nat : Pong(i) \in Messages
  BY DEF Pong, Messages
<1>3. \A i \in Nat, k \in Kinds : Event(i, k) \in Events
  BY DEF Event, Events
<1>4. \A k \in Kinds : Tails(k) \subseteq Kinds
  BY DEF Tails
<1> QED
  BY <1>1, <1>2, <1>3, <1>4

LEMMA CommandFacts ==
    /\ connect_commands \in Seq(Messages) /\ connect_commands # << >>
    /\ \A j \in 1 .. Len(connect_commands) : connect_commands[j].cmd # "PONG"
    /\ disconnect_commands \in Seq(Messages) /\ Len(disconnect_commands) = 2
    /\ \A j \in 1 .. Len(disconnect_commands) : disconnect_commands[j].cmd # "PONG"
<1> DEFINE Plain == {m \in Messages : m.cmd # "PONG"}
           Caps == IF Capabilities THEN <<Say("CAP")>> ELSE << >>
<1>1. \A c \in Commands : Say(c) \in Plain
  BY DEF Say, Messages, Commands
<1>2. {"PASS", "NICK", "CAP", "JOIN", "PART", "QUIT"} \subseteq Commands
  BY DEF Commands
<1>3. <<Say("PASS"), Say("NICK")>> \in Seq(Plain) /\ Len(<<Say("PASS"), Say("NICK")>>) = 2
  BY <1>1, <1>2, PairFacts
<1>4. Caps \in Seq(Plain) /\ Len(Caps) \in Nat
  <2>1. <<Say("CAP")>> \in Seq(Plain) /\ Len(<<Say("CAP")>>) = 1
    BY <1>1, <1>2, SingletonFacts
  <2>2. << >> \in Seq(Plain) /\ Len(<< >>) = 0
    OBVIOUS
  <2>3. Caps = <<Say("CAP")>> \/ Caps = << >>
    OBVIOUS
  <2> HIDE DEF Plain, Caps
  <2> QED
    BY <2>1, <2>2, <2>3
<1>5. <<Say("JOIN")>> \in Seq(Plain) /\ Len(<<Say("JOIN")>>) = 1
  BY <1>1, <1>2, SingletonFacts
<1> HIDE DEF Plain, Caps
<1>6. <<Say("PASS"), Say("NICK")>> \o Caps \in Seq(Plain)
  BY <1>3, <1>4, ConcatProperties
<1>7. /\ (<<Say("PASS"), Say("NICK")>> \o Caps) \o <<Say("JOIN")>> \in Seq(Plain)
      /\ Len((<<Say("PASS"), Say("NICK")>> \o Caps) \o <<Say("JOIN")>>) # 0
  BY <1>3, <1>4, <1>5, <1>6, ConcatProperties
<1>8. disconnect_commands \in Seq(Plain) /\ Len(disconnect_commands) = 2
  BY <1>1, <1>2, PairFacts DEF disconnect_commands
<1>9. connect_commands \in Seq(Plain) /\ connect_commands # << >>
  BY <1>7 DEF connect_commands, Caps
<1>10. \A s \in Seq(Plain) : s \in Seq(Messages) /\ \A j \in 1 .. Len(s) : s[j].cmd # "PONG"
  <2> SUFFICES ASSUME NEW s \in Seq(Plain)
               PROVE  s \in Seq(Messages) /\ \A j \in 1 .. Len(s) : s[j].cmd # "PONG"
    OBVIOUS
  <2>1. Plain \subseteq Messages /\ \A m \in Plain : m.cmd # "PONG"
    BY DEF Plain
  <2>2. s \in Seq(Messages)
    BY <2>1, SeqMonotonic
  <2>3. \A j \in 1 .. Len(s) : s[j] \in Plain
    BY ElementOfSeq
  <2> QED
    BY <2>1, <2>2, <2>3
<1> QED
  BY <1>8, <1>9, <1>10

\* A piece that is whole, or is not.
LEMMA PieceFacts ==
    ASSUME NEW m \in Messages
    PROVE  /\ Piece(m, TRUE) \in Pieces /\ Piece(m, TRUE).text = m
           /\ Piece(m, TRUE).whole
           /\ Piece(m, FALSE) \in Pieces /\ Piece(m, FALSE).text = m
BY DEF Piece, Pieces

\* Lines written whole, each of one piece.
LEMMA WholeFacts ==
    ASSUME NEW cs \in Seq(Messages)
    PROVE  /\ Whole(cs) \in Seq(Seq(Pieces)) /\ Len(Whole(cs)) = Len(cs)
           /\ \A j \in 1 .. Len(cs) : Whole(cs)[j] = <<Piece(cs[j], TRUE)>>
<1> DEFINE line(j) == <<Piece(cs[j], TRUE)>>
<1>1. ASSUME NEW j \in 1 .. Len(cs)
      PROVE  line(j) \in Seq(Pieces)
  <2>1. Piece(cs[j], TRUE) \in Pieces
    BY ElementOfSeq, PieceFacts
  <2> QED
    BY <2>1, SingletonFacts
<1>2. Whole(cs) = [j \in 1 .. Len(cs) |-> line(j)]
  BY DEF Whole
<1>3. \A j \in 1 .. Len(cs) : line(j) = <<Piece(cs[j], TRUE)>>
  OBVIOUS
<1> HIDE DEF line
<1>4. [j \in 1 .. Len(cs) |-> line(j)] \in [1 .. Len(cs) -> Seq(Pieces)]
  BY <1>1
<1>5. Len(cs) \in Nat
  OBVIOUS
<1> DEFINE w == [j \in 1 .. Len(cs) |-> line(j)]
<1>6. w \in Seq(Seq(Pieces)) /\ Len(w) = Len(cs)
  BY <1>4, <1>5
<1>7. \A j \in 1 .. Len(cs) : w[j] = line(j)
  OBVIOUS
<1> QED
  BY <1>2, <1>3, <1>6, <1>7

\* Names of the initial state's and the environment's sets.
LEMMA InitBase == Init => Base
<1> SUFFICES ASSUME Init
             PROVE  Base
  OBVIOUS
<1> USE DEF Init
<1>1. /\ << >> \in Seq(Kinds) /\ << >> \in Seq(Events) /\ << >> \in Seq(Pieces)
      /\ << >> \in Seq(Seq(Pieces)) /\ << >> \in Seq(Messages)
      /\ Len(<< >>) = 0
  OBVIOUS
<1>2. InTypes
  BY <1>1 DEF InTypes
<1>3. wire \in Seq(Seq(Pieces)) /\ todo \in Seq(Messages)
  BY <1>1, CommandFacts, WholeFacts
<1>4. OutTypes
  <2>1. broken \in BOOLEAN /\ closed \in BOOLEAN
    OBVIOUS
  <2> QED
    BY <1>1, <1>3, <2>1 DEF OutTypes
<1>5. WriteInv
  BY CommandFacts DEF WriteInv
<1> QED
  BY <1>2, <1>4, <1>5 DEF Base, TypeOK

USE DEF inVars, readVars, outVars, callVars, countVars

\* What the server does.
LEMMA ServerBase ==
    ASSUME Base,
           \/ \E k \in Kinds : ServerSends(k) \/ ServerCuts(k)
           \/ \E how \in {"eof", "reset"} : ServerEnds(how)
    PROVE  Base'
<1> USE DEF Base, TypeOK
<1>1. CASE \E k \in Kinds : ServerSends(k) \/ ServerCuts(k)
  <2>1. PICK k \in Kinds : ServerSends(k) \/ ServerCuts(k)
    BY <1>1
  <2>2. inbound' \in Seq(Kinds) /\ Len(inbound') = Len(inbound) + 1 /\ Len(inbound) \in Nat
    BY <2>1, AppendFacts DEF ServerSends, ServerCuts, InTypes
  <2>3. InTypes'
    <3>1. UNCHANGED <<client, taken, buffer, torn, events>> /\ ended' \in {ended, "eof"}
      BY <2>1 DEF ServerSends, ServerCuts
    <3> QED
      BY <2>2, <3>1 DEF InTypes
  <2>4. OutTypes'
    BY <2>1 DEF ServerSends, ServerCuts, OutTypes
  <2>5. WriteInv'
    BY <2>1 DEF ServerSends, ServerCuts, WriteInv
  <2> QED
    BY <2>3, <2>4, <2>5
<1>2. CASE \E how \in {"eof", "reset"} : ServerEnds(how)
  <2>1. InTypes'
    BY <1>2 DEF ServerEnds, InTypes
  <2>2. OutTypes'
    BY <1>2 DEF ServerEnds, OutTypes
  <2>3. WriteInv'
    BY <1>2 DEF ServerEnds, WriteInv
  <2> QED
    BY <2>1, <2>2, <2>3
<1> QED
  BY <1>1, <1>2

\* The beginning of a call, and the head of a line.
LEMMA BeginBase ==
    ASSUME Base, Poll \/ ReadHead \/ ReadEnd \/ SendRaw \/ Close
    PROVE  Base'
<1> USE DEF Base, TypeOK
<1>1. InTypes'
  BY DEF Poll, ReadHead, ReadEnd, SendRaw, Close, InTypes
<1>2. todo' \in Seq(Messages) /\ (SendRaw \/ Close => todo' # << >>)
  <2>1. Say("RAW") \in Messages
    BY MessageTypes DEF Commands
  <2>2. <<Say("RAW")>> \in Seq(Messages) /\ <<Say("RAW")>> # << >>
    BY <2>1, SingletonFacts
  <2>3. disconnect_commands \in Seq(Messages) /\ disconnect_commands # << >>
    BY CommandFacts
  <2>4. todo' = todo \/ todo' = <<Say("RAW")>> \/ todo' = disconnect_commands
    BY DEF Poll, ReadHead, ReadEnd, SendRaw, Close
  <2>5. SendRaw \/ Close => todo' \in {<<Say("RAW")>>, disconnect_commands}
    BY DEF SendRaw, Close
  <2> QED
    BY <2>2, <2>3, <2>4, <2>5 DEF OutTypes
<1>3. OutTypes'
  <2>1. UNCHANGED <<wire, partial, half, broken, closed, cancels>>
    BY DEF Poll, ReadHead, ReadEnd, SendRaw, Close
  <2>2. /\ pc' \in {"idle", "reading", "writing", "shutdown", "gone"}
        /\ op' \in {"none", "connect", "pong", "raw", "close"}
    BY DEF Poll, ReadHead, ReadEnd, SendRaw, Close, OutTypes
  <2>3. {raws', closes'} \subseteq Nat
    <3>1. raws' \in {raws, raws + 1} /\ closes' \in {closes, closes + 1}
      BY DEF Poll, ReadHead, ReadEnd, SendRaw, Close
    <3> QED
      BY <3>1 DEF OutTypes
  <2> QED
    BY <1>2, <2>1, <2>2, <2>3 DEF OutTypes
<1>4. WriteInv'
  <2>1. CASE Poll \/ ReadHead \/ ReadEnd
    BY <2>1 DEF Poll, ReadHead, ReadEnd, WriteInv
  <2>2. CASE SendRaw \/ Close
    <3>1. /\ pc = "idle" /\ pc' = "writing" /\ op' \in {"raw", "close"}
          /\ todo' # << >> /\ half = "none" /\ half' = "none"
          /\ client = "tcp" /\ client' = "tcp"
      BY <1>2, <2>2 DEF SendRaw, Close, WriteInv
    <3> QED
      BY <3>1 DEF WriteInv
  <2> QED
    BY <2>1, <2>2
<1> QED
  BY <1>1, <1>3, <1>4

\* A whole line, or the rest of one.
LEMMA ReadLineBase ==
    ASSUME Base, ReadLine
    PROVE  Base'
<1> USE DEF Base, TypeOK
<1>1. /\ Next1 \in 1 .. Len(inbound) /\ Len(inbound) \in Nat
      /\ Seen(Next1) \subseteq Kinds /\ taken' = Next1 /\ Next1 # 0
  <2>1. Next1 \in 1 .. Len(inbound) /\ Len(inbound) \in Nat
    BY DEF ReadLine, Unread, Next1, InTypes
  <2>2. inbound[Next1] \in Kinds
    BY <2>1, ElementOfSeq DEF InTypes
  <2> QED
    BY <2>1, <2>2, MessageTypes DEF ReadLine, Seen
<1>2. PICK k \in Seen(Next1) :
         \/ k = "blank" /\ UNCHANGED <<events, callVars>>
         \/ k = "garbled" /\ pc' = "idle" /\ UNCHANGED <<events, op, todo>>
         \/ /\ k = "privmsg" /\ events' = Append(events, Event(Next1, k))
            /\ pc' = "idle" /\ UNCHANGED <<op, todo>>
         \/ /\ k = "ping" /\ pc' = "writing" /\ op' = "pong"
            /\ todo' = <<Pong(Next1)>> /\ UNCHANGED events
  BY DEF ReadLine
<1>3. events' \in Seq(Events)
  <2>1. Event(Next1, k) \in Events
    BY <1>1, MessageTypes
  <2>2. Append(events, Event(Next1, k)) \in Seq(Events)
    BY <2>1, AppendFacts DEF InTypes
  <2> QED
    BY <1>2, <2>2 DEF InTypes
<1>4. InTypes'
  BY <1>1, <1>3 DEF ReadLine, InTypes
<1>5. <<Pong(Next1)>> \in Seq(Messages) /\ <<Pong(Next1)>> # << >>
  BY <1>1, MessageTypes, SingletonFacts
<1>6. OutTypes'
  <2>1. UNCHANGED <<wire, partial, half, broken, closed, raws, closes, cancels>>
    BY DEF ReadLine
  <2>2. /\ pc' \in {"idle", "reading", "writing", "shutdown", "gone"}
        /\ op' \in {"none", "connect", "pong", "raw", "close"}
        /\ todo' \in Seq(Messages)
    BY <1>2, <1>5 DEF OutTypes
  <2> QED
    BY <2>1, <2>2 DEF OutTypes
<1>7. WriteInv'
  BY <1>1, <1>2, <1>5 DEF ReadLine, WriteInv
<1> QED
  BY <1>4, <1>6, <1>7

\* The text of a command joins the pending line.
LEMMA WriteTextBase ==
    ASSUME Base, WriteText
    PROVE  /\ Base'
           /\ \E p \in Pieces :
                 /\ partial' = Append(partial, p) /\ p.text = Head(todo)
                 /\ half' = "part" \/ (half' = "text" /\ p.whole)
<1> USE DEF Base, TypeOK
<1>1. todo # << >> /\ Head(todo) \in Messages /\ client = "tcp"
  BY HeadTailProperties DEF WriteText, WriteInv, OutTypes, InTypes
<1>2. /\ Piece(Head(todo), TRUE) \in Pieces /\ Piece(Head(todo), TRUE).text = Head(todo)
      /\ Piece(Head(todo), TRUE).whole
      /\ Piece(Head(todo), FALSE) \in Pieces /\ Piece(Head(todo), FALSE).text = Head(todo)
  BY <1>1, PieceFacts
<1>3. \/ partial' = Append(partial, Piece(Head(todo), TRUE)) /\ half' = "text"
      \/ partial' = Append(partial, Piece(Head(todo), FALSE)) /\ half' = "part"
  BY DEF WriteText
<1>4. PICK p \in Pieces :
         /\ partial' = Append(partial, p) /\ p.text = Head(todo)
         /\ half' = "part" \/ (half' = "text" /\ p.whole)
  BY <1>2, <1>3
<1>5. /\ partial' \in Seq(Pieces) /\ Len(partial') = Len(partial) + 1
      /\ partial'[Len(partial')] = p /\ partial' # << >>
  <2>1. partial \in Seq(Pieces)
    BY DEF OutTypes
  <2>2. /\ Append(partial, p) \in Seq(Pieces) /\ Len(Append(partial, p)) = Len(partial) + 1
        /\ Append(partial, p)[Len(partial) + 1] = p /\ Len(partial) \in Nat
    BY <2>1, AppendFacts
  <2> QED
    BY <1>4, <2>2, EmptySeq
<1>6. InTypes'
  BY DEF WriteText, InTypes
<1>7. OutTypes'
  BY <1>4, <1>5 DEF WriteText, OutTypes
<1>8. WriteInv'
  BY <1>1, <1>4, <1>5 DEF WriteText, WriteInv
<1> QED
  BY <1>4, <1>6, <1>7, <1>8

\* The rest of a command's text completes the last piece.
LEMMA WriteRestBase ==
    ASSUME Base, WriteRest
    PROVE  /\ Base'
           /\ partial # << >> /\ Len(partial') = Len(partial)
           /\ \A j \in 1 .. Len(partial) : partial'[j].text = partial[j].text
<1> USE DEF Base, TypeOK
<1> DEFINE n == Len(partial)
           e == [partial[n] EXCEPT !.whole = TRUE]
<1>1. /\ partial \in Seq(Pieces) /\ partial # << >> /\ n \in 1 .. n
      /\ partial[n].text = Head(todo)
  BY EmptySeq DEF WriteRest, WriteInv, OutTypes
<1>2. partial[n] \in Pieces
  BY <1>1, ElementOfSeq
<1>3. e \in Pieces /\ e.text = partial[n].text /\ e.whole
  BY <1>2 DEF Pieces
<1>4. partial' = [partial EXCEPT ![n] = e]
  BY DEF WriteRest
<1> HIDE DEF e
<1>5. /\ partial' \in Seq(Pieces) /\ Len(partial') = n
      /\ \A j \in 1 .. n : partial'[j] = IF j = n THEN e ELSE partial[j]
  BY <1>1, <1>3, <1>4, ExceptSeq
<1>6. partial' # << >>
  BY <1>1, <1>5, EmptySeq
<1>7. InTypes'
  BY DEF WriteRest, InTypes
<1>8. OutTypes'
  BY <1>5 DEF WriteRest, OutTypes
<1>9. WriteInv'
  BY <1>1, <1>3, <1>5, <1>6 DEF WriteRest, WriteInv
<1> QED
  BY <1>1, <1>3, <1>5, <1>7, <1>8, <1>9

\* The line end: the pending line is on the wire, and the next command is up.
LEMMA WriteEndBase ==
    ASSUME Base, WriteEnd
    PROVE  Base'
<1> USE DEF Base, TypeOK
<1>1. /\ todo # << >> /\ todo \in Seq(Messages)
      /\ Head(todo) \in Messages /\ Tail(todo) \in Seq(Messages)
      /\ Len(Tail(todo)) = Len(todo) - 1 /\ Len(todo) \in Nat
  BY HeadTailProperties DEF WriteEnd, WriteInv, OutTypes
<1>2. wire' \in Seq(Seq(Pieces)) /\ partial' \in Seq(Pieces)
  BY AppendFacts DEF WriteEnd, OutTypes
<1>3. events' \in Seq(Events)
  <2>1. Head(todo).of \in Nat
    BY <1>1 DEF Messages
  <2>2. Event(Head(todo).of, "ping") \in Events
    BY <2>1, MessageTypes DEF Kinds
  <2>3. Append(events, Event(Head(todo).of, "ping")) \in Seq(Events)
    BY <2>2, AppendFacts DEF InTypes
  <2> QED
    BY <2>3 DEF WriteEnd, Written, InTypes
<1>4. InTypes'
  BY <1>3 DEF WriteEnd, InTypes
<1>5. /\ pc' \in {"idle", "writing", "shutdown"}
      /\ op' \in {"none", op} /\ todo' = Tail(todo) /\ half' = "none"
      /\ pc' = "writing" => Len(todo) > 1 /\ op' = op
  BY DEF WriteEnd, Written
<1>6. OutTypes'
  BY <1>1, <1>2, <1>5 DEF WriteEnd, OutTypes
<1>7. WriteInv'
  <2>1. pc' = "writing" => todo' # << >>
    <3>1. ASSUME pc' = "writing"
          PROVE  Len(Tail(todo)) >= 1
      BY <1>1, <1>5, <3>1
    <3>2. todo' \in Seq(Messages) /\ (pc' = "writing" => Len(todo') >= 1)
      BY <1>1, <1>5, <3>1
    <3> QED
      BY <3>2, NotEmpty
  <2>2. op = "pong" => Len(todo) = 1
    <3>1. op = "pong" => todo = <<Pong(taken)>>
      BY DEF WriteEnd, WriteInv
    <3> QED
      BY <3>1
  <2> QED
    BY <1>5, <2>1, <2>2 DEF WriteEnd, WriteInv
<1> QED
  BY <1>4, <1>6, <1>7

\* A call that fails or is dropped, and the shutdown.
LEMMA AbandonBase ==
    ASSUME Base, WriteFails \/ Shutdown \/ ShutdownFails \/ CancelWrite
    PROVE  Base'
<1> USE DEF Base, TypeOK
<1>1. InTypes'
  BY DEF WriteFails, Shutdown, ShutdownFails, CancelWrite, InTypes
<1>2. broken' \in BOOLEAN /\ closed' \in BOOLEAN
  <2>1. broken' = broken \/ broken' = TRUE
    BY DEF WriteFails, Shutdown, ShutdownFails, CancelWrite
  <2>2. closed' = closed \/ closed' = TRUE
    BY DEF WriteFails, Shutdown, ShutdownFails, CancelWrite
  <2> QED
    BY <2>1, <2>2 DEF OutTypes
<1>3. /\ pc' \in {"idle", "gone"} /\ op' = "none" /\ half' \in {"none", half}
      /\ todo' \in {<< >>, todo}
      /\ UNCHANGED <<wire, partial, raws, closes>> /\ cancels' \in {cancels, cancels + 1}
  BY DEF WriteFails, Shutdown, ShutdownFails, CancelWrite, Abandoned
<1>4. OutTypes'
  <2>1. << >> \in Seq(Messages)
    OBVIOUS
  <2>2. cancels' \in Nat
    BY <1>3 DEF OutTypes
  <2> QED
    BY <1>2, <1>3, <2>1, <2>2 DEF OutTypes
<1>5. WriteInv'
  <2>1. half' = "none" /\ client = "tcp" /\ client' = client
    BY DEF WriteFails, Shutdown, ShutdownFails, CancelWrite, Abandoned, WriteInv, InTypes
  <2> QED
    BY <1>3, <2>1 DEF WriteInv
<1> QED
  BY <1>1, <1>4, <1>5

\* A dropped read takes the head of the line with it.
LEMMA CancelReadBase ==
    ASSUME Base, ReadInv, CancelRead
    PROVE  Base'
<1> USE DEF Base, TypeOK
<1>1. torn' \subseteq 1 .. Len(inbound)
  BY DEF CancelRead, InTypes, ReadInv, Unread, Next1
<1>2. InTypes'
  BY <1>1 DEF CancelRead, InTypes
<1>3. OutTypes' /\ WriteInv'
  BY DEF CancelRead, OutTypes, WriteInv
<1> QED
  BY <1>2, <1>3

\* The in-memory client adds whole lines to the wire, and a PONG for a PING
\* only.
LinesAdded ==
    /\ wire' \in Seq(Seq(Pieces))
    /\ Len(wire') >= Len(wire)
    /\ \A j \in 1 .. Len(wire) : wire'[j] = wire[j]
    /\ \A j \in Len(wire) + 1 .. Len(wire') :
          /\ Len(wire'[j]) = 1 /\ wire'[j][1].whole
          /\ wire'[j][1].text.cmd = "PONG" =>
                MemoryNext /\ wire'[j][1].text = Pong(Next1) /\ inbound[Next1] = "ping"

LEMMA MemoryWire ==
    ASSUME Base, MemoryNext \/ MemorySendRaw \/ MemoryClose
    PROVE  LinesAdded
<1> USE DEF Base, TypeOK
<1>1. wire \in Seq(Seq(Pieces)) /\ Len(wire) \in Nat
  BY DEF OutTypes
<1>2. ASSUME NEW m \in Messages, wire' = Append(wire, <<Piece(m, TRUE)>>),
             m.cmd = "PONG" => MemoryNext /\ m = Pong(Next1) /\ inbound[Next1] = "ping"
      PROVE  LinesAdded
  <2> DEFINE l == <<Piece(m, TRUE)>>
  <2>1. l \in Seq(Pieces) /\ Len(l) = 1 /\ l[1].text = m /\ l[1].whole
    <3>1. /\ Piece(m, TRUE) \in Pieces /\ Piece(m, TRUE).text = m /\ Piece(m, TRUE).whole
      BY PieceFacts
    <3> QED
      BY <3>1, SingletonFacts
  <2>2. wire' = Append(wire, l)
    BY <1>2
  <2> HIDE DEF l
  <2>3. /\ wire' \in Seq(Seq(Pieces)) /\ Len(wire') = Len(wire) + 1
        /\ \A j \in 1 .. Len(wire) : wire'[j] = wire[j]
        /\ wire'[Len(wire) + 1] = l
    BY <1>1, <2>1, <2>2, AppendFacts
  <2>4. \A j \in Len(wire) + 1 .. Len(wire') : j = Len(wire) + 1
    BY <1>1, <2>3
  <2>5. \A j \in Len(wire) + 1 .. Len(wire') :
           Len(wire'[j]) = 1 /\ wire'[j][1].whole /\ wire'[j][1].text = m
    BY <2>1, <2>3, <2>4
  <2>6. Len(wire') >= Len(wire)
    BY <1>1, <2>3
  <2> QED
    BY <1>2, <2>3, <2>5, <2>6 DEF LinesAdded
<1>3. CASE MemoryNext
  <2>1. Next1 \in Nat /\ Pong(Next1) \in Messages
    BY MessageTypes DEF Next1, InTypes
  <2>2. CASE inbound[Next1] = "ping"
    BY <1>2, <1>3, <2>1, <2>2 DEF MemoryNext
  <2>3. CASE inbound[Next1] # "ping"
    <3>1. wire' = wire
      BY <1>3, <2>3 DEF MemoryNext
    <3> QED
      BY <1>1, <3>1 DEF LinesAdded
  <2> QED
    BY <2>2, <2>3
<1>4. CASE MemorySendRaw
  <2>1. Say("RAW") \in Messages /\ Say("RAW").cmd # "PONG"
    BY MessageTypes DEF Say, Commands
  <2>2. wire' = Append(wire, <<Piece(Say("RAW"), TRUE)>>)
    BY <1>4 DEF MemorySendRaw
  <2> QED
    BY <1>2, <2>1, <2>2
<1>5. CASE MemoryClose
  <2> DEFINE d == disconnect_commands
             w == Whole(d)
  <2>1. d \in Seq(Messages) /\ Len(d) = 2 /\ \A j \in 1 .. 2 : d[j].cmd # "PONG"
    BY CommandFacts
  <2>2. /\ w \in Seq(Seq(Pieces)) /\ Len(w) = 2
        /\ \A j \in 1 .. 2 : w[j] = <<Piece(d[j], TRUE)>>
    BY <2>1, WholeFacts
  <2>3. wire' = wire \o w
    BY <1>5 DEF MemoryClose
  <2>4. \A j \in 1 .. 2 : Len(w[j]) = 1 /\ w[j][1].whole /\ w[j][1].text.cmd # "PONG"
    <3> SUFFICES ASSUME NEW j \in 1 .. 2
                 PROVE  Len(w[j]) = 1 /\ w[j][1].whole /\ w[j][1].text.cmd # "PONG"
      OBVIOUS
    <3>1. d[j] \in Messages /\ d[j].cmd # "PONG"
      BY <2>1, ElementOfSeq
    <3>2. /\ Piece(d[j], TRUE) \in Pieces /\ Piece(d[j], TRUE).text = d[j]
          /\ Piece(d[j], TRUE).whole
      BY <3>1, PieceFacts
    <3>3. Len(w[j]) = 1 /\ w[j][1] = Piece(d[j], TRUE)
      BY <2>2, <3>2, SingletonFacts
    <3> QED
      BY <3>1, <3>2, <3>3
  <2> HIDE DEF d, w
  <2>5. /\ wire' \in Seq(Seq(Pieces)) /\ Len(wire') = Len(wire) + 2
        /\ \A i \in 1 .. Len(wire) + 2 :
              wire'[i] = IF i <= Len(wire) THEN wire[i] ELSE w[i - Len(wire)]
    <3>1. /\ wire \o w \in Seq(Seq(Pieces)) /\ Len(wire \o w) = Len(wire) + Len(w)
          /\ \A i \in 1 .. Len(wire) + Len(w) :
                (wire \o w)[i] = IF i <= Len(wire) THEN wire[i] ELSE w[i - Len(wire)]
      BY <1>1, <2>2, ConcatProperties
    <3> QED
      BY <2>2, <2>3, <3>1
  <2>6. \A j \in Len(wire) + 1 .. Len(wire') :
           j - Len(wire) \in 1 .. 2 /\ wire'[j] = w[j - Len(wire)]
    BY <1>1, <2>5
  <2>7. \A j \in 1 .. Len(wire) : wire'[j] = wire[j]
    BY <1>1, <2>5
  <2>8. \A j \in Len(wire) + 1 .. Len(wire') :
           Len(wire'[j]) = 1 /\ wire'[j][1].whole /\ wire'[j][1].text.cmd # "PONG"
    BY <2>4, <2>6
  <2>9. Len(wire') >= Len(wire)
    BY <1>1, <2>5
  <2> QED
    BY <2>5, <2>7, <2>8, <2>9 DEF LinesAdded
<1> QED
  BY <1>3, <1>4, <1>5

LEMMA MemoryBase ==
    ASSUME Base, MemoryNext \/ MemorySendRaw \/ MemoryClose
    PROVE  Base'
<1> USE DEF Base, TypeOK
<1>1. wire' \in Seq(Seq(Pieces))
  BY MemoryWire DEF LinesAdded
<1>2. events' \in Seq(Events)
  <2>1. CASE MemoryNext
    <3>1. Next1 \in 1 .. Len(inbound) /\ Next1 \in Nat
      BY <2>1 DEF MemoryNext, Unread, Next1, InTypes
    <3>2. inbound[Next1] \in Kinds
      BY <3>1, ElementOfSeq DEF InTypes
    <3>3. Event(Next1, inbound[Next1]) \in Events
      BY <3>1, <3>2, MessageTypes
    <3> QED
      BY <2>1, <3>3, AppendFacts DEF MemoryNext, InTypes
  <2>2. CASE MemorySendRaw \/ MemoryClose
    BY <2>2 DEF MemorySendRaw, MemoryClose, InTypes
  <2> QED
    BY <2>1, <2>2
<1>3. InTypes'
  <2>1. taken' \in 0 .. Len(inbound)
    <3>1. taken \in 0 .. Len(inbound) /\ Len(inbound) \in Nat
      BY DEF InTypes
    <3>2. taken' = taken \/ (taken' = taken + 1 /\ taken < Len(inbound))
      BY DEF MemoryNext, MemorySendRaw, MemoryClose, Unread, Next1
    <3> QED
      BY <3>1, <3>2
  <2>2. UNCHANGED <<client, inbound, ended, buffer, torn>>
    BY DEF MemoryNext, MemorySendRaw, MemoryClose
  <2> QED
    BY <1>2, <2>1, <2>2 DEF InTypes
<1>4. OutTypes'
  <2>1. UNCHANGED <<partial, half, broken, callVars, cancels>>
    BY DEF MemoryNext, MemorySendRaw, MemoryClose
  <2>2. raws' \in {raws, raws + 1} /\ closes' \in {closes, closes + 1}
    BY DEF MemoryNext, MemorySendRaw, MemoryClose
  <2>3. closed' = closed \/ closed' = TRUE
    BY DEF MemoryNext, MemorySendRaw, MemoryClose
  <2>4. closed' \in BOOLEAN
    BY <2>3 DEF OutTypes
  <2>5. {raws', closes', cancels'} \subseteq Nat
    BY <2>1, <2>2 DEF OutTypes
  <2> QED
    BY <1>1, <2>1, <2>4, <2>5 DEF OutTypes
<1>5. WriteInv'
  BY DEF MemoryNext, MemorySendRaw, MemoryClose, WriteInv
<1> QED
  BY <1>3, <1>4, <1>5

LEMMA BaseStep == Base /\ ReadInv /\ [Next]_vars => Base'
<1> SUFFICES ASSUME Base, ReadInv, [Next]_vars
             PROVE  Base'
  OBVIOUS
<1>1. CASE UNCHANGED vars
  BY <1>1 DEF vars, Base, TypeOK, InTypes, OutTypes, WriteInv
<1>2. CASE \/ \E k \in Kinds : ServerSends(k) \/ ServerCuts(k)
           \/ \E how \in {"eof", "reset"} : ServerEnds(how)
  BY <1>2, ServerBase
<1>3. CASE Poll \/ ReadHead \/ ReadEnd \/ SendRaw \/ Close
  BY <1>3, BeginBase
<1>4. CASE ReadLine
  BY <1>4, ReadLineBase
<1>5. CASE WriteText \/ WriteRest \/ WriteEnd
  BY <1>5, WriteTextBase, WriteRestBase, WriteEndBase
<1>6. CASE WriteFails \/ Shutdown \/ ShutdownFails \/ CancelWrite
  BY <1>6, AbandonBase
<1>7. CASE CancelRead
  BY <1>7, CancelReadBase
<1>8. CASE MemoryNext \/ MemorySendRaw \/ MemoryClose
  BY <1>8, MemoryBase
<1> QED
  BY <1>1, <1>2, <1>3, <1>4, <1>5, <1>6, <1>7, <1>8 DEF Next, Reading, Writing

LEMMA ReadInvStep == Base /\ ReadInv /\ [Next]_vars => ReadInv'
<1> SUFFICES ASSUME Base, ReadInv, [Next]_vars
             PROVE  ReadInv'
  OBVIOUS
<1> USE DEF ReadInv, Unread
<1>1. CASE \E k \in Kinds : ServerSends(k) \/ ServerCuts(k)
  <2>1. PICK k \in Kinds : ServerSends(k) \/ ServerCuts(k)
    BY <1>1
  <2>2. Len(inbound') = Len(inbound) + 1 /\ Len(inbound) \in Nat /\ taken \in Nat
    BY <2>1, AppendFacts DEF ServerSends, ServerCuts, Base, TypeOK, InTypes
  <2> QED
    BY <2>1, <2>2 DEF ServerSends, ServerCuts
<1>2. CASE ReadHead \/ ReadLine \/ CancelRead
  BY <1>2 DEF ReadHead, ReadLine, CancelRead
<1>3. CASE MemoryNext
  BY <1>3 DEF MemoryNext
<1>4. ASSUME UNCHANGED <<client, inbound, taken, buffer>>
      PROVE  ReadInv'
  BY <1>4
<1>5. \/ \E k \in Kinds : ServerSends(k) \/ ServerCuts(k)
      \/ ReadHead \/ ReadLine \/ CancelRead \/ MemoryNext
      \/ UNCHANGED <<client, inbound, taken, buffer>>
  BY DEF Next, Reading, Writing, vars, ServerEnds, Poll, SendRaw, Close, ReadEnd,
     WriteText, WriteRest, WriteEnd, Written, WriteFails, Shutdown, ShutdownFails,
     CancelWrite, MemorySendRaw, MemoryClose
<1> QED
  BY <1>1, <1>2, <1>3, <1>4, <1>5

----------------------------------------------------------------------------
(* What grows.                                                             *)

\* Lines stay what they are, and are taken and torn for good.
LEMMA InputGrows ==
    ASSUME Base, [Next]_vars
    PROVE  /\ taken \in Nat /\ taken' \in Nat /\ taken <= taken'
           /\ torn \subseteq torn'
           /\ \A i \in 1 .. Len(inbound) : inbound'[i] = inbound[i]
           /\ Len(inbound) \in Nat /\ Len(inbound') \in Nat /\ Len(inbound) <= Len(inbound')
<1> USE DEF Base, TypeOK, InTypes
<1>1. CASE \E k \in Kinds : ServerSends(k) \/ ServerCuts(k)
  <2>1. PICK k \in Kinds : ServerSends(k) \/ ServerCuts(k)
    BY <1>1
  <2>2. /\ Len(inbound') = Len(inbound) + 1 /\ Len(inbound) \in Nat
        /\ \A i \in 1 .. Len(inbound) : inbound'[i] = inbound[i]
    BY <2>1, AppendFacts DEF ServerSends, ServerCuts
  <2> QED
    BY <2>1, <2>2 DEF ServerSends, ServerCuts
<1>2. CASE ReadLine \/ MemoryNext
  <2>1. UNCHANGED <<inbound, torn>> /\ taken' = taken + 1
    BY <1>2 DEF ReadLine, MemoryNext, Next1
  <2> QED
    BY <2>1
<1>3. CASE CancelRead
  BY <1>3 DEF CancelRead
<1>4. CASE UNCHANGED <<inbound, taken, torn>>
  BY <1>4
<1>5. \/ \E k \in Kinds : ServerSends(k) \/ ServerCuts(k)
      \/ ReadLine \/ MemoryNext \/ CancelRead \/ UNCHANGED <<inbound, taken, torn>>
  BY DEF Next, Reading, Writing, vars, ServerEnds, Poll, SendRaw, Close, ReadHead,
     ReadEnd, WriteText, WriteRest, WriteEnd, Written, WriteFails, Shutdown, ShutdownFails,
     CancelWrite, MemorySendRaw, MemoryClose
<1> QED
  BY <1>1, <1>2, <1>3, <1>4, <1>5

LEMMA AnswerableGrows ==
    ASSUME Base, [Next]_vars
    PROVE  Answerable \subseteq Answerable'
<1>1. taken \in 0 .. Len(inbound)
  BY DEF Base, TypeOK, InTypes
<1> QED
  BY <1>1, InputGrows DEF Answerable

\* What is on the wire stays there.
LEMMA WireGrows ==
    ASSUME Base, [Next]_vars
    PROVE  /\ Len(wire) \in Nat /\ Len(wire') \in Nat /\ Len(wire) <= Len(wire')
           /\ DOMAIN wire = 1 .. Len(wire) /\ DOMAIN wire' = 1 .. Len(wire')
           /\ \A j \in 1 .. Len(wire) : wire'[j] = wire[j]
<1>1. wire \in Seq(Seq(Pieces))
  BY DEF Base, TypeOK, OutTypes
<1>2. CASE WriteEnd
  <2>1. wire' = Append(wire, partial) /\ partial \in Seq(Pieces)
    BY <1>2 DEF WriteEnd, Base, TypeOK, OutTypes
  <2>2. /\ Len(wire') = Len(wire) + 1 /\ Len(wire) \in Nat
        /\ DOMAIN wire = 1 .. Len(wire) /\ DOMAIN wire' = 1 .. Len(wire) + 1
        /\ \A j \in 1 .. Len(wire) : wire'[j] = wire[j]
    BY <1>1, <2>1, AppendFacts
  <2> QED
    BY <2>2
<1>3. CASE MemoryNext \/ MemorySendRaw \/ MemoryClose
  BY <1>1, <1>3, MemoryWire, LenProperties DEF LinesAdded
<1>4. CASE UNCHANGED wire
  BY <1>1, <1>4, LenProperties
<1>5. WriteEnd \/ MemoryNext \/ MemorySendRaw \/ MemoryClose \/ UNCHANGED wire
  BY DEF Next, Reading, Writing, vars, ServerSends, ServerCuts, ServerEnds, Poll, SendRaw,
     Close, ReadHead, ReadLine, ReadEnd, WriteText, WriteRest, WriteFails, Shutdown,
     ShutdownFails, CancelRead, CancelWrite
<1> QED
  BY <1>2, <1>3, <1>4, <1>5

LEMMA SentGrows ==
    ASSUME Base, [Next]_vars
    PROVE  \A c : Sent(c) => Sent(c)'
<1> SUFFICES ASSUME NEW c, Sent(c)
             PROVE  Sent(c)'
  OBVIOUS
<1>1. PICK j \in DOMAIN wire : \E p \in DOMAIN wire[j] : wire[j][p] = Piece(c, TRUE)
  BY DEF Sent
<1>2. j \in DOMAIN wire' /\ wire'[j] = wire[j]
  BY <1>1, WireGrows
<1> QED
  BY <1>1, <1>2 DEF Sent

----------------------------------------------------------------------------
(* A PONG is for a PING.                                                   *)

LEMMA HonestStep ==
    ASSUME Base, ReadInv, Base', HonestInv, [Next]_vars
    PROVE  HonestInv'
<1> USE DEF Honest
<1> DEFINE H(m) == m.cmd = "PONG" => m.of \in Answerable'
<1>1. Answerable \subseteq Answerable'
  BY AnswerableGrows
<1>2. \A m : Honest(m) => H(m)
  BY <1>1 DEF Honest
<1>3. HonestWire'
  <2>1. \A j \in 1 .. Len(wire) : \A p \in 1 .. Len(wire[j]) : H(wire[j][p].text)
    BY <1>2 DEF HonestInv, HonestWire
  <2>2. CASE WriteEnd
    <3>1. wire' = Append(wire, partial) /\ partial \in Seq(Pieces) /\ wire \in Seq(Seq(Pieces))
      BY <2>2 DEF WriteEnd, Base, TypeOK, OutTypes
    <3>2. /\ Len(wire') = Len(wire) + 1 /\ Len(wire) \in Nat
          /\ wire'[Len(wire) + 1] = partial
          /\ \A j \in 1 .. Len(wire) : wire'[j] = wire[j]
      BY <3>1, AppendFacts
    <3> QED
      BY <1>2, <2>1, <3>2 DEF HonestInv, HonestWire, HonestPartial
  <2>3. CASE MemoryNext \/ MemorySendRaw \/ MemoryClose
    <3>1. LinesAdded
      BY <2>3, MemoryWire
    <3>2. MemoryNext /\ inbound[Next1] = "ping" => Next1 \in Answerable'
      BY DEF MemoryNext, Answerable, Next1, Base, TypeOK, InTypes
    <3>3. \A j \in Len(wire) + 1 .. Len(wire') : H(wire'[j][1].text)
      <4> SUFFICES ASSUME NEW j \in Len(wire) + 1 .. Len(wire'),
                          wire'[j][1].text.cmd = "PONG"
                   PROVE  wire'[j][1].text.of \in Answerable'
        OBVIOUS
      <4>1. MemoryNext /\ wire'[j][1].text = Pong(Next1) /\ inbound[Next1] = "ping"
        BY <3>1 DEF LinesAdded
      <4> QED
        BY <3>2, <4>1 DEF Pong
    <3> QED
      <4> SUFFICES ASSUME NEW j \in 1 .. Len(wire'), NEW p \in 1 .. Len(wire'[j])
                   PROVE  H(wire'[j][p].text)
        BY DEF HonestWire
      <4>1. CASE j \in 1 .. Len(wire)
        BY <2>1, <3>1, <4>1 DEF LinesAdded
      <4>2. CASE j \in Len(wire) + 1 .. Len(wire')
        <5>1. Len(wire'[j]) = 1
          BY <3>1, <4>2 DEF LinesAdded
        <5>2. p = 1
          BY <5>1
        <5> QED
          BY <3>3, <4>2, <5>2
      <4> QED
        BY <4>1, <4>2, WireGrows
  <2>4. CASE UNCHANGED wire
    BY <2>1, <2>4 DEF HonestWire
  <2>5. WriteEnd \/ MemoryNext \/ MemorySendRaw \/ MemoryClose \/ UNCHANGED wire
    BY DEF Next, Reading, Writing, vars, ServerSends, ServerCuts, ServerEnds, Poll, SendRaw,
     Close, ReadHead, ReadLine, ReadEnd, WriteText, WriteRest, WriteFails, Shutdown,
       ShutdownFails, CancelRead, CancelWrite
  <2> QED
    BY <2>2, <2>3, <2>4, <2>5
<1>4. HonestPartial'
  <2>1. \A p \in 1 .. Len(partial) : H(partial[p].text)
    BY <1>2 DEF HonestInv, HonestPartial
  <2>2. CASE WriteText
    <3>1. PICK p \in Pieces : partial' = Append(partial, p) /\ p.text = Head(todo)
      BY <2>2, WriteTextBase
    <3>2. Honest(Head(todo))
      BY <2>2, HeadTailProperties DEF WriteText, WriteInv, Base, TypeOK, OutTypes, HonestInv,
         HonestTodo
    <3>3. /\ Len(partial') = Len(partial) + 1 /\ Len(partial) \in Nat
          /\ partial'[Len(partial) + 1] = p
          /\ \A j \in 1 .. Len(partial) : partial'[j] = partial[j]
      BY <3>1, AppendFacts DEF Base, TypeOK, OutTypes
    <3> QED
      BY <1>2, <2>1, <3>1, <3>2, <3>3 DEF HonestPartial
  <2>3. CASE WriteRest
    BY <2>1, <2>3, WriteRestBase DEF HonestPartial
  <2>4. CASE WriteEnd
    BY <2>4 DEF WriteEnd, HonestPartial
  <2>5. CASE UNCHANGED partial
    BY <2>1, <2>5 DEF HonestPartial
  <2>6. WriteText \/ WriteRest \/ WriteEnd \/ UNCHANGED partial
    BY DEF Next, Reading, Writing, vars, ServerSends, ServerCuts, ServerEnds, Poll, SendRaw,
     Close, ReadHead, ReadLine, ReadEnd, WriteFails, Shutdown, ShutdownFails,
       CancelRead, CancelWrite, MemoryNext, MemorySendRaw, MemoryClose
  <2> QED
    BY <2>2, <2>3, <2>4, <2>5, <2>6
<1>5. HonestTodo'
  <2>1. \A j \in 1 .. Len(todo) : H(todo[j])
    BY <1>2 DEF HonestInv, HonestTodo
  <2>2. CASE ReadLine
    <3>1. todo' = todo \/ (todo' = <<Pong(Next1)>> /\ "ping" \in Seen(Next1))
      BY <2>2 DEF ReadLine
    <3>2. "ping" \in Seen(Next1) => Next1 \in Answerable'
      BY <2>2 DEF ReadLine, Seen, Answerable, Unread, Next1, Base, TypeOK, InTypes
    <3> QED
      BY <2>1, <3>1, <3>2 DEF HonestTodo, Honest, Pong
  <2>3. CASE SendRaw \/ Close
    <3>1. Say("RAW").cmd # "PONG"
      BY DEF Say
    <3> QED
      BY <2>3, <3>1, CommandFacts DEF SendRaw, Close, HonestTodo, Honest
  <2>4. CASE WriteEnd
    <3>1. /\ todo' = Tail(todo) /\ Len(Tail(todo)) = Len(todo) - 1 /\ Len(todo) \in Nat
          /\ \A i \in 1 .. Len(Tail(todo)) : Tail(todo)[i] = todo[i + 1]
      BY <2>4, HeadTailProperties DEF WriteEnd, Written, WriteInv, Base, TypeOK, OutTypes
    <3>2. \A i \in 1 .. Len(todo') : i + 1 \in 1 .. Len(todo) /\ todo'[i] = todo[i + 1]
      BY <3>1
    <3> QED
      BY <2>1, <3>2 DEF HonestTodo
  <2>5. CASE todo' = << >>
    BY <2>5 DEF HonestTodo
  <2>6. CASE UNCHANGED todo
    BY <2>1, <2>6 DEF HonestTodo
  <2>7. ReadLine \/ SendRaw \/ Close \/ WriteEnd \/ todo' = << >> \/ UNCHANGED todo
    BY DEF Next, Reading, Writing, vars, ServerSends, ServerCuts, ServerEnds, Poll, ReadHead,
       ReadEnd, WriteText, WriteRest, WriteFails, Abandoned, Shutdown, ShutdownFails,
       CancelRead, CancelWrite, MemoryNext, MemorySendRaw, MemoryClose
  <2> QED
    BY <2>2, <2>3, <2>4, <2>5, <2>6, <2>7
<1> QED
  BY <1>3, <1>4, <1>5 DEF HonestInv

----------------------------------------------------------------------------
(* Events.                                                                 *)

\* An event is added behind the others: for the line just taken, or for the
\* PING just answered.
Added(e) ==
    /\ Len(events') = Len(events) + 1
    /\ \A j \in 1 .. Len(events) : events'[j] = events[j]
    /\ events'[Len(events) + 1] = e

LEMMA EventsGrow ==
    ASSUME Base, [Next]_vars
    PROVE  /\ events \in Seq(Events) /\ Len(events) \in Nat /\ DOMAIN events = 1 .. Len(events)
           /\ \/ UNCHANGED events
              \/ ReadLine /\ inbound[Next1] = "privmsg" /\ Added(Event(Next1, "privmsg"))
              \/ ReadLine /\ Next1 \in torn /\ Added(Event(Next1, "privmsg"))
              \/ WriteEnd /\ op = "pong" /\ Added(Event(taken, "ping"))
              \/ MemoryNext /\ Added(Event(Next1, inbound[Next1]))
<1> USE DEF Base, TypeOK
<1>1. events \in Seq(Events) /\ Len(events) \in Nat /\ DOMAIN events = 1 .. Len(events)
  BY LenProperties DEF InTypes
<1>2. taken \in Nat /\ Next1 \in Nat
  BY DEF InTypes, Next1
<1>3. ASSUME NEW e \in Events, events' = Append(events, e)
      PROVE  Added(e)
  BY <1>1, <1>3, AppendFacts DEF Added
<1>4. CASE ReadLine
  <2>1. Event(Next1, "privmsg") \in Events
    BY <1>2, MessageTypes DEF Kinds
  <2>2. \/ UNCHANGED events
        \/ events' = Append(events, Event(Next1, "privmsg")) /\ "privmsg" \in Seen(Next1)
    BY <1>4 DEF ReadLine
  <2>3. "privmsg" \in Seen(Next1) => inbound[Next1] = "privmsg" \/ Next1 \in torn
    BY DEF Seen
  <2> QED
    BY <1>1, <1>3, <1>4, <2>1, <2>2, <2>3
<1>6. CASE WriteEnd
  <2>1. Event(taken, "ping") \in Events
    BY <1>2, MessageTypes DEF Kinds
  <2>2. op = "pong" => Head(todo).of = taken
    <3>1. op = "pong" => todo = <<Pong(taken)>>
      BY <1>6 DEF WriteEnd, WriteInv
    <3>2. Pong(taken) \in Messages
      BY <1>2, MessageTypes
    <3>3. Head(<<Pong(taken)>>) = Pong(taken)
      BY <3>2, SingletonFacts
    <3> QED
      BY <3>1, <3>3 DEF Pong
  <2>3. events' = IF op = "pong" THEN Append(events, Event(taken, "ping")) ELSE events
    BY <1>6, <2>2 DEF WriteEnd, Written
  <2> QED
    BY <1>1, <1>3, <1>6, <2>1, <2>3
<1>7. CASE MemoryNext
  <2>1. Next1 \in 1 .. Len(inbound)
    BY <1>7 DEF MemoryNext, Unread, Next1, InTypes
  <2>2. Event(Next1, inbound[Next1]) \in Events
    BY <1>2, <2>1, ElementOfSeq, MessageTypes DEF InTypes
  <2> QED
    BY <1>1, <1>3, <1>7, <2>2 DEF MemoryNext
<1>8. CASE UNCHANGED events
  BY <1>1, <1>8
<1>9. ReadLine \/ WriteEnd \/ MemoryNext \/ UNCHANGED events
  BY DEF Next, Reading, Writing, vars, ServerSends, ServerCuts, ServerEnds, Poll, SendRaw,
     Close, ReadHead, ReadEnd, WriteText, WriteRest, WriteFails, Shutdown, ShutdownFails,
     CancelRead, CancelWrite, MemorySendRaw, MemoryClose
<1> QED
  BY <1>4, <1>6, <1>7, <1>8, <1>9

\* A line becomes missing only as the PING a failed or dropped write answers.
LEMMA MissingGrows ==
    ASSUME Base, Base', HonestInv, MissingInv, [Next]_vars, NEW i \in Missing'
    PROVE  \/ i \in Missing \/ i \in torn
           \/ i = taken /\ i \in Answerable /\ (WriteFails \/ CancelWrite)
<1>1. /\ events \in Seq(Events) /\ DOMAIN events = 1 .. Len(events)
      /\ Len(events) \in Nat /\ Len(events') \in Nat /\ DOMAIN events' = 1 .. Len(events')
  BY EventsGrow, LenProperties DEF Base, TypeOK, InTypes
<1>2. /\ Len(events) <= Len(events')
      /\ \A j \in 1 .. Len(events) : events'[j] = events[j]
  <2>1. UNCHANGED events \/ \E e : Added(e)
    BY EventsGrow
  <2>2. CASE UNCHANGED events
    BY <1>1, <2>2
  <2>3. CASE \E e : Added(e)
    BY <1>1, <2>3 DEF Added
  <2> QED
    BY <2>1, <2>2, <2>3
<1>3. \A e : Added(e) => Len(events') \in DOMAIN events' /\ events'[Len(events')] = e
  BY <1>1 DEF Added
<1>4. /\ i \in 1 .. taken' /\ inbound'[i] \in {"privmsg", "ping"}
      /\ \A j \in DOMAIN events' : events'[j] # Event(i, inbound'[i])
      /\ ~(op' = "pong" /\ Head(todo').of = i)
  BY DEF Missing, Returned, Answering
<1>5. /\ taken \in Nat /\ taken <= Len(inbound) /\ Len(inbound) \in Nat
      /\ \A k \in 1 .. Len(inbound) : inbound'[k] = inbound[k]
  BY InputGrows DEF Base, TypeOK, InTypes
<1>6. \A k \in Nat : <<Pong(k)>> # << >> /\ Head(<<Pong(k)>>).of = k
  <2>1. \A k \in Nat : Pong(k) \in Messages /\ Pong(k).of = k
    BY MessageTypes DEF Pong
  <2> QED
    BY <2>1, SingletonFacts
<1>7. CASE i \in 1 .. taken
  <2>1. inbound'[i] = inbound[i] /\ ~Returned(i)
    BY <1>1, <1>2, <1>4, <1>5, <1>7 DEF Returned
  <2>2. CASE ~Answering(i)
    BY <1>4, <1>7, <2>1, <2>2 DEF Missing
  <2>3. CASE Answering(i)
    <3>1. op = "pong" /\ pc = "writing" /\ todo = <<Pong(taken)>> /\ i = taken
      BY <1>5, <1>6, <2>3 DEF Answering, MissingInv, Base, WriteInv
    <3>2. i \in Answerable
      <4>1. Len(todo) = 1 /\ todo[1] = Pong(taken)
        BY <1>5, <3>1, MessageTypes, SingletonFacts
      <4>2. Honest(Pong(taken))
        BY <4>1 DEF HonestInv, HonestTodo
      <4> QED
        BY <3>1, <4>2 DEF Honest, Pong
    <3>3. CASE WriteEnd
      <4>1. Added(Event(taken, "ping"))
        <5>1. Head(todo).of = taken /\ Event(taken, "ping") \in Events
          BY <1>5, <1>6, <3>1, MessageTypes DEF Kinds
        <5>2. events' = Append(events, Event(taken, "ping"))
          BY <3>1, <3>3, <5>1 DEF WriteEnd, Written
        <5> QED
          BY <1>1, <5>1, <5>2, AppendFacts DEF Added
      <4>2. inbound[i] # "ping"
        BY <1>3, <1>4, <2>1, <3>1, <4>1
      <4> QED
        BY <3>2, <4>2 DEF Answerable
    <3>4. CASE UNCHANGED <<op, todo>>
      BY <1>4, <2>3, <3>4 DEF Answering
    <3>5. WriteEnd \/ WriteFails \/ CancelWrite \/ UNCHANGED <<op, todo>>
      BY <3>1 DEF Next, Reading, Writing, vars, ServerSends, ServerCuts, ServerEnds, Poll,
         SendRaw, Close, ReadHead, ReadLine, ReadEnd, WriteText, WriteRest, Shutdown,
         ShutdownFails, CancelRead, MemoryNext, MemorySendRaw, MemoryClose
    <3> QED
      BY <3>1, <3>2, <3>3, <3>4, <3>5
  <2> QED
    BY <2>2, <2>3
<1>8. CASE i \notin 1 .. taken
  <2>1. /\ taken' = Next1 /\ Next1 = taken + 1 /\ UNCHANGED inbound
        /\ ReadLine \/ MemoryNext
    BY <1>4, <1>5, <1>8 DEF Next, Reading, Writing, vars, ServerSends, ServerCuts, ServerEnds,
       Poll, SendRaw, Close, ReadHead, ReadLine, ReadEnd, WriteText, WriteRest, WriteEnd,
       WriteFails, Shutdown, ShutdownFails, CancelRead, CancelWrite, MemoryNext,
       MemorySendRaw, MemoryClose, Next1
  <2>2. i = Next1 /\ inbound[i] \in {"privmsg", "ping"} /\ i \in Nat
    BY <1>4, <1>5, <1>8, <2>1
  <2>3. ASSUME events' = Append(events, Event(i, inbound[i]))
        PROVE  FALSE
    <3>1. Event(i, inbound[i]) \in Events
      BY <2>2, MessageTypes DEF Kinds
    <3>2. Added(Event(i, inbound[i]))
      BY <1>1, <2>3, <3>1, AppendFacts DEF Added
    <3> QED
      BY <1>3, <1>4, <2>1, <3>2
  <2>4. CASE ReadLine /\ i \notin torn
    <3>1. Seen(Next1) = {inbound[i]}
      BY <2>2, <2>4 DEF Seen
    <3>2. \/ events' = Append(events, Event(i, inbound[i]))
          \/ op' = "pong" /\ todo' = <<Pong(i)>>
      BY <2>2, <2>4, <3>1 DEF ReadLine
    <3> QED
      BY <1>4, <1>6, <2>2, <2>3, <3>2
  <2>5. CASE MemoryNext
    BY <2>2, <2>3, <2>5 DEF MemoryNext
  <2> QED
    BY <2>1, <2>4, <2>5
<1> QED
  BY <1>7, <1>8

LEMMA FiniteMissing ==
    ASSUME Base
    PROVE  /\ IsFiniteSet(torn \cup Missing) /\ Cardinality(torn \cup Missing) \in Nat
           /\ cancels \in Nat
<1>1. /\ torn \subseteq 1 .. Len(inbound) /\ Len(inbound) \in Nat
      /\ taken \in 0 .. Len(inbound) /\ cancels \in Nat
  BY DEF Base, TypeOK, InTypes, OutTypes
<1>2. torn \cup Missing \subseteq 1 .. Len(inbound)
  <2>1. Missing \subseteq 1 .. taken
    BY DEF Missing
  <2>2. 1 .. taken \subseteq 1 .. Len(inbound)
    BY <1>1
  <2> QED
    BY <1>1, <2>1, <2>2
<1>3. IsFiniteSet(torn \cup Missing)
  <2>1. IsFiniteSet(1 .. Len(inbound))
    BY <1>1, FS_Interval
  <2> QED
    BY <1>2, <2>1, FS_Subset
<1> QED
  BY <1>1, <1>3, FS_CardinalityType

\* A dropped call pays for the line it tears or whose PONG it leaves unwritten.
LEMMA MissingStep ==
    ASSUME Base, Base', HonestInv, MissingInv, [Next]_vars
    PROVE  MissingInv'
<1> DEFINE L == torn \cup Missing
<1>1. op' = "pong" => pc' = "writing"
  <2>1. CASE WriteEnd
    <3>1. op = "pong" => Len(todo) = 1
      BY <2>1, MessageTypes, SingletonFacts DEF WriteEnd, Base, WriteInv, TypeOK, InTypes
    <3> QED
      BY <2>1, <3>1 DEF WriteEnd, Written
  <2>2. CASE UNCHANGED <<pc, op>>
    BY <2>2 DEF MissingInv
  <2>3. CASE op' = "pong" => op = "pong" /\ pc # "writing"
    BY <2>3 DEF MissingInv
  <2>4. CASE ReadLine
    BY <2>4 DEF ReadLine, MissingInv
  <2>5. WriteEnd \/ ReadLine \/ UNCHANGED <<pc, op>>
        \/ (op' = "pong" => op = "pong" /\ pc # "writing")
    BY DEF Next, Reading, Writing, vars, ServerSends, ServerCuts, ServerEnds, Poll, SendRaw,
       Close, ReadHead, ReadEnd, WriteText, WriteRest, WriteFails, Abandoned, Shutdown,
       ShutdownFails, CancelRead, CancelWrite, MemoryNext, MemorySendRaw, MemoryClose
  <2> QED
    BY <2>1, <2>2, <2>3, <2>4, <2>5
<1>2. ASSUME NEW i \in Missing', inbound'[i] = "privmsg"
      PROVE  i \in torn'
  <2>1. torn \subseteq torn' /\ (i \in 1 .. taken => inbound'[i] = inbound[i])
    BY InputGrows DEF Base, TypeOK, InTypes
  <2>2. CASE i \in Missing
    BY <1>2, <2>1, <2>2 DEF MissingInv, Missing
  <2>3. CASE i \in Answerable
    BY <1>2, <2>1, <2>3 DEF Answerable
  <2> QED
    BY <2>1, <2>2, <2>3, MissingGrows
<1>3. ASSUME ~broken'
      PROVE  Cardinality(torn' \cup Missing') <= cancels'
  <2>1. ~broken
    BY <1>3 DEF Next, Reading, Writing, vars, ServerSends, ServerCuts, ServerEnds, Poll,
       SendRaw, Close, ReadHead, ReadLine, ReadEnd, WriteText, WriteRest, WriteEnd,
       WriteFails, Shutdown, ShutdownFails, CancelRead, CancelWrite, MemoryNext,
       MemorySendRaw, MemoryClose
  <2>2. Cardinality(L) <= cancels /\ IsFiniteSet(L) /\ Cardinality(L) \in Nat /\ cancels \in Nat
    BY <2>1, FiniteMissing DEF MissingInv
  <2>4. ~WriteFails
    BY <1>3 DEF WriteFails
  <2>5. ASSUME NEW x, torn' \cup Missing' \subseteq L \cup {x}, cancels' = cancels + 1
        PROVE  Cardinality(torn' \cup Missing') <= cancels'
    <3>1. IsFiniteSet(L \cup {x}) /\ Cardinality(L \cup {x}) <= Cardinality(L) + 1
      BY <2>2, FS_AddElement
    <3>2. Cardinality(L \cup {x}) \in Nat
      BY <3>1, FS_CardinalityType
    <3>3. /\ Cardinality(torn' \cup Missing') <= Cardinality(L \cup {x})
          /\ IsFiniteSet(torn' \cup Missing')
      BY <2>5, <3>1, FS_Subset
    <3>4. Cardinality(torn' \cup Missing') \in Nat
      BY <3>3, FS_CardinalityType
    <3> QED
      BY <2>2, <2>5, <3>1, <3>2, <3>3, <3>4
  <2>6. ASSUME torn' \cup Missing' \subseteq L, cancels' = cancels
        PROVE  Cardinality(torn' \cup Missing') <= cancels'
    <3>1. /\ Cardinality(torn' \cup Missing') <= Cardinality(L)
          /\ IsFiniteSet(torn' \cup Missing')
      BY <2>2, <2>6, FS_Subset
    <3>2. Cardinality(torn' \cup Missing') \in Nat
      BY <3>1, FS_CardinalityType
    <3> QED
      BY <2>2, <2>6, <3>1, <3>2
  <2>7. CASE CancelWrite
    <3>1. torn' = torn /\ cancels' = cancels + 1
      BY <2>7 DEF CancelWrite
    <3>2. torn' \cup Missing' \subseteq L \cup {taken}
      BY <3>1, MissingGrows
    <3> QED
      BY <2>5, <3>1, <3>2
  <2>8. CASE CancelRead
    <3>1. torn' \subseteq torn \cup {Next1} /\ cancels' = cancels + 1 /\ ~CancelWrite
      BY <2>8 DEF CancelRead, CancelWrite
    <3>2. torn' \cup Missing' \subseteq L \cup {Next1}
      BY <2>4, <3>1, MissingGrows
    <3> QED
      BY <2>5, <3>1, <3>2
  <2>9. CASE ~CancelWrite /\ UNCHANGED <<torn, cancels>>
    <3>1. torn' \cup Missing' \subseteq L
      BY <2>4, <2>9, MissingGrows
    <3> QED
      BY <2>6, <2>9, <3>1
  <2>10. CancelWrite \/ CancelRead \/ UNCHANGED <<torn, cancels>>
    BY DEF Next, Reading, Writing, vars, ServerSends, ServerCuts, ServerEnds, Poll, SendRaw,
       Close, ReadHead, ReadLine, ReadEnd, WriteText, WriteRest, WriteEnd, WriteFails,
       Shutdown, ShutdownFails, MemoryNext, MemorySendRaw, MemoryClose
  <2> QED
    BY <2>7, <2>8, <2>9, <2>10
<1> QED
  BY <1>1, <1>2, <1>3 DEF MissingInv

\* The PONG of a WriteEnd, or of the in-memory client, is on the wire when the
\* event of its PING is added.
LEMMA PongStep ==
    ASSUME Base, Base', PongInv, [Next]_vars
    PROVE  PongInv'
<1>1. /\ DOMAIN events = 1 .. Len(events) /\ DOMAIN events' = 1 .. Len(events')
      /\ Len(events) \in Nat
  BY EventsGrow, LenProperties DEF Base, TypeOK, InTypes
<1>2. \A c : Sent(c) => Sent(c)'
  BY SentGrows
<1>3. ASSUME NEW e, Added(e), e.kind = "ping" => Sent(Pong(e.line))'
      PROVE  PongInv'
  <2> SUFFICES ASSUME NEW j \in DOMAIN events', events'[j].kind = "ping"
               PROVE  \E k \in DOMAIN wire' : \E p \in DOMAIN wire'[k] :
                         wire'[k][p] = Piece(Pong(events'[j].line), TRUE)
    BY DEF PongInv, Sent
  <2>1. CASE j \in 1 .. Len(events)
    <3>1. events'[j] = events[j]
      BY <1>3, <2>1 DEF Added
    <3>2. Sent(Pong(events[j].line))
      BY <1>1, <2>1, <3>1 DEF PongInv
    <3> QED
      BY <1>2, <3>1, <3>2 DEF Sent
  <2>2. CASE j = Len(events) + 1
    <3>1. events'[j] = e
      BY <1>3, <2>2 DEF Added
    <3>2. Sent(Pong(e.line))'
      BY <1>3, <3>1
    <3> QED
      BY <3>1, <3>2 DEF Sent
  <2>3. j \in 1 .. Len(events) \/ j = Len(events) + 1
    BY <1>1, <1>3 DEF Added
  <2> QED
    BY <2>1, <2>2, <2>3
<1>4. CASE UNCHANGED events
  BY <1>2, <1>4 DEF PongInv, Sent
<1>5. CASE Added(Event(Next1, "privmsg"))
  <2>1. \A e : e = Event(Next1, "privmsg") => e.kind # "ping"
    BY DEF Event
  <2> QED
    BY <1>3, <1>5, <2>1
<1>6. CASE WriteEnd /\ op = "pong" /\ Added(Event(taken, "ping"))
  <2> DEFINE n == Len(partial)
             p == partial[n]
  <2>1. /\ partial \in Seq(Pieces) /\ n \in 1 .. n /\ n \in Nat
        /\ p.text = Head(todo) /\ p.whole /\ todo = <<Pong(taken)>>
    BY <1>6, EmptySeq DEF WriteEnd, WriteInv, Base, TypeOK, OutTypes
  <2>2. Pong(taken) \in Messages
    BY MessageTypes DEF Base, TypeOK, InTypes
  <2>3. p \in Pieces /\ p.text = Pong(taken)
    BY <2>1, <2>2, ElementOfSeq, SingletonFacts
  <2>4. p = Piece(Pong(taken), TRUE)
    BY <2>1, <2>3 DEF Pieces, Piece
  <2>5. n \in DOMAIN partial
    BY <2>1, LenProperties
  <2>6. /\ Len(wire) + 1 \in DOMAIN wire'
        /\ wire'[Len(wire) + 1] = partial
    BY <1>6, <2>1, AppendFacts DEF WriteEnd, Base, TypeOK, OutTypes
  <2>7. \E k \in DOMAIN wire' : \E q \in DOMAIN wire'[k] :
           wire'[k][q] = Piece(Pong(taken), TRUE)
    BY <2>4, <2>5, <2>6
  <2> QED
    <3>1. \A e : e = Event(taken, "ping") => e.line = taken
      BY DEF Event
    <3>2. \A c : c = taken => Sent(Pong(c))'
      BY <2>7 DEF Sent
    <3> QED
      BY <1>3, <1>6, <3>1, <3>2
<1>7. CASE MemoryNext /\ Added(Event(Next1, inbound[Next1]))
  <2>1. ASSUME inbound[Next1] = "ping"
        PROVE  \E k \in DOMAIN wire' : \E q \in DOMAIN wire'[k] :
                  wire'[k][q] = Piece(Pong(Next1), TRUE)
    <3> DEFINE l == <<Piece(Pong(Next1), TRUE)>>
    <3>1. Pong(Next1) \in Messages
      BY MessageTypes DEF Next1, Base, TypeOK, InTypes
    <3>2. l \in Seq(Pieces) /\ 1 \in DOMAIN l /\ l[1] = Piece(Pong(Next1), TRUE)
      <4>1. Piece(Pong(Next1), TRUE) \in Pieces
        BY <3>1, PieceFacts
      <4>2. l \in Seq(Pieces) /\ Len(l) = 1 /\ l[1] = Piece(Pong(Next1), TRUE)
        BY <4>1, SingletonFacts
      <4> HIDE DEF l
      <4> QED
        BY <4>2, LenProperties
    <3>3. wire' = Append(wire, l) /\ wire \in Seq(Seq(Pieces))
      BY <1>7, <2>1 DEF MemoryNext, Base, TypeOK, OutTypes
    <3> HIDE DEF l
    <3>4. Len(wire) + 1 \in DOMAIN wire' /\ wire'[Len(wire) + 1] = l
      BY <3>2, <3>3, AppendFacts
    <3> QED
      BY <3>2, <3>4
  <2> DEFINE e == Event(Next1, inbound[Next1])
  <2>2. e.line = Next1 /\ e.kind = inbound[Next1]
    BY DEF Event
  <2>3. \A c : (\E k \in DOMAIN wire' : \E q \in DOMAIN wire'[k] :
                   wire'[k][q] = Piece(Pong(c), TRUE)) => Sent(Pong(c))'
    BY DEF Sent
  <2>4. \A c : c = Next1 /\ inbound[Next1] = "ping" => Sent(Pong(c))'
    BY <2>1, <2>3
  <2> HIDE DEF e
  <2>5. ASSUME NEW f, Added(f), f = e
        PROVE  PongInv'
    BY <1>3, <2>2, <2>4, <2>5
  <2> QED
    BY <1>7, <2>5 DEF e
<1> QED
  BY <1>4, <1>5, <1>6, <1>7, EventsGrow

\* Events follow the order of their lines.
LEMMA OrderStep ==
    ASSUME Base, Base', OrderInv, [Next]_vars
    PROVE  OrderInv'
<1>1. /\ events \in Seq(Events) /\ DOMAIN events = 1 .. Len(events)
      /\ DOMAIN events' = 1 .. Len(events')
      /\ Len(events) \in Nat /\ Len(events') \in Nat
  BY EventsGrow, LenProperties DEF Base, TypeOK, InTypes
<1>2. taken \in Nat /\ taken <= Len(inbound) /\ Len(inbound) \in Nat
  BY DEF Base, TypeOK, InTypes
<1>3. \A j \in DOMAIN events : events[j].line \in Nat
  <2>1. \A j \in DOMAIN events : events[j] \in Events
    BY <1>1, ElementOfSeq
  <2> QED
    BY <2>1 DEF Events
<1>4. ASSUME NEW e, Added(e), e.line \in Nat, e.line <= taken',
             \A j \in DOMAIN events : events[j].line < e.line,
             taken' \in Nat,
             ~(op' = "pong" /\ pc' = "writing")
      PROVE  OrderInv'
  <2> DEFINE n == Len(events)
  <2>1. /\ Len(events') = n + 1 /\ events'[n + 1] = e
        /\ \A j \in 1 .. n : events'[j] = events[j]
    BY <1>4 DEF Added
  <2>2. ASSUME NEW j \in DOMAIN events', NEW k \in DOMAIN events', j < k
        PROVE  events'[j].line < events'[k].line
    <3>1. j \in 1 .. n /\ k \in 1 .. n + 1
      BY <1>1, <2>1, <2>2
    <3>2. CASE k = n + 1
      BY <1>1, <1>4, <2>1, <3>1, <3>2
    <3>3. CASE k \in 1 .. n
      BY <1>1, <2>1, <2>2, <3>1, <3>3 DEF OrderInv
    <3> QED
      BY <1>1, <3>1, <3>2, <3>3
  <2>3. ASSUME NEW j \in DOMAIN events'
        PROVE  events'[j].line <= taken'
    <3>1. CASE j \in 1 .. n
      BY <1>1, <1>3, <1>4, <2>1, <3>1
    <3>2. CASE j = n + 1
      BY <1>4, <2>1, <3>2
    <3> QED
      BY <1>1, <2>1, <3>1, <3>2
  <2> QED
    BY <1>4, <2>2, <2>3 DEF OrderInv
<1>5. \A j \in DOMAIN events : events[j].line <= taken
  BY DEF OrderInv
<1>6. ASSUME UNCHANGED events, taken <= taken', taken' \in Nat,
             op' = "pong" /\ pc' = "writing" =>
                \A j \in DOMAIN events : events[j].line < taken'
      PROVE  OrderInv'
  BY <1>2, <1>3, <1>5, <1>6 DEF OrderInv
<1>7. CASE \/ \E k \in Kinds : ServerSends(k) \/ ServerCuts(k)
           \/ \E how \in {"eof", "reset"} : ServerEnds(how)
  <2>1. UNCHANGED <<events, taken, pc, op>>
    BY <1>7 DEF ServerSends, ServerCuts, ServerEnds
  <2> QED
    BY <1>2, <1>6, <2>1 DEF OrderInv
<1>8. CASE ReadLine
  <2>1. /\ Unread /\ taken' = Next1 /\ Next1 = taken + 1
        /\ \A j \in DOMAIN events : events[j].line < taken'
    BY <1>2, <1>3, <1>5, <1>8 DEF ReadLine, Next1
  <2>2. CASE UNCHANGED events
    BY <1>2, <1>6, <2>1, <2>2
  <2>3. CASE ~UNCHANGED events
    <3>1. PICK e : e = Event(Next1, "privmsg") /\ Added(e)
      <4>1. ReadLine => ~WriteEnd /\ ~MemoryNext
        BY DEF ReadLine, WriteEnd, MemoryNext
      <4> QED
        BY <1>8, <2>3, <4>1, EventsGrow
    <3>2. e.line = Next1
      BY <3>1 DEF Event
    <3>3. pc' = "idle"
      BY <1>8, <2>3 DEF ReadLine
    <3> QED
      BY <1>2, <1>3, <1>4, <2>1, <3>1, <3>2, <3>3
  <2> QED
    BY <2>2, <2>3
<1>10. CASE WriteEnd
  <2>1. /\ UNCHANGED <<inbound, taken, ended>> /\ pc = "writing"
        /\ ~(op' = "pong" /\ pc' = "writing")
    <3>1. op = "pong" => Len(todo) = 1
      <4>1. op = "pong" => todo = <<Pong(taken)>>
        BY <1>10 DEF WriteEnd, Base, WriteInv
      <4> QED
        BY <4>1
    <3> QED
      BY <1>10, <3>1 DEF WriteEnd, Written
  <2>2. CASE UNCHANGED events
    BY <1>2, <1>6, <2>1, <2>2
  <2>3. CASE ~UNCHANGED events
    <3>1. PICK e : e = Event(taken, "ping") /\ Added(e) /\ op = "pong"
      <4>1. WriteEnd => ~ReadLine
        BY DEF ReadLine, WriteEnd
      <4>2. WriteEnd => ~MemoryNext
        BY DEF WriteEnd, MemoryNext, Base, WriteInv
      <4> QED
        BY <1>10, <2>3, <4>1, <4>2, EventsGrow
    <3>2. e.line = taken
      BY <3>1 DEF Event
    <3>3. \A j \in DOMAIN events : events[j].line < taken
      BY <2>1, <3>1 DEF OrderInv
    <3> QED
      BY <1>2, <1>3, <1>4, <2>1, <3>1, <3>2, <3>3
  <2> QED
    BY <2>2, <2>3
<1>11. CASE MemoryNext
  <2>1. /\ Unread /\ taken' = Next1 /\ Next1 = taken + 1 /\ UNCHANGED <<pc, op>>
        /\ pc = "idle"
        /\ \A j \in DOMAIN events : events[j].line < taken'
    BY <1>2, <1>3, <1>5, <1>11 DEF MemoryNext, Next1, Base, WriteInv
  <2>2. PICK e : e = Event(Next1, inbound[Next1]) /\ Added(e)
    <3>1. inbound[Next1] \in Kinds
      BY <1>2, <2>1, ElementOfSeq DEF Unread, Base, TypeOK, InTypes
    <3>2. Event(Next1, inbound[Next1]) \in Events
      BY <1>2, <2>1, <3>1, MessageTypes
    <3>3. Added(Event(Next1, inbound[Next1]))
      BY <1>1, <1>11, <3>2, AppendFacts DEF MemoryNext, Added
    <3> QED
      BY <3>3
  <2>3. e.line = Next1
    BY <2>2 DEF Event
  <2> QED
    BY <1>2, <1>3, <1>4, <2>1, <2>2, <2>3
<1>12. CASE UNCHANGED <<events, taken>>
            /\ (op' = "pong" /\ pc' = "writing" => op = "pong" /\ pc = "writing")
  BY <1>2, <1>6, <1>12 DEF OrderInv
<1>13. \/ \E k \in Kinds : ServerSends(k) \/ ServerCuts(k)
       \/ \E how \in {"eof", "reset"} : ServerEnds(how)
       \/ ReadLine \/ WriteEnd \/ MemoryNext
       \/ /\ UNCHANGED <<events, taken>>
          /\ op' = "pong" /\ pc' = "writing" => op = "pong" /\ pc = "writing"
  BY DEF Next, Reading, Writing, vars, Poll, SendRaw, Close, ReadHead, ReadEnd, WriteText,
     WriteRest, WriteFails, Abandoned, Shutdown, ShutdownFails, CancelRead, CancelWrite,
     MemorySendRaw, MemoryClose
<1> QED
  BY <1>7, <1>8, <1>10, <1>11, <1>12, <1>13

----------------------------------------------------------------------------
(* Damage.                                                                 *)

LEMMA FiniteDamage ==
    ASSUME Base
    PROVE  /\ IsFiniteSet(torn) /\ Cardinality(torn) \in Nat
           /\ IsFiniteSet(Damaged) /\ Cardinality(Damaged) \in Nat
<1>1. torn \subseteq 1 .. Len(inbound) /\ Len(inbound) \in Nat
  BY DEF Base, TypeOK, InTypes
<1>2. Damaged \subseteq 1 .. Len(wire) /\ Len(wire) \in Nat
  <2>1. wire \in Seq(Seq(Pieces))
    BY DEF Base, TypeOK, OutTypes
  <2>2. DOMAIN wire = 1 .. Len(wire) /\ Len(wire) \in Nat
    BY <2>1, LenProperties
  <2> QED
    BY <2>2 DEF Damaged
<1>3. IsFiniteSet(1 .. Len(inbound)) /\ IsFiniteSet(1 .. Len(wire))
  BY <1>1, <1>2, FS_Interval
<1>4. IsFiniteSet(torn) /\ IsFiniteSet(Damaged)
  BY <1>1, <1>2, <1>3, FS_Subset
<1> QED
  BY <1>4, FS_CardinalityType

\* A dropped call pays for what it tears, or for the line it leaves unfinished.
LEMMA DamageStep ==
    ASSUME Base, ReadInv, Base', DamageInv, [Next]_vars
    PROVE  DamageInv'
<1>1. /\ IsFiniteSet(torn) /\ Cardinality(torn) \in Nat
      /\ IsFiniteSet(Damaged) /\ Cardinality(Damaged) \in Nat
      /\ cancels \in Nat
  BY FiniteDamage DEF Base, TypeOK, OutTypes
<1>2. Spoiled \in {0, 1} /\ Spoiled' \in {0, 1}
  BY DEF Spoiled
<1>3. CASE WriteEnd
  <2>1. /\ UNCHANGED <<torn, cancels, broken>> /\ partial' = << >> /\ ~broken
        /\ half = "text" /\ wire' = Append(wire, partial)
    BY <1>3 DEF WriteEnd, Written
  <2>2. Spoiled' = 0
    BY <2>1 DEF Spoiled
  <2>3. /\ partial \in Seq(Pieces) /\ Len(partial) \in Nat /\ Len(partial) >= 1
        /\ partial[Len(partial)].whole /\ partial # << >>
    <3>1. partial \in Seq(Pieces) /\ partial # << >> /\ partial[Len(partial)].whole
      BY <2>1 DEF Base, TypeOK, OutTypes, WriteInv
    <3> QED
      BY <3>1, EmptySeq
  <2>4. /\ DOMAIN wire = 1 .. Len(wire) /\ DOMAIN wire' = 1 .. Len(wire) + 1
        /\ \A j \in 1 .. Len(wire) : wire'[j] = wire[j]
        /\ wire'[Len(wire) + 1] = partial /\ Len(wire) \in Nat
    BY <2>1, <2>3, AppendFacts DEF Base, TypeOK, OutTypes
  <2>5. CASE Len(partial) = 1
    <3>1. partial[1].whole
      BY <2>3, <2>5
    <3>2. ~(Len(wire) + 1 \in Damaged') /\ Damaged' \subseteq 1 .. Len(wire) + 1
      BY <2>4, <2>5, <3>1 DEF Damaged
    <3>3. \A j \in 1 .. Len(wire) : j \in Damaged' <=> j \in Damaged
      BY <2>4 DEF Damaged
    <3>4. Damaged \subseteq 1 .. Len(wire)
      BY <2>4 DEF Damaged
    <3>5. Damaged' = Damaged
      <4>1. \A j \in Damaged' : j \in 1 .. Len(wire)
        BY <2>4, <3>2
      <4> QED
        BY <3>3, <3>4, <4>1
    <3> QED
      BY <1>1, <1>2, <2>1, <2>2, <3>5 DEF DamageInv
  <2>6. CASE Len(partial) # 1
    <3>1. Spoiled = 1
      <4> DEFINE n == Len(partial)
      <4>1. n \in Nat /\ n >= 1 /\ n # 1
        BY <2>3, <2>6
      <4>2. n > 1
        <5> HIDE DEF n
        <5> QED
          BY <4>1
      <4>3. ~broken /\ partial # << >>
        BY <2>1, <2>3
      <4> QED
        BY <4>2, <4>3 DEF Spoiled
    <3>2. Damaged' = Damaged \cup {Len(wire) + 1}
      <4>1. Len(wire) + 1 \in Damaged' /\ Damaged' \subseteq 1 .. Len(wire) + 1
        BY <2>4, <2>6 DEF Damaged
      <4>2. \A j \in 1 .. Len(wire) : j \in Damaged' <=> j \in Damaged
        BY <2>4 DEF Damaged
      <4>3. Damaged \subseteq 1 .. Len(wire)
        BY <2>4 DEF Damaged
      <4>4. \A j \in Damaged' : j = Len(wire) + 1 \/ j \in 1 .. Len(wire)
        BY <2>4, <4>1
      <4> QED
        BY <4>1, <4>2, <4>3, <4>4
    <3>3. Cardinality(Damaged') <= Cardinality(Damaged) + 1 /\ Cardinality(Damaged') \in Nat
      <4> DEFINE x == Len(wire) + 1
      <4>1. /\ IsFiniteSet(Damaged \cup {x})
            /\ Cardinality(Damaged \cup {x}) =
                  IF x \in Damaged THEN Cardinality(Damaged) ELSE Cardinality(Damaged) + 1
        BY <1>1, FS_AddElement
      <4>2. Cardinality(Damaged') = Cardinality(Damaged \cup {x})
        BY <3>2
      <4> QED
        BY <1>1, <4>1, <4>2
    <3> QED
      BY <1>1, <2>1, <2>2, <3>1, <3>3 DEF DamageInv
  <2> QED
    BY <2>5, <2>6
<1>4. CASE MemoryNext \/ MemorySendRaw \/ MemoryClose
  <2>1. LinesAdded
    BY <1>4, MemoryWire
  <2>2. /\ DOMAIN wire = 1 .. Len(wire) /\ DOMAIN wire' = 1 .. Len(wire')
        /\ Len(wire) \in Nat /\ Len(wire') \in Nat /\ Len(wire) <= Len(wire')
        /\ \A j \in 1 .. Len(wire) : wire'[j] = wire[j]
    BY WireGrows
  <2>3. \A j \in Len(wire) + 1 .. Len(wire') : Len(wire'[j]) = 1 /\ wire'[j][1].whole
    BY <2>1 DEF LinesAdded
  <2>4. \A j \in DOMAIN wire' : j \in 1 .. Len(wire) \/ j \in Len(wire) + 1 .. Len(wire')
    BY <2>2
  <2>5. Damaged' = Damaged
    BY <2>2, <2>3, <2>4 DEF Damaged
  <2>6. UNCHANGED <<torn, cancels, broken, partial, half>>
    BY <1>4 DEF MemoryNext, MemorySendRaw, MemoryClose
  <2> QED
    BY <2>5, <2>6 DEF DamageInv, Spoiled
<1>5. CASE WriteText
  <2>1. PICK p \in Pieces : partial' = Append(partial, p)
    BY <1>5, WriteTextBase
  <2>2. partial \in Seq(Pieces) /\ partial' \in Seq(Pieces)
    BY DEF Base, TypeOK, OutTypes
  <2>3. Len(partial') = Len(partial) + 1 /\ Len(partial) \in Nat
    BY <2>1, <2>2, AppendFacts
  <2>4. partial # << >> <=> Len(partial') > 1
    BY <2>2, <2>3, EmptySeq
  <2>5. partial' # << >>
    BY <2>2, <2>3, NotEmpty
  <2>6. half = "none" /\ half' # "none" /\ UNCHANGED <<broken, wire, torn, cancels>>
    BY <1>5 DEF WriteText
  <2>7. Spoiled' = Spoiled
    BY <2>4, <2>5, <2>6 DEF Spoiled
  <2>8. Damaged' = Damaged
    BY <2>6 DEF Damaged
  <2> QED
    BY <2>6, <2>7, <2>8 DEF DamageInv
<1>6. CASE WriteRest
  <2>1. Len(partial') = Len(partial) /\ partial # << >>
    BY <1>6, WriteRestBase
  <2>2. partial \in Seq(Pieces) /\ partial' \in Seq(Pieces)
    BY DEF Base, TypeOK, OutTypes
  <2>3. partial' # << >>
    BY <2>1, <2>2, EmptySeq, NotEmpty
  <2>4. half = "part" /\ half' = "text" /\ UNCHANGED <<broken, wire, torn, cancels>>
    BY <1>6 DEF WriteRest
  <2>5. Spoiled' = Spoiled
    BY <2>1, <2>3, <2>4 DEF Spoiled
  <2>6. Damaged' = Damaged
    BY <2>4 DEF Damaged
  <2> QED
    BY <2>4, <2>5, <2>6 DEF DamageInv
<1>7. CASE WriteFails \/ ShutdownFails
  <2>1. broken' /\ UNCHANGED <<torn, wire, cancels>>
    BY <1>7 DEF WriteFails, ShutdownFails
  <2>2. Spoiled' = 0 /\ Damaged' = Damaged
    BY <2>1 DEF Spoiled, Damaged
  <2> QED
    BY <1>1, <1>2, <2>1, <2>2 DEF DamageInv
<1>8. CASE CancelWrite
  <2>1. UNCHANGED <<torn, wire>> /\ cancels' = cancels + 1
    BY <1>8 DEF CancelWrite
  <2>2. Damaged' = Damaged
    BY <2>1 DEF Damaged
  <2> QED
    BY <1>1, <1>2, <2>1, <2>2 DEF DamageInv
<1>9. CASE CancelRead
  <2>1. /\ torn' = torn \/ torn' = torn \cup {Next1}
        /\ UNCHANGED <<wire, partial, half, broken>> /\ cancels' = cancels + 1
    BY <1>9 DEF CancelRead
  <2>2. Cardinality(torn') <= Cardinality(torn) + 1 /\ Cardinality(torn') \in Nat
    BY <1>1, <2>1, FS_AddElement, FS_CardinalityType
  <2>3. Damaged' = Damaged /\ Spoiled' = Spoiled
    BY <2>1 DEF Damaged, Spoiled
  <2> QED
    BY <1>1, <1>2, <2>1, <2>2, <2>3 DEF DamageInv
<1>10. CASE UNCHANGED <<torn, wire, partial, half, broken, cancels>>
  BY <1>10 DEF DamageInv, Damaged, Spoiled
<1>11. \/ WriteEnd \/ MemoryNext \/ MemorySendRaw \/ MemoryClose \/ WriteText \/ WriteRest
       \/ WriteFails \/ ShutdownFails \/ CancelWrite \/ CancelRead
       \/ UNCHANGED <<torn, wire, partial, half, broken, cancels>>
  BY DEF Next, Reading, Writing, vars, ServerSends, ServerCuts, ServerEnds, Poll, SendRaw,
     Close, ReadHead, ReadLine, ReadEnd, Shutdown
<1> QED
  BY <1>3, <1>4, <1>5, <1>6, <1>7, <1>8, <1>9, <1>10, <1>11

----------------------------------------------------------------------------
(* The theorems.                                                           *)

LEMMA InitInv == Init => Inv
<1> SUFFICES ASSUME Init
             PROVE  Inv
  OBVIOUS
<1>1. Base
  BY InitBase
<1>2. /\ taken = 0 /\ events = << >> /\ torn = {} /\ partial = << >> /\ cancels = 0
      /\ buffer = "none" /\ op # "pong" /\ half = "none"
  BY DEF Init
<1>3. wire = << >> \/ wire = Whole(connect_commands)
  BY DEF Init
<1>4. todo = << >> \/ todo = connect_commands
  BY DEF Init
<1>5. /\ Len(wire) \in Nat /\ DOMAIN wire = 1 .. Len(wire)
      /\ \A j \in 1 .. Len(wire) :
            Len(wire[j]) = 1 /\ wire[j][1].whole /\ wire[j][1].text.cmd # "PONG"
  <2>1. CASE wire = << >>
    BY <2>1
  <2>2. CASE wire = Whole(connect_commands)
    <3> DEFINE c == connect_commands
    <3>1. /\ Len(wire) = Len(c) /\ wire \in Seq(Seq(Pieces)) /\ c \in Seq(Messages)
          /\ \A j \in 1 .. Len(c) : wire[j] = <<Piece(c[j], TRUE)>> /\ c[j].cmd # "PONG"
      BY <2>2, CommandFacts, WholeFacts
    <3>2. ASSUME NEW j \in 1 .. Len(c)
          PROVE  Len(wire[j]) = 1 /\ wire[j][1].whole /\ wire[j][1].text.cmd # "PONG"
      <4>1. c[j] \in Messages
        BY <3>1, ElementOfSeq
      <4>2. /\ Piece(c[j], TRUE) \in Pieces /\ Piece(c[j], TRUE).text = c[j]
            /\ Piece(c[j], TRUE).whole
        BY <4>1, PieceFacts
      <4>3. Len(wire[j]) = 1 /\ wire[j][1] = Piece(c[j], TRUE)
        BY <3>1, <4>2, SingletonFacts
      <4> QED
        BY <3>1, <4>2, <4>3
    <3> QED
      BY <3>1, <3>2, LenProperties
  <2> QED
    BY <1>3, <2>1, <2>2
<1>6. ReadInv
  BY <1>2 DEF ReadInv
<1>7. HonestInv
  <2>1. HonestWire
    <3> SUFFICES ASSUME NEW j \in 1 .. Len(wire), NEW p \in 1 .. Len(wire[j])
                 PROVE  wire[j][p].text.cmd # "PONG"
      BY DEF HonestWire, Honest
    <3>1. Len(wire[j]) = 1 /\ wire[j][1].text.cmd # "PONG"
      BY <1>5
    <3>2. p = 1
      BY <3>1
    <3> QED
      BY <3>1, <3>2
  <2>2. HonestPartial
    BY <1>2 DEF HonestPartial
  <2>3. HonestTodo
    BY <1>4, CommandFacts DEF HonestTodo, Honest
  <2> QED
    BY <2>1, <2>2, <2>3 DEF HonestInv
<1>8. PongInv /\ OrderInv
  BY <1>2 DEF PongInv, OrderInv
<1>10. MissingInv
  <2>1. torn \cup Missing = {}
    BY <1>2 DEF Missing
  <2> QED
    BY <1>2, <2>1, FS_EmptySet DEF MissingInv
<1>9. DamageInv
  <2>1. Damaged = {}
    BY <1>5 DEF Damaged
  <2>2. Spoiled = 0
    BY <1>2 DEF Spoiled
  <2> QED
    BY <1>2, <2>1, <2>2, FS_EmptySet DEF DamageInv
<1> QED
  BY <1>1, <1>6, <1>7, <1>8, <1>9, <1>10 DEF Inv, Base

LEMMA NextInv == Inv /\ [Next]_vars => Inv'
<1> SUFFICES ASSUME Inv, [Next]_vars
             PROVE  Inv'
  OBVIOUS
<1>1. Base /\ ReadInv /\ HonestInv /\ PongInv /\ OrderInv /\ MissingInv /\ DamageInv
  BY DEF Inv, Base
<1>2. Base' /\ ReadInv'
  BY <1>1, BaseStep, ReadInvStep
<1>3. HonestInv' /\ PongInv' /\ OrderInv' /\ MissingInv' /\ DamageInv'
  BY <1>1, <1>2, HonestStep, PongStep, OrderStep, MissingStep, DamageStep
<1> QED
  BY <1>2, <1>3 DEF Inv, Base

LEMMA Invariant == Spec => []Inv
BY InitInv, NextInv, PTL DEF Spec

\* Every variable keeps its type, for any number of lines, calls and drops.
THEOREM TypeCorrect == Spec => []TypeOK
<1>1. Inv => TypeOK
  BY DEF Inv
<1> QED
  BY <1>1, Invariant, PTL

\* The event of a PING comes after its whole PONG, and only a PING, or a line
\* torn by a dropped call, is answered.
THEOREM PongTheorem == Spec => []PongBeforePing
<1>1. ASSUME Inv
      PROVE  PongBeforePing
  <2>1. \A j \in DOMAIN events : events[j].kind = "ping" => Sent(Pong(events[j].line))
    BY <1>1 DEF Inv, PongInv
  <2>2. ASSUME NEW i \in 1 .. taken, Sent(Pong(i))
        PROVE  inbound[i] = "ping" \/ i \in torn
    <3>1. wire \in Seq(Seq(Pieces)) /\ HonestWire
      BY <1>1 DEF Inv, TypeOK, OutTypes, HonestInv
    <3>2. PICK j \in DOMAIN wire : \E p \in DOMAIN wire[j] : wire[j][p] = Piece(Pong(i), TRUE)
      BY <2>2 DEF Sent
    <3>3. PICK p \in DOMAIN wire[j] : wire[j][p] = Piece(Pong(i), TRUE)
      BY <3>2
    <3>4. j \in 1 .. Len(wire)
      BY <3>1, <3>2, LenProperties
    <3>5. wire[j] \in Seq(Pieces)
      BY <3>1, <3>4, ElementOfSeq
    <3>6. p \in 1 .. Len(wire[j])
      BY <3>3, <3>5, LenProperties
    <3>7. Honest(wire[j][p].text) /\ wire[j][p].text = Pong(i)
      BY <3>1, <3>3, <3>4, <3>6 DEF HonestWire, Piece
    <3> QED
      BY <3>7 DEF Honest, Answerable, Pong
  <2> QED
    BY <2>1, <2>2 DEF PongBeforePing
<1> QED
  BY <1>1, Invariant, PTL

\* Events follow the order of the lines, a message is lost only with its head in
\* a dropped call, a PING with the call that answers it or the connection, and
\* each dropped call costs one line at most.
THEOREM LinesTheorem == Spec => []LinesBecomeEvents
<1>1. ASSUME Inv
      PROVE  LinesBecomeEvents
  <2>1. \A j, k \in DOMAIN events : j < k => events[j].line < events[k].line
    BY <1>1 DEF Inv, OrderInv
  <2>2. MissingInv
    BY <1>1 DEF Inv
  <2>3. Cardinality(torn) + Cardinality(Damaged) <= cancels
    <3>1. Base
      BY <1>1 DEF Inv, Base
    <3>2. Cardinality(torn) \in Nat /\ Cardinality(Damaged) \in Nat /\ cancels \in Nat
      BY <3>1, FiniteDamage DEF Base, TypeOK, OutTypes
    <3>3. Spoiled \in {0, 1}
      BY DEF Spoiled
    <3> QED
      BY <1>1, <3>2, <3>3 DEF Inv, DamageInv
  <2> QED
    BY <2>1, <2>2, <2>3 DEF LinesBecomeEvents, MissingInv
<1> QED
  BY <1>1, Invariant, PTL

----------------------------------------------------------------------------
(* The goodbye of a closed client.                                         *)

\* close writes PART, then QUIT, then shuts the connection down, and nothing
\* writes between.  Nobody else says PART or QUIT.
LeavingInv ==
    /\ op = "close" => pc \in {"writing", "shutdown"}
    /\ op = "close" /\ pc = "writing" =>
          \/ todo = disconnect_commands
          \/ todo = <<Say("QUIT")>> /\ wire # << >> /\ Ends(Len(wire), "PART")
    /\ pc = "shutdown" => /\ op = "close" /\ ~broken
                          /\ Len(wire) >= 2
                          /\ Ends(Len(wire) - 1, "PART") /\ Ends(Len(wire), "QUIT")
    /\ pc = "writing" /\ op # "close" =>
          \A j \in 1 .. Len(todo) : todo[j].cmd \notin {"PART", "QUIT"}
    /\ closed => pc = "idle"
    /\ client = "memory" => ~broken

\* Before the client is closed, and unless a call was dropped or a write has
\* failed, only the close in progress has said PART or QUIT, last of all.
Leaving(j) ==
    /\ op = "close"
    /\ \/ pc = "shutdown" /\ j >= Len(wire) - 1
       \/ pc = "writing" /\ todo = <<Say("QUIT")>> /\ j = Len(wire)

QuietInv ==
    cancels = 0 /\ ~broken /\ ~closed =>
        \A j \in 1 .. Len(wire) : Leaves(j) => Leaving(j)

GoodbyeInv == LeavingInv /\ QuietInv /\ CloseSaysGoodbye

Plain(cs) == \A j \in 1 .. Len(cs) : cs[j].cmd \notin {"PART", "QUIT"}

\* The commands of the other operations.
LEMMA PlainCommands ==
    /\ Plain(connect_commands)
    /\ Plain(<<Say("RAW")>>)
    /\ \A i \in Nat : Plain(<<Pong(i)>>)
<1> DEFINE Other == {m \in Messages : m.cmd \notin {"PART", "QUIT"}}
           Caps == IF Capabilities THEN <<Say("CAP")>> ELSE << >>
<1>1. \A c \in {"PASS", "NICK", "CAP", "JOIN", "RAW"} : Say(c) \in Other
  BY DEF Say, Messages, Commands
<1>2. \A i \in Nat : Pong(i) \in Other
  BY DEF Pong, Messages
<1>3. \A s \in Seq(Other) : Plain(s)
  BY ElementOfSeq DEF Plain
<1>4. Say("PASS") \in Other /\ Say("NICK") \in Other /\ Say("CAP") \in Other
      /\ Say("JOIN") \in Other /\ Say("RAW") \in Other
  BY <1>1
<1> HIDE DEF Other
<1>5. <<Say("PASS"), Say("NICK")>> \in Seq(Other)
  BY <1>4, PairFacts
<1>6. <<Say("CAP")>> \in Seq(Other) /\ <<Say("JOIN")>> \in Seq(Other)
      /\ <<Say("RAW")>> \in Seq(Other)
  BY <1>4, SingletonFacts
<1>7. << >> \in Seq(Other)
  OBVIOUS
<1>8. Caps \in Seq(Other)
  BY <1>6, <1>7
<1> HIDE DEF Caps
<1>9. (<<Say("PASS"), Say("NICK")>> \o Caps) \o <<Say("JOIN")>> \in Seq(Other)
  BY <1>5, <1>6, <1>8, ConcatProperties
<1>10. connect_commands \in Seq(Other)
  BY <1>9 DEF connect_commands, Caps
<1>11. \A i \in Nat : <<Pong(i)>> \in Seq(Other)
  BY <1>2, SingletonFacts
<1> QED
  BY <1>3, <1>6, <1>10, <1>11

\* What a step does to an operation that writes: it leaves it alone, begins it,
\* ends a line of it, gives it up or shuts the connection down.
CallStays ==
    /\ UNCHANGED <<client, wire, broken, op, todo, closed>>
    /\ \/ pc' = pc
       \/ {pc, pc'} \subseteq {"idle", "reading"} /\ (closed => pc' = "idle")
    /\ cancels' \in {cancels, cancels + 1}

CallBegins ==
    /\ UNCHANGED <<client, wire, broken, closed, cancels>>
    /\ client = "tcp" /\ (pc = "reading" \/ (pc = "idle" /\ ~closed)) /\ pc' = "writing"
    /\ \/ op' = "close" /\ todo' = disconnect_commands
       \/ op' # "close" /\ Plain(todo')

CallGivenUp ==
    /\ UNCHANGED <<client, wire, closed>>
    /\ pc \in {"writing", "shutdown"} /\ pc' \in {"idle", "gone"} /\ op' = "none"
    /\ \/ broken' /\ cancels' = cancels
       \/ broken' = broken /\ cancels' = cancels + 1

LEMMA CallSteps ==
    ASSUME Base, [Next]_vars
    PROVE  \/ CallStays \/ CallBegins \/ CallGivenUp \/ WriteEnd \/ Shutdown
           \/ MemoryNext \/ MemorySendRaw \/ MemoryClose
<1>1. CASE \/ \E k \in Kinds : ServerSends(k) \/ ServerCuts(k)
           \/ \E how \in {"eof", "reset"} : ServerEnds(how)
           \/ Poll \/ ReadHead \/ ReadEnd \/ CancelRead
           \/ WriteText \/ WriteRest \/ UNCHANGED vars
  BY <1>1 DEF ServerSends, ServerCuts, ServerEnds, Poll, ReadHead, ReadEnd, CancelRead,
              WriteText, WriteRest, vars, CallStays
<1>2. CASE SendRaw \/ Close
  BY <1>2, PlainCommands DEF SendRaw, Close, CallBegins
<1>3. CASE ReadLine
  <2>1. Next1 \in Nat
    BY DEF Base, TypeOK, InTypes, Next1
  <2> QED
    BY <1>3, <2>1, PlainCommands DEF ReadLine, CallBegins, CallStays
<1>4. CASE WriteFails \/ ShutdownFails \/ CancelWrite
  BY <1>4 DEF WriteFails, ShutdownFails, CancelWrite, Abandoned, CallGivenUp
<1> QED
  BY <1>1, <1>2, <1>3, <1>4 DEF Next, Reading, Writing

\* The line that ends is the pending one, and its last piece is the command.
LEMMA LineEnds ==
    ASSUME Base, WriteEnd
    PROVE  /\ Len(wire) \in Nat /\ Len(wire') = Len(wire) + 1 /\ wire' # << >>
           /\ \A j \in 1 .. Len(wire) : wire'[j] = wire[j]
           /\ wire'[Len(wire) + 1] = partial
           /\ partial \in Seq(Pieces) /\ Len(partial) \in Nat /\ Len(partial) >= 1
           /\ partial[Len(partial)] = Piece(Head(todo), TRUE)
<1>1. /\ wire \in Seq(Seq(Pieces)) /\ partial \in Seq(Pieces) /\ partial # << >>
      /\ partial[Len(partial)].text = Head(todo) /\ partial[Len(partial)].whole
  BY DEF WriteEnd, Base, TypeOK, OutTypes, WriteInv
<1>2. wire' = Append(wire, partial)
  BY DEF WriteEnd
<1>3. /\ Len(wire) \in Nat /\ Len(wire') = Len(wire) + 1 /\ wire' \in Seq(Seq(Pieces))
      /\ \A j \in 1 .. Len(wire) : wire'[j] = wire[j]
      /\ wire'[Len(wire) + 1] = partial
  BY <1>1, <1>2, AppendFacts
<1>4. Len(partial) \in Nat /\ Len(partial) >= 1
  BY <1>1, EmptySeq
<1>5. partial[Len(partial)] \in Pieces
  BY <1>1, <1>4, ElementOfSeq
<1>6. partial[Len(partial)] = Piece(Head(todo), TRUE)
  BY <1>1, <1>5 DEF Pieces, Piece
<1> QED
  BY <1>1, <1>3, <1>4, <1>6, EmptySeq

\* What is left to write after it.
LEMMA CommandsLeft ==
    ASSUME Base, WriteEnd
    PROVE  /\ todo \in Seq(Messages) /\ todo # << >> /\ todo' = Tail(todo)
           /\ Len(todo) \in Nat /\ Len(todo) >= 1 /\ Head(todo) = todo[1]
           /\ Len(todo') = Len(todo) - 1
           /\ \A j \in 1 .. Len(todo') : todo'[j] = todo[j + 1]
           /\ pc = "writing" /\ ~broken /\ client = "tcp"
           /\ UNCHANGED <<client, broken, closed, cancels>>
           /\ \/ Len(todo) > 1 /\ pc' = "writing" /\ op' = op
              \/ Len(todo) = 1 /\ op = "close" /\ pc' = "shutdown" /\ op' = op
              \/ Len(todo) = 1 /\ op # "close" /\ pc' = "idle" /\ op' = "none"
<1>1. todo \in Seq(Messages) /\ todo # << >> /\ todo' = Tail(todo)
  BY DEF WriteEnd, Written, Base, TypeOK, OutTypes, WriteInv
<1>2. /\ Len(todo) \in Nat /\ Len(todo) >= 1 /\ Head(todo) = todo[1]
      /\ Len(Tail(todo)) = Len(todo) - 1
      /\ \A j \in 1 .. Len(Tail(todo)) : Tail(todo)[j] = todo[j + 1]
  BY <1>1, EmptySeq, HeadTailProperties
<1>3. pc = "writing" /\ ~broken /\ UNCHANGED <<client, broken, closed, cancels>>
  BY DEF WriteEnd
<1>4. client = "tcp"
  BY <1>3 DEF Base, TypeOK, InTypes, WriteInv
<1>5. \/ Len(todo) > 1 /\ pc' = "writing" /\ op' = op
      \/ Len(todo) = 1 /\ op = "close" /\ pc' = "shutdown" /\ op' = op
      \/ Len(todo) = 1 /\ op # "close" /\ pc' = "idle" /\ op' = "none"
  <2>1. /\ pc' = IF Len(todo) > 1 THEN "writing"
                ELSE IF op = "close" THEN "shutdown" ELSE "idle"
        /\ op' = IF pc' = "idle" THEN "none" ELSE op
    BY DEF WriteEnd, Written
  <2>2. Len(todo) > 1 \/ Len(todo) = 1
    <3>1. \A n \in Nat : n >= 1 => n > 1 \/ n = 1
      OBVIOUS
    <3> QED
      BY <1>2, <3>1
  <2> QED
    BY <2>1, <2>2
<1> QED
  BY <1>1, <1>2, <1>3, <1>4, <1>5

\* The lines of the disconnect commands.
LEMMA DisconnectFacts ==
    /\ Len(disconnect_commands) = 2
    /\ disconnect_commands[1] = Say("PART") /\ disconnect_commands[2] = Say("QUIT")
    /\ Say("PART") \in Messages /\ Say("QUIT") \in Messages
BY DEF disconnect_commands, Say, Messages, Commands

LEMMA LeavingWriteEnd ==
    ASSUME Base, LeavingInv, WriteEnd
    PROVE  LeavingInv'
<1>1. /\ Len(wire) \in Nat /\ Len(wire') = Len(wire) + 1 /\ wire' # << >>
      /\ \A j \in 1 .. Len(wire) : wire'[j] = wire[j]
      /\ wire'[Len(wire')][Len(wire'[Len(wire')])] = Piece(Head(todo), TRUE)
  BY LineEnds
<1>2. CASE op # "close"
  <2>1. op' # "close" /\ pc' \in {"writing", "idle"} /\ todo' = Tail(todo)
    BY <1>2, CommandsLeft
  <2>2. \A j \in 1 .. Len(todo') : todo'[j].cmd \notin {"PART", "QUIT"}
    <3> SUFFICES ASSUME NEW j \in 1 .. Len(todo')
                 PROVE  todo'[j].cmd \notin {"PART", "QUIT"}
      OBVIOUS
    <3>1. todo'[j] = todo[j + 1] /\ j + 1 \in 1 .. Len(todo) /\ pc = "writing"
      BY CommandsLeft
    <3> QED
      BY <1>2, <3>1 DEF LeavingInv
  <2> QED
    BY <2>1, <2>2, CommandsLeft DEF LeavingInv
<1>3. CASE op = "close" /\ todo = disconnect_commands
  <2>1. Head(todo) = Say("PART") /\ Len(todo) = 2
    BY <1>3, CommandsLeft, DisconnectFacts
  <2>2. todo' = <<Say("QUIT")>>
    BY <1>3, CommandsLeft DEF disconnect_commands
  <2>3. pc' = "writing" /\ op' = "close" /\ ~closed /\ ~closed' /\ client' # "memory"
    BY <1>3, <2>1, CommandsLeft DEF LeavingInv
  <2>4. Ends(Len(wire), "PART")'
    BY <1>1, <2>1 DEF Ends
  <2> QED
    BY <1>1, <2>2, <2>3, <2>4 DEF LeavingInv
<1>4. CASE op = "close" /\ todo = <<Say("QUIT")>> /\ wire # << >> /\ Ends(Len(wire), "PART")
  <2>1. Head(todo) = Say("QUIT") /\ Len(todo) = 1
    BY <1>4, CommandsLeft
  <2>2. pc' = "shutdown" /\ op' = "close" /\ ~closed /\ ~closed' /\ client' # "memory" /\ ~broken'
    BY <1>4, <2>1, CommandsLeft DEF LeavingInv
  <2>3. Ends(Len(wire), "QUIT")'
    BY <1>1, <2>1 DEF Ends
  <2>4. Len(wire) >= 1
    <3>1. wire \in Seq(Seq(Pieces))
      BY DEF Base, TypeOK, OutTypes
    <3> QED
      BY <1>1, <1>4, <3>1, EmptySeq
  <2>5. Len(wire') - 1 = Len(wire) /\ wire'[Len(wire)] = wire[Len(wire)] /\ Len(wire') >= 2
    BY <1>1, <2>4
  <2>6. Ends(Len(wire) - 1, "PART")'
    BY <1>4, <2>5 DEF Ends
  <2> QED
    BY <2>2, <2>3, <2>5, <2>6 DEF LeavingInv
<1>5. op = "close" =>
         \/ todo = disconnect_commands
         \/ todo = <<Say("QUIT")>> /\ wire # << >> /\ Ends(Len(wire), "PART")
  BY CommandsLeft DEF LeavingInv
<1> QED
  BY <1>2, <1>3, <1>4, <1>5

LEMMA LeavingStep ==
    ASSUME Base, LeavingInv, [Next]_vars
    PROVE  LeavingInv'
<1>1. CASE CallStays
  <2>1. \A j, c : Ends(j, c)' <=> Ends(j, c)
    BY <1>1 DEF CallStays, Ends
  <2>2. UNCHANGED <<client, wire, broken, op, todo, closed>>
    BY <1>1 DEF CallStays
  <2>3. CASE pc' = pc
    BY <2>1, <2>2, <2>3 DEF LeavingInv
  <2>4. CASE {pc, pc'} \subseteq {"idle", "reading"} /\ (closed => pc' = "idle")
    <3>1. pc \in {"idle", "reading"} /\ pc' \in {"idle", "reading"}
      BY <2>4
    <3> QED
      BY <2>1, <2>2, <2>4, <3>1 DEF LeavingInv
  <2> QED
    BY <1>1, <2>3, <2>4 DEF CallStays
<1>2. CASE CallBegins
  BY <1>2 DEF CallBegins, LeavingInv, Plain
<1>3. CASE CallGivenUp
  <2>1. ~closed' /\ client' = "tcp"
    BY <1>3 DEF CallGivenUp, LeavingInv, Base, TypeOK, InTypes, WriteInv
  <2> QED
    BY <1>3, <2>1 DEF CallGivenUp, LeavingInv
<1>4. CASE Shutdown
  BY <1>4 DEF Shutdown, LeavingInv
<1>5. CASE MemoryNext \/ MemorySendRaw \/ MemoryClose
  <2>1. pc = "idle" /\ UNCHANGED <<client, pc, op, todo, broken>>
    BY <1>5 DEF MemoryNext, MemorySendRaw, MemoryClose, Base, WriteInv
  <2> QED
    BY <2>1 DEF LeavingInv
<1> QED
  BY <1>1, <1>2, <1>3, <1>4, <1>5, CallSteps, LeavingWriteEnd

\* Without dropped calls the pending line is the one command being written.
LEMMA OnePiece ==
    ASSUME Base, DamageInv, WriteEnd, cancels = 0
    PROVE  wire'[Len(wire')][1].text = Head(todo)
<1>1. /\ Len(wire') = Len(wire) + 1 /\ Len(wire) \in Nat /\ wire'[Len(wire) + 1] = partial
      /\ partial \in Seq(Pieces) /\ Len(partial) \in Nat /\ Len(partial) >= 1
      /\ partial[Len(partial)] = Piece(Head(todo), TRUE)
  BY LineEnds
<1>2. Cardinality(torn) \in Nat /\ Cardinality(Damaged) \in Nat
  BY FiniteDamage
<1>3. Spoiled = 0
  <2>1. Spoiled \in {0, 1}
    BY DEF Spoiled
  <2> QED
    BY <1>2, <2>1 DEF DamageInv
<1>4. Len(partial) = 1
  <2>1. partial # << >> /\ ~broken
    BY <1>1 DEF WriteEnd
  <2>2. ~ (half = "none" \/ Len(partial) > 1)
    BY <1>3, <2>1 DEF Spoiled
  <2>3. \A k \in Nat : k >= 1 /\ ~ (k > 1) => k = 1
    OBVIOUS
  <2> QED
    BY <1>1, <2>2, <2>3
<1> QED
  BY <1>1, <1>4 DEF Piece

\* The lines the in-memory client adds.
LEMMA MemoryLines ==
    ASSUME Base, MemoryNext \/ MemorySendRaw \/ MemoryClose
    PROVE  /\ Len(wire) \in Nat /\ Len(wire') \in Nat /\ Len(wire) <= Len(wire')
           /\ \A j \in 1 .. Len(wire) : wire'[j] = wire[j]
           /\ MemoryNext => \A j \in Len(wire) + 1 .. Len(wire') :
                               wire'[j][1].text.cmd = "PONG"
           /\ MemorySendRaw => \A j \in Len(wire) + 1 .. Len(wire') : ~Leaves(j)'
           /\ MemoryClose => /\ Len(wire') = Len(wire) + 2
                             /\ Ends(Len(wire) - 1, "PART")' /\ Ends(Len(wire), "QUIT")'
<1>1. wire \in Seq(Seq(Pieces)) /\ Len(wire) \in Nat
  BY DEF Base, TypeOK, OutTypes
<1>2. /\ wire' \in Seq(Seq(Pieces)) /\ Len(wire') \in Nat /\ Len(wire) <= Len(wire')
      /\ \A j \in 1 .. Len(wire) : wire'[j] = wire[j]
  <2>1. LinesAdded
    BY MemoryWire
  <2> QED
    BY <1>1, <2>1 DEF LinesAdded
<1>3. ASSUME NEW m \in Messages, wire' = Append(wire, <<Piece(m, TRUE)>>)
      PROVE  \A j \in Len(wire) + 1 .. Len(wire') : wire'[j][1].text = m
  <2> DEFINE l == <<Piece(m, TRUE)>>
  <2>1. l \in Seq(Pieces) /\ l[1].text = m
    BY PieceFacts, SingletonFacts
  <2> HIDE DEF l
  <2>2. wire' = Append(wire, l)
    BY <1>3 DEF l
  <2>3. Len(wire') = Len(wire) + 1 /\ wire'[Len(wire) + 1] = l
    BY <1>1, <2>1, <2>2, AppendFacts
  <2>4. \A j \in Len(wire) + 1 .. Len(wire') : j = Len(wire) + 1
    BY <1>1, <2>3
  <2> QED
    BY <2>1, <2>3, <2>4
<1>4. ASSUME MemoryNext
      PROVE  \A j \in Len(wire) + 1 .. Len(wire') : wire'[j][1].text.cmd = "PONG"
  <2>1. Pong(Next1) \in Messages /\ Pong(Next1).cmd = "PONG"
    <3>1. Next1 \in Nat
      BY DEF Next1, Base, TypeOK, InTypes
    <3> QED
      BY <3>1, MessageTypes DEF Pong
  <2>2. wire' = wire \/ wire' = Append(wire, <<Piece(Pong(Next1), TRUE)>>)
    BY <1>4 DEF MemoryNext
  <2>3. CASE wire' = wire
    BY <1>1, <2>3
  <2>4. CASE wire' = Append(wire, <<Piece(Pong(Next1), TRUE)>>)
    BY <1>3, <2>1, <2>4
  <2> QED
    BY <2>2, <2>3, <2>4
<1>5. ASSUME MemorySendRaw
      PROVE  \A j \in Len(wire) + 1 .. Len(wire') : ~Leaves(j)'
  <2>1. Say("RAW") \in Messages /\ Say("RAW").cmd = "RAW"
    BY MessageTypes DEF Say, Commands
  <2>2. wire' = Append(wire, <<Piece(Say("RAW"), TRUE)>>)
    BY <1>5 DEF MemorySendRaw
  <2>3. \A j \in Len(wire) + 1 .. Len(wire') : wire'[j][1].text = Say("RAW")
    BY <1>3, <2>1, <2>2
  <2> QED
    BY <2>1, <2>3 DEF Leaves
<1>6. ASSUME MemoryClose
      PROVE  /\ Len(wire') = Len(wire) + 2
             /\ Ends(Len(wire) - 1, "PART")' /\ Ends(Len(wire), "QUIT")'
  <2> DEFINE w == Whole(disconnect_commands)
             n == Len(wire)
  <2>1. /\ w \in Seq(Seq(Pieces)) /\ Len(w) = 2
        /\ w[1] = <<Piece(Say("PART"), TRUE)>> /\ w[2] = <<Piece(Say("QUIT"), TRUE)>>
    <3>1. /\ disconnect_commands \in Seq(Messages)
          /\ Len(disconnect_commands) = 2
          /\ disconnect_commands[1] = Say("PART") /\ disconnect_commands[2] = Say("QUIT")
      BY CommandFacts, DisconnectFacts
    <3> HIDE DEF w
    <3>2. /\ w \in Seq(Seq(Pieces)) /\ Len(w) = 2
          /\ \A j \in 1 .. 2 : w[j] = <<Piece(disconnect_commands[j], TRUE)>>
      BY <3>1, WholeFacts DEF w
    <3>3. 1 \in 1 .. 2 /\ 2 \in 1 .. 2
      OBVIOUS
    <3> QED
      BY <3>1, <3>2, <3>3
  <2>2. w[1][Len(w[1])] = Piece(Say("PART"), TRUE) /\ w[2][Len(w[2])] = Piece(Say("QUIT"), TRUE)
    BY <2>1
  <2>3. wire' = wire \o w
    BY <1>6 DEF MemoryClose
  <2> HIDE DEF w
  <2>4. /\ Len(wire \o w) = n + Len(w)
        /\ \A i \in 1 .. n + Len(w) : (wire \o w)[i] = IF i <= n THEN wire[i] ELSE w[i - n]
    BY <1>1, <2>1, ConcatProperties
  <2>5. /\ Len(wire') = n + 2 /\ wire'[n + 1] = w[1] /\ wire'[n + 2] = w[2]
    <3>1. n \in Nat
      BY <1>1
    <3> HIDE DEF n
    <3>2. /\ Len(wire') = n + 2
          /\ \A i \in 1 .. n + 2 : wire'[i] = IF i <= n THEN wire[i] ELSE w[i - n]
      BY <2>1, <2>3, <2>4, <3>1
    <3>3. /\ n + 1 \in 1 .. n + 2 /\ ~ (n + 1 <= n) /\ (n + 1) - n = 1
          /\ n + 2 \in 1 .. n + 2 /\ ~ (n + 2 <= n) /\ (n + 2) - n = 2
      BY <3>1
    <3> QED
      BY <3>2, <3>3
  <2>6. Len(wire') - 1 = n + 1
    BY <1>1, <2>5
  <2> QED
    BY <2>2, <2>5, <2>6 DEF Ends
<1> QED
  BY <1>1, <1>2, <1>4, <1>5, <1>6

LEMMA QuietWriteEnd ==
    ASSUME Base, DamageInv, LeavingInv, QuietInv, WriteEnd
    PROVE  QuietInv'
<1> SUFFICES ASSUME cancels = 0, ~broken, ~closed, NEW j \in 1 .. Len(wire'), Leaves(j)'
             PROVE  Leaving(j)'
  BY CommandsLeft DEF QuietInv
<1>1. /\ Len(wire') = Len(wire) + 1 /\ Len(wire) \in Nat
      /\ \A i \in 1 .. Len(wire) : wire'[i] = wire[i]
      /\ wire'[Len(wire')][1].text = Head(todo)
  BY LineEnds, OnePiece
<1>2. /\ pc = "writing" /\ todo \in Seq(Messages)
      /\ Head(todo) = todo[1] /\ 1 \in 1 .. Len(todo)
  BY CommandsLeft
<1>3. CASE j \in 1 .. Len(wire)
  <2>1. Leaves(j)
    BY <1>1, <1>3 DEF Leaves
  <2>2. op = "close" /\ todo = <<Say("QUIT")>> /\ j = Len(wire)
    BY <1>2, <1>3, <2>1 DEF QuietInv, Leaving
  <2>3. Len(todo) = 1
    BY <2>2
  <2>4. pc' = "shutdown" /\ op' = "close"
    BY <2>2, <2>3, CommandsLeft
  <2> QED
    BY <1>1, <2>2, <2>4 DEF Leaving
<1>4. CASE j = Len(wire')
  <2>1. Head(todo).cmd \in {"PART", "QUIT"}
    BY <1>1, <1>4 DEF Leaves
  <2>2. op = "close"
    BY <1>2, <2>1 DEF LeavingInv
  <2>3. CASE todo = disconnect_commands
    <3>1. Len(todo) = 2 /\ todo' = <<Say("QUIT")>>
      BY <2>3, CommandsLeft, DisconnectFacts DEF disconnect_commands
    <3>2. pc' = "writing" /\ op' = "close"
      BY <2>2, <3>1, CommandsLeft
    <3> QED
      BY <1>4, <3>1, <3>2 DEF Leaving
  <2>4. CASE todo = <<Say("QUIT")>>
    <3>1. Len(todo) = 1
      BY <2>4
    <3>2. pc' = "shutdown" /\ op' = "close"
      BY <2>2, <3>1, CommandsLeft
    <3> QED
      BY <1>1, <1>4, <3>2 DEF Leaving
  <2> QED
    BY <1>2, <2>2, <2>3, <2>4 DEF LeavingInv
<1>5. j \in 1 .. Len(wire) \/ j = Len(wire')
  BY <1>1
<1> QED
  BY <1>3, <1>4, <1>5

LEMMA QuietStep ==
    ASSUME Base, DamageInv, LeavingInv, QuietInv, [Next]_vars
    PROVE  QuietInv'
<1>0. cancels \in Nat
  BY DEF Base, TypeOK, OutTypes
<1>1. CASE CallStays
  <2>1. /\ UNCHANGED <<broken, op, todo, closed, wire>> /\ (cancels' = 0 => cancels = 0)
        /\ \A j : Leaves(j)' <=> Leaves(j)
    BY <1>0, <1>1 DEF CallStays, Leaves
  <2>2. \A j : Leaving(j) => Leaving(j)'
    <3>1. pc' = pc \/ pc \in {"idle", "reading"}
      BY <1>1 DEF CallStays
    <3> QED
      BY <2>1, <3>1 DEF Leaving
  <2> QED
    BY <2>1, <2>2 DEF QuietInv
<1>2. CASE CallBegins
  <2>1. UNCHANGED <<wire, broken, closed, cancels>> /\ \A j : ~Leaving(j)
    BY <1>2 DEF CallBegins, Leaving
  <2>2. \A j : Leaves(j)' <=> Leaves(j)
    BY <2>1 DEF Leaves
  <2> QED
    BY <2>1, <2>2 DEF QuietInv
<1>3. CASE CallGivenUp
  <2>1. broken' \/ cancels' # 0
    BY <1>0, <1>3 DEF CallGivenUp
  <2> QED
    BY <2>1 DEF QuietInv
<1>4. CASE Shutdown
  BY <1>4 DEF Shutdown, QuietInv
<1>5. CASE MemoryNext \/ MemorySendRaw \/ MemoryClose
  <2>1. UNCHANGED <<broken, cancels, pc, op, todo>> /\ pc = "idle" /\ (~closed' => ~closed)
    <3>1. client = "memory" /\ UNCHANGED <<broken, cancels, pc, op, todo>>
      BY <1>5 DEF MemoryNext, MemorySendRaw, MemoryClose
    <3>2. closed' = closed \/ closed' = TRUE
      BY <1>5 DEF MemoryNext, MemorySendRaw, MemoryClose
    <3> QED
      BY <3>1, <3>2 DEF Base, WriteInv
  <2>2. SUFFICES ASSUME cancels = 0, ~broken, ~closed, ~closed',
                        NEW j \in 1 .. Len(wire'), Leaves(j)'
                 PROVE  FALSE
    BY <2>1 DEF QuietInv
  <2>3. ~MemoryClose
    BY <2>2 DEF MemoryClose
  <2>4. CASE j \in 1 .. Len(wire)
    <3>1. wire'[j] = wire[j]
      BY <1>5, <2>4, MemoryLines
    <3>2. Leaving(j)
      BY <2>2, <2>4, <3>1 DEF Leaves, QuietInv
    <3> QED
      BY <2>1, <3>2 DEF Leaving
  <2>5. CASE j \in Len(wire) + 1 .. Len(wire')
    BY <1>5, <2>2, <2>3, <2>5, MemoryLines DEF Leaves
  <2>6. j \in 1 .. Len(wire) \/ j \in Len(wire) + 1 .. Len(wire')
    BY <1>5, MemoryLines
  <2> QED
    BY <2>4, <2>5, <2>6
<1> QED
  BY <1>1, <1>2, <1>3, <1>4, <1>5, CallSteps, QuietWriteEnd

LEMMA GoodbyeStep ==
    ASSUME Base, LeavingInv, QuietInv, CloseSaysGoodbye, [Next]_vars
    PROVE  CloseSaysGoodbye'
<1>0. cancels \in Nat
  BY DEF Base, TypeOK, OutTypes
<1>1. CASE CallStays \/ CallBegins \/ CallGivenUp
  <2>1. UNCHANGED <<client, wire, closed>> /\ (cancels' = 0 => cancels = 0)
    BY <1>0, <1>1 DEF CallStays, CallBegins, CallGivenUp
  <2>2. \A j, c : (Ends(j, c)' <=> Ends(j, c)) /\ (Leaves(j)' <=> Leaves(j))
    BY <2>1 DEF Ends, Leaves
  <2> QED
    BY <2>1, <2>2 DEF CloseSaysGoodbye
<1>2. CASE WriteEnd
  BY <1>2, CommandsLeft DEF LeavingInv, CloseSaysGoodbye
<1>3. CASE Shutdown
  <2> DEFINE q == Len(wire)
  <2>1. /\ pc = "shutdown" /\ ~closed /\ UNCHANGED <<client, wire, cancels>>
    BY <1>3 DEF Shutdown, LeavingInv
  <2>2. /\ ~broken /\ q >= 2 /\ Ends(q - 1, "PART") /\ Ends(q, "QUIT")
    BY <2>1 DEF LeavingInv
  <2>3. q \in Nat
    BY DEF Base, TypeOK, OutTypes
  <2>4. cancels = 0 => \A j \in 1 .. q - 2 : ~Leaves(j)
    <3> SUFFICES ASSUME cancels = 0, NEW j \in 1 .. q - 2
                 PROVE  ~Leaves(j)
      OBVIOUS
    <3>1. j \in 1 .. q /\ ~ (j >= q - 1)
      BY <2>3
    <3>2. ~Leaving(j)
      BY <2>1, <3>1 DEF Leaving
    <3> QED
      BY <2>1, <2>2, <3>1, <3>2 DEF QuietInv
  <2>5. \A j, c : (Ends(j, c)' <=> Ends(j, c)) /\ (Leaves(j)' <=> Leaves(j))
    BY <2>1 DEF Ends, Leaves
  <2> HIDE DEF q
  <2>6. Len(wire') = q
    BY <2>1 DEF q
  <2>7. q \in 2 .. q /\ (q + 1) .. q = {}
    BY <2>2, <2>3
  <2> QED
    BY <2>1, <2>2, <2>4, <2>5, <2>6, <2>7 DEF CloseSaysGoodbye
<1>4. CASE MemoryNext \/ MemorySendRaw
  <2>1. UNCHANGED <<client, closed, cancels>> /\ client = "memory" /\ (MemorySendRaw => ~closed)
    BY <1>4 DEF MemoryNext, MemorySendRaw
  <2>2. SUFFICES ASSUME closed
                 PROVE  CloseSaysGoodbye'
    BY <2>1 DEF CloseSaysGoodbye
  <2>3. MemoryNext
    BY <1>4, <2>1, <2>2
  <2>4. PICK q \in 2 .. Len(wire) :
            /\ Ends(q - 1, "PART") /\ Ends(q, "QUIT")
            /\ \A j \in q + 1 .. Len(wire) : client = "memory" /\ wire[j][1].text.cmd = "PONG"
            /\ cancels = 0 => \A j \in 1 .. q - 2 : ~Leaves(j)
    BY <2>2 DEF CloseSaysGoodbye
  <2>5. /\ Len(wire) \in Nat /\ Len(wire') \in Nat /\ Len(wire) <= Len(wire')
        /\ \A j \in 1 .. Len(wire) : wire'[j] = wire[j]
        /\ \A j \in Len(wire) + 1 .. Len(wire') : wire'[j][1].text.cmd = "PONG"
    BY <2>3, MemoryLines
  <2>6. \A j \in 1 .. Len(wire) : /\ \A c : Ends(j, c)' <=> Ends(j, c)
                                  /\ Leaves(j)' <=> Leaves(j)
    BY <2>5 DEF Ends, Leaves
  <2>7. /\ q \in 2 .. Len(wire') /\ q \in 1 .. Len(wire) /\ q - 1 \in 1 .. Len(wire)
        /\ \A j \in 1 .. q - 2 : j \in 1 .. Len(wire)
        /\ \A j \in q + 1 .. Len(wire') :
              \/ j \in 1 .. Len(wire) /\ j \in q + 1 .. Len(wire)
              \/ j \in Len(wire) + 1 .. Len(wire')
    BY <2>5
  <2>8. Ends(q - 1, "PART")' /\ Ends(q, "QUIT")'
    BY <2>4, <2>6, <2>7
  <2>9. \A j \in q + 1 .. Len(wire') : client' = "memory" /\ wire'[j][1].text.cmd = "PONG"
    BY <2>1, <2>4, <2>5, <2>7
  <2>10. cancels' = 0 => \A j \in 1 .. q - 2 : ~Leaves(j)'
    BY <2>1, <2>4, <2>6, <2>7
  <2> QED
    BY <2>7, <2>8, <2>9, <2>10 DEF CloseSaysGoodbye
<1>5. CASE MemoryClose
  <2>1. ~closed /\ pc = "idle" /\ ~broken /\ UNCHANGED <<client, cancels>>
    BY <1>5 DEF MemoryClose, Base, WriteInv, LeavingInv
  <2>0. PICK q \in Nat : q = Len(wire')
    BY <1>5, MemoryLines
  <2>2. /\ Len(wire) \in Nat /\ q = Len(wire) + 2
        /\ \A j \in 1 .. Len(wire) : wire'[j] = wire[j]
        /\ Ends(Len(wire) - 1, "PART")' /\ Ends(Len(wire), "QUIT")'
    BY <1>5, <2>0, MemoryLines
  <2>3. cancels = 0 => \A j \in 1 .. Len(wire) : ~Leaves(j)
    BY <2>1 DEF QuietInv, Leaving
  <2>4. cancels' = 0 => \A j \in 1 .. q - 2 : ~Leaves(j)'
    <3>1. q - 2 = Len(wire)
      BY <2>2
    <3> QED
      BY <2>1, <2>2, <2>3, <3>1 DEF Leaves
  <2>5. Ends(q - 1, "PART")' /\ Ends(q, "QUIT")'
    BY <1>5, <2>0, MemoryLines DEF Ends
  <2>6. q \in 2 .. q /\ (q + 1) .. q = {}
    BY <2>2
  <2> QED
    BY <2>0, <2>4, <2>5, <2>6 DEF CloseSaysGoodbye
<1> QED
  BY <1>1, <1>2, <1>3, <1>4, <1>5, CallSteps

LEMMA InitGoodbye == Init => GoodbyeInv
<1> SUFFICES ASSUME Init
             PROVE  GoodbyeInv
  OBVIOUS
<1>1. ~closed /\ ~broken
  BY DEF Init
<1>2. /\ op # "close" /\ pc # "shutdown"
      /\ (pc = "writing" => todo = connect_commands)
      /\ (wire = << >> \/ wire = Whole(connect_commands))
  BY DEF Init
<1>3. LeavingInv
  BY <1>1, <1>2, PlainCommands DEF LeavingInv, Plain
<1>4. ASSUME NEW j \in 1 .. Len(wire)
      PROVE  ~Leaves(j)
  <2> DEFINE c == connect_commands
  <2>1. c \in Seq(Messages) /\ Len(c) \in Nat /\ Plain(c)
    BY CommandFacts, PlainCommands
  <2>2. wire # << >>
    BY <1>4
  <2>3. Len(wire) = Len(c) /\ wire[j] = <<Piece(c[j], TRUE)>>
    BY <1>2, <2>1, <2>2, WholeFacts
  <2>4. c[j] \in Messages /\ c[j].cmd \notin {"PART", "QUIT"}
    BY <2>1, <2>3, ElementOfSeq DEF Plain
  <2>5. wire[j][1].text = c[j]
    <3> HIDE DEF c
    <3>1. Piece(c[j], TRUE).text = c[j]
      BY DEF Piece
    <3>2. wire[j][1] = Piece(c[j], TRUE)
      BY <2>3
    <3> QED
      BY <3>1, <3>2
  <2> QED
    BY <2>4, <2>5 DEF Leaves
<1> QED
  BY <1>1, <1>3, <1>4 DEF GoodbyeInv, QuietInv, CloseSaysGoodbye

\* A closed client has said PART and QUIT, in this order and last, and without
\* dropped calls nobody said either before.
THEOREM GoodbyeTheorem == Spec => []CloseSaysGoodbye
<1>1. Inv /\ GoodbyeInv /\ [Next]_vars => GoodbyeInv'
  <2> SUFFICES ASSUME Inv, GoodbyeInv, [Next]_vars
               PROVE  GoodbyeInv'
    OBVIOUS
  <2>1. Base /\ DamageInv /\ LeavingInv /\ QuietInv /\ CloseSaysGoodbye
    BY DEF Inv, Base, GoodbyeInv
  <2> QED
    BY <2>1, LeavingStep, QuietStep, GoodbyeStep DEF GoodbyeInv
<1>2. GoodbyeInv => CloseSaysGoodbye
  BY DEF GoodbyeInv
<1> QED
  BY <1>1, <1>2, InitGoodbye, Invariant, PTL DEF Spec
=============================================================================
