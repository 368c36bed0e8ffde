----------------------------- MODULE HelixCalls ----------------------------
(***************************************************************************)
(* A caller walks the pages of any Helix endpoint: it looks at             *)
(* missing_scopes, prepares the request (helix.rs), sends it, reads the    *)
(* reply with the endpoint's typed parser or with parse_json_response,     *)
(* takes the cursor of the next page (http.rs) and goes on while the       *)
(* endpoint is marked as paged and there is a cursor.  The service answers *)
(* as the field lists and authorization notes say that the endpoints were  *)
(* generated from, or fails; it decodes what the request encoded.          *)
(***************************************************************************)
EXTENDS HelixSurface, PercentCoding

CONSTANTS
    Readers,    \* "typed": the typed parser; "json": parse_json_response
    Collections \* for each collection the cursors of its pages, the first empty

\* The cursors are the service's; no two pages have the same, and none is
\* another one percent-encoded.
ASSUME CallsAssumption ==
    /\ Readers \subseteq {"typed", "json"}
    /\ \A c \in Collections :
          /\ c \in Seq(Texts) /\ c # << >> /\ c[1] = << >>
          /\ \A p, q \in 1 .. Len(c) :
                c[p] = c[q] \/ PercentEncode(c[p]) = c[q] => p = q

VARIABLES
    endpoint,   \* the endpoint called
    reader,     \* the parser used
    held,       \* what the caller has of {"client id", "token"}
    granted,    \* the scopes of its token
    cursors,    \* the cursors of the collection
    phase,      \* where the walk is
    after,      \* the cursor to send, empty for the first page
    query,      \* the cursor as it stands in the URL sent
    reply,      \* the last reply
    received,   \* the pages read so far
    last,       \* history: the page after which there is none, or 0
    troubled    \* history: the service failed

setting == <<endpoint, reader, held, granted, cursors>>
vars == <<setting, phase, after, query, reply, received, last, troubled>>

NoReply == [status |-> 0, null |-> FALSE]
Refusal == [status |-> 400, null |-> FALSE]
NeedsToken == {"App", "User", "Either", "ExtensionJwt"}
BotScopes == {"user:bot", "channel:bot"}

\* pagination_cursor_from_link cuts the cursor out of a URL the service
\* wrote, and leaves it encoded.
CursorFromLink(text) == PercentEncode(text)

\* Mutant: only the headers are looked at.
MetaCursorHeaders(r) ==
    IF "header" \in r.places THEN r.cursor
    ELSE IF "link" \in r.places THEN CursorFromLink(r.cursor) ELSE << >>

\* HttpResponse::meta: Ratelimit-Cursor, else Link, else the pagination
\* object at the top of the body.
MetaCursor(r) ==
    IF "header" \in r.places THEN r.cursor
    ELSE IF "link" \in r.places THEN CursorFromLink(r.cursor)
    ELSE IF endpoint.reply.cursor = "reply" THEN r.cursor ELSE << >>

MissingScopes(e, scopes) == e.scopes \ scopes

\* What the service asks for: one of the scopes the authorization note
\* lists, the bot scopes being for app tokens only, and a token for every
\* endpoint with such a note.
Granted == endpoint.scopes # {} => granted \ BotScopes # {}

Entitled ==
    /\ Granted
    /\ endpoint.scopes # {} \/ endpoint.auth \in NeedsToken => "token" \in held

ParsesTyped(r) ==
    /\ r.status = endpoint.reply.status
    /\ endpoint.reply.typed = "yes" =>
           ~r.null /\ endpoint.reply.cursor # "text"

ParsesJson(r) == r.status \in 200 .. 299 /\ endpoint.reply.typed # "text"

Init ==
    /\ endpoint \in AllEndpoints
    /\ reader \in IF endpoint.reply.typed \in {"yes", "empty"}
                  THEN Readers ELSE Readers \cap {"json"}
    /\ held \in SUBSET {"client id", "token"}
    /\ granted \in {endpoint.scopes} \cup {{}} \cup {{s} : s \in endpoint.scopes}
    /\ cursors \in Collections
    /\ phase = "ready"
    /\ after = << >> /\ query = << >>
    /\ reply = NoReply
    /\ received = << >>
    /\ last = 0
    /\ troubled = FALSE

----------------------------------------------------------------------------
\* The caller finds scopes missing and does not call.
Stop ==
    /\ phase = "ready"
    /\ MissingScopes(endpoint, granted) # {}
    /\ phase' = "stopped"
    /\ UNCHANGED <<setting, after, query, reply, received, last, troubled>>

Prepares ==
    /\ "client id" \in held
    /\ endpoint.auth \in NeedsToken => "token" \in held

\* MissingCredentials, MissingAccessToken.
PrepareFails ==
    /\ phase = "ready"
    /\ MissingScopes(endpoint, granted) = {}
    /\ ~Prepares
    /\ phase' = "failed"
    /\ UNCHANGED <<setting, after, query, reply, received, last, troubled>>

\* The request goes out, with the token if the caller holds one.
Send ==
    /\ phase = "ready"
    /\ MissingScopes(endpoint, granted) = {}
    /\ Prepares
    /\ query' = PercentEncode(after)
    /\ phase' = "sent"
    /\ UNCHANGED <<setting, after, reply, received, last, troubled>>

\* The service answers with a page, its cursor if there is a next one, and
\* a null where the field list allows it.
Serve ==
    /\ phase = "sent"
    /\ Entitled
    /\ \E page \in 1 .. Len(cursors), more, null \in BOOLEAN, places \in SUBSET {"header", "link"} :
           /\ FormDecode(query) = cursors[page]
           /\ null => endpoint.reply.nulls
           /\ more => page < Len(cursors) /\ endpoint.reply.cursor # "none"
           /\ ~more => places = {}
           /\ reply' = [status |-> endpoint.reply.status, page |-> page, null |-> null,
                        cursor |-> IF more THEN cursors[page + 1] ELSE << >>,
                        places |-> places]
           /\ last' = IF more THEN last ELSE page
    /\ phase' = "answered"
    /\ UNCHANGED <<setting, after, query, received, troubled>>

\* 401 without the authorization it wants, 400 for a cursor it never gave.
Refuse ==
    /\ phase = "sent"
    /\ \/ ~Entitled
       \/ \A page \in 1 .. Len(cursors) : FormDecode(query) # cursors[page]
    /\ reply' = Refusal
    /\ phase' = "answered"
    /\ UNCHANGED <<setting, after, query, received, last, troubled>>

\* The service fails, or the request or its answer is lost.
Trouble ==
    /\ phase = "sent"
    /\ troubled' = TRUE
    /\ phase' = "failed"
    /\ UNCHANGED <<setting, after, query, reply, received, last>>

\* The reply is read; the walk goes on, or is done.
Read ==
    /\ phase = "answered"
    /\ IF reader = "typed" THEN ParsesTyped(reply) ELSE ParsesJson(reply)
    /\ received' = Append(received, reply.page)
    /\ after' = IF reader = "typed" THEN reply.cursor ELSE MetaCursor(reply)
    /\ phase' = IF endpoint.paged /\ after' # << >> THEN "ready" ELSE "done"
    /\ UNCHANGED <<setting, query, reply, last, troubled>>

\* ApiError, or the body does not decode.
ReadFails ==
    /\ phase = "answered"
    /\ ~IF reader = "typed" THEN ParsesTyped(reply) ELSE ParsesJson(reply)
    /\ phase' = "failed"
    /\ UNCHANGED <<setting, after, query, reply, received, last, troubled>>

Next == Stop \/ PrepareFails \/ Send \/ Serve \/ Refuse \/ Trouble \/ Read \/ ReadFails

Spec == Init /\ [][Next]_vars

----------------------------------------------------------------------------
(***************************************************************************)
(* A walk that ends well has read every page once and in order, whichever  *)
(* parser reads it and wherever the cursors come from.  The exceptions are *)
(* the two endpoints whose cursor is not in a top-level pagination object, *)
(* read as JSON: HttpResponse::meta does not look there.                   *)
(***************************************************************************)
DoneMeansComplete ==
    phase = "done" =>
        \/ received = [i \in 1 .. last |-> i] /\ last > 0
        \/ reader = "json" /\ endpoint.reply.cursor \in {"data", "text"}

NextCursor == cursors[Len(received) + 1]

(***************************************************************************)
(* A caller that prepare() lets pass, with a scope the service would       *)
(* accept, gets through as long as the service works.  Every exception is  *)
(* known: missing_scopes wants alternatives together; prepare does not ask *)
(* for the token the guest star endpoints need; the calendar is not JSON;  *)
(* typed parsers refuse a documented null and a cursor that is a text; a   *)
(* cursor from a Link header is encoded twice.                             *)
(***************************************************************************)
FailsOnlyAsKnown ==
    phase \in {"stopped", "failed"} /\ ~troubled /\ Prepares /\ Granted =>
        \/ phase = "stopped" /\ \E s, t \in endpoint.scopes : s # t
        \/ endpoint.auth = "None" /\ "token" \notin held
        \/ reader = "json" /\ endpoint.reply.typed = "text"
        \/ reader = "typed" /\ (reply.null \/ endpoint.reply.cursor = "text")
        \/ reader = "json" /\ after = CursorFromLink(NextCursor) /\ after # NextCursor

(***************************************************************************)
(* The field lists the reply types were generated from say which fields    *)
(* may be null ("otherwise, null if none"); a reply that uses one is       *)
(* parsed (parse_typed_response).                                          *)
(***************************************************************************)
DocumentedNullIsParsed ==
    ~(phase = "failed" /\ reader = "typed" /\ reply # NoReply /\ reply.null)
============================================================================
