# barbed in TLA+

`barbed` is a Rust client library for Twitch: OAuth, Helix, EventSub over
WebSocket and webhooks, IRC, and emote providers. Most of it turns values into
other values. What is hard about it is the part that talks to several parties at
once: a stored login refreshed by concurrent tasks, a login redirect handled
twice, a chat stream set up by concurrent requests and read by a task that may
drop the future, an IRC client whose writes and reads stop in the middle of a
line, webhook deliveries handled in parallel over one replay store, and a login
loop that runs against two clocks. Around these lies the generated Helix
surface, a large table whose entries must agree with the code that uses them.
This directory models these parts, checks them with TLC and proves with TLAPS
every safety property the passing runs check.

## Inventory

| Component | Source | State | Operations | Hard behaviour | What makes it correct |
|---|---|---|---|---|---|
| stored session | `src/session.rs`, token calls in `src/native.rs` | one optional auth behind `TwitchAuthStore` | `ensure_valid_stored_auth`, `refresh_stored_auth`, `load/save/clear_auth` | load, validate, refresh and save are separate awaits; refresh tokens may be accepted once; failures, cancellation and crashes between any two | identity and tokens belong together; a rotated token is never stranded by interleaving; only rejected logins are cleared; dead tokens are not handed out |
| EventSub chat stream | `src/native.rs`, decoding in `src/eventsub.rs` | the websocket, the session | `connect_chat_stream`, `next_event`, `close` | frames before, between and after the subscription requests; two requests joined; cancellation; the end of the connection | a stream means a subscription; no request is left behind; chat comes out complete and in order; connects and closes end |
| webhook verification | `src/eventsub.rs` | set of seen ids | `verify_and_decode_webhook_message`, `remember_message` | parallel deliveries of one id; redelivery after failures; changed copies; restart loses the store | one acceptance per store lifetime; only genuine messages are remembered; the window is exact; redelivery works |
| device code flow | `src/native.rs`, `src/oauth.rs` | poll delay, expiry | `start_device_code_flow`, `complete_device_code_flow` | the user decides at any time; requests take time; `slow_down`; expiry during a sleep | polls are spaced; the flow ends, and not long after expiry; expiry and success mean what they say |
| IRC clients and parser | `src/irc.rs` | queues or a TCP connection, `closed` | `connect`, `next_event`, `send_raw`, `close` | two implementations of one trait; writes and reads that stop in the middle of a line; lines that are not UTF-8; a close that fails half-way | every message and PING becomes an event once and in order; a PING's event comes after its PONG; a closed client has said goodbye |
| authorization code flow | `src/oauth.rs`, `src/signing.rs`, `src/client.rs` | none of its own; the application keeps the tokens | authorize URL, `verify_oauth_state`, `exchange_twitch_code`, `should_refresh_twitch_token`, `refresh_access_token` | a redirect repeated, late or with another state; several awaits between spending the code and keeping the tokens; expiry dated by two clock readings | a redirect counts only with signed claims and inside their life; a spent code is not lost by repetition; a token not due is alive |
| Helix endpoints and calls | `src/helix_generated.rs`, `src/helix.rs`, `src/http.rs` | the caller's cursor | `missing_scopes`, `prepare`, typed and JSON parsers, `HttpResponse::meta` | 149 entries whose scopes, credentials, cursor places and nullable fields differ | a walk that ends well has seen every page; a call that fails does so for a known reason |
| OAuth helpers outside the flows | `src/oauth.rs`, `src/native.rs` | none | app tokens, revocation, OpenID, extension JWT | - | single requests |
| EventSub typed payloads | `src/eventsub_generated.rs` | none | structs and a table of type and version | - | data |
| Workers client | `src/client.rs` | none | code exchange, refresh, subscriptions | tokens issued and then dropped | the exchange and the refresh are in the code flow |
| emote providers | `barbed-7tv`, `barbed-bttv`, `barbed-ffz`, `barbed-core` | none | URL builders, JSON mappings | - | pure functions |
| surface generator | `tools/twitch_surface.py`, `twitch_catalog` | files | scraping, code generation | type resolution | build-time tool |

The components meet in few places. The device flow produces the auth that the
application saves in the store; the session functions hand an access token to
the application, which gives it to `connect_chat_stream` and the Helix
builders; all requests go through `send_prepared_request`. Nothing is shared
but the two stores (`Arc<Mutex<..>>` in memory, or the application's own).

## Modules

`AuthSession` models `session.rs`. A caller's `pc` is the await it stands at
(`validate`, `refresh`, `save`, `clear`) or how its last call ended (`some`,
`none`, `error`, `idle` after a cancellation). `Start` is the load with its
early return, the `Validate*` and `Refresh*` actions are the branches of
`validate_access_token` and `refresh_access_token` on the status, and `Save`
and `Clear` the two ends of `refresh_and_persist`. An auth is an identity, an
access and a refresh token and whether its scopes are known; a token carries
its account, its login and a serial number. The token service is modelled from
how the code uses it: it validates, refreshes, rotates (`OneTime`), expires and
revokes. The application logs in and out at any time, or only between calls
(`Exclusive`). History variables (`loaded`, `deadAtLoad`, `lost`, `current`,
`straddled`) remember what the properties speak about and influence nothing.

`EventSubStream` models `connect_chat_stream` and `EventSubChatStream`. The
connection is the sequence `sent` of frame kinds and the number `read` taken
from it; `req` holds the two requests of `create_chat_subscription` and `subs`
what the server made of them, so that a request can succeed at the server and
its reply be lost. `ChatFeed` is the abstract promise - chat notifications come
out in order, each once - and `ImplementsFeed` the refinement, with the chat
indices of `sent` and `delivered` for the two abstract sequences.

`WebhookReplay` models `verify_and_decode_webhook_message`. The checks that
leave no trace (headers, signature, timestamp) are one step, the atomic insert
into the store is the next, decoding and the application's handling follow. A
copy is intact, without its headers, or tampered with: changed in what the
signature covers, the id, the timestamp and the body, or in the signature. The
other headers (message type, subscription) are not signed; a copy with others is
verified and remembered like an intact one, and is one in the model.

`DeviceFlow` models `complete_device_code_flow` over a clock that runs only
while the client waits: code that does not wait takes no time. The service
counts the code's life from the moment it issues it, the client from the moment
it gets the reply, up to `MaxLag` later.

`IrcClient` models both implementations of `TwitchIrcApi`; `client` says which
one a behaviour is about. Over TCP every await is a step. `todo` is what the
current operation still has to write, `partial` what stands on the connection
since the last line end, `half` how far the current command got: `send_line`
writes the text and the line end separately, so a dropped write
leaves text to which the next line is glued. `buffer` is the local buffer of
`read_line`, lost with a dropped future; `torn` remembers the line it held,
and `Tails` says what the rest of such a line may look like to the parser: a
message, a PING, nothing, or bytes that are not UTF-8, because its head ended
inside a character. A line that is not UTF-8 (`garbled`) is lost with the error
of `read_line`. When the server closes in the middle of a line (`ServerCuts`),
`read_line` yields what there is, and the code treats it like any other line: an
unfinished PING is answered before its event, and an empty rest is read over. The
in-memory client's operations are atomic (`MemoryNext`, `MemorySendRaw`,
`MemoryClose`).

`CodeFlow` models the authorization code flow: `Authorize` signs a state with an
expiry, `Redirect` is a handler's `verify_oauth_state`. The browser brings the
code of one login and any state: one the application signed, for this login or
another, one of these with its expiry changed, one signed with another secret,
or a malformed one (`States`). A handler keeps the `claims` it verified.
`ExchangeCode`, `Exchanged` and `LookedUp` are the requests of
`exchange_twitch_code` and what `build_auth_outcome` makes of them,
`RefreshAccessToken`, `RefreshServed`, `Refreshed` and `RefreshFails` are a renewal
once `should_refresh_twitch_token` asks for it. The HMAC is a library: a
signature is the secret and the payload it was computed from. The clock runs
during every request. `MaxApproved` bounds how many logins the user approves,
that is, how many get a code.

`HelixSurface` is the generated table, one definition per endpoint: credential,
scopes, whether it is marked as paged, the status its parser expects, where its
cursor stands and whether a typed field may be null by the field list it was
generated from. `HelixCalls` walks the pages of any of the 149 endpoints over
`missing_scopes`, `prepare`, the encoding of the cursor into the URL, the typed
or the JSON parser and the three places where `HttpResponse::meta` looks for a
cursor. The service answers as the field lists and authorization notes in the
generated file say. A collection is given by the cursors of its pages, any texts
as long as they are distinct and none is another one percent-encoded: with such
a cursor the service itself could not tell which page a doubly encoded one
means. `PercentCoding` is `percent_encode`, `percent_decode` and the decoder of a
query string on the other side, on texts of bytes; that what `percent_decode`
collects is UTF-8 is left out, and an escape it refuses ends the result with
something that is no byte.

`MCAuthSession`, `MCEventSubStream`, `MCWebhookReplay`, `MCDeviceFlow`,
`MCIrcClient`, `MCCodeFlow` and `MCHelixCalls` instantiate them for TLC. The
proofs are in `AuthSessionProofs`, `EventSubStreamProofs`, `WebhookReplayProofs`,
`DeviceFlowProofs`, `IrcClientProofs`, `CodeFlowProofs` and `HelixCallsProofs`,
with the facts about sequences and recursion they share in `SequenceFacts`.
Operators marked as mutants stand beside the definition they mutate; no
specification uses them. Each is a plausible mistake in that definition under
which one property fails, which shows that the property depends on the code.

## Runs

| Run | Configuration | Shows |
|---|---|---|
| `auth_concurrent` | 2 callers, 2 accounts, 3 token pairs, 1 fault, one-time tokens, durable store | `IdentityMatchesTokens`, `SpentTokenAccounted`, `NeverReturnsDeadAuth`, `OnlyStraddlingCallsMixLogins` under every interleaving |
| `auth_exclusive` | the same, one operation at a time, fair | `ClearsOnlyRejectedAuth`, `ReturnedIsStored` hold for a serialising application; `DeadSessionIsCleared` |
| `auth_reusable` | concurrent, 1 account, tokens not rotated, the store dies with the process, fair | `TypeOK`, `UndisturbedClearIsRejection`, `DeadSessionIsCleared` |
| `auth_clear_race` | concurrent, one-time tokens | `UndisturbedClearIsRejection` fails, see Findings |
| `auth_scopes` | 1 caller | `ScopesSurviveRefresh` fails, see Findings |
| `stream` | 11 representatives of the 15 frame kinds, 3 frames besides welcome and last one, 1 dropped future, fair | `TypeOK`, `ReadyMeansSubscribed`, `NoRequestLeftRunning`, `DeleteIsBestEffort`, `ChatComplete`, `ImplementsFeed`, `ConnectSettles`, `ChatReachesReader`, `CloseDrains` |
| `webhook` | 2 messages, one of them undecodable, 2 handlers, with a store and without, 1 failure, 1 restart, fair | `TypeOK`, `AcceptedOncePerLifetime`, `OnlyGenuineIsRemembered`, `DuplicateHasOriginal`, `WindowIsExact`, and `HandledUnlessSpoiled`: a message is lost only to a failure after it was remembered |
| `device_flow` | interval 3, step 5, code life 16, timeout 2, lag up to 2, 2 slow_downs, fair | `TypeOK`, `ExpiredDidNotMissApproval`, `EndsAfterExpiry`, `OutcomeFollowsDecision`, `PollsAreSpaced`, `FlowEnds` |
| `irc` | both clients, 2 lines, the last of them possibly unfinished, 1 raw line, 2 closes, 1 dropped future, fair | `LinesBecomeEvents`, `PongBeforePing`, `CloseSaysGoodbye`, `PingIsAnswered` |
| `code_flow` | 2 logins of which 1 is approved, 2 handlers, state life 2, token life 3, skew 2, lag 1, 2 renewals, clock to 7 | `LoginIsInTime`, `SpentCodeIsKept`, `UndueTokenIsAlive` |
| `helix` | 149 endpoints, both parsers, 2 collections of 3 pages: cursors that percent coding leaves alone, and cursors with `+`, `=`, `&` and `%` | `DoneMeansComplete`, `FailsOnlyAsKnown` |
| `helix_nulls` | the typed parser, 1 page | `DocumentedNullIsParsed` fails, see Findings |

Bounds. The race of two refreshes needs one login and one rotation; the mixing
of logins a second login, and a third pair lets a call refresh after it. One
fault is enough to separate a failure from interleaving and to lose any one
reply, save or future; faults are independent of one another. On the stream,
three frames between welcome and end let two notifications stand around any
third frame; of kinds that every action treats alike one stands for the others
(`MCEventSubStream`), while the theorems are about all of them. Two handlers and
one restart are what a duplicate needs. In the webhook run the window is one
instant and the sender's clock may be one ahead, so future, fresh and stale
deliveries all occur; the clock stops at `MaxTime`, so a message stamped with
the last instant stays fresh for ever and the liveness property cannot be met by
ageing alone. In the device flow a code lives through several polls of the
shortest interval, and the sleep after the second `slow_down` can cross its
expiry. Over IRC two lines let a torn line stand before or after a whole one;
two closes let the second follow one that failed half-way. In the code flow the
second login gives the first one's redirect another live state; a code of its
own would add nothing, since the handlers share only the code they exchange. Two
handlers race, and one of them can take up the redirect once more afterwards.
The clock reaches past the expiry of the state and of two generations of tokens.
Three pages give a first, a middle and a last one; no action of `HelixCalls`
depends on the number of a page, and the theorems are about collections of any
size.
`CHECK_DEADLOCK FALSE` stands where the system really ends: a stream or a client
that failed or was dropped, a flow or a walk that has its outcome, a clock at
its bound.

Fairness. Session: the application keeps calling `ensure_valid_stored_auth`,
access tokens expire, and calls that began advance. The last holds if the client
that the caller passes to the session functions has a timeout and its store
answers or fails: `session.rs` sets no timeout, so `DeadSessionIsCleared` is
required of such callers only. Stream: three assumptions with a name each.
`RuntimePolls`: a ready future is polled and the reader keeps asking.
`ServerIsLive`: the server greets a session or closes it, and answers a close
frame; the code waits for a welcome without a timeout. `ClientHasTimeout` is
required of the caller: `connect_chat_stream` sends both subscription requests
with the `Client` it is given, and ends them only if that client has a timeout;
`Client::new()` has none, only `TwitchAuthClient` builds its own with 30 s.
Without it a request may stay pending for ever, and with it the connect.
Opening the websocket is not assumed to end at all, because `connect_async` has
no timeout: `ConnectSettles` begins when it is open. `ChatReachesReader` needs
`ClientHasTimeout` for chat that arrives while the delete request is under way.
Grants, frames, reconnects and cancellations have no fairness.
Webhooks: handlers finish, the clock runs, and the sender redelivers what was
not acknowledged; redelivery is strongly fair because a handler is free only
from time to time. Device flow: the clock runs and the client goes on, here with
the 30 s timeout of the client `TwitchAuthClient` builds; the user and the
service owe nothing. IRC: the reader keeps asking, the runtime polls
what is ready, and a socket takes what is written or fails; the server, closes
and raw lines owe nothing. The code flow and the Helix walk promise nothing
eventual, and no fairness is assumed there.

## Findings

`auth_clear_race`: `refresh_and_persist` clears the store when its refresh is
rejected, whatever is stored by then. With one-time refresh tokens two
concurrent calls load the same auth; the winner saves its replacement, the loser
is rejected because the winner consumed the token, and clears the winner's auth.
The session is gone although nobody logged out. Serialised calls
(`auth_exclusive`) and reusable tokens (`auth_reusable`) do not have the race.

`auth_scopes`: `refresh_access_token` replaces an omitted scope list by the empty
one, while `refreshed_twitch_token_state` and its test keep the previous scopes.

`helix_nulls`: the field list of the endpoint for predictions documents
`top_predictors` as "null if none". The generated field is a `Vec` with
`serde(default)`, which stands in for a missing field and not for a null, so
`parse_typed_response` refuses the documented reply and the page is lost. The
same holds for the other endpoints whose replies are marked `Nullable` in
`HelixSurface`.

Some observations are part of a property rather than a finding. The replay
store remembers a message before it is decoded and handled, so a message whose
handling fails is a duplicate when it is redelivered (`HandledUnlessSpoiled`).
The exceptions listed in `FailsOnlyAsKnown` and `DoneMeansComplete` are what a
caller of Helix has to know: `missing_scopes` asks for scopes together that are
alternatives, the guest star endpoints are generated without the token they
need, a cursor cut out of a `Link` header is percent encoded twice, and a walk
over JSON replies stops after one page where the cursor is not in a pagination
object at the top. A closed in-memory IRC client goes on reading and answering
PINGs, the TCP client does not (`CloseSaysGoodbye`). A dropped call costs one IRC
line at most: a message whose head it had read, or the PING it was answering,
whose event a failed PONG costs as well (`LinesBecomeEvents`). `verify_oauth_state`
does not tie a state to a code: a redirect with one login's code and another's
live state is taken up, and the application has to compare the claims with the
browser or the user it expects (`LoginIsInTime` says what is left: the claims were
signed and are in time).

## Proofs

`AuthSessionProofs` proves, for any set of callers and accounts, any bounds and
from `ConstantsAssumption` alone unless said otherwise:

* `TypeCorrect`: `TypeOK`, and a running call has an auth in hand. The second
  half makes it inductive: fields of `None` are never looked at.
* `IdentityTheorem`: `IdentityMatchesTokens`. Strengthened to `Provenance`:
  serial numbers of everything held or known to the service are at most
  `issued` (so what a refresh or a login makes is new), refresh tokens of one
  login have one owner, and without rotation there is one per login. The step
  is split by `StepKinds` into steps that mint nothing, refreshes and logins.
* `SpentTokenTheorem`: `SpentTokenAccounted`. Strengthened to `Rotation`:
  a call not yet at its save has the auth it loaded, and an unsaved
  replacement is held by one call and is neither stored nor spent. Without
  this another call's save or cancellation could remove the account.
* `DeadAuthTheorem`: `NeverReturnsDeadAuth`, because no step makes a held
  access token valid again (`NoRevival`) and a replacement has a new number.
* `StraddlingTheorem`: `OnlyStraddlingCallsMixLogins`, from the invariant that
  until `straddled` the store and all running calls are on one login.
* `UndisturbedClearTheorem`, assuming `~OneTime`: from `Rejected` (what a call
  is about to clear is not accepted and will not be again) and the uniqueness
  of a login's refresh token.
* `ExclusiveClearTheorem` and `ExclusiveReturnTheorem`, assuming `Exclusive`:
  the store does not change between a call's load and its write.

The theorems cover every safety property of the passing runs of `AuthSession`.

The other components have an inductive invariant each. The bounds of the
configurations are constants of the theorems, so they hold for any number of
frames, lines, handlers, failures and dropped futures.

* `EventSubStreamProofs`, from `StreamAssumption`: `Inv` is the type invariant,
  `RequestInv` and the safety properties. `RequestInv` says that before the
  welcome nothing is subscribed and no chat is on the wire, which is why frames
  read over in the connect phase cost nothing (`CompleteTheorem`), and that a
  stream in use has its message request answered with success
  (`SubscribedTheorem`). `FeedTheorem` is the refinement of `ChatFeed`: `FeedInv`
  says that the chat frames delivered are the first of the chat frames sent, up
  to what was read. A frame sent then maps to `Publish` or a stutter, a frame
  returned to `Deliver` or a stutter, and every other step to a stutter.
* `WebhookReplayProofs`, from `WebhookAssumption`: `WindowTheorem`;
  `GenuineTheorem` from what a handler knows at each stage (`GenuineInv`);
  `OnceTheorem` from `OnceInv`, which counts the one handler that may still
  hand a remembered id to the application; `DuplicateTheorem` from
  `OriginalInv`: a remembered id is under way, handled or spoiled.
* `DeviceFlowProofs`, from `DeviceAssumption`: `BoundInv` ties the delay to the
  number of `slow_down` answers and the moment a sleep ends to the clock; the
  spacing of polls, the end of the flow, the outcome and what an expiry may
  miss follow with one more invariant each (`SpacingInv`, `GrantInv`,
  `ApprovalInv`).
* `IrcClientProofs`, from `IrcAssumption`: the proof that `LinesBecomeEvents`
  holds counts. `MissingInv` says that a message without an event was torn, and
  that the lines torn or without an event are no more than the dropped calls
  while the connection holds; a line can only join them as the PING that a
  dropped write was answering (`MissingGrows`). Each torn line and each damaged
  line on the wire is paid for by a dropped call, and so is the pending line
  that will be damaged when it ends (`Spoiled`): without this last term the
  count is not inductive, because the damage is done by a later, innocent write.
  `HonestInv` says that a PONG, wherever it is on its way, answers a PING or a
  torn line, and `OrderInv` that the line being answered is not yet among the
  events (`PongTheorem`). `GoodbyeTheorem` follows `close` through its two lines
  and the shutdown (`LeavingInv`); that without dropped calls nothing before
  them says PART or QUIT needs `QuietInv`, which leaves broken connections out:
  a close that failed half-way has said PART already, and no close succeeds
  after it.
* `CodeFlowProofs`, from `CodeAssumption`: `LoginIsInTimeTheorem` from what a
  signature covers (`StateIsSigned`: a state that passes has the payload of one
  the application signed) and from what was signed for a login never changing;
  `SpentCodeTheorem` from `CodeInv`, whose core is that one handler at most
  holds the tokens of a login; `UndueTokenTheorem` from `DatedInTime`: a session
  is dated at most the lag of one answer after its token was issued, and the
  skew is larger than the lag (`MaxLag < Skew`). That is an open assumption: the
  fetch of a worker has no timeout, and nothing in the code enforces it. Revoked
  tokens are left out.

* `HelixCallsProofs`, from `CallsAssumption`: `RoundTrip` says that both decoders
  give back what `percent_encode` was given, for every text, and `UrlSafe` that it
  writes nothing that could end or split a query string. `EndpointFacts` goes
  through the 149 entries of the table once for what the walk needs of them
  (`WellFormed`): a success status, paging wherever there is a place for a
  cursor, and a credential or none with every list of scopes. `WalkInv` says that
  the pages received are the first ones and that the cursor to send is the next
  page's or, out of a `Link` header, that cursor encoded; what the service
  decodes is then the cursor of the next page or of none, so no page is skipped
  or read twice (`CompleteTheorem`), and a refusal can be told by its reason
  (`FailureTheorem`).

Three of these theorems are about data defined by recursion: the chat frames of
a sequence (`Filter`), the text before and after coding. No induction over data
can be cited with an operator, so `SequenceFacts` states it about sets: a set of
texts that contains every text whose shorter texts it contains is all of them
(`LengthInduction`, from the least number of a set of numbers), and
a function that does something at the front of a sequence and itself on a
shorter one exists (`UnfoldsExists`). The recursive functions of the model
satisfy their equations by the latter, and what is proved of them follows by the
former.

Only model-checked are the liveness properties (`DeadSessionIsCleared`,
`ConnectSettles`, `ChatReachesReader`, `CloseDrains`, `HandledUnlessSpoiled`,
`FlowEnds`, `PingIsAnswered`), which with `ENABLED` are out of the prover's reach.

## Not modelled

* Request and response formats, headers, HMAC and base64, JSON, logging and the
  transport libraries: what they deliver is in the models, how is not.
* Path parameters, request bodies and the payload of Helix replies: no code
  path depends on them. The rate limit headers, which are handed to the caller
  unused.
* The EventSub payload structs and their table of types and versions: data that
  serde fills. What a payload that does not deserialize does to the stream and
  to the webhook is modelled.
* The reconnect of an EventSub session and the keepalive timeout, which the code
  leaves to the caller.
* App tokens, revocation, OpenID lookups, the extension JWT and the subscription
  calls of the Workers client: single requests without state.
* Refusals of the token service for reasons other than the token (a wrong client
  id answers 400 as well); lives of 2^63 seconds.
* The emote providers, which are stateless requests and mappings of one JSON
  shape to another, and the surface generator, a build-time scraper; what it
  generated for Helix is in `HelixSurface`.
