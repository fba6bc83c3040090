# Verification of chatbone

chatbone is a chat backend in Python: a flet chat application, an auth service, a datastore
service over SQL, tool servers over websockets, and assistants. The parts talk over HTTP,
over websockets, and through Redis, which holds the data of the users who are logged in and,
per chat session, two streams: from the chat service to the assistant (`cs2as`) and back
(`as2cs`).

This directory holds TLA+ models of the parts of chatbone whose behaviour depends on the
order of events, the TLC configurations that check them, and proofs for the TLA+ proof
system. `PROJECT.json` ties every definition to the source lines it stands for, and lists the
runs, the findings, the hazards and the theorems. Paths below are relative to
`src/src/`, unless they start with another directory of the repository.

## 1. Inventory

| component | source | state | operations | what makes it hard | status |
|---|---|---|---|---|---|
| session streams and write locks | `chatbone/broker.py` `ChatSessionData`, `WriteStream` | two stream keys and two lock keys in Redis, the user key they expire with | `get_streams`, `init_stream_keys`, `write`, `expire_sync` | optimistic transaction with retry, two locks, deadlines, crashes with a lock | `SessionStreams`, proved |
| stream reader | `broker.py` `ReadStream` | `_checkpoint_id`, `_count`, `_save_checkpoint` | `bind`, `read`, `async for` | state read before an await and written after it, shared by tasks; cancellation, trimming, deletion | `StreamReader`, proved |
| user cache and login | `broker.py` `ChatboneData`, `UserData`; `chatbone/chat/app.py` | user document, secret key per token, browser storage | `save`, `refresh`, `expire`, `delete`, `get_encrypted_token`, `verify_encrypted_token`, `login_click`, `login`, `logout_click` | every call is several Redis commands; the same user logs in twice | `UserCache`, proved; not `skip_if_exist=False` and `verify_valid_user` |
| views and routing | `chatbone/chat/app.py` | `userdata`, `page.views`, `route2viewname` per tab, storage per browser | `main`, `login`, `route_change`, `view_pop`, `go`, the buttons | handlers of several tabs and of one tab overlap at every await | `ChatPage`, proved; layout left out |
| chat data service | `chatbone/chat/svc.py` | none (HTTP calls) | creation with limits: create, get, delete old, get again, assert; deletion of a session | check-then-act over HTTP, requests that fail half way | `ChatHistory`, proved; creation of sessions left out |
| auth service | `auth/auth_svc.py` | none (HTTP calls, JWT) | register, authenticate, get user, delete tokens | which token of an unordered list is used | `AccessTokens`, proved |
| datastore | `datastore/svc`, `datastore/repo`, `utilities/settings/sql_db.py` | SQL tables of users, tokens, sessions, messages, summaries | one SQL session per request | check-then-insert between sessions, foreign keys, row locks, ordering of rows | `AccessTokens` (users, tokens), `ChatHistory` (sessions, messages, summaries) |
| tools client | `utilities/settings/clients/tools.py` | `_servername2clients`, `_servername2tools`, one `AsyncExitStack` | `get_tools` context, `clean` | concurrent contexts share the stack and the dictionaries | `ToolsClient`, proved |
| tools server | `tools/mcp_server.py` | executors, websockets, two in-memory streams per executor | endpoints, `_run` with three tasks, monitor | unbuffered streams, first task to end cancels the others, cancellation from outside | `ToolServer`, proved |
| JSON modification | `broker.py` `append`, `trim`, `update`, `set`, `clear` | the user document | one JSON command each | | not modelled (section 5) |
| thread locks | `utilities/misc.py` | a thread lock used from coroutines | `lock`, `alock` | cancellation while a thread acquires | not modelled: nothing uses it |
| HTTP clients, settings, schemas, exception decorators, Redis wrapper | `utilities/` | none or configuration | | | not modelled: no behaviour over time, or unused |
| assistants, AI models, experiments, notebooks | `chatbone/assistants`, `ai_models`, `try`, `drafts` | | | | not modelled: unfinished classes, wrappers of model servers, trials |

Interactions. The chat application authenticates with the auth service (HTTP), which asks the
datastore (HTTP) for users and tokens. It keeps the user in Redis as one JSON document whose
`encrypted_secret_token` names a second key, the secret. Chat sessions are embedded in that
document; each owns two stream keys. The lifetime of all these keys is meant to follow the
document: `expire_cascade` and `expire_sync` copy it from key to key. Chat service and
assistant both use `get_streams` on the session, one as writer of `cs2as` and reader of
`as2cs`, the other the opposite way.

What makes each component correct:

* streams: the two keys come and go together; creation never empties a stream in use; one
  writer at a time; no lock is kept or released by the wrong task; every call ends;
* reader: what its checkpoint has passed was returned, exactly once and in order if it reads
  alone, and every entry is returned in the end;
* user cache: the token handed out at login can be verified as long as the user data lives;
* history: an excess is always being handled, only the oldest entries are lost, and nothing
  outlives its session;
* datastore and auth: one valid token per user, and the last of the list is valid, as far as
  requests do not overlap; no token without its user;
* pages: when the handlers of a tab are done, the screen matches who is logged in, unless a login
  went to the route its tab was at; a login removes only a token that does not work, unless
  another tab has stored one since the login read the storage;
* tools client: nothing stays open when all contexts have ended, and a context that is alone
  gets its own tools;
* tools server: its list of executors shows what runs, and no endpoint and no task outlives its
  client, but for the session of a cancelled endpoint that waits for a tool call.

## 2. Modules

| module | models | extends |
|---|---|---|
| `RedisLife` | lifetime of a Redis key: TTL rounding, `expire_cascade` | |
| `StreamPair` | abstract specification: a pair of streams with one writer | |
| `SessionStreams` | `get_streams`, `init_stream_keys`, locks, `write`, the owner of the user key | `RedisLife`, instance of `StreamPair` |
| `SessionStreamsProofs` | theorems about it | `SessionStreams` |
| `StreamReader` | one `ReadStream` object and the stream it reads | |
| `LoginTokens` | abstract specification: the tokens of one user, none of which revives | |
| `UserCache` | the login of one user over Redis | `RedisLife`, instance of `LoginTokens` |
| `UserCacheProofs` | theorems about it | `UserCache` |
| `ChatPage` | tabs of one browser: handlers, views, storage | instance of `LoginTokens` |
| `ChatPageProofs` | theorems about it | `ChatPage` |
| `RecentEntries` | abstract specification: a history that loses only what is old, one deletion at a time | |
| `ChatHistory` | one bounded history of messages or summaries, over HTTP and SQL | instance of `RecentEntries` |
| `ChatHistoryProofs` | theorems about it | `ChatHistory` |
| `AccessTokens` | the access tokens of one user name, over HTTP and SQL | |
| `AccessTokensProofs` | theorems about it | `AccessTokens` |
| `ToolsClient` | the contexts of one tools client | |
| `ToolsClientProofs` | theorems about it | `ToolsClient` |
| `ToolServer` | endpoints and executors of a tools server | |
| `ToolServerProofs` | theorems about it | `ToolServer` |
| `MC...` | the modules for TLC, with the symmetry sets | |

An action is one Redis round trip (one command, or one MULTI/EXEC block) together with the
Python code up to the next `await`: asyncio switches tasks only there, and Redis executes
one command or block at a time. Commands of other processes therefore fall between any two
actions and nowhere else. Over SQL an action is a statement or a commit; in a page, a tools
client or a tools server it is what a coroutine does between two awaits.

Several modules contain *variants* of an operator, each marked as such in its comment and used
by no action: they are plausible bugs which the runs must detect (see `mutants` in
`PROJECT.json`).

### Redis lifetimes (`RedisLife`)

Time is in half seconds: TTL answers to the nearest second, so a key with less than half a
second left answers 0, and `num_seconds>0` in `expire_cascade` treats 0 as "persist". A
lifetime is `Absent`, `Persistent`, or the half seconds left.

### Session streams (`SessionStreams`)

`life`, `len` and `lock` are Redis; the other variables are the locals of each task. `pc`
follows the code: `watch` (WATCH of both keys), `exists0`, `exists1` (the two EXISTS), `ttl`
(the TTL read by `expire_sync` outside the transaction), `exec`; then `lock1`, `lock2`
(blocking acquisition of the two locks), `open` (the `_create` calls and their assertion),
`body` (the caller's `async with`), `unlock2`, `unlock1` (release in reverse). `dirty[c]` is
the WATCH flag of the connection of c: `Signal` sets it when a watched key is modified.
`Crash` is the death of the process: the WATCH goes, the lock tokens stay, because the locks
are taken without a timeout of their own.
The time-out of the second lock is in the code and in `LockTimeout`, but never happens: whoever
holds the second lock, also a dead task, holds the first.

Abstract specification: `StreamPair` has the existence of the pair, the lengths, and the
writer. `SessionStreams!Pair` maps the pair to the `cs2as` key (`PairInSync` is what makes
this right) and the writer to the owner of the second lock.

### Stream reader (`StreamReader`)

Entries are numbered in the order of their ids; the stream holds `low+1 .. last`. A read is
two actions, XREAD (`ReadNow` or `ReadBlocks`) and the end of the decoding (`Deliver`), since
the decoding awaits a thread per entry; `Read` goes on from the checkpoint of the object and
`ReadFrom` from one that the caller gives. `Cancel` drops a read in either part. `Add` is XADD
with optional trimming and serves the blocked readers; `Remove` and `Create` are the deletion
and `init_stream_keys`. `Bind` makes the object that is used from then on. `start`,
`delivered`, `gone` and `alone` are history variables for the properties.

### User cache (`UserCache`)

`doc`, `recorded` and `secret` are Redis, `storage` is the browser's. The actions follow
`login_click`: `Save` (JSON.SET NX), `Refresh`, `Expire`, then `get_encrypted_token` as `Get`,
`ReadTtl` and `Create` (one EXEC, whose JSON.SET can fail on its own), `Store`; then
`ChatApp.login` as `Verify` and `Load`. `Close` is a page closed at any point. `caught` is a
history variable: pages that had refreshed but not yet expired the keys when another page
created the token.

Abstract specification: `LoginTokens` counts the tokens made and has the set of those that are
accepted. `UserCache!Tokens` takes a token for accepted when the key of its secret is there.
`ImplementsTokens` is what lets a page take a refused token out of the browser's storage, and
all that `ChatPage` is told of the cache.

### Chat pages (`ChatPage`)

A handler is one run of an event handler of a tab; `pc` says where it awaits: `auth` and
`store` in `LoginView.login_click`, `login`, `get`, `verify`, `load`, `remove` in
`ChatApp.login`, `logout` and `forget` in `MainView.logout_click`, `route` and `resolve` in
`route_change`, `pop` in `view_pop`. `page.go` starts a handler for the route while the present
one ends, so `Go` turns one into the other. But flet takes a route for an event only if it is
another one than the last (`Page.go` and the route events of version 0.28.3, `uv.lock` of the
repository, line 977): `route` is the last route, and `Noticed` this condition; if it does not
hold the handler just ends. This is why `logout_click` awaits `route_change` itself (`Forget`)
and does not go. `Navigate` is every other way to a view: the buttons of `switch_click` and the
browser's back and forward. `Show` appends the views that need no look at the
configuration, up to the first that has to be looked up in a thread. A view is its name and, for
a main view, whether it was built with the chat controls, that is, with somebody logged in.
`storage` is the browser's and shared by its tabs. `changed`, `failed` and `undrawn` are history
variables. `failed` has the tabs where a handler raised, `undrawn` those where what follows
`login()` went to the route that the tab was at, which draws nothing (Findings); both excuse a tab
only until its next `route_change`, and `undrawn` only from showing the right controls.

The cache behind the pages is composed with them by assumption and guarantee. `made` and
`accepted` are, per user, the state of `LoginTokens`, and `Make` and `Withdraw` its steps, which
may happen at any time: tokens are made by the logins of these and of other browsers, and secrets
expire or are deleted. A login is handed any token that was made, also one that is refused by
now, and the document may be gone whether the token is accepted or not (`Load`): this is what
overlapping logins can do (`find_dead_token`), and what `UserCache` does not exclude. So nothing
of `UserCache` is presumed but `ImplementsTokens`, which is proved of it.

### Chat history (`ChatHistory`)

The three histories (messages and summaries of a chat, summaries of a user) follow one
protocol, so `kind` is a variable that never changes; messages differ in that their deletion
fails (`DeleteFails`). `entries` is the table, as the set of the `created_at` numbers; `ever`
remembers what was ever committed. A task of the chat service looks up the session (`found`),
goes through `insert` (flushed, not committed), `get`, `delete`, `deleting` (the DELETE has its
snapshot) and `again` (the confirming read, whose assertion changes nothing). `created_at` is
the time of the flush, so entries may commit in another order. `Remove` is the deletion of the
session: PostgreSQL makes it and the insertion of a row that refers to it wait for each other,
and cascades to the entries. `Fail` is any failing request: its transaction is rolled back and
the task gives up. `debt` is a history variable that excuses an excess after a failure until the
next DELETE; `overtaken` holds the tasks since whose DELETE another entry was committed.

Abstract specification: `RecentEntries` has the entries that can be got and those that ever
could. An entry comes once, while the session is there; a deletion takes only entries that have
`Limit` newer ones; the end of the session takes all, and nothing comes afterwards.
`ChatHistory!Recent` maps the existence of the session to `open` and the committed rows to
`entries`: what a DELETE chose from its snapshot is judged by what is there when it commits.

### Access tokens (`AccessTokens`)

One user name; a request is a login or a registration with the transaction it runs in the
datastore. A login loads the user with the tokens (`Load`), checks the password in a thread,
decides (`Answer` or `Decide`, flag `if_all_expired`), inserts (`Create`) and commits. The
expiry is fixed by the auth service before the request (`lease`). `place` is where the row of a
token is in the table, because no query orders the tokens and everybody takes the last one: a
new row comes after all others or where a deleted one was. `born[t]` is a history variable:
the tokens that the creator of t had loaded. The password hash and the JWT are not modelled; a
wrong password is one of the reasons for `Fail`.

### Tools client (`ToolsClient`)

A context goes through `connect` (one app after the other), `load` (a task per client in the
shared dictionary, whoever put it there), `body`, and `clean`, which empties both dictionaries
at once and closes one connection after the other (`closing`). A connection is named by the
context that opened it. `Finish` ends the loading with any subset of the tasks: all, those done
before the timeout or before the first failure. `Leave` is the end of the body and every
exception. `prefixed` and `overlapped` are history variables.

### Tools server (`ToolServer`)

An `mcp` endpoint has a reader, a session and a writer that hand over messages without a
buffer, so each waits for the next: `Pass`, `Answer` and `JobAnswer` are the two sides of a
handover. A `monitor` endpoint has a receiver and a sender. `End` is the return of
`asyncio.wait` with FIRST_COMPLETED, `Stop` the cancellation of the endpoint itself, after which
nobody cancels its tasks; `Cancelled` is the next turn of a cancelled task. The client may not
read what it is sent, and may go at any time. The MCP session is external: it answers at
once, starts a job (a tool call), has nothing to answer, or fails. When there is nothing more to
read, it closes its streams and waits for its jobs, whose answers nobody takes any more: it is
`closing` until the last job has ended (`ServerEnds`, `JobFails`), unless it is cancelled. This is
how `Server.run` of mcp 1.9.0 (`uv.lock`, line 2364) leaves its receive loop and its task group.

## 3. Runs

| run | what it asks | bounds | states |
|---|---|---|---|
| `streams` | types, pair in sync, locks match progress, one writer, no hold-and-wait on a live task, WATCH reasoning, `init_stream_keys` establishes both keys, entries change only under both locks, refinement of `StreamPair` | 2 tasks with roles all/read, deadlines up to 1 s, streams up to 1 entry, 2 trials | 508 000 |
| `streams_live` | with the recovery branch (`raise_if_only_one_key_exists=False`) too, a call under way can always go on (`NeedsNobody`), and every call ends | 2 tasks, write/read, no deadlines | 100 000 |
| `reader` | nothing is skipped by a saved checkpoint; no wake-up is lost; exactly once and in order for one task at a time; tasks do not move the checkpoint back for ever (`KeepsGround`); every entry arrives | 2 tasks on one object, 3 entries, counts 1 and 2, 2 binds, 1 read with a checkpoint of its own | 212 000 |
| `user_cache` | the recorded token lives as long as the document; refinement of `LoginTokens`: no token revives | 2 pages, 3 tokens, expiry of 2 s | 1 671 000 |
| `chat_page` | the screen matches who is logged in; only a refused token is removed | 2 tabs, 2 handlers at a time, 1 user with 2 tokens | 996 000 |
| `chat_history` | the newest entries are kept, an excess is always being handled, the confirmation fails only if overtaken; refinement of `RecentEntries`, so that nothing outlives the session | 3 tasks, summaries and messages, limit 1, 4 entries, gets with n of 1 and 2 | 312 000 |
| `access_tokens` | one valid token unless creations overlap, the last token is valid, no token without user | 2 requests, 3 tokens, 2 registrations, time 4, tokens of 2 | 661 000 |
| `tools_client` | no leak; a context that is alone gets its own tools | 3 contexts, 2 apps, one or both asked for | 1 834 000 |
| `tool_server` | the lists are right; nobody is held up by a third (`NobodyHeldUp`); an endpoint notices that its client is gone; no task is left, but for a session that waits for a tool call (`NoTaskLeft`) | an `mcp` and a `monitor` endpoint, 3 messages each, 1 job | 72 000 |
| `find_*` | one statement of a comment or message of the code each, which the code violates | the smallest instance that shows it | |

Two tasks suffice for the interesting conflicts: one that is between two commands and one that
does anything meanwhile; the theorems cover any number. Three contexts or history
tasks let a third one come after two that overlapped; a handler of a page that has ended is used
again, so that many may come and go while another waits. One entry is enough to notice that a
stream was emptied. A deadline of one second gives every lifetime class: more than a second,
rounded to one, rounded to zero, gone. Two trials exercise both outcomes of the retry; the
code's value of three is used in `find_orphan`. Three entries of the stream let a batch of two
be followed, or preceded, by one while entries are trimmed. Three tokens are one more than the
pages or requests, so that a token is created after both had one. Who is logged in at a page
matters as somebody or nobody, so one user is enough for `chat_page`; two tokens let a refused
one meet one that works. With limit 1, four entries
let three tasks overlap while a fourth entry commits late. Three messages are one each for the
writer, the session and the reader of an executor to be stuck with.

Deadlock checking is on except in two runs, where the system really may stop: `tool_server`,
when all connections are closed, and `chat_page`, when a handler of every tab has failed before
anything was shown, so that there is nothing to click.

Fairness. `SessionStreams!Fairness` is weak fairness of a task that is not suspended on its
caller: asyncio runs it again and Redis answers; `Release` is the caller leaving its body.
Nothing forces a task to call, to write or to crash. A task that waits for a lock either gets
it or times out, so weak fairness of the disjunction suffices. `StreamReader!Fairness` is
"async for" (weak fairness of reading) and strong fairness of `Deliver`: the task may be
cancelled in a read and start again, but not in every single one. `ToolServer!Fairness` is the
event loop: a task that can go on gets its turn. The client's reading (`Taken`), its sending and
leaving, the tool calls (`JobAnswer`) and the cancellation of endpoints (`Stop`) are not fair.

### Findings

* `find_orphan`: if the user key is gone when TTL is asked (`chatbone/broker.py:224`), the new
  streams are persisted and nothing will ever delete them.
* `find_dead_token`: two logins of one user, one between `refresh` and `expire` while the
  other creates the token (`chatbone/broker.py:252`), leave a document with a token whose secret
  expires first; every later login is handed the dead token and renews the document.
* `find_message_limit`: an `await` is missing in `delete_old_messages`
  (`datastore/svc/chat_svc.py:104`); messages are never deleted, and every creation beyond
  `max_messages` fails after having stored the message.

Met on the way and not made a run:

* streams: in the last half second of the user key, TTL is 0 and creating the streams makes
  user and streams permanent (`chatbone/broker.py:233`); the lock of a dead task is never freed,
  so that `get_streams` raises `LockError` although nobody writes (`:638`, where `:614` speaks of
  another instance that is writing); the "only one key exists" error (`:687`) is judged from two
  EXISTS that may disagree only in time; three conflicts in a row end `init_stream_keys` with the
  error that "must not be occur" (`:697`), and a mere write to the stream is such a conflict; the
  streams may be gone again when `_create` asserts their existence after waiting for the locks
  (`:490`).
* reader: the default (`"$"`, not saved) loses entries added between two reads (`:529`);
  `bind(save_checkpoint=False)` cannot switch saving off (`:545`).
* user data: `_check_params` (`:344-360`) raises for every container field.
* pages: the KeyError of `refresh` leaves `ChatApp.login`, which handles only
  `EncryptedTokenError` (`chatbone/chat/app.py:292`). A login at the route it goes to
  shows nothing: a tab at `/` offers the login, another tab stores a token, and
  `MainView.login_click` (`:204-209`) sets `userdata` and goes to `/`, which flet drops; or, in one
  tab, the user goes back to `/` while `LoginView.login_click` (`:107-134`) waits for the auth
  service. The login controls stay until the next change of the view, with a user logged in; TLC
  finds the second within one tab if `undrawn` is taken out of `ScreenMatches`. A login also
  removes the token that another tab has stored while its own was being refused (`:294`), what
  `changed` excuses in `OnlyRefusedRemoved`.
* auth: after two overlapping logins the last token may be one that has expired while another
  is valid; then `authenticate` creates no new one and `_decode_jwt` refuses the last
  (`auth/auth_svc.py:115`). `TokenRepo.get_verify` of an unknown token ends in an AttributeError,
  which the caller sees as 500 and not as 401 (`datastore/repo/token_repo.py:51`).
* chat service: `create_chat_session` compares inside `len(...)` (`chatbone/chat/svc.py:31`),
  which raises a TypeError. A task that fails after its entry was committed leaves an excess that
  nobody trims until the next creation (`:119`), what `debt` excuses in `ExcessIsHandled`.
* tools client: a context that ends closes the connections of all others
  (`utilities/settings/clients/tools.py:181`), and lists that another context has loaded are
  prefixed again (`:165`); several contexts at a time are what the example in its docstring does.
* tools server: an endpoint that is cancelled leaves its websocket on the list, for which
  `ListsMatch` makes an exception, and its tasks to themselves until the client goes
  (`tools/mcp_server.py:163`, `:286`). Its session, which nobody cancels, then waits for its tool
  calls: one that never returns keeps `_run_server` (`:261`) for ever with the client gone. This
  and nothing else is what `LeftToTools` excepts in `NoTaskLeft`; TLC finds it if the exception is
  taken out. An endpoint that ends its wait cancels its session and leaves nothing.

These contradict no statement of a comment, a document or a test, and so are not runs of their
own that expect a violation. Where one of them is the exception of a property, the property says
that there is no other. For tokens of the auth service, `OneUnlessOverlapping` and `LastIsValid`
speak only of logins that do not overlap: what overlapping ones leave is described above and
nothing is claimed of it.

## 4. Proofs

The proof modules prove, for every value of the constants, that an inductive invariant holds
initially and is preserved by every action, one lemma per action or group of actions, and
derive the properties from it. They assume only the named assumptions of the modules, which
TLC evaluates in the runs.

* `SessionStreamsProofs` proves `TypeOK`, `PairInSync`, `LocksMatchProgress`, `CleanWatch`,
  `OneWriter`, `NoHoldAndWait`, the action properties `InitMakesBoth` and
  `ChangedOnlyUnderLock`, and the refinement `ImplementsPair`.
  `PairInSync` is not inductive alone: an EXEC that creates one key keeps the pair in sync only
  if the other key's absence or presence was read correctly. `CleanWatch` says just that: as
  long as the WATCH flag is clean, what the task has seen is what is there. `OneWriter` needs
  `LocksMatchProgress`, the exact correspondence of `pc` and lock ownership. `Bookkeeping` holds the
  rest: no stream without key has entries, and counters stay in range.
* `UserCacheProofs` proves `TypeOK`, `TokenLivesWithDocument` and the refinement
  `ImplementsTokens`. The strengthening is `ExpireKnowsToken`: a page about to expire the keys
  either knows the recorded token or is in `caught`. The refinement rests on `NoneRevived`: no
  command that sets a lifetime creates a key; only the EXEC that makes a token does (`CreateMakes`).
* `StreamReaderProofs` proves `TypeOK`, `NothingSkipped`, `WaitersHaveAll` and the action
  properties `SavedReadsFollow` and `KeepsGround`. An entry is `Accounted` for if it was returned, was lost to trimming, or is
  in hand and already trimmed; the invariant says that everything up to the trimming point
  (`TrimmedIsAccounted`), up to the checkpoint (`CheckpointIsAccounted`), and below a batch but
  for the batch itself (`BatchesReach`) is accounted for, and that a blocked reader misses
  nothing (`WaitersHaveAll`). The order needs a second invariant, `InOrder`, of an object that
  one task reads. `Stored`, a CHOOSE of the greatest id of a batch, is tamed by `GreatestElement`:
  a finite set of integers has a greatest element, from the well-foundedness of strict inclusion
  between finite sets.
* `ChatHistoryProofs` proves `TypeOK`, `NewestAreKept`, `ExcessIsHandled`, `GoneWithSession`,
  `ConfirmFailsIfOvertaken` and the refinement `ImplementsRecent`. `VictimsAreOld`: what a pending DELETE removes has `Limit` newer
  entries among those ever committed, which later commits can only add to. `LeftIsFew`: a
  DELETE's snapshot without its victims has at most `Limit` entries, until something else commits
  (the lemma about that needs a least element, by the same argument as above). `ExcessIsSeen`
  sharpens the property: the task on its way asks for all entries, or is about to delete.
  `InsertHoldsSession` is the row lock. In the refinement a commit is an `Enter` (its `created_at`
  is unique and the row lock keeps the session there), the commit of a DELETE a `Drop`, by
  `VictimsAreOld`, and the deletion of the session a `Close`.
* `AccessTokensProofs` proves `TypeOK`, `OneUnlessOverlapping`, `LastIsValid` and `TokensHaveUser`.
  The argument for the first two is `BornExpired`: whatever the creator of a token had seen has
  expired, because it was expired when it decided (`SawExpired`) and time goes on. The last needs
  `Owners` and `OneRegistration`: whose row is on the way, and that a registration is alone.
* `ToolsClientProofs` proves `TypeOK`, `NothingLeft` and `AloneGetsItsOwn`. `StackHasCloser` and
  `DictionariesInUse`: what is shared is there for a context that has not ended. `AloneOwnsAll`:
  a context that met no other finds nothing of others in the shared state, because the last to
  leave has emptied it.
* `ToolServerProofs` proves `TypeOK` and `ListsMatch`, together, with `OnlySessionsCancelled`, and
  the liveness properties `EndpointEnds` and `NoTaskLeft` (below). `TypeOK` says of the jobs that
  they have a session, which receives, answers or closes, and that one that is closing has jobs.
* `ChatPageProofs` proves `TypeOK`, `ScreenMatches` and `OnlyRefusedRemoved`, the last from
  `TokenInv`: a handler reads what is in the storage as long as nobody stores (`ReadersAreCurrent`),
  a new token is none that was made before (`OnlyIssued`), and so a refused token stays refused
  (`RefusedForever`). `TokensAsPromised` and `NoMorePresumed` are the two halves of the composition
  with `UserCache`: what the pages see of a user's tokens is a behaviour of `LoginTokens`, and
  every step that `LoginTokens` allows, up to the bound on the number of tokens, is a step of
  `ChatPage`. Together with `TokensNeverRevive`, the refinement of `LoginTokens` by `UserCache`,
  they carry `RemovalIsSafe` and `ScreenIsRight` over to pages that run on that cache. The screen needs `ScreenInv`: if a view of a tab does not fit its user, a
  handler that will draw the whole screen anew is on its way (`RightOrRedrawn`; a handler that goes
  on with a route, `resolve`, does not count, since it keeps the views there are), and a tab
  that shows nothing has a handler that will draw (`SomethingShown`). As a route that is the last
  one draws nothing, this needs `RouteIsShown`: a tab that has a route has views, or a handler of
  `route_change` at work.

Liveness. Weak fairness speaks of ENABLED, which no backend can evaluate: that an action is
enabled has to come from elsewhere. `NeedsNobody` (`SessionStreams`) and `NobodyHeldUp`
(`ToolServer`) say it as invariants: under the guard they name, the step that fairness will
take is enabled, whatever everybody else is doing. They are worth checking in themselves, since a
bug that makes one wait for another breaks them; TLC checks them in `streams_live` and
`tool_server`. From these invariants, the theorems prove the rest for every value of the
constants:

* `CallsEnd`: `FairSpec /\ []NeedsNobody => CallEnds`, for `MaxRetry <= 3`, the default of
  `max_retry` at `chatbone/broker.py:662`. A call moves only along the labels of `Path`
  (`StepsFollowPath`); weak fairness takes it from each to a later one; the transaction is tried
  once more per trial (`TrialEnds`, for any `MaxRetry`), so that the proof goes through the
  trials one after the other. For an arbitrary `MaxRetry` it would need an induction over a
  temporal formula, which the provers cannot instantiate; TLC checks two trials.
* `EndpointsEnd`, `TasksEnd`: `Spec /\ []NobodyHeldUp => EndpointEnds`, and `NoTaskLeft`, for any
  endpoints and any number of messages. One lemma per wait: the writer whose client is gone
  gets on, then the session, then the reader, then the endpoint, which cancels the rest. An
  endpoint that was cancelled leaves tasks that nobody cancels (`LooseEnds`); these end one after
  the other when the client goes, because each then finds its partner done. Only a session
  that is `closing` may stay, with the tool call it waits for (`LeftToTools`).

Only model-checked: `NeedsNobody` and `NobodyHeldUp`, since they state ENABLED, and
`EveryEntryArrives`, whose proof would be an induction over how far a task is behind and over the
tasks in hand. The two facts that argument would rest on are theorems: a task that waits has
missed nothing (`NoLostWakeup`), and tasks that share the object do not move its checkpoint
back behind what all have reached (`GroundIsKept`). Every other property of the passing runs is a
theorem. What ENABLED means for the three theorems above is thus checked on the instances of the
runs only.

## 5. Not modelled, and abstractions

* The contents of messages, the encoding to JSON, and encryption: a token is a number with a
  secret.
* Loss of a Redis connection is a crash of the task; loss of Redis itself is not modelled: the
  code has no handling for it.
* `raise_on_write_streams_acquire_fail=False` ends in contextlib's RuntimeError instead of
  `LockError`; both are the outcome `LockError`.
* A read without `block` that finds nothing changes nothing and is a stutter.
* `skip_if_exist=False`, which only a hand-run script uses, and `verify_valid_user`, which polls
  one field of the document until a timeout and has no caller in the application.
* The modification operations of `ChatboneData`. Each is one JSON command in a transaction of its
  own, which Redis executes at once, so there is no order of steps to explore. Nothing in the
  application calls them yet. `set` and `clear` raise in `_check_params` for every container
  field, and `append` and `trim` that are given a Redis instance queue their command and never
  execute it, against the docstring of `_get_transaction_pipeline`.
* `LockContextManager` (`utilities/misc.py`): no code uses it, so there is no protocol of calls.
* In `ChatPage` whether the configuration finds a view name is not in question, only when it is
  looked up; a route typed into the browser that no view has is left out, `route_change` raises for
  it. The button of the signup view only calls `register`. What the storage does is atomic.
* The password hash, the JWT, and the timeouts of HTTP requests, except as reasons for a step to
  fail. A request is shorter than a token lives (30 s against a day).
* Reads of one SQL statement (`get_user`, `get_info`), which nothing depends on.
* Unfinished or unused code: `ChatAssistantSVC.chat`, the assistants and workflows, the Redis
  wrapper, `TokenRepoAdmin`, the experiments and drafts. More than half of the lines of the
  repository are such drafts and notebooks, schemas and configuration; the models stand for
  about 1240 lines, which is most of the code that has concurrent or ordered behaviour.

## 6. Where to go on

* The modification operations and the lazily loaded chat sessions, once the chat service uses
  them: a session object that was loaded before the user was deleted and created again.
* `ChatAssistantSVC.chat`, when it is finished: the composition of `SessionStreams` and
  `StreamReader` into a conversation of two tasks, with `StreamPair` as its view of the streams.
