# Formal models of the WhatsApp gateway

TLA+ modules that model the gateway under `src/`, TLC configurations that check them on small instances, and
TLAPS proofs of what holds for every instance. `PROJECT.json` maps every definition to the lines it stands for
and lists the components, the runs, the hazards, the mutants and the findings.

## 1. The system

One Node/Bun process: an HTTP server (Hono), one Baileys socket per WhatsApp number, optional Redis, JSON
files, and a dashboard in the browser. Everything runs on one JavaScript event loop, in the server as in the
page, so code between two awaits is atomic and every await, timer and event callback is a point where anything
else may run. All concurrency below is of that kind.

| Component | State | Operations | Hard behaviour |
|---|---|---|---|
| AI conversation router (`services/conversationRouter.ts`) | per conversation: queued texts, pause and mute deadlines, one timer, epoch, flushing flag | enqueue, pause, mute, dispose, timer callback, flush | a flush awaits generation and delivery while everything else goes on; deletion of idle conversations |
| Inbound routing (`baileys/connection.ts`: handleMessagesUpsert to rememberApiSent) | strikes, ids sent through the API, cooldown caches | upsert handler, AI or static reply, handoff | who answers: AI, rules or a human; human activity between the check and the reply |
| AI agent (`services/aiAgent.ts`, `aiSendTool.ts`, `aiHistory.ts`) | tool rounds, hourly send budget | completion loop, tools, history | bounded requests, one result per tool call, a budget shared by concurrent replies |
| AI metrics (`services/aiMetrics.ts`) | counters per session, day and hour, last decisions | record, read, reset | counts of several scopes and a day that changes under them |
| Webhook delivery (`connection.ts` sendToWebhook, `services/webhookQueue.ts`) | concurrency queue, token buckets, circuit breakers | deliver an event, retry loop, limiter, breaker | concurrent deliveries share a breaker; retries, Retry-After, abandoned events |
| Dead letters (`services/webhookDeadLetter.ts`, `dashboard/api.ts`) | ring of 500 entries, JSONL file | add, replay, replay all, clear | concurrent replays; restart; eviction |
| Session settings and signing secrets (`connectionManager.ts`, `dashboard/api.ts`, `routes/session.ts`, `lib/webhookSecrets.ts`) | options in memory, metadata in the store, current and previous secret | update, PATCH, rotate, clear, reconnect, restart | overlapping writes; rotation within a grace period |
| Sessions (`connection.ts` connect/close/handleConnectionUpdate, `connectionManager.ts`) | socket, retry counter, reconnect timers, session map, credentials | create, reconnect, delete, restore, close events | timers that outlive the session, overlapping connects, close events that come twice |
| Auth backends (`baileys/authState/*`) | decided backend, its record, the stores | resolve, record, switch, delete | Redis not up yet at start, outages, restarts |
| Message store (`baileys/store/memoryStore.ts`) | rooms, LID to PN aliases, dirty flag, tombstone, file | event handlers, merge, periodic write, load, destroy | the write awaits; deletion during a write; rooms that merge |
| Broadcast jobs (`services/broadcastQueue.ts`) | job map, counters, status | create, send loop, cancel, clean up | cancel while a send is awaited; failed sends |
| Unified send (`routes/messages.ts`, `services/messageSender.ts`) | slots in use per session | acquire, send with a time-out, release | a send that timed out goes on |
| API keys (`services/apiKeys.ts`) | records in a file and in Redis | create, find, touch, revoke, migrate | outages between the two copies, outdated records written back |
| Accounts (`dashboard/auth.ts`) | user list, tokens | register, sign in, approve, roles, delete, password | read-modify-write across an awaited password hash |
| Limits (`middleware/rateLimit.ts`, `services/loginGuard.ts`) | fixed windows, failure counters, locks | check, fail, succeed | overlapping attempts, window edges |
| Dashboard pages (`dashboard-ui/js/pages/*.js`, `dashboard/eventBus.ts`) | selected session or room, the one form, timers, polls, the feed, the stream | open, select, type, submit, poll, leave | answers in any order; requests of a page already left; timers that outlive it |

How they interact: Baileys events go to the store (synchronously) and to `handleMessagesUpsert`, which awaits
webhook delivery and then routes the message to the AI router or the static rules; the router calls back into
the connection to generate (the agent, its tools and its budget) and to deliver; `ConnectionManager` owns the
connections and drops them in their `onConnectionClose` callback; routes and the dashboard call connections
directly; the event bus hands what happens to the pages.

## 2. What makes each part correct

- **Router**: a text is in one place, moves forward only, and reaches a prompt no earlier than the idle window
  allows and no later than the cap (or the idle window, where that is longer); a pause holds over everything
  that deletes or recreates the conversation, a mute until it ends or, where it began during a flush, until
  that flush forgets the conversation; no backlog is left without a timer.
- **Inbound routing**: one responder per message; the static fallback speaks after a failure only; a human's
  reply silences the AI; cooldowns ration the static answers.
- **Agent and figures**: every tool call is answered before the next request; requests and sends are bounded;
  the history is the newest that fits; the figures that the process and its sessions count alike add up.
- **Webhook delivery**: no more deliveries at work than slots, no turn lost; the circuit opens on consecutive
  failures and lets somebody through after its cooldown; a verdict is final; an event that was tried and not
  received is kept; the tokens granted for a receiver keep its rate whatever happens to its bucket.
- **Dead letters, jobs**: nothing leaves without one of the code's reasons; what a client polls is true;
  sends are paced; replays and jobs end.
- **Settings**: an answered change stays, live and stored; receivers learn of a secret before it signs alone.
- **Sessions**: at most one attempt per connection; a dropped connection comes back; requests keep the limit
  and end; reconnecting keeps credentials; deleting is final.
- **Auth backend**: one store per process, the recorded one, until somebody confirms another.
- **Message store**: one room per contact; a store that is not marked dirty is in its file; a closed store's file
  holds its last state and a deleted one has none. Each but the first excepts what `writeToFile`, `close()` and the
  read of a reconnect do not prevent (`mishaps`, section 7).
- **Slots, keys, accounts, limits**: slots neither leak nor go negative; a key is not lost, and not back after a
  revocation that met no other request; there is an administrator and no token says more than its account;
  guesses are bounded.
- **Pages**: the conversation can always be written in, and is refreshed as long as requests are answered; a form
  saves what its user saw of that session; the code shown is that of the session asked for and is followed until
  it is decided; a peer sees typing end where no request is lost or overtaken; the feed shows every event once at
  most and in order. What each of them excepts is said at the property and in section 7.

The hazards behind these, line by line, are in `PROJECT.json` with the properties that guard them. One has no
property: the graceful shutdown (`connectionManager.ts:289`), which is not modelled.

## 3. The modules

Conventions. One action is the code between two awaits. A call suspended at an await is a field of the object
it works for, or a record in a set or a sequence; what it read before the await is kept there and used after
it, as the code does. Objects that outlive their place in a map are identities in a heap beside the map. Time
is an integer advanced by a tick; 0 means "unset" where it does in the code. Variables marked "history" are
read by no guard. An operator commented "(Variant: ...)" is a plausible bug and used by no specification; it
shows that the property listed with it in `PROJECT.json` can fail.

### ConversationRouter (MCConversationRouter, ConversationRouterProofs)

`services/conversationRouter.ts`. `conversations` is the map, `state` the `ConversationState` objects: `texts`
(ids in arrival order), `firstAt`, `pausedUntil`, `mutedUntil`, `epoch`, the one timer (`timerAt`,
`timerEpoch`) and `stage`, the `flushing` flag with the await it stands at.

| Action | Code |
|---|---|
| `Enqueue` | `enqueue()`: eligibility, mute, cap on the batch, debounce, forced flush at the limit |
| `Pause`, `Mute` | `pause()`, `mute()`: longer deadline wins, epoch, re-arm |
| `TimerStale`, `TimerRearm`, `TimerFlush` | the three ways through the timer callback of `arm()` |
| `GenerateDone`, `GenerateNothing`, `Delivered`, `FlushFailed` | `flush()` after its awaits, with its `finally` block |
| `Dispose` | `dispose()`; handlers of the closed session may enqueue afterwards |
| `SetEligible`, `Tick` | what `isAiEligible()` answers, time |

What `BacklogIsServed` and two parts of `TextsTakeTheirTurn` say holds until the session is disposed of: a
handler of the closed session may enqueue once more, into a new object, and a flush in flight may then end on
the old one and delete the new one's conversation by its id, timer and all.

`Inbox` is what the session counts on of this: per conversation a set of queued texts, the prompt they are
answered in and the two deadlines, and what a step may make of them (`Held`, `Silenced`, `Served`, `Joined`,
`Landed`, or a `Reset`), without timers, epochs and objects. `ConversationRouter` implements it
(`RouterIsAnInbox`: the fields of the object the map lists, and an empty box where it lists none), and so does
`InboundRouting`, which keeps no more of the router than that (`HandlersUseAnInbox`). So the two models of the
router agree on what one of them does and the other assumes.

### WebhookDelivery, DeadLetters, TokenBucket (MCWebhookDelivery, MCJobs, WebhookDeliveryProofs, DeadLettersProofs)

`sendToWebhook` in `baileys/connection.ts` with `ConcurrencyQueue` and `PerUrlCircuitBreaker` of
`services/webhookQueue.ts`; every event is a `Delivery` whose `stage` walks through breaker check, queue,
attempts, sleeps and verdict. A queue promise that is resolved takes its slot a microtask later, so a promised
slot (`granted`) is a stage of its own. `WebhookDelivery` contains an instance of `DeadLetters`
(`Letters == INSTANCE DeadLetters`): a delivery that gives up takes its `Add` step, replays are its other
steps. An event ends in `success`, `failed` (and in the buffer, if it was tried), `skipped` behind an open circuit,
or `blocked`: the address is turned down at the start, nothing is posted and nothing kept
(`connection.ts:1635-1646`; the check inside an attempt is the answer "refused", which is kept). `DeadLetters` is
also checked alone, with clears, restarts and overlapping requests. `TokenBucket` is the rate limiter on its own,
counted in shares of a token, with the deliveries that go on without a token when their wait is over; in
`WebhookDelivery` it is a wait of any length.

In `DeadLetters` a replay removes its entry by the place it finds it at (`PlaceOf`, `Without`: `findIndex` and
`splice`). `DeadLettersProofs` proves about it.

### BroadcastQueue (MCJobs, JobsProofs)

`services/broadcastQueue.ts`: `jobs` holds the keys of the map, `job` the job objects, each with its loop at an
await (`at`) and its `place` in the order of insertion. `Before` is the order of the sort in
`cleanupOldJobs`, by age and then, since the sort is stable, by place; `Young` are the jobs its first loop
leaves. Both registration checks (all at once before the loop, or per message), the send, the
delay, the batch pause, `cancelBroadcastJob` and `cleanupOldJobs` are actions.

### Sessions (MCSessions, SessionsProofs)

`baileys/connectionManager.ts` with connect, close and close events of `baileys/connection.ts`.
`connections` is the map; `conn` the connection objects with their socket, retry count, pending timers and
the calls of `connect()` and `close()` suspended in them; `sock` the sockets, which live on when their
connection forgets them; `stored` what the auth store has; `task` the requests and the restore loop.

### What the server stores and lets through (MCServer, ServerProofs)

| Module | State and actions |
|---|---|
| `AuthBackend` | the decision of the process, the record, the configuration, what each store holds, callers at the await of the ids; start of the server, Redis coming up or not, resolving by a request or by the restore loop, crash, refused switch |
| `SessionSettings` | `live` options, `saved` metadata, `writes` on their way in order, a handler or a reconnect that has read (`reading`); rotation, setting, clearing, other settings, PATCH, reconnect, restart with readable or unreadable secrets |
| `MessageStore` | `mem` (messages per room, chats, the mapping), `onDisk`, `dirty`, `snapshots` that are being written (several may be), what a connect has read (`loading`), the tombstone; events under either address as long as a socket is up, also after the close; requests that await WhatsApp and end then (`RequestStarts`, `RequestEnds`); saves by the timer and by `destroy()`, each a start and an end that may fail (`AutoSave`, `Destroy`, `SaveEnds`); the read of each connect (`ReadStarts`, `ReadEnds`), closing sockets, tombstone and removal of the files (`MarkDeleted`, `DeleteAuthState`), crash, boot |
| `SendSlots` | `inFlight` per session, where each send and its request stand; the number check, typing, socket answer, time-out, sockets that open and close |
| `Accounts` | the user list, tokens, and handlers suspended in a hash with the list they read |
| `LoginGuard` | windows of the limiter, failures and locks per name and address, attempts under way |
| `ApiKeys` | `file` and `redis` copies, requests suspended at a Redis command with the record they read, failing commands and outages |

### Who answers (MCChats, ChatsProofs)

| Module | State and actions |
|---|---|
| `InboundRouting` | messages received so far (`mail`), handlers of batches, each with the messages it has still to look at, at their awaits, the inbox the router is to them (queue, paused, muted, flushing), strikes, cooldowns, own ids, what the human wrote; handling, static answers, flush and its end, handoff, restart |
| `AgentLoop` | per reply: round, attempt, pending and owed tool calls; the shared `quota`, the times of sends, whose old end is cut off at the first time within the hour |
| `ReplyRules` | functions: `SelectHistory`, `BuildHistory`, `IsWithinWindow`, `SmartScore`; a step asks one of them about one input; for `BuildHistory` that is a chat as it is stored and any texts as they are asked, since these went through `sanitizeUserText` and carry a media descriptor and the stored ones do not. The walks are recursive functions over the places of the entries, a place from the one before it, as the loops are; the sort by time is a choice by rank |
| `AiMetrics` | counters of `aiMetrics.ts` in their four scopes |
| `AiSettingsPage` | the form and the panel of the AI page, the requests under way, what each session's settings have become |

### The pages (MCPages, PagesProofs)

| Module | State and actions |
|---|---|
| `ChatRooms` | what is selected and shown, the one form and its listeners, the one timer, and chains of requests with the code that follows each answer |
| `TypingPresence` | the three timers, requests without an answer, what was sent last per room, what each peer saw |
| `WebhooksPage` | the list read on the visit, the forms of two pages with the address they show, requests under way |
| `QrPolling` | the modal, calls of `pollQR()`, the one `pollTimer` beside the intervals that really tick, and of each the updates without an answer (`asking`): an interval waits for none of them, and they are answered in any order |
| `EventFeed` | the bus with its kept events, streams with what is on its way, visits that wait, the feed |

The modules of `MCServer`, of `MCChats`, of `MCPages` and the two of `MCJobs` share no state. Each of these MC
modules runs one of them per behaviour, chosen by the variable `part`; the others stay as they started. Every
module has a specification of its own (`SlotsSpec`, `KeysSpec`, ...); the proofs are about these, and the last
part of each proof module carries them over to the specification the run checks.

## 4. The runs

"pass" runs find no error; a "violation" run shows the one property it lists, a sentence of the documentation
or of a comment, violated by what the code does (section 7).

| Run | Shows | Bounds |
|---|---|---|
| `router` | batching, pause, mute, disposal; the router is the `Inbox` its session takes it for; the backlog drains and flushes end, with fairness | one conversation, two state objects, four texts, batches of three, two epochs, one disposal, idle 2, cap 3, calls up to time 2 |
| `router_stranded` | violation | two texts |
| `webhook_queue` | no turn in the queue is lost (`QueueKeepsTurns`); the circuit opens after enough failures, cools once and closes (`CircuitIsFair`) | five deliveries, two slots, threshold 2, single attempts |
| `webhook_retry` | verdicts are final and Retry-After is kept (`AnswersAreHeeded`); what happens to the buffer is what `DeadLetters` allows, every event that was tried is received or in it, and one is dropped untried only for a blocked receiver or behind an open circuit (`FailuresFillTheBuffer`); deliveries end, with fairness | three deliveries, one of them to a blocked receiver and one without its secret, one slot, two attempts, threshold 1, Retry-After 0 or 3, one replay |
| `jobs` | replays of dead letters and the send loop of jobs, with fairness | three failures, room for two, two requests; a job of three messages and one of one, batches of two, room for one ended job |
| `sessions` | requests, timers, close events, with fairness | one session on files with two requests; one on Redis with one; two sessions, one place, two creates |
| `sessions_login`, `sessions_deleted` | violations | one session; one or two requests |
| `server` | `AuthBackend`, `SendSlots`, `TokenBucket`, `SessionSettings`, `MessageStore`, `Accounts`, `LoginGuard`, `ApiKeys` | every configured backend; three requests for two sessions with one slot each; two receivers, two deliveries, eight ticks; four changes and two writes on their way; two messages, room for one, two events or requests, two writes of the file at once; two names, two hashing requests; two failures to a lock, windows of one or two ticks; one plaintext and one hashed key, two requests |
| `chats` | `InboundRouting` (and that it uses an `Inbox`), `AgentLoop`, `ReplyRules`, `AiMetrics`, `AiSettingsPage` | two messages of a conversation, one AI request, two strikes; two replies with one tool round and one send an hour; histories of up to three entries at two times, texts of two costs, budgets up to two, every window of six minutes, four distances, chats of up to three messages with up to three texts asked; three decisions over two sessions and two days; two sessions and three requests |
| `pages` | `ChatRooms`, `TypingPresence`, `WebhooksPage`, `QrPolling`, `EventFeed` | two chats and two chains of requests; two rooms and three requests; two sessions, two requests, one address typed; two sessions and two polls with two updates of an interval at once; four events, two kept, three shown, two streams, two visits |
| `rooms_overlap` | violation | the same with three steps left |

Why these are enough: conversations, receivers, letters, jobs, sessions, keys and accounts share no state
beyond slots, maps and lists, so two of each, and requests enough for one to overtake the other, give every
interaction. A batch of three with four texts reaches the restarted idle gap, the cap,
a trimmed text, the forced flush and a backlog behind a flush;
two slots for five deliveries give waiters that overtake each other; threshold 2 separates a failure from an
opening; a buffer of two with three failures evicts; three messages in batches of two give a delay, a batch
pause and an end. One retry per connection separates "retry" from "give up". Two writes on their way can fail
and succeed in either combination; two messages with room for one give an eviction, and one in each room a
merge; two writes at once are what it takes for a rename to put older rooms over newer ones. One send an hour
with two replies is the tightest budget two can compete for. Two polls, visits, streams or requests are what it
takes for an answer to come to a page that has moved on, two updates of one interval for one to overtake the
other. Deadlines are a few ticks and clocks stop at a bound, which bounds the number of re-arms, not their
order. The bounds are guards of the actions that add something (a text, a request, a step), never of those that
finish it.
`CHECK_DEADLOCK FALSE` everywhere: a process with nothing left to do stops.

Fairness. The event loop runs every due timer and microtask, so ticks, timer callbacks and promised slots are
weakly fair. An awaited call settles: webhook fetches are aborted after 30 s, AI calls by the provider timeout,
socket queries by the socket's own timeout, store and file operations by the operating system. Nothing is
assumed about callers, receivers, humans or sockets: texts, requests, answers and close events come or not.
The one await without any limit, the wait for a QR code before a pairing code (`connection.ts:414`), is not
assumed to settle, and `RequestsEnd` excepts it when its socket is gone. The pages' requests have no time-out,
so nothing is assumed of them either: their properties are invariants about what is still under way.

Exceptions. Where the code does not keep a promise in a known way, the property excepts exactly that way by a
history variable (`overlapped`, `outdated`, `mishaps`, `clean`, `met`, `late`, `marred`, `hasty`, `missed`,
`crossed`, `tangled`, `cut`, `belated`, `thrown`), whose comment says what it stands for, and section 7 describes it.

## 5. The proofs

Eight proof modules; every safety property that a passing run checks is a theorem of the specification the run
uses, refinements included. `PROJECT.json` lists the theorems; the lemmas they rest
on stand before them. All hold for every value of the constants that the named assumptions allow, so for any
number of conversations, sessions, requests, messages and keys and for any limits and delays.

How they go. A module's inductive invariant is `XInv`: its type invariant, the property, and what the suspended
calls still owe to it, which is where the property alone is not inductive. Three lemmas (the start, the step,
what the invariant implies) and one temporal step make the theorem. The step lemma has a lemma per action or
per kind of effect. Action properties follow from the same step lemma. Every `XInv` was an invariant of a run
of TLC before it was proved.

**Router** (`ConversationRouterProofs`), in layers, each proved on top of the one before.

- `TypeCorrect`: one lemma per function that builds a new object.
- `TextsHavePlaces` (`OnePlacePerText`), from `NamesInv` (an object that holds texts, a timer or a flush has the
  id it is listed under) and `PlacesInv` (a text that has not come is in no object). All operations are cases
  of one lemma about an object that gives up or keeps texts (`Moves`). The same step gives `TextsMoveForward`.
- `BacklogsAreServed` (`BacklogIsServed`), from `ServedInv`: until the disposal an object something waits on is
  listed, and `Sound` relates its texts, deadlines, timer and epoch to each other and to the ages of the texts.
- `TextsKeepTheirTurn` (`TextsTakeTheirTurn`): when a timer starts a prompt, `Sound` says how long its texts
  have waited.
- `RouterIsTheirInbox` (`RouterIsAnInbox`), from `InboxInv`: `ServedInv` and that an object has a prompt exactly
  while a flush of it is suspended. Each action of the router maps to a move of one box or to a stutter: a timer
  that flushes is of the object that is listed, since `ServedInv` gives every other one none, so it serves the
  box; a full queue keeps its newest texts, by their number (`NewestAreNewer`); the deletion of an idle
  conversation leaves the empty box; the shutdown is the `Reset`, after which nothing is promised. In `Inbox` a
  pause is never shortened; a mute is by `Landed`, the end of a reply in a box without texts and pause.

**Webhook delivery** (`WebhookDeliveryProofs`): `TypeCorrect`; `CircuitIsSound` from `BreakerInv` (the code's
counter is below the failures since the last success only while the circuit is open); `CooldownNeverMoves`
and `CircuitCools`, together `CircuitFair`;
`NoTurnIsLost` from `QueueInv` (waiters distinct and finite, so that a released slot is promised to exactly
one); `RetryAfterRespected` and `VerdictEndsAttempts` from `AttemptInv` (the stage of a delivery agrees with
its verdict, its posts and the end of its sleep), together `AnswersHeeded`; `FailuresAreKept` (what was tried is
received or kept) and `NoneIsDroppedEarly` (what was not tried had a blocked receiver, or one to which enough
deliveries failed, by `CircuitIsSound`).

`BufferIsFed` (`FailuresFillTheBuffer`) is a refinement: every behaviour of the deliveries is one of `DeadLetters`,
the failing step its `Add`, the other steps its own or stutters. `Add` takes an event once only; that this guard
never blocks a delivery is what the proof has to show, and follows since a delivery still under way has not
failed and, by `KeptIffFailed`, only failed ones were added. `BufferIsSound` then has what `DeadLettersProofs`
proves about the buffer alone, for the buffer in use.

**Letters** (`DeadLettersProofs`) **and jobs** (`JobsProofs`):

- `LettersSound`, `LettersLeave`: an entry is added once and never moves relative to another, so the order of
  the buffer is the order of the failures; a replay of one entry has it at its head until it ends.
- `JobsHonest`, `SendsPaced`: `Looping` says of each loop, at each await, which messages are settled and when
  the last one was, against its counts and the time it sleeps until.
- `RemovalsHaveReasons`: `cleanupOldJobs` takes the old and ended ones and then, in order, as many as are over
  the limit; that no older ended job stays needs a least element of a finite set of places (by well-founded
  induction on naturals).
- `JobsTypes`, `NothingIsLost`: both, in the specification of the run.

**Sessions** (`SessionsProofs`): `SessionsTyped` and `SessionsSingle`. `SessionsInv` adds that live sockets have
owners and that a busy task has its session and its connection. `SessionsAreSingle` counts two things, the
places taken among the sessions and the attempts of a connection; the proof shows for each action that a place
is taken only where there is room, and that an attempt only turns into another one (timer to call, call to
socket, socket to timer), or that a request closed the connection.

**Server** (`ServerProofs`), one inductive invariant per module:

| Theorem | Why the property alone is not inductive |
|---|---|
| `SendsAccounted` | what a client was told and what went out must agree with the stage of its send (`StagesAgree`) |
| `RateKept` | what was granted and what is left in the bucket are together no more than what flowed in (`Balanced`); without a bucket, enough time went unspent to fill a new one; the next poll is never after the end of the wait; those who went on without a token are counted apart, once per wait of each delivery |
| `LoginThrottled` | each guess is in the count or under way (`GuessesAreCounted`); the window of an address does not end before the wait the limiter told it of (the wait a lock tells is not promised, section 7) |
| `BackendKept` | whoever still waits waits for a first decision; unless two waited at once, what is written, pending or recorded is what was decided |
| `KeysKept` | a request suspended with a record is one the revocation met (`RequestsAreMet`), what is moved or being deleted agrees with the file, and who comes with a cleanly revoked key only looks for it |
| `SettingsKept` | unless somebody holds outdated metadata, writes go out in the order of the changes, none older than the last answer nor newer than the options in memory |
| `StoreSound` | rooms being written or read are sound too; until a mishap, what is being written is what the store holds, and a clean store is its file, or is empty and about to get the file's rooms (`MarkTells`); a closed one is being written or has been (`CloseTells`); a deleted one is not (`DeletionTells`); without a process nothing runs (`NothingRuns`) |

`ServerLimits`, `ServerKeys`, `ServerStore`, `ServerAccounts`, `ServerStorage` and `ServerTypes` state them as
the run does. For the accounts, `Governance` says that every list that is written, those read before a hash
included, is empty or has an administrator; without the second half an outdated list could end the
administration. `AccountsTyped` has their types.

**Who answers** (`ChatsProofs`):

- `AgentBounded`: the requests of a reply are paid for by its rounds, its attempts and its one fallback; the
  quota is the end of the list of all sends, and what was cut off is an hour old.
- `AiFormKept`: the last load asked for is of the selected session.
- `AnswersGoverned`: a message is in one place (the rest of a batch, a queue, a generation, answered); the role
  under which it was handed on, the promise to the humans and the last static reply are kept with it. What a pause
  stops is the prompt: a reply being generated when it begins still goes out.
- `HandlersInbox` (`HandlersUseAnInbox`): the same invariant, and that an answer under way leaves the queue alone;
  each handler's step is a move of one conversation, a restart the `Reset`.
- `RulesExact`: the windows and the filter, by arithmetic. `RulesAndFigures` adds the history, for stores
  and batches of any length: the entries are put in the order of their times, and the history is as many of the
  newest as both limits allow. Of the texts being answered it says what the walk does give: what it takes out are
  texts of the contact that are asked now, no more than are asked, and at least one where the last of them is stored
  as it is asked; the rest keeps its order. That all of them go, as the comment at `connection.ts:1135` says, is not
  true (section 7). The walks are followed by induction
  over places. The library's induction takes an operator as a parameter, so each is a proof about the least
  place that breaks the claim (`NatLeast`) from the place before it.
- `FiguresAddUp`: `SumOf` counts the pairs below the terms of a sum, so a term that grows by one adds one
  (`SumGrows`); no induction over the sessions is needed. Compared are answers, static replies, failures and
  pauses; "human" is not, since the two scopes count it differently (section 7).
- `ChatsTypes`: the types of all.

**Pages** (`PagesProofs`). Each invariant says what is true of the answers under way.

- `SignInIsFollowed`: unless calls overlapped there is one interval at most and every update under way, of which
  there may be any number, is of the session in the modal. Unless one of them was answered after the interval was
  cleared, the page left or the first update failed, a modal that is undecided has its interval or first update.
- `FeedOrdered`: everything lists events in their order, and what a stream still brings is newer than the feed.
- `TypingHasAnEnd`: of a room nobody types in no "typing" is under way, and behind a "typing" under way nothing
  else; if its peer sees it, the request that takes it back has not arrived (`Traced`). Rooms with a lost, left out
  or overtaken "paused" (`missed`) are excepted: there the peer is left with "typing".
- `WebhookUrlIsKept`: a form nobody typed in has the URL of the server (`Straight`), requests included.
- `RoomsRecover`: the rest of each chain of requests ends in what the page waits for: the steps still to come
  free the form, whatever fails, or arm the timer again, as long as no request went without an answer (`thrown`).
- `PagesTypes` has the types of all pages and `PagesKeepTheirWord` their properties, in the specification of the run.

Assumptions. Each module names its own (`RouterAssumption`, `WebhookAssumption`, `SessionsAssumption`, ...).
They say that numbers are natural, that limits the code takes to be positive are, and that "no session", "none"
and the like are not names. Beyond that: senders, attempts, deliveries, sessions, sockets and requests are
finitely many, since slots, guesses and places are counted and a run of the process meets finitely many;
a bucket is dropped only after a time that fills one (`BucketAssumption`: five minutes against a capacity of a
minute); `MaxShown >= MaxKept` (`FeedAssumption`: 100 rows, 100 kept events); the quota and the attempts of
the agent are at least one, as the configuration requires.

Only model-checked: the liveness properties `RouterSettles`, `DeliveriesEnd`, `WorkEnds`, `DroppedIsRedialed` and
`RequestsEnd`, which rest on fairness, that is on ENABLED, and which the prover cannot handle. The violation
runs show single behaviours and have nothing to prove.

## 6. What is not modelled

`PROJECT.json` lists every component. Partly modelled: sessions (without the graceful shutdown), the message
store (without receipts, contacts, reactions, presences, the eviction of whole rooms), inbound routing (without
the wording of rules and images), filters (only the OTP score), the dashboard API (only what changes state
that something depends on) and the pages (without drawing). Left out: HTTP glue and schemas, which validate
and call one operation; the settings, messaging, overview and API pages, which send one request per form;
logs nobody reads back; random delays, which any await already may take; cryptography; media; the OpenAPI
document.

Abstractions that matter: images queue beside texts under the same rules and are dropped; jitter is dropped
from delays; sends and checks of a broadcast may fail in any pattern; auth store writes of a session take
effect when they are issued, those of its settings in order and later; two creates never carry different
options; settings other than the secret are one revision number; a form of the AI page is the session it
shows, one of the webhooks page the address; what the language model, its tools and the receivers answer is
nondeterministic.

## 7. Findings

Shown by a violation run:

- `router_stranded`: a timer that fires during a generation is spent, and nothing arms another.
- `sessions_login`: reconnecting a disconnected session on Redis deletes its credentials: `destroy()` calls
  `close()`, which calls `clearState()`.
- `sessions_deleted`: a reconnect timer outlives `DELETE` and stores the session again.
- `rooms_overlap`: a second submit of the chat form while the first waits for the typing to be paused sends
  the same text again.

Seen while modelling and kept out of the runs (the models contain the behaviour, no property denies it).

Router, replies and agent:

- A generation that ends after a mute began deletes the mute with the conversation
  (`conversationRouter.ts:304`; README:385). A reply being generated when a pause begins is delivered (:294;
  README:363).
- With `batchMaxWaitMs` below `batchIdleMs` the re-arm waits for the idle window (`conversationRouter.ts:222`).
- The role `primary` does not keep the AI from answering first: `enqueueForAi` runs before the static rules
  (`connection.ts:765`). A `fallback` text is not sent when the guard blocks. A batch of `messages.upsert` with
  texts of several conversations is queued under the first one (`conversationRouter.ts:2`, "Per-conversation
  batching").
- Human activity is looked up when a text comes, not when the reply goes out; after a restart the gateway's own
  messages count as a human's (`connection.ts:1163`, :1190).
- The texts being answered are to be kept out of the history (`connection.ts:1135`), and are not always: only the
  last one still pending is looked for, from the oldest entry on (:1149-1157), so of a batch of several the
  others stay and an older equal text may go instead; and the asked texts are sanitized, cut and
  carry a media descriptor (:849-857) while the stored ones are raw (:1145), so one that these change is never
  found and those before it in the batch are not looked for.
- Tools are executed in the last round too, whose results nobody reads, and a failure after a successful send
  is followed by the static fallback. Tokens of tool rounds are not counted.
- The hours of a session are never reset by day, those of the process at the day of the zone; `paused` counts
  as human in the session and not in the process (`aiMetrics.ts:165-168`).
- Exclude phrases "are penalties, not an automatic veto" (`otpFilter.ts:181-182`), but with the sensitivities balanced
  and conservative they are one: 8 points at most less 4 stay below both thresholds.

Webhooks, letters, jobs:

- A receiver that only answers 429 opens the circuit (`connection.ts:1889-1892`; README:1299-1300).
- `ConcurrencyQueue.add` checks `running` once: a newcomer may take the slot promised to a waiter, and one task
  more than `concurrency` runs (`webhookQueue.ts:22`; :37).
- The breaker is asked once per delivery, so deliveries admitted earlier post while it is open, and after the
  cooldown every delivery that comes is let through (`connection.ts:1695`; `webhookQueue.ts:147-149`).
- An event skipped by an open circuit is not a dead letter (`connection.ts:1695`; `webhookQueue.ts:152-153`;
  README:1302 "never silently dropped"), nor is one whose address is turned down before the first attempt
  (`connection.ts:1635-1646`), though its delivery counts as failed.
- The rate of a receiver is not a limit: a delivery whose wait is over goes on without a token
  (`webhookQueue.ts:106-125`; the comment at :55 says so). `RateKept` counts these apart.
- After network errors the delay is multiplied but no status backoff applies; the first delay is already
  multiplied (`connection.ts:1848-1851`; README:1294, 1443). A redirect reports one attempt too few (:1783).
- `retry-all` posts entries that a single replay is posting (`dashboard/api.ts:1081`), and removes none it
  delivered. The JSONL file is never read back (`webhookDeadLetter.ts:16-17`, README:1307-1309).
- A job cancelled while its last message is sent ends as completed (`broadcastQueue.ts:191`;
  `routes/chat.ts:229`). After a throw the loop skips delay and batch pause (:167-186; README:1447). Replies
  sent at once by overlapping calls are not paced by the delay between sends (`connection.ts:1339-1347`).

Sessions, settings, stores:

- A reconnect attempt that throws is not retried (`connection.ts:609-611`; README:1432), `onConnectionClose`
  removes by id whatever is listed there, overlapping creates of one session leave a live connection that
  nothing lists, and the restore loop ignores `maxSessions`. A graceful shutdown takes the same way through
  `clearState()` as a reconnect (`connectionManager.ts:289`; README:464-466).
- Reconnecting reads the metadata before it awaits `destroy()`: settings saved meanwhile are lost
  (`connectionManager.ts:117-118`). PATCH with omitted fields overwrites the webhook URL and the automatic
  replies (`routes/session.ts:131-139`).
- A second rotation within the grace period drops the secret receivers still verify with (README:1264-1268);
  clearing the secret during it leaves the previous one signing.
- A request during the connection to Redis decides for files; the decision is recorded
  (`authState/index.ts:50`). Orphan files are cleaned up by the configured backend, not the decided one.
- `writeToFile` clears `dirty` after its await (`memoryStore.ts:466`), so what changes during a write is not saved
  until the next change; clearing and deleting do not set it. Overlapping writes are renamed in any order, and one
  under way at the deletion brings the file of the session back.
- `close()` leaves the listeners of the socket (`connection.ts:406`) and the requests that await WhatsApp: what they
  change after `destroy()` is saved by nobody. A close before the first read of the file writes the empty store over
  it (`memoryStore.ts:533-538`), and every reconnect reads the file again and replaces rooms
  changed since the last save by older ones (:493-504).

Keys, accounts:

- The last-use update writes back a record that was revoked meanwhile (`apiKeys.ts:341`;
  `connectionManager.ts:265-267`), and the migration of plaintext keys writes even if Redis did not answer
  (:210-220).
- A pending account counts as the last administrator (`dashboard/auth.ts:613-616`): the list may be left with
  none who can sign in.
- The wait a locked login is told (`dashboard/auth.ts:156-167`) is not the end of it: guesses that were under way when
  the lock was set fail later and lengthen it (`services/loginGuard.ts:55-58`).

Pages:

- `chatRooms.js`: a listener of another room's load may be attached to the form that is shown; a rendering that
  ends after leaving draws over the next page and goes on polling; a request without any answer, a missing form
  or a search without a match ends the polling. Receipts never match what the page keeps, and
  `message-receipt.update` is emitted twice (`connection.ts:1231-1241`).
- Typing: a "paused" within the cooldown of the last one is left out even if a "composing" is still on its
  way; a refused presence is remembered as sent. Either leaves the peer with "typing".
- `ai.js`: Save before the load of the newly selected session, or after one that failed or was overtaken,
  writes another session's settings, or an empty form's.
- `webhooks.js`: a save is not noted in the list the form is drawn from; the next save of the form drawn again
  writes the old address back.
- `sessions.js`: an interval is set even if the first update found the session connected; overlapping calls of
  `pollQR()` leave an interval nobody can clear and may show another session's code; the delayed closing hides
  whatever modal is open by then. The interval waits for no update (:342) and no request has a time-out
  (`js/api.js:34`): an older answer that comes after CONNECTED or EXPIRED puts WAITING or the code back into the
  modal, and nobody asks any more.
- `events.js`: `paused` survives a new rendering whose button says LISTENING; a rendering that ends after
  leaving opens a stream nobody closes; events between the read of the kept ones and the stream are lost.

## 8. Plan

Done: all modules of section 3, at the bounds of section 4.

Left, in this order:

1. The graceful shutdown in `Sessions`, and the eviction of rooms in `MessageStore`, each with the steps its
   proof module then owes.
2. Eligibility as the outcome of the actions of `InboundRouting`, in a composition with `ConversationRouter`.
   Today the two meet in `Inbox`, which takes the answer of `isAiEligible()` as given.
3. Lemmas shared by several proof modules (counting members of a finite set, the end of a sequence) in a module
   of their own.
