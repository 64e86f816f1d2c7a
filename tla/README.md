# Sauron / OwnTracks for iOS: a verification project

TLA+ models of the parts of this app that carry its own logic and are hard to
test: what happens to a location between the moment it is measured and the
moment a server has it, and what happens to what comes back. The app has three
ways out (the HTTP queue, the MQTT connection with its offline queue and its
flows, and the watch app's own queue), one way in for MQTT messages, and a sign-in
whose tokens several parties share. Each of them is concurrent: Objective-C threads,
a Core Data block queue, URL session callbacks, run-loop timers and Swift tasks
share state with few locks, and the process may be killed at any time.

All paths below are relative to `OwnTracks/` in the repository: `OwnTracks/` is
the phone app, `SauronWatch/` the watch app, `Pods/mqttc/` the MQTT client, which
is a fork kept in the repository.

## 1. The system

### Components

| Component | State it keeps | Operations | Module |
| --- | --- | --- | --- |
| HTTP queue and sender (`Connection.m` with a url) | rows of `Queue`, `state`, reconnect timer | `sendData`, the loop of `main`, `sendHTTP` and its completion, `reconnect`, `connectHTTP`, `resetQueue` | `HttpQueue`, `Outbox` |
| MQTT connection (`Connection.m` without a url) | `state`, `session`, reconnect timer, `intendedDisconnect` | `connectTo`, `connectToLast`, `disconnect`, `reconnect`, `handleEvent`, `connected:` | `MqttConnection` |
| MQTT offline queue, the "shim" | rows of the shim entity | `enqueueMQTTShimPayload`, `drainMQTTShimQueueIfConnected` | `MqttShim` |
| `MQTTSession` | status, stream, connack timer, flows in a persistent store, window, aliases, message ids | `connect`, `closeInternal`, CONNACK, DISCONNECT, `publishDataV5`, `checkTxFlows`, PUBACK | `MqttFlows`, `AtLeastOnce`; parts in `MqttConnection` and `MqttShim` |
| `MQTTNWTransport` | one stream task, a delegate | open, read, close | events in `MqttConnection` |
| Core Data contexts (`CoreData.m`) | `mainMOC`, its child `queuedMOC`, the store | blocks, `sync:` | a sequence of blocks in `HttpQueue` and `MqttShim` |
| Watch queue and scheduler (`SauronWatch/`) | a file of points, `isFlushing`, `nextAttempt` | `append`, `removeFirst`, `tick`, `flushQueueNow` | `WatchUpload` |
| App life cycle (`OwnTracksAppDelegate.m`) | three timers, a background task | `background`, `checkState`, `disconnectInBackground` | none, see 6 |
| Incoming messages (`handleMessage`) | `inQueue`, Core Data objects | a block per message, `syncProcessing`, `terminateSession` | `Inbox` |
| Web sign-in (`WebAppAuthHelper.m`) | refresh token in the Keychain, pending completions | silent refresh, interactive sign-in, store, delete | `TokenRefresh` |
| Location API (`LocationAPISyncService.m`) | cached access token, fetch in flight | obtain, GET with retries, prompt, invalidate | `TokenRefresh` |
| Regions (`LocationManager.m`) | inside sets, pending exits | enter, exit, hold-down | none, see 6 |
| Realtime inbox (`OTInboxRealtimeCoordinator.swift`) | hub task, debounce, suspension | reconnect, refresh | none, see 6 |

Views, sensors, settings, dashcam, TV app, widget, intents, message encoding and
the vendored pods keep no protocol of their own and are not modelled;
`PROJECT.json` lists every one with its reason.

### How they interact

* The location manager and the app delegate call `sendData` on the main thread.
  With a url the message becomes a block of `queuedMOC` that inserts a row; without
  one it is published, or becomes a row of the shim.
* The `Connection` thread wakes every second, and in HTTP mode runs one pass in a
  block of `queuedMOC`; it also runs the drains of the shim after the first.
* URL session callbacks (HTTP completions, MQTT stream events) run on queues of
  their own and write `state` directly. They submit blocks to `queuedMOC`.
* Timers (reconnect, connack, retransmission) fire on the main run loop.
* `disconnect` and `connectTo` run on the main thread and change the session and `state`
  while the delegate queue of a stream may be in the middle of an event of the same session.
* `queuedMOC` runs its blocks one at a time in the order they were submitted. It is
  a child of the main context, so a save in a block waits for the main thread.
* MQTT messages come in on the delegate queue of a stream, are counted, and become
  blocks of `queuedMOC`; the main thread waits for the count before a reset.
* Polls, tabs and the sign-in prompt share one refresh token, which the server
  replaces at every use; all of it on the main thread, but between requests.
* On the watch the timer, *Send Now* and the location callback each start tasks;
  they share the file through a lock held for one read or write at a time.

### What is hard

* Nothing ties an HTTP completion to the row it was made for, an MQTT event to the
  attempt it belongs to, or a watch answer to the points that are removed for it:
  three times the code relies on order alone.
* `state` is read in one thread and used in another after something else has run.
* Timers are forgotten without being invalidated.
* The process dies between the answer of a server and the delete of the message.
* Two tasks run a loop that was written for one.
* Every queue has a capacity, and what it throws away may be on the wire.
* `MQTTSession` has no lock: the window, the aliases and the flows are read in one
  step and changed in another, on the main thread and on the queue of the stream.
* Neither `state` nor the session has a lock: a command may come between two lines of an event.
* A lock is taken on the value it protects (`@synchronized (self.inQueue)`).

`PROJECT.json` lists these as hazards at their lines, with the properties that
would catch them, or the reason why none does.

### What makes each component correct

* **HTTP queue**: a stored message stays until the server has answered it or the
  overflow rule gives it up; messages are answered in order; a row always leaves in
  the end; requests do not multiply.
* **MQTT connection**: there is always something that leads on (never stuck);
  `state_connected` is true; nothing of an old attempt ends a later one; off is off;
  once wanted for good, it is up for good.
* **Shim**: a QoS 1 message is never lost between `sendData`, the shim and the
  session; drained in order, once; and drained in the end.
* **Watch**: a point stays in the file until it was acknowledged or pushed out; the
  server stores points in order; `isFlushing` is given back; the file empties.
* **Flows and aliases**: a published message ends with its PUBACK and reaches the broker
  at least once; the window is respected; the broker is told an alias before it is
  used.
* **Tokens**: the app stays signed in; a reset signs it out; the user is asked when
  there is no token, and once; polling never stops.
* **Inbox**: an acknowledged message is processed and saved; the wait for the inbox
  ends; a reset leaves nothing of what came before it.

## 2. The modules

### `Outbox`, `HttpQueue`

`HttpQueue` has four actors: the `Connection` thread (`loop`: idle, waiting for the
block queue, or holding a fetched row), the block queue (`moc`), the completions
(`flight`, requests on the wire per message) and the main thread (`timer`,
`strayTimers`, `connectHTTP`, `resetQueue`).

| Module | Code (`Connection.m`) |
| --- | --- |
| `SendData`, `RunInsert` | `sendData` with a url; its block |
| `LoopWaits`, `LoopFetches`, `LoopSends` | one pass of `main`: wait for the block, fetch, look at the state, post, drop the newest row above the capacity |
| `Delivered`, `Rejected`, `Failed` | the completion handler: 2xx, 4xx, all else |
| `RunDelete` | the block of the completion; after a 2xx it sets `state_starting` |
| `StartReconnectTimer`, `Reconnect` | the reconnect timer; a second call forgets the first timer (`strayTimers`) |
| `ConnectHTTP`, `Reset`, `Crash` | `connectHTTP` again, `resetQueue`, death and launch |

`rows` is the entity sorted by timestamp: an insert appends, or, if the clock has
stepped back, goes anywhere. The pass of the loop is three steps because other
threads write `state` and `rows` (`resetQueue` through `mainMOC`) in between.
`connectHTTP` is one step although it assigns several fields.

The five *disturbances* (`reconfigure`, `reset`, `clockback`, `stall`, `crash`) are
counted, so that a property can say under which of them it holds. With any of the four
of `Orderly` a message nobody has answered may be deleted, or answers overtake one
another: they are the boundary of the code's guarantee, not of the model. `stall` is a delete block
that waits longer than a reconnect timer (a second or more).

`Outbox` is what any such queue promises: store at the end, answer the head, remove
an answered head, give up the newest above the capacity, and make progress.

### `MqttConnection`

One record `conn` holds Connection's state and what the session and transport add:
status, stream, connack timer, and what earlier attempts have left (`leaked` streams
that `connect` has replaced, `ghosts` that were cancelled but have not reported
their end, `strays` and `orphans` among the connack timers, `loose` reconnect timers).

Two kinds of thread run the handlers: the main thread (commands, timers) and the delegate
queues of the streams (`Workers`, one per stream that is at work). `job[t]` says which handler
thread `t` is in and how far it has got (`pc`), what it was started for (`goal`), whether it still
works on the connection's session (`own`) and on which stream's queue it runs (`on`; a queue
takes one event at a time). A handler is split wherever it has written something the other thread
reads:

| Steps | Code |
| --- | --- |
| `BrokerRefuses`, `StreamEnds`, `ConnackTimeout`, ...; `ArmsTimer`; `ShowsError` | the status and the event of `error:`; `startReconnectTimer` (`Connection.m:785`); `state_error` (786) |
| `Detaches`, `Shuts`, `ShowsStarting`, `Rearms` | `closeInternal`: transport and timers; the status; the closed event: `state_starting`; the timer unless the close was intended |
| `Connack`, `Accepts`, `ShowsConnected` | CONNACK; the status (`MQTTSession.m:1021`); `state_connected` (`Connection.m:706`) |
| `Closes`, `Looks`, then `Detaches` to `Rearms`, `StopsTimer` | `disconnect` with `closeWithReturnCode` |
| `Renews`, `Tries`, `Dials`, `Listens`, `Opens`, `Uncleans` | `connectTo` and `connectToInternal`; `connect` of the session; the stream |

Statements that follow one another are one step when nothing the other thread writes or reads
lies between them: `state_closed` and `state_starting`, or `intendedDisconnect` and
`state_closing`. The end of a stream is an error, or the close by the broker, which sends the
closed event once before `closeInternal` and once in it (`goal` is `"ended"`).

The two threads really can break the connection, see the findings. So `raced` is set when a
handler starts while another one is running, and three invariants and `Recovers` promise
nothing from then on, until a disconnect that meets no other handler (nor a timer nobody refers to
any more) has made it good: from there they hold again. Between its steps a handler is
allowed to pass through any state; the invariants speak of the moments between two handlers
(`Settled`). `NothingLeftBehind` holds inside the handlers too, but not after an overlap.

`Happens` counts failures, overtaken attempts, early refusals, certificate errors, disconnects and
reconfigurations. Two facts of timing are used: a reconnect timer (a second at least) fires after
the streams cancelled before it have reported their end, and `connectTo` is
called with whatever parameters, so a changed one is a choice. The setting for a clean session is
off; `MqttShim` and `MqttFlows` say what a clean `connect` does to the messages.

### `MqttShim`

The path of a QoS 1 message. `sendData` is two steps, the look at the state and
the branch, as the state may change in between. The branch publishes (`Publishes`:
a flow, `sent` if the session is connected, nothing older waits and the window is
open, otherwise `stored`) or submits an insert (`RunInsert`, with the trim). A drain
runs on the delegate queue of the stream that came up (`"url"`, or `"old"` once that
stream is closed) or on the `Connection` thread (`"conn"`), from block to block:
fetch, then per item check, publish and delete, then count. A block runs only while
the main thread is not inside `sendData` (`Runs`), because its save needs that thread.
The session's store survives the process: `MQTTSession` is given
`MQTTCoreDataPersistence` and `persistent` is on. It does not survive `CleanConnect`: with the clean
flag, which comes from the setting or from a forced `connectTo` with changed parameters, `connect`
deletes every flow of the client before it opens the stream, those that were never sent included
(`MQTTSession.m:2136`). `exposed` counts them with the ones a broker without session makes the
client delete: the code gives them up, and `NoLoss` is about all the others.

Bounds of the model: at most one drain of a closed stream is followed. QoS 0 (which
may be lost by definition) and QoS 2 (not used by the app) are left out, and a full
session store, which takes 102400 flows where the shim holds 8000 rows.

### `WatchUpload`

`queue` is the file, a point its number. Each member of `Tasks` is a Swift task:
`AskFlush` and `BeginFlush` are the two visits to the main actor, `Tick` the timer,
`Post` the payload and the request, `Succeeds` the removal, `Fails` the
back-off, `ClearFlag` the deferred task. `wire` holds requests the server has not got yet,
whether or not a task still waits for them, so a late request and a lost answer are
both behaviours. The server stores a point once. Intervals, spacing and back-off
lengths are timing; errors of reading and writing the file, which the code drops with `try?`, are
left out; `ingestURLOverride` is a non-empty constant, so the guard on an
empty url never holds and is left out.

### `AtLeastOnce`, `MqttFlows`

The QoS 1 flows in detail, where `MqttShim` has only a store and a window. Every thread
that can be inside the session has a `job`: the main thread (publishes, dup timer)
and the delegate queue of each stream (CONNACK and its check, PUBACK, drains). The
steps are those between which another thread can change what was read:

| Module | Code (`MQTTSession.m`) |
| --- | --- |
| `Publish`, `Decide`, `Store`, `Send` | `publishDataV5`: topic and id; count the flows; `storeMessage`; `encode` |
| `Timer`, `Scan`, `PassOver`, `Resend`, `Mark`, `Checked` | `checkTxFlows` flow by flow: what is due is sent, and marked in a step of its own |
| `LinkUp`, `Checked` | CONNACK: the aliases forgotten, the flows in flight deleted if the broker has no session, a check, and only then the new maximum |
| `CleanConnect` | `connect` with the clean flag: all flows deleted, in the same session or in a new one |
| `LinkDown` | `closeInternal`: what is in flight is due at once |
| `Puback`, `Expire`, `Crash` | `handlePuback`; a deadline passes; a restart, with the flows on disk |

`BrokerReceives` is external: it acknowledges what it gets and hangs up on an
alias it has not been told. One topic stands for all: publishing under two aliases at once
adds nothing to what one alias can go wrong. In `Resend` the topic is taken and
the packet encoded in one step, and `storeMessage` creates a flow in one step; the
order in which the checks visit the flows is left open. `overtaken`, `crowded` and
`rushed` record the orders of steps under which the code promises nothing.

`AtLeastOnce` is what such a sender promises: a message that was accepted is pending until
it is done, it is done only after the broker has got it, and it reaches the broker again and
again until then, unless the session ends, on either side: a broker without
session makes it forget what was under way, a clean connect everything.

### `TokenRefresh`

`keychain` is the stored refresh token, `current` the one the server would take, for each
sign-in so far: a token is the pair of a sign-in and the number of its renewals, so that a
stale token can be told from a valid one. Everything runs on the main thread between
requests, so a step is a callback; `MainIdle` says that the completions of one
answer are called in a row before anything else.

| Module | Code |
| --- | --- |
| `Poll`, `Obtain`, `GotToken`, `GotNothing` | `fetchAndApply`, `obtainAccessTokenForLocationAPI` |
| `Refresh`, `Reply` | `performRefreshWithTokenData`: one exchange for all who ask; its answer |
| `GetSucceeds`, `GetRefused`, `Again`, `GetFails`, `Retry` | `performGET`: 200; 401 with its second chance; retries |
| `Looks` | the discovery document has made the client id known, or has not come |
| `Ask`, `Checked`, `UserSigns`, `UserCancels`, `SignInFails`, `SignsIn`, `Signed` | the sign-in prompt, once per start, after another look for a token |
| `WebAsks`, `WebStores` | a tab is given the token and hands one back |
| `Clear`, `Switch`, `Crash` | a reset of the app; foreground and background; a restart |

The server, the user and the web app are external. Three things the code does in several lines are
modelled with their failures:

* `storeRefreshToken` deletes the old entry and adds the new one. The add may fail (`Stores`,
  `WebStores`), and the process may be killed in between (`Crash` with `Storing`), whoever stores:
  an exchange, a sign-in or a tab. `crossed` marks that the app was signed out in this way.
* A token is stored under an account that depends on the client id. `known` says whether
  that id is known: always (there is none, or the settings have it), or as long as the discovery
  document is cached. `Clear` deletes only what it can name then, so a token may
  survive a reset (`crossed` again), and a poll that has looked at the discovery document finds it.
* The prompt of a session is marked before the code has looked for a preference, a URL, a window
  and a token. Where it turns back, the prompt is used up unshown (`spent`).

There is one token at a time where the code looks up several accounts in turn, and with `known` =
`"always"` a reset may keep the token once, for an id from settings that were reset before it. Only
the prompt of the Location API is modelled, not a sign-in started from a tab at the same
time, which shares `pendingCodeVerifier` with it.

### `Inbox`

`thread` holds where each thread is on its way through `handleMessage` or its block; `looked`
and `inside` are two places because the expression of `@synchronized` is evaluated before
the lock is taken, and the number read inside may be another one. `Syncs` is a save, which
goes through the main thread. `DeletesAll` is everything `terminateSession` does from the
moment it sees a count of 0: the main thread serves no save meanwhile. A message stands for
the friend it creates. A new connection may come up while the main thread waits, as the wait runs
the run loop with its timers. The count wraps at `Width`, as an unsigned long does.
Messages of HTTP replies are counted by the context's own thread and have no race; they
are left out, as are incoming QoS 2 flows.

## 3. The runs

| Run | Bounds | What it shows |
| --- | --- | --- |
| `httpqueue` | 2 messages, capacity 1, each of five disturbances once, fair | `NoUnansweredLoss`, `AnsweredInOrder` while orderly; `AnsweredNotResent`; whatever happens, `RequestsBounded`, `NeverWedged` and `Drains` |
| `httpqueue_outbox` | 3 messages, capacity 2, one crash, fair | the queue implements `Outbox`, progress included |
| `mqttconnection` | one delegate queue at work, any three disturbances, one overlap of handlers, fair | `NeverWedged`, `ConnectedMeansConnected`, `NothingLeftBehind`, `OffMeansOff` and `Recovers` |
| `mqttconnection_forced` | one disturbance, no overlap | a counterexample, see findings |
| `mqttshim` | 3 messages, capacity 2 trimmed to 1, batches of 1, window 1; link lost, broker forgets, clean connect, crash, once each; fair | `NoLoss`, `DrainedOnceInOrder`, `Drains` |
| `mqttshim_late` | 2 messages, link lost once, fair | a counterexample, see findings |
| `mqttflows` | 2 messages, window 1, main thread and one stream, any two disturbances, MQTT 3.1.1 and 5, fair | `InFlightBounded`, `AliasKnown`, `Delivers`; the flows implement `AtLeastOnce` |
| `watchupload` | 2 tasks, 3 points, capacity 2, batches of 2, two ticks, one fault, fair | `KeepsPoints`, `AckedLeaves`, `RecordedInOrder`, `QueueIsSuffix`, `Drains`, `FlagClears` |
| `watchupload_dequeue`, `watchupload_retrykey` | small | counterexamples, see findings |
| `tokenrefresh` | 2 fetches, one retry, any two disturbances, fair | `StaysSignedIn`, `SignedOutStaysOut`, `PromptOnce`, `FetchEnds`, `AsksUser` |
| `inbox` | 2 messages, 2 streams, one reset or reconnect, one kill, fair | `AckedKept`, `ResetForgets`, `WaitEnds` |

Why the bounds are enough for the question asked. A capacity below the number of
messages lets one row overflow while another is on the wire and a third, in
`httpqueue_outbox`, is being inserted, and each disturbance can meet every other. Three
disturbances let `MqttConnection` overtake an attempt and fail before it is switched off, and one
overlap with a disconnect after it is what it takes to break the connection and mend it.
Three messages and a capacity of two make the shim trim rows that a drain holds in its batch,
while a flow waits. Two watch tasks are what an overlap takes; three points fill
a batch and push one out. One flow in the window and one that waits is the smallest case in
which an alias or a place in the window can be taken out of turn; a lost connection followed
by a second disturbance covers a retransmission that is disturbed itself. Two fetches are a
poll and the one it overlaps with. Two streams, a count and its block are what it takes to
have two threads at `inQueue` under two locks.

`Limit` bounds each disturbance in `HttpQueue`, `MqttShim` and `Inbox`, and
the sum of them in `MqttConnection`, `MqttFlows` and `TokenRefresh`; `Races` bounds the overlaps of
handlers in `MqttConnection`; `Faults` is the sum of failures and kills
in `WatchUpload`. No symmetry is used, as every run that holds also checks liveness.

Most conditional properties (`Orderly`, `overtaken`, `crowded`, `rushed`, `crossed`, `raced`,
`hasty`) name the orders of steps under which the code does not keep its promise. They are the
boundary of the code's guarantee, not of the model. No run of the project checks that they
are needed; each was added because TLC had found a counterexample without it.

Deadlock is checked in `HttpQueue`, `WatchUpload` and `TokenRefresh`, which never stop. It
is not in the runs of `MqttConnection` (a connection that is up, with its disturbances used
up, has nothing to do), `MqttShim` and `MqttFlows` (all messages sent and acknowledged) and
`Inbox` (all messages received).

### Fairness

* Threads, tasks and blocks that have something to do go on (weak fairness on the
  loop, the blocks, the drains, the watch loops): the system schedules them.
* A request ends: HTTP has a time-out of 45 s, a watch request of 60 s.
* Timers fire: reconnect and connack timers on the main run loop, the watch timer
  while the app runs. A stream that was cancelled reports its end.
* `HttpQueue`: a server that is asked again and again answers 2xx or 4xx again and
  again (strong fairness on `Conclusive`). Without it a server that always fails
  keeps the head for ever, as it should.
* `MqttConnection`: a thread that is in a handler goes on, and a broker that is asked answers.
  Failures are bounded by `Limit`.
* `MqttShim`: nothing is assumed of app, network and broker; the properties speak of
  runs in which the link stays up.
* `MqttFlows`: a thread that is inside the session goes on, timers fire, a dead connection is
  noticed, another one is made, and a broker takes what reaches it and answers.
* `TokenRefresh`: requests are answered or time out, and the timer polls in the foreground.
  The steps on the main thread have strong fairness, because its queue is first in, first
  out: a block that waits there is not passed over for ever by others that make it busy.
  Nothing is assumed of the user and of the web app.
* `Inbox`: threads run, a lock that is free again is taken, and the main thread looks at the
  count again and again.
* Nothing ever has to be sent, no command has to be given and no disturbance has to
  happen.

### Findings

* `mqttshim_late` (code): `Connection.m:408` reads the state, and the row is inserted
  by a later block. If CONNACK arrives in between and the drain fetches first, the
  row stays until the link has been lost and come back, however long the connection
  lasts, although the comment at line 407 promises later delivery.
* `watchupload_dequeue` (doc): the contract says a 2xx removes the payload sent. Two
  overlapping loops post the same prefix and both remove; points that were never
  sent leave the file.
* `watchupload_retrykey` (doc): the contract says a retry reuses the key of the batch;
  `uploadNextFromQueue` makes a new one.
* `mqttconnection_forced` (comment): a forced connect is to use a clean session; with
  unchanged parameters the old session, with its flag reset, connects again.

Seen while modelling and left out of the properties, by name:

* An MQTT 5 flow whose connection is closed between the decision to send it and its storing,
  or whose PUBACK comes before it is marked, is never sent again and keeps its place in the
  window: MQTT 5 flows have no deadline of their own (`overtaken` in `Delivers`).
* `topicToSend` registers an alias for a message that has to wait, or that is sent after
  another one which relies on it: the broker closes the connection (`rushed` in `AliasKnown`).
  The next connection starts without aliases, so the message arrives in the end.
* A `disconnect` between the status of a CONNACK (`MQTTSession.m:1021`) and `state_connected`
  (`Connection.m:706`) ends with `state_connected` on a closed session: no timer, no event, and
  `connectToInternal` refuses every connection until the next `disconnect`. One between the event
  of an error and its `closeInternal` uses up `intendedDisconnect`, and the second closed event
  starts the timer the user has switched off. A `disconnect`, or a reconnect timer that was
  overwritten, between the start of the timer (785) and `state_error` (786) leaves that state
  without a timer. A `connectToLast` between `state_starting` (766) and the start of the timer (768)
  is overtaken by it (`raced` in the properties of `MqttConnection`).
* A clean connect deletes messages that wait in the session and were never sent (`exposed` in
  `NoLoss`).
* Two threads that look at the window together exceed it (`crowded` in `InFlightBounded`).
* A refused exchange deletes whatever token is stored by then, also one of a newer sign-in,
  and an answer after a reset stores its token again (`crossed` in `StaysSignedIn` and
  `SignedOutStaysOut`).
* A token whose replacement cannot be added, or whose process is killed between delete and add,
  is gone (`crossed` in `StaysSignedIn`).
* A reset deletes the Keychain accounts of the client ids known at that moment, where
  `WebAppAuthHelper.h:60` says all client id variants: a token under the id of a discovery
  document not fetched yet survives and is found by a later poll (`crossed` in `SignedOutStaysOut`).
* A prompt that is planned and found unnecessary in the last look for a token, or for which there is
  no window, uses up the prompt of that start (`spent` in `AsksUser`).
* Two threads at `inQueue` under two locks lose an update; the main thread may then wait for
  ever, or the context is not saved any more (`raced` in the properties of `Inbox`).
* The block writes the 0 before it saves, so a friend can be saved after `terminateSession` has
  deleted all friends (`hasty` in `ResetForgets`), although the user was told that stored
  locations will be deleted (`SettingsTVC.m:1193`).

And: after a TLS error with
an unknown peer certificate the session is gone, and a following `disconnect` leaves
`state_closing` for good (`NeverWedged` and `OffMeansOff` exclude a run with that error,
`Recovers` one that ends with it).

## 4. The proofs

Every safety invariant, action property and refinement the passing runs check is also proved, for
every value of the constants; the exceptions are at the end of this section. A theorem rests on
the named assumptions of its module and on nothing else: sizes are positive, bounds are natural
numbers, `None` and the like are none of the things they stand beside, and in `WatchUpload` the
tasks are finitely many. `SafeSpec` is the specification without fairness.

All the arguments have one shape. What a run checks is seldom inductive, so each proof
module begins with the conjuncts that make it so, each named for what it says; TLC checked
each of these invariants on the instance of the run before it was proved. Then come lemmas
about the operators of the model (sequences of rows, blocks and points, sums, remainders), a
lemma for what each group of actions leaves alone, one step per action, and the
theorems, which temporal logic draws from them.

| Module | Theorem | Statement |
| --- | --- | --- |
| `HttpQueue_proofs` | `TypeCorrect` | `SafeSpec => []TypeOK` |
| | `OrderlyQueueKeepsMessages` | `SafeSpec => []NoUnansweredLoss` |
| | `AlwaysLeadsOn` | `SafeSpec => []NeverWedged` |
| | `AnswersInOrder` | `SafeSpec => []AnsweredInOrder` |
| | `NeverResent` | `SafeSpec => AnsweredNotResent` |
| | `WireIsBounded` | `SafeSpec => []RequestsBounded` |
| | `RefinesOutbox` | `SafeSpec => Promise!SafeSpec`, if nothing but crashes disturbs |
| `MqttConnection_proofs` | `TypeCorrect`, `AlwaysLeadsOn`, `ConnectedIsTrue`, `LeavesNothing`, `StaysOff` | `TypeOK`, `NeverWedged`, `ConnectedMeansConnected`, `NothingLeftBehind`, `OffMeansOff` always hold; the three about the moments between handlers as long as no handlers overlap, and again after a disconnect that is alone |
| `MqttShim_proofs` | `TypeCorrect`, `NothingIsLost` | `TypeOK`, `NoLoss` always hold |
| `MqttShimOrder_proofs` | `DrainsInOrder` | `SafeSpec => []DrainedOnceInOrder` |
| `WatchUpload_proofs` | `TypeCorrect`, `NoGaps`, `NothingLost`, `AnsweredLeaves` | `TypeOK`, `QueueIsSuffix`, `KeepsPoints`, `AckedLeaves` always hold |
| | `InOrder` | `SafeSpec => RecordedInOrder` |
| `MqttFlows_proofs` | `TypeCorrect`, `WindowBounds`, `AliasIsTold` | `TypeOK`, `InFlightBounded`, `AliasKnown` always hold |
| | `RefinesAtLeastOnce` | `SafeSpec => ImplementsAtLeastOnce` |
| `TokenRefresh_proofs` | `TypeCorrect`, `SignInLasts`, `ResetSignsOut`, `PromptedOnce` | `TypeOK`, `StaysSignedIn`, `SignedOutStaysOut`, `PromptOnce` always hold |
| `Inbox_proofs` | `TypeCorrect`, `AckedIsKept` | `TypeOK`, `AckedKept` always hold |
| | `ResetIsThorough` | `SafeSpec /\ []Fits => []ResetForgets` |

### `HttpQueue_proofs`

`NoUnansweredLoss` is not inductive: whether the row a delete removes is the
answered one depends on what the state says about the wire. The invariant is
`IInv == TypeOK /\ (Orderly => OrderlyInv)`, where `OrderlyInv` has five parts:

* `Wire`: in `state_connecting` exactly one request is out, for the first row; in
  every other state none.
* `Pending`: no delete is pending while a request may be sent or is out; while
  connected, the delete that leads back to starting is pending; there is at most one,
  and the first row is then an answered one.
* `Timers`: no stray timer, and a timer only in `state_error`.
* `Held`: a pass that has fetched holds the block queue and the first row.
* `Kept`: what was stored is there, answered or given up.

`OrderlyBefore` says that an orderly state has an orderly predecessor. The other theorems of
the module:

* `AlwaysLeadsOn` has no hypothesis and needs none of this, only `HoldsQueue`: the block at the
  head of the queue is that of the pass that has fetched, so the pass ends before any delete runs.
* `AnswersInOrder` adds `OrderInv`: a message is stored once (`Distinct`), and while the clock runs
  forward everything fetched, sent or answered was stored (`Logged`) and the rows are in the order of
  the log (`Sorted`).
* `NeverResent` allows resets, after which the rows no longer tell what is on the wire. `CalmInv`
  says it without them: an answered message that is still a row is the first one, and its delete is
  pending, which bars the state in which a pass would post it.
* `WireIsBounded` counts what may put a request on the wire together with the requests
  (`Budget`): `state_starting`, a pending block of a 2xx, an armed or a stray timer. Each is made
  from another one, and only `connectHTTP` makes one from nothing.
* `RefinesOutbox` maps each step to a step of `Outbox` or a stutter (`StepRefines`), by `IInv`. Its
  hypothesis sets every limit but that of crashes to 0, as the run does: the others are what an
  outbox does not promise to survive.

### `MqttConnection_proofs`

The handlers are in pieces, so the invariant has to say what is true between any two of them.
`IInv` is `TypeOK /\ Histories /\ NoSession /\ Serial`:

* `Serial` holds as long as `raced = "no"`. At most one thread is in a handler (`Solo`). `Stage`
  says what the steps of that handler have established so far, by where it is: `StageError`,
  `StageShut`, `StageAccept`, `StageCommand`, `StageDial`. `Rest` is what holds when no
  handler runs, and the four properties of the moments between handlers follow from it. `Clear`
  says that nothing is left of earlier attempts that could start a handler.
* `NoSession` holds whatever overlaps: without a session there is no stream, no connack
  timer and no delegate, and only the certificate error takes the session away.
* `Histories` ties `raced` and `races`, and the goal of a handler and `kinds`.

The proof goes by kinds of step. `HandlerGoesOn`: one thread moves on in its handler, and it is
enough to establish its next stage. `HandlerStarts`: a handler begins, from `Rest` if it is alone, and
in a run with `raced` otherwise. `DisconnectStarts`: a disconnect that is alone ends a race, and
must establish its first stage from nothing but types and `NoSession`; this is why the stages of a
disconnect promise so little before `closeInternal` is done. `UntoldInv`: an event nobody
listens to. Then there is one lemma per action. The number of threads is not bounded.

### `MqttShim_proofs` and `MqttShimOrder_proofs`

The danger for `NoLoss` is the delete: it removes the row a drain has worked on, by a block queued
after the publish, while the main thread, the network and the process may end the
session in between. The invariant `IInv` is `TypeInv /\ BlocksInv /\ DeletesReached /\
NoLoss`:

* `TypeInv` adds to `TypeOK` (the shim holds at most `Capacity` rows, a batch at most
  `BatchSize`, the session at most `WindowSize` flows in flight) that a busy sender has a message.
* `BlocksInv` says who waits for whom. `Matched`: the thread a block of a drain belongs
  to waits for exactly that kind of block. `Single`: no thread has two blocks in the
  queue. `Parked`: no drain is at work on the queue of the current stream while the link
  is down, so that the renaming of that queue at a disconnect mixes no two drains.
* `DeletesReached`: the message a pending delete removes has reached the session: it is
  stored or sent there, delivered, or given up with the session.

For the order, the messages stand in one line: those published, what is left of the batch, the
other rows, the inserts that wait, and the one `sendData` is about to submit. `Ordered` says that
one drain alone is under way (`One`) and that the line is in order: what has been a row is older
than what is going to be one (`Queued`), the batch is in order with no row come into the middle of
it (`Fetched`), what was published is older than what is left (`Published`). The hypothesis of the
property, `disturbed = {}`, is the hypothesis of `Ordered`.

### `WatchUpload_proofs`

`gone` is the number of points that have left the file. `Numbered` (which proves `QueueIsSuffix` with
no hypothesis): the file ends with the newest point, only points that left are evicted. `Keyed`: a
request is under the key of the loop that waits for it, or under one nobody waits for. `Stored`: the
watch hears only of points the server has. And `Orderly`, while no two requests have met: one loop
at most has posted (`Alone`), it has posted the head of the file (`AtHead`), whatever else is on its
way is a part of that or is known to the server (`WireKnown`), no point that is still in the file is
stored before one ahead of it (`Downward`), and what left was acknowledged or evicted (`Left`).

### `MqttFlows_proofs`

* `Named`: a message and an id are given out once, counting the threads that are on their way to
  store a flow. It needs that `nextMsgId` finds a free id, which follows from the flows being
  finitely many (`NextIdFree`).
* `Same`: until the first restart, the ids of a session are the numbers of its messages, counted
  from where the session began (`Numbered`); so a PUBACK ends the flow of a message the broker
  has. After a restart the ids begin anew with flows of the old count, and `AtLeastOnce` says what
  it then promises. `RefinesAtLeastOnce` follows from these two: a clean connect is its `Forget`.
* `Window`: until two threads have looked at the window together, one at most is between its look and
  its mark, and there are no more flows in flight than it has counted.
* `Told`: until an alias is rushed, one in use has been told to the broker of this connection, is
  ahead of its use on the wire, or is owed by a thread that is on its way.

### `TokenRefresh_proofs`

* `Taken`: a token that was answered with a new one is no longer valid.
* `Holds`, for `StaysSignedIn`, until something comes between a token and its renewal (`crossed`):
  the exchange under way is one of the stored token, and the server has taken it if it has
  answered with a new one, and only then.
* `SignedOut`, for `SignedOutStaysOut`: after a reset that left no token and met nothing under way,
  nothing is under way that could bring a token back.
* `Prompting`: one fetch at a time is on its way to a sign-in, and only while the prompt is marked.

### `Inbox_proofs`

* `OnTheirWay`: no two streams are in the middle of the same message, and none of one acknowledged.
* `Somewhere`: an acknowledged message is in the queue, in the block, unsaved, saved, or accounted for.
* `Counted`: until two threads were at the count, what a thread has read is what it replaces, and
  `inQueue` is the number of pending messages (`Pending`) modulo `Width`.
* `Saved`: nothing is unsaved when nothing is pending and the block is over.
* `Forgotten`: what was counted in before a reset is not on its way.

`ResetIsThorough` has the hypothesis `[]Fits`: whenever a reset sees a count of 0, fewer than `Width`
messages are pending. The module does not bound how many messages wait in the queue, and with
`Width` of them a 0 says nothing. An unsigned long has 2^64 values, so the hypothesis holds in any run
of the app; TLC found that it holds throughout the instance of the run, which has 2 messages and a
width of 4. No other theorem needs it.

### Only model-checked

* Liveness, which the provers used here cannot handle (fairness, `ENABLED`): `Drains` of
  `HttpQueue`, `MqttShim` and `WatchUpload`, `FlagClears`, `Recovers`, `Delivers`, `FetchEnds`,
  `AsksUser`, `WaitEnds`, and the progress of `ImplementsOutbox`.
* The four counterexamples.
* That the conditions of the properties (`Orderly`, `raced` and the like) are needed.

No module uses recursive operators.

## 5. Plan

Modelling:

1. `RegionHoldDown` (`LocationManager.m`): exits, entries and the three seconds between them.
2. The switch between HTTP and MQTT, as a composition of `HttpQueue` and `MqttConnection`.
3. A sign-in started from a tab while the prompt is shown, in `TokenRefresh`.

Theorems: that the abstract specifications promise what their comments say (an `Outbox` loses no
unanswered message; a message `AtLeastOnce` takes for delivered was received, until a restart), which the
refinements then carry over; a bound on the messages that wait in `Inbox`, to replace `[]Fits`; shorter proofs
of what several modules prove about sequences alike.

## 6. Not modelled

* App life cycle: the background task, its three timers and `checkState`. What they decide
  is a matter of seconds (10 s in the background against a state that is sampled), and a model
  without clocks would allow every order. Their effect, a disconnect at any time, is in
  `MqttConnection` and `MqttFlows`.
* Regions and the realtime coordinator: see the plan. The latter only asks views to reload.
* Views, sensors, settings, dashcam, TV app, widget, intents: no protocol of their own.
* Message encoding: conversions between packets and bytes; packets are records here.
* The vendored pods other than the MQTT client, and the In-memory persistence the app does
  not use.
* Inside modelled components, what their comments and the `note`s in `PROJECT.json` name: QoS 0 and
  2, the receive maximum, the wrap-around of message ids, Keychain lookup order, HTTP
  replies that carry messages.

The code modelled is Objective-C and Swift (`.m`, `.swift`); the headers of the repository hold
declarations, and most of them belong to vendored libraries. The map therefore names lines of
implementation files.
