# Verification of xssh-rust-lib

TLA+ models of `xssh-rust-lib` (a Rust library over `russh`: SSH sessions,
forwarding relays, host keys, authentication, terminals and SFTP), the TLC
configurations that check them on small instances, and TLAPS proofs of their
safety for every value of the constants. Paths below are relative to the root
of the repository (`src/` in `PROJECT.json` is that root).

## 1. The system

| Part | Where | State it keeps | Operations | Interacts with |
|---|---|---|---|---|
| Cancellation token | `src/core/operation.rs` | an `AtomicBool` and a tokio `Notify` shared by clones | `new`, `cancel`, `is_cancelled`, `cancelled` | every await of the library |
| Operation context | `src/core/operation.rs` | a deadline and a token, by value | `with_timeout_from_now`, `with_deadline`, `run`, `run_with_timeout`, `run_with` | wraps every request to the server |
| Session | `src/core/session.rs` | russh handle, context of connect, configuration, two queues | `connect*`, `connect_via_jump*`, `open_*`, forwards, `disconnect` | all other parts |
| Channel, channel stream | `src/core/channel.rs` | russh channel, context, operation timeout | requests, `exec`, `write`, `eof`, `close`, `next_event`, `read`, `flush`, each with and without a context | operation context |
| Forwarding relay | `src/core/relay.rs` | listener, options, four connection and two byte counters; a semaphore per `run` call | `bind_*`, `run`, `run_with_context`, `stats` | one spawned task per connection opens a channel of the session |
| Host keys | `src/core/host_key.rs` | entries of `known_hosts` behind an `RwLock` | `check`, `verify`, `observe`, `insert`, `insert_key`, `accept_key`, `snapshot`, `to_openssh`, `read_file` | `check_server_key` callback of every connection |
| Authentication | `src/core/auth.rs`, `src/core/session.rs` | plan, observation, last error | `authenticate` and one function per method | server, SSH agent, the caller's prompt handler |
| SOCKS5 proxy | `src/core/socks5.rs` | listener, options; a semaphore per `run` call | `run`, `run_with_context`: greeting, login, request, replies, relay | one spawned task per client opens a channel of the session |
| Remote forwarding | `src/core/session.rs`, `src/core/channel.rs` | two queues of 64 pending channels | `request_remote_*`, `cancel_remote_*`, `next_forwarded_*` | the session loop pushes, callers pop, the server listens |
| Terminal | `src/terminal/` | a channel | `open`, `write`, `resize`, `next_event`, ... | channel |
| SFTP client | `src/sftp/` | an SFTP session, context, timeout | `connect`, file operations | channel |
| Configuration, errors | `src/core/config.rs`, `src/core/error.rs` | plain values | validation, builders | all |

What is hard in it:

* **Threads.** Tokens, relay counters, semaphores and the host key store are
  shared by tasks on a multi-threaded runtime. `cancel()` is two steps,
  `cancelled()` is a loop of three, a finished connection passes four shared
  objects one after the other.
* **Cancellation by `select!`.** It is unbiased: a ready accept may win over a
  token that is already cancelled. A future is dropped at whatever await it is in.
* **Deadlines that travel.** A context is copied into sessions, channels and
  streams; `with_timeout_from_now` never extends one.
* **Servers and peers that never answer**, in the middle of a set-up of several
  requests, of a shutdown, of an open.
* **Stores that outlive a process.** `known_hosts` is snapshot, edited, rendered
  and read back; revocations and markers have to survive that.
* **One loop for everything.** russh reads and writes a connection in one task. A
  handler that waits for room in a queue, or a channel nobody reads, stops that
  task, and with it every other channel and the answers to every request.
* **Answers nobody waits for.** A call that its context stops has sent its
  request; the server carries it out. Channel requests never wait: their answer
  comes as an event, in the order of the requests.
* **Dialogues.** A SOCKS5 client must get one reply of the right code on every
  path, in time, and a channel only after it was admitted.
* **Plans.** Authentication alternates refusals of the server, local errors and
  closed connections, and what it reports is what a user interface acts on.

What makes each part correct is listed with its module in section 3; the places
where it could go wrong are the `hazards` of `PROJECT.json`.

## 2. Modules

| Module | Models | Proofs |
|---|---|---|
| `AbstractCancellation` | what a token promises: a one-way flag, and a waiter that finishes once it is set | |
| `CancellationToken` | `cancel()` and `cancelled()`, one step per access; implements the above | `SessionOperationsProofs` |
| `Relay` | run loops, dispatch, connection tasks, semaphores, counters | `RelayProofs` |
| `RelaySnapshot` | `stats()`, one load at a time, beside `Relay` | |
| `SessionOperations` | contexts and deadlines through connect, opens and operations | `SessionOperationsProofs` |
| `HostKeys` | the store, concurrent `check_server_key`, edits, saves, restarts | `HostKeysProofs` |
| `HostPatterns` | `host_token()`, `host_patterns_match()`, `glob_match()` | `HostPatternsProofs` |
| `Authentication` | `authenticate()`, all methods, the observation | `AuthenticationProofs` |
| `AbstractSocks5` | what a SOCKS5 client is told and who gets a channel | |
| `Socks5` | the proxy's loops, slots, dialogue and relay; implements the above | `Socks5Proofs` |
| `ForwardedChannels` | the queues of forwarded channels, their callers, the session loop | `RemoteForwardsProofs` |
| `RemoteForwards` | requests and cancellations of forwards against the server's listeners | `RemoteForwardsProofs` |
| `ChannelEvents` | `next_event()`, requests with replies, back-pressure between channels | `ChannelEventsProofs` |
| `MC*` | constants for TLC | |

A token is a flag in `Relay`, `Socks5` and `SessionOperations`. That is what
`CancellationToken` is shown to implement, waits included, so these modules
compose with it by refinement instead of repeating its steps. Its proofs stand in
`SessionOperationsProofs`, those of `ForwardedChannels` in `RemoteForwardsProofs`.
These two extend both modules they are about, which is why the names of the token's
specification begin with `Token` and those of forwarded channels with `Forwarded`.

Each module starts with its state, has a section of *mutated forms* (the slips
that the properties are known to catch: `mutants` in `PROJECT.json`), then one
action per operation, then the properties, among them the inductive invariant
(`...Inv`). Small modules keep a mutated form next to the operation it is a
slip of.

### How the models correspond to the code

**CancellationToken.** `Swap` and `NotifyWaiters` are the two halves of
`cancel()`, `flag` is the field `cancelled`. `FastCheck`, `CreateNotified`,
`Recheck`, `PollNotified` are the lines of `cancelled()`. tokio's `Notify` is external: a `Notified` carries the
number of `notify_waiters()` calls at its creation and is ready once that number
has grown. `Drop` is a `select!` that loses interest.

**Relay.** `rpc[r]` is where a `run_with_context` call is in its loop;
`permits[r]` is the semaphore that call made. A connection goes
`backlog -> taken -> counted -> refused -> closed`, or
`counted -> spawned -> (Working) -> uncounted -> [failing] -> recorded -> done`,
and each arrow is one access to shared state: `record_accepted`, the admission,
`start_connection`, the drop of the active guard, `record_completed` (two
counters, two steps), the drop of the permit. Opening and relaying are the two
`context.run()` of `RelayConnection::run`, each with its look at the token
before it starts. `connection_timeout` may fire at any moment of an open: how
long it is makes no difference to any property.

**SessionOperations.** Time is a counter. `base` is the context a session keeps;
`ctx[c]` is the context a channel keeps; `op[c]` is the context of the
operation in progress. All operations are one `OperationContext::run` around a
request, so one action stands for all default methods (`Start`), one for all
`_with_context` methods (`StartWithContext`) and one for SFTP calls (`SftpRun`).
`asked`, `own` and `promised` are history: the deadline the caller gave `connect`,
the one it gave the channel, and the moment the operation in progress may
expire, computed from the caller's arguments and never from the contexts the
session and the channel keep.

**HostKeys.** A store is a set of entries (order and line numbers reach no
decision; `check` scans all of them). A pattern is a name, and the constant
`Covers` gives the hosts it matches, so wildcards, negation and hashing are in
the constant. A key stands for its fingerprint. `Verify` is one step because
both verifiers decide under one lock; `Observe` is another because the report of
a refusal takes the lock again. `copy` is the verifier the application holds and
edits; `Use` gives it to the connections to come, as it is or inside
`TofuHostKeyVerifier::new`, fingerprint-only entries included. Files are written by the application; what it
writes is `to_openssh()`, which has no line for an entry without a public key.

**Authentication.** `pc` walks through `authenticate()`. A method makes `left`
signature requests (one per RSA hash that `rsa_hash_candidates` returns, times
the identities of an agent), `Refuse`, `Succeed`, `RequestFails` and
`InfoRequest` are the server's answers, `Respond` is the prompt handler with its
wrong number of answers, `Close` is a connection that goes away and `Drop` is the
authentication timeout. `heard` and `bare` are history: what the refusal of a
method said, as russh hands it over, and whether the method was an agent that
held no identity. A connection lost under a request may come from russh as a
refusal that names no methods; the library cannot tell it from one of the
server's, and in the model it is one, followed by `Close`.

**HostPatterns.** `Init` picks a question: a list of patterns, a host and a port.
`Skip`, `MatchHash`, `BeginGlob`, `EndGlob` and `EndList` are the turns of
`host_patterns_match`; `Cell` is one turn of the inner loop of `glob_match` on its
table. `Filled` writes to the row that is being scanned as well as to the next
one, as the code does for a star, so a wrong order of the scan would show.
`Matches` is the reference: a way to cut the candidate into one piece per
character of the pattern. A hashed pattern is the text it was made from.

**Socks5.** `cpc[c]` is where the task of client `c` is in `handle_connection`:
`greeting -> select -> [login -> judge ->] request -> opening -> opened -> grant
-> granted -> relaying -> [shutting ->] finishing -> done`, or `request -> reply`.
Each is an await under a context; `Enter` is the look at the token before the
next one begins. `says[c]` is what the client will send, `told[c]` what it was
sent, `tunnel[c]` its SSH channel. `RequestError` keeps the order in which
`read_connect_request` rejects: an unknown command is refused only after the
address was read. The errors of `authenticate` end the task without a reply, all
later ones send `code[c]` first. `why` is history, what cut a dialogue short.

**ForwardedChannels.** `hand` is the channel a handler of the session loop is
sending; while it is there the loop reads and writes nothing (`Free`).
`lock[k]` is tokio's fair mutex around the receiver, in the order of its waiters.
`Locked`, `Receive`, `ReceiveEnd` and `GiveUp` are the two awaits inside one
`context.run()`. A channel whose port is no `u16` leaves the queue like any other;
its caller gets an error. `OwnerRequest` stands for all four requests of forwards, which
borrow the session mutably; `Disconnect` only queues a message for the loop,
which ends when it has written it or goes on until the server closes.

**RemoteForwards.** One `call` at a time; `sent` and `answers` are the two
directions of the connection. `Stopped` returns to the caller and leaves both as
they are. `EffectivePort` and `Accepted` are what the client makes of the answer:
no port means the one asked for, zero and anything above `u16` is a protocol
error. `listeners` belong to the server; `closed` is history.

**ChannelEvents.** `Deliver` is the loop: it puts a message into the inbox of its
channel, and waits when that is full. `NextEvent` and `NextEventWithContext` begin
a wait, `Take`, `End` and `Stopped` are its results; `Return` turns everything but
an event into `None` for the first form, as `ok().flatten()` does.
`ChannelEvent` maps what it does not know to `Failure`.

## 3. Runs

| Run | Instance | Shows |
|---|---|---|
| `token` | 3 tasks, 2 cancelling threads | `NoLostWakeup`, and `ImplementsAbstract` with its liveness |
| `relay` | 1 run, limit 1, 3 connections, 1 denied | `PermitsConserved`, `StatsBalanced`, `ActiveWithinLimit`, `OneLateAccept`; liveness: `CancelDrains`, `OpeningEnds` |
| `relay_snapshot` | 1 connection, one `stats()` call | finding 1 |
| `operations` | 1 channel, 2 tokens, clock to 4, operation timeout 2 | `DeadlineNotExtended`, `TimeoutNotEarly`; liveness: `OperationsEnd`, `ConnectBounded` |
| `direct_channels` | the same | finding 2 |
| `host_keys` | 2 connections, 2 hosts, 2 keys, wildcard pattern, several files, edits of one host and key | `RevocationDurable`, `FirstKeyPinned`, `TrustJustified`, `ObservationAgrees` |
| `host_patterns` | all globs of 3 characters on all hosts of 3, lists of 3 patterns, recorded hosts | `GlobCorrect`, `ListCorrect`, `RecordedExact` |
| `authentication` | every plan of up to 3 methods out of 5, agents with 0 to 2 identities | `PlanTried`, `ErrorOfLastAttempt`, `ObservationFollowsServer`, `StopsWhenClosed` |
| `socks5` | 2 clients with 9 scripts, limit 1, login required | `ImplementsDialogue`, `FailureAnswered`, `SlotsConserved`; liveness: `HandshakeEnds`, `ProxyDrains` |
| `forwarded_channels` | 2 callers, queues of 1, 3 channels of two kinds, 1 request | `NoneLost`, `EndIsEnd`; liveness: `CallerReturns`, `CallerServed` |
| `remote_forwards` | 5 calls, 1 address, 2 paths, ports 0 to 2 | `OrphansExplained`, `CancelsEffective`, `HandlesReal` |
| `channel_events` | 2 channels, inboxes of 1, 2 messages each, 1 request each | `EventsComplete`, `EndIsLast`; liveness: `NextEventReturns` |

The inductive invariants (`...Inv`) are proved (section 4) and the runs check the
properties they imply.

Run one with `tlc -config X.cfg Module`.

What the properties say is in the comment above each of them. Three that need a
word more:

* `FailureAnswered` is not "every client gets a reply": a client that is gone, a
  handshake deadline and a cancelled proxy end a dialogue without one, and the
  code cannot do otherwise. What it excludes is an error path that returns
  without `write_reply`.
* `OrphansExplained` does not say that no listener is left on the server: a
  request that was stopped, or whose port the client rejects, does leave one
  (`src/core/channel.rs:361`). It says that only those two results leave one, so
  a caller can tell.
* `CallerServed` has the exception `Stuck`: a handler waits for room in the queue
  of the other kind, and nobody takes from it. Then the loop reads and writes
  nothing more, so later channels of any kind stay on the wire and the message of
  a `disconnect()` stays in its queue (`src/core/session.rs:338`). That is the
  back-pressure the repository documents (`README.md:317-319`) and no property
  forbids it. What the property excludes is a caller that goes hungry in any
  other way: behind a full queue of its own kind, behind callers that gave up, or
  behind a server that never stops opening channels.

### Bounds, and why they are enough

* `token`: three tasks can be at three places of `cancelled()` while one thread
  is between its swap and its notification and another finds the flag set. The
  proofs cover any number.
* `relay`: three connections against a limit of one give one that is refused, one
  that is denied and one at work, and a permit can be released between any two
  steps of an admission. There is no symmetry because liveness is checked. The
  proofs cover any number of runs and connections and any limit.
* `operations`: channels do not share anything but the session, so one is
  enough; two tokens tell the session's from the operation's; an operation
  timeout of 2, a caller's deadline of 2 and a clock to 4 let a deadline be
  earlier than, equal to and later than a timeout. `MaxTime` stops the clock and
  `Never` is beyond it.
* `host_keys`: two connections to one host with different keys are the race of
  first uses; a second host is what lets one connection record a first use
  between the refusal of the other and its report. The files hold a revoked line,
  a `@cert-authority` line, a plain line and a wildcard in combination. `Edits`
  are the pins the application sets, one host and key here; the proofs cover any.
* `authentication`: three methods have one before and one after an error.
  `MaxRounds` bounds the prompts of one method. Agents with no identity are
  the exception that two of the properties name: see section 5. The proofs
  cover plans and agents of any size and any number of prompts.
* `host_patterns`: three characters hold a star before, between and after others,
  two stars, and a star that has to take nothing, some or all. Lists of three
  hold a negation before and after a match and one that is skipped. The proofs
  cover any length of any of them.
* `socks5`: clients share only the slots, so two against a limit of one are the
  race of an admission with a release. Greetings, logins and requests vary one at
  a time from a client that does everything right (`MCSocks5`), because the first
  that is wrong ends the dialogue; one request is wrong in three ways, for the
  order in which they are found, and one in all four. The proofs cover any clients, scripts, number of
  runs and limit, with a login or without.
* `forwarded_channels`: a queue of one is full after one channel, so that a handler
  blocks with one in the queue, one in its hand and one of the other kind on the
  wire. Two callers are one that holds the lock and one that waits for it. The
  proofs cover any callers, size of the queues, number of channels and requests.
* `remote_forwards`: five calls are a request that is stopped, a second one for
  the same port, a cancellation, a repeated one and a new request, with answers
  of any of them still on their way. Reported ports go two beyond
  `MaxPort`, so that one of them would be valid after a truncation. The proofs
  cover any number of calls and any addresses, paths and ports.
* `channel_events`: two channels and inboxes of one let an unread channel hold up
  the other. Messages are answers, closes and one kind that `channel_event` does
  not know; all kinds that it knows are treated like answers. The proofs cover any
  channels, size of the inboxes, number of messages and requests.

Deadlock is not checked: runs return, sessions fail and caller's plans end, and
then nothing is left to do.

### Fairness, and why the code justifies it

* `CancellationToken`: a task that can go on does (tokio schedules woken tasks), a
  thread inside `cancel()` returns. Nobody has to call `cancel()`.
* `Relay`: weak fairness of what loops and tasks do without waiting for a peer,
  including timers: `connection_timeout` is always set, `validate` refuses zero.
  Clients, servers, listeners and callers of `cancel()` owe nothing; a copy may
  go on for ever and a shutdown may hang.
* `SessionOperations`: the clock ticks, a timer that is due and a token that is
  set wake their task. The server owes nothing.
* `Socks5`: as in `Relay`; the deadline of a handshake passes (`handshake_timeout`
  is never zero), clients and server owe nothing.
* `ForwardedChannels`: the loop goes on while it is not in a handler, a handler
  that finds room sends, tasks that can go on do, a request times out. Writing
  has strong fairness, because tokio's `select!` picks at random among branches
  that are ready and a server that keeps opening channels would otherwise starve
  it. Nobody has to call `next_forwarded_*`.
* `ChannelEvents`: deliveries, woken readers and the operation timeout of
  `next_event()`. A context given by a caller need not end.
* All other modules: safety only.

## 4. Proofs

Eight modules, checked by `tlapm`. All constants are arbitrary within the named
assumptions of the modules:

* `RelayAssumption`: finitely many connections, a positive limit (`validate`).
* `OperationsAssumption`: positive timeouts (`SshConfig::validate`), deadlines
  are natural numbers.
* `HostKeysAssumption`: a plain host token matches that host and no other; files
  hold whole public keys (`parse` refuses a line without one); edits are of hosts
  and keys.
* `PatternsAssumption`: the wildcards, brackets and colon are characters; a pattern
  that is not hashed is text. `RecordedAssumption`: hosts that are recorded are not
  empty and have no wildcard or bracket of their own, and ports are not wildcards.
* `AuthenticationAssumption`: plans are sequences of the methods `AuthMethod` has.
* `Socks5Assumption`: finitely many clients, a positive limit (`validate`), and a
  request's address is one of the kinds `read_connect_request` tells apart.
* `RemoteAssumption`: a positive range of ports; paths the server cannot listen on
  are paths.
* `EventsAssumption`: inboxes hold at least one message. `KindsAssumption`, that
  the kinds a model lists are no answers, closes or refusals of an open, serves TLC
  only.
* `ForwardedAssumption`: queues hold at least one channel
  (`FORWARDED_TCPIP_QUEUE_CAPACITY`).

| Theorem | Statement |
|---|---|
| `TokenInvariant`, `WakeupNeverLost`, `NotificationUnique` | `[]TokenInv`, and what it implies |
| `TokenRefines` | initial states and steps of the token are those of `AbstractCancellation`: the safety half of the refinement |
| `RelayInvariant`, `PermitsAreConserved`, `StatsAreBalanced`, `AtMostOneLateAccept` | for any number of runs |
| `OneRunWithinLimit` | with one run, `active <= max_connections`; finding 3 is why the assumption is there |
| `OperationsInvariant`, `DeadlineNeverExtended`, `TimeoutNeverEarly` | the last is an action property |
| `HostKeysInvariant`, `RevocationHolds`, `FirstKeyWins`, `TrustHasSource`, `ReportAgrees` | `[]HostKeysInv`, and what it implies |
| `PatternsInvariant`, `GlobIsCorrect`, `ListIsCorrect` | table and search are right at every turn, so their answers are |
| `RecordedIsExact` | what is recorded for a host and port covers nothing else |
| `AuthInvariant`, `ObservationIsServers`, `WholePlanTried`, `LastErrorReturned`, `CloseStopsPlan` | `[]AuthInv`, and each property the run checks |
| `Socks5Invariant`, `SlotsAreConserved`, `ChannelsAreAuthenticated`, `FailuresAreAnswered` | `[]Socks5Inv`, and what it implies |
| `DialogueImplemented` | the proxy implements `AbstractSocks5`, the whole of it: the abstraction has no fairness |
| `RemoteInvariant`, `HandlesAreReal`, `OrphansAreExplained` | `[]RemoteInv`, and what it implies |
| `CancellationsEffective` | an action property: `Ok` from a cancellation means closed |
| `ForwardedInvariant`, `ForwardsEnd`, `ForwardsNoneLost` | `[]ForwardedInv`: the locks are fair and nobody is told the end of a session that lives; every channel is on its way, queued or delivered, in order |
| `EventsInvariant`, `NothingMissed`, `EndTold` | `[]EventsInv`, and what it implies |
| `EndIsFinal` | an action property: a channel whose end was told reports nothing more |

The arguments:

* **Token.** A lost wake-up needs a task that looked at the flag before the swap
  and created its `Notified` after the notification. `TokenInv` says that a task
  past its second look on a cancelled token has a stamp older than a notification
  that has come or is still owed.
* **Relay.** Every step moves at most one connection. `CountOne` says what that
  does to the cardinality of a set, `InMoves`, `HeldMoves` and `FailedMoves`
  apply it to the sets that the counters and the semaphore stand for, and
  `MoveInv` reduces each action to "the counters follow". The limit does not
  follow from `PermitsConserved` alone: one also needs that a connection at work
  is owned by a run that has started. A second late accept is impossible because
  after the first the loop is past `accept` and the look at the token stops it.
* **Operations.** A default operation takes `min(ctx.deadline, now + timeout)`;
  the promise is `min(own, now + timeout)`. They agree because `ctx.deadline =
  own` on every channel that is not direct, which is the part of `OperationsInv`
  that has to be carried through all opens. That needs `base.deadline = asked`
  (a ready session keeps the caller's context, not the one of a connect phase),
  and, for the second request of a terminal or an SFTP client, that the set-up
  runs to the deadline of its open. `TimeoutIsTimer` shows that only a
  due timer ends an operation with a timeout.
* **Host keys.** Marked entries of every copy of the store are exactly those of
  the first file (`MarksKept`), unmarked ones have a source (`Sourced`). A host
  recorded on first use has no other entry but CA lines, and what was admitted
  stays on record, so a second first use of a host is impossible. A refusal of a
  first-use verifier stands while others are verified, because the host that was
  refused has an entry already and a first use adds one for another host only
  (`RefusalStands`): that is why the second look agrees with the first.

* **Host patterns.** `Recurrence` says what one more character of a pattern adds to
  a match, in terms of cuts: a cut is shortened (`Shorten`) or lengthened
  (`Lengthen`) by its last piece. `Scanned` says of the table that the row in
  progress holds what is meant and what stars have spread, and that the row below
  is right as far as the scan has come; a turn of the loop (`Turn`) keeps that
  because cells are visited from left to right. So `glob_match` is correct for any
  length without an induction over text: the loop is the induction. Two places
  need that a set of naturals has a least member (`Least`, from the library's
  `WFMin`): no piece ends after the last (`Monotone`), and a pattern without
  wildcards is the candidate itself (`Literal`). `TokenInjective` then makes tokens
  of different hosts or ports different patterns. It needs hosts without brackets:
  a host named `[a]:2022` on port 22 has the token of `a` on port 2022.
* **Authentication.** `authenticate` decides from its local variables; what it says
  is about the server and the connection. `AuthInv` ties the two together at every
  place of `pc`: a method in progress has a request left and a place in the plan
  (`Progress`), a method that is over without an error has the server's last refusal
  as its outcome unless it was an agent that held nothing (`Answered`), the loop
  still knows the error of the last attempt (`ErrorKept`), and after a close only the
  method in progress can still be refused (`Closing`). `ObservationFollowsServer`
  speaks of the last attempt that was refused; `LastRefusal` carries along that there
  is one.
* **SOCKS5.** The invariant is one of each client and one of each run. Tasks share
  the semaphore only, so a step is checked for the client that moves (`EnterInv`,
  `FinishInv` and one lemma per read and reply), and slots are counted: permits and
  the cardinality of the clients with a task of that run move together. The
  refinement follows: each message to a client is the action of `AbstractSocks5` of
  that name, each other step leaves what the abstraction sees alone. `FailureAnswered`
  rests on a client whose channel is relayed having been told so, and on the error
  code being set before `reply` on all paths that lead there.
* **Remote forwards.** Requests, answers and results travel in one order, so the
  ids in `sent` and `answers` are increasing and at most the last belongs to the call
  in progress (`Ordered`, `Numbered`). An answer agrees with the server's listeners
  (`Agrees`), and those of stopped calls are read and thrown away because their ids
  are smaller. A cancellation that is answered with success closed its listener,
  and no request that could open it again is still on its way. What the run's
  first form of the invariant did not say and the proof needs: a listener that was
  closed never returns under its id, a call whose request is not served yet has
  neither listener nor result but "pending" or "stopped", and a path has no port.
* **Forwarded channels.** `lock[k]` holds each waiting caller once and nobody else
  (`Waits`). It grows at its end (`WaitsMore`) and loses a caller at any place,
  since a context may end while its caller is still in line (`WaitsLess`); the
  holder is at its head and stays there when another leaves. A loop that is gone
  holds no channel, so a channel is only ever sent while nobody has been told the
  end. `NoneLost` is carried along beside that: what was delivered and what is
  queued are the first channels of their kind (`Firsts`), the loop's hand and the
  wire are the rest (`Rest`), and a channel in the hand is before all on the wire,
  so it has the next number of its queue.
* **Channel events.** The wire is shared, so the invariant speaks of each channel's
  part of it: `Carries` says that it is the messages after those delivered, by
  number and in order, whatever stands between them. The first that is taken is
  therefore the next one (`CarriesTaken`), and those of others are left alone
  (`CarriesOtherTaken`). A close is the last message of its channel, so once it is
  delivered nothing of the channel is left on the wire (`CarriesNone`), and no
  delivery comes after an end. A call of `next_event()` that gives up takes
  nothing: reported events and the inbox remain the leading messages (`Leads`).

Only model-checked:

* Liveness, which is out of this prover's reach: `CancelDrains`, `OpeningEnds`,
  `OperationsEnd`, `ConnectBounded`, the liveness of `ImplementsAbstract`,
  `HandshakeEnds`, `ProxyDrains`, `CallerReturns`, `CallerServed`,
  `NextEventReturns`.

Every safety property that a passing run checks is stated by a theorem. The sequences of
`ForwardedChannels` and `ChannelEvents` are compared by position for that purpose: what
`SelectSeq` returns for any sequence is an induction over data, which this prover
cannot do.

## 5. Findings

Two runs show a disagreement between the code and its documentation or tests:

1. **A snapshot can count a connection twice** (`relay_snapshot`).
   `stats()` loads `active` before `completed` (`src/core/relay.rs:211`), the
   task lowers one before it raises the other. The multi-threaded test at
   `src/core/session.rs:1303` asserts of a snapshot with one completed
   connection that none is active.
2. **Operations on direct channels inherit the deadline of the open**
   (`direct_channels`). `open_direct_tcpip` hands the context it made for the
   open to the channel (`src/core/channel.rs:286`), so default operations expire
   `operation_timeout` after the open, whenever they begin. `README.md:262-263`
   says that the stream follows the same operation timeout policy.

Others are built into a property as its exception, or into the assumption of a
theorem, and have no run of their own:

3. **The limit is per `run` call.** `RelayRuntime::run` makes its semaphore inside
   the call (`src/core/relay.rs:406`), and so does the SOCKS5 proxy
   (`src/core/socks5.rs:188`): two calls on one relay have twice
   `max_connections` active. `src/core/relay.rs:119`: "Limits applied to each
   [`SshForwardingRelay`]." That is why `OneRunWithinLimit` assumes one run; with
   two runs in the configuration of `relay`, `ActiveWithinLimit` fails.
4. **An agent without identities looks like a refusal.** `authenticate_agent`
   returns the default outcome (`src/core/session.rs:797`); the attempt has no
   error, overwrites what the server said before and does not notice a closed
   connection. `README.md:227-229` says that the error enters the observation.
   `ObservationFollowsServer` and `StopsWhenClosed` say what holds instead; an
   agent out of reach does end in an error, and a slip there would break the first.
5. **A window adjustment is reported as a failed request.** `channel_event` maps
   every message it does not know to `Failure` (`src/core/channel.rs:845`), which
   is also the refusal of a request. russh passes window adjustments on, so a
   caller that waits for the answer to its request may read a refusal the
   server never sent. `EventsComplete` compares events with messages after this
   translation.

## 6. Not modelled

* `bind_tcp`, `bind_unix` and the listener set-up of the SOCKS5 proxy: single
  calls into the operating system. What follows from a failing listener is
  modelled (`AcceptFails`).
* Decoding: base64 and HMAC of hashed hosts, lines of `known_hosts`, private keys
  and certificates, SOCKS5 addresses. The models start at what was decoded or
  that it could not be.
* Building an `AuthPlan`, redaction of secrets in `Debug`, validation of terminal
  options: values without state. What validation guarantees is assumed by name.
* Configuration and error values: built and validated, no state afterwards.
* The byte counters of `CountingStream`: what a read added to its buffer, summed
  under tokio's `copy_bidirectional`.
* The byte stream a channel can be turned into: russh's; its contexts are in
  `SessionOperations`.
* Entries inserted by fingerprint only are not rendered and are gone after a
  restart (`src/core/host_key.rs:86`). `HostKeys` has this; no property forbids
  it, since it is documented.
* russh, tokio, SFTP protocol, operating system: external; they answer, fail or
  hang as they like.

## 7. Plan

*Done*: all modules of section 2 with their runs; proofs of the safety of all of them
but `RelaySnapshot`, which is there for finding 1, and of both refinements. What a next step would add is behaviour that is not modelled
yet (section 6), the decoding of `known_hosts` lines first.
