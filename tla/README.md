# A formal model of dklab_realplexor

Dklab Realplexor is a Comet server.  Browsers hold *WAIT* connections and list
the channel IDs they want to hear of, each with a cursor; back ends open *IN*
connections and publish data to IDs.  The server is single-threaded: one libev
loop runs one handler at a time.  What makes it hard is not parallelism but the
interleaving of handlers: several indexes, queues and timers are changed at
different places, by connections that come, are answered, linger and close in
any order; and the order of steps of the programs around the server, its
watchdog, its clients and the APIs, each of which may be cut off at any moment.

The models follow the production server in C++ (`src/cpp`).  `src/README.txt`
calls the Perl version a prototype "with exactly same functions"; two of its
storages are written differently and are compared with the C++ ones.

## 1. Inventory

| Part | State | Operations | Correct when |
|---|---|---|---|
| `Storage::DataToSend` | ID -> list of [cursor, data, limiters], bigger cursor first | merge a chunk, rotate to `MAX_DATA_FOR_ID`, clear | always sorted, equal cursors newest first, rotation drops the oldest |
| `Storage::ConnectedFhs` | ID -> FH -> cursor | add, delete, count | holds exactly the registered open connections |
| `Storage::PairsByFhs` | raw FH address -> pairs | set, remove, get | agrees with ConnectedFhs; no entry outlives its FH |
| `Storage::OnlineTimers` | ID -> timer, stopped or counting | assign stopped, start, fire | counts exactly when the last client has gone |
| `Storage::CleanupTimers` | ID -> timer | restart, fire | every queue in memory has one |
| `Storage::Events` | chain of online/offline events, position | notify, walk for WATCH | alternates per ID; a watcher in range misses nothing |
| `Connection::Wait` | pairs of the connection | read, timeout, close | answered once, with all it is due |
| `Connection::In` | received bytes, pairs, limiters, credentials | read, command, publish, timeout, close | publishes what was sent, where it was sent to, for whom it may |
| `Realplexor::Common` | none | `send_pendings`, `_shutdown_fh`, parsing | nothing stays pending between handlers |
| Event loop (`Server`, `Connection`, `FH`, `Timer`, `Socket`) | one closure per connection with its I/O watcher and timer; events collected and not yet handled; descriptors | accept, read, time out, write, destroy | every connection ends; no handler is called for a deleted closure; what fits the socket buffer is sent whole |
| `Tools::time_hi_res` | wrapping counter | make a cursor | cursors are distinct and follow the clock |
| `Realplexor::Config` | options, parsed members, users | load, reload | the members in use are those of the config in use, also after a failed reload |
| Watchdog (`main`, `Tools`) | child PID, signal handlers, PID file | fork, wait with memory limit, forward signals, exit | one server child at most, restarted when it dies |
| JavaScript client | per ID: cursor, callbacks; last request, timers | subscribe, execute, reconnect | no message skipped; none twice in one loop |
| PHP and Python APIs | none | send, cmdOnline, cmdWatch | what is reported as sent was published |
| Perl prototype | sorted arrays, three event chains | as the C++ storages | answers alike |

How they interact: handlers of `Wait` and `In` call the storages directly (they
are globals); timers call back into `Events` and `DataToSend`; `send_pendings`
reads three storages and writes to connections it then removes from two of
them; after that the `Wait` object lives on until the loop reads the EOF its
shutdown caused, and only then runs `onclose`.  Cursors come from
`time_hi_res`, from publishers or from clients.  The client, the APIs and
watchers talk to the server over HTTP and keep cursors and event positions of
their own, across restarts of the server.  The watchdog and the server share
nothing but a PID, signals and an exit; what a SIGHUP means to a server depends
on when it loaded its files and whether its event loop catches signals yet.

Hard behaviours, each listed as a hazard in `PROJECT.json`: the time between a
flush and its EOF; reconnection while the offline timer runs; FH addresses that
are reused; repeated IDs in one request; one block published to several IDs at
different cursors; visibility limiters; explicit old cursors that sort into the
middle of a queue; rotation before sending; counter wrap; chunk boundaries in
reads; exceptions that end in a destructor which publishes; two requests of one
client; answers lost on their way; signals at any step of the watchdog; reloads
that fail half-way; events of a timer and of a socket collected in one round of
the loop; the limit of descriptors; writes that take only a part; restarts.

## 2. Modules

| Module | What it is |
|---|---|
| `Storage` | operators for what the storages promise: order and rotation of a queue, visibility, the event window, the answer to WATCH |
| `Realplexor` | the server: all storages, WAIT connections, publications, timers |
| `Comet`, `Presence` | abstract specifications of `Realplexor`: the service a client sees, and what a watcher sees |
| `DataToSend`, `Queues`, `PerlDataToSend` | the `std::list` code of the queue, the set semantics it implements, and the prototype's arrays beside it |
| `Events`, `PerlEvents` | the `std::list` code of the event chain and its walk, and the prototype's chains beside it |
| `TimeHiRes` | the cursor clock |
| `InConnection` | the handlers of one IN connection, which is read in chunks |
| `InLine` | `InConnection` in the event loop: its closure, watcher and timer, the backlog and the descriptors |
| `JsClient` | the JavaScript client and delivery end to end |
| `Watch` | a watcher composed with `Presence` and restarts |
| `Watchdog` | the two processes of the daemon |
| `ConfigOptions`, `ConfigReload` | the configuration files, and a server that loads and reloads them |
| `Daemon` | `Watchdog` composed with `ConfigReload` |
| `ApiSend` | one call of the PHP or Python API |
| `MCRealplexor`, `MCInConnection` | requests, users and sets for model checking |
| `*_proofs` | theorems about `Realplexor` and that it implements `Presence` and `Comet`; about `InLine`, `JsClient`, `Watch`, `TimeHiRes`, `ApiSend`; in `Storage_proofs` about the lists of both servers, `DataToSend`, `Events`, `PerlDataToSend` and `PerlEvents`; in `Daemon_proofs` about `Watchdog`, `ConfigReload` and `Daemon` |

The operators called "Mutant of" in comments are faulty variants of the
definition that follows.  No specification uses them; substituting one shows
that a property can fail.

**Realplexor.**  One action per handler: `Connect` (accept), `Register`
(`Wait::onread` with a complete identifier line), `SendScript` (the SCRIPT
marker), `Close` (`Wait::onclose`, for EOF, timeout, error, overflow and
exceptions alike), `CursorThrows` (an exception of `extract_pairs`, which leaves
pairs that were never registered to `onclose`), `Publish`
(`In::_try_process_pairs`), `OnlineTimerFires`, `CleanupTimerFires`.
`send_pendings` is an operator shared by `Register` and `Publish`, as in the
code: rotate the queues of the request's IDs, collect for every listener of
these IDs what it has not seen and may see, write, then forget and shut down
every connection written to.

* `data_to_send[id]` is a set of items.  The position in the list is a function
  of the item (`StandsBefore`), and `DataToSend` shows that the list code puts
  it there.  The data block is the number of its publication (`rdata`), as the
  code identifies blocks by address.
* `connected_fhs[id][f]` is a cursor or `None`; `pairs_by_fhs[f]` is `<<>>` when
  there is no entry.
* `f` is the address of an FH object.  It is free again after `Close`, so a new
  connection may get the address of an old one.
* `conn[f] = "shut"` is the time after `shutdown(2)` until the loop destroys the
  connection.  `wait_pairs` is the member of the `Wait` object and outlives the
  entries in the storages.
* `sent[f]` holds the response blocks.  A block's `cursor` is the sort key of
  `_do_send`, which depends on the order in which the IDs are visited: the
  request's order for `Publish`, any order for `Register` (an unordered set).
* `chain` is the set of events kept, see `Events`.

Abstractions: cursors are integers and requests are given by the constants
`WaitRequests` and `InRequests`, so an omitted cursor is whatever
`time_hi_res` returned; durations are left out, a timer that counts may fire at
any time; a write succeeds; header text, statistics and logging are left out.
A publication names the IDs its login owns (`owned`); the others are skipped.

**DataToSend** keeps the map with its entries, `std::list::merge` with the
comparator of the code, and rotation by `pop_back`.  **Events** keeps the list
and the walk with its `seen` set; `Restart` is a new server process, whose
storages are constructed afresh.  **PerlDataToSend** and **PerlEvents** extend
them with the arrays and chains of the prototype and give both the same data.
**TimeHiRes** keeps the cached clock and the static counter; 1000 and 10000 are
the constants `Cycle` and `Scale`.

**InConnection.**  The client's bytes are a sequence of tokens, and a read takes
any number of them, so that a chunk may end between any two.  `Refuse`,
`Command`, `Keep` and `FullRead` are the ways through one `onread`: an
identifier line or a command with wrong credentials, a command answered before
the end, a chunk kept or one that overflows `IN_MAXLEN`, and a chunk that fills
the read buffer exactly.  `CastFails` is one more: the list has a cursor such as
`1.5`, which `RE_CURSOR_ID` lets pass and `lexical_cast` does not take, and
`onread` dies with the pairs before it stored and the credentials unchecked.
`NoMoreData` is EOF or a reset, `Drop` is `ontimeout` or `onerror`.  All that
end a connection run `Finish`, the `onclose` of the destructor, with what the
handler left behind.  `extract_pairs`, `http_body` and `Commands` say what the
regular expressions and searches find, in tokens. The actions take the size of
the chunk as a parameter; `InLine` calls them.

**InLine.**  `Server.h` around that connection.  `place` goes from the client's
`Connect` to the backlog ("queued"), to a closure ("accepted") and to its end
("over").  A read takes all the client has `written` since the last one, as
`read_available_data` does; the client's own end is `end`, and `stopped` is the
`shutdown(0)` after a command was answered.  `pending` is what libev has
collected: the events of the I/O watcher and of the timer are added when they
occur (`Readable`, `Expire`) and handled later in either order, and a handler
that deletes the closure clears both (`Released`), because the destructors of
the watchers stop them.  `Rearm` is the end of `handle_read`.  `others` counts
the other open connections: `handle_connect` needs a descriptor (`Room`), and
without one `accept` throws where nobody catches, so that the process ends
(`AcceptFails`) and no `onclose` is run.

**JsClient.**  `Execute`, `LoopTimer` and `Receive` are `execute()`, the timer of
`_onresponse` and a readystate of 4; `_loopFunc` is an operator, as all three
end in it.  `Receive` includes the callbacks, one of which may call `execute()`
after any part of the answer (`Progress`).  `last` is `_lastXmlhttp`; a request
that was superseded stays under way and its answer comes back in any order.
The server side is that of `Comet` with one message per cursor.  `Break` is a
lost answer, `WAIT_TIMEOUT` included.

**Watch** is the loop of `t/demo/cron_online_updater.php`: `cmdOnline` and
`cmdWatch` are the server's handling, `Fetched` and `Watched` the client's
reading, and between the two anything may change, fail or restart.  `Fail` is an
error the API throws.  `Lose` is none: an answer lost before its first byte, as
when the server closes on its timeout, is an empty one to the API.  A lost list
is then taken for "nobody is online"; `missing` records who was on it, as
`skipped` does for events the watcher was never offered.

**Watchdog.**  `pc` is the place in the loop of `main`, one action per call that
another process or a signal can come between.  The parent's `pid` is kept as
the code keeps it: 0, a child, or -1 after a failed `fork()`.  A child is
"starting" until its event loop catches signals.  SIGCHLD is ignored, so
`waitpid` sees a dead child as none (`Ended`).  `GracefulKill` includes the
second's sleep; `Exit` is the atexit handler.  A SIGHUP that was passed on waits
in `hangup` until the loop of the child gets round to it (`HandleHangup`); a
child that is still starting dies of it.  `FailToStart` is a `mainloop` that
throws before it serves.

**ConfigReload.**  `Edit` changes one of the three files; `Start`, `Reload` and
`ReloadFails` are a new child and the two outcomes of SIGHUP; `Stop` is any other
end of the child.  `config` and `members` are separate because `_parse` copies
one to the other and can throw.  The custom file overrides a default file that
never changes.  At first the watchdog has loaded the config and no child has.

**Daemon** composes the two: `C == INSTANCE ConfigReload`, `running` being true
while there is a child that has loaded its files.  A child first loads them
(`Load`, or `CannotLoad`, which ends it) and then catches signals; `HandleReload`
is `HandleHangup` of the one module and a reload of the other.  All other steps
of the processes keep the files and forget what a dead child had loaded (`Keep`).
`asked` is a history variable: a SIGHUP was passed on, and no file has been
edited since.

**ApiSend.**  The steps of `internalSend` (PHP) and `_send` (Python), which
differ in what a partial write does (`writes_all`), against a server that
receives, refuses, publishes and answers, times out, or is killed.  Both write
and read in portions; the first unit of a request or an answer is its headers.
`Close` is `onclose`, reached at EOF (`Finish`), beyond `IN_MAXLEN` (`Overflow`)
and after a read that fills its buffer exactly (`FullRead`): it publishes what
has been received.  `GiveUp` is the API's own timeout, at any moment of a call,
whatever the server is doing: an exception, with part of the request written,
or for PHP's `stream_get_contents` the end of the answer.  `Send` is one round
of the loop of `Socket::send` on a non-blocking socket: of what is `left` it
writes what fits beside what is in the `buffer`, and ends the loop with the rest
unsent when nothing fits.  A reset (`IsReset`) may lose what is still in the
buffer.

## 3. Runs

| Run | Module, config | What it shows | Bounds |
|---|---|---|---|
| `delivery` | `MCRealplexor`, `Delivery.cfg` | the two indexes agree, no listener is left with data pending, every queue has a timer, and the server implements `Comet` | 2 IDs, 2 connections, 3 publications of 5 kinds, queue length 2 |
| `presence` | `MCRealplexor`, `Presence.cfg` | timers and events tell who is present (`Presence` is implemented), departures are reported, queues emptied | 2 IDs, 3 connections, positions to 14, 2 publications |
| `data_to_send` | `PerlDataToSend` | the list is ordered and implements the set; the arrays keep as many of each cursor | 2 IDs, 3 cursors, 3 blocks of 2 pairs, length 2 |
| `events` | `PerlEvents` | the list is the window; its walk and the prototype's chains answer watchers | 2 IDs, chain length 1, 8 events |
| `time_hi_res` | `TimeHiRes` | what the clock guarantees | cycle 3, 10 calls, 4 ticks |
| `in_connection` | `MCInConnection`, `InConnection.cfg` | only authorised data is published, except after a cursor that cannot be parsed, dropped requests are not, chunks do not matter, no deleted closure is called, every connection ends | 12 requests of up to 8 tokens, 8 users lists, `IN_MAXLEN` 6, 2 descriptors |
| `in_chunks` | `MCInConnection`, `InChunks.cfg` | *violation*: a chunk that ends inside the list of IDs | 1 request, 8 users lists, 2 descriptors |
| `js_client` | `JsClient` | no message is skipped, none comes twice in one loop, all are delivered | 2 IDs, 2 publications, 2 disturbances |
| `watch` | `Watch` | the picture of who is online is right as of its position, but for events never offered and lists that were lost | 2 IDs, 4 events, 2 failures, 1 restart |
| `daemon` | `Daemon` | one server at most, with one whole config, that hears of every SIGHUP, is started anew for the options that need it and is replaced when it ends | 3 forks, 1 failure, 2 signals, 1 crash, 2 hangups, 2 edits, 2 options |
| `config_restart` | `ConfigReload`, `ConfigRestart.cfg` | *violation*: a changed option of the IN line neither reloads nor restarts | 2 options, 1 edit, 1 hangup |
| `api_send` | `ApiSend` | returned cursors are published, requests written whole are published whole, answers that fit arrive; every call ends | 4 units of request and of answer, `IN_MAXLEN` and buffer of 2 or 4, 1 stall |

Why the bounds are enough.

* `delivery` has a listener of one ID, one of two IDs at different cursors and
  one that repeats an ID; publications with one ID, two IDs whose cursors are in
  the opposite order of the listener's, a limiter, a repeated ID and a foreign
  ID.  Three publications into queues of two make rotation drop items, both new
  and old ones, and equal cursors occur.  Two connections are enough for one to
  be flushed by what the other's presence does not change, and for an address
  to be reused.  The connections are interchangeable, hence the symmetry set.
* `presence` needs three connections: one that is flushed and lingers, one that
  leaves and one that comes.  `MaxPos` bounds only registrations that bring an
  ID online, never an OFFLINE, so no timer is blocked by a bound.
* `events` goes on after the list is full and after three chains of the
  prototype have been opened and one dropped.  With chain length 1 the chains
  hold two events each, the smallest length at which a chain has an inside.
* `time_hi_res` wraps a cycle of 3 several times, within a tick and across ticks.
* `in_connection` has every request form the parser tells apart: with and
  without credentials, IDs, commands with and without an argument, both kinds of
  blank line, a body that contains a command or a blank line, a cursor that cannot be parsed;
  some are longer than `IN_MAXLEN`.  With two descriptors the other connections can leave one,
  or none, so that `accept` fails with the connection in the backlog and also
  while it is open.
* `js_client`: a disturbance is a call of `execute()` or a broken request.  Two
  of them make two requests overlap and one of their answers be lost; each
  further request needs another disturbance.
* `watch`: four events overrun a chain of two; `MaxPos` ends the changes, so
  that `CatchesUp` asks what a quiet server asks.
* `daemon`: a failed fork, a crash and two signals can meet in one round of the
  loop, and three forks leave two rounds after it.  There is an option that
  restarts and one that does not, which is also numeric and so can be wrong; two
  edits break a file and repair it, or change an option between two signals.
* `api_send`: an answer of four fits a buffer of four and not one of two, which
  is filled, drained by the API and filled again; a request of four fits one
  `IN_MAXLEN` and not the other, and can be cut off anywhere.  One stall is
  enough, as the call does not go on after it.

Where a run turns off deadlock checking the system may really stop: a call or
connection that ended, a dead parent, a server whose files are broken, a client
that waits for messages, or a model whose clock and calls are used up.

### Fairness

* `presence`: the loop runs timers that are due (weak fairness on the two timer
  actions; a restarted timer stays enabled) and reads the EOF of a socket it has
  shut down (weak fairness on `Close` of a connection that is shut).  Nothing is
  asked of clients: an open connection may stay forever, since `WAIT_TIMEOUT` is
  re-armed by every byte.  `GoneIsReported` therefore allows "or a client holds
  the ID again"; `QueueIsEmptied` holds because publications end: a queue that
  is renewed forever is never cleaned, as intended.  Nor do clients send requests
  with a bad cursor for ever: each one starts the offline timer of the IDs before
  it anew (`CursorThrows`), which a model without durations cannot show.
* `js_client`: the browser runs its timers, requests reach the server and
  answers come back (`LoopTimer`, `Register`, `Receive`).  Nothing obliges an
  application to call `execute()`.
* `watch`: the watcher runs in an endless loop (`Watching`).
* `in_connection`: the loop handles collected events and accepts, and time
  passes (`Expire`).  Nothing is asked of the client, which may fall silent;
  `ConnectionEnds` is then the timer's doing.
* `daemon`: the parent process runs, and its child loads the files, comes to
  catch signals and handles them (`Server`).  `ServesAgain` ends with the bound
  on forks and asks nothing while the files are broken.
* `api_send`: both sides go on; the server handles what it has received.  That
  the API gives up is not among what is fair: calls end without it.

### Findings and divergences

`in_chunks`: for `identifier=LOGIN:PASSWORD@ids`, a chunk that ends within the
list of IDs makes the optional credentials of the expression fail to match, so
`LOGIN:PASSWORD` is taken for the list and `@` for the character that ends it.
The comment at `Config.h:214` means to exclude just that.  `ChunksDoNotMatter`
of `in_connection` states what does hold.

`config_restart`: the expression of low-level options (`Config.h:103`) has
`IN_ADDIN_TIMEOUT`, the name of no option, in the place of `IN_ADDR|IN_TIMEOUT`.
After a change of either a SIGHUP is taken for a reload that succeeded, though
`Config.h:99` promises the name of an option that could not be reloaded and
`dklab_realplexor.conf:30` that a change requires a restart: the process goes on
with the socket it has.  `NamedOptionsInForce` of `daemon` states what does hold.

Other places where the code does not do what a comment or document says, seen
while modelling.  The models do what the code does:

* `Events.h:49` "no more than EVENT_CHAIN_LEN": the list keeps one more
  (`KeepRecent`); `Events.pm:44` "no more than 2 chains": it keeps three.
* `Tools.h:35` "second > first": two cursors of one tick go backwards when the
  counter wraps.  `TicksOrderCursors` and `CursorsAreDistinct` are what is left.
* `Common.h:127` and `DataToSend.h`: sending does not remove data; it stays until
  rotation or cleanup, and cursors keep it from being sent twice.
* `Socket.h:111`: a read of exactly 32768 bytes is followed by another one, which
  fails on a socket with no more data; the connection is closed and the part
  received so far is published (`FullRead`).
* `misc.h:141`: the end of the headers is the first `\n\n`, which may lie in the
  body of a request whose headers end with `\r\n\r\n` (`http_body`).
* `Realplexor.php:166` "all events": WATCH returns the newest event of each ID.
* `dklab_realplexor.js:264`, `:344`: an `execute()` while a timer is pending
  starts a second loop of requests; hence `OnceInOneLoop` is about one loop.
* `dklab_realplexor.cpp:204-231`: a signal between `fork()` and the installation
  of the handlers kills the parent and not the child; after a failed fork the
  handlers call `kill(-1)` (`everybody`).
* `Common.h:85` gives `12345.23:abc` as a cursor with an ID, but `lexical_cast`
  (`Common.h:322`) throws on it.  The rest of the list is dropped, `_assert_auth` is
  not called, and the body is published to the IDs before it whatever the
  credentials (`CastFails`; hence the exception in `OnlyAuthorised`).
* `Config.h:110` "continue with old settings": the users are the new ones
  (`ReloadFails`); `Config.h:136`: a custom file that Perl rejects reads as an
  empty one.
* `FH.h:28` "unlimited amount of data": `Socket.h:129` gives up at the first
  EAGAIN, and the rest of a response larger than the socket buffer is not sent;
  hence "fits" in `WhatFitsArrives`.
* `Realplexor.php:233` "throw ... in case of error": `fwrite` (`:259`) may write
  less than all without an error, and an empty result (`:274`, `Accepted`) is a
  success, be it that the server closed without an answer, the connection was
  reset or the read timed out.  So data may be published though `send` returns no
  cursors, and `cmdOnline` may return nobody (`Lose`).
* `realplexor.py:21`: the timeout stays on the socket.  A `sendall` that times out
  has written a part, which the server publishes at the EOF that follows; a
  `recv` that times out throws though the request is published (`GiveUp`).
* `In.h:92`: of a request longer than `IN_MAXLEN` the server publishes what it has
  received, and answers 200 (`Overflow`).
* Rotation of equal cursors: the binary search of the prototype may put a new
  item behind older ones; `KeepsAsMany` is what both servers have in common.

## 4. Proofs

`Realplexor_proofs` proves for all constants (finite sets of IDs and
connections, any requests, any limits):

* `TypeCorrect`: `TypeOK` is invariant.  `sent` is not typed.
* `IndexesCorrect`, `NoLostWakeup`, `PresenceCorrect`, `OfflineWillCome`,
  `QueuesAreReaped`: the invariants of the runs `delivery` and `presence` but one,
  `EventsTellPresence`, which follows below.

The inductive invariant `IInv` is the conjunction of these.  `IndexesAgree`
carries the others: `NothingPending` needs it because a flush forgets a
connection at the IDs that `pairs_by_fhs` names, so a flushed connection listens
nowhere afterwards; `StoppedHasCloser` needs it because `Close` starts a timer
only if nobody is left in `connected_fhs`, and whoever is left must still have
the ID in the pairs its own close will walk.  The lemmas `SendPendingsAgrees`
and `SendPendingsFlushes` are stated about `send_pendings` with arbitrary
storages and used by both of its callers.  `LastPosition` (a list with an ID has
a last position with it) is proved from the well-foundedness of the naturals.

It goes on from there, for the same constants:

* `ServerIsPresence`: each step of the server is an arrival, a departure or a
  stutter of `Presence`.  What takes an argument is that a registration notifies
  its newcomers one by one in the order of the request: they are numbered without
  gaps from the position before.
* `EventsTell`: `EventsTellPresence`.  The invariant `Tells` adds that the kept
  events of an ID alternate, so that dropping the oldest leaves a chain that
  still ends in what is so.
* `ServerIsComet`: the server implements `Comet`.  The invariant says that the
  queues are trimmed already, that a listener is heard at the last cursor its
  request gives the ID, and that open connections have not been answered.
  `BlocksAreDue`, that the blocks collected from a request's IDs are all that is
  due to it, and `SendPendingsSettles` are used for both callers of
  `send_pendings`.

`Storage_proofs`, for lists, chains and positions of any size:

* of `DataToSend`: `ListIsOrdered` and `ListIsQueue`.  The invariant `IInv` is that
  every list is ordered and that its items are numbered before the next one to
  come.  Then merging a chunk of one item puts it before the first item of no
  bigger cursor, and since the item at position k has k-1 items before it,
  popping from the back is what `Queues` calls trimming.
* of `Events`: `ListIsRecent` and `PolledInTimeMissesNothing`.  The invariant
  `EventsInv` is that the history has one event at each position and that the
  list is the last of them, newest first.  A walk is described by `PickedAfter`:
  after k events it has picked, of each ID matched, the first among them.
* of `PerlEvents`: `PrototypeMissesNothing` and `PrototypeAnswersAsCpp`.  The
  invariant `ChainsInv` adds that the chains, one after the other, are the end of
  the same history, that all but the last are full, and that they go back to the
  start unless there are three.
* of `PerlDataToSend`: `PrototypeKeepsAsMany`.  The invariant `PerlInv` adds that
  the cursors of list and array are the same.  The binary search is shown to end
  at a place that fits (`PlaceFits`), which need not be the one where `merge`
  puts the item; between the two places are only items with the same cursor, so
  the cursors come out alike (`BothInsert`).

A fold and the binary search are recursive functions.  That such a function is
defined on what it is applied to, and that its values have a property, is shown
by counting up from 0 to the length (`CountUp`, from the least element of a set
of naturals), as the induction rules of the library cannot be used.

`InLine_proofs`, for any streams, users, descriptors and `IN_MAXLEN`:
`AuthorisedOnly`, `DroppedStaysDropped`, `NothingOfTheDeleted`.  The invariant
`LineInv` says that pairs are kept from one read to the next only for a login
that was allowed (`CastFails` ends the connection at once), that a
connection still open has published nothing, and that events and handlers belong
to a closure that is there.  `ChunksOfRequests` is `ChunksDoNotMatter` for requests
as clients send them (`IsRequest`): with one identifier line at most, ahead of all
commands, that alone names a login and IDs, and with a character after the list
of IDs.  All requests of the run are of that kind.  `extract_pairs` and
`Commands` look for the first of a kind in what was received so far, and with a
second marker or a command ahead of it that may be another one than the first of
the whole.  The invariant `ChunksInv` says that a connection which is open either
has answered a command and will publish nothing, or has all that was sent so
far in `rdata`, with the pairs known exactly if the list and the character after
it are there.

`JsClient_proofs`: `ClientSkipsNothing` and `OneLoopReadsOnce`, for any numbers
of IDs, publications, calls of `execute()` and broken requests.  The first invariant is
about every request under way, not only the last one: it asks for no more than from what is safe to
go on from, and its answer has all between its own cursor and any of its
messages, except what has left the queue.  So answers may be handled in any
order, or in part.  `OneLoop` covers IDs that have no cursor at first: with one
call of `execute()` there is one request or one timer.  `OnlyOnce` adds for that
case that no request asks for what was seen already.

`TimeHiRes_proofs`, from `Cycle < Scale`: `TicksOrderCursors` and
`CursorsAreDistinct`.  The times themselves do not say how far the counter has
come since a call, so the invariant `Issued` does: a call's counter and the
number of calls since then add up to the present counter, or to one wrap more,
for as long as the call is within `Cycle` calls.

`Daemon_proofs`, for any bounds, options and files:

* of `Watchdog`: `NeverTwoServers`, `ServerHasPidFile`.  The invariant is that
  whoever is alive is the child in the variable `pid`, and that nobody is when
  the parent is about to fork.  That covers a failed fork, after which `pid` is
  -1: the loop leaves its wait only when no child is left.
* of `ConfigReload`: `ConfigTypeCorrect` and `RollbackIsWhole`.  The second is
  inductive; the first needs that `_parse` lets only numbers through for numeric
  options.
* of `Daemon`: `DaemonIsWatchdog` and `DaemonIsServer`, that it implements both.
  `DaemonIsOne` and `DaemonParsesConfig` follow from these and the theorems above,
  so neither is proved twice.  `NoHangupIsLost` is proved of the composition
  itself.  `NamedOptionsAreInForce` puts it together with what holds of
  `ConfigReload`, that the options reload names are those the child was started
  with (`NamedAreAsStarted`).  `IN_ADDR` and `IN_TIMEOUT` are not among them.

`ApiSend_proofs`, for any lengths, limits and buffer: `ReturnedIsPublished`,
`WrittenIsPublished`, `WrittenIsRead`.  The invariant `Sides` says that what is
published is all that was received, and that this is all that was written unless
a read was full or `IN_MAXLEN` exceeded, as the end of a request is announced
behind it.  `Answering` says that an answer of 200 follows a publication and that
what was read, is in the buffer and is left make up the whole answer.

`Watch_proofs`: `WatcherSeesTruth`, for any IDs, length of the chain, restarts
and lost answers, until a restart that the watcher has not noticed.  The
invariant's part about the server is that the log has no two events at one
position and none beyond the present one, that the chain is its end, and that
the newest event of an ID says whether it is online.  Its part about the watcher
is that the picture is so at its position, that every answer under way holds the
newest event of each ID since the position it was asked for, or that what it
misses is in `skipped` or `missing`, and that an initial list that was answered
is so at `fetched`.

The theorems assume only the named assumptions of the modules on their
constants.  All invariants, step properties and refinements of the passing runs
are proved.  Only model-checked are the liveness properties (`GoneIsReported`,
`QueueIsEmptied`, `ConnectionEnds`, `Delivered`, `CatchesUp`, `ServesAgain` and
`CallEnds`), as the prover has no rules for fairness and `ENABLED`, and the two
violations, which are counterexamples.

## 5. Plan

The order was: the server and its abstract specifications, the list code under
it, the connection that feeds it, the programs around it, then proofs: of the
server's invariants, of its refinements, of the lists and chains of both servers,
of the lines of input, of the JavaScript client and of the watcher.  All of that
is done.  Left: the safety parts of the liveness properties, such as that a
connection of the IN line always has a timer that counts or an event to handle,
and the type of `sent`.

## 6. Not modelled

The texts of HTTP, identifier lines, JSON and statistics, and namespaces and
prefixes of IDs: data to the models.  Logging.  The contents of static scripts
and of files that can be read only in part (`misc.h:120`).  The rest of the
Perl prototype, whose structure is that of the C++ code.  Init scripts,
demonstrations and tests.  Durations: a timer may fire at any time, so nothing
is said about how long a client is counted as online.
