# TLA+ models of ATEMHelper

The repository holds three programs and the library code they share:

- **LogoControl**, a Windows service that keeps a WebSocket open to each Reflex
  logo inserter, takes commands over HTTP and tells a web page what is on air;
- **LogoControlPlugin**, a DLL loaded by a play-out application, which passes the
  play-out's commands on to LogoControl over HTTP;
- **ATEMHelper**, which watches an ATEM video switcher and puts the monitor
  output on the audio of the input in preview.

This directory models the parts where threads, callbacks, lost messages and
reconnections meet, checks them with TLC on small instances and proves the most
important invariants with TLAPS for every value of the constants.

    tlc -workers 2 -config LogoBoardSafe.cfg LogoBoardMC.tla
    tlapm LogoBoardProofs.tla

## 1. Inventory

Component | State it keeps | Operations | Talks to
--- | --- | --- | ---
`LogoClass` (LogoControl/LogoClass.cpp, .h) | address, card uuid, two paths (object id, vector of lights), command queue, "waiting for device info", stop flag, status fields with an update time | `commsFn` (connect, send, receive, reconnect), `handleDeviceInfo`, `SetLogo`, `SetLogos`, `Ip`, the readers, the destructor | WebSocket client; called by `ControllerClass` from the HTTP server's threads
WebSocket client (Common/WebsocketClient) | ready state, receive and transmit buffers, reassembled message | `poll`, `dispatch`, `sendData`, `close` | the card; owned and called by one `commsFn`
`ControllerClass` (LogoControl) | the boards of the configuration | `GetBoards`, the long poll, `SetLogoAPI` | boards; registered as handlers of the HTTP server
Web page (LogoControl/content) | `last_id`, what it shows | poll again and again, repeat after a failure | the long poll
`HTTPServer2` (Common/HTTP Server) | two maps of contexts in use, two pools of free ones, the endpoints under `m_configMutex`, stop flag, the request queue's handle | constructor, `Start`, the two completion callbacks, `Router`, file replies, `StopServer`, destructor | http.sys and the thread pool
`CLogger` (LibLogging) | queue, event, mode, exit flag, file switch, all but the queue under `mtx` | `LogEvent`, `SetAsyncLogging`, `SetFileLogging`, `async_transmit_func`, destructor | every thread of every program
`Event` (Common/Events.h) | a flag with a condition variable | `wait`, `set_all` | the logger
`LogoControlPlugin` | settings, command queue, an automatic event, stop flag, `inited` | the calls of `IPlayBoxOut`, the execution thread | play-out application, LogoControl over HTTP
`AtemClass`, `InputMonitor` (ATEMHelper) | switcher, monitors by input, two event queues, tallies | `atemCtrlFn`, the callbacks, destructor | the switcher library, which calls back on its own thread
Service shell (Common/ServiceBase.h), `main_function` | the status it stores and reports, the quit event, the controller | start, the control handler, `serviceMain`, `run`, `SvcRemove`, `SvcInstall` | service manager, the controller, logger
Clock, timed tasks, older HTTP servers, HTTP client, system helpers, vendored code | | | listed with the reason in `PROJECT.json`

How they interact: the web page and the plug-in send requests to `HTTPServer2`,
whose callbacks run `ControllerClass` handlers; those push commands into the
boards and read their fields; each board's own thread talks to its card. All
of them log. ATEMHelper shares only the logger.

What is hard:

- **LogoClass.** Commands come on many threads while the connection dies and
  returns, maybe to another card (the address can be changed): a command must
  reach the card it was meant for, with that card's object ids, never late, and
  the state shown must be the card's. `std::stoul` on the communications thread
  would end the process on an id that is no number. The join in the destructor
  must return whatever the socket is doing.
- **The long poll.** Fields change while they are read one by one, times are cut
  to milliseconds, the newest change of all boards stands for the list, replies
  get lost, the clock may be set back. No change may be passed over for good.
- **HTTPServer2.** Contexts are shared by the kernel, callbacks and two pools;
  every request must be answered once, every receive be posted again; stop and
  destruction race all of it, and a lock is held across calls.
- **The logger.** A queue and an event that are two things, a mode that is read
  without the lock, a join made under the lock.
- **The plug-in.** An event that resets itself, settings copied before the
  command is taken, host calls in any order.
- **The way of an order** from the play-out host through the plug-in's queue, an HTTP request
  with a time-out, a server with many threads, a board that may be away, and a card other
  clients set too: orders may come late, to one of two boards with the same id, or to a card that moved.
- **The service shell.** Two threads store one status without a lock; a stop may come before
  there is anything to stop; the failure action starts what is being removed.
- **ATEMHelper.** Callbacks on a foreign thread against a thread that may be
  anywhere in setting the connection up or giving it up.

`PROJECT.json` lists these hazards at their lines, each with the properties that
would catch it going wrong, or the reason why none does.

## 2. Plan

No. | Module | State
--- | --- | ---
1 | `LogoBoard`, `LogoBoardProofs` | done
2 | `BoardsPoll`, `BoardsPollProofs` | done
3 | `HttpIo`, `HttpIoProofs` | done
4 | `Logger`, `LoggerProofs` | done
5 | `PluginHost`, `PluginHostProofs` | done
6 | `AtemLink`, `AtemLinkProofs` | done
7 | `Channel`, `EasyWs`, `EasyWsProofs`: the WebSocket client, shown to implement a FIFO channel | done, both refinements proved
8 | `LogoService`: what a board promises the API; `LogoBoard` implements it | done, the refinement proved in `LogoBoardProofs`
9 | `CommandSender`: what the plug-in promises its host; `PluginHost` implements it | done, the refinement proved
10 | `PlayOut`, `LogoControlProofs`: plug-in, page, `SetLogoAPI`, boards and cards together, and the active logo `GetBoards` derives | done
11 | `Service`: the statuses the shell reports | done, proved in `LogoControlProofs`
12 | `HttpRoute`: matching of URLs with `{Id}`, header values, ranges of files, against reference definitions | to come, if it can take the place of a narrower question

How they fit together: `EasyWs` implements `Channel`, so `LogoBoard` may have queues of whole
messages; `LogoBoard` implements `LogoService`, and `PluginHost` implements `CommandSender`;
`PlayOut` is built of `CommandSender`, of `SetLogoAPI`, `GetBoards` and the server, and of boards. Its
boards are a coarser model of the same lines as `LogoBoard` (no addresses, no object ids, one step where
nobody else looks). They are translated from the source a second time and not derived from `LogoBoard`:
no refinement connects the two, and `LogoService` is the promise of `LogoBoard` alone.

## 3. The modules

Every module opens with its abstractions. Names are the code's wherever TLA+
allows; `map` in `PROJECT.json` gives the lines of every definition. Definitions
under a comment *Seeded fault* are mutated copies of the definition that follows
them; no specification uses them. They show that a property can fail.

### LogoBoard: one board, its thread, its socket, the cards

`pc` is the place in `commsFn`: `top` (outer `while`), `reconnect`, `connect`,
`handshake` (in `from_url`, to the card at `dialed`), `stuck` (in it for ever), `loop` (inner `while`), `drain` (the queue), `poll`, `dispatch`, `done`, and
`crashed` when `stoul` throws with no handler. The steps are cut where another
thread or the card can come between: clearing the queue and connecting are two
steps, each command popped is one, each message dispatched is one. `API` actions
(`SetLogo`, `SetLogos`, `SetIp`, `Destroy`) may happen at any time.

Messages on their way are the sequences `outbox` (what `txbuf` and the network
hold) and `inbox`; `rx` holds what `poll` has received and `dispatch` not yet
handed over. The cards are external: a card answers a request for its device
info completely, with elements or names missing, or with a foreign element
whose id is no number; it accepts, refuses or fails each element of a command;
it changes by itself and says so; it closes. A connection is lost in `poll`, at any
point of what was on its way. The handshake blocks, and stops only on a `recv` of 0: a peer that closes, or
a reset in the status line, ends it (`HandshakeFails`; in the status line the same character is
appended until there are 4096), but a silent peer keeps it, and a reset in the headers (-1, taken for a
character) makes it spin without end (`HandshakeHangs`). `bStop` starts with either value: the
constructor does not initialise it.

History variables: `epoch`, the parity of the connection attempt, which a
command keeps from when it is accepted (two values suffice because the queue is
empty after each attempt begins, which the proof establishes); `missed`, the
paths whose accepted value stood behind an element in error.

Properties: `NoStaleCommand`, `CommandsAddressed`, `NeverCrashes`, `Coherent`,
`IdentityStable`, `ImplementsService`, `StopEnds`, `EventuallyServes`. Each is stated in its
comment.

### LogoService: what a board promises

An order names paths and what their lights shall show; those accepted wait in `pending`; the
card carries out the first, or the part of it that it does not refuse; some in a row may
be lost; other clients set lights too; a card is attached and detached. `LogoBoard` maps to it
by `pending` = the orders on the wire (`outbox`, while there is a connection) followed by those in `tx_queue`,
`lights` = the card's, `at` = the card at the other end. What the service sets in this way it sets
in the order of acceptance, each order at most once, and never a light to a value nobody
ordered for it.

### BoardsPoll: boards, the long poll, the page

A request goes through `time` (the clock is read), `scan` (one step for the
update time of a board, one for each group of fields: the code takes the lock
again for each), `decide`, `replied`. The board's fields change in any of these
steps. A value is the number of its changes. A "millisecond" is `Ms` ticks, the
rounding down in the reply and up in the handler are kept. The ten seconds are
an event that may come at any time, so the model has every length of a round. With several
boards the newest update time of all stands for the list, so a change may also be hidden behind
a later one of a board that was read after it; the properties name that case and the clock set back.
`ReplyLost`, `Restart` (all state of the service is new, the page's is
kept) and `Reboot` (the clock starts again) are the faults.

### HttpIo: receives, callbacks, answers, start and end

A receive context is `none`, `pending` in the kernel, `done` (the completion is
queued), and then in the steps of its callback: `check`, `process`, `route`
(waits for the shared lock), `handle`, `send`, `repost`, `cleanup`. The two
maps and two pools are sets. A reply is `none`, `pending` or `done`. The owner's
thread goes through `Start` (one step per posted receive), `StopServer` in three
steps, and the destruction of what the constructor made. http.sys is external:
requests come from the moment the constructor has registered the URL; calls on
a queue that is shut down fail, and `MaxFaults` others.

For a file the code tells the thread pool of an I/O that never completes
(`StartThreadpoolIo` at 1674, the send at 1702 being synchronous). The pool's count of such I/Os is external and left
out: `WaitForThreadpoolIoCallbacks` waits for callbacks, of which there is none, and what `CloseThreadpoolIo` makes of the
count is the pool's memory only. `kept` has one element for each.

Contexts are never freed in the model, because `shared_ptr`s go back to a pool;
`Allocatable` gives one from the pool or, when that is empty, a new object.
Which new one does not matter, so it is a `CHOOSE`.

### Logger, PluginHost, AtemLink

`Logger`: `mtx` is kept across steps only by the join of `SetAsyncLogging(false)`
(`joining`), so `Free` is the guard of every step that takes it; `ReadMode` has
no guard, as the code reads the mode without the lock. `Wait` ends with
the event or after 250 ms, so it is always enabled. `unseen` (pushed since the thread's last look
at the queue) and `left` (left by an earlier thread) are history.

`PluginHost`: the host calls one at a time; the execution thread copies the
settings, pops, sends, asks for the boards, waits. The event is
automatic. `SaveSettings` may fail, and `LoadSettings` find nothing it can read (`Unread`). `Finish` sets the flag and `Finished` is the join. `inForce` is history: the settings
there were since a command was given (`Changes` and `Given` keep it).

`AtemLink`: the thread's steps while connecting are one each (`connect`,
`callback`, `iterator`, the inputs one by one, `mixer`, the audio inputs), and any of
the calls may fail as the code expects. The library calls back on its own
thread in two steps, the tally and the event. `watched = "left"` are monitors
over from a connection that was given up. `Start` may fail, without COM or drivers. At the end the thread removes its own
callback and calls `CoUninitialize()` (`Stop`), and only then are the monitors and the COM pointers of the
same scope destroyed (`Release`): what the library does then is not known, so any of the `RemoveCallback`s may
fail (`"orphan"`: the library calls a monitor that is gone, `NotifyDestroyed`), and the process may end
(`crashed`). History: `missed`, `unheeded`, `parted` (the monitors were destroyed when the last connection's disconnect was
handled).

### CommandSender and PlayOut: from the host to the card

`CommandSender` is the plug-in as its host may rely on it: commands given, waiting, one taken up
at a time, sent or dropped, none after the end. `PluginHost` maps to it by `given <- executed`,
`waiting <- cmdQueue`, `sending <- cmd`, `ended <- finished`.

`PlayOut` extends it with what becomes of a command: `http` is the plug-in's one request,
`atServer` the requests the server has and has not handled (any may be next, since its callbacks run
on many threads; one whose request was given up after 500 ms is still there). `doing` is the place of
whoever holds `veclock`, and `turn` the board its loop has come to. In `SetLogoAPI` that is `look` (`Finds`,
`PassesOn`, `NotFound`) and then `push` (`Pushes`): the id is compared under the board's own lock, which is
free again before the order is queued. In `GetBoards` it is `list`, and `second` between the reads
of path 1 and path 2. A board's thread does not take `veclock` and may do anything in between: lose
its card, clear its queue, connect to another card, become ready.

`link`, `at`, `id`, `shown`, `pending` and `inbox` are a board. `ClearQueue` and `Connects` are two steps, as in
`commsFn`. A device info stores the id even when its elements do not suffice (`HandlesInfo`); the paths'
vectors, which the list is made from, change when a message is handled (`Overrides`), and not
when the card takes the order. Until a complete info the ids of the paths may be another card's, and
`Mixes` lets any value told go to either path. A card may move to another board's address; it is
taken to answer one board at a time (`Connects`), as a card that has one address does. `Carries`, `LosesOrder`,
`CardLeaves` and `SomebodyElse` are what may become of an order and of a card. `ActiveLogo` is `GetBoards`'
derivation over the whole of its input, eight lights; `Ordered` is what `SetLogoAPI` and `commsFn` make of
a logo number.

The properties name their exceptions, and each of them occurs. A timed-out request (`late`) may
overtake. `RightCard` is about orders that are `firm`: the board was ready when `SetLogoAPI` compared its
id, and has kept its connection until the push. Of an order that is not, the code does not care: it
may be carried out by the next card at that address. `LastOrderListed` is about a board with nothing on its way
whose card's lights are known: an order that may be lost, was carried out in part, or is older
than one another board carried out leaves `expected` unknown, and so does another client. The list may also say -1
between the two halves of a change.

### Service: the shell, its manager and SvcRemove

`main` is the place in `serviceMain`, `run` and `main_function`; `handler` the place in the
control handler. `setServiceStatus` is two steps in either, the stores into `status_` and
the call that reports what is there then. The manager is external: it passes a stop on while
`accepts` is set, takes a process that ended without STOPPED for a crash and starts it again. `SvcRemove`
runs in a process of its own: one query, one control, then the poll. In console mode
there is no manager and Ctrl+C may come at once. `hindered` is history: why an end may go unseen.

### EasyWs and Channel: the WebSocket client and what it promises

`Channel` is one direction of a connection as its two ends see it: what comes out
is what was put in, whole, once and in order, and nothing is promised about
how much. `EasyWs` is the client: `Send` and `Close` are `commsFn`'s calls, then
`Poll`, then `dispatch`, one frame per step because the message handler may send
between two of them (`callback`). The socket's bytes may be cut anywhere; a frame is a
byte of header and up to one of payload, the least that can be cut. A byte knows its frame,
its place and whether it was masked, so the peer (external) notices a
frame that is torn, mixed with another or masked where it should not be. The
peer sends messages in fragments with control frames between them, a CLOSE, or, as a
fault, a frame with an opcode or a length that is none.

`ImplementsChannels` says that the client implements `Channel`, with
`sent` and `got` mapped to the peer's messages and those the handler was given, and
to the frames put into `txbuf` and those the peer has read. This is why `LogoBoard`
may use queues of whole messages for `rx`, `inbox` and `outbox`. Two reductions keep the
model small. The peer reads what it can in the step that brings the bytes, since it only
watches. And it sends only between dispatch and poll, while the connection lasts; what `Arrived`
leaves on its way is a part of the last frame, since a frame of which nothing has come might
as well be sent later.

## 4. Runs

Run | Instance | What it shows
--- | --- | ---
`board_safe` | two cards whose ids overlap (c2's lower id is c1's higher one), one light per path, 2 commands, 2 addresses set, 1 fault, 1 update on its way; 5.4 million states | a stale or misdirected command, a crash or a wrong picture cannot come from any order of reconnections, moves and answers; the board keeps `LogoService`'s promise
`board_live` | one card, 1 command, 2 faults, fair | the join returns and the board serves again after the last fault, unless a handshake hangs
`poll` | two boards, 2 changes, 4 ticks of which two make a millisecond, one lost reply or restart, one reboot, fair | entries are never newer than what they hold; only a change of the same millisecond, or one hidden by a later board, can be passed over; whatever was passed over reaches the page
`http_io` | two receives, two requests of three kinds, one failing call; 0.7 million states, fair | ownership of contexts, nothing used up (`NothingLeaks`), one answer each, quiet at the end; requests are answered and the destructor returns (`AllEnds`)
`http_start` (violated) | two receives, two requests, fair | `Start` can wait for ever
`log_calls` | two threads, two messages each, three switches, fair; 0.17 million states | no lost wake-up, order, everything comes back except in one deadlock
`log_files` (violated) | the same | that deadlock
`plugin_calls` | three commands, two calls, two usable settings and one unusable, fair | the plug-in is a `CommandSender`; no command goes out with replaced settings; nothing after `Done`; `Done` returns
`play_out` | two boards, two cards of which one is ordered for, two commands (one with an illegal logo), one button, one trouble; 2.0 million states | the plug-in's orders keep their order; orders reach their card or none, but for the window of `SetLogoAPI`; the list names the logo last ordered of a settled board, or -1 for a moment; the formula names exactly what an order sets
`service` | service and console, three starts, two faults, one removal, fair | no RUNNING after STOP_PENDING; STOPPED only without a controller; stops and removals end, but for the cases named
`atem_link` | three inputs, one without audio, two moves, one fault, fair; 1.0 million states | tallies and monitor output follow the preview; a reported loss is noticed; the thread ends, and leaves behind at most what it released without COM
`ws_channel` | two messages of the peer in one or two fragments, one control frame, CLOSE, a call of `send` or `sendPing`, one fault, fair; 0.22 million states | the client is a `Channel` in either direction; nothing follows its CLOSE; CLOSING ends; what is sent arrives while the connection lasts

Type invariants are in no run of their own: they are proved, except where a module has no
proofs and needs none to be read.

Why the bounds are enough. *LogoBoard*: two cards are the least for which an
id learned from one can be mistaken for one of the other; two addresses bring
the program to one card and on to the next; two commands fill the queue beside
one that is being sent; one light and off are all the values the properties
distinguish. *BoardsPoll*: two changes of two boards put one before, within or after a scan, and one behind
another board's; four ticks hold two milliseconds and one before the next; one fault and one
reboot are each repaired by the same answer. *PlayOut*: two commands are the
least to change places, the button the least that is not the plug-in's, and two boards the least for a card
to move between. `Buttons` holds the one logo the command does not ask for, since the same logo twice tells
nothing apart. One trouble is a lost connection or order, an incomplete info, a refused value, a request
given up or somebody else's change; the first is enough for a board to clear its queue and find another
card between `SetLogoAPI`'s look and its push.
*Service*: a start, one by the failure action and one by a user; a crash and a
failure. *HttpIo*: with two
receives one callback can be anywhere while another frees, reposts or stops;
every path of a callback needs one request, and two meet in the pools.
*Logger*: two threads are needed for a push that passes a join.
*AtemLink*: an input that goes out of preview, one that comes in, and one
without audio. *EasyWs*: a second message shows whether the first left something
behind; two fragments are the least to stand around a control frame; a
message, a PONG and a CLOSE of ours can be in `txbuf` together.

Deadlock checking is off where the system stops by itself (after a destructor
or with the bounds used up); `BoardsPoll` polls for ever and is checked for it.

## 5. Fairness

- `LogoBoard`: the thread is scheduled and a card that is connected answers, the handshake too, unless
  one of the bounded faults ends or hangs it: that `from_url` ends is not assumed, and a thread that is stuck in
  it stays there. `StopEnds` and `EventuallyServes` name it, and show that it is the only place.
  Nothing is assumed of faults, calls or updates; they are bounded, so `<>[]` is
  about the time after the last of them.
- `BoardsPoll`: handler and page go on; ten seconds pass while the handler loops.
- `HttpIo`: as long as a step of the owner, of a receive or callback, or of a send's completion
  can be taken, one is (the handlers of the program end: the longest waits ten seconds). All
  these steps are bounded in number, so one weak fairness condition brings each of them.
- `Logger`: a call that has begun goes on as far as the locks let it; the thread runs.
  Threads take `mtx` for a step at a time; only the join keeps it, and the number of switches is
  bounded, so weak fairness is enough.
- `PluginHost`: the execution thread runs, a request ends (it has a timeout), `Done` waits.
- `AtemLink`: the thread and the library run (what is called back of a destroyed monitor need not).
- `Service`: threads and processes are scheduled, the manager's failure action comes when due, and
  `SvcRemove` goes on. Nobody has to start, stop or remove anything.
- `EasyWs`: `commsFn` goes on polling and dispatching; a network that is up brings bytes
  and takes bytes again and again (strong fairness, because each `Poll` may also find nothing).
  Failures of the network and of `select` are bounded in number.

## 6. Proofs

TLAPS checks these for every number of cards, contexts, threads, inputs, values
and bounds; they assume only the named `ASSUME`s of the modules.

`LogoBoardProofs`. `IInv` adds to the types five parts. `Phases`: outside the inner
loop there is no socket and nothing on its way, and what `poll` received is there only in
`dispatch`. `FreshQueue`: every command in the queue has the present attempt's
parity. With the two, `NoStaleCommand` is inductive: when the parity changes the queue
is emptied and nothing is left that was sent. `OneInfo`: at most one device info
is anywhere, as a request or as an answer, because the program asks again only after an
answer. `InfosFromPeer`: it is that of the card at the other end. `Identified`: once nothing
is waited for, no device info is on its way, and uuid and ids are the peer's. This gives
`CommandsAddressed` and `NeverCrashes`, and it is why the identity is stable:
the last message that could change it has been handled. The lemma `SortFindsPaths` says that
the sort puts a card's two elements in order. `Coherent` needs `Reporting`, about the messages the
board has not handled yet: the last that tells a path's value tells the card's (`Told`), a path none
tells of shows the card's value or counts as missed (`Shown`), and a value for the lower
id is behind no error (`FirstCounts`). A card only appends what it has (`CardReports`), and
the board only takes the front (`BoardTakes`). Theorems: `TypeCorrect`, `NoStaleCommandHolds`,
`CommandsAddressedHolds`, `NeverCrashesHolds`, `IdentityStays`, `CoherentHolds`.

The refinement of `LogoService` is in the same module: every step of `LogoBoard` is one of `LogoService`
or none. It rests on `IInv` and on `Unmixed`: while a device info is waited for no command is on the
wire, so that the orders on the wire and those in the queue are one sequence that grows at its end and
shrinks at its front or in one piece. The first lemmas are about such sequences in two parts. Theorem:
`ServiceImplemented`.

`BoardsPollProofs`. The theorems are about the time before the clock is set back, so `IInv` is `TypeOK` and,
while `reboots = 0`, `Right`. `Past`: nothing is dated later than the clock, the list's time taken to
the start of its millisecond (`Rounding`). `Scanning` is about a list half read. A timed field that has changed
since it was read was changed after the board's update time was, so the board is now dated later than
the list says, and than every board read before it (`Marked`); a board not in the list
changed after `t0`, when the scan began (`Scanned`). `Covered` says the same of a reply and
of what the page shows (`Behind`): what either lacks comes at or after its time, or
is hidden by a board read later with a newer one. `SnapshotCovers` is the first half of this, `OnlyTheSameMs` the
second. Theorems: `TypeCorrect`, `SnapshotCoversHolds`, `OnlyTheSameMsHolds`.

`LoggerProofs`. `WakeupPending` is inductive with the types, `Counted` (a message being logged has a
number) and `Held` (the thread dumps what it popped). `DrainedAtExit` needs `Unseen`: from the
thread's look at an empty queue on, all that is in it was pushed since. `Ordered` makes
`InOrder` inductive: no message in hand is later than its thread's last (`Numbers`), the queue and what
was popped before it are in order (`QueueInOrder`), what is out is earlier than what is queued unless there
is no thread or an earlier one left that behind (`OutBefore`), and a thread that dumps
itself has nothing else on its way (`DumpsAlone`). Theorems: `TypeCorrect`, `NoLostWakeup`,
`DrainedAtExitHolds`, `InOrderHolds`.

`PluginHostProofs`. `Woken` extends `WakeupPending` to the steps between the thread's look at the
queue and its wait; `Ended` says that a finished plug-in has a thread that is gone,
and that a thread that is gone was told to go. `Numbered` (the thread has a command exactly while it
sends it) and these give the refinement: a step of the host or of the thread is one of
`CommandSender` or none. `Current` makes `SettingsInForce` inductive: the settings of the moment serve every
command given so far, and the thread's copy the one it pops with it. Theorems: `NoLostWakeup`,
`QuietWhenFinishedHolds`, `TypeCorrect`, `SettingsInForceHolds`, `SenderImplemented`.

`LogoControlProofs`, on `PlayOut`. `PInv` counts the commands: `Taken` of them are no longer waiting, the one
taken up is the latest of these (`InOrder`), a request the server has is that of the command taken up or
timed out (`Accounted`), and what was accepted is older (`NewestKnown`): `InCommandOrder` follows at once.
`BInv` follows the cards: at one board at most (`Apart`), known when the board is ready (`Fine`);
the firm orders of a ready board name the card it is connected to (`Cleared`); while the order in hand
is firm its board is ready and has the id that was compared (`Found`). This gives `RightCard`. `ActiveLogoOf` is about `GetBoards`' formula for all
vectors. `LastOrderListed` says something of quiet boards only. `Expecting` is what holds of
the card while orders wait (`Owed`): the last order for it in the queue of the board that has it is for the logo
expected, and a card with none waiting shows that logo. `AllTell` is what holds of the board while messages wait (`Current`):
the last in `inbox` that tells a path tells the card's lights, and a path none tells of shows them already. With both
sequences empty the board shows what was ordered; and of the path read first the proof needs only whether it is
still what the board shows, since halves of different vectors give -1 (`HalfOfOrder`). Theorems: `InCommandOrderHolds`,
`ActiveLogoTrueHolds`, `RightCardHolds`, `LastOrderListedHolds`.

On `Service`, in the same module. `NoControlYet`: until RUNNING is reported no control is accepted, so the
handler cannot have stored anything. `StoppedLast`: STOPPED is stored at the end of `serviceMain` only.
`Onwards`: once STOP_PENDING is reported, RUNNING is no longer in `status_`. Theorems: `TypeCorrect`,
`StoppedIsGoneHolds`, `NoRunningAfterStopHolds`.

`AtemLinkProofs`. `Watching` and `Linked` say, for each place of the thread, whose monitors ask to be called back
and what is connected, `Leftover` which monitors may be destroyed behind `CoUninitialize()`; `QuietWhenDone` is their end. `Sounding`: which audio inputs were found. `Current`: the
tally of a watched input is the switcher's, or a callback that has not read it is still to come
(`Due`), or the change was one nobody was told of (`missed`). `Unmoved` follows the output through the steps of
connecting while the preview rests. `Following` is about the time after: either tallies and output
are still right, or the event of the preview is the last that will be handled, or all were
handled and the output is right. With everything quiet that is `MonitorsRight`. Theorems: `TypeCorrect`, `MonitorsRightHolds`,
`QuietWhenDoneHolds`.

`HttpIoProofs`. `IInv` is `TypeOK`, `Owned`, `QuietWhenGone`, and two parts they rest on: `Holding` (a
callback between its allocation of a response and the send has one) and `Stopped` (once
the server is told to stop the queue is not open and no receive is pending, so
none can be posted any more). The lemma `Fresh` says that what a pool gives is nobody's. `AnsweredOnce` follows from
`Answering`: a request is with http.sys, or at hand in one callback, once, until it is answered.
`NothingLeaks` is `GivenBack`, with `OnlyHolding` (no other callback has a response), and the
count of `SlotsCounted`, which holds from the constructor on. Theorems: `Invariant`,
`TypeCorrect`, `OwnedHolds`, `QuietWhenGoneHolds`, `AnsweredOnceHolds`, `NothingLeaksHolds`.

`EasyWsProofs`. `CloseIsLast` is inductive with `OpenUntilClose` (no CLOSE was put in while
the socket is `OPEN`) and `Typed`, which follows the data of a PING from the peer through
`toUs` and `rxbuf` into the PONG that is put into `txbuf`.
The channels need to know that bytes make up frames: `Cut(s, fs, masks)` says that the sequence of bytes `s` is cut
into the frames `fs`. Lemmas add a frame's bytes at the end, look at the first frame and take
it off; `ReadsFrames` says that the peer, given the first bytes of such a sequence, reads the first frames
and keeps the beginning of the next. Towards the peer the invariant is `Down`: the frames accepted are those the
peer got and those that `toPeer` and `txbuf` are cut into. Towards the program it is `Up`: `rxbuf` and `toUs` are cut
into frames of which those that carry messages stand `InTurn`, from the one due next (`Due`) to the one the peer
sends next (`End`), whatever stands between them, and one that ends a message ends one the peer has sent; and `Handed`: the handler was
given the peer's first messages, and `receivedData` is the beginning of the next. Theorems: `Invariant`, `CloseIsLastHolds`,
`ChannelsImplemented`.

Recursion and induction. `Only` (`AtemLink`) and `PeerReads` (`EasyWs`) are recursive functions: `OnlyUnfolds` and
`PeerReadsUnfolds` prove that the function each is chosen as exists. The provers cannot instantiate the library's
induction theorems, which take an operator, but `NatLessThanWellFounded` and `WFMin` are about a relation and sets: from
them `Least` says that a set of numbers has a least one, and induction is over a set (`Induction`, `ShortFirst`).

Only model-checked: the liveness properties, since fairness and `ENABLED` are beyond the prover
(`StopEnds`, `EventuallyServes`, `EventuallyShown`, `LinkEnds`, `CallsEnd`, `CallsTakeEffect`,
`AllEnds`, `StopsEnd`, `RemoveEnds`, `Progress`). Every invariant, action property and refinement of the
passing runs is proved.

## 7. What the models found

1. **The logger can deadlock with log files** (`log_files`). `SetAsyncLogging(false)` joins
   the thread with `mtx` held, and `LogToFile` on that thread takes `mtx`. The
   service shell switches both on at its start and asynchronous logging off to install or
   remove.
2. **`Start` can deadlock** (`http_start`). When a receive cannot be posted it stops the
   server with `m_configMutex` held exclusively and waits for callbacks, one
   of which may wait for that mutex in `Router`. A first request whose headers
   do not fit the buffer is enough to make it fail.

Smaller things the models contain and no run is made of: the comment at HTTPServer2.cpp:1003 says that the
wait after it blocks until all I/O completes, but the call waits for callbacks that run, and
responses may still be on their way when their memory goes; a stop that overlaps with the end of
`serviceMain` may report STOP_PENDING over STOPPED, since `status_` is not locked, and the manager
then waits for ever, although ServiceBase.h:1154 says that when `Run` returns the service has
stopped; `SvcRemove` polls without end when its one stop was refused or the service was started
again; a request the plug-in gave up after 500 ms may take effect behind the next command's, or after
`Done`; a board that is away accepts orders for its last card, and may meet another one at its
address, and so may an order that `SetLogoAPI` queues after the board it compared has changed its card
(`firm`); the list is read in pieces, path 1, path 2 and later the id once more, so that it may for a moment say -1, or name
a new card's id beside the old one's logo, until the change itself makes the page ask again; a reset in the headers of the
handshake, or a silent peer, keeps a board's thread for ever, and with it the join of its
destructor and the end of the service (`stuck`); `atemCtrlFn` calls `CoUninitialize()` before it releases the monitors
and the discovery object (`Release`); a command given right after the settings were changed may go out with the old ones
(`Given`); commands accepted while a
board is away are dropped with the answer Success; a device info whose ids cannot be sorted
silences the board until the connection is lost; an element in error hides the accepted ones
behind it (`missed`); each served file keeps its reply in the map for good (`kept`); a slot whose
receive cannot be posted is lost (`lostSlots`); what is in the logger's queue
when the thread ends stays there; a switcher lost between `ConnectTo` and `AddCallback` is never noticed. On `bStop` `commsFn` puts a
CLOSE into `txbuf` and leaves without another `poll`, so the card never gets it
(`Close` in `EasyWs`). `IPlayBoxOut::Init` is documented to return 0, 1 or -1 and returns a count
of activations.

## 8. Not modelled

- The scalar fields of a board (temperatures, titles, firmware) beyond the untimed field of
  `BoardsPoll`, and the ping: it is sent only after a message and nothing depends on its answer.
- Torn reads of `std::string`s that the code reads without a lock: the models take the
  value before or after. `concurrent_queue::clear` against itself.
- The digits of a WebSocket header's length and the texts of the handshake; URL matching and ranges
  (module 12 of the plan); JSON. Texts and layout are left out for good.
- `SvcInstall` (accounts, rights and URL registration): it runs once and alone. The program that
  builds one `AtemClass` per address, the clock beyond `get_time`, the timed tasks and older servers
  that no project file compiles.
- Vendored and generated code, which is most of the repository: the nlohmann, miniz, OpenSSL
  and Microhttpd sources and headers (several copies of some), `httplib.h`, `HTTPRequest.hpp` and the header
  generated from the switcher's IDL. They are modelled, as external definitions, by what the
  programs rely on. The programs' own code is about a twentieth of the lines.
