# ZygiskAIRuntime in TLA+

A verification project for `src/ZygiskAIRuntime`: a host side in Python
(`ai_analyzer/`, an MCP server for AI clients) that talks over one TCP or Unix
socket to a runtime injected by Zygisk into an Android process
(`native/`, `runtime/`, `zygisk/`). `third_party/` (Frida-Gum) is vendored and
out of scope.

The modules are checked with TLC on small instances; what matters most is
proved with TLAPS for every value of the constants.

| Module | What it is |
|---|---|
| `BridgeClient.tla` | link, threads, heartbeat, reconnect and session of the host's IPC client |
| `BridgeClientProofs.tla` | theorems about it |
| `MCBridgeClient.tla` | its TLC instances, and the one sentence of the client's errors that its threads do not keep |
| `PendingCalls.tla` | calls in flight: slots, answers, failures, timeouts, the server's session check |
| `CallPromise.tla` | what `call()` promises its callers: the abstract specification `PendingCalls` implements |
| `PendingCallsProofs.tla` | theorems about it |
| `FrameStream.tla` | frames over one direction of a connection, with the receivers of the host, the mock and the native server |
| `FrameStreamProofs.tla`, `MCFrameStream.tla` | theorems about it; its TLC instance |
| `Protocol.tla` | the messages of the IPC protocol and its errors: what each side builds, what the other looks at, what an error becomes for the caller |
| `ProtocolProofs.tla` | theorems about it, for every version, session, command and code |
| `Transport.tla` | endpoints: how they are written, parsed, connected to and listened at |
| `Host.tla` | the MCP host process: command line, adb forward, assembly of the tools, calls through the capability gate, exit |
| `HostProofs.tla`, `MCHost.tla` | theorems about it; its TLC instances |
| `MockServer.tla` | the in-process mock runtime: accept, handshake, commands, jobs, events, stop |
| `MockServerProofs.tla` | theorems about it |
| `Device.tla` | the device: `target.conf`, the companion, forked processes, the Runtime and its IPC server |
| `DeviceProofs.tla` | theorems about it |
| `Subprojects.tla` | Frida-Gum's source trees on disk and `prefetch_subprojects.py` |
| `Build.tla` | `build_all.py` with the programs it starts, over those trees |
| `BuildProofs.tla`, `MCBuild.tla` | theorems about it; its TLC instances |

`PROJECT.json` maps every definition to the lines it translates, and lists the
runs, the mutants each property is tested against, the findings, the hazards
and the theorems.

## 1. Inventory

| Part | State | Operations | Modelled |
|---|---|---|---|
| **Bridge client** `ai_analyzer/bridge/client.py` | `_sock`, `_link`, `_closing`, `_reconnecting`, `_missed`, `_ping_seq`/`_pong_seq`, `_pending`, two locks, a list of threads | `connect`, `close`, `call`, reader/heartbeat/reconnect loops, `_on_link_lost` | `BridgeClient`, `PendingCalls` |
| **Session manager** `bridge/session.py` | current session, generation, history | `open`, `close`, `degrade`, `require`, `touch`, `sweep` | all but `sweep`, `require_matching`; in `BridgeClient`, `PendingCalls` |
| **Transport** `bridge/transport.py` | the file of a Unix socket | parse an endpoint, connect, listen, clean up | `Transport`, in `Host` |
| **Protocol** `ai_analyzer/protocol/` | a decoder's buffer | frame encode/decode; message makers, `validate`, versions, commands, error codes | `FrameStream`; `Protocol`, in `MockServer` and `Host` |
| **Mock server** `ai_analyzer/mock/` | connections, per-connection session, hooks, jobs | accept, handshake, request handlers, cancel, stop | `MockServer`; session check in `PendingCalls`, reading in `FrameStream` |
| **Native server** `native/src/ipc/` | one listening socket, one client, one session id per process | start, accept loop, requests, stop | `Device`; no session check in `PendingCalls`, reading in `FrameStream`, messages in `Protocol` |
| **Runtime bridge** `host/runtime_bridge.py` | a client and a capability gate | `connect`, `call`, `capabilities` | `Host` |
| **MCP server, surfaces, tools** `host/`, `tools/` | mounted groups, registered tools | verification, mounting, registration | `Host` |
| **Command line and adb** `host/cli.py`, `host/adb.py` | arguments, the mapping of the port | `main`, `ensure_forward` | `Host` |
| **Zygisk** `zygisk/` | target cache of the companion | companion query, bootstrap | `Device` |
| **Runtime and managers** `runtime/` | initialised subsystems | start, stop | `Device` (start, stop); managers not |
| **Build scripts** `scripts/`, `build/scripts/` | source trees, builddirs, libraries, zips | fetch, build Gum, link, strip, pack | `Subprojects`, `Build` |
| **Installer, WebUI** `module/` | `target.conf` | write it | its effect in `Device` |

How they interact: the MCP server calls the runtime bridge, which runs
`BridgeClient.call()` in a worker thread; the client's reader thread resolves
the slot the caller waits on; the server answers requests of one connection in
order. A dead connection is noticed by the reader (end of file), by the
heartbeat (two timeouts) or by whoever sends; that thread fails every waiting
call and may start the reconnect thread, which opens a connection and a session
of its own.

Hard behaviour, and so what the models are about: readers and heartbeats of
earlier connections outlive a reconnect (nothing joins them) and share every
field with their successors; `_link`, `_closing`, `_reconnecting`, `_pending`
and the session manager are read and written almost everywhere without a lock;
the session manager tests `_current` and reads it again; two locks are taken in
both orders; a caller can give up, be failed and be
answered at the same time. `PROJECT.json` lists each hazard at its line.

What makes each part correct: the client never loses the ability to reconnect,
notices a vanished peer, ends its threads and forgets socket and session on
`close()`; a session is never restored; a call returns once, with an
answer of its own session, and leaves nothing behind; the codec gives back the
messages that were sent however they are cut; the mock keeps its handshake in
order and ends every connection it has; the host serves what was asked for,
whatever the device does; the Runtime goes into the processes `target.conf`
names, and its answers to the session that asked; a build ships the library it
means to, whatever earlier builds have left on disk.

## 2. BridgeClient

**State and actions.** `pc` says where each thread is: readers and heartbeats
(one of each per connection), reconnect threads, and the application, which
calls `connect()` and `close()`. One action is one access to shared state, or
several that nothing can separate. `ConnLock` ... `LinkUp` are `connect()` with
its handshake under `_state_lock`, HELLO split into the reading of `_sock`
(`HelloReads`) and the send, which needs `_send_lock` (`Hello`, `HelloFails`).
`LostLock` ... `LostStart` are `_on_link_lost()`, which any thread may run: the
lock, the two places where the session is looked for and then read again
(`LostDegrade` and `LostMark`, `LostName` and `LostReads`), the test of
`_reconnecting`, its setting and the start of the thread (`LostCheck`,
`LostSpawn`, `LostStart`). `ReadTop` ... `PongUp` are the reader; `BeatWakes` ...
`BeatJudges` the heartbeat; `LoopStops`, `LoopRetries`, `LoopExits` the reconnect
loop; `AppClose` ... `CloseSetsLink` the steps of `close()`. `SessionRetire`,
`SessionReplace`, `SessionForget`, `SessionDegrade` are the steps of the session
manager.

`degrade()`, `touch()`, `open()` and the error of `_on_link_lost()` test
`_current` and then read it again. When `close()` has set it to None in between,
that is an AttributeError: `LostRaises` and `PongTouch` end the thread,
`RetireRaises` makes `connect()` fail.

`close()` joins with `timeout=2.0` (client.py:183). `CloseJoins` may return whatever the
threads are doing; the history `outlived` is set when it gave up on one that was
not waiting for anything (`MayBlock` names what a thread can wait for longer than
two seconds), which takes a machine so busy that a thread that can run does not for two seconds.

**Abstractions.** A connection, its socket and its session share a number.
Sequence numbers become `heard` (what a waiting heartbeat would find: nothing,
a PONG that is not its answer, its answer) and `pongs` (under way: newest or
older); clocks become choices, but a timeout is not counted when a PONG came
after the PING. `_missed` is 0, 1 or "more". `AppConnect` may be called on a
connected client, as the code allows. Not modelled: callbacks, events and the
reply to a PING (no server here sends one). The bytes are not modelled either:
`ReadMalformed` is the `ProtocolError` that ends the reader, possible
at any receive since readers of two connections share one decoder.

**Properties.** `ReconnectFlagHasLoop`: while `_reconnecting` is set some
reconnect thread is about to be started or has not reached its `finally`. `SessionsNeverRestored`: a
retired session stays in the history, and what becomes current is newer than
every session there ever was. `FreshHandshake`: two `connect()` calls never
open sessions for one connection. `CloseReleases`: after `close()` there is no
socket and no session, and no thread marks the link as up again, unless `join()`
gave up on one that could run (`outlived`). `LossIsDetected`: a peer that is gone
is noticed, though the reader may have died and the heartbeats of an earlier
connection ping on the new one's socket, unless the two locks have been taken
crosswise (`Crossed`; section 3). `CloseStopsThreads`: every thread ends. The
last three are checked without automatic reconnect, where the code keeps them.

**Runs.** `client_safety` (3 connections, 2 reconnect threads, 2 application
calls, reconnect on; 2.3 million states): two reconnects are the least in which
a stale thread meets a third connection, and two threads the least in which one
resets the flag of the other. `client_liveness` (2 connections, 2 application
calls, reconnect off; 468 thousand states): the application connects again, so that
threads of the first connection meet the second one and its `connect()` may be
stopped by a heartbeat of the first.

**Bounds.** `MaxConn` stops `transport.connect()` from granting more
connections (it may always refuse), `MaxLoops` the number of reconnect threads
alive at one time (a thread that would start one more waits), `MaxOps` the
application's calls. Heartbeats that all wake up and are all answered would make a hundred
times as many states: `Beating` names those that wake up, `Standby` those that do
so once these have ended, `Answering` the connections on which a PING may be
answered. For safety only the last connection's heartbeat wakes up, unanswered;
for liveness the first one's does, with the last one's on standby, and any PING may
be answered. The theorems hold for all values of all of them.

**Fairness.** The operating system runs every thread that can run, and all
waits of the code but those for a lock have timeouts, so each thread is weakly
fair as a whole. `Patience` is strong fairness of the heartbeat's timeout *unless PONGs keep
coming*: the clock does pass `_heartbeat_timeout` when they do not. The
application and the peer are not fair: nothing makes them act.

**Finding** (`client_stuck`, 2 connections). "Wait until the automatic reconnect
is done", says the error of a call (client.py:337). When the link is lost again
after `connect()` has returned in a reconnect thread, and before that thread's
`finally` resets `_reconnecting`, `_on_link_lost()` starts no new thread and the
old one ends: nobody reconnects.

**Seen while modelling, and part of the model without a property**: a reader of
an earlier connection goes round its loop and receives from the new socket
(client.py:17 says the reader thread is the only owner of the read end); a
reconnect thread past its last look at `_closing` calls `connect()`, which
resets it, so a closed client comes up again; an AttributeError in
`_on_link_lost()` leaves the slots of waiting calls unfailed and starts no
reconnect.

## 3. PendingCalls

**State and actions.** Every call is a thread of its own: `CallStarts`,
`require()` in its three reads of `_current` (`CallRequires`, `CallSeesLive`,
`CallTakesSession`), `Register`, `ReadSocket`, `Send` or `SendFails`, `WaitEnds`
or `WaitTimesOut`, `Touch`, `Take` or `Withdraw`. Readers and heartbeats that find
the link lost are `Watchers` (`Notices`; `PingFails` for a PING that cannot be
sent, with `_send_lock` in its hand); they, callers whose send failed and the
reconnect thread whose HELLO failed run `_on_link_lost()`: `LinkLost`, `Degrade`,
`Mark`, `Name`, `ReadName`, `ListPending`, `FailSlot` (one per slot), `AllFailed`,
`ClearPending`, or `LostRaises` where `close()` has taken the session away. From
`ListPending` on it is `close()` too. The reader's half is `PopSlot`, `FillSlot`,
`SetEvent`, three steps because the caller may time out between them. `Serve` is
the server, with `ChecksSession` telling the mock (it compares `session_id`) from
the native one (it does not). Both ends may close a connection at any time;
requests under way are lost.

The reconnect thread is `connect()` with its two locks: `ConnLock` takes
`_state_lock`, which it keeps up to `LinkUp`, `ConnRefused` or `ConnFail`; `Hello` needs
`_send_lock`. `LinkLost` needs `_state_lock`, and whoever comes from a failed send
keeps `_send_lock` until `_on_link_lost()` is over.

**Abstractions.** There is at most one reconnect thread, and nobody else calls `connect()`
(`BridgeClient` has those questions). `FailSlot` sets `error` and the event in
one step: the caller looks at neither before the event is set, except when it
times out, and then `error` does not matter. A lock that is taken and released
within one action is not kept.

**Properties.** `WokenHasAnswer` is the assertion at client.py:363.
`AnswerOfOwnSession`: data is never of another session, although a request may
leave on the connection that replaced its session's. `NoSlotLeaks`: `_pending`
keeps no slot of a finished call. `CallsReturn`: every call returns, including
one that waits for `_send_lock` held by a caller whose send failed, unless the two
locks have been taken crosswise (`Crossed`).
`KeepsPromise` is the refinement: `CallPromise` knows of a call only the session
it is bound to, how it ended and whose data it got, and has four steps (bind,
refuse, answer, fail). A call is bound when `call()` has its `session_id` (`sess`), ends
where its outcome is decided, not where it returns, and its data is what `Take`
reads from the slot. Registration, sockets, locks, popping, failing and clearing
are all invisible to it, and a call can neither change its session nor end
twice. An AttributeError that escapes `call()` is an ending of its own, `raised`,
which `CallPromise` permits before an answer. `CallPromise` promises nothing
about progress: whether a call ends is the question of `CallsReturn`.

**Finding** (`calls_block`). `_send()` runs `_on_link_lost()` inside `with
self._send_lock` (client.py:253 and 257), which takes `_state_lock` (570);
`connect()` keeps `_state_lock` (158) and sends HELLO under `_send_lock` (253). Neither lock has a
timeout, and the timeout of the handshake only covers the waiting for its
messages. A caller or a heartbeat that fails on the old socket while the
reconnect thread is between its lock and its HELLO stops both, and with them
every later call, for ever: `CallsAlwaysReturn` is violated, and `CrossedForGood`
is a theorem. The code says that a heartbeat must not block
commands (client.py:10) and gives every command a timeout (constants.py:56).

**Seen while modelling**: a slot registered between the listing and the clearing
of the table is dropped unfailed, and its caller waits for its whole timeout
(that it does return is `CallsReturn`); `degrade()` marks a session DEGRADED, which is live, that
`close()` or a reconnect has just retired; a native server compares no
`session_id`, so that with `ChecksSession = FALSE` a call of the old session may
get data of the new one.

**Run, bounds, fairness.** `calls` (377 thousand states): one call, one watcher,
`close()`, the reconnect thread, two connections. One call is what every property speaks about; that it
may wait for a lock another sender has is the watcher's part, which is a sender
too (`PingFails`). One change of connection is enough for a request of the old session
on the new socket. Three connections take longer than a run should; the invariants
and the refinement are proved for any number of calls, watchers and connections.
Callers, failing threads and the reconnect are weakly fair, since waits,
connection attempts and handshakes end with their timeouts; `LinkLost` is
strongly fair, because a reconnect sleeps between two attempts and so a thread
that waits for `_state_lock` gets it at last. The peer and the readers are not
fair, and nothing makes a connection attempt succeed.

## 4. FrameStream

**State and actions.** One direction of one connection: `sent` is the history of
frames, each with the position of its end and the messages `due` after it, `wire` the bytes under way, `buf` what the receiver has of a frame.
`Sends` is `encode_frame()` and `send_frame()`, `SendsJunk` a peer with faulty
framing or JSON. `Recv` takes any piece of the wire, up to `MaxChunk`. For the
two Python receivers `Decode`, `DecodeFails` and `DecodeEnds` are the loop of
`FrameDecoder.feed()`, one frame a step: the messages go to the inbox when the
loop ends, and are lost when it raises. `ClientTakes` is the handshake, which
looks into the inbox before it receives, and then the reader thread, which
receives first; `MockTakes` is `_read_message()`. The native receiver asks for
exactly what is missing of a header (`NativeRecv`, `NativeHeader`) and of a body
(`NativeTakes`), so that it never has more than one frame.

**Abstractions.** A byte has `Base` values; the header keeps its four bytes and
its byte order. Whether a body is a JSON object is membership in `Messages`.
The types of handshake messages are not compared: peers send them in order.
Junk is one frame whose body is no object, or declares more than the limit;
longer junk is several frames of which the receiver sees the first, so nothing
is lost by that.
Length 0 needs no case of its own in the native receiver: the frame is complete
with its header, and its empty body is no message. A socket timeout in a loop
changes nothing and is no step; in a handshake it is `HandshakeTimesOut`. What
`recv()` may get is not restricted by how it was sent, as with any stream.

**Properties.** `InOrder`: what is handled or in the inbox is a prefix of what
was sent before the first faulty frame (for the native receiver: of what was
sent and is an object). `NothingForgotten`: a receiver that waits with nothing
under way has all of it. `JunkLosesOnlyItsChunk`: a `feed()` that raises takes
with it only messages of its own piece. `BufferBounded`: between pieces there is less than a
frame, and never more than the limit. `WaitsEmptyHanded`: a message waits in an
inbox for more bytes only in the client, between READY and the reader's first
piece.

**Run and bounds.** `frames` (1.5 million states): four frames with bodies of
one and three bytes, one byte over the limit of three, and three kinds of junk
(length 0, length over the limit, a body that is not an object). A length read
in the wrong byte order is over the limit, so that the order shows. Two frames of a handshake and two more let every pair of frames share a piece at
every stage, and a piece may be as long as two frames. Four receivers and
senders are one run. Nothing here is about progress: a conversation may stop.

The mock server takes a first piece without a complete frame for a missing HELLO
(`TakeCut`); the other receivers wait for the rest.

## 5. MockServer

**State and actions.** One thread accepts, one serves each connection, and a test
starts, stops, drops connections and emits events. `self._lock` protects the list
`listed` and nothing else, so that the steps of `stop()` (`StopBegins`,
`StopClears`, `StopClosesServer`, `StopJoins`), of the accept thread (`Accept`,
`AcceptLists`) and of a connection's `finally` (`ServeCloses`, `ServeUnlists`)
interleave. `EmitChooses` picks connections under the lock, `EmitWrites` writes
to them one by one after it. `HelloArrives` ... `Greet` are the handshake. A
command that changes hooks or jobs is split where another thread may come in
between: the number of hooks is read (`CreateHook`) and the new one stored later
(`StoreHook`); `advance_jobs()` walks the dictionary (`AdvanceChecks`), reads a
job's progress and writes it back (`AdvanceWrites`), reads it once more to see
whether the job is done (`AdvanceTests`), and raises when the
dictionary has grown meanwhile (`AdvanceRaises`). Commands that only look are
their answers.

What is sent and received are messages of `Protocol`: the client begins with a
HELLO of this version, of another, or with something else (`FirstMessages`), and
`HelloFault` says which error that gets; an event carries the session of its
connection.

**Abstractions.** `out` keeps the first two messages sent on a connection, which
is all `OpensWithHandshake` speaks of. A session has the number of its
connection. `half` counts a job's progress in
halves, and the history `rounds` how often each client has written it, up to two. A hook's identifier is its number.

**Properties.** `OpenConnsListed`: no socket is open outside the list that
`stop()` and `drop_connections()` close. `OpensWithHandshake`: what a
client reads first is an ERROR, or the HELLO_ACK and READY of its own session,
which bring a client of this version up; no event overtakes them. `OwnHooksDistinct`: one client never gets the same
`hook_id` twice, nor one that cannot be looked up. `JobsTakeTwoRounds`:
`advance_jobs()` reads, writes back and tests a job's progress without a lock, and
yet no job is completed by fewer than two rounds of `job.status`, and one that
only a single client asks about is not running after two. It permits what the
code does: updates of two clients get lost, and a cancelled job may end up
completed.
`StopEndsConnections`: `stop()` ends every connection, the one included that
the accept thread lists after the list was emptied.

**Run, bounds, fairness.** `mock` (1.4 million states): two connections (the least in which commands
interleave), three requests (a dump, a status and a cancel), two starts and one
event. Every thread is weakly fair, since its `recv()` or `accept()` has a
timeout; clients owe nothing: `HelloArrives`, `LoopStartsCommand` and the like
are not fair.

**Seen while modelling**: two clients may be given the same `hook_id`; a
dictionary that grows while `job.status` walks it ends that connection's thread
without an answer; `job.cancel` between the look at a job and the writing of its
progress is overwritten with `completed`.

## 6. Protocol and Transport

These two have operators and no state: `MockServer` builds and judges its
messages with `Protocol`, and `Host` uses the error table, `call()`'s verdict and
the endpoints.

**Protocol.** A message is a record with the fields of the dictionary; fields
nobody looks at hold `Value`. There are two builders of most messages, the host's
(`make_hello_ack`, ...) and the native server's, which writes its JSON member by
member (`build_hello_ack`, ...), one table of what a message must have
(`REQUIRED_FIELDS`, `validate`), three checks of the first messages (`HelloFault`
of the mock server, `NativeHelloFine`, `Accepts` of the client), and one way from
an error code to what the caller of a tool sees (`to_dict`, `Verdict`,
`to_mcp_exception`). `handle_request` is what the native server may answer a
command, not what it computes.

**Transport.** An endpoint is written as nothing, as TCP with a number, as TCP
without one, as a Unix socket or as a bare path (`Written`); `Raises` says which
of them `parse_endpoint()` refuses; `listen` gives the endpoint with the port
that the system has chosen.

**Seen while modelling.** The native server's PONG has neither `version` nor
`timestamp` (ipc_server.cpp:225), both required of a PONG (messages.py:317); it is
taken because `_dispatch()` does not validate (`NativePongIncomplete`). The native
server does not look at the version in a HELLO (ipc_server.cpp:849); a client of
another version is stopped by its own look at the HELLO_ACK (`VersionsTheorem`).
The tools apk.list, apk.launch, apk.stop and memory.search are offered with the
native server, which answers E_UNKNOWN_CMD: the caller is told in a JSON-RPC
error that the request was wrong (`UnfinishedBlamesCaller`), although what is not
implemented is to be reported as E_NOT_READY (ipc_server.cpp:5) and an error of
execution is not to be mixed up with one of the request (error_mapping.py:7).

## 7. Host

**State and actions.** `mpc` is where `main()` is: arguments, mock server or adb
forward (`StartMock`, `NoForward`, `NoAdb`, `PrepareForward`), `connect()`
(`Connects`, `ConnectFails`, `BadEndpoint`), the capabilities (`ReadCaps`), the
assembly (`VerifyMounts`, `VerifyRestores`, `BindTools`, `Report`), serving and the way out
(`CloseBridge`, `StopMock`). `Abandons` is every way out that passes by the
`finally` of `main()`, which covers `server.run()` only: Ctrl-C before it
(cli.py:235-319) or during the clean-up itself, a message that cannot be written to stderr,
and whatever the report raises (290-319; `snapshot()` does, of capabilities with a group that is no
object). Then nothing is released. A call is in the event loop up to the gate
(`CallBegins`, `CallGated`) and in a worker thread from there (`CallSends`,
`CallReturns`, `CallRaises`, with whatever the Runtime answers: `Replies`); `session.capabilities` adds its summary later
(`CallSummarises`). Around them the cable is unplugged, the app starts, the link
is lost and a reconnect thread brings it up with a session of other
capabilities.

**Abstractions.** The link is what `BridgeClient` offers: up, lost (its thread
retries), closed, or never up. The table of tools is a set of constants, with
the group and the required capabilities of each. `ensure_forward` is the outcome
of adb: none of its answers means that the mapping is in force or is not.
`endpoint` is what `main()` has settled on so far, as `Transport` writes it: asked
for, made of `--device-port`, or where the mock server ended up listening (`file`
is its Unix socket on disk). `Init` leaves out arguments that no step looks at
beside the others, such as `--no-forward` with an endpoint. A capabilities object with a malformed group is not an element of `Caps`; that it
raises in the report is part of `Abandons`, and an empty one filters no tools
(`ReadCaps`). `answer` is the form
in which a failed call reaches the caller: a JSON-RPC error, which blames the
request, or a result that says whether it may be retried.

**Properties.** `ExpertsAreMounted`: no expert tool is served that `--mount` did
not ask for, although the verification mounts every group and restores them from
the same object. `GatedUnlessReconnected`: the gate's verdict is that of the
session that executes the call, unless the link was lost and up again between
the event loop and the thread; and nobody is blamed for a call the host refused by
itself. `ExitLeavesNothing`: when `main()` returns, and when
the mock server does not start, the endpoint cannot be parsed or `server.run()`
raises, the mock server is stopped, its socket removed and the link closed, but for
one a reconnect thread was bringing up; where `main()` is abandoned, all of it may be left. `ServesAnyway`:
neither adb nor the Runtime nor a Python without
AF_UNIX keeps a sound host from serving; an endpoint that cannot be parsed
does, and what makes `main()` abandon its start.

**Run, bounds, fairness.** `host` (4.4 million states): every command line, with
the endpoint left open, a TCP port, a Unix socket or garbled, a device port that
is one and a number that is not, a Python with AF_UNIX or without; two core tools and the
summary, an expert tool of each of two groups, one of them never mounted, an
unknown group, two capabilities; three sessions, so that a call may meet two
reconnects; one unplugging; one call, which is what the property speaks of.
`main()` is weakly fair up to serving, since adb and `connect()` have timeouts;
the reconnect thread retries for ever; nothing else is fair.

**Finding** (`host_waits`). An `E_NOT_READY` tells the caller to wait for the
automatic reconnect (runtime_bridge.py:124). A first `connect()` that failed
(cli.py:265) leaves no thread that would reconnect: the app starts, and the host
stays disconnected.

**Seen while modelling**: `describe()` calls `sm.report()` without
the capabilities, so tools that were left out are never reported;
`ensure_forward()` looks for its port as a substring of adb's list; a group of
`--mount` that does not exist is ignored without a word; `--device-port` is not range-checked, and an endpoint that cannot be parsed raises
outside of every `try`: the host ends, while it goes on without a Runtime; Ctrl-C while
the tools are assembled leaves the bridge and the mock server as they are.

## 8. Device

**State and actions.** `target.conf` is edited, moved away and moved back.
`Specialize` is a process that zygote forks and that asks the companion;
`CompanionStats` and `CompanionAnswers` are the two halves of
`target_packages()`, between which the file may change; `QueryFails` is every
way not to get an answer, `CompanionDies` the death of the companion at any moment, with
its cache, and `Reads` may find that the file cannot be opened although `stat()`
has seen it (`blind`: the empty set is cached under the file's own time and size). `RuntimeStarts` is `Runtime::start()` with
`ipc::start()`: the process takes the port, or is ready without a server when
another has it. `Accept`, `AcceptErrs`, `AcceptShut`, `Hello`, `HelloBad`,
`ConnectionEnds` and `AnswersLast` are `accept_loop()` with
`handle_connection()`: one client after the other, `g_running` looked at between
messages. `StopBegins` shuts the listening socket down, `StopJoins` joins.

**Abstractions.** A file is the set of names and its second; its size is the
number of names, as if all were equally long. A session identifier is the clock
and the process. One clock stands for seconds and milliseconds. A client in the
backlog that leaves is only missed once it has been accepted, as in TCP.
`target.conf` does not change while a Runtime is loaded, which would not notice.

**Properties.** `NeverUninvited`: the Runtime is only in processes that the file
has named at some time. `EditsTakeEffect`: an answer is what the file says,
unless it changed since `stat()`, twice in one second, or was away, which are
the cases that time and size do not show, or the last reading found it blind
(entry.cpp:70 with 115-119), which the cache does not show either. `RunningHasPort`: `g_running` means the
port. `AnswersOwnSession`: `g_session_id` belongs to the process, and yet each
answer carries the session its client was given. `StopWaitsForClientsOnly`:
`stop()` returns, or waits for a client that is connected and silent.
`BacklogIsServed`: a client in the backlog waits for the one before it and for
nothing else, unless `accept()` has failed.

**Run, bounds, fairness.** `device` (1.7 million states): two processes, which
compete for the port; two clients, one served and one waiting; two edits, the
least for a change back within one second; one tick. The server's thread and
`StopJoins` are weakly fair where they wait for nobody (`Thread`); what a client
sends, its departure and a failing `accept()` are not.

**Seen while modelling**: after a failed `accept()`, `g_running` stays set and
clients connect to a backlog nobody serves; a second process never gets the port
when the first one dies later; a file moved away and moved back is not read
again; a `fopen()` that fails once after a successful `stat()` keeps the Runtime out
of every process until the file changes or the companion starts anew.

## 9. Subprojects and Build

**State and actions.** On disk: for every subproject which of its `Files` are there, its
`meson.build` (`entry`), another file that `looks_populated()` takes for a sign of
life (`marker`: CMakeLists.txt, configure, configure.ac, Makefile.am) and
everything else (`rest`), of those that its `Archive` has, and the wraps that are lost; the cross file,
the builddir of each mode, `libgum.a`, the linked library of each mode, its
unstripped copy, `module/zygisk/<abi>.so` and the zips. A prefetch, which passes what has any of the five markers, goes over a
list it has made once (`PrefetchStart`), passes, fails, clears or copies each; a
nested subproject goes with its parent. A build looks for `meson.build` alone
(`CheckDeps`, build_all.py:158) and fetches, builds
Frida-Gum (`WriteCross`, `MesonSetup`, `NinjaGum`, `CopyGum`), for which meson
needs every tree it looks for, nested ones included, as `--wrap-mode nodownload`
fetches nothing (`Needed`, `AllWhole`), or skips it
(`ReuseGum`), exports the link list of *release*, links when `libgum.a` is
younger, strips with a way back (`KeepBackup`, `Strip`, `StripVerified`,
`RestoreBackup`), places and packs. `has_zygisk_entry` finds every entry where
there is no llvm-nm (build_all.py:261), and `unseen` keeps that a library without
one has passed so. `Writes` is a file that is written or torn
by a kill; `Killed` is a kill between two files; `BuildFails` the `SystemExit` of
a command that misses something.

**Abstractions.** A library is the mode of its Frida-Gum, stripped or not, and
whether it has its entry symbol. Times are `stale`: older than `libgum.a`. Which
symbols strip removes is a choice. A download fails or does not.

**Properties.** `EntryShipped`: without a kill or a torn file, and with an
llvm-nm whenever strip has taken `zygisk_module_entry` away, no zip has a
library without it, however often it is stripped again and
in whatever order modes and `--skip-gum` come. `FullBuildShipsOwnGum`: a build
without `--skip-gum` ships the Frida-Gum of its own mode, although both modes
link the same `libgum.a`. `PrefetchConverges`, `BuildSucceeds`: what failed or
killed runs leave keeps no later run from succeeding, but for what `Wedged`
names (a source tree that has a marker and is not whole; a torn cross file)
and lost wraps.

**Run, bounds, fairness.** `build` (2.7 million states): one required subproject
with a nested one, both needed by meson, one optional and unusable, both modes,
every option, with an llvm-nm or without, two
faults: the first makes the leftover, the second meets it. Fairness: somebody
runs the programs again and again (strong fairness of starting them, weak of
their steps), and the network and the disk fail only as often as the bound says.
A build is started while the trees are whole again and again
(`SF(AllWhole /\ BuildStart)`): a `prefetch --force` leaves nested trees empty, and
whoever builds after nothing but such runs never succeeds.

**Finding** (`build_wrap`). `fetch_subproject.py` puts a lost wrap back before it
fetches (fetch_subproject.py:65), with `shutil`, which it never imports: the
NameError is printed, `main()` returns 0, and the build goes on without the tree.

**Seen while modelling**: a second `--skip-gum` release copies the library that
is already stripped over the only unstripped one (build_all.py:229), so after a
kill between strip and its check a zip may ship without the entry; an NDK without
llvm-nm turns the check off without a word; a tree killed after one marker counts as
ready for ever;
`gen_gum_include_dirs.py` always reads the builddir of release (line 42), so a debug
build alone fails at that step; `--force` removes nested subprojects with their
parents, and nested wraps need another run.

## 10. Proofs

What is proved holds for every value of the constants, under the assumptions the
modules name.

`FrameStreamProofs` assumes of the instance only `FrameStreamAssumption` (a byte
with two values or more, a limit of one or more, junk that has at least a
header). `BufferInv` adds to `BufferBounded` what the native receiver
has in front of it when it looks at a header or a frame; `StageInv` adds to
`WaitsEmptyHanded` how many messages have been handled at each stage. The lemmas
about bytes and headers (`DeclaredIsNat`, and what `AfterFrame` leaves) are
stated once.

`InOrder`, `NothingForgotten` and `JunkLosesOnlyItsChunk` follow from `StreamInv`,
which TLC has checked too. `HistoryInv`: the frames lie end to end, a message is a
frame of its own, and what is owed only grows. `ContentInv`: buffer and wire
together are the bytes of the frames from one position on, in their places.
`ReceiverInv`: that position is the end of some frame, and what has been handled,
waits, or is being decoded is what was owed up to there (`Taken`). `PieceInv`:
what was complete before the last piece has left the decoder. The step of
`Decode` is the one that needs all of it: the length it reads is that of the next
frame, because four bytes of a number below `Base^4` give the number back
(`DeclaredOfHeader`).

`BridgeClientProofs` (`BridgeClientAssumption`: at least one connection): `TypeOK`
is inductive on its own. `FreshHandshake` is
not: a second thread in `connect()` could open the session first. `LockInv` (a
thread is inside `connect()` exactly when it owns `_state_lock`) excludes that;
`ConnInv` and `NewestInv` (no session is newer than the newest connection) make
a granted connection fresh; `CurrentInv` gives that the current session was
opened, which `SessionsNeverRestored` needs for a step that replaces it.
`ReconnectFlagHasLoop` is inductive with types: the flag is set together with
the start of a thread, or while one is about to be started, and reset by a
thread's last step. Their
conjunction is `IInv`. `CloseTheorem` assumes `~AutoReconnect`: a reconnect thread
resets `_closing`, and the property does not hold with one. `ClosingInv` says, for
each step of `close()`, what has been released by then and stays so. The join of
`close()` has a timeout, and returns with threads alive: `JoinQuiets` shows that,
unless it gave up on a thread that could run (`outlived`),
what is left are heartbeats asleep, since whoever could still be inside
`_on_link_lost()` would have to wait for a lock, and nobody is left to hold one.
`BornInv` (the threads of a connection do not exist before its handshake is over)
keeps a new reader from being one of them, and `SendInv` says who may hold
`_send_lock`.

`PendingCallsProofs` (`PendingCallsAssumption`: at least one connection, disjoint
sets of threads): `SendInv` (a request leaves on a socket) completes the
types. `WokenHasAnswer` needs `FilledInv`: whatever set an event had filled the
slot. `NoSlotLeaks` needs `TableInv`: a slot that is in the table and woken has
a thread that is going to clear the table, and a popped slot is in no table;
`EarlyInv` says that a call which has not registered yet is known to nobody, so
no leftover of the table can belong to it. `OwnInv` says where answers and
responses come from; it holds if the server checks the session, and
`OwnTheorem` has that hypothesis, without which it does not hold.
`CrossedForGood` says that the deadlock of section 3 has no way out: its two
threads stay where they are whatever anybody does. `PromiseTheorem` is the
refinement, again for a server that checks the session: `StageInv` (a call is bound after `require()` and open until
its outcome is set) and `OwnInv` make data a function of `sess` and `outcome`, so
every step that leaves these two alone is a stutter, and the six that do not are
mapped one by one (`PromiseEnding` does those that end without data).

`ProtocolProofs` assumes nothing. Every message of either side, but for that PONG,
is valid in its strict form (`HandshakeValid`, `CallValid`, `NewsValid`,
`NativeValid`); a handshake is accepted exactly between equal versions; whatever
code an answer carries, `call()` ends with one of the table; and no error that
blames the request says that it may be retried (`BlameIsFinal`). They are stated
for all versions, sessions, identifiers and codes, which no run of these constant
formulas could be.

`MockServerProofs` assumes that the bounds are numbers. `ListInv` adds to
`OpenConnsListed` that a thread about to leave the list has closed its socket;
`HandInv` says how much of the handshake has been sent at each stage and that
only a connection past READY takes events; `HookInv` says that the number a
client is about to use is larger than those it was given and at most one past
the hooks there are, which is what makes identifiers of *one* client distinct
without a lock. `JobsInv` counts: the progress of a job (`Counted`), and a progress that
was read and not yet written back (`ReadCounted`), is covered by rounds of
`job.status`, and where one client is alone with it (`Alone`) is their number
exactly; a job it has advanced twice is over or about to be tested (`Ended`).
`BusyInv` (only a thread that executes a command carries anything) keeps the rest
of the server out of that.

`HostProofs` (`ToolsAssumption`, `EndpointsAssumption`, `BoundsAssumption`): `MountInv` says that what is
mounted is what was asked for except while the assembly verifies itself;
`GateInv` that a call past the gate has its capabilities in the session the gate
saw, and that sessions only grow; `ExitInv` where the mock server can be running
and a link can be up, while `main()` has not been abandoned. `MockReachable`, part of `ExitInv`, says that the endpoint
`main()` was given by a running mock server parses again and leads there
(`ListensReachably`). `FailuresKnown` uses `VerdictTheorem`: every failure of a
call has its answer.

`DeviceProofs` (`BoundsAssumption`): `InviteInv` says that the file, its copy and
the companion's cache come from versions the file has had. `EditInv` says that,
while the file was never away, no version is younger than it and the cache's
names, unless they were read blind, are those of a version no older than the time the cache carries: when that
time is the file's, the version is the file, or a second one of the same second.
`PlaceInv` says that a client is in one place, once in the backlog or with one
server, so that a HELLO changes no other client's session.

`BuildProofs` (`InsideAssumption` and its like, `TornAssumption`: no torn or
missing file is a library): `RunInv` says what a build has in hand at each of its
commands, `GumInv` follows the Frida-Gum of a full build from `libgum.a` to the
zip, and `EntryInv` says that without a fault, and with nothing `unseen`, a library without its entry exists
only between strip and its check, while its copy still has it.

Model-checked only: everything that needs fairness (`LossIsDetected`,
`CloseStopsThreads`, `CallsReturn`, `StopEndsConnections`, `ServesAnyway`, `StopWaitsForClientsOnly`,
`BacklogIsServed`, `PrefetchConverges`, `BuildSucceeds`), which is out of the
prover's reach, and all findings. Every invariant a run checks is also proved.

## 11. Not modelled

- Host names, socket paths and what `socket` does below `transport.py`;
  `BridgeClient` takes `connect()` as granting or refusing.
- What the commands of the native server read from `/proc` and from memory, and
  the payloads of all messages. The predicate of the Write Guard and
  `assert_ready_for_command()` are called by tests only.
- The rows of `tools/specs.py`: the table of tools is a constant of `Host`.
- `sweep()` and `require_matching()` of the session manager, `awarmup()`,
  the setters of `SurfaceManager`, `list_devices()`: only tests call them.
- The hook, memory and process managers (`runtime/manager/`): no command of the
  IPC server calls them; the commands go to Frida-Gum directly.
- The Gum and ART backends: calls into third-party code; `init()` succeeds or
  fails in `Device`.
- The installer and the WebUI, but for the WebUI's write of `target.conf`.
- Callbacks and the event buffer of the client, and its reply to a PING of the
  server, which no server of the repository sends.
