---------------------------- MODULE BridgeClient ----------------------------
(***************************************************************************)
(* The host side of the bridge: the link, the threads and the session of   *)
(* BridgeClient (ai_analyzer/bridge/client.py) with the SessionManager it  *)
(* owns (ai_analyzer/bridge/session.py).                                   *)
(*                                                                         *)
(* Every connect() that completes starts a reader and a heartbeat thread;  *)
(* a thread that sees the link die runs _on_link_lost(), which may start a *)
(* reconnect thread; the application calls connect() and close().  All of  *)
(* them share the fields below, under _state_lock in only two places       *)
(* (connect() and the first lines of _on_link_lost()), so an action is one *)
(* access to that shared state and the threads interleave between them.    *)
(* Calls in flight (_pending) are the subject of PendingCalls.             *)
(***************************************************************************)
EXTENDS Naturals, FiniteSets

CONSTANTS
  MaxConn,        \* bound: connections transport.connect() grants
  MaxLoops,       \* bound: reconnect threads that exist at one time
  MaxOps,         \* bound: connect() and close() calls of the application
  Beating,        \* bound: connections whose heartbeat thread ever wakes up
  Standby,        \* bound: those whose heartbeat wakes up when none of Beating lives
  Answering,      \* bound: connections whose peer ever answers a PING
  AutoReconnect   \* the auto_reconnect argument of BridgeClient

ASSUME BridgeClientAssumption ==
  /\ MaxConn \in Nat \ {0}
  /\ MaxLoops \in Nat
  /\ MaxOps \in Nat
  /\ Beating \subseteq 1 .. MaxConn
  /\ Standby \subseteq 1 .. MaxConn
  /\ Answering \subseteq 1 .. MaxConn
  /\ AutoReconnect \in BOOLEAN

\* A connection is named by its number; its socket, the session its
\* handshake opens and the threads it starts carry the same number.
Conns  == 1 .. MaxConn
NoConn == 0

Reader(c)    == <<"reader", c>>
Heartbeat(c) == <<"heartbeat", c>>
Loop(n)      == <<"reconnect", n>>
App          == <<"app", 0>>
NoThread     == <<"nobody", 0>>

Readers    == {Reader(c) : c \in Conns}
Heartbeats == {Heartbeat(c) : c \in Conns}
Loops      == {Loop(n) : n \in 1 .. MaxLoops}
Connectors == Loops \cup {App}
Threads    == Readers \cup Heartbeats \cup Connectors

VARIABLES
  pc,            \* where each thread is
  ops,           \* connect() and close() calls made so far
  link,          \* _link
  closing,       \* _closing
  reconnecting,  \* _reconnecting
  stateLock,     \* owner of _state_lock (an RLock)
  sendLock,      \* owner of _send_lock, kept only while a failed send cleans up
  conn,          \* connections granted so far
  sock,          \* _sock: the connection it belongs to, or NoConn
  held,          \* the local `sock` a reader or heartbeat read from _sock
  shut,          \* sockets closed on this side
  gone,          \* sockets closed by the peer
  pongs,         \* PONGs on their way: to the last PING sent, or to older ones
  heard,         \* what a heartbeat thread that waits has heard since its PING
  missed,        \* _missed, where two stands for any larger number
  current,       \* SessionManager._current
  generation,    \* SessionManager._generation
  history,       \* SessionManager._history
  sstate,        \* Session.state of every session
  outlived       \* (history) some join() gave up on a thread that could run

linkVars == <<link, closing, reconnecting>>
locks    == <<stateLock, sendLock>>
sockVars == <<conn, sock, shut>>
netVars  == <<held, gone, pongs>>
pingVars == <<heard, missed>>
sessVars == <<current, generation, history, sstate, outlived>>
shared   == <<ops, linkVars, locks, sockVars, netVars, pingVars, sessVars>>
vars     == <<pc, shared>>

\* While a thread is in connect() at one of these it owns _state_lock.
Connecting == {"c_open", "c_hello", "c_send", "c_await", "c_session", "c_retire", "c_current",
               "c_up", "c_fail"}
Losing     == {"lost_lock", "lost_degrade", "lost_mark", "lost_name", "lost_read", "lost_check",
               "lost_spawn", "lost_start"}

ReaderLabels    == {"none", "top", "recv", "touch", "pong", "pong_up", "done"} \cup Losing
HeartbeatLabels == {"none", "sleep", "ping", "wait", "judge", "done"} \cup Losing
LoopLabels      == {"none", "top", "c_lock", "exit"} \cup Connecting \cup Losing
AppLabels       == {"idle", "c_lock", "x_sock", "x_join", "x_session", "x_forget",
                      "x_link"}
                     \cup Connecting \cup Losing

LinkStates    == {"CONNECTED", "DEGRADED", "DISCONNECTED"}
SessionStates == {"none", "RUNNING", "DEGRADED", "CLOSED"}

\* "answer": _pong_seq >= _ping_seq.  "late": not that, but _last_pong moved
\* after the PING, so no timeout can be due.
News == {"nothing", "late", "answer"}

connected == link \in {"CONNECTED", "DEGRADED"}

Labels == ReaderLabels \cup HeartbeatLabels \cup LoopLabels \cup AppLabels

PcOK ==
  /\ pc \in [Threads -> Labels]
  /\ \A t \in Readers : pc[t] \in ReaderLabels
  /\ \A t \in Heartbeats : pc[t] \in HeartbeatLabels
  /\ \A t \in Loops : pc[t] \in LoopLabels
  /\ pc[App] \in AppLabels

LinkOK == link \in LinkStates /\ closing \in BOOLEAN /\ reconnecting \in BOOLEAN
LockOK == stateLock \in Connectors \cup {NoThread} /\ sendLock \in Threads \cup {NoThread}
SockOK == conn \in 0 .. MaxConn /\ sock \in 0 .. MaxConn /\ shut \subseteq Conns
NetOK  == /\ held \in [Readers \cup Heartbeats -> 0 .. MaxConn]
          /\ gone \subseteq Conns
          /\ pongs \in [Conns -> SUBSET {"new", "old"}]
PingOK == heard \in [Conns -> News] /\ missed \in 0 .. 2
SessOK == /\ current \in 0 .. MaxConn
          /\ generation \in Nat
          /\ history \subseteq Conns
          /\ sstate \in [Conns -> SessionStates]
          /\ outlived \in BOOLEAN

TypeOK == /\ ops \in 0 .. MaxOps
          /\ PcOK /\ LinkOK /\ LockOK /\ SockOK /\ NetOK /\ PingOK /\ SessOK

Init ==
  /\ pc = [t \in Threads |-> IF t = App THEN "idle" ELSE "none"]
  /\ ops = 0
  /\ link = "DISCONNECTED"
  /\ closing = FALSE
  /\ reconnecting = FALSE
  /\ stateLock = NoThread
  /\ sendLock = NoThread
  /\ conn = 0
  /\ sock = NoConn
  /\ held = [t \in Readers \cup Heartbeats |-> NoConn]
  /\ shut = {}
  /\ gone = {}
  /\ pongs = [c \in Conns |-> {}]
  /\ heard = [c \in Conns |-> "nothing"]
  /\ missed = 0
  /\ current = NoConn
  /\ generation = 0
  /\ history = {}
  /\ sstate = [c \in Conns |-> "none"]
  /\ outlived = FALSE

GoTo(t, label) == pc' = [pc EXCEPT ![t] = label]

\* The local `sock` goes out of scope.
Forget(t) == held' = [held EXCEPT ![t] = NoConn]

-----------------------------------------------------------------------------
(* SessionManager.  Its methods take no lock, and the threads interleave    *)
(* between the steps of open() and close().                                *)

\* _retire(): the current session, if any, is closed and listed; it is still
\* the current one.
SessionRetire ==
  /\ sstate' = [s \in Conns |-> IF s = current THEN "CLOSED" ELSE sstate[s]]
  /\ history' = history \cup ({current} \ {NoConn})
  /\ UNCHANGED <<current, generation, outlived>>

\* The rest of open().
SessionReplace(c) ==
  /\ sstate' = [sstate EXCEPT ![c] = "RUNNING"]
  /\ generation' = generation + 1
  /\ current' = c
  /\ UNCHANGED <<history, outlived>>

\* The rest of close().
SessionForget ==
  /\ current' = NoConn
  /\ UNCHANGED <<generation, history, sstate, outlived>>

\* degrade(): a lost link leaves its session current, marked DEGRADED.
SessionDegrade ==
  /\ sstate' = [s \in Conns |-> IF s = current THEN "DEGRADED" ELSE sstate[s]]
  /\ UNCHANGED <<current, generation, history, outlived>>

\* _close_socket(): forget the socket and shut it down; what it had received
\* is lost.
CloseSocket ==
  /\ shut' = shut \cup ({sock} \ {NoConn})
  /\ sock' = NoConn
  /\ pongs' = [c \in Conns |-> IF c = sock THEN {} ELSE pongs[c]]
  /\ UNCHANGED conn

-----------------------------------------------------------------------------
(* _on_link_lost(), run by whichever thread noticed.                       *)

\* Where the caller of _on_link_lost() goes on.  A failed _send() releases
\* _send_lock and raises: the heartbeat goes back to sleep, connect() fails.
AfterLost(t) == IF t \in Connectors THEN "c_fail"
                ELSE IF t \in Readers THEN "done" ELSE "sleep"

LostReturns(t) ==
  sendLock' = IF sendLock = t THEN NoThread ELSE sendLock

\* Under _state_lock: nothing to do while close() runs, else mark the link.
LostLock(t) ==
  /\ pc[t] = "lost_lock"
  /\ stateLock \in {NoThread, t}
  /\ IF closing
       THEN GoTo(t, AfterLost(t)) /\ LostReturns(t) /\ UNCHANGED link
       ELSE GoTo(t, "lost_degrade") /\ link' = "DISCONNECTED" /\ UNCHANGED sendLock
  /\ UNCHANGED <<ops, closing, reconnecting, stateLock, sockVars, netVars, pingVars, sessVars>>

\* The lock is released; degrade() looks for a session, and ...
LostDegrade(t) ==
  /\ pc[t] = "lost_degrade"
  /\ GoTo(t, IF current = NoConn THEN "lost_name" ELSE "lost_mark")
  /\ UNCHANGED shared

\* ... marks the one that is current by now.
LostMark(t) ==
  /\ pc[t] = "lost_mark"
  /\ current # NoConn
  /\ SessionDegrade
  /\ GoTo(t, "lost_name")
  /\ UNCHANGED <<ops, linkVars, locks, sockVars, netVars, pingVars>>

\* Its session_id goes into the error: again a session is looked for, and ...
LostName(t) ==
  /\ pc[t] = "lost_name"
  /\ GoTo(t, IF current = NoConn THEN "lost_check" ELSE "lost_read")
  /\ UNCHANGED shared

\* ... the one that is current by now is read.
LostReads(t) ==
  /\ pc[t] = "lost_read"
  /\ current # NoConn
  /\ GoTo(t, "lost_check")
  /\ UNCHANGED shared

\* close() has taken the session away since: the AttributeError ends a reader
\* or a heartbeat, and makes connect() fail.
LostRaises(t) ==
  /\ pc[t] \in {"lost_mark", "lost_read"}
  /\ current = NoConn
  /\ GoTo(t, IF t \in Connectors THEN "c_fail" ELSE "done")
  /\ LostReturns(t)
  /\ UNCHANGED <<ops, linkVars, stateLock, sockVars, netVars, pingVars, sessVars>>

\* `if self._auto_reconnect and not self._reconnecting`
LostCheck(t) ==
  /\ pc[t] = "lost_check"
  /\ IF AutoReconnect /\ ~reconnecting
       THEN GoTo(t, "lost_spawn") /\ UNCHANGED sendLock
       ELSE GoTo(t, AfterLost(t)) /\ LostReturns(t)
  /\ UNCHANGED <<ops, linkVars, stateLock, sockVars, netVars, pingVars, sessVars>>

LostSpawn(t) ==
  /\ pc[t] = "lost_spawn"
  /\ reconnecting' = TRUE
  /\ GoTo(t, "lost_start")
  /\ UNCHANGED <<ops, link, closing, locks, sockVars, netVars, pingVars, sessVars>>

LostStart(t) ==
  /\ pc[t] = "lost_start"
  /\ \E l \in Loops :
       /\ pc[l] = "none"
       /\ pc' = [pc EXCEPT ![t] = AfterLost(t), ![l] = "top"]
  /\ LostReturns(t)
  /\ UNCHANGED <<ops, linkVars, stateLock, sockVars, netVars, pingVars, sessVars>>

LinkLostStep(t) ==
  \/ LostLock(t) \/ LostDegrade(t) \/ LostMark(t) \/ LostName(t) \/ LostReads(t) \/ LostRaises(t)
  \/ LostCheck(t) \/ LostSpawn(t) \/ LostStart(t)

-----------------------------------------------------------------------------
(* connect(), run by the application and by the reconnect threads.         *)

\* connect() that retries on its own, whoever called it.
AfterRefusalRetries(t) == "top"

\* Where the caller of connect() goes on after an exception.
AfterRefusal(t) == IF t = App THEN "idle" ELSE "top"

\* connect() without _state_lock.
ConnLockFree(t) ==
  /\ pc[t] = "c_lock"
  /\ closing' = FALSE
  /\ GoTo(t, "c_open")
  /\ UNCHANGED <<ops, link, reconnecting, locks, sockVars, netVars, pingVars, sessVars>>

ConnLock(t) ==
  /\ pc[t] = "c_lock"
  /\ stateLock = NoThread
  /\ stateLock' = t
  /\ closing' = FALSE
  /\ GoTo(t, "c_open")
  /\ UNCHANGED <<ops, link, reconnecting, sendLock, sockVars, netVars, pingVars, sessVars>>

\* transport.connect() raises: connect() leaves without touching _sock.
ConnRefused(t) ==
  /\ pc[t] = "c_open"
  /\ stateLock' = NoThread
  /\ GoTo(t, AfterRefusal(t))
  /\ UNCHANGED <<ops, linkVars, sendLock, sockVars, netVars, pingVars, sessVars>>

\* _open_socket(): the previous socket, if any, is dropped without closing it.
ConnOpen(t) ==
  /\ pc[t] = "c_open"
  /\ conn < MaxConn
  /\ conn' = conn + 1
  /\ sock' = conn + 1
  /\ GoTo(t, "c_hello")
  /\ UNCHANGED <<ops, linkVars, locks, shut, netVars, pingVars, sessVars>>

\* _send() reads _sock.  Where another thread has taken the socket away,
\* E_NOT_READY.
HelloReads(t) ==
  /\ pc[t] = "c_hello"
  /\ GoTo(t, IF sock = NoConn THEN "c_fail" ELSE "c_send")
  /\ UNCHANGED shared

Hello(t) ==
  /\ pc[t] = "c_send"
  /\ conn \notin shut
  /\ sendLock = NoThread
  /\ GoTo(t, "c_await")
  /\ UNCHANGED shared

\* The send fails: _on_link_lost() runs with both locks held.
HelloFails(t) ==
  /\ pc[t] = "c_send"
  /\ conn \in shut \cup gone
  /\ sendLock = NoThread
  /\ sendLock' = t
  /\ GoTo(t, "lost_lock")
  /\ UNCHANGED <<ops, linkVars, stateLock, sockVars, netVars, pingVars, sessVars>>

\* HELLO_ACK and READY arrived, with one version and one session_id.
HandshakeDone(t) ==
  /\ pc[t] = "c_await"
  /\ sock # NoConn
  /\ GoTo(t, "c_session")
  /\ UNCHANGED shared

\* Timeout, closed socket, wrong message, wrong version or wrong session_id.
HandshakeFails(t) ==
  /\ pc[t] = "c_await"
  /\ GoTo(t, "c_fail")
  /\ UNCHANGED shared

\* open() looks for an old session, and ...
FindOld(t) ==
  /\ pc[t] = "c_session"
  /\ GoTo(t, IF current = NoConn THEN "c_current" ELSE "c_retire")
  /\ UNCHANGED shared

\* ... retires what is current by now.
RetireOld(t) ==
  /\ pc[t] = "c_retire"
  /\ current # NoConn
  /\ SessionRetire
  /\ GoTo(t, "c_current")
  /\ UNCHANGED <<ops, linkVars, locks, sockVars, netVars, pingVars>>

\* close() has taken the session away since: AttributeError.
RetireRaises(t) ==
  /\ pc[t] = "c_retire"
  /\ current = NoConn
  /\ GoTo(t, "c_fail")
  /\ UNCHANGED shared

\* A reconnect that resumes the session the client had before.
OpenSessionResumes(t) ==
  /\ pc[t] = "c_current"
  /\ IF history = {}
       THEN SessionReplace(conn)
       ELSE /\ current' \in history
            /\ UNCHANGED <<generation, history, sstate, outlived>>
  /\ GoTo(t, "c_up")
  /\ UNCHANGED <<ops, linkVars, locks, sockVars, netVars, pingVars>>

OpenSession(t) ==
  /\ pc[t] = "c_current"
  /\ SessionReplace(conn)
  /\ GoTo(t, "c_up")
  /\ UNCHANGED <<ops, linkVars, locks, sockVars, netVars, pingVars>>

\* The link is up and _start_threads() has run when the lock is released.
LinkUp(t) ==
  /\ pc[t] = "c_up"
  /\ link' = "CONNECTED"
  /\ heard' = [c \in Conns |-> IF pc[Heartbeat(c)] = "wait" /\ heard[c] = "nothing"
                               THEN "late" ELSE heard[c]]
  /\ missed' = 0
  /\ stateLock' = NoThread
  /\ pc' = [pc EXCEPT ![t] = IF t = App THEN "idle" ELSE "exit",
                      ![Reader(conn)] = "top",
                      ![Heartbeat(conn)] = "sleep"]
  /\ UNCHANGED <<ops, closing, reconnecting, sendLock, sockVars, netVars, sessVars>>

ConnFail(t) ==
  /\ pc[t] = "c_fail"
  /\ CloseSocket
  /\ stateLock' = NoThread
  /\ GoTo(t, AfterRefusal(t))
  /\ UNCHANGED <<ops, linkVars, sendLock, held, gone, pingVars, sessVars>>

ConnectStep(t) ==
  \/ ConnLock(t) \/ ConnRefused(t) \/ ConnOpen(t)
  \/ HelloReads(t) \/ Hello(t) \/ HelloFails(t)
  \/ HandshakeDone(t) \/ HandshakeFails(t)
  \/ FindOld(t) \/ RetireOld(t) \/ RetireRaises(t) \/ OpenSession(t) \/ LinkUp(t) \/ ConnFail(t)

-----------------------------------------------------------------------------
(* _reconnect_loop()                                                       *)

\* close() interrupts the backoff sleep.
LoopStops(l) ==
  /\ pc[l] = "top"
  /\ closing
  /\ GoTo(l, "exit")
  /\ UNCHANGED shared

\* The backoff is over: the socket is closed, whoever opened it.
LoopRetries(l) ==
  /\ pc[l] = "top"
  /\ ~closing
  /\ CloseSocket
  /\ GoTo(l, "c_lock")
  /\ UNCHANGED <<ops, linkVars, locks, held, gone, pingVars, sessVars>>

\* A reconnect loop without its `finally`.
LoopExitsSilently(l) ==
  /\ pc[l] = "exit"
  /\ GoTo(l, "none")
  /\ UNCHANGED shared

\* finally: _reconnecting = False
LoopExits(l) ==
  /\ pc[l] = "exit"
  /\ reconnecting' = FALSE
  /\ GoTo(l, "none")
  /\ UNCHANGED <<ops, link, closing, locks, sockVars, netVars, pingVars, sessVars>>

LoopStep(l) == LoopStops(l) \/ LoopRetries(l) \/ LoopExits(l)

-----------------------------------------------------------------------------
(* _reader_loop() and the PONG branch of _dispatch()                       *)

ReadTop(c) ==
  /\ pc[Reader(c)] = "top"
  /\ IF closing
       THEN GoTo(Reader(c), "done") /\ UNCHANGED held
       ELSE /\ held' = [held EXCEPT ![Reader(c)] = sock]
            /\ GoTo(Reader(c), IF sock = NoConn THEN "lost_lock" ELSE "recv")
  /\ UNCHANGED <<ops, linkVars, locks, sockVars, gone, pongs, pingVars, sessVars>>

\* recv() times out, or returns a message that leaves this state alone.
ReadOther(c) ==
  /\ pc[Reader(c)] = "recv"
  /\ held[Reader(c)] \notin shut \cup gone
  /\ GoTo(Reader(c), "top")
  /\ Forget(Reader(c))
  /\ UNCHANGED <<ops, linkVars, locks, sockVars, gone, pongs, pingVars, sessVars>>

\* recv() returns b"" or fails.
ReadEnd(c) ==
  /\ pc[Reader(c)] = "recv"
  /\ \/ held[Reader(c)] \in shut
     \/ held[Reader(c)] \in gone /\ pongs[held[Reader(c)]] = {}
  /\ GoTo(Reader(c), "lost_lock")
  /\ Forget(Reader(c))
  /\ UNCHANGED <<ops, linkVars, locks, sockVars, gone, pongs, pingVars, sessVars>>

\* The decoder rejects the bytes: the loop does not catch ProtocolError, the
\* thread ends and nothing else changes.
ReadMalformed(c) ==
  /\ pc[Reader(c)] = "recv"
  /\ held[Reader(c)] \notin shut
  /\ GoTo(Reader(c), "done")
  /\ Forget(Reader(c))
  /\ UNCHANGED <<ops, linkVars, locks, sockVars, gone, pongs, pingVars, sessVars>>

\* The threads that wait for an answer learn that _last_pong moved.
Tell(news) ==
  heard' = [c \in Conns |-> IF pc[Heartbeat(c)] = "wait" THEN news ELSE "nothing"]

\* PONGs of one socket arrive in order, so an older one comes first.  touch()
\* finds a session to touch, or none ...
ReadPong(c) ==
  LET s == held[Reader(c)] IN
  /\ pc[Reader(c)] = "recv"
  /\ s \notin shut
  /\ \E p \in pongs[s] :
       /\ p = "new" => "old" \notin pongs[s]
       /\ pongs' = [pongs EXCEPT ![s] = @ \ {p}]
       /\ Tell(IF p = "new" THEN "answer" ELSE "late")
  /\ missed' = 0
  /\ GoTo(Reader(c), IF current = NoConn THEN "pong" ELSE "touch")
  /\ Forget(Reader(c))
  /\ UNCHANGED <<ops, linkVars, locks, sockVars, gone, sessVars>>

\* ... and reads it again: one that close() has taken away by now is an
\* AttributeError, which ends the thread.
PongTouch(c) ==
  /\ pc[Reader(c)] = "touch"
  /\ GoTo(Reader(c), IF current = NoConn THEN "done" ELSE "pong")
  /\ UNCHANGED shared

\* `if self._link is LinkState.DEGRADED`, read without the lock ...
PongCheck(c) ==
  /\ pc[Reader(c)] = "pong"
  /\ GoTo(Reader(c), IF link = "DEGRADED" THEN "pong_up" ELSE "top")
  /\ UNCHANGED shared

\* ... and _set_link(CONNECTED), written without it.
PongUp(c) ==
  /\ pc[Reader(c)] = "pong_up"
  /\ link' = "CONNECTED"
  /\ GoTo(Reader(c), "top")
  /\ UNCHANGED <<ops, closing, reconnecting, locks, sockVars, netVars, pingVars, sessVars>>

ReaderStep(c) ==
  \/ ReadTop(c) \/ ReadOther(c) \/ ReadEnd(c) \/ ReadMalformed(c)
  \/ ReadPong(c) \/ PongTouch(c) \/ PongCheck(c) \/ PongUp(c)

-----------------------------------------------------------------------------
(* _heartbeat_loop()                                                       *)

\* A new PING makes every PONG under way an answer to an older one, and takes
\* the answer away from the threads that waited for the older one.
Superseded == [c \in Conns |-> IF pongs[c] = {} THEN {} ELSE {"old"}]
Overtaken  == [c \in Conns |-> IF heard[c] = "answer" THEN "late" ELSE heard[c]]

\* A heartbeat thread that looks at the link only.
BeatWakesAnyway(c) ==
  /\ pc[Heartbeat(c)] = "sleep"
  /\ connected
  /\ held' = [held EXCEPT ![Heartbeat(c)] = sock]
  /\ GoTo(Heartbeat(c), "ping")
  /\ UNCHANGED <<ops, linkVars, locks, sockVars, gone, pongs, pingVars, sessVars>>

\* The bounds on the heartbeats that wake up.
Awakes(c) ==
  \/ c \in Beating
  \/ c \in Standby /\ \A d \in Beating : pc[Heartbeat(d)] \in {"none", "done"}

\* After the interval: leave, or go on if the link is up (a DISCONNECTED
\* link only makes the thread sleep again).
BeatWakes(c) ==
  /\ pc[Heartbeat(c)] = "sleep"
  /\ \/ closing /\ GoTo(Heartbeat(c), "done") /\ UNCHANGED held
     \/ /\ ~closing /\ connected /\ Awakes(c)
        /\ held' = [held EXCEPT ![Heartbeat(c)] = sock]
        /\ GoTo(Heartbeat(c), "ping")
  /\ UNCHANGED <<ops, linkVars, locks, sockVars, gone, pongs, pingVars, sessVars>>

\* _ping_seq += 1 and a send that succeeds; a live peer may answer it.
BeatPings(c) ==
  LET s == held[Heartbeat(c)] IN
  /\ pc[Heartbeat(c)] = "ping"
  /\ s # NoConn /\ s \notin shut
  /\ sendLock = NoThread
  /\ heard' = Overtaken
  /\ pongs' = IF s \in gone \/ s \notin Answering THEN Superseded
              ELSE [Superseded EXCEPT ![s] = @ \cup {"new"}]
  /\ GoTo(Heartbeat(c), "wait")
  /\ Forget(Heartbeat(c))
  /\ UNCHANGED <<ops, linkVars, locks, sockVars, gone, missed, sessVars>>

\* The send fails: _on_link_lost() runs inside `with self._send_lock`.
BeatSendFails(c) ==
  /\ pc[Heartbeat(c)] = "ping"
  /\ held[Heartbeat(c)] \in shut \cup gone
  /\ sendLock = NoThread
  /\ sendLock' = Heartbeat(c)
  /\ heard' = Overtaken
  /\ pongs' = Superseded
  /\ GoTo(Heartbeat(c), "lost_lock")
  /\ Forget(Heartbeat(c))
  /\ UNCHANGED <<ops, linkVars, stateLock, sockVars, gone, missed, sessVars>>

\* _send() found no socket: E_NOT_READY, swallowed by `continue`.
BeatNoSocket(c) ==
  /\ pc[Heartbeat(c)] = "ping"
  /\ held[Heartbeat(c)] = NoConn
  /\ heard' = Overtaken
  /\ pongs' = Superseded
  /\ GoTo(Heartbeat(c), "sleep")
  /\ UNCHANGED <<ops, linkVars, locks, sockVars, held, gone, missed, sessVars>>

\* An interval later the answer is there, or ...
BeatAnswered(c) ==
  /\ pc[Heartbeat(c)] = "wait"
  /\ heard[c] = "answer"
  /\ missed' = 0
  /\ heard' = [heard EXCEPT ![c] = "nothing"]
  /\ GoTo(Heartbeat(c), "sleep")
  /\ UNCHANGED <<ops, linkVars, locks, sockVars, netVars, sessVars>>

\* ... the last PONG is not older than _heartbeat_timeout yet, or ...
BeatPatient(c) ==
  /\ pc[Heartbeat(c)] = "wait"
  /\ heard[c] # "answer"
  /\ heard' = [heard EXCEPT ![c] = "nothing"]
  /\ GoTo(Heartbeat(c), "sleep")
  /\ UNCHANGED <<ops, linkVars, locks, sockVars, netVars, missed, sessVars>>

\* ... a timeout is counted.
BeatTimesOut(c) ==
  /\ pc[Heartbeat(c)] = "wait"
  /\ heard[c] = "nothing"
  /\ missed' = IF missed < 2 THEN missed + 1 ELSE 2
  /\ GoTo(Heartbeat(c), "judge")
  /\ UNCHANGED <<ops, linkVars, locks, sockVars, netVars, heard, sessVars>>

\* A heartbeat that goes no further than DEGRADED.
BeatJudgesMildly(c) ==
  /\ pc[Heartbeat(c)] = "judge"
  /\ link' = "DEGRADED"
  /\ GoTo(Heartbeat(c), "sleep")
  /\ UNCHANGED <<ops, closing, reconnecting, locks, sockVars, netVars, pingVars,
                 sessVars>>

\* `if self._missed == 1`: the shared counter is read again.
BeatJudges(c) ==
  /\ pc[Heartbeat(c)] = "judge"
  /\ IF missed = 1
       THEN link' = "DEGRADED" /\ GoTo(Heartbeat(c), "sleep")
       ELSE GoTo(Heartbeat(c), "lost_lock") /\ UNCHANGED link
  /\ UNCHANGED <<ops, closing, reconnecting, locks, sockVars, netVars, pingVars, sessVars>>

HeartbeatStep(c) ==
  \/ BeatWakes(c) \/ BeatPings(c) \/ BeatSendFails(c) \/ BeatNoSocket(c)
  \/ BeatAnswered(c) \/ BeatPatient(c) \/ BeatTimesOut(c) \/ BeatJudges(c)

-----------------------------------------------------------------------------
(* The application                                                         *)

AppConnect ==
  /\ pc[App] = "idle"
  /\ ops < MaxOps
  /\ ops' = ops + 1
  /\ GoTo(App, "c_lock")
  /\ UNCHANGED <<linkVars, locks, sockVars, netVars, pingVars, sessVars>>

\* close() takes no lock.
AppClose ==
  /\ pc[App] = "idle"
  /\ ops < MaxOps
  /\ ops' = ops + 1
  /\ closing' = TRUE
  /\ GoTo(App, "x_sock")
  /\ UNCHANGED <<link, reconnecting, locks, sockVars, netVars, pingVars, sessVars>>

\* close() that leaves the socket to the garbage collector.
CloseKeepsSocket ==
  /\ pc[App] = "x_sock"
  /\ GoTo(App, "x_join")
  /\ UNCHANGED shared

CloseDropsSocket ==
  /\ pc[App] = "x_sock"
  /\ CloseSocket
  /\ GoTo(App, "x_join")
  /\ UNCHANGED <<ops, linkVars, locks, held, gone, pingVars, sessVars>>

\* A thread that can stay where it is for more than the two seconds join()
\* grants it: asleep, in a timeout of its own, or waiting for a lock.
MayBlock(t) ==
  \/ pc[t] \in {"sleep", "c_open", "c_await"}
  \/ pc[t] \in {"lost_lock", "c_lock"} /\ stateLock \notin {NoThread, t}
  \/ pc[t] \in {"ping", "c_send"} /\ sendLock \notin {NoThread, t}

\* join(timeout=2.0) returns when the thread has ended or two seconds later,
\* whatever it is doing then.  Two seconds are enough for a thread that can
\* run, unless the machine is busy: `outlived` keeps that.
CloseJoins ==
  /\ pc[App] = "x_join"
  /\ outlived' = (outlived \/ \E t \in Threads \ {App} :
                                pc[t] \notin {"none", "done"} /\ ~MayBlock(t))
  /\ GoTo(App, "x_session")
  /\ UNCHANGED <<ops, linkVars, locks, sockVars, netVars, pingVars, current, generation, history,
                 sstate>>

CloseRetires ==
  /\ pc[App] = "x_session"
  /\ SessionRetire
  /\ GoTo(App, IF current = NoConn THEN "x_link" ELSE "x_forget")
  /\ UNCHANGED <<ops, linkVars, locks, sockVars, netVars, pingVars>>

CloseForgets ==
  /\ pc[App] = "x_forget"
  /\ SessionForget
  /\ GoTo(App, "x_link")
  /\ UNCHANGED <<ops, linkVars, locks, sockVars, netVars, pingVars>>

CloseSetsLink ==
  /\ pc[App] = "x_link"
  /\ link' = "DISCONNECTED"
  /\ GoTo(App, "idle")
  /\ UNCHANGED <<ops, closing, reconnecting, locks, sockVars, netVars, pingVars, sessVars>>

CloseStep ==
  \/ CloseDropsSocket \/ CloseJoins \/ CloseRetires \/ CloseForgets \/ CloseSetsLink

-----------------------------------------------------------------------------
(* The peer                                                                *)

\* The runtime goes away; PONGs it had not sent yet are lost.
PeerCloses(c) ==
  /\ c \in 1 .. conn
  /\ c \notin gone \cup shut
  /\ gone' = gone \cup {c}
  /\ \E sent \in SUBSET pongs[c] : pongs' = [pongs EXCEPT ![c] = sent]
  /\ UNCHANGED <<pc, ops, linkVars, locks, sockVars, held, pingVars, sessVars>>

-----------------------------------------------------------------------------
Next ==
  \/ \E t \in Threads : LinkLostStep(t)
  \/ \E t \in Connectors : ConnectStep(t)
  \/ \E l \in Loops : LoopStep(l)
  \/ \E c \in Conns : ReaderStep(c) \/ HeartbeatStep(c) \/ PeerCloses(c)
  \/ AppConnect \/ AppClose \/ CloseStep

Spec == Init /\ [][Next]_vars

\* A heartbeat that waits again and again does exceed _heartbeat_timeout,
\* unless PONGs keep moving _last_pong.
Patience ==
  \/ \A c \in Conns : SF_vars(BeatTimesOut(c))
  \/ []<><<\E c \in Conns : ReadPong(c)>>_vars

\* The operating system runs every thread that can run; sleeps, receives and
\* handshakes all have a timeout.  Nothing makes the application call or the
\* peer answer.
Fairness ==
  /\ \A c \in Conns : /\ WF_vars(ReaderStep(c) \/ LinkLostStep(Reader(c)))
                      /\ WF_vars(HeartbeatStep(c) \/ LinkLostStep(Heartbeat(c)))
  /\ \A l \in Loops : WF_vars(LoopStep(l) \/ ConnectStep(l) \/ LinkLostStep(l))
  /\ WF_vars(CloseStep \/ ConnectStep(App) \/ LinkLostStep(App))
  /\ Patience

FairSpec == Spec /\ Fairness

-----------------------------------------------------------------------------
(* What the client keeps                                                   *)

\* _reconnecting is the only thing that keeps a lost link from starting a
\* reconnect thread, so it must never be left on by threads that are gone:
\* while it is set, some reconnect thread is about to start or has not reached
\* its `finally` yet.
ReconnectFlagHasLoop ==
  reconnecting => \/ \E l \in Loops : pc[l] # "none"
                  \/ \E t \in Threads : pc[t] = "lost_start"

\* "A reconnect does not restore the old session": whatever connect(), close()
\* and the threads that lose links do in whatever order, a retired session
\* stays in the history, and what becomes current is newer than every session
\* the client ever had.
SessionsNeverRestored ==
  [][/\ history \subseteq history'
     /\ current' \notin {current, NoConn} =>
          \A c \in Conns : sstate[c] # "none" => c < current']_vars

\* connect() is called by the application and by reconnect threads at once:
\* the connection a handshake runs on has no session yet, so the session_id
\* it opens is the one this handshake was given.
FreshHandshake ==
  \A t \in Connectors :
    pc[t] \in {"c_hello", "c_send", "c_await", "c_session", "c_retire", "c_current"}
      => sstate[conn] = "none"

\* A closed client is down and stays down: after close() has returned, and
\* until the next connect(), there is no socket and no session, and no thread
\* that is still alive marks the link as up, unless join() gave up on one that
\* could run.  (Only true without reconnect threads: ConnLock sets closing to
\* FALSE for them as well.)
CloseReleases ==
  closing /\ pc[App] = "idle" => /\ sock = NoConn /\ current = NoConn
                                 /\ connected => outlived

\* Two threads wait for each other for ever: one has _send_lock, as its send
\* failed, and wants _state_lock; connect() has _state_lock and wants to send
\* HELLO.  (PendingCalls!CallsAlwaysReturn finds it.)
Crossed ==
  \E t \in Threads, u \in Connectors :
    /\ sendLock = t /\ pc[t] = "lost_lock"
    /\ stateLock = u /\ pc[u] = "c_send"
    /\ t # u

\* The peer goes away and the client notices, by its reader or, when that has
\* died on a malformed frame, by two heartbeat timeouts; unless two threads
\* have stopped each other.
LossIsDetected ==
  \A c \in Conns :
    (sock = c /\ c \in gone /\ connected) ~> (~connected \/ sock # c \/ Crossed)

\* close() ends every thread unless the application connects again.
CloseStopsThreads ==
  closing ~> \/ ~closing
             \/ \A t \in Readers \cup Heartbeats \cup Loops : pc[t] \in {"none", "done"}

=============================================================================
