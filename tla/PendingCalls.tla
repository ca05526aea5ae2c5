---------------------------- MODULE PendingCalls ----------------------------
(***************************************************************************)
(* Calls in flight: BridgeClient.call(), the table _pending it registers   *)
(* its slot in, and everybody who touches that slot: the reader that       *)
(* resolves it, the threads that find the link lost and fail all slots,    *)
(* close(), the reconnect that replaces socket and session meanwhile, and  *)
(* the server that answers (client.py, ai_analyzer/mock/server.py and      *)
(* native/src/ipc/ipc_server.cpp).                                         *)
(*                                                                         *)
(* None of the code here takes a lock on _pending.  Two locks matter to a   *)
(* call all the same: _send_lock, under which it sends, and _state_lock,   *)
(* which connect() keeps from its first line to its last and which a       *)
(* thread that has lost the link takes, maybe with _send_lock in its hand. *)
(* The rest of the link is reduced to what calls see of it; BridgeClient   *)
(* models it in full.                                                      *)
(***************************************************************************)
EXTENDS Naturals, FiniteSets

CONSTANTS
  Calls,          \* bound: the calls made, each by a thread of its own
  Watchers,       \* bound: readers and heartbeats that find the link lost, once each
  Loop,           \* the reconnect thread, one at a time
  Closer,         \* the thread that calls close()
  Nobody,         \* no thread
  MaxConn,        \* bound: connections
  ChecksSession   \* whether the server compares session_id with its own

Losers  == Calls \cup Watchers \cup {Loop}      \* threads that run _on_link_lost()
Threads == Losers \cup {Closer}

ASSUME PendingCallsAssumption ==
  /\ MaxConn \in Nat \ {0}
  /\ ChecksSession \in BOOLEAN
  /\ Calls \cap Watchers = {} /\ Loop \notin Calls \cup Watchers
  /\ Closer \notin Losers /\ Nobody \notin Threads

\* Connections, with the session each of them opens.
Conns  == 1 .. MaxConn
NoConn == 0

VARIABLES
  pc,        \* where each thread is
  link,      \* is _link CONNECTED or DEGRADED
  closing,   \* _closing
  conn,      \* connections opened so far
  sock,      \* _sock
  session,   \* SessionManager._current
  closed,    \* sessions whose state is CLOSED
  shut,      \* connections closed on this side
  gone,      \* connections closed by the peer
  stateLock, \* owner of _state_lock (an RLock), kept only by connect()
  sendLock,  \* owner of _send_lock, kept only while a failed send cleans up
  pending,   \* the slots in _pending
  error,     \* slots whose `error` is set
  response,  \* the connection a slot's `response` came from
  event,     \* slots whose event is set
  sess,      \* the session_id in a call's request
  target,    \* the local `sock` in _send()
  todo,      \* the slots a thread that fails all of them has left
  wire,      \* requests under way: [call, conn]
  answers,   \* answers under way: [call, conn, ok]
  popped,    \* the answer each reader is about to put into its slot
  filled,    \* readers that have put it there and not set the event yet
  outcome    \* how each call ended

locks    == <<stateLock, sendLock>>
linkVars == <<link, closing, conn, sock, session, closed, shut, gone>>
slotVars == <<pending, error, response, event>>
callVars == <<sess, target, outcome>>
netVars  == <<wire, answers, popped, filled>>
shared   == <<linkVars, locks, slotVars, callVars, todo, netVars>>
vars     == <<pc, shared>>

Outcomes   == {"none", "response", "error", "refused", "timeout", "raised"}
Failing    == {"lost", "degrade", "mark", "name", "read", "list", "fail", "clear"}
Connecting == {"c_lock", "c_open", "c_hello", "c_send", "c_await", "c_retire", "c_current",
               "c_up", "c_fail"}
Labels     == {"idle", "require", "live", "return", "register", "sock", "send", "raise", "wait",
               "touch", "take", "done", "x_sock", "x_session", "x_forget", "x_link", "start"}
                \cup Failing \cup Connecting
Answer   == [call : Calls, conn : Conns, ok : BOOLEAN]
NoAnswer == [call |-> Nobody, conn |-> NoConn, ok |-> FALSE]

PcOK   == pc \in [Threads -> Labels]
FlagOK == link \in BOOLEAN /\ closing \in BOOLEAN
ConnOK == /\ conn \in Conns /\ sock \in 0 .. conn /\ session \in 0 .. conn
          /\ closed \subseteq 1 .. conn /\ shut \subseteq 1 .. conn /\ gone \subseteq 1 .. conn
SlotOK == /\ pending \subseteq Calls /\ error \subseteq Calls /\ event \subseteq Calls
          /\ response \in [Calls -> 0 .. MaxConn]
CallOK == /\ sess \in [Calls -> 0 .. MaxConn] /\ target \in [Calls -> 0 .. MaxConn]
          /\ outcome \in [Calls -> Outcomes]
          /\ sendLock \in Losers \cup {Nobody} /\ stateLock \in {Loop, Nobody}
          /\ todo \in [Threads -> SUBSET Calls]
NetOK  == /\ wire \subseteq [call : Calls, conn : Conns]
          /\ answers \subseteq Answer
          /\ popped \in [Conns -> Answer \cup {NoAnswer}]
          /\ filled \subseteq {k \in Conns : popped[k] # NoAnswer}

TypeOK == PcOK /\ FlagOK /\ ConnOK /\ SlotOK /\ CallOK /\ NetOK

\* A client that has connected once.
Init ==
  /\ pc = [t \in Threads |-> "idle"]
  /\ link = TRUE
  /\ closing = FALSE
  /\ conn = 1 /\ sock = 1 /\ session = 1
  /\ closed = {} /\ shut = {} /\ gone = {}
  /\ stateLock = Nobody /\ sendLock = Nobody
  /\ pending = {} /\ error = {} /\ event = {}
  /\ response = [c \in Calls |-> NoConn]
  /\ sess = [c \in Calls |-> NoConn]
  /\ target = [c \in Calls |-> NoConn]
  /\ todo = [t \in Threads |-> {}]
  /\ wire = {} /\ answers = {}
  /\ popped = [k \in Conns |-> NoAnswer] /\ filled = {}
  /\ outcome = [c \in Calls |-> "none"]

GoTo(t, label) == pc' = [pc EXCEPT ![t] = label]
Ends(c, how)   == outcome' = [outcome EXCEPT ![c] = how]

\* _close_socket() without `if sock is not None`.
CloseSocketAnyway ==
  /\ shut' = shut \cup {sock}
  /\ sock' = NoConn

\* _close_socket()
CloseSocket ==
  /\ shut' = shut \cup ({sock} \ {NoConn})
  /\ sock' = NoConn

-----------------------------------------------------------------------------
(* call()                                                                  *)

\* The link is down: E_NOT_READY.
CallRefused(c) ==
  /\ pc[c] = "idle"
  /\ ~link
  /\ Ends(c, "refused")
  /\ GoTo(c, "done")
  /\ UNCHANGED <<linkVars, locks, slotVars, sess, target, todo, netVars>>

CallStarts(c) ==
  /\ pc[c] = "idle"
  /\ link
  /\ GoTo(c, "require")
  /\ UNCHANGED shared

\* _sessions.require() reads _current three times.  There is none ...
CallRequires(c) ==
  /\ pc[c] = "require"
  /\ IF session = NoConn
       THEN Ends(c, "refused") /\ GoTo(c, "done")
       ELSE GoTo(c, "live") /\ UNCHANGED outcome
  /\ UNCHANGED <<linkVars, locks, slotVars, sess, target, todo, netVars>>

\* ... or it is not live: E_NOT_READY.  One that close() has taken away by now
\* is an AttributeError ...
CallSeesLive(c) ==
  /\ pc[c] = "live"
  /\ IF session \in closed \cup {NoConn}
       THEN Ends(c, IF session = NoConn THEN "raised" ELSE "refused") /\ GoTo(c, "done")
       ELSE GoTo(c, "return") /\ UNCHANGED outcome
  /\ UNCHANGED <<linkVars, locks, slotVars, sess, target, todo, netVars>>

\* ... here as well, when call() asks what was returned for its session_id.
CallTakesSession(c) ==
  /\ pc[c] = "return"
  /\ IF session = NoConn
       THEN Ends(c, "raised") /\ GoTo(c, "done") /\ UNCHANGED sess
       ELSE sess' = [sess EXCEPT ![c] = session] /\ GoTo(c, "register") /\ UNCHANGED outcome
  /\ UNCHANGED <<linkVars, locks, slotVars, target, todo, netVars>>

Register(c) ==
  /\ pc[c] = "register"
  /\ pending' = pending \cup {c}
  /\ GoTo(c, "sock")
  /\ UNCHANGED <<linkVars, locks, error, response, event, callVars, todo, netVars>>

\* _send() reads _sock; without one it raises E_NOT_READY.
ReadSocket(c) ==
  /\ pc[c] = "sock"
  /\ target' = [target EXCEPT ![c] = sock]
  /\ IF sock = NoConn
       THEN Ends(c, "refused") /\ GoTo(c, "raise")
       ELSE GoTo(c, "send") /\ UNCHANGED outcome
  /\ UNCHANGED <<linkVars, locks, slotVars, sess, todo, netVars>>

\* The request leaves, maybe not on the connection of its session; one that the
\* peer closed still takes the bytes.
Send(c) ==
  /\ pc[c] = "send"
  /\ target[c] \notin shut
  /\ sendLock = Nobody
  /\ wire' = IF target[c] \in gone THEN wire
             ELSE wire \cup {[call |-> c, conn |-> target[c]]}
  /\ target' = [target EXCEPT ![c] = NoConn]
  /\ GoTo(c, "wait")
  /\ UNCHANGED <<linkVars, locks, slotVars, sess, outcome, todo, answers, popped, filled>>

\* The send fails: the caller itself runs _on_link_lost(), inside _send_lock.
SendFails(c) ==
  /\ pc[c] = "send"
  /\ target[c] \in shut \cup gone
  /\ sendLock = Nobody
  /\ sendLock' = c
  /\ target' = [target EXCEPT ![c] = NoConn]
  /\ GoTo(c, "lost")
  /\ UNCHANGED <<linkVars, stateLock, slotVars, sess, outcome, todo, netVars>>

\* call() that does not withdraw its slot.
WithdrawNothing(c) ==
  /\ pc[c] = "raise"
  /\ IF outcome[c] = "none" THEN Ends(c, "timeout") ELSE UNCHANGED outcome
  /\ GoTo(c, "done")
  /\ UNCHANGED <<linkVars, locks, slotVars, sess, target, todo, netVars>>

\* `except Exception`, or a wait that timed out: the slot is withdrawn.  A send
\* that failed ends in E_TIMEOUT.
Withdraw(c) ==
  /\ pc[c] = "raise"
  /\ pending' = pending \ {c}
  /\ IF outcome[c] = "none" THEN Ends(c, "timeout") ELSE UNCHANGED outcome
  /\ GoTo(c, "done")
  /\ UNCHANGED <<linkVars, locks, error, response, event, sess, target, todo, netVars>>

\* A wait that gives up only when the link is down.
WaitPatiently(c) ==
  /\ pc[c] = "wait"
  /\ c \notin event /\ ~link
  /\ Ends(c, "timeout")
  /\ GoTo(c, "raise")
  /\ UNCHANGED <<linkVars, locks, slotVars, sess, target, todo, netVars>>

WaitTimesOut(c) ==
  /\ pc[c] = "wait"
  /\ c \notin event
  /\ Ends(c, "timeout")
  /\ GoTo(c, "raise")
  /\ UNCHANGED <<linkVars, locks, slotVars, sess, target, todo, netVars>>

\* The event is set; touch() finds a session to touch, or none ...
WaitEnds(c) ==
  /\ pc[c] = "wait"
  /\ c \in event
  /\ GoTo(c, IF session = NoConn THEN "take" ELSE "touch")
  /\ UNCHANGED shared

\* ... and reads it again.
Touch(c) ==
  /\ pc[c] = "touch"
  /\ IF session = NoConn
       THEN Ends(c, "raised") /\ GoTo(c, "done")
       ELSE GoTo(c, "take") /\ UNCHANGED outcome
  /\ UNCHANGED <<linkVars, locks, slotVars, sess, target, todo, netVars>>

\* An error in the slot wins over a response.
Take(c) ==
  /\ pc[c] = "take"
  /\ Ends(c, IF c \in error THEN "error" ELSE "response")
  /\ GoTo(c, "done")
  /\ UNCHANGED <<linkVars, locks, slotVars, sess, target, todo, netVars>>

CallStep(c) ==
  \/ CallRefused(c) \/ CallStarts(c)
  \/ CallRequires(c) \/ CallSeesLive(c) \/ CallTakesSession(c) \/ Register(c)
  \/ ReadSocket(c) \/ Send(c) \/ SendFails(c) \/ Withdraw(c)
  \/ WaitTimesOut(c) \/ WaitEnds(c) \/ Touch(c) \/ Take(c)

-----------------------------------------------------------------------------
(* _on_link_lost(), _fail_all_pending() and close()                        *)

\* A reader or a heartbeat finds the link lost, ...
Notices(w) ==
  /\ pc[w] = "idle"
  /\ GoTo(w, "lost")
  /\ UNCHANGED shared

\* ... or the heartbeat does so because its PING cannot be sent.
PingFails(w) ==
  /\ pc[w] = "idle"
  /\ shut \cup gone # {}
  /\ sendLock = Nobody
  /\ sendLock' = w
  /\ GoTo(w, "lost")
  /\ UNCHANGED <<linkVars, stateLock, slotVars, callVars, todo, netVars>>

\* _on_link_lost() is over, and with it the `with self._send_lock` around it.
Leaves(t) == sendLock' = IF sendLock = t THEN Nobody ELSE sendLock

\* Where a thread goes on then.
AfterLost(t) == IF t \in Calls THEN "raise" ELSE IF t = Loop THEN "c_fail" ELSE "done"

\* Under _state_lock; in connect() the thread has it already.
LinkLost(t) ==
  /\ pc[t] = "lost"
  /\ stateLock \in {Nobody, t}
  /\ IF closing
       THEN GoTo(t, AfterLost(t)) /\ Leaves(t) /\ UNCHANGED link
       ELSE GoTo(t, "degrade") /\ link' = FALSE /\ UNCHANGED sendLock
  /\ UNCHANGED <<closing, conn, sock, session, closed, shut, gone, stateLock, slotVars, callVars,
                 todo, netVars>>

\* degrade() looks for a session, and ...
Degrade(t) ==
  /\ pc[t] = "degrade"
  /\ GoTo(t, IF session = NoConn THEN "name" ELSE "mark")
  /\ UNCHANGED shared

\* ... marks the one that is current by now DEGRADED, live again.
Mark(t) ==
  /\ pc[t] = "mark"
  /\ session # NoConn
  /\ closed' = closed \ {session}
  /\ GoTo(t, "name")
  /\ UNCHANGED <<link, closing, conn, sock, session, shut, gone, locks, slotVars, callVars, todo,
                 netVars>>

\* The session_id for the error: again a session is looked for, and ...
Name(t) ==
  /\ pc[t] = "name"
  /\ GoTo(t, IF session = NoConn THEN "list" ELSE "read")
  /\ UNCHANGED shared

\* ... the one that is current by now is read.
ReadName(t) ==
  /\ pc[t] = "read"
  /\ session # NoConn
  /\ GoTo(t, "list")
  /\ UNCHANGED shared

\* close() has taken the session away since: an AttributeError leaves
\* _on_link_lost() before any slot was failed or any reconnect started.
LostRaises(t) ==
  /\ pc[t] \in {"mark", "read"}
  /\ session = NoConn
  /\ GoTo(t, AfterLost(t))
  /\ Leaves(t)
  /\ outcome' = [c \in Calls |-> IF c = t THEN "raised" ELSE outcome[c]]
  /\ UNCHANGED <<linkVars, stateLock, slotVars, sess, target, todo, netVars>>

LostStep(t) == LinkLost(t) \/ Degrade(t) \/ Mark(t) \/ Name(t) \/ ReadName(t) \/ LostRaises(t)

\* list(self._pending.values())
ListPending(t) ==
  /\ pc[t] = "list"
  /\ todo' = [todo EXCEPT ![t] = pending]
  /\ GoTo(t, "fail")
  /\ UNCHANGED <<linkVars, locks, slotVars, callVars, netVars>>

\* slot.fail(): `error` first, then the event.
FailSlot(t) ==
  /\ pc[t] = "fail"
  /\ \E c \in todo[t] :
       /\ error' = error \cup {c}
       /\ event' = event \cup {c}
       /\ todo' = [todo EXCEPT ![t] = @ \ {c}]
  /\ UNCHANGED <<pc, linkVars, locks, pending, response, callVars, netVars>>

AllFailed(t) ==
  /\ pc[t] = "fail"
  /\ todo[t] = {}
  /\ GoTo(t, "clear")
  /\ UNCHANGED shared

\* _on_link_lost() ends by starting a reconnect thread, if there is none yet;
\* close() goes on with its session.
CleansUp(t) ==
  IF t = Closer
    THEN GoTo(t, "x_session") /\ UNCHANGED sendLock
    ELSE /\ pc' = [u \in Threads |-> IF u = t THEN AfterLost(t)
                                    ELSE IF u = Loop /\ pc[u] = "idle" THEN "start" ELSE pc[u]]
         /\ Leaves(t)

\* A clean-up that forgets the table.
ClearNothing(t) ==
  /\ pc[t] = "clear"
  /\ CleansUp(t)
  /\ UNCHANGED <<linkVars, stateLock, slotVars, callVars, todo, netVars>>

\* _pending.clear()
ClearPending(t) ==
  /\ pc[t] = "clear"
  /\ pending' = {}
  /\ CleansUp(t)
  /\ UNCHANGED <<linkVars, stateLock, error, response, event, callVars, todo, netVars>>

FailStep(t) == ListPending(t) \/ FailSlot(t) \/ AllFailed(t) \/ ClearPending(t)

CloseBegins ==
  /\ pc[Closer] = "idle"
  /\ closing' = TRUE
  /\ GoTo(Closer, "x_sock")
  /\ UNCHANGED <<link, conn, sock, session, closed, shut, gone, locks, slotVars, callVars, todo,
                 netVars>>

CloseDropsSocket ==
  /\ pc[Closer] = "x_sock"
  /\ CloseSocket
  /\ GoTo(Closer, "list")
  /\ UNCHANGED <<link, closing, conn, session, closed, gone, locks, slotVars, callVars, todo,
                 netVars>>

\* SessionManager.close(): the session is closed, then forgotten.
CloseRetires ==
  /\ pc[Closer] = "x_session"
  /\ closed' = closed \cup ({session} \ {NoConn})
  /\ GoTo(Closer, IF session = NoConn THEN "x_link" ELSE "x_forget")
  /\ UNCHANGED <<link, closing, conn, sock, session, shut, gone, locks, slotVars, callVars,
                 todo, netVars>>

CloseForgets ==
  /\ pc[Closer] = "x_forget"
  /\ session' = NoConn
  /\ GoTo(Closer, "x_link")
  /\ UNCHANGED <<link, closing, conn, sock, closed, shut, gone, locks, slotVars, callVars,
                 todo, netVars>>

CloseSetsLink ==
  /\ pc[Closer] = "x_link"
  /\ link' = FALSE
  /\ GoTo(Closer, "done")
  /\ UNCHANGED <<closing, conn, sock, session, closed, shut, gone, locks, slotVars, callVars,
                 todo, netVars>>

CloseStep ==
  CloseBegins \/ CloseDropsSocket \/ CloseRetires \/ CloseForgets \/ CloseSetsLink

-----------------------------------------------------------------------------
(* The reconnect thread, as far as calls see it                            *)

LoopStops ==
  /\ pc[Loop] = "start"
  /\ closing
  /\ GoTo(Loop, "idle")
  /\ UNCHANGED shared

LoopRetries ==
  /\ pc[Loop] = "start"
  /\ ~closing
  /\ CloseSocket
  /\ GoTo(Loop, "c_lock")
  /\ UNCHANGED <<link, closing, conn, session, closed, gone, locks, slotVars, callVars, todo,
                 netVars>>

\* connect() takes _state_lock for good and resets _closing.
ConnLock ==
  /\ pc[Loop] = "c_lock"
  /\ stateLock = Nobody
  /\ stateLock' = Loop
  /\ closing' = FALSE
  /\ GoTo(Loop, "c_open")
  /\ UNCHANGED <<link, conn, sock, session, closed, shut, gone, sendLock, slotVars, callVars, todo,
                 netVars>>

\* transport.connect() raises.
ConnRefused ==
  /\ pc[Loop] = "c_open"
  /\ stateLock' = Nobody
  /\ GoTo(Loop, "start")
  /\ UNCHANGED <<linkVars, sendLock, slotVars, callVars, todo, netVars>>

\* The new socket is everybody's from now on.
ConnOpen ==
  /\ pc[Loop] = "c_open"
  /\ conn < MaxConn
  /\ conn' = conn + 1
  /\ sock' = conn + 1
  /\ GoTo(Loop, "c_hello")
  /\ UNCHANGED <<link, closing, session, closed, shut, gone, locks, slotVars, callVars, todo,
                 netVars>>

\* HELLO: _send() reads _sock, which close() may have taken away.
HelloReads ==
  /\ pc[Loop] = "c_hello"
  /\ GoTo(Loop, IF sock = NoConn THEN "c_fail" ELSE "c_send")
  /\ UNCHANGED shared

\* It needs _send_lock, which a sender keeps while it waits for _state_lock.
Hello ==
  /\ pc[Loop] = "c_send"
  /\ conn \notin shut
  /\ sendLock = Nobody
  /\ GoTo(Loop, "c_await")
  /\ UNCHANGED shared

\* The send fails: _on_link_lost() runs with both locks held.
HelloFails ==
  /\ pc[Loop] = "c_send"
  /\ conn \in shut \cup gone
  /\ sendLock = Nobody
  /\ sendLock' = Loop
  /\ GoTo(Loop, "lost")
  /\ UNCHANGED <<linkVars, stateLock, slotVars, callVars, todo, netVars>>

\* HELLO_ACK and READY are there; open() looks for an old session to retire.
HandshakeDone ==
  /\ pc[Loop] = "c_await"
  /\ sock # NoConn
  /\ GoTo(Loop, IF session = NoConn THEN "c_current" ELSE "c_retire")
  /\ UNCHANGED shared

\* They are not, or they are wrong.
HandshakeFails ==
  /\ pc[Loop] = "c_await"
  /\ GoTo(Loop, "c_fail")
  /\ UNCHANGED shared

\* The old session is closed; when close() has taken it away since, that is an
\* AttributeError.
RetireOld ==
  /\ pc[Loop] = "c_retire"
  /\ closed' = closed \cup ({session} \ {NoConn})
  /\ GoTo(Loop, IF session = NoConn THEN "c_fail" ELSE "c_current")
  /\ UNCHANGED <<link, closing, conn, sock, session, shut, gone, locks, slotVars, callVars, todo,
                 netVars>>

OpenSession ==
  /\ pc[Loop] = "c_current"
  /\ session' = conn
  /\ GoTo(Loop, "c_up")
  /\ UNCHANGED <<link, closing, conn, sock, closed, shut, gone, locks, slotVars, callVars, todo,
                 netVars>>

LinkUp ==
  /\ pc[Loop] = "c_up"
  /\ link' = TRUE
  /\ stateLock' = Nobody
  /\ GoTo(Loop, "idle")
  /\ UNCHANGED <<closing, conn, sock, session, closed, shut, gone, sendLock, slotVars, callVars,
                 todo, netVars>>

ConnFail ==
  /\ pc[Loop] = "c_fail"
  /\ CloseSocket
  /\ stateLock' = Nobody
  /\ GoTo(Loop, "start")
  /\ UNCHANGED <<link, closing, conn, session, closed, gone, sendLock, slotVars, callVars, todo,
                 netVars>>

ReconnectStep ==
  \/ LoopStops \/ LoopRetries \/ ConnLock \/ ConnRefused \/ ConnOpen
  \/ HelloReads \/ Hello \/ HelloFails \/ HandshakeDone \/ HandshakeFails
  \/ RetireOld \/ OpenSession \/ LinkUp \/ ConnFail

-----------------------------------------------------------------------------
(* The server and the readers                                              *)

\* One side closes the connection; requests that were under way are lost.
PeerCloses(k) ==
  /\ k \in 1 .. conn
  /\ k \notin gone
  /\ gone' = gone \cup {k}
  /\ UNCHANGED <<pc, link, closing, conn, sock, session, closed, shut, locks, slotVars, callVars,
                 todo, netVars>>

\* The handshake on a connection is over.
Shaken(k) == k = conn => pc[Loop] \notin {"c_hello", "c_send", "c_await"}

\* A server that looks at the command only.
ServeAnything(k) ==
  /\ Shaken(k) /\ k \notin shut \cup gone
  /\ \E r \in wire :
       /\ r.conn = k
       /\ wire' = wire \ {r}
       /\ answers' = answers \cup {[call |-> r.call, conn |-> k, ok |-> TRUE]}
  /\ UNCHANGED <<pc, linkVars, locks, slotVars, callVars, todo, popped, filled>>

\* The server answers a request on its connection: E_SESSION_STALE if it checks
\* the session and the request carries another one.
Serve(k) ==
  /\ Shaken(k) /\ k \notin shut \cup gone
  /\ \E r \in wire :
       /\ r.conn = k
       /\ wire' = wire \ {r}
       /\ answers' = answers \cup
            {[call |-> r.call, conn |-> k, ok |-> ChecksSession => sess[r.call] = k]}
  /\ UNCHANGED <<pc, linkVars, locks, slotVars, callVars, todo, popped, filled>>

\* _dispatch(): the slot is popped; an answer without one is dropped.
PopSlot(k) ==
  /\ popped[k] = NoAnswer
  /\ \E a \in answers :
       /\ a.conn = k
       /\ answers' = answers \ {a}
       /\ pending' = pending \ {a.call}
       /\ popped' = IF a.call \in pending THEN [popped EXCEPT ![k] = a] ELSE popped
  /\ UNCHANGED <<pc, linkVars, locks, error, response, event, callVars, todo, wire, filled>>

\* A resolve() that wakes the caller and forgets the response.
FillSlotLater(k) ==
  /\ popped[k] # NoAnswer /\ k \notin filled
  /\ filled' = filled \cup {k}
  /\ UNCHANGED <<pc, linkVars, locks, slotVars, callVars, todo, wire, answers, popped>>

\* slot.resolve() or slot.fail(): the answer is there ...
FillSlot(k) ==
  /\ popped[k] # NoAnswer /\ k \notin filled
  /\ LET a == popped[k] IN
       IF a.ok THEN response' = [response EXCEPT ![a.call] = k] /\ UNCHANGED error
               ELSE error' = error \cup {a.call} /\ UNCHANGED response
  /\ filled' = filled \cup {k}
  /\ UNCHANGED <<pc, linkVars, locks, pending, event, callVars, todo, wire, answers,
                 popped>>

\* ... before the event is set.
SetEvent(k) ==
  /\ k \in filled
  /\ event' = event \cup {popped[k].call}
  /\ popped' = [popped EXCEPT ![k] = NoAnswer]
  /\ filled' = filled \ {k}
  /\ UNCHANGED <<pc, linkVars, locks, pending, error, response, callVars, todo, wire,
                 answers>>

ReaderStep(k) == PopSlot(k) \/ FillSlot(k) \/ SetEvent(k)

-----------------------------------------------------------------------------
Next ==
  \/ \E c \in Calls : CallStep(c)
  \/ \E w \in Watchers : Notices(w) \/ PingFails(w)
  \/ \E t \in Losers : LostStep(t)
  \/ \E t \in Threads : FailStep(t)
  \/ CloseStep
  \/ ReconnectStep
  \/ \E k \in Conns : PeerCloses(k) \/ Serve(k) \/ ReaderStep(k)

Spec == Init /\ [][Next]_vars

\* Threads that can run do run; waits, connection attempts and handshakes end
\* with their timeouts; and a thread that waits for _state_lock gets it at last,
\* since a reconnect sleeps between two attempts.  Nothing makes the peer
\* answer, the reader find the answer or the link come back.
FairSpec ==
  /\ Spec
  /\ \A c \in Calls : WF_vars(CallStep(c))
  /\ \A t \in Losers : SF_vars(LinkLost(t)) /\ WF_vars(LostStep(t))
  /\ \A t \in Threads : WF_vars(FailStep(t))
  /\ WF_vars(ReconnectStep)

-----------------------------------------------------------------------------
(* What call() keeps                                                       *)

\* `assert slot.response is not None`: a caller that is woken finds an answer
\* in its slot, whoever woke it.
WokenHasAnswer ==
  \A c \in Calls : pc[c] = "take" => c \in error \/ response[c] # NoConn

\* A call never returns data of a session other than the one it was made in,
\* although its request may leave on a connection that replaced its session's.
AnswerOfOwnSession ==
  \A c \in Calls : outcome[c] = "response" => response[c] = sess[c]

\* No slot outlives its call, except while somebody is failing all of them and
\* has not cleared the table yet.
NoSlotLeaks ==
  \A c \in Calls : pc[c] = "done" /\ c \in pending =>
    \E t \in Threads : pc[t] \in {"fail", "clear"}

\* The two locks taken crosswise: a sender that has lost the link waits for
\* _state_lock in _on_link_lost(), with _send_lock in its hand; connect(), with
\* _state_lock in its hand, waits for _send_lock to send HELLO.
Crossed ==
  /\ pc[Loop] = "c_send" /\ stateLock = Loop
  /\ \E t \in Losers : pc[t] = "lost" /\ sendLock = t

\* Every call returns, whoever pops, fails or forgets its slot and however the
\* link comes and goes, unless the two locks are taken crosswise.
CallsReturn == \A c \in Calls : pc[c] # "idle" ~> pc[c] = "done" \/ Crossed

\* The same of every call at all: each command has its timeout (client.py:349),
\* and a heartbeat in its own thread does not block it (client.py:10).
CallsAlwaysReturn == \A c \in Calls : pc[c] # "idle" ~> pc[c] = "done"

\* PendingCalls implements CallPromise: a call is bound once call() has its
\* session_id, ends where its outcome is decided, and the data is what Take
\* reads.
Promise == INSTANCE CallPromise WITH
  Sessions <- Conns, NoSession <- NoConn,
  bound <- sess, ending <- outcome,
  data <- [c \in Calls |-> IF outcome[c] = "response" THEN response[c] ELSE NoConn]

\* Whatever the link, the reader, the threads that fail slots, close() and the
\* reconnect do, and in whatever order, each call is bound to one session, ends
\* at most once and, if it ends with data, with data of that session.
KeepsPromise == Promise!Spec

=============================================================================
