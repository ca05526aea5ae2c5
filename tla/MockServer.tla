---------------------------- MODULE MockServer -----------------------------
(***************************************************************************)
(* MockRuntimeServer (ai_analyzer/mock/server.py) and the state of the     *)
(* simulated app behind it (mock/state.py): the accept thread, one thread  *)
(* per connection, and a test that starts and stops the server, drops its  *)
(* connections and emits events meanwhile.  self._lock protects the list   *)
(* of connections and nothing else: hooks and jobs are shared by all       *)
(* connections without a lock.                                             *)
(***************************************************************************)
EXTENDS Protocol, Sequences, FiniteSets, SequencesExt

CONSTANTS MaxConns,     \* bound: connections accepted
          MaxRequests,  \* bound: requests over all connections
          MaxStarts,    \* bound: start() and stop() of one server object
          MaxEvents     \* bound: calls of emit_event()

ASSUME BoundsAssumption == {MaxConns, MaxRequests, MaxStarts, MaxEvents} \subseteq Nat

Conns == 1..MaxConns
HookIds == 1..MaxRequests
Idle == [cmd |-> "none"]

VARIABLES
  ctl,       \* where the test is: outside, or between two steps of stop()
  starts, emits,   \* how often it has called start() and emit_event()
  closing,   \* self._closing
  srv,       \* the listening socket is open
  acc,       \* the accept thread: off, top, or holding a connection
  listed,    \* self._conns
  cpc,       \* where the thread of each connection is
  open,      \* the server's end of its socket
  alive, ready,    \* conn.alive, conn.ready
  out,       \* the first two messages sent on it
  op,        \* the command it is executing, with its locals
  asked,     \* how many requests have been read
  emitting,  \* the connections emit_event() has still to write to
  hooks,     \* state.hooks: hook_id -> who created it, and its status
  told,      \* the hook_ids each connection was given, in order
  jobs       \* state.jobs in order of creation: state and halves of progress;
             \* history: how often each connection has advanced it, up to twice

ctlVars == <<ctl, starts, emits, emitting>>
lifeVars == <<closing, srv, acc, listed>>
connVars == <<cpc, open, alive, ready, out, asked>>
dataVars == <<op, hooks, told, jobs>>
vars == <<ctlVars, lifeVars, connVars, dataVars>>

\* The messages of this server, which numbers its sessions like connections
V == PROTOCOL_VERSION
Event(c, event_type) == make_event(V, c, event_type, "runtime")
Done(c) == make_response(V, c, Value, "ok", "OK")
Raised(c, code) == make_error(V, c, Value, code)

JobStates == {"running", "completed", "cancelled"}

Init ==
  /\ ctl = "out" /\ starts = 0 /\ emits = 0 /\ emitting = {}
  /\ closing = FALSE /\ srv = FALSE /\ acc = "off" /\ listed = {}
  /\ cpc = [c \in Conns |-> "none"] /\ asked = 0
  /\ open = {} /\ alive = {} /\ ready = {}
  /\ out = [c \in Conns |-> <<>>]
  /\ op = [c \in Conns |-> Idle]
  /\ hooks = <<>> /\ told = [c \in Conns |-> <<>>] /\ jobs = <<>>

-----------------------------------------------------------------------------
(* The test: start(), stop(), drop_connections(), block_handshake(), emit  *)

Start ==
  /\ ctl = "out" /\ ~srv /\ acc = "off" /\ starts < MaxStarts
  /\ starts' = starts + 1
  /\ srv' = TRUE /\ closing' = FALSE /\ acc' = "top"
  /\ UNCHANGED <<ctl, emits, emitting, listed, connVars, dataVars>>

\* _Connection.close() of everything in the list, which is then emptied
CloseListed ==
  /\ alive' = alive \ listed /\ open' = open \ listed
  /\ listed' = {}
  /\ UNCHANGED <<cpc, ready, out, asked, dataVars>>

StopBegins ==
  /\ ctl = "out" /\ srv
  /\ ctl' = "stop" /\ closing' = TRUE
  /\ UNCHANGED <<starts, emits, emitting, srv, acc, listed, connVars, dataVars>>

StopClears ==
  /\ ctl = "stop" /\ ctl' = "close"
  /\ CloseListed
  /\ UNCHANGED <<starts, emits, emitting, closing, srv, acc>>

StopClosesServer ==
  /\ ctl = "close" /\ ctl' = "join" /\ srv' = FALSE
  /\ UNCHANGED <<starts, emits, emitting, closing, acc, listed, connVars, dataVars>>

\* accept() of a closed socket, or its timeout, lets the thread end in time
StopJoins ==
  /\ ctl = "join" /\ acc = "off" /\ ctl' = "out"
  /\ UNCHANGED <<starts, emits, emitting, lifeVars, connVars, dataVars>>

DropConnections ==
  /\ ctl = "out" /\ srv /\ listed # {}
  /\ CloseListed
  /\ UNCHANGED <<ctlVars, closing, srv, acc>>

FirstTwo(msgs) == SubSeq(msgs, 1, IF Len(msgs) < 2 THEN Len(msgs) ELSE 2)

\* _Connection.send(): an error only marks the connection
Sends(c, msgs) ==
  /\ out' = [out EXCEPT ![c] = IF c \in open THEN FirstTwo(@ \o msgs) ELSE @]
  /\ alive' = IF c \in open THEN alive ELSE alive \ {c}

\* emit_event() chooses its connections under the lock and writes after it
EmitChooses ==
  /\ ctl = "out" /\ emitting = {} /\ emits < MaxEvents
  /\ emits' = emits + 1 /\ emitting' = listed \cap ready \cap alive
  /\ UNCHANGED <<ctl, starts, lifeVars, connVars, dataVars>>

EmitWrites ==
  /\ \E c \in emitting : emitting' = emitting \ {c} /\ Sends(c, <<Event(c, "JNI_CALL")>>)
  /\ UNCHANGED <<ctl, starts, emits, lifeVars, cpc, open, ready, asked, dataVars>>

-----------------------------------------------------------------------------
(* _accept_loop() *)

AcceptEnds ==
  /\ acc = "top" /\ (closing \/ ~srv)
  /\ acc' = "off"
  /\ UNCHANGED <<ctlVars, closing, srv, listed, connVars, dataVars>>

\* accept() may have begun before stop(): it still returns a connection
Accept(c) ==
  /\ acc = "top" /\ srv /\ cpc[c] = "none" /\ \A d \in Conns : d < c => cpc[d] # "none"
  /\ acc' = "holding"
  /\ cpc' = [cpc EXCEPT ![c] = "accepted"]
  /\ open' = open \cup {c} /\ alive' = alive \cup {c}
  /\ UNCHANGED <<ctlVars, closing, srv, listed, ready, out, asked, dataVars>>

AcceptLists ==
  /\ acc = "holding" /\ acc' = "top"
  /\ \E c \in Conns :
       /\ cpc[c] = "accepted" /\ cpc' = [cpc EXCEPT ![c] = "hello"]
       /\ listed' = listed \cup {c}
  /\ UNCHANGED <<ctlVars, closing, srv, open, alive, ready, out, asked, dataVars>>

-----------------------------------------------------------------------------
(* _serve() and _do_handshake(), one thread per connection *)

Steps(c, here, there) ==
  /\ cpc[c] = here /\ cpc' = [cpc EXCEPT ![c] = there]
  /\ UNCHANGED <<ctlVars, lifeVars>>

\* What a client may begin with
FirstMessages == {make_hello(V), make_hello("another"), make_ping(V, 1)}

HelloArrives(c) ==
  /\ Steps(c, "hello", "ack") /\ c \in open
  /\ \E m \in FirstMessages : HelloFault(V, m) = "none"
  /\ UNCHANGED <<open, alive, ready, out, asked, dataVars>>

\* the first message is no HELLO, or one of another protocol version
HelloRefused(c) ==
  /\ Steps(c, "hello", "bye") /\ c \in open
  /\ \E m \in FirstMessages :
       /\ HelloFault(V, m) # "none"
       /\ Sends(c, <<make_error(V, NoId, NoId, HelloFault(V, m))>>)
  /\ UNCHANGED <<open, ready, asked, dataVars>>

\* nothing complete in ten seconds, the socket is closed, block_handshake(), or
\* a first message that is none
HelloMissing(c) ==
  /\ Steps(c, "hello", "bye")
  /\ UNCHANGED <<open, alive, ready, out, asked, dataVars>>

SendAck(c) ==
  /\ Steps(c, "ack", "sendready") /\ Sends(c, <<make_hello_ack(V, c)>>)
  /\ UNCHANGED <<open, ready, asked, dataVars>>

\* A faulty variant: the connection takes events before READY is on its way
SendReadyLast(c) ==
  /\ Steps(c, "sendready", "setready")
  /\ ready' = ready \cup {c}
  /\ UNCHANGED <<open, alive, out, asked, dataVars>>
SendReady(c) ==
  /\ Steps(c, "sendready", "setready") /\ Sends(c, <<make_ready(V, c, "RUNNING")>>)
  /\ UNCHANGED <<open, ready, asked, dataVars>>

SetReady(c) ==
  /\ Steps(c, "setready", "greet")
  /\ ready' = ready \cup {c}
  /\ UNCHANGED <<open, alive, out, asked, dataVars>>

Greet(c) ==
  /\ Steps(c, "greet", "loop") /\ Sends(c, <<Event(c, "RUNTIME_READY")>>)
  /\ UNCHANGED <<open, ready, asked, dataVars>>

\* A faulty variant: stop() does not end a connection it did not close
ServingUntilClosed(c) == c \in alive
Serving(c) == c \in alive /\ ~closing

\* at the top of the loop, or when recv() fails because another thread has
\* closed the socket
LoopEnds(c) ==
  /\ ~Serving(c) /\ Steps(c, "loop", "bye")
  /\ UNCHANGED <<open, alive, ready, out, asked, dataVars>>

ClientGone(c) ==
  /\ Serving(c) /\ c \in open
  /\ Steps(c, "loop", "loop") /\ alive' = alive \ {c}
  /\ UNCHANGED <<open, ready, out, asked, dataVars>>

LoopReadsMalformed(c) ==
  /\ Serving(c) /\ c \in open
  /\ Steps(c, "loop", "bye")
  /\ Sends(c, <<make_error(V, c, NoId, "E_MALFORMED_FRAME")>>)
  /\ UNCHANGED <<open, ready, asked, dataVars>>

Reads(c) ==
  /\ Serving(c) /\ c \in open /\ asked < MaxRequests
  /\ asked' = asked + 1
  /\ UNCHANGED <<open, ready>>

LoopStartsCommand(c) ==
  /\ Reads(c) /\ Steps(c, "loop", "busy")
  /\ op' = [op EXCEPT ![c] = [cmd |-> "begin"]]
  /\ UNCHANGED <<alive, out, hooks, told, jobs>>

\* finally: close, then leave the list
\* A faulty variant: the socket is left to be closed by whoever drops it
ServeForgets(c) ==
  /\ Steps(c, "bye", "unlist")
  /\ alive' = alive \ {c}
  /\ UNCHANGED <<open, ready, out, asked, dataVars>>
ServeCloses(c) ==
  /\ Steps(c, "bye", "unlist")
  /\ alive' = alive \ {c} /\ open' = open \ {c}
  /\ UNCHANGED <<ready, out, asked, dataVars>>

ServeUnlists(c) ==
  /\ cpc[c] = "unlist" /\ cpc' = [cpc EXCEPT ![c] = "gone"]
  /\ listed' = listed \ {c}
  /\ UNCHANGED <<ctlVars, closing, srv, acc, open, alive, ready, out, asked, dataVars>>

-----------------------------------------------------------------------------
(* Commands that change the state of the app.  "busy" until the answer.    *)

Begins(c) == cpc[c] = "busy" /\ op[c].cmd = "begin"

Continues(c, o) ==
  /\ op' = [op EXCEPT ![c] = o]
  /\ UNCHANGED <<ctlVars, lifeVars, connVars>>

Answers(c, msgs) ==
  /\ Steps(c, "busy", "loop") /\ Sends(c, msgs)
  /\ op' = [op EXCEPT ![c] = Idle]
  /\ UNCHANGED <<open, ready, asked>>

\* An exception that is no ProtocolError ends the thread, and the client is
\* told nothing
Dies(c) ==
  /\ Steps(c, "busy", "bye")
  /\ op' = [op EXCEPT ![c] = Idle]
  /\ UNCHANGED <<open, alive, ready, out, asked, hooks, told, jobs>>

\* runtime.hook: the number of hooks is read, the new one is stored later
Active == {h \in DOMAIN hooks : hooks[h].status = "active"}
\* A faulty variant: hooks are numbered by hooks_active
NextHookIdByActive == Cardinality(Active) + 1
NextHookId == Len(hooks) + 1

CreateHook(c) ==
  /\ Begins(c)
  /\ Continues(c, [cmd |-> "store", hook |-> NextHookId])
  /\ UNCHANGED <<hooks, told, jobs>>

StoreHook(c) ==
  /\ cpc[c] = "busy" /\ op[c].cmd = "store"
  /\ LET h == op[c].hook
         new == [by |-> c, status |-> "active"]
     IN  /\ hooks' = IF h \in DOMAIN hooks THEN [hooks EXCEPT ![h] = new] ELSE Append(hooks, new)
         /\ told' = [told EXCEPT ![c] = Append(@, h)]
  /\ Answers(c, <<Event(c, "HOOK_INSTALLED"), Event(c, "HOOK_ENTER"),
                  Event(c, "HOOK_LEAVE"), Done(c)>>)
  /\ UNCHANGED jobs

\* runtime.unhook, of any hook and as often as one likes
Unhook(c) ==
  /\ Begins(c) /\ \E h \in DOMAIN hooks : hooks' = [hooks EXCEPT ![h].status = "removed"]
  /\ Answers(c, <<Done(c)>>)
  /\ UNCHANGED <<told, jobs>>

MemoryDump(c) ==
  /\ Begins(c)
  /\ jobs' = Append(jobs, [state |-> "running", half |-> 0, rounds |-> [d \in Conns |-> 0]])
  /\ Answers(c, <<Done(c)>>)
  /\ UNCHANGED <<hooks, told>>

\* job.status: advance_jobs() iterates over the dictionary of jobs
JobStatus(c) ==
  /\ Begins(c)
  /\ Continues(c, [cmd |-> "advance", job |-> 1, size |-> Len(jobs)])
  /\ UNCHANGED <<hooks, told, jobs>>

Advancing(c) == cpc[c] = "busy" /\ op[c].cmd = "advance"

\* "dictionary changed size during iteration"
AdvanceRaises(c) == Advancing(c) /\ Len(jobs) # op[c].size /\ Dies(c)

AdvanceChecks(c) ==
  /\ Advancing(c) /\ Len(jobs) = op[c].size /\ op[c].job <= op[c].size
  /\ LET j == op[c].job
     IN  IF jobs[j].state = "running"
         THEN Continues(c, [cmd |-> "progress", job |-> j, size |-> op[c].size,
                            half |-> jobs[j].half])
         ELSE Continues(c, [op[c] EXCEPT !.job = j + 1])
  /\ UNCHANGED <<hooks, told, jobs>>

AtMostTwo(n) == IF n < 2 THEN n ELSE 2

\* the progress that was read, plus one half
Advanced(job, half, c) ==
  [job EXCEPT !.half = AtMostTwo(half + 1),
              !.rounds = [job.rounds EXCEPT ![c] = AtMostTwo(job.rounds[c] + 1)]]

AdvanceWrites(c) ==
  /\ cpc[c] = "busy" /\ op[c].cmd = "progress"
  /\ LET j == op[c].job IN jobs' = [jobs EXCEPT ![j] = Advanced(jobs[j], op[c].half, c)]
  /\ Continues(c, [cmd |-> "test", job |-> op[c].job, size |-> op[c].size])
  /\ UNCHANGED <<hooks, told>>

\* the progress is read again: at 1.0 the job is completed, whatever its state
\* is by now
\* A faulty variant: half of it is enough
AdvanceTestsEarly(c) ==
  /\ cpc[c] = "busy" /\ op[c].cmd = "test"
  /\ jobs' = IF jobs[op[c].job].half >= 1 THEN [jobs EXCEPT ![op[c].job].state = "completed"]
             ELSE jobs
  /\ Continues(c, [cmd |-> "advance", job |-> op[c].job + 1, size |-> op[c].size])
  /\ UNCHANGED <<hooks, told>>
AdvanceTests(c) ==
  /\ cpc[c] = "busy" /\ op[c].cmd = "test"
  /\ jobs' = IF jobs[op[c].job].half >= 2 THEN [jobs EXCEPT ![op[c].job].state = "completed"]
             ELSE jobs
  /\ Continues(c, [cmd |-> "advance", job |-> op[c].job + 1, size |-> op[c].size])
  /\ UNCHANGED <<hooks, told>>

JobStatusAnswers(c) ==
  /\ Advancing(c) /\ Len(jobs) = op[c].size /\ op[c].job > op[c].size
  /\ \E answer \in {Done(c), Raised(c, "E_NOT_FOUND")} : Answers(c, <<answer>>)
  /\ UNCHANGED <<hooks, told, jobs>>

\* job.cancel sets the state whatever it is
JobCancel(c) ==
  /\ Begins(c) /\ \E j \in DOMAIN jobs : jobs' = [jobs EXCEPT ![j].state = "cancelled"]
  /\ Answers(c, <<Done(c)>>)
  /\ UNCHANGED <<hooks, told>>

\* PING, unless set_heartbeat_enabled(False); other messages have no answer
MessageAnswered(c) ==
  /\ Begins(c) /\ \E answer \in {<<>>, <<make_pong(V, 1)>>} : Answers(c, answer)
  /\ UNCHANGED <<hooks, told, jobs>>

\* a request of another session, or a command without a handler
CommandRefused(c) ==
  /\ Begins(c)
  /\ \E answer \in {Raised(c, "E_SESSION_STALE"),
                    make_response(V, c, Value, "error", "E_NOT_READY")} : Answers(c, <<answer>>)
  /\ UNCHANGED <<hooks, told, jobs>>

\* the commands that only look at the state
CommandLooks(c) ==
  /\ Begins(c) /\ Answers(c, <<Done(c)>>)
  /\ UNCHANGED <<hooks, told, jobs>>

\* those that look one thing up: memory, a hook, packet, artifact or job that
\* may not exist, or find their arguments wrong
ElementLooks(c) ==
  /\ Begins(c)
  /\ \E answer \in {Done(c), Raised(c, "E_NOT_FOUND"), Raised(c, "E_BAD_ARGS"),
                    Raised(c, "E_NOT_READY")} : Answers(c, <<answer>>)
  /\ UNCHANGED <<hooks, told, jobs>>

\* a length that is no number
CommandRaises(c) == Begins(c) /\ Dies(c)

-----------------------------------------------------------------------------

\* What the thread of a connection does by itself, and on a message
Serve(c) ==
  \/ HelloMissing(c) \/ SendAck(c) \/ SendReady(c) \/ SetReady(c) \/ Greet(c)
  \/ LoopEnds(c) \/ ServeCloses(c) \/ ServeUnlists(c)

ServeMessage(c) ==
  \/ HelloArrives(c) \/ HelloRefused(c)
  \/ ClientGone(c) \/ LoopReadsMalformed(c) \/ LoopStartsCommand(c)

Command(c) ==
  \/ CreateHook(c) \/ StoreHook(c) \/ Unhook(c) \/ MemoryDump(c)
  \/ JobStatus(c) \/ AdvanceRaises(c) \/ AdvanceChecks(c) \/ AdvanceWrites(c)
  \/ AdvanceTests(c) \/ JobStatusAnswers(c) \/ JobCancel(c) \/ MessageAnswered(c)
  \/ CommandRefused(c) \/ CommandLooks(c) \/ ElementLooks(c) \/ CommandRaises(c)

AcceptLoop == AcceptEnds \/ AcceptLists

Stop == StopClears \/ StopClosesServer \/ StopJoins

Next ==
  \/ Start \/ StopBegins \/ Stop \/ DropConnections
  \/ EmitChooses \/ EmitWrites
  \/ AcceptLoop \/ \E c \in Conns : Accept(c)
  \/ \E c \in Conns : Serve(c) \/ ServeMessage(c) \/ Command(c)

Spec == Init /\ [][Next]_vars

\* Every thread runs on, and recv() and accept() have timeouts: a thread that
\* waits for a client sees in the end what stop() has done.  No client owes
\* the server a message, nor its departure.
FairSpec ==
  /\ Spec
  /\ WF_vars(AcceptLoop) /\ WF_vars(Stop)
  /\ \A c \in Conns : WF_vars(Serve(c) \/ Command(c))

-----------------------------------------------------------------------------
(* Properties *)

\* Every socket the server has open is in the list drop_connections() and
\* stop() go through, or will be as soon as the accept thread has the lock:
\* no thread leaves the list, and nobody empties it, with the socket open.
OpenConnsListed == \A c \in open : c \in listed \/ cpc[c] = "accepted"

\* What a client reads first is an ERROR, or the HELLO_ACK and READY of its own
\* session that bring a client of this version up: no event of emit_event(),
\* which runs in another thread, gets in between.
OpensWithHandshake ==
  \A c \in Conns :
    /\ Len(out[c]) > 0 => out[c][1].type = "ERROR" \/ out[c][1] = make_hello_ack(V, c)
    /\ Len(out[c]) > 1 => Accepts(V, out[c][1], out[c][2])

\* However the commands of several clients interleave (two of them may be
\* given the same hook_id), one client is never given the same one twice,
\* and every hook_id it was given can be looked up.
OwnHooksDistinct ==
  \A c \in Conns :
    /\ \A i, j \in DOMAIN told[c] : i < j => told[c][i] < told[c][j]
    /\ ToSet(told[c]) \subseteq DOMAIN hooks

\* advance_jobs() takes no lock: each round of job.status writes back what it
\* has read plus one half, however many clients are at it, and looks again.
\* Lost updates never complete a job early: it takes two rounds, of one client
\* or of two.  Nor can they keep it running while only one client asks: two
\* rounds of that client are enough.  (Another client's round that writes late
\* may take one of them back.)
JobsTakeTwoRounds ==
  \A j \in DOMAIN jobs :
    /\ jobs[j].state = "completed" =>
         \/ \E c \in Conns : jobs[j].rounds[c] = 2
         \/ \E c, d \in Conns : c # d /\ jobs[j].rounds[c] > 0 /\ jobs[j].rounds[d] > 0
    /\ \A c \in Conns :
         /\ jobs[j].rounds[c] = 2 /\ ~(op[c].cmd = "test" /\ op[c].job = j)
         /\ \A d \in Conns \ {c} : jobs[j].rounds[d] = 0
         => jobs[j].state # "running"

\* After stop() every connection ends, those too that the accept thread took
\* or listed after stop() had emptied the list, unless start() follows.
StopEndsConnections ==
  closing ~> (~closing \/ \A c \in Conns : cpc[c] \in {"none", "gone"})

=============================================================================
