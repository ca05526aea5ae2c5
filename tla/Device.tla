------------------------------ MODULE Device -------------------------------
(***************************************************************************)
(* The device: target.conf and the companion that caches it                *)
(* (zygisk/entry.cpp), the processes zygote forks and that ask the         *)
(* companion whether to load the Runtime (zygisk/bootstrap.cpp), the       *)
(* Runtime they start (runtime/runtime.cpp) and its IPC server             *)
(* (native/src/ipc/ipc_server.cpp), of which only one can have the port.   *)
(***************************************************************************)
EXTENDS Naturals, Sequences, FiniteSets, SequencesExt

CONSTANTS
  Pkgs,       \* names of processes
  Clients,    \* hosts that connect to the port
  MaxProcs,   \* bound: processes forked
  MaxEdits,   \* bound: changes of target.conf
  MaxClock,   \* bound: ticks of the clock, which stands for both its units
  Backlog,    \* of listen()
  None

Procs == 1..MaxProcs

ASSUME BoundsAssumption == {MaxProcs, MaxEdits, MaxClock} \subseteq Nat /\ Backlog \in Nat \ {0}

VARIABLES
  clock,
  conf, aside, edits, \* target.conf, its copy moved aside
  versions,           \* history: what target.conf has been
  cache,              \* of the companion: names, (mtime, size); history: fopen() failed
  comp,               \* the query the companion is busy with
  phase, name,        \* of each process
  running, thr,       \* g_running; accept_loop()'s thread
  port,               \* the process whose listening socket is open, or 0
  queue,              \* its backlog
  conn,               \* the connection each server handles
  sid,                \* g_session_id
  loc,                \* the process each client has a connection with, or 0
  told                \* the session each client was given

fileVars == <<conf, aside, edits, versions>>
askVars == <<cache, comp, name>>
serverVars == <<running, thr, port, queue, conn, sid>>
clientVars == <<loc, told>>
vars == <<clock, fileVars, askVars, phase, serverVars, clientVars>>

\* (st_mtime, st_size): names are equally long
stamp(f) == <<f.mtime, Cardinality(f.names)>>

Uncached == [loaded |-> FALSE, names |-> {}, stamp |-> <<0, 0>>, blind |-> FALSE]

Init ==
  /\ clock = 0 /\ edits = 0 /\ aside = None
  /\ conf = [names |-> {}, mtime |-> 0]  \* as module/target.conf is shipped
  /\ versions = {conf}
  /\ cache = Uncached /\ comp = None
  /\ phase = [p \in Procs |-> "none"] /\ name = [p \in Procs |-> None]
  /\ running = [p \in Procs |-> FALSE] /\ thr = [p \in Procs |-> "off"]
  /\ port = 0 /\ queue = <<>> /\ conn = [p \in Procs |-> None]
  /\ sid = [p \in Procs |-> None]
  /\ loc = [k \in Clients |-> 0] /\ told = [k \in Clients |-> None]

Tick ==
  /\ clock < MaxClock /\ clock' = clock + 1
  /\ UNCHANGED <<fileVars, askVars, phase, serverVars, clientVars>>

\* phases of a process that has the Runtime
Loaded == {"starting", "ready", "broken", "exiting"}

-----------------------------------------------------------------------------
(* target.conf: written by the WebUI, moved away and back by its owner *)

\* bound: no change while a Runtime is loaded, which would not notice it
Changes(f, a) ==
  /\ edits < MaxEdits /\ edits' = edits + 1
  /\ \A p \in Procs : phase[p] \notin Loaded
  /\ conf' = f /\ aside' = a /\ versions' = versions \cup {f}
  /\ UNCHANGED <<clock, askVars, phase, serverVars, clientVars>>

EditConf == \E ns \in SUBSET Pkgs : Changes([names |-> ns, mtime |-> clock], aside)
MoveAway == conf # None /\ Changes(None, conf)
MoveBack == aside # None /\ Changes(aside, None)

-----------------------------------------------------------------------------
(* preAppSpecialize and the companion, which serves one query at a time *)

Phase(p, here, there) == phase[p] = here /\ phase' = [phase EXCEPT ![p] = there]

Specialize(p) ==
  /\ Phase(p, "none", "ask") /\ \A q \in Procs : q < p => phase[q] # "none"
  /\ \E n \in Pkgs : name' = [name EXCEPT ![p] = n]
  /\ UNCHANGED <<clock, fileVars, cache, comp, serverVars, clientVars>>

\* no connection to the companion, or no answer from it
\* A faulty variant: no answer is no reason to refuse
QueryFailsOpen(p) ==
  /\ Phase(p, "ask", "starting") /\ (comp # None => comp.p # p)
  /\ UNCHANGED <<clock, fileVars, askVars, serverVars, clientVars>>
QueryFails(p) ==
  /\ Phase(p, "ask", "plain") /\ (comp # None => comp.p # p)
  /\ UNCHANGED <<clock, fileVars, askVars, serverVars, clientVars>>

CompanionStats(p) ==
  /\ phase[p] = "ask" /\ comp = None
  /\ comp' = [p |-> p, stamp |-> IF conf = None THEN None ELSE stamp(conf)]
  /\ UNCHANGED <<clock, fileVars, cache, name, phase, serverVars, clientVars>>

\* A faulty variant: the time is not compared
SameFileBySize(st) == cache.loaded /\ st # None /\ st[2] = cache.stamp[2]
SameFile(st) == cache.loaded /\ st # None /\ st = cache.stamp

\* read_target_packages(): no names where fopen() fails, as it may for want of
\* descriptors or memory too
Reads(st, blind) ==
  [loaded |-> TRUE, blind |-> blind,
   names |-> IF conf = None \/ blind THEN {} ELSE conf.names,
   stamp |-> IF st = None THEN cache.stamp ELSE st]

\* target_packages() after its stat(), and the answer it leads to
CompanionAnswers ==
  /\ comp # None /\ comp' = None
  /\ IF SameFile(comp.stamp) THEN UNCHANGED cache
     ELSE \E blind \in BOOLEAN : cache' = Reads(comp.stamp, blind)
  /\ Phase(comp.p, "ask", IF name[comp.p] \in cache'.names THEN "starting" ELSE "plain")
  /\ UNCHANGED <<clock, fileVars, name, serverVars, clientVars>>

\* The companion's process dies, before or instead of its answer, and is
\* started again; a read() that ends without an answer is a no.
CompanionDies ==
  /\ comp' = None /\ cache' = Uncached
  /\ IF comp = None THEN UNCHANGED phase ELSE Phase(comp.p, "ask", "plain")
  /\ UNCHANGED <<clock, fileVars, name, serverVars, clientVars>>

-----------------------------------------------------------------------------
(* Runtime::start() in the thread of postAppSpecialize, and ipc::start() *)

GumFails(p) ==
  /\ Phase(p, "starting", "broken")
  /\ UNCHANGED <<clock, fileVars, askVars, serverVars, clientVars>>

\* A faulty variant: g_running is set before bind() has succeeded
StartsAnyway(p) ==
  /\ port' = IF port = 0 THEN p ELSE port
  /\ running' = [running EXCEPT ![p] = TRUE]
  /\ thr' = [thr EXCEPT ![p] = IF port = 0 THEN "accept" ELSE "off"]
  /\ sid' = [sid EXCEPT ![p] = <<clock, p>>]
\* A faulty variant: only a HELLO makes a session identifier
StartsNameless(p) ==
  /\ port = 0 /\ port' = p
  /\ running' = [running EXCEPT ![p] = TRUE] /\ thr' = [thr EXCEPT ![p] = "accept"]
  /\ UNCHANGED sid
Starts(p) ==
  /\ port = 0 /\ port' = p
  /\ running' = [running EXCEPT ![p] = TRUE] /\ thr' = [thr EXCEPT ![p] = "accept"]
  /\ sid' = [sid EXCEPT ![p] = <<clock, p>>]

\* the port is free, or the Runtime is ready without its server
RuntimeStarts(p) ==
  /\ Phase(p, "starting", "ready")
  /\ \/ Starts(p)
     \/ UNCHANGED <<port, running, thr, sid>>
  /\ UNCHANGED <<clock, fileVars, askVars, queue, conn, clientVars>>

-----------------------------------------------------------------------------
(* accept_loop() and handle_connection(): one client after the other *)

Serves(p) ==
  /\ UNCHANGED <<clock, fileVars, askVars, phase, running, port>>

LoopTop(p) == IF running[p] THEN "accept" ELSE "off"

Accept(p) ==
  /\ thr[p] = "accept" /\ port = p /\ queue # <<>>
  /\ conn' = [conn EXCEPT ![p] = Head(queue)] /\ queue' = Tail(queue)
  /\ thr' = [thr EXCEPT ![p] = "hello"]
  /\ Serves(p) /\ UNCHANGED <<sid, clientVars>>

\* An error ends the loop, and g_running stays TRUE; so does shutdown()
AcceptFails(p) ==
  /\ thr[p] = "accept" /\ thr' = [thr EXCEPT ![p] = "off"]
  /\ Serves(p) /\ UNCHANGED <<queue, conn, sid, clientVars>>

AcceptShut(p) == port # p /\ AcceptFails(p)
AcceptErrs(p) == port = p /\ AcceptFails(p)

\* A faulty variant: the identifier is the one start() has made
HelloKeepsId(p) ==
  /\ thr[p] = "hello" /\ conn[p] # None /\ loc[conn[p]] = p
  /\ told' = [told EXCEPT ![conn[p]] = <<clock, p>>]
  /\ thr' = [thr EXCEPT ![p] = "serve"]
  /\ Serves(p) /\ UNCHANGED <<queue, conn, sid, loc>>
Hello(p) ==
  /\ thr[p] = "hello" /\ conn[p] # None /\ loc[conn[p]] = p
  /\ sid' = [sid EXCEPT ![p] = <<clock, p>>]
  /\ told' = [told EXCEPT ![conn[p]] = sid'[p]]
  /\ thr' = [thr EXCEPT ![p] = "serve"]
  /\ Serves(p) /\ UNCHANGED <<queue, conn, loc>>

\* close(fd), and back to the top of accept_loop()
\* A faulty variant: one connection is all there is
HangsUpForGood(p) ==
  /\ conn' = [conn EXCEPT ![p] = None] /\ thr' = [thr EXCEPT ![p] = "hello"]
  /\ loc' = [k \in Clients |-> IF k = conn[p] /\ loc[k] = p THEN 0 ELSE loc[k]]
  /\ Serves(p) /\ UNCHANGED <<queue, sid, told>>
HangsUp(p) ==
  /\ conn' = [conn EXCEPT ![p] = None] /\ thr' = [thr EXCEPT ![p] = LoopTop(p)]
  /\ loc' = [k \in Clients |-> IF k = conn[p] /\ loc[k] = p THEN 0 ELSE loc[k]]
  /\ Serves(p) /\ UNCHANGED <<queue, sid, told>>

\* the first frame is no HELLO, or no JSON
HelloBad(p) == thr[p] = "hello" /\ conn[p] # None /\ loc[conn[p]] = p /\ HangsUp(p)

\* recv() or send() fails: the client has gone
ConnectionEnds(p) == conn[p] # None /\ loc[conn[p]] # p /\ HangsUp(p)

\* g_running is looked at after each answer; while it is set nothing changes
AnswersLast(p) == thr[p] = "serve" /\ ~running[p] /\ loc[conn[p]] = p /\ HangsUp(p)

-----------------------------------------------------------------------------
(* stop(), by ~Runtime() when the process exits; and processes that die *)

\* connections the process has, or that wait in its backlog, are reset
Forsakes(p) == loc' = [k \in Clients |-> IF loc[k] = p THEN 0 ELSE loc[k]]
ResetQueue(p) ==
  /\ queue' = IF port = p THEN <<>> ELSE queue
  /\ loc' = [k \in Clients |-> IF port = p /\ k \in ToSet(queue) THEN 0 ELSE loc[k]]

\* A faulty variant: the thread in accept() is not woken
StopKeepsSocket(p) ==
  /\ Phase(p, "ready", "exiting")
  /\ running' = [running EXCEPT ![p] = FALSE]
  /\ UNCHANGED <<port, queue, loc>>
  /\ UNCHANGED <<clock, fileVars, askVars, thr, conn, sid, told>>
StopBegins(p) ==
  /\ Phase(p, "ready", "exiting")
  /\ running' = [running EXCEPT ![p] = FALSE]
  /\ port' = IF port = p THEN 0 ELSE port
  /\ ResetQueue(p)
  /\ UNCHANGED <<clock, fileVars, askVars, thr, conn, sid, told>>

StopJoins(p) ==
  /\ thr[p] = "off" /\ Phase(p, "exiting", "dead")
  /\ UNCHANGED <<clock, fileVars, askVars, serverVars, clientVars>>

Killed(p) ==
  /\ phase[p] \notin {"none", "ask", "dead"} /\ phase' = [phase EXCEPT ![p] = "dead"]
  /\ running' = [running EXCEPT ![p] = FALSE] /\ thr' = [thr EXCEPT ![p] = "off"]
  /\ port' = IF port = p THEN 0 ELSE port
  /\ queue' = IF port = p THEN <<>> ELSE queue
  /\ conn' = [conn EXCEPT ![p] = None]
  /\ Forsakes(p)
  /\ UNCHANGED <<clock, fileVars, askVars, sid, told>>

-----------------------------------------------------------------------------
(* Clients connect to the port and leave; what they send is up to them.    *)
(* A name stands for another connection once the last one is forgotten.    *)

ClientConnects(k) ==
  /\ loc[k] = 0 /\ port # 0 /\ Len(queue) < Backlog
  /\ k \notin ToSet(queue) /\ \A p \in Procs : conn[p] # k
  /\ loc' = [loc EXCEPT ![k] = port] /\ queue' = Append(queue, k)
  /\ told' = [told EXCEPT ![k] = None]
  /\ UNCHANGED <<clock, fileVars, askVars, phase, running, thr, port, conn, sid>>

\* in the backlog too it is only missed once it has been accepted
ClientLeaves(k) ==
  /\ loc[k] # 0 /\ loc' = [loc EXCEPT ![k] = 0]
  /\ UNCHANGED <<clock, fileVars, askVars, phase, serverVars, told>>

-----------------------------------------------------------------------------

\* what the server's thread does without being sent anything
Thread(p) == Accept(p) \/ AcceptShut(p) \/ ConnectionEnds(p)

Process(p) ==
  \/ Specialize(p) \/ QueryFails(p) \/ CompanionStats(p)
  \/ GumFails(p) \/ RuntimeStarts(p)
  \/ AcceptErrs(p) \/ Hello(p) \/ HelloBad(p) \/ AnswersLast(p)
  \/ StopBegins(p) \/ Killed(p)

Next ==
  \/ Tick \/ EditConf \/ MoveAway \/ MoveBack
  \/ CompanionAnswers \/ CompanionDies
  \/ \E p \in Procs : Process(p) \/ Thread(p) \/ StopJoins(p)
  \/ \E k \in Clients : ClientConnects(k) \/ ClientLeaves(k)

Spec == Init /\ [][Next]_vars

\* Threads run on; no client owes the server a message, nor its departure.
FairSpec == Spec /\ \A p \in Procs : WF_vars(Thread(p)) /\ WF_vars(StopJoins(p))

-----------------------------------------------------------------------------
(* Properties *)

Ids == (0..MaxClock) \X Procs

TypeOK ==
  /\ clock \in 0..MaxClock /\ edits \in 0..MaxEdits
  /\ \A f \in versions \cup {conf, aside} :
       f = None \/ f \in [names : SUBSET Pkgs, mtime : 0..MaxClock]
  /\ cache.names \subseteq Pkgs /\ cache.loaded \in BOOLEAN /\ cache.blind \in BOOLEAN
  /\ comp # None => comp.p \in Procs /\ phase[comp.p] = "ask"
  /\ phase \in [Procs -> Loaded \cup {"none", "ask", "plain", "dead"}]
  /\ name \in [Procs -> Pkgs \cup {None}]
  /\ running \in [Procs -> BOOLEAN] /\ thr \in [Procs -> {"off", "accept", "hello", "serve"}]
  /\ port \in {0} \cup Procs /\ queue \in Seq(Clients)
  /\ conn \in [Procs -> Clients \cup {None}]
  /\ sid \in [Procs -> Ids \cup {None}] /\ \A p \in Procs : running[p] => sid[p] \in Ids
  /\ loc \in [Clients -> {0} \cup Procs]
  /\ told \in [Clients -> Ids \cup {None}]

\* The Runtime is only loaded into a process that target.conf has named at
\* some time, whatever goes wrong on the way to the companion and back.
NeverUninvited ==
  \A p \in Procs : phase[p] \in Loaded => \E f \in versions : f # None /\ name[p] \in f.names

\* An edit of target.conf takes effect: the companion answers from what the
\* file says, unless it has changed since the stat(), was changed twice in one
\* second (also to another length: back and forth around a read), was away, or
\* could not be opened when it was read last: no names are cached then, under
\* the time and size of a file that has some.
EditsTakeEffect ==
  [][comp # None /\ comp' = None /\ cache'.loaded /\ conf # None =>
       \/ cache'.names = conf.names
       \/ cache'.blind
       \/ comp.stamp # stamp(conf)
       \/ None \in versions \/ \E f \in versions : f # conf /\ f.mtime = conf.mtime]_vars

\* runtime.status says ipc_running only of a process that has the port.
RunningHasPort == \A p \in Procs : running[p] => port = p

\* Every answer carries g_session_id, a variable of the process: it is the
\* session the client that gets the answer was given in HELLO_ACK.
AnswersOwnSession ==
  \A p \in Procs : thr[p] = "serve" => conn[p] # None /\ told[conn[p]] = sid[p]

\* stop() returns, or waits for a client that is connected and silent.
StopWaitsForClientsOnly ==
  \A p \in Procs : []<>(phase[p] # "exiting" \/ conn[p] # None)

\* A client in the backlog is accepted, or waits for the one before it, unless
\* accept() has failed.
BacklogIsServed ==
  []<>(queue = <<>> \/ conn[port] # None \/ thr[port] = "off")

=============================================================================
