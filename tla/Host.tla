------------------------------- MODULE Host --------------------------------
(***************************************************************************)
(* The MCP host process: host/cli.py main() from its arguments to its      *)
(* exit, with the adb forward it sets up (host/adb.py), the assembly of    *)
(* the tools (server.py, registry.py, surfaces.py) and the calls of those  *)
(* tools through RuntimeBridge (runtime_bridge.py).  The link below them   *)
(* is what BridgeClient promises: lost at any time, brought up again by    *)
(* its own thread with a new session, whose capabilities may differ.       *)
(***************************************************************************)
EXTENDS Transport, Protocol, Sequences, FiniteSets

CONSTANTS
  Core, Expert,        \* tools
  Groups, group,       \* of the expert tools
  Caps, requires,      \* capabilities, and those each tool needs
  SummaryTool,         \* session.capabilities
  MountArgs,           \* what --mount may name, known groups or not
  Grants,              \* sets of capabilities a session may have
  Calls,               \* tool calls
  Specs,               \* what --endpoint may say
  DevicePorts,         \* what --device-port may say
  FreePorts,           \* what the system may give to a server that takes any
  MaxSessions,         \* bound
  MaxUnplugs,          \* bound
  None

Tools == Core \cup Expert

ASSUME ToolsAssumption ==
  /\ Core \cap Expert = {} /\ SummaryTool \in Core
  /\ group \in [Expert -> Groups] /\ requires \in [Tools -> SUBSET Caps]
  /\ Grants \subseteq SUBSET Caps

ASSUME EndpointsAssumption ==
  /\ Specs \subseteq Written /\ None \notin Written
  /\ DevicePorts \subseteq Int /\ FreePorts \subseteq PortNumbers \ {0}

ASSUME BoundsAssumption == MaxSessions \in Nat /\ MaxUnplugs \in Nat

Args == [print : BOOLEAN, mock : BOOLEAN, endpoint : Specs \cup {None},
         device_port : DevicePorts, no_forward : BOOLEAN, mount : SUBSET MountArgs,
         check : BOOLEAN]

\* How call() ends when it raises
Answers == {to_mcp_exception(code) : code \in ErrorCode}

VARIABLES
  args,       \* of the command line
  sound,      \* the installation: every tool has its handler, mcp is there
  af_unix,    \* this Python has AF_UNIX
  mpc,        \* where main() is
  abandoned,  \* main() has ended by an exception that no try of its own handles
  mock,       \* the in-process MockRuntimeServer
  file,       \* its Unix socket is in the file system
  endpoint,   \* the endpoint main() has settled on so far
  forwarded,  \* adb's mapping of our port is in force
  unplugs,
  app,        \* a Runtime listens on the device
  link,       \* never up, up, lost (a thread reconnects), closed
  granted,    \* the capabilities of the sessions so far
  sess,       \* the current one, or 0
  mounted, saved,  \* SurfaceManager._mounted, and its snapshot
  caps,       \* the capabilities the tools are chosen by
  registered, \* the tools of the server
  cpc, tool, seen, used, summary, answer  \* of each call

mainVars == <<args, sound, af_unix, mpc, abandoned, mounted, saved, caps, registered>>
serverVars == <<mock, file, endpoint>>
deviceVars == <<forwarded, unplugs, app>>
linkVars == <<link, granted, sess>>
callVars == <<cpc, tool, seen, used, summary, answer>>
vars == <<mainVars, serverVars, deviceVars, linkVars, callVars>>

\* The endpoint, before the system is asked for a port
Chosen == IF args.endpoint # None THEN args.endpoint
          ELSE Tcp(IF args.mock THEN 0 ELSE args.device_port)

\* Arguments that no step looks at beside the others are left out.
Init ==
  /\ args \in Args /\ (args.no_forward => ~args.mock /\ args.endpoint = None)
  /\ Raises(Tcp(args.device_port)) => Raises(Chosen)
  /\ sound \in BOOLEAN
  /\ af_unix \in BOOLEAN /\ (af_unix \/ Chosen.scheme \in {"unix", "path"})
  /\ mpc = "args" /\ abandoned = FALSE /\ mock = "off" /\ file = FALSE /\ endpoint = None
  /\ forwarded \in BOOLEAN /\ unplugs = 0
  /\ app \in BOOLEAN
  /\ link = "never" /\ granted = <<>> /\ sess = 0
  /\ mounted = args.mount /\ saved = {} /\ caps = None /\ registered = {}
  /\ cpc = [c \in Calls |-> "idle"] /\ tool = [c \in Calls |-> SummaryTool]
  /\ seen = [c \in Calls |-> 0] /\ used = [c \in Calls |-> 0]
  /\ summary = [c \in Calls |-> None] /\ answer = [c \in Calls |-> None]

-----------------------------------------------------------------------------
(* The device, its cable and the link *)

\* adb forgets the mapping of a device that is unplugged
Unplug ==
  /\ unplugs < MaxUnplugs /\ forwarded
  /\ unplugs' = unplugs + 1 /\ forwarded' = FALSE
  /\ UNCHANGED <<mainVars, serverVars, app, linkVars, callVars>>

AppStarts ==
  /\ ~app /\ app' = TRUE
  /\ UNCHANGED <<mainVars, serverVars, forwarded, unplugs, linkVars, callVars>>

Forwards == ~args.mock /\ args.endpoint = None /\ ~args.no_forward

\* Something answers at the end of the endpoint
Reachable ==
  /\ Connectable(parse_endpoint(endpoint), af_unix)
  /\ IF args.mock THEN mock = "running" ELSE app /\ (Forwards => forwarded)

\* A faulty variant: the generation is read before it is counted up
OpensSessionStale ==
  /\ Len(granted) < MaxSessions
  /\ \E g \in Grants : granted' = Append(granted, g)
  /\ sess' = Len(granted)
  /\ link' = "up"
OpensSession ==
  /\ Len(granted) < MaxSessions
  /\ \E g \in Grants : granted' = Append(granted, g)
  /\ sess' = Len(granted) + 1
  /\ link' = "up"

\* The session stays the current one, DEGRADED, until the next is opened
LinkLost ==
  /\ mpc # "exit" /\ link = "up"
  /\ link' = "lost"
  /\ UNCHANGED <<mainVars, serverVars, deviceVars, granted, sess, callVars>>

\* auto_reconnect: only a link that was up comes up again
Reconnect ==
  /\ mpc # "exit" /\ link = "lost" /\ Reachable /\ OpensSession
  /\ UNCHANGED <<mainVars, serverVars, deviceVars, callVars>>

-----------------------------------------------------------------------------
(* main(): arguments, mock server or adb forward *)

Goes(here, there) ==
  /\ mpc = here /\ mpc' = there
  /\ UNCHANGED <<args, sound, af_unix, abandoned>>

assembly == <<mounted, saved, caps, registered>>

PrintConfig ==
  /\ args.print /\ Goes("args", "exit")
  /\ UNCHANGED <<assembly, serverVars, deviceVars, linkVars, callVars>>

\* The bridge will use the endpoint at which listen() has ended up.
StartMock ==
  /\ ~args.print /\ args.mock /\ Goes("args", "connect") /\ ~Raises(Chosen)
  /\ \E bound \in listen(parse_endpoint(Chosen), af_unix, FreePorts) :
       mock' = "running" /\ file' = is_unix(bound) /\ endpoint' = bound.raw
  /\ UNCHANGED <<assembly, deviceVars, linkVars, callVars>>

\* no endpoint, no AF_UNIX, no such address, or it is taken
StartMockFails ==
  /\ ~args.print /\ args.mock /\ Goes("args", "exit")
  /\ UNCHANGED <<assembly, serverVars, deviceVars, linkVars, callVars>>

Settles == endpoint' = Chosen /\ UNCHANGED <<mock, file>>

NoForward ==
  /\ ~args.print /\ ~args.mock /\ ~Forwards /\ Goes("args", "connect") /\ Settles
  /\ UNCHANGED <<assembly, deviceVars, linkVars, callVars>>

\* resolve_adb() finds no adb: no exception, only a report
NoAdb ==
  /\ ~args.print /\ Forwards /\ Goes("args", "connect") /\ Settles
  /\ UNCHANGED <<assembly, deviceVars, linkVars, callVars>>

\* adb fails, times out, or accepts the mapping, and none of it means that there
\* is one or none: whether it is listed afterwards is only reported
ensure_forward == {forwarded, TRUE}

PrepareForward ==
  /\ ~args.print /\ Forwards /\ Goes("args", "connect") /\ Settles
  /\ forwarded' \in ensure_forward
  /\ UNCHANGED <<assembly, unplugs, app, linkVars, callVars>>

-----------------------------------------------------------------------------
(* main(): the bridge *)

\* parse_endpoint() raises outside of every try
BadEndpoint ==
  /\ Goes("connect", "exit") /\ Raises(endpoint)
  /\ UNCHANGED <<assembly, serverVars, deviceVars, linkVars, callVars>>

Connects ==
  /\ Goes("connect", "caps") /\ ~Raises(endpoint) /\ Reachable
  /\ OpensSession
  /\ UNCHANGED <<assembly, serverVars, deviceVars, callVars>>

\* A faulty variant: the host gives up
ConnectFailsExits ==
  /\ Goes("connect", "close") /\ ~Raises(endpoint)
  /\ UNCHANGED <<assembly, serverVars, deviceVars, linkVars, callVars>>
ConnectFails ==
  /\ Goes("connect", "verify") /\ ~Raises(endpoint)
  /\ UNCHANGED <<assembly, serverVars, deviceVars, linkVars, callVars>>

\* RuntimeBridge.capabilities(): all false without a session
capabilities == IF sess = 0 THEN {} ELSE granted[sess]

\* A Runtime that declares no group at all is taken at nobody's word: an empty
\* object filters no tools.
ReadCaps ==
  /\ Goes("caps", "verify")
  /\ caps' = capabilities \/ (sess # 0 /\ capabilities = {} /\ caps' = None)
  /\ UNCHANGED <<mounted, saved, registered, serverVars, deviceVars,
                 linkVars, callVars>>

-----------------------------------------------------------------------------
(* main(): build_server() *)

\* verify_three_point_registration() mounts every group for its check
VerifyMounts ==
  /\ Goes("verify", "verified")
  /\ saved' = mounted /\ mounted' = Groups
  /\ UNCHANGED <<caps, registered, serverVars, deviceVars, linkVars, callVars>>

\* A faulty variant: the groups stay mounted
VerifyLeaves ==
  /\ Goes("verified", IF sound THEN "bind" ELSE "close")
  /\ UNCHANGED <<assembly, serverVars, deviceVars, linkVars, callVars>>
VerifyRestores ==
  /\ Goes("verified", IF sound THEN "bind" ELSE "close")
  /\ mounted' = saved
  /\ UNCHANGED <<saved, caps, registered, serverVars, deviceVars,
                 linkVars, callVars>>

_expert_candidates == {t \in Expert : group[t] \in mounted}

capability_gaps(t, have) == requires[t] \ have

visible(have) ==
  {t \in Core \cup _expert_candidates : have # None => capability_gaps(t, have) = {}}

BindTools ==
  /\ Goes("bind", "report") /\ registered' = visible(caps)
  /\ UNCHANGED <<mounted, saved, caps, serverVars, deviceVars, linkVars,
                 callVars>>

\* describe(), snapshot(), the report, and the list of tools for --check
Report ==
  /\ Goes("report", IF args.check THEN "close" ELSE "serving")
  /\ UNCHANGED <<assembly, serverVars, deviceVars, linkVars, callVars>>

\* server.run() returns, or raises: the port is taken, a signal
ServeEnds ==
  /\ Goes("serving", "close")
  /\ UNCHANGED <<assembly, serverVars, deviceVars, linkVars, callVars>>

\* A reconnect thread that is past its last look at _closing goes on
CloseBridge ==
  /\ Goes("close", "stop") /\ sess' = 0
  /\ link' = "closed" \/ (link = "lost" /\ link' = "lost")
  /\ UNCHANGED <<assembly, serverVars, deviceVars, granted, callVars>>

\* A faulty variant: the mock server is only stopped by _shutdown()
StopMockServed ==
  /\ Goes("stop", "exit")
  /\ mock' = (IF registered # {} THEN "off" ELSE mock) /\ file' = FALSE
  /\ UNCHANGED <<assembly, endpoint, deviceVars, linkVars, callVars>>
StopMock ==
  /\ Goes("stop", "exit") /\ mock' = "off" /\ file' = FALSE
  /\ UNCHANGED <<assembly, endpoint, deviceVars, linkVars, callVars>>

\* What no try of main() handles ends it where it is, and nothing is released:
\* Ctrl-C before server.run() or while the bridge and the mock server are being
\* closed, a message that cannot be written to stderr, and whatever the report
\* raises (snapshot() does, of capabilities with a group that is no object).
Abandons ==
  /\ mpc \notin {"serving", "exit"} /\ mpc' = "exit" /\ abandoned' = TRUE
  /\ UNCHANGED <<args, sound, af_unix, assembly, serverVars, deviceVars, linkVars, callVars>>

-----------------------------------------------------------------------------
(* RuntimeBridge.call(), in the event loop up to acall(), then in a thread *)

CallGoes(c, there) ==
  /\ cpc' = [cpc EXCEPT ![c] = there]
  /\ UNCHANGED <<mainVars, serverVars, deviceVars, linkVars>>

\* goes on there, or raises E_NOT_READY
CallGoesIf(c, fine, there) ==
  /\ CallGoes(c, IF fine THEN there ELSE "failed")
  /\ answer' = [answer EXCEPT ![c] = IF fine THEN None ELSE to_mcp_exception("E_NOT_READY")]

CallBegins(c) ==
  /\ mpc = "serving" /\ cpc[c] = "idle"
  /\ \E t \in registered : tool' = [tool EXCEPT ![c] = t]
  /\ CallGoesIf(c, link = "up", "gate")
  /\ UNCHANGED <<seen, used, summary>>

\* sessions.require() and the capability gate
\* A faulty variant: what is not registered cannot be called
CallUngated(c) ==
  /\ cpc[c] = "gate" /\ CallGoesIf(c, sess # 0, "thread")
  /\ seen' = [seen EXCEPT ![c] = sess]
  /\ UNCHANGED <<tool, used, summary>>
CallGated(c) ==
  /\ cpc[c] = "gate"
  /\ CallGoesIf(c, sess # 0 /\ capability_gaps(tool[c], capabilities) = {}, "thread")
  /\ seen' = [seen EXCEPT ![c] = sess]
  /\ UNCHANGED <<tool, used, summary>>

\* BridgeClient.call() looks at the link and the session once more
CallSends(c) ==
  /\ cpc[c] = "thread" /\ CallGoesIf(c, link = "up" /\ sess # 0, "sent")
  /\ used' = [used EXCEPT ![c] = sess]
  /\ UNCHANGED <<tool, seen, summary>>

\* What a Runtime may answer, with codes the host may not know
Replies(c) ==
  {make_response(PROTOCOL_VERSION, used[c], Value, "ok", "OK")} \cup
  UNION {{make_error(PROTOCOL_VERSION, used[c], Value, code),
          make_response(PROTOCOL_VERSION, used[c], Value, "error", code)} :
         code \in ErrorCode \cup {"E_UNHEARD_OF"}}

\* answered, though perhaps long ago
CallReturns(c) ==
  /\ cpc[c] = "sent" /\ \E m \in Replies(c) : Verdict(m) = "OK"
  /\ CallGoes(c, IF tool[c] = SummaryTool THEN "sum" ELSE "done")
  /\ UNCHANGED <<tool, seen, used, summary, answer>>

\* too long for a frame, no socket any more, lost with the link, timed out, or
\* refused by the Runtime
Failures(c) ==
  {"E_MALFORMED_FRAME", "E_NOT_READY", "E_SESSION_STALE", "E_TIMEOUT"}
  \cup ({Verdict(m) : m \in Replies(c)} \ {"OK"})

CallRaises(c) ==
  /\ cpc[c] = "sent" /\ CallGoes(c, "failed")
  /\ \E a \in {to_mcp_exception(code) : code \in Failures(c)} : answer' = [answer EXCEPT ![c] = a]
  /\ UNCHANGED <<tool, seen, used, summary>>

\* session_capabilities() adds a summary of the session that is current now
CallSummarises(c) ==
  /\ cpc[c] = "sum" /\ CallGoes(c, "done")
  /\ summary' = [summary EXCEPT ![c] = capabilities]
  /\ UNCHANGED <<tool, seen, used, answer>>

-----------------------------------------------------------------------------

Main ==
  \/ PrintConfig \/ StartMock \/ StartMockFails \/ NoForward \/ NoAdb \/ PrepareForward
  \/ BadEndpoint \/ Connects \/ ConnectFails \/ ReadCaps
  \/ VerifyMounts \/ VerifyRestores \/ BindTools \/ Report \/ CloseBridge \/ StopMock

Call(c) ==
  \/ CallBegins(c) \/ CallGated(c) \/ CallSends(c)
  \/ CallReturns(c) \/ CallRaises(c) \/ CallSummarises(c)

Next ==
  \/ Main \/ ServeEnds \/ Abandons
  \/ Unplug \/ AppStarts \/ LinkLost \/ Reconnect
  \/ \E c \in Calls : Call(c)

Spec == Init /\ [][Next]_vars

\* Nothing main() calls waits for ever: adb and connect() have timeouts.  The
\* reconnect thread retries for as long as it lives.
FairSpec == Spec /\ WF_vars(Main) /\ WF_vars(Reconnect)

-----------------------------------------------------------------------------
(* Properties *)

TypeOK ==
  /\ args \in Args /\ {sound, af_unix, file, app, abandoned} \subseteq BOOLEAN
  /\ mpc \in {"args", "connect", "caps", "verify", "verified", "bind", "report",
              "serving", "close", "stop", "exit"}
  /\ mock \in {"off", "running"} /\ endpoint \in Written \cup {None} /\ forwarded \in BOOLEAN
  /\ unplugs \in 0..MaxUnplugs
  /\ link \in {"never", "up", "lost", "closed"}
  /\ granted \in Seq(Grants) /\ sess \in {0, Len(granted)}
  /\ mounted \cup saved \subseteq Groups \cup MountArgs
  /\ caps = None \/ caps \subseteq Caps
  /\ registered \subseteq Tools
  /\ cpc \in [Calls -> {"idle", "gate", "thread", "sent", "sum", "done", "failed"}]
  /\ tool \in [Calls -> Tools] /\ {seen, used} \subseteq [Calls -> 0..Len(granted)]
  /\ \A c \in Calls : summary[c] = None \/ summary[c] \subseteq Caps
  /\ answer \in [Calls -> Answers \cup {None}]

\* An expert tool is only served when its group was asked for, although the
\* assembly mounts every group on the way.
ExpertsAreMounted == \A t \in registered \cap Expert : group[t] \in args.mount

\* A tool is not executed without its capabilities: the gate sees to it,
\* unless the link was lost and up again between the gate and the sending.
\* Nor is the caller blamed (JSON-RPC error: the request is wrong) for a call
\* that never got so far: what the host refuses by itself may be tried again.
Blamed(c) == cpc[c] = "failed" /\ answer[c].form = "MCPError"
GatedUnlessReconnected ==
  \A c \in Calls : cpc[c] \in {"sent", "sum", "done"} \/ Blamed(c) =>
    \/ used[c] # 0 /\ requires[tool[c]] \subseteq granted[used[c]]
    \/ seen[c] < used[c]

\* When main() returns, and when it raises because the mock server does not
\* start, the endpoint cannot be parsed or server.run() has raised, no mock
\* server is running, its socket is removed and the link is closed: only one
\* that a reconnect thread was bringing up meanwhile may survive close().  Where
\* main() abandons, all this may be left behind.
ExitLeavesNothing ==
  mpc = "exit" /\ ~abandoned => mock = "off" /\ ~file /\ (link = "up" => Len(granted) > 1)

\* Neither adb nor the Runtime's absence keeps a sound host from serving, nor
\* does a Python without AF_UNIX: only an endpoint that cannot be parsed, and
\* what makes main() abandon its start.
ServesAnyway ==
  (sound /\ ~args.print /\ ~args.mock /\ ~args.check /\ ~Raises(Chosen))
    => <>(mpc = "serving" \/ abandoned)

=============================================================================
