------------------------------ MODULE Protocol ------------------------------
(***************************************************************************)
(* The messages of the IPC protocol and its errors: what each side builds  *)
(* (protocol/messages.py, native/src/ipc/ipc_server.cpp), what the other   *)
(* looks at, and what an error becomes on its way to the caller            *)
(* (protocol/errors.py, host/error_mapping.py).  A message is a record     *)
(* with the fields of the dictionary; v is the protocol version of the     *)
(* program that builds or reads it.                                        *)
(***************************************************************************)
EXTENDS Naturals

PROTOCOL_VERSION == "1.0"
NoId  == 0           \* None, where an identifier may be
Value == "value"     \* whatever nobody here looks at

-----------------------------------------------------------------------------
(* Commands: FAST ones are answered at once, JOB ones with a job_id *)

FAST_COMMANDS ==
  {"device.list", "device.info", "device.root_status", "apk.list", "session.list",
   "session.info", "session.capabilities", "process.list", "process.info",
   "process.threads", "process.modules", "runtime.status", "runtime.enumerate_modules",
   "runtime.hook", "runtime.unhook", "runtime.hook_enable", "runtime.hook_disable",
   "runtime.hook_info", "runtime.stacktrace", "memory.maps", "memory.read", "memory.write",
   "network.connections", "network.dns", "network.http", "network.https",
   "network.websocket", "packet.list", "packet.get", "packet.hex", "packet.filter",
   "packet.forward", "packet.drop", "rule.create", "rule.delete", "rule.list",
   "breakpoint.create", "breakpoint.remove", "workflow.create", "workflow.stop",
   "artifact.get", "artifact.list", "job.status", "job.result", "job.cancel"}

JOB_COMMANDS ==
  {"device.shell", "device.reboot", "apk.install", "apk.uninstall", "apk.launch",
   "apk.stop", "apk.manifest", "apk.permissions", "apk.decompile", "apk.search",
   "runtime.attach", "runtime.enumerate_classes", "runtime.enumerate_methods",
   "runtime.trace", "memory.search", "memory.dump", "memory.compare", "memory.pointer_scan",
   "network.capture_start", "network.capture_stop", "network.intercept_start",
   "network.intercept_stop", "packet.decode", "packet.modify", "packet.intercept",
   "packet.replay", "packet.export", "workflow.run", "analysis.correlate",
   "analysis.trace_request", "analysis.find_callers", "analysis.find_network_source",
   "analysis.report", "artifact.export"}

COMMANDS == FAST_COMMANDS \cup JOB_COMMANDS

\* How many seconds call() waits, unless it is told.
timeout(command) == IF command \in FAST_COMMANDS THEN 10 ELSE 300

-----------------------------------------------------------------------------
(* Errors *)

ProtocolLayer == {"ERROR_PROTOCOL_VERSION", "E_BAD_ARGS", "E_UNKNOWN_CMD", "E_MALFORMED_FRAME"}

ErrorCode == ProtocolLayer \cup
  {"E_NOT_READY", "E_SESSION_STALE", "E_READ_FAILED", "E_WRITE_FAILED", "E_MAP_STALE",
   "E_TIMEOUT", "E_CANCELLED", "E_NOT_FOUND", "E_PERMISSION_DENIED", "E_INTERNAL"}

Retryable == {"E_NOT_READY", "E_MAP_STALE", "E_TIMEOUT", "E_CANCELLED", "E_NOT_FOUND"}

\* ProtocolError.to_dict()
to_dict(code) ==
  [code |-> code, layer |-> IF code \in ProtocolLayer THEN "protocol" ELSE "execution",
   retryable |-> code \in Retryable, message |-> Value, context |-> Value, next_step |-> Value]

\* A JSON-RPC error or a result with isError: how a tool call ends.
to_mcp_exception(code) ==
  [form |-> IF to_dict(code).layer = "protocol" THEN "MCPError" ELSE "ToolError",
   retryable |-> to_dict(code).retryable]

\* A code that the host does not know is E_INTERNAL.
Understood(code) == IF code \in ErrorCode THEN code ELSE "E_INTERNAL"

-----------------------------------------------------------------------------
(* Messages *)

EVENT_TYPES ==
  {"PROCESS_STARTED", "AGENT_CONNECTED", "RUNTIME_READY", "MODULE_LOADED", "THREAD_CREATED",
   "HOOK_ENTER", "HOOK_LEAVE", "NETWORK_CONNECTED", "HTTP_REQUEST", "HTTP_RESPONSE",
   "PACKET_CAPTURED", "DEX_LOADED", "CLASS_LOADED", "JNI_CALL", "SO_LOADED",
   "MEMORY_CHANGED", "WEBSOCKET_FRAME", "HOOK_INSTALLED", "PACKET_MODIFIED", "PACKET_REPLAYED"}

Sources == {"runtime", "network", "session", "system"}

\* make_event() raises E_BAD_ARGS for anything else, make_request() E_UNKNOWN_CMD
CanTell(event_type, source) == event_type \in EVENT_TYPES /\ source \in Sources
CanAsk(command) == command \in COMMANDS

make_hello(v) ==
  [type |-> "HELLO", protocol |-> v, client |-> Value, client_version |-> Value,
   capabilities |-> Value]

make_hello_ack(v, session) ==
  [type |-> "HELLO_ACK", protocol |-> v, server |-> Value, server_version |-> Value,
   session_id |-> session, capabilities |-> Value]

make_ready(v, session, state) ==
  [version |-> v, type |-> "READY", session_id |-> session, timestamp |-> Value,
   state |-> state, capabilities |-> Value]

make_request(v, session, request, command) ==
  [version |-> v, type |-> "REQUEST", request_id |-> request, session_id |-> session,
   timestamp |-> Value, command |-> command, payload |-> Value]

make_response(v, session, request, status, code) ==
  [version |-> v, type |-> "RESPONSE", request_id |-> request, session_id |-> session,
   timestamp |-> Value, status |-> status, code |-> code, payload |-> Value]

make_event(v, session, event_type, source) ==
  [version |-> v, type |-> "EVENT", event_id |-> Value, session_id |-> session,
   timestamp |-> Value, pid |-> Value, tid |-> Value, event_type |-> event_type,
   source |-> source, payload |-> Value]

make_ping(v, seq) == [version |-> v, type |-> "PING", timestamp |-> Value, seq |-> seq]
make_pong(v, seq) == [version |-> v, type |-> "PONG", timestamp |-> Value, seq |-> seq]

make_error(v, session, request, code) ==
  [version |-> v, type |-> "ERROR", request_id |-> request, session_id |-> session,
   timestamp |-> Value, error |-> to_dict(code)]

\* What the native server builds by itself, member by member.
build_hello_ack(v, session) ==
  [type |-> "HELLO_ACK", protocol |-> v, server |-> Value, server_version |-> Value,
   session_id |-> session, capabilities |-> Value]
build_ready(v, session) ==
  [version |-> v, type |-> "READY", session_id |-> session, timestamp |-> Value,
   state |-> "RUNNING", capabilities |-> Value]
build_pong(seq) == [type |-> "PONG", seq |-> seq]
build_response(v, session, request, status, code) ==
  [version |-> v, type |-> "RESPONSE", request_id |-> request, session_id |-> session,
   timestamp |-> Value, status |-> status, code |-> code, payload |-> Value]

-----------------------------------------------------------------------------
(* What a message must have *)

SessionState ==
  {"CREATED", "STARTING", "RUNTIME_READY", "NETWORK_READY", "RUNNING", "PAUSED", "STOPPING",
   "CLOSED", "DEGRADED", "FAILED", "ERROR"}

REQUIRED_FIELDS ==
  [HELLO     |-> {"type", "protocol", "client", "client_version", "capabilities"},
   HELLO_ACK |-> {"type", "protocol", "server", "server_version", "session_id", "capabilities"},
   READY     |-> {"version", "type", "timestamp", "session_id", "state", "capabilities"},
   REQUEST   |-> {"version", "type", "timestamp", "request_id", "session_id", "command", "payload"},
   RESPONSE  |-> {"version", "type", "timestamp", "request_id", "session_id", "status", "code",
                  "payload"},
   EVENT     |-> {"version", "type", "timestamp", "event_id", "session_id", "pid", "tid",
                  "event_type", "source", "payload"},
   PING      |-> {"version", "type", "timestamp", "seq"},
   PONG      |-> {"version", "type", "timestamp", "seq"},
   ERROR     |-> {"version", "type", "timestamp", "request_id", "session_id", "error"}]

\* An unknown type, or none at all: message_type_of()
Malformed(m) == "type" \notin DOMAIN m \/ m.type \notin DOMAIN REQUIRED_FIELDS

Incomplete(m, strict) ==
  \/ ~(REQUIRED_FIELDS[m.type] \subseteq DOMAIN m)
  \/ strict /\ ~(DOMAIN m \subseteq REQUIRED_FIELDS[m.type])

BadValue(m) ==
  \/ m.type = "EVENT" /\ m.event_type \notin EVENT_TYPES
  \/ m.type = "READY" /\ m.state \notin SessionState
  \/ m.type = "ERROR" /\ "code" \notin DOMAIN m.error

\* The type of the message, or the error it raises.
validate(m, strict) ==
  IF Malformed(m) THEN "E_MALFORMED_FRAME"
  ELSE IF Incomplete(m, strict) \/ BadValue(m) THEN "E_BAD_ARGS"
  ELSE IF m.type = "REQUEST" /\ ~CanAsk(m.command) THEN "E_UNKNOWN_CMD"
  ELSE m.type

\* HELLO and HELLO_ACK say `protocol`, the others `version`.
SaysVersion(m, v) ==
  IF "protocol" \in DOMAIN m THEN m.protocol = v ELSE "version" \in DOMAIN m /\ m.version = v

-----------------------------------------------------------------------------
(* The handshake *)

\* MockRuntimeServer._do_handshake(): the first message is fine, or what is
\* wrong with it
HelloFault(v, m) ==
  IF m.type # "HELLO" THEN "E_MALFORMED_FRAME"
  ELSE IF ~SaysVersion(m, v) THEN "ERROR_PROTOCOL_VERSION"
  ELSE "none"

\* handle_connection() of the native server does not look at the version.
NativeHelloFine(m) == "type" \in DOMAIN m /\ m.type = "HELLO"

\* BridgeClient._handshake(): the two messages with which the link comes up
Accepts(v, ack, ready) ==
  /\ ack.type = "HELLO_ACK" /\ SaysVersion(ack, v)
  /\ ready.type = "READY" /\ SaysVersion(ready, v)
  /\ validate(ready, FALSE) = "READY"
  /\ ready.session_id = ack.session_id

-----------------------------------------------------------------------------
(* Answers, and how _dispatch() and call() understand them *)

\* The commands the native server executes, and those it knows of
NativeCommands ==
  {"session.list", "session.info", "session.capabilities", "process.list", "process.info",
   "process.modules", "process.threads", "memory.maps", "memory.read", "runtime.status"}
NativeUnfinished ==
  {"memory.dump", "memory.write", "network.connections", "network.dns", "packet.get",
   "packet.list", "artifact.get", "artifact.list", "device.info", "device.list",
   "device.root_status", "job.status", "job.result", "job.cancel", "runtime.hook",
   "runtime.hook_info", "runtime.unhook"}

\* What a command may be answered
handle_request(v, session, request, command) ==
  LET ok        == build_response(v, session, request, "ok", "OK")
      err(code) == build_response(v, session, request, "error", code)
  IN  CASE command = "memory.read"      -> {ok, err("E_BAD_ARGS")}
        [] command \in NativeCommands \ {"memory.read"} -> {ok}
        [] command \in NativeUnfinished -> {err("E_NOT_READY")}
        [] OTHER                        -> {err("E_UNKNOWN_CMD")}

\* "OK", or the code of the error call() raises
Verdict(m) ==
  IF m.type = "ERROR" THEN Understood(m.error.code)
  ELSE IF m.status = "error" THEN Understood(m.code)
  ELSE "OK"

=============================================================================
