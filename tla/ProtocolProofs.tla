--------------------------- MODULE ProtocolProofs ---------------------------
(***************************************************************************)
(* Proofs about the messages and errors of Protocol, for any versions,     *)
(* sessions, identifiers and commands.                                     *)
(***************************************************************************)
EXTENDS Protocol, TLAPS

-----------------------------------------------------------------------------
(* Commands *)

\* A command is FAST or JOB, never both (the table is a dictionary of its
\* names, and commands.py asserts that none is there twice), and all that the
\* native server knows can be asked for.
THEOREM CommandsTheorem ==
  /\ FAST_COMMANDS \cap JOB_COMMANDS = {}
  /\ NativeCommands \cup NativeUnfinished \subseteq COMMANDS
  /\ NativeCommands \cap NativeUnfinished = {}
  BY DEF FAST_COMMANDS, JOB_COMMANDS, COMMANDS, NativeCommands, NativeUnfinished

-----------------------------------------------------------------------------
(* Messages *)

\* A version can be read back, whichever name its field has.
LEMMA VersionRead ==
  ASSUME NEW v, NEW w, NEW s, NEW state
  PROVE  /\ SaysVersion(make_hello(v), w) <=> v = w
         /\ SaysVersion(make_hello_ack(v, s), w) <=> v = w
         /\ SaysVersion(build_hello_ack(v, s), w) <=> v = w
         /\ SaysVersion(make_ready(v, s, state), w) <=> v = w
         /\ SaysVersion(build_ready(v, s), w) <=> v = w
  BY DEF SaysVersion, make_hello, make_hello_ack, build_hello_ack, make_ready, build_ready

LEMMA HandshakeValid ==
  ASSUME NEW v, NEW s, NEW state \in SessionState
  PROVE  /\ validate(make_hello(v), TRUE) = "HELLO"
         /\ validate(make_hello_ack(v, s), TRUE) = "HELLO_ACK"
         /\ validate(make_ready(v, s, state), TRUE) = "READY"
  BY DEF validate, Malformed, Incomplete, BadValue, REQUIRED_FIELDS, make_hello,
         make_hello_ack, make_ready

LEMMA CallValid ==
  ASSUME NEW v, NEW s, NEW r, NEW command, CanAsk(command), NEW status, NEW code
  PROVE  /\ validate(make_request(v, s, r, command), TRUE) = "REQUEST"
         /\ validate(make_response(v, s, r, status, code), TRUE) = "RESPONSE"
         /\ validate(make_error(v, s, r, code), TRUE) = "ERROR"
  BY DEF validate, Malformed, Incomplete, BadValue, REQUIRED_FIELDS, make_request,
         make_response, make_error, to_dict

LEMMA NewsValid ==
  ASSUME NEW v, NEW s, NEW seq, NEW event_type, NEW source,
         CanTell(event_type, source)
  PROVE  /\ validate(make_event(v, s, event_type, source), TRUE) = "EVENT"
         /\ validate(make_ping(v, seq), TRUE) = "PING"
         /\ validate(make_pong(v, seq), TRUE) = "PONG"
  BY DEF validate, Malformed, Incomplete, BadValue, REQUIRED_FIELDS, make_event,
         make_ping, make_pong, CanTell

\* The native server writes its messages member by member: all but the PONG
\* have exactly the fields the host requires of them.
LEMMA NativeValid ==
  ASSUME NEW v, NEW s, NEW r, NEW status, NEW code
  PROVE  /\ validate(build_hello_ack(v, s), TRUE) = "HELLO_ACK"
         /\ validate(build_ready(v, s), TRUE) = "READY"
         /\ validate(build_response(v, s, r, status, code), TRUE) = "RESPONSE"
  BY DEF validate, Malformed, Incomplete, BadValue, REQUIRED_FIELDS, build_hello_ack,
         build_ready, build_response, SessionState

\* A READY that lacks nothing is still valid where unknown fields are allowed.
LEMMA StrictIsStricter ==
  ASSUME NEW m, NEW t, validate(m, TRUE) = t, t \in DOMAIN REQUIRED_FIELDS
  PROVE  validate(m, FALSE) = t
  BY DEF validate, Incomplete, REQUIRED_FIELDS

\* The heartbeat of the native server is not the message the table requires:
\* build_pong() leaves out version and timestamp.  It works because _dispatch()
\* does not validate what it gets.
THEOREM NativePongIncomplete ==
  ASSUME NEW seq
  PROVE  validate(build_pong(seq), FALSE) = "E_BAD_ARGS"
  BY DEF validate, Malformed, Incomplete, BadValue, REQUIRED_FIELDS, build_pong

-----------------------------------------------------------------------------
(* The handshake *)

\* A client of version v and a server of version w: the link comes up exactly
\* if they agree, with the mock server, which refuses the HELLO, and with the
\* native one, which does not look at it and leaves the refusal to the client.
THEOREM VersionsTheorem ==
  ASSUME NEW v, NEW w, NEW s, NEW state \in SessionState
  PROVE  /\ HelloFault(w, make_hello(v)) = "none" <=> v = w
         /\ Accepts(v, make_hello_ack(w, s), make_ready(w, s, state)) <=> v = w
         /\ NativeHelloFine(make_hello(v))
         /\ Accepts(v, build_hello_ack(w, s), build_ready(w, s)) <=> v = w
<1>1. HelloFault(w, make_hello(v)) = "none" <=> v = w
  <2>1. make_hello(v).type = "HELLO"
    BY DEF make_hello
  <2>2. QED
    BY <2>1, VersionRead DEF HelloFault
<1>2. NativeHelloFine(make_hello(v))
  BY DEF NativeHelloFine, make_hello
<1>3. /\ validate(make_ready(w, s, state), FALSE) = "READY"
      /\ validate(build_ready(w, s), FALSE) = "READY"
  <2>1. "READY" \in DOMAIN REQUIRED_FIELDS
    BY DEF REQUIRED_FIELDS
  <2>2. QED
    BY <2>1, HandshakeValid, NativeValid, StrictIsStricter
<1>4. /\ make_hello_ack(w, s).type = "HELLO_ACK" /\ make_hello_ack(w, s).session_id = s
      /\ build_hello_ack(w, s).type = "HELLO_ACK" /\ build_hello_ack(w, s).session_id = s
      /\ make_ready(w, s, state).type = "READY" /\ make_ready(w, s, state).session_id = s
      /\ build_ready(w, s).type = "READY" /\ build_ready(w, s).session_id = s
  BY DEF make_hello_ack, build_hello_ack, make_ready, build_ready
<1>5. QED
  BY <1>1, <1>2, <1>3, <1>4, VersionRead DEF Accepts

\* Whatever arrives first, a client never takes HELLO_ACK and READY of two
\* sessions for one, nor anything else for a READY.
LEMMA AcceptedSession ==
  ASSUME NEW v, NEW s, NEW r, NEW state,
         Accepts(v, make_hello_ack(v, s), make_ready(v, r, state))
  PROVE  r = s
  BY DEF Accepts, make_hello_ack, make_ready

-----------------------------------------------------------------------------
(* Errors *)

\* No error that blames the request invites to send it again.
THEOREM BlameIsFinal ==
  ASSUME NEW code, to_mcp_exception(code).form = "MCPError"
  PROVE  ~to_mcp_exception(code).retryable
  BY DEF to_mcp_exception, to_dict, ProtocolLayer, Retryable

\* Whatever code an answer carries, call() returns or raises an ErrorCode, and
\* a code that is one arrives as it was sent.
THEOREM VerdictTheorem ==
  ASSUME NEW v, NEW s, NEW r, NEW code
  PROVE  /\ Verdict(make_response(v, s, r, "ok", "OK")) = "OK"
         /\ Verdict(make_error(v, s, r, code)) \in ErrorCode
         /\ Verdict(make_response(v, s, r, "error", code)) \in ErrorCode
         /\ code \in ErrorCode => /\ Verdict(make_error(v, s, r, code)) = code
                                  /\ Verdict(make_response(v, s, r, "error", code)) = code
<1>1. Understood(code) \in ErrorCode /\ (code \in ErrorCode => Understood(code) = code)
  BY DEF Understood, ErrorCode
<1>2. /\ Verdict(make_error(v, s, r, code)) = Understood(code)
      /\ Verdict(make_response(v, s, r, "error", code)) = Understood(code)
      /\ Verdict(make_response(v, s, r, "ok", "OK")) = "OK"
  BY DEF Verdict, make_error, make_response, to_dict
<1>3. QED
  BY <1>1, <1>2

\* The tools apk.list, apk.launch, apk.stop and memory.search are offered with
\* the native Runtime, whose only capability is memory_read, but it answers
\* them with E_UNKNOWN_CMD: the caller is told that the request was wrong,
\* although "what is not implemented is reported as E_NOT_READY".
THEOREM UnfinishedBlamesCaller ==
  ASSUME NEW v, NEW s, NEW r,
         NEW command \in {"apk.list", "apk.launch", "apk.stop", "memory.search"},
         NEW m \in handle_request(v, s, r, command)
  PROVE  to_mcp_exception(Verdict(m)).form = "MCPError"
<1>1. m = build_response(v, s, r, "error", "E_UNKNOWN_CMD")
  <2>1. command \notin NativeCommands \cup NativeUnfinished /\ command # "memory.read"
    BY DEF NativeCommands, NativeUnfinished
  <2>2. QED
    BY <2>1 DEF handle_request
<1>2. Verdict(m) = "E_UNKNOWN_CMD"
  BY <1>1 DEF Verdict, build_response, Understood, ErrorCode, ProtocolLayer
<1>3. QED
  BY <1>2 DEF to_mcp_exception, to_dict, ProtocolLayer

=============================================================================
