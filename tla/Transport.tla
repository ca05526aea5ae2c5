------------------------------ MODULE Transport -----------------------------
(***************************************************************************)
(* Endpoints as they are written, and as bridge/transport.py parses,       *)
(* connects to and listens at them: Unix domain sockets, which not every   *)
(* Python has, and TCP, whose port 0 means any free one.  A host name and  *)
(* a path are left out.                                                    *)
(***************************************************************************)
EXTENDS Integers

\* Nothing, "tcp:<host>:<port>", "tcp:" and then no colon or no number,
\* "unix:<path>", or a path alone; only the second has a port.
Written == [scheme : {"empty", "tcp", "garbled", "unix", "path"}, port : Int]

Tcp(port) == [scheme |-> "tcp", port |-> port]
Unix == [scheme |-> "unix", port |-> 0]

-----------------------------------------------------------------------------

PortNumbers == 0..65535

\* parse_endpoint() raises E_BAD_ARGS
Raises(spec) ==
  \/ spec.scheme \in {"empty", "garbled"}
  \/ spec.scheme = "tcp" /\ ~(spec.port \in PortNumbers)

parse_endpoint(spec) ==
  IF spec.scheme = "tcp" THEN [kind |-> "tcp", raw |-> spec, port |-> spec.port]
                         ELSE [kind |-> "unix", raw |-> Unix, port |-> 0]

is_unix(ep) == ep.kind = "unix"
with_port(ep, port) == [kind |-> ep.kind, raw |-> Tcp(port), port |-> port]

-----------------------------------------------------------------------------
(* Without AF_UNIX, connect() and listen() raise E_NOT_READY.              *)

\* connect() may find somebody there: nobody listens on port 0.
Connectable(ep, af_unix) == (is_unix(ep) => af_unix) /\ (~is_unix(ep) => ep.port # 0)

\* Where listen() may end up, if the system hands out one of these ports.
listen(ep, af_unix, free) ==
  IF is_unix(ep) THEN {e \in {ep} : af_unix}
  ELSE {with_port(ep, port) : port \in IF ep.port = 0 THEN free ELSE {ep.port}}

=============================================================================
