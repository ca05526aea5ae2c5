--------------------------- MODULE MCBridgeClient ---------------------------
(***************************************************************************)
(* Instances of BridgeClient for TLC, and what an error of the client says *)
(* to its caller that its threads do not keep.                             *)
(***************************************************************************)
EXTENDS BridgeClient

\* Heartbeats that all wake up and are all answered make a hundred times as
\* many states.  In the run for safety only the heartbeat of the last
\* connection wakes up, and nobody answers it; in the run for liveness the
\* first one pings whatever socket there is, the last one takes over when it
\* has ended, and any PING may be answered.
FirstBeats == {1}
LastBeats  == {MaxConn}
AllAnswer  == 1 .. MaxConn
None       == {}

\* "Wait until the automatic reconnect is done" (client.py:337): a client that
\* had a session, lost its link and was not closed has a reconnect under way.
LostLinkReconnects ==
  (link = "DISCONNECTED" /\ generation > 0 /\ ~closing /\ pc[App] = "idle")
    => \/ reconnecting
       \/ \E t \in Threads : pc[t] \in Losing
       \/ \E l \in Loops : pc[l] # "none"

=============================================================================
