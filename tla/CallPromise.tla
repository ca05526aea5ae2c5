----------------------------- MODULE CallPromise -----------------------------
(***************************************************************************)
(* What call() promises its callers, whatever happens to the link: a call  *)
(* is bound to one session, ends at most once, and if it ends with data    *)
(* the data is of that session.  PendingCalls implements it.               *)
(***************************************************************************)
CONSTANTS
  Calls,       \* calls made
  Sessions,    \* sessions there may be
  NoSession    \* not a session

VARIABLES
  bound,    \* the session a call was made in
  ending,   \* how a call ended, or "none"
  data      \* the session the data a call returned is of

vars == <<bound, ending, data>>

Endings == {"response", "error", "refused", "timeout", "raised"}

Init ==
  /\ bound = [c \in Calls |-> NoSession]
  /\ ending = [c \in Calls |-> "none"]
  /\ data = [c \in Calls |-> NoSession]

\* A call is made in the session of the moment.
Bind(c) ==
  /\ ending[c] = "none" /\ bound[c] = NoSession
  /\ \E s \in Sessions : bound' = [bound EXCEPT ![c] = s]
  /\ UNCHANGED <<ending, data>>

\* There is no link or no session, or no longer; or the session was taken away
\* while the client looked at it, and what the caller gets is no ProtocolError.
Refuse(c) ==
  /\ ending[c] = "none"
  /\ \E how \in {"refused", "raised"} : ending' = [ending EXCEPT ![c] = how]
  /\ UNCHANGED <<bound, data>>

\* Data of the call's own session.
Answer(c) ==
  /\ ending[c] = "none" /\ bound[c] # NoSession
  /\ ending' = [ending EXCEPT ![c] = "response"]
  /\ data' = [data EXCEPT ![c] = bound[c]]
  /\ UNCHANGED bound

\* An error of the server or of the lost link, or a timeout.
Fail(c) ==
  /\ ending[c] = "none" /\ bound[c] # NoSession
  /\ \E how \in {"error", "timeout"} : ending' = [ending EXCEPT ![c] = how]
  /\ UNCHANGED <<bound, data>>

Next == \E c \in Calls : Bind(c) \/ Refuse(c) \/ Answer(c) \/ Fail(c)

Spec == Init /\ [][Next]_vars

=============================================================================
