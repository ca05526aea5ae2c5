------------------------------- MODULE MCHost ------------------------------
(***************************************************************************)
(* Instances of Host for TLC: two core tools and the summary, two expert   *)
(* tools of two groups, two capabilities.                                  *)
(***************************************************************************)
EXTENDS Host, TLC

CONSTANTS status, hook, caps_tool, search, export, memory, packet, typo, gum, java

MCCore == {status, hook, caps_tool}
MCExpert == {search, export}
MCGroups == {memory, packet}
Mcgroup == search :> memory @@ export :> packet
MCCaps == {gum, java}
MCrequires == status :> {} @@ caps_tool :> {} @@ hook :> {gum, java} @@ search :> {gum} @@ export :> {}
MCMountArgs == {memory, typo}
MCSpecs == {Tcp(60500), Unix, [scheme |-> "garbled", port |-> 0]}
MCGrants == {{}, {gum, java}}

\* "Wait for the automatic reconnect", says every E_NOT_READY: while the host
\* serves and the Runtime can be reached, the link comes up.
WaitingHelps ==
  [](mpc = "serving" /\ Reachable /\ Len(granted) < MaxSessions
       => <>(link = "up" \/ mpc # "serving" \/ ~Reachable))

=============================================================================
