------------------------------ MODULE MCBuild ------------------------------
(***************************************************************************)
(* Build with one subproject nested in another, and both kinds of runs.    *)
(***************************************************************************)
EXTENDS Build

CONSTANTS glib, pcre2, v8

MCDeps == {glib, pcre2, v8}
MCInside == [d \in MCDeps |-> IF d = glib THEN {pcre2} ELSE {}]
\* only glib has anything nested among the rest of its files
MCArchive ==
  [d \in MCDeps |-> IF d = pcre2 THEN {"entry", "marker"} ELSE {"entry", "rest"}]
MCOrder == <<pcre2, glib, v8>>
MCInvocations == {[force |-> FALSE, skip |-> FALSE], [force |-> TRUE, skip |-> TRUE]}

\* fetch_subproject.py puts a lost wrap back before it fetches: when it has
\* ended, and nothing else went wrong, every required subproject has one.
LostWrapRestored == pc = "gum" /\ faults = 0 => \A d \in Required : HasWrap(d)

=============================================================================
