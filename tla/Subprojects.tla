---------------------------- MODULE Subprojects ----------------------------
(***************************************************************************)
(* The source trees of Frida-Gum's dependencies on disk, and the program   *)
(* that fills them: scripts/prefetch_subprojects.py.  A subproject is a    *)
(* directory beside its .wrap file; the wraps of nested subprojects lie in *)
(* the directories of their parents, so they come and go with them.  A run *)
(* may be killed, or end with an exception it does not catch, at any       *)
(* moment: what it leaves on disk is what the next run finds.              *)
(***************************************************************************)
EXTENDS Naturals, Sequences, FiniteSets, SequencesExt

CONSTANTS Deps,         \* the subprojects
          Inside,       \* Inside[d]: the subprojects below the directory of d
          Archive,      \* Archive[d]: what the tree of d consists of, see Files
          WrapOrder,    \* all of them, as sorted() orders their wraps
          Optional,     \* OPTIONAL
          Unusable,     \* those whose wrap names no archive channel
          Invocations,  \* the options a run may be started with
          None,         \* no arguments, no file
          MaxFaults       \* bound: downloads that fail, runs that are killed

\* meson.build, another file looks_populated() knows (CMakeLists.txt,
\* configure, configure.ac, Makefile.am), and everything else
Files == {"entry", "marker", "rest"}

ASSUME InsideAssumption == Inside \in [Deps -> SUBSET Deps]
ASSUME ArchiveAssumption == Archive \in [Deps -> SUBSET Files]
ASSUME OrderAssumption ==
  /\ ToSet(WrapOrder) = Deps
  \* glib/subprojects/pcre2.wrap sorts before glib.wrap: nested wraps first
  /\ \A i, j \in 1..Len(WrapOrder) : WrapOrder[j] \in Inside[WrapOrder[i]] => j < i
ASSUME OptionAssumption == Invocations \subseteq [force : BOOLEAN, skip : BOOLEAN]

VARIABLES tree,    \* the files of every subproject on disk
          lost,    \* top-level wraps that are not on disk
          pc,      \* where the program that runs is
          wraps,   \* the subprojects it has still to handle
          args,    \* its arguments; None when nothing runs
          faults     \* what went wrong so far

depVars == <<tree, lost, pc, wraps, args, faults>>

Whole(d) == tree[d] = Archive[d]
HasWrap(d) == d \notin lost /\ \A p \in Deps : d \in Inside[p] => "rest" \in tree[p]
\* A faulty variant: a directory that is not empty counts as ready
AnyFilePopulated(d) == tree[d] # {}
looks_populated(d) == {"entry", "marker"} \cap tree[d] # {}

DepsInit ==
  /\ tree = [d \in Deps |-> {}]
  /\ lost \in SUBSET {d \in Deps : \A p \in Deps : d \notin Inside[p]}
  /\ pc = "idle" /\ wraps = <<>> /\ args = None /\ faults = 0

Fault == faults < MaxFaults /\ faults' = faults + 1

-----------------------------------------------------------------------------
(* main(): the list of wraps is made once, before anything is fetched *)

collect_wraps == SelectSeq(WrapOrder, HasWrap)

PrefetchStart(o) ==
  /\ pc = "idle"
  /\ pc' = "wrap" /\ wraps' = collect_wraps /\ args' = o
  /\ UNCHANGED <<tree, lost, faults>>

NextWrap == wraps' = Tail(wraps) /\ pc' = "wrap"

Passed(d) ==
  \/ args.skip /\ d \in Optional
  \/ ~args.force /\ looks_populated(d)

\* [skip], [have]
PrefetchPasses ==
  /\ pc = "wrap" /\ wraps # <<>> /\ Passed(Head(wraps))
  /\ NextWrap
  /\ UNCHANGED <<tree, lost, args, faults>>

\* no archive channel, a download that fails or is too small, an archive
\* without a single directory at its top: nothing on disk is touched
PrefetchFails ==
  /\ pc = "wrap" /\ wraps # <<>> /\ ~Passed(Head(wraps))
  /\ IF Head(wraps) \in Unusable THEN UNCHANGED faults ELSE Fault
  /\ NextWrap
  /\ UNCHANGED <<tree, lost, args>>

\* extract_zip() unpacks next door, removes the directory with all that is
\* nested in it, and copies the new one into its place file by file
PrefetchClears ==
  /\ pc = "wrap" /\ wraps # <<>> /\ ~Passed(Head(wraps)) /\ Head(wraps) \notin Unusable
  /\ LET d == Head(wraps)
     IN  tree' = [x \in Deps |-> IF x \in Inside[d] \cup {d} THEN {} ELSE tree[x]]
  /\ pc' = "copy"
  /\ UNCHANGED <<lost, wraps, args, faults>>

PrefetchCopies ==
  /\ pc = "copy"
  /\ \E f \in Archive[Head(wraps)] \ tree[Head(wraps)] :
       tree' = [tree EXCEPT ![Head(wraps)] = @ \cup {f}]
  /\ UNCHANGED <<lost, pc, wraps, args, faults>>

PrefetchCopied ==
  /\ pc = "copy" /\ Whole(Head(wraps))
  /\ NextWrap
  /\ UNCHANGED <<tree, lost, args, faults>>

PrefetchEnds ==
  /\ pc = "wrap" /\ wraps = <<>>
  /\ pc' = "idle" /\ args' = None
  /\ UNCHANGED <<tree, lost, wraps, faults>>

PrefetchStep ==
  \/ PrefetchPasses \/ PrefetchFails \/ PrefetchClears
  \/ PrefetchCopies \/ PrefetchCopied \/ PrefetchEnds
=============================================================================
