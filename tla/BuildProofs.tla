----------------------------- MODULE BuildProofs ----------------------------
(***************************************************************************)
(* Proofs about Build for any subprojects, however they are nested, any    *)
(* options and any number of faults.                                       *)
(***************************************************************************)
EXTENDS Build, TLAPS

Places == {"deps", "fetch", "gum", "setup", "ninja", "lib", "export", "link",
           "backup", "strip", "verify", "place", "pack"}

\* What a build that has come so far has in hand.
RunInv ==
  /\ faults \in Nat
  /\ pc \in Places \cup {"idle", "wrap", "copy"}
  /\ pc \in Places => mode \in Modes /\ args.skip_gum \in BOOLEAN
  /\ so \in [Modes -> File]
  /\ pc \in {"backup", "strip", "verify", "place"} => so[mode] # None
  /\ pc = "strip" => backup = so[mode]
  /\ pc = "verify" => so[mode] \in Images /\ backup \in Images

\* The Frida-Gum of a full build goes from libgum.a to the zip.
GumInv ==
  pc \in Places /\ ~args.skip_gum =>
    /\ pc \in {"export", "link"} => gum_lib = mode /\ mode \in stale
    /\ pc \in {"backup", "strip", "verify", "place"} /\ so[mode] \in Images => so[mode].gum = mode
    /\ pc = "verify" => backup.gum = mode
    /\ pc = "pack" /\ mod_so \in Images => mod_so.gum = mode

\* Without a fault, and with each check able to look, a library without its
\* entry exists only until the check.
EntryInv ==
  faults = 0 /\ ~unseen =>
    /\ \A m \in Modes : so[m] \in Images /\ ~so[m].entry => pc = "verify" /\ mode = m
    /\ pc = "verify" => backup.entry
    /\ mod_so \in Images => mod_so.entry
    /\ \A m \in Modes : zip[m] \in Images => zip[m].entry

IInv == RunInv /\ GumInv /\ EntryInv /\ zip \in [Modes -> File] /\ mod_so \in File

-----------------------------------------------------------------------------
(* The shape of the steps                                                  *)

Prefetching == (\E o \in Invocations : PrefetchStart(o)) \/ PrefetchStep
Fetching == CheckDeps \/ FetchExtracts \/ FetchDone \/ FetchFails \/ FetchEnds
Gathering == ReuseGum \/ WriteCross \/ MesonSetup \/ NinjaGum \/ ExportLibs

LEMMA NextCases ==
  ASSUME Next
  PROVE  \/ Prefetching /\ UNCHANGED outVars
         \/ \E m \in Modes, s \in BOOLEAN : BuildStart(m, s)
         \/ Fetching \/ Gathering \/ CopyGum \/ LinkNative \/ KeepBackup \/ Strip
         \/ StripVerified \/ RestoreBackup \/ PlaceSo \/ build_zip \/ BuildFails \/ Killed
  BY DEF Next, BuildStep, Prefetching, Fetching, Gathering

\* Nothing is left behind torn without a fault.
LEMMA WritesShape ==
  ASSUME NEW here, NEW there, NEW finished \in BOOLEAN, Writes(here, there, finished), faults \in Nat
  PROVE  /\ pc = here
         /\ \/ /\ finished /\ pc' = there /\ UNCHANGED faults
               /\ args' = IF there = "idle" THEN None ELSE args
            \/ ~finished /\ pc' = "idle" /\ faults' = faults + 1 /\ faults' # 0
  BY DEF Writes, Goes, Fault

LEMMA PrefetchShape ==
  ASSUME Prefetching, RunInv
  PROVE  /\ pc \in {"idle", "wrap", "copy"} /\ pc' \in {"idle", "wrap", "copy"}
         /\ faults' \in Nat /\ (faults' = 0 => faults = 0)
  BY DEF Prefetching, PrefetchStart, PrefetchStep, PrefetchPasses, PrefetchFails, PrefetchClears,
         PrefetchCopies, PrefetchCopied, PrefetchEnds, NextWrap, Fault, RunInv

LEMMA FetchShape ==
  ASSUME Fetching, RunInv
  PROVE  /\ pc \in {"deps", "fetch"} /\ pc' \in {"fetch", "gum"}
         /\ UNCHANGED args /\ UNCHANGED outVars
         /\ faults' \in Nat /\ (faults' = 0 => faults = 0)
  BY DEF Fetching, CheckDeps, FetchExtracts, FetchDone, FetchFails, FetchEnds, Runs, Goes, Fault, RunInv

LEMMA GatherShape ==
  ASSUME Gathering, RunInv
  PROVE  /\ pc \in Places /\ pc' \in {"idle", "setup", "ninja", "lib", "export", "link"}
         /\ pc' # "idle" => UNCHANGED args
         /\ pc' = "export" => args.skip_gum
         /\ pc' = "link" => pc = "export"
         /\ pc \notin {"backup", "strip", "verify", "place", "pack"}
         /\ UNCHANGED <<gum_lib, so, stale, backup, mod_so, zip, unseen>>
         /\ faults' \in Nat /\ (faults' = 0 => faults = 0)
<1>1. CASE ReuseGum \/ MesonSetup \/ NinjaGum \/ ExportLibs
  BY <1>1 DEF ReuseGum, MesonSetup, NinjaGum, ExportLibs, SkipGum, Runs, Goes, RunInv, outVars, Places
<1>2. CASE WriteCross
  BY <1>2 DEF WriteCross, Writes, Goes, Fault, RunInv, Places
<1>3. QED
  BY <1>1, <1>2 DEF Gathering

\* A step that leaves the libraries alone and does not go to a later command
LEMMA Kept ==
  ASSUME IInv, UNCHANGED <<gum_lib, so, stale, backup, mod_so, zip, unseen>>,
         faults' \in Nat, faults' = 0 => faults = 0 /\ pc # "verify",
         pc' \in {"idle", "wrap", "copy"}
         \/ /\ pc' \in {"deps", "fetch", "gum", "setup", "ninja", "lib"}
            /\ args'.mode \in Modes /\ args'.skip_gum \in BOOLEAN
         \/ /\ pc' = "export" /\ args'.mode \in Modes /\ args'.skip_gum = TRUE
         \/ /\ pc' = "link" /\ pc = "export" /\ UNCHANGED args
  PROVE  IInv'
<1>1. RunInv'
  BY DEF IInv, RunInv, Places, mode
<1>2. GumInv'
  BY DEF IInv, RunInv, GumInv, Places, mode
<1>3. EntryInv'
  BY DEF IInv, EntryInv
<1>4. QED
  BY <1>1, <1>2, <1>3 DEF IInv

-----------------------------------------------------------------------------

LEMMA InitInv == Init => IInv
  BY TornAssumption DEF Init, DepsInit, IInv, RunInv, GumInv, EntryInv, Places, File

LEMMA InvStep ==
  ASSUME IInv, [Next]_vars
  PROVE  IInv'
<1>1. CASE UNCHANGED vars
  BY <1>1 DEF vars, depVars, outVars, IInv, RunInv, GumInv, EntryInv, mode
<1>2. CASE Prefetching /\ UNCHANGED outVars
  BY <1>2, PrefetchShape, Kept DEF IInv, outVars
<1>3. ASSUME NEW m \in Modes, NEW s \in BOOLEAN, BuildStart(m, s)
      PROVE  IInv'
  <2>1. /\ pc = "idle" /\ pc' = "deps" /\ args' = [mode |-> m, skip_gum |-> s]
        /\ UNCHANGED faults /\ UNCHANGED outVars
    BY <1>3 DEF BuildStart
  <2>2. QED
    BY <2>1, Kept DEF IInv, RunInv, outVars
<1>4. CASE Fetching
  BY <1>4, FetchShape, Kept DEF IInv, RunInv, outVars, Places, mode
<1>5. CASE Gathering
  BY <1>5, GatherShape, Kept DEF IInv, RunInv, Places, mode
<1>6. CASE BuildFails \/ Killed
  <2>1. /\ pc' = "idle" /\ UNCHANGED outVars
        /\ faults' \in Nat /\ (faults' = 0 => faults = 0 /\ pc # "verify")
    BY <1>6 DEF BuildFails, Killed, Runs, Goes, IInv, RunInv
  <2>2. QED
    BY <2>1, Kept DEF outVars
<1>7. CASE CopyGum
  <2>1. PICK finished \in BOOLEAN :
          Writes("lib", "export", finished) /\ gum_lib' = Content(mode, finished)
    BY <1>7 DEF CopyGum
  <2>2. stale' = Modes /\ UNCHANGED <<so, backup, mod_so, zip, unseen>>
    BY <1>7 DEF CopyGum
  <2>3. \/ /\ finished /\ pc = "lib" /\ pc' = "export" /\ UNCHANGED <<faults, args>>
        \/ pc' = "idle" /\ faults' \in Nat /\ faults' # 0
    BY <2>1, WritesShape DEF IInv, RunInv
  <2>4. RunInv'
    BY <2>2, <2>3 DEF IInv, RunInv, Places, mode
  <2>5. GumInv'
    BY <2>1, <2>2, <2>3 DEF IInv, RunInv, GumInv, Places, mode, Content
  <2>6. EntryInv'
    BY <2>2, <2>3 DEF IInv, EntryInv
  <2>7. QED
    BY <2>2, <2>4, <2>5, <2>6 DEF IInv
<1>8. CASE LinkNative
  <2>1. /\ pc = "link" /\ pc' = IF mode = "debug" THEN "place" ELSE "backup"
        /\ UNCHANGED <<args, faults, backup, mod_so, zip, gum_lib, unseen>>
    BY <1>8 DEF LinkNative, Runs, Goes
  <2>2. mode \in Modes /\ UNCHANGED mode
    BY <2>1 DEF IInv, RunInv, Places, mode
  <2>3. CASE UpToDate
    <3>1. so[mode] # None /\ mode \notin stale /\ UNCHANGED so
      BY <1>8, <2>3 DEF LinkNative, UpToDate
    <3>2. RunInv' /\ EntryInv'
      BY <2>1, <2>2, <3>1 DEF IInv, RunInv, EntryInv, Places, mode
    <3>3. GumInv'
      BY <2>1, <2>2, <3>1 DEF IInv, RunInv, GumInv, Places, mode
    <3>4. QED
      BY <2>1, <3>2, <3>3 DEF IInv
  <2>4. CASE ~UpToDate
    <3>1. /\ gum_lib \in Modes
          /\ so' = [so EXCEPT ![mode] = [gum |-> gum_lib, stripped |-> FALSE, entry |-> TRUE]]
      BY <1>8, <2>4 DEF LinkNative, CanLink
    <3>2. /\ so'[mode] = [gum |-> gum_lib, stripped |-> FALSE, entry |-> TRUE]
          /\ so'[mode] \in Images
          /\ \A m \in Modes : m # mode => so'[m] = so[m]
          /\ so' \in [Modes -> File]
      BY <2>2, <3>1 DEF IInv, RunInv, Images, File
    <3>3. RunInv'
      BY <2>1, <2>2, <3>2, TornAssumption DEF IInv, RunInv, Places, mode
    <3>4. GumInv'
      BY <2>1, <2>2, <3>2 DEF IInv, RunInv, GumInv, Places, mode
    <3>5. EntryInv'
      BY <2>1, <2>2, <3>2 DEF IInv, EntryInv, mode
    <3>6. QED
      BY <2>1, <3>3, <3>4, <3>5 DEF IInv
  <2>5. QED
    BY <2>3, <2>4
<1>9. CASE KeepBackup
  <2>1. PICK finished \in BOOLEAN :
          Writes("backup", "strip", finished) /\ backup' = Content(so[mode], finished)
    BY <1>9 DEF KeepBackup
  <2>2. UNCHANGED <<so, gum_lib, stale, mod_so, zip, unseen>>
    BY <1>9 DEF KeepBackup
  <2>3. \/ /\ finished /\ pc = "backup" /\ pc' = "strip"
           /\ UNCHANGED <<faults, args>> /\ backup' = so[mode]
        \/ pc' = "idle" /\ faults' \in Nat /\ faults' # 0
    BY <2>1, WritesShape DEF IInv, RunInv, Content
  <2>4. RunInv'
    BY <2>2, <2>3 DEF IInv, RunInv, Places, mode
  <2>5. GumInv'
    BY <2>2, <2>3 DEF IInv, RunInv, GumInv, Places, mode
  <2>6. EntryInv'
    BY <2>2, <2>3 DEF IInv, EntryInv
  <2>7. QED
    BY <2>2, <2>4, <2>5, <2>6 DEF IInv
<1>10. CASE Strip
  <2>1. /\ pc = "strip" /\ pc' = "verify" /\ so[mode] # Torn
        /\ UNCHANGED <<args, faults, gum_lib, stale, backup, mod_so, zip, unseen>>
    BY <1>10 DEF Strip, Runs, Goes
  <2>2. mode \in Modes /\ UNCHANGED mode /\ so[mode] \in Images /\ backup = so[mode]
    BY <2>1 DEF IInv, RunInv, Places, mode, File
  <2>3. PICK kept \in BOOLEAN :
          so' = [so EXCEPT ![mode].stripped = TRUE, ![mode].entry = @ /\ kept]
    BY <1>10 DEF Strip
  <2>4. /\ so'[mode] \in Images /\ so'[mode].gum = so[mode].gum
        /\ \A m \in Modes : m # mode => so'[m] = so[m]
        /\ so' \in [Modes -> File]
    BY <2>2, <2>3 DEF IInv, RunInv, Images, File
  <2>5. RunInv'
    BY <2>1, <2>2, <2>4, TornAssumption DEF IInv, RunInv, Places, mode
  <2>6. GumInv'
    BY <2>1, <2>2, <2>4 DEF IInv, RunInv, GumInv, Places, mode
  <2>7. EntryInv'
    BY <2>1, <2>2, <2>4 DEF IInv, EntryInv, mode
  <2>8. QED
    BY <2>1, <2>5, <2>6, <2>7 DEF IInv
<1>11. CASE StripVerified
  <2>1. /\ pc = "verify" /\ pc' = "place" /\ (so[mode].entry \/ unseen') /\ (unseen => unseen')
        /\ UNCHANGED <<args, faults, so, gum_lib, stale, backup, mod_so, zip>>
    BY <1>11 DEF StripVerified, Runs, Goes, has_zygisk_entry
  <2>2. RunInv' /\ GumInv'
    BY <2>1 DEF IInv, RunInv, GumInv, Places, mode
  <2>3. EntryInv'
    BY <2>1 DEF IInv, EntryInv, mode
  <2>4. QED
    BY <2>1, <2>2, <2>3 DEF IInv
<1>12. CASE RestoreBackup
  <2>1. PICK finished \in BOOLEAN :
          /\ Writes("verify", "place", finished)
          /\ so' = [so EXCEPT ![mode] = Content(backup, finished)]
    BY <1>12 DEF RestoreBackup
  <2>2. pc = "verify" /\ UNCHANGED <<gum_lib, stale, backup, mod_so, zip, unseen>>
    BY <1>12 DEF RestoreBackup
  <2>3. mode \in Modes /\ backup \in Images
    BY <2>2 DEF IInv, RunInv, Places
  <2>4. so' \in [Modes -> File]
    BY <2>1, <2>3 DEF IInv, RunInv, Content, File
  <2>5. CASE finished
    <3>1. pc' = "place" /\ UNCHANGED <<faults, args, mode>>
      <4>1. pc' = "place" /\ UNCHANGED <<faults, args>>
        BY <2>1, <2>5 DEF Writes, Goes
      <4>2. QED
        BY <4>1 DEF mode
    <3>2. so'[mode] = backup /\ \A m \in Modes : m # mode => so'[m] = so[m]
      BY <2>1, <2>3, <2>5 DEF IInv, RunInv, Content
    <3>3. RunInv'
      BY <2>2, <2>3, <2>4, <3>1, <3>2, TornAssumption DEF IInv, RunInv, Places, mode
    <3>4. GumInv'
      BY <2>2, <2>3, <3>1, <3>2 DEF IInv, RunInv, GumInv, Places, mode
    <3>5. EntryInv'
      BY <2>2, <2>3, <3>1, <3>2 DEF IInv, EntryInv, mode
    <3>6. QED
      BY <2>2, <3>3, <3>4, <3>5 DEF IInv
  <2>6. CASE ~finished
    <3>1. pc' = "idle" /\ faults' \in Nat /\ faults' # 0
      BY <2>1, <2>6, WritesShape DEF IInv, RunInv
    <3>2. QED
      BY <2>2, <2>4, <3>1 DEF IInv, RunInv, GumInv, EntryInv, Places
  <2>7. QED
    BY <2>5, <2>6
<1>13. CASE PlaceSo
  <2>1. PICK finished \in BOOLEAN :
          Writes("place", "pack", finished) /\ mod_so' = Content(so[mode], finished)
    BY <1>13 DEF PlaceSo
  <2>2. UNCHANGED <<so, gum_lib, stale, backup, zip, unseen>>
    BY <1>13 DEF PlaceSo
  <2>3. /\ pc = "place" /\ mode \in Modes /\ so[mode] \in File
        /\ \/ finished /\ pc' = "pack" /\ UNCHANGED <<faults, args>> /\ mod_so' = so[mode]
           \/ pc' = "idle" /\ faults' \in Nat /\ faults' # 0
    BY <2>1, WritesShape DEF IInv, RunInv, Content, Places
  <2>4. mod_so' \in File
    BY <2>1, <2>3 DEF Content, File
  <2>5. RunInv' /\ GumInv'
    BY <2>2, <2>3 DEF IInv, RunInv, GumInv, Places, mode
  <2>6. EntryInv'
    BY <2>2, <2>3 DEF IInv, EntryInv
  <2>7. QED
    BY <2>2, <2>4, <2>5, <2>6 DEF IInv
<1>14. CASE build_zip
  <2>1. PICK finished \in BOOLEAN :
          /\ Writes("pack", "idle", finished)
          /\ zip' = [zip EXCEPT ![mode] = Content(mod_so, finished)]
    BY <1>14 DEF build_zip
  <2>2. UNCHANGED <<so, gum_lib, stale, backup, mod_so, unseen>>
    BY <1>14 DEF build_zip
  <2>3. /\ pc = "pack" /\ mode \in Modes /\ pc' = "idle" /\ faults' \in Nat
        /\ (faults' = 0 => finished /\ faults = 0)
    BY <2>1, WritesShape DEF IInv, RunInv, Places
  <2>4. zip' \in [Modes -> File] /\ \A m \in Modes : zip'[m] \in {zip[m], Content(mod_so, finished)}
    BY <2>1, <2>3 DEF IInv, Content, File
  <2>5. RunInv' /\ GumInv'
    BY <2>2, <2>3 DEF IInv, RunInv, GumInv, Places
  <2>6. EntryInv'
    BY <2>2, <2>3, <2>4 DEF IInv, EntryInv, Content
  <2>7. QED
    BY <2>2, <2>4, <2>5, <2>6 DEF IInv
<1>15. QED
  BY <1>1, <1>2, <1>3, <1>4, <1>5, <1>6, <1>7, <1>8, <1>9, <1>10, <1>11, <1>12, <1>13, <1>14, NextCases

-----------------------------------------------------------------------------

\* The inductive invariant of builds: what each command leaves to the next.
THEOREM Invariance == Spec => []IInv
  BY InitInv, InvStep, PTL DEF Spec

\* Without a fault (a kill, a torn file, a failed fetch), and with an llvm-nm
\* in the NDK whenever strip takes zygisk_module_entry away, which it may do
\* every time, no zip has a library without it.
THEOREM EntryTheorem == Spec => []EntryShipped
<1>1. IInv => EntryShipped
  BY DEF IInv, RunInv, EntryInv, EntryShipped
<1>2. QED
  BY Invariance, <1>1, PTL

\* A full build puts the Frida-Gum of its own mode in its zip, whatever builds
\* of the other mode, and killed ones, have left in what the modes share.
THEOREM GumTheorem == Spec => FullBuildShipsOwnGum
<1> DEFINE Ships == \A m \in Modes :
              zip'[m] # zip[m] /\ zip'[m] \in Images /\ ~args.skip_gum => zip'[m].gum = m
<1>1. ASSUME IInv, [Next]_vars
      PROVE  Ships
  <2>1. CASE UNCHANGED zip
    BY <2>1
  <2>2. CASE build_zip
    <3>1. PICK finished \in BOOLEAN :
            /\ Writes("pack", "idle", finished)
            /\ zip' = [zip EXCEPT ![mode] = Content(mod_so, finished)]
      BY <2>2 DEF build_zip
    <3>2. pc = "pack" /\ mode \in Modes
      BY <1>1, <3>1 DEF Writes, Goes, IInv, RunInv, Places
    <3>3. \A m \in Modes : zip'[m] # zip[m] /\ zip'[m] \in Images => m = mode /\ zip'[m] = mod_so
      BY <1>1, <3>1, <3>2, TornAssumption DEF IInv, Content
    <3>4. QED
      BY <1>1, <3>2, <3>3 DEF IInv, GumInv, Places
  <2>3. QED
    <3>1. ASSUME Fetching \/ Gathering PROVE UNCHANGED zip
      BY <1>1, <3>1, FetchShape, GatherShape DEF IInv, outVars
    <3>2. QED
      BY <1>1, <2>1, <2>2, <3>1, NextCases
         DEF vars, outVars, BuildStart, CopyGum, LinkNative, KeepBackup, Strip, StripVerified,
             RestoreBackup, PlaceSo, BuildFails, Killed
<1>2. IInv /\ [Next]_vars => [Ships]_vars
  BY <1>1
<1>3. QED
  BY Invariance, <1>2, PTL DEF Spec, FullBuildShipsOwnGum

=============================================================================
