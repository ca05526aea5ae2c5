------------------------------- MODULE Build -------------------------------
(***************************************************************************)
(* scripts/build_all.py, with the programs it starts: from the subprojects *)
(* of Frida-Gum to the zip that Magisk installs.  One builddir, native     *)
(* directory and zip per mode; libgum.a, the exported link list and        *)
(* module/zygisk/<abi>.so are shared.  What a build finds on disk is what  *)
(* earlier builds, finished or killed, have left there.                    *)
(***************************************************************************)
EXTENDS Subprojects

CONSTANTS Required,  \* REQUIRED_SUBPROJECTS
          Needed,    \* the subprojects meson looks for, nested ones included
          Torn       \* a file whose writing was interrupted

ASSUME RequiredAssumption == Required \subseteq Needed /\ Needed \subseteq Deps

Modes == {"debug", "release"}
\* A linked library: whose Frida-Gum is in it, and what strip left of it
Images == [gum : Modes, stripped : BOOLEAN, entry : BOOLEAN]

ASSUME TornAssumption == None \notin Images /\ Torn \notin Images /\ None # Torn

VARIABLES cross,    \* the meson cross file
          conf,     \* the modes whose builddir has a build.ninja
          objs,     \* the modes whose builddir has libfrida-gum-1.0.a
          gum_lib,  \* libgum.a: the mode it was built in
          so,       \* libai_analyzer.so in the native directory of each mode
          stale,    \* the modes whose so is older than libgum.a
          backup,   \* libai_analyzer.so.unstripped (release only)
          mod_so,   \* module/zygisk/<abi>.so
          zip,      \* the zip of each mode
          unseen    \* history: a library lost its entry, and no llvm-nm to see it

outVars == <<cross, conf, objs, gum_lib, so, stale, backup, mod_so, zip, unseen>>
vars == <<depVars, outVars>>

mode == args.mode

File == Images \cup {None, Torn}

Init ==
  /\ DepsInit
  /\ cross = None /\ conf = {} /\ objs = {} /\ gum_lib = None
  /\ so = [m \in Modes |-> None] /\ stale = {} /\ backup = None
  /\ mod_so = None /\ zip = [m \in Modes |-> None]
  /\ unseen = FALSE

\* A command of main() that leads from one place to another
Goes(here, there) ==
  /\ pc = here /\ pc' = there
  /\ args' = IF there = "idle" THEN None ELSE args
  /\ UNCHANGED lost

\* A file is written, or the build is killed while it is being written
Writes(here, there, finished) ==
  /\ IF finished
     THEN Goes(here, there) /\ UNCHANGED faults
     ELSE Goes(here, "idle") /\ Fault
  /\ UNCHANGED <<tree, wraps>>

Content(c, finished) == IF finished THEN c ELSE Torn

Runs(here, there) == Goes(here, there) /\ UNCHANGED <<tree, wraps, faults>>

BuildStart(m, s) ==
  /\ pc = "idle"
  /\ pc' = "deps" /\ args' = [mode |-> m, skip_gum |-> s]
  /\ UNCHANGED <<tree, lost, wraps, faults, outVars>>

-----------------------------------------------------------------------------
(* 1. Required subprojects without meson.build are left to fetch_subproject.py, *)
(* which ends without an error whatever happens to them.                   *)

Missing(d) == d \in Required /\ "entry" \notin tree[d]

CheckDeps ==
  /\ Goes("deps", "fetch") /\ wraps' = SelectSeq(WrapOrder, Missing)
  /\ UNCHANGED <<tree, faults, outVars>>

\* unzips file by file over what is there
FetchExtracts ==
  /\ Goes("fetch", "fetch") /\ wraps # <<>> /\ HasWrap(Head(wraps))
  /\ \E f \in Archive[Head(wraps)] \ tree[Head(wraps)] :
       tree' = [tree EXCEPT ![Head(wraps)] = @ \cup {f}]
  /\ UNCHANGED <<wraps, faults, outVars>>

FetchDone ==
  /\ Goes("fetch", "fetch") /\ wraps # <<>> /\ Whole(Head(wraps))
  /\ wraps' = Tail(wraps)
  /\ UNCHANGED <<tree, faults, outVars>>

\* Any exception, at any moment of it: a download that fails, a file that
\* cannot be written, or the NameError (shutil is not imported) that the
\* restoring of a lost wrap always ends in
FetchFails ==
  /\ Goes("fetch", "fetch") /\ wraps # <<>>
  /\ IF HasWrap(Head(wraps)) THEN Fault ELSE UNCHANGED faults
  /\ wraps' = Tail(wraps)
  /\ UNCHANGED <<tree, outVars>>

FetchEnds == wraps = <<>> /\ Runs("fetch", "gum") /\ UNCHANGED outVars

-----------------------------------------------------------------------------
(* 2. Frida-Gum *)

\* A faulty variant: libgum.a is reused whenever it is there
SkipGumAlways == gum_lib # None
SkipGum == args.skip_gum /\ gum_lib # None

ReuseGum == Runs("gum", "export") /\ SkipGum /\ UNCHANGED outVars

WriteCross ==
  /\ pc = "gum" /\ ~SkipGum
  /\ \E finished \in BOOLEAN :
       /\ Writes("gum", "setup", finished \/ cross # None)
       /\ cross' = IF cross # None THEN cross ELSE Content("whole", finished)
  /\ UNCHANGED <<conf, objs, gum_lib, so, stale, backup, mod_so, zip, unseen>>

\* --wrap-mode nodownload: meson fetches nothing, so that every source tree it
\* looks for, nested ones too, has to be there
AllWhole == \A d \in Needed : Whole(d)

\* meson needs a readable cross file as well
CanSetup == mode \in conf \/ (cross # Torn /\ AllWhole)

MesonSetup ==
  /\ Runs("setup", "ninja") /\ CanSetup
  /\ conf' = conf \cup {mode}
  /\ UNCHANGED <<cross, objs, gum_lib, so, stale, backup, mod_so, zip, unseen>>

NinjaGum ==
  /\ Runs("ninja", "lib") /\ AllWhole
  /\ objs' = objs \cup {mode}
  /\ UNCHANGED <<cross, conf, gum_lib, so, stale, backup, mod_so, zip, unseen>>

CopyGum ==
  /\ \E finished \in BOOLEAN :
       Writes("lib", "export", finished) /\ gum_lib' = Content(mode, finished)
  /\ stale' = Modes
  /\ UNCHANGED <<cross, conf, objs, so, backup, mod_so, zip, unseen>>

-----------------------------------------------------------------------------
(* 3. and 4. The link list always comes from the builddir of release.      *)
(* ninja links again when libgum.a is younger than what it linked last;    *)
(* what strip and copyfile did to that file since makes it younger still.  *)

ExportLibs == "release" \in conf /\ Runs("export", "link") /\ UNCHANGED outVars

\* A faulty variant: a library that was linked once is not linked again
UpToDateOnce == so[mode] # None
UpToDate == so[mode] # None /\ mode \notin stale
CanLink == gum_lib \in Modes /\ "release" \in objs

LinkNative ==
  /\ Runs("link", IF mode = "debug" THEN "place" ELSE "backup")
  /\ IF UpToDate
     THEN UNCHANGED <<so, stale>>
     ELSE /\ CanLink
          /\ so' = [so EXCEPT ![mode] = [gum |-> gum_lib, stripped |-> FALSE, entry |-> TRUE]]
          /\ stale' = stale \ {mode}
  /\ UNCHANGED <<cross, conf, objs, gum_lib, backup, mod_so, zip, unseen>>

-----------------------------------------------------------------------------
(* 5. strip, in place, with a way back *)

KeepBackup ==
  /\ \E finished \in BOOLEAN :
       Writes("backup", "strip", finished) /\ backup' = Content(so[mode], finished)
  /\ UNCHANGED <<cross, conf, objs, gum_lib, so, stale, mod_so, zip, unseen>>

Strip ==
  /\ Runs("strip", "verify") /\ so[mode] # Torn
  /\ \E kept \in BOOLEAN :
       so' = [so EXCEPT ![mode].stripped = TRUE, ![mode].entry = @ /\ kept]
  /\ UNCHANGED <<cross, conf, objs, gum_lib, stale, backup, mod_so, zip, unseen>>

\* without an llvm-nm in the NDK every library has its entry
has_zygisk_entry(nm) == nm => so[mode].entry

StripVerified ==
  /\ Runs("verify", "place")
  /\ \E nm \in BOOLEAN :
       has_zygisk_entry(nm) /\ unseen' = (unseen \/ ~(nm \/ so[mode].entry))
  /\ UNCHANGED <<cross, conf, objs, gum_lib, so, stale, backup, mod_so, zip>>

\* A faulty variant: the check only warns
RestoreNothing ==
  /\ Runs("verify", "place") /\ ~has_zygisk_entry(TRUE) /\ UNCHANGED outVars
RestoreBackup ==
  /\ pc = "verify" /\ ~has_zygisk_entry(TRUE)
  /\ \E finished \in BOOLEAN :
       /\ Writes("verify", "place", finished)
       /\ so' = [so EXCEPT ![mode] = Content(backup, finished)]
  /\ UNCHANGED <<cross, conf, objs, gum_lib, stale, backup, mod_so, zip, unseen>>

-----------------------------------------------------------------------------
(* 6. The zip is made of what lies in module/ *)

PlaceSo ==
  /\ \E finished \in BOOLEAN :
       Writes("place", "pack", finished) /\ mod_so' = Content(so[mode], finished)
  /\ UNCHANGED <<cross, conf, objs, gum_lib, so, stale, backup, zip, unseen>>

build_zip ==
  /\ \E finished \in BOOLEAN :
       /\ Writes("pack", "idle", finished)
       /\ zip' = [zip EXCEPT ![mode] = Content(mod_so, finished)]
  /\ UNCHANGED <<cross, conf, objs, gum_lib, so, stale, backup, mod_so, unseen>>

-----------------------------------------------------------------------------

\* SystemExit: a command finds what it needs missing or torn
BuildFails ==
  /\ \/ pc = "setup" /\ ~CanSetup
     \/ pc = "ninja" /\ ~AllWhole
     \/ pc = "export" /\ "release" \notin conf
     \/ pc = "link" /\ ~UpToDate /\ ~CanLink
     \/ pc = "strip" /\ so[mode] = Torn
  /\ Runs(pc, "idle") /\ UNCHANGED outVars

\* Ctrl-C, a closed window, an exception nobody catches
Killed ==
  /\ pc # "idle" /\ faults < MaxFaults
  /\ pc' = "idle" /\ args' = None /\ wraps' = <<>> /\ faults' = faults + 1
  /\ UNCHANGED <<tree, lost, outVars>>

BuildStep ==
  \/ CheckDeps \/ FetchExtracts \/ FetchDone \/ FetchEnds
  \/ ReuseGum \/ WriteCross \/ MesonSetup \/ NinjaGum \/ CopyGum
  \/ ExportLibs \/ LinkNative \/ KeepBackup \/ Strip
  \/ StripVerified \/ RestoreBackup \/ PlaceSo \/ build_zip
  \/ FetchFails \/ BuildFails

Next ==
  \/ \E o \in Invocations : PrefetchStart(o) /\ UNCHANGED outVars
  \/ PrefetchStep /\ UNCHANGED outVars
  \/ \E m \in Modes, s \in BOOLEAN : BuildStart(m, s)
  \/ BuildStep \/ Killed

Spec == Init /\ [][Next]_vars

-----------------------------------------------------------------------------
(* Properties *)

\* A zip whose library has lost zygisk_module_entry is never loaded by
\* Magisk, without a word.  As long as no build was killed, and there was an
\* llvm-nm whenever strip took the entry away, the restoring of the unstripped
\* copy keeps such a library out of every zip, however often the library is
\* stripped again, in whatever order modes and --skip-gum come.  (After a kill
\* between strip and its check, or a check that could not look, the copy the
\* next run makes has lost the entry itself.)
EntryShipped ==
  \A m \in Modes : zip[m] \in Images /\ ~zip[m].entry => faults > 0 \/ unseen

\* A build without --skip-gum ships the Frida-Gum of its own mode, although
\* builds of both modes link the same libgum.a and ninja goes by its age.
FullBuildShipsOwnGum ==
  [][\A m \in Modes :
       zip'[m] # zip[m] /\ zip'[m] \in Images /\ ~args.skip_gum => zip'[m].gum = m]_vars

\* Leftovers no later run repairs: a source tree with a meson.build or another
\* marker and little else passes for ready, a cross file is written only where
\* there is none
Wedged ==
  /\ pc = "idle"
  /\ (\E d \in Deps : {"entry", "marker"} \cap tree[d] # {} /\ ~Whole(d)) \/ cross = Torn

\* Somebody runs the programs until they succeed, and the network, the disk
\* and the tools do not fail every time; and not each of their builds comes
\* right after a prefetch --force, which leaves the nested trees empty.
FairSpec ==
  /\ Spec
  /\ WF_vars(PrefetchStep /\ UNCHANGED outVars) /\ WF_vars(BuildStep)
  /\ SF_vars(PrefetchStart([force |-> FALSE, skip |-> FALSE]) /\ UNCHANGED outVars)
  /\ SF_vars(AllWhole /\ BuildStart("release", FALSE))

\* Runs that were killed, or that failed, leave nothing that keeps later runs
\* from filling every source tree, nested ones included, unless what they
\* leave passes for ready (Wedged).
PrefetchConverges ==
  ((lost = {}) /\ <>[]~Wedged) => []<>(\A d \in Deps \ Unusable : Whole(d))

\* In the same sense a release build ends with a zip in the end, whatever
\* earlier builds, failed fetches and kills have left.
BuildSucceeds == ((lost = {}) /\ <>[]~Wedged) => <>(zip["release"] \in Images)

=============================================================================
