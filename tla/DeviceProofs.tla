---------------------------- MODULE DeviceProofs ----------------------------
(***************************************************************************)
(* Proofs about Device for any packages, clients, processes, edits and     *)
(* clock, and any backlog.                                                 *)
(***************************************************************************)
EXTENDS Device, SequenceTheorems, TLAPS

\* What the companion has cached, and what it may still cache, target.conf has
\* been at some time.
InviteInv ==
  /\ NeverUninvited
  /\ conf # None => conf \in versions
  /\ aside # None => aside \in versions
  /\ \A n \in cache.names : \E f \in versions : f # None /\ n \in f.names

\* While target.conf has never been away, nothing has a time later than it.
EditInv ==
  None \notin versions =>
    /\ aside = None /\ conf # None /\ conf.mtime <= clock
    /\ \A f \in versions : f.mtime <= conf.mtime
    /\ cache.stamp[1] \in Nat /\ cache.stamp[1] <= conf.mtime
    /\ comp # None => \/ comp.stamp = None
                      \/ comp.stamp[1] \in Nat /\ comp.stamp[1] <= conf.mtime
    /\ cache.loaded /\ ~cache.blind =>
         \E g \in versions : cache.names = g.names /\ g.mtime >= cache.stamp[1]

\* A client is in one place: once in the backlog, or with one server.
PlaceInv ==
  /\ AnswersOwnSession
  /\ \A i, j \in DOMAIN queue : queue[i] = queue[j] => i = j
  /\ \A i \in DOMAIN queue, p \in Procs : conn[p] # None => conn[p] # queue[i]
  /\ \A p, q \in Procs : conn[p] # None /\ conn[p] = conn[q] => p = q

IInv == TypeOK /\ InviteInv /\ EditInv /\ RunningHasPort /\ PlaceInv

-----------------------------------------------------------------------------
(* Which action changes what                                               *)

Files == EditConf \/ MoveAway \/ MoveBack
Asking(p) == Specialize(p) \/ QueryFails(p) \/ CompanionStats(p)
Starting(p) == GumFails(p) \/ RuntimeStarts(p)
Serving(p) == Thread(p) \/ AcceptErrs(p) \/ Hello(p) \/ HelloBad(p) \/ AnswersLast(p)
Ending(p) == StopBegins(p) \/ StopJoins(p) \/ Killed(p)
Visiting(k) == ClientConnects(k) \/ ClientLeaves(k)

LEMMA NextCases ==
  ASSUME Next
  PROVE  \/ Tick \/ Files \/ CompanionAnswers \/ CompanionDies
         \/ \E p \in Procs : Asking(p) \/ Starting(p) \/ Serving(p) \/ Ending(p)
         \/ \E k \in Clients : Visiting(k)
  BY DEF Next, Process, Files, Asking, Starting, Serving, Ending, Visiting

LEMMA FilesShape ==
  ASSUME Files
  PROVE  /\ UNCHANGED <<clock, askVars, phase, serverVars, clientVars>>
         /\ edits' = edits + 1 /\ edits < MaxEdits
         /\ \E f, a : /\ conf' = f /\ aside' = a /\ versions' = versions \cup {f}
                      /\ \/ a = aside /\ \E ns \in SUBSET Pkgs : f = [names |-> ns, mtime |-> clock]
                         \/ f = None /\ a = conf
                         \/ f = aside /\ a = None /\ aside # None
  BY DEF Files, EditConf, MoveAway, MoveBack, Changes

\* Only the companion's queries touch what it knows.
LEMMA AskShape ==
  ASSUME NEW p \in Procs, Starting(p) \/ Serving(p) \/ Ending(p)
  PROVE  UNCHANGED <<clock, fileVars, askVars>>
<1>1. CASE Starting(p)
  BY <1>1 DEF Starting, GumFails, RuntimeStarts
<1>2. CASE Serving(p)
  BY <1>2 DEF Serving, Thread, Accept, AcceptShut, ConnectionEnds, AcceptErrs, AcceptFails, Hello,
              HelloBad, AnswersLast, HangsUp, Serves
<1>3. CASE Ending(p)
  BY <1>3 DEF Ending, StopBegins, StopJoins, Killed
<1>4. QED
  BY <1>1, <1>2, <1>3

\* What a server's thread does about its connection.
LEMMA ServingShape ==
  ASSUME NEW p \in Procs, Serving(p)
  PROVE  /\ UNCHANGED <<clock, fileVars, askVars, phase, running, port>>
         /\ \/ Accept(p)
            \/ thr[p] = "accept" /\ thr' = [thr EXCEPT ![p] = "off"] /\ UNCHANGED <<queue, conn, sid, clientVars>>
            \/ Hello(p)
            \/ HangsUp(p)
<1>1. CASE Thread(p)
  BY <1>1 DEF Thread, Accept, AcceptShut, ConnectionEnds, AcceptFails, HangsUp, Serves
<1>2. CASE AcceptErrs(p)
  BY <1>2 DEF AcceptErrs, AcceptFails, Serves
<1>3. CASE Hello(p)
  BY <1>3 DEF Hello, Serves
<1>4. CASE HelloBad(p) \/ AnswersLast(p)
  BY <1>4 DEF HelloBad, AnswersLast, HangsUp, Serves
<1>5. QED
  BY <1>1, <1>2, <1>3, <1>4 DEF Serving

-----------------------------------------------------------------------------
(* Types                                                                   *)

LEMMA TypeInit == Init => TypeOK
  BY BoundsAssumption DEF Init, Uncached, TypeOK, Procs, Loaded, Ids

LEMMA TypeStep ==
  ASSUME TypeOK, [Next]_vars
  PROVE  TypeOK'
<1> USE DEF fileVars, askVars, serverVars, clientVars
<1>1. CASE UNCHANGED vars
  BY <1>1 DEF vars, TypeOK
<1>2. CASE Tick
  BY <1>2, BoundsAssumption DEF Tick, TypeOK
<1>3. CASE Files
  <2>1. edits' \in 0..MaxEdits
    BY <1>3, FilesShape, BoundsAssumption DEF TypeOK
  <2>2. \A f \in versions' \cup {conf', aside'} :
          f = None \/ f \in [names : SUBSET Pkgs, mtime : 0..MaxClock]
    BY <1>3, FilesShape DEF TypeOK
  <2>3. QED
    BY <1>3, <2>1, <2>2, FilesShape DEF TypeOK
<1>4. CASE CompanionAnswers
  <2>1. /\ comp # None /\ comp' = None /\ comp.p \in Procs
        /\ phase' \in [Procs -> Loaded \cup {"none", "ask", "plain", "dead"}]
        /\ UNCHANGED <<clock, fileVars, name, serverVars, clientVars>>
    BY <1>4 DEF CompanionAnswers, Phase, TypeOK, Loaded
  <2>2. /\ cache'.names \subseteq Pkgs
        /\ cache'.loaded \in BOOLEAN /\ cache'.blind \in BOOLEAN
    <3>1. CASE cache' = cache
      BY <3>1 DEF TypeOK
    <3>2. CASE \E blind \in BOOLEAN : cache' = Reads(comp.stamp, blind)
      BY <3>2 DEF Reads, TypeOK
    <3>3. QED
      BY <1>4, <3>1, <3>2 DEF CompanionAnswers
  <2>3. QED
    BY <2>1, <2>2 DEF TypeOK
<1>dies. CASE CompanionDies
  <2>1. /\ comp' = None
        /\ phase' \in [Procs -> Loaded \cup {"none", "ask", "plain", "dead"}]
        /\ UNCHANGED <<clock, fileVars, name, serverVars, clientVars>>
    BY <1>dies DEF CompanionDies, Phase, TypeOK, Loaded
  <2>2. /\ cache'.names = {} /\ cache'.loaded \in BOOLEAN /\ cache'.blind \in BOOLEAN
    BY <1>dies DEF CompanionDies, Uncached
  <2>3. QED
    BY <2>1, <2>2 DEF TypeOK
<1>5. ASSUME NEW p \in Procs, Asking(p)
      PROVE  TypeOK'
  <2>1. CASE Specialize(p)
    BY <2>1 DEF Specialize, Phase, TypeOK
  <2>2. CASE QueryFails(p)
    BY <2>2 DEF QueryFails, Phase, TypeOK
  <2>3. CASE CompanionStats(p)
    BY <2>3 DEF CompanionStats, TypeOK
  <2>4. QED
    BY <1>5, <2>1, <2>2, <2>3 DEF Asking
<1>6. ASSUME NEW p \in Procs, Starting(p)
      PROVE  TypeOK'
  <2>1. CASE GumFails(p)
    BY <2>1 DEF GumFails, Phase, TypeOK, Loaded
  <2>2. CASE RuntimeStarts(p)
    <3>1. <<clock, p>> \in Ids
      BY DEF TypeOK, Ids
    <3>2. /\ phase' \in [Procs -> Loaded \cup {"none", "ask", "plain", "dead"}]
          /\ comp # None => comp.p \in Procs /\ phase'[comp.p] = "ask"
      BY <2>2 DEF RuntimeStarts, Phase, TypeOK, Loaded
    <3>3. UNCHANGED <<clock, fileVars, askVars, queue, conn, clientVars>>
      BY <2>2 DEF RuntimeStarts
    <3>4. CASE Starts(p)
      BY <3>1, <3>2, <3>3, <3>4 DEF Starts, TypeOK
    <3>5. CASE UNCHANGED <<port, running, thr, sid>>
      BY <3>2, <3>3, <3>5 DEF TypeOK
    <3>6. QED
      BY <2>2, <3>4, <3>5 DEF RuntimeStarts
  <2>3. QED
    BY <1>6, <2>1, <2>2 DEF Starting
<1>7. ASSUME NEW p \in Procs, Serving(p)
      PROVE  TypeOK'
  <2>1. UNCHANGED <<clock, fileVars, askVars, phase, running, port>>
    BY <1>7, ServingShape
  <2>2. CASE Accept(p)
    <3>1. Head(queue) \in Clients /\ Tail(queue) \in Seq(Clients)
      BY <2>2, HeadTailProperties DEF Accept, TypeOK
    <3>2. QED
      BY <2>1, <2>2, <3>1 DEF Accept, TypeOK
  <2>3. CASE thr' = [thr EXCEPT ![p] = "off"] /\ UNCHANGED <<queue, conn, sid, clientVars>>
    BY <2>1, <2>3 DEF TypeOK
  <2>4. CASE Hello(p)
    BY <2>1, <2>4 DEF Hello, TypeOK, Ids
  <2>5. CASE HangsUp(p)
    BY <2>1, <2>5 DEF HangsUp, LoopTop, TypeOK
  <2>6. QED
    BY <1>7, <2>2, <2>3, <2>4, <2>5, ServingShape
<1>8. ASSUME NEW p \in Procs, Ending(p)
      PROVE  TypeOK'
  <2>1. CASE StopBegins(p)
    BY <2>1 DEF StopBegins, ResetQueue, Phase, TypeOK, Loaded
  <2>2. CASE StopJoins(p)
    BY <2>2 DEF StopJoins, Phase, TypeOK, Loaded
  <2>3. CASE Killed(p)
    BY <2>3 DEF Killed, Forsakes, TypeOK, Loaded
  <2>4. QED
    BY <1>8, <2>1, <2>2, <2>3 DEF Ending
<1>9. ASSUME NEW k \in Clients, Visiting(k)
      PROVE  TypeOK'
  <2>1. CASE ClientConnects(k)
    <3>1. queue' \in Seq(Clients)
      BY <2>1 DEF ClientConnects, TypeOK
    <3>2. loc' \in [Clients -> {0} \cup Procs] /\ told' \in [Clients -> Ids \cup {None}]
      BY <2>1 DEF ClientConnects, TypeOK
    <3>3. QED
      BY <2>1, <3>1, <3>2 DEF ClientConnects, TypeOK
  <2>2. CASE ClientLeaves(k)
    BY <2>2 DEF ClientLeaves, TypeOK
  <2>3. QED
    BY <1>9, <2>1, <2>2 DEF Visiting
<1>10. QED
  BY <1>1, <1>2, <1>3, <1>4, <1>5, <1>6, <1>7, <1>8, <1>9, <1>dies, NextCases

-----------------------------------------------------------------------------
(* Who gets the Runtime                                                    *)

LEMMA InviteStep ==
  ASSUME TypeOK, InviteInv, [Next]_vars
  PROVE  InviteInv'
<1> USE DEF fileVars, askVars, serverVars, clientVars
<1>1. CASE UNCHANGED vars \/ Tick
  BY <1>1 DEF vars, Tick, InviteInv, NeverUninvited
<1>2. CASE Files
  BY <1>2, FilesShape DEF InviteInv, NeverUninvited
<1>3. CASE CompanionAnswers
  <2>1. \A n \in cache'.names : \E f \in versions : f # None /\ n \in f.names
    <3>1. \/ cache' = cache
          \/ cache'.names = {}
          \/ conf # None /\ cache'.names = conf.names
      BY <1>3 DEF CompanionAnswers, Reads
    <3>2. QED
      BY <3>1 DEF InviteInv
  <2>2. /\ comp.p \in Procs /\ UNCHANGED <<fileVars, name>>
        /\ phase' = [phase EXCEPT ![comp.p] =
             IF name[comp.p] \in cache'.names THEN "starting" ELSE "plain"]
    BY <1>3 DEF CompanionAnswers, Phase, TypeOK
  <2>3. \A q \in Procs : q # comp.p => phase'[q] = phase[q]
    BY <2>2 DEF TypeOK
  <2>4. phase'[comp.p] \in Loaded => name[comp.p] \in cache'.names
    BY <2>2 DEF TypeOK, Loaded
  <2>5. NeverUninvited'
    BY <2>1, <2>2, <2>3, <2>4 DEF InviteInv, NeverUninvited
  <2>6. QED
    BY <2>1, <2>2, <2>5 DEF InviteInv
<1>dies. CASE CompanionDies
  <2>1. cache'.names = {} /\ UNCHANGED <<fileVars, name>>
    BY <1>dies DEF CompanionDies, Uncached
  <2>2. \A q \in Procs : phase'[q] \in Loaded => phase[q] \in Loaded
    BY <1>dies DEF CompanionDies, Phase, TypeOK, Loaded
  <2>3. QED
    BY <2>1, <2>2 DEF InviteInv, NeverUninvited
<1>4. ASSUME NEW p \in Procs, Asking(p)
      PROVE  InviteInv'
  BY <1>4 DEF Asking, Specialize, QueryFails, CompanionStats, Phase, TypeOK, Loaded,
              InviteInv, NeverUninvited
<1>5. ASSUME NEW p \in Procs, Starting(p) \/ Serving(p) \/ Ending(p)
      PROVE  InviteInv'
  <2>1. UNCHANGED <<fileVars, askVars>>
    BY <1>5, AskShape
  <2>2. \A q \in Procs : phase'[q] \in Loaded => phase[q] \in Loaded
    <3>1. CASE Starting(p)
      BY <3>1 DEF Starting, GumFails, RuntimeStarts, Phase, TypeOK, Loaded
    <3>2. CASE Serving(p)
      BY <3>2, ServingShape
    <3>3. CASE Ending(p)
      BY <3>3 DEF Ending, StopBegins, StopJoins, Killed, Phase, TypeOK, Loaded
    <3>4. QED
      BY <1>5, <3>1, <3>2, <3>3
  <2>3. QED
    BY <2>1, <2>2 DEF InviteInv, NeverUninvited
<1>6. ASSUME NEW k \in Clients, Visiting(k)
      PROVE  InviteInv'
  BY <1>6 DEF Visiting, ClientConnects, ClientLeaves, InviteInv, NeverUninvited
<1>7. QED
  BY <1>1, <1>2, <1>3, <1>4, <1>5, <1>6, <1>dies, NextCases

-----------------------------------------------------------------------------
(* What the companion knows of target.conf                                 *)

LEMMA StampTime == \A f : stamp(f)[1] = f.mtime
  BY DEF stamp

LEMMA TimesAreNat ==
  ASSUME TypeOK
  PROVE  /\ \A f \in versions \cup {conf, aside} : f # None => f.mtime \in Nat
         /\ clock \in Nat
  BY BoundsAssumption DEF TypeOK

LEMMA EditStep ==
  ASSUME TypeOK, InviteInv, EditInv, [Next]_vars
  PROVE  EditInv'
<1> USE DEF fileVars, askVars, serverVars, clientVars
<1> SUFFICES ASSUME None \notin versions'
             PROVE  /\ aside' = None /\ conf' # None /\ conf'.mtime <= clock'
                    /\ \A f \in versions' : f.mtime <= conf'.mtime
                    /\ cache'.stamp[1] \in Nat /\ cache'.stamp[1] <= conf'.mtime
                    /\ comp' # None => \/ comp'.stamp = None
                                       \/ comp'.stamp[1] \in Nat /\ comp'.stamp[1] <= conf'.mtime
                    /\ cache'.loaded /\ ~cache'.blind =>
                         \E g \in versions' : cache'.names = g.names /\ g.mtime >= cache'.stamp[1]
  BY DEF EditInv
<1>1. CASE UNCHANGED <<clock, fileVars, cache, comp>>
  BY <1>1 DEF EditInv
<1>2. CASE Tick
  BY <1>2, TimesAreNat DEF Tick, EditInv
<1>3. CASE Files
  <2>1. PICK f, a : /\ conf' = f /\ aside' = a /\ versions' = versions \cup {f}
                    /\ \/ a = aside /\ \E ns \in SUBSET Pkgs : f = [names |-> ns, mtime |-> clock]
                       \/ f = None /\ a = conf
                       \/ f = aside /\ a = None /\ aside # None
    BY <1>3, FilesShape
  <2>2. None \notin versions /\ f # None
    BY <2>1
  <2>3. a = aside /\ aside = None /\ f.mtime = clock
    BY <2>1, <2>2 DEF EditInv
  <2>4. UNCHANGED <<clock, cache, comp>>
    BY <1>3, FilesShape
  <2>5. \A g \in versions' : g # None /\ g.mtime \in Nat /\ g.mtime <= clock
    <3>1. \A g \in versions : g # None /\ g.mtime \in Nat /\ g.mtime <= conf.mtime
      BY <2>2, TimesAreNat DEF EditInv
    <3>2. conf.mtime <= clock /\ conf.mtime \in Nat /\ clock \in Nat
      BY <2>2, TimesAreNat DEF EditInv
    <3>3. QED
      BY <2>1, <2>2, <2>3, <3>1, <3>2
  <2>6. conf.mtime \in Nat /\ clock \in Nat /\ conf.mtime <= clock
    BY <2>2, TimesAreNat DEF EditInv
  <2>7. QED
    BY <2>1, <2>2, <2>3, <2>4, <2>5, <2>6 DEF EditInv
<1>4. CASE CompanionAnswers
  <2>1. UNCHANGED <<clock, fileVars>> /\ comp # None /\ comp' = None
    BY <1>4 DEF CompanionAnswers
  <2>2. CASE cache' = cache
    BY <2>1, <2>2 DEF EditInv
  <2>3. CASE cache' # cache
    <3>1. /\ cache'.stamp = IF comp.stamp = None THEN cache.stamp ELSE comp.stamp
          /\ ~cache'.blind => cache'.names = conf.names
      BY <1>4, <2>1, <2>3 DEF CompanionAnswers, Reads, EditInv
    <3>2. cache'.stamp[1] \in Nat /\ cache'.stamp[1] <= conf.mtime
      BY <2>1, <3>1 DEF EditInv
    <3>3. conf \in versions /\ (~cache'.blind => cache'.names = conf.names)
      BY <2>1, <3>1 DEF EditInv, InviteInv
    <3>4. conf.mtime \in Nat
      BY <2>1, <3>3, TimesAreNat DEF EditInv
    <3>5. QED
      BY <2>1, <3>2, <3>3, <3>4 DEF EditInv
  <2>4. QED
    BY <2>2, <2>3
<1>dies. CASE CompanionDies
  <2>1. /\ UNCHANGED <<clock, fileVars>> /\ comp' = None
        /\ ~cache'.loaded /\ cache'.stamp[1] = 0
    BY <1>dies DEF CompanionDies, Uncached
  <2>2. conf.mtime \in Nat
    BY <2>1, TimesAreNat DEF EditInv
  <2>3. QED
    BY <2>1, <2>2 DEF EditInv
<1>5. ASSUME NEW p \in Procs, CompanionStats(p)
      PROVE  EditInv'
  <2>1. UNCHANGED <<clock, fileVars, cache>>
    BY <1>5 DEF CompanionStats
  <2>2. comp' = [p |-> p, stamp |-> stamp(conf)] /\ conf.mtime \in Nat
    BY <1>5, <2>1, TimesAreNat DEF CompanionStats, EditInv
  <2>3. comp'.stamp[1] = conf.mtime
    BY <2>2, StampTime
  <2>4. QED
    BY <2>1, <2>2, <2>3 DEF EditInv
<1>6. CASE UNCHANGED vars
  BY <1>1, <1>6 DEF vars
<1>7. ASSUME NEW p \in Procs, Asking(p)
      PROVE  CompanionStats(p) \/ UNCHANGED <<clock, fileVars, cache, comp>>
  BY <1>7 DEF Asking, Specialize, QueryFails
<1>8. ASSUME NEW p \in Procs, Starting(p) \/ Serving(p) \/ Ending(p)
      PROVE  UNCHANGED <<clock, fileVars, cache, comp>>
  BY <1>8, AskShape
<1>9. ASSUME NEW k \in Clients, Visiting(k)
      PROVE  UNCHANGED <<clock, fileVars, cache, comp>>
  BY <1>9 DEF Visiting, ClientConnects, ClientLeaves
<1>10. QED
  BY <1>1, <1>2, <1>3, <1>4, <1>5, <1>6, <1>7, <1>8, <1>9, <1>dies, NextCases DEF EditInv

-----------------------------------------------------------------------------
(* The port, and the session of each connection                            *)

LEMMA PortStep ==
  ASSUME TypeOK, RunningHasPort, [Next]_vars
  PROVE  RunningHasPort'
<1> USE DEF fileVars, askVars, serverVars, clientVars, RunningHasPort
<1>1. CASE UNCHANGED vars \/ Tick \/ Files \/ CompanionAnswers \/ CompanionDies
  BY <1>1, FilesShape DEF vars, Tick, CompanionAnswers, CompanionDies
<1>2. ASSUME NEW p \in Procs, Asking(p) \/ Serving(p)
      PROVE  RunningHasPort'
  BY <1>2, ServingShape DEF Asking, Specialize, QueryFails, CompanionStats
<1>3. ASSUME NEW p \in Procs, Starting(p)
      PROVE  RunningHasPort'
  <2>1. CASE Starts(p)
    <3>1. port = 0 /\ port' = p /\ running' = [running EXCEPT ![p] = TRUE]
      BY <2>1 DEF Starts
    <3>2. \A q \in Procs : ~running[q]
      BY <3>1 DEF Procs
    <3>3. QED
      BY <3>1, <3>2 DEF TypeOK
  <2>2. CASE UNCHANGED <<running, port>>
    BY <2>2
  <2>3. QED
    BY <1>3, <2>1, <2>2 DEF Starting, GumFails, RuntimeStarts
<1>4. ASSUME NEW p \in Procs, Ending(p)
      PROVE  RunningHasPort'
  BY <1>4 DEF Ending, StopBegins, StopJoins, Killed, TypeOK
<1>5. ASSUME NEW k \in Clients, Visiting(k)
      PROVE  RunningHasPort'
  BY <1>5 DEF Visiting, ClientConnects, ClientLeaves
<1>6. QED
  BY <1>1, <1>2, <1>3, <1>4, <1>5, NextCases

\* Places are given up, or nothing about them changes.
LEMMA PlaceKept ==
  ASSUME TypeOK, PlaceInv, NEW p \in Procs,
         queue' = queue \/ queue' = <<>>,
         conn' = conn \/ conn' = [conn EXCEPT ![p] = None],
         UNCHANGED <<told, sid>>,
         thr' = thr \/ \E t \in {"off", "accept"} : thr' = [thr EXCEPT ![p] = t],
         conn' = conn \/ thr'[p] # "serve"
  PROVE  PlaceInv'
<1>1. \A q \in Procs : q # p => conn'[q] = conn[q] /\ thr'[q] = thr[q]
  BY DEF TypeOK
<1>2. conn'[p] \in {conn[p], None} /\ (thr'[p] = "serve" => thr[p] = "serve" /\ conn'[p] = conn[p])
  BY DEF TypeOK
<1>3. AnswersOwnSession'
  BY <1>1, <1>2 DEF PlaceInv, AnswersOwnSession
<1>4. \A i, j \in DOMAIN queue' : queue'[i] = queue'[j] => i = j
  BY DEF PlaceInv
<1>5. \A q, r \in Procs : conn'[q] # None /\ conn'[q] = conn'[r] => q = r
  BY <1>1, <1>2 DEF PlaceInv
<1>6. \A i \in DOMAIN queue', q \in Procs : conn'[q] # None => conn'[q] # queue'[i]
  BY <1>1, <1>2 DEF PlaceInv
<1>7. QED
  BY <1>3, <1>4, <1>5, <1>6 DEF PlaceInv

LEMMA PlaceStep ==
  ASSUME TypeOK, PlaceInv, [Next]_vars
  PROVE  PlaceInv'
<1> USE DEF fileVars, askVars, serverVars, clientVars
<1>1. CASE UNCHANGED <<serverVars, told>>
  BY <1>1 DEF PlaceInv, AnswersOwnSession
<1>2. CASE UNCHANGED vars \/ Tick \/ Files \/ CompanionAnswers \/ CompanionDies
  BY <1>1, <1>2, FilesShape DEF vars, Tick, CompanionAnswers, CompanionDies
<1>3. ASSUME NEW p \in Procs, Asking(p)
      PROVE  PlaceInv'
  BY <1>1, <1>3 DEF Asking, Specialize, QueryFails, CompanionStats
<1>4. ASSUME NEW p \in Procs, Starting(p)
      PROVE  PlaceInv'
  <2>1. UNCHANGED <<queue, conn, told>>
    BY <1>4 DEF Starting, GumFails, RuntimeStarts
  <2>2. \/ UNCHANGED <<thr, sid>>
        \/ /\ thr' = [thr EXCEPT ![p] = "accept"]
           /\ sid' = [sid EXCEPT ![p] = <<clock, p>>]
    BY <1>4 DEF Starting, GumFails, RuntimeStarts, Starts
  <2>3. \A q \in Procs : thr'[q] = "serve" => thr[q] = "serve" /\ sid'[q] = sid[q]
    BY <2>2 DEF TypeOK
  <2>4. QED
    BY <2>1, <2>3 DEF PlaceInv, AnswersOwnSession
<1>5. ASSUME NEW p \in Procs, Serving(p)
      PROVE  PlaceInv'
  <2>1. CASE Accept(p)
    <3>1. queue \in Seq(Clients) /\ queue # <<>>
      BY <2>1 DEF Accept, TypeOK
    <3>2. /\ Len(Tail(queue)) = Len(queue) - 1 /\ Len(queue) \in Nat \ {0}
          /\ \A i \in 1..Len(Tail(queue)) : Tail(queue)[i] = queue[i+1]
          /\ Tail(queue) \in Seq(Clients) /\ Head(queue) = queue[1] /\ Head(queue) \in Clients
      BY <3>1, HeadTailProperties, EmptySeq, LenProperties
    <3>3. DOMAIN queue = 1..Len(queue) /\ DOMAIN Tail(queue) = 1..Len(Tail(queue))
      BY <3>1, <3>2, LenProperties
    <3>4. /\ conn' = [conn EXCEPT ![p] = Head(queue)] /\ queue' = Tail(queue)
          /\ thr' = [thr EXCEPT ![p] = "hello"] /\ UNCHANGED <<sid, told>>
      BY <2>1 DEF Accept
    <3>5. \A q \in Procs : q # p => conn'[q] = conn[q] /\ thr'[q] = thr[q]
      BY <3>4 DEF TypeOK
    <3>6. conn'[p] = queue[1] /\ thr'[p] = "hello"
      BY <3>2, <3>4 DEF TypeOK
    <3>7. \A i \in DOMAIN queue' : i + 1 \in DOMAIN queue /\ i + 1 # 1 /\ queue'[i] = queue[i + 1]
      BY <3>2, <3>3, <3>4
    <3>8. 1 \in DOMAIN queue
      BY <3>2, <3>3
    <3>9. AnswersOwnSession'
      BY <3>4, <3>5, <3>6 DEF PlaceInv, AnswersOwnSession
    <3>10. \A i, j \in DOMAIN queue' : queue'[i] = queue'[j] => i = j
      <4>1. SUFFICES ASSUME NEW i \in DOMAIN queue', NEW j \in DOMAIN queue', queue'[i] = queue'[j]
                     PROVE  i = j
        OBVIOUS
      <4>2. i + 1 = j + 1
        BY <3>7, <4>1 DEF PlaceInv
      <4>3. i \in Nat /\ j \in Nat
        BY <3>2, <3>3, <3>4, <4>1
      <4>4. QED
        BY <4>2, <4>3
    <3>11. \A i \in DOMAIN queue', q \in Procs : conn'[q] # None => conn'[q] # queue'[i]
      BY <3>5, <3>6, <3>7, <3>8 DEF PlaceInv
    <3>12. \A q, r \in Procs : conn'[q] # None /\ conn'[q] = conn'[r] => q = r
      BY <3>5, <3>6, <3>8 DEF PlaceInv
    <3>13. QED
      BY <3>9, <3>10, <3>11, <3>12 DEF PlaceInv
  <2>2. CASE thr' = [thr EXCEPT ![p] = "off"] /\ UNCHANGED <<queue, conn, sid, clientVars>>
    BY <2>2, PlaceKept
  <2>3. CASE Hello(p)
    <3>1. /\ conn[p] # None /\ conn[p] \in Clients /\ UNCHANGED <<queue, conn>>
          /\ sid' = [sid EXCEPT ![p] = <<clock, p>>]
          /\ told' = [told EXCEPT ![conn[p]] = sid'[p]]
          /\ thr' = [thr EXCEPT ![p] = "serve"]
      BY <2>3 DEF Hello, TypeOK
    <3>2. told'[conn[p]] = sid'[p]
      BY <3>1 DEF TypeOK
    <3>3. \A q \in Procs : q # p => /\ thr'[q] = thr[q] /\ sid'[q] = sid[q]
                                    /\ conn[q] # None => conn[q] # conn[p]
      BY <3>1 DEF TypeOK, PlaceInv
    <3>4. \A k \in Clients : k # conn[p] => told'[k] = told[k]
      BY <3>1 DEF TypeOK
    <3>5. \A q \in Procs : conn[q] # None => conn[q] \in Clients
      BY DEF TypeOK
    <3>6. AnswersOwnSession'
      BY <3>1, <3>2, <3>3, <3>4, <3>5 DEF PlaceInv, AnswersOwnSession
    <3>7. QED
      BY <3>1, <3>6 DEF PlaceInv
  <2>4. CASE HangsUp(p)
    <3>1. thr'[p] # "serve" /\ UNCHANGED <<queue, sid, told>>
      BY <2>4 DEF HangsUp, LoopTop, TypeOK
    <3>2. conn' = [conn EXCEPT ![p] = None] /\ \E t \in {"off", "accept"} : thr' = [thr EXCEPT ![p] = t]
      BY <2>4 DEF HangsUp, LoopTop
    <3>3. QED
      BY <3>1, <3>2, PlaceKept
  <2>5. QED
    BY <1>5, <2>1, <2>2, <2>3, <2>4, ServingShape
<1>6. ASSUME NEW p \in Procs, Ending(p)
      PROVE  PlaceInv'
  <2>1. CASE StopBegins(p)
    BY <2>1, PlaceKept DEF StopBegins, ResetQueue
  <2>2. CASE StopJoins(p)
    BY <1>1, <2>2 DEF StopJoins
  <2>3. CASE Killed(p)
    <3>1. thr'[p] # "serve"
      BY <2>3 DEF Killed, TypeOK
    <3>2. QED
      BY <2>3, <3>1, PlaceKept DEF Killed
  <2>4. QED
    BY <1>6, <2>1, <2>2, <2>3 DEF Ending
<1>7. ASSUME NEW k \in Clients, Visiting(k)
      PROVE  PlaceInv'
  <2>1. CASE ClientConnects(k)
    <3>1. /\ queue \in Seq(Clients) /\ queue' = Append(queue, k)
          /\ k \notin ToSet(queue) /\ \A p \in Procs : conn[p] # k
          /\ told' = [told EXCEPT ![k] = None] /\ UNCHANGED <<thr, conn, sid>>
      BY <2>1 DEF ClientConnects, TypeOK
    <3>2. /\ DOMAIN queue = 1..Len(queue) /\ Len(queue) \in Nat
          /\ DOMAIN queue' = 1..(Len(queue) + 1)
          /\ \A i \in 1..Len(queue) : queue'[i] = queue[i]
          /\ queue'[Len(queue) + 1] = k
      BY <3>1, AppendProperties, LenProperties
    <3>3. \A i \in DOMAIN queue : queue[i] # k
      BY <3>1 DEF ToSet
    <3>4. \A j \in Clients : j # k => told'[j] = told[j]
      BY <3>1 DEF TypeOK
    <3>5. AnswersOwnSession'
      BY <3>1, <3>4 DEF TypeOK, PlaceInv, AnswersOwnSession
    <3>6. \A i \in DOMAIN queue' : i \in DOMAIN queue \/ i = Len(queue) + 1
      BY <3>2
    <3>7. \A i, j \in DOMAIN queue' : queue'[i] = queue'[j] => i = j
      BY <3>2, <3>3, <3>6 DEF PlaceInv
    <3>8. \A i \in DOMAIN queue', q \in Procs : conn'[q] # None => conn'[q] # queue'[i]
      BY <3>1, <3>2, <3>6 DEF PlaceInv
    <3>9. QED
      BY <3>1, <3>5, <3>7, <3>8 DEF PlaceInv
  <2>2. CASE ClientLeaves(k)
    BY <1>1, <2>2 DEF ClientLeaves
  <2>3. QED
    BY <1>7, <2>1, <2>2 DEF Visiting
<1>8. QED
  BY <1>2, <1>3, <1>4, <1>5, <1>6, <1>7, NextCases

-----------------------------------------------------------------------------

LEMMA InitInv == Init => IInv
<1> SUFFICES ASSUME Init PROVE IInv
  OBVIOUS
<1>1. TypeOK
  BY TypeInit
<1>2. InviteInv
  BY DEF Init, Uncached, InviteInv, NeverUninvited, Loaded
<1>3. EditInv
  BY DEF Init, Uncached, EditInv
<1>4. RunningHasPort
  BY DEF Init, RunningHasPort
<1>5. PlaceInv
  BY DEF Init, PlaceInv, AnswersOwnSession
<1>6. QED
  BY <1>1, <1>2, <1>3, <1>4, <1>5 DEF IInv

\* The inductive invariant: types, the history of target.conf and who may be
\* invited by it, the port, and the place of each client.
THEOREM Invariance == Spec => []IInv
<1>1. IInv /\ [Next]_vars => IInv'
  BY TypeStep, InviteStep, EditStep, PortStep, PlaceStep DEF IInv
<1>2. QED
  BY InitInv, <1>1, PTL DEF Spec

\* The device's state stays well-formed.
THEOREM TypeCorrect == Spec => []TypeOK
<1>1. IInv => TypeOK
  BY DEF IInv
<1>2. QED
  BY Invariance, <1>1, PTL

\* The Runtime is only in processes that target.conf has named at some time,
\* whatever fails between preAppSpecialize(), the companion and the file.
THEOREM InviteTheorem == Spec => []NeverUninvited
<1>1. IInv => NeverUninvited
  BY DEF IInv, InviteInv
<1>2. QED
  BY Invariance, <1>1, PTL

\* A process whose g_running is set has the port.
THEOREM PortTheorem == Spec => []RunningHasPort
<1>1. IInv => RunningHasPort
  BY DEF IInv
<1>2. QED
  BY Invariance, <1>1, PTL

\* Each answer carries the session its client was given, however many clients
\* wait, leave or are reset, and whichever process has the port.
THEOREM SessionTheorem == Spec => []AnswersOwnSession
<1>1. IInv => AnswersOwnSession
  BY DEF IInv, PlaceInv
<1>2. QED
  BY Invariance, <1>1, PTL

\* The companion's cache hides no edit, but for those it cannot see by time and
\* size and those a failed fopen() hides: with the file never away, the names
\* in a cache that was read from it are those of a version no older than the
\* time the cache was filled with.
THEOREM EditTheorem == Spec => EditsTakeEffect
<1> DEFINE Answers == comp # None /\ comp' = None /\ cache'.loaded /\ conf # None
           Shown   == \/ cache'.names = conf.names
                      \/ cache'.blind
                      \/ comp.stamp # stamp(conf)
                      \/ None \in versions \/ \E f \in versions : f # conf /\ f.mtime = conf.mtime
<1>1. ASSUME IInv, [Next]_vars, Answers
      PROVE  Shown
  <2> USE DEF fileVars, askVars, serverVars, clientVars
  <2>1. CompanionAnswers
    <3>1. comp' # comp
      BY <1>1
    <3>2. ASSUME Files PROVE FALSE
      BY <3>1, <3>2, FilesShape
    <3>3. ASSUME NEW p \in Procs, Starting(p) \/ Serving(p) \/ Ending(p) PROVE FALSE
      BY <3>1, <3>3, AskShape
    <3>4. ASSUME NEW p \in Procs, Asking(p) PROVE FALSE
      BY <1>1, <3>1, <3>4 DEF Asking, Specialize, QueryFails, CompanionStats
    <3>5. ~CompanionDies
      BY <1>1 DEF CompanionDies, Uncached
    <3>6. QED
      BY <1>1, <3>1, <3>2, <3>3, <3>4, <3>5, NextCases
         DEF vars, Tick, Visiting, ClientConnects, ClientLeaves
  <2>2. CASE SameFile(comp.stamp)
    <3>1. SUFFICES ASSUME ~cache'.blind, None \notin versions, comp.stamp = stamp(conf),
                          \A f \in versions : f.mtime = conf.mtime => f = conf
                   PROVE  cache'.names = conf.names
      BY <1>1
    <3>2. cache' = cache /\ cache.loaded /\ cache.stamp[1] = conf.mtime
      BY <2>1, <2>2, <3>1, StampTime DEF CompanionAnswers, SameFile
    <3>3. PICK g \in versions : cache.names = g.names /\ g.mtime >= cache.stamp[1]
      BY <1>1, <3>1, <3>2 DEF IInv, EditInv
    <3>4. g.mtime <= conf.mtime
      BY <1>1, <3>1 DEF IInv, EditInv
    <3>5. g.mtime \in Nat /\ conf.mtime \in Nat
      BY <1>1, <3>1, TimesAreNat DEF IInv, EditInv
    <3>6. g = conf
      BY <3>1, <3>2, <3>3, <3>4, <3>5
    <3>7. QED
      BY <3>2, <3>3, <3>6
  <2>3. CASE ~SameFile(comp.stamp)
    BY <1>1, <2>1, <2>3 DEF CompanionAnswers, Reads
  <2>4. QED
    BY <2>2, <2>3
<1>2. IInv /\ [Next]_vars => [Answers => Shown]_vars
  BY <1>1
<1>3. QED
  BY Invariance, <1>2, PTL DEF Spec, EditsTakeEffect

=============================================================================
