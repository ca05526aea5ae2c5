------------------------- MODULE BridgeClientProofs -------------------------
(***************************************************************************)
(* Proofs about BridgeClient for every number of connections, reconnect    *)
(* threads and application calls: types, the ownership of _state_lock, the *)
(* reconnect flag, the session discipline that rests on the lock, and what *)
(* close() leaves behind.                                                  *)
(***************************************************************************)
EXTENDS BridgeClient, TLAPS

\* Inside connect(), the clean-up after a failed HELLO included, a thread owns
\* _state_lock, and nobody else does.
LockInv ==
  \A t \in Connectors : pc[t] \in Connecting \cup Losing <=> stateLock = t

\* A thread is at one of these labels of connect() between opening a socket and
\* publishing the session.
Shaking == {"c_hello", "c_send", "c_await", "c_session", "c_retire", "c_current"}

\* A handshake runs on a connection that was granted.
ConnInv == \A t \in Connectors : pc[t] \in Shaking \cup {"c_up"} => conn \in Conns

\* The threads of a connection do not exist before its handshake is over.
BornInv ==
  \A c \in Conns :
    c > conn \/ (c = conn /\ \E t \in Connectors : pc[t] \in Shaking \cup {"c_up"})
      => pc[Reader(c)] = "none" /\ pc[Heartbeat(c)] = "none"

\* No session is newer than the newest connection.
NewestInv == \A c \in Conns : sstate[c] # "none" => c <= conn

\* The current session was opened.
CurrentInv == current # NoConn => sstate[current] # "none"

SessionInv == FreshHandshake /\ NewestInv /\ CurrentInv

IInv == TypeOK /\ LockInv /\ ConnInv /\ BornInv /\ ReconnectFlagHasLoop /\ SessionInv

-----------------------------------------------------------------------------
\* The four kinds of threads are different, and nobody is none of them.
LEMMA Kinds ==
  /\ Readers \subseteq Threads /\ Heartbeats \subseteq Threads
  /\ Loops \subseteq Connectors /\ Connectors \subseteq Threads
  /\ App \in Connectors /\ App \notin Loops
  /\ Connectors = Loops \cup {App}
  /\ Threads = Readers \cup Heartbeats \cup Connectors
  /\ Readers \cap Heartbeats = {}
  /\ Readers \cap Connectors = {}
  /\ Heartbeats \cap Connectors = {}
  /\ NoThread \notin Threads
  /\ \A c \in Conns : Reader(c) \in Readers /\ Heartbeat(c) \in Heartbeats
  BY DEF Readers, Heartbeats, Loops, Connectors, Threads, Reader, Heartbeat,
         Loop, App, NoThread

LEMMA TypeInit == Init => TypeOK
<1> SUFFICES ASSUME Init PROVE TypeOK
  OBVIOUS
<1>1. PcOK
  BY Kinds DEF Init, PcOK, Labels, ReaderLabels, HeartbeatLabels, LoopLabels, AppLabels
<1>2. LinkOK
  <2>1. link \in LinkStates
    BY DEF Init, LinkStates
  <2>2. closing \in BOOLEAN /\ reconnecting \in BOOLEAN
    BY DEF Init
  <2>3. QED
    BY <2>1, <2>2 DEF LinkOK
<1>3. LockOK
  BY DEF Init, LockOK
<1>4. ops \in 0 .. MaxOps /\ SockOK
  BY BridgeClientAssumption DEF Init, SockOK, NoConn
<1>5. NetOK
  BY BridgeClientAssumption DEF Init, NetOK, NoConn
<1>6. PingOK
  BY DEF Init, PingOK, News
<1>7. SessOK
  <2>1. current \in 0 .. MaxConn /\ generation \in Nat /\ history \subseteq Conns
    BY BridgeClientAssumption DEF Init, NoConn
  <2>2. sstate \in [Conns -> SessionStates] /\ outlived \in BOOLEAN
    BY DEF Init, SessionStates
  <2>3. QED
    BY <2>1, <2>2 DEF SessOK
<1>8. QED
  BY <1>1, <1>2, <1>3, <1>4, <1>5, <1>6, <1>7 DEF TypeOK

\* A thread that goes to a label of its kind leaves pc well typed.
LEMMA GoToOK ==
  ASSUME PcOK, NEW t \in Threads, NEW label, GoTo(t, label),
         t \in Readers => label \in ReaderLabels,
         t \in Heartbeats => label \in HeartbeatLabels,
         t \in Loops => label \in LoopLabels,
         t = App => label \in AppLabels
  PROVE  PcOK'
  BY Kinds DEF GoTo, PcOK, Labels

\* What a step leaves alone stays well typed.
LEMMA Frame ==
  /\ LinkOK /\ UNCHANGED linkVars => LinkOK'
  /\ LockOK /\ UNCHANGED locks => LockOK'
  /\ SockOK /\ UNCHANGED sockVars => SockOK'
  /\ NetOK /\ UNCHANGED netVars => NetOK'
  /\ PingOK /\ UNCHANGED pingVars => PingOK'
  /\ SessOK /\ UNCHANGED sessVars => SessOK'
<1>1. LinkOK /\ UNCHANGED linkVars => LinkOK'
  BY DEF linkVars, LinkOK
<1>2. LockOK /\ UNCHANGED locks => LockOK'
  BY DEF locks, LockOK
<1>3. SockOK /\ UNCHANGED sockVars => SockOK'
  BY DEF sockVars, SockOK
<1>4. NetOK /\ UNCHANGED netVars => NetOK'
  BY DEF netVars, NetOK
<1>5. PingOK /\ UNCHANGED pingVars => PingOK'
  BY DEF pingVars, PingOK
<1>6. SessOK /\ UNCHANGED sessVars => SessOK'
  BY DEF sessVars, SessOK
<1>7. QED
  BY <1>1, <1>2, <1>3, <1>4, <1>5, <1>6

\* Where each kind of thread may go.
LEMMA ReaderGoes ==
  ASSUME PcOK, NEW c \in Conns, NEW label \in ReaderLabels, GoTo(Reader(c), label)
  PROVE  PcOK'
  BY Kinds, GoToOK

LEMMA HeartbeatGoes ==
  ASSUME PcOK, NEW c \in Conns, NEW label \in HeartbeatLabels, GoTo(Heartbeat(c), label)
  PROVE  PcOK'
  BY Kinds, GoToOK

LEMMA LoopGoes ==
  ASSUME PcOK, NEW l \in Loops, NEW label \in LoopLabels, GoTo(l, label)
  PROVE  PcOK'
  BY Kinds, GoToOK

LEMMA AppGoes ==
  ASSUME PcOK, NEW label \in AppLabels, GoTo(App, label)
  PROVE  PcOK'
  BY Kinds, GoToOK

LEMMA ConnectorGoes ==
  ASSUME PcOK, NEW t \in Connectors, NEW label, GoTo(t, label),
         label \in LoopLabels \cap AppLabels
  PROVE  PcOK'
  BY Kinds, GoToOK

\* A thread that runs _on_link_lost() returns to a label of its kind.
LEMMA AfterLostKind ==
  ASSUME NEW t \in Threads
  PROVE  /\ t \in Readers => AfterLost(t) \in ReaderLabels
         /\ t \in Heartbeats => AfterLost(t) \in HeartbeatLabels
         /\ t \in Loops => AfterLost(t) \in LoopLabels
         /\ t = App => AfterLost(t) \in AppLabels
  BY Kinds DEF AfterLost, ReaderLabels, HeartbeatLabels, LoopLabels, AppLabels, Connecting

LEMMA LosingKind ==
  Losing \subseteq ReaderLabels \cap HeartbeatLabels \cap LoopLabels \cap AppLabels
  BY DEF ReaderLabels, HeartbeatLabels, LoopLabels, AppLabels

LEMMA LostGoes ==
  ASSUME PcOK, NEW t \in Threads, NEW label, GoTo(t, label),
         label \in Losing \/ label = AfterLost(t)
  PROVE  PcOK'
  BY GoToOK, AfterLostKind, LosingKind

\* _close_socket() keeps the types.
LEMMA CloseSocketType ==
  ASSUME SockOK, NetOK, CloseSocket, UNCHANGED <<held, gone>>
  PROVE  SockOK' /\ NetOK'
<1>1. SockOK'
  BY BridgeClientAssumption DEF SockOK, CloseSocket, NoConn, Conns
<1>2. NetOK'
  BY DEF NetOK, CloseSocket
<1>3. QED
  BY <1>1, <1>2

\* A step that moves one thread and changes nothing else.
LEMMA Still ==
  ASSUME TypeOK, UNCHANGED shared, PcOK'
  PROVE  TypeOK'
<1>1. /\ UNCHANGED ops /\ UNCHANGED linkVars /\ UNCHANGED locks /\ UNCHANGED sockVars
      /\ UNCHANGED netVars /\ UNCHANGED pingVars /\ UNCHANGED sessVars
  BY DEF shared
<1>2. ops' \in 0 .. MaxOps
  BY <1>1 DEF TypeOK
<1>3. LinkOK' /\ LockOK' /\ SockOK' /\ NetOK' /\ PingOK' /\ SessOK'
  BY <1>1, Frame DEF TypeOK
<1>4. QED
  BY <1>2, <1>3 DEF TypeOK

\* _on_link_lost() keeps the types.
LEMMA LinkLostType ==
  ASSUME TypeOK, NEW t \in Threads, LinkLostStep(t)
  PROVE  TypeOK'
<1> USE DEF TypeOK
<1>1. CASE LostLock(t)
  <2>1. PcOK'
    BY <1>1, LostGoes DEF LostLock, Losing
  <2>2. LinkOK'
    <3>1. link' \in LinkStates
      BY <1>1 DEF LostLock, LinkOK, LinkStates
    <3>2. closing' \in BOOLEAN /\ reconnecting' \in BOOLEAN
      BY <1>1 DEF LostLock, LinkOK
    <3>3. QED
      BY <3>1, <3>2 DEF LinkOK
  <2>3. LockOK'
    BY <1>1 DEF LostLock, LostReturns, LockOK
  <2>4. ops' \in 0 .. MaxOps
    BY <1>1 DEF LostLock
  <2>5. QED
    BY <1>1, <2>1, <2>2, <2>3, <2>4, Frame DEF LostLock
<1>2. CASE LostDegrade(t)
  <2>1. PcOK'
    BY <1>2, LostGoes DEF LostDegrade, Losing
  <2>2. QED
    BY <1>2, <2>1, Still DEF LostDegrade
<1>3. CASE LostCheck(t)
  <2>1. PcOK'
    BY <1>3, LostGoes DEF LostCheck, Losing
  <2>2. LockOK'
    BY <1>3 DEF LostCheck, LostReturns, LockOK
  <2>3. ops' \in 0 .. MaxOps
    BY <1>3 DEF LostCheck
  <2>4. LinkOK' /\ SockOK' /\ NetOK' /\ PingOK' /\ SessOK'
    BY <1>3, Frame DEF LostCheck
  <2>5. QED
    BY <2>1, <2>2, <2>3, <2>4
<1>4. CASE LostMark(t)
  <2>1. PcOK'
    BY <1>4, LostGoes DEF LostMark, Losing
  <2>2. SessOK'
    BY <1>4 DEF LostMark, SessionDegrade, SessOK, SessionStates
  <2>3. ops' \in 0 .. MaxOps
    BY <1>4 DEF LostMark
  <2>4. LinkOK' /\ LockOK' /\ SockOK' /\ NetOK' /\ PingOK'
    BY <1>4, Frame DEF LostMark
  <2>5. QED
    BY <2>1, <2>2, <2>3, <2>4
<1>5. CASE LostName(t) \/ LostReads(t)
  <2>1. PcOK'
    BY <1>5, LostGoes DEF LostName, LostReads, Losing
  <2>2. QED
    BY <1>5, <2>1, Still DEF LostName, LostReads
<1>6. CASE LostRaises(t)
  <2>1. PcOK'
    <3>1. t \in Connectors => GoTo(t, "c_fail")
      BY <1>6 DEF LostRaises
    <3>2. t \notin Connectors => GoTo(t, "done")
      BY <1>6 DEF LostRaises
    <3>3. CASE t \in Connectors
      BY <3>1, <3>3, ConnectorGoes DEF LoopLabels, AppLabels, Connecting
    <3>4. CASE t \notin Connectors
      <4>1. (\E c \in Conns : t = Reader(c)) \/ (\E c \in Conns : t = Heartbeat(c))
        BY <3>4 DEF Threads, Readers, Heartbeats
      <4>2. QED
        BY <3>2, <3>4, <4>1, ReaderGoes, HeartbeatGoes DEF ReaderLabels, HeartbeatLabels
    <3>5. QED
      BY <3>3, <3>4
  <2>2. LockOK'
    BY <1>6 DEF LostRaises, LostReturns, LockOK
  <2>3. ops' \in 0 .. MaxOps
    BY <1>6 DEF LostRaises
  <2>4. LinkOK' /\ SockOK' /\ NetOK' /\ PingOK' /\ SessOK'
    BY <1>6, Frame DEF LostRaises
  <2>5. QED
    BY <2>1, <2>2, <2>3, <2>4
<1>7. CASE LostSpawn(t)
  <2>1. PcOK'
    BY <1>7, LostGoes DEF LostSpawn, Losing
  <2>2. LinkOK'
    <3>1. link' \in LinkStates
      BY <1>7 DEF LostSpawn, LinkOK
    <3>2. closing' \in BOOLEAN /\ reconnecting' \in BOOLEAN
      BY <1>7 DEF LostSpawn, LinkOK
    <3>3. QED
      BY <3>1, <3>2 DEF LinkOK
  <2>3. ops' \in 0 .. MaxOps
    BY <1>7 DEF LostSpawn
  <2>4. LockOK' /\ SockOK' /\ NetOK' /\ PingOK' /\ SessOK'
    BY <1>7, Frame DEF LostSpawn
  <2>5. QED
    BY <2>1, <2>2, <2>3, <2>4
<1>8. CASE LostStart(t)
  <2> PICK l \in Loops : /\ pc[l] = "none"
                         /\ pc' = [pc EXCEPT ![t] = AfterLost(t), ![l] = "top"]
    BY <1>8 DEF LostStart
  <2>1. PcOK'
    <3> DEFINE mid == [pc EXCEPT ![t] = AfterLost(t)]
    <3>1. pc' = [mid EXCEPT ![l] = "top"]
      OBVIOUS
    <3>2. l \in Threads /\ l \notin Readers /\ l \notin Heartbeats /\ l # App
      BY Kinds
    <3>3. "top" \in LoopLabels /\ "top" \in Labels
      BY DEF LoopLabels, Labels
    <3>4. AfterLost(t) \in Labels
      BY AfterLostKind, Kinds DEF Labels
    <3>5. QED
      BY <3>1, <3>2, <3>3, <3>4, AfterLostKind, Kinds DEF PcOK
  <2>2. LockOK'
    BY <1>8 DEF LostStart, LostReturns, LockOK
  <2>3. ops' \in 0 .. MaxOps
    BY <1>8 DEF LostStart
  <2>4. LinkOK' /\ SockOK' /\ NetOK' /\ PingOK' /\ SessOK'
    BY <1>8, Frame DEF LostStart
  <2>5. QED
    BY <2>1, <2>2, <2>3, <2>4
<1>9. QED
  BY <1>1, <1>2, <1>3, <1>4, <1>5, <1>6, <1>7, <1>8 DEF LinkLostStep

\* A connect() that raises returns to a label of its caller.
LEMMA RefusalGoes ==
  ASSUME PcOK, NEW t \in Connectors, GoTo(t, AfterRefusal(t))
  PROVE  PcOK'
<1>1. CASE t = App
  BY <1>1, AppGoes DEF AfterRefusal, AppLabels
<1>2. CASE t # App
  BY <1>2, Kinds, LoopGoes DEF AfterRefusal, LoopLabels
<1>3. QED
  BY <1>1, <1>2

\* connect() keeps the types, up to LinkUp and ConnFail.
LEMMA ConnectType ==
  ASSUME TypeOK, NEW t \in Connectors,
         ConnLock(t) \/ ConnRefused(t) \/ ConnOpen(t) \/ HelloReads(t) \/ Hello(t)
           \/ HelloFails(t) \/ HandshakeDone(t) \/ HandshakeFails(t)
           \/ FindOld(t) \/ RetireOld(t) \/ RetireRaises(t) \/ OpenSession(t)
  PROVE  TypeOK'
<1> USE DEF TypeOK
<1>1. CASE ConnLock(t)
  <2>1. PcOK'
    BY <1>1, ConnectorGoes DEF ConnLock, LoopLabels, AppLabels, Connecting, Losing
  <2>2. LinkOK'
    <3>1. link' \in LinkStates
      BY <1>1 DEF ConnLock, LinkOK, LinkStates
    <3>2. closing' \in BOOLEAN /\ reconnecting' \in BOOLEAN
      BY <1>1 DEF ConnLock, LinkOK
    <3>3. QED
      BY <3>1, <3>2 DEF LinkOK
  <2>3. LockOK'
    BY <1>1 DEF ConnLock, LockOK
  <2>4. ops' \in 0 .. MaxOps
    BY <1>1 DEF ConnLock
  <2>5. SockOK' /\ NetOK' /\ PingOK' /\ SessOK'
    BY <1>1, Frame DEF ConnLock
  <2>6. QED
    BY <2>1, <2>2, <2>3, <2>4, <2>5
<1>2. CASE ConnRefused(t)
  <2>1. PcOK'
    BY <1>2, RefusalGoes DEF ConnRefused
  <2>2. LockOK'
    BY <1>2 DEF ConnRefused, LockOK
  <2>3. ops' \in 0 .. MaxOps
    BY <1>2 DEF ConnRefused
  <2>4. LinkOK' /\ SockOK' /\ NetOK' /\ PingOK' /\ SessOK'
    BY <1>2, Frame DEF ConnRefused
  <2>5. QED
    BY <2>1, <2>2, <2>3, <2>4
<1>3. CASE ConnOpen(t)
  <2>1. PcOK'
    BY <1>3, ConnectorGoes DEF ConnOpen, LoopLabels, AppLabels, Connecting, Losing
  <2>2. SockOK'
    BY <1>3, BridgeClientAssumption DEF ConnOpen, SockOK
  <2>3. ops' \in 0 .. MaxOps
    BY <1>3 DEF ConnOpen
  <2>4. LinkOK' /\ LockOK' /\ NetOK' /\ PingOK' /\ SessOK'
    BY <1>3, Frame DEF ConnOpen
  <2>5. QED
    BY <2>1, <2>2, <2>3, <2>4
<1>4. CASE Hello(t)
  <2>1. PcOK'
    BY <1>4, ConnectorGoes DEF Hello, LoopLabels, AppLabels, Connecting, Losing
  <2>2. QED
    BY <1>4, <2>1, Still DEF Hello
<1>5. CASE HelloFails(t)
  <2>1. PcOK'
    BY <1>5, ConnectorGoes DEF HelloFails, LoopLabels, AppLabels, Connecting, Losing
  <2>2. LockOK'
    BY <1>5, Kinds DEF HelloFails, LockOK
  <2>3. ops' \in 0 .. MaxOps
    BY <1>5 DEF HelloFails
  <2>4. LinkOK' /\ SockOK' /\ NetOK' /\ PingOK' /\ SessOK'
    BY <1>5, Frame DEF HelloFails
  <2>5. QED
    BY <2>1, <2>2, <2>3, <2>4
<1>6. CASE HelloReads(t) \/ FindOld(t) \/ RetireRaises(t)
  <2>1. PcOK'
    BY <1>6, ConnectorGoes DEF HelloReads, FindOld, RetireRaises, LoopLabels, AppLabels,
                               Connecting, Losing
  <2>2. QED
    BY <1>6, <2>1, Still DEF HelloReads, FindOld, RetireRaises
<1>7. CASE HandshakeDone(t)
  <2>1. PcOK'
    BY <1>7, ConnectorGoes DEF HandshakeDone, LoopLabels, AppLabels, Connecting, Losing
  <2>2. QED
    BY <1>7, <2>1, Still DEF HandshakeDone
<1>8. CASE HandshakeFails(t)
  <2>1. PcOK'
    BY <1>8, ConnectorGoes DEF HandshakeFails, LoopLabels, AppLabels, Connecting, Losing
  <2>2. QED
    BY <1>8, <2>1, Still DEF HandshakeFails
<1>9. CASE RetireOld(t)
  <2>1. PcOK'
    BY <1>9, ConnectorGoes DEF RetireOld, LoopLabels, AppLabels, Connecting, Losing
  <2>2. SessOK'
    BY <1>9, BridgeClientAssumption DEF RetireOld, SessionRetire, SessOK, SessionStates, NoConn,
                                        Conns
  <2>3. ops' \in 0 .. MaxOps
    BY <1>9 DEF RetireOld
  <2>4. LinkOK' /\ LockOK' /\ SockOK' /\ NetOK' /\ PingOK'
    BY <1>9, Frame DEF RetireOld
  <2>5. QED
    BY <2>1, <2>2, <2>3, <2>4
<1>10. CASE OpenSession(t)
  <2>1. PcOK'
    BY <1>10, ConnectorGoes DEF OpenSession, LoopLabels, AppLabels, Connecting, Losing
  <2>2. SessOK'
    <3>1. sstate' \in [Conns -> SessionStates]
      BY <1>10 DEF OpenSession, SessionReplace, SessOK, SessionStates
    <3>2. current' \in 0 .. MaxConn /\ generation' \in Nat /\ history' \subseteq Conns
      BY <1>10 DEF OpenSession, SessionReplace, SessOK, SockOK
    <3>3. outlived' \in BOOLEAN
      BY <1>10 DEF OpenSession, SessionReplace, SessOK
    <3>4. QED
      BY <3>1, <3>2, <3>3 DEF SessOK
  <2>3. ops' \in 0 .. MaxOps
    BY <1>10 DEF OpenSession
  <2>4. LinkOK' /\ LockOK' /\ SockOK' /\ NetOK' /\ PingOK'
    BY <1>10, Frame DEF OpenSession
  <2>5. QED
    BY <2>1, <2>2, <2>3, <2>4
<1>11. QED
  BY <1>1, <1>2, <1>3, <1>4, <1>5, <1>6, <1>7, <1>8, <1>9, <1>10

\* The end of a successful connect() keeps the types.
LEMMA LinkUpType ==
  ASSUME TypeOK, NEW t \in Connectors, LinkUp(t)
  PROVE  TypeOK'
<1> USE DEF TypeOK
<1>1. PcOK'
  <2> DEFINE next == IF t = App THEN "idle" ELSE "exit"
             one  == [pc EXCEPT ![t] = next]
             two  == [one EXCEPT ![Reader(conn)] = "top"]
  <2>1. pc' = [two EXCEPT ![Heartbeat(conn)] = "sleep"]
    BY DEF LinkUp
  <2>2. /\ next \in Labels /\ "top" \in Labels /\ "sleep" \in Labels
        /\ "top" \in ReaderLabels /\ "sleep" \in HeartbeatLabels
        /\ t = App => next \in AppLabels
        /\ t # App => next \in LoopLabels
    BY DEF Labels, ReaderLabels, HeartbeatLabels, LoopLabels, AppLabels
  <2>3. /\ Reader(conn) \notin Heartbeats \cup Connectors
        /\ Heartbeat(conn) \notin Readers \cup Connectors
    BY DEF Reader, Heartbeat, Readers, Heartbeats, Connectors, Loops, Loop, App
  <2>4. one \in [Threads -> Labels] /\ two \in [Threads -> Labels]
    BY <2>2 DEF PcOK
  <2>5. pc' \in [Threads -> Labels]
    BY <2>1, <2>2, <2>4
  <2> HIDE DEF next
  <2>6. \A u \in Readers : pc'[u] \in ReaderLabels
    BY <2>1, <2>2, <2>3, <2>4, Kinds DEF PcOK
  <2>7. \A u \in Heartbeats : pc'[u] \in HeartbeatLabels
    BY <2>1, <2>2, <2>3, <2>4, Kinds DEF PcOK
  <2>8. (\A u \in Loops : pc'[u] \in LoopLabels) /\ pc'[App] \in AppLabels
    BY <2>1, <2>2, <2>3, <2>4, Kinds DEF PcOK
  <2>9. QED
    BY <2>5, <2>6, <2>7, <2>8 DEF PcOK
<1>2. LinkOK'
  <2>1. link' \in LinkStates
    BY DEF LinkUp, LinkStates
  <2>2. closing' \in BOOLEAN /\ reconnecting' \in BOOLEAN
    BY DEF LinkUp, LinkOK
  <2>3. QED
    BY <2>1, <2>2 DEF LinkOK
<1>3. LockOK'
  BY DEF LinkUp, LockOK
<1>4. PingOK'
  BY DEF LinkUp, PingOK, News
<1>5. ops' \in 0 .. MaxOps
  BY DEF LinkUp
<1>6. SockOK' /\ NetOK' /\ SessOK'
  BY Frame DEF LinkUp
<1>7. QED
  BY <1>1, <1>2, <1>3, <1>4, <1>5, <1>6

\* The clean-up of a failed connect() and the reconnect loop keep the types.
LEMMA LoopType ==
  ASSUME TypeOK, NEW t \in Connectors,
         ConnFail(t) \/ (t \in Loops /\ LoopStep(t))
  PROVE  TypeOK'
<1> USE DEF TypeOK
<1>1. CASE ConnFail(t)
  <2>1. PcOK'
    BY <1>1, RefusalGoes DEF ConnFail
  <2>2. LockOK'
    BY <1>1 DEF ConnFail, LockOK
  <2>3. SockOK' /\ NetOK'
    BY <1>1, CloseSocketType DEF ConnFail
  <2>4. ops' \in 0 .. MaxOps
    BY <1>1 DEF ConnFail
  <2>5. LinkOK' /\ PingOK' /\ SessOK'
    BY <1>1, Frame DEF ConnFail
  <2>6. QED
    BY <2>1, <2>2, <2>3, <2>4, <2>5
<1>2. CASE t \in Loops /\ LoopStops(t)
  <2>1. PcOK'
    BY <1>2, LoopGoes DEF LoopStops, LoopLabels
  <2>2. QED
    BY <1>2, <2>1, Still DEF LoopStops
<1>3. CASE t \in Loops /\ LoopRetries(t)
  <2>1. PcOK'
    BY <1>3, LoopGoes DEF LoopRetries, LoopLabels
  <2>2. SockOK' /\ NetOK'
    BY <1>3, CloseSocketType DEF LoopRetries
  <2>3. ops' \in 0 .. MaxOps
    BY <1>3 DEF LoopRetries
  <2>4. LinkOK' /\ LockOK' /\ PingOK' /\ SessOK'
    BY <1>3, Frame DEF LoopRetries
  <2>5. QED
    BY <2>1, <2>2, <2>3, <2>4
<1>4. CASE t \in Loops /\ LoopExits(t)
  <2>1. PcOK'
    BY <1>4, LoopGoes DEF LoopExits, LoopLabels
  <2>2. LinkOK'
    <3>1. link' \in LinkStates
      BY <1>4 DEF LoopExits, LinkOK, LinkStates
    <3>2. closing' \in BOOLEAN /\ reconnecting' \in BOOLEAN
      BY <1>4 DEF LoopExits, LinkOK
    <3>3. QED
      BY <3>1, <3>2 DEF LinkOK
  <2>3. ops' \in 0 .. MaxOps
    BY <1>4 DEF LoopExits
  <2>4. LockOK' /\ SockOK' /\ NetOK' /\ PingOK' /\ SessOK'
    BY <1>4, Frame DEF LoopExits
  <2>5. QED
    BY <2>1, <2>2, <2>3, <2>4
<1>5. QED
  BY <1>1, <1>2, <1>3, <1>4 DEF LoopStep

LEMMA ForgetType ==
  ASSUME NetOK, NEW t, Forget(t)
  PROVE  held' \in [Readers \cup Heartbeats -> 0 .. MaxConn]
<1>1. NoConn \in 0 .. MaxConn
  BY BridgeClientAssumption DEF NoConn
<1>2. QED
  BY <1>1 DEF NetOK, Forget

\* The reader keeps the types.
LEMMA ReaderType ==
  ASSUME TypeOK, NEW c \in Conns, ReaderStep(c)
  PROVE  TypeOK'
<1> USE DEF TypeOK
<1>1. CASE ReadTop(c)
  <2>1. PcOK'
    BY <1>1, ReaderGoes DEF ReadTop, ReaderLabels, Losing
  <2>2. NetOK'
    BY <1>1 DEF ReadTop, NetOK, SockOK
  <2>3. ops' \in 0 .. MaxOps
    BY <1>1 DEF ReadTop
  <2>4. LinkOK' /\ LockOK' /\ SockOK' /\ PingOK' /\ SessOK'
    BY <1>1, Frame DEF ReadTop
  <2>5. QED
    BY <2>1, <2>2, <2>3, <2>4
<1>2. CASE ReadOther(c)
  <2>1. PcOK'
    BY <1>2, ReaderGoes DEF ReadOther, ReaderLabels, Losing
  <2>2. NetOK'
    <3>1. gone' \subseteq Conns /\ pongs' \in [Conns -> SUBSET {"new", "old"}]
      BY <1>2 DEF ReadOther, NetOK
    <3>2. QED
      BY <1>2, <3>1, ForgetType DEF ReadOther, NetOK
  <2>3. ops' \in 0 .. MaxOps
    BY <1>2 DEF ReadOther
  <2>4. LinkOK' /\ LockOK' /\ SockOK' /\ PingOK' /\ SessOK'
    BY <1>2, Frame DEF ReadOther
  <2>5. QED
    BY <2>1, <2>2, <2>3, <2>4
<1>3. CASE ReadEnd(c)
  <2>1. PcOK'
    BY <1>3, ReaderGoes DEF ReadEnd, ReaderLabels, Losing
  <2>2. NetOK'
    <3>1. gone' \subseteq Conns /\ pongs' \in [Conns -> SUBSET {"new", "old"}]
      BY <1>3 DEF ReadEnd, NetOK
    <3>2. QED
      BY <1>3, <3>1, ForgetType DEF ReadEnd, NetOK
  <2>3. ops' \in 0 .. MaxOps
    BY <1>3 DEF ReadEnd
  <2>4. LinkOK' /\ LockOK' /\ SockOK' /\ PingOK' /\ SessOK'
    BY <1>3, Frame DEF ReadEnd
  <2>5. QED
    BY <2>1, <2>2, <2>3, <2>4
<1>4. CASE ReadMalformed(c)
  <2>1. PcOK'
    BY <1>4, ReaderGoes DEF ReadMalformed, ReaderLabels, Losing
  <2>2. NetOK'
    <3>1. gone' \subseteq Conns /\ pongs' \in [Conns -> SUBSET {"new", "old"}]
      BY <1>4 DEF ReadMalformed, NetOK
    <3>2. QED
      BY <1>4, <3>1, ForgetType DEF ReadMalformed, NetOK
  <2>3. ops' \in 0 .. MaxOps
    BY <1>4 DEF ReadMalformed
  <2>4. LinkOK' /\ LockOK' /\ SockOK' /\ PingOK' /\ SessOK'
    BY <1>4, Frame DEF ReadMalformed
  <2>5. QED
    BY <2>1, <2>2, <2>3, <2>4
<1>5. CASE ReadPong(c)
  <2>1. PcOK'
    BY <1>5, ReaderGoes DEF ReadPong, ReaderLabels, Losing
  <2>2. NetOK'
    <3>1. gone' \subseteq Conns /\ pongs' \in [Conns -> SUBSET {"new", "old"}]
      BY <1>5 DEF ReadPong, NetOK
    <3>2. QED
      BY <1>5, <3>1, ForgetType DEF ReadPong, NetOK
  <2>3. PingOK'
    BY <1>5 DEF ReadPong, Tell, PingOK, News
  <2>4. ops' \in 0 .. MaxOps
    BY <1>5 DEF ReadPong
  <2>5. LinkOK' /\ LockOK' /\ SockOK' /\ SessOK'
    BY <1>5, Frame DEF ReadPong
  <2>6. QED
    BY <2>1, <2>2, <2>3, <2>4, <2>5
<1>6. CASE PongTouch(c) \/ PongCheck(c)
  <2>1. PcOK'
    BY <1>6, ReaderGoes DEF PongTouch, PongCheck, ReaderLabels, Losing
  <2>2. QED
    BY <1>6, <2>1, Still DEF PongTouch, PongCheck
<1>7. CASE PongUp(c)
  <2>1. PcOK'
    BY <1>7, ReaderGoes DEF PongUp, ReaderLabels, Losing
  <2>2. LinkOK'
    <3>1. link' \in LinkStates
      BY <1>7 DEF PongUp, LinkOK, LinkStates
    <3>2. closing' \in BOOLEAN /\ reconnecting' \in BOOLEAN
      BY <1>7 DEF PongUp, LinkOK
    <3>3. QED
      BY <3>1, <3>2 DEF LinkOK
  <2>3. ops' \in 0 .. MaxOps
    BY <1>7 DEF PongUp
  <2>4. LockOK' /\ SockOK' /\ NetOK' /\ PingOK' /\ SessOK'
    BY <1>7, Frame DEF PongUp
  <2>5. QED
    BY <2>1, <2>2, <2>3, <2>4
<1>8. QED
  BY <1>1, <1>2, <1>3, <1>4, <1>5, <1>6, <1>7 DEF ReaderStep

\* The heartbeat keeps the types.
LEMMA HeartbeatType ==
  ASSUME TypeOK, NEW c \in Conns, HeartbeatStep(c)
  PROVE  TypeOK'
<1> USE DEF TypeOK
<1>1. CASE BeatWakes(c)
  <2>1. PcOK'
    BY <1>1, HeartbeatGoes DEF BeatWakes, HeartbeatLabels, Losing
  <2>2. NetOK'
    BY <1>1 DEF BeatWakes, NetOK, SockOK
  <2>3. ops' \in 0 .. MaxOps
    BY <1>1 DEF BeatWakes
  <2>4. LinkOK' /\ LockOK' /\ SockOK' /\ PingOK' /\ SessOK'
    BY <1>1, Frame DEF BeatWakes
  <2>5. QED
    BY <2>1, <2>2, <2>3, <2>4
<1>2. CASE BeatPings(c)
  <2>1. PcOK'
    BY <1>2, HeartbeatGoes DEF BeatPings, HeartbeatLabels, Losing
  <2>2. NetOK'
    <3>1. gone' \subseteq Conns /\ pongs' \in [Conns -> SUBSET {"new", "old"}]
      BY <1>2 DEF BeatPings, NetOK, Superseded
    <3>2. QED
      BY <1>2, <3>1, ForgetType DEF BeatPings, NetOK
  <2>3. PingOK'
    BY <1>2 DEF BeatPings, Overtaken, PingOK, News
  <2>4. ops' \in 0 .. MaxOps
    BY <1>2 DEF BeatPings
  <2>5. LinkOK' /\ LockOK' /\ SockOK' /\ SessOK'
    BY <1>2, Frame DEF BeatPings
  <2>6. QED
    BY <2>1, <2>2, <2>3, <2>4, <2>5
<1>3. CASE BeatSendFails(c)
  <2>1. PcOK'
    BY <1>3, HeartbeatGoes DEF BeatSendFails, HeartbeatLabels, Losing
  <2>2. LockOK'
    BY <1>3, Kinds DEF BeatSendFails, LockOK
  <2>3. NetOK'
    <3>1. gone' \subseteq Conns /\ pongs' \in [Conns -> SUBSET {"new", "old"}]
      BY <1>3 DEF BeatSendFails, NetOK, Superseded
    <3>2. QED
      BY <1>3, <3>1, ForgetType DEF BeatSendFails, NetOK
  <2>4. PingOK'
    BY <1>3 DEF BeatSendFails, Overtaken, PingOK, News
  <2>5. ops' \in 0 .. MaxOps
    BY <1>3 DEF BeatSendFails
  <2>6. LinkOK' /\ SockOK' /\ SessOK'
    BY <1>3, Frame DEF BeatSendFails
  <2>7. QED
    BY <2>1, <2>2, <2>3, <2>4, <2>5, <2>6
<1>4. CASE BeatNoSocket(c)
  <2>1. PcOK'
    BY <1>4, HeartbeatGoes DEF BeatNoSocket, HeartbeatLabels, Losing
  <2>2. NetOK'
    BY <1>4 DEF BeatNoSocket, NetOK, Superseded
  <2>3. PingOK'
    BY <1>4 DEF BeatNoSocket, Overtaken, PingOK, News
  <2>4. ops' \in 0 .. MaxOps
    BY <1>4 DEF BeatNoSocket
  <2>5. LinkOK' /\ LockOK' /\ SockOK' /\ SessOK'
    BY <1>4, Frame DEF BeatNoSocket
  <2>6. QED
    BY <2>1, <2>2, <2>3, <2>4, <2>5
<1>5. CASE BeatAnswered(c)
  <2>1. PcOK'
    BY <1>5, HeartbeatGoes DEF BeatAnswered, HeartbeatLabels, Losing
  <2>2. PingOK'
    BY <1>5 DEF BeatAnswered, PingOK, News
  <2>3. ops' \in 0 .. MaxOps
    BY <1>5 DEF BeatAnswered
  <2>4. LinkOK' /\ LockOK' /\ SockOK' /\ NetOK' /\ SessOK'
    BY <1>5, Frame DEF BeatAnswered
  <2>5. QED
    BY <2>1, <2>2, <2>3, <2>4
<1>6. CASE BeatPatient(c)
  <2>1. PcOK'
    BY <1>6, HeartbeatGoes DEF BeatPatient, HeartbeatLabels, Losing
  <2>2. PingOK'
    BY <1>6 DEF BeatPatient, PingOK, News
  <2>3. ops' \in 0 .. MaxOps
    BY <1>6 DEF BeatPatient
  <2>4. LinkOK' /\ LockOK' /\ SockOK' /\ NetOK' /\ SessOK'
    BY <1>6, Frame DEF BeatPatient
  <2>5. QED
    BY <2>1, <2>2, <2>3, <2>4
<1>7. CASE BeatTimesOut(c)
  <2>1. PcOK'
    BY <1>7, HeartbeatGoes DEF BeatTimesOut, HeartbeatLabels, Losing
  <2>2. PingOK'
    BY <1>7 DEF BeatTimesOut, PingOK, News
  <2>3. ops' \in 0 .. MaxOps
    BY <1>7 DEF BeatTimesOut
  <2>4. LinkOK' /\ LockOK' /\ SockOK' /\ NetOK' /\ SessOK'
    BY <1>7, Frame DEF BeatTimesOut
  <2>5. QED
    BY <2>1, <2>2, <2>3, <2>4
<1>8. CASE BeatJudges(c)
  <2>1. PcOK'
    BY <1>8, HeartbeatGoes DEF BeatJudges, HeartbeatLabels, Losing
  <2>2. LinkOK'
    <3>1. link' \in LinkStates
      BY <1>8 DEF BeatJudges, LinkOK, LinkStates
    <3>2. closing' \in BOOLEAN /\ reconnecting' \in BOOLEAN
      BY <1>8 DEF BeatJudges, LinkOK
    <3>3. QED
      BY <3>1, <3>2 DEF LinkOK
  <2>3. ops' \in 0 .. MaxOps
    BY <1>8 DEF BeatJudges
  <2>4. LockOK' /\ SockOK' /\ NetOK' /\ PingOK' /\ SessOK'
    BY <1>8, Frame DEF BeatJudges
  <2>5. QED
    BY <2>1, <2>2, <2>3, <2>4
<1>9. QED
  BY <1>1, <1>2, <1>3, <1>4, <1>5, <1>6, <1>7, <1>8 DEF HeartbeatStep

\* The application and the peer keep the types.
LEMMA AppType ==
  ASSUME TypeOK, AppConnect \/ AppClose \/ CloseStep \/ (\E c \in Conns : PeerCloses(c))
  PROVE  TypeOK'
<1> USE DEF TypeOK
<1>1. CASE AppConnect
  <2>1. PcOK'
    BY <1>1, AppGoes DEF AppConnect, AppLabels
  <2>2. ops' \in 0 .. MaxOps
    BY <1>1, BridgeClientAssumption DEF AppConnect
  <2>3. LinkOK' /\ LockOK' /\ SockOK' /\ NetOK' /\ PingOK' /\ SessOK'
    BY <1>1, Frame DEF AppConnect
  <2>4. QED
    BY <2>1, <2>2, <2>3
<1>2. CASE AppClose
  <2>1. PcOK'
    BY <1>2, AppGoes DEF AppClose, AppLabels
  <2>2. LinkOK'
    <3>1. link' \in LinkStates
      BY <1>2 DEF AppClose, LinkOK, LinkStates
    <3>2. closing' \in BOOLEAN /\ reconnecting' \in BOOLEAN
      BY <1>2 DEF AppClose, LinkOK
    <3>3. QED
      BY <3>1, <3>2 DEF LinkOK
  <2>3. ops' \in 0 .. MaxOps
    BY <1>2, BridgeClientAssumption DEF AppClose
  <2>4. LockOK' /\ SockOK' /\ NetOK' /\ PingOK' /\ SessOK'
    BY <1>2, Frame DEF AppClose
  <2>5. QED
    BY <2>1, <2>2, <2>3, <2>4
<1>3. CASE CloseDropsSocket
  <2>1. PcOK'
    BY <1>3, AppGoes DEF CloseDropsSocket, AppLabels
  <2>2. SockOK' /\ NetOK'
    BY <1>3, CloseSocketType DEF CloseDropsSocket
  <2>3. ops' \in 0 .. MaxOps
    BY <1>3 DEF CloseDropsSocket
  <2>4. LinkOK' /\ LockOK' /\ PingOK' /\ SessOK'
    BY <1>3, Frame DEF CloseDropsSocket
  <2>5. QED
    BY <2>1, <2>2, <2>3, <2>4
<1>4. CASE CloseJoins
  <2>1. PcOK'
    BY <1>4, AppGoes DEF CloseJoins, AppLabels
  <2>2. SessOK'
    BY <1>4 DEF CloseJoins, SessOK
  <2>3. ops' \in 0 .. MaxOps
    BY <1>4 DEF CloseJoins
  <2>4. LinkOK' /\ LockOK' /\ SockOK' /\ NetOK' /\ PingOK'
    BY <1>4, Frame DEF CloseJoins
  <2>5. QED
    BY <2>1, <2>2, <2>3, <2>4
<1>5. CASE CloseRetires
  <2>1. PcOK'
    BY <1>5, AppGoes DEF CloseRetires, AppLabels
  <2>2. SessOK'
    BY <1>5, BridgeClientAssumption DEF CloseRetires, SessionRetire, SessOK, SessionStates,
                                        NoConn, Conns
  <2>3. ops' \in 0 .. MaxOps
    BY <1>5 DEF CloseRetires
  <2>4. LinkOK' /\ LockOK' /\ SockOK' /\ NetOK' /\ PingOK'
    BY <1>5, Frame DEF CloseRetires
  <2>5. QED
    BY <2>1, <2>2, <2>3, <2>4
<1>6. CASE CloseForgets
  <2>1. PcOK'
    BY <1>6, AppGoes DEF CloseForgets, AppLabels
  <2>2. SessOK'
    BY <1>6, BridgeClientAssumption DEF CloseForgets, SessionForget, SessOK, NoConn
  <2>3. ops' \in 0 .. MaxOps
    BY <1>6 DEF CloseForgets
  <2>4. LinkOK' /\ LockOK' /\ SockOK' /\ NetOK' /\ PingOK'
    BY <1>6, Frame DEF CloseForgets
  <2>5. QED
    BY <2>1, <2>2, <2>3, <2>4
<1>7. CASE CloseSetsLink
  <2>1. PcOK'
    BY <1>7, AppGoes DEF CloseSetsLink, AppLabels
  <2>2. LinkOK'
    <3>1. link' \in LinkStates
      BY <1>7 DEF CloseSetsLink, LinkOK, LinkStates
    <3>2. closing' \in BOOLEAN /\ reconnecting' \in BOOLEAN
      BY <1>7 DEF CloseSetsLink, LinkOK
    <3>3. QED
      BY <3>1, <3>2 DEF LinkOK
  <2>3. ops' \in 0 .. MaxOps
    BY <1>7 DEF CloseSetsLink
  <2>4. LockOK' /\ SockOK' /\ NetOK' /\ PingOK' /\ SessOK'
    BY <1>7, Frame DEF CloseSetsLink
  <2>5. QED
    BY <2>1, <2>2, <2>3, <2>4
<1>8. CASE \E c \in Conns : PeerCloses(c)
  <2>1. PcOK'
    BY <1>8 DEF PeerCloses, PcOK
  <2>2. NetOK'
    BY <1>8 DEF PeerCloses, NetOK
  <2>3. ops' \in 0 .. MaxOps
    BY <1>8 DEF PeerCloses
  <2>4. LinkOK' /\ LockOK' /\ SockOK' /\ PingOK' /\ SessOK'
    BY <1>8, Frame DEF PeerCloses
  <2>5. QED
    BY <2>1, <2>2, <2>3, <2>4
<1>9. QED
  BY <1>1, <1>2, <1>3, <1>4, <1>5, <1>6, <1>7, <1>8 DEF CloseStep

LEMMA TypeNext == TypeOK /\ [Next]_vars => TypeOK'
<1> SUFFICES ASSUME TypeOK, [Next]_vars PROVE TypeOK'
  OBVIOUS
<1>1. CASE \E t \in Threads : LinkLostStep(t)
  BY <1>1, LinkLostType
<1>2. CASE \E t \in Connectors : ConnectStep(t)
  BY <1>2, ConnectType, LinkUpType, LoopType DEF ConnectStep
<1>3. CASE \E l \in Loops : LoopStep(l)
  BY <1>3, LoopType, Kinds
<1>4. CASE \E c \in Conns : ReaderStep(c)
  BY <1>4, ReaderType
<1>5. CASE \E c \in Conns : HeartbeatStep(c)
  BY <1>5, HeartbeatType
<1>6. CASE AppConnect \/ AppClose \/ CloseStep \/ (\E c \in Conns : PeerCloses(c))
  BY <1>6, AppType
<1>7. CASE UNCHANGED vars
  <2>1. UNCHANGED shared /\ UNCHANGED pc
    BY <1>7 DEF vars
  <2>2. PcOK'
    BY <2>1 DEF TypeOK, PcOK
  <2>3. QED
    BY <2>1, <2>2, Still
<1>8. QED
  BY <1>1, <1>2, <1>3, <1>4, <1>5, <1>6, <1>7 DEF Next

\* Whatever the number of connections, threads and calls, the state is well
\* typed: in particular every thread stays in the code of its kind.
THEOREM TypeCorrect == Spec => []TypeOK
  BY TypeInit, TypeNext, PTL DEF Spec

-----------------------------------------------------------------------------
\* A reader, a heartbeat and the peer do not touch what connect() works on.
LEMMA Bystanders ==
  ASSUME TypeOK, NEW c \in Conns, ReaderStep(c) \/ HeartbeatStep(c) \/ PeerCloses(c)
  PROVE  /\ \A t \in Connectors : pc'[t] = pc[t]
         /\ UNCHANGED <<stateLock, reconnecting, conn, sessVars>>
<1>1. CASE ReaderStep(c)
  <2>1. \E label : GoTo(Reader(c), label)
    BY <1>1 DEF ReaderStep, ReadTop, ReadOther, ReadEnd, ReadMalformed, ReadPong,
                    PongTouch, PongCheck, PongUp
  <2>2. \A t \in Connectors : pc'[t] = pc[t]
    BY <2>1, Kinds DEF GoTo
  <2>3. UNCHANGED <<stateLock, conn, sessVars>>
    BY <1>1 DEF ReaderStep, ReadTop, ReadOther, ReadEnd, ReadMalformed, ReadPong,
                    PongTouch, PongCheck, PongUp, shared, locks, sockVars
  <2>4. UNCHANGED reconnecting
    BY <1>1 DEF ReaderStep, ReadTop, ReadOther, ReadEnd, ReadMalformed, ReadPong,
                    PongTouch, PongCheck, PongUp, shared, linkVars
  <2>5. QED
    BY <2>2, <2>3, <2>4
<1>2. CASE HeartbeatStep(c)
  <2>1. \E label : GoTo(Heartbeat(c), label)
    BY <1>2 DEF HeartbeatStep, BeatWakes, BeatPings, BeatSendFails, BeatNoSocket,
                    BeatAnswered, BeatPatient, BeatTimesOut, BeatJudges
  <2>2. \A t \in Connectors : pc'[t] = pc[t]
    BY <2>1, Kinds DEF GoTo
  <2>3. UNCHANGED <<stateLock, conn, sessVars>>
    BY <1>2 DEF HeartbeatStep, BeatWakes, BeatPings, BeatSendFails, BeatNoSocket,
                    BeatAnswered, BeatPatient, BeatTimesOut, BeatJudges, shared, locks, sockVars
  <2>4. UNCHANGED reconnecting
    BY <1>2 DEF HeartbeatStep, BeatWakes, BeatPings, BeatSendFails, BeatNoSocket,
                    BeatAnswered, BeatPatient, BeatTimesOut, BeatJudges, shared, linkVars
  <2>5. QED
    BY <2>2, <2>3, <2>4
<1>3. CASE PeerCloses(c)
  BY <1>3 DEF PeerCloses, locks, sockVars, linkVars
<1>4. QED
  BY <1>1, <1>2, <1>3

\* What _on_link_lost() does to connectors: its own thread goes on inside
\* connect(), and an idle reconnect thread may start.
LEMMA LostEffect ==
  ASSUME TypeOK, NEW t \in Threads, LinkLostStep(t)
  PROVE  /\ UNCHANGED <<stateLock, conn, current, history>>
         /\ pc[t] \in Losing
         /\ t \in Connectors => pc'[t] \in Losing \cup {"c_fail"}
         /\ \A u \in Connectors \ {t} :
              pc'[u] = pc[u] \/ (pc[u] = "none" /\ pc'[u] = "top")
         /\ \/ UNCHANGED sstate
            \/ sstate' = [s \in Conns |-> IF s = current THEN "DEGRADED" ELSE sstate[s]]
<1> USE Kinds DEF GoTo, locks, sockVars, sessVars, linkVars, Losing
<1>1. CASE LostLock(t)
  BY <1>1 DEF LostLock, AfterLost, TypeOK, PcOK
<1>2. CASE LostMark(t)
  BY <1>2 DEF LostMark, SessionDegrade, TypeOK, PcOK
<1>3. CASE LostDegrade(t) \/ LostName(t) \/ LostReads(t) \/ LostRaises(t)
  BY <1>3 DEF LostDegrade, LostName, LostReads, LostRaises, shared, TypeOK, PcOK
<1>4. CASE LostCheck(t) \/ LostSpawn(t)
  BY <1>4 DEF LostCheck, LostSpawn, AfterLost, TypeOK, PcOK
<1>5. CASE LostStart(t)
  <2> PICK l \in Loops : /\ pc[l] = "none"
                         /\ pc' = [pc EXCEPT ![t] = AfterLost(t), ![l] = "top"]
    BY <1>5 DEF LostStart
  <2>1. pc[t] = "lost_start" /\ t # l
    BY <1>5 DEF LostStart
  <2>2. \A u \in Connectors : pc'[u] = IF u = l THEN "top"
                                      ELSE IF u = t THEN AfterLost(t) ELSE pc[u]
    BY <2>1 DEF TypeOK, PcOK
  <2>3. UNCHANGED <<stateLock, conn, sessVars>>
    BY <1>5 DEF LostStart
  <2>4. QED
    BY <2>1, <2>2, <2>3 DEF AfterLost
<1>6. QED
  BY <1>1, <1>2, <1>3, <1>4, <1>5 DEF LinkLostStep

-----------------------------------------------------------------------------
\* _state_lock: one thread at a time is inside connect().
LEMMA LockNext == TypeOK /\ LockInv /\ [Next]_vars => LockInv'
<1> SUFFICES ASSUME TypeOK, LockInv, [Next]_vars PROVE LockInv'
  OBVIOUS
<1> USE Kinds
<1>0. pc \in [Threads -> Labels]
  BY DEF TypeOK, PcOK
<1>1. CASE \E t \in Threads : LinkLostStep(t)
  <2> PICK t \in Threads : LinkLostStep(t)
    BY <1>1
  <2>1. \A u \in Connectors :
          pc'[u] \in Connecting \cup Losing <=> pc[u] \in Connecting \cup Losing
    BY LostEffect DEF Connecting, Losing
  <2>2. QED
    BY <2>1, LostEffect DEF LockInv
<1>2. CASE \E t \in Connectors : ConnectStep(t)
  <2> PICK t \in Connectors : ConnectStep(t)
    BY <1>2
  <2> USE <1>0 DEF LockInv, GoTo, locks
  <2>1. CASE ConnLock(t)
    BY <2>1 DEF ConnLock, Connecting, Losing
  <2>2. CASE ConnRefused(t) \/ ConnFail(t)
    BY <2>2 DEF ConnRefused, ConnFail, AfterRefusal, Connecting, Losing
  <2>3. CASE LinkUp(t)
    <3>1. \A u \in Connectors \ {t} : pc'[u] = pc[u]
      <4>1. \A u \in Connectors : u # Reader(conn) /\ u # Heartbeat(conn)
        BY DEF Reader, Heartbeat, Connectors, Loops, Loop, App
      <4>2. QED
        BY <2>3, <4>1 DEF LinkUp
    <3>2. pc'[t] \in {"idle", "exit"} /\ pc[t] = "c_up" /\ stateLock' = NoThread
      <4>1. t # Reader(conn) /\ t # Heartbeat(conn)
        BY DEF Reader, Heartbeat, Connectors, Loops, Loop, App
      <4>2. QED
        BY <2>3, <4>1 DEF LinkUp
    <3>3. QED
      BY <3>1, <3>2 DEF Connecting, Losing
  <2>4. CASE ConnOpen(t) \/ HelloFails(t) \/ RetireOld(t) \/ OpenSession(t)
    BY <2>4 DEF ConnOpen, HelloFails, RetireOld, OpenSession, Connecting, Losing
  <2>5. CASE HelloReads(t) \/ Hello(t) \/ HandshakeDone(t) \/ HandshakeFails(t)
               \/ FindOld(t) \/ RetireRaises(t)
    BY <2>5 DEF HelloReads, Hello, HandshakeDone, HandshakeFails, FindOld, RetireRaises, shared,
                Connecting, Losing
  <2>6. QED
    BY <2>1, <2>2, <2>3, <2>4, <2>5 DEF ConnectStep
<1>3. CASE \E l \in Loops : LoopStep(l)
  BY <1>0, <1>3 DEF LoopStep, LoopStops, LoopRetries, LoopExits, GoTo, LockInv, shared,
                    locks, Connecting, Losing
<1>4. CASE \E c \in Conns : ReaderStep(c) \/ HeartbeatStep(c) \/ PeerCloses(c)
  BY <1>4, Bystanders DEF LockInv
<1>5. CASE AppConnect \/ AppClose
  BY <1>0, <1>5 DEF AppConnect, AppClose, GoTo, LockInv, locks, Connecting, Losing
<1>6. CASE CloseStep
  BY <1>0, <1>6 DEF CloseStep, CloseDropsSocket, CloseJoins, CloseRetires, CloseForgets,
                    CloseSetsLink, GoTo, LockInv, shared, locks, Connecting, Losing
<1>7. CASE UNCHANGED vars
  BY <1>7 DEF vars, shared, locks, LockInv
<1>8. QED
  BY <1>1, <1>2, <1>3, <1>4, <1>5, <1>6, <1>7 DEF Next

-----------------------------------------------------------------------------
\* What connect() does to the threads and the lock, once the lock is taken.
LEMMA ConnectEffect ==
  ASSUME TypeOK, LockInv, NEW t \in Connectors, ConnectStep(t)
  PROVE  /\ UNCHANGED reconnecting
         /\ \A u \in Connectors \ {t} : pc'[u] = pc[u]
         /\ pc'[t] # "none"
         /\ ~ConnLock(t) => /\ stateLock = t
                            /\ \A u \in Connectors \ {t} : pc[u] \notin Connecting
<1>0. pc \in [Threads -> Labels]
  BY DEF TypeOK, PcOK
<1>1. CASE LinkUp(t)
  <2>1. \A u \in Connectors : u # Reader(conn) /\ u # Heartbeat(conn)
    BY DEF Reader, Heartbeat, Connectors, Loops, Loop, App
  <2>2. \A u \in Connectors :
          pc'[u] = IF u = t THEN (IF t = App THEN "idle" ELSE "exit") ELSE pc[u]
    BY <1>0, <1>1, <2>1, Kinds DEF LinkUp
  <2>3. UNCHANGED reconnecting
    BY <1>1 DEF LinkUp
  <2>4. stateLock = t /\ \A u \in Connectors \ {t} : pc[u] \notin Connecting
    BY <1>1 DEF LinkUp, LockInv, Connecting
  <2>5. QED
    BY <2>2, <2>3, <2>4
<1>2. CASE ~LinkUp(t)
  <2>1. \E label : label # "none" /\ GoTo(t, label)
    BY <1>2 DEF ConnectStep, ConnLock, ConnRefused, ConnOpen, Hello, HelloFails, HelloReads,
                HandshakeDone, HandshakeFails, FindOld, RetireOld, RetireRaises, OpenSession,
                ConnFail, AfterRefusal
  <2>2. pc'[t] # "none" /\ \A u \in Connectors \ {t} : pc'[u] = pc[u]
    BY <1>0, <2>1, Kinds DEF GoTo
  <2>3. UNCHANGED reconnecting
    BY <1>2 DEF ConnectStep, ConnLock, ConnRefused, ConnOpen, Hello, HelloFails, HelloReads,
                HandshakeDone, HandshakeFails, FindOld, RetireOld, RetireRaises, OpenSession,
                ConnFail, shared, linkVars
  <2>4. ~ConnLock(t) => pc[t] \in Connecting
    BY <1>2 DEF ConnectStep, ConnRefused, ConnOpen, Hello, HelloFails, HelloReads, HandshakeDone,
                HandshakeFails, FindOld, RetireOld, RetireRaises, OpenSession, ConnFail,
                Connecting
  <2>5. ~ConnLock(t) => /\ stateLock = t
                       /\ \A u \in Connectors \ {t} : pc[u] \notin Connecting
    BY <2>4 DEF LockInv
  <2>6. QED
    BY <2>2, <2>3, <2>5
<1>3. QED
  BY <1>1, <1>2

\* The application's own steps: its thread stays outside connect().
LEMMA AppEffect ==
  ASSUME TypeOK, AppConnect \/ AppClose \/ CloseStep
  PROVE  /\ UNCHANGED <<reconnecting, conn>>
         /\ \A l \in Loops : pc'[l] = pc[l]
         /\ pc'[App] \notin Connecting
<1>0. pc \in [Threads -> Labels]
  BY DEF TypeOK, PcOK
<1> DEFINE Apps == {"c_lock", "x_sock", "x_join", "x_session", "x_forget", "x_link", "idle"}
<1>1. \E label \in Apps : GoTo(App, label)
  BY DEF AppConnect, AppClose, CloseStep, CloseDropsSocket, CloseJoins, CloseRetires,
         CloseForgets, CloseSetsLink
<1>2. pc'[App] \in Apps /\ \A l \in Loops : pc'[l] = pc[l]
  BY <1>0, <1>1, Kinds DEF GoTo
<1>3. UNCHANGED conn
  BY DEF AppConnect, AppClose, CloseStep, CloseDropsSocket, CloseSocket, CloseJoins,
         CloseRetires, CloseForgets, CloseSetsLink, shared, sockVars
<1>4. UNCHANGED reconnecting
  BY DEF AppConnect, AppClose, CloseStep, CloseDropsSocket, CloseJoins, CloseRetires,
         CloseForgets, CloseSetsLink, shared, linkVars
<1>5. QED
  BY <1>2, <1>3, <1>4 DEF Connecting

\* What the application does to the threads of connections: nothing.
LEMMA AppAlone ==
  ASSUME TypeOK, AppConnect \/ AppClose \/ CloseStep
  PROVE  \A u \in Threads \ {App} : pc'[u] = pc[u]
<1>1. \E label : GoTo(App, label)
  BY DEF AppConnect, AppClose, CloseStep, CloseDropsSocket, CloseJoins, CloseRetires,
         CloseForgets, CloseSetsLink
<1>2. QED
  BY <1>1 DEF GoTo, TypeOK, PcOK

\* A thread that has set the flag goes on by starting a reconnect thread.
LEMMA Starting ==
  ASSUME IInv, [Next]_vars, NEW u \in Threads, pc[u] = "lost_start", ~LostStart(u)
  PROVE  pc'[u] = "lost_start"
<1>0. pc \in [Threads -> Labels]
  BY DEF IInv, TypeOK, PcOK
<1> USE Kinds
<1>1. CASE \E t \in Threads : LinkLostStep(t)
  <2> PICK t \in Threads : LinkLostStep(t)
    BY <1>1
  <2>1. t # u
    BY DEF LinkLostStep, LostLock, LostDegrade, LostMark, LostName, LostReads, LostRaises,
           LostCheck, LostSpawn
  <2>2. CASE LostStart(t)
    BY <1>0, <2>1, <2>2 DEF LostStart
  <2>3. CASE ~LostStart(t)
    BY <1>0, <2>1, <2>3 DEF LinkLostStep, LostLock, LostDegrade, LostMark, LostName,
                            LostReads, LostRaises, LostCheck, LostSpawn, GoTo
  <2>4. QED
    BY <2>2, <2>3
<1>2. CASE \E t \in Connectors : ConnectStep(t)
  <2> PICK t \in Connectors : ConnectStep(t)
    BY <1>2
  <2>1. pc[t] # "lost_start"
    BY DEF ConnectStep, ConnLock, ConnRefused, ConnOpen, Hello, HelloFails, HelloReads,
           HandshakeDone, HandshakeFails, FindOld, RetireOld, RetireRaises, OpenSession,
           LinkUp, ConnFail
  <2>2. CASE LinkUp(t)
    <3>1. pc[t] = "c_up"
      BY <2>2 DEF LinkUp
    <3>2. conn \in Conns
      BY <3>1 DEF IInv, ConnInv
    <3>3. pc[Reader(conn)] = "none" /\ pc[Heartbeat(conn)] = "none"
      BY <3>1, <3>2 DEF IInv, BornInv
    <3>4. u \notin {t, Reader(conn), Heartbeat(conn)}
      BY <2>1, <3>3
    <3>5. QED
      BY <1>0, <2>2, <3>4 DEF LinkUp
  <2>3. CASE ~LinkUp(t)
    <3>1. \E label : GoTo(t, label)
      BY <2>3 DEF ConnectStep, ConnLock, ConnRefused, ConnOpen, Hello, HelloFails, HelloReads,
                  HandshakeDone, HandshakeFails, FindOld, RetireOld, RetireRaises,
                  OpenSession, ConnFail
    <3>2. QED
      BY <1>0, <2>1, <3>1 DEF GoTo
  <2>4. QED
    BY <2>2, <2>3
<1>3. CASE \E l \in Loops : LoopStep(l)
  BY <1>0, <1>3 DEF LoopStep, LoopStops, LoopRetries, LoopExits, GoTo
<1>4. CASE \E c \in Conns : ReaderStep(c)
  <2>1. \E c \in Conns : \E label : GoTo(Reader(c), label) /\ pc[Reader(c)] # "lost_start"
    BY <1>4 DEF ReaderStep, ReadTop, ReadOther, ReadEnd, ReadMalformed, ReadPong,
                PongTouch, PongCheck, PongUp
  <2>2. QED
    BY <1>0, <2>1 DEF GoTo
<1>5. CASE \E c \in Conns : HeartbeatStep(c)
  <2>1. \E c \in Conns : \E label :
          GoTo(Heartbeat(c), label) /\ pc[Heartbeat(c)] # "lost_start"
    BY <1>5 DEF HeartbeatStep, BeatWakes, BeatPings, BeatSendFails, BeatNoSocket,
                BeatAnswered, BeatPatient, BeatTimesOut, BeatJudges
  <2>2. QED
    BY <1>0, <2>1 DEF GoTo
<1>6. CASE \E c \in Conns : PeerCloses(c)
  BY <1>6 DEF PeerCloses
<1>7. CASE AppConnect \/ AppClose \/ CloseStep
  <2>1. pc[App] # "lost_start"
    BY <1>7 DEF AppConnect, AppClose, CloseStep, CloseDropsSocket, CloseJoins, CloseRetires,
                CloseForgets, CloseSetsLink
  <2>2. QED
    BY <1>7, <2>1, AppAlone DEF IInv
<1>8. CASE UNCHANGED vars
  BY <1>8 DEF vars
<1>9. QED
  BY <1>1, <1>2, <1>3, <1>4, <1>5, <1>6, <1>7, <1>8 DEF Next

\* A reconnect thread that ends clears the flag.
LEMMA FlagNext == IInv /\ [Next]_vars => ReconnectFlagHasLoop'
<1> SUFFICES ASSUME IInv, [Next]_vars PROVE ReconnectFlagHasLoop'
  OBVIOUS
<1>0. TypeOK /\ LockInv /\ ReconnectFlagHasLoop /\ pc \in [Threads -> Labels]
  BY DEF IInv, TypeOK, PcOK
<1>1. CASE \E t \in Threads : LostStart(t)
  <2> PICK t \in Threads : LostStart(t)
    BY <1>1
  <2> PICK l \in Loops : pc' = [pc EXCEPT ![t] = AfterLost(t), ![l] = "top"]
    BY DEF LostStart
  <2>1. pc'[l] # "none"
    BY <1>0, Kinds
  <2>2. QED
    BY <2>1 DEF ReconnectFlagHasLoop
<1>2. CASE \E t \in Threads : LostSpawn(t)
  BY <1>0, <1>2 DEF LostSpawn, GoTo, ReconnectFlagHasLoop
<1>3. CASE \E l \in Loops : LoopExits(l)
  BY <1>3 DEF LoopExits, ReconnectFlagHasLoop
<1>4. CASE /\ ~ \E t \in Threads : LostStart(t) \/ LostSpawn(t)
           /\ ~ \E l \in Loops : LoopExits(l)
  <2>1. \A u \in Threads : pc[u] = "lost_start" => pc'[u] = "lost_start"
    BY <1>4, Starting
  <2> SUFFICES UNCHANGED reconnecting /\ \A l \in Loops : pc[l] # "none" => pc'[l] # "none"
    BY <1>0, <2>1 DEF ReconnectFlagHasLoop
  <2>2. CASE \E t \in Threads : LinkLostStep(t)
    <3> PICK t \in Threads : LinkLostStep(t)
      BY <2>2
    <3>1. UNCHANGED reconnecting
      BY <1>4 DEF LinkLostStep, LostLock, LostDegrade, LostMark, LostName, LostReads,
                  LostRaises, LostCheck, shared, linkVars
    <3>2. QED
      BY <1>0, <3>1, LostEffect, Kinds DEF Losing
  <2>3. CASE \E t \in Connectors : ConnectStep(t)
    BY <1>0, <2>3, ConnectEffect, Kinds
  <2>4. CASE \E l \in Loops : LoopStep(l)
    <3> PICK l \in Loops : LoopStops(l) \/ LoopRetries(l)
      BY <1>4, <2>4 DEF LoopStep
    <3>1. UNCHANGED reconnecting
      BY DEF LoopStops, LoopRetries, shared, linkVars
    <3>2. \A u \in Loops : pc'[u] = pc[u] \/ pc'[u] \in {"exit", "c_lock"}
      BY <1>0, Kinds DEF LoopStops, LoopRetries, GoTo
    <3>3. QED
      BY <3>1, <3>2
  <2>5. CASE \E c \in Conns : ReaderStep(c) \/ HeartbeatStep(c) \/ PeerCloses(c)
    BY <1>0, <2>5, Bystanders, Kinds
  <2>6. CASE AppConnect \/ AppClose \/ CloseStep
    BY <1>0, <2>6, AppEffect
  <2>7. CASE UNCHANGED vars
    BY <2>7 DEF vars, shared, linkVars
  <2>8. QED
    BY <2>2, <2>3, <2>4, <2>5, <2>6, <2>7 DEF Next
<1>5. QED
  BY <1>1, <1>2, <1>3, <1>4

-----------------------------------------------------------------------------
\* How connect() moves through the handshake, and with what connection.
LEMMA ShakeEffect ==
  ASSUME TypeOK, NEW t \in Connectors, ConnectStep(t)
  PROVE  \/ pc[t] = "c_open" /\ conn < MaxConn /\ conn' = conn + 1 /\ UNCHANGED sstate
         \/ /\ UNCHANGED conn
            /\ pc'[t] \in Shaking => pc[t] \in Shaking
            /\ pc'[t] = "c_up" => pc[t] = "c_current"
<1>0. pc \in [Threads -> Labels]
  BY DEF TypeOK, PcOK
<1> USE Kinds DEF Shaking
<1>1. CASE LinkUp(t)
  <2>1. pc'[t] \in {"idle", "exit"}
    <3>1. t # Reader(conn) /\ t # Heartbeat(conn)
      BY DEF Reader, Heartbeat, Connectors, Loops, Loop, App
    <3>2. QED
      BY <1>0, <1>1, <3>1 DEF LinkUp
  <2>2. QED
    BY <1>1, <2>1 DEF LinkUp, sockVars
<1>2. CASE ConnOpen(t)
  BY <1>2 DEF ConnOpen, sessVars
<1>3. CASE ConnLock(t) \/ ConnRefused(t) \/ ConnFail(t)
  BY <1>0, <1>3 DEF ConnLock, ConnRefused, ConnFail, CloseSocket, GoTo, AfterRefusal,
                    sockVars
<1>4. CASE HelloFails(t) \/ RetireOld(t) \/ OpenSession(t)
  BY <1>0, <1>4 DEF HelloFails, RetireOld, OpenSession, GoTo, sockVars
<1>5. CASE HelloReads(t) \/ Hello(t) \/ HandshakeDone(t) \/ HandshakeFails(t)
               \/ FindOld(t) \/ RetireRaises(t)
  BY <1>0, <1>5 DEF HelloReads, Hello, HandshakeDone, HandshakeFails, FindOld, RetireRaises, GoTo,
                    shared, sockVars
<1>6. QED
  BY <1>1, <1>2, <1>3, <1>4, <1>5 DEF ConnectStep

\* Everybody but connect() leaves conn alone, sends no thread into the
\* handshake, and opens no session.
LEMMA OtherEffect ==
  ASSUME TypeOK, CurrentInv, [Next]_vars, ~ \E t \in Connectors : ConnectStep(t)
  PROVE  /\ UNCHANGED conn
         /\ \A t \in Connectors : /\ pc'[t] \in Shaking => pc[t] \in Shaking
                                  /\ pc'[t] = "c_up" => pc[t] = "c_up"
         /\ history \subseteq history'
         /\ current' \in {current, NoConn}
         /\ \A c \in Conns : sstate'[c] = "none" <=> sstate[c] = "none"
<1>0. pc \in [Threads -> Labels] /\ sstate \in [Conns -> SessionStates]
  BY DEF TypeOK, PcOK, SessOK
<1> USE Kinds DEF Shaking
<1>1. CASE \E t \in Threads : LinkLostStep(t)
  <2> PICK t \in Threads : LinkLostStep(t)
    BY <1>1
  <2>1. \A c \in Conns : sstate'[c] = "none" <=> sstate[c] = "none"
    <3>1. CASE UNCHANGED sstate
      BY <3>1
    <3>2. CASE sstate' = [s \in Conns |-> IF s = current THEN "DEGRADED" ELSE sstate[s]]
      BY <1>0, <3>2 DEF CurrentInv, NoConn, Conns
    <3>3. QED
      BY <3>1, <3>2, LostEffect
  <2>2. \A u \in Connectors : /\ pc'[u] \in Shaking => pc[u] \in Shaking
                              /\ pc'[u] = "c_up" => pc[u] = "c_up"
    BY LostEffect DEF Losing
  <2>3. QED
    BY <2>1, <2>2, LostEffect
<1>2. CASE \E l \in Loops : LoopStep(l)
  <2> PICK l \in Loops : LoopStep(l)
    BY <1>2
  <2>1. UNCHANGED sessVars /\ UNCHANGED conn
    BY DEF LoopStep, LoopStops, LoopRetries, LoopExits, CloseSocket, shared, sockVars
  <2>2. \E label \in {"exit", "c_lock", "none"} : GoTo(l, label)
    BY DEF LoopStep, LoopStops, LoopRetries, LoopExits
  <2>3. \A u \in Connectors : pc'[u] = pc[u] \/ pc'[u] \in {"exit", "c_lock", "none"}
    BY <1>0, <2>2 DEF GoTo
  <2>4. QED
    BY <2>1, <2>3 DEF sessVars
<1>3. CASE \E c \in Conns : ReaderStep(c) \/ HeartbeatStep(c) \/ PeerCloses(c)
  BY <1>3, Bystanders DEF sessVars
<1>4. CASE AppConnect \/ AppClose \/ CloseStep
  <2>1. CASE CloseRetires
    <3>1. history \subseteq history' /\ current' = current
      BY <2>1 DEF CloseRetires, SessionRetire
    <3>2. \A c \in Conns : sstate'[c] = "none" <=> sstate[c] = "none"
      BY <1>0, <2>1 DEF CloseRetires, SessionRetire, CurrentInv, NoConn, Conns
    <3>3. QED
      BY <1>4, <3>1, <3>2, AppEffect DEF Connecting
  <2>2. CASE CloseForgets
    <3>1. history' = history /\ current' = NoConn /\ sstate' = sstate
      BY <2>2 DEF CloseForgets, SessionForget
    <3>2. QED
      BY <1>4, <3>1, AppEffect DEF Connecting
  <2>3. CASE ~CloseRetires /\ ~CloseForgets
    <3>1. UNCHANGED <<current, history, sstate>>
      BY <1>4, <2>3 DEF AppConnect, AppClose, CloseStep, CloseDropsSocket, CloseJoins,
                        CloseSetsLink, sessVars
    <3>2. QED
      BY <1>4, <3>1, AppEffect DEF Connecting
  <2>4. QED
    BY <2>1, <2>2, <2>3
<1>5. CASE UNCHANGED vars
  BY <1>5 DEF vars, shared, sockVars, sessVars
<1>6. QED
  BY <1>1, <1>2, <1>3, <1>4, <1>5 DEF Next

\* What connect() does to the sessions.
LEMMA SessionEffect ==
  ASSUME TypeOK, CurrentInv, NEW t \in Connectors, ConnectStep(t)
  PROVE  \/ /\ pc[t] = "c_current" /\ pc'[t] = "c_up"
            /\ history' = history /\ current' = conn
            /\ sstate' = [sstate EXCEPT ![conn] = "RUNNING"]
         \/ /\ history \subseteq history' /\ current' = current
            /\ \A c \in Conns : sstate'[c] = "none" <=> sstate[c] = "none"
<1>0. pc \in [Threads -> Labels] /\ sstate \in [Conns -> SessionStates]
  BY DEF TypeOK, PcOK, SessOK
<1>1. CASE OpenSession(t)
  BY <1>0, <1>1, Kinds DEF OpenSession, SessionReplace, GoTo
<1>2. CASE RetireOld(t)
  BY <1>0, <1>2 DEF RetireOld, SessionRetire, CurrentInv, NoConn, Conns
<1>3. CASE ~OpenSession(t) /\ ~RetireOld(t)
  <2>1. UNCHANGED sessVars
    BY <1>3 DEF ConnectStep, ConnLock, ConnRefused, ConnOpen, Hello, HelloFails, HelloReads,
                HandshakeDone, HandshakeFails, FindOld, RetireRaises, LinkUp, ConnFail, shared
  <2>2. QED
    BY <2>1 DEF sessVars
<1>4. QED
  BY <1>1, <1>2, <1>3

\* The connection of a handshake exists and carries no session, no session is
\* newer than the last connection, and the current one was opened.
LEMMA SessionNext ==
  TypeOK /\ LockInv /\ ConnInv /\ SessionInv /\ [Next]_vars => ConnInv' /\ SessionInv'
<1> SUFFICES ASSUME TypeOK, LockInv, ConnInv, SessionInv, [Next]_vars
             PROVE  ConnInv' /\ SessionInv'
  OBVIOUS
<1>0. /\ conn \in Nat /\ current \in Nat /\ MaxConn \in Nat
      /\ sstate \in [Conns -> SessionStates]
      /\ Conns = 1 .. MaxConn /\ conn <= MaxConn
  BY BridgeClientAssumption DEF TypeOK, SockOK, SessOK, Conns
<1>00. TypeOK'
  BY TypeNext
<1> USE DEF Shaking, ConnInv, SessionInv, FreshHandshake, NewestInv, CurrentInv, NoConn
<1>1. CASE ~ \E t \in Connectors : ConnectStep(t)
  <2>0. /\ conn' = conn
        /\ \A t \in Connectors : /\ pc'[t] \in Shaking => pc[t] \in Shaking
                                 /\ pc'[t] = "c_up" => pc[t] = "c_up"
        /\ \A c \in Conns : sstate'[c] = "none" <=> sstate[c] = "none"
    BY <1>1, OtherEffect
  <2>1. ConnInv'
    BY <2>0
  <2>2. FreshHandshake'
    BY <2>0
  <2>3. NewestInv'
    BY <1>1, OtherEffect
  <2>4. CurrentInv'
    <3>1. current' \in Conns \/ current' = NoConn
      BY <1>0, <1>00 DEF TypeOK, SessOK
    <3>2. QED
      BY <1>1, <3>1, OtherEffect
  <2>5. QED
    BY <2>1, <2>2, <2>3, <2>4
<1>2. CASE \E t \in Connectors : ConnectStep(t)
  <2> PICK t \in Connectors : ConnectStep(t)
    BY <1>2
  <2>0. \A u \in Connectors \ {t} : pc'[u] = pc[u]
    BY ConnectEffect
  <2>1. CASE pc[t] = "c_open" /\ conn < MaxConn /\ conn' = conn + 1 /\ UNCHANGED sstate
    <3>1. conn + 1 \in Conns /\ sstate[conn + 1] = "none"
      BY <1>0, <2>1
    <3>2. current' = current
      BY <2>1, SessionEffect
    <3>3. QED
      BY <1>0, <2>1, <3>1, <3>2
  <2>2. CASE /\ UNCHANGED conn
             /\ pc'[t] \in Shaking => pc[t] \in Shaking
             /\ pc'[t] = "c_up" => pc[t] = "c_current"
    <3>1. ConnInv'
      BY <2>0, <2>2
    <3>2. CASE /\ pc[t] = "c_current" /\ pc'[t] = "c_up"
               /\ history' = history /\ current' = conn
               /\ sstate' = [sstate EXCEPT ![conn] = "RUNNING"]
      <4>1. conn \in Conns /\ sstate'[conn] = "RUNNING"
            /\ \A c \in Conns \ {conn} : sstate'[c] = sstate[c]
        BY <1>0, <3>2
      <4>2. \A u \in Connectors : pc'[u] \notin Shaking
        <5>1. \A u \in Connectors \ {t} : pc[u] \notin Connecting
          BY <3>2, LockInv DEF LockInv, Connecting
        <5>2. QED
          BY <2>0, <3>2, <5>1 DEF Connecting
      <4>3. FreshHandshake'
        BY <4>2
      <4>4. NewestInv'
        BY <1>0, <2>2, <4>1
      <4>5. CurrentInv'
        BY <3>2, <4>1
      <4>6. QED
        BY <3>1, <4>3, <4>4, <4>5
    <3>3. CASE /\ history \subseteq history' /\ current' = current
               /\ \A c \in Conns : sstate'[c] = "none" <=> sstate[c] = "none"
      <4>1. FreshHandshake'
        BY <2>0, <2>2, <3>1, <3>3
      <4>2. NewestInv'
        BY <2>2, <3>3
      <4>3. CurrentInv'
        BY <1>0, <3>3 DEF TypeOK, SessOK
      <4>4. QED
        BY <3>1, <4>1, <4>2, <4>3
    <3>4. QED
      BY <3>2, <3>3, SessionEffect
  <2>3. QED
    BY <2>1, <2>2, ShakeEffect
<1>3. QED
  BY <1>1, <1>2

-----------------------------------------------------------------------------
\* Nothing but LinkUp starts a reader or a heartbeat.
LEMMA StillNone ==
  ASSUME TypeOK, LockInv, [Next]_vars, ~ \E t \in Connectors : LinkUp(t),
         NEW u \in Readers \cup Heartbeats, pc[u] = "none"
  PROVE  pc'[u] = "none"
<1>0. pc \in [Threads -> Labels]
  BY DEF TypeOK, PcOK
<1> USE Kinds
<1>1. CASE \E t \in Threads : LinkLostStep(t)
  <2> PICK t \in Threads : LinkLostStep(t)
    BY <1>1
  <2>1. t # u
    BY LostEffect DEF Losing
  <2>2. CASE LostStart(t)
    BY <1>0, <2>1, <2>2 DEF LostStart
  <2>3. CASE ~LostStart(t)
    BY <1>0, <2>1, <2>3 DEF LinkLostStep, LostLock, LostDegrade, LostMark, LostName,
                            LostReads, LostRaises, LostCheck, LostSpawn, GoTo
  <2>4. QED
    BY <2>2, <2>3
<1>2. CASE \E t \in Connectors : ConnectStep(t)
  <2>1. \E t \in Connectors : \E label : GoTo(t, label)
    BY <1>2 DEF ConnectStep, ConnLock, ConnRefused, ConnOpen, Hello, HelloFails, HelloReads,
                HandshakeDone, HandshakeFails, FindOld, RetireOld, RetireRaises, OpenSession,
                ConnFail
  <2>2. QED
    BY <1>0, <2>1 DEF GoTo
<1>3. CASE \E l \in Loops : LoopStep(l)
  BY <1>0, <1>3 DEF LoopStep, LoopStops, LoopRetries, LoopExits, GoTo
<1>4. CASE \E c \in Conns : ReaderStep(c)
  <2>1. \E c \in Conns : \E label : GoTo(Reader(c), label) /\ pc[Reader(c)] # "none"
    BY <1>4 DEF ReaderStep, ReadTop, ReadOther, ReadEnd, ReadMalformed, ReadPong,
                    PongTouch, PongCheck, PongUp
  <2>2. QED
    BY <1>0, <2>1 DEF GoTo
<1>5. CASE \E c \in Conns : HeartbeatStep(c)
  <2>1. \E c \in Conns : \E label : GoTo(Heartbeat(c), label) /\ pc[Heartbeat(c)] # "none"
    BY <1>5 DEF HeartbeatStep, BeatWakes, BeatPings, BeatSendFails, BeatNoSocket,
                    BeatAnswered, BeatPatient, BeatTimesOut, BeatJudges
  <2>2. QED
    BY <1>0, <2>1 DEF GoTo
<1>6. CASE \E c \in Conns : PeerCloses(c)
  BY <1>6 DEF PeerCloses
<1>7. CASE AppConnect \/ AppClose \/ CloseStep
  BY <1>7, AppAlone
<1>8. CASE UNCHANGED vars
  BY <1>8 DEF vars
<1>9. QED
  BY <1>1, <1>2, <1>3, <1>4, <1>5, <1>6, <1>7, <1>8 DEF Next

\* A thread is born by the connect() that ends its handshake, and once.
LEMMA BornNext == IInv /\ [Next]_vars => BornInv'
<1> SUFFICES ASSUME IInv, [Next]_vars PROVE BornInv'
  OBVIOUS
<1>0. pc \in [Threads -> Labels] /\ conn \in Nat /\ Conns \subseteq Nat
  BY DEF IInv, TypeOK, PcOK, SockOK, Conns
<1> USE Kinds DEF IInv
<1>1. CASE \E t \in Connectors : LinkUp(t)
  <2> PICK t \in Connectors : LinkUp(t)
    BY <1>1
  <2>1. ConnectStep(t) /\ ~ConnLock(t) /\ pc[t] = "c_up" /\ conn' = conn
    BY DEF ConnectStep, ConnLock, LinkUp, sockVars
  <2>2. \A u \in Connectors \ {t} : pc'[u] = pc[u] /\ pc[u] \notin Connecting
    BY <2>1, ConnectEffect
  <2>3. pc'[t] \in {"idle", "exit"}
    <3>1. t # Reader(conn) /\ t # Heartbeat(conn)
      BY DEF Reader, Heartbeat, Connectors, Loops, Loop, App
    <3>2. QED
      BY <1>0, <3>1 DEF LinkUp
  <2>4. \A u \in Connectors : pc'[u] \notin Shaking \cup {"c_up"}
    BY <2>2, <2>3 DEF Connecting, Shaking
  <2>5. ASSUME NEW c \in Conns, c > conn
        PROVE  pc'[Reader(c)] = "none" /\ pc'[Heartbeat(c)] = "none"
    <3>1. Reader(c) \notin {t, Reader(conn), Heartbeat(conn)}
      BY <1>0, <2>5 DEF Reader, Heartbeat, Connectors, Loops, Loop, App
    <3>2. Heartbeat(c) \notin {t, Reader(conn), Heartbeat(conn)}
      BY <1>0, <2>5 DEF Reader, Heartbeat, Connectors, Loops, Loop, App
    <3>3. pc[Reader(c)] = "none" /\ pc[Heartbeat(c)] = "none"
      BY <2>5 DEF BornInv
    <3>4. QED
      BY <1>0, <3>1, <3>2, <3>3 DEF LinkUp
  <2>6. QED
    BY <2>1, <2>4, <2>5 DEF BornInv
<1>2. CASE ~ \E t \in Connectors : LinkUp(t)
  <2>1. \A u \in Readers \cup Heartbeats : pc[u] = "none" => pc'[u] = "none"
    BY <1>0, <1>2, StillNone
  <2>2. CASE \E t \in Connectors : ConnectStep(t)
    <3> PICK t \in Connectors : ConnectStep(t)
      BY <2>2
    <3>1. CASE conn' = conn + 1
      BY <1>0, <2>1, <3>1 DEF BornInv
    <3>2. CASE /\ UNCHANGED conn
               /\ pc'[t] \in Shaking => pc[t] \in Shaking
               /\ pc'[t] = "c_up" => pc[t] = "c_current"
      <4>1. \A u \in Connectors : pc'[u] \in Shaking \cup {"c_up"}
                                  => pc[u] \in Shaking \cup {"c_up"}
        BY <3>2, ConnectEffect DEF Shaking
      <4>2. QED
        BY <2>1, <3>2, <4>1 DEF BornInv
    <3>3. QED
      BY <3>1, <3>2, ShakeEffect
  <2>3. CASE ~ \E t \in Connectors : ConnectStep(t)
    <3>1. /\ UNCHANGED conn
          /\ \A u \in Connectors : pc'[u] \in Shaking \cup {"c_up"}
                                  => pc[u] \in Shaking \cup {"c_up"}
      BY <2>3, OtherEffect DEF SessionInv
    <3>2. QED
      BY <2>1, <3>1 DEF BornInv
  <2>4. QED
    BY <2>2, <2>3
<1>3. QED
  BY <1>1, <1>2

-----------------------------------------------------------------------------
LEMMA IInit == Init => IInv
<1> SUFFICES ASSUME Init PROVE IInv
  OBVIOUS
<1>1. TypeOK
  BY TypeInit
<1>2. \A t \in Connectors : pc[t] \in {"idle", "none"}
  BY Kinds DEF Init
<1>3. LockInv
  BY <1>2, Kinds DEF Init, LockInv, Connecting, Losing
<1>4. ConnInv
  BY <1>2 DEF ConnInv, Shaking
<1>5. BornInv
  <2>1. \A c \in Conns : Reader(c) # App /\ Heartbeat(c) # App
    BY Kinds
  <2>2. QED
    BY <2>1, Kinds DEF Init, BornInv
<1>6. ReconnectFlagHasLoop
  BY DEF Init, ReconnectFlagHasLoop
<1>7. SessionInv
  BY <1>2 DEF Init, SessionInv, FreshHandshake, NewestInv, CurrentInv
<1>8. QED
  BY <1>1, <1>3, <1>4, <1>5, <1>6, <1>7 DEF IInv

LEMMA INext == IInv /\ [Next]_vars => IInv'
  BY TypeNext, LockNext, BornNext, FlagNext, SessionNext DEF IInv

THEOREM Invariance == Spec => []IInv
  BY IInit, INext, PTL DEF Spec

\* connect() is exclusive for any number of reconnect threads: no two threads
\* are in it, a failed HELLO that cleans up included.
THEOREM ConnectIsExclusive ==
  Spec => [](\A t, u \in Connectors :
               pc[t] \in Connecting \cup Losing /\ pc[u] \in Connecting \cup Losing
                 => t = u)
<1>1. IInv => \A t, u \in Connectors :
                pc[t] \in Connecting \cup Losing /\ pc[u] \in Connecting \cup Losing
                  => t = u
  BY DEF IInv, LockInv
<1>2. QED
  BY <1>1, Invariance, PTL

\* However many reconnect threads start and end in whatever order, the flag
\* that suppresses new ones is never left on by threads that are gone.
THEOREM FlagTheorem == Spec => []ReconnectFlagHasLoop
<1>1. IInv => ReconnectFlagHasLoop
  BY DEF IInv
<1>2. QED
  BY <1>1, Invariance, PTL

\* A handshake always runs on a connection that has no session yet.
THEOREM FreshTheorem == Spec => []FreshHandshake
<1>1. IInv => FreshHandshake
  BY DEF IInv, SessionInv
<1>2. QED
  BY <1>1, Invariance, PTL

\* No interleaving of connect(), close() and lost links brings back a session
\* that was replaced.
THEOREM NeverRestoredTheorem == Spec => SessionsNeverRestored
<1> DEFINE Step == /\ history \subseteq history'
                   /\ current' \notin {current, NoConn} =>
                        \A c \in Conns : sstate[c] # "none" => c < current'
<1>1. IInv /\ [Next]_vars => [Step]_vars
  <2> SUFFICES ASSUME IInv, [Next]_vars PROVE Step
    OBVIOUS
  <2>0. conn \in Nat /\ Conns \subseteq Nat
    BY DEF IInv, TypeOK, SockOK, Conns
  <2> USE DEF IInv, SessionInv
  <2>1. CASE ~ \E t \in Connectors : ConnectStep(t)
    BY <2>1, OtherEffect
  <2>2. CASE \E t \in Connectors : ConnectStep(t)
    <3> PICK t \in Connectors : ConnectStep(t)
      BY <2>2
    <3>1. CASE /\ pc[t] = "c_current" /\ pc'[t] = "c_up"
               /\ history' = history /\ current' = conn
      <4>1. sstate[conn] = "none"
        BY <3>1 DEF FreshHandshake
      <4>2. \A c \in Conns : sstate[c] # "none" => c < conn
        BY <2>0, <4>1 DEF NewestInv
      <4>3. QED
        BY <3>1, <4>2
    <3>2. CASE history \subseteq history' /\ current' = current
      BY <3>2
    <3>3. QED
      BY <3>1, <3>2, SessionEffect
  <2>3. QED
    BY <2>1, <2>2
<1>2. QED
  BY <1>1, Invariance, PTL DEF Spec, SessionsNeverRestored

-----------------------------------------------------------------------------
\* Without automatic reconnection no reconnect thread ever starts.
NoLoopInv == /\ \A l \in Loops : pc[l] = "none"
             /\ \A t \in Threads : pc[t] \notin {"lost_spawn", "lost_start"}

\* _send_lock is kept only by a thread that cleans up after a failed send.
SendInv == sendLock # NoThread => pc[sendLock] \in Losing

\* Where the application can be while _closing is set.
Closed == {"idle", "c_lock", "x_sock", "x_join", "x_session", "x_forget", "x_link"}

Quiet == {"none", "done", "sleep"}

\* close() undoes the client piece by piece: while _closing is set, what a step
\* of close() has released stays released, and so does the link, unless join()
\* gave up on a thread that could run.
ClosingInv ==
  closing =>
    /\ pc[App] \in Closed
    /\ pc[App] # "x_sock" => sock = NoConn
    /\ pc[App] \notin {"x_sock", "x_join"} =>
         outlived \/ \A t \in Readers \cup Heartbeats : pc[t] \in Quiet
    /\ pc[App] \in {"x_link", "idle", "c_lock"} => current = NoConn
    /\ pc[App] \in {"idle", "c_lock"} => outlived \/ link = "DISCONNECTED"

CloseInv == IInv /\ NoLoopInv /\ SendInv /\ ClosingInv

\* Without reconnection, _on_link_lost() moves only its own thread.
LEMMA LostAlone ==
  ASSUME ~AutoReconnect, TypeOK, NoLoopInv, NEW t \in Threads, LinkLostStep(t)
  PROVE  /\ pc[t] \in Losing
         /\ \/ /\ UNCHANGED sendLock
               /\ \E label \in Losing \ {"lost_spawn", "lost_start"} : GoTo(t, label)
            \/ /\ LostReturns(t)
               /\ \E label \in {AfterLost(t), "c_fail", "done"} : GoTo(t, label)
         /\ UNCHANGED <<closing, sock, current, outlived>>
         /\ link' \in {link, "DISCONNECTED"}
<1>1. CASE LostLock(t)
  <2>1. /\ pc[t] = "lost_lock"
        /\ UNCHANGED <<closing, sock, current, outlived>>
        /\ link' \in {link, "DISCONNECTED"}
    BY <1>1 DEF LostLock, sockVars, sessVars
  <2>2. \/ GoTo(t, AfterLost(t)) /\ LostReturns(t)
        \/ GoTo(t, "lost_degrade") /\ UNCHANGED sendLock
    BY <1>1 DEF LostLock
  <2>3. QED
    BY <2>1, <2>2 DEF Losing
<1>2. CASE LostMark(t)
  BY <1>2 DEF LostMark, SessionDegrade, Losing, sockVars, linkVars, locks
<1>3. CASE LostDegrade(t) \/ LostName(t) \/ LostReads(t)
  BY <1>3 DEF LostDegrade, LostName, LostReads, Losing, shared, sockVars, sessVars, linkVars,
              locks
<1>4. CASE LostRaises(t)
  <2>1. /\ pc[t] \in Losing
        /\ UNCHANGED <<closing, sock, current, outlived>>
        /\ link' \in {link, "DISCONNECTED"}
    BY <1>4 DEF LostRaises, Losing, sockVars, sessVars, linkVars
  <2>2. LostReturns(t) /\ \E label \in {"c_fail", "done"} : GoTo(t, label)
    BY <1>4 DEF LostRaises
  <2>3. QED
    BY <2>1, <2>2
<1>5. CASE LostCheck(t)
  <2>1. /\ pc[t] = "lost_check"
        /\ UNCHANGED <<closing, sock, current, outlived>>
        /\ link' \in {link, "DISCONNECTED"}
    BY <1>5 DEF LostCheck, sockVars, sessVars, linkVars
  <2>2. GoTo(t, AfterLost(t)) /\ LostReturns(t)
    BY <1>5 DEF LostCheck
  <2>3. QED
    BY <2>1, <2>2 DEF Losing
<1>6. CASE LostSpawn(t) \/ LostStart(t)
  BY <1>6 DEF LostSpawn, LostStart, NoLoopInv
<1>7. QED
  BY <1>1, <1>2, <1>3, <1>4, <1>5, <1>6 DEF LinkLostStep

LEMMA CloseLost ==
  ASSUME ~AutoReconnect, CloseInv, NEW t \in Threads, LinkLostStep(t)
  PROVE  NoLoopInv' /\ SendInv' /\ ClosingInv'
<1>0. pc \in [Threads -> Labels] /\ sendLock \in Threads \cup {NoThread}
  BY DEF CloseInv, IInv, TypeOK, PcOK, LockOK
<1> USE Kinds DEF CloseInv, IInv
<1>1. /\ pc'[t] \in (Losing \ {"lost_spawn", "lost_start"}) \cup {AfterLost(t), "c_fail", "done"}
      /\ \A u \in Threads \ {t} : pc'[u] = pc[u]
      /\ pc[t] \in Losing
  BY <1>0, LostAlone DEF GoTo
<1>2. t \notin Loops
  BY <1>1 DEF NoLoopInv, Losing
<1>3. NoLoopInv'
  BY <1>1, <1>2 DEF NoLoopInv, AfterLost
<1>4. SendInv'
  <2>1. CASE LostReturns(t)
    BY <1>0, <1>1, <2>1 DEF SendInv, LostReturns
  <2>2. CASE UNCHANGED sendLock /\ pc'[t] \in Losing
    BY <1>0, <1>1, <2>2 DEF SendInv, Losing
  <2>3. QED
    BY <1>0, <2>1, <2>2, LostAlone DEF GoTo
<1>5. ClosingInv'
  <2> SUFFICES ASSUME closing PROVE ClosingInv'
    BY LostAlone DEF ClosingInv
  <2>1. t # App
    BY <1>1 DEF ClosingInv, Closed, Losing
  <2>2. pc'[App] = pc[App] /\ t \in Readers \cup Heartbeats
    BY <1>1, <1>2, <2>1
  <2>3. pc[App] \in {"x_sock", "x_join"} \/ outlived
    BY <1>1, <2>2 DEF ClosingInv, Quiet, Losing
  <2>4. QED
    BY <2>2, <2>3, LostAlone DEF ClosingInv
<1>6. QED
  BY <1>3, <1>4, <1>5

\* connect() is reached by the application only, and only while it is open.
LEMMA CloseConnect ==
  ASSUME CloseInv, NEW t \in Connectors, ConnectStep(t)
  PROVE  NoLoopInv' /\ SendInv' /\ ClosingInv'
<1>0. pc \in [Threads -> Labels] /\ sendLock \in Threads \cup {NoThread}
  BY DEF CloseInv, IInv, TypeOK, PcOK, LockOK
<1> USE Kinds DEF CloseInv, IInv
<1>1. pc[t] \in Connecting \cup {"c_lock"}
  BY DEF ConnectStep, ConnLock, ConnRefused, ConnOpen, Hello, HelloFails, HelloReads,
     HandshakeDone, HandshakeFails, FindOld, RetireOld, RetireRaises, OpenSession, LinkUp,
     ConnFail, Connecting
<1>2. t = App
  BY <1>1 DEF NoLoopInv, Connecting
<1>3. ~closing'
  <2>1. CASE ConnLock(t)
    BY <2>1 DEF ConnLock
  <2>2. CASE ~ConnLock(t)
    <3>1. pc[App] \in Connecting
      BY <1>2, <2>2 DEF ConnectStep, ConnRefused, ConnOpen, Hello, HelloFails, HelloReads,
                        HandshakeDone, HandshakeFails, FindOld, RetireOld, RetireRaises,
                        OpenSession, LinkUp, ConnFail, Connecting
    <3>2. ~closing
      BY <3>1 DEF ClosingInv, Closed, Connecting
    <3>3. closing' = closing
      BY <2>2 DEF ConnectStep, ConnRefused, ConnOpen, Hello, HelloFails, HelloReads,
                  HandshakeDone, HandshakeFails, FindOld, RetireOld, RetireRaises, OpenSession,
                  LinkUp, ConnFail, shared, linkVars
    <3>4. QED
      BY <3>2, <3>3
  <2>3. QED
    BY <2>1, <2>2
<1>4. ClosingInv'
  BY <1>3 DEF ClosingInv
<1>5. CASE LinkUp(t)
  <2>1. /\ pc' = [pc EXCEPT ![App] = "idle", ![Reader(conn)] = "top", ![Heartbeat(conn)] = "sleep"]
        /\ UNCHANGED sendLock
        /\ pc[App] = "c_up"
    BY <1>2, <1>5 DEF LinkUp
  <2>2. \A u \in Threads : pc'[u] \in {pc[u], "idle", "top", "sleep"}
    BY <1>0, <2>1
  <2>3. \A l \in Loops : pc'[l] = pc[l]
    BY <2>1, <1>2, ConnectEffect
  <2>4. NoLoopInv'
    BY <2>2, <2>3 DEF NoLoopInv
  <2>5. SendInv'
    <3> SUFFICES ASSUME sendLock # NoThread PROVE pc'[sendLock] \in Losing
      BY <2>1 DEF SendInv
    <3>1. pc[sendLock] \in Losing
      BY DEF SendInv
    <3>2. sendLock # App
      BY <2>1, <3>1 DEF Losing
    <3>3. sendLock # Reader(conn) /\ sendLock # Heartbeat(conn)
      <4>1. conn \in Conns
        BY <1>2, <2>1 DEF ConnInv
      <4>2. pc[Reader(conn)] = "none" /\ pc[Heartbeat(conn)] = "none"
        BY <2>1, <4>1 DEF BornInv
      <4>3. QED
        BY <3>1, <4>2 DEF Losing
    <3>4. QED
      BY <1>0, <2>1, <3>1, <3>2, <3>3
  <2>6. QED
    BY <1>4, <2>4, <2>5
<1>6. CASE ~LinkUp(t)
  <2>1. /\ \A u \in Threads \ {App} : pc'[u] = pc[u]
        /\ pc'[App] \notin {"lost_spawn", "lost_start"}
        /\ UNCHANGED sendLock \/ (sendLock' = App /\ pc'[App] = "lost_lock")
    <3> USE <1>0, <1>2 DEF GoTo
    <3>1. CASE HelloFails(t)
      BY <1>2, <3>1 DEF HelloFails
    <3>2. CASE ConnRefused(t) \/ ConnFail(t)
      BY <1>2, <3>2 DEF ConnRefused, ConnFail, AfterRefusal
    <3>3. CASE ConnLock(t) \/ ConnOpen(t)
      BY <1>2, <3>3 DEF ConnLock, ConnOpen, locks
    <3>4. CASE HelloReads(t) \/ Hello(t) \/ HandshakeDone(t) \/ HandshakeFails(t)
               \/ FindOld(t) \/ RetireRaises(t)
      BY <1>2, <3>4 DEF HelloReads, Hello, HandshakeDone, HandshakeFails, FindOld, RetireRaises,
                        shared, locks
    <3>5. CASE RetireOld(t) \/ OpenSession(t)
      BY <1>2, <3>5 DEF RetireOld, OpenSession, locks
    <3>6. QED
      BY <1>6, <3>1, <3>2, <3>3, <3>4, <3>5 DEF ConnectStep
  <2>4. NoLoopInv'
    BY <2>1 DEF NoLoopInv
  <2>5. sendLock # App
    BY <1>1, <1>2 DEF SendInv, Connecting, Losing
  <2>6. SendInv'
    BY <1>0, <2>1, <2>5 DEF SendInv, Losing
  <2>7. QED
    BY <1>4, <2>4, <2>6
<1>7. QED
  BY <1>5, <1>6

\* A reader moves alone; what it does to the link, it does while it is no longer
\* quiet.
LEMMA CloseReader ==
  ASSUME CloseInv, NEW c \in Conns, ReaderStep(c)
  PROVE  NoLoopInv' /\ SendInv' /\ ClosingInv'
<1>0. pc \in [Threads -> Labels] /\ sendLock \in Threads \cup {NoThread}
  BY DEF CloseInv, IInv, TypeOK, PcOK, LockOK
<1> USE Kinds DEF CloseInv
<1>1. /\ \A u \in Threads \ {Reader(c)} : pc'[u] = pc[u]
      /\ pc'[Reader(c)] \notin {"lost_spawn", "lost_start"}
  BY <1>0 DEF ReaderStep, ReadTop, ReadOther, ReadEnd, ReadMalformed, ReadPong,
              PongTouch, PongCheck, PongUp, GoTo
<1>2. pc[Reader(c)] \notin Quiet \cup Losing
  BY DEF ReaderStep, ReadTop, ReadOther, ReadEnd, ReadMalformed, ReadPong,
         PongTouch, PongCheck, PongUp, Quiet, Losing
<1>3. UNCHANGED <<sendLock, closing, sock, current, outlived>>
  BY DEF ReaderStep, ReadTop, ReadOther, ReadEnd, ReadMalformed, ReadPong,
         PongTouch, PongCheck, PongUp, shared, locks, linkVars, sockVars, sessVars
<1>4. NoLoopInv'
  BY <1>1 DEF NoLoopInv
<1>5. SendInv'
  BY <1>0, <1>1, <1>2, <1>3 DEF SendInv
<1>6. ClosingInv'
  <2>1. pc'[App] = pc[App]
    BY <1>1
  <2>2. closing => pc[App] \in {"x_sock", "x_join"} \/ outlived
    BY <1>2 DEF ClosingInv
  <2>3. QED
    BY <1>3, <2>1, <2>2 DEF ClosingInv
<1>7. QED
  BY <1>4, <1>5, <1>6

\* A heartbeat that sleeps through close() ends when it wakes up.
LEMMA CloseHeartbeat ==
  ASSUME CloseInv, NEW c \in Conns, HeartbeatStep(c)
  PROVE  NoLoopInv' /\ SendInv' /\ ClosingInv'
<1>0. pc \in [Threads -> Labels] /\ sendLock \in Threads \cup {NoThread}
  BY DEF CloseInv, IInv, TypeOK, PcOK, LockOK
<1> USE Kinds DEF CloseInv
<1>1. /\ \A u \in Threads \ {Heartbeat(c)} : pc'[u] = pc[u]
      /\ pc'[Heartbeat(c)] \notin {"lost_spawn", "lost_start"}
  BY <1>0 DEF HeartbeatStep, BeatWakes, BeatPings, BeatSendFails, BeatNoSocket,
              BeatAnswered, BeatPatient, BeatTimesOut, BeatJudges, GoTo
<1>2. pc[Heartbeat(c)] \notin Losing
  BY DEF HeartbeatStep, BeatWakes, BeatPings, BeatSendFails, BeatNoSocket,
         BeatAnswered, BeatPatient, BeatTimesOut, BeatJudges, Losing
<1>3. UNCHANGED <<closing, sock, current, outlived>>
  BY DEF HeartbeatStep, BeatWakes, BeatPings, BeatSendFails, BeatNoSocket,
         BeatAnswered, BeatPatient, BeatTimesOut, BeatJudges, linkVars, sockVars, sessVars
<1>4. NoLoopInv'
  BY <1>1 DEF NoLoopInv
<1>5. SendInv'
  <2>1. CASE BeatSendFails(c)
    BY <1>0, <2>1 DEF BeatSendFails, GoTo, SendInv, Losing
  <2>2. CASE ~BeatSendFails(c)
    <3>1. UNCHANGED sendLock
      BY <2>2 DEF HeartbeatStep, BeatWakes, BeatPings, BeatNoSocket,
                  BeatAnswered, BeatPatient, BeatTimesOut, BeatJudges, locks
    <3>2. QED
      BY <1>0, <1>1, <1>2, <3>1 DEF SendInv
  <2>3. QED
    BY <2>1, <2>2
<1>6. ClosingInv'
  <2>1. pc'[App] = pc[App]
    BY <1>1
  <2>2. CASE ~closing \/ pc[App] \in {"x_sock", "x_join"} \/ outlived
    BY <1>3, <2>1, <2>2 DEF ClosingInv
  <2>3. CASE closing /\ pc[App] \notin {"x_sock", "x_join"} /\ ~outlived
    <3>1. pc[Heartbeat(c)] \in Quiet
      BY <2>3 DEF ClosingInv
    <3>2. BeatWakes(c)
      BY <3>1 DEF HeartbeatStep, BeatPings, BeatSendFails, BeatNoSocket,
                  BeatAnswered, BeatPatient, BeatTimesOut, BeatJudges, Quiet
    <3>3. pc'[Heartbeat(c)] = "done" /\ UNCHANGED link
      BY <1>0, <2>3, <3>2 DEF BeatWakes, GoTo, linkVars
    <3>4. \A t \in Readers \cup Heartbeats : pc[t] \in Quiet => pc'[t] \in Quiet
      BY <1>1, <3>3 DEF Quiet
    <3>5. QED
      BY <1>3, <2>1, <2>3, <3>3, <3>4 DEF ClosingInv
  <2>4. QED
    BY <2>2, <2>3
<1>7. QED
  BY <1>4, <1>5, <1>6

\* After a join() that gave up on nobody who could run, every thread has ended or
\* is a heartbeat that sleeps: nobody is left to hold a lock that another thread
\* could wait for.
LEMMA JoinQuiets ==
  ASSUME CloseInv, CloseJoins, ~outlived'
  PROVE  \A t \in Readers \cup Heartbeats : pc[t] \in Quiet
<1>0. PcOK /\ sendLock \in Threads \cup {NoThread}
      /\ stateLock \in Connectors \cup {NoThread}
  BY DEF CloseInv, IInv, TypeOK, LockOK
<1> USE Kinds DEF CloseInv, IInv
<1>1. pc[App] = "x_join" /\ \A t \in Threads \ {App} : pc[t] \in {"none", "done"} \/ MayBlock(t)
  BY DEF CloseJoins
<1>2. \A t \in Connectors : pc[t] \notin Connecting \cup Losing
  BY <1>1 DEF NoLoopInv, Connecting, Losing
<1>3. stateLock = NoThread
  BY <1>0, <1>2 DEF LockInv
<1>4. \A t \in Threads \ {App} : pc[t] \notin Losing
  BY <1>1, <1>3 DEF MayBlock, Losing
<1>5. sendLock = NoThread
  BY <1>0, <1>2, <1>4 DEF SendInv
<1>6. TAKE t \in Readers \cup Heartbeats
<1>7. t # App /\ t \in Threads
  OBVIOUS
<1>8. pc[t] \notin {"c_open", "c_await", "c_lock", "c_send"}
  BY <1>0 DEF PcOK, ReaderLabels, HeartbeatLabels, Losing
<1>9. QED
  BY <1>1, <1>3, <1>5, <1>7, <1>8 DEF MayBlock, Quiet

\* The application: close() releases one thing after the other.
LEMMA CloseApp ==
  ASSUME CloseInv, AppConnect \/ AppClose \/ CloseStep
  PROVE  NoLoopInv' /\ SendInv' /\ ClosingInv'
<1>0. pc \in [Threads -> Labels] /\ sendLock \in Threads \cup {NoThread}
  BY DEF CloseInv, IInv, TypeOK, PcOK, LockOK
<1> USE Kinds DEF CloseInv
<1>1. \A u \in Threads \ {App} : pc'[u] = pc[u]
  BY AppAlone DEF IInv
<1>2. pc[App] \in Closed \ {"c_lock"} /\ pc'[App] \in Closed
  BY <1>0 DEF AppConnect, AppClose, CloseStep, CloseDropsSocket, CloseJoins, CloseRetires,
         CloseForgets, CloseSetsLink, GoTo, Closed
<1>3. UNCHANGED sendLock
  BY DEF AppConnect, AppClose, CloseStep, CloseDropsSocket, CloseJoins, CloseRetires,
         CloseForgets, CloseSetsLink, shared, locks
<1>4. NoLoopInv'
  BY <1>1, <1>2 DEF NoLoopInv, Closed
<1>5. SendInv'
  BY <1>0, <1>1, <1>2, <1>3 DEF SendInv, Closed, Losing
<1>6. ClosingInv'
  <2> SUFFICES ASSUME closing' PROVE ClosingInv'
    BY DEF ClosingInv
  <2>0. \A t \in Readers \cup Heartbeats : pc'[t] = pc[t]
    BY <1>1
  <2>1. CASE AppClose
    BY <1>0, <2>1 DEF AppClose, GoTo, ClosingInv, Closed
  <2>2. CASE AppConnect
    <3>1. pc[App] = "idle" /\ pc'[App] = "c_lock"
          /\ UNCHANGED <<closing, link, sock, current, outlived>>
      BY <1>0, <2>2 DEF AppConnect, GoTo, linkVars, sockVars, sessVars
    <3>2. QED
      BY <2>0, <3>1 DEF ClosingInv, Closed
  <2>3. CASE CloseDropsSocket
    BY <1>0, <2>3 DEF CloseDropsSocket, CloseSocket, GoTo, ClosingInv, Closed
  <2>4. CASE CloseJoins
    <3>1. pc[App] = "x_join" /\ pc'[App] = "x_session"
      BY <1>0, <2>4 DEF CloseJoins, GoTo
    <3>2. UNCHANGED <<closing, sock>>
      BY <2>4 DEF CloseJoins, shared, linkVars, sockVars
    <3>3. outlived' \/ \A t \in Readers \cup Heartbeats : pc[t] \in Quiet
      BY <2>4, JoinQuiets
    <3>4. QED
      BY <2>0, <3>1, <3>2, <3>3 DEF ClosingInv, Closed
  <2>5. CASE CloseRetires
    <3>1. pc[App] = "x_session" /\ UNCHANGED <<closing, sock, current, outlived>>
          /\ pc'[App] = IF current = NoConn THEN "x_link" ELSE "x_forget"
      BY <1>0, <2>5 DEF CloseRetires, SessionRetire, GoTo, linkVars, sockVars
    <3>2. QED
      BY <2>0, <3>1 DEF ClosingInv, Closed
  <2>6. CASE CloseForgets
    <3>1. pc[App] = "x_forget" /\ UNCHANGED <<closing, sock, outlived>>
          /\ pc'[App] = "x_link" /\ current' = NoConn
      BY <1>0, <2>6 DEF CloseForgets, SessionForget, GoTo, linkVars, sockVars
    <3>2. QED
      BY <2>0, <3>1 DEF ClosingInv, Closed
  <2>7. CASE CloseSetsLink
    <3>1. pc[App] = "x_link" /\ UNCHANGED <<closing, sock, current, outlived>>
          /\ pc'[App] = "idle" /\ link' = "DISCONNECTED"
      BY <1>0, <2>7 DEF CloseSetsLink, GoTo, sockVars, sessVars
    <3>2. QED
      BY <2>0, <3>1 DEF ClosingInv, Closed
  <2>8. QED
    BY <2>1, <2>2, <2>3, <2>4, <2>5, <2>6, <2>7 DEF CloseStep
<1>7. QED
  BY <1>4, <1>5, <1>6

LEMMA CloseNext == ~AutoReconnect /\ CloseInv /\ [Next]_vars => CloseInv'
<1> SUFFICES ASSUME ~AutoReconnect, CloseInv, [Next]_vars PROVE CloseInv'
  OBVIOUS
<1>0. IInv'
  BY INext DEF CloseInv
<1>1. CASE \E t \in Threads : LinkLostStep(t)
  BY <1>0, <1>1, CloseLost DEF CloseInv
<1>2. CASE \E t \in Connectors : ConnectStep(t)
  BY <1>0, <1>2, CloseConnect DEF CloseInv
<1>3. CASE \E l \in Loops : LoopStep(l)
  BY <1>3 DEF CloseInv, NoLoopInv, LoopStep, LoopStops, LoopRetries, LoopExits
<1>4. CASE \E c \in Conns : ReaderStep(c)
  BY <1>0, <1>4, CloseReader DEF CloseInv
<1>5. CASE \E c \in Conns : HeartbeatStep(c)
  BY <1>0, <1>5, CloseHeartbeat DEF CloseInv
<1>6. CASE \E c \in Conns : PeerCloses(c)
  <2>1. UNCHANGED <<pc, sendLock, closing, link, sock, current, outlived>>
    BY <1>6 DEF PeerCloses, locks, linkVars, sockVars, sessVars
  <2>2. NoLoopInv' /\ SendInv' /\ ClosingInv'
    BY <2>1 DEF CloseInv, NoLoopInv, SendInv, ClosingInv
  <2>3. QED
    BY <1>0, <2>2 DEF CloseInv
<1>7. CASE AppConnect \/ AppClose \/ CloseStep
  BY <1>0, <1>7, CloseApp DEF CloseInv
<1>8. CASE UNCHANGED vars
  <2>1. UNCHANGED <<pc, sendLock, closing, link, sock, current, outlived>>
    BY <1>8 DEF vars, shared, locks, linkVars, sockVars, sessVars
  <2>2. NoLoopInv' /\ SendInv' /\ ClosingInv'
    BY <2>1 DEF CloseInv, NoLoopInv, SendInv, ClosingInv
  <2>3. QED
    BY <1>0, <2>2 DEF CloseInv
<1>9. QED
  BY <1>1, <1>2, <1>3, <1>4, <1>5, <1>6, <1>7, <1>8 DEF Next

LEMMA CloseInit == Init => CloseInv
<1> SUFFICES ASSUME Init PROVE CloseInv
  OBVIOUS
<1> USE Kinds
<1>1. \A t \in Threads : pc[t] \in {"idle", "none"} /\ (t # App => pc[t] = "none")
  BY DEF Init
<1>2. NoLoopInv
  BY <1>1 DEF NoLoopInv
<1>3. SendInv /\ ClosingInv
  BY DEF Init, SendInv, ClosingInv
<1>4. QED
  BY <1>2, <1>3, IInit DEF CloseInv

\* Without automatic reconnection, for any number of connections and calls: a
\* client whose close() has returned has no socket and no session; it has no link
\* either, and none of the threads that are still alive changes that, unless one
\* that could run was given up by a join() of two seconds.
THEOREM CloseTheorem ==
  ASSUME ~AutoReconnect
  PROVE  Spec => []CloseReleases
<1>1. CloseInv /\ [Next]_vars => CloseInv'
  BY CloseNext
<1>2. CloseInv => CloseReleases
  <2>1. SUFFICES ASSUME CloseInv, closing, pc[App] = "idle"
                 PROVE  sock = NoConn /\ current = NoConn /\ (outlived \/ link = "DISCONNECTED")
    BY DEF CloseReleases, connected
  <2>2. QED
    BY <2>1 DEF CloseInv, ClosingInv
<1>3. QED
  BY <1>1, <1>2, CloseInit, PTL DEF Spec

=============================================================================
