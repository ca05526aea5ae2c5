------------------------- MODULE PendingCallsProofs -------------------------
(***************************************************************************)
(* Proofs about PendingCalls for any number of calls, of threads that find *)
(* the link lost, and of connections.                                      *)
(***************************************************************************)
EXTENDS PendingCalls, TLAPS

\* A request leaves on a socket.
SendInv == \A c \in Calls : pc[c] = "send" => target[c] \in Conns

\* A call that has not registered its slot yet is nowhere else either.
EarlyInv ==
  \A c \in Calls : pc[c] \in {"idle", "require", "live", "return", "register"} =>
    /\ c \notin pending /\ c \notin event /\ response[c] = NoConn
    /\ \A t \in Threads : c \notin todo[t]
    /\ \A k \in Conns : popped[k].call # c
    /\ \A r \in wire : r.call # c
    /\ \A a \in answers : a.call # c

\* Whoever sets an event has put something into the slot.
FilledInv ==
  /\ \A c \in event : c \in error \/ response[c] # NoConn
  /\ \A k \in filled : /\ popped[k] \in Answer
                       /\ popped[k].call \in error \/ response[popped[k].call] # NoConn
  /\ \A c \in Calls : pc[c] \in {"touch", "take"} => c \in event
  /\ \A c \in Calls : outcome[c] = "response" => response[c] # NoConn

SomebodyFails == \E t \in Threads : pc[t] \in {"fail", "clear"}

\* A slot in the table belongs to a call that has not ended, or to one that a
\* thread which fails all slots has woken and is about to remove.
TableInv ==
  /\ \A c \in pending : pc[c] = "done" => c \in event
  /\ pending \cap event # {} => SomebodyFails
  /\ \A k \in Conns : popped[k].call \notin pending

\* What answers say of the session, when the server checks it.
OwnInv ==
  ChecksSession =>
    /\ \A a \in answers : a.ok => a.conn = sess[a.call]
    /\ \A k \in Conns : popped[k] \in Answer /\ popped[k].ok => k = sess[popped[k].call]
    /\ \A c \in Calls : response[c] # NoConn => response[c] = sess[c]

\* A call is bound when it has its session_id and open until its outcome is set.
StageInv ==
  \A c \in Calls :
    /\ pc[c] \in {"idle", "require", "live", "return"} =>
         sess[c] = NoConn /\ outcome[c] = "none"
    /\ pc[c] \in {"register", "sock", "send", "wait", "touch", "take"} \cup Failing =>
         sess[c] \in Conns /\ outcome[c] = "none"
    /\ pc[c] = "raise" => sess[c] \in Conns

IInv == TypeOK /\ SendInv /\ EarlyInv /\ FilledInv /\ TableInv /\ OwnInv

-----------------------------------------------------------------------------
\* What a reader has popped belongs to a call.
LEMMA PoppedCall ==
  ASSUME TypeOK, NEW k \in Conns
  PROVE  /\ popped[k] # NoAnswer => popped[k] \in Answer /\ popped[k].call \in Calls
         /\ NoAnswer.call \notin Calls
  BY PendingCallsAssumption DEF TypeOK, NetOK, Answer, NoAnswer, Threads, Losers

\* The thread that fails all slots goes on doing so while another one moves.
LEMMA FailingStays ==
  ASSUME PcOK, NEW t \in Threads, NEW label, GoTo(t, label),
         pc[t] \notin {"fail", "clear"} \/ label \in {"fail", "clear"}, SomebodyFails
  PROVE  SomebodyFails'
  BY DEF PcOK, GoTo, SomebodyFails

\* Every thread goes to a label there is.
LEMMA PcStep == TypeOK /\ [Next]_vars => PcOK'
<1> SUFFICES ASSUME TypeOK, [Next]_vars
             PROVE  PcOK'
  OBVIOUS
<1> USE DEF TypeOK, PcOK, Labels, Failing, Connecting, Losers, Threads, GoTo, AfterLost,
     shared, linkVars
<1>1. ASSUME NEW c \in Calls,
             \/ CallRefused(c) \/ CallStarts(c) \/ CallRequires(c) \/ CallSeesLive(c)
             \/ CallTakesSession(c)
             \/ Register(c)
             \/ ReadSocket(c) \/ Send(c) \/ SendFails(c) \/ Withdraw(c) \/ WaitTimesOut(c)
             \/ WaitEnds(c) \/ Touch(c) \/ Take(c)
      PROVE  PcOK'
  BY <1>1 DEF CallRefused, CallStarts, CallRequires, CallSeesLive, CallTakesSession, Register,
       ReadSocket, Send, SendFails, Withdraw, WaitTimesOut, WaitEnds, Touch, Take
<1>2. ASSUME NEW w \in Watchers, Notices(w) \/ PingFails(w)
      PROVE  PcOK'
  BY <1>2 DEF Notices, PingFails
<1>3. ASSUME NEW t \in Losers, LostStep(t)
      PROVE  PcOK'
  BY <1>3 DEF LostStep, LinkLost, Degrade, Mark, Name, ReadName, LostRaises, Leaves
<1>4. ASSUME NEW t \in Threads,
             \/ ListPending(t) \/ FailSlot(t) \/ AllFailed(t) \/ ClearPending(t)
      PROVE  PcOK'
  BY <1>4 DEF ListPending, FailSlot, AllFailed, ClearPending, CleansUp, Leaves
<1>5. CASE CloseBegins \/ CloseDropsSocket \/ CloseRetires \/ CloseForgets \/ CloseSetsLink
  BY <1>5 DEF CloseBegins, CloseDropsSocket, CloseRetires, CloseForgets, CloseSetsLink
<1>6. CASE \/ LoopStops \/ LoopRetries \/ ConnLock \/ ConnRefused \/ ConnOpen \/ Hello
           \/ HelloFails \/ HelloReads \/ HandshakeDone \/ HandshakeFails \/ RetireOld
           \/ OpenSession \/ LinkUp \/ ConnFail
  BY <1>6 DEF LoopStops, LoopRetries, ConnLock, ConnRefused, ConnOpen, Hello, HelloFails,
       HelloReads, HandshakeDone, HandshakeFails, RetireOld, OpenSession, LinkUp, ConnFail
<1>7. ASSUME NEW k \in Conns,
             \/ PeerCloses(k) \/ Serve(k) \/ PopSlot(k) \/ FillSlot(k) \/ SetEvent(k)
      PROVE  PcOK'
  BY <1>7 DEF PeerCloses, Serve, PopSlot, FillSlot, SetEvent
<1>8. CASE UNCHANGED vars
  BY <1>8 DEF vars
<1>9. QED
  BY <1>1, <1>2, <1>3, <1>4, <1>5, <1>6, <1>7, <1>8 DEF Next, CallStep, LostStep, FailStep,
       CloseStep, ReconnectStep, ReaderStep

\* The flags stay Booleans.
LEMMA FlagStep == TypeOK /\ [Next]_vars => FlagOK'
<1> SUFFICES ASSUME TypeOK, [Next]_vars
             PROVE  FlagOK'
  OBVIOUS
<1> USE DEF TypeOK, FlagOK, shared, linkVars
<1>1. ASSUME NEW c \in Calls,
             \/ CallRefused(c) \/ CallStarts(c) \/ CallRequires(c) \/ CallSeesLive(c)
             \/ CallTakesSession(c)
             \/ Register(c)
             \/ ReadSocket(c) \/ Send(c) \/ SendFails(c) \/ Withdraw(c) \/ WaitTimesOut(c)
             \/ WaitEnds(c) \/ Touch(c) \/ Take(c)
      PROVE  FlagOK'
  BY <1>1 DEF CallRefused, CallStarts, CallRequires, CallSeesLive, CallTakesSession, Register,
       ReadSocket, Send, SendFails, Withdraw, WaitTimesOut, WaitEnds, Touch, Take
<1>2. ASSUME NEW w \in Watchers, Notices(w) \/ PingFails(w)
      PROVE  FlagOK'
  BY <1>2 DEF Notices, PingFails
<1>3. ASSUME NEW t \in Losers, LostStep(t)
      PROVE  FlagOK'
  BY <1>3 DEF LostStep, LinkLost, Degrade, Mark, Name, ReadName, LostRaises, Leaves
<1>4. ASSUME NEW t \in Threads,
             \/ ListPending(t) \/ FailSlot(t) \/ AllFailed(t) \/ ClearPending(t)
      PROVE  FlagOK'
  BY <1>4 DEF ListPending, FailSlot, AllFailed, ClearPending, CleansUp, Leaves
<1>5. CASE CloseBegins \/ CloseDropsSocket \/ CloseRetires \/ CloseForgets \/ CloseSetsLink
  BY <1>5 DEF CloseBegins, CloseDropsSocket, CloseRetires, CloseForgets, CloseSetsLink
<1>6. CASE \/ LoopStops \/ LoopRetries \/ ConnLock \/ ConnRefused \/ ConnOpen \/ Hello
           \/ HelloFails \/ HelloReads \/ HandshakeDone \/ HandshakeFails \/ RetireOld
           \/ OpenSession \/ LinkUp \/ ConnFail
  BY <1>6 DEF LoopStops, LoopRetries, ConnLock, ConnRefused, ConnOpen, Hello, HelloFails,
       HelloReads, HandshakeDone, HandshakeFails, RetireOld, OpenSession, LinkUp, ConnFail
<1>7. ASSUME NEW k \in Conns,
             \/ PeerCloses(k) \/ Serve(k) \/ PopSlot(k) \/ FillSlot(k) \/ SetEvent(k)
      PROVE  FlagOK'
  BY <1>7 DEF PeerCloses, Serve, PopSlot, FillSlot, SetEvent
<1>8. CASE UNCHANGED vars
  BY <1>8 DEF vars
<1>9. QED
  BY <1>1, <1>2, <1>3, <1>4, <1>5, <1>6, <1>7, <1>8 DEF Next, CallStep, LostStep, FailStep,
       CloseStep, ReconnectStep, ReaderStep

\* Sockets and sessions are of connections that were opened.
LEMMA ConnStep == TypeOK /\ [Next]_vars => ConnOK'
<1> SUFFICES ASSUME TypeOK, [Next]_vars
             PROVE  ConnOK'
  OBVIOUS
<1> USE PendingCallsAssumption DEF TypeOK, ConnOK, Conns, NoConn, CloseSocket, shared, linkVars
<1>1. ASSUME NEW c \in Calls,
             \/ CallRefused(c) \/ CallStarts(c) \/ CallRequires(c) \/ CallSeesLive(c)
             \/ CallTakesSession(c)
             \/ Register(c)
             \/ ReadSocket(c) \/ Send(c) \/ SendFails(c) \/ Withdraw(c) \/ WaitTimesOut(c)
             \/ WaitEnds(c) \/ Touch(c) \/ Take(c)
      PROVE  ConnOK'
  BY <1>1 DEF CallRefused, CallStarts, CallRequires, CallSeesLive, CallTakesSession, Register,
       ReadSocket, Send, SendFails, Withdraw, WaitTimesOut, WaitEnds, Touch, Take
<1>2. ASSUME NEW w \in Watchers, Notices(w) \/ PingFails(w)
      PROVE  ConnOK'
  BY <1>2 DEF Notices, PingFails
<1>3. ASSUME NEW t \in Losers,
             LinkLost(t) \/ Degrade(t) \/ Name(t) \/ ReadName(t) \/ LostRaises(t)
      PROVE  ConnOK'
  BY <1>3 DEF LinkLost, Degrade, Name, ReadName, LostRaises, Leaves
<1>4. ASSUME NEW t \in Losers, Mark(t)
      PROVE  ConnOK'
  BY <1>4 DEF Mark
<1>5. ASSUME NEW t \in Threads,
             \/ ListPending(t) \/ FailSlot(t) \/ AllFailed(t) \/ ClearPending(t)
      PROVE  ConnOK'
  BY <1>5 DEF ListPending, FailSlot, AllFailed, ClearPending, CleansUp, Leaves
<1>6. CASE CloseBegins \/ CloseSetsLink
  BY <1>6 DEF CloseBegins, CloseSetsLink
<1>7. CASE CloseDropsSocket
  BY <1>7 DEF CloseDropsSocket
<1>8. CASE CloseRetires
  BY <1>8 DEF CloseRetires
<1>9. CASE CloseForgets
  BY <1>9 DEF CloseForgets
<1>10. CASE \/ LoopStops \/ ConnLock \/ ConnRefused \/ LinkUp \/ Hello \/ HelloFails
            \/ HelloReads \/ HandshakeDone \/ HandshakeFails
  BY <1>10 DEF LoopStops, ConnLock, ConnRefused, LinkUp, Hello, HelloFails, HelloReads,
       HandshakeDone, HandshakeFails
<1>11. CASE LoopRetries
  BY <1>11 DEF LoopRetries
<1>12. CASE ConnOpen
  BY <1>12 DEF ConnOpen
<1>13. CASE ConnFail
  BY <1>13 DEF ConnFail
<1>14. CASE RetireOld
  BY <1>14 DEF RetireOld
<1>15. CASE OpenSession
  BY <1>15 DEF OpenSession
<1>16. ASSUME NEW k \in Conns,
             \/ Serve(k) \/ PopSlot(k) \/ FillSlot(k) \/ SetEvent(k)
      PROVE  ConnOK'
  BY <1>16 DEF Serve, PopSlot, FillSlot, SetEvent
<1>17. ASSUME NEW k \in Conns, PeerCloses(k)
      PROVE  ConnOK'
  BY <1>17 DEF PeerCloses
<1>18. CASE UNCHANGED vars
  BY <1>18 DEF vars
<1>19. QED
  BY <1>1, <1>2, <1>3, <1>4, <1>5, <1>6, <1>7, <1>8, <1>9, <1>10, <1>11, <1>12, <1>13, <1>14,
       <1>15, <1>16, <1>17, <1>18 DEF Next, CallStep, LostStep, FailStep, CloseStep,
       ReconnectStep, ReaderStep

\* Slots are of calls, and their responses of connections.
LEMMA SlotStep == TypeOK /\ [Next]_vars => SlotOK'
<1> SUFFICES ASSUME TypeOK, [Next]_vars
             PROVE  SlotOK'
  OBVIOUS
<1> USE DEF TypeOK, SlotOK, shared, slotVars
<1>1. ASSUME NEW c \in Calls,
             \/ CallRefused(c) \/ CallStarts(c) \/ CallRequires(c) \/ CallSeesLive(c)
             \/ CallTakesSession(c)
             \/ ReadSocket(c)
             \/ Send(c) \/ SendFails(c) \/ WaitTimesOut(c) \/ WaitEnds(c) \/ Touch(c) \/ Take(c)
      PROVE  SlotOK'
  BY <1>1 DEF CallRefused, CallStarts, CallRequires, CallSeesLive, CallTakesSession, ReadSocket,
       Send, SendFails, WaitTimesOut, WaitEnds, Touch, Take
<1>2. ASSUME NEW c \in Calls, Register(c)
      PROVE  SlotOK'
  BY <1>2 DEF Register
<1>3. ASSUME NEW c \in Calls, Withdraw(c)
      PROVE  SlotOK'
  BY <1>3 DEF Withdraw
<1>4. ASSUME NEW w \in Watchers, Notices(w) \/ PingFails(w)
      PROVE  SlotOK'
  BY <1>4 DEF Notices, PingFails
<1>5. ASSUME NEW t \in Losers, LostStep(t)
      PROVE  SlotOK'
  BY <1>5 DEF LostStep, LinkLost, Degrade, Mark, Name, ReadName, LostRaises, Leaves
<1>6. ASSUME NEW t \in Threads, ListPending(t) \/ AllFailed(t)
      PROVE  SlotOK'
  BY <1>6 DEF ListPending, AllFailed
<1>7. ASSUME NEW t \in Threads, FailSlot(t)
      PROVE  SlotOK'
  BY <1>7 DEF FailSlot, CallOK
<1>8. ASSUME NEW t \in Threads, ClearPending(t)
      PROVE  SlotOK'
  BY <1>8 DEF ClearPending, CleansUp, Leaves
<1>9. CASE CloseBegins \/ CloseDropsSocket \/ CloseRetires \/ CloseForgets \/ CloseSetsLink
  BY <1>9 DEF CloseBegins, CloseDropsSocket, CloseRetires, CloseForgets, CloseSetsLink
<1>10. CASE \/ LoopStops \/ LoopRetries \/ ConnLock \/ ConnRefused \/ ConnOpen \/ Hello
            \/ HelloFails \/ HelloReads \/ HandshakeDone \/ HandshakeFails \/ RetireOld
            \/ OpenSession \/ LinkUp \/ ConnFail
  BY <1>10 DEF LoopStops, LoopRetries, ConnLock, ConnRefused, ConnOpen, Hello, HelloFails,
       HelloReads, HandshakeDone, HandshakeFails, RetireOld, OpenSession, LinkUp, ConnFail
<1>11. ASSUME NEW k \in Conns, PeerCloses(k) \/ Serve(k)
      PROVE  SlotOK'
  BY <1>11 DEF PeerCloses, Serve
<1>12. ASSUME NEW k \in Conns, PopSlot(k)
      PROVE  SlotOK'
  BY <1>12 DEF PopSlot
<1>13. ASSUME NEW k \in Conns, FillSlot(k)
      PROVE  SlotOK'
  <2>1. popped[k].call \in Calls
    BY <1>13 DEF FillSlot, NetOK, Answer
  <2>2. QED
    BY <1>13, <2>1, PendingCallsAssumption DEF FillSlot, Conns
<1>14. ASSUME NEW k \in Conns, SetEvent(k)
      PROVE  SlotOK'
  BY <1>14 DEF SetEvent, NetOK, Answer, NoAnswer
<1>15. CASE UNCHANGED vars
  BY <1>15 DEF vars
<1>16. QED
  BY <1>1, <1>2, <1>3, <1>4, <1>5, <1>6, <1>7, <1>8, <1>9, <1>10, <1>11, <1>12, <1>13, <1>14,
       <1>15 DEF Next, CallStep, LostStep, FailStep, CloseStep, ReconnectStep, ReaderStep

\* What a call and a thread that fails slots keep to themselves is well typed.
LEMMA CallStepOK == TypeOK /\ [Next]_vars => CallOK'
<1> SUFFICES ASSUME TypeOK, [Next]_vars
             PROVE  CallOK'
  OBVIOUS
<1> USE PendingCallsAssumption DEF TypeOK, CallOK, SlotOK, ConnOK, Outcomes, Ends, Conns,
     NoConn, shared, locks, callVars, Losers, Threads
<1>1. ASSUME NEW c \in Calls,
             \/ CallStarts(c) \/ Register(c) \/ WaitEnds(c) \/ Touch(c)
      PROVE  CallOK'
  BY <1>1 DEF CallStarts, Register, WaitEnds, Touch
<1>2. ASSUME NEW c \in Calls, CallRefused(c)
      PROVE  CallOK'
  BY <1>2 DEF CallRefused
<1>3. ASSUME NEW c \in Calls,
             CallRequires(c) \/ CallSeesLive(c) \/ CallTakesSession(c)
      PROVE  CallOK'
  BY <1>3 DEF CallRequires, CallSeesLive, CallTakesSession
<1>4. ASSUME NEW c \in Calls, ReadSocket(c)
      PROVE  CallOK'
  BY <1>4 DEF ReadSocket
<1>5. ASSUME NEW c \in Calls, Send(c)
      PROVE  CallOK'
  BY <1>5 DEF Send
<1>6. ASSUME NEW c \in Calls, SendFails(c)
      PROVE  CallOK'
  BY <1>6 DEF SendFails
<1>7. ASSUME NEW c \in Calls, Withdraw(c)
      PROVE  CallOK'
  BY <1>7 DEF Withdraw
<1>8. ASSUME NEW c \in Calls, WaitTimesOut(c)
      PROVE  CallOK'
  BY <1>8 DEF WaitTimesOut
<1>9. ASSUME NEW c \in Calls, Take(c)
      PROVE  CallOK'
  BY <1>9 DEF Take
<1>10. ASSUME NEW w \in Watchers, Notices(w) \/ PingFails(w)
      PROVE  CallOK'
  BY <1>10 DEF Notices, PingFails
<1>11. ASSUME NEW t \in Losers, LostStep(t)
      PROVE  CallOK'
  BY <1>11 DEF LostStep, LinkLost, Degrade, Mark, Name, ReadName, LostRaises, Leaves
<1>12. ASSUME NEW t \in Threads, AllFailed(t) \/ ClearPending(t)
      PROVE  CallOK'
  BY <1>12 DEF AllFailed, ClearPending, CleansUp, Leaves
<1>13. ASSUME NEW t \in Threads, ListPending(t)
      PROVE  CallOK'
  BY <1>13 DEF ListPending
<1>14. ASSUME NEW t \in Threads, FailSlot(t)
      PROVE  CallOK'
  BY <1>14 DEF FailSlot
<1>15. CASE CloseBegins \/ CloseDropsSocket \/ CloseRetires \/ CloseForgets \/ CloseSetsLink
  BY <1>15 DEF CloseBegins, CloseDropsSocket, CloseRetires, CloseForgets, CloseSetsLink
<1>16. CASE \/ LoopStops \/ LoopRetries \/ ConnLock \/ ConnRefused \/ ConnOpen \/ Hello
            \/ HelloFails \/ HelloReads \/ HandshakeDone \/ HandshakeFails \/ RetireOld
            \/ OpenSession \/ LinkUp \/ ConnFail
  BY <1>16 DEF LoopStops, LoopRetries, ConnLock, ConnRefused, ConnOpen, Hello, HelloFails,
       HelloReads, HandshakeDone, HandshakeFails, RetireOld, OpenSession, LinkUp, ConnFail
<1>17. ASSUME NEW k \in Conns,
             \/ PeerCloses(k) \/ Serve(k) \/ PopSlot(k) \/ FillSlot(k) \/ SetEvent(k)
      PROVE  CallOK'
  BY <1>17 DEF PeerCloses, Serve, PopSlot, FillSlot, SetEvent
<1>18. CASE UNCHANGED vars
  BY <1>18 DEF vars
<1>19. QED
  BY <1>1, <1>2, <1>3, <1>4, <1>5, <1>6, <1>7, <1>8, <1>9, <1>10, <1>11, <1>12, <1>13, <1>14,
       <1>15, <1>16, <1>17, <1>18 DEF Next, CallStep, LostStep, FailStep, CloseStep,
       ReconnectStep, ReaderStep

\* What is under way is well typed.
LEMMA NetStep == TypeOK /\ SendInv /\ [Next]_vars => NetOK'
<1> SUFFICES ASSUME TypeOK /\ SendInv, [Next]_vars
             PROVE  NetOK'
  OBVIOUS
<1> USE DEF TypeOK, NetOK, Answer, shared, netVars
<1>1. ASSUME NEW c \in Calls,
             \/ CallRefused(c) \/ CallStarts(c) \/ CallRequires(c) \/ CallSeesLive(c)
             \/ CallTakesSession(c)
             \/ Register(c)
             \/ ReadSocket(c) \/ SendFails(c) \/ Withdraw(c) \/ WaitTimesOut(c)
             \/ WaitEnds(c) \/ Touch(c) \/ Take(c)
      PROVE  NetOK'
  BY <1>1 DEF CallRefused, CallStarts, CallRequires, CallSeesLive, CallTakesSession, Register,
       ReadSocket, SendFails, Withdraw, WaitTimesOut, WaitEnds, Touch, Take
<1>2. ASSUME NEW c \in Calls, Send(c)
      PROVE  NetOK'
  <2>1. [call |-> c, conn |-> target[c]] \in [call : Calls, conn : Conns]
    BY <1>2 DEF Send, SendInv
  <2>2. QED
    BY <1>2, <2>1 DEF Send
<1>3. ASSUME NEW w \in Watchers, Notices(w) \/ PingFails(w)
      PROVE  NetOK'
  BY <1>3 DEF Notices, PingFails
<1>4. ASSUME NEW t \in Losers, LostStep(t)
      PROVE  NetOK'
  BY <1>4 DEF LostStep, LinkLost, Degrade, Mark, Name, ReadName, LostRaises, Leaves
<1>5. ASSUME NEW t \in Threads,
             \/ ListPending(t) \/ FailSlot(t) \/ AllFailed(t) \/ ClearPending(t)
      PROVE  NetOK'
  BY <1>5 DEF ListPending, FailSlot, AllFailed, ClearPending, CleansUp, Leaves
<1>6. CASE CloseBegins \/ CloseDropsSocket \/ CloseRetires \/ CloseForgets \/ CloseSetsLink
  BY <1>6 DEF CloseBegins, CloseDropsSocket, CloseRetires, CloseForgets, CloseSetsLink
<1>7. CASE \/ LoopStops \/ LoopRetries \/ ConnLock \/ ConnRefused \/ ConnOpen \/ Hello
           \/ HelloFails \/ HelloReads \/ HandshakeDone \/ HandshakeFails \/ RetireOld
           \/ OpenSession \/ LinkUp \/ ConnFail
  BY <1>7 DEF LoopStops, LoopRetries, ConnLock, ConnRefused, ConnOpen, Hello, HelloFails,
       HelloReads, HandshakeDone, HandshakeFails, RetireOld, OpenSession, LinkUp, ConnFail
<1>8. ASSUME NEW k \in Conns, PeerCloses(k)
      PROVE  NetOK'
  BY <1>8 DEF PeerCloses
<1>9. ASSUME NEW k \in Conns, Serve(k)
      PROVE  NetOK'
  <2>1. PICK r \in wire :
          answers' = answers \cup {[call |-> r.call, conn |-> k,
                                    ok |-> ChecksSession => sess[r.call] = k]}
    BY <1>9 DEF Serve
  <2>2. [call |-> r.call, conn |-> k, ok |-> ChecksSession => sess[r.call] = k] \in Answer
    <3>1. r.call \in Calls
      OBVIOUS
    <3>2. (ChecksSession => sess[r.call] = k) \in BOOLEAN
      BY ZenonT(20)
    <3>3. QED
      BY <3>1, <3>2
  <2>3. answers' \subseteq Answer
    BY <2>1, <2>2
  <2>4. QED
    BY <1>9, <2>3 DEF Serve
<1>10. ASSUME NEW k \in Conns, PopSlot(k)
      PROVE  NetOK'
  BY <1>10 DEF PopSlot
<1>11. ASSUME NEW k \in Conns, FillSlot(k)
      PROVE  NetOK'
  BY <1>11 DEF FillSlot
<1>12. ASSUME NEW k \in Conns, SetEvent(k)
      PROVE  NetOK'
  BY <1>12 DEF SetEvent
<1>13. CASE UNCHANGED vars
  BY <1>13 DEF vars
<1>14. QED
  BY <1>1, <1>2, <1>3, <1>4, <1>5, <1>6, <1>7, <1>8, <1>9, <1>10, <1>11, <1>12, <1>13 DEF Next,
       CallStep, LostStep, FailStep, CloseStep, ReconnectStep, ReaderStep

\* Only ReadSocket leads to a send, and only with a socket.
LEMMA SendStep == TypeOK /\ SendInv /\ [Next]_vars => SendInv'
<1> SUFFICES ASSUME TypeOK /\ SendInv, [Next]_vars
             PROVE  SendInv'
  OBVIOUS
<1> USE PendingCallsAssumption DEF TypeOK, PcOK, ConnOK, CallOK, SendInv, GoTo, AfterLost,
     Conns, NoConn, Losers, Threads, shared, callVars
<1>1. ASSUME NEW c \in Calls,
             \/ CallRefused(c) \/ CallStarts(c) \/ CallRequires(c) \/ CallSeesLive(c)
             \/ CallTakesSession(c)
             \/ Register(c) \/ Send(c)
             \/ SendFails(c) \/ Withdraw(c) \/ WaitTimesOut(c) \/ WaitEnds(c) \/ Touch(c)
             \/ Take(c)
      PROVE  SendInv'
  BY <1>1 DEF CallRefused, CallStarts, CallRequires, CallSeesLive, CallTakesSession, Register,
       Send, SendFails, Withdraw, WaitTimesOut, WaitEnds, Touch, Take
<1>2. ASSUME NEW c \in Calls, ReadSocket(c)
      PROVE  SendInv'
  BY <1>2 DEF ReadSocket
<1>3. ASSUME NEW w \in Watchers, Notices(w) \/ PingFails(w)
      PROVE  SendInv'
  BY <1>3 DEF Notices, PingFails
<1>4. ASSUME NEW t \in Losers, LostStep(t)
      PROVE  SendInv'
  BY <1>4 DEF LostStep, LinkLost, Degrade, Mark, Name, ReadName, LostRaises, Leaves
<1>5. ASSUME NEW t \in Threads,
             \/ ListPending(t) \/ FailSlot(t) \/ AllFailed(t) \/ ClearPending(t)
      PROVE  SendInv'
  BY <1>5 DEF ListPending, FailSlot, AllFailed, ClearPending, CleansUp, Leaves
<1>6. CASE CloseBegins \/ CloseDropsSocket \/ CloseRetires \/ CloseForgets \/ CloseSetsLink
  BY <1>6 DEF CloseBegins, CloseDropsSocket, CloseRetires, CloseForgets, CloseSetsLink
<1>7. CASE \/ LoopStops \/ LoopRetries \/ ConnLock \/ ConnRefused \/ ConnOpen \/ Hello
           \/ HelloFails \/ HelloReads \/ HandshakeDone \/ HandshakeFails \/ RetireOld
           \/ OpenSession \/ LinkUp \/ ConnFail
  BY <1>7 DEF LoopStops, LoopRetries, ConnLock, ConnRefused, ConnOpen, Hello, HelloFails,
       HelloReads, HandshakeDone, HandshakeFails, RetireOld, OpenSession, LinkUp, ConnFail
<1>8. ASSUME NEW k \in Conns,
             \/ PeerCloses(k) \/ Serve(k) \/ PopSlot(k) \/ FillSlot(k) \/ SetEvent(k)
      PROVE  SendInv'
  BY <1>8 DEF PeerCloses, Serve, PopSlot, FillSlot, SetEvent
<1>9. CASE UNCHANGED vars
  BY <1>9 DEF vars
<1>10. QED
  BY <1>1, <1>2, <1>3, <1>4, <1>5, <1>6, <1>7, <1>8, <1>9 DEF Next, CallStep, LostStep,
       FailStep, CloseStep, ReconnectStep, ReaderStep

\* Nobody learns of a call before it registers.
LEMMA EarlyStep == IInv /\ [Next]_vars => EarlyInv'
<1> SUFFICES ASSUME IInv, [Next]_vars
             PROVE  EarlyInv'
  OBVIOUS
<1> USE PendingCallsAssumption, PoppedCall DEF IInv, SendInv, TypeOK, PcOK, SlotOK, GoTo,
     AfterLost, Losers, Threads, EarlyInv, shared, slotVars, netVars
<1>1. ASSUME NEW c \in Calls,
             \/ CallRefused(c) \/ CallStarts(c) \/ ReadSocket(c) \/ SendFails(c)
             \/ Withdraw(c) \/ WaitTimesOut(c) \/ WaitEnds(c) \/ Touch(c) \/ Take(c)
      PROVE  EarlyInv'
  BY <1>1 DEF CallRefused, CallStarts, ReadSocket, SendFails, Withdraw, WaitTimesOut, WaitEnds,
       Touch, Take
<1>2. ASSUME NEW c \in Calls,
             CallRequires(c) \/ CallSeesLive(c) \/ CallTakesSession(c)
      PROVE  EarlyInv'
  BY <1>2 DEF CallRequires, CallSeesLive, CallTakesSession
<1>3. ASSUME NEW c \in Calls, Register(c)
      PROVE  EarlyInv'
  BY <1>3 DEF Register
<1>4. ASSUME NEW c \in Calls, Send(c)
      PROVE  EarlyInv'
  BY <1>4 DEF Send
<1>5. ASSUME NEW w \in Watchers, Notices(w) \/ PingFails(w)
      PROVE  EarlyInv'
  BY <1>5 DEF Notices, PingFails
<1>6. ASSUME NEW t \in Losers,
             LinkLost(t) \/ Degrade(t) \/ Name(t) \/ ReadName(t) \/ LostRaises(t)
      PROVE  EarlyInv'
  BY <1>6 DEF LinkLost, Degrade, Name, ReadName, LostRaises, Leaves
<1>7. ASSUME NEW t \in Losers, Mark(t)
      PROVE  EarlyInv'
  BY <1>7 DEF Mark
<1>8. ASSUME NEW t \in Threads, AllFailed(t)
      PROVE  EarlyInv'
  BY <1>8 DEF AllFailed
<1>9. ASSUME NEW t \in Threads, ListPending(t)
      PROVE  EarlyInv'
  BY <1>9 DEF ListPending
<1>10. ASSUME NEW t \in Threads, FailSlot(t)
      PROVE  EarlyInv'
  BY <1>10 DEF FailSlot
<1>11. ASSUME NEW t \in Threads, ClearPending(t)
      PROVE  EarlyInv'
  BY <1>11 DEF ClearPending, CleansUp, Leaves
<1>12. CASE CloseBegins \/ CloseDropsSocket \/ CloseRetires \/ CloseForgets \/ CloseSetsLink
  BY <1>12 DEF CloseBegins, CloseDropsSocket, CloseRetires, CloseForgets, CloseSetsLink
<1>13. CASE \/ LoopStops \/ LoopRetries \/ ConnLock \/ ConnRefused \/ ConnOpen \/ Hello
            \/ HelloFails \/ HelloReads \/ HandshakeDone \/ HandshakeFails \/ RetireOld
            \/ OpenSession \/ LinkUp \/ ConnFail
  BY <1>13 DEF LoopStops, LoopRetries, ConnLock, ConnRefused, ConnOpen, Hello, HelloFails,
       HelloReads, HandshakeDone, HandshakeFails, RetireOld, OpenSession, LinkUp, ConnFail
<1>14. ASSUME NEW k \in Conns, PeerCloses(k)
      PROVE  EarlyInv'
  BY <1>14 DEF PeerCloses
<1>15. ASSUME NEW k \in Conns, Serve(k)
      PROVE  EarlyInv'
  BY <1>15 DEF Serve
<1>16. ASSUME NEW k \in Conns, PopSlot(k)
      PROVE  EarlyInv'
  BY <1>16 DEF PopSlot
<1>17. ASSUME NEW k \in Conns, FillSlot(k)
      PROVE  EarlyInv'
  BY <1>17 DEF FillSlot
<1>18. ASSUME NEW k \in Conns, SetEvent(k)
      PROVE  EarlyInv'
  BY <1>18 DEF SetEvent
<1>19. CASE UNCHANGED vars
  BY <1>19 DEF vars
<1>20. QED
  BY <1>1, <1>2, <1>3, <1>4, <1>5, <1>6, <1>7, <1>8, <1>9, <1>10, <1>11, <1>12, <1>13, <1>14,
       <1>15, <1>16, <1>17, <1>18, <1>19 DEF Next, CallStep, LostStep, FailStep, CloseStep,
       ReconnectStep, ReaderStep

\* Slots are filled before they are woken, and stay filled.
LEMMA FilledStep == IInv /\ [Next]_vars => FilledInv'
<1> SUFFICES ASSUME IInv, [Next]_vars
             PROVE  FilledInv'
  OBVIOUS
<1> USE DEF IInv, TypeOK, PcOK, SlotOK, CallOK, NetOK, Answer, NoAnswer, Conns, NoConn, GoTo,
     AfterLost, Ends, Losers, Threads, FilledInv, shared, slotVars, callVars, netVars
<1>1. ASSUME NEW c \in Calls,
             \/ CallStarts(c) \/ Register(c) \/ Send(c) \/ Withdraw(c)
      PROVE  FilledInv'
  BY <1>1 DEF CallStarts, Register, Send, Withdraw
<1>2. ASSUME NEW c \in Calls, CallRefused(c)
      PROVE  FilledInv'
  BY <1>2 DEF CallRefused
<1>3. ASSUME NEW c \in Calls,
             CallRequires(c) \/ CallSeesLive(c) \/ CallTakesSession(c)
      PROVE  FilledInv'
  BY <1>3 DEF CallRequires, CallSeesLive, CallTakesSession
<1>4. ASSUME NEW c \in Calls, ReadSocket(c)
      PROVE  FilledInv'
  BY <1>4 DEF ReadSocket
<1>5. ASSUME NEW c \in Calls, SendFails(c)
      PROVE  FilledInv'
  BY <1>5 DEF SendFails
<1>6. ASSUME NEW c \in Calls, WaitTimesOut(c)
      PROVE  FilledInv'
  BY <1>6 DEF WaitTimesOut
<1>7. ASSUME NEW c \in Calls, WaitEnds(c) \/ Touch(c)
      PROVE  FilledInv'
  BY <1>7 DEF WaitEnds, Touch
<1>8. ASSUME NEW c \in Calls, Take(c)
      PROVE  FilledInv'
  BY <1>8 DEF Take
<1>9. ASSUME NEW w \in Watchers, Notices(w) \/ PingFails(w)
      PROVE  FilledInv'
  BY <1>9 DEF Notices, PingFails
<1>10. ASSUME NEW t \in Losers, LostStep(t)
      PROVE  FilledInv'
  BY <1>10 DEF LostStep, LinkLost, Degrade, Mark, Name, ReadName, LostRaises, Leaves
<1>11. ASSUME NEW t \in Threads,
             \/ ListPending(t) \/ AllFailed(t) \/ ClearPending(t)
      PROVE  FilledInv'
  BY <1>11 DEF ListPending, AllFailed, ClearPending, CleansUp, Leaves
<1>12. ASSUME NEW t \in Threads, FailSlot(t)
      PROVE  FilledInv'
  BY <1>12 DEF FailSlot
<1>13. CASE CloseBegins \/ CloseDropsSocket \/ CloseRetires \/ CloseForgets \/ CloseSetsLink
  BY <1>13 DEF CloseBegins, CloseDropsSocket, CloseRetires, CloseForgets, CloseSetsLink
<1>14. CASE \/ LoopStops \/ LoopRetries \/ ConnLock \/ ConnRefused \/ ConnOpen \/ Hello
            \/ HelloFails \/ HelloReads \/ HandshakeDone \/ HandshakeFails \/ RetireOld
            \/ OpenSession \/ LinkUp \/ ConnFail
  BY <1>14 DEF LoopStops, LoopRetries, ConnLock, ConnRefused, ConnOpen, Hello, HelloFails,
       HelloReads, HandshakeDone, HandshakeFails, RetireOld, OpenSession, LinkUp, ConnFail
<1>15. ASSUME NEW k \in Conns, PeerCloses(k) \/ Serve(k)
      PROVE  FilledInv'
  BY <1>15 DEF PeerCloses, Serve
<1>16. ASSUME NEW k \in Conns, PopSlot(k)
      PROVE  FilledInv'
  BY <1>16 DEF PopSlot
<1>17. ASSUME NEW k \in Conns, FillSlot(k)
      PROVE  FilledInv'
  <2>1. popped[k] \in Answer /\ popped[k].call \in Calls /\ k # NoConn
    BY <1>17 DEF FillSlot
  <2>2. /\ error \subseteq error'
        /\ \A c \in Calls : response[c] # NoConn => response'[c] # NoConn
        /\ popped[k].call \in error' \/ response'[popped[k].call] # NoConn
    BY <1>17, <2>1 DEF FillSlot
  <2>3. UNCHANGED <<pc, event, popped, outcome>> /\ filled' = filled \cup {k}
    BY <1>17 DEF FillSlot
  <2>4. \A j \in filled : popped[j].call \in Calls
    OBVIOUS
  <2>5. QED
    BY <2>1, <2>2, <2>3, <2>4
<1>18. ASSUME NEW k \in Conns, SetEvent(k)
      PROVE  FilledInv'
  BY <1>18 DEF SetEvent
<1>19. CASE UNCHANGED vars
  BY <1>19 DEF vars
<1>20. QED
  BY <1>1, <1>2, <1>3, <1>4, <1>5, <1>6, <1>7, <1>8, <1>9, <1>10, <1>11, <1>12, <1>13, <1>14,
       <1>15, <1>16, <1>17, <1>18, <1>19 DEF Next, CallStep, LostStep, FailStep, CloseStep,
       ReconnectStep, ReaderStep

\* A woken slot leaves the table with its call or with the next clear().
LEMMA TableStep == IInv /\ [Next]_vars => TableInv'
<1> SUFFICES ASSUME IInv, [Next]_vars
             PROVE  TableInv'
  OBVIOUS
<1> USE PendingCallsAssumption DEF IInv, TypeOK, PcOK, SlotOK, EarlyInv, FilledInv, TableInv,
     Losers, Threads, SomebodyFails, GoTo, AfterLost, NoAnswer, shared, slotVars, netVars
<1>1. ASSUME NEW c \in Calls, CallRefused(c)
      PROVE  TableInv'
  <2>1. SomebodyFails => SomebodyFails'
    BY <1>1, FailingStays DEF CallRefused
  <2>2. QED
    BY <1>1, <2>1 DEF CallRefused
<1>2. ASSUME NEW c \in Calls, CallStarts(c)
      PROVE  TableInv'
  <2>1. SomebodyFails => SomebodyFails'
    BY <1>2, FailingStays DEF CallStarts
  <2>2. QED
    BY <1>2, <2>1 DEF CallStarts
<1>3. ASSUME NEW c \in Calls,
             CallRequires(c) \/ CallSeesLive(c) \/ CallTakesSession(c)
      PROVE  TableInv'
  <2>1. SomebodyFails => SomebodyFails'
    BY <1>3, FailingStays DEF CallRequires, CallSeesLive, CallTakesSession
  <2>2. QED
    BY <1>3, <2>1 DEF CallRequires, CallSeesLive, CallTakesSession
<1>4. ASSUME NEW c \in Calls, Register(c)
      PROVE  TableInv'
  <2>1. SomebodyFails => SomebodyFails'
    BY <1>4, FailingStays DEF Register
  <2>2. QED
    BY <1>4, <2>1 DEF Register
<1>5. ASSUME NEW c \in Calls, ReadSocket(c)
      PROVE  TableInv'
  <2>1. SomebodyFails => SomebodyFails'
    BY <1>5, FailingStays DEF ReadSocket
  <2>2. QED
    BY <1>5, <2>1 DEF ReadSocket
<1>6. ASSUME NEW c \in Calls, Send(c)
      PROVE  TableInv'
  <2>1. SomebodyFails => SomebodyFails'
    BY <1>6, FailingStays DEF Send
  <2>2. QED
    BY <1>6, <2>1 DEF Send
<1>7. ASSUME NEW c \in Calls, SendFails(c)
      PROVE  TableInv'
  <2>1. SomebodyFails => SomebodyFails'
    BY <1>7, FailingStays DEF SendFails
  <2>2. QED
    BY <1>7, <2>1 DEF SendFails
<1>8. ASSUME NEW c \in Calls, Withdraw(c)
      PROVE  TableInv'
  <2>1. SomebodyFails => SomebodyFails'
    BY <1>8, FailingStays DEF Withdraw
  <2>2. QED
    BY <1>8, <2>1 DEF Withdraw
<1>9. ASSUME NEW c \in Calls, WaitTimesOut(c)
      PROVE  TableInv'
  <2>1. SomebodyFails => SomebodyFails'
    BY <1>9, FailingStays DEF WaitTimesOut
  <2>2. QED
    BY <1>9, <2>1 DEF WaitTimesOut
<1>10. ASSUME NEW c \in Calls, WaitEnds(c) \/ Touch(c)
      PROVE  TableInv'
  <2>1. SomebodyFails => SomebodyFails'
    BY <1>10, FailingStays DEF WaitEnds, Touch
  <2>2. QED
    BY <1>10, <2>1 DEF WaitEnds, Touch
<1>11. ASSUME NEW c \in Calls, Take(c)
      PROVE  TableInv'
  <2>1. SomebodyFails => SomebodyFails'
    BY <1>11, FailingStays DEF Take
  <2>2. QED
    BY <1>11, <2>1 DEF Take
<1>12. ASSUME NEW w \in Watchers, Notices(w) \/ PingFails(w)
      PROVE  TableInv'
  <2>1. SomebodyFails => SomebodyFails'
    BY <1>12, FailingStays DEF Notices, PingFails
  <2>2. QED
    BY <1>12, <2>1 DEF Notices, PingFails
<1>13. ASSUME NEW t \in Losers,
             LinkLost(t) \/ Degrade(t) \/ Name(t) \/ ReadName(t) \/ LostRaises(t)
      PROVE  TableInv'
  <2>1. SomebodyFails => SomebodyFails'
    BY <1>13, FailingStays DEF LinkLost, Degrade, Name, ReadName, LostRaises, Leaves
  <2>2. QED
    BY <1>13, <2>1 DEF LinkLost, Degrade, Name, ReadName, LostRaises, Leaves
<1>14. ASSUME NEW t \in Losers, Mark(t)
      PROVE  TableInv'
  <2>1. SomebodyFails => SomebodyFails'
    BY <1>14, FailingStays DEF Mark
  <2>2. QED
    BY <1>14, <2>1 DEF Mark
<1>15. ASSUME NEW t \in Threads, ListPending(t)
      PROVE  TableInv'
  <2>1. SomebodyFails => SomebodyFails'
    BY <1>15, FailingStays DEF ListPending
  <2>2. QED
    BY <1>15, <2>1 DEF ListPending
<1>16. ASSUME NEW t \in Threads, FailSlot(t)
      PROVE  TableInv'
  BY <1>16 DEF FailSlot
<1>17. ASSUME NEW t \in Threads, AllFailed(t)
      PROVE  TableInv'
  <2>1. SomebodyFails => SomebodyFails'
    BY <1>17, FailingStays DEF AllFailed
  <2>2. QED
    BY <1>17, <2>1 DEF AllFailed
<1>18. ASSUME NEW t \in Threads, ClearPending(t)
      PROVE  TableInv'
  BY <1>18 DEF ClearPending, CleansUp, Leaves
<1>19. CASE CloseBegins
  <2>1. SomebodyFails => SomebodyFails'
    BY <1>19, FailingStays DEF CloseBegins
  <2>2. QED
    BY <1>19, <2>1 DEF CloseBegins
<1>20. CASE CloseDropsSocket
  <2>1. SomebodyFails => SomebodyFails'
    BY <1>20, FailingStays DEF CloseDropsSocket
  <2>2. QED
    BY <1>20, <2>1 DEF CloseDropsSocket
<1>21. CASE CloseRetires
  <2>1. SomebodyFails => SomebodyFails'
    BY <1>21, FailingStays DEF CloseRetires
  <2>2. QED
    BY <1>21, <2>1 DEF CloseRetires
<1>22. CASE CloseForgets
  <2>1. SomebodyFails => SomebodyFails'
    BY <1>22, FailingStays DEF CloseForgets
  <2>2. QED
    BY <1>22, <2>1 DEF CloseForgets
<1>23. CASE CloseSetsLink
  <2>1. SomebodyFails => SomebodyFails'
    BY <1>23, FailingStays DEF CloseSetsLink
  <2>2. QED
    BY <1>23, <2>1 DEF CloseSetsLink
<1>24. CASE \/ LoopStops \/ LoopRetries \/ ConnLock \/ ConnRefused \/ ConnOpen \/ Hello
            \/ HelloFails \/ HelloReads \/ HandshakeDone \/ HandshakeFails \/ RetireOld
            \/ OpenSession \/ LinkUp \/ ConnFail
  BY <1>24 DEF LoopStops, LoopRetries, ConnLock, ConnRefused, ConnOpen, Hello, HelloFails,
       HelloReads, HandshakeDone, HandshakeFails, RetireOld, OpenSession, LinkUp, ConnFail
<1>25. ASSUME NEW k \in Conns, PeerCloses(k) \/ Serve(k)
      PROVE  TableInv'
  BY <1>25 DEF PeerCloses, Serve
<1>26. ASSUME NEW k \in Conns, PopSlot(k)
      PROVE  TableInv'
  <2>1. SomebodyFails => SomebodyFails'
    BY <1>26 DEF PopSlot
  <2>2. QED
    BY <1>26, <2>1 DEF PopSlot
<1>27. ASSUME NEW k \in Conns, FillSlot(k)
      PROVE  TableInv'
  <2>1. SomebodyFails => SomebodyFails'
    BY <1>27 DEF FillSlot
  <2>2. QED
    BY <1>27, <2>1 DEF FillSlot
<1>28. ASSUME NEW k \in Conns, SetEvent(k)
      PROVE  TableInv'
  <2>1. SomebodyFails => SomebodyFails'
    BY <1>28 DEF SetEvent
  <2>2. QED
    BY <1>28, <2>1 DEF SetEvent
<1>29. CASE UNCHANGED vars
  BY <1>29 DEF vars
<1>30. QED
  BY <1>1, <1>2, <1>3, <1>4, <1>5, <1>6, <1>7, <1>8, <1>9, <1>10, <1>11, <1>12, <1>13, <1>14,
       <1>15, <1>16, <1>17, <1>18, <1>19, <1>20, <1>21, <1>22, <1>23, <1>24, <1>25, <1>26,
       <1>27, <1>28, <1>29 DEF Next, CallStep, LostStep, FailStep, CloseStep, ReconnectStep,
       ReaderStep

\* Answers keep to the session that was checked.
LEMMA OwnStep == IInv /\ [Next]_vars => OwnInv'
<1> SUFFICES ASSUME IInv, [Next]_vars
             PROVE  OwnInv'
  OBVIOUS
<1> USE PoppedCall DEF IInv, TypeOK, SlotOK, CallOK, NoAnswer, EarlyInv, OwnInv, shared,
     slotVars, callVars, netVars
<1>1. ASSUME NEW c \in Calls,
             \/ CallRefused(c) \/ CallStarts(c) \/ CallRequires(c) \/ CallSeesLive(c)
             \/ Register(c) \/ ReadSocket(c) \/ Send(c)
             \/ SendFails(c) \/ Withdraw(c) \/ WaitTimesOut(c) \/ WaitEnds(c) \/ Touch(c)
             \/ Take(c)
      PROVE  OwnInv'
  BY <1>1 DEF CallRefused, CallStarts, CallRequires, CallSeesLive, Register, ReadSocket, Send,
       SendFails, Withdraw, WaitTimesOut, WaitEnds, Touch, Take
<1>2. ASSUME NEW c \in Calls, CallTakesSession(c)
      PROVE  OwnInv'
  <2>1. \A d \in Calls : d # c => sess'[d] = sess[d]
    BY <1>2 DEF CallTakesSession
  <2>2. /\ response[c] = NoConn
        /\ \A k \in Conns : popped[k].call # c
        /\ \A a \in answers : a.call # c
    BY <1>2 DEF CallTakesSession
  <2>3. UNCHANGED <<answers, popped, response>>
    BY <1>2 DEF CallTakesSession
  <2>4. \A a \in answers : sess'[a.call] = sess[a.call]
    BY <2>1, <2>2 DEF NetOK, Answer
  <2>5. \A k \in Conns : popped[k] \in Answer => sess'[popped[k].call] = sess[popped[k].call]
    BY <2>1, <2>2 DEF Answer
  <2>6. \A d \in Calls : response[d] # NoConn => sess'[d] = sess[d]
    BY <2>1, <2>2
  <2>7. QED
    BY <2>3, <2>4, <2>5, <2>6
<1>3. ASSUME NEW w \in Watchers, Notices(w) \/ PingFails(w)
      PROVE  OwnInv'
  BY <1>3 DEF Notices, PingFails
<1>4. ASSUME NEW t \in Losers, LostStep(t)
      PROVE  OwnInv'
  BY <1>4 DEF LostStep, LinkLost, Degrade, Mark, Name, ReadName, LostRaises, Leaves
<1>5. ASSUME NEW t \in Threads,
             \/ ListPending(t) \/ FailSlot(t) \/ AllFailed(t) \/ ClearPending(t)
      PROVE  OwnInv'
  BY <1>5 DEF ListPending, FailSlot, AllFailed, ClearPending, CleansUp, Leaves
<1>6. CASE CloseBegins \/ CloseDropsSocket \/ CloseRetires \/ CloseForgets \/ CloseSetsLink
  BY <1>6 DEF CloseBegins, CloseDropsSocket, CloseRetires, CloseForgets, CloseSetsLink
<1>7. CASE \/ LoopStops \/ LoopRetries \/ ConnLock \/ ConnRefused \/ ConnOpen \/ Hello
           \/ HelloFails \/ HelloReads \/ HandshakeDone \/ HandshakeFails \/ RetireOld
           \/ OpenSession \/ LinkUp \/ ConnFail
  BY <1>7 DEF LoopStops, LoopRetries, ConnLock, ConnRefused, ConnOpen, Hello, HelloFails,
       HelloReads, HandshakeDone, HandshakeFails, RetireOld, OpenSession, LinkUp, ConnFail
<1>8. ASSUME NEW k \in Conns, PeerCloses(k)
      PROVE  OwnInv'
  BY <1>8 DEF PeerCloses
<1>9. ASSUME NEW k \in Conns, Serve(k)
      PROVE  OwnInv'
  <2>1. PICK r \in wire : answers' = answers \cup {[call |-> r.call, conn |-> k,
                                  ok |-> ChecksSession => sess[r.call] = k]}
    BY <1>9 DEF Serve
  <2>2. UNCHANGED <<sess, popped, response>>
    BY <1>9 DEF Serve
  <2>3. ASSUME ChecksSession, NEW a \in answers', a.ok
        PROVE  a.conn = sess[a.call]
    <3>1. CASE a \in answers
      BY <2>3, <3>1
    <3>2. CASE a = [call |-> r.call, conn |-> k, ok |-> ChecksSession => sess[r.call] = k]
      <4>1. a.ok = (ChecksSession => sess[r.call] = k)
        BY <3>2
      <4>2. sess[r.call] = k
        BY <2>3, <4>1
      <4>3. QED
        BY <3>2, <4>2
    <3>3. QED
      BY <2>1, <2>3, <3>1, <3>2
  <2>4. QED
    BY <2>2, <2>3
<1>10. ASSUME NEW k \in Conns, PopSlot(k)
      PROVE  OwnInv'
  BY <1>10 DEF PopSlot
<1>11. ASSUME NEW k \in Conns, FillSlot(k)
      PROVE  OwnInv'
  <2>1. popped[k] \in Answer /\ popped[k].call \in Calls
    BY <1>11 DEF FillSlot
  <2>2. CASE popped[k].ok
    <3>1. response' = [response EXCEPT ![popped[k].call] = k]
      BY <1>11, <2>2 DEF FillSlot
    <3>2. \A c \in Calls : response'[c] = IF c = popped[k].call THEN k ELSE response[c]
      BY <3>1
    <3>3. UNCHANGED <<sess, answers, popped>>
      BY <1>11 DEF FillSlot
    <3>4. ChecksSession => k = sess[popped[k].call]
      BY <2>1, <2>2
    <3>5. QED
      BY <3>2, <3>3, <3>4
  <2>3. CASE ~popped[k].ok
    BY <1>11, <2>3 DEF FillSlot
  <2>4. QED
    BY <2>2, <2>3
<1>12. ASSUME NEW k \in Conns, SetEvent(k)
      PROVE  OwnInv'
  BY <1>12 DEF SetEvent
<1>13. CASE UNCHANGED vars
  BY <1>13 DEF vars
<1>14. QED
  BY <1>1, <1>2, <1>3, <1>4, <1>5, <1>6, <1>7, <1>8, <1>9, <1>10, <1>11, <1>12, <1>13 DEF Next,
       CallStep, LostStep, FailStep, CloseStep, ReconnectStep, ReaderStep

-----------------------------------------------------------------------------
LEMMA TypeInit == Init => TypeOK
<1> SUFFICES ASSUME Init
             PROVE  TypeOK
  OBVIOUS
<1>1. PcOK
  BY DEF Init, PcOK, Labels
<1>2. FlagOK
  BY DEF Init, FlagOK
<1>3. ConnOK /\ SlotOK /\ CallOK
  BY PendingCallsAssumption DEF Init, ConnOK, SlotOK, CallOK, Conns, NoConn, Outcomes
<1>4. NetOK
  BY DEF Init, NetOK
<1>5. QED
  BY <1>1, <1>2, <1>3, <1>4 DEF TypeOK

LEMMA InvInit == Init => IInv
<1> SUFFICES ASSUME Init
             PROVE  IInv
  OBVIOUS
<1>1. TypeOK
  BY TypeInit
<1>2. SendInv
  BY DEF Init, SendInv, Threads, Losers
<1>3. EarlyInv
  BY PendingCallsAssumption DEF Init, EarlyInv, NoAnswer, Threads, Losers
<1>4. FilledInv
  BY DEF Init, FilledInv, Threads, Losers
<1>5. TableInv
  BY DEF Init, TableInv
<1>6. OwnInv
  <2>1. NoAnswer \notin Answer
    BY PendingCallsAssumption DEF Answer, NoAnswer, Threads, Losers
  <2>2. QED
    BY <2>1 DEF Init, OwnInv
<1>7. QED
  BY <1>1, <1>2, <1>3, <1>4, <1>5, <1>6 DEF IInv

LEMMA InvStep == IInv /\ [Next]_vars => IInv'
<1> SUFFICES ASSUME IInv, [Next]_vars
             PROVE  IInv'
  OBVIOUS
<1>1. TypeOK'
  BY PcStep, FlagStep, ConnStep, SlotStep, CallStepOK, NetStep DEF IInv, TypeOK
<1>2. QED
  BY <1>1, SendStep, EarlyStep, FilledStep, TableStep, OwnStep DEF IInv

-----------------------------------------------------------------------------
\* The strengthening is an invariant of every behaviour of the calls, the
\* threads that fail them, close(), the reconnect and the server.
THEOREM Invariance == Spec => []IInv
  BY InvInit, InvStep, PTL DEF Spec

\* The variables keep their types: in particular a slot's response is a
\* connection that existed, and only registered calls are in the table.
THEOREM TypeCorrect == Spec => []TypeOK
<1>1. IInv => TypeOK
  BY DEF IInv
<1>2. QED
  BY Invariance, <1>1, PTL

\* The assertion of call() (client.py:363) never fires: whichever thread woke
\* the caller - the reader, one that lost the link, close() - had filled the
\* slot before.
THEOREM WokenTheorem == Spec => []WokenHasAnswer
<1>1. IInv => WokenHasAnswer
  BY DEF IInv, FilledInv, WokenHasAnswer
<1>2. QED
  BY Invariance, <1>1, PTL

\* _pending does not grow with the calls made: a slot outlives its call only
\* until the thread that is failing all slots has cleared the table.
THEOREM SlotsTheorem == Spec => []NoSlotLeaks
<1>1. IInv => NoSlotLeaks
  BY DEF IInv, TableInv, SomebodyFails, NoSlotLeaks
<1>2. QED
  BY Invariance, <1>1, PTL

\* With a server that checks session_id, as the mock does, a call returns data
\* of the session it was made in, although its request may have left on the
\* connection that replaced it.
THEOREM OwnTheorem == ChecksSession => (Spec => []AnswerOfOwnSession)
<1> SUFFICES ASSUME ChecksSession
             PROVE  Spec => []AnswerOfOwnSession
  OBVIOUS
<1>1. IInv => AnswerOfOwnSession
  BY DEF IInv, FilledInv, OwnInv, AnswerOfOwnSession
<1>2. QED
  BY Invariance, <1>1, PTL

\* Neither lock has a timeout, so locks taken crosswise stay so: no later call,
\* no thread that finds the link lost, not even close() makes them go on.
THEOREM CrossedForGood == Spec => [][Crossed => Crossed']_vars
<1>1. ASSUME TypeOK, Crossed, [Next]_vars
      PROVE  Crossed'
  <2>1. PICK t \in Losers : pc[t] = "lost" /\ sendLock = t
    BY <1>1 DEF Crossed
  <2>2. /\ pc[Loop] = "c_send" /\ stateLock = Loop
        /\ t # Loop /\ t # Closer /\ t # Nobody /\ Loop # Nobody /\ Loop # Closer
    BY <1>1, <2>1, PendingCallsAssumption DEF Crossed, Threads, Losers
  <2> DEFINE Stuck == /\ pc'[Loop] = "c_send" /\ pc'[t] = "lost"
                      /\ stateLock' = Loop /\ sendLock' = t
  <2> SUFFICES Stuck
    BY <2>1 DEF Crossed
  <2> USE <2>1, <2>2, PendingCallsAssumption DEF TypeOK, PcOK, GoTo, Leaves, shared, locks
  <2>3. ASSUME NEW c \in Calls, CallStep(c)
        PROVE  Stuck
    BY <1>1, <2>3 DEF CallStep, CallRefused, CallStarts, CallRequires, CallSeesLive,
       CallTakesSession, Register, ReadSocket, Send, SendFails, Withdraw, WaitTimesOut,
       WaitEnds, Touch, Take, Threads, Losers
  <2>4. ASSUME NEW w \in Watchers, Notices(w) \/ PingFails(w)
        PROVE  Stuck
    BY <1>1, <2>4 DEF Notices, PingFails, Threads, Losers
  <2>5. ASSUME NEW u \in Losers, LostStep(u)
        PROVE  Stuck
    BY <1>1, <2>5 DEF LostStep, LinkLost, Degrade, Mark, Name, ReadName, LostRaises, Threads,
       Losers
  <2>6. ASSUME NEW u \in Threads, FailStep(u)
        PROVE  Stuck
    BY <1>1, <2>6 DEF FailStep, ListPending, FailSlot, AllFailed, ClearPending, CleansUp,
       Threads, Losers
  <2>7. CASE CloseStep
    BY <1>1, <2>7 DEF CloseStep, CloseBegins, CloseDropsSocket, CloseRetires, CloseForgets,
       CloseSetsLink, Threads, Losers
  <2>8. CASE ReconnectStep
    BY <1>1, <2>8 DEF ReconnectStep, LoopStops, LoopRetries, ConnLock, ConnRefused, ConnOpen,
       HelloReads, Hello, HelloFails, HandshakeDone, HandshakeFails, RetireOld, OpenSession,
       LinkUp, ConnFail
  <2>9. ASSUME NEW k \in Conns, PeerCloses(k) \/ Serve(k) \/ ReaderStep(k)
        PROVE  Stuck
    BY <1>1, <2>9 DEF PeerCloses, Serve, ReaderStep, PopSlot, FillSlot, SetEvent
  <2>10. CASE UNCHANGED vars
    BY <1>1, <2>10 DEF vars
  <2>11. QED
    BY <1>1, <2>3, <2>4, <2>5, <2>6, <2>7, <2>8, <2>9, <2>10 DEF Next
<1>2. TypeOK /\ [Next]_vars => [Crossed => Crossed']_vars
  BY <1>1
<1>3. QED
  BY TypeCorrect, <1>2, PTL DEF Spec

-----------------------------------------------------------------------------
(* PendingCalls implements CallPromise                                     *)

LEMMA StageInit == Init => StageInv
  BY DEF Init, StageInv, Failing, Threads, Losers

\* A call goes through its stages in order.
LEMMA StageStep == TypeOK /\ StageInv /\ [Next]_vars => StageInv'
<1> SUFFICES ASSUME TypeOK, StageInv, [Next]_vars
             PROVE  StageInv'
  OBVIOUS
<1> Calls \subseteq Threads /\ Closer \notin Calls /\ Loop \notin Calls /\ Loop \in Threads
  BY PendingCallsAssumption DEF Threads, Losers
<1> USE DEF TypeOK, PcOK, CallOK, StageInv, GoTo, Ends, Failing, shared, callVars
<1>1. ASSUME NEW c \in Calls,
             \/ CallRefused(c) \/ CallStarts(c) \/ CallRequires(c) \/ CallSeesLive(c)
             \/ Register(c) \/ ReadSocket(c) \/ Send(c)
             \/ SendFails(c) \/ Withdraw(c) \/ WaitTimesOut(c) \/ WaitEnds(c) \/ Touch(c)
             \/ Take(c)
      PROVE  StageInv'
  BY <1>1 DEF CallRefused, CallStarts, CallRequires, CallSeesLive, Register, ReadSocket, Send,
       SendFails, Withdraw, WaitTimesOut, WaitEnds, Touch, Take
<1>2. ASSUME NEW c \in Calls, CallTakesSession(c)
      PROVE  StageInv'
  <2>1. session \in 0 .. MaxConn
    BY PendingCallsAssumption DEF ConnOK, Conns
  <2>2. session \in Conns \/ session = NoConn
    BY <2>1, PendingCallsAssumption DEF Conns, NoConn
  <2>3. QED
    BY <1>2, <2>2 DEF CallTakesSession
<1>3. ASSUME NEW w \in Watchers, Notices(w) \/ PingFails(w)
      PROVE  StageInv'
  BY <1>3, PendingCallsAssumption DEF Notices, PingFails
<1>4. ASSUME NEW t \in Losers, LostStep(t)
      PROVE  StageInv'
  BY <1>4 DEF LostStep, LinkLost, Degrade, Mark, Name, ReadName, LostRaises, Leaves, AfterLost
<1>5. ASSUME NEW t \in Threads,
             \/ ListPending(t) \/ FailSlot(t) \/ AllFailed(t) \/ ClearPending(t)
      PROVE  StageInv'
  BY <1>5 DEF ListPending, FailSlot, AllFailed, ClearPending, CleansUp, Leaves, AfterLost
<1>6. CASE CloseBegins \/ CloseDropsSocket \/ CloseRetires \/ CloseForgets \/ CloseSetsLink
  BY <1>6 DEF CloseBegins, CloseDropsSocket, CloseRetires, CloseForgets, CloseSetsLink
<1>7. CASE \/ LoopStops \/ LoopRetries \/ ConnLock \/ ConnRefused \/ ConnOpen \/ Hello
           \/ HelloFails \/ HelloReads \/ HandshakeDone \/ HandshakeFails \/ RetireOld
           \/ OpenSession \/ LinkUp \/ ConnFail
  BY <1>7 DEF LoopStops, LoopRetries, ConnLock, ConnRefused, ConnOpen, Hello, HelloFails,
       HelloReads, HandshakeDone, HandshakeFails, RetireOld, OpenSession, LinkUp, ConnFail
<1>8. ASSUME NEW k \in Conns,
             \/ PeerCloses(k) \/ Serve(k) \/ PopSlot(k) \/ FillSlot(k) \/ SetEvent(k)
      PROVE  StageInv'
  BY <1>8 DEF PeerCloses, Serve, PopSlot, FillSlot, SetEvent
<1>9. CASE UNCHANGED vars
  BY <1>9 DEF vars
<1>10. QED
  BY <1>1, <1>2, <1>3, <1>4, <1>5, <1>6, <1>7, <1>8, <1>9 DEF Next, CallStep, LostStep,
       FailStep, CloseStep, ReconnectStep, ReaderStep

\* What the promise sees of a call's data is the call's own session.
DataOf == [c \in Calls |-> IF outcome[c] = "response" THEN response[c] ELSE NoConn]

LEMMA DataIsSession ==
  ASSUME ChecksSession, IInv
  PROVE  DataOf = [c \in Calls |-> IF outcome[c] = "response" THEN sess[c] ELSE NoConn]
  BY DEF DataOf, IInv, FilledInv, OwnInv

LEMMA PromiseInit == Init => Promise!Init
  BY DEF Init, Promise!Init

\* A step that neither binds a call nor ends one leaves the promise alone.
LEMMA PromiseStutter ==
  ASSUME ChecksSession, IInv, IInv', UNCHANGED <<sess, outcome>>
  PROVE  UNCHANGED Promise!vars
<1>1. DataOf' = [c \in Calls |-> IF outcome'[c] = "response" THEN sess'[c] ELSE NoConn]
  BY DEF DataOf, IInv, FilledInv, OwnInv
<1>2. DataOf' = DataOf
  BY <1>1, DataIsSession
<1>3. QED
  BY <1>2 DEF Promise!vars, DataOf

\* A call that ends without data.
LEMMA PromiseEnding ==
  ASSUME ChecksSession, IInv, IInv', UNCHANGED sess, NEW c \in Calls,
         outcome[c] = "none", NEW how \in {"error", "refused", "timeout", "raised"}, Ends(c, how),
         how \in {"refused", "raised"} \/ sess[c] # NoConn
  PROVE  Promise!Refuse(c) \/ Promise!Fail(c)
<1>1. DataOf' = [d \in Calls |-> IF outcome'[d] = "response" THEN sess'[d] ELSE NoConn]
  BY DEF DataOf, IInv, FilledInv, OwnInv
<1>2. \A d \in Calls : outcome'[d] = "response" <=> outcome[d] = "response"
  BY DEF Ends, IInv, TypeOK, CallOK
<1>3. DataOf' = DataOf
  BY <1>1, <1>2, DataIsSession
<1>4. QED
  BY <1>3 DEF Promise!Refuse, Promise!Fail, Ends, DataOf

\* Every step of the calls and of those around them is one of the promise, or
\* nothing the promise can see.
LEMMA PromiseStep ==
  ASSUME ChecksSession, IInv, IInv', StageInv, [Next]_vars
  PROVE  [Promise!Next]_Promise!vars
<1>1. ASSUME NEW c \in Calls, CallRefused(c)
      PROVE  Promise!Next
  BY <1>1, PromiseEnding DEF CallRefused, StageInv, Promise!Next
<1>2. ASSUME NEW c \in Calls,
             \/ CallRequires(c) /\ session = NoConn
             \/ CallSeesLive(c) /\ session \in closed \cup {NoConn}
             \/ CallTakesSession(c) /\ session = NoConn
      PROVE  Promise!Next
  <2>1. PICK how \in {"refused", "raised"} : Ends(c, how)
    BY <1>2 DEF CallRequires, CallSeesLive, CallTakesSession
  <2>2. UNCHANGED sess /\ outcome[c] = "none"
    BY <1>2 DEF CallRequires, CallSeesLive, CallTakesSession, StageInv
  <2>3. QED
    BY <2>1, <2>2, PromiseEnding DEF Promise!Next
<1>3. ASSUME NEW c \in Calls, CallTakesSession(c), session # NoConn
      PROVE  Promise!Bind(c)
  <2>1. sess' = [sess EXCEPT ![c] = session] /\ UNCHANGED outcome
    BY <1>3 DEF CallTakesSession
  <2>2. session \in Conns
    BY <1>3, PendingCallsAssumption DEF IInv, TypeOK, ConnOK, Conns, NoConn
  <2>3. outcome[c] = "none" /\ sess[c] = NoConn
    BY <1>3 DEF CallTakesSession, StageInv
  <2>4. UNCHANGED response
    BY <1>3 DEF CallTakesSession, slotVars
  <2>5. UNCHANGED DataOf
    BY <2>1, <2>4 DEF DataOf
  <2>6. QED
    BY <2>1, <2>2, <2>3, <2>5 DEF Promise!Bind, DataOf
<1>4. ASSUME NEW c \in Calls, ReadSocket(c), sock = NoConn
      PROVE  Promise!Next
  BY <1>4, PromiseEnding DEF ReadSocket, StageInv, Promise!Next
<1>5. ASSUME NEW c \in Calls,
             \/ WaitTimesOut(c)
             \/ Withdraw(c) /\ outcome[c] = "none"
             \/ Touch(c) /\ session = NoConn
      PROVE  Promise!Next
  <2>1. PICK how \in {"timeout", "raised"} : Ends(c, how)
    BY <1>5 DEF WaitTimesOut, Withdraw, Touch
  <2>2. UNCHANGED sess
    BY <1>5 DEF WaitTimesOut, Withdraw, Touch
  <2>3. outcome[c] = "none" /\ sess[c] # NoConn
    BY <1>5 DEF WaitTimesOut, Withdraw, Touch, StageInv, Conns, NoConn
  <2>4. QED
    BY <2>1, <2>2, <2>3, PromiseEnding DEF Promise!Next
<1>6. ASSUME NEW c \in Calls, Take(c), c \in error
      PROVE  Promise!Next
  <2>1. Ends(c, "error") /\ UNCHANGED sess
    BY <1>6 DEF Take
  <2>2. outcome[c] = "none" /\ sess[c] # NoConn
    BY <1>6 DEF Take, StageInv, Conns, NoConn
  <2>3. QED
    BY <2>1, <2>2, PromiseEnding DEF Promise!Next
<1>7. ASSUME NEW c \in Calls, Take(c), c \notin error
      PROVE  Promise!Answer(c)
  <2>1. Ends(c, "response") /\ UNCHANGED sess
    BY <1>7 DEF Take
  <2>2. outcome[c] = "none" /\ sess[c] # NoConn
    BY <1>7 DEF Take, StageInv, Conns, NoConn
  <2>3. outcome' = [outcome EXCEPT ![c] = "response"]
    BY <2>1 DEF Ends
  <2>4. DataOf' = [d \in Calls |-> IF outcome'[d] = "response" THEN sess'[d] ELSE NoConn]
    BY DEF DataOf, IInv, FilledInv, OwnInv
  <2>5. outcome \in [Calls -> Outcomes]
    BY DEF IInv, TypeOK, CallOK
  <2>6. DataOf' = [DataOf EXCEPT ![c] = sess[c]]
    BY <2>1, <2>3, <2>4, <2>5, DataIsSession
  <2>7. QED
    BY <2>1, <2>2, <2>3, <2>6 DEF Promise!Answer, DataOf
<1>8. ASSUME NEW c \in Calls,
             \/ CallStarts(c) \/ Register(c) \/ Send(c) \/ SendFails(c) \/ WaitEnds(c)
             \/ CallRequires(c) /\ session # NoConn
             \/ CallSeesLive(c) /\ session \notin closed \cup {NoConn}
             \/ ReadSocket(c) /\ sock # NoConn
             \/ Withdraw(c) /\ outcome[c] # "none"
             \/ Touch(c) /\ session # NoConn
      PROVE  UNCHANGED <<sess, outcome>>
  BY <1>8 DEF CallStarts, Register, Send, SendFails, WaitEnds, CallRequires, CallSeesLive,
       ReadSocket, Withdraw, Touch, shared, callVars
<1>9. ASSUME NEW w \in Watchers, Notices(w) \/ PingFails(w)
      PROVE  UNCHANGED <<sess, outcome>>
  BY <1>9 DEF Notices, PingFails, shared, callVars
<1>10. ASSUME NEW t \in Threads,
             \/ LinkLost(t) \/ Degrade(t) \/ Mark(t) \/ Name(t) \/ ReadName(t)
             \/ ListPending(t) \/ FailSlot(t) \/ AllFailed(t) \/ ClearPending(t)
      PROVE  UNCHANGED <<sess, outcome>>
  BY <1>10 DEF LinkLost, Degrade, Mark, Name, ReadName, ListPending, FailSlot, AllFailed,
       ClearPending, shared, callVars
<1>11. CASE \/ CloseBegins \/ CloseDropsSocket \/ CloseRetires \/ CloseForgets
            \/ CloseSetsLink
  <2>1. UNCHANGED <<sess, outcome>>
    BY <1>11 DEF CloseBegins, CloseDropsSocket, CloseRetires, CloseForgets, CloseSetsLink,
         callVars
  <2>2. QED
    BY <2>1, PromiseStutter
<1>12. CASE \/ LoopStops \/ LoopRetries \/ ConnLock \/ ConnRefused \/ ConnOpen \/ Hello
            \/ HelloFails \/ HelloReads \/ HandshakeDone \/ HandshakeFails \/ RetireOld
            \/ OpenSession \/ LinkUp \/ ConnFail
  <2>1. UNCHANGED <<sess, outcome>>
    BY <1>12 DEF LoopStops, LoopRetries, ConnLock, ConnRefused, ConnOpen, Hello, HelloFails,
         HelloReads, HandshakeDone, HandshakeFails, RetireOld, OpenSession, LinkUp, ConnFail,
         shared, callVars
  <2>2. QED
    BY <2>1, PromiseStutter
<1>13. ASSUME NEW k \in Conns,
             \/ PeerCloses(k) \/ Serve(k) \/ PopSlot(k) \/ FillSlot(k) \/ SetEvent(k)
      PROVE  UNCHANGED <<sess, outcome>>
  BY <1>13 DEF PeerCloses, Serve, PopSlot, FillSlot, SetEvent, callVars
<1>14. CASE UNCHANGED vars
  <2>1. UNCHANGED <<sess, outcome>>
    BY <1>14 DEF vars, shared, callVars
  <2>2. QED
    BY <2>1, PromiseStutter
<1>15. CASE \E c \in Calls : CallStep(c)
  <2>1. PICK c \in Calls : CallStep(c)
    BY <1>15
  <2>2. Promise!Next \/ UNCHANGED <<sess, outcome>>
    BY <2>1, <1>1, <1>2, <1>3, <1>4, <1>5, <1>6, <1>7, <1>8 DEF CallStep, Promise!Next
  <2>3. QED
    BY <2>2, PromiseStutter
<1>16. ASSUME NEW t \in Losers, LostRaises(t)
      PROVE  Promise!Next \/ UNCHANGED <<sess, outcome>>
  <2>1. outcome' = [d \in Calls |-> IF d = t THEN "raised" ELSE outcome[d]] /\ UNCHANGED sess
    BY <1>16 DEF LostRaises
  <2>2. CASE t \notin Calls
    BY <2>1, <2>2 DEF IInv, TypeOK, CallOK
  <2>3. CASE t \in Calls
    <3>1. Ends(t, "raised")
      BY <2>1, <2>3 DEF Ends, IInv, TypeOK, CallOK
    <3>2. outcome[t] = "none"
      BY <1>16, <2>3 DEF LostRaises, StageInv, Failing
    <3>3. QED
      BY <2>1, <2>3, <3>1, <3>2, PromiseEnding DEF Promise!Next
  <2>4. QED
    BY <2>2, <2>3
<1>17. CASE \/ \E w \in Watchers : Notices(w) \/ PingFails(w)
            \/ \E t \in Losers : LostStep(t)
            \/ \E t \in Threads : FailStep(t)
            \/ \E k \in Conns : PeerCloses(k) \/ Serve(k) \/ ReaderStep(k)
  <2>1. Promise!Next \/ UNCHANGED <<sess, outcome>>
    BY <1>17, <1>9, <1>10, <1>13, <1>16 DEF LostStep, FailStep, ReaderStep, Threads
  <2>2. QED
    BY <2>1, PromiseStutter
<1>18. QED
  BY <1>11, <1>12, <1>14, <1>15, <1>17 DEF Next, CloseStep, ReconnectStep

\* PendingCalls refines CallPromise: with a server that checks session_id, each
\* call is bound to one session, ends at most once, and data it returns is of
\* that session.  (That a call does end is left to TLC.)
THEOREM PromiseTheorem == ChecksSession => (Spec => KeepsPromise)
<1> SUFFICES ASSUME ChecksSession
             PROVE  Spec => KeepsPromise
  OBVIOUS
<1>1. Spec => []StageInv
  <2>1. IInv /\ StageInv /\ [Next]_vars => StageInv'
    BY StageStep DEF IInv
  <2>2. QED
    BY Invariance, StageInit, <2>1, PTL DEF Spec
<1>2. IInv /\ IInv' /\ StageInv /\ [Next]_vars => [Promise!Next]_Promise!vars
  BY PromiseStep
<1>3. QED
  BY Invariance, PromiseInit, <1>1, <1>2, PTL DEF Spec, KeepsPromise, Promise!Spec

=============================================================================
