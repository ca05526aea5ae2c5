-------------------------- MODULE MockServerProofs --------------------------
(***************************************************************************)
(* Proofs about MockServer for any number of connections, requests,        *)
(* restarts and events.                                                    *)
(***************************************************************************)
EXTENDS MockServer, ProtocolProofs, SequenceTheorems

Pcs == {"none", "accepted", "hello", "ack", "sendready", "setready", "greet", "loop",
        "busy", "bye", "unlist", "gone"}

\* What a thread carries from one step of a command to the next.
Ops == [cmd : {"none", "begin"}]
       \cup [cmd : {"store"}, hook : Nat]
       \cup [cmd : {"advance"}, job : Nat \ {0}, size : Nat]
       \cup [cmd : {"progress"}, job : Nat \ {0}, size : Nat, half : 0 .. 2]
       \cup [cmd : {"test"}, job : Nat \ {0}, size : Nat]

Job == [state : JobStates, half : 0 .. 2, rounds : [Conns -> 0 .. 2]]

\* Whatever this server sends
Messages ==
  {make_hello_ack(V, c) : c \in Conns} \cup {make_ready(V, c, "RUNNING") : c \in Conns}
  \cup {Event(c, t) : c \in Conns, t \in EVENT_TYPES} \cup {Done(c) : c \in Conns}
  \cup {Raised(c, code) : c \in Conns, code \in ErrorCode}
  \cup {make_error(V, s, NoId, code) : s \in Conns \cup {NoId}, code \in ErrorCode}
  \cup {make_response(V, c, Value, "error", "E_NOT_READY") : c \in Conns}
  \cup {make_pong(V, 1)}

Types ==
  /\ cpc \in [Conns -> Pcs]
  /\ listed \subseteq Conns /\ open \subseteq Conns
  /\ ready \subseteq Conns /\ emitting \subseteq Conns
  /\ out \in [Conns -> Seq(Messages)]
  /\ op \in [Conns -> Ops]
  /\ told \in [Conns -> Seq(Nat)]
  /\ hooks \in Seq([by : Conns, status : {"active", "removed"}])
  /\ jobs \in Seq(Job)

\* Open connections are in the list, and a thread that is about to leave the
\* list has closed its own.
ListInv ==
  /\ OpenConnsListed
  /\ \A c \in Conns : cpc[c] = "unlist" => c \notin open

\* What a connection that is still open has been sent, by where its thread is,
\* and by whether emit_event() may choose it.
HandInv ==
  /\ OpensWithHandshake
  /\ emitting \subseteq ready
  /\ \A c \in Conns :
       /\ cpc[c] = "none" => out[c] = <<>> /\ c \notin ready
       /\ c \in open =>
            /\ cpc[c] \in {"accepted", "hello", "ack"} => out[c] = <<>>
            /\ cpc[c] = "sendready" => out[c] = <<make_hello_ack(V, c)>>
            /\ cpc[c] \in {"setready", "greet", "loop", "busy"} => Len(out[c]) = 2
            /\ c \in ready => Len(out[c]) = 2

\* A hook_id read but not stored yet is beyond those its client was told, and
\* at most one beyond those stored.
HookInv ==
  /\ OwnHooksDistinct
  /\ \A c \in Conns : op[c].cmd = "store" =>
       /\ op[c].hook \in 1 .. Len(hooks) + 1
       /\ \A i \in DOMAIN told[c] : told[c][i] < op[c].hook

\* A thread carries something only while it executes a command.
BusyInv == \A c \in Conns : op[c].cmd # "none" => cpc[c] = "busy"

\* Nobody but c has written the progress of a job.
Alone(r, c) == \A d \in Conns : d # c => r.rounds[d] = 0

TwoRounds(r) ==
  \/ \E c \in Conns : r.rounds[c] = 2
  \/ \E c, d \in Conns : c # d /\ r.rounds[c] > 0 /\ r.rounds[d] > 0

\* The progress of a job never exceeds the rounds behind it, and with one
\* writer is their number.
Counted(r) ==
  /\ r.half > 0 => \E c \in Conns : r.rounds[c] > 0
  /\ r.half = 2 \/ r.state = "completed" => TwoRounds(r)
  /\ \A c \in Conns : Alone(r, c) => r.half = r.rounds[c]

\* The same of a progress that a thread has read and not written back.
ReadCounted(half, r, c) ==
  /\ half > 0 => \E d \in Conns : r.rounds[d] > 0
  /\ Alone(r, c) => half = r.rounds[c]

Ended(r, c) == Alone(r, c) /\ r.rounds[c] = 2 => r.state # "running"

JobsInv ==
  /\ \A c \in Conns : op[c].cmd \in {"progress", "test"} => op[c].job \in DOMAIN jobs
  /\ \A j \in DOMAIN jobs :
       /\ Counted(jobs[j])
       /\ \A c \in Conns : Ended(jobs[j], c) \/ (op[c].cmd = "test" /\ op[c].job = j)
  /\ \A c \in Conns :
       op[c].cmd = "progress" => ReadCounted(op[c].half, jobs[op[c].job], c)

IInv == Types /\ ListInv /\ HandInv /\ HookInv /\ BusyInv /\ JobsInv

-----------------------------------------------------------------------------
(* Messages                                                                *)

LEMMA FirstTwoProperties ==
  ASSUME NEW s \in Seq(Messages)
  PROVE  /\ FirstTwo(s) \in Seq(Messages)
         /\ Len(s) \in Nat
         /\ Len(s) < 2 => Len(FirstTwo(s)) = Len(s)
         /\ Len(s) >= 2 => Len(FirstTwo(s)) = 2
         /\ \A i \in 1 .. Len(FirstTwo(s)) : FirstTwo(s)[i] = s[i]
<1> DEFINE n == IF Len(s) < 2 THEN Len(s) ELSE 2
<1>1. n \in Nat /\ n <= Len(s)
  OBVIOUS
<1>2. \A i \in 1 .. n : s[i] \in Messages
  BY <1>1, ElementOfSeq
<1>3. FirstTwo(s) = SubSeq(s, 1, n)
  BY DEF FirstTwo
<1> HIDE DEF n
<1>4. /\ SubSeq(s, 1, n) \in Seq(Messages)
      /\ Len(SubSeq(s, 1, n)) = IF 1 <= n THEN n - 1 + 1 ELSE 0
      /\ \A i \in 1 .. n - 1 + 1 : SubSeq(s, 1, n)[i] = s[1 + i - 1]
  BY <1>1, <1>2, SubSeqProperties
<1>5. Len(SubSeq(s, 1, n)) = n /\ \A i \in 1 .. n : SubSeq(s, 1, n)[i] = s[i]
  BY <1>1, <1>4
<1>6. QED
  BY <1>3, <1>4, <1>5 DEF n

\* Two messages are all that is kept of a connection.
LEMMA FirstTwoKeeps ==
  ASSUME NEW s \in Seq(Messages), NEW m \in Seq(Messages), Len(s) = 2
  PROVE  FirstTwo(s \o m) = s
<1>1. /\ s \o m \in Seq(Messages)
      /\ Len(s \o m) = Len(s) + Len(m)
      /\ \A i \in 1 .. Len(s) + Len(m) : (s \o m)[i] = IF i <= Len(s) THEN s[i] ELSE m[i - Len(s)]
  BY ConcatProperties
<1>2. Len(s \o m) >= 2 /\ \A i \in 1 .. 2 : (s \o m)[i] = s[i]
  BY <1>1
<1> DEFINE t == s \o m
<1> HIDE DEF t
<1>3. t \in Seq(Messages) /\ Len(t) >= 2 /\ \A i \in 1 .. 2 : t[i] = s[i]
  BY <1>1, <1>2 DEF t
<1>4. FirstTwo(t) \in Seq(Messages) /\ Len(FirstTwo(t)) = 2
  BY <1>3, FirstTwoProperties
<1>5. \A i \in 1 .. 2 : FirstTwo(t)[i] = t[i]
  BY <1>3, <1>4, FirstTwoProperties
<1>6. FirstTwo(t) = s
  BY <1>3, <1>4, <1>5, SeqEqual
<1>7. QED
  BY <1>6 DEF t

\* The first message and the second.
LEMMA FirstTwoOfOne ==
  ASSUME NEW x \in Messages
  PROVE  FirstTwo(<<>> \o <<x>>) = <<x>>
<1>1. <<x>> \in Seq(Messages) /\ Len(<<x>>) = 1
  OBVIOUS
<1>2. <<>> \o <<x>> = <<x>>
  BY <1>1, ConcatEmptySeq
<1>3. ASSUME NEW t \in Seq(Messages), Len(t) = 1
      PROVE  FirstTwo(t) = t
  <2>1. /\ FirstTwo(t) \in Seq(Messages)
        /\ Len(t) < 2 => Len(FirstTwo(t)) = Len(t)
        /\ \A i \in 1 .. Len(FirstTwo(t)) : FirstTwo(t)[i] = t[i]
    BY FirstTwoProperties, Zenon
  <2>2. Len(FirstTwo(t)) = Len(t)
    BY <1>3, <2>1
  <2>3. QED
    BY <2>1, <2>2, SeqEqual
<1>4. QED
  BY <1>1, <1>2, <1>3

LEMMA FirstTwoOfTwo ==
  ASSUME NEW x \in Messages, NEW y \in Messages
  PROVE  /\ Len(FirstTwo(<<x>> \o <<y>>)) = 2
         /\ FirstTwo(<<x>> \o <<y>>)[1] = x /\ FirstTwo(<<x>> \o <<y>>)[2] = y
<1>1. <<x>> \in Seq(Messages) /\ <<y>> \in Seq(Messages) /\ Len(<<x>>) = 1 /\ Len(<<y>>) = 1
  OBVIOUS
<1>2. /\ <<x>> \o <<y>> \in Seq(Messages) /\ Len(<<x>> \o <<y>>) = 2
      /\ (<<x>> \o <<y>>)[1] = x /\ (<<x>> \o <<y>>)[2] = y
  BY <1>1, ConcatProperties
<1> DEFINE t == <<x>> \o <<y>>
<1>3. t \in Seq(Messages) /\ Len(t) = 2 /\ t[1] = x /\ t[2] = y
  BY <1>2
<1> HIDE DEF t
<1>4. Len(FirstTwo(t)) = 2
  BY <1>3, FirstTwoProperties
<1>5. FirstTwo(t)[1] = t[1] /\ FirstTwo(t)[2] = t[2]
  BY <1>3, <1>4, FirstTwoProperties
<1>6. QED
  BY <1>3, <1>4, <1>5 DEF t

\* What _Connection.send() does to the history of messages.
LEMMA SendsEffect ==
  ASSUME Types, NEW c \in Conns, NEW msgs \in Seq(Messages), Sends(c, msgs)
  PROVE  /\ out' \in [Conns -> Seq(Messages)]
         /\ \A d \in Conns : d # c \/ c \notin open => out'[d] = out[d]
         /\ c \in open => out'[c] = FirstTwo(out[c] \o msgs)
<1>1. out[c] \o msgs \in Seq(Messages)
  BY ConcatProperties DEF Types
<1>2. FirstTwo(out[c] \o msgs) \in Seq(Messages)
  BY <1>1, FirstTwoProperties
<1>3. QED
  BY <1>2 DEF Sends, Types

\* ... when two messages have been sent: nothing.
LEMMA SendsMore ==
  ASSUME Types, NEW c \in Conns, NEW msgs \in Seq(Messages), Sends(c, msgs),
         c \in open => Len(out[c]) = 2
  PROVE  out' = out
<1>1. c \in open => out'[c] = out[c]
  BY SendsEffect, FirstTwoKeeps DEF Types
<1>2. \A d \in Conns : out'[d] = out[d]
  BY <1>1, SendsEffect
<1>3. QED
  BY <1>2, SendsEffect DEF Types

\* The messages of this server.
LEMMA OwnMessages ==
  ASSUME NEW c \in Conns
  PROVE  /\ make_hello_ack(V, c) \in Messages /\ make_ready(V, c, "RUNNING") \in Messages
         /\ \A t \in EVENT_TYPES : Event(c, t) \in Messages
         /\ Done(c) \in Messages
         /\ \A code \in ErrorCode : /\ Raised(c, code) \in Messages
                                   /\ make_error(V, c, NoId, code) \in Messages
                                   /\ make_error(V, NoId, NoId, code) \in Messages
         /\ make_response(V, c, Value, "error", "E_NOT_READY") \in Messages
         /\ make_pong(V, 1) \in Messages
  BY DEF Messages

LEMMA OneMessage == \A k \in Messages : <<k>> \in Seq(Messages)
  OBVIOUS

LEMMA KnownEvents ==
  {"HOOK_INSTALLED", "HOOK_ENTER", "HOOK_LEAVE", "JNI_CALL", "RUNTIME_READY"} \subseteq EVENT_TYPES
  BY DEF EVENT_TYPES

LEMMA KnownCodes ==
  {"E_NOT_FOUND", "E_BAD_ARGS", "E_NOT_READY", "E_SESSION_STALE", "E_MALFORMED_FRAME",
   "ERROR_PROTOCOL_VERSION"} \subseteq ErrorCode
  BY DEF ErrorCode, ProtocolLayer

LEMMA HookMessages ==
  ASSUME NEW c \in Conns
  PROVE  <<Event(c, "HOOK_INSTALLED"), Event(c, "HOOK_ENTER"), Event(c, "HOOK_LEAVE"), Done(c)>>
           \in Seq(Messages)
<1>1. /\ Event(c, "HOOK_INSTALLED") \in Messages /\ Event(c, "HOOK_ENTER") \in Messages
      /\ Event(c, "HOOK_LEAVE") \in Messages /\ Done(c) \in Messages
  BY OwnMessages, KnownEvents
<1>2. QED
  BY <1>1

\* What a first message that is refused is answered.
LEMMA Refusal ==
  ASSUME NEW c \in Conns, HelloRefused(c)
  PROVE  \E m \in Messages : m.type = "ERROR" /\ Sends(c, <<m>>)
<1>1. PICK m : HelloFault(V, m) # "none" /\ Sends(c, <<make_error(V, NoId, NoId, HelloFault(V, m))>>)
  BY DEF HelloRefused
<1>2. HelloFault(V, m) \in ErrorCode
  BY <1>1, KnownCodes DEF HelloFault
<1>3. make_error(V, NoId, NoId, HelloFault(V, m)) \in Messages
  BY <1>2, OwnMessages
<1>4. make_error(V, NoId, NoId, HelloFault(V, m)).type = "ERROR"
  BY DEF make_error
<1>5. QED
  BY <1>1, <1>3, <1>4

\* Every other step in which a thread writes on its own connection
LEMMA ThreadSends ==
  ASSUME NEW c \in Conns,
         SendAck(c) \/ SendReady(c) \/ Greet(c) \/ HelloRefused(c) \/ LoopReadsMalformed(c)
  PROVE  \E msgs \in Seq(Messages) : Sends(c, msgs)
<1>1. CASE SendAck(c) \/ SendReady(c)
  BY <1>1, OwnMessages, OneMessage DEF SendAck, SendReady
<1>2. CASE Greet(c)
  BY <1>2, OwnMessages, OneMessage, KnownEvents DEF Greet
<1>3. CASE HelloRefused(c)
  BY <1>3, Refusal, OneMessage
<1>4. CASE LoopReadsMalformed(c)
  BY <1>4, OwnMessages, OneMessage, KnownCodes DEF LoopReadsMalformed
<1>5. QED
  BY <1>1, <1>2, <1>3, <1>4

LEMMA EmittedMessage ==
  ASSUME NEW c \in Conns
  PROVE  <<Event(c, "JNI_CALL")>> \in Seq(Messages)
  BY OwnMessages, OneMessage, KnownEvents

-----------------------------------------------------------------------------
(* Commands: their effect on the connection, and on what they share        *)

LEMMA CommandShape ==
  ASSUME Types, NEW c \in Conns, Command(c)
  PROVE  /\ UNCHANGED <<ctlVars, lifeVars, open, ready>>
         /\ \/ UNCHANGED <<cpc, out>>
            \/ /\ cpc[c] = "busy" /\ cpc' = [cpc EXCEPT ![c] = "loop"]
               /\ \E msgs \in Seq(Messages) : Sends(c, msgs)
            \/ /\ cpc[c] = "busy" /\ cpc' = [cpc EXCEPT ![c] = "bye"]
               /\ UNCHANGED out
<1> USE DEF ctlVars, lifeVars, connVars
<1>1. ASSUME NEW o, Continues(c, o)
      PROVE  UNCHANGED <<ctlVars, lifeVars, open, ready, cpc, out>>
  BY <1>1 DEF Continues
<1>2. ASSUME NEW msgs \in Seq(Messages), Answers(c, msgs)
      PROVE  /\ UNCHANGED <<ctlVars, lifeVars, open, ready>>
             /\ cpc[c] = "busy" /\ cpc' = [cpc EXCEPT ![c] = "loop"]
             /\ Sends(c, msgs)
  BY <1>2 DEF Answers, Steps
<1>3. ASSUME Dies(c)
      PROVE  /\ UNCHANGED <<ctlVars, lifeVars, open, ready, out>>
             /\ cpc[c] = "busy" /\ cpc' = [cpc EXCEPT ![c] = "bye"]
  BY <1>3 DEF Dies, Steps
<1>4. <<>> \in Seq(Messages) /\ \A k \in Messages : <<k>> \in Seq(Messages)
  OBVIOUS
<1>5. \A code \in {"E_NOT_FOUND", "E_BAD_ARGS", "E_NOT_READY", "E_SESSION_STALE"} :
        <<Raised(c, code)>> \in Seq(Messages)
  BY <1>4, OwnMessages, KnownCodes
<1>6. /\ <<Done(c)>> \in Seq(Messages) /\ <<make_pong(V, 1)>> \in Seq(Messages)
      /\ <<make_response(V, c, Value, "error", "E_NOT_READY")>> \in Seq(Messages)
  BY <1>4, OwnMessages
<1>7. CASE CreateHook(c) \/ JobStatus(c) \/ AdvanceChecks(c) \/ AdvanceWrites(c) \/ AdvanceTests(c)
  BY <1>7, <1>1 DEF CreateHook, JobStatus, AdvanceChecks, AdvanceWrites, AdvanceTests
<1>8. CASE StoreHook(c)
  BY <1>8, <1>2, HookMessages DEF StoreHook
<1>9. CASE Unhook(c) \/ MemoryDump(c) \/ JobCancel(c) \/ CommandLooks(c)
  BY <1>9, <1>2, <1>6 DEF Unhook, MemoryDump, JobCancel, CommandLooks
<1>10. CASE JobStatusAnswers(c)
  BY <1>10, <1>2, <1>5, <1>6 DEF JobStatusAnswers
<1>11. CASE MessageAnswered(c)
  BY <1>11, <1>2, <1>4, <1>6 DEF MessageAnswered
<1>12. CASE CommandRefused(c)
  BY <1>12, <1>2, <1>5, <1>6 DEF CommandRefused
<1>13. CASE ElementLooks(c)
  BY <1>13, <1>2, <1>5, <1>6 DEF ElementLooks
<1>14. CASE AdvanceRaises(c) \/ CommandRaises(c)
  BY <1>14, <1>3 DEF AdvanceRaises, CommandRaises
<1>15. QED
  BY <1>7, <1>8, <1>9, <1>10, <1>11, <1>12, <1>13, <1>14 DEF Command

\* A round of job.status that has read this progress
LEMMA AdvancedType ==
  ASSUME NEW r \in Job, NEW half \in 0 .. 2, NEW c \in Conns
  PROVE  /\ Advanced(r, half, c) \in Job
         /\ Advanced(r, half, c).state = r.state
         /\ Advanced(r, half, c).half = AtMostTwo(half + 1)
         /\ Advanced(r, half, c).rounds[c] = AtMostTwo(r.rounds[c] + 1)
         /\ \A d \in Conns : d # c => Advanced(r, half, c).rounds[d] = r.rounds[d]
<1>1. AtMostTwo(half + 1) \in 0 .. 2 /\ AtMostTwo(r.rounds[c] + 1) \in 0 .. 2
  BY DEF AtMostTwo, Job
<1> DEFINE rounds == [r.rounds EXCEPT ![c] = AtMostTwo(r.rounds[c] + 1)]
<1>2. /\ rounds \in [Conns -> 0 .. 2] /\ rounds[c] = AtMostTwo(r.rounds[c] + 1)
      /\ \A d \in Conns : d # c => rounds[d] = r.rounds[d]
  BY <1>1 DEF Job
<1> HIDE DEF rounds
<1>3. Advanced(r, half, c) = [r EXCEPT !.half = AtMostTwo(half + 1), !.rounds = rounds]
  BY DEF Advanced, rounds
<1>4. QED
  BY <1>1, <1>2, <1>3 DEF Job

LEMMA CommandTypes ==
  ASSUME Types, NEW c \in Conns, Command(c), HookInv, JobsInv
  PROVE  /\ op' \in [Conns -> Ops] /\ told' \in [Conns -> Seq(Nat)]
         /\ hooks' \in Seq([by : Conns, status : {"active", "removed"}])
         /\ jobs' \in Seq(Job)
<1> DEFINE Hook == [by : Conns, status : {"active", "removed"}]
<1> USE DEF Types
<1>1. /\ op \in [Conns -> Ops] /\ told \in [Conns -> Seq(Nat)]
      /\ hooks \in Seq(Hook) /\ jobs \in Seq(Job)
  OBVIOUS
<1>2. Idle \in Ops /\ [cmd |-> "begin"] \in Ops
  BY DEF Idle, Ops
<1>3. ASSUME NEW o \in Ops, Continues(c, o)
      PROVE  op' \in [Conns -> Ops]
  BY <1>1, <1>3 DEF Continues
<1>4. ASSUME op' = [op EXCEPT ![c] = Idle]
      PROVE  op' \in [Conns -> Ops]
  BY <1>1, <1>2, <1>4
<1>5. ASSUME NEW msgs, Answers(c, msgs)
      PROVE  op' \in [Conns -> Ops]
  BY <1>4, <1>5 DEF Answers
<1>6. ASSUME Dies(c)
      PROVE  op' \in [Conns -> Ops] /\ UNCHANGED <<hooks, told, jobs>>
  BY <1>4, <1>6 DEF Dies
<1>7. CASE CreateHook(c)
  <2>1. NextHookId \in Nat
    BY DEF NextHookId
  <2>2. [cmd |-> "store", hook |-> NextHookId] \in Ops
    BY <2>1 DEF Ops
  <2>3. QED
    BY <1>1, <1>3, <1>7, <2>2 DEF CreateHook
<1>8. CASE StoreHook(c)
  <2>1. op[c] \in Ops /\ op[c].cmd = "store"
    BY <1>1, <1>8 DEF StoreHook
  <2>2. op[c].hook \in Nat
    BY <2>1 DEF Ops
  <2>3. [by |-> c, status |-> "active"] \in Hook
    OBVIOUS
  <2>4. hooks' \in Seq(Hook)
    <3> DEFINE h == op[c].hook
               new == [by |-> c, status |-> "active"]
    <3>1. h \in DOMAIN hooks => [hooks EXCEPT ![h] = new] \in Seq(Hook)
      BY <1>1, <2>3
    <3>2. Append(hooks, new) \in Seq(Hook)
      BY <1>1, <2>3
    <3>3. QED
      BY <1>8, <3>1, <3>2 DEF StoreHook
  <2>5. told' \in [Conns -> Seq(Nat)]
    BY <1>1, <1>8, <2>2 DEF StoreHook
  <2>6. op' \in [Conns -> Ops]
    BY <1>5, <1>8 DEF StoreHook
  <2>7. QED
    BY <1>1, <1>8, <2>4, <2>5, <2>6 DEF StoreHook
<1>9. CASE Unhook(c)
  <2>1. PICK h \in DOMAIN hooks : hooks' = [hooks EXCEPT ![h].status = "removed"]
    BY <1>9 DEF Unhook
  <2>2. h \in 1 .. Len(hooks) /\ hooks' = [hooks EXCEPT ![h] = [hooks[h] EXCEPT !.status = "removed"]]
    BY <1>1, <2>1
  <2>3. [hooks[h] EXCEPT !.status = "removed"] \in Hook
    <3>1. hooks[h] \in Hook
      BY <1>1, <2>2, ElementOfSeq
    <3>2. QED
      BY <3>1
  <2> HIDE DEF Hook
  <2>4. hooks' \in Seq(Hook)
    BY <1>1, <2>2, <2>3, ExceptSeq
  <2>5. QED
    BY <1>1, <1>5, <1>9, <2>4 DEF Unhook, Hook
<1>10. CASE MemoryDump(c)
  <2>1. [state |-> "running", half |-> 0, rounds |-> [d \in Conns |-> 0]] \in Job
    BY DEF JobStates, Job
  <2>2. QED
    BY <1>1, <1>5, <1>10, <2>1 DEF MemoryDump
<1>11. CASE JobStatus(c)
  <2>1. [cmd |-> "advance", job |-> 1, size |-> Len(jobs)] \in Ops
    BY <1>1 DEF Ops
  <2>2. QED
    BY <1>1, <1>3, <1>11, <2>1 DEF JobStatus
<1>12. CASE AdvanceChecks(c)
  <2>1. op[c] \in Ops /\ op[c].cmd = "advance"
    BY <1>1, <1>12 DEF AdvanceChecks, Advancing
  <2>2. op[c] \in [cmd : {"advance"}, job : Nat \ {0}, size : Nat]
    BY <2>1 DEF Ops
  <2>3. [op[c] EXCEPT !.job = op[c].job + 1] \in Ops
    <3>1. op[c].job + 1 \in Nat \ {0}
      BY <2>2
    <3>2. [op[c] EXCEPT !.job = op[c].job + 1] \in [cmd : {"advance"}, job : Nat \ {0}, size : Nat]
      BY <2>2, <3>1
    <3>3. QED
      BY <3>2 DEF Ops
  <2>4. Len(jobs) = op[c].size /\ op[c].job \in 1 .. Len(jobs)
    <3>1. op[c].job \in Nat \ {0} /\ op[c].size \in Nat
      BY <2>2
    <3>2. Len(jobs) = op[c].size /\ op[c].job <= op[c].size
      BY <1>12 DEF AdvanceChecks
    <3>3. QED
      BY <3>1, <3>2
  <2>5. jobs[op[c].job] \in Job
    BY <1>1, <2>4, ElementOfSeq
  <2>6. [cmd |-> "progress", job |-> op[c].job, size |-> op[c].size,
         half |-> jobs[op[c].job].half] \in Ops
    BY <2>2, <2>5 DEF Ops, Job
  <2>7. op' \in [Conns -> Ops]
    BY <1>3, <1>12, <2>3, <2>6 DEF AdvanceChecks
  <2>8. QED
    BY <1>1, <1>12, <2>7 DEF AdvanceChecks
<1>13. CASE AdvanceWrites(c)
  <2>1. op[c] \in Ops /\ op[c].cmd = "progress"
    BY <1>1, <1>13 DEF AdvanceWrites
  <2>2. op[c] \in [cmd : {"progress"}, job : Nat \ {0}, size : Nat, half : 0 .. 2]
    BY <2>1 DEF Ops
  <2>3. [cmd |-> "test", job |-> op[c].job, size |-> op[c].size] \in Ops
    BY <2>2 DEF Ops
  <2>4. op' \in [Conns -> Ops]
    BY <1>3, <1>13, <2>3 DEF AdvanceWrites
  <2>5. op[c].job \in 1 .. Len(jobs) /\ jobs' = [jobs EXCEPT ![op[c].job] =
                                            Advanced(jobs[op[c].job], op[c].half, c)]
    BY <1>1, <1>13, <2>1 DEF AdvanceWrites, JobsInv, Advanced
  <2>6. Advanced(jobs[op[c].job], op[c].half, c) \in Job
    BY <1>1, <2>2, <2>5, ElementOfSeq, AdvancedType
  <2>7. jobs' \in Seq(Job)
    BY <1>1, <2>5, <2>6, ExceptSeq
  <2>8. QED
    BY <1>1, <1>13, <2>4, <2>7 DEF AdvanceWrites
<1>14. CASE JobCancel(c)
  <2>1. PICK j \in DOMAIN jobs : jobs' = [jobs EXCEPT ![j].state = "cancelled"]
    BY <1>14 DEF JobCancel
  <2>2. j \in 1 .. Len(jobs) /\ jobs' = [jobs EXCEPT ![j] = [jobs[j] EXCEPT !.state = "cancelled"]]
    BY <1>1, <2>1
  <2>3. [jobs[j] EXCEPT !.state = "cancelled"] \in Job
    <3>1. jobs[j] \in Job
      BY <1>1, <2>2, ElementOfSeq
    <3>2. QED
      BY <3>1 DEF JobStates, Job
  <2>4. jobs' \in Seq(Job)
    BY <1>1, <2>2, <2>3, ExceptSeq
  <2>5. QED
    BY <1>1, <1>5, <1>14, <2>4 DEF JobCancel
<1>15. CASE \/ JobStatusAnswers(c) \/ MessageAnswered(c) \/ CommandRefused(c)
            \/ CommandLooks(c) \/ ElementLooks(c)
  <2>1. op' \in [Conns -> Ops] /\ UNCHANGED <<hooks, told, jobs>>
    BY <1>5, <1>15 DEF JobStatusAnswers, MessageAnswered, CommandRefused, CommandLooks, ElementLooks
  <2>2. QED
    BY <1>1, <2>1
<1>16. CASE AdvanceRaises(c) \/ CommandRaises(c)
  BY <1>1, <1>6, <1>16 DEF AdvanceRaises, CommandRaises
<1>17. CASE AdvanceTests(c)
  <2>1. op[c] \in Ops /\ op[c].cmd = "test"
    BY <1>1, <1>17 DEF AdvanceTests
  <2>2. op[c] \in [cmd : {"test"}, job : Nat \ {0}, size : Nat]
    BY <2>1 DEF Ops
  <2>3. op[c].job + 1 \in Nat \ {0}
    BY <2>2
  <2>4. [cmd |-> "advance", job |-> op[c].job + 1, size |-> op[c].size] \in Ops
    BY <2>2, <2>3 DEF Ops
  <2>5. op' \in [Conns -> Ops]
    BY <1>3, <1>17, <2>4 DEF AdvanceTests
  <2>6. /\ op[c].job \in 1 .. Len(jobs)
        /\ jobs' = jobs \/ jobs' = [jobs EXCEPT ![op[c].job] =
                                    [jobs[op[c].job] EXCEPT !.state = "completed"]]
    BY <1>1, <1>17, <2>1 DEF AdvanceTests, JobsInv
  <2>7. [jobs[op[c].job] EXCEPT !.state = "completed"] \in Job
    <3>1. jobs[op[c].job] \in Job
      BY <1>1, <2>6, ElementOfSeq
    <3>2. QED
      BY <3>1 DEF Job, JobStates
  <2> DEFINE r == [jobs[op[c].job] EXCEPT !.state = "completed"]
             i == op[c].job
  <2>8. i \in 1 .. Len(jobs) /\ r \in Job /\ (jobs' = jobs \/ jobs' = [jobs EXCEPT ![i] = r])
    BY <2>6, <2>7
  <2> HIDE DEF r, i
  <2>9. CASE jobs' = jobs
    BY <1>1, <1>17, <2>5, <2>9 DEF AdvanceTests
  <2>10. CASE jobs' = [jobs EXCEPT ![i] = r]
    <3>1. jobs' \in Seq(Job)
      BY <1>1, <2>8, <2>10, ExceptSeq
    <3>2. QED
      BY <1>1, <1>17, <2>5, <3>1 DEF AdvanceTests
  <2>11. QED
    BY <2>8, <2>9, <2>10
<1>18. QED
  BY <1>7, <1>8, <1>9, <1>10, <1>11, <1>12, <1>13, <1>14, <1>15, <1>16, <1>17 DEF Command

\* Every command is a step of a busy thread, and goes on, answers or dies.
LEMMA CommandBusy ==
  ASSUME NEW c \in Conns, Command(c)
  PROVE  cpc[c] = "busy"
  BY DEF Command, CreateHook, StoreHook, Unhook, MemoryDump, JobStatus, AdvanceRaises,
     AdvanceChecks, AdvanceWrites, AdvanceTests, JobStatusAnswers, JobCancel, MessageAnswered,
     CommandRefused, CommandLooks, ElementLooks, CommandRaises, Begins, Advancing

LEMMA CommandOutcome ==
  ASSUME NEW c \in Conns, Command(c)
  PROVE  (\E o : Continues(c, o)) \/ (\E msgs : Answers(c, msgs)) \/ Dies(c)
<1>1. CASE CreateHook(c) \/ JobStatus(c) \/ AdvanceWrites(c) \/ AdvanceTests(c)
  BY <1>1 DEF CreateHook, JobStatus, AdvanceWrites, AdvanceTests
<1>2. CASE AdvanceChecks(c)
  BY <1>2 DEF AdvanceChecks
<1>3. CASE AdvanceRaises(c) \/ CommandRaises(c)
  BY <1>3 DEF AdvanceRaises, CommandRaises
<1>4. CASE StoreHook(c) \/ Unhook(c) \/ MemoryDump(c) \/ JobCancel(c) \/ CommandLooks(c)
  BY <1>4 DEF StoreHook, Unhook, MemoryDump, JobCancel, CommandLooks
<1>5. CASE JobStatusAnswers(c) \/ MessageAnswered(c) \/ CommandRefused(c) \/ ElementLooks(c)
  BY <1>5 DEF JobStatusAnswers, MessageAnswered, CommandRefused, ElementLooks
<1>6. QED
  BY <1>1, <1>2, <1>3, <1>4, <1>5 DEF Command

\* Whatever is no command leaves hooks and jobs alone.
LEMMA OtherSteps ==
  ASSUME [Next]_vars, \A c \in Conns : ~Command(c)
  PROVE  /\ UNCHANGED <<hooks, told, jobs>>
         /\ \/ UNCHANGED op
            \/ \E c \in Conns : /\ LoopStartsCommand(c)
                               /\ op' = [op EXCEPT ![c] = [cmd |-> "begin"]]
<1> USE DEF dataVars
<1>1. CASE UNCHANGED vars
  BY <1>1 DEF vars
<1>2. CASE \/ Start \/ StopBegins \/ Stop \/ DropConnections
           \/ EmitChooses \/ EmitWrites \/ AcceptLoop
  BY <1>2 DEF Start, StopBegins, Stop, StopClears, StopClosesServer, StopJoins, CloseListed,
              DropConnections, EmitChooses, EmitWrites, AcceptLoop, AcceptEnds, AcceptLists
<1>3. ASSUME NEW c \in Conns, Accept(c) \/ Serve(c) \/ (ServeMessage(c) /\ ~LoopStartsCommand(c))
      PROVE  UNCHANGED dataVars
  BY <1>3 DEF Accept, Serve, ServeMessage, HelloMissing, SendAck, SendReady, SetReady, Greet,
              LoopEnds, ServeCloses, ServeUnlists, HelloArrives, HelloRefused, ClientGone,
              LoopReadsMalformed
<1>4. ASSUME NEW c \in Conns, LoopStartsCommand(c)
      PROVE  /\ UNCHANGED <<hooks, told, jobs>>
             /\ op' = [op EXCEPT ![c] = [cmd |-> "begin"]]
  BY <1>4 DEF LoopStartsCommand
<1>5. QED
  BY <1>1, <1>2, <1>3, <1>4 DEF Next

LEMMA HookStep ==
  ASSUME Types, HookInv, JobsInv, [Next]_vars
  PROVE  HookInv'
<1> DEFINE Told(c, h, n) == /\ h \in 1 .. n + 1
                            /\ \A i \in DOMAIN told[c] : told[c][i] < h
<1>1. /\ op \in [Conns -> Ops] /\ told \in [Conns -> Seq(Nat)]
      /\ hooks \in Seq([by : Conns, status : {"active", "removed"}])
  BY DEF Types
<1>2. Len(hooks) \in Nat /\ DOMAIN hooks = 1 .. Len(hooks)
  BY <1>1, LenProperties
<1>3. \A c \in Conns :
        /\ \A i, j \in DOMAIN told[c] : i < j => told[c][i] < told[c][j]
        /\ \A i \in DOMAIN told[c] : told[c][i] \in DOMAIN hooks
  BY DEF HookInv, OwnHooksDistinct, ToSet
<1>4. ASSUME NEW c \in Conns, told' = told, DOMAIN hooks' = DOMAIN hooks, Len(hooks') = Len(hooks),
             op' = op \/ (\E o : o.cmd # "store" /\ op' = [op EXCEPT ![c] = o])
      PROVE  HookInv'
  <2>1. OwnHooksDistinct'
    BY <1>3, <1>4 DEF OwnHooksDistinct, ToSet
  <2>2. \A d \in Conns : op'[d].cmd = "store" => op'[d] = op[d]
    BY <1>1, <1>4
  <2>3. QED
    BY <1>4, <2>1, <2>2 DEF HookInv
<1>5. CASE \A c \in Conns : ~Command(c)
  <2>1. [cmd |-> "begin"].cmd # "store"
    OBVIOUS
  <2>2. CASE Conns = {}
    BY <1>5, <2>2, OtherSteps DEF HookInv, OwnHooksDistinct
  <2>3. QED
    BY <1>4, <1>5, <2>1, <2>2, OtherSteps
<1>6. ASSUME NEW c \in Conns, CreateHook(c)
      PROVE  HookInv'
  <2>1. op' = [op EXCEPT ![c] = [cmd |-> "store", hook |-> Len(hooks) + 1]]
    BY <1>6 DEF CreateHook, Continues, NextHookId
  <2>2. UNCHANGED <<hooks, told>>
    BY <1>6 DEF CreateHook
  <2>3. OwnHooksDistinct'
    BY <2>2 DEF HookInv, OwnHooksDistinct
  <2>4. op'[c].hook = Len(hooks) + 1
    BY <1>1, <2>1
  <2>5. \A i \in DOMAIN told[c] : told[c][i] < Len(hooks) + 1
    BY <1>2, <1>3
  <2>6. \A d \in Conns : d # c => op'[d] = op[d]
    BY <1>1, <2>1
  <2>7. QED
    BY <1>2, <2>2, <2>3, <2>4, <2>5, <2>6 DEF HookInv
<1>7. ASSUME NEW c \in Conns, StoreHook(c)
      PROVE  HookInv'
  <2> DEFINE h == op[c].hook
             new == [by |-> c, status |-> "active"]
  <2>1. /\ op[c].cmd = "store"
        /\ hooks' = IF h \in DOMAIN hooks THEN [hooks EXCEPT ![h] = new] ELSE Append(hooks, new)
        /\ told' = [told EXCEPT ![c] = Append(@, h)]
        /\ op' = [op EXCEPT ![c] = Idle]
    BY <1>7 DEF StoreHook, Answers
  <2>2. h \in 1 .. Len(hooks) + 1 /\ \A i \in DOMAIN told[c] : told[c][i] < h
    BY <2>1 DEF HookInv
  <2> HIDE DEF h, new
  <2>3. /\ DOMAIN hooks' = 1 .. Len(hooks') /\ Len(hooks') \in Nat
        /\ Len(hooks') >= Len(hooks) /\ h \in 1 .. Len(hooks')
    <3>1. CASE h \in DOMAIN hooks
      <4>1. hooks' = [hooks EXCEPT ![h] = new] /\ new \in [by : Conns, status : {"active", "removed"}]
        BY <2>1, <3>1 DEF new
      <4>2. h \in 1 .. Len(hooks)
        BY <1>2, <3>1
      <4>3. /\ hooks' \in Seq([by : Conns, status : {"active", "removed"}])
            /\ Len(hooks') = Len(hooks)
        BY <1>1, <4>1, <4>2, ExceptSeq
      <4>4. QED
        BY <1>2, <4>2, <4>3, LenProperties
    <3>2. CASE h \notin DOMAIN hooks
      <4>1. hooks' = Append(hooks, new)
        BY <2>1, <3>2
      <4>2. new \in [by : Conns, status : {"active", "removed"}]
        BY DEF new
      <4>3. /\ hooks' \in Seq([by : Conns, status : {"active", "removed"}])
            /\ Len(hooks') = Len(hooks) + 1
        BY <1>1, <4>1, <4>2
      <4>4. QED
        BY <1>2, <2>2, <4>3, LenProperties
    <3>3. QED
      BY <3>1, <3>2
  <2>4. \A d \in Conns : d # c => told'[d] = told[d]
    BY <1>1, <2>1
  <2>5. /\ DOMAIN told'[c] = 1 .. Len(told[c]) + 1
        /\ told'[c][Len(told[c]) + 1] = h
        /\ \A i \in 1 .. Len(told[c]) : told'[c][i] = told[c][i]
        /\ DOMAIN told[c] = 1 .. Len(told[c]) /\ Len(told[c]) \in Nat
    <3>1. told[c] \in Seq(Nat) /\ h \in Nat
      BY <1>1, <1>2, <2>2
    <3>2. told'[c] = Append(told[c], h)
      BY <1>1, <2>1
    <3>3. QED
      BY <3>1, <3>2
  <2>6. ASSUME NEW d \in Conns
        PROVE  /\ \A i, j \in DOMAIN told'[d] : i < j => told'[d][i] < told'[d][j]
               /\ \A i \in DOMAIN told'[d] : told'[d][i] \in DOMAIN hooks'
    <3>1. CASE d # c
      <4>1. DOMAIN hooks \subseteq DOMAIN hooks'
        BY <1>2, <2>3
      <4>2. QED
        BY <1>3, <2>4, <3>1, <4>1
    <3>2. CASE d = c
      <4>1. \A i \in DOMAIN told[c] : told[c][i] \in DOMAIN hooks
        BY <1>3
      <4>2. \A i, j \in DOMAIN told[c] : i < j => told[c][i] < told[c][j]
        BY <1>3
      <4>3. \A i \in DOMAIN told'[c] :
              \/ i \in DOMAIN told[c] /\ told'[c][i] = told[c][i]
              \/ i = Len(told[c]) + 1 /\ told'[c][i] = h
        BY <2>5
      <4>4. ASSUME NEW i \in DOMAIN told'[c]
            PROVE  told'[c][i] \in DOMAIN hooks'
        BY <1>2, <2>3, <4>1, <4>3, <4>4
      <4>5. ASSUME NEW i \in DOMAIN told'[c], NEW j \in DOMAIN told'[c], i < j
            PROVE  told'[c][i] < told'[c][j]
        <5>1. i \in DOMAIN told[c]
          BY <2>5, <4>5
        <5>2. QED
          BY <2>2, <4>2, <4>3, <4>5, <5>1, <2>5
      <4>6. QED
        BY <3>2, <4>4, <4>5
    <3>3. QED
      BY <3>1, <3>2
  <2>7. OwnHooksDistinct'
    BY <2>6 DEF OwnHooksDistinct, ToSet
  <2>8. \A d \in Conns : op'[d].cmd = "store" => d # c /\ op'[d] = op[d]
    BY <1>1, <2>1 DEF Idle
  <2>9. ASSUME NEW d \in Conns, op'[d].cmd = "store"
        PROVE  op'[d].hook \in 1 .. Len(hooks') + 1 /\ \A i \in DOMAIN told'[d] : told'[d][i] < op'[d].hook
    <3>1. d # c /\ op'[d] = op[d] /\ told'[d] = told[d]
      BY <2>4, <2>8, <2>9
    <3>2. op[d].hook \in 1 .. Len(hooks) + 1 /\ \A i \in DOMAIN told[d] : told[d][i] < op[d].hook
      BY <2>9, <3>1 DEF HookInv
    <3>3. QED
      BY <1>2, <2>3, <3>1, <3>2
  <2>10. QED
    BY <2>7, <2>9 DEF HookInv
<1>8. ASSUME NEW c \in Conns, Command(c), ~CreateHook(c), ~StoreHook(c)
      PROVE  HookInv'
  <2>1. told' = told
    BY <1>8 DEF Command, Unhook, MemoryDump, JobStatus, AdvanceRaises, AdvanceChecks,
                AdvanceWrites, AdvanceTests, JobStatusAnswers, JobCancel, MessageAnswered,
                CommandRefused, CommandLooks, ElementLooks, CommandRaises, Dies
  <2>2. DOMAIN hooks' = DOMAIN hooks /\ Len(hooks') = Len(hooks)
    <3>1. CASE Unhook(c)
      <4>1. PICK h \in DOMAIN hooks : hooks' = [hooks EXCEPT ![h] = [hooks[h] EXCEPT !.status = "removed"]]
        BY <3>1 DEF Unhook
      <4>2. DOMAIN hooks' = DOMAIN hooks
        BY <4>1
      <4>3. hooks' \in Seq([by : Conns, status : {"active", "removed"}])
        BY <1>8, CommandTypes
      <4>4. QED
        BY <1>2, <4>2, <4>3, LenProperties
    <3>2. CASE ~Unhook(c)
      BY <1>8, <3>2 DEF Command, MemoryDump, JobStatus, AdvanceRaises, AdvanceChecks,
                        AdvanceWrites, AdvanceTests, JobStatusAnswers, JobCancel, MessageAnswered,
                        CommandRefused, CommandLooks, ElementLooks, CommandRaises, Dies
    <3>3. QED
      BY <3>1, <3>2
  <2>3. \E o : o.cmd # "store" /\ op' = [op EXCEPT ![c] = o]
    <3>1. Idle.cmd # "store"
      BY DEF Idle
    <3>2. CASE JobStatus(c)
      <4>1. op' = [op EXCEPT ![c] = [cmd |-> "advance", job |-> 1, size |-> Len(jobs)]]
        BY <3>2 DEF JobStatus, Continues
      <4>2. QED
        BY <4>1
    <3>3. CASE AdvanceWrites(c) \/ AdvanceTests(c)
      <4>1. \/ op' = [op EXCEPT ![c] = [cmd |-> "test", job |-> op[c].job, size |-> op[c].size]]
            \/ op' = [op EXCEPT ![c] = [cmd |-> "advance", job |-> op[c].job + 1, size |-> op[c].size]]
        BY <3>3 DEF AdvanceWrites, AdvanceTests, Continues
      <4>2. QED
        BY <4>1
    <3>4. CASE AdvanceChecks(c)
      <4>1. op[c].cmd = "advance" /\ op[c] \in Ops
        BY <1>1, <3>4 DEF AdvanceChecks, Advancing
      <4>2. [op[c] EXCEPT !.job = op[c].job + 1].cmd = "advance"
        BY <4>1 DEF Ops
      <4>3. [cmd |-> "progress", job |-> op[c].job, size |-> op[c].size,
             half |-> jobs[op[c].job].half].cmd = "progress"
        OBVIOUS
      <4>4. QED
        BY <3>4, <4>2, <4>3 DEF AdvanceChecks, Continues
    <3>5. CASE ~JobStatus(c) /\ ~AdvanceWrites(c) /\ ~AdvanceChecks(c) /\ ~AdvanceTests(c)
      <4>1. op' = [op EXCEPT ![c] = Idle]
        BY <1>8, <3>5 DEF Command, Unhook, MemoryDump, AdvanceRaises, JobStatusAnswers, JobCancel,
                          MessageAnswered, CommandRefused, CommandLooks, ElementLooks,
                          CommandRaises, Dies, Answers
      <4>2. QED
        BY <3>1, <4>1
    <3>6. QED
      BY <3>2, <3>3, <3>4, <3>5
  <2>4. QED
    BY <1>4, <2>1, <2>2, <2>3
<1>9. QED
  BY <1>5, <1>6, <1>7, <1>8

-----------------------------------------------------------------------------
(* Types, connections and the order of messages                            *)

LEMMA InitInv == Init => IInv
<1> SUFFICES ASSUME Init PROVE IInv
  OBVIOUS
<1> USE DEF Init
<1>1. Types
  BY DEF Types, Pcs, Idle, Ops
<1>2. ListInv
  BY DEF ListInv, OpenConnsListed
<1>3. HandInv
  BY DEF HandInv, OpensWithHandshake
<1>4. HookInv
  BY DEF HookInv, OwnHooksDistinct, Idle, ToSet
<1>5. BusyInv /\ JobsInv
  BY DEF BusyInv, JobsInv, Idle
<1>6. QED
  BY <1>1, <1>2, <1>3, <1>4, <1>5 DEF IInv

\* What one step does to connections: it moves one thread and may write on its
\* connection, or it belongs to the test or the accept thread.
LEMMA ServeShape ==
  ASSUME Types, NEW c \in Conns, Serve(c) \/ ServeMessage(c)
  PROVE  /\ emitting' = emitting /\ op' \in [Conns -> Ops] /\ UNCHANGED <<hooks, told, jobs>>
         /\ \E here, there \in Pcs :
              /\ cpc[c] = here /\ cpc' = [cpc EXCEPT ![c] = there]
              /\ here \notin {"none", "accepted"} /\ there \notin {"none", "accepted"}
<1> USE DEF Steps, ctlVars, lifeVars, connVars, dataVars, Pcs, Types
<1>1. CASE Serve(c)
  BY <1>1 DEF Serve, HelloMissing, SendAck, SendReady, SetReady, Greet,
              LoopEnds, ServeCloses, ServeUnlists
<1>2. CASE HelloArrives(c) \/ HelloRefused(c) \/ ClientGone(c) \/ LoopReadsMalformed(c)
  BY <1>2 DEF HelloArrives, HelloRefused, ClientGone, LoopReadsMalformed
<1>3. CASE LoopStartsCommand(c)
  <2>1. [cmd |-> "begin"] \in Ops
    BY DEF Ops
  <2>2. op' = [op EXCEPT ![c] = [cmd |-> "begin"]] /\ UNCHANGED <<hooks, told, jobs>>
    BY <1>3 DEF LoopStartsCommand
  <2>3. op' \in [Conns -> Ops]
    BY <2>1, <2>2
  <2>4. QED
    BY <1>3, <2>2, <2>3 DEF LoopStartsCommand
<1>4. QED
  BY <1>1, <1>2, <1>3 DEF ServeMessage

LEMMA TypesStep ==
  ASSUME Types, HookInv, JobsInv, [Next]_vars
  PROVE  Types'
<1> USE DEF ctlVars, lifeVars, connVars, dataVars
<1>1. CASE UNCHANGED vars
  BY <1>1 DEF vars, Types
<1>2. CASE Start \/ StopBegins \/ StopClosesServer \/ StopJoins \/ AcceptEnds
  BY <1>2 DEF Start, StopBegins, StopClosesServer, StopJoins, AcceptEnds, Types
<1>3. CASE StopClears \/ DropConnections
  BY <1>3 DEF StopClears, DropConnections, CloseListed, Types
<1>4. CASE EmitChooses
  BY <1>4 DEF EmitChooses, Types
<1>5. CASE EmitWrites
  <2>1. PICK c \in emitting : emitting' = emitting \ {c} /\ Sends(c, <<Event(c, "JNI_CALL")>>)
    BY <1>5 DEF EmitWrites
  <2>2. c \in Conns
    BY <2>1 DEF Types
  <2>3. out' \in [Conns -> Seq(Messages)]
    BY <2>1, <2>2, EmittedMessage, SendsEffect
  <2>4. QED
    BY <1>5, <2>1, <2>3 DEF EmitWrites, Types
<1>6. CASE AcceptLists
  BY <1>6 DEF AcceptLists, Types, Pcs
<1>7. ASSUME NEW c \in Conns, Accept(c)
      PROVE  Types'
  BY <1>7 DEF Accept, Types, Pcs
<1>8. ASSUME NEW c \in Conns, Serve(c) \/ ServeMessage(c)
      PROVE  Types'
  <2>1. /\ emitting' = emitting /\ op' \in [Conns -> Ops] /\ UNCHANGED <<hooks, told, jobs>>
        /\ cpc' \in [Conns -> Pcs]
    BY <1>8, ServeShape DEF Types
  <2>2. listed' \subseteq Conns /\ open' \subseteq Conns /\ ready' \subseteq Conns
    BY <1>8 DEF Serve, ServeMessage, HelloMissing, SendAck, SendReady, SetReady, Greet,
                LoopEnds, ServeCloses, ServeUnlists, HelloArrives, HelloRefused, ClientGone,
                LoopReadsMalformed, LoopStartsCommand, Steps, Reads, Types
  <2>3. out' \in [Conns -> Seq(Messages)]
    <3>1. CASE SendAck(c) \/ SendReady(c) \/ Greet(c) \/ HelloRefused(c) \/ LoopReadsMalformed(c)
      BY <3>1, ThreadSends, SendsEffect
    <3>2. CASE out' = out
      BY <3>2 DEF Types
    <3>3. QED
      BY <1>8, <3>1, <3>2 DEF Serve, ServeMessage, HelloMissing, SetReady, LoopEnds, ServeCloses,
              ServeUnlists, HelloArrives, ClientGone, LoopStartsCommand
  <2>4. QED
    BY <2>1, <2>2, <2>3 DEF Types
<1>9. ASSUME NEW c \in Conns, Command(c)
      PROVE  Types'
  <2>1. /\ op' \in [Conns -> Ops] /\ told' \in [Conns -> Seq(Nat)]
        /\ hooks' \in Seq([by : Conns, status : {"active", "removed"}])
        /\ jobs' \in Seq(Job)
    BY <1>9, CommandTypes
  <2>2. UNCHANGED <<listed, open, ready, emitting>>
    BY <1>9, CommandShape
  <2>3. cpc' \in [Conns -> Pcs]
    BY <1>9, CommandShape DEF Types, Pcs
  <2>4. out' \in [Conns -> Seq(Messages)]
    BY <1>9, CommandShape, SendsEffect DEF Types
  <2>5. QED
    BY <2>1, <2>2, <2>3, <2>4 DEF Types
<1>10. QED
  BY <1>1, <1>2, <1>3, <1>4, <1>5, <1>6, <1>7, <1>8, <1>9 DEF Next, Stop, AcceptLoop

LEMMA ListStep ==
  ASSUME Types, ListInv, [Next]_vars
  PROVE  ListInv'
<1> USE DEF ctlVars, lifeVars, connVars, dataVars, ListInv, OpenConnsListed
<1>1. CASE UNCHANGED vars
  BY <1>1 DEF vars
<1>2. CASE Start \/ StopBegins \/ StopClosesServer \/ StopJoins \/ AcceptEnds \/ EmitChooses \/ EmitWrites
  BY <1>2 DEF Start, StopBegins, StopClosesServer, StopJoins, AcceptEnds, EmitChooses, EmitWrites
\* what is listed is closed, what is not has been accepted just now
<1>3. CASE StopClears \/ DropConnections
  BY <1>3 DEF StopClears, DropConnections, CloseListed
<1>4. CASE AcceptLists
  <2>1. PICK c \in Conns : /\ cpc[c] = "accepted" /\ cpc' = [cpc EXCEPT ![c] = "hello"]
                           /\ listed' = listed \cup {c}
    BY <1>4 DEF AcceptLists
  <2>2. QED
    BY <1>4, <2>1 DEF AcceptLists, Types
<1>5. ASSUME NEW c \in Conns, Accept(c)
      PROVE  ListInv'
  BY <1>5 DEF Accept, Types
<1>6. ASSUME NEW c \in Conns, ServeCloses(c)
      PROVE  ListInv'
  BY <1>6 DEF ServeCloses, Steps, Types
<1>7. ASSUME NEW c \in Conns, ServeUnlists(c)
      PROVE  ListInv'
  BY <1>7 DEF ServeUnlists, Types
<1>8. ASSUME NEW c \in Conns, Serve(c) \/ ServeMessage(c), ~ServeCloses(c), ~ServeUnlists(c)
      PROVE  ListInv'
  <2>1. UNCHANGED <<open, listed>>
    BY <1>8 DEF Serve, ServeMessage, HelloMissing, SendAck, SendReady, SetReady, Greet,
                LoopEnds, HelloArrives, HelloRefused, ClientGone,
                LoopReadsMalformed, LoopStartsCommand, Steps, Reads
  <2>2. cpc'[c] # "unlist" /\ cpc[c] # "accepted"
    BY <1>8 DEF Serve, ServeMessage, HelloMissing, SendAck, SendReady, SetReady, Greet,
                LoopEnds, HelloArrives, HelloRefused, ClientGone,
                LoopReadsMalformed, LoopStartsCommand, Steps, Types
  <2>3. \A d \in Conns : d # c => cpc'[d] = cpc[d]
    BY <1>8, ServeShape DEF Types
  <2>4. QED
    BY <2>1, <2>2, <2>3 DEF Types
<1>9. ASSUME NEW c \in Conns, Command(c)
      PROVE  ListInv'
  BY <1>9, CommandShape DEF Types
<1>10. QED
  BY <1>1, <1>2, <1>3, <1>4, <1>5, <1>6, <1>7, <1>8, <1>9 DEF Next, Stop, AcceptLoop

\* A thread goes from one place to another and writes nothing.
LEMMA HandQuiet ==
  ASSUME Types, HandInv, NEW c \in Conns, NEW here \in Pcs, NEW there \in Pcs,
         cpc[c] = here, cpc' = [cpc EXCEPT ![c] = there],
         UNCHANGED <<emitting, out>>,
         open' \subseteq open,
         \/ ready' = ready
         \/ ready' = ready \cup {c} /\ here = "setready",
         \/ there \in {"bye", "unlist", "gone"}
         \/ here = "hello" /\ there = "ack"
         \/ here \in {"setready", "greet", "loop", "busy"} /\ there \in {"greet", "loop", "busy"}
  PROVE  HandInv'
<1>1. OpensWithHandshake'
  BY DEF HandInv, OpensWithHandshake
<1>2. emitting' \subseteq ready'
  BY DEF HandInv
<1>3. \A d \in Conns : cpc'[d] = IF d = c THEN there ELSE cpc[d]
  BY DEF Types
<1>4. ASSUME NEW d \in Conns
      PROVE  /\ cpc'[d] = "none" => out'[d] = <<>> /\ d \notin ready'
             /\ d \in open' =>
                  /\ cpc'[d] \in {"accepted", "hello", "ack"} => out'[d] = <<>>
                  /\ cpc'[d] = "sendready" => out'[d] = <<make_hello_ack(V, d)>>
                  /\ cpc'[d] \in {"setready", "greet", "loop", "busy"} => Len(out'[d]) = 2
                  /\ d \in ready' => Len(out'[d]) = 2
  BY <1>3 DEF HandInv
<1>5. QED
  BY <1>1, <1>2, <1>4 DEF HandInv

LEMMA HandStep ==
  ASSUME Types, HandInv, [Next]_vars
  PROVE  HandInv'
<1> USE DEF ctlVars, lifeVars, connVars, dataVars
<1>1. CASE UNCHANGED vars
  BY <1>1 DEF vars, HandInv, OpensWithHandshake
<1>2. CASE \/ Start \/ StopBegins \/ Stop \/ DropConnections \/ AcceptEnds
  <2>1. UNCHANGED <<cpc, out, ready, emitting>> /\ open' \subseteq open
    BY <1>2 DEF Start, StopBegins, Stop, StopClears, StopClosesServer, StopJoins, AcceptEnds,
                DropConnections, CloseListed
  <2>2. QED
    BY <2>1 DEF HandInv, OpensWithHandshake
<1>3. CASE EmitChooses
  BY <1>3 DEF EmitChooses, HandInv, OpensWithHandshake
<1>4. CASE EmitWrites
  <2>1. PICK c \in emitting : emitting' = emitting \ {c} /\ Sends(c, <<Event(c, "JNI_CALL")>>)
    BY <1>4 DEF EmitWrites
  <2>2. c \in Conns /\ (c \in open => Len(out[c]) = 2)
    BY <2>1 DEF Types, HandInv
  <2>3. out' = out
    BY <2>1, <2>2, SendsMore, EmittedMessage
  <2>4. QED
    BY <1>4, <2>1, <2>3 DEF EmitWrites, HandInv, OpensWithHandshake
<1>5. CASE AcceptLists
  <2>1. PICK c \in Conns : cpc[c] = "accepted" /\ cpc' = [cpc EXCEPT ![c] = "hello"]
    BY <1>5 DEF AcceptLists
  <2>2. QED
    BY <1>5, <2>1 DEF AcceptLists, Types, HandInv, OpensWithHandshake
<1>6. ASSUME NEW c \in Conns, Accept(c)
      PROVE  HandInv'
  BY <1>6 DEF Accept, Types, HandInv, OpensWithHandshake
<1>7. ASSUME NEW c \in Conns, SendAck(c)
      PROVE  HandInv'
  <2>1. /\ cpc[c] = "ack" /\ cpc' = [cpc EXCEPT ![c] = "sendready"]
        /\ UNCHANGED <<open, ready, emitting>>
    BY <1>7 DEF SendAck, Steps
  <2>2. /\ out' \in [Conns -> Seq(Messages)]
        /\ \A d \in Conns : d # c \/ c \notin open => out'[d] = out[d]
        /\ c \in open => out'[c] = FirstTwo(out[c] \o <<make_hello_ack(V, c)>>)
    BY <1>7, SendsEffect, OwnMessages, OneMessage DEF SendAck
  <2>3. c \in open => out'[c] = <<make_hello_ack(V, c)>>
    <3>1. c \in open => out[c] = <<>>
      BY <2>1 DEF HandInv
    <3>2. QED
      BY <2>2, <3>1, FirstTwoOfOne, OwnMessages
  <2>4. c \in open => c \notin ready
    <3>1. c \in open => out[c] = <<>> /\ (c \in ready => Len(out[c]) = 2)
      BY <2>1 DEF HandInv
    <3>2. QED
      BY <3>1
  <2>5. OpensWithHandshake'
    BY <2>2, <2>3 DEF HandInv, OpensWithHandshake
  <2>6. QED
    BY <2>1, <2>2, <2>3, <2>4, <2>5 DEF HandInv, Types
<1>8. ASSUME NEW c \in Conns, SendReady(c)
      PROVE  HandInv'
  <2>1. /\ cpc[c] = "sendready" /\ cpc' = [cpc EXCEPT ![c] = "setready"]
        /\ UNCHANGED <<open, ready, emitting>>
    BY <1>8 DEF SendReady, Steps
  <2>2. /\ out' \in [Conns -> Seq(Messages)]
        /\ \A d \in Conns : d # c \/ c \notin open => out'[d] = out[d]
        /\ c \in open => out'[c] = FirstTwo(out[c] \o <<make_ready(V, c, "RUNNING")>>)
    BY <1>8, SendsEffect, OwnMessages, OneMessage DEF SendReady
  <2>3. c \in open => /\ Len(out'[c]) = 2 /\ out'[c][1] = make_hello_ack(V, c)
                      /\ out'[c][2] = make_ready(V, c, "RUNNING")
    <3>1. c \in open => out[c] = <<make_hello_ack(V, c)>>
      BY <2>1 DEF HandInv
    <3>2. make_hello_ack(V, c) \in Messages /\ make_ready(V, c, "RUNNING") \in Messages
      BY OwnMessages
    <3>3. LET two == FirstTwo(<<make_hello_ack(V, c)>> \o <<make_ready(V, c, "RUNNING")>>)
          IN  /\ Len(two) = 2
              /\ two[1] = make_hello_ack(V, c) /\ two[2] = make_ready(V, c, "RUNNING")
      BY <3>2, FirstTwoOfTwo
    <3>4. QED
      BY <2>2, <3>1, <3>3
  <2>4. Accepts(V, make_hello_ack(V, c), make_ready(V, c, "RUNNING"))
    BY VersionsTheorem DEF SessionState
  <2>5. OpensWithHandshake'
    BY <2>2, <2>3, <2>4 DEF HandInv, OpensWithHandshake
  <2>6. QED
    BY <2>1, <2>2, <2>3, <2>5 DEF HandInv, Types
<1>9. ASSUME NEW c \in Conns, HelloRefused(c)
      PROVE  HandInv'
  <2>1. /\ cpc[c] = "hello" /\ cpc' = [cpc EXCEPT ![c] = "bye"] /\ c \in open
        /\ UNCHANGED <<open, ready, emitting>>
    BY <1>9 DEF HelloRefused, Steps
  <2>2. PICK m \in Messages : m.type = "ERROR" /\ Sends(c, <<m>>)
    BY <1>9, Refusal
  <2>3. /\ out' \in [Conns -> Seq(Messages)]
        /\ \A d \in Conns : d # c => out'[d] = out[d]
        /\ out'[c] = FirstTwo(out[c] \o <<m>>)
    BY <2>2, <2>1, SendsEffect, OneMessage
  <2>4. out[c] = <<>> /\ (c \in ready => Len(out[c]) = 2)
    BY <2>1 DEF HandInv
  <2>5. out'[c] = <<m>> /\ c \notin ready
    BY <2>3, <2>4, FirstTwoOfOne
  <2>6. OpensWithHandshake'
    BY <2>2, <2>3, <2>5 DEF HandInv, OpensWithHandshake
  <2>7. QED
    BY <2>1, <2>3, <2>5, <2>6 DEF HandInv, Types
\* two messages have been sent already
<1>10. ASSUME NEW c \in Conns, Greet(c) \/ LoopReadsMalformed(c)
       PROVE  HandInv'
  <2>1. cpc[c] \in {"greet", "loop"}
    BY <1>10 DEF Greet, LoopReadsMalformed, Steps
  <2>2. c \in open => Len(out[c]) = 2
    BY <2>1 DEF HandInv
  <2>3. out' = out
    BY <1>10, <2>2, SendsMore, ThreadSends
  <2>4. QED
    BY <1>10, <2>3, HandQuiet DEF Greet, LoopReadsMalformed, Steps, Pcs
<1>11. ASSUME NEW c \in Conns, \/ HelloMissing(c) \/ SetReady(c) \/ LoopEnds(c) \/ ServeCloses(c)
                               \/ ServeUnlists(c) \/ HelloArrives(c) \/ ClientGone(c)
                               \/ LoopStartsCommand(c)
       PROVE  HandInv'
  <2>1. CASE SetReady(c) \/ HelloMissing(c) \/ HelloArrives(c) \/ ClientGone(c)
    BY <2>1, HandQuiet DEF SetReady, HelloMissing, HelloArrives, ClientGone, Steps, Pcs
  <2>2. CASE LoopEnds(c) \/ ServeCloses(c) \/ ServeUnlists(c)
    BY <2>2, HandQuiet DEF LoopEnds, ServeCloses, ServeUnlists, Steps, Pcs
  <2>3. CASE LoopStartsCommand(c)
    BY <2>3, HandQuiet DEF LoopStartsCommand, Reads, Steps, Pcs
  <2>4. QED
    BY <1>11, <2>1, <2>2, <2>3
<1>12. ASSUME NEW c \in Conns, Command(c)
       PROVE  HandInv'
  <2>1. UNCHANGED <<emitting, open, ready>>
    BY <1>12, CommandShape
  <2>2. CASE UNCHANGED <<cpc, out>>
    BY <2>1, <2>2 DEF HandInv, OpensWithHandshake
  <2>3. CASE cpc[c] = "busy" /\ cpc' = [cpc EXCEPT ![c] = "loop"] /\ \E msgs \in Seq(Messages) : Sends(c, msgs)
    <3>1. c \in open => Len(out[c]) = 2
      BY <2>3 DEF HandInv
    <3>2. out' = out
      BY <2>3, <3>1, SendsMore
    <3>3. QED
      BY <2>1, <2>3, <3>2, HandQuiet DEF Pcs
  <2>4. CASE cpc[c] = "busy" /\ cpc' = [cpc EXCEPT ![c] = "bye"] /\ UNCHANGED out
    BY <2>1, <2>4, HandQuiet DEF Pcs
  <2>5. QED
    BY <1>12, <2>2, <2>3, <2>4, CommandShape
<1>13. QED
  BY <1>1, <1>2, <1>3, <1>4, <1>5, <1>6, <1>7, <1>8, <1>9, <1>10, <1>11, <1>12
     DEF Next, AcceptLoop, Serve, ServeMessage

\* Only commands have something to carry, and end with it.
LEMMA BusyStep ==
  ASSUME Types, BusyInv, [Next]_vars
  PROVE  BusyInv'
<1> USE DEF ctlVars, lifeVars, connVars, dataVars
<1>1. CASE UNCHANGED vars
  BY <1>1 DEF vars, BusyInv
<1>2. CASE \/ Start \/ StopBegins \/ Stop \/ DropConnections \/ AcceptEnds
           \/ EmitChooses \/ EmitWrites
  <2>1. UNCHANGED <<cpc, op>>
    BY <1>2 DEF Start, StopBegins, Stop, StopClears, StopClosesServer, StopJoins, AcceptEnds,
                DropConnections, CloseListed, EmitChooses, EmitWrites
  <2>2. QED
    BY <2>1 DEF BusyInv
<1>3. CASE AcceptLists
  BY <1>3 DEF AcceptLists, BusyInv, Types
<1>4. ASSUME NEW c \in Conns, Accept(c)
      PROVE  BusyInv'
  BY <1>4 DEF Accept, BusyInv, Types
<1>5. ASSUME NEW c \in Conns, Serve(c) \/ ServeMessage(c), ~LoopStartsCommand(c)
      PROVE  BusyInv'
  BY <1>5 DEF Serve, ServeMessage, HelloMissing, SendAck, SendReady, SetReady, Greet,
              LoopEnds, ServeCloses, ServeUnlists, HelloArrives, HelloRefused, ClientGone,
              LoopReadsMalformed, Steps, BusyInv, Types
<1>6. ASSUME NEW c \in Conns, LoopStartsCommand(c)
      PROVE  BusyInv'
  BY <1>6 DEF LoopStartsCommand, Steps, BusyInv, Types
<1>7. ASSUME NEW c \in Conns, Command(c)
      PROVE  BusyInv'
  <2>1. CASE \E o : Continues(c, o)
    <3>1. cpc[c] = "busy"
      BY <1>7, CommandBusy
    <3>2. cpc' = cpc /\ \A d \in Conns : d # c => op'[d] = op[d]
      BY <2>1 DEF Continues, Types
    <3>3. QED
      BY <3>1, <3>2 DEF BusyInv
  <2>2. CASE (\E msgs : Answers(c, msgs)) \/ Dies(c)
    <3>1. op' = [op EXCEPT ![c] = Idle] /\ \A d \in Conns : d # c => cpc'[d] = cpc[d]
      BY <2>2 DEF Answers, Dies, Steps, Types
    <3>2. op'[c] = Idle /\ \A d \in Conns : d # c => op'[d] = op[d]
      BY <3>1 DEF Types
    <3>3. QED
      BY <3>1, <3>2 DEF BusyInv, Idle
  <2>3. QED
    BY <1>7, <2>1, <2>2, CommandOutcome
<1>8. QED
  BY <1>1, <1>2, <1>3, <1>4, <1>5, <1>6, <1>7 DEF Next, AcceptLoop

\* Steps that leave jobs alone, and in which nobody who carries a progress, or
\* is about to look at one again, forgets it.
LEMMA JobsQuiet ==
  ASSUME Types, JobsInv, jobs' = jobs,
         \/ op' = op
         \/ \E c \in Conns : \E o : /\ op[c].cmd # "test" /\ o.cmd \notin {"progress", "test"}
                                 /\ op' = [op EXCEPT ![c] = o]
  PROVE  JobsInv'
<1>1. CASE op' = op
  BY <1>1 DEF JobsInv
<1>2. ASSUME NEW c \in Conns, NEW o, op[c].cmd # "test", o.cmd \notin {"progress", "test"},
             op' = [op EXCEPT ![c] = o]
      PROVE  JobsInv'
  <2>1. op'[c].cmd \notin {"progress", "test"} /\ \A d \in Conns : d # c => op'[d] = op[d]
    BY <1>2 DEF Types
  <2>2. \A d \in Conns : op'[d].cmd \in {"progress", "test"} => op'[d] = op[d]
    BY <2>1
  <2>3. \A d \in Conns, j \in DOMAIN jobs :
          op[d].cmd = "test" /\ op[d].job = j => op'[d].cmd = "test" /\ op'[d].job = j
    BY <1>2, <2>1
  <2>4. QED
    BY <2>2, <2>3 DEF JobsInv
<1>3. QED
  BY <1>1, <1>2

\* A round that writes keeps the count, and ends that of every other client's
\* being the only one.
LEMMA AdvancedCounted ==
  ASSUME NEW r \in Job, NEW half \in 0 .. 2, NEW c \in Conns,
         Counted(r), ReadCounted(half, r, c)
  PROVE  LET a == Advanced(r, half, c)
         IN  /\ Counted(a)
             /\ \E d \in Conns : a.rounds[d] > 0
             /\ \A d \in Conns : d # c => ~Alone(a, d)
<1> DEFINE a == Advanced(r, half, c)
<1>1. /\ a \in Job /\ a.state = r.state /\ a.half = AtMostTwo(half + 1)
      /\ a.rounds[c] = AtMostTwo(r.rounds[c] + 1)
      /\ \A d \in Conns : d # c => a.rounds[d] = r.rounds[d]
  BY AdvancedType
<1> HIDE DEF a
<1>2. r.rounds \in [Conns -> 0 .. 2] /\ r.half \in 0 .. 2 /\ a.rounds \in [Conns -> 0 .. 2]
  BY <1>1 DEF Job
<1>3. a.rounds[c] > 0 /\ \A d \in Conns : r.rounds[d] > 0 => a.rounds[d] > 0
  BY <1>1, <1>2 DEF AtMostTwo
<1>4. \A d \in Conns : d # c => ~Alone(a, d)
  BY <1>2, <1>3 DEF Alone
<1>5. TwoRounds(r) => TwoRounds(a)
  <2>1. \A d \in Conns : r.rounds[d] = 2 => a.rounds[d] = 2
    BY <1>1, <1>2 DEF AtMostTwo
  <2>2. QED
    BY <1>3, <2>1 DEF TwoRounds
<1>6. a.half = 2 => TwoRounds(a)
  <2>1. SUFFICES ASSUME a.half = 2
                 PROVE  TwoRounds(a)
    OBVIOUS
  <2>2. half > 0
    BY <1>1, <2>1 DEF AtMostTwo
  <2>3. PICK d \in Conns : r.rounds[d] > 0
    BY <2>2 DEF ReadCounted
  <2>4. CASE d = c
    <3>1. a.rounds[c] = 2
      BY <1>1, <1>2, <2>3, <2>4 DEF AtMostTwo
    <3>2. QED
      BY <3>1 DEF TwoRounds
  <2>5. CASE d # c
    BY <1>3, <2>3, <2>5 DEF TwoRounds
  <2>6. QED
    BY <2>4, <2>5
<1>7. ASSUME Alone(a, c)
      PROVE  a.half = a.rounds[c]
  <2>1. Alone(r, c)
    BY <1>1, <1>7 DEF Alone
  <2>2. half = r.rounds[c]
    BY <2>1 DEF ReadCounted
  <2>3. QED
    BY <1>1, <2>2
<1>8. \A d \in Conns : Alone(a, d) => a.half = a.rounds[d]
  BY <1>4, <1>7
<1>9. Counted(a)
  BY <1>1, <1>3, <1>5, <1>6, <1>8 DEF Counted
<1>10. QED
  BY <1>3, <1>4, <1>9 DEF a

LEMMA JobsStep ==
  ASSUME Types, BusyInv, JobsInv, [Next]_vars
  PROVE  JobsInv'
<1>1. op \in [Conns -> Ops] /\ jobs \in Seq(Job)
  BY DEF Types
<1>2. Len(jobs) \in Nat /\ DOMAIN jobs = 1 .. Len(jobs)
  BY <1>1, LenProperties
<1>3. \A j \in DOMAIN jobs : jobs[j] \in Job
  BY <1>1, <1>2, ElementOfSeq
<1>4. CASE \A c \in Conns : ~Command(c)
  <2>1. CASE UNCHANGED <<jobs, op>>
    BY <2>1, JobsQuiet
  <2>2. CASE \E c \in Conns : LoopStartsCommand(c)
    <3>1. PICK c \in Conns : LoopStartsCommand(c)
      BY <2>2
    <3>2. cpc[c] = "loop" /\ jobs' = jobs /\ op' = [op EXCEPT ![c] = [cmd |-> "begin"]]
      BY <3>1 DEF LoopStartsCommand, Steps
    <3>3. op[c].cmd # "test" /\ [cmd |-> "begin"].cmd \notin {"progress", "test"}
      BY <3>2 DEF BusyInv
    <3>4. QED
      BY <3>2, <3>3, JobsQuiet
  <2>3. QED
    BY <1>4, <2>1, <2>2, OtherSteps
<1>5. ASSUME NEW c \in Conns, MemoryDump(c)
      PROVE  JobsInv'
  <2> DEFINE new == [state |-> "running", half |-> 0, rounds |-> [d \in Conns |-> 0]]
  <2>1. /\ jobs' = Append(jobs, new) /\ op' = [op EXCEPT ![c] = Idle] /\ op[c].cmd = "begin"
    BY <1>5 DEF MemoryDump, Answers, Begins
  <2>2. new \in Job /\ Counted(new) /\ \A d \in Conns : Ended(new, d)
    BY DEF Job, JobStates, Counted, Ended, Alone
  <2> HIDE DEF new
  <2>3. /\ DOMAIN jobs' = 1 .. Len(jobs) + 1 /\ jobs'[Len(jobs) + 1] = new
        /\ \A j \in DOMAIN jobs : jobs'[j] = jobs[j]
    BY <1>1, <1>2, <2>1, <2>2
  <2>4. \A d \in Conns : d # c => op'[d] = op[d]
    BY <1>1, <2>1
  <2>5. op'[c].cmd \notin {"progress", "test"}
    BY <1>1, <2>1 DEF Idle
  <2>6. \A d \in Conns : op'[d].cmd \in {"progress", "test"} =>
          op'[d] = op[d] /\ op[d].job \in DOMAIN jobs
    BY <2>4, <2>5 DEF JobsInv
  <2>7. \A d \in Conns : op'[d].cmd \in {"progress", "test"} => op'[d].job \in DOMAIN jobs'
    BY <1>2, <2>3, <2>6
  <2>8. ASSUME NEW j \in DOMAIN jobs'
        PROVE  /\ Counted(jobs'[j])
               /\ \A d \in Conns : Ended(jobs'[j], d) \/ (op'[d].cmd = "test" /\ op'[d].job = j)
    <3>1. CASE j \in DOMAIN jobs
      <4>1. Counted(jobs[j]) /\ jobs'[j] = jobs[j]
        BY <2>3, <3>1 DEF JobsInv
      <4>2. ASSUME NEW d \in Conns
            PROVE  Ended(jobs[j], d) \/ (op'[d].cmd = "test" /\ op'[d].job = j)
        BY <2>1, <2>4, <3>1 DEF JobsInv
      <4>3. QED
        BY <4>1, <4>2
    <3>2. CASE j \notin DOMAIN jobs
      <4>1. jobs'[j] = new
        BY <1>2, <2>3, <3>2
      <4>2. QED
        BY <2>2, <4>1
    <3>3. QED
      BY <3>1, <3>2
  <2>9. \A d \in Conns :
          op'[d].cmd = "progress" => ReadCounted(op'[d].half, jobs'[op'[d].job], d)
    BY <2>3, <2>6 DEF JobsInv
  <2>10. QED
    BY <2>7, <2>8, <2>9 DEF JobsInv
<1>6. ASSUME NEW c \in Conns, AdvanceChecks(c)
      PROVE  JobsInv'
  <2> DEFINE j == op[c].job
             o == [cmd |-> "progress", job |-> j, size |-> op[c].size, half |-> jobs[j].half]
  <2>1. op[c] \in [cmd : {"advance"}, job : Nat \ {0}, size : Nat] /\ jobs' = jobs
    BY <1>1, <1>6 DEF AdvanceChecks, Advancing, Ops
  <2>2. j \in DOMAIN jobs
    BY <1>2, <1>6, <2>1 DEF AdvanceChecks
  <2>3. CASE op' = [op EXCEPT ![c] = o]
    <3>1. op'[c] = o /\ \A d \in Conns : d # c => op'[d] = op[d]
      BY <1>1, <2>3
    <3>2. ReadCounted(jobs[j].half, jobs[j], c)
      <4>1. Counted(jobs[j])
        BY <2>2 DEF JobsInv
      <4>2. QED
        BY <4>1 DEF Counted, ReadCounted
    <3>3. op'[c].cmd = "progress" /\ op'[c].job = j /\ op'[c].half = jobs[j].half
      BY <3>1
    <3> HIDE DEF o, j
    <3>4. \A d \in Conns : op'[d].cmd \in {"progress", "test"} => op'[d].job \in DOMAIN jobs'
      BY <2>1, <2>2, <3>1, <3>3 DEF JobsInv
    <3>5. \A i \in DOMAIN jobs' :
            /\ Counted(jobs'[i])
            /\ \A d \in Conns : Ended(jobs'[i], d) \/ (op'[d].cmd = "test" /\ op'[d].job = i)
      BY <2>1, <3>1 DEF JobsInv
    <3>6. \A d \in Conns :
            op'[d].cmd = "progress" => ReadCounted(op'[d].half, jobs'[op'[d].job], d)
      BY <2>1, <3>1, <3>2, <3>3 DEF JobsInv
    <3>7. QED
      BY <3>4, <3>5, <3>6 DEF JobsInv
  <2>4. CASE op' = [op EXCEPT ![c] = [op[c] EXCEPT !.job = j + 1]]
    <3>1. [op[c] EXCEPT !.job = j + 1].cmd = "advance"
      BY <2>1
    <3>2. QED
      BY <2>1, <2>4, <3>1, JobsQuiet
  <2>5. QED
    BY <1>6, <2>3, <2>4 DEF AdvanceChecks, Continues
\* what c writes, the others' progress no longer being theirs alone
<1>7. ASSUME NEW c \in Conns, AdvanceWrites(c)
      PROVE  JobsInv'
  <2> DEFINE j == op[c].job
             a == Advanced(jobs[j], op[c].half, c)
             o == [cmd |-> "test", job |-> j, size |-> op[c].size]
  <2>1. /\ op[c] \in [cmd : {"progress"}, job : Nat \ {0}, size : Nat, half : 0 .. 2]
        /\ op' = [op EXCEPT ![c] = o]
    BY <1>1, <1>7 DEF AdvanceWrites, Continues, Ops
  <2>2. j \in DOMAIN jobs /\ jobs' = [jobs EXCEPT ![j] = a]
    BY <1>7, <2>1 DEF AdvanceWrites, JobsInv, Advanced
  <2>3. /\ Counted(a) /\ (\E d \in Conns : a.rounds[d] > 0)
        /\ \A d \in Conns : d # c => ~Alone(a, d)
    <3>1. Counted(jobs[j]) /\ ReadCounted(op[c].half, jobs[j], c)
      BY <2>1, <2>2 DEF JobsInv
    <3>2. QED
      BY <1>3, <2>1, <2>2, <3>1, AdvancedCounted
  <2>4. op'[c].cmd = "test" /\ op'[c].job = j /\ \A d \in Conns : d # c => op'[d] = op[d]
    BY <1>1, <2>1
  <2> HIDE DEF a, o, j
  <2>5. DOMAIN jobs' = DOMAIN jobs /\ jobs'[j] = a /\ \A i \in DOMAIN jobs : i # j => jobs'[i] = jobs[i]
    BY <2>2
  <2>6. \A d \in Conns : op'[d].cmd \in {"progress", "test"} => op'[d].job \in DOMAIN jobs'
    BY <2>2, <2>4, <2>5 DEF JobsInv
  <2>7. ASSUME NEW i \in DOMAIN jobs', NEW d \in Conns
        PROVE  /\ Counted(jobs'[i])
               /\ Ended(jobs'[i], d) \/ (op'[d].cmd = "test" /\ op'[d].job = i)
    <3>1. CASE i = j
      BY <2>3, <2>4, <2>5, <3>1 DEF Ended
    <3>2. CASE i # j /\ d # c
      BY <2>4, <2>5, <3>2 DEF JobsInv
    <3>3. CASE i # j /\ d = c
      <4>1. Counted(jobs[i]) /\ Ended(jobs[i], c)
        BY <2>1, <2>5, <3>3 DEF JobsInv
      <4>2. QED
        BY <2>5, <3>3, <4>1
    <3>4. QED
      BY <3>1, <3>2, <3>3
  <2>8. ASSUME NEW d \in Conns, op'[d].cmd = "progress"
        PROVE  ReadCounted(op'[d].half, jobs'[op'[d].job], d)
    <3>1. d # c /\ op'[d] = op[d] /\ op[d].job \in DOMAIN jobs
      BY <2>4, <2>8 DEF JobsInv
    <3>2. ReadCounted(op[d].half, jobs[op[d].job], d)
      BY <2>8, <3>1 DEF JobsInv
    <3>3. CASE op[d].job = j
      BY <2>3, <2>5, <3>1, <3>3 DEF ReadCounted
    <3>4. CASE op[d].job # j
      BY <2>5, <3>1, <3>2, <3>4
    <3>5. QED
      BY <3>3, <3>4
  <2>9. QED
    <3>1. CASE \E d \in Conns : TRUE
      BY <2>6, <2>7, <2>8 DEF JobsInv
    <3>2. QED
      BY <3>1
\* the only writer of a job has its number of rounds before it
<1>8. ASSUME NEW c \in Conns, AdvanceTests(c) \/ JobCancel(c)
      PROVE  JobsInv'
  <2>1. PICK j \in DOMAIN jobs, st \in {"completed", "cancelled"} :
          /\ \/ jobs' = jobs
             \/ jobs' = [jobs EXCEPT ![j] = [jobs[j] EXCEPT !.state = st]]
          /\ st = "completed" => jobs[j].half = 2 \/ jobs' = jobs
          /\ op[c].cmd = "test" =>
               /\ op[c].job = j
               /\ jobs[j].half = 2 => jobs' = [jobs EXCEPT ![j] = [jobs[j] EXCEPT !.state = "completed"]]
    <3>1. CASE AdvanceTests(c)
      <4>1. op[c].cmd = "test" /\ op[c].job \in DOMAIN jobs
        BY <3>1 DEF AdvanceTests, JobsInv
      <4>2. jobs[op[c].job].half \in 0 .. 2
        BY <1>3, <4>1 DEF Job
      <4>3. jobs[op[c].job].half >= 2 \/ jobs' = jobs
        BY <3>1 DEF AdvanceTests
      <4>4. CASE jobs[op[c].job].half >= 2
        <5>1. jobs' = [jobs EXCEPT ![op[c].job] = [jobs[op[c].job] EXCEPT !.state = "completed"]]
          BY <3>1, <4>4 DEF AdvanceTests
        <5>2. jobs[op[c].job].half = 2
          BY <4>2, <4>4
        <5>3. QED
          BY <4>1, <5>1, <5>2
      <4>5. CASE ~(jobs[op[c].job].half >= 2)
        <5>1. jobs[op[c].job].half # 2 /\ jobs' = jobs
          BY <4>2, <4>3, <4>5
        <5>2. QED
          BY <4>1, <5>1
      <4>6. QED
        BY <4>4, <4>5
    <3>2. CASE JobCancel(c)
      BY <3>2 DEF JobCancel, Begins
    <3>3. QED
      BY <1>8, <3>1, <3>2
  <2> DEFINE r == [jobs[j] EXCEPT !.state = st]
  <2>2. r.state = st /\ r.half = jobs[j].half /\ r.rounds = jobs[j].rounds
    BY <1>3 DEF Job
  <2> HIDE DEF r
  <2>3. /\ DOMAIN jobs' = DOMAIN jobs /\ \A i \in DOMAIN jobs : i # j => jobs'[i] = jobs[i]
        /\ jobs'[j] = jobs[j] \/ jobs'[j] = r
    BY <2>1 DEF r
  <2>4. \A i \in DOMAIN jobs : jobs'[i].half = jobs[i].half /\ jobs'[i].rounds = jobs[i].rounds
    BY <2>2, <2>3
  <2>5. /\ op'[c].cmd \in {"advance", "none"} /\ \A d \in Conns : d # c => op'[d] = op[d]
    <3>1. op' = [op EXCEPT ![c] = Idle] \/ op' = [op EXCEPT ![c] =
             [cmd |-> "advance", job |-> op[c].job + 1, size |-> op[c].size]]
      BY <1>8 DEF AdvanceTests, JobCancel, Continues, Answers
    <3>2. QED
      BY <1>1, <3>1 DEF Idle
  <2>6. \A i \in DOMAIN jobs : Counted(jobs'[i])
    <3>1. Counted(jobs[j]) /\ (jobs'[j] = r /\ st = "completed" => TwoRounds(jobs[j]) \/ jobs'[j] = jobs[j])
      BY <2>1 DEF JobsInv, Counted
    <3>2. ASSUME jobs'[j] = r
          PROVE  Counted(r)
      BY <2>2, <3>1, <3>2 DEF Counted, TwoRounds, Alone
    <3>3. QED
      BY <2>3, <3>1, <3>2 DEF JobsInv
  <2>7. ASSUME NEW i \in DOMAIN jobs, NEW d \in Conns
        PROVE  Ended(jobs'[i], d) \/ (op'[d].cmd = "test" /\ op'[d].job = i)
    <3>1. Ended(jobs[i], d) \/ (op[d].cmd = "test" /\ op[d].job = i)
      BY DEF JobsInv
    <3>2. Ended(jobs[i], d) => Ended(jobs'[i], d)
      BY <2>2, <2>3 DEF Ended, Alone
    <3>3. CASE op[c].cmd = "test" /\ d = c /\ i = j
      <4>1. Counted(jobs[j])
        BY DEF JobsInv
      <4>2. Alone(jobs[j], c) /\ jobs[j].rounds[c] = 2 => jobs[j].half = 2
        BY <4>1 DEF Counted
      <4>3. Alone(jobs[j], c) /\ jobs[j].rounds[c] = 2 => jobs'[j].state # "running"
        <5>1. SUFFICES ASSUME Alone(jobs[j], c) /\ jobs[j].rounds[c] = 2
                       PROVE  jobs'[j].state # "running"
          OBVIOUS
        <5>2. jobs' = [jobs EXCEPT ![j] = [jobs[j] EXCEPT !.state = "completed"]]
          BY <2>1, <3>3, <4>2, <5>1
        <5>3. jobs'[j] = [jobs[j] EXCEPT !.state = "completed"] /\ jobs[j] \in Job
          BY <1>3, <5>2
        <5>4. QED
          BY <5>3 DEF Job
      <4>4. QED
        BY <2>4, <3>3, <4>3 DEF Ended, Alone
    <3>4. QED
      BY <2>1, <2>5, <3>1, <3>2, <3>3
  <2>8. \A d \in Conns : op'[d].cmd = "progress" =>
          /\ op'[d] = op[d] /\ op[d].job \in DOMAIN jobs
          /\ ReadCounted(op[d].half, jobs[op[d].job], d)
    BY <2>5 DEF JobsInv
  <2>9. \A d \in Conns : op'[d].cmd = "progress" => ReadCounted(op'[d].half, jobs'[op'[d].job], d)
    BY <2>4, <2>8 DEF ReadCounted, Alone
  <2>10. \A d \in Conns : op'[d].cmd \in {"progress", "test"} => op'[d].job \in DOMAIN jobs'
    BY <2>3, <2>5 DEF JobsInv
  <2>11. QED
    BY <2>3, <2>6, <2>7, <2>9, <2>10 DEF JobsInv
<1>9. ASSUME NEW c \in Conns, Command(c), ~MemoryDump(c), ~AdvanceChecks(c), ~AdvanceWrites(c),
             ~AdvanceTests(c), ~JobCancel(c)
      PROVE  JobsInv'
  <2>1. jobs' = jobs
    BY <1>9 DEF Command, CreateHook, StoreHook, Unhook, JobStatus, AdvanceRaises,
              JobStatusAnswers, MessageAnswered, CommandRefused, CommandLooks,
              ElementLooks, CommandRaises, Dies
  <2>2. op[c].cmd # "test"
    BY <1>9 DEF Command, CreateHook, StoreHook, Unhook, JobStatus, AdvanceRaises,
              JobStatusAnswers, MessageAnswered, CommandRefused, CommandLooks,
              ElementLooks, CommandRaises, Begins, Advancing
  <2>3. \/ op' = [op EXCEPT ![c] = Idle]
        \/ op' = [op EXCEPT ![c] = [cmd |-> "store", hook |-> NextHookId]]
        \/ op' = [op EXCEPT ![c] = [cmd |-> "advance", job |-> 1, size |-> Len(jobs)]]
    BY <1>9 DEF Command, CreateHook, StoreHook, Unhook, JobStatus, AdvanceRaises,
              JobStatusAnswers, MessageAnswered, CommandRefused, CommandLooks,
              ElementLooks, CommandRaises, Dies, Answers, Continues
  <2>4. QED
    BY <2>1, <2>2, <2>3, JobsQuiet DEF Idle
<1>10. QED
  BY <1>4, <1>5, <1>6, <1>7, <1>8, <1>9

-----------------------------------------------------------------------------
(* Theorems                                                                *)

\* The inductive invariant holds in every reachable state, for any number of
\* connections, requests, restarts and events.
THEOREM Invariance == Spec => []IInv
<1>1. Init => IInv
  BY InitInv
<1>2. IInv /\ [Next]_vars => IInv'
  BY TypesStep, ListStep, HandStep, HookStep, BusyStep, JobsStep DEF IInv
<1>3. QED
  BY <1>1, <1>2, PTL DEF Spec

\* No socket of the server is open without being in the list that stop() and
\* drop_connections() close, or on its way there.
THEOREM ListTheorem == Spec => []OpenConnsListed
<1>1. IInv => OpenConnsListed
  BY DEF IInv, ListInv
<1>2. QED
  BY <1>1, Invariance, PTL

\* No event overtakes HELLO_ACK and READY, whichever thread emits it.
THEOREM HandshakeTheorem == Spec => []OpensWithHandshake
<1>1. IInv => OpensWithHandshake
  BY DEF IInv, HandInv
<1>2. QED
  BY <1>1, Invariance, PTL

\* One client is never given the same hook_id twice, nor one that is not there,
\* although identifiers are chosen without a lock.
THEOREM HookTheorem == Spec => []OwnHooksDistinct
<1>1. IInv => OwnHooksDistinct
  BY DEF IInv, HookInv
<1>2. QED
  BY <1>1, Invariance, PTL

\* A job is completed by two rounds of job.status, and by no fewer, whichever
\* updates are lost on the way; two rounds of the only client that asks end it.
THEOREM JobsTheorem == Spec => []JobsTakeTwoRounds
<1>1. ASSUME IInv, NEW j \in DOMAIN jobs
      PROVE  /\ jobs[j].state = "completed" => TwoRounds(jobs[j])
             /\ \A c \in Conns : Ended(jobs[j], c) \/ (op[c].cmd = "test" /\ op[c].job = j)
  BY <1>1 DEF IInv, JobsInv, Counted
<1>2. IInv => JobsTakeTwoRounds
  BY <1>1 DEF JobsTakeTwoRounds, TwoRounds, Ended, Alone
<1>3. QED
  BY <1>2, Invariance, PTL

=============================================================================
