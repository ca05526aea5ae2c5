---------------------------- MODULE FrameStream ----------------------------
(***************************************************************************)
(* One direction of one connection: frames are encoded, cut into pieces by *)
(* the transport and put together again.  A frame is a big-endian length   *)
(* of four bytes and a body.  There are three encoders and three receivers *)
(* (ai_analyzer/protocol/frame.py with its users bridge/client.py and      *)
(* mock/server.py, and native/src/ipc/frame.cpp with ipc_server.cpp):      *)
(*                                                                         *)
(*   client  FrameDecoder.feed(), a handshake that waits for two messages, *)
(*           then the reader thread                                        *)
(*   mock    FrameDecoder.feed(), _read_message()                          *)
(*   native  recv_frame(), which asks for exactly what is missing          *)
(***************************************************************************)
EXTENDS Naturals, Sequences

CONSTANTS
  Base,         \* values of a byte
  MaxPayload,   \* FRAME_MAX_PAYLOAD
  MaxChunk,     \* bytes a recv() asks for
  Messages,     \* bodies that are JSON objects
  Junk,         \* frames that a peer with faulty framing or JSON sends
  MaxSent,      \* bound: frames sent
  Links         \* pairs <<sender, receiver>>

Byte       == 0 .. Base - 1
HeaderSize == 4

\* struct.pack(">I", n), htonl(n)
Header(n) == << (n \div (Base * Base * Base)) % Base, (n \div (Base * Base)) % Base,
                (n \div Base) % Base, n % Base >>

\* struct.unpack(">I", b), ntohl()
Declared(b) == ((b[1] * Base + b[2]) * Base + b[3]) * Base + b[4]

HasHeader(b) == Len(b) >= HeaderSize
HasFrame(b)  == HasHeader(b) /\ Len(b) >= HeaderSize + Declared(b)
Body(b)      == SubSeq(b, HeaderSize + 1, HeaderSize + Declared(b))
AfterFrame(b) == SubSeq(b, HeaderSize + Declared(b) + 1, Len(b))

\* Four bytes can declare the limit; junk declares too much, or is one frame whose
\* body is not an object.
ASSUME FrameStreamAssumption ==
  /\ Base \in Nat \ {0, 1} /\ MaxPayload \in Nat \ {0} /\ MaxChunk \in Nat \ {0}
  /\ MaxPayload < Base * Base * Base * Base
  /\ MaxSent \in Nat
  /\ Messages \subseteq Seq(Byte) /\ <<>> \notin Messages
  /\ Junk \subseteq {b \in Seq(Byte) : HasHeader(b)}
  /\ \A b \in Junk : \/ Declared(b) > MaxPayload
                     \/ Len(b) = HeaderSize + Declared(b) /\ Body(b) \notin Messages
  /\ Links \subseteq {<<"client", "mock">>, <<"client", "native">>,
                      <<"mock", "client">>, <<"native", "client">>}

VARIABLES
  ends,    \* <<sender, receiver>>
  sent,    \* history: frames sent, each with its bytes, the position of its end and
           \* the messages the receiver then owes
  wire,    \* bytes under way
  hungUp,  \* the sender has closed the connection
  buf,     \* FrameDecoder._buf; what recv_exact() has of a frame
  out,     \* messages the running feed() has decoded
  inbox,   \* _inbox, _Connection.inbox
  got,     \* messages handled, those of the handshake included
  stage,   \* of the receiver's conversation
  mode,    \* what the receiver does, or why it has stopped
  chunk    \* size of the last piece received

vars == <<ends, sent, wire, hungUp, buf, out, inbox, got, stage, mode, chunk>>

receiver == ends[2]
Running  == {"wait", "decode", "take"}
Stopped  == {"malformed", "late", "cut", "gone"}

\* Where the n-th frame ends, and the messages owed of the first n.
EndAt(n) == IF n = 0 THEN 0 ELSE sent[n].end
DueAt(n) == IF n = 0 THEN <<>> ELSE sent[n].due
Total    == EndAt(Len(sent))
Due      == DueAt(Len(sent))

Frames == [ok : BOOLEAN, bytes : Seq(Byte), end : Nat, due : Seq(Messages)]

TypeOK ==
  /\ ends \in Links
  /\ sent \in Seq(Frames) /\ Len(sent) <= MaxSent
  /\ wire \in Seq(Byte)
  /\ hungUp \in BOOLEAN
  /\ buf \in Seq(Byte)
  /\ out \in Seq(Messages) /\ inbox \in Seq(Messages) /\ got \in Seq(Messages)
  /\ stage \in {"hello", "ready", "loop"}
  /\ mode \in Running \cup Stopped
  /\ chunk \in 0 .. MaxChunk

\* The connection has just been made.
Init ==
  /\ ends \in Links
  /\ sent = <<>> /\ wire = <<>> /\ hungUp = FALSE
  /\ buf = <<>> /\ out = <<>> /\ inbox = <<>> /\ got = <<>>
  /\ stage = "hello" /\ mode = "wait" /\ chunk = 0

-----------------------------------------------------------------------------
(* The sender                                                              *)

\* encode_frame(), send_frame(): what is too long is refused.
CanEncode(m) == m # <<>> /\ Len(m) <= MaxPayload

\* What a receiver is to handle: all messages before the first junk; the native
\* one goes on after a body it cannot parse.
Owes(ok) == ok /\ (receiver = "native" \/ \A i \in 1 .. Len(sent) : sent[i].ok)

Puts(bytes, ok, body) ==
  /\ mode \in Running /\ ~hungUp
  /\ Len(sent) < MaxSent
  /\ wire' = wire \o bytes
  /\ sent' = Append(sent, [ok |-> ok, bytes |-> bytes, end |-> Total + Len(bytes),
                           due |-> IF Owes(ok) THEN Append(Due, body) ELSE Due])
  /\ UNCHANGED <<ends, hungUp, buf, out, inbox, got, stage, mode, chunk>>

Sends(m) == CanEncode(m) /\ Puts(Header(Len(m)) \o m, TRUE, m)

SendsJunk(bytes) == Puts(bytes, FALSE, <<>>)

\* Also what a server does that is to send a response it cannot encode.
HangsUp ==
  /\ ~hungUp
  /\ hungUp' = TRUE
  /\ UNCHANGED <<ends, sent, wire, buf, out, inbox, got, stage, mode, chunk>>

-----------------------------------------------------------------------------
(* FrameDecoder.feed()                                                     *)

Legal(n) == n # 0 /\ n <= MaxPayload

\* No complete frame in the buffer, and no reason to reject what is there.
Incomplete(b) == HasHeader(b) => Legal(Declared(b)) /\ ~HasFrame(b)

\* recv(65536): any piece of what is under way.
Recv ==
  /\ receiver # "native"
  /\ mode = "wait"
  /\ \E n \in 1 .. MaxChunk :
       /\ n <= Len(wire)
       /\ buf' = buf \o SubSeq(wire, 1, n)
       /\ wire' = SubSeq(wire, n + 1, Len(wire))
       /\ chunk' = n
  /\ out' = <<>>
  /\ mode' = "decode"
  /\ UNCHANGED <<ends, sent, hungUp, inbox, got, stage>>

\* A decoder that takes any JSON for a message.
DecodeAnything ==
  /\ receiver # "native" /\ mode = "decode"
  /\ HasFrame(buf) /\ Legal(Declared(buf))
  /\ out' = Append(out, Body(buf))
  /\ buf' = AfterFrame(buf)
  /\ UNCHANGED <<ends, sent, wire, hungUp, inbox, got, stage, mode, chunk>>

\* A complete frame is taken out of the buffer.
Decode ==
  /\ receiver # "native" /\ mode = "decode"
  /\ HasFrame(buf) /\ Legal(Declared(buf)) /\ Body(buf) \in Messages
  /\ out' = Append(out, Body(buf))
  /\ buf' = AfterFrame(buf)
  /\ UNCHANGED <<ends, sent, wire, hungUp, inbox, got, stage, mode, chunk>>

\* An error path that drops what earlier pieces brought.
DecodeFailsBadly ==
  /\ receiver # "native" /\ mode = "decode"
  /\ ~Incomplete(buf) /\ ~(Legal(Declared(buf)) /\ Body(buf) \in Messages)
  /\ buf' = <<>> /\ out' = <<>> /\ inbox' = <<>>
  /\ mode' = "malformed"
  /\ UNCHANGED <<ends, sent, wire, hungUp, got, stage, chunk>>

\* feed() raises: at an illegal length before the body is there, at a body that
\* is not an object after it was taken out.  What it had decoded is lost.
DecodeFails ==
  /\ receiver # "native" /\ mode = "decode"
  /\ HasHeader(buf)
  /\ \/ ~Legal(Declared(buf)) /\ UNCHANGED buf
     \/ /\ Legal(Declared(buf)) /\ HasFrame(buf) /\ Body(buf) \notin Messages
        /\ buf' = AfterFrame(buf)
  /\ out' = <<>>
  /\ mode' = "malformed"
  /\ UNCHANGED <<ends, sent, wire, hungUp, inbox, got, stage, chunk>>

\* feed() whose messages replace those in the inbox.
DecodeEndsAnew ==
  /\ receiver # "native" /\ mode = "decode"
  /\ Incomplete(buf)
  /\ inbox' = out
  /\ out' = <<>>
  /\ mode' = "take"
  /\ UNCHANGED <<ends, sent, wire, hungUp, buf, got, stage, chunk>>

\* feed() that returns after one frame.
DecodeEndsEarly ==
  /\ receiver # "native" /\ mode = "decode"
  /\ Incomplete(buf) \/ out # <<>>
  /\ inbox' = inbox \o out
  /\ out' = <<>>
  /\ mode' = "take"
  /\ UNCHANGED <<ends, sent, wire, hungUp, buf, got, stage, chunk>>

\* No complete frame is left: the messages go to the inbox.
DecodeEnds ==
  /\ receiver # "native" /\ mode = "decode"
  /\ Incomplete(buf)
  /\ inbox' = inbox \o out
  /\ out' = <<>>
  /\ mode' = "take"
  /\ UNCHANGED <<ends, sent, wire, hungUp, buf, got, stage, chunk>>

-----------------------------------------------------------------------------
(* The receivers that use it                                               *)

\* pop() for popleft().
HandlesLast ==
  /\ got' = Append(got, inbox[Len(inbox)])
  /\ inbox' = SubSeq(inbox, 1, Len(inbox) - 1)

Handles ==
  /\ got' = Append(got, Head(inbox))
  /\ inbox' = Tail(inbox)

\* A reader that handles one message for each piece it receives.
ClientTakesOne ==
  /\ receiver = "client" /\ mode = "take"
  /\ IF inbox = <<>> THEN UNCHANGED <<got, inbox, stage>> /\ mode' = "wait"
     ELSE /\ Handles
          /\ stage' = IF stage = "hello" THEN "ready" ELSE "loop"
          /\ mode' = IF stage = "hello" THEN "take" ELSE "wait"
  /\ UNCHANGED <<ends, sent, wire, hungUp, buf, out, chunk>>

\* _await_message() looks into the inbox before it receives; the reader thread
\* receives first, then dispatches the whole inbox.
ClientTakes ==
  /\ receiver = "client" /\ mode = "take"
  /\ IF inbox = <<>> THEN UNCHANGED <<got, inbox, stage>> /\ mode' = "wait"
     ELSE /\ Handles
          /\ stage' = IF stage = "hello" THEN "ready" ELSE "loop"
          /\ mode' = IF stage = "ready" THEN "wait" ELSE "take"
  /\ UNCHANGED <<ends, sent, wire, hungUp, buf, out, chunk>>

\* _read_message() returns a message or None; None ends a handshake.
MockTakes ==
  /\ receiver = "mock" /\ mode = "take"
  /\ IF inbox = <<>>
       THEN /\ mode' = IF stage = "hello" THEN "cut" ELSE "wait"
            /\ UNCHANGED <<got, inbox, stage>>
       ELSE Handles /\ stage' = "loop" /\ UNCHANGED mode
  /\ UNCHANGED <<ends, sent, wire, hungUp, buf, out, chunk>>

\* The handshake waits no longer.
HandshakeTimesOut ==
  /\ receiver # "native" /\ mode = "wait" /\ stage # "loop"
  /\ mode' = "late"
  /\ UNCHANGED <<ends, sent, wire, hungUp, buf, out, inbox, got, stage, chunk>>

-----------------------------------------------------------------------------
(* recv_frame()                                                            *)

Missing(b) == IF HasHeader(b) THEN HeaderSize + Declared(b) - Len(b) ELSE HeaderSize - Len(b)

\* recv_exact(): a piece of what is missing of the header or of the body.
NativeRecv ==
  /\ receiver = "native" /\ mode = "wait"
  /\ \E n \in 1 .. MaxChunk :
       /\ n <= Missing(buf) /\ n <= Len(wire)
       /\ buf' = buf \o SubSeq(wire, 1, n)
       /\ wire' = SubSeq(wire, n + 1, Len(wire))
       /\ chunk' = n
       /\ mode' = IF n = Missing(buf) THEN "decode" ELSE "wait"
  /\ UNCHANGED <<ends, sent, hungUp, out, inbox, got, stage>>

\* The header is complete: what is too long is rejected.
NativeHeader ==
  /\ receiver = "native" /\ mode = "decode"
  /\ ~HasFrame(buf)
  /\ mode' = IF Declared(buf) > MaxPayload THEN "malformed" ELSE "wait"
  /\ UNCHANGED <<ends, sent, wire, hungUp, buf, out, inbox, got, stage, chunk>>

\* The frame is complete: a body that is not an object is skipped, with or
\* without an ERROR sent back, except as the HELLO.
NativeTakes ==
  /\ receiver = "native" /\ mode = "decode"
  /\ HasFrame(buf)
  /\ IF Body(buf) \in Messages
       THEN got' = Append(got, Body(buf)) /\ stage' = "loop" /\ mode' = "wait"
       ELSE /\ mode' = IF stage = "hello" THEN "malformed" ELSE "wait"
            /\ UNCHANGED <<got, stage>>
  /\ buf' = <<>>
  /\ UNCHANGED <<ends, sent, wire, hungUp, out, inbox, chunk>>

\* recv() returns nothing: the receiver stops, whatever it has of a frame.
EndOfFile ==
  /\ mode = "wait" /\ wire = <<>> /\ hungUp
  /\ mode' = "gone"
  /\ UNCHANGED <<ends, sent, wire, hungUp, buf, out, inbox, got, stage, chunk>>

-----------------------------------------------------------------------------
Sender   == (\E m \in Messages : Sends(m)) \/ (\E b \in Junk : SendsJunk(b)) \/ HangsUp
Receiver == \/ Recv \/ Decode \/ DecodeFails \/ DecodeEnds \/ ClientTakes \/ MockTakes
            \/ HandshakeTimesOut \/ NativeRecv \/ NativeHeader \/ NativeTakes \/ EndOfFile

Next == Sender \/ Receiver

Spec == Init /\ [][Next]_vars

-----------------------------------------------------------------------------
(* What framing keeps, however the stream is cut                           *)

Held == got \o inbox

\* Messages are handled as they were sent, in order, none twice, none made up
\* from pieces of others.
InOrder ==
  /\ Len(Held) <= Len(Due)
  /\ Held = SubSeq(Due, 1, Len(Held))

\* A receiver that waits with nothing under way has every message that was sent.
NothingForgotten ==
  mode = "wait" /\ wire = <<>> => Held = Due /\ buf = <<>>

\* A frame that cannot be decoded takes messages with it only if they came in
\* the piece that completed it: what earlier pieces completed was handled or is
\* still in the inbox.
JunkLosesOnlyItsChunk ==
  mode = "malformed" =>
    \A i \in 1 .. Len(sent) :
      sent[i].end <= Total - Len(wire) - chunk => Len(Held) >= Len(sent[i].due)

\* Between two pieces a receiver has less than one frame in its buffer: it has
\* taken out every frame that is complete, and no declared length makes it wait
\* for more than the limit.
BufferBounded ==
  mode \in {"wait", "take"} => ~HasFrame(buf) /\ Len(buf) < HeaderSize + MaxPayload

\* A receiver waits for bytes with messages in its inbox only if it is the
\* client's reader thread before its first piece: what came together with READY
\* stays until something else comes.
WaitsEmptyHanded ==
  mode = "wait" /\ inbox # <<>> => receiver = "client" /\ stage = "loop" /\ Len(got) = 2

=============================================================================
