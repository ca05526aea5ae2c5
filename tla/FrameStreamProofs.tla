------------------------- MODULE FrameStreamProofs -------------------------
(***************************************************************************)
(* Proofs about FrameStream for any byte size, any limit four bytes can    *)
(* declare, any piece size, any messages and any junk.                     *)
(***************************************************************************)
EXTENDS FrameStream, SequenceTheorems, TLAPS

\* What the receiver has of a frame: less than one between two pieces; the native
\* receiver looks at a header or at a frame, each complete and no longer.
BufferInv ==
  /\ BufferBounded
  /\ (receiver = "native") =>
       /\ (mode = "wait" /\ HasHeader(buf)) => Declared(buf) <= MaxPayload
       /\ (mode = "decode") => /\ HasHeader(buf)
                               /\ Len(buf) = HeaderSize \/ Declared(buf) <= MaxPayload
                               /\ Len(buf) <= HeaderSize + MaxPayload

\* Where each receiver's conversation is, by the messages it has handled.
StageInv ==
  /\ WaitsEmptyHanded
  /\ (receiver = "client") => /\ (stage = "hello") => Len(got) = 0
                              /\ (stage = "ready") => Len(got) = 1
                              /\ (stage # "loop" /\ mode = "wait") => inbox = <<>>
  /\ (receiver = "mock" /\ mode = "wait") => inbox = <<>>
  /\ (receiver = "native") => inbox = <<>>

\* The history: frames lie end to end; a message is a frame of its own, junk is
\* one frame or declares too much; what is owed only grows.
HistoryInv ==
  /\ \A i \in 1 .. Len(sent) :
       /\ EndAt(i) = EndAt(i - 1) + Len(sent[i].bytes)
       /\ HasHeader(sent[i].bytes)
       /\ sent[i].ok =>
            /\ Legal(Declared(sent[i].bytes))
            /\ Len(sent[i].bytes) = HeaderSize + Declared(sent[i].bytes)
            /\ Body(sent[i].bytes) \in Messages
            /\ (receiver = "native" \/ \A h \in 1 .. i : sent[h].ok) =>
                 DueAt(i) = Append(DueAt(i - 1), Body(sent[i].bytes))
       /\ ~sent[i].ok =>
            /\ \/ Declared(sent[i].bytes) > MaxPayload
               \/ /\ Len(sent[i].bytes) = HeaderSize + Declared(sent[i].bytes)
                  /\ Body(sent[i].bytes) \notin Messages
            /\ DueAt(i) = DueAt(i - 1)
       /\ Len(DueAt(i)) <= Len(Due)
       /\ DueAt(i) = SubSeq(Due, 1, Len(DueAt(i)))
  /\ \A i, j \in 0 .. Len(sent) :
       i <= j => EndAt(i) <= EndAt(j) /\ Len(DueAt(i)) <= Len(DueAt(j))

\* Position of the first byte in the buffer.
Pos == Total - Len(wire) - Len(buf)

\* What is not yet taken out are the bytes of the frames, in their places.
ContentInv ==
  /\ Pos >= 0
  /\ \A i \in 1 .. Len(sent) : \A k \in 1 .. Len(sent[i].bytes) :
       EndAt(i - 1) + k > Pos =>
         (buf \o wire)[EndAt(i - 1) + k - Pos] = sent[i].bytes[k]

\* The receiver has taken the first n frames.
Taken(n) ==
  /\ Pos = EndAt(n)
  /\ Held \o out = DueAt(n)
  /\ receiver # "native" => \A i \in 1 .. n : sent[i].ok

ReceiverInv ==
  /\ mode \in Running => \E n \in 0 .. Len(sent) : Taken(n)
  /\ mode # "decode" => out = <<>>
  /\ receiver = "native" =>
       /\ out = <<>>
       /\ mode = "decode" => Len(buf) = HeaderSize \/ Len(buf) = HeaderSize + Declared(buf)
  /\ receiver # "native" /\ mode = "wait" => Incomplete(buf)
  /\ receiver # "native" /\ mode = "take" => Incomplete(buf)

\* What was complete before the last piece is handled or in the inbox.
PieceInv ==
  mode \in {"decode", "take", "malformed"} =>
    \A i \in 1 .. Len(sent) :
      sent[i].end <= Total - Len(wire) - chunk => Len(Held) >= Len(DueAt(i))

StreamInv == HistoryInv /\ ContentInv /\ ReceiverInv /\ PieceInv /\ InOrder

IInv == TypeOK /\ BufferInv /\ StageInv /\ StreamInv

-----------------------------------------------------------------------------
(* Bytes and headers                                                       *)

LEMMA ByteIsNat == Byte \subseteq Nat
  BY FrameStreamAssumption DEF Byte

LEMMA DigitIsByte == \A x \in Nat : x % Base \in Byte
  BY FrameStreamAssumption DEF Byte

LEMMA TimesNat == \A x, y, z \in Nat : x * y + z \in Nat
  OBVIOUS

\* A header declares some length.
LEMMA DeclaredIsNat ==
  ASSUME NEW b \in Seq(Byte), HasHeader(b)
  PROVE  Declared(b) \in Nat
<1>1. Len(b) \in Nat /\ Len(b) >= 4
  BY DEF HasHeader, HeaderSize
<1>2. b[1] \in Nat /\ b[2] \in Nat /\ b[3] \in Nat /\ b[4] \in Nat
  <2>1. \A i \in 1 .. Len(b) : b[i] \in Byte
    BY ElementOfSeq
  <2>2. {1, 2, 3, 4} \subseteq 1 .. Len(b)
    BY <1>1
  <2>3. QED
    BY <2>1, <2>2, ByteIsNat
<1>3. Base \in Nat
  BY FrameStreamAssumption
<1>4. b[1] * Base + b[2] \in Nat
  BY <1>2, <1>3, TimesNat
<1>5. (b[1] * Base + b[2]) * Base + b[3] \in Nat
  BY <1>2, <1>3, <1>4, TimesNat
<1>6. QED
  BY <1>2, <1>3, <1>5, TimesNat DEF Declared

LEMMA DivNat == \A x \in Nat, y \in Nat \ {0} : x \div y \in Nat
  OBVIOUS

LEMMA HeaderIsBytes ==
  ASSUME NEW n \in Nat
  PROVE  Header(n) \in Seq(Byte) /\ Len(Header(n)) = HeaderSize
<1>1. Base \in Nat \ {0} /\ Base * Base \in Nat \ {0} /\ Base * Base * Base \in Nat \ {0}
  BY FrameStreamAssumption
<1>2. /\ n \div (Base * Base * Base) \in Nat
      /\ n \div (Base * Base) \in Nat
      /\ n \div Base \in Nat
  BY <1>1, DivNat
<1>3. QED
  BY <1>2, DigitIsByte DEF Header, HeaderSize

\* A longer buffer declares the same length.
LEMMA DeclaredStays ==
  ASSUME NEW b \in Seq(Byte), NEW c \in Seq(Byte), HasHeader(b)
  PROVE  HasHeader(b \o c) /\ Declared(b \o c) = Declared(b)
  BY DEF HasHeader, HeaderSize, Declared

\* The pieces of a sequence.
LEMMA Piece ==
  ASSUME NEW S, NEW s \in Seq(S), NEW m \in Nat \ {0}, NEW n \in Nat, n <= Len(s)
  PROVE  SubSeq(s, m, n) \in Seq(S) /\ Len(SubSeq(s, m, n)) = IF m <= n THEN n - m + 1 ELSE 0
  BY SubSeqProperties, ElementOfSeq

-----------------------------------------------------------------------------
(* Types                                                                   *)

LEMMA NoneIsSeq == \A S : <<>> \in Seq(S)
  BY EmptySeq

LEMMA TypeInit == Init => TypeOK
<1> SUFFICES ASSUME Init
             PROVE  TypeOK
  OBVIOUS
<1>1. /\ sent \in Seq(Frames) /\ wire \in Seq(Byte) /\ buf \in Seq(Byte)
      /\ out \in Seq(Messages) /\ inbox \in Seq(Messages) /\ got \in Seq(Messages)
  BY NoneIsSeq DEF Init
<1>2. Len(sent) <= MaxSent
  BY FrameStreamAssumption, EmptySeq DEF Init
<1>3. chunk \in 0 .. MaxChunk
  BY FrameStreamAssumption DEF Init
<1>4. QED
  BY <1>1, <1>2, <1>3 DEF Init, TypeOK, Running

\* The history at a frame, or before the first.
LEMMA HistoryType ==
  ASSUME TypeOK, NEW i \in 0 .. Len(sent)
  PROVE  /\ EndAt(i) \in Nat /\ DueAt(i) \in Seq(Messages)
         /\ i # 0 => /\ sent[i] \in Frames /\ sent[i].bytes \in Seq(Byte)
                     /\ EndAt(i) = sent[i].end /\ DueAt(i) = sent[i].due
<1>1. CASE i = 0
  BY <1>1, NoneIsSeq DEF EndAt, DueAt
<1>2. CASE i # 0
  <2>1. i \in 1 .. Len(sent)
    BY <1>2, LenProperties DEF TypeOK
  <2>2. sent[i] \in Frames
    BY <2>1, ElementOfSeq DEF TypeOK
  <2>3. QED
    BY <1>2, <2>2 DEF EndAt, DueAt, Frames
<1>3. QED
  BY <1>1, <1>2

LEMMA DueType == TypeOK => Total \in Nat /\ Due \in Seq(Messages) /\ Len(sent) \in Nat
<1>1. TypeOK => Len(sent) \in Nat /\ Len(sent) \in 0 .. Len(sent)
  BY LenProperties DEF TypeOK
<1>2. QED
  BY <1>1, HistoryType DEF Total, Due

\* What is put on the wire are bytes.
LEMMA PutsType ==
  ASSUME TypeOK, NEW bytes \in Seq(Byte), NEW ok \in BOOLEAN, NEW body, ok => body \in Messages,
         Puts(bytes, ok, body)
  PROVE  TypeOK'
<1> DEFINE due == IF Owes(ok) THEN Append(Due, body) ELSE Due
           f   == [ok |-> ok, bytes |-> bytes, end |-> Total + Len(bytes), due |-> due]
<1>1. due \in Seq(Messages)
  BY DueType, AppendProperties DEF Owes
<1>2. Total + Len(bytes) \in Nat
  BY DueType, LenProperties
<1> HIDE DEF due
<1>3. f \in Frames
  BY <1>1, <1>2 DEF Frames
<1>4. sent' = Append(sent, f) /\ Len(sent) < MaxSent
  BY DEF Puts, due
<1> HIDE DEF f
<1>5. sent' \in Seq(Frames) /\ Len(sent') <= MaxSent
  BY <1>3, <1>4, AppendProperties, LenProperties, FrameStreamAssumption DEF TypeOK
<1>6. wire' \in Seq(Byte)
  BY ConcatProperties DEF Puts, TypeOK
<1>7. QED
  BY <1>5, <1>6 DEF Puts, TypeOK

\* The receiver moves bytes from the wire to its buffer.
LEMMA RecvType ==
  ASSUME TypeOK, NEW n \in 1 .. MaxChunk, n <= Len(wire)
  PROVE  /\ buf \o SubSeq(wire, 1, n) \in Seq(Byte)
         /\ Len(buf \o SubSeq(wire, 1, n)) = Len(buf) + n
         /\ SubSeq(wire, n + 1, Len(wire)) \in Seq(Byte)
<1>1. wire \in Seq(Byte) /\ buf \in Seq(Byte) /\ Len(wire) \in Nat /\ n \in Nat \ {0}
  BY FrameStreamAssumption DEF TypeOK
<1>2. SubSeq(wire, 1, n) \in Seq(Byte) /\ Len(SubSeq(wire, 1, n)) = n
  BY <1>1, Piece
<1>3. SubSeq(wire, n + 1, Len(wire)) \in Seq(Byte)
  BY <1>1, Piece
<1>4. QED
  BY <1>1, <1>2, <1>3, ConcatProperties

\* What is left of the buffer when a frame has been taken out.
LEMMA AfterType ==
  ASSUME TypeOK, HasFrame(buf)
  PROVE  AfterFrame(buf) \in Seq(Byte)
<1>1. buf \in Seq(Byte) /\ Len(buf) \in Nat /\ HasHeader(buf)
  BY DEF TypeOK, HasFrame
<1>2. HeaderSize + Declared(buf) + 1 \in Nat \ {0}
  BY <1>1, DeclaredIsNat DEF HeaderSize
<1>3. QED
  BY <1>1, <1>2, Piece DEF AfterFrame

LEMMA TypeStep == TypeOK /\ [Next]_vars => TypeOK'
<1> SUFFICES ASSUME TypeOK, [Next]_vars
             PROVE  TypeOK'
  OBVIOUS
<1>1. ASSUME NEW m \in Messages, Sends(m)
      PROVE  TypeOK'
  <2>1. m \in Seq(Byte) /\ Len(m) \in Nat
    BY FrameStreamAssumption
  <2>2. Header(Len(m)) \o m \in Seq(Byte)
    BY <2>1, HeaderIsBytes, ConcatProperties
  <2>3. QED
    BY <1>1, <2>1, <2>2, PutsType DEF Sends
<1>2. ASSUME NEW b \in Junk, SendsJunk(b)
      PROVE  TypeOK'
  BY <1>2, FrameStreamAssumption, EmptySeq, PutsType DEF SendsJunk
<1>3. CASE HangsUp
  BY <1>3 DEF HangsUp, TypeOK
<1>4. CASE Recv
  BY <1>4, RecvType DEF Recv, TypeOK, Running
<1>5. CASE Decode
  BY <1>5, AfterType DEF Decode, TypeOK
<1>6. CASE DecodeFails
  BY <1>6, AfterType DEF DecodeFails, TypeOK, Stopped
<1>7. CASE DecodeEnds
  BY <1>7, ConcatProperties DEF DecodeEnds, TypeOK, Running
<1>8. CASE ClientTakes \/ MockTakes
  <2>1. ASSUME inbox # <<>>, Handles
        PROVE  got' \in Seq(Messages) /\ inbox' \in Seq(Messages)
    BY <2>1, HeadTailProperties DEF Handles, TypeOK
  <2>2. QED
    BY <1>8, <2>1 DEF ClientTakes, MockTakes, TypeOK, Running, Stopped
<1>9. CASE HandshakeTimesOut \/ NativeHeader \/ EndOfFile
  BY <1>9 DEF HandshakeTimesOut, NativeHeader, EndOfFile, TypeOK, Running, Stopped
<1>10. CASE NativeRecv
  BY <1>10, RecvType DEF NativeRecv, TypeOK, Running
<1>11. CASE NativeTakes
  <2>1. buf' \in Seq(Byte)
    BY <1>11, NoneIsSeq DEF NativeTakes
  <2>2. got' \in Seq(Messages)
    <3>1. ASSUME Body(buf) \in Messages
          PROVE  Append(got, Body(buf)) \in Seq(Messages)
      BY <3>1, AppendProperties DEF TypeOK
    <3>2. QED
      BY <1>11, <3>1 DEF NativeTakes, TypeOK
  <2>3. QED
    BY <1>11, <2>1, <2>2 DEF NativeTakes, TypeOK, Running, Stopped
<1>12. CASE UNCHANGED vars
  BY <1>12 DEF vars, TypeOK
<1>13. QED
  BY <1>1, <1>2, <1>3, <1>4, <1>5, <1>6, <1>7, <1>8, <1>9, <1>10, <1>11, <1>12
     DEF Next, Sender, Receiver

-----------------------------------------------------------------------------
(* Less than a frame between two pieces                                    *)

LEMMA BufferInit == Init => BufferInv
<1> SUFFICES ASSUME Init
             PROVE  BufferInv
  OBVIOUS
<1>1. Len(buf) = 0
  BY EmptySeq DEF Init
<1>2. QED
  BY <1>1, FrameStreamAssumption DEF Init, BufferInv, BufferBounded, HasFrame, HasHeader,
     HeaderSize

\* A buffer that is short of a frame is shorter than the limit allows.
LEMMA IncompleteIsShort ==
  ASSUME NEW b \in Seq(Byte), HasHeader(b) => Declared(b) <= MaxPayload, ~HasFrame(b)
  PROVE  Len(b) < HeaderSize + MaxPayload
<1>1. Len(b) \in Nat /\ MaxPayload \in Nat \ {0}
  BY FrameStreamAssumption
<1>2. CASE HasHeader(b)
  BY <1>1, <1>2, DeclaredIsNat DEF HasFrame, HeaderSize
<1>3. CASE ~HasHeader(b)
  BY <1>1, <1>3 DEF HasHeader, HeaderSize
<1>4. QED
  BY <1>2, <1>3

\* A piece for the native receiver: all that was missing, or less.
LEMMA NativePiece ==
  ASSUME TypeOK, BufferInv, NativeRecv
  PROVE  BufferInv'
<1>1. PICK n \in 1 .. MaxChunk :
        /\ n <= Missing(buf) /\ n <= Len(wire)
        /\ buf' = buf \o SubSeq(wire, 1, n)
        /\ mode' = IF n = Missing(buf) THEN "decode" ELSE "wait"
  BY DEF NativeRecv
<1>2. receiver = "native" /\ receiver' = "native" /\ mode = "wait"
  BY DEF NativeRecv, receiver
<1>3. /\ n \in Nat \ {0} /\ MaxPayload \in Nat \ {0}
      /\ buf \in Seq(Byte) /\ Len(buf) \in Nat /\ buf' \in Seq(Byte) /\ Len(buf') = Len(buf) + n
  BY <1>1, RecvType, FrameStreamAssumption DEF TypeOK
<1>4. CASE HasHeader(buf)
  <2>1. Declared(buf) \in Nat /\ Declared(buf) <= MaxPayload
    BY <1>2, <1>3, <1>4, DeclaredIsNat DEF BufferInv
  <2>2. Missing(buf) = HeaderSize + Declared(buf) - Len(buf)
    BY <1>4 DEF Missing
  <2>3. SubSeq(wire, 1, n) \in Seq(Byte)
    BY <1>1, <1>3, Piece DEF TypeOK
  <2>4. HasHeader(buf') /\ Declared(buf') = Declared(buf)
    BY <1>1, <1>3, <1>4, <2>3, DeclaredStays
  <2>5. CASE n = Missing(buf)
    <3>1. Len(buf') = HeaderSize + Declared(buf)
      BY <1>3, <2>1, <2>2, <2>5 DEF HeaderSize
    <3>2. QED
      BY <1>1, <1>3, <2>1, <2>4, <2>5, <3>1 DEF BufferInv, BufferBounded, HeaderSize
  <2>6. CASE n # Missing(buf)
    <3>1. Len(buf') < HeaderSize + Declared(buf)
      BY <1>1, <1>3, <2>1, <2>2, <2>6 DEF HeaderSize
    <3>2. ~HasFrame(buf')
      BY <1>3, <2>1, <2>4, <3>1 DEF HasFrame, HeaderSize
    <3>3. Len(buf') < HeaderSize + MaxPayload
      BY <1>3, <2>1, <3>1 DEF HeaderSize
    <3>4. QED
      BY <1>1, <2>1, <2>4, <2>6, <3>2, <3>3 DEF BufferInv, BufferBounded
  <2>7. QED
    BY <2>5, <2>6
<1>5. CASE ~HasHeader(buf)
  <2>1. Missing(buf) = 4 - Len(buf) /\ Len(buf) < 4
    BY <1>3, <1>5 DEF Missing, HasHeader, HeaderSize
  <2>2. CASE n = Missing(buf)
    <3>1. Len(buf') = 4
      BY <1>3, <2>1, <2>2
    <3>2. QED
      BY <1>1, <1>3, <2>2, <3>1 DEF BufferInv, BufferBounded, HasHeader, HeaderSize
  <2>3. CASE n # Missing(buf)
    <3>1. Len(buf') < 4
      BY <1>1, <1>3, <2>1, <2>3
    <3>2. ~HasHeader(buf') /\ ~HasFrame(buf')
      BY <1>3, <3>1 DEF HasHeader, HasFrame, HeaderSize
    <3>3. Len(buf') < HeaderSize + MaxPayload
      BY <1>3, <3>1 DEF HeaderSize
    <3>4. QED
      BY <1>1, <2>3, <3>2, <3>3 DEF BufferInv, BufferBounded
  <2>4. QED
    BY <2>2, <2>3
<1>6. QED
  BY <1>4, <1>5

LEMMA BufferStep == TypeOK /\ BufferInv /\ [Next]_vars => BufferInv'
<1> SUFFICES ASSUME TypeOK, BufferInv, [Next]_vars
             PROVE  BufferInv'
  OBVIOUS
<1>1. ASSUME UNCHANGED <<ends, buf, mode>>
      PROVE  BufferInv'
  BY <1>1 DEF BufferInv, BufferBounded, receiver
<1>2. CASE Sender \/ UNCHANGED vars
  BY <1>1, <1>2 DEF Sender, Sends, SendsJunk, Puts, HangsUp, vars
<1>3. CASE Recv \/ Decode
  BY <1>3 DEF Recv, Decode, BufferInv, BufferBounded, receiver
<1>4. CASE DecodeFails \/ EndOfFile \/ HandshakeTimesOut
  BY <1>4 DEF DecodeFails, EndOfFile, HandshakeTimesOut, BufferInv, BufferBounded, receiver
<1>5. CASE DecodeEnds
  <2>1. buf \in Seq(Byte) /\ Incomplete(buf)
    BY <1>5 DEF DecodeEnds, TypeOK
  <2>2. ~HasFrame(buf) /\ (HasHeader(buf) => Declared(buf) <= MaxPayload)
    BY <2>1 DEF Incomplete, Legal, HasFrame
  <2>3. Len(buf) < HeaderSize + MaxPayload
    BY <2>1, <2>2, IncompleteIsShort
  <2>4. QED
    BY <1>5, <2>2, <2>3 DEF DecodeEnds, BufferInv, BufferBounded, receiver
<1>6. CASE ClientTakes \/ MockTakes
  BY <1>6 DEF ClientTakes, MockTakes, BufferInv, BufferBounded, receiver
<1>7. CASE NativeRecv
  BY <1>7, NativePiece
<1>8. CASE NativeHeader
  <2>1. buf \in Seq(Byte) /\ HasHeader(buf) /\ ~HasFrame(buf)
    BY <1>8 DEF NativeHeader, BufferInv, TypeOK
  <2>2. CASE Declared(buf) > MaxPayload
    BY <1>8, <2>2 DEF NativeHeader, BufferInv, BufferBounded, receiver
  <2>3. CASE ~(Declared(buf) > MaxPayload)
    <3>1. Declared(buf) <= MaxPayload
      BY <2>1, <2>3, DeclaredIsNat, FrameStreamAssumption
    <3>2. Len(buf) < HeaderSize + MaxPayload
      BY <2>1, <3>1, IncompleteIsShort
    <3>3. QED
      BY <1>8, <2>1, <2>3, <3>1, <3>2 DEF NativeHeader, BufferInv, BufferBounded, receiver
  <2>4. QED
    BY <2>2, <2>3
<1>9. CASE NativeTakes
  <2>1. Len(buf') = 0
    BY <1>9, EmptySeq DEF NativeTakes
  <2>2. ~HasHeader(buf') /\ ~HasFrame(buf') /\ Len(buf') < HeaderSize + MaxPayload
    BY <2>1, FrameStreamAssumption DEF HasHeader, HasFrame, HeaderSize
  <2>3. mode' \in {"wait", "malformed"}
    BY <1>9 DEF NativeTakes
  <2>4. QED
    BY <2>2, <2>3 DEF BufferInv, BufferBounded
<1>10. QED
  BY <1>2, <1>3, <1>4, <1>5, <1>6, <1>7, <1>8, <1>9 DEF Next, Receiver

-----------------------------------------------------------------------------
(* Waiting with messages in the inbox                                      *)

LEMMA StageInit == Init => StageInv
  BY DEF Init, StageInv, WaitsEmptyHanded

\* A message is handled.
LEMMA HandlesLen ==
  ASSUME TypeOK, inbox # <<>>, Handles
  PROVE  Len(got') = Len(got) + 1 /\ Len(got) \in Nat
<1>1. Head(inbox) \in Messages
  BY HeadTailProperties DEF TypeOK
<1>2. QED
  BY <1>1, AppendProperties DEF Handles, TypeOK

LEMMA StageStep == TypeOK /\ StageInv /\ [Next]_vars => StageInv'
<1> SUFFICES ASSUME TypeOK, StageInv, [Next]_vars
             PROVE  StageInv'
  OBVIOUS
<1> USE DEF StageInv, WaitsEmptyHanded, receiver
<1>1. CASE Sender \/ UNCHANGED vars
  BY <1>1 DEF Sender, Sends, SendsJunk, Puts, HangsUp, vars
<1>2. CASE Recv \/ Decode \/ DecodeFails \/ DecodeEnds
  BY <1>2 DEF Recv, Decode, DecodeFails, DecodeEnds
<1>3. CASE ClientTakes
  <2>1. CASE inbox = <<>>
    BY <1>3, <2>1 DEF ClientTakes
  <2>2. CASE inbox # <<>>
    <3>1. Len(got') = Len(got) + 1 /\ Len(got) \in Nat
      BY <1>3, <2>2, HandlesLen DEF ClientTakes
    <3>2. stage \in {"hello", "ready", "loop"}
      BY DEF TypeOK
    <3>3. CASE stage = "hello"
      BY <1>3, <2>2, <3>1, <3>3 DEF ClientTakes
    <3>4. CASE stage = "ready"
      <4>1. stage' = "loop" /\ receiver' = "client" /\ receiver = "client"
        BY <1>3, <2>2, <3>4 DEF ClientTakes
      <4>2. Len(got) = 1
        BY <3>4, <4>1
      <4>3. Len(got') = 2
        BY <3>1, <4>2
      <4>4. QED
        BY <4>1, <4>3
    <3>5. CASE stage = "loop"
      BY <1>3, <2>2, <3>5 DEF ClientTakes
    <3>6. QED
      BY <3>2, <3>3, <3>4, <3>5
  <2>3. QED
    BY <2>1, <2>2
<1>4. CASE MockTakes
  BY <1>4 DEF MockTakes
<1>5. CASE HandshakeTimesOut \/ EndOfFile \/ NativeHeader \/ NativeRecv \/ NativeTakes
  BY <1>5 DEF HandshakeTimesOut, EndOfFile, NativeHeader, NativeRecv, NativeTakes
<1>6. QED
  BY <1>1, <1>2, <1>3, <1>4, <1>5 DEF Next, Receiver

-----------------------------------------------------------------------------
(* Digits                                                                  *)

LEMMA DivMod ==
  ASSUME NEW x \in Nat, NEW y \in Nat \ {0}
  PROVE  /\ x \div y \in Nat /\ x % y \in Nat /\ x % y < y
         /\ x = (x \div y) * y + (x % y)
  OBVIOUS

LEMMA DivModUnique ==
  ASSUME NEW q \in Nat, NEW r \in Nat, NEW y \in Nat \ {0}, r < y
  PROVE  (q * y + r) \div y = q
<1>1. (q * y + r) \in Nat
  OBVIOUS
<1> DEFINE p == (q * y + r) \div y
<1>2. p \in Nat /\ (q * y + r) % y \in Nat /\ (q * y + r) % y < y /\ q * y + r = p * y + ((q * y + r) % y)
  BY <1>1, DivMod
<1>3. CASE p < q
  <2>1. (p + 1) * y <= q * y
    BY <1>2, <1>3
  <2>2. (p + 1) * y = p * y + y
    BY <1>2
  <2>3. QED
    BY <1>2, <2>1, <2>2
<1>4. CASE p > q
  <2>1. (q + 1) * y <= p * y
    BY <1>2, <1>4
  <2>2. (q + 1) * y = q * y + y
    OBVIOUS
  <2>3. QED
    BY <1>2, <2>1, <2>2
<1>5. QED
  BY <1>2, <1>3, <1>4

LEMMA Less ==
  ASSUME NEW p \in Nat, NEW m \in Nat, NEW y \in Nat \ {0}, p * y < m * y
  PROVE  p < m
<1>1. CASE p >= m
  <2>1. p * y >= m * y
    BY <1>1
  <2>2. QED
    BY <2>1
<1>2. QED
  BY <1>1

\* Dividing twice.
LEMMA DivDiv ==
  ASSUME NEW x \in Nat, NEW y \in Nat \ {0}, NEW z \in Nat \ {0}
  PROVE  (x \div y) \div z = x \div (y * z)
<1> DEFINE p == x \div y
           q == x \div (y * z)
<1>1. y * z \in Nat \ {0}
  OBVIOUS
<1>2. p \in Nat /\ x % y \in Nat /\ x % y < y /\ x = p * y + (x % y)
  BY DivMod
<1>3. q \in Nat /\ x % (y * z) \in Nat /\ x % (y * z) < y * z /\ x = q * (y * z) + (x % (y * z))
  BY <1>1, DivMod
<1> HIDE DEF p, q
<1>4. (q * z) * y = q * (y * z) /\ (q * z + z) * y = q * (y * z) + y * z /\ (p + 1) * y = p * y + y
  BY <1>2, <1>3
<1>5. (q * z) * y < (p + 1) * y
  BY <1>1, <1>2, <1>3, <1>4
<1>6. q * z \in Nat /\ q * z + z \in Nat /\ p + 1 \in Nat
  BY <1>2, <1>3
<1>7. q * z < p + 1
  BY <1>5, <1>6, Less
<1>8. p * y < (q * z + z) * y
  BY <1>1, <1>2, <1>3, <1>4
<1>9. p < q * z + z
  BY <1>2, <1>6, <1>8, Less
<1>10. PICK t \in Nat : p = q * z + t /\ t < z
  <2>1. p - q * z \in Nat /\ p - q * z < z /\ p = q * z + (p - q * z)
    BY <1>2, <1>6, <1>7, <1>9
  <2>2. QED
    BY <2>1
<1>11. (q * z + t) \div z = q
  BY <1>3, <1>10, DivModUnique
<1>12. QED
  BY <1>10, <1>11 DEF p, q

LEMMA DeclaredOfHeader ==
  ASSUME NEW n \in Nat, n < Base * Base * Base * Base
  PROVE  Declared(Header(n)) = n
<1> DEFINE a == n \div (Base * Base * Base)
           b == n \div (Base * Base)
           c == n \div Base
<1>1. Base \in Nat \ {0} /\ Base * Base \in Nat \ {0} /\ Base * Base * Base \in Nat \ {0}
  BY FrameStreamAssumption
<1>2. n = c * Base + (n % Base) /\ n % Base \in Nat /\ c \in Nat
  BY <1>1, DivMod
<1>3. c = b * Base + (c % Base) /\ c % Base \in Nat /\ b \in Nat
  <2>1. c \div Base = b
    BY <1>1, DivDiv
  <2>2. QED
    BY <1>1, <1>2, <2>1, DivMod
<1>4. b = a * Base + (b % Base) /\ b % Base \in Nat /\ a \in Nat
  <2>1. b \div Base = a
    BY <1>1, DivDiv
  <2>2. QED
    BY <1>1, <1>3, <2>1, DivMod
<1>5. a % Base = a
  <2>1. n = a * (Base * Base * Base) + (n % (Base * Base * Base)) /\ n % (Base * Base * Base) \in Nat
    BY <1>1, DivMod
  <2>2. a * (Base * Base * Base) <= n
    BY <1>1, <1>4, <2>1
  <2>3. Base * Base * Base * Base = Base * (Base * Base * Base)
    BY <1>1
  <2>4. a * (Base * Base * Base) < Base * (Base * Base * Base)
    BY <1>1, <1>4, <2>2, <2>3
  <2>5. a < Base
    BY <1>1, <1>4, <2>4, Less
  <2>6. (0 * Base + a) \div Base = 0
    BY <1>1, <1>4, <2>5, DivModUnique
  <2>7. 0 * Base + a = a
    BY <1>1, <1>4
  <2>8. a = (a \div Base) * Base + (a % Base) /\ a \div Base = 0 /\ a % Base \in Nat
    BY <1>1, <1>4, <2>6, <2>7, DivMod
  <2>9. QED
    BY <1>1, <2>8
<1> HIDE DEF a, b, c
<1>6. Header(n) = <<a % Base, b % Base, c % Base, n % Base>>
  BY DEF Header, a, b, c
<1>7. Declared(Header(n)) = (((a % Base) * Base + (b % Base)) * Base + (c % Base)) * Base + (n % Base)
  BY <1>6 DEF Declared
<1>8. QED
  BY <1>2, <1>3, <1>4, <1>5, <1>7

-----------------------------------------------------------------------------
(* Frames and headers                                                      *)

\* A piece from the middle of a sequence.
LEMMA Slice ==
  ASSUME NEW S, NEW s \in Seq(S), NEW m \in Nat \ {0}, NEW n \in Nat, n <= Len(s), m <= n + 1
  PROVE  /\ SubSeq(s, m, n) \in Seq(S) /\ Len(SubSeq(s, m, n)) = n - m + 1
         /\ \A i \in 1 .. n - m + 1 : SubSeq(s, m, n)[i] = s[m + i - 1]
<1>1. \A i \in m .. n : s[i] \in S
  <2>1. m .. n \subseteq 1 .. Len(s)
    BY LenProperties
  <2>2. QED
    BY <2>1, ElementOfSeq
<1>2. m \in Int /\ n \in Int
  OBVIOUS
<1>3. QED
  BY <1>1, <1>2, SubSeqProperties

\* The first four bytes decide what is declared.
LEMMA SameHeader ==
  ASSUME NEW b \in Seq(Byte), NEW c \in Seq(Byte), HasHeader(b), HasHeader(c),
         \A k \in 1 .. HeaderSize : b[k] = c[k]
  PROVE  Declared(b) = Declared(c)
  BY DEF HeaderSize, Declared

LEMMA BodyOf ==
  ASSUME NEW b \in Seq(Byte), HasFrame(b)
  PROVE  /\ Declared(b) \in Nat
         /\ Body(b) \in Seq(Byte) /\ Len(Body(b)) = Declared(b)
         /\ \A i \in 1 .. Declared(b) : Body(b)[i] = b[4 + i]
<1> DEFINE d == Declared(b)
           t == SubSeq(b, 5, 4 + d)
<1>1. d \in Nat /\ 4 + d <= Len(b)
  BY DeclaredIsNat, LenProperties DEF HasFrame, HeaderSize
<1>2. Body(b) = t
  BY <1>1 DEF Body, HeaderSize
<1>3. /\ t \in Seq(Byte) /\ Len(t) = 4 + d - 5 + 1
      /\ \A i \in 1 .. 4 + d - 5 + 1 : t[i] = b[5 + i - 1]
  BY <1>1, Slice
<1> HIDE DEF d, t
<1>4. 4 + d - 5 + 1 = d /\ \A i \in 1 .. d : 5 + i - 1 = 4 + i
  BY <1>1
<1>5. Len(t) = d /\ \A i \in 1 .. d : t[i] = b[4 + i]
  BY <1>3, <1>4
<1>6. QED
  BY <1>1, <1>2, <1>3, <1>5 DEF d

\* encode_frame() and the length field agree.
LEMMA EncodedFrame ==
  ASSUME NEW m \in Seq(Byte), CanEncode(m), NEW b, b = Header(Len(m)) \o m
  PROVE  /\ b \in Seq(Byte) /\ HasHeader(b) /\ Legal(Declared(b))
         /\ Len(b) = HeaderSize + Declared(b)
         /\ Body(b) = m
<1>1. Len(m) \in Nat /\ Len(m) # 0 /\ Len(m) <= MaxPayload
  BY LenProperties, EmptySeq DEF CanEncode
<1>2. Len(m) < Base * Base * Base * Base
  <2>1. Base * Base * Base * Base \in Nat
    BY FrameStreamAssumption
  <2>2. QED
    BY <1>1, <2>1, FrameStreamAssumption
<1>3. Header(Len(m)) \in Seq(Byte) /\ Len(Header(Len(m))) = 4
  BY <1>1, HeaderIsBytes DEF HeaderSize
<1>4. /\ b \in Seq(Byte) /\ Len(b) = 4 + Len(m)
      /\ \A i \in 1 .. 4 + Len(m) : b[i] = IF i <= 4 THEN Header(Len(m))[i] ELSE m[i - 4]
  <2>1. /\ b \in Seq(Byte) /\ Len(b) = Len(Header(Len(m))) + Len(m)
        /\ \A i \in 1 .. Len(Header(Len(m))) + Len(m) :
             b[i] = IF i <= Len(Header(Len(m))) THEN Header(Len(m))[i]
                                                ELSE m[i - Len(Header(Len(m)))]
    BY <1>3, ConcatProperties
  <2>2. QED
    BY <1>3, <2>1
<1>5. HasHeader(b) /\ HasHeader(Header(Len(m)))
  BY <1>1, <1>3, <1>4 DEF HasHeader, HeaderSize
<1>6. Declared(b) = Declared(Header(Len(m)))
  <2>1. \A k \in 1 .. HeaderSize : b[k] = Header(Len(m))[k]
    BY <1>1, <1>4 DEF HeaderSize
  <2>2. QED
    BY <1>3, <1>4, <1>5, <2>1, SameHeader
<1>7. Declared(b) = Len(m)
  BY <1>1, <1>2, <1>6, DeclaredOfHeader
<1>8. Body(b) = m
  <2>1. /\ Body(b) \in Seq(Byte) /\ Len(Body(b)) = Len(m)
        /\ \A i \in 1 .. Len(m) : Body(b)[i] = b[4 + i]
    <3>1. HasFrame(b)
      BY <1>1, <1>4, <1>5, <1>7 DEF HasFrame, HeaderSize
    <3>2. QED
      BY <1>4, <1>7, <3>1, BodyOf
  <2>2. \A i \in 1 .. Len(m) : b[4 + i] = m[i]
    BY <1>1, <1>4
  <2>3. QED
    BY <2>1, <2>2, SeqEqual
<1>9. QED
  BY <1>1, <1>4, <1>5, <1>7, <1>8 DEF Legal, HeaderSize

-----------------------------------------------------------------------------
(* Where the receiver is in what was sent                                  *)

LEMMA Sizes ==
  ASSUME TypeOK
  PROVE  /\ Len(buf) \in Nat /\ Len(wire) \in Nat /\ Len(sent) \in Nat
         /\ Total \in Nat /\ Pos \in Int
         /\ buf \o wire \in Seq(Byte) /\ Len(buf \o wire) = Len(buf) + Len(wire)
         /\ Pos + Len(buf) + Len(wire) = Total
         /\ Held \in Seq(Messages) /\ Len(Held) \in Nat
         /\ chunk \in Nat
<1>1. Len(buf) \in Nat /\ Len(wire) \in Nat /\ Total \in Nat /\ Len(sent) \in Nat
  BY DueType, LenProperties DEF TypeOK
<1>2. buf \o wire \in Seq(Byte) /\ Len(buf \o wire) = Len(buf) + Len(wire)
  BY ConcatProperties DEF TypeOK
<1>3. Held \in Seq(Messages)
  BY ConcatProperties DEF TypeOK, Held
<1>4. chunk \in Nat
  BY FrameStreamAssumption DEF TypeOK
<1>5. QED
  BY <1>1, <1>2, <1>3, <1>4, LenProperties DEF Pos

\* A buffer that is not empty holds bytes of the next frame.
LEMMA Ahead ==
  ASSUME TypeOK, HistoryInv, ContentInv, NEW n \in 0 .. Len(sent), Taken(n), Len(buf) # 0
  PROVE  /\ n + 1 \in 1 .. Len(sent)
         /\ sent[n + 1].bytes \in Seq(Byte)
         /\ \A k \in 1 .. Len(sent[n + 1].bytes) : k <= Len(buf) => buf[k] = sent[n + 1].bytes[k]
<1>1. Pos = EndAt(n) /\ EndAt(n) \in Nat
  BY HistoryType DEF Taken
<1>2. n # Len(sent)
  BY <1>1, Sizes DEF Total
<1>3. n + 1 \in 1 .. Len(sent) /\ n + 1 - 1 = n
  BY <1>2, Sizes
<1>4. sent[n + 1].bytes \in Seq(Byte)
  BY <1>3, HistoryType
<1>5. ASSUME NEW k \in 1 .. Len(sent[n + 1].bytes), k <= Len(buf)
      PROVE  buf[k] = sent[n + 1].bytes[k]
  <2>1. k \in Nat /\ k > 0
    BY <1>4, LenProperties
  <2>2. EndAt(n + 1 - 1) + k > Pos /\ EndAt(n + 1 - 1) + k - Pos = k
    BY <1>1, <1>3, <2>1
  <2>3. (buf \o wire)[k] = sent[n + 1].bytes[k]
    BY <1>3, <1>5, <2>2 DEF ContentInv
  <2>4. (buf \o wire)[k] = buf[k]
    BY <1>5, <2>1, Sizes, ConcatProperties DEF TypeOK
  <2>5. QED
    BY <2>3, <2>4
<1>6. QED
  BY <1>3, <1>4, <1>5

\* The header in the buffer is that of the next frame.
LEMMA NextHeader ==
  ASSUME TypeOK, HistoryInv, ContentInv, NEW n \in 0 .. Len(sent), Taken(n), HasHeader(buf)
  PROVE  HasHeader(sent[n + 1].bytes) /\ Declared(sent[n + 1].bytes) = Declared(buf)
<1>1. Len(buf) # 0 /\ Len(buf) >= 4
  BY Sizes DEF HasHeader, HeaderSize
<1>2. HasHeader(sent[n + 1].bytes) /\ Len(sent[n + 1].bytes) >= 4 /\ sent[n + 1].bytes \in Seq(Byte)
  BY <1>1, Ahead DEF HistoryInv, HasHeader, HeaderSize
<1>3. \A k \in 1 .. HeaderSize : buf[k] = sent[n + 1].bytes[k]
  <2>1. \A k \in 1 .. HeaderSize : k \in 1 .. Len(sent[n + 1].bytes) /\ k <= Len(buf)
    BY <1>1, <1>2, Sizes, LenProperties DEF HeaderSize
  <2>2. QED
    BY <1>1, <2>1, Ahead
<1>4. QED
  BY <1>2, <1>3, SameHeader DEF TypeOK

\* A complete frame in the buffer, not over the limit, is the next frame that was sent.
LEMMA WholeFrame ==
  ASSUME TypeOK, HistoryInv, ContentInv, NEW n \in 0 .. Len(sent), Taken(n),
         HasFrame(buf), Declared(buf) <= MaxPayload
  PROVE  /\ n + 1 \in 1 .. Len(sent)
         /\ Len(sent[n + 1].bytes) = HeaderSize + Declared(buf)
         /\ EndAt(n + 1) = Pos + HeaderSize + Declared(buf)
         /\ sent[n + 1].ok <=> Body(buf) \in Messages
         /\ sent[n + 1].ok /\ (receiver = "native" \/ \A h \in 1 .. n : sent[h].ok) =>
              DueAt(n + 1) = Append(DueAt(n), Body(buf))
         /\ ~sent[n + 1].ok => DueAt(n + 1) = DueAt(n)
<1> DEFINE f == sent[n + 1].bytes
           d == Declared(buf)
<1>1. HasHeader(buf) /\ Len(buf) >= 4 + d /\ d \in Nat /\ Len(buf) \in Nat /\ Len(buf) # 0
  BY Sizes, DeclaredIsNat DEF HasFrame, HasHeader, HeaderSize, TypeOK
<1>2. n + 1 \in 1 .. Len(sent) /\ f \in Seq(Byte) /\ n + 1 - 1 = n
  BY <1>1, Ahead
<1>3. HasHeader(f) /\ Declared(f) = d
  BY <1>1, NextHeader
<1>4. sent[n + 1].ok \in BOOLEAN
  BY <1>2, HistoryType DEF Frames
<1>5. ~(d > MaxPayload)
  BY <1>1, FrameStreamAssumption
<1>6. Len(f) = 4 + d
  BY <1>2, <1>3, <1>4, <1>5 DEF HistoryInv, HeaderSize
<1>7. Body(buf) = Body(f)
  <2>1. /\ Body(buf) \in Seq(Byte) /\ Len(Body(buf)) = d
        /\ \A i \in 1 .. d : Body(buf)[i] = buf[4 + i]
    BY BodyOf DEF TypeOK
  <2>2. /\ Body(f) \in Seq(Byte) /\ Len(Body(f)) = d
        /\ \A i \in 1 .. d : Body(f)[i] = f[4 + i]
    <3>1. HasFrame(f)
      BY <1>1, <1>3, <1>6 DEF HasFrame, HeaderSize
    <3>2. QED
      BY <1>2, <1>3, <3>1, BodyOf
  <2>3. \A i \in 1 .. d : buf[4 + i] = f[4 + i]
    <3>1. \A i \in 1 .. d : 4 + i \in 1 .. Len(f) /\ 4 + i <= Len(buf)
      BY <1>1, <1>6
    <3>2. QED
      BY <1>1, <3>1, Ahead
  <2> HIDE DEF d, f
  <2>4. \A i \in 1 .. Len(Body(buf)) : Body(buf)[i] = Body(f)[i]
    BY <2>1, <2>2, <2>3
  <2>5. QED
    BY <2>1, <2>2, <2>4, SeqEqual
<1>8. EndAt(n + 1) = EndAt(n) + Len(f) /\ Pos = EndAt(n) /\ EndAt(n) \in Nat
  BY <1>2, HistoryType DEF HistoryInv, Taken
<1>9. \A h \in 1 .. n + 1 : h \in 1 .. n \/ h = n + 1
  BY Sizes
<1>10. sent[n + 1].ok <=> Body(buf) \in Messages
  BY <1>2, <1>3, <1>4, <1>5, <1>7 DEF HistoryInv
<1>11. sent[n + 1].ok /\ (receiver = "native" \/ \A h \in 1 .. n : sent[h].ok) =>
              DueAt(n + 1) = Append(DueAt(n), Body(buf))
  BY <1>2, <1>7, <1>9 DEF HistoryInv
<1>12. ~sent[n + 1].ok => DueAt(n + 1) = DueAt(n)
  BY <1>2 DEF HistoryInv
<1>13. QED
  BY <1>1, <1>2, <1>6, <1>8, <1>10, <1>11, <1>12 DEF HeaderSize

\* What a receiver that waits has not taken out is not complete in its buffer.
LEMMA NothingComplete ==
  ASSUME TypeOK, BufferInv, HistoryInv, ContentInv, ReceiverInv, mode = "wait",
         NEW n \in 0 .. Len(sent), Taken(n), NEW i \in 0 .. Len(sent),
         EndAt(i) <= Total - Len(wire)
  PROVE  i <= n
<1> SUFFICES ASSUME i > n
             PROVE  FALSE
  BY Sizes
<1>1. n + 1 \in 1 .. Len(sent) /\ n + 1 - 1 = n /\ n + 1 <= i
  BY Sizes
<1>2. EndAt(n + 1) <= EndAt(i) /\ EndAt(n + 1) \in Nat /\ EndAt(i) \in Nat /\ EndAt(n) \in Nat
  <2>1. n + 1 \in 0 .. Len(sent)
    BY <1>1, Sizes
  <2>2. EndAt(n + 1) <= EndAt(i)
    BY <1>1, <2>1 DEF HistoryInv
  <2>3. QED
    BY <2>1, <2>2, HistoryType
<1>3. EndAt(n + 1) = EndAt(n) + Len(sent[n + 1].bytes) /\ HasHeader(sent[n + 1].bytes)
  BY <1>1 DEF HistoryInv
<1>4. Len(sent[n + 1].bytes) \in Nat /\ Len(sent[n + 1].bytes) >= 4
  BY <1>1, <1>3, HistoryType, LenProperties DEF HasHeader, HeaderSize
<1>5. Len(sent[n + 1].bytes) <= Len(buf)
  <2>1. Pos = EndAt(n)
    BY DEF Taken
  <2>2. QED
    BY SMTT(30), <1>2, <1>3, <1>4, <2>1, Sizes
<1>6. HasHeader(buf)
  BY <1>4, <1>5, Sizes DEF HasHeader, HeaderSize
<1>7. Declared(sent[n + 1].bytes) = Declared(buf) /\ Declared(buf) \in Nat
  BY <1>6, NextHeader, DeclaredIsNat DEF TypeOK
<1>8. ~HasFrame(buf) /\ Declared(buf) <= MaxPayload
  BY <1>6 DEF BufferInv, BufferBounded, ReceiverInv, Incomplete, Legal
<1>9. Len(sent[n + 1].bytes) = HeaderSize + Declared(buf)
  BY <1>1, <1>7, <1>8, HistoryType, FrameStreamAssumption DEF HistoryInv, Frames
<1>10. QED
  BY <1>4, <1>5, <1>6, <1>7, <1>8, <1>9, Sizes DEF HasFrame

-----------------------------------------------------------------------------
(* The history grows at its end                                            *)

LEMMA PutsFrame ==
  ASSUME TypeOK, NEW n \in Nat, n = Len(sent), NEW bytes \in Seq(Byte), NEW ok \in BOOLEAN, NEW body, ok => body \in Messages,
         Puts(bytes, ok, body)
  PROVE  /\ Len(sent') = n + 1
         /\ \A i \in 1 .. n : sent'[i] = sent[i]
         /\ \A i \in 0 .. n : EndAt(i)' = EndAt(i) /\ DueAt(i)' = DueAt(i)
         /\ sent'[n + 1].ok = ok /\ sent'[n + 1].bytes = bytes
         /\ Total' = Total + Len(bytes) /\ EndAt(n + 1)' = Total'
         /\ Due' = (IF Owes(ok) THEN Append(Due, body) ELSE Due)
         /\ DueAt(n + 1)' = Due'
<1> DEFINE due == IF Owes(ok) THEN Append(Due, body) ELSE Due
           f   == [ok |-> ok, bytes |-> bytes, end |-> Total + Len(bytes), due |-> due]
<1>1. due \in Seq(Messages)
  BY DueType, AppendProperties DEF Owes
<1>2. Total + Len(bytes) \in Nat
  BY DueType, LenProperties
<1>3. sent' = Append(sent, f)
  BY DEF Puts
<1> HIDE DEF due
<1>4. f \in Frames /\ f.ok = ok /\ f.bytes = bytes /\ f.end = Total + Len(bytes) /\ f.due = due
  BY <1>1, <1>2 DEF Frames
<1> HIDE DEF f
<1>5. /\ Len(sent') = n + 1
      /\ \A i \in 1 .. n : sent'[i] = sent[i]
      /\ sent'[n + 1] = f
  BY <1>3, <1>4, AppendProperties, LenProperties DEF TypeOK
<1>6. ASSUME NEW i \in 0 .. n
      PROVE  EndAt(i)' = EndAt(i) /\ DueAt(i)' = DueAt(i)
  <2>1. i = 0 \/ i \in 1 .. n
    BY <1>5
  <2>2. QED
    BY <1>5, <2>1 DEF EndAt, DueAt
<1>7. n + 1 # 0
  BY <1>5
<1>8. EndAt(n + 1)' = f.end /\ DueAt(n + 1)' = f.due
  BY <1>5, <1>7 DEF EndAt, DueAt
<1>9. Total' = f.end /\ Due' = f.due
  BY <1>5, <1>7 DEF EndAt, DueAt, Total, Due
<1>10. QED
  BY <1>4, <1>5, <1>6, <1>8, <1>9 DEF due

\* A sequence is the beginning of itself with one more element.
LEMMA PrefixOfAppend ==
  ASSUME NEW S, NEW s \in Seq(S), NEW e \in S, NEW n \in 0 .. Len(s)
  PROVE  SubSeq(Append(s, e), 1, n) = SubSeq(s, 1, n)
<1>1. Len(s) \in Nat /\ n \in Nat /\ n <= Len(s)
  BY LenProperties
<1>2. /\ Append(s, e) \in Seq(S) /\ Len(Append(s, e)) = Len(s) + 1
      /\ \A i \in 1 .. Len(s) : Append(s, e)[i] = s[i]
  BY AppendProperties
<1>3. /\ SubSeq(s, 1, n) \in Seq(S) /\ Len(SubSeq(s, 1, n)) = n - 1 + 1
      /\ \A i \in 1 .. n - 1 + 1 : SubSeq(s, 1, n)[i] = s[1 + i - 1]
  BY <1>1, Slice
<1>4. /\ SubSeq(Append(s, e), 1, n) \in Seq(S) /\ Len(SubSeq(Append(s, e), 1, n)) = n - 1 + 1
      /\ \A i \in 1 .. n - 1 + 1 : SubSeq(Append(s, e), 1, n)[i] = Append(s, e)[1 + i - 1]
  BY <1>1, <1>2, Slice
<1>5. \A i \in 1 .. n : SubSeq(s, 1, n)[i] = s[i] /\ SubSeq(Append(s, e), 1, n)[i] = s[i]
  BY <1>1, <1>2, <1>3, <1>4
<1>6. QED
  BY <1>1, <1>3, <1>4, <1>5, SeqEqual

\* What was owed stays the beginning of what is owed.
LEMMA OwedStays ==
  ASSUME TypeOK, NEW bytes \in Seq(Byte), NEW ok \in BOOLEAN, NEW body, ok => body \in Messages,
         Puts(bytes, ok, body),
         NEW s \in Seq(Messages), Len(s) <= Len(Due), s = SubSeq(Due, 1, Len(s))
  PROVE  Len(s) <= Len(Due') /\ s = SubSeq(Due', 1, Len(s))
<1>1. Due' = Due \/ (ok /\ Due' = Append(Due, body))
  <2>1. PICK n \in Nat : n = Len(sent)
    BY LenProperties DEF TypeOK
  <2>2. QED
    BY <2>1, PutsFrame DEF Owes
<1>2. CASE Due' = Due
  BY <1>2
<1>3. CASE ok /\ Due' = Append(Due, body)
  <2>1. Due \in Seq(Messages) /\ body \in Messages /\ Len(Due) \in Nat /\ Len(s) \in Nat
    BY <1>3, DueType, LenProperties
  <2>2. Len(Due') = Len(Due) + 1
    BY <1>3, <2>1, AppendProperties
  <2>3. Len(s) \in 0 .. Len(Due)
    BY <2>1
  <2>4. SubSeq(Due', 1, Len(s)) = SubSeq(Due, 1, Len(s))
    BY <1>3, <2>1, <2>3, PrefixOfAppend
  <2>5. QED
    BY <2>1, <2>2, <2>4
<1>4. QED
  BY <1>1, <1>2, <1>3

LEMMA PutsHistory ==
  ASSUME TypeOK, HistoryInv, NEW bytes \in Seq(Byte), NEW ok \in BOOLEAN, NEW body,
         ok => /\ body \in Messages /\ body = Body(bytes)
               /\ Legal(Declared(bytes)) /\ Len(bytes) = HeaderSize + Declared(bytes),
         ~ok => \/ Declared(bytes) > MaxPayload
                \/ Len(bytes) = HeaderSize + Declared(bytes) /\ Body(bytes) \notin Messages,
         HasHeader(bytes),
         Puts(bytes, ok, body)
  PROVE  HistoryInv'
<1>0. PICK n \in Nat : n = Len(sent)
  BY LenProperties DEF TypeOK
<1>1. n \in Nat /\ n = Len(sent) /\ Len(sent') = n + 1 /\ Total \in Nat /\ Due \in Seq(Messages)
  BY <1>0, PutsFrame, DueType
<1>2. /\ \A i \in 1 .. n : sent'[i] = sent[i]
      /\ \A i \in 0 .. n : EndAt(i)' = EndAt(i) /\ DueAt(i)' = DueAt(i)
  BY <1>0, PutsFrame
<1>3. /\ sent'[n + 1].ok = ok /\ sent'[n + 1].bytes = bytes
      /\ EndAt(n + 1)' = Total + Len(bytes)
      /\ Due' = (IF Owes(ok) THEN Append(Due, body) ELSE Due)
      /\ DueAt(n + 1)' = Due'
  BY <1>0, PutsFrame
<1>4. receiver' = receiver
  BY DEF Puts, receiver
<1>5. Due' \in Seq(Messages) /\ Len(Due) \in Nat /\ Len(Due') \in Nat /\ Len(Due) <= Len(Due')
  BY <1>1, <1>3, AppendProperties, LenProperties DEF Owes
<1>6. EndAt(n)' = Total /\ DueAt(n)' = Due
  BY <1>1, <1>2 DEF Total, Due
<1>7. ASSUME NEW i \in 1 .. n
      PROVE  /\ EndAt(i)' = EndAt(i - 1)' + Len(sent'[i].bytes)
             /\ HasHeader(sent'[i].bytes)
             /\ sent'[i].ok =>
                  /\ Legal(Declared(sent'[i].bytes))
                  /\ Len(sent'[i].bytes) = HeaderSize + Declared(sent'[i].bytes)
                  /\ Body(sent'[i].bytes) \in Messages
                  /\ (receiver' = "native" \/ \A h \in 1 .. i : sent'[h].ok) =>
                       DueAt(i)' = Append(DueAt(i - 1)', Body(sent'[i].bytes))
             /\ ~sent'[i].ok =>
                  /\ \/ Declared(sent'[i].bytes) > MaxPayload
                     \/ /\ Len(sent'[i].bytes) = HeaderSize + Declared(sent'[i].bytes)
                        /\ Body(sent'[i].bytes) \notin Messages
                  /\ DueAt(i)' = DueAt(i - 1)'
             /\ Len(DueAt(i)') <= Len(Due')
             /\ DueAt(i)' = SubSeq(Due', 1, Len(DueAt(i)'))
  <2>1. i \in 0 .. n /\ i - 1 \in 0 .. n /\ 1 .. i \subseteq 1 .. n
    BY <1>1
  <2>2. /\ sent'[i] = sent[i] /\ EndAt(i)' = EndAt(i) /\ EndAt(i - 1)' = EndAt(i - 1)
        /\ DueAt(i)' = DueAt(i) /\ DueAt(i - 1)' = DueAt(i - 1)
        /\ \A h \in 1 .. i : sent'[h] = sent[h]
    BY <1>2, <2>1
  <2>3. DueAt(i) \in Seq(Messages)
    BY <1>1, <2>1, HistoryType
  <2>4. Len(DueAt(i)) <= Len(Due') /\ DueAt(i) = SubSeq(Due', 1, Len(DueAt(i)))
    BY <1>1, <2>3, OwedStays DEF HistoryInv
  <2>5. QED
    BY <1>1, <1>4, <2>2, <2>4 DEF HistoryInv
<1>8. /\ EndAt(n + 1)' = EndAt(n)' + Len(sent'[n + 1].bytes)
      /\ HasHeader(sent'[n + 1].bytes)
      /\ sent'[n + 1].ok =>
           /\ Legal(Declared(sent'[n + 1].bytes))
           /\ Len(sent'[n + 1].bytes) = HeaderSize + Declared(sent'[n + 1].bytes)
           /\ Body(sent'[n + 1].bytes) \in Messages
           /\ (receiver' = "native" \/ \A h \in 1 .. n + 1 : sent'[h].ok) =>
                DueAt(n + 1)' = Append(DueAt(n)', Body(sent'[n + 1].bytes))
      /\ ~sent'[n + 1].ok =>
           /\ \/ Declared(sent'[n + 1].bytes) > MaxPayload
              \/ /\ Len(sent'[n + 1].bytes) = HeaderSize + Declared(sent'[n + 1].bytes)
                 /\ Body(sent'[n + 1].bytes) \notin Messages
           /\ DueAt(n + 1)' = DueAt(n)'
      /\ Len(DueAt(n + 1)') <= Len(Due')
      /\ DueAt(n + 1)' = SubSeq(Due', 1, Len(DueAt(n + 1)'))
  <2>1. ok /\ (receiver' = "native" \/ \A h \in 1 .. n + 1 : sent'[h].ok) => Owes(ok)
    <3>1. \A h \in 1 .. n : h \in 1 .. n + 1
      BY <1>1
    <3>2. QED
      BY <1>1, <1>2, <1>4, <3>1 DEF Owes
  <2>2. DueAt(n + 1)' = SubSeq(Due', 1, Len(DueAt(n + 1)'))
    BY <1>3, <1>5, SubSeqFull
  <2>3. Len(DueAt(n + 1)') <= Len(Due')
    <3>1. DueAt(n + 1)' = Due'
      BY <1>3
    <3>2. QED
      BY <1>5, <3>1
  <2>4. ~ok => ~Owes(ok)
    BY DEF Owes
  <2>5. QED
    BY <1>3, <1>6, <2>1, <2>2, <2>3, <2>4
<1>9. ASSUME NEW i \in 0 .. n + 1, NEW j \in 0 .. n + 1, i <= j
      PROVE  EndAt(i)' <= EndAt(j)' /\ Len(DueAt(i)') <= Len(DueAt(j)')
  <2>1. CASE j \in 0 .. n
    <3>1. i \in 0 .. n
      BY <1>1, <1>9, <2>1
    <3>2. QED
      BY <1>1, <1>2, <1>9, <2>1, <3>1 DEF HistoryInv
  <2>2. CASE j = n + 1 /\ i \in 0 .. n
    <3>1. n \in 0 .. n /\ i <= n /\ EndAt(i) \in Nat /\ DueAt(i) \in Seq(Messages)
      BY <1>1, <2>2, HistoryType
    <3>2. EndAt(i) <= Total /\ Len(DueAt(i)) <= Len(Due)
      BY <1>1, <2>2, <3>1 DEF HistoryInv, Total, Due
    <3>3. Len(bytes) \in Nat /\ Len(DueAt(i)) \in Nat
      BY <3>1, LenProperties
    <3>4. EndAt(j)' = Total + Len(bytes) /\ DueAt(j)' = Due' /\ EndAt(i)' = EndAt(i) /\ DueAt(i)' = DueAt(i)
      BY <1>2, <1>3, <2>2
    <3>5. QED
      BY <1>1, <1>5, <3>1, <3>2, <3>3, <3>4
  <2>3. CASE j = n + 1 /\ i = n + 1
    <3>1. EndAt(j)' \in Nat /\ Len(DueAt(j)') \in Nat
      BY <1>1, <1>3, <1>5, <2>3, LenProperties
    <3>2. QED
      BY <2>3, <3>1
  <2>4. QED
    BY <1>1, <2>1, <2>2, <2>3
<1>10. \A i \in 1 .. n + 1 : (i \in 1 .. n) \/ (i = n + 1 /\ i - 1 = n)
  BY <1>1
<1>11. QED
  BY <1>1, <1>7, <1>8, <1>9, <1>10 DEF HistoryInv

\* Positions.
LEMMA Between ==
  ASSUME NEW x \in Nat, NEW p \in Int, NEW l \in Nat, x > p, x <= p + l
  PROVE  x - p \in 1 .. l
  OBVIOUS

LEMMA Regroup ==
  ASSUME NEW e \in Nat, NEW k \in Nat, NEW p \in Int
  PROVE  e + k - p = (e + k) - p
  OBVIOUS

LEMMA Further ==
  ASSUME NEW x \in Nat, NEW p \in Int, NEW d \in Nat, x > p + d
  PROVE  (x - (p + d)) + d = x - p /\ x > p
  OBVIOUS

\* What has been put on the wire lies behind everything else, and nothing that the
\* receiver has changes.
LEMMA PutsStream ==
  ASSUME TypeOK, StreamInv, NEW bytes \in Seq(Byte), NEW ok \in BOOLEAN, NEW body,
         ok => body \in Messages, Puts(bytes, ok, body), HistoryInv'
  PROVE  StreamInv'
<1>0. PICK n \in Nat : n = Len(sent)
  BY LenProperties DEF TypeOK
<1>1. TypeOK'
  BY PutsType
<1>2. /\ Len(sent') = n + 1
      /\ \A i \in 1 .. n : sent'[i] = sent[i]
      /\ \A i \in 0 .. n : EndAt(i)' = EndAt(i) /\ DueAt(i)' = DueAt(i)
      /\ sent'[n + 1].bytes = bytes
      /\ Total' = Total + Len(bytes) /\ EndAt(n + 1)' = Total'
  BY <1>0, PutsFrame
<1>3. UNCHANGED <<ends, hungUp, buf, out, inbox, got, stage, mode, chunk>> /\ wire' = wire \o bytes
  BY DEF Puts
<1>4. Len(bytes) \in Nat /\ Len(wire') = Len(wire) + Len(bytes)
  BY <1>3, ConcatProperties, LenProperties DEF TypeOK
<1>5. /\ Len(buf) \in Nat /\ Len(wire) \in Nat /\ Total \in Nat /\ Pos \in Int
      /\ Pos + Len(buf) + Len(wire) = Total /\ chunk \in Nat /\ Len(Held) \in Nat
  BY Sizes
<1>6. Total' - Len(wire') = Total - Len(wire) /\ Pos' = Pos
  BY <1>2, <1>3, <1>4, <1>5 DEF Pos
<1>7. Held' = Held /\ receiver' = receiver
  BY <1>3 DEF Held, receiver
<1>8. ContentInv'
  <2>1. /\ buf \o wire \in Seq(Byte) /\ Len(buf \o wire) = Len(buf) + Len(wire)
        /\ buf' \o wire' = (buf \o wire) \o bytes
    <3>1. buf \in Seq(Byte) /\ wire \in Seq(Byte)
      BY DEF TypeOK
    <3>2. buf \o (wire \o bytes) = (buf \o wire) \o bytes
      BY <3>1, ConcatAssociative
    <3>3. QED
      BY <1>3, <3>2, Sizes
  <2>2. /\ \A x \in 1 .. Len(buf) + Len(wire) : (buf' \o wire')[x] = (buf \o wire)[x]
        /\ \A x \in 1 .. Len(bytes) : (buf' \o wire')[Len(buf) + Len(wire) + x] = bytes[x]
    <3>1. \A x \in 1 .. Len(buf \o wire) + Len(bytes) :
            ((buf \o wire) \o bytes)[x] = IF x <= Len(buf \o wire) THEN (buf \o wire)[x]
                                          ELSE bytes[x - Len(buf \o wire)]
      BY <2>1, ConcatProperties
    <3>2. \A x \in 1 .. Len(buf) + Len(wire) : (buf' \o wire')[x] = (buf \o wire)[x]
      BY <1>4, <1>5, <2>1, <3>1
    <3>3. ASSUME NEW x \in 1 .. Len(bytes)
          PROVE  (buf' \o wire')[Len(buf) + Len(wire) + x] = bytes[x]
      <4>1. /\ Len(buf \o wire) + x \in 1 .. Len(buf \o wire) + Len(bytes)
            /\ ~(Len(buf \o wire) + x <= Len(buf \o wire))
            /\ Len(buf \o wire) + x - Len(buf \o wire) = x
        BY <1>4, <1>5, <2>1
      <4>2. ((buf \o wire) \o bytes)[Len(buf \o wire) + x] = bytes[x]
        BY <3>1, <4>1
      <4>3. QED
        BY <2>1, <4>2
    <3>4. QED
      BY <3>2, <3>3
  <2>3. ASSUME NEW i \in 1 .. n, NEW k \in 1 .. Len(sent'[i].bytes), EndAt(i - 1)' + k > Pos'
        PROVE  (buf' \o wire')[EndAt(i - 1)' + k - Pos'] = sent'[i].bytes[k]
    <3>1. /\ i \in 0 .. n /\ i - 1 \in 0 .. n /\ n \in 0 .. n /\ i <= n
          /\ sent'[i] = sent[i] /\ EndAt(i - 1)' = EndAt(i - 1)
      BY <1>0, <1>2
    <3>2. /\ EndAt(i - 1) \in Nat /\ EndAt(i) \in Nat /\ Len(sent[i].bytes) \in Nat
          /\ EndAt(i) = EndAt(i - 1) + Len(sent[i].bytes) /\ EndAt(i) <= Total
      <4>1. EndAt(i) <= EndAt(n) /\ EndAt(i) = EndAt(i - 1) + Len(sent[i].bytes)
        BY <1>0, <3>1 DEF StreamInv, HistoryInv
      <4>2. EndAt(i - 1) \in Nat /\ EndAt(i) \in Nat /\ sent[i].bytes \in Seq(Byte)
        BY <1>0, <3>1, HistoryType
      <4>3. QED
        BY <1>0, <4>1, <4>2, LenProperties DEF Total
    <3>3. k \in Nat /\ k > 0 /\ k <= Len(sent[i].bytes)
      BY <2>3, <3>1, <3>2
    <3>4. EndAt(i - 1) + k > Pos
      BY <1>6, <2>3, <3>1
    <3>7. EndAt(i - 1) + k - Pos \in 1 .. Len(buf) + Len(wire)
      <4>1. PICK x \in Nat : x = EndAt(i - 1) + k
        BY <3>2, <3>3
      <4>2. PICK l \in Nat : l = Len(buf) + Len(wire)
        BY <1>5
      <4>3. x <= Total /\ x > Pos
        BY SMTT(30), <1>5, <3>2, <3>3, <3>4, <4>1
      <4>4. Pos \in Int /\ x <= Pos + l
        BY <1>5, <4>2, <4>3
      <4>5. x - Pos \in 1 .. l
        BY <4>3, <4>4, Between
      <4>6. EndAt(i - 1) + k - Pos = x - Pos
        BY <1>5, <3>2, <3>3, <4>1, Regroup
      <4>7. QED
        BY <4>2, <4>5, <4>6
    <3>5. (buf \o wire)[EndAt(i - 1) + k - Pos] = sent[i].bytes[k]
      BY <1>0, <2>3, <3>1, <3>4 DEF StreamInv, ContentInv
    <3>6. QED
      BY <1>6, <2>2, <3>1, <3>5, <3>7
  <2>4. ASSUME NEW i, i = n + 1, NEW k \in 1 .. Len(sent'[i].bytes)
        PROVE  (buf' \o wire')[EndAt(i - 1)' + k - Pos'] = sent'[i].bytes[k]
    <3>1. i - 1 = n /\ n \in 0 .. n
      BY <2>4
    <3>2. EndAt(i - 1)' = Total
      BY <1>0, <1>2, <3>1 DEF Total
    <3>3. k \in Nat /\ k > 0 /\ k <= Len(bytes) /\ sent'[i].bytes = bytes
      BY <1>2, <1>4, <2>4
    <3>4. Total + k - Pos = Len(buf) + Len(wire) + k /\ k \in 1 .. Len(bytes)
      BY <1>4, <1>5, <3>3
    <3>5. (buf' \o wire')[Total + k - Pos] = bytes[k]
      BY <2>2, <3>4
    <3>6. QED
      BY <1>6, <3>2, <3>3, <3>5
  <2>5. \A i \in 1 .. n + 1 : i \in 1 .. n \/ i = n + 1
    OBVIOUS
  <2>6. Pos' >= 0
    BY <1>6 DEF StreamInv, ContentInv
  <2>7. QED
    BY <1>2, <2>3, <2>4, <2>5, <2>6 DEF ContentInv
<1>9. ReceiverInv'
  <2>1. ASSUME NEW m \in 0 .. n, Taken(m)
        PROVE  m \in 0 .. n + 1 /\ Taken(m)'
    <3>1. m \in 0 .. n + 1 /\ EndAt(m)' = EndAt(m) /\ DueAt(m)' = DueAt(m)
      BY <1>2
    <3>2. \A i \in 1 .. m : sent'[i] = sent[i]
      BY <1>2
    <3>3. QED
      BY <1>3, <1>6, <1>7, <2>1, <3>1, <3>2 DEF Taken
  <2>2. mode' \in Running => \E m \in 0 .. Len(sent') : Taken(m)'
    <3>1. mode' \in Running => \E m \in 0 .. n : Taken(m)
      BY <1>0, <1>3 DEF StreamInv, ReceiverInv
    <3>2. QED
      BY <1>2, <2>1, <3>1
  <2>3. QED
    BY <1>3, <1>7, <2>2 DEF StreamInv, ReceiverInv
<1>10. PieceInv'
  <2>1. ASSUME NEW i \in 1 .. n + 1, mode \in {"decode", "take", "malformed"},
               sent'[i].end <= Total - Len(wire) - chunk
        PROVE  Len(Held) >= Len(DueAt(i)')
    <3>1. CASE i \in 1 .. n
      <4>1. i \in 0 .. n /\ sent'[i] = sent[i] /\ DueAt(i)' = DueAt(i)
        BY <1>2, <3>1
      <4>2. QED
        BY <1>0, <2>1, <3>1, <4>1 DEF StreamInv, PieceInv
    <3>2. CASE i = n + 1
      <4>1. sent'[i].end = Total + Len(bytes)
        BY <1>2, <3>2 DEF EndAt
      <4>2. Len(bytes) # 0
        <5>1. HasHeader(sent'[n + 1].bytes)
          BY <1>2 DEF HistoryInv
        <5>2. QED
          BY <1>2, <1>4, <5>1 DEF HasHeader, HeaderSize
      <4>3. QED
        BY <1>4, <1>5, <2>1, <4>1, <4>2
    <3>3. QED
      BY <3>1, <3>2
  <2>2. QED
    BY <1>2, <1>3, <1>6, <1>7, <2>1 DEF PieceInv
<1>11. InOrder'
  <2>1. Held \in Seq(Messages) /\ Len(Held) <= Len(Due) /\ Held = SubSeq(Due, 1, Len(Held))
    BY Sizes DEF StreamInv, InOrder
  <2>2. Len(Held) <= Len(Due') /\ Held = SubSeq(Due', 1, Len(Held))
    BY <2>1, OwedStays
  <2>3. QED
    BY <1>7, <2>2 DEF InOrder
<1>12. QED
  BY <1>8, <1>9, <1>10, <1>11 DEF StreamInv

-----------------------------------------------------------------------------
(* The receiver                                                            *)

\* The history is the sender's.
LEMMA HistoryKept ==
  ASSUME UNCHANGED <<ends, sent>>
  PROVE  /\ receiver' = receiver /\ Total' = Total /\ Due' = Due
         /\ \A i : EndAt(i)' = EndAt(i) /\ DueAt(i)' = DueAt(i)
         /\ HistoryInv => HistoryInv'
<1>1. receiver' = receiver /\ Total' = Total /\ Due' = Due
  BY DEF receiver, Total, Due, EndAt, DueAt
<1>2. \A i : EndAt(i)' = EndAt(i) /\ DueAt(i)' = DueAt(i)
  BY DEF EndAt, DueAt
<1>3. HistoryInv => HistoryInv'
  BY <1>1, <1>2 DEF HistoryInv
<1>4. QED
  BY <1>1, <1>2, <1>3

\* The receiver's place moves on by d bytes.
Moves(d) ==
  /\ Len(buf') + Len(wire') + d = Len(buf) + Len(wire)
  /\ \A x \in 1 .. Len(buf') + Len(wire') : (buf' \o wire')[x] = (buf \o wire)[x + d]

LEMMA Shift ==
  ASSUME TypeOK, TypeOK', HistoryInv, ContentInv, UNCHANGED <<ends, sent>>, NEW d \in Nat, Moves(d)
  PROVE  ContentInv' /\ Pos' = Pos + d
<1>1. /\ Len(buf) \in Nat /\ Len(wire) \in Nat /\ Total \in Nat /\ Pos \in Int
      /\ Pos + Len(buf) + Len(wire) = Total /\ Len(sent) \in Nat
  BY Sizes
<1>2. Len(buf') \in Nat /\ Len(wire') \in Nat
  BY LenProperties DEF TypeOK
<1>3. Total' = Total /\ \A i : EndAt(i)' = EndAt(i)
  BY HistoryKept
<1>4. Pos' = Pos + d /\ Len(buf') + Len(wire') + d = Len(buf) + Len(wire)
  <2>1. Len(buf') + Len(wire') + d = Len(buf) + Len(wire)
    BY DEF Moves
  <2>2. QED
    BY <1>1, <1>2, <1>3, <2>1 DEF Pos
<1>5. ASSUME NEW i \in 1 .. Len(sent), NEW k \in 1 .. Len(sent[i].bytes), EndAt(i - 1) + k > Pos'
      PROVE  (buf' \o wire')[EndAt(i - 1) + k - Pos'] = sent[i].bytes[k]
  <2>1. i \in 0 .. Len(sent) /\ i - 1 \in 0 .. Len(sent) /\ Len(sent) \in 0 .. Len(sent) /\ i <= Len(sent)
    BY <1>1
  <2>2. EndAt(i) <= Total /\ EndAt(i) = EndAt(i - 1) + Len(sent[i].bytes)
    BY <2>1 DEF HistoryInv, Total
  <2>3. EndAt(i - 1) \in Nat /\ EndAt(i) \in Nat /\ Len(sent[i].bytes) \in Nat
    <3>1. EndAt(i - 1) \in Nat /\ EndAt(i) \in Nat /\ sent[i].bytes \in Seq(Byte)
      BY <2>1, HistoryType
    <3>2. QED
      BY <3>1, LenProperties
  <2>4. k \in Nat /\ k <= Len(sent[i].bytes)
    BY <2>3
  <2>5. /\ EndAt(i - 1) + k - Pos' \in 1 .. Len(buf') + Len(wire')
        /\ EndAt(i - 1) + k - Pos' + d = EndAt(i - 1) + k - Pos
        /\ EndAt(i - 1) + k > Pos
    <3>1. Pos' \in Int /\ Pos' + Len(buf') + Len(wire') = Total
      BY <1>1, <1>2, <1>4
    <3>2. PICK x \in Nat : x = EndAt(i - 1) + k
      BY <2>3, <2>4
    <3>3. PICK l \in Nat : l = Len(buf') + Len(wire')
      BY <1>2
    <3>4. x <= EndAt(i)
      BY <2>2, <2>3, <2>4, <3>2
    <3>5. x <= Total
      BY <1>1, <2>2, <2>3, <3>4
    <3>6. x > Pos'
      BY <1>5, <3>2
    <3>7. x <= Pos' + l
      BY <1>1, <3>1, <3>3, <3>5
    <3>8. x - Pos' \in 1 .. l
      BY <3>1, <3>6, <3>7, Between
    <3>9. Pos \in Int /\ Pos' = Pos + d
      BY <1>1, <1>4
    <3>10. (x - Pos') + d = x - Pos /\ x > Pos
      BY <3>6, <3>9, Further
    <3>11. EndAt(i - 1) + k - Pos = x - Pos /\ EndAt(i - 1) + k - Pos' = x - Pos'
      BY <2>3, <2>4, <3>1, <3>2, <3>9, Regroup
    <3>12. QED
      BY <3>2, <3>3, <3>8, <3>10, <3>11
  <2>6. (buf \o wire)[EndAt(i - 1) + k - Pos] = sent[i].bytes[k]
    BY <2>5 DEF ContentInv
  <2>7. QED
    BY <2>5, <2>6 DEF Moves
<1>6. Pos' >= 0
  BY <1>1, <1>4 DEF ContentInv
<1>7. QED
  BY <1>3, <1>4, <1>5, <1>6 DEF ContentInv

\* Nothing moves.
LEMMA Stays ==
  ASSUME ContentInv, UNCHANGED <<ends, sent, wire, buf>>
  PROVE  ContentInv' /\ Pos' = Pos
<1>1. Total' = Total /\ \A i : EndAt(i)' = EndAt(i)
  BY HistoryKept
<1>2. Pos' = Pos
  BY <1>1 DEF Pos
<1>3. QED
  BY <1>1, <1>2 DEF ContentInv

\* What is owed of the frames taken is the beginning of what is owed.
LEMMA OwedTaken ==
  ASSUME TypeOK, HistoryInv, NEW n \in 0 .. Len(sent)
  PROVE  Len(DueAt(n)) <= Len(Due) /\ DueAt(n) = SubSeq(Due, 1, Len(DueAt(n)))
<1>1. CASE n = 0
  <2>1. DueAt(n) = <<>> /\ Len(DueAt(n)) = 0 /\ Len(Due) \in Nat
    BY <1>1, EmptySeq, DueType, LenProperties DEF DueAt
  <2>2. SubSeq(Due, 1, 0) = <<>>
    BY SubSeqEmpty
  <2>3. QED
    BY <2>1, <2>2
<1>2. CASE n # 0
  <2>1. n \in 1 .. Len(sent)
    BY <1>2, Sizes
  <2>2. QED
    BY <2>1 DEF HistoryInv
<1>3. QED
  BY <1>1, <1>2

LEMMA InOrderKept ==
  ASSUME InOrder, UNCHANGED <<ends, sent>>, Held' = Held
  PROVE  InOrder'
  BY HistoryKept DEF InOrder

\* A step that neither moves bytes nor decodes or handles a message.
LEMMA PieceKept ==
  ASSUME PieceInv, UNCHANGED <<ends, sent, wire, chunk>>, Held' = Held,
         mode \in {"decode", "take", "malformed"}
  PROVE  PieceInv'
  BY HistoryKept DEF PieceInv

\* A message that is handled leaves the inbox.
LEMMA HandlesHeld ==
  ASSUME TypeOK, inbox # <<>>, Handles
  PROVE  Held' = Held
<1> DEFINE h == Head(inbox)
           t == Tail(inbox)
<1>1. /\ got \in Seq(Messages) /\ inbox \in Seq(Messages) /\ h \in Messages /\ t \in Seq(Messages)
      /\ Len(t) = Len(inbox) - 1 /\ \A i \in 1 .. Len(t) : t[i] = inbox[i + 1]
  BY HeadTailProperties DEF TypeOK
<1>2. h = inbox[1]
  OBVIOUS
<1>3. Held' = Append(got, h) \o t
  BY DEF Handles, Held
<1> HIDE DEF h, t
<1>4. Append(got, h) = got \o <<h>> /\ <<h>> \in Seq(Messages) /\ Len(<<h>>) = 1 /\ <<h>>[1] = h
  BY <1>1, AppendIsConcat
<1>5. Append(got, h) \o t = got \o (<<h>> \o t)
  BY <1>1, <1>4, ConcatAssociative
<1>6. <<h>> \o t = inbox
  <2>1. Len(inbox) \in Nat /\ Len(t) \in Nat
    BY <1>1, LenProperties
  <2>2. /\ <<h>> \o t \in Seq(Messages) /\ Len(<<h>> \o t) = Len(<<h>>) + Len(t)
        /\ \A i \in 1 .. Len(<<h>>) + Len(t) :
             (<<h>> \o t)[i] = IF i <= Len(<<h>>) THEN <<h>>[i] ELSE t[i - Len(<<h>>)]
    BY <1>1, <1>4, ConcatProperties
  <2>3. Len(<<h>> \o t) = Len(inbox)
    BY <1>1, <1>4, <2>1, <2>2
  <2>4. ASSUME NEW i \in 1 .. Len(inbox)
        PROVE  (<<h>> \o t)[i] = inbox[i]
    <3>1. CASE i = 1
      BY <1>2, <1>4, <2>1, <2>2, <2>3, <3>1
    <3>2. CASE i # 1
      <4>1. i \in 1 .. Len(<<h>>) + Len(t) /\ ~(i <= Len(<<h>>)) /\ i - Len(<<h>>) = i - 1 /\ i - 1 \in 1 .. Len(t)
            /\ i - 1 + 1 = i
        BY <1>1, <1>4, <2>1, <2>3, <3>2
      <4>2. (<<h>> \o t)[i] = t[i - 1]
        BY <2>2, <4>1
      <4>3. t[i - 1] = inbox[i]
        BY <1>1, <4>1
      <4>4. QED
        BY <4>2, <4>3
    <3>3. QED
      BY <3>1, <3>2
  <2>5. QED
    BY <1>1, <2>2, <2>3, <2>4, SeqEqual
<1>7. QED
  BY <1>3, <1>5, <1>6 DEF Held

\* A receiver that waits has taken some frames, and holds what is owed of them.
LEMMA WaitsAt ==
  ASSUME TypeOK, ReceiverInv, mode = "wait"
  PROVE  \E n \in 0 .. Len(sent) : Taken(n) /\ Held = DueAt(n)
<1>1. PICK n \in 0 .. Len(sent) : Taken(n)
  BY DEF ReceiverInv, Running
<1>2. Held \o out = Held
  <2>1. out = <<>> /\ Held \in Seq(Messages)
    BY Sizes DEF ReceiverInv
  <2>2. QED
    BY <2>1, ConcatEmptySeq
<1>3. QED
  BY <1>1, <1>2 DEF Taken

\* A piece of n bytes goes from the wire to the buffer.
Arrives(n) ==
  /\ buf' = buf \o SubSeq(wire, 1, n)
  /\ wire' = SubSeq(wire, n + 1, Len(wire))

LEMMA PieceArrives ==
  ASSUME TypeOK, TypeOK', BufferInv, StreamInv, mode = "wait",
         UNCHANGED <<ends, sent, inbox, got>>, out' = <<>>,
         NEW n \in 1 .. MaxChunk, n <= Len(wire),
         Arrives(n), chunk' = n
  PROVE  /\ ContentInv' /\ PieceInv' /\ InOrder'
         /\ \E m \in 0 .. Len(sent) : Taken(m)'
<1>1. n \in Nat /\ n > 0 /\ Len(wire) \in Nat /\ Len(buf) \in Nat /\ wire \in Seq(Byte) /\ buf \in Seq(Byte)
  BY Sizes, FrameStreamAssumption DEF TypeOK
<1>2. /\ SubSeq(wire, 1, n) \in Seq(Byte) /\ Len(SubSeq(wire, 1, n)) = n
      /\ SubSeq(wire, n + 1, Len(wire)) \in Seq(Byte)
      /\ Len(SubSeq(wire, n + 1, Len(wire))) = Len(wire) - n
  <2>1. SubSeq(wire, 1, n) \in Seq(Byte) /\ Len(SubSeq(wire, 1, n)) = n - 1 + 1
    BY <1>1, Slice
  <2>2. /\ SubSeq(wire, n + 1, Len(wire)) \in Seq(Byte)
        /\ Len(SubSeq(wire, n + 1, Len(wire))) = Len(wire) - (n + 1) + 1
    BY <1>1, Slice
  <2>3. QED
    BY <1>1, <2>1, <2>2
<1>3. buf' \o wire' = buf \o wire
  <2>1. SubSeq(wire, 1, n) \o SubSeq(wire, n + 1, Len(wire)) = SubSeq(wire, 1, Len(wire))
    BY <1>1, ConcatAdjacentSubSeq
  <2>2. SubSeq(wire, 1, Len(wire)) = wire
    BY <1>1, SubSeqFull
  <2>3. QED
    <3>1. (buf \o SubSeq(wire, 1, n)) \o SubSeq(wire, n + 1, Len(wire))
            = buf \o (SubSeq(wire, 1, n) \o SubSeq(wire, n + 1, Len(wire)))
      <4>1. PICK p \in Seq(Byte), q \in Seq(Byte) :
              p = SubSeq(wire, 1, n) /\ q = SubSeq(wire, n + 1, Len(wire))
        BY <1>2
      <4>2. (buf \o p) \o q = buf \o (p \o q)
        BY SMTT(30), <1>1, ConcatAssociative
      <4>3. QED
        BY <4>1, <4>2
    <3>2. QED
      BY <2>1, <2>2, <3>1 DEF Arrives
<1>4. Len(buf') = Len(buf) + n /\ Len(wire') = Len(wire) - n
  BY <1>1, <1>2, ConcatProperties DEF Arrives
<1>5. Moves(0)
  <2>1. Len(buf') + Len(wire') + 0 = Len(buf) + Len(wire)
    BY <1>1, <1>4
  <2>2. \A x \in 1 .. Len(buf') + Len(wire') : x + 0 = x
    BY <1>1, <1>4
  <2>3. QED
    BY <1>3, <2>1, <2>2 DEF Moves
<1>6. ContentInv' /\ Pos' = Pos
  <2>1. ContentInv' /\ Pos' = Pos + 0 /\ Pos \in Int
    BY <1>5, Shift, Sizes DEF StreamInv
  <2>2. QED
    BY <2>1
<1>7. PICK m \in 0 .. Len(sent) : Taken(m) /\ Held = DueAt(m)
  BY WaitsAt DEF StreamInv
<1>8. Held' = Held /\ receiver' = receiver
  BY DEF Held, receiver
<1>9. Taken(m)'
  <2>1. EndAt(m)' = EndAt(m) /\ DueAt(m)' = DueAt(m)
    BY HistoryKept
  <2>2. Held \o <<>> = Held
    BY Sizes, ConcatEmptySeq
  <2>3. QED
    BY <1>6, <1>7, <1>8, <2>1, <2>2 DEF Taken
<1>10. PieceInv'
  <2>1. Total' = Total /\ \A i : DueAt(i)' = DueAt(i)
    BY HistoryKept
  <2>2. Total' - Len(wire') - chunk' = Total - Len(wire)
    BY <1>1, <1>4, <2>1, Sizes
  <2>3. ASSUME NEW i \in 1 .. Len(sent), sent[i].end <= Total - Len(wire)
        PROVE  Len(Held) >= Len(DueAt(i))
    <3>1. i \in 0 .. Len(sent) /\ EndAt(i) = sent[i].end
      BY Sizes DEF EndAt
    <3>2. i <= m
      BY <1>7, <2>3, <3>1, NothingComplete DEF StreamInv
    <3>3. Len(DueAt(i)) <= Len(DueAt(m))
      BY <1>7, <3>1, <3>2 DEF StreamInv, HistoryInv
    <3>4. Len(DueAt(i)) \in Nat /\ Len(DueAt(m)) \in Nat
      BY <3>1, HistoryType, LenProperties
    <3>5. QED
      BY <1>7, <3>3, <3>4
  <2>4. QED
    BY <1>8, <2>1, <2>2, <2>3 DEF PieceInv
<1>11. InOrder'
  BY <1>8, InOrderKept DEF StreamInv
<1>12. QED
  BY <1>6, <1>9, <1>10, <1>11

\* A frame leaves the buffer.
LEMMA FrameLeaves ==
  ASSUME TypeOK, TypeOK', HistoryInv, ContentInv, UNCHANGED <<ends, sent, wire>>,
         HasFrame(buf), buf' = AfterFrame(buf)
  PROVE  ContentInv' /\ Pos' = Pos + HeaderSize + Declared(buf)
<1> DEFINE d == HeaderSize + Declared(buf)
<1>1. d \in Nat /\ Len(buf) \in Nat /\ Len(wire) \in Nat /\ d <= Len(buf)
      /\ buf \in Seq(Byte) /\ wire \in Seq(Byte) /\ d + 1 \in Nat \ {0} /\ Declared(buf) \in Nat
  <2>1. Len(buf) \in Nat /\ Len(wire) \in Nat /\ buf \in Seq(Byte) /\ wire \in Seq(Byte)
    BY Sizes DEF TypeOK
  <2>2. Declared(buf) \in Nat /\ HeaderSize + Declared(buf) <= Len(buf)
    BY <2>1, DeclaredIsNat DEF HasFrame
  <2>3. HeaderSize + Declared(buf) \in Nat
    BY <2>2 DEF HeaderSize
  <2>4. QED
    BY <2>1, <2>2, <2>3
<1>2. buf' = SubSeq(buf, d + 1, Len(buf))
  BY DEF AfterFrame
<1> HIDE DEF d
<1>3. /\ buf' \in Seq(Byte) /\ Len(buf') = Len(buf) - (d + 1) + 1
      /\ \A i \in 1 .. Len(buf) - (d + 1) + 1 : buf'[i] = buf[d + 1 + i - 1]
  BY <1>1, <1>2, Slice
<1>4. Len(buf') = Len(buf) - d /\ \A i \in 1 .. Len(buf') : buf'[i] = buf[i + d]
  <2>1. Len(buf) - (d + 1) + 1 = Len(buf) - d
    BY <1>1
  <2>2. \A i \in 1 .. Len(buf) - d : d + 1 + i - 1 = i + d
    BY <1>1
  <2>3. QED
    BY <1>3, <2>1, <2>2
<1>5. \A x \in 1 .. Len(buf') + Len(wire) :
        (buf' \o wire)[x] = IF x <= Len(buf') THEN buf'[x] ELSE wire[x - Len(buf')]
  BY <1>1, <1>3, ConcatProperties
<1>6. \A x \in 1 .. Len(buf) + Len(wire) :
        (buf \o wire)[x] = IF x <= Len(buf) THEN buf[x] ELSE wire[x - Len(buf)]
  BY <1>1, ConcatProperties
<1>7. ASSUME NEW x \in 1 .. Len(buf') + Len(wire)
      PROVE  (buf' \o wire)[x] = (buf \o wire)[x + d]
  <2>1. x \in Nat /\ x + d \in 1 .. Len(buf) + Len(wire) /\ Len(buf') \in Nat
    BY <1>1, <1>4
  <2>2. CASE x <= Len(buf')
    <3>1. x + d <= Len(buf) /\ x \in 1 .. Len(buf')
      BY <1>1, <1>4, <2>1, <2>2
    <3>2. QED
      BY <1>4, <1>5, <1>6, <2>1, <2>2, <3>1
  <2>3. CASE ~(x <= Len(buf'))
    <3>1. ~(x + d <= Len(buf)) /\ (x + d) - Len(buf) = x - Len(buf')
      BY <1>1, <1>4, <2>1, <2>3
    <3>2. (buf' \o wire)[x] = wire[x - Len(buf')]
      BY <1>5, <2>3
    <3>3. (buf \o wire)[x + d] = wire[(x + d) - Len(buf)]
      BY <1>6, <2>1, <3>1
    <3>4. QED
      BY <3>1, <3>2, <3>3
  <2>4. QED
    BY <2>2, <2>3
<1>8. Moves(d)
  <2>1. Len(buf') + Len(wire') + d = Len(buf) + Len(wire)
    BY <1>1, <1>4
  <2>2. QED
    BY <1>7, <2>1 DEF Moves
<1>9. ContentInv' /\ Pos' = Pos + d
  BY <1>1, <1>8, Shift
<1>10. QED
  BY <1>1, <1>9, Sizes DEF d, HeaderSize

\* A message is appended to what was decoded.
LEMMA AppendHeld ==
  ASSUME NEW S, NEW s \in Seq(S), NEW t \in Seq(S), NEW e \in S
  PROVE  s \o Append(t, e) = Append(s \o t, e)
<1>1. <<e>> \in Seq(S) /\ s \o t \in Seq(S)
  BY ConcatProperties
<1>2. Append(t, e) = t \o <<e>> /\ Append(s \o t, e) = (s \o t) \o <<e>>
  BY <1>1, AppendIsConcat
<1>3. QED
  BY <1>1, <1>2, ConcatAssociative

-----------------------------------------------------------------------------
(* Steps                                                                   *)

LEMMA StreamInit == Init => TypeOK /\ StreamInv
<1> SUFFICES ASSUME Init
             PROVE  TypeOK /\ StreamInv
  OBVIOUS
<1>0. TypeOK
  BY TypeInit
<1>1. Len(sent) = 0 /\ Len(wire) = 0 /\ Len(buf) = 0 /\ Held = <<>> /\ out = <<>> /\ Len(Held) = 0
  BY EmptySeq, ConcatEmptySeq DEF Init, Held
<1>2. Total = 0 /\ Due = <<>> /\ Pos = 0 /\ EndAt(0) = 0 /\ DueAt(0) = <<>>
  BY <1>1 DEF Total, Due, Pos, EndAt, DueAt
<1>3. HistoryInv
  <2>1. \A i \in 0 .. Len(sent) : i = 0
    BY <1>1
  <2>2. EndAt(0) <= EndAt(0) /\ Len(DueAt(0)) <= Len(DueAt(0))
    BY <1>2, EmptySeq
  <2>3. \A i \in 1 .. Len(sent) : FALSE
    BY <1>1
  <2>4. QED
    BY <2>1, <2>2, <2>3 DEF HistoryInv
<1>4. ContentInv
  <2>1. \A i \in 1 .. Len(sent) : FALSE
    BY <1>1
  <2>2. QED
    BY <1>2, <2>1 DEF ContentInv
<1>5. ReceiverInv
  <2>1. 0 \in 0 .. Len(sent) /\ \A i \in 1 .. 0 : FALSE
    BY <1>1
  <2>2. Held \o out = <<>>
    BY <1>1, ConcatEmptySeq
  <2>3. Taken(0)
    BY <1>2, <2>1, <2>2 DEF Taken
  <2>4. mode = "wait"
    BY DEF Init
  <2>5. Incomplete(buf)
    BY <1>1 DEF Incomplete, HasHeader, HeaderSize
  <2>6. QED
    BY <1>1, <2>1, <2>3, <2>4, <2>5 DEF ReceiverInv
<1>6. PieceInv
  BY DEF Init, PieceInv
<1>7. InOrder
  <2>1. SubSeq(Due, 1, 0) = <<>>
    BY SubSeqEmpty
  <2>2. QED
    BY <1>1, <1>2, <2>1, EmptySeq DEF InOrder
<1>8. QED
  BY <1>0, <1>3, <1>4, <1>5, <1>6, <1>7 DEF StreamInv

\* A step of someone else.
LEMMA NothingDone ==
  ASSUME StreamInv, UNCHANGED <<ends, sent, wire, buf, out, inbox, got, mode, chunk>>
  PROVE  StreamInv'
<1>1. Held' = Held
  BY DEF Held
<1>2. ContentInv' /\ Pos' = Pos
  BY Stays DEF StreamInv
<1>3. /\ receiver' = receiver /\ HistoryInv' /\ Total' = Total
      /\ \A i : EndAt(i)' = EndAt(i) /\ DueAt(i)' = DueAt(i)
  BY HistoryKept DEF StreamInv
<1>4. \A n : Taken(n)' <=> Taken(n)
  BY <1>1, <1>2, <1>3 DEF Taken
<1>5. ReceiverInv'
  BY <1>3, <1>4 DEF StreamInv, ReceiverInv
<1>6. PieceInv'
  BY <1>1, <1>3 DEF StreamInv, PieceInv
<1>7. InOrder'
  BY <1>1, InOrderKept DEF StreamInv
<1>8. QED
  BY <1>2, <1>3, <1>5, <1>6, <1>7 DEF StreamInv

LEMMA SenderStep ==
  ASSUME TypeOK, StreamInv, Sender
  PROVE  StreamInv'
<1>1. ASSUME NEW m \in Messages, Sends(m)
      PROVE  StreamInv'
  <2>1. PICK b : b = Header(Len(m)) \o m
    OBVIOUS
  <2>2. m \in Seq(Byte) /\ CanEncode(m) /\ Puts(b, TRUE, m)
    BY <1>1, <2>1, FrameStreamAssumption DEF Sends
  <2>3. /\ b \in Seq(Byte) /\ HasHeader(b) /\ Legal(Declared(b))
        /\ Len(b) = HeaderSize + Declared(b) /\ Body(b) = m
    BY <2>1, <2>2, EncodedFrame
  <2>4. HistoryInv'
    BY <2>2, <2>3, PutsHistory DEF StreamInv
  <2>5. QED
    BY <2>2, <2>3, <2>4, PutsStream
<1>2. ASSUME NEW b \in Junk, SendsJunk(b)
      PROVE  StreamInv'
  <2>1. /\ b \in Seq(Byte) /\ HasHeader(b) /\ Puts(b, FALSE, <<>>)
        /\ \/ Declared(b) > MaxPayload
           \/ Len(b) = HeaderSize + Declared(b) /\ Body(b) \notin Messages
    BY <1>2, FrameStreamAssumption DEF SendsJunk
  <2>2. HistoryInv'
    BY <2>1, PutsHistory DEF StreamInv
  <2>3. QED
    BY <2>1, <2>2, PutsStream
<1>3. CASE HangsUp
  <2>1. UNCHANGED <<ends, sent, wire, buf, out, inbox, got, mode, chunk>>
    BY <1>3 DEF HangsUp
  <2>2. QED
    BY <2>1, NothingDone
<1>4. QED
  BY <1>1, <1>2, <1>3 DEF Sender

LEMMA RecvStep ==
  ASSUME TypeOK, TypeOK', BufferInv, StreamInv, Recv
  PROVE  StreamInv'
<1>1. PICK n \in 1 .. MaxChunk : n <= Len(wire) /\ Arrives(n) /\ chunk' = n
  BY DEF Recv, Arrives
<1>2. mode = "wait" /\ UNCHANGED <<ends, sent, inbox, got>> /\ out' = <<>> /\ mode' = "decode"
      /\ receiver # "native"
  BY DEF Recv
<1>3. /\ ContentInv' /\ PieceInv' /\ InOrder'
      /\ \E m \in 0 .. Len(sent) : Taken(m)'
  BY <1>1, <1>2, PieceArrives
<1>4. HistoryInv' /\ receiver' = receiver
  BY <1>2, HistoryKept DEF StreamInv
<1>5. ReceiverInv'
  BY <1>2, <1>3, <1>4 DEF ReceiverInv
<1>6. QED
  BY <1>3, <1>4, <1>5 DEF StreamInv

LEMMA NativeRecvStep ==
  ASSUME TypeOK, TypeOK', BufferInv, StreamInv, NativeRecv
  PROVE  StreamInv'
<1>1. PICK n \in 1 .. MaxChunk : /\ n <= Missing(buf) /\ n <= Len(wire) /\ Arrives(n) /\ chunk' = n
                                 /\ mode' = IF n = Missing(buf) THEN "decode" ELSE "wait"
  BY DEF NativeRecv, Arrives
<1>2. mode = "wait" /\ UNCHANGED <<ends, sent, inbox, got, out>> /\ receiver = "native"
  BY DEF NativeRecv
<1>3. out = <<>> /\ out' = <<>>
  BY <1>2 DEF StreamInv, ReceiverInv
<1>4. /\ ContentInv' /\ PieceInv' /\ InOrder'
      /\ \E m \in 0 .. Len(sent) : Taken(m)'
  BY <1>1, <1>2, <1>3, PieceArrives
<1>5. HistoryInv' /\ receiver' = receiver
  BY <1>2, HistoryKept DEF StreamInv
<1>6. mode' = "decode" => Len(buf') = HeaderSize \/ Len(buf') = HeaderSize + Declared(buf')
  <2>1. /\ n \in Nat /\ buf \in Seq(Byte) /\ Len(buf) \in Nat /\ Len(buf') = Len(buf) + n
        /\ SubSeq(wire, 1, n) \in Seq(Byte) /\ buf' = buf \o SubSeq(wire, 1, n)
    <3>1. n \in Nat \ {0} /\ wire \in Seq(Byte) /\ buf \in Seq(Byte)
      BY FrameStreamAssumption DEF TypeOK
    <3>2. SubSeq(wire, 1, n) \in Seq(Byte)
      BY <1>1, <3>1, Piece
    <3>3. QED
      BY <1>1, <3>1, <3>2, RecvType, Sizes DEF Arrives
  <2>2. CASE HasHeader(buf)
    <3>1. Missing(buf) = HeaderSize + Declared(buf) - Len(buf) /\ Declared(buf) \in Nat
      BY <2>1, <2>2, DeclaredIsNat DEF Missing
    <3>2. Declared(buf') = Declared(buf)
      BY <2>1, <2>2, DeclaredStays
    <3>3. QED
      BY <1>1, <2>1, <3>1, <3>2 DEF HeaderSize
  <2>3. CASE ~HasHeader(buf)
    <3>1. Missing(buf) = HeaderSize - Len(buf)
      BY <2>3 DEF Missing
    <3>2. QED
      BY <1>1, <2>1, <3>1 DEF HeaderSize
  <2>4. QED
    BY <2>2, <2>3
<1>7. ReceiverInv'
  BY <1>2, <1>3, <1>4, <1>5, <1>6 DEF ReceiverInv
<1>8. QED
  BY <1>4, <1>5, <1>7 DEF StreamInv

LEMMA DecodeStep ==
  ASSUME TypeOK, TypeOK', StreamInv, Decode
  PROVE  StreamInv'
<1>1. /\ receiver # "native" /\ mode = "decode" /\ mode' = "decode"
      /\ HasFrame(buf) /\ Legal(Declared(buf)) /\ Body(buf) \in Messages
      /\ out' = Append(out, Body(buf)) /\ buf' = AfterFrame(buf)
      /\ UNCHANGED <<ends, sent, wire, inbox, got, chunk>>
  BY DEF Decode
<1>2. PICK n \in 0 .. Len(sent) : Taken(n)
  BY <1>1 DEF StreamInv, ReceiverInv, Running
<1>3. Declared(buf) <= MaxPayload
  BY <1>1 DEF Legal
<1>4. /\ n + 1 \in 1 .. Len(sent)
      /\ EndAt(n + 1) = Pos + HeaderSize + Declared(buf)
      /\ sent[n + 1].ok
      /\ DueAt(n + 1) = Append(DueAt(n), Body(buf))
  BY <1>1, <1>2, <1>3, WholeFrame DEF StreamInv, Taken
<1>5. ContentInv' /\ Pos' = Pos + HeaderSize + Declared(buf)
  BY <1>1, FrameLeaves DEF StreamInv
<1>6. Held' = Held
  BY <1>1 DEF Held
<1>7. /\ receiver' = receiver /\ HistoryInv'
      /\ EndAt(n + 1)' = EndAt(n + 1) /\ DueAt(n + 1)' = DueAt(n + 1)
  BY <1>1, HistoryKept DEF StreamInv
<1>8. Held' \o out' = DueAt(n + 1)'
  <2>1. Held \in Seq(Messages) /\ out \in Seq(Messages) /\ Body(buf) \in Messages
    BY <1>1, Sizes DEF TypeOK
  <2>2. Held \o Append(out, Body(buf)) = Append(Held \o out, Body(buf))
    BY <2>1, AppendHeld
  <2>3. QED
    BY <1>1, <1>2, <1>4, <1>6, <1>7, <2>2 DEF Taken
<1>9. n + 1 \in 0 .. Len(sent') /\ \A h \in 1 .. n + 1 : sent'[h].ok
  <2>1. \A h \in 1 .. n + 1 : h \in 1 .. n \/ h = n + 1
    BY <1>4
  <2>2. QED
    BY <1>1, <1>2, <1>4, <2>1, Sizes DEF Taken
<1>10. Taken(n + 1)'
  BY <1>4, <1>5, <1>7, <1>8, <1>9 DEF Taken
<1>11. ReceiverInv'
  BY <1>1, <1>7, <1>9, <1>10 DEF ReceiverInv
<1>12. PieceInv' /\ InOrder'
  BY <1>1, <1>6, PieceKept, InOrderKept DEF StreamInv
<1>13. QED
  BY <1>5, <1>7, <1>11, <1>12 DEF StreamInv

LEMMA DecodeFailsStep ==
  ASSUME TypeOK, TypeOK', StreamInv, DecodeFails
  PROVE  StreamInv'
<1>1. /\ receiver # "native" /\ mode = "decode" /\ mode' = "malformed" /\ out' = <<>>
      /\ UNCHANGED <<ends, sent, wire, inbox, got, chunk>>
      /\ UNCHANGED buf \/ (HasFrame(buf) /\ buf' = AfterFrame(buf))
  BY DEF DecodeFails
<1>2. Held' = Held
  BY <1>1 DEF Held
<1>3. ContentInv'
  BY <1>1, Stays, FrameLeaves DEF StreamInv
<1>4. HistoryInv' /\ receiver' = receiver
  BY <1>1, HistoryKept DEF StreamInv
<1>5. ReceiverInv'
  BY <1>1, <1>4 DEF ReceiverInv, Running
<1>6. PieceInv' /\ InOrder'
  BY <1>1, <1>2, PieceKept, InOrderKept DEF StreamInv
<1>7. QED
  BY <1>3, <1>4, <1>5, <1>6 DEF StreamInv

LEMMA DecodeEndsStep ==
  ASSUME TypeOK, TypeOK', StreamInv, DecodeEnds
  PROVE  StreamInv'
<1>1. /\ receiver # "native" /\ mode = "decode" /\ mode' = "take" /\ out' = <<>>
      /\ Incomplete(buf) /\ inbox' = inbox \o out
      /\ UNCHANGED <<ends, sent, wire, buf, got, chunk>>
  BY DEF DecodeEnds
<1>2. PICK n \in 0 .. Len(sent) : Taken(n)
  BY <1>1 DEF StreamInv, ReceiverInv, Running
<1>3. got \in Seq(Messages) /\ inbox \in Seq(Messages) /\ out \in Seq(Messages)
  BY DEF TypeOK
<1>4. Held' = Held \o out
  BY SMTT(30), <1>1, <1>3, ConcatAssociative DEF Held
<1>5. Held' \in Seq(Messages) /\ Held' \o out' = Held'
  BY <1>1, <1>3, <1>4, Sizes, ConcatProperties, ConcatEmptySeq
<1>6. ContentInv' /\ Pos' = Pos
  BY <1>1, Stays DEF StreamInv
<1>7. /\ receiver' = receiver /\ HistoryInv' /\ EndAt(n)' = EndAt(n) /\ DueAt(n)' = DueAt(n)
      /\ Total' = Total /\ \A i : DueAt(i)' = DueAt(i)
  BY <1>1, HistoryKept DEF StreamInv
<1>8. Held' = DueAt(n)'
  BY <1>2, <1>4, <1>7 DEF Taken
<1>9. Taken(n)' /\ n \in 0 .. Len(sent')
  BY <1>1, <1>2, <1>5, <1>6, <1>7, <1>8 DEF Taken
<1>10. ReceiverInv'
  BY <1>1, <1>7, <1>9 DEF ReceiverInv
<1>11. PieceInv'
  <2>1. Len(Held) \in Nat /\ Len(out) \in Nat /\ Len(Held') = Len(Held) + Len(out)
    BY <1>3, <1>4, Sizes, ConcatProperties, LenProperties
  <2>2. \A i \in 1 .. Len(sent) : Len(DueAt(i)) \in Nat
    <3>1. \A i \in 1 .. Len(sent) : i \in 0 .. Len(sent)
      BY Sizes
    <3>2. QED
      BY <3>1, HistoryType, LenProperties
  <2>3. QED
    BY <1>1, <1>7, <2>1, <2>2 DEF StreamInv, PieceInv
<1>12. InOrder'
  <2>1. Due' = Due
    BY <1>1, HistoryKept
  <2>2. Len(DueAt(n)) <= Len(Due) /\ DueAt(n) = SubSeq(Due, 1, Len(DueAt(n)))
    BY OwedTaken DEF StreamInv
  <2>3. Held' = DueAt(n)
    BY <1>7, <1>8
  <2>4. QED
    BY <2>1, <2>2, <2>3 DEF InOrder
<1>13. QED
  BY <1>6, <1>7, <1>10, <1>11, <1>12 DEF StreamInv

\* A step after which the receiver has taken the same frames and holds the same
\* messages; nothing is being decoded.
LEMMA SameTaken ==
  ASSUME TypeOK, StreamInv, NEW n \in 0 .. Len(sent), Taken(n),
         UNCHANGED <<ends, sent, wire, buf, out>>, Held' = Held
  PROVE  Taken(n)' /\ n \in 0 .. Len(sent') /\ HistoryInv' /\ ContentInv' /\ InOrder' /\ receiver' = receiver
<1>1. ContentInv' /\ Pos' = Pos
  BY Stays DEF StreamInv
<1>2. /\ receiver' = receiver /\ HistoryInv' /\ EndAt(n)' = EndAt(n) /\ DueAt(n)' = DueAt(n)
  BY HistoryKept DEF StreamInv
<1>3. InOrder'
  BY InOrderKept DEF StreamInv
<1>4. QED
  BY <1>1, <1>2, <1>3 DEF Taken

LEMMA TakesStep ==
  ASSUME TypeOK, TypeOK', StreamInv, ClientTakes \/ MockTakes
  PROVE  StreamInv'
<1>1. /\ receiver # "native" /\ mode = "take" /\ mode' \in {"take", "wait", "cut"}
      /\ UNCHANGED <<ends, sent, wire, buf, out, chunk>>
      /\ UNCHANGED <<got, inbox>> \/ (inbox # <<>> /\ Handles)
  BY DEF ClientTakes, MockTakes
<1>2. Held' = Held
  BY <1>1, HandlesHeld DEF Held
<1>3. PICK n \in 0 .. Len(sent) : Taken(n)
  BY <1>1 DEF StreamInv, ReceiverInv, Running
<1>4. Taken(n)' /\ n \in 0 .. Len(sent') /\ HistoryInv' /\ ContentInv' /\ InOrder' /\ receiver' = receiver
  BY <1>1, <1>2, <1>3, SameTaken
<1>5. ReceiverInv'
  BY <1>1, <1>4 DEF StreamInv, ReceiverInv
<1>6. PieceInv'
  BY <1>1, <1>2, PieceKept DEF StreamInv
<1>7. QED
  BY <1>4, <1>5, <1>6 DEF StreamInv

LEMMA StopsStep ==
  ASSUME TypeOK, TypeOK', StreamInv, HandshakeTimesOut \/ EndOfFile
  PROVE  StreamInv'
<1>1. /\ mode = "wait" /\ mode' \in {"late", "gone"}
      /\ UNCHANGED <<ends, sent, wire, buf, out, inbox, got, chunk>>
  BY DEF HandshakeTimesOut, EndOfFile
<1>2. Held' = Held
  BY <1>1 DEF Held
<1>3. PICK n \in 0 .. Len(sent) : Taken(n)
  BY <1>1, WaitsAt DEF StreamInv
<1>4. Taken(n)' /\ n \in 0 .. Len(sent') /\ HistoryInv' /\ ContentInv' /\ InOrder' /\ receiver' = receiver
  BY <1>1, <1>2, <1>3, SameTaken
<1>5. ReceiverInv'
  BY <1>1, <1>4 DEF StreamInv, ReceiverInv, Running
<1>6. PieceInv'
  BY <1>1 DEF PieceInv
<1>7. QED
  BY <1>4, <1>5, <1>6 DEF StreamInv

LEMMA NativeHeaderStep ==
  ASSUME TypeOK, TypeOK', StreamInv, NativeHeader
  PROVE  StreamInv'
<1>1. /\ receiver = "native" /\ mode = "decode" /\ mode' \in {"malformed", "wait"}
      /\ UNCHANGED <<ends, sent, wire, buf, out, inbox, got, chunk>>
  BY DEF NativeHeader
<1>2. Held' = Held
  BY <1>1 DEF Held
<1>3. PICK n \in 0 .. Len(sent) : Taken(n)
  BY <1>1 DEF StreamInv, ReceiverInv, Running
<1>4. Taken(n)' /\ n \in 0 .. Len(sent') /\ HistoryInv' /\ ContentInv' /\ InOrder' /\ receiver' = receiver
  BY <1>1, <1>2, <1>3, SameTaken
<1>5. ReceiverInv'
  BY <1>1, <1>4 DEF StreamInv, ReceiverInv
<1>6. PieceInv'
  BY <1>1, <1>2, PieceKept DEF StreamInv
<1>7. QED
  BY <1>4, <1>5, <1>6 DEF StreamInv

LEMMA NativeTakesStep ==
  ASSUME TypeOK, TypeOK', BufferInv, StageInv, StreamInv, NativeTakes
  PROVE  StreamInv'
<1>1. /\ receiver = "native" /\ mode = "decode" /\ HasFrame(buf) /\ buf' = <<>>
      /\ UNCHANGED <<ends, sent, wire, out, inbox, chunk>>
      /\ \/ Body(buf) \in Messages /\ got' = Append(got, Body(buf)) /\ mode' = "wait"
         \/ Body(buf) \notin Messages /\ mode' \in {"malformed", "wait"} /\ got' = got
  BY DEF NativeTakes
<1>2. buf \in Seq(Byte) /\ Len(buf) \in Nat /\ HasHeader(buf) /\ Declared(buf) \in Nat
  BY <1>1, Sizes, DeclaredIsNat DEF HasFrame, TypeOK
<1>3. Len(buf) = HeaderSize + Declared(buf) /\ Declared(buf) <= MaxPayload
  <2>1. Len(buf) >= HeaderSize + Declared(buf)
    BY <1>1 DEF HasFrame
  <2>2. Len(buf) = HeaderSize \/ Len(buf) = HeaderSize + Declared(buf)
    BY <1>1 DEF StreamInv, ReceiverInv
  <2>3. Len(buf) = HeaderSize \/ Declared(buf) <= MaxPayload
    BY <1>1 DEF BufferInv
  <2>4. QED
    <3>1. CASE Len(buf) = HeaderSize
      <4>1. Declared(buf) = 0 /\ HeaderSize + 0 = HeaderSize
        BY <1>2, <2>1, <3>1 DEF HeaderSize
      <4>2. 0 <= MaxPayload
        BY FrameStreamAssumption
      <4>3. QED
        BY <3>1, <4>1, <4>2
    <3>2. CASE Len(buf) # HeaderSize
      BY <2>2, <2>3, <3>2
    <3>3. QED
      BY <3>1, <3>2
<1>4. AfterFrame(buf) = <<>>
  BY <1>2, <1>3, SubSeqEmpty DEF AfterFrame, HeaderSize
<1>5. ContentInv' /\ Pos' = Pos + HeaderSize + Declared(buf)
  BY <1>1, <1>4, FrameLeaves DEF StreamInv
<1>6. PICK n \in 0 .. Len(sent) : Taken(n)
  BY <1>1 DEF StreamInv, ReceiverInv, Running
<1>7. /\ n + 1 \in 1 .. Len(sent)
      /\ EndAt(n + 1) = Pos + HeaderSize + Declared(buf)
      /\ sent[n + 1].ok <=> Body(buf) \in Messages
      /\ sent[n + 1].ok => DueAt(n + 1) = Append(DueAt(n), Body(buf))
      /\ ~sent[n + 1].ok => DueAt(n + 1) = DueAt(n)
  BY <1>1, <1>3, <1>6, WholeFrame DEF StreamInv
<1>8. /\ receiver' = receiver /\ HistoryInv' /\ Due' = Due
      /\ EndAt(n + 1)' = EndAt(n + 1) /\ DueAt(n + 1)' = DueAt(n + 1)
  BY <1>1, HistoryKept DEF StreamInv
<1>9. out = <<>> /\ inbox = <<>>
  BY <1>1 DEF StreamInv, ReceiverInv, StageInv
<1>10. got \in Seq(Messages) /\ got' \in Seq(Messages) /\ Held = got /\ Held' = got'
       /\ Held \o out = got /\ Held' \o out' = got'
  <2>1. got \in Seq(Messages) /\ got' \in Seq(Messages)
    BY DEF TypeOK
  <2>2. got \o <<>> = got /\ got' \o <<>> = got'
    BY <2>1, ConcatEmptySeq
  <2>3. QED
    BY <1>1, <1>9, <2>1, <2>2 DEF Held
<1>11. got = DueAt(n)
  BY <1>6, <1>10 DEF Taken
<1>12. got' = DueAt(n + 1)
  BY <1>1, <1>7, <1>11
<1>13. n + 1 \in 0 .. Len(sent')
  BY <1>1, <1>7
<1>14. Taken(n + 1)'
  BY <1>1, <1>5, <1>7, <1>8, <1>10, <1>12 DEF Taken
<1>15. ReceiverInv'
  BY <1>1, <1>8, <1>9, <1>13, <1>14 DEF ReceiverInv
<1>16. InOrder'
  <2>1. n + 1 \in 0 .. Len(sent)
    BY <1>7
  <2>2. QED
    BY <1>8, <1>10, <1>12, <2>1, OwedTaken DEF StreamInv, InOrder
<1>17. PieceInv'
  <2>1. CASE mode' = "wait"
    BY <2>1 DEF PieceInv
  <2>2. CASE mode' = "malformed"
    BY <1>1, <1>10, <2>2, PieceKept DEF StreamInv
  <2>3. QED
    BY <1>1, <2>1, <2>2
<1>18. QED
  BY <1>5, <1>8, <1>15, <1>16, <1>17 DEF StreamInv

LEMMA StreamStep == TypeOK /\ BufferInv /\ StageInv /\ StreamInv /\ [Next]_vars => StreamInv'
<1> SUFFICES ASSUME TypeOK, BufferInv, StageInv, StreamInv, [Next]_vars
             PROVE  StreamInv'
  OBVIOUS
<1>1. TypeOK'
  BY TypeStep
<1>2. CASE Sender
  BY <1>2, SenderStep
<1>3. CASE Recv
  BY <1>1, <1>3, RecvStep
<1>4. CASE Decode
  BY <1>1, <1>4, DecodeStep
<1>5. CASE DecodeFails
  BY <1>1, <1>5, DecodeFailsStep
<1>6. CASE DecodeEnds
  BY <1>1, <1>6, DecodeEndsStep
<1>7. CASE ClientTakes \/ MockTakes
  BY <1>1, <1>7, TakesStep
<1>8. CASE HandshakeTimesOut \/ EndOfFile
  BY <1>1, <1>8, StopsStep
<1>9. CASE NativeRecv
  BY <1>1, <1>9, NativeRecvStep
<1>10. CASE NativeHeader
  BY <1>1, <1>10, NativeHeaderStep
<1>11. CASE NativeTakes
  BY <1>1, <1>11, NativeTakesStep
<1>12. CASE UNCHANGED vars
  BY <1>12, NothingDone DEF vars
<1>13. QED
  BY <1>2, <1>3, <1>4, <1>5, <1>6, <1>7, <1>8, <1>9, <1>10, <1>11, <1>12 DEF Next, Receiver

LEMMA StreamImplies ==
  ASSUME TypeOK, BufferInv, StreamInv
  PROVE  NothingForgotten /\ JunkLosesOnlyItsChunk
<1>1. NothingForgotten
  <2> SUFFICES ASSUME mode = "wait", wire = <<>>
               PROVE  Held = Due /\ buf = <<>>
    BY DEF NothingForgotten
  <2>1. PICK n \in 0 .. Len(sent) : Taken(n) /\ Held = DueAt(n)
    BY WaitsAt DEF StreamInv
  <2>2. Len(wire) = 0 /\ Len(sent) \in 0 .. Len(sent) /\ EndAt(Len(sent)) <= Total - Len(wire)
    BY EmptySeq, Sizes DEF Total
  <2>3. Len(sent) <= n
    BY <2>1, <2>2, NothingComplete DEF StreamInv
  <2>4. n = Len(sent)
    BY <2>3, Sizes
  <2>5. Held = Due /\ Pos = Total
    BY <2>1, <2>4 DEF Due, Total, Taken
  <2>6. Len(buf) = 0
    BY <2>2, <2>5, Sizes
  <2>7. buf = <<>>
    BY <2>6, EmptySeq DEF TypeOK
  <2>8. QED
    BY <2>5, <2>7
<1>2. JunkLosesOnlyItsChunk
  <2>1. \A i \in 1 .. Len(sent) : DueAt(i) = sent[i].due
    BY Sizes DEF DueAt
  <2>2. QED
    BY <2>1 DEF StreamInv, PieceInv, JunkLosesOnlyItsChunk
<1>3. QED
  BY <1>1, <1>2

-----------------------------------------------------------------------------
\* Types, buffer, conversation and what is under way are invariant.
THEOREM Invariance == Spec => []IInv
<1>1. Init => IInv
  BY BufferInit, StageInit, StreamInit DEF IInv
<1>2. IInv /\ [Next]_vars => IInv'
  BY TypeStep, BufferStep, StageStep, StreamStep DEF IInv
<1>3. QED
  BY <1>1, <1>2, PTL DEF Spec

\* Only bytes travel, and only JSON objects are decoded, held and handled.
THEOREM TypeCorrect == Spec => []TypeOK
<1>1. IInv => TypeOK
  BY DEF IInv
<1>2. QED
  BY Invariance, <1>1, PTL

\* The limit of a frame is a limit of the memory: whatever arrives, a receiver
\* that has worked off a piece holds less than one frame (frame.py:164,
\* "otherwise a length could burst the memory").
THEOREM BufferTheorem == Spec => []BufferBounded
<1>1. IInv => BufferBounded
  BY DEF IInv, BufferInv
<1>2. QED
  BY Invariance, <1>1, PTL

\* Messages wait in an inbox for more bytes to come in one place only: in the
\* client, between the handshake and the first piece the reader thread receives.
THEOREM InboxTheorem == Spec => []WaitsEmptyHanded
<1>1. IInv => WaitsEmptyHanded
  BY DEF IInv, StageInv
<1>2. QED
  BY Invariance, <1>1, PTL

\* Messages are handled in the order they were sent in, none twice, none of them
\* made up, however the stream is cut (FrameDecoder.feed(), recv_frame()).
THEOREM OrderTheorem == Spec => []InOrder
<1>1. IInv => InOrder
  BY DEF IInv, StreamInv
<1>2. QED
  BY Invariance, <1>1, PTL

\* Nothing that was sent stays in a buffer: a receiver that waits with nothing
\* under way has taken every frame.
THEOREM NothingForgottenTheorem == Spec => []NothingForgotten
<1>1. IInv => NothingForgotten
  BY StreamImplies DEF IInv
<1>2. QED
  BY Invariance, <1>1, PTL

\* What an undecodable frame takes with it are messages of the piece it came in:
\* the list feed() was filling, never the inbox.
THEOREM JunkTheorem == Spec => []JunkLosesOnlyItsChunk
<1>1. IInv => JunkLosesOnlyItsChunk
  BY StreamImplies DEF IInv
<1>2. QED
  BY Invariance, <1>1, PTL

=============================================================================
