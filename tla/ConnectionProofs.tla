--------------------------- MODULE ConnectionProofs ---------------------------
(***************************************************************************)
(* Five promises to a client, for every limit and every client: the        *)
(* question for the host's addresses is answered in time, with no family   *)
(* cut short (Egress); the agent never holds more of a message than it may *)
(* have, and takes the client's requests for what they are (NoiseFraming); *)
(* it does not take another's address for the client's own (SshPeer); and  *)
(* it turns a source away only for what that source did (RateLimit).       *)
(***************************************************************************)
EXTENDS MCConnections, SequenceTheorems, FiniteSetTheorems,
        WellFoundedInduction, TLAPS

\* Egress: the first address of the two families starts the grace of the other, and
\* time stands still while something is due.

EgressInv ==
  /\ ticks \in Nat /\ ticks <= Timeout
  /\ hitAt \in Nat /\ (hitAt # NoHit => hitAt <= ticks)
  /\ DOMAIN family = Families /\ DOMAIN service = Families
  /\ \A f \in Families : DOMAIN service[f] = Services
  /\ EgressInTime /\ NotCutShort

\* Each step ends a family for one of the reasons, or leaves the results alone; time
\* only goes on while nothing is due.
LEMMA EgressStep ==
  ASSUME EgressInv, EgressNext PROVE EgressInv'
<1> USE EgressOK DEF EgressInv, EgressInTime, NotCutShort, Families, Other, Hit, Done, NoHit
<1>1. ASSUME NEW f \in Families, FamilyEnds(f) PROVE EgressInv'
  BY <1>1 DEF FamilyEnds, FamilyOver, GraceOver
<1>2. ASSUME NEW f \in Families, NEW s \in Services, ServiceAnswers(f, s) PROVE EgressInv'
  BY <1>2 DEF ServiceAnswers
<1>3. ASSUME NEW f \in Families, NEW s \in Services, ServiceFails(f, s) PROVE EgressInv'
  BY <1>3 DEF ServiceFails
<1>4. CASE Report BY <1>4 DEF Report
<1>5. CASE Tick BY <1>5 DEF Tick, FamilyOver, GraceOver
<1>6. QED BY <1>1, <1>2, <1>3, <1>4, <1>5 DEF EgressNext

\* The host's addresses are answered within the limit, and no family is given up
\* before its services failed, its time ran out or its grace was over (probe).
THEOREM EgressSafe == EgressSpec => []LookupSound
<1>1. EgressInit => EgressInv
  BY EgressOK DEF EgressInit, EgressInv, EgressInTime, NotCutShort, Families, NoHit
<1>2. EgressInv /\ [EgressNext]_egressVars => EgressInv'
  <2>1. ASSUME EgressInv, UNCHANGED egressVars PROVE EgressInv'
    BY <2>1 DEF egressVars, EgressInv, EgressInTime, NotCutShort, Hit
  <2>2. QED BY <2>1, EgressStep
<1>3. EgressInv => LookupSound
  BY DEF EgressInv, LookupSound
<1>4. QED BY <1>1, <1>2, <1>3, PTL DEF EgressSpec

-----------------------------------------------------------------------------
\* NoiseFraming: while the header is incomplete fewer bytes than it has are there;
\* once it is, fewer than it announced.

Bytes == [msg : Nat, at : Nat, says : Nat]

FramesTyped ==
  /\ toAgent \in Seq(Seq(Bytes)) /\ asking \in Seq(Bytes) /\ asked \in Seq(Message)

BufferInv ==
  /\ out \in Seq(Bytes) /\ total \in Nat /\ spun \in Nat
  /\ total = Unknown => Len(out) < Header /\ spun <= Len(out)
  /\ total # Unknown => Len(out) < total /\ total <= MaxMsg /\ spun <= Len(out) + Header

FramingInv == FramesTyped /\ BufferInv

\* The pieces messages are cut into are bytes again.
LEMMA ChunkFacts ==
  ASSUME NEW bytes \in Seq(Bytes)
  PROVE  Chunk(bytes) \in Seq(Bytes) /\ AfterChunk(bytes) \in Seq(Bytes)
<1>1. Len(bytes) \in Nat /\ \A i \in 1..Len(bytes) : bytes[i] \in Bytes
  BY LenProperties, ElementOfSeq
<1>2. Least(MaxFrame, Len(bytes)) \in Nat /\ Least(MaxFrame, Len(bytes)) <= Len(bytes)
  BY <1>1, FramingOK DEF Least
<1>3. \A i \in 1..Least(MaxFrame, Len(bytes)) : bytes[i] \in Bytes
  BY <1>1, <1>2
<1>4. \A i \in (Least(MaxFrame, Len(bytes)) + 1)..Len(bytes) : bytes[i] \in Bytes
  BY <1>1, <1>2
<1>5. Chunk(bytes) \in Seq(Bytes)
  BY <1>2, <1>3, SubSeqProperties DEF Chunk
<1>6. AfterChunk(bytes) \in Seq(Bytes)
  <2>1. Least(MaxFrame, Len(bytes)) + 1 \in Int /\ Len(bytes) \in Int
    BY <1>1, <1>2
  <2>2. QED BY <2>1, <1>4, SubSeqProperties DEF AfterChunk
<1>7. QED BY <1>5, <1>6

\* A frame taken in makes the collected bytes longer; its header is a length.
LEMMA GatheredFacts ==
  ASSUME FramingInv, Readable
  PROVE  /\ Tail(toAgent) \in Seq(Seq(Bytes))
         /\ Gathered \in Seq(Bytes) /\ Len(Gathered) \in Nat /\ Len(Gathered) > Len(out)
         /\ Len(out) \in Nat /\ (Headed => Announced \in Nat)
         /\ Headed => Content \in Seq(Bytes)
         /\ Headed =>
              Len(Content) = (IF total # Unknown THEN Len(Gathered) ELSE Len(Gathered) - Header)
<1> USE DEF FramingInv, FramesTyped, BufferInv
<1>1. Head(toAgent) \in Seq(Bytes) /\ Head(toAgent) # <<>> /\ Tail(toAgent) \in Seq(Seq(Bytes))
  BY HeadTailProperties DEF Readable
<1>2. Len(Head(toAgent)) \in Nat \ {0}
  BY <1>1, EmptySeq
<1>3. Gathered \in Seq(Bytes) /\ Len(Gathered) = Len(out) + Len(Head(toAgent)) /\ Len(out) \in Nat
  BY <1>1, ConcatProperties, LenProperties DEF Gathered
<1>4. Len(Gathered) \in Nat /\ Len(Gathered) > Len(out)
  BY <1>2, <1>3
<1>5. ASSUME Headed PROVE Announced \in Nat
  <2>1. CASE total # Unknown BY <2>1 DEF Announced
  <2>2. CASE total = Unknown
    <3>1. 1 \in 1..Len(Gathered) BY <1>4, <1>5, <2>2, FramingOK DEF Headed
    <3>2. Gathered[1] \in Bytes BY <3>1, <1>3, ElementOfSeq
    <3>3. QED BY <3>2, <2>2 DEF Announced, Bytes
  <2>3. QED BY <2>1, <2>2
<1>6. ASSUME Headed, total = Unknown
      PROVE  Content \in Seq(Bytes) /\ Len(Content) = Len(Gathered) - Header
  <2>1. Len(Gathered) >= Header BY <1>6 DEF Headed
  <2>2. \A i \in (Header + 1)..Len(Gathered) : Gathered[i] \in Bytes
    BY <1>3, <1>4, ElementOfSeq, FramingOK
  <2>3. Header + 1 \in Int /\ Len(Gathered) \in Int BY <1>4, FramingOK
  <2>4. /\ SubSeq(Gathered, Header + 1, Len(Gathered)) \in Seq(Bytes)
        /\ Len(SubSeq(Gathered, Header + 1, Len(Gathered)))
             = IF Header + 1 <= Len(Gathered) THEN Len(Gathered) - (Header + 1) + 1 ELSE 0
    BY <2>2, <2>3, SubSeqProperties
  <2>5. QED BY <2>1, <2>4, <1>4, <1>6, FramingOK DEF Content
<1>7. ASSUME Headed, total # Unknown
      PROVE  Content \in Seq(Bytes) /\ Len(Content) = Len(Gathered)
  BY <1>3, <1>7 DEF Content
<1>8. QED BY <1>1, <1>3, <1>4, <1>5, <1>6, <1>7

\* Every step of recv keeps the bounds.
LEMMA RecvStep ==
  ASSUME FramingInv, Recv PROVE FramingInv'
<1>1. CASE EmptyFrame
  BY <1>1 DEF EmptyFrame, FramingInv, FramesTyped, BufferInv, wires, received, asks, Unknown
<1>2. CASE GatherHeader
  <2>1. Readable /\ ~Headed BY <1>2 DEF GatherHeader
  <2>2. total = Unknown /\ Len(Gathered) < Header
    BY <2>1, GatheredFacts, FramingOK DEF Headed
  <2>3. QED
    BY <1>2, <2>1, <2>2, GatheredFacts
    DEF GatherHeader, FramingInv, FramesTyped, BufferInv, asks, Unknown
<1>3. CASE TooLong
  BY <1>3 DEF TooLong, FramingInv, FramesTyped, BufferInv, wires, received, asks, Unknown
<1>4. CASE Gather
  <2>1. Readable /\ Headed /\ Fits /\ Len(Content) < Announced
    BY <1>4 DEF Gather
  <2>2. /\ out' = Content /\ total' = Announced /\ spun' = spun + 1 /\ toAgent' = Tail(toAgent)
        /\ UNCHANGED <<asking, asked>>
    BY <1>4 DEF Gather, asks
  <2>3. FramesTyped'
    BY <2>1, <2>2, GatheredFacts DEF FramingInv, FramesTyped
  <2>4. Announced # Unknown /\ Announced <= MaxMsg /\ Announced \in Nat
    BY <2>1, GatheredFacts, FramingOK DEF Fits, Unknown
  <2>5. spun + 1 <= Len(Content) + Header
    BY <2>1, GatheredFacts, FramingOK DEF FramingInv, BufferInv
  <2>6. BufferInv'
    BY <2>1, <2>2, <2>4, <2>5, GatheredFacts DEF FramingInv, BufferInv, Unknown
  <2>7. QED BY <2>3, <2>6 DEF FramingInv
<1>5. ASSUME NEW len \in Lengths, Take(len) PROVE FramingInv'
  <2>1. Readable BY <1>5 DEF Take
  <2>2. <<>> \in Seq(Bytes) /\ Len(<<>>) = 0 BY EmptySeq
  <2>3. QED
    BY <1>5, <2>1, <2>2, GatheredFacts, FramingOK
    DEF Take, FramingInv, FramesTyped, BufferInv, asks, Unknown
<1>6. QED BY <1>1, <1>2, <1>3, <1>4, <1>5 DEF Recv

\* What a client sends are frames of bytes, however it frames.
LEMMA ClientStep ==
  ASSUME FramingInv,
         Ask \/ \E n \in 0..MaxFrame, says \in Says : OddFrame(n, says)
  PROVE  FramingInv'
<1> USE DEF FramingInv, FramesTyped
<1>1. ASSUME NEW len \in Lengths, AskStart(len) PROVE FramingInv'
  <2> DEFINE m == [id |-> Len(asked) + 1, len |-> len]
  <2>1. Len(asked) \in Nat BY LenProperties
  <2>2. m \in Message BY <2>1, FramingOK DEF Message
  <2>3. Encoded(m) \in Seq(Bytes)
    <3>1. Header + m.len \in Nat BY FramingOK
    <3>2. \A i \in 1..(Header + m.len) : Byte(m, i) \in Bytes
      BY <2>2, <3>1, FramingOK DEF Message, Byte, Bytes
    <3>3. Encoded(m) \in [1..(Header + m.len) -> Bytes] BY <3>2 DEF Encoded
    <3>4. QED BY SMTT(30), <3>1, <3>3, SeqDef
  <2>4. Append(asked, m) \in Seq(Message) BY <2>2, AppendProperties
  <2>5. asking' = Encoded(m) /\ asked' = Append(asked, m) BY <1>1 DEF AskStart
  <2>6. QED BY <1>1, <2>3, <2>4, <2>5 DEF AskStart, BufferInv, wires, received, Unknown
<1>2. CASE AskFrame
  <2>1. Append(toAgent, Chunk(asking)) \in Seq(Seq(Bytes)) /\ AfterChunk(asking) \in Seq(Bytes)
    BY ChunkFacts, AppendProperties
  <2>2. QED BY <1>2, <2>1 DEF AskFrame, BufferInv, received, Unknown
<1>3. ASSUME NEW n \in 0..MaxFrame, NEW says \in Says, OddFrame(n, says) PROVE FramingInv'
  <2> DEFINE frame == [i \in 1..n |-> Byte([id |-> 0, len |-> says], i)]
  <2>1. n \in Nat BY FramingOK
  <2>2. frame \in [1..n -> Bytes] BY <2>1, FramingOK DEF Byte, Bytes
  <2>3. frame \in Seq(Bytes) BY <2>1, <2>2, SeqDef
  <2>4. Append(toAgent, frame) \in Seq(Seq(Bytes)) BY <2>3, AppendProperties
  <2>5. toAgent' = Append(toAgent, frame) BY <1>3 DEF OddFrame
  <2>6. QED BY <1>3, <2>4, <2>5 DEF OddFrame, BufferInv, received, Unknown
<1>4. QED BY <1>1, <1>2, <1>3 DEF Ask

\* The other steps leave frames on their way to the agent and its buffer alone.
LEMMA OtherStep ==
  ASSUME FramingInv,
         \/ \E yes \in BOOLEAN : Msg1(yes) \/ Msg2(yes)
         \/ HandshakeTimesOut \/ IdleTimesOut \/ SendFrame \/ ClientReads \/ ConnectionBreaks
         \/ UNCHANGED noiseVars
  PROVE  FramingInv'
<1>1. UNCHANGED <<toAgent, asking, asked, out, total, spun>>
  BY DEF Msg1, Msg2, HandshakeTimesOut, IdleTimesOut, SendFrame, ClientReads, ConnectionBreaks,
         noiseVars, wires, received, asks
<1>2. QED BY <1>1 DEF FramingInv, FramesTyped, BufferInv, Unknown

\* Whatever a client sends, and in whatever pieces, the agent keeps less than a whole
\* message of it, and reads at most one frame per byte it keeps (NoiseConn::recv).
THEOREM BoundedBuffer == NoiseSpec => []BufferBounded
<1>1. NoiseInit => FramingInv
  <2>1. \A S : <<>> \in Seq(S) /\ Len(<<>>) = 0 BY EmptySeq
  <2>2. QED BY <2>1, FramingOK DEF NoiseInit, FramingInv, FramesTyped, BufferInv, Unknown
<1>2. FramingInv /\ [NoiseNext]_noiseVars => FramingInv'
  BY RecvStep, ClientStep, OtherStep DEF NoiseNext
<1>3. FramingInv => BufferBounded
  <2> SUFFICES ASSUME FramingInv PROVE BufferBounded OBVIOUS
  <2>1. Len(out) \in Nat BY LenProperties DEF FramingInv, BufferInv
  <2>2. QED BY <2>1, FramingOK DEF FramingInv, BufferInv, BufferBounded
<1>4. QED BY <1>1, <1>2, <1>3, PTL DEF NoiseSpec

-----------------------------------------------------------------------------
\* NoiseFraming: frames on their way to an agent are pieces of the client's requests, each
\* beginning where the one before it ended, the first where the agent's bytes end, and
\* the client goes on where the last one ended.

Full(n) == Header + asked[n].len
Of(f) == f[1].msg
From(f) == f[1].at
To(f) == f[1].at + Len(f) - 1

Piece(f) ==
  /\ f \in Seq(Bytes) /\ Len(f) \in Nat \ {0} /\ Of(f) \in 1..Len(asked)
  /\ From(f) >= 1 /\ To(f) <= Full(Of(f))
  /\ \A i \in 1..Len(f) : f[i] = Byte(asked[Of(f)], From(f) + i - 1)

\* The place after a piece: the next message once the piece ends its own.
Past(f) == IF To(f) = Full(Of(f)) THEN <<Of(f) + 1, 1>> ELSE <<Of(f), To(f) + 1>>

Taken == IF total = Unknown THEN 0 ELSE Header
Collected == <<Len(heard) + 1, Taken + Len(out) + 1>>
Reached(i) == IF i = 0 THEN Collected ELSE Past(toAgent[i])
Sending == IF asking = <<>> THEN <<Len(asked) + 1, 1>> ELSE <<Of(asking), From(asking)>>

PiecesInv ==
  /\ \A i \in 1..Len(toAgent) :
       Piece(toAgent[i]) /\ <<Of(toAgent[i]), From(toAgent[i])>> = Reached(i - 1)
  /\ Sending = Reached(Len(toAgent))
  /\ asking # <<>> => Piece(asking) /\ Of(asking) = Len(asked) /\ To(asking) = Full(Len(asked))

\* What is collected is the beginning of the message after those heard.
CollectedInv ==
  /\ Len(heard) \in Nat /\ DOMAIN heard = 1..Len(heard)
  /\ \A i \in 1..Len(out) : out[i] = Byte(asked[Len(heard) + 1], Taken + i)
  /\ total # Unknown => total = asked[Len(heard) + 1].len

WholeInv ==
  /\ FramingInv
  /\ ~client.odd =>
       /\ \A n \in 1..Len(asked) : asked[n].id = n
       /\ heard \in Seq(Seq(Bytes)) /\ PiecesInv /\ CollectedInv /\ MessagesWhole

\* How a first frame goes on with what is collected.
LEMMA FirstFrame ==
  ASSUME WholeInv, ~client.odd, Readable
  PROVE  /\ Piece(Head(toAgent)) /\ Of(Head(toAgent)) = Len(heard) + 1
         /\ From(Head(toAgent)) = Taken + Len(out) + 1
         /\ To(Head(toAgent)) = Taken + Len(Gathered) /\ Len(Gathered) > Len(out)
         /\ Gathered \in Seq(Bytes) /\ Len(Gathered) \in Nat
         /\ \A i \in 1..Len(Gathered) : Gathered[i] = Byte(asked[Len(heard) + 1], Taken + i)
<1> DEFINE f == Head(toAgent)
<1>1. toAgent \in Seq(Seq(Bytes)) /\ toAgent # <<>> /\ Len(toAgent) \in Nat
  BY LenProperties DEF WholeInv, FramingInv, FramesTyped, Readable
<1>2. 1 \in 1..Len(toAgent) /\ f = toAgent[1]
  BY <1>1, EmptySeq, HeadTailProperties
<1>3. Piece(f) /\ <<Of(f), From(f)>> = Reached(0)
  <2>1. Reached(1 - 1) = Reached(0) OBVIOUS
  <2> QED BY <1>2, <2>1 DEF WholeInv, PiecesInv
<1>4. Of(f) = Len(heard) + 1 /\ From(f) = Taken + Len(out) + 1
  BY <1>3 DEF Reached, Collected
<1>5. f \in Seq(Bytes) /\ out \in Seq(Bytes) /\ Len(f) \in Nat \ {0} /\ Len(out) \in Nat
        /\ Taken \in Nat
  BY <1>3, LenProperties, FramingOK DEF Piece, WholeInv, FramingInv, BufferInv, Taken
<1> HIDE DEF f
<1>6. /\ Gathered \in Seq(Bytes) /\ Len(Gathered) = Len(out) + Len(f)
      /\ \A i \in 1..Len(out) + Len(f) :
           Gathered[i] = IF i <= Len(out) THEN out[i] ELSE f[i - Len(out)]
  BY <1>5, ConcatProperties DEF Gathered, f
<1>7. ASSUME NEW i \in 1..Len(Gathered) PROVE Gathered[i] = Byte(asked[Len(heard) + 1], Taken + i)
  <2>1. CASE i <= Len(out)
    BY <1>5, <1>6, <2>1 DEF WholeInv, CollectedInv
  <2>2. CASE i > Len(out)
    <3>1. i - Len(out) \in 1..Len(f) /\ Gathered[i] = f[i - Len(out)] BY <1>5, <1>6, <2>2
    <3>2. f[i - Len(out)] = Byte(asked[Of(f)], From(f) + (i - Len(out)) - 1) BY <1>3, <3>1 DEF Piece
    <3>3. From(f) + (i - Len(out)) - 1 = Taken + i BY <1>4, <1>5, <3>1
    <3> QED BY <3>1, <3>2, <3>3, <1>4
  <2> QED BY <1>5, <1>6, <2>1, <2>2
<1>8. To(f) = Taken + Len(Gathered) BY <1>4, <1>5, <1>6 DEF To, From
<1>9. Len(Gathered) \in Nat /\ Len(Gathered) > Len(out) BY <1>5, <1>6
<1> QED BY <1>3, <1>4, <1>6, <1>7, <1>8, <1>9 DEF f

\* Taking the first frame in leaves the others in their places.
LEMMA OthersFollow ==
  ASSUME WholeInv, ~client.odd, Readable, toAgent' = Tail(toAgent),
         UNCHANGED <<asking, asked>>, Collected' = Past(Head(toAgent))
  PROVE  PiecesInv'
<1>1. toAgent \in Seq(Seq(Bytes)) /\ toAgent # <<>> /\ Len(toAgent) \in Nat \ {0}
  BY LenProperties, EmptySeq DEF WholeInv, FramingInv, FramesTyped, Readable
<1>2. /\ Len(toAgent') = Len(toAgent) - 1
      /\ \A i \in 1..Len(toAgent') : toAgent'[i] = toAgent[i + 1]
      /\ Head(toAgent) = toAgent[1]
  BY <1>1, HeadTailProperties
<1>3. \A i \in 0..Len(toAgent') : Reached(i)' = Reached(i + 1)
  <2> SUFFICES ASSUME NEW i \in 0..Len(toAgent') PROVE Reached(i)' = Reached(i + 1)
    OBVIOUS
  <2>1. CASE i = 0 BY <1>2, <2>1 DEF Reached
  <2>2. CASE i # 0
    <3>1. i \in 1..Len(toAgent') /\ i + 1 # 0 BY <1>1, <1>2, <2>2
    <3>2. toAgent'[i] = toAgent[i + 1] BY <1>2, <3>1
    <3> QED BY <2>2, <3>1, <3>2 DEF Reached, Past, To, Of, Full
  <2> QED BY <2>1, <2>2
<1>4. ASSUME NEW i \in 1..Len(toAgent')
      PROVE  Piece(toAgent[i])' /\ <<Of(toAgent[i]), From(toAgent[i])>>' = Reached(i - 1)'
  <2>1. i + 1 \in 1..Len(toAgent) /\ (i + 1) - 1 = i /\ i - 1 \in 0..Len(toAgent')
          /\ (i - 1) + 1 = i
    BY <1>1, <1>2
  <2>2. Piece(toAgent[i + 1]) /\ <<Of(toAgent[i + 1]), From(toAgent[i + 1])>> = Reached(i)
    BY <2>1 DEF WholeInv, PiecesInv
  <2>3. Reached(i - 1)' = Reached(i) BY <1>3, <2>1
  <2>4. toAgent'[i] = toAgent[i + 1] BY <1>2
  <2> QED BY <2>2, <2>3, <2>4 DEF Piece, Of, From, To, Full
<1>5. Sending' = Reached(Len(toAgent))'
  <2>1. Sending' = Sending BY DEF Sending, Of, From
  <2>2. Len(toAgent') \in 0..Len(toAgent') /\ Len(toAgent') + 1 = Len(toAgent) BY <1>1, <1>2
  <2>3. Reached(Len(toAgent))' = Reached(Len(toAgent))
    <3>1. PICK k : k = Len(toAgent') OBVIOUS
    <3>2. Reached(k)' = Reached(k + 1) BY <1>3, <2>2, <3>1
    <3> QED BY <2>2, <3>1, <3>2 DEF Reached
  <2> QED BY <2>1, <2>3 DEF WholeInv, PiecesInv
<1> QED BY <1>4, <1>5 DEF WholeInv, PiecesInv, Piece, Of, From, To, Full

\* What the header says, once it is there, is the length of the request it belongs to;
\* what is there of the request is its beginning.
LEMMA ContentFacts ==
  ASSUME WholeInv, ~client.odd, Readable, Headed
  PROVE  /\ Announced = asked[Len(heard) + 1].len
         /\ Len(Content) + Header = To(Head(toAgent)) /\ Len(Content) <= Announced
         /\ \A i \in 1..Len(Content) : Content[i] = Byte(asked[Len(heard) + 1], Header + i)
<1> DEFINE f == Head(toAgent)
           m == Len(heard) + 1
<1> HIDE DEF f, m
<1>1. /\ Piece(f) /\ Of(f) = m /\ To(f) = Taken + Len(Gathered)
      /\ Gathered \in Seq(Bytes) /\ Len(Gathered) \in Nat \ {0}
      /\ \A i \in 1..Len(Gathered) : Gathered[i] = Byte(asked[m], Taken + i)
  <2>1. Len(out) \in Nat BY LenProperties DEF WholeInv, FramingInv, BufferInv
  <2> QED BY <2>1, FirstFrame DEF f, m
<1>2. To(f) <= Header + asked[m].len BY <1>1 DEF Piece, Full
<1>3. CASE total # Unknown
  <2>1. Taken = Header /\ Content = Gathered /\ Announced = total
    BY <1>3 DEF Taken, Content, Announced
  <2>2. total = asked[m].len BY <1>3 DEF WholeInv, CollectedInv, m
  <2>3. total \in Nat BY DEF WholeInv, FramingInv, BufferInv
  <2> QED BY <1>1, <1>2, <2>1, <2>2, <2>3, FramingOK DEF f, m
<1>4. CASE total = Unknown
  <2>1. /\ Taken = 0 /\ Announced = Gathered[1].says
        /\ Content = SubSeq(Gathered, Header + 1, Len(Gathered))
    BY <1>4 DEF Taken, Content, Announced
  <2>2. Gathered[1] = Byte(asked[m], 1) BY <1>1, <2>1
  <2>3. Announced = asked[m].len BY <2>1, <2>2 DEF Byte
  <2>4. Announced \in Nat BY GatheredFacts DEF WholeInv
  <2>5. Len(Gathered) >= Header BY <1>4 DEF Headed
  <2>6. Len(Content) = Len(Gathered) - Header BY <1>4, GatheredFacts DEF WholeInv
  <2>7. ASSUME NEW i \in 1..Len(Content) PROVE Content[i] = Byte(asked[m], Header + i)
    <3>1. \A j \in (Header + 1)..Len(Gathered) : Gathered[j] \in Bytes
      BY <1>1, ElementOfSeq, FramingOK
    <3>2. Content[i] = Gathered[Header + 1 + i - 1]
      BY <1>1, <2>1, <2>5, <2>6, <3>1, SubSeqProperties, FramingOK
    <3>3. Header + 1 + i - 1 = Header + i /\ Header + i \in 1..Len(Gathered)
      BY <1>1, <2>5, <2>6, FramingOK
    <3>4. Gathered[Header + i] = Byte(asked[m], Taken + (Header + i)) BY <1>1, <3>3
    <3>5. Taken + (Header + i) = Header + i BY <2>1, FramingOK
    <3> QED BY <3>2, <3>3, <3>4, <3>5
  <2> QED BY <1>1, <1>2, <2>1, <2>3, <2>4, <2>5, <2>6, <2>7, FramingOK DEF f, m
<1> QED BY <1>3, <1>4

\* A message that is whole is the next request of the client, and nothing is left over.
LEMMA TakeStep ==
  ASSUME WholeInv, ~client.odd, NEW len \in Lengths, Take(len)
  PROVE  heard' \in Seq(Seq(Bytes)) /\ PiecesInv' /\ CollectedInv' /\ MessagesWhole'
<1> DEFINE f == Head(toAgent)
           m == Len(heard) + 1
           body == SubSeq(Content, 1, Announced)
<1> HIDE DEF f, m
<1>1. /\ Readable /\ Headed /\ Len(Content) >= Announced
      /\ heard' = Append(heard, body) /\ out' = <<>> /\ total' = Unknown
      /\ toAgent' = Tail(toAgent) /\ UNCHANGED <<client, asking, asked, odd>>
  BY DEF Take, asks
<1>2. Piece(f) /\ Of(f) = m BY <1>1, FirstFrame DEF f, m
<1>3. /\ Announced = asked[m].len /\ Len(Content) + Header = To(f) /\ Len(Content) <= Announced
      /\ \A i \in 1..Len(Content) : Content[i] = Byte(asked[m], Header + i)
  BY <1>1, ContentFacts DEF f, m
<1>4. Announced \in Nat /\ Content \in Seq(Bytes) /\ Len(Content) \in Nat
  <2>1. Content \in Seq(Bytes) /\ Announced \in Nat BY <1>1, GatheredFacts DEF WholeInv
  <2> QED BY <2>1, LenProperties
<1>5. Len(Content) = Announced BY <1>1, <1>3, <1>4
<1>6. To(f) = Full(m) BY <1>3, <1>4, <1>5, FramingOK DEF Full
<1>7. m \in 1..Len(asked) BY <1>2 DEF Piece
<1>8. /\ body \in Seq(Bytes) /\ Len(body) = Announced
      /\ \A i \in 1..Announced : body[i] = Content[i]
  <2>1. \A i \in 1..Announced : Content[i] \in Bytes BY <1>4, <1>5, ElementOfSeq
  <2>2. IF 1 <= Announced THEN Len(body) = Announced - 1 + 1 ELSE Len(body) = 0
    BY <1>4, <2>1, SubSeqProperties
  <2>3. \A i \in 1..(Announced - 1 + 1) : body[i] = Content[1 + i - 1]
    BY <1>4, <2>1, SubSeqProperties
  <2>4. body \in Seq(Bytes) BY <1>4, <2>1, SubSeqProperties
  <2> QED BY <1>4, <2>2, <2>3, <2>4
<1>9. body = Body(asked[m])
  <2>1. Body(asked[m]) = [i \in 1..Announced |-> Byte(asked[m], Header + i)] BY <1>3 DEF Body
  <2>2. body = [i \in 1..Announced |-> body[i]] BY <1>8, LenProperties
  <2>3. \A i \in 1..Announced : body[i] = Byte(asked[m], Header + i) BY <1>3, <1>5, <1>8
  <2> HIDE DEF body
  <2> QED BY <2>1, <2>2, <2>3
<1> HIDE DEF body
<1>10. /\ heard' \in Seq(Seq(Bytes)) /\ Len(heard) \in Nat /\ Len(heard') = m /\ heard'[m] = body
       /\ \A n \in 1..Len(heard) : heard'[n] = heard[n]
  <2>1. heard \in Seq(Seq(Bytes)) BY DEF WholeInv
  <2> QED BY <1>1, <1>8, <2>1, AppendProperties, LenProperties DEF m
<1>11. MessagesWhole'
  <2>1. m <= Len(asked) BY <1>7, <1>10 DEF m
  <2>2. ASSUME NEW n \in 1..m PROVE heard'[n] = Body(asked[n])
    <3>1. CASE n = m BY <1>9, <1>10, <3>1
    <3>2. CASE n # m
      <4>1. n \in 1..Len(heard) BY <1>10, <3>2 DEF m
      <4> QED BY <1>10, <4>1 DEF WholeInv, MessagesWhole
    <3> QED BY <3>1, <3>2
  <2>3. \A n \in 1..Len(heard') : heard'[n] = Body(asked'[n]) BY <1>1, <1>10, <2>2
  <2> QED BY <1>1, <1>10, <2>1, <2>3 DEF MessagesWhole, Body, Byte
<1>12. Len(<<>>) = 0 OBVIOUS
<1>13. Collected' = Past(f)
  <2>1. Past(f) = <<m + 1, 1>> BY <1>2, <1>6 DEF Past
  <2>2. Taken' = 0 BY <1>1 DEF Taken, Unknown
  <2> QED BY <1>1, <1>10, <1>12, <2>1, <2>2 DEF Collected
<1>14. CollectedInv'
  <2>1. Len(heard') \in Nat /\ DOMAIN heard' = 1..Len(heard') BY <1>10, LenProperties
  <2> QED BY <1>1, <1>12, <2>1 DEF CollectedInv, Unknown
<1> QED BY <1>1, <1>10, <1>11, <1>13, <1>14, OthersFollow DEF f

\* Until the message is whole its beginning is collected.
LEMMA GatherStep ==
  ASSUME WholeInv, ~client.odd, GatherHeader \/ Gather
  PROVE  heard' \in Seq(Seq(Bytes)) /\ PiecesInv' /\ CollectedInv' /\ MessagesWhole'
<1> DEFINE f == Head(toAgent)
           m == Len(heard) + 1
<1> HIDE DEF f, m
<1>1. /\ Readable /\ toAgent' = Tail(toAgent) /\ UNCHANGED <<client, asking, asked, odd, heard>>
  BY DEF GatherHeader, Gather, asks
<1>2. Piece(f) /\ Of(f) = m /\ To(f) = Taken + Len(Gathered) /\ Len(Gathered) \in Nat
      /\ \A i \in 1..Len(Gathered) : Gathered[i] = Byte(asked[m], Taken + i)
  BY <1>1, FirstFrame DEF f, m
<1>3. heard' \in Seq(Seq(Bytes)) /\ MessagesWhole'
  BY <1>1 DEF WholeInv, MessagesWhole, Body, Byte
<1>4. m \in 1..Len(asked) /\ asked[m].len \in Nat
  <2>1. m \in 1..Len(asked) BY <1>2 DEF Piece
  <2>2. asked \in Seq(Message) BY DEF WholeInv, FramingInv, FramesTyped
  <2>3. asked[m] \in Message BY <2>1, <2>2, ElementOfSeq
  <2> QED BY <2>1, <2>3, FramingOK DEF Message
<1>5. CASE GatherHeader
  <2>1. ~Headed /\ out' = Gathered /\ total' = total BY <1>5 DEF GatherHeader
  <2>2. total = Unknown /\ Len(Gathered) < Header BY <1>2, <2>1, FramingOK DEF Headed
  <2>3. Taken' = 0 /\ Taken = 0 BY <2>1, <2>2 DEF Taken, Unknown
  <2>4. To(f) # Full(m) BY <1>2, <1>4, <2>2, <2>3, FramingOK DEF Full
  <2>5. Collected' = Past(f) BY <1>1, <1>2, <2>1, <2>3, <2>4 DEF Collected, Past, m
  <2>6. CollectedInv' BY <1>1, <1>2, <2>1, <2>2, <2>3 DEF CollectedInv, WholeInv, Unknown, Byte, m
  <2> QED BY <1>1, <1>3, <2>5, <2>6, OthersFollow DEF f
<1>6. CASE Gather
  <2>1. /\ Headed /\ Fits /\ Len(Content) < Announced /\ out' = Content /\ total' = Announced
    BY <1>6 DEF Gather
  <2>2. /\ Announced = asked[m].len /\ Len(Content) + Header = To(f)
        /\ \A i \in 1..Len(Content) : Content[i] = Byte(asked[m], Header + i)
    BY <1>1, <2>1, ContentFacts DEF f, m
  <2>3. Content \in Seq(Bytes) /\ Len(Content) \in Nat
    <3>1. Content \in Seq(Bytes) BY <1>1, <2>1, GatheredFacts DEF WholeInv
    <3> QED BY <3>1, LenProperties
  <2>4. total' # Unknown BY <1>4, <2>1, <2>2, FramingOK DEF Fits, Unknown
  <2>5. Taken' = Header BY <2>4 DEF Taken, Unknown
  <2>6. To(f) # Full(m) BY <1>4, <2>1, <2>2, <2>3, FramingOK DEF Full
  <2>7. Collected' = Past(f)
    <3>1. Past(f) = <<m, To(f) + 1>> BY <1>2, <2>6 DEF Past
    <3>2. Collected' = <<m, Header + Len(Content) + 1>> BY <1>1, <2>1, <2>5 DEF Collected, m
    <3> QED BY <2>2, <2>3, <3>1, <3>2, FramingOK
  <2>8. CollectedInv'
    <3>1. \A i \in 1..Len(out') : out'[i] = Byte(asked'[Len(heard') + 1], Taken' + i)
      BY <1>1, <2>1, <2>2, <2>5 DEF m
    <3>2. total' = asked'[Len(heard') + 1].len BY <1>1, <2>1, <2>2 DEF m
    <3>3. Len(heard') \in Nat /\ DOMAIN heard' = 1..Len(heard') BY <1>1 DEF WholeInv, CollectedInv
    <3> QED BY <3>1, <3>2, <3>3 DEF CollectedInv, Byte, Taken, Unknown
  <2> QED BY <1>1, <1>3, <2>7, <2>8, OthersFollow DEF f
<1> QED BY <1>5, <1>6

\* A request is begun behind the frames of the one before it.
LEMMA StartStep ==
  ASSUME WholeInv, ~client.odd, NEW len \in Lengths, AskStart(len)
  PROVE  (\A n \in 1..Len(asked') : asked'[n].id = n) /\ PiecesInv' /\ CollectedInv'
    /\ MessagesWhole'
<1> DEFINE k == Len(asked) + 1
           m == [id |-> k, len |-> len]
<1>1. /\ asking = <<>> /\ asking' = Encoded(m) /\ asked' = Append(asked, m)
      /\ UNCHANGED <<client, toAgent, out, total, spun, heard>>
  BY DEF AskStart, wires, received
<1>2. len \in Nat /\ asked \in Seq(Message) /\ Len(asked) \in Nat /\ m \in Message
  <2>1. asked \in Seq(Message) BY DEF WholeInv, FramingInv, FramesTyped
  <2> QED BY <2>1, FramingOK, LenProperties DEF Message
<1>3. /\ Len(asked') = k /\ asked'[k] = m /\ \A n \in 1..Len(asked) : asked'[n] = asked[n]
  BY <1>1, <1>2, AppendProperties
<1> HIDE DEF m
<1>4. m.id = k /\ m.len = len BY DEF m
<1>5. \A n \in 1..Len(asked') : asked'[n].id = n
  <2> SUFFICES ASSUME NEW n \in 1..Len(asked') PROVE asked'[n].id = n
    OBVIOUS
  <2>1. n = k \/ n \in 1..Len(asked) BY <1>2, <1>3
  <2> QED BY <1>3, <1>4, <2>1 DEF WholeInv
<1>6. ASSUME NEW f, Piece(f)
      PROVE  Piece(f)' /\ Past(f)' = Past(f)
  <2>1. Of(f) \in 1..Len(asked) /\ Of(f) \in 1..Len(asked') BY <1>2, <1>3, <1>6 DEF Piece
  <2>2. asked'[Of(f)] = asked[Of(f)] BY <1>3, <2>1
  <2> QED BY <1>6, <2>1, <2>2 DEF Piece, Past, Of, From, To, Full
<1>7. Collected' = Collected BY <1>1 DEF Collected, Taken, Unknown
<1>8. Len(toAgent) \in Nat BY LenProperties DEF WholeInv, FramingInv, FramesTyped
<1>9. \A i \in 0..Len(toAgent) : Reached(i)' = Reached(i)
  <2> SUFFICES ASSUME NEW i \in 0..Len(toAgent) PROVE Reached(i)' = Reached(i)
    OBVIOUS
  <2>1. CASE i = 0 BY <1>7, <2>1 DEF Reached
  <2>2. CASE i # 0
    <3>1. Piece(toAgent[i]) BY <1>8, <2>2 DEF WholeInv, PiecesInv
    <3>2. PICK f : f = toAgent[i] OBVIOUS
    <3>3. Past(f)' = Past(f) BY <1>6, <3>1, <3>2
    <3> QED BY <1>1, <2>2, <3>2, <3>3 DEF Reached, Past, Of, From, To, Full
  <2> QED BY <2>1, <2>2
<1>10. Header + len \in Nat \ {0} /\ Len(asking') = Header + len
       /\ \A i \in 1..(Header + len) : asking'[i] = Byte(m, i)
  <2>1. Header + len \in Nat \ {0} BY <1>2, FramingOK
  <2>2. asking' = [i \in 1..(Header + len) |-> Byte(m, i)] BY <1>1, <1>4 DEF Encoded
  <2>3. \A i \in 1..(Header + len) : Byte(m, i) \in Bytes
    BY <1>2, <1>4, <2>1 DEF Byte, Bytes
  <2>4. asking' \in Seq(Bytes) BY <2>1, <2>2, <2>3, SeqDef
  <2>5. Len(asking') = Header + len BY <2>1, <2>2, <2>4, LenProperties
  <2> QED BY <2>1, <2>2, <2>5
<1>11. asking' \in Seq(Bytes)
  <2>1. FramingInv' BY ClientStep DEF WholeInv, Ask
  <2> QED BY <2>1 DEF FramingInv, FramesTyped
<1>12. asking'[1] = Byte(m, 1) BY <1>10
<1>13. Of(asking)' = k /\ From(asking)' = 1 BY <1>4, <1>12 DEF Of, From, Byte
<1>14. To(asking)' = Full(Len(asked))'
  <2>1. To(asking)' = Header + len BY <1>10, <1>13 DEF To, From
  <2>2. Full(Len(asked))' = Header + len BY <1>3, <1>4 DEF Full
  <2> QED BY <2>1, <2>2
<1>15. Piece(asking)'
  <2>1. \A i \in 1..Len(asking') : asking'[i] = Byte(asked'[k], 1 + i - 1)
    <3> SUFFICES ASSUME NEW i \in 1..Len(asking') PROVE asking'[i] = Byte(asked'[k], 1 + i - 1)
      OBVIOUS
    <3>1. 1 + i - 1 = i BY <1>10
    <3> QED BY <1>3, <1>10, <3>1
  <2>2. k \in 1..Len(asked') BY <1>2, <1>3
  <2>3. To(asking)' <= Full(Of(asking))'
    <3>1. Full(Of(asking))' = Full(Len(asked))' BY <1>3, <1>13 DEF Full
    <3>2. Full(Len(asked))' = Header + len BY <1>3, <1>4 DEF Full
    <3> QED BY <1>10, <1>14, <3>1, <3>2
  <2> QED BY <1>10, <1>11, <1>13, <2>1, <2>2, <2>3 DEF Piece
<1>16. PiecesInv'
  <2>1. ASSUME NEW i \in 1..Len(toAgent)
        PROVE  Piece(toAgent[i])' /\ <<Of(toAgent[i]), From(toAgent[i])>>' = Reached(i - 1)'
    <3>1. PICK f : f = toAgent[i] OBVIOUS
    <3>2. Piece(f) /\ <<Of(f), From(f)>> = Reached(i - 1) BY <3>1 DEF WholeInv, PiecesInv
    <3>3. i - 1 \in 0..Len(toAgent) BY <1>8
    <3>4. Piece(f)' BY <1>6, <3>2
    <3>5. Reached(i - 1)' = Reached(i - 1) BY <1>9, <3>3
    <3>6. toAgent'[i] = f BY <1>1, <3>1
    <3> QED BY <3>2, <3>4, <3>5, <3>6 DEF Piece, Of, From, To, Full
  <2>2. Sending' = <<k, 1>>
    <3>1. asking' # <<>> BY <1>10, <1>11, EmptySeq
    <3> QED BY <1>13, <3>1 DEF Sending, Of, From
  <2>3. Reached(Len(toAgent))' = <<k, 1>>
    <3>1. PICK j : j = Len(toAgent) OBVIOUS
    <3>2. Reached(j)' = Reached(j) BY <1>8, <1>9, <3>1
    <3>3. Reached(j) = Sending /\ Sending = <<k, 1>> BY <1>1, <3>1 DEF WholeInv, PiecesInv, Sending
    <3>4. Reached(Len(toAgent))' = Reached(j)' BY <1>1, <3>1 DEF Reached
    <3> QED BY <3>2, <3>3, <3>4
  <2>4. Of(asking)' = Len(asked') BY <1>3, <1>13
  <2> QED BY <1>1, <1>14, <1>15, <2>1, <2>2, <2>3, <2>4 DEF PiecesInv, Of, From, To, Full, Piece
<1>17. \/ Len(heard) + 1 \in 1..Len(asked)
       \/ Len(out) = 0 /\ total = Unknown
  <2>1. CASE toAgent = <<>>
    <3>1. Len(toAgent) = 0 BY <2>1, EmptySeq
    <3>2. Sending = Collected /\ Sending = <<k, 1>>
      BY <1>1, <3>1 DEF WholeInv, PiecesInv, Sending, Reached
    <3>3. Taken + Len(out) + 1 = 1 BY <3>2 DEF Collected
    <3>4. Taken \in Nat /\ Len(out) \in Nat /\ (total # Unknown => Taken # 0)
      BY FramingOK, LenProperties DEF Taken, WholeInv, FramingInv, BufferInv
    <3> QED BY <3>3, <3>4
  <2>2. CASE toAgent # <<>>
    <3>1. toAgent \in Seq(Seq(Bytes)) BY DEF WholeInv, FramingInv, FramesTyped
    <3>2. 1 \in 1..Len(toAgent) BY <1>8, <2>2, <3>1, EmptySeq
    <3>3. Reached(1 - 1) = Collected BY DEF Reached
    <3>4. Of(toAgent[1]) = Len(heard) + 1 /\ Piece(toAgent[1])
      BY <3>2, <3>3 DEF WholeInv, PiecesInv, Collected
    <3> QED BY <3>4 DEF Piece
  <2> QED BY <2>1, <2>2
<1>18. CollectedInv'
  <2>1. CASE Len(out) = 0 /\ total = Unknown
    BY <1>1, <2>1 DEF WholeInv, CollectedInv, Unknown
  <2>2. CASE Len(heard) + 1 \in 1..Len(asked)
    <3>1. asked'[Len(heard) + 1] = asked[Len(heard) + 1] BY <1>3, <2>2
    <3> QED BY <1>1, <3>1 DEF WholeInv, CollectedInv, Taken, Unknown
  <2> QED BY <1>17, <2>1, <2>2
<1>19. MessagesWhole'
  <2>1. Len(heard) \in Nat /\ Len(heard) <= Len(asked) BY DEF WholeInv, CollectedInv, MessagesWhole
  <2>2. ASSUME NEW n \in 1..Len(heard) PROVE heard'[n] = Body(asked'[n])
    <3>1. n \in 1..Len(asked) BY <1>2, <2>1
    <3>2. heard[n] = Body(asked[n]) BY DEF WholeInv, MessagesWhole
    <3> QED BY <1>1, <1>3, <3>1, <3>2
  <2>3. Len(heard') <= Len(asked') BY <1>1, <1>2, <1>3, <2>1
  <2>4. \A n \in 1..Len(heard') : heard'[n] = Body(asked'[n]) BY <1>1, <2>2
  <2> QED BY <1>1, <2>3, <2>4 DEF MessagesWhole, Body, Byte
<1> QED BY <1>5, <1>16, <1>18, <1>19

\* A frame of a request is behind the frames before it, and the client goes on after it.
LEMMA FrameStep ==
  ASSUME WholeInv, ~client.odd, AskFrame
  PROVE  PiecesInv' /\ CollectedInv' /\ MessagesWhole'
<1> DEFINE cut == Least(MaxFrame, Len(asking))
           f == Chunk(asking)
           rest == AfterChunk(asking)
           m == Len(asked)
<1>1. /\ asking # <<>> /\ toAgent' = Append(toAgent, f) /\ asking' = rest
      /\ UNCHANGED <<client, out, total, spun, heard, asked>>
  BY DEF AskFrame, received
<1>2. /\ Piece(asking) /\ Of(asking) = m /\ To(asking) = Full(m)
      /\ <<Of(asking), From(asking)>> = Reached(Len(toAgent))
  BY <1>1 DEF WholeInv, PiecesInv, Sending
<1>3. /\ asking \in Seq(Bytes) /\ Len(asking) \in Nat \ {0} /\ From(asking) \in Nat \ {0}
      /\ m \in Nat \ {0}
  <2>1. asking \in Seq(Bytes) /\ Len(asking) \in Nat \ {0} /\ From(asking) >= 1
          /\ Of(asking) \in 1..m
    BY <1>2 DEF Piece
  <2>2. asking[1] \in Bytes BY <2>1, ElementOfSeq
  <2>3. m \in Nat BY LenProperties DEF WholeInv, FramingInv, FramesTyped
  <2> QED BY <2>1, <2>2, <2>3 DEF From, Bytes
<1>4. cut \in 1..Len(asking) BY <1>3, FramingOK DEF Least
<1>5. /\ f \in Seq(Bytes) /\ Len(f) = cut /\ \A i \in 1..cut : f[i] = asking[i]
  <2>1. \A i \in 1..cut : asking[i] \in Bytes BY <1>3, <1>4, ElementOfSeq
  <2>2. f = SubSeq(asking, 1, cut) BY DEF Chunk
  <2> HIDE DEF cut
  <2>3. Len(f) = cut - 1 + 1 BY <1>3, <1>4, <2>1, <2>2, SubSeqProperties
  <2>4. \A i \in 1..(cut - 1 + 1) : f[i] = asking[1 + i - 1]
    BY <1>3, <1>4, <2>1, <2>2, SubSeqProperties
  <2>5. f \in Seq(Bytes) BY <1>3, ChunkFacts
  <2> QED BY <1>3, <1>4, <2>3, <2>4, <2>5
<1>6. /\ rest \in Seq(Bytes) /\ Len(rest) = Len(asking) - cut
      /\ \A i \in 1..Len(rest) : rest[i] = asking[cut + i]
  <2>1. \A i \in (cut + 1)..Len(asking) : asking[i] \in Bytes BY <1>3, <1>4, ElementOfSeq
  <2>2. rest = SubSeq(asking, cut + 1, Len(asking)) BY DEF AfterChunk
  <2> HIDE DEF cut
  <2>3. cut + 1 \in Int /\ Len(asking) \in Int BY <1>3, <1>4
  <2>4. Len(rest) = IF cut + 1 <= Len(asking) THEN Len(asking) - (cut + 1) + 1 ELSE 0
    BY <2>1, <2>2, <2>3, SubSeqProperties
  <2>5. \A i \in 1..(Len(asking) - (cut + 1) + 1) : rest[i] = asking[(cut + 1) + i - 1]
    BY <2>1, <2>2, <2>3, SubSeqProperties
  <2>6. rest \in Seq(Bytes) BY <1>3, ChunkFacts
  <2>7. Len(rest) = Len(asking) - cut BY <1>3, <1>4, <2>4
  <2>8. ASSUME NEW i \in 1..Len(rest) PROVE rest[i] = asking[cut + i]
    <3>1. i \in 1..(Len(asking) - (cut + 1) + 1) /\ (cut + 1) + i - 1 = cut + i BY <1>3, <1>4, <2>7
    <3>2. rest[i] = asking[(cut + 1) + i - 1] BY <2>5, <3>1
    <3> QED BY <3>1, <3>2
  <2> QED BY <2>6, <2>7, <2>8
<1> HIDE DEF cut, f, rest, m
<1>7. \A i \in 1..Len(asking) : asking[i] = Byte(asked[m], From(asking) + i - 1)
  BY <1>2 DEF Piece
<1>8. asked[m].id = m /\ From(asking) + Len(asking) - 1 = Full(m)
  <2>1. m \in 1..Len(asked) BY <1>3 DEF m
  <2>2. asked[m].id = m BY <2>1 DEF WholeInv
  <2> QED BY <1>2, <2>2 DEF To, From
<1>9. /\ Piece(f) /\ Of(f) = m /\ From(f) = From(asking) /\ To(f) = From(asking) + cut - 1
  <2>1. f[1] = asking[1] BY <1>4, <1>5, <1>3
  <2>2. Of(f) = m /\ From(f) = From(asking) BY <1>2, <2>1 DEF Of, From
  <2>3. To(f) = From(asking) + cut - 1 BY <1>5, <2>2 DEF To, From
  <2>4. ASSUME NEW i \in 1..Len(f) PROVE f[i] = Byte(asked[m], From(asking) + i - 1)
    <3>1. i \in 1..cut /\ i \in 1..Len(asking) BY <1>3, <1>4, <1>5
    <3> QED BY <1>5, <1>7, <3>1
  <2>5. To(f) <= Full(m) BY <1>3, <1>4, <1>8, <2>3
  <2>6. m \in 1..Len(asked) BY <1>3 DEF m
  <2>7. Len(f) \in Nat \ {0} BY <1>3, <1>4, <1>5
  <2> QED BY <1>3, <1>5, <2>2, <2>3, <2>4, <2>5, <2>6, <2>7 DEF Piece
<1>10. rest # <<>> =>
         /\ Piece(rest) /\ Of(rest) = m /\ From(rest) = From(asking) + cut
         /\ To(rest) = Full(m) /\ Past(f) = <<m, From(rest)>>
  <2> SUFFICES ASSUME rest # <<>>
               PROVE  /\ Piece(rest) /\ Of(rest) = m /\ From(rest) = From(asking) + cut
                      /\ To(rest) = Full(m) /\ Past(f) = <<m, From(rest)>>
    OBVIOUS
  <2>1. Len(rest) \in Nat \ {0} BY <1>6, EmptySeq, LenProperties
  <2>2. ASSUME NEW i \in 1..Len(rest) PROVE rest[i] = Byte(asked[m], From(asking) + cut + i - 1)
    <3>1. cut + i \in 1..Len(asking) BY <1>3, <1>4, <1>6, <2>1
    <3>2. rest[i] = asking[cut + i] BY <1>6
    <3>3. asking[cut + i] = Byte(asked[m], From(asking) + (cut + i) - 1) BY <1>7, <3>1
    <3>4. From(asking) + (cut + i) - 1 = From(asking) + cut + i - 1 BY <1>3, <1>4, <3>1
    <3> QED BY <3>2, <3>3, <3>4
  <2>3. rest[1] = Byte(asked[m], From(asking) + cut)
    <3>1. 1 \in 1..Len(rest) /\ From(asking) + cut + 1 - 1 = From(asking) + cut BY <1>3, <1>4, <2>1
    <3> QED BY <2>2, <3>1
  <2>4. Of(rest) = m /\ From(rest) = From(asking) + cut BY <1>8, <2>3 DEF Of, From, Byte
  <2>5. To(rest) = Full(m)
    <3>1. To(rest) = From(asking) + cut + Len(rest) - 1 BY <2>4 DEF To, From
    <3>2. Len(rest) = Len(asking) - cut BY <1>6
    <3> QED BY <3>1, <3>2, <1>3, <1>4, <1>8
  <2>6. To(f) # Full(m) /\ To(f) + 1 = From(asking) + cut BY <1>3, <1>4, <1>6, <1>8, <1>9, <2>1
  <2>7. Past(f) = <<m, From(rest)>> BY <1>9, <2>4, <2>6 DEF Past
  <2>8. m \in 1..Len(asked) BY <1>3 DEF m
  <2>9. From(rest) >= 1 BY <1>3, <1>4, <2>4
  <2>10. Full(m) <= Full(m) BY <1>3, <1>8
  <2> QED BY <1>6, <2>1, <2>2, <2>4, <2>5, <2>7, <2>8, <2>9, <2>10 DEF Piece
<1>11. rest = <<>> => Past(f) = <<m + 1, 1>>
  <2> SUFFICES ASSUME rest = <<>> PROVE Past(f) = <<m + 1, 1>>
    OBVIOUS
  <2>1. Len(rest) = 0 BY EmptySeq
  <2>2. To(f) = Full(m) BY <1>3, <1>4, <1>6, <1>8, <1>9, <2>1
  <2> QED BY <1>9, <2>2 DEF Past
<1>12. Sending' = Past(f)
  <2>1. CASE rest = <<>> BY <1>1, <1>11, <2>1 DEF Sending, m
  <2>2. CASE rest # <<>> BY <1>1, <1>10, <2>2 DEF Sending, Of, From
  <2> QED BY <2>1, <2>2
<1>13. toAgent \in Seq(Seq(Bytes)) /\ Len(toAgent) \in Nat
  BY LenProperties DEF WholeInv, FramingInv, FramesTyped
<1>14. /\ Len(toAgent') = Len(toAgent) + 1 /\ toAgent'[Len(toAgent) + 1] = f
       /\ \A i \in 1..Len(toAgent) : toAgent'[i] = toAgent[i]
  BY <1>1, <1>5, <1>13, AppendProperties
<1>15. \A i \in 0..Len(toAgent) : Reached(i)' = Reached(i)
  <2> SUFFICES ASSUME NEW i \in 0..Len(toAgent) PROVE Reached(i)' = Reached(i)
    OBVIOUS
  <2>1. CASE i = 0 BY <1>1, <2>1 DEF Reached, Collected, Taken, Unknown
  <2>2. CASE i # 0
    <3>1. i \in 1..Len(toAgent) BY <1>13, <2>2
    <3>2. toAgent'[i] = toAgent[i] BY <1>14, <3>1
    <3> QED BY <1>1, <2>2, <3>2 DEF Reached, Past, Of, From, To, Full
  <2> QED BY <2>1, <2>2
<1>16. PiecesInv'
  <2>1. ASSUME NEW i \in 1..Len(toAgent')
        PROVE  Piece(toAgent[i])' /\ <<Of(toAgent[i]), From(toAgent[i])>>' = Reached(i - 1)'
    <3>1. i - 1 \in 0..Len(toAgent) /\ (i \in 1..Len(toAgent) \/ i = Len(toAgent) + 1)
      BY <1>13, <1>14
    <3>2. Reached(i - 1)' = Reached(i - 1) BY <1>15, <3>1
    <3>3. PICK g : g = toAgent'[i] OBVIOUS
    <3>4. Piece(g) /\ <<Of(g), From(g)>> = Reached(i - 1)
      <4>1. CASE i \in 1..Len(toAgent) BY <1>14, <3>3, <4>1 DEF WholeInv, PiecesInv
      <4>2. CASE i = Len(toAgent) + 1
        <5>1. g = f /\ i - 1 = Len(toAgent) BY <1>13, <1>14, <3>3, <4>2
        <5> QED BY <1>2, <1>9, <5>1
      <4> QED BY <3>1, <4>1, <4>2
    <3> QED BY <1>1, <3>2, <3>3, <3>4 DEF Piece, Of, From, To, Full
  <2>2. Reached(Len(toAgent))' = Past(f)
    BY <1>1, <1>13, <1>14 DEF Reached, Past, Of, From, To, Full
  <2>3. asking' # <<>>
          => (Piece(asking) /\ Of(asking) = Len(asked) /\ To(asking) = Full(Len(asked)))'
    BY <1>1, <1>10 DEF Piece, Of, From, To, Full, m
  <2> QED BY <1>12, <2>1, <2>2, <2>3 DEF PiecesInv
<1>17. CollectedInv' BY <1>1 DEF WholeInv, CollectedInv, Taken, Unknown, Byte
<1>18. MessagesWhole' BY <1>1 DEF WholeInv, MessagesWhole, Body, Byte
<1> QED BY <1>16, <1>17, <1>18

\* The steps that touch neither requests nor what the agent has of them.
LEMMA WholeRests ==
  ASSUME WholeInv, FramingInv',
         UNCHANGED <<client, toAgent, asking, asked, out, total, heard>>
  PROVE  WholeInv'
<1>1. UNCHANGED PiecesInv
  <2>1. \A i : Reached(i)' = Reached(i)
    BY DEF Reached, Collected, Taken, Past, Of, From, To, Full, Unknown
  <2>2. Sending' = Sending BY DEF Sending, Of, From
  <2> QED BY <2>1, <2>2 DEF PiecesInv, Piece, Of, From, To, Full, Reached, Collected, Taken, Past
<1> QED BY <1>1 DEF WholeInv, CollectedInv, MessagesWhole, Taken, Unknown, Body, Byte

\* Every step keeps requests whole.
LEMMA WholeStep == WholeInv /\ [NoiseNext]_noiseVars => WholeInv'
<1> SUFFICES ASSUME WholeInv, [NoiseNext]_noiseVars PROVE WholeInv'
  OBVIOUS
<1>1. FramingInv' BY RecvStep, ClientStep, OtherStep DEF NoiseNext, WholeInv
<1>2. UNCHANGED client
  BY DEF NoiseNext, noiseVars, Msg1, Msg2, HandshakeTimesOut, Recv, EmptyFrame, GatherHeader,
         TooLong, Gather, Take, IdleTimesOut, SendFrame, Ask, AskFrame, AskStart, ClientReads,
         ConnectionBreaks, OddFrame
<1>3. CASE client.odd BY <1>1, <1>2, <1>3 DEF WholeInv
<1>4. CASE ~client.odd
  <2>1. ASSUME NEW len \in Lengths, Take(len) PROVE WholeInv'
    <3>1. UNCHANGED asked BY <2>1 DEF Take, asks
    <3> QED BY <1>1, <1>4, <2>1, <3>1, TakeStep DEF WholeInv
  <2>2. CASE GatherHeader \/ Gather
    <3>1. UNCHANGED asked BY <2>2 DEF GatherHeader, Gather, asks
    <3> QED BY <1>1, <1>4, <2>2, <3>1, GatherStep DEF WholeInv
  <2>3. ASSUME NEW len \in Lengths, AskStart(len) PROVE WholeInv'
    <3>1. UNCHANGED heard BY <2>3 DEF AskStart, received
    <3> QED BY <1>1, <1>4, <2>3, <3>1, StartStep DEF WholeInv
  <2>4. CASE AskFrame
    <3>1. UNCHANGED <<heard, asked>> BY <2>4 DEF AskFrame, received
    <3> QED BY <1>1, <1>4, <2>4, <3>1, FrameStep DEF WholeInv
  <2>5. ASSUME NEW n \in 0..MaxFrame, NEW says \in Says, OddFrame(n, says) PROVE WholeInv'
    BY <1>4, <2>5 DEF OddFrame
  <2>6. CASE \/ \E yes \in BOOLEAN : Msg1(yes) \/ Msg2(yes)
             \/ HandshakeTimesOut \/ EmptyFrame \/ TooLong \/ IdleTimesOut \/ SendFrame
             \/ ClientReads \/ ConnectionBreaks \/ UNCHANGED noiseVars
    <3>1. UNCHANGED <<client, toAgent, asking, asked, out, total, heard>>
      BY <2>6 DEF Msg1, Msg2, HandshakeTimesOut, EmptyFrame, TooLong, IdleTimesOut, SendFrame,
                  ClientReads, ConnectionBreaks, noiseVars, wires, received, asks
    <3> QED BY <1>1, <3>1, WholeRests
  <2> QED BY <2>1, <2>2, <2>3, <2>4, <2>5, <2>6 DEF NoiseNext, Recv, Ask
<1> QED BY <1>3, <1>4

\* What the agent takes for a client's n-th message is its n-th request, whole, however the
\* requests were cut into frames and pipelined (NoiseConn::send, recv).
THEOREM WholeMessages == NoiseSpec => []MessagesWhole
<1>1. NoiseInit => WholeInv
  <2> SUFFICES ASSUME NoiseInit PROVE WholeInv
    OBVIOUS
  <2>1. \A S : <<>> \in Seq(S) /\ Len(<<>>) = 0 /\ DOMAIN <<>> = 1..0 BY EmptySeq
  <2>2. toAgent = <<>> /\ asking = <<>> /\ out = <<>> /\ total = Unknown /\ spun = 0 /\ asked = <<>>
        /\ heard = <<>>
    BY DEF NoiseInit
  <2>3. FramingInv BY <2>1, <2>2, FramingOK DEF FramingInv, FramesTyped, BufferInv, Unknown
  <2>4. PiecesInv
    BY <2>1, <2>2 DEF PiecesInv, Sending, Reached, Collected, Taken
  <2>5. CollectedInv BY <2>1, <2>2 DEF CollectedInv
  <2>6. MessagesWhole BY <2>1, <2>2 DEF MessagesWhole
  <2> QED BY <2>1, <2>2, <2>3, <2>4, <2>5, <2>6 DEF WholeInv
<1>2. WholeInv => MessagesWhole BY DEF WholeInv, MessagesWhole
<1> QED BY <1>1, <1>2, WholeStep, PTL DEF NoiseSpec

-----------------------------------------------------------------------------
\* SshPeer: what a row says of its socket is what the socket was born with, however
\* many sockets came and went since; and a session's own sockets on the port of sshd
\* are one, the client's.

Born == [n : Nat, of : Owners, table : Tables, port : Ports, remote : Remotes \cup {Home},
         established : BOOLEAN]
SameSocket(r, s) == r.of = s.of /\ r.table = s.table /\ r.port = s.port /\ r.remote = s.remote

\* Whether the rows of the client's table have been read.
ReadIt(s) == looking \in {"owner", "pick"} \/ (looking = "tcp6" /\ s.table = "tcp")

PeerInv ==
  /\ sockets \subseteq Born /\ rows \subseteq Born /\ opened \in Nat /\ gone \in BOOLEAN
  /\ IsFiniteSet(sockets) /\ IsFiniteSet(rows)
  /\ looking \in {"tcp", "tcp6", "owner", "pick", "done"} /\ (looking # "done" => answer = Home)
  /\ \A r \in rows \cup sockets : r.n <= opened + 2 /\ (r.of = "mine" /\ r.port = "ssh" => r.n = 1)
  /\ \A r \in rows \cup sockets : \A s \in rows \cup sockets : r.n = s.n => SameSocket(r, s)
  /\ \A r \in sockets, s \in sockets : r.n = s.n => r = s
  /\ \E s \in sockets : s.n = 1 /\ s.of = "mine"
  /\ ~gone => \A r \in rows \cup sockets : r.n = 1 => r.established
  /\ \A s \in sockets : s.n = 1 /\ ReadIt(s) => \E r \in rows : r.n = 1
  /\ looking = "pick" => 1 \in owned /\ \A r \in rows : r.n \in owned => r.of = "mine"
  /\ OwnAddress

\* The client is the one socket numbered 1.
LEMMA ClientIs ==
  ASSUME PeerInv
  PROVE  Client \in sockets /\ Client.n = 1 /\ Client.of = "mine"
         /\ \A s \in sockets : s.n = 1 => s = Client
BY DEF PeerInv, Client

\* The invariant holds at first.
LEMMA PeerInitially == PeerInit => PeerInv
<1> SUFFICES ASSUME PeerInit PROVE PeerInv
  OBVIOUS
<1>1. PICK table \in Tables, port \in Ports, remote \in Remotes \cup {Home} :
        sockets = {Socket(1, "mine", table, port, remote), Socket(2, "mine", "tcp", "other", Home)}
  BY DEF PeerInit
<1> DEFINE first == Socket(1, "mine", table, port, remote)
           second == Socket(2, "mine", "tcp", "other", Home)
<1>2. /\ first \in Born /\ first.n = 1 /\ first.of = "mine" /\ first.established = TRUE
      /\ second \in Born /\ second.n = 2 /\ second.port = "other"
  BY DEF Socket, Born, Owners, Tables, Ports
<1> HIDE DEF first, second
<1>3. sockets = {first, second} BY <1>1 DEF first, second
<1>4. opened = 0 /\ looking = "tcp" /\ rows = {} /\ owned = {} /\ answer = Home /\ gone = FALSE
  BY DEF PeerInit
<1>5. IsFiniteSet(sockets) /\ IsFiniteSet(rows)
  <2>1. IsFiniteSet({first}) /\ IsFiniteSet({second}) /\ sockets = {first} \cup {second}
    BY <1>3, FS_Singleton
  <2> QED BY <2>1, <1>4, FS_Union, FS_EmptySet
<1>6. \A r \in rows \cup sockets : r = first \/ r = second BY <1>3, <1>4
<1>7. sockets \subseteq Born /\ rows \subseteq Born BY <1>2, <1>3, <1>4
<1>8. \A r \in rows \cup sockets : r.n <= opened + 2 /\ (r.of = "mine" /\ r.port = "ssh" => r.n = 1)
  BY <1>2, <1>4, <1>6
<1>9. \A r \in rows \cup sockets : \A s \in rows \cup sockets : r.n = s.n => SameSocket(r, s)
        /\ r = s
  BY <1>2, <1>6 DEF SameSocket
<1>10. ~ReadIt(first) /\ ~ReadIt(second) BY <1>4 DEF ReadIt
<1>11. OwnAddress BY <1>4 DEF OwnAddress
<1>12. \A s \in sockets : ~ReadIt(s) BY <1>3, <1>10
<1>13. ~gone => \A r \in rows \cup sockets : r.n = 1 => r.established BY <1>2, <1>6
<1>14. \E s \in sockets : s.n = 1 /\ s.of = "mine" BY <1>2, <1>3
<1> QED BY <1>4, <1>5, <1>7, <1>8, <1>9, <1>11, <1>12, <1>13, <1>14 DEF PeerInv

\* Every step keeps it: a candidate on the port of sshd is the client, and so is one that
\* is alone, as the row of the client is there.
LEMMA PeerStep == PeerInv /\ [PeerNext]_peerVars => PeerInv'
<1> SUFFICES ASSUME PeerInv, [PeerNext]_peerVars PROVE PeerInv'
  OBVIOUS
<1>1. ASSUME NEW of \in Owners, NEW table \in Tables, NEW port \in Ports, NEW remote \in Remotes,
             SocketOpens(of, table, port, remote)
      PROVE  PeerInv'
  <2> DEFINE new == Socket(opened + 3, of, table, port, remote)
  <2>1. /\ opened' = opened + 1 /\ sockets' = sockets \cup {new} /\ (port = "ssh" => of = "theirs")
        /\ UNCHANGED <<looking, rows, owned, answer, gone>>
    BY <1>1 DEF SocketOpens
  <2>2. new \in Born /\ new.n = opened + 3 /\ new.of = of /\ new.port = port
    BY DEF Socket, Born, PeerInv
  <2> HIDE DEF new
  <2>3. \A r \in rows \cup sockets : r.n \in Nat /\ r.n <= opened + 2 BY DEF PeerInv, Born
  <2>4. Client' = Client
    <3>1. /\ Client \in sockets' /\ Client.n = 1
          /\ \A s \in sockets' : s.n = 1 => s = Client
      BY ClientIs, <2>1, <2>2 DEF PeerInv
    <3> QED BY <3>1 DEF Client
  <2>5. OwnAddress' BY <2>1, <2>4 DEF OwnAddress, PeerInv
  <2>6. /\ \A r \in (rows \cup sockets)' : r.n <= opened' + 2
             /\ (r.of = "mine" /\ r.port = "ssh" => r.n = 1)
        /\ \A r \in (rows \cup sockets)' : \A s \in (rows \cup sockets)' : r.n = s.n
             => SameSocket(r, s)
        /\ \A r \in sockets', s \in sockets' : r.n = s.n => r = s
    BY <2>1, <2>2, <2>3 DEF PeerInv, SameSocket
  <2>7. ~gone' => \A r \in (rows \cup sockets)' : r.n = 1 => r.established
    BY <2>1, <2>2, <2>3 DEF PeerInv
  <2>8. \A s \in sockets' : s.n = 1 /\ ReadIt(s)' => \E r \in rows' : r.n = 1
    BY <2>1, <2>2, <2>3 DEF PeerInv, ReadIt
  <2>9. IsFiniteSet(sockets') BY <2>1, FS_AddElement DEF PeerInv
  <2>10. \E s \in sockets' : s.n = 1 /\ s.of = "mine" BY <2>1 DEF PeerInv
  <2> QED BY <2>1, <2>2, <2>5, <2>6, <2>7, <2>8, <2>9, <2>10 DEF PeerInv
<1>2. ASSUME NEW s \in sockets, SocketCloses(s) PROVE PeerInv'
  <2>1. s.n > 2 /\ sockets' = sockets \ {s}
          /\ UNCHANGED <<opened, looking, rows, owned, answer, gone>>
    BY <1>2 DEF SocketCloses
  <2>2. Client' = Client
    <3>1. /\ Client \in sockets' /\ Client.n = 1
          /\ \A t \in sockets' : t.n = 1 => t = Client
      BY ClientIs, <2>1
    <3> QED BY <3>1 DEF Client
  <2>3. OwnAddress' BY <2>1, <2>2 DEF OwnAddress, PeerInv
  <2>4. IsFiniteSet(sockets') BY <2>1, FS_Subset DEF PeerInv
  <2> QED BY <2>1, <2>3, <2>4, ClientIs DEF PeerInv, ReadIt
<1>3. CASE ClientLeaves
  <2>1. /\ gone' = TRUE /\ UNCHANGED <<opened, looking, rows, owned, answer>>
        /\ sockets' = {IF s.n = 1 THEN [s EXCEPT !.established = FALSE] ELSE s : s \in sockets}
    BY <1>3 DEF ClientLeaves
  <2>2. ASSUME NEW t \in sockets'
        PROVE  /\ t \in Born
               /\ \E s \in sockets :
                    /\ t.n = s.n /\ SameSocket(t, s)
                    /\ t = (IF s.n = 1 THEN [s EXCEPT !.established = FALSE] ELSE s)
    <3>1. PICK s \in sockets : t = IF s.n = 1 THEN [s EXCEPT !.established = FALSE] ELSE s
      BY <2>1
    <3>2. s \in Born BY DEF PeerInv
    <3> QED BY <3>1, <3>2 DEF Born, SameSocket
  <2>3. OwnAddress' BY <2>1 DEF OwnAddress
  <2>4. \A r \in sockets', s \in sockets' : r.n = s.n => r = s
    <3> SUFFICES ASSUME NEW r \in sockets', NEW s \in sockets', r.n = s.n PROVE r = s
      OBVIOUS
    <3>1. PICK p \in sockets : r.n = p.n
            /\ r = (IF p.n = 1 THEN [p EXCEPT !.established = FALSE] ELSE p)
      BY <2>2
    <3>2. PICK q \in sockets : s.n = q.n
            /\ s = (IF q.n = 1 THEN [q EXCEPT !.established = FALSE] ELSE q)
      BY <2>2
    <3>3. p = q BY <3>1, <3>2 DEF PeerInv
    <3> QED BY <3>1, <3>2, <3>3
  <2>5. \A r \in (rows \cup sockets)' : \E s \in rows \cup sockets : r.n = s.n /\ SameSocket(r, s)
    BY <2>1, <2>2 DEF SameSocket
  <2>6. \A r \in (rows \cup sockets)' : r.n <= opened' + 2
          /\ (r.of = "mine" /\ r.port = "ssh" => r.n = 1)
    BY <2>1, <2>5 DEF PeerInv, SameSocket
  <2>7. \A r \in (rows \cup sockets)' : \A s \in (rows \cup sockets)' : r.n = s.n
          => SameSocket(r, s)
    BY <2>5 DEF PeerInv, SameSocket
  <2>8. \E s \in sockets' : s.n = 1 /\ s.of = "mine"
    <3>1. Client \in sockets /\ Client.n = 1 /\ Client.of = "mine" BY ClientIs
    <3>2. [Client EXCEPT !.established = FALSE] \in sockets' BY <2>1, <3>1
    <3>3. Client \in Born BY <3>1 DEF PeerInv
    <3> QED BY <3>1, <3>2, <3>3 DEF Born
  <2>9. \A s \in sockets' : s.n = 1 /\ ReadIt(s)' => \E r \in rows' : r.n = 1
    BY <2>1, <2>2 DEF PeerInv, ReadIt, SameSocket
  <2>10. IsFiniteSet(sockets')
    <3> DEFINE Left(s) == IF s.n = 1 THEN [s EXCEPT !.established = FALSE] ELSE s
               f == [s \in sockets |-> Left(s)]
    <3>1. sockets' = {Left(s) : s \in sockets} BY <2>1
    <3>2. f \in [sockets -> sockets'] BY <3>1
    <3>3. \A t \in sockets' : \E s \in sockets : f[s] = t BY <3>1
    <3>4. f \in Surjection(sockets, sockets') BY <3>2, <3>3 DEF Surjection
    <3> QED BY <3>4, FS_Surjection DEF PeerInv
  <2>11. \A r \in sockets' : r \in Born BY <2>2
  <2> QED BY <2>1, <2>3, <2>4, <2>6, <2>7, <2>8, <2>9, <2>10, <2>11 DEF PeerInv
<1>4. ASSUME NEW table \in Tables, ReadTable(table) PROVE PeerInv'
  <2>1. /\ rows' = rows \cup {s \in sockets : s.table = table}
        /\ looking = table /\ looking' = (IF table = "tcp" THEN "tcp6" ELSE "owner")
        /\ UNCHANGED <<sockets, opened, owned, answer, gone>>
    BY <1>4 DEF ReadTable, Tables
  <2>2. Client' = Client BY <2>1 DEF Client
  <2>3. OwnAddress' BY <2>1, <2>2 DEF OwnAddress
  <2>4. \A s \in sockets' : s.n = 1 /\ ReadIt(s)' => \E r \in rows' : r.n = 1
    <3> SUFFICES ASSUME NEW s \in sockets, s.n = 1, s.table = table \/ ReadIt(s)
                 PROVE  \E r \in rows' : r.n = 1
      <4>1. \A s \in sockets : ReadIt(s)' => s.table = table \/ ReadIt(s)
        BY <2>1 DEF ReadIt, Tables, PeerInv, Born
      <4> QED BY <2>1, <4>1
    <3> QED BY <2>1 DEF PeerInv
  <2>5. rows' \cup sockets' = rows \cup sockets BY <2>1
  <2>6. looking' \in {"tcp6", "owner"} BY <2>1
  <2>7. IsFiniteSet(rows')
    <3>1. IsFiniteSet({s \in sockets : s.table = table}) BY FS_Subset DEF PeerInv
    <3> QED BY <2>1, <3>1, FS_Union DEF PeerInv
  <2>8. rows' \subseteq Born BY <2>5 DEF PeerInv
  <2>9. answer' = Home BY <2>1, <2>6 DEF PeerInv, Tables
  <2> QED BY <2>1, <2>3, <2>4, <2>5, <2>6, <2>7, <2>8, <2>9 DEF PeerInv
<1>5. CASE FindOwner
  <2>1. looking = "owner" /\ UNCHANGED <<sockets, opened, rows, answer, gone>> BY <1>5 DEF FindOwner
  <2>2. Client' = Client BY <2>1 DEF Client
  <2>3. answer' = Home BY <2>1 DEF PeerInv
  <2>4. OwnAddress' BY <2>3 DEF OwnAddress
  <2>5. looking' = "done" \/ (looking' = "pick" /\ owned' = Owned) BY <1>5 DEF FindOwner
  <2>6. looking' = "pick" => 1 \in owned' /\ \A r \in rows' : r.n \in owned' => r.of = "mine"
    <3> SUFFICES ASSUME owned' = Owned
                 PROVE  1 \in Owned /\ \A r \in rows : r.n \in Owned => r.of = "mine"
      BY <2>1, <2>5
    <3>1. 1 \in Owned BY ClientIs DEF Owned
    <3>2. ASSUME NEW r \in rows, r.n \in Owned PROVE r.of = "mine"
      <4>1. PICK s \in sockets : s.of = "mine" /\ r.n = s.n BY <3>2 DEF Owned
      <4>2. SameSocket(r, s) BY <4>1 DEF PeerInv
      <4> QED BY <4>1, <4>2 DEF SameSocket
    <3> QED BY <3>1, <3>2
  <2>7. \A s \in sockets' : s.n = 1 /\ ReadIt(s)' => \E r \in rows' : r.n = 1
    <3>1. \A s \in sockets : ReadIt(s) BY <2>1 DEF ReadIt
    <3> QED BY <2>1, <3>1 DEF PeerInv
  <2>8. looking' \in {"tcp", "tcp6", "owner", "pick", "done"} BY <2>5
  <2> QED BY <2>1, <2>3, <2>4, <2>6, <2>7, <2>8 DEF PeerInv
<1>6. CASE PickClient
  <2>1. /\ looking = "pick" /\ looking' = "done"
        /\ UNCHANGED <<sockets, opened, rows, owned, gone>>
        /\ (\E r \in Pick : answer' = r.remote) \/ answer' = Home
    BY <1>6 DEF PickClient
  <2>2. Client' = Client BY <2>1 DEF Client
  <2>3. ASSUME ~gone, Client.remote # Home, NEW r \in Pick PROVE r.remote = Client.remote
    <3>1. Client \in sockets /\ Client.n = 1 BY ClientIs
    <3>2. r \in Candidates BY <2>3 DEF Pick
    <3>3. r \in rows /\ r.of = "mine" BY <3>2, <2>1 DEF Candidates, PeerInv
    <3>4. ASSUME NEW q \in rows, q.n = 1 PROVE q.remote = Client.remote /\ q \in Candidates
      <4>1. SameSocket(q, Client) BY <3>1, <3>4 DEF PeerInv
      <4>2. q.n \in owned /\ q.established BY <2>1, <2>3, <3>4 DEF PeerInv
      <4> QED BY <4>1, <4>2, <2>3 DEF SameSocket, Candidates
    <3>5. CASE r.port = "ssh"
      BY <3>3, <3>4, <3>5 DEF PeerInv
    <3>6. CASE r.port # "ssh"
      <4>1. Cardinality(Candidates) = 1 BY <2>3, <3>2, <3>6 DEF Pick
      <4>2. IsFiniteSet(Candidates) BY FS_Subset DEF Candidates, PeerInv
      <4>3. PICK c : Candidates = {c} BY <4>1, <4>2, FS_Singleton
      <4>4. \E q \in rows : q.n = 1 BY <2>1, <3>1 DEF PeerInv, ReadIt
      <4> QED BY <3>2, <3>4, <4>3, <4>4
    <3> QED BY <3>5, <3>6
  <2>4. OwnAddress' BY <2>1, <2>2, <2>3 DEF OwnAddress
  <2>5. \A s \in sockets' : ~ReadIt(s)' BY <2>1 DEF ReadIt
  <2> QED BY <2>1, <2>4, <2>5 DEF PeerInv
<1>7. CASE UNCHANGED peerVars
  <2>1. UNCHANGED <<sockets, opened, looking, rows, owned, answer, gone>> BY <1>7 DEF peerVars
  <2>2. Client' = Client BY <2>1 DEF Client
  <2> QED BY <2>1, <2>2 DEF PeerInv, OwnAddress, ReadIt
<1> QED BY <1>1, <1>2, <1>3, <1>4, <1>5, <1>6, <1>7 DEF PeerNext

\* A client that is still there and came from elsewhere is told its own address or none
\* (resolve).
THEOREM OwnAddressTold == PeerSpec => []OwnAddress
<1>1. PeerInv => OwnAddress BY DEF PeerInv
<1> QED BY PeerInitially, PeerStep, <1>1, PTL DEF PeerSpec

-----------------------------------------------------------------------------
\* RateLimit: connections let in are counted by the sums of a source up to each moment.

Moments == 0..MaxClock + 1
Sums(h) == [n \in Moments |-> LetInBefore(h, n)]

IsSum(f, h) == /\ f \in [Moments -> Nat] /\ f[0] = 0
               /\ \A n \in 1..MaxClock + 1 : f[n] = f[n-1] + h[n-1]

Rising(f) == \A m, n \in Moments : m <= n => f[m] <= f[n]

\* Nobody is let in before their time.
NoneYet(f) == \A n \in clock + 1..MaxClock + 1 : f[n] = f[clock + 1]

\* What a window has counted, up to the limit, was let in since it began; the time
\* of one window before it saw no more than the limit; and a window that is over
\* lets nobody in.
Within(f, w) ==
  /\ f[clock + 1] - f[w.since] = IF w.count <= limit THEN w.count ELSE limit
  /\ \A t \in 0..w.since : w.since < t + Window => f[w.since] - f[t] <= limit

Tallied(f, w) ==
  /\ Within(f, w)
  /\ ~Active(w) => f[clock + 1] = f[clock]

\* One more was let in at the moment c.
OneMore(f, g, c) == \A n \in Moments : g[n] = f[n] + (IF n <= c THEN 0 ELSE 1)

\* A source without a window has let none in now, and no more than the limit of late.
Fresh(f) ==
  /\ f[clock + 1] = f[clock]
  /\ \A t \in 0..clock : clock < t + Window => f[clock + 1] - f[t] <= limit

Twice(f) ==
  \A from \in Clock : \A to \in from..MaxClock :
    to < from + Window => f[to + 1] - f[from] <= 2 * limit

Fair(f, s) ==
  /\ Rising(f) /\ NoneYet(f) /\ Twice(f)
  /\ IF s \in DOMAIN window THEN Tallied(f, window[s]) ELSE Fresh(f)

RateTypes ==
  /\ limit \in Nat /\ clock \in Clock
  /\ let \in [Sources -> [Clock -> Nat]]
  /\ DOMAIN window \subseteq Sources /\ window = [s \in DOMAIN window |-> window[s]]
  /\ \A s \in DOMAIN window : window[s] \in [since : 0..clock, count : Nat]

RateInv == RateTypes /\ (limit # 0 => \A s \in Sources : Fair(Sums(let[s]), s))

-----------------------------------------------------------------------------
\* A set of numbers has a least one.
LEMMA LeastMoment ==
  ASSUME NEW T \in SUBSET Nat, T # {}
  PROVE  \E x \in T : \A y \in T : x <= y
<1>1. IsWellFoundedOn(OpToRel(<,Nat), Nat) BY NatLessThanWellFounded
<1>2. PICK x \in T : \A y \in T : ~ (<<y, x>> \in OpToRel(<,Nat)) BY <1>1, WFMin
<1>3. ASSUME NEW y \in T PROVE x <= y
  <2>1. ~(y < x) BY <1>2 DEF OpToRel
  <2> QED BY <2>1
<1> QED BY <1>3

\* Induction over the moments.
LEMMA MomentsInduce ==
  ASSUME NEW T, 0 \in T, \A n \in 1..MaxClock + 1 : n - 1 \in T => n \in T
  PROVE  \A n \in Moments : n \in T
<1> DEFINE Bad == Moments \ T
<1> SUFFICES ASSUME Bad # {} PROVE FALSE OBVIOUS
<1>1. PICK x \in Bad : \A y \in Bad : x <= y
  <2>1. Bad \in SUBSET Nat BY RateOK DEF Moments
  <2> HIDE DEF Bad
  <2> QED BY <2>1, LeastMoment
<1>2. x \in 1..MaxClock + 1 /\ x - 1 \in Moments BY RateOK DEF Moments
<1>3. x - 1 \notin Bad BY <1>1, <1>2
<1> QED BY <1>2, <1>3

\* There are sums of every sequence of counts.
LEMMA SumExists ==
  ASSUME NEW h \in [Clock -> Nat]
  PROVE  \E f : IsSum(f, h)
<1> DEFINE Upto(f, n) == /\ f \in [0..n -> Nat] /\ f[0] = 0
                         /\ \A m \in 1..n : f[m] = f[m-1] + h[m-1]
           Summed == {n \in Moments : \E f : Upto(f, n)}
<1>1. 0 \in Summed
  <2> DEFINE f == [m \in 0..0 |-> 0]
  <2>1. Upto(f, 0) OBVIOUS
  <2>2. 0 \in Moments BY RateOK DEF Moments
  <2> HIDE DEF f
  <2> QED BY <2>1, <2>2
<1>2. ASSUME NEW n \in 1..MaxClock + 1, n - 1 \in Summed PROVE n \in Summed
  <2>1. PICK g : Upto(g, n - 1) BY <1>2
  <2> DEFINE f == [m \in 0..n |-> IF m = n THEN g[n-1] + h[n-1] ELSE g[m]]
  <2>2. n \in Nat /\ n # 0 /\ n - 1 \in 0..(n-1) /\ n - 1 \in Clock /\ n \in Moments
    BY RateOK DEF Clock, Moments
  <2>3. g[n-1] \in Nat /\ h[n-1] \in Nat BY <2>1, <2>2
  <2>4. \A m \in 0..n : f[m] = (IF m = n THEN g[n-1] + h[n-1] ELSE g[m]) OBVIOUS
  <2>5. f \in [0..n -> Nat] BY <2>1, <2>2, <2>3
  <2> HIDE DEF f
  <2>6. Upto(f, n)
    <3>1. f[0] = 0 BY <2>1, <2>2, <2>4
    <3>2. ASSUME NEW m \in 1..n PROVE f[m] = f[m-1] + h[m-1]
      BY <2>1, <2>2, <2>4
    <3> QED BY <2>5, <3>1, <3>2
  <2> QED BY <2>6, <2>2
<1> HIDE DEF Summed
<1>3. \A n \in Moments : n \in Summed BY <1>1, <1>2, MomentsInduce
<1>4. MaxClock + 1 \in Moments BY RateOK DEF Moments
<1> QED BY <1>3, <1>4 DEF Summed, IsSum, Moments

\* The sums of the model are sums.
LEMMA SumsAre ==
  ASSUME NEW h \in [Clock -> Nat]
  PROVE  IsSum(Sums(h), h)
<1> DEFINE Rec(f) == [m \in 0..MaxClock + 1 |-> IF m = 0 THEN 0 ELSE f[m-1] + h[m-1]]
           sum == CHOOSE f : f = Rec(f)
<1>1. PICK g : IsSum(g, h) BY SumExists
<1>2. g = Rec(g)
  <2>1. \A m \in 0..MaxClock + 1 : g[m] = (IF m = 0 THEN 0 ELSE g[m-1] + h[m-1])
    <3> SUFFICES ASSUME NEW m \in 0..MaxClock + 1, m # 0 PROVE g[m] = g[m-1] + h[m-1]
      BY <1>1 DEF IsSum
    <3>1. m \in 1..MaxClock + 1 BY RateOK
    <3> QED BY <1>1, <3>1 DEF IsSum
  <2>2. g = [m \in 0..MaxClock + 1 |-> g[m]] BY <1>1 DEF IsSum, Moments
  <2> QED BY <2>1, <2>2
<1>3. sum = Rec(sum)
  <2> HIDE DEF Rec
  <2> QED BY <1>2
<1>4. \A n : LetInBefore(h, n) = sum[n] BY DEF LetInBefore
<1> HIDE DEF sum
<1>5. \A m \in 0..MaxClock + 1 : sum[m] = (IF m = 0 THEN 0 ELSE sum[m-1] + h[m-1])
  BY <1>3
<1>6. sum[0] = 0 /\ \A n \in 1..MaxClock + 1 : sum[n] = sum[n-1] + h[n-1]
  BY <1>5, RateOK
<1>7. \A n \in Moments : sum[n] \in Nat
  <2> DEFINE T == {m \in Moments : sum[m] \in Nat}
  <2>1. 0 \in Moments BY RateOK DEF Moments
  <2>2. ASSUME NEW n \in 1..MaxClock + 1, sum[n-1] \in Nat PROVE sum[n] \in Nat /\ n \in Moments
    <3>1. n - 1 \in Clock /\ n \in Moments BY RateOK DEF Clock, Moments
    <3>2. h[n-1] \in Nat BY <3>1
    <3> QED BY <1>6, <2>2, <3>1, <3>2
  <2>3. 0 \in T BY <1>6, <2>1
  <2>4. \A n \in 1..MaxClock + 1 : n - 1 \in T => n \in T BY <2>2
  <2> HIDE DEF T
  <2>5. \A n \in Moments : n \in T BY <2>3, <2>4, MomentsInduce
  <2> QED BY <2>5 DEF T
<1>8. Sums(h) = [n \in Moments |-> sum[n]] BY <1>4 DEF Sums
<1>9. \A n \in Moments : Sums(h)[n] = sum[n] BY <1>8
<1>10. Sums(h) \in [Moments -> Nat] BY <1>7, <1>8
<1>11. \A n \in 1..MaxClock + 1 : n \in Moments /\ n - 1 \in Moments BY RateOK DEF Moments
<1>12. 0 \in Moments BY RateOK DEF Moments
<1> QED BY <1>6, <1>9, <1>10, <1>11, <1>12 DEF IsSum

\* One more at a moment is one more in every later sum.
LEMMA SumGrows ==
  ASSUME NEW h \in [Clock -> Nat], NEW c \in Clock, NEW k \in [Clock -> Nat],
         \A t \in Clock : k[t] = h[t] + (IF t = c THEN 1 ELSE 0),
         NEW f, NEW g, IsSum(f, h), IsSum(g, k)
  PROVE  OneMore(f, g, c)
<1> DEFINE T == {n \in Moments : g[n] = f[n] + (IF n <= c THEN 0 ELSE 1)}
<1>1. 0 \in T BY RateOK DEF IsSum, Moments, Clock
<1>2. ASSUME NEW n \in 1..MaxClock + 1, n - 1 \in T PROVE n \in T
  <2>1. n \in Moments /\ n - 1 \in Clock /\ n - 1 \in Moments /\ n \in Nat /\ c \in Nat
    BY RateOK DEF Moments, Clock
  <2>2. f[n] = f[n-1] + h[n-1] /\ g[n] = g[n-1] + k[n-1] BY DEF IsSum
  <2>3. f[n-1] \in Nat /\ h[n-1] \in Nat BY <2>1 DEF IsSum
  <2>4. k[n-1] = h[n-1] + (IF n - 1 = c THEN 1 ELSE 0) BY <2>1, <2>3
  <2>5. g[n-1] = f[n-1] + (IF n - 1 <= c THEN 0 ELSE 1) BY <1>2
  <2> QED BY <2>1, <2>2, <2>3, <2>4, <2>5
<1> HIDE DEF T
<1>3. \A n \in Moments : n \in T BY <1>1, <1>2, MomentsInduce
<1> QED BY <1>3 DEF T, OneMore

\* The sums of nothing.
LEMMA SumOfNone ==
  ASSUME NEW f, IsSum(f, [t \in Clock |-> 0])
  PROVE  \A n \in Moments : f[n] = 0
<1> DEFINE T == {n \in Moments : f[n] = 0}
<1>1. 0 \in T BY RateOK DEF IsSum, Moments
<1>2. ASSUME NEW n \in 1..MaxClock + 1, n - 1 \in T PROVE n \in T
  <2>1. n \in Moments /\ n - 1 \in Clock BY RateOK DEF Moments, Clock
  <2> QED BY <1>2, <2>1 DEF IsSum
<1> HIDE DEF T
<1>3. \A n \in Moments : n \in T BY <1>1, <1>2, MomentsInduce
<1> QED BY <1>3 DEF T

-----------------------------------------------------------------------------
\* Steps

\* What time does to the sums of a source: nothing.
LEMMA TimeStep ==
  ASSUME RateInv, TimePasses
  PROVE  RateInv'
<1>1. RateTypes'
  BY RateOK DEF RateInv, RateTypes, TimePasses, Clock
<1>2. ASSUME limit' # 0, NEW s \in Sources PROVE Fair(Sums(let[s]), s)'
  <2> DEFINE f == Sums(let[s])
  <2>1. Sums(let[s])' = f BY DEF TimePasses
  <2>2. IsSum(f, let[s]) BY SumsAre DEF RateInv, RateTypes
  <2>3. Fair(f, s) BY <1>2 DEF RateInv, TimePasses
  <2>4. f \in [Moments -> Nat] BY <2>2 DEF IsSum
  <2>8. f' = f BY <2>1 DEF f
  <2> HIDE DEF f
  <2>5. /\ clock \in Nat /\ clock + 1 \in Moments /\ clock + 2 \in Moments /\ clock \in Moments
        /\ clock' = clock + 1 /\ clock + 2 \in clock + 1..MaxClock + 1
    BY RateOK DEF RateInv, RateTypes, TimePasses, Moments, Clock
  <2>6. f[clock + 2] = f[clock + 1] BY <2>3, <2>5 DEF Fair, NoneYet
  <2>7. NoneYet(f)' BY <2>3, <2>5, <2>6, <2>8, RateOK DEF Fair, NoneYet
  <2>9. CASE s \in DOMAIN window
    <3>1. Tallied(f, window[s]) BY <2>3, <2>9 DEF Fair
    <3>2. window' = window /\ limit' = limit BY DEF TimePasses
    <3>3. window[s].since \in 0..clock BY <2>9 DEF RateInv, RateTypes
    <3>4. f[clock' + 1] = f[clock + 1] /\ f[clock'] = f[clock + 1] BY <2>5, <2>6
    <3>5. Tallied(f, window[s])' BY <3>1, <3>2, <3>4, <2>8 DEF Tallied, Within
    <3> QED BY <2>1, <2>3, <2>7, <2>8, <2>9, <3>2, <3>5 DEF Fair, Rising, Twice
  <2>10. CASE s \notin DOMAIN window
    <3>1. Fresh(f) BY <2>3, <2>10 DEF Fair
    <3>2. window' = window /\ limit' = limit BY DEF TimePasses
    <3>4. f[clock' + 1] = f[clock + 1] /\ f[clock'] = f[clock + 1] BY <2>5, <2>6
    <3>5. ASSUME NEW t \in 0..clock', clock' < t + Window
          PROVE f[clock' + 1] - f[t] <= limit
      <4>1. CASE t = clock + 1
        <5>1. f[t] \in Nat /\ limit \in Nat BY <2>4, <2>5, <4>1 DEF RateInv, RateTypes
        <5> QED BY <5>1, <3>4, <4>1
      <4>2. CASE t \in 0..clock
        <5>1. clock < t + Window BY <4>2, <3>5, <2>5, RateOK
        <5> QED BY <5>1, <4>2, <3>1, <3>4 DEF Fresh
      <4> QED BY <4>1, <4>2, <2>5
    <3>6. Fresh(f)' BY <3>2, <3>4, <3>5, <2>8 DEF Fresh
    <3> QED BY <2>1, <2>3, <2>7, <2>8, <2>10, <3>2, <3>6 DEF Fair, Rising, Twice
  <2> QED BY <2>9, <2>10
<1> QED BY <1>1, <1>2 DEF RateInv

\* A window that is over leaves its source without one.
LEMMA OverIsFresh ==
  ASSUME RateTypes, NEW f \in [Moments -> Nat], Rising(f),
         NEW w \in [since : 0..clock, count : Nat],
         Tallied(f, w), ~Active(w)
  PROVE  Fresh(f)
<1>1. /\ clock \in Nat /\ clock \in Moments /\ clock + 1 \in Moments /\ limit \in Nat
      /\ w.since \in Nat /\ w.since \in Moments /\ w.since <= clock
  BY RateOK DEF RateTypes, Clock, Moments
<1>2. w.since + Window <= clock BY <1>1, RateOK DEF Active
<1>3. f[clock + 1] - f[w.since] <= limit BY <1>1 DEF Tallied, Within
<1>4. ASSUME NEW t \in 0..clock, clock < t + Window PROVE f[clock + 1] - f[t] <= limit
  <2>1. w.since <= t /\ t \in Moments BY <1>1, <1>2, <1>4, RateOK DEF RateTypes, Clock, Moments
  <2>2. f[w.since] <= f[t] BY <2>1, <1>1 DEF Rising
  <2>3. f[w.since] \in Nat /\ f[t] \in Nat /\ f[clock + 1] \in Nat BY <2>1, <1>1
  <2> QED BY <2>2, <2>3, <1>1, <1>3
<1>5. f[clock + 1] = f[clock] BY DEF Tallied
<1> QED BY <1>4, <1>5 DEF Fresh

\* What is so of the sums g with one more counted in w.
Grown(g, w) ==
  /\ Rising(g) /\ NoneYet(g) /\ Twice(g)
  /\ g[clock + 1] - g[w.since] = w.count + 1
  /\ \A t \in 0..w.since : w.since < t + Window => g[w.since] - g[t] <= limit

\* One more now that is counted in a window under the limit is let in rightly.
LEMMA SumsGrow ==
  ASSUME clock \in Clock, limit \in Nat, NEW f \in [Moments -> Nat], NEW g \in [Moments -> Nat],
         NEW w, w.since \in Nat, w.since <= clock, clock < w.since + Window, w.count \in Nat,
         Rising(f), NoneYet(f), Twice(f),
         OneMore(f, g, clock), Within(f, w),
         w.count + 1 <= limit
  PROVE  Grown(g, w)
<1>1. clock \in Nat /\ clock + 1 \in Moments /\ w.since \in Moments /\ Moments \subseteq Nat
  BY RateOK DEF Clock, Moments
<1>2. Rising(g)
  <2> SUFFICES ASSUME NEW m \in Moments, NEW n \in Moments, m <= n PROVE g[m] <= g[n]
    BY DEF Rising
  <2>1. f[m] <= f[n] /\ f[m] \in Nat /\ f[n] \in Nat BY DEF Rising
  <2> QED BY <2>1, <1>1 DEF OneMore
<1>3. NoneYet(g)
  <2> SUFFICES ASSUME NEW n \in clock + 1..MaxClock + 1 PROVE g[n] = g[clock + 1]
    BY DEF NoneYet
  <2>1. n \in Moments /\ ~(n <= clock) /\ ~(clock + 1 <= clock) BY <1>1, RateOK DEF Moments
  <2>2. f[n] = f[clock + 1] BY DEF NoneYet
  <2> QED BY <2>1, <2>2, <1>1 DEF OneMore
<1>4. g[clock + 1] = f[clock + 1] + 1 /\ g[w.since] = f[w.since]
  BY <1>1 DEF OneMore
<1>5. g[clock + 1] - g[w.since] = w.count + 1
  <2>1. f[clock + 1] \in Nat /\ f[w.since] \in Nat BY <1>1
  <2> QED BY <2>1, <1>4 DEF Within
<1>6. ASSUME NEW t \in 0..w.since, w.since < t + Window PROVE g[w.since] - g[t] <= limit
  <2>1. t \in Nat /\ t <= w.since OBVIOUS
  <2>2. t \in Moments /\ t <= clock
    <3>1. w.since <= MaxClock + 1 BY <1>1, RateOK DEF Clock
    <3>2. t <= clock BY <2>1, <1>1
    <3> QED BY <2>1, <3>1, <3>2, RateOK DEF Moments
  <2>3. g[t] = f[t] BY <2>2 DEF OneMore
  <2> QED BY <2>3, <1>4, <1>6 DEF Within
<1>7. ASSUME NEW from \in Clock, NEW to \in from..MaxClock, to < from + Window
      PROVE  g[to + 1] - g[from] <= 2 * limit
  <2>1. /\ from \in Nat /\ to \in Nat /\ from <= to /\ from \in Moments /\ to + 1 \in Moments
        /\ to \in Clock
    BY RateOK DEF Clock, Moments
  <2>2. f[from] \in Nat /\ f[to + 1] \in Nat /\ g[from] \in Nat /\ g[to + 1] \in Nat
    BY <2>1
  <2>3. f[to + 1] - f[from] <= 2 * limit BY <1>7 DEF Twice
  <2>4. CASE to < clock \/ clock < from
    <3>1. g[to + 1] - g[from] = f[to + 1] - f[from] BY <2>1, <2>2, <2>4, <1>1 DEF OneMore
    <3> QED BY <2>3, <3>1
  <2>5. CASE from <= clock /\ clock <= to
    <3>1. g[to + 1] = g[clock + 1]
      <4>1. to + 1 \in clock + 1..MaxClock + 1 BY <2>1, <2>5, <1>1, RateOK DEF Clock
      <4> QED BY <4>1, <1>3 DEF NoneYet
    <3>2. g[clock + 1] - g[w.since] <= limit BY <1>5
    <3>3. CASE w.since <= from
      <4>1. g[w.since] <= g[from] BY <3>3, <2>1, <1>1, <1>2 DEF Rising
      <4>2. g[w.since] \in Nat BY <1>1
      <4> QED BY <4>1, <4>2, <3>1, <3>2, <2>2
    <3>4. CASE from < w.since
      <4>1. from \in 0..w.since /\ w.since < from + Window BY <3>4, <2>1, <2>5, <1>1, <1>7, RateOK
      <4>2. g[w.since] - g[from] <= limit BY <4>1, <1>6
      <4>3. g[w.since] \in Nat BY <1>1
      <4> QED BY <4>2, <4>3, <3>1, <3>2, <2>2
    <3> QED BY <3>3, <3>4, <2>1
  <2> QED BY <2>4, <2>5, <2>1, <1>1
<1> QED BY <1>2, <1>3, <1>5, <1>6, <1>7 DEF Grown, Twice

\* Sources a call leaves alone, but for a window that is over and may be dropped.
LEMMA OthersStay ==
  ASSUME RateInv, limit # 0, limit' = limit, clock' = clock, NEW s \in Sources,
         NEW f, f = Sums(let[s]),
         s \in DOMAIN window' => s \in DOMAIN window /\ window'[s] = window[s],
         s \in DOMAIN window \ DOMAIN window' => ~Active(window[s])
  PROVE  Fair(f, s)'
<1>1. f \in [Moments -> Nat] BY SumsAre DEF RateInv, RateTypes, IsSum
<1>2. Fair(f, s) BY DEF RateInv
<1>3. Rising(f)' /\ NoneYet(f)' /\ Twice(f)' BY <1>2 DEF Fair, Rising, NoneYet, Twice
<1>4. CASE s \in DOMAIN window'
  <2>1. Tallied(f, window[s]) BY <1>2, <1>4 DEF Fair
  <2>2. Tallied(f, window[s])' BY <2>1, <1>4 DEF Tallied, Within, Active
  <2> QED BY <2>2, <1>3, <1>4 DEF Fair
<1>5. CASE s \notin DOMAIN window'
  <2>1. Fresh(f)
    <3>1. CASE s \notin DOMAIN window BY <3>1, <1>2 DEF Fair
    <3>2. CASE s \in DOMAIN window
      <4>1. RateTypes /\ window[s] \in [since : 0..clock, count : Nat]
        BY <3>2 DEF RateInv, RateTypes
      <4>2. Rising(f) /\ Tallied(f, window[s]) BY <3>2, <1>2 DEF Fair
      <4> QED BY <3>2, <4>1, <4>2, <1>1, <1>5, OverIsFresh
    <3> QED BY <3>1, <3>2
  <2>2. Fresh(f)' BY <2>1 DEF Fresh
  <2> QED BY <2>2, <1>3, <1>5 DEF Fair
<1> QED BY <1>4, <1>5

\* The source of a call: its window, new or not, has one more.
LEMMA CallStep ==
  ASSUME RateInv, limit # 0, limit' = limit, clock' = clock, NEW s \in Sources, NEW w,
         IF s \in DOMAIN window /\ Active(window[s]) THEN w = window[s]
         ELSE w = [since |-> clock, count |-> 0],
         s \in DOMAIN window', window'[s] = [w EXCEPT !.count = @ + 1],
         let' = IF LetsIn(w) THEN [let EXCEPT ![s][clock] = @ + 1] ELSE let,
         NEW f, f = Sums(let[s]), NEW g, g = Sums(let'[s])
  PROVE  Fair(g, s)'
<1>1. IsSum(f, let[s]) BY SumsAre DEF RateInv, RateTypes
<1>2. Rising(f) /\ NoneYet(f) /\ Twice(f) BY DEF RateInv, Fair
<1>3. f \in [Moments -> Nat] BY <1>1 DEF IsSum
<1>4. /\ clock \in Clock /\ clock \in Nat /\ clock \in Moments /\ clock + 1 \in Moments
      /\ limit \in Nat \ {0} /\ let[s] \in [Clock -> Nat] /\ let \in [Sources -> [Clock -> Nat]]
  BY RateOK DEF RateInv, RateTypes, Clock, Moments
<1>5. w \in [since : 0..clock, count : Nat]
  BY <1>4 DEF RateInv, RateTypes
<1> DEFINE v == [since |-> w.since, count |-> w.count + 1]
<1>6. window'[s] = v BY <1>5
\* What was counted in w, and let in before it.
<1>7. Within(f, w) /\ Active(w)
  <2>1. CASE s \in DOMAIN window /\ Active(window[s])
    <3>1. w = window[s] BY <2>1
    <3>2. Tallied(f, w) BY <2>1, <3>1 DEF RateInv, Fair
    <3> QED BY <2>1, <3>1, <3>2 DEF Tallied
  <2>2. CASE ~(s \in DOMAIN window /\ Active(window[s]))
    <3>1. Fresh(f)
      <4>1. CASE s \in DOMAIN window
        <5>1. RateTypes /\ window[s] \in [since : 0..clock, count : Nat]
          BY <4>1 DEF RateInv, RateTypes
        <5>2. Tallied(f, window[s]) BY <4>1 DEF RateInv, Fair
        <5> QED BY <4>1, <2>2, <5>1, <5>2, <1>2, <1>3, OverIsFresh
      <4>2. CASE s \notin DOMAIN window BY <4>2 DEF RateInv, Fair
      <4> QED BY <4>1, <4>2
    <3>2. w.since = clock /\ w.count = 0 BY <2>2
    <3>3. Active(w) BY <3>2, <1>4, RateOK DEF Active
    <3>4. f[clock] \in Nat /\ f[clock + 1] = f[clock] BY <3>1, <1>3, <1>4 DEF Fresh
    <3>5. \A t \in 0..clock : clock < t + Window => f[clock] - f[t] <= limit
      BY <3>1, <3>4 DEF Fresh
    <3>6. f[clock + 1] - f[clock] = 0 BY <3>4
    <3> QED BY <3>2, <3>3, <3>5, <3>6, <1>4 DEF Within
  <2> QED BY <2>1, <2>2
<1>8. w.since \in Moments /\ w.since \in Nat /\ w.since <= clock /\ clock < w.since + Window
      /\ w.count \in Nat
  <2>1. w.since \in Nat /\ w.since <= clock /\ w.count \in Nat BY <1>4, <1>5
  <2>2. w.since \in Moments BY <2>1, <1>4, RateOK DEF Clock, Moments
  <2>3. clock < w.since + Window BY <1>7, <2>1, <1>4, RateOK DEF Active
  <2> QED BY <2>1, <2>2, <2>3
<1>9. Active(v)' BY <1>7 DEF Active
<1>10. CASE ~LetsIn(w)
  <2>1. g = f BY <1>10
  <2>2. Rising(g)' /\ NoneYet(g)' /\ Twice(g)'
    BY <1>2, <2>1 DEF Rising, NoneYet, Twice
  <2>3. ~(w.count + 1 <= limit) /\ limit \in Nat BY <1>10, <1>4 DEF LetsIn
  <2>4. f[clock + 1] - f[w.since] = limit BY <2>3, <1>7, <1>8 DEF Within
  <2>5. Tallied(g, v)' BY <2>1, <2>3, <2>4, <1>7, <1>9 DEF Tallied, Within
  <2> QED BY <2>2, <2>5, <1>6 DEF Fair
<1>11. CASE LetsIn(w)
  <2>1. let'[s] = [let[s] EXCEPT ![clock] = @ + 1] BY <1>4, <1>11
  <2>2. let'[s] \in [Clock -> Nat] BY <2>1, <1>4
  <2>3. IsSum(g, let'[s]) BY <2>2, SumsAre
  <2>4. g \in [Moments -> Nat] BY <2>3 DEF IsSum
  <2>5. \A t \in Clock : let'[s][t] = let[s][t] + (IF t = clock THEN 1 ELSE 0)
    <3>1. \A t \in Clock : let[s][t] \in Nat BY <1>4
    <3> QED BY <2>1, <3>1, <1>4
  <2>6. OneMore(f, g, clock)
    <3>1. PICK k : k = let'[s] OBVIOUS
    <3>2. k \in [Clock -> Nat] /\ IsSum(g, k) BY <3>1, <2>2, <2>3
    <3>3. \A t \in Clock : k[t] = let[s][t] + (IF t = clock THEN 1 ELSE 0) BY <3>1, <2>5
    <3> QED BY <1>1, <1>4, <3>2, <3>3, SumGrows
  <2>7. w.count + 1 <= limit BY <1>11 DEF LetsIn
  <2>8. Grown(g, w)
    BY <2>4, <2>6, <2>7, <1>2, <1>3, <1>4, <1>7, <1>8, SumsGrow
  <2>9. Rising(g)' /\ NoneYet(g)' /\ Twice(g)' BY <2>8 DEF Grown, Rising, NoneYet, Twice
  <2>10. Tallied(g, v)' BY <2>7, <2>8, <1>9 DEF Grown, Tallied, Within
  <2> QED BY <2>9, <2>10, <1>6 DEF Fair
<1> QED BY <1>10, <1>11

LEMMA RateInitially == RateInit => RateInv
<1> SUFFICES ASSUME RateInit PROVE RateInv OBVIOUS
<1>1. limit \in Nat /\ clock = 0 /\ 0 \in Clock /\ DOMAIN window = {}
  BY RateOK DEF RateInit, Clock
<1>2. let \in [Sources -> [Clock -> Nat]] /\ \A s \in Sources : let[s] = [t \in Clock |-> 0]
  BY DEF RateInit
<1>3. RateTypes BY <1>1, <1>2 DEF RateInit, RateTypes
<1>4. ASSUME NEW s \in Sources PROVE Fair(Sums(let[s]), s)
  <2> DEFINE f == Sums(let[s])
  <2>1. IsSum(f, [t \in Clock |-> 0]) BY <1>2, SumsAre
  <2> HIDE DEF f
  <2>2. \A n \in Moments : f[n] = 0 BY <2>1, SumOfNone
  <2>3. /\ 0 \in Moments /\ 1 \in Moments /\ 0 + 1 = 1
        /\ \A n \in 1..MaxClock + 1 : n \in Moments
        /\ \A n \in Clock : n \in Moments /\ n + 1 \in Moments
        /\ \A n \in Clock : \A m \in n..MaxClock : m \in Clock
    BY RateOK DEF Moments, Clock
  <2>4. Rising(f) BY <2>2 DEF Rising
  <2>5. NoneYet(f) BY <2>2, <2>3, <1>1 DEF NoneYet
  <2>6. Twice(f)
    <3> SUFFICES ASSUME NEW from \in Clock, NEW to \in from..MaxClock
                 PROVE f[to + 1] - f[from] <= 2 * limit
      BY DEF Twice
    <3>1. f[to + 1] = 0 /\ f[from] = 0 BY <2>2, <2>3
    <3> QED BY <3>1, <1>1
  <2>7. Fresh(f)
    <3>1. \A t \in 0..clock : t = 0 BY <1>1
    <3> QED BY <2>2, <2>3, <3>1, <1>1 DEF Fresh
  <2> QED BY <2>4, <2>5, <2>6, <2>7, <1>1 DEF Fair, f
<1> QED BY <1>3, <1>4 DEF RateInv

\* The source that calls, and the window its connection counts in.
LEMMA AllowIs ==
  ASSUME RateInv, NEW s \in Sources, Allow(s)
  PROVE  \E w : /\ IF s \in DOMAIN window /\ Active(window[s]) THEN w = window[s]
                   ELSE w = [since |-> clock, count |-> 0]
                /\ s \in DOMAIN window' /\ window'[s] = [w EXCEPT !.count = @ + 1]
                /\ let' = IF LetsIn(w) THEN [let EXCEPT ![s][clock] = @ + 1] ELSE let
                /\ window' = [t \in DOMAIN window' |-> window'[t]]
                /\ \A t \in DOMAIN window' \ {s} : t \in DOMAIN window /\ window'[t] = window[t]
                /\ \A t \in DOMAIN window \ DOMAIN window' : ~Active(window[t])
<1> DEFINE table == IF Cardinality(DOMAIN window) > SweepOver THEN Swept ELSE window
           w == Opened(table, s)
<1>1. /\ window' = [t \in DOMAIN table \cup {s} |->
                     IF t = s THEN [w EXCEPT !.count = @ + 1] ELSE table[t]]
      /\ let' = IF LetsIn(w) THEN [let EXCEPT ![s][clock] = @ + 1] ELSE let
  BY DEF Allow
<1>2. /\ DOMAIN table \subseteq DOMAIN window
      /\ \A t \in DOMAIN table : table[t] = window[t]
      /\ \A t \in DOMAIN window \ DOMAIN table : ~Active(window[t])
  <2>1. CASE table = window BY <2>1
  <2>2. CASE table = Swept
    <3> HIDE DEF table
    <3> QED BY <2>2 DEF Swept
  <2> QED BY <2>1, <2>2
<1> HIDE DEF table
<1>3. IF s \in DOMAIN window /\ Active(window[s]) THEN w = window[s]
      ELSE w = [since |-> clock, count |-> 0]
  BY <1>2 DEF Opened
<1> HIDE DEF w
<1>4. DOMAIN window' = DOMAIN table \cup {s} BY <1>1
<1>5. window'[s] = [w EXCEPT !.count = @ + 1] BY <1>1
<1>6. window' = [t \in DOMAIN window' |-> window'[t]] BY <1>1
<1>7. \A t \in DOMAIN window' \ {s} : t \in DOMAIN table /\ window'[t] = table[t] BY <1>1, <1>4
<1> QED BY <1>1, <1>2, <1>3, <1>4, <1>5, <1>6, <1>7

LEMMA AllowStep ==
  ASSUME RateInv, NEW s \in Sources, Allow(s)
  PROVE  RateInv'
<1>1. PICK w : /\ IF s \in DOMAIN window /\ Active(window[s]) THEN w = window[s]
                  ELSE w = [since |-> clock, count |-> 0]
               /\ s \in DOMAIN window' /\ window'[s] = [w EXCEPT !.count = @ + 1]
               /\ let' = IF LetsIn(w) THEN [let EXCEPT ![s][clock] = @ + 1] ELSE let
               /\ window' = [t \in DOMAIN window' |-> window'[t]]
               /\ \A t \in DOMAIN window' \ {s} : t \in DOMAIN window /\ window'[t] = window[t]
               /\ \A t \in DOMAIN window \ DOMAIN window' : ~Active(window[t])
  BY AllowIs
<1>2. limit # 0 /\ limit' = limit /\ clock' = clock BY DEF Allow
<1>3. RateTypes BY DEF RateInv
<1>4. RateTypes'
  <2>1. w \in [since : 0..clock, count : Nat] BY <1>1, <1>3, RateOK DEF RateTypes, Clock
  <2>2. window'[s] \in [since : 0..clock, count : Nat] BY <2>1, <1>1
  <2>3. \A t \in DOMAIN window' : t \in Sources /\ window'[t] \in [since : 0..clock, count : Nat]
    BY <1>1, <1>3, <2>2 DEF RateTypes
  <2>4. let' \in [Sources -> [Clock -> Nat]] BY <1>1, <1>3 DEF RateTypes
  <2> QED BY <1>1, <1>2, <1>3, <2>3, <2>4 DEF RateTypes
<1>5. ASSUME NEW t \in Sources PROVE Fair(Sums(let[t]), t)'
  <2>1. CASE t = s
    <3>1. \E g : g = Sums(let'[s]) OBVIOUS
    <3>2. \E f : f = Sums(let[s]) OBVIOUS
    <3>3. PICK g : g = Sums(let'[s]) BY <3>1
    <3>4. Fair(g, s)' BY <1>1, <1>2, <3>2, <3>3, CallStep
    <3> QED BY <2>1, <3>3, <3>4 DEF Fair, Rising, NoneYet, Twice, Tallied, Within, Fresh
  <2>2. CASE t # s
    <3>1. let'[t] = let[t] BY <2>2, <1>1, <1>3 DEF RateTypes
    <3>2. PICK f : f = Sums(let[t]) OBVIOUS
    <3>3. Fair(f, t)' BY <2>2, <1>1, <1>2, <3>2, OthersStay
    <3> QED BY <3>1, <3>2, <3>3 DEF Fair, Rising, NoneYet, Twice, Tallied, Within, Fresh
  <2> QED BY <2>1, <2>2
<1> QED BY <1>4, <1>5 DEF RateInv

LEMMA RateStep == RateInv /\ [RateNext]_rateVars => RateInv'
<1> SUFFICES ASSUME RateInv, [RateNext]_rateVars PROVE RateInv' OBVIOUS
<1>1. CASE TimePasses BY <1>1, TimeStep
<1>2. ASSUME NEW s \in Sources, Allow(s) PROVE RateInv' BY <1>2, AllowStep
<1>3. ASSUME NEW s \in Sources, AllowUnlimited(s) PROVE RateInv'
  <2>1. limit' = 0 BY <1>3 DEF AllowUnlimited
  <2>2. RateTypes' BY <1>3 DEF AllowUnlimited, RateInv, RateTypes
  <2> QED BY <2>1, <2>2 DEF RateInv
<1>4. CASE UNCHANGED rateVars
  <2>1. limit' = limit /\ clock' = clock /\ window' = window /\ let' = let BY <1>4 DEF rateVars
  <2>2. RateTypes' BY <2>1 DEF RateInv, RateTypes
  <2>3. ASSUME limit' # 0, NEW s \in Sources PROVE Fair(Sums(let[s]), s)'
    <3>1. PICK f : f = Sums(let[s]) OBVIOUS
    <3>2. Fair(f, s)' BY <2>1, <2>3, <3>1, OthersStay
    <3> QED BY <2>1, <3>1, <3>2 DEF Fair, Rising, NoneYet, Twice, Tallied, Within, Fresh
  <2> QED BY <2>2, <2>3 DEF RateInv
<1> QED BY <1>1, <1>2, <1>3, <1>4 DEF RateNext

\* A source is let in at most twice the limit in the time of one window, and is turned
\* away only when the limit was let in during that time (RateLimiter::allow), for every
\* limit, length of window and size of table.
THEOREM LimitHolds == RateSpec => LimitKept
<1>1. RateInv => AtMostTwice
  <2> SUFFICES ASSUME RateInv, limit # 0, NEW s \in Sources, NEW from \in Clock,
                      NEW to \in from..MaxClock, to < from + Window
               PROVE  LetInDuring(s, from, to) <= 2 * limit
    BY DEF AtMostTwice
  <2> DEFINE f == Sums(let[s])
  <2>1. Twice(f) BY DEF RateInv, Fair
  <2>2. from \in Moments /\ to + 1 \in Moments BY RateOK DEF Moments, Clock
  <2>3. f[to + 1] = LetInBefore(let[s], to + 1) /\ f[from] = LetInBefore(let[s], from)
    BY <2>2 DEF Sums
  <2> HIDE DEF f
  <2> QED BY <2>1, <2>3 DEF Twice, LetInDuring
<1> DEFINE Refusal(s) ==
      (s \in DOMAIN window => window'[s] # window[s]) /\ let' = let =>
        \E t \in 0..clock : t + Window > clock /\ LetInDuring(s, t, clock) >= limit
<1>2. ASSUME RateInv, [RateNext]_rateVars
      PROVE  [\A s \in DOMAIN window' : Refusal(s)]_rateVars
  <2> SUFFICES ASSUME RateNext, NEW s \in DOMAIN window', let' = let,
                      s \in DOMAIN window => window'[s] # window[s]
               PROVE  \E t \in 0..clock : t + Window > clock /\ LetInDuring(s, t, clock) >= limit
    BY <1>2
  <2>1. PICK c \in Sources : Allow(c)
    BY DEF RateNext, TimePasses, AllowUnlimited
  <2>2. PICK w : /\ IF c \in DOMAIN window /\ Active(window[c]) THEN w = window[c]
                    ELSE w = [since |-> clock, count |-> 0]
                 /\ let' = IF LetsIn(w) THEN [let EXCEPT ![c][clock] = @ + 1] ELSE let
                 /\ \A t \in DOMAIN window' \ {c} : t \in DOMAIN window /\ window'[t] = window[t]
    BY <1>2, <2>1, AllowIs
  <2>3. s = c BY <2>2
  <2>4. ~LetsIn(w)
    <3> SUFFICES ASSUME LetsIn(w) PROVE FALSE OBVIOUS
    <3>1. let \in [Sources -> [Clock -> Nat]] /\ clock \in Clock BY <1>2 DEF RateInv, RateTypes
    <3>2. let'[c][clock] = let[c][clock] + 1 BY <2>2, <3>1
    <3>3. let[c][clock] \in Nat BY <3>1
    <3> QED BY <3>2, <3>3
  <2>5. limit \in Nat /\ limit # 0 /\ clock \in Clock /\ clock \in Nat
    BY <1>2, <2>1, RateOK DEF RateInv, RateTypes, Allow, Clock
  <2>6. c \in DOMAIN window /\ Active(window[c]) /\ w = window[c]
    BY <2>2, <2>4, <2>5 DEF LetsIn
  <2>7. w.since \in 0..clock /\ w.count \in Nat BY <2>6, <1>2 DEF RateInv, RateTypes
  <2> DEFINE f == Sums(let[c])
  <2>8. Within(f, w) BY <2>5, <2>6, <1>2 DEF RateInv, Fair, Tallied
  <2>9. w.since \in Moments /\ clock + 1 \in Moments BY <2>5, <2>7, RateOK DEF Moments, Clock
  <2>10. f[clock + 1] - f[w.since] = LetInDuring(c, w.since, clock)
    BY <2>9 DEF Sums, LetInDuring
  <2> HIDE DEF f
  <2>11. limit <= w.count BY <2>4, <2>5, <2>7 DEF LetsIn
  <2>12. LetInDuring(c, w.since, clock) = limit BY <2>5, <2>7, <2>8, <2>10, <2>11 DEF Within
  <2>13. w.since + Window > clock BY <2>5, <2>6, <2>7, RateOK DEF Active
  <2> QED BY <2>3, <2>5, <2>7, <2>12, <2>13
<1>3. QED
  BY <1>1, <1>2, RateInitially, RateStep, PTL DEF RateSpec, LimitKept, RefusedOnlyOver

-----------------------------------------------------------------------------
(***************************************************************************)
(* Side by side, with Sessions as well: a part that rests does not change, *)
(* so what is proved of each (here and in SessionsProofs) holds among the  *)
(* others.                                                                 *)
(***************************************************************************)

\* Every behaviour of the parts together is one of each of them.
THEOREM ConnectionParts ==
  AllSpec => Spec /\ NoiseSpec /\ RateSpec /\ PeerSpec /\ EgressSpec
<1>1. AllInit => Init /\ NoiseInit /\ RateInit /\ PeerInit /\ EgressInit BY DEF AllInit
<1>2. [AllNext]_all =>
        /\ [Next]_vars /\ [NoiseNext]_noiseVars /\ [RateNext]_rateVars
        /\ [PeerNext]_peerVars /\ [EgressNext]_egressVars
  BY Zenon DEF AllNext, all
<1>3. QED BY <1>1, <1>2, PTL DEF AllSpec, Spec, NoiseSpec, RateSpec, PeerSpec, EgressSpec
=============================================================================
