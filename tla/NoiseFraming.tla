---------------------------- MODULE NoiseFraming -----------------------------
(***************************************************************************)
(* One connection below the requests: the handshake under its time limit,  *)
(* then messages of any length cut into frames.  A message is sent behind  *)
(* a length header, in chunks of at most MaxFrame bytes, one frame each;   *)
(* the agent collects frames until the announced length is there, answers, *)
(* and goes on.  Sockets hold a few frames per direction: a writer waits   *)
(* for the reader of the other side.                                       *)
(*                                                                         *)
(* A byte is known by its message and place; `says` is the length the      *)
(* header of its message announces.  Encryption is left out: frames are    *)
(* opened in the order they were sealed, and one that was tampered with    *)
(* counts as a connection that breaks.                                     *)
(***************************************************************************)
EXTENDS Naturals, Sequences

CONSTANTS
  Header,     \* bytes of the length header
  MaxFrame,   \* NOISE_MAX_FRAME
  MaxMsg,     \* NOISE_MAX_MSG
  Lengths,    \* lengths of requests and replies
  Says,       \* lengths announced by a client that frames differently
  Pipe,       \* frames the sockets hold per direction
  MaxAsked,   \* bound: requests sent
  MaxOdd      \* bound: frames of such a client

ASSUME FramingOK ==
  /\ Header \in Nat \ {0} /\ MaxFrame \in Nat \ {0} /\ MaxMsg \in Nat /\ Lengths \cup Says \subseteq Nat
  /\ Pipe \in Nat \ {0} /\ MaxAsked \in Nat /\ MaxOdd \in Nat

VARIABLES
  phase,    \* of the connection, at the agent
  client,   \* what kind of client it is
  toAgent,  \* frames on their way to the agent
  toClient, \* frames on their way to the client
  asking,   \* bytes of the request the client is still sending
  reply,    \* bytes of the reply the agent is still sending
  out,      \* bytes the agent has collected
  total,    \* announced length of the message it collects, or Unknown
  spun,     \* history: frames it has read for this message
  asked,    \* history: requests the client has sent, whole or in part
  heard,    \* history: messages the agent has taken out of the frames
  odd       \* frames sent that do not come from a request

wires == <<toAgent, toClient>>
received == <<out, total, spun, heard>>
asks == <<asking, asked, odd>>
noiseVars == <<phase, client, wires, reply, received, asks>>

Unknown == MaxMsg + 1
Clients == [knows : BOOLEAN,   \* the key of the handshake and the agent's identity
            reads : BOOLEAN,   \* it reads what it is sent
            odd : BOOLEAN]     \* its frames are not those of `send`
Message == [id : Nat, len : Lengths]
Byte(m, i) == [msg |-> m.id, at |-> i, says |-> m.len]
Encoded(m) == [i \in 1..(Header + m.len) |-> Byte(m, i)]
Body(m) == [i \in 1..m.len |-> Byte(m, Header + i)]
Least(a, b) == IF a < b THEN a ELSE b
Chunk(bytes) == SubSeq(bytes, 1, Least(MaxFrame, Len(bytes)))
AfterChunk(bytes) == SubSeq(bytes, Least(MaxFrame, Len(bytes)) + 1, Len(bytes))

Broken == phase' = "closed"

-----------------------------------------------------------------------------
\* accept

\* A first message sealed for another key, or unreadable: the connection is
\* closed without an answer.
Msg1(good) ==
  /\ phase = "msg1" /\ (good => client.knows)
  /\ phase' = IF good THEN "authorize" ELSE "closed"
  /\ UNCHANGED <<client, wires, reply, received, asks>>

\* authorize (module Sessions) turns the client away, or the second message goes
\* out and the connection is open.
Msg2(welcome) ==
  /\ phase = "authorize"
  /\ phase' = IF welcome THEN "open" ELSE "closed"
  /\ UNCHANGED <<client, wires, reply, received, asks>>

HandshakeTimesOut ==
  /\ phase \in {"msg1", "authorize"} /\ Broken
  /\ UNCHANGED <<client, wires, reply, received, asks>>

-----------------------------------------------------------------------------
\* recv

Receiving == phase = "open" /\ reply = <<>>

\* Mutant: empty frames are passed over.
EmptyPassedOver ==
  /\ Receiving /\ toAgent # <<>> /\ Head(toAgent) = <<>>
  /\ toAgent' = Tail(toAgent) /\ spun' = spun + 1
  /\ UNCHANGED <<phase, client, toClient, reply, out, total, heard, asks>>

\* A frame without plaintext ends the connection.
EmptyFrame ==
  /\ Receiving /\ toAgent # <<>> /\ Head(toAgent) = <<>> /\ Broken
  /\ UNCHANGED <<client, wires, reply, received, asks>>

\* What is there once the next frame is taken in, and where its message begins.
Gathered == out \o Head(toAgent)
Announced == IF total # Unknown THEN total ELSE Gathered[1].says
Content == IF total # Unknown THEN Gathered ELSE SubSeq(Gathered, Header + 1, Len(Gathered))
Readable == Receiving /\ toAgent # <<>> /\ Head(toAgent) # <<>>
Headed == total # Unknown \/ Len(Gathered) >= Header

\* Mutant: the announced length is not looked at.
FitsAlways == TRUE

Fits == Announced <= MaxMsg

\* The header itself is not there yet.
GatherHeader ==
  /\ Readable /\ ~Headed
  /\ out' = Gathered /\ spun' = spun + 1 /\ toAgent' = Tail(toAgent)
  /\ UNCHANGED <<phase, client, toClient, reply, total, heard, asks>>

\* More is announced than a message may have.
TooLong ==
  /\ Readable /\ Headed /\ ~Fits /\ Broken
  /\ UNCHANGED <<client, wires, reply, received, asks>>

Gather ==
  /\ Readable /\ Headed /\ Fits /\ Len(Content) < Announced
  /\ out' = Content /\ total' = Announced /\ spun' = spun + 1 /\ toAgent' = Tail(toAgent)
  /\ UNCHANGED <<phase, client, toClient, reply, heard, asks>>

\* Mutant: what is left of the last frame stays for the next message.
TakeKeeping(len) ==
  /\ Readable /\ Headed /\ Fits /\ Len(Content) >= Announced
  /\ heard' = Append(heard, SubSeq(Content, 1, Announced))
  /\ out' = SubSeq(Content, 1, Announced) /\ total' = Unknown /\ spun' = 0
  /\ toAgent' = Tail(toAgent) /\ reply' = Encoded([id |-> Len(heard'), len |-> len])
  /\ UNCHANGED <<phase, client, toClient, asks>>

\* The message is whole; the request is executed (module Sessions) and its reply
\* is there to be sent.
Take(len) ==
  /\ Readable /\ Headed /\ Fits /\ Len(Content) >= Announced
  /\ heard' = Append(heard, SubSeq(Content, 1, Announced))
  /\ out' = <<>> /\ total' = Unknown /\ spun' = 0
  /\ toAgent' = Tail(toAgent) /\ reply' = Encoded([id |-> Len(heard'), len |-> len])
  /\ UNCHANGED <<phase, client, toClient, asks>>

\* Mutant: no time limit while part of a message is there.
IdleTimesOutBetween ==
  /\ Receiving /\ out = <<>> /\ Broken
  /\ UNCHANGED <<client, wires, reply, received, asks>>

\* The idle limit runs while the agent waits for the rest of a message, too.
IdleTimesOut ==
  /\ Receiving /\ Broken
  /\ UNCHANGED <<client, wires, reply, received, asks>>

\* send: one frame; there is no time limit on a client that does not read.
SendFrame ==
  /\ phase = "open" /\ reply # <<>> /\ Len(toClient) < Pipe
  /\ toClient' = Append(toClient, Chunk(reply)) /\ reply' = AfterChunk(reply)
  /\ UNCHANGED <<phase, client, toAgent, received, asks>>

-----------------------------------------------------------------------------
\* The client, which pipelines as it likes

AskStart(len) ==
  /\ phase = "open" /\ ~client.odd /\ asking = <<>> /\ Len(asked) < MaxAsked
  /\ LET m == [id |-> Len(asked) + 1, len |-> len]
     IN asking' = Encoded(m) /\ asked' = Append(asked, m)
  /\ UNCHANGED <<phase, client, wires, reply, received, odd>>

AskFrame ==
  /\ phase = "open" /\ asking # <<>> /\ Len(toAgent) < Pipe
  /\ toAgent' = Append(toAgent, Chunk(asking)) /\ asking' = AfterChunk(asking)
  /\ UNCHANGED <<phase, client, toClient, reply, received, asked, odd>>

\* Another way of framing: empty frames, headers in pieces, frames that go on
\* past the end of a message.
OddFrame(n, says) ==
  /\ phase = "open" /\ client.odd /\ odd < MaxOdd /\ odd' = odd + 1 /\ Len(toAgent) < Pipe
  /\ toAgent' = Append(toAgent, [i \in 1..n |-> Byte([id |-> 0, len |-> says], i)])
  /\ UNCHANGED <<phase, client, toClient, reply, received, asking, asked>>

ClientReads ==
  /\ client.reads /\ toClient # <<>> /\ toClient' = Tail(toClient)
  /\ UNCHANGED <<phase, client, toAgent, reply, received, asks>>

\* The client leaves, or the connection breaks.
ConnectionBreaks ==
  /\ phase # "closed" /\ Broken
  /\ UNCHANGED <<client, wires, reply, received, asks>>

-----------------------------------------------------------------------------
NoiseInit ==
  /\ phase = "msg1" /\ client \in Clients
  /\ toAgent = <<>> /\ toClient = <<>> /\ asking = <<>> /\ reply = <<>>
  /\ out = <<>> /\ total = Unknown /\ spun = 0 /\ asked = <<>> /\ heard = <<>> /\ odd = 0

Recv == EmptyFrame \/ GatherHeader \/ TooLong \/ Gather \/ \E len \in Lengths : Take(len)
Ask == AskFrame \/ \E len \in Lengths : AskStart(len)

NoiseNext ==
  \/ \E yes \in BOOLEAN : Msg1(yes) \/ Msg2(yes)
  \/ HandshakeTimesOut \/ Recv \/ IdleTimesOut \/ SendFrame
  \/ Ask \/ ClientReads \/ ConnectionBreaks
  \/ \E n \in 0..MaxFrame, says \in Says : OddFrame(n, says)

NoiseSpec == NoiseInit /\ [][NoiseNext]_noiseVars

-----------------------------------------------------------------------------
\* Properties

\* Framing loses, joins and reorders nothing: what the agent takes for its n-th
\* message is the n-th request of the client, whole, however requests were cut
\* into frames and pipelined (NoiseConn::send, recv).
MessagesWhole ==
  ~client.odd =>
    /\ Len(heard) <= Len(asked)
    /\ \A n \in 1..Len(heard) : heard[n] = Body(asked[n])

\* Whatever lengths a client announces and however it cuts its frames, the agent
\* keeps less than a message of the limit while it waits for the next frame, and
\* every frame it reads moves it on, so that a bounded number of them ends in an
\* answer or in the end of the connection (NOISE_MAX_MSG, the empty frames).
BufferBounded ==
  /\ Len(out) < Header \/ Len(out) < MaxMsg
  /\ spun <= Len(out) + (IF total = Unknown THEN 0 ELSE Header)

\* A connection ends once its client goes quiet, in the middle of a handshake or
\* of a message too, provided that the client reads its replies.
QuietConnectionsEnd == client.reads => <>(phase = "closed")
==============================================================================
