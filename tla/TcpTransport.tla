----------------------------- MODULE TcpTransport -----------------------------
(***************************************************************************)
(* KV transfer over a socket, dispec/transport/tcp.py: a message is its    *)
(* length in a fixed header and then its bytes; the receiver reads until   *)
(* it has as many bytes as it asked for.  The socket delivers bytes in     *)
(* order, in pieces of any size, and either end may close it.              *)
(*                                                                         *)
(* Abstracted: a byte is the message it belongs to and its index; index 1  *)
(* to HeaderLen is the header, which tells the length of the body.         *)
(***************************************************************************)
EXTENDS Integers, Sequences, SequencesExt

CONSTANTS
  Messages,     \* bound: messages 1 .. n are sent in this order
  BodyLen(_),   \* len(data) of a message
  HeaderLen,    \* 8, struct "!Q"
  MaxRecv       \* 1 << 20, the most one recv call asks for

ASSUME FramingAssumption ==
  /\ HeaderLen \in Nat \ {0} /\ MaxRecv \in Nat \ {0}
  /\ \A i \in Messages : BodyLen(i) \in Nat

VARIABLES
  sent,       \* messages handed to send() so far
  unsent,     \* bytes sendall has not given to the socket yet
  wire,       \* bytes under way
  closed,     \* the sender closed or died
  want,       \* n of the current _recv_n
  buf,        \* its buffer
  part,       \* "header", "body" or "failed"
  received    \* the messages recv() returned, as the bytes of their bodies

tcpVars == <<sent, unsent, wire, closed, want, buf, part, received>>
sender == <<sent, unsent, closed>>
receiver == <<want, buf, part, received>>

Header(i) == [k \in 1..HeaderLen |-> <<i, k>>]

Body(i) == [k \in 1..BodyLen(i) |-> <<i, HeaderLen + k>>]

\* The length a header tells is that of the message its bytes belong to.
LengthIn(bytes) == BodyLen(bytes[1][1])

-----------------------------------------------------------------------------
\* send(): the next message is serialised; two sendall calls follow.
Send ==
  /\ unsent = <<>> /\ ~closed /\ sent + 1 \in Messages
  /\ sent' = sent + 1
  /\ unsent' = Header(sent + 1) \o Body(sent + 1)
  /\ UNCHANGED <<closed, wire, receiver>>

\* Part of what sendall has left reaches the socket.
Transmit ==
  /\ unsent # <<>> /\ ~closed
  /\ \E n \in 1..Len(unsent) :
       /\ wire' = wire \o SubSeq(unsent, 1, n)
       /\ unsent' = SubSeq(unsent, n + 1, Len(unsent))
  /\ UNCHANGED <<sent, closed, receiver>>

\* The sender closes, or dies in the middle of a message.
CloseSender == ~closed /\ closed' = TRUE /\ UNCHANGED <<sent, unsent, wire, receiver>>

\* Mutant: each call asks for the full size again.
AskTooMuch == Min({want, MaxRecv})

Ask == Min({want - Len(buf), MaxRecv})

\* One sock.recv: at least one byte and at most what is asked for.
Receive ==
  /\ part # "failed" /\ Len(buf) < want /\ wire # <<>>
  /\ \E n \in 1..Min({Ask, Len(wire)}) :
       /\ buf' = buf \o SubSeq(wire, 1, n)
       /\ wire' = SubSeq(wire, n + 1, Len(wire))
  /\ UNCHANGED <<want, part, received, sender>>

\* Mutant: an empty chunk is read like any other.
ReceiveIgnoresClose ==
  /\ part # "failed" /\ Len(buf) < want /\ wire = <<>> /\ closed
  /\ UNCHANGED tcpVars

\* An empty chunk: "peer closed during recv".
ReceiveFails ==
  /\ part # "failed" /\ Len(buf) < want /\ wire = <<>> /\ closed
  /\ part' = "failed" /\ buf' = <<>>
  /\ UNCHANGED <<want, received, wire, sender>>

\* Mutant: the loop goes on until it has more than n bytes.
HeaderDoneLate ==
  /\ part = "header" /\ Len(buf) > want
  /\ want' = LengthIn(buf) /\ buf' = <<>> /\ part' = "body"
  /\ UNCHANGED <<received, wire, sender>>

HeaderDone ==
  /\ part = "header" /\ Len(buf) >= want
  /\ want' = LengthIn(buf) /\ buf' = <<>> /\ part' = "body"
  /\ UNCHANGED <<received, wire, sender>>

BodyDone ==
  /\ part = "body" /\ Len(buf) >= want
  /\ received' = Append(received, buf)
  /\ want' = HeaderLen /\ buf' = <<>> /\ part' = "header"
  /\ UNCHANGED <<wire, sender>>

-----------------------------------------------------------------------------
TcpInit ==
  /\ sent = 0 /\ unsent = <<>> /\ wire = <<>> /\ closed = FALSE
  /\ want = HeaderLen /\ buf = <<>> /\ part = "header" /\ received = <<>>

Receiving == Receive \/ ReceiveFails \/ HeaderDone \/ BodyDone

TcpNext == Send \/ Transmit \/ CloseSender \/ Receiving

TcpSpec == TcpInit /\ [][TcpNext]_tcpVars

\* sendall goes on and the receiver reads on.
TcpFairSpec == TcpSpec /\ WF_tcpVars(Transmit) /\ WF_tcpVars(Receiving)

-----------------------------------------------------------------------------
\* Properties.

TransportTypeOK ==
  /\ sent \in {0} \cup Messages /\ closed \in BOOLEAN /\ want \in Nat
  /\ part \in {"header", "body", "failed"}
  /\ Len(received) <= sent

\* recv() returns whole messages in the order they were sent, however the bytes
\* are cut and whenever the sender goes: never a part, a mixture or a repetition.
MessagesWhole == \A i \in DOMAIN received : received[i] = Body(i)

\* The bytes stay framed: what is buffered and what is under way continue the
\* stream exactly behind the last message received.
StreamAligned ==
  part # "failed" =>
    LET stream == FlattenSeq([i \in 1..sent |-> Header(i) \o Body(i)])
        behind == FlattenSeq([i \in 1..Len(received) |-> Header(i) \o received[i]])
        header == IF part = "body" THEN Header(Len(received) + 1) ELSE <<>>
    IN  behind \o header \o buf \o wire \o unsent = stream

\* The invariant of the framing: the receiver has whole messages, and stands in
\* the byte stream where it thinks it stands.
TransportInv == TransportTypeOK /\ MessagesWhole /\ StreamAligned

\* A message that was sent arrives, unless the sender went first.
EveryMessageArrives == \A i \in Messages : sent = i ~> Len(received) >= i \/ closed

\* A receiver never waits for a peer that is gone: the stream ends in an error,
\* not in a hang.
CloseEndsReceiver == closed ~> part = "failed"
==============================================================================
