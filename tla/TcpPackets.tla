----------------------------- MODULE TcpPackets -----------------------------
(***************************************************************************)
(* Packets over one direction of TCP connections: TcpSocket::send(Packet&) *)
(* and receive(Packet&), connect, disconnect and TcpListener::accept, with *)
(* the sockets blocking or not.                                            *)
(*                                                                         *)
(* A client socket and a server socket, each used by one thread.  Either   *)
(* may be the receiver.  A call is a sequence of steps, one per ::send or  *)
(* ::recv it makes, since the other side and the network act in between.   *)
(* The kernel's half (::connect, ::accept, ::send, ::recv) is external.    *)
(*                                                                         *)
(* A byte is the frame it belongs to and its place there: the first        *)
(* HeaderBytes carry the size (uint32, 4 in the code), the rest the data.  *)
(***************************************************************************)
EXTENDS SequencesExt

CONSTANTS HeaderBytes,    \* sizeof(uint32)
          Sizes,          \* sizes of the packets' data
          ChunkBytes,     \* sizeof(buffer) in receive(Packet&), 1024
          WireBytes,      \* what the kernel buffers between the sockets
          MaxPackets,     \* bound: packets the program builds
          MaxConnections, \* bound: connections made
          SocketReused    \* accept() is given a socket used before

ASSUME Assumptions ==
       /\ HeaderBytes \in Nat \ {0} /\ ChunkBytes \in Nat \ {0}
       /\ WireBytes \in Nat \ {0}
       /\ MaxPackets \in Nat /\ MaxConnections \in Nat
       /\ Sizes \subseteq Nat
       /\ SocketReused \in BOOLEAN

VARIABLES
  receiver,   \* which side receives, fixed for a behaviour
  blocking,   \* Socket::is_blocking_
  listening,  \* the TcpListener listens
  backlog,    \* connections made, not yet accepted
  made,       \* number of connections made
  at,         \* the connection a side's socket_ holds, 0 for none
  shut,       \* sides that closed a connection
  broken,     \* connections reset by the network
  wire,       \* bytes written to a connection, not yet read
  inCall,     \* the side is inside send(Packet&) or receive(Packet&)
  built,      \* number of packets the program built
  packet,     \* the sender's packet and its send_pos_
  written,    \* send(): the local `sent`
  status,     \* what the last send on this connection returned
  pending,    \* pending_packet_ of the receiver
  sent,       \* history: packets whose send returned Done
  received    \* history: packets receive() returned

network == <<receiver, listening, backlog, made, at, shut, broken>>
sending == <<built, packet, written, status, sent>>
vars == <<network, blocking, wire, inCall, sending, pending, received>>

Sides       == {"client", "server"}
Connections == 1..MaxConnections
Packets     == [id: 1..MaxPackets, size: Sizes]
Corrupt     == [id |-> 0, size |-> 0]    \* data no sender put together
NoPacket    == [of |-> Corrupt, pos |-> 0]
NoPending   == [header |-> <<>>, size |-> 0, data |-> <<>>]
Statuses    == {"Done", "Partial", "NotReady", "Disconnected", "Error"}

sender == CHOOSE s \in Sides : s # receiver
Peer(side) == CHOOSE s \in Sides : s # side

\* blockToSend: the bytes of a packet, size first
Frame(p) == [i \in 1..(HeaderBytes + p.size) |-> [packet |-> p, at |-> i]]
Bytes    == UNION {ToSet(Frame(p)) : p \in Packets}

\* send_pos_ and what a call has sent stay inside the frame, and pending_packet_
\* inside the header and the size it announced.
TypeOK ==
  /\ receiver \in Sides
  /\ blocking \in [Sides -> BOOLEAN] /\ inCall \in [Sides -> BOOLEAN]
  /\ listening \in BOOLEAN
  /\ backlog \in Seq(1..made)
  /\ made \in 0..MaxConnections
  /\ at \in [Sides -> 0..made]
  /\ shut \in [Connections -> SUBSET Sides]
  /\ broken \subseteq 1..made
  /\ wire \in [Connections -> Seq(Bytes)]
  /\ \A c \in Connections : Len(wire[c]) <= WireBytes
  /\ built \in 0..MaxPackets
  /\ packet \in [of: Packets \cup {Corrupt}, pos: Nat]
  /\ written \in Nat
  /\ packet.of \in Packets =>
       packet.pos + written < HeaderBytes + packet.of.size
  /\ status \in Statuses
  /\ pending \in [header: Seq(Bytes), size: Sizes \cup {0}, data: Seq(Bytes)]
  /\ Len(pending.header) <= HeaderBytes /\ Len(pending.data) <= pending.size
  /\ sent \in [Connections -> Seq(Packets)]
  /\ received \in [Connections -> Seq(Packets \cup {Corrupt})]

Init ==
  /\ receiver \in Sides
  /\ blocking = [s \in Sides |-> TRUE] /\ inCall = [s \in Sides |-> FALSE]
  /\ listening = FALSE /\ backlog = <<>> /\ made = 0
  /\ at = [s \in Sides |-> 0]
  /\ shut = [c \in Connections |-> {}] /\ broken = {}
  /\ wire = [c \in Connections |-> <<>>]
  /\ built = 0 /\ packet = NoPacket /\ written = 0 /\ status = "Done"
  /\ pending = NoPending
  /\ sent = [c \in Connections |-> <<>>]
  /\ received = [c \in Connections |-> <<>>]
-----------------------------------------------------------------------------
(* Connections *)

\* Socket::close() of one side, which may hold no connection; the kernel
\* drops what a receiver has not read
Closes(side) ==
  IF at[side] = 0 THEN UNCHANGED <<shut, wire>>
  ELSE /\ shut' = [shut EXCEPT ![at[side]] = @ \cup {side}]
       /\ wire' = IF side = receiver THEN [wire EXCEPT ![at[side]] = <<>>]
                  ELSE wire

ForgetsMutant(side) == pending' = pending
\* TcpSocket::disconnect() also forgets the packet being received
Forgets(side) == pending' = IF side = receiver THEN NoPending ELSE pending

\* When `side` has a new connection, the program sends on it what it has not
\* begun to send; it gives up a packet left Partial (its send_pos_ stays)
NewConnection(side) ==
  /\ UNCHANGED <<built, written, sent>>
  /\ IF side # sender THEN UNCHANGED <<packet, status>>
     ELSE /\ status' = "Done"
          /\ packet' = IF packet.pos = 0 THEN packet ELSE NoPacket

\* TcpListener::listen(): closes, then binds and listens, which may fail
Listen(ok) ==
  /\ listening' = ok /\ backlog' = <<>>
  /\ broken' = broken \cup ToSet(backlog)
  /\ UNCHANGED <<receiver, made, at, shut>>
  /\ UNCHANGED <<blocking, wire, inCall, sending, pending, received>>

\* TcpSocket::connect(): disconnect(), create(), ::connect()
Connect(ok) ==
  /\ ~inCall["client"]
  /\ ok => listening /\ made < MaxConnections
  /\ Forgets("client")
  /\ Closes("client")
  /\ IF ok THEN /\ made' = made + 1
                /\ at' = [at EXCEPT !["client"] = made + 1]
                /\ backlog' = Append(backlog, made + 1)
     ELSE /\ at' = [at EXCEPT !["client"] = 0]
          /\ UNCHANGED <<made, backlog>>
  /\ NewConnection("client")
  /\ UNCHANGED <<receiver, listening, broken>>
  /\ UNCHANGED <<blocking, inCall, received>>

\* TcpSocket::disconnect(); also a socket destroyed and another constructed
Disconnect(side) ==
  /\ ~inCall[side] /\ at[side] # 0
  /\ Forgets(side)
  /\ Closes(side)
  /\ at' = [at EXCEPT ![side] = 0]
  /\ UNCHANGED <<receiver, listening, backlog, made, broken>>
  /\ UNCHANGED <<blocking, inCall, sending, received>>

\* TcpListener::accept(): close() and create(remote) of the socket it is
\* given, a new one unless SocketReused
Accept ==
  /\ ~inCall["server"] /\ listening /\ backlog # <<>>
  /\ Closes("server")
  /\ at' = [at EXCEPT !["server"] = Head(backlog)]
  /\ backlog' = Tail(backlog)
  /\ pending' = IF receiver = "server" /\ ~SocketReused
                  THEN NoPending ELSE pending
  /\ NewConnection("server")
  /\ UNCHANGED <<receiver, listening, made, broken>>
  /\ UNCHANGED <<blocking, inCall, received>>

SetBlocking(side) ==
  /\ ~inCall[side]
  /\ blocking' = [blocking EXCEPT ![side] = ~@]
  /\ UNCHANGED <<network, wire, inCall, sending, pending, received>>

\* External: the connection is reset; the receiver may still hold a part of
\* what was on its way
Breaks(c) ==
  /\ c \in (1..made \ broken) \ {d \in Connections : shut[d] = Sides}
  /\ broken' = broken \cup {c}
  /\ \E k \in 0..Len(wire[c]) :
       wire' = [wire EXCEPT ![c] = SubSeq(@, 1, k)]
  /\ UNCHANGED <<receiver, listening, backlog, made, at, shut>>
  /\ UNCHANGED <<blocking, inCall, sending, pending, received>>
-----------------------------------------------------------------------------
(* send(Packet&) *)

\* A program gives up a connection on which send returned an error; after
\* Partial and NotReady it calls again with the same packet, and after Done
\* with a new one
Sendable == status \in {"Done", "Partial", "NotReady"}

StartSend(n) ==
  /\ ~inCall[sender] /\ at[sender] # 0 /\ Sendable
  /\ IF packet # NoPacket THEN UNCHANGED <<built, packet>>
     ELSE /\ built < MaxPackets /\ built' = built + 1
          /\ packet' = [of |-> [id |-> built + 1, size |-> n], pos |-> 0]
  /\ inCall' = [inCall EXCEPT ![sender] = TRUE] /\ written' = 0
  /\ UNCHANGED <<network, blocking, wire, status, sent, pending, received>>

SendReturns(s) == /\ status' = s /\ written' = 0
                  /\ inCall' = [inCall EXCEPT ![sender] = FALSE]

SendPosMutant(s, n) == IF s = "Partial" THEN n ELSE packet.pos
\* send_pos_ after a call that wrote n bytes and returned s
SendPos(s, n) == CASE s = "Partial" -> packet.pos + n
                   [] s = "Done" -> 0
                   [] OTHER -> packet.pos

\* One ::send() of the loop that took k bytes; Done after the last
SendBytes(k) ==
  LET c == at[sender]  first == packet.pos + written + 1
      frame == Frame(packet.of)
  IN /\ inCall[sender] /\ c \notin broken
     /\ Len(wire[c]) + k <= WireBytes /\ first + k - 1 <= Len(frame)
     /\ wire' = IF receiver \in shut[c] THEN wire    \* nobody will read it
                ELSE [wire EXCEPT ![c] =
                        @ \o SubSeq(frame, first, first + k - 1)]
     /\ IF first + k - 1 = Len(frame)
          THEN /\ sent' = [sent EXCEPT ![c] = Append(@, packet.of)]
               /\ SendReturns("Done") /\ packet' = NoPacket
          ELSE /\ written' = written + k
               /\ UNCHANGED <<sent, status, inCall, packet>>
     /\ UNCHANGED <<network, blocking, built, pending, received>>

\* ::send() failed: the kernel's buffer is full, the connection is gone, or
\* a signal interrupted a blocking call
SendFails(s) ==
  LET c == at[sender]
      full == Len(wire[c]) = WireBytes /\ c \notin broken
  IN /\ inCall[sender]
     /\ \/ s = "Partial"  /\ full /\ ~blocking[sender] /\ written > 0
        \/ s = "NotReady" /\ full /\ ~blocking[sender] /\ written = 0
        \/ s = "Error"    /\ full /\ blocking[sender]
        \/ s = "Disconnected" /\ (c \in broken \/ receiver \in shut[c])
     /\ packet' = [packet EXCEPT !.pos = SendPos(s, written)]
     /\ SendReturns(s)
     /\ UNCHANGED <<network, blocking, wire, built, sent, pending, received>>
-----------------------------------------------------------------------------
(* receive(Packet&) *)

StartReceive ==
  /\ ~inCall[receiver] /\ at[receiver] # 0
  /\ inCall' = [inCall EXCEPT ![receiver] = TRUE]
  /\ UNCHANGED <<network, blocking, wire, sending, pending, received>>

\* ntohl(Size): the size the header was made from, or any when its bytes are
\* not those of one header
SizesRead(header) ==
  LET p == Head(header).packet
  IN IF header = SubSeq(Frame(p), 1, HeaderBytes) THEN {p.size} ELSE Sizes

\* The packet whose data the receiver has put together
Assembled(p) ==
  LET of == IF p.data = <<>> THEN Last(p.header).packet
                             ELSE Head(p.data).packet
  IN IF p.data = SubSeq(Frame(of), HeaderBytes + 1, HeaderBytes + of.size)
       THEN of ELSE Corrupt

\* The number of bytes the next ::recv() asks for
Wanted == IF Len(pending.header) < HeaderBytes
            THEN HeaderBytes - Len(pending.header)
            ELSE Min({pending.size - Len(pending.data), ChunkBytes})

\* The loops of receive() go on until p is whole, then it is delivered
Progress(p) ==
  IF Len(p.header) = HeaderBytes /\ Len(p.data) >= p.size
    THEN /\ received' = [received EXCEPT ![at[receiver]] =
                           Append(@, Assembled(p))]
         /\ pending' = NoPending
         /\ inCall' = [inCall EXCEPT ![receiver] = FALSE]
    ELSE pending' = p /\ UNCHANGED <<received, inCall>>

\* One ::recv() that returned k bytes
RecvBytes(k) ==
  LET c == at[receiver]  got == SubSeq(wire[c], 1, k)
      header == pending.header \o got
  IN /\ inCall[receiver] /\ k <= Len(wire[c]) /\ k <= Wanted
     /\ wire' = [wire EXCEPT ![c] = SubSeq(@, k + 1, Len(@))]
     /\ IF Len(pending.header) = HeaderBytes
          THEN Progress([pending EXCEPT !.data = @ \o got])
          ELSE \E n \in IF Len(header) = HeaderBytes
                          THEN SizesRead(header) ELSE {0} :
                 Progress([pending EXCEPT !.header = header, !.size = n])
     /\ UNCHANGED <<network, blocking, sending>>

PendingAfterMutant(s) == IF s = "NotReady" THEN NoPending ELSE pending
\* ::recv() failed or found the connection closed: pending_packet_ is kept
PendingAfter(s) == pending

RecvFails(s) ==
  LET c == at[receiver]
  IN /\ inCall[receiver] /\ wire[c] = <<>>
     /\ \/ s = "NotReady" /\ ~blocking[receiver] /\ c \notin broken
        \/ s = "Error" /\ blocking[receiver] /\ c \notin broken
        \/ s = "Disconnected" /\ (c \in broken \/ sender \in shut[c])
     /\ pending' = PendingAfter(s)
     /\ inCall' = [inCall EXCEPT ![receiver] = FALSE]
     /\ UNCHANGED <<network, blocking, wire, sending, received>>
-----------------------------------------------------------------------------
Connecting == \/ \E ok \in BOOLEAN : Listen(ok) \/ Connect(ok)
              \/ \E side \in Sides : Disconnect(side) \/ SetBlocking(side)
              \/ Accept
              \/ \E c \in Connections : Breaks(c)
Sending    == \/ \E n \in Sizes : StartSend(n)
              \/ \E k \in 1..WireBytes : SendBytes(k)
              \/ \E s \in Statuses : SendFails(s)
RecvAny    == \E k \in 1..WireBytes : RecvBytes(k)
Receiving  == \/ StartReceive
              \/ RecvAny
              \/ \E s \in Statuses : RecvFails(s)

Next == Connecting \/ Sending \/ Receiving
Spec == Init /\ [][Next]_vars

\* A program that wants packets calls receive() again and again, and ::recv()
\* returns when there is something to read.  Senders promise nothing.
FairSpec == Spec /\ WF_vars(StartReceive) /\ WF_vars(RecvAny)
-----------------------------------------------------------------------------
(* Properties *)

\* What is on the wire and in pending_packet_ of connection c
InTransit(c) == (IF at[receiver] = c THEN pending.header \o pending.data
                                     ELSE <<>>) \o wire[c]
Frames(packets) == FlattenSeq([i \in DOMAIN packets |-> Frame(packets[i])])

\* While a sender has met no error, what its connection carries is exactly
\* the frames of the packets sent and the part of the next that send_pos_ and
\* the running call account for, each byte once, whatever Partial and
\* NotReady calls, reconnections and interrupted receives came before
ResumesWhereItStopped ==
  LET c == at[sender]
  IN c # 0 /\ Sendable /\ c \notin broken /\ receiver \notin shut[c] =>
       Frames(received[c]) \o InTransit(c) =
       Frames(sent[c]) \o
         (IF packet = NoPacket THEN <<>>
          ELSE SubSeq(Frame(packet.of), 1, packet.pos + written))

\* On every connection the packets received are the packets sent, in order,
\* none corrupted, lost between two others or duplicated
Channel == INSTANCE PacketChannel
ImplementsChannel == Channel!Spec

\* A packet sent whole is received, unless a side closes the connection, it
\* breaks, or the receiver never accepts it
Arrives ==
  \A c \in Connections : \A n \in 1..MaxPackets :
    (n <= Len(sent[c]) /\ at[receiver] = c)
      ~> (n <= Len(received[c]) \/ at[receiver] # c \/ c \in broken)

\* What TcpSocket.hpp:143-145 and TcpListener.hpp:86-89 promise of every
\* connection, also when accept() is given a socket used before: no packet
\* received is made of other bytes than those of one packet sent
Uncorrupted ==
  \A c \in Connections : \A n \in DOMAIN received[c] : received[c][n] # Corrupt
=============================================================================
