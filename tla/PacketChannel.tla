--------------------------- MODULE PacketChannel ---------------------------
(***************************************************************************)
(* What TcpSocket promises of packets (TcpSocket.hpp:143-145): on each     *)
(* connection the packets received are the packets sent, in order, none    *)
(* corrupted, lost or duplicated.  TcpPackets implements this module.      *)
(***************************************************************************)
EXTENDS Naturals, Sequences

CONSTANTS Connections, Packets
VARIABLES sent, received   \* per connection, the packets so far
vars == <<sent, received>>

Init == /\ sent = [c \in Connections |-> <<>>]
        /\ received = [c \in Connections |-> <<>>]

Send(c, p) == /\ sent' = [sent EXCEPT ![c] = Append(@, p)]
              /\ UNCHANGED received

Receive(c) ==
  /\ Len(received[c]) < Len(sent[c])
  /\ received' = [received EXCEPT ![c] = Append(@, sent[c][Len(@) + 1])]
  /\ UNCHANGED sent

Next == \E c \in Connections : Receive(c) \/ \E p \in Packets : Send(c, p)

Spec == Init /\ [][Next]_vars
=============================================================================
