------------------------------ MODULE Packets -------------------------------
(***************************************************************************)
(* Packets on their way: over a stream, between TcpSockets (TcpPackets),   *)
(* and as datagrams, between MelNets (MelNet).  They share no state; a     *)
(* behaviour is one of them.                                               *)
(***************************************************************************)
EXTENDS TcpPackets

CONSTANTS Subjects,                           \* which of the two are explored
          MaxRequests, MaxFaults, MaxQueue  \* of MelNet

VARIABLES
  subject,  \* which of the two moves
  \* of MelNet
  net, bound, sample, fresh, asked, waiting, lag, answers, faults, harmed

netVars == <<net, bound, sample, fresh, answers, asked, waiting, lag, faults, harmed>>

Net == INSTANCE MelNet

ASSUME SubjectsAssumption == Subjects \subseteq {"stream", "datagrams"}
ASSUME NetAssumption == Net!MelNetAssumption

PacketsInit ==
  /\ subject \in Subjects
  /\ Init /\ Net!Init
  /\ subject # "stream" => receiver = "client" /\ blocking["client"] /\ blocking["server"]
  /\ subject # "datagrams" => \A h \in Net!Hosts : bound[h]

PacketsNext ==
  \/ subject = "stream"    /\ Next /\ UNCHANGED <<subject, netVars>>
  \/ subject = "datagrams" /\ Net!Next /\ UNCHANGED <<subject, vars>>

\* Receivers and MelNet's hosts go on in their calls, as in the specifications of
\* TcpPackets and MelNet.
PacketsSpec ==
  /\ PacketsInit /\ [][PacketsNext]_<<subject, vars, netVars>>
  /\ WF_vars(subject = "stream" /\ StartReceive)
  /\ WF_vars(subject = "stream" /\ RecvAny)
  /\ WF_netVars(subject = "datagrams" /\ (Net!Evaluate \/ Net!CheckRequest))
  /\ WF_netVars(subject = "datagrams" /\ Net!ReceiveData)
-----------------------------------------------------------------------------
(* Properties, of the modules they are stated in. *)

\* Data received is no older than the faults there were, and one request (MelNet).
LagIsBounded == Net!LagIsBounded

\* A request that meets no harm is answered (MelNet).
AnsweredUnlessLost == Net!AnsweredUnlessLost
=============================================================================
