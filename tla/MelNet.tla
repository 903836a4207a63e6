------------------------------- MODULE MelNet -------------------------------
(***************************************************************************)
(* Two hosts that use MelNet the way the examples do.  The feeder runs     *)
(* ex_melscope's loop: it evaluates its data, asks check_request() and     *)
(* answers with send_data(); its socket does not block.  The client calls  *)
(* request() and a blocking receive_data() in turn, and may send data      *)
(* (commands) of its own in between.                                       *)
(*                                                                         *)
(* Under them is UDP: datagrams are whole, but may be lost, duplicated and *)
(* reordered; a blocking receive may come back with an error (a signal, a  *)
(* port unreachable), which receive_data() returns as empty data; a bind() *)
(* that fails is only logged, so the host then hears nothing; a process    *)
(* may die and start again.  Loss includes a sendto() that fails, because  *)
(* nobody looks at its status.                                             *)
(***************************************************************************)
EXTENDS Integers, Sequences, SequencesExt

CONSTANTS MaxRequests,  \* bound on the requests the client makes
          MaxFaults,    \* bound on the faults other than loss
          MaxQueue      \* bound on the datagrams under way to a host

MelNetAssumption ==
  MaxRequests \in Nat \ {0} /\ MaxFaults \in Nat /\ MaxQueue \in Nat \ {0}

Hosts == {"feeder", "client"}

\* A datagram's bytes say nothing of what they are; the kinds are ours.
Request    == [kind |-> "request"]
Command    == [kind |-> "command"]
Data(n)    == [kind |-> "data", sampled |-> n]

VARIABLES
  net,       \* the datagrams under way to a host or in its socket
  bound,     \* the socket of a host got its port
  sample,    \* the feeder's data: how many requests there were when taken
  fresh,     \* the feeder has evaluated its data in this iteration
  asked,     \* the requests the client has made
  waiting,   \* the client is in receive_data()
  lag,       \* history: how many requests old the last data received was
  answers,   \* history: the data the feeder has sent
  faults,    \* history: the faults so far, losses apart
  harmed     \* history: since the last request a datagram was lost, or a
             \* host does not hear

feeder == <<sample, fresh, answers>>
client == <<asked, waiting, lag>>
vars   == <<net, bound, feeder, client, faults, harmed>>

\* Requests and commands go to the feeder, data to the client.
TypeOK ==
  /\ net["feeder"] \in Seq({Request, Command})
  /\ net["client"] \in Seq({Data(n) : n \in 0..MaxRequests})
  /\ bound \in [Hosts -> BOOLEAN]
  /\ {fresh, waiting, harmed} \subseteq BOOLEAN
  /\ sample \in 0..asked /\ asked \in 0..MaxRequests /\ lag \in 0..MaxRequests
  /\ answers \in Nat /\ faults \in 0..MaxFaults

Init ==
  /\ net = [h \in Hosts |-> <<>>]
  /\ bound \in [Hosts -> BOOLEAN]  \* MelNet's constructor
  /\ sample = 0 /\ fresh = FALSE /\ answers = 0
  /\ asked = 0 /\ waiting = FALSE /\ lag = 0
  /\ faults = 0 /\ harmed = FALSE

-----------------------------------------------------------------------------
(* MelNet and UdpSocket. *)

Peer(h) == IF h = "feeder" THEN "client" ELSE "feeder"  \* remote_address_, remote_port_

\* What is under way in n once host h has sent d, and once h has received.
Sent(n, h, d)  == IF bound[Peer(h)] THEN [n EXCEPT ![Peer(h)] = Append(@, d)] ELSE n
Received(n, h) == [n EXCEPT ![h] = Tail(@)]

\* recvfrom() of host h would return Done.
Arrived(h) == bound[h] /\ net[h] # <<>>

IsRequestMutant(d) == TRUE  \* any message will do

IsRequest(d) == d = Request

-----------------------------------------------------------------------------
(* The feeder. *)

Evaluate ==
  /\ ~fresh
  /\ fresh' = TRUE /\ sample' = asked
  /\ UNCHANGED <<net, bound, answers, client, faults, harmed>>

CheckRequestMutant ==  \* empties the socket and looks at the last datagram
  /\ fresh /\ fresh' = FALSE
  /\ LET emptied == [net EXCEPT !["feeder"] = <<>>]
     IN  IF Arrived("feeder") /\ IsRequest(Last(net["feeder"]))
           THEN net' = Sent(emptied, "feeder", Data(sample)) /\ answers' = answers + 1
           ELSE net' = emptied /\ UNCHANGED answers
  /\ UNCHANGED <<bound, sample, client, faults, harmed>>

\* check_request() consumes a datagram of any kind; send_data() if it asked.
CheckRequest ==
  /\ fresh /\ fresh' = FALSE
  /\ \/ /\ ~Arrived("feeder")
        /\ UNCHANGED <<net, answers>>
     \/ /\ Arrived("feeder") /\ IsRequest(Head(net["feeder"]))
        /\ net' = Sent(Received(net, "feeder"), "feeder", Data(sample))
        /\ answers' = answers + 1
     \/ /\ Arrived("feeder") /\ ~IsRequest(Head(net["feeder"]))
        /\ net' = Received(net, "feeder")
        /\ UNCHANGED answers
  /\ UNCHANGED <<bound, sample, client, faults, harmed>>

-----------------------------------------------------------------------------
(* The client. *)

\* request(), then receive_data() is called.
Ask ==
  /\ ~waiting /\ asked < MaxRequests /\ Len(net["feeder"]) < MaxQueue
  /\ net' = Sent(net, "client", Request)
  /\ asked' = asked + 1 /\ waiting' = TRUE
  /\ harmed' = (FALSE \in {bound[h] : h \in Hosts})
  /\ UNCHANGED <<bound, feeder, lag, faults>>

Order ==
  /\ ~waiting /\ Len(net["feeder"]) < MaxQueue
  /\ net' = Sent(net, "client", Command)
  /\ UNCHANGED <<bound, feeder, client, faults, harmed>>

\* receive_data() returns with what arrived.
ReceiveData ==
  /\ waiting /\ Arrived("client")
  /\ waiting' = FALSE
  /\ lag' = asked - Head(net["client"]).sampled
  /\ net' = Received(net, "client")
  /\ UNCHANGED <<bound, feeder, asked, faults, harmed>>

-----------------------------------------------------------------------------
(* The faults. *)

Fault == faults < MaxFaults /\ faults' = faults + 1

\* receive_data() returns empty with an error, before the answer.
ReceiveFails ==
  /\ waiting /\ Fault
  /\ waiting' = FALSE
  /\ UNCHANGED <<net, bound, feeder, asked, lag, harmed>>

Lose(h, i) ==
  /\ i \in DOMAIN net[h]
  /\ net' = [net EXCEPT ![h] = RemoveAt(@, i)]
  /\ harmed' = TRUE
  /\ UNCHANGED <<bound, feeder, client, faults>>

Duplicate(h, i) ==
  /\ Fault /\ i \in DOMAIN net[h] /\ Len(net[h]) < MaxQueue
  /\ net' = [net EXCEPT ![h] = InsertAt(@, i, @[i])]
  /\ UNCHANGED <<bound, feeder, client, harmed>>

\* A datagram overtakes the one before it.
Overtake(h, i) ==
  /\ Fault /\ i \in DOMAIN net[h] \ {1}
  /\ net' = [net EXCEPT ![h] = [@ EXCEPT ![i] = net[h][i - 1], ![i - 1] = net[h][i]]]
  /\ UNCHANGED <<bound, feeder, client, harmed>>

\* A host's process ends and starts again: what its socket held is gone, what
\* the network holds arrives, unless the port is still taken.
Restart(h, ok) ==
  /\ Fault
  /\ \E k \in 0..Len(net[h]) :
       net' = [net EXCEPT ![h] = IF ok THEN SubSeq(@, k + 1, Len(@)) ELSE <<>>]
  /\ bound' = [bound EXCEPT ![h] = ok]
  /\ fresh' = (fresh /\ h # "feeder")
  /\ waiting' = (waiting /\ h # "client")
  /\ harmed' = TRUE
  /\ UNCHANGED <<sample, answers, asked, lag>>

-----------------------------------------------------------------------------
Faulty ==
  \/ ReceiveFails
  \/ \E h \in Hosts : \/ \E i \in 1..MaxQueue : Lose(h, i) \/ Duplicate(h, i) \/ Overtake(h, i)
                      \/ \E ok \in BOOLEAN : Restart(h, ok)

Next == Evaluate \/ CheckRequest \/ Ask \/ Order \/ ReceiveData \/ Faulty

\* The feeder's loop never ends, and a blocking receive returns what is there.
Spec == Init /\ [][Next]_vars /\ WF_vars(Evaluate \/ CheckRequest) /\ WF_vars(ReceiveData)

-----------------------------------------------------------------------------
(* What must hold. *)

\* Data received is no older than the iteration of the feeder's loop in which
\* the request came, and one request more for every fault there was: an early
\* return, a duplicate or a restart puts the client behind, and it stays behind
\* because nothing in a datagram tells which request it answers.
LagIsBounded == lag <= faults + 1

\* A client with a request out gets data, unless a datagram was lost or a host
\* does not hear: duplicates, reordering and commands ahead do not keep it
\* waiting.  (After a loss the blocking receive_data() may wait for ever.)
AnsweredUnlessLost == (waiting /\ ~harmed) ~> (~waiting \/ harmed)
=============================================================================
