--------------------------- MODULE SocketSelector ---------------------------
(***************************************************************************)
(* SocketSelector (POSIX): a set of file descriptors handed to select(),   *)
(* beside the sockets of a program of one thread, which are opened, closed *)
(* and received from while the selector refers to them.                    *)
(*                                                                         *)
(* The selector keeps numbers, not sockets, and the kernel gives a closed  *)
(* descriptor's number to the next socket: what add() and wait() recorded  *)
(* of one connection may be asked of another.                              *)
(*                                                                         *)
(* With Careful = TRUE the program closes no socket the selector refers    *)
(* to; the class's documentation only says that none may be destroyed      *)
(* (SocketSelector.hpp:46-48).                                             *)
(***************************************************************************)
EXTENDS Integers, FiniteSets, FiniteSetsExt

CONSTANTS Sockets,    \* Socket objects
          MaxHandle,  \* bound: descriptors the process may have, from 1
          SetSize,    \* FD_SETSIZE: descriptors below it fit in an fd_set
          Careful

SelectorAssumption ==
  MaxHandle \in Nat /\ SetSize \in Nat /\ Careful \in BOOLEAN

VARIABLES
  handle,       \* Socket::socket_, or Invalid
  readable,     \* open descriptors with data, a connection or an end to read
  allSockets, socketsReady, maxSocket,
  added,        \* history: sockets added and not removed since, with their descriptors
  reported,     \* history: the last wait() returned TRUE
  received      \* history: sockets received from since

kernel   == <<handle, readable>>
selector == <<allSockets, socketsReady, maxSocket>>
history  == <<added, reported, received>>
vars     == <<kernel, selector, history>>

Handles == 1..MaxHandle
Invalid == -1
Open    == {handle[s] : s \in Sockets} \ {Invalid}

Fits(h) == h # Invalid /\ h < SetSize

Added(s) == \E h \in Handles : <<s, h>> \in added

\* Descriptors are used once, and the sets hold those that fit.
TypeOK ==
  /\ handle \in [Sockets -> Handles \cup {Invalid}]
  /\ \A s, t \in Sockets : handle[s] = handle[t] /\ handle[s] # Invalid => s = t
  /\ readable \subseteq Open
  /\ allSockets \subseteq 1..SetSize - 1 /\ socketsReady \subseteq allSockets
  /\ maxSocket \in {0} \cup Handles
  /\ added \subseteq Sockets \X Handles /\ reported \in BOOLEAN /\ received \subseteq Sockets

Init ==
  /\ handle = [s \in Sockets |-> Invalid] /\ readable = {}
  /\ allSockets = {} /\ socketsReady = {} /\ maxSocket = 0
  /\ added = {} /\ reported = FALSE /\ received = {}
-----------------------------------------------------------------------------
(* The sockets.  The kernel gives the lowest number that is free. *)

Free == Handles \ Open

\* socket() in Socket::create(), for connect(), bind() and listen()
Create(s) ==
  /\ handle[s] = Invalid /\ Free # {}
  /\ handle' = [handle EXCEPT ![s] = Min(Free)]
  /\ UNCHANGED <<readable, selector, history>>

\* accept() into a socket: the new connection has its number before the socket
\* closes the old one
Accept(s) ==
  /\ Free # {}
  /\ Careful => ~Added(s)
  /\ handle' = [handle EXCEPT ![s] = Min(Free)]
  /\ readable' = readable \ {handle[s]}
  /\ received' = received \ {s}
  /\ UNCHANGED <<selector, added, reported>>

\* close() and disconnect()
Close(s) ==
  /\ handle[s] # Invalid
  /\ Careful => ~Added(s)
  /\ handle' = [handle EXCEPT ![s] = Invalid]
  /\ readable' = readable \ {handle[s]}
  /\ received' = received \ {s}
  /\ UNCHANGED <<selector, added, reported>>

\* Something to read comes in
Arrives(h) ==
  /\ h \in Open \ readable
  /\ readable' = readable \cup {h}
  /\ UNCHANGED <<handle, selector, history>>

\* receive() or accept(), which takes all there is or leaves some
Receive(s) ==
  /\ handle[s] \in readable
  /\ \/ readable' = readable \ {handle[s]}
     \/ UNCHANGED readable
  /\ received' = received \cup {s}
  /\ UNCHANGED <<handle, selector, added, reported>>
-----------------------------------------------------------------------------
(* The selector. *)

\* Nothing is added of an invalid socket, or of one whose number does not fit
Add(s) ==
  /\ IF Fits(handle[s])
     THEN /\ allSockets' = allSockets \cup {handle[s]}
          /\ maxSocket' = Max({maxSocket, handle[s]})
          /\ added' = added \cup {<<s, handle[s]>>}
     ELSE UNCHANGED <<allSockets, maxSocket, added>>
  /\ UNCHANGED <<kernel, socketsReady, reported, received>>

ClearedMutant(ready, h) == ready  \* removed from allSockets only
Cleared(ready, h) == ready \ {h}  \* FD_CLR of socketsReady

Forgotten(h) == allSockets \ {h}  \* FD_CLR of allSockets

\* Nothing is removed of an invalid socket
Remove(s) ==
  /\ IF Fits(handle[s])
     THEN /\ allSockets' = Forgotten(handle[s])
          /\ socketsReady' = Cleared(socketsReady, handle[s])
     ELSE UNCHANGED <<allSockets, socketsReady>>
  /\ added' = {a \in added : a[1] # s}
  /\ UNCHANGED <<kernel, maxSocket, reported, received>>

Clear ==
  /\ allSockets' = {} /\ socketsReady' = {} /\ maxSocket' = 0
  /\ added' = {}
  /\ UNCHANGED <<kernel, reported, received>>

Watched == {h \in allSockets : h < maxSocket + 1}    \* select(maxSocket + 1, ...)

\* wait(): select() finds something to read, or times out, or is interrupted or
\* finds a descriptor nobody has open; then the sets are as they were passed
Finds ==
  /\ Watched \subseteq Open /\ Watched \cap readable # {}
  /\ socketsReady' = Watched \cap readable /\ reported' = TRUE

TimesOut ==
  /\ Watched \subseteq Open /\ Watched \cap readable = {}
  /\ socketsReady' = {} /\ reported' = FALSE

Fails == socketsReady' = allSockets /\ reported' = FALSE

Wait ==
  /\ Finds \/ TimesOut \/ Fails
  /\ received' = {}
  /\ UNCHANGED <<kernel, allSockets, maxSocket, added>>

\* is_ready()
IsReady(s) == Fits(handle[s]) /\ handle[s] \in socketsReady
-----------------------------------------------------------------------------
Next ==
  \/ \E s \in Sockets : Create(s) \/ Accept(s) \/ Close(s) \/ Receive(s) \/ Add(s) \/ Remove(s)
  \/ \E h \in Handles : Arrives(h)
  \/ Clear \/ Wait

Spec == Init /\ [][Next]_vars
-----------------------------------------------------------------------------
(* Properties *)

\* "If a socket is ready, a call to receive will never block because we know
\* that there is data available to read" (SocketSelector.hpp:93-95): after a
\* wait() that returned TRUE, until the socket is received from, and whatever
\* was opened, closed, added and removed in between
ReadyMeansData ==
  \A s \in Sockets : reported /\ IsReady(s) /\ s \notin received => handle[s] \in readable

\* "removes the reference that the selector has to it" (SocketSelector.hpp:59):
\* the selector refers to the sockets that were added and not removed, and to
\* none else
RefersToAdded == allSockets = {a[2] : a \in added}

\* A wait() reports nothing only if no socket added has anything to read, or if
\* it was interrupted
SilenceIsTrue ==
  [][Wait /\ ~Fails /\ ~reported' => \A a \in added : a[2] \notin readable]_vars
=============================================================================
