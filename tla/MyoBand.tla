------------------------------- MODULE MyoBand -------------------------------
(***************************************************************************)
(* The Myo armband: an input device whose io thread copies EMG samples     *)
(* into emgSamples while the program's thread copies them out in update(). *)
(* Each copies channel by channel.  The io thread is started by enable()   *)
(* and ends only with the object: disable() leaves it running.             *)
(*                                                                         *)
(* Thalmic's hub is external: it finds a band or not, and calls back from  *)
(* within hub.run() on the io thread.                                      *)
(***************************************************************************)
EXTENDS Integers

CONSTANTS N,           \* the channels (8)
          MaxSamples   \* bound on the samples the band sends

MyoAssumption == N \in Nat \ {0} /\ MaxSamples \in Nat

VARIABLES
  enabled,   \* Device::enabled_
  object,    \* "alive", "ending" in its destructor, "gone", or "aborted": the
             \* runtime has called std::terminate
  thread,    \* thread_ is joinable
  stop,      \* stop_
  io,        \* where the io thread is
  sent,      \* samples the band has sent; a sample is its number, 0 for none
  samples,   \* emgSamples
  values,    \* values_
  updating,  \* the program is in update()
  holder,    \* of mutex_
  at         \* the channel each thread copies next

device == <<enabled, object, thread, stop>>
vars   == <<device, io, sent, samples, values, updating, holder, at>>

Channels == 1..N
Threads  == {"io", "program"}

First == 1        \* the channel a copy starts with

\* What is copied are samples, by who is inside.
TypeOK ==
  /\ enabled \in BOOLEAN /\ object \in {"alive", "ending", "gone", "aborted"}
  /\ thread \in BOOLEAN /\ stop \in BOOLEAN
  /\ io \in {"none", "runs", "emg", "unpair"}
  /\ sent \in 0..MaxSamples
  /\ samples \in [Channels -> 0..sent] /\ values \in [Channels -> 0..sent]
  /\ updating \in BOOLEAN
  /\ holder \in Threads \cup {"none"}
  /\ at \in [Threads -> 1..N + 1]

\* Constructing the band connects nothing and starts nothing
Init ==
  /\ enabled = FALSE /\ object = "alive" /\ thread = FALSE /\ stop = FALSE
  /\ io = "none" /\ sent = 0
  /\ samples = [c \in Channels |-> 0] /\ values = [c \in Channels |-> 0]
  /\ updating = FALSE /\ holder = "none" /\ at = [t \in Threads |-> 1]
-----------------------------------------------------------------------------
(* The program's thread. *)

Idle == object = "alive" /\ ~updating

\* Device::enable().  waitForMyo() may find none; assigning to a thread object
\* that is joinable terminates the program
Enable(found) ==
  /\ Idle /\ ~enabled
  /\ IF ~found THEN UNCHANGED <<device, io>>
     ELSE IF thread THEN object' = "aborted" /\ UNCHANGED <<enabled, thread, stop, io>>
     ELSE /\ enabled' = TRUE /\ thread' = TRUE /\ io' = "runs"
          /\ UNCHANGED <<object, stop>>
  /\ UNCHANGED <<sent, samples, values, updating, holder, at>>

\* Device::disable(): on_disable() does nothing
Disable ==
  /\ Idle /\ enabled
  /\ enabled' = FALSE
  /\ UNCHANGED <<object, thread, stop, io, sent, samples, values, updating, holder, at>>

AvailableMutant == object = "alive"  \* update() takes no lock
Available == holder = "none"

\* update(), enabled or not: Lock lock(impl_->mutex_)
Update ==
  /\ Idle /\ Available
  /\ updating' = TRUE /\ holder' = "program" /\ at' = [at EXCEPT !["program"] = First]
  /\ UNCHANGED <<device, io, sent, samples, values>>

CopyOut ==
  /\ updating /\ at["program"] \in Channels
  /\ values' = [values EXCEPT ![at["program"]] = samples[at["program"]]]
  /\ at' = [at EXCEPT !["program"] = @ + 1]
  /\ UNCHANGED <<device, io, sent, samples, updating, holder>>

Updated ==
  /\ updating /\ at["program"] = N + 1
  /\ updating' = FALSE /\ holder' = IF holder = "program" THEN "none" ELSE holder
  /\ UNCHANGED <<device, io, sent, samples, values, at>>

\* ~MyoBand, ~Impl: stop_ is set; join() of no thread throws out of the
\* destructor, which terminates the program
Destroy ==
  /\ Idle
  /\ stop' = TRUE
  /\ object' = IF thread THEN "ending" ELSE "aborted"
  /\ UNCHANGED <<enabled, thread, io, sent, samples, values, updating, holder, at>>

\* join() returns
Join ==
  /\ object = "ending" /\ io = "none"
  /\ object' = "gone" /\ thread' = FALSE
  /\ UNCHANGED <<enabled, stop, io, sent, samples, values, updating, holder, at>>
-----------------------------------------------------------------------------
(* The io thread: while (!stop_) hub.run(50 ms). *)

Running == io # "none" /\ object # "aborted"

Stops == stop

\* hub.run() calls onEmgData, which takes the mutex; the band goes on sending
OnEmgData ==
  /\ Running /\ io = "runs" /\ holder = "none" /\ sent < MaxSamples
  /\ io' = "emg" /\ holder' = "io" /\ sent' = sent + 1
  /\ at' = [at EXCEPT !["io"] = First]
  /\ UNCHANGED <<device, samples, values, updating>>

\* ... or onUnpair, which does not
OnUnpair ==
  /\ Running /\ io = "runs"
  /\ io' = "unpair" /\ at' = [at EXCEPT !["io"] = First]
  /\ UNCHANGED <<device, sent, samples, values, updating, holder>>

CopyIn ==
  /\ Running /\ io \in {"emg", "unpair"} /\ at["io"] \in Channels
  /\ samples' = [samples EXCEPT ![at["io"]] = IF io = "emg" THEN sent ELSE 0]
  /\ at' = [at EXCEPT !["io"] = @ + 1]
  /\ UNCHANGED <<device, io, sent, values, updating, holder>>

CalledBack ==
  /\ Running /\ at["io"] = N + 1 /\ io \in {"emg", "unpair"}
  /\ io' = "runs" /\ holder' = IF io = "emg" THEN "none" ELSE holder
  /\ UNCHANGED <<device, sent, samples, values, updating, at>>

IoEnds ==
  /\ Running /\ io = "runs" /\ Stops
  /\ io' = "none"
  /\ UNCHANGED <<device, sent, samples, values, updating, holder, at>>
-----------------------------------------------------------------------------
Next ==
  \/ \E found \in BOOLEAN : Enable(found)
  \/ Disable \/ Update \/ CopyOut \/ Updated \/ Destroy \/ Join
  \/ OnEmgData \/ OnUnpair \/ CopyIn \/ CalledBack \/ IoEnds

Spec == Init /\ [][Next]_vars

\* Callbacks return, hub.run() does after 50 ms whatever it called, and join()
\* once the thread has ended
LiveSpec == Spec /\ WF_vars(CopyIn \/ CalledBack) /\ SF_vars(IoEnds) /\ WF_vars(Join)
-----------------------------------------------------------------------------
(* Properties *)

\* An update() hands out one sample of the band, never a mixture of two; what
\* unpairing has cleared may be missing from it, because that takes no lock
OneSample ==
  ~updating => \A c, d \in Channels : values[c] = 0 \/ values[d] = 0 \/ values[c] = values[d]

\* A destructor that waits for the io thread is done some time
Destroyed == object = "ending" ~> object = "gone"

\* "Enables the Device and returns TRUE if successful, FALSE otherwise."
\* (Device.hpp:49): enabling a band never ends the program
EnableReturns == [][\A found \in BOOLEAN : Enable(found) => object' = "alive"]_vars
=============================================================================
