------------------------------- MODULE Timer -------------------------------
(***************************************************************************)
(* A mel::Timer and the loop that waits for it.  The clock is read at each *)
(* step; between two steps the thread may be preempted, and a sleep may    *)
(* take longer than asked.  Warnings about misses are left out.            *)
(***************************************************************************)
EXTENDS Integers

CONSTANTS
  Modes,     \* waiting modes: subset of {"Busy", "Sleep", "Hybrid"}
  Period,    \* period_
  MaxWork,   \* bound: the longest the loop works between two waits
  MaxDelay,  \* bound: the longest preemption at a step
  MaxLate,   \* bound: the longest a sleep takes too long
  MaxTicks,  \* bound: of ticks
  Restarts   \* bound: of calls of restart()

TimerAssumption ==
  /\ Modes \subseteq {"Busy", "Sleep", "Hybrid"} /\ Period \in Nat \ {0}
  /\ \A n \in {MaxWork, MaxDelay, MaxLate, MaxTicks, Restarts} : n \in Nat

VARIABLES
  mode, start, prev, ticks, misses, waited,  \* mode_, clock_.start_time_, prev_time_, ...
  remaining,  \* remaining_time of the wait() in progress
  pc,         \* where the thread is
  now,        \* the time
  restarts    \* calls of restart() so far

counts == <<ticks, misses, waited>>
vars == <<mode, start, prev, counts, remaining, pc, now, restarts>>

Delays == 0..MaxDelay

Init ==
  /\ mode \in Modes /\ start = 0 /\ prev \in Delays /\ now = prev
  /\ ticks = 0 /\ misses = 0 /\ waited = 0
  /\ remaining = 0 /\ pc = "work" /\ restarts = 0

\* The loop's own work.
Work ==
  /\ pc = "work" /\ ticks < MaxTicks
  /\ now' \in now..(now + MaxWork) /\ pc' = "wait"
  /\ UNCHANGED <<mode, start, prev, counts, remaining, restarts>>

Left == Period - (now - prev)

Waited == IF Left > 0 THEN waited + Left ELSE waited

\* wait(): what is left of the period, and whether it is over.
Wait ==
  /\ pc = "wait"
  /\ remaining' = Left
  /\ misses' = IF Left < 0 THEN misses + 1 ELSE misses
  /\ waited' = Waited
  /\ pc' = IF Left <= 0 THEN "save" ELSE IF mode = "Busy" THEN "busy" ELSE "sleep"
  /\ now' \in {now + d : d \in Delays}
  /\ UNCHANGED <<mode, start, prev, ticks, restarts>>

WaitBusy ==
  /\ pc = "busy"
  /\ now' \in {(IF remaining > 0 THEN now + remaining ELSE now) + d : d \in Delays}
  /\ pc' = "save"
  /\ UNCHANGED <<mode, start, prev, counts, remaining, restarts>>

AsleepMutant == (remaining * 9) \div 10  \* also without the busy rest
Asleep == IF mode = "Hybrid" THEN (remaining * 9) \div 10 ELSE remaining

WaitSleep ==
  /\ pc = "sleep"
  /\ now' \in {now + Asleep + late : late \in 0..MaxLate}
  /\ pc' = IF mode = "Hybrid" THEN "rest" ELSE "save"
  /\ UNCHANGED <<mode, start, prev, counts, remaining, restarts>>

\* Hybrid: the rest is measured again, and busy.
Rest ==
  /\ pc = "rest"
  /\ remaining' = Left /\ now' \in {now + d : d \in Delays} /\ pc' = "busy"
  /\ UNCHANGED <<mode, start, prev, counts, restarts>>

Saved == now

Save ==
  /\ pc = "save"
  /\ prev' = Saved /\ ticks' = ticks + 1
  /\ now' \in {now + d : d \in Delays} /\ pc' = "work"
  /\ UNCHANGED <<mode, start, misses, waited, remaining, restarts>>

\* restart(): prev_time_ first, the clock afterwards.
Kept == 0

Restart ==
  /\ pc = "work" /\ restarts < Restarts
  /\ ticks' = 0 /\ misses' = 0 /\ prev' = now /\ waited' = Kept
  /\ now' \in {now + d : d \in Delays} /\ pc' = "restart" /\ restarts' = restarts + 1
  /\ UNCHANGED <<mode, start, remaining>>

RestartClock ==
  /\ pc = "restart"
  /\ start' = now /\ pc' = "work"
  /\ UNCHANGED <<mode, prev, counts, remaining, now, restarts>>

Next == Work \/ Wait \/ WaitBusy \/ WaitSleep \/ Rest \/ Save \/ Restart \/ RestartClock

Spec == Init /\ [][Next]_vars
-----------------------------------------------------------------------------
(* Properties *)

TypeOK ==
  /\ mode \in Modes /\ remaining \in Int /\ restarts \in 0..Restarts
  /\ pc \in {"work", "wait", "busy", "sleep", "rest", "save", "restart"}
  /\ {start, prev, now, misses, waited} \subseteq Nat /\ ticks \in 0..MaxTicks

\* No wait() ends before a period has passed since the last one: a sleep cut in two,
\* a preemption between two readings of the clock and an overrun do not shorten it.
NeverEarly == [][ticks' > ticks => now - prev >= Period]_vars

\* The time waited is part of the time elapsed, also after restart(), which does
\* not set both clocks at once (get_wait_ratio() is at most 1).
WaitedWithin == pc = "work" => waited <= now - start

\* Time does not fall behind the ticks: get_elapsed_time() is at least
\* get_elapsed_time_ideal() (for a timer that is not restarted).
NotAhead == pc = "work" => ticks * Period <= now - start

\* A loop whose own work always fits in a period misses nothing, however late its
\* sleeps end: one late tick does not make the next one late.
NoMisses == misses = 0

\* "CPU based fixed rate waitable timer" (Timer.hpp:29): while no deadline is missed,
\* the ticks are behind their times by what delays one of them at most
FixedRate ==
  pc = "work" /\ misses = 0 => now - start <= ticks * Period + MaxWork + MaxLate + 5 * MaxDelay

\* "Get the number of times the Timer has missed a tick deadline" (Timer.hpp:74): a
\* wait() that ends after the period is over is a miss
LateIsMissed ==
  [][ticks' > ticks /\ now - prev > Period => misses > 0]_vars
=============================================================================
