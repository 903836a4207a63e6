------------------------------ MODULE Console -------------------------------
(***************************************************************************)
(* The console of the POSIX build, shared by threads that print, print in  *)
(* colour and read keys.  g_console_mutex guards the output, the terminal's *)
(* attributes and the input; the keys that were pressed wait in the         *)
(* terminal (kernel) and, once getchar() has read them, in the buffer of    *)
(* stdin.                                                                   *)
(*                                                                         *)
(* A call is the list of the steps it has to take.  Keys are pressed in    *)
(* the fixed order of Keys, over and over; an arrow key is three bytes.    *)
(* Ctrl+C, prompt() and the keys of Windows are left out.                  *)
(***************************************************************************)
EXTENDS Integers, Sequences

CONSTANTS
  Threads,
  Calls,      \* [Threads -> the calls that a thread makes]
  Keys,       \* the keys that the user presses, in order
  MaxAhead    \* bound: bytes typed and not read yet

Escape == "escape"
Bytes(key) == IF key = "up" THEN <<Escape, "[", "A">> ELSE <<key>>
None == "none"

Locked(steps) == <<"lock">> \o steps \o <<"unlock">>
GetChMutant == <<"raw", "wait", "wait", "cook">>  \* swallows a key
GetCh == <<"raw", "wait", "cook">>
Kbhit == <<"peek", "unpeek">>

\* get_key_nb() looks before it locks, and get_key() then looks again.
Program ==
  [print       |-> Locked(<<"write">>),
   color_print |-> Locked(<<"color">>) \o Locked(<<"write">>) \o Locked(<<"reset">>),
   kb_hit      |-> Locked(Kbhit),
   get_ch      |-> Locked(GetCh),
   get_ch_nb   |-> Locked(Kbhit \o GetCh),
   get_key     |-> Locked(Kbhit \o GetCh),
   get_key_nb  |-> Kbhit \o Locked(Kbhit \o GetCh)]

ConsoleAssumption ==
  /\ DOMAIN Calls = Threads /\ None \notin Threads
  /\ \A t \in Threads : Calls[t] \subseteq DOMAIN Program
  /\ Keys \in Seq(STRING) /\ Keys # <<>> /\ \A i \in DOMAIN Keys : Keys[i] # None
  /\ MaxAhead \in Nat

VARIABLES
  typing, reading,   \* the places in Keys of the next key typed and returned
  kernel, buffer,    \* bytes in the terminal and in stdin's buffer
  mode,              \* attributes of the terminal: "cooked" or "raw"
  color,             \* the colour text appears in
  owner,             \* of g_console_mutex
  call, todo,        \* per thread: the call under way, its steps
  count,             \* per thread: what kbhit() returned
  old, peekOld,      \* attributes saved: oldt of getch() and, static, of kbhit()
  key                \* per thread: the key the call will return

keyboard == <<typing, kernel>>
stdin    == <<reading, buffer>>
terminal == <<mode, old, peekOld>>
locals   == <<call, count, key>>
vars == <<keyboard, stdin, terminal, color, owner, locals, todo>>

Init ==
  /\ typing = 1 /\ reading = 1 /\ kernel = <<>> /\ buffer = <<>>
  /\ mode = "cooked" /\ color = "plain" /\ owner = None
  /\ call = [t \in Threads |-> None] /\ todo = [t \in Threads |-> <<>>]
  /\ count = [t \in Threads |-> 0] /\ key = [t \in Threads |-> None]
  /\ old = [t \in Threads |-> "cooked"] /\ peekOld = "cooked"

After(i) == (i % Len(Keys)) + 1

Type ==
  /\ Len(kernel) + Len(buffer) + Len(Bytes(Keys[typing])) <= MaxAhead
  /\ kernel' = kernel \o Bytes(Keys[typing])
  /\ typing' = After(typing)
  /\ UNCHANGED <<stdin, terminal, color, owner, locals, todo>>
-----------------------------------------------------------------------------
Start(t, c) ==
  /\ todo[t] = <<>>
  /\ call' = [call EXCEPT ![t] = c]
  /\ todo' = [todo EXCEPT ![t] = Program[c]]
  /\ count' = [count EXCEPT ![t] = 0]
  /\ key' = [key EXCEPT ![t] = None]
  /\ UNCHANGED <<keyboard, stdin, terminal, color, owner>>

At(t, step) == todo[t] # <<>> /\ Head(todo[t]) = step
Go(t)       == todo' = [todo EXCEPT ![t] = Tail(@)]

Free(t) == owner = None

Lock(t) ==
  /\ At(t, "lock") /\ Free(t)
  /\ owner' = t /\ Go(t)
  /\ UNCHANGED <<keyboard, stdin, terminal, color, locals>>

\* The call returns: what it returns is the next key that was typed.
Unlock(t) ==
  /\ At(t, "unlock")
  /\ owner' = None /\ Go(t)
  /\ reading' = IF key[t] # None THEN After(reading) ELSE reading
  /\ UNCHANGED <<keyboard, buffer, terminal, color, locals>>

Write(t) ==
  /\ At(t, "write") /\ Go(t)
  /\ UNCHANGED <<keyboard, stdin, terminal, color, owner, locals>>

Colors(t) ==
  /\ (At(t, "color") \/ At(t, "reset"))
  /\ color' = IF At(t, "color") THEN t ELSE "plain"
  /\ Go(t)
  /\ UNCHANGED <<keyboard, stdin, terminal, owner, locals>>

\* kbhit(): the bytes that stdin has buffered are not in the terminal.
Waiting == Len(kernel)

Peek(t) ==
  /\ At(t, "peek")
  /\ peekOld' = mode /\ mode' = "raw"
  /\ count' = [count EXCEPT ![t] = Waiting]
  /\ Go(t)
  /\ UNCHANGED <<keyboard, stdin, old, color, owner, call, key>>

Nothing(t) == count[t] = 0

\* Calls that do not block end here if there is no key.
Unpeek(t) ==
  /\ At(t, "unpeek")
  /\ mode' = peekOld
  /\ todo' = [todo EXCEPT ![t] =
       CASE Nothing(t) /\ call[t] = "get_ch_nb" -> <<"unlock">>
         [] Nothing(t) /\ call[t] = "get_key_nb" /\ owner # t -> <<>>
         [] OTHER -> Tail(@)]
  /\ UNCHANGED <<keyboard, stdin, old, peekOld, color, owner, locals>>

\* getch()
Raw(t) ==
  /\ At(t, "raw")
  /\ old' = [old EXCEPT ![t] = mode] /\ mode' = "raw"
  /\ Go(t)
  /\ UNCHANGED <<keyboard, stdin, peekOld, color, owner, locals>>

\* What a byte makes of the key so far: get_key() looks for an arrow only if
\* kbhit() saw three bytes.
Arrow(t, byte) ==
  /\ call[t] \in {"get_key", "get_key_nb"} /\ count[t] >= 3
  /\ \/ key[t] = None /\ byte = Escape
     \/ key[t] = Escape /\ byte = "["

Meaning(t, byte) ==
  CASE key[t] = None -> byte
    [] byte = "[" -> byte
    [] key[t] = "[" /\ byte = "A" -> "up"
    [] key[t] = "[" -> byte
    [] OTHER -> Escape

\* getchar(): a byte of the buffer, which takes all there is from the terminal.
Wait(t) ==
  /\ At(t, "wait")
  /\ buffer # <<>> \/ (kernel # <<>> /\ mode = "raw")
  /\ LET bytes == IF buffer # <<>> THEN buffer ELSE kernel
         byte  == Head(bytes)
     IN /\ buffer' = Tail(bytes)
        /\ kernel' = IF buffer # <<>> THEN kernel ELSE <<>>
        /\ key' = [key EXCEPT ![t] = Meaning(t, byte)]
        /\ todo' = [todo EXCEPT ![t] = IF Arrow(t, byte) THEN <<"cook">> \o GetCh \o <<"unlock">>
                                       ELSE Tail(@)]
  /\ UNCHANGED <<typing, reading, terminal, color, owner, call, count>>

Cook(t) ==
  /\ At(t, "cook")
  /\ mode' = old[t]
  /\ Go(t)
  /\ UNCHANGED <<keyboard, stdin, old, peekOld, color, owner, locals>>

Step(t) ==
  \/ Unlock(t) \/ Write(t) \/ Colors(t)
  \/ Peek(t) \/ Unpeek(t) \/ Raw(t) \/ Wait(t) \/ Cook(t)

Next ==
  \/ Type
  \/ \E t \in Threads : Lock(t) \/ Step(t) \/ (\E c \in Calls[t] : Start(t, c))

\* Threads run, the mutex is given to one that goes on asking, and a user who is
\* waited for presses a key.
Fairness ==
  /\ WF_vars(Type)
  /\ \A t \in Threads : WF_vars(Step(t)) /\ SF_vars(Lock(t))

Spec     == Init /\ [][Next]_vars
LiveSpec == Spec /\ Fairness
-----------------------------------------------------------------------------
(* Properties *)

TypeOK ==
  /\ typing \in 1..Len(Keys) /\ reading \in 1..Len(Keys)
  /\ Len(kernel) + Len(buffer) <= MaxAhead
  /\ mode \in {"cooked", "raw"} /\ peekOld \in {"cooked", "raw"}
  /\ color \in Threads \cup {"plain"} /\ owner \in Threads \cup {None}
  /\ \A t \in Threads :
       /\ call[t] \in Calls[t] \cup {None}
       /\ count[t] \in 0..MaxAhead /\ old[t] \in {"cooked", "raw"}

\* When no call is under way the terminal echoes and edits lines as it did before:
\* getch() and kbhit() restore what they found (Console.cpp:264 and 286), in
\* whatever order threads do so
CookedAtRest == (\A t \in Threads : todo[t] = <<>>) => mode = "cooked"

\* "(non-blocking)" (Console.hpp:93): a call that returns 0 if no key was pressed
\* is never at getchar() without one.
NeverBlocks ==
  \A t \in Threads :
    call[t] \in {"get_ch_nb", "get_key_nb"} /\ At(t, "wait") => buffer # <<>> \/ kernel # <<>>

\* "Determines if keyboard has been hit" (Console.hpp:87): a key is there when
\* kbhit() finds one, and only then
HitIsSeen ==
  [][\A t \in Threads : Peek(t) => (count'[t] > 0 <=> buffer # <<>> \/ kernel # <<>>)]_vars

\* "Reads a key press and returns a key code" (Console.hpp:97): whoever reads, the
\* keys come as they were pressed, none twice, none lost and none in pieces
KeysArrive ==
  [][\A t \in Threads : Unlock(t) /\ key[t] # None => key[t] = Keys[reading]]_vars

\* "Print with color (thread-safe)" (Console.hpp:133): text appears in the colour
\* its thread has asked for
TextKeepsColor ==
  [][\A t \in Threads :
       Write(t) => color = IF call[t] = "color_print" THEN t ELSE "plain"]_vars

\* Whoever prints is done at some time, though it waits for a key that another
\* thread reads: the mutex is held while getchar() blocks.
PrintsReturn ==
  \A t \in {u \in Threads : "print" \in Calls[u]} :
    (call[t] = "print" /\ todo[t] # <<>>) ~> (todo[t] = <<>>)
=============================================================================
