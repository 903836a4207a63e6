-------------------------------- MODULE Host --------------------------------
(***************************************************************************)
(* What MEL wraps of its host and its network: the terminal (Console), the *)
(* armband's thread (MyoBand) and HTTP (HttpClient).  They share no state; *)
(* a behaviour is one of them, and one run explores all.                   *)
(***************************************************************************)
CONSTANTS
  Callers, Calls, Keys, MaxAhead,              \* of the terminal
  N, MaxSamples,                               \* of the armband
  Responses, MaxTokens, Answers, MaxRequests   \* of HTTP

VARIABLES
  subject,  \* which of the three moves
  \* of the terminal
  typing, reading, kernel, buffer, terminal, color, owner, call, todo, count, old,
  peekOld, key,
  \* of the armband
  enabled, object, thread, stop, io, samplesSent, samples, values, updating, inside, at,
  \* of the HTTP client and its server
  http, received, answer, server, pending, sent, requests

consoleVars  == <<typing, reading, kernel, buffer, terminal, color, owner, call, todo, count,
                  old, peekOld, key>>
bandVars     == <<enabled, object, thread, stop, io, samplesSent, samples, values, updating,
                  inside, at>>
httpVars     == <<http, received, answer, server, pending, sent, requests>>

Terminal == INSTANCE Console WITH Threads <- Callers, mode <- terminal
Band     == INSTANCE MyoBand WITH holder <- inside, sent <- samplesSent
Web      == INSTANCE HttpClient WITH Size <- MaxTokens, client <- http

ASSUME TerminalAssumption == Terminal!ConsoleAssumption
ASSUME BandAssumption     == Band!MyoAssumption
ASSUME WebAssumption      == Web!HttpClientAssumption

HostInit ==
  /\ subject \in {"console", "band", "http"}
  /\ Terminal!Init /\ Band!Init /\ Web!Init

HostNext ==
  \/ subject = "console" /\ Terminal!Next /\ UNCHANGED <<subject, bandVars, httpVars>>
  \/ subject = "band"    /\ Band!Next     /\ UNCHANGED <<subject, consoleVars, httpVars>>
  \/ subject = "http"    /\ Web!Next      /\ UNCHANGED <<subject, consoleVars, bandVars>>

HostSafety == HostInit /\ [][HostNext]_<<subject, consoleVars, bandVars, httpVars>>

\* Threads, callbacks and the user go on, as do the HTTP client's calls and its
\* server, as in the specifications of Console, MyoBand and HttpClient.
HostSpec ==
  /\ HostSafety
  /\ WF_consoleVars(subject = "console" /\ Terminal!Type)
  /\ \A t \in Callers :
       /\ WF_consoleVars(subject = "console" /\ Terminal!Step(t))
       /\ SF_consoleVars(subject = "console" /\ Terminal!Lock(t))
  /\ WF_bandVars(subject = "band" /\ (Band!CopyIn \/ Band!CalledBack))
  /\ SF_bandVars(subject = "band" /\ Band!IoEnds)
  /\ WF_bandVars(subject = "band" /\ Band!Join)
  /\ WF_httpVars(subject = "http" /\ Web!Send)
  /\ WF_httpVars(subject = "http" /\ Web!Receive)
  /\ WF_httpVars(subject = "http" /\ Web!Disconnect)
  /\ WF_httpVars(subject = "http" /\ Web!Take)
  /\ WF_httpVars(subject = "http" /\ Web!Serve)
  /\ WF_httpVars(subject = "http" /\ Web!CloseAll)
-----------------------------------------------------------------------------
(* Properties, of the modules they are stated in. *)

\* Whoever reads, keys come as they were pressed; a call that does not block never
\* waits, and the terminal is left as it was (Console).
TerminalShared ==
  [](Terminal!NeverBlocks /\ Terminal!CookedAtRest) /\ Terminal!KeysArrive

\* An update hands out one sample of the armband (MyoBand).
SamplesWhole == Band!OneSample

\* A response is what the server sent, however the stream was taken apart, and one
\* that was cut off is a beginning of it (HttpClient).
ResponsesAreSent == Web!Arrives /\ Web!OnlyContents

\* A print is done some time although another thread reads keys, the armband's
\* destructor returns from join(), and a request returns, answered or not, if its
\* server answers or closes.
CallsReturn == Terminal!PrintsReturn /\ Band!Destroyed /\ Web!Returns
=============================================================================
