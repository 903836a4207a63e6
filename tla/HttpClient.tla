----------------------------- MODULE HttpClient -----------------------------
(***************************************************************************)
(* A request over HTTP: the client connects, sends, collects what the      *)
(* server sends until the connection ends, and only then parses it.        *)
(*                                                                         *)
(* A response is a stream of tokens: names of fields and bytes of bodies,  *)
(* among them hexadecimal digits; "=" stands for the ": " and the value of *)
(* a field, Line for the end of a line.  The version is "http", the status *)
(* "ok".  The server is external: it may refuse, close early or, unless    *)
(* Answers, say nothing.  Of the request only the sending is modelled.     *)
(***************************************************************************)
EXTENDS Integers, SequencesExt

CONSTANTS
  Responses,    \* [fields, chunked, chunks, trailers]: what servers may send
  Size,         \* tokens that one receive() takes at most
  Answers,      \* servers answer or close the connection
  MaxRequests   \* bound: requests by one Http

HttpClientAssumption ==
  Size \in Nat \ {0} /\ Answers \in BOOLEAN /\ MaxRequests \in Nat \ {0}

Line == "line"
None == <<>>

Digit == [d \in {"0", "1", "2", "3", "E"} |->
            CASE d = "0" -> 0 [] d = "1" -> 1 [] d = "2" -> 2 [] d = "3" -> 3 [] d = "E" -> 14]

\* How a server writes a response (RFC 7230, 3 and 4.1).
Field(name) == <<name, "=", Line>>
Fields(names) == FlattenSeq([i \in DOMAIN names |-> Field(names[i])])
SizeOf(bytes) == CHOOSE d \in DOMAIN Digit : Digit[d] = Len(bytes)
Chunk(bytes) == <<SizeOf(bytes), Line>> \o bytes \o <<Line>>
Body(r) == FlattenSeq(r.chunks)
Wire(r) ==
  <<"http", "ok", Line>> \o Fields(r.fields)
    \o IF r.chunked
       THEN Field("chunked") \o <<Line>>
              \o FlattenSeq([i \in DOMAIN r.chunks |-> Chunk(r.chunks[i])])
              \o <<"0", Line>> \o Fields(r.trailers) \o <<Line>>
       ELSE <<Line>> \o Body(r)

VARIABLES
  client,    \* where send_request() is
  received,  \* receivedStr
  answer,    \* [status, fields, body], the Response
  server,    \* "idle", "serving", "silent", "closed" (all sent) or "cut"
  pending,   \* what the server has still to send
  sent,      \* history: <<the response that the server chose>>
  requests   \* bound: requests so far

vars == <<client, received, answer, server, pending, sent, requests>>

NoAnswer == [status |-> "failed", fields |-> {}, body |-> <<>>]

Init ==
  /\ client = "idle" /\ received = <<>> /\ answer = NoAnswer
  /\ server = "idle" /\ pending = <<>> /\ sent = None
  /\ requests = 0
-----------------------------------------------------------------------------
\* Parsing

From(s, i) == SubSeq(s, i, Len(s))

\* The first place from i on that is in a set, or the one after the end.
FirstIn(s, i, places) ==
  CHOOSE j \in places \cup {Len(s) + 1} :
    (j >= i \/ j > Len(s)) /\ \A k \in places : k >= i => j <= k

\* operator>> skips white space, ignore() goes past the end of the line.
Word(s, i)   == FirstIn(s, i, {j \in DOMAIN s : s[j] # Line})
Ignore(s, i) == 1 + FirstIn(s, i, {j \in DOMAIN s : s[j] = Line})

\* parse_fields(): the lines with a ": " from i on, up to an empty one.
EmptyLine(s, i) == FirstIn(s, i, {j \in DOMAIN s : s[j] = Line /\ (j = i \/ s[j - 1] = Line)})
ParsedFields(s, i) ==
  {s[j] : j \in {j \in i..(EmptyLine(s, i) - 2) : s[j + 1] = "="}}

\* Whatever can be read as a number is a size, also after the chunk of size 0:
\* only a failure ends the loop, and what fails then reads no trailers.
ParsedChunks(s, start) ==
  LET chunks[i \in Nat] ==
        IF Word(s, i) \notin DOMAIN s \/ s[Word(s, i)] \notin DOMAIN Digit THEN <<>>
        ELSE LET first == Ignore(s, Word(s, i))
                 size  == Digit[s[Word(s, i)]]
             IN IF first + size > Len(s) THEN From(s, first)
                ELSE SubSeq(s, first, first + size - 1) \o chunks[first + size]
  IN chunks[start]

ChunkedMutant(s, i) == FALSE  \* "Chunked" is not "chunked"
Chunked(s, i) == "chunked" \in ParsedFields(s, i)

Parsed(s) ==
  IF Len(s) < 2 \/ s[1] # "http" \/ s[2] # "ok" THEN [NoAnswer EXCEPT !.status = "invalid"]
  ELSE LET lines == Ignore(s, 1)
           rest  == EmptyLine(s, lines) + 1
       IN [status |-> "ok", fields |-> ParsedFields(s, lines),
           body |-> IF Chunked(s, lines) THEN ParsedChunks(s, rest) ELSE From(s, rest)]
-----------------------------------------------------------------------------
\* The client: send_request()

Connect ==
  /\ client = "idle" /\ requests < MaxRequests
  /\ requests' = requests + 1
  /\ answer' = NoAnswer /\ received' = <<>>
  /\ sent' = None /\ pending' = <<>>
  /\ \/ client' = "sending" /\ server' = "idle"
     \/ client' = "done" /\ server' = "cut"      \* refused or timed out

\* The request is taken, or the connection fails first.
Send ==
  /\ client = "sending"
  /\ \/ /\ client' = "receiving" /\ UNCHANGED server
     \/ /\ client' = "disconnecting" /\ server' = "cut"
  /\ UNCHANGED <<received, answer, pending, sent, requests>>

Collected(n) == received \o SubSeq(pending, 1, n)

EndedMutant == server = "cut"   \* takes the end of what was sent for a pause
Ended == server = "cut" \/ (server = "closed" /\ pending = <<>>)

\* receive() blocks until there is something or the connection ended.
Receive ==
  /\ client = "receiving"
  /\ \/ \E n \in 1..Size :
          /\ server \in {"serving", "closed"} /\ n <= Len(pending)
          /\ received' = Collected(n)
          /\ pending' = From(pending, n + 1)
          /\ UNCHANGED <<client, answer>>
     \/ /\ Ended
        /\ answer' = Parsed(received)
        /\ client' = "disconnecting"
        /\ UNCHANGED <<received, pending>>
  /\ UNCHANGED <<server, sent, requests>>

Disconnect ==
  /\ client = "disconnecting"
  /\ client' = "done"
  /\ UNCHANGED <<received, answer, server, pending, sent, requests>>

Take ==
  /\ client = "done"
  /\ client' = "idle"
  /\ UNCHANGED <<received, answer, server, pending, sent, requests>>

\* The server: a response, no response to what is none, or nothing.
Serve ==
  /\ server = "idle" /\ client = "receiving"
  /\ \/ \E r \in Responses : server' = "serving" /\ sent' = <<r>> /\ pending' = Wire(r)
     \/ server' = "closed" /\ sent' = None /\ pending' = <<"x", Line>>
     \/ ~Answers /\ server' = "silent" /\ UNCHANGED <<sent, pending>>
  /\ UNCHANGED <<client, received, answer, requests>>

CloseAll ==
  /\ server = "serving"
  /\ server' = "closed"
  /\ UNCHANGED <<client, received, answer, pending, sent, requests>>

\* A reset: what was not received yet is lost.
Cut ==
  /\ server \in {"idle", "serving"} /\ client = "receiving"
  /\ server' = "cut"
  /\ UNCHANGED <<client, received, answer, pending, sent, requests>>

Next == Connect \/ Send \/ Receive \/ Disconnect \/ Take \/ Serve \/ CloseAll \/ Cut

Spec == Init /\ [][Next]_vars

\* The program goes on; a server that answers comes to an end.
LiveSpec ==
  Spec /\ WF_vars(Send) /\ WF_vars(Receive) /\ WF_vars(Disconnect) /\ WF_vars(Take)
       /\ WF_vars(Serve) /\ WF_vars(CloseAll)
-----------------------------------------------------------------------------
(* Properties *)

TypeOK ==
  /\ client \in {"idle", "sending", "receiving", "disconnecting", "done"}
  /\ server \in {"idle", "serving", "silent", "closed", "cut"}
  /\ answer.status \in {"ok", "invalid", "failed"}
  /\ (sent = None \/ sent[1] \in Responses) /\ requests \in 0..MaxRequests
  /\ sent # None => IsPrefix(received, Wire(sent[1]))

Named(r) == Range(r.fields) \cup (IF r.chunked THEN {"chunked"} ELSE {})

\* "Send a HTTP request and return the server's response" (Http.hpp:306): however
\* the stream was taken apart on its way, what a server sent to its end is what
\* the response says
Arrives ==
  client = "done" /\ sent # None /\ server = "closed" =>
    /\ answer.status = "ok"
    /\ answer.body = Body(sent[1])
    /\ answer.fields = Named(sent[1]) \cup Range(sent[1].trailers)

\* The body of a response that did not come to its end is the beginning of what the
\* server sent, never sizes or fields in the place of contents.
OnlyContents ==
  answer.status = "ok" => sent # None /\ IsPrefix(answer.body, Body(sent[1]))

\* "Most common code returned when operation was successful" (Http.hpp:141): a
\* response that says so is whole
OkIsWhole == client = "done" /\ answer.status = "ok" => answer.body = Body(sent[1])

\* "use a timeout to limit the time to wait" (Http.hpp:313): a request ends with a
\* response, an invalid one or none
Returns == [](client = "sending" => <>(client = "done"))
=============================================================================
