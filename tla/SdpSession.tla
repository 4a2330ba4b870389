----------------------------- MODULE SdpSession -----------------------------
(***************************************************************************)
(* An `SdpClient` and an `SdpServer` over one Classic L2CAP channel         *)
(* (bumble-sdp/src/service.rs and l2cap.rs): requests, answers in several   *)
(* parts, the client's watchdog and its drive limit.                        *)
(*                                                                          *)
(* A query has a kind, that of the request and response PDUs, and an        *)
(* answer: a sequence of units (bytes of attributes, or record handles), or *)
(* no answer at all when it names a record the server does not have.        *)
(***************************************************************************)
EXTENDS Integers, Sequences

CONSTANTS
  Queries,      \* what may be asked
  Kind,         \* [Queries -> kinds]
  Size,         \* [Queries -> Nat], units of the answer
  Unknown,      \* queries for a record that does not exist
  Part,         \* units that fit in one response
  Watchdog,     \* CONTINUATION_WATCHDOG
  MaxCalls,     \* bound: calls of the client
  MaxTimeouts   \* bound: calls that exceed the drive limit

VARIABLES
  call,       \* the query the client is asking, or NoQuery
  gathered,   \* units accumulated by the call
  rounds,     \* requests the call has made
  requests,   \* SDUs on their way to the server
  responses,  \* SDUs on their way to the client
  current,    \* `current_response`: its kind and what remains of it
  results,    \* history: <<query, outcome, units>> of the calls that returned
  calls, timeouts   \* history: how many calls were made, and timed out

vars == <<call, gathered, rounds, requests, responses, current, results, calls, timeouts>>

NoQuery == "no query"
NoResponse == [kind |-> "none", rest |-> <<>>]
Answer(q) == [i \in 1..Size[q] |-> <<q, i>>]
Least(a, b) == IF a < b THEN a ELSE b

Init ==
  /\ call = NoQuery /\ gathered = <<>> /\ rounds = 0
  /\ requests = <<>> /\ responses = <<>>
  /\ current = NoResponse
  /\ results = {}
  /\ calls = 0 /\ timeouts = 0

Request(q, continue) == [query |-> q, continue |-> continue]
Response(kind, units, more) == [kind |-> kind, units |-> units, more |-> more]

-----------------------------------------------------------------------------
\* A call returns.
Return(outcome, units) ==
  /\ results' = results \cup {<<call, outcome, units>>}
  /\ call' = NoQuery /\ gathered' = <<>> /\ rounds' = 0

\* `service_search_attribute`, `get_attributes` or `search_services` is called.
Ask(q) ==
  /\ call = NoQuery
  /\ calls < MaxCalls
  /\ call' = q
  /\ rounds' = 1
  /\ requests' = Append(requests, Request(q, FALSE))
  /\ calls' = calls + 1
  /\ UNCHANGED <<gathered, responses, current, results, timeouts>>

\* Mutant: the continuation repeats the last unit.
RestWithOverlap(units) ==
  IF Len(units) <= Part THEN <<>> ELSE SubSeq(units, Part, Len(units))

\* What remains after a part was handed out.
Rest(units) == SubSeq(units, Part + 1, Len(units))

\* The response kept for the next continuation: `next_byte_payload` drops the last
\* part, `on_service_search` keeps the empty list of handles.
Kept(kind, rest) ==
  IF rest = <<>> /\ kind # "search" THEN NoResponse ELSE [kind |-> kind, rest |-> rest]

\* Mutant: a request the server cannot answer gets no response.
RespondIfFound(response) ==
  responses' = IF response.kind = "error" THEN responses ELSE Append(responses, response)

\* A response is sent.
Respond(response) == responses' = Append(responses, response)

\* `on_service_search_attribute`, `on_service_attribute` or `on_service_search`: check
\* the continuation state, compute the response when the request is fresh, and send
\* the next part of it.  A continuation of the other family of requests finds no
\* response of its own: it gets an empty last part, or an error.
Handle ==
  /\ requests # <<>>
  /\ LET request == Head(requests)
         kind == Kind[request.query]
         fits == (kind = "search") = (current.kind = "search")
         source == IF request.continue THEN current.rest ELSE Answer(request.query)
         part == SubSeq(source, 1, Least(Part, Len(source)))
     IN
     \/ /\ request.continue /\ (current = NoResponse \/ ~fits)
        /\ Respond(Response(IF current = NoResponse \/ kind = "search" THEN "error" ELSE kind,
                            <<>>, FALSE))
        /\ UNCHANGED current
     \/ /\ ~request.continue /\ request.query \in Unknown
        /\ Respond(Response("error", <<>>, FALSE))
        /\ current' = NoResponse
     \/ /\ IF request.continue THEN current # NoResponse /\ fits
                               ELSE request.query \notin Unknown
        /\ Respond(Response(kind, part, Rest(source) # <<>>))
        /\ current' = Kept(kind, Rest(source))
  /\ requests' = Tail(requests)
  /\ UNCHANGED <<call, gathered, rounds, results, calls, timeouts>>

\* The accumulator after a response.
Gathered(response) == gathered \o response.units

\* The transport's `request` returns a response and the call goes on with it.  The
\* transaction id of the response is not looked at.
OnResponse ==
  /\ call # NoQuery
  /\ responses # <<>>
  /\ LET response == Head(responses) IN
     \/ /\ response.kind = "error"
        /\ Return("error", <<>>)
        /\ UNCHANGED requests
     \/ /\ response.kind \notin {"error", Kind[call]}
        /\ Return("unexpected", <<>>)
        /\ UNCHANGED requests
     \/ /\ response.kind = Kind[call]
        /\ ~response.more
        /\ Return("ok", Gathered(response))
        /\ UNCHANGED requests
     \/ /\ response.kind = Kind[call]
        /\ response.more
        /\ rounds = Watchdog
        /\ Return("exhausted", Gathered(response))
        /\ UNCHANGED requests
     \/ /\ response.kind = Kind[call]
        /\ response.more
        /\ rounds < Watchdog
        /\ gathered' = Gathered(response)
        /\ rounds' = rounds + 1
        /\ requests' = Append(requests, Request(call, TRUE))
        /\ UNCHANGED <<call, results>>
  /\ responses' = Tail(responses)
  /\ UNCHANGED <<current, calls, timeouts>>

\* No response came within `drive_limit` turns: the call fails, and its request or
\* its response stays under way.
TimeOut ==
  /\ call # NoQuery
  /\ responses = <<>>
  /\ timeouts < MaxTimeouts
  /\ Return("timeout", <<>>)
  /\ timeouts' = timeouts + 1
  /\ UNCHANGED <<requests, responses, current, calls>>

Next == (\E q \in Queries : Ask(q)) \/ Handle \/ OnResponse \/ TimeOut

Spec == Init /\ [][Next]_vars

\* The client drives the link, which serves the server, until the response is there.
FairSpec == Spec /\ WF_vars(Handle) /\ WF_vars(OnResponse)

-----------------------------------------------------------------------------
\* "Send a request and return the response": a call that succeeds returns the whole
\* answer to its own query, one that ends at the watchdog the beginning of it, and
\* only a query for an unknown record fails.
RightAnswer ==
  \A r \in results :
    LET query == r[1] IN
    CASE r[2] = "ok"         -> r[3] = Answer(query)
      [] r[2] = "exhausted"  -> r[3] = SubSeq(Answer(query), 1, Part * Watchdog)
      [] r[2] = "error"      -> query \in Unknown
      [] r[2] = "unexpected" -> FALSE
      [] r[2] = "timeout"    -> TRUE

\* As long as no call was given up, every call gets the answer to its own query.
AnswersTheQuery == timeouts = 0 => RightAnswer
=============================================================================
