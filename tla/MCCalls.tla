------------------------------ MODULE MCCalls ------------------------------
(***************************************************************************)
(* Small instances, for TLC, of calls that must come to an end: the        *)
(* lookups and name requests of a host's applications, and those of an     *)
(* SDP client.  A behaviour is about one of the two.                       *)
(***************************************************************************)
EXTENDS Integers, Sequences

VARIABLES
  part,                          \* which of them
  host, ctl, evs, want, plan,    \* Discovery
  call, gathered, rounds, requests, responses, current, results, calls, timeouts \* SdpSession

lookupVars == <<host, ctl, evs, want, plan>>
sdpVars == <<call, gathered, rounds, requests, responses, current, results, calls, timeouts>>

-----------------------------------------------------------------------------
\* Names in advertisements, in scan responses and from inquiries.
Advertisers == {[addr |-> "a", scannable |-> TRUE, named |-> "rsp"],
                [addr |-> "b", scannable |-> FALSE, named |-> "adv"]}
Inquired == {"c"}
Lookups == {[transport |-> "le", addr |-> "a"], [transport |-> "le", addr |-> "b"],
            [transport |-> "classic", addr |-> "c"]}

D == INSTANCE Discovery WITH
       Named <- {"x", "y"}, MaxEvents <- 3,
       Plans <- {[calls |-> 3, kinds |-> {"scan", "find"}],
                 [calls |-> 3, kinds |-> {"inquiry", "find"}],
                 [calls |-> 3, kinds |-> {"name"}],
                 [calls |-> 2, kinds |-> {"scan", "inquiry", "find", "name"}]}

\* SDP queries whose answers take one response, several, or too many.
Queries == {"one", "list", "long", "search", "missing"}
SdpCalls == 4

Q == INSTANCE SdpSession WITH
       Kind <- [q \in Queries |->
                  CASE q = "search" -> "search" [] q = "list" -> "searchAttribute"
                    [] OTHER -> "attribute"],
       Size <- [q \in Queries |->
                  CASE q = "one" -> 1 [] q = "list" -> 3 [] q = "long" -> 7 [] q = "search" -> 4
                    [] OTHER -> 0],
       Unknown <- {"missing"}, Part <- 2, Watchdog <- 3, MaxCalls <- SdpCalls, MaxTimeouts <- 2

-----------------------------------------------------------------------------
NoLookup == host = [pending |-> {}] /\ ctl = 0 /\ evs = <<>> /\ want = 0 /\ plan = 0
NoSdp ==
  /\ call = Q!NoQuery /\ gathered = 0 /\ rounds = 0 /\ requests = 0 /\ responses = 0
  /\ current = 0 /\ results = 0 /\ calls = 0 /\ timeouts = 0

Init ==
  \/ part = "find" /\ D!Init /\ NoSdp
  \/ part = "sdp" /\ Q!Init /\ NoLookup

Next ==
  /\ UNCHANGED part
  /\ \/ part = "find" /\ D!Next /\ UNCHANGED sdpVars
     \/ part = "sdp" /\ Q!Next /\ UNCHANGED lookupVars

\* The fairness of each, where a behaviour is about it.
Fairness ==
  /\ WF_evs(part = "find" /\ D!Drained)
  /\ \A p \in Advertisers : /\ SF_lookupVars(part = "find" /\ D!Heard(p))
                            /\ SF_lookupVars(part = "find" /\ D!Answered(p))
  /\ \A q \in Inquired : SF_lookupVars(part = "find" /\ D!InquiryFinds(q))
  /\ WF_sdpVars(part = "sdp" /\ Q!Handle)
  /\ WF_sdpVars(part = "sdp" /\ Q!OnResponse)

Spec == Init /\ [][Next]_<<part, lookupVars, sdpVars>> /\ Fairness

-----------------------------------------------------------------------------
\* A scan or an inquiry runs for somebody: the application that started it and
\* has not stopped it, or a lookup; the end of one user never stops it for the
\* other (finish_peer_lookup_activity).
ActivityServes == part = "find" => D!ActivityServes

\* An answer is of the one that was asked: a name found in a scan response belongs
\* to the advertiser it is taken for (advertisement_accumulators), every remote
\* name request is answered once (complete_remote_name_request), and an SDP call
\* returns the whole answer to its own query (the continuation loops of SdpClient).
AnswersFit ==
  /\ part = "find" => D!FoundIsRight /\ D!NamesAnswered
  /\ part = "sdp" => Q!AnswersTheQuery

\* What is asked for ends: a lookup whose peer can be heard while its scan or
\* inquiry keeps running, and every SDP call (complete_peer_lookups; the watchdog
\* of SdpClient).
CallsEnd ==
  /\ \A l \in Lookups : []<>(part = "find" => ~(l \in host.pending /\ D!Audible(l)))
  /\ \A n \in 1..SdpCalls :
       (part = "sdp" /\ calls = n /\ call # Q!NoQuery) ~> (call = Q!NoQuery)
=============================================================================
