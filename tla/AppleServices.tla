---------------------------- MODULE AppleServices ----------------------------
(***************************************************************************)
(* The Apple profiles.  AMS (bumble-profiles/src/ams.rs): a media source   *)
(* publishes attributes as updates, cut to a limit, and AmsClient fetches  *)
(* what was cut by selecting the attribute and reading it.  ANCS           *)
(* (bumble-profiles/src/ancs.rs): AncsClient asks for the attributes of a  *)
(* notification or an application, and the answer comes in fragments that  *)
(* AncsResponseAssembler puts together.                                    *)
(*                                                                         *)
(* A text is a sequence of letters.  An ANCS answer is the sequence of its *)
(* parts: the command, the subject it is about, then its attributes, each  *)
(* naming the request it was sent for.                                     *)
(***************************************************************************)
EXTENDS Integers, Sequences, FiniteSets, SequencesExt

CONSTANTS
    AttributeIds,  \* the media attributes, pairs of entity and attribute
    Texts,       \* the values they take
    Limit,       \* update_entity's notification_limit
    Subjects,    \* what ANCS is asked about
    MaxCut,      \* how many parts of an answer one fragment carries at most
    Bounds       \* bounds on updates, requests and stops

VARIABLES srv, cli, up, down, left

Spend(kind) == left[kind] > 0 /\ left' = [left EXCEPT ![kind] = @ - 1]

-----------------------------------------------------------------------------
(* The media source.  A message to the client is [what, at, cut, text]; one *)
(* from it is [what, at].                                                   *)

ToClient(what, at, cut, text) == [what |-> what, at |-> at, cut |-> cut, text |-> text]
FromClient(what, at) == [what |-> what, at |-> at]

\* AmsService::update_entity, and the application sends what is pending.
update_entity(a, text) ==
    /\ Spend("updates")
    /\ \E cut \in {Limit < Len(text)} :
          down' = Append(down, ToClient("update", a, cut,
                                        IF cut THEN SubSeq(text, 1, Limit) ELSE text))
    /\ srv' = [srv EXCEPT !.attributes[a] = text]
    /\ UNCHANGED <<cli, up>>

\* The entity attribute characteristic: a write selects, a read returns the
\* value of what is selected now.
OnEntityAttribute ==
    /\ up # <<>>
    /\ \E m \in {Head(up)} :
          /\ srv' = IF m.what = "select" THEN [srv EXCEPT !.selected = <<m.at>>] ELSE srv
          /\ down' = IF m.what = "select" THEN down
                     ELSE Append(down, ToClient("value", m.at, FALSE,
                            IF srv.selected = <<>> THEN <<>>
                            ELSE srv.attributes[srv.selected[1]]))
    /\ up' = Tail(up)
    /\ UNCHANGED <<cli, left>>

\* on_entity_update_notification: an update that was cut is replaced by the value
\* read_entity_attribute fetches.  While that read waits for its response, the
\* updates that arrive are kept for later.
on_entity_update_notification ==
    /\ cli.fetching = <<>>
    /\ cli.kept \o down # <<>>
    /\ \E all \in {cli.kept \o down} :
         \E n \in {Head(all)} :
          /\ cli' = IF n.cut THEN [cli EXCEPT !.fetching = <<n.at>>, !.kept = Tail(all)]
                    ELSE [cli EXCEPT !.view[n.at] = n.text, !.kept = Tail(all)]
          /\ up' = IF n.cut THEN up \o <<FromClient("select", n.at), FromClient("read", n.at)>>
                   ELSE up
    /\ down' = <<>>
    /\ UNCHANGED <<srv, left>>

\* The response of the read, behind the updates sent before it.
OnValue ==
    /\ cli.fetching # <<>>
    /\ \E k \in 1 .. Len(down) :
          /\ down[k].what = "value"
          /\ cli' = [cli EXCEPT !.view[cli.fetching[1]] = down[k].text, !.fetching = <<>>,
                                !.kept = @ \o SubSeq(down, 1, k - 1)]
          /\ down' = SubSeq(down, k + 1, Len(down))
    /\ UNCHANGED <<srv, up, left>>

MediaInit ==
    /\ srv = [attributes |-> [a \in AttributeIds |-> <<>>], selected |-> <<>>]
    /\ cli = [view |-> [a \in AttributeIds |-> <<>>], fetching |-> <<>>, kept |-> <<>>]
    /\ up = <<>>
    /\ down = <<>>
    /\ left = Bounds

MediaNext ==
    \/ \E a \in AttributeIds, t \in Texts : update_entity(a, t)
    \/ OnEntityAttribute
    \/ on_entity_update_notification
    \/ OnValue

\* A client with nothing left to process knows every attribute in full, whatever
\* was cut, and though attributes change between an update and the read that
\* completes it (update_entity, read_entity_attribute).
MediaViewFollows ==
    up = <<>> /\ down = <<>> /\ cli.kept = <<>> /\ cli.fetching = <<>>
        => cli.view = srv.attributes

-----------------------------------------------------------------------------
(* ANCS.  A request is [command, subject, count, id]; a part of an answer   *)
(* is [part, value, id].                                                    *)

Part(part, value, id) == [part |-> part, value |-> value, id |-> id]

\* The answer of the phone's application to a request it took (take_command).
AnswerTo(r) ==
    <<Part("command", r.command, r.id), Part("subject", r.subject, r.id)>>
       \o [k \in 1 .. r.count |-> Part("attribute", k, r.id)]

\* What parse_notification_response and parse_app_response make of a buffer:
\* <<>> for not yet, an error, or the response.
Expecting(r) == [request |-> r, buffer |-> <<>>]
Outcome(what, ids) == <<[what |-> what, ids |-> ids]>>

parse_response(x) ==
    LET b == x.buffer
        n == Len(b)
        first == n >= 1 => b[1].part = "command" /\ b[1].value = x.request.command
        second == n >= 2 => b[2].part = "subject" /\ b[2].value = x.request.subject
    IN  IF ~first \/ ~second THEN Outcome("error", {})
        ELSE IF n < 2 + x.request.count THEN <<>>
        ELSE IF n > 2 + x.request.count THEN Outcome("error", {})
        ELSE Outcome("response", {b[k].id : k \in 1 .. n})

\* Mutant: a request may be made while another waits for its answer.
BeginAnyway(command, subject, count) ==
    /\ cli.started
    /\ Spend("requests")
    /\ \E r \in {[command |-> command, subject |-> subject, count |-> count,
                  id |-> left.requests]} :
          /\ up' = Append(up, r)
          /\ cli' = [cli EXCEPT !.response = <<Expecting(r)>>]
    /\ UNCHANGED <<srv, down>>

\* begin_notification_attributes and begin_app_attributes.
begin_attributes(command, subject, count) ==
    /\ cli.started
    /\ cli.response = <<>>
    /\ Spend("requests")
    /\ \E r \in {[command |-> command, subject |-> subject, count |-> count,
                  id |-> left.requests]} :
          /\ up' = Append(up, r)
          /\ cli' = [cli EXCEPT !.response = <<Expecting(r)>>]
    /\ UNCHANGED <<srv, down>>

\* perform_action needs no answer, and may be sent while one is awaited.
perform_action ==
    /\ cli.started
    /\ Spend("actions")
    /\ up' = Append(up, [command |-> "action", subject |-> 0, count |-> 0, id |-> 0])
    /\ UNCHANGED <<srv, cli, down>>

\* The phone takes a command and sends its answer in fragments of its choice;
\* only a subscriber is sent them.
take_command ==
    /\ up # <<>>
    /\ srv.sending = <<>>
    /\ srv' = [srv EXCEPT !.sending = IF Head(up).command = "action" THEN <<>>
                                      ELSE AnswerTo(Head(up))]
    /\ up' = Tail(up)
    /\ UNCHANGED <<cli, down, left>>

send_data(n) ==
    /\ n <= Len(srv.sending)
    /\ srv' = [srv EXCEPT !.sending = SubSeq(@, n + 1, Len(@))]
    /\ down' = IF cli.started THEN Append(down, SubSeq(srv.sending, 1, n)) ELSE down
    /\ UNCHANGED <<cli, up, left>>

\* AncsClient::on_data.  After an error the assembler stays, with what it holds.
on_data ==
    /\ down # <<>>
    /\ IF cli.response = <<>> THEN UNCHANGED cli
       ELSE \E x \in {[cli.response[1] EXCEPT !.buffer = @ \o Head(down)]} :
              \E o \in {parse_response(x)} :
                cli' = IF o # <<>> /\ o[1].what = "response"
                       THEN [cli EXCEPT !.response = <<>>,
                                        !.got = <<[ids |-> o[1].ids, id |-> x.request.id,
                                                   subject |-> x.request.subject,
                                                   of |-> x.buffer[2].value]>>]
                       ELSE [cli EXCEPT !.response = <<x>>]
    /\ down' = Tail(down)
    /\ UNCHANGED <<srv, up, left>>

\* AncsClient::stop and start.  clean is a history: no request was abandoned by
\* stop.
stop ==
    /\ cli.started
    /\ Spend("stops")
    /\ cli' = [cli EXCEPT !.started = FALSE, !.response = <<>>,
                          !.clean = @ /\ cli.response = <<>>]
    /\ UNCHANGED <<srv, up, down>>

start ==
    /\ ~cli.started
    /\ cli' = [cli EXCEPT !.started = TRUE]
    /\ UNCHANGED <<srv, up, down, left>>

NoticeInit ==
    /\ srv = [sending |-> <<>>]
    /\ cli = [started |-> FALSE, response |-> <<>>, got |-> <<>>, clean |-> TRUE]
    /\ up = <<>>
    /\ down = <<>>
    /\ left = Bounds

NoticeNext ==
    \/ \E c \in {"notification", "app"}, s \in Subjects, n \in 1 .. 2 : begin_attributes(c, s, n)
    \/ perform_action
    \/ take_command
    \/ \E n \in 1 .. MaxCut : send_data(n)
    \/ on_data
    \/ stop
    \/ start

\* An ANCS response is about what was asked, however its fragments were cut; and
\* if no request was abandoned by stop, it consists of what was sent for that
\* request, and a request whose whole answer was delivered has been answered.
AnswersItsRequest ==
    /\ \A k \in 1 .. Len(cli.got) :
          /\ cli.got[k].of = cli.got[k].subject
          /\ cli.clean => cli.got[k].ids = {cli.got[k].id}
    /\ cli.clean /\ up = <<>> /\ srv.sending = <<>> /\ down = <<>> => cli.response = <<>>
=============================================================================
