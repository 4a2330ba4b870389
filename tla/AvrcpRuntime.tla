---------------------------- MODULE AvrcpRuntime ----------------------------
(***************************************************************************)
(* bumble-avrcp's Runtime on the two sides of an AVCTP channel: a          *)
(* controller that sends commands under transaction labels, and a target   *)
(* that answers them through a BasicDelegate and remembers which label to  *)
(* notify for each event.  Messages travel in order; a vendor command or   *)
(* response travels as one or more AV/C frames.                            *)
(***************************************************************************)
EXTENDS Integers, Sequences, SequencesExt, FiniteSets, FiniteSetsExt, Functions

CONSTANTS
  Labels,          \* transaction labels; the code has 0..15
  Events,          \* event ids a controller asks for
  Supported,       \* those among the delegate's supported_events
  Settable,        \* those a command can change (absolute volume)
  Values,          \* what an event reports
  CommandParts,    \* frames of a "query" command
  ResponseParts,   \* frames of the response to it
  MaxCommands,     \* bound on the commands begun
  MaxChanges       \* bound on the changes of the target's state

VARIABLES
  free,        \* Runtime::free_labels of the controller
  pending,     \* Runtime::pending: label -> the command waiting for its response
  incoming,    \* incoming_command of the target and incoming_response of the
               \* controller, each with its PduAssembler
  pidRegistered, \* whether the target called register_pid before the channel opened
  listeners,   \* Runtime::notification_listeners of the target
  value,       \* the delegate's state, by event
  due,         \* events whose change the target's application has yet to notify
  commands,    \* AVCTP messages to the target
  responses,   \* AVCTP messages to the controller
  known,       \* history: what the controller last heard of each event
  displaced,   \* history: commands whose registration was overwritten
  errors,      \* history: the errors the two runtimes returned
  begun, changes

vars == <<free, pending, incoming, listeners, value, due, commands, responses,
          known, displaced, errors, begun, changes, pidRegistered>>

Blank == -1
None == [label |-> -1]
NoPdu == [label |-> -1, code |-> "none", parts |-> 0]
Codes == {"stable", "accepted", "rejected", "not_implemented", "interim", "changed", "ipid"}
Kinds == {"query", "refused", "set", "register", "key"}

\* A command, as the application builds it; `id` only tells commands apart.
Command(kind, event, v, id) == [kind |-> kind, event |-> event, value |-> v, id |-> id]

Init ==
  /\ free = Labels
  /\ pending = <<>>
  /\ incoming = [side \in {"target", "controller"} |-> NoPdu]
  /\ listeners = [e \in Events |-> None]
  /\ value \in [Events -> Values]
  /\ due = {}
  /\ commands = <<>>
  /\ responses = <<>>
  /\ known = value
  /\ displaced = {}
  /\ errors = {}
  /\ begun = 0
  /\ changes = 0
  /\ pidRegistered \in BOOLEAN

(***************************************************************************)
(* Fragments and their assembly.                                           *)
(***************************************************************************)

\* fragment_pdu: the frames of a vendor PDU, each a message of its own.
Fragments(label, code, command, parts) ==
  [i \in 1..parts |->
     [label |-> label, code |-> code, command |-> command, part |-> i, parts |-> parts]]

\* A message that is not fragmented: a pass-through frame or an IPID answer.
Whole(label, code, command) == Fragments(label, code, command, 1)

\* PduAssembler::push, by the number of parts collected.
Push(parts, m) ==
  CASE m.parts = 1                    -> [complete |-> TRUE, parts |-> 0]
    [] m.part = 1 /\ m.parts > 1      -> [complete |-> FALSE, parts |-> 1]
    [] m.part > 1 /\ parts = 0        -> [complete |-> FALSE, parts |-> 0]
    [] m.part > 1 /\ m.part < m.parts /\ parts > 0
                                      -> [complete |-> FALSE, parts |-> parts + 1]
    [] m.part > 1 /\ m.part = m.parts /\ parts > 0
                                      -> [complete |-> TRUE, parts |-> 0]

\* A frame of the PDU under assembly, or the first of a new one.
Collect(side, m) ==
  LET pushed == Push(incoming[side].parts, m) IN
  incoming' = [incoming EXCEPT ![side] =
                 IF pushed.complete
                 THEN NoPdu
                 ELSE [label |-> m.label, code |-> m.code, parts |-> pushed.parts]]

\* Whether the frame belongs to another PDU than the one under assembly.
Interleaved(side, m) ==
  incoming[side] # NoPdu /\ <<incoming[side].label, incoming[side].code>> # <<m.label, m.code>>

\* The frame that breaks an assembly ends it with an error.
Interrupt(side) ==
  /\ incoming' = [incoming EXCEPT ![side] = NoPdu]
  /\ errors' = errors \cup {"interleaved"}

(***************************************************************************)
(* The controller.                                                         *)
(***************************************************************************)

\* reserve_label
Reserve(label, command) ==
  /\ pending' = [l \in DOMAIN pending \cup {label} |->
                   IF l = label THEN command ELSE pending[l]]
  /\ free' = free \ {label}

\* release_label
Release(label) ==
  /\ pending' = Restrict(pending, DOMAIN pending \ {label})
  /\ free' = free \cup {label}

\* begin_command and begin_pass_through; with no free label they return
\* NoTransactionLabels and nothing changes.  A registration is sent as NOTIFY.
Begin(kind, event, v) ==
  /\ begun < MaxCommands
  /\ free # {}
  /\ LET label == Min(free)
         command == Command(kind, event, v, begun) IN
     /\ Reserve(label, command)
     /\ commands' = commands \o
          Fragments(label, "command", command, IF kind = "query" THEN CommandParts ELSE 1)
  /\ begun' = begun + 1
  /\ UNCHANGED <<incoming, listeners, value, due, responses, known, displaced, errors, changes>>

\* The controller's application learns what a response says of an event.
Learn(m) ==
  known' = IF m.command.kind \in {"set", "register"}
                /\ m.code \in {"accepted", "interim", "changed"}
           THEN [known EXCEPT ![m.command.event] = m.command.value]
           ELSE known

\* Mutant: a notification's label is released by the interim response.
SettleInterim(m) == Release(m.label)

\* The label stays reserved after an interim response, and only then.
Settle(m) ==
  IF m.code = "interim" THEN UNCHANGED <<pending, free>> ELSE Release(m.label)

\* handle_message on a response: the IPID answer, handle_response_frame's check
\* of the label and of the frame's kind, then the assembly of a vendor PDU.
OnResponse ==
  /\ responses # <<>>
  /\ LET m == Head(responses) IN
     \/ /\ m.code = "ipid"
        /\ Release(m.label)
        /\ UNCHANGED <<incoming, known, errors>>
     \/ /\ m.code # "ipid"
        /\ LET expected == IF m.label \in DOMAIN pending THEN pending[m.label].kind ELSE "none" IN
           IF expected = "none"
           THEN /\ errors' = errors \cup {"not_pending"}
                /\ UNCHANGED <<free, pending, incoming, known>>
           ELSE IF (expected = "key") # (m.command.kind = "key")
           THEN /\ errors' = errors \cup {"wrong_frame"}
                /\ UNCHANGED <<free, pending, incoming, known>>
           ELSE IF expected = "key"
           THEN /\ Release(m.label)
                /\ UNCHANGED <<incoming, known, errors>>
           ELSE IF Interleaved("controller", m)
           THEN /\ Interrupt("controller")
                /\ UNCHANGED <<free, pending, known>>
           ELSE /\ Collect("controller", m)
                /\ IF ~Push(incoming["controller"].parts, m).complete
                   THEN UNCHANGED <<free, pending, known, errors>>
                   ELSE IF m.command.kind # expected
                   THEN /\ Release(m.label)
                        /\ errors' = errors \cup {"mismatched"}
                        /\ UNCHANGED known
                   ELSE /\ Settle(m)
                        /\ Learn(m)
                        /\ UNCHANGED errors
  /\ responses' = Tail(responses)
  /\ UNCHANGED <<listeners, value, due, commands, displaced, begun, changes>>

(***************************************************************************)
(* The target.                                                             *)
(***************************************************************************)

\* BasicDelegate::handle_command and on_key_event: the response code.
ReplyCode(command) ==
  CASE command.kind = "query"    -> "stable"
    [] command.kind = "refused"  -> "rejected"
    [] command.kind = "set"      -> "accepted"
    [] command.kind = "key"      -> "accepted"
    [] command.kind = "register" -> IF command.event \in Supported THEN "interim" ELSE "not_implemented"

\* Mutant: a command that sets a value is answered and not carried out.
EffectMissing(command) == value

\* What the delegate holds after a command.
Effect(command) ==
  IF command.kind = "set" THEN [value EXCEPT ![command.event] = command.value] ELSE value

\* The delegate's part of a complete command: its effect and the response.
Answer(m) ==
  LET command == m.command
      code == ReplyCode(command)
      reply == IF command.kind = "register"
               THEN [command EXCEPT !.value = value[command.event]]
               ELSE command
  IN /\ value' = Effect(command)
     /\ IF code = "interim"
        THEN /\ listeners' = [listeners EXCEPT ![command.event] =
                                [label |-> m.label, command |-> command]]
             /\ displaced' = IF listeners[command.event] = None THEN displaced
                             ELSE displaced \cup {listeners[command.event].command.id}
        ELSE UNCHANGED <<listeners, displaced>>
     /\ responses' = responses \o
          Fragments(m.label, code, reply, IF command.kind = "query" THEN ResponseParts ELSE 1)

\* DeviceProtocol::poll answers a command for a PID nobody registered with
\* IPID, one per message; otherwise handle_message passes the frame to
\* handle_command_frame.
OnCommand ==
  /\ commands # <<>>
  /\ LET m == Head(commands) IN
     \/ /\ ~pidRegistered
        /\ responses' = responses \o Whole(m.label, "ipid", m.command)
        /\ UNCHANGED <<incoming, listeners, value, displaced, errors>>
     \/ /\ pidRegistered /\ m.command.kind = "key"
        /\ Answer(m)
        /\ UNCHANGED <<incoming, errors>>
     \/ /\ pidRegistered /\ m.command.kind # "key"
        /\ IF Interleaved("target", m)
           THEN /\ Interrupt("target")
                /\ UNCHANGED <<listeners, value, displaced, responses>>
           ELSE /\ Collect("target", m)
                /\ UNCHANGED errors
                /\ IF Push(incoming["target"].parts, m).complete
                   THEN Answer(m)
                   ELSE UNCHANGED <<listeners, value, displaced, responses>>
  /\ commands' = Tail(commands)
  /\ UNCHANGED <<free, pending, due, known, begun, changes>>

\* The target's application changes what the delegate reports, and will notify.
Change(event, v) ==
  /\ changes < MaxChanges
  /\ value[event] # v
  /\ value' = [value EXCEPT ![event] = v]
  /\ due' = due \cup {event}
  /\ changes' = changes + 1
  /\ UNCHANGED <<free, pending, incoming, listeners, commands, responses, known,
                 displaced, errors, begun>>

\* Mutant: the listener is removed before the response is encoded.
NotifyNobody(event) ==
  /\ event \in due
  /\ due' = due \ {event}
  /\ listeners' = [listeners EXCEPT ![event] = None]
  /\ UNCHANGED <<free, pending, incoming, value, commands, responses, known, displaced,
                 errors, begun, changes>>

\* notify: the CHANGED response goes to the listener's label, once.
Notify(event) ==
  /\ event \in due
  /\ due' = due \ {event}
  /\ listeners' = [listeners EXCEPT ![event] = None]
  /\ responses' = IF listeners[event] = None THEN responses
                  ELSE responses \o Whole(listeners[event].label, "changed",
                         [listeners[event].command EXCEPT !.value = value[event]])
  /\ UNCHANGED <<free, pending, incoming, value, commands, known, displaced, errors,
                 begun, changes>>

Step ==
  \/ \E e \in Events : Begin("register", e, Blank)
  \/ \E kind \in {"query", "refused", "key"} : Begin(kind, Blank, Blank)
  \/ \E e \in Settable, v \in Values : Begin("set", e, v)
  \/ OnResponse
  \/ OnCommand
  \/ \E e \in Events, v \in Values : Change(e, v)
  \/ \E e \in Events : Notify(e)

Next == Step /\ UNCHANGED pidRegistered

Spec == Init /\ [][Next]_vars

(***************************************************************************)
(* Properties.                                                             *)
(***************************************************************************)

Holds(label, command) == label \in DOMAIN pending /\ pending[label].id = command.id

\* A label is not reused while anything of its last command is under way: every
\* response in flight, and every listener the target keeps, is for the command
\* that is pending under that label now.  So neither runtime ever returns NotPending,
\* WrongFrameKind, MismatchedResponse or InterleavedPdu, however fragmented commands,
\* responses, notifications and key presses follow each other.  (A target without the profile answers each
\* frame of a command with IPID, and the second one may meet a new command.)
LabelsNotReused ==
  /\ errors = {}
  /\ pidRegistered =>
       /\ \A i \in DOMAIN responses : Holds(responses[i].label, responses[i].command)
       /\ \A e \in Events :
            listeners[e] # None => Holds(listeners[e].label, listeners[e].command)

\* A pending label will come back: its command or its response is under way, or
\* the target will notify it.  The one exception is a registration that a later
\* one for the same event displaced (notification_listeners.insert): its label
\* is never released.
LabelsAccounted ==
  \A l \in DOMAIN pending :
    \/ \E i \in DOMAIN commands : commands[i].label = l
    \/ \E i \in DOMAIN responses : responses[i].label = l
    \/ \E e \in Events : listeners[e] # None /\ listeners[e].label = l
    \/ pending[l].id \in displaced

\* A controller with a registration in place, and nothing under way, knows the
\* event's present value: the interim response and the CHANGED one leave no gap
\* for a change to slip through, and a response never overwrites a later one.
UpToDate ==
  commands = <<>> /\ responses = <<>> =>
    \A e \in Events : listeners[e] # None /\ e \notin due => known[e] = value[e]
=============================================================================
