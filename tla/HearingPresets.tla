--------------------------- MODULE HearingPresets ---------------------------
(***************************************************************************)
(* The Hearing Access service (bumble-profiles/src/hap.rs) of the two      *)
(* hearing aids of a binaural set.  Each ear keeps its presets, the active *)
(* one and a queue of events under one lock; a synchronized operation is   *)
(* applied to the ear that received it and then, under the other lock, to  *)
(* its peer.  A client of each ear follows the events.                     *)
(*                                                                         *)
(* A preset is [name, available, writable]; names are numbers, 0 for one   *)
(* whose length is refused.                                                *)
(***************************************************************************)
EXTENDS Integers, Sequences, FiniteSets, SequencesExt

CONSTANTS
    Ears,
    Presets,       \* the presets both ears start with: index -> preset
    Synchronizing, \* the ears whose features support synchronization
    Plans          \* what a behaviour may do: [ops, writes, calls], the operations
                   \* clients write ([code, index, arg]), how many, and how many
                   \* calls the applications make

VARIABLES srv, cli, up, down, left

Other(e) == CHOOSE o \in Ears : o # e
Indices == DOMAIN Presets

-----------------------------------------------------------------------------
(* The state of one ear, and the events it queues: [what, index, record,    *)
(* last].                                                                   *)

NoRecord == [name |-> 0, available |-> FALSE, writable |-> FALSE]
Event(what, index, record, last) ==
    [what |-> what, index |-> index, record |-> record, last |-> last]

Queue(s, events) == [s EXCEPT !.pending = @ \o events]

\* queue_preset_changes, for the one change its callers pass.
queue_preset_change(s, what, index, record) == Queue(s, <<Event(what, index, record, TRUE)>>)

Available(s) == {i \in DOMAIN s.presets : s.presets[i].available}

\* The results of an operation: [s, ok].
Ok(s) == [s |-> s, ok |-> TRUE]
Refused(s) == [s |-> s, ok |-> FALSE]

\* PresetControlPointOperation::ReadPresets: one read at a time, and its
\* responses are queued at once, the last one marked.
ReadPresets(s, start, count) ==
    LET from == SetToSortSeq({i \in DOMAIN s.presets : i >= start}, <)
        n == IF count < Len(from) THEN count ELSE Len(from)
    IN  IF s.reading \/ start = 0 \/ count = 0 \/ from = <<>> THEN Refused(s)
        ELSE Ok(Queue([s EXCEPT !.reading = TRUE],
                      [k \in 1 .. n |-> Event("read", from[k], s.presets[from[k]], k = n)]))

WritePresetName(s, index, name) ==
    IF s.reading \/ name = 0 \/ index \notin DOMAIN s.presets THEN Refused(s)
    ELSE IF ~s.presets[index].writable THEN Refused(s)
    ELSE LET record == [s.presets[index] EXCEPT !.name = name]
         IN  Ok(queue_preset_change([s EXCEPT !.presets[index] = record],
                                    "updated", index, record))

set_active(s, index) ==
    IF index \notin Available(s) THEN Refused(s)
    ELSE IF s.active = index THEN Ok(s)
    ELSE Ok(Queue([s EXCEPT !.active = index], <<Event("active", index, NoRecord, TRUE)>>))

\* The next or previous available preset, around the end.
set_next_or_previous(s, previous) ==
    LET presets == SetToSortSeq(Available(s), <)
        n == Len(presets)
        at == CHOOSE k \in 1 .. n : presets[k] = s.active
        to == IF previous THEN ((at + n - 2) % n) + 1 ELSE (at % n) + 1
    IN  IF n < 2 \/ s.active \notin Available(s) THEN Refused(s) ELSE set_active(s, presets[to])

Synchronized == {"SetActiveSynchronized", "NextSynchronized", "PreviousSynchronized"}

\* process_control_operation; op is [code, index, arg].
process_control_operation(s, op, synchronizes) ==
    IF op.code \in Synchronized /\ ~synchronizes THEN Refused(s)
    ELSE CASE op.code = "ReadPresets" -> ReadPresets(s, op.index, op.arg)
           [] op.code = "WritePresetName" -> WritePresetName(s, op.index, op.arg)
           [] op.code \in {"SetActive", "SetActiveSynchronized"} -> set_active(s, op.index)
           [] op.code \in {"Next", "NextSynchronized"} -> set_next_or_previous(s, FALSE)
           [] op.code \in {"Previous", "PreviousSynchronized"} -> set_next_or_previous(s, TRUE)

\* What a synchronized operation asks of the peer.
peer_operation(op) ==
    [op EXCEPT !.code = CASE op.code = "SetActiveSynchronized" -> "SetActive"
                          [] op.code = "NextSynchronized" -> "Next"
                          [] op.code = "PreviousSynchronized" -> "Previous"]

-----------------------------------------------------------------------------
Spend(kind) == left[kind] > 0 /\ left' = [left EXCEPT ![kind] = @ - 1]

\* A history: the active presets of the two ears are the same, or will be once
\* the peer has done what it is owed.  An operation on one ear alone, a second
\* one before the peer's half of the first, and a peer that refuses end it; a
\* synchronized choice of one preset restores it.
InSyncAfter(e, op, r) ==
    CASE ~r.ok -> cli.insync
      [] r.ok /\ op.code = "SetActiveSynchronized" -> up = {}
      [] r.ok /\ op.code \in {"NextSynchronized", "PreviousSynchronized"} ->
           cli.insync /\ up = {} /\ Available(srv[e]) = Available(srv[Other(e)])
      [] r.ok /\ op.code \notin Synchronized -> cli.insync /\ r.s.active = srv[e].active

\* A client writes the control point of one ear: the operation is done there.  A
\* synchronized one that succeeded is then owed to the peer, while other handlers
\* run (up holds what is owed).
write_control_point(e, op) ==
    /\ Spend("writes")
    /\ \E r \in {process_control_operation(srv[e], op, e \in Synchronizing)} :
          /\ srv' = [srv EXCEPT ![e] = r.s]
          /\ up' = IF r.ok /\ op.code \in Synchronized
                   THEN up \cup {[ear |-> Other(e), op |-> peer_operation(op), by |-> left.writes]}
                   ELSE up
          /\ cli' = [cli EXCEPT !.insync = InSyncAfter(e, op, r)]
    /\ UNCHANGED down

\* The second half of a synchronized operation.  If the peer refuses, the writer
\* is told so, and what was done to the first ear stays.
ApplyToPeer(w) ==
    /\ w \in up
    /\ \E r \in {process_control_operation(srv[w.ear], w.op, TRUE)} :
          /\ srv' = [srv EXCEPT ![w.ear] = r.s]
          /\ cli' = [cli EXCEPT !.insync = @ /\ r.ok]
    /\ up' = up \ {w}
    /\ UNCHANGED <<down, left>>

\* The application's calls on one ear.
delete_preset(e, index) ==
    /\ Spend("calls")
    /\ index \in DOMAIN srv[e].presets
    /\ index # srv[e].active
    /\ srv' = [srv EXCEPT ![e] =
         queue_preset_change([@ EXCEPT !.presets = [i \in DOMAIN @ \ {index} |-> @[i]]],
                             "deleted", index, NoRecord)]
    /\ cli' = [cli EXCEPT !.insync = @ /\ up = {}]
    /\ UNCHANGED <<up, down>>

\* Mutant: the active preset, too, can be made unavailable.
SetAnyAvailable(e, index, available) ==
    /\ Spend("calls")
    /\ index \in DOMAIN srv[e].presets
    /\ srv' = [srv EXCEPT ![e] =
         queue_preset_change([@ EXCEPT !.presets[index].available = available],
                             IF available THEN "available" ELSE "unavailable", index, NoRecord)]
    /\ cli' = [cli EXCEPT !.insync = @ /\ up = {}]
    /\ UNCHANGED <<up, down>>

set_preset_available(e, index, available) ==
    /\ Spend("calls")
    /\ index \in DOMAIN srv[e].presets
    /\ available \/ index # srv[e].active
    /\ srv' = [srv EXCEPT ![e] =
         queue_preset_change([@ EXCEPT !.presets[index].available = available],
                             IF available THEN "available" ELSE "unavailable", index, NoRecord)]
    /\ cli' = [cli EXCEPT !.insync = @ /\ up = {}]
    /\ UNCHANGED <<up, down>>

\* take_pending_events, and the application sends what it took: a read of the
\* presets is over when its last response leaves.
take_pending_events(e) ==
    /\ srv[e].pending # <<>>
    /\ down' = [down EXCEPT ![e] = @ \o srv[e].pending]
    /\ srv' = [srv EXCEPT ![e] =
         [@ EXCEPT !.pending = <<>>,
                   !.reading = @ /\ ~\E n \in ToSet(srv[e].pending) : n.what = "read" /\ n.last]]
    /\ UNCHANGED <<cli, up, left>>

\* The client applies the events to what it knows of the ear.
Known(v, n) ==
    CASE n.what \in {"read", "updated"} ->
           [v EXCEPT !.presets = [i \in DOMAIN @ \cup {n.index} |->
                                    IF i = n.index THEN n.record ELSE @[i]]]
      [] n.what = "deleted" -> [v EXCEPT !.presets = [i \in DOMAIN @ \ {n.index} |-> @[i]]]
      [] n.what \in {"available", "unavailable"} ->
           [v EXCEPT !.presets[n.index].available = n.what = "available"]
      [] n.what = "active" -> [v EXCEPT !.active = n.index]

Receive(e) ==
    /\ down[e] # <<>>
    /\ cli' = [cli EXCEPT !.view[e] = FoldLeft(Known, @, down[e])]
    /\ down' = [down EXCEPT ![e] = <<>>]
    /\ UNCHANGED <<srv, up, left>>

First == CHOOSE i \in Indices : \A j \in Indices : i <= j

PresetInit ==
    /\ srv = [e \in Ears |-> [presets |-> Presets, active |-> First, reading |-> FALSE,
                              pending |-> <<>>]]
    /\ cli = [view |-> [e \in Ears |-> [presets |-> Presets, active |-> First]], insync |-> TRUE]
    /\ up = {}
    /\ down = [e \in Ears |-> <<>>]
    /\ left \in Plans

PresetNext ==
    \/ \E e \in Ears :
         \/ \E op \in left.ops : write_control_point(e, op)
         \/ \E i \in Indices : delete_preset(e, i) \/ \E a \in BOOLEAN : set_preset_available(e, i, a)
         \/ take_pending_events(e)
         \/ Receive(e)
    \/ \E w \in up : ApplyToPeer(w)

-----------------------------------------------------------------------------
\* A client that has received every event knows its ear's presets, their names
\* and availability, and the active one.
PresetViewFollows ==
    \A e \in Ears : srv[e].pending = <<>> /\ down[e] = <<>>
        => cli.view[e] = [presets |-> srv[e].presets, active |-> srv[e].active]

\* The active preset exists and is available, through renames, deletions and
\* changes of availability racing the operations of both clients; a read of the
\* presets is in progress exactly while its last response waits, so the next
\* read is not refused for ever; and two ears whose synchronized operations were
\* accepted by both, one at a time, play the same preset.
PresetsUsable ==
    /\ \A e \in Ears :
          /\ srv[e].active \in Available(srv[e])
          /\ srv[e].reading <=> \E n \in ToSet(srv[e].pending) : n.what = "read" /\ n.last
    /\ up = {} /\ cli.insync => \A e, f \in Ears : srv[e].active = srv[f].active
=============================================================================
