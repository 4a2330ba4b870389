---------------------------- MODULE ScanDelegator ----------------------------
(***************************************************************************)
(* The Broadcast Audio Scan service (bumble-profiles/src/bass.rs): clients *)
(* write control point operations, which the application takes one by one, *)
(* and the application publishes the receive state of each of its slots.   *)
(* Each slot is kept by a thread of its own; the slot is changed under one *)
(* lock and the notification queued under another.                         *)
(***************************************************************************)
EXTENDS Integers, Sequences, FiniteSets, SequencesExt

CONSTANTS
    Slots,        \* the receive states; 0 is an empty one
    Sources,      \* the broadcast sources a client asks for
    MaxOperations,
    MaxChanges    \* bounds on the client's operations and the application's changes

VARIABLES srv, cli, up, down, left

\* Which slot an operation is about: a source is kept in the slot of its number.
SlotOf(op) == IF op.source \in Slots THEN op.source ELSE CHOOSE s \in Slots : TRUE

\* send_control_point_operation: an operation that parses is queued.
send_control_point_operation(op) ==
    /\ left.operations > 0
    /\ left' = [left EXCEPT !.operations = @ - 1]
    /\ up' = Append(up, op)
    /\ UNCHANGED <<srv, cli, down>>

\* take_operation, by the thread of the slot it is about, once it is idle.
take_operation ==
    /\ up # <<>>
    /\ \E op \in {Head(up)} :
         \E s \in {SlotOf(op)} :
           /\ srv.todo[s] = <<>>
           /\ srv.queued[s] = <<>>
           /\ srv' = [srv EXCEPT !.todo[s] = <<IF op.code = "add" THEN op.source * 10 ELSE 0>>]
    /\ up' = Tail(up)
    /\ UNCHANGED <<cli, down, left>>

\* Synchronization with the source of a slot comes and goes.
SyncChanges(s) ==
    /\ left.changes > 0
    /\ srv.todo[s] = <<>>
    /\ srv.queued[s] = <<>>
    /\ srv.states[s] # 0
    /\ left' = [left EXCEPT !.changes = @ - 1]
    /\ srv' = [srv EXCEPT !.todo[s] = <<IF srv.states[s] % 2 = 0
                                        THEN srv.states[s] + 1 ELSE srv.states[s] - 1>>]
    /\ UNCHANGED <<cli, up, down>>

\* set_receive_state, first half: the slot, under the lock of the states.
SetSlot(s) ==
    /\ srv.todo[s] # <<>>
    /\ srv' = [srv EXCEPT !.states[s] = srv.todo[s][1], !.todo[s] = <<>>,
                          !.queued[s] = srv.todo[s]]
    /\ UNCHANGED <<cli, up, down, left>>

\* Second half: the notification, under the lock of the queue.
QueueState(s) ==
    /\ srv.queued[s] # <<>>
    /\ srv' = [srv EXCEPT !.pending = Append(@, <<s, srv.queued[s][1]>>), !.queued[s] = <<>>]
    /\ UNCHANGED <<cli, up, down, left>>

\* take_pending_notifications, and the application sends what it took.
take_pending_notifications ==
    /\ srv.pending # <<>>
    /\ down' = down \o srv.pending
    /\ srv' = [srv EXCEPT !.pending = <<>>]
    /\ UNCHANGED <<cli, up, left>>

\* read_receive_state: a read overtakes the notifications that are still queued.
read_receive_state(s) ==
    /\ cli[s] # srv.states[s]
    /\ down' = Append(down, <<s, srv.states[s]>>)
    /\ left.changes > 0
    /\ left' = [left EXCEPT !.changes = @ - 1]
    /\ UNCHANGED <<srv, cli, up>>

\* state_from_notification, or the response of a read.
Receive ==
    /\ down # <<>>
    /\ cli' = [cli EXCEPT ![Head(down)[1]] = Head(down)[2]]
    /\ down' = Tail(down)
    /\ UNCHANGED <<srv, up, left>>

ScanInit ==
    /\ srv = [states |-> [s \in Slots |-> 0], todo |-> [s \in Slots |-> <<>>],
              queued |-> [s \in Slots |-> <<>>], pending |-> <<>>]
    /\ cli = [s \in Slots |-> 0]
    /\ up = <<>>
    /\ down = <<>>
    /\ left = [operations |-> MaxOperations, changes |-> MaxChanges]

ScanNext ==
    \/ \E c \in {"add", "remove"}, b \in Sources :
         send_control_point_operation([code |-> c, source |-> b])
    \/ take_operation
    \/ \E s \in Slots :
         SyncChanges(s) \/ SetSlot(s) \/ QueueState(s) \/ read_receive_state(s)
    \/ take_pending_notifications
    \/ Receive

-----------------------------------------------------------------------------
\* A client that has received everything knows every receive state, though a slot
\* and its notification change hands under two locks and reads overtake what is
\* queued (set_receive_state).
ReceiveStateViewFollows ==
    /\ down = <<>>
    /\ srv.pending = <<>>
    /\ \A s \in Slots : srv.queued[s] = <<>>
    => cli = srv.states
=============================================================================
