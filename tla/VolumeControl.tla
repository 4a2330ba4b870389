---------------------------- MODULE VolumeControl ----------------------------
(***************************************************************************)
(* The volume services (bumble-profiles/src/vcs.rs, vocs.rs, aics.rs):     *)
(* volume and mute, volume offset, and audio input.  Several clients read  *)
(* a service's state and write its control point, quoting the change       *)
(* counter they last saw; writes of different clients interleave between a *)
(* client's read and its write.                                            *)
(*                                                                         *)
(* Values too short for their operation are the operation "short".         *)
(***************************************************************************)
EXTENDS Integers, Sequences, FiniteSets, SequencesExt

CONSTANTS
    Clients,
    StepSize,    \* VolumeControlService::step_size
    Gains,       \* the gain settings allowed: minimum .. maximum
    Initial,     \* the states the three services may start in
    Plans        \* what a behaviour may do: [service, ops, writes], with each
                 \* operation [code, arg]

VARIABLES srv, cli, up, down, left

Octet == 256
Bumped(counter) == (counter + 1) % Octet
saturating_sub(v, d) == IF v < d THEN 0 ELSE v - d
saturating_add(v, d) == IF v + d > Octet - 1 THEN Octet - 1 ELSE v + d

\* What became of a write: [s, ok].
Ok(s) == [s |-> s, ok |-> TRUE]
Refused(s) == [s |-> s, ok |-> FALSE]

-----------------------------------------------------------------------------
\* update_volume: the counter moves when the volume or the mute state does.
Adjusted(s, op) ==
    CASE op.code \in {"DOWN", "UNMUTE_DOWN"} ->
           [s EXCEPT !.volume = saturating_sub(@, StepSize),
                     !.mute = IF op.code = "UNMUTE_DOWN" THEN 0 ELSE @]
      [] op.code \in {"UP", "UNMUTE_UP"} ->
           [s EXCEPT !.volume = saturating_add(@, StepSize),
                     !.mute = IF op.code = "UNMUTE_UP" THEN 0 ELSE @]
      [] op.code = "ABSOLUTE" -> [s EXCEPT !.volume = op.arg]
      [] op.code = "UNMUTE" -> [s EXCEPT !.mute = 0]
      [] op.code = "MUTE" -> [s EXCEPT !.mute = 1]

VolumeCodes == {"DOWN", "UP", "UNMUTE_DOWN", "UNMUTE_UP", "ABSOLUTE", "UNMUTE", "MUTE"}

\* Mutant: muting does not move the counter.
UpdateCountingVolume(s, op, counter) ==
    IF op.code \notin VolumeCodes \/ counter # s.counter THEN Refused(s)
    ELSE Ok(IF Adjusted(s, op).volume = s.volume THEN Adjusted(s, op)
            ELSE [Adjusted(s, op) EXCEPT !.counter = Bumped(@)])

update_volume(s, op, counter) ==
    IF op.code \notin VolumeCodes \/ counter # s.counter THEN Refused(s)
    ELSE Ok(IF Adjusted(s, op) = s THEN s
            ELSE [Adjusted(s, op) EXCEPT !.counter = Bumped(@)])

\* update_volume_offset: every accepted offset moves the counter.
MAX_VOLUME_OFFSET == 255

update_volume_offset(s, op, counter) ==
    IF op.code # "OFFSET" \/ counter # s.counter
         \/ op.arg \notin -MAX_VOLUME_OFFSET .. MAX_VOLUME_OFFSET
    THEN Refused(s)
    ELSE Ok([s EXCEPT !.offset = op.arg, !.counter = Bumped(@)])

\* update_audio_input: only muting checks the counter, and the gain setting
\* neither checks nor moves it.
SetTo(s, field, value) ==
    IF s[field] = value THEN Ok(s)
    ELSE Ok([s EXCEPT ![field] = value, !.counter = Bumped(@)])

update_audio_input(s, op, counter) ==
    CASE op.code = "GAIN" ->
           IF s.mode \notin {"MANUAL", "MANUAL_ONLY"} THEN Ok(s)
           ELSE IF op.arg \notin Gains THEN Refused(s)
           ELSE Ok([s EXCEPT !.gain = op.arg])
      [] op.code = "UNMUTE" ->
           IF s.mute = "DISABLED" THEN Refused(s) ELSE SetTo(s, "mute", "NOT_MUTED")
      [] op.code = "MUTE" ->
           IF s.mute = "DISABLED" \/ counter # s.counter THEN Refused(s)
           ELSE SetTo(s, "mute", "MUTED")
      [] op.code \in {"MANUAL", "AUTOMATIC"} ->
           IF s.mode \in {"AUTOMATIC_ONLY", "MANUAL_ONLY"} THEN Refused(s)
           ELSE SetTo(s, "mode", op.code)
      [] op.code \notin {"GAIN", "UNMUTE", "MUTE", "MANUAL", "AUTOMATIC"} -> Refused(s)

Updated(s, op, counter) ==
    CASE left.service = "vcs" -> update_volume(s, op, counter)
      [] left.service = "vocs" -> update_volume_offset(s, op, counter)
      [] left.service = "aics" -> update_audio_input(s, op, counter)

-----------------------------------------------------------------------------
\* A client reads the state (read_volume_state, read_volume_offset_state,
\* read_audio_input_state): answered with the state of that moment.
ReadState(c) ==
    /\ up[c] = <<>>
    /\ cli[c] # srv.state
    /\ cli' = [cli EXCEPT ![c] = srv.state]
    /\ UNCHANGED <<srv, up, down, left>>

\* A client writes an operation with the counter it saw (write_control_point,
\* set_volume_offset) and waits for the response.
WriteOperation(c, op) ==
    /\ up[c] = <<>>
    /\ left.writes > 0
    /\ left' = [left EXCEPT !.writes = @ - 1]
    /\ up' = [up EXCEPT ![c] = <<op>>]
    /\ UNCHANGED <<srv, cli, down>>

\* The server runs the write handler.  down remembers the last write accepted:
\* the state its writer had seen, and the one it met.
Handle(c) ==
    /\ up[c] # <<>>
    /\ \E r \in {Updated(srv.state, Head(up[c]), cli[c].counter)} :
          /\ srv' = [srv EXCEPT !.state = r.s]
          /\ down' = IF ~r.ok THEN down
                     ELSE <<[code |-> Head(up[c]).code, saw |-> cli[c], met |-> srv.state]>>
    /\ up' = [up EXCEPT ![c] = <<>>]
    /\ UNCHANGED <<cli, left>>

VolumeInit ==
    /\ left \in Plans
    /\ \E s \in Initial[left.service] :
          /\ srv = [state |-> s]
          /\ cli = [c \in Clients |-> s]
    /\ up = [c \in Clients |-> <<>>]
    /\ down = <<>>

VolumeNext ==
    \E c \in Clients :
      \/ ReadState(c)
      \/ \E op \in left.ops : WriteOperation(c, op)
      \/ Handle(c)

-----------------------------------------------------------------------------
\* Nobody changes what they have not seen: a volume or offset operation that was
\* accepted met exactly the state its writer had read, and muting an input met
\* the mute state and the gain mode its writer had read, whatever other clients
\* wrote in between, and with the counter wrapping (the change_counter of
\* update_volume, update_volume_offset and update_audio_input).
SeenBeforeChanged ==
    \A k \in 1 .. Len(down) :
      CASE left.service \in {"vcs", "vocs"} -> down[k].saw = down[k].met
        [] left.service = "aics" ->
             down[k].code = "MUTE"
                => /\ down[k].saw.mute = down[k].met.mute
                   /\ down[k].saw.mode = down[k].met.mode
=============================================================================
