---------------------------- MODULE HostStartup ----------------------------
(***************************************************************************)
(* The life of a Device's controller session: power_on, reset, power_off,  *)
(* the capability discovery and host initialization that poll drives from  *)
(* the command completions, the LE activity flags, and the timer that      *)
(* rotates the resolvable private address.                                 *)
(*                                                                         *)
(* The host never waits.  It queues commands, and every completion decides *)
(* in poll which commands are next.  Between a command and its completion  *)
(* the application may reset again, so completions of an abandoned start   *)
(* reach a host that has begun a new one.  The controller executes the     *)
(* commands in order, at its own pace (an external one), and the host      *)
(* polls when it likes.                                                    *)
(***************************************************************************)
EXTENDS Integers, FiniteSets, Sequences, SequencesExt

CONSTANTS
    Profiles,   \* the controllers to start: [sup, fails, lastPage, length]
    MaxCalls,   \* how many calls the application makes
    RpaTimeout, \* le_rpa_timeout; 0 disables the timer
    Elapsed     \* the durations advance_rpa_timeout is given

VARIABLES
    host,       \* the Device
    ctl,        \* the controller
    cmds,       \* commands submitted and not yet executed, in order
    evs,        \* command completions not yet polled, in order
    left        \* calls the application may still make

vars == <<host, ctl, cmds, evs, left>>

\* The pages of LMP features a controller may report.
Pages == 0 .. 3

\* The commands of the initialization, by the name of the status each sets,
\* in the order maybe_start_host_initialization sends them.
InitOrder ==
    <<"Mask", "Mask2", "LeMask", "Buffer", "LeBuffer", "Length", "Sets", "MaxData">>

\* LeReadBufferSizeV2 is preferred to LeReadBufferSize; both set one status.
Statuses ==
    {"Version", "LeFeatures", "Write"} \cup ToSet(InitOrder)

\* Whether the controller's bitmap makes the host send a command of InitOrder.
\* The two event masks of every controller are sent unconditionally.
Wanted(sup, op) ==
    CASE op \in {"Mask", "LeMask"} -> TRUE
      [] op = "LeBuffer" -> sup \cap {"LeBufferV2", "LeBufferV1"} # {}
      [] OTHER -> op \in sup

\* clear_host_initialization_state: nothing is known of this start yet.
NotInitialized ==
    [started |-> FALSE, complete |-> FALSE, write |-> FALSE,
     status |-> [op \in Statuses |-> {}]]

\* What reset and power_on both forget of the controller's capabilities.
NotDiscovered ==
    [ready |-> FALSE, commands |-> {}, lmp |-> [p \in Pages |-> {}],
     lastPage |-> {}, pending |-> <<>>, init |-> NotInitialized]

\* The activities whose flags the host keeps.
Idle == [advertising |-> FALSE, scanning |-> FALSE, connecting |-> FALSE]

Init ==
    /\ \E p \in Profiles :
          ctl = [profile |-> p, done |-> {}, length |-> p.length,
                 active |-> Idle, random |-> 0]
    /\ host = [powered |-> FALSE,
               session |-> [NotDiscovered EXCEPT !.ready = TRUE], flags |-> Idle,
               random |-> 0, elapsed |-> 0, scanTypes |-> FALSE]
    /\ cmds = <<>>
    /\ evs = <<>>
    /\ left = MaxCalls

Cmd(op) == [op |-> op, page |-> 0]

-----------------------------------------------------------------------------
(* The controller.                                                         *)

Fails(c) == c.op \in ctl.profile.fails

\* handle_command, as far as the host's start depends on it: Reset stops every
\* activity and forgets the configuration, the setters take effect, and the
\* reads answer from the profile.
Executed(c) ==
    CASE c.op = "Reset" /\ ~Fails(c) ->
           [ctl EXCEPT !.done = {}, !.active = Idle]
      [] c.op = "Write" /\ ~Fails(c) ->
           [ctl EXCEPT !.length = "host", !.done = @ \cup {"Write"}]
      [] c.op = "RandomAddress" -> [ctl EXCEPT !.random = c.page]
      [] c.op = "Advertise" -> [ctl EXCEPT !.active.advertising = c.page = 1]
      [] c.op = "Scan" -> [ctl EXCEPT !.active.scanning = c.page = 1]
      [] c.op = "Connect" -> [ctl EXCEPT !.active.connecting = TRUE]
      [] OTHER -> IF Fails(c) THEN ctl ELSE [ctl EXCEPT !.done = @ \cup {c.op}]

\* The completion: a failure is the bare status, with no page in it.
Answer(c) ==
    [op |-> c.op, status |-> IF Fails(c) THEN 1 ELSE 0,
     page |-> c.page, last |-> ctl.profile.lastPage, length |-> ctl.length]

Execute ==
    /\ cmds # <<>>
    /\ ctl' = Executed(Head(cmds))
    /\ evs' = Append(evs, Answer(Head(cmds)))
    /\ cmds' = Tail(cmds)
    /\ UNCHANGED <<host, left>>

-----------------------------------------------------------------------------
(* The host's reaction to completions.  A state here is [h, out]: the       *)
(* Device and the commands the step has sent.                               *)

Sent(s, ops) == [s EXCEPT !.out = @ \o ops]

Sup(h) == UNION h.session.commands

\* capability_discovery_complete.  With the extended read, every page up to the
\* last is needed, unless one of them failed.
capability_discovery_complete(n) ==
    /\ n.commands # {}
    /\ LET sup == UNION n.commands IN
       /\ "Version" \in sup => n.init.status["Version"] # {}
       /\ sup \cap {"LeAll", "LeLegacy"} # {} => n.init.status["LeFeatures"] # {}
       /\ IF "Extended" \in sup
          THEN /\ n.pending = <<>>
               /\ \E p \in Pages : n.lmp[p] # {}
               /\ \/ \E p \in Pages : 1 \in n.lmp[p]
                  \/ \E last \in n.lastPage : \A p \in 0 .. last : n.lmp[p] # {}
          ELSE "Features" \in sup => n.lmp[0] # {}

InitCommands(sup) ==
    LET wanted == SelectSeq(InitOrder, LAMBDA op : Wanted(sup, op))
    IN  [i \in DOMAIN wanted |-> Cmd(wanted[i])]

maybe_start_host_initialization(s) ==
    IF s.h.session.init.started \/ ~capability_discovery_complete(s.h.session)
    THEN s
    ELSE Sent([s EXCEPT !.h.session.init.started = TRUE], InitCommands(Sup(s.h)))

\* The statuses maybe_finish_host_initialization waits for.
Required(h) ==
    {op \in ToSet(InitOrder) : Wanted(Sup(h), op)}
        \cup IF h.session.init.write THEN {"Write"} ELSE {}

Succeeded(h) == \A op \in Required(h) : h.session.init.status[op] = {0}

\* maybe_finish_host_initialization; a start that succeeded writes the
\* interlaced scan types, once.
maybe_finish_host_initialization(s) ==
    LET i == s.h.session.init IN
    IF ~i.started \/ i.complete \/ \E op \in Required(s.h) : i.status[op] = {}
    THEN s
    ELSE IF Succeeded(s.h)
         THEN Sent([s EXCEPT !.h.session.init.complete = TRUE, !.h.scanTypes = TRUE],
                   <<Cmd("ScanType")>>)
         ELSE [s EXCEPT !.h.session.init.complete = TRUE]

request_local_lmp_feature_page(s, page) ==
    Sent([s EXCEPT !.h.session.pending = Append(@, page)],
         <<[op |-> "Extended", page |-> page]>>)

\* The Supported Commands decide what else is discovered.
OnCommands(s, e) ==
    IF e.status # 0 THEN s
    ELSE LET sup == ctl.profile.sup
             known == [s EXCEPT !.h.session.commands = {sup}]
             reads == SelectSeq(<<"Version", "LeAll", "LeLegacy">>, LAMBDA op :
                          op \in sup /\ (op = "LeLegacy" => "LeAll" \notin sup))
             asked == Sent(known, [i \in DOMAIN reads |-> Cmd(reads[i])])
         IN  maybe_start_host_initialization(
                 IF "Extended" \in sup THEN request_local_lmp_feature_page(asked, 0)
                 ELSE IF "Features" \in sup THEN Sent(asked, <<Cmd("Features")>>)
                 ELSE asked)

\* A mutant of OnExtended: a failure only records its status.
OnExtendedKeepsPending(s, e) ==
    LET n == s.h.session IN
    maybe_start_host_initialization(
        IF e.status # 0
        THEN IF n.pending = <<>> THEN s
             ELSE [s EXCEPT !.h.session.lmp[Head(n.pending)] = {e.status}]
        ELSE [s EXCEPT !.h.session.pending = <<>>,
                       !.h.session.lmp = [p \in Pages |-> {0}],
                       !.h.session.lastPage = {e.last}])

\* A page of features.  A failure carries no page: it is charged to the oldest
\* page asked for.
OnExtended(s, e) ==
    LET n == s.h.session IN
    maybe_start_host_initialization(
        IF e.status # 0
        THEN IF n.pending = <<>> THEN s
             ELSE [s EXCEPT !.h.session.pending = Tail(@),
                            !.h.session.lmp[Head(n.pending)] = {e.status}]
        ELSE LET at == {i \in DOMAIN n.pending : n.pending[i] = e.page}
                 first == CHOOSE i \in at : \A j \in at : i <= j
                 read == [s EXCEPT
                            !.h.session.pending =
                                IF at = {} THEN @ ELSE RemoveAt(@, first),
                            !.h.session.lmp[e.page] = {0},
                            !.h.session.lastPage = {e.last}]
             IN  IF e.page < e.last
                 THEN request_local_lmp_feature_page(read, e.page + 1) ELSE read)

\* The suggested default data length; a controller that suggests something
\* else than the host's is written to before the start can finish.
OnLength(s, e) ==
    LET read == [s EXCEPT !.h.session.init.status["Length"] = {e.status}]
        differs == e.length # "host"
    IN  maybe_finish_host_initialization(
            IF e.status # 0 THEN read
            ELSE IF differs
            THEN Sent([read EXCEPT !.h.session.init.write = TRUE], <<Cmd("Write")>>)
            ELSE [read EXCEPT !.h.session.init.write = FALSE])

\* The remaining completions only set their status.
Noted(s, name, e) == [s EXCEPT !.h.session.init.status[name] = {e.status}]

\* Each of them may be the one the start was waiting for.
OnConfigured(s, e) == maybe_finish_host_initialization(Noted(s, e.op, e))

\* poll: until the Reset is answered every packet is discarded.
OnEvent(s, e) ==
    CASE e.op = "Reset" -> [s EXCEPT !.h.session.ready = e.status = 0]
      [] e.op # "Reset" /\ ~s.h.session.ready -> s
      [] e.op = "Commands" /\ s.h.session.ready -> OnCommands(s, e)
      [] e.op = "Version" /\ s.h.session.ready ->
           maybe_start_host_initialization(Noted(s, "Version", e))
      [] e.op \in {"LeAll", "LeLegacy"} /\ s.h.session.ready ->
           maybe_start_host_initialization(Noted(s, "LeFeatures", e))
      [] e.op = "Features" /\ s.h.session.ready ->
           maybe_start_host_initialization(
               [s EXCEPT !.h.session.lmp[0] = {e.status},
                         !.h.session.lastPage = IF e.status = 0 THEN {0} ELSE @])
      [] e.op = "Extended" /\ s.h.session.ready -> OnExtended(s, e)
      [] e.op = "Length" /\ s.h.session.ready -> OnLength(s, e)
      [] e.op \in Statuses \ {"Version", "Length"} /\ s.h.session.ready ->
           OnConfigured(s, e)
      [] OTHER -> s

Poll ==
    /\ evs # <<>>
    /\ \E s \in {FoldLeft(OnEvent, [h |-> host, out |-> <<>>], evs)} :
          /\ host' = s.h
          /\ cmds' = cmds \o s.out
    /\ evs' = <<>>
    /\ UNCHANGED <<ctl, left>>

-----------------------------------------------------------------------------
(* The application's calls.                                                 *)

Call == left > 0 /\ left' = left - 1

\* power_on: forgets everything of the previous session, programs a fresh
\* random address, and starts the discovery.
PowerOn ==
    /\ Call
    /\ host' = [powered |-> TRUE, session |-> NotDiscovered, flags |-> Idle,
                random |-> host.random + 1, elapsed |-> 0, scanTypes |-> FALSE]
    /\ cmds' = cmds \o <<Cmd("Reset"),
                         [op |-> "RandomAddress", page |-> host.random + 1],
                         Cmd("Configure"), Cmd("Commands")>>
    /\ UNCHANGED <<ctl, evs>>

\* flush drops what was waiting for pages and the connection attempt.
flush(h) ==
    IF h.powered \/ h.flags.connecting
    THEN [h EXCEPT !.session.pending = <<>>, !.flags.connecting = FALSE] ELSE h

\* A mutant of Reset: clear_host_initialization_state is not called.
ResetKeepsInit ==
    /\ Call
    /\ host' = [flush(host) EXCEPT
                  !.session = [NotDiscovered EXCEPT !.init = host.session.init],
                  !.scanTypes = FALSE]
    /\ cmds' = cmds \o <<Cmd("Reset"), Cmd("Commands")>>
    /\ UNCHANGED <<ctl, evs>>

\* reset: a flushed host forgets the capabilities and starts discovery again.
\* The advertising and scanning flags stay as they were.
Reset ==
    /\ Call
    /\ host' = [flush(host) EXCEPT !.session = NotDiscovered, !.scanTypes = FALSE]
    /\ cmds' = cmds \o <<Cmd("Reset"), Cmd("Commands")>>
    /\ UNCHANGED <<ctl, evs>>

\* power_off only marks the host: the controller is told nothing.
PowerOff ==
    /\ Call
    /\ host' = [flush(host) EXCEPT !.powered = FALSE, !.flags = Idle, !.elapsed = 0]
    /\ UNCHANGED <<ctl, cmds, evs>>

\* start_advertising / stop_advertising.
Advertise(on) ==
    /\ Call
    /\ host' = [host EXCEPT !.flags.advertising = on]
    /\ cmds' = Append(cmds, [op |-> "Advertise", page |-> IF on THEN 1 ELSE 0])
    /\ UNCHANGED <<ctl, evs>>

\* start_scanning / stop_scanning, and their extended forms.
Scan(on) ==
    /\ Call
    /\ host' = [host EXCEPT !.flags.scanning = on]
    /\ cmds' = Append(cmds, [op |-> "Scan", page |-> IF on THEN 1 ELSE 0])
    /\ UNCHANGED <<ctl, evs>>

\* connect_le and connect_le_extended: an attempt is under way until it completes.
ConnectLe ==
    /\ Call
    /\ host' = [host EXCEPT !.flags.connecting = TRUE]
    /\ cmds' = Append(cmds, Cmd("Connect"))
    /\ UNCHANGED <<ctl, evs>>

\* update_rpa: a fresh address, kept and programmed.
update_rpa ==
    /\ host' = [host EXCEPT !.random = @ + 1, !.elapsed = 0]
    /\ cmds' = Append(cmds, [op |-> "RandomAddress", page |-> host.random + 1])
    /\ UNCHANGED <<ctl, evs>>

\* The timer came due.
Due(seconds) ==
    host.powered /\ RpaTimeout # 0 /\ host.elapsed + seconds >= RpaTimeout

Busy(h) == h.flags.advertising \/ h.flags.scanning \/ h.flags.connecting

\* advance_rpa_timeout: a due timer starts again, and rotates the address
\* unless an activity is under way.
AdvanceRpaTimeout(seconds) ==
    /\ Call
    /\ IF Due(seconds) /\ ~Busy(host) THEN update_rpa
       ELSE /\ host' = [host EXCEPT !.elapsed =
                          IF ~host.powered \/ RpaTimeout = 0 \/ Due(seconds) THEN 0
                          ELSE @ + seconds]
            /\ UNCHANGED <<ctl, cmds, evs>>

Next ==
    \/ Execute
    \/ Poll
    \/ PowerOn
    \/ Reset
    \/ PowerOff
    \/ \E on \in BOOLEAN : Advertise(on)
    \/ \E on \in BOOLEAN : Scan(on)
    \/ ConnectLe
    \/ \E seconds \in Elapsed : AdvanceRpaTimeout(seconds)

Spec == Init /\ [][Next]_vars

-----------------------------------------------------------------------------
(* Properties.                                                              *)

Quiet == cmds = <<>> /\ evs = <<>>

\* A start that the controller lets begin always ends: when every command has
\* been executed and every completion polled, a powered host that knows the
\* supported commands has finished its initialization, with the status the controller
\* gave to each command it needed, whatever commands the controller lacks or
\* refuses and however many resets and starts were abandoned half-way
\* (maybe_start_host_initialization, maybe_finish_host_initialization).
StartupCompletes ==
    Quiet /\ host.powered /\ host.session.commands # {} =>
        /\ host.session.init.complete
        /\ \A op \in Required(host) : host.session.init.status[op] =
              {IF op \in ctl.profile.fails THEN 1 ELSE 0}
        /\ host.scanTypes = Succeeded(host)

\* Once nothing is in flight, a status of success is about the present
\* configuration of the controller: a completion of a start that a later Reset
\* undid never stands for the current start (the controller_ready gate of poll).
\* While three starts overlap it may, until the current one's own completions
\* replace it.
ResultsInForce ==
    Quiet => \A op \in {"Mask", "Mask2", "LeMask"} :
        host.session.init.status[op] = {0} => op \in ctl.done
=============================================================================
