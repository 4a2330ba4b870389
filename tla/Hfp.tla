-------------------------------- MODULE Hfp --------------------------------
(***************************************************************************)
(* The Hands-Free Profile (bumble-hfp/src/lib.rs): HfProtocol, the         *)
(* hands-free unit that sets up the service level connection (SLC) one AT  *)
(* command at a time, and AgProtocol, the audio gateway that answers, over *)
(* a reliable link.  Both ends also act on their own: the unit sends       *)
(* commands, the gateway reports indicators, rings and proposes codecs.    *)
(*                                                                         *)
(* A message is [c, list, feats]: the code, its numbers, its feature set.  *)
(* Each is fed alone, as drain_outgoing cuts them.  Texts, numbers to dial *)
(* and parsing are left out.                                               *)
(***************************************************************************)
EXTENDS Integers, FiniteSets, Sequences, SequencesExt

CONSTANTS
    Setups,     \* pairs of configurations: <<HfConfiguration, AgConfiguration>>
    Values,     \* the values an indicator takes
    Codecs,     \* the codecs an application asks for
    HfCalls,    \* how many calls the unit's application makes
    AgCalls     \* and the gateway's

VARIABLES hf, ag, toHf, toAg, left

hfpVars == <<hf, ag, toHf, toAg, left>>

Msg(c, list) == [c |-> c, list |-> list, feats |-> {}]
Feats(c, feats) == [c |-> c, list |-> <<>>, feats |-> feats]

CVSD == 1

\* Two histories.  swallowed: an unsolicited message was taken for part of an
\* answer.  unread: indicators that changed while they were not reported, and
\* were not read since.
HfpInit ==
    /\ \E s \in Setups :
          /\ hf = [cfg |-> s[1], pending |-> {}, next |-> 0, done |-> <<>>, selecting |-> {},
                   features |-> {}, ag |-> <<>>,
                   ind |-> [i \in s[1].indicators |-> [supported |-> FALSE, enabled |-> FALSE]],
                   ops |-> {}, slc |-> FALSE, codec |-> CVSD, swallowed |-> FALSE]
          /\ ag = [cfg |-> s[2], features |-> {}, codecs |-> {}, ind |-> [i \in {} |-> 0],
                   report |-> FALSE, slc |-> FALSE, core |-> FALSE, chld |-> FALSE,
                   bind |-> FALSE, codec |-> CVSD, calls |-> <<>>,
                   state |-> [i \in 1 .. s[2].indicators |-> [v |-> 0, on |-> TRUE]],
                   unread |-> {}]
    /\ toHf = <<>>
    /\ toAg = <<>>
    /\ left = [hf |-> HfCalls, ag |-> AgCalls]

Both(f, g, feature) == feature \in f /\ feature \in g

-----------------------------------------------------------------------------
(* The gateway.  An answer is [a, out].                                     *)

Did(a, out) == [a |-> a, out |-> out]
OK == Msg("OK", <<>>)
ERROR == Msg("ERROR", <<>>)

update_slc_complete(a) ==
    [a EXCEPT !.slc =
       /\ a.core
       /\ Both(a.features, a.cfg.features, "three_way") => a.chld
       /\ Both(a.features, a.cfg.features, "indicators") => a.bind]

on_cind_test(a) ==
    IF a.cfg.indicators = 0 THEN Did(a, <<ERROR>>)
    ELSE Did(a, <<Msg("+CIND", [i \in 1 .. a.cfg.indicators |-> i]), OK>>)

on_cind_read(a) ==
    IF a.cfg.indicators = 0 THEN Did(a, <<ERROR>>)
    ELSE Did([a EXCEPT !.unread = {}],
             <<Msg("+CIND", [i \in 1 .. a.cfg.indicators |-> a.state[i].v]), OK>>)

\* The unit only ever asks for reports on.
on_cmer(a) == Did(update_slc_complete([a EXCEPT !.report = TRUE, !.core = TRUE]), <<OK>>)

on_chld_test(a) ==
    IF "three_way" \notin a.cfg.features THEN Did(a, <<ERROR>>)
    ELSE Did(update_slc_complete([a EXCEPT !.chld = TRUE]),
             <<Feats("+CHLD", a.cfg.ops), OK>>)

on_bind(a, m) ==
    IF "indicators" \notin a.cfg.features THEN Did(a, <<ERROR>>)
    ELSE Did([a EXCEPT !.ind = [i \in ToSet(m.list) \cap a.cfg.hfIndicators |-> 0]], <<OK>>)

Sorted(s) == SetToSortSeq(s, <)

\* Mutant: the last command of the set-up is answered, and that is all.
BindReadOnly(a) ==
    Did([a EXCEPT !.bind = TRUE],
        [i \in 1 .. Cardinality(DOMAIN a.ind) |-> Msg("+BIND", <<Sorted(DOMAIN a.ind)[i], 1>>)]
            \o <<OK>>)

on_bind_read(a) ==
    Did(update_slc_complete([a EXCEPT !.bind = TRUE]),
        [i \in 1 .. Cardinality(DOMAIN a.ind) |-> Msg("+BIND", <<Sorted(DOMAIN a.ind)[i], 1>>)]
            \o <<OK>>)

on_biev(a, m) ==
    IF m.list[1] \notin DOMAIN a.ind THEN Did(a, <<ERROR>>)
    ELSE Did([a EXCEPT !.ind[m.list[1]] = m.list[2]], <<OK>>)

\* Only the indicators the command names are switched.
on_bia(a, m) ==
    Did([a EXCEPT !.state = [i \in DOMAIN @ |->
           IF i <= Len(m.list) THEN [@[i] EXCEPT !.on = m.list[i] # 0] ELSE @[i]]], <<OK>>)

\* Mutant: the codec is in use although the unit did not offer it.
OnBcsAny(a, m) == Did([a EXCEPT !.codec = m.list[1]],
                      <<IF m.list[1] \in a.codecs THEN OK ELSE ERROR>>)

on_bcs(a, m) ==
    IF m.list[1] \notin a.codecs THEN Did(a, <<ERROR>>)
    ELSE Did([a EXCEPT !.codec = m.list[1]], <<OK>>)

\* An operation on one call needs a call of that index.
on_chld(a, m) ==
    IF m.feats \subseteq a.cfg.ops /\ \A i \in ToSet(m.list) : i \in ToSet(a.calls)
    THEN Did(a, <<OK>>) ELSE Did(a, <<ERROR>>)

on_clcc(a) == Did(a, [i \in DOMAIN a.calls |-> Msg("+CLCC", <<a.calls[i]>>)] \o <<OK>>)

\* Answer, dial, hang up, voice recognition, volumes and the other settings: an
\* event or a flag, and OK.
Simple == {"A", "D", "CHUP", "BCC", "BVRA", "VGS", "VGM", "CLIP", "CMEE", "CCWA"}

on_command(a, m) ==
    CASE m.c = "BRSF" ->
           Did([a EXCEPT !.features = m.feats], <<Feats("+BRSF", a.cfg.features), OK>>)
      [] m.c = "BAC" -> Did([a EXCEPT !.codecs = ToSet(m.list)], <<OK>>)
      [] m.c = "CIND=?" -> on_cind_test(a)
      [] m.c = "CIND?" -> on_cind_read(a)
      [] m.c = "CMER" -> on_cmer(a)
      [] m.c = "CHLD=?" -> on_chld_test(a)
      [] m.c = "BIND" -> on_bind(a, m)
      [] m.c = "BIND=?" -> Did(a, <<Msg("+BIND", Sorted(a.cfg.hfIndicators)), OK>>)
      [] m.c = "BIND?" -> on_bind_read(a)
      [] m.c = "BIEV" -> on_biev(a, m)
      [] m.c = "BIA" -> on_bia(a, m)
      [] m.c = "BCS" -> on_bcs(a, m)
      [] m.c = "CHLD" -> on_chld(a, m)
      [] m.c = "CLCC" -> on_clcc(a)
      [] m.c \in Simple -> Did(a, <<OK>>)

AgFeed ==
    /\ toAg # <<>>
    /\ LET r == on_command(ag, Head(toAg))
       IN  ag' = r.a /\ toHf' = toHf \o r.out
    /\ toAg' = Tail(toAg)
    /\ UNCHANGED <<hf, left>>

AgCall == left.ag > 0 /\ left' = [left EXCEPT !.ag = @ - 1]

update_ag_indicator(i, v) ==
    /\ AgCall
    /\ IF ag.report /\ ag.state[i].on
       THEN /\ ag' = [ag EXCEPT !.state[i].v = v, !.unread = @ \ {i}]
            /\ toHf' = Append(toHf, Msg("+CIEV", <<i, v>>))
       ELSE /\ ag' = [ag EXCEPT !.state[i].v = v, !.unread = @ \cup {i}]
            /\ toHf' = toHf
    /\ UNCHANGED <<hf, toAg>>

propose_codec(codec) ==
    /\ AgCall
    /\ codec \in ag.codecs
    /\ toHf' = Append(toHf, Msg("+BCS", <<codec>>))
    /\ UNCHANGED <<hf, ag, toAg>>

\* send_ring, volumes, caller id, in-band ringing, voice recognition.
AgNotify ==
    /\ AgCall
    /\ \E c \in {"RING", "+BSIR"} : toHf' = Append(toHf, Msg(c, <<>>))
    /\ UNCHANGED <<hf, ag, toAg>>

\* The application keeps the list of calls.
AgCallsChange ==
    /\ AgCall
    /\ ag' = [ag EXCEPT !.calls = IF @ = <<>> THEN <<1, 2>> ELSE <<>>]
    /\ UNCHANGED <<hf, toHf, toAg>>

-----------------------------------------------------------------------------
(* The unit.  A step is [h, out].                                           *)

Pending(kind, id, expects) == {[kind |-> kind, id |-> id, expects |-> expects, got |-> <<>>]}

\* queue_command: one command is pending at a time.
send_command(h, kind, m) == Did([h EXCEPT !.pending = Pending(kind, 0, "slc")], <<m>>)

after_chld(h) ==
    IF Both(h.cfg.features, h.features, "indicators")
    THEN send_command(h, "BIND", Msg("BIND", Sorted(h.cfg.indicators)))
    ELSE Did([h EXCEPT !.slc = TRUE], <<>>)

after_cmer(h) ==
    IF Both(h.cfg.features, h.features, "three_way")
    THEN send_command(h, "CHLD=?", Msg("CHLD=?", <<>>)) ELSE after_chld(h)

\* single_response: one response, of this code.
Single(got, c) == Len(got) = 1 /\ got[1].c = c

\* on_slc_command_complete.  A response that is missing or not the one awaited
\* is an error: nothing is sent and the set-up stops.
on_slc_command_complete(h, kind, got) ==
    CASE kind = "BRSF" /\ Single(got, "+BRSF") ->
           LET g == [h EXCEPT !.features = got[1].feats]
           IN  IF Both(g.cfg.features, g.features, "codecs")
               THEN send_command(g, "BAC", Msg("BAC", Sorted(g.cfg.codecs)))
               ELSE send_command(g, "CIND=?", Msg("CIND=?", <<>>))
      [] kind = "BAC" -> send_command(h, "CIND=?", Msg("CIND=?", <<>>))
      [] kind = "CIND=?" /\ Single(got, "+CIND") ->
           send_command([h EXCEPT !.ag = [i \in DOMAIN got[1].list |-> 0]],
                        "CIND?", Msg("CIND?", <<>>))
      [] kind = "CIND?" /\ Single(got, "+CIND") /\ Len(got[1].list) = Len(h.ag) ->
           send_command([h EXCEPT !.ag = got[1].list], "CMER", Msg("CMER", <<>>))
      [] kind = "CMER" -> after_cmer(h)
      [] kind = "CHLD=?" /\ Single(got, "+CHLD") ->
           after_chld([h EXCEPT !.ops = got[1].feats])
      [] kind = "BIND" -> send_command(h, "BIND=?", Msg("BIND=?", <<>>))
      [] kind = "BIND=?" /\ Single(got, "+BIND") ->
           send_command([h EXCEPT !.ind = [i \in DOMAIN @ |->
                           IF i \in ToSet(got[1].list) THEN [@[i] EXCEPT !.supported = TRUE]
                           ELSE @[i]]], "BIND?", Msg("BIND?", <<>>))
      [] kind = "BIND?" /\ \A r \in ToSet(got) : r.c = "+BIND" ->
           Did([h EXCEPT !.slc = TRUE, !.ind = [i \in DOMAIN @ |->
                  [@[i] EXCEPT !.enabled = @ \/ \E r \in ToSet(got) : r.list = <<i, 1>>]]], <<>>)
      [] OTHER -> Did(h, <<>>)

CountOk(expects, got) == expects = "none" => got = <<>>

\* OK for a command of the application.
on_user_complete(h, p) ==
    IF ~CountOk(p.expects, p.got) THEN Did(h, <<>>)
    ELSE LET mine == {s \in h.selecting : s[1] = p.id}
         IN  Did([h EXCEPT !.codec = IF mine = {} THEN @ ELSE (CHOOSE s \in mine : TRUE)[2],
                           !.selecting = @ \ mine,
                           !.done = Append(@, [id |-> p.id, got |-> p.got])], <<>>)

\* An indicator the unit does not know is an error; other codes are events.
on_unsolicited(h, m) ==
    Did(IF m.c = "+CIEV" /\ m.list[1] \in DOMAIN h.ag
        THEN [h EXCEPT !.ag[m.list[1]] = m.list[2]] ELSE h, <<>>)

Unsolicited == {"+CIEV", "+BCS", "RING", "+BSIR"}

Drops(h, p) == [h EXCEPT !.pending = {}, !.selecting = {s \in @ : s[1] # p.id}]

\* feed, for one message.  While a command is pending, every message but a
\* status belongs to it.
feed(h, m) ==
    CASE h.pending = {} -> IF m.c = "ERROR" THEN Did(h, <<>>) ELSE on_unsolicited(h, m)
      [] h.pending # {} ->
           LET p == CHOOSE q \in h.pending : TRUE
               g == [h EXCEPT !.pending = {}]
           IN  CASE m.c = "ERROR" -> Did(IF p.expects = "slc" THEN g ELSE Drops(h, p), <<>>)
                 [] m.c = "OK" -> IF p.expects = "slc"
                                  THEN on_slc_command_complete(g, p.kind, p.got)
                                  ELSE on_user_complete(g, p)
                 [] OTHER -> Did([h EXCEPT !.pending = {[p EXCEPT !.got = Append(@, m)]},
                                           !.swallowed = @ \/ m.c \in Unsolicited], <<>>)

HfFeed ==
    /\ toHf # <<>>
    /\ LET r == feed(hf, Head(toHf))
       IN  hf' = r.a /\ toAg' = toAg \o r.out
    /\ toHf' = Tail(toHf)
    /\ UNCHANGED <<ag, left>>

HfCall == left.hf > 0 /\ left' = [left EXCEPT !.hf = @ - 1]

start_slc ==
    /\ HfCall
    /\ hf.pending = {} /\ ~hf.slc
    /\ LET r == send_command(hf, "BRSF", Feats("BRSF", hf.cfg.features))
       IN  hf' = r.a /\ toAg' = toAg \o r.out
    /\ UNCHANGED <<ag, toHf>>

\* execute_command, and select_codec, which remembers the codec asked for.
execute_command(m, expects) ==
    /\ HfCall
    /\ hf.slc /\ hf.pending = {}
    /\ hf' = [hf EXCEPT !.pending = Pending(m.c, hf.next, expects), !.next = @ + 1,
                        !.selecting = IF m.c = "BCS" THEN {<<hf.next, m.list[1]>>} ELSE @]
    /\ toAg' = Append(toAg, m)
    /\ UNCHANGED <<ag, toHf>>

HfCommands ==
    {Msg(c, <<>>) : c \in {"A", "CLCC"}}
        \cup {Msg("BCS", <<codec>>) : codec \in Codecs}
        \cup {Msg("BIEV", <<i, v>>) : i \in hf.cfg.indicators, v \in Values}
        \cup {Msg("BIA", <<0>>)}
        \cup {[Msg("CHLD", <<1>>) EXCEPT !.feats = {"hold"}]}

Execute ==
    \E m \in HfCommands : execute_command(m, IF m.c = "CLCC" THEN "many" ELSE "none")

HfpNext ==
    \/ AgFeed \/ HfFeed \/ start_slc \/ Execute \/ AgNotify \/ AgCallsChange
    \/ \E i \in DOMAIN ag.state, v \in Values : update_ag_indicator(i, v)
    \/ \E codec \in Codecs : propose_codec(codec)

-----------------------------------------------------------------------------
(* Properties.                                                              *)

HfpQuiet == toHf = <<>> /\ toAg = <<>>

\* Once a set-up has come to its end at the unit it has at the gateway, each
\* knows the other's features, the unit knows every indicator and hold
\* operation, and the enabled indicators of the unit are those the gateway
\* accepts reports of.  An answer that was mixed up with a report may end the
\* set-up early, but never with only one end believing it complete.
\* (on_slc_command_complete, update_slc_complete)
SlcAgreed ==
    /\ hf.slc => /\ ag.slc
                 /\ hf.features = ag.cfg.features
                 /\ ag.features = hf.cfg.features
                 /\ Len(hf.ag) = ag.cfg.indicators
                 /\ Both(hf.features, ag.features, "three_way") => hf.ops = ag.cfg.ops
                 /\ Both(hf.features, ag.features, "indicators") =>
                      {i \in DOMAIN hf.ind : hf.ind[i].enabled} = DOMAIN ag.ind
    /\ HfpQuiet /\ hf.pending = {} /\ ~hf.swallowed /\ ag.cfg.indicators > 0 /\ ag.slc => hf.slc

\* When nothing is on its way, both ends use the same codec, and every indicator
\* has at the unit the value it has at the gateway, but for one that changed
\* unreported (between the reading of the values and the switching on of
\* reports, say).  A report that comes while a command is pending is taken for
\* part of its answer, and the command then fails at the unit although the
\* gateway carried it out; without one, a query returns calls and only calls.
\* (feed, select_codec, on_bcs, update_ag_indicator)
StateFollows ==
    /\ HfpQuiet => hf.pending = {}
    /\ HfpQuiet /\ ~hf.swallowed => hf.codec = ag.codec
    /\ HfpQuiet /\ hf.slc /\ ~hf.swallowed =>
         \A i \in DOMAIN ag.state \ ag.unread : hf.ag[i] = ag.state[i].v
    /\ ~hf.swallowed => \A r \in ToSet(hf.done) : \A m \in ToSet(r.got) : m.c = "+CLCC"

=============================================================================
