----------------------------- MODULE RfcommMux -----------------------------
(***************************************************************************)
(* RFCOMM sessions (`Multiplexer` of bumble-rfcomm/src/mux.rs): the        *)
(* session on DLCI 0 and the opening and closing of data links in it, over *)
(* the reliable channel that l2cap.rs binds them to.                       *)
(*                                                                         *)
(* Only the initiator opens links, as `Role` says.  A data frame is one    *)
(* write that fits; how larger writes are cut and queued is RfcommDlc.  A  *)
(* frame is [t, dlci, n]: n is the credits of a PN or of a grant, and of a *)
(* data frame 1.                                                           *)
(***************************************************************************)
EXTENDS Integers, Sequences, SequencesExt

CONSTANTS Channels,   \* the channels the initiator opens
          Listening,  \* those the responder listens on
          Initial,    \* credits an end may offer in its PN
          MaxCredits, Threshold, \* RFCOMM_DEFAULT_MAX_CREDITS and half of it
          MaxWire     \* bound: data frames on their way in one direction

VARIABLES mux, wire, calls

muxVars == <<mux, wire, calls>>

Ends == {"initiator", "responder"}
Peer(e) == IF e = "initiator" THEN "responder" ELSE "initiator"

Frame(t, dlci, n) == [t |-> t, dlci |-> dlci, n |-> n]

None == {}

NewMux == [state |-> "Init", dlcs |-> [d \in {} |-> 0], pn |-> None, opened |-> <<>>]

MuxInit(bound) ==
  /\ mux = [e \in Ends |-> NewMux]
  /\ wire = [e \in Ends |-> <<>>]
  /\ calls = bound

PutDlc(m, d, dlc) ==
  [m EXCEPT !.dlcs = [x \in DOMAIN @ \cup {d} |-> IF x = d THEN dlc ELSE @[x]]]

\* End e becomes m and sends these frames.
Becomes(e, m, frames) ==
  /\ mux' = [mux EXCEPT ![e] = m]
  /\ wire' = [wire EXCEPT ![Peer(e)] = @ \o frames]

NewDlc(state, tx, rx) == [state |-> state, tx |-> tx, rx |-> rx]

-----------------------------------------------------------------------------
\* What an end does with a frame: [m, out].

Did(m, out) == [m |-> m, out |-> out]

\* Mutant: a refusal leaves the session waiting for the answer.
OnDmStays(m) == Did([m EXCEPT !.pn = None], <<>>)

on_dm(m) ==
  IF m.state = "Opening" THEN Did([m EXCEPT !.state = "Connected", !.pn = None], <<>>)
  ELSE Did(m, <<>>)

\* A PN command makes (or makes anew) the link; the answer offers credits.
on_pn_command(m, f, initial) ==
  IF f.dlci \div 2 \in Listening
  THEN Did(PutDlc(m, f.dlci, NewDlc("Connecting", f.n, initial)),
           <<Frame("pn_response", f.dlci, initial)>>)
  ELSE Did(m, <<Frame("dm", f.dlci, 0)>>)

\* Mutant: the initiator sends against the credits it offered itself.
OnPnResponseOwn(m, f) ==
  IF m.state # "Opening" \/ m.pn = None THEN Did(m, <<>>)
  ELSE Did(PutDlc([m EXCEPT !.pn = None], f.dlci,
                  NewDlc("Connecting", CHOOSE n \in m.pn : TRUE, CHOOSE n \in m.pn : TRUE)),
           <<Frame("sabm", f.dlci, 0)>>)

on_pn_response(m, f) ==
  IF m.state # "Opening" \/ m.pn = None THEN Did(m, <<>>)
  ELSE Did(PutDlc([m EXCEPT !.pn = None], f.dlci,
                  NewDlc("Connecting", f.n, CHOOSE n \in m.pn : TRUE)),
           <<Frame("sabm", f.dlci, 0)>>)

on_control_frame(m, f, initial) ==
  CASE f.t = "sabm" /\ m.state = "Init" ->
         Did([m EXCEPT !.state = "Connected"], <<Frame("ua", 0, 0)>>)
    [] f.t = "sabm" /\ m.state # "Init" -> Did(m, <<>>)
    [] f.t = "ua" ->
         Did([m EXCEPT !.state = IF @ = "Connecting" THEN "Connected"
                                 ELSE IF @ = "Disconnecting" THEN "Disconnected" ELSE @], <<>>)
    [] f.t = "disc" -> Did([m EXCEPT !.state = "Disconnected"], <<Frame("ua", 0, 0)>>)
    [] f.t = "pn" -> on_pn_command(m, f, initial)
    [] f.t = "pn_response" -> on_pn_response(m, f)
    [] f.t = "msc" ->
         Did(m, IF f.dlci \in DOMAIN m.dlcs THEN <<Frame("msc_response", f.dlci, 0)>> ELSE <<>>)
    [] f.t = "msc_response" -> Did(m, <<>>)

on_sabm(m, d) ==
  IF m.dlcs[d].state # "Connecting" THEN Did(m, <<>>)
  ELSE Did([m EXCEPT !.dlcs[d].state = "Connected", !.opened = Append(@, d)],
           <<Frame("ua", d, 0), Frame("msc", d, 0)>>)

on_ua(m, d) ==
  CASE m.dlcs[d].state = "Connecting" ->
         Did([m EXCEPT !.dlcs[d].state = "Connected", !.state = "Connected",
                       !.opened = Append(@, d)], <<Frame("msc", d, 0)>>)
    [] m.dlcs[d].state = "Disconnecting" ->
         Did([m EXCEPT !.dlcs = [x \in DOMAIN @ \ {d} |-> @[x]]], <<>>)
    [] OTHER -> Did(m, <<>>)

\* Credits the end grants once it has taken a frame.
Granted(dlc) == IF dlc.rx <= Threshold THEN MaxCredits - dlc.rx ELSE 0

\* on_uih with process_tx: whatever the state of the link.
on_uih(m, f) ==
  LET dlc == m.dlcs[f.dlci]
      taken == IF f.t = "grant" THEN [dlc EXCEPT !.tx = @ + f.n]
               ELSE [dlc EXCEPT !.rx = IF @ > 0 THEN @ - 1 ELSE 0]
  IN Did([m EXCEPT !.dlcs[f.dlci] = [taken EXCEPT !.rx = @ + Granted(taken)]],
         IF Granted(taken) > 0 THEN <<Frame("grant", f.dlci, Granted(taken))>> ELSE <<>>)

on_frame(m, f) ==
  CASE f.t = "sabm" -> on_sabm(m, f.dlci)
    [] f.t = "ua" -> on_ua(m, f.dlci)
    [] f.t = "disc" -> Did(m, <<Frame("ua", f.dlci, 0)>>)
    [] f.t \in {"data", "grant"} -> on_uih(m, f)

\* Control messages travel on DLCI 0 and name the link inside.
OnControl(f) == f.dlci = 0 \/ f.t \in {"pn", "pn_response", "msc", "msc_response"}

on_pdu(m, f, initial) ==
  IF OnControl(f) THEN on_control_frame(m, f, initial)
  ELSE IF f.t = "dm" THEN on_dm(m)
  ELSE IF f.dlci \in DOMAIN m.dlcs THEN on_frame(m, f)
  ELSE Did(m, <<>>)

-----------------------------------------------------------------------------
MuxReceive(e) ==
  /\ wire[e] # <<>>
  /\ \E initial \in Initial :
       \E r \in {on_pdu(mux[e], Head(wire[e]), initial)} :
         /\ mux' = [mux EXCEPT ![e] = r.m]
         /\ wire' = [wire EXCEPT ![e] = Tail(@), ![Peer(e)] = @ \o r.out]
  /\ UNCHANGED calls

Call == calls > 0 /\ calls' = calls - 1

MuxConnect ==
  /\ Call
  /\ mux["initiator"].state = "Init"
  /\ Becomes("initiator", [mux["initiator"] EXCEPT !.state = "Connecting"], <<Frame("sabm", 0, 0)>>)

\* An application opens a channel on which it holds no link.
OpenDlc(channel, initial) ==
  /\ Call
  /\ 2 * channel \notin DOMAIN mux["initiator"].dlcs
  /\ mux["initiator"].state = "Connected"
  /\ Becomes("initiator", [mux["initiator"] EXCEPT !.state = "Opening", !.pn = {initial}],
             <<Frame("pn", 2 * channel, initial)>>)

MuxDisconnect(e) ==
  /\ Call
  /\ mux[e].state = "Connected"
  /\ Becomes(e, [mux[e] EXCEPT !.state = "Disconnecting"], <<Frame("disc", 0, 0)>>)

DisconnectDlc(e, d) ==
  /\ Call
  /\ mux[e].dlcs[d].state = "Connected"
  /\ Becomes(e, [mux[e] EXCEPT !.dlcs[d].state = "Disconnecting"], <<Frame("disc", d, 0)>>)

MuxWrite(e, d) ==
  /\ mux[e].dlcs[d].state = "Connected"
  /\ mux[e].dlcs[d].tx > 0
  /\ Len(SelectSeq(wire[Peer(e)], LAMBDA f : f.t = "data")) < MaxWire
  /\ Call
  /\ Becomes(e, [mux[e] EXCEPT !.dlcs[d].tx = @ - 1], <<Frame("data", d, 1)>>)

TakeOpened(e) ==
  /\ mux[e].opened # <<>>
  /\ mux' = [mux EXCEPT ![e].opened = <<>>]
  /\ UNCHANGED <<wire, calls>>

MuxNext ==
  \/ MuxConnect
  \/ \E channel \in Channels, initial \in Initial : OpenDlc(channel, initial)
  \/ \E e \in Ends :
       \/ MuxReceive(e)
       \/ MuxDisconnect(e)
       \/ TakeOpened(e)
       \/ \E d \in DOMAIN mux[e].dlcs : DisconnectDlc(e, d) \/ MuxWrite(e, d)

-----------------------------------------------------------------------------
\* Once nothing is on its way, no session waits for an answer, nor, while both
\* sessions are up, a link that both ends have: every SABM, PN and DISC was
\* answered.
MuxSettles ==
  (\A e \in Ends : wire[e] = <<>>) =>
    /\ \A e \in Ends : mux[e].state \notin {"Connecting", "Opening", "Disconnecting"}
    /\ (\A e \in Ends : mux[e].state = "Connected") =>
         \A e \in Ends : \A d \in DOMAIN mux[e].dlcs \cap DOMAIN mux[Peer(e)].dlcs :
           mux[e].dlcs[d].state = "Connected"

Sum(s) == FoldLeft(LAMBDA n, f : n + f.n, 0, s)

\* On a link both ends hold open, what one may still send, with what is on its
\* way, is what the other has granted; also when the link was closed by one
\* end and opened again.
MuxCreditsAgree ==
  \A e \in Ends : \A d \in DOMAIN mux[e].dlcs \cap DOMAIN mux[Peer(e)].dlcs :
    mux[e].dlcs[d].state = "Connected" /\ mux[Peer(e)].dlcs[d].state = "Connected" =>
      mux[e].dlcs[d].tx
        + Sum(SelectSeq(wire[Peer(e)], LAMBDA f : f.dlci = d /\ f.t = "data"))
        + Sum(SelectSeq(wire[e], LAMBDA f : f.dlci = d /\ f.t = "grant"))
      = mux[Peer(e)].dlcs[d].rx
=============================================================================
