----------------------------- MODULE MCSmpPairing -----------------------------
(* The situations two devices pair in, for model checking.  Each family varies     *)
(* one aspect of an otherwise cooperative pairing.                                 *)
EXTENDS SmpPairing

AllKeys == {"enc", "id", "sign", "link"}

Both(x) == [e \in Ends |-> x]

BaseConfig ==
  [sc |-> TRUE, ct2 |-> TRUE, mitm |-> FALSE, bonding |-> TRUE, io |-> "N",
   ikeys |-> {"enc", "id"}, rkeys |-> {"enc", "id"}, size |-> 16,
   oob |-> FALSE, oobPeer |-> FALSE, oobGood |-> TRUE, tk |-> 1, debug |-> FALSE]

BaseUser == [accepts |-> TRUE, confirms |-> TRUE, compares |-> TRUE,
             shows |-> {2}, types |-> {2}]

Base(transport, sc) ==
  [transport |-> transport, authenticated |-> TRUE,
   driver |-> Both("device"),
   call |-> [central |-> "pair", peripheral |-> "none"],
   config |-> Both([BaseConfig EXCEPT !.sc = sc]), user |-> Both(BaseUser)]

Bases == {Base("le", TRUE), Base("le", FALSE), Base("bredr", TRUE)}
LeBases == {Base("le", TRUE), Base("le", FALSE)}

\* Every pair of IO capabilities, with MITM protection asked for by either end.
IoSetups ==
  {[b EXCEPT !.config["central"].io = i, !.config["peripheral"].io = r,
             !.config["central"].mitm = mi, !.config["peripheral"].mitm = mr] :
     b \in LeBases, i \in {"D", "Y", "K", "N", "B"}, r \in {"D", "Y", "K", "N", "B"},
     mi \in BOOLEAN, mr \in BOOLEAN}

\* Passkeys entered wrongly or not at all.
PasskeySetups ==
  {[b EXCEPT !.config["central"].io = io[1], !.config["peripheral"].io = io[2],
             !.config["central"].mitm = TRUE,
             !.user["central"].shows = {0}, !.user["central"].types = i,
             !.user["peripheral"].shows = {1}, !.user["peripheral"].types = r] :
     b \in LeBases, io \in {<<"D", "K">>, <<"K", "D">>, <<"K", "K">>},
     i \in {{}, {0}, {1}, {3}}, r \in {{}, {0}, {2}}}

\* Users who refuse.
RefusalSetups ==
  {[b EXCEPT !.config = [e \in Ends |-> [@[e] EXCEPT !.io = "Y", !.mitm = mitm]],
             !.user["central"].confirms = ci, !.user["peripheral"].confirms = cr,
             !.user["central"].compares = ci, !.user["peripheral"].compares = cr,
             !.user["peripheral"].accepts = ar] :
     b \in Bases, mitm \in BOOLEAN, ci \in BOOLEAN, cr \in BOOLEAN, ar \in BOOLEAN}

\* Key masks, flags and key sizes that differ.
MaskSetups ==
  {[b EXCEPT !.config["central"].ikeys = ii, !.config["central"].rkeys = ir,
             !.config["peripheral"].ikeys = ri, !.config["peripheral"].rkeys = rr] :
     b \in Bases, ii \in {{}, {"enc", "id"}, AllKeys}, ir \in {{}, {"enc"}, AllKeys},
     ri \in {{"id", "sign"}, AllKeys}, rr \in {{"sign"}, AllKeys}}

FlagSetups ==
  {[b EXCEPT !.config["central"].bonding = bi, !.config["peripheral"].bonding = br,
             !.config["central"].ct2 = ti, !.config["peripheral"].ct2 = tr,
             !.config["central"].size = zi, !.config["peripheral"].size = zr,
             !.config["central"].sc = si] :
     b \in Bases, bi \in BOOLEAN, br \in BOOLEAN, ti \in BOOLEAN, tr \in BOOLEAN,
     zi \in {7, 16}, zr \in {7, 16}, si \in BOOLEAN}

\* Out-of-band data at one end or both, right or wrong; debug keys.
OobSetups ==
  {[b EXCEPT !.config["central"].oob = oi, !.config["peripheral"].oob = or,
             !.config["central"].oobPeer = pi, !.config["peripheral"].oobPeer = pr,
             !.config["central"].oobGood = gi, !.config["peripheral"].tk = tk,
             !.config["central"].debug = d, !.config["peripheral"].debug = d] :
     b \in LeBases, oi \in BOOLEAN, or \in BOOLEAN, pi \in BOOLEAN, pr \in BOOLEAN,
     gi \in BOOLEAN, tk \in {1, 2}, d \in BOOLEAN}

\* Who drives each end and what its application calls.
Callers == {<<"device", "pair">>, <<"device", "none">>, <<"session", "begin">>,
            <<"session", "listen">>, <<"session", "request_peer">>}

DriverSetups ==
  {s \in {[b EXCEPT !.driver = [central |-> c[1], peripheral |-> p[1]],
                    !.call = [central |-> c[2], peripheral |-> p[2]],
                    !.config = [e \in Ends |-> [@[e] EXCEPT !.rkeys = rkeys]]] :
             b \in Bases, c \in Callers, p \in Callers, rkeys \in {{}, {"enc", "id"}}} :
     s.transport = "bredr" => \A e \in Ends : s.call[e] \notin {"listen", "request_peer"}}

MCSetups == IoSetups \cup PasskeySetups \cup RefusalSetups \cup MaskSetups
              \cup FlagSetups \cup OobSetups \cup DriverSetups
===============================================================================
