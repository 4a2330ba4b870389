------------------------------ MODULE SmpPairing ------------------------------
(* SMP pairing of two devices: the PairingManager of bumble-smp with its three   *)
(* sessions (LE Legacy, LE Secure Connections, CTKD over BR/EDR) and the key      *)
(* distribution phase, driven at each end either by the Device (bumble-host,      *)
(* which handles host events one by one, in order) or by one of the pairing       *)
(* sessions of bumble-transport (drive_once, which handles a batch of packets     *)
(* and then looks at the link's encryption).                                      *)
(*                                                                                *)
(* A confirm value, a key or a check is the tuple of what it is computed from, so *)
(* two are equal exactly when their inputs are.  Both ends run this code, so the  *)
(* features on the wire are in range: the rejections of out-of-range fields and   *)
(* of key sizes below seven never apply and are left out.                         *)
EXTENDS Naturals, Sequences, SequencesExt

CONSTANTS
  Setups,     \* the situations to start from, see Init
  Rounds      \* the rounds of a Secure Connections passkey (20 in the code)

Ends == {"central", "peripheral"}
Peer(e) == IF e = "central" THEN "peripheral" ELSE "central"

VARIABLES
  setup,       \* transport, and per end: driver, call, config and the user's answers
  started,     \* per end: has the application made its call?
  session,     \* per end: PairingManager.sessions of the connection, <<>> or <<session>>
  role,        \* per end: the connection's PairingRole
  acl,         \* per end: SMP PDUs sent and not yet in the peer's host queue
  inbox,       \* per end: the host queue, PDUs and Encryption Change events in order
  encReq,      \* the central's EncReq has not reached the peripheral's controller
  encrypted,   \* per end: the host has seen the link encrypted
  encStarted,  \* per end: the host has asked for encryption for this pairing
  done,        \* per end: a drive_once has returned the keys or an error
  bond,        \* per end: the PairingKeys stored, <<>> or <<keys>>
  overrun      \* a drive_once found peer keys behind the Encryption Change

vars == <<setup, started, session, role, acl, inbox, encReq, encrypted, encStarted,
          done, bond, overrun>>

Config(e) == setup.config[e]
User(e) == setup.user[e]

-------------------------------------------------------------------------------
(* Values of the protocol.                                                        *)

KeyKinds == {"EncInfo", "MasterId", "IdInfo", "IdAddr", "SignInfo"}

\* The k-th random number of an end; the first is the r of its OOB context.
Nonce(e, k) == <<e, k>>
NoR == <<"zero", 0>>

\* Managers in debug mode share one key pair; an OOB context brings its own.
PublicKey(e) == IF Config(e).debug /\ ~Config(e).oob THEN "debug" ELSE e

\* Bit `step` of a passkey, the z of a commitment round.
Bit(passkey, step) == (passkey \div 2^step) % 2

\* c1 and s1 of Legacy pairing, f4, f5 and f6 of Secure Connections.
LegacyConfirm(s, random) == <<s.tk, random, s.preq, s.pres>>
ScConfirm(own, peer, nonce, z) == <<own, peer, nonce, z>>
IoCap(f) == <<f.io, f.oob, f.bonding, f.mitm, f.sc, f.ct2>>

\* keys_with_r; the check of an end covers the features it announced.
ScKeys(dh, na, nb, preq, pres, ra, rb) ==
  [ltk |-> <<dh, na, nb>>,
   ea |-> <<dh, na, nb, rb, IoCap(preq)>>,
   eb |-> <<dh, nb, na, ra, IoCap(pres)>>]

Kind(e) == IF setup.transport = "bredr" THEN "ctkd"
           ELSE IF Config(e).sc THEN "sc" ELSE "legacy"

LocalFeatures(e) ==
  [io |-> Config(e).io,
   oob |-> CASE Kind(e) = "legacy" -> Config(e).oob
             [] Kind(e) = "sc" -> Config(e).oobPeer
             [] Kind(e) = "ctkd" -> FALSE,
   sc |-> Kind(e) # "legacy",
   mitm |-> IF Kind(e) = "ctkd" THEN setup.authenticated ELSE Config(e).mitm,
   bonding |-> Config(e).bonding, ct2 |-> Config(e).ct2,
   size |-> Config(e).size, ikeys |-> Config(e).ikeys, rkeys |-> Config(e).rkeys]

\* create_session fails only for CTKD without Secure Connections.
Creatable(e) == Kind(e) = "ctkd" => Config(e).sc

NewSession(e, r) ==
  [kind |-> Kind(e), role |-> r, state |-> "Idle", out |-> <<>>, failure |-> <<>>,
   preq |-> <<>>, pres |-> <<>>, method |-> "none",
   tk |-> 0, step |-> 0, peerKey |-> <<>>, peerConfirm |-> <<>>,
   keys |-> <<>>, outcome |-> <<>>,
   bonding |-> Config(e).bonding, ct2 |-> Config(e).ct2, size |-> Config(e).size,
   ikeys |-> Config(e).ikeys, rkeys |-> Config(e).rkeys,
   expected |-> {}, sent |-> FALSE, got |-> {}]

Push(s, type, v) == [s EXCEPT !.out = Append(@, [type |-> type, v |-> v])]

Fail(s, reason) ==
  [(IF s.state = "Failed" THEN s ELSE Push(s, "Failed", reason))
     EXCEPT !.failure = <<reason>>, !.state = "Failed"]

-------------------------------------------------------------------------------
(* Feature exchange.                                                              *)

InitiatorDisplays(sc, i, r) ==
  \/ <<i, r>> \in {<<"D", "K">>, <<"D", "B">>, <<"Y", "K">>, <<"B", "K">>}
  \/ ~sc /\ <<i, r>> \in {<<"Y", "B">>, <<"B", "B">>}

ResponderDisplays(sc, i, r) ==
  \/ <<i, r>> \in {<<"K", "D">>, <<"K", "Y">>, <<"K", "B">>, <<"B", "D">>}
  \/ ~sc /\ <<i, r>> = <<"B", "Y">>

\* select_pairing_method_with_oob, from the request and the response.
SelectMethod(sc, mitm, req, res) ==
  IF IF sc THEN req.oob \/ res.oob ELSE req.oob /\ res.oob THEN "Oob"
  ELSE IF ~mitm THEN "JustWorks"
  ELSE IF \/ InitiatorDisplays(sc, req.io, res.io)
          \/ ResponderDisplays(sc, req.io, res.io)
          \/ <<req.io, res.io>> = <<"K", "K">>
       THEN "Passkey"
  ELSE IF sc /\ {req.io, res.io} \subseteq {"Y", "B"} THEN "NumericComparison"
  ELSE "JustWorks"

\* Mutant: CT2 is taken from the local configuration alone.
NegotiateLocalCt2(s, f) ==
  [s EXCEPT !.size = IF f.size < @ THEN f.size ELSE @, !.bonding = @ /\ f.bonding,
            !.ikeys = @ \cap f.ikeys, !.rkeys = @ \cap f.rkeys]

\* apply_negotiated: what the peer's features leave of the local ones.
Negotiate(s, f) ==
  [s EXCEPT !.size = IF f.size < @ THEN f.size ELSE @,
            !.bonding = @ /\ f.bonding, !.ct2 = @ /\ f.ct2,
            !.ikeys = @ \cap f.ikeys, !.rkeys = @ \cap f.rkeys]

\* prepare_method and select_method: choose the method and ask the user.
PrepareMethod(e, s, req, res) ==
  LET sc == s.kind = "sc"
      peer == IF s.role = "Initiator" THEN res ELSE req
      method == SelectMethod(sc, Config(e).mitm \/ peer.mitm, req, res)
      displays == IF s.role = "Initiator" THEN InitiatorDisplays(sc, req.io, res.io)
                                          ELSE ResponderDisplays(sc, req.io, res.io)
      passkey == IF displays THEN User(e).shows ELSE User(e).types
      t == [s EXCEPT !.method = method]
  IN CASE method = "Passkey" ->
            IF passkey = {} THEN Fail(t, "PasskeyEntryFailed")
            ELSE [t EXCEPT !.tk = CHOOSE p \in passkey : TRUE]
       [] method = "Oob" ->
            IF ~Config(e).oob THEN Fail(t, "OobNotAvailable")
            ELSE IF sc THEN t ELSE [t EXCEPT !.tk = Config(e).tk]
       [] method = "JustWorks" /\ ~sc ->
            IF User(e).confirms THEN t ELSE Fail(t, "ConfirmValueFailed")
       [] OTHER -> t

-------------------------------------------------------------------------------
(* Phase 3, KeyDistributionSession.                                               *)

ExpectedKinds(s, keys) ==
  (IF s.kind = "legacy" /\ "enc" \in keys THEN {"EncInfo", "MasterId"} ELSE {})
    \cup (IF "id" \in keys THEN {"IdInfo", "IdAddr"} ELSE {})
    \cup (IF "sign" \in keys THEN {"SignInfo"} ELSE {})

LocalKeys(s) == IF s.role = "Initiator" THEN s.ikeys ELSE s.rkeys
PeerKeys(s) == IF s.role = "Initiator" THEN s.rkeys ELSE s.ikeys

\* The value of a distributed key: whose it is, and for an LTK the size it is cut to.
KeyValue(e, s, kind) == IF kind = "EncInfo" THEN <<e, s.size>> ELSE <<e, 0>>

DistributeLocalKeys(e, s) ==
  IF s.sent THEN s
  ELSE LET order == SelectSeq(<<"EncInfo", "MasterId", "IdInfo", "IdAddr", "SignInfo">>,
                              LAMBDA k : k \in ExpectedKinds(s, LocalKeys(s)))
       IN [s EXCEPT !.sent = TRUE,
                    !.out = @ \o [i \in DOMAIN order |->
                              [type |-> order[i], v |-> KeyValue(e, s, order[i])]]]

\* Mutant: an initiator that has the peer's keys keeps its own.
AdvanceDistributionSilent(e, s) ==
  [s EXCEPT !.state = IF s.expected # {} THEN "KeyDistribution" ELSE "Complete"]

\* peer_distribution_complete, once nothing more is expected.
AdvanceDistribution(e, s) ==
  IF s.expected # {} THEN [s EXCEPT !.state = "KeyDistribution"]
  ELSE [(IF s.role = "Initiator" THEN DistributeLocalKeys(e, s) ELSE s)
          EXCEPT !.state = "Complete"]

\* Mutant: the responder waits for the initiator's keys like the initiator for its.
MarkEncryptedWaiting(e, s) ==
  AdvanceDistribution(e, [s EXCEPT !.expected = ExpectedKinds(s, PeerKeys(s))])

\* mark_encrypted of a session waiting for encryption.
MarkEncrypted(e, s) ==
  LET t == [s EXCEPT !.expected = ExpectedKinds(s, PeerKeys(s))]
  IN AdvanceDistribution(e, IF s.role = "Responder" THEN DistributeLocalKeys(e, t) ELSE t)

OnDistributedKey(e, s, pdu) ==
  IF pdu.type \notin s.expected THEN Fail(s, "UnspecifiedReason")
  ELSE AdvanceDistribution(e, [s EXCEPT !.expected = @ \ {pdu.type},
                                        !.got = @ \cup {pdu}])

\* Mutant: both roles file the peer's LTK as the central's.
PairingKeysSameSlot(e, s) ==
  LET got(kind) == {p.v : p \in {q \in s.got : q.type = kind}}
      ours == IF s.kind = "legacy" /\ "enc" \in LocalKeys(s) THEN {<<e, s.size>>} ELSE {}
      theirs == IF s.kind = "legacy" /\ got("MasterId") # {} THEN got("EncInfo") ELSE {}
  IN [ltk |-> IF s.kind = "legacy" THEN {} ELSE {s.outcome[1].key},
      ltkCentral |-> theirs, ltkPeripheral |-> ours,
      irk |-> got("IdInfo"), csrk |-> got("SignInfo"),
      localCsrk |-> IF "sign" \in LocalKeys(s) THEN {<<e, 0>>} ELSE {},
      linkKey |-> CASE s.kind = "ctkd" -> {<<"link">>}
                    [] s.kind = "sc" /\ "link" \in LocalKeys(s) ->
                         {<<"derived", s.outcome[1].key, s.ct2>>}
                    [] OTHER -> {}]

\* pairing_keys of a completed session.
PairingKeys(e, s) ==
  LET got(kind) == {p.v : p \in {q \in s.got : q.type = kind}}
      ours == IF s.kind = "legacy" /\ "enc" \in LocalKeys(s) THEN {<<e, s.size>>} ELSE {}
      theirs == IF s.kind = "legacy" /\ got("MasterId") # {} THEN got("EncInfo") ELSE {}
  IN [ltk |-> IF s.kind = "legacy" THEN {} ELSE {s.outcome[1].key},
      ltkCentral |-> IF s.role = "Initiator" THEN theirs ELSE ours,
      ltkPeripheral |-> IF s.role = "Initiator" THEN ours ELSE theirs,
      irk |-> got("IdInfo"), csrk |-> got("SignInfo"),
      localCsrk |-> IF "sign" \in LocalKeys(s) THEN {<<e, 0>>} ELSE {},
      linkKey |-> CASE s.kind = "ctkd" -> {<<"link">>}
                    [] s.kind = "sc" /\ "link" \in LocalKeys(s) ->
                         {<<"derived", s.outcome[1].key, s.ct2>>}
                    [] OTHER -> {}]

-------------------------------------------------------------------------------
(* The handlers of the three sessions.                                            *)

\* What a session ends phase 2 with.
Outcome(s, key, authenticated) ==
  <<[key |-> <<key, s.size>>, method |-> s.method, authenticated |-> authenticated,
     bonding |-> s.bonding, ct2 |-> s.ct2, size |-> s.size,
     ikeys |-> s.ikeys, rkeys |-> s.rkeys]>>

Finish(s, key) ==
  [s EXCEPT !.outcome = Outcome(s, key, s.method # "JustWorks"), !.state = "WaitEncryption"]

\* CTKD derives its LTK from the link key and goes straight to key distribution.
FinishFeatures(e, s) ==
  LET t == [s EXCEPT !.method = "CtkdOverClassic"]
  IN MarkEncrypted(e, [t EXCEPT
       !.outcome = Outcome(t, <<"link", s.ct2>>, setup.authenticated)])

OnPairingRequest(e, s, f) ==
  LET t == Negotiate([s EXCEPT !.preq = <<f>>], f)
      response == [LocalFeatures(e) EXCEPT !.size = t.size, !.ikeys = t.ikeys,
                                           !.rkeys = t.rkeys]
      u == PrepareMethod(e, [t EXCEPT !.pres = <<response>>], f, response)
  IN CASE s.kind = "ctkd" -> FinishFeatures(e, Push(t, "Response", response))
       [] s.kind # "ctkd" /\ ~User(e).accepts -> Fail(s, "PairingNotSupported")
       [] s.kind = "sc" /\ User(e).accepts /\ ~f.sc -> Fail(s, "AuthenticationRequirements")
       [] OTHER ->
            IF u.state = "Failed" THEN u
            ELSE [Push(u, "Response", response) EXCEPT
                    !.state = IF s.kind = "sc" THEN "WaitPublicKey"
                              ELSE "WaitPairingConfirm"]

OnPairingResponse(e, s, f) ==
  LET t == Negotiate([s EXCEPT !.pres = <<f>>], f)
      u == PrepareMethod(e, t, s.preq[1], f)
  IN CASE s.kind = "ctkd" ->
            IF ~(f.ikeys \subseteq s.preq[1].ikeys /\ f.rkeys \subseteq s.preq[1].rkeys)
            THEN Fail(s, "InvalidParameters")
            ELSE FinishFeatures(e, t)
       [] s.kind = "sc" /\ ~f.sc -> Fail(s, "AuthenticationRequirements")
       [] OTHER ->
            IF u.state = "Failed" THEN u
            ELSE IF s.kind = "sc"
            THEN [Push(u, "PublicKey", PublicKey(e)) EXCEPT !.state = "WaitPublicKey"]
            ELSE [Push(u, "Confirm", LegacyConfirm(u, Nonce(e, 0))) EXCEPT
                    !.state = "WaitPairingConfirm"]

\* queue_passkey_confirm: commit to one bit of the passkey.
PushPasskeyConfirm(e, s) ==
  Push(s, "Confirm", ScConfirm(PublicKey(e), s.peerKey[1], Nonce(e, s.step),
                               Bit(s.tk, s.step)))

OnPublicKey(e, s, key) ==
  LET t == [s EXCEPT !.peerKey = <<key>>]
      w == Push(t, "PublicKey", PublicKey(e))
  IN IF key = PublicKey(e) THEN Fail(s, "InvalidParameters")
     ELSE IF s.method = "Oob" /\ Config(e).oobPeer /\ ~Config(e).oobGood
     THEN Fail(t, "ConfirmValueFailed")
     ELSE IF s.role = "Initiator"
     THEN [(IF s.method = "Passkey" THEN PushPasskeyConfirm(e, t) ELSE t)
             EXCEPT !.state = "WaitPairingConfirm"]
     ELSE IF s.method = "Passkey" THEN [w EXCEPT !.state = "WaitPairingConfirm"]
     ELSE [Push(w, "Confirm", ScConfirm(PublicKey(e), key, Nonce(e, 0), 0))
             EXCEPT !.state = "WaitPairingRandom"]

OnPairingConfirm(e, s, value) ==
  LET t == [s EXCEPT !.peerConfirm = <<value>>, !.state = "WaitPairingRandom"]
      confirms == s.role = "Responder"
  IN IF s.kind = "legacy" /\ confirms THEN Push(t, "Confirm", LegacyConfirm(s, Nonce(e, 0)))
     ELSE IF s.kind = "sc" /\ s.method = "Passkey" /\ confirms
     THEN PushPasskeyConfirm(e, t)
     ELSE Push(t, "Random", Nonce(e, s.step))

\* Mutant: the peer's confirm value is not compared.
OnLegacyRandomTrusting(e, s, random) ==
  LET own == Nonce(e, 0)
      stk == IF s.role = "Initiator" THEN <<s.tk, random, own>> ELSE <<s.tk, own, random>>
  IN Finish(IF s.role = "Responder" THEN Push(s, "Random", own) ELSE s, stk)

OnLegacyRandom(e, s, random) ==
  LET own == Nonce(e, 0)
      t == IF s.role = "Responder" THEN Push(s, "Random", own) ELSE s
      stk == IF s.role = "Initiator" THEN <<s.tk, random, own>> ELSE <<s.tk, own, random>>
  IN IF s.peerConfirm # <<LegacyConfirm(s, random)>> THEN Fail(s, "ConfirmValueFailed")
     ELSE Finish(t, stk)

\* derive_keys with dhkey_r_values, from the peer's last random number.
DeriveKeys(e, s, random) ==
  LET own == Nonce(e, s.step)
      ourR == CASE s.method = "Passkey" -> <<"passkey", s.tk>>
                [] s.method = "Oob" -> Nonce(e, 0)
                [] OTHER -> NoR
      peerR == CASE s.method = "Passkey" -> <<"passkey", s.tk>>
                 [] s.method = "Oob" /\ Config(e).oobPeer -> Nonce(Peer(e), 0)
                 [] OTHER -> NoR
      dh == {PublicKey(e), s.peerKey[1]}
  IN [s EXCEPT !.keys =
        <<IF s.role = "Initiator"
          THEN ScKeys(dh, own, random, s.preq[1], s.pres[1], ourR, peerR)
          ELSE ScKeys(dh, random, own, s.preq[1], s.pres[1], peerR, ourR)>>]

\* The initiator sends its check at once, the responder waits for it.
AwaitDhKeyCheck(s) ==
  [(IF s.role = "Initiator" THEN Push(s, "DhKeyCheck", s.keys[1].ea) ELSE s)
     EXCEPT !.state = "WaitDhKeyCheck"]

ConfirmUser(e, s) ==
  CASE s.method = "JustWorks" -> User(e).confirms
    [] s.method = "NumericComparison" -> User(e).compares
    [] OTHER -> TRUE

OnScRandom(e, s, random) ==
  LET t == IF s.role = "Responder" THEN Push(s, "Random", Nonce(e, 0)) ELSE s
      u == DeriveKeys(e, t, random)
  IN IF s.role = "Initiator"
        /\ s.peerConfirm # <<ScConfirm(s.peerKey[1], PublicKey(e), random, 0)>>
     THEN Fail(s, "ConfirmValueFailed")
     ELSE IF ~ConfirmUser(e, s) THEN Fail(u, "ConfirmValueFailed")
     ELSE AwaitDhKeyCheck(u)

OnPasskeyRandom(e, s, random) ==
  LET expected == ScConfirm(s.peerKey[1], PublicKey(e), random, Bit(s.tk, s.step))
      t == IF s.role = "Responder" THEN Push(s, "Random", Nonce(e, s.step)) ELSE s
      next == [t EXCEPT !.step = @ + 1, !.peerConfirm = <<>>,
                        !.state = "WaitPairingConfirm"]
  IN IF s.peerConfirm # <<expected>> THEN Fail(s, "ConfirmValueFailed")
     ELSE IF s.step + 1 = Rounds THEN AwaitDhKeyCheck(DeriveKeys(e, t, random))
     ELSE IF s.role = "Initiator" THEN PushPasskeyConfirm(e, next) ELSE next

OnDhKeyCheck(s, check) ==
  LET expected == IF s.role = "Initiator" THEN s.keys[1].eb ELSE s.keys[1].ea
  IN IF check # expected THEN Fail(s, "DhKeyCheckFailed")
     ELSE Finish(IF s.role = "Responder" THEN Push(s, "DhKeyCheck", s.keys[1].eb) ELSE s,
                 s.keys[1].ltk)

\* process of the three sessions.
Process(e, s, pdu) ==
  CASE s.state = "Failed" -> s
    [] s.state # "Failed" /\ pdu.type = "Failed" ->
         [s EXCEPT !.failure = <<pdu.v>>, !.state = "Failed"]
    [] s.state = "KeyDistribution" /\ pdu.type # "Failed" -> OnDistributedKey(e, s, pdu)
    [] s.state = "Idle" /\ s.role = "Responder" /\ pdu.type = "Request" ->
         OnPairingRequest(e, s, pdu.v)
    [] s.state = "WaitPairingResponse" /\ pdu.type = "Response" ->
         OnPairingResponse(e, s, pdu.v)
    [] s.state = "WaitPublicKey" /\ pdu.type = "PublicKey" -> OnPublicKey(e, s, pdu.v)
    [] s.state = "WaitPairingConfirm" /\ pdu.type = "Confirm" ->
         OnPairingConfirm(e, s, pdu.v)
    [] s.state = "WaitPairingRandom" /\ pdu.type = "Random" ->
         IF s.kind = "legacy" THEN OnLegacyRandom(e, s, pdu.v)
         ELSE IF s.method = "Passkey" THEN OnPasskeyRandom(e, s, pdu.v)
         ELSE OnScRandom(e, s, pdu.v)
    [] s.state = "WaitDhKeyCheck" /\ pdu.type = "DhKeyCheck" -> OnDhKeyCheck(s, pdu.v)
    [] OTHER -> Fail(s, IF pdu.type \in KeyKinds /\ s.kind # "ctkd"
                        THEN "UnspecifiedReason" ELSE "InvalidParameters")

-------------------------------------------------------------------------------
(* PairingManager.  m is what a call may change: the session, the role, whether   *)
(* the call failed and whether a Security Request is queued.                      *)

Manager(e) == [session |-> session[e], role |-> role[e], error |-> FALSE, asked |-> FALSE]

\* pair, for an end without a session.
ManagerPair(e, m) ==
  IF m.role # "Initiator" \/ ~Creatable(e) THEN [m EXCEPT !.error = TRUE]
  ELSE LET s == [NewSession(e, "Initiator") EXCEPT !.preq = <<LocalFeatures(e)>>,
                                                   !.state = "WaitPairingResponse"]
       IN [m EXCEPT !.session = <<Push(s, "Request", LocalFeatures(e))>>]

ManagerReceive(e, m, pdu) ==
  CASE m.error -> m
    [] ~m.error /\ pdu.type = "SecurityRequest" -> [m EXCEPT !.asked = TRUE]
    [] ~m.error /\ pdu.type # "SecurityRequest" ->
         IF m.session # <<>> THEN [m EXCEPT !.session[1] = Process(e, @, pdu)]
         ELSE IF pdu.type = "Request" /\ m.role = "Responder" /\ Creatable(e)
         THEN [m EXCEPT !.session = <<Process(e, NewSession(e, "Responder"), pdu)>>]
         ELSE [m EXCEPT !.error = TRUE]

HasState(m, state) == m.session # <<>> /\ m.session[1].state = state

\* mark_encrypted.
ManagerEncrypted(e, m) ==
  IF HasState(m, "WaitEncryption") THEN [m EXCEPT !.session[1] = MarkEncrypted(e, @)] ELSE m

\* What is left to do after a call at end e: send the queued PDUs, start
\* encryption if this end is the LE central, store the bond on completion.
Flush(e, m) ==
  LET starts == HasState(m, "WaitEncryption") /\ e = "central" /\ ~encStarted[e]
      s == m.session[1]
  IN /\ acl' = [acl EXCEPT ![e] = IF m.session = <<>> THEN @ ELSE @ \o s.out]
     /\ session' = [session EXCEPT ![e] =
                      IF m.session = <<>> THEN <<>> ELSE <<[s EXCEPT !.out = <<>>]>>]
     /\ role' = [role EXCEPT ![e] = m.role]
     /\ encStarted' = [encStarted EXCEPT ![e] = @ \/ starts]
     /\ encReq' = (encReq \/ starts)
     /\ bond' = [bond EXCEPT ![e] = IF HasState(m, "Complete") /\ s.outcome[1].bonding
                                    THEN <<PairingKeys(e, s)>> ELSE @]

\* The central's controller reports encryption at once, behind what is queued.
WithEncryptionChange(e, m, queue) ==
  IF HasState(m, "WaitEncryption") /\ e = "central" /\ ~encStarted[e]
  THEN Append(queue, [type |-> "EncryptionChange", v |-> ""]) ELSE queue

\* pump and drive_link carry LL control PDUs before the hosts read their queues.
LlPumped(e) == e = "central" => ~encReq

-------------------------------------------------------------------------------
(* The Device: pair_on_handle, and one event of poll.                             *)

DevicePair(e) ==
  /\ setup.call[e] = "pair" /\ ~started[e]
  /\ started' = [started EXCEPT ![e] = TRUE]
  /\ IF session[e] # <<>>
     THEN UNCHANGED <<session, role, acl, inbox, encReq, encStarted, bond>>
     ELSE /\ Flush(e, ManagerPair(e, [Manager(e) EXCEPT !.role = "Initiator"]))
          /\ inbox' = inbox
  /\ UNCHANGED <<setup, encrypted, done, overrun>>

DevicePoll(e) ==
  /\ setup.driver[e] = "device" /\ inbox[e] # <<>> /\ LlPumped(e)
  /\ LET pdu == Head(inbox[e])
         asResponder == setup.transport = "le" /\ pdu.type = "Request" /\ session[e] = <<>>
         before == [Manager(e) EXCEPT !.role = IF asResponder THEN "Responder" ELSE @]
     IN /\ \E m \in {IF pdu.type = "EncryptionChange" THEN ManagerEncrypted(e, before)
                     ELSE ManagerReceive(e, before, pdu)} :
             /\ Flush(e, m)
             /\ inbox' = [inbox EXCEPT ![e] = WithEncryptionChange(e, m, Tail(@))]
        /\ encrypted' = [encrypted EXCEPT ![e] = @ \/ pdu.type = "EncryptionChange"]
  /\ UNCHANGED <<setup, started, done, overrun>>

(* LePairingSession and ClassicCtkdPairingSession.                                *)

\* begin, listen and request_peer; the PDUs queued here leave with drive_once.
SessionBegin(e) ==
  /\ setup.call[e] \in {"begin", "listen", "request_peer"} /\ ~started[e]
  /\ started' = [started EXCEPT ![e] = TRUE]
  /\ LET asks == \/ setup.call[e] = "request_peer"
                 \/ setup.call[e] = "begin" /\ role[e] = "Responder" /\ setup.transport = "le"
         m == IF setup.call[e] = "begin" /\ role[e] = "Initiator"
              THEN ManagerPair(e, Manager(e)) ELSE Manager(e)
     IN /\ session' = [session EXCEPT ![e] = m.session]
        /\ done' = [done EXCEPT ![e] = m.error]
        /\ acl' = [acl EXCEPT ![e] =
                     IF asks THEN Append(@, [type |-> "SecurityRequest", v |-> ""]) ELSE @]
  /\ role' = [role EXCEPT ![e] = IF setup.call[e] = "request_peer" THEN "Responder" ELSE @]
  /\ UNCHANGED <<setup, inbox, encReq, encrypted, encStarted, bond, overrun>>

\* drive_once: flush, poll everything in the host queue, hand all the PDUs to the
\* manager, answer a Security Request, look at the link, flush.  An error ends the
\* session at once, with what was queued since the first flush unsent.
DriveOnce(e) ==
  /\ setup.driver[e] = "session" /\ started[e] /\ ~done[e] /\ LlPumped(e)
  /\ inbox[e] # <<>> \/ (session[e] # <<>> /\ session[e][1].out # <<>>)
  /\ LET pdus == SelectSeq(inbox[e], LAMBDA p : p.type # "EncryptionChange")
         secure == encrypted[e] \/ pdus # inbox[e]
         first == IF session[e] = <<>> THEN <<>> ELSE session[e][1].out
         flushed == [Manager(e) EXCEPT !.session =
                       IF @ = <<>> THEN @ ELSE <<[@[1] EXCEPT !.out = <<>>]>>]
     IN /\ \E read \in {FoldLeft(LAMBDA m, p : ManagerReceive(e, m, p), flushed, pdus)} :
          \E asked \in {IF ~read.error /\ read.asked /\ read.role = "Initiator"
                           /\ read.session = <<>>
                        THEN ManagerPair(e, read) ELSE read} :
          \E m \in {IF ~asked.error /\ secure THEN ManagerEncrypted(e, asked) ELSE asked} :
             /\ IF m.error
                THEN /\ session' = [session EXCEPT ![e] = m.session]
                     /\ acl' = [acl EXCEPT ![e] = @ \o first]
                     /\ UNCHANGED <<role, encReq, encStarted, bond>>
                ELSE Flush(e, [m EXCEPT !.session =
                        IF @ = <<>> THEN @ ELSE <<[@[1] EXCEPT !.out = first \o @]>>])
             /\ inbox' = [inbox EXCEPT ![e] = WithEncryptionChange(e, m, <<>>)]
             /\ done' = [done EXCEPT ![e] =
                           m.error \/ HasState(m, "Complete") \/ HasState(m, "Failed")]
        /\ encrypted' = [encrypted EXCEPT ![e] = secure]
        /\ overrun' = (overrun \/ (/\ secure /\ ~encrypted[e]
                                  /\ \E i \in DOMAIN pdus : pdus[i].type \in KeyKinds))
  /\ UNCHANGED <<setup, started>>

(* The link.                                                                      *)

Deliver(e) ==
  /\ acl[e] # <<>>
  /\ inbox' = [inbox EXCEPT ![Peer(e)] = Append(@, Head(acl[e]))]
  /\ acl' = [acl EXCEPT ![e] = Tail(@)]
  /\ UNCHANGED <<setup, started, session, role, encReq, encrypted, encStarted, done,
                 bond, overrun>>

\* pump_ll brings the EncReq: the peripheral's controller reports encryption.
PumpLl ==
  /\ encReq
  /\ encReq' = FALSE
  /\ inbox' = [inbox EXCEPT !["peripheral"] =
                 Append(@, [type |-> "EncryptionChange", v |-> ""])]
  /\ UNCHANGED <<setup, started, session, role, acl, encrypted, encStarted, done, bond,
                 overrun>>

Init ==
  /\ setup \in Setups
  /\ started = [e \in Ends |-> FALSE]
  /\ session = [e \in Ends |-> <<>>]
  /\ role = [e \in Ends |-> IF e = "central" THEN "Initiator" ELSE "Responder"]
  /\ acl = [e \in Ends |-> <<>>]
  /\ inbox = [e \in Ends |-> <<>>]
  /\ encReq = FALSE
  /\ encrypted = [e \in Ends |-> FALSE]
  /\ encStarted = [e \in Ends |-> FALSE]
  /\ done = [e \in Ends |-> FALSE]
  /\ bond = [e \in Ends |-> <<>>]
  /\ overrun = FALSE

Next ==
  \/ \E e \in Ends : \/ DevicePair(e) \/ DevicePoll(e) \/ SessionBegin(e) \/ Deliver(e)
                     \/ DriveOnce(e)
  \/ PumpLl

Spec == Init /\ [][Next]_vars

-------------------------------------------------------------------------------
(* Properties.                                                                    *)

OutcomeOf(e) == IF session[e] = <<>> THEN <<>> ELSE session[e][1].outcome

\* Everything sent has been handled, or its receiver has stopped reading.
Quiet ==
  /\ ~encReq
  /\ \A e \in Ends : /\ acl[e] = <<>>
                     /\ done[e] \/ (/\ inbox[e] = <<>>
                                    /\ session[e] # <<>> => session[e][1].out = <<>>)
                     /\ started[e] \/ setup.call[e] = "none"

Completed(e) == HasState(Manager(e), "Complete")

\* Two ends that both finish phase 2 hold the same key, chose the same method, make
\* the same claim of authentication, and negotiated the same bonding, CT2, key size
\* and key distribution, whatever each was configured with and whoever initiated.
SameKey ==
  \A e \in Ends : (OutcomeOf(e) # <<>> /\ OutcomeOf(Peer(e)) # <<>>)
                    => OutcomeOf(e) = OutcomeOf(Peer(e))

\* Passkeys that differ in any bit get neither end past phase 2: the commitments of
\* Legacy and of each Secure Connections round, or the DHKey checks, catch it.
WrongPasskeyFails ==
  (\A e \in Ends : session[e] # <<>> /\ session[e][1].method = "Passkey")
    => (session["central"][1].tk # session["peripheral"][1].tk
          => \A e \in Ends : OutcomeOf(e) = <<>>)

\* When nothing is left to handle, either both ends completed or neither did, unless
\* a drive_once found the peer's keys together with the Encryption Change.
EndsAgree ==
  Quiet /\ ~overrun => (Completed("central") <=> Completed("peripheral"))

\* The bonds two ends store describe one another: the same long-term keys, the IRK
\* and the CSRK that the other end owns, and no two different link keys; and a bond
\* at one end has its counterpart.
BondsMatch ==
  Quiet /\ ~overrun =>
    \A e \in Ends : bond[e] # <<>> =>
      /\ bond[Peer(e)] # <<>>
      /\ LET ours == bond[e][1]
             theirs == bond[Peer(e)][1]
         IN /\ <<ours.ltk, ours.ltkCentral, ours.ltkPeripheral>>
                 = <<theirs.ltk, theirs.ltkCentral, theirs.ltkPeripheral>>
            /\ ours.csrk = theirs.localCsrk
            /\ ours.irk = IF "id" \in PeerKeys(session[e][1])
                          THEN {<<Peer(e), 0>>} ELSE {}
            /\ ours.linkKey = {} \/ theirs.linkKey = {} \/ ours.linkKey = theirs.linkKey

\* The two ends are configured alike, the central initiates and the users cooperate.
Cooperative ==
  /\ Kind("central") = Kind("peripheral") /\ \A e \in Ends : Creatable(e)
  /\ setup.call["central"] \in {"pair", "begin"}
     \/ (setup.call["central"] = "listen" /\ setup.call["peripheral"] = "begin")
  /\ setup.call["peripheral"] \in {"none", "listen", "begin"}
  /\ PublicKey("central") # PublicKey("peripheral")
  /\ Config("central").tk = Config("peripheral").tk
  /\ \A e \in Ends :
       /\ User(e).accepts /\ User(e).confirms /\ User(e).compares
       /\ User(e).shows = User(Peer(e)).types /\ User(e).shows # {}
       /\ User(e).types = User("central").shows
       /\ Config(e).oob = Config(Peer(e)).oob
       /\ Config(e).oobPeer = Config(Peer(e)).oobPeer
       /\ Config(e).oobPeer => Config(e).oobGood /\ Config(e).oob

\* Pairing between cooperating users of ends configured alike completes at both ends,
\* for every choice of IO capabilities, key masks, sizes and flags; again unless keys
\* and the Encryption Change met in one drive_once.
CooperativeCompletes ==
  Quiet /\ Cooperative /\ ~overrun => \A e \in Ends : Completed(e)

\* drive_once "Returns the completed keys once key distribution has finished", so a
\* cooperative pairing never ends in a failure at an end driven by a session.
DriveReturnsKeys ==
  Cooperative => \A e \in Ends : done[e] => Completed(e)

\* The key stored_encryption_parameters selects for this end's role on the link.
StoredKey(e) ==
  LET keys == bond[e][1]
  IN IF keys.ltk # {} THEN keys.ltk
     ELSE IF e = "central" THEN keys.ltkCentral ELSE keys.ltkPeripheral

\* "Start LE encryption using the persisted bond": the two ends of a bond that both
\* select a stored key select the same one.
BondEncrypts ==
  Quiet /\ (\A e \in Ends : bond[e] # <<>> /\ StoredKey(e) # {})
    => StoredKey("central") = StoredKey("peripheral")

===============================================================================
