------------------------------- MODULE Bonds -------------------------------
(***************************************************************************)
(* The bonds of devices: the JSON key store (bumble/src/keys.rs), a file   *)
(* several devices share, each under its own namespace, and the use the    *)
(* host makes of it for Classic link keys, LE bonds and the resolver of    *)
(* private addresses (bumble-host/src/lib.rs).                             *)
(*                                                                         *)
(* A save writes a second file and renames it; the process may die at any  *)
(* of these points.  Saves of two processes do not overlap.  A bond is a   *)
(* function from the fields it has to their values; hex and JSON are the   *)
(* identity on it.                                                         *)
(***************************************************************************)
EXTENDS Integers, FiniteSets

CONSTANTS Devices, Namespace, \* [Devices -> namespaces], all different
          BondPeers, BondKeys

VARIABLES file,   \* what the key file holds: namespace -> peer -> bond
          tmp,    \* the temporary file: [whole, db]
          dev,    \* what the running process of each device knows
          saving, \* the save each process is in the middle of, if any
          told,   \* history: what the calls that returned should have left
          steps   \* bound: calls still to be made

bondVars == <<file, tmp, dev, saving, told, steps>>

FIELDS == {"link_key", "ltk", "irk"}

Empty == [x \in {} |-> 0]

Put(f, k, v) == [x \in DOMAIN f \cup {k} |-> IF x = k THEN v ELSE f[x]]

Without(f, k) == [x \in DOMAIN f \ {k} |-> f[x]]

Entry(f, k) == IF k \in DOMAIN f THEN f[k] ELSE Empty

\* A device that has just started.
Started == [links |-> {}, encrypted |-> {}, keys |-> Empty, registered |-> {}, resolver |-> {}]

BondInit(bound) ==
  /\ file = Empty
  /\ tmp = [whole |-> TRUE, db |-> Empty]
  /\ dev = [d \in Devices |-> Started]
  /\ saving = [d \in Devices |-> {}]
  /\ told = [d \in Devices |-> Empty]
  /\ steps = bound

Due == steps > 0 /\ steps' = steps - 1

-----------------------------------------------------------------------------
\* The store.

\* load: the namespace of the device is there, empty if it was not.
load(d) == Put(file, Namespace[d], Entry(file, Namespace[d]))

get(d, p) == Entry(Entry(file, Namespace[d]), p)

\* Mutant: a bond is replaced by what was learned last.
MergeReplaces(old, new) == new

\* Each field the newer record has replaces the older one.
merge(old, new) ==
  [f \in DOMAIN old \cup DOMAIN new |-> IF f \in DOMAIN new THEN new[f] ELSE old[f]]

update(d, p, bond) ==
  [load(d) EXCEPT ![Namespace[d]] = Put(@, p, merge(Entry(@, p), bond))]

delete(d, p) == [load(d) EXCEPT ![Namespace[d]] = Without(@, p)]

delete_all(d) == [load(d) EXCEPT ![Namespace[d]] = Empty]

\* Process d begins to save db, which should leave the bonds in left.  Then it
\* refreshes the resolver, and synchronizes the link of a peer.
Begin(d, db, left, refreshes, peer) ==
  /\ \A x \in Devices : saving[x] = {}
  /\ saving' = [saving EXCEPT ![d] = {[db |-> db, left |-> left, refreshes |-> refreshes,
                                      peer |-> peer, written |-> FALSE]}]

-----------------------------------------------------------------------------
\* The host.

\* get_resolving_keys: the identities in the store.
Identities(db, d) ==
  LET bonds == Entry(db, Namespace[d])
  IN {<<p, bonds[p]["irk"]>> : p \in {q \in DOMAIN bonds : "irk" \in DOMAIN bonds[q]}}

\* The resolver, and the list the controller is programmed with, are those.
refresh_configured_resolving_list(v, db, d) == [v EXCEPT !.resolver = {Identities(db, d)}]

\* synchronize_classic_pairing_connection with register_classic_pairing_connection.
Synchronized(v, d, p, bond) ==
  IF p \notin v.links THEN v
  ELSE IF p \notin v.encrypted THEN [v EXCEPT !.registered = @ \ {p}]
  ELSE LET keys == IF p \in DOMAIN v.keys \/ "link_key" \notin DOMAIN bond THEN v.keys
                   ELSE Put(v.keys, p, bond["link_key"])
       IN [v EXCEPT !.keys = keys, !.registered = IF p \in DOMAIN keys THEN @ \cup {p} ELSE @]

\* Mutant: the key of a link is cached once.
KeptKey(v, p, key) == IF p \in v.links /\ p \notin DOMAIN v.keys THEN Put(v.keys, p, key) ELSE v.keys

CachedKey(v, p, key) == IF p \in v.links THEN Put(v.keys, p, key) ELSE v.keys

\* LinkKeyNotification: persist_classic_link_key up to its save.
LinkKeyNotification(d, p, key) ==
  /\ Due
  /\ dev' = [dev EXCEPT ![d].keys = CachedKey(dev[d], p, key)]
  /\ \E bond \in {Put(get(d, p), "link_key", key)} :
       Begin(d, update(d, p, bond),
             Put(told[d], p, Put(Entry(told[d], p), "link_key", key)), TRUE, {p})
  /\ UNCHANGED <<file, tmp, told>>

\* A bond with fields learned since; not code, the reference for merge.
Learned(bond, new) ==
  [f \in {g \in FIELDS : g \in DOMAIN bond \/ g \in DOMAIN new} |->
     IF f \in DOMAIN new THEN new[f] ELSE bond[f]]

\* persist_pairing_bond: what an LE pairing distributed.
PairingComplete(d, p, bond) ==
  /\ Due
  /\ Begin(d, update(d, p, bond), Put(told[d], p, Learned(Entry(told[d], p), bond)), TRUE, {})
  /\ UNCHANGED <<file, tmp, dev, told>>

DeleteBond(d, p) ==
  /\ Due
  /\ p \in DOMAIN Entry(file, Namespace[d])
  /\ Begin(d, delete(d, p), Without(told[d], p), FALSE, {})
  /\ UNCHANGED <<file, tmp, dev, told>>

DeleteAllBonds(d) ==
  /\ Due
  /\ Begin(d, delete_all(d), Empty, FALSE, {})
  /\ UNCHANGED <<file, tmp, dev, told>>

\* save: the temporary file first.
WriteTemp(d) ==
  \E s \in saving[d] :
    /\ ~s.written
    /\ tmp' = [whole |-> TRUE, db |-> s.db]
    /\ saving' = [saving EXCEPT ![d] = {[s EXCEPT !.written = TRUE]}]
    /\ UNCHANGED <<file, dev, told, steps>>

\* Then the rename, and the rest of the handler.
Rename(d) ==
  \E s \in saving[d] :
    /\ s.written
    /\ file' = tmp.db
    /\ saving' = [saving EXCEPT ![d] = {}]
    /\ told' = [told EXCEPT ![d] = s.left]
    /\ \E v \in {IF s.refreshes THEN refresh_configured_resolving_list(dev[d], tmp.db, d)
                 ELSE dev[d]} :
         dev' = [dev EXCEPT ![d] =
                   IF s.peer = {} THEN v
                   ELSE LET p == CHOOSE q \in s.peer : TRUE
                        IN Synchronized(v, d, p, Entry(Entry(tmp.db, Namespace[d]), p))]
    /\ UNCHANGED <<tmp, steps>>

\* LinkKeyRequest: answered from the store, and the key is the link's.
LinkKeyRequest(d, p) ==
  /\ Due /\ saving[d] = {}
  /\ "link_key" \in DOMAIN get(d, p)
  /\ dev' = [dev EXCEPT ![d].keys = CachedKey(dev[d], p, get(d, p)["link_key"])]
  /\ UNCHANGED <<file, tmp, saving, told>>

EncryptionChange(d, p, on) ==
  /\ Due /\ saving[d] = {}
  /\ p \in dev[d].links
  /\ \E v \in {[dev[d] EXCEPT !.encrypted = IF on THEN @ \cup {p} ELSE @ \ {p}]} :
       dev' = [dev EXCEPT ![d] = Synchronized(v, d, p, get(d, p))]
  /\ UNCHANGED <<file, tmp, saving, told>>

LinkUp(d, p) ==
  /\ Due /\ saving[d] = {}
  /\ p \notin dev[d].links
  /\ dev' = [dev EXCEPT ![d].links = @ \cup {p}]
  /\ UNCHANGED <<file, tmp, saving, told>>

LinkDown(d, p) ==
  /\ Due /\ saving[d] = {}
  /\ p \in dev[d].links
  /\ dev' = [dev EXCEPT ![d].links = @ \ {p}, ![d].encrypted = @ \ {p}, ![d].registered = @ \ {p},
                        ![d].keys = Without(@, p)]
  /\ UNCHANGED <<file, tmp, saving, told>>

\* The process dies and is started again; a write under way is torn.
Crash(d) ==
  /\ Due
  /\ dev' = [dev EXCEPT ![d] = Started]
  /\ saving' = [saving EXCEPT ![d] = {}]
  /\ \/ tmp' = tmp
     \/ \E s \in saving[d] : ~s.written /\ tmp' = [whole |-> FALSE, db |-> Empty]
  /\ UNCHANGED <<file, told>>

LeBonds == {[f \in {"ltk"} |-> k] : k \in BondKeys} \cup {[f \in {"ltk", "irk"} |-> k] : k \in BondKeys}

BondNext ==
  \E d \in Devices :
    \/ \E p \in BondPeers, key \in BondKeys : LinkKeyNotification(d, p, key)
    \/ \E p \in BondPeers, bond \in LeBonds : PairingComplete(d, p, bond)
    \/ \E p \in BondPeers : DeleteBond(d, p) \/ LinkKeyRequest(d, p) \/ LinkUp(d, p) \/ LinkDown(d, p)
    \/ \E p \in BondPeers, on \in BOOLEAN : EncryptionChange(d, p, on)
    \/ DeleteAllBonds(d)
    \/ WriteTemp(d)
    \/ Rename(d)
    \/ Crash(d)

-----------------------------------------------------------------------------
\* Every device finds in the file exactly the bonds its completed calls left
\* there, field by field, whatever other devices stored and wherever a process
\* died; a link that has a key has the one in its bond, the resolver knows
\* every bonded identity, and pairing is offered only on links that are
\* encrypted with a known key.
BondsKept ==
  \A d \in Devices :
    /\ \A p \in BondPeers : get(d, p) = Entry(told[d], p)
    /\ \A p \in DOMAIN dev[d].keys :
         saving[d] = {} /\ "link_key" \in DOMAIN Entry(told[d], p) =>
           dev[d].keys[p] = told[d][p]["link_key"]
    /\ \A known \in dev[d].resolver : Identities(file, d) \subseteq known
    /\ dev[d].registered \subseteq dev[d].encrypted \cap DOMAIN dev[d].keys
=============================================================================
