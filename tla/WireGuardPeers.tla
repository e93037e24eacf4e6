---------------------------- MODULE WireGuardPeers ----------------------------
(***************************************************************************)
(* WireGuard peers: the handlers of api/handlers_extra.go that list,       *)
(* create, delete, restore and update peers and edit the interface, the    *)
(* file they load and save (core/wireguard.go), `wg syncconf`, the flag    *)
(* wireguard_pending_restart, the service buttons and the table wg_peers.  *)
(*                                                                         *)
(* No lock is held anywhere: a handler loads the file, changes its copy    *)
(* and saves the copy, line by line, into the truncated file, where others *)
(* may read, truncate and save meanwhile.  It may fail at each step, and   *)
(* the panel may die.  A configuration is reduced to the interface's       *)
(* address and the peers' keys and first allowed addresses, the only ones  *)
(* that the checks look at.  The order of the peers is left out: where it  *)
(* decides, both outcomes are possible.  The network is one that           *)
(* findAvailableIP can scan, of at most 256 addresses.                     *)
(***************************************************************************)
EXTENDS Naturals

CONSTANTS
    Handlers,       \* goroutine slots that serve requests
    Keys,           \* public keys
    Broadcast,      \* last address of the network; the first is 0
    NoIP,           \* no Address, no AllowedIPs
    NoKey,          \* no PublicKey
    AnyFree,        \* the empty `ip` of a create request
    Down,           \* the interface does not exist
    Requests,       \* what clients ask for
    NoRequest,      \* the request of an idle slot
    InitialConfigs, \* what the file may hold when the panel starts
    MaxRequests     \* bound: requests in a behaviour

Network == 0
Hosts == 1 .. (Broadcast - 1)
Addresses == 0 .. Broadcast

Peer == [key : Keys \cup {NoKey}, ip : Addresses \cup {NoIP}]

(* A configuration: c.address is that of the interface.                    *)
Config == [address : Hosts \cup {NoIP}, peers : SUBSET Peer]

(* What LoadWireGuardConfig returns of a missing or a truncated file.      *)
Empty == [address |-> NoIP, peers |-> {}]

IPs(c) == {p.ip : p \in c.peers} \ {NoIP}

KeysOf(c) == {p.key : p \in c.peers} \ {NoKey}

Unique(c) == \A p, q \in c.peers : p.key = q.key /\ p.key # NoKey => p = q

NoClash(c) == \A p, q \in c.peers : p.ip = q.ip /\ p.ip # NoIP => p.key = q.key

(* No two peers with one key, no address with two peers.                   *)
Distinct(c) == Unique(c) /\ NoClash(c)

(* What the `ip` of a create request may be.                               *)
Wishes == Addresses \cup {AnyFree}

KeyRequest == [kind : {"delete"}, key : Keys]
CreateRequest == [kind : {"create"}, key : Keys, ip : Wishes]
PeerRequest == [kind : {"restore", "update"}, key : Keys, ip : Addresses]
AddressRequest == [kind : {"interface"}, ip : Hosts]
PlainRequest == [kind : {"list", "restart", "start", "stop"}]
FileRequests == {r \in Requests : r.kind \in {"raw", "copy"}}

ASSUME ConstantsAssumption ==
    /\ Broadcast \in Nat
    /\ NoIP \notin Addresses
    /\ NoKey \notin Keys
    /\ AnyFree \notin Addresses
    /\ Down \notin Config
    /\ NoRequest \notin Requests
    /\ MaxRequests \in Nat

ASSUME RequestsAssumption ==
    /\ Requests \ FileRequests \subseteq
          KeyRequest \cup CreateRequest \cup PeerRequest \cup AddressRequest \cup PlainRequest
    /\ \A r \in FileRequests : r.config \in Config

ASSUME InitialAssumption ==
    \A c \in InitialConfigs : c \in Config /\ Distinct(c)

-----------------------------------------------------------------------------
VARIABLES
    file,      \* wg0.conf
    running,   \* the kernel's interface, as last configured, or Down
    pending,   \* Server.wgPendingRestart
    meta,      \* the table wg_peers: "none", "live" or "deleted"
    pc,        \* where each handler is
    req,       \* its request
    cfg,       \* its local wgConfig
    seen,      \* history: the file as it has loaded it
    asked,     \* the number of requests so far
    shared,    \* history: handlers whose save overlaps another's
    alone,     \* history: nobody and no failure came between its steps
    unchecked  \* history: peers have been written that no check has seen

world == <<file, running, pending, meta>>
vars == <<file, running, pending, meta, pc, req, cfg, seen, asked, shared, alone, unchecked>>

PC == {"idle", "load", "forget", "truncate", "write", "record", "reload",
       "sync", "clear", "mark", "systemctl", "list", "ok"}

TypeOK ==
    /\ file \in Config
    /\ running = Down \/ running \in Config
    /\ pending \in BOOLEAN
    /\ meta \in [Keys -> {"none", "live", "deleted"}]
    /\ pc \in [Handlers -> PC]
    /\ req \in [Handlers -> Requests \cup {NoRequest}]
    /\ cfg \in [Handlers -> Config]
    /\ seen \in [Handlers -> Config]
    /\ asked \in 0 .. MaxRequests
    /\ shared \subseteq Handlers
    /\ alone \in [Handlers -> BOOLEAN]
    /\ unchecked \in BOOLEAN

-----------------------------------------------------------------------------
Init ==
    /\ file \in InitialConfigs
    /\ running \in {file, Down}
    /\ pending = FALSE
    /\ meta = [k \in Keys |-> IF k \in KeysOf(file) THEN "live" ELSE "none"]
    /\ pc = [h \in Handlers |-> "idle"]
    /\ req = [h \in Handlers |-> NoRequest]
    /\ cfg = [h \in Handlers |-> Empty]
    /\ seen = [h \in Handlers |-> Empty]
    /\ asked = 0
    /\ shared = {}
    /\ alone = [h \in Handlers |-> FALSE]
    /\ unchecked = FALSE

Goto(h, label) == pc' = [pc EXCEPT ![h] = label]

(* h makes a step, as meant or after a failure: the others are not alone.  *)
Step(h, asMeant) == alone' = [g \in Handlers |-> g = h /\ alone[h] /\ asMeant]

(* What the handler keeps beside pc is forgotten with the request.         *)
Leave(hs) ==
    /\ pc' = [h \in Handlers |-> IF h \in hs THEN "idle" ELSE pc[h]]
    /\ req' = [h \in Handlers |-> IF h \in hs THEN NoRequest ELSE req[h]]
    /\ cfg' = [h \in Handlers |-> IF h \in hs THEN Empty ELSE cfg[h]]
    /\ seen' = [h \in Handlers |-> IF h \in hs THEN Empty ELSE seen[h]]
    /\ shared' = shared \ hs

(* An error is answered.                                                   *)
Error(h) == /\ Leave({h})
            /\ Step(h, FALSE)

Kind(h, kinds) == req[h] # NoRequest /\ req[h].kind \in kinds

(* A client asks.  Only a raw replacement, and the copying of the backup,  *)
(* have their content from elsewhere than the file.                        *)
Ask(h) ==
    /\ pc[h] = "idle"
    /\ asked < MaxRequests
    /\ asked' = asked + 1
    /\ \E r \in Requests :
          /\ req' = [req EXCEPT ![h] = r]
          /\ IF r \in FileRequests
                THEN /\ cfg' = [cfg EXCEPT ![h] = r.config]
                     /\ Goto(h, "truncate")
                ELSE /\ Goto(h, IF r.kind \in {"restart", "start", "stop"}
                                  THEN "systemctl" ELSE "load")
                     /\ UNCHANGED cfg
    /\ unchecked' = (unchecked \/ ~Distinct(cfg'[h]))
    /\ alone' = [g \in Handlers |-> g = h /\ \A o \in Handlers \ {h} : pc[o] = "idle"]
    /\ UNCHANGED <<world, seen, shared>>

(* LoadWireGuardConfig, and what the handler makes of its copy c.          *)
Load(h, c, label) ==
    /\ pc[h] = "load"
    /\ seen' = [seen EXCEPT ![h] = file]
    /\ cfg' = [cfg EXCEPT ![h] = c]
    /\ Goto(h, label)
    /\ Step(h, TRUE)
    /\ UNCHANGED <<world, req, asked, shared>>

(* The file cannot be read, or the request is refused: a bad address, a    *)
(* key or an alias that is there, an address that is not free, no such     *)
(* peer.                                                                   *)
Refuse(h) ==
    /\ pc[h] = "load"
    /\ Error(h)
    /\ UNCHANGED <<world, asked, unchecked>>

-----------------------------------------------------------------------------
(* handleCreateWireGuardPeer up to AddPeer's Save.                         *)

(* usedIPs: the interface, its network and the peers.                      *)
Used(c) == {Network, c.address} \cup IPs(c)

(* findAvailableIP: the lowest address that is free.                       *)
Available(c) == {i \in Hosts \ Used(c) : \A j \in Hosts \ Used(c) : i <= j}

(* Mutant: the address found is not what the peer gets.                    *)
ChoicesUnresolved(c, ip) == {ip} \ Used(c)

Choices(c, ip) == IF ip = AnyFree THEN Available(c) ELSE {ip} \ Used(c)

With(c, k, ip) == [c EXCEPT !.peers = @ \cup {[key |-> k, ip |-> ip]}]

Without(c, k) == {p \in c.peers : p.key # k}

LoadToCreate(h) ==
    /\ Kind(h, {"create"})
    /\ file.address # NoIP
    /\ req[h].key \notin KeysOf(file)
    /\ \E ip \in Choices(file, req[h].ip) :
          Load(h, With(file, req[h].key, ip), "truncate")
    /\ UNCHANGED unchecked

(* handleRestoreWireGuardPeer: the address is not looked at.               *)
LoadToRestore(h) ==
    /\ Kind(h, {"restore"})
    /\ req[h].key \notin KeysOf(file)
    /\ Load(h, With(file, req[h].key, req[h].ip), "truncate")
    /\ unchecked' = (unchecked \/ req[h].ip \in IPs(file))

(* Mutant: nobody's address is reserved.                                   *)
MayTakeAny(c, k, ip) == ~(ip = Network /\ c.address # NoIP)

(* handleUpdateWireGuardPeer: an address may be taken if the owner that    *)
(* usedIPs has recorded, the last one in the file, is the peer itself.  Of *)
(* the interface only the network is reserved.                             *)
MayTake(c, k, ip) ==
    LET owners == {p.key : p \in {q \in c.peers : q.ip = ip}} IN
    \/ k \in owners
    \/ owners = {} /\ ~(ip = Network /\ c.address # NoIP)

LoadToUpdate(h) ==
    LET r == req[h] IN
    /\ Kind(h, {"update"})
    /\ MayTake(file, r.key, r.ip)
    /\ \E p \in file.peers :
          /\ p.key = r.key
          /\ Load(h, [file EXCEPT !.peers = (@ \ {p}) \cup {[p EXCEPT !.ip = r.ip]}],
                  "truncate")
    /\ UNCHANGED unchecked

(* handleUpdateWireGuardInterface: the peers are not looked at.            *)
LoadToSetInterface(h) ==
    /\ Kind(h, {"interface"})
    /\ Load(h, [file EXCEPT !.address = req[h].ip], "truncate")
    /\ UNCHANGED unchecked

(* handleDeleteWireGuardPeer: first the row of the table is set, its error *)
(* ignored, then RemovePeer looks for the peer in the copy.                *)
LoadToDelete(h) ==
    /\ Kind(h, {"delete"})
    /\ Load(h, file, "forget")
    /\ UNCHANGED unchecked

(* UpsertWGPeer: one statement, which may fail; nobody asks whether it has.*)
UpsertWGPeer(h, k, state) ==
    \/ /\ meta' = [meta EXCEPT ![k] = state]
       /\ Step(h, TRUE)
    \/ /\ UNCHANGED meta
       /\ Step(h, FALSE)

RemovePeer(h) ==
    LET k == req[h].key IN
    /\ pc[h] = "forget"
    /\ UpsertWGPeer(h, k, "deleted")
    /\ IF k \in KeysOf(cfg[h])
          THEN /\ cfg' = [cfg EXCEPT ![h].peers = Without(cfg[h], k)]
               /\ Goto(h, "truncate")
               /\ UNCHANGED <<req, seen, shared>>
          ELSE Leave({h})
    /\ UNCHANGED <<file, running, pending, asked, unchecked>>

-----------------------------------------------------------------------------
(* Save, os.WriteFile and copyFile: the file is opened truncated ...       *)
Truncate(h) ==
    LET others == {g \in Handlers \ {h} : pc[g] = "write"} IN
    /\ pc[h] = "truncate"
    /\ file' = Empty
    /\ Goto(h, "write")
    /\ Step(h, TRUE)
    /\ shared' = IF others = {} THEN shared ELSE shared \cup others \cup {h}
    /\ UNCHANGED <<running, pending, meta, req, cfg, seen, asked, unchecked>>

TruncateFails(h) ==
    /\ pc[h] = "truncate"
    /\ Error(h)
    /\ UNCHANGED <<world, asked, unchecked>>

(* A peer that is cut short, with its key or without.                      *)
Cut(p, keyed) == [key |-> IF keyed THEN p.key ELSE NoKey, ip |-> NoIP]

Cuts(ps) == {Cut(p, keyed) : p \in ps, keyed \in BOOLEAN}

(* What may be read of c while it is written: some of its peers, the last  *)
(* perhaps cut short.                                                      *)
Begun(ps) ==
    {qs \in SUBSET (ps \cup Cuts(ps)) :
        \/ qs \subseteq ps
        \/ \E p \in ps \ qs : \E keyed \in BOOLEAN : qs \ {Cut(p, keyed)} \subseteq ps}

Beginnings(c) == [address : {c.address}, peers : Begun(c.peers)]

(* What two saves at once may leave: each writes at an offset of its own,  *)
(* so that a line of one may follow a line of the other.  Entries that lack*)
(* a line clash with nothing; they are left out here.                      *)
Mixtures(c, d) ==
    [address : {c.address, d.address, NoIP},
     peers : SUBSET [key : KeysOf(c) \cup KeysOf(d), ip : IPs(c) \cup IPs(d)]]

(* ... then written, a line at a time.                                     *)
WriteSome(h) ==
    /\ pc[h] = "write"
    /\ h \notin shared
    /\ file' \in Beginnings(cfg[h]) \ {file}
    /\ KeysOf(file) \subseteq KeysOf(file')
    /\ Step(h, TRUE)
    /\ UNCHANGED <<running, pending, meta, pc, req, cfg, seen, asked, shared, unchecked>>

(* Where a handler goes on after its save.                                 *)
AfterSave(h) ==
    CASE Kind(h, {"create", "restore"}) -> "record"
      [] Kind(h, {"raw"}) -> "reload"
      [] Kind(h, {"copy"}) -> "ok"
      [] OTHER -> "sync"

FinishSave(h) ==
    /\ pc[h] = "write"
    /\ h \notin shared
    /\ file' = cfg[h]
    /\ Goto(h, AfterSave(h))
    /\ Step(h, TRUE)
    /\ UNCHANGED <<running, pending, meta, req, cfg, seen, asked, shared, unchecked>>

FinishSharedSave(h) ==
    /\ pc[h] = "write"
    /\ h \in shared
    /\ file' \in Mixtures(file, cfg[h])
    /\ unchecked' = (unchecked \/ ~Distinct(file'))
    /\ Goto(h, AfterSave(h))
    /\ Step(h, FALSE)
    /\ shared' = shared \ {h}
    /\ UNCHANGED <<running, pending, meta, req, cfg, seen, asked>>

(* The disk is full: Save does not look at what Fprintf returns; the other *)
(* two report it.                                                          *)
WriteFails(h) ==
    /\ pc[h] = "write"
    /\ IF Kind(h, {"raw", "copy"})
          THEN Error(h)
          ELSE /\ Goto(h, AfterSave(h))
               /\ Step(h, FALSE)
               /\ shared' = shared \ {h}
               /\ UNCHANGED <<req, cfg, seen>>
    /\ UNCHANGED <<world, asked, unchecked>>

(* A created or restored peer gets its row.                                *)
RecordPeer(h) ==
    /\ pc[h] = "record"
    /\ UpsertWGPeer(h, req[h].key, "live")
    /\ Goto(h, "sync")
    /\ UNCHANGED <<file, running, pending, req, cfg, seen, asked, shared, unchecked>>

-----------------------------------------------------------------------------
(* writeSyncConf(nil) loads the file that a raw replacement has written.   *)
ReloadFile(h) ==
    /\ pc[h] = "reload"
    /\ \/ /\ cfg' = [cfg EXCEPT ![h] = file]
          /\ Goto(h, "sync")
       \/ /\ Goto(h, "mark")
          /\ UNCHANGED cfg
    /\ Step(h, TRUE)
    /\ UNCHANGED <<world, req, seen, asked, shared, unchecked>>

(* `wg syncconf`: gives the kernel the peers of the handler's copy, unless *)
(* one lacks its key; the address of an interface is not among what wg can *)
(* set.                                                                    *)
SyncConf(h) ==
    /\ pc[h] = "sync"
    /\ running # Down
    /\ \A p \in cfg[h].peers : p.key # NoKey
    /\ running' = [running EXCEPT !.peers = cfg[h].peers]
    /\ Goto(h, "clear")
    /\ Step(h, TRUE)
    /\ UNCHANGED <<file, pending, meta, req, cfg, seen, asked, shared, unchecked>>

(* Mutant: a failure is logged and nothing else.                           *)
SyncFailsSilently(h) ==
    /\ pc[h] = "sync"
    /\ Goto(h, "ok")
    /\ Step(h, TRUE)
    /\ UNCHANGED <<world, req, cfg, seen, asked, shared, unchecked>>

(* There is no wg, no interface, or no temporary file.                     *)
SyncFails(h) ==
    /\ pc[h] = "sync"
    /\ Goto(h, "mark")
    /\ Step(h, TRUE)
    /\ UNCHANGED <<world, req, cfg, seen, asked, shared, unchecked>>

ClearPending(h) ==
    /\ pc[h] = "clear"
    /\ pending' = FALSE
    /\ Goto(h, "ok")
    /\ Step(h, TRUE)
    /\ UNCHANGED <<file, running, meta, req, cfg, seen, asked, shared, unchecked>>

MarkPending(h) ==
    /\ pc[h] = "mark"
    /\ pending' = TRUE
    /\ Goto(h, "ok")
    /\ Step(h, TRUE)
    /\ UNCHANGED <<file, running, meta, req, cfg, seen, asked, shared, unchecked>>

(* The service buttons: wg-quick@wg0.  Starting what runs does nothing.    *)
Systemctl(h) ==
    /\ pc[h] = "systemctl"
    /\ running' = CASE req[h].kind = "stop" -> Down
                    [] req[h].kind = "start" /\ running # Down -> running
                    [] OTHER -> file
    /\ Goto(h, IF req[h].kind = "restart" THEN "clear" ELSE "ok")
    /\ Step(h, TRUE)
    /\ UNCHANGED <<file, pending, meta, req, cfg, seen, asked, shared, unchecked>>

SystemctlFails(h) ==
    /\ pc[h] = "systemctl"
    /\ running' \in {running, Down}
    /\ Error(h)
    /\ UNCHANGED <<file, pending, meta, asked, unchecked>>

(* handleGetWireGuardPeers: a row is written for every peer of the file.   *)
LoadToList(h) ==
    /\ Kind(h, {"list"})
    /\ Load(h, file, "list")
    /\ UNCHANGED unchecked

ListPeer(h) ==
    /\ pc[h] = "list"
    /\ \E p \in cfg[h].peers :
          /\ IF p.key = NoKey
                THEN UNCHANGED meta /\ Step(h, TRUE)
                ELSE UpsertWGPeer(h, p.key, "live")
          /\ cfg' = [cfg EXCEPT ![h].peers = @ \ {p}]
    /\ UNCHANGED <<file, running, pending, pc, req, seen, asked, shared, unchecked>>

ListEnds(h) ==
    /\ pc[h] = "list"
    /\ cfg[h].peers = {}
    /\ Goto(h, "ok")
    /\ Step(h, TRUE)
    /\ UNCHANGED <<world, req, cfg, seen, asked, shared, unchecked>>

Reply(h) ==
    /\ pc[h] = "ok"
    /\ Leave({h})
    /\ Step(h, FALSE)
    /\ UNCHANGED <<world, asked, unchecked>>

(* The panel dies and is started again; a file cut short stays so.         *)
PanelDies ==
    /\ pending' = FALSE
    /\ Leave(Handlers)
    /\ alone' = [h \in Handlers |-> FALSE]
    /\ UNCHANGED <<file, running, meta, asked, unchecked>>

Handle(h) ==
    \/ Ask(h) \/ Refuse(h) \/ LoadToCreate(h) \/ LoadToRestore(h) \/ LoadToUpdate(h)
    \/ LoadToSetInterface(h) \/ LoadToDelete(h) \/ RemovePeer(h) \/ Truncate(h)
    \/ WriteSome(h) \/ FinishSave(h) \/ RecordPeer(h) \/ ReloadFile(h) \/ SyncConf(h)
    \/ SyncFails(h) \/ ClearPending(h) \/ MarkPending(h) \/ Systemctl(h)
    \/ SystemctlFails(h) \/ LoadToList(h) \/ ListPeer(h) \/ ListEnds(h) \/ Reply(h)

Mishap(h) == FinishSharedSave(h) \/ TruncateFails(h) \/ WriteFails(h)

Next == (\E h \in Handlers : Handle(h) \/ Mishap(h)) \/ PanelDies

Spec == Init /\ [][Next]_vars

(* The panel while it lives, the disk takes every write, and no two saves  *)
(* overlap.                                                                *)
HealthySpec == Init /\ [][\E h \in Handlers : Handle(h)]_vars

-----------------------------------------------------------------------------
(* Although nothing is locked and files are read half written: unless a    *)
(* restore, a raw file or the mixture of two saves has brought them in, no *)
(* two peers share a key or an address, in the file, in the kernel or in a *)
(* handler's copy.                                                         *)
PeersAreDistinct ==
    ~unchecked => /\ Distinct(file)
                  /\ running # Down => Distinct(running)
                  /\ \A h \in Handlers : Distinct(cfg[h])

(* The effect that the answer 200 promises of request r, which has loaded  *)
(* the file `before`.                                                      *)
Promised(r, before) ==
    CASE r.kind = "create" ->
           /\ \E ip \in Addresses \ (IPs(before) \cup {before.address}) :
                 /\ r.ip \in {ip, AnyFree}
                 /\ file = With(before, r.key, ip)
           /\ meta[r.key] = "live"
      [] r.kind = "restore" ->
           file = With(before, r.key, r.ip) /\ meta[r.key] = "live"
      [] r.kind = "delete" ->
           /\ r.key \in KeysOf(before)
           /\ file = [before EXCEPT !.peers = Without(before, r.key)]
           /\ meta[r.key] = "deleted"
      [] r.kind = "update" ->
           /\ file.address = before.address
           /\ KeysOf(file) = KeysOf(before)
           /\ Without(file, r.key) = Without(before, r.key)
           /\ [key |-> r.key, ip |-> r.ip] \in file.peers
      [] r.kind = "interface" -> file = [before EXCEPT !.address = r.ip]
      [] r.kind \in {"raw", "copy"} -> file = r.config
      [] r.kind = "list" -> \A k \in KeysOf(file) : meta[k] = "live"
      [] r.kind = "stop" -> running = Down
      [] OTHER -> running # Down

(* A request that nobody and no failure has disturbed has done in the file *)
(* and the table what it was asked for and nothing else, and the kernel has*)
(* the file's peers or the panel says that a restart is pending.           *)
AloneMeansDone ==
    \A h \in Handlers :
        pc[h] = "ok" /\ alone[h] =>
            /\ Promised(req[h], seen[h])
            /\ ~Kind(h, {"copy", "list", "start", "stop"}) =>
                  pending \/ (running # Down /\ running.peers = file.peers)

(* No two peers of the file have one address: the check that answers "IP   *)
(* already assigned to another peer".  False of a restore.                 *)
AddressesAreUnique == NoClash(file)

=============================================================================
