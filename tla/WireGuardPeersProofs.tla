------------------------- MODULE WireGuardPeersProofs -------------------------
(* Proofs about WireGuardPeers, for every value of its constants.          *)
EXTENDS WireGuardPeers, TLAPS

(* A handler that writes a row is there for a request with a key.          *)
Keyed ==
    \A h \in Handlers : /\ pc[h] = "forget" => Kind(h, {"delete"})
                        /\ pc[h] = "record" => Kind(h, {"create", "restore"})

States == {"none", "live", "deleted"}

-----------------------------------------------------------------------------
(* The fields of a request, by its kind.                                   *)
LEMMA FieldsOfRequest ==
    ASSUME NEW r \in Requests
    PROVE  /\ r.kind \in {"create", "delete", "restore", "update"} => r.key \in Keys
           /\ r.kind = "create" => r.ip \in Wishes
           /\ r.kind \in {"restore", "update"} => r.ip \in Addresses
           /\ r.kind = "interface" => r.ip \in Hosts
           /\ r \in FileRequests => r.config \in Config
  <1>1. CASE r \in FileRequests
    BY <1>1, RequestsAssumption DEF FileRequests
  <1>2. CASE r \in KeyRequest
    BY <1>2 DEF KeyRequest, FileRequests
  <1>3. CASE r \in CreateRequest
    <2>1. r.kind = "create" /\ r.key \in Keys /\ r.ip \in Wishes
      BY <1>3 DEF CreateRequest
    <2>2. r \notin FileRequests
      BY <2>1 DEF FileRequests
    <2> QED
      BY <2>1, <2>2
  <1>4. CASE r \in PeerRequest
    BY <1>4 DEF PeerRequest, FileRequests
  <1>5. CASE r \in AddressRequest
    BY <1>5 DEF AddressRequest, FileRequests
  <1>6. CASE r \in PlainRequest
    BY <1>6 DEF PlainRequest, FileRequests
  <1> QED
    BY <1>1, <1>2, <1>3, <1>4, <1>5, <1>6, RequestsAssumption

LEMMA EmptyIsTyped == Empty \in Config /\ Distinct(Empty)
  BY DEF Empty, Config, Distinct, Unique, NoClash

(* An address that may be given is an address.                             *)
LEMMA ChoiceIsAnAddress ==
    ASSUME NEW c, NEW ip \in Wishes
    PROVE  Choices(c, ip) \subseteq Addresses \ Used(c)
  <1>1. Hosts \subseteq Addresses
    BY ConstantsAssumption DEF Hosts, Addresses
  <1>2. Available(c) \subseteq Addresses \ Used(c)
    BY <1>1 DEF Available
  <1>3. CASE ip = AnyFree
    BY <1>2, <1>3 DEF Choices
  <1>4. CASE ip # AnyFree
    BY <1>4 DEF Choices, Wishes
  <1> QED
    BY <1>3, <1>4

(* What the handlers make of a configuration is a configuration.           *)
LEMMA EditsAreTyped ==
    ASSUME NEW c \in Config, NEW k \in Keys, NEW ip \in Addresses
    PROVE  /\ With(c, k, ip) \in Config
           /\ Without(c, k) \subseteq Peer
           /\ \A p \in c.peers :
                 [c EXCEPT !.peers = (@ \ {p}) \cup {[p EXCEPT !.ip = ip]}] \in Config
  <1>1. \A p \in c.peers : [p EXCEPT !.ip = ip] \in Peer
    BY DEF Config, Peer
  <1>2. [key |-> k, ip |-> ip] \in Peer
    BY DEF Peer
  <1> QED
    BY <1>1, <1>2 DEF Config, With, Without

LEMMA BegunIsTyped ==
    ASSUME NEW ps \in SUBSET Peer
    PROVE  Begun(ps) \subseteq SUBSET Peer
  <1>1. \A p \in ps : \A keyed \in BOOLEAN : Cut(p, keyed) \in Peer
    BY DEF Cut, Peer
  <1>2. Cuts(ps) \subseteq Peer
    BY <1>1 DEF Cuts
  <1> QED
    BY <1>2 DEF Begun

LEMMA BeginningsAreTyped ==
    ASSUME NEW c \in Config
    PROVE  Beginnings(c) \subseteq Config
  <1>1. c.address \in Hosts \cup {NoIP} /\ Begun(c.peers) \subseteq SUBSET Peer
    BY BegunIsTyped DEF Config
  <1> QED
    BY <1>1 DEF Beginnings, Config

LEMMA MixturesAreTyped ==
    ASSUME NEW c \in Config, NEW d \in Config
    PROVE  Mixtures(c, d) \subseteq Config
  <1>1. [key : KeysOf(c) \cup KeysOf(d), ip : IPs(c) \cup IPs(d)] \subseteq Peer
    BY DEF Config, Peer, KeysOf, IPs
  <1> QED
    BY <1>1 DEF Mixtures, Config

-----------------------------------------------------------------------------
(* A step within a request.                                                *)
LEMMA MoveIsTyped ==
    ASSUME TypeOK, Keyed, NEW h \in Handlers, NEW label \in PC, Goto(h, label),
           label = "forget" => Kind(h, {"delete"}),
           label = "record" => Kind(h, {"create", "restore"}),
           file' \in Config, running' = Down \/ running' \in Config,
           pending' \in BOOLEAN, meta' \in [Keys -> States],
           cfg' \in [Handlers -> Config], seen' \in [Handlers -> Config],
           shared' \subseteq Handlers, alone' \in [Handlers -> BOOLEAN],
           unchecked' \in BOOLEAN, UNCHANGED <<req, asked>>
    PROVE  TypeOK' /\ Keyed'
  <1>1. TypeOK'
    BY DEF TypeOK, Goto, States
  <1>2. Keyed'
    BY DEF TypeOK, Keyed, Kind, Goto
  <1> QED
    BY <1>1, <1>2

(* The end of some requests.                                               *)
LEMMA LeaveIsTyped ==
    ASSUME TypeOK, Keyed, NEW hs \in SUBSET Handlers, Leave(hs),
           file' \in Config, running' = Down \/ running' \in Config,
           pending' \in BOOLEAN, meta' \in [Keys -> States],
           alone' \in [Handlers -> BOOLEAN], unchecked' \in BOOLEAN, UNCHANGED asked
    PROVE  TypeOK' /\ Keyed'
  <1>1. pc' \in [Handlers -> PC] /\ req' \in [Handlers -> Requests \cup {NoRequest}]
    BY DEF Leave, TypeOK, PC
  <1>2. cfg' \in [Handlers -> Config] /\ seen' \in [Handlers -> Config]
    BY EmptyIsTyped DEF Leave, TypeOK
  <1>3. shared' \subseteq Handlers
    BY DEF Leave, TypeOK
  <1>4. TypeOK'
    BY <1>1, <1>2, <1>3 DEF TypeOK, States
  <1>5. Keyed'
    BY DEF Leave, Keyed, Kind, TypeOK
  <1> QED
    BY <1>4, <1>5

LEMMA StepIsTyped ==
    ASSUME NEW h \in Handlers, NEW b \in BOOLEAN, TypeOK, Step(h, b)
    PROVE  alone' \in [Handlers -> BOOLEAN]
  BY DEF Step, TypeOK

LEMMA ErrorIsTyped ==
    ASSUME TypeOK, Keyed, NEW h \in Handlers, Error(h),
           file' \in Config, running' = Down \/ running' \in Config,
           UNCHANGED <<pending, meta, asked, unchecked>>
    PROVE  TypeOK' /\ Keyed'
  <1>1. alone' \in [Handlers -> BOOLEAN]
    BY StepIsTyped DEF Error
  <1>2. Leave({h}) /\ {h} \in SUBSET Handlers
    BY DEF Error
  <1>3. pending' \in BOOLEAN /\ meta' \in [Keys -> States] /\ unchecked' \in BOOLEAN
    BY DEF TypeOK, States
  <1> QED
    BY <1>1, <1>2, <1>3, LeaveIsTyped

LEMMA LoadIsTyped ==
    ASSUME TypeOK, Keyed, NEW h \in Handlers, NEW c \in Config, NEW label \in PC,
           Load(h, c, label), label = "forget" => Kind(h, {"delete"}), label # "record",
           unchecked' \in BOOLEAN
    PROVE  TypeOK' /\ Keyed'
  <1>1. alone' \in [Handlers -> BOOLEAN]
    BY StepIsTyped DEF Load
  <1>2. Goto(h, label) /\ UNCHANGED <<world, req, asked, shared>>
    BY DEF Load
  <1>3. cfg' \in [Handlers -> Config] /\ seen' \in [Handlers -> Config]
    BY DEF Load, TypeOK
  <1>4. /\ file' \in Config /\ (running' = Down \/ running' \in Config)
        /\ pending' \in BOOLEAN /\ meta' \in [Keys -> States] /\ shared' \subseteq Handlers
    BY <1>2 DEF TypeOK, world, States
  <1> QED
    BY <1>1, <1>2, <1>3, <1>4, MoveIsTyped

LEMMA UpsertIsTyped ==
    ASSUME TypeOK, NEW h \in Handlers, NEW k \in Keys, NEW state \in States,
           UpsertWGPeer(h, k, state)
    PROVE  meta' \in [Keys -> States] /\ alone' \in [Handlers -> BOOLEAN]
  <1>1. meta' \in [Keys -> States]
    BY DEF UpsertWGPeer, TypeOK, States
  <1>2. alone' \in [Handlers -> BOOLEAN]
    BY StepIsTyped DEF UpsertWGPeer
  <1> QED
    BY <1>1, <1>2

(* After a save a handler goes where its request belongs.                  *)
LEMMA AfterSaveIsTyped ==
    ASSUME NEW h \in Handlers
    PROVE  /\ AfterSave(h) \in PC \ {"forget"}
           /\ AfterSave(h) = "record" => Kind(h, {"create", "restore"})
  BY DEF AfterSave, PC

-----------------------------------------------------------------------------
LEMMA InitIsTyped == Init => TypeOK /\ Keyed
  <1> SUFFICES ASSUME Init
               PROVE  TypeOK /\ Keyed
    OBVIOUS
  <1>1. file \in Config /\ running \in {file, Down}
    BY InitialAssumption DEF Init
  <1>2. meta \in [Keys -> States]
    BY DEF Init, States
  <1>3. cfg \in [Handlers -> Config] /\ seen \in [Handlers -> Config]
    BY EmptyIsTyped DEF Init
  <1>4. /\ pc \in [Handlers -> PC]
        /\ req \in [Handlers -> Requests \cup {NoRequest}]
        /\ alone \in [Handlers -> BOOLEAN]
    BY DEF Init, PC
  <1>5. asked \in 0 .. MaxRequests
    BY ConstantsAssumption DEF Init
  <1>6. TypeOK
    BY <1>1, <1>2, <1>3, <1>4, <1>5 DEF Init, TypeOK, States
  <1>7. Keyed
    BY DEF Init, Keyed
  <1> QED
    BY <1>6, <1>7

LEMMA AskIsTyped ==
    ASSUME TypeOK, Keyed, NEW h \in Handlers, Ask(h)
    PROVE  TypeOK' /\ Keyed'
  <1>1. PICK r \in Requests :
          /\ req' = [req EXCEPT ![h] = r]
          /\ IF r \in FileRequests
                THEN /\ cfg' = [cfg EXCEPT ![h] = r.config]
                     /\ Goto(h, "truncate")
                ELSE /\ Goto(h, IF r.kind \in {"restart", "start", "stop"}
                                  THEN "systemctl" ELSE "load")
                     /\ UNCHANGED cfg
    BY DEF Ask
  <1>2. /\ asked' \in 0 .. MaxRequests
        /\ unchecked' \in BOOLEAN /\ alone' \in [Handlers -> BOOLEAN]
        /\ UNCHANGED <<file, running, pending, meta, seen, shared>>
    BY ConstantsAssumption DEF Ask, TypeOK, world
  <1>3. cfg' \in [Handlers -> Config]
    BY <1>1, FieldsOfRequest DEF TypeOK
  <1>4. \E label \in {"truncate", "systemctl", "load"} : pc' = [pc EXCEPT ![h] = label]
    BY <1>1 DEF Goto
  <1>5. TypeOK'
    BY <1>1, <1>2, <1>3, <1>4 DEF TypeOK, PC
  <1>6. Keyed'
    BY <1>1, <1>4 DEF Keyed, Kind, TypeOK
  <1> QED
    BY <1>5, <1>6

LEMMA RefuseIsTyped ==
    ASSUME TypeOK, Keyed, NEW h \in Handlers,
           Refuse(h) \/ TruncateFails(h)
    PROVE  TypeOK' /\ Keyed'
  <1>1. Error(h) /\ UNCHANGED <<file, running, pending, meta, asked, unchecked>>
    BY DEF Refuse, TruncateFails, world
  <1>2. file' \in Config /\ (running' = Down \/ running' \in Config)
    BY <1>1 DEF TypeOK
  <1> QED
    BY <1>1, <1>2, ErrorIsTyped

(* The six actions that load the file.                                     *)
LEMMA LoadsAreTyped ==
    ASSUME TypeOK, Keyed, NEW h \in Handlers,
           \/ LoadToCreate(h) \/ LoadToRestore(h) \/ LoadToUpdate(h)
           \/ LoadToSetInterface(h) \/ LoadToDelete(h) \/ LoadToList(h)
    PROVE  TypeOK' /\ Keyed'
  <1> DEFINE r == req[h]
  <1>1. file \in Config /\ unchecked \in BOOLEAN /\ req[h] \in Requests \cup {NoRequest}
    BY DEF TypeOK
  <1>2. ASSUME NEW kinds, Kind(h, kinds)
        PROVE  r \in Requests /\ r.kind \in kinds
    BY <1>1, <1>2 DEF Kind
  <1>3. "truncate" \in PC /\ "forget" \in PC /\ "list" \in PC
    BY DEF PC
  <1>4. CASE LoadToCreate(h)
    <2>1. r.key \in Keys /\ r.ip \in Wishes
      BY <1>2, <1>4, FieldsOfRequest DEF LoadToCreate
    <2>2. PICK ip \in Choices(file, r.ip) : Load(h, With(file, r.key, ip), "truncate")
      BY <1>4 DEF LoadToCreate
    <2>3. ip \in Addresses
      BY <2>1, <2>2, ChoiceIsAnAddress
    <2>4. With(file, r.key, ip) \in Config
      BY <1>1, <2>1, <2>3, EditsAreTyped
    <2>5. unchecked' \in BOOLEAN
      BY <1>1, <1>4 DEF LoadToCreate
    <2> QED
      BY <1>3, <2>2, <2>4, <2>5, LoadIsTyped
  <1>5. CASE LoadToRestore(h)
    <2>1. r.key \in Keys /\ r.ip \in Addresses
      BY <1>2, <1>5, FieldsOfRequest DEF LoadToRestore
    <2>2. With(file, r.key, r.ip) \in Config
      BY <1>1, <2>1, EditsAreTyped
    <2>3. Load(h, With(file, r.key, r.ip), "truncate") /\ unchecked' \in BOOLEAN
      BY <1>1, <1>5 DEF LoadToRestore
    <2> QED
      BY <1>3, <2>2, <2>3, LoadIsTyped
  <1>6. CASE LoadToUpdate(h)
    <2>1. r.key \in Keys /\ r.ip \in Addresses
      BY <1>2, <1>6, FieldsOfRequest DEF LoadToUpdate
    <2>2. PICK p \in file.peers :
             Load(h, [file EXCEPT !.peers = (@ \ {p}) \cup {[p EXCEPT !.ip = r.ip]}], "truncate")
      BY <1>6 DEF LoadToUpdate
    <2>3. [file EXCEPT !.peers = (@ \ {p}) \cup {[p EXCEPT !.ip = r.ip]}] \in Config
      BY <1>1, <2>1, EditsAreTyped
    <2>4. unchecked' \in BOOLEAN
      BY <1>1, <1>6 DEF LoadToUpdate
    <2> QED
      BY <1>3, <2>2, <2>3, <2>4, LoadIsTyped
  <1>7. CASE LoadToSetInterface(h)
    <2>1. r.ip \in Hosts
      BY <1>2, <1>7, FieldsOfRequest DEF LoadToSetInterface
    <2>2. [file EXCEPT !.address = r.ip] \in Config
      BY <1>1, <2>1 DEF Config
    <2>3. Load(h, [file EXCEPT !.address = r.ip], "truncate") /\ unchecked' \in BOOLEAN
      BY <1>1, <1>7 DEF LoadToSetInterface
    <2> QED
      BY <1>3, <2>2, <2>3, LoadIsTyped
  <1>8. CASE LoadToDelete(h)
    <2>1. Load(h, file, "forget") /\ Kind(h, {"delete"}) /\ unchecked' \in BOOLEAN
      BY <1>1, <1>8 DEF LoadToDelete
    <2> QED
      BY <1>1, <1>3, <2>1, LoadIsTyped
  <1>9. CASE LoadToList(h)
    <2>1. Load(h, file, "list") /\ unchecked' \in BOOLEAN
      BY <1>1, <1>9 DEF LoadToList
    <2> QED
      BY <1>1, <1>3, <2>1, LoadIsTyped
  <1> QED
    BY <1>4, <1>5, <1>6, <1>7, <1>8, <1>9

LEMMA RemovePeerIsTyped ==
    ASSUME TypeOK, Keyed, NEW h \in Handlers, RemovePeer(h)
    PROVE  TypeOK' /\ Keyed'
  <1>1. Kind(h, {"delete"}) /\ req[h] \in Requests \cup {NoRequest} /\ cfg[h] \in Config
    BY DEF RemovePeer, Keyed, TypeOK
  <1>2. req[h].key \in Keys
    BY <1>1, FieldsOfRequest DEF Kind
  <1>3. meta' \in [Keys -> States] /\ alone' \in [Handlers -> BOOLEAN]
    BY <1>2, UpsertIsTyped DEF RemovePeer, States
  <1>4. /\ file' \in Config /\ (running' = Down \/ running' \in Config)
        /\ pending' \in BOOLEAN /\ unchecked' \in BOOLEAN /\ asked' = asked
    BY DEF RemovePeer, TypeOK
  <1>5. CASE req[h].key \in KeysOf(cfg[h])
    <2>1. /\ cfg' = [cfg EXCEPT ![h].peers = Without(cfg[h], req[h].key)]
          /\ Goto(h, "truncate")
          /\ UNCHANGED <<req, seen, shared>>
      BY <1>5 DEF RemovePeer
    <2>2. [cfg[h] EXCEPT !.peers = Without(cfg[h], req[h].key)] \in Config
      BY <1>1 DEF Config, Without
    <2>3. cfg' \in [Handlers -> Config]
      BY <2>1, <2>2 DEF TypeOK
    <2>4. seen' \in [Handlers -> Config] /\ shared' \subseteq Handlers
      BY <2>1 DEF TypeOK
    <2>5. "truncate" \in PC
      BY DEF PC
    <2> QED
      BY <1>3, <1>4, <2>1, <2>3, <2>4, <2>5, MoveIsTyped
  <1>6. CASE req[h].key \notin KeysOf(cfg[h])
    <2>1. Leave({h}) /\ {h} \in SUBSET Handlers
      BY <1>6 DEF RemovePeer
    <2> QED
      BY <1>3, <1>4, <2>1, LeaveIsTyped
  <1> QED
    BY <1>5, <1>6

(* Saving, syncing and the buttons: each moves on, and types are kept.     *)
LEMMA SavesAreTyped ==
    ASSUME TypeOK, Keyed, NEW h \in Handlers,
           \/ Truncate(h) \/ WriteSome(h) \/ FinishSave(h)
           \/ FinishSharedSave(h) \/ WriteFails(h)
    PROVE  TypeOK' /\ Keyed'
  <1>1. /\ file \in Config /\ cfg \in [Handlers -> Config] /\ seen \in [Handlers -> Config]
        /\ cfg[h] \in Config /\ pc[h] \in PC /\ shared \subseteq Handlers
        /\ pending \in BOOLEAN /\ meta \in [Keys -> States] /\ unchecked \in BOOLEAN
        /\ running = Down \/ running \in Config
    BY DEF TypeOK, States
  <1>2. "write" \in PC
    BY DEF PC
  <1>3. CASE Truncate(h)
    <2>1. /\ Goto(h, "write") /\ file' = Empty /\ shared' \subseteq Handlers
          /\ UNCHANGED <<running, pending, meta, req, cfg, seen, asked, unchecked>>
      BY <1>1, <1>3 DEF Truncate
    <2>2. alone' \in [Handlers -> BOOLEAN]
      BY <1>3, StepIsTyped DEF Truncate
    <2> QED
      BY <1>1, <1>2, <2>1, <2>2, EmptyIsTyped, MoveIsTyped
  <1>4. CASE WriteSome(h)
    <2>1. /\ file' \in Beginnings(cfg[h])
          /\ UNCHANGED <<running, pending, meta, pc, req, cfg, seen, asked, shared, unchecked>>
      BY <1>4 DEF WriteSome
    <2>2. alone' \in [Handlers -> BOOLEAN]
      BY <1>4, StepIsTyped DEF WriteSome
    <2>3. file' \in Config
      BY <1>1, <2>1, BeginningsAreTyped
    <2>4. Goto(h, "write")
      BY <1>4, <2>1 DEF WriteSome, Goto, TypeOK
    <2> QED
      BY <1>1, <1>2, <2>1, <2>2, <2>3, <2>4, MoveIsTyped
  <1>5. CASE FinishSave(h)
    <2>1. /\ file' = cfg[h] /\ Goto(h, AfterSave(h))
          /\ UNCHANGED <<running, pending, meta, req, cfg, seen, asked, shared, unchecked>>
      BY <1>5 DEF FinishSave
    <2>2. alone' \in [Handlers -> BOOLEAN]
      BY <1>5, StepIsTyped DEF FinishSave
    <2> QED
      BY <1>1, <2>1, <2>2, AfterSaveIsTyped, MoveIsTyped
  <1>6. CASE FinishSharedSave(h)
    <2>1. /\ file' \in Mixtures(file, cfg[h]) /\ Goto(h, AfterSave(h))
          /\ unchecked' \in BOOLEAN /\ shared' \subseteq Handlers
          /\ UNCHANGED <<running, pending, meta, req, cfg, seen, asked>>
      BY <1>1, <1>6 DEF FinishSharedSave
    <2>2. alone' \in [Handlers -> BOOLEAN]
      BY <1>6, StepIsTyped DEF FinishSharedSave
    <2>3. file' \in Config
      BY <1>1, <2>1, MixturesAreTyped
    <2> QED
      BY <1>1, <2>1, <2>2, <2>3, AfterSaveIsTyped, MoveIsTyped
  <1>7. CASE WriteFails(h) /\ Kind(h, {"raw", "copy"})
    <2>1. Error(h) /\ UNCHANGED <<file, running, pending, meta, asked, unchecked>>
      BY <1>7 DEF WriteFails, world
    <2> QED
      BY <1>1, <2>1, ErrorIsTyped
  <1>8. CASE WriteFails(h) /\ ~Kind(h, {"raw", "copy"})
    <2>1. /\ Goto(h, AfterSave(h)) /\ shared' \subseteq Handlers
          /\ UNCHANGED <<file, running, pending, meta, req, cfg, seen, asked, unchecked>>
      BY <1>1, <1>8 DEF WriteFails, world
    <2>2. alone' \in [Handlers -> BOOLEAN]
      BY <1>8, StepIsTyped DEF WriteFails
    <2> QED
      BY <1>1, <2>1, <2>2, AfterSaveIsTyped, MoveIsTyped
  <1> QED
    BY <1>3, <1>4, <1>5, <1>6, <1>7, <1>8

LEMMA RowsAreTyped ==
    ASSUME TypeOK, Keyed, NEW h \in Handlers,
           RecordPeer(h) \/ ListPeer(h) \/ ListEnds(h)
    PROVE  TypeOK' /\ Keyed'
  <1>1. /\ file \in Config /\ cfg \in [Handlers -> Config] /\ seen \in [Handlers -> Config]
        /\ cfg[h] \in Config /\ shared \subseteq Handlers
        /\ pending \in BOOLEAN /\ meta \in [Keys -> States] /\ unchecked \in BOOLEAN
        /\ running = Down \/ running \in Config
        /\ req[h] \in Requests \cup {NoRequest}
    BY DEF TypeOK, States
  <1>2. {"sync", "list", "ok"} \subseteq PC /\ "live" \in States
    BY DEF PC, States
  <1>3. CASE RecordPeer(h)
    <2>1. /\ Goto(h, "sync") /\ Kind(h, {"create", "restore"})
          /\ UpsertWGPeer(h, req[h].key, "live")
          /\ UNCHANGED <<file, running, pending, req, cfg, seen, asked, shared, unchecked>>
      BY <1>3 DEF RecordPeer, Keyed
    <2>2. req[h].key \in Keys
      BY <1>1, <2>1, FieldsOfRequest DEF Kind
    <2>3. meta' \in [Keys -> States] /\ alone' \in [Handlers -> BOOLEAN]
      BY <1>2, <2>1, <2>2, UpsertIsTyped
    <2> QED
      BY <1>1, <1>2, <2>1, <2>3, MoveIsTyped
  <1>4. CASE ListPeer(h)
    <2>1. PICK p \in cfg[h].peers :
             /\ IF p.key = NoKey
                   THEN UNCHANGED meta /\ Step(h, TRUE)
                   ELSE UpsertWGPeer(h, p.key, "live")
             /\ cfg' = [cfg EXCEPT ![h].peers = @ \ {p}]
      BY <1>4 DEF ListPeer
    <2>2. p.key \in Keys \cup {NoKey}
      BY <1>1 DEF Config, Peer
    <2>3. meta' \in [Keys -> States] /\ alone' \in [Handlers -> BOOLEAN]
      BY <1>1, <1>2, <2>1, <2>2, UpsertIsTyped, StepIsTyped
    <2>4. [cfg[h] EXCEPT !.peers = @ \ {p}] \in Config
      BY <1>1 DEF Config
    <2>5. cfg' \in [Handlers -> Config]
      BY <1>1, <2>1, <2>4
    <2>6. UNCHANGED <<file, running, pending, pc, req, seen, asked, shared, unchecked>>
      BY <1>4 DEF ListPeer
    <2>7. Goto(h, "list")
      BY <1>4, <2>6 DEF ListPeer, Goto, TypeOK
    <2> QED
      BY <1>1, <1>2, <2>3, <2>5, <2>6, <2>7, MoveIsTyped
  <1>5. CASE ListEnds(h)
    <2>1. /\ Goto(h, "ok")
          /\ UNCHANGED <<file, running, pending, meta, req, cfg, seen, asked, shared, unchecked>>
      BY <1>5 DEF ListEnds, world
    <2>2. alone' \in [Handlers -> BOOLEAN]
      BY <1>5, StepIsTyped DEF ListEnds
    <2> QED
      BY <1>1, <1>2, <2>1, <2>2, MoveIsTyped
  <1> QED
    BY <1>3, <1>4, <1>5

LEMMA SyncsAreTyped ==
    ASSUME TypeOK, Keyed, NEW h \in Handlers,
           \/ ReloadFile(h) \/ SyncConf(h) \/ SyncFails(h) \/ ClearPending(h)
           \/ MarkPending(h) \/ Systemctl(h)
    PROVE  TypeOK' /\ Keyed'
  <1>1. /\ file \in Config /\ cfg \in [Handlers -> Config] /\ seen \in [Handlers -> Config]
        /\ cfg[h] \in Config /\ shared \subseteq Handlers
        /\ pending \in BOOLEAN /\ meta \in [Keys -> States] /\ unchecked \in BOOLEAN
        /\ running = Down \/ running \in Config
    BY DEF TypeOK, States
  <1>2. {"sync", "mark", "clear", "ok"} \subseteq PC \ {"forget", "record"}
    BY DEF PC
  <1>3. \E label \in {"sync", "mark", "clear", "ok"} : Goto(h, label)
    BY DEF ReloadFile, SyncConf, SyncFails, ClearPending, MarkPending, Systemctl
  <1>4. alone' \in [Handlers -> BOOLEAN]
    BY StepIsTyped DEF ReloadFile, SyncConf, SyncFails, ClearPending, MarkPending, Systemctl
  <1>5. running' = Down \/ running' \in Config
    <2>1. CASE SyncConf(h)
      <3>1. running \in Config /\ running' = [running EXCEPT !.peers = cfg[h].peers]
        BY <1>1, <2>1 DEF SyncConf
      <3> QED
        BY <1>1, <3>1 DEF Config
    <2>2. CASE Systemctl(h)
      BY <1>1, <2>2 DEF Systemctl
    <2>3. CASE ~SyncConf(h) /\ ~Systemctl(h)
      BY <1>1, <2>3 DEF ReloadFile, SyncFails, ClearPending, MarkPending, world
    <2> QED
      BY <2>1, <2>2, <2>3
  <1>6. cfg' \in [Handlers -> Config]
    BY <1>1 DEF ReloadFile, SyncConf, SyncFails, ClearPending, MarkPending, Systemctl
  <1>7. pending' \in BOOLEAN
    BY <1>1 DEF ReloadFile, SyncConf, SyncFails, ClearPending, MarkPending, Systemctl, world
  <1>8. UNCHANGED <<file, meta, req, seen, asked, shared, unchecked>>
    BY DEF ReloadFile, SyncConf, SyncFails, ClearPending, MarkPending, Systemctl, world
  <1> QED
    BY <1>1, <1>2, <1>3, <1>4, <1>5, <1>6, <1>7, <1>8, MoveIsTyped

LEMMA EndsAreTyped ==
    ASSUME TypeOK, Keyed,
           PanelDies \/ \E h \in Handlers : SystemctlFails(h) \/ Reply(h)
    PROVE  TypeOK' /\ Keyed'
  <1>1. /\ file \in Config /\ (running = Down \/ running \in Config)
        /\ pending \in BOOLEAN /\ meta \in [Keys -> States] /\ unchecked \in BOOLEAN
    BY DEF TypeOK, States
  <1>2. CASE PanelDies
    <2>1. alone' \in [Handlers -> BOOLEAN]
      BY <1>2 DEF PanelDies
    <2> QED
      BY <1>1, <1>2, <2>1, LeaveIsTyped DEF PanelDies
  <1>3. ASSUME NEW h \in Handlers, SystemctlFails(h)
        PROVE  TypeOK' /\ Keyed'
    <2>1. /\ Error(h) /\ UNCHANGED <<file, pending, meta, asked, unchecked>>
          /\ running' \in {running, Down}
      BY <1>3 DEF SystemctlFails
    <2> QED
      BY <1>1, <2>1, ErrorIsTyped
  <1>4. ASSUME NEW h \in Handlers, Reply(h)
        PROVE  TypeOK' /\ Keyed'
    <2>1. /\ Leave({h}) /\ {h} \in SUBSET Handlers
          /\ UNCHANGED <<file, running, pending, meta, asked, unchecked>>
      BY <1>4 DEF Reply, world
    <2>2. alone' \in [Handlers -> BOOLEAN]
      BY <1>4, StepIsTyped DEF Reply
    <2> QED
      BY <1>1, <2>1, <2>2, LeaveIsTyped
  <1> QED
    BY <1>2, <1>3, <1>4

LEMMA NextIsTyped == TypeOK /\ Keyed /\ [Next]_vars => TypeOK' /\ Keyed'
  <1> SUFFICES ASSUME TypeOK, Keyed, [Next]_vars
               PROVE  TypeOK' /\ Keyed'
    OBVIOUS
  <1>1. CASE UNCHANGED vars
    BY <1>1 DEF TypeOK, Keyed, Kind, vars
  <1>2. CASE PanelDies
    BY <1>2, EndsAreTyped
  <1>3. ASSUME NEW h \in Handlers, Handle(h) \/ Mishap(h)
        PROVE  TypeOK' /\ Keyed'
    BY <1>3, AskIsTyped, RefuseIsTyped, LoadsAreTyped, RemovePeerIsTyped, SavesAreTyped,
       RowsAreTyped, SyncsAreTyped, EndsAreTyped
       DEF Handle, Mishap
  <1> QED
    BY <1>1, <1>2, <1>3 DEF Next

(* Every reachable state is well typed.                                    *)
THEOREM TypeCorrect == Spec => []TypeOK
  <1>1. TypeOK /\ Keyed /\ [Next]_vars => (TypeOK /\ Keyed)'
    BY NextIsTyped
  <1> QED
    BY <1>1, InitIsTyped, PTL DEF Spec

-----------------------------------------------------------------------------
(* What keeps the peers of a configuration distinct.                       *)
LEMMA FewerAreDistinct ==
    ASSUME NEW c, NEW d, Distinct(c), d.peers \subseteq c.peers
    PROVE  Distinct(d)
  BY DEF Distinct, Unique, NoClash

LEMMA OneMoreIsDistinct ==
    ASSUME NEW c \in Config, Distinct(c), NEW k \in Keys \ KeysOf(c),
           NEW ip \in Addresses \ IPs(c)
    PROVE  Distinct(With(c, k, ip))
  <1> DEFINE new == [key |-> k, ip |-> ip]
  <1>1. With(c, k, ip).peers = c.peers \cup {new}
    BY DEF With, Config
  <1>2. k # NoKey /\ ip # NoIP
    BY ConstantsAssumption
  <1>3. \A p \in c.peers : p.key # k /\ p.ip # ip
    BY <1>2 DEF KeysOf, IPs
  <1>4. new.key = k /\ new.ip = ip
    OBVIOUS
  <1> HIDE DEF new
  <1> QED
    BY <1>1, <1>3, <1>4 DEF Distinct, Unique, NoClash

LEMMA MovedIsDistinct ==
    ASSUME NEW c \in Config, Distinct(c), NEW p \in c.peers, p.key \in Keys,
           NEW ip \in Addresses, MayTake(c, p.key, ip)
    PROVE  Distinct([c EXCEPT !.peers = (@ \ {p}) \cup {[p EXCEPT !.ip = ip]}])
  <1> DEFINE moved == [p EXCEPT !.ip = ip]
             d == [c EXCEPT !.peers = (@ \ {p}) \cup {moved}]
  <1>1. d.peers = (c.peers \ {p}) \cup {moved}
    BY DEF Config
  <1>2. moved.key = p.key /\ moved.ip = ip
    BY DEF Config, Peer
  <1>3. p.key # NoKey /\ ip # NoIP
    BY ConstantsAssumption
  <1>4. \A q \in c.peers \ {p} : q.key # p.key
    BY <1>3 DEF Distinct, Unique
  <1>5. \A q \in c.peers : q.ip = ip => q.key = p.key
    BY <1>3 DEF MayTake, Distinct, NoClash
  <1> HIDE DEF moved, d
  <1>6. Unique(d)
    BY <1>1, <1>2, <1>4 DEF Distinct, Unique
  <1>7. NoClash(d)
    BY <1>1, <1>2, <1>5 DEF Distinct, NoClash
  <1>8. Distinct(d)
    BY <1>6, <1>7 DEF Distinct
  <1> QED
    BY <1>8 DEF d, moved

LEMMA BeginningsAreDistinct ==
    ASSUME NEW c \in Config, Distinct(c), NEW d, d \in Beginnings(c)
    PROVE  Distinct(d)
  <1>1. d.peers \in Begun(c.peers)
    BY DEF Beginnings
  <1>2. CASE d.peers \subseteq c.peers
    BY <1>2, FewerAreDistinct
  <1>3. ASSUME NEW p \in c.peers \ d.peers, NEW keyed \in BOOLEAN,
               d.peers \ {Cut(p, keyed)} \subseteq c.peers
        PROVE  Distinct(d)
    <2> DEFINE cut == Cut(p, keyed)
    <2>1. cut.key \in {p.key, NoKey} /\ cut.ip = NoIP
      BY DEF Cut
    <2> HIDE DEF cut
    <2>2. \A q \in d.peers : q \in c.peers \ {p} \/ q = cut
      BY <1>3 DEF cut
    <2>3. \A q \in c.peers \ {p} : q.key = p.key => q.key = NoKey
      BY DEF Distinct, Unique
    <2>4. Unique(d)
      BY <2>1, <2>2, <2>3 DEF Distinct, Unique
    <2>5. NoClash(d)
      BY <2>1, <2>2 DEF Distinct, NoClash
    <2> QED
      BY <2>4, <2>5 DEF Distinct
  <1> QED
    BY <1>1, <1>2, <1>3 DEF Begun

-----------------------------------------------------------------------------
(* The steps that only move copies between the file, the kernel and the    *)
(* handlers, or drop them.                                                 *)
LEMMA CopiesAreDistinct ==
    ASSUME TypeOK, PeersAreDistinct, unchecked' = unchecked,
           file' \in {file, Empty} \cup {cfg[h] : h \in Handlers},
           running' \in {running, file, Down},
           \A h \in Handlers : cfg'[h] \in {cfg[h], file, Empty}
    PROVE  PeersAreDistinct'
  <1> SUFFICES ASSUME ~unchecked'
               PROVE  /\ Distinct(file')
                      /\ running' # Down => Distinct(running')
                      /\ \A h \in Handlers : Distinct(cfg'[h])
    BY DEF PeersAreDistinct, Distinct, Unique, NoClash
  <1>1. /\ Distinct(file) /\ (running # Down => Distinct(running))
        /\ \A h \in Handlers : Distinct(cfg[h])
    BY DEF PeersAreDistinct
  <1>2. Distinct(file')
    BY <1>1, EmptyIsTyped
  <1>3. running' # Down => Distinct(running')
    BY <1>1
  <1>4. \A h \in Handlers : Distinct(cfg'[h])
    BY <1>1, EmptyIsTyped
  <1> QED
    BY <1>2, <1>3, <1>4

(* A handler gets a copy that is distinct, unless one is now unchecked.    *)
LEMMA NewCopyIsDistinct ==
    ASSUME TypeOK, PeersAreDistinct, NEW h \in Handlers, NEW c, cfg' = [cfg EXCEPT ![h] = c],
           UNCHANGED <<file, running>>, ~unchecked' => ~unchecked /\ Distinct(c)
    PROVE  PeersAreDistinct'
  <1> SUFFICES ASSUME ~unchecked'
               PROVE  /\ Distinct(file')
                      /\ running' # Down => Distinct(running')
                      /\ \A g \in Handlers : Distinct(cfg'[g])
    BY DEF PeersAreDistinct, Distinct, Unique, NoClash
  <1>1. /\ Distinct(file) /\ (running # Down => Distinct(running))
        /\ \A g \in Handlers : Distinct(cfg[g])
    BY DEF PeersAreDistinct
  <1>2. \A g \in Handlers : cfg'[g] = IF g = h THEN c ELSE cfg[g]
    BY DEF TypeOK
  <1> QED
    BY <1>1, <1>2

(* Ask and the six actions that load the file.                             *)
LEMMA AskIsDistinct ==
    ASSUME TypeOK, PeersAreDistinct, NEW h \in Handlers, Ask(h)
    PROVE  PeersAreDistinct'
  <1>1. \E r \in Requests : cfg' = [cfg EXCEPT ![h] = IF r \in FileRequests
                                                      THEN r.config ELSE cfg[h]]
    BY DEF Ask, TypeOK
  <1>2. PICK c : cfg' = [cfg EXCEPT ![h] = c]
    BY <1>1
  <1>3. cfg'[h] = c
    BY <1>2 DEF TypeOK
  <1>4. ~unchecked' => ~unchecked /\ Distinct(c)
    BY <1>3 DEF Ask
  <1>5. UNCHANGED <<file, running>>
    BY DEF Ask, world
  <1> QED
    BY <1>2, <1>4, <1>5, NewCopyIsDistinct

LEMMA LoadIsDistinct ==
    ASSUME TypeOK, PeersAreDistinct, NEW h \in Handlers, NEW c, NEW label,
           Load(h, c, label), ~unchecked' => ~unchecked /\ Distinct(c)
    PROVE  PeersAreDistinct'
  BY NewCopyIsDistinct DEF Load, world

LEMMA LoadsAreDistinct ==
    ASSUME TypeOK, PeersAreDistinct, NEW h \in Handlers,
           \/ LoadToCreate(h) \/ LoadToRestore(h) \/ LoadToUpdate(h)
           \/ LoadToSetInterface(h) \/ LoadToDelete(h) \/ LoadToList(h)
    PROVE  PeersAreDistinct'
  <1> DEFINE r == req[h]
  <1>1. file \in Config /\ req[h] \in Requests \cup {NoRequest} /\ unchecked \in BOOLEAN
    BY DEF TypeOK
  <1>2. ASSUME NEW kinds, Kind(h, kinds)
        PROVE  r \in Requests /\ r.kind \in kinds
    BY <1>1, <1>2 DEF Kind
  <1>3. ~unchecked => Distinct(file)
    BY DEF PeersAreDistinct
  <1>4. CASE LoadToCreate(h)
    <2>1. r.key \in Keys \ KeysOf(file) /\ r.ip \in Wishes
      BY <1>2, <1>4, FieldsOfRequest DEF LoadToCreate
    <2>2. PICK ip \in Choices(file, r.ip) : Load(h, With(file, r.key, ip), "truncate")
      BY <1>4 DEF LoadToCreate
    <2>3. ip \in Addresses \ Used(file)
      BY <2>1, <2>2, ChoiceIsAnAddress
    <2>4. ip \in Addresses \ IPs(file)
      BY <2>3 DEF Used
    <2>5. ~unchecked => Distinct(With(file, r.key, ip))
      BY <1>1, <1>3, <2>1, <2>4, OneMoreIsDistinct
    <2>6. unchecked' = unchecked
      BY <1>4 DEF LoadToCreate
    <2> QED
      BY <2>2, <2>5, <2>6, LoadIsDistinct
  <1>5. CASE LoadToRestore(h)
    <2>1. r.key \in Keys \ KeysOf(file) /\ r.ip \in Addresses
      BY <1>2, <1>5, FieldsOfRequest DEF LoadToRestore
    <2>2. /\ Load(h, With(file, r.key, r.ip), "truncate")
          /\ unchecked' = (unchecked \/ r.ip \in IPs(file))
      BY <1>5 DEF LoadToRestore
    <2>3. ~unchecked' => ~unchecked /\ Distinct(With(file, r.key, r.ip))
      BY <1>1, <1>3, <2>1, <2>2, OneMoreIsDistinct
    <2> QED
      BY <2>2, <2>3, LoadIsDistinct
  <1>6. CASE LoadToUpdate(h)
    <2>1. r.key \in Keys /\ r.ip \in Addresses /\ MayTake(file, r.key, r.ip)
      BY <1>2, <1>6, FieldsOfRequest DEF LoadToUpdate
    <2> DEFINE d(p) == [file EXCEPT !.peers = (@ \ {p}) \cup {[p EXCEPT !.ip = r.ip]}]
    <2>2. PICK p \in file.peers : p.key = r.key /\ Load(h, d(p), "truncate")
      BY <1>6 DEF LoadToUpdate
    <2>3. ~unchecked => Distinct(d(p))
      BY <1>1, <1>3, <2>1, <2>2, MovedIsDistinct
    <2>4. unchecked' = unchecked
      BY <1>6 DEF LoadToUpdate
    <2> QED
      BY <2>2, <2>3, <2>4, LoadIsDistinct
  <1>7. CASE LoadToSetInterface(h)
    <2>1. ~unchecked => Distinct([file EXCEPT !.address = r.ip])
      BY <1>1, <1>3, FewerAreDistinct DEF Config
    <2>2. Load(h, [file EXCEPT !.address = r.ip], "truncate") /\ unchecked' = unchecked
      BY <1>7 DEF LoadToSetInterface
    <2> QED
      BY <2>1, <2>2, LoadIsDistinct
  <1>8. CASE LoadToDelete(h)
    BY <1>3, <1>8, LoadIsDistinct DEF LoadToDelete
  <1>9. CASE LoadToList(h)
    BY <1>3, <1>9, LoadIsDistinct DEF LoadToList
  <1> QED
    BY <1>4, <1>5, <1>6, <1>7, <1>8, <1>9

(* A copy loses a peer.                                                    *)
LEMMA LessIsDistinct ==
    ASSUME TypeOK, PeersAreDistinct, NEW h \in Handlers, NEW ps, ps \subseteq cfg[h].peers,
           cfg' = [cfg EXCEPT ![h].peers = ps], UNCHANGED <<file, running, unchecked>>
    PROVE  PeersAreDistinct'
  <1>1. cfg' = [cfg EXCEPT ![h] = [cfg[h] EXCEPT !.peers = ps]] /\ cfg[h] \in Config
    BY DEF TypeOK
  <1>2. ~unchecked => Distinct([cfg[h] EXCEPT !.peers = ps])
    BY <1>1, FewerAreDistinct DEF PeersAreDistinct, Config
  <1> QED
    BY <1>1, <1>2, NewCopyIsDistinct

(* The steps of a save.                                                    *)
LEMMA WritesAreDistinct ==
    ASSUME TypeOK, PeersAreDistinct, NEW h \in Handlers, WriteSome(h) \/ FinishSharedSave(h)
    PROVE  PeersAreDistinct'
  <1> SUFFICES ASSUME ~unchecked'
               PROVE  /\ Distinct(file')
                      /\ running' # Down => Distinct(running')
                      /\ \A g \in Handlers : Distinct(cfg'[g])
    BY DEF PeersAreDistinct, Distinct, Unique, NoClash
  <1>1. ~unchecked /\ UNCHANGED <<running, cfg>>
    <2>1. CASE WriteSome(h)
      BY <2>1 DEF WriteSome
    <2>2. CASE FinishSharedSave(h)
      <3>1. unchecked' = (unchecked \/ ~Distinct(file')) /\ UNCHANGED <<running, cfg>>
        BY <2>2 DEF FinishSharedSave
      <3> QED
        BY <3>1
    <2> QED
      BY <2>1, <2>2
  <1>2. /\ running # Down => Distinct(running)
        /\ \A g \in Handlers : Distinct(cfg[g])
    BY <1>1 DEF PeersAreDistinct
  <1>3. CASE WriteSome(h)
    <2>1. file' \in Beginnings(cfg[h]) /\ cfg[h] \in Config
      BY <1>3 DEF WriteSome, TypeOK
    <2>2. Distinct(file')
      BY <1>2, <2>1, BeginningsAreDistinct
    <2> QED
      BY <1>1, <1>2, <2>2
  <1>4. CASE FinishSharedSave(h)
    <2>1. Distinct(file')
      BY <1>4 DEF FinishSharedSave
    <2> QED
      BY <1>1, <1>2, <2>1
  <1> QED
    BY <1>3, <1>4

LEMMA SyncIsDistinct ==
    ASSUME TypeOK, PeersAreDistinct, NEW h \in Handlers, SyncConf(h)
    PROVE  PeersAreDistinct'
  <1> SUFFICES ASSUME ~unchecked'
               PROVE  /\ Distinct(file')
                      /\ running' # Down => Distinct(running')
                      /\ \A g \in Handlers : Distinct(cfg'[g])
    BY DEF PeersAreDistinct, Distinct, Unique, NoClash
  <1>1. /\ ~unchecked /\ UNCHANGED <<file, cfg>> /\ running \in Config
        /\ running' = [running EXCEPT !.peers = cfg[h].peers]
    BY DEF SyncConf, TypeOK
  <1>2. Distinct(file) /\ \A g \in Handlers : Distinct(cfg[g])
    BY <1>1 DEF PeersAreDistinct
  <1>3. running'.peers = cfg[h].peers
    BY <1>1 DEF Config
  <1>4. Distinct(running')
    BY <1>2, <1>3, FewerAreDistinct
  <1> QED
    BY <1>1, <1>2, <1>4

LEMMA InitIsDistinct == Init => PeersAreDistinct
  BY EmptyIsTyped, InitialAssumption DEF Init, PeersAreDistinct

LEMMA NextIsDistinct ==
    TypeOK /\ PeersAreDistinct /\ [Next]_vars => PeersAreDistinct'
  <1> SUFFICES ASSUME TypeOK, PeersAreDistinct, [Next]_vars
               PROVE  PeersAreDistinct'
    OBVIOUS
  <1>1. CASE UNCHANGED vars
    BY <1>1, CopiesAreDistinct DEF vars
  <1>2. CASE PanelDies
    <2>1. /\ \A h \in Handlers : cfg'[h] \in {cfg[h], file, Empty}
          /\ UNCHANGED <<file, running, unchecked>>
      BY <1>2 DEF PanelDies, Leave
    <2> QED
      BY <2>1, CopiesAreDistinct
  <1>3. ASSUME NEW h \in Handlers, Handle(h) \/ Mishap(h)
        PROVE  PeersAreDistinct'
    <2>1. CASE Ask(h)
      BY <2>1, AskIsDistinct
    <2>2. CASE \/ LoadToCreate(h) \/ LoadToRestore(h) \/ LoadToUpdate(h)
               \/ LoadToSetInterface(h) \/ LoadToDelete(h) \/ LoadToList(h)
      BY <2>2, LoadsAreDistinct
    <2>3. CASE WriteSome(h) \/ FinishSharedSave(h)
      BY <2>3, WritesAreDistinct
    <2>4. CASE SyncConf(h)
      BY <2>4, SyncIsDistinct
    <2>5. CASE RemovePeer(h) /\ req[h].key \in KeysOf(cfg[h])
      <3>1. /\ cfg' = [cfg EXCEPT ![h].peers = Without(cfg[h], req[h].key)]
            /\ UNCHANGED <<file, running, unchecked>>
        BY <2>5 DEF RemovePeer
      <3>2. Without(cfg[h], req[h].key) \subseteq cfg[h].peers
        BY DEF Without
      <3> QED
        BY <3>1, <3>2, LessIsDistinct
    <2>6. CASE ListPeer(h)
      <3>1. PICK p \in cfg[h].peers : cfg' = [cfg EXCEPT ![h].peers = @ \ {p}]
        BY <2>6 DEF ListPeer
      <3>2. cfg' = [cfg EXCEPT ![h].peers = cfg[h].peers \ {p}]
        BY <3>1
      <3>3. UNCHANGED <<file, running, unchecked>>
        BY <2>6 DEF ListPeer
      <3> QED
        BY <3>2, <3>3, LessIsDistinct
    <2>7. CASE \/ Refuse(h) \/ Truncate(h) \/ FinishSave(h) \/ RecordPeer(h) \/ ReloadFile(h)
               \/ SyncFails(h) \/ ClearPending(h) \/ MarkPending(h) \/ Systemctl(h)
               \/ SystemctlFails(h) \/ ListEnds(h) \/ Reply(h) \/ TruncateFails(h)
               \/ WriteFails(h)
               \/ RemovePeer(h) /\ req[h].key \notin KeysOf(cfg[h])
      <3>1. unchecked' = unchecked
        BY <2>7 DEF Refuse, Truncate, FinishSave, RecordPeer, ReloadFile, SyncFails,
                    ClearPending, MarkPending, Systemctl, SystemctlFails, ListEnds, Reply,
                    TruncateFails, WriteFails, RemovePeer
      <3>2. file' \in {file, Empty} \cup {cfg[g] : g \in Handlers}
        BY <2>7 DEF Refuse, Truncate, FinishSave, RecordPeer, ReloadFile, SyncFails,
                    ClearPending, MarkPending, Systemctl, SystemctlFails, ListEnds, Reply,
                    TruncateFails, WriteFails, RemovePeer, world
      <3>3. running' \in {running, file, Down}
        BY <2>7 DEF Refuse, Truncate, FinishSave, RecordPeer, ReloadFile, SyncFails,
                    ClearPending, MarkPending, Systemctl, SystemctlFails, ListEnds, Reply,
                    TruncateFails, WriteFails, RemovePeer, world
      <3>4. \/ cfg' = cfg
            \/ cfg' = [cfg EXCEPT ![h] = file]
            \/ Leave({h})
        BY <2>7 DEF Refuse, Truncate, FinishSave, RecordPeer, ReloadFile, SyncFails,
                    ClearPending, MarkPending, Systemctl, SystemctlFails, ListEnds, Reply,
                    TruncateFails, WriteFails, RemovePeer, Error
      <3>5. \A g \in Handlers : cfg'[g] \in {cfg[g], file, Empty}
        BY <3>4 DEF Leave, TypeOK
      <3> QED
        BY <3>1, <3>2, <3>3, <3>5, CopiesAreDistinct
    <2> QED
      BY <1>3, <2>1, <2>2, <2>3, <2>4, <2>5, <2>6, <2>7 DEF Handle, Mishap
  <1> QED
    BY <1>1, <1>2, <1>3 DEF Next

(* Without a lock, and whatever fails: until a restore, a raw file or the  *)
(* mixture of two saves brings them in, neither the file nor the kernel nor*)
(* any handler has two peers with one key or one address.                  *)
THEOREM DistinctPeers == Spec => []PeersAreDistinct
  <1>1. TypeOK /\ PeersAreDistinct /\ [Next]_vars => PeersAreDistinct'
    BY NextIsDistinct
  <1> QED
    BY <1>1, TypeCorrect, InitIsDistinct, PTL DEF Spec

-----------------------------------------------------------------------------
(* What a handler that is alone has achieved, by the place where it is.    *)

Filing == {"create", "restore", "delete", "update", "interface", "raw"}

(* The configuration c is what request r makes of `before`.                *)
Wanted(r, before, c) ==
    /\ r.kind = "create" =>
          \E ip \in Addresses \ (IPs(before) \cup {before.address}) :
             r.ip \in {ip, AnyFree} /\ c = With(before, r.key, ip)
    /\ r.kind = "restore" => c = With(before, r.key, r.ip)
    /\ r.kind = "delete" => /\ r.key \in KeysOf(before)
                            /\ c = [before EXCEPT !.peers = Without(before, r.key)]
    /\ r.kind = "update" => /\ c.address = before.address
                            /\ KeysOf(c) = KeysOf(before)
                            /\ Without(c, r.key) = Without(before, r.key)
                            /\ [key |-> r.key, ip |-> r.ip] \in c.peers
    /\ r.kind = "interface" => c = [before EXCEPT !.address = r.ip]
    /\ r.kind \in {"raw", "copy"} => c = r.config

(* The row of its peer is what it should be.                               *)
Recorded(r) == /\ r.kind \in {"create", "restore"} => meta[r.key] = "live"
               /\ r.kind = "delete" => meta[r.key] = "deleted"

Filed(h) == /\ req[h].kind \in Filing
            /\ Wanted(req[h], seen[h], file)
            /\ Recorded(req[h])

Achieved(h) ==
    /\ Promised(req[h], seen[h])
    /\ ~Kind(h, {"copy", "list", "start", "stop"}) =>
          pending \/ (running # Down /\ running.peers = file.peers)

Progress(h) ==
    /\ pc[h] # "idle" => req[h] \in Requests
    /\ pc[h] = "forget" => req[h].kind = "delete" /\ cfg[h] = seen[h]
    /\ pc[h] \in {"truncate", "write"} =>
          /\ req[h].kind \in Filing \cup {"copy"}
          /\ Wanted(req[h], seen[h], cfg[h])
          /\ req[h].kind = "delete" => meta[req[h].key] = "deleted"
    /\ pc[h] = "record" => /\ req[h].kind \in {"create", "restore"}
                           /\ Wanted(req[h], seen[h], file) /\ cfg[h] = file
    /\ pc[h] = "reload" => req[h].kind = "raw" /\ Wanted(req[h], seen[h], file)
    /\ pc[h] = "sync" => Filed(h) /\ cfg[h] = file
    /\ pc[h] = "mark" => Filed(h)
    /\ pc[h] = "clear" => /\ req[h].kind = "restart" \/ Filed(h)
                          /\ running # Down /\ running.peers = file.peers
    /\ pc[h] = "systemctl" => req[h].kind \in {"restart", "start", "stop"}
    /\ pc[h] = "list" => /\ req[h].kind = "list"
                         /\ \A k \in KeysOf(file) : meta[k] = "live" \/ k \in KeysOf(cfg[h])
    /\ pc[h] = "ok" => Achieved(h)

AloneMakesProgress == \A h \in Handlers : alone[h] => Progress(h)

(* Whoever makes a step is alone afterwards at most, if it was before.     *)
LEMMA OnlyOneIsAlone ==
    ASSUME NEW g \in Handlers, NEW h \in Handlers, NEW b \in BOOLEAN, Step(g, b), alone'[h]
    PROVE  g = h /\ alone[h] /\ b
  BY DEF Step

LEMMA LabelAfter ==
    ASSUME TypeOK, NEW h \in Handlers, NEW label, Goto(h, label)
    PROVE  pc'[h] = label
  BY DEF Goto, TypeOK

(* A request that is filed has what it was promised.                       *)
LEMMA FiledIsPromised ==
    ASSUME NEW h, Filed(h)
    PROVE  Promised(req[h], seen[h])
  <1> DEFINE r == req[h]
             before == seen[h]
  <1>1. CASE r.kind = "create"
    BY <1>1 DEF Filed, Wanted, Recorded, Promised
  <1>2. CASE r.kind = "restore"
    BY <1>2 DEF Filed, Wanted, Recorded, Promised
  <1>3. CASE r.kind = "delete"
    BY <1>3 DEF Filed, Wanted, Recorded, Promised
  <1>4. CASE r.kind = "update"
    BY <1>4 DEF Filed, Wanted, Promised
  <1>5. CASE r.kind = "interface"
    BY <1>5 DEF Filed, Wanted, Promised
  <1>6. CASE r.kind = "raw"
    BY <1>6 DEF Filed, Wanted, Promised
  <1> QED
    BY <1>1, <1>2, <1>3, <1>4, <1>5, <1>6 DEF Filed, Filing

LEMMA AskMakesProgress ==
    ASSUME TypeOK, NEW h \in Handlers, Ask(h)
    PROVE  Progress(h)'
  <1>1. PICK r \in Requests :
          /\ req' = [req EXCEPT ![h] = r]
          /\ IF r \in FileRequests
                THEN /\ cfg' = [cfg EXCEPT ![h] = r.config]
                     /\ Goto(h, "truncate")
                ELSE /\ Goto(h, IF r.kind \in {"restart", "start", "stop"}
                                  THEN "systemctl" ELSE "load")
                     /\ UNCHANGED cfg
    BY DEF Ask
  <1>2. req'[h] = r
    BY <1>1 DEF TypeOK
  <1>3. CASE r \in FileRequests
    <2>1. pc'[h] = "truncate" /\ cfg'[h] = r.config /\ r.kind \in {"raw", "copy"}
      BY <1>1, <1>3, LabelAfter DEF TypeOK, FileRequests
    <2>2. Wanted(r, seen'[h], r.config)
      BY <2>1 DEF Wanted
    <2> QED
      BY <1>2, <2>1, <2>2 DEF Progress, Filing
  <1>4. CASE r \notin FileRequests
    <2>1. \/ pc'[h] = "systemctl" /\ r.kind \in {"restart", "start", "stop"}
          \/ pc'[h] = "load"
      BY <1>1, <1>4, LabelAfter
    <2> QED
      BY <1>2, <2>1 DEF Progress
  <1> QED
    BY <1>3, <1>4

(* The copy with which a handler goes to its save is what it wants.        *)
LEMMA LoadMakesProgress ==
    ASSUME TypeOK, NEW h \in Handlers, NEW c, Load(h, c, "truncate"),
           req[h] \in Requests, req[h].kind \in Filing \ {"delete"}, Wanted(req[h], file, c)
    PROVE  Progress(h)'
  <1>1. /\ pc'[h] = "truncate" /\ req'[h] = req[h] /\ cfg'[h] = c /\ seen'[h] = file
    BY LabelAfter DEF Load, TypeOK
  <1> QED
    BY <1>1 DEF Progress, Filing

(* c, with the address of its peer p changed.                              *)
Moved(c, p, ip) == [c EXCEPT !.peers = (@ \ {p}) \cup {[p EXCEPT !.ip = ip]}]

LEMMA MovedIsWanted ==
    ASSUME NEW c \in Config, NEW p \in c.peers, NEW ip
    PROVE  /\ Moved(c, p, ip).address = c.address
           /\ KeysOf(Moved(c, p, ip)) = KeysOf(c)
           /\ Without(Moved(c, p, ip), p.key) = Without(c, p.key)
           /\ [key |-> p.key, ip |-> ip] \in Moved(c, p, ip).peers
  <1> DEFINE moved == [p EXCEPT !.ip = ip]
             d == Moved(c, p, ip)
  <1>1. d.peers = (c.peers \ {p}) \cup {moved} /\ d.address = c.address
    BY DEF Config, Moved
  <1>2. moved = [key |-> p.key, ip |-> ip] /\ moved.key = p.key
    BY DEF Config, Peer
  <1> HIDE DEF moved, d
  <1>3. Without(d, p.key) = Without(c, p.key)
    BY <1>1, <1>2 DEF Without
  <1>4. {q.key : q \in d.peers} = {q.key : q \in c.peers}
    BY <1>1, <1>2
  <1> QED
    BY <1>1, <1>2, <1>3, <1>4 DEF KeysOf, d

LEMMA LoadsMakeProgress ==
    ASSUME TypeOK, NEW h \in Handlers,
           \/ LoadToCreate(h) \/ LoadToRestore(h) \/ LoadToUpdate(h)
           \/ LoadToSetInterface(h) \/ LoadToDelete(h) \/ LoadToList(h)
    PROVE  Progress(h)'
  <1> DEFINE r == req[h]
  <1>1. file \in Config /\ req[h] \in Requests \cup {NoRequest}
    BY DEF TypeOK
  <1>2. ASSUME NEW kinds, Kind(h, kinds)
        PROVE  r \in Requests /\ r.kind \in kinds
    BY <1>1, <1>2 DEF Kind
  <1>3. CASE LoadToCreate(h)
    <2>1. r \in Requests /\ r.kind = "create" /\ r.ip \in Wishes
      BY <1>2, <1>3, FieldsOfRequest DEF LoadToCreate
    <2>2. PICK ip \in Choices(file, r.ip) : Load(h, With(file, r.key, ip), "truncate")
      BY <1>3 DEF LoadToCreate
    <2>3. ip \in Addresses \ Used(file)
      BY <2>1, <2>2, ChoiceIsAnAddress
    <2>4. ip \in Addresses \ (IPs(file) \cup {file.address})
      BY <2>3 DEF Used
    <2>5. r.ip \in {ip, AnyFree}
      BY <2>2 DEF Choices
    <2>6. Wanted(r, file, With(file, r.key, ip))
      BY <2>1, <2>4, <2>5 DEF Wanted
    <2> QED
      BY <2>1, <2>2, <2>6, LoadMakesProgress DEF Filing
  <1>4. CASE LoadToRestore(h)
    <2>1. r \in Requests /\ r.kind = "restore"
      BY <1>2, <1>4 DEF LoadToRestore
    <2>2. Load(h, With(file, r.key, r.ip), "truncate")
      BY <1>4 DEF LoadToRestore
    <2>3. Wanted(r, file, With(file, r.key, r.ip))
      BY <2>1 DEF Wanted
    <2> QED
      BY <2>1, <2>2, <2>3, LoadMakesProgress DEF Filing
  <1>5. CASE LoadToUpdate(h)
    <2>1. r \in Requests /\ r.kind = "update" /\ r.key \in Keys
      BY <1>2, <1>5, FieldsOfRequest DEF LoadToUpdate
    <2>2. PICK p \in file.peers : p.key = r.key /\ Load(h, Moved(file, p, r.ip), "truncate")
      BY <1>5 DEF LoadToUpdate, Moved
    <2>3. Wanted(r, file, Moved(file, p, r.ip))
      <3>1. /\ Moved(file, p, r.ip).address = file.address
            /\ KeysOf(Moved(file, p, r.ip)) = KeysOf(file)
            /\ Without(Moved(file, p, r.ip), p.key) = Without(file, p.key)
            /\ [key |-> p.key, ip |-> r.ip] \in Moved(file, p, r.ip).peers
        BY <1>1, MovedIsWanted
      <3> QED
        BY <2>1, <2>2, <3>1 DEF Wanted
    <2> QED
      BY <2>1, <2>2, <2>3, LoadMakesProgress DEF Filing
  <1>6. CASE LoadToSetInterface(h)
    <2>1. r \in Requests /\ r.kind = "interface"
      BY <1>2, <1>6 DEF LoadToSetInterface
    <2>2. Load(h, [file EXCEPT !.address = r.ip], "truncate")
      BY <1>6 DEF LoadToSetInterface
    <2>3. Wanted(r, file, [file EXCEPT !.address = r.ip])
      BY <2>1 DEF Wanted
    <2> QED
      BY <2>1, <2>2, <2>3, LoadMakesProgress DEF Filing
  <1>7. CASE LoadToDelete(h)
    <2>1. r \in Requests /\ r.kind = "delete" /\ Load(h, file, "forget")
      BY <1>2, <1>7 DEF LoadToDelete
    <2>2. pc'[h] = "forget" /\ req'[h] = r /\ cfg'[h] = file /\ seen'[h] = file
      BY <2>1, LabelAfter DEF Load, TypeOK
    <2> QED
      BY <2>1, <2>2 DEF Progress
  <1>8. CASE LoadToList(h)
    <2>1. r \in Requests /\ r.kind = "list" /\ Load(h, file, "list")
      BY <1>2, <1>8 DEF LoadToList
    <2>2. pc'[h] = "list" /\ req'[h] = r /\ cfg'[h] = file /\ file' = file
      BY <2>1, LabelAfter DEF Load, TypeOK, world
    <2> QED
      BY <2>1, <2>2 DEF Progress
  <1> QED
    BY <1>3, <1>4, <1>5, <1>6, <1>7, <1>8

(* The row is written, if its handler stays alone.                         *)
LEMMA UpsertHasDone ==
    ASSUME TypeOK, NEW h \in Handlers, NEW k \in Keys, NEW state,
           UpsertWGPeer(h, k, state), alone'[h]
    PROVE  meta' = [meta EXCEPT ![k] = state] /\ meta'[k] = state
  BY OnlyOneIsAlone DEF UpsertWGPeer, TypeOK

LEMMA RemovePeerMakesProgress ==
    ASSUME TypeOK, NEW h \in Handlers, RemovePeer(h), Progress(h), alone'[h]
    PROVE  Progress(h)'
  <1> DEFINE k == req[h].key
  <1>1. /\ pc[h] = "forget" /\ req[h] \in Requests /\ req[h].kind = "delete"
        /\ cfg[h] = seen[h]
    BY DEF RemovePeer, Progress
  <1>2. k \in Keys
    BY <1>1, FieldsOfRequest
  <1>3. meta'[k] = "deleted"
    BY <1>2, UpsertHasDone DEF RemovePeer
  <1>4. CASE k \in KeysOf(cfg[h])
    <2>1. /\ pc'[h] = "truncate" /\ req' = req /\ seen' = seen
          /\ cfg' = [cfg EXCEPT ![h].peers = Without(cfg[h], k)]
      BY <1>4, LabelAfter DEF RemovePeer
    <2>2. cfg'[h] = [seen[h] EXCEPT !.peers = Without(seen[h], k)]
      BY <1>1, <2>1 DEF TypeOK
    <2>3. Wanted(req[h], seen[h], cfg'[h])
      BY <1>1, <1>4, <2>2 DEF Wanted
    <2> QED
      BY <1>1, <1>3, <2>1, <2>3 DEF Progress, Filing
  <1>5. CASE k \notin KeysOf(cfg[h])
    <2>1. pc'[h] = "idle"
      BY <1>5 DEF RemovePeer, Leave
    <2> QED
      BY <2>1 DEF Progress
  <1> QED
    BY <1>4, <1>5

LEMMA SaveMakesProgress ==
    ASSUME TypeOK, NEW h \in Handlers, Progress(h),
           Truncate(h) \/ WriteSome(h) \/ FinishSave(h)
    PROVE  Progress(h)'
  <1>1. /\ pc[h] \in {"truncate", "write"} /\ UNCHANGED <<req, cfg, seen, meta>>
    BY DEF Truncate, WriteSome, FinishSave
  <1>2. /\ req[h] \in Requests /\ req[h].kind \in Filing \cup {"copy"}
        /\ Wanted(req[h], seen[h], cfg[h])
        /\ req[h].kind = "delete" => meta[req[h].key] = "deleted"
    BY <1>1 DEF Progress
  <1>3. CASE Truncate(h) \/ WriteSome(h)
    <2>1. pc'[h] = "write"
      BY <1>3, LabelAfter DEF Truncate, WriteSome
    <2> QED
      BY <1>1, <1>2, <2>1 DEF Progress
  <1>4. CASE FinishSave(h)
    <2>1. pc'[h] = AfterSave(h) /\ file' = cfg[h]
      BY <1>4, LabelAfter DEF FinishSave
    <2>2. req[h] # NoRequest
      BY <1>2, ConstantsAssumption
    <2>3. CASE req[h].kind \in {"create", "restore"}
      <3>1. pc'[h] = "record"
        BY <2>1, <2>2, <2>3 DEF AfterSave, Kind
      <3> QED
        BY <1>1, <1>2, <2>1, <2>3, <3>1 DEF Progress
    <2>4. CASE req[h].kind = "raw"
      <3>1. pc'[h] = "reload"
        BY <2>1, <2>2, <2>4 DEF AfterSave, Kind
      <3> QED
        BY <1>1, <1>2, <2>1, <2>4, <3>1 DEF Progress
    <2>5. CASE req[h].kind = "copy"
      <3>1. pc'[h] = "ok"
        BY <2>1, <2>2, <2>5 DEF AfterSave, Kind
      <3>2. file' = req[h].config
        BY <1>2, <2>1, <2>5 DEF Wanted
      <3>3. Promised(req[h], seen[h])'
        BY <1>1, <2>5, <3>2 DEF Promised
      <3>4. Kind(h, {"copy", "list", "start", "stop"})'
        BY <1>1, <2>2, <2>5 DEF Kind
      <3> QED
        BY <1>1, <1>2, <3>1, <3>3, <3>4 DEF Progress, Achieved
    <2>6. CASE req[h].kind \in {"delete", "update", "interface"}
      <3>1. pc'[h] = "sync"
        BY <2>1, <2>2, <2>6 DEF AfterSave, Kind
      <3>2. Filed(h)'
        BY <1>1, <1>2, <2>1, <2>6 DEF Filed, Recorded, Filing
      <3> QED
        BY <1>1, <1>2, <2>1, <3>1, <3>2 DEF Progress
    <2> QED
      BY <1>2, <2>3, <2>4, <2>5, <2>6 DEF Filing
  <1> QED
    BY <1>3, <1>4

LEMMA RecordMakesProgress ==
    ASSUME TypeOK, NEW h \in Handlers, RecordPeer(h), Progress(h), alone'[h]
    PROVE  Progress(h)'
  <1>1. /\ req[h] \in Requests /\ req[h].kind \in {"create", "restore"}
        /\ Wanted(req[h], seen[h], file) /\ cfg[h] = file
    BY DEF RecordPeer, Progress
  <1>2. meta'[req[h].key] = "live"
    BY <1>1, FieldsOfRequest, UpsertHasDone DEF RecordPeer
  <1>3. pc'[h] = "sync" /\ UNCHANGED <<file, req, cfg, seen>>
    BY LabelAfter DEF RecordPeer
  <1>4. Filed(h)'
    BY <1>1, <1>2, <1>3 DEF Filed, Recorded, Filing
  <1> QED
    BY <1>1, <1>3, <1>4 DEF Progress

LEMMA FiledStays ==
    ASSUME NEW h, Filed(h), UNCHANGED <<file, meta, req, seen>>
    PROVE  Filed(h)'
  BY DEF Filed, Recorded

LEMMA SyncsMakeProgress ==
    ASSUME TypeOK, NEW h \in Handlers, Progress(h),
           ReloadFile(h) \/ SyncConf(h) \/ SyncFails(h)
    PROVE  Progress(h)'
  <1>1. UNCHANGED <<file, meta, req, seen>> /\ pc[h] \in {"reload", "sync"}
    BY DEF ReloadFile, SyncConf, SyncFails, world
  <1>2. req[h] \in Requests
    BY <1>1 DEF Progress
  <1>3. CASE ReloadFile(h)
    <2>1. req[h].kind = "raw" /\ Wanted(req[h], seen[h], file)
      BY <1>3 DEF ReloadFile, Progress
    <2>2. Filed(h)'
      BY <1>1, <2>1 DEF Filed, Recorded, Filing
    <2>3. \/ pc'[h] = "sync" /\ cfg'[h] = file
          \/ pc'[h] = "mark"
      BY <1>3, LabelAfter DEF ReloadFile, TypeOK
    <2> QED
      BY <1>1, <1>2, <2>2, <2>3 DEF Progress
  <1>4. CASE SyncConf(h)
    <2>1. pc[h] = "sync" /\ pc'[h] = "clear"
      BY <1>4, LabelAfter DEF SyncConf
    <2>2. Filed(h)' /\ cfg[h] = file
      BY <1>1, <2>1, FiledStays DEF Progress
    <2>3. running \in Config /\ running' = [running EXCEPT !.peers = cfg[h].peers]
      BY <1>4 DEF SyncConf, TypeOK
    <2>4. running' \in Config /\ running'.peers = file'.peers
      BY <1>1, <2>2, <2>3 DEF Config, TypeOK
    <2>5. running' # Down
      BY <2>4, ConstantsAssumption
    <2> QED
      BY <1>1, <1>2, <2>1, <2>2, <2>4, <2>5 DEF Progress
  <1>5. CASE SyncFails(h)
    <2>1. pc[h] = "sync" /\ pc'[h] = "mark"
      BY <1>5, LabelAfter DEF SyncFails
    <2>2. Filed(h)'
      BY <1>1, <2>1, FiledStays DEF Progress
    <2> QED
      BY <1>1, <1>2, <2>1, <2>2 DEF Progress
  <1> QED
    BY <1>3, <1>4, <1>5

LEMMA FlagMakesProgress ==
    ASSUME TypeOK, NEW h \in Handlers, Progress(h), ClearPending(h) \/ MarkPending(h)
    PROVE  Progress(h)'
  <1>1. /\ UNCHANGED <<file, running, meta, req, seen>> /\ pc[h] \in {"clear", "mark"}
        /\ pc'[h] = "ok"
    BY LabelAfter DEF ClearPending, MarkPending
  <1>2. req[h] \in Requests
    BY <1>1 DEF Progress
  <1>3. CASE ClearPending(h)
    <2>1. /\ req[h].kind = "restart" \/ Filed(h)
          /\ running # Down /\ running.peers = file.peers
      BY <1>3 DEF ClearPending, Progress
    <2>2. req[h].kind = "restart" => Promised(req[h], seen[h])'
      BY <1>1, <2>1 DEF Promised
    <2>3. Promised(req[h], seen[h])'
      BY <1>1, <2>1, <2>2, FiledIsPromised DEF Promised
    <2> QED
      BY <1>1, <1>2, <2>1, <2>3 DEF Progress, Achieved
  <1>4. CASE MarkPending(h)
    <2>1. Filed(h) /\ pending'
      BY <1>4 DEF MarkPending, Progress
    <2>2. Promised(req[h], seen[h])'
      BY <1>1, <2>1, FiledIsPromised DEF Promised
    <2> QED
      BY <1>1, <1>2, <2>1, <2>2 DEF Progress, Achieved
  <1> QED
    BY <1>3, <1>4

LEMMA SystemctlMakesProgress ==
    ASSUME TypeOK, NEW h \in Handlers, Progress(h), Systemctl(h)
    PROVE  Progress(h)'
  <1>1. /\ req[h] \in Requests /\ req[h].kind \in {"restart", "start", "stop"}
        /\ req[h] # NoRequest
    BY ConstantsAssumption DEF Systemctl, Progress
  <1>2. UNCHANGED <<file, req, seen>>
    BY DEF Systemctl
  <1>3. CASE req[h].kind = "restart"
    <2>1. running' = file /\ pc'[h] = "clear"
      BY <1>3, LabelAfter DEF Systemctl
    <2>2. running' # Down /\ running'.peers = file'.peers
      BY <1>2, <2>1, ConstantsAssumption DEF TypeOK
    <2> QED
      BY <1>1, <1>2, <1>3, <2>1, <2>2 DEF Progress
  <1>4. CASE req[h].kind = "start"
    <2>1. running' # Down /\ pc'[h] = "ok"
      BY <1>4, ConstantsAssumption, LabelAfter DEF Systemctl, TypeOK
    <2>2. Promised(req[h], seen[h])'
      BY <1>2, <1>4, <2>1 DEF Promised
    <2>3. Kind(h, {"copy", "list", "start", "stop"})'
      BY <1>1, <1>2, <1>4 DEF Kind
    <2> QED
      BY <1>1, <1>2, <2>1, <2>2, <2>3 DEF Progress, Achieved
  <1>5. CASE req[h].kind = "stop"
    <2>1. running' = Down /\ pc'[h] = "ok"
      BY <1>5, LabelAfter DEF Systemctl
    <2>2. Promised(req[h], seen[h])'
      BY <1>2, <1>5, <2>1 DEF Promised
    <2>3. Kind(h, {"copy", "list", "start", "stop"})'
      BY <1>1, <1>2, <1>5 DEF Kind
    <2> QED
      BY <1>1, <1>2, <2>1, <2>2, <2>3 DEF Progress, Achieved
  <1> QED
    BY <1>1, <1>3, <1>4, <1>5

LEMMA ListMakesProgress ==
    ASSUME TypeOK, NEW h \in Handlers, Progress(h), ListPeer(h) \/ ListEnds(h), alone'[h]
    PROVE  Progress(h)'
  <1>1. /\ pc[h] = "list" /\ UNCHANGED <<file, req, seen>>
        /\ req[h] \in Requests /\ req[h].kind = "list" /\ req[h] # NoRequest
        /\ \A k \in KeysOf(file) : meta[k] = "live" \/ k \in KeysOf(cfg[h])
    BY ConstantsAssumption DEF ListPeer, ListEnds, Progress, world
  <1>2. KeysOf(file) \subseteq Keys
    BY DEF TypeOK, Config, Peer, KeysOf
  <1>3. CASE ListPeer(h)
    <2>1. PICK p \in cfg[h].peers :
             /\ IF p.key = NoKey
                   THEN UNCHANGED meta /\ Step(h, TRUE)
                   ELSE UpsertWGPeer(h, p.key, "live")
             /\ cfg' = [cfg EXCEPT ![h].peers = @ \ {p}]
      BY <1>3 DEF ListPeer
    <2>2. p.key \in Keys \cup {NoKey}
      BY DEF TypeOK, Config, Peer
    <2>3. \A k \in KeysOf(cfg[h]) : k # p.key => k \in KeysOf(cfg'[h])
      BY <2>1 DEF KeysOf, TypeOK, Config
    <2>4. \A k \in Keys : meta'[k] = meta[k] \/ meta'[k] = "live"
      <3>1. CASE p.key = NoKey
        BY <2>1, <3>1
      <3>2. CASE p.key # NoKey
        <4>1. meta' = [meta EXCEPT ![p.key] = "live"]
          BY <2>1, <2>2, <3>2, UpsertHasDone
        <4> QED
          BY <4>1 DEF TypeOK
      <3> QED
        BY <3>1, <3>2
    <2>5. p.key # NoKey => meta'[p.key] = "live"
      BY <2>1, <2>2, UpsertHasDone
    <2>6. NoKey \notin KeysOf(file)
      BY DEF KeysOf
    <2>7. \A k \in KeysOf(file) : meta'[k] = "live" \/ k \in KeysOf(cfg'[h])
      BY <1>1, <1>2, <2>3, <2>4, <2>5, <2>6
    <2>8. pc' = pc
      BY <1>3 DEF ListPeer
    <2> QED
      BY <1>1, <2>7, <2>8 DEF Progress
  <1>4. CASE ListEnds(h)
    <2>1. pc'[h] = "ok" /\ cfg[h].peers = {} /\ meta' = meta
      BY <1>4, LabelAfter DEF ListEnds, world
    <2>2. \A k \in KeysOf(file) : meta[k] = "live"
      BY <1>1, <2>1 DEF KeysOf
    <2>3. Promised(req[h], seen[h])'
      BY <1>1, <2>1, <2>2 DEF Promised
    <2>4. Kind(h, {"copy", "list", "start", "stop"})'
      BY <1>1 DEF Kind
    <2> QED
      BY <1>1, <2>1, <2>3, <2>4 DEF Progress, Achieved
  <1> QED
    BY <1>3, <1>4

(* Every step of a handler that stays alone is progress.                   *)
LEMMA NextMakesProgress ==
    TypeOK /\ AloneMakesProgress /\ [Next]_vars => AloneMakesProgress'
  <1> SUFFICES ASSUME TypeOK, AloneMakesProgress, [Next]_vars,
                      NEW h \in Handlers, alone'[h]
               PROVE  Progress(h)'
    BY DEF AloneMakesProgress
  <1>1. CASE Ask(h)
    BY <1>1, AskMakesProgress
  <1>2. ASSUME NEW g \in Handlers, Ask(g), g # h
        PROVE  FALSE
    BY <1>2 DEF Ask
  <1>3. ASSUME NEW g \in Handlers, (Handle(g) /\ ~Ask(g)) \/ Mishap(g)
        PROVE  g = h /\ alone[h]
    <2>1. \E b \in BOOLEAN : Step(g, b)
      BY <1>3 DEF Handle, Mishap, Refuse, LoadToCreate, LoadToRestore, LoadToUpdate,
                  LoadToSetInterface, LoadToDelete, RemovePeer, Truncate, WriteSome,
                  FinishSave, RecordPeer, ReloadFile, SyncConf, SyncFails, ClearPending,
                  MarkPending, Systemctl, SystemctlFails, LoadToList, ListPeer, ListEnds,
                  Reply, FinishSharedSave, TruncateFails, WriteFails, Load, Error,
                  UpsertWGPeer
    <2> QED
      BY <2>1, OnlyOneIsAlone
  <1>4. ASSUME (Handle(h) /\ ~Ask(h)) \/ Mishap(h)
        PROVE  Progress(h)'
    <2>1. Progress(h)
      BY <1>3, <1>4 DEF AloneMakesProgress
    <2>2. CASE \/ Refuse(h) \/ SystemctlFails(h) \/ Reply(h) \/ FinishSharedSave(h)
               \/ TruncateFails(h) \/ WriteFails(h)
      <3>1. Step(h, FALSE)
        BY <2>2 DEF Refuse, SystemctlFails, Reply, FinishSharedSave, TruncateFails,
                    WriteFails, Error
      <3> QED
        BY <3>1, OnlyOneIsAlone
    <2> QED
      BY <1>4, <2>1, <2>2, LoadsMakeProgress, RemovePeerMakesProgress, SaveMakesProgress,
         RecordMakesProgress, SyncsMakeProgress, FlagMakesProgress, SystemctlMakesProgress,
         ListMakesProgress DEF Handle, Mishap
  <1>5. CASE PanelDies
    BY <1>5 DEF PanelDies
  <1>6. CASE UNCHANGED vars
    <2>1. Progress(h)
      BY <1>6 DEF vars, AloneMakesProgress
    <2> QED
      BY <1>6, <2>1 DEF vars, Progress, Achieved, Promised, Filed, Recorded, Kind
  <1> QED
    BY <1>1, <1>2, <1>3, <1>4, <1>5, <1>6 DEF Next

(* A request that nobody and no failure has disturbed has done in file,    *)
(* table and kernel what its answer says, or the flag is set, whatever the *)
(* file was that it found.                                                 *)
THEOREM SuccessMeansDone == Spec => []AloneMeansDone
  <1>1. Init => AloneMakesProgress
    BY DEF Init, AloneMakesProgress
  <1>2. AloneMakesProgress => AloneMeansDone
    BY DEF AloneMakesProgress, AloneMeansDone, Progress, Achieved
  <1>3. TypeOK /\ AloneMakesProgress /\ [Next]_vars => AloneMakesProgress'
    BY NextMakesProgress
  <1> QED
    BY <1>1, <1>2, <1>3, TypeCorrect, PTL DEF Spec
=============================================================================
