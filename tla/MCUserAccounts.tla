---------------------------- MODULE MCUserAccounts ----------------------------
(* Instances of UserAccounts for TLC.                                      *)
EXTENDS UserAccounts, TLC

CONSTANTS a, b, u1, u2, i1, i2, i3

(* Two managed inbounds of different types and one that is not managed.    *)
MCTypeOf == i1 :> "vless" @@ i2 :> "vmess" @@ i3 :> "vless"

(* One request per code path: creations of an enabled and a disabled user, *)
(* updates, renames, deletions, edits with and without VMess fields, and a *)
(* bulk creation with a repeated name and an item without a tag.  Creations*)
(* one by one and in bulk disagree about the uuid.                         *)
MCRequests ==
    {[kind |-> "create", name |-> a, uuid |-> u1, tag |-> i1, enabled |-> e] : e \in {"yes", "no"}}
      \cup {[kind |-> "update", orig |-> o, name |-> b, uuid |-> u1,
             tag |-> IF o = a THEN i1 ELSE NoTag, enabled |-> e] :
                o \in {a, b}, e \in {"yes", "no", "unset"}}
      \cup {[kind |-> "delete", name |-> a]}
      \cup {[kind |-> "leave", name |-> a, tag |-> i2]}
      \cup {[kind |-> "edit", name |-> a, uuid |-> u2, tag |-> i2, vmess |-> v] : v \in BOOLEAN}
      \cup {[kind |-> "bulk", items |->
              <<[name |-> a, uuid |-> u2, tag |-> i1], [name |-> b, uuid |-> u2, tag |-> NoTag],
                [name |-> a, uuid |-> u2, tag |-> i2]>>]}

(* An edit by hand may bring a name that is to be created, in an inbound   *)
(* that is managed, and one in an inbound that is not; it may also empty   *)
(* any inbound.                                                            *)
MCByHand == {[name |-> a, tag |-> i2, uuid |-> u1], [name |-> b, tag |-> i3, uuid |-> u1]}

SymmetricHandlers == Permutations(Handlers)
=============================================================================
