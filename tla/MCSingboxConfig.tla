--------------------------- MODULE MCSingboxConfig ---------------------------
(* Instances of SingboxConfig for TLC.                                     *)
EXTENDS SingboxConfig

CONSTANTS t1, t2

(* One request per code path: an add and its duplicate or colliding twin,  *)
(* a rename, a delete, and a raw replacement.                              *)
MCRequests ==
    {[kind |-> "add", tag |-> t, port |-> p] : t \in Tags, p \in Ports}
      \cup {[kind |-> "update", tag |-> t1, newTag |-> t2, port |-> p] : p \in Ports}
      \cup {[kind |-> "delete", tag |-> t2],
            [kind |-> "replace", body |-> {}]}

=============================================================================
