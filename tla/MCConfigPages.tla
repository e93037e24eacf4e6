---------------------------- MODULE MCConfigPages ----------------------------
(* Two inbounds of which one exists, with a transport and a user; a simple   *)
(* rule that names both, and one the editor does not know.                   *)
EXTENDS ConfigPages

CONSTANTS t1, t2, u1, w1, w2

MCInitialFiles ==
    [singbox |->
       [inbounds |-> [g \in Tags |->
          IF g = t1 THEN [NewInbound("vless") EXCEPT !.transport = TRUE, !.users = {u1}]
          ELSE Nothing],
        rules |-> <<[simple |-> TRUE, tags |-> <<t1, t2>>], [simple |-> FALSE, tags |-> <<t1>>]>>],
     wireguard |-> w1]

=============================================================================
