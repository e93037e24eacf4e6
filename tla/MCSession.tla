------------------------------ MODULE MCSession ------------------------------
(* Two tabs of one browser.  Two tokens: a session, and the one that        *)
(* replaces it while calls of the first are still in flight.                *)
EXTENDS Session

=============================================================================
