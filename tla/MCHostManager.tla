--------------------------- MODULE MCHostManager ----------------------------
(* Three requests for one host: two that make an object each, and a third    *)
(* that switches the traffic off again meanwhile.                            *)
EXTENDS HostManager
=============================================================================
