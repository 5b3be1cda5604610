------------------------------ MODULE MCTunnel ------------------------------
(***************************************************************************)
(* Small instances of Tunnel for TLC.                                      *)
(***************************************************************************)
EXTENDS TunnelInv

CONSTANTS a, b, x, t1

\* Everyone comes with the same token; x may be a retry of either side.
OneToken == [c \in Conn |-> t1]
=============================================================================
