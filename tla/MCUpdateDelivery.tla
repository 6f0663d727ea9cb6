--------------------------- MODULE MCUpdateDelivery ---------------------------
(* Two handlers that change the account and a peer that connects twice. *)
EXTENDS UpdateDelivery, TLC
=============================================================================
