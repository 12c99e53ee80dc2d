------------------------------ MODULE MCHandshake -------------------------------
(* Two connections between two clients, dialled from either side.                   *)
EXTENDS Handshake, TLC

CONSTANTS a1, b1, a2, b2     \* the ends: client a dials on 1, client b on 2

MCPeer == (a1 :> b1) @@ (b1 :> a1) @@ (a2 :> b2) @@ (b2 :> a2)
MCOwner == (a1 :> "a") @@ (b1 :> "b") @@ (a2 :> "a") @@ (b2 :> "b")

==================================================================================
