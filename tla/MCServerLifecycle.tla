--------------------------- MODULE MCServerLifecycle ---------------------------
(***************************************************************************)
(* Two clients, of which the first may send a second request.              *)
(***************************************************************************)
EXTENDS ServerLifecycle

CONSTANTS c1, c2

MCConns == {c1, c2}
MCMaxRequests == c1 :> 2 @@ c2 :> 1
=============================================================================
