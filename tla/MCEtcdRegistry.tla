--------------------------- MODULE MCEtcdRegistry ---------------------------
(***************************************************************************)
(* Instances of EtcdRegistry for TLC.                                      *)
(***************************************************************************)
EXTENDS EtcdRegistry, TLC

CONSTANTS s1, s2, p1, p2

\* One server, in a process of its own.
Alone == s1 :> p1

\* Two servers, each in a process of its own.
Apart == s1 :> p1 @@ s2 :> p2
=============================================================================
