--------------------------- MODULE MCRpcFramework ---------------------------
(***************************************************************************)
(* An instance of RpcFramework for TLC.                                    *)
(***************************************************************************)
EXTENDS RpcFramework

\* Two methods whose names differ only in where service and method are cut
\* apart, and one with a name that is too long.
SmallMethods == {[id |-> 1, service |-> <<1>>, method |-> <<>>],
                 [id |-> 2, service |-> <<>>,  method |-> <<1>>],
                 [id |-> 3, service |-> <<1>>, method |-> <<1, 1, 1>>]}

\* No payload; one that begins like a header; one whose response is above the
\* limit; one whose request is.
SmallPayloads == {<<>>, <<7, 8>>, <<7, 8, 9>>, <<7, 8, 9, 7>>}
=============================================================================
