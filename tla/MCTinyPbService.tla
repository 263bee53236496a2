-------------------------- MODULE MCTinyPbService --------------------------
(***************************************************************************)
(* Two handler threads; a service in a package with one method, another    *)
(* service, and requests that meet every verdict of the dispatcher.        *)
(***************************************************************************)
EXTENDS TinyPbService

\* Units: '.', and some letters.
P == 5
S == 6
T == 7
M == 8
X == 9

MCUnknown == <<10>>
MCMethods == (<<P, 4, S>> :> {<<M>>}) @@ (<<T>> :> {<<M>>})
MCRegistered == {<<P, 4, S>>}
Good == <<1, 2>>
MCParses(pb) == pb = Good

R(id, name, pb) == [msg_req |-> id, service_full_name |-> name, err_code |-> 0,
                    err_info |-> <<>>, pb_data |-> pb]

MCRequests == {
  R(<<1>>,    <<P, 4, S, 4, M>>, Good),
  R(<<1, 2>>, <<P, 4, S, 4, X>>, Good),
  R(<<2>>,    <<T, 4, M>>, <<3>>),
  R(<<2, 1>>, <<X>>, Good)}

\* The ends of the range of int64_t, scaled down.
Lowest == -9
Highest == 9

\* The threads are interchangeable.
ThreadSymmetry == Permutations(Threads)
=============================================================================
