------------------------------ MODULE MCServer ------------------------------
(***************************************************************************)
(* Two prepared engines, two offers and a visit for TLC; two publishers of *)
(* two events and two workers, one of which asks for both types, with      *)
(* queues of two events, so that both publishers can wait for room in one  *)
(* queue while its worker leaves; two frames with more audio than fits.    *)
(***************************************************************************)
EXTENDS Server, TLC

CONSTANTS c1, c2, o1, o2, v1, w1, w2, p1, p2

MCInterest == w1 :> {"frame", "shutdown"} @@ w2 :> {"shutdown"}
MCEvents == [type : Types, from : Publishers, number : 1..MaxEvents]
=============================================================================
