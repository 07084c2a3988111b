----------------------------- MODULE MCClientPin -----------------------------
(***************************************************************************)
(* Two requests, which are alike.                                          *)
(***************************************************************************)
EXTENDS ClientPin, TLC

AlikeRequests == Permutations(Requests)
=============================================================================
