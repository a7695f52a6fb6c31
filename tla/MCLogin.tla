------------------------------ MODULE MCLogin ------------------------------
(* Two tabs of one browser and one of another; every tab is named by its  *)
(* browser.                                                                *)
EXTENDS Login, TLC

MCTab == {<<"a", 1>>, <<"a", 2>>, <<"b", 1>>}
MCBrowserOf(t) == t[1]

(* One user of ours, and one whose address the provider did not verify. *)
MCClaims ==
  {[sub |-> "u", email |-> "ours", verified |-> TRUE],
   [sub |-> "v", email |-> "ours", verified |-> None]}

MCSymmetry == Permutations(Replica)
=============================================================================
