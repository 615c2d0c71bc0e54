---------------------------- MODULE MCMembership ----------------------------
(***************************************************************************)
(* A guest and an owner, a public group and a private channel.             *)
(***************************************************************************)
EXTENDS Membership, TLC

CONSTANTS guest, owner, news, club, v1, v2

News == [kind |-> "username", chat |-> news, n |-> 0]
Club == [kind |-> "invite", chat |-> club, n |-> 0]

MCForms ==
  {[link |-> News, type |-> "ordinary", detected |-> FALSE],
   [link |-> Club, type |-> "ordinary", detected |-> TRUE]}

Visitors == Permutations(Visit)
=============================================================================
