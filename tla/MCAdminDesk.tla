---------------------------- MODULE MCAdminDesk ----------------------------
(***************************************************************************)
(* An owner, the orders of two services, and a user who registers.         *)
(***************************************************************************)
EXTENDS AdminDesk, TLC

CONSTANTS owner, service, chatgpt, buyer

Services == Permutations(Order)
=============================================================================
