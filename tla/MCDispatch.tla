----------------------------- MODULE MCDispatch -----------------------------
(***************************************************************************)
(* A top-up, the delivery of an order, the notice of that order and        *)
(* another top-up behind it: the delivery commits in the middle of a       *)
(* batch, and a batch does not hold them all.                              *)
(***************************************************************************)
EXTENDS Dispatch, TLC

CONSTANTS topup, request, notice, later

MCQueue == <<topup, request, notice, later>>

MCKind == topup :> "topup" @@ request :> "request" @@ notice :> "created" @@ later :> "topup"
=============================================================================
