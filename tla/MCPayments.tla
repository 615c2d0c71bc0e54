----------------------------- MODULE MCPayments -----------------------------
(***************************************************************************)
(* One top-up with each provider, and one order that is paid twice.        *)
(***************************************************************************)
EXTENDS Payments

MCPaysFor == [t \in OrderTx |-> CHOOSE o \in PaidOrder : TRUE]
=============================================================================
