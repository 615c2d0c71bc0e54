--------------------------- MODULE OrderLifecycle ---------------------------
(***************************************************************************)
(* The order state machine of app/models/order.py and the effect of one    *)
(* successful transition on the order's row (orders/service.py:301-319).   *)
(***************************************************************************)

(* OrderStatus, the legacy aliases already normalised.                     *)
OrderStatus ==
  {"created", "awaiting_payment", "paid", "processing", "completed",
   "failed", "cancelled", "refunded", "expired"}

(* normalize_status: the legacy names stored by old rows or sent by the    *)
(* bot's buttons.                                                          *)
Normalized(raw) ==
  CASE raw = "done"    -> "completed"
    [] raw = "cancel"  -> "cancelled"
    [] raw = "pending" -> "awaiting_payment"
    [] OTHER           -> raw

(* VALID_ORDER_TRANSITIONS.                                                *)
Allowed ==
  {<<"created", "awaiting_payment">>, <<"created", "paid">>,
   <<"created", "cancelled">>, <<"created", "expired">>,
   <<"awaiting_payment", "paid">>, <<"awaiting_payment", "cancelled">>,
   <<"awaiting_payment", "expired">>,
   <<"paid", "processing">>, <<"paid", "completed">>,
   <<"paid", "failed">>, <<"paid", "refunded">>,
   <<"processing", "completed">>, <<"processing", "failed">>,
   <<"processing", "refunded">>,
   <<"completed", "refunded">>,
   <<"failed", "processing">>, <<"failed", "refunded">>, <<"failed", "cancelled">>}

(* validate_order_transition accepts a change of state.                    *)
CanMove(from, to) == <<from, Normalized(to)>> \in Allowed

(* What transition_order_status writes: PROCESSING and COMPLETED carry the *)
(* fulfillment status along.                                               *)
Moved(row, to) ==
  [row EXCEPT !.status = Normalized(to),
              !.delivery = CASE Normalized(to) = "processing" -> "processing"
                             [] Normalized(to) = "completed"  -> "fulfilled"
                             [] OTHER -> @]
=============================================================================
