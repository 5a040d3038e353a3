------------------------- MODULE MCReceiverSmsOutbox -------------------------
(* Two messages: of two payments, or of one in the same or in other words;   *)
(* an account covers the payment of the first, and that of the second or not. *)
EXTENDS ReceiverSmsOutbox, TLC

CONSTANTS m1, m2, r1, r2, x, y

Says(r, t, c) == [reference |-> r, text |-> t, covered |-> c]
FewBills ==
    {(m1 :> Says(r1, x, TRUE)) @@ (m2 :> b) :
        b \in {Says(r2, x, TRUE), Says(r1, x, TRUE), Says(r1, y, TRUE), Says(r2, x, FALSE)}}
=============================================================================
