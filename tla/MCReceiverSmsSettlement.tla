----------------------- MODULE MCReceiverSmsSettlement -----------------------
(* Two claims of two customers for one payment, an hour of two ticks. *)
EXTENDS ReceiverSmsSettlement

CONSTANTS r1, c1, c2
=============================================================================
