------------------------ MODULE MCSubscriptionLease -------------------------
(* Two concurrent requests, one batch, two generations of rows. *)
EXTENDS SubscriptionLease
==============================================================================
