----------------------- MODULE MCSubscriptionRotation -----------------------
(* A small instance of SubscriptionRotation: one shard, two pairs.         *)
EXTENDS SubscriptionRotation
=============================================================================
