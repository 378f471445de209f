---------------------------- MODULE MCWebhookDelivery ----------------------------
(* Instances of WebhookDelivery for TLC: events of three kinds, one of a blocked receiver. *)
EXTENDS WebhookDelivery, TLC
CONSTANTS e1, e2, e3, e4, e5, u1, u2
OneUrl == [d \in Delivery |-> u1]
\* e3 is for a receiver whose address is turned down.
TwoUrls == [d \in Delivery |-> IF d = e3 THEN u2 ELSE u1]
Symmetry == Permutations(Delivery)

\* Deliveries that succeed, fail, or break out of the loop.
OkOrFail == [d \in Delivery |-> {"ok", "down", "refused"}]
\* e1 lacks the secret its signature needs.
OneUnsigned == [d \in Delivery |-> IF d = e1 THEN {"unsigned"} ELSE Answer \ {"unsigned"}]
=============================================================================
