------------------------- MODULE MCWebhookDelivery -------------------------
(* One hook with an ordinary delivery and a test, two loops, two days. *)
EXTENDS WebhookDelivery

CONSTANTS d1, d2, h1, w1, w2

MCDelivery == {d1, d2}
MCHook == {h1}
MCHookOf == [d \in MCDelivery |-> h1]
MCWorker == {w1, w2}
=============================================================================
