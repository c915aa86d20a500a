--------------------------- MODULE MCWebhookOutbox ---------------------------
(* Two processes, two sweeps or attempts at a time, the real number of attempts. *)
EXTENDS WebhookOutbox
=============================================================================
