-------------------------- MODULE MCWebhookReplay --------------------------
(***************************************************************************)
(* Instance of WebhookReplay for TLC: an application with a replay store   *)
(* and one without, a message that decodes and one that does not, two      *)
(* handlers.  The shortest window has both its ends inside the clock.      *)
(***************************************************************************)
EXTENDS WebhookReplay
============================================================================
