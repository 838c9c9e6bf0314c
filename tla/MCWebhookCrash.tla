-------------------------- MODULE MCWebhookCrash ---------------------------
(***************************************************************************)
(* Webhook deliveries alone, without the endpoints beside them: one        *)
(* endpoint, one delivery, one worker, and one fault.  The constants are   *)
(* given in MCWebhookCrash.cfg.                                            *)
(***************************************************************************)
EXTENDS WebhookDelivery

============================================================================
