-------------------------- MODULE MCRuntimeWebhook --------------------------
(***************************************************************************)
(* Model checking of RuntimeWebhook on small instances.                    *)
(***************************************************************************)
EXTENDS RuntimeWebhook

MsgOnly  == {{"message.received"}}
ConnAlso == {{"connection.changed"}, {"storage.warning"}}
AllKinds == {Kinds}
=============================================================================
