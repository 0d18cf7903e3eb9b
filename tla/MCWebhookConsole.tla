-------------------------- MODULE MCWebhookConsole --------------------------
(* Instances of WebhookConsole for TLC. *)
EXTENDS WebhookConsole, TLC

\* Pages and webhooks are interchangeable: nothing names one.
ConsoleSymmetry == Permutations(Pages) \cup Permutations(Hooks)
=============================================================================
