----------------------------- MODULE MCQueueFeed -----------------------------
(* One zone whose queue sees up to three items, with a reconnect or a crash *)
(* and one event in flight beside the one that is handled.                  *)
EXTENDS QueueFeed
=============================================================================
