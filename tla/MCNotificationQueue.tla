------------------------ MODULE MCNotificationQueue -------------------------
(* Instances of NotificationQueue for TLC. *)
EXTENDS NotificationQueue, TLC

Request(channel, fallback, maxAttempts, delay) ==
  [channel |-> channel, fallback |-> fallback, maxAttempts |-> maxAttempts, delay |-> delay]

(* A plain job, whose fallback targets have no effect, and a scheduled     *)
(* push job that falls back to e-mail.                                     *)
MCOverlapRequests == {Request("email", {"sms"}, 2, 0), Request("push", {"email"}, 1, 1)}

(* A push job that is tried twice, and a scheduled plain job.              *)
MCMixedRequests == {Request("push", {"email"}, 2, 0), Request("sms", {"email"}, 1, 1)}

MCSymmetry == Permutations(Drains)
=============================================================================
