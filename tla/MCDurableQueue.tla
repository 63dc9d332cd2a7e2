--------------------------- MODULE MCDurableQueue ---------------------------
(* Instances of DurableQueue for TLC. *)
EXTENDS DurableQueue

MCDurableRequests ==
  {[channel |-> "email", fallback |-> {}, maxAttempts |-> 2, delay |-> 0],
   [channel |-> "push", fallback |-> {"sms"}, maxAttempts |-> 1, delay |-> 0]}

MCEmailRequest == {[channel |-> "email", fallback |-> {}, maxAttempts |-> 1, delay |-> 0]}
=============================================================================
