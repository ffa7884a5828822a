------------------------------ MODULE Delivery ------------------------------
(***************************************************************************)
(* What may become of a message the WhatsApp worker has accepted, as those *)
(* who ask for its status see it. NativeJobs.tla and Relay.tla rely on it; *)
(* Worker.tla keeps to it (WorkerProofs!MovesOnward).                      *)
(***************************************************************************)

Status == {"pending", "processing", "sent", "failed", "unknown"}

(* The statuses that may follow. Only "sent" is final: a negative          *)
(* acknowledgement may be followed by a positive one, or by a failure of   *)
(* the call that handed the message over.                                  *)
Onward(s) ==
  CASE s = "pending" -> {"processing", "failed"}
    [] s = "processing" -> {"sent", "failed", "unknown"}
    [] s = "unknown" -> {"sent", "failed"}
    [] s = "failed" -> {"sent", "unknown"}
    [] OTHER -> {}
=============================================================================
