--------------------------- MODULE MCUploadBatch ---------------------------
(* One batch key. *)
EXTENDS UploadBatch
AnyFault == {"fail", "redis", "crash"}
Slow == {"slow"}
=============================================================================
