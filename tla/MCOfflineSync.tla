--------------------------- MODULE MCOfflineSync ---------------------------
(* Small instances of OfflineSync: she receives the kit, reports, is ready. *)
EXTENDS OfflineSync, TLC

MCKind == 1 :> "receive" @@ 2 :> "progress" @@ 3 :> "ready"
=============================================================================
