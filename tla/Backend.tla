-------------------------------- MODULE Backend --------------------------------
(***************************************************************************)
(* What downloads and listings of one connection have in common.           *)
(***************************************************************************)

VARIABLE backend       \* --backup-type: the connector, "s3", "gcs" or "sftp"
================================================================================
