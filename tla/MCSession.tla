------------------------------- MODULE MCSession -------------------------------
(***************************************************************************)
(* Session with the values of sftp.go, and the slowest server it copes     *)
(* with.                                                                   *)
(***************************************************************************)
EXTENDS Session
================================================================================
