----------------------------- MODULE MCKernelLog -----------------------------
(* Instance of KernelLog for TLC.                                            *)
EXTENDS KernelLog
=============================================================================
