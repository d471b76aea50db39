----------------------------- MODULE MCProcess -----------------------------
(* Process with main and two processes.                                  *)
EXTENDS Process
=============================================================================
