------------------------------ MODULE MCG8RTOS ------------------------------
(* The board's threads for TLC: a sensor thread, a control thread and idle. *)
EXTENDS G8RTOS

BootPriorities == <<2, 7, 255>>
=============================================================================
