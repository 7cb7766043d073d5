---------------------------- MODULE MCDeskHistory -----------------------------
(***************************************************************************)
(* Small instances of the trading loop with its history.                   *)
(***************************************************************************)
EXTENDS MCDesk, DeskHistory
===============================================================================
