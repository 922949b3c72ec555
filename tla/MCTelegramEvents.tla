--------------------------- MODULE MCTelegramEvents ---------------------------
(***************************************************************************)
(* Two workers that overlap, two events, two attempts.                     *)
(***************************************************************************)
EXTENDS TelegramEvents
=============================================================================
