----------------------------- MODULE TerminalKeys -----------------------------
(***************************************************************************)
(* Terminal with a memory: whether the plan of the live session was approved *)
(* by a key that was pressed while another surface held the keyboard.        *)
(***************************************************************************)
EXTENDS Terminal

VARIABLE stray   \* history

keysVars == <<vars, stray>>

(* The plan's gate takes a key as a yes. *)
ApprovesPlan == \E p \in posts' \ posts : p.kind = "plan" /\ p.yes /\ p.st = "sent"

KeysInit == Init /\ stray = FALSE

KeysNext ==
  /\ Next
  /\ stray' = (prompt' # None /\ (stray \/ (ApprovesPlan /\ KeyboardOwner # "dpev-panel")))

KeysSpec == KeysInit /\ [][KeysNext]_keysVars

(* App.tsx:39-41: exactly one surface holds the keyboard at any moment.  So a *)
(* plan runs only if it was approved by a key pressed while the session's      *)
(* panel held it.  But the gate's handler is always on: a key meant for an     *)
(* overlay or a side panel, as the Enter that selects a past session,          *)
(* approves the plan as well.                                                *)
PlansRunAsMeant == stray => srv.at # "running"
=============================================================================
