---------------------------- MODULE ReloadButton ----------------------------
(***************************************************************************)
(* The reload button (gpio/gpio_work_rdy_reload.c): held for Hold polls in *)
(* a row it restores the factory settings.  The same loop feeds the        *)
(* watchdog.                                                               *)
(***************************************************************************)
EXTENDS Integers

CONSTANT Hold     \* 5 polls (gpio_work_rdy_reload.c 156)

ASSUME ButtonAssumption == Hold \in Nat \ {0}

VARIABLES
  reld_cnt,
  blinking,       \* the button is accepted, /etc/reset_param comes next
  held            \* latest polls in a row, up to Hold, that found it pressed or nothing

buttonVars == <<reld_cnt, blinking, held>>

ButtonInit == reld_cnt = 0 /\ blinking = FALSE /\ held = 0

(* What gpio_read makes of the pin: 1, 0 for pressed, -1 for no file, and  *)
(* if the file cannot be read the number in an uninitialised buffer.       *)
Values == {"pressed", "released", "unreadable", "garbage"}

ReadsPressed(v) == v \in {"pressed", "garbage"}

Remember(v) == held' = IF ~ReadsPressed(v) THEN 0 ELSE IF held < Hold THEN held + 1 ELSE Hold

Poll ==
  /\ ~blinking
  /\ \E v \in Values :
       /\ Remember(v)
       /\ IF ReadsPressed(v) /\ reld_cnt + 1 >= Hold
          THEN reld_cnt' = 0 /\ blinking' = TRUE
          ELSE reld_cnt' = (IF ReadsPressed(v) THEN reld_cnt + 1 ELSE 0)
               /\ UNCHANGED blinking

(* Five blinks, then the script; the loop goes on if the board does.       *)
ResetParam ==
  /\ blinking
  /\ blinking' = FALSE /\ held' = 0
  /\ UNCHANGED reld_cnt

ButtonRestart == reld_cnt' = 0 /\ blinking' = FALSE /\ held' = 0

-----------------------------------------------------------------------------
(* The types of the variables (gpio_work_rdy_reload.c 131-137). *)
ButtonTypeOK ==
  /\ reld_cnt \in 0 .. Hold - 1 /\ blinking \in BOOLEAN
  /\ held \in 0 .. Hold

(* The factory settings are restored only after Hold polls in a row that   *)
(* found the button pressed, or could not read the pin (128), and none of  *)
(* them counted for an earlier restore (156-158).                          *)
ResetOnlyHeld == blinking => held = Hold
=============================================================================
