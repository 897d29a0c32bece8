------------------------------ MODULE Locator ------------------------------
(***************************************************************************)
(* The locator (locator/locator.c): it answers searches on the LAN, and a  *)
(* search opens a session in which AT commands are taken.                  *)
(***************************************************************************)
EXTENDS Integers

CONSTANT IdleLimit     \* 30 idle turns of select (locator.c 287)

ASSUME LocatorAssumption == IdleLimit \in Nat

VARIABLES
  listening,           \* FALSE before bind() and after it failed
  atcmd_enable, atcmd_timeout,
  since                \* in a session, idle turns since the latest search

locatorVars == <<listening, atcmd_enable, atcmd_timeout, since>>

LocatorInit == listening = FALSE /\ atcmd_enable = FALSE /\ atcmd_timeout = 0 /\ since = 0

(* bind() fails: main returns, and nobody starts it again (ipconfig 85).   *)
Listen == ~listening /\ listening' = TRUE /\ UNCHANGED <<atcmd_enable, atcmd_timeout, since>>

(* The search command; the binary one is answered and changes nothing.     *)
Search ==
  /\ listening
  /\ atcmd_enable' = TRUE /\ since' = 0
  /\ UNCHANGED <<listening, atcmd_timeout>>

(* Mutant: traffic restarts the count. *)
AtMessageRestarts ==
  /\ listening /\ atcmd_enable
  /\ atcmd_timeout' = 0
  /\ UNCHANGED <<listening, atcmd_enable, since>>

(* A message in a session goes to the AT interpreter. *)
AtMessage ==
  /\ listening /\ atcmd_enable
  /\ UNCHANGED locatorVars

(* Nothing came; the count runs with and without a session.                *)
IdleTurn ==
  /\ listening
  /\ IF atcmd_timeout >= IdleLimit
     THEN atcmd_timeout' = 0 /\ atcmd_enable' = FALSE /\ since' = 0
     ELSE /\ atcmd_timeout' = atcmd_timeout + 1 /\ UNCHANGED atcmd_enable
          /\ since' = IF atcmd_enable THEN since + 1 ELSE 0
  /\ UNCHANGED listening

LocatorRestart ==
  listening' = FALSE /\ atcmd_enable' = FALSE /\ atcmd_timeout' = 0 /\ since' = 0

-----------------------------------------------------------------------------
(* The types of the variables (locator.c 137-149). *)
LocatorTypeOK ==
  /\ {listening, atcmd_enable} \subseteq BOOLEAN
  /\ atcmd_timeout \in 0 .. IdleLimit /\ since \in Nat

(* A session ends within the idle turns the code allows after the search   *)
(* that opened or renewed it, whatever AT traffic there is and wherever    *)
(* the count stood, which no search and no traffic resets (locator.c 255,  *)
(* 287).                                                                   *)
SessionEnds == atcmd_enable => since <= IdleLimit
=============================================================================
