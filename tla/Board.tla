------------------------------- MODULE Board -------------------------------
(***************************************************************************)
(* The board around the serial servers: the locator, whose AT sessions     *)
(* reach the factory block like the console's do, the reload button, and   *)
(* the restarts that cut all of it short.                                  *)
(***************************************************************************)
EXTENDS Factory, Locator, ReloadButton

CONSTANTS LocatorAgent,    \* the locator's interpreter among the agents
          MaxRestarts      \* bound

ASSUME BoardAssumption == LocatorAgent \in Agent /\ MaxRestarts \in Nat

VARIABLE restarts

vars == <<factoryVars, locatorVars, buttonVars, restarts>>

Init == FactoryInit /\ LocatorInit /\ ButtonInit /\ restarts = 0

(* The console takes AT commands at any time, the locator in a session; it *)
(* does nothing else meanwhile.                                            *)
CommandOf(a) ==
  /\ a # LocatorAgent => UNCHANGED locatorVars
  /\ a = LocatorAgent => AtMessage
  /\ Set(a) \/ Ask(a)
  /\ UNCHANGED <<buttonVars, restarts>>

FactoryWork ==
  /\ \E a \in Agent : FactoryStep(a)
  /\ UNCHANGED <<locatorVars, buttonVars, restarts>>

LocatorTurn ==
  /\ ~Busy(LocatorAgent)
  /\ Listen \/ Search \/ IdleTurn
  /\ UNCHANGED <<factoryVars, buttonVars, restarts>>

Button ==
  /\ Poll \/ ResetParam
  /\ UNCHANGED <<factoryVars, locatorVars, restarts>>

(* Power, AT+Z, or the script /etc/reset_param, outside the sources.       *)
Restart ==
  /\ restarts < MaxRestarts /\ restarts' = restarts + 1
  /\ FactoryRestart /\ LocatorRestart /\ ButtonRestart

Next ==
  \/ \E a \in Agent : CommandOf(a)
  \/ FactoryWork \/ LocatorTurn \/ Button \/ Restart

Spec == Init /\ [][Next]_vars

-----------------------------------------------------------------------------
(* The types of the variables. *)
TypeOK ==
  /\ FactoryTypeOK /\ LocatorTypeOK /\ ButtonTypeOK
  /\ restarts \in 0 .. MaxRestarts
=============================================================================
