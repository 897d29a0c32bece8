----------------------------- MODULE MCUpgrades -----------------------------
(***************************************************************************)
(* The programs of the web server, one behaviour each: the firmware page   *)
(* beside the remote manager (Upgrades), and the posted forms (WebForm),   *)
(* which share nothing with them.                                          *)
(***************************************************************************)
EXTENDS Upgrades, WebForm

VARIABLE side

MCQuery == <<"mac", "ver">>
MCAsked == {<<"mac">>, <<"uart">>}
MCContent == {<<>>, <<"sock">>}

(* "a", "n" and "m", a letter that is not ASCII; a value that arrives too  *)
(* long, one with "=" and "%", one with "+", and one with ".json".         *)
MCValues == {<<97, 97, 38, 38>>} \cup UNION {[1 .. n -> {97, 32, 38, 229}] : n \in 0 .. 2}
MCFields ==
  {<< <<110>>, v>> : v \in MCValues}
    \cup {<< <<109>>, v>> : v \in {<<97>>, <<61, 37>>, <<43>>, <<Json>>}}
MCForms ==
  [target : {"uci", "file"}, fields : UNION {[1 .. n -> MCFields] : n \in 1 .. 2}]
    \cup [target : {"json"}, fields : {<< << <<110>>, <<Json>> >> >>}]
MCLines ==
  {<< <<"text", <<97>> >>, <<"tag", <<110>> >>, <<"text", <<98>> >>, <<"tag", <<109>> >>,
      <<"tag", <<110>> >>, <<"text", <<99>> >> >>}

OneForm == form = [target |-> "uci", fields |-> << << <<110>>, <<97>> >> >>] /\ input = << >>
OneSetting == enabled = {"update"}

MCInit ==
  /\ Init
  /\ \/ side = "upgrades" /\ OneForm
     \/ side = "form" /\ OneSetting
  /\ FormInit

UpgradesSide == side = "upgrades" /\ Next /\ UNCHANGED <<side, formVars>>
FormSide     == side = "form" /\ FormNext /\ UNCHANGED <<side, vars>>

MCNext == UpgradesSide \/ FormSide

MCSpec == MCInit /\ [][MCNext]_<<side, vars, formVars>>
=============================================================================
