---------------------------- MODULE MCUfwRuleset -----------------------------
(***************************************************************************)
(* Instance of UfwRuleset for TLC: every ruleset over four chains with     *)
(* eight jumps to choose from.  Two chains are UFW's: either may be at the *)
(* end of a path, or orphaned beside one that is attached.  A chain may    *)
(* jump to itself, and all four may jump in a circle.                      *)
(***************************************************************************)
EXTENDS UfwRuleset

UfwChains == {"ufw-before-input", "ufw-user-input"}
Chains == {"INPUT", "user-input"} \cup UfwChains
Links == {<<"INPUT", "user-input">>, <<"INPUT", "ufw-before-input">>,
          <<"user-input", "user-input">>, <<"user-input", "INPUT">>,
          <<"user-input", "ufw-before-input">>,
          <<"ufw-before-input", "ufw-user-input">>,
          <<"ufw-before-input", "user-input">>, <<"ufw-user-input", "INPUT">>}
=============================================================================
