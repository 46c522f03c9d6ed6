------------------------------- MODULE MCWizard -------------------------------
(* Wizard for TLC: the configuration names the hosts.                           *)
EXTENDS Wizard

===============================================================================
