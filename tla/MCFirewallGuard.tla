-------------------------- MODULE MCFirewallGuard ---------------------------
(* Small instances of FirewallGuard. *)
EXTENDS FirewallGuard, TLC

CONSTANTS c1, c2, c3

CallerSymmetry == Permutations(Caller)

=============================================================================
