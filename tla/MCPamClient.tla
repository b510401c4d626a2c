---------------------------- MODULE MCPamClient ----------------------------
(* Small instances of PamClient. *)
EXTENDS PamClient

H(program, proc, reauth, tty) ==
    [program |-> program, proc |-> proc, reauth |-> reauth, tty |-> tty]

\* A terminal, GDM unlocking (threaded for its own service, a plain graphical
\* host for another), and a host that collects the password.
SomeHosts ==
    {H("other", TRUE, FALSE, TRUE), H("gdm-session-worker", TRUE, TRUE, FALSE),
     H("swaylock", TRUE, FALSE, FALSE)}

=============================================================================
