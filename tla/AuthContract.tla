---------------------------- MODULE AuthContract ----------------------------
(***************************************************************************)
(* What tapauthd promises the PAM module about a PamAuthenticateRequest,   *)
(* and all that PamClient assumes of it: a request is answered at most     *)
(* once, with a verdict only when a phone the daemon trusts for it has     *)
(* decided so, and with the connection closed afterwards.  AuthDaemon is   *)
(* the daemon that keeps the promise.                                      *)
(***************************************************************************)
CONSTANTS
    Request,   \* the authentication requests, each on a connection of its own
    Plain      \* the replies that carry no verdict of a phone

VARIABLES
    status,    \* what the daemon has done about each request
    reply,     \* what it answered
    decided    \* <<request, decision>> a trusted phone has signed

contractVars == <<status, reply, decided>>

Decisions == {"grant", "denial"}
Replies == {"success", "denied"} \cup Plain

ContractTypeOK ==
    /\ status \in [Request -> {"new", "open", "answered"}]
    /\ reply \in [Request -> Replies \cup {"none"}]
    /\ decided \subseteq Request \X Decisions

Init ==
    /\ status = [r \in Request |-> "new"]
    /\ reply = [r \in Request |-> "none"]
    /\ decided = {}

\* The daemon accepts the connection of request r.
Submit(r) ==
    /\ status[r] = "new"
    /\ status' = [status EXCEPT ![r] = "open"]
    /\ UNCHANGED <<reply, decided>>

\* A trusted phone decides, however late.
Decide(r, d) ==
    /\ status[r] # "new"
    /\ <<r, d>> \notin decided
    /\ decided' = decided \cup {<<r, d>>}
    /\ UNCHANGED <<status, reply>>

\* What phones must have decided for the daemon to answer o.
Backed(r, o) ==
    /\ o = "success" => <<r, "grant">> \in decided
    /\ o = "denied" => <<r, "denial">> \in decided

\* The daemon writes its one response, or closes the connection without one.
Answer(r, o) ==
    /\ status[r] = "open"
    /\ Backed(r, o)
    /\ status' = [status EXCEPT ![r] = "answered"]
    /\ reply' = [reply EXCEPT ![r] = o]
    /\ UNCHANGED decided

Next ==
    \E r \in Request :
        \/ Submit(r)
        \/ \E d \in Decisions : Decide(r, d)
        \/ \E o \in Replies : Answer(r, o)

Spec == Init /\ [][Next]_contractVars

\* A request that can be answered is answered.
Answered == \A r \in Request : WF_contractVars(\E o \in Replies : Answer(r, o))

FairSpec == Spec /\ Answered

=============================================================================
