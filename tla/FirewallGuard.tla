---------------------------- MODULE FirewallGuard ----------------------------
(***************************************************************************)
(* shared/firewall.rs: the ephemeral firewall rule of one port, shared by  *)
(* all callers (authentication sessions, the pairing listener) through an  *)
(* Arc<FirewallGuard> and a Weak kept under the port's mutex.              *)
(*                                                                         *)
(* A new Arc is made only when the Weak no longer upgrades, so at any time *)
(* every strong reference is to the guard the Weak points to: the strong   *)
(* count is the number of callers that hold one.                           *)
(***************************************************************************)
EXTENDS Naturals

CONSTANTS
    Caller,      \* threads that create and drop guards of this port
    NoOne,       \* the owner of a free mutex
    Stacking,    \* TRUE: iptables, every insertion adds a rule; FALSE: firewalld
    MaxStale     \* how many failures of close_port are explored

ASSUME NoOneAssumption == NoOne \notin Caller
ASSUME StackingAssumption == Stacking \in BOOLEAN
ASSUME MaxStaleAssumption == MaxStale \in Nat

VARIABLES
    pc,      \* what each caller is doing
    lock,    \* owner of the Mutex<PortControl>
    isOpen,  \* PortControl.is_open
    rules,   \* rules for the port in the firewall
    stale    \* failures of close_port so far

vars == <<pc, lock, isOpen, rules, stale>>

\* "new", "drop": waiting for the mutex in FirewallGuard::new, do_drop_close.
\* The others but "holding" are past it: "newing", "dropping" about to upgrade
\* the Weak; "opening", "closing" in the external command; "peeking" with the
\* temporary Arc of the upgrade in do_drop_close.
States == {"idle", "new", "newing", "opening", "holding",
           "drop", "dropping", "closing", "peeking"}

\* The callers with a strong reference.
Strong == {c \in Caller : pc[c] \in {"holding", "peeking"}}

TypeOK ==
    /\ pc \in [Caller -> States]
    /\ lock \in Caller \cup {NoOne}
    /\ isOpen \in BOOLEAN
    /\ rules \in Nat
    /\ stale \in Nat

Init ==
    /\ pc = [c \in Caller |-> "idle"]
    /\ lock = NoOne
    /\ isOpen = FALSE
    /\ rules = 0
    /\ stale = 0

Goto(c, l) == pc' = [pc EXCEPT ![c] = l]

\* A caller enters FirewallGuard::new.
CallNew(c) ==
    /\ pc[c] = "idle"
    /\ Goto(c, "new")
    /\ UNCHANGED <<lock, isOpen, rules, stale>>

\* Mutant: the mutex is not waited for.
AcquireUnguarded(c) ==
    /\ pc[c] \in {"new", "drop"}
    /\ lock' = c
    /\ Goto(c, IF pc[c] = "new" THEN "newing" ELSE "dropping")
    /\ UNCHANGED <<isOpen, rules, stale>>

\* port_ctrl.lock() returned, in new or in do_drop_close.
Acquire(c) ==
    /\ pc[c] \in {"new", "drop"}
    /\ lock = NoOne
    /\ lock' = c
    /\ Goto(c, IF pc[c] = "new" THEN "newing" ELSE "dropping")
    /\ UNCHANGED <<isOpen, rules, stale>>

\* new: the Weak upgrades and the existing Arc is returned.
NewShares(c) ==
    /\ pc[c] = "newing"
    /\ Strong # {}
    /\ lock' = NoOne
    /\ Goto(c, "holding")
    /\ UNCHANGED <<isOpen, rules, stale>>

Inserted == IF Stacking THEN rules + 1 ELSE 1

\* new: there is no live guard, but the port has not been closed yet.
NewReuses(c) ==
    /\ pc[c] = "newing"
    /\ Strong = {}
    /\ isOpen
    /\ lock' = NoOne
    /\ Goto(c, "holding")
    /\ UNCHANGED <<isOpen, rules, stale>>

\* Mutant: is_open is not looked at.
NewOpensAlways(c) ==
    /\ pc[c] = "newing"
    /\ Strong = {}
    /\ Goto(c, "opening")
    /\ UNCHANGED <<lock, isOpen, rules, stale>>

\* new: there is no live guard and open_port is called.
NewOpens(c) ==
    /\ pc[c] = "newing"
    /\ Strong = {}
    /\ ~isOpen
    /\ Goto(c, "opening")
    /\ UNCHANGED <<lock, isOpen, rules, stale>>

\* open_port returned.
Opened(c) ==
    /\ pc[c] = "opening"
    /\ rules' = Inserted
    /\ isOpen' = TRUE
    /\ lock' = NoOne
    /\ Goto(c, "holding")
    /\ UNCHANGED stale

\* open_port failed and new returns its error.
OpenFails(c) ==
    /\ pc[c] = "opening"
    /\ lock' = NoOne
    /\ Goto(c, "idle")
    /\ UNCHANGED <<isOpen, rules, stale>>

\* A caller drops its Arc; the last one to do so runs Drop::drop.
Release(c) ==
    /\ pc[c] = "holding"
    /\ Goto(c, IF Strong = {c} THEN "drop" ELSE "idle")
    /\ UNCHANGED <<lock, isOpen, rules, stale>>

\* Mutant: is_open is not looked at.
DropClosesAlways(c) ==
    /\ pc[c] = "dropping"
    /\ Strong = {}
    /\ Goto(c, "closing")
    /\ UNCHANGED <<lock, isOpen, rules, stale>>

\* do_drop_close: the Weak does not upgrade.
DropCloses(c) ==
    /\ pc[c] = "dropping"
    /\ Strong = {}
    /\ isOpen
    /\ Goto(c, "closing")
    /\ UNCHANGED <<lock, isOpen, rules, stale>>

\* do_drop_close: the Weak does not upgrade and the port is closed already.
DropSkips(c) ==
    /\ pc[c] = "dropping"
    /\ Strong = {}
    /\ ~isOpen
    /\ lock' = NoOne
    /\ Goto(c, "idle")
    /\ UNCHANGED <<isOpen, rules, stale>>

\* close_port returned, ok or not; the port counts as closed in either case.
Closed(c, ok) ==
    /\ pc[c] = "closing"
    /\ ~ok => stale < MaxStale
    /\ rules' = IF ok THEN rules - 1 ELSE rules
    /\ stale' = IF ok THEN stale ELSE stale + 1
    /\ isOpen' = FALSE
    /\ lock' = NoOne
    /\ Goto(c, "idle")

\* do_drop_close: the Weak upgrades, to a temporary Arc.
DropPeeks(c) ==
    /\ pc[c] = "dropping"
    /\ Strong # {}
    /\ Goto(c, "peeking")
    /\ UNCHANGED <<lock, isOpen, rules, stale>>

\* Mutant: do_drop_close returns without the nested Drop of the temporary.
PeekEndsQuietly(c) ==
    /\ pc[c] = "peeking"
    /\ lock' = NoOne
    /\ Goto(c, "idle")
    /\ UNCHANGED <<isOpen, rules, stale>>

\* The temporary Arc is dropped at the end of the if's condition, before the
\* mutex is unlocked.  If it has become the last one, Drop::drop runs here and
\* waits for the mutex this caller owns.
PeekEnds(c) ==
    /\ pc[c] = "peeking"
    /\ IF Strong = {c}
       THEN Goto(c, "drop") /\ UNCHANGED lock
       ELSE Goto(c, "idle") /\ lock' = NoOne
    /\ UNCHANGED <<isOpen, rules, stale>>

Locked(c) ==
    \/ NewShares(c) \/ NewReuses(c) \/ NewOpens(c) \/ Opened(c) \/ OpenFails(c)
    \/ DropCloses(c) \/ DropSkips(c) \/ \E ok \in BOOLEAN : Closed(c, ok)
    \/ DropPeeks(c) \/ PeekEnds(c)

Next == \E c \in Caller : CallNew(c) \/ Acquire(c) \/ Release(c) \/ Locked(c)

Spec == Init /\ [][Next]_vars

\* A thread past the mutex runs on, and none waits for a free mutex for ever.
\* How long a guard is held is the caller's business.
Fairness == \A c \in Caller : WF_vars(Locked(c)) /\ SF_vars(Acquire(c))

FairSpec == Spec /\ Fairness

-----------------------------------------------------------------------------
(* Properties.                                                             *)

\* While anyone holds a guard the port is open, and a rule for it is in the
\* firewall: a late do_drop_close never closes the port under a guard that was
\* created after the last reference went away.
OpenWhileHeld == Strong # {} => isOpen /\ rules > 0

\* An open port always has someone who will look at closing it: a holder, or a
\* caller inside do_drop_close.
SomeoneCloses ==
    isOpen => \E c \in Caller : pc[c] \in
                            {"holding", "peeking", "drop", "dropping", "closing"}

\* The rules in the firewall are the one the open port needs and those whose
\* removal failed: new never inserts a second rule for an open port.
NoExtraRule == rules <= (IF isOpen THEN 1 ELSE 0) + stale

\* FirewallGuard::new's comment: "When the last strong reference is dropped,
\* the port is automatically closed".  Unless a new guard takes it over.
LastDropCloses == Strong = {} ~> (~isOpen \/ Strong # {})

=============================================================================
