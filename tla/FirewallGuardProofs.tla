------------------------ MODULE FirewallGuardProofs -------------------------
(* For any number of callers: the port is open while a guard is held.       *)
EXTENDS FirewallGuard, TLAPS

\* The callers between port_ctrl.lock() and the release of its MutexGuard.
Inside == {"newing", "opening", "dropping", "closing", "peeking"}

\* The mutex excludes: whoever is past it owns it.
MutexInv == \A c \in Caller : pc[c] \in Inside => lock = c

\* A decision to open or to close, taken under the mutex because no strong
\* reference was left, still stands while the external command runs.
DecisionInv ==
    /\ \A c \in Caller : pc[c] = "opening" => Strong = {} /\ ~isOpen
    /\ \A c \in Caller : pc[c] = "closing" => Strong = {} /\ isOpen

\* The rule of an open port is in the firewall.
RuleInv == isOpen => rules > 0

\* The inductive invariant.
IInv == TypeOK /\ MutexInv /\ DecisionInv /\ RuleInv /\ OpenWhileHeld

LEMMA InitIInv == Init => IInv
<1> SUFFICES ASSUME Init PROVE IInv
  OBVIOUS
<1>1. TypeOK
  BY ZenonT(30) DEF Init, TypeOK, States
<1>2. MutexInv /\ DecisionInv
  BY DEF Init, MutexInv, DecisionInv, Inside
<1>3. Strong = {} /\ ~isOpen
  BY DEF Init, Strong
<1> QED
  BY <1>1, <1>2, <1>3 DEF IInv, RuleInv, OpenWhileHeld

\* FirewallGuard::new and do_drop_close keep the inductive invariant.
LEMMA NextIInv == IInv /\ [Next]_vars => IInv'
<1> SUFFICES ASSUME IInv, [Next]_vars PROVE IInv'
  OBVIOUS
<1> USE NoOneAssumption, StackingAssumption
      DEF IInv, TypeOK, MutexInv, DecisionInv, RuleInv, OpenWhileHeld, Strong,
          States, Inside
<1>1. ASSUME NEW c \in Caller, CallNew(c) PROVE IInv'
  BY <1>1 DEF CallNew, Goto
<1>2. ASSUME NEW c \in Caller, Acquire(c) PROVE IInv'
  BY <1>2 DEF Acquire, Goto
<1>3. ASSUME NEW c \in Caller, Release(c) PROVE IInv'
  BY <1>3 DEF Release, Goto
<1>4. ASSUME NEW c \in Caller, NewShares(c) PROVE IInv'
  BY <1>4 DEF NewShares, Goto
<1>5. ASSUME NEW c \in Caller, NewReuses(c) PROVE IInv'
  BY <1>5 DEF NewReuses, Goto
<1>6. ASSUME NEW c \in Caller, NewOpens(c) PROVE IInv'
  BY <1>6 DEF NewOpens, Goto
<1>7. ASSUME NEW c \in Caller, Opened(c) PROVE IInv'
  BY <1>7 DEF Opened, Inserted, Goto
<1>8. ASSUME NEW c \in Caller, OpenFails(c) PROVE IInv'
  BY <1>8 DEF OpenFails, Goto
<1>9. ASSUME NEW c \in Caller, DropCloses(c) PROVE IInv'
  BY <1>9 DEF DropCloses, Goto
<1>10. ASSUME NEW c \in Caller, DropSkips(c) PROVE IInv'
  BY <1>10 DEF DropSkips, Goto
<1>11. ASSUME NEW c \in Caller, NEW ok \in BOOLEAN, Closed(c, ok) PROVE IInv'
  <2>1. rules - 1 \in Nat /\ stale + 1 \in Nat
    BY <1>11 DEF Closed
  <2>2. TypeOK'
    BY ZenonT(30), <1>11, <2>1 DEF Closed, Goto
  <2>3. Strong' = {}
    BY <1>11 DEF Closed, Goto
  <2>4. MutexInv' /\ DecisionInv'
    BY <1>11 DEF Closed, Goto
  <2>5. ~isOpen'
    BY <1>11 DEF Closed
  <2> QED
    BY <2>2, <2>3, <2>4, <2>5
<1>12. ASSUME NEW c \in Caller, DropPeeks(c) PROVE IInv'
  BY <1>12 DEF DropPeeks, Goto
<1>13. ASSUME NEW c \in Caller, PeekEnds(c) PROVE IInv'
  BY <1>13 DEF PeekEnds, Goto
<1>14. CASE UNCHANGED vars
  BY <1>14 DEF vars
<1> QED
  BY <1>1, <1>2, <1>3, <1>4, <1>5, <1>6, <1>7, <1>8, <1>9, <1>10, <1>11,
     <1>12, <1>13, <1>14 DEF Next, Locked

\* The state of the port's PortControl and of the callers keeps its type; that
\* a rule is never removed twice (rules stays a natural) needs the invariant.
THEOREM TypeCorrect == Spec => []TypeOK
<1>1. IInv => TypeOK
  BY DEF IInv
<1> QED
  BY InitIInv, NextIInv, <1>1, PTL DEF Spec

\* Whoever holds a guard has an open port with a rule in the firewall, however
\* new and do_drop_close interleave (FirewallGuard::new, do_drop_close).
THEOREM PortOpenWhileHeld == Spec => []OpenWhileHeld
<1>1. IInv => OpenWhileHeld
  BY DEF IInv
<1> QED
  BY InitIInv, NextIInv, <1>1, PTL DEF Spec

\* FirewallGuard::new inserts no second rule for an open port.
THEOREM RulesAccountedFor == Spec => []NoExtraRule
<1>1. Init => NoExtraRule
  BY DEF Init, NoExtraRule
<1>2. IInv /\ NoExtraRule /\ [Next]_vars => NoExtraRule'
  <2> SUFFICES ASSUME IInv, NoExtraRule, [Next]_vars PROVE NoExtraRule'
    OBVIOUS
  <2> USE StackingAssumption DEF NoExtraRule, IInv, TypeOK
  <2>1. ASSUME NEW c \in Caller, Opened(c) PROVE NoExtraRule'
    BY <2>1 DEF Opened, Inserted, DecisionInv
  <2>2. ASSUME NEW c \in Caller, NEW ok \in BOOLEAN, Closed(c, ok)
        PROVE NoExtraRule'
    BY <2>2 DEF Closed, DecisionInv
  <2>3. CASE UNCHANGED <<isOpen, rules, stale>>
    BY <2>3
  <2> QED
    BY <2>1, <2>2, <2>3 DEF Next, Locked, vars, CallNew, Acquire, Release,
       NewShares, NewReuses, NewOpens, OpenFails, DropCloses, DropSkips,
       DropPeeks, PeekEnds
<1> QED
  BY InitIInv, NextIInv, <1>1, <1>2, PTL DEF Spec

\* The responsibility for closing an open port is never lost: it passes from a
\* holder to the caller that runs Drop::drop, or stays with another holder.
THEOREM ResponsibilityKept == Spec => []SomeoneCloses
<1>1. Init => SomeoneCloses
  BY DEF Init, SomeoneCloses
<1>2. IInv /\ SomeoneCloses /\ [Next]_vars => SomeoneCloses'
  <2> SUFFICES ASSUME IInv, SomeoneCloses, [Next]_vars PROVE SomeoneCloses'
    OBVIOUS
  <2> USE DEF IInv, TypeOK, States, SomeoneCloses, Strong, Goto
  <2>1. ASSUME NEW c \in Caller, CallNew(c) \/ Acquire(c) \/ Release(c)
        PROVE SomeoneCloses'
    BY ZenonT(30), <2>1 DEF CallNew, Acquire, Release
  <2>2. ASSUME NEW c \in Caller,
               NewShares(c) \/ NewReuses(c) \/ NewOpens(c) \/ Opened(c)
        PROVE SomeoneCloses'
    BY ZenonT(30), <2>2 DEF NewShares, NewReuses, NewOpens, Opened
  <2>3. ASSUME NEW c \in Caller, OpenFails(c) PROVE SomeoneCloses'
    BY <2>3 DEF OpenFails, DecisionInv
  <2>4. ASSUME NEW c \in Caller, NEW ok \in BOOLEAN, Closed(c, ok)
        PROVE SomeoneCloses'
    BY <2>4 DEF Closed
  <2>5. ASSUME NEW c \in Caller, DropCloses(c) \/ DropSkips(c) \/ DropPeeks(c)
        PROVE SomeoneCloses'
    BY ZenonT(30), <2>5 DEF DropCloses, DropSkips, DropPeeks
  <2>6. ASSUME NEW c \in Caller, PeekEnds(c) PROVE SomeoneCloses'
    BY <2>6 DEF PeekEnds
  <2>7. CASE UNCHANGED vars
    BY <2>7 DEF vars
  <2> QED
    BY <2>1, <2>2, <2>3, <2>4, <2>5, <2>6, <2>7 DEF Next, Locked
<1> QED
  BY InitIInv, NextIInv, <1>1, <1>2, PTL DEF Spec

-----------------------------------------------------------------------------
(* The mutex, and the one way in which it is lost.                         *)

\* A caller waits in the nested Drop::drop for the mutex that it owns.
SelfLocked(c) == pc[c] = "drop" /\ lock = c

\* A mutex that is not free belongs to a caller that is past it and will
\* release it, or to one that waits for itself.
OwnerRunsOn ==
    \A c \in Caller : lock = c => pc[c] \in Inside \/ SelfLocked(c)

\* Nothing gets past a mutex that is lost: nobody takes it, and the port stays
\* as it is.
LostForGood ==
    \A c \in Caller :
       SelfLocked(c) => /\ SelfLocked(c)' /\ UNCHANGED <<isOpen, rules, stale>>
                        /\ \A d \in Caller : pc'[d] \in Inside => pc[d] \in Inside

LEMMA OwnerNext == IInv /\ OwnerRunsOn /\ [Next]_vars => OwnerRunsOn'
<1> SUFFICES ASSUME IInv, OwnerRunsOn, [Next]_vars PROVE OwnerRunsOn'
  OBVIOUS
<1> USE NoOneAssumption DEF OwnerRunsOn, SelfLocked, IInv, TypeOK, MutexInv, States, Inside
<1>1. ASSUME NEW c \in Caller, CallNew(c) PROVE OwnerRunsOn'
  BY <1>1 DEF CallNew, Goto
<1>2. ASSUME NEW c \in Caller, Acquire(c) PROVE OwnerRunsOn'
  BY <1>2 DEF Acquire, Goto
<1>3. ASSUME NEW c \in Caller, Release(c) PROVE OwnerRunsOn'
  BY <1>3 DEF Release, Goto
<1>4. ASSUME NEW c \in Caller, NewOpens(c) \/ DropCloses(c) \/ DropPeeks(c) PROVE OwnerRunsOn'
  BY <1>4 DEF NewOpens, DropCloses, DropPeeks, Goto
<1>5. ASSUME NEW c \in Caller, PeekEnds(c) PROVE OwnerRunsOn'
  BY <1>5 DEF PeekEnds, Goto
<1>6. CASE lock' = NoOne
  BY <1>6
<1>7. CASE UNCHANGED vars
  BY <1>7 DEF vars
<1> QED
  BY <1>1, <1>2, <1>3, <1>4, <1>5, <1>6, <1>7 DEF Next, Locked, NewShares, NewReuses,
     Opened, OpenFails, DropSkips, Closed

\* The nested Drop::drop of PeekEnds is the only way to lose the mutex: in
\* every other state its owner is past it and on its way to release it
\* (FirewallGuard::new, do_drop_close).
THEOREM OnlyTheNestedDrop == Spec => []OwnerRunsOn
<1>1. Init => OwnerRunsOn
  BY NoOneAssumption DEF Init, OwnerRunsOn
<1> QED
  BY InitIInv, NextIInv, <1>1, OwnerNext, PTL DEF Spec

\* Once it has happened it is for good, for every caller of the port: no new
\* guard is made, none is closed and the rule stays.  It is the general form of
\* what the run of the last drop shows on one behaviour (do_drop_close).
THEOREM NestedDropIsForever == Spec => [][LostForGood]_vars
<1>1. IInv /\ [Next]_vars => LostForGood
  <2> SUFFICES ASSUME IInv, [Next]_vars, NEW c \in Caller, SelfLocked(c)
               PROVE  /\ SelfLocked(c)' /\ UNCHANGED <<isOpen, rules, stale>>
                      /\ \A d \in Caller : pc'[d] \in Inside => pc[d] \in Inside
    BY DEF LostForGood
  <2>1. \A d \in Caller : pc[d] \notin Inside
    BY DEF SelfLocked, IInv, MutexInv, Inside
  <2>2. lock # NoOne /\ pc \in [Caller -> States] /\ pc[c] = "drop" /\ lock = c
    BY NoOneAssumption DEF SelfLocked, IInv, TypeOK
  <2>3. ASSUME NEW d \in Caller, CallNew(d) \/ Release(d)
        PROVE  /\ SelfLocked(c)' /\ UNCHANGED <<isOpen, rules, stale>>
               /\ \A e \in Caller : pc'[e] \in Inside => pc[e] \in Inside
    BY <2>2, <2>3 DEF CallNew, Release, Goto, SelfLocked, Inside
  <2>4. ASSUME NEW d \in Caller, Acquire(d) \/ Locked(d) PROVE FALSE
    BY <2>1, <2>2, <2>4 DEF Acquire, Locked, NewShares, NewReuses, NewOpens, Opened, OpenFails,
       DropCloses, DropSkips, Closed, DropPeeks, PeekEnds, Inside
  <2>5. CASE UNCHANGED vars
    BY <2>2, <2>5 DEF vars, SelfLocked
  <2> QED
    BY <2>3, <2>4, <2>5 DEF Next
<1> QED
  BY InitIInv, NextIInv, <1>1, PTL DEF Spec

=============================================================================
