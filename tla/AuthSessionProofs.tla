-------------------------- MODULE AuthSessionProofs --------------------------
(***************************************************************************)
(* How a session of AuthDaemon ends, for all sessions, users, phones,      *)
(* daemon states and configurations: which tasks still run, what has       *)
(* failed, who has been told and what has been confirmed.                  *)
(***************************************************************************)
EXTENDS AuthDaemonProofs

\* The handler has not started the transports, and the answers it gives then.
EarlyPhases == {"idle", "accepted", "firewall", "init"}
EarlyAnswers == {"closed", "duplicate", "ineligible", "error"}

\* Before its transports start a session has no task, has asked nobody and
\* confirmed nothing; only an answer gives it an outcome.
NotStarted(s) ==
    /\ phase[s] = "done" <=> outcome[s] # "none"
    /\ phase[s] \in EarlyPhases \/ outcome[s] \in EarlyAnswers
         => /\ task[s]["ble"] = "none" /\ task[s]["udp"] = "none"
            /\ noticed[s] = {}
            /\ <<s, "udp">> \notin asked
            /\ <<s, "udp">> \notin confirmed

\* await_auth_result counts only failures, and gives up on the second.
FailuresSeen(s) ==
    /\ "ble" \in noticed[s] => task[s]["ble"] = "failed"
    /\ "udp" \in noticed[s] => task[s]["udp"] = "failed"
    /\ outcome[s] = "failed" => "ble" \in noticed[s] /\ "udp" \in noticed[s]

\* Once a verdict is taken, or the session is answered before its timeout, no
\* task runs.
Stopped(s) ==
    phase[s] \in {"granting", "denying"} \/ (phase[s] = "done" /\ outcome[s] # "timeout")
        => /\ task[s]["ble"] \notin {"send", "recv"}
           /\ task[s]["udp"] \notin {"send", "recv"}

\* Only a session with the network on has a UDP task, and whatever ends it
\* then leaves a cancel behind.
Told(s) ==
    /\ task[s]["udp"] \in {"send", "recv"} \/ <<s, "udp">> \in asked => enabled[s].network
    /\ (phase[s] = "draining" \/ outcome[s] \in {"success", "denied", "cancelled", "timeout"})
         /\ enabled[s].network => s \in cancelSent \/ s \in cancelDue

\* Over UDP a confirmation goes with the verdict that ends the task.
Confirmed(s) ==
    <<s, "udp">> \in confirmed => task[s]["udp"] \in {"granted", "denied"}

Orderly(s) ==
    NotStarted(s) /\ FailuresSeen(s) /\ Stopped(s) /\ Told(s) /\ Confirmed(s)

AllOrderly == \A s \in Session : Orderly(s)

LEMMA OrderlyInit == Init => AllOrderly
BY DEF Init, AllOrderly, Orderly, NotStarted, FailuresSeen, Stopped, Told, Confirmed,
       EarlyPhases, EarlyAnswers, NoTasks, Transport

\* What is known of session x does not depend on the others: a step that keeps
\* its handler and its tasks, and takes back no cancel, keeps it.
Kept(x) ==
    /\ phase'[x] = phase[x] /\ outcome'[x] = outcome[x] /\ enabled'[x] = enabled[x]
    /\ task'[x] = task[x] /\ noticed'[x] = noticed[x]
    /\ <<x, "udp">> \in asked' <=> <<x, "udp">> \in asked
    /\ <<x, "udp">> \in confirmed' <=> <<x, "udp">> \in confirmed
    /\ x \in cancelSent \/ x \in cancelDue => x \in cancelSent' \/ x \in cancelDue'

LEMMA KeptOrderly == ASSUME NEW x, Orderly(x), Kept(x) PROVE Orderly(x)'
BY DEF Kept, Orderly, NotStarted, FailuresSeen, Stopped, Told, Confirmed

\* A step of session s alone.
LEMMA OneOrderly ==
  ASSUME AllOrderly, NEW s \in Session, Orderly(s)',
         \A x \in Session \ {s} : Kept(x)
  PROVE  AllOrderly'
BY Zenon, KeptOrderly DEF AllOrderly

\* One step per action; those that touch no session are taken together.
LEMMA OrderlyNext == TypeOK /\ AllOrderly /\ [Next]_vars => AllOrderly'
<1> SUFFICES ASSUME TypeOK, AllOrderly, [Next]_vars PROVE AllOrderly'
  BY Zenon
<1> USE DEF envVars, pamVars, taskVars, cancelVars, netVars
<1>0. ASSUME UNCHANGED <<phase, outcome, enabled, task, noticed, asked, confirmed,
                         cancelSent, cancelDue>>
      PROVE  AllOrderly'
  BY Zenon, <1>0, KeptOrderly DEF AllOrderly, Kept
<1>1. ASSUME NEW s \in Session, Accept(s) PROVE AllOrderly'
  <2>1. \A x \in Session \ {s} : Kept(x)
    BY Zenon, <1>1 DEF TypeOK, Kept, Accept
  <2>2. Orderly(s)'
    BY Zenon, <1>1 DEF TypeOK, AllOrderly, Orderly, NotStarted, FailuresSeen, Stopped,
            Told, Confirmed, EarlyPhases, EarlyAnswers, Accept
  <2> QED
    BY Zenon, <2>1, <2>2, OneOrderly
<1>2. ASSUME NEW s \in Session, ReadFailed(s) PROVE AllOrderly'
  <2>1. \A x \in Session \ {s} : Kept(x)
    BY Zenon, <1>2 DEF TypeOK, Kept, ReadFailed, Respond
  <2>2. Orderly(s)'
    BY Zenon, <1>2 DEF TypeOK, AllOrderly, Orderly, NotStarted, FailuresSeen, Stopped,
            Told, Confirmed, EarlyPhases, EarlyAnswers, ReadFailed, Respond
  <2> QED
    BY Zenon, <2>1, <2>2, OneOrderly
<1>3. ASSUME NEW s \in Session, RejectDuplicate(s) PROVE AllOrderly'
  <2>1. \A x \in Session \ {s} : Kept(x)
    BY Zenon, <1>3 DEF TypeOK, Kept, RejectDuplicate, Respond
  <2>2. Orderly(s)'
    BY Zenon, <1>3 DEF TypeOK, AllOrderly, Orderly, NotStarted, FailuresSeen, Stopped,
            Told, Confirmed, EarlyPhases, EarlyAnswers, RejectDuplicate, Respond
  <2> QED
    BY Zenon, <2>1, <2>2, OneOrderly
<1>4. ASSUME NEW s \in Session, Authenticate(s) PROVE AllOrderly'
  <2>0. EarlyOutcome(s, toggles) \in {"none", "ineligible", "error"}
    BY Zenon DEF EarlyOutcome
  <2>1. \A x \in Session \ {s} : Kept(x)
    BY Zenon, <1>4, <2>0 DEF TypeOK, Kept, Authenticate, Respond
  <2>2. Orderly(s)'
    BY <1>4, <2>0 DEF TypeOK, AllOrderly, Orderly, NotStarted, FailuresSeen, Stopped,
            Told, Confirmed, EarlyPhases, EarlyAnswers, Authenticate, Respond
  <2> QED
    BY Zenon, <2>1, <2>2, OneOrderly
<1>5. ASSUME NEW s \in Session, FirewallReady(s) PROVE AllOrderly'
  <2>1. \A x \in Session \ {s} : Kept(x)
    BY Zenon, <1>5 DEF TypeOK, Kept, FirewallReady
  <2>2. Orderly(s)'
    BY Zenon, <1>5 DEF TypeOK, AllOrderly, Orderly, NotStarted, FailuresSeen, Stopped,
            Told, Confirmed, EarlyPhases, EarlyAnswers, FirewallReady
  <2> QED
    BY Zenon, <2>1, <2>2, OneOrderly
<1>6. ASSUME NEW s \in Session, NEW bleUp \in BOOLEAN,
             StartTransports(s, bleUp)
      PROVE  AllOrderly'
  <2>1. \A x \in Session \ {s} : Kept(x)
    BY Zenon, <1>6 DEF TypeOK, Kept, StartTransports, Transport
  <2>2. Orderly(s)'
    BY Zenon, <1>6 DEF TypeOK, AllOrderly, Orderly, NotStarted, FailuresSeen, Stopped,
            Told, Confirmed, EarlyPhases, EarlyAnswers, StartTransports, Transport
  <2> QED
    BY Zenon, <2>1, <2>2, OneOrderly
<1>7. ASSUME NEW s \in Session, NEW t \in Transport,
             TaskSend(s, t)
      PROVE  AllOrderly'
  <2>1. \A x \in Session \ {s} : Kept(x)
    BY Zenon, <1>7 DEF TypeOK, Kept, TaskSend, SetTask
  <2>2. Orderly(s)'
    BY <1>7 DEF TypeOK, AllOrderly, Orderly, NotStarted, FailuresSeen, Stopped,
            Told, Confirmed, EarlyPhases, EarlyAnswers, TaskSend, SetTask
  <2> QED
    BY Zenon, <2>1, <2>2, OneOrderly
<1>8. ASSUME NEW s \in Session, TaskSendFails(s) PROVE AllOrderly'
  <2>1. \A x \in Session \ {s} : Kept(x)
    BY Zenon, <1>8 DEF TypeOK, Kept, TaskSendFails, SetTask
  <2>2. Orderly(s)'
    BY <1>8 DEF TypeOK, AllOrderly, Orderly, NotStarted, FailuresSeen, Stopped,
            Told, Confirmed, EarlyPhases, EarlyAnswers, TaskSendFails, SetTask
  <2> QED
    BY Zenon, <2>1, <2>2, OneOrderly
<1>9. ASSUME NEW s \in Session, NEW t \in Transport,
             TaskRetry(s, t)
      PROVE  AllOrderly'
  <2>1. \A x \in Session \ {s} : Kept(x)
    BY Zenon, <1>9 DEF TypeOK, Kept, TaskRetry, SetTask
  <2>2. Orderly(s)'
    BY <1>9 DEF TypeOK, AllOrderly, Orderly, NotStarted, FailuresSeen, Stopped,
            Told, Confirmed, EarlyPhases, EarlyAnswers, TaskRetry, SetTask
  <2> QED
    BY Zenon, <2>1, <2>2, OneOrderly
<1>10. ASSUME NEW s \in Session, NEW t \in Transport,
             TaskExpire(s, t)
      PROVE  AllOrderly'
  <2>1. \A x \in Session \ {s} : Kept(x)
    BY Zenon, <1>10 DEF TypeOK, Kept, TaskExpire, SetTask
  <2>2. Orderly(s)'
    BY <1>10 DEF TypeOK, AllOrderly, Orderly, NotStarted, FailuresSeen, Stopped,
            Told, Confirmed, EarlyPhases, EarlyAnswers, TaskExpire, SetTask
  <2> QED
    BY Zenon, <2>1, <2>2, OneOrderly
<1>11. ASSUME NEW s \in Session, NEW t \in Transport, NEW d,
             RecvCorrupt(s, t, d)
      PROVE  AllOrderly'
  <2>1. \A x \in Session \ {s} : Kept(x)
    BY Zenon, <1>11 DEF TypeOK, Kept, RecvCorrupt, SetTask
  <2>2. /\ phase'[s] = phase[s] /\ outcome'[s] = outcome[s] /\ enabled'[s] = enabled[s]
        /\ noticed'[s] = noticed[s] /\ task[s][t] = "recv"
        /\ UNCHANGED <<asked, confirmed, cancelSent, cancelDue>>
    BY Zenon, <1>11 DEF RecvCorrupt
  <2>3. CASE t = "udp"
    <3>1. task'[s]["udp"] = "failed" /\ task'[s]["ble"] = task[s]["ble"]
      BY SMTT(30), <1>11, <2>3 DEF TypeOK, Transport, RecvCorrupt, SetTask
    <3>2. Orderly(s)'
      BY <2>2, <2>3, <3>1 DEF AllOrderly, Orderly, NotStarted, FailuresSeen, Stopped,
              Told, Confirmed
    <3> QED
      BY Zenon, <2>1, <3>2, OneOrderly
  <2>4. CASE t = "ble"
    <3>1. task'[s]["ble"] = task[s]["ble"] /\ task'[s]["udp"] = task[s]["udp"]
      BY Zenon, <1>11, <2>4 DEF TypeOK, Transport, RecvCorrupt, SetTask
    <3>2. Orderly(s)'
      BY <2>2, <3>1 DEF AllOrderly, Orderly, NotStarted, FailuresSeen, Stopped,
              Told, Confirmed
    <3> QED
      BY Zenon, <2>1, <3>2, OneOrderly
  <2> QED
    BY Zenon, <2>3, <2>4 DEF Transport
<1>12. ASSUME NEW s \in Session, NEW t \in Transport, NEW d,
             RecvForeign(s, t, d)
      PROVE  AllOrderly'
  <2>1. \A x \in Session \ {s} : Kept(x)
    BY Zenon, <1>12 DEF TypeOK, Kept, RecvForeign, SetTask
  <2>2. Orderly(s)'
    BY <1>12 DEF TypeOK, AllOrderly, Orderly, NotStarted, FailuresSeen, Stopped,
            Told, Confirmed, EarlyPhases, EarlyAnswers, RecvForeign, SetTask
  <2> QED
    BY Zenon, <2>1, <2>2, OneOrderly
<1>13. ASSUME NEW s \in Session, NEW t \in Transport, NEW d,
             RecvVerdict(s, t, d)
      PROVE  AllOrderly'
  <2>1. \A x \in Session \ {s} : Kept(x)
    BY Zenon, <1>13 DEF TypeOK, Kept, RecvVerdict, SetTask
  <2>2. Orderly(s)'
    BY <1>13 DEF TypeOK, AllOrderly, Orderly, NotStarted, FailuresSeen, Stopped,
            Told, Confirmed, EarlyPhases, EarlyAnswers, RecvVerdict, SetTask
  <2> QED
    BY Zenon, <2>1, <2>2, OneOrderly
<1>14. ASSUME NEW s \in Session, NEW t \in Transport,
             AwaitVerdict(s, t)
      PROVE  AllOrderly'
  <2>1. \A x \in Session \ {s} : Kept(x)
    BY Zenon, <1>14 DEF TypeOK, Kept, AwaitVerdict, Abort, Running, Transport
  <2>2. Orderly(s)'
    BY <1>14 DEF TypeOK, AllOrderly, Orderly, NotStarted, FailuresSeen, Stopped,
            Told, Confirmed, EarlyPhases, EarlyAnswers, AwaitVerdict, Abort, Running, Transport
  <2> QED
    BY Zenon, <2>1, <2>2, OneOrderly
<1>15. ASSUME NEW s \in Session, NEW t \in Transport,
             AwaitFailure(s, t)
      PROVE  AllOrderly'
  <2>1. \A x \in Session \ {s} : Kept(x)
    BY <1>15 DEF TypeOK, Kept, AwaitFailure, Respond, Transport
  <2>2. Orderly(s)'
    BY <1>15 DEF TypeOK, AllOrderly, Orderly, NotStarted, FailuresSeen, Stopped,
            Told, Confirmed, EarlyPhases, EarlyAnswers, AwaitFailure, Respond, Transport
  <2> QED
    BY Zenon, <2>1, <2>2, OneOrderly
<1>16. ASSUME NEW s \in Session, Close(s) PROVE AllOrderly'
  <2>1. \A x \in Session \ {s} : Kept(x)
    BY Zenon, <1>16 DEF TypeOK, Kept, Close, Respond, MulticastCancel
  <2>2. Orderly(s)'
    BY Zenon, <1>16 DEF TypeOK, AllOrderly, Orderly, NotStarted, FailuresSeen, Stopped,
            Told, Confirmed, EarlyPhases, EarlyAnswers, Close, Respond, MulticastCancel
  <2> QED
    BY Zenon, <2>1, <2>2, OneOrderly
<1>17. ASSUME NEW s \in Session, CancelReceived(s) PROVE AllOrderly'
  <2>1. \A x \in Session \ {s} : Kept(x)
    BY Zenon, <1>17 DEF TypeOK, Kept, CancelReceived, MulticastCancel
  <2>2. Orderly(s)'
    BY Zenon, <1>17 DEF TypeOK, AllOrderly, Orderly, NotStarted, FailuresSeen, Stopped,
            Told, Confirmed, EarlyPhases, EarlyAnswers, CancelReceived, MulticastCancel
  <2> QED
    BY Zenon, <2>1, <2>2, OneOrderly
<1>18. ASSUME NEW s \in Session, CancelFinish(s) PROVE AllOrderly'
  <2>1. \A x \in Session \ {s} : Kept(x)
    BY Zenon, <1>18 DEF TypeOK, Kept, CancelFinish, Respond, Abort, Running, Transport
  <2>2. Orderly(s)'
    BY <1>18 DEF TypeOK, AllOrderly, Orderly, NotStarted, FailuresSeen, Stopped,
            Told, Confirmed, EarlyPhases, EarlyAnswers, CancelFinish, Respond, Abort, Running, Transport
  <2> QED
    BY Zenon, <2>1, <2>2, OneOrderly
<1>19. ASSUME NEW s \in Session, Timeout(s) PROVE AllOrderly'
  <2>1. \A x \in Session \ {s} : Kept(x)
    BY Zenon, <1>19 DEF TypeOK, Kept, Timeout, Respond
  <2>2. Orderly(s)'
    BY Zenon, <1>19 DEF TypeOK, AllOrderly, Orderly, NotStarted, FailuresSeen, Stopped,
            Told, Confirmed, EarlyPhases, EarlyAnswers, Timeout, Respond
  <2> QED
    BY Zenon, <2>1, <2>2, OneOrderly
<1>20. ASSUME NEW s \in Session, TimeoutCancel(s) PROVE AllOrderly'
  <2>1. \A x \in Session \ {s} : Kept(x)
    BY Zenon, <1>20 DEF TypeOK, Kept, TimeoutCancel
  <2>2. Orderly(s)'
    BY Zenon, <1>20 DEF TypeOK, AllOrderly, Orderly, NotStarted, FailuresSeen, Stopped,
            Told, Confirmed, EarlyPhases, EarlyAnswers, TimeoutCancel
  <2> QED
    BY Zenon, <2>1, <2>2, OneOrderly
<1>21. CASE Environment
  <2>1. ASSUME NEW s \in Session, PamCancel(s) \/ RecentExpires(s)
        PROVE  AllOrderly'
    BY Zenon, <1>0, <2>1 DEF PamCancel, RecentExpires
  <2>2. ASSUME NEW p \in Phone, NEW s \in Session, NEW t \in Transport,
               NEW v \in {"grant", "denial"}, PhoneAnswers(p, s, t, v)
        PROVE  AllOrderly'
    BY Zenon, <1>0, <2>2 DEF PhoneAnswers
  <2>3. ASSUME NEW a \in answers, NEW x \in Session,
               Deliver(a, x) \/ DeliverCorrupt(a, x)
        PROVE  AllOrderly'
    BY Zenon, <1>0, <2>3 DEF Deliver, DeliverCorrupt, Arrive
  <2>4. ASSUME NEW d, Reload(d) \/ SaveToggles(d) PROVE AllOrderly'
    BY Zenon, <1>0, <2>4 DEF Reload, SaveToggles
  <2> QED
    BY Zenon, <1>1, <1>21, <2>1, <2>2, <2>3, <2>4 DEF Environment
<1>22. CASE UNCHANGED vars
  BY Zenon, <1>0, <1>22 DEF vars
<1>23. ASSUME NEW s \in Session, Handler(s) PROVE AllOrderly'
  BY Zenon, <1>2, <1>3, <1>4, <1>5, <1>6, <1>14, <1>15, <1>16, <1>17, <1>18,
     <1>19, <1>23 DEF Handler
<1>24. ASSUME NEW s \in Session, NEW t \in Transport, TaskStep(s, t)
       PROVE  AllOrderly'
  BY Zenon, <1>7, <1>8, <1>9, <1>10, <1>11, <1>12, <1>13, <1>24
     DEF TaskStep, Receive
<1> QED
  BY Zenon, <1>20, <1>21, <1>22, <1>23, <1>24 DEF Next

LEMMA AlwaysOrderly == Spec => []AllOrderly
BY TypeInit, TypeNext, OrderlyInit, OrderlyNext, PTL DEF Spec

\* A session gives up for lack of transports only when both tasks have failed,
\* in whatever order their failures are noticed (await_auth_result).
THEOREM FailuresAreTotal == Spec => []FailureIsTotal
<1>1. AllOrderly => FailureIsTotal
  BY Zenon DEF AllOrderly, Orderly, FailuresSeen, FailureIsTotal, Transport
<1> QED
  BY <1>1, AlwaysOrderly, PTL

\* Except after a timeout, no transport task outlives the answer to PAM,
\* whichever of verdict, failure and cancel wins (await_auth_result,
\* handle_cancellation).
THEOREM QuietOnceAnswered == Spec => []QuietAfterAnswer
<1>1. AllOrderly => QuietAfterAnswer
  BY Zenon DEF AllOrderly, Orderly, Stopped, QuietAfterAnswer, Running, Transport
<1> QED
  BY <1>1, AlwaysOrderly, PTL

\* A session that has asked over the network ends with a cancel multicast or
\* about to be, unless both its transports failed, also when a task detached
\* by the timeout asks afterwards (multicast_cancel_on_success,
\* handle_cancellation, the task the timeout spawns).
THEOREM PhonesGetTold == Spec => []PhonesAreTold
<1>1. TypeOK /\ AllOrderly => PhonesAreTold
  BY Zenon DEF TypeOK, AllOrderly, Orderly, NotStarted, Told, PhonesAreTold, Outcomes,
         EarlyPhases, EarlyAnswers
<1> QED
  BY <1>1, TypeCorrect, AlwaysOrderly, PTL

\* Over UDP only a verdict the task has verified is confirmed
\* (send_confirmation_background).
THEOREM ConfirmsVerified == Spec => []UdpConfirmedAfterVerification
<1>1. AllOrderly => UdpConfirmedAfterVerification
  BY Zenon DEF AllOrderly, Orderly, Confirmed, UdpConfirmedAfterVerification
<1> QED
  BY <1>1, AlwaysOrderly, PTL

-----------------------------------------------------------------------------
(* Whom a session asks for, and what it never takes back. *)

\* handle_authenticate has made its checks and not refused.
Cleared(s) ==
    \/ phase[s] \in {"firewall", "init", "waiting", "granting", "denying", "draining"}
    \/ outcome[s] \in {"success", "denied", "failed", "cancelled", "timeout"}

\* The snapshot of session s is healthy and has a server for its user.
Fit(s) == snap[s].healthy /\ AllowedFor(snap[s], user[s]) # {}

Vetted(s) ==
    /\ Cleared(s) => Fit(s)
    /\ task[s]["udp"] \in {"send", "recv"} \/ <<s, "udp">> \in asked
         => Cleared(s) /\ enabled[s].network
    /\ task[s]["ble"] \in {"send", "recv"} \/ <<s, "ble">> \in asked
         => Cleared(s) /\ enabled[s].ble

AllVetted == \A s \in Session : Vetted(s)

\* A task that has ended keeps its result, and an answered session its answer
\* and its snapshot.
Settled(s) ==
    /\ task[s]["udp"] \in {"granted", "denied", "failed", "aborted"}
         => task'[s]["udp"] = task[s]["udp"]
    /\ task[s]["ble"] \in {"granted", "denied", "failed", "aborted"}
         => task'[s]["ble"] = task[s]["ble"]
    /\ outcome[s] # "none" => outcome'[s] = outcome[s] /\ snap'[s] = snap[s]

SettledStep == \A s \in Session : Settled(s)

\* Session x is not touched.
Same(x) ==
    /\ phase'[x] = phase[x] /\ outcome'[x] = outcome[x] /\ enabled'[x] = enabled[x]
    /\ task'[x] = task[x] /\ user'[x] = user[x] /\ snap'[x] = snap[x]
    /\ <<x, "udp">> \in asked' <=> <<x, "udp">> \in asked
    /\ <<x, "ble">> \in asked' <=> <<x, "ble">> \in asked

LEMMA SameVetted ==
  ASSUME NEW x, Vetted(x), Same(x)
  PROVE  Vetted(x)' /\ Settled(x)
BY Zenon DEF Same, Vetted, Settled, Cleared, Fit

\* A step of session s alone.
LEMMA OneVetted ==
  ASSUME AllVetted, NEW s \in Session, Vetted(s)', Settled(s),
         \A x \in Session \ {s} : Same(x)
  PROVE  AllVetted' /\ SettledStep
BY Zenon, SameVetted DEF AllVetted, SettledStep

LEMMA VettedInit == Init => AllVetted
BY DEF Init, AllVetted, Vetted, Cleared, NoTasks, Transport

\* One step per action; those that touch no session are taken together.
LEMMA VettedNext ==
  TypeOK /\ AllOrderly /\ AllVetted /\ [Next]_vars => AllVetted' /\ SettledStep
<1> SUFFICES ASSUME TypeOK, AllOrderly, AllVetted, [Next]_vars
             PROVE  AllVetted' /\ SettledStep
  BY Zenon
<1> USE DEF envVars, pamVars, taskVars, cancelVars, netVars
<1> DEFINE Goal == AllVetted' /\ SettledStep
<1>0. ASSUME UNCHANGED <<phase, outcome, enabled, task, user, snap, asked>>
      PROVE  Goal
  BY Zenon, <1>0, SameVetted DEF AllVetted, SettledStep, Same
<1>1. ASSUME NEW s \in Session, Accept(s) PROVE Goal
  <2>1. \A x \in Session \ {s} : Same(x)
    BY Zenon, <1>1 DEF TypeOK, Same, Accept
  <2>2. Vetted(s)' /\ Settled(s)
    BY <1>1 DEF TypeOK, AllOrderly, Orderly, NotStarted, EarlyPhases, EarlyAnswers,
            AllVetted, Vetted, Settled, Cleared, Fit, Accept
  <2> QED
    BY Zenon, <2>1, <2>2, OneVetted
<1>2. ASSUME NEW s \in Session, ReadFailed(s) PROVE Goal
  <2>1. \A x \in Session \ {s} : Same(x)
    BY Zenon, <1>2 DEF TypeOK, Same, ReadFailed, Respond
  <2>2. Vetted(s)' /\ Settled(s)
    BY <1>2 DEF TypeOK, AllOrderly, Orderly, NotStarted, EarlyPhases, EarlyAnswers,
            AllVetted, Vetted, Settled, Cleared, Fit, ReadFailed, Respond
  <2> QED
    BY Zenon, <2>1, <2>2, OneVetted
<1>3. ASSUME NEW s \in Session, RejectDuplicate(s) PROVE Goal
  <2>1. \A x \in Session \ {s} : Same(x)
    BY Zenon, <1>3 DEF TypeOK, Same, RejectDuplicate, Respond
  <2>2. Vetted(s)' /\ Settled(s)
    BY <1>3 DEF TypeOK, AllOrderly, Orderly, NotStarted, EarlyPhases, EarlyAnswers,
            AllVetted, Vetted, Settled, Cleared, Fit, RejectDuplicate, Respond
  <2> QED
    BY Zenon, <2>1, <2>2, OneVetted
<1>4. ASSUME NEW s \in Session, Authenticate(s) PROVE Goal
  <2>1. \A x \in Session \ {s} : Same(x)
    BY Zenon, <1>4 DEF TypeOK, Same, Authenticate, Respond
  <2>2. Vetted(s)' /\ Settled(s)
    BY <1>4 DEF TypeOK, AllOrderly, Orderly, NotStarted, EarlyPhases, EarlyAnswers,
            AllVetted, Vetted, Settled, Cleared, Fit, Authenticate, Respond,
            EarlyOutcome
  <2> QED
    BY Zenon, <2>1, <2>2, OneVetted
<1>5. ASSUME NEW s \in Session, FirewallReady(s) PROVE Goal
  <2>1. \A x \in Session \ {s} : Same(x)
    BY Zenon, <1>5 DEF TypeOK, Same, FirewallReady
  <2>2. Vetted(s)' /\ Settled(s)
    BY Zenon, <1>5 DEF TypeOK, AllOrderly, Orderly, NotStarted, EarlyPhases, EarlyAnswers,
            AllVetted, Vetted, Settled, Cleared, Fit, FirewallReady
  <2> QED
    BY Zenon, <2>1, <2>2, OneVetted
<1>6. ASSUME NEW s \in Session, NEW bleUp \in BOOLEAN,
             StartTransports(s, bleUp)
      PROVE  Goal
  <2>1. \A x \in Session \ {s} : Same(x)
    BY Zenon, <1>6 DEF TypeOK, Same, StartTransports, Transport
  <2>2. Vetted(s)' /\ Settled(s)
    BY <1>6 DEF TypeOK, AllOrderly, Orderly, NotStarted, EarlyPhases, EarlyAnswers,
            AllVetted, Vetted, Settled, Cleared, Fit, StartTransports, Transport
  <2> QED
    BY Zenon, <2>1, <2>2, OneVetted
<1>7. ASSUME NEW s \in Session, NEW t \in Transport, TaskSend(s, t) PROVE Goal
  <2>1. \A x \in Session \ {s} : Same(x)
    BY Zenon, <1>7 DEF TypeOK, Same, TaskSend, SetTask, Transport
  <2>2. Vetted(s)' /\ Settled(s)
    BY <1>7 DEF TypeOK, AllOrderly, Orderly, NotStarted, EarlyPhases, EarlyAnswers,
            AllVetted, Vetted, Settled, Cleared, Fit, TaskSend, SetTask,
            Transport
  <2> QED
    BY Zenon, <2>1, <2>2, OneVetted
<1>8. ASSUME NEW s \in Session, TaskSendFails(s) PROVE Goal
  <2>1. \A x \in Session \ {s} : Same(x)
    BY Zenon, <1>8 DEF TypeOK, Same, TaskSendFails, SetTask, Transport
  <2>2. Vetted(s)' /\ Settled(s)
    BY <1>8 DEF TypeOK, AllOrderly, Orderly, NotStarted, EarlyPhases, EarlyAnswers,
            AllVetted, Vetted, Settled, Cleared, Fit, TaskSendFails, SetTask,
            Transport
  <2> QED
    BY Zenon, <2>1, <2>2, OneVetted
<1>9. ASSUME NEW s \in Session, NEW t \in Transport, TaskRetry(s, t) PROVE Goal
  <2>1. \A x \in Session \ {s} : Same(x)
    BY Zenon, <1>9 DEF TypeOK, Same, TaskRetry, SetTask, Transport
  <2>2. Vetted(s)' /\ Settled(s)
    BY <1>9 DEF TypeOK, AllOrderly, Orderly, NotStarted, EarlyPhases, EarlyAnswers,
            AllVetted, Vetted, Settled, Cleared, Fit, TaskRetry, SetTask,
            Transport
  <2> QED
    BY Zenon, <2>1, <2>2, OneVetted
<1>10. ASSUME NEW s \in Session, NEW t \in Transport,
              TaskExpire(s, t)
       PROVE  Goal
  <2>1. \A x \in Session \ {s} : Same(x)
    BY Zenon, <1>10 DEF TypeOK, Same, TaskExpire, SetTask, Transport
  <2>2. Vetted(s)' /\ Settled(s)
    BY <1>10 DEF TypeOK, AllOrderly, Orderly, NotStarted, EarlyPhases, EarlyAnswers,
            AllVetted, Vetted, Settled, Cleared, Fit, TaskExpire, SetTask,
            Transport
  <2> QED
    BY Zenon, <2>1, <2>2, OneVetted
<1>11. ASSUME NEW s \in Session, NEW t \in Transport, NEW d,
              RecvCorrupt(s, t, d)
       PROVE  Goal
  <2>1. \A x \in Session \ {s} : Same(x)
    BY Zenon, <1>11 DEF TypeOK, Same, RecvCorrupt, SetTask, Transport
  <2>2. Vetted(s)' /\ Settled(s)
    BY <1>11 DEF TypeOK, AllOrderly, Orderly, NotStarted, EarlyPhases, EarlyAnswers,
            AllVetted, Vetted, Settled, Cleared, Fit, RecvCorrupt, SetTask,
            Transport
  <2> QED
    BY Zenon, <2>1, <2>2, OneVetted
<1>12. ASSUME NEW s \in Session, NEW t \in Transport, NEW d,
              RecvForeign(s, t, d)
       PROVE  Goal
  <2>1. \A x \in Session \ {s} : Same(x)
    BY Zenon, <1>12 DEF TypeOK, Same, RecvForeign, SetTask, Transport
  <2>2. Vetted(s)' /\ Settled(s)
    BY <1>12 DEF TypeOK, AllOrderly, Orderly, NotStarted, EarlyPhases, EarlyAnswers,
            AllVetted, Vetted, Settled, Cleared, Fit, RecvForeign, SetTask,
            Transport
  <2> QED
    BY Zenon, <2>1, <2>2, OneVetted
<1>13. ASSUME NEW s \in Session, NEW t \in Transport, NEW d,
              RecvVerdict(s, t, d)
       PROVE  Goal
  <2>1. \A x \in Session \ {s} : Same(x)
    BY Zenon, <1>13 DEF TypeOK, Same, RecvVerdict, SetTask, Transport
  <2>2. Vetted(s)' /\ Settled(s)
    BY <1>13 DEF TypeOK, AllOrderly, Orderly, NotStarted, EarlyPhases, EarlyAnswers,
            AllVetted, Vetted, Settled, Cleared, Fit, RecvVerdict, SetTask,
            Transport
  <2> QED
    BY Zenon, <2>1, <2>2, OneVetted
<1>14. ASSUME NEW s \in Session, NEW t \in Transport,
              AwaitVerdict(s, t)
       PROVE  Goal
  <2>1. \A x \in Session \ {s} : Same(x)
    BY Zenon, <1>14 DEF TypeOK, Same, AwaitVerdict, Abort, Running, Transport
  <2>2. Vetted(s)' /\ Settled(s)
    BY <1>14 DEF TypeOK, AllOrderly, Orderly, NotStarted, EarlyPhases, EarlyAnswers,
            AllVetted, Vetted, Settled, Cleared, Fit, AwaitVerdict, Abort,
            Running, Transport
  <2> QED
    BY Zenon, <2>1, <2>2, OneVetted
<1>15. ASSUME NEW s \in Session, NEW t \in Transport,
              AwaitFailure(s, t)
       PROVE  Goal
  <2>1. \A x \in Session \ {s} : Same(x)
    BY Zenon, <1>15 DEF TypeOK, Same, AwaitFailure, Respond
  <2>2. Vetted(s)' /\ Settled(s)
    BY <1>15 DEF TypeOK, AllOrderly, Orderly, NotStarted, EarlyPhases, EarlyAnswers,
            AllVetted, Vetted, Settled, Cleared, Fit, AwaitFailure, Respond
  <2> QED
    BY Zenon, <2>1, <2>2, OneVetted
<1>16. ASSUME NEW s \in Session, Close(s) PROVE Goal
  <2>1. \A x \in Session \ {s} : Same(x)
    BY Zenon, <1>16 DEF TypeOK, Same, Close, Respond
  <2>2. Vetted(s)' /\ Settled(s)
    BY <1>16 DEF TypeOK, AllOrderly, Orderly, NotStarted, EarlyPhases, EarlyAnswers,
            AllVetted, Vetted, Settled, Cleared, Fit, Close, Respond
  <2> QED
    BY Zenon, <2>1, <2>2, OneVetted
<1>17. ASSUME NEW s \in Session, CancelReceived(s) PROVE Goal
  <2>1. \A x \in Session \ {s} : Same(x)
    BY Zenon, <1>17 DEF TypeOK, Same, CancelReceived
  <2>2. Vetted(s)' /\ Settled(s)
    BY Zenon, <1>17 DEF TypeOK, AllOrderly, Orderly, NotStarted, EarlyPhases, EarlyAnswers,
            AllVetted, Vetted, Settled, Cleared, Fit, CancelReceived
  <2> QED
    BY Zenon, <2>1, <2>2, OneVetted
<1>18. ASSUME NEW s \in Session, CancelFinish(s) PROVE Goal
  <2>1. \A x \in Session \ {s} : Same(x)
    BY Zenon, <1>18 DEF TypeOK, Same, CancelFinish, Respond, Abort, Running, Transport
  <2>2. Vetted(s)' /\ Settled(s)
    BY <1>18 DEF TypeOK, AllOrderly, Orderly, NotStarted, EarlyPhases, EarlyAnswers,
            AllVetted, Vetted, Settled, Cleared, Fit, CancelFinish, Respond,
            Abort, Running, Transport
  <2> QED
    BY Zenon, <2>1, <2>2, OneVetted
<1>19. ASSUME NEW s \in Session, Timeout(s) PROVE Goal
  <2>1. \A x \in Session \ {s} : Same(x)
    BY Zenon, <1>19 DEF TypeOK, Same, Timeout, Respond
  <2>2. Vetted(s)' /\ Settled(s)
    BY <1>19 DEF TypeOK, AllOrderly, Orderly, NotStarted, EarlyPhases, EarlyAnswers,
            AllVetted, Vetted, Settled, Cleared, Fit, Timeout, Respond
  <2> QED
    BY Zenon, <2>1, <2>2, OneVetted
<1>20. ASSUME NEW s \in Session, TimeoutCancel(s) PROVE Goal
  <2>1. \A x \in Session \ {s} : Same(x)
    BY Zenon, <1>20 DEF TypeOK, Same, TimeoutCancel
  <2>2. Vetted(s)' /\ Settled(s)
    BY Zenon, <1>20 DEF TypeOK, AllOrderly, Orderly, NotStarted, EarlyPhases, EarlyAnswers,
            AllVetted, Vetted, Settled, Cleared, Fit, TimeoutCancel
  <2> QED
    BY Zenon, <2>1, <2>2, OneVetted
<1>21. CASE Environment
  <2>1. ASSUME NEW s \in Session, PamCancel(s) \/ RecentExpires(s)
        PROVE  Goal
    BY Zenon, <1>0, <2>1 DEF PamCancel, RecentExpires
  <2>2. ASSUME NEW p \in Phone, NEW s \in Session, NEW t \in Transport,
               NEW v \in {"grant", "denial"}, PhoneAnswers(p, s, t, v)
        PROVE  Goal
    BY Zenon, <1>0, <2>2 DEF PhoneAnswers
  <2>3. ASSUME NEW a \in answers, NEW x \in Session,
               Deliver(a, x) \/ DeliverCorrupt(a, x)
        PROVE  Goal
    BY Zenon, <1>0, <2>3 DEF Deliver, DeliverCorrupt, Arrive
  <2>4. ASSUME NEW d, Reload(d) \/ SaveToggles(d) PROVE Goal
    BY Zenon, <1>0, <2>4 DEF Reload, SaveToggles
  <2> QED
    BY Zenon, <1>1, <1>21, <2>1, <2>2, <2>3, <2>4 DEF Environment
<1>22. CASE UNCHANGED vars
  BY Zenon, <1>0, <1>22 DEF vars
<1> HIDE DEF Goal
<1>23. ASSUME NEW s \in Session, Handler(s) PROVE Goal
  BY Zenon, <1>2, <1>3, <1>4, <1>5, <1>6, <1>14, <1>15, <1>16, <1>17, <1>18,
     <1>19, <1>23 DEF Handler
<1>24. ASSUME NEW s \in Session, NEW t \in Transport, TaskStep(s, t) PROVE Goal
  BY Zenon, <1>7, <1>8, <1>9, <1>10, <1>11, <1>12, <1>13, <1>24
     DEF TaskStep, Receive
<1> QED
  BY Zenon, <1>20, <1>21, <1>22, <1>23, <1>24 DEF Next, Goal

\* A phone is asked only for a user that the session's own healthy snapshot
\* lets some server authenticate, over a transport that was on when the request
\* was read; a grant or a denial ends only such a session.  Reloads, saved
\* toggles and a task detached by the timeout do not change that
\* (handle_authenticate, authenticate_with_transport).
OnlyEligibleAsked ==
    /\ \A s \in Session :
          /\ <<s, "udp">> \in asked => Fit(s) /\ enabled[s].network
          /\ <<s, "ble">> \in asked => Fit(s) /\ enabled[s].ble
    /\ \A s \in Session : outcome[s] \in {"success", "denied"} => Fit(s)

\* Phones are only asked for users the daemon's checks let through, from any
\* DaemonStates and Configs (the early returns of handle_authenticate).
THEOREM AsksForTheEligible == Spec => []OnlyEligibleAsked
<1>1. AllVetted => OnlyEligibleAsked
  BY Zenon DEF AllVetted, Vetted, Cleared, OnlyEligibleAsked
<1>2. TypeOK /\ AllOrderly /\ AllVetted /\ [Next]_vars => AllVetted'
  BY Zenon, VettedNext
<1> QED
  BY <1>1, <1>2, VettedInit, TypeCorrect, AlwaysOrderly, PTL DEF Spec

\* Whatever arrives, expires or is cancelled afterwards, a task that has ended
\* never runs again or changes its result, and an answered session keeps its
\* answer and the snapshot it was judged by (await_auth_result,
\* AbortHandle::abort).
THEOREM ResultsStand == Spec => [][SettledStep]_vars
<1>1. TypeOK /\ AllOrderly /\ AllVetted /\ [Next]_vars => AllVetted'
  BY Zenon, VettedNext
<1>2. TypeOK /\ AllOrderly /\ AllVetted /\ [Next]_vars => [SettledStep]_vars
  BY Zenon, VettedNext
<1> QED
  BY <1>1, <1>2, VettedInit, TypeCorrect, AlwaysOrderly, PTL DEF Spec

=============================================================================
