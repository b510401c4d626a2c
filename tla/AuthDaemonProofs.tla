-------------------------- MODULE AuthDaemonProofs --------------------------
(***************************************************************************)
(* For all sessions, users, phones, daemon states and configurations: the  *)
(* state keeps its type, and a verdict PAM is told was signed, for this    *)
(* very session, by a server of the session's own snapshot.                *)
(***************************************************************************)
EXTENDS AuthDaemon, TLAPS

LEMMA TypeInit == Init => TypeOK
BY DaemonStatesAssumption, ConfigsAssumption
   DEF Init, TypeOK, NoTasks, Phases, Outcomes, TaskStates

\* One step per action of the daemon and of its environment.
LEMMA TypeNext == TypeOK /\ [Next]_vars => TypeOK'
<1> SUFFICES ASSUME TypeOK, [Next]_vars PROVE TypeOK'
  BY Zenon
<1> USE DEF TypeOK, envVars, pamVars, taskVars, cancelVars, netVars,
            Phases, Outcomes, TaskStates
<1>1. ASSUME NEW s \in Session, Accept(s) PROVE TypeOK'
  BY Zenon, <1>1 DEF Accept
<1>2. ASSUME NEW s \in Session, ReadFailed(s) PROVE TypeOK'
  BY Zenon, <1>2 DEF ReadFailed, Respond
<1>3. ASSUME NEW s \in Session, RejectDuplicate(s) PROVE TypeOK'
  BY Zenon, <1>3 DEF RejectDuplicate, Respond
<1>4. ASSUME NEW s \in Session, Authenticate(s) PROVE TypeOK'
  <2>1. EarlyOutcome(s, toggles) \in Outcomes
    BY Zenon DEF EarlyOutcome
  <2> QED
    BY ZenonT(30), <1>4, <2>1 DEF Authenticate, Respond
<1>5. ASSUME NEW s \in Session, FirewallReady(s) PROVE TypeOK'
  BY Zenon, <1>5 DEF FirewallReady
<1>6. ASSUME NEW s \in Session, NEW bleUp \in BOOLEAN,
             StartTransports(s, bleUp)
      PROVE  TypeOK'
  BY Zenon, <1>6 DEF StartTransports
<1>7. ASSUME NEW s \in Session, NEW t \in Transport, TaskSend(s, t)
      PROVE  TypeOK'
  BY <1>7 DEF TaskSend, SetTask
<1>8. ASSUME NEW s \in Session, TaskSendFails(s) PROVE TypeOK'
  BY ZenonT(30), <1>8 DEF TaskSendFails, SetTask
<1>9. ASSUME NEW s \in Session, NEW t \in Transport, TaskRetry(s, t)
      PROVE  TypeOK'
  BY Zenon, <1>9 DEF TaskRetry, SetTask
<1>10. ASSUME NEW s \in Session, NEW t \in Transport, TaskExpire(s, t)
       PROVE  TypeOK'
  BY Zenon, <1>10 DEF TaskExpire, SetTask
<1>11. ASSUME NEW s \in Session, NEW t \in Transport, NEW d,
              RecvCorrupt(s, t, d)
       PROVE  TypeOK'
  BY <1>11 DEF RecvCorrupt, SetTask, Take
<1>12. ASSUME NEW s \in Session, NEW t \in Transport, NEW d,
              RecvForeign(s, t, d)
       PROVE  TypeOK'
  BY <1>12 DEF RecvForeign, SetTask, Take
<1>13. ASSUME NEW s \in Session, NEW t \in Transport, NEW d,
              RecvVerdict(s, t, d)
       PROVE  TypeOK'
  BY <1>13 DEF RecvVerdict, SetTask, Take
<1>14. ASSUME NEW s \in Session, NEW t \in Transport, AwaitVerdict(s, t)
       PROVE  TypeOK'
  BY Zenon, <1>14 DEF AwaitVerdict, Abort
<1>15. ASSUME NEW s \in Session, NEW t \in Transport, AwaitFailure(s, t)
       PROVE  TypeOK'
  BY ZenonT(30), <1>15 DEF AwaitFailure, Respond
<1>16. ASSUME NEW s \in Session, Close(s) PROVE TypeOK'
  BY Zenon, <1>16 DEF Close, Respond, MulticastCancel
<1>17. ASSUME NEW s \in Session, CancelReceived(s) PROVE TypeOK'
  BY Zenon, <1>17 DEF CancelReceived, MulticastCancel
<1>18. ASSUME NEW s \in Session, CancelFinish(s) PROVE TypeOK'
  BY Zenon, <1>18 DEF CancelFinish, Respond, Abort
<1>19. ASSUME NEW s \in Session, Timeout(s) PROVE TypeOK'
  BY Zenon, <1>19 DEF Timeout, Respond
<1>20. ASSUME NEW s \in Session, TimeoutCancel(s) PROVE TypeOK'
  BY Zenon, <1>20 DEF TimeoutCancel
<1>21. ASSUME NEW s \in Session, PamCancel(s) PROVE TypeOK'
  BY Zenon, <1>21 DEF PamCancel
<1>22. ASSUME NEW s \in Session, NEW p \in Phone, NEW t \in Transport, NEW v \in {"grant", "denial"},
              PhoneAnswers(p, s, t, v)
       PROVE  TypeOK'
  BY <1>22 DEF PhoneAnswers, Answer
<1>23. ASSUME NEW s \in Session, NEW a \in answers, Deliver(a, s)
       PROVE  TypeOK'
  <2> DEFINE d == a
  <2>1. d \in Datagram
    BY Zenon DEF Answer, Datagram
  <2>2. Arrive(d, s)
    BY Zenon, <1>23 DEF Deliver
  <2> HIDE DEF d
  <2>3. udpIn' \subseteq Datagram /\ bleIn' \in [Session -> SUBSET Datagram]
    BY <2>1, <2>2 DEF Arrive
  <2> QED
    BY Zenon, <2>2, <2>3 DEF Arrive
<1>24. ASSUME NEW s \in Session, NEW a \in answers, DeliverCorrupt(a, s)
       PROVE  TypeOK'
  <2> DEFINE d == [a EXCEPT !.verdict = "corrupt"]
  <2>1. d \in Datagram
    BY SMTT(30) DEF Answer, Datagram
  <2>2. Arrive(d, s)
    BY Zenon, <1>24 DEF DeliverCorrupt
  <2> HIDE DEF d
  <2>3. udpIn' \subseteq Datagram /\ bleIn' \in [Session -> SUBSET Datagram]
    BY <2>1, <2>2 DEF Arrive
  <2> QED
    BY Zenon, <2>2, <2>3 DEF Arrive
<1>25. ASSUME NEW s \in Session, RecentExpires(s) PROVE TypeOK'
  BY Zenon, <1>25 DEF RecentExpires
<1>26. ASSUME NEW d \in DaemonStates, Reload(d) PROVE TypeOK'
  BY Zenon, <1>26, DaemonStatesAssumption DEF Reload
<1>27. ASSUME NEW c \in Configs, SaveToggles(c) PROVE TypeOK'
  BY Zenon, <1>27, ConfigsAssumption DEF SaveToggles
<1>28. CASE UNCHANGED vars
  BY Zenon, <1>28 DEF vars
<1> HIDE DEF TypeOK
<1>29. ASSUME NEW s \in Session, Handler(s) PROVE TypeOK'
  BY Zenon, <1>2, <1>3, <1>4, <1>5, <1>6, <1>14, <1>15, <1>16, <1>17, <1>18,
     <1>19, <1>29 DEF Handler
<1>30. ASSUME NEW s \in Session, NEW t \in Transport, TaskStep(s, t)
       PROVE  TypeOK'
  BY Zenon, <1>7, <1>8, <1>9, <1>10, <1>11, <1>12, <1>13, <1>30
     DEF TaskStep, Receive
<1>31. CASE Environment
  BY Zenon, <1>1, <1>21, <1>22, <1>23, <1>24, <1>25, <1>26, <1>27, <1>31
     DEF Environment
<1> QED
  BY Zenon, <1>20, <1>28, <1>29, <1>30, <1>31 DEF Next

\* The daemon's state keeps its type: a transport that is off still has a task,
\* and no session is answered with anything but one of Outcomes.
THEOREM TypeCorrect == Spec => []TypeOK
BY TypeInit, TypeNext, PTL DEF Spec

-----------------------------------------------------------------------------

\* Some server of the session's snapshot signed verdict v for session s.
Said(s, v) ==
    \E a \in answers : a.ch = s /\ a.verdict = v /\ a.from \in Paired(snap[s])

\* What waits in a queue and decrypts, a phone has signed.
QueuesSigned ==
    /\ \A d \in udpIn : d.verdict # "corrupt" => d \in answers
    /\ \A s \in Session : \A d \in bleIn[s] :
         d.verdict # "corrupt" => d \in answers

\* The verdict of a task was said for its session.
TasksHonest ==
    \A s \in Session : \A t \in Transport :
        /\ task[s][t] = "granted" => Said(s, "grant")
        /\ task[s][t] = "denied" => Said(s, "denial")

\* So was the verdict a handler is about to report, and the one it reported.
HandlersHonest ==
    \A s \in Session :
        /\ phase[s] = "granting" \/ outcome[s] = "success" => Said(s, "grant")
        /\ phase[s] = "denying" \/ outcome[s] = "denied" => Said(s, "denial")

\* A session has no verdict before its snapshot is taken: a snapshot never
\* changes under a verdict that was checked against it.
IdleFresh ==
    \A s \in Session :
        phase[s] = "idle" => outcome[s] = "none" /\ task[s] = NoTasks

Honest == QueuesSigned /\ TasksHonest /\ HandlersHonest /\ IdleFresh

LEMMA HonestInit == Init => Honest
BY DEF Init, Honest, QueuesSigned, TasksHonest, HandlersHonest, IdleFresh, NoTasks

\* Receiving only takes out of the queues.
LEMMA TakeShrinks ==
  ASSUME TypeOK, NEW s \in Session, NEW t, NEW d, Take(s, t, d)
  PROVE  /\ udpIn' \subseteq udpIn
         /\ \A x \in Session : bleIn'[x] \subseteq bleIn[x]
BY Zenon DEF TypeOK, Take

LEMMA HonestNext == TypeOK /\ Honest /\ [Next]_vars => Honest'
<1> SUFFICES ASSUME TypeOK, Honest, [Next]_vars PROVE Honest'
  BY Zenon
<1>0. ASSUME UNCHANGED snap, answers \subseteq answers'
      PROVE  \A x, v : Said(x, v) => Said(x, v)'
  BY Zenon, <1>0 DEF Said, Paired
<1> USE DEF TypeOK, Honest, QueuesSigned, TasksHonest, HandlersHonest, IdleFresh,
            NoTasks, envVars, pamVars, taskVars, cancelVars, netVars
<1>1. ASSUME NEW s \in Session, Accept(s) PROVE Honest'
  <2>1. \A x \in Session \ {s} : \A v : Said(x, v) => Said(x, v)'
    BY <1>1 DEF Accept, Said
  <2>2. /\ phase'[s] = "accepted" /\ outcome'[s] = "none"
        /\ \A t \in Transport : task'[s][t] = "none"
    BY Zenon, <1>1 DEF Accept
  <2>3. \A x \in Session \ {s} : phase'[x] = phase[x]
    BY Zenon, <1>1 DEF Accept
  <2> QED
    BY <1>1, <2>1, <2>2, <2>3 DEF Accept
<1>2. ASSUME NEW s \in Session, ReadFailed(s) PROVE Honest'
  BY Zenon, <1>0, <1>2 DEF ReadFailed, Respond
<1>3. ASSUME NEW s \in Session, RejectDuplicate(s) PROVE Honest'
  BY Zenon, <1>0, <1>3 DEF RejectDuplicate, Respond
<1>4. ASSUME NEW s \in Session, Authenticate(s) PROVE Honest'
  <2>1. EarlyOutcome(s, toggles) \notin {"success", "denied"}
    BY Zenon DEF EarlyOutcome
  <2> QED
    BY SMTT(30), <1>0, <1>4, <2>1 DEF Authenticate, Respond
<1>5. ASSUME NEW s \in Session, FirewallReady(s) PROVE Honest'
  BY Zenon, <1>0, <1>5 DEF FirewallReady
<1>6. ASSUME NEW s \in Session, NEW bleUp \in BOOLEAN,
             StartTransports(s, bleUp)
      PROVE  Honest'
  BY Zenon, <1>0, <1>6 DEF StartTransports
<1>7. ASSUME NEW s \in Session, NEW t \in Transport, TaskSend(s, t)
      PROVE  Honest'
  BY <1>0, <1>7 DEF TaskSend, SetTask
<1>8. ASSUME NEW s \in Session, TaskSendFails(s) PROVE Honest'
  BY ZenonT(30), <1>0, <1>8 DEF TaskSendFails, SetTask
<1>9. ASSUME NEW s \in Session, NEW t \in Transport, TaskRetry(s, t)
      PROVE  Honest'
  BY <1>0, <1>9 DEF TaskRetry, SetTask
<1>10. ASSUME NEW s \in Session, NEW t \in Transport, TaskExpire(s, t)
       PROVE  Honest'
  BY <1>0, <1>10 DEF TaskExpire, SetTask
<1>11. ASSUME NEW s \in Session, NEW t \in Transport, NEW d,
              RecvCorrupt(s, t, d)
       PROVE  Honest'
  <2>1. QueuesSigned'
    <3>1. udpIn' \subseteq udpIn /\ \A x \in Session : bleIn'[x] \subseteq bleIn[x]
      BY Zenon, TakeShrinks, <1>11 DEF RecvCorrupt
    <3>2. answers' = answers
      BY Zenon, <1>11 DEF RecvCorrupt
    <3> QED
      BY Zenon, <3>1, <3>2
  <2>2. \A x, v : Said(x, v) => Said(x, v)'
    BY SMTT(30), <1>0, <1>11 DEF RecvCorrupt
  <2> QED
    BY <2>1, <2>2, <1>11 DEF RecvCorrupt, SetTask
<1>12. ASSUME NEW s \in Session, NEW t \in Transport, NEW d,
              RecvForeign(s, t, d)
       PROVE  Honest'
  <2>1. QueuesSigned'
    <3>1. udpIn' \subseteq udpIn /\ \A x \in Session : bleIn'[x] \subseteq bleIn[x]
      BY Zenon, TakeShrinks, <1>12 DEF RecvForeign
    <3>2. answers' = answers
      BY <1>12 DEF RecvForeign
    <3> QED
      BY Zenon, <3>1, <3>2
  <2>2. \A x, v : Said(x, v) => Said(x, v)'
    BY SMTT(30), <1>0, <1>12 DEF RecvForeign
  <2> QED
    BY SMTT(30), <2>1, <2>2, <1>12 DEF RecvForeign, SetTask
<1>13. ASSUME NEW s \in Session, NEW t \in Transport, NEW d,
              RecvVerdict(s, t, d)
       PROVE  Honest'
  <2>1. QueuesSigned'
    <3>1. udpIn' \subseteq udpIn /\ \A x \in Session : bleIn'[x] \subseteq bleIn[x]
      BY Zenon, TakeShrinks, <1>13 DEF RecvVerdict
    <3>2. answers' = answers
      BY Zenon, <1>13 DEF RecvVerdict
    <3> QED
      BY Zenon, <3>1, <3>2
  <2>2. \A x, v : Said(x, v) => Said(x, v)'
    BY SMTT(30), <1>0, <1>13 DEF RecvVerdict
  <2>3. Said(s, IF d.verdict = "grant" THEN "grant" ELSE "denial")
    <3>1. d \in answers
      BY Zenon, <1>13 DEF RecvVerdict, Take
    <3> QED
      BY Zenon, <1>13, <3>1 DEF RecvVerdict, Genuine, Said, Answer
  <2> QED
    BY SMTT(30), <2>1, <2>2, <2>3, <1>13 DEF RecvVerdict, SetTask
<1>14. ASSUME NEW s \in Session, NEW t \in Transport, AwaitVerdict(s, t)
       PROVE  Honest'
  BY <1>0, <1>14 DEF AwaitVerdict, Abort
<1>15. ASSUME NEW s \in Session, NEW t \in Transport, AwaitFailure(s, t)
       PROVE  Honest'
  BY ZenonT(30), <1>0, <1>15 DEF AwaitFailure, Respond
<1>16. ASSUME NEW s \in Session, Close(s) PROVE Honest'
  BY Zenon, <1>0, <1>16 DEF Close, Respond, MulticastCancel
<1>17. ASSUME NEW s \in Session, CancelReceived(s) PROVE Honest'
  BY Zenon, <1>0, <1>17 DEF CancelReceived, MulticastCancel
<1>18. ASSUME NEW s \in Session, CancelFinish(s) PROVE Honest'
  BY <1>0, <1>18 DEF CancelFinish, Respond, Abort
<1>19. ASSUME NEW s \in Session, Timeout(s) PROVE Honest'
  BY Zenon, <1>0, <1>19 DEF Timeout, Respond
<1>20. ASSUME NEW s \in Session, TimeoutCancel(s) PROVE Honest'
  BY Zenon, <1>0, <1>20 DEF TimeoutCancel
<1>21. ASSUME NEW s \in Session, PamCancel(s) PROVE Honest'
  BY Zenon, <1>0, <1>21 DEF PamCancel
<1>22. ASSUME NEW s \in Session, NEW p \in Phone, NEW t \in Transport, NEW v \in {"grant", "denial"},
              PhoneAnswers(p, s, t, v)
       PROVE  Honest'
  BY Zenon, <1>0, <1>22 DEF PhoneAnswers, Answer
<1>23. ASSUME NEW s \in Session, NEW a \in answers, Deliver(a, s)
       PROVE  Honest'
  <2> DEFINE d == a
  <2>1. d.verdict # "corrupt" => d \in answers
    BY Zenon DEF Answer
  <2>2. Arrive(d, s)
    BY Zenon, <1>23 DEF Deliver
  <2> HIDE DEF d
  <2>3. QueuesSigned'
    <3>1. CASE d.via = "udp"
      BY Zenon, <2>1, <2>2, <3>1 DEF Arrive
    <3>2. CASE d.via # "udp"
      BY <2>1, <2>2, <3>2 DEF Arrive
    <3> QED BY Zenon, <3>1, <3>2
  <2>4. \A x, v : Said(x, v) => Said(x, v)'
    BY Zenon, <2>2, <1>0 DEF Arrive
  <2> QED
    BY Zenon, <2>2, <2>3, <2>4 DEF Arrive
<1>24. ASSUME NEW s \in Session, NEW a \in answers, DeliverCorrupt(a, s)
       PROVE  Honest'
  <2> DEFINE d == [a EXCEPT !.verdict = "corrupt"]
  <2>1. d.verdict # "corrupt" => d \in answers
    BY Zenon DEF Answer
  <2>2. Arrive(d, s)
    BY SMTT(30), <1>24 DEF DeliverCorrupt
  <2> HIDE DEF d
  <2>3. QueuesSigned'
    <3>1. CASE d.via = "udp"
      BY Zenon, <2>1, <2>2, <3>1 DEF Arrive
    <3>2. CASE d.via # "udp"
      BY <2>1, <2>2, <3>2 DEF Arrive
    <3> QED BY Zenon, <3>1, <3>2
  <2>4. \A x, v : Said(x, v) => Said(x, v)'
    BY Zenon, <2>2, <1>0 DEF Arrive
  <2> QED
    BY Zenon, <2>2, <2>3, <2>4 DEF Arrive
<1>25. ASSUME NEW s \in Session, RecentExpires(s) PROVE Honest'
  BY SMTT(30), <1>0, <1>25 DEF RecentExpires
<1>26. ASSUME NEW d \in DaemonStates, Reload(d) PROVE Honest'
  BY Zenon, <1>0, <1>26 DEF Reload
<1>27. ASSUME NEW c \in Configs, SaveToggles(c) PROVE Honest'
  BY Zenon, <1>0, <1>27 DEF SaveToggles
<1>28. CASE UNCHANGED vars
  BY Zenon, <1>0, <1>28 DEF vars
<1> HIDE DEF TypeOK, Honest
<1>29. ASSUME NEW s \in Session, Handler(s) PROVE Honest'
  BY SMTT(30), <1>2, <1>3, <1>4, <1>5, <1>6, <1>14, <1>15, <1>16, <1>17, <1>18,
     <1>19, <1>29 DEF Handler
<1>30. ASSUME NEW s \in Session, NEW t \in Transport, TaskStep(s, t)
       PROVE  Honest'
  BY Zenon, <1>7, <1>8, <1>9, <1>10, <1>11, <1>12, <1>13, <1>30
     DEF TaskStep, Receive
<1>31. CASE Environment
  BY Zenon, <1>1, <1>21, <1>22, <1>23, <1>24, <1>25, <1>26, <1>27, <1>31
     DEF Environment
<1> QED
  BY Zenon, <1>20, <1>28, <1>29, <1>30, <1>31 DEF Next

\* PAM is told Success or Denied only on a verdict that a server of the
\* session's snapshot signed for this session's challenge, although all UDP
\* tasks share one socket, admin requests replace the live DaemonState, and
\* tasks, cancels and timeouts interleave (handle_auth_grant,
\* handle_auth_denial, await_auth_result).
THEOREM VerdictsAreGenuine == Spec => []VerdictIsGenuine
<1>1. Honest => VerdictIsGenuine
  BY Zenon DEF Honest, HandlersHonest, VerdictIsGenuine, Said
<1> QED
  BY TypeInit, TypeNext, HonestInit, HonestNext, <1>1, PTL DEF Spec

-----------------------------------------------------------------------------
(* The daemon implements AuthContract.                                     *)

\* Only a session that has been accepted is asked about and answered by a
\* phone, so that taking the snapshot cannot change who has decided.
AcceptedFirst ==
    /\ \A s \in Session, t \in Transport : <<s, t>> \in asked => phase[s] # "idle"
    /\ \A a \in answers : phase[a.ch] # "idle"

LEMMA AcceptedFirstInit == Init => AcceptedFirst
BY SMTT(30) DEF Init, AcceptedFirst

LEMMA AcceptedFirstNext ==
  TypeOK /\ Honest /\ AcceptedFirst /\ [Next]_vars => AcceptedFirst'
<1> SUFFICES ASSUME TypeOK, Honest, AcceptedFirst, [Next]_vars
             PROVE  AcceptedFirst'
  BY Zenon
<1> USE DEF TypeOK, AcceptedFirst, envVars, pamVars, taskVars, cancelVars, netVars
<1>1. ASSUME UNCHANGED <<asked, answers>>,
             \A x \in Session : phase[x] # "idle" => phase'[x] # "idle"
      PROVE  AcceptedFirst'
  BY SMTT(30), <1>1 DEF Answer
<1>2. ASSUME NEW s \in Session, Handler(s) PROVE AcceptedFirst'
  <2>1. UNCHANGED <<asked, answers>>
    BY ZenonT(30), <1>2
       DEF Handler, ReadFailed, RejectDuplicate, Authenticate, FirewallReady,
           StartTransports, AwaitVerdict, AwaitFailure, Close, CancelReceived,
           CancelFinish, Timeout
  <2>2. CASE ReadFailed(s) \/ RejectDuplicate(s) \/ Authenticate(s)
    BY SMTT(30), <1>1, <2>1, <2>2 DEF ReadFailed, RejectDuplicate, Authenticate, Respond
  <2>3. CASE FirewallReady(s) \/ \E b \in BOOLEAN : StartTransports(s, b)
    BY ZenonT(30), <1>1, <2>1, <2>3 DEF FirewallReady, StartTransports
  <2>4. CASE \E t \in Transport : AwaitVerdict(s, t) \/ AwaitFailure(s, t)
    BY SMTT(30), <1>1, <2>1, <2>4 DEF AwaitVerdict, AwaitFailure, Respond
  <2>5. CASE Close(s) \/ CancelReceived(s) \/ CancelFinish(s) \/ Timeout(s)
    BY Zenon, <1>1, <2>1, <2>5 DEF Close, CancelReceived, CancelFinish, Timeout, Respond
  <2> QED
    BY SMTT(30), <1>2, <2>2, <2>3, <2>4, <2>5 DEF Handler
<1>3. ASSUME NEW s \in Session, NEW t \in Transport, TaskStep(s, t)
      PROVE  AcceptedFirst'
  <2>1. CASE TaskSend(s, t)
    <3>1. phase[s] # "idle"
      BY SMTT(30), <2>1 DEF TaskSend, Honest, IdleFresh, NoTasks
    <3> QED
      BY Zenon, <2>1, <3>1 DEF TaskSend, Answer
  <2>2. CASE TaskSendFails(s) \/ TaskRetry(s, t) \/ TaskExpire(s, t)
    BY SMTT(30), <1>1, <2>2 DEF TaskSendFails, TaskRetry, TaskExpire
  <2>3. CASE Receive(s, t)
    BY ZenonT(30), <1>1, <2>3 DEF Receive, RecvCorrupt, RecvForeign, RecvVerdict
  <2> QED
    BY Zenon, <1>3, <2>1, <2>2, <2>3 DEF TaskStep
<1>4. ASSUME NEW s \in Session, NEW p \in Phone, NEW t \in Transport,
             NEW v \in {"grant", "denial"}, PhoneAnswers(p, s, t, v)
      PROVE  AcceptedFirst'
  BY SMTT(30), <1>4 DEF PhoneAnswers, Answer
<1>5. CASE Environment
  <2>1. ASSUME NEW s \in Session, Accept(s) \/ PamCancel(s) \/ RecentExpires(s)
        PROVE  AcceptedFirst'
    BY Zenon, <1>1, <2>1 DEF Accept, PamCancel, RecentExpires
  <2>2. ASSUME NEW a \in answers, NEW x \in Session,
               Deliver(a, x) \/ DeliverCorrupt(a, x)
        PROVE  AcceptedFirst'
    BY SMTT(30), <1>1, <2>2 DEF Deliver, DeliverCorrupt, Arrive
  <2>3. ASSUME NEW d, Reload(d) \/ SaveToggles(d) PROVE AcceptedFirst'
    BY Zenon, <1>1, <2>3 DEF Reload, SaveToggles
  <2> QED
    BY ZenonT(30), <1>4, <1>5, <2>1, <2>2, <2>3 DEF Environment
<1>6. ASSUME NEW s \in Session, TimeoutCancel(s) PROVE AcceptedFirst'
  BY SMTT(30), <1>1, <1>6 DEF TimeoutCancel
<1>7. CASE UNCHANGED vars
  BY Zenon, <1>1, <1>7 DEF vars
<1> QED
  BY Zenon, <1>2, <1>3, <1>5, <1>6, <1>7 DEF Next

\* What the contract sees of a step that answers nobody.
LEMMA ContractStutters ==
  ASSUME TypeOK, UNCHANGED <<outcome, snap, answers>>, phase' \in [Session -> Phases],
         \A x \in Session : /\ phase'[x] = "idle" <=> phase[x] = "idle"
                            /\ phase'[x] = "done" <=> phase[x] = "done"
  PROVE  UNCHANGED Contract!contractVars
<1>1. ContractStatus' = ContractStatus
  BY Zenon DEF ContractStatus
<1>2. ContractReply' = ContractReply
  BY SMTT(30) DEF ContractReply, ReplyOf
<1>3. ContractDecided' = ContractDecided
  BY Zenon DEF ContractDecided, Paired
<1> QED
  BY Zenon, <1>1, <1>2, <1>3 DEF Contract!contractVars

\* A response is the contract's one answer to the request.
LEMMA ContractAnswers ==
  ASSUME TypeOK, NEW s \in Session, NEW o \in Outcomes \ {"none"}, Respond(s, o),
         phase[s] \notin {"idle", "done"}, UNCHANGED <<snap, answers>>,
         o = "success" => Said(s, "grant"),
         o = "denied" => Said(s, "denial")
  PROVE  Contract!Next
<1> DEFINE r == ReplyOf(s)'
<1>1. r = IF o \in {"duplicate", "ineligible", "failed", "cancelled"}
          THEN "ignore" ELSE o
  BY Zenon DEF TypeOK, Respond, ReplyOf
<1>2. r \in Contract!Replies
  BY Zenon, <1>1 DEF Contract!Replies, Outcomes
<1>3. ContractStatus[s] = "open"
  BY Zenon DEF ContractStatus
<1>4. ContractStatus' = [ContractStatus EXCEPT ![s] = "answered"]
  BY ZenonT(30) DEF TypeOK, Respond, ContractStatus
<1>5. ContractReply' = [ContractReply EXCEPT ![s] = r]
  BY ZenonT(30) DEF TypeOK, Respond, ContractReply, ReplyOf
<1>6. ContractDecided' = ContractDecided
  BY Zenon DEF ContractDecided, Paired
<1>7. ASSUME NEW v, Said(s, v) PROVE <<s, v>> \in ContractDecided
  BY Zenon, <1>7 DEF Said, ContractDecided
<1>8. Contract!Backed(s, r)
  BY Zenon, <1>1, <1>7 DEF Contract!Backed
<1> HIDE DEF r
<1>9. Contract!Answer(s, r)
  BY Zenon, <1>3, <1>4, <1>5, <1>6, <1>8 DEF Contract!Answer
<1> QED
  BY Zenon, <1>2, <1>9 DEF Contract!Next

\* Every step of the handler is the answer, or is not seen.
LEMMA HandlerMaps ==
  ASSUME TypeOK, TypeOK', Honest, NEW s \in Session, Handler(s)
  PROVE  [Contract!Next]_Contract!contractVars
<1> USE DEF envVars, pamVars, taskVars, cancelVars, netVars
<1>0. phase' \in [Session -> Phases] /\ phase \in [Session -> Phases]
  BY Zenon DEF TypeOK
<1>1. CASE ReadFailed(s)
  BY Zenon, <1>1, ContractAnswers DEF ReadFailed, Outcomes
<1>2. CASE RejectDuplicate(s)
  BY Zenon, <1>2, ContractAnswers DEF RejectDuplicate, Outcomes
<1>3. CASE Authenticate(s)
  <2>1. EarlyOutcome(s, toggles) \in {"none", "ineligible", "error"}
    BY Zenon DEF EarlyOutcome
  <2>2. CASE EarlyOutcome(s, toggles) # "none"
    BY SMTT(30), <1>3, <2>1, <2>2, ContractAnswers DEF Authenticate, Outcomes
  <2>3. CASE EarlyOutcome(s, toggles) = "none"
    BY SMTT(30), <1>0, <1>3, <2>3, ContractStutters DEF Authenticate
  <2> QED
    BY Zenon, <2>2, <2>3
<1>4. CASE FirewallReady(s)
  BY ZenonT(30), <1>0, <1>4, ContractStutters DEF FirewallReady
<1>5. CASE \E bleUp \in BOOLEAN : StartTransports(s, bleUp)
  BY SMTT(30), <1>0, <1>5, ContractStutters DEF StartTransports
<1>6. ASSUME NEW t \in Transport, AwaitVerdict(s, t)
      PROVE  UNCHANGED Contract!contractVars
  BY SMTT(30), <1>0, <1>6, ContractStutters DEF AwaitVerdict
<1>7. ASSUME NEW t \in Transport, AwaitFailure(s, t)
      PROVE  [Contract!Next]_Contract!contractVars
  <2>1. CASE noticed[s] \cup {t} = Transport
    BY SMTT(30), <1>7, <2>1, ContractAnswers DEF AwaitFailure, Outcomes
  <2>2. CASE noticed[s] \cup {t} # Transport
    BY Zenon, <1>0, <1>7, <2>2, ContractStutters DEF AwaitFailure
  <2> QED
    BY SMTT(30), <2>1, <2>2
<1>8. CASE Close(s)
  <2>1. /\ phase[s] = "granting" => Said(s, "grant")
        /\ phase[s] = "denying" => Said(s, "denial")
    BY Zenon DEF Honest, HandlersHonest
  <2>2. CASE phase[s] = "granting"
    BY Zenon, <1>8, <2>1, <2>2, ContractAnswers DEF Close, Outcomes
  <2>3. CASE phase[s] = "denying"
    BY SMTT(30), <1>8, <2>1, <2>3, ContractAnswers DEF Close, Outcomes
  <2> QED
    BY Zenon, <1>8, <2>2, <2>3 DEF Close
<1>9. CASE CancelReceived(s)
  BY Zenon, <1>0, <1>9, ContractStutters DEF CancelReceived
<1>10. CASE CancelFinish(s)
  BY Zenon, <1>10, ContractAnswers DEF CancelFinish, Outcomes
<1>11. CASE Timeout(s)
  BY Zenon, <1>11, ContractAnswers DEF Timeout, Outcomes
<1> QED
  BY SMTT(30), <1>1, <1>2, <1>3, <1>4, <1>5, <1>6, <1>7, <1>8, <1>9, <1>10, <1>11
     DEF Handler

\* The connection is accepted: the contract's Submit.
LEMMA AcceptMaps ==
  ASSUME TypeOK, AcceptedFirst, NEW s \in Session, Accept(s)
  PROVE  Contract!Next
<1> USE DEF envVars, pamVars, taskVars, cancelVars, netVars
<1>1. ContractStatus[s] = "new"
  BY Zenon DEF Accept, ContractStatus
<1>2. ContractStatus' = [ContractStatus EXCEPT ![s] = "open"]
  BY ZenonT(30) DEF TypeOK, Accept, ContractStatus
<1>3. ContractReply' = ContractReply
  BY Zenon DEF Accept, ContractReply, ReplyOf
<1>4. \A a \in answers : a.ch \in Session /\ a.ch # s
  BY Zenon DEF TypeOK, AcceptedFirst, Accept, Answer
<1>5. \A a \in answers : snap'[a.ch] = snap[a.ch]
  BY Zenon, <1>4 DEF TypeOK, Accept
<1>6. ContractDecided' = ContractDecided
  BY ZenonT(30), <1>5 DEF ContractDecided, Paired, Accept
<1>7. Contract!Submit(s)
  BY Zenon, <1>1, <1>2, <1>3, <1>6 DEF Contract!Submit
<1> QED
  BY Zenon, <1>7 DEF Contract!Next

\* A phone answers: the contract's Decide, unless the session does not trust
\* it or another phone has decided the same.
LEMMA PhoneMaps ==
  ASSUME TypeOK, AcceptedFirst, NEW p \in Phone, NEW s \in Session,
         NEW t \in Transport, NEW v \in {"grant", "denial"}, PhoneAnswers(p, s, t, v)
  PROVE  [Contract!Next]_Contract!contractVars
<1> USE DEF envVars, pamVars, taskVars, cancelVars, netVars
<1> DEFINE new == [from |-> p, ch |-> s, verdict |-> v, via |-> t]
<1>1. ContractStatus' = ContractStatus /\ ContractReply' = ContractReply
  BY SMTT(30) DEF PhoneAnswers, ContractStatus, ContractReply, ReplyOf
<1>2. answers' = answers \cup {new} /\ snap' = snap
  BY SMTT(30) DEF PhoneAnswers
<1>3. /\ p \in Paired(snap[s]) => ContractDecided' = ContractDecided \cup {<<s, v>>}
      /\ p \notin Paired(snap[s]) => ContractDecided' = ContractDecided
  <2> DEFINE trusted == {x \in answers : x.from \in Paired(snap[x.ch])}
  <2>1. /\ new.from = p /\ new.ch = s /\ new.verdict = v
    BY Zenon
  <2> HIDE DEF new
  <2>2. ContractDecided = {<<x.ch, x.verdict>> : x \in trusted}
    BY SMTT(30) DEF ContractDecided
  <2>3. ContractDecided' = {<<x.ch, x.verdict>> : x \in
             {x \in answers \cup {new} : x.from \in Paired(snap[x.ch])}}
    BY SMTT(30), <1>2 DEF ContractDecided, Paired
  <2>4. {x \in answers \cup {new} : x.from \in Paired(snap[x.ch])}
          = IF p \in Paired(snap[s]) THEN trusted \cup {new} ELSE trusted
    BY SMTT(30), <2>1
  <2> HIDE DEF trusted
  <2> QED
    BY SMTT(30), <2>1, <2>2, <2>3, <2>4
<1>4. ContractStatus[s] # "new"
  BY Zenon DEF ContractStatus, AcceptedFirst, PhoneAnswers
<1>5. CASE ContractDecided' = ContractDecided
  BY Zenon, <1>1, <1>5 DEF Contract!contractVars
<1>6. CASE ContractDecided' = ContractDecided \cup {<<s, v>>} /\ <<s, v>> \notin ContractDecided
  <2>1. Contract!Decide(s, v)
    BY Zenon, <1>1, <1>4, <1>6 DEF Contract!Decide
  <2>2. v \in Contract!Decisions
    BY Zenon DEF Contract!Decisions
  <2> QED
    BY Zenon, <2>1, <2>2 DEF Contract!Next
<1> QED
  BY SMTT(30), <1>3, <1>5, <1>6

LEMMA StepMaps ==
  TypeOK /\ TypeOK' /\ Honest /\ AcceptedFirst /\ [Next]_vars
    => [Contract!Next]_Contract!contractVars
<1> SUFFICES ASSUME TypeOK, TypeOK', Honest, AcceptedFirst, [Next]_vars
             PROVE  [Contract!Next]_Contract!contractVars
  BY Zenon
<1> USE DEF envVars, pamVars, taskVars, cancelVars, netVars
<1>0. phase \in [Session -> Phases]
  BY Zenon DEF TypeOK
<1>1. ASSUME UNCHANGED <<phase, outcome, snap, answers>>
      PROVE  UNCHANGED Contract!contractVars
  BY SMTT(30), <1>0, <1>1, ContractStutters
<1>2. ASSUME NEW s \in Session, NEW t \in Transport, TaskStep(s, t)
      PROVE  UNCHANGED Contract!contractVars
  BY ZenonT(30), <1>1, <1>2
     DEF TaskStep, TaskSend, TaskSendFails, TaskRetry, TaskExpire, Receive,
         RecvCorrupt, RecvForeign, RecvVerdict
<1>3. CASE Environment
  <2>1. ASSUME NEW s \in Session, PamCancel(s) \/ RecentExpires(s)
        PROVE  UNCHANGED Contract!contractVars
    BY Zenon, <1>1, <2>1 DEF PamCancel, RecentExpires
  <2>2. ASSUME NEW a \in answers, NEW x \in Session,
               Deliver(a, x) \/ DeliverCorrupt(a, x)
        PROVE  UNCHANGED Contract!contractVars
    BY Zenon, <1>1, <2>2 DEF Deliver, DeliverCorrupt, Arrive
  <2>3. ASSUME NEW d, Reload(d) \/ SaveToggles(d)
        PROVE  UNCHANGED Contract!contractVars
    BY Zenon, <1>1, <2>3 DEF Reload, SaveToggles
  <2> QED
    BY SMTT(30), <1>3, <2>1, <2>2, <2>3, AcceptMaps, PhoneMaps DEF Environment
<1>4. ASSUME NEW s \in Session, TimeoutCancel(s)
      PROVE  UNCHANGED Contract!contractVars
  BY Zenon, <1>1, <1>4 DEF TimeoutCancel
<1>5. CASE UNCHANGED vars
  BY Zenon, <1>1, <1>5 DEF vars
<1> QED
  BY Zenon, <1>2, <1>3, <1>4, <1>5, HandlerMaps DEF Next

\* The daemon implements the contract the PAM module relies on: each request
\* is answered at most once, and with a verdict only when a phone of the
\* session's snapshot decided so for this very request, for any number of
\* sessions, phones and reloads (handle_conn, AuthSession).
THEOREM ImplementsContract == Spec => KeepsContract
<1>1. Init => Contract!Init
  <2> SUFFICES ASSUME Init PROVE Contract!Init
    BY Zenon
  <2>1. ContractStatus = [r \in Session |-> "new"]
    BY Zenon DEF Init, ContractStatus
  <2>2. ContractReply = [r \in Session |-> "none"]
    BY SMTT(30) DEF Init, ContractReply, ReplyOf
  <2>3. ContractDecided = {}
    BY Zenon DEF Init, ContractDecided
  <2> QED
    BY Zenon, <2>1, <2>2, <2>3 DEF Contract!Init
<1> QED
  BY <1>1, TypeInit, TypeNext, HonestInit, HonestNext, AcceptedFirstInit,
     AcceptedFirstNext, StepMaps, PTL DEF Spec, KeepsContract, Contract!Spec

=============================================================================
