----------------------------- MODULE AuthDaemon -----------------------------
(***************************************************************************)
(* The authentication side of tapauthd (main.rs, auth_handler.rs and the   *)
(* two transports as auth_handler.rs uses them), built with its default    *)
(* features.                                                               *)
(*                                                                         *)
(* A session is one IPC connection on which the PAM module asks for an     *)
(* authentication; its request id and its challenge are fresh random       *)
(* values, so the session itself stands for both.  Each session races two  *)
(* tasks, one per transport, against a PamCancel and against a timeout.    *)
(* All UDP tasks receive from ONE socket (DaemonState.udp_socket); every   *)
(* BLE task has a response queue of its own.                               *)
(***************************************************************************)
EXTENDS Naturals, FiniteSets

CONSTANTS
    Session,       \* IPC connections carrying a PamAuthenticateRequest
    User,          \* user names
    Phone,         \* phones that hold, or once held, the client's key
    DaemonStates,  \* the DaemonState values an admin reload may install
    Configs        \* the transport toggles the TOML file may hold

Transport == {"ble", "udp"}

DaemonState == [allowed : [Phone -> SUBSET User], healthy : BOOLEAN]
Toggles == [network : BOOLEAN, ble : BOOLEAN]

ASSUME DaemonStatesAssumption == DaemonStates \subseteq DaemonState
ASSUME ConfigsAssumption == Configs \subseteq Toggles

VARIABLES
    daemon,     \* ServerState.daemon: the live DaemonState
    toggles,    \* the transport toggles of the TOML file
    recent,     \* recent_requests entries younger than DEDUP_WINDOW (1 s), each
                \* named by the session that made it
    phase,      \* where each session's handler is
    user,       \* the user each session authenticates
    snap,       \* the DaemonState a session captured when it was accepted
    enabled,    \* TransportsEnabled of the session
    outcome,    \* why the session was answered
    task,       \* state of the session's two transport tasks
    noticed,    \* tasks whose failure await_auth_result has seen
    registry,   \* cancel_registry: sessions whose sender is stored
    signal,     \* sessions whose oneshot cancel channel has fired
    cancelled,  \* sessions whose PamCancelRequest has been answered
    asked,      \* <<session, transport>> on which the request went out
    answers,    \* verdicts the phones have signed
    udpIn,      \* datagrams waiting in the daemon's UDP socket
    bleIn,      \* response_queue of each session's BLE transport
    confirmed,  \* <<session, transport>> with a published GrantConfirmation
    cancelDue,  \* sessions whose timeout spawned a send_cancel not yet run
    cancelSent  \* sessions whose AuthenticationCancel was multicast

pamVars == <<phase, user, snap, enabled, outcome>>
taskVars == <<task, noticed>>
cancelVars == <<registry, signal, cancelled>>
netVars == <<asked, answers, udpIn, bleIn, confirmed, cancelDue, cancelSent>>
envVars == <<daemon, toggles, recent>>
vars == <<daemon, toggles, recent, phase, user, snap, enabled, outcome, task,
          noticed, registry, signal, cancelled, asked, answers, udpIn, bleIn,
          confirmed, cancelDue, cancelSent>>

Phases == {"idle", "accepted", "firewall", "init", "waiting",
           "granting", "denying", "draining", "done"}

\* What a session was answered with.  "duplicate", "ineligible", "failed" and
\* "cancelled" all reach the PAM module as PamOutcome::Ignore.
Outcomes == {"none", "closed", "duplicate", "ineligible", "error", "success",
             "denied", "failed", "cancelled", "timeout"}

TaskStates == {"none", "send", "recv", "granted", "denied", "failed",
               "aborted"}

\* A signed verdict.  "corrupt" is a copy that no longer decodes or decrypts.
Answer == [from : Phone, ch : Session, verdict : {"grant", "denial"},
           via : Transport]
Datagram == [from : Phone, ch : Session,
             verdict : {"grant", "denial", "corrupt"}, via : Transport]

Running(s, t) == task[s][t] \in {"send", "recv"}

\* The servers whose keys a session verifies responses with.
Paired(d) == {p \in Phone : d.allowed[p] # {}}

\* AuthSession::handle_authenticate starts the transports only for a user some
\* paired server may authenticate.
AllowedFor(d, u) == {p \in Phone : u \in d.allowed[p]}

NoTasks == [t \in Transport |-> "none"]

TypeOK ==
    /\ daemon \in DaemonState
    /\ toggles \in Toggles
    /\ recent \subseteq Session
    /\ phase \in [Session -> Phases]
    /\ user \in [Session -> User]
    /\ snap \in [Session -> DaemonState]
    /\ enabled \in [Session -> Toggles]
    /\ outcome \in [Session -> Outcomes]
    /\ task \in [Session -> [Transport -> TaskStates]]
    /\ noticed \in [Session -> SUBSET Transport]
    /\ registry \subseteq Session
    /\ signal \subseteq Session
    /\ cancelled \subseteq Session
    /\ asked \subseteq Session \X Transport
    /\ answers \subseteq Answer
    /\ udpIn \subseteq Datagram
    /\ bleIn \in [Session -> SUBSET Datagram]
    /\ confirmed \subseteq Session \X Transport
    /\ cancelDue \subseteq Session
    /\ cancelSent \subseteq Session

Init ==
    /\ daemon \in DaemonStates
    /\ toggles \in Configs
    /\ recent = {}
    /\ phase = [s \in Session |-> "idle"]
    /\ user \in [Session -> User]
    /\ snap = [s \in Session |-> daemon]
    /\ enabled = [s \in Session |-> toggles]
    /\ outcome = [s \in Session |-> "none"]
    /\ task = [s \in Session |-> NoTasks]
    /\ noticed = [s \in Session |-> {}]
    /\ registry = {}
    /\ signal = {}
    /\ cancelled = {}
    /\ asked = {}
    /\ answers = {}
    /\ udpIn = {}
    /\ bleIn = [s \in Session |-> {}]
    /\ confirmed = {}
    /\ cancelDue = {}
    /\ cancelSent = {}

-----------------------------------------------------------------------------
(* The IPC connection and the dispatch of a PamAuthenticateRequest. *)

\* main's accept loop: the snapshot is taken before the request is read.
Accept(s) ==
    /\ phase[s] = "idle"
    /\ phase' = [phase EXCEPT ![s] = "accepted"]
    /\ snap' = [snap EXCEPT ![s] = daemon]
    /\ UNCHANGED <<user, enabled, outcome>>
    /\ UNCHANGED <<envVars, taskVars, cancelVars, netVars>>

\* Answer session s with outcome o.
Respond(s, o) ==
    /\ phase' = [phase EXCEPT ![s] = "done"]
    /\ outcome' = [outcome EXCEPT ![s] = o]

\* handle_conn: the 3 s read timeout, a broken frame, or an empty frame.
ReadFailed(s) ==
    /\ phase[s] = "accepted"
    /\ Respond(s, "closed")
    /\ UNCHANGED <<user, snap, enabled>>
    /\ UNCHANGED <<envVars, taskVars, cancelVars, netVars>>

\* is_duplicate of handle_pam_authenticate.
IsDuplicate(s) == \E x \in recent : user[x] = user[s]

RejectDuplicate(s) ==
    /\ phase[s] = "accepted"
    /\ IsDuplicate(s)
    /\ Respond(s, "duplicate")
    /\ UNCHANGED <<user, snap, enabled>>
    /\ UNCHANGED <<envVars, taskVars, cancelVars, netVars>>

\* The early returns of handle_authenticate, in the code's order.
EarlyOutcome(s, tg) ==
    IF ~(tg.network \/ tg.ble) THEN "ineligible"
    ELSE IF Paired(snap[s]) = {} THEN "ineligible"
    ELSE IF ~snap[s].healthy THEN "error"
    ELSE IF AllowedFor(snap[s], user[s]) = {} THEN "ineligible"
    ELSE "none"

\* handle_pam_authenticate up to the first await of handle_authenticate.  The
\* toggles are read afresh; with the network transport on, the firewall port
\* is opened first, outside the session's timeout.
Authenticate(s) ==
    /\ phase[s] = "accepted"
    /\ ~IsDuplicate(s)
    /\ recent' = recent \cup {s}
    /\ enabled' = [enabled EXCEPT ![s] = toggles]
    /\ LET early == EarlyOutcome(s, toggles)
       IN  IF early # "none"
           THEN Respond(s, early)
           ELSE /\ phase' = [phase EXCEPT
                               ![s] = IF toggles.network THEN "firewall"
                                                         ELSE "init"]
                /\ UNCHANGED outcome
    /\ UNCHANGED <<user, snap, daemon, toggles>>
    /\ UNCHANGED <<taskVars, cancelVars, netVars>>

\* FirewallGuard::new returned; its failure is logged and ignored.
FirewallReady(s) ==
    /\ phase[s] = "firewall"
    /\ phase' = [phase EXCEPT ![s] = "init"]
    /\ UNCHANGED <<user, snap, enabled, outcome>>
    /\ UNCHANGED <<envVars, taskVars, cancelVars, netVars>>

\* Mutant: a transport that is off gets no task at all.
StartTransportsNoFailedTask(s, bleUp) ==
    /\ phase[s] = "init"
    /\ bleUp => enabled[s].ble
    /\ phase' = [phase EXCEPT ![s] = "waiting"]
    /\ registry' = registry \cup {s}
    /\ task' = [task EXCEPT ![s] =
                  [t \in {x \in Transport :
                            \/ x = "ble" /\ bleUp
                            \/ x = "udp" /\ enabled[s].network} |-> "send"]]
    /\ UNCHANGED <<user, snap, enabled, outcome, noticed, signal, cancelled>>
    /\ UNCHANGED <<envVars, netVars>>

\* try_parallel_authentication once initialize_transports has returned: the
\* cancel sender is stored and both tasks are spawned.  A transport that is
\* disabled, or whose BleTransport::new failed, is a task that has failed.
StartTransports(s, bleUp) ==
    /\ phase[s] = "init"
    /\ bleUp => enabled[s].ble
    /\ phase' = [phase EXCEPT ![s] = "waiting"]
    /\ registry' = registry \cup {s}
    /\ task' = [task EXCEPT ![s] =
                  [t \in Transport |->
                     IF (t = "ble" /\ bleUp) \/ (t = "udp" /\ enabled[s].network)
                     THEN "send" ELSE "failed"]]
    /\ UNCHANGED <<user, snap, enabled, outcome, noticed, signal, cancelled>>
    /\ UNCHANGED <<envVars, netVars>>

-----------------------------------------------------------------------------
(* One transport task: authenticate_with_transport and wait_for_response.  *)

SetTask(s, t, st) == task' = [task EXCEPT ![s][t] = st]

\* send_request: a multicast over UDP, the first time advertising and a GATT
\* application over BLE.
TaskSend(s, t) ==
    /\ task[s][t] = "send"
    /\ SetTask(s, t, "recv")
    /\ asked' = asked \cup {<<s, t>>}
    /\ UNCHANGED <<answers, udpIn, bleIn, confirmed, cancelDue, cancelSent>>
    /\ UNCHANGED <<envVars, pamVars, noticed, cancelVars>>

\* Only BLE's send_request can fail; UDP logs its failures.
TaskSendFails(s) ==
    /\ task[s]["ble"] = "send"
    /\ SetTask(s, "ble", "failed")
    /\ UNCHANGED <<envVars, pamVars, noticed, cancelVars, netVars>>

\* receive_response timed out; the request is sent again.
TaskRetry(s, t) ==
    /\ task[s][t] = "recv"
    /\ SetTask(s, t, "send")
    /\ UNCHANGED <<envVars, pamVars, noticed, cancelVars, netVars>>

\* Mutant: the session timeout is kept by the handler, not by the task.
TaskExpireWithHandler(s, t) ==
    /\ task[s][t] = "send"
    /\ s \notin recent
    /\ phase[s] # "done"
    /\ SetTask(s, t, "failed")
    /\ UNCHANGED <<envVars, pamVars, noticed, cancelVars, netVars>>

\* The 120 s session timeout, looked at only at the top of the loop.
TaskExpire(s, t) ==
    /\ task[s][t] = "send"
    /\ s \notin recent
    /\ SetTask(s, t, "failed")
    /\ UNCHANGED <<envVars, pamVars, noticed, cancelVars, netVars>>

\* Take datagram d out of the queue task <<s, t>> reads: the shared socket or
\* the session's own BLE queue.
Take(s, t, d) ==
    \/ /\ t = "udp"
       /\ d \in udpIn
       /\ udpIn' = udpIn \ {d}
       /\ UNCHANGED bleIn
    \/ /\ t = "ble"
       /\ d \in bleIn[s]
       /\ bleIn' = [bleIn EXCEPT ![s] = @ \ {d}]
       /\ UNCHANGED udpIn

\* A packet that does not decode or decrypt ends the UDP task; the BLE
\* transport skips it and keeps polling its queue.
RecvCorrupt(s, t, d) ==
    /\ task[s][t] = "recv"
    /\ Take(s, t, d)
    /\ d.verdict = "corrupt"
    /\ SetTask(s, t, IF t = "udp" THEN "failed" ELSE "recv")
    /\ UNCHANGED <<asked, answers, confirmed, cancelDue, cancelSent>>
    /\ UNCHANGED <<envVars, pamVars, noticed, cancelVars>>

\* Mutant: the challenge of a response is not compared.
GenuineAnyChallenge(s, d) == d.from \in Paired(snap[s])

\* verify_response_signature, and the challenge checks of handle_auth_grant
\* and handle_auth_denial: a server of the snapshot signed it for this session.
Genuine(s, d) == d.from \in Paired(snap[s]) /\ d.ch = s

\* Mutant: the confirmation goes out before the response is verified.
RecvForeignConfirmed(s, t, d) ==
    /\ task[s][t] = "recv"
    /\ Take(s, t, d)
    /\ d.verdict # "corrupt"
    /\ ~Genuine(s, d)
    /\ SetTask(s, t, "send")
    /\ confirmed' = confirmed \cup {<<s, t>>}
    /\ UNCHANGED <<asked, answers, cancelDue, cancelSent>>
    /\ UNCHANGED <<envVars, pamVars, noticed, cancelVars>>

\* Anything else that decrypts is dropped and the request is sent again.  (A
\* packet already in the task's nonce cache was dropped before: same step.)
\* BLE stores its confirmation before auth_handler verifies the response.
RecvForeign(s, t, d) ==
    /\ task[s][t] = "recv"
    /\ Take(s, t, d)
    /\ d.verdict # "corrupt"
    /\ ~Genuine(s, d)
    /\ SetTask(s, t, "send")
    /\ confirmed' = IF t = "ble" THEN confirmed \cup {<<s, t>>} ELSE confirmed
    /\ UNCHANGED <<asked, answers, cancelDue, cancelSent>>
    /\ UNCHANGED <<envVars, pamVars, noticed, cancelVars>>

\* process_auth_response: the verdict is the task's result.
RecvVerdict(s, t, d) ==
    /\ task[s][t] = "recv"
    /\ Take(s, t, d)
    /\ d.verdict # "corrupt"
    /\ Genuine(s, d)
    /\ SetTask(s, t, IF d.verdict = "grant" THEN "granted" ELSE "denied")
    /\ confirmed' = confirmed \cup {<<s, t>>}
    /\ UNCHANGED <<asked, answers, cancelDue, cancelSent>>
    /\ UNCHANGED <<envVars, pamVars, noticed, cancelVars>>

-----------------------------------------------------------------------------
(* await_auth_result, the cancel registry and the session's timeout.       *)

\* AbortHandle::abort: a task that has not finished never runs again.
Abort(s, ts) ==
    task' = [task EXCEPT ![s] =
               [t \in Transport |->
                  IF t \in ts /\ Running(s, t) THEN "aborted" ELSE task[s][t]]]

\* select! took the result of a task that granted or denied: the other task is
\* aborted and the AuthenticationCancel is about to be multicast.
AwaitVerdict(s, t) ==
    /\ phase[s] = "waiting"
    /\ task[s][t] \in {"granted", "denied"}
    /\ phase' = [phase EXCEPT ![s] = IF task[s][t] = "granted" THEN "granting"
                                                               ELSE "denying"]
    /\ Abort(s, Transport \ {t})
    /\ UNCHANGED <<user, snap, enabled, outcome, noticed>>
    /\ UNCHANGED <<envVars, cancelVars, netVars>>

\* Mutant: the first failure ends the session.
AwaitFailureGivesUp(s, t) ==
    /\ phase[s] = "waiting"
    /\ t \notin noticed[s]
    /\ task[s][t] = "failed"
    /\ noticed' = [noticed EXCEPT ![s] = @ \cup {t}]
    /\ Respond(s, "failed")
    /\ UNCHANGED <<user, snap, enabled, task>>
    /\ UNCHANGED <<envVars, cancelVars, netVars>>

\* select! took the result of a task that failed: the loop goes on with the
\* other one and gives up when both have failed.
AwaitFailure(s, t) ==
    /\ phase[s] = "waiting"
    /\ t \notin noticed[s]
    /\ task[s][t] = "failed"
    /\ noticed' = [noticed EXCEPT ![s] = @ \cup {t}]
    /\ IF noticed[s] \cup {t} = Transport
       THEN Respond(s, "failed")
       ELSE UNCHANGED <<phase, outcome>>
    /\ UNCHANGED <<user, snap, enabled, task>>
    /\ UNCHANGED <<envVars, cancelVars, netVars>>

\* send_cancel of UdpTransport, skipped when the network transport is off.
MulticastCancel(s) ==
    cancelSent' = IF enabled[s].network THEN cancelSent \cup {s} ELSE cancelSent

\* multicast_cancel_on_success and cleanup_transports have returned.
Close(s) ==
    /\ phase[s] \in {"granting", "denying"}
    /\ MulticastCancel(s)
    /\ Respond(s, IF phase[s] = "granting" THEN "success" ELSE "denied")
    /\ UNCHANGED <<user, snap, enabled>>
    /\ UNCHANGED <<asked, answers, udpIn, bleIn, confirmed, cancelDue>>
    /\ UNCHANGED <<envVars, taskVars, cancelVars>>

\* select! took the cancel branch; handle_cancellation multicasts the cancel
\* and then sleeps 100 ms while the tasks go on.
CancelReceived(s) ==
    /\ phase[s] = "waiting"
    /\ s \in signal
    /\ phase' = [phase EXCEPT ![s] = "draining"]
    /\ MulticastCancel(s)
    /\ UNCHANGED <<user, snap, enabled, outcome>>
    /\ UNCHANGED <<asked, answers, udpIn, bleIn, confirmed, cancelDue>>
    /\ UNCHANGED <<envVars, taskVars, cancelVars>>

\* Mutant: the tasks are left alone.
CancelFinishNoAbort(s) ==
    /\ phase[s] = "draining"
    /\ Respond(s, "cancelled")
    /\ UNCHANGED <<user, snap, enabled, taskVars>>
    /\ UNCHANGED <<envVars, cancelVars, netVars>>

\* The end of handle_cancellation.
CancelFinish(s) ==
    /\ phase[s] = "draining"
    /\ Abort(s, Transport)
    /\ Respond(s, "cancelled")
    /\ UNCHANGED <<user, snap, enabled, noticed>>
    /\ UNCHANGED <<envVars, cancelVars, netVars>>

\* Mutant: only the wait for a verdict is under the timeout.
TimeoutWhileWaiting(s) ==
    /\ phase[s] = "waiting"
    /\ s \notin recent
    /\ Respond(s, "timeout")
    /\ cancelDue' = IF enabled[s].network THEN cancelDue \cup {s} ELSE cancelDue
    /\ UNCHANGED <<user, snap, enabled>>
    /\ UNCHANGED <<asked, answers, udpIn, bleIn, confirmed, cancelSent>>
    /\ UNCHANGED <<envVars, taskVars, cancelVars>>

\* Mutant: the phones are not told of the timeout.
TimeoutSilent(s) ==
    /\ phase[s] \in {"init", "waiting", "granting", "denying", "draining"}
    /\ s \notin recent
    /\ Respond(s, "timeout")
    /\ UNCHANGED <<user, snap, enabled>>
    /\ UNCHANGED <<envVars, taskVars, cancelVars, netVars>>

\* Mutant: the timer is not dropped with the session it belongs to.
TimeoutAnyPhase(s) ==
    /\ phase[s] \in {"init", "waiting", "granting", "denying", "draining", "done"}
    /\ s \notin recent
    /\ Respond(s, "timeout")
    /\ cancelDue' = IF enabled[s].network THEN cancelDue \cup {s} ELSE cancelDue
    /\ UNCHANGED <<user, snap, enabled>>
    /\ UNCHANGED <<asked, answers, udpIn, bleIn, confirmed, cancelSent>>
    /\ UNCHANGED <<envVars, taskVars, cancelVars>>

\* tokio::time::timeout drops try_parallel_authentication wherever it is: its
\* JoinHandles are dropped, which detaches the tasks without stopping them.
\* The timeout PAM asks for is at least DEDUP_WINDOW.
Timeout(s) ==
    /\ phase[s] \in {"init", "waiting", "granting", "denying", "draining"}
    /\ s \notin recent
    /\ Respond(s, "timeout")
    /\ cancelDue' = IF enabled[s].network THEN cancelDue \cup {s} ELSE cancelDue
    /\ UNCHANGED <<user, snap, enabled>>
    /\ UNCHANGED <<asked, answers, udpIn, bleIn, confirmed, cancelSent>>
    /\ UNCHANGED <<envVars, taskVars, cancelVars>>

\* The task the timeout spawned multicasts the cancel.
TimeoutCancel(s) ==
    /\ s \in cancelDue
    /\ cancelDue' = cancelDue \ {s}
    /\ cancelSent' = cancelSent \cup {s}
    /\ UNCHANGED <<asked, answers, udpIn, bleIn, confirmed>>
    /\ UNCHANGED <<envVars, pamVars, taskVars, cancelVars>>

\* handle_pam_cancel, on another connection of the PAM module, at any time
\* after it opened the session's own.  A missing entry is not an error.
PamCancel(s) ==
    /\ phase[s] # "idle"
    /\ s \notin cancelled
    /\ cancelled' = cancelled \cup {s}
    /\ registry' = registry \ {s}
    /\ signal' = IF s \in registry THEN signal \cup {s} ELSE signal
    /\ UNCHANGED <<envVars, pamVars, taskVars, netVars>>

-----------------------------------------------------------------------------
(* The environment: the phones, the network, the administrator, the clock. *)

\* The user of phone p answers the request it received over t, once.
PhoneAnswers(p, s, t, v) ==
    /\ <<s, t>> \in asked
    /\ \A a \in answers : ~(a.from = p /\ a.ch = s)
    /\ answers' = answers \cup {[from |-> p, ch |-> s, verdict |-> v, via |-> t]}
    /\ UNCHANGED <<asked, udpIn, bleIn, confirmed, cancelDue, cancelSent>>
    /\ UNCHANGED <<envVars, pamVars, taskVars, cancelVars>>

\* A (re)transmission of an answer reaches the daemon as d, over UDP in the
\* shared socket, over BLE in the queue of some session x that is advertising.
Arrive(d, x) ==
    /\ IF d.via = "udp"
       THEN udpIn' = udpIn \cup {d} /\ UNCHANGED bleIn
       ELSE /\ <<x, "ble">> \in asked
            /\ bleIn' = [bleIn EXCEPT ![x] = @ \cup {d}]
            /\ UNCHANGED udpIn
    /\ UNCHANGED <<asked, answers, confirmed, cancelDue, cancelSent>>
    /\ UNCHANGED <<envVars, pamVars, taskVars, cancelVars>>

Deliver(a, x) == a \in answers /\ Arrive(a, x)

DeliverCorrupt(a, x) ==
    a \in answers /\ Arrive([a EXCEPT !.verdict = "corrupt"], x)

\* handle_admin_request installed a reloaded DaemonState.
Reload(d) ==
    /\ daemon # d
    /\ daemon' = d
    /\ UNCHANGED <<toggles, recent>>
    /\ UNCHANGED <<pamVars, taskVars, cancelVars, netVars>>

\* handle_save_config wrote new toggles.
SaveToggles(c) ==
    /\ toggles # c
    /\ toggles' = c
    /\ UNCHANGED <<daemon, recent>>
    /\ UNCHANGED <<pamVars, taskVars, cancelVars, netVars>>

\* A recent_requests entry reaches the age of DEDUP_WINDOW.
RecentExpires(s) ==
    /\ s \in recent
    /\ recent' = recent \ {s}
    /\ UNCHANGED <<daemon, toggles>>
    /\ UNCHANGED <<pamVars, taskVars, cancelVars, netVars>>

-----------------------------------------------------------------------------

\* Steps of the handler of session s.
Handler(s) ==
    \/ ReadFailed(s)
    \/ RejectDuplicate(s)
    \/ Authenticate(s)
    \/ FirewallReady(s)
    \/ \E bleUp \in BOOLEAN : StartTransports(s, bleUp)
    \/ \E t \in Transport : AwaitVerdict(s, t) \/ AwaitFailure(s, t)
    \/ Close(s)
    \/ CancelReceived(s)
    \/ CancelFinish(s)
    \/ Timeout(s)

Receive(s, t) ==
    \E d \in udpIn \cup bleIn[s] :
        RecvCorrupt(s, t, d) \/ RecvForeign(s, t, d) \/ RecvVerdict(s, t, d)

\* Steps of one transport task.
TaskStep(s, t) ==
    \/ TaskSend(s, t)
    \/ t = "ble" /\ TaskSendFails(s)
    \/ TaskRetry(s, t)
    \/ TaskExpire(s, t)
    \/ Receive(s, t)

Environment ==
    \/ \E s \in Session : Accept(s) \/ PamCancel(s) \/ RecentExpires(s)
    \/ \E p \in Phone, s \in Session, t \in Transport, v \in {"grant", "denial"} :
         PhoneAnswers(p, s, t, v)
    \/ \E a \in answers, x \in Session : Deliver(a, x) \/ DeliverCorrupt(a, x)
    \/ \E d \in DaemonStates : Reload(d)
    \/ \E c \in Configs : SaveToggles(c)

Next ==
    \/ \E s \in Session : Handler(s) \/ TimeoutCancel(s)
    \/ \E s \in Session, t \in Transport : TaskStep(s, t)
    \/ Environment

Spec == Init /\ [][Next]_vars

\* The handler of a session and its tasks are scheduled by tokio; the timeout
\* is a timer.  TaskExpire needs strong fairness: the clock is read at the top
\* of a loop, and once 120 s have passed every such reading ends the task.
\* The firewall command (FirewallReady) and the BlueZ calls of send_request
\* (TaskSend, TaskSendFails) are assumed to return, whatever they return.
\* Nothing is assumed of the network, the phones or the PAM module.
Fairness ==
    \A s \in Session :
        /\ WF_vars(ReadFailed(s) \/ RejectDuplicate(s) \/ Authenticate(s))
        /\ WF_vars(RecentExpires(s))
        /\ WF_vars(FirewallReady(s))
        /\ WF_vars(Timeout(s))
        /\ WF_vars(TimeoutCancel(s))
        /\ \A t \in Transport :
             /\ WF_vars(TaskSend(s, t) \/ TaskRetry(s, t))
             /\ SF_vars(TaskExpire(s, t))

FairSpec == Spec /\ Fairness

-----------------------------------------------------------------------------
(* Properties.                                                             *)

\* PAM is told Success (Denied) only if a server of the session's own snapshot
\* granted (denied) THIS session's challenge, although every UDP task reads
\* the answers to every session from the shared socket (handle_auth_grant,
\* handle_auth_denial).
VerdictIsGenuine ==
    \A s \in Session :
        /\ outcome[s] = "success" =>
             \E a \in answers : /\ a.ch = s
                                /\ a.verdict = "grant"
                                /\ a.from \in Paired(snap[s])
        /\ outcome[s] = "denied" =>
             \E a \in answers : /\ a.ch = s
                                /\ a.verdict = "denial"
                                /\ a.from \in Paired(snap[s])

\* A session gives up for lack of transports only when both of them failed: a
\* failure of one never hides a verdict of the other (await_auth_result).
FailureIsTotal ==
    \A s \in Session :
        outcome[s] = "failed" => \A t \in Transport : task[s][t] = "failed"

\* Except after a timeout, no transport task outlives the answer to PAM.
QuietAfterAnswer ==
    \A s \in Session :
        phase[s] = "done" /\ outcome[s] # "timeout" =>
            \A t \in Transport : ~Running(s, t)

\* Once a request went out over the network, its session ends only with an
\* AuthenticationCancel multicast or about to be, so that phones can dismiss
\* their prompts; the exception is the session whose transports both failed.
PhonesAreTold ==
    \A s \in Session :
        phase[s] = "done" /\ outcome[s] # "failed" /\ <<s, "udp">> \in asked =>
            s \in cancelSent \cup cancelDue

\* Over UDP a GrantConfirmation is sent only for a verdict the task verified
\* (send_confirmation_background is called after the checks).
UdpConfirmedAfterVerification ==
    \A s \in Session :
        <<s, "udp">> \in confirmed => task[s]["udp"] \in {"granted", "denied"}

\* The transport tasks of an answered session come to rest, the detached ones
\* of a session that timed out included (the 120 s session timeout).
TransportsWindDown ==
    \A s \in Session :
        phase[s] = "done" ~> \A t \in Transport : ~Running(s, t)

-----------------------------------------------------------------------------
(* What the daemon promises the PAM module.                                *)

\* The PamOutcome the response carries, as the PAM module sees it.
ReplyOf(s) ==
    IF outcome[s] \in {"duplicate", "ineligible", "failed", "cancelled"}
    THEN "ignore" ELSE outcome[s]

ContractStatus ==
    [s \in Session |->
        IF phase[s] = "idle" THEN "new"
        ELSE IF phase[s] = "done" THEN "answered" ELSE "open"]

ContractReply == [s \in Session |-> ReplyOf(s)]

\* The decisions of the phones each session trusts.
ContractDecided ==
    {<<a.ch, a.verdict>> : a \in {x \in answers : x.from \in Paired(snap[x.ch])}}

Contract ==
    INSTANCE AuthContract
    WITH Request <- Session,
         Plain <- {"closed", "ignore", "error", "timeout"},
         status <- ContractStatus,
         reply <- ContractReply,
         decided <- ContractDecided

\* The daemon with its transports, registry, timers and shared socket keeps
\* the contract: one answer per request, a verdict only from a trusted phone
\* for this very request, whatever is delivered late, twice or to the wrong
\* task (handle_conn, handle_pam_authenticate, AuthSession).
KeepsContract == Contract!Spec

\* Under the fairness of the scheduler every request that was accepted is
\* answered, whatever BlueZ, the network and the phones do.
AnswersRequests == Contract!Answered

=============================================================================
