---------------------------- MODULE BleTransport ----------------------------
(***************************************************************************)
(* The BLE transport of one authentication session                         *)
(* (tapauthd/src/transport/ble.rs): the advertisement and the GATT server  *)
(* that the session's BLE task sets up, the GATT callbacks that phones     *)
(* drive, the queue of their answers, and the shutdown, which the task,    *)
(* the session and two background jobs may all ask for and which runs      *)
(* beside them.  The session is reduced to what it does to the transport   *)
(* (auth_handler.rs, await_auth_result); AuthDaemon has the rest of it.    *)
(***************************************************************************)
EXTENDS Naturals, Sequences, FiniteSets

CONSTANTS
    Phone,         \* phones in reach
    MaxAttempts,   \* attempts to advertise in one send_request
    QueueBound     \* bound on the answers waiting in the queue

ASSUME BleAssumption == MaxAttempts \in Nat \ {0} /\ QueueBound \in Nat \ {0}

VARIABLES
    task,          \* the BLE task of the session
    got,           \* the answer the task is looking at
    attempt,       \* attempts to advertise so far
    adv, gatt,     \* adv_handle and gatt_handle hold a handle
    queue,         \* response_queue
    confirmation,  \* confirmation_data is set
    devices,       \* connected_devices
    linked,        \* phones that BlueZ has a connection to
    phone,         \* what each phone has done
    started,       \* shutdown_started
    shut,          \* the shutdown task
    jobs,          \* background jobs that hold the transport
    session,       \* the session
    dropped,       \* BleTransport::drop has run
    abrupt,        \* the shutdown began without a grace window
    late           \* phones tracked after the shutdown had cleared the devices

vars == <<task, got, attempt, adv, gatt, queue, confirmation, devices, linked, phone,
          started, shut, jobs, session, dropped, abrupt, late>>
radioVars == <<adv, gatt>>
gattVars == <<queue, confirmation, devices, linked, phone, late>>
shutVars == <<started, shut, abrupt>>

\* An answer: a valid grant or denial, one that decrypts but does not verify
\* for this session, and one that cannot be decoded or is of another type.
Answers == {"grant", "denial", "unverified", "other"}
Ended == {"granted", "denied", "failed", "aborted"}
Tasks == {"send", "advertise", "serve", "receive", "process"} \cup Ended

Init ==
    /\ task = "send" /\ got = "none" /\ attempt = 0
    /\ adv = FALSE /\ gatt = FALSE
    /\ queue = <<>> /\ confirmation = FALSE
    /\ devices = {} /\ linked = {} /\ late = {}
    /\ phone = [p \in Phone |-> "away"]
    /\ started = FALSE /\ shut = "none" /\ abrupt = FALSE
    /\ jobs = {}
    /\ session = "waiting"
    /\ dropped = FALSE

-----------------------------------------------------------------------------
(* Shutting down.  The flag makes the first call the one that counts. *)

\* send_cancel: after a grace window.
SendCancel ==
    /\ started' = TRUE
    /\ shut' = IF started THEN shut ELSE "grace"
    /\ UNCHANGED abrupt

\* finalize: at once.  graced: the caller has itself waited as long.
Finalize(graced) ==
    /\ started' = TRUE
    /\ shut' = IF started THEN shut ELSE "devices"
    /\ abrupt' = (abrupt \/ (~started /\ ~graced))

GraceElapses ==
    /\ shut = "grace"
    /\ shut' = "devices"
    /\ UNCHANGED <<task, got, attempt, radioVars, gattVars, started, abrupt, jobs,
                   session, dropped>>

\* Mutant: the devices are still tracked when they have been disconnected.
ShutDevicesNoClear ==
    /\ shut = "devices"
    /\ \E stuck \in SUBSET (devices \cap linked) : linked' = (linked \ devices) \cup stuck
    /\ shut' = "adv"
    /\ UNCHANGED <<task, got, attempt, radioVars, queue, confirmation, devices, phone, late,
                   started, abrupt, jobs, session, dropped>>

\* do_shutdown, step 1: disconnect the tracked phones, as far as BlueZ can, and
\* forget them.  The lock keeps the callbacks out meanwhile.
ShutDevices ==
    /\ shut = "devices"
    /\ \E stuck \in SUBSET (devices \cap linked) : linked' = (linked \ devices) \cup stuck
    /\ devices' = {}
    /\ shut' = "adv"
    /\ UNCHANGED <<task, got, attempt, radioVars, queue, confirmation, phone, late,
                   started, abrupt, jobs, session, dropped>>

\* Steps 2 and 3: drop the advertisement and the GATT server, if they are there.
ShutAdv ==
    /\ shut = "adv"
    /\ adv' = FALSE
    /\ shut' = "gatt"
    /\ UNCHANGED <<task, got, attempt, gatt, gattVars, started, abrupt, jobs, session, dropped>>

ShutGatt ==
    /\ shut = "gatt"
    /\ gatt' = FALSE
    /\ shut' = "over"
    /\ UNCHANGED <<task, got, attempt, adv, gattVars, started, abrupt, jobs, session, dropped>>

Shutdown == GraceElapses \/ ShutDevices \/ ShutAdv \/ ShutGatt

-----------------------------------------------------------------------------
(* The BLE task: authenticate_with_transport. *)

\* send_request: nothing to do while an advertisement is held.
SendRequest ==
    /\ task = "send"
    /\ IF adv THEN task' = "receive" /\ UNCHANGED attempt
              ELSE task' = "advertise" /\ attempt' = 1
    /\ UNCHANGED <<got, radioVars, gattVars, shutVars, jobs, session, dropped>>

Advertise ==
    /\ task = "advertise"
    /\ adv' = TRUE
    /\ task' = "serve"
    /\ attempt' = 0
    /\ UNCHANGED <<got, gatt, gattVars, shutVars, jobs, session, dropped>>

\* BlueZ is busy, or fails otherwise: try again.
AdvertiseAgain ==
    /\ task = "advertise"
    /\ attempt < MaxAttempts
    /\ attempt' = attempt + 1
    /\ UNCHANGED <<got, task, radioVars, gattVars, shutVars, jobs, session, dropped>>

\* Mutant: the task goes on after a failed send.
SendFailsRetry ==
    /\ task \in {"advertise", "serve"}
    /\ attempt' = 0
    /\ task' = "send"
    /\ UNCHANGED <<got, radioVars, gattVars, shutVars, jobs, session, dropped>>

\* The last attempt, a refused advertisement, or a GATT server that cannot be
\* registered: send_request fails, with the advertisement still held in the
\* last case, and the task ends.
SendFails ==
    /\ task \in {"advertise", "serve"}
    /\ attempt' = 0
    /\ task' = "failed"
    /\ Finalize(FALSE)
    /\ UNCHANGED <<got, radioVars, gattVars, jobs, session, dropped>>

ServeGatt ==
    /\ task = "serve"
    /\ gatt' = TRUE
    /\ task' = "receive"
    /\ UNCHANGED <<got, attempt, adv, gattVars, shutVars, jobs, session, dropped>>

\* receive_response pops an answer: what cannot be decrypted, or is neither a
\* grant nor a denial, is skipped; the others are confirmed, whether they
\* verify or not, and handed on after a pause.
PopResponse ==
    /\ task = "receive"
    /\ queue # <<>>
    /\ queue' = Tail(queue)
    /\ IF Head(queue) = "other"
       THEN UNCHANGED <<task, confirmation>>
       ELSE task' = "process" /\ confirmation' = TRUE
    /\ got' = IF Head(queue) = "other" THEN "none" ELSE Head(queue)
    /\ UNCHANGED <<attempt, radioVars, devices, linked, phone, late, shutVars, jobs,
                   session, dropped>>

\* wait_for_response and process_auth_response: what does not verify is ignored;
\* a grant or a denial ends the task, and a job that repeats the confirmation
\* is spawned.
ProcessResponse ==
    /\ task = "process"
    /\ IF got = "unverified"
       THEN task' = "send" /\ UNCHANGED jobs
       ELSE /\ task' = IF got = "grant" THEN "granted" ELSE "denied"
            /\ jobs' = jobs \cup {"confirm"}
    /\ got' = "none"
    /\ UNCHANGED <<attempt, radioVars, gattVars, shutVars, session, dropped>>

\* The retry interval is over.
ReceiveTimesOut ==
    /\ task = "receive"
    /\ task' = "send"
    /\ UNCHANGED <<got, attempt, radioVars, gattVars, shutVars, jobs, session, dropped>>

\* The session timeout, as the task measures it.
TaskTimesOut ==
    /\ task = "send"
    /\ task' = "failed"
    /\ Finalize(FALSE)
    /\ UNCHANGED <<got, attempt, radioVars, gattVars, jobs, session, dropped>>

Task ==
    \/ SendRequest \/ Advertise \/ AdvertiseAgain \/ SendFails \/ ServeGatt
    \/ PopResponse \/ ProcessResponse \/ ReceiveTimesOut \/ TaskTimesOut

-----------------------------------------------------------------------------
(* The session: await_auth_result, and what it spawns. *)

Abort == task' = IF task \in Ended THEN task ELSE "aborted"

\* A grant over BLE: multicast_cancel_on_success.
SeeGrant ==
    /\ session = "waiting"
    /\ task = "granted"
    /\ session' = "granted"
    /\ jobs' = jobs \cup {"cancel"}
    /\ UNCHANGED <<task, got, attempt, radioVars, gattVars, shutVars, dropped>>

\* A denial over BLE: cleanup_transports.  Both transports failed: nothing.
SeeEnd ==
    /\ session = "waiting"
    /\ task \in {"denied", "failed"}
    /\ session' = "over"
    /\ jobs' = IF task = "denied" THEN jobs \cup {"finalize"} ELSE jobs
    /\ UNCHANGED <<task, got, attempt, radioVars, gattVars, shutVars, dropped>>

\* UDP brought a grant or a denial.
SeeUdp ==
    /\ session = "waiting"
    /\ session' = "over"
    /\ Abort
    /\ \E j \in {"cancel", "finalize"} : jobs' = jobs \cup {j}
    /\ UNCHANGED <<got, attempt, radioVars, gattVars, shutVars, dropped>>

\* handle_cancellation: the tasks run on for 100 ms.
SeeCancel ==
    /\ session = "waiting"
    /\ session' = "closing"
    /\ jobs' = jobs \cup {"finalize"}
    /\ UNCHANGED <<task, got, attempt, radioVars, gattVars, shutVars, dropped>>

CancelAborts ==
    /\ session = "closing"
    /\ session' = "over"
    /\ Abort
    /\ UNCHANGED <<got, attempt, radioVars, gattVars, shutVars, jobs, dropped>>

\* The timeout around the session drops it; its tasks run on.
SessionTimesOut ==
    /\ session \in {"waiting", "closing"}
    /\ session' = "over"
    /\ UNCHANGED <<task, got, attempt, radioVars, gattVars, shutVars, jobs, dropped>>

\* Mutant: finalize comes before send_cancel.
RunCancelSwapped ==
    /\ "cancel" \in jobs
    /\ jobs' = jobs \ {"cancel"}
    /\ Finalize(FALSE)
    /\ UNCHANGED <<task, got, attempt, radioVars, gattVars, session, dropped>>

\* send_cancel and then finalize, which finds the flag set.
RunCancel ==
    /\ "cancel" \in jobs
    /\ jobs' = jobs \ {"cancel"}
    /\ SendCancel
    /\ UNCHANGED <<task, got, attempt, radioVars, gattVars, session, dropped>>

RunFinalize ==
    /\ "finalize" \in jobs
    /\ jobs' = jobs \ {"finalize"}
    /\ Finalize(FALSE)
    /\ UNCHANGED <<task, got, attempt, radioVars, gattVars, session, dropped>>

\* send_confirmation_background: send_confirmation does nothing over BLE, the
\* pauses between the calls remain, and then finalize.
RunConfirm ==
    /\ "confirm" \in jobs
    /\ jobs' = jobs \ {"confirm"}
    /\ Finalize(TRUE)
    /\ UNCHANGED <<task, got, attempt, radioVars, gattVars, session, dropped>>

Session ==
    \/ SeeGrant \/ SeeEnd \/ SeeUdp \/ SeeCancel \/ CancelAborts
    \/ RunCancel \/ RunFinalize \/ RunConfirm

\* Mutant: something else keeps the handles alive.
DropKeepsHandles ==
    /\ ~dropped
    /\ session \in {"granted", "over"}
    /\ task \in Ended
    /\ jobs = {}
    /\ shut \in {"none", "over"}
    /\ dropped' = TRUE
    /\ UNCHANGED <<task, got, attempt, radioVars, gattVars, shutVars, jobs, session>>

\* The last reference is gone: the handles that are still there go with it.
Drop ==
    /\ ~dropped
    /\ session \in {"granted", "over"}
    /\ task \in Ended
    /\ jobs = {}
    /\ shut \in {"none", "over"}
    /\ dropped' = TRUE
    /\ adv' = FALSE /\ gatt' = FALSE
    /\ UNCHANGED <<task, got, attempt, gattVars, shutVars, jobs, session>>

-----------------------------------------------------------------------------
(* Phones, through the GATT callbacks. *)

Connect(p) ==
    /\ phone[p] = "away"
    /\ adv
    /\ phone' = [phone EXCEPT ![p] = "connected"]
    /\ linked' = linked \cup {p}
    /\ UNCHANGED <<task, got, attempt, radioVars, queue, confirmation, devices, late,
                   shutVars, jobs, session, dropped>>

\* The callbacks of the request and of the response remember the phone.
Track(p) ==
    /\ devices' = devices \cup {p}
    /\ late' = IF shut \in {"adv", "gatt", "over"} THEN late \cup {p} ELSE late

ReadRequest(p) ==
    /\ phone[p] = "connected" /\ p \in linked
    /\ gatt
    /\ Track(p)
    /\ phone' = [phone EXCEPT ![p] = "asked"]
    /\ UNCHANGED <<task, got, attempt, radioVars, queue, confirmation, linked, shutVars,
                   jobs, session, dropped>>

WriteResponse(p) ==
    /\ phone[p] = "asked" /\ p \in linked
    /\ gatt
    /\ Len(queue) < QueueBound
    /\ Track(p)
    /\ \E a \in Answers : queue' = Append(queue, a)
    /\ phone' = [phone EXCEPT ![p] = "answered"]
    /\ UNCHANGED <<task, got, attempt, radioVars, confirmation, linked, shutVars, jobs,
                   session, dropped>>

\* An empty value says that there is no confirmation yet.
ReadConfirmation(p) ==
    /\ phone[p] = "answered" /\ p \in linked
    /\ gatt
    /\ confirmation
    /\ phone' = [phone EXCEPT ![p] = "confirmed"]
    /\ UNCHANGED <<task, got, attempt, radioVars, queue, confirmation, devices, linked,
                   late, shutVars, jobs, session, dropped>>

-----------------------------------------------------------------------------

Next ==
    \/ Task \/ Session \/ SessionTimesOut \/ Shutdown \/ Drop
    \/ \E p \in Phone :
          Connect(p) \/ ReadRequest(p) \/ WriteResponse(p) \/ ReadConfirmation(p)

\* The runtime runs every task and timer; the task's own clock is stopped by
\* nothing, so it is over some time; the session is, by its timeout.
Fairness ==
    /\ WF_vars(Task) /\ SF_vars(TaskTimesOut)
    /\ WF_vars(SessionTimesOut \/ CancelAborts)
    /\ WF_vars(RunCancel) /\ WF_vars(RunFinalize) /\ WF_vars(RunConfirm)
    /\ WF_vars(Shutdown) /\ WF_vars(Drop)

Spec == Init /\ [][Next]_vars

FairSpec == Spec /\ Fairness

-----------------------------------------------------------------------------
(* Properties. *)

BleTypeOK ==
    /\ task \in Tasks /\ got \in Answers \cup {"none"} /\ attempt \in 0 .. MaxAttempts
    /\ adv \in BOOLEAN /\ gatt \in BOOLEAN
    /\ queue \in Seq(Answers) /\ confirmation \in BOOLEAN
    /\ devices \subseteq Phone /\ linked \subseteq Phone /\ late \subseteq Phone
    /\ phone \in [Phone -> {"away", "connected", "asked", "answered", "confirmed"}]
    /\ started \in BOOLEAN /\ abrupt \in BOOLEAN
    /\ shut \in {"none", "grace", "devices", "adv", "gatt", "over"}
    /\ jobs \subseteq {"cancel", "finalize", "confirm"}
    /\ session \in {"waiting", "closing", "granted", "over"}
    /\ dropped \in BOOLEAN

\* After a session was granted over BLE the phone has its grace window to read
\* the confirmation: of all the calls that may start the shutdown, none that
\* starts it at once comes first (send_cancel, finalize).
GraceAfterGrant == session = "granted" => ~abrupt

\* While the task waits for answers phones can give them: the advertisement
\* and the GATT server are both up until a shutdown begins, although
\* send_request takes the advertisement alone for a sign that all is set up.
ServedWhileWaiting == task = "receive" /\ ~started => adv /\ gatt

\* Whichever way a session ends, its transport is shut down before it is
\* dropped, and the phones it has tracked by then are let go (Drop,
\* do_shutdown).
DropsNoDevice == dropped => shut = "over" /\ devices \subseteq late

\* In the end nothing is advertised and no service is offered any more, also
\* when the task sets up its advertisement again after the shutdown.
RadioReleased == <>[](~adv /\ ~gatt)

=============================================================================
