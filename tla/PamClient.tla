----------------------------- MODULE PamClient -----------------------------
(***************************************************************************)
(* The PAM module inside one host process (client-pam): pam_logic.rs with  *)
(* its IPC client, against a daemon that keeps AuthContract.               *)
(*                                                                         *)
(* The host makes one call of pam_authenticate after the other; call k     *)
(* sends request k, if it sends one.  In a call race the daemon's answer,  *)
(* the deadline and, depending on the host, the key presses on /dev/tty or *)
(* a native thread that collects the password.  The verdict of a call is   *)
(* remembered for Window ticks and replayed to a duplicate call.           *)
(*                                                                         *)
(* A cancel of a request, on a connection of its own, is not a step here:  *)
(* AuthDaemon has it (PamCancel), and to this module the daemon it reached *)
(* is one that may answer, to a connection that is already gone.           *)
(***************************************************************************)
EXTENDS Naturals, FiniteSets, FiniteSetsExt

CONSTANTS
    MaxCalls,      \* calls the host makes
    User,          \* user names
    Service,       \* names of PAM services
    NoUser,        \* a call that has not been made
    NoService,     \* the service name cannot be read
    Plain,         \* replies of the daemon that carry no verdict
    Phones,        \* trusted phones, each of which decides once about a request
    Hosts,         \* the host processes considered
    Window,        \* VERDICT_REUSE_WINDOW in ticks
    OpTimeout,     \* pam_operation_timeout_secs in ticks
    GuiTimeout     \* pam_gui_timeout_secs in ticks

Calls == 1 .. MaxCalls

\* What a call can learn of its host: the kind of program, whether it is read
\* from /proc, GDM_SESSION_FOR_REAUTH, and whether /dev/tty opens.
Host == [program : {"allowlisted", "gdm-session-worker", "swaylock", "other"},
         proc : BOOLEAN, reauth : BOOLEAN, tty : BOOLEAN]

ASSUME HostsAssumption == Hosts \subseteq Host
ASSUME CallsAssumption == MaxCalls \in Nat /\ Phones \in Nat
ASSUME TimesAssumption ==
    Window \in Nat \ {0} /\ OpTimeout \in Nat /\ GuiTimeout \in Nat
ASSUME NamesAssumption == NoService \notin Service /\ NoUser \notin User

VARIABLES
    host,      \* the host process
    n,         \* the call in progress, or the last one
    user,      \* of each call
    service,   \* of each call
    code,      \* what each call returned
    age,       \* ticks since it returned, up to Window
    pc,        \* where the calling thread is
    exit,      \* ExitReason of the event loop
    remain,    \* ticks to the deadline
    armed,     \* the Verdict of the call: "no", "real" or "cache"
    last,      \* LAST_CONCLUSION
    rev,       \* the revents the last poll returned
    pollTty,   \* poll_tty of the terminal loop
    worker,    \* the native password thread
    entered,   \* ThreadContext.password_entered
    pipe,      \* the self-pipe holds a byte
    wire,      \* pieces of the response frame the daemon has written: 0, 1, 2
    got,       \* pieces in IpcClient.read_buf
    hungUp,    \* the daemon has closed the connection
    status, reply, decided   \* the daemon (AuthContract)

hostVars == <<host, n, user, service>>
returned == <<code, age>>
loopVars == <<exit, remain, rev, pollTty>>
threadVars == <<worker, entered, pipe>>
connVars == <<wire, got, hungUp>>
daemonVars == <<status, reply, decided>>
vars == <<host, n, user, service, code, age, pc, exit, remain, armed, last,
          rev, pollTty, worker, entered, pipe, wire, got, hungUp, status, reply, decided>>

\* "unknown" is an outcome PamOutcome does not know, "junk" a frame that is no
\* PamResponse, "closed" a connection closed without a frame.
ASSUME PlainAssumption ==
    Plain \subseteq {"timeout", "ignore", "error", "unknown", "junk", "closed"}

Daemon == INSTANCE AuthContract WITH Request <- Calls

Codes == {"SUCCESS", "PERM_DENIED", "AUTHINFO_UNAVAIL", "AUTH_ERR",
          "USER_UNKNOWN"}

ExitReason == {"none", "Timeout", "IpcResponseReceived", "IpcError",
               "PasswordEntered", "PasswordFailed", "Skip"}

LastConclusion == [call : Calls, username : User, service : Service,
                   code : Codes, age : 0 .. Window]
NoConclusion == [call |-> 0]

Events == [ipc : SUBSET {"in", "hup"}, other : BOOLEAN]
NoEvents == [ipc |-> {}, other |-> FALSE]

TypeOK ==
    /\ host \in Host
    /\ n \in 0 .. MaxCalls
    /\ user \in [Calls -> User \cup {NoUser}]
    /\ service \in [Calls -> Service \cup {NoService}]
    /\ code \in [Calls -> Codes \cup {"none"}]
    /\ age \in [Calls -> 0 .. Window]
    /\ pc \in {"host", "enter", "spawn", "poll", "woken", "handle", "join",
               "finish"}
    /\ exit \in ExitReason
    /\ remain \in 0 .. Max({OpTimeout, GuiTimeout})
    /\ armed \in {"no", "real", "cache"}
    /\ last \in LastConclusion \cup {NoConclusion}
    /\ rev \in Events
    /\ pollTty \in BOOLEAN
    /\ worker \in {"none", "asking", "store", "write", "gone"}
    /\ entered \in BOOLEAN
    /\ pipe \in BOOLEAN
    /\ wire \in 0 .. 2
    /\ got \in 0 .. 2
    /\ hungUp \in BOOLEAN
    /\ Daemon!ContractTypeOK

Init ==
    /\ host \in Hosts
    /\ n = 0
    /\ user = [k \in Calls |-> NoUser]
    /\ service = [k \in Calls |-> NoService]
    /\ code = [k \in Calls |-> "none"]
    /\ age = [k \in Calls |-> 0]
    /\ pc = "host"
    /\ exit = "none"
    /\ remain = 0
    /\ armed = "no"
    /\ last = NoConclusion
    /\ rev = NoEvents
    /\ pollTty = FALSE
    /\ worker = "none"
    /\ entered = FALSE
    /\ pipe = FALSE
    /\ wire = 0
    /\ got = 0
    /\ hungUp = FALSE
    /\ Daemon!Init

-----------------------------------------------------------------------------
(* The reuse window. *)

\* Mutant: a conclusion is reused for another service.
ReusableAnyService ==
    /\ service[n] # NoService
    /\ last # NoConclusion
    /\ last.username = user[n]
    /\ last.age < Window

\* reusable_conclusion and cached_from, for the call in progress.
Reusable ==
    /\ service[n] # NoService
    /\ last # NoConclusion
    /\ last.username = user[n]
    /\ last.service = service[n]
    /\ last.age < Window

\* record_conclusion: the last conclusion replaces the one before.
RecordConclusion(c) ==
    last' = [call |-> n, username |-> user[n], service |-> service[n],
             code |-> c, age |-> 0]

\* record_verdict: only of a call that sent a request, with a known service.
RecordVerdict(c) ==
    IF armed = "real" /\ service[n] # NoService
    THEN RecordConclusion(c)
    ELSE UNCHANGED last

\* The connection is not looked at again.
LeaveConnection == wire' = 0 /\ got' = 0 /\ hungUp' = FALSE

\* authenticate hands code c back to the host.
Return(c) ==
    /\ pc' = "host"
    /\ code' = [code EXCEPT ![n] = c]
    /\ age' = [age EXCEPT ![n] = 0]
    /\ worker' = "none"
    /\ entered' = FALSE
    /\ pipe' = FALSE
    /\ rev' = NoEvents
    /\ exit' = "none"
    /\ remain' = 0
    /\ pollTty' = FALSE
    /\ LeaveConnection
    /\ UNCHANGED hostVars

-----------------------------------------------------------------------------
(* authenticate_inner up to the request. *)

\* conversation_mode; a host whose /proc is unreadable is known by its service.
ConversationMode ==
    CASE host.proc /\ host.program = "allowlisted" -> "Threaded"
      [] host.proc /\ host.program = "gdm-session-worker"
           /\ host.reauth /\ service[n] = "gdm-password" -> "Threaded"
      [] host.proc /\ host.program = "swaylock" -> "PreCollected"
      [] ~host.proc /\ service[n] = "polkit-1" -> "Threaded"
      [] OTHER -> "Sequential"

\* /dev/tty is opened only where the conversation is left to the host.
HasTerminal == ConversationMode = "Sequential" /\ host.tty

IsGdmReauth == service[n] = "gdm-password" /\ host.reauth

IsDmService == service[n] \in {"gdm-password", "sddm"}

\* guard_display_manager_bypass.
Bypassed == IsDmService /\ ~IsGdmReauth

\* The host calls pam_authenticate for user u and service sv.
Call(u, sv) ==
    /\ pc = "host"
    /\ n < MaxCalls
    /\ pc' = "enter"
    /\ n' = n + 1
    /\ user' = [user EXCEPT ![n + 1] = u]
    /\ service' = [service EXCEPT ![n + 1] = sv]
    /\ armed' = "no"
    /\ UNCHANGED <<host, returned, loopVars, last, threadVars, connVars, daemonVars>>

\* A return that sends nothing and records nothing.
ReturnEarly(c) ==
    /\ Return(c)
    /\ UNCHANGED <<armed, last, daemonVars>>

\* The display manager bypass, get_user, PamConversation::new, and a host
\* that collected the password before the call.
SetupEnds ==
    /\ pc = "enter"
    /\ \/ Bypassed /\ ReturnEarly("AUTHINFO_UNAVAIL")
       \/ ~Bypassed /\ ReturnEarly("USER_UNKNOWN")
       \/ ~Bypassed /\ ReturnEarly("AUTH_ERR")
       \/ /\ ~Bypassed
          /\ ConversationMode = "PreCollected"
          /\ ReturnEarly("AUTHINFO_UNAVAIL")

Ready ==
    /\ pc = "enter"
    /\ ~Bypassed
    /\ ConversationMode # "PreCollected"

\* A duplicate call is answered with the recorded conclusion, which is left
\* as it is (from_cache).
Replay ==
    /\ Ready
    /\ Reusable
    /\ armed' = "cache"
    /\ Return(last.code)
    /\ UNCHANGED <<last, daemonVars>>

\* No random request id, or connect or send fails: no verdict is armed.
StartFails ==
    /\ Ready
    /\ ~Reusable
    /\ \E c \in {"AUTH_ERR", "AUTHINFO_UNAVAIL"} : Return(c)
    /\ UNCHANGED <<armed, last, daemonVars>>

\* effective_timeout_secs.
EffectiveTimeout ==
    IF ~HasTerminal /\ ConversationMode = "Sequential"
    THEN Min({GuiTimeout, OpTimeout}) ELSE OpTimeout

\* start_authentication: the request is on the wire and the verdict is armed.
Start ==
    /\ Ready
    /\ ~Reusable
    /\ Daemon!Submit(n)
    /\ armed' = "real"
    /\ pc' = IF ConversationMode = "Threaded" THEN "spawn" ELSE "poll"
    /\ remain' = EffectiveTimeout
    /\ pollTty' = HasTerminal
    /\ UNCHANGED <<hostVars, returned, exit, rev, last, threadVars, connVars>>

\* pipe2 or pthread_create fails.
SpawnFails ==
    /\ pc = "spawn"
    /\ Return("AUTH_ERR")
    /\ RecordVerdict("AUTH_ERR")
    /\ UNCHANGED <<armed, daemonVars>>

Spawn ==
    /\ pc = "spawn"
    /\ pc' = "poll"
    /\ worker' = "asking"
    /\ remain' = EffectiveTimeout
    /\ UNCHANGED <<hostVars, returned, exit, armed, last, rev, pollTty, entered,
                   pipe, connVars, daemonVars>>

-----------------------------------------------------------------------------
(* The event loops. *)

\* What poll may report of the connection: a hangup comes with POLLIN, or, on
\* an error, alone.
IpcEvents ==
    IF hungUp THEN {{"in", "hup"}, {"hup"}}
    ELSE IF wire > got THEN {{"in"}} ELSE {{}}

\* poll returns with something ready.  The other descriptor is the self-pipe
\* of a threaded host, or /dev/tty, on which keys come at any time.
Poll ==
    /\ pc = "poll"
    /\ remain > 0
    /\ \E e \in IpcEvents, o \in BOOLEAN :
         /\ o => (worker # "none" /\ pipe) \/ pollTty
         /\ worker # "none" /\ pipe => o
         /\ e # {} \/ o
         /\ rev' = [ipc |-> e, other |-> o]
    /\ pc' = IF worker # "none" THEN "woken" ELSE "handle"
    /\ UNCHANGED <<hostVars, returned, exit, remain, pollTty, armed, last,
                   threadVars, connVars, daemonVars>>

\* The loop ends; a threaded host reaps its worker first.
Leave(reason) ==
    /\ exit' = reason
    /\ pc' = IF worker = "none" THEN "finish" ELSE "join"
    /\ rev' = NoEvents
    /\ remain' = 0
    /\ LeaveConnection
    /\ UNCHANGED <<hostVars, returned, pollTty, armed, last, threadVars,
                   daemonVars>>

\* The deadline, looked at only at the top of the loop.
DeadlinePassed ==
    /\ pc = "poll"
    /\ remain = 0
    /\ Leave("Timeout")

\* poll itself fails; the terminal loop only logs it.
PollFails ==
    /\ pc = "poll"
    /\ ~HasTerminal
    /\ Leave("IpcError")

\* The password has precedence over an answer of the daemon that came at the
\* same time.  The cancel goes out on the connection of the request, which
\* the daemon does not read again.
PasswordFirst ==
    /\ pc = "woken"
    /\ IF entered
       THEN Leave("PasswordEntered")
       ELSE /\ pc' = "handle"
            /\ UNCHANGED <<hostVars, returned, loopVars, armed, last, threadVars,
                           connVars, daemonVars>>

\* try_read_response_nonblocking has a whole frame.
Frame == "in" \in rev.ipc /\ wire = 2 /\ reply[n] # "closed"

\* POLLIN with a whole frame: the response, or a frame that is none.
ReadFrame ==
    /\ pc = "handle"
    /\ Frame
    /\ Leave(IF reply[n] = "junk" THEN "IpcError" ELSE "IpcResponseReceived")

\* The connection is gone before a whole frame came.
ConnectionLost ==
    /\ pc = "handle"
    /\ ~Frame
    /\ "hup" \in rev.ipc
    /\ Leave("IpcError")

\* An incomplete frame: the graphical loops start over, the terminal loop
\* still looks at the keyboard.
ReadPart ==
    /\ pc = "handle"
    /\ ~Frame
    /\ rev.ipc = {"in"}
    /\ got' = wire
    /\ IF pollTty /\ rev.other
       THEN /\ rev' = [rev EXCEPT !.ipc = {}]
            /\ UNCHANGED pc
       ELSE /\ pc' = "poll"
            /\ rev' = NoEvents
    /\ UNCHANGED <<hostVars, returned, exit, remain, pollTty, armed, last,
                   threadVars, wire, hungUp, daemonVars>>

\* The self-pipe is readable and no password was entered: the dialog was
\* dismissed.  Again the cancel goes out where nobody reads it.
DialogDismissed ==
    /\ pc = "handle"
    /\ rev.ipc = {}
    /\ worker # "none"
    /\ rev.other
    /\ Leave("PasswordFailed")

\* A key on /dev/tty: Enter skips, end of file stops polling it.
TtyRead ==
    /\ pc = "handle"
    /\ rev.ipc = {}
    /\ worker = "none"
    /\ \/ Leave("Skip")
       \/ /\ pollTty' \in BOOLEAN
          /\ pc' = "poll"
          /\ rev' = NoEvents
          /\ UNCHANGED <<hostVars, returned, exit, remain, armed, last, threadVars,
                         connVars, daemonVars>>

-----------------------------------------------------------------------------
(* The password thread, and the end of the call. *)

\* pam_get_authtok returns to native_password_worker, with a token or not.
WorkerReturns ==
    /\ worker = "asking"
    /\ worker' \in {"store", "write"}
    /\ UNCHANGED <<entered, pipe>>

\* Mutant: the byte is written before the flag is stored.
WorkerSignalsFirst ==
    \/ /\ worker = "store" /\ ~pipe
       /\ pipe' = TRUE
       /\ UNCHANGED <<worker, entered>>
    \/ /\ worker = "store" /\ pipe
       /\ entered' = TRUE
       /\ worker' = "gone"
       /\ UNCHANGED pipe
    \/ /\ worker = "write"
       /\ pipe' = TRUE
       /\ worker' = "gone"
       /\ UNCHANGED entered

\* password_entered is stored first; then the byte is written, on every
\* natural exit.  The raw write is not a cancellation point.
WorkerSignals ==
    \/ /\ worker = "store"
       /\ entered' = TRUE
       /\ worker' = "write"
       /\ UNCHANGED pipe
    \/ /\ worker = "write"
       /\ pipe' = TRUE
       /\ worker' = "gone"
       /\ UNCHANGED entered

\* Mutant: the worker is cancelled only when the phone was faster.
CancelsWorkerOnAnswer == exit = "IpcResponseReceived"

\* The exits after which cancel_and_join calls pthread_cancel.
CancelsWorker == exit \notin {"PasswordEntered", "PasswordFailed"}

\* pthread_cancel takes effect inside pam_get_authtok only.
WorkerCancelled ==
    /\ worker = "asking"
    /\ pc = "join"
    /\ CancelsWorker
    /\ worker' = "gone"
    /\ UNCHANGED <<entered, pipe>>

WorkerStep ==
    /\ WorkerReturns \/ WorkerSignals \/ WorkerCancelled
    /\ UNCHANGED <<hostVars, returned, pc, loopVars, armed, last, connVars, daemonVars>>

\* Mutant: a worker that was cancelled is not waited for.
JoinUnlessCancelled ==
    /\ pc = "join"
    /\ worker = "gone" \/ CancelsWorker
    /\ pc' = "finish"
    /\ UNCHANGED <<hostVars, returned, loopVars, armed, last, threadVars, connVars,
                   daemonVars>>

\* pthread_join.
Join ==
    /\ pc = "join"
    /\ worker = "gone"
    /\ pc' = "finish"
    /\ UNCHANGED <<hostVars, returned, loopVars, armed, last, threadVars, connVars,
                   daemonVars>>

\* Mutant: the generated accessor, which takes an unknown value for Success.
OutcomeFromRawDefault(r) == IF r = "unknown" THEN "success" ELSE r

\* outcome_from_raw: a value PamOutcome does not know is an error.
OutcomeFromRaw(r) == IF r = "unknown" THEN "error" ELSE r

\* map_pam_outcome.
MapPamOutcome(r) ==
    CASE OutcomeFromRaw(r) = "success" -> "SUCCESS"
      [] OutcomeFromRaw(r) = "denied"  -> "PERM_DENIED"
      [] OutcomeFromRaw(r) = "error"   -> "AUTH_ERR"
      [] OTHER                         -> "AUTHINFO_UNAVAIL"

FinalOutcome ==
    IF exit = "IpcResponseReceived" THEN MapPamOutcome(reply[n])
                                    ELSE "AUTHINFO_UNAVAIL"

\* The messages of the end of the call, and its return.
Finish ==
    /\ pc = "finish"
    /\ Return(FinalOutcome)
    /\ RecordVerdict(FinalOutcome)
    /\ UNCHANGED <<armed, daemonVars>>

-----------------------------------------------------------------------------
(* The daemon at the other end, and time. *)

\* A phone decides about request k, even one whose call has returned.  (What
\* it decides after the answer changes nothing here.)
DaemonDecides(k) ==
    /\ status[k] = "open"
    /\ Cardinality({d \in Daemon!Decisions : <<k, d>> \in decided}) < Phones
    /\ \E d \in {"grant", "denial"} : Daemon!Decide(k, d)
    /\ UNCHANGED <<hostVars, returned, pc, loopVars, armed, last, threadVars,
                   connVars>>

Waiting == pc \in {"spawn", "poll", "woken", "handle"}

\* The daemon answers the request.  (An answer to a call that has returned is
\* written to a closed connection.)
DaemonAnswers ==
    /\ Waiting
    /\ \E o \in Daemon!Replies : Daemon!Answer(n, o)
    /\ UNCHANGED <<hostVars, returned, pc, loopVars, armed, last, threadVars,
                   connVars>>

\* The next piece of the response frame arrives; after the last one, or with
\* none, the connection is closed.
Deliver ==
    /\ Waiting
    /\ status[n] = "answered"
    /\ ~hungUp
    /\ \/ /\ reply[n] # "closed"
          /\ wire < 2
          /\ wire' \in wire + 1 .. 2
          /\ UNCHANGED hungUp
       \/ /\ hungUp' = TRUE
          /\ UNCHANGED wire
    /\ UNCHANGED <<hostVars, returned, pc, loopVars, armed, last, threadVars, got,
                   daemonVars>>

Older(a) == IF a < Window THEN a + 1 ELSE a

Tick ==
    /\ remain' = IF remain > 0 /\ Waiting THEN remain - 1 ELSE remain
    /\ age' = [k \in Calls |-> IF code[k] = "none" THEN 0 ELSE Older(age[k])]
    /\ last' = IF last = NoConclusion THEN last
               ELSE [last EXCEPT !.age = Older(@)]
    /\ UNCHANGED <<hostVars, code, pc, exit, rev, pollTty, armed, threadVars,
                   connVars, daemonVars>>

-----------------------------------------------------------------------------

\* Steps of the calling thread.
CallingThread ==
    \/ SetupEnds \/ Replay \/ StartFails \/ Start
    \/ SpawnFails \/ Spawn
    \/ Poll \/ DeadlinePassed \/ PollFails
    \/ PasswordFirst \/ ReadFrame \/ ConnectionLost \/ ReadPart
    \/ DialogDismissed \/ TtyRead
    \/ Join \/ Finish

Next ==
    \/ \E u \in User, sv \in Service \cup {NoService} : Call(u, sv)
    \/ CallingThread
    \/ WorkerStep
    \/ \E k \in Calls : DaemonDecides(k)
    \/ DaemonAnswers
    \/ Deliver
    \/ Tick

Spec == Init /\ [][Next]_vars

\* The two threads run and time passes.  That a cancelled worker ends rests on
\* the hosts of the allowlist, whose conversations block in a cancellation
\* point.  Nothing is assumed of the daemon, the phone or the user.
Fairness ==
    /\ WF_vars(CallingThread)
    /\ WF_vars(Tick)
    /\ WF_vars((WorkerSignals \/ WorkerCancelled) /\ WorkerStep)

FairSpec == Spec /\ Fairness

-----------------------------------------------------------------------------
(* Properties. *)

\* PAM_SUCCESS is backed by a phone: the daemon reported success, which a
\* phone had granted, for a request of this process for the same user and
\* service, and the call that made the request returned PAM_SUCCESS itself.
\* So a grant that comes after a call gave its request up (a password, a
\* skip, a timeout, a cancel the daemon never read) authenticates no later
\* call, and neither does an outcome the module does not know.
SuccessIsGranted ==
    \A k \in Calls : code[k] = "SUCCESS" =>
        \E j \in 1 .. k :
            /\ code[j] = "SUCCESS"
            /\ user[j] = user[k]
            /\ reply[j] = "success"
            /\ <<j, "grant">> \in decided
            /\ j # k => service[j] = service[k] /\ service[k] # NoService

\* The requests of this process that can be remembered.
Remembered == {k \in Calls : k < n /\ status[k] # "new" /\ service[k] # NoService}

\* A replayed verdict is the one of the latest transaction of this process,
\* for the same user and service, that returned less than Window ago: a later
\* denial is never hidden behind an older grant, a local failure is never
\* replayed, and replays do not prolong the window (LAST_CONCLUSION).
LatestVerdictReplayed ==
    [][armed' = "cache" /\ armed # "cache" =>
        \E k \in Remembered :
            /\ \A j \in Remembered : j <= k
            /\ user[k] = user[n]
            /\ service[k] = service[n]
            /\ code'[n] = code[k]
            /\ age[k] < Window]_vars

\* A password the user submitted is never taken for a dismissed dialog: the
\* flag is stored before the byte that wakes the main loop.
PasswordNeverDismissed ==
    exit = "PasswordFailed" => ~entered /\ worker \in {"write", "gone"}

\* libpam has one user at a time: the calling thread returns to it, or speaks
\* to the user, only when the password thread has been reaped.
LibpamNotShared ==
    pc \in {"host", "enter", "finish"} => worker \in {"none", "gone"}

\* Every call returns, whatever the daemon, the phone and the user do.
EveryCallReturns == pc # "host" ~> pc = "host"

=============================================================================
