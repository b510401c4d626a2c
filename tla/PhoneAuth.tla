----------------------------- MODULE PhoneAuth -----------------------------
(***************************************************************************)
(* The phone's side of an authentication: AuthenticationService.kt (UDP),  *)
(* BleGattService.kt (BLE) and the singletons they share:                  *)
(* AuthRequestManager, TransportLockManager, ReplayMitigationCache and     *)
(* RetransmissionManager.                                                  *)
(*                                                                         *)
(* A delivery is one request packet that arrives, over UDP or read from    *)
(* the client's BLE characteristic, once or many times, early or late.     *)
(* Each is handled by a coroutine of its own, so that the handlers of two  *)
(* deliveries interleave; the steps of a handler are its accesses to the   *)
(* shared maps.  The prompt a handler opens is named after its delivery.   *)
(* The phone has one paired client.  The rate limiter may only drop a UDP  *)
(* request, which is a delivery that does not happen.                      *)
(*                                                                         *)
(* Time is the phone's clock in some unit.  A request carries the client's *)
(* clock at its creation, so that an early or late delivery also stands    *)
(* for clocks that disagree.                                               *)
(***************************************************************************)
EXTENDS Wire, FiniteSets

CONSTANTS
    Challenge,              \* the client's authentication sessions
    User, Allowed,          \* names asked for; those of the pairing
    Delivery,               \* request packets the phone may receive
    MaxCancels,             \* AuthenticationCancel packets it receives
    Stamp,                  \* the client's clock when it creates a request
    TIMESTAMP_VALIDITY, CACHE_EXPIRY, LOCK_EXPIRY, CANCEL_TTL,
    SessionTimeout,         \* sessionTimeoutSeconds of the app's settings
    Start, MaxTime          \* bounds of the phone's clock

ASSUME PhoneAssumption ==
    /\ {TIMESTAMP_VALIDITY, CACHE_EXPIRY, LOCK_EXPIRY, CANCEL_TTL,
        SessionTimeout, MaxCancels, Start, MaxTime} \subseteq Nat
    /\ Stamp \subseteq Nat
    /\ TIME_WINDOW <= TIMESTAMP_VALIDITY
    /\ 2 * TIMESTAMP_VALIDITY <= CACHE_EXPIRY

VARIABLES
    now,            \* the phone's clock
    asks,           \* user and time of each request, chosen by the client
    h,              \* the handler of each delivery
    lock,           \* TransportLockManager.challengeLocks: who holds a challenge
    cache,          \* ReplayMitigationCache: expiry by challenge, -1 if absent
    pending,        \* AuthRequestManager.pendingRequests
    said,           \* what the callback of a prompt is called with
    cb,             \* how far that callback is
    job,            \* the retransmission of a delivery's answer
    active,         \* RetransmissionManager.activeRetransmissions
    cancels,        \* AuthenticationCancel packets received
    cancel,         \* how far the handler of one is
    marked,         \* cancelledChallenges: time by challenge, -1 if none or expired
    sent,           \* ciphertexts of the packets sent to the client
    raced,          \* history: challenges two handlers were past the replay check with
    slipped         \* history: prompts past the cancel check when it was marked

handlerVars == <<h, lock, cache, raced>>
promptVars == <<pending, said>>
resendVars == <<job, active>>
cancelVars == <<cancels, cancel, marked, slipped>>
vars == <<now, asks, h, lock, cache, pending, said, cb, job, active,
          cancels, cancel, marked, sent, raced, slipped>>

Transport == {"UDP", "BLE"}
Csk == "csk"
ClientKey == "client"
PhoneKey == "phone"
None == "none"

Handlers == [pc : {"idle", "check", "put", "submit", "insert", "prompted",
                   "dropped", "blocked", "rejected"},
             c : Challenge, tr : Transport, at : Int]

TypeOK ==
    /\ now \in Nat
    /\ asks \in [Challenge -> [user : User, stamp : Stamp]]
    /\ h \in [Delivery -> Handlers]
    /\ lock \in [Challenge -> Transport \cup {None}]
    /\ cache \in [Challenge -> Int]
    /\ pending \in SUBSET Delivery
    /\ said \in [Delivery -> {None, "grant", "denial", "quiet"}]
    /\ cb \in [Delivery -> {None, "run", "register", "done"}]
    /\ job \in [Delivery -> {None, "running", "cancelled"}]
    /\ active \in [Challenge -> SUBSET Delivery]
    /\ cancels \in 0 .. MaxCancels
    /\ cancel \in [Challenge -> {None, "sweep", "mark"}]
    /\ marked \in [Challenge -> Int]
    /\ raced \in SUBSET Challenge
    /\ slipped \in SUBSET Delivery

Init ==
    /\ now = Start
    /\ asks \in [Challenge -> [user : User, stamp : Stamp]]
    /\ h \in [Delivery -> {[pc |-> "idle", c |-> c, tr |-> tr, at |-> 0] :
                              c \in Challenge, tr \in Transport}]
    /\ lock = [c \in Challenge |-> None]
    /\ cache = [c \in Challenge |-> -1]
    /\ pending = {}
    /\ said = [d \in Delivery |-> None]
    /\ cb = [d \in Delivery |-> None]
    /\ job = [d \in Delivery |-> None]
    /\ active = [c \in Challenge |-> {}]
    /\ cancels = 0
    /\ cancel = [c \in Challenge |-> None]
    /\ marked = [c \in Challenge |-> -1]
    /\ sent = {}
    /\ raced = {}
    /\ slipped = {}

\* Every look at cancelledChallenges is preceded by pruneCancelledChallenges,
\* so that an entry is as good as gone when it expires.
pruneCancelledChallenges(t) ==
    [c \in Challenge |-> IF t - marked[c] > CANCEL_TTL THEN -1 ELSE marked[c]]

Tick ==
    /\ now < MaxTime
    /\ now' = now + 1
    /\ marked' = pruneCancelledChallenges(now + 1)
    /\ UNCHANGED <<asks, handlerVars, promptVars, cb, resendVars, cancels,
                   cancel, slipped, sent>>

----------------------------------------------------------------------------
(* Admission of a request.                                                 *)

\* The packet the daemon made for challenge c, which it sends unchanged over
\* both transports and again until it is answered.
RequestPacket(c) ==
    encrypted_packet(Csk,
        sign_wrapper(wrap(auth_request(c, asks[c].user, asks[c].stamp)),
                     ClientKey),
        asks[c].stamp)

Request(c) == parseAuthRequest(decryptEncryptedPacket(RequestPacket(c)))

\* TemporalIdCache: the identifiers of the current and the previous window.
computeValidIds(t) ==
    {generateTemporalId(Csk, t), generateTemporalId(Csk, t - TIME_WINDOW)}

\* handleIncomingPacket and handleIncomingBleMessage up to handleAuthRequest,
\* and the check of the user it begins with.
Admitted(c) ==
    LET packet == RequestPacket(c)
    IN  /\ extractTemporalIdentifier(packet) \in computeValidIds(now)
        /\ decrypts(Csk, packet.ciphertext)
        /\ determineMessageType(decryptEncryptedPacket(packet)) = "AUTH_REQUEST"
        /\ Request(c).username \in Allowed

Goto(d, pc) == h' = [h EXCEPT ![d].pc = pc]

\* A lock is dropped once it is LOCK_EXPIRY old.  When it was taken is not
\* kept: not before the request's window began, so that it may be gone here.
mayHaveExpired(c) == now - asks[c].stamp > LOCK_EXPIRY - TIME_WINDOW

\* The packet arrives and its handler claims the challenge for its transport.
tryClaimTransport(d) ==
    LET c == h[d].c
    IN  /\ h[d].pc = "idle"
        /\ Admitted(c)
        /\ \/ /\ lock[c] = None \/ mayHaveExpired(c)
              /\ lock' = [lock EXCEPT ![c] = h[d].tr]
              /\ Goto(d, "check")
           \/ lock[c] = h[d].tr /\ Goto(d, "check") /\ UNCHANGED lock
           \/ /\ lock[c] \notin {None, h[d].tr}
              /\ Goto(d, "blocked")
              /\ UNCHANGED lock
        /\ UNCHANGED <<now, asks, cache, raced, promptVars, cb, resendVars,
                       cancelVars, sent>>

Stale(c) == \/ now - asks[c].stamp > TIMESTAMP_VALIDITY
            \/ asks[c].stamp - now > TIMESTAMP_VALIDITY

\* isReplay up to containsKey.
checkReplay(d) ==
    LET c == h[d].c
    IN  /\ h[d].pc = "check"
        /\ IF Stale(c) \/ cache[c] # -1
           THEN Goto(d, "rejected") /\ raced' = raced
           ELSE /\ h' = [h EXCEPT ![d].pc = "put", ![d].at = now]
                /\ raced' = IF \E e \in Delivery : h[e].pc = "put" /\ h[e].c = c
                            THEN raced \cup {c} ELSE raced
        /\ UNCHANGED <<now, asks, lock, cache, promptVars, cb, resendVars,
                       cancelVars, sent>>

cleanExpired == [c \in Challenge |-> IF cache[c] < now THEN -1 ELSE cache[c]]

\* Mutant: the entry is the time it was made, not the time it expires.
putChallengeTime(d) ==
    /\ h[d].pc = "put"
    /\ cache' = [cleanExpired EXCEPT ![h[d].c] = h[d].at]
    /\ h' = [h EXCEPT ![d].pc = "submit", ![d].at = 0]
    /\ UNCHANGED <<now, asks, lock, raced, promptVars, cb, resendVars,
                   cancelVars, sent>>

\* The rest of isReplay: cleanExpired, then the entry of the challenge, with
\* the time read before the check.
putChallenge(d) ==
    /\ h[d].pc = "put"
    /\ cache' = [cleanExpired EXCEPT ![h[d].c] = h[d].at + CACHE_EXPIRY]
    /\ h' = [h EXCEPT ![d].pc = "submit", ![d].at = 0]
    /\ UNCHANGED <<now, asks, lock, raced, promptVars, cb, resendVars,
                   cancelVars, sent>>

\* A request of another session, or of another client, goes through isReplay
\* too: of the entries modelled here it removes those that have expired.
OtherRequest ==
    /\ cache' = cleanExpired
    /\ UNCHANGED <<now, asks, h, lock, raced, promptVars, cb, resendVars, cancelVars,
                   sent>>

----------------------------------------------------------------------------
(* AuthRequestManager.                                                     *)

\* Mutant: a cancel that came before the request is not looked for.
isChallengeCancelledNever(c) == FALSE

isChallengeCancelled(c) == marked[c] # -1

Verified(c) ==
    verifySignature(ClientKey, serializeAuthRequestForVerification(Request(c)),
                    Request(c).signature)

\* The signature is checked and submitRequest looks for an earlier cancel.
submitRequest(d) ==
    LET c == h[d].c
        next == IF ~Verified(c) THEN "rejected"
                ELSE IF isChallengeCancelled(c) THEN "dropped" ELSE "insert"
    IN  /\ h[d].pc = "submit"
        /\ Goto(d, next)
        /\ IF next = "dropped"
           THEN /\ said' = [said EXCEPT ![d] = "quiet"]
                /\ cb' = [cb EXCEPT ![d] = "run"]
           ELSE UNCHANGED <<said, cb>>
        /\ UNCHANGED <<now, asks, lock, cache, raced, pending, resendVars,
                       cancelVars, sent>>

\* What is left of the session when the prompt opens.  Over BLE the time of
\* the request is passed in seconds where milliseconds are expected, so that
\* it always seems to be decades old.
remainingTimeout(d) ==
    LET elapsed == now - asks[h[d].c].stamp
    IN  IF h[d].tr = "BLE" \/ elapsed > SessionTimeout THEN 0
        ELSE SessionTimeout - elapsed

\* The prompt is registered, indexed and shown, and its clean-up scheduled if
\* any time is left.
openPrompt(d) ==
    /\ h[d].pc = "insert"
    /\ pending' = pending \cup {d}
    /\ h' = [h EXCEPT ![d].pc = "prompted",
                      ![d].at = IF remainingTimeout(d) > 0
                                THEN now + remainingTimeout(d) ELSE -1]
    /\ UNCHANGED <<now, asks, lock, cache, raced, said, cb, resendVars,
                   cancelVars, sent>>

\* Prompts D leave pendingRequests and their callbacks are launched.
Resolve(D, what) ==
    /\ pending' = pending \ D
    /\ said' = [d \in Delivery |-> IF d \in D THEN what ELSE said[d]]
    /\ cb' = [d \in Delivery |-> IF d \in D THEN "run" ELSE cb[d]]

\* The user approves or denies, or signing the challenge fails.
handleResponse(d, what) ==
    /\ d \in pending
    /\ Resolve({d}, what)
    /\ UNCHANGED <<now, asks, handlerVars, resendVars, cancelVars, sent>>

\* The clean-up job of a prompt.
TimeoutFires(d) ==
    /\ d \in pending
    /\ h[d].at # -1 /\ now >= h[d].at
    /\ Resolve({d}, "quiet")
    /\ UNCHANGED <<now, asks, handlerVars, resendVars, cancelVars, sent>>

BlePrompts == {d \in pending : h[d].tr = "BLE"}

\* The BLE link has been down for the grace period.
cancelRequestsByBleDisconnection ==
    /\ BlePrompts # {}
    /\ Resolve(BlePrompts, "quiet")
    /\ UNCHANGED <<now, asks, handlerVars, resendVars, cancelVars, sent>>

----------------------------------------------------------------------------
(* The callback of a prompt, and the retransmission it starts.             *)

Response(d) ==
    LET c == h[d].c
        wrapper == IF said[d] = "grant"
                   THEN createGrantWrapperMessage(signData(PhoneKey, c), PhoneKey)
                   ELSE createDenialWrapperMessage(c, PhoneKey)
    IN  createEncryptedPacket(Csk, wrapper, now)

releaseLock(c) == lock' = [lock EXCEPT ![c] = None]

\* The jobs of D are cancelled; each still runs its clean-up.
Cancelled(D) == [d \in Delivery |-> IF d \in D /\ job[d] = "running"
                                    THEN "cancelled" ELSE job[d]]

\* The answer is sent, the lock released and the retransmission launched:
\* startUdpRetransmission first stops an older one.  A BLE response is written
\* again in a loop that is not registered.
SendResponse(d) ==
    LET c == h[d].c
    IN  /\ cb[d] = "run" /\ said[d] \in {"grant", "denial"}
        /\ sent' = sent \cup {Response(d).ciphertext}
        /\ releaseLock(c)
        /\ IF h[d].tr = "UDP"
           THEN /\ cb' = [cb EXCEPT ![d] = "register"]
                /\ job' = [Cancelled(active[c]) EXCEPT ![d] = "running"]
                /\ active' = [active EXCEPT ![c] = {}]
           ELSE /\ cb' = [cb EXCEPT ![d] = "done"]
                /\ job' = [job EXCEPT ![d] = "running"]
                /\ UNCHANGED active
        /\ UNCHANGED <<now, asks, h, cache, raced, promptVars, cancelVars>>

\* Building or sending it throws, which leaves the lock, or the socket or the
\* link is gone, which is not noticed.
ResponseFails(d) ==
    /\ cb[d] = "run" /\ said[d] \in {"grant", "denial"}
    /\ cb' = [cb EXCEPT ![d] = "done"]
    /\ UNCHANGED lock \/ releaseLock(h[d].c)
    /\ UNCHANGED <<now, asks, h, cache, raced, promptVars, resendVars,
                   cancelVars, sent>>

\* Timed out, cancelled or disconnected: nothing is sent.
EndQuietly(d) ==
    /\ cb[d] = "run" /\ said[d] = "quiet"
    /\ cb' = [cb EXCEPT ![d] = "done"]
    /\ releaseLock(h[d].c)
    /\ UNCHANGED <<now, asks, h, cache, raced, promptVars, resendVars,
                   cancelVars, sent>>

stopRetransmission(c) ==
    /\ job' = Cancelled(active[c])
    /\ active' = [active EXCEPT ![c] = {}]

\* It is registered after it is launched.
RegisterRetransmission(d) ==
    /\ cb[d] = "register"
    /\ cb' = [cb EXCEPT ![d] = "done"]
    /\ active' = [active EXCEPT ![h[d].c] = {d}]
    /\ UNCHANGED <<now, asks, handlerVars, promptVars, job, cancelVars, sent>>

\* Mutant: the rounds of the loop are not bounded.
RetransmitsUntilCancelled(d) ==
    /\ job[d] = "cancelled"
    /\ job' = [job EXCEPT ![d] = None]
    /\ active' = [active EXCEPT ![h[d].c] = {}]
    /\ UNCHANGED <<now, asks, handlerVars, promptVars, cb, cancelVars, sent>>

\* The same packet has been sent a bounded number of times, and the loop is
\* left: out of attempts or of time, cancelled, confirmed over BLE, or a send
\* failed.  A UDP job then removes whatever is registered for its challenge,
\* unless it was cancelled before it ran.
RetransmissionEnds(d) ==
    /\ job[d] # None
    /\ job' = [job EXCEPT ![d] = None]
    /\ \/ h[d].tr = "UDP" /\ active' = [active EXCEPT ![h[d].c] = {}]
       \/ (h[d].tr = "BLE" \/ job[d] = "cancelled") /\ UNCHANGED active
    /\ UNCHANGED <<now, asks, handlerVars, promptVars, cb, cancelVars, sent>>

----------------------------------------------------------------------------
(* The client's other messages.                                            *)

\* The client has an answer for c and confirms it, once or repeatedly.
handleGrantConfirmation(c) ==
    LET confirmed == parseGrantConfirmation(wrap(grant_confirmation(c)))
    IN  /\ \E p \in sent : \/ accepts_grant(Csk, PhoneKey, p, c)
                           \/ accepts_denial(Csk, PhoneKey, p, c)
        /\ active[confirmed] # {}
        /\ stopRetransmission(confirmed)
        /\ UNCHANGED <<now, asks, handlerVars, promptVars, cb, cancelVars, sent>>

\* An AuthenticationCancel arrives, before, while or after the request it is
\* for is handled: first the retransmission is stopped, ...
handleAuthCancel(c) ==
    LET cancelled == parseAuthenticationCancel(wrap(auth_cancel(c)))
    IN  /\ cancels < MaxCancels
        /\ cancel[cancelled] = None /\ \E d \in Delivery : h[d].c = cancelled
        /\ cancels' = cancels + 1
        /\ cancel' = [cancel EXCEPT ![cancelled] = "sweep"]
        /\ stopRetransmission(cancelled)
        /\ UNCHANGED <<now, asks, handlerVars, promptVars, cb, marked, slipped,
                       sent>>

\* ... then cancelRequestsByChallenge resolves the prompts it finds, ...
CancelSweeps(c) ==
    /\ cancel[c] = "sweep"
    /\ cancel' = [cancel EXCEPT ![c] = "mark"]
    /\ Resolve({d \in pending : h[d].c = c}, "quiet")
    /\ UNCHANGED <<now, asks, handlerVars, resendVars, cancels, marked, slipped,
                   sent>>

\* ... and remembers the challenge for requests still to come.
markCancelledChallenge(c) ==
    /\ cancel[c] = "mark"
    /\ cancel' = [cancel EXCEPT ![c] = None]
    /\ marked' = [marked EXCEPT ![c] = now]
    /\ slipped' = slipped \cup {d \in Delivery :
                        h[d].c = c /\ (h[d].pc = "insert" \/ d \in pending)}
    /\ UNCHANGED <<now, asks, handlerVars, promptVars, cb, resendVars, cancels,
                   sent>>

----------------------------------------------------------------------------
Handler(d) == tryClaimTransport(d) \/ checkReplay(d) \/ putChallenge(d)
                 \/ submitRequest(d) \/ openPrompt(d)

Callback(d) == SendResponse(d) \/ ResponseFails(d) \/ EndQuietly(d)
                  \/ RegisterRetransmission(d)

Prompt(d) == \/ \E what \in {"grant", "denial", "quiet"} : handleResponse(d, what)
             \/ TimeoutFires(d)

Next ==
    \/ Tick
    \/ OtherRequest
    \/ \E d \in Delivery :
          Handler(d) \/ Prompt(d) \/ Callback(d) \/ RetransmissionEnds(d)
    \/ cancelRequestsByBleDisconnection
    \/ \E c \in Challenge :
          \/ handleGrantConfirmation(c) \/ handleAuthCancel(c)
          \/ CancelSweeps(c) \/ markCancelledChallenge(c)

Spec == Init /\ [][Next]_vars

\* What happens without the user, the client or the network: time passes,
\* coroutines that are running go on, delays end, and a BLE link that is down
\* is noticed.
Progress ==
    \/ Tick
    \/ \E d \in Delivery : \/ h[d].pc # "idle" /\ Handler(d)
                           \/ TimeoutFires(d) \/ Callback(d)
                           \/ RetransmissionEnds(d)
    \/ cancelRequestsByBleDisconnection
    \/ \E c \in Challenge : CancelSweeps(c) \/ markCancelledChallenge(c)

\* No step of Progress can be repeated for ever, so that it is enough to ask
\* that one is taken when one can be.
Fairness == WF_vars(Progress)

FairSpec == Spec /\ Fairness

----------------------------------------------------------------------------
\* A request is put before the user once, however often and over whatever
\* transport it is delivered and however long after: only handlers that are
\* both between the look-up and the entry of isReplay can open two prompts.
OnePrompt ==
    \A d, e \in Delivery :
       d # e /\ h[d].pc = "prompted" /\ h[e].pc = "prompted" /\ h[d].c = h[e].c
          => h[d].c \in raced

\* The client never holds two contradictory answers for a challenge, whatever
\* races to resolve its prompt: the user, its timeout, a cancel, a
\* disconnection (again unless two handlers passed the replay check together).
OneAnswer ==
    \A p, q \in sent, c \in Challenge :
       accepts_grant(Csk, PhoneKey, p, c) /\ accepts_denial(Csk, PhoneKey, q, c)
          => c \in raced

\* Whatever the phone has sent, the daemon accepts it as a grant only for a
\* challenge whose own prompt the user approved, a request for a user the
\* pairing allows.
GrantMeansApproved ==
    \A p \in sent, c \in Challenge :
       accepts_grant(Csk, PhoneKey, p, c)
          => \E d \in Delivery : /\ h[d].c = c /\ h[d].pc = "prompted"
                                 /\ said[d] = "grant"
                                 /\ asks[c].user \in Allowed

Served(d) == h[d].pc \in {"check", "put", "submit", "insert", "prompted",
                          "dropped"}

\* A delivery is turned away by the transport lock only if the transport that
\* holds it serves the request: a lock that a failed handler leaves behind
\* never strands a request that is still valid.
BlockedIsServed ==
    \A d \in Delivery :
       h[d].pc = "blocked"
          => \/ \E e \in Delivery : h[e].c = h[d].c /\ Served(e)
             \/ now - asks[h[d].c].stamp > TIMESTAMP_VALIDITY

\* While a cancel is remembered no prompt for its challenge is open, except
\* one whose handler was past the look for an earlier cancel when it was
\* entered: cancelRequestsByChallenge resolves the prompts before it marks.
CancelHolds ==
    \A d \in pending : marked[h[d].c] # -1 => d \in slipped

Settled(d) ==
    /\ h[d].pc \in {"prompted", "dropped", "blocked", "rejected"}
    /\ d \notin pending
    /\ cb[d] \in {None, "done"}
    /\ job[d] = None

\* A prompt without a clean-up job: it opened when its session was over.
OpenedLate(d) == d \in pending /\ h[d].tr = "UDP" /\ h[d].at = -1

\* Every delivery that is taken up is settled in the end, even if the user
\* never answers: its prompt is resolved, its callback has run and nothing is
\* retransmitted.  Only a UDP prompt that opens when the session is already
\* over has nothing to end it, for submitRequest then schedules no clean-up.
EverythingSettles ==
    []<>(\A d \in Delivery : h[d].pc = "idle" \/ Settled(d) \/ OpenedLate(d))
=============================================================================
