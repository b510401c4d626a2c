-------------------------- MODULE PhoneAuthProofs --------------------------
(***************************************************************************)
(* The safety properties of PhoneAuth for any number of deliveries,        *)
(* challenges and cancels, any clock and any times of expiry that satisfy  *)
(* PhoneAssumption.                                                        *)
(***************************************************************************)
EXTENDS PhoneAuth, TLAPS

\* The handler of d has made the entry of isReplay.
Past(d) == h[d].pc \in {"submit", "insert", "prompted", "dropped"}

\* A request is not taken up a whole window before its time, and only for a
\* user of the pairing; the replay check lets it pass while it is valid.
Timely ==
    \A d \in Delivery :
       /\ h[d].pc # "idle" => /\ asks[h[d].c].stamp < now + TIME_WINDOW
                              /\ asks[h[d].c].user \in Allowed
       /\ h[d].pc = "put" =>
             /\ asks[h[d].c].stamp <= h[d].at + TIMESTAMP_VALIDITY
             /\ h[d].at <= asks[h[d].c].stamp + TIMESTAMP_VALIDITY

\* The entry of a request outlives the request.
Remembered ==
    \A d \in Delivery :
       Past(d) => \/ cache[h[d].c] >= asks[h[d].c].stamp + TIMESTAMP_VALIDITY
                  \/ now > asks[h[d].c].stamp + TIMESTAMP_VALIDITY

\* An entry stands for a request that has been let through.
Entered ==
    \A c \in Challenge :
       cache[c] # -1 => \E d \in Delivery : h[d].c = c /\ Past(d)

\* Two handlers past the replay check with one challenge passed it together.
Exclusive ==
    \A d, e \in Delivery :
       /\ d # e /\ h[d].c = h[e].c
       /\ Past(d) \/ h[d].pc = "put"
       /\ Past(e) \/ h[e].pc = "put"
       => h[d].c \in raced

\* A lock is held for a request that is served or too old to be.
ServedOrOld(c) ==
    \/ \E d \in Delivery : h[d].c = c /\ Served(d)
    \/ now > asks[c].stamp + TIMESTAMP_VALIDITY

Locked == \A c \in Challenge : lock[c] # None => ServedOrOld(c)

Blocked == \A d \in Delivery : h[d].pc = "blocked" => ServedOrOld(h[d].c)

Handled ==
    Timely /\ Remembered /\ Entered /\ Exclusive /\ Locked /\ Blocked

\* A prompt is answered once: while it is pending its callback has not been
\* launched, and afterwards what it is called with is settled.
Prompted ==
    \A d \in Delivery :
       /\ d \in pending => h[d].pc = "prompted" /\ cb[d] = None
       /\ cb[d] # None => h[d].pc \in {"prompted", "dropped"}
       /\ h[d].pc = "dropped" => said[d] = "quiet"

\* A cancel that is remembered was missed only by the prompts of slipped.
Missed ==
    \A d \in Delivery :
       /\ h[d].pc = "insert" \/ d \in pending
       /\ marked[h[d].c] # -1
       => d \in slipped

Answer(c, what) ==
    encrypt_with_csk(Csk, IF what = "grant"
        THEN createGrantWrapperMessage(signData(PhoneKey, c), PhoneKey)
        ELSE createDenialWrapperMessage(c, PhoneKey))

\* What was sent is the answer to a prompt that is resolved.
Answered ==
    \A p \in sent : \E d \in Delivery :
       /\ h[d].pc = "prompted" /\ cb[d] # None
       /\ said[d] \in {"grant", "denial"}
       /\ p = Answer(h[d].c, said[d])

IInv == TypeOK /\ Handled /\ Prompted /\ Missed /\ Answered

----------------------------------------------------------------------------
(* Facts about the messages.                                               *)

\* Times of one window are less than a window apart.
LEMMA SameWindow ==
    ASSUME NEW s \in Int, NEW t \in Int, time_window(s) = time_window(t)
    PROVE  s < t + TIME_WINDOW
BY WindowAssumption DEF time_window

\* A request is admitted in its own window and the next, for an allowed user.
LEMMA AdmittedInTime ==
    ASSUME TypeOK, NEW c \in Challenge, Admitted(c)
    PROVE  /\ asks[c].stamp < now + TIME_WINDOW
           /\ asks[c].user \in Allowed
<1> DEFINE s == asks[c].stamp
           w == sign_wrapper(wrap(auth_request(c, asks[c].user, s)), ClientKey)
<1>1. s \in Nat /\ now \in Nat /\ TIME_WINDOW \in Nat
  BY Zenon, PhoneAssumption, WindowAssumption DEF TypeOK
<1>2. w.payload = auth_request(c, asks[c].user, s)
  BY Zenon DEF sign_wrapper, wrap
<1>3. asks[c].user \in Allowed
  BY <1>2 DEF Admitted, Request, RequestPacket, decryptEncryptedPacket,
     encrypted_packet, encrypt_with_csk, parseAuthRequest, auth_request
<1>4. temporal_identifier(Csk, time_window(s)) \in
        {temporal_identifier(Csk, time_window(now)),
         temporal_identifier(Csk, time_window(now - TIME_WINDOW))}
  BY Zenon DEF Admitted, extractTemporalIdentifier, RequestPacket, encrypted_packet,
     current_temporal_identifier, computeValidIds, generateTemporalId
<1>5. \/ time_window(s) = time_window(now)
      \/ time_window(s) = time_window(now - TIME_WINDOW)
  BY Zenon, <1>4 DEF temporal_identifier
<1>6. s < now + TIME_WINDOW
  BY <1>1, <1>5, SameWindow
<1> QED
  BY Zenon, <1>3, <1>6

\* What the phone puts together from the parsed request is what was signed.
LEMMA GenuineIsVerified ==
    ASSUME NEW c PROVE Verified(c)
<1> DEFINE m == auth_request(c, asks[c].user, asks[c].stamp)
           u == wrap(m)
           w == sign_wrapper(u, ClientKey)
<1>1. /\ w.payload = m
      /\ w.signature = sign_ed25519(ClientKey, u)
  BY DEF sign_wrapper, wrap
<1>2. decryptEncryptedPacket(RequestPacket(c)) = w
  BY Zenon DEF decryptEncryptedPacket, RequestPacket, encrypted_packet,
     encrypt_with_csk
<1>3. /\ Request(c).challenge = c
      /\ Request(c).username = asks[c].user
      /\ Request(c).timestamp = asks[c].stamp
      /\ Request(c).signature = sign_ed25519(ClientKey, u)
  BY <1>1, <1>2 DEF Request, parseAuthRequest, auth_request
<1> QED
  BY Zenon, <1>3 DEF Verified, verifySignature, verify_ed25519, sign_ed25519,
     serializeAuthRequestForVerification

\* The daemon takes an answer for a grant, or for a denial, of a challenge
\* only if that is what it was made as.
LEMMA AnswersAreDistinct ==
    ASSUME NEW c, NEW k, NEW what \in {"grant", "denial"}
    PROVE  /\ accepts_grant(Csk, PhoneKey, Answer(k, what), c)
                => what = "grant" /\ k = c
           /\ accepts_denial(Csk, PhoneKey, Answer(k, what), c)
                => what = "denial" /\ k = c
<1> DEFINE g == createGrantWrapperMessage(signData(PhoneKey, k), PhoneKey)
           n == createDenialWrapperMessage(k, PhoneKey)
<1>1. /\ g.payload.type = "AUTH_GRANT"
      /\ g.payload.signed_challenge = {[by |-> PhoneKey, over |-> k]}
  BY Zenon DEF createGrantWrapperMessage, sign_wrapper, wrap, signData, sign_ed25519
<1>2. n.payload.type = "AUTH_DENIAL" /\ n.payload.challenge = k
  BY Zenon DEF createDenialWrapperMessage, sign_wrapper, wrap
<1>3. Answer(k, what).plain = IF what = "grant" THEN g ELSE n
  BY Zenon DEF Answer, encrypt_with_csk
<1> HIDE DEF g, n
<1>4. accepts_grant(Csk, PhoneKey, Answer(k, what), c)
         => what = "grant" /\ [by |-> PhoneKey, over |-> k]
                                 = [by |-> PhoneKey, over |-> c]
  BY Zenon, <1>1, <1>2, <1>3 DEF accepts_grant, verify_auth_grant, verify_ed25519
<1>5. accepts_denial(Csk, PhoneKey, Answer(k, what), c)
         => what = "denial" /\ k = c
  BY Zenon, <1>1, <1>2, <1>3 DEF accepts_denial
<1> QED
  BY Zenon, <1>4, <1>5

----------------------------------------------------------------------------
(* The inductive invariant.                                                *)

\* It holds when the phone starts.
LEMMA InitIInv == Init => IInv
<1> SUFFICES ASSUME Init PROVE IInv
  BY Zenon
<1>1. TypeOK
  BY PhoneAssumption DEF Init, TypeOK, Handlers, Transport, None
<1>2. Handled
  BY DEF Init, Handled, Timely, Remembered, Entered, Exclusive, Locked,
     Blocked, Past, None
<1>3. Prompted /\ Missed /\ Answered
  BY DEF Init, Prompted, Missed, Answered, None
<1> QED
  BY Zenon, <1>1, <1>2, <1>3 DEF IInv

\* A handler that moves keeps its request, and the others stay.
Moves(g, d, pc, at) ==
    /\ g \in [Delivery -> Handlers]
    /\ g[d].pc = pc /\ g[d].at = at
    /\ g[d].c = h[d].c /\ g[d].tr = h[d].tr
    /\ \A e \in Delivery \ {d} : g[e] = h[e]

LEMMA GotoMoves ==
    ASSUME TypeOK, NEW d \in Delivery,
           NEW pc \in {"check", "put", "submit", "insert", "prompted",
                       "dropped", "blocked", "rejected"}
    PROVE  Moves([h EXCEPT ![d].pc = pc], d, pc, h[d].at)
<1>1. h[d] \in Handlers
  BY Zenon DEF TypeOK
<1>2. [h[d] EXCEPT !.pc = pc] =
        [pc |-> pc, c |-> h[d].c, tr |-> h[d].tr, at |-> h[d].at]
  BY <1>1 DEF Handlers
<1>3. [h EXCEPT ![d].pc = pc] =
        [h EXCEPT ![d] = [pc |-> pc, c |-> h[d].c, tr |-> h[d].tr,
                          at |-> h[d].at]]
  BY Zenon, <1>2
<1> QED
  BY ZenonT(60), <1>1, <1>3 DEF Moves, TypeOK, Handlers

LEMMA GotoAtMoves ==
    ASSUME TypeOK, NEW d \in Delivery, NEW at \in Int,
           NEW pc \in {"check", "put", "submit", "insert", "prompted",
                       "dropped", "blocked", "rejected"}
    PROVE  Moves([h EXCEPT ![d].pc = pc, ![d].at = at], d, pc, at)
<1> DEFINE q == [pc |-> pc, c |-> h[d].c, tr |-> h[d].tr, at |-> h[d].at]
           r == [pc |-> pc, c |-> h[d].c, tr |-> h[d].tr, at |-> at]
<1>1. h[d] \in Handlers
  BY Zenon DEF TypeOK
<1>2. [h[d] EXCEPT !.pc = pc] = q
  BY <1>1 DEF Handlers
<1>3. [q EXCEPT !.at = at] = r
  OBVIOUS
<1>4. [h EXCEPT ![d].pc = pc, ![d].at = at] = [h EXCEPT ![d] = r]
  BY ZenonT(60), <1>2, <1>3 DEF TypeOK
<1> QED
  BY <1>1, <1>4 DEF Moves, TypeOK, Handlers

\* Where the steps of a handler lead.
LEMMA HandlerMoves ==
    ASSUME TypeOK, NEW d \in Delivery
    PROVE  /\ h[d].c \in Challenge
           /\ tryClaimTransport(d) =>
                 \/ /\ Moves(h', d, "check", h[d].at)
                    /\ \A c \in Challenge \ {h[d].c} : lock'[c] = lock[c]
                 \/ /\ Moves(h', d, "blocked", h[d].at)
                    /\ lock[h[d].c] # None /\ lock' = lock
           /\ checkReplay(d) => \/ /\ Moves(h', d, "rejected", h[d].at)
                                   /\ Stale(h[d].c) \/ cache[h[d].c] # -1
                                \/ /\ Moves(h', d, "put", now)
                                   /\ ~Stale(h[d].c) /\ cache[h[d].c] = -1
           /\ putChallenge(d) => Moves(h', d, "submit", 0)
           /\ submitRequest(d) => \/ Moves(h', d, "dropped", h[d].at)
                                  \/ /\ Moves(h', d, "insert", h[d].at)
                                     /\ ~isChallengeCancelled(h[d].c)
           /\ openPrompt(d) => \E at \in Int : Moves(h', d, "prompted", at)
<1>1. /\ h[d].c \in Challenge
      /\ asks[h[d].c].stamp \in Nat
  BY Zenon, PhoneAssumption DEF TypeOK, Handlers
<1>2. tryClaimTransport(d) =>
         \/ /\ Moves(h', d, "check", h[d].at)
            /\ \A c \in Challenge \ {h[d].c} : lock'[c] = lock[c]
         \/ /\ Moves(h', d, "blocked", h[d].at)
            /\ lock[h[d].c] # None /\ lock' = lock
  BY ZenonT(60), GotoMoves DEF tryClaimTransport, Goto, TypeOK
<1>3. checkReplay(d) => \/ /\ Moves(h', d, "rejected", h[d].at)
                           /\ Stale(h[d].c) \/ cache[h[d].c] # -1
                        \/ /\ Moves(h', d, "put", now)
                           /\ ~Stale(h[d].c) /\ cache[h[d].c] = -1
  <2>1. now \in Int
    BY DEF TypeOK
  <2>2. Moves([h EXCEPT ![d].pc = "put", ![d].at = now], d, "put", now)
    BY Zenon, <2>1, GotoAtMoves
  <2>3. Moves([h EXCEPT ![d].pc = "rejected"], d, "rejected", h[d].at)
    BY Zenon, GotoMoves
  <2> QED
    BY Zenon, <2>2, <2>3 DEF checkReplay, Goto
<1>4. putChallenge(d) => Moves(h', d, "submit", 0)
  <2> DEFINE at == 0
  <2>1. at \in Int
    OBVIOUS
  <2>2. putChallenge(d) => h' = [h EXCEPT ![d].pc = "submit", ![d].at = at]
    BY Zenon DEF putChallenge
  <2>3. at = 0
    BY Zenon
  <2> HIDE DEF at
  <2>4. putChallenge(d) => Moves(h', d, "submit", at)
    BY Zenon, <2>1, <2>2, GotoAtMoves
  <2> QED
    BY Zenon, <2>3, <2>4
<1>5. submitRequest(d) => \/ Moves(h', d, "dropped", h[d].at)
                          \/ /\ Moves(h', d, "insert", h[d].at)
                             /\ ~isChallengeCancelled(h[d].c)
  BY Zenon, GotoMoves, GenuineIsVerified DEF submitRequest, Goto
<1>6. ASSUME openPrompt(d) PROVE \E at \in Int : Moves(h', d, "prompted", at)
  <2> DEFINE at == IF remainingTimeout(d) > 0
                   THEN now + remainingTimeout(d) ELSE -1
  <2>1. at \in Int
    BY <1>1, PhoneAssumption DEF remainingTimeout, TypeOK
  <2>2. h' = [h EXCEPT ![d].pc = "prompted", ![d].at = at]
    BY Zenon, <1>6 DEF openPrompt
  <2> HIDE DEF at
  <2> QED
    BY Zenon, <2>1, <2>2, GotoAtMoves
<1> QED
  BY Zenon, <1>1, <1>2, <1>3, <1>4, <1>5, <1>6

\* Every action keeps the types.
LEMMA NextTypeOK == TypeOK /\ [Next]_vars => TypeOK'
<1> SUFFICES ASSUME TypeOK, [Next]_vars PROVE TypeOK'
  BY Zenon
<1> USE DEF TypeOK, handlerVars, promptVars, resendVars, cancelVars
<1>1. CASE Tick
  BY <1>1 DEF Tick, pruneCancelledChallenges
<1>2. CASE OtherRequest
  BY <1>2 DEF OtherRequest, cleanExpired
<1>3. ASSUME NEW d \in Delivery, tryClaimTransport(d) PROVE TypeOK'
  <2>1. h[d].tr \in Transport /\ h' \in [Delivery -> Handlers]
    BY Zenon, <1>3, HandlerMoves DEF Moves, Handlers
  <2> QED
    BY SMTT(60), <1>3, <2>1 DEF tryClaimTransport
<1>4. ASSUME NEW d \in Delivery, checkReplay(d) PROVE TypeOK'
  <2>1. h[d].c \in Challenge /\ h' \in [Delivery -> Handlers]
    BY Zenon, <1>4, HandlerMoves DEF Moves
  <2>2. raced' \in SUBSET Challenge
    BY <1>4, <2>1 DEF checkReplay
  <2> QED
    BY SMTT(60), <1>4, <2>1, <2>2 DEF checkReplay
<1>5. ASSUME NEW d \in Delivery, putChallenge(d) PROVE TypeOK'
  <2>1. h[d].at \in Int /\ h' \in [Delivery -> Handlers]
    BY Zenon, <1>5, HandlerMoves DEF Moves, Handlers
  <2>2. cache' \in [Challenge -> Int]
    <3>1. cleanExpired \in [Challenge -> Int]
      BY DEF cleanExpired
    <3>2. h[d].at + CACHE_EXPIRY \in Int
      BY <2>1, PhoneAssumption
    <3> QED
      BY Zenon, <1>5, <3>1, <3>2 DEF putChallenge
  <2> QED
    BY SMTT(60), <1>5, <2>1, <2>2 DEF putChallenge
<1>6. ASSUME NEW d \in Delivery, submitRequest(d) PROVE TypeOK'
  <2>1. h' \in [Delivery -> Handlers]
    BY Zenon, <1>6, HandlerMoves DEF Moves
  <2> QED
    BY SMTT(60), <1>6, <2>1 DEF submitRequest
<1>7. ASSUME NEW d \in Delivery, openPrompt(d) PROVE TypeOK'
  <2>1. h' \in [Delivery -> Handlers]
    BY Zenon, <1>7, HandlerMoves DEF Moves
  <2> QED
    BY SMTT(60), <1>7, <2>1 DEF openPrompt
<1>8. ASSUME NEW d \in Delivery, NEW what \in {"grant", "denial", "quiet"},
             handleResponse(d, what)
      PROVE TypeOK'
  BY Zenon, <1>8 DEF handleResponse, Resolve
<1>9. ASSUME NEW d \in Delivery, TimeoutFires(d) PROVE TypeOK'
  BY Zenon, <1>9 DEF TimeoutFires, Resolve
<1>10. CASE cancelRequestsByBleDisconnection
  BY Zenon, <1>10 DEF cancelRequestsByBleDisconnection, Resolve
<1>11. ASSUME NEW d \in Delivery, SendResponse(d) PROVE TypeOK'
  <2>1. h[d].c \in Challenge
    BY Zenon DEF Handlers
  <2>2. job' \in [Delivery -> {None, "running", "cancelled"}]
    BY Zenon, <1>11 DEF SendResponse, Cancelled
  <2> QED
    BY ZenonT(60), <1>11, <2>1, <2>2 DEF SendResponse, releaseLock
<1>12. ASSUME NEW d \in Delivery, ResponseFails(d) PROVE TypeOK'
  BY SMTT(60), <1>12 DEF ResponseFails, releaseLock
<1>13. ASSUME NEW d \in Delivery, EndQuietly(d) PROVE TypeOK'
  BY Zenon, <1>13 DEF EndQuietly, releaseLock
<1>14. ASSUME NEW d \in Delivery, RegisterRetransmission(d) PROVE TypeOK'
  BY Zenon, <1>14 DEF RegisterRetransmission
<1>15. ASSUME NEW d \in Delivery, RetransmissionEnds(d) PROVE TypeOK'
  BY Zenon, <1>15 DEF RetransmissionEnds
<1>16. ASSUME NEW c \in Challenge, handleGrantConfirmation(c) PROVE TypeOK'
  BY ZenonT(60), <1>16 DEF handleGrantConfirmation, stopRetransmission, Cancelled
<1>17. ASSUME NEW c \in Challenge, handleAuthCancel(c) PROVE TypeOK'
  <2>1. cancels' \in 0 .. MaxCancels
    BY <1>17, PhoneAssumption DEF handleAuthCancel
  <2>2. /\ job' \in [Delivery -> {None, "running", "cancelled"}]
        /\ active' \in [Challenge -> SUBSET Delivery]
    BY Zenon, <1>17 DEF handleAuthCancel, stopRetransmission, Cancelled
  <2>3. cancel' \in [Challenge -> {None, "sweep", "mark"}]
    BY ZenonT(60), <1>17 DEF handleAuthCancel
  <2> QED
    BY SMTT(60), <1>17, <2>1, <2>2, <2>3 DEF handleAuthCancel
<1>18. ASSUME NEW c \in Challenge, CancelSweeps(c) PROVE TypeOK'
  BY Zenon, <1>18 DEF CancelSweeps, Resolve
<1>19. ASSUME NEW c \in Challenge, markCancelledChallenge(c) PROVE TypeOK'
  BY <1>19 DEF markCancelledChallenge
<1>20. CASE UNCHANGED vars
  BY Zenon, <1>20 DEF vars
<1> QED
  BY Zenon, <1>1, <1>2, <1>3, <1>4, <1>5, <1>6, <1>7, <1>8, <1>9, <1>10, <1>11,
     <1>12, <1>13, <1>14, <1>15, <1>16, <1>17, <1>18, <1>19, <1>20
     DEF Next, Handler, Prompt, Callback

\* The invariants of the handlers survive whatever leaves the handlers alone
\* and at most releases locks.
LEMMA HandledUnlocks ==
    ASSUME IInv, UNCHANGED <<now, asks, h, cache, raced>>,
           \A c \in Challenge : lock'[c] \in {lock[c], None}
    PROVE  Handled'
<1>1. (Timely /\ Remembered /\ Entered /\ Exclusive /\ Blocked)'
  BY DEF IInv, Handled, Timely, Remembered, Entered, Exclusive, Blocked, Past,
     Served, ServedOrOld
<1>2. Locked'
  BY Zenon DEF IInv, Handled, Locked, Served, ServedOrOld
<1> QED
  BY SMTT(60), <1>1, <1>2 DEF Handled

\* Time may pass and expired entries may be removed.
LEMMA HandledClock ==
    ASSUME IInv, UNCHANGED <<asks, h, lock, raced>>,
           \/ now' = now + 1 /\ UNCHANGED cache
           \/ UNCHANGED now /\ cache' = cleanExpired
    PROVE  Handled'
<1>1. /\ now \in Nat /\ TIME_WINDOW \in Nat /\ TIMESTAMP_VALIDITY \in Nat
      /\ \A c \in Challenge : asks[c].stamp \in Nat /\ cache[c] \in Int
      /\ \A d \in Delivery : h[d].c \in Challenge
  BY Zenon, PhoneAssumption, WindowAssumption DEF IInv, TypeOK, Handlers
<1>2. now' \in Nat /\ now' >= now
  BY <1>1
<1>3. \A c \in Challenge : cache'[c] = cache[c] \/ (cache'[c] = -1 /\ cache[c] < now)
  BY SMTT(60) DEF cleanExpired, IInv, TypeOK
<1>4. Timely'
  BY SMTT(60), <1>1, <1>2 DEF IInv, Handled, Timely
<1>5. Remembered'
  BY <1>1, <1>2, <1>3 DEF IInv, Handled, Remembered, Past
<1>6. Entered'
  BY Zenon, <1>3 DEF IInv, Handled, Entered, Past
<1>7. Exclusive'
  BY Zenon DEF IInv, Handled, Exclusive, Past
<1>8. \A c \in Challenge : ServedOrOld(c) => ServedOrOld(c)'
  BY <1>1, <1>2 DEF ServedOrOld, Served
<1>9. Locked' /\ Blocked'
  BY Zenon, <1>1, <1>8 DEF IInv, Handled, Locked, Blocked
<1> QED
  BY Zenon, <1>4, <1>5, <1>6, <1>7, <1>9 DEF Handled

\* So do the steps of a handler.
LEMMA HandledHandler ==
    ASSUME IInv, NEW d \in Delivery, Handler(d)
    PROVE  Handled'
<1> DEFINE k == h[d].c
<1>1. /\ TypeOK /\ Timely /\ Remembered /\ Entered /\ Exclusive /\ Locked
      /\ Blocked
  BY Zenon DEF IInv, Handled
<1>2. /\ now \in Nat /\ TIME_WINDOW \in Nat /\ TIMESTAMP_VALIDITY \in Nat
      /\ CACHE_EXPIRY \in Nat /\ TIME_WINDOW <= TIMESTAMP_VALIDITY
      /\ 2 * TIMESTAMP_VALIDITY <= CACHE_EXPIRY
      /\ \A c \in Challenge : asks[c].stamp \in Nat /\ cache[c] \in Int
      /\ \A e \in Delivery : h[e].c \in Challenge /\ h[e].at \in Int
  BY ZenonT(60), <1>1, PhoneAssumption, WindowAssumption DEF TypeOK, Handlers
<1>3. CASE tryClaimTransport(d)
  <2>1. /\ h[d].pc = "idle" /\ Admitted(k)
        /\ UNCHANGED <<now, asks, cache, raced>>
    BY SMTT(60), <1>3 DEF tryClaimTransport
  <2>2. PICK pc \in {"check", "blocked"} : Moves(h', d, pc, h[d].at)
    BY Zenon, <1>1, <1>3, HandlerMoves
  <2>3. \A e \in Delivery : h'[e].c = h[e].c /\ (e # d => h'[e] = h[e])
    BY Zenon, <2>2 DEF Moves
  <2>4. h'[d].pc = pc
    BY SMTT(60), <2>2 DEF Moves
  <2>5. Timely'
    BY SMTT(60), <1>1, <1>2, <2>1, <2>3, <2>4, AdmittedInTime DEF Timely
  <2>6. Remembered' /\ Entered' /\ Exclusive'
    BY SMTT(60), <1>1, <2>1, <2>3, <2>4 DEF Remembered, Entered, Exclusive, Past
  <2>7. \A c \in Challenge : ServedOrOld(c) => ServedOrOld(c)'
    BY Zenon, <2>1, <2>3 DEF ServedOrOld, Served
  <2>8. CASE pc = "check"
    <3>1. ServedOrOld(k)'
      BY Zenon, <2>3, <2>4, <2>8 DEF ServedOrOld, Served
    <3>2. \A c \in Challenge \ {k} : lock'[c] = lock[c]
      BY ZenonT(60), <1>1, <1>3, <2>4, <2>8, HandlerMoves DEF Moves
    <3>3. Locked' /\ Blocked'
      BY SMTT(60), <1>1, <1>2, <2>3, <2>4, <2>7, <2>8, <3>1, <3>2 DEF Locked, Blocked
    <3> QED
      BY SMTT(60), <2>5, <2>6, <3>3 DEF Handled
  <2>9. CASE pc = "blocked"
    <3>1. lock[k] # None /\ lock' = lock
      BY SMTT(60), <1>1, <1>3, <2>4, <2>9, HandlerMoves DEF Moves
    <3>2. ServedOrOld(k)'
      BY SMTT(60), <1>1, <1>2, <2>3, <2>7, <3>1 DEF Locked
    <3>3. Locked' /\ Blocked'
      BY SMTT(60), <1>1, <1>2, <2>3, <2>4, <2>7, <3>1, <3>2 DEF Locked, Blocked
    <3> QED
      BY <2>5, <2>6, <3>3 DEF Handled
  <2> QED
    BY Zenon, <2>2, <2>8, <2>9
<1>4. CASE checkReplay(d)
  <2>1. /\ h[d].pc = "check"
        /\ UNCHANGED <<now, asks, lock, cache>>
    BY Zenon, <1>4 DEF checkReplay
  <2>2. CASE /\ Moves(h', d, "rejected", h[d].at)
             /\ Stale(k) \/ cache[k] # -1
    <3>1. raced' = raced
      BY SMTT(60), <1>4, <2>2 DEF checkReplay
    <3>2. \A e \in Delivery : h'[e].c = h[e].c /\ (e # d => h'[e] = h[e])
      BY Zenon, <2>2 DEF Moves
    <3>3. h'[d].pc = "rejected"
      BY SMTT(60), <2>2 DEF Moves
    <3>4. Timely' /\ Remembered' /\ Entered' /\ Exclusive'
      BY SMTT(60), <1>1, <2>1, <3>1, <3>2, <3>3
         DEF Timely, Remembered, Entered, Exclusive, Past
    <3>5. ServedOrOld(k)'
      BY <1>1, <1>2, <2>1, <2>2, <3>2
         DEF Entered, ServedOrOld, Served, Past, Timely, Stale
    <3>6. \A c \in Challenge : ServedOrOld(c) => ServedOrOld(c)'
      BY SMTT(60), <2>1, <3>2, <3>5 DEF ServedOrOld, Served
    <3>7. Locked' /\ Blocked'
      BY Zenon, <1>1, <1>2, <2>1, <3>2, <3>3, <3>6 DEF Locked, Blocked
    <3> QED
      BY Zenon, <3>4, <3>7 DEF Handled
  <2>3. CASE Moves(h', d, "put", now) /\ ~Stale(k) /\ cache[k] = -1
    <3>1. raced' = IF \E e \in Delivery : h[e].pc = "put" /\ h[e].c = k
                   THEN raced \cup {k} ELSE raced
      BY Zenon, <1>4, <2>3 DEF checkReplay
    <3>2. \A e \in Delivery : h'[e].c = h[e].c /\ (e # d => h'[e] = h[e])
      BY Zenon, <2>3 DEF Moves
    <3>3. h'[d].pc = "put" /\ h'[d].at = now
      BY SMTT(60), <2>3 DEF Moves
    <3>4. Timely'
      BY SMTT(60), <1>1, <1>2, <2>1, <2>3, <3>2, <3>3 DEF Timely, Stale
    <3>5. Remembered' /\ Entered'
      BY SMTT(60), <1>1, <2>1, <3>2, <3>3 DEF Remembered, Entered, Past
    <3>6. \A e \in Delivery : h[e].c = k => ~Past(e)
      BY SMTT(60), <1>1, <1>2, <2>3 DEF Remembered, Stale
    <3>7. Exclusive'
      BY <1>1, <3>1, <3>2, <3>3, <3>6 DEF Exclusive, Past
    <3>8. \A c \in Challenge : ServedOrOld(c) => ServedOrOld(c)'
      BY SMTT(60), <2>1, <3>2, <3>3 DEF ServedOrOld, Served
    <3>9. Locked' /\ Blocked'
      BY Zenon, <1>1, <1>2, <2>1, <3>2, <3>3, <3>8 DEF Locked, Blocked
    <3> QED
      BY Zenon, <3>4, <3>5, <3>7, <3>9 DEF Handled
  <2> QED
    BY Zenon, <1>1, <1>4, <2>2, <2>3, HandlerMoves
<1>5. CASE putChallenge(d)
  <2>1. /\ h[d].pc = "put"
        /\ UNCHANGED <<now, asks, lock, raced>>
        /\ cache'[k] = h[d].at + CACHE_EXPIRY
        /\ \A c \in Challenge \ {k} : \/ cache'[c] = cache[c]
                                      \/ cache'[c] = -1 /\ cache[c] < now
    BY SMTT(60), <1>2, <1>5 DEF putChallenge, cleanExpired
  <2>2. Moves(h', d, "submit", 0)
    BY Zenon, <1>1, <1>5, HandlerMoves
  <2>3. \A e \in Delivery : h'[e].c = h[e].c /\ (e # d => h'[e] = h[e])
    BY Zenon, <2>2 DEF Moves
  <2>4. h'[d].pc = "submit"
    BY SMTT(60), <2>2 DEF Moves
  <2>5. Timely'
    BY SMTT(60), <1>1, <2>1, <2>3, <2>4 DEF Timely
  <2>6. cache'[k] >= asks[k].stamp + TIMESTAMP_VALIDITY
    BY SMTT(60), <1>1, <1>2, <2>1 DEF Timely
  <2>7. Remembered'
    BY SMTT(60), <1>1, <1>2, <2>1, <2>3, <2>4, <2>6 DEF Remembered, Past
  <2>8. Entered'
    BY SMTT(60), <1>1, <1>2, <2>1, <2>3, <2>4 DEF Entered, Past
  <2>9. Exclusive'
    BY SMTT(60), <1>1, <2>1, <2>3, <2>4 DEF Exclusive, Past
  <2>10. \A c \in Challenge : ServedOrOld(c) => ServedOrOld(c)'
    BY SMTT(60), <2>1, <2>3, <2>4 DEF ServedOrOld, Served
  <2>11. Locked' /\ Blocked'
    BY Zenon, <1>1, <1>2, <2>1, <2>3, <2>4, <2>10 DEF Locked, Blocked
  <2> QED
    BY Zenon, <2>5, <2>7, <2>8, <2>9, <2>11 DEF Handled
<1>6. CASE submitRequest(d) \/ openPrompt(d)
  <2>1. UNCHANGED <<now, asks, lock, cache, raced>>
    BY SMTT(60), <1>6 DEF submitRequest, openPrompt
  <2>2. PICK at, pc : Moves(h', d, pc, at) /\ pc \in {"dropped", "insert", "prompted"}
    BY SMTT(60), <1>1, <1>6, HandlerMoves
  <2>3. \A e \in Delivery : h'[e].c = h[e].c /\ (e # d => h'[e] = h[e])
    BY Zenon, <2>2 DEF Moves
  <2>4. Past(d) /\ Past(d)' /\ h[d].pc # "put" /\ h'[d].pc # "put"
    BY SMTT(60), <1>6, <2>2 DEF Moves, Past, submitRequest, openPrompt
  <2>5. \A e \in Delivery : Past(e)' = Past(e)
    BY SMTT(60), <2>3, <2>4 DEF Past
  <2>6. Timely' /\ Remembered' /\ Entered' /\ Exclusive'
    BY SMTT(60), <1>1, <2>1, <2>3, <2>4, <2>5
       DEF Timely, Remembered, Entered, Exclusive, Past
  <2>7. \A c \in Challenge : ServedOrOld(c) => ServedOrOld(c)'
    BY SMTT(60), <2>1, <2>3, <2>4 DEF ServedOrOld, Served, Past
  <2>8. Locked' /\ Blocked'
    BY Zenon, <1>1, <1>2, <2>1, <2>3, <2>4, <2>7 DEF Locked, Blocked, Past
  <2> QED
    BY Zenon, <2>6, <2>8 DEF Handled
<1> QED
  BY Zenon, <1>3, <1>4, <1>5, <1>6 DEF Handler

Replied == Prompted /\ Missed /\ Answered

\* Prompts that are resolved were pending, so that no answer is taken back.
LEMMA RepliedResolve ==
    ASSUME IInv, NEW D \in SUBSET pending, NEW what, what # None,
           Resolve(D, what), UNCHANGED <<h, marked, slipped, sent>>
    PROVE  Replied'
<1>1. TypeOK /\ Prompted /\ Missed /\ Answered
  BY Zenon DEF IInv
<1>2. \A d \in Delivery : /\ cb'[d] = IF d \in D THEN "run" ELSE cb[d]
                          /\ said'[d] = IF d \in D THEN what ELSE said[d]
                          /\ d \in pending' <=> d \in pending /\ d \notin D
  BY Zenon DEF Resolve
<1>3. Prompted'
  BY Zenon, <1>1, <1>2 DEF Prompted, None
<1>4. Missed'
  BY SMTT(60), <1>1, <1>2 DEF Missed
<1>5. Answered'
  BY SMTT(60), <1>1, <1>2 DEF Answered, Prompted, None
<1> QED
  BY Zenon, <1>3, <1>4, <1>5 DEF Replied

\* A callback that runs, and what leaves prompts and callbacks alone.
LEMMA RepliedCallback ==
    ASSUME IInv, UNCHANGED <<h, pending, said, slipped>>,
           \A c \in Challenge : marked'[c] \in {marked[c], -1},
           \A d \in Delivery : cb'[d] = cb[d] \/ (cb[d] # None /\ cb'[d] # None),
           \A p \in sent' \ sent : \E d \in Delivery :
              cb[d] # None /\ said[d] \in {"grant", "denial"}
                 /\ p = Answer(h[d].c, said[d])
    PROVE  Replied'
<1>1. TypeOK /\ Prompted /\ Missed /\ Answered
  BY SMTT(60) DEF IInv
<1>2. \A d \in Delivery : h[d].c \in Challenge
  BY SMTT(60), <1>1 DEF TypeOK, Handlers
<1>3. Prompted'
  BY SMTT(60), <1>1 DEF Prompted
<1>4. Missed'
  BY SMTT(60), <1>1, <1>2 DEF Missed
<1>5. ASSUME NEW p \in sent'
      PROVE  \E d \in Delivery :
                /\ h[d].pc = "prompted" /\ cb[d] # None
                /\ said[d] \in {"grant", "denial"}
                /\ p = Answer(h[d].c, said[d])
  <2>1. CASE p \in sent
    BY SMTT(60), <1>1, <2>1 DEF Answered
  <2>2. CASE p \notin sent
    <3>1. PICK d \in Delivery : cb[d] # None /\ said[d] \in {"grant", "denial"}
                                   /\ p = Answer(h[d].c, said[d])
      BY SMTT(60), <1>5, <2>2
    <3>2. h[d].pc = "prompted"
      BY Zenon, <1>1, <3>1 DEF Prompted
    <3> QED
      BY SMTT(60), <3>1, <3>2
  <2> QED
    BY SMTT(60), <2>1, <2>2
<1>6. Answered'
  BY ZenonT(60), <1>5 DEF Answered, Answer, createGrantWrapperMessage,
     createDenialWrapperMessage
<1> QED
  BY SMTT(60), <1>3, <1>4, <1>6 DEF Replied

\* The answers sent are not those of a handler that is still on its way.
LEMMA AnsweredKept ==
    ASSUME IInv, NEW d \in Delivery, h[d].pc # "prompted", UNCHANGED sent,
           \A e \in Delivery \ {d} :
              h'[e] = h[e] /\ cb'[e] = cb[e] /\ said'[e] = said[e]
    PROVE  Answered'
<1>1. ASSUME NEW p \in sent
      PROVE  \E e \in Delivery : /\ h'[e].pc = "prompted" /\ cb'[e] # None
                                 /\ said'[e] \in {"grant", "denial"}
                                 /\ p = Answer(h'[e].c, said'[e])
  <2>1. PICK e \in Delivery : /\ h[e].pc = "prompted" /\ cb[e] # None
                              /\ said[e] \in {"grant", "denial"}
                              /\ p = Answer(h[e].c, said[e])
    BY Zenon DEF IInv, Answered
  <2>2. h'[e] = h[e] /\ cb'[e] = cb[e] /\ said'[e] = said[e]
    BY Zenon, <2>1
  <2> QED
    BY SMTT(60), <2>1, <2>2
<1> QED
  BY SMTT(60), <1>1 DEF Answered, Answer, createGrantWrapperMessage,
     createDenialWrapperMessage

\* The steps of a handler.
LEMMA RepliedHandler ==
    ASSUME IInv, NEW d \in Delivery, Handler(d)
    PROVE  Replied'
<1>1. TypeOK /\ Prompted /\ Missed /\ Answered
  BY SMTT(60) DEF IInv
<1>2. h[d].c \in Challenge
  BY <1>1, HandlerMoves
<1>3. ASSUME tryClaimTransport(d) \/ checkReplay(d) \/ putChallenge(d)
      PROVE  Replied'
  <2>1. /\ h[d].pc \in {"idle", "check", "put"}
        /\ UNCHANGED <<pending, said, cb, marked, slipped, sent>>
    BY SMTT(60), <1>3 DEF tryClaimTransport, checkReplay, putChallenge, promptVars,
       cancelVars
  <2>2. PICK at, pc : /\ Moves(h', d, pc, at)
                      /\ pc \in {"check", "blocked", "rejected", "put", "submit"}
    BY SMTT(60), <1>1, <1>3, HandlerMoves
  <2>3. \A e \in Delivery : h'[e].c = h[e].c /\ (e # d => h'[e] = h[e])
    BY <2>2 DEF Moves
  <2>4. h'[d].pc \in {"check", "blocked", "rejected", "put", "submit"}
    BY SMTT(60), <2>2 DEF Moves
  <2>5. Prompted' /\ Missed'
    BY SMTT(60), <1>1, <2>1, <2>3, <2>4 DEF Prompted, Missed
  <2>6. Answered'
    BY Zenon, <2>1, <2>3, AnsweredKept
  <2> QED
    BY <2>5, <2>6 DEF Replied
<1>4. ASSUME submitRequest(d) PROVE Replied'
  <2>1. /\ h[d].pc = "submit"
        /\ UNCHANGED <<pending, marked, slipped, sent>>
        /\ \A e \in Delivery \ {d} : cb'[e] = cb[e] /\ said'[e] = said[e]
    BY <1>1, <1>4 DEF submitRequest, cancelVars, TypeOK
  <2>2. \/ /\ Moves(h', d, "dropped", h[d].at)
           /\ cb'[d] = "run" /\ said'[d] = "quiet"
        \/ /\ Moves(h', d, "insert", h[d].at)
           /\ cb' = cb /\ marked[h[d].c] = -1
    <3>1. CASE /\ Moves(h', d, "insert", h[d].at)
               /\ ~isChallengeCancelled(h[d].c)
      BY SMTT(60), <1>4, <3>1, GenuineIsVerified DEF submitRequest, isChallengeCancelled
    <3>2. CASE Moves(h', d, "dropped", h[d].at)
      <4>1. h'[d].pc = "dropped" /\ h[d] \in Handlers
        BY SMTT(60), <1>1, <3>2 DEF Moves, TypeOK
      <4>2. isChallengeCancelled(h[d].c)
        BY SMTT(60), <1>1, <1>4, <4>1, GotoMoves, GenuineIsVerified
           DEF submitRequest, Goto, Moves
      <4> QED
        BY SMTT(60), <1>1, <1>4, <3>2, <4>2, GenuineIsVerified DEF submitRequest, TypeOK
    <3> QED
      BY ZenonT(60), <1>1, <1>4, <3>1, <3>2, HandlerMoves
  <2>3. \A e \in Delivery : h'[e].c = h[e].c /\ (e # d => h'[e] = h[e])
    BY SMTT(60), <2>2 DEF Moves
  <2>4. Prompted'
    BY SMTT(60), <1>1, <2>1, <2>2, <2>3 DEF Prompted, Moves, None
  <2>5. Missed'
    BY SMTT(60), <1>1, <2>1, <2>2, <2>3 DEF Missed, Prompted, Moves
  <2>6. Answered'
    BY Zenon, <2>1, <2>3, AnsweredKept
  <2> QED
    BY SMTT(60), <2>4, <2>5, <2>6 DEF Replied
<1>5. ASSUME openPrompt(d) PROVE Replied'
  <2>1. /\ h[d].pc = "insert"
        /\ pending' = pending \cup {d}
        /\ UNCHANGED <<said, cb, marked, slipped, sent>>
    BY Zenon, <1>5 DEF openPrompt, cancelVars
  <2>2. PICK at : Moves(h', d, "prompted", at)
    BY ZenonT(60), <1>1, <1>5, HandlerMoves
  <2>3. \A e \in Delivery : h'[e].c = h[e].c /\ (e # d => h'[e] = h[e])
    BY Zenon, <2>2 DEF Moves
  <2>4. h'[d].pc = "prompted"
    BY SMTT(60), <2>2 DEF Moves
  <2>5. Prompted' /\ Missed'
    BY SMTT(60), <1>1, <2>1, <2>3, <2>4 DEF Prompted, Missed
  <2>6. Answered'
    BY SMTT(60), <2>1, <2>3, AnsweredKept
  <2> QED
    BY Zenon, <2>5, <2>6 DEF Replied
<1> QED
  BY Zenon, <1>3, <1>4, <1>5 DEF Handler

\* The invariant is inductive.
LEMMA NextIInv == IInv /\ [Next]_vars => IInv'
<1> SUFFICES ASSUME IInv, [Next]_vars PROVE IInv'
  BY Zenon
<1>1. TypeOK /\ TypeOK'
  BY Zenon, NextTypeOK DEF IInv
<1> SUFFICES Handled' /\ Replied'
  BY SMTT(60), <1>1 DEF IInv, Replied
<1> USE DEF handlerVars, promptVars, resendVars, cancelVars
<1>2. \A d \in Delivery : h[d].c \in Challenge
  BY SMTT(60), <1>1 DEF TypeOK, Handlers
<1>3. CASE Tick
  <2>1. \A c \in Challenge : marked'[c] \in {marked[c], -1}
    BY Zenon, <1>3 DEF Tick, pruneCancelledChallenges
  <2>2. now' = now + 1 /\ UNCHANGED <<asks, handlerVars, promptVars, cb, slipped, sent>>
    BY SMTT(60), <1>3 DEF Tick
  <2> QED
    BY Zenon, <2>1, <2>2, HandledClock, RepliedCallback
<1>4. CASE OtherRequest
  BY Zenon, <1>4, HandledClock, RepliedCallback DEF OtherRequest
<1>5. ASSUME NEW d \in Delivery, Handler(d) PROVE Handled' /\ Replied'
  BY SMTT(60), <1>5, HandledHandler, RepliedHandler
<1>6. ASSUME NEW D \in SUBSET pending, NEW what \in {"grant", "denial", "quiet"},
             Resolve(D, what),
             UNCHANGED <<now, asks, handlerVars, marked, slipped, sent>>
      PROVE  Handled' /\ Replied'
  BY Zenon, <1>6, HandledUnlocks, RepliedResolve DEF None
<1>7. ASSUME NEW d \in Delivery, Prompt(d) PROVE Handled' /\ Replied'
  <2>1. CASE TimeoutFires(d)
    BY Zenon, <1>6, <2>1 DEF TimeoutFires
  <2>2. ASSUME NEW what \in {"grant", "denial", "quiet"}, handleResponse(d, what)
        PROVE  Handled' /\ Replied'
    BY SMTT(60), <1>6, <2>2 DEF handleResponse
  <2> QED
    BY SMTT(60), <1>7, <2>1, <2>2 DEF Prompt
<1>8. CASE cancelRequestsByBleDisconnection
  BY Zenon, <1>6, <1>8 DEF cancelRequestsByBleDisconnection, BlePrompts
<1>9. ASSUME NEW d \in Delivery, Callback(d) PROVE Handled' /\ Replied'
  <2>1. \A c \in Challenge : lock'[c] \in {lock[c], None}
    <3>1. lock' = lock \/ releaseLock(h[d].c)
      BY ZenonT(60), <1>9 DEF Callback, SendResponse, ResponseFails, EndQuietly,
         RegisterRetransmission, handlerVars
    <3> QED
      BY SMTT(60), <1>1, <3>1 DEF releaseLock, TypeOK
  <2>2. UNCHANGED <<now, asks, h, cache, raced, promptVars, marked, slipped>>
    BY SMTT(60), <1>9 DEF Callback, SendResponse, ResponseFails, EndQuietly,
       RegisterRetransmission
  <2>3. \A e \in Delivery : cb'[e] = cb[e] \/ (cb[e] # None /\ cb'[e] # None)
    BY <1>1, <1>9 DEF Callback, SendResponse, ResponseFails, EndQuietly,
       RegisterRetransmission, TypeOK, None
  <2>4. \A p \in sent' \ sent :
           /\ cb[d] # None /\ said[d] \in {"grant", "denial"}
           /\ p = Answer(h[d].c, said[d])
    <3>1. CASE SendResponse(d)
      BY Zenon, <3>1 DEF SendResponse, Response, Answer, createEncryptedPacket, None
    <3>2. CASE UNCHANGED sent
      BY SMTT(60), <3>2
    <3> QED
      BY Zenon, <1>9, <3>1, <3>2 DEF Callback, ResponseFails, EndQuietly,
         RegisterRetransmission
  <2>5. Handled'
    BY SMTT(60), <2>1, <2>2, HandledUnlocks
  <2>6. Replied'
    BY SMTT(60), <2>2, <2>3, <2>4, RepliedCallback
  <2> QED
    BY SMTT(60), <2>5, <2>6
<1>10. CASE UNCHANGED <<now, asks, handlerVars, promptVars, cb, marked, slipped, sent>>
  BY SMTT(60), <1>10, HandledUnlocks, RepliedCallback
<1>11. ASSUME NEW d \in Delivery, RetransmissionEnds(d) PROVE Handled' /\ Replied'
  BY SMTT(60), <1>10, <1>11 DEF RetransmissionEnds
<1>12. ASSUME NEW c \in Challenge,
              handleGrantConfirmation(c) \/ handleAuthCancel(c)
       PROVE  Handled' /\ Replied'
  BY SMTT(60), <1>10, <1>12 DEF handleGrantConfirmation, handleAuthCancel
<1>13. ASSUME NEW c \in Challenge, CancelSweeps(c) PROVE Handled' /\ Replied'
  <2> DEFINE D == {d \in pending : h[d].c = c}
  <2>1. D \in SUBSET pending /\ Resolve(D, "quiet")
    BY <1>13 DEF CancelSweeps
  <2> QED
    BY SMTT(60), <1>6, <1>13, <2>1 DEF CancelSweeps
<1>14. ASSUME NEW c \in Challenge, markCancelledChallenge(c)
       PROVE  Handled' /\ Replied'
  <2>1. /\ UNCHANGED <<now, asks, handlerVars, promptVars, cb, sent>>
        /\ \A k \in Challenge \ {c} : marked'[k] = marked[k]
        /\ slipped' = slipped \cup {d \in Delivery :
                         h[d].c = c /\ (h[d].pc = "insert" \/ d \in pending)}
    BY SMTT(60), <1>1, <1>14 DEF markCancelledChallenge, TypeOK
  <2>2. Handled'
    BY ZenonT(60), <2>1, HandledUnlocks
  <2>3. Prompted' /\ Missed'
    <3>1. Prompted'
      BY ZenonT(60), <2>1 DEF handlerVars, promptVars, IInv, Prompted
    <3>2. ASSUME NEW e \in Delivery, h[e].pc = "insert" \/ e \in pending,
                 marked'[h[e].c] # -1
          PROVE  e \in slipped'
      <4>1. CASE h[e].c = c
        BY ZenonT(60), <2>1, <3>2, <4>1
      <4>2. CASE h[e].c # c
        <5>1. h[e].c \in Challenge
          BY SMTT(60), <1>2, <3>2
        <5>2. marked'[h[e].c] = marked[h[e].c]
          BY SMTT(60), <2>1, <4>2, <5>1
        <5>3. e \in slipped
          BY Zenon, <3>2, <5>2 DEF IInv, Missed
        <5> QED
          BY ZenonT(60), <2>1, <5>3
      <4> QED
        BY ZenonT(60), <4>1, <4>2
    <3>3. Missed'
      BY ZenonT(60), <2>1, <3>2 DEF handlerVars, promptVars, Missed
    <3> QED
      BY ZenonT(60), <3>1, <3>3
  <2>4. Answered'
    BY ZenonT(60), <2>1 DEF IInv, Answered, Answer, createGrantWrapperMessage,
       createDenialWrapperMessage
  <2> QED
    BY SMTT(60), <2>2, <2>3, <2>4 DEF Replied
<1>15. CASE UNCHANGED vars
  BY Zenon, <1>10, <1>15 DEF vars
<1> QED
  BY Zenon, <1>3, <1>4, <1>5, <1>7, <1>8, <1>9, <1>11, <1>12, <1>13, <1>14, <1>15
     DEF Next

----------------------------------------------------------------------------
(* The theorems.                                                           *)

\* Everything below follows from the inductive invariant.
LEMMA AlwaysIInv == Spec => []IInv
BY InitIInv, NextIInv, PTL DEF Spec

\* A request is put before the user once, whatever the clocks, the number of
\* deliveries and the times at which the caches are cleaned.
THEOREM PromptsOnce == Spec => []OnePrompt
<1>1. IInv => OnePrompt
  BY DEF IInv, Handled, Exclusive, Past, OnePrompt
<1> QED
  BY <1>1, AlwaysIInv, PTL

\* The daemon accepts as a grant only what the user approved.
THEOREM GrantsAreApproved == Spec => []GrantMeansApproved
<1>1. ASSUME IInv PROVE GrantMeansApproved
  <2> SUFFICES ASSUME NEW p \in sent, NEW c \in Challenge,
                      accepts_grant(Csk, PhoneKey, p, c)
               PROVE  \E d \in Delivery : /\ h[d].c = c /\ h[d].pc = "prompted"
                                          /\ said[d] = "grant"
                                          /\ asks[c].user \in Allowed
    BY SMTT(60) DEF GrantMeansApproved
  <2>1. PICK d \in Delivery : /\ h[d].pc = "prompted"
                              /\ said[d] \in {"grant", "denial"}
                              /\ p = Answer(h[d].c, said[d])
    BY SMTT(60), <1>1 DEF IInv, Answered
  <2>2. said[d] = "grant" /\ h[d].c = c
    BY SMTT(60), <2>1, AnswersAreDistinct
  <2> QED
    BY SMTT(60), <1>1, <2>1, <2>2 DEF IInv, Handled, Timely
<1> QED
  BY <1>1, AlwaysIInv, PTL

\* No challenge is both granted and denied.
THEOREM AnswersOnce == Spec => []OneAnswer
<1>1. ASSUME IInv PROVE OneAnswer
  <2> SUFFICES ASSUME NEW p \in sent, NEW q \in sent, NEW c \in Challenge,
                      accepts_grant(Csk, PhoneKey, p, c),
                      accepts_denial(Csk, PhoneKey, q, c)
               PROVE  c \in raced
    BY SMTT(60) DEF OneAnswer
  <2>1. PICK d \in Delivery : /\ h[d].pc = "prompted"
                              /\ said[d] \in {"grant", "denial"}
                              /\ p = Answer(h[d].c, said[d])
    BY SMTT(60), <1>1 DEF IInv, Answered
  <2>2. PICK e \in Delivery : /\ h[e].pc = "prompted"
                              /\ said[e] \in {"grant", "denial"}
                              /\ q = Answer(h[e].c, said[e])
    BY SMTT(60), <1>1 DEF IInv, Answered
  <2>3. said[d] = "grant" /\ h[d].c = c
    BY SMTT(60), <2>1, AnswersAreDistinct
  <2>4. said[e] = "denial" /\ h[e].c = c
    BY SMTT(60), <2>2, AnswersAreDistinct
  <2> QED
    BY Zenon, <1>1, <2>1, <2>2, <2>3, <2>4 DEF IInv, Handled, Exclusive, Past
<1> QED
  BY <1>1, AlwaysIInv, PTL

\* The transport lock strands no request that is still valid: TIME_WINDOW is
\* at most TIMESTAMP_VALIDITY, and an entry of isReplay means that its request
\* was let through.
THEOREM LockStrandsNone == Spec => []BlockedIsServed
<1>1. ASSUME IInv PROVE BlockedIsServed
  <2>1. /\ now \in Nat /\ TIMESTAMP_VALIDITY \in Nat
        /\ \A d \in Delivery : asks[h[d].c].stamp \in Nat
    BY ZenonT(60), <1>1, PhoneAssumption DEF IInv, TypeOK, Handlers
  <2> QED
    BY <1>1, <2>1 DEF IInv, Handled, Blocked, ServedOrOld, BlockedIsServed
<1> QED
  BY <1>1, AlwaysIInv, PTL

\* A cancel that is remembered holds.
THEOREM CancelsHold == Spec => []CancelHolds
<1>1. ASSUME IInv PROVE CancelHolds
  BY Zenon, <1>1 DEF IInv, TypeOK, Missed, CancelHolds
<1> QED
  BY <1>1, AlwaysIInv, PTL

-----------------------------------------------------------------------------
(* Types, the end of a prompt, and the messages in general.                *)

\* Every variable keeps its type.
THEOREM TypeCorrect == Spec => []TypeOK
<1>1. IInv => TypeOK
  BY Zenon DEF IInv
<1> QED
  BY <1>1, AlwaysIInv, PTL

\* The clean-up of a UDP prompt is due when the session of its request is
\* over, unless it was over when the prompt opened; a BLE prompt has none.
CleanUpDue ==
    \A d \in pending :
       LET over == asks[h[d].c].stamp + SessionTimeout
       IN  IF h[d].tr = "BLE" THEN h[d].at = -1
           ELSE h[d].at = over \/ (h[d].at = -1 /\ now >= over)

\* What a callback was launched with is what it ends with, and what is
\* settled is not taken up again.
FinalStep ==
    \A d \in Delivery :
       /\ cb[d] # None => cb'[d] # None /\ said'[d] = said[d]
       /\ Settled(d) => Settled(d)'

\* A step opens one prompt or none, never moves a handler that has prompted,
\* and time does not run back.
LEMMA PromptSteps ==
    ASSUME IInv, [Next]_vars
    PROVE  /\ asks' = asks /\ now' >= now
           /\ \A d \in Delivery :
                 /\ h[d].pc \in {"prompted", "dropped", "blocked", "rejected"} => h'[d] = h[d]
                 /\ d \in pending' => d \in pending \/ openPrompt(d)
<1> USE DEF handlerVars, promptVars, resendVars, cancelVars
<1>0. TypeOK /\ now \in Nat
  BY Zenon DEF IInv, TypeOK
<1> DEFINE Kept == asks' = asks /\ now' >= now /\ h' = h /\ pending' \subseteq pending
           Goal == /\ asks' = asks /\ now' >= now
                   /\ \A d \in Delivery :
                         /\ h[d].pc \in {"prompted", "dropped", "blocked", "rejected"}
                               => h'[d] = h[d]
                         /\ d \in pending' => d \in pending \/ openPrompt(d)
<1>k. Kept => Goal
  BY Zenon
<1>1. ASSUME Tick PROVE Goal
  BY <1>0, <1>k, <1>1 DEF Tick
<1>2. ASSUME OtherRequest PROVE Goal
  BY <1>0, <1>k, <1>2 DEF OtherRequest
<1>3. ASSUME NEW d \in Delivery, Handler(d) PROVE Goal
  <2>1. /\ asks' = asks /\ now' = now
        /\ pending' = pending \/ (openPrompt(d) /\ pending' = pending \cup {d})
    BY Zenon, <1>3 DEF Handler, tryClaimTransport, checkReplay, putChallenge, submitRequest, openPrompt
  <2>2. h[d].pc \in {"idle", "check", "put", "submit", "insert"}
    BY Zenon, <1>3 DEF Handler, tryClaimTransport, checkReplay, putChallenge, submitRequest, openPrompt
  <2>3. \A e \in Delivery \ {d} : h'[e] = h[e]
    BY <1>0, <1>3, HandlerMoves, ZenonT(30) DEF Handler, Moves
  <2> QED
    BY <1>0, <2>1, <2>2, <2>3
<1>4. ASSUME NEW d \in Delivery, Prompt(d) PROVE Goal
  BY <1>0, <1>k, <1>4 DEF Prompt, handleResponse, TimeoutFires, Resolve
<1>5. ASSUME NEW d \in Delivery, Callback(d) PROVE Goal
  BY <1>0, <1>k, <1>5 DEF Callback, SendResponse, ResponseFails, EndQuietly,
     RegisterRetransmission
<1>6. ASSUME NEW d \in Delivery, RetransmissionEnds(d) PROVE Goal
  BY <1>0, <1>k, <1>6 DEF RetransmissionEnds
<1>7. ASSUME cancelRequestsByBleDisconnection PROVE Goal
  BY <1>0, <1>k, <1>7 DEF cancelRequestsByBleDisconnection, Resolve
<1>8. ASSUME NEW c \in Challenge, handleGrantConfirmation(c) PROVE Goal
  BY <1>0, <1>k, <1>8 DEF handleGrantConfirmation
<1>9. ASSUME NEW c \in Challenge, handleAuthCancel(c) PROVE Goal
  BY <1>0, <1>k, <1>9 DEF handleAuthCancel
<1>10. ASSUME NEW c \in Challenge, CancelSweeps(c) PROVE Goal
  BY <1>0, <1>k, <1>10 DEF CancelSweeps, Resolve
<1>11. ASSUME NEW c \in Challenge, markCancelledChallenge(c) PROVE Goal
  BY <1>0, <1>k, <1>11 DEF markCancelledChallenge
<1>12. ASSUME UNCHANGED vars PROVE Goal
  <2>1. asks' = asks /\ now' = now /\ h' = h /\ pending' = pending
    BY Zenon, <1>12 DEF vars
  <2> QED
    BY <1>0, <1>k, <2>1
<1> HIDE DEF Goal
<1>13. Goal
  BY Zenon, <1>1, <1>2, <1>3, <1>4, <1>5, <1>6, <1>7, <1>8, <1>9, <1>10, <1>11, <1>12 DEF Next
<1> QED
  BY Zenon, <1>13 DEF Goal

LEMMA CleanUpNext == IInv /\ CleanUpDue /\ [Next]_vars => CleanUpDue'
<1> SUFFICES ASSUME IInv, CleanUpDue, [Next]_vars, NEW d \in pending'
             PROVE  LET over == asks[h[d].c].stamp + SessionTimeout
                    IN  (IF h[d].tr = "BLE" THEN h[d].at = -1
                         ELSE h[d].at = over \/ (h[d].at = -1 /\ now >= over))'
  BY ZenonT(30) DEF CleanUpDue
<1>1. IInv' /\ d \in Delivery
  BY Zenon, NextIInv DEF IInv, TypeOK
<1>2. /\ asks' = asks /\ now' >= now
      /\ d \in pending \/ openPrompt(d)
      /\ h[d].pc = "prompted" => h'[d] = h[d]
  BY Zenon, <1>1, PromptSteps
<1>3. now \in Nat /\ now' \in Nat /\ asks[h[d].c].stamp \in Nat /\ SessionTimeout \in Nat
  BY <1>1, PhoneAssumption, ZenonT(30) DEF IInv, TypeOK, Handlers
<1>4. CASE d \in pending
  <2>1. h[d].pc = "prompted"
    BY Zenon, <1>1, <1>4 DEF IInv, Prompted
  <2>2. h'[d] = h[d]
    BY Zenon, <1>2, <2>1
  <2>3. IF h[d].tr = "BLE" THEN h[d].at = -1
        ELSE \/ h[d].at = asks[h[d].c].stamp + SessionTimeout
             \/ h[d].at = -1 /\ now >= asks[h[d].c].stamp + SessionTimeout
    BY Zenon, <1>4 DEF CleanUpDue
  <2> QED
    BY <1>2, <1>3, <2>2, <2>3
<1>5. CASE openPrompt(d)
  <2> DEFINE at == IF remainingTimeout(d) > 0 THEN now + remainingTimeout(d) ELSE -1
  <2>1. at \in Int
    BY <1>3 DEF remainingTimeout
  <2>2. h' = [h EXCEPT ![d].pc = "prompted", ![d].at = at] /\ now' = now
    BY Zenon, <1>5 DEF openPrompt
  <2>3. IF h[d].tr = "BLE" THEN at = -1
        ELSE \/ at = asks[h[d].c].stamp + SessionTimeout
             \/ at = -1 /\ now >= asks[h[d].c].stamp + SessionTimeout
    BY <1>3 DEF remainingTimeout
  <2> HIDE DEF at
  <2>4. Moves(h', d, "prompted", at)
    BY Zenon, <1>1, <2>1, <2>2, GotoAtMoves DEF IInv
  <2>5. h'[d].at = at /\ h'[d].c = h[d].c /\ h'[d].tr = h[d].tr
    BY Zenon, <2>4 DEF Moves
  <2> QED
    BY Zenon, <1>2, <2>2, <2>3, <2>5
<1> QED
  BY Zenon, <1>2, <1>4, <1>5

\* No prompt that opens while its session runs outlives it unanswered: its
\* clean-up is due exactly when the client's session is over, however late
\* the packet was taken up; only a BLE prompt never has one (submitRequest,
\* whose caller in BleGattService passes seconds for milliseconds).
THEOREM PromptsEndWithSession == Spec => []CleanUpDue
<1>1. Init => CleanUpDue
  <2>1. Init => pending = {}
    BY DEF Init
  <2> QED
    BY Zenon, <2>1 DEF CleanUpDue
<1> QED
  BY <1>1, CleanUpNext, AlwaysIInv, PTL DEF Spec

\* The callback of a delivery moves on, and its answer stays.
LEMMA FinalNext == IInv /\ [Next]_vars => FinalStep
<1> SUFFICES ASSUME IInv, [Next]_vars, NEW d \in Delivery
             PROVE  /\ cb[d] # None => cb'[d] # None /\ said'[d] = said[d]
                    /\ Settled(d) => Settled(d)'
  BY Zenon DEF FinalStep
<1> USE DEF handlerVars, promptVars, resendVars, cancelVars
<1>0. /\ TypeOK
      /\ said \in [Delivery -> {None, "grant", "denial", "quiet"}]
      /\ cb \in [Delivery -> {None, "run", "register", "done"}]
      /\ job \in [Delivery -> {None, "running", "cancelled"}]
  BY Zenon DEF IInv, TypeOK
<1>1. /\ d \in pending => h[d].pc = "prompted" /\ cb[d] = None
      /\ cb[d] # None => h[d].pc \in {"prompted", "dropped"}
  BY Zenon DEF IInv, Prompted
<1>2. /\ h[d].pc \in {"prompted", "dropped", "blocked", "rejected"} => h'[d] = h[d]
      /\ d \in pending' => d \in pending \/ openPrompt(d)
  BY Zenon, PromptSteps
<1>3. openPrompt(d) => h[d].pc = "insert"
  BY Zenon DEF openPrompt
<1> DEFINE Still == UNCHANGED <<cb, said>> /\ (job[d] = None => job'[d] = None)
           Goal == /\ cb[d] # None => cb'[d] # None /\ said'[d] = said[d]
                   /\ Settled(d) => Settled(d)'
           Own == /\ cb[d] # None => cb'[d] # None /\ said'[d] = said[d]
                  /\ Settled(d) => cb'[d] \in {None, "done"} /\ job'[d] = None
<1>g. Own => Goal
  BY Zenon, <1>2, <1>3 DEF Settled
<1>s. Still => Own
  BY Zenon DEF Settled
<1>c. \A D : Cancelled(D)[d] = None <=> job[d] = None
  BY Zenon, <1>0 DEF Cancelled, None
<1>4. ASSUME Tick \/ OtherRequest PROVE Own
  BY Zenon, <1>4, <1>s DEF Tick, OtherRequest
<1>5. ASSUME NEW e \in Delivery, Handler(e) PROVE Own
  <2>1. CASE submitRequest(e)
    <3>1. job' = job /\ h[e].pc = "submit"
      BY Zenon, <2>1 DEF submitRequest
    <3>2. d = e => cb[d] = None /\ ~Settled(d)
      BY Zenon, <1>1, <3>1 DEF Settled
    <3>3. d # e => cb'[d] = cb[d] /\ said'[d] = said[d]
      BY Zenon, <1>0, <2>1 DEF submitRequest
    <3> QED
      BY Zenon, <3>1, <3>2, <3>3 DEF Settled
  <2>2. CASE ~submitRequest(e)
    BY Zenon, <1>5, <1>s, <2>2 DEF Handler, tryClaimTransport, checkReplay, putChallenge, openPrompt
  <2> QED
    BY Zenon, <2>1, <2>2
<1>6. ASSUME NEW D \in SUBSET pending, NEW what, Resolve(D, what), job' = job
      PROVE  Own
  <2>1. d \in D => cb[d] = None /\ ~Settled(d)
    BY Zenon, <1>1, <1>6 DEF Settled
  <2>2. d \notin D => cb'[d] = cb[d] /\ said'[d] = said[d]
    BY Zenon, <1>6 DEF Resolve
  <2> QED
    BY Zenon, <1>6, <2>1, <2>2 DEF Settled
<1>7. ASSUME NEW e \in Delivery, Prompt(e) PROVE Own
  <2>1. {e} \in SUBSET pending /\ job' = job /\ \E what : Resolve({e}, what)
    BY Zenon, <1>7 DEF Prompt, handleResponse, TimeoutFires
  <2> QED
    BY Zenon, <1>6, <2>1
<1>8. ASSUME NEW e \in Delivery, SendResponse(e) PROVE Own
  <2>1. said' = said /\ cb[e] = "run"
    BY Zenon, <1>8 DEF SendResponse
  <2>2. d # e => cb'[d] = cb[d] /\ (job[d] = None => job'[d] = None)
    BY Zenon, <1>0, <1>8, <1>c DEF SendResponse, Cancelled
  <2>3. d = e => cb'[d] \in {"register", "done"}
    BY Zenon, <1>0, <1>8 DEF SendResponse
  <2> QED
    BY Zenon, <2>1, <2>2, <2>3 DEF Settled, None
<1>9. ASSUME NEW e \in Delivery, ResponseFails(e) \/ EndQuietly(e) \/ RegisterRetransmission(e)
      PROVE  Own
  <2>1. UNCHANGED <<said, job>> /\ cb' = [cb EXCEPT ![e] = "done"]
    BY Zenon, <1>9 DEF ResponseFails, EndQuietly, RegisterRetransmission
  <2> QED
    BY Zenon, <1>0, <2>1 DEF Settled, None
<1>10. ASSUME NEW e \in Delivery, RetransmissionEnds(e) PROVE Own
  <2>1. UNCHANGED <<cb, said>> /\ job' = [job EXCEPT ![e] = None]
    BY Zenon, <1>10 DEF RetransmissionEnds
  <2> QED
    BY Zenon, <1>0, <1>s, <2>1
<1>11. ASSUME cancelRequestsByBleDisconnection PROVE Own
  <2>1. BlePrompts \in SUBSET pending /\ job' = job /\ Resolve(BlePrompts, "quiet")
    BY Zenon, <1>11 DEF cancelRequestsByBleDisconnection, BlePrompts
  <2> QED
    BY Zenon, <1>6, <2>1
<1>12. ASSUME NEW c \in Challenge, handleGrantConfirmation(c) PROVE Own
  <2>1. UNCHANGED <<cb, said>> /\ \E D : job' = Cancelled(D)
    BY Zenon, <1>12 DEF handleGrantConfirmation, stopRetransmission
  <2> QED
    BY Zenon, <1>c, <1>s, <2>1
<1>13. ASSUME NEW c \in Challenge, handleAuthCancel(c) PROVE Own
  <2>1. UNCHANGED <<cb, said>> /\ \E D : job' = Cancelled(D)
    BY Zenon, <1>13 DEF handleAuthCancel, stopRetransmission
  <2> QED
    BY Zenon, <1>c, <1>s, <2>1
<1>14. ASSUME NEW c \in Challenge, CancelSweeps(c) PROVE Own
  <2>1. {e \in pending : h[e].c = c} \in SUBSET pending /\ job' = job
        /\ Resolve({e \in pending : h[e].c = c}, "quiet")
    BY Zenon, <1>14 DEF CancelSweeps
  <2> QED
    BY Zenon, <1>6, <2>1
<1>15. ASSUME NEW c \in Challenge, markCancelledChallenge(c) PROVE Own
  BY Zenon, <1>15, <1>s DEF markCancelledChallenge
<1>16. ASSUME UNCHANGED vars PROVE Own
  BY Zenon, <1>16, <1>s DEF vars
<1> HIDE DEF Own, Goal, Still
<1>17. Own
  BY Zenon, <1>4, <1>5, <1>7, <1>8, <1>9, <1>10, <1>11, <1>12, <1>13, <1>14, <1>15, <1>16
     DEF Next, Callback
<1>18. Goal
  BY Zenon, <1>17, <1>g
<1> QED
  BY Zenon, <1>18 DEF Goal

\* Whatever races for a prompt (the user, its clean-up, a cancel, a link that
\* goes down), the first to remove it from pendingRequests decides for good:
\* what its callback was launched with never changes, and a delivery that is
\* settled never prompts, answers or retransmits again.
THEOREM AnswersAreFinal == Spec => [][FinalStep]_vars
BY FinalNext, AlwaysIInv, PTL DEF Spec

\* A signature verifies under the key and for the message it was made with.
LEMMA SignatureVerifies ==
    ASSUME NEW k, NEW k2, NEW x, NEW x2
    PROVE  verify_ed25519(k2, x2, sign_ed25519(k, x)) <=> k2 = k /\ x2 = x
<1> DEFINE r == [by |-> k, over |-> x]
           r2 == [by |-> k2, over |-> x2]
<1>1. r = r2 <=> k2 = k /\ x2 = x
  BY Zenon
<1> HIDE DEF r, r2
<1>2. {r} = {r2} <=> r = r2
  BY Zenon
<1>3. verify_ed25519(k2, x2, sign_ed25519(k, x)) <=> {r} = {r2}
  BY Zenon DEF r, r2, verify_ed25519, sign_ed25519
<1> QED
  BY Zenon, <1>1, <1>2, <1>3

\* A signed wrapper keeps its payload and verifies under its signer's key only.
LEMMA SignedWrapper ==
    ASSUME NEW p, NEW key, NEW key2
    PROVE  /\ sign_wrapper(wrap(p), key).payload = p
           /\ verify_wrapper(sign_wrapper(wrap(p), key), key2) <=> key2 = key
<1> DEFINE u == wrap(p)
           s == sign_ed25519(key, u)
           w == sign_wrapper(u, key)
<1>1. \A y, x : [[version |-> 1, signature |-> y, payload |-> p] EXCEPT !.signature = x]
                  = [version |-> 1, signature |-> x, payload |-> p]
  OBVIOUS
<1>2. u = [version |-> 1, signature |-> {}, payload |-> p] /\ [u EXCEPT !.signature = {}] = u
  BY <1>1, Zenon DEF wrap
<1>3. verify_ed25519(key2, u, s) <=> key2 = key
  BY Zenon, SignatureVerifies
<1> HIDE DEF s
<1>4. w = [version |-> 1, signature |-> s, payload |-> p]
  <2>1. w = [u EXCEPT !.signature = s]
    BY Zenon, <1>2 DEF sign_wrapper, s
  <2> QED
    BY <1>1, <1>2, <2>1, Zenon
<1> HIDE DEF u, w
<1>5. w.payload = p /\ w.signature = s
  BY Zenon, <1>4
<1>6. [w EXCEPT !.signature = {}] = u
  BY <1>1, <1>2, <1>4, Zenon
<1>7. verify_wrapper(w, key2) <=> verify_ed25519(key2, u, s)
  BY Zenon, <1>5, <1>6 DEF verify_wrapper
<1> QED
  BY Zenon, <1>3, <1>5, <1>7 DEF w, u

\* Every answer the phone makes, under any keys and at any time, is accepted
\* by a client with the same CSK that knows the phone's key and waits for this
\* challenge, and by no other; and a grant is never taken for a denial
\* (createGrantWrapperMessage against verify_auth_grant).
THEOREM AnswersRoundTrip ==
    ASSUME NEW csk, NEW csk2, NEW key, NEW key2, NEW c, NEW c2, NEW t
    PROVE  LET grant == createEncryptedPacket(csk,
                            createGrantWrapperMessage(signData(key, c), key), t).ciphertext
               denial == createEncryptedPacket(csk,
                            createDenialWrapperMessage(c, key), t).ciphertext
               Same == csk2 = csk /\ key2 = key /\ c2 = c
           IN  /\ accepts_grant(csk2, key2, grant, c2) <=> Same
               /\ accepts_denial(csk2, key2, denial, c2) <=> Same
               /\ ~accepts_grant(csk2, key2, denial, c2)
               /\ ~accepts_denial(csk2, key2, grant, c2)
<1> DEFINE g == createGrantWrapperMessage(signData(key, c), key)
           n == createDenialWrapperMessage(c, key)
           pg == createEncryptedPacket(csk, g, t).ciphertext
           pn == createEncryptedPacket(csk, n, t).ciphertext
<1>1. /\ g.payload = [type |-> "AUTH_GRANT", signed_challenge |-> signData(key, c)]
      /\ verify_wrapper(g, key2) <=> key2 = key
  BY SignedWrapper DEF createGrantWrapperMessage
<1>2. /\ n.payload = [type |-> "AUTH_DENIAL", challenge |-> c]
      /\ verify_wrapper(n, key2) <=> key2 = key
  BY SignedWrapper DEF createDenialWrapperMessage
<1>3. verify_ed25519(key2, c2, signData(key, c)) <=> key2 = key /\ c2 = c
  BY Zenon, SignatureVerifies DEF signData
<1> HIDE DEF g, n
<1>4. pg.key = csk /\ pg.plain = g /\ pn.key = csk /\ pn.plain = n
  BY Zenon DEF createEncryptedPacket, encrypt_with_csk
<1> HIDE DEF pg, pn
<1>5. verify_auth_grant(g, c2, key2) <=> key2 = key /\ c2 = c
  BY <1>1, <1>3 DEF verify_auth_grant
<1>6. ~verify_auth_grant(n, c2, key2)
  BY <1>2 DEF verify_auth_grant
<1>7. /\ accepts_grant(csk2, key2, pg, c2) <=> csk2 = csk /\ key2 = key /\ c2 = c
      /\ ~accepts_grant(csk2, key2, pn, c2)
  BY Zenon, <1>4, <1>5, <1>6 DEF accepts_grant, decrypts
<1>8. /\ accepts_denial(csk2, key2, pn, c2) <=> csk2 = csk /\ key2 = key /\ c2 = c
      /\ ~accepts_denial(csk2, key2, pg, c2)
  BY <1>1, <1>2, <1>4 DEF accepts_denial, decrypts
<1> QED
  BY Zenon, <1>7, <1>8 DEF pg, pn, g, n

=============================================================================
