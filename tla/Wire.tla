-------------------------------- MODULE Wire --------------------------------
(***************************************************************************)
(* The messages of an authentication as both ends build and check them:    *)
(* shared/src/protocol/{messages,packet}.rs, shared/src/crypto, and the    *)
(* functions of shared/src/jni_api.rs through which the phone calls them.  *)
(*                                                                         *)
(* Bytes are kept symbolic.  A ciphertext is the key it was sealed with    *)
(* and its plaintext, a signature is its signer and the message it covers, *)
(* an HMAC is its key and its input.  A message carries the set of its     *)
(* signatures: none before it is signed, one after.  A function that       *)
(* throws or returns an error is a predicate that must hold before its     *)
(* value is used.                                                          *)
(***************************************************************************)
EXTENDS Integers

CONSTANT TIME_WINDOW            \* TIME_WINDOW_SECONDS, in the model's unit

ASSUME WindowAssumption == TIME_WINDOW \in Nat \ {0}

----------------------------------------------------------------------------
(* Temporal identifiers (crypto/temporal.rs).                              *)

time_window(t) == t \div TIME_WINDOW

temporal_identifier(csk, window) == [mac_key |-> csk, window |-> window]

current_temporal_identifier(csk, now) ==
    temporal_identifier(csk, time_window(now))

\* The phone passes a time, not a window (generateTemporalId).
generateTemporalId(csk, t) == temporal_identifier(csk, time_window(t))

----------------------------------------------------------------------------
(* Signatures and encryption (crypto/signing.rs, crypto/encryption.rs).    *)

sign_ed25519(key, data) == {[by |-> key, over |-> data]}

verify_ed25519(key, data, signature) ==
    signature = {[by |-> key, over |-> data]}

encrypt_with_csk(csk, plain) == [key |-> csk, plain |-> plain]

decrypts(csk, ciphertext) == ciphertext.key = csk

----------------------------------------------------------------------------
(* Messages (protocol/messages.rs, protocol/packet.rs).                    *)

auth_request(c, user, stamp) ==
    [type |-> "AUTH_REQUEST", challenge |-> c, username |-> user,
     timestamp |-> stamp]

auth_cancel(c) == [type |-> "AUTH_CANCEL", challenge |-> c]

grant_confirmation(c) == [type |-> "GRANT_CONFIRMATION", challenge |-> c]

wrap(payload) == [version |-> 1, signature |-> {}, payload |-> payload]

sign_wrapper(wrapper, key) ==
    LET unsigned == [wrapper EXCEPT !.signature = {}]
    IN  [wrapper EXCEPT !.signature = sign_ed25519(key, unsigned)]

verify_wrapper(wrapper, key) ==
    LET unsigned == [wrapper EXCEPT !.signature = {}]
    IN  verify_ed25519(key, unsigned, wrapper.signature)

encrypted_packet(csk, wrapper, now) ==
    [temporal_id |-> current_temporal_identifier(csk, now),
     ciphertext  |-> encrypt_with_csk(csk, wrapper)]

\* Mutant: any challenge the phone signed will do.
verify_any_grant(wrapper, c, key) ==
    verify_wrapper(wrapper, key) /\ wrapper.payload.type = "AUTH_GRANT"

\* What the daemon asks of a grant for its challenge c.
verify_auth_grant(wrapper, c, key) ==
    /\ verify_wrapper(wrapper, key)
    /\ wrapper.payload.type = "AUTH_GRANT"
    /\ verify_ed25519(key, c, wrapper.payload.signed_challenge)

\* What it makes of a packet it receives while it waits for an answer: of its
\* ciphertext, for it does not look at the temporal identifier.
accepts_grant(csk, key, ciphertext, c) ==
    /\ decrypts(csk, ciphertext)
    /\ verify_auth_grant(ciphertext.plain, c, key)

\* Mutant: the challenge of a denial is not compared.
accepts_any_denial(csk, key, ciphertext, c) ==
    /\ decrypts(csk, ciphertext)
    /\ verify_wrapper(ciphertext.plain, key)
    /\ ciphertext.plain.payload.type = "AUTH_DENIAL"

accepts_denial(csk, key, ciphertext, c) ==
    /\ decrypts(csk, ciphertext)
    /\ verify_wrapper(ciphertext.plain, key)
    /\ ciphertext.plain.payload.type = "AUTH_DENIAL"
    /\ ciphertext.plain.payload.challenge = c

----------------------------------------------------------------------------
(* The bridge to the phone (jni_api.rs).                                   *)

extractTemporalIdentifier(packet) == packet.temporal_id

decryptEncryptedPacket(packet) == packet.ciphertext.plain

determineMessageType(wrapper) == wrapper.payload.type

parseAuthRequest(wrapper) ==
    [challenge |-> wrapper.payload.challenge,
     username  |-> wrapper.payload.username,
     timestamp |-> wrapper.payload.timestamp,
     signature |-> wrapper.signature]

\* Mutant: the time of the request is left out of what is verified.
serializeWithoutTime(r) == wrap(auth_request(r.challenge, r.username, 0))

\* The bytes the client signed, put together again from the parsed fields.
serializeAuthRequestForVerification(r) ==
    wrap(auth_request(r.challenge, r.username, r.timestamp))

verifySignature(key, data, signature) == verify_ed25519(key, data, signature)

parseAuthenticationCancel(wrapper) == wrapper.payload.challenge

parseGrantConfirmation(wrapper) == wrapper.payload.challenge

signData(key, c) == sign_ed25519(key, c)

createGrantWrapperMessage(signed, key) ==
    sign_wrapper(wrap([type |-> "AUTH_GRANT", signed_challenge |-> signed]),
                 key)

createDenialWrapperMessage(c, key) ==
    sign_wrapper(wrap([type |-> "AUTH_DENIAL", challenge |-> c]), key)

createEncryptedPacket(csk, wrapper, now) ==
    [temporal_id |-> current_temporal_identifier(csk, now),
     ciphertext  |-> encrypt_with_csk(csk, wrapper)]
=============================================================================
