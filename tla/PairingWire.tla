----------------------------- MODULE PairingWire -----------------------------
(***************************************************************************)
(* The four messages of a pairing as the client (protocol/pairing.rs) and  *)
(* the phone (PairingClient.kt, through jni_api.rs) build and check them,  *)
(* with the key derivations of crypto/{keys,kdf,encryption}.rs.            *)
(*                                                                         *)
(* Bytes are symbolic: an X25519 key pair is its secret, a shared secret   *)
(* is the set of the two secrets it comes from, and a ciphertext is its    *)
(* key and its plaintext.  A check that fails ends the exchange, so it is  *)
(* a predicate.  Algorithms and device names are left out: nothing reads   *)
(* the selected algorithms.                                                *)
(***************************************************************************)
EXTENDS Naturals

PAIRING_VERSION == 1

-----------------------------------------------------------------------------
(* Keys.                                                                   *)

public_key(secret) == [public |-> secret]

diffie_hellman(secret, their_public) == {secret, their_public.public}

derive_psk_from_x25519(shared_secret) == [psk |-> shared_secret]

\* The six digits are those of a hash of the PSK and of both public keys, the
\* client's first.
derive_sas(psk, client_public, server_public) ==
    [psk |-> psk, input |-> <<client_public, server_public>>]

encrypt_with_psk(psk, plain) == [key |-> psk, plain |-> plain]

decrypts_with_psk(psk, ciphertext) == ciphertext.key = psk

sha256(csk) == [sha256 |-> csk]

-----------------------------------------------------------------------------
(* The client: ClientPairingSession.                                       *)

receive_pairing_hello(hello) == hello.version = PAIRING_VERSION

send_pairing_response(secret) ==
    [version |-> PAIRING_VERSION, x25519_public_key |-> public_key(secret)]

\* self.psk and self.sas once initiate_pairing has the phone's hello.
initiate_pairing(secret, hello) ==
    LET psk == derive_psk_from_x25519(
                   diffie_hellman(secret, hello.x25519_public_key))
    IN  [psk |-> psk,
         sas |-> derive_sas(psk, public_key(secret), hello.x25519_public_key)]

send_csk_message(psk, csk, user) ==
    [encrypted_csk |-> encrypt_with_psk(psk, csk), username |-> user]

receive_pairing_complete(psk, complete, csk) ==
    /\ complete.success
    /\ decrypts_with_psk(psk, complete.csk_hash)
    /\ complete.csk_hash.plain = sha256(csk)

-----------------------------------------------------------------------------
(* The phone: the functions of jni_api.rs and what PairingClient.kt makes  *)
(* of them.                                                                *)

createPairingHello(public, identity) ==
    [version |-> PAIRING_VERSION, x25519_public_key |-> public,
     ed25519_public_key |-> identity]

parsePairingResponse(response) == response.x25519_public_key

keyExchange(secret, their_public) ==
    derive_psk_from_x25519(diffie_hellman(secret, their_public))

\* Mutant: the phone puts its own key first.
getSasOwnFirst(psk, client_public, server_public) ==
    derive_sas(psk, server_public, client_public)

getSas(psk, client_public, server_public) ==
    derive_sas(psk, client_public, server_public)

encryptWithPsk(psk, plain) == encrypt_with_psk(psk, plain)

decryptWithPsk(psk, ciphertext) == ciphertext.plain

parsePairingCskMessage(message) == message.encrypted_csk

createPairingComplete(success, hash) ==
    [success |-> success, csk_hash |-> hash]

\* initiatePairing: the hello it sends, and the PSK and code it derives from
\* the client's response.
SendHello(secret, identity) == createPairingHello(public_key(secret), identity)

AwaitingSASVerification(secret, response) ==
    LET client_public == parsePairingResponse(response)
        psk == keyExchange(secret, client_public)
    IN  [psk |-> psk, sas |-> getSas(psk, client_public, public_key(secret))]

\* completePairing: the CSK it takes from the message, if it decrypts, and
\* the answer that confirms it.
Decrypts(psk, message) ==
    decrypts_with_psk(psk, parsePairingCskMessage(message))

ReceivedCsk(psk, message) ==
    decryptWithPsk(psk, parsePairingCskMessage(message))

Complete(psk, message) ==
    createPairingComplete(
        TRUE, encryptWithPsk(psk, sha256(ReceivedCsk(psk, message))))

=============================================================================
