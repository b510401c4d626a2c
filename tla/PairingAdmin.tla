---------------------------- MODULE PairingAdmin -----------------------------
(***************************************************************************)
(* The administration side of tapauthd: admin_handler.rs, the files of     *)
(* shared/config.rs it reads and writes, DaemonState::reload, and the      *)
(* client's half of the pairing exchange (protocol/pairing.rs).            *)
(*                                                                         *)
(* Every admin request has an IPC connection, and so a task, of its own.   *)
(* The tasks run in parallel; only the pairing slot and the live           *)
(* DaemonState are under a lock, the files are not.  A pairing session is  *)
(* named by its generation, which also stands for its TCP port.            *)
(***************************************************************************)
EXTENDS PairingWire, FiniteSets

CONSTANTS
    Conn,      \* connections that carry admin requests, one after the other
    Phone,     \* phones that may be paired
    User,      \* the callers' user names
    Key,       \* client symmetric keys that may be generated
    NoKey,     \* there is no CSK
    Torn,      \* a CSK file cut short by a crash
    NoPhone,   \* no phone has connected
    MaxGen,    \* how many pairing sessions are started
    Ops,       \* the requests explored
    IOErrors,  \* whether writing and removing files may fail
    Crashes    \* whether the daemon may crash

Operations == {"start", "wait", "complete", "remove", "rotate", "config"}

ASSUME KeysDistinct == {NoKey, Torn} \cap Key = {} /\ NoKey # Torn
ASSUME NoPhoneAssumption == NoPhone \notin Phone
ASSUME UserAssumption == User # {}
ASSUME MaxGenAssumption == MaxGen \in Nat
ASSUME OpsAssumption == Ops \subseteq Operations
ASSUME FaultsAssumption == IOErrors \in BOOLEAN /\ Crashes \in BOOLEAN

VARIABLES
    csk,      \* client.sym: the CSK file
    servers,  \* paired_servers.json: the users each paired phone may authenticate
    live,     \* ServerState.daemon: the keys and servers sessions are given
    slot,     \* ServerState.pending_pairing
    nextGen,  \* PAIRING_GENERATION
    timers,   \* <<kind, generation>> of the sleeping clean-up tasks
    pc,       \* where the handler of each connection is
    req,      \* the local variables of that handler
    given,    \* the CSK each phone last confirmed the receipt of
    due,      \* <<phone, CSK>> a phone has confirmed and not yet stored
    holds,    \* the CSK each phone has stored for this client
    used,     \* keys that have been generated
    removed   \* <<phone, user>> removed, and not paired again since

vars == <<csk, servers, live, slot, nextGen, timers, pc, req, given, due,
          holds, used, removed>>
diskVars == <<csk, servers, used, removed>>
slotVars == <<slot, nextGen, timers>>
phoneVars == <<given, due, holds>>

Lists == [Phone -> SUBSET User]
NoServers == [p \in Phone |-> {}]
Daemon == [csk : Key \cup {NoKey}, servers : Lists]
Gen == 0 .. MaxGen
Slot == [kind : {"none", "pending", "active"}, gen : Gen,
         phone : Phone \cup {NoPhone}]
NoSlot == [kind |-> "none", gen |-> 0, phone |-> NoPhone]

\* A request's port: that of a session, or 0 for whichever is there.  No
\* session has generation MaxGen.
AnyPort == MaxGen

PCs == {"idle", "dispatch", "accepting", "handshake", "taken", "finishing",
        "confirmed", "saving", "adding", "inserting", "deleting", "cleared",
        "reloading", "installing"}

\* user: the caller; base: the CSK of the DaemonState captured on arrival;
\* gen, phone: the session taken out of the slot; key: the CSK being handed
\* out; list: the servers as loaded; next: the reloaded DaemonState.
Request == [user : User, base : Key \cup {NoKey}, gen : Gen,
            phone : Phone \cup {NoPhone}, key : Key \cup {NoKey},
            list : Lists, next : Daemon]

NoDaemon == [csk |-> NoKey, servers |-> NoServers]

NewRequest(u, d) ==
    [user |-> u, base |-> d.csk, gen |-> 0, phone |-> NoPhone, key |-> NoKey,
     list |-> NoServers, next |-> NoDaemon]

\* Between requests a connection has no local variables to speak of.
NoRequest == NewRequest(CHOOSE u \in User : TRUE, NoDaemon)

\* What DaemonState::new finds on disk.
OnDisk == [csk |-> IF csk \in Key THEN csk ELSE NoKey, servers |-> servers]

TypeOK ==
    /\ csk \in Key \cup {NoKey, Torn}
    /\ servers \in Lists
    /\ live \in Daemon
    /\ slot \in Slot
    /\ nextGen \in Gen
    /\ timers \subseteq {"pending", "active"} \X Gen
    /\ pc \in [Conn -> PCs]
    /\ req \in [Conn -> Request]
    /\ given \in [Phone -> Key \cup {NoKey}]
    /\ due \subseteq Phone \X Key
    /\ holds \in [Phone -> Key \cup {NoKey}]
    /\ used \subseteq Key
    /\ removed \subseteq Phone \X User

Init ==
    /\ csk = NoKey
    /\ servers = NoServers
    /\ live = NoDaemon
    /\ slot = NoSlot
    /\ nextGen = 0
    /\ timers = {}
    /\ pc = [c \in Conn |-> "idle"]
    /\ req = [c \in Conn |-> NoRequest]
    /\ given = [p \in Phone |-> NoKey]
    /\ due = {}
    /\ holds = [p \in Phone |-> NoKey]
    /\ used = {}
    /\ removed = {}

-----------------------------------------------------------------------------
(* The exchange between the client and phone p in session g.  Both draw a  *)
(* fresh X25519 key pair for it.                                           *)

ClientSecret(g) == <<"client", g>>
PhoneSecret(g, p) == <<"phone", g, p>>

Hello(g, p) == SendHello(PhoneSecret(g, p), p)
ClientSide(g, p) == initiate_pairing(ClientSecret(g), Hello(g, p))
PhoneSide(g, p) ==
    AwaitingSASVerification(PhoneSecret(g, p),
                            send_pairing_response(ClientSecret(g)))

\* What handler c sends to the phone of its session, and what that answers.
CskMessage(g, p, k, u) == send_csk_message(ClientSide(g, p).psk, k, u)
PairingComplete(g, p, k, u) ==
    Complete(PhoneSide(g, p).psk, CskMessage(g, p, k, u))

-----------------------------------------------------------------------------

Goto(c, l) == pc' = [pc EXCEPT ![c] = l]

\* The response is written and the connection closed.
Reply(c) == Goto(c, "idle") /\ req' = [req EXCEPT ![c] = NoRequest]

-----------------------------------------------------------------------------
(* handle_admin_request: arrival, authorisation, reload.                   *)

\* The live DaemonState is captured, then the caller is resolved.
Arrive(c, u) ==
    /\ pc[c] = "idle"
    /\ Goto(c, "dispatch")
    /\ req' = [req EXCEPT ![c] = NewRequest(u, live)]
    /\ UNCHANGED <<diskVars, slotVars, live, phoneVars>>

\* resolve_peer or check_authorization refused, or StartPairing failed before
\* it drew a generation (keypair, listener, firewall, session).
Refused(c) ==
    /\ pc[c] = "dispatch"
    /\ Reply(c)
    /\ UNCHANGED <<diskVars, slotVars, live, phoneVars>>

\* DaemonState::reload.  A CSK that does not load is replaced by that of the
\* captured state.
Reload(c) ==
    /\ pc[c] = "reloading"
    /\ req' = [req EXCEPT ![c].next =
                 [csk |-> IF csk \in Key THEN csk ELSE req[c].base,
                  servers |-> servers]]
    /\ Goto(c, "installing")
    /\ UNCHANGED <<diskVars, slotVars, live, phoneVars>>

\* The write lock was granted and the reloaded state becomes the live one.
Install(c) ==
    /\ pc[c] = "installing"
    /\ live' = req[c].next
    /\ Reply(c)
    /\ UNCHANGED <<diskVars, slotVars, phoneVars>>

\* A step of an operation fails; the handler still reloads.
Fail(c) ==
    /\ Goto(c, "reloading")
    /\ UNCHANGED <<diskVars, slotVars, live, req, phoneVars>>

-----------------------------------------------------------------------------
(* The pairing slot.                                                       *)

\* handle_start_pairing.  A generation is drawn before the slot is looked at.
StartPairing(c) ==
    /\ pc[c] = "dispatch"
    /\ "start" \in Ops
    /\ nextGen < MaxGen
    /\ nextGen' = nextGen + 1
    /\ IF slot.kind = "none"
       THEN /\ slot' = [kind |-> "pending", gen |-> nextGen, phone |-> NoPhone]
            /\ timers' = timers \cup {<<"pending", nextGen>>}
       ELSE UNCHANGED <<slot, timers>>
    /\ Reply(c)
    /\ UNCHANGED <<diskVars, live, phoneVars>>

Matches(kind, port) == slot.kind = kind /\ port \in {slot.gen, AnyPort}

\* Mutant: the pending session is left in the slot.
WaitForPairingKeeps(c, port) ==
    /\ pc[c] = "dispatch"
    /\ "wait" \in Ops
    /\ IF Matches("pending", port)
       THEN /\ req' = [req EXCEPT ![c].gen = slot.gen]
            /\ Goto(c, "accepting")
            /\ UNCHANGED slot
       ELSE Reply(c) /\ UNCHANGED slot
    /\ UNCHANGED <<diskVars, nextGen, timers, live, phoneVars>>

\* handle_wait_for_pairing up to its accept: the session leaves the slot.
WaitForPairing(c, port) ==
    /\ pc[c] = "dispatch"
    /\ "wait" \in Ops
    /\ IF Matches("pending", port)
       THEN /\ req' = [req EXCEPT ![c].gen = slot.gen]
            /\ Goto(c, "accepting")
            /\ slot' = NoSlot
       ELSE Reply(c) /\ UNCHANGED slot
    /\ UNCHANGED <<diskVars, nextGen, timers, live, phoneVars>>

\* A phone that scanned the QR code connects.
Accepted(c, p) ==
    /\ pc[c] = "accepting"
    /\ req' = [req EXCEPT ![c].phone = p]
    /\ Goto(c, "handshake")
    /\ UNCHANGED <<diskVars, slotVars, live, phoneVars>>

\* The accept failed or timed out, or initiate_pairing failed.
WaitFails(c) ==
    /\ pc[c] \in {"accepting", "handshake"}
    /\ Reply(c)
    /\ UNCHANGED <<diskVars, slotVars, live, phoneVars>>

\* Mutant: the clean-up of the active phase is forgotten.
HandshakeDoneNoTimer(c) ==
    LET hello == Hello(req[c].gen, req[c].phone) IN
    /\ pc[c] = "handshake"
    /\ receive_pairing_hello(hello)
    /\ slot' = IF slot.kind = "none"
               THEN [kind |-> "active", gen |-> req[c].gen,
                     phone |-> hello.ed25519_public_key]
               ELSE slot
    /\ Reply(c)
    /\ UNCHANGED <<diskVars, nextGen, timers, live, phoneVars>>

\* initiate_pairing returned: the session is back in the slot, unless another
\* one took its place.
HandshakeDone(c) ==
    LET hello == Hello(req[c].gen, req[c].phone) IN
    /\ pc[c] = "handshake"
    /\ receive_pairing_hello(hello)
    /\ IF slot.kind = "none"
       THEN /\ slot' = [kind |-> "active", gen |-> req[c].gen,
                        phone |-> hello.ed25519_public_key]
            /\ timers' = timers \cup {<<"active", req[c].gen>>}
       ELSE UNCHANGED <<slot, timers>>
    /\ Reply(c)
    /\ UNCHANGED <<diskVars, nextGen, live, phoneVars>>

\* Mutant: the generation is not compared.
TimerFiresAnyGen(kind, g) ==
    /\ <<kind, g>> \in timers
    /\ timers' = timers \ {<<kind, g>>}
    /\ slot' = IF slot.kind = kind THEN NoSlot ELSE slot
    /\ UNCHANGED <<diskVars, nextGen, live, pc, req, phoneVars>>

\* Mutant: the task sleeps again while its active session is in the slot.
TimerFiresRearmed(kind, g) ==
    /\ <<kind, g>> \in timers
    /\ ~(kind = "active" /\ slot.kind = kind /\ slot.gen = g)
    /\ timers' = timers \ {<<kind, g>>}
    /\ slot' = IF slot.kind = kind /\ slot.gen = g THEN NoSlot ELSE slot
    /\ UNCHANGED <<diskVars, nextGen, live, pc, req, phoneVars>>

\* spawn_pairing_timeout and spawn_active_pairing_timeout.
TimerFires(kind, g) ==
    /\ <<kind, g>> \in timers
    /\ timers' = timers \ {<<kind, g>>}
    /\ slot' = IF slot.kind = kind /\ slot.gen = g THEN NoSlot ELSE slot
    /\ UNCHANGED <<diskVars, nextGen, live, pc, req, phoneVars>>

-----------------------------------------------------------------------------
(* handle_complete_pairing.                                                *)

\* The active session leaves the slot.
CompletePairing(c, port) ==
    /\ pc[c] = "dispatch"
    /\ "complete" \in Ops
    /\ IF Matches("active", port)
       THEN /\ req' = [req EXCEPT ![c].gen = slot.gen, ![c].phone = slot.phone]
            /\ Goto(c, "taken")
            /\ slot' = NoSlot
       ELSE /\ Goto(c, "reloading")
            /\ UNCHANGED <<slot, req>>
    /\ UNCHANGED <<diskVars, nextGen, timers, live, phoneVars>>

\* The CSK is loaded; k is generated, in memory only, if there is no file.  A
\* file that does not hold a key is an error.
LoadCsk(c, k) ==
    /\ pc[c] = "taken"
    /\ IF csk = Torn
       THEN Goto(c, "reloading") /\ UNCHANGED <<req, used>>
       ELSE /\ k = csk \/ (csk = NoKey /\ k \in Key \ used)
            /\ req' = [req EXCEPT ![c].key = k]
            /\ used' = used \cup {k}
            /\ Goto(c, "finishing")
    /\ UNCHANGED <<csk, servers, removed, slotVars, live, phoneVars>>

\* The user found the same code on both screens, and the phone received the
\* CSK and answers PairingComplete with its hash; PairingScreen stores the
\* pairing only after that.  It pairs with one client at a time.
PhoneConfirms(c) ==
    LET g == req[c].gen
        p == req[c].phone
        message == CskMessage(g, p, req[c].key, req[c].user)
        received == ReceivedCsk(PhoneSide(g, p).psk, message) IN
    /\ pc[c] = "finishing"
    /\ \A k \in Key : <<p, k>> \notin due
    /\ ClientSide(g, p).sas = PhoneSide(g, p).sas
    /\ Decrypts(PhoneSide(g, p).psk, message)
    /\ given' = [given EXCEPT ![p] = received]
    /\ due' = due \cup {<<p, received>>}
    /\ Goto(c, "confirmed")
    /\ UNCHANGED <<diskVars, slotVars, live, req, holds>>

\* receive_pairing_complete verified the hash.
FinishPairing(c) ==
    LET g == req[c].gen
        p == req[c].phone IN
    /\ pc[c] = "confirmed"
    /\ receive_pairing_complete(
           ClientSide(g, p).psk,
           PairingComplete(g, p, req[c].key, req[c].user), req[c].key)
    /\ Goto(c, "saving")
    /\ UNCHANGED <<diskVars, slotVars, live, req, phoneVars>>

\* finish_pairing failed, before or after the phone's answer was sent.
FinishFails(c) == pc[c] \in {"finishing", "confirmed"} /\ Fail(c)

\* save_csk.
SaveCsk(c) ==
    /\ pc[c] = "saving"
    /\ csk' = req[c].key
    /\ Goto(c, "adding")
    /\ UNCHANGED <<servers, used, removed, slotVars, live, req, phoneVars>>

\* load_paired_servers of add_paired_server.
AddLoad(c) ==
    /\ pc[c] = "adding"
    /\ req' = [req EXCEPT ![c].list = servers]
    /\ Goto(c, "inserting")
    /\ UNCHANGED <<diskVars, slotVars, live, phoneVars>>

\* save_paired_servers of add_paired_server: the phone's entry is replaced.
AddPairedServer(c) ==
    /\ pc[c] = "inserting"
    /\ LET p == req[c].phone
           u == req[c].user
       IN  /\ servers' = [req[c].list EXCEPT ![p] = {u}]
           /\ removed' = removed \ {<<p, u>>}
    /\ Goto(c, "reloading")
    /\ UNCHANGED <<csk, used, slotVars, live, req, phoneVars>>

-----------------------------------------------------------------------------
(* The other operations that change files.                                 *)

\* load_paired_servers of remove_user_from_pairing.
RemoveLoad(c, p) ==
    /\ pc[c] = "dispatch"
    /\ "remove" \in Ops
    /\ req' = [req EXCEPT ![c].list = servers, ![c].phone = p]
    /\ Goto(c, "deleting")
    /\ UNCHANGED <<diskVars, slotVars, live, phoneVars>>

\* Mutant: the whole list is written back as it was loaded.
RemoveDeviceKeeps(c) ==
    /\ pc[c] = "deleting"
    /\ servers' = req[c].list
    /\ removed' = removed \cup {<<req[c].phone, req[c].user>>}
    /\ Goto(c, "reloading")
    /\ UNCHANGED <<csk, used, slotVars, live, req, phoneVars>>

\* save_paired_servers of remove_user_from_pairing; an entry without users is
\* an entry that is gone, and nothing is written for a phone that has none.
RemoveDevice(c) ==
    /\ pc[c] = "deleting"
    /\ LET p == req[c].phone
           u == req[c].user
       IN  IF req[c].list[p] = {} THEN UNCHANGED <<servers, removed>>
           ELSE /\ servers' = [req[c].list EXCEPT ![p] = @ \ {u}]
                /\ removed' = removed \cup {<<p, u>>}
    /\ Goto(c, "reloading")
    /\ UNCHANGED <<csk, used, slotVars, live, req, phoneVars>>

\* Mutant: the paired servers are kept.
RotateClearKeeps(c, ok) ==
    /\ pc[c] = "dispatch"
    /\ "rotate" \in Ops
    /\ ok \/ IOErrors
    /\ Goto(c, "cleared")
    /\ UNCHANGED <<diskVars, slotVars, live, req, phoneVars>>

\* clear_paired_servers of rotate_csk, whose failure (~ok) is ignored.
RotateClear(c, ok) ==
    /\ pc[c] = "dispatch"
    /\ "rotate" \in Ops
    /\ ok \/ IOErrors
    /\ servers' = IF ok THEN NoServers ELSE servers
    /\ Goto(c, "cleared")
    /\ UNCHANGED <<csk, used, removed, slotVars, live, req, phoneVars>>

\* Mutant: the response is sent without a reload.
RotateCskNoReload(c, k) ==
    /\ pc[c] = "cleared"
    /\ k \in Key \ used
    /\ csk' = k
    /\ used' = used \cup {k}
    /\ Reply(c)
    /\ UNCHANGED <<servers, removed, slotVars, live, phoneVars>>

\* generate_and_save_csk of rotate_csk.
RotateCsk(c, k) ==
    /\ pc[c] = "cleared"
    /\ k \in Key \ used
    /\ csk' = k
    /\ used' = used \cup {k}
    /\ Goto(c, "reloading")
    /\ UNCHANGED <<servers, removed, slotVars, live, req, phoneVars>>

\* handle_save_config, or handle_recover_tpm in a build without TPM support:
\* neither touches the CSK or the paired servers, and both reload.
SaveConfig(c) == pc[c] = "dispatch" /\ "config" \in Ops /\ Fail(c)

\* A file cannot be written.
IOFails(c) ==
    /\ IOErrors
    /\ pc[c] \in {"saving", "inserting", "deleting", "cleared"}
    /\ Fail(c)

\* ClientSymmetricKey::generate failed.
GenerateFails(c) ==
    /\ pc[c] = "cleared" \/ (pc[c] = "taken" /\ csk = NoKey)
    /\ Fail(c)

\* The daemon crashes, or is stopped, and is started again.  fs::write is not
\* atomic: a CSK file that was being written may be left cut short.
Crash(tear) ==
    /\ Crashes
    /\ tear => \E c \in Conn : pc[c] \in {"saving", "cleared"}
    /\ csk' = IF tear THEN Torn ELSE csk
    /\ live' = [csk |-> IF tear THEN NoKey ELSE OnDisk.csk, servers |-> servers]
    /\ slot' = NoSlot
    /\ nextGen' = 0
    /\ timers' = {}
    /\ pc' = [c \in Conn |-> "idle"]
    /\ req' = [c \in Conn |-> NoRequest]
    /\ UNCHANGED <<servers, used, removed, phoneVars>>

-----------------------------------------------------------------------------
(* The phone's storage (PairingClient.completePairing, DeviceRepository).  *)

\* A client whose public key is known keeps its entry, and with it the CSK of
\* that entry; only its list of users changes.
PhoneStores(p, k) ==
    /\ <<p, k>> \in due
    /\ due' = due \ {<<p, k>>}
    /\ holds' = [holds EXCEPT ![p] = IF @ = NoKey THEN k ELSE @]
    /\ UNCHANGED <<diskVars, slotVars, live, pc, req, given>>

\* The screen is left, or the app killed, before the pairing is stored.
PhoneLoses(p, k) ==
    /\ <<p, k>> \in due
    /\ due' = due \ {<<p, k>>}
    /\ UNCHANGED <<diskVars, slotVars, live, pc, req, given, holds>>

\* The user removes the client on the phone.
PhoneForgets(p) ==
    /\ holds[p] # NoKey
    /\ holds' = [holds EXCEPT ![p] = NoKey]
    /\ UNCHANGED <<diskVars, slotVars, live, pc, req, given, due>>

-----------------------------------------------------------------------------

Pairing(c) ==
    \/ StartPairing(c)
    \/ \E port \in Gen : WaitForPairing(c, port) \/ CompletePairing(c, port)
    \/ \E p \in Phone : Accepted(c, p)
    \/ WaitFails(c) \/ HandshakeDone(c)
    \/ \E k \in Key : LoadCsk(c, k)
    \/ PhoneConfirms(c) \/ FinishPairing(c) \/ FinishFails(c)
    \/ SaveCsk(c) \/ AddLoad(c) \/ AddPairedServer(c)

Maintenance(c) ==
    \/ \E p \in Phone : RemoveLoad(c, p)
    \/ RemoveDevice(c)
    \/ \E ok \in BOOLEAN : RotateClear(c, ok)
    \/ \E k \in Key : RotateCsk(c, k)
    \/ SaveConfig(c) \/ IOFails(c) \/ GenerateFails(c)

Handler(c) ==
    \/ \E u \in User : Arrive(c, u)
    \/ Refused(c) \/ Reload(c) \/ Install(c)
    \/ Pairing(c) \/ Maintenance(c)

Next ==
    \/ \E c \in Conn : Handler(c)
    \/ \E kind \in {"pending", "active"}, g \in Gen : TimerFires(kind, g)
    \/ \E tear \in BOOLEAN : Crash(tear)
    \/ \E p \in Phone, k \in Key : PhoneStores(p, k) \/ PhoneLoses(p, k)
    \/ \E p \in Phone : PhoneForgets(p)

Spec == Init /\ [][Next]_vars

\* The clean-up tasks are timers.
FairSpec ==
    /\ Spec
    /\ \A kind \in {"pending", "active"}, g \in Gen : WF_vars(TimerFires(kind, g))

-----------------------------------------------------------------------------
(* Properties.                                                             *)

\* The handler of c works on a session it took out of the slot.
InSession(c) ==
    pc[c] \in {"accepting", "handshake", "taken", "finishing", "confirmed"}

\* A pairing session is in one place: in the slot or with one handler.  Its
\* socket and its ephemeral key are never used by two requests, however
\* WaitForPairing, CompletePairing and the clean-up tasks interleave
\* (admin_handler.rs, the guard.take() of both handlers).
OnePlace ==
    \A c \in Conn : InSession(c) =>
        /\ slot.kind = "none" \/ slot.gen # req[c].gen
        /\ \A d \in Conn \ {c} : InSession(d) => req[d].gen # req[c].gen

\* What is in the slot has a clean-up task of its own phase and generation
\* asleep, so that no abandoned session blocks StartPairing for ever.
SlotGuarded == slot.kind # "none" => <<slot.kind, slot.gen>> \in timers

Taken(c) ==
    /\ pc[c] = "dispatch"
    /\ pc'[c] \in {"accepting", "taken"}
    /\ req'[c].gen = slot.gen

\* A session leaves the slot only because a request took it, because its own
\* timer fired, or because the daemon restarted: neither a late clean-up task
\* of an earlier session or phase nor a handshake that ends late displaces it
\* (the generation checks and the "superseded" branch of admin_handler.rs).
NotCutShort ==
    [][slot.kind # "none" /\ slot' # slot =>
         /\ slot' = NoSlot
         /\ \/ \E c \in Conn : Taken(c)
            \/ <<slot.kind, slot.gen>> \in timers \ timers'
            \/ nextGen' = 0 /\ \A c \in Conn : pc'[c] = "idle"]_vars

\* A session does not stay in the slot for ever (the 300 s clean-up tasks).
SlotFrees ==
    \A g \in Gen : (slot.kind # "none" /\ slot.gen = g)
                     ~> ~ (slot.kind # "none" /\ slot.gen = g)

\* In a session that waits for its user the desktop and the phone show the
\* same code, whichever phone connected, and any CSK the client then sends is
\* one the phone can decrypt and confirm: the derivations of initiate_pairing
\* and of PairingClient.initiatePairing agree on the roles of the two keys.
EndsAgree ==
    slot.kind = "active" =>
        /\ ClientSide(slot.gen, slot.phone).sas = PhoneSide(slot.gen, slot.phone).sas
        /\ \A k \in Key, u \in User :
               receive_pairing_complete(
                   ClientSide(slot.gen, slot.phone).psk,
                   PairingComplete(slot.gen, slot.phone, k, u), k)

\* Every phone on the list was last given, and confirmed, the CSK on disk, also
\* while it is paired again: the order in which CompletePairing and rotate_csk
\* write the two files, and a crash between the writes, never leaves a listed
\* phone with another key.
KeyAgreement ==
    \A p \in Phone : servers[p] # {} /\ csk \in Key => given[p] = csk

\* When no admin request is in progress, sessions are given the keys and the
\* servers that are on disk (handle_admin_request's reload).
IdleSnapshotFresh ==
    (csk # Torn /\ \A c \in Conn : pc[c] = "idle") => live = OnDisk

\* A user removed from a phone's entry is not on it until they pair again
\* (remove_user_from_pairing).
RemovedStaysRemoved ==
    \A p \in Phone : \A u \in servers[p] : <<p, u>> \notin removed

\* A phone that is on the list, has stored what it was given and was not told
\* to forget the client holds the CSK on disk (PairingClient.completePairing).
PhoneHasKey ==
    \A p \in Phone :
        servers[p] # {} /\ csk \in Key /\ (\A k \in Key : <<p, k>> \notin due)
            => holds[p] \in {csk, NoKey}

=============================================================================
