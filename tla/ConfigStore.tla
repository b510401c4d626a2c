---------------------------- MODULE ConfigStore ----------------------------
(***************************************************************************)
(* The files tapauthd lives on (shared/src/config.rs, toml_config.rs and   *)
(* tpm.rs, built with the tpm feature): the client's Ed25519 keypair, in a *)
(* plain file or sealed by the TPM, the CSK, the list of paired phones,    *)
(* the hostname and config.toml.  None is replaced atomically: a file is   *)
(* truncated, written and then given its mode, so a crash or an error      *)
(* leaves it torn, or new and still readable by others ("wide"), which     *)
(* read_secure_file refuses.                                               *)
(*                                                                         *)
(* An admin request is the list of file operations it still has to do.     *)
(* Requests are taken one at a time (PairingAdmin has their overlap), but  *)
(* a pairing spans two of them.                                            *)
(***************************************************************************)
EXTENDS Naturals, Sequences, FiniteSets

CONSTANTS
    Phone,      \* phones that may be paired
    Key,        \* keypairs that may be generated
    NoKey,      \* no keypair
    MaxFaults   \* crashes and failing file operations considered

ASSUME StoreAssumption == NoKey \notin Key /\ MaxFaults \in Nat

Files == {"client_key", "client_key.pub", "client_key.priv", "client_key.tpm",
          "client_key.tmp_in", "client_symmetric_key", "paired_servers.json",
          "client_config.json", "config.toml"}

VARIABLES
    st,        \* state of each file
    key,       \* keypair in client_key
    sealed,    \* keypair in client_key.pub and client_key.priv
    listed,    \* phones in paired_servers.json
    tpm,       \* use_tpm in config.toml
    proc,      \* the daemon: "up", "down", or "failed" to start
    live,      \* DaemonState
    session,   \* keypair of the pairing in progress
    req,       \* the admin request in progress, or the last one
    ok,        \* it has not failed
    todo,      \* the file operations it has yet to do
    writing,   \* the first of them is a write that has truncated its file
    new,       \* what the request writes
    knows,     \* the client identity each phone has stored
    drawn,     \* keypairs generated so far
    retired,   \* keypairs a recovery has deleted
    chosen,    \* the storage mode the administrator chose
    cut,       \* requests that a crash or an error has interrupted
    faults     \* number of faults so far

fileVars == <<st, key, sealed, listed, tpm>>
requestVars == <<session, req, ok, todo, writing, new>>
historyVars == <<knows, drawn, retired, chosen, cut, faults>>
vars == <<st, key, sealed, listed, tpm, proc, live, session, req, ok, todo,
          writing, new, knows, drawn, retired, chosen, cut, faults>>

Requests == {"none", "start", "complete", "remove", "rotate", "save", "recover"}
Operation == [do : {"rm", "try", "write"}, file : Files]
Contents == [key : Key \cup {NoKey}, list : SUBSET Phone, tpm : BOOLEAN]
DaemonState == [key : Key \cup {NoKey}, csk : BOOLEAN, list : SUBSET Phone]

StoreTypeOK ==
    /\ st \in [Files -> {"missing", "torn", "wide", "whole"}]
    /\ key \in Key \cup {NoKey} /\ sealed \in Key \cup {NoKey}
    /\ listed \subseteq Phone /\ tpm \in BOOLEAN
    /\ proc \in {"up", "down", "failed"}
    /\ live \in DaemonState
    /\ session \in Key \cup {NoKey}
    /\ req \in Requests /\ ok \in BOOLEAN
    /\ todo \in Seq(Operation) /\ writing \in BOOLEAN
    /\ new \in Contents
    /\ knows \in [Phone -> Key \cup {NoKey}]
    /\ drawn \subseteq Key /\ retired \subseteq Key
    /\ chosen \in BOOLEAN /\ cut \subseteq Requests /\ faults \in 0 .. MaxFaults

Nothing == [key |-> NoKey, list |-> {}, tpm |-> FALSE]

Init ==
    /\ tpm \in BOOLEAN
    /\ chosen = tpm
    /\ st = [f \in Files |-> IF f = "config.toml" THEN "whole" ELSE "missing"]
    /\ key = NoKey /\ sealed = NoKey /\ listed = {}
    /\ proc = "down"
    /\ live = [key |-> NoKey, csk |-> FALSE, list |-> {}]
    /\ session = NoKey
    /\ req = "none" /\ ok = TRUE /\ todo = <<>> /\ writing = FALSE
    /\ new = Nothing
    /\ knows = [p \in Phone |-> NoKey]
    /\ drawn = {} /\ retired = {} /\ cut = {} /\ faults = 0

-----------------------------------------------------------------------------
(* Loading. *)

\* TapAuthConfig::load: defaults for a file that does not parse.
UseTpm == st["config.toml"] = "whole" /\ tpm

\* read_secure_file and the checks of the content: "invalid" is
\* ConfigError::InvalidConfig, "error" any other error.
LoadBytes(f) ==
    CASE st[f] \in {"missing", "torn"} -> "invalid"
      [] st[f] = "wide" -> "error"
      [] OTHER -> "ok"

\* unseal_data_with_tpm; the TPM is available and its registers have not
\* changed.
UnsealData == st["client_key.pub"] = "whole" /\ st["client_key.priv"] = "whole"

\* load_sealed_keypair looks for the path it is given.
LoadSealedKeypair ==
    IF st["client_key.tpm"] # "missing" /\ UnsealData THEN "ok" ELSE "error"

\* load_keypair: with the TPM enabled from the TPM only.
LoadKeypair == IF UseTpm THEN LoadSealedKeypair ELSE LoadBytes("client_key")

StoredKey == IF UseTpm THEN sealed ELSE key

\* load_paired_servers and load_config take a missing file for an empty one.
Readable(f) == st[f] \in {"missing", "whole"}
ServersList == IF st["paired_servers.json"] = "whole" THEN listed ELSE {}

\* DaemonState::reload: what cannot be loaded is kept.
Reloaded ==
    [key |-> IF LoadKeypair = "ok" THEN StoredKey ELSE live.key,
     csk |-> LoadBytes("client_symmetric_key") = "ok" \/ live.csk,
     list |-> IF Readable("paired_servers.json") THEN ServersList ELSE live.list]

\* DaemonState::new: without keys the daemon is degraded; without the list or
\* the hostname it exits, and systemd's restart finds the same files.
Start ==
    /\ proc = "down"
    /\ IF Readable("paired_servers.json") /\ Readable("client_config.json")
       THEN /\ proc' = "up"
            /\ live' = [key |-> IF LoadKeypair = "ok" THEN StoredKey ELSE NoKey,
                        csk |-> LoadBytes("client_symmetric_key") = "ok",
                        list |-> ServersList]
       ELSE proc' = "failed" /\ UNCHANGED live
    /\ UNCHANGED <<fileVars, requestVars, historyVars>>

-----------------------------------------------------------------------------
(* Admin requests: each is the file operations that its handler will do. *)

Rm(f) == [do |-> "rm", file |-> f]         \* an error ends the request
Try(f) == [do |-> "try", file |-> f]       \* an error is ignored
Write(f) == [do |-> "write", file |-> f]

Idle == proc = "up" /\ todo = <<>> /\ req = "none"

Begin(r, ops, contents) ==
    /\ req' = r
    /\ ok' = TRUE
    /\ todo' = ops
    /\ writing' = FALSE
    /\ new' = contents
    /\ UNCHANGED <<fileVars, proc, live>>

Same == [key |-> key, list |-> ServersList, tpm |-> UseTpm]

\* seal_data_with_tpm: the two halves of the sealed object, made from a
\* temporary copy of the key.
SealData ==
    <<Write("client_key.tmp_in"), Write("client_key.pub"),
      Write("client_key.priv"), Try("client_key.tmp_in")>>

\* save_keypair.
SaveKeypair == IF UseTpm THEN SealData ELSE <<Write("client_key")>>

\* Mutant: a pairing always makes a keypair of its own.
StartPairingTransient(k) ==
    /\ Idle
    /\ k \in Key \ drawn
    /\ LoadKeypair \in {"ok", "invalid"}
    /\ Begin("start", SaveKeypair, [Same EXCEPT !.key = k])
    /\ session' = k
    /\ drawn' = drawn \cup {k}
    /\ UNCHANGED <<knows, retired, chosen, cut, faults>>

\* handle_start_pairing: the stored keypair; a new one only when there is none
\* or the file is not 32 bytes long.  (session counts once todo is done.)
StartPairing(k) ==
    /\ Idle
    /\ IF LoadKeypair = "ok"
       THEN /\ k = StoredKey
            /\ Begin("start", <<>>, Same)
            /\ UNCHANGED drawn
       ELSE /\ LoadKeypair = "invalid"
            /\ k \in Key \ drawn
            /\ Begin("start", SaveKeypair, [Same EXCEPT !.key = k])
            /\ drawn' = drawn \cup {k}
    /\ session' = k
    /\ UNCHANGED <<knows, retired, chosen, cut, faults>>

\* handle_complete_pairing: the phone stores the identity it was shown and
\* then the CSK and the list are saved; a list that cannot be read ends it, and
\* a CSK that is there but cannot be read refuses it.
CompletePairing(p) ==
    /\ Idle
    /\ session # NoKey
    /\ IF LoadBytes("client_symmetric_key") = "ok" \/ st["client_symmetric_key"] = "missing"
       THEN /\ Begin("complete",
                     <<Write("client_symmetric_key")>> \o
                         (IF Readable("paired_servers.json")
                          THEN <<Write("paired_servers.json")>> ELSE <<>>),
                     [Same EXCEPT !.list = ServersList \cup {p}])
            /\ knows' = [knows EXCEPT ![p] = session]
       ELSE Begin("complete", <<>>, Same) /\ UNCHANGED knows
    /\ session' = NoKey
    /\ UNCHANGED <<drawn, retired, chosen, cut, faults>>

\* A pairing that is not completed: the phone or the user gave up.
PairingEnds ==
    /\ Idle
    /\ session # NoKey
    /\ session' = NoKey
    /\ UNCHANGED <<fileVars, proc, live, req, ok, todo, writing, new, historyVars>>

\* handle_remove_device for the last user of phone p.
RemoveDevice(p) ==
    /\ Idle
    /\ Begin("remove",
             IF p \in ServersList THEN <<Write("paired_servers.json")>> ELSE <<>>,
             [Same EXCEPT !.list = ServersList \ {p}])
    /\ UNCHANGED <<session, historyVars>>

\* Mutant: the list is rewritten rather than removed.
RotateOpsRewrite == <<Write("paired_servers.json"), Write("client_symmetric_key")>>

\* rotate_csk: the list is removed, if it can be, and a new CSK is written.
RotateOps == <<Try("paired_servers.json"), Write("client_symmetric_key")>>

RotateCsk ==
    /\ Idle
    /\ Begin("rotate", RotateOps, [Same EXCEPT !.list = {}])
    /\ UNCHANGED <<session, historyVars>>

\* Mutant: the fields the request does not carry get their defaults.
SaveConfigDefaults ==
    /\ Idle
    /\ Begin("save", <<Write("config.toml"), Write("client_config.json")>>,
             [Same EXCEPT !.tpm = FALSE])
    /\ UNCHANGED <<session, historyVars>>

\* handle_save_config: config.toml as it was loaded, with the fields of the
\* request, and then the hostname.
SaveConfig ==
    /\ Idle
    /\ Begin("save", <<Write("config.toml"), Write("client_config.json")>>, Same)
    /\ UNCHANGED <<session, historyVars>>

\* Mutant: the recovery of the file mode leaves the CSK alone.
RecoverOpsKeyOnly ==
    <<Rm("client_key.pub"), Rm("client_key.priv"), Rm("client_key"),
      Rm("paired_servers.json")>> \o SaveKeypair

\* recover_from_tpm_failure.
RecoverOps ==
    <<Rm("client_key.pub"), Rm("client_key.priv"), Rm("client_key"),
      Rm("paired_servers.json")>> \o SaveKeypair \o RotateOps

RecoverTpm(k) ==
    /\ Idle
    /\ k \in Key \ drawn
    /\ Begin("recover", RecoverOps, [Same EXCEPT !.key = k, !.list = {}])
    /\ drawn' = drawn \cup {k}
    /\ UNCHANGED <<session, knows, retired, chosen, cut, faults>>

\* The administrator edits config.toml.
EditToml ==
    /\ proc # "up" \/ Idle
    /\ st' = [st EXCEPT !["config.toml"] = "whole"]
    /\ tpm' \in BOOLEAN
    /\ chosen' = tpm'
    /\ UNCHANGED <<key, sealed, listed, proc, live, requestVars, knows, drawn,
                   retired, cut, faults>>

-----------------------------------------------------------------------------
(* The file operations. *)

Op == Head(todo)

\* What a file holds once its write is over.
Content(f) ==
    /\ key' = IF f = "client_key" THEN new.key ELSE key
    /\ sealed' = IF f = "client_key.priv" THEN new.key ELSE sealed
    /\ listed' = IF f = "paired_servers.json" THEN new.list ELSE listed
    /\ tpm' = IF f = "config.toml" THEN new.tpm ELSE tpm

\* fs::write truncates or creates the file.
BeginWrite ==
    /\ proc = "up" /\ todo # <<>> /\ Op.do = "write" /\ ~writing
    /\ writing' = TRUE
    /\ st' = [st EXCEPT ![Op.file] =
                 IF @ \in {"missing", "wide"} THEN "wide" ELSE "torn"]
    /\ Content(Op.file)
    /\ UNCHANGED <<proc, live, session, req, ok, todo, new, historyVars>>

\* The content is written and the mode set.
EndWrite ==
    /\ proc = "up" /\ todo # <<>> /\ writing
    /\ writing' = FALSE
    /\ st' = [st EXCEPT ![Op.file] = "whole"]
    /\ todo' = Tail(todo)
    /\ UNCHANGED <<key, sealed, listed, tpm, proc, live, session, req, ok, new,
                   historyVars>>

\* fs::remove_file, of a file that may be missing.
Remove ==
    /\ proc = "up" /\ todo # <<>> /\ Op.do \in {"rm", "try"}
    /\ st' = [st EXCEPT ![Op.file] = "missing"]
    /\ todo' = Tail(todo)
    /\ retired' = IF Op.file = "client_key" /\ st["client_key"] = "whole"
                  THEN retired \cup {key} ELSE retired
    /\ key' = IF Op.file = "client_key" THEN NoKey ELSE key
    /\ sealed' = IF Op.file = "client_key.priv" THEN NoKey ELSE sealed
    /\ listed' = IF Op.file = "paired_servers.json" THEN {} ELSE listed
    /\ UNCHANGED <<tpm, proc, live, session, req, ok, writing,
                   new, knows, drawn, chosen, cut, faults>>

\* A file operation fails; a write may have left its file torn.  An ignored
\* error goes on, any other ends the request.  seal_data_with_tpm removes its
\* temporary file also when tpm2_create fails.
OperationFails ==
    /\ proc = "up" /\ todo # <<>>
    /\ faults < MaxFaults
    /\ faults' = faults + 1
    /\ writing' = FALSE
    /\ cut' = cut \cup {req}
    /\ IF Op.do = "try"
       THEN /\ todo' = Tail(todo)
            /\ UNCHANGED <<st, ok, session>>
       ELSE /\ todo' = <<>>
            /\ ok' = FALSE
            /\ session' = IF req = "start" THEN NoKey ELSE session
            /\ st' = IF Op.file \in {"client_key.pub", "client_key.priv"} /\ Op.do = "write"
                     THEN [st EXCEPT !["client_key.tmp_in"] = "missing"] ELSE st
    /\ UNCHANGED <<key, sealed, listed, tpm, proc, live, req, new, knows, drawn,
                   retired, chosen>>

\* The request is answered; most requests reload the daemon, whether they
\* failed or not.
Respond ==
    /\ proc = "up" /\ todo = <<>> /\ req # "none"
    /\ live' = IF req = "start" THEN live ELSE Reloaded
    /\ req' = "none" /\ ok' = TRUE /\ new' = Nothing
    /\ UNCHANGED <<fileVars, proc, session, todo, writing, historyVars>>

\* The machine or the daemon goes down.
Crash ==
    /\ proc = "up"
    /\ faults < MaxFaults
    /\ faults' = faults + 1
    /\ proc' = "down"
    /\ cut' = IF todo = <<>> THEN cut ELSE cut \cup {req}
    /\ session' = NoKey
    /\ req' = "none" /\ ok' = TRUE /\ todo' = <<>> /\ writing' = FALSE
    /\ new' = Nothing
    /\ live' = [key |-> NoKey, csk |-> FALSE, list |-> {}]
    /\ UNCHANGED <<fileVars, knows, drawn, retired, chosen>>

-----------------------------------------------------------------------------

Next ==
    \/ Start
    \/ \E k \in Key : StartPairing(k) \/ RecoverTpm(k)
    \/ \E p \in Phone : CompletePairing(p) \/ RemoveDevice(p)
    \/ PairingEnds \/ RotateCsk \/ SaveConfig \/ EditToml
    \/ BeginWrite \/ EndWrite \/ Remove \/ OperationFails \/ Respond \/ Crash

Spec == Init /\ [][Next]_vars

-----------------------------------------------------------------------------
(* Properties. *)

\* The identity of the client is stable: a phone in the list knows the stored
\* keypair, through crashes, torn files and changes of the storage mode, unless
\* a recovery has deleted the keypair it was shown (handle_start_pairing,
\* load_keypair).
IdentityKept ==
    Readable("paired_servers.json") /\ st["client_key"] = "whole" =>
        \A p \in ServersList : knows[p] \in retired \cup {key}

\* With plain files a recovery that reports success leaves the daemon healthy
\* and without phones that know another keypair, whatever state the files were
\* in before (recover_from_tpm_failure, DaemonState::reload).
RecoveryHeals ==
    [][req = "recover" /\ req' = "none" /\ proc' = "up" /\ ok /\ ~UseTpm =>
        live'.key = key /\ live'.csk /\ live'.list = {}]_vars

\* An interrupted rotation or recovery never keeps the daemon from starting;
\* only a torn list or hostname does, which a pairing, a removal or a change of
\* settings leaves behind (DaemonState::new).
RestartSurvives ==
    proc = "failed" => cut \cap {"complete", "remove", "save"} # {}

\* The storage mode is the one the administrator chose, unless config.toml was
\* torn while SaveConfig rewrote it: the settings a request does not carry are
\* kept (handle_save_config, TapAuthConfig::load).
ModeKept == todo = <<>> /\ "save" \notin cut => UseTpm = chosen

-----------------------------------------------------------------------------
(* What a document says, and the code does not do. *)

\* TPM_SUPPORT.md: to recover, generate fresh keys, restart the daemon and pair
\* again.  A recovery that reported success leaves a keypair the daemon can
\* load, with the TPM as well.
RecoveredKeyLoads ==
    [][req = "recover" /\ req' = "none" /\ proc' = "up" /\ ok => LoadKeypair = "ok"]_vars

=============================================================================
