------------------------- MODULE PairingAdminProofs --------------------------
(***************************************************************************)
(* Proofs about PairingAdmin: type correctness, the discipline of the      *)
(* pairing slot, and what the files hold, for any number of connections,   *)
(* phones, users and keys.                                                 *)
(***************************************************************************)
EXTENDS PairingAdmin, TLAPS

\* The local variables a handler goes on to use have been set.
Shaped ==
    /\ slot.kind = "active" => slot.phone \in Phone
    /\ \A c \in Conn :
         /\ pc[c] \in {"handshake", "taken", "finishing", "confirmed", "saving",
                       "adding", "inserting", "deleting"}
              => req[c].phone \in Phone
         /\ pc[c] \in {"finishing", "confirmed", "saving"} => req[c].key \in Key

\* The generations of the sessions that exist have been drawn.
Drawn ==
    /\ slot.kind # "none" => slot.gen < nextGen
    /\ \A c \in Conn : InSession(c) => req[c].gen < nextGen

IInv == TypeOK /\ Shaped /\ Drawn /\ OnePlace /\ SlotGuarded

-----------------------------------------------------------------------------

\* A connection between requests is well-formed.
LEMMA Blank ==
    /\ NoRequest \in Request /\ NoDaemon \in Daemon /\ NoServers \in Lists
    /\ NoSlot \in Slot /\ 0 \in Gen
    /\ \A u \in User, d \in Daemon : NewRequest(u, d) \in Request
  BY UserAssumption, MaxGenAssumption
     DEF NoRequest, NewRequest, NoDaemon, NoServers, Request, Daemon, Lists,
         NoSlot, Slot, Gen

\* The identity in a phone's hello is its own, and the phone finds in the
\* client's message the key that the client put there.
LEMMA Exchange ==
    ASSUME NEW g, NEW p
    PROVE  /\ Hello(g, p).ed25519_public_key = p
           /\ \A k, u : ReceivedCsk(PhoneSide(g, p).psk, CskMessage(g, p, k, u)) = k
<1>1. Hello(g, p).ed25519_public_key = p
  BY Zenon DEF Hello, SendHello, createPairingHello
<1>2. ASSUME NEW k, NEW u
      PROVE  ReceivedCsk(PhoneSide(g, p).psk, CskMessage(g, p, k, u)) = k
  BY Zenon DEF ReceivedCsk, CskMessage, send_csk_message, encrypt_with_psk,
     decryptWithPsk, parsePairingCskMessage
<1> QED BY Zenon, <1>1, <1>2

\* Both ends derive the same PSK and the same code.
LEMMA SameSecrets ==
    ASSUME NEW g, NEW p
    PROVE  ClientSide(g, p) = PhoneSide(g, p)
<1> DEFINE c == ClientSecret(g)
           s == PhoneSecret(g, p)
           psk == derive_psk_from_x25519({c, s})
<1>1. Hello(g, p).x25519_public_key = public_key(s)
  BY Zenon DEF Hello, SendHello, createPairingHello
<1>2. diffie_hellman(c, public_key(s)) = {c, s}
  BY Zenon DEF diffie_hellman, public_key
<1>3. diffie_hellman(s, public_key(c)) = {c, s}
  BY Zenon DEF diffie_hellman, public_key
<1>4. ClientSide(g, p)
        = [psk |-> psk, sas |-> derive_sas(psk, public_key(c), public_key(s))]
  BY Zenon, <1>1, <1>2 DEF ClientSide, initiate_pairing
<1>5. PhoneSide(g, p)
        = [psk |-> psk, sas |-> derive_sas(psk, public_key(c), public_key(s))]
  BY Zenon, <1>3 DEF PhoneSide, AwaitingSASVerification, send_pairing_response,
     parsePairingResponse, keyExchange, getSas
<1> QED BY Zenon, <1>4, <1>5

\* The hash in the phone's PairingComplete is that of the key the client sent,
\* and receive_pairing_complete accepts it.
LEMMA Confirms ==
    ASSUME NEW g, NEW p, NEW k, NEW u
    PROVE  receive_pairing_complete(ClientSide(g, p).psk,
                                    PairingComplete(g, p, k, u), k)
<1>1. ReceivedCsk(PhoneSide(g, p).psk, CskMessage(g, p, k, u)) = k
  BY Exchange
<1>2. PhoneSide(g, p).psk = ClientSide(g, p).psk
  BY Zenon, SameSecrets
<1>3. PairingComplete(g, p, k, u)
        = [success |-> TRUE,
           csk_hash |-> [key |-> ClientSide(g, p).psk, plain |-> sha256(k)]]
  BY Zenon, <1>1, <1>2
     DEF PairingComplete, Complete, createPairingComplete, encryptWithPsk,
         encrypt_with_psk, sha256
<1> QED BY <1>3 DEF receive_pairing_complete, decrypts_with_psk

\* In every session, with whichever phone, the codes on the two screens are
\* the same and the phone can decrypt and confirm any CSK the client sends.
THEOREM PairingEndsAgree == Spec => []EndsAgree
<1>1. EndsAgree
  BY Zenon, SameSecrets, Confirms DEF EndsAgree
<1> QED BY <1>1, PTL

\* The invariant holds of a daemon that has just started with no files.
LEMMA InitIInv == Init => IInv
<1> SUFFICES ASSUME Init PROVE IInv
  BY Zenon
<1>1. TypeOK
  BY Zenon, Blank DEF Init, TypeOK, PCs
<1>2. Shaped /\ Drawn /\ OnePlace /\ SlotGuarded
  BY Zenon DEF Init, Shaped, Drawn, OnePlace, SlotGuarded, InSession, NoSlot
<1> QED BY Zenon, <1>1, <1>2 DEF IInv

\* Every step keeps the variables, and what the handlers rely on, well-formed.
LEMMA TypeNext ==
    ASSUME TypeOK, Shaped, Next
    PROVE  TypeOK' /\ Shaped'
<1> USE DEF Goto, Reply, Fail
<1>0. MaxGen \in Nat /\ NoRequest \in Request /\ NoServers \in Lists
  BY Zenon, Blank, MaxGenAssumption
<1>1. ASSUME NEW c \in Conn, NEW u \in User, Arrive(c, u)
      PROVE  TypeOK' /\ Shaped'
  BY <1>0, <1>1 DEF Arrive, NewRequest, NoDaemon, NoServers, TypeOK, Shaped,
     Request, Slot, NoSlot, Daemon, Gen, Lists, diskVars,
     slotVars, phoneVars, PCs
<1>2. ASSUME NEW c \in Conn, Refused(c)
      PROVE  TypeOK' /\ Shaped'
  BY <1>0, <1>2 DEF Refused, TypeOK, Shaped, Request, Slot, NoSlot, Daemon,
     Gen, Lists, diskVars,
     slotVars, phoneVars, PCs
<1>3. ASSUME NEW c \in Conn, Reload(c)
      PROVE  TypeOK' /\ Shaped'
  <2> DEFINE d == [csk |-> IF csk \in Key THEN csk ELSE req[c].base,
                   servers |-> servers]
  <2> DEFINE r == [req[c] EXCEPT !.next = d]
  <2>1. d \in Daemon
    BY Zenon DEF TypeOK, Request, Daemon
  <2> HIDE DEF d
  <2>2. r \in Request /\ r.phone = req[c].phone /\ r.key = req[c].key
    BY <2>1 DEF TypeOK, Request
  <2>3. /\ req' = [req EXCEPT ![c] = r]
        /\ pc' = [pc EXCEPT ![c] = "installing"]
        /\ UNCHANGED <<diskVars, slotVars, live, phoneVars>>
    BY Zenon, <1>3 DEF Reload, TypeOK, d
  <2> HIDE DEF r
  <2> QED
    BY <2>2, <2>3 DEF TypeOK, Shaped, Request, Slot, NoSlot, Daemon, Gen,
       Lists, diskVars,
     slotVars, phoneVars, PCs
<1>4. ASSUME NEW c \in Conn, Install(c)
      PROVE  TypeOK' /\ Shaped'
  BY <1>0, <1>4 DEF Install, TypeOK, Shaped, Request, Slot, NoSlot, Daemon,
     Gen, Lists, diskVars,
     slotVars, phoneVars, PCs
<1>5. ASSUME NEW c \in Conn, StartPairing(c)
      PROVE  TypeOK' /\ Shaped'
  BY <1>0, <1>5 DEF StartPairing, TypeOK, Shaped, Request, Slot, NoSlot,
     Daemon, Gen, Lists, diskVars,
     slotVars, phoneVars, PCs
<1>6. ASSUME NEW c \in Conn, NEW port \in Gen, WaitForPairing(c, port)
      PROVE  TypeOK' /\ Shaped'
  <2>1. CASE Matches("pending", port)
    <3> DEFINE r == [req[c] EXCEPT !.gen = slot.gen]
    <3>1. r \in Request /\ r.key = req[c].key
      BY DEF TypeOK, Request, Slot
    <3>2. /\ req' = [req EXCEPT ![c] = r]
          /\ pc' = [pc EXCEPT ![c] = "accepting"]
          /\ slot' = NoSlot
          /\ UNCHANGED <<diskVars, nextGen, timers, live, phoneVars>>
      BY Zenon, <1>6, <2>1 DEF WaitForPairing, TypeOK
    <3> HIDE DEF r
    <3> QED
      BY <3>1, <3>2, <1>0 DEF TypeOK, Shaped, Request, Slot, NoSlot,
         Daemon, Gen, Lists, diskVars,
     slotVars, phoneVars, PCs
  <2>2. CASE ~ Matches("pending", port)
    <3>1. /\ req' = [req EXCEPT ![c] = NoRequest]
          /\ pc' = [pc EXCEPT ![c] = "idle"]
          /\ UNCHANGED <<slot, diskVars, nextGen, timers, live, phoneVars>>
      BY Zenon, <1>6, <2>2 DEF WaitForPairing
    <3> QED
      BY <3>1, <1>0 DEF TypeOK, Shaped, Request, Slot, NoSlot, Daemon,
         Gen, Lists, diskVars,
     slotVars, phoneVars, PCs
  <2> QED BY Zenon, <2>1, <2>2
<1>7. ASSUME NEW c \in Conn, NEW port \in Gen, CompletePairing(c, port)
      PROVE  TypeOK' /\ Shaped'
  <2>1. CASE Matches("active", port)
    <3> DEFINE r == [req[c] EXCEPT !.gen = slot.gen, !.phone = slot.phone]
    <3>1. r \in Request /\ r.phone \in Phone /\ r.key = req[c].key
      BY ZenonT(30), <2>1 DEF Matches, TypeOK, Shaped, Request, Slot, Gen
    <3>2. /\ req' = [req EXCEPT ![c] = r]
          /\ pc' = [pc EXCEPT ![c] = "taken"]
          /\ slot' = NoSlot
          /\ UNCHANGED <<diskVars, nextGen, timers, live, phoneVars>>
      BY ZenonT(30), <1>7, <2>1 DEF CompletePairing, TypeOK
    <3> HIDE DEF r
    <3> QED
      BY <3>1, <3>2, <1>0 DEF TypeOK, Shaped, Request, Slot, NoSlot,
         Daemon, Gen, Lists, diskVars,
     slotVars, phoneVars, PCs
  <2>2. CASE ~ Matches("active", port)
    BY ZenonT(30), <1>7, <2>2 DEF CompletePairing, TypeOK, Shaped, Request, Slot,
       NoSlot, Daemon, Gen, Lists, diskVars,
     slotVars, phoneVars, PCs
  <2> QED BY Zenon, <2>1, <2>2
<1>8. ASSUME NEW c \in Conn, NEW p \in Phone, Accepted(c, p)
      PROVE  TypeOK' /\ Shaped'
  <2> DEFINE r == [req[c] EXCEPT !.phone = p]
  <2>1. r \in Request /\ r.phone \in Phone /\ r.key = req[c].key
    BY <1>8 DEF TypeOK, Request
  <2>2. /\ req' = [req EXCEPT ![c] = r]
        /\ pc' = [pc EXCEPT ![c] = "handshake"]
        /\ UNCHANGED <<diskVars, slotVars, live, phoneVars>>
    BY Zenon, <1>8 DEF Accepted, TypeOK
  <2> HIDE DEF r
  <2> QED
    BY <2>1, <2>2 DEF TypeOK, Shaped, Request, Slot, NoSlot, Daemon, Gen,
       Lists, diskVars,
     slotVars, phoneVars, PCs
<1>9. ASSUME NEW c \in Conn, WaitFails(c)
      PROVE  TypeOK' /\ Shaped'
  BY <1>0, <1>9 DEF WaitFails, TypeOK, Shaped, Request, Slot, NoSlot,
     Daemon, Gen, Lists, diskVars,
     slotVars, phoneVars, PCs
<1>10. ASSUME NEW c \in Conn, HandshakeDone(c)
      PROVE  TypeOK' /\ Shaped'
  BY <1>0, <1>10, Exchange DEF HandshakeDone, TypeOK, Shaped, Request, Slot, NoSlot,
     Daemon, Gen, Lists, diskVars,
     slotVars, phoneVars, PCs
<1>11. ASSUME NEW c \in Conn, NEW k \in Key, LoadCsk(c, k)
      PROVE  TypeOK' /\ Shaped'
  <2>1. CASE csk = Torn
    BY <1>11, <2>1 DEF LoadCsk, TypeOK, Shaped, Request, Slot, NoSlot,
       Daemon, Gen, Lists, diskVars,
     slotVars, phoneVars, PCs
  <2>2. CASE csk # Torn
    <3>1. /\ req' = [req EXCEPT ![c].key = k]
          /\ pc' = [pc EXCEPT ![c] = "finishing"]
          /\ used' \subseteq Key
          /\ UNCHANGED <<csk, servers, removed, slotVars, live,
                         phoneVars>>
      BY Zenon, <1>11, <2>2 DEF LoadCsk, TypeOK
    <3>2. req' \in [Conn -> Request]
      BY <3>1 DEF TypeOK, Request
    <3>3. TypeOK'
      BY Zenon, <3>1, <3>2, <1>11 DEF TypeOK, PCs, slotVars, phoneVars
    <3>4. Shaped'
      BY SMTT(30), <3>1, <1>11 DEF LoadCsk, TypeOK, Shaped, Request, slotVars
    <3> QED BY Zenon, <3>3, <3>4
  <2> QED BY Zenon, <2>1, <2>2
<1>12. ASSUME NEW c \in Conn, PhoneConfirms(c)
      PROVE  TypeOK' /\ Shaped'
  BY SMTT(30), <1>0, <1>12, Exchange
     DEF PhoneConfirms, TypeOK, Shaped, Request, Slot, NoSlot,
     Daemon, Gen, Lists, diskVars,
     slotVars, phoneVars, PCs
<1>13. ASSUME NEW c \in Conn, FinishPairing(c)
      PROVE  TypeOK' /\ Shaped'
  BY <1>0, <1>13 DEF FinishPairing, TypeOK, Shaped, Request, Slot, NoSlot,
     Daemon, Gen, Lists, diskVars,
     slotVars, phoneVars, PCs
<1>14. ASSUME NEW c \in Conn, FinishFails(c)
      PROVE  TypeOK' /\ Shaped'
  BY <1>0, <1>14 DEF FinishFails, TypeOK, Shaped, Request, Slot, NoSlot,
     Daemon, Gen, Lists, diskVars,
     slotVars, phoneVars, PCs
<1>15. ASSUME NEW c \in Conn, SaveCsk(c)
      PROVE  TypeOK' /\ Shaped'
  BY <1>0, <1>15 DEF SaveCsk, TypeOK, Shaped, Request, Slot, NoSlot, Daemon,
     Gen, Lists, diskVars,
     slotVars, phoneVars, PCs
<1>16. ASSUME NEW c \in Conn, AddLoad(c)
      PROVE  TypeOK' /\ Shaped'
  <2> DEFINE r == [req[c] EXCEPT !.list = servers]
  <2>1. r \in Request /\ r.phone \in Phone /\ r.key = req[c].key
    BY SMTT(30), <1>16 DEF TypeOK, Request, AddLoad, Shaped
  <2>2. /\ req' = [req EXCEPT ![c] = r]
        /\ pc' = [pc EXCEPT ![c] = "inserting"]
        /\ UNCHANGED <<diskVars, slotVars, live, phoneVars>>
    BY Zenon, <1>16 DEF AddLoad, TypeOK
  <2> HIDE DEF r
  <2> QED
    BY <2>1, <2>2 DEF TypeOK, Shaped, Request, Slot, NoSlot, Daemon, Gen,
       Lists, diskVars,
     slotVars, phoneVars, PCs
<1>17. ASSUME NEW c \in Conn, AddPairedServer(c)
      PROVE  TypeOK' /\ Shaped'
  BY SMTT(30), <1>0, <1>17 DEF AddPairedServer, TypeOK, Shaped, Request, Slot, NoSlot,
     Daemon, Gen, Lists, diskVars,
     slotVars, phoneVars, PCs
<1>18. ASSUME NEW c \in Conn, NEW p \in Phone, RemoveLoad(c, p)
      PROVE  TypeOK' /\ Shaped'
  <2> DEFINE r == [req[c] EXCEPT !.list = servers, !.phone = p]
  <2>1. r \in Request /\ r.phone \in Phone /\ r.key = req[c].key
    BY ZenonT(30) DEF TypeOK, Request
  <2>2. /\ req' = [req EXCEPT ![c] = r]
        /\ pc' = [pc EXCEPT ![c] = "deleting"]
        /\ UNCHANGED <<diskVars, slotVars, live, phoneVars>>
    BY ZenonT(30), <1>18 DEF RemoveLoad, TypeOK
  <2> HIDE DEF r
  <2> QED
    BY <2>1, <2>2 DEF TypeOK, Shaped, Request, Slot, NoSlot, Daemon, Gen,
       Lists, diskVars,
     slotVars, phoneVars, PCs
<1>19. ASSUME NEW c \in Conn, RemoveDevice(c)
      PROVE  TypeOK' /\ Shaped'
  <2>1. servers' \in Lists
    BY <1>19 DEF RemoveDevice, TypeOK, Request, Lists
  <2>2. removed' \subseteq Phone \X User
    BY SMTT(30), <1>19 DEF RemoveDevice, TypeOK, Shaped, Request
  <2> QED
    BY SMTT(30), <1>19, <2>1, <2>2 DEF RemoveDevice, TypeOK, Shaped, Request, Slot,
       NoSlot, Daemon, Gen, Lists, diskVars,
     slotVars, phoneVars, PCs
<1>20. ASSUME NEW c \in Conn, NEW ok \in BOOLEAN, RotateClear(c, ok)
      PROVE  TypeOK' /\ Shaped'
  BY SMTT(30), <1>0, <1>20 DEF RotateClear, TypeOK, Shaped, Request, Slot, NoSlot,
     Daemon, Gen, Lists, diskVars,
     slotVars, phoneVars, PCs
<1>21. ASSUME NEW c \in Conn, NEW k \in Key, RotateCsk(c, k)
      PROVE  TypeOK' /\ Shaped'
  BY SMTT(30), <1>0, <1>21 DEF RotateCsk, TypeOK, Shaped, Request, Slot, NoSlot,
     Daemon, Gen, Lists, diskVars,
     slotVars, phoneVars, PCs
<1>22. ASSUME NEW c \in Conn, SaveConfig(c)
      PROVE  TypeOK' /\ Shaped'
  BY SMTT(30), <1>0, <1>22 DEF SaveConfig, TypeOK, Shaped, Request, Slot, NoSlot,
     Daemon, Gen, Lists, diskVars,
     slotVars, phoneVars, PCs
<1>23. ASSUME NEW c \in Conn, IOFails(c)
      PROVE  TypeOK' /\ Shaped'
  BY SMTT(30), <1>0, <1>23 DEF IOFails, TypeOK, Shaped, Request, Slot, NoSlot, Daemon,
     Gen, Lists, diskVars,
     slotVars, phoneVars, PCs
<1>24. ASSUME NEW c \in Conn, GenerateFails(c)
      PROVE  TypeOK' /\ Shaped'
  BY SMTT(30), <1>0, <1>24 DEF GenerateFails, TypeOK, Shaped, Request, Slot, NoSlot,
     Daemon, Gen, Lists, diskVars,
     slotVars, phoneVars, PCs
<1>25. ASSUME NEW kind \in {"pending", "active"}, NEW g \in Gen, TimerFires(kind, g)
      PROVE  TypeOK' /\ Shaped'
  BY SMTT(30), <1>0, <1>25 DEF TimerFires, TypeOK, Shaped, Request, Slot, NoSlot,
     Daemon, Gen, Lists, diskVars,
     slotVars, phoneVars, PCs
<1>26. ASSUME NEW tear \in BOOLEAN, Crash(tear)
      PROVE  TypeOK' /\ Shaped'
  BY SMTT(30), <1>0, <1>26 DEF Crash, OnDisk, TypeOK, Shaped, Request, Slot, NoSlot,
     Daemon, Gen, Lists, diskVars,
     slotVars, phoneVars, PCs
<1>27. ASSUME NEW p \in Phone, NEW k \in Key, PhoneStores(p, k)
      PROVE  TypeOK' /\ Shaped'
  BY SMTT(30), <1>0, <1>27 DEF PhoneStores, TypeOK, Shaped, Request, Slot, NoSlot,
     Daemon, Gen, Lists, diskVars,
     slotVars, phoneVars, PCs
<1>28. ASSUME NEW p \in Phone, NEW k \in Key, PhoneLoses(p, k)
      PROVE  TypeOK' /\ Shaped'
  BY SMTT(30), <1>0, <1>28 DEF PhoneLoses, TypeOK, Shaped, Request, Slot, NoSlot,
     Daemon, Gen, Lists, diskVars,
     slotVars, phoneVars, PCs
<1>29. ASSUME NEW p \in Phone, PhoneForgets(p)
      PROVE  TypeOK' /\ Shaped'
  BY Zenon, <1>0, <1>29 DEF PhoneForgets, TypeOK, Shaped, Request, Slot, NoSlot,
     Daemon, Gen, Lists, diskVars,
     slotVars, phoneVars, PCs
<1>30. ASSUME NEW c \in Conn, Handler(c)
      PROVE  TypeOK' /\ Shaped'
  <2>1. CASE Pairing(c)
    BY Zenon, <2>1, <1>5, <1>6, <1>7, <1>8, <1>9, <1>10, <1>11, <1>12, <1>13,
       <1>14, <1>15, <1>16, <1>17 DEF Pairing
  <2>2. CASE Maintenance(c)
    BY Zenon, <2>2, <1>18, <1>19, <1>20, <1>21, <1>22, <1>23, <1>24 DEF Maintenance
  <2> QED
    BY Zenon, <1>30, <2>1, <2>2, <1>1, <1>2, <1>3, <1>4 DEF Handler
<1> QED
  BY Zenon, <1>30, <1>25, <1>26, <1>27, <1>28, <1>29 DEF Next

\* Every step keeps each session in one place and guarded by its own timer.
LEMMA SlotNext ==
    ASSUME TypeOK, Drawn, OnePlace, SlotGuarded, Next
    PROVE  Drawn' /\ OnePlace' /\ SlotGuarded'
<1> USE DEF Goto, Reply, Fail
<1>0. MaxGen \in Nat
  BY SMTT(30), MaxGenAssumption
<1>1. ASSUME NEW c \in Conn, NEW u \in User, Arrive(c, u)
      PROVE  Drawn' /\ OnePlace' /\ SlotGuarded'
  BY SMTT(30), <1>0, <1>1 DEF Arrive, Drawn, OnePlace, SlotGuarded, InSession, TypeOK,
     Slot, Request, NoSlot,
     Gen, NoRequest, NewRequest, diskVars, slotVars, phoneVars
<1>2. ASSUME NEW c \in Conn, Refused(c)
      PROVE  Drawn' /\ OnePlace' /\ SlotGuarded'
  BY <1>0, <1>2 DEF Refused, Drawn, OnePlace, SlotGuarded, InSession,
     TypeOK, Slot, Request, NoSlot,
     Gen, NoRequest, NewRequest, diskVars, slotVars, phoneVars
<1>3. ASSUME NEW c \in Conn, Reload(c)
      PROVE  Drawn' /\ OnePlace' /\ SlotGuarded'
  BY SMTT(30), <1>0, <1>3 DEF Reload, Drawn, OnePlace, SlotGuarded, InSession, TypeOK,
     Slot, Request, NoSlot,
     Gen, NoRequest, NewRequest, diskVars, slotVars, phoneVars
<1>4. ASSUME NEW c \in Conn, Install(c)
      PROVE  Drawn' /\ OnePlace' /\ SlotGuarded'
  BY <1>0, <1>4 DEF Install, Drawn, OnePlace, SlotGuarded, InSession,
     TypeOK, Slot, Request, NoSlot,
     Gen, NoRequest, NewRequest, diskVars, slotVars, phoneVars
<1>5. ASSUME NEW c \in Conn, StartPairing(c)
      PROVE  Drawn' /\ OnePlace' /\ SlotGuarded'
  <2>1. CASE slot.kind = "none"
    BY SMTT(30), <1>0, <1>5, <2>1 DEF StartPairing, Drawn, OnePlace, SlotGuarded,
       InSession, TypeOK, Slot, Request, NoSlot,
     Gen, NoRequest, NewRequest, diskVars, slotVars, phoneVars
  <2>2. CASE slot.kind # "none"
    BY <1>0, <1>5, <2>2 DEF StartPairing, Drawn, OnePlace, SlotGuarded,
       InSession, TypeOK, Slot, Request, NoSlot,
     Gen, NoRequest, NewRequest, diskVars, slotVars, phoneVars
  <2> QED BY SMTT(30), <2>1, <2>2
<1>6. ASSUME NEW c \in Conn, NEW port \in Gen, WaitForPairing(c, port)
      PROVE  Drawn' /\ OnePlace' /\ SlotGuarded'
  <2>1. CASE Matches("pending", port)
    <3>1. /\ req' = [req EXCEPT ![c].gen = slot.gen]
          /\ pc' = [pc EXCEPT ![c] = "accepting"]
          /\ slot' = NoSlot
          /\ slot.kind = "pending"
          /\ UNCHANGED <<nextGen, timers>>
      BY SMTT(30), <1>6, <2>1 DEF WaitForPairing, Matches
    <3> QED
      BY <3>1, <1>0 DEF Drawn, OnePlace, SlotGuarded, InSession, TypeOK,
         Slot, Request, NoSlot,
     Gen, NoRequest, NewRequest, diskVars, slotVars, phoneVars
  <2>2. CASE ~ Matches("pending", port)
    <3>1. /\ req' = [req EXCEPT ![c] = NoRequest]
          /\ pc' = [pc EXCEPT ![c] = "idle"]
          /\ UNCHANGED <<slot, nextGen, timers>>
      BY Zenon, <1>6, <2>2 DEF WaitForPairing
    <3> QED
      BY <3>1, <1>0 DEF Drawn, OnePlace, SlotGuarded, InSession, TypeOK,
         Slot, Request, NoSlot,
     Gen, NoRequest, NewRequest, diskVars, slotVars, phoneVars
  <2> QED BY Zenon, <2>1, <2>2
<1>7. ASSUME NEW c \in Conn, NEW port \in Gen, CompletePairing(c, port)
      PROVE  Drawn' /\ OnePlace' /\ SlotGuarded'
  BY SMTT(30), <1>0, <1>7 DEF CompletePairing, Matches, Drawn, OnePlace, SlotGuarded,
     InSession, TypeOK, Slot, Request, NoSlot,
     Gen, NoRequest, NewRequest, diskVars, slotVars, phoneVars
<1>8. ASSUME NEW c \in Conn, NEW p \in Phone, Accepted(c, p)
      PROVE  Drawn' /\ OnePlace' /\ SlotGuarded'
  BY <1>0, <1>8 DEF Accepted, Drawn, OnePlace, SlotGuarded, InSession,
     TypeOK, Slot, Request, NoSlot,
     Gen, NoRequest, NewRequest, diskVars, slotVars, phoneVars
<1>9. ASSUME NEW c \in Conn, WaitFails(c)
      PROVE  Drawn' /\ OnePlace' /\ SlotGuarded'
  BY SMTT(30), <1>0, <1>9 DEF WaitFails, Drawn, OnePlace, SlotGuarded, InSession,
     TypeOK, Slot, Request, NoSlot,
     Gen, NoRequest, NewRequest, diskVars, slotVars, phoneVars
<1>10. ASSUME NEW c \in Conn, HandshakeDone(c)
      PROVE  Drawn' /\ OnePlace' /\ SlotGuarded'
  <2>1. CASE slot.kind = "none"
    BY SMTT(30), <1>0, <1>10, <2>1 DEF HandshakeDone, Drawn, OnePlace, SlotGuarded,
       InSession, TypeOK, Slot, Request, NoSlot,
     Gen, NoRequest, NewRequest, diskVars, slotVars, phoneVars
  <2>2. CASE slot.kind # "none"
    BY <1>0, <1>10, <2>2 DEF HandshakeDone, Drawn, OnePlace, SlotGuarded,
       InSession, TypeOK, Slot, Request, NoSlot,
     Gen, NoRequest, NewRequest, diskVars, slotVars, phoneVars
  <2> QED BY Zenon, <2>1, <2>2
<1>11. ASSUME NEW c \in Conn, NEW k \in Key, LoadCsk(c, k)
      PROVE  Drawn' /\ OnePlace' /\ SlotGuarded'
  BY SMTT(30), <1>0, <1>11 DEF LoadCsk, Drawn, OnePlace, SlotGuarded, InSession,
     TypeOK, Slot, Request, NoSlot,
     Gen, NoRequest, NewRequest, diskVars, slotVars, phoneVars
<1>12. ASSUME NEW c \in Conn, PhoneConfirms(c)
      PROVE  Drawn' /\ OnePlace' /\ SlotGuarded'
  BY SMTT(30), <1>0, <1>12 DEF PhoneConfirms, Drawn, OnePlace, SlotGuarded, InSession,
     TypeOK, Slot, Request, NoSlot,
     Gen, NoRequest, NewRequest, diskVars, slotVars, phoneVars
<1>13. ASSUME NEW c \in Conn, FinishPairing(c)
      PROVE  Drawn' /\ OnePlace' /\ SlotGuarded'
  BY SMTT(30), <1>0, <1>13 DEF FinishPairing, Drawn, OnePlace, SlotGuarded, InSession,
     TypeOK, Slot, Request, NoSlot,
     Gen, NoRequest, NewRequest, diskVars, slotVars, phoneVars
<1>14. ASSUME NEW c \in Conn, FinishFails(c)
      PROVE  Drawn' /\ OnePlace' /\ SlotGuarded'
  BY SMTT(30), <1>0, <1>14 DEF FinishFails, Drawn, OnePlace, SlotGuarded, InSession,
     TypeOK, Slot, Request, NoSlot,
     Gen, NoRequest, NewRequest, diskVars, slotVars, phoneVars
<1>15. ASSUME NEW c \in Conn, SaveCsk(c)
      PROVE  Drawn' /\ OnePlace' /\ SlotGuarded'
  BY <1>0, <1>15 DEF SaveCsk, Drawn, OnePlace, SlotGuarded, InSession,
     TypeOK, Slot, Request, NoSlot,
     Gen, NoRequest, NewRequest, diskVars, slotVars, phoneVars
<1>16. ASSUME NEW c \in Conn, AddLoad(c)
      PROVE  Drawn' /\ OnePlace' /\ SlotGuarded'
  BY SMTT(30), <1>0, <1>16 DEF AddLoad, Drawn, OnePlace, SlotGuarded, InSession,
     TypeOK, Slot, Request, NoSlot,
     Gen, NoRequest, NewRequest, diskVars, slotVars, phoneVars
<1>17. ASSUME NEW c \in Conn, AddPairedServer(c)
      PROVE  Drawn' /\ OnePlace' /\ SlotGuarded'
  BY <1>0, <1>17 DEF AddPairedServer, Drawn, OnePlace, SlotGuarded,
     InSession, TypeOK, Slot, Request, NoSlot,
     Gen, NoRequest, NewRequest, diskVars, slotVars, phoneVars
<1>18. ASSUME NEW c \in Conn, NEW p \in Phone, RemoveLoad(c, p)
      PROVE  Drawn' /\ OnePlace' /\ SlotGuarded'
  BY SMTT(30), <1>0, <1>18 DEF RemoveLoad, Drawn, OnePlace, SlotGuarded, InSession,
     TypeOK, Slot, Request, NoSlot,
     Gen, NoRequest, NewRequest, diskVars, slotVars, phoneVars
<1>19. ASSUME NEW c \in Conn, RemoveDevice(c)
      PROVE  Drawn' /\ OnePlace' /\ SlotGuarded'
  BY SMTT(30), <1>0, <1>19 DEF RemoveDevice, Drawn, OnePlace, SlotGuarded, InSession,
     TypeOK, Slot, Request, NoSlot,
     Gen, NoRequest, NewRequest, diskVars, slotVars, phoneVars
<1>20. ASSUME NEW c \in Conn, NEW ok \in BOOLEAN, RotateClear(c, ok)
      PROVE  Drawn' /\ OnePlace' /\ SlotGuarded'
  BY SMTT(30), <1>0, <1>20 DEF RotateClear, Drawn, OnePlace, SlotGuarded, InSession,
     TypeOK, Slot, Request, NoSlot,
     Gen, NoRequest, NewRequest, diskVars, slotVars, phoneVars
<1>21. ASSUME NEW c \in Conn, NEW k \in Key, RotateCsk(c, k)
      PROVE  Drawn' /\ OnePlace' /\ SlotGuarded'
  BY SMTT(30), <1>0, <1>21 DEF RotateCsk, Drawn, OnePlace, SlotGuarded, InSession,
     TypeOK, Slot, Request, NoSlot,
     Gen, NoRequest, NewRequest, diskVars, slotVars, phoneVars
<1>22. ASSUME NEW c \in Conn, SaveConfig(c)
      PROVE  Drawn' /\ OnePlace' /\ SlotGuarded'
  BY SMTT(30), <1>0, <1>22 DEF SaveConfig, Drawn, OnePlace, SlotGuarded, InSession,
     TypeOK, Slot, Request, NoSlot,
     Gen, NoRequest, NewRequest, diskVars, slotVars, phoneVars
<1>23. ASSUME NEW c \in Conn, IOFails(c)
      PROVE  Drawn' /\ OnePlace' /\ SlotGuarded'
  BY SMTT(30), <1>0, <1>23 DEF IOFails, Drawn, OnePlace, SlotGuarded, InSession,
     TypeOK, Slot, Request, NoSlot,
     Gen, NoRequest, NewRequest, diskVars, slotVars, phoneVars
<1>24. ASSUME NEW c \in Conn, GenerateFails(c)
      PROVE  Drawn' /\ OnePlace' /\ SlotGuarded'
  BY SMTT(30), <1>0, <1>24 DEF GenerateFails, Drawn, OnePlace, SlotGuarded, InSession,
     TypeOK, Slot, Request, NoSlot,
     Gen, NoRequest, NewRequest, diskVars, slotVars, phoneVars
<1>25. ASSUME NEW kind \in {"pending", "active"}, NEW g \in Gen, TimerFires(kind, g)
      PROVE  Drawn' /\ OnePlace' /\ SlotGuarded'
  BY SMTT(30), <1>0, <1>25 DEF TimerFires, Drawn, OnePlace, SlotGuarded, InSession,
     TypeOK, Slot, Request, NoSlot,
     Gen, NoRequest, NewRequest, diskVars, slotVars, phoneVars
<1>26. ASSUME NEW tear \in BOOLEAN, Crash(tear)
      PROVE  Drawn' /\ OnePlace' /\ SlotGuarded'
  BY SMTT(30), <1>0, <1>26 DEF Crash, Drawn, OnePlace, SlotGuarded, InSession, TypeOK,
     Slot, Request, NoSlot,
     Gen, NoRequest, NewRequest, diskVars, slotVars, phoneVars
<1>27. ASSUME NEW p \in Phone, NEW k \in Key, PhoneStores(p, k)
      PROVE  Drawn' /\ OnePlace' /\ SlotGuarded'
  BY SMTT(30), <1>0, <1>27 DEF PhoneStores, Drawn, OnePlace, SlotGuarded, InSession,
     TypeOK, Slot, Request, NoSlot,
     Gen, NoRequest, NewRequest, diskVars, slotVars, phoneVars
<1>28. ASSUME NEW p \in Phone, NEW k \in Key, PhoneLoses(p, k)
      PROVE  Drawn' /\ OnePlace' /\ SlotGuarded'
  BY SMTT(30), <1>0, <1>28 DEF PhoneLoses, Drawn, OnePlace, SlotGuarded, InSession,
     TypeOK, Slot, Request, NoSlot,
     Gen, NoRequest, NewRequest, diskVars, slotVars, phoneVars
<1>29. ASSUME NEW p \in Phone, PhoneForgets(p)
      PROVE  Drawn' /\ OnePlace' /\ SlotGuarded'
  BY Zenon, <1>0, <1>29 DEF PhoneForgets, Drawn, OnePlace, SlotGuarded, InSession,
     TypeOK, Slot, Request, NoSlot,
     Gen, NoRequest, NewRequest, diskVars, slotVars, phoneVars
<1>30. ASSUME NEW c \in Conn, Handler(c)
      PROVE  Drawn' /\ OnePlace' /\ SlotGuarded'
  <2>1. CASE Pairing(c)
    BY Zenon, <2>1, <1>5, <1>6, <1>7, <1>8, <1>9, <1>10, <1>11, <1>12, <1>13,
       <1>14, <1>15, <1>16, <1>17 DEF Pairing
  <2>2. CASE Maintenance(c)
    BY Zenon, <2>2, <1>18, <1>19, <1>20, <1>21, <1>22, <1>23, <1>24 DEF Maintenance
  <2> QED
    BY SMTT(30), <1>30, <2>1, <2>2, <1>1, <1>2, <1>3, <1>4 DEF Handler
<1> QED
  BY Zenon, <1>30, <1>25, <1>26, <1>27, <1>28, <1>29 DEF Next

\* Every step keeps the inductive invariant.
LEMMA NextIInv ==
    ASSUME IInv, [Next]_vars
    PROVE  IInv'
<1>1. CASE Next
  BY SMTT(30), <1>1, TypeNext, SlotNext DEF IInv
<1>2. CASE UNCHANGED vars
  BY Zenon, <1>2 DEF vars, IInv, TypeOK, Shaped, Drawn, OnePlace, SlotGuarded, InSession
<1> QED BY Zenon, <1>1, <1>2

\* The inductive invariant holds throughout.
LEMMA Inductive == Spec => []IInv
  BY InitIInv, NextIInv, PTL DEF Spec

\* Type correctness of the administration side, whatever the number of
\* connections, phones, users, keys and sessions.
THEOREM TypeCorrect == Spec => []TypeOK
<1>1. IInv => TypeOK
  BY Zenon DEF IInv
<1> QED BY Inductive, <1>1, PTL

\* No two requests ever work on the same pairing session, and none on one that
\* is still in the slot (the guard.take() of WaitForPairing and CompletePairing).
THEOREM SessionInOnePlace == Spec => []OnePlace
<1>1. IInv => OnePlace
  BY Zenon DEF IInv
<1> QED BY Inductive, <1>1, PTL

\* The session in the slot always has its own clean-up task asleep.
THEOREM SlotHasTimer == Spec => []SlotGuarded
<1>1. IInv => SlotGuarded
  BY Zenon DEF IInv
<1> QED BY Inductive, <1>1, PTL

-----------------------------------------------------------------------------

Displaced ==
    slot.kind # "none" /\ slot' # slot =>
      /\ slot' = NoSlot
      /\ \/ \E c \in Conn : Taken(c)
         \/ <<slot.kind, slot.gen>> \in timers \ timers'
         \/ nextGen' = 0 /\ \A c \in Conn : pc'[c] = "idle"

\* What a step may do to an occupied slot.
LEMMA StepDisplaces ==
    ASSUME TypeOK, [Next]_vars
    PROVE  Displaced
<1> USE DEF Goto, Reply, Fail
<1>1. ASSUME NEW c \in Conn, StartPairing(c) \/ HandshakeDone(c)
      PROVE  Displaced
  BY Zenon, <1>1 DEF StartPairing, HandshakeDone, Displaced
<1>2. ASSUME NEW c \in Conn, NEW port \in Gen,
             WaitForPairing(c, port) \/ CompletePairing(c, port)
      PROVE  Displaced
  <2>1. ASSUME slot' # slot
        PROVE  Taken(c) /\ slot' = NoSlot
    <3>1. CASE WaitForPairing(c, port)
      BY <3>1, <2>1 DEF WaitForPairing, Taken, TypeOK, Request
    <3>2. CASE CompletePairing(c, port)
      BY <3>2, <2>1 DEF CompletePairing, Taken, TypeOK, Request
    <3> QED BY Zenon, <1>2, <3>1, <3>2
  <2> QED BY Zenon, <2>1 DEF Displaced
<1>3. ASSUME NEW c \in Conn, Handler(c)
      PROVE  Displaced
  <2>1. CASE Pairing(c)
    <3>1. ASSUME NEW p \in Phone, Accepted(c, p)
          PROVE  slot' = slot
      BY Zenon, <3>1 DEF Accepted, slotVars
    <3>2. ASSUME NEW k \in Key, LoadCsk(c, k)
          PROVE  slot' = slot
      BY Zenon, <3>2 DEF LoadCsk, slotVars
    <3>3. ASSUME \/ WaitFails(c) \/ PhoneConfirms(c) \/ FinishPairing(c)
                 \/ FinishFails(c) \/ SaveCsk(c) \/ AddLoad(c)
                 \/ AddPairedServer(c)
          PROVE  slot' = slot
      BY Zenon, <3>3 DEF WaitFails, PhoneConfirms, FinishPairing, FinishFails,
         SaveCsk, AddLoad, AddPairedServer, slotVars
    <3>4. slot' = slot => Displaced
      BY Zenon DEF Displaced
    <3> QED
      BY Zenon, <2>1, <1>1, <1>2, <3>1, <3>2, <3>3, <3>4 DEF Pairing
  <2>2. CASE Maintenance(c)
    BY Zenon, <2>2 DEF Maintenance, RemoveLoad, RemoveDevice, RotateClear, RotateCsk,
       SaveConfig, IOFails, GenerateFails, slotVars, Displaced
  <2>3. CASE (\E u \in User : Arrive(c, u)) \/ Refused(c) \/ Reload(c) \/ Install(c)
    BY Zenon, <2>3 DEF Arrive, Refused, Reload, Install, slotVars, Displaced
  <2> QED BY Zenon, <1>3, <2>1, <2>2, <2>3 DEF Handler
<1>4. ASSUME NEW kind \in {"pending", "active"}, NEW g \in Gen,
             TimerFires(kind, g)
      PROVE  Displaced
  BY Zenon, <1>4 DEF TimerFires, Displaced
<1>5. ASSUME NEW tear \in BOOLEAN, Crash(tear)
      PROVE  Displaced
  BY Zenon, <1>5 DEF Crash, Displaced
<1>6. ASSUME NEW p \in Phone, NEW k \in Key, PhoneStores(p, k) \/ PhoneLoses(p, k)
      PROVE  Displaced
  BY Zenon, <1>6 DEF PhoneStores, PhoneLoses, slotVars, Displaced
<1>7. ASSUME NEW p \in Phone, PhoneForgets(p)
      PROVE  Displaced
  BY Zenon, <1>7 DEF PhoneForgets, slotVars, Displaced
<1>8. CASE UNCHANGED vars
  BY Zenon, <1>8 DEF vars, Displaced
<1> HIDE DEF Displaced
<1> QED BY SMTT(30), <1>3, <1>4, <1>5, <1>6, <1>7, <1>8 DEF Next

\* A session in the slot is never displaced by a late clean-up task of another
\* session or phase, by a handshake that ends late, or by a StartPairing.
THEOREM SessionsNotCutShort == Spec => NotCutShort
<1>1. TypeOK /\ [Next]_vars => [Displaced]_vars
  BY Zenon, StepDisplaces
<1> QED BY <1>1, TypeCorrect, PTL DEF Spec, NotCutShort, Displaced

-----------------------------------------------------------------------------
(* The files.  The daemon takes no lock around what an admin request reads *)
(* from them and writes back, so that what the files promise depends on    *)
(* which requests overlap.  Each theorem below names the overlap it rules  *)
(* out, and no other: with any number of connections, with crashes, and    *)
(* with files that cannot be written.                                      *)

\* One request at a time has the list of paired servers in hand to write it
\* back: between load_paired_servers and save_paired_servers of
\* add_paired_server or remove_user_from_pairing there is no other.
EditsAlone ==
    \A c, d \in Conn :
        pc[c] \in {"inserting", "deleting"} /\ pc[d] \in {"inserting", "deleting"}
            => c = d

\* A reloaded state is installed before another one is read, as if the write
\* lock were held from DaemonState::reload to the assignment.
InstallsAlone ==
    \A c, d \in Conn : pc[c] = "installing" /\ pc[d] = "installing" => c = d

\* From the CSK that a handler takes from the file, the list it loads, or the
\* list it clears, to its last write: one request at a time is in between.
Changing == {"finishing", "confirmed", "saving", "adding", "inserting", "deleting",
             "cleared"}

ChangesAlone == \A c, d \in Conn : pc[c] \in Changing /\ pc[d] \in Changing => c = d

\* A rotation goes on to its new key only with an empty list: the failure of
\* clear_paired_servers, which rotate_csk ignores, does not happen.
ClearsWork == \A c \in Conn : pc[c] = "cleared" => servers = NoServers

\* Requests do not overlap at all.
Serial == \A c, d \in Conn : pc[c] # "idle" /\ pc[d] # "idle" => c = d

\* The steps of a request leave the other connections alone.
LEMMA Local ==
    ASSUME TypeOK, NEW c \in Conn, Handler(c), NEW d \in Conn, d # c
    PROVE  pc'[d] = pc[d] /\ req'[d] = req[d]
<1> USE DEF Goto, Reply, Fail
<1>1. CASE (\E u \in User : Arrive(c, u)) \/ Refused(c) \/ Reload(c) \/ Install(c)
  BY Zenon, <1>1 DEF Arrive, Refused, Reload, Install, TypeOK
<1>2. CASE Pairing(c)
  <2>1. CASE \E port \in Gen : WaitForPairing(c, port) \/ CompletePairing(c, port)
    BY Zenon, <2>1 DEF WaitForPairing, CompletePairing, TypeOK
  <2>2. CASE \/ StartPairing(c) \/ WaitFails(c) \/ HandshakeDone(c)
             \/ \E p \in Phone : Accepted(c, p)
    BY Zenon, <2>2 DEF StartPairing, WaitFails, HandshakeDone, Accepted, TypeOK
  <2>3. CASE \/ \E k \in Key : LoadCsk(c, k)
             \/ PhoneConfirms(c) \/ FinishPairing(c) \/ FinishFails(c)
    BY Zenon, <2>3 DEF LoadCsk, PhoneConfirms, FinishPairing, FinishFails, TypeOK
  <2>4. CASE SaveCsk(c) \/ AddLoad(c) \/ AddPairedServer(c)
    BY Zenon, <2>4 DEF SaveCsk, AddLoad, AddPairedServer, TypeOK
  <2> QED BY Zenon, <1>2, <2>1, <2>2, <2>3, <2>4 DEF Pairing
<1>3. CASE Maintenance(c)
  BY Zenon, <1>3 DEF Maintenance, RemoveLoad, RemoveDevice, RotateClear, RotateCsk,
     SaveConfig, IOFails, GenerateFails, TypeOK
<1> QED BY Zenon, <1>1, <1>2, <1>3 DEF Handler

\* What a handler is about to write back lists no removed user either.
LoadedAllowed ==
    \A c \in Conn : pc[c] \in {"inserting", "deleting"} =>
        \A p \in Phone : \A u \in req[c].list[p] : <<p, u>> \notin removed

\* These are the steps that change the list, or what is to be written to it.
LEMMA EditSteps ==
    ASSUME TypeOK, NEW c \in Conn, Handler(c)
    PROVE  \/ AddLoad(c) \/ AddPairedServer(c) \/ RemoveDevice(c)
           \/ \E p \in Phone : RemoveLoad(c, p)
           \/ \E ok \in BOOLEAN : RotateClear(c, ok)
           \/ /\ UNCHANGED <<servers, removed>>
              /\ pc'[c] \notin {"inserting", "deleting"}
<1> USE DEF Goto, Reply, Fail, diskVars
<1>1. CASE (\E u \in User : Arrive(c, u)) \/ Refused(c) \/ Reload(c) \/ Install(c)
  BY Zenon, <1>1 DEF Arrive, Refused, Reload, Install, TypeOK
<1>2. CASE Pairing(c)
  <2>1. CASE \E port \in Gen : WaitForPairing(c, port) \/ CompletePairing(c, port)
    BY Zenon, <2>1 DEF WaitForPairing, CompletePairing, TypeOK
  <2>2. CASE \/ StartPairing(c) \/ WaitFails(c) \/ HandshakeDone(c)
             \/ \E p \in Phone : Accepted(c, p)
    BY Zenon, <2>2 DEF StartPairing, WaitFails, HandshakeDone, Accepted, TypeOK
  <2>3. CASE \/ \E k \in Key : LoadCsk(c, k)
             \/ PhoneConfirms(c) \/ FinishPairing(c) \/ FinishFails(c)
    BY Zenon, <2>3 DEF LoadCsk, PhoneConfirms, FinishPairing, FinishFails, TypeOK
  <2>4. CASE SaveCsk(c)
    BY Zenon, <2>4 DEF SaveCsk, TypeOK
  <2> QED BY Zenon, <1>2, <2>1, <2>2, <2>3, <2>4 DEF Pairing
<1>3. CASE Maintenance(c)
  BY Zenon, <1>3 DEF Maintenance, RotateCsk, SaveConfig, IOFails, GenerateFails, TypeOK
<1> QED BY Zenon, <1>1, <1>2, <1>3 DEF Handler

\* Every step keeps removed users off the list and off what may be written to it.
LEMMA RemovalNext ==
    ASSUME TypeOK, Shaped, RemovedStaysRemoved, LoadedAllowed, EditsAlone, Next
    PROVE  RemovedStaysRemoved' /\ LoadedAllowed'
<1> USE DEF Goto, Reply, Fail, diskVars
<1>1. ASSUME NEW c \in Conn, AddLoad(c) \/ \E p \in Phone : RemoveLoad(c, p)
      PROVE  RemovedStaysRemoved' /\ LoadedAllowed'
  <2>1. UNCHANGED <<servers, removed>> /\ req'[c].list = servers
    BY <1>1 DEF AddLoad, RemoveLoad, TypeOK, Request
  <2>2. \A d \in Conn : d # c => pc'[d] = pc[d] /\ req'[d] = req[d]
    BY Zenon, <1>1 DEF AddLoad, RemoveLoad, TypeOK
  <2> QED BY Zenon, <2>1, <2>2 DEF RemovedStaysRemoved, LoadedAllowed
<1>2. ASSUME NEW c \in Conn, AddPairedServer(c)
      PROVE  RemovedStaysRemoved' /\ LoadedAllowed'
  <2>1. \A d \in Conn : pc'[d] \in {"inserting", "deleting"} => d # c
    BY Zenon, <1>2 DEF AddPairedServer, TypeOK
  <2>2. \A d \in Conn : d # c => pc'[d] = pc[d] /\ req'[d] = req[d]
    BY Zenon, <1>2 DEF AddPairedServer, TypeOK
  <2>3. removed' \subseteq removed
    BY Zenon, <1>2 DEF AddPairedServer
  <2>4. LoadedAllowed'
    BY Zenon, <2>1, <2>2, <2>3 DEF LoadedAllowed
  <2>5. RemovedStaysRemoved'
    BY Zenon, <1>2 DEF AddPairedServer, RemovedStaysRemoved, LoadedAllowed, TypeOK, Request,
       Lists
  <2> QED BY Zenon, <2>4, <2>5
<1>3. ASSUME NEW c \in Conn, RemoveDevice(c)
      PROVE  RemovedStaysRemoved' /\ LoadedAllowed'
  <2>1. \A d \in Conn : pc'[d] \notin {"inserting", "deleting"}
    BY Zenon, <1>3 DEF RemoveDevice, EditsAlone, TypeOK
  <2> DEFINE l == req[c].list
             ph == req[c].phone
             us == req[c].user
  <2>2. ASSUME l[ph] = {} PROVE RemovedStaysRemoved'
    <3>1. UNCHANGED <<servers, removed>>
      BY Zenon, <1>3, <2>2 DEF RemoveDevice
    <3> QED BY Zenon, <3>1 DEF RemovedStaysRemoved
  <2>3. ASSUME l[ph] # {} PROVE RemovedStaysRemoved'
    <3>1. l \in [Phone -> SUBSET User] /\ ph \in Phone
      BY Zenon, <1>3 DEF RemoveDevice, TypeOK, Shaped, Request, Lists
    <3>2. \A q \in Phone : \A v \in l[q] : <<q, v>> \notin removed
      BY Zenon, <1>3 DEF RemoveDevice, LoadedAllowed
    <3>3. /\ servers' = [l EXCEPT ![ph] = l[ph] \ {us}]
          /\ removed' = removed \cup {<<ph, us>>}
      BY Zenon, <1>3, <2>3 DEF RemoveDevice
    <3> HIDE DEF l, ph, us
    <3>4. ASSUME NEW q \in Phone, NEW v \in servers'[q]
          PROVE  <<q, v>> \notin removed'
      <4>1. v \in l[q] /\ ~ (q = ph /\ v = us)
        BY Zenon, <3>1, <3>3
      <4> QED BY Zenon, <4>1, <3>2, <3>3
    <3> QED BY Zenon, <3>4 DEF RemovedStaysRemoved
  <2>4. RemovedStaysRemoved'
    BY Zenon, <2>2, <2>3
  <2> QED BY Zenon, <2>1, <2>4 DEF LoadedAllowed
<1>4. ASSUME NEW c \in Conn, NEW ok \in BOOLEAN, RotateClear(c, ok)
      PROVE  RemovedStaysRemoved' /\ LoadedAllowed'
  <2>1. removed' = removed /\ servers' \in {servers, NoServers}
    BY Zenon, <1>4 DEF RotateClear
  <2>2. UNCHANGED req /\ pc' = [pc EXCEPT ![c] = "cleared"]
    BY Zenon, <1>4 DEF RotateClear
  <2> QED BY Zenon, <2>1, <2>2 DEF RemovedStaysRemoved, LoadedAllowed, NoServers, TypeOK
<1>5. ASSUME UNCHANGED <<servers, removed, pc, req>>
      PROVE  RemovedStaysRemoved' /\ LoadedAllowed'
  BY Zenon, <1>5 DEF RemovedStaysRemoved, LoadedAllowed
<1>6. ASSUME NEW c \in Conn, Handler(c),
             UNCHANGED <<servers, removed>>, pc'[c] \notin {"inserting", "deleting"}
      PROVE  RemovedStaysRemoved' /\ LoadedAllowed'
  <2>1. \A d \in Conn : d # c => pc'[d] = pc[d] /\ req'[d] = req[d]
    BY Zenon, <1>6, Local
  <2> QED BY Zenon, <1>6, <2>1 DEF RemovedStaysRemoved, LoadedAllowed
<1>7. ASSUME NEW tear \in BOOLEAN, Crash(tear)
      PROVE  RemovedStaysRemoved' /\ LoadedAllowed'
  BY Zenon, <1>7 DEF Crash, RemovedStaysRemoved, LoadedAllowed
<1>8. ASSUME NEW c \in Conn, Handler(c)
      PROVE  RemovedStaysRemoved' /\ LoadedAllowed'
  BY Zenon, <1>1, <1>2, <1>3, <1>4, <1>6, <1>8, EditSteps
<1>9. ASSUME NEW kind \in {"pending", "active"}, NEW g \in Gen, TimerFires(kind, g)
      PROVE  UNCHANGED <<servers, removed, pc, req>>
  BY Zenon, <1>9 DEF TimerFires
<1>10. ASSUME NEW p \in Phone, NEW k \in Key,
              PhoneStores(p, k) \/ PhoneLoses(p, k) \/ PhoneForgets(p)
       PROVE  UNCHANGED <<servers, removed, pc, req>>
  BY Zenon, <1>10 DEF PhoneStores, PhoneLoses, PhoneForgets
<1>11. ASSUME NEW p \in Phone, PhoneForgets(p)
       PROVE  UNCHANGED <<servers, removed, pc, req>>
  BY Zenon, <1>11 DEF PhoneForgets
<1> QED BY Zenon, <1>5, <1>7, <1>8, <1>9, <1>10, <1>11 DEF Next

\* A user removed from a phone's entry is not on it until they pair again, if no
\* two requests have the list in hand at a time; that a rotation clears it
\* meanwhile does no harm (remove_user_from_pairing, add_paired_server).
THEOREM RemovalsLast == Spec /\ []EditsAlone => []RemovedStaysRemoved
<1>1. Init => RemovedStaysRemoved /\ LoadedAllowed
  BY Zenon DEF Init, RemovedStaysRemoved, LoadedAllowed, NoServers
<1>2. IInv /\ RemovedStaysRemoved /\ LoadedAllowed /\ EditsAlone /\ [Next]_vars
        => (RemovedStaysRemoved /\ LoadedAllowed)'
  <2> SUFFICES ASSUME IInv, RemovedStaysRemoved, LoadedAllowed, EditsAlone, [Next]_vars
               PROVE  (RemovedStaysRemoved /\ LoadedAllowed)'
    BY Zenon
  <2>1. CASE UNCHANGED vars
    BY Zenon, <2>1 DEF vars, RemovedStaysRemoved, LoadedAllowed
  <2>2. CASE Next
    BY Zenon, <2>2, RemovalNext DEF IInv
  <2> QED BY Zenon, <2>1, <2>2
<1> QED BY <1>1, <1>2, Inductive, PTL DEF Spec

\* While there is no CSK file nothing in memory holds a key that a reload
\* could fall back on.
Unkeyed ==
    csk = NoKey =>
        /\ live.csk = NoKey
        /\ \A c \in Conn : req[c].base = NoKey /\ req[c].next.csk = NoKey

\* A handler in one of these places will reload, whatever happens to it.
Bound == {"adding", "inserting", "cleared", "reloading"}

\* The live state is that of the files, or is going to be: a handler will
\* reload, or holds what is on disk and will install it.
Current ==
    csk # Torn =>
        \/ \E c \in Conn : pc[c] \in Bound
        \/ \E c \in Conn : pc[c] = "installing" /\ req[c].next = OnDisk
        \/ live = OnDisk /\ \A c \in Conn : pc[c] # "installing"

\* The keys a request may get hold of while there is no CSK file.
LEMMA UnkeyedStep ==
    ASSUME TypeOK, Shaped, NEW c \in Conn, Handler(c), csk' = NoKey
    PROVE  /\ csk = NoKey
           /\ live' \in {live, req[c].next}
           /\ req'[c].base \in {req[c].base, live.csk, NoKey}
           /\ req'[c].next.csk \in {req[c].next.csk, req[c].base, NoKey}
<1> USE DEF Goto, Reply, Fail, diskVars
<1>0. NoRequest.base = NoKey /\ NoRequest.next.csk = NoKey
  BY Zenon DEF NoRequest, NewRequest, NoDaemon
<1>1. CASE \E u \in User : Arrive(c, u)
  BY <1>1 DEF Arrive, NewRequest, NoDaemon, TypeOK
<1>2. CASE Refused(c) \/ Install(c)
  BY Zenon, <1>0, <1>2 DEF Refused, Install, TypeOK
<1>3. CASE Reload(c)
  BY <1>3, KeysDistinct DEF Reload, TypeOK, Request
<1>4. CASE Pairing(c)
  <2>1. CASE \E port \in Gen : WaitForPairing(c, port) \/ CompletePairing(c, port)
    BY <1>0, <2>1 DEF WaitForPairing, CompletePairing, TypeOK, Request
  <2>2. CASE StartPairing(c) \/ WaitFails(c) \/ HandshakeDone(c)
    BY Zenon, <1>0, <2>2 DEF StartPairing, WaitFails, HandshakeDone, TypeOK
  <2>3. CASE \/ \E p \in Phone : Accepted(c, p)
             \/ \E k \in Key : LoadCsk(c, k)
             \/ AddLoad(c)
    BY <2>3 DEF Accepted, LoadCsk, AddLoad, TypeOK, Request
  <2>4. CASE \/ PhoneConfirms(c) \/ FinishPairing(c) \/ FinishFails(c)
             \/ AddPairedServer(c)
    BY Zenon, <2>4 DEF PhoneConfirms, FinishPairing, FinishFails, AddPairedServer, TypeOK
  <2>5. CASE SaveCsk(c)
    BY Zenon, <2>5, KeysDistinct DEF SaveCsk, Shaped
  <2> QED BY Zenon, <1>4, <2>1, <2>2, <2>3, <2>4, <2>5 DEF Pairing
<1>5. CASE Maintenance(c)
  <2>1. CASE \E p \in Phone : RemoveLoad(c, p)
    BY <2>1 DEF RemoveLoad, TypeOK, Request
  <2>2. CASE \E k \in Key : RotateCsk(c, k)
    BY Zenon, <2>2, KeysDistinct DEF RotateCsk
  <2> QED
    BY Zenon, <1>5, <2>1, <2>2 DEF Maintenance, RemoveDevice, RotateClear, SaveConfig,
       IOFails, GenerateFails, TypeOK
<1> QED BY Zenon, <1>1, <1>2, <1>3, <1>4, <1>5 DEF Handler

\* A request changes the files only on its way to a reload.
LEMMA RefreshStep ==
    ASSUME TypeOK, NEW c \in Conn, Handler(c)
    PROVE  \/ pc'[c] \in Bound
           \/ Reload(c) \/ Install(c)
           \/ /\ UNCHANGED <<csk, servers, live>>
              /\ pc[c] \notin Bound \cup {"installing"}
              /\ pc'[c] # "installing"
<1> USE DEF Goto, Reply, Fail, diskVars, Bound
<1>1. CASE (\E u \in User : Arrive(c, u)) \/ Refused(c)
  BY Zenon, <1>1 DEF Arrive, Refused, TypeOK
<1>2. CASE Pairing(c)
  <2>1. CASE \E port \in Gen : WaitForPairing(c, port) \/ CompletePairing(c, port)
    BY Zenon, <2>1 DEF WaitForPairing, CompletePairing, TypeOK
  <2>2. CASE \/ StartPairing(c) \/ WaitFails(c) \/ HandshakeDone(c)
             \/ \E p \in Phone : Accepted(c, p)
    BY Zenon, <2>2 DEF StartPairing, WaitFails, HandshakeDone, Accepted, TypeOK
  <2>3. CASE \/ \E k \in Key : LoadCsk(c, k)
             \/ PhoneConfirms(c) \/ FinishPairing(c) \/ FinishFails(c)
    BY Zenon, <2>3 DEF LoadCsk, PhoneConfirms, FinishPairing, FinishFails, TypeOK
  <2>4. CASE SaveCsk(c) \/ AddLoad(c) \/ AddPairedServer(c)
    BY Zenon, <2>4 DEF SaveCsk, AddLoad, AddPairedServer, TypeOK
  <2> QED BY Zenon, <1>2, <2>1, <2>2, <2>3, <2>4 DEF Pairing
<1>3. CASE Maintenance(c)
  BY Zenon, <1>3 DEF Maintenance, RemoveLoad, RemoveDevice, RotateClear, RotateCsk,
     SaveConfig, IOFails, GenerateFails, TypeOK
<1> QED BY Zenon, <1>1, <1>2, <1>3 DEF Handler

\* Every step leaves the live state current, or about to be.
LEMMA CurrentNext ==
    ASSUME TypeOK, Shaped, Unkeyed, Current, InstallsAlone, InstallsAlone', Next
    PROVE  Unkeyed' /\ Current'
<1> USE DEF Goto, Reply, Fail, diskVars
<1>1. ASSUME NEW c \in Conn, Handler(c)
      PROVE  Unkeyed'
  <2>1. \A d \in Conn : d # c => pc'[d] = pc[d] /\ req'[d] = req[d]
    BY Zenon, <1>1, Local
  <2> QED BY Zenon, <1>1, <2>1, UnkeyedStep DEF Unkeyed
<1>2. ASSUME NEW c \in Conn, Handler(c)
      PROVE  Current'
  <2>1. \A d \in Conn : d # c => pc'[d] = pc[d] /\ req'[d] = req[d]
    BY Zenon, <1>2, Local
  <2>2. CASE pc'[c] \in Bound
    BY Zenon, <2>2 DEF Current
  <2>3. CASE Reload(c)
    <3>1. UNCHANGED <<csk, servers>> /\ pc'[c] = "installing"
      BY Zenon, <2>3 DEF Reload, TypeOK
    <3>2. req'[c].next = [csk |-> IF csk \in Key THEN csk ELSE req[c].base,
                          servers |-> servers]
      BY Zenon, <2>3 DEF Reload, TypeOK, Request
    <3>3. csk # Torn => req'[c].next = OnDisk
      BY Zenon, <3>2 DEF OnDisk, Unkeyed, TypeOK
    <3>4. OnDisk' = OnDisk
      BY Zenon, <3>1 DEF OnDisk
    <3> QED BY Zenon, <3>1, <3>3, <3>4 DEF Current
  <2>4. CASE Install(c)
    <3>1. /\ UNCHANGED <<csk, servers>> /\ live' = req[c].next
          /\ pc'[c] = "idle" /\ pc[c] = "installing"
      BY Zenon, <2>4 DEF Install, TypeOK
    <3>2. \A d \in Conn : d # c => pc[d] # "installing"
      BY Zenon, <3>1 DEF InstallsAlone
    <3>3. OnDisk' = OnDisk
      BY Zenon, <3>1 DEF OnDisk
    <3> QED BY Zenon, <2>1, <3>1, <3>2, <3>3 DEF Current, Bound
  <2>5. CASE /\ UNCHANGED <<csk, servers, live>>
             /\ pc[c] \notin Bound \cup {"installing"}
             /\ pc'[c] # "installing"
    <3>1. OnDisk' = OnDisk
      BY Zenon, <2>5 DEF OnDisk
    <3> QED BY Zenon, <2>1, <2>5, <3>1 DEF Current
  <2> QED BY Zenon, <1>2, <2>2, <2>3, <2>4, <2>5, RefreshStep
<1>3. ASSUME UNCHANGED <<csk, servers, live, pc, req>>
      PROVE  Unkeyed' /\ Current'
  BY Zenon, <1>3 DEF Unkeyed, Current, OnDisk
<1>4. ASSUME NEW tear \in BOOLEAN, Crash(tear)
      PROVE  Unkeyed' /\ Current'
  <2>1. Unkeyed'
    BY Zenon, <1>4, KeysDistinct DEF Crash, Unkeyed, OnDisk, NoRequest, NewRequest, NoDaemon
  <2>2. Current'
    BY Zenon, <1>4, KeysDistinct DEF Crash, Current, OnDisk, TypeOK
  <2> QED BY Zenon, <2>1, <2>2
<1>5. ASSUME NEW kind \in {"pending", "active"}, NEW g \in Gen, TimerFires(kind, g)
      PROVE  UNCHANGED <<csk, servers, live, pc, req>>
  BY Zenon, <1>5 DEF TimerFires
<1>6. ASSUME NEW p \in Phone, NEW k \in Key, PhoneStores(p, k) \/ PhoneLoses(p, k)
      PROVE  UNCHANGED <<csk, servers, live, pc, req>>
  BY Zenon, <1>6 DEF PhoneStores, PhoneLoses
<1>7. ASSUME NEW p \in Phone, PhoneForgets(p)
      PROVE  UNCHANGED <<csk, servers, live, pc, req>>
  BY Zenon, <1>7 DEF PhoneForgets
<1> QED BY Zenon, <1>1, <1>2, <1>3, <1>4, <1>5, <1>6, <1>7 DEF Next

\* When no admin request is in progress, sessions are given the keys and the
\* servers that are on disk, if no two requests are between their reload and
\* their install at a time; their writes may overlap in any way
\* (handle_admin_request).
THEOREM SnapshotFollowsDisk == Spec /\ []InstallsAlone => []IdleSnapshotFresh
<1>1. Init => Unkeyed /\ Current
  BY KeysDistinct DEF Init, Unkeyed, Current, OnDisk, NoRequest, NewRequest, NoDaemon
<1>2. IInv /\ Unkeyed /\ Current /\ InstallsAlone /\ InstallsAlone' /\ [Next]_vars
        => (Unkeyed /\ Current)'
  <2> SUFFICES ASSUME IInv, Unkeyed, Current, InstallsAlone, InstallsAlone', [Next]_vars
               PROVE  (Unkeyed /\ Current)'
    BY Zenon
  <2>1. CASE UNCHANGED vars
    BY Zenon, <2>1 DEF vars, Unkeyed, Current, OnDisk
  <2>2. CASE Next
    BY Zenon, <2>2, CurrentNext DEF IInv
  <2> QED BY Zenon, <2>1, <2>2
<1>3. Current => IdleSnapshotFresh
  BY Zenon DEF Current, IdleSnapshotFresh, Bound
<1> QED BY <1>1, <1>2, <1>3, Inductive, PTL DEF Spec

\* No phone is on the list before there is a CSK file.
NoneBeforeKey == csk = NoKey => servers = NoServers

\* What the handler of c has in hand agrees with the files and the phone.
InHand(c) ==
    /\ pc[c] \in {"finishing", "confirmed", "saving"} => csk \in {NoKey, req[c].key}
    /\ pc[c] \in {"adding", "inserting"} => csk \in Key /\ csk = req[c].key
    /\ pc[c] \in {"confirmed", "saving", "adding", "inserting"}
         => given[req[c].phone] = req[c].key
    /\ pc[c] \in {"inserting", "deleting"} => req[c].list = servers

\* The inductive invariant behind the agreement on keys.
KInv == KeyAgreement /\ NoneBeforeKey /\ \A c \in Conn : InHand(c)

\* These are the steps that change the files or what a handler has in hand.
LEMMA KeySteps ==
    ASSUME TypeOK, NEW c \in Conn, Handler(c)
    PROVE  \/ \E k \in Key : LoadCsk(c, k) /\ csk # Torn
           \/ PhoneConfirms(c) \/ FinishPairing(c) \/ SaveCsk(c)
           \/ AddLoad(c) \/ AddPairedServer(c)
           \/ \E p \in Phone : RemoveLoad(c, p)
           \/ RemoveDevice(c)
           \/ \E ok \in BOOLEAN : RotateClear(c, ok)
           \/ \E k \in Key : RotateCsk(c, k)
           \/ UNCHANGED <<csk, servers, given>> /\ pc'[c] \notin Changing
<1> USE DEF Goto, Reply, Fail, diskVars, phoneVars, Changing
<1>1. CASE (\E u \in User : Arrive(c, u)) \/ Refused(c) \/ Reload(c) \/ Install(c)
  BY Zenon, <1>1 DEF Arrive, Refused, Reload, Install, TypeOK
<1>2. CASE Pairing(c)
  <2>1. CASE \E port \in Gen : WaitForPairing(c, port) \/ CompletePairing(c, port)
    BY Zenon, <2>1 DEF WaitForPairing, CompletePairing, TypeOK
  <2>2. CASE \/ StartPairing(c) \/ WaitFails(c) \/ HandshakeDone(c)
             \/ \E p \in Phone : Accepted(c, p)
    BY Zenon, <2>2 DEF StartPairing, WaitFails, HandshakeDone, Accepted, TypeOK
  <2>3. CASE (\E k \in Key : LoadCsk(c, k)) \/ FinishFails(c)
    BY Zenon, <2>3 DEF LoadCsk, FinishFails, TypeOK
  <2> QED BY Zenon, <1>2, <2>1, <2>2, <2>3 DEF Pairing
<1>3. CASE Maintenance(c)
  BY Zenon, <1>3 DEF Maintenance, SaveConfig, IOFails, GenerateFails, TypeOK
<1> QED BY Zenon, <1>1, <1>2, <1>3 DEF Handler

\* Every step keeps the phones on the list agreed with the CSK file.
LEMMA KeyNext ==
    ASSUME TypeOK, Shaped, KInv, ChangesAlone, ChangesAlone', ClearsWork, Next
    PROVE  KInv'
<1> USE DEF Goto, Reply, Fail, diskVars, phoneVars
<1>0. NoKey \notin Key /\ Torn \notin Key /\ NoKey # Torn
  BY Zenon, KeysDistinct
<1>1. ASSUME NEW c \in Conn, Handler(c), pc[c] \in Changing \/ pc'[c] \in Changing,
             KeyAgreement', NoneBeforeKey', InHand(c)'
      PROVE  KInv'
  <2>1. \A d \in Conn : d # c => pc'[d] = pc[d] /\ req'[d] = req[d]
    BY Zenon, <1>1, Local
  <2>2. \A d \in Conn : d # c => pc'[d] \notin Changing
    BY Zenon, <1>1, <2>1 DEF ChangesAlone
  <2>3. \A d \in Conn : d # c => InHand(d)'
    BY Zenon, <2>2 DEF InHand, Changing
  <2> QED BY Zenon, <1>1, <2>3 DEF KInv
<1>2. ASSUME NEW c \in Conn, Handler(c), UNCHANGED <<csk, servers, given>>,
             pc'[c] \notin Changing
      PROVE  KInv'
  <2>1. \A d \in Conn : d # c => pc'[d] = pc[d] /\ req'[d] = req[d]
    BY Zenon, <1>2, Local
  <2> QED BY <1>2, <2>1 DEF KInv, KeyAgreement, NoneBeforeKey, InHand, Changing
<1>3. ASSUME NEW c \in Conn, NEW k \in Key, LoadCsk(c, k), csk # Torn
      PROVE  pc'[c] \in Changing /\ KeyAgreement' /\ NoneBeforeKey' /\ InHand(c)'
  <2>1. /\ pc' = [pc EXCEPT ![c] = "finishing"] /\ req' = [req EXCEPT ![c].key = k]
        /\ UNCHANGED <<csk, servers, given>>
        /\ csk \in {NoKey, k}
    BY Zenon, <1>3 DEF LoadCsk
  <2>2. pc'[c] = "finishing" /\ req'[c].key = k
    BY Zenon, <2>1 DEF TypeOK, Request
  <2>3. KeyAgreement' /\ NoneBeforeKey'
    BY Zenon, <2>1 DEF KInv, KeyAgreement, NoneBeforeKey
  <2>4. InHand(c)' /\ pc'[c] \in Changing
    BY Zenon, <2>1, <2>2 DEF InHand, Changing
  <2> QED BY Zenon, <2>3, <2>4
<1>4. ASSUME NEW c \in Conn, PhoneConfirms(c)
      PROVE  pc'[c] \in Changing /\ KeyAgreement' /\ NoneBeforeKey' /\ InHand(c)'
  <2>1. /\ pc[c] = "finishing" /\ pc' = [pc EXCEPT ![c] = "confirmed"]
        /\ UNCHANGED <<csk, servers, req>>
        /\ given' = [given EXCEPT ![req[c].phone] = req[c].key]
    <3>1. ReceivedCsk(PhoneSide(req[c].gen, req[c].phone).psk,
                      CskMessage(req[c].gen, req[c].phone, req[c].key, req[c].user))
            = req[c].key
      BY Exchange
    <3> QED BY Zenon, <1>4, <3>1 DEF PhoneConfirms
  <2>2. req[c].phone \in Phone /\ csk \in {NoKey, req[c].key}
    BY Zenon, <2>1 DEF Shaped, KInv, InHand
  <2>3. KeyAgreement' /\ NoneBeforeKey'
    BY Zenon, <1>0, <2>1, <2>2 DEF KInv, KeyAgreement, NoneBeforeKey, TypeOK
  <2>4. InHand(c)' /\ pc'[c] \in Changing
    BY Zenon, <2>1, <2>2 DEF InHand, Changing, TypeOK
  <2> QED BY Zenon, <2>3, <2>4
<1>5. ASSUME NEW c \in Conn, FinishPairing(c)
      PROVE  pc'[c] \in Changing /\ KeyAgreement' /\ NoneBeforeKey' /\ InHand(c)'
  BY Zenon, <1>5 DEF FinishPairing, KInv, KeyAgreement, NoneBeforeKey, InHand, Changing, TypeOK
<1>6. ASSUME NEW c \in Conn, SaveCsk(c)
      PROVE  pc'[c] \in Changing /\ KeyAgreement' /\ NoneBeforeKey' /\ InHand(c)'
  <2>1. /\ pc[c] = "saving" /\ pc' = [pc EXCEPT ![c] = "adding"]
        /\ UNCHANGED <<servers, req, given>>
        /\ csk' = req[c].key
    BY Zenon, <1>6 DEF SaveCsk
  <2>2. /\ req[c].key \in Key /\ csk \in {NoKey, req[c].key}
        /\ given[req[c].phone] = req[c].key
    BY Zenon, <2>1 DEF Shaped, KInv, InHand
  <2>3. KeyAgreement' /\ NoneBeforeKey'
    BY Zenon, <1>0, <2>1, <2>2 DEF KInv, KeyAgreement, NoneBeforeKey, NoServers
  <2>4. InHand(c)' /\ pc'[c] \in Changing
    BY Zenon, <2>1, <2>2 DEF InHand, Changing, TypeOK
  <2> QED BY Zenon, <2>3, <2>4
<1>7. ASSUME NEW c \in Conn, AddLoad(c)
      PROVE  pc'[c] \in Changing /\ KeyAgreement' /\ NoneBeforeKey' /\ InHand(c)'
  BY <1>7 DEF AddLoad, KInv, KeyAgreement, NoneBeforeKey, InHand, Changing, TypeOK,
     Request
<1>8. ASSUME NEW c \in Conn, AddPairedServer(c)
      PROVE  pc[c] \in Changing /\ KeyAgreement' /\ NoneBeforeKey' /\ InHand(c)'
  <2>1. /\ pc[c] = "inserting" /\ pc' = [pc EXCEPT ![c] = "reloading"]
        /\ UNCHANGED <<csk, req, given>>
        /\ servers' = [servers EXCEPT ![req[c].phone] = {req[c].user}]
    BY Zenon, <1>8 DEF AddPairedServer, KInv, InHand
  <2>2. csk = req[c].key /\ given[req[c].phone] = req[c].key /\ csk # NoKey
    BY Zenon, <1>0, <2>1 DEF KInv, InHand
  <2>3. KeyAgreement' /\ NoneBeforeKey'
    BY Zenon, <1>0, <2>1, <2>2 DEF KInv, KeyAgreement, NoneBeforeKey, TypeOK, Lists
  <2> QED BY Zenon, <2>1, <2>3 DEF InHand, Changing, TypeOK
<1>9. ASSUME NEW c \in Conn, NEW p \in Phone, RemoveLoad(c, p)
      PROVE  pc'[c] \in Changing /\ KeyAgreement' /\ NoneBeforeKey' /\ InHand(c)'
  BY <1>9 DEF RemoveLoad, KInv, KeyAgreement, NoneBeforeKey, InHand, Changing, TypeOK,
     Request
<1>10. ASSUME NEW c \in Conn, RemoveDevice(c)
       PROVE  pc[c] \in Changing /\ KeyAgreement' /\ NoneBeforeKey' /\ InHand(c)'
  <2>1. /\ pc[c] = "deleting" /\ pc' = [pc EXCEPT ![c] = "reloading"]
        /\ UNCHANGED <<csk, req, given>>
    BY Zenon, <1>10 DEF RemoveDevice
  <2>2. req[c].list = servers /\ servers \in Lists
    BY Zenon, <2>1 DEF KInv, InHand, TypeOK
  <2>3. servers' \in Lists /\ \A p \in Phone : servers'[p] \subseteq servers[p]
    BY <1>10, <2>2 DEF RemoveDevice, Lists
  <2>4. KeyAgreement'
    BY Zenon, <2>1, <2>3 DEF KInv, KeyAgreement
  <2>5. NoneBeforeKey'
    BY Zenon, <2>1, <2>3 DEF KInv, NoneBeforeKey, NoServers, Lists
  <2> QED BY Zenon, <2>1, <2>4, <2>5 DEF InHand, Changing, TypeOK
<1>11. ASSUME NEW c \in Conn, NEW ok \in BOOLEAN, RotateClear(c, ok)
       PROVE  pc'[c] \in Changing /\ KeyAgreement' /\ NoneBeforeKey' /\ InHand(c)'
  BY Zenon, <1>11 DEF RotateClear, KInv, KeyAgreement, NoneBeforeKey, NoServers, InHand,
     Changing, TypeOK
<1>12. ASSUME NEW c \in Conn, NEW k \in Key, RotateCsk(c, k)
       PROVE  pc[c] \in Changing /\ KeyAgreement' /\ NoneBeforeKey' /\ InHand(c)'
  <2>1. servers = NoServers
    BY Zenon, <1>12 DEF RotateCsk, ClearsWork
  <2> QED
    BY Zenon, <1>0, <1>12, <2>1 DEF RotateCsk, KeyAgreement, NoneBeforeKey, NoServers, InHand,
       Changing, TypeOK
<1>13. ASSUME NEW c \in Conn, Handler(c)
       PROVE  KInv'
  BY Zenon, <1>13, KeySteps, <1>1, <1>2, <1>3, <1>4, <1>5, <1>6, <1>7, <1>8, <1>9, <1>10,
     <1>11, <1>12
<1>14. ASSUME NEW tear \in BOOLEAN, Crash(tear)
       PROVE  KInv'
  BY Zenon, <1>14, <1>0 DEF Crash, KInv, KeyAgreement, NoneBeforeKey, InHand
<1>15. ASSUME UNCHANGED <<csk, servers, given, pc, req>>
       PROVE  KInv'
  BY Zenon, <1>15 DEF KInv, KeyAgreement, NoneBeforeKey, InHand
<1>16. ASSUME NEW kind \in {"pending", "active"}, NEW g \in Gen, TimerFires(kind, g)
       PROVE  UNCHANGED <<csk, servers, given, pc, req>>
  BY Zenon, <1>16 DEF TimerFires
<1>17. ASSUME NEW p \in Phone, NEW k \in Key, PhoneStores(p, k) \/ PhoneLoses(p, k)
       PROVE  UNCHANGED <<csk, servers, given, pc, req>>
  BY Zenon, <1>17 DEF PhoneStores, PhoneLoses
<1>18. ASSUME NEW p \in Phone, PhoneForgets(p)
       PROVE  UNCHANGED <<csk, servers, given, pc, req>>
  BY Zenon, <1>18 DEF PhoneForgets
<1> QED BY Zenon, <1>13, <1>14, <1>15, <1>16, <1>17, <1>18 DEF Next

\* Every phone on the list was last given, and confirmed, the CSK on disk, if one
\* request at a time changes the files and the list is cleared when rotate_csk
\* asks for it: the order of the writes of CompletePairing and rotate_csk is
\* right, wherever a crash or a failed write cuts them off.
THEOREM ListedPhonesHaveTheKey ==
    Spec /\ []ChangesAlone /\ []ClearsWork => []KeyAgreement
<1>1. Init => KInv
  BY Zenon DEF Init, KInv, KeyAgreement, NoneBeforeKey, InHand, NoServers
<1>2. /\ IInv /\ KInv /\ ChangesAlone /\ ChangesAlone' /\ ClearsWork
      /\ [Next]_vars
      => KInv'
  <2> SUFFICES ASSUME IInv, KInv, ChangesAlone, ChangesAlone', ClearsWork, [Next]_vars
               PROVE  KInv'
    BY Zenon
  <2>1. CASE UNCHANGED vars
    BY Zenon, <2>1 DEF vars, KInv, KeyAgreement, NoneBeforeKey, InHand
  <2>2. CASE Next
    BY Zenon, <2>2, KeyNext DEF IInv
  <2> QED BY Zenon, <2>1, <2>2
<1>3. KInv => KeyAgreement
  BY Zenon DEF KInv
<1> QED BY <1>1, <1>2, <1>3, Inductive, PTL DEF Spec

\* With requests that do not overlap all three hold (handle_admin_request, one
\* connection after the other).
THEOREM SerialRequests ==
    Spec /\ []Serial /\ []ClearsWork
        => [](RemovedStaysRemoved /\ IdleSnapshotFresh /\ KeyAgreement)
<1>1. Serial => EditsAlone /\ InstallsAlone /\ ChangesAlone
  BY Zenon DEF Serial, EditsAlone, InstallsAlone, ChangesAlone, Changing
<1> QED
  BY <1>1, RemovalsLast, SnapshotFollowsDisk, ListedPhonesHaveTheKey, PTL

-----------------------------------------------------------------------------
(* The messages of a pairing in general.                                   *)

\* The codes on the two screens are equal exactly when each end computed with
\* the public key the other one sent, whatever keys and messages arrived: that
\* is what the user confirms by comparing them (derive_sas hashes the PSK and
\* both keys; that two hashes agree in their six digits by chance is left out).
THEOREM CodesCompareKeys ==
    ASSUME NEW client, NEW phone, NEW hello, NEW response
    PROVE  initiate_pairing(client, hello).sas = AwaitingSASVerification(phone, response).sas
             <=> /\ hello.x25519_public_key = public_key(phone)
                 /\ response.x25519_public_key = public_key(client)
<1> DEFINE hk == hello.x25519_public_key
           rk == response.x25519_public_key
           psk1 == derive_psk_from_x25519(diffie_hellman(client, hk))
           psk2 == derive_psk_from_x25519(diffie_hellman(phone, rk))
<1>1. /\ initiate_pairing(client, hello).sas = derive_sas(psk1, public_key(client), hk)
      /\ AwaitingSASVerification(phone, response).sas = derive_sas(psk2, rk, public_key(phone))
  BY Zenon DEF initiate_pairing, AwaitingSASVerification, parsePairingResponse, keyExchange, getSas
<1>2. ASSUME hk = public_key(phone), rk = public_key(client) PROVE psk1 = psk2
  <2>1. diffie_hellman(client, hk) = {client, phone} /\ diffie_hellman(phone, rk) = {phone, client}
    BY <1>2 DEF diffie_hellman, public_key
  <2> QED
    BY Zenon, <2>1
<1> HIDE DEF hk, rk, psk1, psk2
<1>3. \A a, b, k, l, m, n : derive_sas(a, k, l) = derive_sas(b, m, n) <=> a = b /\ k = m /\ l = n
  BY Zenon DEF derive_sas
<1>4. derive_sas(psk1, public_key(client), hk) = derive_sas(psk2, rk, public_key(phone))
        <=> psk1 = psk2 /\ public_key(client) = rk /\ hk = public_key(phone)
  BY <1>3
<1> QED
  BY Zenon, <1>1, <1>2, <1>4 DEF hk, rk

\* The client completes a pairing only with a phone that has decrypted, with
\* the client's own PSK, the very CSK it was sent: whatever message a phone
\* answers, the confirmation is accepted exactly then (createPairingComplete
\* against receive_pairing_complete).
THEOREM CompletionConfirmsKey ==
    ASSUME NEW psk, NEW psk2, NEW message, NEW sent
    PROVE  receive_pairing_complete(psk, Complete(psk2, message), sent)
             <=> psk2 = psk /\ ReceivedCsk(psk2, message) = sent
<1> DEFINE k == ReceivedCsk(psk2, message)
           m == Complete(psk2, message)
<1>1. m.success /\ m.csk_hash.key = psk2 /\ m.csk_hash.plain = sha256(k)
  BY Zenon DEF Complete, createPairingComplete, encryptWithPsk, encrypt_with_psk
<1>2. sha256(k) = sha256(sent) <=> k = sent
  BY Zenon DEF sha256
<1> HIDE DEF k, m
<1>3. receive_pairing_complete(psk, m, sent) <=> psk2 = psk /\ k = sent
  BY Zenon, <1>1, <1>2 DEF receive_pairing_complete, decrypts_with_psk
<1> QED
  BY Zenon, <1>3 DEF k, m

=============================================================================
