------------------------ MODULE BleTransportProofs ------------------------
(***************************************************************************)
(* Proofs about BleTransport, for any number of phones, attempts and       *)
(* waiting answers.                                                        *)
(***************************************************************************)
EXTENDS BleTransport, TLAPS

\* The values the argument tells apart.
Shape ==
    /\ task \in Tasks /\ started \in BOOLEAN /\ abrupt \in BOOLEAN
    /\ shut \in {"none", "grace", "devices", "adv", "gatt", "over"}
    /\ session \in {"waiting", "closing", "granted", "over"}
    /\ jobs \subseteq {"cancel", "finalize", "confirm"}

\* Until a session is over only its own failed task has shut the transport
\* down at once, and in a granted one no job is going to.
Graced ==
    /\ session \in {"waiting", "granted"} => "finalize" \notin jobs
    /\ session = "waiting" /\ abrupt => task = "failed"
    /\ session = "granted" => task = "granted" /\ ~abrupt

\* Until a shutdown begins, a task that is past send_request has both
\* handles, and one that is before it has both or no advertisement.
Served ==
    ~started =>
        /\ shut = "none"
        /\ task \in {"receive", "process"} => adv /\ gatt
        /\ task = "serve" => adv
        /\ task = "send" /\ adv => gatt

\* A task that has ended has shut the transport down or left someone who will.
Entrusted ==
    /\ started => shut # "none"
    /\ task = "failed" => started
    /\ task \in {"granted", "denied"} => started \/ "confirm" \in jobs
    /\ task = "aborted" => started \/ jobs # {}
    /\ session = "closing" => started \/ "finalize" \in jobs

\* Phones tracked when the devices were cleared are gone, and a dropped
\* transport is at rest.
LetGo ==
    /\ shut \in {"adv", "gatt", "over"} => devices \subseteq late
    /\ dropped => /\ shut = "over" /\ started /\ ~gatt
                  /\ task \in Ended /\ jobs = {}
                  /\ session \in {"granted", "over"}

IInv == Shape /\ Graced /\ Served /\ Entrusted /\ LetGo

\* A new transport satisfies the invariant.
LEMMA InitIInv == Init => IInv
  BY ZenonT(30) DEF Init, IInv, Shape, Graced, Served, Entrusted, LetGo, Tasks, Ended

\* Every step of the task, the session, the shutdown and the phones keeps it.
LEMMA NextIInv == IInv /\ [Next]_vars => IInv'
<1> SUFFICES ASSUME IInv, [Next]_vars PROVE IInv'
  OBVIOUS
<1> USE DEF IInv, Shape, Graced, Served, Entrusted, LetGo, Tasks, Ended,
            radioVars, gattVars, shutVars
<1>1. CASE Task
  <2>1. CASE SendRequest
    BY <2>1 DEF SendRequest
  <2>2. CASE Advertise
    BY <2>2 DEF Advertise
  <2>3. CASE AdvertiseAgain
    BY <2>3 DEF AdvertiseAgain
  <2>4. CASE SendFails
    BY <2>4 DEF SendFails, Finalize
  <2>5. CASE ServeGatt
    BY <2>5 DEF ServeGatt
  <2>6. CASE PopResponse
    <3>1. task = "receive" /\ task' \in {"receive", "process"}
      BY <2>6 DEF PopResponse
    <3>2. UNCHANGED <<adv, gatt, devices, late, started, shut, abrupt, jobs,
                      session, dropped>>
      BY <2>6 DEF PopResponse
    <3> QED BY <3>1, <3>2
  <2>7. CASE ProcessResponse
    <3>1. /\ task = "process"
          /\ UNCHANGED <<adv, gatt, devices, late, started, shut, abrupt,
                         session, dropped>>
      BY <2>7 DEF ProcessResponse
    <3>2. CASE got = "unverified"
      <4>1. task' = "send" /\ jobs' = jobs
        BY <2>7, <3>2 DEF ProcessResponse
      <4> QED BY <3>1, <4>1
    <3>3. CASE got # "unverified"
      <4>1. task' \in {"granted", "denied"} /\ jobs' = jobs \cup {"confirm"}
        BY <2>7, <3>3 DEF ProcessResponse
      <4> QED BY <3>1, <4>1
    <3> QED BY <3>2, <3>3
  <2>8. CASE ReceiveTimesOut
    BY <2>8 DEF ReceiveTimesOut
  <2>9. CASE TaskTimesOut
    BY SMTT(30), <2>9 DEF TaskTimesOut, Finalize
  <2> QED BY <1>1, <2>1, <2>2, <2>3, <2>4, <2>5, <2>6, <2>7, <2>8, <2>9 DEF Task
<1>2. CASE Session
  <2>1. CASE SeeGrant
    BY <2>1 DEF SeeGrant
  <2>2. CASE SeeEnd
    BY <2>2 DEF SeeEnd
  <2>3. CASE SeeUdp
    BY <2>3 DEF SeeUdp, Abort
  <2>4. CASE SeeCancel
    BY <2>4 DEF SeeCancel
  <2>5. CASE CancelAborts
    BY <2>5 DEF CancelAborts, Abort
  <2>6. CASE RunCancel
    BY <2>6 DEF RunCancel, SendCancel
  <2>7. CASE RunFinalize
    BY <2>7 DEF RunFinalize, Finalize
  <2>8. CASE RunConfirm
    BY <2>8 DEF RunConfirm, Finalize
  <2> QED BY <1>2, <2>1, <2>2, <2>3, <2>4, <2>5, <2>6, <2>7, <2>8 DEF Session
<1>3. CASE Shutdown
  <2>1. CASE GraceElapses
    BY <2>1 DEF GraceElapses
  <2>2. CASE ShutDevices
    BY <2>2 DEF ShutDevices
  <2>3. CASE ShutAdv
    BY <2>3 DEF ShutAdv
  <2>4. CASE ShutGatt
    BY <2>4 DEF ShutGatt
  <2> QED BY <1>3, <2>1, <2>2, <2>3, <2>4 DEF Shutdown
<1>4. CASE SessionTimesOut
  BY <1>4 DEF SessionTimesOut
<1>5. CASE Drop
  BY <1>5 DEF Drop
<1>6. ASSUME NEW p \in Phone, Connect(p)
      PROVE  IInv'
  BY <1>6 DEF Connect
<1>7. ASSUME NEW p \in Phone, ReadRequest(p)
      PROVE  IInv'
  BY <1>7 DEF ReadRequest, Track
<1>8. ASSUME NEW p \in Phone, WriteResponse(p)
      PROVE  IInv'
  BY <1>8 DEF WriteResponse, Track
<1>9. ASSUME NEW p \in Phone, ReadConfirmation(p)
      PROVE  IInv'
  BY <1>9 DEF ReadConfirmation
<1>10. CASE UNCHANGED vars
  BY <1>10 DEF vars
<1> QED BY <1>1, <1>2, <1>3, <1>4, <1>5, <1>6, <1>7, <1>8, <1>9, <1>10 DEF Next

\* In every reachable state.
LEMMA Invariant == Spec => []IInv
  BY InitIInv, NextIInv, PTL DEF Spec

\* A phone whose grant ended the session over BLE has its grace window to read
\* the confirmation: no finalize without one comes first.
THEOREM GrantIsGraced == Spec => []GraceAfterGrant
<1>1. IInv => GraceAfterGrant
  BY DEF IInv, Graced, GraceAfterGrant
<1> QED BY <1>1, Invariant, PTL

\* A task that waits for answers has both the advertisement and the GATT
\* server up, unless a shutdown has begun.
THEOREM WaitsServed == Spec => []ServedWhileWaiting
<1>1. IInv => ServedWhileWaiting
  BY DEF IInv, Served, ServedWhileWaiting
<1> QED BY <1>1, Invariant, PTL

\* A transport is dropped only after a complete shutdown, which let go of every
\* phone tracked until then.
THEOREM DropIsLast == Spec => []DropsNoDevice
<1>1. IInv => DropsNoDevice
  BY DEF IInv, LetGo, DropsNoDevice
<1> QED BY <1>1, Invariant, PTL

-----------------------------------------------------------------------------
(* Types. *)

\* Every step keeps the types.
LEMMA NextType == BleTypeOK /\ [Next]_vars => BleTypeOK'
<1> SUFFICES ASSUME BleTypeOK, [Next]_vars PROVE BleTypeOK'
  OBVIOUS
<1> USE BleAssumption DEF BleTypeOK, Tasks, Ended, radioVars, gattVars, shutVars
<1>1. CASE Task
  <2>1. CASE SendRequest
    BY <2>1 DEF SendRequest
  <2>2. CASE Advertise
    BY <2>2 DEF Advertise
  <2>3. CASE AdvertiseAgain
    BY <2>3 DEF AdvertiseAgain
  <2>4. CASE SendFails
    BY <2>4 DEF SendFails, Finalize
  <2>5. CASE ServeGatt
    BY <2>5 DEF ServeGatt
  <2>6. CASE PopResponse
    <3>1. Head(queue) \in Answers /\ queue' \in Seq(Answers)
      BY <2>6 DEF PopResponse
    <3> QED BY <2>6, <3>1 DEF PopResponse
  <2>7. CASE ProcessResponse
    BY <2>7 DEF ProcessResponse
  <2>8. CASE ReceiveTimesOut
    BY <2>8 DEF ReceiveTimesOut
  <2>9. CASE TaskTimesOut
    BY <2>9 DEF TaskTimesOut, Finalize
  <2> QED BY <1>1, <2>1, <2>2, <2>3, <2>4, <2>5, <2>6, <2>7, <2>8, <2>9 DEF Task
<1>2. CASE Session
  <2>1. CASE SeeGrant
    BY <2>1 DEF SeeGrant
  <2>2. CASE SeeEnd
    BY <2>2 DEF SeeEnd
  <2>3. CASE SeeUdp
    BY <2>3 DEF SeeUdp, Abort
  <2>4. CASE SeeCancel
    BY <2>4 DEF SeeCancel
  <2>5. CASE CancelAborts
    BY <2>5 DEF CancelAborts, Abort
  <2>6. CASE RunCancel
    BY <2>6 DEF RunCancel, SendCancel
  <2>7. CASE RunFinalize
    BY <2>7 DEF RunFinalize, Finalize
  <2>8. CASE RunConfirm
    BY <2>8 DEF RunConfirm, Finalize
  <2> QED BY <1>2, <2>1, <2>2, <2>3, <2>4, <2>5, <2>6, <2>7, <2>8 DEF Session
<1>3. CASE Shutdown
  <2>1. CASE GraceElapses
    BY <2>1 DEF GraceElapses
  <2>2. CASE ShutDevices
    BY <2>2 DEF ShutDevices
  <2>3. CASE ShutAdv
    BY <2>3 DEF ShutAdv
  <2>4. CASE ShutGatt
    BY <2>4 DEF ShutGatt
  <2> QED BY <1>3, <2>1, <2>2, <2>3, <2>4 DEF Shutdown
<1>4. CASE SessionTimesOut \/ Drop
  <2>1. CASE SessionTimesOut
    BY <2>1 DEF SessionTimesOut
  <2>2. CASE Drop
    BY <2>2 DEF Drop
  <2> QED BY <1>4, <2>1, <2>2
<1>5. ASSUME NEW p \in Phone, Connect(p) \/ ReadRequest(p) \/ ReadConfirmation(p)
      PROVE  BleTypeOK'
  <2>1. CASE Connect(p)
    BY <2>1 DEF Connect
  <2>2. CASE ReadRequest(p)
    BY <2>2 DEF ReadRequest, Track
  <2>3. CASE ReadConfirmation(p)
    BY <2>3 DEF ReadConfirmation
  <2> QED BY <1>5, <2>1, <2>2, <2>3
<1>6. ASSUME NEW p \in Phone, WriteResponse(p)
      PROVE  BleTypeOK'
  <2>1. queue' \in Seq(Answers)
    BY <1>6 DEF WriteResponse
  <2> QED BY <1>6, <2>1 DEF WriteResponse, Track
<1>7. CASE UNCHANGED vars
  BY <1>7 DEF vars
<1> QED BY <1>1, <1>2, <1>3, <1>4, <1>5, <1>6, <1>7 DEF Next

\* Every variable keeps its type; in particular no attempt to advertise
\* exceeds the limit, and only answers of the known kinds are queued.
THEOREM TypeCorrect == Spec => []BleTypeOK
<1>1. Init => BleTypeOK
  <2> SUFFICES ASSUME Init PROVE BleTypeOK
    OBVIOUS
  <2>1. queue \in Seq(Answers) /\ attempt \in 0 .. MaxAttempts
    BY BleAssumption DEF Init
  <2>2. phone \in [Phone -> {"away", "connected", "asked", "answered", "confirmed"}]
    BY DEF Init
  <2> QED BY <2>1, <2>2, ZenonT(30) DEF Init, BleTypeOK, Tasks
<1> QED BY <1>1, NextType, PTL DEF Spec

-----------------------------------------------------------------------------
(* The confirmation, and the end. *)

\* A session that still waits is shut down by its own task only; an answer
\* that is looked at has been confirmed; and the GATT server of a granted task
\* stays until the shutdown comes to it.
Confirmed ==
    /\ session = "waiting" /\ started => task \in Ended
    /\ session = "waiting" => jobs \subseteq {"confirm"}
    /\ "confirm" \in jobs => task \in {"granted", "denied"}
    /\ task \in {"process", "granted", "denied"} => confirmation
    /\ session \in {"waiting", "granted"} /\ task = "granted" /\ shut # "over" => gatt
    /\ dropped => ~adv

LEMMA NextConfirmed == IInv /\ Confirmed /\ [Next]_vars => Confirmed'
<1> SUFFICES ASSUME IInv, Confirmed, [Next]_vars PROVE Confirmed'
  OBVIOUS
<1> USE DEF Confirmed, IInv, Shape, Tasks, Ended, radioVars, gattVars, shutVars
<1>1. CASE Task
  <2>1. ~dropped
    BY <1>1 DEF LetGo, Task, SendRequest, Advertise, AdvertiseAgain, SendFails, ServeGatt,
                PopResponse, ProcessResponse, ReceiveTimesOut, TaskTimesOut
  <2>2. CASE PopResponse
    <3>1. task = "receive" /\ task' \in {"receive", "process"}
          /\ (confirmation \/ task' = "process" => confirmation')
      BY <2>2 DEF PopResponse
    <3>2. UNCHANGED <<adv, gatt, started, shut, jobs, session, dropped>>
      BY <2>2 DEF PopResponse
    <3> QED BY <2>1, <3>1, <3>2
  <2>3. CASE ProcessResponse
    <3>1. /\ task = "process" /\ confirmation' /\ ~dropped'
          /\ UNCHANGED <<adv, gatt, started, shut, session>>
      BY <2>1, <2>3 DEF ProcessResponse
    <3>2. session = "waiting" => gatt
      BY <3>1 DEF Served
    <3>3. session # "granted"
      BY <3>1 DEF Graced
    <3>4. CASE task' = "send" /\ jobs' = jobs
      BY <3>1, <3>4
    <3>5. CASE task' \in {"granted", "denied"} /\ jobs' = jobs \cup {"confirm"}
      BY <3>1, <3>2, <3>3, <3>5
    <3> QED BY <2>3, <3>4, <3>5 DEF ProcessResponse
  <2>4. CASE \/ SendRequest \/ Advertise \/ AdvertiseAgain \/ SendFails \/ ServeGatt
             \/ ReceiveTimesOut \/ TaskTimesOut
    <3>1. CASE SendRequest
      BY <2>1, <3>1 DEF SendRequest
    <3>2. CASE Advertise
      BY <2>1, <3>2 DEF Advertise
    <3>3. CASE AdvertiseAgain
      BY <2>1, <3>3 DEF AdvertiseAgain
    <3>4. CASE SendFails
      BY <2>1, <3>4 DEF SendFails, Finalize
    <3>5. CASE ServeGatt
      BY <2>1, <3>5 DEF ServeGatt
    <3>6. CASE ReceiveTimesOut
      BY <2>1, <3>6 DEF ReceiveTimesOut
    <3>7. CASE TaskTimesOut
      BY <2>1, <3>7 DEF TaskTimesOut, Finalize
    <3> QED BY <2>4, <3>1, <3>2, <3>3, <3>4, <3>5, <3>6, <3>7
  <2> QED BY <1>1, <2>2, <2>3, <2>4 DEF Task
<1>2. CASE Session
  <2>1. CASE SeeGrant \/ SeeEnd \/ SeeCancel
    <3>1. CASE SeeGrant
      BY <3>1 DEF SeeGrant
    <3>2. CASE SeeEnd
      BY <3>2 DEF SeeEnd
    <3>3. CASE SeeCancel
      BY <3>3 DEF SeeCancel
    <3> QED BY <2>1, <3>1, <3>2, <3>3
  <2>2. CASE SeeUdp \/ CancelAborts
    <3>1. CASE SeeUdp
      BY <3>1 DEF SeeUdp, Abort
    <3>2. CASE CancelAborts
      BY <3>2 DEF CancelAborts, Abort
    <3> QED BY <2>2, <3>1, <3>2
  <2>3. CASE RunCancel \/ RunFinalize \/ RunConfirm
    <3>1. /\ jobs' \subseteq jobs /\ jobs # {} /\ started'
          /\ started => shut' = shut
          /\ UNCHANGED <<task, adv, gatt, confirmation, session, dropped>>
      BY <2>3 DEF RunCancel, RunFinalize, RunConfirm, SendCancel, Finalize
    <3>2. session = "waiting" => task \in Ended
      BY <2>3 DEF RunCancel, RunFinalize, RunConfirm
    <3>3. ~started => shut = "none"
      BY DEF Served
    <3> QED BY <3>1, <3>2, <3>3
  <2> QED BY <1>2, <2>1, <2>2, <2>3 DEF Session
<1>3. CASE Shutdown
  <2>1. CASE GraceElapses
    BY <2>1 DEF GraceElapses
  <2>2. CASE ShutDevices
    BY <2>2 DEF ShutDevices
  <2>3. CASE ShutAdv
    BY <2>3 DEF ShutAdv
  <2>4. CASE ShutGatt
    BY <2>4 DEF ShutGatt
  <2> QED BY <1>3, <2>1, <2>2, <2>3, <2>4 DEF Shutdown
<1>4. CASE SessionTimesOut
  BY <1>4 DEF SessionTimesOut
<1>5. CASE Drop
  BY <1>5 DEF Drop, Entrusted
<1>6. ASSUME NEW p \in Phone,
             Connect(p) \/ ReadRequest(p) \/ WriteResponse(p) \/ ReadConfirmation(p)
      PROVE  Confirmed'
  <2>1. CASE Connect(p)
    BY <2>1 DEF Connect
  <2>2. CASE ReadRequest(p)
    BY <2>2 DEF ReadRequest
  <2>3. CASE WriteResponse(p)
    BY <2>3 DEF WriteResponse
  <2>4. CASE ReadConfirmation(p)
    BY <2>4 DEF ReadConfirmation
  <2> QED BY <1>6, <2>1, <2>2, <2>3, <2>4
<1>7. CASE UNCHANGED vars
  BY <1>7 DEF vars
<1> QED BY <1>1, <1>2, <1>3, <1>4, <1>5, <1>6, <1>7 DEF Next

LEMMA AlwaysConfirmed == Spec => [](IInv /\ Confirmed)
<1>1. Init => Confirmed
  BY DEF Init, Confirmed
<1> QED BY <1>1, InitIInv, NextIInv, NextConfirmed, PTL DEF Spec

\* The phone that granted the session can read its confirmation until the
\* shutdown takes the GATT server down.
GrantReadable == session = "granted" /\ shut # "over" => gatt /\ confirmation

\* The grace window is of use: throughout it the confirmation is set and the
\* GATT server that hands it out is up, whichever of send_cancel, finalize and
\* the confirmation job came first (receive_response, do_shutdown).
THEOREM GraceIsOfUse == Spec => []GrantReadable
<1>1. IInv /\ Confirmed => GrantReadable
  BY DEF IInv, Graced, Confirmed, GrantReadable
<1> QED BY <1>1, AlwaysConfirmed, PTL

\* Nothing is advertised or offered any more, and nobody is left to do it.
AtRest == ~adv /\ ~gatt /\ shut = "over" /\ task \in Ended /\ jobs = {}

\* BleTransport::drop is the end: nothing is advertised or offered, and no
\* task, job or shutdown is left that could start again; a late retry of the
\* task cannot have put an advertisement in after it.
THEOREM DropReleases == Spec => [](dropped => AtRest)
<1>1. IInv /\ Confirmed => (dropped => AtRest)
  BY DEF IInv, LetGo, Confirmed, AtRest
<1> QED BY <1>1, AlwaysConfirmed, PTL

=============================================================================
