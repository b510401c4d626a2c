-------------------------- MODULE PamClientProofs --------------------------
(***************************************************************************)
(* The safety properties of PamClient, for any number of calls, users,     *)
(* services and hosts, and any lengths of the deadlines and the window.    *)
(***************************************************************************)
EXTENDS PamClient, TLAPS

-----------------------------------------------------------------------------
(* The password thread. *)

\* The thread lives only inside the event loop and until it is joined; the
\* self-pipe is its last word, and what poll said of the pipe stays true.
Thread ==
    /\ pc \in {"host", "enter", "spawn"} => worker = "none"
    /\ pc = "finish" => worker \in {"none", "gone"}
    /\ pc = "spawn" \/ worker # "none" => ~pollTty
    /\ pipe => worker = "gone"
    /\ pc \in {"woken", "handle"} /\ worker # "none" /\ rev.other => pipe
    /\ pc = "handle" /\ worker # "none" /\ rev.other => ~entered
    /\ exit # "none" => pc \in {"join", "finish"}
    /\ exit = "PasswordFailed" => worker = "gone" /\ ~entered

LEMMA ThreadInit == Init => Thread
BY Zenon DEF Init, Thread

LEMMA ThreadReturns ==
  ASSUME NEW c, Return(c)
  PROVE  Thread'
BY Zenon DEF Return, Thread

LEMMA ThreadLeaves ==
  ASSUME Thread, NEW reason, Leave(reason), pc \in {"poll", "woken", "handle"},
         reason = "PasswordFailed" => worker = "gone" /\ ~entered
  PROVE  Thread'
BY Zenon DEF Leave, Thread, threadVars

LEMMA ThreadNext == Thread /\ [Next]_vars => Thread'
<1> SUFFICES ASSUME Thread, [Next]_vars PROVE Thread'
  BY Zenon
<1> USE DEF hostVars, returned, loopVars, threadVars, connVars
<1>1. ASSUME NEW u \in User, NEW sv \in Service \cup {NoService}, Call(u, sv)
      PROVE  Thread'
  BY Zenon, <1>1 DEF Call, Thread
<1>2. CASE SetupEnds
  BY Zenon, <1>2, ThreadReturns DEF SetupEnds, ReturnEarly
<1>3. CASE Replay
  BY Zenon, <1>3, ThreadReturns DEF Replay
<1>4. CASE StartFails
  BY Zenon, <1>4, ThreadReturns DEF StartFails
<1>5. CASE Start
  BY <1>5, ZenonT(30) DEF Start, Ready, HasTerminal, Thread
<1>6. CASE SpawnFails
  BY Zenon, <1>6, ThreadReturns DEF SpawnFails
<1>7. CASE Spawn
  BY Zenon, <1>7 DEF Spawn, Thread
<1>8. CASE Poll
  <2>1. PICK e \in IpcEvents, o \in BOOLEAN :
          /\ o => (worker # "none" /\ pipe) \/ pollTty
          /\ rev' = [ipc |-> e, other |-> o]
    BY Zenon, <1>8 DEF Poll
  <2>2. rev'.other = o
    BY Zenon, <2>1
  <2>3. pc = "poll" /\ UNCHANGED <<worker, entered, pipe, pollTty, exit>>
        /\ pc' = IF worker # "none" THEN "woken" ELSE "handle"
    BY Zenon, <1>8 DEF Poll
  <2> QED
    BY Zenon, <2>1, <2>2, <2>3 DEF Thread
<1>9. CASE DeadlinePassed
  BY Zenon, <1>9, ThreadLeaves DEF DeadlinePassed
<1>10. CASE PollFails
  BY Zenon, <1>10, ThreadLeaves DEF PollFails
<1>11. CASE PasswordFirst
  <2>1. CASE entered
    BY Zenon, <1>11, <2>1, ThreadLeaves DEF PasswordFirst
  <2>2. CASE ~entered
    BY Zenon, <1>11, <2>2 DEF PasswordFirst, Thread
  <2> QED
    BY Zenon, <2>1, <2>2
<1>12. CASE ReadFrame
  BY Zenon, <1>12, ThreadLeaves DEF ReadFrame
<1>13. CASE ConnectionLost
  BY Zenon, <1>13, ThreadLeaves DEF ConnectionLost
<1>14. CASE ReadPart
  BY Zenon, <1>14 DEF ReadPart, Thread
<1>15. CASE DialogDismissed
  <2>1. worker = "gone" /\ ~entered
    BY Zenon, <1>15 DEF DialogDismissed, Thread
  <2> QED
    BY Zenon, <1>15, <2>1, ThreadLeaves DEF DialogDismissed
<1>16. CASE TtyRead
  <2>1. CASE Leave("Skip")
    BY Zenon, <1>16, <2>1, ThreadLeaves DEF TtyRead
  <2>2. CASE ~Leave("Skip")
    BY <1>16, <2>2 DEF TtyRead, Thread
  <2> QED
    BY Zenon, <2>1, <2>2
<1>17. CASE Join
  BY Zenon, <1>17 DEF Join, Thread
<1>18. CASE Finish
  BY Zenon, <1>18, ThreadReturns DEF Finish
<1>19. CASE WorkerStep
  BY <1>19 DEF WorkerStep, WorkerReturns, WorkerSignals, WorkerCancelled, CancelsWorker,
               Thread
<1>20. ASSUME NEW k \in Calls, DaemonDecides(k) PROVE Thread'
  BY Zenon, <1>20 DEF DaemonDecides, Thread
<1>21. CASE DaemonAnswers
  BY Zenon, <1>21 DEF DaemonAnswers, Thread
<1>22. CASE Deliver
  BY Zenon, <1>22 DEF Deliver, Thread
<1>23. CASE Tick
  BY Zenon, <1>23 DEF Tick, Thread
<1>24. CASE UNCHANGED vars
  BY Zenon, <1>24 DEF vars, Thread
<1> QED
  BY Zenon, <1>1, <1>2, <1>3, <1>4, <1>5, <1>6, <1>7, <1>8, <1>9, <1>10, <1>11, <1>12,
     <1>13, <1>14, <1>15, <1>16, <1>17, <1>18, <1>19, <1>20, <1>21, <1>22, <1>23,
     <1>24 DEF Next, CallingThread

-----------------------------------------------------------------------------
(* The verdicts. *)

\* Call k has returned.
Done(k) == k < n \/ (k = n /\ pc = "host")

\* The types that the verdicts depend on.
Shape ==
    /\ n \in 0 .. MaxCalls
    /\ pc # "host" => n \in Calls /\ user[n] \in User
    /\ user \in [Calls -> User \cup {NoUser}]
    /\ service \in [Calls -> Service \cup {NoService}]
    /\ code \in [Calls -> Codes \cup {"none"}]
    /\ age \in [Calls -> 0 .. Window]
    /\ status \in [Calls -> {"new", "open", "answered"}]
    /\ reply \in [Calls -> Daemon!Replies \cup {"none"}]
    /\ last = NoConclusion \/ last \in LastConclusion

\* LAST_CONCLUSION is what its call returned and is as old.
Faithful ==
    last # NoConclusion =>
        /\ Done(last.call)
        /\ status[last.call] # "new"
        /\ user[last.call] = last.username
        /\ service[last.call] = last.service
        /\ code[last.call] = last.code
        /\ age[last.call] = last.age

\* The latest call with a request and a known service is remembered.
Latest ==
    \A j \in Calls : Done(j) /\ status[j] # "new" /\ service[j] # NoService =>
        last # NoConclusion /\ j <= last.call

\* A call returns once, sends its request after it was entered, with its
\* verdict armed, and the daemon's success has a grant behind it.
Verdict ==
    /\ \A k \in Calls : ~Done(k) => code[k] = "none"
    /\ \A k \in Calls : k > n \/ (k = n /\ pc = "enter") => status[k] = "new"
    /\ pc \notin {"host", "enter"} => armed = "real" /\ status[n] # "new"
    /\ \A k \in Calls : reply[k] = "success" => <<k, "grant">> \in decided
    /\ Faithful
    /\ Latest
    /\ SuccessIsGranted

PInv == Shape /\ Verdict

verdictVars == <<n, user, service, code, age, armed, last>>

LEMMA VerdictInit == Init => PInv
<1> SUFFICES ASSUME Init PROVE PInv
  BY Zenon
<1> USE CallsAssumption, TimesAssumption DEF Init, Daemon!Init, Calls
<1>1. Shape
  BY DEF Shape
<1>2. Verdict
  BY Zenon DEF Verdict, Faithful, Latest, SuccessIsGranted, Done
<1> QED
  BY Zenon, <1>1, <1>2 DEF PInv

\* A step inside a call, or of no call, that touches no verdict.
LEMMA VerdictKept ==
  ASSUME PInv, UNCHANGED verdictVars, UNCHANGED <<status, reply, decided>>,
         pc' = pc \/ {pc, pc'} \cap {"host", "enter"} = {}
  PROVE  PInv'
<1>1. /\ pc = "host" <=> pc' = "host"
      /\ pc = "enter" <=> pc' = "enter"
  BY ZenonT(30)
<1>2. \A k : Done(k)' <=> Done(k)
  BY Zenon, <1>1 DEF Done, verdictVars
<1>3. Shape'
  BY Zenon, <1>1 DEF PInv, Shape, verdictVars
<1>4. Faithful' /\ Latest' /\ SuccessIsGranted'
  BY <1>2 DEF PInv, Verdict, Faithful, Latest, SuccessIsGranted, verdictVars
<1>5. Verdict'
  BY Zenon, <1>1, <1>2, <1>4 DEF PInv, Verdict, verdictVars
<1> QED
  BY Zenon, <1>3, <1>5 DEF PInv

\* The call returns c, and remembers it if it sent a request and the service
\* is known: a grant needs a witness.
LEMMA VerdictReturns ==
  ASSUME PInv, pc # "host", NEW c \in Codes, Return(c),
         UNCHANGED <<status, reply, decided>>,
         \/ last' = last /\ (status[n] = "new" \/ service[n] = NoService)
         \/ RecordConclusion(c) /\ service[n] # NoService /\ status[n] # "new",
         c = "SUCCESS" =>
            \E j \in 1 .. n :
                /\ j = n \/ code[j] = "SUCCESS"
                /\ user[j] = user[n]
                /\ reply[j] = "success"
                /\ j # n => service[j] = service[n] /\ service[n] # NoService
  PROVE  PInv'
<1>1. /\ UNCHANGED <<n, user, service>> /\ n \in Calls /\ pc' = "host"
      /\ code' = [code EXCEPT ![n] = c] /\ age' = [age EXCEPT ![n] = 0]
      /\ n \in Nat /\ user[n] \in User
  BY CallsAssumption DEF Return, hostVars, PInv, Shape, Calls
<1>2. \A k \in Calls : code'[k] = (IF k = n THEN c ELSE code[k])
  BY Zenon, <1>1 DEF PInv, Shape
<1>3. \A k \in Calls : age'[k] = (IF k = n THEN 0 ELSE age[k])
  BY Zenon, <1>1 DEF PInv, Shape
<1>4. \A k \in Calls : Done(k)' <=> Done(k) \/ k = n
  BY Zenon, <1>1 DEF Done
<1>5. ~Done(n)
  BY <1>1 DEF Done
<1>6. \/ last' = last
      \/ /\ last' \in LastConclusion /\ last'.call = n /\ last'.username = user[n]
         /\ last'.service = service[n] /\ last'.code = c /\ last'.age = 0
         /\ last' # NoConclusion
  <2>1. CASE RecordConclusion(c) /\ service[n] # NoService
    <3>1. last' = [call |-> n, username |-> user[n], service |-> service[n],
                   code |-> c, age |-> 0]
      BY Zenon, <2>1 DEF RecordConclusion
    <3>2. service[n] \in Service /\ 0 \in 0 .. Window
      BY <1>1, <2>1, TimesAssumption DEF PInv, Shape
    <3>3. last'.call # NoConclusion.call
      BY <1>1, <3>1 DEF NoConclusion, Calls
    <3> QED
      BY Zenon, <1>1, <3>1, <3>2, <3>3 DEF LastConclusion
  <2> QED
    BY Zenon, <2>1
<1>7. Shape'
  <2>1. code' \in [Calls -> Codes \cup {"none"}] /\ age' \in [Calls -> 0 .. Window]
    BY <1>1, TimesAssumption DEF PInv, Shape
  <2> QED
    BY Zenon, <1>1, <1>6, <2>1 DEF PInv, Shape
<1>8. Faithful'
  <2>1. CASE last' = last
    <3> SUFFICES ASSUME last # NoConclusion PROVE Faithful'
      BY Zenon, <2>1 DEF Faithful
    <3>1. Done(last.call) /\ last.call # n /\ last.call \in Calls
      BY Zenon, <1>5 DEF PInv, Verdict, Faithful, Shape, LastConclusion
    <3> DEFINE m == last.call
    <3>2. m' = m /\ m \in Calls /\ m # n /\ Done(m)
      BY Zenon, <2>1, <3>1
    <3> HIDE DEF m
    <3>3. Done(m)' /\ code'[m] = code[m] /\ age'[m] = age[m]
      BY Zenon, <1>2, <1>3, <1>4, <3>2
    <3>4. /\ status[m] # "new" /\ user[m] = last.username /\ service[m] = last.service
          /\ code[m] = last.code /\ age[m] = last.age
      BY Zenon DEF PInv, Verdict, Faithful, m
    <3> QED
      BY SMTT(30), <1>1, <2>1, <3>2, <3>3, <3>4 DEF Faithful, m
  <2>2. CASE last' # last
    BY Zenon, <1>1, <1>2, <1>3, <1>4, <1>6, <2>2 DEF Faithful
  <2> QED
    BY Zenon, <2>1, <2>2
<1>9. Latest'
  <2> SUFFICES ASSUME NEW j \in Calls, Done(j)', status[j] # "new", service[j] # NoService
               PROVE  last' # NoConclusion /\ j <= last'.call
    BY Zenon, <1>1 DEF Latest
  <2>1. CASE last' = last
    <3>1. CASE Done(j)
      BY Zenon, <2>1, <3>1 DEF PInv, Verdict, Latest
    <3>2. CASE j = n
      <4>1. RecordConclusion(c)
        BY Zenon, <3>2
      <4> QED
        BY <1>1, <1>6, <3>2, <4>1 DEF RecordConclusion, NoConclusion, Calls
    <3> QED
      BY Zenon, <1>4, <3>1, <3>2
  <2>2. CASE last' # last
    BY <1>1, <1>4, <1>6, <2>2 DEF Done, Calls, PInv, Shape
  <2> QED
    BY Zenon, <2>1, <2>2
<1>10. SuccessIsGranted'
  <2> SUFFICES ASSUME NEW k \in Calls, code'[k] = "SUCCESS"
               PROVE  \E j \in 1 .. k :
                        /\ code'[j] = "SUCCESS"
                        /\ user[j] = user[k]
                        /\ reply[j] = "success"
                        /\ <<j, "grant">> \in decided
                        /\ j # k => service[j] = service[k] /\ service[k] # NoService
    BY <1>1 DEF SuccessIsGranted
  <2>1. CASE k = n
    <3>1. c = "SUCCESS"
      BY Zenon, <1>2, <2>1
    <3>2. PICK j \in 1 .. n :
            /\ j = n \/ code[j] = "SUCCESS"
            /\ user[j] = user[n]
            /\ reply[j] = "success"
            /\ j # n => service[j] = service[n] /\ service[n] # NoService
      BY Zenon, <3>1
    <3>3. j \in Calls
      BY <1>1, CallsAssumption DEF Calls
    <3>4. code'[j] = "SUCCESS" /\ <<j, "grant">> \in decided
      BY Zenon, <1>2, <3>1, <3>2, <3>3 DEF PInv, Verdict
    <3> QED
      BY Zenon, <2>1, <3>2, <3>4
  <2>2. CASE k # n
    <3>1. code[k] = "SUCCESS"
      BY Zenon, <1>2, <2>2
    <3>2. PICK j \in 1 .. k :
            /\ code[j] = "SUCCESS"
            /\ user[j] = user[k]
            /\ reply[j] = "success"
            /\ <<j, "grant">> \in decided
            /\ j # k => service[j] = service[k] /\ service[k] # NoService
      BY Zenon, <3>1 DEF PInv, Verdict, SuccessIsGranted
    <3>3. j \in Calls
      BY CallsAssumption DEF Calls
    <3>4. j # n
      BY Zenon, <1>5, <3>2, <3>3 DEF PInv, Verdict
    <3> QED
      BY Zenon, <1>2, <3>2, <3>3, <3>4
  <2> QED
    BY Zenon, <2>1, <2>2
<1>11. Verdict'
  BY <1>1, <1>2, <1>4, <1>8, <1>9, <1>10 DEF PInv, Verdict
<1> QED
  BY Zenon, <1>7, <1>11 DEF PInv

LEMMA OutcomeIsCode == FinalOutcome \in Codes
BY Zenon DEF FinalOutcome, MapPamOutcome, Codes

LEMMA VerdictNext == PInv /\ [Next]_vars => PInv'
<1> SUFFICES ASSUME PInv, [Next]_vars PROVE PInv'
  BY Zenon
<1> USE DEF hostVars, returned, loopVars, connVars, daemonVars
<1>1. ASSUME NEW u \in User, NEW sv \in Service \cup {NoService}, Call(u, sv)
      PROVE  PInv'
  <2>1. /\ pc = "host" /\ pc' = "enter" /\ n' = n + 1 /\ n + 1 \in Calls /\ n \in Nat
        /\ user' = [user EXCEPT ![n + 1] = u] /\ service' = [service EXCEPT ![n + 1] = sv]
        /\ UNCHANGED <<code, age, last, status, reply, decided>>
    BY <1>1, CallsAssumption DEF Call, PInv, Shape, Calls
  <2>2. /\ \A k \in Calls : Done(k)' <=> Done(k)
        /\ ~Done(n + 1)
    BY <2>1 DEF Done, Calls
  <2>3. \A k \in Calls : Done(k) => user'[k] = user[k] /\ service'[k] = service[k]
    BY Zenon, <2>1, <2>2 DEF PInv, Shape
  <2>4. Shape'
    <3>1. n' \in 0 .. MaxCalls /\ n' \in Calls /\ user'[n'] \in User
      BY <2>1 DEF PInv, Shape, Calls
    <3>2. /\ user' \in [Calls -> User \cup {NoUser}]
          /\ service' \in [Calls -> Service \cup {NoService}]
      BY Zenon, <2>1 DEF PInv, Shape
    <3> QED
      BY Zenon, <2>1, <3>1, <3>2 DEF PInv, Shape
  <2>5. Faithful'
    <3> SUFFICES ASSUME last # NoConclusion PROVE Faithful'
      BY Zenon, <2>1 DEF Faithful
    <3>1. last.call \in Calls /\ Done(last.call)
      BY SMTT(30) DEF PInv, Shape, Verdict, Faithful, LastConclusion
    <3> QED
      BY SMTT(30), <2>1, <2>2, <2>3, <3>1 DEF PInv, Verdict, Faithful
  <2>6. Latest'
    BY Zenon, <2>1, <2>2, <2>3 DEF PInv, Verdict, Latest
  <2>7. SuccessIsGranted'
    <3> SUFFICES ASSUME NEW k \in Calls, code[k] = "SUCCESS"
                 PROVE  \E j \in 1 .. k :
                          /\ code[j] = "SUCCESS"
                          /\ user'[j] = user'[k]
                          /\ reply[j] = "success"
                          /\ <<j, "grant">> \in decided
                          /\ j # k => service'[j] = service'[k] /\ service'[k] # NoService
      BY Zenon, <2>1 DEF SuccessIsGranted
    <3>1. PICK j \in 1 .. k :
            /\ code[j] = "SUCCESS"
            /\ user[j] = user[k]
            /\ reply[j] = "success"
            /\ <<j, "grant">> \in decided
            /\ j # k => service[j] = service[k] /\ service[k] # NoService
      BY Zenon DEF PInv, Verdict, SuccessIsGranted
    <3>2. j \in Calls
      BY CallsAssumption DEF Calls
    <3>3. Done(j) /\ Done(k)
      BY Zenon, <3>1, <3>2 DEF PInv, Verdict
    <3> QED
      BY Zenon, <2>3, <3>1, <3>2, <3>3
  <2>8. \A k \in Calls : k > n' \/ k = n' => status'[k] = "new"
    BY <2>1 DEF PInv, Verdict, Calls
  <2> QED
    BY Zenon, <2>1, <2>2, <2>4, <2>5, <2>6, <2>7, <2>8 DEF PInv, Verdict
<1>2. CASE SetupEnds
  <2>1. PICK c \in Codes \ {"SUCCESS"} : ReturnEarly(c)
    BY Zenon, <1>2 DEF SetupEnds, Codes
  <2>2. status[n] = "new"
    BY Zenon, <1>2 DEF SetupEnds, PInv, Shape, Verdict
  <2> QED
    BY Zenon, <1>2, <2>1, <2>2, VerdictReturns DEF SetupEnds, ReturnEarly
<1>3. CASE Replay
  <2>1. status[n] = "new" /\ pc = "enter"
    BY Zenon, <1>3 DEF Replay, Ready, PInv, Shape, Verdict
  <2>2. /\ last # NoConclusion /\ last.username = user[n] /\ last.service = service[n]
        /\ service[n] # NoService
    BY Zenon, <1>3 DEF Replay, Reusable
  <2>3. /\ last \in LastConclusion /\ last.call \in Calls /\ last.call < n /\ n \in Calls
        /\ user[last.call] = user[n] /\ service[last.call] = service[n]
        /\ code[last.call] = last.code
    BY SMTT(30), <2>1, <2>2 DEF PInv, Shape, Verdict, Faithful, Done, LastConclusion
  <2>4. ASSUME last.code = "SUCCESS"
        PROVE  \E j \in 1 .. n :
                 /\ j = n \/ code[j] = "SUCCESS"
                 /\ user[j] = user[n]
                 /\ reply[j] = "success"
                 /\ j # n => service[j] = service[n] /\ service[n] # NoService
    <3> DEFINE m == last.call
    <3>1. m \in Calls /\ code[m] = "SUCCESS" /\ SuccessIsGranted
      BY Zenon, <2>3, <2>4 DEF PInv, Verdict
    <3> HIDE DEF m
    <3>2. PICK j \in 1 .. m :
            /\ code[j] = "SUCCESS"
            /\ user[j] = user[m]
            /\ reply[j] = "success"
            /\ j # m => service[j] = service[m]
      BY <3>1, ZenonT(30) DEF SuccessIsGranted
    <3>3. j \in 1 .. n
      BY <2>3 DEF Calls, m
    <3> QED
      BY Zenon, <2>2, <2>3, <3>2, <3>3 DEF m
  <2>5. Return(last.code) /\ UNCHANGED <<last, status, reply, decided>>
    BY Zenon, <1>3 DEF Replay
  <2>6. last.code \in Codes
    BY Zenon, <2>3 DEF LastConclusion
  <2> QED
    BY Zenon, <2>1, <2>4, <2>5, <2>6, VerdictReturns
<1>4. CASE StartFails
  <2>1. PICK c \in Codes \ {"SUCCESS"} : Return(c)
    BY Zenon, <1>4 DEF StartFails, Codes
  <2>2. status[n] = "new" /\ pc = "enter"
    BY SMTT(30), <1>4 DEF StartFails, Ready, PInv, Shape, Verdict
  <2> QED
    BY Zenon, <1>4, <2>1, <2>2, VerdictReturns DEF StartFails
<1>5. CASE Start
  <2>1. /\ pc = "enter" /\ pc' \in {"spawn", "poll"} /\ n \in Calls /\ armed' = "real"
        /\ UNCHANGED <<n, user, service, code, age, last, reply, decided>>
        /\ status' = [status EXCEPT ![n] = "open"]
    BY Zenon, <1>5 DEF Start, Ready, Daemon!Submit, PInv, Shape
  <2>2. \A k : Done(k)' <=> Done(k)
    BY Zenon, <2>1 DEF Done
  <2>3. ~Done(n) /\ n \in Nat
    BY <2>1, CallsAssumption DEF Done, Calls
  <2>4. Shape'
    BY Zenon, <2>1 DEF PInv, Shape
  <2>5. \A k \in Calls : k # n => status'[k] = status[k]
    BY Zenon, <2>1 DEF PInv, Shape
  <2>6. SuccessIsGranted'
    BY SMTT(30), <2>1 DEF PInv, Verdict, SuccessIsGranted
  <2>7. Faithful'
    <3>1. last # NoConclusion => last.call \in Calls /\ last.call # n
      BY Zenon, <2>3 DEF PInv, Shape, Verdict, Faithful, LastConclusion
    <3> QED
      BY <2>1, <2>2, <2>5, <3>1 DEF PInv, Verdict, Faithful
  <2>8. Latest'
    BY Zenon, <2>1, <2>2, <2>3, <2>5 DEF PInv, Verdict, Latest
  <2>9. \A k \in Calls : k > n' \/ (k = n' /\ pc' = "enter") => status'[k] = "new"
    BY <2>1, <2>3, <2>5 DEF PInv, Verdict, Calls
  <2> QED
    BY <2>1, <2>2, <2>4, <2>6, <2>7, <2>8, <2>9 DEF PInv, Shape, Verdict
<1>6. CASE SpawnFails
  <2>1. pc = "spawn" /\ armed = "real" /\ status[n] # "new"
    BY Zenon, <1>6 DEF SpawnFails, PInv, Verdict
  <2>2. \/ last' = last /\ service[n] = NoService
        \/ RecordConclusion("AUTH_ERR") /\ service[n] # NoService /\ status[n] # "new"
    BY Zenon, <1>6, <2>1 DEF SpawnFails, RecordVerdict
  <2> QED
    BY Zenon, <1>6, <2>1, <2>2, VerdictReturns DEF SpawnFails, Codes
<1>7. CASE Finish
  <2>1. pc = "finish" /\ armed = "real" /\ status[n] # "new" /\ n \in Calls
    BY Zenon, <1>7 DEF Finish, PInv, Shape, Verdict
  <2>2. \/ last' = last /\ service[n] = NoService
        \/ RecordConclusion(FinalOutcome) /\ service[n] # NoService /\ status[n] # "new"
    BY Zenon, <1>7, <2>1 DEF Finish, RecordVerdict
  <2>3. FinalOutcome = "SUCCESS" => reply[n] = "success"
    BY Zenon DEF FinalOutcome, MapPamOutcome, OutcomeFromRaw
  <2>4. n \in 1 .. n
    BY <2>1 DEF Calls
  <2> HIDE DEF FinalOutcome
  <2> QED
    BY Zenon, <1>7, <2>1, <2>2, <2>3, <2>4, OutcomeIsCode, VerdictReturns DEF Finish
<1>8. CASE \/ Spawn \/ Poll \/ DeadlinePassed \/ PollFails \/ PasswordFirst
           \/ ReadFrame \/ ConnectionLost \/ ReadPart \/ DialogDismissed \/ TtyRead
           \/ Join \/ WorkerStep \/ Deliver
  <2>1. /\ UNCHANGED verdictVars /\ UNCHANGED <<status, reply, decided>>
        /\ pc' = pc \/ (pc \notin {"host", "enter"} /\ pc' \notin {"host", "enter"})
    BY Zenon, <1>8 DEF verdictVars, Leave, Spawn, Poll, DeadlinePassed, PollFails,
                PasswordFirst, ReadFrame, ConnectionLost, ReadPart, DialogDismissed,
                TtyRead, Join, WorkerStep, Deliver
  <2> QED
    BY SMTT(30), <2>1, VerdictKept
<1>9. ASSUME NEW k \in Calls, DaemonDecides(k) PROVE PInv'
  <2>1. /\ UNCHANGED verdictVars /\ UNCHANGED <<status, reply, pc>>
        /\ decided \subseteq decided'
    BY Zenon, <1>9 DEF DaemonDecides, Daemon!Decide, verdictVars
  <2>2. \A j : Done(j)' <=> Done(j)
    BY SMTT(30), <2>1 DEF Done, verdictVars
  <2>3. Shape' /\ Faithful' /\ Latest'
    BY Zenon, <2>1, <2>2 DEF PInv, Shape, Verdict, Faithful, Latest, verdictVars
  <2>4. SuccessIsGranted'
    BY <2>1 DEF PInv, Verdict, SuccessIsGranted, verdictVars
  <2> QED
    BY Zenon, <2>1, <2>2, <2>3, <2>4 DEF PInv, Verdict, verdictVars
<1>10. CASE DaemonAnswers
  <2>1. PICK o \in Daemon!Replies : Daemon!Answer(n, o)
    BY Zenon, <1>10 DEF DaemonAnswers
  <2>2. /\ pc \notin {"host", "enter"} /\ n \in Calls
        /\ UNCHANGED verdictVars /\ UNCHANGED <<pc, decided>>
        /\ status[n] = "open" /\ status' = [status EXCEPT ![n] = "answered"]
        /\ reply' = [reply EXCEPT ![n] = o]
        /\ o = "success" => <<n, "grant">> \in decided
    BY <1>10, <2>1, ZenonT(30)
       DEF DaemonAnswers, Waiting, Daemon!Answer, Daemon!Backed, verdictVars,
                       PInv, Shape
  <2>3. \A j : Done(j)' <=> Done(j)
    BY Zenon, <2>2 DEF Done, verdictVars
  <2>4. ~Done(n) /\ code[n] = "none"
    BY Zenon, <2>2, CallsAssumption DEF Done, Calls, PInv, Verdict
  <2>5. \A k \in Calls : /\ reply'[k] = (IF k = n THEN o ELSE reply[k])
                         /\ status'[k] = "new" <=> status[k] = "new"
    BY Zenon, <2>2 DEF PInv, Shape
  <2>6. Shape'
    BY SMTT(30), <2>2 DEF PInv, Shape, verdictVars
  <2>7. Faithful' /\ Latest'
    BY <2>2, <2>3, <2>5 DEF PInv, Verdict, Faithful, Latest, verdictVars
  <2>8. SuccessIsGranted'
    <3> SUFFICES ASSUME NEW k \in Calls, code[k] = "SUCCESS"
                 PROVE  \E j \in 1 .. k :
                          /\ code[j] = "SUCCESS"
                          /\ user[j] = user[k]
                          /\ reply'[j] = "success"
                          /\ <<j, "grant">> \in decided
                          /\ j # k => service[j] = service[k] /\ service[k] # NoService
      BY <2>2 DEF SuccessIsGranted, verdictVars
    <3>1. PICK j \in 1 .. k :
            /\ code[j] = "SUCCESS"
            /\ user[j] = user[k]
            /\ reply[j] = "success"
            /\ <<j, "grant">> \in decided
            /\ j # k => service[j] = service[k] /\ service[k] # NoService
      BY Zenon DEF PInv, Verdict, SuccessIsGranted
    <3>2. j \in Calls /\ j # n
      BY <2>4, <3>1, CallsAssumption DEF Calls
    <3> QED
      BY Zenon, <2>5, <3>1, <3>2
  <2> QED
    BY <2>2, <2>3, <2>5, <2>6, <2>7, <2>8 DEF PInv, Verdict, verdictVars
<1>11. CASE Tick
  <2>1. /\ UNCHANGED <<n, user, service, code, armed, status, reply, decided, pc>>
        /\ age' = [k \in Calls |-> IF code[k] = "none" THEN 0 ELSE Older(age[k])]
        /\ last' = IF last = NoConclusion THEN last ELSE [last EXCEPT !.age = Older(@)]
    BY Zenon, <1>11 DEF Tick
  <2>2. \A a \in 0 .. Window : Older(a) \in 0 .. Window
    BY TimesAssumption DEF Older
  <2>3. last # NoConclusion =>
          /\ last' \in LastConclusion /\ last' # NoConclusion
          /\ last'.call = last.call /\ last'.username = last.username
          /\ last'.service = last.service /\ last'.code = last.code
          /\ last'.age = Older(last.age)
    <3> SUFFICES ASSUME last # NoConclusion
                 PROVE  /\ last' \in LastConclusion /\ last' # NoConclusion
                        /\ last'.call = last.call /\ last'.username = last.username
                        /\ last'.service = last.service /\ last'.code = last.code
                        /\ last'.age = Older(last.age)
      BY Zenon
    <3>1. last \in LastConclusion /\ last' = [last EXCEPT !.age = Older(@)]
      BY Zenon, <2>1 DEF PInv, Shape
    <3>2. last.age \in 0 .. Window /\ last.call \in Calls
      BY Zenon, <3>1 DEF LastConclusion
    <3>3. last' \in LastConclusion /\ last'.call = last.call
      BY Zenon, <2>2, <3>1, <3>2 DEF LastConclusion
    <3>4. last'.call # NoConclusion.call
      BY <3>2, <3>3 DEF NoConclusion, Calls
    <3> QED
      BY Zenon, <3>1, <3>3, <3>4 DEF LastConclusion
  <2>4. \A j : Done(j)' <=> Done(j)
    BY Zenon, <2>1 DEF Done
  <2>5. Shape'
    <3>1. age' \in [Calls -> 0 .. Window]
      BY <2>1, <2>2, TimesAssumption DEF PInv, Shape
    <3> QED
      BY Zenon, <2>1, <2>3, <3>1 DEF PInv, Shape
  <2>6. Faithful'
    <3> SUFFICES ASSUME last # NoConclusion PROVE Faithful'
      BY Zenon, <2>1 DEF Faithful
    <3>1. last.call \in Calls /\ last.code # "none"
      BY Zenon DEF PInv, Shape, LastConclusion, Codes
    <3>2. age'[last.call] = Older(age[last.call])
      BY Zenon, <2>1, <3>1 DEF PInv, Verdict, Faithful
    <3> QED
      BY Zenon, <2>1, <2>3, <2>4, <3>2 DEF PInv, Verdict, Faithful
  <2>7. Latest'
    BY Zenon, <2>1, <2>3, <2>4 DEF PInv, Verdict, Latest
  <2>8. SuccessIsGranted'
    BY SMTT(30), <2>1 DEF PInv, Verdict, SuccessIsGranted
  <2> QED
    BY Zenon, <2>1, <2>4, <2>5, <2>6, <2>7, <2>8 DEF PInv, Verdict
<1>12. CASE UNCHANGED vars
  <2>1. /\ UNCHANGED verdictVars /\ UNCHANGED <<status, reply, decided, pc>>
    BY Zenon, <1>12 DEF verdictVars, vars
  <2> QED
    BY Zenon, <2>1, VerdictKept
<1> QED
  BY SMTT(30), <1>1, <1>2, <1>3, <1>4, <1>5, <1>6, <1>7, <1>8, <1>9, <1>10, <1>11, <1>12
     DEF Next, CallingThread

-----------------------------------------------------------------------------
(* The properties. *)

\* The calling thread returns to libpam, or speaks to the user, only when the
\* password thread is reaped, on every way out of the loop (cancel_and_join).
THEOREM LibpamHasOneUser == Spec => []LibpamNotShared
<1>1. Thread => LibpamNotShared
  BY Zenon DEF Thread, LibpamNotShared
<1> QED
  BY <1>1, ThreadInit, ThreadNext, PTL DEF Spec

\* A submitted password is never taken for a dismissed dialog, however the two
\* threads interleave (native_password_worker, run_gui_event_loop).
THEOREM PasswordsCount == Spec => []PasswordNeverDismissed
<1>1. Thread => PasswordNeverDismissed
  BY Zenon DEF Thread, PasswordNeverDismissed
<1> QED
  BY <1>1, ThreadInit, ThreadNext, PTL DEF Spec

\* PAM_SUCCESS always goes back to a phone's grant of a request of this process
\* for the same user and service, by whatever number of replays
\* (authenticate_inner, map_pam_outcome, reusable_conclusion).
THEOREM SuccessesAreGranted == Spec => []SuccessIsGranted
<1>1. PInv => SuccessIsGranted
  BY Zenon DEF PInv, Verdict
<1> QED
  BY <1>1, VerdictInit, VerdictNext, PTL DEF Spec

\* A replayed verdict is that of the latest transaction of the process, for
\* the same user and service and inside the window (record_conclusion,
\* cached_from).
THEOREM LatestIsReplayed == Spec => LatestVerdictReplayed
<1>1. PInv /\ [Next]_vars =>
        [armed' = "cache" /\ armed # "cache" =>
            \E k \in Remembered :
                /\ \A j \in Remembered : j <= k
                /\ user[k] = user[n]
                /\ service[k] = service[n]
                /\ code'[n] = code[k]
                /\ age[k] < Window]_vars
  <2> SUFFICES ASSUME PInv, Next, armed' = "cache", armed # "cache"
               PROVE  \E k \in Remembered :
                        /\ \A j \in Remembered : j <= k
                        /\ user[k] = user[n]
                        /\ service[k] = service[n]
                        /\ code'[n] = code[k]
                        /\ age[k] < Window
    BY SMTT(30)
  <2>1. Replay
    BY ZenonT(30) DEF Next, CallingThread, Call, SetupEnds, ReturnEarly, StartFails, Start,
           SpawnFails, Spawn, Poll, Leave, DeadlinePassed, PollFails, PasswordFirst,
           ReadFrame, ConnectionLost, ReadPart, DialogDismissed, TtyRead, Join, Finish,
           WorkerStep, DaemonDecides, DaemonAnswers, Deliver, Tick
  <2>2. /\ pc = "enter" /\ n \in Calls /\ last # NoConclusion /\ service[n] # NoService
        /\ last.username = user[n] /\ last.service = service[n] /\ last.age < Window
        /\ code' = [code EXCEPT ![n] = last.code]
    BY SMTT(30), <2>1 DEF Replay, Ready, Reusable, Return, PInv, Shape
  <2>3. /\ last.call \in Calls /\ Done(last.call) /\ user[last.call] = user[n]
        /\ service[last.call] = service[n] /\ code[last.call] = last.code
        /\ status[last.call] # "new" /\ age[last.call] < Window /\ code'[n] = last.code
    BY SMTT(30), <2>2 DEF PInv, Shape, Verdict, Faithful, LastConclusion
  <2>4. last.call < n
    BY Zenon, <2>2, <2>3 DEF Done
  <2>5. \A j \in Remembered : j <= last.call
    BY SMTT(30) DEF Remembered, PInv, Verdict, Latest, Done
  <2>6. last.call \in Remembered
    BY Zenon, <2>2, <2>3, <2>4 DEF Remembered
  <2> QED
    BY Zenon, <2>3, <2>5, <2>6
<1> QED
  BY <1>1, VerdictInit, VerdictNext, PTL DEF Spec, LatestVerdictReplayed

-----------------------------------------------------------------------------
(* The daemon, as the module uses it. *)

\* Every step of the module and of its surroundings leaves the daemon alone or
\* is one the contract allows: a request is submitted once, and answered after
\* what backs the answer.
LEMMA ContractNext == PInv /\ [Next]_vars => [Daemon!Next]_daemonVars
<1> SUFFICES ASSUME PInv, [Next]_vars PROVE [Daemon!Next]_daemonVars
  BY Zenon
<1>1. CASE Start
  <2>1. n \in Calls /\ Daemon!Submit(n)
    BY Zenon, <1>1 DEF Start, Ready, PInv, Shape
  <2> QED
    BY Zenon, <2>1 DEF Daemon!Next
<1>2. ASSUME NEW k \in Calls, DaemonDecides(k) PROVE Daemon!Next
  BY Zenon, <1>2 DEF DaemonDecides, Daemon!Next, Daemon!Decisions
<1>3. CASE DaemonAnswers
  <2>1. n \in Calls
    BY Zenon, <1>3 DEF DaemonAnswers, Waiting, PInv, Shape
  <2> QED
    BY Zenon, <1>3, <2>1 DEF DaemonAnswers, Daemon!Next
<1>4. ASSUME ~Start, ~DaemonAnswers, \A k \in Calls : ~DaemonDecides(k)
      PROVE  UNCHANGED daemonVars
  <2>1. CASE UNCHANGED vars
    BY Zenon, <2>1 DEF vars, daemonVars
  <2>2. CASE Next
    BY <1>4, <2>2, ZenonT(30)
       DEF Next, CallingThread, Call, SetupEnds, ReturnEarly, Replay, StartFails,
           SpawnFails, Spawn, Poll, Leave, DeadlinePassed, PollFails, PasswordFirst,
           ReadFrame, ConnectionLost, ReadPart, DialogDismissed, TtyRead, Join, Finish,
           WorkerStep, Deliver, Tick
  <2> QED
    BY Zenon, <2>1, <2>2
<1> QED
  BY Zenon, <1>1, <1>2, <1>3, <1>4

\* The PAM module asks of the daemon only what the contract lets it, and gets
\* only what the contract gives: with ImplementsContract of AuthDaemonProofs
\* the two halves fit (start_authentication, IpcClient).
THEOREM UsesContract == Spec => Daemon!Spec
<1>1. Init => Daemon!Init
  BY Zenon DEF Init
<1> QED
  BY <1>1, VerdictInit, VerdictNext, ContractNext, PTL
     DEF Spec, Daemon!Spec, daemonVars, Daemon!contractVars

-----------------------------------------------------------------------------
(* The event loops. *)

\* The types of the variables that Shape leaves open.
LoopTypes ==
    /\ host \in Host
    /\ pc \in {"host", "enter", "spawn", "poll", "woken", "handle", "join",
               "finish"}
    /\ exit \in ExitReason
    /\ remain \in 0 .. Max({OpTimeout, GuiTimeout})
    /\ armed \in {"no", "real", "cache"}
    /\ rev \in Events
    /\ pollTty \in BOOLEAN
    /\ worker \in {"none", "asking", "store", "write", "gone"}
    /\ entered \in BOOLEAN
    /\ pipe \in BOOLEAN
    /\ wire \in 0 .. 2
    /\ got \in 0 .. 2
    /\ hungUp \in BOOLEAN
    /\ decided \subseteq Calls \X Daemon!Decisions

\* The connection carries the answer to the request of the call in progress,
\* poll returns with an event, and a loop left for a password has one.
Link ==
    /\ wire > 0 \/ hungUp => Waiting /\ status[n] = "answered"
    /\ wire > 0 => reply[n] # "closed"
    /\ got <= wire
    /\ pc \in {"woken", "handle"} => rev.ipc # {} \/ rev.other
    /\ \A k \in Calls : status[k] = "answered" => reply[k] \in Daemon!Replies
    /\ exit = "IpcResponseReceived" =>
          status[n] = "answered" /\ reply[n] \notin {"junk", "closed"}
    /\ exit = "PasswordEntered" => entered
    /\ entered => worker \in {"write", "gone"}
    /\ pc \in {"woken", "join"} => worker # "none"

LEMMA Limits ==
  /\ Max({OpTimeout, GuiTimeout}) \in Nat
  /\ 0 \in 0 .. Max({OpTimeout, GuiTimeout})
  /\ EffectiveTimeout \in 0 .. Max({OpTimeout, GuiTimeout})
<1> DEFINE S == {OpTimeout, GuiTimeout}
           T == {GuiTimeout, OpTimeout}
<1>1. OpTimeout \in Nat /\ GuiTimeout \in Nat
  BY Zenon, TimesAssumption
<1>2. \E x \in S : \A y \in S : x >= y
  BY <1>1
<1>3. Max(S) \in S /\ \A y \in S : Max(S) >= y
  BY Zenon, <1>2 DEF Max
<1>4. \E x \in T : \A y \in T : x <= y
  BY <1>1
<1>5. Min(T) \in T /\ \A y \in T : Min(T) <= y
  BY Zenon, <1>4 DEF Min
<1> HIDE DEF S, T
<1>6. Max(S) \in Nat /\ OpTimeout <= Max(S) /\ GuiTimeout <= Max(S)
  BY Zenon, <1>1, <1>3 DEF S
<1>7. Min(T) \in Nat /\ Min(T) <= OpTimeout
  BY Zenon, <1>1, <1>5 DEF T
<1>8. EffectiveTimeout \in {Min(T), OpTimeout}
  BY Zenon DEF EffectiveTimeout, T
<1> QED
  BY <1>1, <1>6, <1>7, <1>8 DEF S

LEMMA LoopInit == Init => LoopTypes /\ Link
<1> SUFFICES ASSUME Init PROVE LoopTypes /\ Link
  BY Zenon
<1>1. LoopTypes
  <2>1. /\ remain \in 0 .. Max({OpTimeout, GuiTimeout})
        /\ wire \in 0 .. 2 /\ got \in 0 .. 2
    BY Limits DEF Init
  <2>2. rev \in Events
    BY Zenon DEF Init, NoEvents, Events
  <2>3. host \in Host /\ decided \subseteq Calls \X Daemon!Decisions
    BY Zenon, HostsAssumption DEF Init, Daemon!Init
  <2> QED
    BY <2>1, <2>2, <2>3, ZenonT(30) DEF Init, LoopTypes, ExitReason
<1>2. Link
  BY DEF Init, Daemon!Init, Link, NoEvents
<1> QED
  BY Zenon, <1>1, <1>2

LEMMA TypesNext ==
  ASSUME PInv, LoopTypes, [Next]_vars
  PROVE  LoopTypes'
<1> USE DEF hostVars, returned, loopVars, threadVars, connVars, daemonVars
<1>a. NoEvents \in Events
  BY Zenon DEF NoEvents, Events
<1>r. ASSUME NEW c, Return(c), armed' \in {"no", "real", "cache"}, UNCHANGED daemonVars
      PROVE LoopTypes'
  <2>1. /\ remain' \in 0 .. Max({OpTimeout, GuiTimeout})
        /\ wire' \in 0 .. 2 /\ got' \in 0 .. 2
    BY <1>r, Limits DEF Return, LeaveConnection
  <2> QED
    BY <1>r, <1>a, <2>1, ZenonT(30) DEF Return, LeaveConnection, LoopTypes, ExitReason
<1>l. ASSUME NEW r \in ExitReason, Leave(r) PROVE LoopTypes'
  <2>1. /\ remain' \in 0 .. Max({OpTimeout, GuiTimeout})
        /\ wire' \in 0 .. 2 /\ got' \in 0 .. 2
    BY <1>l, Limits DEF Leave, LeaveConnection
  <2> QED
    BY <1>l, <1>a, <2>1, ZenonT(30) DEF Leave, LeaveConnection, LoopTypes
<1>1. ASSUME NEW u \in User, NEW sv \in Service \cup {NoService}, Call(u, sv)
      PROVE  LoopTypes'
  BY Zenon, <1>1 DEF Call, LoopTypes
<1>2. CASE SetupEnds \/ Replay \/ StartFails \/ SpawnFails \/ Finish
  <2>1. /\ \E c : Return(c)
        /\ armed' \in {"no", "real", "cache"}
        /\ UNCHANGED daemonVars
    BY Zenon, <1>2 DEF SetupEnds, ReturnEarly, Replay, StartFails, SpawnFails, Finish, LoopTypes
  <2> QED
    BY Zenon, <2>1, <1>r
<1>3. CASE Start
  BY Zenon, <1>3, Limits DEF Start, Daemon!Submit, HasTerminal, LoopTypes
<1>4. CASE Spawn
  BY Zenon, <1>4, Limits DEF Spawn, LoopTypes
<1>5. CASE Poll
  <2>1. PICK e \in IpcEvents, o \in BOOLEAN : rev' = [ipc |-> e, other |-> o]
    BY Zenon, <1>5 DEF Poll
  <2>2. e \in SUBSET {"in", "hup"}
    BY Zenon DEF IpcEvents
  <2>3. rev' \in Events
    BY Zenon, <2>1, <2>2 DEF Events
  <2> QED
    BY Zenon, <1>5, <2>3 DEF Poll, LoopTypes
<1>6. CASE \/ DeadlinePassed \/ PollFails \/ ReadFrame \/ ConnectionLost \/ DialogDismissed
  <2>1. \E r \in ExitReason : Leave(r)
    BY Zenon, <1>6 DEF DeadlinePassed, PollFails, ReadFrame, ConnectionLost, DialogDismissed,
                ExitReason
  <2> QED
    BY Zenon, <2>1, <1>l
<1>7. CASE PasswordFirst
  <2>1. CASE Leave("PasswordEntered")
    BY Zenon, <2>1, <1>l DEF ExitReason
  <2>2. CASE ~Leave("PasswordEntered")
    BY Zenon, <1>7, <2>2 DEF PasswordFirst, LoopTypes
  <2> QED
    BY Zenon, <2>1, <2>2
<1>8. CASE ReadPart
  <2>1. rev' \in Events
    <3>1. [rev EXCEPT !.ipc = {}] \in Events
      BY Zenon DEF LoopTypes, Events
    <3> QED
      BY Zenon, <1>8, <1>a, <3>1 DEF ReadPart
  <2> QED
    BY Zenon, <1>8, <2>1 DEF ReadPart, LoopTypes
<1>9. CASE TtyRead
  <2>1. CASE Leave("Skip")
    BY Zenon, <2>1, <1>l DEF ExitReason
  <2>2. CASE ~Leave("Skip")
    BY Zenon, <1>9, <1>a, <2>2 DEF TtyRead, LoopTypes
  <2> QED
    BY Zenon, <2>1, <2>2
<1>10. CASE Join
  BY Zenon, <1>10 DEF Join, LoopTypes
<1>11. CASE WorkerStep
  BY <1>11 DEF WorkerStep, WorkerReturns, WorkerSignals, WorkerCancelled, LoopTypes
<1>12. ASSUME NEW k \in Calls, DaemonDecides(k) PROVE LoopTypes'
  <2>1. PICK d \in {"grant", "denial"} : decided' = decided \cup {<<k, d>>}
    BY Zenon, <1>12 DEF DaemonDecides, Daemon!Decide
  <2>2. decided' \subseteq Calls \X Daemon!Decisions
    BY <2>1 DEF LoopTypes, Daemon!Decisions
  <2> QED
    BY <1>12, <2>2 DEF DaemonDecides, LoopTypes
<1>13. CASE DaemonAnswers
  BY <1>13 DEF DaemonAnswers, Daemon!Answer, LoopTypes
<1>14. CASE Deliver
  <2>1. wire' \in 0 .. 2
    BY <1>14 DEF Deliver, LoopTypes
  <2>2. hungUp' \in BOOLEAN
    BY <1>14, ZenonT(30) DEF Deliver, LoopTypes
  <2> QED
    BY <1>14, <2>1, <2>2 DEF Deliver, LoopTypes
<1>15. CASE Tick
  <2>1. remain' \in 0 .. Max({OpTimeout, GuiTimeout})
    BY <1>15, Limits DEF Tick, LoopTypes
  <2> QED
    BY <1>15, <2>1 DEF Tick, LoopTypes
<1>16. CASE UNCHANGED vars
  BY <1>16 DEF vars, LoopTypes
<1> QED
  BY Zenon, <1>1, <1>2, <1>3, <1>4, <1>5, <1>6, <1>7, <1>8, <1>9, <1>10, <1>11, <1>12,
     <1>13, <1>14, <1>15, <1>16 DEF Next, CallingThread

LEMMA LinkNext ==
  ASSUME PInv, Thread, LoopTypes, Link, [Next]_vars
  PROVE  Link'
<1> USE DEF hostVars, returned, loopVars, threadVars, connVars, daemonVars
<1>r. ASSUME NEW c, Return(c), UNCHANGED daemonVars PROVE Link'
  BY <1>r DEF Return, LeaveConnection, Link
<1>l. ASSUME NEW r, Leave(r), pc \in {"poll", "woken", "handle"},
             r = "PasswordEntered" => entered,
             r = "IpcResponseReceived" =>
                status[n] = "answered" /\ reply[n] \notin {"junk", "closed"}
      PROVE  Link'
  BY <1>l DEF Leave, LeaveConnection, Link
<1>1. ASSUME NEW u \in User, NEW sv \in Service \cup {NoService}, Call(u, sv)
      PROVE  Link'
  <2>1. wire = 0 /\ ~hungUp /\ exit = "none"
    BY <1>1 DEF Call, Link, LoopTypes, Waiting, Thread
  <2> QED
    BY <1>1, <2>1 DEF Call, Link
<1>2. CASE SetupEnds \/ Replay \/ StartFails \/ SpawnFails \/ Finish
  <2>1. (\E c : Return(c)) /\ UNCHANGED daemonVars
    BY Zenon, <1>2 DEF SetupEnds, ReturnEarly, Replay, StartFails, SpawnFails, Finish
  <2> QED
    BY Zenon, <2>1, <1>r
<1>3. CASE Start
  <2>1. wire = 0 /\ ~hungUp /\ exit = "none" /\ n \in Calls
    BY <1>3 DEF Start, Ready, Link, LoopTypes, Waiting, Thread, PInv, Shape
  <2>2. status' = [status EXCEPT ![n] = "open"]
    BY Zenon, <1>3 DEF Start, Daemon!Submit
  <2>3. \A k \in Calls : status'[k] = "answered" => status[k] = "answered"
    BY Zenon, <2>1, <2>2 DEF PInv, Shape
  <2>4. pc' \in {"spawn", "poll"} /\ UNCHANGED <<reply, wire, got, hungUp, exit, entered, worker>>
    BY Zenon, <1>3 DEF Start, Daemon!Submit
  <2> QED
    BY <2>1, <2>3, <2>4 DEF Link
<1>4. CASE Spawn
  <2>1. ~entered /\ exit = "none"
    BY Zenon, <1>4 DEF Spawn, Thread, Link
  <2> QED
    BY Zenon, <1>4, <2>1 DEF Spawn, Link, Waiting
<1>5. CASE Poll
  <2>1. PICK e \in IpcEvents, o \in BOOLEAN :
          /\ e # {} \/ o
          /\ rev' = [ipc |-> e, other |-> o]
    BY Zenon, <1>5 DEF Poll
  <2>2. rev'.ipc # {} \/ rev'.other
    BY Zenon, <2>1
  <2> QED
    BY Zenon, <1>5, <2>2 DEF Poll, Link, Waiting
<1>6. CASE \/ DeadlinePassed \/ PollFails \/ ConnectionLost \/ DialogDismissed
  <2>1. pc \in {"poll", "woken", "handle"} /\
        \E r \in {"Timeout", "IpcError", "PasswordFailed"} : Leave(r)
    BY Zenon, <1>6 DEF DeadlinePassed, PollFails, ConnectionLost, DialogDismissed
  <2> QED
    BY Zenon, <2>1, <1>l
<1>7. CASE ReadFrame
  <2>1. wire > 0 /\ reply[n] # "closed"
    BY <1>7 DEF ReadFrame, Frame
  <2>2. status[n] = "answered"
    BY Zenon, <2>1 DEF Link
  <2> QED
    BY Zenon, <1>7, <2>1, <2>2, <1>l DEF ReadFrame
<1>8. CASE PasswordFirst
  <2>1. CASE entered
    BY Zenon, <1>8, <2>1, <1>l DEF PasswordFirst
  <2>2. CASE ~entered
    BY Zenon, <1>8, <2>2 DEF PasswordFirst, Link, Waiting
  <2> QED
    BY Zenon, <2>1, <2>2
<1>9. CASE ReadPart
  <2>1. /\ pc = "handle" /\ pc' \in {"handle", "poll"} /\ got' = wire
        /\ UNCHANGED <<n, exit, worker, entered, wire, hungUp, status, reply>>
    BY Zenon, <1>9 DEF ReadPart
  <2>2. pc' = "handle" => rev'.other
    <3> SUFFICES ASSUME pc' = "handle" PROVE rev'.other
      BY Zenon
    <3>1. rev' = [rev EXCEPT !.ipc = {}] /\ rev.other
      BY Zenon, <1>9 DEF ReadPart
    <3> QED
      BY Zenon, <3>1 DEF LoopTypes, Events
  <2> QED
    BY <2>1, <2>2 DEF Link, Waiting, LoopTypes
<1>10. CASE TtyRead
  <2>1. CASE Leave("Skip")
    BY Zenon, <1>10, <2>1, <1>l DEF TtyRead
  <2>2. CASE ~Leave("Skip")
    BY <1>10, <2>2 DEF TtyRead, Link, Waiting
  <2> QED
    BY Zenon, <2>1, <2>2
<1>11. CASE Join
  BY Zenon, <1>11 DEF Join, Link, Waiting
<1>12. CASE WorkerStep
  <2>1. /\ UNCHANGED <<n, pc, exit, rev, wire, got, hungUp, status, reply>>
        /\ worker # "none" /\ worker' # "none"
        /\ entered => entered'
        /\ entered' => worker' \in {"write", "gone"}
    BY <1>12 DEF WorkerStep, WorkerReturns, WorkerSignals, WorkerCancelled, Link
  <2> QED
    BY Zenon, <2>1 DEF Link, Waiting
<1>13. ASSUME NEW k \in Calls, DaemonDecides(k) PROVE Link'
  BY Zenon, <1>13 DEF DaemonDecides, Daemon!Decide, Link, Waiting
<1>14. CASE DaemonAnswers
  <2>1. PICK o \in Daemon!Replies : Daemon!Answer(n, o)
    BY Zenon, <1>14 DEF DaemonAnswers
  <2>2. /\ n \in Calls /\ status[n] = "open" /\ pc \in {"spawn", "poll", "woken", "handle"}
        /\ UNCHANGED <<n, pc, exit, rev, wire, got, hungUp, entered, worker>>
        /\ status' = [status EXCEPT ![n] = "answered"]
        /\ reply' = [reply EXCEPT ![n] = o]
    BY <1>14, <2>1, ZenonT(30) DEF DaemonAnswers, Daemon!Answer, Waiting, PInv, Shape
  <2>3. wire = 0 /\ ~hungUp /\ exit = "none"
    BY <2>2 DEF Link, LoopTypes, Thread
  <2>4. \A k \in Calls : status'[k] = "answered" => reply'[k] \in Daemon!Replies
    BY Zenon, <2>2 DEF Link, PInv, Shape
  <2> QED
    BY Zenon, <2>2, <2>3, <2>4 DEF Link
<1>15. CASE Deliver
  <2>1. /\ Waiting' /\ status[n] = "answered"
        /\ UNCHANGED <<n, pc, exit, rev, got, entered, worker, status, reply>>
    BY Zenon, <1>15 DEF Deliver, Waiting
  <2>2. wire' >= wire /\ (wire' > 0 => reply[n] # "closed")
    BY <1>15 DEF Deliver, Link, LoopTypes
  <2>3. got <= wire'
    BY <1>15, <2>2 DEF Link, LoopTypes, Deliver
  <2> QED
    BY Zenon, <2>1, <2>2, <2>3 DEF Link
<1>16. CASE Tick
  BY Zenon, <1>16 DEF Tick, Link, Waiting
<1>17. CASE UNCHANGED vars
  BY Zenon, <1>17 DEF vars, Link, Waiting
<1> QED
  BY Zenon, <1>1, <1>2, <1>3, <1>4, <1>5, <1>6, <1>7, <1>8, <1>9, <1>10, <1>11, <1>12,
     <1>13, <1>14, <1>15, <1>16, <1>17 DEF Next, CallingThread

LInv == PInv /\ Thread /\ LoopTypes /\ Link

LEMMA LoopAlways == Spec => []LInv
<1>1. Init => LInv
  BY Zenon, VerdictInit, ThreadInit, LoopInit DEF LInv
<1>2. LInv /\ [Next]_vars => LInv'
  BY Zenon, VerdictNext, ThreadNext, TypesNext, LinkNext DEF LInv
<1> QED
  BY <1>1, <1>2, PTL DEF Spec

\* Every variable keeps its type, the deadline included, which never exceeds
\* the longer of the two timeouts (effective_timeout_secs).
THEOREM TypeCorrect == Spec => []TypeOK
<1>1. LInv => TypeOK
  BY Zenon DEF LInv, PInv, Shape, LoopTypes, TypeOK, Daemon!ContractTypeOK
<1> QED
  BY <1>1, LoopAlways, PTL

\* Wherever a call is past its poll it has a step: what poll reported can be
\* handled, and pthread_join waits for a thread that is gone, about to signal,
\* or has been cancelled in its prompt.
WayOn ==
    /\ pc = "handle" =>
         \/ Frame
         \/ "hup" \in rev.ipc
         \/ rev.ipc = {"in"}
         \/ rev.ipc = {} /\ (worker = "none" \/ rev.other)
    /\ pc = "join" =>
         \/ worker \in {"store", "write", "gone"}
         \/ worker = "asking" /\ CancelsWorker

\* No way out of the event loops wedges the call: not a join of a thread that
\* still prompts, not an event that no branch takes (run_gui_event_loop,
\* run_terminal_event_loop, cancel_and_join).
THEOREM NeverWedged == Spec => []WayOn
<1>1. LInv => WayOn
  <2> SUFFICES ASSUME LInv PROVE WayOn
    BY Zenon
  <2>1. ASSUME pc = "handle"
        PROVE  \/ "hup" \in rev.ipc
               \/ rev.ipc = {"in"}
               \/ rev.ipc = {} /\ (worker = "none" \/ rev.other)
    <3>1. rev.ipc \subseteq {"in", "hup"}
      BY Zenon DEF LInv, LoopTypes, Events
    <3>2. rev.ipc # {} \/ rev.other
      BY Zenon, <2>1 DEF LInv, Link
    <3> QED
      BY Zenon, <3>1, <3>2
  <2>2. ASSUME pc = "join"
        PROVE  \/ worker \in {"store", "write", "gone"}
               \/ worker = "asking" /\ CancelsWorker
    BY Zenon, <2>2 DEF LInv, LoopTypes, Link, Thread, CancelsWorker
  <2> QED
    BY Zenon, <2>1, <2>2 DEF WayOn
<1> QED
  BY <1>1, LoopAlways, PTL

\* What the call takes for a response is one.
ResponseIsAnswer ==
    exit = "IpcResponseReceived" =>
        /\ status[n] = "answered"
        /\ reply[n] \in Daemon!Replies \ {"junk", "closed"}

\* A response that ends the loop is the daemon's whole answer to this request:
\* never part of a frame, a closed connection or one of another call
\* (try_read_response_nonblocking).
THEOREM ResponsesAreAnswers == Spec => []ResponseIsAnswer
<1>1. LInv => ResponseIsAnswer
  <2> SUFFICES ASSUME LInv, exit = "IpcResponseReceived"
               PROVE  /\ status[n] = "answered"
                      /\ reply[n] \in Daemon!Replies \ {"junk", "closed"}
    BY Zenon DEF ResponseIsAnswer
  <2>1. status[n] = "answered" /\ reply[n] \notin {"junk", "closed"} /\ pc # "host"
    BY Zenon DEF LInv, Link, Thread
  <2>2. n \in Calls
    BY Zenon, <2>1 DEF LInv, PInv, Shape
  <2> QED
    BY Zenon, <2>1, <2>2 DEF LInv, Link
<1> QED
  BY <1>1, LoopAlways, PTL

-----------------------------------------------------------------------------
(* Denials. *)

\* PAM_PERM_DENIED is a phone's word: the request it goes back to was denied
\* by a phone and answered so, for the same user and service.
Source(k, j) ==
    /\ code[j] = "PERM_DENIED"
    /\ user[j] = user[k]
    /\ reply[j] = "denied"
    /\ <<j, "denial">> \in decided
    /\ j # k => service[j] = service[k] /\ service[k] # NoService

DenialIsSigned ==
    \A k \in Calls : code[k] = "PERM_DENIED" => \E j \in 1 .. k : Source(k, j)

DInv ==
    /\ \A k \in Calls : reply[k] = "denied" => <<k, "denial">> \in decided
    /\ DenialIsSigned

\* A step that lets be what returned calls are told by keeps their sources.
LEMMA SourcesKept ==
  ASSUME PInv, DInv, decided \subseteq decided',
         \A k \in Calls : code'[k] = "PERM_DENIED" => code[k] = "PERM_DENIED",
         \A k \in Calls : code[k] # "none" =>
            /\ code'[k] = code[k] /\ user'[k] = user[k] /\ service'[k] = service[k]
            /\ reply'[k] = reply[k]
  PROVE  DenialIsSigned'
<1> SUFFICES ASSUME NEW k \in Calls, code'[k] = "PERM_DENIED"
             PROVE  \E j \in 1 .. k : Source(k, j)'
  BY Zenon DEF DenialIsSigned
<1>1. PICK j \in 1 .. k : Source(k, j)
  BY Zenon DEF DInv, DenialIsSigned
<1>2. j \in Calls /\ code[j] # "none" /\ code[k] # "none"
  BY <1>1, CallsAssumption DEF Source, Calls
<1>3. Source(k, j)'
  BY Zenon, <1>1, <1>2 DEF Source
<1> QED
  BY Zenon, <1>3

LEMMA DenialNext == PInv /\ DInv /\ [Next]_vars => DInv'
<1> SUFFICES ASSUME PInv, DInv, [Next]_vars PROVE DInv'
  BY Zenon
<1> USE DEF hostVars, returned, loopVars, threadVars, connVars, daemonVars
<1>1. ASSUME UNCHANGED <<code, user, service, reply>>, decided \subseteq decided'
      PROVE  DInv'
  <2>1. DenialIsSigned'
    BY Zenon, <1>1, SourcesKept
  <2> QED
    BY Zenon, <1>1, <2>1 DEF DInv
<1>2. ASSUME NEW u \in User, NEW sv \in Service \cup {NoService}, Call(u, sv)
      PROVE  DInv'
  <2>1. /\ pc = "host" /\ n + 1 \in Calls /\ n \in Nat
        /\ user' = [user EXCEPT ![n + 1] = u] /\ service' = [service EXCEPT ![n + 1] = sv]
        /\ UNCHANGED <<code, reply, decided>>
    BY <1>2, CallsAssumption DEF Call, PInv, Shape, Calls
  <2>2. code[n + 1] = "none"
    BY <2>1 DEF PInv, Verdict, Done
  <2>3. \A k \in Calls : code[k] # "none" => user'[k] = user[k] /\ service'[k] = service[k]
    BY Zenon, <2>1, <2>2 DEF PInv, Shape
  <2>4. DenialIsSigned'
    BY Zenon, <2>1, <2>3, SourcesKept
  <2> QED
    BY Zenon, <2>1, <2>4 DEF DInv
<1>3. ASSUME NEW c \in Codes, Return(c), pc # "host", UNCHANGED daemonVars,
             c = "PERM_DENIED" =>
                \E j \in 1 .. n :
                    /\ j = n \/ code[j] = "PERM_DENIED"
                    /\ user[j] = user[n]
                    /\ reply[j] = "denied"
                    /\ j # n => service[j] = service[n] /\ service[n] # NoService
      PROVE  DInv'
  <2>1. /\ UNCHANGED <<n, user, service, reply, decided>> /\ n \in Calls /\ n \in Nat
        /\ code' = [code EXCEPT ![n] = c]
    BY <1>3, CallsAssumption DEF Return, PInv, Shape, Calls
  <2>2. \A k \in Calls : code'[k] = (IF k = n THEN c ELSE code[k])
    BY Zenon, <2>1 DEF PInv, Shape
  <2>3. code[n] = "none"
    BY <1>3, <2>1 DEF PInv, Verdict, Done
  <2>4. DenialIsSigned'
    <3>1. CASE c # "PERM_DENIED"
      BY Zenon, <2>1, <2>2, <2>3, <3>1, SourcesKept
    <3>2. CASE c = "PERM_DENIED"
      <4> SUFFICES ASSUME NEW k \in Calls, code'[k] = "PERM_DENIED"
                   PROVE  \E j \in 1 .. k : Source(k, j)'
        BY Zenon DEF DenialIsSigned
      <4>1. CASE k = n
        <5>1. PICK j \in 1 .. n :
                /\ j = n \/ code[j] = "PERM_DENIED"
                /\ user[j] = user[n]
                /\ reply[j] = "denied"
                /\ j # n => service[j] = service[n] /\ service[n] # NoService
          BY Zenon, <1>3, <3>2
        <5>2. j \in Calls
          BY <2>1, CallsAssumption DEF Calls
        <5>3. code'[j] = "PERM_DENIED" /\ <<j, "denial">> \in decided
          BY Zenon, <2>2, <3>2, <5>1, <5>2 DEF DInv
        <5>4. Source(k, j)'
          BY Zenon, <2>1, <4>1, <5>1, <5>3 DEF Source
        <5> QED
          BY Zenon, <4>1, <5>4
      <4>2. CASE k # n
        <5>1. code[k] = "PERM_DENIED"
          BY Zenon, <2>2, <4>2
        <5>2. PICK j \in 1 .. k : Source(k, j)
          BY Zenon, <5>1 DEF DInv, DenialIsSigned
        <5>3. j \in Calls /\ j # n
          BY <2>3, <5>2, CallsAssumption DEF Calls, Source
        <5>4. Source(k, j)'
          BY Zenon, <2>1, <2>2, <5>2, <5>3 DEF Source
        <5> QED
          BY Zenon, <5>4
      <4> QED
        BY Zenon, <4>1, <4>2
    <3> QED
      BY Zenon, <3>1, <3>2
  <2> QED
    BY Zenon, <2>1, <2>4 DEF DInv
<1>4. CASE SetupEnds \/ StartFails \/ SpawnFails
  <2>1. /\ \E c \in Codes \ {"PERM_DENIED"} : Return(c)
        /\ pc # "host" /\ UNCHANGED daemonVars
    BY Zenon, <1>4 DEF SetupEnds, ReturnEarly, StartFails, Ready, SpawnFails, Codes
  <2> QED
    BY Zenon, <2>1, <1>3
<1>5. CASE Replay
  <2>1. pc = "enter" /\ Return(last.code) /\ UNCHANGED daemonVars
    BY Zenon, <1>5 DEF Replay, Ready
  <2>2. /\ last # NoConclusion /\ last.username = user[n] /\ last.service = service[n]
        /\ service[n] # NoService
    BY Zenon, <1>5 DEF Replay, Reusable
  <2>3. /\ last.call \in Calls /\ last.call < n /\ n \in Calls /\ last.code \in Codes
        /\ user[last.call] = user[n] /\ service[last.call] = service[n]
        /\ code[last.call] = last.code
    BY SMTT(30), <2>1, <2>2 DEF PInv, Shape, Verdict, Faithful, Done, LastConclusion
  <2>4. ASSUME last.code = "PERM_DENIED"
        PROVE  \E j \in 1 .. n :
                 /\ j = n \/ code[j] = "PERM_DENIED"
                 /\ user[j] = user[n]
                 /\ reply[j] = "denied"
                 /\ j # n => service[j] = service[n] /\ service[n] # NoService
    <3> DEFINE m == last.call
    <3>1. /\ m \in Calls /\ code[m] = "PERM_DENIED" /\ DenialIsSigned
          /\ m < n /\ n \in Calls /\ user[m] = user[n] /\ service[m] = service[n]
      BY Zenon, <2>3, <2>4 DEF DInv
    <3> HIDE DEF m
    <3>2. PICK j \in 1 .. m : Source(m, j)
      BY Zenon, <3>1 DEF DenialIsSigned
    <3>3. j \in 1 .. n
      BY <3>1 DEF Calls
    <3> QED
      BY Zenon, <2>2, <3>1, <3>2, <3>3 DEF Source
  <2> QED
    BY Zenon, <2>1, <2>3, <2>4, <1>3
<1>6. CASE Finish
  <2>1. pc = "finish" /\ n \in Calls /\ Return(FinalOutcome) /\ UNCHANGED daemonVars
    BY Zenon, <1>6 DEF Finish, PInv, Shape
  <2>2. FinalOutcome = "PERM_DENIED" => reply[n] = "denied"
    BY Zenon DEF FinalOutcome, MapPamOutcome, OutcomeFromRaw
  <2>3. n \in 1 .. n
    BY <2>1 DEF Calls
  <2> HIDE DEF FinalOutcome
  <2> QED
    BY Zenon, <2>1, <2>2, <2>3, OutcomeIsCode, <1>3
<1>7. CASE DaemonAnswers
  <2>1. PICK o \in Daemon!Replies : Daemon!Answer(n, o)
    BY Zenon, <1>7 DEF DaemonAnswers
  <2>2. /\ pc # "host" /\ n \in Calls /\ UNCHANGED <<n, code, user, service, decided>>
        /\ reply' = [reply EXCEPT ![n] = o]
        /\ o = "denied" => <<n, "denial">> \in decided
    BY <1>7, <2>1, ZenonT(30)
       DEF DaemonAnswers, Waiting, Daemon!Answer, Daemon!Backed, PInv, Shape
  <2>3. code[n] = "none"
    BY <2>2, CallsAssumption DEF PInv, Verdict, Done, Calls
  <2>4. \A k \in Calls : reply'[k] = (IF k = n THEN o ELSE reply[k])
    BY Zenon, <2>2 DEF PInv, Shape
  <2>5. DenialIsSigned'
    BY Zenon, <2>2, <2>3, <2>4, SourcesKept
  <2> QED
    BY Zenon, <2>2, <2>4, <2>5 DEF DInv
<1>8. CASE \/ Start \/ Spawn \/ Poll \/ DeadlinePassed \/ PollFails \/ PasswordFirst
           \/ ReadFrame \/ ConnectionLost \/ ReadPart \/ DialogDismissed \/ TtyRead
           \/ Join \/ WorkerStep \/ Deliver \/ Tick \/ \E k \in Calls : DaemonDecides(k)
  <2>1. UNCHANGED <<code, user, service, reply>> /\ decided \subseteq decided'
    BY Zenon, <1>8 DEF Leave, Start, Spawn, Poll, DeadlinePassed, PollFails, PasswordFirst,
                ReadFrame, ConnectionLost, ReadPart, DialogDismissed, TtyRead, Join,
                WorkerStep, Deliver, Tick, DaemonDecides, Daemon!Submit, Daemon!Decide
  <2> QED
    BY Zenon, <2>1, <1>1
<1>9. CASE UNCHANGED vars
  BY Zenon, <1>9, <1>1 DEF vars
<1> QED
  BY SMTT(30), <1>2, <1>4, <1>5, <1>6, <1>7, <1>8, <1>9 DEF Next, CallingThread

\* PAM_PERM_DENIED always goes back to a phone's denial of a request of this
\* process for the same user and service, by whatever number of replays: no
\* local failure, lost connection or unknown outcome refuses a user
\* (map_pam_outcome, reusable_conclusion).
THEOREM DenialsAreSigned == Spec => []DenialIsSigned
<1>1. Init => DInv
  BY Zenon, CallsAssumption DEF Init, Daemon!Init, DInv, DenialIsSigned
<1>2. DInv => DenialIsSigned
  BY Zenon DEF DInv
<1> QED
  BY <1>1, <1>2, VerdictInit, VerdictNext, DenialNext, PTL DEF Spec

=============================================================================
