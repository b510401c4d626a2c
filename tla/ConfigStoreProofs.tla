-------------------------- MODULE ConfigStoreProofs --------------------------
(***************************************************************************)
(* The files of tapauthd through any number of requests, crashes and       *)
(* failing file operations, for all phones and keypairs.                   *)
(***************************************************************************)
EXTENDS ConfigStore, TLAPS

CK == "client_key"
Csk == "client_symmetric_key"
List == "paired_servers.json"
Toml == "config.toml"
Host == "client_config.json"

Has(q, o) == \E i \in 1 .. Len(q) : q[i] = o

\* What every request's list of operations keeps to, and what is left of it
\* after each of them does: the settings are only ever rewritten, by a
\* SaveConfig; the list of phones is written by a pairing or a removal; the
\* keypair is written once, after it has been removed where that is planned.
Plan(r, q) ==
    /\ q \in Seq(Operation)
    /\ \A i \in 1 .. Len(q) :
         /\ q[i].file # "client_key.tpm"
         /\ q[i].file \in {Toml, Host} => r = "save" /\ q[i].do = "write"
         /\ q[i] = Write(List) => r \in {"complete", "remove"}
         /\ q[i].file = Csk => q[i].do = "write"
         /\ q[i].file = CK => q[i].do \in {"rm", "write"}
    /\ \A i, j \in 1 .. Len(q) :
         /\ q[i] = Write(CK) /\ q[j] = Write(CK) => i = j
         /\ q[i] = Write(CK) /\ q[j] = Rm(CK) => j < i

LEMMA HeadAndTail ==
  ASSUME NEW q \in Seq(Operation), q # <<>>
  PROVE  /\ Head(q) = q[1] /\ Head(q) \in Operation /\ Len(q) \in Nat /\ Len(q) > 0
         /\ Tail(q) \in Seq(Operation) /\ Len(Tail(q)) = Len(q) - 1
         /\ \A i \in 1 .. Len(Tail(q)) : i + 1 \in 1 .. Len(q) /\ Tail(q)[i] = q[i + 1]
OBVIOUS

LEMMA TailHas ==
  ASSUME NEW q \in Seq(Operation), q # <<>>, NEW o
  PROVE  Has(q, o) <=> Head(q) = o \/ Has(Tail(q), o)
<1>1. ASSUME NEW i \in 1 .. Len(q), q[i] = o, i # 1
      PROVE  Has(Tail(q), o)
  <2>1. i - 1 \in 1 .. Len(Tail(q)) /\ Tail(q)[i - 1] = o
    BY <1>1, HeadAndTail
  <2> QED
    BY Zenon, <2>1 DEF Has
<1>2. ASSUME Has(Tail(q), o) PROVE Has(q, o)
  BY <1>2, HeadAndTail DEF Has
<1>3. 1 \in 1 .. Len(q)
  BY HeadAndTail
<1> QED
  BY Zenon, <1>1, <1>2, <1>3, HeadAndTail DEF Has

LEMMA PlanTail ==
  ASSUME NEW r, NEW q, Plan(r, q), q # <<>>
  PROVE  /\ Plan(r, Tail(q))
         /\ Head(q) \in Operation
         /\ Head(q).file # "client_key.tpm"
         /\ Head(q).file \in {Toml, Host} => r = "save" /\ Head(q).do = "write"
         /\ Head(q) = Write(List) => r \in {"complete", "remove"}
         /\ Head(q).file = Csk => Head(q).do = "write"
         /\ Head(q).file = CK => Head(q).do \in {"rm", "write"}
         /\ Head(q) = Write(CK) => ~Has(Tail(q), Write(CK)) /\ ~Has(q, Rm(CK))
<1>1. q \in Seq(Operation) /\ 1 \in 1 .. Len(q)
  BY HeadAndTail DEF Plan
<1>2. Plan(r, Tail(q))
  <2>1. \A i \in 1 .. Len(Tail(q)) : i + 1 \in 1 .. Len(q) /\ Tail(q)[i] = q[i + 1]
    BY Zenon, <1>1, HeadAndTail
  <2>2. Tail(q) \in Seq(Operation)
    BY Zenon, <1>1, HeadAndTail
  <2>3. \A i \in 1 .. Len(Tail(q)) :
          /\ Tail(q)[i].file # "client_key.tpm"
          /\ Tail(q)[i].file \in {Toml, Host} => r = "save" /\ Tail(q)[i].do = "write"
          /\ Tail(q)[i] = Write(List) => r \in {"complete", "remove"}
          /\ Tail(q)[i].file = Csk => Tail(q)[i].do = "write"
          /\ Tail(q)[i].file = CK => Tail(q)[i].do \in {"rm", "write"}
    BY Zenon, <2>1 DEF Plan
  <2>4. ASSUME NEW i \in 1 .. Len(Tail(q)), NEW j \in 1 .. Len(Tail(q))
        PROVE  /\ Tail(q)[i] = Write(CK) /\ Tail(q)[j] = Write(CK) => i = j
               /\ Tail(q)[i] = Write(CK) /\ Tail(q)[j] = Rm(CK) => j < i
    <3>1. /\ q[i + 1] = Write(CK) /\ q[j + 1] = Write(CK) => i + 1 = j + 1
          /\ q[i + 1] = Write(CK) /\ q[j + 1] = Rm(CK) => j + 1 < i + 1
      BY Zenon, <2>1 DEF Plan
    <3> QED
      BY <2>1, <3>1
  <2> QED
    BY Zenon, <2>2, <2>3, <2>4 DEF Plan
<1>3. Head(q) = q[1]
  BY Zenon, <1>1, HeadAndTail
<1>4. ASSUME Head(q) = Write(CK) PROVE ~Has(Tail(q), Write(CK)) /\ ~Has(q, Rm(CK))
  <2>1. ~Has(Tail(q), Write(CK))
    <3> SUFFICES ASSUME NEW i \in 1 .. Len(Tail(q)), Tail(q)[i] = Write(CK) PROVE FALSE
      BY Zenon DEF Has
    <3>1. i + 1 \in 1 .. Len(q) /\ q[i + 1] = Write(CK) /\ i + 1 # 1
      BY <1>1, HeadAndTail
    <3> QED
      BY Zenon, <1>1, <1>3, <1>4, <3>1 DEF Plan
  <2>2. ~Has(q, Rm(CK))
    <3> SUFFICES ASSUME NEW j \in 1 .. Len(q), q[j] = Rm(CK) PROVE FALSE
      BY Zenon DEF Has
    <3>1. j < 1
      BY Zenon, <1>1, <1>3, <1>4 DEF Plan
    <3> QED
      BY <1>1, <3>1, HeadAndTail
  <2> QED
    BY Zenon, <2>1, <2>2
<1>5. Head(q) \in Operation
  BY Zenon, <1>1, HeadAndTail
<1> QED
  BY Zenon, <1>1, <1>2, <1>3, <1>4, <1>5 DEF Plan

-----------------------------------------------------------------------------
(* The plans of the requests. *)

LEMMA Ops ==
  ASSUME NEW f \in Files
  PROVE  /\ Rm(f) \in Operation /\ Try(f) \in Operation /\ Write(f) \in Operation
         /\ Rm(f).do = "rm" /\ Try(f).do = "try" /\ Write(f).do = "write"
         /\ Rm(f).file = f /\ Try(f).file = f /\ Write(f).file = f
BY Zenon DEF Rm, Try, Write, Operation

LEMMA NoPlan == ASSUME NEW r PROVE Plan(r, <<>>)
BY DEF Plan

LEMMA ShortPlans ==
  /\ Plan("start", <<Write(CK)>>)
  /\ Plan("complete", <<Write(Csk)>>)
  /\ Plan("complete", <<Write(Csk), Write(List)>>)
  /\ Plan("remove", <<Write(List)>>)
  /\ Plan("rotate", RotateOps)
  /\ Plan("save", <<Write(Toml), Write(Host)>>)
BY DEF Plan, RotateOps, Rm, Try, Write, Operation, Files, CK, Csk, List, Toml, Host

LEMMA Concat ==
  ASSUME NEW p \in Seq(Operation), NEW q \in Seq(Operation)
  PROVE  /\ p \o q \in Seq(Operation) /\ Len(p \o q) = Len(p) + Len(q)
         /\ \A i \in 1 .. Len(p) : (p \o q)[i] = p[i]
         /\ \A i \in 1 .. Len(q) : (p \o q)[Len(p) + i] = q[i]
OBVIOUS

LEMMA ConcatHas ==
  ASSUME NEW p \in Seq(Operation), NEW q \in Seq(Operation), NEW o
  PROVE  Has(p \o q, o) <=> Has(p, o) \/ Has(q, o)
<1> DEFINE pq == p \o q
<1>1. /\ pq \in Seq(Operation) /\ Len(pq) = Len(p) + Len(q)
      /\ \A i \in 1 .. Len(p) : pq[i] = p[i]
      /\ \A i \in 1 .. Len(q) : pq[Len(p) + i] = q[i]
  BY Zenon, Concat
<1>2. Len(p) \in Nat /\ Len(q) \in Nat
  OBVIOUS
<1> HIDE DEF pq
<1>3. ASSUME NEW i \in 1 .. Len(pq), pq[i] = o PROVE Has(p, o) \/ Has(q, o)
  <2>1. CASE i \in 1 .. Len(p)
    BY Zenon, <1>1, <1>3, <2>1 DEF Has
  <2>2. CASE i \notin 1 .. Len(p)
    <3>1. i - Len(p) \in 1 .. Len(q) /\ i = Len(p) + (i - Len(p))
      BY <1>1, <1>2, <2>2
    <3>2. q[i - Len(p)] = o
      BY Zenon, <1>1, <1>3, <3>1
    <3> QED
      BY Zenon, <3>1, <3>2 DEF Has
  <2> QED
    BY Zenon, <2>1, <2>2
<1>4. ASSUME NEW i \in 1 .. Len(p), p[i] = o PROVE Has(pq, o)
  <2>1. i \in 1 .. Len(pq) /\ pq[i] = o
    BY <1>1, <1>2, <1>4
  <2> QED
    BY Zenon, <2>1 DEF Has
<1>5. ASSUME NEW i \in 1 .. Len(q), q[i] = o PROVE Has(pq, o)
  <2>1. Len(p) + i \in 1 .. Len(pq) /\ pq[Len(p) + i] = o
    BY <1>1, <1>2, <1>5
  <2> QED
    BY Zenon, <2>1 DEF Has
<1>6. Has(pq, o) <=> Has(p, o) \/ Has(q, o)
  BY Zenon, <1>3, <1>4, <1>5 DEF Has
<1> QED
  BY Zenon, <1>6 DEF pq

\* Two plans one after the other, with the keypair written in one of them and
\* not removed in the second after it was written in the first.
LEMMA PlanConcat ==
  ASSUME NEW r, NEW p, NEW q, Plan(r, p), Plan(r, q),
         Has(p, Write(CK)) => ~Has(q, Write(CK)) /\ ~Has(q, Rm(CK))
  PROVE  Plan(r, p \o q)
<1> DEFINE pq == p \o q
<1>0. p \in Seq(Operation) /\ q \in Seq(Operation)
  BY Zenon DEF Plan
<1>1. /\ pq \in Seq(Operation) /\ Len(pq) = Len(p) + Len(q)
      /\ \A i \in 1 .. Len(p) : pq[i] = p[i]
      /\ \A i \in 1 .. Len(q) : pq[Len(p) + i] = q[i]
  BY Zenon, <1>0, Concat
<1>2. Len(p) \in Nat /\ Len(q) \in Nat
  BY <1>0
<1> HIDE DEF pq
<1>3. ASSUME NEW i \in 1 .. Len(pq), i \notin 1 .. Len(p)
      PROVE  i - Len(p) \in 1 .. Len(q) /\ pq[i] = q[i - Len(p)]
  <2>1. i - Len(p) \in 1 .. Len(q) /\ i = Len(p) + (i - Len(p))
    BY <1>1, <1>2, <1>3
  <2> QED
    BY Zenon, <1>1, <2>1
<1>4. ASSUME NEW i \in 1 .. Len(pq)
      PROVE  /\ pq[i].file # "client_key.tpm"
             /\ pq[i].file \in {Toml, Host} => r = "save" /\ pq[i].do = "write"
             /\ pq[i] = Write(List) => r \in {"complete", "remove"}
             /\ pq[i].file = Csk => pq[i].do = "write"
             /\ pq[i].file = CK => pq[i].do \in {"rm", "write"}
  <2>1. CASE i \in 1 .. Len(p)
    BY Zenon, <1>1, <2>1 DEF Plan
  <2>2. CASE i \notin 1 .. Len(p)
    BY Zenon, <1>3, <2>2 DEF Plan
  <2> QED
    BY Zenon, <2>1, <2>2
<1>5. ASSUME NEW i \in 1 .. Len(pq), NEW j \in 1 .. Len(pq), pq[i] = Write(CK)
      PROVE  /\ pq[j] = Write(CK) => i = j
             /\ pq[j] = Rm(CK) => j < i
  <2>1. CASE i \in 1 .. Len(p) /\ j \in 1 .. Len(p)
    BY SMTT(30), <1>1, <1>5, <2>1 DEF Plan
  <2>2. CASE i \in 1 .. Len(p) /\ j \notin 1 .. Len(p)
    <3>1. Has(p, Write(CK))
      BY Zenon, <1>1, <1>5, <2>2 DEF Has
    <3>2. pq[j] # Write(CK) /\ pq[j] # Rm(CK)
      BY Zenon, <1>3, <2>2, <3>1 DEF Has
    <3> QED
      BY Zenon, <3>2
  <2>3. CASE i \notin 1 .. Len(p) /\ j \in 1 .. Len(p)
    <3>1. Has(q, Write(CK))
      BY Zenon, <1>3, <1>5, <2>3 DEF Has
    <3>2. pq[j] # Write(CK)
      BY Zenon, <1>1, <2>3, <3>1 DEF Has
    <3>3. j < i
      BY <1>1, <1>2, <2>3
    <3> QED
      BY Zenon, <3>2, <3>3
  <2>4. CASE i \notin 1 .. Len(p) /\ j \notin 1 .. Len(p)
    <3>1. /\ i - Len(p) \in 1 .. Len(q) /\ pq[i] = q[i - Len(p)]
          /\ j - Len(p) \in 1 .. Len(q) /\ pq[j] = q[j - Len(p)]
      BY Zenon, <1>3, <2>4
    <3>2. /\ pq[j] = Write(CK) => i - Len(p) = j - Len(p)
          /\ pq[j] = Rm(CK) => j - Len(p) < i - Len(p)
      BY SMTT(30), <1>5, <3>1 DEF Plan
    <3> QED
      BY <1>1, <1>2, <3>2
  <2> QED
    BY Zenon, <2>1, <2>2, <2>3, <2>4
<1>6. Plan(r, pq)
  BY Zenon, <1>1, <1>4, <1>5 DEF Plan
<1> QED
  BY Zenon, <1>6 DEF pq

\* recover_from_tpm_failure, in both storage modes.
LEMMA RecoverPlan ==
  /\ Plan("recover", RecoverOps)
  /\ Has(RecoverOps, Rm(CK)) /\ Has(RecoverOps, Rm(List)) /\ Has(RecoverOps, Write(Csk))
  /\ ~UseTpm => Has(RecoverOps, Write(CK))
<1> DEFINE a == <<Rm("client_key.pub"), Rm("client_key.priv"), Rm("client_key"),
                  Rm("paired_servers.json")>>
<1> USE DEF Rm, Try, Write, Operation, Files, CK, Csk, List, Toml, Host
<1>1. /\ Plan("recover", a) /\ ~Has(a, Write(CK))
      /\ Has(a, Rm(CK)) /\ Has(a, Rm(List))
  BY DEF Plan, Has
<1>2. /\ Plan("recover", RotateOps) /\ ~Has(RotateOps, Write(CK))
      /\ ~Has(RotateOps, Rm(CK)) /\ Has(RotateOps, Write(Csk))
  BY DEF Plan, Has, RotateOps
<1>3. Plan("recover", <<Write(CK)>>) /\ Has(<<Write(CK)>>, Write(CK))
  BY DEF Plan, Has
<1>4. Plan("recover", SealData)
  BY DEF Plan, SealData
<1> HIDE DEF Rm, Try, Write, a
<1>5. Plan("recover", SaveKeypair) /\ (~UseTpm => Has(SaveKeypair, Write(CK)))
  BY Zenon, <1>3, <1>4 DEF SaveKeypair
<1>6. /\ Plan("recover", a \o SaveKeypair)
      /\ Has(a \o SaveKeypair, Rm(CK)) /\ Has(a \o SaveKeypair, Rm(List))
      /\ ~UseTpm => Has(a \o SaveKeypair, Write(CK))
  <2>1. a \in Seq(Operation) /\ SaveKeypair \in Seq(Operation)
    BY Zenon, <1>1, <1>5 DEF Plan
  <2>2. Plan("recover", a \o SaveKeypair)
    BY Zenon, <1>1, <1>5, PlanConcat
  <2>3. \A o : Has(a \o SaveKeypair, o) <=> Has(a, o) \/ Has(SaveKeypair, o)
    BY Zenon, <2>1, ConcatHas
  <2> QED
    BY Zenon, <1>1, <1>5, <2>2, <2>3
<1>7. /\ Plan("recover", (a \o SaveKeypair) \o RotateOps)
      /\ Has((a \o SaveKeypair) \o RotateOps, Rm(CK))
      /\ Has((a \o SaveKeypair) \o RotateOps, Rm(List))
      /\ Has((a \o SaveKeypair) \o RotateOps, Write(Csk))
      /\ ~UseTpm => Has((a \o SaveKeypair) \o RotateOps, Write(CK))
  <2> DEFINE b == a \o SaveKeypair
  <2>1. Plan("recover", b) /\ b \in Seq(Operation) /\ RotateOps \in Seq(Operation)
    BY SMTT(30), <1>2, <1>6 DEF Plan
  <2> HIDE DEF b
  <2>2. Plan("recover", b \o RotateOps)
    BY Zenon, <1>2, <2>1, PlanConcat
  <2>3. \A o : Has(b \o RotateOps, o) <=> Has(b, o) \/ Has(RotateOps, o)
    BY Zenon, <2>1, ConcatHas
  <2> QED
    BY Zenon, <1>2, <1>6, <2>2, <2>3 DEF b
<1> QED
  BY Zenon, <1>7 DEF RecoverOps, a

-----------------------------------------------------------------------------
(* What every group of facts below rests on. *)

Base ==
    /\ st \in [Files -> {"missing", "torn", "wide", "whole"}]
    /\ Plan(req, todo)
    /\ writing => todo # <<>> /\ Head(todo).do = "write"
    /\ proc # "up" => todo = <<>> /\ req = "none"
    /\ st["client_key.tpm"] = "missing"
    /\ req = "start" /\ todo # <<>> => Len(todo) = 1 /\ Head(todo) = Write(CK)

\* Nothing creates client_key.tpm, so that no keypair is loaded from the TPM,
\* and a StartPairing that goes on is one with plain files.
LEMMA LoadsPlain ==
  ASSUME Base, LoadKeypair \in {"ok", "invalid"}
  PROVE  ~UseTpm /\ LoadKeypair = LoadBytes(CK) /\ StoredKey = key
BY Zenon DEF Base, LoadKeypair, LoadSealedKeypair, StoredKey, CK

LEMMA BaseInit == Init => Base
BY Zenon, NoPlan DEF Init, Base, Files

LEMMA BaseNext == Base /\ [Next]_vars => Base'
<1> SUFFICES ASSUME Base, [Next]_vars PROVE Base'
  BY Zenon
<1> USE DEF Base, fileVars, requestVars, historyVars
<1>1. CASE Start
  BY Zenon, <1>1 DEF Start
<1>2. ASSUME NEW k \in Key, StartPairing(k) PROVE Base'
  <2>1. CASE LoadKeypair = "ok"
    BY Zenon, <1>2, <2>1, NoPlan DEF StartPairing, Begin, Idle
  <2>2. CASE LoadKeypair = "invalid"
    <3>1. SaveKeypair = <<Write(CK)>>
      BY Zenon, <2>2, LoadsPlain DEF SaveKeypair, CK
    <3>2. todo' = <<Write(CK)>> /\ req' = "start" /\ ~writing'
      BY Zenon, <1>2, <2>2, <3>1 DEF StartPairing, Begin
    <3>3. Len(todo') = 1 /\ Head(todo') = Write(CK)
      BY <3>2
    <3>4. UNCHANGED <<st, proc>> /\ proc = "up"
      BY Zenon, <1>2, <2>2 DEF StartPairing, Begin, Idle
    <3> QED
      BY Zenon, <3>2, <3>3, <3>4, ShortPlans
  <2> QED
    BY Zenon, <1>2, <2>1, <2>2 DEF StartPairing
<1>3. ASSUME NEW k \in Key, RecoverTpm(k) PROVE Base'
  BY Zenon, <1>3, RecoverPlan DEF RecoverTpm, Begin, Idle
<1>4. ASSUME NEW p \in Phone, CompletePairing(p) PROVE Base'
  <2>1. Plan("complete", <<Write("client_symmetric_key")>> \o
                          (IF Readable("paired_servers.json")
                           THEN <<Write("paired_servers.json")>> ELSE <<>>))
    <3>1. Plan("complete", <<Write(Csk)>>) /\ Plan("complete", <<Write(List)>>)
          /\ ~Has(<<Write(Csk)>>, Write(CK))
      BY DEF Plan, Has, Write, Rm, Operation, Files, CK, Csk, List, Toml, Host
    <3>2. Plan("complete", IF Readable("paired_servers.json")
                           THEN <<Write("paired_servers.json")>> ELSE <<>>)
      BY Zenon, <3>1, NoPlan DEF List
    <3> QED
      BY Zenon, <3>1, <3>2, PlanConcat DEF Csk
  <2> QED
    BY <1>4, <2>1, NoPlan, ZenonT(30) DEF CompletePairing, Begin, Idle
<1>5. ASSUME NEW p \in Phone, RemoveDevice(p) PROVE Base'
  BY Zenon, <1>5, ShortPlans, NoPlan DEF RemoveDevice, Begin, Idle, List
<1>6. CASE PairingEnds
  BY Zenon, <1>6 DEF PairingEnds
<1>7. CASE RotateCsk
  BY Zenon, <1>7, ShortPlans DEF RotateCsk, Begin, Idle
<1>8. CASE SaveConfig
  BY Zenon, <1>8, ShortPlans DEF SaveConfig, Begin, Idle, Toml, Host
<1>9. CASE EditToml
  BY Zenon, <1>9 DEF EditToml, Files
<1>10. CASE BeginWrite
  <2>0. todo # <<>> /\ Plan(req, todo)
    BY Zenon, <1>10 DEF BeginWrite
  <2>1. Op \in Operation /\ Op.file # "client_key.tpm"
    BY <2>0, PlanTail, ZenonT(30) DEF Op
  <2> QED
    BY <1>10, <2>1 DEF BeginWrite, Op, Operation
<1>11. CASE EndWrite
  <2>1. Op \in Operation /\ Op.file # "client_key.tpm" /\ Plan(req, Tail(todo))
    BY <1>11, PlanTail DEF EndWrite, Op
  <2>2. req = "start" => Tail(todo) = <<>>
    BY <1>11 DEF EndWrite, Plan
  <2> QED
    BY <1>11, <2>1, <2>2 DEF EndWrite, Operation
<1>12. CASE Remove
  <2>1. Op \in Operation /\ Op.file # "client_key.tpm" /\ Plan(req, Tail(todo))
    BY Zenon, <1>12, PlanTail DEF Remove, Op
  <2>2. req # "start" /\ ~writing
    BY <1>12, Ops DEF Remove, Op, Write
  <2> QED
    BY <1>12, <2>1, <2>2 DEF Remove, Operation
<1>13. CASE OperationFails
  <2>1. Plan(req, Tail(todo))
    BY Zenon, <1>13, PlanTail DEF OperationFails
  <2>2. CASE Op.do = "try"
    <3>1. req # "start" /\ ~writing
      BY <1>13, <2>2 DEF OperationFails, Op, Write
    <3> QED
      BY <1>13, <2>1, <2>2, <3>1, ZenonT(30) DEF OperationFails
  <2>3. CASE Op.do # "try"
    BY <1>13, <2>3, NoPlan DEF OperationFails, Files
  <2> QED
    BY Zenon, <2>2, <2>3
<1>14. CASE Respond
  BY Zenon, <1>14, NoPlan DEF Respond
<1>15. CASE Crash
  BY Zenon, <1>15, NoPlan DEF Crash
<1>16. CASE UNCHANGED vars
  BY Zenon, <1>16 DEF vars
<1> QED
  BY Zenon, <1>1, <1>2, <1>3, <1>4, <1>5, <1>6, <1>7, <1>8, <1>9, <1>10, <1>11, <1>12,
     <1>13, <1>14, <1>15, <1>16 DEF Next

\* The write of f is under way.
InWrite(f) == writing /\ todo # <<>> /\ Head(todo) = Write(f)

\* What the operation that is due does to a file.
LEMMA DueOperation ==
  ASSUME Base, todo # <<>>
  PROVE  /\ Op \in Operation /\ Op.file \in Files
         /\ Plan(req, Tail(todo))
         /\ \A f : Op.do = "write" /\ Op.file = f <=> Op = Write(f)
         /\ Op.file \in {Toml, Host} => req = "save" /\ Op.do = "write"
         /\ Op = Write(List) => req \in {"complete", "remove"}
         /\ Op.file = Csk => Op.do = "write"
         /\ Op.file = CK => Op.do \in {"rm", "write"}
         /\ Op = Write(CK) => ~Has(Tail(todo), Write(CK)) /\ ~Has(todo, Rm(CK))
<1>1. Plan(req, todo)
  BY Zenon DEF Base
<1>2. Op \in Operation /\ Plan(req, Tail(todo))
  BY <1>1, PlanTail, ZenonT(30) DEF Op
<1>3. \A f : Op.do = "write" /\ Op.file = f <=> Op = Write(f)
  BY <1>2 DEF Operation, Write
<1>4. /\ Op.file \in {Toml, Host} => req = "save" /\ Op.do = "write"
      /\ Op = Write(List) => req \in {"complete", "remove"}
      /\ Op.file = Csk => Op.do = "write"
      /\ Op.file = CK => Op.do \in {"rm", "write"}
      /\ Op = Write(CK) => ~Has(Tail(todo), Write(CK)) /\ ~Has(todo, Rm(CK))
  BY <1>1, PlanTail, ZenonT(30) DEF Op
<1> QED
  BY Zenon, <1>2, <1>3, <1>4 DEF Operation

-----------------------------------------------------------------------------
(* The storage mode. *)

\* Unless a SaveConfig was interrupted, config.toml is whole or being written,
\* and holds what the administrator chose, as does what is written to it.
Mode ==
    "save" \notin cut =>
        /\ st[Toml] = "whole" \/ InWrite(Toml)
        /\ tpm = chosen /\ tpm \in BOOLEAN
        /\ req = "save" => new.tpm = chosen

LEMMA ModeInit == Init => Mode
BY Zenon DEF Init, Mode, Toml, Files

LEMMA ModeNext == Base /\ Mode /\ [Next]_vars => Mode'
<1> SUFFICES ASSUME Base, Mode, [Next]_vars PROVE Mode'
  BY Zenon
<1> USE DEF fileVars, requestVars, historyVars
<1>1. CASE Start
  BY Zenon, <1>1 DEF Start, Mode, InWrite
<1>2. ASSUME NEW k \in Key, StartPairing(k) PROVE Mode'
  <2>1. UNCHANGED <<st, tpm, chosen, cut>> /\ req' # "save" /\ todo = <<>>
    BY Zenon, <1>2 DEF StartPairing, Begin, Idle
  <2> QED
    BY Zenon, <2>1 DEF Mode, InWrite
<1>3. ASSUME NEW k \in Key, RecoverTpm(k) PROVE Mode'
  <2>1. UNCHANGED <<st, tpm, chosen, cut>> /\ req' # "save" /\ todo = <<>>
    BY Zenon, <1>3 DEF RecoverTpm, Begin, Idle
  <2> QED
    BY Zenon, <2>1 DEF Mode, InWrite
<1>4. ASSUME NEW p \in Phone, CompletePairing(p) PROVE Mode'
  <2>1. UNCHANGED <<st, tpm, chosen, cut>> /\ req' # "save" /\ todo = <<>>
    BY Zenon, <1>4 DEF CompletePairing, Begin, Idle
  <2> QED
    BY Zenon, <2>1 DEF Mode, InWrite
<1>5. ASSUME NEW p \in Phone, RemoveDevice(p) PROVE Mode'
  <2>1. UNCHANGED <<st, tpm, chosen, cut>> /\ req' # "save" /\ todo = <<>>
    BY Zenon, <1>5 DEF RemoveDevice, Begin, Idle
  <2> QED
    BY Zenon, <2>1 DEF Mode, InWrite
<1>6. CASE PairingEnds
  BY Zenon, <1>6 DEF PairingEnds, Mode, InWrite
<1>7. CASE RotateCsk
  <2>1. UNCHANGED <<st, tpm, chosen, cut>> /\ req' # "save" /\ todo = <<>>
    BY Zenon, <1>7 DEF RotateCsk, Begin, Idle
  <2> QED
    BY Zenon, <2>1 DEF Mode, InWrite
<1>8. CASE SaveConfig
  <2>1. UNCHANGED <<st, tpm, chosen, cut>> /\ todo = <<>> /\ new'.tpm = UseTpm
    BY Zenon, <1>8 DEF SaveConfig, Begin, Idle, Same
  <2> QED
    BY Zenon, <2>1 DEF UseTpm, Toml, Mode, InWrite
<1>9. CASE EditToml
  <2>1. st'[Toml] = "whole" /\ tpm' = chosen' /\ tpm' \in BOOLEAN /\ req' = req
    BY Zenon, <1>9 DEF EditToml, Base, Toml, Files
  <2>2. req = "none"
    BY Zenon, <1>9 DEF EditToml, Idle, Base
  <2> QED
    BY Zenon, <2>1, <2>2 DEF Mode, InWrite
<1>10. CASE BeginWrite
  <2>1. /\ todo # <<>> /\ todo' = todo /\ writing' /\ UNCHANGED <<req, new, chosen, cut>>
        /\ ~writing /\ Op.do = "write"
    BY Zenon, <1>10 DEF BeginWrite
  <2>2. CASE Op.file = Toml
    <3>1. InWrite(Toml)' /\ req = "save" /\ tpm' = new.tpm
      BY Zenon, <1>10, <2>1, <2>2, DueOperation DEF BeginWrite, Content, InWrite, Op, Toml
    <3> QED
      BY Zenon, <2>1, <3>1 DEF Mode, InWrite
  <2>3. CASE Op.file # Toml
    <3>1. tpm' = tpm /\ st'[Toml] = st[Toml]
      BY Zenon, <1>10, <2>3 DEF BeginWrite, Content, Base, Toml, Files
    <3> QED
      BY Zenon, <2>1, <3>1 DEF Mode, InWrite
  <2> QED
    BY Zenon, <2>2, <2>3
<1>11. CASE EndWrite
  <2>1. todo # <<>> /\ UNCHANGED <<req, new, chosen, cut, tpm>>
    BY Zenon, <1>11 DEF EndWrite
  <2>2. CASE Op.file = Toml
    <3>1. st'[Toml] = "whole"
      BY Zenon, <1>11, <2>2 DEF EndWrite, Base, Toml, Files
    <3> QED
      BY Zenon, <2>1, <3>1 DEF Mode, InWrite
  <2>3. CASE Op.file # Toml
    <3>1. ~InWrite(Toml)
      BY <2>3 DEF Op, Write, InWrite
    <3>2. st'[Toml] = st[Toml]
      BY Zenon, <1>11, <2>3 DEF EndWrite, Base, Toml, Files
    <3> QED
      BY Zenon, <2>1, <3>1, <3>2 DEF Mode, InWrite
  <2> QED
    BY Zenon, <2>2, <2>3
<1>12. CASE Remove
  <2>1. UNCHANGED <<req, new, chosen, cut, tpm>> /\ ~writing
    BY Zenon, <1>12 DEF Remove, Base, Op
  <2>2. Op.file # Toml
    BY Zenon, <1>12, DueOperation DEF Remove
  <2>3. st'[Toml] = st[Toml]
    BY Zenon, <1>12, <2>2 DEF Remove, Base, Toml, Files
  <2> QED
    BY Zenon, <2>1, <2>3 DEF Mode, InWrite
<1>13. CASE OperationFails
  <2>1. UNCHANGED <<req, new, chosen, tpm>> /\ cut' = cut \cup {req} /\ todo # <<>>
    BY Zenon, <1>13 DEF OperationFails
  <2>2. st'[Toml] = st[Toml]
    BY Zenon, <1>13 DEF OperationFails, Base, Toml, Files
  <2>3. InWrite(Toml) => req = "save"
    BY Zenon, <2>1, DueOperation DEF Op, Write, InWrite
  <2> QED
    BY Zenon, <2>1, <2>2, <2>3 DEF Mode, InWrite
<1>14. CASE Respond
  <2>1. UNCHANGED <<st, tpm, chosen, cut>> /\ todo = <<>> /\ req' = "none"
    BY Zenon, <1>14 DEF Respond
  <2> QED
    BY Zenon, <2>1 DEF Mode, InWrite
<1>15. CASE Crash
  <2>1. /\ UNCHANGED <<st, tpm, chosen>> /\ req' = "none"
        /\ cut' = IF todo = <<>> THEN cut ELSE cut \cup {req}
    BY Zenon, <1>15 DEF Crash
  <2>2. InWrite(Toml) => req = "save"
    BY Zenon, DueOperation DEF Op, Write, InWrite
  <2> QED
    BY Zenon, <2>1, <2>2 DEF Mode, InWrite
<1>16. CASE UNCHANGED vars
  BY Zenon, <1>16 DEF vars, Mode, InWrite
<1> QED
  BY Zenon, <1>1, <1>2, <1>3, <1>4, <1>5, <1>6, <1>7, <1>8, <1>9, <1>10, <1>11, <1>12,
     <1>13, <1>14, <1>15, <1>16 DEF Next

-----------------------------------------------------------------------------
(* Starting again. *)

BadlyCut == cut \cap {"complete", "remove", "save"} # {}

\* The list and the hostname can be read, unless their write is under way or
\* was interrupted.
Restart ==
    /\ \A f \in {List, Host} : Readable(f) \/ InWrite(f) \/ BadlyCut
    /\ proc = "failed" => BadlyCut

LEMMA RestartInit == Init => Restart
BY Zenon DEF Init, Restart, Readable, List, Host, Files

LEMMA RestartNext == Base /\ Restart /\ [Next]_vars => Restart'
<1> SUFFICES ASSUME Base, Restart, [Next]_vars PROVE Restart'
  BY Zenon
<1> USE DEF fileVars, requestVars, historyVars
<1>1. CASE Start
  <2>1. UNCHANGED <<st, cut>> /\ todo = <<>>
    BY Zenon, <1>1 DEF Start, Base
  <2>2. proc' = "failed" => ~Readable(List) \/ ~Readable(Host)
    BY Zenon, <1>1 DEF Start, List, Host, Readable
  <2> QED
    BY Zenon, <2>1, <2>2 DEF Restart, InWrite, Readable, BadlyCut
<1>2. ASSUME NEW k \in Key, StartPairing(k) PROVE Restart'
  <2>1. UNCHANGED <<st, cut, proc>> /\ todo = <<>>
    BY Zenon, <1>2 DEF StartPairing, Begin, Idle
  <2> QED
    BY Zenon, <2>1 DEF Restart, InWrite, Readable, BadlyCut
<1>3. ASSUME NEW k \in Key, RecoverTpm(k) PROVE Restart'
  <2>1. UNCHANGED <<st, cut, proc>> /\ todo = <<>>
    BY Zenon, <1>3 DEF RecoverTpm, Begin, Idle
  <2> QED
    BY Zenon, <2>1 DEF Restart, InWrite, Readable, BadlyCut
<1>4. ASSUME NEW p \in Phone, CompletePairing(p) PROVE Restart'
  <2>1. UNCHANGED <<st, cut, proc>> /\ todo = <<>>
    BY Zenon, <1>4 DEF CompletePairing, Begin, Idle
  <2> QED
    BY Zenon, <2>1 DEF Restart, InWrite, Readable, BadlyCut
<1>5. ASSUME NEW p \in Phone, RemoveDevice(p) PROVE Restart'
  <2>1. UNCHANGED <<st, cut, proc>> /\ todo = <<>>
    BY Zenon, <1>5 DEF RemoveDevice, Begin, Idle
  <2> QED
    BY Zenon, <2>1 DEF Restart, InWrite, Readable, BadlyCut
<1>6. CASE PairingEnds
  BY Zenon, <1>6 DEF PairingEnds, Restart, InWrite, Readable, BadlyCut
<1>7. CASE RotateCsk
  <2>1. UNCHANGED <<st, cut, proc>> /\ todo = <<>>
    BY Zenon, <1>7 DEF RotateCsk, Begin, Idle
  <2> QED
    BY Zenon, <2>1 DEF Restart, InWrite, Readable, BadlyCut
<1>8. CASE SaveConfig
  <2>1. UNCHANGED <<st, cut, proc>> /\ todo = <<>>
    BY Zenon, <1>8 DEF SaveConfig, Begin, Idle
  <2> QED
    BY Zenon, <2>1 DEF Restart, InWrite, Readable, BadlyCut
<1>9. CASE EditToml
  <2>1. UNCHANGED <<cut, proc, todo, writing>> /\ \A f \in {List, Host} : st'[f] = st[f]
    BY Zenon, <1>9 DEF EditToml, Base, Files, List, Host
  <2> QED
    BY Zenon, <2>1 DEF Restart, InWrite, Readable, BadlyCut
<1>10. CASE BeginWrite
  <2>1. /\ todo # <<>> /\ todo' = todo /\ writing' /\ UNCHANGED <<cut, proc>>
        /\ ~writing /\ Op.do = "write"
    BY Zenon, <1>10 DEF BeginWrite
  <2>2. \A f \in {List, Host} : Op.file = f => InWrite(f)'
    BY Zenon, <2>1, DueOperation DEF Op, InWrite
  <2>3. \A f \in {List, Host} : Op.file # f => st'[f] = st[f]
    BY Zenon, <1>10 DEF BeginWrite, Base, Files, List, Host
  <2> QED
    BY Zenon, <2>1, <2>2, <2>3 DEF Restart, InWrite, Readable, BadlyCut
<1>11. CASE EndWrite
  <2>1. UNCHANGED <<cut, proc>>
    BY Zenon, <1>11 DEF EndWrite
  <2>2. \A f \in {List, Host} : Op.file = f => st'[f] = "whole"
    BY Zenon, <1>11 DEF EndWrite, Base, Files, List, Host
  <2>3. \A f \in {List, Host} : Op.file # f => st'[f] = st[f] /\ ~InWrite(f)
    BY <1>11 DEF EndWrite, Base, Files, List, Host, Op, Write, InWrite
  <2> QED
    BY Zenon, <2>1, <2>2, <2>3 DEF Restart, InWrite, Readable, BadlyCut
<1>12. CASE Remove
  <2>1. UNCHANGED <<cut, proc>> /\ ~writing
    BY Zenon, <1>12 DEF Remove, Base, Op
  <2>2. \A f \in {List, Host} : st'[f] = "missing" \/ st'[f] = st[f]
    BY Zenon, <1>12 DEF Remove, Base, Files, List, Host
  <2> QED
    BY Zenon, <2>1, <2>2 DEF Restart, InWrite, Readable, BadlyCut
<1>13. CASE OperationFails
  <2>1. UNCHANGED proc /\ cut' = cut \cup {req} /\ todo # <<>>
    BY Zenon, <1>13 DEF OperationFails
  <2>2. \A f \in {List, Host} : st'[f] = st[f]
    BY Zenon, <1>13 DEF OperationFails, Base, Files, List, Host
  <2>3. InWrite(List) \/ InWrite(Host) => req \in {"complete", "remove", "save"}
    BY Zenon, <2>1, DueOperation DEF Op, Write, InWrite
  <2> QED
    BY <2>1, <2>2, <2>3, ZenonT(30) DEF Restart, InWrite, Readable, BadlyCut
<1>14. CASE Respond
  <2>1. UNCHANGED <<st, cut, proc>> /\ todo = <<>>
    BY Zenon, <1>14 DEF Respond, Begin, Idle
  <2> QED
    BY Zenon, <2>1 DEF Restart, InWrite, Readable, BadlyCut
<1>15. CASE Crash
  <2>1. /\ UNCHANGED st /\ proc' = "down"
        /\ cut' = IF todo = <<>> THEN cut ELSE cut \cup {req}
    BY Zenon, <1>15 DEF Crash
  <2>2. InWrite(List) \/ InWrite(Host) => req \in {"complete", "remove", "save"}
    BY Zenon, DueOperation DEF Op, Write, InWrite
  <2> QED
    BY Zenon, <2>1, <2>2 DEF Restart, InWrite, Readable, BadlyCut
<1>16. CASE UNCHANGED vars
  BY Zenon, <1>16 DEF vars, Restart, InWrite, Readable, BadlyCut
<1> QED
  BY Zenon, <1>1, <1>2, <1>3, <1>4, <1>5, <1>6, <1>7, <1>8, <1>9, <1>10, <1>11, <1>12,
     <1>13, <1>14, <1>15, <1>16 DEF Next

-----------------------------------------------------------------------------
(* The identity of the client. *)

\* A keypair that phones may have been shown: the stored one, or one that a
\* recovery has deleted.
Shown(k) == k \in retired \/ (st[CK] = "whole" /\ k = key)

\* A keypair is never written over: its file is missing, or removed first, and
\* a phone is listed only once it knows a keypair that was shown.
Identity ==
    /\ st[CK] # "torn"
    /\ st[CK] = "whole" /\ Has(todo, Write(CK)) => Has(todo, Rm(CK))
    /\ InWrite(CK) => key = new.key
    /\ \A p \in Phone : knows[p] # NoKey => Shown(knows[p])
    /\ session # NoKey => Shown(session) \/ (req = "start" /\ todo # <<>> /\ new.key = session)
    /\ \A p \in Phone : p \in listed \/ p \in new.list => knows[p] # NoKey
    /\ knows \in [Phone -> Key \cup {NoKey}] /\ session \in Key \cup {NoKey}
    /\ listed \subseteq Phone /\ new.list \subseteq Phone

LEMMA IdentityInit == Init => Identity
BY DEF Init, Identity, Nothing, InWrite, Has, CK, Files

LEMMA NothingDue == ASSUME NEW o PROVE ~Has(<<>>, o)
BY DEF Has

LEMMA HasDue ==
  ASSUME Base, todo # <<>>, NEW o
  PROVE  Has(todo, o) <=> Op = o \/ Has(Tail(todo), o)
<1>1. todo \in Seq(Operation)
  BY SMTT(30) DEF Base, Plan
<1> QED
  BY Zenon, <1>1, TailHas DEF Op

LEMMA IdentityNext == Base /\ Identity /\ [Next]_vars => Identity'
<1> SUFFICES ASSUME Base, Identity, [Next]_vars PROVE Identity'
  BY Zenon
<1> USE DEF fileVars, requestVars, historyVars
<1>1. CASE Start
  BY Zenon, <1>1 DEF Start, Identity, Shown, InWrite
<1>2. ASSUME NEW k \in Key, StartPairing(k) PROVE Identity'
  <2>1. /\ UNCHANGED <<st, key, listed, knows, retired>> /\ ~writing' /\ session' = k
        /\ todo = <<>> /\ new'.list \subseteq listed /\ req' = "start"
    BY SMTT(30), <1>2 DEF StartPairing, Begin, Idle, Same, ServersList
  <2>2. CASE LoadKeypair = "ok"
    <3>1. todo' = <<>> /\ k = key /\ st[CK] = "whole"
      BY SMTT(30), <1>2, <2>2, LoadsPlain
         DEF StartPairing, Begin, LoadBytes, Base, Files, CK
    <3> QED
      BY Zenon, <2>1, <3>1, NothingDue DEF Identity, Shown, InWrite
  <2>3. CASE LoadKeypair = "invalid"
    <3>1. st[CK] # "whole"
      BY Zenon, <2>3, LoadsPlain DEF LoadBytes
    <3>2. todo' # <<>> /\ new'.key = k
      BY SMTT(30), <1>2, <2>3, LoadsPlain DEF StartPairing, Begin, SaveKeypair, Same
    <3> QED
      BY Zenon, <2>1, <3>1, <3>2 DEF Identity, Shown, InWrite
  <2> QED
    BY Zenon, <1>2, <2>2, <2>3 DEF StartPairing
<1>3. ASSUME NEW k \in Key, RecoverTpm(k) PROVE Identity'
  <2>1. /\ UNCHANGED <<st, key, listed, knows, retired, session>> /\ ~writing'
        /\ todo = <<>> /\ new'.list \subseteq listed
    BY Zenon, <1>3 DEF RecoverTpm, Begin, Idle, Same, ServersList
  <2>2. ~Has(todo', Write(CK)) \/ Has(todo', Rm(CK))
    BY SMTT(30), <1>3, RecoverPlan DEF RecoverTpm, Begin
  <2> QED
    BY Zenon, <2>1, <2>2 DEF Identity, Shown, InWrite
<1>4. ASSUME NEW p \in Phone, CompletePairing(p) PROVE Identity'
  <2>1. /\ UNCHANGED <<st, key, listed, retired>> /\ ~writing' /\ session' = NoKey
        /\ todo = <<>> /\ session # NoKey
    BY SMTT(30), <1>4 DEF CompletePairing, Begin, Idle
  <2>2. Shown(session)
    BY Zenon, <2>1 DEF Identity
  <2>3. \/ knows' = knows /\ new'.list \subseteq listed
        \/ knows' = [knows EXCEPT ![p] = session] /\ new'.list \subseteq listed \cup {p}
    BY <1>4 DEF CompletePairing, Begin, Same, ServersList
  <2>4. ~Has(todo', Write(CK))
    <3> DEFINE a == <<Write(Csk)>>
               b == IF Readable(List) THEN <<Write(List)>> ELSE <<>>
    <3>1. todo' = a \o b \/ todo' = <<>>
      BY Zenon, <1>4 DEF CompletePairing, Begin, Csk, List
    <3>2. a \in Seq(Operation) /\ b \in Seq(Operation)
      <4>1. Write(Csk) \in Operation /\ Write(List) \in Operation
        BY Zenon DEF Write, Operation, Files, Csk, List
      <4> QED
        BY <4>1
    <3>3. ~Has(a, Write(CK)) /\ ~Has(b, Write(CK))
      BY DEF Has, Write, CK, Csk, List
    <3> HIDE DEF a, b
    <3> QED
      <4>1. ~Has(a \o b, Write(CK))
        BY Zenon, <3>2, <3>3, ConcatHas
      <4> QED
        BY <3>1, <4>1, NothingDue, ZenonT(30)
  <2>5. knows' \in [Phone -> Key \cup {NoKey}]
    BY SMTT(30), <1>4 DEF CompletePairing, Identity
  <2> QED
    BY Zenon, <2>1, <2>2, <2>3, <2>4, <2>5 DEF Identity, Shown, InWrite
<1>5. ASSUME NEW p \in Phone, RemoveDevice(p) PROVE Identity'
  <2>1. /\ UNCHANGED <<st, key, listed, knows, retired, session>> /\ ~writing'
        /\ todo = <<>> /\ new'.list \subseteq listed
    BY Zenon, <1>5 DEF RemoveDevice, Begin, Idle, Same, ServersList
  <2>2. ~Has(todo', Write(CK)) \/ Has(todo', Rm(CK))
    BY SMTT(30), <1>5 DEF RemoveDevice, Begin, Has, Write, Rm, CK, Csk, List, Toml, Host
  <2> QED
    BY Zenon, <2>1, <2>2 DEF Identity, Shown, InWrite
<1>6. CASE PairingEnds
  BY SMTT(30), <1>6 DEF PairingEnds, Identity, Shown, InWrite
<1>7. CASE RotateCsk
  <2>1. /\ UNCHANGED <<st, key, listed, knows, retired, session>> /\ ~writing'
        /\ todo = <<>> /\ new'.list \subseteq listed
    BY Zenon, <1>7 DEF RotateCsk, Begin, Idle, Same, ServersList
  <2>2. ~Has(todo', Write(CK)) \/ Has(todo', Rm(CK))
    BY <1>7 DEF RotateCsk, Begin, RotateOps, Try, Has, Write, Rm, CK, Csk, List, Toml, Host
  <2> QED
    BY Zenon, <2>1, <2>2 DEF Identity, Shown, InWrite
<1>8. CASE SaveConfig
  <2>1. /\ UNCHANGED <<st, key, listed, knows, retired, session>> /\ ~writing'
        /\ todo = <<>> /\ new'.list \subseteq listed
    BY Zenon, <1>8 DEF SaveConfig, Begin, Idle, Same, ServersList
  <2>2. ~Has(todo', Write(CK)) \/ Has(todo', Rm(CK))
    BY SMTT(30), <1>8 DEF SaveConfig, Begin, Has, Write, Rm, CK, Csk, List, Toml, Host
  <2> QED
    BY Zenon, <2>1, <2>2 DEF Identity, Shown, InWrite
<1>9. CASE EditToml
  <2>1. /\ UNCHANGED <<key, listed, requestVars, knows, retired>> /\ st'[CK] = st[CK]
    BY Zenon, <1>9 DEF EditToml, Base, Files, CK
  <2> QED
    BY Zenon, <2>1 DEF Identity, Shown, InWrite
<1>10. CASE BeginWrite
  <2>1. /\ todo # <<>> /\ UNCHANGED <<todo, req, new, session, knows, retired>>
        /\ ~writing /\ writing' /\ Op.do = "write"
    BY Zenon, <1>10 DEF BeginWrite
  <2>2. listed' = listed \/ listed' = new.list
    BY SMTT(30), <1>10 DEF BeginWrite, Content
  <2>3. CASE Op.file = CK
    <3>1. Op = Write(CK)
      BY Zenon, <2>1, <2>3, DueOperation
    <3>2. Has(todo, Write(CK)) /\ ~Has(todo, Rm(CK))
      BY Zenon, <2>1, <3>1, HasDue, DueOperation
    <3>3. st[CK] \in {"missing", "wide"}
      BY Zenon, <3>2 DEF Base, Files, CK, Identity
    <3>4. st'[CK] = "wide" /\ key' = new.key
      BY SMTT(30), <1>10, <2>3, <3>3 DEF BeginWrite, Content, Base, Files, CK
    <3> QED
      BY Zenon, <2>1, <2>2, <3>3, <3>4 DEF Identity, Shown, InWrite
  <2>4. CASE Op.file # CK
    <3>1. key' = key /\ st'[CK] = st[CK]
      BY Zenon, <1>10, <2>4 DEF BeginWrite, Content, Base, Files, CK
    <3>2. Head(todo) # Write(CK)
      BY <2>4 DEF Op, Write
    <3> QED
      BY Zenon, <2>1, <2>2, <3>1, <3>2 DEF Identity, Shown, InWrite
  <2> QED
    BY Zenon, <2>3, <2>4
<1>11. CASE EndWrite
  <2>1. /\ todo # <<>> /\ UNCHANGED <<req, new, session, knows, retired, key, listed>>
        /\ writing /\ ~writing' /\ todo' = Tail(todo) /\ Op.do = "write"
    BY SMTT(30), <1>11 DEF EndWrite, Base, Op
  <2>2. CASE Op.file = CK
    <3>1. Op = Write(CK)
      BY Zenon, <2>1, <2>2, DueOperation
    <3>2. ~Has(todo', Write(CK)) /\ ~Has(todo, Rm(CK)) /\ Has(todo, Write(CK))
      BY SMTT(30), <2>1, <3>1, HasDue, DueOperation
    <3>3. st'[CK] = "whole" /\ st[CK] # "whole" /\ key = new.key
      BY SMTT(30), <1>11, <2>1, <2>2, <3>1, <3>2
         DEF EndWrite, Base, Files, CK, Op, Identity, InWrite
    <3> QED
      BY Zenon, <2>1, <3>2, <3>3 DEF Identity, Shown, InWrite
  <2>3. CASE Op.file # CK
    <3>1. st'[CK] = st[CK]
      BY Zenon, <1>11, <2>3 DEF EndWrite, Base, Files, CK
    <3>2. Op # Write(CK) /\ Op # Rm(CK)
      BY <2>3 DEF Write, Rm
    <3>3. /\ Has(todo', Write(CK)) <=> Has(todo, Write(CK))
          /\ Has(todo', Rm(CK)) <=> Has(todo, Rm(CK))
      BY Zenon, <2>1, <3>2, HasDue
    <3>4. req # "start"
      BY Zenon, <2>1, <3>2 DEF Base, Op
    <3> QED
      BY Zenon, <2>1, <3>1, <3>3, <3>4 DEF Identity, Shown, InWrite
  <2> QED
    BY Zenon, <2>2, <2>3
<1>12. CASE Remove
  <2>1. /\ todo # <<>> /\ UNCHANGED <<req, new, session, knows>>
        /\ ~writing /\ ~writing' /\ todo' = Tail(todo) /\ Op.do # "write"
        /\ listed' \subseteq listed
    BY Zenon, <1>12 DEF Remove, Base, Op
  <2>2. req # "start"
    BY SMTT(30), <2>1 DEF Base, Op, Write
  <2>3. CASE Op.file = CK
    <3>1. st'[CK] = "missing"
      BY Zenon, <1>12, <2>3 DEF Remove, Base, Files, CK
    <3>2. retired \subseteq retired' /\ (st[CK] = "whole" => key \in retired')
      BY SMTT(30), <1>12, <2>3 DEF Remove, CK
    <3> QED
      BY Zenon, <2>1, <2>2, <3>1, <3>2 DEF Identity, Shown, InWrite
  <2>4. CASE Op.file # CK
    <3>1. st'[CK] = st[CK] /\ UNCHANGED <<key, retired>>
      BY Zenon, <1>12, <2>4 DEF Remove, Base, Files, CK
    <3>2. Op # Write(CK) /\ Op # Rm(CK)
      BY <2>4 DEF Write, Rm
    <3>3. /\ Has(todo', Write(CK)) <=> Has(todo, Write(CK))
          /\ Has(todo', Rm(CK)) <=> Has(todo, Rm(CK))
      BY Zenon, <2>1, <3>2, HasDue
    <3> QED
      BY Zenon, <2>1, <2>2, <3>1, <3>3 DEF Identity, Shown, InWrite
  <2> QED
    BY Zenon, <2>3, <2>4
<1>13. CASE OperationFails
  <2>1. /\ todo # <<>> /\ UNCHANGED <<key, listed, req, new, knows, retired>> /\ ~writing'
    BY Zenon, <1>13 DEF OperationFails
  <2>2. st'[CK] = st[CK]
    BY SMTT(30), <1>13 DEF OperationFails, Base, Files, CK
  <2>3. CASE Op.do = "try"
    <3>1. todo' = Tail(todo) /\ session' = session
      BY Zenon, <1>13, <2>3 DEF OperationFails
    <3>2. Op # Write(CK) /\ Op # Rm(CK) /\ req # "start"
      BY <2>1, <2>3 DEF Write, Rm, Base, Op
    <3>3. /\ Has(todo', Write(CK)) <=> Has(todo, Write(CK))
          /\ Has(todo', Rm(CK)) <=> Has(todo, Rm(CK))
      BY SMTT(30), <2>1, <3>1, <3>2, HasDue
    <3> QED
      BY Zenon, <2>1, <2>2, <3>1, <3>2, <3>3 DEF Identity, Shown, InWrite
  <2>4. CASE Op.do # "try"
    <3>1. todo' = <<>> /\ session' = IF req = "start" THEN NoKey ELSE session
      BY SMTT(30), <1>13, <2>4 DEF OperationFails
    <3> QED
      BY Zenon, <2>1, <2>2, <3>1, NothingDue DEF Identity, Shown, InWrite
  <2> QED
    BY Zenon, <2>3, <2>4
<1>14. CASE Respond
  <2>1. /\ todo = <<>> /\ UNCHANGED <<st, key, listed, session, todo, knows, retired>>
        /\ new'.list = {} /\ writing' = writing
    BY SMTT(30), <1>14 DEF Respond, Nothing
  <2> QED
    BY Zenon, <2>1, NothingDue DEF Identity, Shown, InWrite
<1>15. CASE Crash
  <2>1. /\ todo' = <<>> /\ UNCHANGED <<st, key, listed, knows, retired>>
        /\ new'.list = {} /\ ~writing' /\ session' = NoKey
    BY SMTT(30), <1>15 DEF Crash, Nothing
  <2> QED
    BY Zenon, <2>1, NothingDue DEF Identity, Shown, InWrite
<1>16. CASE UNCHANGED vars
  BY Zenon, <1>16 DEF vars, Identity, Shown, InWrite
<1> QED
  BY Zenon, <1>1, <1>2, <1>3, <1>4, <1>5, <1>6, <1>7, <1>8, <1>9, <1>10, <1>11, <1>12,
     <1>13, <1>14, <1>15, <1>16 DEF Next

-----------------------------------------------------------------------------
(* Recovery. *)

\* As long as nothing failed, a recovery has done, or has still to do, what it
\* takes: the list removed, the CSK and (with plain files) the keypair written.
Heal ==
    req = "recover" /\ ok =>
        /\ Has(todo, Rm(List)) \/ st[List] = "missing"
        /\ Has(todo, Write(Csk)) \/ st[Csk] = "whole"
        /\ \/ UseTpm
           \/ Has(todo, Write(CK))
           \/ st[CK] = "whole" /\ ~Has(todo, Rm(CK))

LEMMA HealInit == Init => Heal
<1>1. Init => req # "recover"
  BY Zenon DEF Init
<1> QED
  BY Zenon, <1>1 DEF Heal

LEMMA HealNext == Base /\ Heal /\ [Next]_vars => Heal'
<1> SUFFICES ASSUME Base, Heal, [Next]_vars PROVE Heal'
  BY Zenon
<1> USE DEF fileVars, requestVars, historyVars
<1>1. CASE Start
  <2>1. UNCHANGED <<st, tpm, req, ok, todo>>
    BY SMTT(30), <1>1 DEF Start
  <2> QED
    BY Zenon, <2>1 DEF UseTpm, Heal
<1>2. ASSUME NEW k \in Key, StartPairing(k) PROVE Heal'
  <2>1. req' # "recover"
    BY Zenon, <1>2 DEF StartPairing, Begin
  <2> QED
    BY Zenon, <2>1 DEF Heal
<1>3. ASSUME NEW k \in Key, RecoverTpm(k) PROVE Heal'
  <2>1. todo' = RecoverOps /\ UNCHANGED <<st, tpm>>
    BY Zenon, <1>3 DEF RecoverTpm, Begin
  <2>2. UseTpm' = UseTpm
    BY Zenon, <2>1 DEF UseTpm
  <2> QED
    BY Zenon, <2>1, <2>2, RecoverPlan DEF Heal
<1>4. ASSUME NEW p \in Phone, CompletePairing(p) PROVE Heal'
  <2>1. req' # "recover"
    BY Zenon, <1>4 DEF CompletePairing, Begin
  <2> QED
    BY Zenon, <2>1 DEF Heal
<1>5. ASSUME NEW p \in Phone, RemoveDevice(p) PROVE Heal'
  <2>1. req' # "recover"
    BY Zenon, <1>5 DEF RemoveDevice, Begin
  <2> QED
    BY Zenon, <2>1 DEF Heal
<1>6. CASE PairingEnds
  <2>1. UNCHANGED <<st, tpm, req, ok, todo>>
    BY SMTT(30), <1>6 DEF PairingEnds
  <2> QED
    BY Zenon, <2>1 DEF UseTpm, Heal
<1>7. CASE RotateCsk
  <2>1. req' # "recover"
    BY Zenon, <1>7 DEF RotateCsk, Begin
  <2> QED
    BY Zenon, <2>1 DEF Heal
<1>8. CASE SaveConfig
  <2>1. req' # "recover"
    BY Zenon, <1>8 DEF SaveConfig, Begin
  <2> QED
    BY Zenon, <2>1 DEF Heal
<1>9. CASE EditToml
  <2>1. req = "none" /\ req' = req
    BY SMTT(30), <1>9 DEF EditToml, Idle, Base
  <2> QED
    BY Zenon, <2>1 DEF Heal
<1>10. CASE BeginWrite
  <2> SUFFICES ASSUME req = "recover", ok PROVE Heal'
    BY Zenon, <1>10 DEF BeginWrite, Heal
  <2>1. todo # <<>> /\ UNCHANGED <<todo, req, ok>> /\ Op.do = "write"
    BY <1>10 DEF BeginWrite
  <2>2. Op.file # List /\ Op.file # Toml
    BY SMTT(30), <2>1, DueOperation
  <2>3. st'[List] = st[List] /\ UseTpm' = UseTpm
    BY SMTT(30), <1>10, <2>2 DEF BeginWrite, Content, UseTpm, Base, Files, List, Toml
  <2>4. st'[Csk] = st[Csk] \/ Has(todo, Write(Csk))
    BY SMTT(30), <1>10, <2>1, DueOperation, HasDue DEF BeginWrite, Base, Files, Csk
  <2>5. st'[CK] = st[CK] \/ Has(todo, Write(CK))
    BY <1>10, <2>1, DueOperation, HasDue, SMTT(30) DEF BeginWrite, Base, Files, CK
  <2> QED
    BY Zenon, <2>1, <2>3, <2>4, <2>5 DEF Heal
<1>11. CASE EndWrite
  <2> SUFFICES ASSUME req = "recover", ok PROVE Heal'
    BY Zenon, <1>11 DEF EndWrite, Heal
  <2>1. /\ todo # <<>> /\ UNCHANGED <<req, ok>> /\ Op.do = "write" /\ todo' = Tail(todo)
    BY Zenon, <1>11 DEF EndWrite, Base, Op
  <2>2. Op.file # List /\ Op.file # Toml /\ \A f : Op.file = f <=> Op = Write(f)
    BY Zenon, <2>1, DueOperation
  <2>3. st'[List] = st[List] /\ UseTpm' = UseTpm
    BY Zenon, <1>11, <2>2 DEF EndWrite, UseTpm, Base, Files, List, Toml
  <2>4. \A o : Has(todo, o) <=> Op = o \/ Has(todo', o)
    BY Zenon, <2>1, HasDue
  <2>5. Op # Rm(List) /\ Op # Rm(CK)
    BY <2>1 DEF Rm
  <2>6. IF Op = Write(Csk) THEN st'[Csk] = "whole" ELSE st'[Csk] = st[Csk]
    BY Zenon, <1>11, <2>2 DEF EndWrite, Base, Files, Csk
  <2>7. IF Op = Write(CK) THEN st'[CK] = "whole" ELSE st'[CK] = st[CK]
    BY Zenon, <1>11, <2>2 DEF EndWrite, Base, Files, CK
  <2>8. Op = Write(CK) => ~Has(todo, Rm(CK))
    BY SMTT(30), <2>1, DueOperation
  <2> QED
    BY SMTT(30), <2>1, <2>3, <2>4, <2>5, <2>6, <2>7, <2>8 DEF Heal
<1>12. CASE Remove
  <2> SUFFICES ASSUME req = "recover", ok PROVE Heal'
    BY Zenon, <1>12 DEF Remove, Heal
  <2>1. /\ todo # <<>> /\ UNCHANGED <<req, ok, tpm>> /\ Op.do # "write" /\ todo' = Tail(todo)
    BY Zenon, <1>12 DEF Remove
  <2>2. Op.file # Csk /\ Op.file # Toml /\ (Op.file = CK => Op = Rm(CK))
    <3>1. Op.file # Csk /\ Op.file # Toml /\ (Op.file = CK => Op.do = "rm")
      BY Zenon, <2>1, DueOperation
    <3>2. Op \in Operation
      BY Zenon, <2>1, DueOperation
    <3> QED
      BY Zenon, <3>1, <3>2 DEF Operation, Rm
  <2>3. st'[Csk] = st[Csk] /\ UseTpm' = UseTpm
    BY Zenon, <1>12, <2>2 DEF Remove, UseTpm, Base, Files, Csk, Toml
  <2>4. \A o : Has(todo, o) <=> Op = o \/ Has(todo', o)
    BY Zenon, <2>1, HasDue
  <2>5. Op # Write(Csk) /\ Op # Write(CK)
    BY <2>1 DEF Write
  <2>6. IF Op.file = List THEN st'[List] = "missing" ELSE st'[List] = st[List]
    BY Zenon, <1>12 DEF Remove, Base, Files, List
  <2>7. Op = Rm(List) => Op.file = List
    BY DEF Rm
  <2>8. Op # Rm(CK) => st'[CK] = st[CK]
    BY Zenon, <1>12, <2>2 DEF Remove, Base, Files, CK
  <2> QED
    BY SMTT(30), <2>1, <2>3, <2>4, <2>5, <2>6, <2>7, <2>8 DEF Heal
<1>13. CASE OperationFails
  <2> SUFFICES ASSUME req = "recover", ok, ok' PROVE Heal'
    BY <1>13, ZenonT(30) DEF OperationFails, Heal
  <2>1. todo # <<>> /\ req' = req /\ tpm' = tpm
    BY Zenon, <1>13 DEF OperationFails
  <2>2. Op.do = "try" /\ todo' = Tail(todo) /\ st' = st
    BY Zenon, <1>13 DEF OperationFails
  <2>3. \A o : Has(todo, o) <=> Op = o \/ Has(todo', o)
    BY Zenon, <2>1, <2>2, HasDue
  <2>4. Op # Rm(List) /\ Op # Write(Csk) /\ Op # Write(CK) /\ Op # Rm(CK)
    BY <2>2 DEF Rm, Write
  <2>5. UseTpm' = UseTpm
    BY Zenon, <2>1, <2>2 DEF UseTpm
  <2> QED
    BY Zenon, <2>1, <2>2, <2>3, <2>4, <2>5 DEF Heal
<1>14. CASE Respond
  <2>1. req' # "recover"
    BY Zenon, <1>14 DEF Respond, Begin
  <2> QED
    BY Zenon, <2>1 DEF Heal
<1>15. CASE Crash
  <2>1. req' # "recover"
    BY Zenon, <1>15 DEF Crash, Begin
  <2> QED
    BY Zenon, <2>1 DEF Heal
<1>16. CASE UNCHANGED vars
  BY Zenon, <1>16 DEF vars, UseTpm, Heal
<1> QED
  BY Zenon, <1>1, <1>2, <1>3, <1>4, <1>5, <1>6, <1>7, <1>8, <1>9, <1>10, <1>11, <1>12,
     <1>13, <1>14, <1>15, <1>16 DEF Next

-----------------------------------------------------------------------------
(* The properties. *)

\* The identity of the client is stable: a listed phone knows the stored
\* keypair or one that a recovery deleted, through any number of crashes and
\* failures, as a keypair is never generated over one that can be loaded
\* (handle_start_pairing, load_keypair).
THEOREM IdentityIsKept == Spec => []IdentityKept
<1>1. Identity => IdentityKept
  BY Zenon DEF Identity, Shown, IdentityKept, ServersList, CK
<1> QED
  BY <1>1, BaseInit, BaseNext, IdentityInit, IdentityNext, PTL DEF Spec

\* Only an interrupted pairing, removal or change of settings can keep the
\* daemon from starting; an interrupted rotation or recovery never does
\* (DaemonState::new, write_secure_file).
THEOREM RestartsSurvive == Spec => []RestartSurvives
<1>1. Restart => RestartSurvives
  BY Zenon DEF Restart, BadlyCut, RestartSurvives
<1> QED
  BY <1>1, BaseInit, BaseNext, RestartInit, RestartNext, PTL DEF Spec

\* The storage mode is the one the administrator chose unless a SaveConfig was
\* interrupted (handle_save_config, TapAuthConfig::load).
THEOREM ModeIsKept == Spec => []ModeKept
<1>1. Mode => ModeKept
  BY Zenon DEF Mode, InWrite, ModeKept, UseTpm, Toml
<1> QED
  BY <1>1, BaseInit, BaseNext, ModeInit, ModeNext, PTL DEF Spec

\* With plain files a recovery that reports success has reloaded the new
\* keypair, a CSK and an empty list, whatever the files were before
\* (recover_from_tpm_failure, DaemonState::reload).
THEOREM RecoveriesHeal == Spec => RecoveryHeals
<1>1. Base /\ Heal /\ [Next]_vars =>
        [req = "recover" /\ req' = "none" /\ proc' = "up" /\ ok /\ ~UseTpm =>
            live'.key = key /\ live'.csk /\ live'.list = {}]_vars
  <2> SUFFICES ASSUME Base, Heal, Next, req = "recover", req' = "none", proc' = "up",
                      ok, ~UseTpm
               PROVE  live'.key = key /\ live'.csk /\ live'.list = {}
    BY Zenon
  <2>1. Respond
    BY Zenon DEF Next, Start, StartPairing, RecoverTpm, CompletePairing, RemoveDevice,
           PairingEnds, RotateCsk, SaveConfig, EditToml, BeginWrite, EndWrite, Remove,
           OperationFails, Crash, Idle, requestVars
  <2>2. todo = <<>> /\ live' = Reloaded
    BY Zenon, <2>1 DEF Respond
  <2>3. st[List] = "missing" /\ st[Csk] = "whole" /\ st[CK] = "whole"
    BY Zenon, <2>2, NothingDue DEF Heal
  <2>4. LoadKeypair = "ok" /\ StoredKey = key
    BY Zenon, <2>3 DEF LoadKeypair, LoadBytes, StoredKey, CK
  <2>5. LoadBytes("client_symmetric_key") = "ok"
    BY Zenon, <2>3 DEF LoadBytes, Csk
  <2>6. Readable("paired_servers.json") /\ ServersList = {}
    BY Zenon, <2>3 DEF Readable, ServersList, List
  <2> QED
    BY <2>2, <2>4, <2>5, <2>6, ZenonT(30) DEF Reloaded
<1> QED
  BY <1>1, BaseInit, BaseNext, HealInit, HealNext, PTL DEF Spec, RecoveryHeals

-----------------------------------------------------------------------------
(* Types, and what the daemon works with. *)

\* The types of the variables that Base and Identity leave open; a keypair is
\* written only by a request that has drawn one, so that a whole file has one.
Kinds ==
    /\ key \in Key \cup {NoKey} /\ sealed \in Key \cup {NoKey} /\ tpm \in BOOLEAN
    /\ proc \in {"up", "down", "failed"}
    /\ live \in DaemonState
    /\ req \in Requests /\ ok \in BOOLEAN /\ writing \in BOOLEAN
    /\ new \in Contents
    /\ drawn \subseteq Key /\ retired \subseteq Key
    /\ chosen \in BOOLEAN /\ cut \subseteq Requests /\ faults \in 0 .. MaxFaults
    /\ Has(todo, Write(CK)) => new.key \in Key
    /\ st[CK] = "whole" => key \in Key

LEMMA KindsInit == Init => Kinds
<1> SUFFICES ASSUME Init PROVE Kinds
  BY Zenon
<1>1. live \in DaemonState /\ new \in Contents
  BY Zenon DEF Init, DaemonState, Contents, Nothing
<1>2. ~Has(todo, Write(CK)) /\ st[CK] # "whole"
  BY Zenon, NothingDue DEF Init, CK, Files
<1>3. faults \in 0 .. MaxFaults
  BY StoreAssumption DEF Init
<1> QED
  BY <1>1, <1>2, <1>3, ZenonT(30) DEF Init, Kinds, Requests

\* What a request starts from, and what a reload gives, are of the right kind.
LEMMA LoadedKinds ==
  ASSUME Identity, Kinds
  PROVE  /\ Same \in Contents /\ ServersList \subseteq Phone
         /\ StoredKey \in Key \cup {NoKey} /\ Reloaded \in DaemonState
<1>1. ServersList \subseteq Phone
  BY Zenon DEF ServersList, Identity
<1>2. UseTpm \in BOOLEAN
  BY Zenon DEF UseTpm
<1>3. StoredKey \in Key \cup {NoKey}
  BY Zenon DEF StoredKey, Kinds
<1>4. live.key \in Key \cup {NoKey} /\ live.csk \in BOOLEAN /\ live.list \subseteq Phone
  BY Zenon DEF Kinds, DaemonState
<1>5. Same \in Contents
  BY Zenon, <1>1, <1>2 DEF Same, Contents, Kinds
<1>6. (LoadBytes("client_symmetric_key") = "ok" \/ live.csk) \in BOOLEAN
  BY Zenon
<1>7. Reloaded \in DaemonState
  BY Zenon, <1>1, <1>3, <1>4, <1>6 DEF Reloaded, DaemonState
<1> QED
  BY Zenon, <1>1, <1>3, <1>5, <1>7

\* A request begins that writes no keypair, or one it has drawn.
LEMMA KindsBegin ==
  ASSUME Identity, Kinds, NEW r \in Requests, NEW ops, NEW c \in Contents,
         Begin(r, ops, c), drawn' \subseteq Key,
         Has(ops, Write(CK)) => c.key \in Key,
         UNCHANGED <<retired, chosen, cut, faults>>
  PROVE  Kinds'
BY Zenon DEF Begin, Kinds, fileVars

LEMMA KindsNext ==
  ASSUME Base, Identity, Kinds, [Next]_vars
  PROVE  Kinds'
<1> USE DEF fileVars, requestVars, historyVars
<1>0. /\ Same \in Contents /\ ServersList \subseteq Phone
      /\ StoredKey \in Key \cup {NoKey} /\ Reloaded \in DaemonState
  BY Zenon, LoadedKinds
<1>a. \A k \in Key : [Same EXCEPT !.key = k] \in Contents /\ [Same EXCEPT !.key = k].key = k
  BY Zenon, <1>0 DEF Contents
<1>b. \A l \in SUBSET Phone : [Same EXCEPT !.list = l] \in Contents
  BY Zenon, <1>0 DEF Contents
<1>c. {"start", "complete", "remove", "rotate", "save", "recover", "none"} \subseteq Requests
  BY Zenon DEF Requests
<1>1. CASE Start
  <2>1. \A k \in Key \cup {NoKey}, b \in BOOLEAN :
          [key |-> k, csk |-> b, list |-> ServersList] \in DaemonState
    BY Zenon, <1>0 DEF DaemonState
  <2>3. (IF LoadKeypair = "ok" THEN StoredKey ELSE NoKey) \in Key \cup {NoKey}
    BY Zenon, <1>0
  <2>2. proc' \in {"up", "failed"} /\ live' \in DaemonState
    BY <1>1, <2>1, <2>3, ZenonT(30) DEF Start, Kinds
  <2> QED
    BY Zenon, <1>1, <2>2 DEF Start, Kinds
<1>2. ASSUME NEW k \in Key, StartPairing(k) PROVE Kinds'
  <2>1. UNCHANGED <<retired, chosen, cut, faults>> /\ drawn' \subseteq Key
    BY Zenon, <1>2 DEF StartPairing, Kinds
  <2>2. CASE LoadKeypair = "ok"
    BY Zenon, <1>0, <1>2, <1>c, <2>1, <2>2, KindsBegin, NothingDue DEF StartPairing
  <2>3. CASE LoadKeypair # "ok"
    BY Zenon, <1>2, <1>a, <1>c, <2>1, <2>3, KindsBegin DEF StartPairing
  <2> QED
    BY Zenon, <2>2, <2>3
<1>3. ASSUME NEW k \in Key, RecoverTpm(k) PROVE Kinds'
  <2> DEFINE c == [Same EXCEPT !.key = k, !.list = {}]
  <2>1. c \in Contents /\ c.key = k
    BY Zenon, <1>0 DEF Contents
  <2>2. Begin("recover", RecoverOps, c) /\ UNCHANGED <<retired, chosen, cut, faults>>
        /\ drawn' \subseteq Key
    BY Zenon, <1>3 DEF RecoverTpm, Kinds
  <2> HIDE DEF c
  <2> QED
    BY Zenon, <1>c, <2>1, <2>2, KindsBegin
<1>4. ASSUME NEW p \in Phone, CompletePairing(p) PROVE Kinds'
  <2> DEFINE a == <<Write("client_symmetric_key")>>
             b == IF Readable("paired_servers.json")
                  THEN <<Write("paired_servers.json")>> ELSE <<>>
             c == [Same EXCEPT !.list = ServersList \cup {p}]
  <2>1. ~Has(a \o b, Write(CK))
    <3>1. Write("client_symmetric_key") \in Operation /\ Write("paired_servers.json") \in Operation
      BY Zenon DEF Write, Operation, Files
    <3>2. a \in Seq(Operation) /\ b \in Seq(Operation)
      BY <3>1
    <3>3. ~Has(a, Write(CK)) /\ ~Has(b, Write(CK))
      BY DEF Has, Write, CK
    <3> HIDE DEF a, b
    <3> QED
      BY Zenon, <3>2, <3>3, ConcatHas
  <2>2. c \in Contents
    BY Zenon, <1>0, <1>b
  <2>3. UNCHANGED <<drawn, retired, chosen, cut, faults>> /\ drawn' \subseteq Key
    BY Zenon, <1>4 DEF CompletePairing, Kinds
  <2>4. Begin("complete", a \o b, c) \/ Begin("complete", <<>>, Same)
    BY Zenon, <1>4 DEF CompletePairing
  <2> HIDE DEF a, b, c
  <2> QED
    BY Zenon, <1>0, <1>c, <2>1, <2>2, <2>3, <2>4, KindsBegin, NothingDue
<1>5. ASSUME NEW p \in Phone, RemoveDevice(p) PROVE Kinds'
  <2> DEFINE q == IF p \in ServersList THEN <<Write("paired_servers.json")>> ELSE <<>>
             c == [Same EXCEPT !.list = ServersList \ {p}]
  <2>1. c \in Contents
    BY Zenon, <1>0, <1>b
  <2>3. ~Has(q, Write(CK))
    <3>1. ~Has(<<Write("paired_servers.json")>>, Write(CK)) /\ ~Has(<<>>, Write(CK))
      BY DEF Has, Write, CK
    <3> QED
      BY Zenon, <3>1
  <2>2. Begin("remove", q, c) /\ UNCHANGED <<drawn, retired, chosen, cut, faults>>
        /\ drawn' \subseteq Key
    BY Zenon, <1>5 DEF RemoveDevice, Kinds
  <2> HIDE DEF q, c
  <2> QED
    BY Zenon, <1>c, <2>1, <2>2, <2>3, KindsBegin
<1>6. CASE PairingEnds
  BY Zenon, <1>6 DEF PairingEnds, Kinds
<1>7. CASE RotateCsk
  <2>1. ~Has(RotateOps, Write(CK)) /\ [Same EXCEPT !.list = {}] \in Contents
    BY <1>b DEF Has, RotateOps, Try, Write, CK
  <2>2. drawn' \subseteq Key
    BY Zenon, <1>7 DEF RotateCsk, Kinds
  <2> QED
    BY Zenon, <1>7, <1>c, <2>1, <2>2, KindsBegin DEF RotateCsk
<1>8. CASE SaveConfig
  <2> DEFINE q == <<Write("config.toml"), Write("client_config.json")>>
  <2>1. ~Has(q, Write(CK))
    BY DEF Has, Write, CK
  <2>2. drawn' \subseteq Key
    BY Zenon, <1>8 DEF SaveConfig, Kinds
  <2>3. Begin("save", q, Same) /\ UNCHANGED historyVars
    BY Zenon, <1>8 DEF SaveConfig
  <2> HIDE DEF q
  <2> QED
    BY Zenon, <1>0, <1>c, <2>1, <2>2, <2>3, KindsBegin
<1>9. CASE EditToml
  <2>1. st'[CK] = st[CK]
    BY Zenon, <1>9 DEF EditToml, Base, Files, CK
  <2> QED
    BY Zenon, <1>9, <2>1 DEF EditToml, Kinds
<1>10. CASE BeginWrite
  <2>1. /\ todo # <<>> /\ UNCHANGED <<proc, live, req, ok, todo, new, historyVars>>
        /\ writing' = TRUE /\ Content(Op.file)
    BY Zenon, <1>10 DEF BeginWrite
  <2>2. new.key \in Key \cup {NoKey} /\ new.tpm \in BOOLEAN
    BY Zenon DEF Kinds, Contents
  <2>3. key' \in Key \cup {NoKey} /\ sealed' \in Key \cup {NoKey} /\ tpm' \in BOOLEAN
    BY Zenon, <2>1, <2>2 DEF Content, Kinds
  <2>4. st'[CK] = "whole" => st[CK] = "whole" /\ Op.file # CK
    BY Zenon, <1>10 DEF BeginWrite, Base, Files, CK
  <2>5. st'[CK] = "whole" => key' \in Key
    BY Zenon, <2>1, <2>4 DEF Content, Kinds, CK
  <2> QED
    BY Zenon, <2>1, <2>3, <2>5 DEF Kinds
<1>11. CASE EndWrite
  <2>1. /\ todo # <<>> /\ writing /\ todo' = Tail(todo) /\ writing' = FALSE
        /\ UNCHANGED <<key, sealed, listed, tpm, proc, live, session, req, ok, new, historyVars>>
    BY Zenon, <1>11 DEF EndWrite
  <2>2. Op.do = "write"
    BY Zenon, <2>1 DEF Base, Op
  <2>3. Has(todo', Write(CK)) => Has(todo, Write(CK))
    BY Zenon, <2>1, HasDue
  <2>4. st'[CK] = "whole" => key \in Key
    <3>1. CASE Op.file = CK
      <4>1. Op = Write(CK)
        BY Zenon, <2>1, <2>2, <3>1, DueOperation
      <4>2. Has(todo, Write(CK)) /\ InWrite(CK)
        BY Zenon, <2>1, <4>1, HasDue DEF InWrite, Op
      <4> QED
        BY Zenon, <4>2 DEF Kinds, Identity
    <3>2. CASE Op.file # CK
      <4>1. st'[CK] = st[CK]
        BY Zenon, <1>11, <3>2 DEF EndWrite, Base, Files, CK
      <4> QED
        BY Zenon, <4>1 DEF Kinds
    <3> QED
      BY Zenon, <3>1, <3>2
  <2> QED
    BY Zenon, <2>1, <2>3, <2>4 DEF Kinds
<1>12. CASE Remove
  <2>1. /\ todo # <<>> /\ todo' = Tail(todo)
        /\ UNCHANGED <<tpm, proc, live, session, req, ok, writing, new, knows, drawn, chosen,
                       cut, faults>>
    BY Zenon, <1>12 DEF Remove
  <2>2. Has(todo', Write(CK)) => Has(todo, Write(CK))
    BY Zenon, <2>1, HasDue
  <2>3. key' \in Key \cup {NoKey} /\ sealed' \in Key \cup {NoKey} /\ retired' \subseteq Key
    BY Zenon, <1>12 DEF Remove, Kinds, CK
  <2>4. st'[CK] = "whole" => st[CK] = "whole" /\ Op.file # CK
    BY Zenon, <1>12 DEF Remove, Base, Files, CK
  <2>5. st'[CK] = "whole" => key' \in Key
    BY Zenon, <1>12, <2>4 DEF Remove, Kinds, CK
  <2> QED
    BY Zenon, <2>1, <2>2, <2>3, <2>5 DEF Kinds
<1>13. CASE OperationFails
  <2>1. /\ todo # <<>> /\ faults < MaxFaults /\ faults' = faults + 1 /\ writing' = FALSE
        /\ cut' = cut \cup {req} /\ ok' \in {ok, FALSE}
        /\ UNCHANGED <<key, sealed, listed, tpm, proc, live, req, new, knows, drawn, retired,
                       chosen>>
    BY Zenon, <1>13 DEF OperationFails
  <2>2. Has(todo', Write(CK)) => Has(todo, Write(CK))
    BY Zenon, <1>13, <2>1, HasDue, NothingDue DEF OperationFails
  <2>3. st'[CK] = st[CK]
    BY Zenon, <1>13 DEF OperationFails, Base, Files, CK
  <2>4. faults' \in 0 .. MaxFaults
    BY <2>1, StoreAssumption DEF Kinds
  <2> QED
    BY Zenon, <2>1, <2>2, <2>3, <2>4 DEF Kinds
<1>14. CASE Respond
  <2>1. Nothing \in Contents
    BY Zenon DEF Nothing, Contents
  <2>2. live' \in DaemonState
    BY Zenon, <1>0, <1>14 DEF Respond, Kinds
  <2>3. ~Has(todo', Write(CK))
    BY Zenon, <1>14, NothingDue DEF Respond
  <2> QED
    BY Zenon, <1>14, <1>c, <2>1, <2>2, <2>3 DEF Respond, Kinds
<1>15. CASE Crash
  <2>1. Nothing \in Contents /\ [key |-> NoKey, csk |-> FALSE, list |-> {}] \in DaemonState
    BY Zenon DEF Nothing, Contents, DaemonState
  <2>2. ~Has(todo', Write(CK))
    BY Zenon, <1>15, NothingDue DEF Crash
  <2>3. faults' \in 0 .. MaxFaults
    BY <1>15, StoreAssumption DEF Crash, Kinds
  <2> QED
    BY Zenon, <1>15, <1>c, <2>1, <2>2, <2>3 DEF Crash, Kinds
<1>16. CASE UNCHANGED vars
  BY Zenon, <1>16 DEF vars, Kinds
<1> QED
  BY Zenon, <1>1, <1>2, <1>3, <1>4, <1>5, <1>6, <1>7, <1>8, <1>9, <1>10, <1>11, <1>12,
     <1>13, <1>14, <1>15, <1>16 DEF Next

\* Every variable keeps its type through crashes, errors and recoveries; what
\* is retired, in particular, is always a keypair (recover_from_tpm_failure).
THEOREM TypeCorrect == Spec => []StoreTypeOK
<1>1. Base /\ Identity /\ Kinds => StoreTypeOK
  BY Zenon DEF Base, Plan, Identity, Kinds, StoreTypeOK
<1> QED
  BY <1>1, BaseInit, BaseNext, IdentityInit, IdentityNext, KindsInit, KindsNext, PTL DEF Spec

\* With the TPM enabled no keypair is ever loaded, whatever was sealed before:
\* nothing creates the file load_sealed_keypair looks for.
NoSealedKeypair == UseTpm => LoadKeypair = "error"

\* The disagreement that the TPM run shows on one instance holds of every
\* history: with use_tpm set no pairing, recovery or restart ever gives the
\* daemon a keypair it can load (load_sealed_keypair, seal_data_with_tpm).
THEOREM SealedNeverLoads == Spec => []NoSealedKeypair
<1>1. Base => NoSealedKeypair
  BY Zenon DEF Base, NoSealedKeypair, LoadKeypair, LoadSealedKeypair
<1> QED
  BY <1>1, BaseInit, BaseNext, PTL DEF Spec

\* Between requests the running daemon works with the list that is on disk,
\* provided that it can be read; a StartPairing does not touch it.
LiveListFresh ==
    proc = "up" /\ req \in {"none", "start"} /\ Readable(List) => live.list = ServersList

\* Without a request there is nothing left to do on the files.
NoneIsDone == req = "none" => todo = <<>>

LEMMA NoneNext == NoneIsDone /\ [Next]_vars => NoneIsDone'
BY Zenon DEF NoneIsDone, Next, vars, Start, StartPairing, RecoverTpm, CompletePairing, RemoveDevice,
       RotateCsk, SaveConfig, PairingEnds, EditToml, BeginWrite, EndWrite, Remove,
       OperationFails, Respond, Crash, Begin, requestVars

LEMMA FreshNext == Base /\ NoneIsDone /\ LiveListFresh /\ [Next]_vars => LiveListFresh'
<1> SUFFICES ASSUME Base, NoneIsDone, LiveListFresh, [Next]_vars PROVE LiveListFresh'
  BY Zenon
<1> USE DEF fileVars, requestVars, historyVars
<1>1. ASSUME UNCHANGED <<live, listed>>, st'[List] = st[List], proc' = "up" => proc = "up",
             req' \in {"none", "start"} => req \in {"none", "start"}
      PROVE  LiveListFresh'
  BY Zenon, <1>1 DEF LiveListFresh, Readable, ServersList, List
<1>2. CASE Start
  <2>1. proc' = "up" => live'.list = ServersList
    BY <1>2 DEF Start
  <2>2. UNCHANGED <<st, listed>>
    BY Zenon, <1>2 DEF Start
  <2> QED
    BY Zenon, <2>1, <2>2 DEF LiveListFresh, ServersList
<1>3. CASE \E k \in Key : StartPairing(k) \/ RecoverTpm(k)
  BY Zenon, <1>1, <1>3 DEF StartPairing, RecoverTpm, Begin, Idle
<1>4. CASE \E p \in Phone : CompletePairing(p) \/ RemoveDevice(p)
  <2>1. req' \notin {"none", "start"}
    BY Zenon, <1>4 DEF CompletePairing, RemoveDevice, Begin
  <2> QED
    BY Zenon, <2>1 DEF LiveListFresh
<1>5. CASE RotateCsk \/ SaveConfig
  <2>1. req' \notin {"none", "start"}
    BY Zenon, <1>5 DEF RotateCsk, SaveConfig, Begin
  <2> QED
    BY Zenon, <2>1 DEF LiveListFresh
<1>6. CASE PairingEnds
  BY Zenon, <1>1, <1>6 DEF PairingEnds
<1>7. CASE EditToml
  <2>1. st'[List] = st[List]
    BY Zenon, <1>7 DEF EditToml, Base, Files, List
  <2> QED
    BY Zenon, <1>1, <1>7, <2>1 DEF EditToml
<1>8. CASE BeginWrite \/ EndWrite \/ Remove \/ OperationFails
  <2>1. UNCHANGED <<live, req, proc>> /\ todo # <<>>
    BY Zenon, <1>8 DEF BeginWrite, EndWrite, Remove, OperationFails
  <2> SUFFICES ASSUME proc = "up", req \in {"none", "start"} PROVE LiveListFresh'
    BY Zenon, <2>1 DEF LiveListFresh
  <2>2. Op.file # List
    BY <2>1 DEF Base, NoneIsDone, Op, Write, CK, List
  <2>3. listed' = listed
    BY Zenon, <1>8, <2>2 DEF BeginWrite, Content, EndWrite, Remove, OperationFails, List
  <2>4. st'[List] = st[List]
    BY Zenon, <1>8, <2>2 DEF BeginWrite, EndWrite, Remove, OperationFails, Base, Files, List
  <2> QED
    BY Zenon, <1>1, <2>1, <2>3, <2>4
<1>9. CASE Respond
  <2>1. UNCHANGED <<st, listed, proc>> /\ live' = IF req = "start" THEN live ELSE Reloaded
    BY Zenon, <1>9 DEF Respond
  <2>2. CASE req = "start"
    BY Zenon, <1>1, <2>1, <2>2
  <2>3. CASE req # "start"
    <3>1. Readable(List) => Reloaded.list = ServersList
      BY Zenon DEF Reloaded, List
    <3> QED
      BY Zenon, <2>1, <2>3, <3>1 DEF LiveListFresh, Readable, ServersList
  <2> QED
    BY Zenon, <2>2, <2>3
<1>10. CASE Crash
  BY Zenon, <1>10 DEF Crash, LiveListFresh
<1>11. CASE UNCHANGED vars
  BY Zenon, <1>1, <1>11 DEF vars
<1> QED
  BY Zenon, <1>2, <1>3, <1>4, <1>5, <1>6, <1>7, <1>8, <1>9, <1>10, <1>11 DEF Next

\* Requests that fail half-way and crashes included, the running daemon never
\* works with an outdated list of phones between two requests: every request
\* that may change it ends in a reload, also when it failed
\* (handle_admin_request, DaemonState::reload).
THEOREM LiveFollowsList == Spec => []LiveListFresh
<1>1. Init => LiveListFresh /\ NoneIsDone
  BY Zenon DEF Init, LiveListFresh, NoneIsDone
<1> QED
  BY <1>1, BaseInit, BaseNext, NoneNext, FreshNext, PTL DEF Spec

=============================================================================
