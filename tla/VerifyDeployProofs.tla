------------------------- MODULE VerifyDeployProofs -------------------------
(***************************************************************************)
(* What a report of verify-deploy is worth, proved for any number of       *)
(* extensions, reports, changes and failed calls, and any environment.     *)
(*                                                                         *)
(* The invariants say what is known once a check is no longer queued: of   *)
(* the extension.env that is there now, although the registration checks   *)
(* judge the copy they parsed.  For that the checks must be made in their  *)
(* order: the file is parsed before any registration check.                *)
(***************************************************************************)
EXTENDS VerifyDeploy, FiniteSetTheorems, SequenceTheorems, WellFoundedInduction, TLAPS

USE VerifyAssumption

Deploying == {"D3", "D1", "D5key", "D5funds", "D6", "D7"}
Registering == {"R1", "format", "R2", "R3", "R4", "R7"}
Later == {"S2", "S5", "S7", "S9", "S10", "V2", "V4", "V6", "T1", "T5", "T10", "E1", "E3", "E6"}
CheckName == Deploying \cup {"parse"} \cup Registering \cup Later

\* Checks are made in this order: the deployment's, parse, the registration's, the others.
rank(c) == IF c \in Deploying THEN 1 ELSE IF c = "parse" THEN 2 ELSE IF c \in Registering THEN 3 ELSE 4

Ordered(q) ==
    \A i, j \in 1..Len(q) : i < j => rank(q[i]) < rank(q[j]) \/ (rank(q[i]) = rank(q[j]) /\ q[i] # "parse")

Holds(q, c) == \E i \in 1..Len(q) : q[i] = c
Queued(c) == Holds(queue, c)

EnvFile == [exists : BOOLEAN, id : Int, sender : Int]
Extension == [sender : Nat \ {0}, owner : BOOLEAN, evm : BOOLEAN]

WorldOK ==
    /\ extensions \in Seq(Extension)
    /\ \A e \in 1..Len(extensions) : extensions[e].evm => extensions[e].owner
    /\ file \in EnvFile /\ (file.exists \/ file = NoFile)
    /\ queue \in Seq(CheckName) /\ Ordered(queue)

\* Of an undisturbed deployment: nothing fails, and the copy parsed is the file.
QuietOK ==
    step # "none" /\ ~disturbed =>
       /\ InOrder
       /\ ~HasFailures
       /\ (\E c \in Registering : Queued(c)) => Queued("parse") \/ env = file

VerifyInv == WorldOK /\ QuietOK

-----------------------------------------------------------------------------
(* What a check that was made says of extension.env *)

\* The file names neither an extension nor a sender: the registration checks are skipped.
Nothing == file.id = Missing /\ file.sender = Missing

SenderFound ==
    Nothing \/ ~wellFormed(file.sender) \/ (registered(file.id) /\ extensions[file.id].sender = file.sender)
OwnerFound == Nothing \/ (registered(file.id) /\ extensions[file.id].owner)
KeyTypeFound == Nothing \/ (registered(file.id) /\ extensions[file.id].evm)

Known ==
    /\ Queued("parse") \/ Nothing \/ env = file
    /\ Queued("R2") \/ SenderFound
    /\ Queued("R3") \/ OwnerFound
    /\ Queued("R4") \/ KeyTypeFound
    /\ Queued("S2") \/ wellFormed(file.id)
    /\ Queued("E1") \/ ~file.exists \/ wellFormed(file.sender)

FullOK == step = "all" /\ withConfig /\ ~HasFailures => SetUp(file) \/ Known

NoWarning == \A r \in report : r.status # "WARN"

\* What D5, S10 and T1 pass for.
KeyOK == localMode \/ settings.key
ProxyKeyOK == settings.localMode = "false" => settings.proxyKey
AttestationOK == settings.localMode = "false" => settings.simulated # "true"

SettingsOK ==
    step = "all" /\ NoWarning =>
       /\ Queued("D5key") \/ KeyOK
       /\ Queued("S10") \/ ProxyKeyOK
       /\ Queued("T1") \/ AttestationOK

-----------------------------------------------------------------------------
(* The order of the checks *)

LEMMA LeastElement ==
    ASSUME NEW T, T \subseteq Nat, T # {}
    PROVE  \E n \in T : \A m \in T : n <= m
<1> DEFINE R == {ss \in Nat \X Nat : ss[1] < ss[2]}
<1>1. IsWellFoundedOn(R, Nat)
  BY NatLessThanWellFounded, Zenon DEF OpToRel
<1>2. \A m, n \in Nat : m < n => <<m, n>> \in R
  OBVIOUS
<1> HIDE DEF R
<1>3. PICK n \in T : \A m \in T : ~(<<m, n>> \in R)
  BY <1>1, WFMin
<1>4. \A m \in T : n <= m
  <2> TAKE m \in T
  <2>1. ~(m < n)
    BY <1>2, <1>3
  <2> QED
    BY <2>1
<1> QED
  BY <1>4

\* Checks made one after the other's end.
LEMMA OneAfterTheOther ==
    ASSUME NEW s \in Seq(CheckName), NEW t \in Seq(CheckName), Ordered(s), Ordered(t),
           \A i \in 1..Len(s), j \in 1..Len(t) :
              rank(s[i]) < rank(t[j]) \/ (rank(s[i]) = 4 /\ rank(t[j]) = 4)
    PROVE  /\ s \o t \in Seq(CheckName) /\ Ordered(s \o t) /\ Len(s \o t) = Len(s) + Len(t)
           /\ \A c : Holds(s, c) \/ Holds(t, c) => Holds(s \o t, c)
           /\ \A i \in 1..Len(s \o t) :
                 (\E j \in 1..Len(s) : (s \o t)[i] = s[j]) \/ (\E j \in 1..Len(t) : (s \o t)[i] = t[j])
<1>1. PICK u : u = s \o t
  OBVIOUS
<1>2. /\ u \in Seq(CheckName) /\ Len(u) = Len(s) + Len(t) /\ Len(s) \in Nat /\ Len(t) \in Nat
      /\ \A i \in 1..Len(s) : u[i] = s[i]
      /\ \A i \in 1..Len(t) : u[Len(s) + i] = t[i]
      /\ \A i \in 1..Len(u) : i \in 1..Len(s) \/ (i - Len(s) \in 1..Len(t) /\ u[i] = t[i - Len(s)])
  BY <1>1
<1>3. Ordered(u)
  <2> SUFFICES ASSUME NEW i \in 1..Len(u), NEW j \in 1..Len(u), i < j
               PROVE  rank(u[i]) < rank(u[j]) \/ (rank(u[i]) = rank(u[j]) /\ u[i] # "parse")
      BY DEF Ordered
  <2>0. rank("parse") = 2
    BY DEF rank, Deploying
  <2>1. CASE j \in 1..Len(s)
    <3>1. i \in 1..Len(s) /\ u[i] = s[i] /\ u[j] = s[j]
      BY <1>2, <2>1
    <3> QED
      BY <2>1, <3>1 DEF Ordered
  <2>2. CASE j \notin 1..Len(s) /\ i \notin 1..Len(s)
    <3>1. /\ i - Len(s) \in 1..Len(t) /\ u[i] = t[i - Len(s)]
          /\ j - Len(s) \in 1..Len(t) /\ u[j] = t[j - Len(s)] /\ i - Len(s) < j - Len(s)
      BY <1>2, <2>2, SMTT(60)
    <3>2. PICK a \in 1..Len(t), b \in 1..Len(t) : a < b /\ u[i] = t[a] /\ u[j] = t[b]
      BY <3>1
    <3> QED
      BY <3>2 DEF Ordered
  <2>3. CASE j \notin 1..Len(s) /\ i \in 1..Len(s)
    <3>1. u[i] = s[i] /\ j - Len(s) \in 1..Len(t) /\ u[j] = t[j - Len(s)]
      BY <1>2, <2>3
    <3>2. PICK b \in 1..Len(t) : u[j] = t[b]
      BY <3>1
    <3> QED
      BY <2>0, <2>3, <3>1, <3>2, SMTT(60)
  <2> QED
    BY <2>1, <2>2, <2>3
<1>4. ASSUME NEW c, Holds(s, c) \/ Holds(t, c) PROVE Holds(u, c)
  <2>1. CASE Holds(s, c)
    BY <1>2, <2>1 DEF Holds
  <2>2. CASE Holds(t, c)
    <3>1. PICK i \in 1..Len(t) : t[i] = c
      BY <2>2 DEF Holds
    <3>2. Len(s) + i \in 1..Len(u) /\ u[Len(s) + i] = c
      BY <1>2, <3>1
    <3> QED
      BY <3>2 DEF Holds
  <2> QED
    BY <1>4, <2>1, <2>2
<1>5. \A i \in 1..Len(u) :
         (\E j \in 1..Len(s) : u[i] = s[j]) \/ (\E j \in 1..Len(t) : u[i] = t[j])
  BY <1>2
<1> QED
  BY <1>1, <1>2, <1>3, <1>4, <1>5

\* The six lists of checks.
LEMMA ListsOrdered ==
    /\ DeployChecks \in Seq(CheckName) /\ Ordered(DeployChecks)
    /\ \A i \in 1..Len(DeployChecks) : DeployChecks[i] \in Deploying
    /\ Holds(DeployChecks, "D5key")
    /\ RegistrationChecks \in Seq(CheckName) /\ Ordered(RegistrationChecks)
    /\ \A i \in 1..Len(RegistrationChecks) : RegistrationChecks[i] \in {"parse"} \cup Registering
    /\ \A c \in {"parse"} \cup Registering : Holds(RegistrationChecks, c)
<1>1. /\ DeployChecks \in Seq(CheckName) /\ Len(DeployChecks) = 6
      /\ \A i \in 1..6 : DeployChecks[i] \in Deploying
      /\ DeployChecks[3] = "D5key"
  BY DEF DeployChecks, CheckName, Deploying
<1>2. Ordered(DeployChecks) /\ Holds(DeployChecks, "D5key")
  BY <1>1 DEF Ordered, rank, Deploying, Holds
<1>3. /\ RegistrationChecks \in Seq(CheckName) /\ Len(RegistrationChecks) = 7
      /\ RegistrationChecks[1] = "parse" /\ RegistrationChecks[2] = "R1" /\ RegistrationChecks[3] = "format"
      /\ RegistrationChecks[4] = "R2" /\ RegistrationChecks[5] = "R3" /\ RegistrationChecks[6] = "R4"
      /\ RegistrationChecks[7] = "R7"
  BY DEF RegistrationChecks, CheckName, Registering
<1>4. \A i \in 2..7 : RegistrationChecks[i] \in Registering
  BY <1>3 DEF Registering
<1>5. \A c \in {"parse"} \cup Registering : Holds(RegistrationChecks, c)
  BY <1>3 DEF Registering, Holds
<1>6. Ordered(RegistrationChecks)
  <2>1. \A c \in Registering : rank(c) = 3 /\ c # "parse"
    BY DEF rank, Registering, Deploying
  <2>2. rank("parse") = 2
    BY DEF rank, Deploying
  <2>3. \A i \in 1..7 : i = 1 \/ i \in 2..7
    OBVIOUS
  <2> QED
    BY <1>3, <1>4, <2>1, <2>2, <2>3 DEF Ordered
<1>7. \A i \in 1..7 : RegistrationChecks[i] \in {"parse"} \cup Registering
  BY <1>3, <1>4
<1> QED
  BY <1>1, <1>2, <1>3, <1>5, <1>6, <1>7

LEMMA LaterOrdered ==
    ASSUME NEW s \in {ServicesChecks, TeeVersionChecks, TeeMachineChecks, TestChecks}
    PROVE  s \in Seq(CheckName) /\ Ordered(s) /\ \A i \in 1..Len(s) : s[i] \in Later
<1>1. s \in Seq(CheckName) /\ \A i \in 1..Len(s) : s[i] \in Later
  <2>1. ServicesChecks \in Seq(CheckName) /\ \A i \in 1..Len(ServicesChecks) : ServicesChecks[i] \in Later
    BY DEF ServicesChecks, CheckName, Later
  <2>2. TeeVersionChecks \in Seq(CheckName) /\ \A i \in 1..Len(TeeVersionChecks) : TeeVersionChecks[i] \in Later
    BY DEF TeeVersionChecks, CheckName, Later
  <2>3. TeeMachineChecks \in Seq(CheckName) /\ \A i \in 1..Len(TeeMachineChecks) : TeeMachineChecks[i] \in Later
    BY DEF TeeMachineChecks, CheckName, Later
  <2>4. TestChecks \in Seq(CheckName) /\ \A i \in 1..Len(TestChecks) : TestChecks[i] \in Later
    BY DEF TestChecks, CheckName, Later
  <2> QED
    BY <2>1, <2>2, <2>3, <2>4
<1>2. \A c \in Later : rank(c) = 4 /\ c # "parse"
  BY DEF rank, Later, Deploying, Registering
<1> QED
  BY <1>1, <1>2 DEF Ordered

\* Later checks after any others.
LEMMA LaterAfter ==
    ASSUME NEW s \in Seq(CheckName), NEW t \in Seq(CheckName), Ordered(s), Ordered(t),
           \A i \in 1..Len(t) : t[i] \in Later
    PROVE  /\ s \o t \in Seq(CheckName) /\ Ordered(s \o t)
           /\ \A c : Holds(s, c) \/ Holds(t, c) => Holds(s \o t, c)
<1>1. \A c \in CheckName : rank(c) < 4 \/ rank(c) = 4
  BY DEF rank
<1>2. \A c \in Later : rank(c) = 4
  BY DEF rank, Later, Deploying, Registering
<1>3. \A i \in 1..Len(s) : s[i] \in CheckName
  OBVIOUS
<1>4. \A i \in 1..Len(s), j \in 1..Len(t) :
         rank(s[i]) < rank(t[j]) \/ (rank(s[i]) = 4 /\ rank(t[j]) = 4)
  BY <1>1, <1>2, <1>3
<1> QED
  BY <1>4, OneAfterTheOther

\* A step's checks, in their order; a full report makes them all.
LEMMA ChecksOrdered ==
    ASSUME NEW s \in Step
    PROVE  /\ checksOf(s) \in Seq(CheckName) /\ Ordered(checksOf(s))
           /\ (\E c \in Registering : Holds(checksOf(s), c)) => Holds(checksOf(s), "parse")
           /\ s = "all" =>
                 \A c \in {"parse", "R2", "R3", "R4", "S2", "E1", "D5key", "S10", "T1"} : Holds(checksOf(s), c)
<1>1. CASE s = "deploy"
  <2>1. checksOf(s) = DeployChecks
    BY <1>1 DEF checksOf
  <2>2. \A c \in Registering : c \notin Deploying
    BY DEF Registering, Deploying
  <2> QED
    BY <1>1, <2>1, <2>2, ListsOrdered DEF Holds
<1>2. CASE s = "register"
  <2>1. checksOf(s) = RegistrationChecks
    BY <1>2 DEF checksOf
  <2> QED
    BY <1>2, <2>1, ListsOrdered
<1>3. CASE s \in {"services", "tee-version", "tee-machine", "test"}
  <2>1. checksOf(s) \in {ServicesChecks, TeeVersionChecks, TeeMachineChecks, TestChecks}
    BY <1>3 DEF checksOf
  <2>2. \A c \in Registering : c \notin Later
    BY DEF Registering, Later
  <2> QED
    BY <1>3, <2>1, <2>2, LaterOrdered DEF Holds
<1>4. CASE s = "all"
  <2>1. PICK a, b : a = DeployChecks \o RegistrationChecks /\ b = a \o ServicesChecks
    OBVIOUS
  <2>2. PICK c, d : c = b \o TeeVersionChecks /\ d = c \o TeeMachineChecks
    OBVIOUS
  <2>3. PICK e : e = d \o TestChecks
    OBVIOUS
  <2>4. checksOf(s) = e
    BY <1>4, <2>1, <2>2, <2>3 DEF checksOf
  <2>5. /\ a \in Seq(CheckName) /\ Ordered(a)
        /\ \A x : Holds(DeployChecks, x) \/ Holds(RegistrationChecks, x) => Holds(a, x)
    <3>1. /\ \A x \in Deploying : rank(x) = 1
          /\ \A x \in {"parse"} \cup Registering : rank(x) > 1
      BY DEF rank, Deploying, Registering
    <3>2. \A i \in 1..Len(DeployChecks), j \in 1..Len(RegistrationChecks) :
             rank(DeployChecks[i]) < rank(RegistrationChecks[j])
      BY <3>1, ListsOrdered
    <3> QED
      BY <2>1, <3>2, ListsOrdered, OneAfterTheOther
  <2>6. b \in Seq(CheckName) /\ Ordered(b) /\ \A x : Holds(a, x) \/ Holds(ServicesChecks, x) => Holds(b, x)
    BY <2>1, <2>5, LaterOrdered, LaterAfter
  <2>7. c \in Seq(CheckName) /\ Ordered(c) /\ \A x : Holds(b, x) \/ Holds(TeeVersionChecks, x) => Holds(c, x)
    BY <2>2, <2>6, LaterOrdered, LaterAfter
  <2>8. d \in Seq(CheckName) /\ Ordered(d) /\ \A x : Holds(c, x) \/ Holds(TeeMachineChecks, x) => Holds(d, x)
    BY <2>2, <2>7, LaterOrdered, LaterAfter
  <2>9. e \in Seq(CheckName) /\ Ordered(e) /\ \A x : Holds(d, x) \/ Holds(TestChecks, x) => Holds(e, x)
    BY <2>3, <2>8, LaterOrdered, LaterAfter
  <2>10. /\ Holds(ServicesChecks, "S2") /\ Holds(ServicesChecks, "S10") /\ Holds(TeeMachineChecks, "T1")
         /\ Holds(TestChecks, "E1")
    BY DEF Holds, ServicesChecks, TeeMachineChecks, TestChecks
  <2>11. /\ Holds(e, "S2") /\ Holds(e, "S10") /\ Holds(e, "T1") /\ Holds(e, "E1")
         /\ Holds(e, "D5key")
         /\ \A x \in {"parse"} \cup Registering : Holds(e, x)
    BY <2>5, <2>6, <2>7, <2>8, <2>9, <2>10, ListsOrdered
  <2> QED
    BY <2>4, <2>9, <2>11 DEF Registering
<1> QED
  BY <1>1, <1>2, <1>3, <1>4
-----------------------------------------------------------------------------
(* The queue *)

\* A check is made, and the others stay.
LEMMA QueueTail ==
    ASSUME NEW q \in Seq(CheckName), Ordered(q), q # <<>>
    PROVE  /\ Head(q) \in CheckName
           /\ Tail(q) \in Seq(CheckName) /\ Ordered(Tail(q))
           /\ \A c : Holds(q, c) <=> c = Head(q) \/ Holds(Tail(q), c)
           /\ Head(q) \in Registering => ~Holds(q, "parse")
           /\ Head(q) = "parse" => \A i \in 1..Len(Tail(q)) : rank(Tail(q)[i]) > 2
<1>1. PICK t : t = Tail(q)
  OBVIOUS
<1>2. /\ t \in Seq(CheckName) /\ Len(q) \in Nat \ {0} /\ Len(t) = Len(q) - 1 /\ Head(q) = q[1]
      /\ q[1] \in CheckName
  BY <1>1
<1>3. \A i \in 1..Len(t) : t[i] = q[i + 1] /\ i + 1 \in 1..Len(q)
  BY <1>1, <1>2, HeadTailProperties
<1>4. Ordered(t)
  <2> SUFFICES ASSUME NEW i \in 1..Len(t), NEW j \in 1..Len(t), i < j
               PROVE  rank(t[i]) < rank(t[j]) \/ (rank(t[i]) = rank(t[j]) /\ t[i] # "parse")
      BY DEF Ordered
  <2>1. PICK a \in 1..Len(q), b \in 1..Len(q) : a < b /\ t[i] = q[a] /\ t[j] = q[b]
    <3>1. /\ i + 1 \in 1..Len(q) /\ j + 1 \in 1..Len(q) /\ i + 1 < j + 1
          /\ t[i] = q[i + 1] /\ t[j] = q[j + 1]
      BY <1>2, <1>3, SMTT(60)
    <3> QED
      BY <3>1
  <2> QED
    BY <2>1 DEF Ordered
<1>5. ASSUME NEW c PROVE Holds(q, c) <=> c = q[1] \/ Holds(t, c)
  <2>1. \A i \in 1..Len(q) : i = 1 \/ (i - 1 \in 1..Len(t) /\ q[i] = t[i - 1])
    <3> SUFFICES ASSUME NEW i \in 1..Len(q), i # 1 PROVE i - 1 \in 1..Len(t) /\ q[i] = t[i - 1]
        OBVIOUS
    <3>1. i - 1 \in 1..Len(t) /\ (i - 1) + 1 = i
      BY <1>2
    <3>2. t[i - 1] = q[(i - 1) + 1]
      BY <1>3, <3>1
    <3> QED
      BY <3>1, <3>2
  <2>2. ASSUME Holds(q, c), c # q[1] PROVE Holds(t, c)
    <3>1. PICK i \in 1..Len(q) : q[i] = c
      BY <2>2 DEF Holds
    <3>2. i - 1 \in 1..Len(t) /\ t[i - 1] = c
      BY <2>1, <2>2, <3>1
    <3> QED
      BY <3>2 DEF Holds
  <2>3. ASSUME Holds(t, c) PROVE Holds(q, c)
    <3>1. PICK i \in 1..Len(t) : t[i] = c
      BY <2>3 DEF Holds
    <3>2. i + 1 \in 1..Len(q) /\ q[i + 1] = c
      BY <1>3, <3>1
    <3> QED
      BY <3>2 DEF Holds
  <2>4. Holds(q, q[1])
    <3>1. 1 \in 1..Len(q)
      BY <1>2
    <3> QED
      BY <3>1 DEF Holds
  <2> QED
    BY <2>2, <2>3, <2>4
<1>6. \A j \in 1..Len(t) : rank(q[1]) < rank(t[j]) \/ (rank(q[1]) = rank(t[j]) /\ q[1] # "parse")
  <2> SUFFICES ASSUME NEW j \in 1..Len(t)
               PROVE  rank(q[1]) < rank(t[j]) \/ (rank(q[1]) = rank(t[j]) /\ q[1] # "parse")
      OBVIOUS
  <2>1. 1 \in 1..Len(q) /\ j + 1 \in 1..Len(q) /\ 1 < j + 1 /\ t[j] = q[j + 1]
    BY <1>2, <1>3
  <2> QED
    BY <2>1 DEF Ordered
<1>7. /\ rank("parse") = 2 /\ \A c \in Registering : rank(c) = 3
      /\ \A c : rank(c) \in 1..4
  BY DEF rank, Registering, Deploying
<1>8. q[1] \in Registering => ~Holds(q, "parse")
  <2> SUFFICES ASSUME q[1] \in Registering, Holds(q, "parse") PROVE FALSE
      OBVIOUS
  <2>1. q[1] # "parse" /\ Holds(t, "parse")
    BY <1>5 DEF Registering
  <2>2. PICK j \in 1..Len(t) : t[j] = "parse"
    BY <2>1 DEF Holds
  <2> QED
    BY <1>6, <1>7, <2>2
<1>9. q[1] = "parse" => \A i \in 1..Len(t) : rank(t[i]) > 2
  BY <1>6, <1>7
<1> QED
  BY <1>1, <1>2, <1>4, <1>5, <1>8, <1>9

\* The registration checks that are left are dropped, and no other.
LEMMA QueueAfterRegistration ==
    ASSUME NEW q \in Seq(CheckName), Ordered(q), \A i \in 1..Len(q) : rank(q[i]) > 2
    PROVE  /\ afterRegistration(q) \in Seq(CheckName) /\ Ordered(afterRegistration(q))
           /\ \A c : Holds(afterRegistration(q), c) <=> Holds(q, c) /\ c \notin Registering
<1> DEFINE S == {i \in 1..(Len(q) + 1) : i \in 1..Len(q) => q[i] \notin Registering}
<1>0. Len(q) \in Nat
  OBVIOUS
<1>1. S \subseteq Nat /\ Len(q) + 1 \in S
  BY <1>0
<1>2. PICK k : k = CHOOSE x \in S : \A y \in S : x <= y
  OBVIOUS
<1>3. afterRegistration(q) = SubSeq(q, k, Len(q))
  BY <1>2 DEF afterRegistration, Min, Registering
<1>4. k \in S /\ \A y \in S : k <= y
  <2> HIDE DEF S
  <2>1. \E x \in S : \A y \in S : x <= y
    BY <1>1, LeastElement
  <2> QED
    BY <1>2, <2>1
<1>5. /\ k \in 1..(Len(q) + 1)
      /\ k \in 1..Len(q) => q[k] \notin Registering
      /\ \A i \in 1..Len(q) : i < k => q[i] \in Registering
  BY <1>0, <1>4
<1> HIDE DEF S
<1>6. PICK t : t = SubSeq(q, k, Len(q))
  OBVIOUS
<1>7. /\ t \in Seq(CheckName) /\ Len(t) = Len(q) - k + 1
      /\ \A i \in 1..Len(t) : t[i] = q[k + i - 1] /\ k + i - 1 \in k..Len(q)
  BY <1>0, <1>5, <1>6
<1>8. \A i \in k..Len(q) : q[i] \notin Registering
  <2> SUFFICES ASSUME NEW i \in k..Len(q) PROVE q[i] \notin Registering
      OBVIOUS
  <2>1. k \in 1..Len(q) /\ i \in 1..Len(q) /\ q[k] \in CheckName /\ q[i] \in CheckName
    BY <1>0, <1>5
  <2>2. rank(q[k]) > 2 /\ q[k] \notin Registering
    BY <1>5, <2>1
  <2>3. rank(q[k]) = 4
    BY <2>2 DEF rank
  <2>4. i = k \/ rank(q[k]) < rank(q[i]) \/ rank(q[k]) = rank(q[i])
    BY <2>1, <1>5 DEF Ordered
  <2>5. \A c \in Registering : rank(c) = 3
    BY DEF rank, Registering, Deploying
  <2> QED
    BY <2>2, <2>3, <2>4, <2>5
<1>9. Ordered(t)
  <2> SUFFICES ASSUME NEW i \in 1..Len(t), NEW j \in 1..Len(t), i < j
               PROVE  rank(t[i]) < rank(t[j]) \/ (rank(t[i]) = rank(t[j]) /\ t[i] # "parse")
      BY DEF Ordered
  <2>1. PICK a \in 1..Len(q), b \in 1..Len(q) : a < b /\ t[i] = q[a] /\ t[j] = q[b]
    <3>1. /\ k + i - 1 \in 1..Len(q) /\ k + j - 1 \in 1..Len(q) /\ k + i - 1 < k + j - 1
          /\ t[i] = q[k + i - 1] /\ t[j] = q[k + j - 1]
      BY <1>0, <1>5, <1>7
    <3> QED
      BY <3>1
  <2> QED
    BY <2>1 DEF Ordered
<1>10. ASSUME NEW c PROVE Holds(t, c) <=> Holds(q, c) /\ c \notin Registering
  <2>1. ASSUME Holds(t, c) PROVE Holds(q, c) /\ c \notin Registering
    <3>1. PICK i \in 1..Len(t) : t[i] = c
      BY <2>1 DEF Holds
    <3>2. PICK j \in k..Len(q) : q[j] = c
      BY <1>7, <3>1
    <3>3. j \in 1..Len(q)
      BY <1>0, <1>5
    <3> QED
      BY <1>8, <3>2, <3>3 DEF Holds
  <2>2. ASSUME Holds(q, c), c \notin Registering PROVE Holds(t, c)
    <3>1. PICK i \in 1..Len(q) : q[i] = c
      BY <2>2 DEF Holds
    <3>2. i >= k
      BY <1>0, <1>5, <2>2, <3>1
    <3>3. i - k + 1 \in 1..Len(t) /\ k + (i - k + 1) - 1 = i
      BY <1>0, <1>5, <1>7, <3>2
    <3>4. t[i - k + 1] = q[k + (i - k + 1) - 1]
      BY <1>7, <3>3
    <3> QED
      BY <3>1, <3>3, <3>4 DEF Holds
  <2> QED
    BY <2>1, <2>2
<1> QED
  BY <1>3, <1>6, <1>7, <1>9, <1>10

-----------------------------------------------------------------------------
(* The results *)

LEMMA WhatFails ==
    ASSUME NEW id, NEW condition, NEW otherwise, otherwise # "PASS"
    PROVE  /\ (\A x \in passIf(id, condition, otherwise) : x.status # otherwise) => condition
           /\ condition => \A x \in passIf(id, condition, otherwise) : x.status = "PASS"
           /\ \A x \in passIf(id, condition, otherwise) : x.status = "PASS" \/ x.status = otherwise
           /\ \A x \in is(id, otherwise) : x.status = otherwise
<1>1. passIf(id, condition, otherwise) = {[id |-> id, status |-> IF condition THEN "PASS" ELSE otherwise]}
  BY DEF passIf, is
<1>2. is(id, otherwise) = {[id |-> id, status |-> otherwise]}
  BY DEF is
<1> QED
  BY <1>1, <1>2

LEMMA IsFound == ASSUME NEW set, NEW id, NEW status, set = is(id, status) PROVE \E x \in set : x.status = status
<1>1. PICK x : x = [id |-> id, status |-> status]
  OBVIOUS
<1>2. x \in set /\ x.status = status
  BY <1>1 DEF is
<1> QED
  BY <1>2

\* No check fails on a deployment in order, when its call succeeds.
LEMMA InOrderPasses ==
    ASSUME WorldOK, InOrder, NEW c \in CheckName, c \notin {"parse", "format"},
           c \in Registering => env = file
    PROVE  \A x \in results(c, TRUE) : x.status # "FAIL"
<1>1. /\ manager = "deployed" /\ funded /\ file.exists /\ registered(file.id)
      /\ extensions[file.id].sender = file.sender
      /\ extensions[file.id].owner /\ extensions[file.id].evm
  BY DEF InOrder, SetUp
<1>2. wellFormed(file.id) /\ wellFormed(file.sender)
  <2>1. extensions \in Seq(Extension) /\ file.id \in 1..Len(extensions)
    BY <1>1 DEF WorldOK, registered
  <2>2. extensions[file.id] \in Extension /\ file.id \in Nat \ {0}
    BY <2>1
  <2>3. extensions[file.id].sender \in Nat \ {0}
    BY <2>2 DEF Extension
  <2> QED
    BY <1>1, <2>2, <2>3 DEF wellFormed, Missing, Malformed
<1>3. CASE c \in {"D3", "D1", "D5key", "D5funds", "D6", "D7"}
  <2>1. CASE c = "D3"
    BY <1>1, <2>1 DEF results, AddressNotZero, passIf, is
  <2>2. CASE c = "D1"
    BY <1>1, <2>2 DEF results, AddressHasCode, passIf, is
  <2>3. CASE c = "D5key"
    BY <2>3 DEF results, CheckDeployerKeySource, passIf, is
  <2>4. CASE c = "D5funds"
    BY <1>1, <2>4 DEF results, KeyHasFunds, passIf, is
  <2>5. CASE c = "D6"
    BY <2>5 DEF results, checkChainID, passIf, is
  <2>6. CASE c = "D7"
    BY <1>1, <1>2, <2>6 DEF results, CheckExtensionEnvFormat, formatted, passIf, is
  <2> QED
    BY <1>3, <2>1, <2>2, <2>3, <2>4, <2>5, <2>6
<1>4. CASE c \in {"R1", "R2", "R3", "R4", "R7"}
  <2>0. env = file
    BY <1>4 DEF Registering
  <2>1. CASE c = "R1"
    BY <2>1 DEF results, nextExtensionId, passIf, is
  <2>2. CASE c = "R2"
    BY <1>1, <2>0, <2>2 DEF results, senderMatches, passIf, is
  <2>3. CASE c = "R3"
    BY <1>1, <2>0, <2>3 DEF results, machineOwnerAllowed, passIf, is
  <2>4. CASE c = "R4"
    BY <1>1, <2>0, <2>4 DEF results, keyTypeSupported, passIf, is
  <2>5. CASE c = "R7"
    BY <2>5 DEF results, senderUnique, passIf, is
  <2> QED
    BY <1>4, <2>1, <2>2, <2>3, <2>4, <2>5
<1>5. CASE c \in {"S2", "S5", "S7", "S10", "V2", "V4", "T1", "E1", "E6"}
  <2>1. CASE c = "S2"
    BY <1>2, <2>1 DEF results, extensionIdSet, formatted, passIf, is
  <2>2. CASE c = "S5"
    BY <2>2 DEF results, portNotInUse, passIf, is
  <2>3. CASE c = "S7"
    BY <2>3 DEF results, portConfiguration, is
  <2>4. CASE c = "S10"
    BY <2>4 DEF results, proxyKeySet, passIf, is
  <2>5. CASE c = "V2"
    BY <2>5 DEF results, extensionOwnerKey, passIf, is
  <2>6. CASE c = "V4"
    BY <1>2, <2>6 DEF results, extensionIdValid, formatted, passIf, is
  <2>7. CASE c = "T1"
    BY <2>7 DEF results, simulatedTee, passIf, is
  <2>8. CASE c = "E1"
    BY <1>2, <2>8 DEF results, instructionSenderValid, formatted, passIf, is
  <2>9. CASE c = "E6"
    BY <2>9 DEF results, alignmentInfo, is
  <2> QED
    BY <1>5, <2>1, <2>2, <2>3, <2>4, <2>5, <2>6, <2>7, <2>8, <2>9
<1>6. CASE c \in {"S9", "V6", "T10", "E3", "T5"}
  <2>1. \E proxy : results(c, TRUE) = reachable(c, proxy)
    <3>1. CASE c = "S9"
      BY <3>1 DEF results
    <3>2. CASE c = "V6"
      BY <3>2 DEF results
    <3>3. CASE c = "T10"
      BY <3>3 DEF results
    <3>4. CASE c = "E3"
      BY <3>4 DEF results
    <3>5. CASE c = "T5"
      BY <3>5 DEF results
    <3> QED
      BY <1>6, <3>1, <3>2, <3>3, <3>4, <3>5
  <2>2. PICK proxy : results(c, TRUE) = reachable(c, proxy)
    BY <2>1
  <2>3. reachable(c, proxy) = is(c, "SKIP") \/ reachable(c, proxy) = passIf(c, proxy \in up, "WARN")
    BY Zenon DEF reachable
  <2>4. /\ \A x \in passIf(c, proxy \in up, "WARN") : x.status = "PASS" \/ x.status = "WARN"
        /\ \A x \in is(c, "SKIP") : x.status = "SKIP"
    BY WhatFails
  <2> QED
    BY <2>2, <2>3, <2>4
<1> QED
  BY <1>3, <1>4, <1>5, <1>6 DEF CheckName, Deploying, Registering, Later
-----------------------------------------------------------------------------
(* The world: what is set up stays so *)

ExtensionsGrow ==
    /\ Len(extensions) <= Len(extensions')
    /\ \A e \in 1..Len(extensions) :
          /\ extensions'[e].sender = extensions[e].sender
          /\ extensions[e].owner => extensions'[e].owner
          /\ extensions[e].evm => extensions'[e].evm

LEMMA SetUpStays ==
    ASSUME WorldOK, WorldOK', ExtensionsGrow, UNCHANGED file
    PROVE  /\ SetUp(file) => SetUp(file)'
           /\ SenderFound => SenderFound'
           /\ OwnerFound => OwnerFound'
           /\ KeyTypeFound => KeyTypeFound'
<1>1. \A id : registered(id) => id \in 1..Len(extensions) /\ id \in 1..Len(extensions')
  BY DEF WorldOK, ExtensionsGrow, registered
<1>2. \A id \in 1..Len(extensions') : registered(id)'
  BY DEF WorldOK, registered
<1> QED
  BY <1>1, <1>2 DEF ExtensionsGrow, SetUp, SenderFound, OwnerFound, KeyTypeFound, Nothing, registered

\* pre-build: either extensions are added to, or the file names one that is set up.
LEMMA PreBuildStep ==
    ASSUME WorldOK, PreBuild
    PROVE  /\ WorldOK'
           /\ \/ UNCHANGED <<file, disturbed>> /\ ExtensionsGrow
              \/ SetUp(file)' /\ disturbed'
<1>0. /\ extensions \in Seq(Extension) /\ Len(extensions) \in Nat /\ DOMAIN extensions = 1..Len(extensions)
      /\ UNCHANGED <<manager, funded, step, withConfig, queue, env, report>>
  BY DEF WorldOK, PreBuild, toolVars
<1>1. CASE Mint
  <2>1. PICK sender \in 1..(Len(extensions) + 1) :
           extensions' = Append(extensions, [sender |-> sender, owner |-> FALSE, evm |-> FALSE])
    BY <1>1 DEF Mint
  <2>2. PICK e : e = [sender |-> sender, owner |-> FALSE, evm |-> FALSE]
    OBVIOUS
  <2>3. e \in Extension /\ e.evm = FALSE
    BY <1>0, <2>2 DEF Extension
  <2>4. /\ extensions' \in Seq(Extension) /\ Len(extensions') = Len(extensions) + 1
        /\ \A i \in 1..Len(extensions) : extensions'[i] = extensions[i]
        /\ extensions'[Len(extensions) + 1] = e
    BY <1>0, <2>1, <2>2, <2>3
  <2>5. \A i \in 1..Len(extensions') : i \in 1..Len(extensions) \/ i = Len(extensions) + 1
    BY <1>0, <2>4
  <2>6. WorldOK'
    BY <1>0, <1>1, <2>3, <2>4, <2>5 DEF WorldOK, Mint
  <2> QED
    BY <1>0, <1>1, <2>4, <2>6 DEF Mint, ExtensionsGrow
<1>2. CASE AllowOwner \/ SupportKeyType
  <2>0. PICK e \in 1..Len(extensions) : \E x :
           /\ x \in {[extensions[e] EXCEPT !.owner = TRUE], [extensions[e] EXCEPT !.evm = TRUE]}
           /\ x.evm => x.owner
           /\ extensions' = [extensions EXCEPT ![e] = x]
    <3>1. CASE AllowOwner
      <4>1. PICK e \in 1..Len(extensions) : extensions' = [extensions EXCEPT ![e].owner = TRUE]
        BY <1>0, <3>1 DEF AllowOwner
      <4>2. extensions[e] \in Extension
        BY <1>0
      <4>3. PICK x : x = [extensions[e] EXCEPT !.owner = TRUE]
        OBVIOUS
      <4>4. x.owner /\ extensions' = [extensions EXCEPT ![e] = x]
        BY <4>1, <4>2, <4>3 DEF Extension
      <4> QED
        BY <4>3, <4>4
    <3>2. CASE SupportKeyType
      <4>1. PICK e \in 1..Len(extensions) :
               extensions[e].owner /\ extensions' = [extensions EXCEPT ![e].evm = TRUE]
        BY <1>0, <3>2 DEF SupportKeyType
      <4>2. extensions[e] \in Extension
        BY <1>0
      <4>3. PICK x : x = [extensions[e] EXCEPT !.evm = TRUE]
        OBVIOUS
      <4>4. x.owner = extensions[e].owner /\ extensions' = [extensions EXCEPT ![e] = x]
        BY <4>1, <4>2, <4>3 DEF Extension
      <4> QED
        BY <4>1, <4>3, <4>4
    <3> QED
      BY <1>2, <3>1, <3>2
  <2>1. PICK x :
           /\ x \in {[extensions[e] EXCEPT !.owner = TRUE], [extensions[e] EXCEPT !.evm = TRUE]}
           /\ x.evm => x.owner
           /\ extensions' = [extensions EXCEPT ![e] = x]
    BY <2>0
  <2>2. extensions[e] \in Extension
    BY <1>0
  <2>3. /\ x \in Extension /\ x.sender = extensions[e].sender
        /\ extensions[e].owner => x.owner
        /\ extensions[e].evm => x.evm
    BY <2>1, <2>2 DEF Extension
  <2>4. /\ extensions' \in Seq(Extension) /\ Len(extensions') = Len(extensions)
        /\ extensions'[e] = x
        /\ \A i \in 1..Len(extensions) : i # e => extensions'[i] = extensions[i]
    BY <1>0, <2>1, <2>3
  <2>5. WorldOK'
    BY <1>0, <1>2, <2>1, <2>4 DEF WorldOK, AllowOwner, SupportKeyType
  <2>6. ExtensionsGrow
    BY <1>0, <2>3, <2>4 DEF ExtensionsGrow
  <2> QED
    BY <1>2, <2>5, <2>6 DEF AllowOwner, SupportKeyType
<1>3. CASE WriteFile
  <2>1. PICK e \in 1..Len(extensions) : extensions[e].evm /\ file' = Env(e, extensions[e].sender)
    BY <1>0, <1>3 DEF WriteFile
  <2>2. extensions[e] \in Extension
    BY <1>0
  <2>3. extensions[e].sender \in Nat /\ e \in Nat
    BY <1>0, <2>2 DEF Extension
  <2>4. file' \in EnvFile /\ file'.exists /\ file'.id = e /\ file'.sender = extensions[e].sender
    BY <2>1, <2>3 DEF Env, EnvFile
  <2>5. extensions' = extensions /\ disturbed'
    BY <1>3 DEF WriteFile
  <2>6. WorldOK'
    BY <1>0, <2>4, <2>5 DEF WorldOK
  <2>7. SetUp(file)'
    BY <1>0, <2>1, <2>4, <2>5 DEF WorldOK, SetUp, registered
  <2> QED
    BY <2>5, <2>6, <2>7
<1> QED
  BY <1>1, <1>2, <1>3 DEF PreBuild

LEMMA OperatorStep ==
    ASSUME WorldOK, Operator
    PROVE  /\ WorldOK'
           /\ \/ UNCHANGED <<file, extensions, step, manager, disturbed, funded>>
              \/ UNCHANGED <<file, extensions, step>> /\ disturbed'
              \/ step' = "none"
<1>0. UNCHANGED <<settings, manager, extensions, withConfig, queue, env, report>>
  BY DEF Operator
<1>1. CASE (SpendFunds \/ ServiceChanges) /\ UNCHANGED step
  BY <1>0, <1>1 DEF SpendFunds, ServiceChanges, WorldOK
<1>2. CASE EditFile
  <2>1. file' \in EnvFile /\ (file'.exists \/ file' = NoFile)
    <3>1. CASE file' = NoFile
      BY <3>1 DEF NoFile, EnvFile, Missing
    <3>2. ASSUME NEW id \in {Missing, Malformed} \cup Address, NEW sender \in {Missing, Malformed} \cup Address,
                 file' = Env(id, sender)
          PROVE  file' \in EnvFile /\ file'.exists
      <4>1. id \in Int /\ sender \in Int
        BY DEF Missing, Malformed, Address
      <4> QED
        BY <3>2, <4>1 DEF Env, EnvFile
    <3> QED
      BY <1>2, <3>1, <3>2 DEF EditFile
  <2>2. WorldOK'
    BY <1>0, <2>1 DEF WorldOK
  <2> QED
    BY <1>2, <2>2 DEF EditFile
<1> QED
  BY <1>1, <1>2 DEF Operator
-----------------------------------------------------------------------------
(* The steps of verify-deploy *)

\* Results are added, and without -checks none is hidden.
LEMMA ResultsAdded ==
    ASSUME NEW new, NEW left, add(new, left)
    PROVE  /\ queue' = left
           /\ report' \subseteq report \cup new
           /\ Filter = {} => report' = report \cup new
BY DEF add, shown

LEMMA StartStep ==
    ASSUME WorldOK, Start
    PROVE  /\ WorldOK' /\ report' = {} /\ disturbed' = ~InOrder /\ UNCHANGED worldVars
           /\ (\E c \in Registering : Queued(c)') => Queued("parse")'
           /\ step' = "all" =>
                 \A c \in {"parse", "R2", "R3", "R4", "S2", "E1", "D5key", "S10", "T1"} : Queued(c)'
<1>1. PICK s \in Step : step' = s /\ queue' = checksOf(s)
  BY DEF Start
<1>2. /\ queue' \in Seq(CheckName) /\ Ordered(queue')
      /\ (\E c \in Registering : Holds(queue', c)) => Holds(queue', "parse")
      /\ s = "all" =>
            \A c \in {"parse", "R2", "R3", "R4", "S2", "E1", "D5key", "S10", "T1"} : Holds(queue', c)
  BY <1>1, ChecksOrdered
<1>3. UNCHANGED worldVars /\ report' = {} /\ disturbed' = ~InOrder
  BY DEF Start
<1>4. WorldOK'
  BY <1>2, <1>3 DEF WorldOK, worldVars
<1> QED
  BY <1>1, <1>2, <1>3, <1>4 DEF Queued

\* What the registration checks do first.
LEMMA ParseStep ==
    ASSUME WorldOK, parseExtensionEnv
    PROVE  /\ WorldOK' /\ UNCHANGED <<worldVars, step, withConfig, disturbed>>
           /\ \/ /\ ~withConfig \/ Nothing
                 /\ \A c : Queued(c)' <=> Queued(c) /\ c \notin Registering \cup {"parse"}
              \/ /\ env' = file
                 /\ \A c : Queued(c)' <=> Queued(c) /\ c # "parse"
           /\ report' \subseteq report \cup is("R1-R7", "SKIP")
           /\ Filter = {} => report \subseteq report'
<1>1. /\ queue \in Seq(CheckName) /\ Ordered(queue) /\ queue # <<>> /\ Head(queue) = "parse"
      /\ UNCHANGED <<worldVars, step, withConfig, disturbed>>
  BY DEF WorldOK, parseExtensionEnv
<1>2. PICK t : t = Tail(queue)
  OBVIOUS
<1>3. /\ t \in Seq(CheckName) /\ Ordered(t) /\ \A i \in 1..Len(t) : rank(t[i]) > 2
      /\ \A c : Queued(c) <=> c = "parse" \/ Holds(t, c)
  BY <1>1, <1>2, QueueTail DEF Queued
<1>4. ~Holds(t, "parse")
  <2>1. rank("parse") = 2
    BY DEF rank, Deploying
  <2> QED
    BY <1>3, <2>1 DEF Holds
<1>5. CASE ~withConfig \/ Nothing
  <2>1. add(is("R1-R7", "SKIP"), afterRegistration(t))
    BY <1>2, <1>5 DEF parseExtensionEnv, Nothing
  <2>2. /\ queue' = afterRegistration(t) /\ report' \subseteq report \cup is("R1-R7", "SKIP")
        /\ Filter = {} => report \subseteq report'
    BY <2>1, ResultsAdded
  <2>3. /\ queue' \in Seq(CheckName) /\ Ordered(queue')
        /\ \A c : Holds(queue', c) <=> Holds(t, c) /\ c \notin Registering
    BY <1>3, <2>2, QueueAfterRegistration
  <2>4. WorldOK'
    BY <1>1, <2>3 DEF WorldOK, worldVars
  <2> QED
    BY <1>1, <1>3, <1>4, <1>5, <2>2, <2>3, <2>4 DEF Queued
<1>6. CASE ~(~withConfig \/ Nothing)
  <2>1. add({}, t) /\ env' = file
    BY <1>2, <1>6 DEF parseExtensionEnv, Nothing
  <2>2. queue' = t /\ report' \subseteq report /\ (Filter = {} => report \subseteq report')
    BY <2>1, ResultsAdded
  <2>3. WorldOK'
    BY <1>1, <1>3, <2>2 DEF WorldOK, worldVars
  <2> QED
    BY <1>1, <1>3, <1>4, <2>1, <2>2, <2>3 DEF Queued
<1> QED
  BY <1>5, <1>6

LEMMA FormatStep ==
    ASSUME WorldOK, ExtensionIdFormat
    PROVE  /\ WorldOK' /\ UNCHANGED <<worldVars, step, withConfig, env, disturbed>>
           /\ Queued("format") /\ ~Queued("parse")
           /\ \A c : Queued(c)' => Queued(c)
           /\ \/ /\ wellFormed(env.id)
                 /\ \A c : Queued(c) /\ c # "format" => Queued(c)'
                 /\ report' \subseteq report
                 /\ Filter = {} => report' = report
              \/ /\ ~wellFormed(env.id)
                 /\ \A c : Queued(c) /\ c \notin Registering => Queued(c)'
                 /\ Filter = {} => HasFailures' /\ report' = report \cup extensionIdFormat
<1>1. /\ queue \in Seq(CheckName) /\ Ordered(queue) /\ queue # <<>> /\ Head(queue) = "format"
      /\ UNCHANGED <<worldVars, step, withConfig, env, disturbed>>
  BY DEF WorldOK, ExtensionIdFormat
<1>2. PICK t : t = Tail(queue)
  OBVIOUS
<1>3. "format" \in Registering
  BY DEF Registering
<1>4. /\ t \in Seq(CheckName) /\ Ordered(t)
      /\ \A c : Queued(c) <=> c = "format" \/ Holds(t, c)
      /\ ~Queued("parse")
  BY <1>1, <1>2, <1>3, QueueTail DEF Queued
<1>5. CASE wellFormed(env.id)
  <2>1. add({}, t)
    BY <1>2, <1>5 DEF ExtensionIdFormat, extensionIdFormat
  <2>2. queue' = t /\ report' \subseteq report /\ (Filter = {} => report' = report)
    BY <2>1, ResultsAdded
  <2>3. WorldOK'
    BY <1>1, <1>4, <2>2 DEF WorldOK, worldVars
  <2> QED
    BY <1>1, <1>4, <1>5, <2>2, <2>3 DEF Queued
<1>6. CASE ~wellFormed(env.id)
  <2>1. add(extensionIdFormat, afterRegistration(t)) /\ extensionIdFormat = is("R2", "FAIL")
    BY <1>2, <1>6 DEF ExtensionIdFormat, extensionIdFormat
  <2>2. queue' = afterRegistration(t) /\ (Filter = {} => report' = report \cup extensionIdFormat)
    BY <2>1, ResultsAdded
  <2>3. \A i \in 1..Len(t) : rank(t[i]) > 2
    <3>1. \A c \in Registering : rank(c) = 3
      BY DEF rank, Registering, Deploying
    <3>2. ASSUME NEW i \in 1..Len(t) PROVE rank(t[i]) > 2
      <4>1. 1 \in 1..Len(queue) /\ i + 1 \in 1..Len(queue) /\ 1 < i + 1 /\ queue[i + 1] = t[i]
            /\ queue[1] = "format"
        <5>1. Len(t) = Len(queue) - 1 /\ Len(queue) \in Nat \ {0} /\ Head(queue) = queue[1]
          BY <1>1, <1>2
        <5>2. t[i] = queue[i + 1]
          BY <1>1, <1>2, HeadTailProperties
        <5>3. i \in Nat /\ 1 <= i /\ i <= Len(queue) - 1
          BY <5>1
        <5>4. 1 \in 1..Len(queue) /\ i + 1 \in 1..Len(queue) /\ 1 < i + 1
          BY <5>1, <5>3
        <5> QED
          BY <1>1, <5>1, <5>2, <5>4
      <4>2. rank(queue[1]) < rank(queue[i + 1]) \/ rank(queue[1]) = rank(queue[i + 1])
        BY <1>1, <4>1 DEF Ordered
      <4>3. \A c : rank(c) \in 1..4
        BY DEF rank
      <4> QED
        BY <1>3, <3>1, <4>1, <4>2, <4>3
    <3> QED
      BY <3>2
  <2>4. /\ queue' \in Seq(CheckName) /\ Ordered(queue')
        /\ \A c : Holds(queue', c) <=> Holds(t, c) /\ c \notin Registering
    <3>1. t \in Seq(CheckName) /\ Ordered(t)
      BY <1>4
    <3>2. /\ afterRegistration(t) \in Seq(CheckName) /\ Ordered(afterRegistration(t))
          /\ \A c : Holds(afterRegistration(t), c) <=> Holds(t, c) /\ c \notin Registering
      BY <2>3, <3>1, QueueAfterRegistration
    <3> QED
      BY <2>2, <3>2
  <2>5. WorldOK'
    BY <1>1, <2>4 DEF WorldOK, worldVars
  <2>6. Filter = {} => HasFailures'
    <3>1. PICK x : x = [id |-> "R2", status |-> "FAIL"]
      OBVIOUS
    <3>2. x.status = "FAIL" /\ extensionIdFormat = {x}
      BY <2>1, <3>1 DEF is
    <3> QED
      BY <2>2, <3>2 DEF HasFailures
  <2> QED
    BY <1>1, <1>3, <1>4, <1>6, <2>2, <2>4, <2>5, <2>6 DEF Queued
<1> QED
  BY <1>5, <1>6

LEMMA CheckStep ==
    ASSUME WorldOK, NEW ok \in BOOLEAN, Check(ok)
    PROVE  \E c \in CheckName \ {"parse", "format"} :
              /\ WorldOK' /\ UNCHANGED <<worldVars, step, withConfig, env>>
              /\ Queued(c)
              /\ c \in Registering => ~Queued("parse")
              /\ \A d : Queued(d) => d = c \/ Queued(d)'
              /\ \A d : Queued(d)' => Queued(d)
              /\ (ok /\ disturbed' = disturbed) \/ disturbed'
              /\ report' \subseteq report \cup results(c, ok)
              /\ Filter = {} => report' = report \cup results(c, ok)
<1>1. /\ queue \in Seq(CheckName) /\ Ordered(queue) /\ queue # <<>>
      /\ Head(queue) \notin {"parse", "format"}
      /\ UNCHANGED <<worldVars, step, withConfig, env>>
      /\ (ok /\ disturbed' = disturbed) \/ disturbed'
  BY DEF WorldOK, Check
<1>2. PICK c, t : c = Head(queue) /\ t = Tail(queue)
  OBVIOUS
<1>3. /\ c \in CheckName /\ t \in Seq(CheckName) /\ Ordered(t)
      /\ \A d : Queued(d) <=> d = c \/ Holds(t, d)
      /\ c \in Registering => ~Queued("parse")
  BY <1>1, <1>2, QueueTail DEF Queued
<1>4. add(results(c, ok), t)
  BY <1>2 DEF Check
<1>5. /\ queue' = t /\ report' \subseteq report \cup results(c, ok)
      /\ Filter = {} => report' = report \cup results(c, ok)
  BY <1>4, ResultsAdded
<1>6. WorldOK'
  BY <1>1, <1>3, <1>5 DEF WorldOK, worldVars
<1> QED
  BY <1>1, <1>2, <1>3, <1>5, <1>6 DEF Queued
-----------------------------------------------------------------------------
(* A quiet deployment *)

LEMMA InitVerify == Init => VerifyInv
<1> SUFFICES ASSUME Init PROVE VerifyInv
    OBVIOUS
<1>1. /\ extensions = <<>> /\ queue = <<>> /\ file = NoFile /\ disturbed = TRUE
  BY DEF Init
<1>2. extensions \in Seq(Extension) /\ Len(extensions) = 0 /\ queue \in Seq(CheckName) /\ Len(queue) = 0
  BY <1>1, EmptySeq
<1>3. NoFile \in EnvFile
  BY DEF NoFile, EnvFile, Missing
<1> QED
  BY <1>1, <1>2, <1>3 DEF VerifyInv, WorldOK, QuietOK, Ordered

LEMMA InOrderStays ==
    ASSUME InOrder, UNCHANGED <<manager, funded, file>>, SetUp(file)'
    PROVE  InOrder'
BY DEF InOrder

LEMMA NextVerify == VerifyInv /\ [Next]_vars => VerifyInv'
<1> SUFFICES ASSUME VerifyInv, [Next]_vars PROVE VerifyInv'
    OBVIOUS
<1>0. WorldOK /\ QuietOK
  BY DEF VerifyInv
<1>1. CASE Start
  <2>1. /\ WorldOK' /\ report' = {} /\ disturbed' = ~InOrder /\ UNCHANGED worldVars
        /\ (\E c \in Registering : Queued(c)') => Queued("parse")'
    BY <1>0, <1>1, StartStep
  <2>2. ~disturbed' => InOrder'
    BY <2>1 DEF worldVars, InOrder, SetUp, registered
  <2> QED
    BY <2>1, <2>2 DEF VerifyInv, QuietOK, HasFailures
<1>2. CASE parseExtensionEnv
  <2>1. /\ WorldOK' /\ UNCHANGED <<worldVars, step, withConfig, disturbed>>
        /\ \/ /\ ~withConfig \/ Nothing
              /\ \A c : Queued(c)' <=> Queued(c) /\ c \notin Registering \cup {"parse"}
           \/ env' = file
        /\ report' \subseteq report \cup is("R1-R7", "SKIP")
    BY <1>0, <1>2, ParseStep
  <2>2. SUFFICES ASSUME step # "none", ~disturbed
                 PROVE  /\ InOrder' /\ ~HasFailures'
                        /\ (\E c \in Registering : Queued(c)') => env' = file'
    BY <2>1 DEF VerifyInv, QuietOK
  <2>3. InOrder /\ ~HasFailures
    BY <1>0, <2>2 DEF QuietOK
  <2>4. InOrder' /\ file' = file
    BY <2>1, <2>3 DEF worldVars, InOrder, SetUp, registered
  <2>5. ~HasFailures'
    BY <2>1, <2>3, WhatFails DEF HasFailures
  <2> QED
    BY <2>1, <2>4, <2>5
<1>3. CASE ExtensionIdFormat
  <2>1. /\ WorldOK' /\ UNCHANGED <<worldVars, step, withConfig, env, disturbed>>
        /\ Queued("format") /\ ~Queued("parse")
        /\ wellFormed(env.id) => report' \subseteq report
    BY <1>0, <1>3, FormatStep
  <2>2. SUFFICES ASSUME step # "none", ~disturbed
                 PROVE  InOrder' /\ ~HasFailures' /\ env' = file'
    BY <2>1 DEF VerifyInv, QuietOK
  <2>3. InOrder /\ ~HasFailures /\ env = file
    BY <1>0, <2>1, <2>2 DEF QuietOK, Registering
  <2>4. wellFormed(file.id)
    BY <1>0, <2>3 DEF InOrder, SetUp, registered, WorldOK, wellFormed, Missing, Malformed
  <2>5. ~HasFailures'
    BY <2>1, <2>3, <2>4 DEF HasFailures
  <2> QED
    BY <2>1, <2>3, <2>5 DEF worldVars, InOrder, SetUp, registered
<1>4. ASSUME NEW ok \in BOOLEAN, Check(ok) PROVE VerifyInv'
  <2>1. PICK c \in CheckName \ {"parse", "format"} :
              /\ WorldOK' /\ UNCHANGED <<worldVars, step, withConfig, env>>
              /\ Queued(c)
              /\ c \in Registering => ~Queued("parse")
              /\ \A d : Queued(d) => d = c \/ Queued(d)'
              /\ \A d : Queued(d)' => Queued(d)
              /\ (ok /\ disturbed' = disturbed) \/ disturbed'
              /\ report' \subseteq report \cup results(c, ok)
    BY <1>0, <1>4, CheckStep
  <2>2. SUFFICES ASSUME step # "none", ~disturbed', ok = TRUE, disturbed' = disturbed
                 PROVE  /\ InOrder' /\ ~HasFailures'
                        /\ (\E d \in Registering : Queued(d)') => Queued("parse")' \/ env' = file'
    BY <2>1 DEF VerifyInv, QuietOK
  <2>3. InOrder /\ ~HasFailures
        /\ ((\E d \in Registering : Queued(d)) => Queued("parse") \/ env = file)
    BY <1>0, <2>2 DEF QuietOK
  <2>4. c \in Registering => env = file
    BY <2>1, <2>3
  <2>5. \A x \in results(c, TRUE) : x.status # "FAIL"
    BY <1>0, <2>1, <2>3, <2>4, InOrderPasses
  <2>6. ~HasFailures'
    BY <2>1, <2>2, <2>3, <2>5 DEF HasFailures
  <2>7. InOrder' /\ file' = file /\ env' = env
    BY <2>1, <2>3 DEF worldVars, InOrder, SetUp, registered
  <2> QED
    BY <2>1, <2>3, <2>6, <2>7
<1>5. CASE PreBuild
  <2>1. /\ WorldOK' /\ UNCHANGED <<manager, funded, step, queue, env, report>>
        /\ (UNCHANGED <<file, disturbed>> /\ ExtensionsGrow) \/ disturbed'
    BY <1>0, <1>5, PreBuildStep DEF PreBuild, toolVars
  <2>2. SUFFICES ASSUME step # "none", ~disturbed' PROVE QuietOK'
    BY <2>1 DEF VerifyInv, QuietOK
  <2>3. UNCHANGED <<file, disturbed>> /\ ExtensionsGrow /\ InOrder
    BY <1>0, <2>1, <2>2 DEF QuietOK
  <2>4. InOrder'
    BY <1>0, <2>1, <2>3, SetUpStays, InOrderStays DEF InOrder
  <2> QED
    BY <1>0, <2>1, <2>2, <2>3, <2>4 DEF QuietOK, HasFailures, Queued
<1>6. CASE Operator
  <2>1. /\ WorldOK' /\ UNCHANGED <<manager, extensions, queue, env, report>>
        /\ \/ UNCHANGED <<file, extensions, step, manager, disturbed, funded>>
           \/ disturbed'
           \/ step' = "none"
    BY <1>0, <1>6, OperatorStep DEF Operator
  <2> QED
    BY <1>0, <2>1 DEF VerifyInv, QuietOK, InOrder, SetUp, registered, HasFailures, Queued
<1>7. CASE UNCHANGED vars
  <2>1. UNCHANGED <<settings, manager, extensions, file, funded, queue, step, env, report, disturbed>>
    BY <1>7 DEF vars, worldVars, toolVars
  <2> QED
    BY <1>0, <2>1 DEF VerifyInv, WorldOK, QuietOK, InOrder, SetUp, registered, HasFailures, Queued
<1> QED
  BY <1>1, <1>2, <1>3, <1>4, <1>5, <1>6, <1>7 DEF Next, VerifyStep

LEMMA VerifyInvariant == Spec => []VerifyInv
BY InitVerify, NextVerify, PTL DEF Spec

(***************************************************************************)
(* No false alarm: on a deployment that is in order when a report starts,  *)
(* and that nothing disturbs, no check of verify-deploy fails, whatever    *)
(* -step and -checks are, and however many extensions others register.     *)
(***************************************************************************)
THEOREM QuietDeploymentPasses == Spec => []NoFalseAlarm
<1>1. VerifyInv => NoFalseAlarm
  BY DEF VerifyInv, QuietOK, NoFalseAlarm, Finished
<1> QED
  BY <1>1, VerifyInvariant, PTL
-----------------------------------------------------------------------------
(* A full report *)

\* What a check that does not fail has found.
LEMMA CheckFinds ==
    ASSUME withConfig, NEW c, NEW ok \in BOOLEAN, \A x \in results(c, ok) : x.status # "FAIL"
    PROVE  /\ c = "R2" /\ env = file => SenderFound
           /\ c = "R3" /\ env = file => OwnerFound
           /\ c = "R4" /\ env = file => KeyTypeFound
           /\ c = "S2" => wellFormed(file.id)
           /\ c = "E1" => ~file.exists \/ wellFormed(file.sender)
<1>1. ASSUME c = "R2", env = file, wellFormed(env.sender)
      PROVE  registered(file.id) /\ extensions[file.id].sender = file.sender
  <2>1. results(c, ok) = senderMatches(ok)
    BY <1>1 DEF results
  <2>2. ASSUME ~(registered(env.id) /\ extensions[env.id].sender = env.sender) PROVE FALSE
    <3>1. results(c, ok) = is("R2", "FAIL")
      BY <1>1, <2>1, <2>2 DEF senderMatches, passIf
    <3> QED
      BY <3>1, IsFound
  <2> QED
    BY <1>1, <2>2
<1>2. ASSUME c = "R3", env = file PROVE registered(file.id) /\ extensions[file.id].owner
  <2>1. results(c, ok) = machineOwnerAllowed(ok)
    BY <1>2 DEF results
  <2>2. ASSUME ~(registered(env.id) /\ extensions[env.id].owner) PROVE FALSE
    <3>1. results(c, ok) = is("R3", "FAIL")
      BY <2>1, <2>2 DEF machineOwnerAllowed, passIf
    <3> QED
      BY <3>1, IsFound
  <2> QED
    BY <1>2, <2>2
<1>3. ASSUME c = "R4", env = file PROVE registered(file.id) /\ extensions[file.id].evm
  <2>1. results(c, ok) = keyTypeSupported(ok)
    BY <1>3 DEF results
  <2>2. ASSUME ~(registered(env.id) /\ extensions[env.id].evm) PROVE FALSE
    <3>1. results(c, ok) = is("R4", "FAIL")
      BY <2>1, <2>2 DEF keyTypeSupported, passIf
    <3> QED
      BY <3>1, IsFound
  <2> QED
    BY <1>3, <2>2
<1>4. ASSUME c = "S2" PROVE wellFormed(file.id)
  <2>1. results(c, ok) = passIf("S2", wellFormed(file.id), "FAIL")
    BY <1>4 DEF results, extensionIdSet, formatted
  <2> QED
    BY <2>1, WhatFails
<1>5. ASSUME c = "E1", file.exists PROVE wellFormed(file.sender)
  <2>1. results(c, ok) = passIf("E1", wellFormed(file.sender), "FAIL")
    BY <1>5 DEF results, instructionSenderValid, formatted
  <2> QED
    BY <2>1, WhatFails
<1> QED
  BY <1>1, <1>2, <1>3, <1>4, <1>5 DEF SenderFound, OwnerFound, KeyTypeFound

LEMMA FullInvariant == ASSUME Filter = {} PROVE Spec => []FullOK
<1>1. Init => FullOK
  BY DEF Init, FullOK
<1>2. ASSUME VerifyInv, FullOK, [Next]_vars PROVE FullOK'
  <2>0. WorldOK
    BY <1>2 DEF VerifyInv
  <2>1. SUFFICES ASSUME step' = "all", withConfig', ~HasFailures' PROVE SetUp(file)' \/ Known'
    BY DEF FullOK
  <2>2. CASE Start
    <3>1. \A c \in {"parse", "R2", "R3", "R4", "S2", "E1", "D5key", "S10", "T1"} : Queued(c)'
      BY <2>0, <2>1, <2>2, StartStep
    <3> QED
      BY <3>1 DEF Known
  <2>3. CASE parseExtensionEnv
    <3>1. /\ UNCHANGED <<worldVars, step, withConfig>>
          /\ \/ /\ ~withConfig \/ Nothing
                /\ \A c : Queued(c)' <=> Queued(c) /\ c \notin Registering \cup {"parse"}
             \/ /\ env' = file
                /\ \A c : Queued(c)' <=> Queued(c) /\ c # "parse"
          /\ report \subseteq report'
      BY <2>0, <2>3, ParseStep
    <3>2. SetUp(file) \/ Known
      BY <1>2, <2>1, <3>1 DEF FullOK, HasFailures
    <3>3. UNCHANGED <<file, extensions>>
      BY <3>1 DEF worldVars
    <3>4. SetUp(file) => SetUp(file)'
      BY <3>3 DEF SetUp, registered
    <3>5. CASE Known
      BY <2>1, <3>1, <3>3, <3>5
         DEF Known, Nothing, SenderFound, OwnerFound, KeyTypeFound, registered, Registering
    <3> QED
      BY <3>2, <3>4, <3>5
  <2>4. CASE ExtensionIdFormat
    <3>1. /\ UNCHANGED <<worldVars, step, withConfig, env>>
          /\ ~Queued("parse")
          /\ \A c : Queued(c)' => Queued(c)
          /\ \A c : Queued(c) /\ c # "format" => Queued(c)'
          /\ report' = report
      BY <2>0, <2>1, <2>4, FormatStep
    <3>2. SetUp(file) \/ Known
      BY <1>2, <2>1, <3>1 DEF FullOK, HasFailures
    <3>3. UNCHANGED <<file, extensions>>
      BY <3>1 DEF worldVars
    <3>4. SetUp(file) => SetUp(file)'
      BY <3>3 DEF SetUp, registered
    <3>5. CASE Known
      BY <3>1, <3>3, <3>5 DEF Known, Nothing, SenderFound, OwnerFound, KeyTypeFound, registered
    <3> QED
      BY <3>2, <3>4, <3>5
  <2>5. ASSUME NEW ok \in BOOLEAN, Check(ok) PROVE SetUp(file)' \/ Known'
    <3>1. PICK c \in CheckName \ {"parse", "format"} :
                /\ UNCHANGED <<worldVars, step, withConfig, env>>
                /\ c \in Registering => ~Queued("parse")
                /\ \A d : Queued(d) => d = c \/ Queued(d)'
                /\ report' = report \cup results(c, ok)
      BY <2>0, <2>5, CheckStep
    <3>2. (SetUp(file) \/ Known) /\ withConfig
      BY <1>2, <2>1, <3>1 DEF FullOK, HasFailures
    <3>3. UNCHANGED <<file, extensions, env>>
      BY <3>1 DEF worldVars
    <3>4. SetUp(file) => SetUp(file)'
      BY <3>3 DEF SetUp, registered
    <3>5. CASE Known
      <4>1. \A x \in results(c, ok) : x.status # "FAIL"
        BY <2>1, <3>1 DEF HasFailures
      <4>2. c \in {"R2", "R3", "R4"} => Nothing \/ env = file
        BY <3>1, <3>5 DEF Known, Registering
      <4>3. /\ c = "R2" => SenderFound
            /\ c = "R3" => OwnerFound
            /\ c = "R4" => KeyTypeFound
            /\ c = "S2" => wellFormed(file.id)
            /\ c = "E1" => ~file.exists \/ wellFormed(file.sender)
        BY <3>2, <4>1, <4>2, CheckFinds DEF SenderFound, OwnerFound, KeyTypeFound
      <4>4. /\ SenderFound' = SenderFound /\ OwnerFound' = OwnerFound /\ KeyTypeFound' = KeyTypeFound
            /\ Nothing' = Nothing
        BY <3>3 DEF Nothing, SenderFound, OwnerFound, KeyTypeFound, registered
      <4>5. \A d : ~Queued(d)' => ~Queued(d) \/ d = c
        BY <3>1
      <4> QED
        BY <3>1, <3>3, <3>5, <4>3, <4>4, <4>5 DEF Known
    <3> QED
      BY <3>2, <3>4, <3>5
  <2>6. CASE PreBuild
    <3>1. /\ WorldOK' /\ UNCHANGED <<step, withConfig, queue, env, report>>
          /\ (UNCHANGED file /\ ExtensionsGrow) \/ SetUp(file)'
      BY <2>0, <2>6, PreBuildStep DEF PreBuild, toolVars
    <3>2. SetUp(file) \/ Known
      BY <1>2, <2>1, <3>1 DEF FullOK, HasFailures
    <3>3. CASE UNCHANGED file /\ ExtensionsGrow
      <4>1. /\ SetUp(file) => SetUp(file)'
            /\ SenderFound => SenderFound'
            /\ OwnerFound => OwnerFound'
            /\ KeyTypeFound => KeyTypeFound'
        BY <2>0, <3>1, <3>3, SetUpStays
      <4>2. \A c : Queued(c)' <=> Queued(c)
        BY <3>1 DEF Queued
      <4>3. /\ Nothing' = Nothing /\ env' = env /\ file' = file
            /\ wellFormed(file.id)' = wellFormed(file.id)
            /\ wellFormed(file.sender)' = wellFormed(file.sender)
        BY <3>1, <3>3 DEF Nothing, wellFormed
      <4>4. ASSUME Known PROVE Known'
        BY <4>1, <4>2, <4>3, <4>4 DEF Known
      <4> QED
        BY <3>2, <4>1, <4>4
    <3> QED
      BY <3>1, <3>3
  <2>7. CASE Operator
    <3>1. /\ UNCHANGED <<withConfig, extensions, queue, env, report>>
          /\ UNCHANGED <<file, step>> \/ step' = "none"
      BY <2>0, <2>7, OperatorStep DEF Operator
    <3>2. UNCHANGED <<file, step>>
      BY <2>1, <3>1
    <3>3. SetUp(file) \/ Known
      BY <1>2, <2>1, <3>1, <3>2 DEF FullOK, HasFailures
    <3> QED
      BY <3>1, <3>2, <3>3 DEF Known, Nothing, SenderFound, OwnerFound, KeyTypeFound, SetUp, registered, Queued
  <2>8. CASE UNCHANGED vars
    <3>1. UNCHANGED <<withConfig, extensions, queue, env, report, file, step>>
      BY <2>8 DEF vars, worldVars, toolVars
    <3>2. SetUp(file) \/ Known
      BY <1>2, <2>1, <3>1 DEF FullOK, HasFailures
    <3> QED
      BY <3>1, <3>2 DEF Known, Nothing, SenderFound, OwnerFound, KeyTypeFound, SetUp, registered, Queued
  <2> QED
    BY <1>2, <2>2, <2>3, <2>4, <2>5, <2>6, <2>7, <2>8 DEF Next, VerifyStep
<1> QED
  BY <1>1, <1>2, VerifyInvariant, PTL DEF Spec

(***************************************************************************)
(* A full report without FAIL, none of its results hidden by -checks,      *)
(* means that the extension which extension.env names now is registered    *)
(* with its sender and set up, although the file may have been written     *)
(* after the registration checks were made or skipped.                     *)
(***************************************************************************)
THEOREM CleanFullReportIsSetUp == ASSUME Filter = {} PROVE Spec => []CleanReportIsSetUp
<1>1. VerifyInv /\ FullOK => CleanReportIsSetUp
  <2> SUFFICES ASSUME VerifyInv, FullOK, Finished, step = "all", withConfig, ~HasFailures
               PROVE  SetUp(file)
      BY DEF CleanReportIsSetUp
  <2>1. \A c : ~Queued(c)
    BY DEF Finished, Queued, Holds
  <2>2. CASE Known
    <3>1. wellFormed(file.id) /\ ~Nothing
      BY <2>1, <2>2 DEF Known, Nothing, wellFormed
    <3>2. file.exists
      BY <3>1 DEF VerifyInv, WorldOK, NoFile, wellFormed
    <3> QED
      BY <2>1, <2>2, <3>1, <3>2 DEF Known, SenderFound, OwnerFound, KeyTypeFound, SetUp
  <2> QED
    BY <2>2 DEF FullOK
<1> QED
  BY <1>1, VerifyInvariant, FullInvariant, PTL

-----------------------------------------------------------------------------
(* Settings for development *)

\* The settings are only read, and a result is never taken back.
LEMMA SettingsInvariant == ASSUME Filter = {} PROVE Spec => []SettingsOK
<1>1. Init => SettingsOK
  BY DEF Init, SettingsOK
<1>2. ASSUME VerifyInv, SettingsOK, [Next]_vars PROVE SettingsOK'
  <2>0. WorldOK
    BY <1>2 DEF VerifyInv
  <2>1. UNCHANGED settings
    BY <1>2 DEF Next, VerifyStep, Start, parseExtensionEnv, ExtensionIdFormat, Check, PreBuild, Operator,
                worldVars, vars
  <2>2. SUFFICES ASSUME step' = "all", NoWarning'
                 PROVE  /\ Queued("D5key")' \/ KeyOK
                        /\ Queued("S10")' \/ ProxyKeyOK
                        /\ Queued("T1")' \/ AttestationOK
    BY <2>1 DEF SettingsOK, KeyOK, ProxyKeyOK, AttestationOK, localMode
  <2> DEFINE Kept(c) == Queued(c) => Queued(c)'
  <2>3. ASSUME step' = step, report \subseteq report', Kept("D5key"), Kept("S10"), Kept("T1")
        PROVE  /\ Queued("D5key")' \/ KeyOK
               /\ Queued("S10")' \/ ProxyKeyOK
               /\ Queued("T1")' \/ AttestationOK
    BY <1>2, <2>2, <2>3 DEF SettingsOK, NoWarning
  <2>4. CASE Start
    BY <2>0, <2>2, <2>4, StartStep
  <2>5. CASE parseExtensionEnv
    <3>1. /\ step' = step /\ report \subseteq report'
          /\ \A c : Queued(c) /\ c \notin Registering \cup {"parse"} => Queued(c)'
      BY <2>0, <2>5, ParseStep
    <3> QED
      BY <2>3, <3>1 DEF Registering
  <2>6. CASE ExtensionIdFormat
    <3>1. /\ step' = step /\ report \subseteq report'
          /\ \A c : Queued(c) /\ c \notin Registering => Queued(c)'
      BY <2>0, <2>6, FormatStep DEF Registering
    <3> QED
      BY <2>3, <3>1 DEF Registering
  <2>7. ASSUME NEW ok \in BOOLEAN, Check(ok)
        PROVE  /\ Queued("D5key")' \/ KeyOK
               /\ Queued("S10")' \/ ProxyKeyOK
               /\ Queued("T1")' \/ AttestationOK
    <3>1. PICK c \in CheckName \ {"parse", "format"} :
                /\ step' = step
                /\ \A d : Queued(d) => d = c \/ Queued(d)'
                /\ report' = report \cup results(c, ok)
      BY <2>0, <2>7, CheckStep
    <3>2. /\ Queued("D5key") \/ KeyOK
          /\ Queued("S10") \/ ProxyKeyOK
          /\ Queued("T1") \/ AttestationOK
      BY <1>2, <2>2, <3>1 DEF SettingsOK, NoWarning
    <3>3. \A x \in results(c, ok) : x.status # "WARN"
      BY <2>2, <3>1 DEF NoWarning
    <3>4. c = "D5key" => KeyOK
      <4> SUFFICES ASSUME c = "D5key", ~KeyOK PROVE FALSE
          OBVIOUS
      <4>1. results(c, ok) = CheckDeployerKeySource
        BY DEF results
      <4>2. results(c, ok) = is("D5", "WARN")
        BY <4>1 DEF KeyOK, CheckDeployerKeySource, passIf
      <4> QED
        BY <3>3, <4>2, IsFound
    <3>5. c = "S10" => ProxyKeyOK
      <4> SUFFICES ASSUME c = "S10", ~ProxyKeyOK PROVE FALSE
          OBVIOUS
      <4>1. results(c, ok) = proxyKeySet
        BY DEF results
      <4>2. results(c, ok) = is("S10", "WARN")
        BY <4>1 DEF ProxyKeyOK, proxyKeySet, passIf
      <4> QED
        BY <3>3, <4>2, IsFound
    <3>6. c = "T1" => AttestationOK
      <4> SUFFICES ASSUME c = "T1", ~AttestationOK PROVE FALSE
          OBVIOUS
      <4>1. results(c, ok) = simulatedTee
        BY DEF results
      <4>2. results(c, ok) = is("T1", "WARN")
        BY <4>1 DEF AttestationOK, simulatedTee, passIf
      <4> QED
        BY <3>3, <4>2, IsFound
    <3> QED
      BY <3>1, <3>2, <3>4, <3>5, <3>6
  <2>8. CASE PreBuild \/ Operator \/ UNCHANGED vars
    <3>1. UNCHANGED <<queue, report>>
      BY <2>8 DEF PreBuild, Operator, vars, toolVars
    <3>2. step' = step
      BY <2>0, <2>2, <2>8, OperatorStep DEF PreBuild, vars, toolVars
    <3> QED
      BY <2>3, <3>1, <3>2 DEF Queued
  <2> QED
    BY <1>2, <2>4, <2>5, <2>6, <2>7, <2>8 DEF Next, VerifyStep
<1> QED
  BY <1>1, <1>2, VerifyInvariant, PTL DEF Spec

(***************************************************************************)
(* A full report without WARN, none of its results hidden by -checks,      *)
(* means that the deployer's own key is set unless LOCAL_MODE is "true" or *)
(* unset, and with LOCAL_MODE=false that the proxy's is and SIMULATED_TEE  *)
(* is not "true", whatever the values of the two variables.                *)
(***************************************************************************)
THEOREM NoWarningNoDevelopment == ASSUME Filter = {} PROVE Spec => []NoDevelopmentSettings
<1>1. SettingsOK => NoDevelopmentSettings
  <2>1. Finished => \A c : ~Queued(c)
    BY DEF Finished, Queued, Holds
  <2> QED
    BY <2>1 DEF SettingsOK, NoDevelopmentSettings, Finished, NoWarning, KeyOK, ProxyKeyOK, AttestationOK
<1> QED
  BY <1>1, SettingsInvariant, PTL
=============================================================================
