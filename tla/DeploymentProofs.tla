-------------------------- MODULE DeploymentProofs --------------------------
(***************************************************************************)
(* The tools' safety, proved for any number of machines, failures and      *)
(* repeated runs: the config names an extension only when it is set up,    *)
(* and register-tee ends well only when the machine its proof is of is in  *)
(* production, which without -resume is the machine it reports.            *)
(*                                                                         *)
(* The invariant follows what a tool knows at each of its steps.  Between  *)
(* a transaction and its receipt, that is about the last transaction of    *)
(* the mempool: it is the one the tool sent, and when the mempool is empty *)
(* it took effect, because a revert ends the tool.  A run without -resume  *)
(* also knows that its availability check is of its own machine.           *)
(***************************************************************************)
EXTENDS Deployment, SequenceTheorems, TLAPS

USE DeploymentAssumption

ToolStepName ==
    {"deploy", "register", "owners", "projects", "keys", "write",
     "version", "governance", "start", "r", "R", "a", "p"}

ExtensionType == [machineOwner : BOOLEAN, projectOwner : BOOLEAN, keyType : BOOLEAN,
                  version : BOOLEAN, governance : BOOLEAN]

TeeMethod == {"Register", "RequestTeeAttestation", "RequestAvailabilityCheckAttestation",
              "ToProduction"}
ExtensionMethod == {"DeployInstructionSender", "RegisterExtension", "AddAllowedTeeMachineOwners",
                    "AddAllowedTeeWalletProjectOwners", "AddSupportedKeyTypes", "AddTeeVersion",
                    "SetNewTeeGovernance"}
Transaction ==
    [method : ExtensionMethod, extension : Nat]
    \cup [method : TeeMethod, extension : Nat, tee : TeeId, attest : Nat]

Memory == [extension : Nat, command : Commands \cup {{}}, resume : BOOLEAN, tee : Nat,
           attest : Nat, check : Nat]
StateFile == [completed : SUBSET {"r", "R", "a"}, attest : Nat, check : Nat]

\* The availability check of this id, if the chain knows it, is of this machine.
CheckOf(id, t) == \A c \in checks : c.id = id => c.tee = t

\* What a tool holds in memory is no newer than the chain and the node.
MemoryOK(m) ==
    /\ m \in Memory
    /\ m.extension <= Len(extensions) /\ m.tee <= node
    /\ m.attest <= instructions /\ m.check <= instructions

\* What took effect before the step began.
HeldAt(step, m) ==
    /\ step \in {"owners", "projects", "keys", "write"} => m.extension # 0
    /\ step \in {"projects", "keys", "write"} => Has(m.extension, "machineOwner")
    /\ step \in {"keys", "write"} => Has(m.extension, "projectOwner")
    /\ step = "write" => Has(m.extension, "keyType")
    /\ step \in {"r", "R", "a", "p"} => m.tee # 0 /\ m.command \in Commands

\* The transaction the step waits for.
Awaits(step, tx, m) ==
    /\ step = "register" <=> tx.method = "RegisterExtension"
    /\ step = "owners" =>
          tx.method = "AddAllowedTeeMachineOwners" /\ tx.extension = m.extension
    /\ step = "projects" =>
          tx.method = "AddAllowedTeeWalletProjectOwners" /\ tx.extension = m.extension
    /\ step = "keys" => tx.method = "AddSupportedKeyTypes" /\ tx.extension = m.extension
    /\ step = "a" =>
          tx.method = "RequestAvailabilityCheckAttestation" /\ tx.tee = m.tee
    /\ step = "p" => tx.method = "ToProduction" /\ CheckOf(m.check, tx.tee)

\* What it has done once it is mined.
TookEffect(step, m, id) ==
    /\ step = "register" => id # 0
    /\ step = "owners" => Has(m.extension, "machineOwner")
    /\ step = "projects" => Has(m.extension, "projectOwner")
    /\ step = "keys" => Has(m.extension, "keyType")
    /\ step = "a" => CheckOf(id, m.tee)
    /\ step = "p" => \A c \in checks : c.id = m.check => machines[c.tee] = "PRODUCTION"

\* The id of a receipt is one the chain gave out.
ReceiptOK ==
    /\ receipt \in Nat
    /\ ~waiting => receipt = 0
    /\ pc = "register" => receipt <= Len(extensions)
    /\ pc \in {"r", "R", "a"} => receipt <= instructions

\* An instruction id is given out once.
ChecksOK ==
    /\ \A c \in checks : c.id \in Nat /\ c.id <= instructions /\ c.tee \in TeeId
    /\ \A c, d \in checks : c.id = d.id => c.tee = d.tee

ChainOK ==
    /\ extensions \in Seq(ExtensionType)
    /\ machines \in [TeeId -> {"NONE", "INITIALIZED", "PRODUCTION"}]
    /\ instructions \in Nat
    /\ node \in TeeId
    /\ ChecksOK

\* The part of SuccessIsProduction that holds of every run.
ProvenInProduction == \A s \in succeeded : s.proven \in TeeId /\ machines[s.proven] = "PRODUCTION"

ToolOK ==
    /\ mempool \in Seq(Transaction)
    /\ pc \in ToolStepName \cup {"idle"}
    /\ waiting \in BOOLEAN /\ (waiting => pc # "idle")
    /\ ReceiptOK
    /\ MemoryOK(local)
    /\ HeldAt(pc, local)
    /\ waiting => IF mempool = <<>> THEN TookEffect(pc, local, receipt)
                  ELSE Awaits(pc, mempool[Len(mempool)], local)

FilesOK ==
    /\ stateFile \in StateFile
    /\ stateFile.attest <= instructions /\ stateFile.check <= instructions
    /\ config \in 0..Len(extensions)
    /\ ConfiguredIsSetUp
    /\ ProvenInProduction

DeploymentInv == ChainOK /\ ToolOK /\ FilesOK

LEMMA InitDeployment == Init => DeploymentInv
<1> SUFFICES ASSUME Init PROVE DeploymentInv
    OBVIOUS
<1>1. ChainOK
  BY DEF Init, ChainOK, ChecksOK, TeeId
<1>2. ToolOK
  <2>1. Blank \in Memory
    BY DEF Blank, Memory
  <2>2. MemoryOK(local)
    BY <2>1 DEF Init, MemoryOK, Blank, TeeId
  <2>3. mempool \in Seq(Transaction)
    BY DEF Init
  <2> QED
    BY <2>2, <2>3 DEF Init, ToolOK, ReceiptOK, HeldAt, TeeId
<1>3. FilesOK
  BY DEF Init, FilesOK, StateFile, NoState, ConfiguredIsSetUp, ProvenInProduction
<1> QED
  BY <1>1, <1>2, <1>3 DEF DeploymentInv

-----------------------------------------------------------------------------
(* The chain: nothing it gave is taken back *)

Right == {"machineOwner", "projectOwner", "keyType", "version", "governance"}

Grows ==
    /\ Len(extensions) <= Len(extensions')
    /\ \A e \in Nat, what \in Right : Has(e, what) => Has(e, what)'
    /\ instructions <= instructions'
    /\ \A t \in TeeId : machines[t] = "PRODUCTION" => machines'[t] = "PRODUCTION"
    /\ node <= node'
    /\ \A c \in checks' : c \in checks \/ c.id > instructions

\* What is known of a check that was asked for stays true.
LEMMA ChecksSame ==
    ASSUME ChainOK, UNCHANGED checks, instructions' \in Nat, instructions <= instructions'
    PROVE  ChecksOK' /\ \A c \in checks' : c \in checks \/ c.id > instructions
BY DEF ChainOK, ChecksOK

LEMMA CheckAdded ==
    ASSUME ChainOK, NEW t \in TeeId, NEW synced, NEW id, instructions' = instructions + 1,
           id = instructions',
           checks' = checks \cup {[id |-> instructions + 1, tee |-> t, inSync |-> synced]}
    PROVE  /\ ChecksOK' /\ \A c \in checks' : c \in checks \/ c.id > instructions
           /\ CheckOf(id, t)'
<1>1. PICK new : new = [id |-> instructions + 1, tee |-> t, inSync |-> synced]
  OBVIOUS
<1>2. /\ new.id = instructions + 1 /\ new.tee = t /\ checks' = checks \cup {new}
      /\ instructions \in Nat /\ ChecksOK
  BY <1>1 DEF ChainOK
<1>3. \A c \in checks : c.id # new.id
  BY <1>2 DEF ChecksOK
<1>4. ChecksOK'
  BY <1>2, <1>3 DEF ChecksOK
<1>5. CheckOf(id, t)'
  BY <1>2, <1>3 DEF CheckOf
<1>6. \A c \in checks' : c \in checks \/ c.id > instructions
  BY <1>2
<1> QED
  BY <1>4, <1>5, <1>6

LEMMA CheckOfKept ==
    ASSUME Grows, NEW id, NEW t, CheckOf(id, t), id \in Nat, id <= instructions, instructions \in Nat
    PROVE  CheckOf(id, t)'
BY DEF Grows, CheckOf

LEMMA Granted ==
    ASSUME ChainOK, NEW e \in Nat, NEW what \in Right, grant(e, what)
    PROVE  /\ extensions' \in Seq(ExtensionType) /\ Len(extensions') = Len(extensions)
           /\ \A f \in Nat, w \in Right : Has(f, w) => Has(f, w)'
           /\ e \in 1..Len(extensions) => Has(e, what)'
<1>0. extensions \in Seq(ExtensionType) /\ extensions' = [extensions EXCEPT ![e][what] = TRUE]
  BY DEF ChainOK, grant
<1>1. CASE e \in 1..Len(extensions)
  <2> DEFINE new == [extensions[e] EXCEPT ![what] = TRUE]
  <2>1. extensions[e] \in ExtensionType
    BY <1>0, <1>1
  <2>2. /\ new \in ExtensionType /\ new[what] = TRUE
        /\ \A w \in Right : extensions[e][w] => new[w]
    BY <2>1 DEF ExtensionType, Right
  <2>3. extensions' = [extensions EXCEPT ![e] = new]
    BY <1>0
  <2> HIDE DEF new
  <2>4. /\ extensions' \in Seq(ExtensionType) /\ Len(extensions') = Len(extensions)
        /\ DOMAIN extensions' = DOMAIN extensions /\ extensions'[e] = new
        /\ \A f \in DOMAIN extensions \ {e} : extensions'[f] = extensions[f]
        /\ e \in DOMAIN extensions
    <3>1. PICK n \in Nat : n = Len(extensions) /\ extensions \in [1..n -> ExtensionType]
      BY <1>0
    <3>2. extensions' \in [1..n -> ExtensionType]
      BY <2>2, <2>3, <3>1
    <3>3. extensions' \in Seq(ExtensionType)
      BY <3>2
    <3>4. Len(extensions') = n
      BY <3>2, <3>3
    <3> QED
      BY <1>1, <2>2, <2>3, <3>1, <3>2, <3>3, <3>4
  <2> QED
    BY <2>2, <2>4 DEF Has
<1>2. CASE e \notin 1..Len(extensions)
  <2>1. extensions' = extensions
    BY <1>0, <1>2
  <2> QED
    BY <1>0, <1>2, <2>1 DEF Has
<1> QED
  BY <1>1, <1>2

LEMMA MachineMoves ==
    ASSUME ChainOK, NEW t, NEW status \in {"INITIALIZED", "PRODUCTION"},
           machines' = [machines EXCEPT ![t] = status],
           status = "PRODUCTION" \/ machines[t] = "NONE"
    PROVE  /\ machines' \in [TeeId -> {"NONE", "INITIALIZED", "PRODUCTION"}]
           /\ \A u \in TeeId : machines[u] = "PRODUCTION" => machines'[u] = "PRODUCTION"
BY DEF ChainOK

LEMMA ApplyGrows ==
    ASSUME ChainOK, NEW tx \in Transaction, ~Reverts(tx), apply(tx), UNCHANGED node
    PROVE  ChainOK' /\ Grows
<1>0. /\ extensions \in Seq(ExtensionType) /\ instructions \in Nat /\ node \in TeeId
      /\ machines \in [TeeId -> {"NONE", "INITIALIZED", "PRODUCTION"}]
  BY DEF ChainOK
<1>e. tx.extension \in Nat
  BY DEF Transaction
<1>c. ASSUME UNCHANGED checks, instructions' \in {instructions, instructions + 1}
      PROVE  ChecksOK' /\ \A c \in checks' : c \in checks \/ c.id > instructions
  BY <1>0, <1>c, ChecksSame
<1>1. ASSUME NEW what \in Right, grant(tx.extension, what) PROVE ChainOK' /\ Grows
  <2>1. /\ extensions' \in Seq(ExtensionType) /\ Len(extensions') = Len(extensions)
        /\ \A f \in Nat, w \in Right : Has(f, w) => Has(f, w)'
    BY <1>e, <1>1, Granted
  <2>2. UNCHANGED <<machines, checks, instructions, node>>
    BY <1>1 DEF grant
  <2> QED
    BY <1>0, <1>c, <2>1, <2>2 DEF ChainOK, Grows, TeeId
<1>2. CASE tx.method = "DeployInstructionSender" /\ UNCHANGED chainVars
  BY <1>0, <1>c, <1>2 DEF ChainOK, Grows, chainVars, Has, TeeId
<1>3. CASE /\ tx.method = "RegisterExtension" /\ extensions' = Append(extensions, NewExtension)
           /\ UNCHANGED <<machines, challenges, checks, instructions>>
  <2>1. NewExtension \in ExtensionType
    BY DEF NewExtension, ExtensionType
  <2>2. /\ extensions' \in Seq(ExtensionType) /\ Len(extensions') = Len(extensions) + 1
        /\ \A e \in DOMAIN extensions : e \in DOMAIN extensions' /\ extensions'[e] = extensions[e]
    BY <1>0, <1>3, <2>1
  <2> QED
    BY <1>0, <1>c, <1>3, <2>2 DEF ChainOK, Grows, Has, TeeId
<1>4. CASE /\ tx.method = "Register" /\ machines' = [machines EXCEPT ![tx.tee] = "INITIALIZED"]
           /\ challenge(tx.tee) /\ UNCHANGED <<extensions, checks>>
  <2>1. machines[tx.tee] = "NONE"
    BY <1>4 DEF Reverts
  <2>2. /\ machines' \in [TeeId -> {"NONE", "INITIALIZED", "PRODUCTION"}]
        /\ \A u \in TeeId : machines[u] = "PRODUCTION" => machines'[u] = "PRODUCTION"
    BY <1>4, <2>1, MachineMoves
  <2>3. instructions' = instructions + 1 /\ UNCHANGED <<extensions, checks, node>>
    BY <1>4 DEF challenge
  <2> QED
    BY <1>0, <1>c, <2>2, <2>3 DEF ChainOK, Grows, Has, TeeId
<1>5. CASE /\ tx.method = "RequestTeeAttestation" /\ challenge(tx.tee)
           /\ UNCHANGED <<extensions, machines, checks>>
  BY <1>0, <1>c, <1>5 DEF ChainOK, Grows, Has, TeeId, challenge
<1>6. CASE /\ tx.method = "RequestAvailabilityCheckAttestation" /\ instructions' = instructions + 1
           /\ checks' = checks \cup {[id |-> instructions + 1, tee |-> tx.tee, inSync |-> inSync]}
           /\ UNCHANGED <<extensions, machines>>
  <2>1. tx.tee \in TeeId
    BY <1>6 DEF Transaction, ExtensionMethod
  <2>2. PICK id : id = instructions'
    OBVIOUS
  <2>3. ChecksOK' /\ \A c \in checks' : c \in checks \/ c.id > instructions
    BY <1>6, <2>1, <2>2, CheckAdded
  <2> QED
    BY <1>0, <1>6, <2>3 DEF ChainOK, Grows, Has, TeeId
<1>7. CASE /\ tx.method = "ToProduction" /\ machines' = [machines EXCEPT ![tx.tee] = "PRODUCTION"]
           /\ UNCHANGED <<extensions, challenges, checks, instructions>>
  <2>1. /\ machines' \in [TeeId -> {"NONE", "INITIALIZED", "PRODUCTION"}]
        /\ \A u \in TeeId : machines[u] = "PRODUCTION" => machines'[u] = "PRODUCTION"
    BY <1>7, MachineMoves
  <2> QED
    BY <1>0, <1>c, <1>7, <2>1 DEF ChainOK, Grows, Has, TeeId
<1> QED
  BY <1>1, <1>2, <1>3, <1>4, <1>5, <1>6, <1>7 DEF apply, Right

\* What a tool knows of the chain stays true while the chain moves.
LEMMA KnowledgeKept ==
    ASSUME ChainOK, ChainOK', Grows, NEW m, NEW step, NEW id, MemoryOK(m), HeldAt(step, m)
    PROVE  /\ MemoryOK(m)' /\ HeldAt(step, m)'
           /\ \A tx : Awaits(step, tx, m) => Awaits(step, tx, m)'
           /\ (step = "a" => id \in Nat /\ id <= instructions) /\ TookEffect(step, m, id)
                 => TookEffect(step, m, id)'
<1>1. /\ m.extension \in Nat /\ m.tee \in Nat /\ m.attest \in Nat /\ m.check \in Nat
      /\ Len(extensions) \in Nat /\ Len(extensions') \in Nat /\ node \in TeeId /\ node' \in TeeId
      /\ instructions \in Nat /\ instructions' \in Nat
  BY DEF MemoryOK, Memory, ChainOK, TeeId
<1>2. MemoryOK(m)'
  BY <1>1, SMTT(60) DEF MemoryOK, Grows, TeeId
<1>3. \A what \in Right : Has(m.extension, what) => Has(m.extension, what)'
  BY <1>1 DEF Grows
<1>4. HeldAt(step, m)'
  BY <1>3 DEF HeldAt, Right
<1>5. m.check <= instructions
  BY DEF MemoryOK
<1>6. ASSUME NEW tx, Awaits(step, tx, m) PROVE Awaits(step, tx, m)'
  BY <1>1, <1>5, <1>6, CheckOfKept DEF Awaits
<1>7. ASSUME step = "p", \A c \in checks : c.id = m.check => machines[c.tee] = "PRODUCTION"
      PROVE  \A c \in checks' : c.id = m.check => machines'[c.tee] = "PRODUCTION"
  BY <1>1, <1>5, <1>7 DEF Grows, ChainOK, ChecksOK
<1>8. ASSUME TookEffect(step, m, id), step = "a" => id \in Nat /\ id <= instructions
      PROVE  TookEffect(step, m, id)'
  <2>1. step = "a" => CheckOf(id, m.tee)'
    BY <1>1, <1>8, CheckOfKept DEF TookEffect
  <2> QED
    BY <1>3, <1>7, <1>8, <2>1 DEF TookEffect, Right
<1> QED
  BY <1>2, <1>4, <1>6, <1>8

LEMMA FilesKept ==
    ASSUME ChainOK, ChainOK', Grows, FilesOK, UNCHANGED <<fileVars, succeeded>>
    PROVE  FilesOK'
<1>1. /\ UNCHANGED <<stateFile, config, succeeded>>
      /\ Len(extensions) \in Nat /\ Len(extensions') \in Nat /\ instructions \in Nat
      /\ instructions' \in Nat /\ stateFile.attest \in Nat /\ stateFile.check \in Nat
      /\ config \in Nat
  BY DEF fileVars, ChainOK, FilesOK, StateFile
<1>2. ConfiguredIsSetUp'
  BY <1>1 DEF FilesOK, ConfiguredIsSetUp, Grows, Right
<1>3. ProvenInProduction'
  BY <1>1 DEF FilesOK, ProvenInProduction, Grows
<1> QED
  BY <1>1, <1>2, <1>3 DEF FilesOK, Grows

\* What the awaited transaction is for is there once it is mined.
LEMMA AppliedTakesEffect ==
    ASSUME ChainOK, NEW tx \in Transaction, ~Reverts(tx), apply(tx), UNCHANGED node,
           NEW step, NEW m, NEW id, MemoryOK(m), HeldAt(step, m), Awaits(step, tx, m), id = idIn(tx)
    PROVE  /\ TookEffect(step, m, id)'
           /\ id \in Nat
           /\ step = "register" => id <= Len(extensions')
           /\ step # "register" => id <= instructions'
<1>0. /\ ChainOK' /\ Grows
  BY ApplyGrows
<1>1. /\ extensions' \in Seq(ExtensionType) /\ instructions' \in Nat
      /\ extensions \in Seq(ExtensionType)
      /\ machines \in [TeeId -> {"NONE", "INITIALIZED", "PRODUCTION"}]
      /\ m.extension \in Nat /\ m.tee \in Nat /\ m.extension <= Len(extensions) /\ m.tee <= node
      /\ node \in TeeId
  BY <1>0 DEF ChainOK, MemoryOK, Memory
<1>2. step = "register" => id = Len(extensions') /\ Len(extensions') = Len(extensions) + 1
  BY <1>1 DEF Awaits, idIn, apply
<1>3. step # "register" => id = instructions'
  BY DEF Awaits, idIn
<1>4. ASSUME NEW what \in Right, grant(m.extension, what), m.extension # 0
      PROVE  Has(m.extension, what)'
  BY <1>1, <1>4, Granted
<1>5. CASE step = "owners"
  <2>1. grant(m.extension, "machineOwner") /\ m.extension # 0
    BY <1>5 DEF Awaits, apply, HeldAt
  <2> QED
    BY <1>1, <1>3, <1>4, <1>5, <2>1 DEF TookEffect, Right
<1>6. CASE step = "projects"
  <2>1. grant(m.extension, "projectOwner") /\ m.extension # 0
    BY <1>6 DEF Awaits, apply, HeldAt
  <2> QED
    BY <1>1, <1>3, <1>4, <1>6, <2>1 DEF TookEffect, Right
<1>7. CASE step = "keys"
  <2>1. grant(m.extension, "keyType") /\ m.extension # 0
    BY <1>7 DEF Awaits, apply, HeldAt
  <2> QED
    BY <1>1, <1>3, <1>4, <1>7, <2>1 DEF TookEffect, Right
<1>8. CASE step = "p"
  <2>1. tx.method = "ToProduction" /\ CheckOf(m.check, tx.tee)
    BY <1>8 DEF Awaits
  <2>2. machines' = [machines EXCEPT ![tx.tee] = "PRODUCTION"] /\ UNCHANGED checks
    BY <2>1 DEF apply
  <2>3. tx.tee \in TeeId
    BY <2>1 DEF Transaction, ExtensionMethod
  <2> QED
    BY <1>1, <1>3, <1>8, <2>1, <2>2, <2>3 DEF TookEffect, CheckOf
<1>9. CASE step = "a"
  <2>1. tx.method = "RequestAvailabilityCheckAttestation" /\ tx.tee = m.tee
    BY <1>9 DEF Awaits
  <2>2. /\ instructions' = instructions + 1
        /\ checks' = checks \cup {[id |-> instructions + 1, tee |-> m.tee, inSync |-> inSync]}
    BY <2>1 DEF apply
  <2>3. m.tee \in TeeId
    BY <2>1 DEF Transaction, ExtensionMethod
  <2>4. CheckOf(id, m.tee)'
    <3>1. id = instructions'
      BY <1>3, <1>9
    <3> QED
      BY <2>2, <2>3, <3>1, CheckAdded
  <2> QED
    BY <1>1, <1>3, <1>9, <2>4 DEF TookEffect
<1>10. CASE step \notin {"owners", "projects", "keys", "a", "p"}
  BY <1>1, <1>2, <1>3, <1>10 DEF TookEffect
<1> QED
  BY <1>5, <1>6, <1>7, <1>8, <1>9, <1>10

LEMMA LastOfTail ==
    ASSUME NEW S, NEW s \in Seq(S), s # <<>>
    PROVE  /\ Tail(s) \in Seq(S) /\ Len(s) \in Nat \ {0}
           /\ Len(s) = 1 => Tail(s) = <<>>
           /\ Len(s) # 1 => Tail(s) # <<>> /\ Tail(s)[Len(Tail(s))] = s[Len(s)]
<1>1. PICK t : t = Tail(s)
  OBVIOUS
<1>2. Len(s) \in Nat \ {0} /\ t \in Seq(S) /\ Len(t) = Len(s) - 1
  BY <1>1
<1>3. \A i \in 1..Len(t) : t[i] = s[i + 1]
  BY <1>1, HeadTailProperties
<1>4. Len(s) = 1 => t = <<>>
  <2>1. Len(s) = 1 => Len(t) = 0
    BY <1>2
  <2> QED
    BY <1>2, <2>1, EmptySeq
<1>5. Len(s) # 1 => t # <<>> /\ t[Len(t)] = s[Len(s)]
  BY <1>2, <1>3
<1> QED
  BY <1>1, <1>2, <1>4, <1>5

\* A tool that ends holds nothing.
LEMMA Stopped ==
    ASSUME ChainOK', stop
    PROVE  MemoryOK(local)' /\ HeldAt(pc, local)' /\ ReceiptOK'
<1>1. /\ local' = Blank /\ pc' = "idle" /\ waiting' = FALSE /\ receipt' = 0
      /\ Len(extensions') \in Nat /\ instructions' \in Nat /\ node' \in Nat
  BY DEF stop, ChainOK, TeeId
<1>2. /\ local' \in Memory /\ local'.extension = 0 /\ local'.tee = 0
      /\ local'.attest = 0 /\ local'.check = 0
  BY <1>1 DEF Blank, Memory
<1> QED
  BY <1>1, <1>2 DEF MemoryOK, HeldAt, ReceiptOK

LEMMA MineStep == DeploymentInv /\ Mine => DeploymentInv'
<1> SUFFICES ASSUME DeploymentInv, Mine PROVE DeploymentInv'
    OBVIOUS
<1>0. ChainOK /\ ToolOK /\ FilesOK
  BY DEF DeploymentInv
<1>1. /\ mempool \in Seq(Transaction) /\ mempool # <<>> /\ mempool' = Tail(mempool)
      /\ UNCHANGED <<node, fileVars, succeeded>> /\ waiting \in BOOLEAN
  BY <1>0 DEF ToolOK, Mine, outsideVars, countVars
<1>2. PICK tx \in Transaction : tx = mempool[1]
  BY <1>1
<1>3. /\ mempool' \in Seq(Transaction) /\ Len(mempool) \in Nat \ {0}
      /\ Len(mempool) = 1 => mempool' = <<>> /\ mempool[Len(mempool)] = tx
      /\ Len(mempool) # 1 => mempool' # <<>> /\ mempool'[Len(mempool')] = mempool[Len(mempool)]
  BY <1>1, <1>2, LastOfTail
<1>4. PICK awaited \in BOOLEAN : awaited = (waiting /\ Len(mempool) = 1)
  BY <1>1
<1>5. /\ MemoryOK(local) /\ HeldAt(pc, local) /\ ReceiptOK /\ pc \in ToolStepName \cup {"idle"}
      /\ waiting => pc # "idle"
      /\ waiting => Awaits(pc, mempool[Len(mempool)], local)
  BY <1>0, <1>1 DEF ToolOK
<1>6. CASE ~Reverts(tx)
  <2>1. /\ apply(tx) /\ UNCHANGED <<pc, waiting, local>>
        /\ receipt' = IF awaited THEN idIn(tx) ELSE receipt
    BY <1>2, <1>4, <1>6 DEF Mine
  <2>2. ChainOK' /\ Grows
    BY <1>0, <1>1, <1>6, <2>1, ApplyGrows
  <2>3. FilesOK'
    BY <1>0, <1>1, <2>2, FilesKept
  <2>4. PICK m, step : m = local /\ step = pc
    OBVIOUS
  <2>5. /\ MemoryOK(m) /\ HeldAt(step, m) /\ local' = m /\ pc' = step
    BY <1>5, <2>1, <2>4
  <2>6. /\ MemoryOK(local)' /\ HeldAt(pc, local)'
        /\ \A t : Awaits(pc, t, local) => Awaits(step, t, m)'
    <3>1. /\ MemoryOK(m)' /\ HeldAt(step, m)'
          /\ \A t : Awaits(step, t, m) => Awaits(step, t, m)'
      BY <1>0, <2>2, <2>5, KnowledgeKept
    <3> QED
      BY <2>4, <2>5, <3>1
  <2>7. CASE awaited
    <3>1. PICK id : id = idIn(tx)
      OBVIOUS
    <3>2. Awaits(step, tx, m)
      BY <1>3, <1>4, <1>5, <2>4, <2>7
    <3>3. /\ TookEffect(step, m, id)' /\ id \in Nat
          /\ step = "register" => id <= Len(extensions')
          /\ step # "register" => id <= instructions'
      BY <1>0, <1>1, <1>6, <2>1, <2>5, <3>1, <3>2, AppliedTakesEffect
    <3>4. receipt' = id /\ waiting /\ waiting' = waiting /\ mempool' = <<>>
      BY <1>3, <1>4, <2>1, <2>7, <3>1
    <3>5. ReceiptOK'
      BY <2>5, <3>3, <3>4 DEF ReceiptOK
    <3>6. TookEffect(pc, local, receipt)'
      BY <2>5, <3>3, <3>4
    <3>7. ToolOK'
      BY <1>3, <1>5, <2>1, <2>6, <3>4, <3>5, <3>6 DEF ToolOK
    <3> QED
      BY <2>2, <2>3, <3>7 DEF DeploymentInv
  <2>8. CASE ~awaited
    <3>1. receipt' = receipt /\ (waiting => Len(mempool) # 1)
      BY <1>1, <1>4, <2>1, <2>8
    <3>2. ReceiptOK'
      <4>1. /\ receipt \in Nat /\ Len(extensions) \in Nat /\ Len(extensions') \in Nat
            /\ instructions \in Nat /\ instructions' \in Nat
        BY <1>0, <1>5, <2>2 DEF ChainOK, ReceiptOK
      <4> QED
        BY <1>5, <2>1, <2>2, <3>1, <4>1 DEF ReceiptOK, Grows
    <3>3. waiting' => mempool' # <<>> /\ Awaits(pc, mempool[Len(mempool)], local)'
      <4> SUFFICES ASSUME waiting'
                   PROVE  mempool' # <<>> /\ Awaits(pc, mempool[Len(mempool)], local)'
        OBVIOUS
      <4>1. PICK last : last = mempool[Len(mempool)]
        OBVIOUS
      <4>2. mempool' # <<>> /\ mempool'[Len(mempool')] = last /\ Awaits(step, last, m)'
        BY <1>3, <1>5, <2>1, <2>6, <3>1, <4>1
      <4> QED
        BY <2>5, <4>2 DEF Awaits
    <3>4. ToolOK'
      BY <1>1, <1>3, <1>5, <2>1, <2>6, <3>2, <3>3 DEF ToolOK
    <3> QED
      BY <2>2, <2>3, <3>4 DEF DeploymentInv
  <2> QED
    BY <2>7, <2>8
<1>7. CASE Reverts(tx)
  <2>1. /\ UNCHANGED chainVars
        /\ IF awaited THEN stop ELSE UNCHANGED toolVars
    BY <1>2, <1>4, <1>7 DEF Mine
  <2>2. UNCHANGED <<extensions, machines, checks, instructions, node>>
    BY <1>1, <2>1 DEF chainVars
  <2>3. ChainOK' /\ Grows
    BY <1>0, <2>2 DEF ChainOK, ChecksOK, Grows, Has, TeeId
  <2>4. FilesOK'
    BY <1>0, <1>1, <2>3, FilesKept
  <2>5. CASE awaited
    <3>1. MemoryOK(local)' /\ HeldAt(pc, local)' /\ ReceiptOK'
      BY <2>1, <2>3, <2>5, Stopped
    <3> QED
      BY <1>3, <2>1, <2>3, <2>4, <2>5, <3>1 DEF ToolOK, DeploymentInv, stop
  <2>6. CASE ~awaited
    <3>1. UNCHANGED <<pc, waiting, receipt, local>> /\ (waiting => Len(mempool) # 1)
      BY <1>1, <1>4, <2>1, <2>6 DEF toolVars
    <3>2. MemoryOK(local)' /\ HeldAt(pc, local)' /\ ReceiptOK'
      BY <1>5, <2>2, <3>1 DEF MemoryOK, HeldAt, ReceiptOK, Has
    <3>3. waiting' => mempool' # <<>> /\ Awaits(pc, mempool[Len(mempool)], local)'
      <4> SUFFICES ASSUME waiting'
                   PROVE  mempool' # <<>> /\ Awaits(pc, mempool[Len(mempool)], local)'
        OBVIOUS
      <4>1. PICK last : last = mempool[Len(mempool)]
        OBVIOUS
      <4>2. mempool' # <<>> /\ mempool'[Len(mempool')] = last /\ Awaits(pc, last, local)
        BY <1>3, <1>5, <3>1, <4>1
      <4> QED
        BY <2>2, <3>1, <4>2 DEF Awaits, CheckOf
    <3> QED
      BY <1>1, <1>3, <1>5, <2>3, <2>4, <3>1, <3>2, <3>3 DEF ToolOK, DeploymentInv
  <2> QED
    BY <2>5, <2>6
<1> QED
  BY <1>6, <1>7

-----------------------------------------------------------------------------
(* A step of a tool ends it, begins its next step or sends a transaction *)

LEMMA ChainSame ==
    ASSUME ChainOK, UNCHANGED <<chainVars, node>>
    PROVE  ChainOK' /\ Grows
BY DEF ChainOK, ChecksOK, Grows, chainVars, Has, TeeId

LEMMA Stops ==
    ASSUME DeploymentInv, stop, UNCHANGED <<chainVars, mempool, node>>
    PROVE  ChainOK' /\ ToolOK'
<1>1. ChainOK' /\ mempool \in Seq(Transaction)
  BY ChainSame DEF DeploymentInv, ToolOK
<1>2. MemoryOK(local)' /\ HeldAt(pc, local)' /\ ReceiptOK'
  BY <1>1, Stopped
<1> QED
  BY <1>1, <1>2 DEF ToolOK, stop

LEMMA GoesOn ==
    ASSUME DeploymentInv, NEW step \in ToolStepName, NEW m, goOn(step, m), MemoryOK(m),
           HeldAt(step, m), UNCHANGED <<chainVars, mempool, node>>
    PROVE  ChainOK' /\ ToolOK'
<1>1. /\ ChainOK' /\ ChainOK /\ Grows /\ mempool \in Seq(Transaction)
  BY ChainSame DEF DeploymentInv, ToolOK
<1>2. MemoryOK(m)' /\ HeldAt(step, m)'
  BY <1>1, KnowledgeKept
<1>3. pc' = step /\ waiting' = FALSE /\ receipt' = 0 /\ local' = m
  BY DEF goOn
<1>4. MemoryOK(local)' /\ HeldAt(pc, local)'
  BY <1>2, <1>3
<1>5. ReceiptOK'
  BY <1>1, <1>3 DEF ReceiptOK, ChainOK
<1> QED
  BY <1>1, <1>3, <1>4, <1>5 DEF ToolOK

LEMMA Sends ==
    ASSUME DeploymentInv, pc \in ToolStepName, ~waiting, NEW tx \in Transaction, transact(tx),
           Awaits(pc, tx, local), UNCHANGED <<chainVars, node>>
    PROVE  ChainOK' /\ ToolOK'
<1>0. /\ ChainOK' /\ mempool \in Seq(Transaction) /\ ReceiptOK /\ MemoryOK(local) /\ HeldAt(pc, local)
  BY ChainSame DEF DeploymentInv, ToolOK
<1>1. CASE Reverts(tx)
  BY <1>1, Stops DEF transact
<1>2. CASE ~Reverts(tx)
  <2>1. /\ mempool' = Append(mempool, tx) /\ waiting' = TRUE /\ UNCHANGED <<pc, receipt, local>>
    BY <1>2 DEF transact
  <2>2. mempool' \in Seq(Transaction) /\ mempool' # <<>> /\ mempool'[Len(mempool')] = tx
    BY <1>0, <2>1
  <2>3. UNCHANGED <<extensions, checks, instructions, node>>
    BY DEF chainVars
  <2>4. MemoryOK(local)' /\ HeldAt(pc, local)' /\ ReceiptOK'
    BY <1>0, <2>1, <2>3 DEF MemoryOK, HeldAt, ReceiptOK, Has
  <2>5. Awaits(pc, mempool[Len(mempool)], local)'
    BY <2>1, <2>2, <2>3 DEF Awaits, CheckOf
  <2> QED
    BY <1>0, <2>1, <2>2, <2>4, <2>5 DEF ToolOK, ToolStepName
<1> QED
  BY <1>1, <1>2

LEMMA FilesSame ==
    ASSUME DeploymentInv, UNCHANGED <<chainVars, node, fileVars, succeeded>>
    PROVE  FilesOK'
BY ChainSame, FilesKept DEF DeploymentInv

LEMMA Received ==
    ASSUME DeploymentInv, NEW step, received(step)
    PROVE  TookEffect(step, local, receipt) /\ HeldAt(step, local) /\ MemoryOK(local) /\ ReceiptOK
BY DEF DeploymentInv, ToolOK, received

LEMMA AtStep ==
    ASSUME DeploymentInv, NEW step \in ToolStepName, pc = step
    PROVE  /\ HeldAt(step, local) /\ MemoryOK(local)
           /\ \A method \in ExtensionMethod : Call(method) \in Transaction
           /\ \A method \in ExtensionMethod : Call(method).method = method
           /\ \A method \in ExtensionMethod : Call(method).extension = local.extension
<1>1. HeldAt(step, local) /\ MemoryOK(local)
  BY DEF DeploymentInv, ToolOK
<1>2. local.extension \in Nat
  BY <1>1 DEF MemoryOK, Memory
<1>3. ASSUME NEW method \in ExtensionMethod
      PROVE  /\ Call(method) \in Transaction /\ Call(method).method = method
             /\ Call(method).extension = local.extension
  BY <1>2 DEF Call, Transaction
<1> QED
  BY <1>1, <1>3

LEMMA AtRegisterStep ==
    ASSUME DeploymentInv, NEW step \in {"r", "R", "a", "p"}, pc = step
    PROVE  /\ HeldAt(step, local) /\ MemoryOK(local)
           /\ \A method \in TeeMethod : TeeCall(method) \in Transaction
           /\ \A method \in TeeMethod : TeeCall(method).method = method
           /\ \A method \in TeeMethod : TeeCall(method).tee = local.tee
           /\ \A c \in checks : /\ toProduction(c) \in Transaction /\ toProduction(c).tee = c.tee
                                 /\ toProduction(c).method = "ToProduction"
<1>1. HeldAt(step, local) /\ MemoryOK(local) /\ config \in Nat /\ node \in TeeId
  BY DEF DeploymentInv, ToolOK, FilesOK, ChainOK
<1>2. local.tee \in TeeId /\ local.attest \in Nat
  BY <1>1 DEF MemoryOK, Memory, HeldAt, TeeId
<1>3. ASSUME NEW method \in TeeMethod
      PROVE  /\ TeeCall(method) \in Transaction /\ TeeCall(method).method = method
             /\ TeeCall(method).tee = local.tee
  BY <1>1, <1>2 DEF TeeCall, Transaction
<1>4. ASSUME NEW c \in checks
      PROVE  /\ toProduction(c) \in Transaction /\ toProduction(c).tee = c.tee
             /\ toProduction(c).method = "ToProduction"
  <2>1. c.tee \in TeeId
    BY DEF DeploymentInv, ChainOK, ChecksOK
  <2>2. toProduction(c) = [method |-> "ToProduction", extension |-> config, tee |-> c.tee,
                           attest |-> local.attest]
    BY DEF toProduction, TeeCall
  <2> QED
    BY <1>1, <1>2, <2>1, <2>2 DEF Transaction, TeeMethod
<1> QED
  BY <1>1, <1>3, <1>4

-----------------------------------------------------------------------------
(* pre-build and the first steps of post-build *)

ToolMoves == UNCHANGED <<chainVars, node>>

\* A step that obtains a right goes on only when the extension has it.
LEMMA EnsureStep ==
    ASSUME DeploymentInv, NEW step \in ToolStepName \ {"register", "p"}, NEW what,
           NEW method \in ExtensionMethod \ {"RegisterExtension"}, NEW then \in ToolStepName,
           ensure(step, what, method, then), ToolMoves, UNCHANGED succeeded,
           Awaits(step, Call(method), local),
           HeldAt(step, local) /\ (Has(local.extension, what) \/ TookEffect(step, local, receipt))
              => HeldAt(then, local)
    PROVE  DeploymentInv'
<1>0. FilesOK'
  BY FilesSame DEF ensure, ToolMoves
<1>1. CASE at(step) /\ Has(local.extension, what) /\ skip(then)
  <2>1. PICK m : m = local
    OBVIOUS
  <2>2. MemoryOK(m) /\ HeldAt(then, m)
    BY <1>1, <2>1, AtStep DEF at
  <2>3. goOn(then, m) /\ UNCHANGED mempool
    BY <1>1, <2>1 DEF skip
  <2> QED
    BY <1>0, <2>2, <2>3, GoesOn DEF DeploymentInv, ToolMoves
<1>2. CASE received(step) /\ skip(then)
  <2>1. PICK m : m = local
    OBVIOUS
  <2>2. MemoryOK(m) /\ HeldAt(then, m)
    BY <1>2, <2>1, Received
  <2>3. goOn(then, m) /\ UNCHANGED mempool
    BY <1>2, <2>1 DEF skip
  <2> QED
    BY <1>0, <2>2, <2>3, GoesOn DEF DeploymentInv, ToolMoves
<1>3. CASE at(step) /\ transact(Call(method))
  <2>1. PICK tx \in Transaction : tx = Call(method)
    BY <1>3, AtStep DEF at
  <2>2. transact(tx) /\ Awaits(pc, tx, local) /\ ~waiting /\ pc \in ToolStepName
    BY <1>3, <2>1 DEF at
  <2> QED
    BY <1>0, <2>2, Sends DEF DeploymentInv, ToolMoves
<1> QED
  BY <1>1, <1>2, <1>3 DEF ensure

LEMMA SetupStep ==
    ASSUME DeploymentInv, SetupExtension \/ AddTeeVersion \/ SetTeeGovernance, ToolMoves,
           UNCHANGED succeeded
    PROVE  DeploymentInv'
<1>1. CASE DeployInstructionSender
  <2>0. FilesOK'
    BY <1>1, FilesSame DEF DeployInstructionSender, ToolMoves
  <2>1. CASE at("deploy") /\ transact(Call("DeployInstructionSender"))
    <3>1. PICK tx \in Transaction : tx = Call("DeployInstructionSender") /\ tx.method = "DeployInstructionSender"
      BY <2>1, AtStep DEF at, ToolStepName, ExtensionMethod
    <3>2. transact(tx) /\ Awaits(pc, tx, local) /\ ~waiting /\ pc \in ToolStepName
      BY <2>1, <3>1 DEF at, Awaits, ToolStepName
    <3> QED
      BY <2>0, <3>2, Sends DEF DeploymentInv, ToolMoves
  <2>2. CASE received("deploy") /\ skip("register")
    <3>1. PICK m : m = local
      OBVIOUS
    <3>2. MemoryOK(m) /\ HeldAt("register", m)
      BY <2>2, <3>1, Received DEF HeldAt
    <3>3. goOn("register", m) /\ UNCHANGED mempool
      BY <2>2, <3>1 DEF skip
    <3> QED
      BY <2>0, <3>2, <3>3, GoesOn DEF DeploymentInv, ToolMoves, ToolStepName
  <2> QED
    BY <1>1, <2>1, <2>2 DEF DeployInstructionSender
<1>2. CASE registerExtension
  <2>0. FilesOK'
    BY <1>2, FilesSame DEF registerExtension, ToolMoves
  <2>1. CASE at("register") /\ transact(Call("RegisterExtension"))
    <3>1. PICK tx \in Transaction : tx = Call("RegisterExtension") /\ tx.method = "RegisterExtension"
      BY <2>1, AtStep DEF at, ToolStepName, ExtensionMethod
    <3>2. transact(tx) /\ Awaits(pc, tx, local) /\ ~waiting /\ pc \in ToolStepName
      BY <2>1, <3>1 DEF at, Awaits, ToolStepName
    <3> QED
      BY <2>0, <3>2, Sends DEF DeploymentInv, ToolMoves
  <2>2. CASE /\ received("register") /\ goOn("owners", [local EXCEPT !.extension = receipt])
             /\ UNCHANGED mempool
    <3>1. PICK m : m = [local EXCEPT !.extension = receipt]
      OBVIOUS
    <3>2. MemoryOK(local) /\ receipt # 0 /\ receipt \in Nat /\ receipt <= Len(extensions)
      BY <2>2, Received DEF TookEffect, ReceiptOK, received
    <3>3. MemoryOK(m) /\ m.extension # 0
      BY <3>1, <3>2 DEF MemoryOK, Memory
    <3>4. HeldAt("owners", m)
      BY <3>3 DEF HeldAt
    <3>5. goOn("owners", m)
      BY <2>2, <3>1
    <3> QED
      BY <2>0, <2>2, <3>3, <3>4, <3>5, GoesOn DEF DeploymentInv, ToolMoves, ToolStepName
  <2> QED
    BY <1>2, <2>1, <2>2 DEF registerExtension
<1>3. ASSUME NEW step \in ToolStepName, pc = step, NEW method \in ExtensionMethod
      PROVE  Call(method).method = method /\ Call(method).extension = local.extension
  BY <1>3, AtStep
<1>4. CASE allowTeeMachineOwners
  <2>1. pc = "owners"
    BY <1>4 DEF allowTeeMachineOwners, ensure, at, received
  <2>2. Awaits("owners", Call("AddAllowedTeeMachineOwners"), local)
    BY <1>3, <2>1 DEF Awaits, ToolStepName, ExtensionMethod
  <2>3. HeldAt("owners", local) /\ (Has(local.extension, "machineOwner") \/ TookEffect("owners", local, receipt))
           => HeldAt("projects", local)
    BY DEF HeldAt, TookEffect
  <2> QED
    BY <1>4, <2>2, <2>3, EnsureStep DEF allowTeeMachineOwners, ToolStepName, ExtensionMethod
<1>5. CASE allowTeeProjectManagerOwners
  <2>1. pc = "projects"
    BY <1>5 DEF allowTeeProjectManagerOwners, ensure, at, received
  <2>2. Awaits("projects", Call("AddAllowedTeeWalletProjectOwners"), local)
    BY <1>3, <2>1 DEF Awaits, ToolStepName, ExtensionMethod
  <2>3. HeldAt("projects", local) /\ (Has(local.extension, "projectOwner") \/ TookEffect("projects", local, receipt))
           => HeldAt("keys", local)
    BY DEF HeldAt, TookEffect
  <2> QED
    BY <1>5, <2>2, <2>3, EnsureStep DEF allowTeeProjectManagerOwners, ToolStepName, ExtensionMethod
<1>6. CASE AddSupportedKeyTypes
  <2>1. pc = "keys"
    BY <1>6 DEF AddSupportedKeyTypes, ensure, at, received
  <2>2. Awaits("keys", Call("AddSupportedKeyTypes"), local)
    BY <1>3, <2>1 DEF Awaits, ToolStepName, ExtensionMethod
  <2>3. HeldAt("keys", local) /\ (Has(local.extension, "keyType") \/ TookEffect("keys", local, receipt))
           => HeldAt("write", local)
    BY DEF HeldAt, TookEffect
  <2> QED
    BY <1>6, <2>2, <2>3, EnsureStep DEF AddSupportedKeyTypes, ToolStepName, ExtensionMethod
<1>7. CASE WriteConfig
  <2>1. /\ ChainOK /\ FilesOK /\ MemoryOK(local) /\ HeldAt("write", local)
    BY <1>7 DEF WriteConfig, at, DeploymentInv, ToolOK
  <2>2. ChainOK' /\ ToolOK'
    BY <1>7, Stops DEF WriteConfig, ToolMoves
  <2>3. config' = local.extension /\ UNCHANGED <<stateFile, extensions, machines, instructions>>
    BY <1>7 DEF WriteConfig, ToolMoves, chainVars
  <2>4. local.extension \in 0..Len(extensions)
    BY <2>1 DEF MemoryOK, Memory, ChainOK
  <2>5. ConfiguredIsSetUp' /\ ProvenInProduction'
    BY <2>1, <2>3 DEF ConfiguredIsSetUp, ProvenInProduction, HeldAt, FilesOK, Has
  <2>6. FilesOK'
    BY <2>1, <2>3, <2>4, <2>5 DEF FilesOK
  <2> QED
    BY <2>2, <2>6 DEF DeploymentInv
<1>8. CASE AddTeeVersion
  <2>1. pc = "version"
    BY <1>8 DEF AddTeeVersion, ensure, at, received
  <2>2. Awaits("version", Call("AddTeeVersion"), local)
    BY <1>3, <2>1 DEF Awaits, ToolStepName, ExtensionMethod
  <2>3. HeldAt("governance", local)
    BY DEF HeldAt
  <2> QED
    BY <1>8, <2>2, <2>3, EnsureStep DEF AddTeeVersion, ToolStepName, ExtensionMethod
<1>9. CASE SetTeeGovernance
  <2>1. pc = "governance"
    BY <1>9 DEF SetTeeGovernance, ensure, at, received
  <2>2. Awaits("governance", Call("SetNewTeeGovernance"), local)
    BY <1>3, <2>1 DEF Awaits, ToolStepName, ExtensionMethod
  <2>3. HeldAt("start", local)
    BY DEF HeldAt
  <2> QED
    BY <1>9, <2>2, <2>3, EnsureStep DEF SetTeeGovernance, ToolStepName, ExtensionMethod
<1> QED
  BY <1>1, <1>2, <1>4, <1>5, <1>6, <1>7, <1>8, <1>9 DEF SetupExtension

LEMMA StartStep ==
    ASSUME DeploymentInv, StartPreBuild \/ StartPostBuild, ToolMoves, UNCHANGED succeeded
    PROVE  DeploymentInv'
<1>0. FilesOK' /\ UNCHANGED mempool
  BY FilesSame DEF StartPreBuild, StartPostBuild, ToolMoves
<1>1. /\ config \in Nat /\ config <= Len(extensions) /\ Len(extensions) \in Nat
      /\ instructions \in Nat /\ node \in Nat
  BY DEF DeploymentInv, FilesOK, ChainOK, TeeId
<1>2. PICK e \in Nat, step \in {"deploy", "version"} :
         e <= Len(extensions) /\ goOn(step, [Blank EXCEPT !.extension = e])
  <2>1. Blank = [Blank EXCEPT !.extension = 0]
    BY DEF Blank
  <2> QED
    BY <1>1, <2>1 DEF StartPreBuild, StartPostBuild
<1>3. PICK m : m = [Blank EXCEPT !.extension = e]
  OBVIOUS
<1>4. MemoryOK(m)
  <2>0. {} \in Commands \cup {{}}
    OBVIOUS
  <2>1. PICK commands : commands = Commands \cup {{}} /\ {} \in commands
    BY <2>0, Zenon
  <2>2. /\ m = [extension |-> e, command |-> {}, resume |-> FALSE, tee |-> 0, attest |-> 0, check |-> 0]
        /\ m.extension = e /\ m.tee = 0 /\ m.attest = 0 /\ m.check = 0
    BY <1>3 DEF Blank
  <2>3. m \in Memory
    BY <2>1, <2>2 DEF Memory
  <2> QED
    BY <1>1, <1>2, <2>2, <2>3 DEF MemoryOK
<1>5. HeldAt(step, m) /\ step \in ToolStepName
  BY DEF HeldAt, ToolStepName
<1> QED
  BY <1>0, <1>2, <1>3, <1>4, <1>5, GoesOn DEF DeploymentInv, ToolMoves

-----------------------------------------------------------------------------
(* register-tee *)

LEMMA FilesWritten ==
    ASSUME DeploymentInv, UNCHANGED <<chainVars, node, config, succeeded>>,
           stateFile' \in StateFile,
           stateFile'.attest <= instructions, stateFile'.check <= instructions
    PROVE  FilesOK'
<1>1. UNCHANGED <<extensions, machines, instructions>> /\ FilesOK
  BY DEF chainVars, DeploymentInv
<1>2. ConfiguredIsSetUp' /\ ProvenInProduction'
  BY <1>1 DEF FilesOK, ConfiguredIsSetUp, ProvenInProduction, Has
<1> QED
  BY <1>1, <1>2 DEF FilesOK

LEMMA StartRegisterStep ==
    ASSUME DeploymentInv, NEW resume \in Resume, StartRegisterTee(resume), ToolMoves
    PROVE  DeploymentInv'
<1>0. ChainOK /\ ToolOK /\ FilesOK
  BY DEF DeploymentInv
<1>1. PICK command \in Commands :
         local' = [local EXCEPT !.tee = node, !.command = command, !.resume = resume]
  BY DEF StartRegisterTee
<1>2. PICK m : m = [local EXCEPT !.tee = node, !.command = command, !.resume = resume]
  OBVIOUS
<1>3. MemoryOK(m) /\ m.tee # 0 /\ m.command \in Commands
  <2>1. MemoryOK(local) /\ node \in Nat /\ node # 0
    BY <1>0 DEF ToolOK, ChainOK, TeeId
  <2>2. PICK commands : commands = Commands \cup {{}}
    OBVIOUS
  <2>3. command \in commands
    BY <2>2
  <2>4. local \in [extension : Nat, command : commands, resume : BOOLEAN, tee : Nat,
                   attest : Nat, check : Nat]
    BY <2>1, <2>2 DEF MemoryOK, Memory
  <2>5. /\ m \in [extension : Nat, command : commands, resume : BOOLEAN, tee : Nat,
                 attest : Nat, check : Nat]
        /\ m.tee = node /\ m.command = command /\ m.extension = local.extension /\ m.attest = local.attest
        /\ m.check = local.check
    BY <1>2, <2>1, <2>3, <2>4
  <2>6. m \in Memory
    BY <2>2, <2>5 DEF Memory
  <2> QED
    BY <2>1, <2>5, <2>6 DEF MemoryOK
<1>4. /\ pc' = "r" /\ waiting' = FALSE /\ receipt' = 0 /\ local' = m
      /\ UNCHANGED <<mempool, config, succeeded>>
  BY <1>0, <1>1, <1>2 DEF StartRegisterTee, at, ToolOK, ReceiptOK, countVars
<1>5. HeldAt("r", m)
  BY <1>3 DEF HeldAt
<1>6. ChainOK' /\ ToolOK'
  <2>1. goOn("r", m) /\ "r" \in ToolStepName
    BY <1>4 DEF goOn, ToolStepName
  <2> QED
    BY <1>3, <1>4, <1>5, <2>1, GoesOn DEF ToolMoves
<1>7. FilesOK'
  <2>1. stateFile' \in {stateFile, NoState}
    BY DEF StartRegisterTee
  <2>2. /\ stateFile' \in StateFile
        /\ stateFile'.attest <= instructions /\ stateFile'.check <= instructions
    BY <1>0, <2>1 DEF FilesOK, NoState, StateFile, ChainOK
  <2> QED
    BY <1>4, <2>2, FilesWritten DEF ToolMoves
<1> QED
  BY <1>6, <1>7 DEF DeploymentInv

LEMMA CompletedStep ==
    ASSUME DeploymentInv, NEW step \in {"r", "R", "a"}, NEW m, MemoryOK(m), HeldAt("r", m),
           completed(step, m), ToolMoves, UNCHANGED succeeded
    PROVE  DeploymentInv'
<1>1. After(step) \in {"R", "a", "p"} /\ goOn(After(step), m) /\ UNCHANGED <<mempool, config>>
  BY DEF completed, After
<1>2. PICK then \in {"R", "a", "p"} : goOn(then, m)
  BY <1>1
<1>3. HeldAt(then, m) /\ then \in ToolStepName
  BY DEF HeldAt, ToolStepName
<1>4. ChainOK' /\ ToolOK'
  BY <1>1, <1>2, <1>3, GoesOn DEF ToolMoves
<1>5. FilesOK'
  <2>1. /\ stateFile \in StateFile /\ stateFile.attest <= instructions
        /\ stateFile.check <= instructions
    BY DEF DeploymentInv, FilesOK
  <2>2. m.attest \in Nat /\ m.check \in Nat /\ m.attest <= instructions /\ m.check <= instructions
    BY DEF MemoryOK, Memory
  <2>3. PICK new : new = [completed |-> stateFile.completed \cup {step},
                          attest |-> m.attest, check |-> m.check]
    OBVIOUS
  <2>4. new \in StateFile /\ new.attest <= instructions /\ new.check <= instructions
    BY <2>1, <2>2, <2>3 DEF StateFile
  <2>5. stateFile' = new \/ stateFile' = stateFile
    BY <2>3 DEF completed
  <2> QED
    BY <1>1, <2>1, <2>4, <2>5, FilesWritten DEF ToolMoves
<1> QED
  BY <1>4, <1>5 DEF DeploymentInv

\* A step of register-tee sends its transaction, or is completed with the id in the receipt.
LEMMA RequestStep ==
    ASSUME DeploymentInv, NEW step \in {"r", "R", "a"}, ToolMoves, UNCHANGED succeeded,
           NEW method \in TeeMethod,
           step = "a" => method = "RequestAvailabilityCheckAttestation",
           \/ at(step) /\ transact(TeeCall(method)) /\ UNCHANGED fileVars
           \/ received(step) /\ completed(step, [local EXCEPT !.attest = receipt])
           \/ received(step) /\ completed(step, [local EXCEPT !.check = receipt])
    PROVE  DeploymentInv'
<1>1. CASE at(step) /\ transact(TeeCall(method)) /\ UNCHANGED fileVars
  <2>1. PICK tx \in Transaction : tx = TeeCall(method) /\ tx.method = method /\ tx.tee = local.tee
    BY <1>1, AtRegisterStep DEF at
  <2>2. transact(tx) /\ Awaits(pc, tx, local) /\ ~waiting /\ pc \in ToolStepName
    BY <1>1, <2>1 DEF at, Awaits, ToolStepName, TeeMethod
  <2> QED
    BY <1>1, <2>2, Sends, FilesSame DEF DeploymentInv, ToolMoves
<1>2. CASE \/ received(step) /\ completed(step, [local EXCEPT !.attest = receipt])
           \/ received(step) /\ completed(step, [local EXCEPT !.check = receipt])
  <2>1. /\ MemoryOK(local) /\ HeldAt("r", local) /\ receipt \in Nat /\ receipt <= instructions
    BY <1>2, Received DEF ReceiptOK, received, HeldAt
  <2>2. PICK m : /\ completed(step, m)
                 /\ \/ m = [local EXCEPT !.attest = receipt]
                    \/ m = [local EXCEPT !.check = receipt]
    BY <1>2
  <2>3. MemoryOK(m) /\ HeldAt("r", m)
    <3>1. CASE m = [local EXCEPT !.attest = receipt]
      BY <2>1, <3>1 DEF MemoryOK, Memory, HeldAt
    <3>2. CASE m = [local EXCEPT !.check = receipt]
      BY <2>1, <3>2 DEF MemoryOK, Memory, HeldAt
    <3> QED
      BY <2>2, <3>1, <3>2
  <2> QED
    BY <2>2, <2>3, CompletedStep
<1> QED
  BY <1>1, <1>2

LEMMA SkippedStep ==
    ASSUME DeploymentInv, NEW step \in {"r", "R", "a"}, SkipStep(step), ToolMoves, UNCHANGED succeeded
    PROVE  DeploymentInv'
<1>1. MemoryOK(local) /\ HeldAt(step, local)
  BY AtRegisterStep DEF SkipStep, at
<1>2. After(step) \in {"R", "a", "p"} /\ UNCHANGED <<mempool, fileVars>>
  BY DEF SkipStep, After
<1>3. PICK then \in {"R", "a", "p"} : then = After(step)
  BY <1>2
<1>4. PICK m : /\ goOn(then, m)
               /\ \/ m = local
                  \/ m = [local EXCEPT !.attest = stateFile.attest, !.check = stateFile.check]
  BY <1>3 DEF SkipStep
<1>5. /\ stateFile.attest \in Nat /\ stateFile.check \in Nat
      /\ stateFile.attest <= instructions /\ stateFile.check <= instructions
  BY DEF DeploymentInv, FilesOK, StateFile
<1>6. MemoryOK(m) /\ HeldAt("r", m)
  <2>1. CASE m = local
    BY <1>1, <2>1 DEF HeldAt
  <2>2. CASE m = [local EXCEPT !.attest = stateFile.attest, !.check = stateFile.check]
    BY <1>1, <1>5, <2>2 DEF MemoryOK, Memory, HeldAt
  <2> QED
    BY <1>4, <2>1, <2>2
<1>7. HeldAt(then, m) /\ then \in ToolStepName
  BY <1>6 DEF HeldAt, ToolStepName
<1> QED
  BY <1>2, <1>4, <1>6, <1>7, GoesOn, FilesSame DEF DeploymentInv, ToolMoves

\* register-tee reports success when it saw the machine of its proof in production.
LEMMA FinishStep ==
    ASSUME DeploymentInv, NEW t \in TeeId, machines[t] = "PRODUCTION", finish(t), ToolMoves
    PROVE  DeploymentInv'
<1>0. ChainOK /\ FilesOK
  BY DEF DeploymentInv
<1>1. ChainOK' /\ ToolOK'
  BY Stops DEF finish, ToolMoves
<1>2. /\ UNCHANGED <<extensions, machines, instructions, config>> /\ stateFile' = NoState
      /\ \E s : s.proven = t /\ succeeded' = succeeded \cup {s}
  BY DEF finish, ToolMoves, chainVars
<1>3. ConfiguredIsSetUp' /\ ProvenInProduction'
  BY <1>0, <1>2 DEF FilesOK, ConfiguredIsSetUp, ProvenInProduction, Has
<1>4. NoState \in StateFile /\ NoState.attest <= instructions /\ NoState.check <= instructions
  BY <1>0 DEF NoState, StateFile, ChainOK
<1>5. FilesOK'
  BY <1>0, <1>2, <1>3, <1>4 DEF FilesOK
<1> QED
  BY <1>1, <1>5 DEF DeploymentInv

LEMMA RegisterStep ==
    ASSUME DeploymentInv, RegisterNode, ToolMoves
    PROVE  DeploymentInv'
<1>1. ASSUME NEW step \in {"r", "R", "a"}, SkipStep(step), UNCHANGED succeeded PROVE DeploymentInv'
  BY <1>1, SkippedStep
<1>2. CASE PreRegistration /\ UNCHANGED succeeded
  <2>1. PICK method \in {"Register", "RequestTeeAttestation"} :
           method = IF machines[local.tee] = "NONE" THEN "Register" ELSE "RequestTeeAttestation"
    OBVIOUS
  <2>2. \/ at("r") /\ transact(TeeCall(method)) /\ UNCHANGED fileVars
        \/ received("r") /\ completed("r", [local EXCEPT !.attest = receipt])
    BY <1>2, <2>1 DEF PreRegistration, preRegister, todo
  <2> QED
    BY <1>2, <2>2, RequestStep DEF TeeMethod
<1>3. CASE RequestTeeAttestation /\ UNCHANGED succeeded
  <2>1. \/ at("R") /\ transact(TeeCall("RequestTeeAttestation")) /\ UNCHANGED fileVars
        \/ received("R") /\ completed("R", [local EXCEPT !.attest = receipt])
    BY <1>3 DEF RequestTeeAttestation, todo
  <2> QED
    BY <1>3, <2>1, RequestStep DEF TeeMethod
<1>4. CASE RequestFTDCAvailabilityCheck /\ UNCHANGED succeeded
  <2>1. \/ at("a") /\ transact(TeeCall("RequestAvailabilityCheckAttestation")) /\ UNCHANGED fileVars
        \/ received("a") /\ completed("a", [local EXCEPT !.check = receipt])
    BY <1>4 DEF RequestFTDCAvailabilityCheck, todo
  <2> QED
    BY <1>4, <2>1, RequestStep DEF TeeMethod
<1>5. CASE (PolicyOutOfSync \/ NoProof) /\ UNCHANGED succeeded
  <2>1. stop /\ UNCHANGED <<mempool, fileVars>>
    BY <1>5 DEF PolicyOutOfSync, NoProof
  <2> QED
    BY <1>5, <2>1, Stops, FilesSame DEF DeploymentInv, ToolMoves
<1>6. CASE ToProduction
  <2>1. PICK c \in checks :
           /\ c.id = local.check
           /\ \/ at("p") /\ machines[c.tee] = "PRODUCTION" /\ finish(c.tee)
              \/ at("p") /\ transact(toProduction(c)) /\ UNCHANGED <<fileVars, succeeded>>
              \/ received("p") /\ finish(c.tee)
    BY <1>6 DEF ToProduction, teeStatusProduction
  <2>2. c.tee \in TeeId /\ CheckOf(local.check, c.tee)
    BY <2>1 DEF DeploymentInv, ChainOK, ChecksOK, CheckOf
  <2>3. CASE machines[c.tee] = "PRODUCTION" /\ finish(c.tee)
    BY <2>2, <2>3, FinishStep
  <2>4. CASE at("p") /\ transact(toProduction(c)) /\ UNCHANGED <<fileVars, succeeded>>
    <3>1. PICK tx \in Transaction :
             tx = toProduction(c) /\ tx.method = "ToProduction" /\ tx.tee = c.tee
      BY <2>4, AtRegisterStep DEF at
    <3>2. transact(tx) /\ Awaits(pc, tx, local) /\ ~waiting /\ pc \in ToolStepName
      BY <2>2, <2>4, <3>1 DEF at, Awaits, ToolStepName
    <3> QED
      BY <2>4, <3>2, Sends, FilesSame DEF DeploymentInv, ToolMoves
  <2>5. CASE received("p") /\ finish(c.tee)
    <3>1. machines[c.tee] = "PRODUCTION"
      BY <2>1, <2>5, Received DEF TookEffect
    <3> QED
      BY <2>2, <2>5, <3>1, FinishStep
  <2> QED
    BY <2>1, <2>3, <2>4, <2>5
<1> QED
  BY <1>1, <1>2, <1>3, <1>4, <1>5, <1>6 DEF RegisterNode

-----------------------------------------------------------------------------
(* The whole specification *)

\* Steps outside the tools change nothing that they know.
LEMMA OutsideStep ==
    ASSUME DeploymentInv,
           UNCHANGED <<extensions, machines, checks, instructions, mempool>>,
           UNCHANGED <<toolVars, fileVars, succeeded>>,
           node' \in TeeId, node <= node'
    PROVE  DeploymentInv'
<1>0. ChainOK /\ ToolOK /\ FilesOK
  BY DEF DeploymentInv
<1>1. ChainOK' /\ Grows
  BY <1>0 DEF ChainOK, ChecksOK, Grows, Has
<1>2. UNCHANGED <<pc, waiting, receipt, local>>
  BY DEF toolVars
<1>3. PICK m, step, id : m = local /\ step = pc /\ id = receipt
  OBVIOUS
<1>4. /\ MemoryOK(m)' /\ HeldAt(step, m)'
      /\ \A tx : Awaits(step, tx, m) => Awaits(step, tx, m)'
  BY <1>0, <1>1, <1>3, KnowledgeKept DEF ToolOK
<1>5. /\ MemoryOK(local)' /\ HeldAt(pc, local)'
      /\ TookEffect(pc, local, receipt) => TookEffect(pc, local, receipt)'
      /\ Awaits(pc, mempool[Len(mempool)], local) => Awaits(pc, mempool[Len(mempool)], local)'
  BY <1>2, <1>3, <1>4 DEF TookEffect, Awaits, CheckOf, Has
<1>6. ReceiptOK'
  BY <1>0, <1>2 DEF ToolOK, ReceiptOK
<1>7. ToolOK'
  BY <1>0, <1>2, <1>5, <1>6 DEF ToolOK
<1> QED
  BY <1>0, <1>1, <1>7, FilesKept DEF DeploymentInv

LEMMA NextDeployment == DeploymentInv /\ [Next]_vars => DeploymentInv'
<1> SUFFICES ASSUME DeploymentInv, [Next]_vars PROVE DeploymentInv'
    OBVIOUS
<1>0. node \in TeeId /\ node <= node
  BY DEF DeploymentInv, ChainOK, TeeId
<1>1. CASE ToolStep
  <2>1. ToolMoves
    BY <1>1 DEF ToolStep, ToolMoves, outsideVars
  <2>2. CASE (StartPreBuild \/ StartPostBuild) /\ UNCHANGED <<succeeded, faults>>
    BY <2>1, <2>2, StartStep
  <2>3. CASE (SetupExtension \/ AddTeeVersion \/ SetTeeGovernance) /\ UNCHANGED countVars
    BY <2>1, <2>3, SetupStep DEF countVars
  <2>4. CASE \E resume \in Resume : StartRegisterTee(resume)
    BY <2>1, <2>4, StartRegisterStep
  <2>5. CASE RegisterNode /\ UNCHANGED reruns
    BY <2>1, <2>5, RegisterStep
  <2> QED
    BY <1>1, <2>2, <2>3, <2>4, <2>5 DEF ToolStep
<1>2. CASE ToolFails
  BY <1>2, Stops, FilesSame DEF ToolFails, DeploymentInv, outsideVars
<1>3. CASE Mine
  BY <1>3, MineStep
<1>4. CASE ChallengeExpires \/ EpochStarts \/ ProxyCatchesUp \/ Prove
  <2>1. /\ UNCHANGED <<extensions, machines, checks, instructions, mempool, node>>
        /\ UNCHANGED <<toolVars, fileVars, succeeded>>
    BY <1>4 DEF ChallengeExpires, EpochStarts, ProxyCatchesUp, Prove, chainVars, outsideVars, countVars
  <2> QED
    BY <1>0, <2>1, OutsideStep
<1>5. CASE NodeRestarts
  <2>1. /\ UNCHANGED <<extensions, machines, checks, instructions, mempool>>
        /\ UNCHANGED <<toolVars, fileVars, succeeded>>
        /\ node' = node + 1 /\ node < MaxNodes
    BY <1>5 DEF NodeRestarts, chainVars
  <2>2. node' \in TeeId /\ node <= node'
    BY <1>0, <2>1 DEF TeeId
  <2> QED
    BY <2>1, <2>2, OutsideStep
<1>6. CASE UNCHANGED vars
  <2>1. /\ UNCHANGED <<extensions, machines, checks, instructions, mempool, node>>
        /\ UNCHANGED <<toolVars, fileVars, succeeded>>
    BY <1>6 DEF vars, chainVars, outsideVars, countVars
  <2> QED
    BY <1>0, <2>1, OutsideStep
<1> QED
  BY <1>1, <1>2, <1>3, <1>4, <1>5, <1>6 DEF Next

LEMMA DeploymentInvariant == Spec => []DeploymentInv
BY InitDeployment, NextDeployment, PTL DEF Spec

(***************************************************************************)
(* The tools, their files and the registries have their type: an id that a *)
(* tool holds in memory or keeps in the state file is one that the chain   *)
(* gave out, although the tool may have read it from an old file.          *)
(***************************************************************************)
THEOREM DeploymentTypesHold == Spec => []DeploymentTypeOK
<1>1. ASSUME DeploymentInv PROVE DeploymentTypeOK
  <2>1. /\ local.extension \in Nat /\ local.tee \in Nat /\ local.attest \in Nat /\ local.check \in Nat
        /\ local.command \in Commands \cup {{}}
        /\ stateFile.attest \in Nat /\ stateFile.check \in Nat
        /\ stateFile.completed \subseteq {"r", "R", "a"}
        /\ instructions \in Nat /\ node \in Nat /\ Len(extensions) \in Nat
    BY <1>1 DEF DeploymentInv, ToolOK, FilesOK, ChainOK, MemoryOK, Memory, StateFile, TeeId
  <2> QED
    BY <1>1, <2>1, SMTT(60) DEF DeploymentInv, ToolOK, FilesOK, ChainOK, MemoryOK, DeploymentTypeOK
<1> QED
  BY <1>1, DeploymentInvariant, PTL

(***************************************************************************)
(* pre-build writes EXTENSION_ID to the config only when every step of     *)
(* SetupExtension on that extension took effect, for any number of         *)
(* extensions orphaned by runs that failed.                                *)
(***************************************************************************)
THEOREM ConfigNamesSetUpExtension == Spec => []ConfiguredIsSetUp
<1>1. DeploymentInv => ConfiguredIsSetUp
  BY DEF DeploymentInv, FilesOK
<1> QED
  BY <1>1, DeploymentInvariant, PTL

-----------------------------------------------------------------------------
(* A run without -resume *)

\* Its check is of its own machine, and it cannot take one from the state file.
FreshOK ==
    /\ ~local.resume /\ pc \in {"r", "R", "a"} => "a" \notin stateFile.completed
    /\ ~local.resume /\ pc = "p" => CheckOf(local.check, local.tee)
    /\ \A s \in succeeded : ~s.resume => s.tee = s.proven

\* FreshOK is disturbed by the steps of register-tee and by nothing else.
LEMMA FreshKept ==
    ASSUME DeploymentInv, FreshOK, Grows, UNCHANGED <<stateFile, succeeded>>,
           UNCHANGED <<pc, local>> \/ pc' \notin {"r", "R", "a", "p"}
    PROVE  FreshOK'
<1>1. CASE UNCHANGED <<pc, local>>
  <2>1. local.check \in Nat /\ local.check <= instructions /\ instructions \in Nat
    BY DEF DeploymentInv, ToolOK, ChainOK, MemoryOK, Memory
  <2>2. PICK id, t : id = local.check /\ t = local.tee
    OBVIOUS
  <2>3. CheckOf(id, t) => CheckOf(id, t)'
    BY <2>1, <2>2, CheckOfKept
  <2>4. CheckOf(local.check, local.tee) => CheckOf(local.check, local.tee)'
    BY <1>1, <2>2, <2>3
  <2> QED
    BY <1>1, <2>4 DEF FreshOK
<1>2. CASE pc' \notin {"r", "R", "a", "p"}
  BY <1>2 DEF FreshOK
<1> QED
  BY <1>1, <1>2

LEMMA FreshRegisterStep ==
    ASSUME DeploymentInv, FreshOK, RegisterNode, ToolMoves
    PROVE  FreshOK'
<1>0. Grows /\ UNCHANGED checks
  BY ChainSame DEF DeploymentInv, ToolMoves, chainVars
<1>1. ASSUME stop, UNCHANGED <<stateFile, succeeded>> PROVE FreshOK'
  BY <1>0, <1>1, FreshKept DEF stop
<1>2. ASSUME NEW tx, transact(tx), UNCHANGED <<stateFile, succeeded>> PROVE FreshOK'
  BY <1>0, <1>1, <1>2, FreshKept DEF transact
<1>3. ASSUME NEW t, finish(t), NEW c \in checks, c.id = local.check, c.tee = t, pc = "p"
      PROVE  FreshOK'
  <2>1. ~local.resume => local.tee = t
    BY <1>3 DEF FreshOK, CheckOf
  <2> QED
    BY <1>3, <2>1 DEF FreshOK, finish, stop
<1>4. ASSUME NEW step \in {"r", "R", "a"}, SkipStep(step), UNCHANGED succeeded PROVE FreshOK'
  <2>1. /\ pc = step /\ pc' = After(step) /\ local'.resume = local.resume
        /\ UNCHANGED stateFile
        /\ step \notin local.command \/ step \in stateFile.completed
    <3>1. PICK m : /\ goOn(After(step), m)
                   /\ \/ m = local
                      \/ m = [local EXCEPT !.attest = stateFile.attest, !.check = stateFile.check]
      BY <1>4 DEF SkipStep
    <3>2. local \in Memory
      BY DEF DeploymentInv, ToolOK, MemoryOK
    <3>3. m.resume = local.resume
      BY <3>1, <3>2 DEF Memory
    <3> QED
      BY <1>4, <3>1, <3>3 DEF SkipStep, at, goOn, fileVars
  <2>2. local.command \in Commands
    BY <1>4, <2>1 DEF DeploymentInv, ToolOK, HeldAt
  <2>3. "a" \in local.command
    BY <2>2
  <2>4. CASE step = "a"
    BY <1>4, <2>1, <2>3, <2>4 DEF FreshOK, After
  <2>5. CASE step \in {"r", "R"}
    BY <1>4, <2>1, <2>5 DEF FreshOK, After
  <2> QED
    BY <2>4, <2>5
<1>5. ASSUME NEW step \in {"r", "R"}, pc = step, UNCHANGED succeeded,
             completed(step, [local EXCEPT !.attest = receipt])
      PROVE  FreshOK'
  <2>1. local \in Memory
    BY DEF DeploymentInv, ToolOK, MemoryOK
  <2>2. pc' \in {"R", "a"} /\ local'.resume = local.resume
    BY <1>5, <2>1 DEF completed, goOn, After, Memory
  <2>3. "a" \in stateFile'.completed => "a" \in stateFile.completed
    BY <1>5 DEF completed
  <2> QED
    BY <1>5, <2>2, <2>3 DEF FreshOK
<1>6. ASSUME received("a"), UNCHANGED succeeded, completed("a", [local EXCEPT !.check = receipt])
      PROVE  FreshOK'
  <2>1. local \in Memory
    BY DEF DeploymentInv, ToolOK, MemoryOK
  <2>2. pc' = "p" /\ local'.check = receipt /\ local'.tee = local.tee
    BY <1>6, <2>1 DEF completed, goOn, After, Memory
  <2>3. CheckOf(receipt, local.tee)
    BY <1>6, Received DEF TookEffect
  <2>4. CheckOf(local.check, local.tee)'
    BY <1>0, <2>2, <2>3 DEF CheckOf
  <2> QED
    BY <1>6, <2>2, <2>4 DEF FreshOK
<1>7. CASE PreRegistration /\ UNCHANGED succeeded
  BY <1>2, <1>5, <1>7 DEF PreRegistration, preRegister, received, fileVars
<1>8. CASE RequestTeeAttestation /\ UNCHANGED succeeded
  BY <1>2, <1>5, <1>8 DEF RequestTeeAttestation, received, fileVars
<1>9. CASE RequestFTDCAvailabilityCheck /\ UNCHANGED succeeded
  BY <1>2, <1>6, <1>9 DEF RequestFTDCAvailabilityCheck, fileVars
<1>10. CASE (PolicyOutOfSync \/ NoProof) /\ UNCHANGED succeeded
  BY <1>1, <1>10 DEF PolicyOutOfSync, NoProof, fileVars
<1>11. CASE ToProduction
  <2>1. PICK c \in checks :
           /\ c.id = local.check /\ pc = "p"
           /\ \/ finish(c.tee)
              \/ transact(toProduction(c)) /\ UNCHANGED <<fileVars, succeeded>>
    BY <1>11 DEF ToProduction, at, received
  <2> QED
    BY <1>2, <1>3, <2>1 DEF fileVars
<1> QED
  BY <1>4, <1>7, <1>8, <1>9, <1>10, <1>11 DEF RegisterNode

LEMMA NextFresh == DeploymentInv /\ FreshOK /\ [Next]_vars => FreshOK'
<1> SUFFICES ASSUME DeploymentInv, FreshOK, [Next]_vars PROVE FreshOK'
    OBVIOUS
<1>0. node \in TeeId /\ node <= node
  BY DEF DeploymentInv, ChainOK, TeeId
<1>1. CASE ToolStep
  <2>1. ToolMoves
    BY <1>1 DEF ToolStep, ToolMoves, outsideVars
  <2>2. Grows
    BY <2>1, ChainSame DEF DeploymentInv, ToolMoves
  <2>3. CASE (StartPreBuild \/ StartPostBuild) /\ UNCHANGED <<succeeded, faults>>
    BY <2>2, <2>3, FreshKept DEF StartPreBuild, StartPostBuild, goOn, fileVars
  <2>4. CASE (SetupExtension \/ AddTeeVersion \/ SetTeeGovernance) /\ UNCHANGED countVars
    <3>1. UNCHANGED <<stateFile, succeeded>>
      BY <2>4 DEF SetupExtension, DeployInstructionSender, registerExtension, allowTeeMachineOwners,
                  allowTeeProjectManagerOwners, AddSupportedKeyTypes, WriteConfig, AddTeeVersion,
                  SetTeeGovernance, ensure, fileVars, countVars
    <3>2. pc' \notin {"r", "R", "a", "p"}
      BY <2>4 DEF SetupExtension, DeployInstructionSender, registerExtension, allowTeeMachineOwners,
                  allowTeeProjectManagerOwners, AddSupportedKeyTypes, WriteConfig, AddTeeVersion,
                  SetTeeGovernance, ensure, at, received, skip, goOn, transact, stop
    <3> QED
      BY <2>2, <3>1, <3>2, FreshKept
  <2>5. CASE \E resume \in Resume : StartRegisterTee(resume)
    <3>1. PICK resume \in Resume, command \in Commands :
             /\ stateFile' = IF resume THEN stateFile ELSE NoState
             /\ pc' = "r" /\ UNCHANGED succeeded
             /\ local' = [local EXCEPT !.tee = node, !.command = command, !.resume = resume]
      BY <2>5 DEF StartRegisterTee, countVars
    <3>2. local'.resume = resume
      BY <3>1 DEF DeploymentInv, ToolOK, MemoryOK, Memory
    <3> QED
      BY <3>1, <3>2 DEF FreshOK, NoState
  <2>6. CASE RegisterNode /\ UNCHANGED reruns
    BY <2>1, <2>6, FreshRegisterStep
  <2> QED
    BY <1>1, <2>3, <2>4, <2>5, <2>6 DEF ToolStep
<1>2. CASE ToolFails
  <2>1. Grows
    BY <1>2, ChainSame DEF DeploymentInv, ToolFails, outsideVars
  <2> QED
    BY <1>2, <2>1, FreshKept DEF ToolFails, stop, fileVars
<1>3. CASE Mine
  <2>1. Grows
    <3>1. mempool \in Seq(Transaction) /\ mempool # <<>> /\ ChainOK /\ UNCHANGED node
      BY <1>3 DEF DeploymentInv, ToolOK, Mine, outsideVars
    <3>2. PICK tx \in Transaction : tx = mempool[1]
      BY <3>1
    <3>3. (~Reverts(tx) /\ apply(tx)) \/ UNCHANGED chainVars
      BY <1>3, <3>2 DEF Mine
    <3> QED
      BY <3>1, <3>3, ApplyGrows, ChainSame
  <2>2. UNCHANGED <<stateFile, succeeded>>
    BY <1>3 DEF Mine, fileVars, countVars
  <2>3. UNCHANGED <<pc, local>> \/ pc' = "idle"
    BY <1>3 DEF Mine, stop, toolVars
  <2> QED
    BY <2>1, <2>2, <2>3, FreshKept
<1>4. CASE ChallengeExpires \/ EpochStarts \/ ProxyCatchesUp \/ Prove \/ NodeRestarts \/ UNCHANGED vars
  <2>1. UNCHANGED <<extensions, machines, checks, instructions, toolVars, fileVars, succeeded>>
    BY <1>4 DEF ChallengeExpires, EpochStarts, ProxyCatchesUp, Prove, NodeRestarts, vars, chainVars,
                outsideVars, countVars
  <2>2. node' \in {node, node + 1}
    BY <1>4 DEF ChallengeExpires, EpochStarts, ProxyCatchesUp, Prove, NodeRestarts, vars, outsideVars
  <2>3. Grows
    BY <1>0, <2>1, <2>2 DEF Grows, DeploymentInv, ChainOK, Has, TeeId
  <2> QED
    BY <2>1, <2>3, FreshKept DEF toolVars, fileVars
<1> QED
  BY <1>1, <1>2, <1>3, <1>4 DEF Next

(***************************************************************************)
(* register-tee ends well only when the machine its proof is of is in      *)
(* production, for any number of machines and whatever an earlier run left *)
(* in the mempool and in the state file; and a run without -resume reports *)
(* that machine.  A run with -resume may report another.                   *)
(***************************************************************************)
THEOREM RegisterTeeSucceedsInProduction == Spec => []SuccessIsProduction
<1>1. Init => FreshOK
  BY DEF Init, FreshOK, Blank
<1>2. DeploymentInv /\ FreshOK => SuccessIsProduction
  BY DEF DeploymentInv, FilesOK, ProvenInProduction, FreshOK, SuccessIsProduction
<1> QED
  BY <1>1, <1>2, NextFresh, DeploymentInvariant, PTL DEF Spec
=============================================================================
