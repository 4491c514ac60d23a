----------------------------- MODULE Deployment -----------------------------
(***************************************************************************)
(* The operator's tools (extension/go/tools): pre-build deploys the        *)
(* instruction sender and sets up an extension; post-build allows the      *)
(* enclave's version, sets its governance and registers the machine        *)
(* (RegisterNode), which is to end in production.                          *)
(*                                                                         *)
(* External: Flare's TEE manager (the registries), the data providers that *)
(* prove an availability check, the FTDC proxy and its signing policy, and *)
(* the node.  The enclave has one code hash and one governance set, so an  *)
(* extension only remembers whether it has them.                           *)
(*                                                                         *)
(* A transaction is mined some time after it is sent, in nonce order;      *)
(* CheckTx may give up on it first, and the tool dies with it pending.     *)
(***************************************************************************)
EXTENDS Integers, Sequences, FiniteSets

CONSTANTS
    Commands,          \* the values of register-tee's -command, as sets of letters
    Resume,            \* the values of -resume the operator uses
    Fault,             \* the kinds of failure that may be met
    MaxFaults,         \* bound: failures met
    MaxReruns,         \* bound: post-builds of a machine reported as registered
    MaxNodes           \* bound: machines the node has been

ASSUME DeploymentAssumption ==
    /\ Commands \subseteq {{"r", "a", "p"}, {"r", "R", "a", "p"}}
    /\ Resume \subseteq BOOLEAN
    /\ MaxFaults \in Nat /\ MaxReruns \in Nat
    /\ MaxNodes \in Nat \ {0}

VARIABLES
    \* external: the chain
    extensions,      \* what each registered extension has
    machines,        \* TeeStatus of each machine
    challenges,      \* attestation challenges that may be used, once
    checks,          \* availability checks requested
    instructions,    \* instruction ids given out
    mempool,         \* transactions sent but not mined, in nonce order
    \* external: the node, the proxy and the data providers
    node,            \* the machine now running
    inSync,          \* the FTDC proxy follows the current reward epoch
    proved,          \* availability checks with a proof
    \* the tools
    pc,              \* the step of the script, or "idle"
    waiting,         \* in CheckTx
    receipt,         \* of the transaction waited for: its id, or 0
    local,           \* what the running tool holds in memory
    stateFile,       \* config/register-tee.state
    config,          \* EXTENSION_ID in config/extension.env, or 0
    succeeded,       \* history: register-tee's that ended well: the machine each reports,
                     \* the machine its proof is of, and whether it was run with -resume
    faults, reruns

chainVars == <<extensions, machines, challenges, checks, instructions>>
outsideVars == <<node, inSync, proved>>
toolVars == <<pc, waiting, receipt, local>>
fileVars == <<stateFile, config>>
countVars == <<succeeded, faults, reruns>>
vars == <<chainVars, mempool, outsideVars, toolVars, fileVars, countVars>>

TeeId == 1..MaxNodes

NoState == [completed |-> {}, attest |-> 0, check |-> 0]
Blank == [extension |-> 0, command |-> {}, resume |-> FALSE, tee |-> 0, attest |-> 0, check |-> 0]
NewExtension == [machineOwner |-> FALSE, projectOwner |-> FALSE, keyType |-> FALSE,
                 version |-> FALSE, governance |-> FALSE]

Init ==
    /\ extensions = <<>>
    /\ machines = [t \in TeeId |-> "NONE"]
    /\ challenges = {}
    /\ checks = {}
    /\ instructions = 0
    /\ mempool = <<>>
    /\ node = 1
    /\ inSync = TRUE
    /\ proved = {}
    /\ pc = "idle"
    /\ waiting = FALSE
    /\ receipt = 0
    /\ local = Blank
    /\ stateFile = NoState
    /\ config = 0
    /\ succeeded = {}
    /\ faults = 0
    /\ reruns = 0

-----------------------------------------------------------------------------
(* External: the registries *)

Has(e, what) == e \in DOMAIN extensions /\ extensions[e][what]

Reverts(tx) ==
    CASE tx.method = "AddTeeVersion" -> Has(tx.extension, "version")
      [] tx.method = "Register" ->
           \/ machines[tx.tee] # "NONE"
           \/ ~Has(tx.extension, "version") \/ ~Has(tx.extension, "governance")
           \/ ~Has(tx.extension, "machineOwner")
      [] tx.method = "RequestTeeAttestation" -> machines[tx.tee] = "NONE"
      [] tx.method = "RequestAvailabilityCheckAttestation" ->
           [id |-> tx.attest, tee |-> tx.tee] \notin challenges
      [] tx.method = "ToProduction" -> machines[tx.tee] # "INITIALIZED"
      [] OTHER -> FALSE

grant(e, what) ==
    /\ extensions' = [extensions EXCEPT ![e][what] = TRUE]
    /\ UNCHANGED <<machines, challenges, checks, instructions>>

\* A new attestation challenge for the machine.
challenge(t) ==
    /\ challenges' = challenges \cup {[id |-> instructions + 1, tee |-> t]}
    /\ instructions' = instructions + 1

apply(tx) ==
    \/ /\ tx.method = "DeployInstructionSender"
       /\ UNCHANGED chainVars
    \/ /\ tx.method = "RegisterExtension"
       /\ extensions' = Append(extensions, NewExtension)
       /\ UNCHANGED <<machines, challenges, checks, instructions>>
    \/ tx.method = "AddAllowedTeeMachineOwners" /\ grant(tx.extension, "machineOwner")
    \/ tx.method = "AddAllowedTeeWalletProjectOwners" /\ grant(tx.extension, "projectOwner")
    \/ tx.method = "AddSupportedKeyTypes" /\ grant(tx.extension, "keyType")
    \/ tx.method = "AddTeeVersion" /\ grant(tx.extension, "version")
    \/ tx.method = "SetNewTeeGovernance" /\ grant(tx.extension, "governance")
    \/ /\ tx.method = "Register"
       /\ machines' = [machines EXCEPT ![tx.tee] = "INITIALIZED"]
       /\ challenge(tx.tee)
       /\ UNCHANGED <<extensions, checks>>
    \/ /\ tx.method = "RequestTeeAttestation"
       /\ challenge(tx.tee)
       /\ UNCHANGED <<extensions, machines, checks>>
    \/ /\ tx.method = "RequestAvailabilityCheckAttestation"
       /\ challenges' = challenges \ {[id |-> tx.attest, tee |-> tx.tee]}
       /\ instructions' = instructions + 1
       /\ checks' = checks \cup {[id |-> instructions + 1, tee |-> tx.tee, inSync |-> inSync]}
       /\ UNCHANGED <<extensions, machines>>
    \/ /\ tx.method = "ToProduction"
       /\ machines' = [machines EXCEPT ![tx.tee] = "PRODUCTION"]
       /\ UNCHANGED <<extensions, challenges, checks, instructions>>

\* The id the tool reads from the receipt's logs.
idIn(tx) == IF tx.method = "RegisterExtension" THEN Len(extensions') ELSE instructions'

\* FatalWithCause: the tool and its script end.
stop == pc' = "idle" /\ waiting' = FALSE /\ receipt' = 0 /\ local' = Blank

\* The first pending transaction is mined; the tool may be waiting for it.  (A revert is
\* fatal to allow-tee-version too: it cannot decode the custom VersionAlreadyExists.)
Mine ==
    /\ mempool # <<>>
    /\ LET tx == mempool[1]
           awaited == waiting /\ Len(mempool) = 1
       IN  \/ /\ ~Reverts(tx)
              /\ apply(tx)
              /\ receipt' = IF awaited THEN idIn(tx) ELSE receipt
              /\ UNCHANGED <<pc, waiting, local>>
           \/ /\ Reverts(tx)
              /\ UNCHANGED chainVars
              /\ IF awaited
                 THEN stop
                 ELSE UNCHANGED toolVars
    /\ mempool' = Tail(mempool)
    /\ UNCHANGED <<outsideVars, fileVars, countVars>>

meet(kind) == kind \in Fault /\ faults < MaxFaults /\ faults' = faults + 1

\* An attestation challenge is one-shot and expires.
ChallengeExpires ==
    /\ meet("expiry")
    /\ \E c \in challenges : challenges' = challenges \ {c}
    /\ UNCHANGED <<extensions, machines, checks, instructions, mempool, outsideVars, toolVars,
                   fileVars, succeeded, reruns>>

\* A reward epoch starts, and the proxy catches up with its signing policy.
EpochStarts ==
    /\ meet("epoch")
    /\ inSync /\ inSync' = FALSE
    /\ UNCHANGED <<chainVars, mempool, node, proved, toolVars, fileVars, succeeded, reruns>>
ProxyCatchesUp ==
    /\ ~inSync /\ inSync' = TRUE
    /\ UNCHANGED <<chainVars, mempool, node, proved, toolVars, fileVars, countVars>>

\* The providers prove a check made in sync, if its machine still answers.
Provable(id) == \E c \in checks : c.id = id /\ c.inSync /\ c.tee = node
Prove ==
    /\ \E id \in 1..instructions : id \notin proved /\ Provable(id) /\ proved' = proved \cup {id}
    /\ UNCHANGED <<chainVars, mempool, node, inSync, toolVars, fileVars, countVars>>

\* The node restarts: another key, and so another machine.
NodeRestarts ==
    /\ meet("node")
    /\ node < MaxNodes /\ node' = node + 1
    /\ UNCHANGED <<chainVars, mempool, inSync, proved, toolVars, fileVars, succeeded, reruns>>

-----------------------------------------------------------------------------
(* Steps of a tool *)

at(step) == pc = step /\ ~waiting

\* Sent, unless estimating its gas shows that it would revert.
transact(tx) ==
    IF Reverts(tx)
    THEN stop /\ UNCHANGED mempool
    ELSE /\ mempool' = Append(mempool, tx)
         /\ waiting' = TRUE
         /\ UNCHANGED <<pc, receipt, local>>

\* CheckTx returns.
received(step) == pc = step /\ waiting /\ mempool = <<>>

\* The step is over and the next begins.
goOn(step, memory) ==
    pc' = step /\ waiting' = FALSE /\ receipt' = 0 /\ local' = memory

skip(step) == goOn(step, local) /\ UNCHANGED mempool

Call(method) == [method |-> method, extension |-> local.extension]
TeeCall(method) ==
    [method |-> method, extension |-> config, tee |-> local.tee, attest |-> local.attest]

\* A call of the tool fails, or CheckTx gives up.
ToolFails ==
    /\ pc # "idle"
    /\ meet("tool")
    /\ stop
    /\ UNCHANGED <<chainVars, mempool, outsideVars, fileVars, succeeded, reruns>>

-----------------------------------------------------------------------------
(* pre-build: deploy-contract and register-extension *)

\* An existing config is reused.
StartPreBuild ==
    /\ pc = "idle"
    /\ config = 0
    /\ goOn("deploy", Blank)
    /\ UNCHANGED <<mempool, fileVars, reruns>>

DeployInstructionSender ==
    /\ \/ at("deploy") /\ transact(Call("DeployInstructionSender"))
       \/ received("deploy") /\ skip("register")
    /\ UNCHANGED fileVars

registerExtension_NextId ==
    /\ \/ at("register") /\ transact(Call("RegisterExtension"))
       \/ /\ received("register")
          /\ goOn("owners", [local EXCEPT !.extension = Len(extensions) + 1])
          /\ UNCHANGED mempool
    /\ UNCHANGED fileVars
registerExtension ==
    /\ \/ at("register") /\ transact(Call("RegisterExtension"))
       \/ /\ received("register")
          /\ goOn("owners", [local EXCEPT !.extension = receipt])
          /\ UNCHANGED mempool
    /\ UNCHANGED fileVars

\* A right of the extension, unless it has it already.
ensure(step, what, method, then) ==
    /\ \/ /\ at(step)
          /\ IF Has(local.extension, what) THEN skip(then) ELSE transact(Call(method))
       \/ received(step) /\ skip(then)
    /\ UNCHANGED fileVars

allowTeeMachineOwners == ensure("owners", "machineOwner", "AddAllowedTeeMachineOwners", "projects")
allowTeeProjectManagerOwners ==
    ensure("projects", "projectOwner", "AddAllowedTeeWalletProjectOwners", "keys")
AddSupportedKeyTypes == ensure("keys", "keyType", "AddSupportedKeyTypes", "write")

\* register-extension prints the id and the script writes the config.
WriteConfig ==
    /\ at("write")
    /\ config' = local.extension
    /\ stop
    /\ UNCHANGED <<stateFile, mempool>>

SetupExtension_WritesEarly ==
    \/ DeployInstructionSender
    \/ registerExtension
    \/ allowTeeMachineOwners
    \/ /\ at("projects")
       /\ config' = local.extension
       /\ stop
       /\ UNCHANGED <<stateFile, mempool>>
\* The steps of SetupExtension, in their order.
SetupExtension ==
    \/ DeployInstructionSender
    \/ registerExtension
    \/ allowTeeMachineOwners
    \/ allowTeeProjectManagerOwners
    \/ AddSupportedKeyTypes
    \/ WriteConfig

-----------------------------------------------------------------------------
(* post-build: allow-tee-version, set-governance, register-tee *)

\* register-tee has reported success for the machine.
Reported(t) == \E s \in succeeded : s.tee = t

\* The operator waits for the proxy to catch up, as outOfSyncError advises, and has no
\* need to go on once success is reported.
StartPostBuild ==
    /\ pc = "idle"
    /\ config # 0
    /\ inSync
    /\ \/ ~Reported(node) /\ UNCHANGED reruns
       \/ Reported(node) /\ reruns < MaxReruns /\ reruns' = reruns + 1
    /\ goOn("version", [Blank EXCEPT !.extension = config])
    /\ UNCHANGED <<mempool, fileVars>>

AddTeeVersion == ensure("version", "version", "AddTeeVersion", "governance")

SetTeeGovernance == ensure("governance", "governance", "SetNewTeeGovernance", "start")

\* register-tee reads the node's identity and, unless -resume, forgets the state file.
StartRegisterTee(resume) ==
    /\ at("start")
    /\ stateFile' = IF resume THEN stateFile ELSE NoState
    /\ pc' = "r"
    /\ \E command \in Commands :
         local' = [local EXCEPT !.tee = node, !.command = command, !.resume = resume]
    /\ UNCHANGED <<waiting, receipt, mempool, config, countVars>>

After(step) == CASE step = "r" -> "R" [] step = "R" -> "a" [] step = "a" -> "p"

\* A step that is not asked for, or that the state file says was completed.
SkipStep(step) ==
    /\ at(step)
    /\ \/ /\ step \notin local.command
          /\ goOn(After(step), local)
       \/ /\ step \in local.command \cap stateFile.completed
          /\ goOn(After(step), [local EXCEPT !.attest = stateFile.attest,
                                             !.check = stateFile.check])
    /\ UNCHANGED <<mempool, fileVars, faults>>

todo(step) == at(step) /\ step \in local.command \ stateFile.completed

\* The step is done: keep its instruction id, in memory and in the state file.
completed(step, memory) ==
    /\ goOn(After(step), memory)
    /\ \/ /\ stateFile' = [completed |-> stateFile.completed \cup {step},
                           attest |-> memory.attest, check |-> memory.check]
          /\ UNCHANGED faults
       \/ meet("save") /\ UNCHANGED stateFile
    /\ UNCHANGED <<mempool, config>>

preRegister_Register == transact(TeeCall("Register"))
\* A machine that is registered already gets a fresh challenge.
preRegister ==
    transact(TeeCall(IF machines[local.tee] = "NONE" THEN "Register" ELSE "RequestTeeAttestation"))

PreRegistration ==
    \/ todo("r") /\ preRegister /\ UNCHANGED <<fileVars, faults>>
    \/ received("r") /\ completed("r", [local EXCEPT !.attest = receipt])

RequestTeeAttestation ==
    \/ todo("R") /\ transact(TeeCall("RequestTeeAttestation")) /\ UNCHANGED <<fileVars, faults>>
    \/ received("R") /\ completed("R", [local EXCEPT !.attest = receipt])

\* CheckFTDCProxyPolicyConsistency stops only for a confirmed mismatch.
PolicyOutOfSync ==
    /\ todo("a")
    /\ ~inSync
    /\ stop
    /\ UNCHANGED <<mempool, fileVars, faults>>

RequestFTDCAvailabilityCheck ==
    \/ /\ todo("a")
       /\ inSync \/ "lookup" \in Fault
       /\ transact(TeeCall("RequestAvailabilityCheckAttestation"))
       /\ UNCHANGED <<fileVars, faults>>
    \/ received("a") /\ completed("a", [local EXCEPT !.check = receipt])

\* ActionResult gives up after its repeats; the proof may be late, or never come.
NoProof ==
    /\ at("p")
    /\ local.check \notin proved
    /\ \/ ~Provable(local.check) /\ UNCHANGED faults
       \/ meet("late")
    /\ stop
    /\ UNCHANGED <<mempool, fileVars>>

\* The enum value that means production.
teeStatusProduction_Initialized == "INITIALIZED"
teeStatusProduction == "PRODUCTION"

\* The state file is deleted, and register-tee reports success for the machine the node
\* was when it started, not for the one the proof is of.
finish(proven) ==
    /\ stop
    /\ succeeded' = succeeded \cup {[tee |-> local.tee, proven |-> proven, resume |-> local.resume]}
    /\ stateFile' = NoState
    /\ UNCHANGED <<config, mempool>>

\* The machine is the one in the proof's request.
toProduction(c) == [TeeCall("ToProduction") EXCEPT !.tee = c.tee]

ToProduction ==
    \E c \in checks :
       /\ c.id = local.check
       /\ \/ /\ at("p")
             /\ c.id \in proved
             /\ IF machines[c.tee] = teeStatusProduction
                THEN finish(c.tee)
                ELSE transact(toProduction(c)) /\ UNCHANGED <<fileVars, succeeded>>
          \/ received("p") /\ finish(c.tee)

RegisterNode ==
    \/ /\ \/ \E step \in {"r", "R", "a"} : SkipStep(step)
          \/ PreRegistration
          \/ RequestTeeAttestation
          \/ PolicyOutOfSync
          \/ RequestFTDCAvailabilityCheck
          \/ NoProof
       /\ UNCHANGED succeeded
    \/ ToProduction /\ UNCHANGED faults

ToolStep ==
    /\ \/ (StartPreBuild \/ StartPostBuild) /\ UNCHANGED <<succeeded, faults>>
       \/ /\ SetupExtension \/ AddTeeVersion \/ SetTeeGovernance
          /\ UNCHANGED countVars
       \/ \E resume \in Resume : StartRegisterTee(resume)
       \/ RegisterNode /\ UNCHANGED reruns
    /\ UNCHANGED <<chainVars, outsideVars>>

\* register-tee without -resume.
FreshRun == StartRegisterTee(FALSE) /\ UNCHANGED <<chainVars, outsideVars>>

Next ==
    \/ ToolStep \/ ToolFails \/ Mine
    \/ ChallengeExpires \/ EpochStarts \/ ProxyCatchesUp \/ Prove \/ NodeRestarts

\* The operator runs the scripts until the machine is in production, and not always with
\* -resume; Flare makes blocks, providers prove and the proxy follows the epochs.
Fairness ==
    /\ WF_vars(ToolStep)
    /\ WF_vars(Mine)
    /\ WF_vars(Prove)
    /\ WF_vars(ProxyCatchesUp)
    /\ SF_vars(FreshRun)

Spec == Init /\ [][Next]_vars /\ Fairness

-----------------------------------------------------------------------------
(* Properties *)

(***************************************************************************)
(* The tools, their files and the registries have their type.              *)
(***************************************************************************)
DeploymentTypeOK ==
    /\ config \in 0..Len(extensions)
    /\ machines \in [TeeId -> {"NONE", "INITIALIZED", "PRODUCTION"}]
    /\ stateFile.completed \subseteq {"r", "R", "a"} /\ local.command \in Commands \cup {{}}
    /\ local.extension \in 0..Len(extensions) /\ local.tee \in 0..node
    /\ {local.attest, local.check, stateFile.attest, stateFile.check} \subseteq 0..instructions
    /\ waiting => pc # "idle"

(***************************************************************************)
(* SetupExtension and pre-build: the config names an extension only when   *)
(* every step on it took effect, although any step may fail, time out with *)
(* its transaction pending, or leave an orphan extension behind.           *)
(***************************************************************************)
ConfiguredIsSetUp ==
    config # 0 =>
       \A what \in {"machineOwner", "projectOwner", "keyType"} : Has(config, what)

(***************************************************************************)
(* register-tee ends well only when the machine of its proof is in         *)
(* production, and without -resume that is the machine it reports: the     *)
(* idempotency guards skip what was done and nothing else, in runs that    *)
(* repeat or overlap a transaction of a tool that died.  With -resume the  *)
(* proof may be of an earlier machine, from the state file.                *)
(***************************************************************************)
SuccessIsProduction ==
    \A s \in succeeded :
       /\ machines[s.proven] = "PRODUCTION"
       /\ ~s.resume => s.tee = s.proven

\* A run with -resume reported this machine with the proof of another.
ReportedForAnother(t) == \E s \in succeeded : s.tee = t /\ s.resume /\ s.proven # t

(***************************************************************************)
(* Repeating post-build until it reports success brings the running        *)
(* machine into production, after failures, expired challenges, an epoch   *)
(* change or a node restart, and whatever an earlier run left in the state *)
(* file: a run that resumes may use a dead challenge and fail, and a fresh *)
(* one recovers from it.  One thing alone keeps a machine from production  *)
(* for good: a run that resumes after a node restart and reports the new   *)
(* machine for the old one, at which the operator stops.                   *)
(***************************************************************************)
RegistrationCompletes ==
    <>[](machines[node] = "PRODUCTION" \/ ReportedForAnother(node))
=============================================================================
