---------------------------- MODULE VerifyDeploy ----------------------------
(***************************************************************************)
(* verify-deploy (extension/go/tools/cmd/verify-deploy and pkg/validate):  *)
(* the operator's check of a deployment.  A report is gathered check by    *)
(* check, from a chain, an extension.env, services and an environment that *)
(* change while it is: pre-build may be registering an extension, services *)
(* start and stop, the deployer spends its funds.  extension.env is read   *)
(* again by every step that needs it.  A report without FAIL exits with 0. *)
(*                                                                         *)
(* External: the registries and the operator's environment.  Addresses and *)
(* extension ids are numbers; a value that does not match its regular      *)
(* expression is Malformed.                                                *)
(***************************************************************************)
EXTENDS Integers, Sequences, FiniteSetsExt

CONSTANTS
    Step,              \* the values of -step the operator uses
    Environment,       \* settings (LOCAL_MODE and SIMULATED_TEE, "" if unset, keys, URLs) and
                       \* what is at the address of FlareTeeManager
    Filter,            \* the ids of -checks, or {} for all
    MaxExtensions,     \* bound: extensions registered
    MaxReports,        \* bound: reports
    MaxChanges,        \* bound: changes of services, funds and extension.env by hand
    MaxErrors          \* bound: RPC calls that fail

ASSUME VerifyAssumption ==
    /\ Step \subseteq {"deploy", "register", "services", "tee-version", "tee-machine", "test", "all"}
    /\ Environment \subseteq
          [localMode : STRING, key : BOOLEAN, ownerKey : BOOLEAN, proxyKey : BOOLEAN,
           simulated : STRING, proxies : BOOLEAN] \X {"zero", "empty", "deployed"}
    /\ {MaxExtensions, MaxReports, MaxChanges, MaxErrors} \subseteq Nat

VARIABLES
    \* external
    settings,        \* the environment variables, read but never written
    manager,         \* the address of FlareTeeManager: zero, without code, or deployed
    extensions,      \* registered extensions: sender, owner allowed, EVM keys supported
    file,            \* extension.env
    funded,          \* the deployer has MinDeployBalance
    up,              \* what answers: the extension's port and the proxies
    \* verify-deploy
    step,            \* -step, or "none" before the first report
    withConfig,      \* -config was given
    queue,           \* checks still to be made
    env,             \* extension.env as the registration checks parsed it
    counter,         \* nextPublicExtensionId as R1 read it
    report,          \* results so far
    disturbed,       \* history: the deployment was not in order, or changed, or a call failed
    reports, changes, errors

worldVars == <<settings, manager, extensions, file, funded, up>>
toolVars == <<step, withConfig, queue, env, counter, report>>
boundVars == <<reports, changes, errors>>
vars == <<worldVars, toolVars, disturbed, boundVars>>

Missing == 0
Malformed == -1
Address == 1..(MaxExtensions + 1)
NoFile == [exists |-> FALSE, id |-> Missing, sender |-> Missing]
Env(id, sender) == [exists |-> TRUE, id |-> id, sender |-> sender]

wellFormed(value) == value \notin {Missing, Malformed}
registered(id) == id \in DOMAIN extensions

\* What the checks look for: the configured extension is registered with the configured
\* sender, and pre-build's steps on it took effect.
SetUp(f) ==
    /\ registered(f.id)
    /\ extensions[f.id].sender = f.sender
    /\ extensions[f.id].owner /\ extensions[f.id].evm

InOrder == manager = "deployed" /\ funded /\ file.exists /\ SetUp(file)

Init ==
    /\ \E e \in Environment : settings = e[1] /\ manager = e[2]
    /\ extensions = <<>>
    /\ file = NoFile
    /\ funded = TRUE
    /\ up = {}
    /\ step = "none" /\ withConfig = FALSE
    /\ queue = <<>>
    /\ env = NoFile
    /\ counter = 0
    /\ report = {}
    /\ disturbed = TRUE
    /\ reports = 0 /\ changes = 0 /\ errors = 0

-----------------------------------------------------------------------------
(* The checks.  Each returns the results it adds; ok: its RPC call succeeded. *)

is(id, status) == {[id |-> id, status |-> status]}
passIf(id, condition, otherwise) == is(id, IF condition THEN "PASS" ELSE otherwise)

localMode == settings.localMode \in {"true", ""}

\* A value of extension.env that has to be there and match its regular expression.
formatted(id, value) == passIf(id, wellFormed(value), "FAIL")

AddressNotZero == passIf("D3", manager # "zero", "FAIL")
AddressHasCode(ok) ==
    IF manager = "zero" THEN {} ELSE passIf("D1", ok /\ manager = "deployed", "FAIL")
CheckDeployerKeySource == passIf("D5", settings.key \/ localMode, "WARN")
KeyHasFunds(ok) == passIf("D5", ok /\ funded, "FAIL")
checkChainID(ok) == passIf("D6", ok, "FAIL")
CheckExtensionEnvFormat ==
    IF ~withConfig THEN {}
    ELSE IF ~file.exists THEN is("D7", "SKIP")
    ELSE formatted("D7", file.id) \cup formatted("D7", file.sender)

nextExtensionId(ok) ==
    IF ~ok THEN is("R1", "FAIL") ELSE passIf("R1", Len(extensions) > 0, "WARN")
extensionIdFormat == IF wellFormed(env.id) THEN {} ELSE is("R2", "FAIL")
senderMatches_Registered(ok) ==
    IF ~wellFormed(env.sender) THEN {} ELSE passIf("R2", ok /\ registered(env.id), "FAIL")
senderMatches(ok) ==
    IF ~wellFormed(env.sender) THEN {}
    ELSE passIf("R2", ok /\ registered(env.id) /\ extensions[env.id].sender = env.sender, "FAIL")
machineOwnerAllowed(ok) ==
    passIf("R3", ok /\ registered(env.id) /\ extensions[env.id].owner, "FAIL")
keyTypeSupported(ok) ==
    passIf("R4", ok /\ registered(env.id) /\ extensions[env.id].evm, "FAIL")
\* Extensions up to the counter that R1 read.
senderUnique_Fails ==
    LET using == {i \in 1..counter : extensions[i].sender = env.sender}
    IN  IF counter = 0 \/ ~wellFormed(env.sender) THEN {}
        ELSE passIf("R7", using = {env.id}, "FAIL")
senderUnique ==
    LET using == {i \in 1..counter : extensions[i].sender = env.sender}
    IN  IF counter = 0 \/ ~wellFormed(env.sender) THEN {}
        ELSE passIf("R7", Cardinality(using) <= 1, "WARN")

\* GET /info of a proxy whose URL may not be configured.
reachable(id, proxy) ==
    IF ~settings.proxies THEN is(id, "SKIP") ELSE passIf(id, proxy \in up, "WARN")

extensionIdSet == IF ~withConfig THEN is("S2", "SKIP") ELSE formatted("S2", file.id)
portNotInUse == passIf("S5", "extension" \notin up, "WARN")
portConfiguration == is("S7", "PASS")
proxyKeySet == passIf("S10", settings.localMode # "false" \/ settings.proxyKey, "WARN")

extensionOwnerKey == passIf("V2", settings.ownerKey \/ settings.key \/ localMode, "WARN")
extensionIdValid ==
    IF ~withConfig \/ ~file.exists THEN is("V4", "SKIP") ELSE formatted("V4", file.id)

simulatedTee_Local == is("T1", "PASS")
simulatedTee == passIf("T1", ~(settings.simulated = "true" /\ settings.localMode = "false"), "WARN")

instructionSenderValid ==
    IF ~withConfig \/ ~file.exists THEN is("E1", "SKIP") ELSE formatted("E1", file.sender)
alignmentInfo == is("E6", "PASS")

DeployChecks == <<"D3", "D1", "D5key", "D5funds", "D6", "D7">>
RegistrationChecks == <<"parse", "R1", "format", "R2", "R3", "R4", "R7">>
ServicesChecks == <<"S2", "S5", "S7", "S9", "S10">>
TeeVersionChecks == <<"V2", "V4", "V6">>
TeeMachineChecks == <<"T1", "T5", "T10">>
TestChecks == <<"E1", "E3", "E6">>

\* The checks that call the chain.
Calls == {"D1", "D5funds", "D6", "R1", "R2", "R3", "R4"}

results(check, ok) ==
    CASE check = "D3" -> AddressNotZero
      [] check = "D1" -> AddressHasCode(ok)
      [] check = "D5key" -> CheckDeployerKeySource
      [] check = "D5funds" -> KeyHasFunds(ok)
      [] check = "D6" -> checkChainID(ok)
      [] check = "D7" -> CheckExtensionEnvFormat
      [] check = "R1" -> nextExtensionId(ok)
      [] check = "R2" -> senderMatches(ok)
      [] check = "R3" -> machineOwnerAllowed(ok)
      [] check = "R4" -> keyTypeSupported(ok)
      [] check = "R7" -> senderUnique
      [] check = "S2" -> extensionIdSet
      [] check = "S5" -> portNotInUse
      [] check = "S7" -> portConfiguration
      [] check = "S10" -> proxyKeySet
      [] check \in {"S9", "V6", "T10", "E3"} -> reachable(check, "proxy")
      [] check = "V2" -> extensionOwnerKey
      [] check = "V4" -> extensionIdValid
      [] check = "T1" -> simulatedTee
      [] check = "T5" -> reachable(check, "normal proxy")
      [] check = "E1" -> instructionSenderValid
      [] check = "E6" -> alignmentInfo

-----------------------------------------------------------------------------
(* The command *)

checksOf(s) ==
    CASE s = "deploy" -> DeployChecks
      [] s = "register" -> RegistrationChecks
      [] s = "services" -> ServicesChecks
      [] s = "tee-version" -> TeeVersionChecks
      [] s = "tee-machine" -> TeeMachineChecks
      [] s = "test" -> TestChecks
      [] s = "all" -> DeployChecks \o RegistrationChecks \o ServicesChecks \o TeeVersionChecks
                      \o TeeMachineChecks \o TestChecks

Start ==
    /\ queue = <<>>
    /\ reports < MaxReports /\ reports' = reports + 1
    /\ \E s \in Step, config \in BOOLEAN :
         /\ step' = s /\ withConfig' = config
         /\ queue' = checksOf(s)
    /\ env' = NoFile /\ counter' = 0 /\ report' = {}
    /\ disturbed' = ~InOrder
    /\ UNCHANGED <<worldVars, changes, errors>>

\* -checks hides the results of the other checks once all are made.
shown(all, left) == IF left = <<>> /\ Filter # {} THEN {r \in all : r.id \in Filter} ELSE all

add(new, left) == queue' = left /\ report' = shown(report \cup new, left)

\* What is left when the registration checks return early.
afterRegistration(left) ==
    SubSeq(left,
           Min({i \in 1..(Len(left) + 1) :
                  i \in 1..Len(left) => left[i] \notin {"R1", "format", "R2", "R3", "R4", "R7"}}),
           Len(left))

\* The registration checks read extension.env once, and end here if it has nothing.
parseExtensionEnv ==
    /\ queue # <<>> /\ Head(queue) = "parse"
    /\ IF ~withConfig \/ (file.id = Missing /\ file.sender = Missing)
       THEN /\ add(is("R1-R7", "SKIP"), afterRegistration(Tail(queue)))
            /\ UNCHANGED env
       ELSE /\ add({}, Tail(queue))
            /\ env' = file
    /\ UNCHANGED <<worldVars, step, withConfig, counter, disturbed, boundVars>>

\* A malformed id is the end of the registration checks.
ExtensionIdFormat ==
    /\ queue # <<>> /\ Head(queue) = "format"
    /\ add(extensionIdFormat,
           IF wellFormed(env.id) THEN Tail(queue) ELSE afterRegistration(Tail(queue)))
    /\ UNCHANGED <<worldVars, step, withConfig, env, counter, disturbed, boundVars>>

Check(ok) ==
    /\ queue # <<>> /\ Head(queue) \notin {"parse", "format"}
    /\ \/ ok /\ UNCHANGED <<errors, disturbed>>
       \/ /\ ~ok /\ Head(queue) \in Calls
          /\ errors < MaxErrors /\ errors' = errors + 1
          /\ disturbed' = TRUE
    /\ add(results(Head(queue), ok), Tail(queue))
    /\ counter' = IF Head(queue) = "R1" /\ ok THEN Len(extensions) ELSE counter
    /\ UNCHANGED <<worldVars, step, withConfig, env, reports, changes>>

-----------------------------------------------------------------------------
(* External: pre-build, the operator and the services *)

\* pre-build, in its order: a new extension, its rights, the config.  (Deployment has
\* the tool; --force mints again, and a sender may be given to another extension.)
Mint ==
    /\ Len(extensions) < MaxExtensions
    /\ \E sender \in 1..(Len(extensions) + 1) :
         extensions' = Append(extensions, [sender |-> sender, owner |-> FALSE, evm |-> FALSE])
    /\ UNCHANGED <<file, disturbed>>
AllowOwner ==
    /\ \E e \in DOMAIN extensions : extensions' = [extensions EXCEPT ![e].owner = TRUE]
    /\ UNCHANGED <<file, disturbed>>
SupportKeyType ==
    /\ \E e \in DOMAIN extensions :
         extensions[e].owner /\ extensions' = [extensions EXCEPT ![e].evm = TRUE]
    /\ UNCHANGED <<file, disturbed>>
WriteFile ==
    /\ \E e \in DOMAIN extensions :
         extensions[e].evm /\ file' = Env(e, extensions[e].sender)
    /\ disturbed' = TRUE
    /\ UNCHANGED extensions

\* The deployer pays for transactions; services start and stop.
SpendFunds == funded /\ funded' = FALSE /\ disturbed' = TRUE /\ UNCHANGED <<file, up>>
ServiceChanges ==
    /\ \E service \in {"extension", "proxy", "normal proxy"} :
         up' = IF service \in up THEN up \ {service} ELSE up \cup {service}
    /\ UNCHANGED <<file, funded, disturbed>>

\* The operator deletes or edits the file, between reports.
EditFile ==
    /\ queue = <<>>
    /\ \/ file' = NoFile
       \/ \E id \in {Missing, Malformed} \cup Address, sender \in {Missing, Malformed} \cup Address :
            file' = Env(id, sender)
    /\ step' = "none"
    /\ UNCHANGED <<funded, up, disturbed>>

PreBuild ==
    /\ Mint \/ AllowOwner \/ SupportKeyType \/ WriteFile
    /\ UNCHANGED <<settings, manager, funded, up, toolVars, boundVars>>

Operator ==
    /\ changes < MaxChanges /\ changes' = changes + 1
    /\ \/ (SpendFunds \/ ServiceChanges) /\ UNCHANGED step
       \/ EditFile
    /\ UNCHANGED <<settings, manager, extensions, withConfig, queue, env, counter, report, reports, errors>>

VerifyStep == Start \/ parseExtensionEnv \/ ExtensionIdFormat \/ \E ok \in BOOLEAN : Check(ok)

Next == VerifyStep \/ PreBuild \/ Operator

Spec == Init /\ [][Next]_vars

-----------------------------------------------------------------------------
(* Properties *)

Finished == queue = <<>> /\ step # "none"
HasFailures == \E r \in report : r.status = "FAIL"

(***************************************************************************)
(* RegisterRegistrationChecks within a full report: verify-deploy exits    *)
(* with 0 only if the extension that extension.env names is registered     *)
(* with its sender and set up, although the file is read five times, the   *)
(* registration checks are skipped when it is not there yet, and pre-build *)
(* may be at any step while the report is made.                            *)
(***************************************************************************)
CleanReportIsSetUp ==
    Finished /\ step = "all" /\ withConfig /\ ~HasFailures => SetUp(file)

(***************************************************************************)
(* A deployment that is in order, and that nothing disturbs while a step's *)
(* checks run, is never reported as failed, whatever extensions others     *)
(* register and services do.                                               *)
(***************************************************************************)
NoFalseAlarm == Finished /\ ~disturbed => ~HasFailures

(***************************************************************************)
(* What a full report without a warning says of development settings: D5   *)
(* (and so V2) that no development key deploys, for every LOCAL_MODE but   *)
(* "true" and unset; S10 that the proxy has its key, and T1 that           *)
(* SIMULATED_TEE is not "true", for LOCAL_MODE=false and for no other      *)
(* value.  T1 takes SIMULATED_TEE for false when it is not set, as         *)
(* register-tee does and post-build.sh does not.                           *)
(***************************************************************************)
NoDevelopmentSettings ==
    Finished /\ step = "all" /\ (\A r \in report : r.status # "WARN") =>
       /\ ~localMode => settings.key
       /\ settings.localMode = "false" => settings.proxyKey /\ settings.simulated # "true"
=============================================================================
