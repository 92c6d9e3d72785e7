------------------------------ MODULE Machines ------------------------------
(***************************************************************************)
(* The TEE machine behind the proxy, Flare's registry of machines, the     *)
(* signer that QuietVault names and the deployment manifest; the           *)
(* operator's scripts that bring them together after the workload has      *)
(* moved to a new identity; and the relayer's readiness check.             *)
(*                                                                         *)
(* The signer is what the scripts and the readiness check go by.  A        *)
(* settlement may be signed by any machine in production                   *)
(* (QuietVault.isAuthorizedTeeSigner), which is not modelled.              *)
(*                                                                         *)
(* register-machine.mjs runs the other scripts one after the other, each   *)
(* with retries; it may fail, or be stopped, between any two of its        *)
(* steps, and be run again from the start.  The registry is external.      *)
(***************************************************************************)
EXTENDS Integers, FiniteSets, Sequences

CONSTANTS
  Identities,  \* the identities the workload has, one after the other
  Foreign,     \* machines of this extension with another owner
  None,        \* no identity
  Attempts,    \* how often the configuration is tried in a run; four in the code
  MaxFaults    \* bound on failures and interruptions of the scripts

Own == {Identities[i] : i \in DOMAIN Identities}
Machines == Own \cup Foreign

\* Every start of the workload makes a fresh key, which is its identity.
ASSUME ConstantsAssumption ==
  /\ Identities \in Seq(Own) /\ Identities # <<>>
  /\ \A i, j \in DOMAIN Identities : Identities[i] = Identities[j] => i = j
  /\ Own \cap Foreign = {} /\ None \notin Machines
  /\ Attempts \in Nat \ {0} /\ MaxFaults \in Nat

VARIABLES
  host,      \* how many identities the workload has had
  status,    \* the registry
  signer,    \* QuietVault.activeTeeSigner
  manifest,  \* teeSigner in the deployment manifest
  pc,        \* where the script is
  id,        \* the identity the script has read
  tries,     \* attempts of the configuration in this run of the script
  todo,      \* the stale machines it has listed and not paused
  check,     \* the reads of assertFccReady
  agreed,    \* the machines the vault and the registry agreed on since the check began
  late,      \* a machine was promoted between the list and the last status of the check
  manual,    \* the operator also runs the single scripts
  faults

registry == <<host, status>>
script == <<id, tries>>
vars == <<host, status, signer, manifest, pc, id, tries, todo, check, agreed, late, manual,
          faults>>

-----------------------------------------------------------------------------
Running == Identities[host]

Active == {m \in Machines : status[m] = "production"}

\* The machine that the vault names, if it is alone in the registry.
Agreement == {m \in Machines : m = signer /\ Active = {m}}

\* A readiness check: the answers it has, those of the machines it has listed that it
\* found in production, and the listed machines whose status it has not read.
NoCheck == [machine |-> None, signer |-> None, active |-> {}, left |-> {}, done |-> {}]

Init ==
  /\ host = 1
  /\ \E F \in SUBSET Foreign :
       status = [m \in Machines |-> IF m \in F THEN "registered"
                                    ELSE IF m = Running THEN "production" ELSE "unknown"]
  /\ manual \in BOOLEAN
  /\ signer = Running
  /\ manifest = Running
  /\ pc = "idle" /\ id = None /\ tries = 1 /\ todo = {}
  /\ check = NoCheck
  /\ agreed = {} /\ late = FALSE
  /\ faults = 0

-----------------------------------------------------------------------------
\* register-machine.mjs

\* The proxy is stable; the TEE version and the governance are set in the registry,
\* which the rest does not depend on here.
Start ==
  /\ pc \in {"idle", "done"}
  /\ pc' = "check"
  /\ tries' = 1
  /\ UNCHANGED <<registry, signer, manifest, id, todo, check, faults>>

\* Faulty: any machine in production will do.
FaultyCheckProduction ==
  /\ pc = "check"
  /\ pc' = IF Active # {} THEN "configure" ELSE "register"
  /\ UNCHANGED <<registry, signer, manifest, script, todo, check, faults>>

\* machineIsProduction
CheckProduction ==
  /\ pc = "check"
  /\ pc' = IF Running \in Active THEN "configure" ELSE "register"
  /\ UNCHANGED <<registry, signer, manifest, script, todo, check, faults>>

\* register-tee waits until the machine it has registered is promoted.
RegisterTee ==
  /\ pc = "register"
  /\ id' = Running
  /\ status' = [status EXCEPT ![Running] = IF @ = "unknown" THEN "registered" ELSE @]
  /\ pc' = "registering"
  /\ UNCHANGED <<host, signer, manifest, tries, todo, check, faults>>

Registered ==
  /\ pc = "registering" /\ id \in Active
  /\ pc' = "configure"
  /\ UNCHANGED <<registry, signer, manifest, script, todo, check, faults>>

\* The command fails for good: the machine may be in production all the same.
RegisterFails ==
  /\ pc \in {"register", "registering"} /\ faults < MaxFaults
  /\ faults' = faults + 1
  /\ pc' = IF Running \in Active THEN "configure" ELSE "idle"
  /\ UNCHANGED <<registry, signer, manifest, script, todo, check>>

\* configure-extension.ts: the signer is set before the code hash is looked at and
\* the manifest is written.
ReadInfo ==
  /\ pc = "configure"
  /\ id' = Running
  /\ pc' = "signer"
  /\ UNCHANGED <<registry, signer, manifest, tries, todo, check, faults>>

\* The vault takes only a machine in production (QuietVault.setTeeSigner).
SetTeeSigner ==
  /\ pc = "signer" /\ id \in Active \cup {signer}
  /\ signer' = id
  /\ pc' = "manifest"
  /\ UNCHANGED <<registry, manifest, script, todo, check, faults>>

\* runWithRetry: a command that fails is run again from its own start; the last time
\* the script stops.
Retry == IF tries < Attempts THEN pc' = "configure" /\ tries' = tries + 1
                             ELSE pc' = "idle" /\ tries' = tries

SetTeeSignerReverts ==
  /\ pc = "signer" /\ id \notin Active \cup {signer}
  /\ Retry
  /\ UNCHANGED <<registry, signer, manifest, id, todo, check, faults>>

WriteDeployment ==
  /\ pc = "manifest"
  /\ manifest' = id
  /\ pc' = "verify"
  /\ UNCHANGED <<registry, signer, script, todo, check, faults>>

ConfigureFails ==
  /\ pc \in {"configure", "signer", "manifest"} /\ faults < MaxFaults
  /\ faults' = faults + 1
  /\ Retry
  /\ UNCHANGED <<registry, signer, manifest, id, todo, check>>

\* verify-deployment.ts
VerifyDeployment ==
  /\ pc = "verify"
  /\ pc' = IF signer = manifest THEN "retire" ELSE "idle"
  /\ UNCHANGED <<registry, signer, manifest, script, todo, check, faults>>

-----------------------------------------------------------------------------
\* retire-stale-machines.mjs

\* Faulty: the stale machines are those that are not running.
FaultyStale == Active \ {Running}

Stale == Active \ {manifest}

MayRetire == manifest \in Active

ListActive ==
  /\ pc = "retire"
  /\ IF MayRetire THEN todo' = Stale /\ pc' = "pausing"
                  ELSE todo' = {} /\ pc' = "idle"
  /\ UNCHANGED <<registry, signer, manifest, script, check, faults>>

Pause(m) ==
  /\ pc = "pausing" /\ m \in todo
  /\ IF m \in Own
     THEN /\ status' = [status EXCEPT ![m] = "paused"]
          /\ todo' = todo \ {m}
          /\ UNCHANGED pc
     ELSE /\ pc' = "idle" /\ todo' = {}
          /\ UNCHANGED status
  /\ UNCHANGED <<host, signer, manifest, script, check, faults>>

\* Faulty: the remaining machines are not read again.
FaultyRemaining == {manifest}

Remaining == Active

OneActive ==
  /\ pc = "pausing" /\ todo = {}
  /\ pc' = IF Remaining = {manifest} THEN "done" ELSE "idle"
  /\ UNCHANGED <<registry, signer, manifest, script, todo, check, faults>>

\* The script is stopped between two steps.
Stop ==
  /\ pc \notin {"idle", "done"} /\ faults < MaxFaults
  /\ faults' = faults + 1
  /\ pc' = "idle" /\ todo' = {}
  /\ UNCHANGED <<registry, signer, manifest, script, check>>

-----------------------------------------------------------------------------
\* The single scripts, run by hand

RetireAlone ==
  /\ manual /\ pc \in {"idle", "done"}
  /\ pc' = "retire"
  /\ UNCHANGED <<registry, signer, manifest, script, todo, check, faults>>

\* pause-stale-machine.mjs refuses the manifest's signer and what is not its own.
PauseStale(m) ==
  /\ manual /\ pc \in {"idle", "done"}
  /\ m \in Own \cap Active /\ m # manifest
  /\ status' = [status EXCEPT ![m] = "paused"]
  /\ UNCHANGED <<host, signer, manifest, pc, script, todo, check, faults>>

\* The check of preflight.mjs.
Preflight == Active = {manifest}

-----------------------------------------------------------------------------
\* The environment: data providers promote a registered machine, and the workload
\* starts on a new host with a fresh identity.
Promote(m) ==
  /\ status[m] = "registered"
  /\ status' = [status EXCEPT ![m] = "production"]
  /\ UNCHANGED <<host, signer, manifest, pc, script, todo, check, faults>>

HostMoves ==
  /\ host < Len(Identities)
  /\ host' = host + 1
  /\ UNCHANGED <<status, signer, manifest, pc, script, todo, check, faults>>

-----------------------------------------------------------------------------
\* assertFccReady: three reads in any order, then the comparison.  The third lists the
\* machines in production and then asks for the status of each.

Sides == {"machine", "signer", "list"}

ReadMachine ==
  /\ "machine" \notin check.done
  /\ check' = [check EXCEPT !.machine = Running, !.done = @ \cup {"machine"}]

ReadSigner ==
  /\ "signer" \notin check.done
  /\ check' = [check EXCEPT !.signer = signer, !.done = @ \cup {"signer"}]

ReadList ==
  /\ "list" \notin check.done
  /\ check' = [check EXCEPT !.left = Active, !.done = @ \cup {"list"}]

\* getTeeMachineStatus; only the machines in production count.
ReadStatus(m) ==
  /\ m \in check.left
  /\ check' = [check EXCEPT !.left = @ \ {m}, !.active = @ \cup ({m} \cap Active)]

ReadSide == /\ \/ ReadMachine \/ ReadSigner \/ ReadList
               \/ \E m \in Machines : ReadStatus(m)
            /\ UNCHANGED <<registry, signer, manifest, pc, script, todo, faults>>

Answered == check.done = Sides /\ check.left = {}

\* Faulty: any machine of the registry will do.
FaultyReady == Answered /\ check.machine = check.signer /\ check.signer \in check.active

Ready == Answered /\ check.machine = check.signer /\ check.active = {check.signer}

\* The next request is checked anew.
NewCheck ==
  /\ Answered
  /\ check' = NoCheck
  /\ UNCHANGED <<registry, signer, manifest, pc, script, todo, faults>>

-----------------------------------------------------------------------------
Script ==
  \/ Start \/ CheckProduction \/ RegisterTee \/ Registered
  \/ ReadInfo \/ SetTeeSigner \/ SetTeeSignerReverts \/ WriteDeployment \/ VerifyDeployment
  \/ ListActive \/ OneActive
  \/ \E m \in Machines : Pause(m)

Step ==
  \/ Script \/ RegisterFails \/ ConfigureFails \/ Stop
  \/ RetireAlone
  \/ \E m \in Machines : PauseStale(m) \/ Promote(m)
  \/ HostMoves
  \/ ReadSide \/ NewCheck

\* agreed and late are a history of what was true since the first read of the check.
Remember ==
  /\ agreed' = IF check'.done = {} THEN {} ELSE agreed \cup Agreement \cup Agreement'
  /\ late' = (check'.done # {} /\ (late \/ (check.left # {} /\ Active' \ Active # {})))

Next == Step /\ Remember /\ UNCHANGED manual

Spec == Init /\ [][Next]_vars

\* The operator runs the script until it ends well, and registered machines are
\* promoted.
FairSpec ==
  /\ Spec
  /\ WF_vars(Script /\ Remember /\ UNCHANGED manual)
  /\ \A m \in Machines : WF_vars(Promote(m) /\ Remember /\ UNCHANGED manual)

-----------------------------------------------------------------------------
ScriptStates == {"idle", "check", "register", "registering", "configure", "signer",
                 "manifest", "verify", "retire", "pausing", "done"}

\* The variables have their types; a machine that is listed as stale is not the
\* manifest's, nor is a paused machine one of another owner.
TypeOK ==
  /\ host \in 1..Len(Identities)
  /\ status \in [Machines -> {"unknown", "registered", "production", "paused"}]
  /\ signer \in Own /\ manifest \in Own
  /\ pc \in ScriptStates
  /\ id \in Own \cup {None} /\ tries \in 1..Attempts
  /\ todo \subseteq Machines \ {manifest}
  /\ \A m \in Foreign : status[m] # "paused"

\* When the script ends well, one machine is in production and it is the one that the
\* vault names, even if the workload has moved or an earlier run was interrupted
\* between the vault and the manifest (register-machine.mjs, verify-deployment.ts).
\* This and what follows is not so once the single scripts are run as well: they go by
\* the manifest, which an interrupted configuration leaves behind the vault.
CutoverComplete ==
  [][~manual /\ pc # "done" /\ pc' = "done" => Preflight' /\ manifest' = signer']_vars

\* The script never pauses the machine that the vault names (configure-extension.ts,
\* retire-stale-machines.mjs).
SignerNotPaused ==
  [][~manual /\ status[signer] # "paused" => status'[signer] # "paused"]_vars

\* The machine that the vault names is in production at every moment of a cutover: the
\* new one is promoted before it is named, the old one is paused after that
\* (QuietVault.setTeeSigner, retire-stale-machines.mjs).
SignerActive == ~manual => signer \in Active

\* Though the reads of a readiness check are apart, one that passes is true of the
\* contracts, unless a machine was promoted while the statuses were read: there was a
\* moment since it began when its machine was the vault's and the only one in
\* production (assertFccReady, fccMachineState).  A machine promoted after the list was
\* read is not in it, and the check may pass though it never was alone.  Nor is it true
\* of the host: the workload may have moved since its machine answered.
ReadyWasAgreed == ~manual /\ Ready => check.signer \in agreed \/ late

\* What the vault and the registry say stays usable throughout a cutover, and the
\* relayer's check reports nothing else (retire-stale-machines.mjs, assertFccReady).
CutoverInvariant == TypeOK /\ SignerActive /\ ReadyWasAgreed

\* Whatever moves and failures there were, the service comes back: the machine that
\* runs is the only one in production and the one the vault names.  (A machine of
\* another owner in production stops the script for good.)
ServiceReturns ==
  ~manual /\ (\A m \in Foreign : status[m] = "unknown") => <>[](Running \in Agreement)

\* "The TEE signer becomes immutable after configuration": the vault keeps the signer it
\* was configured with (docs/SECURITY_AND_PRIVACY.md:46).  The code lets the administrator set
\* it again, and register-machine.mjs does (QuietVault.setTeeSigner).
SignerImmutable == [][signer' = signer]_vars

=============================================================================
