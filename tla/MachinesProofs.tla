--------------------------- MODULE MachinesProofs ---------------------------
(***************************************************************************)
(* Theorems of Machines, for any number of identities and of machines of   *)
(* other owners, any number of attempts and any number of failures.        *)
(*                                                                         *)
(* The argument: the vault names only a machine in production, and the     *)
(* machines that are paused are those the manifest does not name, once the *)
(* manifest was found to name the vault's signer.  So the signer is always *)
(* in production.  While no machine is promoted, those in production are   *)
(* among the ones a readiness check has listed; when it has read the last  *)
(* status and found one in production, that one is the signer, alone.      *)
(***************************************************************************)
EXTENDS Machines, TLAPS

Check == [machine : Own \cup {None}, signer : Own \cup {None}, active : SUBSET Machines,
          left : SUBSET Machines, done : SUBSET Sides]

Typed ==
  /\ TypeOK
  /\ check \in Check
  /\ check.left # {} => "list" \in check.done
  /\ pc \in {"registering", "signer", "manifest"} => id \in Own
  /\ pc # "pausing" => todo = {}

Retiring == pc \in {"retire", "pausing"} => signer = manifest

\* What the list of a check still covers, and what its statuses have shown.
ListCovers ==
  "list" \in check.done /\ ~late /\ check.left # {}
    => Active \subseteq check.left \cup check.active

StatusesShow ==
  "list" \in check.done /\ ~late /\ check.left = {}
    => \A m \in Machines : check.active = {m} => m \in agreed

Reads == ListCovers /\ StatusesShow

ByScript == signer \in Active /\ Retiring /\ Reads

IInv == Typed /\ (~manual => ByScript)

-----------------------------------------------------------------------------
LEMMA Indices ==
  /\ DOMAIN Identities = 1..Len(Identities) /\ Len(Identities) \in Nat /\ Len(Identities) >= 1
  /\ \A k \in 1..Len(Identities) : Identities[k] \in Own
  /\ \A i, j \in 1..Len(Identities) : Identities[i] = Identities[j] => i = j
BY ConstantsAssumption

LEMMA RunningIsOwn ==
  ASSUME Typed
  PROVE  Running \in Own /\ Running \in Machines /\ host \in 1..Len(Identities)
BY Indices DEF Typed, TypeOK, Running, Machines

LEMMA InitIsTyped == Init => Typed
<1> SUFFICES ASSUME Init PROVE Typed
  OBVIOUS
<1>1. host \in 1..Len(Identities) /\ Running \in Own
  BY Indices DEF Init, Running
<1>2. Own \cap Foreign = {} /\ Machines = Own \cup Foreign
  BY ConstantsAssumption DEF Machines
<1>3. PICK F \in SUBSET Foreign :
        status = [m \in Machines |-> IF m \in F THEN "registered"
                                     ELSE IF m = Running THEN "production" ELSE "unknown"]
  BY DEF Init
<1>4. status \in [Machines -> {"unknown", "registered", "production", "paused"}]
      /\ \A m \in Foreign : status[m] # "paused"
  BY <1>2, <1>3
<1>5. check \in Check
  BY DEF Init, NoCheck, Check
<1> QED
  BY <1>1, <1>4, <1>5, ConstantsAssumption DEF Init, NoCheck, Typed, TypeOK, ScriptStates

\* A read of the readiness check, or its end, changes only what the check has read.
LEMMA ReadSideTypes ==
  ASSUME Typed, ReadSide \/ NewCheck
  PROVE  check' \in Check /\ (check'.left # {} => "list" \in check'.done)
<1>1. /\ check \in Check /\ (check.left # {} => "list" \in check.done)
      /\ signer \in Own /\ Active \in SUBSET Machines
  BY DEF Typed, TypeOK, Active
<1>2. Running \in Own
  BY RunningIsOwn
<1>3. CASE ReadMachine
  BY <1>1, <1>2, <1>3 DEF ReadMachine, Check, Sides
<1>4. CASE ReadSigner
  BY <1>1, <1>4 DEF ReadSigner, Check, Sides
<1>5. CASE ReadList
  BY <1>1, <1>5 DEF ReadList, Check, Sides
<1>6. CASE \E m \in Machines : ReadStatus(m)
  <2>1. PICK m \in Machines : ReadStatus(m)
    BY <1>6
  <2> QED
    BY <1>1, <2>1 DEF ReadStatus, Check
<1>7. CASE NewCheck
  BY <1>7 DEF NewCheck, NoCheck, Check
<1> QED
  BY <1>3, <1>4, <1>5, <1>6, <1>7 DEF ReadSide

LEMMA StepIsTyped ==
  ASSUME Typed, Step
  PROVE  Typed'
<1> USE DEF Typed, TypeOK, ScriptStates, registry, script
<1>1. CASE Start \/ CheckProduction \/ Registered \/ VerifyDeployment \/ RegisterFails
           \/ Stop \/ RetireAlone
  BY <1>1, ConstantsAssumption
  DEF Start, CheckProduction, Registered, VerifyDeployment, RegisterFails, Stop, RetireAlone
<1>2. CASE RegisterTee
  <2>1. Running \in Own /\ Running \in Machines /\ Running \notin Foreign
    BY RunningIsOwn, ConstantsAssumption
  <2> QED
    BY <1>2, <2>1 DEF RegisterTee
<1>3. CASE ReadInfo
  BY <1>3, RunningIsOwn DEF ReadInfo
<1>4. CASE SetTeeSigner
  BY <1>4 DEF SetTeeSigner
<1>13. CASE SetTeeSignerReverts \/ ConfigureFails
  <2>1. pc' \in {"configure", "idle"} /\ tries' \in 1..Attempts
    BY <1>13, ConstantsAssumption DEF SetTeeSignerReverts, ConfigureFails, Retry
  <2>2. UNCHANGED <<host, status, signer, manifest, id, todo, check>> /\ pc # "pausing"
    BY <1>13 DEF SetTeeSignerReverts, ConfigureFails
  <2> QED
    BY <2>1, <2>2
<1>5. CASE WriteDeployment
  BY <1>5 DEF WriteDeployment
<1>6. CASE ListActive
  BY <1>6 DEF ListActive, Stale, Active
<1>7. CASE OneActive
  BY <1>7 DEF OneActive
<1>8. ASSUME NEW m \in Machines, Pause(m) PROVE Typed'
  <2>1. CASE m \in Own
    <3>1. /\ status' = [status EXCEPT ![m] = "paused"] /\ todo' = todo \ {m}
          /\ UNCHANGED <<host, signer, manifest, pc, id, tries, check>> /\ m \notin Foreign
      BY <1>8, <2>1, ConstantsAssumption DEF Pause
    <3> QED
      BY <3>1, <1>8 DEF Pause
  <2>2. CASE m \notin Own
    BY <1>8, <2>2 DEF Pause
  <2> QED
    BY <2>1, <2>2
<1>9. ASSUME NEW m \in Machines, PauseStale(m) PROVE Typed'
  BY <1>9, ConstantsAssumption DEF PauseStale
<1>10. ASSUME NEW m \in Machines, Promote(m) PROVE Typed'
  BY <1>10 DEF Promote
<1>11. CASE HostMoves
  BY <1>11, Indices DEF HostMoves
<1>12. CASE ReadSide \/ NewCheck
  <2>1. check' \in Check /\ (check'.left # {} => "list" \in check'.done)
    BY <1>12, ReadSideTypes
  <2>2. UNCHANGED <<host, status, signer, manifest, pc, id, tries, todo>>
    BY <1>12 DEF ReadSide, NewCheck
  <2> QED
    BY <2>1, <2>2
<1> QED
  BY <1>1, <1>2, <1>3, <1>4, <1>5, <1>6, <1>7, <1>8, <1>9, <1>10, <1>11, <1>12, <1>13
  DEF Step, Script

-----------------------------------------------------------------------------
(***************************************************************************)
(* The script alone                                                        *)
(***************************************************************************)
\* A machine that is paused is neither the manifest's nor the signer's.
LEMMA PauseSpares ==
  ASSUME Typed, Retiring, NEW m \in Machines, Pause(m)
  PROVE  /\ m # signer /\ UNCHANGED signer
         /\ Active \ {m} \subseteq Active' /\ Active' \subseteq Active
<1>1. m # signer /\ UNCHANGED signer
  BY DEF Typed, TypeOK, Retiring, Pause
<1>2. status \in [Machines -> {"unknown", "registered", "production", "paused"}]
  BY DEF Typed, TypeOK
<1>3. status' = status \/ status' = [status EXCEPT ![m] = "paused"]
  BY DEF Pause
<1>4. Active \ {m} \subseteq Active' /\ Active' \subseteq Active
  BY <1>2, <1>3 DEF Active
<1> QED
  BY <1>1, <1>4

\* The machine that the vault names is in production, and stays so.
LEMMA SignerStep ==
  ASSUME Typed, signer \in Active, Retiring, ~manual, Step
  PROVE  signer' \in Active'
<1>1. ASSUME NEW m \in Machines, Pause(m) PROVE signer' \in Active'
  BY <1>1, PauseSpares
<1>2. CASE RegisterTee
  BY <1>2 DEF RegisterTee, Active, Typed, TypeOK
<1>3. ASSUME NEW m \in Machines, Promote(m) PROVE signer' \in Active'
  BY <1>3 DEF Promote, Active, Typed, TypeOK
<1>4. CASE SetTeeSigner
  <2>1. status' = status /\ signer' \in Active
    BY <1>4 DEF SetTeeSigner, registry
  <2> QED
    BY <2>1 DEF Active
<1>5. CASE \/ Start \/ CheckProduction \/ Registered \/ ReadInfo \/ SetTeeSignerReverts
           \/ WriteDeployment \/ VerifyDeployment \/ ListActive \/ OneActive \/ RegisterFails
           \/ ConfigureFails \/ Stop \/ RetireAlone \/ HostMoves \/ ReadSide \/ NewCheck
  <2>1. UNCHANGED <<status, signer>>
    BY <1>5 DEF Start, CheckProduction, Registered, ReadInfo, SetTeeSignerReverts,
                WriteDeployment, VerifyDeployment, ListActive, OneActive, RegisterFails,
                ConfigureFails, Stop, RetireAlone, HostMoves, ReadSide, NewCheck, registry
  <2> QED
    BY <2>1 DEF Active
<1>6. ASSUME NEW m \in Machines, PauseStale(m) PROVE FALSE
  BY <1>6 DEF PauseStale
<1> QED
  BY <1>1, <1>2, <1>3, <1>4, <1>5, <1>6 DEF Step, Script

LEMMA RetiringStep ==
  ASSUME Typed, Retiring, ~manual, Step
  PROVE  Retiring'
<1>1. CASE VerifyDeployment
  BY <1>1 DEF VerifyDeployment, Retiring
<1>2. CASE \/ ListActive \/ HostMoves \/ ReadSide \/ NewCheck
           \/ \E m \in Machines : Pause(m) \/ Promote(m)
  <2>1. /\ UNCHANGED <<signer, manifest>>
        /\ pc' \in {"retire", "pausing"} => pc \in {"retire", "pausing"}
    BY <1>2 DEF ListActive, Pause, Promote, HostMoves, ReadSide, NewCheck, registry
  <2> QED
    BY <2>1 DEF Retiring
<1>3. CASE \/ Start \/ CheckProduction \/ RegisterTee \/ Registered \/ ReadInfo \/ SetTeeSigner
           \/ SetTeeSignerReverts \/ WriteDeployment \/ OneActive \/ RegisterFails
           \/ ConfigureFails \/ Stop
  <2>1. pc' \notin {"retire", "pausing"}
    BY <1>3 DEF Start, CheckProduction, RegisterTee, Registered, ReadInfo, SetTeeSigner,
                SetTeeSignerReverts, Retry, WriteDeployment, OneActive, RegisterFails,
                ConfigureFails, Stop
  <2> QED
    BY <2>1 DEF Retiring
<1>4. ~RetireAlone /\ \A m \in Machines : ~PauseStale(m)
  BY DEF RetireAlone, PauseStale
<1> QED
  BY <1>1, <1>2, <1>3, <1>4 DEF Step, Script

-----------------------------------------------------------------------------
(***************************************************************************)
(* The reads of a readiness check                                          *)
(***************************************************************************)
\* A check that has begun forgets nothing of what was agreed, and knows whether a
\* machine was promoted while it read the statuses.
LEMMA Remembered ==
  ASSUME Remember, check'.done # {}
  PROVE  /\ agreed \subseteq agreed'
         /\ \A m \in Machines : m = signer' /\ Active' = {m} => m \in agreed'
         /\ ~late' => ~late /\ (check.left # {} => Active' \subseteq Active)
<1>1. /\ agreed \subseteq agreed'
      /\ \A m \in Machines : m = signer' /\ Active' = {m} => m \in agreed'
  BY DEF Remember, Agreement
<1>2. ASSUME ~late' PROVE ~late /\ (check.left # {} => Active' \ Active = {})
  BY <1>2 DEF Remember
<1> QED
  BY <1>1, <1>2

LEMMA ReadsSpared ==
  ASSUME Typed, Reads, Remember, UNCHANGED check
  PROVE  Reads'
<1>1. ListCovers'
  BY Remembered DEF Reads, ListCovers
<1>2. StatusesShow'
  BY Remembered DEF Reads, StatusesShow
<1> QED
  BY <1>1, <1>2 DEF Reads

LEMMA ReadsMade ==
  ASSUME Typed, signer \in Active, Reads, ReadSide, Remember
  PROVE  Reads'
<1>1. UNCHANGED <<status, signer>> /\ check \in Check
  BY DEF ReadSide, registry, Typed
<1>2. Active' = Active
  BY <1>1 DEF Active
<1>3. CASE ReadMachine \/ ReadSigner
  <2>1. /\ UNCHANGED <<check.active, check.left>> /\ check'.done # {}
        /\ "list" \in check'.done <=> "list" \in check.done
    BY <1>1, <1>3 DEF ReadMachine, ReadSigner, Check
  <2> QED
    BY <1>2, <2>1, Remembered DEF Reads, ListCovers, StatusesShow
<1>4. CASE ReadList
  <2>1. check'.left = Active /\ Active # {}
    BY <1>1, <1>4 DEF ReadList, Check
  <2> QED
    BY <1>2, <2>1 DEF Reads, ListCovers, StatusesShow
<1>5. ASSUME NEW m \in Machines, ReadStatus(m) PROVE Reads'
  <2>1. /\ check'.left = check.left \ {m} /\ m \in check.left
        /\ check'.active = check.active \cup ({m} \cap Active)
        /\ check'.done = check.done
    BY <1>1, <1>5 DEF ReadStatus, Check
  <2>2. "list" \in check.done
    BY <2>1 DEF Typed
  <2>3. ~late' => ~late /\ Active \subseteq check.left \cup check.active
    BY <2>1, <2>2, Remembered DEF Reads, ListCovers
  <2>4. ~late' => Active' \subseteq check'.left \cup check'.active
    BY <1>2, <2>1, <2>3
  <2>5. ASSUME ~late', check'.left = {}, NEW n \in Machines, check'.active = {n}
        PROVE  n \in agreed'
    <3>1. Active' = {n} /\ n = signer'
      BY <1>1, <1>2, <2>4, <2>5
    <3> QED
      BY <2>1, <2>2, <3>1, Remembered
  <2> QED
    BY <2>4, <2>5 DEF Reads, ListCovers, StatusesShow
<1> QED
  BY <1>3, <1>4, <1>5 DEF ReadSide

LEMMA ReadsStep ==
  ASSUME Typed, signer \in Active, Reads, Step, Remember
  PROVE  Reads'
<1>1. CASE ReadSide
  BY <1>1, ReadsMade
<1>2. CASE NewCheck
  <2>1. check'.done = {}
    BY <1>2 DEF NewCheck, NoCheck
  <2> QED
    BY <2>1 DEF Reads, ListCovers, StatusesShow
<1>3. CASE ~ReadSide /\ ~NewCheck
  <2>1. UNCHANGED check
    BY <1>3 DEF Step, Script, Start, CheckProduction, RegisterTee, Registered, ReadInfo,
                SetTeeSigner, SetTeeSignerReverts, WriteDeployment, VerifyDeployment,
                ListActive, OneActive, Pause, RegisterFails, ConfigureFails, Stop,
                RetireAlone, PauseStale, Promote, HostMoves
  <2> QED
    BY <2>1, ReadsSpared
<1> QED
  BY <1>1, <1>2, <1>3

-----------------------------------------------------------------------------
LEMMA InitIsSafe == Init => IInv
<1> SUFFICES ASSUME Init PROVE IInv
  OBVIOUS
<1>1. Typed
  BY InitIsTyped
<1>2. Running \in Machines /\ Own \cap Foreign = {} /\ Running \in Own
  BY <1>1, RunningIsOwn, ConstantsAssumption
<1>3. PICK F \in SUBSET Foreign :
        status = [m \in Machines |-> IF m \in F THEN "registered"
                                     ELSE IF m = Running THEN "production" ELSE "unknown"]
  BY DEF Init
<1>4. signer \in Active
  BY <1>2, <1>3 DEF Init, Active
<1>5. Retiring /\ Reads
  BY DEF Init, NoCheck, Retiring, Reads, ListCovers, StatusesShow
<1> QED
  BY <1>1, <1>4, <1>5 DEF IInv, ByScript

LEMMA NextIsSafe == IInv /\ [Next]_vars => IInv'
<1> SUFFICES ASSUME IInv, [Next]_vars PROVE IInv'
  OBVIOUS
<1>1. CASE Next
  <2>1. Step /\ Remember /\ manual' = manual /\ Typed
    BY <1>1 DEF Next, IInv
  <2>2. Typed'
    BY <2>1, StepIsTyped
  <2>3. CASE ~manual
    <3>1. signer \in Active /\ Retiring /\ Reads
      BY <2>3 DEF IInv, ByScript
    <3>2. signer' \in Active' /\ Retiring' /\ Reads'
      BY <2>1, <2>3, <3>1, SignerStep, RetiringStep, ReadsStep
    <3> QED
      BY <2>2, <3>2 DEF IInv, ByScript
  <2> QED
    BY <2>1, <2>2, <2>3 DEF IInv
<1>2. CASE UNCHANGED vars
  BY <1>2 DEF vars, script, IInv, ByScript, Typed, TypeOK, Retiring, Reads, ListCovers,
              StatusesShow, Active
<1> QED
  BY <1>1, <1>2

LEMMA InvariantHolds == Spec => []IInv
<1> QED
  BY InitIsSafe, NextIsSafe, PTL DEF Spec

\* Whatever moves, failures and interruptions there are: in a cutover made by the script
\* the machine that the vault names is in production at every moment, and a readiness
\* check that passes was true of the vault and the registry at some moment since it
\* began, though its reads are apart, unless a machine was promoted while it read the
\* statuses (QuietVault.setTeeSigner, retire-stale-machines.mjs, assertFccReady).
THEOREM CutoverIsSafe == Spec => []CutoverInvariant
<1>1. IInv => CutoverInvariant
  <2> SUFFICES ASSUME IInv PROVE SignerActive /\ ReadyWasAgreed
    BY DEF IInv, Typed, CutoverInvariant
  <2>1. SignerActive
    BY DEF IInv, ByScript, SignerActive
  <2>2. ASSUME ~manual, Ready, ~late PROVE check.signer \in agreed
    <3>1. check.active = {check.signer} /\ check.left = {} /\ "list" \in check.done
      BY <2>2 DEF Ready, Answered, Sides
    <3>2. check.signer \in Machines
      BY <3>1 DEF IInv, Typed, Check
    <3> QED
      BY <2>2, <3>1, <3>2 DEF IInv, ByScript, Reads, StatusesShow
  <2> QED
    BY <2>1, <2>2 DEF ReadyWasAgreed
<1> QED
  BY <1>1, InvariantHolds, PTL

\* When the script ends well, the vault's signer and the manifest's is the one machine in
\* production: it was found to be the manifest's before anything was retired, and
\* stays so (verify-deployment.ts, retire-stale-machines.mjs).
THEOREM CutoverEndsComplete == Spec => CutoverComplete
<1>1. IInv /\ [Next]_vars => [~manual /\ pc # "done" /\ pc' = "done"
                                => Preflight' /\ manifest' = signer']_vars
  <2> SUFFICES ASSUME IInv, Next, ~manual, pc # "done", pc' = "done"
               PROVE  Preflight' /\ manifest' = signer'
    OBVIOUS
  <2>1. OneActive
    BY DEF Next, Step, Script, Start, CheckProduction, RegisterTee, Registered, ReadInfo,
           SetTeeSigner, SetTeeSignerReverts, Retry, WriteDeployment, VerifyDeployment,
           ListActive, Pause, RegisterFails, ConfigureFails, Stop, RetireAlone, PauseStale,
           Promote, HostMoves, ReadSide, NewCheck, registry
  <2>2. pc = "pausing" /\ Active = {manifest} /\ UNCHANGED <<status, signer, manifest>>
    BY <2>1 DEF OneActive, Remaining, registry
  <2>3. signer = manifest
    BY <2>2 DEF IInv, ByScript, Retiring
  <2> QED
    BY <2>2, <2>3 DEF Preflight, Active
<1> QED
  BY <1>1, InvariantHolds, PTL DEF Spec, CutoverComplete

\* No step of the script, however it was interrupted before, pauses the machine that
\* the vault names (configure-extension.ts, retire-stale-machines.mjs).
THEOREM SignerIsSpared == Spec => SignerNotPaused
<1>1. IInv /\ [Next]_vars => [~manual /\ status[signer] # "paused"
                                => status'[signer] # "paused"]_vars
  <2> SUFFICES ASSUME IInv, Next, ~manual, status[signer] # "paused"
               PROVE  status'[signer] # "paused"
    OBVIOUS
  <2>1. Typed /\ Retiring /\ Step /\ signer \in Machines
        /\ status \in [Machines -> {"unknown", "registered", "production", "paused"}]
    BY DEF IInv, ByScript, Next, Typed, TypeOK, Machines
  <2>2. ASSUME NEW m \in Machines, Pause(m) PROVE status'[signer] # "paused"
    <3>1. m # signer
      BY <2>1, <2>2, PauseSpares
    <3> QED
      BY <2>1, <2>2, <3>1 DEF Pause
  <2>3. CASE RegisterTee
    BY <2>1, <2>3 DEF RegisterTee
  <2>4. ASSUME NEW m \in Machines, Promote(m) PROVE status'[signer] # "paused"
    BY <2>1, <2>4 DEF Promote
  <2>5. ASSUME NEW m \in Machines, PauseStale(m) PROVE FALSE
    BY <2>5 DEF PauseStale
  <2>6. CASE \/ Start \/ CheckProduction \/ Registered \/ ReadInfo \/ SetTeeSigner
             \/ SetTeeSignerReverts \/ WriteDeployment \/ VerifyDeployment \/ ListActive
             \/ OneActive \/ RegisterFails \/ ConfigureFails \/ Stop \/ RetireAlone \/ HostMoves
             \/ ReadSide \/ NewCheck
    <3>1. status' = status
      BY <2>6 DEF Start, CheckProduction, Registered, ReadInfo, SetTeeSigner,
                  SetTeeSignerReverts, WriteDeployment, VerifyDeployment, ListActive,
                  OneActive, RegisterFails, ConfigureFails, Stop, RetireAlone, HostMoves, ReadSide, NewCheck, registry
    <3> QED
      BY <3>1
  <2> QED
    BY <2>1, <2>2, <2>3, <2>4, <2>5, <2>6 DEF Step, Script
<1> QED
  BY <1>1, InvariantHolds, PTL DEF Spec, SignerNotPaused
=============================================================================
