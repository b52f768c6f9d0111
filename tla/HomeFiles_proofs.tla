---- MODULE HomeFiles_proofs ----
(***************************************************************************)
(* Proofs about the files in ~/.hybro that commands share.                 *)
(*                                                                         *)
(* hub.lock, module InstanceLock, for any number of start and stop         *)
(* commands: the lock file of a live daemon stays, with the daemon's PID   *)
(* in it.  config.yaml and hub_id, module HubConfig, for any commands and  *)
(* keys: what the user wrote into config.yaml stays there, and commands    *)
(* agree on the hub id unless two of them make one at once.                *)
(***************************************************************************)
EXTENDS InstanceLock, HubConfig, TLAPS

----------------------------------------------------------------------------
\* The lock file.

\* Every file there is, or anyone has opened, was created by a start that has begun.
Created ==
  /\ \A p \in Proc : IF pc[p] = "idle" THEN fd[p] = NoFile ELSE fd[p] \in Proc
  /\ \A p \in Proc : fd[p] # NoFile => pc[fd[p]] # "idle"
  /\ path # NoFile => pc[path] # "idle"

\* Who got the flock of a file has it until the file is closed.
Owned ==
  /\ \A p \in Proc : pc[p] \in Owner => held[fd[p]] = p
  /\ \A s \in Stopper : spc[s] \in {"checking", "unlinking", "closing"} => held[sfd[s]] = s

\* A PID is only ever in the file its process has opened.
Written ==
  /\ \A f \in Proc : content[f] # NoPid => fd[content[f]] = f /\ pc[content[f]] # "idle"
  /\ \A s \in Stopper : spc[s] # "idle" => pc[target[s]] # "idle"

\* The file a stop has opened is still the lock file, or the lock file is not the
\* one its target had: a path once left is never taken again.
Late ==
  \A s \in Stopper : spc[s] \in {"opened", "checking"} => sfd[s] = path \/ fd[target[s]] # path

\* A stop that is about to unlink the lock file has the flock of that very file.
Exact == \A s \in Stopper : spc[s] = "unlinking" => sfd[s] = path

Inv == TypeOK /\ Created /\ Owned /\ Written /\ PidIsRecorded /\ Late /\ Exact

\* Nobody has opened anything.
LEMMA InitInv == Init => Inv
BY ProcAssumption DEF Init, Inv, TypeOK, Created, Owned, Written, PidIsRecorded, Late, Exact, Owner

\* The steps of a start keep the invariant.
LEMMA StartInv ==
  ASSUME Inv, NEW p \in Proc, StartStep(p)
  PROVE  Inv'
<1>. USE ProcAssumption DEF stopVars
<1>0. TypeOK /\ Created /\ Owned /\ Written /\ PidIsRecorded /\ Late /\ Exact
  BY DEF Inv
<1>1. CASE OpenLock(p)
  <2>1. /\ pc[p] = "idle" /\ pc' = [pc EXCEPT ![p] = "opened"]
        /\ path' \in Proc /\ path' = (IF path = NoFile THEN p ELSE path)
        /\ fd' = [fd EXCEPT ![p] = path']
        /\ UNCHANGED <<content, held, killed, spc, target, sfd>>
    BY <1>0, <1>1 DEF OpenLock, TypeOK
  <2>2. TypeOK'
    BY <1>0, <2>1 DEF TypeOK
  <2>3. Created'
    BY <1>0, <2>1 DEF Created, TypeOK
  <2>4. Owned' /\ PidIsRecorded'
    BY <1>0, <2>1 DEF Owned, PidIsRecorded, Owner, TypeOK
  <2>5. Written'
    BY <1>0, <2>1 DEF Written, TypeOK
  <2>6. Late'
    <3>. SUFFICES ASSUME NEW s \in Stopper, spc[s] \in {"opened", "checking"}
                  PROVE  sfd[s] = path' \/ fd'[target[s]] # path'
      BY <2>1 DEF Late
    <3>1. target[s] \in Proc /\ target[s] # p
      BY <1>0, <2>1 DEF Written, TypeOK
    <3>2. fd'[target[s]] = fd[target[s]] /\ fd[target[s]] # p
      BY <1>0, <2>1, <3>1 DEF Created, TypeOK
    <3>. QED
      BY <1>0, <2>1, <3>1, <3>2 DEF Late, TypeOK
  <2>7. Exact'
    BY <1>0, <2>1 DEF Exact, TypeOK
  <2>. QED
    BY <2>2, <2>3, <2>4, <2>5, <2>6, <2>7 DEF Inv
<1>2. CASE TakeLock(p)
  <2>1. /\ pc[p] = "opened" /\ pc' = [pc EXCEPT ![p] = "locked"]
        /\ held[fd[p]] = Nobody /\ held' = [held EXCEPT ![fd[p]] = p]
        /\ UNCHANGED <<path, content, fd, killed, spc, target, sfd>>
    BY <1>2 DEF TakeLock
  <2>2. TypeOK' /\ Created' /\ Written' /\ PidIsRecorded' /\ Late' /\ Exact'
    BY <1>0, <2>1 DEF TypeOK, Created, Written, PidIsRecorded, Late, Exact
  <2>3. Owned'
    BY <1>0, <2>1 DEF Owned, Owner, TypeOK
  <2>. QED
    BY <2>2, <2>3 DEF Inv
<1>3. CASE Refuse(p)
  BY <1>0, <1>3
     DEF Refuse, Inv, TypeOK, Created, Owned, Owner, Written, PidIsRecorded, Late, Exact
<1>4. CASE TruncateLock(p) \/ WritePid(p)
  <2>1. PICK x \in {p, NoPid}, to \in {"writing", "running"} :
          /\ pc[p] \in {"locked", "writing"} /\ pc' = [pc EXCEPT ![p] = to]
          /\ to = "running" => x = p
          /\ content' = [content EXCEPT ![fd[p]] = x]
          /\ UNCHANGED <<path, held, fd, killed, spc, target, sfd>>
    BY <1>4 DEF TruncateLock, WritePid
  <2>2. TypeOK' /\ Created' /\ Late' /\ Exact'
    BY <1>0, <2>1 DEF TypeOK, Created, Late, Exact
  <2>3. Owned' /\ Written'
    BY <1>0, <2>1 DEF Owned, Owner, Written, TypeOK
  <2>4. \A q \in Proc : pc[q] = "running" => fd[q] # fd[p]
    BY <1>0, <2>1 DEF Owned, Owner
  <2>5. PidIsRecorded'
    BY <1>0, <2>1, <2>4 DEF PidIsRecorded, TypeOK
  <2>. QED
    BY <2>2, <2>3, <2>5 DEF Inv
<1>5. CASE Die(p)
  <2>1. /\ pc[p] # "idle" /\ pc' = [pc EXCEPT ![p] = "gone"]
        /\ held' = [f \in Proc |-> IF held[f] = p THEN Nobody ELSE held[f]]
        /\ UNCHANGED <<path, content, fd, killed, spc, target, sfd>>
    BY <1>5 DEF Die, Release
  <2>2. TypeOK' /\ Created' /\ Written' /\ PidIsRecorded' /\ Late' /\ Exact'
    BY <1>0, <2>1 DEF TypeOK, Created, Written, PidIsRecorded, Late, Exact
  <2>3. Owned'
    BY <1>0, <2>1 DEF Owned, Owner, TypeOK
  <2>. QED
    BY <2>2, <2>3 DEF Inv
<1>. QED
  BY <1>1, <1>2, <1>3, <1>4, <1>5 DEF StartStep

\* The steps of a stop keep it, too; only Unlink changes the path, and it then takes
\* away a file whose flock the stop has.
LEMMA StopInv ==
  ASSUME Inv, NEW s \in Stopper, ReadPid(s) \/ StopStep(s)
  PROVE  /\ Inv'
         /\ path' = path \/ \A p \in Proc : pc[p] \in Owner => fd[p] # path
<1>. USE ProcAssumption DEF procVars
<1>0. TypeOK /\ Created /\ Owned /\ Written /\ PidIsRecorded /\ Late /\ Exact
  BY DEF Inv
<1>1. CASE ReadPid(s)
  BY <1>0, <1>1 DEF ReadPid, StopGoes, Inv, TypeOK, Created, Owned, Owner, Written,
     PidIsRecorded, Late, Exact
<1>2. CASE LookUp(s) \/ SendTerm(s) \/ Stopped(s) \/ ForceKill(s)
  <2>1. PICK to \in {"remove", "live", "waiting"} :
          /\ spc[s] # "idle" /\ spc' = [spc EXCEPT ![s] = to]
          /\ killed' \subseteq Proc
          /\ UNCHANGED <<path, content, held, pc, fd, target, sfd>>
    BY <1>0, <1>2 DEF LookUp, SendTerm, Stopped, ForceKill, StopGoes, TypeOK
  <2>. QED
    BY <1>0, <2>1 DEF Inv, TypeOK, Created, Owned, Owner, Written, PidIsRecorded, Late, Exact
<1>3. CASE TermMissed(s) \/ LeaveFile(s) \/ (OpenToRemove(s) /\ path = NoFile)
  <2>1. /\ spc' = [spc EXCEPT ![s] = "idle"]
        /\ target' = [target EXCEPT ![s] = NoPid] /\ sfd' = [sfd EXCEPT ![s] = NoFile]
        /\ UNCHANGED <<path, content, held, pc, fd, killed>>
    BY <1>3 DEF TermMissed, LeaveFile, OpenToRemove, StopEnds, StopGoes
  <2>. QED
    BY <1>0, <2>1 DEF Inv, TypeOK, Created, Owned, Owner, Written, PidIsRecorded, Late, Exact
<1>4. CASE OpenToRemove(s) /\ path # NoFile
  BY <1>0, <1>4 DEF OpenToRemove, StopGoes, Inv, TypeOK, Created, Owned, Owner, Written,
     PidIsRecorded, Late, Exact
<1>5. CASE LockToRemove(s)
  <2>1. /\ spc[s] = "opened" /\ spc' = [spc EXCEPT ![s] = "checking"]
        /\ held[sfd[s]] = Nobody /\ held' = [held EXCEPT ![sfd[s]] = s]
        /\ UNCHANGED <<path, content, pc, fd, killed, target, sfd>>
    BY <1>5 DEF LockToRemove, StopGoes
  <2>2. TypeOK' /\ Created' /\ Written' /\ PidIsRecorded' /\ Late' /\ Exact'
    BY <1>0, <2>1 DEF TypeOK, Created, Written, PidIsRecorded, Late, Exact
  <2>3. Owned'
    BY <1>0, <2>1 DEF Owned, Owner, TypeOK
  <2>. QED
    BY <2>1, <2>2, <2>3 DEF Inv
<1>6. CASE CheckPid(s)
  <2>1. /\ spc[s] = "checking"
        /\ spc' = [spc EXCEPT ![s] = IF path # NoFile /\ content[path] = target[s]
                                       THEN "unlinking" ELSE "closing"]
        /\ UNCHANGED <<path, content, held, pc, fd, killed, target, sfd>>
    BY <1>6 DEF CheckPid, StopGoes
  <2>2. path # NoFile /\ content[path] = target[s] => sfd[s] = path
    BY <1>0, <2>1 DEF Late, Written, TypeOK
  <2>3. TypeOK' /\ Created' /\ Written' /\ PidIsRecorded' /\ Late'
    BY <1>0, <2>1 DEF TypeOK, Created, Written, PidIsRecorded, Late
  <2>4. Owned' /\ Exact'
    BY <1>0, <2>1, <2>2 DEF Owned, Owner, Exact, TypeOK
  <2>. QED
    BY <2>1, <2>3, <2>4 DEF Inv
<1>7. CASE Unlink(s)
  <2>1. /\ spc[s] = "unlinking" /\ spc' = [spc EXCEPT ![s] = "closing"]
        /\ path' = NoFile
        /\ UNCHANGED <<content, held, pc, fd, killed, target, sfd>>
    BY <1>7 DEF Unlink
  <2>2. path = sfd[s] /\ held[path] = s
    BY <1>0, <2>1 DEF Exact, Owned
  <2>3. TypeOK' /\ Created' /\ Written' /\ PidIsRecorded' /\ Owned'
    BY <1>0, <2>1 DEF TypeOK, Created, Written, PidIsRecorded, Owned, Owner
  <2>4. Late'
    BY <1>0, <2>1 DEF Late, Written, Created, TypeOK
  <2>5. Exact'
    BY <1>0, <2>1, <2>2 DEF Exact, Owned, TypeOK
  <2>6. \A p \in Proc : pc[p] \in Owner => fd[p] # path
    BY <1>0, <2>2 DEF Owned
  <2>. QED
    BY <2>3, <2>4, <2>5, <2>6 DEF Inv
<1>8. CASE CloseFile(s)
  <2>1. /\ spc' = [spc EXCEPT ![s] = "idle"]
        /\ target' = [target EXCEPT ![s] = NoPid] /\ sfd' = [sfd EXCEPT ![s] = NoFile]
        /\ held' = [f \in Proc |-> IF held[f] = s THEN Nobody ELSE held[f]]
        /\ UNCHANGED <<path, content, pc, fd, killed>>
    BY <1>8 DEF CloseFile, StopEnds, StopGoes, Release
  <2>2. TypeOK' /\ Created' /\ Written' /\ PidIsRecorded' /\ Late' /\ Exact'
    BY <1>0, <2>1 DEF TypeOK, Created, Written, PidIsRecorded, Late, Exact
  <2>3. Owned'
    BY <1>0, <2>1 DEF Owned, Owner, TypeOK
  <2>. QED
    BY <2>1, <2>2, <2>3 DEF Inv
<1>. QED
  BY <1>1, <1>2, <1>3, <1>4, <1>5, <1>6, <1>7, <1>8 DEF StopStep

----------------------------------------------------------------------------
\* Inv is inductive.
THEOREM Invariance == Spec => []Inv
<1>1. ASSUME Inv, Next PROVE Inv'
  BY <1>1, StartInv, StopInv DEF Next
<1>2. Inv /\ UNCHANGED vars => Inv'
  BY DEF vars, Inv, TypeOK, Created, Owned, Owner, Written, PidIsRecorded, Late, Exact
<1>. QED
  BY InitInv, <1>1, <1>2, PTL DEF Spec

\* Every variable keeps to its type.
THEOREM TypeCorrect == Spec => []TypeOK
BY Invariance, PTL DEF Inv

\* write_lock_pid's PID stays in the file of a running daemon, whoever else starts,
\* stops or dies.
THEOREM PidStays == Spec => []PidIsRecorded
BY Invariance, PTL DEF Inv

\* _remove_lock_file never unlinks the file a live daemon has locked.
THEOREM LockStays == Spec => LiveLockStays
<1>1. ASSUME Inv, [Next]_vars
      PROVE  \A p \in Proc : pc[p] \in Owner /\ fd[p] = path => path' = path
  <2>1. CASE UNCHANGED vars
    BY <2>1 DEF vars
  <2>2. ASSUME NEW q \in Proc, StartStep(q)
        PROVE  \A p \in Proc : pc[p] \in Owner /\ fd[p] = path => path' = path
    BY <1>1, <2>2, ProcAssumption DEF StartStep, OpenLock, TakeLock, Refuse, TruncateLock,
       WritePid, Die, Inv, TypeOK, Owner
  <2>3. ASSUME NEW s \in Stopper, ReadPid(s) \/ StopStep(s)
        PROVE  \A p \in Proc : pc[p] \in Owner /\ fd[p] = path => path' = path
    BY <1>1, <2>3, StopInv
  <2>. QED
    BY <1>1, <2>1, <2>2, <2>3 DEF Next
<1>. QED
  BY <1>1, Invariance, PTL DEF Spec, LiveLockStays

\* The daemons that have the lock hold the lock file itself.
AtPath == \A p \in Proc : pc[p] \in Owner => fd[p] = path

\* A file that was unlinked between open and flock is the only way to a second daemon:
\* where every flock is taken on the file that is the lock file at that moment,
\* acquire_instance_lock keeps what lock.py says of it.
THEOREM OneDaemonIfLocksAreFresh ==
  Spec /\ [][\A p \in Proc : TakeLock(p) => fd[p] = path]_vars => []OneDaemon
<1>1. Init => AtPath
  BY DEF Init, AtPath, Owner
<1>2. ASSUME Inv, AtPath, [Next]_vars, [\A p \in Proc : TakeLock(p) => fd[p] = path]_vars,
             [\A p \in Proc : pc[p] \in Owner /\ fd[p] = path => path' = path]_vars
      PROVE  AtPath'
  <2>1. CASE UNCHANGED vars
    BY <1>2, <2>1 DEF vars, AtPath
  <2>2. ASSUME NEW p \in Proc, StartStep(p), ~UNCHANGED vars PROVE AtPath'
    <3>1. CASE TakeLock(p)
      BY <1>2, <2>2, <3>1 DEF TakeLock, AtPath, Owner, Inv, TypeOK
    <3>2. CASE ~TakeLock(p)
      BY <1>2, <2>2, <3>2 DEF StartStep, OpenLock, Refuse, TruncateLock, WritePid, Die,
         AtPath, Owner, Inv, TypeOK
    <3>. QED
      BY <3>1, <3>2
  <2>3. ASSUME NEW s \in Stopper, ReadPid(s) \/ StopStep(s) PROVE AtPath'
    <3>1. pc' = pc /\ fd' = fd
      BY <2>3 DEF ReadPid, StopStep, LookUp, SendTerm, TermMissed, Stopped, ForceKill,
         OpenToRemove, LockToRemove, LeaveFile, CheckPid, Unlink, CloseFile, StopEnds,
         StopGoes, procVars
    <3>. QED
      BY <1>2, <3>1 DEF AtPath, vars
  <2>. QED
    BY <1>2, <2>1, <2>2, <2>3 DEF Next
<1>3. Inv /\ AtPath => OneDaemon
  BY ProcAssumption DEF Inv, Owned, AtPath, OneDaemon, Owner
<1>. QED
  BY <1>1, <1>2, <1>3, Invariance, LockStays, PTL DEF Spec, LiveLockStays

----------------------------------------------------------------------------
\* The configuration and the hub id.

\* The two ways in which a step touches the history.
LEMMA ConfigFlags ==
  ASSUME ConfigTypeOK, [ConfigNext]_configVars PROVE torn' \in BOOLEAN /\ raced' \in BOOLEAN
BY Zenon DEF ConfigTypeOK, ConfigNext, Save, Load, Give, ReadToSave, OpenToSave, WriteKey,
   LoadKey, Race, ReadHubId, CreateHubId, FillHubId, End, configVars

\* Every step keeps the types: a key that is loaded is a literal or none, never the
\* text of a reference.
LEMMA ConfigTypeStep == ASSUME ConfigTypeOK, [ConfigNext]_configVars PROVE ConfigTypeOK'
<1>. USE NameAssumption DEF File, Empty, Goes, userVars
<1>0. torn' \in BOOLEAN /\ raced' \in BOOLEAN
  BY ConfigFlags
<1>1. ASSUME NEW c \in Command, Give(c) PROVE ConfigTypeOK'
  BY <1>0, <1>1 DEF ConfigTypeOK, Give
<1>2. ASSUME NEW c \in Command, ReadToSave(c) PROVE ConfigTypeOK'
  BY <1>0, <1>2 DEF ConfigTypeOK, ReadToSave
<1>3. ASSUME NEW c \in Command, OpenToSave(c) PROVE ConfigTypeOK'
  BY <1>0, <1>3 DEF ConfigTypeOK, OpenToSave
<1>4. ASSUME NEW c \in Command, WriteKey(c) PROVE ConfigTypeOK'
  BY <1>0, <1>4 DEF ConfigTypeOK, WriteKey
<1>5. ASSUME NEW c \in Command, LoadKey(c) PROVE ConfigTypeOK'
  <2>1. config.key \in Key \cup {NoKey, Reference}
    BY DEF ConfigTypeOK
  <2>2. Expanded(config.key) \in Key \cup {NoKey}
    BY <2>1 DEF Expanded, ConfigTypeOK
  <2>3. key' \in [Command -> Key \cup {NoKey}]
    BY <1>5, <2>2 DEF LoadKey, ConfigTypeOK
  <2>. QED
    BY <1>0, <1>5, <2>3 DEF ConfigTypeOK, LoadKey
<1>6. ASSUME NEW c \in Command, ReadHubId(c) PROVE ConfigTypeOK'
  BY <1>0, <1>6 DEF ConfigTypeOK, ReadHubId
<1>7. ASSUME NEW c \in Command, CreateHubId(c) PROVE ConfigTypeOK'
  BY <1>0, <1>7 DEF ConfigTypeOK, CreateHubId
<1>8. ASSUME NEW c \in Command, FillHubId(c) PROVE ConfigTypeOK'
  BY <1>0, <1>8 DEF ConfigTypeOK, FillHubId
<1>9. ASSUME NEW c \in Command, End(c) PROVE ConfigTypeOK'
  BY <1>0, <1>9 DEF ConfigTypeOK, End
<1>10. CASE UNCHANGED configVars
  BY <1>10 DEF ConfigTypeOK, configVars
<1>. QED
  BY <1>1, <1>2, <1>3, <1>4, <1>5, <1>6, <1>7, <1>8, <1>9, <1>10 DEF ConfigNext, Save, Load

\* The type invariant.  It says that no command ever runs with the text of a
\* reference in the place of a key.
THEOREM ConfigTypeCorrect == ConfigSpec => []ConfigTypeOK
<1>1. ConfigInit => ConfigTypeOK
  <2>1. ConfigInit => wired \in BOOLEAN
    BY Zenon DEF ConfigInit
  <2>2. Empty \in File
    BY DEF Empty, File
  <2>3. ConfigInit => torn \in BOOLEAN /\ raced \in BOOLEAN
    BY Zenon DEF ConfigInit
  <2>. QED
    BY <2>1, <2>2, <2>3 DEF ConfigInit, ConfigTypeOK
<1>. QED
  BY <1>1, ConfigTypeStep, PTL DEF ConfigSpec

----------------------------------------------------------------------------
\* A user's reference is safe because no save gets past reading it.
ReferenceIsSafe ==
  wired => /\ config.key = Reference /\ config.settings
           /\ \A c \in Command : at[c] \notin {"open", "write"}

\* While no save was torn, the settings are in the file or with the one command that
\* has emptied it, and every saver has read them.
SettingsAreKept ==
  ~torn => /\ config.settings \/ \E c \in Command : at[c] = "write" /\ data[c].settings
           /\ \A c \in Command : at[c] \in {"open", "write"} => data[c].settings

\* Every step keeps both.
LEMMA TextStep ==
  ASSUME ConfigTypeOK, ReferenceIsSafe, SettingsAreKept, [ConfigNext]_configVars
  PROVE  ReferenceIsSafe' /\ SettingsAreKept'
<1>. USE NameAssumption DEF Goes, userVars, ReferenceIsSafe, SettingsAreKept
<1>1. ASSUME NEW c \in Command, Give(c) PROVE ReferenceIsSafe' /\ SettingsAreKept'
  BY <1>1 DEF Give, ConfigTypeOK
<1>2. ASSUME NEW c \in Command, ReadToSave(c) PROVE ReferenceIsSafe' /\ SettingsAreKept'
  <2>1. ReferenceIsSafe'
    BY <1>2 DEF ReadToSave, ConfigTypeOK
  <2>2. ASSUME ~torn' PROVE ~torn /\ \A d \in Command : at[d] # "write"
    BY <1>2, <2>2 DEF ReadToSave
  <2>3. ASSUME ~torn', NEW d \in Command, at'[d] \in {"open", "write"} PROVE data'[d].settings
    <3>1. config.settings
      BY <2>2, <2>3
    <3>. QED
      BY <1>2, <2>2, <2>3, <3>1 DEF ReadToSave, ConfigTypeOK
  <2>4. ASSUME ~torn' PROVE config'.settings
    BY <1>2, <2>2, <2>4 DEF ReadToSave
  <2>. QED
    BY <2>1, <2>3, <2>4
<1>3. ASSUME NEW c \in Command, OpenToSave(c) PROVE ReferenceIsSafe' /\ SettingsAreKept'
  <2>1. ReferenceIsSafe'
    BY <1>3 DEF OpenToSave
  <2>2. ASSUME ~torn' PROVE at'[c] = "write" /\ data'[c].settings
    BY <1>3, <2>2 DEF OpenToSave, ConfigTypeOK
  <2>3. ASSUME ~torn', NEW d \in Command, at'[d] \in {"open", "write"} PROVE data'[d].settings
    BY <1>3, <2>2, <2>3 DEF OpenToSave, ConfigTypeOK
  <2>. QED
    BY <2>1, <2>2, <2>3
<1>4. ASSUME NEW c \in Command, WriteKey(c) PROVE ReferenceIsSafe' /\ SettingsAreKept'
  <2>1. ReferenceIsSafe'
    BY <1>4 DEF WriteKey
  <2>2. ASSUME ~torn' PROVE config'.settings
    <3>1. data[c].settings /\ data[c] \in File
      BY <1>4, <2>2 DEF WriteKey, ConfigTypeOK
    <3>. QED
      BY <1>4, <3>1 DEF WriteKey, File
  <2>3. ASSUME ~torn', NEW d \in Command, at'[d] \in {"open", "write"} PROVE data'[d].settings
    BY <1>4, <2>3 DEF WriteKey, ConfigTypeOK
  <2>. QED
    BY <2>1, <2>2, <2>3
<1>5. ASSUME NEW c \in Command, Load(c) PROVE ReferenceIsSafe' /\ SettingsAreKept'
  <2>1. UNCHANGED <<wired, config, torn, data>>
    BY <1>5 DEF Load, LoadKey, ReadHubId, CreateHubId, FillHubId
  <2>2. \A d \in Command : /\ at'[d] \in {"open", "write"} => at'[d] = at[d]
                           /\ at[d] = "write" => at'[d] = "write"
    BY <1>5 DEF Load, LoadKey, ReadHubId, CreateHubId, FillHubId, ConfigTypeOK
  <2>. QED
    BY <2>1, <2>2
<1>6. ASSUME NEW c \in Command, End(c) PROVE ReferenceIsSafe' /\ SettingsAreKept'
  <2>1. ReferenceIsSafe'
    BY <1>6 DEF End, ConfigTypeOK
  <2>2. ASSUME ~torn' PROVE ~torn /\ at[c] # "write"
    BY <1>6, <2>2 DEF End
  <2>3. SettingsAreKept'
    BY <1>6, <2>2 DEF End, ConfigTypeOK
  <2>. QED
    BY <2>1, <2>3
<1>7. CASE UNCHANGED configVars
  BY <1>7 DEF configVars
<1>. QED
  BY <1>1, <1>2, <1>3, <1>4, <1>5, <1>6, <1>7 DEF ConfigNext, Save

\* A reference in config.yaml survives every command and every crash, and the other
\* settings survive as long as no save is cut short or meets another.
THEOREM UserTextIsKept == ConfigSpec => []UserTextStays
<1>1. ConfigInit => ReferenceIsSafe /\ SettingsAreKept
  BY DEF ConfigInit, ReferenceIsSafe, SettingsAreKept
<1>2. ConfigTypeOK /\ ReferenceIsSafe /\ SettingsAreKept /\ [ConfigNext]_configVars
        => (ReferenceIsSafe /\ SettingsAreKept)'
  BY TextStep
<1>3. ReferenceIsSafe /\ SettingsAreKept => UserTextStays
  BY DEF ReferenceIsSafe, SettingsAreKept, UserTextStays
<1>. QED
  BY <1>1, <1>2, <1>3, ConfigTypeCorrect, PTL DEF ConfigSpec

----------------------------------------------------------------------------
\* Without a race one command at most makes an id, at a time when the file has none;
\* all that run have the one in the file.
OneMaker ==
  ~raced =>
    /\ \A c \in Command : at[c] \in {"create", "fill"} =>
         /\ hubId = NoId
         /\ \A d \in Command \ {c} : at[d] \notin {"create", "fill"}
    /\ \A c \in Command : at[c] = "running" => id[c] = hubId

\* Every step keeps that.
LEMMA MakerStep == ASSUME ConfigTypeOK, OneMaker, [ConfigNext]_configVars PROVE OneMaker'
<1>. USE DEF Goes, userVars, OneMaker
<1>1. ASSUME NEW c \in Command, Give(c) \/ Save(c) \/ LoadKey(c) PROVE OneMaker'
  <2>1. UNCHANGED <<hubId, id, raced>>
    BY <1>1 DEF Give, Save, ReadToSave, OpenToSave, WriteKey, LoadKey
  <2>2. \A d \in Command : at'[d] \in {"create", "fill", "running"} => at'[d] = at[d]
    BY <1>1 DEF Give, Save, ReadToSave, OpenToSave, WriteKey, LoadKey, ConfigTypeOK
  <2>. QED
    BY <2>1, <2>2
<1>2. ASSUME NEW c \in Command, ReadHubId(c) PROVE OneMaker'
  <2>. SUFFICES ASSUME ~raced' PROVE OneMaker'
    OBVIOUS
  <2>1. ~raced /\ hubId' = hubId
    BY <1>2 DEF ReadHubId, Race
  <2>2. CASE hubId = NoId
    <3>1. at' = [at EXCEPT ![c] = "create"] /\ at'[c] = "create"
      BY <1>2, <2>2 DEF ReadHubId, ConfigTypeOK
    <3>2. \A d \in Command \ {c} : at[d] \notin {"create", "fill"}
      BY <1>2, <3>1 DEF ReadHubId, Race
    <3>3. \A d \in Command : at[d] # "running"
      BY <2>1, <2>2 DEF ConfigTypeOK
    <3>4. \A d \in Command \ {c} : at'[d] = at[d]
      BY <3>1 DEF ConfigTypeOK
    <3>. QED
      BY <2>1, <2>2, <3>1, <3>2, <3>3, <3>4
  <2>3. CASE hubId # NoId
    <3>1. at' = [at EXCEPT ![c] = "running"] /\ id' = [id EXCEPT ![c] = hubId]
      BY <1>2, <2>3 DEF ReadHubId
    <3>. QED
      BY <2>1, <2>3, <3>1 DEF ConfigTypeOK
  <2>. QED
    BY <2>2, <2>3
<1>3. ASSUME NEW c \in Command, CreateHubId(c) PROVE OneMaker'
  <2>1. ~raced => \A d \in Command : at[d] # "running"
    BY <1>3 DEF CreateHubId, ConfigTypeOK
  <2>. QED
    BY <1>3, <2>1 DEF CreateHubId, ConfigTypeOK
<1>4. ASSUME NEW c \in Command, FillHubId(c) PROVE OneMaker'
  <2>1. ~raced => \A d \in Command : at[d] # "running"
    BY <1>4 DEF FillHubId, ConfigTypeOK
  <2>. QED
    BY <1>4, <2>1 DEF FillHubId, ConfigTypeOK
<1>5. ASSUME NEW c \in Command, End(c) PROVE OneMaker'
  BY <1>5 DEF End, ConfigTypeOK
<1>6. CASE UNCHANGED configVars
  BY <1>6 DEF configVars
<1>. QED
  BY <1>1, <1>2, <1>3, <1>4, <1>5, <1>6 DEF ConfigNext, Load

\* Commands that run have the hub id in the file, unless two made one at once.
THEOREM IdsAlwaysAgree == ConfigSpec => []IdsAgree
<1>1. ConfigInit => OneMaker
  BY DEF ConfigInit, OneMaker
<1>2. ConfigTypeOK /\ OneMaker /\ [ConfigNext]_configVars => OneMaker'
  BY MakerStep
<1>3. OneMaker => IdsAgree
  BY DEF OneMaker, IdsAgree
<1>. QED
  BY <1>1, <1>2, <1>3, ConfigTypeCorrect, PTL DEF ConfigSpec
====
