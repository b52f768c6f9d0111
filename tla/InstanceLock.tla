---- MODULE InstanceLock ----
(***************************************************************************)
(* One daemon per machine: hub/lock.py and the start and stop commands of  *)
(* hub/cli.py on Unix.  `start` opens ~/.hybro/hub.lock, takes a flock on  *)
(* the open file and writes its PID; `stop` reads the PID, signals the     *)
(* process and unlinks the file.  The flock belongs to the file, which an  *)
(* unlink takes away from its path: the next start creates another one.    *)
(*                                                                         *)
(* A start command and the daemon it forks are one process here; its PID   *)
(* is final when it is written.  PIDs are not reused.  The lock file that  *)
(* process p creates is called p.                                          *)
(***************************************************************************)
CONSTANTS
  Proc,     \* the start commands given, one process each
  Stopper,  \* the stop commands, which may be given again and again
  NoFile, NoPid, Nobody

ASSUME ProcAssumption ==
  /\ NoFile \notin Proc /\ NoPid \notin Proc
  /\ Nobody \notin Proc \cup Stopper
  /\ Proc \cap Stopper = {}

VARIABLES
  path,     \* the file LOCK_FILE names
  content,  \* the PID in each file
  held,     \* who has the flock of each file
  pc,       \* where each start is
  fd,       \* the file it has opened
  killed,   \* the processes a SIGKILL was sent to
  spc,      \* where each stop is
  target,   \* the PID it is to stop
  sfd       \* the file it has opened to remove it

procVars == <<pc, fd, killed>>
stopVars == <<spc, target, sfd>>
vars == <<path, content, held, pc, fd, killed, spc, target, sfd>>

TypeOK ==
  /\ path \in Proc \cup {NoFile}
  /\ content \in [Proc -> Proc \cup {NoPid}]
  /\ held \in [Proc -> Proc \cup Stopper \cup {Nobody}]
  /\ pc \in [Proc -> {"idle", "opened", "locked", "writing", "running", "gone"}]
  /\ fd \in [Proc -> Proc \cup {NoFile}]
  /\ killed \subseteq Proc
  /\ spc \in [Stopper -> {"idle", "found", "live", "waiting", "remove", "opened", "checking",
                          "unlinking", "closing"}]
  /\ target \in [Stopper -> Proc \cup {NoPid}]
  /\ sfd \in [Stopper -> Proc \cup {NoFile}]
  /\ \A p \in Proc : pc[p] \in {"opened", "locked", "writing", "running"} => fd[p] \in Proc
  /\ \A s \in Stopper :
       /\ spc[s] # "idle" => target[s] \in Proc
       /\ spc[s] \in {"opened", "checking", "unlinking", "closing"} => sfd[s] \in Proc

Init ==
  /\ path = NoFile
  /\ content = [f \in Proc |-> NoPid]
  /\ held = [f \in Proc |-> Nobody]
  /\ pc = [p \in Proc |-> "idle"]
  /\ fd = [p \in Proc |-> NoFile]
  /\ killed = {}
  /\ spc = [s \in Stopper |-> "idle"]
  /\ target = [s \in Stopper |-> NoPid]
  /\ sfd = [s \in Stopper |-> NoFile]

----------------------------------------------------------------------------
\* start

\* Mutant of OpenLock: the file is opened with O_TRUNC.
OpenTruncating(p) ==
  /\ pc[p] = "idle"
  /\ path' = IF path = NoFile THEN p ELSE path
  /\ fd' = [fd EXCEPT ![p] = path']
  /\ content' = [content EXCEPT ![path'] = NoPid]
  /\ pc' = [pc EXCEPT ![p] = "opened"]
  /\ UNCHANGED <<held, killed, stopVars>>

\* os.open with O_CREAT, without O_TRUNC.
OpenLock(p) ==
  /\ pc[p] = "idle"
  /\ path' = IF path = NoFile THEN p ELSE path
  /\ fd' = [fd EXCEPT ![p] = path']
  /\ pc' = [pc EXCEPT ![p] = "opened"]
  /\ UNCHANGED <<content, held, killed, stopVars>>

TakeLock(p) ==
  /\ pc[p] = "opened" /\ held[fd[p]] = Nobody
  /\ held' = [held EXCEPT ![fd[p]] = p]
  /\ pc' = [pc EXCEPT ![p] = "locked"]
  /\ UNCHANGED <<path, content, fd, killed, stopVars>>

\* The flock is taken: the command ends with "already running".
Refuse(p) ==
  /\ pc[p] = "opened" /\ held[fd[p]] # Nobody
  /\ pc' = [pc EXCEPT ![p] = "gone"]
  /\ UNCHANGED <<path, content, held, fd, killed, stopVars>>

\* write_lock_pid truncates the file at once ...
TruncateLock(p) ==
  /\ pc[p] = "locked"
  /\ content' = [content EXCEPT ![fd[p]] = NoPid]
  /\ pc' = [pc EXCEPT ![p] = "writing"]
  /\ UNCHANGED <<path, held, fd, killed, stopVars>>

\* ... and writes at the flush; the daemon runs.
WritePid(p) ==
  /\ pc[p] = "writing"
  /\ content' = [content EXCEPT ![fd[p]] = p]
  /\ pc' = [pc EXCEPT ![p] = "running"]
  /\ UNCHANGED <<path, held, fd, killed, stopVars>>

Release(x) == held' = [f \in Proc |-> IF held[f] = x THEN Nobody ELSE held[f]]

\* The process ends: told to, killed, or by a crash.  The kernel drops its flock.
Die(p) ==
  /\ pc[p] \in {"opened", "locked", "writing", "running"}
  /\ pc' = [pc EXCEPT ![p] = "gone"]
  /\ Release(p)
  /\ UNCHANGED <<path, content, fd, killed, stopVars>>

----------------------------------------------------------------------------
\* stop

\* A stop moves on, or ends; the files and the processes stay as they are.
StopGoes(s, from, to) ==
  /\ spc[s] = from
  /\ spc' = [spc EXCEPT ![s] = to]
  /\ UNCHANGED <<path, content, pc, fd>>

StopEnds(s, from) ==
  /\ StopGoes(s, from, "idle")
  /\ target' = [target EXCEPT ![s] = NoPid]
  /\ sfd' = [sfd EXCEPT ![s] = NoFile]

\* read_lock_pid() finds a PID.  When it does not the command ends.
ReadPid(s) ==
  /\ path # NoFile /\ content[path] # NoPid
  /\ StopGoes(s, "idle", "found")
  /\ target' = [target EXCEPT ![s] = content[path]]
  /\ UNCHANGED <<held, killed, sfd>>

\* psutil.Process(pid): a stale PID leads to the removal of the file.
LookUp(s) ==
  /\ StopGoes(s, "found", IF pc[target[s]] = "gone" THEN "remove" ELSE "live")
  /\ UNCHANGED <<held, killed, target, sfd>>

\* The process may obey the SIGTERM, with Die, or not.
SendTerm(s) ==
  /\ StopGoes(s, "live", "waiting")
  /\ pc[target[s]] # "gone"
  /\ UNCHANGED <<held, killed, target, sfd>>

\* send_signal raises when the process has ended since; the command ends with it.
TermMissed(s) ==
  /\ StopEnds(s, "live")
  /\ pc[target[s]] = "gone"
  /\ UNCHANGED <<held, killed>>

Stopped(s) ==
  /\ StopGoes(s, "waiting", "remove")
  /\ pc[target[s]] = "gone"
  /\ UNCHANGED <<held, killed, target, sfd>>

\* Mutant of ForceKill: the timeout goes on without a SIGKILL.
GiveUp(s) ==
  /\ StopGoes(s, "waiting", "remove")
  /\ pc[target[s]] # "gone"
  /\ UNCHANGED <<held, killed, target, sfd>>

\* After _STOP_TIMEOUT: SIGKILL, which is not waited for.
ForceKill(s) ==
  /\ StopGoes(s, "waiting", "remove")
  /\ pc[target[s]] # "gone"
  /\ killed' = killed \cup {target[s]}
  /\ UNCHANGED <<held, target, sfd>>

----------------------------------------------------------------------------
\* _remove_lock_file

\* Mutant of OpenToRemove: the file is taken to be there.
OpenAnyway(s) ==
  /\ StopGoes(s, "remove", "opened")
  /\ sfd' = [sfd EXCEPT ![s] = path]
  /\ UNCHANGED <<held, killed, target>>

\* The file may be gone already.
OpenToRemove(s) ==
  \/ /\ path # NoFile
     /\ StopGoes(s, "remove", "opened")
     /\ sfd' = [sfd EXCEPT ![s] = path]
     /\ UNCHANGED <<held, killed, target>>
  \/ /\ path = NoFile
     /\ StopEnds(s, "remove")
     /\ UNCHANGED <<held, killed>>

\* Mutant of LockToRemove: no look at the flock, as before the restart race was fixed.
LockAnyway(s) ==
  /\ StopGoes(s, "opened", "checking")
  /\ UNCHANGED <<held, killed, target, sfd>>

LockToRemove(s) ==
  /\ StopGoes(s, "opened", "checking")
  /\ held[sfd[s]] = Nobody
  /\ held' = [held EXCEPT ![sfd[s]] = s]
  /\ UNCHANGED <<killed, target, sfd>>

\* A live daemon, or another stop, has the flock: the file is left alone.
LeaveFile(s) ==
  /\ StopEnds(s, "opened")
  /\ held[sfd[s]] # Nobody
  /\ UNCHANGED <<held, killed>>

\* The PID is read through the path, not from the file that is locked.
CheckPid(s) ==
  /\ StopGoes(s, "checking",
       IF path # NoFile /\ content[path] = target[s] THEN "unlinking" ELSE "closing")
  /\ UNCHANGED <<held, killed, target, sfd>>

Unlink(s) ==
  /\ spc[s] = "unlinking"
  /\ spc' = [spc EXCEPT ![s] = "closing"]
  /\ path' = NoFile
  /\ UNCHANGED <<content, held, procVars, target, sfd>>

CloseFile(s) ==
  /\ StopEnds(s, "closing")
  /\ Release(s)
  /\ UNCHANGED killed

----------------------------------------------------------------------------
StartStep(p) ==
  \/ OpenLock(p) \/ TakeLock(p) \/ Refuse(p) \/ TruncateLock(p) \/ WritePid(p) \/ Die(p)

StopStep(s) ==
  \/ LookUp(s) \/ SendTerm(s) \/ TermMissed(s) \/ Stopped(s) \/ ForceKill(s)
  \/ OpenToRemove(s) \/ LockToRemove(s) \/ LeaveFile(s)
  \/ CheckPid(s) \/ Unlink(s) \/ CloseFile(s)

Next ==
  \/ \E p \in Proc : StartStep(p)
  \/ \E s \in Stopper : ReadPid(s) \/ StopStep(s)

Spec == Init /\ [][Next]_vars

\* A stop command goes on to its end, its wait has a timeout; SIGKILL takes effect.
\* Nothing makes a daemon obey SIGTERM.
Fairness ==
  /\ \A s \in Stopper : WF_vars(StopStep(s))
  /\ \A p \in Proc : WF_vars(p \in killed /\ Die(p))

FairSpec == Spec /\ Fairness

----------------------------------------------------------------------------
\* Properties

Owner == {"locked", "writing", "running"}

\* The lock file a live daemon holds is not unlinked, by however many stop commands
\* that work on PIDs and files they have read before it started.
LiveLockStays ==
  [][\A p \in Proc : pc[p] \in Owner /\ fd[p] = path => path' = path]_vars

\* A running daemon's PID is in the file it holds: a start that is refused and a
\* stop that is late leave it there for the stop that needs it.
PidIsRecorded == \A p \in Proc : pc[p] = "running" => content[fd[p]] = p

\* A stop command that waits for a daemon gets it down, obedient or not.
StopStops ==
  \A p \in Proc :
    (\E s \in Stopper : spc[s] = "waiting" /\ target[s] = p) ~> (pc[p] = "gone")

\* lock.py: "ensures only one hybro-hub daemon runs per machine".
OneDaemon == \A p, q \in Proc : pc[p] = "running" /\ pc[q] = "running" => p = q
====
