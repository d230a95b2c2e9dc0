------------------------------ MODULE Download ------------------------------
(***************************************************************************)
(* scripts/download: the shell script every package's make process calls   *)
(* to bring a source archive into the shared download directory.  Several  *)
(* invocations for the same archive (parallel builds, other build trees,   *)
(* other hosts on a shared directory) agree through a hard-linked lock     *)
(* file.  The state is the four files of one archive, the archive DST,     *)
(* the temporary DST.part, the lock DST.lock and each invocation's         *)
(* DST.lock.<host>.<pid>, and where each shell is in the script.           *)
(*                                                                         *)
(* A shell runs its traps between commands, so a signal that arrives while *)
(* wget runs waits for wget.  SIGKILL ends a shell at any point and leaves *)
(* its wget running.  An invocation that was killed does not return with   *)
(* the same <host>.<pid> (the LOCKER id is unique).                        *)
(***************************************************************************)
EXTENDS Naturals

CONSTANTS
  Proc,          \* invocations, named by their LOCKER id "<host>.<pid>"
  Signals,       \* the trapped signals: INT, QUIT, TERM
  Killable,      \* the invocations SIGKILL (or the OOM killer) may hit
  MaxRuns,       \* how often make may call the script again per invocation
  DiskMayFill,   \* whether writing the invocation's own lock may fail
  RepeatSignals, \* whether one invocation may get the same signal twice
  NoFile,        \* the file does not exist
  Blank          \* the file exists and is empty

ASSUME ConstantsAssumption ==
  /\ Killable \subseteq Proc
  /\ MaxRuns \in Nat
  /\ DiskMayFill \in BOOLEAN
  /\ RepeatSignals \in BOOLEAN
  /\ NoFile \notin Proc
  /\ Blank \notin Proc
  /\ NoFile # Blank

VARIABLES
  dst, part,     \* contents of DST and DST.part
  fileLock,      \* what cat "$FILE_LOCK" prints, or NoFile
  ourLock,       \* per invocation, its own lock file
  wget,          \* per invocation, its wget process
  pc,            \* per invocation, the command the shell is at
  trapped,       \* per invocation, the signals whose trap is still set
  pending,       \* per invocation, the signals waiting for their trap
  status,        \* per invocation, its exit status so far
  runs           \* per invocation, how often it was started

shellVars == <<trapped, pending, runs>>
vars == <<dst, part, fileLock, ourLock, wget, pc, status, shellVars>>

Contents == {"absent", "partial", "whole"}
Dead     == {"signalled", "died", "killed"}
Stopped  == Dead \cup {"idle", "done"}
\* Between a successful ln and the exit trap.
Locked   == {"check", "fetch", "wget", "mv", "rm"}
OnExit   == {"exit", "unlock", "cleanup"}
Labels   == Stopped \cup {"write", "link"} \cup Locked \cup OnExit

Init ==
  /\ dst \in {"absent", "whole"}
  /\ part \in {"absent", "partial"}
  /\ fileLock = NoFile
  /\ ourLock  = [p \in Proc |-> NoFile]
  /\ wget     = [p \in Proc |-> "none"]
  /\ pc       = [p \in Proc |-> "idle"]
  /\ trapped  = [p \in Proc |-> {}]
  /\ pending  = [p \in Proc |-> {}]
  /\ status   = [p \in Proc |-> "none"]
  /\ runs     = [p \in Proc |-> 0]

Goto(p, label) == pc' = [pc EXCEPT ![p] = label]

\* A command of p's shell runs only when no trap is due.
At(p, label) == pc[p] = label /\ pending[p] = {}

-----------------------------------------------------------------------------
(* The script *)

\* make calls the script, which sets its traps.
Start(p) ==
  /\ pc[p] \in {"idle", "done"}
  /\ runs[p] < MaxRuns
  /\ runs' = [runs EXCEPT ![p] = @ + 1]
  /\ trapped' = [trapped EXCEPT ![p] = Signals]
  /\ status' = [status EXCEPT ![p] = "none"]
  /\ Goto(p, "write")
  /\ UNCHANGED <<dst, part, fileLock, ourLock, wget, pending>>

\* echo "$LOCKER" > "$OUR_LOCK".  Its failure is not looked at: the file is
\* then empty, or not there at all.
WriteOurLock(p) ==
  /\ At(p, "write")
  /\ \E content \in {p} \cup (IF DiskMayFill THEN {Blank, NoFile} ELSE {}) :
       ourLock' = [ourLock EXCEPT ![p] = content]
  /\ Goto(p, "link")
  /\ UNCHANGED <<dst, part, fileLock, wget, status, shellVars>>

\* Mutants of Lock: the link replaces another one (ln -f), and the test for
\* DST after the wait is forgotten.
LockForced(p) ==
  /\ At(p, "link")
  /\ ourLock[p] # NoFile
  /\ fileLock' = ourLock[p]
  /\ Goto(p, "check")
  /\ UNCHANGED <<dst, part, ourLock, wget, status, shellVars>>

LockUnchecked(p) ==
  /\ At(p, "link")
  /\ fileLock = NoFile
  /\ ourLock[p] # NoFile
  /\ fileLock' = ourLock[p]
  /\ Goto(p, "fetch")
  /\ UNCHANGED <<dst, part, ourLock, wget, status, shellVars>>

\* ln "$OUR_LOCK" "$FILE_LOCK" && break.  A failing ln changes nothing, so
\* the sleep and the retry are the absence of this step.
Lock(p) ==
  /\ At(p, "link")
  /\ fileLock = NoFile
  /\ ourLock[p] # NoFile
  /\ fileLock' = ourLock[p]
  /\ Goto(p, "check")
  /\ UNCHANGED <<dst, part, ourLock, wget, status, shellVars>>

\* if [ -f "$DST" ]: somebody else fetched it while we waited.
FoundDst(p) ==
  /\ At(p, "check")
  /\ dst # "absent"
  /\ status' = [status EXCEPT ![p] = "ok"]
  /\ Goto(p, "exit")
  /\ UNCHANGED <<dst, part, fileLock, ourLock, wget, shellVars>>

MissesDst(p) ==
  /\ At(p, "check")
  /\ dst = "absent"
  /\ Goto(p, "fetch")
  /\ UNCHANGED <<dst, part, fileLock, ourLock, wget, status, shellVars>>

\* wget -O truncates DST.part and starts filling it.
StartWget(p) ==
  /\ At(p, "fetch")
  /\ wget' = [wget EXCEPT ![p] = "running"]
  /\ part' = "partial"
  /\ Goto(p, "wget")
  /\ UNCHANGED <<dst, fileLock, ourLock, status, shellVars>>

\* wget is a process of its own: these steps are also those of a wget whose
\* shell was killed.
WgetDone(p) ==
  /\ wget[p] = "running"
  /\ wget' = [wget EXCEPT ![p] = "ok"]
  /\ part' = "whole"
  /\ UNCHANGED <<dst, fileLock, ourLock, pc, status, shellVars>>

WgetFailed(p) ==
  /\ wget[p] = "running"
  /\ wget' = [wget EXCEPT ![p] = "failed"]
  /\ UNCHANGED <<dst, part, fileLock, ourLock, pc, status, shellVars>>

\* Mutant of ReapWget: wget's exit status is not looked at.
ReapIgnored(p) ==
  /\ pc[p] = "wget"
  /\ wget[p] \in {"ok", "failed"}
  /\ wget' = [wget EXCEPT ![p] = "none"]
  /\ Goto(p, "mv")
  /\ UNCHANGED <<dst, part, fileLock, ourLock, status, shellVars>>

\* ret=$?; the branch on it is the label.  The shell notices the end of wget
\* whether or not a signal is pending: the trap runs after it.
ReapWget(p) ==
  /\ pc[p] = "wget"
  /\ wget[p] \in {"ok", "failed"}
  /\ wget' = [wget EXCEPT ![p] = "none"]
  /\ Goto(p, IF wget[p] = "ok" THEN "mv" ELSE "rm")
  /\ UNCHANGED <<dst, part, fileLock, ourLock, status, shellVars>>

\* mv "$DST.part" "$DST"; exit $ret.
Publish(p) ==
  /\ At(p, "mv")
  /\ dst' = IF part = "absent" THEN dst ELSE part
  /\ part' = "absent"
  /\ status' = [status EXCEPT ![p] = "ok"]
  /\ Goto(p, "exit")
  /\ UNCHANGED <<fileLock, ourLock, wget, shellVars>>

\* Mutant of Discard: exit without $ret, the status of rm.
DiscardExitsZero(p) ==
  /\ At(p, "rm")
  /\ part' = "absent"
  /\ status' = [status EXCEPT ![p] = "ok"]
  /\ Goto(p, "exit")
  /\ UNCHANGED <<dst, fileLock, ourLock, wget, shellVars>>

\* rm -f "$DST.part"; exit $ret.
Discard(p) ==
  /\ At(p, "rm")
  /\ part' = "absent"
  /\ status' = [status EXCEPT ![p] = "fail"]
  /\ Goto(p, "exit")
  /\ UNCHANGED <<dst, fileLock, ourLock, wget, shellVars>>

-----------------------------------------------------------------------------
(* on_exit, run by the EXIT trap and by the signal traps *)

\* Mutants of ReadLocker: the lock is released without comparing its owner,
\* and never.
ReadAnyLocker(p) ==
  /\ At(p, "exit")
  /\ Goto(p, IF fileLock # NoFile THEN "unlock" ELSE "cleanup")
  /\ UNCHANGED <<dst, part, fileLock, ourLock, wget, status, shellVars>>

ReadNoLocker(p) ==
  /\ At(p, "exit")
  /\ Goto(p, "cleanup")
  /\ UNCHANGED <<dst, part, fileLock, ourLock, wget, status, shellVars>>

ReadLocker(p) ==
  /\ At(p, "exit")
  /\ Goto(p, IF fileLock = p THEN "unlock" ELSE "cleanup")
  /\ UNCHANGED <<dst, part, fileLock, ourLock, wget, status, shellVars>>

Unlock(p) ==
  /\ At(p, "unlock")
  /\ fileLock' = NoFile
  /\ Goto(p, "cleanup")
  /\ UNCHANGED <<dst, part, ourLock, wget, status, shellVars>>

\* rm -f "$OUR_LOCK", then the shell ends: a signal trap re-raises its
\* signal (trapped # Signals tells that one ran), the EXIT trap does not.
Cleanup(p) ==
  /\ At(p, "cleanup")
  /\ ourLock' = [ourLock EXCEPT ![p] = NoFile]
  /\ Goto(p, IF trapped[p] = Signals THEN "done" ELSE "signalled")
  /\ UNCHANGED <<dst, part, fileLock, wget, status, shellVars>>

-----------------------------------------------------------------------------
(* Signals *)

\* A signal whose trap is set waits for the current command; once the trap
\* was reset by "trap - $sig", the same signal ends the shell on the spot.
Signal(p, s) ==
  /\ pc[p] \notin Stopped
  /\ IF s \in trapped[p]
     THEN /\ pending' = [pending EXCEPT ![p] = @ \cup {s}]
          /\ UNCHANGED <<pc, status>>
     ELSE /\ RepeatSignals
          /\ Goto(p, "died")
          /\ status' = [status EXCEPT ![p] = "fail"]
          /\ UNCHANGED pending
  /\ UNCHANGED <<dst, part, fileLock, ourLock, wget, trapped, runs>>

\* Mutant of RunTrap: the trap re-raises the signal without on_exit.
RunTrapUnclean(p, s) ==
  /\ pc[p] \notin Stopped \cup {"wget"}
  /\ s \in pending[p]
  /\ pending' = [pending EXCEPT ![p] = @ \ {s}]
  /\ trapped' = [trapped EXCEPT ![p] = @ \ {s}]
  /\ status' = [status EXCEPT ![p] = "fail"]
  /\ Goto(p, "signalled")
  /\ UNCHANGED <<dst, part, fileLock, ourLock, wget, runs>>

\* trap - $sig ; on_exit ; kill -$sig $$.  It may interrupt another on_exit.
RunTrap(p, s) ==
  /\ pc[p] \notin Stopped \cup {"wget"}
  /\ s \in pending[p]
  /\ pending' = [pending EXCEPT ![p] = @ \ {s}]
  /\ trapped' = [trapped EXCEPT ![p] = @ \ {s}]
  /\ status' = [status EXCEPT ![p] = "fail"]
  /\ Goto(p, "exit")
  /\ UNCHANGED <<dst, part, fileLock, ourLock, wget, runs>>

Kill(p) ==
  /\ p \in Killable
  /\ pc[p] \notin Stopped
  /\ Goto(p, "killed")
  /\ status' = [status EXCEPT ![p] = "fail"]
  /\ UNCHANGED <<dst, part, fileLock, ourLock, wget, shellVars>>

-----------------------------------------------------------------------------
Script(p) ==
  \/ WriteOurLock(p) \/ Lock(p) \/ FoundDst(p) \/ MissesDst(p)
  \/ StartWget(p) \/ ReapWget(p) \/ Publish(p) \/ Discard(p)
  \/ ReadLocker(p) \/ Unlock(p) \/ Cleanup(p)
  \/ \E s \in Signals : RunTrap(p, s)

Wget(p) == WgetDone(p) \/ WgetFailed(p)

Next == \E p \in Proc :
          \/ Start(p) \/ Script(p) \/ Wget(p) \/ Kill(p)
          \/ \E s \in Signals : Signal(p, s)

Spec == Init /\ [][Next]_vars

\* A shell that can run does, and wget ends (it has timeouts and a bounded
\* number of tries).  ln polls once a second, which is weak fairness only.
Fairness == \A p \in Proc : WF_vars(Script(p)) /\ WF_vars(Wget(p))

FairSpec == Spec /\ Fairness

-----------------------------------------------------------------------------
(* Properties *)

\* The variables stay within their types.
TypeOK ==
  /\ dst \in Contents
  /\ part \in Contents
  /\ fileLock \in Proc \cup {Blank, NoFile}
  /\ ourLock \in [Proc -> Proc \cup {Blank, NoFile}]
  /\ wget \in [Proc -> {"none", "running", "ok", "failed"}]
  /\ pc \in [Proc -> Labels]
  /\ trapped \in [Proc -> SUBSET Signals]
  /\ pending \in [Proc -> SUBSET Signals]
  /\ status \in [Proc -> {"none", "ok", "fail"}]
  /\ runs \in [Proc -> 0..MaxRuns]

\* p may still touch DST.part: its shell is in the locked part of the
\* script, or its wget, perhaps orphaned, is still writing.
Touches(p) == pc[p] \in Locked \/ wget[p] = "running"

\* Never do two invocations work on DST.part at once, whatever signals,
\* kills, full disks and orphaned wgets there are (lines 34-58).
OneDownloader == \A p, q \in Proc : Touches(p) /\ Touches(q) => p = q

\* "the final file never exists with partial content" (lines 50-51).
NeverPartial == dst # "partial"

\* An invocation that ended by itself, or through one signal, leaves neither
\* lock behind, so those who wait for it can go on (on_exit, lines 15-29).
\* Excluded: the lock file it could not write its id to, and the shell that a
\* second signal of the same kind ends in its trap, before on_exit is through:
\* its lock stays, though lines 25-26 promise to "cleanup and re-raise".
LeavesNoLock ==
  \A p \in Proc : pc[p] \in {"done", "signalled"} =>
                    fileLock # p /\ ourLock[p] = NoFile

\* Exit status 0 means that the archive is there: what make relies on when
\* it goes on to verify and unpack $(srctree)/download/%.
SuccessMeansArchive == \A p \in Proc : status[p] = "ok" => dst = "whole"

\* The callers see an archive that appears once and whole.
CallerState(p) ==
  CASE pc[p] = "idle" -> "idle"
    [] pc[p] # "idle" /\ status[p] = "none" -> "busy"
    [] OTHER -> status[p]

Fetches == INSTANCE AtomicFetch WITH
             present <- dst = "whole",
             caller  <- [p \in Proc |-> CallerState(p)]

\* scripts/download implements AtomicFetch.
ImplementsAtomicFetch == Fetches!Spec

\* Without SIGKILL, full disks and repeated signals no invocation waits for
\* the lock for ever.
EveryRunEnds == \A p \in Proc : pc[p] \notin Stopped ~> pc[p] \in Stopped
-----------------------------------------------------------------------------
(* The inductive invariant, in named parts *)

\* While p may touch DST.part the lock file exists and names p, or p could
\* not write its id into it.
LockNamesHolder == \A p \in Proc : Touches(p) => fileLock \in {p, Blank}

\* The lock file names only who is in the locked part of the script, on its
\* way to release it, or was ended without running on_exit.  A lock file of
\* one's own never holds somebody else's id.
LockIsExplained ==
  \A p \in Proc :
    /\ ourLock[p] \in {p, Blank, NoFile}
    /\ pc[p] = "unlock" => fileLock = p
    /\ fileLock = p =>
         pc[p] \in Locked \cup {"exit", "unlock", "died", "killed"}
    /\ pc[p] \in {"done", "signalled"} => ourLock[p] = NoFile

WgetHasShell == \A p \in Proc : wget[p] # "none" => pc[p] \in {"wget", "killed", "died"}

\* What the shell learnt from wget's exit status still holds when it acts.
PartIsReady ==
  \A p \in Proc :
    pc[p] = "mv" \/ (pc[p] = "wget" /\ wget[p] = "ok") => part = "whole"

\* What the test of line 45 saw still holds at the mv of line 55.
StillMissing ==
  \A p \in Proc : pc[p] \in {"fetch", "wget", "mv", "rm"} => dst = "absent"

StatusIsSet ==
  \A p \in Proc : status[p] = "none" <=>
                   pc[p] \in {"idle", "write", "link"} \cup Locked

\* The inductive invariant behind the theorems of DownloadProofs: the lock
\* excludes, and what each shell has seen of the files still holds.
IndInv ==
  /\ TypeOK
  /\ OneDownloader
  /\ LockNamesHolder
  /\ LockIsExplained
  /\ WgetHasShell
  /\ PartIsReady
  /\ StillMissing
  /\ StatusIsSet
  /\ NeverPartial
  /\ SuccessMeansArchive
=============================================================================
